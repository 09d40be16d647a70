---------------------------- MODULE BackupRestore ----------------------------
(***************************************************************************)
(* The SQLite files of a deployment, who may own them, and how they are    *)
(* copied and put back:                                                    *)
(*   application/runtime_ownership.py   the lock and the ownership row     *)
(*   application/runtime_factory.py     opening before owning, closing     *)
(*                                      after releasing                    *)
(*   admin/cli.py                       release-stale                      *)
(*   persistence/backup.py              create, verify, restore            *)
(*                                                                         *)
(* A database is a main file and a log (-wal); what is committed stays in  *)
(* the log until its last connection closes.  A content is a stamp and, in *)
(* the operational database, the ownership row.  A process that dies       *)
(* releases its lock and leaves its files.                                 *)
(***************************************************************************)
EXTENDS Naturals, FiniteSets

CONSTANTS
    MaxRuns,        \* bound: runtime processes, started one after the other
    Backups,        \* bound: backup directories
    NoBackup,
    MaxStamp,       \* bound: versions of the data
    MaxRestores,    \* bound: restores
    MaxBlows        \* bound: failures, kills and damaged files

Runs == 1..MaxRuns
NoRun == 0
TheRestore == MaxRuns + 1       \* as a holder of the lock

ASSUME BackupAssumption == {MaxRuns, MaxStamp, MaxRestores, MaxBlows} \subseteq Nat

Archives == {"operational", "audit"}

VARIABLES
    files,      \* member -> [main, log] in the data directory
    proc,       \* run -> "new", "opened", "owner", "closing", "gone"
    handles,    \* run -> members whose open file is the directory's own
    lock,       \* SQLiteAdvisoryLock: a run, the restore or NoRun
    dirs,       \* backup -> [at, copy, sums]: at "copying", "manifest", "marked", "removed"
    restore,    \* the restore: [at, from, staged, saved]
    rollbacks,  \* rollback directories
    replaced,   \* the data directories that a restore began to replace
    shared,     \* a runtime had its databases open while the restore held the lock
    stamp, restores, blows

backupVars == <<files, proc, handles, lock, dirs, restore, rollbacks, replaced, shared, stamp, restores, blows>>

Absent == [stamp |-> 0, owner |-> NoRun]
Garbage == [stamp |-> MaxStamp + 1, owner |-> NoRun]
NoContents == [m \in Archives |-> Absent]
NoRestore == [at |-> "idle", from |-> NoBackup, staged |-> NoContents,
         saved |-> [m \in Archives |-> [main |-> Absent, log |-> Absent]]]

BackupInit ==
    /\ files = [m \in Archives |-> [main |-> Absent, log |-> Absent]]
    /\ proc = [r \in Runs |-> "new"] /\ handles = [r \in Runs |-> {}]
    /\ lock = NoRun
    /\ dirs = [b \in Backups |-> [at |-> "copying", copy |-> NoContents, sums |-> NoContents]]
    /\ restore = NoRestore
    /\ rollbacks = {} /\ replaced = {} /\ shared = FALSE
    /\ stamp = 1 /\ restores = 0 /\ blows = 0

-----------------------------------------------------------------------------
(* Databases. *)

\* What a connection reads: the log, if there is one, over the main file.
Seen(f) == IF f.log = Absent THEN f.main ELSE f.log
Committed(f, content) == [main |-> f.main, log |-> content]
Checkpointed(f) == [main |-> Seen(f), log |-> Absent]

Users(m) == {r \in Runs : m \in handles[r]}
\* The last connection closes: SQLite folds the log into the main file.
ClosedBy(r, m) == IF Users(m) = {r} THEN Checkpointed(files[m]) ELSE files[m]
ClosedByAdmin(f) == IF Users("operational") = {} THEN Checkpointed(f) ELSE f

Owner == Seen(files["operational"]).owner

\* A transaction that sets one field of a database's content.
WriteStamp(m, s) ==
    files' = [files EXCEPT ![m] = Committed(files[m], [Seen(files[m]) EXCEPT !.stamp = s])]
Leased(f, r) == Committed(f, [Seen(f) EXCEPT !.owner = r])
WriteOwner(r) ==
    files' = [files EXCEPT !["operational"] = Leased(files["operational"], r)]

Blow == blows < MaxBlows /\ blows' = blows + 1

-----------------------------------------------------------------------------
(* Runtimes. *)

\* build_runtime opens, and creates, its databases before it owns anything.
OpenFiles(r) ==
    /\ proc[r] = "new" /\ \A s \in 1..r - 1 : proc[s] # "new"
    /\ proc' = [proc EXCEPT ![r] = "opened"]
    /\ handles' = [handles EXCEPT ![r] = Archives]
    /\ files' = [m \in Archives |->
                    IF files[m].main = Absent
                      THEN [main |-> [stamp |-> 1, owner |-> NoRun], log |-> Absent]
                      ELSE files[m]]
    /\ shared' = (shared \/ lock = TheRestore)
    /\ UNCHANGED <<lock, dirs, restore, rollbacks, replaced, stamp, restores, blows>>

\* RuntimeOwnershipRepository.acquire, read through the run's own connection: the
\* file a restore has replaced was released when it was replaced.
MayOwn(r) == "operational" \in handles[r] => Owner = NoRun

\* The run closes its databases and is gone.
LeaveFiles(r) ==
    /\ proc' = [proc EXCEPT ![r] = "gone"]
    /\ handles' = [handles EXCEPT ![r] = {}]
    /\ files' = [m \in Archives |-> IF m \in handles[r] THEN ClosedBy(r, m) ELSE files[m]]

\* RuntimeOwnership.acquire: the process lock, then the row, in its database.
Own(r) ==
    /\ proc[r] = "opened"
    /\ IF lock = NoRun /\ MayOwn(r)
         THEN /\ lock' = r
              /\ proc' = [proc EXCEPT ![r] = "owner"]
              /\ IF "operational" \in handles[r] THEN WriteOwner(r) ELSE UNCHANGED files
              /\ UNCHANGED handles
         ELSE LeaveFiles(r) /\ UNCHANGED lock
    /\ UNCHANGED <<dirs, restore, rollbacks, replaced, shared, stamp, restores, blows>>

\* A commit of the owner, or of the storage queue a closing runtime drains.
CommitTo(r, m) ==
    /\ proc[r] \in {"owner", "closing"} /\ m \in handles[r]
    /\ stamp < MaxStamp
    /\ stamp' = stamp + 1
    /\ WriteStamp(m, stamp + 1)
    /\ UNCHANGED <<proc, handles, lock, dirs, restore, rollbacks, replaced, shared, restores, blows>>

\* RuntimeOwnership.release: the row, if that succeeds, and the lock in any case.
ReleaseOwnership(r) ==
    /\ proc[r] = "owner"
    /\ proc' = [proc EXCEPT ![r] = "closing"]
    /\ lock' = NoRun
    /\ \/ /\ IF "operational" \in handles[r] /\ Owner = r THEN WriteOwner(NoRun)
                                                          ELSE UNCHANGED files
          /\ UNCHANGED blows
       \/ Blow /\ UNCHANGED files
    /\ UNCHANGED <<handles, dirs, restore, rollbacks, replaced, shared, stamp, restores>>

\* _close_impl closes the storage and the databases after the release.
CloseRuntime(r) ==
    /\ proc[r] = "closing"
    /\ LeaveFiles(r)
    /\ UNCHANGED <<lock, dirs, restore, rollbacks, replaced, shared, stamp, restores, blows>>

KillRuntime(r) ==
    /\ proc[r] \in {"opened", "owner", "closing"}
    /\ Blow
    /\ proc' = [proc EXCEPT ![r] = "gone"]
    /\ handles' = [handles EXCEPT ![r] = {}]
    /\ lock' = IF lock = r THEN NoRun ELSE lock
    /\ UNCHANGED <<files, dirs, restore, rollbacks, replaced, shared, stamp, restores>>

\* Mutant: release-stale does not wait for the lock.
NobodyAliveUnasked == TRUE

NobodyAlive == lock = NoRun

\* release-stale: under the lock, the row of a named owner.
ReleaseStale(r) ==
    /\ NobodyAlive
    /\ Owner = r
    /\ files' = [files EXCEPT !["operational"] =
                    ClosedByAdmin(Leased(files["operational"], NoRun))]
    /\ UNCHANGED <<proc, handles, lock, dirs, restore, rollbacks, replaced, shared, stamp, restores, blows>>

-----------------------------------------------------------------------------
(* BackupService.create and verify. *)

\* Each member by the online backup, and the digest of its copy.
CopyMember(b, m) ==
    /\ dirs[b].at = "copying" /\ dirs[b].sums[m] = Absent
    /\ \A k \in Archives : files[k].main # Absent
    /\ dirs' = [dirs EXCEPT ![b] =
           [at |-> "copying", copy |-> [dirs[b].copy EXCEPT ![m] = Seen(files[m])],
            sums |-> [dirs[b].sums EXCEPT ![m] = Seen(files[m])]]]
    /\ UNCHANGED <<files, proc, handles, lock, restore, rollbacks, replaced, shared, stamp, restores, blows>>

\* The manifest, and then the marker, of a directory that has every member; the
\* rename that publishes it changes neither.
Describe(b) ==
    /\ \/ /\ dirs[b].at = "copying" /\ \A m \in Archives : dirs[b].sums[m] # Absent
          /\ dirs' = [dirs EXCEPT ![b] = [dirs[b] EXCEPT !.at = "manifest"]]
       \/ dirs[b].at = "manifest" /\ dirs' = [dirs EXCEPT ![b] = [dirs[b] EXCEPT !.at = "marked"]]
    /\ UNCHANGED <<files, proc, handles, lock, restore, rollbacks, replaced, shared, stamp, restores, blows>>

\* A failure or a cancellation removes the directory; a kill leaves it as it is.
AbandonBackup(b) ==
    /\ dirs[b].at \in {"copying", "manifest"} /\ dirs[b].copy # NoContents
    /\ Blow
    /\ dirs' = [dirs EXCEPT ![b] = [at |-> "removed", copy |-> NoContents, sums |-> NoContents]]
    /\ UNCHANGED <<files, proc, handles, lock, restore, rollbacks, replaced, shared, stamp, restores>>

\* Someone, or the disk, damages a copy.
Damage(b, m) ==
    /\ dirs[b].copy[m] \notin {Absent, Garbage}
    /\ Blow
    /\ dirs' = [dirs EXCEPT ![b] =
           [dirs[b] EXCEPT !.copy = [dirs[b].copy EXCEPT ![m] = Garbage]]]
    /\ UNCHANGED <<files, proc, handles, lock, restore, rollbacks, replaced, shared, stamp, restores>>

\* _load_manifest refuses a directory without its marker, or of another digest;
\* _verify_sqlite_member a member that is not the one described.
Complete(b) == dirs[b].at = "marked"
Intact(b) == dirs[b].copy = dirs[b].sums
Verifies(b) == Complete(b) /\ Intact(b)

-----------------------------------------------------------------------------
(* BackupService.restore. *)

Onward(at) == restore' = [restore EXCEPT !.at = at]
EndRestore == restore' = NoRestore /\ lock' = NoRun

BeginRestore(b) ==
    /\ restore.at = "idle" /\ restores < MaxRestores
    /\ Verifies(b)
    /\ restores' = restores + 1
    /\ restore' = [NoRestore EXCEPT !.at = "verified", !.from = b]
    /\ UNCHANGED <<files, proc, handles, lock, dirs, rollbacks, replaced, shared, stamp, blows>>

LockTarget ==
    /\ restore.at = "verified"
    /\ IF lock = NoRun
         THEN lock' = TheRestore /\ Onward("locked")
         ELSE restore' = NoRestore /\ UNCHANGED lock
    /\ shared' = (shared \/ (lock = NoRun /\ \E r \in Runs : handles[r] # {}))
    /\ UNCHANGED <<files, proc, handles, dirs, rollbacks, replaced, stamp, restores, blows>>

\* _assert_target_ownership_safe opens and closes the operational database.
CheckTarget ==
    /\ restore.at = "locked"
    /\ IF Owner = NoRun THEN Onward("safe") /\ UNCHANGED lock ELSE EndRestore
    /\ files' = [files EXCEPT !["operational"] = ClosedByAdmin(files["operational"])]
    /\ UNCHANGED <<proc, handles, dirs, rollbacks, replaced, shared, stamp, restores, blows>>

\* _migrate_staged_members, _reset_staged_ownership: a copy without its lease.
Unowned(contents) == [m \in Archives |-> [contents[m] EXCEPT !.owner = NoRun]]

\* The members are copied and verified as copied.
StageMembers ==
    /\ restore.at = "safe"
    /\ IF Intact(restore.from)
         THEN /\ restore' = [restore EXCEPT !.at = "staged",
                                           !.staged = Unowned(dirs[restore.from].copy)]
              /\ UNCHANGED lock
         ELSE EndRestore
    /\ UNCHANGED <<files, proc, handles, dirs, rollbacks, replaced, shared, stamp, restores, blows>>

\* _copy_target_for_rollback: a directory left empty is removed in the end.
SaveTarget ==
    /\ restore.at = "staged"
    /\ restore' = [restore EXCEPT !.at = "swap audit", !.saved = files]
    /\ rollbacks' = rollbacks \cup {files}
    /\ UNCHANGED <<files, proc, handles, lock, dirs, replaced, shared, stamp, restores, blows>>

\* What _replace_target does, in the order of the manifest's sorted members.
AfterSwap(m) == IF m = "audit" THEN "log audit" ELSE "log operational"
AfterLog(m) == IF m = "audit" THEN "swap operational" ELSE "done"

\* os.replace: an open connection keeps the file it had.
SwapMember(m) ==
    /\ restore.at = (IF m = "audit" THEN "swap audit" ELSE "swap operational")
    /\ files' = [files EXCEPT ![m] = [main |-> restore.staged[m], log |-> files[m].log]]
    /\ handles' = [r \in Runs |-> handles[r] \ {m}]
    /\ replaced' = IF m = "audit" THEN replaced \cup {files} ELSE replaced
    /\ Onward(AfterSwap(m))
    /\ UNCHANGED <<proc, lock, dirs, rollbacks, shared, stamp, restores, blows>>

UnlinkLog(m) ==
    /\ restore.at = AfterSwap(m)
    /\ files' = [files EXCEPT ![m] = [main |-> files[m].main, log |-> Absent]]
    /\ Onward(AfterLog(m))
    /\ UNCHANGED <<proc, handles, lock, dirs, rollbacks, replaced, shared, stamp, restores, blows>>

Replacing == {"swap audit", "log audit", "swap operational", "log operational"}
Undoing == {"undo operational", "undo audit"}

\* An error before the replacement ends the restore; one during it, or in the
\* last fsync, starts the rollback; one in the rollback leaves it there.
RestoreFails ==
    /\ Blow
    /\ \/ restore.at \in {"locked", "safe", "staged"} /\ EndRestore
       \/ restore.at \in Replacing \cup {"done"} /\ Onward("undo operational") /\ UNCHANGED lock
       \/ restore.at \in Undoing /\ EndRestore
    /\ UNCHANGED <<files, proc, handles, dirs, rollbacks, replaced, shared, stamp, restores>>

\* _rollback_target copies over, in the order of MEMBER_FILENAMES.
UndoMember ==
    /\ restore.at \in Undoing
    /\ LET m == IF restore.at = "undo operational" THEN "operational" ELSE "audit" IN
         /\ files' = [files EXCEPT ![m] = restore.saved[m]]
         /\ Onward(IF m = "operational" THEN "undo audit" ELSE "undone")
    /\ UNCHANGED <<proc, handles, lock, dirs, rollbacks, replaced, shared, stamp, restores, blows>>

FinishRestore ==
    /\ restore.at \in {"done", "undone"}
    /\ EndRestore
    /\ UNCHANGED <<files, proc, handles, dirs, rollbacks, replaced, shared, stamp, restores, blows>>

KillRestore ==
    /\ restore.at # "idle"
    /\ Blow
    /\ restore' = NoRestore
    /\ lock' = IF lock = TheRestore THEN NoRun ELSE lock
    /\ UNCHANGED <<files, proc, handles, dirs, rollbacks, replaced, shared, stamp, restores>>

BackupNext ==
    \/ \E r \in Runs : \/ OpenFiles(r) \/ Own(r) \/ ReleaseOwnership(r) \/ CloseRuntime(r)
                       \/ KillRuntime(r) \/ ReleaseStale(r)
                       \/ \E m \in Archives : CommitTo(r, m)
    \/ \E b \in Backups : \/ Describe(b) \/ AbandonBackup(b) \/ BeginRestore(b)
                          \/ \E m \in Archives : CopyMember(b, m) \/ Damage(b, m)
    \/ LockTarget \/ CheckTarget \/ StageMembers \/ SaveTarget
    \/ \E m \in Archives : SwapMember(m) \/ UnlinkLog(m)
    \/ RestoreFails \/ UndoMember \/ FinishRestore \/ KillRestore

BackupSpec == BackupInit /\ [][BackupNext]_backupVars

-----------------------------------------------------------------------------
Contents == [stamp : 0..MaxStamp + 1, owner : Runs \cup {NoRun}]
Files == [Archives -> [main : Contents, log : Contents]]

BackupTypeOK ==
    /\ files \in Files /\ restore.saved \in Files /\ rollbacks \subseteq Files
    /\ proc \in [Runs -> {"new", "opened", "owner", "closing", "gone"}]
    /\ handles \in [Runs -> SUBSET Archives]
    /\ lock \in Runs \cup {NoRun, TheRestore}
    /\ \A b \in Backups : /\ dirs[b].at \in {"copying", "manifest", "marked", "removed"}
                          /\ {dirs[b].copy, dirs[b].sums} \subseteq [Archives -> Contents]
    /\ restore.at \in {"idle", "verified", "locked", "safe", "staged", "done", "undone"}
                    \cup Replacing \cup Undoing
    /\ stamp \in 1..MaxStamp /\ restores \in 0..MaxRestores /\ blows \in 0..MaxBlows

\* One process owns the files.  However runtimes, stale-owner releases, restores
\* and kills interleave, at most one runtime believes it owns the deployment, no
\* file is replaced under it, the row in the database names it, and its
\* connections are to the files in the data directory - unless it, or a runtime
\* that was closing, had them open while a restore held the lock.
OwnerIsAlone ==
    /\ \A r, s \in Runs : proc[r] = "owner" /\ proc[s] = "owner" => r = s
    /\ \A r \in Runs : proc[r] = "owner" =>
          /\ lock = r
          /\ ~shared => handles[r] = Archives /\ Owner = r

\* A restore is all or nothing.  When it succeeds the directory holds exactly the
\* members of one complete backup, unowned, and no log of what was there before;
\* when it fails and rolls back it holds what it held.  Whatever happens, the
\* files that were there, logs included, are in place or in a rollback directory,
\* through kills, failed rollbacks and further restores.
RestoreIsWhole ==
    ~shared =>
        /\ restore.at = "done" =>
              \A m \in Archives :
                 /\ files[m] = [main |-> Unowned(dirs[restore.from].sums)[m], log |-> Absent]
                 /\ files[m].main # Absent
        /\ restore.at = "undone" => files = restore.saved
        /\ replaced \subseteq rollbacks \cup {files}

\* One runtime at a time has the files, and a restore replaces all of them or none.
FilesAreSafe == OwnerIsAlone /\ RestoreIsWhole
=============================================================================
