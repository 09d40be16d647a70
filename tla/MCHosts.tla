------------------------------- MODULE MCHosts -------------------------------
(* Schedulers that contend for one deployment and what surrounds them, side   *)
(* by side: the lease that elects a host, the building and closing of the     *)
(* runtimes, the backup and restore of their files, and the skill that submits *)
(* a bundle of plans.  They share no state; `focus` names the one whose        *)
(* behaviours are explored while the others rest.                              *)
EXTENDS MCScheduledPlans, EtcdLease, RuntimeLifecycle, BackupRestore, SkillWorkflow

CONSTANTS f1, f2

VARIABLE focus

-----------------------------------------------------------------------------
\* Plans over two devices: one, two that may need confirmation, or three, whose
\* chain may skip a plan.
PlansOn(C) == [touches : {{f1}, {f2}, {f1, f2}}, confirm : C]
SomeProposals ==
    {<<a>> : a \in PlansOn(BOOLEAN)}
    \cup {<<a, b>> : a \in PlansOn(BOOLEAN), b \in [touches : {{f1}}, confirm : {TRUE}]}
    \cup {<<a, b, c>> : a \in PlansOn({FALSE}), b \in PlansOn({FALSE}), c \in PlansOn({FALSE})}

-----------------------------------------------------------------------------
SchedulesRest == UNCHANGED vars
LeaseRests    == UNCHANGED etcdVars
RuntimesRest  == UNCHANGED lifecycleVars
FilesRest     == UNCHANGED backupVars
SkillRests    == UNCHANGED workflowVars

HostsInit ==
    /\ focus \in {"schedules", "lease", "runtimes", "backup", "skill"}
    /\ Init /\ EtcdInit /\ LifecycleInit /\ BackupInit /\ WorkflowInit
    /\ focus # "runtimes" => engine = "sqlite"
    /\ focus # "skill" => bound = "v3"

HostsNext ==
    /\ \/ focus = "schedules" /\ Next /\ LeaseRests /\ RuntimesRest /\ FilesRest /\ SkillRests
       \/ focus = "lease" /\ EtcdNext /\ SchedulesRest /\ RuntimesRest /\ FilesRest /\ SkillRests
       \/ focus = "runtimes" /\ LifecycleNext /\ SchedulesRest /\ LeaseRests /\ FilesRest /\ SkillRests
       \/ focus = "backup" /\ BackupNext /\ SchedulesRest /\ LeaseRests /\ RuntimesRest /\ SkillRests
       \/ focus = "skill" /\ WorkflowNext /\ SchedulesRest /\ LeaseRests /\ RuntimesRest /\ FilesRest
    /\ UNCHANGED focus

HostsSpec ==
    HostsInit /\ [][HostsNext]_<<focus, vars, etcdVars, lifecycleVars, backupVars, workflowVars>>

\* The type invariant of the part that moves.
HostsTypeOK ==
    CASE focus = "schedules" -> TypeOK
      [] focus = "lease"     -> EtcdTypeOK
      [] focus = "runtimes"  -> LifecycleTypeOK
      [] focus = "backup"    -> BackupTypeOK
      [] focus = "skill"     -> WorkflowTypeOK
=============================================================================
