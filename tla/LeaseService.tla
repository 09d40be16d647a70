----------------------------- MODULE LeaseService -----------------------------
(***************************************************************************)
(* What the runtime relies on when it fences physical writes with a lease: *)
(* one lease at a time, and an epoch that no later lease shares.  EtcdLease *)
(* implements it; PlanExecution uses it.                                   *)
(***************************************************************************)
EXTENDS Naturals

VARIABLES
    current,   \* epoch of the lease in force, 0 when there is none
    last       \* epoch of the last lease there was

LeaseServiceInit == current = 0 /\ last = 0

Take == current = 0 /\ last' = last + 1 /\ current' = last'

Drop == current # 0 /\ current' = 0 /\ UNCHANGED last

LeaseServiceSpec == LeaseServiceInit /\ [][Take \/ Drop]_<<current, last>>
=============================================================================
