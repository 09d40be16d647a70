------------------------------ MODULE MCControl ------------------------------
(* One host that executes plans, the control takeover those plans go through,  *)
(* and the inventory they were validated against.  PlanExecution keeps of the  *)
(* others what the plan's outcome needs; ControlTakeover keeps the actuator    *)
(* and its leases, DeviceInventory the registry and its revision.  `focus`     *)
(* names the one whose behaviours are explored while the others rest.          *)
EXTENDS MCPlanExecution, ControlTakeover, DeviceInventory

CONSTANTS n1, n2, n3, sA, sB, lamp

VARIABLE focus

-----------------------------------------------------------------------------
(* Two entities of one source and one of another, all of the same name.        *)
Listing    == <<n1, n2, n3>>
TwoSources == (n1 :> sA) @@ (n2 :> sA) @@ (n3 :> sB)
OwnDevice  == [e \in {n1, n2, n3} |-> e]
SameName   == [e \in {n1, n2, n3} |-> lamp]

Report(limit) == [canon |-> NoName, max |-> limit, up |-> TRUE, wellFormed |-> TRUE]
Insists   == [Report(0) EXCEPT !.canon = lamp]
Absent    == [Report(0) EXCEPT !.up = FALSE]
Malformed == [Report(1) EXCEPT !.wellFormed = FALSE]

\* An entity comes and goes, changes its metadata, is malformed, is offline, or
\* is said to be the same device as another.
Discoveries ==
    {(n1 :> Report(1)) @@ (n2 :> Report(1)),
     (n1 :> Report(2)) @@ (n3 :> Insists),
     (n1 :> Report(1)) @@ (n2 :> Malformed) @@ (n3 :> Absent),
     (n3 :> Insists)}

-----------------------------------------------------------------------------
ControlInit ==
    /\ focus \in {"execution", "takeover", "inventory"}
    /\ Init /\ TakeoverInit /\ InventoryInit
    /\ focus # "takeover" => ~power

ControlNext ==
    /\ \/ focus = "execution" /\ Next /\ UNCHANGED takeoverVars /\ UNCHANGED inventoryVars
       \/ focus = "takeover" /\ TakeoverNext /\ UNCHANGED vars /\ UNCHANGED inventoryVars
       \/ focus = "inventory" /\ InventoryNext /\ UNCHANGED vars /\ UNCHANGED takeoverVars
    /\ UNCHANGED focus

\* TakeoverFairness while the takeover is the one that moves.
ControlFairness ==
    /\ WF_takeoverVars(focus = "takeover" /\ TakeoverTick)
    /\ WF_takeoverVars(/\ focus = "takeover"
                       /\ StopStep(Supervisor) \/ \E o \in Orders : Supervise(o))

ControlSpec ==
    /\ ControlInit /\ [][ControlNext]_<<focus, vars, takeoverVars, inventoryVars>>
    /\ ControlFairness
=============================================================================
