------------------------------ MODULE OSCApply ------------------------------
(***************************************************************************)
(* What the node agent promises about last-applied-osc.yaml, whatever the  *)
(* phases in between: a reconciliation reads the OSC published in the      *)
(* secret, and then either commits exactly what it read as the new        *)
(* baseline or abandons it (a crash, or the agent stopping itself).  The   *)
(* secret may be updated at any time.                                      *)
(***************************************************************************)
CONSTANTS
    OSCValue,   \* the OSCs that can be published
    Initial,    \* the baseline before the first reconciliation
    None        \* no reconciliation in progress

VARIABLES
    osc,        \* the OSC published in the secret
    applied,    \* last-applied-osc.yaml
    reading     \* the OSC the reconciliation in progress read, or None

vars == <<osc, applied, reading>>

Init ==
    /\ osc = Initial
    /\ applied = Initial
    /\ reading = None

Publish ==
    /\ osc' \in OSCValue \ {osc}
    /\ UNCHANGED <<applied, reading>>

Read ==
    /\ reading = None
    /\ reading' = osc
    /\ UNCHANGED <<osc, applied>>

Commit ==
    /\ reading # None
    /\ applied' = reading
    /\ reading' = None
    /\ UNCHANGED osc

Abandon ==
    /\ reading # None
    /\ reading' = None
    /\ UNCHANGED <<osc, applied>>

Next == Publish \/ Read \/ Commit \/ Abandon

Spec == Init /\ [][Next]_vars

=============================================================================
