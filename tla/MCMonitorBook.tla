--------------------------- MODULE MCMonitorBook ---------------------------
(***************************************************************************)
(* Two slots, so that a slot is reused soon, and quantities that leave a   *)
(* partly executed order behind.  Bound: where messages are lost all       *)
(* orders have one price, at which a phantom already crosses.              *)
(***************************************************************************)
EXTENDS MonitorBook, TLC

CONSTANTS s1, s2, c1, c2

TwoSlots == {s1, s2}
TwoClients == {c1, c2}
TwoPrices == {1, 2}

BoundedNext ==
    /\ MonitorNext
    /\ lossless \/ \A s \in Slots : order'[s] # NoOrder => order'[s].price = 1

\* As FairMonitorSpec says.
BoundedSpec == MonitorInit /\ [][BoundedNext]_monitorVars /\ WF_monitorVars(Sweep(1))
=============================================================================
