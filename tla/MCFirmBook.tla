----------------------------- MODULE MCFirmBook -----------------------------
(* Constants of the FirmBook models, and a bound: once something has been  *)
(* cancelled the orders sent have the full size and one price, so that     *)
(* there can be enough cancels for a level of the firm's to wrap.          *)
EXTENDS FirmBook, TLC

CONSTANTS s1, s2, c1, c2

MCSlots == {s1, s2}
MCClients == {c1, c2}
MCPrices == {1, 2, 3, 4}
Symmetric == Permutations(MCSlots) \cup Permutations(MCClients)

LaterPrice == 2

BoundedNext ==
    /\ NextFirm
    /\ canceled > 0 /\ cur = NoSlot /\ cur' # NoSlot =>
           order'[cur'].price = LaterPrice /\ order'[cur'].qty = MaxQty

BoundedSpec == InitFirm /\ [][BoundedNext]_<<vars, firmVars>>
=============================================================================
