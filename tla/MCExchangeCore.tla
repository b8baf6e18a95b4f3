-------------------------- MODULE MCExchangeCore ---------------------------
(* Two workers and two clients, on the same worker or on different ones.   *)
(* Worker 0 has one usable slot and worker 1 has two, so slots are reused  *)
(* at once and the other worker's slice is next to the end of the first.   *)
EXTENDS ExchangeCore, TLC

CONSTANTS a, b, t1, t2

TwoClients == {a, b}
TwoTokens == {t1, t2}
ClientsAndTokens == Permutations(TwoClients) \cup Permutations(TwoTokens)
=============================================================================
