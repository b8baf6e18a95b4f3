---------------------------- MODULE MCOrderBook ----------------------------
(* Three slots and two clients, so that levels have queues and an incoming *)
(* order two orders to choose from.  With words of two bits, prices 2, 4   *)
(* and 5 of 0 .. 6 are: two of one word, and words of different groups.    *)
EXTENDS ObservedBook, TLC

CONSTANTS s1, s2, s3, c1, c2

ThreeSlots == {s1, s2, s3}
TwoClients == {c1, c2}
ThreePrices == {2, 4, 5}
SlotsAndClients == Permutations(ThreeSlots) \cup Permutations(TwoClients)
=============================================================================
