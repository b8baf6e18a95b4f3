---------------------------- MODULE ObservedBook ----------------------------
(***************************************************************************)
(* The order book with what follows it step by step: the words of its      *)
(* bitmaps and the history of arrivals.                                    *)
(***************************************************************************)
EXTENDS BookPriority, PriceLadder

observedVars == <<vars, arrivals, ladderVars>>

ObservedInit == Init /\ ArrivalsInit /\ LadderInit

Observe == ArrivalsStep /\ LadderStep

ObservedNext ==
    \/ Match /\ Observe
    \/ \E s \in Slots : Cancel(s) /\ Observe

ObservedSpec == ObservedInit /\ [][ObservedNext]_observedVars
=============================================================================
