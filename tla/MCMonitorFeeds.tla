--------------------------- MODULE MCMonitorFeeds ---------------------------
(***************************************************************************)
(* The two files the monitor maps, for TLC: the statistics region and the  *)
(* audit trail.  They share nothing, so each is explored by itself.        *)
(***************************************************************************)
EXTENDS StatsSeqlock, AuditTrail

VARIABLE mapped   \* which of them is explored

FeedsInit == mapped \in {"stats", "audit"} /\ StatsInit /\ TrailInit

InStats(A) == mapped = "stats" /\ A /\ UNCHANGED <<mapped, trail_vars>>
InTrail(A) == mapped = "audit" /\ A /\ UNCHANGED <<mapped, stats_vars>>

FeedsNext == InStats(StatsNext) \/ InTrail(TrailNext)

feeds_vars == <<mapped, stats_vars, trail_vars>>

\* As AuditTrail says.
FeedsSpec ==
    /\ FeedsInit /\ [][FeedsNext]_feeds_vars
    /\ WF_feeds_vars(InTrail(Manager)) /\ WF_feeds_vars(InTrail(Poll \/ Yield))
=============================================================================
