--------------------------- MODULE ReportsProofs ---------------------------
(***************************************************************************)
(* What the exchange tells the outside: the execution reports it sends     *)
(* each firm, for any report length, any capacities and any numbers of     *)
(* shards, reports and clients, and the market data it broadcasts, for any *)
(* number of shards, any queue capacity and any size of a batch.           *)
(***************************************************************************)
EXTENDS AckStream, Publisher, TLAPS

-----------------------------------------------------------------------------
(* Facts about lists.                                                      *)

\* Two lists of the same length with the same elements are the same.
LEMMA SameSeq ==
    ASSUME NEW S, NEW s \in Seq(S), NEW t \in Seq(S), Len(s) = Len(t),
           \A i \in 1 .. Len(s) : s[i] = t[i]
    PROVE  s = t
  OBVIOUS

\* A slice of a list, and an empty one.
LEMMA Slice ==
    ASSUME NEW S, NEW s, NEW m \in Int, NEW n \in Int, \A i \in m .. n : s[i] \in S
    PROVE  /\ SubSeq(s, m, n) \in Seq(S)
           /\ Len(SubSeq(s, m, n)) = IF m <= n THEN n - m + 1 ELSE 0
           /\ \A i \in 1 .. n - m + 1 : SubSeq(s, m, n)[i] = s[m + i - 1]
  OBVIOUS

LEMMA EmptySlice ==
    ASSUME NEW s, NEW m \in Int, NEW n \in Int, n < m
    PROVE  SubSeq(s, m, n) = <<>>
  OBVIOUS

\* Two lists joined.
LEMMA Joined ==
    ASSUME NEW S, NEW s \in Seq(S), NEW t \in Seq(S)
    PROVE  /\ s \o t \in Seq(S)
           /\ Len(s \o t) = Len(s) + Len(t)
           /\ \A i \in 1 .. Len(s) + Len(t) : (s \o t)[i] = IF i <= Len(s) THEN s[i] ELSE t[i - Len(s)]
  OBVIOUS

LEMMA JoinedEmpty ==
    ASSUME NEW S, NEW s \in Seq(S)
    PROVE  s \o <<>> = s /\ <<>> \o s = s
  OBVIOUS

\* Where an element of three lists joined stands in its own.
LEMMA SecondOfThree ==
    ASSUME NEW k \in Nat, NEW l \in Nat, NEW m \in Nat, NEW n \in 1 .. k + l + m, n > k, n <= k + l
    PROVE  n - k \in 1 .. l /\ k + (n - k) = n
  OBVIOUS

LEMMA ThirdOfThree ==
    ASSUME NEW k \in Nat, NEW l \in Nat, NEW m \in Nat, NEW n \in 1 .. k + l + m, n > k + l
    PROVE  /\ n - k - l \in 1 .. m /\ k + l + (n - k - l) = n
           /\ k + (n - k - l) = n - l /\ n - l \in 1 .. k + m
  OBVIOUS

LEMMA JoinedTwice ==
    ASSUME NEW S, NEW s \in Seq(S), NEW t \in Seq(S), NEW u \in Seq(S)
    PROVE  (s \o t) \o u = s \o (t \o u)
  OBVIOUS

LEMMA Numbers ==
  /\ ReportLen \in Nat /\ ReportLen > 1 /\ OutCap \in Nat /\ SockCap \in Nat /\ AckCap \in Nat
  /\ MaxReports \in Nat /\ MaxClients \in Nat /\ NUM_SHARDS \in Nat \ {0} /\ OutCap >= ReportLen
<1>1. /\ ReportLen \in Nat \ {0} /\ OutCap \in Nat \ {0} /\ SockCap \in Nat \ {0} /\ AckCap \in Nat \ {0}
      /\ MaxReports \in Nat \ {0} /\ MaxClients \in Nat \ {0} /\ NUM_SHARDS \in Nat \ {0}
  BY AckAssumption
<1> QED
  BY <1>1, AckAssumption

AckSet == [client : 1 .. MaxClients, shard : AckShards, report : 1 .. MaxReports]
UnitSet == [client : 1 .. MaxClients, shard : AckShards, report : 1 .. MaxReports, part : 1 .. ReportLen]

-----------------------------------------------------------------------------
(* Streams of units: cut at the front, cut at the end, extended.           *)

Chain(w) == (\A i \in 1 .. Len(w) - 1 : Follows(w[i], w[i + 1])) /\ InShardOrder(w)
Ends(w) == w # <<>> => w[Len(w)].part = ReportLen

\* Report r of shard q is not on w, and all of that shard on w are older; w's client is c.
Older(w, q, r) == \A i \in DOMAIN w : w[i].report # r /\ (w[i].shard = q => w[i].report < r)
Of(w, c) == \A i \in DOMAIN w : w[i].client = c

LEMMA Front ==
  ASSUME NEW w \in Seq(UnitSet), NEW k \in 0 .. Len(w)
  PROVE  LET u == SubSeq(w, 1, k)
         IN  /\ u \in Seq(UnitSet) /\ Len(u) = k /\ \A i \in 1 .. k : u[i] = w[i]
             /\ Chain(w) => Chain(u)
             /\ \A q, r : Older(w, q, r) => Older(u, q, r)
             /\ \A c : Of(w, c) => Of(u, c)
<1> DEFINE u == SubSeq(w, 1, k)
<1>0. Len(w) \in Nat /\ k \in Nat /\ k <= Len(w) /\ DOMAIN w = 1 .. Len(w)
  OBVIOUS
<1>1. \A i \in 1 .. k : w[i] \in UnitSet
  BY <1>0
<1>2. u \in Seq(UnitSet) /\ Len(u) = k /\ \A i \in 1 .. k : u[i] = w[i]
  <2>1. u \in Seq(UnitSet) /\ Len(u) = (IF 1 <= k THEN k - 1 + 1 ELSE 0)
        /\ \A i \in 1 .. k - 1 + 1 : u[i] = w[1 + i - 1]
    BY <1>0, <1>1, Slice
  <2> QED BY <1>0, <2>1
<1> HIDE DEF u
<1>3. DOMAIN u = 1 .. k
  BY <1>2
<1>4. ASSUME Chain(w) PROVE Chain(u)
  <2>1. \A i \in 1 .. Len(u) - 1 : Follows(u[i], u[i + 1])
    BY <1>0, <1>2, <1>4 DEF Chain
  <2>2. \A i \in DOMAIN u : i \in DOMAIN w /\ u[i] = w[i]
    BY <1>0, <1>2, <1>3
  <2>3. ASSUME NEW i \in DOMAIN u, NEW j \in DOMAIN u, i < j, u[i].shard = u[j].shard
        PROVE  u[i].report < u[j].report \/ (u[i].report = u[j].report /\ u[i].part < u[j].part)
    <3>1. InShardOrder(w) BY <1>4 DEF Chain
    <3>2. i \in DOMAIN w /\ u[i] = w[i] /\ j \in DOMAIN w /\ u[j] = w[j] BY <2>2
    <3> QED BY <2>3, <3>1, <3>2 DEF InShardOrder
  <2> QED BY <2>1, <2>3 DEF Chain, InShardOrder
<1>5. (\A q, r : Older(w, q, r) => Older(u, q, r)) /\ (\A c : Of(w, c) => Of(u, c))
  BY <1>0, <1>2, <1>3 DEF Older, Of
<1> QED
  BY <1>2, <1>4, <1>5 DEF u

LEMMA Back ==
  ASSUME NEW w \in Seq(UnitSet), NEW k \in 0 .. Len(w)
  PROVE  LET u == SubSeq(w, k + 1, Len(w))
         IN  /\ u \in Seq(UnitSet) /\ Len(u) = Len(w) - k /\ \A i \in 1 .. Len(w) - k : u[i] = w[k + i]
             /\ Chain(w) => Chain(u)
             /\ Ends(w) => Ends(u)
             /\ \A q, r : Older(w, q, r) => Older(u, q, r)
             /\ \A c : Of(w, c) => Of(u, c)
<1> DEFINE u == SubSeq(w, k + 1, Len(w))
<1>0. Len(w) \in Nat /\ k \in Nat /\ k <= Len(w) /\ DOMAIN w = 1 .. Len(w)
  OBVIOUS
<1>1. \A i \in k + 1 .. Len(w) : w[i] \in UnitSet
  BY <1>0
<1>2. u \in Seq(UnitSet) /\ Len(u) = Len(w) - k /\ \A i \in 1 .. Len(w) - k : u[i] = w[k + i]
  <2>1. u \in Seq(UnitSet) /\ Len(u) = (IF k + 1 <= Len(w) THEN Len(w) - (k + 1) + 1 ELSE 0)
        /\ \A i \in 1 .. Len(w) - (k + 1) + 1 : u[i] = w[(k + 1) + i - 1]
    BY <1>0, <1>1, Slice
  <2> HIDE DEF u
  <2>2. ASSUME NEW i \in 1 .. Len(w) - k PROVE u[i] = w[k + i]
    <3>1. i \in 1 .. Len(w) - (k + 1) + 1 /\ (k + 1) + i - 1 = k + i BY <1>0
    <3> QED BY <2>1, <3>1
  <2>3. Len(u) = Len(w) - k
    <3>1. CASE k + 1 <= Len(w)
      <4>1. Len(u) = Len(w) - (k + 1) + 1 BY <2>1, <3>1
      <4> QED BY <1>0, <4>1
    <3>2. CASE ~(k + 1 <= Len(w))
      <4>1. Len(u) = 0 BY <2>1, <3>2
      <4>2. ASSUME NEW a \in Nat, NEW b \in Nat, b <= a, ~(b + 1 <= a) PROVE a - b = 0
        BY <4>2, SMTT(30)
      <4>3. Len(w) - k = 0 BY <1>0, <3>2, <4>2, Zenon
      <4> QED BY <4>1, <4>3
    <3> QED BY <3>1, <3>2
  <2> QED BY <2>1, <2>2, <2>3
<1> HIDE DEF u
<1>3. DOMAIN u = 1 .. Len(w) - k
  BY <1>2
<1>4. ASSUME NEW i \in DOMAIN u PROVE k + i \in DOMAIN w /\ u[i] = w[k + i] /\ i \in Int
  BY <1>0, <1>2, <1>3
<1>6. ASSUME Chain(w) PROVE Chain(u)
  <2>1. ASSUME NEW i \in 1 .. Len(u) - 1 PROVE Follows(u[i], u[i + 1])
    <3>1. k + i \in 1 .. Len(w) - 1 /\ u[i] = w[k + i] /\ u[i + 1] = w[(k + i) + 1]
      <4>1. i + 1 \in 1 .. Len(w) - k /\ i \in 1 .. Len(w) - k /\ k + (i + 1) = (k + i) + 1
        BY <1>0, <1>2
      <4> QED BY <1>0, <1>2, <4>1
    <3> QED BY <1>6, <3>1 DEF Chain
  <2>3. ASSUME NEW i \in DOMAIN u, NEW j \in DOMAIN u, i < j, u[i].shard = u[j].shard
        PROVE  u[i].report < u[j].report \/ (u[i].report = u[j].report /\ u[i].part < u[j].part)
    <3>1. InShardOrder(w) BY <1>6 DEF Chain
    <3>2. k + i \in DOMAIN w /\ u[i] = w[k + i] /\ k + j \in DOMAIN w /\ u[j] = w[k + j] BY <1>4
    <3>3. k + i < k + j BY <1>0, <1>4, <2>3
    <3> QED BY <2>3, <3>1, <3>2, <3>3 DEF InShardOrder
  <2> QED BY <2>1, <2>3 DEF Chain, InShardOrder
<1>5. Ends(w) => Ends(u)
  <2> SUFFICES ASSUME Ends(w), u # <<>> PROVE u[Len(u)].part = ReportLen
    BY DEF Ends
  <2>1. Len(u) \in 1 .. Len(w) - k /\ k + Len(u) = Len(w) /\ w # <<>>
    BY <1>0, <1>2
  <2> QED BY <1>2, <2>1, ZenonT(30) DEF Ends
<1>7. (\A q, r : Older(w, q, r) => Older(u, q, r)) /\ (\A c : Of(w, c) => Of(u, c))
  BY <1>4 DEF Older, Of
<1> QED
  BY <1>2, <1>5, <1>6, <1>7 DEF u

\* A part of a concatenation.
LEMMA Both ==
  ASSUME NEW s \in Seq(UnitSet), NEW o \in Seq(UnitSet)
  PROVE  /\ s \o o \in Seq(UnitSet) /\ Len(s \o o) = Len(s) + Len(o)
         /\ \A q, r : Older(s \o o, q, r) <=> Older(s, q, r) /\ Older(o, q, r)
         /\ \A c : Of(s \o o, c) <=> Of(s, c) /\ Of(o, c)
<1> DEFINE w == s \o o
<1>1. /\ w \in Seq(UnitSet) /\ Len(w) = Len(s) + Len(o) /\ Len(s) \in Nat /\ Len(o) \in Nat
      /\ \A i \in 1 .. Len(s) + Len(o) : w[i] = IF i <= Len(s) THEN s[i] ELSE o[i - Len(s)]
      /\ DOMAIN s = 1 .. Len(s) /\ DOMAIN o = 1 .. Len(o) /\ DOMAIN w = 1 .. Len(s) + Len(o)
  BY Joined
<1> HIDE DEF w
<1>2. \A i \in DOMAIN s : i \in DOMAIN w /\ w[i] = s[i]
  BY <1>1
<1>3. \A i \in DOMAIN o : Len(s) + i \in DOMAIN w /\ w[Len(s) + i] = o[i]
  BY <1>1
<1>4. \A i \in DOMAIN w : (i \in DOMAIN s /\ w[i] = s[i]) \/ (i - Len(s) \in DOMAIN o /\ w[i] = o[i - Len(s)])
  BY <1>1
<1>5. ASSUME NEW q, NEW r PROVE Older(w, q, r) <=> Older(s, q, r) /\ Older(o, q, r)
  BY <1>2, <1>3, <1>4 DEF Older
<1>6. ASSUME NEW c PROVE Of(w, c) <=> Of(s, c) /\ Of(o, c)
  BY <1>2, <1>3, <1>4 DEF Of
<1> QED
  BY <1>1, <1>5, <1>6 DEF w

LEMMA UnitsOf ==
  ASSUME NEW ack \in AckSet
  PROVE  /\ Units(ack) \in Seq(UnitSet) /\ Len(Units(ack)) = ReportLen
         /\ \A i \in 1 .. ReportLen : /\ Units(ack)[i].report = ack.report
                                      /\ Units(ack)[i].client = ack.client
                                      /\ Units(ack)[i].shard = ack.shard
                                      /\ Units(ack)[i].part = i
<1>1. ASSUME NEW i \in 1 .. ReportLen PROVE Unit(ack, i) \in UnitSet
  BY DEF AckSet, Unit, UnitSet
<1>2. Units(ack) \in [1 .. ReportLen -> UnitSet]
  BY <1>1 DEF Units
<1> QED
  BY <1>2, Numbers DEF Units, Unit

\* Report r of shard q is another one than ack's, and younger if it is of the same shard.
Younger(ack, q, r) == r # ack.report /\ (q = ack.shard => ack.report < r)

\* A whole report, younger than those of its shard, at the end of a stream of whole reports.
LEMMA Extend ==
  ASSUME NEW w \in Seq(UnitSet), NEW ack \in AckSet, Chain(w), Ends(w), Older(w, ack.shard, ack.report)
  PROVE  LET u == w \o Units(ack)
         IN  /\ u \in Seq(UnitSet) /\ Len(u) = Len(w) + ReportLen /\ u # <<>>
             /\ Chain(u) /\ Ends(u)
             /\ \A q, r : Older(w, q, r) /\ Younger(ack, q, r) => Older(u, q, r)
             /\ \A c : Of(w, c) /\ ack.client = c => Of(u, c)
<1> DEFINE x == Units(ack)
           u == w \o x
<1>n. ReportLen \in Nat /\ ReportLen > 1
  BY Numbers
<1>0. /\ x \in Seq(UnitSet) /\ Len(x) = ReportLen /\ DOMAIN x = 1 .. ReportLen
      /\ \A i \in 1 .. ReportLen : /\ x[i].report = ack.report /\ x[i].client = ack.client
                                   /\ x[i].shard = ack.shard /\ x[i].part = i
  BY UnitsOf
<1> HIDE DEF x
<1>1. /\ u \in Seq(UnitSet) /\ Len(u) = Len(w) + ReportLen /\ Len(w) \in Nat
      /\ \A i \in 1 .. Len(w) + ReportLen : u[i] = IF i <= Len(w) THEN w[i] ELSE x[i - Len(w)]
      /\ DOMAIN w = 1 .. Len(w) /\ DOMAIN u = 1 .. Len(u)
  <2>1. /\ u \in Seq(UnitSet) /\ Len(u) = Len(w) + Len(x)
        /\ \A i \in 1 .. Len(w) + Len(x) : u[i] = IF i <= Len(w) THEN w[i] ELSE x[i - Len(w)]
    BY <1>0, Joined, Zenon
  <2> HIDE DEF u
  <2> QED BY <1>0, <2>1
<1> HIDE DEF u
<1>2. u # <<>>
  BY <1>1, <1>n
<1>3. \A i \in 1 .. Len(w) : u[i] = w[i]
  BY <1>1, <1>n
<1>4. \A i \in 1 .. ReportLen : u[Len(w) + i] = x[i]
  BY <1>1, <1>n
<1>5. ASSUME NEW i \in 1 .. Len(u) - 1 PROVE Follows(u[i], u[i + 1])
  <2>1. CASE i < Len(w)
    <3>1. i \in 1 .. Len(w) - 1 /\ i \in 1 .. Len(w) /\ i + 1 \in 1 .. Len(w) BY <1>1, <2>1
    <3> QED BY <1>3, <3>1 DEF Chain
  <2>2. CASE i = Len(w)
    <3>1. i \in DOMAIN w /\ w # <<>> /\ 1 \in 1 .. ReportLen BY <1>1, <1>n, <2>2
    <3>2. u[i] = w[i] /\ u[i + 1] = x[1] BY <1>1, <1>3, <1>4, <2>2, <3>1
    <3>3. w[i].report # ack.report /\ w[i].part = ReportLen BY <2>2, <3>1, Zenon DEF Older, Ends
    <3> QED BY <1>0, <3>1, <3>2, <3>3, Zenon DEF Follows
  <2>3. CASE i > Len(w)
    <3> DEFINE j == i - Len(w)
    <3>1. j \in 1 .. ReportLen /\ j + 1 \in 1 .. ReportLen /\ i = Len(w) + j /\ i + 1 = Len(w) + (j + 1)
      BY <1>1, <1>n, <2>3
    <3> HIDE DEF j
    <3>2. u[i] = x[j] /\ u[i + 1] = x[j + 1] BY <1>4, <3>1
    <3>3. /\ u[i].report = u[i + 1].report /\ u[i].shard = u[i + 1].shard
          /\ u[i].part = j /\ u[i + 1].part = j + 1
      BY <1>0, <3>1, <3>2
    <3> QED BY <3>3 DEF Follows
  <2>4. i \in Int /\ Len(w) \in Int BY <1>1
  <2> QED BY <2>1, <2>2, <2>3, <2>4
<1>6. Ends(u)
  <2>1. ReportLen \in 1 .. ReportLen BY <1>n
  <2> QED BY <1>0, <1>1, <1>4, <2>1 DEF Ends
<1>7. ASSUME NEW i \in DOMAIN u
      PROVE  \/ i \in DOMAIN w /\ u[i] = w[i]
             \/ /\ i > Len(w) /\ u[i].report = ack.report /\ u[i].client = ack.client
                /\ u[i].shard = ack.shard /\ u[i].part = i - Len(w)
  <2>1. CASE i \in 1 .. Len(w) BY <1>1, <1>3, <2>1
  <2>2. CASE i \notin 1 .. Len(w)
    <3>1. i - Len(w) \in 1 .. ReportLen /\ i = Len(w) + (i - Len(w)) /\ i > Len(w) BY <1>1, <1>n, <2>2
    <3> QED BY <1>0, <1>4, <3>1
  <2> QED BY <2>1, <2>2
<1>8. InShardOrder(u)
  <2> SUFFICES ASSUME NEW i \in DOMAIN u, NEW j \in DOMAIN u, i < j, u[i].shard = u[j].shard
               PROVE  u[i].report < u[j].report \/ (u[i].report = u[j].report /\ u[i].part < u[j].part)
    BY Zenon DEF InShardOrder
  <2>1. CASE i \in DOMAIN w /\ u[i] = w[i] /\ j \in DOMAIN w /\ u[j] = w[j]
    BY <2>1, Zenon DEF Chain, InShardOrder
  <2>2. CASE i \in DOMAIN w /\ u[i] = w[i] /\ u[j].report = ack.report /\ u[j].shard = ack.shard
    BY <2>2, Zenon DEF Older
  <2>3. CASE /\ u[i].report = ack.report /\ u[i].part = i - Len(w)
             /\ u[j].report = ack.report /\ u[j].part = j - Len(w)
    <3>1. i - Len(w) < j - Len(w) BY <1>1
    <3> QED BY <2>3, <3>1, Zenon
  <2>4. i > Len(w) => j \notin DOMAIN w
    BY <1>1
  <2> QED BY <1>7, <2>1, <2>2, <2>3, <2>4, Zenon
<1>9. Chain(u)
  BY <1>5, <1>8 DEF Chain
<1>10. ASSUME NEW q, NEW r, Older(w, q, r), Younger(ack, q, r) PROVE Older(u, q, r)
  BY <1>7, <1>10, Zenon DEF Older, Younger
<1>11. ASSUME NEW c, Of(w, c), ack.client = c PROVE Of(u, c)
  BY <1>7, <1>11, Zenon DEF Of
<1> QED
  BY <1>1, <1>2, <1>6, <1>9, <1>10, <1>11, Zenon DEF u, x

\* A flush moves units from out_buf to the kernel and leaves the stream as it is.
LEMMA FlushKeeps ==
  ASSUME NEW s \in Seq(UnitSet), NEW o \in Seq(UnitSet), NEW k \in 0 .. Len(o)
  PROVE  LET p == SubSeq(o, 1, k)
             q == SubSeq(o, k + 1, Len(o))
         IN  /\ (s \o p) \o q = s \o o
             /\ s \o p = SubSeq(s \o o, 1, Len(s) + k)
             /\ Len(s) + k \in 0 .. Len(s \o o)
<1> DEFINE p == SubSeq(o, 1, k)
           q == SubSeq(o, k + 1, Len(o))
<1>0. k \in Nat /\ k <= Len(o) /\ Len(o) \in Nat /\ Len(s) \in Nat
  OBVIOUS
<1>1. p \in Seq(UnitSet) /\ Len(p) = k /\ \A i \in 1 .. k : p[i] = o[i]
  BY Front
<1>2. q \in Seq(UnitSet) /\ Len(q) = Len(o) - k /\ \A i \in 1 .. Len(o) - k : q[i] = o[k + i]
  BY Back
<1> HIDE DEF p, q
<1>3. /\ s \o o \in Seq(UnitSet) /\ Len(s \o o) = Len(s) + Len(o)
      /\ \A i \in 1 .. Len(s) + Len(o) : (s \o o)[i] = IF i <= Len(s) THEN s[i] ELSE o[i - Len(s)]
  BY Joined
<1>4. /\ s \o p \in Seq(UnitSet) /\ Len(s \o p) = Len(s) + k
      /\ \A i \in 1 .. Len(s) + k : (s \o p)[i] = IF i <= Len(s) THEN s[i] ELSE p[i - Len(s)]
  BY <1>1, Joined, Zenon
<1> DEFINE w == s \o o
           f == s \o p
           g == f \o q
<1> HIDE DEF w, f
<1>5. /\ g \in Seq(UnitSet) /\ Len(g) = Len(s) + k + (Len(o) - k)
      /\ \A i \in 1 .. Len(s) + k + (Len(o) - k) : g[i] = IF i <= Len(s) + k THEN f[i] ELSE q[i - (Len(s) + k)]
  <2>1. f \in Seq(UnitSet) /\ Len(f) = Len(s) + k
    BY <1>4 DEF f
  <2>2. /\ g \in Seq(UnitSet) /\ Len(g) = Len(f) + Len(q)
        /\ \A i \in 1 .. Len(f) + Len(q) : g[i] = IF i <= Len(f) THEN f[i] ELSE q[i - Len(f)]
    BY <1>2, <2>1, Joined, Zenon
  <2> HIDE DEF g
  <2> QED BY <1>2, <2>1, <2>2
<1> HIDE DEF g
<1>6. ASSUME NEW i \in 1 .. Len(s) + k PROVE f[i] = w[i]
  <2>1. CASE i <= Len(s) BY <1>0, <1>3, <1>4, <2>1 DEF f, w
  <2>2. CASE i > Len(s)
    <3>1. i - Len(s) \in 1 .. k /\ i \in 1 .. Len(s) + Len(o) /\ ~(i <= Len(s)) BY <1>0, <2>2
    <3> QED BY <1>1, <1>3, <1>4, <3>1 DEF f, w
  <2> QED BY <1>0, <2>1, <2>2
<1>7. ASSUME NEW i \in 1 .. Len(s) + Len(o) PROVE g[i] = w[i]
  <2>1. CASE i <= Len(s) + k
    <3>1. i \in 1 .. Len(s) + k /\ i \in 1 .. Len(s) + k + (Len(o) - k) BY <1>0, <2>1
    <3> QED BY <1>5, <1>6, <2>1, <3>1
  <2>2. CASE i > Len(s) + k
    <3> DEFINE j == i - (Len(s) + k)
    <3>1. /\ j \in 1 .. Len(o) - k /\ k + j = i - Len(s) /\ ~(i <= Len(s)) /\ ~(i <= Len(s) + k)
          /\ i \in 1 .. Len(s) + k + (Len(o) - k)
      BY <1>0, <2>2
    <3>2. g[i] = q[j] BY <1>5, <3>1
    <3> HIDE DEF j
    <3>3. q[j] = o[i - Len(s)] BY <1>2, <3>1, Zenon
    <3> QED BY <1>3, <3>1, <3>2, <3>3 DEF w
  <2> QED BY <1>0, <2>1, <2>2
<1>8. g = w
  <2>1. Len(g) = Len(w) /\ Len(w) = Len(s) + Len(o) /\ w \in Seq(UnitSet) BY <1>0, <1>3, <1>5 DEF w
  <2> QED BY <1>5, <1>7, <2>1, SameSeq, Zenon
<1>9. Len(s) + k \in 0 .. Len(w) /\ w \in Seq(UnitSet)
  BY <1>0, <1>3 DEF w
<1>10. f = SubSeq(w, 1, Len(s) + k)
  <2> DEFINE v == SubSeq(w, 1, Len(s) + k)
  <2>1. v \in Seq(UnitSet) /\ Len(v) = Len(s) + k /\ \A i \in 1 .. Len(s) + k : v[i] = w[i]
    BY <1>9, Front
  <2> HIDE DEF v
  <2>2. f \in Seq(UnitSet) /\ Len(f) = Len(s) + k BY <1>4 DEF f
  <2>3. f = v BY <1>6, <2>1, <2>2, SameSeq
  <2> QED BY <2>3 DEF v
<1> QED
  BY <1>8, <1>9, <1>10, Zenon DEF p, q, w, f, g

\* A recv() takes units from the front of the stream.
LEMMA ReadKeeps ==
  ASSUME NEW s \in Seq(UnitSet), NEW o \in Seq(UnitSet), NEW n \in 0 .. Len(s)
  PROVE  /\ SubSeq(s, n + 1, Len(s)) \o o = SubSeq(s \o o, n + 1, Len(s \o o))
         /\ n \in 0 .. Len(s \o o)
<1> DEFINE r == SubSeq(s, n + 1, Len(s))
           w == s \o o
<1>0. n \in Nat /\ n <= Len(s) /\ Len(s) \in Nat /\ Len(o) \in Nat
  OBVIOUS
<1>1. r \in Seq(UnitSet) /\ Len(r) = Len(s) - n /\ \A i \in 1 .. Len(s) - n : r[i] = s[n + i]
  BY Back
<1> HIDE DEF r
<1>2. /\ w \in Seq(UnitSet) /\ Len(w) = Len(s) + Len(o)
      /\ \A i \in 1 .. Len(s) + Len(o) : w[i] = IF i <= Len(s) THEN s[i] ELSE o[i - Len(s)]
  BY Joined
<1> HIDE DEF w
<1>3. n \in 0 .. Len(w)
  BY <1>0, <1>2
<1> DEFINE v == SubSeq(w, n + 1, Len(w))
           g == r \o o
<1>4. v \in Seq(UnitSet) /\ Len(v) = Len(w) - n /\ \A i \in 1 .. Len(w) - n : v[i] = w[n + i]
  BY <1>2, <1>3, Back, Zenon
<1>5. /\ g \in Seq(UnitSet) /\ Len(g) = Len(s) - n + Len(o)
      /\ \A i \in 1 .. Len(s) - n + Len(o) : g[i] = IF i <= Len(s) - n THEN r[i] ELSE o[i - (Len(s) - n)]
  <2>1. /\ g \in Seq(UnitSet) /\ Len(g) = Len(r) + Len(o)
        /\ \A i \in 1 .. Len(r) + Len(o) : g[i] = IF i <= Len(r) THEN r[i] ELSE o[i - Len(r)]
    BY <1>1, Joined, Zenon
  <2> HIDE DEF g
  <2> QED BY <1>1, <2>1
<1> HIDE DEF v, g
<1>6. ASSUME NEW i \in 1 .. Len(s) - n + Len(o) PROVE g[i] = v[i]
  <2>1. n + i \in 1 .. Len(s) + Len(o) /\ i \in 1 .. Len(w) - n BY <1>0, <1>2
  <2>2. v[i] = w[n + i] BY <1>4, <2>1
  <2>3. CASE i <= Len(s) - n
    <3>1. n + i <= Len(s) /\ i \in 1 .. Len(s) - n BY <1>0, <2>3
    <3> QED BY <1>1, <1>2, <1>5, <2>1, <2>2, <2>3, <3>1
  <2>4. CASE ~(i <= Len(s) - n)
    <3>1. ~(n + i <= Len(s)) /\ i - (Len(s) - n) = (n + i) - Len(s) BY <1>0, <2>4
    <3> QED BY <1>2, <1>5, <2>1, <2>2, <2>4, <3>1, Zenon
  <2> QED BY <2>3, <2>4
<1>7. Len(g) = Len(v) /\ Len(g) = Len(s) - n + Len(o)
  BY <1>0, <1>2, <1>4, <1>5
<1>8. g = v
  BY <1>4, <1>5, <1>6, <1>7, SameSeq, Zenon
<1> QED
  BY <1>3, <1>8, Zenon DEF g, v, r, w

-----------------------------------------------------------------------------
(***************************************************************************)
(* A sound connection: c is its client, or 0; s is in the kernel, o in     *)
(* out_buf, ww whether EPOLLOUT is armed, fd the clients that the reverse  *)
(* map holds.                                                              *)
(***************************************************************************)
Sound(s, o, c, ww, fd) ==
    /\ s \in Seq(UnitSet) /\ Len(s) <= SockCap
    /\ o \in Seq(UnitSet) /\ Len(o) <= OutCap
    /\ Chain(s \o o) /\ (c # 0 => Ends(s \o o))
    /\ Of(o, c) /\ (c # 0 => Of(s, c))
    /\ c = 0 => o = <<>>
    /\ ww => c # 0 /\ o # <<>>
    /\ fd = IF c = 0 THEN {} ELSE {c}

LEMMA Empty == <<>> \in Seq(UnitSet) /\ Len(<<>>) = 0 /\ Chain(<<>>) /\ Ends(<<>>)
              /\ (\A c : Of(<<>>, c)) /\ (\A q, r : Older(<<>>, q, r))
  BY DEF Chain, InShardOrder, Ends, Of, Older

LEMMA UnitsJoined == \A s, t, u \in Seq(UnitSet) : (s \o t) \o u = s \o (t \o u)
  BY JoinedTwice

LEMMA SoundAppend ==
  ASSUME NEW s, NEW o, NEW c, NEW ww, NEW fd, Sound(s, o, c, ww, fd),
         NEW ack \in AckSet, ack.client \in fd, Len(o) + ReportLen <= OutCap,
         Older(s \o o, ack.shard, ack.report)
  PROVE  /\ Sound(s, o \o Units(ack), c, ww, fd)
         /\ \A q, r : Older(s \o o, q, r) /\ Younger(ack, q, r) => Older(s \o (o \o Units(ack)), q, r)
<1> DEFINE x == Units(ack)
           w == s \o o
           u == o \o x
<1>1. /\ s \in Seq(UnitSet) /\ o \in Seq(UnitSet) /\ Chain(w) /\ Of(o, c) /\ c # 0 /\ Ends(w) /\ ack.client = c
      /\ Of(s, c) /\ Len(s) <= SockCap /\ (ww => c # 0 /\ o # <<>>) /\ fd = IF c = 0 THEN {} ELSE {c}
  BY DEF Sound
<1>2. x \in Seq(UnitSet) /\ Len(x) = ReportLen /\ Of(x, c)
  <2>1. x \in Seq(UnitSet) /\ Len(x) = ReportLen /\ \A i \in 1 .. ReportLen : x[i].client = ack.client
    BY UnitsOf
  <2> HIDE DEF x
  <2>2. DOMAIN x = 1 .. ReportLen BY <2>1
  <2> QED BY <1>1, <2>1, <2>2 DEF Of
<1>3. w \in Seq(UnitSet)
  BY <1>1, Both
<1>4. s \o u = w \o x
  <2> HIDE DEF x
  <2>1. (s \o o) \o x = s \o (o \o x)
    BY <1>1, <1>2, UnitsJoined, Zenon
  <2> QED BY <2>1, Zenon
<1>5. Chain(w \o x) /\ Ends(w \o x) /\ \A q, r : Older(w, q, r) /\ Younger(ack, q, r) => Older(w \o x, q, r)
  <2> HIDE DEF w
  <2> QED BY <1>1, <1>3, Extend, Zenon DEF w
<1>6. u \in Seq(UnitSet) /\ Len(u) = Len(o) + ReportLen /\ Of(u, c)
  <2> HIDE DEF x
  <2> QED BY <1>1, <1>2, Both, Zenon
<1>7. u # <<>>
  <2> HIDE DEF u
  <2> QED BY <1>1, <1>6, Numbers
<1> HIDE DEF x, w, u
<1>8. Sound(s, u, c, ww, fd)
  BY <1>1, <1>4, <1>5, <1>6, <1>7 DEF Sound
<1> QED
  BY <1>4, <1>5, <1>8 DEF x, u, w

LEMMA TakenFits ==
  ASSUME sock \in Seq(UnitSet), out \in Seq(UnitSet), Len(sock) <= SockCap
  PROVE  Taken \in 0 .. Len(out) /\ Len(sock) + Taken <= SockCap /\ Len(sock) \in Nat /\ Len(out) \in Nat
<1>1. Len(sock) \in Nat /\ Len(out) \in Nat /\ SockCap \in Nat
  BY Numbers
<1> QED
  BY <1>1 DEF Taken

LEMMA SoundFlush ==
  ASSUME Sound(sock, out, client_id, want_write, fd_by_client)
  PROVE  LET s == sock \o SubSeq(out, 1, Taken)
         IN  /\ client_id # 0 => Sound(s, Left, client_id, Left # <<>>, fd_by_client)
             /\ Sound(s, <<>>, 0, FALSE, fd_by_client \ {client_id})
             /\ s \o Left = sock \o out
             /\ \A q, r : Older(sock \o out, q, r) => Older(s \o <<>>, q, r)
<1> DEFINE w == sock \o out
           p == SubSeq(out, 1, Taken)
           s == sock \o p
<1>1. /\ sock \in Seq(UnitSet) /\ Len(sock) <= SockCap /\ out \in Seq(UnitSet) /\ Len(out) <= OutCap
      /\ Chain(w) /\ (client_id # 0 => Ends(w) /\ Of(sock, client_id)) /\ Of(out, client_id)
      /\ fd_by_client = IF client_id = 0 THEN {} ELSE {client_id}
  BY DEF Sound
<1>2. Taken \in 0 .. Len(out) /\ Len(sock) + Taken <= SockCap /\ Len(sock) \in Nat /\ Len(out) \in Nat
  BY <1>1, TakenFits
<1>3. p \in Seq(UnitSet) /\ Len(p) = Taken /\ Of(p, client_id)
  BY <1>1, <1>2, Front
<1>4. Left \in Seq(UnitSet) /\ Len(Left) = Len(out) - Taken /\ Of(Left, client_id)
  BY <1>1, <1>2, Back DEF Left
<1>5. s \o Left = w /\ s = SubSeq(w, 1, Len(sock) + Taken) /\ Len(sock) + Taken \in 0 .. Len(w)
  BY <1>1, <1>2, FlushKeeps, Zenon DEF Left
<1>6. w \in Seq(UnitSet)
  BY <1>1, Both
<1> HIDE DEF w, p
<1>7. s \in Seq(UnitSet) /\ Len(s) = Len(sock) + Taken /\ (client_id # 0 => Of(s, client_id))
  BY <1>1, <1>3, Both, ZenonT(30)
<1> HIDE DEF s
<1>8. Chain(s) /\ \A q, r : Older(w, q, r) => Older(s, q, r)
  BY <1>1, <1>5, <1>6, Front
<1>9. s \o <<>> = s
  BY <1>7, JoinedEmpty
<1>10. Len(Left) <= OutCap
  <2>1. OutCap \in Nat /\ Taken \in Nat BY <1>2, Numbers
  <2> QED BY <1>1, <1>2, <1>4, <2>1
<1>11. client_id # 0 => Sound(s, Left, client_id, Left # <<>>, fd_by_client)
  BY <1>1, <1>2, <1>4, <1>5, <1>7, <1>10 DEF Sound
<1>12. fd_by_client \ {client_id} = {}
  BY <1>1
<1>13. 0 <= OutCap
  BY Numbers
<1>14. Sound(s, <<>>, 0, FALSE, fd_by_client \ {client_id})
  BY <1>2, <1>7, <1>8, <1>9, <1>12, <1>13, Empty DEF Sound
<1> QED
  BY <1>5, <1>8, <1>9, <1>11, <1>14, Zenon DEF s, p, w

LEMMA SoundClose ==
  ASSUME Sound(sock, out, client_id, want_write, fd_by_client)
  PROVE  /\ Sound(sock, <<>>, 0, FALSE, fd_by_client \ {client_id})
         /\ \A q, r : Older(sock \o out, q, r) => Older(sock \o <<>>, q, r)
<1> DEFINE w == sock \o out
<1>1. /\ sock \in Seq(UnitSet) /\ Len(sock) <= SockCap /\ out \in Seq(UnitSet) /\ Chain(w)
      /\ fd_by_client = IF client_id = 0 THEN {} ELSE {client_id}
  BY DEF Sound
<1>2. sock \o <<>> = sock
  BY <1>1, JoinedEmpty
<1>3. 0 \in 0 .. Len(out) /\ Len(sock) + 0 = Len(sock)
  BY <1>1
<1>4. SubSeq(out, 1, 0) = <<>>
  BY EmptySlice
<1>5. sock = SubSeq(w, 1, Len(sock)) /\ Len(sock) \in 0 .. Len(w)
  BY <1>1, <1>2, <1>3, <1>4, FlushKeeps
<1>6. w \in Seq(UnitSet)
  BY <1>1, Both
<1> HIDE DEF w
<1>7. Chain(sock) /\ \A q, r : Older(w, q, r) => Older(sock, q, r)
  <2>1. Chain(w)
    BY <1>1 DEF w
  <2>2. Chain(SubSeq(w, 1, Len(sock))) /\ \A q, r : Older(w, q, r) => Older(SubSeq(w, 1, Len(sock)), q, r)
    BY <1>5, <1>6, <2>1, Front
  <2> QED BY <1>5, <2>2, Zenon
<1>8. fd_by_client \ {client_id} = {} /\ 0 <= OutCap
  BY <1>1, Numbers
<1>9. Sound(sock, <<>>, 0, FALSE, fd_by_client \ {client_id})
  BY <1>1, <1>2, <1>7, <1>8, Empty DEF Sound
<1> QED
  BY <1>2, <1>7, <1>9, Zenon DEF w

LEMMA SoundRead ==
  ASSUME Sound(sock, out, client_id, want_write, fd_by_client), NEW n \in 0 .. Len(sock)
  PROVE  LET s == SubSeq(sock, n + 1, Len(sock))
         IN  /\ Sound(s, out, client_id, want_write, fd_by_client)
             /\ \A q, r : Older(sock \o out, q, r) => Older(s \o out, q, r)
<1> DEFINE w == sock \o out
           s == SubSeq(sock, n + 1, Len(sock))
<1>1. sock \in Seq(UnitSet) /\ out \in Seq(UnitSet) /\ Len(sock) <= SockCap /\ Len(sock) \in Nat
  BY DEF Sound
<1>2. s \o out = SubSeq(w, n + 1, Len(w)) /\ n \in 0 .. Len(w) /\ w \in Seq(UnitSet)
  BY <1>1, ReadKeeps, Both, Zenon
<1>3. s \in Seq(UnitSet) /\ Len(s) = Len(sock) - n /\ (client_id # 0 => Of(s, client_id))
  BY <1>1, Back DEF Sound
<1>4. Chain(w) /\ (client_id # 0 => Ends(w))
  BY DEF Sound
<1> HIDE DEF w, s
<1>5. /\ Chain(s \o out) /\ (client_id # 0 => Ends(s \o out))
      /\ \A q, r : Older(w, q, r) => Older(s \o out, q, r)
  BY <1>2, <1>4, Back
<1>6. Len(s) <= SockCap
  BY <1>1, <1>3, Numbers
<1>7. Sound(s, out, client_id, want_write, fd_by_client)
  BY <1>3, <1>5, <1>6 DEF Sound
<1> QED
  BY <1>5, <1>7 DEF s, w

(***************************************************************************)
(* The ack queues.                                                         *)
(***************************************************************************)
Held(q) == {q[i].report : i \in DOMAIN q}

\* The queue of shard s holds its reports, none after report n, in their order.
QueueOf(s, q, n) ==
    /\ q \in Seq(AckSet) /\ Len(q) <= AckCap
    /\ \A i \in DOMAIN q : q[i].shard = s /\ q[i].report <= n
    /\ \A i, j \in DOMAIN q : i < j => q[i].report < q[j].report

\* No report is in two queues, or in one and on the stream w; report n is the last so far.
QueueIs(a, n, w) ==
    /\ a \in [AckShards -> Seq(AckSet)]
    /\ \A s \in AckShards : QueueOf(s, a[s], n)
    /\ \A s, t \in AckShards : s # t => \A r \in Held(a[s]) : r \notin Held(a[t])
    /\ \A s \in AckShards : Older(w, s, n + 1) /\ \A r \in Held(a[s]) : Older(w, s, r)

LEMMA HeldUpTo ==
  ASSUME NEW s, NEW q, NEW n \in Nat, QueueOf(s, q, n)
  PROVE  \A r \in Held(q) : r \in Int /\ r <= n
<1> SUFFICES ASSUME NEW i \in DOMAIN q PROVE q[i].report \in Int /\ q[i].report <= n
  BY DEF Held
<1>1. q[i] \in AckSet
  BY DEF QueueOf
<1>2. q[i].report \in Int
  BY <1>1, Numbers DEF AckSet
<1> QED BY <1>2 DEF QueueOf

LEMMA QueueLater ==
  ASSUME NEW s, NEW q, NEW n \in Nat, QueueOf(s, q, n)
  PROVE  QueueOf(s, q, n + 1)
<1>1. ASSUME NEW i \in DOMAIN q PROVE q[i].report <= n + 1
  <2>1. q[i].report \in Int /\ q[i].report <= n BY HeldUpTo DEF Held
  <2> QED BY <2>1
<1> QED BY <1>1, Zenon DEF QueueOf

LEMMA QueueGrows ==
  ASSUME NEW s, NEW q, NEW n \in Nat, QueueOf(s, q, n), Len(q) < AckCap,
         NEW k \in AckSet, k.shard = s, k.report = n + 1
  PROVE  QueueOf(s, Append(q, k), n + 1) /\ Held(Append(q, k)) = Held(q) \cup {n + 1}
<1> DEFINE b == Append(q, k)
<1>1. q \in Seq(AckSet) /\ AckCap \in Nat
  BY Numbers DEF QueueOf
<1>2. /\ b \in Seq(AckSet) /\ Len(b) <= AckCap /\ Len(q) \in Nat
      /\ DOMAIN q = 1 .. Len(q) /\ DOMAIN b = 1 .. Len(q) + 1
      /\ \A i \in 1 .. Len(q) : b[i] = q[i]
      /\ b[Len(q) + 1] = k
  BY <1>1
<1> HIDE DEF b
<1>3. ASSUME NEW i \in DOMAIN b
      PROVE  (i \in DOMAIN q /\ b[i] = q[i]) \/ (i = Len(q) + 1 /\ b[i] = k)
  BY <1>2
<1>4. ASSUME NEW i \in DOMAIN q PROVE q[i].report \in Int /\ q[i].report <= n /\ q[i].report < n + 1
  <2>1. q[i].report \in Int /\ q[i].report <= n BY HeldUpTo DEF Held
  <2> QED BY <2>1
<1>5. ASSUME NEW i \in DOMAIN b PROVE b[i].shard = s /\ b[i].report <= n + 1
  <2>1. CASE i \in DOMAIN q /\ b[i] = q[i]
    <3>1. q[i].report <= n + 1 BY <1>4, <2>1
    <3> QED BY <2>1, <3>1 DEF QueueOf
  <2>2. CASE b[i] = k BY <2>2
  <2> QED BY <1>3, <2>1, <2>2
<1>6. ASSUME NEW i \in DOMAIN b, NEW j \in DOMAIN b, i < j PROVE b[i].report < b[j].report
  <2>1. i \in DOMAIN q /\ b[i] = q[i]
    BY <1>2, <1>6
  <2>2. CASE j \in DOMAIN q /\ b[j] = q[j] BY <1>6, <2>1, <2>2, Zenon DEF QueueOf
  <2>3. CASE b[j] = k BY <1>4, <2>1, <2>3, Zenon
  <2> QED BY <1>3, <2>2, <2>3
<1>7. Held(b) = Held(q) \cup {n + 1}
  <2>1. \A i \in DOMAIN q : i \in DOMAIN b /\ b[i] = q[i]
    BY <1>2
  <2>2. Len(q) + 1 \in DOMAIN b
    BY <1>2
  <2>3. \A x \in Held(q) \cup {n + 1} : x \in Held(b)
    BY <1>2, <2>1, <2>2, Zenon DEF Held
  <2>4. \A x \in Held(b) : x \in Held(q) \cup {n + 1}
    BY <1>3, Zenon DEF Held
  <2> QED BY <2>3, <2>4
<1> QED BY <1>2, <1>5, <1>6, <1>7, Zenon DEF QueueOf, b

LEMMA QueueShrinks ==
  ASSUME NEW s, NEW q, NEW n \in Nat, QueueOf(s, q, n), q # <<>>
  PROVE  /\ QueueOf(s, Tail(q), n)
         /\ Head(q) \in AckSet /\ Head(q).shard = s /\ Head(q).report \in Held(q)
         /\ \A r \in Held(Tail(q)) : r \in Held(q) /\ Head(q).report < r
<1> DEFINE b == Tail(q)
           k == Head(q)
<1>1. q \in Seq(AckSet) /\ AckCap \in Nat /\ Len(q) <= AckCap
  BY Numbers DEF QueueOf
<1>2. /\ k \in AckSet /\ k = q[1] /\ 1 \in DOMAIN q
      /\ b \in Seq(AckSet) /\ Len(b) <= AckCap /\ DOMAIN q = 1 .. Len(q) /\ Len(q) \in Nat
      /\ DOMAIN b = 1 .. Len(q) - 1 /\ \A i \in 1 .. Len(q) - 1 : b[i] = q[i + 1]
  BY <1>1
<1> HIDE DEF b, k
<1>3. ASSUME NEW i \in DOMAIN b PROVE i + 1 \in DOMAIN q /\ b[i] = q[i + 1] /\ 1 < i + 1 /\ i \in Int
  BY <1>2
<1>4. k.shard = s /\ k.report \in Held(q)
  BY <1>2, Zenon DEF QueueOf, Held
<1>5. \A i \in DOMAIN b : b[i].shard = s /\ b[i].report <= n
  BY <1>3, Zenon DEF QueueOf
<1>6. ASSUME NEW i \in DOMAIN b, NEW j \in DOMAIN b, i < j PROVE b[i].report < b[j].report
  <2>1. i + 1 < j + 1 BY <1>3, <1>6
  <2> QED BY <1>3, <2>1, Zenon DEF QueueOf
<1>7. \A r \in Held(b) : r \in Held(q) /\ k.report < r
  BY <1>2, <1>3, Zenon DEF Held, QueueOf
<1> QED BY <1>2, <1>4, <1>5, <1>6, <1>7, Zenon DEF QueueOf, b, k

\* A new report, kept in the queue of its shard or dropped.
LEMMA QueueSent ==
  ASSUME NEW a, NEW n \in Nat, NEW w \in Seq(UnitSet), QueueIs(a, n, w), NEW s \in AckShards,
         NEW k \in AckSet, k.shard = s, k.report = n + 1, NEW b,
         b = IF Len(a[s]) < AckCap THEN [a EXCEPT ![s] = Append(@, k)] ELSE a
  PROVE  QueueIs(b, n + 1, w)
<1>1. /\ a \in [AckShards -> Seq(AckSet)]
      /\ \A t \in AckShards : QueueOf(t, a[t], n)
      /\ \A x, y \in AckShards : x # y => \A r \in Held(a[x]) : r \notin Held(a[y])
      /\ \A t \in AckShards : Older(w, t, n + 1) /\ \A r \in Held(a[t]) : Older(w, t, r)
  BY Zenon DEF QueueIs
<1>2. \A t \in AckShards : Older(w, t, n + 1 + 1)
  <2> SUFFICES ASSUME NEW i \in DOMAIN w PROVE w[i].report # n + 1 + 1 /\ w[i].report < n + 1 + 1
    BY Zenon DEF Older
  <2>1. w[i] \in UnitSet OBVIOUS
  <2>2. w[i].shard \in AckShards /\ w[i].report \in Int BY <2>1, Numbers DEF UnitSet
  <2>3. w[i].report < n + 1 BY <1>1, <2>2, Zenon DEF Older
  <2> QED BY <2>2, <2>3
<1>3. CASE ~(Len(a[s]) < AckCap)
  <2>1. b = a BY <1>3
  <2>2. \A t \in AckShards : QueueOf(t, b[t], n + 1) BY <1>1, <2>1, QueueLater, Zenon
  <2> QED BY <1>1, <1>2, <2>1, <2>2, Zenon DEF QueueIs
<1>4. CASE Len(a[s]) < AckCap
  <2>1. QueueOf(s, Append(a[s], k), n + 1) /\ Held(Append(a[s], k)) = Held(a[s]) \cup {n + 1}
    <3>1. QueueOf(s, a[s], n) BY <1>1
    <3> QED BY <1>4, <3>1, QueueGrows
  <2>2. /\ b \in [AckShards -> Seq(AckSet)] /\ b[s] = Append(a[s], k)
        /\ \A t \in AckShards : t # s => b[t] = a[t]
    BY <1>1, <1>4
  <2>3. \A t \in AckShards : QueueOf(t, b[t], n + 1)
    BY <1>1, <2>1, <2>2, QueueLater, Zenon
  <2>4. \A t \in AckShards : n + 1 \notin Held(a[t])
    <3> SUFFICES ASSUME NEW t \in AckShards, n + 1 \in Held(a[t]) PROVE FALSE OBVIOUS
    <3>1. n + 1 <= n BY <1>1, HeldUpTo
    <3> QED BY <3>1
  <2>5. \A t \in AckShards : \A r \in Held(b[t]) : r \in Held(a[t]) \/ (t = s /\ r = n + 1)
    BY <2>1, <2>2
  <2>6. \A x, y \in AckShards : x # y => \A r \in Held(b[x]) : r \notin Held(b[y])
    <3> SUFFICES ASSUME NEW x \in AckShards, NEW y \in AckShards, x # y, NEW r, r \in Held(b[x]), r \in Held(b[y])
                 PROVE  FALSE
      BY Zenon
    <3>1. r \in Held(a[x]) \/ (x = s /\ r = n + 1) BY <2>5
    <3>2. r \in Held(a[y]) \/ (y = s /\ r = n + 1) BY <2>5
    <3> QED BY <1>1, <2>4, <3>1, <3>2
  <2>7. \A t \in AckShards : \A r \in Held(b[t]) : Older(w, t, r)
    BY <1>1, <2>5, Zenon
  <2> QED BY <1>2, <2>2, <2>3, <2>6, <2>7, Zenon DEF QueueIs
<1> QED BY <1>3, <1>4

\* The oldest report of a queue is taken, and at most it is added to the stream.
LEMMA QueueTaken ==
  ASSUME NEW a, NEW n \in Nat, NEW w, QueueIs(a, n, w), NEW s \in AckShards, a[s] # <<>>, NEW v,
         \A q, r : Older(w, q, r) /\ Younger(Head(a[s]), q, r) => Older(v, q, r)
  PROVE  QueueIs([a EXCEPT ![s] = Tail(@)], n, v)
<1> DEFINE b == [a EXCEPT ![s] = Tail(@)]
           k == Head(a[s])
<1>1. /\ a \in [AckShards -> Seq(AckSet)]
      /\ \A t \in AckShards : QueueOf(t, a[t], n)
      /\ \A x, y \in AckShards : x # y => \A r \in Held(a[x]) : r \notin Held(a[y])
      /\ \A t \in AckShards : Older(w, t, n + 1) /\ \A r \in Held(a[t]) : Older(w, t, r)
  BY Zenon DEF QueueIs
<1>2. /\ QueueOf(s, Tail(a[s]), n)
      /\ k.shard = s /\ k.report \in Held(a[s])
      /\ \A r \in Held(Tail(a[s])) : r \in Held(a[s]) /\ k.report < r
  BY <1>1, QueueShrinks, Zenon
<1>3. /\ b \in [AckShards -> Seq(AckSet)] /\ b[s] = Tail(a[s])
      /\ \A t \in AckShards : t # s => b[t] = a[t]
  <2>1. Tail(a[s]) \in Seq(AckSet) BY <1>2, Zenon DEF QueueOf
  <2> QED BY <1>1, <2>1
<1>4. k.report \in Int /\ k.report # n + 1 /\ k.report < n + 1
  <2>1. k.report \in Int /\ k.report <= n BY <1>1, <1>2, HeldUpTo, Zenon
  <2> HIDE DEF k
  <2> QED BY <2>1
<1>r. \A r \in Held(Tail(a[s])) : r # k.report
  <2> SUFFICES ASSUME NEW r \in Held(Tail(a[s])) PROVE r # k.report OBVIOUS
  <2>1. k.report < r /\ k.report \in Int BY <1>2, <1>4
  <2> HIDE DEF k
  <2> QED BY <2>1
<1> HIDE DEF b, k
<1>5. \A t \in AckShards : QueueOf(t, b[t], n)
  BY <1>1, <1>2, <1>3, Zenon
<1>6. \A t \in AckShards : \A r \in Held(b[t]) : r \in Held(a[t])
  BY <1>2, <1>3, Zenon
<1>7. \A x, y \in AckShards : x # y => \A r \in Held(b[x]) : r \notin Held(b[y])
  BY <1>1, <1>6, Zenon
<1>8. \A t \in AckShards : Younger(k, t, n + 1)
  BY <1>2, <1>4, Zenon DEF Younger
<1>9. ASSUME NEW t \in AckShards, NEW r \in Held(b[t]) PROVE Younger(k, t, r)
  <2>1. CASE t = s BY <1>2, <1>3, <1>r, <1>9, <2>1, Zenon DEF Younger
  <2>2. CASE t # s
    <3>1. r \in Held(a[t]) BY <1>6, <1>9
    <3>2. r # k.report BY <1>1, <1>2, <2>2, <3>1, Zenon
    <3> QED BY <1>2, <2>2, <3>2, Zenon DEF Younger
  <2> QED BY <2>1, <2>2
<1>10. \A q, r : Older(w, q, r) /\ Younger(k, q, r) => Older(v, q, r)
  BY DEF k
<1>11. \A t \in AckShards : Older(v, t, n + 1) /\ \A r \in Held(b[t]) : Older(v, t, r)
  BY <1>1, <1>6, <1>8, <1>9, <1>10, Zenon
<1>12. QueueIs(b, n, v)
  BY <1>3, <1>5, <1>7, <1>11, Zenon DEF QueueIs
<1> QED BY <1>12 DEF b

-----------------------------------------------------------------------------
(***************************************************************************)
(* The inductive invariant: a sound connection; queued acks in the order   *)
(* of the executions of their shard, younger than what is on the stream of *)
(* it; and the types of the rest.                                                      *)
(***************************************************************************)
Queue == QueueIs(acks, produced, sock \o out)

Rest ==
    /\ produced \in 0 .. MaxReports
    /\ next_client_id \in 1 .. MaxClients + 1 /\ client_id \in 0 .. next_client_id - 1
    /\ want_write \in BOOLEAN /\ peer \in BOOLEAN /\ at \in 0 .. NUM_SHARDS + 1
    /\ acked \in Seq(1 .. MaxReports) /\ lost \subseteq 1 .. MaxReports

Conn == Sound(sock, out, client_id, want_write, fd_by_client)

AckInv == Conn /\ Queue /\ Rest /\ BackedUpIsArmed

\* What an operation of the worker leaves of the connection.
Kept == /\ Conn' /\ want_write' \in BOOLEAN /\ client_id' \in {0, client_id}
        /\ \A q, r : Older(sock \o out, q, r) => Older((sock \o out)', q, r)

LEMMA FlushEffect ==
  ASSUME AckInv, client_id # 0, flush_out
  PROVE  Kept /\ want_write' = (client_id' # 0 /\ out' # <<>>)
<1>0. Sound(sock, out, client_id, want_write, fd_by_client)
  BY DEF AckInv, Conn
<1>1. CASE peer
  <2>1. /\ sock' = sock \o SubSeq(out, 1, Taken) /\ out' = Left /\ want_write' = (Left # <<>>)
        /\ client_id' = client_id /\ fd_by_client' = fd_by_client
    BY <1>1, Zenon DEF flush_out
  <2>2. Sound(sock', out', client_id', Left # <<>>, fd_by_client') /\ sock' \o out' = sock \o out
    BY <1>0, <2>1, SoundFlush, Zenon
  <2>3. Conn'
    BY <2>1, <2>2 DEF Conn
  <2>4. want_write' \in BOOLEAN /\ want_write' = (client_id' # 0 /\ out' # <<>>)
    BY <2>1, Zenon
  <2> QED BY <2>1, <2>2, <2>3, <2>4, Zenon DEF Kept
<1>2. CASE ~peer
  <2>1. /\ sock' = sock /\ out' = <<>> /\ want_write' = FALSE /\ client_id' = 0
        /\ fd_by_client' = fd_by_client \ {client_id}
    BY <1>2, Zenon DEF flush_out, close_client
  <2>2. Conn' /\ \A q, r : Older(sock \o out, q, r) => Older(sock' \o out', q, r)
    BY <1>0, <2>1, SoundClose, Zenon DEF Conn
  <2> QED BY <2>1, <2>2, Zenon DEF Kept
<1> QED
  BY <1>1, <1>2

LEMMA SendEffect ==
  ASSUME AckInv, NEW ack \in AckSet, ack.client \in fd_by_client, Older(sock \o out, ack.shard, ack.report),
         send_report(ack)
  PROVE  /\ Conn' /\ want_write' \in BOOLEAN /\ client_id' \in {0, client_id}
         /\ \A q, r : Older(sock \o out, q, r) /\ Younger(ack, q, r) => Older((sock \o out)', q, r)
<1>0. Sound(sock, out, client_id, want_write, fd_by_client) /\ want_write \in BOOLEAN
  BY DEF AckInv, Conn, Rest
<1>c. client_id # 0
  BY <1>0 DEF Sound
<1>1. CASE Len(out) + ReportLen <= OutCap /\ out' = out \o Units(ack)
           /\ UNCHANGED <<sock, want_write, client_id, fd_by_client>>
  <2>1. /\ Sound(sock, out \o Units(ack), client_id, want_write, fd_by_client)
        /\ \A q, r : Older(sock \o out, q, r) /\ Younger(ack, q, r) => Older(sock \o (out \o Units(ack)), q, r)
    BY <1>0, <1>1, SoundAppend
  <2>2. Conn'
    BY <1>1, <2>1 DEF Conn
  <2> QED BY <1>0, <1>1, <2>1, <2>2
<1>2. CASE close_client /\ sock' = sock
  <2>1. /\ sock' = sock /\ out' = <<>> /\ want_write' = FALSE /\ client_id' = 0
        /\ fd_by_client' = fd_by_client \ {client_id}
    BY <1>2, Zenon DEF close_client
  <2>2. Conn' /\ \A q, r : Older(sock \o out, q, r) => Older(sock' \o out', q, r)
    BY <1>0, <2>1, SoundClose, Zenon DEF Conn
  <2> QED BY <2>1, <2>2, Zenon
<1>3. CASE close_client /\ sock' = sock \o SubSeq(out, 1, Taken)
  <2>1. /\ out' = <<>> /\ want_write' = FALSE /\ client_id' = 0
        /\ fd_by_client' = fd_by_client \ {client_id}
    BY <1>3, Zenon DEF close_client
  <2>2. Conn' /\ \A q, r : Older(sock \o out, q, r) => Older(sock' \o out', q, r)
    BY <1>0, <1>3, <2>1, SoundFlush, Zenon DEF Conn
  <2> QED BY <2>1, <2>2, Zenon
<1>4. CASE /\ sock' = sock \o SubSeq(out, 1, Taken) /\ ~(Len(Left) + ReportLen > OutCap)
           /\ out' = Left \o Units(ack) /\ want_write' = (Left # <<>>)
           /\ UNCHANGED <<client_id, fd_by_client>>
  <2> DEFINE s == sock \o SubSeq(out, 1, Taken)
  <2>1. Sound(s, Left, client_id, Left # <<>>, fd_by_client) /\ s \o Left = sock \o out
    BY <1>0, <1>c, SoundFlush, Zenon
  <2>2. Len(Left) + ReportLen <= OutCap
    <3>1. Left \in Seq(UnitSet) BY <2>1 DEF Sound
    <3>2. Len(Left) \in Nat BY <3>1
    <3> QED BY <1>4, <3>2, Numbers
  <2> HIDE DEF s
  <2>3. /\ Sound(s, Left \o Units(ack), client_id, Left # <<>>, fd_by_client)
        /\ \A q, r : Older(sock \o out, q, r) /\ Younger(ack, q, r) => Older(s \o (Left \o Units(ack)), q, r)
    BY <2>1, <2>2, SoundAppend, Zenon
  <2>4. Conn'
    BY <1>4, <2>3 DEF Conn, s
  <2>5. want_write' \in BOOLEAN
    BY <1>4, Zenon
  <2> QED BY <1>4, <2>3, <2>4, <2>5 DEF s
<1> QED
  BY <1>1, <1>2, <1>3, <1>4, Zenon DEF send_report

LEMMA AckStarts == AckInit => AckInv
<1> SUFFICES ASSUME AckInit PROVE AckInv
  OBVIOUS
<1>n. /\ 0 <= SockCap /\ 0 <= OutCap /\ 0 <= AckCap /\ MaxReports \in Nat /\ MaxClients \in Nat
      /\ NUM_SHARDS \in Nat
  BY Numbers
<1>1. <<>> \o <<>> = <<>>
  BY Empty, JoinedEmpty
<1>2. /\ sock = <<>> /\ out = <<>> /\ client_id = 0 /\ fd_by_client = {} /\ produced = 0
      /\ acks = [s \in AckShards |-> <<>>] /\ next_client_id = 1 /\ at = 0 /\ acked = <<>> /\ lost = {}
  BY DEF AckInit
<1>3. want_write = FALSE /\ peer = FALSE /\ want_write \in BOOLEAN /\ peer \in BOOLEAN
  BY Zenon DEF AckInit
<1>4. Conn
  BY <1>n, <1>1, <1>2, <1>3, Empty DEF Conn, Sound
<1>5. Queue
  <2>1. \A s \in AckShards : acks[s] = <<>> /\ Held(acks[s]) = {}
    BY <1>2 DEF Held
  <2>2. acks \in [AckShards -> Seq(AckSet)]
    BY <1>2
  <2>3. \A s \in AckShards : QueueOf(s, acks[s], produced)
    BY <1>n, <2>1, <2>2 DEF QueueOf
  <2>4. \A s \in AckShards : Older(sock \o out, s, produced + 1)
    BY <1>1, <1>2, Empty
  <2> QED BY <2>1, <2>2, <2>3, <2>4 DEF Queue, QueueIs
<1>6. Rest
  <2>1. <<>> \in Seq(1 .. MaxReports) OBVIOUS
  <2> QED BY <1>n, <1>2, <1>3, <2>1 DEF Rest
<1>7. BackedUpIsArmed
  BY <1>2, <1>3 DEF BackedUpIsArmed
<1> QED
  BY <1>4, <1>5, <1>6, <1>7 DEF AckInv

\* The queue is left alone and nothing younger enters the stream.
LEMMA QueueKept ==
  ASSUME Queue, UNCHANGED <<acks, produced>>,
         \A q, r : Older(sock \o out, q, r) => Older((sock \o out)', q, r)
  PROVE  Queue'
<1> DEFINE v == (sock \o out)'
<1>1. QueueIs(acks, produced, sock \o out) /\ \A q, r : Older(sock \o out, q, r) => Older(v, q, r)
  BY DEF Queue
<1> HIDE DEF v
<1>2. QueueIs(acks, produced, v)
  BY <1>1, Zenon DEF QueueIs
<1> QED BY <1>2 DEF v, Queue

LEMMA AckStep == AckInv /\ [AckNext]_ack_vars => AckInv'
<1> SUFFICES ASSUME AckInv, [AckNext]_ack_vars PROVE AckInv'
  OBVIOUS
<1>i. Conn /\ Queue /\ Rest /\ BackedUpIsArmed
  BY DEF AckInv
<1>s. Sound(sock, out, client_id, want_write, fd_by_client)
  BY <1>i DEF Conn
<1>n. /\ MaxReports \in Nat /\ MaxClients \in Nat /\ AckCap \in Nat /\ NUM_SHARDS \in Nat \ {0}
      /\ ReportLen \in Nat /\ ReportLen > 1
  BY Numbers
<1>t. /\ sock \in Seq(UnitSet) /\ out \in Seq(UnitSet) /\ produced \in Nat
      /\ produced <= MaxReports /\ next_client_id \in Nat /\ client_id \in Nat
  BY <1>i, <1>n, <1>s DEF Sound, Rest
<1> USE DEF connection, firm
<1>1. ASSUME NEW c \in 1 .. next_client_id - 1, NEW s \in AckShards, send_ack(c, s) PROVE AckInv'
  <2> DEFINE a == [client |-> c, shard |-> s, report |-> produced + 1]
  <2>1. /\ produced' = produced + 1 /\ produced < MaxReports
        /\ acks' = IF Len(acks[s]) < AckCap THEN [acks EXCEPT ![s] = Append(@, a)] ELSE acks
        /\ UNCHANGED <<next_client_id, client_id, fd_by_client, out, want_write, sock, at, peer, acked, lost>>
    BY <1>1 DEF send_ack
  <2>2. a \in AckSet /\ a.shard = s /\ a.report = produced + 1
    BY <1>i, <1>n, <1>t, <2>1 DEF AckSet, Rest
  <2> HIDE DEF a
  <2>3. (sock \o out)' = sock \o out /\ sock \o out \in Seq(UnitSet)
    BY <1>t, <2>1
  <2>4. QueueIs(acks, produced, sock \o out)
    BY <1>i DEF Queue
  <2>5. QueueIs(acks', produced + 1, sock \o out)
    BY <1>t, <2>1, <2>2, <2>3, <2>4, QueueSent, Zenon
  <2>10. Queue'
    BY <2>1, <2>3, <2>5, Zenon DEF Queue
  <2>11. Conn' /\ BackedUpIsArmed'
    BY <1>i, <2>1 DEF Conn, BackedUpIsArmed
  <2>12. Rest'
    BY <1>i, <1>n, <1>t, <2>1 DEF Rest
  <2> QED BY <2>10, <2>11, <2>12 DEF AckInv
<1>2. CASE Accept
  <2>1. /\ client_id = 0 /\ client_id' = next_client_id /\ next_client_id' = next_client_id + 1
        /\ next_client_id <= MaxClients /\ fd_by_client' = fd_by_client \cup {next_client_id}
        /\ sock' = <<>> /\ acked' = <<>> /\ lost' = {} /\ at' = 1
        /\ UNCHANGED <<produced, acks, out, want_write>>
    BY <1>2, Zenon DEF Accept
  <2>2. peer' = TRUE /\ peer' \in BOOLEAN
    BY <1>2, Zenon DEF Accept
  <2>3. out = <<>> /\ fd_by_client = {} /\ ~want_write /\ Len(out) <= OutCap
    BY <1>s, <2>1 DEF Sound
  <2>4. <<>> \o <<>> = <<>> /\ 0 <= SockCap /\ next_client_id # 0
    BY <1>i, Empty, JoinedEmpty, Numbers DEF Rest
  <2>5. Conn'
    BY <2>1, <2>3, <2>4, Empty DEF Conn, Sound
  <2>6. Queue'
    <3>1. (sock \o out)' = <<>> BY <2>1, <2>3, <2>4
    <3>2. \A q, r : Older(sock \o out, q, r) => Older((sock \o out)', q, r) BY <3>1, Empty
    <3> QED BY <1>i, <2>1, <3>2, QueueKept
  <2>7. Rest'
    <3>1. <<>> \in Seq(1 .. MaxReports) OBVIOUS
    <3> QED BY <1>i, <1>n, <1>t, <2>1, <2>2, <3>1 DEF Rest
  <2>8. BackedUpIsArmed'
    BY <2>1 DEF BackedUpIsArmed
  <2> QED BY <2>5, <2>6, <2>7, <2>8 DEF AckInv
<1>3. CASE DrainOne
  <2> DEFINE a == Head(acks[at])
  <2>1. /\ at \in AckShards /\ acks[at] # <<>> /\ acks' = [acks EXCEPT ![at] = Tail(@)]
        /\ IF a.client \in fd_by_client THEN send_report(a) ELSE UNCHANGED <<connection, sock>>
        /\ UNCHANGED <<produced, next_client_id, at, peer, acked, lost>>
    BY <1>3 DEF DrainOne
  <2>2. QueueIs(acks, produced, sock \o out)
    BY <1>i DEF Queue
  <2>3. a \in AckSet /\ Older(sock \o out, a.shard, a.report)
    <3>1. QueueOf(at, acks[at], produced) /\ \A r \in Held(acks[at]) : Older(sock \o out, at, r)
      BY <2>1, <2>2, Zenon DEF QueueIs
    <3>2. a \in AckSet /\ a.shard = at /\ a.report \in Held(acks[at])
      BY <1>t, <2>1, <3>1, QueueShrinks, Zenon
    <3> QED BY <3>1, <3>2, Zenon
  <2> HIDE DEF a
  <2>4. /\ Conn' /\ want_write' \in BOOLEAN /\ client_id' \in {0, client_id}
        /\ \A q, r : Older(sock \o out, q, r) /\ Younger(a, q, r) => Older((sock \o out)', q, r)
    <3>1. CASE a.client \in fd_by_client
      <4>1. send_report(a) BY <2>1, <3>1
      <4> QED BY <2>3, <3>1, <4>1, SendEffect
    <3>2. CASE a.client \notin fd_by_client
      <4>1. UNCHANGED <<connection, sock>> BY <2>1, <3>2
      <4>2. (sock \o out)' = sock \o out BY <4>1
      <4>3. want_write' \in BOOLEAN BY <1>i, <4>1 DEF Rest
      <4> QED BY <1>i, <4>1, <4>2, <4>3 DEF Conn
    <3> QED BY <3>1, <3>2
  <2>5. QueueIs([acks EXCEPT ![at] = Tail(@)], produced, (sock \o out)')
    BY <1>t, <2>1, <2>2, <2>4, QueueTaken, Zenon DEF a
  <2>7. Queue'
    BY <2>1, <2>5, Zenon DEF Queue
  <2>8. Rest'
    BY <1>i, <1>t, <2>1, <2>4 DEF Rest
  <2>9. BackedUpIsArmed'
    BY <1>n, <2>1 DEF BackedUpIsArmed, AckShards
  <2> QED BY <2>4, <2>7, <2>8, <2>9 DEF AckInv
<1>4. ASSUME Kept, UNCHANGED <<produced, acks, next_client_id, peer, acked, lost>>, at' \in 0 .. NUM_SHARDS + 1,
             at' = 0 => want_write' = (client_id' # 0 /\ out' # <<>>)
      PROVE  AckInv'
  <2>1. Queue'
    BY <1>i, <1>4, QueueKept DEF Kept
  <2>2. Rest'
    BY <1>i, <1>t, <1>4 DEF Rest, Kept
  <2>3. BackedUpIsArmed'
    BY <1>4 DEF BackedUpIsArmed
  <2> QED BY <1>4, <2>1, <2>2, <2>3 DEF AckInv, Kept
<1>5. ASSUME UNCHANGED <<connection, sock>> PROVE Kept
  <2>1. (sock \o out)' = sock \o out /\ want_write' \in BOOLEAN BY <1>i, <1>5 DEF Rest
  <2> QED BY <1>i, <1>5, <2>1 DEF Kept, Conn
<1>13. 0 \in 0 .. NUM_SHARDS + 1 /\ 1 \in 0 .. NUM_SHARDS + 1
  BY <1>n
<1>14. CASE NextShard
  <2>1. /\ at \in AckShards /\ at' = at + 1 /\ UNCHANGED <<produced, acks, next_client_id, peer, acked, lost>>
        /\ UNCHANGED <<connection, sock>>
    BY <1>14 DEF NextShard
  <2>2. at' \in 0 .. NUM_SHARDS + 1 /\ at' # 0
    BY <1>n, <2>1 DEF AckShards
  <2> QED BY <1>4, <1>5, <2>1, <2>2
<1>6. CASE DrainEnd
  <2>1. /\ at' = 0 /\ at' \in 0 .. NUM_SHARDS + 1 /\ UNCHANGED <<produced, acks, next_client_id, peer, acked, lost>>
        /\ IF client_id # 0 /\ out # <<>> THEN flush_out ELSE UNCHANGED <<connection, sock>>
    BY <1>6, <1>13 DEF DrainEnd
  <2>2. CASE client_id # 0 /\ out # <<>>
    BY <1>4, <2>1, <2>2, FlushEffect
  <2>3. CASE ~(client_id # 0 /\ out # <<>>)
    <3>1. UNCHANGED <<connection, sock>> BY <2>1, <2>3
    <3>2. ~want_write /\ want_write \in BOOLEAN BY <1>i, <1>s, <2>3 DEF Sound, Rest
    <3>3. want_write' = (client_id' # 0 /\ out' # <<>>) BY <2>3, <3>1, <3>2
    <3> QED BY <1>4, <1>5, <2>1, <3>1, <3>3
  <2> QED BY <2>2, <2>3
<1>7. CASE Wake
  <2>1. /\ at' = 1 /\ UNCHANGED <<produced, acks, next_client_id, peer, acked, lost>>
        /\ UNCHANGED <<connection, sock>>
    BY <1>7 DEF Wake
  <2> QED BY <1>4, <1>5, <1>13, <2>1
<1>8. CASE WakeWritable
  <2>1. /\ at' = 1 /\ UNCHANGED <<produced, acks, next_client_id, peer, acked, lost>> /\ flush_out /\ want_write
    BY <1>8 DEF WakeWritable
  <2>2. client_id # 0
    BY <1>s, <2>1 DEF Sound
  <2> QED BY <1>4, <1>13, <2>1, <2>2, FlushEffect
<1>9. CASE WakeHangup
  <2>1. /\ at' = 1 /\ UNCHANGED <<produced, acks, next_client_id, peer, acked, lost>>
        /\ sock' = sock /\ out' = <<>> /\ client_id' = 0 /\ fd_by_client' = fd_by_client \ {client_id}
    BY <1>9, Zenon DEF WakeHangup, close_client
  <2>2. want_write' = FALSE /\ want_write' \in BOOLEAN
    BY <1>9, Zenon DEF WakeHangup, close_client
  <2>3. Kept
    BY <1>s, <2>1, <2>2, SoundClose, Zenon DEF Kept, Conn
  <2> QED BY <1>4, <1>13, <2>1, <2>3
<1>10. ASSUME NEW n \in 1 .. Len(sock), Recv(n) PROVE AckInv'
  <2> DEFINE chunk == SubSeq(sock, 1, n)
             whole == IF chunk[1].part = 1 THEN n \div ReportLen ELSE 0
             applied == [i \in 1 .. whole |-> chunk[i * ReportLen].report]
  <2>1. /\ sock' = SubSeq(sock, n + 1, Len(sock)) /\ acked' = acked \o applied
        /\ lost' = lost \cup {chunk[i].report : i \in whole * ReportLen + 1 .. n}
        /\ UNCHANGED <<produced, acks, next_client_id, client_id, fd_by_client, out, want_write, at, peer>>
    BY <1>10 DEF Recv
  <2>2. n \in 0 .. Len(sock) /\ n \in Nat
    BY <1>t
  <2>3. Conn' /\ \A q, r : Older(sock \o out, q, r) => Older((sock \o out)', q, r)
    BY <1>s, <2>1, <2>2, SoundRead DEF Conn
  <2>4. Queue'
    BY <1>i, <2>1, <2>3, QueueKept
  <2>5. chunk \in Seq(UnitSet) /\ Len(chunk) = n
    BY <1>t, <2>2, Front
  <2>6. \A i \in 1 .. n : chunk[i].report \in 1 .. MaxReports
    <3>1. \A i \in 1 .. n : chunk[i] \in UnitSet BY <2>5
    <3> QED BY <3>1 DEF UnitSet
  <2> HIDE DEF chunk
  <2>7. whole \in Nat /\ whole * ReportLen <= n
    <3>1. n \div ReportLen \in Nat /\ (n \div ReportLen) * ReportLen <= n BY <1>n, <2>2
    <3>2. 0 * ReportLen = 0 BY <1>n
    <3> QED BY <2>2, <3>1, <3>2
  <2> HIDE DEF whole
  <2>8. ASSUME NEW i \in 1 .. whole PROVE i * ReportLen \in 1 .. n
    <3>1. i \in Nat /\ 1 <= i /\ i <= whole /\ i * ReportLen \in Nat BY <1>n, <2>7
    <3>2. i * ReportLen <= whole * ReportLen BY <1>n, <2>7, <3>1
    <3>3. i * ReportLen >= 1 BY <1>n, <3>1
    <3>4. whole * ReportLen \in Nat BY <1>n, <2>7
    <3> QED BY <2>2, <2>7, <3>1, <3>2, <3>3, <3>4
  <2>9. applied \in Seq(1 .. MaxReports)
    <3>1. applied \in [1 .. whole -> 1 .. MaxReports] BY <2>6, <2>8
    <3> QED BY <2>7, <3>1
  <2> HIDE DEF applied
  <2>10. acked' \in Seq(1 .. MaxReports)
    BY <1>i, <2>1, <2>9 DEF Rest
  <2>11. lost' \subseteq 1 .. MaxReports
    <3>1. whole * ReportLen \in Nat BY <1>n, <2>7
    <3>2. \A i \in whole * ReportLen + 1 .. n : i \in 1 .. n BY <2>2, <3>1
    <3> QED BY <1>i, <2>1, <2>6, <3>2, Zenon DEF Rest
  <2>12. Rest' /\ BackedUpIsArmed'
    BY <1>i, <2>1, <2>10, <2>11 DEF Rest, BackedUpIsArmed
  <2> QED BY <2>3, <2>4, <2>12 DEF AckInv
<1>11. CASE FirmQuits
  <2>1. sock' = <<>> /\ UNCHANGED <<produced, acks, next_client_id, client_id, fd_by_client, out, want_write, at, acked, lost>>
    BY <1>11 DEF FirmQuits
  <2>2. peer' \in BOOLEAN
    BY <1>11, Zenon DEF FirmQuits
  <2>3. Len(sock) \in 0 .. Len(sock) /\ Len(sock) < Len(sock) + 1 /\ Len(sock) \in Int
    BY <1>t
  <2>4. SubSeq(sock, Len(sock) + 1, Len(sock)) = <<>>
    BY <2>3, EmptySlice
  <2>5. Conn' /\ \A q, r : Older(sock \o out, q, r) => Older((sock \o out)', q, r)
    BY <1>s, <2>1, <2>3, <2>4, SoundRead, Zenon DEF Conn
  <2>6. Queue'
    BY <1>i, <2>1, <2>5, QueueKept
  <2>7. Rest' /\ BackedUpIsArmed'
    BY <1>i, <2>1, <2>2, ZenonT(30) DEF Rest, BackedUpIsArmed
  <2> QED BY <2>5, <2>6, <2>7 DEF AckInv
<1>12. CASE UNCHANGED ack_vars
  BY <1>12 DEF ack_vars, AckInv, Conn, Queue, Rest, BackedUpIsArmed
<1> QED
  BY <1>1, <1>2, <1>3, <1>6, <1>7, <1>8, <1>9, <1>10, <1>11, <1>12, <1>14 DEF AckNext, Worker, FirmReads

LEMMA AckInvariant == AckSpec => []AckInv
  BY AckStarts, AckStep, PTL DEF AckSpec

(***************************************************************************)
(* However the kernel cuts, and whenever either side gives the connection  *)
(* up, what drain_acks(), send_report() and flush_out() put on it is whole *)
(* reports, once each, those of one engine in the order of its executions, *)
(* within the buffers, for any sizes and any number of engines.            *)
(***************************************************************************)
THEOREM StreamNeverBroken == AckSpec => []StreamUnbroken
<1>1. AckInv => StreamUnbroken
  <2> SUFFICES ASSUME AckInv PROVE StreamUnbroken
    OBVIOUS
  <2>1. Sound(sock, out, client_id, want_write, fd_by_client) /\ Queue /\ Rest
    BY ZenonT(30) DEF AckInv, Conn
  <2>2. AckTypeOK
    BY <2>1, ZenonT(30) DEF AckTypeOK, Sound, Queue, QueueIs, QueueOf, Rest, AckSet, UnitSet
  <2>3. Chain(sock \o out) /\ (client_id # 0 => Ends(sock \o out))
    BY <2>1 DEF Sound
  <2> QED BY <2>2, <2>3 DEF StreamUnbroken, Chain, Ends
<1> QED
  BY <1>1, AckInvariant, PTL

(***************************************************************************)
(* A descriptor that close_client() freed and accept() hands out again     *)
(* never carries a report of an earlier client.                            *)
(***************************************************************************)
THEOREM AcksReachTheirOwner == AckSpec => []AckToOwner
<1>1. AckInv => AckToOwner
  BY DEF AckInv, Conn, Sound, Of, AckToOwner
<1> QED
  BY <1>1, AckInvariant, PTL

(***************************************************************************)
(* A worker in epoll_wait() has EPOLLOUT armed exactly for a connection    *)
(* with something in out_buf.                                              *)
(***************************************************************************)
THEOREM WaitingIsArmed == AckSpec => []BackedUpIsArmed
<1>1. AckInv => BackedUpIsArmed
  BY DEF AckInv
<1> QED
  BY <1>1, AckInvariant, PTL

-----------------------------------------------------------------------------
(* The market-data feed.                                                   *)

LEMMA MarksJoined == \A s, t, u \in Seq(Marks) : (s \o t) \o u = s \o (t \o u)
  BY JoinedTwice

LOCAL INSTANCE WellFoundedInduction

(***************************************************************************)
(* Induction over the natural numbers, for a set of them.                  *)
(***************************************************************************)
LEMMA Induct ==
    ASSUME NEW S, 0 \in S, \A n \in Nat : n \in S => n + 1 \in S
    PROVE  \A n \in Nat : n \in S
<1> DEFINE R == OpToRel(<, Nat)
           T == Nat \ S
<1>1. \A y, x \in Nat : <<y, x>> \in R <=> y < x
  BY DEF OpToRel
<1>2. IsWellFoundedOn(R, Nat)
  BY NatLessThanWellFounded, Zenon
<1> HIDE DEF R
<1>3. SUFFICES ASSUME T # {} PROVE FALSE
  BY Zenon
<1>4. PICK x \in T : \A y \in T : ~ (<<y, x>> \in R)
  <2>1. T \subseteq Nat
    OBVIOUS
  <2> HIDE DEF T
  <2> QED
    BY <1>2, <1>3, <2>1, WFMin, Zenon
<1>5. x \in Nat /\ x # 0 /\ x - 1 \in Nat /\ x - 1 + 1 = x
  BY <1>4
<1>6. <<x - 1, x>> \in R
  BY <1>1, <1>5
<1>7. x - 1 \notin T
  BY <1>4, <1>6, Zenon
<1> QED
  BY <1>4, <1>5, <1>7

LEMMA MarkTypes ==
    ASSUME NEW r \in Report, NEW q
    PROVE  MarkOf(r, q) \in Seq(Marks)
  BY DEF MarkOf

\* u holds the marks of the first reports, up to each.
Upto(s, q, N, u) == /\ u \in [0 .. N -> Seq(Marks)] /\ u[0] = <<>>
                    /\ \A n \in Nat : n < N => u[n + 1] = u[n] \o MarkOf(s[n + 1], q)

LEMMA MarksAre ==
    ASSUME NEW s \in Seq(Report), NEW q, NEW N \in Nat, Len(s) = N
    PROVE  \E u : Upto(s, q, N, u) /\ MarksOf(s, q) = u[N]
<1> DEFINE M(n) == MarkOf(s[n], q)
           Is(n, u) == u = [m \in 0 .. n |-> IF m = 0 THEN <<>> ELSE u[m - 1] \o MarkOf(s[m], q)]
           S == {n \in Nat : n <= N => \E u \in [0 .. n -> Seq(Marks)] : Is(n, u)}
<1>1. \A m \in 1 .. N : MarkOf(s[m], q) \in Seq(Marks)
  <2>1. \A m \in 1 .. N : s[m] \in Report
    OBVIOUS
  <2> QED
    BY <2>1, MarkTypes, Zenon
<1>2. 0 \in S
  <2>1. [m \in 0 .. 0 |-> <<>>] \in [0 .. 0 -> Seq(Marks)] /\ Is(0, [m \in 0 .. 0 |-> <<>>])
    OBVIOUS
  <2> QED
    BY <2>1, Zenon
<1>3. ASSUME NEW n \in Nat, n \in S PROVE n + 1 \in S
  <2>0. n + 1 \in Nat
    OBVIOUS
  <2> SUFFICES ASSUME n + 1 <= N PROVE \E u \in [0 .. n + 1 -> Seq(Marks)] : Is(n + 1, u)
    BY <2>0, Zenon
  <2>1. PICK u \in [0 .. n -> Seq(Marks)] : Is(n, u)
    <3>1. n <= N
      OBVIOUS
    <3> QED
      BY <1>3, <3>1, Zenon
  <2>2. PICK z \in Seq(Marks) : z = u[n] \o MarkOf(s[n + 1], q)
    <3>1. u[n] \in Seq(Marks) /\ MarkOf(s[n + 1], q) \in Seq(Marks)
      BY <1>1, <2>1
    <3>2. u[n] \o MarkOf(s[n + 1], q) \in Seq(Marks)
      BY <3>1
    <3> QED
      BY <3>2, Zenon
  <2> DEFINE v == [m \in 0 .. n + 1 |-> IF m <= n THEN u[m] ELSE z]
  <2>3. v \in [0 .. n + 1 -> Seq(Marks)]
    BY <2>1, <2>2
  <2>4. ASSUME NEW m \in 0 .. n + 1 PROVE v[m] = IF m = 0 THEN <<>> ELSE v[m - 1] \o MarkOf(s[m], q)
    <3>1. \A k \in 0 .. n : u[k] = IF k = 0 THEN <<>> ELSE u[k - 1] \o MarkOf(s[k], q)
      BY <2>1, Zenon
    <3>2. CASE m = n + 1
      <4>1. v[m] = z /\ m # 0 /\ v[m - 1] = u[n]
        BY <3>2
      <4> QED
        BY <2>2, <3>2, <4>1, Zenon
    <3>3. CASE m = 0
      <4>0. 0 <= n /\ 0 \in 0 .. n
        OBVIOUS
      <4>1. u[0] = <<>>
        BY <3>1, <4>0, Zenon
      <4>2. v[0] = u[0]
        OBVIOUS
      <4> QED
        BY <3>3, <4>1, <4>2, Zenon
    <3>4. CASE m \in 1 .. n
      <4>1. v[m] = u[m] /\ v[m - 1] = u[m - 1] /\ m # 0 /\ m \in 0 .. n
        BY <3>4
      <4> QED
        BY <3>1, <4>1, Zenon
    <3> QED
      BY <3>2, <3>3, <3>4
  <2> HIDE DEF v
  <2> QED
    BY <2>3, <2>4, Zenon
<1>4. N \in S
  <2> HIDE DEF S
  <2> QED
    BY <1>2, <1>3, Induct, Zenon
<1>5. PICK u \in [0 .. N -> Seq(Marks)] : Is(N, u)
  <2>1. N <= N
    OBVIOUS
  <2> QED
    BY <1>4, <2>1, Zenon
<1> DEFINE w == CHOOSE w : Is(N, w)
<1>6. Is(N, w) /\ MarksOf(s, q) = w[N]
  BY <1>5, Zenon DEF MarksOf
<1>7. \A m \in 0 .. N : w[m] = IF m = 0 THEN <<>> ELSE w[m - 1] \o MarkOf(s[m], q)
  BY <1>6, Zenon
<1>8. w = [m \in 0 .. N |-> w[m]]
  BY <1>6, Zenon
<1> HIDE DEF w, Is
<1>9. \A n \in Nat : n < N => w[n + 1] = w[n] \o MarkOf(s[n + 1], q)
  <2> SUFFICES ASSUME NEW n \in Nat, n < N PROVE w[n + 1] = w[n] \o MarkOf(s[n + 1], q)
    BY Zenon
  <2>1. PICK m \in 0 .. N : m = n + 1
    OBVIOUS
  <2>2. m # 0 /\ m - 1 = n
    BY <2>1
  <2>3. w[m] = w[m - 1] \o MarkOf(s[m], q)
    BY <1>7, <2>2, Zenon
  <2> QED
    BY <2>1, <2>2, <2>3, Zenon
<1>0. w[0] = <<>>
  <2>1. 0 \in 0 .. N
    OBVIOUS
  <2> QED
    BY <1>7, <2>1, Zenon
<1> DEFINE P == {n \in Nat : n <= N => w[n] \in Seq(Marks)}
<1>10. 0 \in P
  <2>1. <<>> \in Seq(Marks) /\ 0 \in Nat
    OBVIOUS
  <2> QED
    BY <1>0, <2>1, Zenon
<1>11. ASSUME NEW n \in Nat, n \in P PROVE n + 1 \in P
  <2> SUFFICES ASSUME n + 1 <= N PROVE w[n + 1] \in Seq(Marks)
    OBVIOUS
  <2>1. n < N /\ w[n] \in Seq(Marks) /\ MarkOf(s[n + 1], q) \in Seq(Marks)
    BY <1>1, <1>11
  <2>2. w[n] \o MarkOf(s[n + 1], q) \in Seq(Marks)
    BY <2>1
  <2> QED
    BY <1>9, <2>1, <2>2, Zenon
<1>12. \A n \in Nat : n \in P
  <2> HIDE DEF P
  <2> QED
    BY <1>10, <1>11, Induct, Zenon
<1>13. w \in [0 .. N -> Seq(Marks)]
  BY <1>8, <1>12
<1>14. Upto(s, q, N, w)
  BY <1>0, <1>9, <1>13, Zenon DEF Upto
<1> QED
  BY <1>6, <1>14, Zenon

LEMMA MarksEmpty == \A q : MarksOf(<<>>, q) = <<>>
<1> SUFFICES ASSUME NEW q PROVE MarksOf(<<>>, q) = <<>>
  OBVIOUS
<1>1. <<>> \in Seq(Report) /\ Len(<<>>) = 0 /\ 0 \in Nat
  OBVIOUS
<1>2. PICK u : Upto(<<>>, q, 0, u) /\ MarksOf(<<>>, q) = u[0]
  BY <1>1, MarksAre, Zenon
<1> QED
  BY <1>2, Zenon DEF Upto

LEMMA MarksAppend ==
    ASSUME NEW s \in Seq(Report), NEW r \in Report, NEW q
    PROVE  MarksOf(s, q) \in Seq(Marks) /\ MarksOf(Append(s, r), q) = MarksOf(s, q) \o MarkOf(r, q)
<1>1. PICK N \in Nat : Len(s) = N
  OBVIOUS
<1>2. PICK g \in Seq(Report) : g = Append(s, r)
  <2>1. Append(s, r) \in Seq(Report)
    OBVIOUS
  <2> QED
    BY <2>1, Zenon
<1>3. Len(g) = N + 1 /\ N + 1 \in Nat /\ g[N + 1] = r /\ \A n \in Nat : n < N => g[n + 1] = s[n + 1]
  BY <1>1, <1>2
<1>4. PICK u : Upto(s, q, N, u) /\ MarksOf(s, q) = u[N]
  BY <1>1, MarksAre, Zenon
<1>5. PICK v : Upto(g, q, N + 1, v) /\ MarksOf(g, q) = v[N + 1]
  BY <1>3, MarksAre, Zenon
<1> DEFINE S == {n \in Nat : n <= N => v[n] = u[n]}
<1>6. 0 \in S
  BY <1>4, <1>5, Zenon DEF Upto
<1>7. ASSUME NEW n \in Nat, n \in S PROVE n + 1 \in S
  <2>0. n + 1 \in Nat
    OBVIOUS
  <2> SUFFICES ASSUME n + 1 <= N PROVE v[n + 1] = u[n + 1]
    BY <2>0, Zenon
  <2>1. n < N /\ n < N + 1 /\ n <= N
    OBVIOUS
  <2>2. v[n] = u[n] /\ g[n + 1] = s[n + 1]
    BY <1>3, <1>7, <2>1, Zenon
  <2>3. v[n + 1] = v[n] \o MarkOf(g[n + 1], q) /\ u[n + 1] = u[n] \o MarkOf(s[n + 1], q)
    BY <1>4, <1>5, <2>1, Zenon DEF Upto
  <2> QED
    BY <2>2, <2>3, Zenon
<1>8. N \in S
  <2> HIDE DEF S
  <2> QED
    BY <1>6, <1>7, Induct, Zenon
<1>9. N < N + 1 /\ N \in 0 .. N /\ N <= N
  OBVIOUS
<1>10. v[N + 1] = v[N] \o MarkOf(g[N + 1], q) /\ u[N] \in Seq(Marks)
  BY <1>4, <1>5, <1>9, Zenon DEF Upto
<1>11. v[N] = u[N]
  BY <1>8, <1>9, Zenon
<1> QED
  BY <1>2, <1>3, <1>4, <1>5, <1>10, <1>11, Zenon

LEMMA MarksTypes ==
    ASSUME NEW s \in Seq(Report), NEW q
    PROVE  MarksOf(s, q) \in Seq(Marks)
<1>1. PICK N \in Nat : Len(s) = N
  OBVIOUS
<1>2. PICK u : Upto(s, q, N, u) /\ MarksOf(s, q) = u[N]
  BY <1>1, MarksAre, Zenon
<1>3. N \in 0 .. N
  OBVIOUS
<1> QED
  BY <1>2, <1>3, Zenon DEF Upto

\* The marks of two runs of reports are those of the one and then those of the other.
LEMMA MarksConcat ==
    ASSUME NEW q, NEW s \in Seq(Report), NEW t \in Seq(Report)
    PROVE  MarksOf(s \o t, q) = MarksOf(s, q) \o MarksOf(t, q)
<1> DEFINE S == {n \in Nat : \A x \in Seq(Report) : Len(x) = n => MarksOf(s \o x, q) = MarksOf(s, q) \o MarksOf(x, q)}
<1>1. 0 \in S
  <2> SUFFICES ASSUME NEW x \in Seq(Report), Len(x) = 0
               PROVE  MarksOf(s \o x, q) = MarksOf(s, q) \o MarksOf(x, q)
    OBVIOUS
  <2>1. x = <<>> /\ s \o x = s
    OBVIOUS
  <2>2. PICK m \in Seq(Marks) : m = MarksOf(s, q)
    BY MarksTypes, Zenon
  <2>3. m \o <<>> = m
    OBVIOUS
  <2> QED
    BY <2>1, <2>2, <2>3, MarksEmpty, Zenon
<1>2. ASSUME NEW n \in Nat, n \in S PROVE n + 1 \in S
  <2>0. n + 1 \in Nat
    OBVIOUS
  <2> SUFFICES ASSUME NEW x \in Seq(Report), Len(x) = n + 1
               PROVE  MarksOf(s \o x, q) = MarksOf(s, q) \o MarksOf(x, q)
    BY <2>0, Zenon
  <2>1. PICK y \in Seq(Report), r \in Report : Len(y) = n /\ x = Append(y, r)
    <3> DEFINE y == SubSeq(x, 1, n)
    <3>1. y \in Seq(Report) /\ x[n + 1] \in Report /\ Len(y) = n
      OBVIOUS
    <3>2. x = Append(y, x[n + 1])
      OBVIOUS
    <3> HIDE DEF y
    <3> QED
      BY <3>1, <3>2, Zenon
  <2>2. MarksOf(s \o y, q) = MarksOf(s, q) \o MarksOf(y, q)
    BY <1>2, <2>1, Zenon
  <2>3. s \o y \in Seq(Report) /\ s \o x = Append(s \o y, r)
    BY <2>1
  <2>4. PICK a, b, c \in Seq(Marks) : a = MarksOf(s, q) /\ b = MarksOf(y, q) /\ c = MarkOf(r, q)
    BY <2>1, MarksTypes, MarkTypes, Zenon
  <2>5. (a \o b) \o c = a \o (b \o c)
    BY MarksJoined, Zenon
  <2>6. MarksOf(s \o x, q) = MarksOf(s \o y, q) \o MarkOf(r, q)
    <3>1. PICK z \in Seq(Report) : z = s \o y /\ s \o x = Append(z, r)
      BY <2>3, Zenon
    <3>2. MarksOf(Append(z, r), q) = MarksOf(z, q) \o MarkOf(r, q)
      BY <2>1, MarksAppend, Zenon
    <3> QED
      BY <3>1, <3>2, Zenon
  <2>7. MarksOf(x, q) = MarksOf(y, q) \o MarkOf(r, q)
    BY <2>1, MarksAppend, Zenon
  <2> QED
    BY <2>2, <2>4, <2>5, <2>6, <2>7, Zenon
<1>3. \A n \in Nat : n \in S
  <2> HIDE DEF S
  <2> QED
    BY <1>1, <1>2, Induct, Zenon
<1>4. Len(t) \in Nat
  OBVIOUS
<1> QED
  BY <1>3, <1>4, Zenon

LEMMA OrderCases ==
    /\ <<"a">> \o <<"b">> = <<"a", "b">> /\ <<"a">> \o <<>> = <<"a">>
    /\ <<>> \o <<"b">> = <<"b">> /\ <<>> \o <<>> = <<>>
    /\ {<<"a", "b">>, <<"a">>, <<"b">>, <<>>} \subseteq Seq(Marks)
<1>1. "a" \in Marks /\ "b" \in Marks
  BY DEF Marks
<1> HIDE DEF Marks
<1>2. <<"a">> \o <<"b">> = <<"a", "b">> /\ <<"a">> \o <<>> = <<"a">>
  <2>1. <<"a">> \o <<"b">> = <<"a", "b">>
    <3>1. PICK c \in Seq(Marks) : c = <<"a">> \o <<"b">>
      <4>1. <<"a">> \in Seq(Marks) /\ <<"b">> \in Seq(Marks)
        BY <1>1
      <4>2. <<"a">> \o <<"b">> \in Seq(Marks)
        BY <4>1
      <4> QED
        BY <4>2, Zenon
    <3>2. Len(c) = 2 /\ c[1] = "a" /\ c[2] = "b"
      BY <3>1
    <3>3. c = <<"a", "b">>
      BY <3>2
    <3> QED
      BY <3>1, <3>3, Zenon
  <2>2. \A x : <<x>> \o <<>> = <<x>>
    OBVIOUS
  <2> QED
    BY <2>1, <2>2, Zenon
<1>3. <<>> \o <<"b">> = <<"b">> /\ <<>> \o <<>> = <<>>
  OBVIOUS
<1>4. <<"a", "b">> \in Seq(Marks) /\ <<"a">> \in Seq(Marks) /\ <<"b">> \in Seq(Marks) /\ <<>> \in Seq(Marks)
  BY <1>1
<1> QED
  BY <1>2, <1>3, <1>4, Zenon

LEMMA OrderIsOf ==
    ASSUME NEW X
    PROVE  /\ "a" \in X /\ "b" \in X => InOrder(X) = <<"a", "b">>
           /\ "a" \in X /\ "b" \notin X => InOrder(X) = <<"a">>
           /\ "a" \notin X /\ "b" \in X => InOrder(X) = <<"b">>
           /\ "a" \notin X /\ "b" \notin X => InOrder(X) = <<>>
  BY OrderCases, Zenon DEF InOrder

LEMMA OrderTypes == \A X : InOrder(X) \in Seq(Marks)
  BY OrderCases, OrderIsOf, Zenon

\* InOrder(X) holds the marks of X, no b before an a, and no mark twice.
LEMMA OrderHas ==
    ASSUME NEW X \in SUBSET Marks, NEW s \in Seq(Marks), s = InOrder(X)
    PROVE  SetOf(s) = X /\ \A i, j \in DOMAIN s : i < j => s[i] = "a" /\ s[j] = "b"
<1>m. \A x \in X : x = "a" \/ x = "b"
  BY DEF Marks
<1>1. CASE "a" \in X /\ "b" \in X
  <2>1. s = <<"a", "b">> /\ X = {"a", "b"}
    BY <1>m, <1>1, OrderIsOf, Zenon
  <2> QED
    BY <2>1 DEF SetOf
<1>2. CASE "a" \in X /\ "b" \notin X
  <2>1. s = <<"a">> /\ X = {"a"}
    BY <1>m, <1>2, OrderIsOf, Zenon
  <2> QED
    BY <2>1 DEF SetOf
<1>3. CASE "a" \notin X /\ "b" \in X
  <2>1. s = <<"b">> /\ X = {"b"}
    BY <1>m, <1>3, OrderIsOf, Zenon
  <2> QED
    BY <2>1 DEF SetOf
<1>4. CASE "a" \notin X /\ "b" \notin X
  <2>1. s = <<>> /\ X = {}
    BY <1>m, <1>4, OrderIsOf, Zenon
  <2> QED
    BY <2>1 DEF SetOf
<1> QED
  BY <1>1, <1>2, <1>3, <1>4

\* It is the only such sequence.
LEMMA OrderIs ==
    ASSUME NEW X \in SUBSET Marks, NEW s \in Seq(Marks),
           SetOf(s) = X, \A i, j \in DOMAIN s : i < j => s[i] = "a" /\ s[j] = "b"
    PROVE  s = InOrder(X)
<1>1. Len(s) <= 2
  <2> SUFFICES ASSUME Len(s) > 2 PROVE FALSE
    OBVIOUS
  <2>1. 1 \in DOMAIN s /\ 2 \in DOMAIN s /\ 3 \in DOMAIN s
    OBVIOUS
  <2> QED
    BY <2>1
<1>2. CASE Len(s) = 0
  <2>1. s = <<>> /\ X = {}
    BY <1>2 DEF SetOf
  <2> QED
    BY <2>1 DEF InOrder
<1>3. CASE Len(s) = 1
  <2>1. s = <<s[1]>> /\ X = {s[1]} /\ s[1] \in Marks
    BY <1>3 DEF SetOf
  <2>2. CASE s[1] = "a"
    <3>1. s = <<"a">> /\ X = {"a"}
      BY <2>1, <2>2, Zenon
    <3> QED
      BY <3>1 DEF InOrder
  <2>3. CASE s[1] = "b"
    <3>1. s = <<"b">> /\ X = {"b"}
      BY <2>1, <2>3, Zenon
    <3> QED
      BY <3>1 DEF InOrder
  <2> QED
    BY <2>1, <2>2, <2>3 DEF Marks
<1>4. CASE Len(s) = 2
  <2>1. s[1] = "a" /\ s[2] = "b"
    BY <1>4
  <2>2. s = <<"a", "b">> /\ "a" \in X /\ "b" \in X
    BY <1>4, <2>1 DEF SetOf
  <2> QED
    BY <2>2 DEF InOrder
<1>5. PICK l \in Nat : l = Len(s)
  OBVIOUS
<1>6. l <= 2 => l = 0 \/ l = 1 \/ l = 2
  OBVIOUS
<1> QED
  BY <1>1, <1>2, <1>3, <1>4, <1>5, <1>6, Zenon

\* Leaving a run out of a trail leaves out just its marks.
LEMMA LeaveOut ==
    ASSUME NEW A \in Seq(Marks), NEW B \in Seq(Marks), NEW C \in Seq(Marks), NEW X \in SUBSET Marks,
           (A \o B) \o C = InOrder(X)
    PROVE  A \o C = InOrder(X \ SetOf(B)) /\ SetOf(B) \subseteq X
<1>1. PICK T \in Seq(Marks) : T = (A \o B) \o C
  BY OrderTypes, Zenon
<1>2. PICK a, b, c \in Nat : a = Len(A) /\ b = Len(B) /\ c = Len(C)
  OBVIOUS
<1>3. PICK D \in Seq(Marks) : D = A \o C
  <2>1. A \o C \in Seq(Marks)
    OBVIOUS
  <2> QED
    BY <2>1, Zenon
<1>e. PICK E \in Seq(Marks) : E = A \o B /\ Len(E) = a + b
  <2>1. A \o B \in Seq(Marks) /\ Len(A \o B) = a + b
    BY <1>2
  <2> QED
    BY <2>1, Zenon
<1>4. /\ DOMAIN T = 1 .. a + b + c /\ DOMAIN D = 1 .. a + c
      /\ DOMAIN A = 1 .. a /\ DOMAIN B = 1 .. b /\ DOMAIN C = 1 .. c
      /\ \A i \in 1 .. a : T[i] = A[i] /\ D[i] = A[i]
      /\ \A i \in 1 .. b : T[a + i] = B[i]
      /\ \A i \in 1 .. c : T[a + b + i] = C[i] /\ D[a + i] = C[i]
  <2>1. T = E \o C
    BY <1>1, <1>e, Zenon
  <2>2. /\ DOMAIN T = 1 .. a + b + c /\ \A i \in 1 .. a + b : T[i] = E[i]
        /\ \A i \in 1 .. c : T[a + b + i] = C[i]
    BY <1>2, <1>e, <2>1
  <2>3. DOMAIN A = 1 .. a /\ DOMAIN B = 1 .. b /\ DOMAIN C = 1 .. c
    BY <1>2
  <2>4. (\A i \in 1 .. a : E[i] = A[i]) /\ \A i \in 1 .. b : E[a + i] = B[i]
    BY <1>2, <1>e
  <2>5. /\ DOMAIN D = 1 .. a + c /\ (\A i \in 1 .. a : D[i] = A[i])
        /\ \A i \in 1 .. c : D[a + i] = C[i]
    BY <1>2, <1>3
  <2>6. (\A i \in 1 .. a : i \in 1 .. a + b) /\ \A i \in 1 .. b : a + i \in 1 .. a + b
    BY <1>2
  <2> QED
    BY <2>2, <2>3, <2>4, <2>5, <2>6, Zenon
<1>d. /\ DOMAIN T = 1 .. a + b + c /\ DOMAIN D = 1 .. a + c
      /\ DOMAIN A = 1 .. a /\ DOMAIN B = 1 .. b /\ DOMAIN C = 1 .. c
  BY <1>4, Zenon
<1>5. SetOf(T) = X /\ \A i, j \in DOMAIN T : i < j => T[i] = "a" /\ T[j] = "b"
  <2>1. T = InOrder(X)
    BY <1>1, Zenon
  <2> QED
    BY <2>1, OrderHas, Zenon
<1>6. SetOf(B) \subseteq X
  <2> SUFFICES ASSUME NEW i \in DOMAIN B PROVE B[i] \in X
    BY Zenon DEF SetOf
  <2>1. i \in 1 .. b /\ a + i \in DOMAIN T
    BY <1>d
  <2>2. T[a + i] = B[i]
    BY <1>4, <2>1, Zenon
  <2> QED
    BY <1>5, <2>1, <2>2, Zenon DEF SetOf
<1>7. \A i, j \in DOMAIN D : i < j => D[i] = "a" /\ D[j] = "b"
  <2> SUFFICES ASSUME NEW i \in DOMAIN D, NEW j \in DOMAIN D, i < j PROVE D[i] = "a" /\ D[j] = "b"
    OBVIOUS
  <2> DEFINE up(k) == IF k <= a THEN k ELSE k + b
  <2>1. \A k \in DOMAIN D : up(k) \in DOMAIN T /\ T[up(k)] = D[k]
    <3> SUFFICES ASSUME NEW k \in DOMAIN D PROVE up(k) \in DOMAIN T /\ T[up(k)] = D[k]
      BY ZenonT(30)
    <3>1. CASE k <= a
      <4>1. k \in 1 .. a /\ k \in DOMAIN T /\ up(k) = k
        BY <1>d, <3>1
      <4> QED
        BY <1>4, <4>1, Zenon
    <3>2. CASE k > a
      <4>0. PICK l \in 1 .. c : k = a + l
        <5>1. k \in 1 .. a + c
          BY <1>4, Zenon
        <5>2. k - a \in 1 .. c /\ k = a + (k - a)
          BY <3>2, <5>1
        <5> QED
          BY <5>2, Zenon
      <4>1. a + b + l = k + b /\ up(k) = k + b /\ k + b \in 1 .. a + b + c
        BY <3>2, <4>0
      <4>2. T[a + b + l] = C[l] /\ D[a + l] = C[l]
        BY <1>4, Zenon
      <4> QED
        BY <1>4, <4>0, <4>1, <4>2, Zenon
    <3>3. k <= a \/ k > a
      BY <1>d
    <3> QED
      BY <3>1, <3>2, <3>3, Zenon
  <2>2. up(i) < up(j)
    BY <1>d
  <2> QED
    BY <1>5, <2>1, <2>2, ZenonT(30)
<1>8. SetOf(D) = X \ SetOf(B)
  <2>1. ASSUME NEW k \in DOMAIN D PROVE D[k] \in X /\ D[k] \notin SetOf(B)
    <3>1. ASSUME NEW i \in DOMAIN T, NEW l \in 1 .. b, i # a + l PROVE T[i] # B[l]
      <4>0. a + l \in DOMAIN T
        BY <1>d
      <4>1. a + l \in DOMAIN T /\ T[a + l] = B[l]
        BY <1>4, <4>0, Zenon
      <4>2. i < a + l \/ a + l < i
        <5>1. i \in 1 .. a + b + c
          BY <1>4, Zenon
        <5> QED
          BY <3>1, <5>1
      <4> QED
        BY <1>5, <4>1, <4>2, ZenonT(30)
    <3>2. CASE k <= a
      <4>0. k \in 1 .. a /\ k \in DOMAIN T /\ \A l \in 1 .. b : k # a + l
        BY <1>d, <3>2
      <4>1. k \in DOMAIN T /\ T[k] = D[k] /\ \A l \in 1 .. b : k # a + l
        BY <1>4, <4>0, Zenon
      <4>2. D[k] \in X
        BY <1>5, <4>1, Zenon DEF SetOf
      <4>3. \A m \in 1 .. b : D[k] # B[m]
        BY <3>1, <4>1, Zenon
      <4> QED
        BY <1>4, <4>2, <4>3, Zenon DEF SetOf
    <3>3. CASE k > a
      <4>0. PICK l \in 1 .. c : k = a + l
        <5>1. k \in 1 .. a + c
          BY <1>4, Zenon
        <5>2. k - a \in 1 .. c /\ k = a + (k - a)
          BY <3>3, <5>1
        <5> QED
          BY <5>2, Zenon
      <4>1. a + b + l = k + b /\ k + b \in 1 .. a + b + c /\ \A m \in 1 .. b : k + b # a + m
        BY <4>0
      <4>2. T[a + b + l] = C[l] /\ D[a + l] = C[l]
        BY <1>4, Zenon
      <4>3. k + b \in DOMAIN T /\ T[k + b] = D[k]
        BY <1>4, <4>0, <4>1, <4>2, Zenon
      <4>4. D[k] \in X
        BY <1>5, <4>3, Zenon DEF SetOf
      <4>5. \A m \in 1 .. b : D[k] # B[m]
        BY <3>1, <4>1, <4>3, Zenon
      <4> QED
        BY <1>4, <4>4, <4>5, Zenon DEF SetOf
    <3>4. k <= a \/ k > a
      BY <1>d
    <3> QED
      BY <3>2, <3>3, <3>4, Zenon
  <2>2. ASSUME NEW m \in X, m \notin SetOf(B) PROVE m \in SetOf(D)
    <3>1. PICK i \in DOMAIN T : T[i] = m
      BY <1>5, Zenon DEF SetOf
    <3>0. i \in 1 .. a + b + c
      BY <1>d, Zenon
    <3>2. CASE i <= a
      <4>1. i \in 1 .. a /\ i \in DOMAIN D
        BY <1>d, <3>2
      <4> QED
        BY <1>4, <3>1, <4>1, Zenon DEF SetOf
    <3>3. CASE i > a /\ i <= a + b
      <4>1. i - a \in DOMAIN B /\ B[i - a] = m
        <5>1. i - a \in 1 .. b /\ a + (i - a) = i
          BY <3>0, <3>3, SecondOfThree, Zenon
        <5> QED
          BY <1>4, <3>1, <5>1, ZenonT(30)
      <4> QED
        BY <2>2, <4>1, Zenon DEF SetOf
    <3>4. CASE i > a + b
      <4>1. i - b \in DOMAIN D /\ D[i - b] = m
        <5>1. i - a - b \in 1 .. c /\ a + b + (i - a - b) = i /\ a + (i - a - b) = i - b /\ i - b \in 1 .. a + c
          BY <3>0, <3>4, ThirdOfThree, ZenonT(30)
        <5>2. PICK l \in 1 .. c : l = i - a - b
          BY <5>1, Zenon
        <5>3. T[a + b + l] = C[l] /\ D[a + l] = C[l]
          BY <1>4, Zenon
        <5> QED
          BY <1>4, <3>1, <5>1, <5>2, <5>3, Zenon
      <4> QED
        BY <4>1, Zenon DEF SetOf
    <3>5. i <= a \/ (i > a /\ i <= a + b) \/ i > a + b
      BY <1>d
    <3> QED
      BY <3>2, <3>3, <3>4, <3>5, Zenon
  <2>3. SetOf(D) \subseteq X \ SetOf(B)
    BY <2>1, Zenon DEF SetOf
  <2> QED
    BY <2>2, <2>3, Zenon
<1> QED
  <2>1. PICK Z \in SUBSET Marks : Z = X \ SetOf(B)
    BY Zenon
  <2>2. D = InOrder(Z)
    BY <1>7, <1>8, <2>1, OrderIs, Zenon
  <2> QED
    BY <1>3, <1>6, <2>1, <2>2, Zenon

-----------------------------------------------------------------------------
(***************************************************************************)
(* The inductive invariant is FeedInOrder, that only marks that were given *)
(* are missed, and that a queue holds reports of its shard.                *)
(***************************************************************************)
OwnReports == \A q \in Shards : \A n \in DOMAIN waiting[q] : waiting[q][n].shard = q
FeedInv == FeedInOrder /\ OwnReports /\ \A q \in Shards : missed[q] \subseteq marked[q]

LEMMA FeedNumbers == NumShards \in Nat \ {0} /\ FeedCap \in Nat \ {0} /\ BATCH_SIZE \in Nat \ {0}
  BY PublisherAssumption

LEMMA FeedStarts == FeedInit => FeedInv
<1> SUFFICES ASSUME FeedInit PROVE FeedInv
  OBVIOUS
<1>1. FeedTypeOK
  <2>1. /\ <<>> \in Seq(Report) /\ <<>> \in Seq(Marks) /\ Len(<<>>) = 0 /\ 0 <= FeedCap /\ 0 < BATCH_SIZE
        /\ 1 \in 1 .. NumShards + 1
    BY FeedNumbers
  <2>2. waiting \in [Shards -> Seq(Report)] /\ (\A q \in Shards : Len(waiting[q]) <= FeedCap)
        /\ feed \in [Shards -> Seq(Marks)]
    BY <2>1, Zenon DEF FeedInit
  <2> QED
    BY <2>1, <2>2, Zenon DEF FeedInit, FeedTypeOK
<1>2. ASSUME NEW q \in Shards
      PROVE  /\ (feed[q] \o MarksOf(batch, q)) \o MarksOf(waiting[q], q) = InOrder(marked[q] \ missed[q])
             /\ missed[q] \subseteq marked[q]
  <2>1. feed[q] = <<>> /\ batch = <<>> /\ waiting[q] = <<>> /\ marked[q] = {} /\ missed[q] = {}
    BY DEF FeedInit
  <2>2. MarksOf(<<>>, q) = <<>>
    BY MarksEmpty
  <2>3. InOrder({}) = <<>> /\ {} \ {} = {} /\ (<<>> \o <<>>) \o <<>> = <<>>
    BY OrderIsOf, OrderCases, Zenon
  <2> QED
    BY <2>1, <2>2, <2>3, Zenon
<1>3. OwnReports
  BY DEF FeedInit, OwnReports
<1> QED
  BY <1>1, <1>2, <1>3, Zenon DEF FeedInv, FeedInOrder

\* A report joins the queue of its shard, or is missed.
LEMMA BroadcastKeeps ==
    ASSUME FeedInv, NEW p \in Shards, NEW mark \in Marks \cup {"plain"}, broadcast(p, mark)
    PROVE  FeedInv'
<1>t. /\ marked \in [Shards -> SUBSET Marks] /\ missed \in [Shards -> SUBSET Marks]
      /\ waiting \in [Shards -> Seq(Report)] /\ (\A q \in Shards : Len(waiting[q]) <= FeedCap)
      /\ batch \in Seq(Report) /\ feed \in [Shards -> Seq(Marks)]
  BY DEF FeedInv, FeedInOrder, FeedTypeOK
<1> DEFINE r == [shard |-> p, mark |-> mark]
           new == {mark} \cap Marks
<1>1. /\ batch' = batch /\ feed' = feed /\ marked' = [marked EXCEPT ![p] = marked[p] \cup new]
      /\ running' = running /\ turn' = turn /\ found_any' = found_any
      /\ (mark = "a" => marked[p] = {}) /\ (mark = "b" => marked[p] = {"a"})
      /\ \/ /\ Len(waiting[p]) < FeedCap /\ missed' = missed
            /\ waiting' = [waiting EXCEPT ![p] = Append(waiting[p], r)]
         \/ waiting' = waiting /\ missed' = [missed EXCEPT ![p] = missed[p] \cup new]
  BY Zenon DEF broadcast, thread
<1>r. r \in Report /\ r.shard = p /\ r.mark = mark /\ new \in SUBSET Marks
  BY DEF Report
<1>m. (mark \in Marks => new = {mark}) /\ (mark \notin Marks => new = {})
  OBVIOUS
<1>o. MarkOf(r, p) = (IF mark \in Marks THEN <<mark>> ELSE <<>>)
  BY <1>r, Zenon DEF MarkOf
<1> HIDE DEF r, new
<1>2. waiting' \in [Shards -> Seq(Report)] /\ \A q \in Shards : Len(waiting'[q]) <= FeedCap
  <2>1. PICK w \in Seq(Report) : w = Append(waiting[p], r)
    <3>1. Append(waiting[p], r) \in Seq(Report)
      BY <1>r, <1>t
    <3> QED
      BY <3>1, Zenon
  <2>2. Len(waiting[p]) < FeedCap => Len(w) <= FeedCap
    BY <1>t, <2>1, FeedNumbers
  <2>3. CASE waiting' = waiting
    BY <1>t, <2>3, Zenon
  <2>4. CASE Len(waiting[p]) < FeedCap /\ waiting' = [waiting EXCEPT ![p] = w]
    <3>1. \A q \in Shards : waiting'[q] = IF q = p THEN w ELSE waiting[q]
      BY <1>t, <2>4, Zenon
    <3>2. waiting' \in [Shards -> Seq(Report)]
      BY <1>t, <2>1, <2>4, Zenon
    <3> QED
      BY <1>t, <2>2, <2>4, <3>1, <3>2, Zenon
  <2> QED
    BY <1>1, <2>1, <2>3, <2>4, Zenon
<1>3. marked' \in [Shards -> SUBSET Marks] /\ missed' \in [Shards -> SUBSET Marks]
  <2>1. marked[p] \cup new \in SUBSET Marks /\ missed[p] \cup new \in SUBSET Marks
    BY <1>r, <1>t, Zenon
  <2> QED
    BY <1>1, <1>t, <2>1, Zenon
<1>4. FeedTypeOK'
  BY <1>1, <1>2, <1>3, Zenon DEF FeedTypeOK, FeedInv, FeedInOrder
<1>5. ASSUME NEW q \in Shards
      PROVE  /\ (feed'[q] \o MarksOf(batch', q)) \o MarksOf(waiting'[q], q) = InOrder(marked'[q] \ missed'[q])
             /\ missed'[q] \subseteq marked'[q]
  <2>0. /\ (feed[q] \o MarksOf(batch, q)) \o MarksOf(waiting[q], q) = InOrder(marked[q] \ missed[q])
        /\ missed[q] \subseteq marked[q]
    BY Zenon DEF FeedInv, FeedInOrder
  <2>1. CASE q # p
    <3>1. waiting'[q] = waiting[q] /\ marked'[q] = marked[q] /\ missed'[q] = missed[q]
      BY <1>1, <1>t, <2>1, Zenon
    <3> QED
      BY <1>1, <2>0, <3>1, Zenon
  <2>2. CASE q = p
    <3>1. PICK A \in Seq(Marks), B \in Seq(Marks) :
             A = feed[p] \o MarksOf(batch, p) /\ B = MarksOf(waiting[p], p)
      <4>1. feed[p] \in Seq(Marks) /\ MarksOf(batch, p) \in Seq(Marks) /\ MarksOf(waiting[p], p) \in Seq(Marks)
        BY <1>t, MarksTypes, Zenon
      <4>2. feed[p] \o MarksOf(batch, p) \in Seq(Marks)
        BY <4>1
      <4> QED
        BY <4>1, <4>2, Zenon
    <3>2. PICK X \in SUBSET Marks, Y \in SUBSET Marks : X = marked[p] /\ Y = missed[p]
      BY <1>t, Zenon
    <3>3. A \o B = InOrder(X \ Y) /\ Y \subseteq X
      BY <2>0, <2>2, <3>1, <3>2, Zenon
    <3>4. marked'[p] = X \cup new
      BY <1>1, <1>t, <3>2, Zenon
    <3>5. mark \notin X /\ mark \notin Y
      BY <1>1, <3>2, <3>3, Zenon DEF Marks
    <3>6. CASE waiting' = [waiting EXCEPT ![p] = Append(waiting[p], r)] /\ missed' = missed
      <4>1. MarksOf(waiting'[p], p) = B \o MarkOf(r, p)
        <5>1. waiting'[p] = Append(waiting[p], r) /\ waiting[p] \in Seq(Report)
          BY <1>t, <3>6, Zenon
        <5> QED
          BY <1>r, <3>1, <5>1, MarksAppend, ZenonT(30)
      <4>2. CASE mark = "plain"
        <5>1. new = {} /\ MarkOf(r, p) = <<>>
          BY <1>m, <1>o, <4>2 DEF Marks
        <5>2. B \o <<>> = B /\ X \cup {} = X
          OBVIOUS
        <5> QED
          BY <1>1, <2>2, <3>1, <3>2, <3>3, <3>4, <3>6, <4>1, <5>1, <5>2, Zenon
      <4>3. CASE mark \in Marks
        <5>1. new = {mark} /\ MarkOf(r, p) = <<mark>>
          BY <1>m, <1>o, <4>3, Zenon
        <5>2. A \o (B \o <<mark>>) = (A \o B) \o <<mark>>
          BY <4>3
        <5>3. InOrder(X \ Y) \o <<mark>> = InOrder((X \cup {mark}) \ Y)
          <6>1. CASE mark = "a"
            <7>1. X = {} /\ Y = {} /\ (X \cup {mark}) \ Y = {"a"}
              BY <1>1, <3>2, <3>3, <6>1
            <7> QED
              BY <6>1, <7>1 DEF InOrder
          <6>2. CASE mark = "b"
            <7>1. X = {"a"} /\ "b" \notin X \ Y /\ "b" \in (X \cup {mark}) \ Y
                  /\ ("a" \in X \ Y <=> "a" \in (X \cup {mark}) \ Y)
              BY <1>1, <3>2, <3>3, <3>5, <6>2
            <7> QED
              BY <6>2, <7>1 DEF InOrder
          <6> QED
            BY <4>3, <6>1, <6>2, Zenon DEF Marks
        <5>4. Y \subseteq X \cup {mark}
          BY <3>3
        <5> QED
          BY <1>1, <2>2, <3>1, <3>2, <3>3, <3>4, <3>6, <4>1, <5>1, <5>2, <5>3, <5>4, Zenon
      <4> QED
        BY <4>2, <4>3, Zenon
    <3>7. CASE waiting' = waiting /\ missed' = [missed EXCEPT ![p] = missed[p] \cup new]
      <4>1. missed'[p] = Y \cup new
        BY <1>t, <3>2, <3>7, Zenon
      <4>2. (X \cup new) \ (Y \cup new) = X \ Y /\ Y \cup new \subseteq X \cup new
        BY <1>m, <3>3, <3>5
      <4> QED
        BY <1>1, <2>2, <3>1, <3>2, <3>3, <3>4, <3>7, <4>1, <4>2, Zenon
    <3> QED
      BY <1>1, <3>6, <3>7, Zenon
  <2> QED
    BY <2>1, <2>2, Zenon
<1>6. OwnReports'
  <2>1. OwnReports
    BY DEF FeedInv
  <2>2. CASE waiting' = waiting
    BY <2>1, <2>2, Zenon DEF OwnReports
  <2>3. CASE waiting' = [waiting EXCEPT ![p] = Append(waiting[p], r)]
    <3>1. \A q \in Shards : waiting'[q] = IF q = p THEN Append(waiting[p], r) ELSE waiting[q]
      BY <1>t, <2>3, Zenon
    <3>2. \A n \in DOMAIN Append(waiting[p], r) : Append(waiting[p], r)[n].shard = p
      <4>1. PICK w \in Seq(Report) : w = waiting[p] /\ \A n \in DOMAIN w : w[n].shard = p
        BY <1>t, <2>1, ZenonT(30) DEF OwnReports
      <4>2. \A n \in DOMAIN Append(w, r) : (n \in DOMAIN w /\ Append(w, r)[n] = w[n]) \/ Append(w, r)[n] = r
        OBVIOUS
      <4> QED
        BY <1>r, <4>1, <4>2, Zenon
    <3> QED
      BY <2>1, <3>1, <3>2, Zenon DEF OwnReports
  <2> QED
    BY <1>1, <2>2, <2>3, Zenon
<1> QED
  BY <1>4, <1>5, <1>6, Zenon DEF FeedInv, FeedInOrder

\* What is sent moves to the feed, what is not is missed, and the queues are as they were.
LEMMA SendKeeps ==
    ASSUME NEW reports \in Seq(Report), sendmmsg(reports), FeedTypeOK, NEW q \in Shards,
           NEW rest \in Seq(Marks), missed[q] \subseteq marked[q],
           (feed[q] \o MarksOf(reports, q)) \o rest = InOrder(marked[q] \ missed[q])
    PROVE  /\ feed' \in [Shards -> Seq(Marks)] /\ missed' \in [Shards -> SUBSET Marks] /\ batch' = <<>>
           /\ (feed'[q] \o MarksOf(batch', q)) \o rest = InOrder(marked[q] \ missed'[q])
           /\ missed'[q] \subseteq marked[q]
<1>t. feed \in [Shards -> Seq(Marks)] /\ missed \in [Shards -> SUBSET Marks] /\ marked \in [Shards -> SUBSET Marks]
  BY DEF FeedTypeOK
<1>1. PICK n \in 0 .. Len(reports) :
        /\ feed' = [x \in Shards |-> feed[x] \o MarksOf(SubSeq(reports, 1, n), x)]
        /\ missed' = [x \in Shards |-> missed[x] \cup SetOf(MarksOf(SubSeq(reports, n + 1, Len(reports)), x))]
        /\ batch' = <<>>
  BY Zenon DEF sendmmsg
<1>2. PICK s \in Seq(Report), t \in Seq(Report) :
        s = SubSeq(reports, 1, n) /\ t = SubSeq(reports, n + 1, Len(reports))
  <2>1. SubSeq(reports, 1, n) \in Seq(Report) /\ SubSeq(reports, n + 1, Len(reports)) \in Seq(Report)
    OBVIOUS
  <2> QED
    BY <2>1, Zenon
<1>3. s \o t = reports
  <2>1. PICK L \in Nat : L = Len(reports)
    OBVIOUS
  <2>2. n \in 0 .. L /\ Len(s) = n /\ Len(t) = L - n
    BY <1>2, <2>1
  <2>3. (\A k \in 1 .. n : s[k] = reports[k]) /\ \A k \in 1 .. L - n : t[k] = reports[n + k]
    BY <1>2, <2>1, <2>2
  <2>4. PICK g \in Seq(Report) : g = s \o t
    <3>1. s \o t \in Seq(Report)
      OBVIOUS
    <3> QED
      BY <3>1, Zenon
  <2>5. Len(g) = L /\ (\A k \in 1 .. n : g[k] = s[k]) /\ \A k \in 1 .. L - n : g[n + k] = t[k]
    <3>1. /\ Len(s \o t) = Len(s) + Len(t) /\ (\A k \in 1 .. Len(s) : (s \o t)[k] = s[k])
          /\ \A k \in 1 .. Len(t) : (s \o t)[Len(s) + k] = t[k]
      OBVIOUS
    <3>2. n + (L - n) = L
      BY <2>2
    <3> QED
      BY <2>2, <2>4, <3>1, <3>2, Zenon
  <2>6. \A k \in 1 .. L : g[k] = reports[k]
    <3> SUFFICES ASSUME NEW k \in 1 .. L PROVE g[k] = reports[k]
      OBVIOUS
    <3>1. CASE k <= n
      <4>1. k \in 1 .. n
        BY <2>2, <3>1
      <4> QED
        BY <2>3, <2>5, <4>1, Zenon
    <3>2. CASE k > n
      <4>1. k - n \in 1 .. L - n /\ n + (k - n) = k
        BY <2>2, <3>2
      <4>2. PICK l \in 1 .. L - n : n + l = k
        BY <4>1, Zenon
      <4>3. g[n + l] = t[l] /\ t[l] = reports[n + l]
        BY <2>3, <2>5, Zenon
      <4> QED
        BY <4>2, <4>3, Zenon
    <3> QED
      BY <2>2, <3>1, <3>2
  <2>7. g = reports
    BY <2>1, <2>5, <2>6, SameSeq, Zenon
  <2> QED
    BY <2>4, <2>7, Zenon
<1>4. \A x : MarksOf(s, x) \in Seq(Marks) /\ MarksOf(t, x) \in Seq(Marks)
  BY MarksTypes, Zenon
<1>5. feed' \in [Shards -> Seq(Marks)]
  <2>1. \A x \in Shards : feed[x] \o MarksOf(s, x) \in Seq(Marks)
    BY <1>4, <1>t
  <2> QED
    BY <1>1, <1>2, <2>1, Zenon
<1>6. missed' \in [Shards -> SUBSET Marks]
  <2>1. \A y \in Seq(Marks) : SetOf(y) \subseteq Marks
    BY DEF SetOf
  <2>2. \A x \in Shards : missed[x] \cup SetOf(MarksOf(t, x)) \in SUBSET Marks
    BY <1>4, <1>t, <2>1, Zenon
  <2> QED
    BY <1>1, <1>2, <2>2, Zenon
<1>7. PICK A \in Seq(Marks), B \in Seq(Marks), f \in Seq(Marks) :
        f = feed[q] /\ A = MarksOf(s, q) /\ B = MarksOf(t, q)
  BY <1>4, <1>t, Zenon
<1>8. MarksOf(reports, q) = A \o B
  BY <1>3, <1>7, MarksConcat, Zenon
<1>9. PICK X \in SUBSET Marks, Y \in SUBSET Marks : X = marked[q] /\ Y = missed[q]
  BY <1>t, Zenon
<1>10. ((f \o A) \o B) \o rest = InOrder(X \ Y)
  <2>1. f \o (A \o B) = (f \o A) \o B
    BY MarksJoined, Zenon
  <2> QED
    BY <1>7, <1>8, <1>9, <2>1, Zenon
<1>11. (f \o A) \o rest = InOrder((X \ Y) \ SetOf(B)) /\ SetOf(B) \subseteq X \ Y
  <2>1. PICK g \in Seq(Marks), Z \in SUBSET Marks : g = f \o A /\ Z = X \ Y
    <3>1. f \o A \in Seq(Marks) /\ X \ Y \in SUBSET Marks
      OBVIOUS
    <3> QED
      BY <3>1, Zenon
  <2>2. (g \o B) \o rest = InOrder(Z)
    BY <1>10, <2>1, Zenon
  <2>3. g \o rest = InOrder(Z \ SetOf(B)) /\ SetOf(B) \subseteq Z
    BY <2>2, LeaveOut, Zenon
  <2> QED
    BY <2>1, <2>3, Zenon
<1>12. feed'[q] = f \o A /\ missed'[q] = Y \cup SetOf(B) /\ MarksOf(batch', q) = <<>>
  BY <1>1, <1>2, <1>7, <1>9, MarksEmpty, Zenon
<1>13. (f \o A) \o <<>> = f \o A
  OBVIOUS
<1>14. (X \ Y) \ SetOf(B) = X \ (Y \cup SetOf(B)) /\ Y \cup SetOf(B) \subseteq X
  BY <1>9, <1>11
<1> QED
  BY <1>1, <1>5, <1>6, <1>9, <1>11, <1>12, <1>13, <1>14, ZenonT(30)

LEMMA PopReportKeeps ==
    ASSUME FeedInv, PopReport
    PROVE  FeedInv'
<1>t. /\ FeedTypeOK /\ OwnReports
      /\ marked \in [Shards -> SUBSET Marks] /\ missed \in [Shards -> SUBSET Marks]
      /\ waiting \in [Shards -> Seq(Report)] /\ (\A q \in Shards : Len(waiting[q]) <= FeedCap)
      /\ batch \in Seq(Report) /\ Len(batch) < BATCH_SIZE /\ feed \in [Shards -> Seq(Marks)]
  BY DEF FeedInv, FeedInOrder, FeedTypeOK
<1>p. turn \in Shards
  BY FeedNumbers DEF FeedInv, FeedInOrder, FeedTypeOK, PopReport, Shards
<1>1. PICK p \in Shards, old \in Seq(Report) : p = turn /\ old = waiting[p]
  BY <1>p, <1>t, Zenon
<1>2. PICK h \in Report, tl \in Seq(Report) : h = Head(old) /\ tl = Tail(old)
  <2>1. old # <<>>
    BY <1>1, Zenon DEF PopReport
  <2>2. Head(old) \in Report /\ Tail(old) \in Seq(Report)
    BY <2>1
  <2> QED
    BY <2>2, Zenon
<1>3. PICK rs \in Seq(Report) : rs = Append(batch, h)
  <2>1. Append(batch, h) \in Seq(Report)
    BY <1>t
  <2> QED
    BY <2>1, Zenon
<1>4. /\ IF Full(rs) THEN sendmmsg(rs) ELSE batch' = rs /\ feed' = feed /\ missed' = missed
      /\ waiting' = [waiting EXCEPT ![p] = tl] /\ found_any' = TRUE
      /\ marked' = marked /\ running' = running /\ turn' = turn
  BY <1>1, <1>2, <1>3, Zenon DEF PopReport
<1>5. h.shard = p /\ (\A n \in DOMAIN tl : tl[n].shard = p) /\ Len(tl) <= FeedCap
      /\ <<h>> \o tl = old
  <2>1. \A n \in DOMAIN old : old[n].shard = p
    BY <1>1, <1>t, Zenon DEF OwnReports
  <2>2. old # <<>> /\ Len(old) <= FeedCap
    BY <1>1, <1>t, Zenon DEF PopReport
  <2>3. 1 \in DOMAIN old /\ h = old[1] /\ \A n \in DOMAIN tl : n + 1 \in DOMAIN old /\ tl[n] = old[n + 1]
    BY <1>2, <2>2
  <2>4. Len(tl) <= FeedCap
    BY <1>2, <2>2, FeedNumbers
  <2>5. <<h>> \o tl = old
    BY <1>2, <2>2
  <2> QED
    BY <2>1, <2>3, <2>4, <2>5, Zenon
<1>6. \A q \in Shards : waiting'[q] = IF q = p THEN tl ELSE waiting[q]
  BY <1>4, <1>t, Zenon
<1>7. waiting' \in [Shards -> Seq(Report)] /\ \A q \in Shards : Len(waiting'[q]) <= FeedCap
  BY <1>4, <1>5, <1>6, <1>t, Zenon
<1>8. OwnReports'
  BY <1>5, <1>6, <1>t, Zenon DEF OwnReports
<1>9. ASSUME NEW q \in Shards
      PROVE  /\ (feed[q] \o MarksOf(rs, q)) \o MarksOf(waiting'[q], q) = InOrder(marked[q] \ missed[q])
             /\ missed[q] \subseteq marked[q] /\ MarksOf(waiting'[q], q) \in Seq(Marks)
  <2>0. /\ (feed[q] \o MarksOf(batch, q)) \o MarksOf(waiting[q], q) = InOrder(marked[q] \ missed[q])
        /\ missed[q] \subseteq marked[q]
    BY Zenon DEF FeedInv, FeedInOrder
  <2>1. MarksOf(waiting'[q], q) \in Seq(Marks)
    BY <1>7, MarksTypes, Zenon
  <2>2. PICK f, b, m \in Seq(Marks) : f = feed[q] /\ b = MarksOf(batch, q) /\ m = MarkOf(h, q)
    BY <1>t, MarksTypes, MarkTypes, Zenon
  <2>3. MarksOf(rs, q) = b \o m
    BY <1>3, <1>t, <2>2, MarksAppend, Zenon
  <2>4. CASE q # p
    <3>1. m = <<>> /\ waiting'[q] = waiting[q]
      BY <1>5, <1>6, <2>2, <2>4, Zenon DEF MarkOf
    <3>2. b \o <<>> = b
      OBVIOUS
    <3> QED
      BY <2>0, <2>1, <2>2, <2>3, <3>1, <3>2, Zenon
  <2>5. CASE q = p
    <3>1. PICK z \in Seq(Marks) : z = MarksOf(tl, q)
      BY MarksTypes, Zenon
    <3>2. MarksOf(old, q) = m \o z
      <4>1. <<h>> \in Seq(Report) /\ <<>> \in Seq(Report) /\ <<h>> = Append(<<>>, h)
        OBVIOUS
      <4>2. MarksOf(<<h>>, q) = <<>> \o m
        <5>1. MarksOf(Append(<<>>, h), q) = MarksOf(<<>>, q) \o MarkOf(h, q)
          BY <4>1, MarksAppend, Zenon
        <5> QED
          BY <2>2, <4>1, <5>1, MarksEmpty, Zenon
      <4>3. <<>> \o m = m
        OBVIOUS
      <4> QED
        <5>1. MarksOf(<<h>> \o tl, q) = MarksOf(<<h>>, q) \o MarksOf(tl, q)
          BY <4>1, MarksConcat, Zenon
        <5> QED
          BY <1>5, <3>1, <4>2, <4>3, <5>1, Zenon
    <3>3. (f \o b) \o (m \o z) = (f \o (b \o m)) \o z
      <4>1. f \o b \in Seq(Marks)
        BY Joined, Zenon
      <4>2. (f \o b) \o (m \o z) = ((f \o b) \o m) \o z
        BY <4>1, MarksJoined, ZenonT(30)
      <4>3. (f \o b) \o m = f \o (b \o m)
        BY MarksJoined, ZenonT(30)
      <4> QED
        BY <4>2, <4>3, Zenon
    <3> QED
      BY <1>1, <1>6, <2>0, <2>1, <2>2, <2>3, <2>5, <3>1, <3>2, <3>3, Zenon
  <2> QED
    BY <2>4, <2>5, Zenon
<1>10. CASE Full(rs)
  <2>1. sendmmsg(rs)
    BY <1>4, <1>10, Zenon
  <2>2. ASSUME NEW q \in Shards
        PROVE  /\ feed' \in [Shards -> Seq(Marks)] /\ missed' \in [Shards -> SUBSET Marks] /\ batch' = <<>>
               /\ (feed'[q] \o MarksOf(batch', q)) \o MarksOf(waiting'[q], q) = InOrder(marked[q] \ missed'[q])
               /\ missed'[q] \subseteq marked[q]
    BY <1>9, <1>t, <2>1, SendKeeps, Zenon
  <2>3. batch' \in Seq(Report) /\ Len(batch') < BATCH_SIZE
    <3>1. batch' = <<>>
      BY <1>p, <2>2, Zenon
    <3> QED
      BY <3>1, FeedNumbers
  <2>4. FeedTypeOK'
    BY <1>4, <1>7, <1>p, <1>t, <2>2, <2>3, Zenon DEF FeedTypeOK
  <2> QED
    BY <1>4, <1>8, <2>2, <2>4, Zenon DEF FeedInv, FeedInOrder
<1>11. CASE ~Full(rs)
  <2>1. batch' = rs /\ feed' = feed /\ missed' = missed
    BY <1>4, <1>11, Zenon
  <2>2. Len(rs) < BATCH_SIZE
    BY <1>3, <1>11, <1>t, FeedNumbers DEF Full
  <2>3. FeedTypeOK'
    BY <1>4, <1>7, <1>t, <2>1, <2>2, Zenon DEF FeedTypeOK
  <2> QED
    BY <1>4, <1>8, <1>9, <2>1, <2>3, Zenon DEF FeedInv, FeedInOrder
<1> QED
  BY <1>10, <1>11

LEMMA EndPassKeeps ==
    ASSUME FeedInv, EndPass
    PROVE  FeedInv'
<1>t. /\ FeedTypeOK /\ OwnReports /\ waiting \in [Shards -> Seq(Report)] /\ batch \in Seq(Report)
  BY DEF FeedInv, FeedInOrder, FeedTypeOK
<1>1. /\ sendmmsg(batch) \/ (batch' = batch /\ feed' = feed /\ missed' = missed)
      /\ turn' = 1 /\ found_any' = FALSE /\ marked' = marked /\ waiting' = waiting /\ running' = running
  BY Zenon DEF EndPass
<1>2. turn' \in 1 .. NumShards + 1 /\ 1 \in Shards
  BY <1>1, FeedNumbers DEF Shards
<1>3. OwnReports'
  BY <1>1, <1>t, Zenon DEF OwnReports
<1>4. ASSUME NEW q \in Shards
      PROVE  /\ (feed[q] \o MarksOf(batch, q)) \o MarksOf(waiting[q], q) = InOrder(marked[q] \ missed[q])
             /\ missed[q] \subseteq marked[q] /\ MarksOf(waiting[q], q) \in Seq(Marks)
  BY <1>t, MarksTypes, Zenon DEF FeedInv, FeedInOrder
<1>5. CASE sendmmsg(batch)
  <2>1. ASSUME NEW q \in Shards
        PROVE  /\ feed' \in [Shards -> Seq(Marks)] /\ missed' \in [Shards -> SUBSET Marks] /\ batch' = <<>>
               /\ (feed'[q] \o MarksOf(batch', q)) \o MarksOf(waiting[q], q) = InOrder(marked[q] \ missed'[q])
               /\ missed'[q] \subseteq marked[q]
    BY <1>4, <1>5, <1>t, SendKeeps, Zenon
  <2>2. batch' \in Seq(Report) /\ Len(batch') < BATCH_SIZE
    <3>1. batch' = <<>>
      BY <1>2, <2>1, Zenon
    <3> QED
      BY <3>1, FeedNumbers
  <2>3. FeedTypeOK'
    BY <1>1, <1>2, <1>t, <2>1, <2>2, Zenon DEF FeedTypeOK
  <2> QED
    BY <1>1, <1>3, <2>1, <2>3, Zenon DEF FeedInv, FeedInOrder
<1>6. CASE batch' = batch /\ feed' = feed /\ missed' = missed
  <2>1. FeedTypeOK'
    BY <1>1, <1>2, <1>6, <1>t, Zenon DEF FeedTypeOK
  <2> QED
    BY <1>1, <1>3, <1>4, <1>6, <2>1, Zenon DEF FeedInv, FeedInOrder
<1> QED
  BY <1>1, <1>5, <1>6, Zenon

\* Moving to the next queue, stopping and stuttering touch neither the reports nor the marks.
LEMMA OthersKeep ==
    ASSUME FeedInv, NextQueue \/ Stop \/ UNCHANGED feed_vars
    PROVE  FeedInv'
<1>1. /\ UNCHANGED <<marked, waiting, batch, feed, missed, found_any>>
      /\ \/ running /\ turn <= NumShards /\ turn' = turn + 1 /\ running' = running
         \/ turn' = turn /\ running' = FALSE
         \/ turn' = turn /\ running' = running
  BY Zenon DEF NextQueue, Stop, feed_vars, thread
<1>2. FeedTypeOK
  BY DEF FeedInv, FeedInOrder
<1>3. turn' \in 1 .. NumShards + 1
  BY <1>1, <1>2, FeedNumbers DEF FeedTypeOK
<1>4. FeedTypeOK'
  BY <1>1, <1>2, <1>3, Zenon DEF FeedTypeOK
<1>5. OwnReports'
  BY <1>1, Zenon DEF FeedInv, OwnReports
<1>6. ASSUME NEW q \in Shards
      PROVE  /\ (feed'[q] \o MarksOf(batch', q)) \o MarksOf(waiting'[q], q) = InOrder(marked'[q] \ missed'[q])
             /\ missed'[q] \subseteq marked'[q]
  BY <1>1, Zenon DEF FeedInv, FeedInOrder
<1> QED
  BY <1>4, <1>5, <1>6, Zenon DEF FeedInv, FeedInOrder

(***************************************************************************)
(* For any number of shards, any queue capacity and any batch size, and    *)
(* wherever sendmmsg() stops: the reports of a shard reach the wire in the *)
(* order Publisher::run() found them, none twice, and none is missing but  *)
(* those dropped at the full queue or not sent; the batch array is never   *)
(* overrun.                                                                *)
(***************************************************************************)
THEOREM FeedAlwaysInOrder == FeedSpec => []FeedInOrder
<1>1. FeedInv /\ [FeedNext]_feed_vars => FeedInv'
  <2> SUFFICES ASSUME FeedInv, [FeedNext]_feed_vars PROVE FeedInv'
    OBVIOUS
  <2>1. CASE \E q \in Shards, mark \in Marks \cup {"plain"} : broadcast(q, mark)
    BY <2>1, BroadcastKeeps, Zenon
  <2>2. CASE PopReport
    BY <2>2, PopReportKeeps, Zenon
  <2>3. CASE EndPass
    BY <2>3, EndPassKeeps, Zenon
  <2>4. CASE NextQueue \/ Stop \/ UNCHANGED feed_vars
    BY <2>4, OthersKeep, Zenon
  <2> QED
    BY <2>1, <2>2, <2>3, <2>4, Zenon DEF FeedNext, PublishReports
<1>2. FeedInv => FeedInOrder
  BY DEF FeedInv
<1> QED
  BY <1>1, <1>2, FeedStarts, PTL DEF FeedSpec

=============================================================================
