-------------------------- MODULE FirmOrdersProofs --------------------------
(***************************************************************************)
(* Proofs about FirmOrders for any limits, queue and batch sizes, prices   *)
(* and number of order ids.                                                *)
(***************************************************************************)
EXTENDS FirmOrders, FiniteSetTheorems, WellFoundedInduction, TLAPS

LEMMA Numbers ==
  /\ QUOTE_SIZE \in Nat \ {0} /\ MaxIds \in Nat \ {0} /\ MAX_LIVE_ORDERS \in Nat \ {0}
  BY FirmAssumption

LEMMA Naught == ASSUME NEW b \in Nat PROVE (~(b > 0) => b = 0) /\ b + 0 = b
OBVIOUS

LEMMA HeadIn == ASSUME NEW S, NEW l \in Seq(S), l # <<>> PROVE Head(l) \in S
OBVIOUS

-----------------------------------------------------------------------------
(* The ids in a sequence of actions.                                       *)

IdSet(s) == {s[i].id : i \in DOMAIN s}

\* The ids of s increase.
Increasing(s) == \A i, j \in DOMAIN s : i < j => s[i].id < s[j].id

Below(X, Y) == \A x \in X, y \in Y : x < y

LEMMA IdsAreInts ==
  ASSUME NEW s \in Seq(Action)
  PROVE  IdSet(s) \subseteq Ids /\ IdSet(s) \subseteq Int
<1>1. \A i \in DOMAIN s : s[i] \in Action
  OBVIOUS
<1> QED
  BY <1>1, Numbers DEF IdSet, Action, Ids

LEMMA AppendIds ==
  ASSUME NEW s \in Seq(Action), NEW a \in Action, Increasing(s), Below(IdSet(s), {a.id})
  PROVE  /\ Append(s, a) \in Seq(Action) /\ Increasing(Append(s, a))
         /\ IdSet(Append(s, a)) = IdSet(s) \cup {a.id}
<1> DEFINE t == Append(s, a)
<1>1. /\ t \in Seq(Action) /\ Len(s) \in Nat
      /\ DOMAIN s = 1 .. Len(s) /\ DOMAIN t = 1 .. Len(s) + 1
      /\ \A i \in 1 .. Len(s) : t[i] = s[i]
      /\ t[Len(s) + 1] = a
  OBVIOUS
<1> HIDE DEF t
<1>2. IdSet(t) = IdSet(s) \cup {a.id}
  <2>1. ASSUME NEW x \in IdSet(t) PROVE x \in IdSet(s) \cup {a.id}
    BY <1>1 DEF IdSet
  <2>2. ASSUME NEW x \in IdSet(s) PROVE x \in IdSet(t)
    <3>1. PICK i \in 1 .. Len(s) : x = s[i].id BY <1>1 DEF IdSet
    <3>2. i \in DOMAIN t /\ t[i].id = x BY <1>1, <3>1
    <3> QED BY <3>2 DEF IdSet
  <2>3. a.id \in IdSet(t)
    <3>1. Len(s) + 1 \in DOMAIN t BY <1>1
    <3> QED BY <1>1, <3>1 DEF IdSet
  <2> QED BY <2>1, <2>2, <2>3
<1>3. Increasing(t)
  <2> SUFFICES ASSUME NEW i \in DOMAIN t, NEW j \in DOMAIN t, i < j PROVE t[i].id < t[j].id
    BY DEF Increasing
  <2>1. i \in 1 .. Len(s) /\ t[i] = s[i] /\ s[i].id \in IdSet(s) BY <1>1 DEF IdSet
  <2>2. CASE j \in 1 .. Len(s) BY <1>1, <2>1, <2>2 DEF Increasing
  <2>3. CASE j = Len(s) + 1 BY <1>1, <2>1, <2>3 DEF Below
  <2> QED BY <1>1, <2>2, <2>3
<1> QED
  BY <1>1, <1>2, <1>3 DEF t

LEMMA TailIds ==
  ASSUME NEW s \in Seq(Action), s # <<>>, Increasing(s)
  PROVE  /\ Tail(s) \in Seq(Action) /\ Increasing(Tail(s)) /\ Head(s) \in Action
         /\ Head(s).id \in IdSet(s) /\ IdSet(s) = IdSet(Tail(s)) \cup {Head(s).id}
         /\ Below({Head(s).id}, IdSet(Tail(s)))
<1> DEFINE t == Tail(s)
<1>1. /\ t \in Seq(Action) /\ Len(s) \in Nat \ {0} /\ Head(s) \in Action /\ Head(s) = s[1]
      /\ DOMAIN s = 1 .. Len(s) /\ DOMAIN t = 1 .. Len(s) - 1
      /\ \A i \in 1 .. Len(s) - 1 : t[i] = s[i + 1]
  OBVIOUS
<1> HIDE DEF t
<1>2. Head(s).id \in IdSet(s)
  BY <1>1 DEF IdSet
<1>3. ASSUME NEW x \in IdSet(t) PROVE x \in IdSet(s) /\ Head(s).id < x
  <2>1. PICK i \in 1 .. Len(s) - 1 : x = t[i].id BY <1>1 DEF IdSet
  <2>2. i + 1 \in DOMAIN s /\ 1 \in DOMAIN s /\ x = s[i + 1].id /\ 1 < i + 1 BY <1>1, <2>1
  <2> QED BY <1>1, <2>2 DEF IdSet, Increasing
<1>4. ASSUME NEW x \in IdSet(s), x # Head(s).id PROVE x \in IdSet(t)
  <2>1. PICK i \in 1 .. Len(s) : x = s[i].id BY <1>1 DEF IdSet
  <2>2. i # 1 BY <1>1, <1>4, <2>1
  <2>3. i - 1 \in DOMAIN t /\ t[i - 1] = s[i] BY <1>1, <2>2
  <2> QED BY <2>1, <2>3 DEF IdSet
<1>5. Increasing(t)
  <2> SUFFICES ASSUME NEW i \in DOMAIN t, NEW j \in DOMAIN t, i < j PROVE t[i].id < t[j].id
    BY DEF Increasing
  <2>1. i + 1 \in DOMAIN s /\ j + 1 \in DOMAIN s /\ i + 1 < j + 1 /\ t[i] = s[i + 1] /\ t[j] = s[j + 1]
    BY <1>1
  <2> QED BY <2>1 DEF Increasing
<1> QED
  BY <1>1, <1>2, <1>3, <1>4, <1>5 DEF t, Below

LEMMA ConcatIds ==
  ASSUME NEW s \in Seq(Action), NEW t \in Seq(Action), Increasing(s), Increasing(t),
         Below(IdSet(s), IdSet(t))
  PROVE  /\ s \o t \in Seq(Action) /\ Increasing(s \o t)
         /\ IdSet(s \o t) = IdSet(s) \cup IdSet(t)
<1> DEFINE u == s \o t
<1>1. /\ u \in Seq(Action) /\ Len(s) \in Nat /\ Len(t) \in Nat
      /\ DOMAIN s = 1 .. Len(s) /\ DOMAIN t = 1 .. Len(t) /\ DOMAIN u = 1 .. Len(s) + Len(t)
      /\ \A i \in 1 .. Len(s) + Len(t) : u[i] = IF i <= Len(s) THEN s[i] ELSE t[i - Len(s)]
  OBVIOUS
<1> HIDE DEF u
<1>2. \A i \in DOMAIN s : i \in DOMAIN u /\ u[i] = s[i]
  BY <1>1
<1>3. \A i \in DOMAIN t : Len(s) + i \in DOMAIN u /\ u[Len(s) + i] = t[i]
  BY <1>1
<1>4. \A i \in DOMAIN u : \/ i \in DOMAIN s /\ u[i] = s[i]
                          \/ i - Len(s) \in DOMAIN t /\ u[i] = t[i - Len(s)] /\ i > Len(s)
  BY <1>1
<1>5. IdSet(u) = IdSet(s) \cup IdSet(t)
  BY <1>2, <1>3, <1>4 DEF IdSet
<1>6. Increasing(u)
  <2> SUFFICES ASSUME NEW i \in DOMAIN u, NEW j \in DOMAIN u, i < j PROVE u[i].id < u[j].id
    BY DEF Increasing
  <2>1. CASE i \in DOMAIN s /\ j \in DOMAIN s BY <1>2, <2>1 DEF Increasing
  <2>2. CASE i \in DOMAIN s /\ j \notin DOMAIN s
    <3>1. u[i].id \in IdSet(s) /\ u[j].id \in IdSet(t) BY <1>2, <1>4, <2>2 DEF IdSet
    <3> QED BY <3>1 DEF Below
  <2>3. CASE i \notin DOMAIN s
    <3>1. /\ i - Len(s) \in DOMAIN t /\ u[i] = t[i - Len(s)]
          /\ j - Len(s) \in DOMAIN t /\ u[j] = t[j - Len(s)] /\ i - Len(s) < j - Len(s)
      BY <1>1, <1>4, <2>3
    <3> QED BY <3>1 DEF Increasing
  <2> QED BY <2>1, <2>2, <2>3
<1> QED
  BY <1>1, <1>5, <1>6 DEF u

\* What one side of on_tick() adds: at most a cancel and a quote, numbered from next.
LEMMA RequoteIds ==
  ASSUME NEW side \in OrderSides, NEW price, NEW next \in Nat \ {0},
         next + Len(Requote(side, price, next)) - 1 <= MaxIds
  PROVE  LET r == Requote(side, price, next)
         IN  /\ r \in Seq(Action) /\ Len(r) \in Nat /\ Increasing(r)
             /\ IdSet(r) \subseteq next .. next + Len(r) - 1
<1> DEFINE r == Requote(side, price, next)
<1>0. MaxIds \in Nat
  BY Numbers
<1>1. CASE r = <<>>
  <2>1. r \in Seq(Action) /\ Len(r) = 0 BY <1>1
  <2>2. DOMAIN r = {} BY <1>1
  <2> QED BY <2>1, <2>2 DEF Increasing, IdSet
<1>2. CASE r = <<New(next, side)>>
  <2>1. Len(r) = 1 /\ DOMAIN r = {1} /\ r[1].id = next BY <1>2 DEF New
  <2>2. New(next, side) \in Action BY <1>0, <2>1 DEF New, Action, Ids
  <2>3. r \in Seq(Action) BY <1>2, <2>2
  <2> QED BY <2>1, <2>3 DEF Increasing, IdSet
<1>3. CASE r = <<CancelOf(next, side), New(next + 1, side)>>
  <2>1. Len(r) = 2 /\ DOMAIN r = {1, 2} /\ r[1].id = next /\ r[2].id = next + 1 BY <1>3 DEF New, CancelOf
  <2>2. CancelOf(next, side) \in Action /\ New(next + 1, side) \in Action
    BY <1>0, <2>1 DEF New, CancelOf, Action, Ids
  <2>3. r \in Seq(Action) BY <1>3, <2>2
  <2> QED BY <2>1, <2>3 DEF Increasing, IdSet
<1>4. r = <<>> \/ r = <<New(next, side)>> \/ r = <<CancelOf(next, side), New(next + 1, side)>>
  BY DEF Requote
<1> QED
  BY <1>1, <1>2, <1>3, <1>4

-----------------------------------------------------------------------------
(* The types.                                                              *)

Tracking == [side : OrderSides, remaining : Int, active : BOOLEAN]
Resting == [side : OrderSides, qty : Nat]
Report == [id : Ids, qty : Int]

Types ==
    /\ counter \in 1 .. MaxIds + 1
    /\ mpc \in {"idle", "risk", "track", "count", "send"} /\ rpc \in {"idle", "close"}
    /\ actions \in Seq(Action) /\ (mpc \in {"track", "count", "send"} => actions # <<>>)
    /\ queue \in Seq(Action) /\ batch \in Seq(Action) /\ wire \in Seq(Action)
    /\ tracker \in [Ids -> Tracking] /\ book \in [Ids -> Resting]
    /\ reports \in Seq(Report)
    /\ in_flight \in Int

LEMMA TickTypes ==
  ASSUME Types, NEW bid, NEW ask, MakerTick(bid, ask)
  PROVE  /\ actions' \in Seq(Action) /\ Increasing(actions')
         /\ IdSet(actions') \subseteq counter .. counter' - 1
         /\ counter' \in counter .. MaxIds + 1
<1> DEFINE b == Requote("B", bid, counter)
           k == counter + Len(b)
           a == Requote("S", ask, k)
<1>0. counter \in Nat \ {0} /\ MaxIds \in Nat \ {0}
  BY Numbers DEF Types
<1>1. /\ counter + Len(b \o a) - 1 <= MaxIds /\ counter' = counter + Len(b \o a)
      /\ actions' = b \o a
  BY DEF MakerTick
<1>2. b = <<>> \/ (\E x : b = <<x>>) \/ (\E x, y : b = <<x, y>>)
  BY DEF Requote
<1>3. Len(b) \in Nat
  BY <1>2
<1>4. a = <<>> \/ (\E x : a = <<x>>) \/ (\E x, y : a = <<x, y>>)
  BY DEF Requote
<1>5. Len(a) \in Nat /\ Len(b \o a) = Len(b) + Len(a)
  BY <1>2, <1>4
<1>6. k \in Nat \ {0} /\ counter + Len(b) - 1 <= MaxIds /\ k + Len(a) - 1 <= MaxIds
  BY <1>0, <1>1, <1>3, <1>5
<1>7. "B" \in OrderSides /\ "S" \in OrderSides
  BY DEF OrderSides
<1>8. b \in Seq(Action) /\ Increasing(b) /\ IdSet(b) \subseteq counter .. k - 1
  BY <1>0, <1>6, <1>7, RequoteIds
<1> HIDE DEF b
<1>9. a \in Seq(Action) /\ Increasing(a) /\ IdSet(a) \subseteq k .. k + Len(a) - 1
  BY <1>6, <1>7, RequoteIds
<1> HIDE DEF a
<1>10. Below(IdSet(b), IdSet(a))
  BY <1>3, <1>5, <1>6, <1>8, <1>9 DEF Below
<1>11. b \o a \in Seq(Action) /\ Increasing(b \o a) /\ IdSet(b \o a) = IdSet(b) \cup IdSet(a)
  BY <1>8, <1>9, <1>10, ConcatIds
<1>12. counter' = k + Len(a)
  BY <1>0, <1>1, <1>3, <1>5
<1>13. IdSet(b) \cup IdSet(a) \subseteq counter .. counter' - 1
  BY <1>0, <1>3, <1>5, <1>8, <1>9, <1>12
<1> QED
  BY <1>0, <1>1, <1>3, <1>5, <1>11, <1>12, <1>13

LEMMA TypesStep == Types /\ [OrdersNext]_orders_vars => Types'
<1> SUFFICES ASSUME Types, [OrdersNext]_orders_vars PROVE Types'
  OBVIOUS
<1>0. QUOTE_SIZE \in Nat \ {0} /\ MaxIds \in Nat \ {0}
  BY Numbers
<1>t. /\ actions \in Seq(Action) /\ queue \in Seq(Action) /\ batch \in Seq(Action) /\ wire \in Seq(Action)
      /\ tracker \in [Ids -> Tracking] /\ book \in [Ids -> Resting] /\ reports \in Seq(Report)
  BY DEF Types
<1>h. /\ \A s \in Seq(Action) : s # <<>> => Head(s) \in Action /\ Tail(s) \in Seq(Action)
      /\ reports # <<>> => Head(reports) \in Report /\ Tail(reports) \in Seq(Report)
  <2>1. ASSUME NEW s \in Seq(Action), s # <<>> PROVE Head(s) \in Action /\ Tail(s) \in Seq(Action)
    BY <2>1
  <2>2. ASSUME reports # <<>> PROVE Head(reports) \in Report /\ Tail(reports) \in Seq(Report)
    BY <1>t, <2>2
  <2> QED BY <2>1, <2>2
<1>b. ASSUME NEW id \in Ids, NEW q \in Nat PROVE [book EXCEPT ![id].qty = q] \in [Ids -> Resting]
  <2>1. book[id] \in Resting BY <1>t
  <2>2. [book[id] EXCEPT !.qty = q] \in Resting BY <2>1 DEF Resting
  <2> QED BY <1>t, <2>2
<1> USE DEF md, rx, tx, exchange
<1>1. ASSUME NEW bid \in BidPrices, NEW ask \in AskPrices, MakerTick(bid, ask) PROVE Types'
  <2>1. actions' \in Seq(Action) /\ counter' \in counter .. MaxIds + 1
    BY <1>1, TickTypes
  <2>2. counter' \in 1 .. MaxIds + 1
    BY <1>0, <2>1 DEF Types
  <2> QED BY <1>1, <2>1, <2>2, ZenonT(30) DEF MakerTick, Types
<1>2. ASSUME NEW side \in OrderSides, TakerTick(side) PROVE Types'
  <2>1. New(counter, side) \in Action BY <1>0, <1>2 DEF TakerTick, New, Action, Ids, Types
  <2> QED BY <1>0, <1>2, <2>1 DEF TakerTick, Types
<1>3. CASE CheckRisk
  <2>1. /\ actions # <<>> /\ mpc' \in {"risk", "track", "send"}
        /\ actions' = actions \/ (actions' = Tail(actions) /\ mpc' = "risk")
    BY <1>3 DEF CheckRisk, Passed, Blocked
  <2>2. actions' \in Seq(Action)
    BY <1>t, <1>h, <2>1, Zenon
  <2> QED BY <1>3, <2>1, <2>2 DEF CheckRisk, Types
<1>4. CASE TickDone \/ CountInFlight
  BY <1>4 DEF TickDone, CountInFlight, Types
<1>5. CASE Track
  <2>1. Head(actions) \in Action BY <1>5, <1>t, <1>h, ZenonT(30) DEF Track, Types
  <2>2. tracker' \in [Ids -> Tracking]
    <3>1. Head(actions).id \in Ids BY <2>1 DEF Action
    <3>2. [side |-> Head(actions).side, remaining |-> Head(actions).qty, active |-> TRUE] \in Tracking
      BY <1>0, <2>1 DEF Action, Tracking
    <3> QED BY <1>5, <1>t, <3>1, <3>2 DEF Track
  <2> QED BY <1>5, <2>2 DEF Track, Types
<1>6. CASE send_order
  <2>1. actions # <<>> BY <1>6 DEF send_order, Types
  <2>2. queue' \in Seq(Action) /\ actions' \in Seq(Action) BY <1>6, <1>t, <1>h, <2>1 DEF send_order
  <2> QED BY <1>6, <2>2 DEF send_order, Types
<1>7. CASE Transmit \/ Gather \/ GatherEnd \/ SendBatch
  <2>1. ASSUME NEW s \in Seq(Action), NEW u \in Seq(Action), NEW a \in Action
        PROVE  Append(s, a) \in Seq(Action) /\ s \o u \in Seq(Action) /\ <<>> \in Seq(Action)
    OBVIOUS
  <2>2. CASE Transmit
    <3>1. queue' \in Seq(Action) /\ wire' \in Seq(Action) /\ batch' = batch
      BY <2>2, <1>t, <1>h, <2>1, ZenonT(30) DEF Transmit
    <3> QED BY <2>2, <1>t, <3>1 DEF Transmit, Types
  <2>3. CASE Gather
    <3>1. queue' \in Seq(Action) /\ batch' \in Seq(Action) /\ wire' = wire
      BY <2>3, <1>t, <1>h, <2>1 DEF Gather
    <3> QED BY <2>3, <1>t, <3>1 DEF Gather, Types
  <2>4. CASE GatherEnd
    BY <2>4, ZenonT(30) DEF GatherEnd, Types
  <2>5. CASE SendBatch
    <3>1. wire' \in Seq(Action) /\ batch' \in Seq(Action) /\ queue' = queue
      BY <2>5, <1>t, <2>1 DEF SendBatch
    <3> QED BY <2>5, <1>t, <3>1, ZenonT(30) DEF SendBatch, Types
  <2> QED BY <1>7, <2>2, <2>3, <2>4, <2>5
<1>8. CASE Accept \/ Refuse \/ CancelByToken
  <2>1. wire # <<>> /\ wire' = Tail(wire)
    BY <1>8, Zenon DEF Accept, Refuse, CancelByToken
  <2>2. Head(wire) \in Action /\ wire' \in Seq(Action)
    BY <1>t, <1>h, <2>1, ZenonT(30)
  <2>3. CASE Accept
    <3>1. Head(wire).id \in Ids /\ [side |-> Head(wire).side, qty |-> Head(wire).qty] \in Resting
      BY <1>0, <2>2, ZenonT(30) DEF Action, Resting
    <3>2. book' \in [Ids -> Resting] BY <1>t, <2>3, <3>1 DEF Accept
    <3> QED BY <2>2, <2>3, <3>2, ZenonT(30) DEF Accept, Types
  <2>4. CASE Refuse
    BY <2>2, <2>4 DEF Refuse, Types
  <2>5. CASE CancelByToken
    <3>1. Head(wire).id \in Ids BY <2>2 DEF Action
    <3>2. [book EXCEPT ![Head(wire).id].qty = 0] \in [Ids -> Resting] BY <1>b, <3>1
    <3>3. book' \in [Ids -> Resting] BY <2>5, <3>2, Zenon DEF CancelByToken
    <3> QED BY <2>2, <2>5, <3>3 DEF CancelByToken, Types
  <2> QED BY <1>8, <2>3, <2>4, <2>5
<1>9. ASSUME NEW id \in Ids, NEW qty \in 1 .. QUOTE_SIZE, Execute(id, qty) PROVE Types'
  <2>1. qty \in Int BY <1>0
  <2>2. book[id].qty - qty \in Nat BY <1>9, <1>t, <2>1 DEF Resting, Execute
  <2>b. book' \in [Ids -> Resting] BY <1>9, <1>b, <2>2 DEF Execute
  <2>3. [id |-> id, qty |-> qty] \in Report BY <2>1 DEF Report
  <2>4. reports' \in Seq(Report)
    <3>1. reports' = reports \/ reports' = Append(reports, [id |-> id, qty |-> qty]) BY <1>9, Zenon DEF Execute
    <3>2. reports \in Seq(Report) BY <1>t
    <3>3. Append(reports, [id |-> id, qty |-> qty]) \in Seq(Report) BY <2>3, <3>2
    <3> QED BY <3>1, <3>2, <3>3, Zenon
  <2> QED BY <1>9, <2>b, <2>4 DEF Execute, Types
<1>10. CASE on_execution_report
  <2>1. reports # <<>> /\ reports' = Tail(reports)
    BY <1>10, Zenon DEF on_execution_report
  <2>2. Head(reports) \in Report /\ reports' \in Seq(Report)
    BY <1>t, <1>h, <2>1
  <2> DEFINE id == Head(reports).id
             t == tracker[id]
  <2>3. id \in Ids /\ Head(reports).qty \in Int /\ t \in Tracking
    BY <1>t, <2>2 DEF Report
  <2>4. \/ tracker' = tracker
        \/ tracker' = [tracker EXCEPT ![id] = [t EXCEPT !.remaining = 0, !.active = FALSE]]
        \/ tracker' = [tracker EXCEPT ![id] = [t EXCEPT !.remaining = @ - Head(reports).qty]]
    BY <1>10 DEF on_execution_report
  <2>5. tracker' \in [Ids -> Tracking]
    <3> HIDE DEF t, id
    <3>1. [t EXCEPT !.remaining = 0, !.active = FALSE] \in Tracking
      <4> DEFINE u == [t EXCEPT !.remaining = 0]
      <4>1. u \in Tracking BY <2>3 DEF Tracking
      <4>2. [t EXCEPT !.remaining = 0, !.active = FALSE] = [u EXCEPT !.active = FALSE]
        OBVIOUS
      <4> HIDE DEF u
      <4>3. FALSE \in BOOLEAN OBVIOUS
      <4>4. [u EXCEPT !.active = FALSE] \in Tracking BY <4>1, <4>3, Zenon DEF Tracking
      <4> QED BY <4>2, <4>4
    <3>2. [t EXCEPT !.remaining = @ - Head(reports).qty] \in Tracking
      BY <2>3 DEF Tracking
    <3> QED BY <1>t, <2>3, <2>4, <3>1, <3>2, Zenon
  <2>6. rpc' \in {"idle", "close"}
    BY <1>10 DEF on_execution_report, Types
  <2> QED BY <1>10, <2>2, <2>5, <2>6 DEF on_execution_report, Types
<1>11. CASE CloseInFlight
  BY <1>11 DEF CloseInFlight, Types
<1>12. CASE UNCHANGED orders_vars
  BY <1>12 DEF orders_vars, Types
<1> QED
  BY <1>1, <1>2, <1>3, <1>4, <1>5, <1>6, <1>7, <1>8, <1>9, <1>10, <1>11, <1>12 DEF OrdersNext

-----------------------------------------------------------------------------
(***************************************************************************)
(* The numbers of local_order_counter stay in order all the way: on the    *)
(* wire, then in the batch, in the queue and in the strategy's actions     *)
(* they increase, below the counter, and what rests at the exchange comes  *)
(* before all of them.                                                     *)
(***************************************************************************)
W == IdSet(wire)
B == IdSet(batch)
Q == IdSet(queue)
A == IdSet(actions)

LineInv ==
    /\ Increasing(wire) /\ Increasing(batch) /\ Increasing(queue) /\ Increasing(actions)
    /\ Below(W, B) /\ Below(W, Q) /\ Below(W, A) /\ Below(B, Q) /\ Below(B, A) /\ Below(Q, A)
    /\ Below(W \cup B \cup Q \cup A, {counter})
    /\ tcp_mode = 2 => batch = <<>>

RestInv ==
    \A id \in Ids : book[id].qty > 0 => id < counter /\ Below({id}, W \cup B \cup Q \cup A)

LEMMA EmptyIds == IdSet(<<>>) = {} /\ Increasing(<<>>) /\ <<>> \in Seq(Action)
  BY DEF IdSet, Increasing

LEMMA LineInit == OrdersInit => Types /\ LineInv /\ RestInv
<1> SUFFICES ASSUME OrdersInit PROVE Types /\ LineInv /\ RestInv
  OBVIOUS
<1>0. MaxIds \in Nat \ {0}
  BY Numbers
<1>1. W = {} /\ B = {} /\ Q = {} /\ A = {}
  BY EmptyIds DEF OrdersInit, W, B, Q, A
<1>2. LineInv
  BY <1>1, EmptyIds DEF OrdersInit, LineInv, Below
<1>3. RestInv
  BY DEF OrdersInit, RestInv
<1>4. "B" \in OrderSides /\ FALSE \in BOOLEAN /\ 0 \in Int
  BY DEF OrderSides
<1>5. [side |-> "B", remaining |-> 0, active |-> FALSE] \in Tracking
  BY <1>4, Zenon DEF Tracking
<1>6. [side |-> "B", qty |-> 0] \in Resting
  BY <1>4 DEF Resting
<1>7. <<>> \in Seq(Report)
  OBVIOUS
<1>8. Types
  BY <1>0, <1>5, <1>6, <1>7, EmptyIds DEF OrdersInit, Types
<1> QED
  BY <1>2, <1>3, <1>8

LEMMA LineStep == Types /\ LineInv /\ RestInv /\ [OrdersNext]_orders_vars => LineInv' /\ RestInv'
<1> SUFFICES ASSUME Types, LineInv, RestInv, [OrdersNext]_orders_vars PROVE LineInv' /\ RestInv'
  OBVIOUS
<1>t. /\ actions \in Seq(Action) /\ queue \in Seq(Action) /\ batch \in Seq(Action) /\ wire \in Seq(Action)
      /\ counter \in Int /\ MaxIds \in Nat
      /\ Ids \subseteq Int
  BY Numbers DEF Types, Ids
<1>s. W \subseteq Int /\ B \subseteq Int /\ Q \subseteq Int /\ A \subseteq Int
  BY <1>t, IdsAreInts DEF W, B, Q, A
<1>i. Increasing(wire) /\ Increasing(batch) /\ Increasing(queue) /\ Increasing(actions)
  BY DEF LineInv
<1> USE DEF md, rx, tx, exchange
<1>1. ASSUME NEW bid \in BidPrices, NEW ask \in AskPrices, MakerTick(bid, ask) PROVE LineInv' /\ RestInv'
  <2>1. Increasing(actions') /\ A' \subseteq counter .. counter' - 1 /\ counter' \in counter .. MaxIds + 1
    BY <1>1, TickTypes DEF A
  <2>2. W' = W /\ B' = B /\ Q' = Q /\ UNCHANGED <<wire, batch, queue, tcp_mode, book>>
    BY <1>1 DEF MakerTick, W, B, Q
  <2>c. counter' \in Int /\ counter <= counter'
    BY <1>t, <2>1
  <2>a. ASSUME NEW x \in A' PROVE x \in Int /\ counter <= x /\ x < counter'
    <3>1. ASSUME NEW m \in Int, NEW n \in Int, NEW y \in m .. n - 1 PROVE y \in Int /\ m <= y /\ y < n
      OBVIOUS
    <3>2. x \in counter .. counter' - 1 /\ counter \in Int /\ counter' \in Int BY <1>t, <2>c, <2>1, Zenon
    <3> QED BY <3>1, <3>2, Zenon
  <2>r. counter' \in Int /\ counter <= counter' /\ \A x \in A' : x \in Int /\ counter <= x /\ x < counter'
    BY <2>c, <2>a
  <2>x. ASSUME NEW X, X \subseteq Int, Below(X, {counter}) PROVE Below(X, A') /\ Below(X, {counter'})
    BY <1>t, <2>x, <2>r DEF Below
  <2>3. LineInv'
    <3>1. Below(W, {counter}) /\ Below(B, {counter}) /\ Below(Q, {counter})
      BY DEF LineInv, Below
    <3>2. /\ Below(W, A') /\ Below(W, {counter'}) /\ Below(B, A') /\ Below(B, {counter'})
          /\ Below(Q, A') /\ Below(Q, {counter'})
      BY <1>s, <3>1, <2>x, Zenon
    <3>3. Below(W \cup B \cup Q \cup A', {counter'})
      BY <3>2, <2>r DEF Below
    <3> QED BY <2>1, <2>2, <3>2, <3>3 DEF LineInv
  <2>4. RestInv'
    <3> SUFFICES ASSUME NEW id \in Ids, book[id].qty > 0
                 PROVE  id < counter' /\ Below({id}, W \cup B \cup Q \cup A')
      BY <2>2, Zenon DEF RestInv
    <3>1. id \in Int /\ id < counter /\ Below({id}, W \cup B \cup Q)
      BY <1>t DEF RestInv, Below
    <3>2. Below({id}, A') /\ Below({id}, {counter'})
      BY <3>1, <2>x, Zenon DEF Below
    <3> QED BY <3>1, <3>2 DEF Below
  <2> QED BY <2>3, <2>4
<1>2. ASSUME NEW side \in OrderSides, TakerTick(side) PROVE LineInv' /\ RestInv'
  <2>1. actions' = <<New(counter, side)>> /\ New(counter, side).id = counter /\ counter' = counter + 1
    BY <1>2 DEF TakerTick, New
  <2>2. Increasing(actions') /\ A' = {counter}
    BY <2>1 DEF Increasing, A, IdSet
  <2>3. W' = W /\ B' = B /\ Q' = Q /\ UNCHANGED <<wire, batch, queue, tcp_mode, book>>
    BY <1>2 DEF TakerTick, W, B, Q
  <2>4. LineInv'
    BY <1>t, <1>s, <2>1, <2>2, <2>3 DEF LineInv, Below
  <2>5. RestInv'
    BY <1>t, <1>s, <2>1, <2>2, <2>3 DEF RestInv, Below
  <2> QED BY <2>4, <2>5
<1>3. CASE CheckRisk
  <2>1. /\ actions # <<>> /\ (actions' = actions \/ actions' = Tail(actions))
        /\ UNCHANGED <<wire, batch, queue, tcp_mode, book, counter>>
    BY <1>3, Zenon DEF CheckRisk, Passed, Blocked
  <2>2. W' = W /\ B' = B /\ Q' = Q
    BY <2>1 DEF W, B, Q
  <2>3. Increasing(actions') /\ A' \subseteq A
    BY <1>t, <1>i, <2>1, TailIds, Zenon DEF A
  <2> QED BY <2>1, <2>2, <2>3 DEF LineInv, RestInv, Below
<1>4. CASE send_order
  <2>1. /\ actions # <<>> /\ queue' = Append(queue, Head(actions)) /\ actions' = Tail(actions)
        /\ UNCHANGED <<wire, batch, tcp_mode, book, counter>>
    BY <1>4 DEF send_order, Types
  <2>2. W' = W /\ B' = B
    BY <2>1 DEF W, B
  <2> DEFINE h == Head(actions).id
  <2>3. Increasing(actions') /\ Head(actions) \in Action /\ A = A' \cup {h} /\ Below({h}, A')
    BY <1>t, <1>i, <2>1, TailIds, Zenon DEF A
  <2>4. Below(Q, {h})
    BY <2>3, ZenonT(30) DEF LineInv, Below
  <2>5. Increasing(queue') /\ Q' = Q \cup {h}
    BY <1>t, <1>i, <2>1, <2>3, <2>4, AppendIds DEF Q
  <2> HIDE DEF h
  <2>6. LineInv'
    BY <2>1, <2>2, <2>3, <2>5 DEF LineInv, Below
  <2>7. RestInv'
    BY <2>1, <2>2, <2>3, <2>5 DEF RestInv, Below
  <2> QED BY <2>6, <2>7
<1>5. CASE Transmit
  <2>1. /\ queue # <<>> /\ wire' = Append(wire, Head(queue)) /\ queue' = Tail(queue) /\ batch = <<>>
        /\ UNCHANGED <<actions, batch, tcp_mode, book, counter>>
    BY <1>5 DEF Transmit, LineInv
  <2>2. A' = A /\ B' = B /\ B = {}
    BY <2>1, EmptyIds DEF A, B
  <2> DEFINE h == Head(queue).id
  <2>3. Increasing(queue') /\ Head(queue) \in Action /\ Q = Q' \cup {h} /\ Below({h}, Q')
    BY <1>t, <1>i, <2>1, TailIds, Zenon DEF Q
  <2>4. Below(W, {h})
    BY <2>3 DEF LineInv, Below
  <2>5. Increasing(wire') /\ W' = W \cup {h}
    BY <1>t, <1>i, <2>1, <2>3, <2>4, AppendIds, Zenon DEF W
  <2> HIDE DEF h
  <2>6. LineInv'
    BY <2>1, <2>2, <2>3, <2>5, ZenonT(30) DEF LineInv, Below
  <2>7. RestInv'
    BY <2>1, <2>2, <2>3, <2>5 DEF RestInv, Below
  <2> QED BY <2>6, <2>7
<1>6. CASE Gather
  <2>1. /\ queue # <<>> /\ queue' = Tail(queue) /\ tcp_mode = 3
        /\ batch' = batch \/ batch' = Append(batch, Head(queue))
        /\ UNCHANGED <<actions, wire, tcp_mode, book, counter>>
    BY <1>6 DEF Gather
  <2>2. A' = A /\ W' = W
    BY <2>1 DEF A, W
  <2> DEFINE h == Head(queue).id
  <2>3. Increasing(queue') /\ Head(queue) \in Action /\ Q = Q' \cup {h} /\ Below({h}, Q')
    BY <1>t, <1>i, <2>1, TailIds, Zenon DEF Q
  <2>4. Below(B, {h})
    BY <2>3 DEF LineInv, Below
  <2>5. Increasing(batch') /\ B' \subseteq B \cup {h}
    BY <1>t, <1>i, <2>1, <2>3, <2>4, AppendIds, Zenon DEF B
  <2> HIDE DEF h
  <2>6. LineInv'
    BY <2>1, <2>2, <2>3, <2>5 DEF LineInv, Below
  <2>7. RestInv'
    BY <2>1, <2>2, <2>3, <2>5 DEF RestInv, Below
  <2> QED BY <2>6, <2>7
<1>7. CASE SendBatch
  <2>1. /\ wire' = wire \o batch /\ batch' = <<>>
        /\ UNCHANGED <<actions, queue, tcp_mode, book, counter>>
    BY <1>7 DEF SendBatch
  <2>2. A' = A /\ Q' = Q /\ B' = {} /\ Increasing(batch')
    BY <2>1, EmptyIds, ZenonT(30) DEF A, Q, B
  <2>3. Increasing(wire') /\ W' = W \cup B
    BY <1>t, <1>i, <2>1, ConcatIds DEF LineInv, W, B
  <2>4. LineInv'
    BY <2>1, <2>2, <2>3, ZenonT(30) DEF LineInv, Below
  <2>5. RestInv'
    BY <2>1, <2>2, <2>3 DEF RestInv, Below
  <2> QED BY <2>4, <2>5
<1>8. CASE Accept \/ Refuse \/ CancelByToken
  <2>1. /\ wire # <<>> /\ wire' = Tail(wire)
        /\ UNCHANGED <<actions, queue, batch, tcp_mode, counter>>
    BY <1>8, Zenon DEF Accept, Refuse, CancelByToken
  <2> DEFINE h == Head(wire).id
  <2>2. A' = A /\ Q' = Q /\ B' = B
    BY <2>1 DEF A, Q, B
  <2>3. Increasing(wire') /\ Head(wire) \in Action /\ W = W' \cup {h} /\ Below({h}, W')
    BY <1>t, <1>i, <2>1, TailIds, Zenon DEF W
  <2>4. h \in Ids
    BY <2>3 DEF Action
  <2>5. \A id \in Ids : id # h => book'[id].qty = book[id].qty
    BY <1>8, <2>4 DEF Accept, Refuse, CancelByToken, Types
  <2>6. h < counter /\ Below({h}, W' \cup B \cup Q \cup A)
    BY <2>3, ZenonT(30) DEF LineInv, Below
  <2> HIDE DEF h
  <2>7. LineInv'
    BY <2>1, <2>2, <2>3 DEF LineInv, Below
  <2>8. RestInv'
    BY <2>1, <2>2, <2>3, <2>5, <2>6 DEF RestInv, Below
  <2> QED BY <2>7, <2>8
<1>9. ASSUME NEW id \in Ids, NEW qty \in 1 .. QUOTE_SIZE, Execute(id, qty) PROVE LineInv' /\ RestInv'
  <2>1. UNCHANGED <<actions, queue, batch, wire, tcp_mode, counter>>
    BY <1>9 DEF Execute
  <2>2. A' = A /\ Q' = Q /\ B' = B /\ W' = W
    BY <2>1 DEF A, Q, B, W
  <2>3. qty \in Nat \ {0} /\ book[id].qty \in Nat
    BY Numbers DEF Types, Resting
  <2>4. \A x \in Ids : book'[x].qty > 0 => book[x].qty > 0
    BY <1>9, <2>3 DEF Execute, Types, Resting
  <2>5. LineInv'
    BY <2>1, <2>2 DEF LineInv
  <2>6. RestInv'
    BY <2>1, <2>2, <2>4, Zenon DEF RestInv
  <2> QED BY <2>5, <2>6
<1>10. CASE \/ TickDone \/ Track \/ CountInFlight \/ GatherEnd \/ on_execution_report \/ CloseInFlight
            \/ UNCHANGED orders_vars
  <2>1. UNCHANGED <<actions, queue, batch, wire, tcp_mode, counter, book>>
    BY <1>10, ZenonT(30) DEF TickDone, Track, CountInFlight, GatherEnd, on_execution_report, CloseInFlight, orders_vars
  <2> QED BY <2>1, Zenon DEF LineInv, RestInv, W, B, Q, A
<1> QED
  BY <1>1, <1>2, <1>3, <1>4, <1>5, <1>6, <1>7, <1>8, <1>9, <1>10 DEF OrdersNext

LEMMA LineInvariant == OrdersSpec => [](Types /\ LineInv /\ RestInv)
  BY LineInit, TypesStep, LineStep, PTL DEF OrdersSpec

-----------------------------------------------------------------------------
(***************************************************************************)
(* in_flight_.  The order about to be tracked is not active yet, because   *)
(* its number comes after those of all active ones: only then is one more  *)
(* active order worth one increment.                                       *)
(***************************************************************************)
Active == {id \in Ids : tracker[id].active}

\* The ids of the actions the engine has not reached.
Ahead == IF mpc \in {"count", "send"} THEN IdSet(Tail(actions)) ELSE A

ActiveInv == \A id \in Active : id < counter /\ Below({id}, Ahead)

LEMMA ActiveFinite == ASSUME MaxIds \in Nat PROVE IsFiniteSet(Active) /\ Cardinality(Active) \in Int
<1>1. IsFiniteSet(Ids)
  BY FS_Interval DEF Ids
<1>2. IsFiniteSet(Active)
  BY <1>1, FS_Subset DEF Active
<1> QED
  BY <1>2, FS_CardinalityType

\* What a step does to the set of active orders.
LEMMA TrackEffect ==
  ASSUME Types, LineInv, ActiveInv, Track
  PROVE  LET h == Head(actions).id
         IN  h \in Ids /\ h \notin Active /\ Active' = Active \cup {h} /\ h < counter
<1> DEFINE h == Head(actions).id
<1>1. actions \in Seq(Action) /\ actions # <<>> /\ mpc = "track" /\ tracker \in [Ids -> Tracking]
  BY DEF Track, Types
<1>2. Head(actions) \in Action /\ h \in A
  BY <1>1, TailIds, Zenon DEF LineInv, A
<1>3. h \in Ids /\ h \in Int
  BY <1>2, Numbers DEF Action, Ids
<1>4. Ahead = A
  BY <1>1 DEF Ahead
<1>5. h \notin Active
  BY <1>2, <1>3, <1>4 DEF ActiveInv, Below
<1>6. h < counter
  BY <1>2, ZenonT(30) DEF LineInv, Below
<1>7. /\ tracker'[h].active
      /\ \A id \in Ids : id # h => tracker'[id] = tracker[id]
  BY <1>1, <1>3 DEF Track
<1> HIDE DEF h
<1>8. Active' = Active \cup {h}
  BY <1>3, <1>7, Zenon DEF Active
<1> QED
  BY <1>3, <1>5, <1>6, <1>8, ZenonT(30) DEF h

LEMMA ReportEffect ==
  ASSUME Types, on_execution_report
  PROVE  /\ rpc = "idle"
         /\ \/ Active' = Active /\ rpc' = "idle"
            \/ rpc' = "close" /\ \E id \in Active : Active' = Active \ {id}
<1> DEFINE id == Head(reports).id
           qty == Head(reports).qty
           t == tracker[id]
<1>1. reports \in Seq(Report) /\ reports # <<>> /\ tracker \in [Ids -> Tracking] /\ rpc = "idle"
  BY DEF on_execution_report, Types
<1>2. Head(reports) \in Report
  BY <1>1
<1>3. id \in Ids /\ t \in Tracking
  BY <1>1, <1>2 DEF Report
<1>4. CASE ~(Tracked(id) /\ t.active)
  <2>1. tracker' = tracker /\ rpc' = rpc BY <1>4 DEF on_execution_report
  <2> QED BY <1>1, <2>1 DEF Active
<1>5. CASE Tracked(id) /\ t.active /\ Closes(t, qty)
  <2>1. tracker' = [tracker EXCEPT ![id] = [t EXCEPT !.remaining = 0, !.active = FALSE]] /\ rpc' = "close"
    BY <1>5 DEF on_execution_report
  <2>2. ~tracker'[id].active /\ \A x \in Ids : x # id => tracker'[x] = tracker[x]
    BY <1>1, <1>3, <2>1 DEF Tracking
  <2>3. id \in Active BY <1>3, <1>5 DEF Active
  <2> HIDE DEF id
  <2>4. Active' = Active \ {id} BY <2>2, Zenon DEF Active
  <2> QED BY <1>1, <2>1, <2>3, <2>4
<1>6. CASE Tracked(id) /\ t.active /\ ~Closes(t, qty)
  <2>1. tracker' = [tracker EXCEPT ![id] = [t EXCEPT !.remaining = @ - qty]] /\ rpc' = "idle"
    BY <1>6 DEF on_execution_report
  <2>2. tracker'[id].active = tracker[id].active /\ \A x \in Ids : x # id => tracker'[x] = tracker[x]
    BY <1>1, <1>3, <2>1 DEF Tracking
  <2> HIDE DEF id
  <2>3. Active' = Active BY <2>2, Zenon DEF Active
  <2> QED BY <1>1, <2>1, <2>3
<1> QED
  BY <1>4, <1>5, <1>6, ZenonT(30)

CountInv == Types /\ LineInv /\ ActiveInv /\ InFlightExact

LEMMA CountInit == OrdersInit => ActiveInv /\ InFlightExact
<1> SUFFICES ASSUME OrdersInit PROVE ActiveInv /\ InFlightExact
  OBVIOUS
<1>1. Active = {}
  BY Zenon DEF OrdersInit, Active
<1>2. in_flight = 0 /\ mpc = "idle" /\ rpc = "idle"
  BY DEF OrdersInit
<1>3. Cardinality(Active) = 0
  BY <1>1, FS_EmptySet
<1> QED
  BY <1>1, <1>2, <1>3 DEF ActiveInv, InFlightExact, Active

LEMMA CountStep == CountInv /\ [OrdersNext]_orders_vars => ActiveInv' /\ InFlightExact'
<1> SUFFICES ASSUME Types, LineInv, ActiveInv, InFlightExact, [OrdersNext]_orders_vars
             PROVE  ActiveInv' /\ InFlightExact'
  BY ZenonT(30) DEF CountInv
<1> DEFINE c == Cardinality(Active)
           up == IF mpc = "count" THEN 1 ELSE 0
           down == IF rpc = "close" THEN 1 ELSE 0
<1>t. /\ counter \in Int /\ MaxIds \in Nat /\ actions \in Seq(Action) /\ in_flight \in Int
      /\ Active \subseteq Int /\ Increasing(actions) /\ IsFiniteSet(Active) /\ c \in Int
  BY Numbers, ActiveFinite DEF Types, LineInv, Active, Ids
<1>e. in_flight = c - up + down
  BY DEF InFlightExact, Active
<1>i. ASSUME in_flight' = c' - up' + down' PROVE InFlightExact'
  BY <1>i DEF InFlightExact, Active
<1> HIDE DEF c, up, down
<1>k. ASSUME Active' = Active PROVE c' = c
  BY <1>k DEF c
<1> USE DEF md, rx, tx, exchange
<1>1. CASE (\E bid \in BidPrices, ask \in AskPrices : MakerTick(bid, ask)) \/ (\E side \in OrderSides : TakerTick(side))
  <2>1. counter <= counter' /\ counter' \in Int /\ \A x \in A' : counter <= x /\ x \in Int
    <3>1. ASSUME NEW bid, NEW ask, MakerTick(bid, ask)
          PROVE  A' \subseteq counter .. counter' - 1 /\ counter' \in counter .. MaxIds + 1
      BY <3>1, TickTypes DEF A
    <3>2. ASSUME NEW side, TakerTick(side) PROVE A' = {counter} /\ counter' = counter + 1
      BY <3>2 DEF TakerTick, New, A, IdSet
    <3>3. ASSUME NEW m \in Int, NEW n, NEW k \in Int, n \in m .. k, NEW X, X \subseteq m .. n - 1
          PROVE  m <= n /\ n \in Int /\ \A x \in X : m <= x /\ x \in Int
      BY <3>3
    <3>4. ASSUME NEW bid, NEW ask, MakerTick(bid, ask)
          PROVE  counter <= counter' /\ counter' \in Int /\ \A x \in A' : counter <= x /\ x \in Int
      BY <1>t, <3>1, <3>3, <3>4
    <3> QED BY <1>1, <1>t, <3>2, <3>4
  <2>2. mpc = "idle" /\ mpc' = "risk" /\ UNCHANGED <<tracker, in_flight, rpc>>
    BY <1>1, Zenon DEF MakerTick, TakerTick
  <2>3. Active' = Active /\ Ahead' = A'
    BY <2>2 DEF Active, Ahead
  <2>4. ActiveInv'
    BY <1>t, <2>1, <2>3 DEF ActiveInv, Below
  <2> QED BY <1>e, <1>i, <1>k, <2>2, <2>3, <2>4 DEF up, down
<1>2. CASE CheckRisk
  <2>1. /\ mpc = "risk" /\ mpc' \in {"risk", "track", "send"} /\ actions # <<>>
        /\ actions' = actions \/ (actions' = Tail(actions) /\ mpc' = "risk")
        /\ UNCHANGED <<tracker, in_flight, rpc, counter>>
    BY <1>2 DEF CheckRisk, Passed, Blocked
  <2>2. IdSet(Tail(actions)) \subseteq A
    BY <1>t, <2>1, TailIds, Zenon DEF A
  <2>3. Ahead = A /\ Ahead' \subseteq A /\ Active' = Active
    BY <2>1, <2>2, Zenon DEF Ahead, A, Active
  <2>4. ActiveInv'
    BY <2>1, <2>3 DEF ActiveInv, Below
  <2> QED BY <1>e, <1>i, <1>k, <2>1, <2>3, <2>4, ZenonT(30) DEF up, down
<1>3. CASE TickDone \/ CountInFlight \/ send_order
  <2>1. Ahead' = Ahead /\ UNCHANGED <<tracker, rpc, counter>>
    BY <1>3, Zenon DEF TickDone, CountInFlight, send_order, Ahead, A
  <2>2. Active' = Active
    BY <2>1 DEF Active
  <2>3. ActiveInv'
    BY <2>1, <2>2 DEF ActiveInv
  <2>4. c' = c /\ down' = down
    BY <1>k, <2>1, <2>2, ZenonT(30) DEF down
  <2>5. /\ TickDone \/ send_order => mpc # "count" /\ mpc' # "count" /\ in_flight' = in_flight
        /\ CountInFlight => mpc = "count" /\ mpc' = "send" /\ in_flight' = in_flight + 1
    BY DEF TickDone, CountInFlight, send_order
  <2>6. in_flight' = c' - up' + down'
    BY <1>3, <1>e, <1>t, <2>4, <2>5 DEF up, down
  <2> QED BY <1>i, <2>3, <2>6
<1>4. CASE Track
  <2> DEFINE h == Head(actions).id
  <2>1. h \in Ids /\ h \notin Active /\ Active' = Active \cup {h} /\ h < counter
    BY <1>4, TrackEffect
  <2>2. mpc = "track" /\ mpc' = "count" /\ actions # <<>> /\ UNCHANGED <<actions, in_flight, rpc, counter>>
    BY <1>4, ZenonT(30) DEF Track, Types
  <2>3. IdSet(Tail(actions)) \subseteq A /\ Below({h}, IdSet(Tail(actions)))
    BY <1>t, <2>2, TailIds DEF A
  <2>4. Ahead = A /\ Ahead' = IdSet(Tail(actions))
    BY <2>2 DEF Ahead
  <2>5. c' = c + 1
    BY <1>t, <2>1, FS_AddElement, Zenon DEF c
  <2> HIDE DEF h
  <2>6. ActiveInv'
    BY <2>1, <2>2, <2>3, <2>4 DEF ActiveInv, Below
  <2> QED BY <1>e, <1>i, <1>t, <2>2, <2>5, <2>6 DEF up, down
<1>5. CASE on_execution_report
  <2>1. /\ rpc = "idle" /\ UNCHANGED <<mpc, actions, in_flight, counter>>
        /\ \/ Active' = Active /\ rpc' = "idle"
           \/ rpc' = "close" /\ \E id \in Active : Active' = Active \ {id}
    BY <1>5, ReportEffect, Zenon DEF on_execution_report
  <2>2. Ahead' = Ahead /\ Active' \subseteq Active
    BY <2>1 DEF Ahead, A
  <2>3. ActiveInv'
    BY <2>1, <2>2 DEF ActiveInv
  <2>4. CASE Active' = Active /\ rpc' = "idle"
    BY <1>e, <1>i, <1>k, <2>1, <2>3, <2>4, ZenonT(30) DEF up, down
  <2>5. CASE rpc' = "close" /\ \E id \in Active : Active' = Active \ {id}
    <3>1. c' = c - 1
      BY <1>t, <2>5, FS_RemoveElement, Zenon DEF c
    <3> QED BY <1>e, <1>i, <1>t, <2>1, <2>3, <2>5, <3>1 DEF up, down
  <2> QED BY <2>1, <2>4, <2>5
<1>6. CASE CloseInFlight
  <2>1. rpc = "close" /\ rpc' = "idle" /\ in_flight' = in_flight - 1 /\ UNCHANGED <<mpc, actions, tracker, counter>>
    BY <1>6 DEF CloseInFlight
  <2>2. Active' = Active /\ Ahead' = Ahead
    BY <2>1 DEF Active, Ahead, A
  <2>3. ActiveInv'
    BY <2>1, <2>2 DEF ActiveInv
  <2> QED BY <1>e, <1>i, <1>k, <1>t, <2>1, <2>2, <2>3 DEF up, down
<1>7. CASE \/ Transmit \/ Gather \/ GatherEnd \/ SendBatch \/ Accept \/ Refuse \/ CancelByToken
           \/ UNCHANGED orders_vars
           \/ \E id \in Ids, qty \in 1 .. QUOTE_SIZE : Execute(id, qty)
  <2>1. UNCHANGED <<mpc, actions, tracker, in_flight, rpc, counter>>
    BY <1>7, Zenon DEF Transmit, Gather, GatherEnd, SendBatch, Accept, Refuse, CancelByToken, Execute, orders_vars
  <2>2. Active' = Active /\ Ahead' = Ahead
    BY <2>1 DEF Active, Ahead, A
  <2>3. ActiveInv'
    BY <2>1, <2>2 DEF ActiveInv
  <2> QED BY <1>e, <1>i, <1>k, <2>1, <2>2, <2>3 DEF up, down
<1> QED
  BY <1>1, <1>2, <1>3, <1>4, <1>5, <1>6, <1>7, Zenon DEF OrdersNext

(***************************************************************************)
(* in_flight_ counts the active orders exactly, up to the increment and    *)
(* the decrement under way, for every number of orders and any schedule of *)
(* the strategy and the receive thread.                                    *)
(***************************************************************************)
THEOREM InFlightCounts == OrdersSpec => []InFlightExact
<1>1. OrdersInit => CountInv
  BY LineInit, CountInit DEF CountInv
<1>2. CountInv /\ RestInv /\ [OrdersNext]_orders_vars => CountInv'
  BY TypesStep, LineStep, CountStep DEF CountInv
<1>3. CountInv => InFlightExact
  BY DEF CountInv
<1> QED
  BY <1>1, <1>2, <1>3, LineInvariant, PTL DEF OrdersSpec

-----------------------------------------------------------------------------
(* Sums.                                                                   *)

\* Induction, from the order of the naturals being well-founded.
LEMMA Induct ==
    ASSUME NEW S, 0 \in S, \A n \in Nat : n \in S => n + 1 \in S
    PROVE  \A n \in Nat : n \in S
<1> DEFINE R == OpToRel(<, Nat)
           T == Nat \ S
<1>1. \A y, x \in Nat : <<y, x>> \in R <=> y < x
  BY DEF OpToRel
<1>2. IsWellFoundedOn(R, Nat)
  BY NatLessThanWellFounded, Zenon
<1> HIDE DEF R
<1>3. SUFFICES ASSUME T # {} PROVE FALSE
  BY Zenon
<1>4. PICK x \in T : \A y \in T : ~ (<<y, x>> \in R)
  <2>1. T \subseteq Nat
    OBVIOUS
  <2> HIDE DEF T
  <2> QED
    BY <1>2, <1>3, <2>1, WFMin, Zenon
<1>5. x \in Nat /\ x # 0 /\ x - 1 \in Nat /\ x - 1 + 1 = x
  BY <1>4
<1>6. <<x - 1, x>> \in R
  BY <1>1, <1>5
<1>7. x - 1 \notin T
  BY <1>4, <1>6, Zenon
<1> QED
  BY <1>4, <1>5, <1>7

\* u holds the partial sums of f.
Sums(f, N, u) == /\ u \in [0 .. N -> Int] /\ u[0] = 0
                 /\ \A n \in Nat : n < N => u[n] \in Int /\ u[n + 1] = u[n] + f[n + 1]

LEMMA SumIs ==
    ASSUME NEW f \in Seq(Int), NEW N \in Nat, Len(f) = N
    PROVE  \E u : Sums(f, N, u) /\ Sum(f) = u[N]
<1> DEFINE Is(n, u) == u = [m \in 0 .. n |-> IF m = 0 THEN 0 ELSE u[m - 1] + f[m]]
           S == {n \in Nat : n <= N => \E u \in [0 .. n -> Int] : Is(n, u)}
<1>1. N \in Nat /\ \A m \in 1 .. N : f[m] \in Int
  OBVIOUS
<1>2. 0 \in S
  <2>1. [m \in 0 .. 0 |-> 0] \in [0 .. 0 -> Int] /\ Is(0, [m \in 0 .. 0 |-> 0])
    OBVIOUS
  <2> QED
    BY <2>1, Zenon
<1>3. ASSUME NEW n \in Nat, n \in S PROVE n + 1 \in S
  <2>0. n + 1 \in Nat
    OBVIOUS
  <2> SUFFICES ASSUME n + 1 <= N PROVE \E u \in [0 .. n + 1 -> Int] : Is(n + 1, u)
    BY <2>0, Zenon
  <2>1. PICK u \in [0 .. n -> Int] : Is(n, u)
    <3>1. n <= N
      BY <1>1
    <3> QED
      BY <1>3, <3>1, Zenon
  <2> DEFINE v == [m \in 0 .. n + 1 |-> IF m <= n THEN u[m] ELSE u[n] + f[n + 1]]
  <2>2. v \in [0 .. n + 1 -> Int]
    BY <1>1, <2>1
  <2>3. \A m \in 0 .. n + 1 : v[m] = IF m = 0 THEN 0 ELSE v[m - 1] + f[m]
    <3>1. \A m \in 0 .. n : u[m] = IF m = 0 THEN 0 ELSE u[m - 1] + f[m]
      BY <2>1, ZenonT(30)
    <3> QED
      BY <3>1
  <2> HIDE DEF v
  <2> QED
    BY <2>2, <2>3, Zenon
<1>4. N \in S
  <2> HIDE DEF S
  <2> QED
    BY <1>1, <1>2, <1>3, Induct, Zenon
<1>5. PICK u \in [0 .. N -> Int] : Is(N, u)
  BY <1>1, <1>4
<1> DEFINE w == CHOOSE w : Is(N, w)
<1>6. Is(N, w) /\ Sum(f) = w[N]
  BY <1>5, Zenon DEF Sum
<1>7. \A m \in 0 .. N : w[m] = IF m = 0 THEN 0 ELSE w[m - 1] + f[m]
  BY <1>6, Zenon
<1>8. DOMAIN w = 0 .. N /\ w = [m \in 0 .. N |-> w[m]]
  BY <1>6, Zenon
<1> HIDE DEF w, Is
<1> DEFINE P == {n \in Nat : n <= N => w[n] \in Int}
<1>9. 0 \in P
  BY <1>1, <1>7
<1>10. ASSUME NEW n \in Nat, n \in P PROVE n + 1 \in P
  <2> SUFFICES ASSUME n + 1 <= N PROVE w[n + 1] \in Int
    OBVIOUS
  <2>1. n + 1 \in 0 .. N /\ n + 1 # 0 /\ n + 1 - 1 = n /\ w[n] \in Int /\ f[n + 1] \in Int
    BY <1>1, <1>10
  <2>2. w[n + 1] = w[n] + f[n + 1]
    BY <1>7, <2>1
  <2> QED
    BY <2>1, <2>2
<1>11. \A n \in Nat : n \in P
  <2> HIDE DEF P
  <2> QED
    BY <1>9, <1>10, Induct, Zenon
<1>12. w \in [0 .. N -> Int]
  BY <1>1, <1>8, <1>11
<1>13. \A n \in Nat : n < N => w[n + 1] = w[n] + f[n + 1]
  <2> SUFFICES ASSUME NEW n \in Nat, n < N PROVE w[n + 1] = w[n] + f[n + 1]
    OBVIOUS
  <2>1. n + 1 \in 0 .. N /\ n + 1 # 0 /\ n + 1 - 1 = n
    BY <1>1
  <2> QED
    BY <1>7, <2>1
<1>14. Sums(f, N, w)
  BY <1>1, <1>7, <1>12, <1>13 DEF Sums
<1> QED
  BY <1>6, <1>14

LEMMA SumEmpty == Sum(<<>>) = 0
<1>1. <<>> \in Seq(Int) /\ Len(<<>>) = 0
  OBVIOUS
<1> QED
  BY <1>1, SumIs, Zenon DEF Sums

LEMMA SumAppend ==
    ASSUME NEW f \in Seq(Int), NEW x \in Int
    PROVE  Sum(f) \in Int /\ Sum(Append(f, x)) = Sum(f) + x
<1>1. PICK N \in Nat : Len(f) = N
  OBVIOUS
<1>2. PICK g \in Seq(Int) : g = Append(f, x)
  <2>1. Append(f, x) \in Seq(Int)
    OBVIOUS
  <2> QED
    BY <2>1, Zenon
<1>3. Len(g) = N + 1 /\ N + 1 \in Nat /\ g[N + 1] = x /\ \A n \in Nat : n < N => g[n + 1] = f[n + 1]
  BY <1>1, <1>2
<1>4. PICK u : Sums(f, N, u) /\ Sum(f) = u[N]
  BY <1>1, SumIs
<1>5. PICK v : Sums(g, N + 1, v) /\ Sum(g) = v[N + 1]
  BY <1>3, SumIs, Zenon
<1> DEFINE S == {n \in Nat : n <= N => v[n] = u[n]}
<1>6. 0 \in S
  BY <1>4, <1>5 DEF Sums
<1>7. ASSUME NEW n \in Nat, n \in S PROVE n + 1 \in S
  <2> SUFFICES ASSUME n + 1 <= N PROVE v[n + 1] = u[n + 1]
    OBVIOUS
  <2>1. n < N /\ n < N + 1 /\ v[n] = u[n] /\ g[n + 1] = f[n + 1]
    BY <1>3, <1>7
  <2>2. v[n + 1] = v[n] + g[n + 1] /\ u[n + 1] = u[n] + f[n + 1]
    BY <1>4, <1>5, <2>1, Zenon DEF Sums
  <2> QED
    BY <2>1, <2>2
<1>8. N \in S
  <2> HIDE DEF S
  <2> QED
    BY <1>6, <1>7, Induct, Zenon
<1>9. v[N + 1] = v[N] + g[N + 1] /\ u[N] \in Int
  <2>1. N < N + 1 /\ N \in 0 .. N
    OBVIOUS
  <2> QED
    BY <1>4, <1>5, <2>1, Zenon DEF Sums
<1>10. v[N] = u[N]
  BY <1>8
<1> QED
  BY <1>2, <1>3, <1>4, <1>5, <1>9, <1>10, Zenon

LEMMA SumTail ==
    ASSUME NEW f \in Seq(Int), f # <<>>
    PROVE  Sum(Tail(f)) = Sum(f) - Head(f)
<1>1. PICK g \in Seq(Int) : g = Tail(f)
  <2>1. Tail(f) \in Seq(Int)
    OBVIOUS
  <2> QED
    BY <2>1, Zenon
<1>2. PICK N \in Nat : Len(g) = N
  OBVIOUS
<1>3. PICK x \in Int : x = Head(f)
  OBVIOUS
<1>4. Len(f) = N + 1 /\ N + 1 \in Nat /\ f[1] = x
      /\ \A n \in Nat : n < N => g[n + 1] = f[n + 1 + 1] /\ g[n + 1] \in Int
  BY <1>1, <1>2, <1>3
<1>5. PICK u : Sums(f, N + 1, u) /\ Sum(f) = u[N + 1]
  BY <1>4, SumIs, Zenon
<1>6. PICK v : Sums(g, N, v) /\ Sum(g) = v[N]
  BY <1>2, SumIs, Zenon
<1> DEFINE S == {n \in Nat : n <= N => v[n] = u[n + 1] - x}
<1>7. 0 \in S
  <2>1. 0 \in Nat /\ 0 < N + 1
    OBVIOUS
  <2>2. v[0] = 0 /\ u[0] = 0 /\ u[0 + 1] = u[0] + f[0 + 1]
    BY <1>5, <1>6, <2>1, Zenon DEF Sums
  <2> QED
    BY <1>4, <2>2
<1>8. ASSUME NEW n \in Nat, n \in S PROVE n + 1 \in S
  <2> SUFFICES ASSUME n + 1 <= N PROVE v[n + 1] = u[n + 1 + 1] - x
    OBVIOUS
  <2>1. n < N /\ n + 1 < N + 1 /\ n + 1 \in Nat /\ v[n] = u[n + 1] - x
    BY <1>8
  <2>2. v[n + 1] = v[n] + g[n + 1]
    BY <1>6, <2>1, Zenon DEF Sums
  <2>3. u[n + 1 + 1] = u[n + 1] + f[n + 1 + 1] /\ u[n + 1] \in Int
    BY <1>5, <2>1, Zenon DEF Sums
  <2>4. g[n + 1] = f[n + 1 + 1] /\ g[n + 1] \in Int
    BY <1>4, <2>1
  <2> QED
    BY <2>1, <2>2, <2>3, <2>4
<1>9. N \in S
  <2> HIDE DEF S
  <2> QED
    BY <1>7, <1>8, Induct, Zenon
<1>10. v[N] = u[N + 1] - x
  BY <1>9
<1> QED
  BY <1>1, <1>3, <1>5, <1>6, <1>10, Zenon

LEMMA SumNat ==
    ASSUME NEW f \in Seq(Nat)
    PROVE  Sum(f) \in Nat /\ ((\A i \in DOMAIN f : f[i] = 0) => Sum(f) = 0)
<1>1. PICK N \in Nat : Len(f) = N
  OBVIOUS
<1>2. f \in Seq(Int) /\ DOMAIN f = 1 .. N /\ \A n \in Nat : n < N => f[n + 1] \in Nat
  BY <1>1
<1>3. PICK u : Sums(f, N, u) /\ Sum(f) = u[N]
  BY <1>1, <1>2, SumIs, Zenon
<1> DEFINE S == {n \in Nat : n <= N => u[n] \in Nat /\ ((\A i \in 1 .. N : f[i] = 0) => u[n] = 0)}
<1>4. 0 \in S
  BY <1>3 DEF Sums
<1>5. ASSUME NEW n \in Nat, n \in S PROVE n + 1 \in S
  <2> SUFFICES ASSUME n + 1 <= N
               PROVE  u[n + 1] \in Nat /\ ((\A i \in 1 .. N : f[i] = 0) => u[n + 1] = 0)
    OBVIOUS
  <2>1. n < N /\ u[n] \in Nat /\ ((\A i \in 1 .. N : f[i] = 0) => u[n] = 0) /\ n + 1 \in 1 .. N
    BY <1>5
  <2>2. u[n + 1] = u[n] + f[n + 1] /\ f[n + 1] \in Nat
    BY <1>2, <1>3, <2>1, Zenon DEF Sums
  <2> QED
    BY <2>1, <2>2
<1>6. N \in S
  <2> HIDE DEF S
  <2> QED
    BY <1>4, <1>5, Induct, Zenon
<1>7. u[N] \in Nat /\ ((\A i \in 1 .. N : f[i] = 0) => u[N] = 0)
  BY <1>6
<1> QED
  BY <1>2, <1>3, <1>7, Zenon

-----------------------------------------------------------------------------
(* The sums over the reports on their way, rs.                             *)

SharesOf(rs, id) == [i \in DOMAIN rs |-> IF rs[i].id = id THEN rs[i].qty ELSE 0]

Effect(r, bk) == IF Tracked(r.id) THEN Signed(bk[r.id].side, r.qty) ELSE 0
NetOf(rs, bk) == [i \in DOMAIN rs |-> Effect(rs[i], bk)]

Fills == [id : Ids, qty : 1 .. QUOTE_SIZE]
Books == [Ids -> [side : OrderSides, qty : 0 .. QUOTE_SIZE]]

LEMMA SharesType ==
    ASSUME NEW rs \in Seq(Fills), NEW id
    PROVE  /\ SharesOf(rs, id) \in Seq(Nat) /\ SharesOf(rs, id) \in Seq(Int)
           /\ Len(SharesOf(rs, id)) = Len(rs)
<1>1. DOMAIN rs = 1 .. Len(rs) /\ Len(rs) \in Nat /\ \A i \in 1 .. Len(rs) : rs[i] \in Fills
  OBVIOUS
<1>2. \A r \in Fills : r.qty \in Nat
  BY Numbers DEF Fills
<1>3. SharesOf(rs, id) \in [1 .. Len(rs) -> Nat]
  BY <1>1, <1>2 DEF SharesOf
<1> HIDE DEF SharesOf
<1>4. SharesOf(rs, id) \in Seq(Nat) /\ Len(SharesOf(rs, id)) = Len(rs)
  BY <1>1, <1>3
<1> QED
  BY <1>4

LEMMA SharesAppend ==
    ASSUME NEW rs \in Seq(Fills), NEW r \in Fills, NEW id
    PROVE  /\ Sum(SharesOf(rs, id)) \in Nat
           /\ Sum(SharesOf(Append(rs, r), id)) = Sum(SharesOf(rs, id)) + (IF r.id = id THEN r.qty ELSE 0)
<1> DEFINE f == SharesOf(rs, id)
           x == IF r.id = id THEN r.qty ELSE 0
<1>1. f \in Seq(Nat) /\ f \in Seq(Int) /\ x \in Int
  <2>1. x \in Int
    BY Numbers DEF Fills
  <2> QED
    BY <2>1, SharesType
<1>2. SharesOf(Append(rs, r), id) = Append(f, x)
  <2>1. Append(rs, r) \in Seq(Fills) /\ Len(Append(rs, r)) = Len(rs) + 1 /\ Len(rs) \in Nat
        /\ Append(rs, r)[Len(rs) + 1] = r /\ \A i \in 1 .. Len(rs) : Append(rs, r)[i] = rs[i]
    OBVIOUS
  <2> QED
    BY <1>1, <2>1 DEF SharesOf
<1> HIDE DEF f, x
<1>3. Sum(Append(f, x)) = Sum(f) + x
  BY <1>1, SumAppend, Zenon
<1>4. Sum(f) \in Nat
  BY <1>1, SumNat, Zenon
<1> QED
  BY <1>2, <1>3, <1>4, Zenon DEF f, x

LEMMA SharesTail ==
    ASSUME NEW rs \in Seq(Fills), rs # <<>>, NEW id
    PROVE  /\ Sum(SharesOf(rs, id)) \in Nat /\ Sum(SharesOf(Tail(rs), id)) \in Nat
           /\ Sum(SharesOf(Tail(rs), id)) =
                Sum(SharesOf(rs, id)) - (IF Head(rs).id = id THEN Head(rs).qty ELSE 0)
<1> DEFINE f == SharesOf(rs, id)
<1>1. f \in Seq(Nat) /\ f \in Seq(Int) /\ f # <<>>
  <2>1. Len(f) = Len(rs) /\ Len(rs) # 0
    BY SharesType
  <2> QED
    BY <2>1, SharesType
<1>2. Head(f) = IF Head(rs).id = id THEN Head(rs).qty ELSE 0
  BY DEF SharesOf
<1>3. SharesOf(Tail(rs), id) = Tail(f)
  <2>1. Tail(rs) \in Seq(Fills) /\ Len(Tail(rs)) = Len(rs) - 1 /\ Len(rs) \in Nat \ {0}
        /\ \A i \in 1 .. Len(rs) - 1 : Tail(rs)[i] = rs[i + 1]
    OBVIOUS
  <2> QED
    BY <1>1, <2>1 DEF SharesOf
<1> HIDE DEF f
<1>4. Sum(Tail(f)) = Sum(f) - Head(f)
  BY <1>1, SumTail, Zenon
<1>5. Tail(f) \in Seq(Nat)
  BY <1>1
<1>6. Sum(f) \in Nat /\ Sum(Tail(f)) \in Nat
  BY <1>1, <1>5, SumNat, Zenon
<1> QED
  BY <1>2, <1>3, <1>4, <1>6, Zenon DEF f
\* An order without reports on their way.
LEMMA SharesNone ==
    ASSUME NEW rs \in Seq(Fills), NEW id, \A i \in DOMAIN rs : rs[i].id # id
    PROVE  Sum(SharesOf(rs, id)) = 0
<1>1. \A i \in DOMAIN SharesOf(rs, id) : SharesOf(rs, id)[i] = 0
  BY DEF SharesOf
<1> QED
  BY <1>1, SharesType, SumNat, Zenon

LEMMA EffectType ==
    ASSUME NEW r \in Fills, NEW bk \in Books
    PROVE  Effect(r, bk) \in Int
<1>1. r.qty \in Int
  BY Numbers DEF Fills
<1> QED
  BY <1>1 DEF Effect, Signed

LEMMA NetType ==
    ASSUME NEW rs \in Seq(Fills), NEW bk \in Books
    PROVE  NetOf(rs, bk) \in Seq(Int) /\ Len(NetOf(rs, bk)) = Len(rs)
<1>1. DOMAIN rs = 1 .. Len(rs) /\ Len(rs) \in Nat /\ \A i \in 1 .. Len(rs) : rs[i] \in Fills
  OBVIOUS
<1>2. \A r \in Fills : Effect(r, bk) \in Int
  BY EffectType
<1>3. NetOf(rs, bk) \in [1 .. Len(rs) -> Int]
  BY <1>1, <1>2 DEF NetOf
<1> HIDE DEF NetOf
<1> QED
  BY <1>1, <1>3

LEMMA NetAppend ==
    ASSUME NEW rs \in Seq(Fills), NEW r \in Fills, NEW bk \in Books
    PROVE  /\ Sum(NetOf(rs, bk)) \in Int
           /\ Sum(NetOf(Append(rs, r), bk)) =
                Sum(NetOf(rs, bk)) + Effect(r, bk)
<1> DEFINE f == NetOf(rs, bk)
           x == Effect(r, bk)
<1>1. x \in Int
  BY EffectType
<1>2. f \in Seq(Int)
  BY NetType, ZenonT(30)
<1>3. NetOf(Append(rs, r), bk) = Append(f, x)
  <2>1. Append(rs, r) \in Seq(Fills) /\ Len(Append(rs, r)) = Len(rs) + 1 /\ Len(rs) \in Nat
        /\ Append(rs, r)[Len(rs) + 1] = r /\ \A i \in 1 .. Len(rs) : Append(rs, r)[i] = rs[i]
    OBVIOUS
  <2> QED
    BY <1>1, <1>2, <2>1 DEF NetOf
<1> HIDE DEF f, x
<1>4. Sum(f) \in Int /\ Sum(Append(f, x)) = Sum(f) + x
  BY <1>1, <1>2, SumAppend, Zenon
<1> QED
  BY <1>3, <1>4, Zenon DEF f, x

LEMMA NetTail ==
    ASSUME NEW rs \in Seq(Fills), rs # <<>>, NEW bk \in Books
    PROVE  Sum(NetOf(Tail(rs), bk)) =
             Sum(NetOf(rs, bk)) - Effect(Head(rs), bk)
<1> DEFINE f == NetOf(rs, bk)
<1>1. f \in Seq(Int) /\ f # <<>>
  <2>1. Len(f) = Len(rs) /\ Len(rs) # 0
    BY NetType
  <2> QED
    BY <2>1, NetType
<1>2. Head(f) = Effect(Head(rs), bk)
  BY DEF NetOf
<1>3. NetOf(Tail(rs), bk) = Tail(f)
  <2>1. Tail(rs) \in Seq(Fills) /\ Len(Tail(rs)) = Len(rs) - 1 /\ Len(rs) \in Nat \ {0}
        /\ \A i \in 1 .. Len(rs) - 1 : Tail(rs)[i] = rs[i + 1]
    OBVIOUS
  <2> QED
    BY <1>1, <2>1 DEF NetOf
<1> HIDE DEF f
<1>4. Sum(Tail(f)) = Sum(f) - Head(f)
  BY <1>1, SumTail, Zenon
<1> QED
  BY <1>2, <1>3, <1>4, Zenon DEF f

LEMMA NetSame ==
    ASSUME NEW rs \in Seq(Fills), NEW bk, NEW new,
           \A i \in DOMAIN rs : new[rs[i].id].side = bk[rs[i].id].side
    PROVE  NetOf(rs, new) = NetOf(rs, bk)
  BY DEF NetOf, Effect

-----------------------------------------------------------------------------
(* Where an action can be on its way to the exchange.                      *)

Members(s) == {s[i] : i \in DOMAIN s}
Out == Members(wire) \cup Members(batch) \cup Members(queue)
All == Out \cup Members(actions)

LEMMA MemberTypes ==
    ASSUME NEW s \in Seq(Action)
    PROVE  Members(s) \subseteq Action
  BY DEF Members

LEMMA MemberAppend ==
    ASSUME NEW s \in Seq(Action), NEW a \in Action
    PROVE  Members(Append(s, a)) = Members(s) \cup {a}
<1>1. /\ DOMAIN s = 1 .. Len(s) /\ DOMAIN Append(s, a) = 1 .. Len(s) + 1 /\ Len(s) \in Nat
      /\ Append(s, a)[Len(s) + 1] = a /\ \A i \in 1 .. Len(s) : Append(s, a)[i] = s[i]
  OBVIOUS
<1> QED
  BY <1>1 DEF Members

LEMMA MemberConcat ==
    ASSUME NEW s \in Seq(Action), NEW t \in Seq(Action)
    PROVE  Members(s \o t) = Members(s) \cup Members(t)
<1> DEFINE u == s \o t
<1>1. /\ DOMAIN s = 1 .. Len(s) /\ DOMAIN t = 1 .. Len(t) /\ Len(s) \in Nat /\ Len(t) \in Nat
      /\ DOMAIN u = 1 .. Len(s) + Len(t)
      /\ \A i \in 1 .. Len(s) + Len(t) : u[i] = IF i <= Len(s) THEN s[i] ELSE t[i - Len(s)]
  OBVIOUS
<1>2. \A i \in 1 .. Len(t) : t[i] = u[Len(s) + i]
  BY <1>1
<1> HIDE DEF u
<1>3. ASSUME NEW i \in DOMAIN u PROVE u[i] \in Members(s) \cup Members(t)
  <2>1. CASE i <= Len(s)
    BY <1>1, <2>1 DEF Members
  <2>2. CASE ~(i <= Len(s))
    <3>1. i - Len(s) \in DOMAIN t /\ u[i] = t[i - Len(s)]
      BY <1>1, <2>2
    <3> QED
      BY <3>1 DEF Members
  <2> QED
    BY <2>1, <2>2
<1>4. Members(s) \subseteq Members(u)
  BY <1>1 DEF Members
<1>5. Members(t) \subseteq Members(u)
  BY <1>1, <1>2 DEF Members
<1>6. Members(u) \subseteq Members(s) \cup Members(t)
  BY <1>3 DEF Members
<1> QED
  BY <1>4, <1>5, <1>6 DEF u

LEMMA MemberTail ==
    ASSUME NEW s \in Seq(Action), s # <<>>
    PROVE  /\ Tail(s) \in Seq(Action) /\ Head(s) \in Action /\ Head(s) \in Members(s)
           /\ Members(Tail(s)) \subseteq Members(s)
<1>1. /\ Tail(s) \in Seq(Action) /\ DOMAIN s = 1 .. Len(s) /\ DOMAIN Tail(s) = 1 .. Len(s) - 1
      /\ Len(s) \in Nat \ {0} /\ Head(s) = s[1] /\ \A i \in 1 .. Len(s) - 1 : Tail(s)[i] = s[i + 1]
  OBVIOUS
<1>2. s[1] \in Action
  BY <1>1
<1> QED
  BY <1>1, <1>2 DEF Members

\* The ids LineInv and RestInv speak of.
LEMMA MemberIds ==
    ASSUME Types
    PROVE  All \subseteq Action /\ \A a \in All : a.id \in W \cup B \cup Q \cup A /\ a.id \in Int
<1>1. actions \in Seq(Action) /\ queue \in Seq(Action) /\ batch \in Seq(Action) /\ wire \in Seq(Action)
  BY DEF Types
<1>2. All \subseteq Action
  BY <1>1, MemberTypes, Zenon DEF All, Out
<1>3. \A a \in All : a.id \in W \cup B \cup Q \cup A
  BY DEF All, Out, Members, W, B, Q, A, IdSet
<1>4. W \cup B \cup Q \cup A \subseteq Int
  BY <1>1, IdsAreInts DEF W, B, Q, A
<1> QED
  BY <1>2, <1>3, <1>4, Zenon

(***************************************************************************)
(* An action is in the strategy's vector, in the queue, in the batch and   *)
(* on the wire, in that order.                                             *)
(***************************************************************************)
LEMMA Moves ==
    ASSUME Types, [OrdersNext]_orders_vars
    PROVE  /\ counter <= counter'
           /\ \A a \in All' : a \in All \/ counter <= a.id
           /\ \A a \in Out' : a \in Out \/ (mpc = "send" /\ a = Head(actions))
<1>t. /\ actions \in Seq(Action) /\ queue \in Seq(Action) /\ batch \in Seq(Action) /\ wire \in Seq(Action)
      /\ counter \in Int
  BY Numbers DEF Types
<1> USE DEF md, rx, tx, exchange
<1>1. ASSUME NEW bid \in BidPrices, NEW ask \in AskPrices, MakerTick(bid, ask)
      PROVE  counter <= counter' /\ Out' = Out /\ \A a \in Members(actions)' : counter <= a.id
  <2>1. /\ actions' \in Seq(Action) /\ IdSet(actions') \subseteq counter .. counter' - 1
        /\ counter' \in counter .. MaxIds + 1
    BY <1>1, TickTypes
  <2>2. counter' \in Int /\ counter <= counter'
    BY <1>t, <2>1
  <2>3. Out' = Out
    BY <1>1 DEF MakerTick, Out
  <2>4. \A a \in Members(actions)' : a.id \in counter .. counter' - 1
    BY <2>1 DEF Members, IdSet
  <2>5. \A x \in counter .. counter' - 1 : counter <= x
    BY <1>t, <2>2
  <2> QED
    BY <2>2, <2>3, <2>4, <2>5, Zenon
<1>2. ASSUME NEW side \in OrderSides, TakerTick(side)
      PROVE  counter <= counter' /\ Out' = Out /\ \A a \in Members(actions)' : counter <= a.id
  <2>1. actions' = <<New(counter, side)>> /\ New(counter, side).id = counter /\ counter' = counter + 1
    BY <1>2 DEF TakerTick, New
  <2>2. Out' = Out
    BY <1>2 DEF TakerTick, Out
  <2> QED
    BY <1>t, <2>1, <2>2 DEF Members
<1>3. CASE CheckRisk
  <2>1. /\ actions # <<>> /\ (actions' = actions \/ actions' = Tail(actions))
        /\ UNCHANGED <<wire, batch, queue, counter>>
    BY <1>3, Zenon DEF CheckRisk, Passed, Blocked
  <2>2. Out' = Out
    BY <2>1 DEF Out
  <2>3. Members(actions)' \subseteq Members(actions)
    BY <1>t, <2>1, MemberTail, Zenon
  <2> QED
    BY <1>t, <2>1, <2>2, <2>3 DEF All
<1>4. CASE send_order
  <2>1. /\ mpc = "send" /\ actions # <<>> /\ queue' = Append(queue, Head(actions)) /\ actions' = Tail(actions)
        /\ UNCHANGED <<wire, batch, counter>>
    BY <1>4 DEF send_order, Types
  <2>2. /\ Head(actions) \in Action /\ Head(actions) \in Members(actions)
        /\ Members(actions') \subseteq Members(actions)
    BY <1>t, <2>1, MemberTail, Zenon
  <2>3. Members(queue') = Members(queue) \cup {Head(actions)}
    BY <1>t, <2>1, <2>2, MemberAppend, ZenonT(30)
  <2> QED
    BY <1>t, <2>1, <2>2, <2>3 DEF All, Out
<1>5. CASE Transmit
  <2>1. /\ queue # <<>> /\ wire' = Append(wire, Head(queue)) /\ queue' = Tail(queue)
        /\ UNCHANGED <<batch, actions, counter>>
    BY <1>5 DEF Transmit
  <2>2. /\ Head(queue) \in Action /\ Head(queue) \in Members(queue)
        /\ Members(queue') \subseteq Members(queue)
    BY <1>t, <2>1, MemberTail, Zenon
  <2>3. Members(wire') = Members(wire) \cup {Head(queue)}
    BY <1>t, <2>1, <2>2, MemberAppend, Zenon
  <2> QED
    BY <1>t, <2>1, <2>2, <2>3 DEF All, Out
<1>6. CASE Gather
  <2>1. /\ queue # <<>> /\ (batch' = batch \/ batch' = Append(batch, Head(queue))) /\ queue' = Tail(queue)
        /\ UNCHANGED <<wire, actions, counter>>
    BY <1>6 DEF Gather
  <2>2. /\ Head(queue) \in Action /\ Head(queue) \in Members(queue)
        /\ Members(queue') \subseteq Members(queue)
    BY <1>t, <2>1, MemberTail, Zenon
  <2>3. Members(batch') \subseteq Members(batch) \cup {Head(queue)}
    <3>1. Members(Append(batch, Head(queue))) = Members(batch) \cup {Head(queue)}
      BY <1>t, <2>2, MemberAppend, Zenon
    <3> QED
      BY <2>1, <3>1, Zenon
  <2> QED
    BY <1>t, <2>1, <2>2, <2>3 DEF All, Out
<1>7. CASE SendBatch
  <2>1. wire' = wire \o batch /\ batch' = <<>> /\ UNCHANGED <<queue, actions, counter>>
    BY <1>7 DEF SendBatch
  <2>2. Members(batch') = {}
    BY <2>1 DEF Members
  <2>3. Members(wire') = Members(wire) \cup Members(batch)
    BY <1>t, <2>1, MemberConcat, Zenon
  <2> QED
    BY <1>t, <2>1, <2>2, <2>3 DEF All, Out
<1>8. CASE Accept \/ Refuse \/ CancelByToken
  <2>1. wire # <<>> /\ wire' = Tail(wire) /\ UNCHANGED <<batch, queue, actions, counter>>
    BY <1>8 DEF Accept, Refuse, CancelByToken
  <2>2. Members(wire') \subseteq Members(wire)
    BY <1>t, <2>1, MemberTail, Zenon
  <2> QED
    BY <1>t, <2>1, <2>2 DEF All, Out
<1>9. CASE UNCHANGED <<wire, batch, queue, actions, counter>>
  BY <1>t, <1>9 DEF All, Out
<1>10. TickDone \/ Track \/ CountInFlight \/ GatherEnd \/ on_execution_report \/ CloseInFlight \/ UNCHANGED orders_vars
          => UNCHANGED <<wire, batch, queue, actions, counter>>
  BY ZenonT(30) DEF TickDone, Track, CountInFlight, GatherEnd, on_execution_report, CloseInFlight, orders_vars
<1>11. ASSUME NEW id \in Ids, NEW qty \in 1 .. QUOTE_SIZE, Execute(id, qty)
       PROVE  UNCHANGED <<wire, batch, queue, actions, counter>>
  BY <1>11 DEF Execute
<1>12. ASSUME counter <= counter' /\ Out' = Out /\ \A a \in Members(actions)' : counter <= a.id
       PROVE  /\ \A a \in All' : a \in All \/ counter <= a.id
              /\ \A a \in Out' : a \in Out
  BY <1>12, Zenon DEF All
<1> QED
  BY <1>1, <1>2, <1>3, <1>4, <1>5, <1>6, <1>7, <1>8, <1>9, <1>10, <1>11, <1>12, ZenonT(30) DEF OrdersNext

-----------------------------------------------------------------------------
(* The rest of OrdersTypeOK; in_flight is left for the end.                *)

Trackings == [side : OrderSides, remaining : 0 .. QUOTE_SIZE, active : BOOLEAN]

Detail ==
    /\ strategy \in {"maker", "taker"} /\ tcp_mode \in {2, 3} /\ sending \in BOOLEAN
    /\ quote \in [OrderSides -> BidPrices \cup AskPrices \cup {0}]
    /\ msg_count \in Nat /\ num_acked \in Nat /\ position \in Int /\ net \in Int /\ lost_net \in Int
    /\ Len(batch) <= BatchSize /\ Len(queue) <= QueueCap
    /\ tracker \in [Ids -> Trackings] /\ reports \in Seq(Fills) /\ book \in Books

LEMMA DetailInit == OrdersInit => Detail
<1>1. {QueueCap, BatchSize} \subseteq Nat /\ 0 \in 0 .. QUOTE_SIZE
  BY FirmAssumption, Numbers
<1>2. OrdersInit => sending \in BOOLEAN
  BY Zenon DEF OrdersInit
<1> QED
  BY <1>1, <1>2 DEF OrdersInit, Detail, OrderSides, Trackings, Books, Fills

\* A report that is applied.
LEMMA Applied ==
    ASSUME Detail, on_execution_report, NEW r, r = Head(reports), NEW t, t = tracker[r.id]
    PROVE  /\ reports # <<>> /\ reports' = Tail(reports) /\ r \in Fills /\ t \in Trackings
           /\ reports' \in Seq(Fills)
           /\ Tracked(r.id) /\ t.active /\ r.qty <= t.remaining =>
                 /\ position' = position + Signed(t.side, r.qty)
                 /\ \E u \in Trackings :
                       /\ tracker' = [tracker EXCEPT ![r.id] = u]
                       /\ u.side = t.side /\ u.remaining = t.remaining - r.qty
                       /\ u.remaining > 0 => u.active
           /\ Tracked(r.id) /\ t.active => num_acked' = num_acked + 1
           /\ ~(Tracked(r.id) /\ t.active) => UNCHANGED <<tracker, position, num_acked>>
<1>1. reports # <<>> /\ reports' = Tail(reports) /\ reports \in Seq(Fills)
  BY Zenon DEF on_execution_report, Detail
<1>2. r \in Fills /\ reports' \in Seq(Fills)
  BY <1>1
<1>3. PICK id \in Ids, q \in 1 .. QUOTE_SIZE : id = r.id /\ q = r.qty
  BY <1>2 DEF Fills
<1>4. t \in Trackings
  BY <1>3, ZenonT(30) DEF Detail
<1>5. q \in Nat \ {0} /\ QUOTE_SIZE \in Nat /\ t.remaining \in Nat /\ t.remaining <= QUOTE_SIZE
  BY <1>3, <1>4, Numbers DEF Trackings
<1> DEFINE v == [t EXCEPT !.remaining = 0]
           w == [t EXCEPT !.remaining = @ - q]
           c == [v EXCEPT !.active = FALSE]
<1>6. ASSUME q <= t.remaining, Closes(t, q)
      PROVE  c \in Trackings /\ c.side = t.side /\ c.remaining = t.remaining - q /\ c.remaining = 0
  <2>1. v \in Trackings /\ v.side = t.side /\ v.remaining = 0
    BY <1>4, <1>5 DEF Trackings
  <2>2. FALSE \in BOOLEAN
    OBVIOUS
  <2> HIDE DEF v
  <2>3. c \in Trackings
    BY <2>1, <2>2, Zenon DEF Trackings
  <2>4. c.side = v.side /\ c.remaining = v.remaining
    BY <2>1, ZenonT(30) DEF Trackings
  <2>5. t.remaining - q = 0
    BY <1>5, <1>6 DEF Closes
  <2> QED
    BY <2>1, <2>3, <2>4, <2>5, Zenon
<1>7. ASSUME q <= t.remaining, t.active, ~Closes(t, q)
      PROVE  w \in Trackings /\ w.side = t.side /\ w.remaining = t.remaining - q /\ w.active
  <2>1. t.remaining - q \in 0 .. QUOTE_SIZE
    BY <1>5, <1>7
  <2>2. w.side = t.side /\ w.remaining = t.remaining - q /\ w.active = t.active
    BY <1>4 DEF Trackings
  <2>3. w \in Trackings
    BY <1>4, <2>1 DEF Trackings
  <2> QED
    BY <1>7, <2>2, <2>3, Zenon
<1>8. ASSUME Tracked(id), t.active
      PROVE  /\ num_acked' = num_acked + 1 /\ position' = position + Signed(t.side, q)
             /\ tracker' = [tracker EXCEPT ![id] = IF Closes(t, q) THEN c ELSE w]
  BY <1>3, <1>8, Zenon DEF on_execution_report, on_fill
<1>9. ASSUME ~(Tracked(id) /\ t.active) PROVE UNCHANGED <<tracker, position, num_acked>>
  BY <1>3, <1>9, Zenon DEF on_execution_report
<1>10. ~(0 > 0)
  OBVIOUS
<1> HIDE DEF v, w, c
<1>11. ASSUME Tracked(id), t.active, q <= t.remaining
       PROVE  \E u \in Trackings :
                 /\ tracker' = [tracker EXCEPT ![id] = u]
                 /\ u.side = t.side /\ u.remaining = t.remaining - q /\ (u.remaining > 0 => u.active)
  <2>1. CASE Closes(t, q)
    <3>1. tracker' = [tracker EXCEPT ![id] = c]
      BY <1>8, <1>11, <2>1, Zenon
    <3>2. c.remaining > 0 => c.active
      BY <1>6, <1>10, <1>11, <2>1, Zenon
    <3> QED
      BY <1>6, <1>11, <2>1, <3>1, <3>2, Zenon
  <2>2. CASE ~Closes(t, q)
    <3>1. tracker' = [tracker EXCEPT ![id] = w]
      BY <1>8, <1>11, <2>2, Zenon
    <3> QED
      BY <1>7, <1>11, <2>2, <3>1, Zenon
  <2> QED
    BY <2>1, <2>2
<1> QED
  BY <1>1, <1>2, <1>3, <1>4, <1>8, <1>9, <1>11, Zenon

(***************************************************************************)
(* What the exchange still owes the firm for an order, executed and        *)
(* reported or still open, is there to be taken off its slot.              *)
(***************************************************************************)
OwedInv ==
    \A id \in Ids : Tracked(id) /\ Pending(id) + book[id].qty > 0 =>
        /\ tracker[id].active /\ tracker[id].remaining >= Pending(id) + book[id].qty
        /\ tracker[id].side = book[id].side

LEMMA PendingIs == \A id : Pending(id) = Sum(SharesOf(reports, id))
  BY Zenon DEF Pending, SharesOf

LEMMA PendingNetIs == PendingNet = Sum(NetOf(reports, book))
  BY Zenon DEF PendingNet, NetOf, Effect

LEMMA BookTypes ==
    ASSUME Detail, NEW id \in Ids
    PROVE  /\ book[id].side \in OrderSides /\ book[id].qty \in Nat /\ book[id].qty <= QUOTE_SIZE
           /\ tracker[id] \in Trackings /\ tracker[id].remaining \in Nat
           /\ Sum(SharesOf(reports, id)) \in Nat
<1>1. QUOTE_SIZE \in Nat
  BY Numbers
<1>2. book \in Books /\ tracker \in [Ids -> Trackings] /\ reports \in Seq(Fills)
  BY Zenon DEF Detail
<1>3. book[id].side \in OrderSides /\ book[id].qty \in Nat /\ book[id].qty <= QUOTE_SIZE
  BY <1>1, <1>2 DEF Books
<1>4. tracker[id] \in Trackings
  BY <1>2, ZenonT(30)
<1>5. tracker[id].remaining \in Nat
  BY <1>1, <1>4 DEF Trackings
<1>6. SharesOf(reports, id) \in Seq(Nat)
  BY <1>2, SharesType, Zenon
<1>7. Sum(SharesOf(reports, id)) \in Nat
  BY <1>6, SumNat, Zenon
<1> QED
  BY <1>3, <1>4, <1>5, <1>7, Zenon

\* The next report finds its order.
LEMMA ReportOwed ==
    ASSUME Detail, OwedInv, reports # <<>>, Tracked(Head(reports).id)
    PROVE  LET r == Head(reports)
               t == tracker[r.id]
           IN  t.active /\ r.qty <= t.remaining /\ t.side = book[r.id].side
<1>1. reports \in Seq(Fills)
  BY DEF Detail
<1>2. PICK r \in Fills : r = Head(reports)
  BY <1>1
<1>3. PICK id \in Ids : id = r.id
  BY DEF Fills
<1>4. PICK q \in Nat \ {0} : q = r.qty
  BY Numbers DEF Fills
<1>5. PICK p \in Nat : p = Sum(SharesOf(reports, id)) /\ p = Pending(id)
  BY BookTypes, PendingIs, Zenon
<1>6. PICK o \in Nat : o = Sum(SharesOf(Tail(reports), id))
  BY <1>1, SharesTail, Zenon
<1>7. o = p - q
  BY <1>1, <1>2, <1>3, <1>4, <1>5, <1>6, SharesTail, Zenon
<1>8. PICK b \in Nat, m \in Nat : b = book[id].qty /\ m = tracker[id].remaining
  BY BookTypes, Zenon
<1>9. p + b > 0 /\ (m >= p + b => q <= m)
  BY <1>7
<1>10. tracker[id].active /\ m >= p + b /\ tracker[id].side = book[id].side
  BY <1>2, <1>3, <1>5, <1>8, <1>9, Zenon DEF OwedInv
<1> QED
  BY <1>2, <1>3, <1>4, <1>8, <1>9, <1>10, ZenonT(30)

LEMMA DetailStep == Types /\ Detail /\ OwedInv /\ [OrdersNext]_orders_vars => Detail'
<1> SUFFICES ASSUME Types, Detail, OwedInv, [OrdersNext]_orders_vars PROVE Detail'
  OBVIOUS
<1>t. /\ actions \in Seq(Action) /\ queue \in Seq(Action) /\ batch \in Seq(Action) /\ wire \in Seq(Action)
      /\ mpc \in {"track", "count", "send"} => actions # <<>>
  BY DEF Types
<1>n. QUOTE_SIZE \in Nat \ {0} /\ QueueCap \in Nat /\ BatchSize \in Nat
  BY Numbers, FirmAssumption
<1> USE DEF md, rx, tx, exchange
<1> DEFINE same == UNCHANGED <<strategy, tcp_mode, num_acked, position, net, lost_net, batch, sending, tracker,
                              reports, book>>
<1>1. ASSUME NEW bid \in BidPrices, NEW ask \in AskPrices, MakerTick(bid, ask) PROVE Detail'
  <2>1. same /\ UNCHANGED <<msg_count, queue>> /\ quote' = [s \in OrderSides |-> IF s = "B" THEN bid ELSE ask]
    BY <1>1, Zenon DEF MakerTick
  <2>2. quote' \in [OrderSides -> BidPrices \cup AskPrices \cup {0}]
    BY <2>1
  <2> QED
    BY <2>1, <2>2, Zenon DEF Detail
<1>2. ASSUME NEW side \in OrderSides, TakerTick(side) PROVE Detail'
  BY <1>2, Zenon DEF TakerTick, Detail
<1>3. CASE CheckRisk
  <2>1. msg_count' \in Nat
    <3>1. msg_count \in Nat /\ 0 + 1 \in Nat /\ 0 \in Nat
      BY DEF Detail
    <3>2. msg_count' = msg_count \/ msg_count' = msg_count + 1 \/ msg_count' = 0 + 1
      BY <1>3, Zenon DEF CheckRisk
    <3> QED
      BY <3>1, <3>2
  <2>2. same /\ UNCHANGED <<quote, queue>>
    BY <1>3, Zenon DEF CheckRisk
  <2> QED
    BY <2>1, <2>2, Zenon DEF Detail
<1>4. CASE TickDone \/ CountInFlight \/ Refuse \/ CloseInFlight \/ UNCHANGED orders_vars
  BY <1>4, Zenon DEF TickDone, CountInFlight, Refuse, CloseInFlight, orders_vars, Detail
<1>5. CASE Track
  <2>1. PICK a \in Action : a = Head(actions)
    BY <1>t, <1>5 DEF Track
  <2>2. a.id \in Ids /\ a.side \in OrderSides /\ a.qty = QUOTE_SIZE /\ QUOTE_SIZE \in 0 .. QUOTE_SIZE
    BY <1>n DEF Action
  <2>3. [side |-> a.side, remaining |-> a.qty, active |-> TRUE] \in Trackings
    BY <2>2 DEF Trackings
  <2>4. tracker \in [Ids -> Trackings]
    BY DEF Detail
  <2>5. tracker' = [tracker EXCEPT ![a.id] = [side |-> a.side, remaining |-> a.qty, active |-> TRUE]]
    BY <1>5, <2>1, Zenon DEF Track
  <2>6. tracker' \in [Ids -> Trackings]
    BY <2>2, <2>3, <2>4, <2>5, Zenon
  <2> QED
    BY <1>5, <2>6, Zenon DEF Track, Detail
<1>6. CASE send_order
  <2>1. queue' = Append(queue, Head(actions)) /\ Len(queue) < QueueCap
    BY <1>6, Zenon DEF send_order
  <2>2. Len(queue') <= QueueCap
    BY <1>t, <1>n, <2>1
  <2> QED
    BY <1>6, <2>2, Zenon DEF send_order, Detail
<1>7. CASE Transmit \/ Gather \/ GatherEnd \/ SendBatch
  <2>1. queue' = queue \/ (queue # <<>> /\ queue' = Tail(queue))
    BY <1>7, Zenon DEF Transmit, Gather, GatherEnd, SendBatch
  <2>2. Len(queue') <= QueueCap
    BY <1>t, <1>n, <2>1 DEF Detail
  <2>3. \/ batch' = batch \/ batch' = <<>>
        \/ batch' = Append(batch, Head(queue)) /\ Len(batch) < BatchSize
    BY <1>7, Zenon DEF Transmit, Gather, GatherEnd, SendBatch
  <2>4. Len(batch') <= BatchSize
    BY <1>t, <1>n, <2>3 DEF Detail
  <2>5. sending' \in BOOLEAN
    BY <1>7, Zenon DEF Transmit, Gather, GatherEnd, SendBatch, Detail
  <2> QED
    BY <1>7, <2>2, <2>4, <2>5, Zenon DEF Transmit, Gather, GatherEnd, SendBatch, Detail
<1>8. CASE Accept
  <2>1. PICK a \in Action : a = Head(wire)
    BY <1>t, <1>8 DEF Accept
  <2>2. a.id \in Ids /\ a.side \in OrderSides /\ a.qty \in 0 .. QUOTE_SIZE
    BY <1>n DEF Action
  <2>3. book' = [book EXCEPT ![a.id] = [side |-> a.side, qty |-> a.qty]]
    BY <1>8, <2>1, Zenon DEF Accept
  <2>4. book' \in Books
    BY <2>2, <2>3, Zenon DEF Detail, Books
  <2> QED
    BY <1>8, <2>4, Zenon DEF Accept, Detail
<1>9. CASE CancelByToken
  <2>1. PICK a \in Action : a = Head(wire)
    BY <1>t, <1>9 DEF CancelByToken
  <2>2. a.id \in Ids /\ 0 \in 0 .. QUOTE_SIZE
    BY <1>n DEF Action
  <2>3. book' = [book EXCEPT ![a.id].qty = 0]
    BY <1>9, <2>1, Zenon DEF CancelByToken
  <2>4. book' \in Books
    BY <2>2, <2>3, Zenon DEF Detail, Books
  <2> QED
    BY <1>9, <2>4, Zenon DEF CancelByToken, Detail
<1>10. ASSUME NEW id \in Ids, NEW qty \in 1 .. QUOTE_SIZE, Execute(id, qty) PROVE Detail'
  <2>1. PICK b \in Nat : b = book[id].qty /\ b <= QUOTE_SIZE /\ book[id].side \in OrderSides
    BY BookTypes, Zenon
  <2>2. b - qty \in 0 .. QUOTE_SIZE
    BY <1>n, <1>10, <2>1 DEF Execute
  <2>3. /\ book' = [book EXCEPT ![id].qty = b - qty]
        /\ reports' = reports \/ reports' = Append(reports, [id |-> id, qty |-> qty])
    BY <1>10, <2>1, Zenon DEF Execute
  <2>4. book' \in Books
    BY <2>2, <2>3, Zenon DEF Detail, Books
  <2>5. reports' \in Seq(Fills)
    <3>1. [id |-> id, qty |-> qty] \in Fills
      BY DEF Fills
    <3>2. reports \in Seq(Fills)
      BY DEF Detail
    <3>3. Append(reports, [id |-> id, qty |-> qty]) \in Seq(Fills)
      BY <3>1, <3>2
    <3> QED
      BY <2>3, <3>2, <3>3, Zenon
  <2>6. net' \in Int /\ lost_net' \in Int
    <3>1. PICK e : e = IF Tracked(id) THEN Signed(book[id].side, qty) ELSE 0
      OBVIOUS
    <3>2. e \in Int
      BY <1>n, <3>1 DEF Signed
    <3>3. net' = net + e /\ (lost_net' = lost_net \/ lost_net' = lost_net + e)
      BY <1>10, <3>1, Zenon DEF Execute
    <3> QED
      BY <3>2, <3>3 DEF Detail
  <2> QED
    BY <1>10, <2>4, <2>5, <2>6, Zenon DEF Execute, Detail
<1>11. CASE on_execution_report
  <2> DEFINE r == Head(reports)
             t == tracker[r.id]
  <2>1. reports # <<>> /\ reports' \in Seq(Fills) /\ r \in Fills /\ t \in Trackings
    BY <1>11, Applied, Zenon
  <2>2. r.id \in Ids /\ r.qty \in Int /\ t.side \in OrderSides
    BY <1>n, <2>1 DEF Fills, Trackings
  <2>3. tracker \in [Ids -> Trackings] /\ num_acked \in Nat /\ position \in Int
    BY DEF Detail
  <2>4. CASE Tracked(r.id)
    <3>1. t.active /\ r.qty <= t.remaining
      BY <2>1, <2>4, ReportOwed, Zenon
    <3>2. PICK u \in Trackings :
             /\ tracker' = [tracker EXCEPT ![r.id] = u]
             /\ u.side = t.side /\ u.remaining = t.remaining - r.qty
             /\ u.remaining > 0 => u.active
      BY <1>11, <2>4, <3>1, Applied, Zenon
    <3>3. num_acked' = num_acked + 1 /\ position' = position + Signed(t.side, r.qty)
      BY <1>11, <2>4, <3>1, Applied, ZenonT(30)
    <3>4. Signed(t.side, r.qty) \in Int
      BY <2>2 DEF Signed
    <3> HIDE DEF r, t
    <3>5. tracker' \in [Ids -> Trackings]
      BY <2>2, <2>3, <3>2, Zenon
    <3>6. num_acked' \in Nat /\ position' \in Int
      BY <2>3, <3>3, <3>4
    <3> QED
      BY <1>11, <2>1, <3>5, <3>6, Zenon DEF on_execution_report, Detail
  <2>5. CASE ~Tracked(r.id)
    <3>1. UNCHANGED <<tracker, position, num_acked>>
      BY <1>11, <2>5, Applied, Zenon
    <3> QED
      BY <1>11, <2>1, <3>1, Zenon DEF on_execution_report, Detail
  <2> QED
    BY <2>4, <2>5
<1> QED
  BY <1>1, <1>2, <1>3, <1>4, <1>5, <1>6, <1>7, <1>8, <1>9, <1>10, <1>11, ZenonT(30) DEF OrdersNext

-----------------------------------------------------------------------------
(***************************************************************************)
(* Reports are of orders sent before all that is still on its way.         *)
(***************************************************************************)
Reported == {reports[i].id : i \in DOMAIN reports}

RepInv == \A x \in Reported : x < counter /\ \A a \in All : x < a.id

LEMMA ReportedStep ==
    ASSUME Types, RestInv, Detail, [OrdersNext]_orders_vars
    PROVE  /\ Reported \subseteq Ids /\ Reported \subseteq Int
           /\ \A x \in Reported' : x \in Reported
                 \/ (x \in Int /\ x < counter /\ (\A a \in All : x < a.id) /\ All' = All)
<1>t. reports \in Seq(Fills) /\ DOMAIN reports = 1 .. Len(reports) /\ Len(reports) \in Nat
  BY DEF Detail
<1>1. Reported \subseteq Ids
  <2>1. \A i \in DOMAIN reports : reports[i] \in Fills
    BY <1>t
  <2>2. \A r \in Fills : r.id \in Ids
    BY DEF Fills
  <2> QED
    BY <2>1, <2>2, Zenon DEF Reported
<1>2. Ids \subseteq Int
  BY Numbers DEF Ids
<1> USE DEF md, rx, tx, exchange
<1>3. ASSUME UNCHANGED reports PROVE Reported' = Reported
  BY <1>3 DEF Reported
<1>4. ASSUME on_execution_report PROVE \A x \in Reported' : x \in Reported
  <2>1. reports # <<>> /\ reports' = Tail(reports)
    BY <1>4, Zenon DEF on_execution_report
  <2>2. \A i \in DOMAIN reports' : reports'[i] = reports[i + 1] /\ i + 1 \in DOMAIN reports
    BY <1>t, <2>1
  <2> QED
    BY <2>2, Zenon DEF Reported
<1>5. ASSUME NEW id \in Ids, NEW qty \in 1 .. QUOTE_SIZE, Execute(id, qty),
             NEW x \in Reported', x \notin Reported
      PROVE  x \in Int /\ x < counter /\ (\A a \in All : x < a.id) /\ All' = All
  <2>1. reports' = Append(reports, [id |-> id, qty |-> qty])
    BY <1>3, <1>5, ZenonT(30) DEF Execute
  <2>2. \A i \in DOMAIN reports' : (i \in DOMAIN reports /\ reports'[i] = reports[i]) \/ reports'[i].id = id
    BY <1>t, <2>1
  <2>3. x = id
    BY <1>5, <2>2, Zenon DEF Reported
  <2>4. PICK b \in Nat : b = book[id].qty
    BY BookTypes, Zenon
  <2>5. qty \in Nat \ {0} /\ qty <= b
    BY <1>5, <2>4, Numbers DEF Execute
  <2>6. book[id].qty > 0
    BY <2>4, <2>5
  <2>7. id < counter /\ Below({id}, W \cup B \cup Q \cup A)
    BY <2>6, Zenon DEF RestInv
  <2>8. \A a \in All : id < a.id
    BY <2>7, MemberIds, Zenon DEF Below
  <2>9. All' = All
    BY <1>5 DEF Execute, All, Out
  <2> QED
    BY <1>2, <2>3, <2>7, <2>8, <2>9, Zenon
<1>6. ASSUME NEW bid, NEW ask, MakerTick(bid, ask) PROVE UNCHANGED reports
  BY <1>6, Zenon DEF MakerTick
<1>7. ASSUME NEW side, TakerTick(side) PROVE UNCHANGED reports
  BY <1>7, Zenon DEF TakerTick
<1>8. ASSUME \/ CheckRisk \/ TickDone \/ Track \/ CountInFlight \/ send_order \/ Transmit \/ Gather \/ GatherEnd
             \/ SendBatch \/ Accept \/ Refuse \/ CancelByToken \/ CloseInFlight \/ UNCHANGED orders_vars
      PROVE  UNCHANGED reports
  BY <1>8, Zenon DEF CheckRisk, TickDone, Track, CountInFlight, send_order, Transmit, Gather, GatherEnd, SendBatch,
                     Accept, Refuse, CancelByToken, CloseInFlight, orders_vars
<1>9. \/ UNCHANGED reports \/ on_execution_report
      \/ \E id \in Ids, qty \in 1 .. QUOTE_SIZE : Execute(id, qty)
  BY <1>6, <1>7, <1>8, Zenon DEF OrdersNext
<1>10. ASSUME NEW x \in Reported'
       PROVE  x \in Reported
                 \/ (x \in Int /\ x < counter /\ (\A a \in All : x < a.id) /\ All' = All)
  BY <1>3, <1>4, <1>5, <1>9, <1>10, Zenon
<1> QED
  BY <1>1, <1>2, <1>10, Zenon

LEMMA RepStep == Types /\ RestInv /\ Detail /\ RepInv /\ [OrdersNext]_orders_vars => RepInv'
<1> SUFFICES ASSUME Types, RestInv, Detail, RepInv, [OrdersNext]_orders_vars, NEW x \in Reported'
             PROVE  x < counter' /\ \A a \in All' : x < a.id
  BY Zenon DEF RepInv
<1>1. Types'
  BY TypesStep, ZenonT(30)
<1>2. counter \in Int /\ counter' \in Int
  BY <1>1, Numbers DEF Types
<1>3. \A a \in All' : a.id \in Int
  <2>1. actions' \in Seq(Action) /\ queue' \in Seq(Action) /\ batch' \in Seq(Action) /\ wire' \in Seq(Action)
    BY <1>1 DEF Types
  <2>2. All' \subseteq Action
    BY <2>1, MemberTypes, Zenon DEF All, Out
  <2> QED
    BY <2>2, Numbers DEF Action, Ids
<1>4. counter <= counter' /\ \A a \in All' : a \in All \/ counter <= a.id
  BY Moves
<1>5. x \in Int /\ x < counter /\ \A a \in All : x < a.id
  BY ReportedStep, Zenon DEF RepInv
<1> QED
  BY <1>2, <1>3, <1>4, <1>5

(***************************************************************************)
(* The engine's own bookkeeping comes first: an order that has left it and *)
(* is not accepted yet has its slot, full.                                 *)
(***************************************************************************)
Fresh(a) ==
    ~a.cancel /\ Tracked(a.id) =>
        tracker[a.id].side = a.side /\ tracker[a.id].remaining = QUOTE_SIZE /\ tracker[a.id].active

HandInv ==
    /\ mpc \in {"track", "count"} => Tracked(Head(actions).id) /\ ~Head(actions).cancel
    /\ mpc \in {"count", "send"} => Fresh(Head(actions))
    /\ \A a \in Out : Fresh(a)

\* Who writes to the tracker.
LEMMA SlotKept ==
    ASSUME Detail, [OrdersNext]_orders_vars, NEW x \in Ids
    PROVE  \/ tracker'[x] = tracker[x]
           \/ Track /\ x = Head(actions).id
           \/ on_execution_report /\ x = Head(reports).id
<1> USE DEF md, rx, tx, exchange
<1>1. ASSUME NEW bid, NEW ask, MakerTick(bid, ask) PROVE UNCHANGED tracker
  BY <1>1, Zenon DEF MakerTick
<1>2. ASSUME NEW side, TakerTick(side) PROVE UNCHANGED tracker
  BY <1>2, Zenon DEF TakerTick
<1>3. ASSUME NEW id, NEW qty, Execute(id, qty) PROVE UNCHANGED tracker
  BY <1>3, Zenon DEF Execute
<1>4. ASSUME \/ CheckRisk \/ TickDone \/ CountInFlight \/ send_order \/ Transmit \/ Gather \/ GatherEnd
             \/ SendBatch \/ Accept \/ Refuse \/ CancelByToken \/ CloseInFlight \/ UNCHANGED orders_vars
      PROVE  UNCHANGED tracker
  BY <1>4, Zenon DEF CheckRisk, TickDone, CountInFlight, send_order, Transmit, Gather, GatherEnd, SendBatch,
                     Accept, Refuse, CancelByToken, CloseInFlight, orders_vars
<1>5. UNCHANGED tracker \/ Track \/ on_execution_report
  BY <1>1, <1>2, <1>3, <1>4, Zenon DEF OrdersNext
<1>6. DOMAIN tracker = Ids
  BY ZenonT(30) DEF Detail
<1>7. ASSUME Track, x # Head(actions).id PROVE tracker'[x] = tracker[x]
  BY <1>6, <1>7, ZenonT(30) DEF Track
<1>8. ASSUME on_execution_report, x # Head(reports).id PROVE tracker'[x] = tracker[x]
  <2>1. tracker' = tracker \/ \E v : tracker' = [tracker EXCEPT ![Head(reports).id] = v]
    BY <1>8, Zenon DEF on_execution_report
  <2> QED
    BY <1>6, <1>8, <2>1
<1> QED
  BY <1>5, <1>7, <1>8, Zenon

LEMMA HandStep == Types /\ LineInv /\ Detail /\ RepInv /\ HandInv /\ [OrdersNext]_orders_vars => HandInv'
<1> SUFFICES ASSUME Types, LineInv, Detail, RepInv, HandInv, [OrdersNext]_orders_vars PROVE HandInv'
  OBVIOUS
<1>t. /\ actions \in Seq(Action) /\ mpc \in {"idle", "risk", "track", "count", "send"}
      /\ mpc \in {"track", "count", "send"} => actions # <<>>
  BY DEF Types
<1>a. All \subseteq Action /\ \A a \in All : a.id \in Ids /\ a.id \in Int
  <2>1. \A a \in Action : a.id \in Ids
    BY DEF Action
  <2> QED
    BY <2>1, MemberIds, Zenon
<1>h. mpc \in {"track", "count", "send"} => Head(actions) \in All
  BY <1>t, MemberTail, Zenon DEF All
<1>s. ASSUME on_execution_report PROVE reports # <<>> /\ Head(reports).id \in Reported
  <2>1. reports # <<>> /\ reports \in Seq(Fills)
    BY <1>s, Zenon DEF on_execution_report, Detail
  <2>2. Head(reports) = reports[1] /\ 1 \in DOMAIN reports
    BY <2>1
  <2> QED
    BY <2>1, <2>2, Zenon DEF Reported
<1>i. \A x \in Int : ~(x < x)
  OBVIOUS
<1>k. ASSUME NEW a \in All, Fresh(a), Track => a \in Out PROVE Fresh(a)'
  <2>1. tracker'[a.id] = tracker[a.id]
    <3>1. a.id \in Ids /\ a.id \in Int
      BY <1>a
    <3>2. ASSUME on_execution_report PROVE a.id # Head(reports).id
      BY <1>s, <1>i, <3>1, <3>2, Zenon DEF RepInv
    <3>3. ASSUME Track PROVE a.id # Head(actions).id
      <4>1. a.id \in W \cup B \cup Q
        BY <1>k, <3>3 DEF Out, Members, W, B, Q, IdSet
      <4>2. Head(actions).id \in A
        <5>1. actions # <<>>
          BY <1>t, <3>3 DEF Track
        <5>2. Head(actions) = actions[1] /\ 1 \in DOMAIN actions
          BY <1>t, <5>1
        <5> QED
          BY <5>2, Zenon DEF A, IdSet
      <4>3. a.id < Head(actions).id
        BY <4>1, <4>2, Zenon DEF LineInv, Below
      <4> QED
        BY <1>i, <3>1, <4>3, ZenonT(30)
    <3> QED
      BY <3>1, <3>2, <3>3, SlotKept, Zenon
  <2> QED
    BY <1>k, <2>1, Zenon DEF Fresh
<1>1. ASSUME NEW a \in Out' PROVE Fresh(a)'
  <2>1. a \in Out \/ (mpc = "send" /\ a = Head(actions))
    BY Moves, Zenon
  <2>2. a \in All /\ Fresh(a)
    BY <1>h, <2>1, ZenonT(30) DEF HandInv, All
  <2>3. Track => a \in Out
    BY <2>1 DEF Track
  <2> QED
    BY <1>k, <2>2, <2>3, Zenon
<1> USE DEF md, rx, tx, exchange
<1> DEFINE Mine == /\ mpc \in {"track", "count"} => Tracked(Head(actions).id) /\ ~Head(actions).cancel
                   /\ mpc \in {"count", "send"} => Fresh(Head(actions))
<1>2. ASSUME mpc' \in {"idle", "risk"} PROVE Mine'
  BY <1>2
<1>3. CASE CheckRisk
  <2>1. mpc' = "risk" \/ Passed(Head(actions))
    BY <1>3, ZenonT(30) DEF CheckRisk, Blocked
  <2>2. ASSUME Passed(Head(actions)) PROVE Mine'
    <3>1. /\ actions' = actions
          /\ mpc' = IF ~Head(actions).cancel /\ Tracked(Head(actions).id) THEN "track" ELSE "send"
      BY <2>2, Zenon DEF Passed
    <3>2. mpc' = "track" => ~Head(actions).cancel /\ Tracked(Head(actions).id)
      BY <3>1
    <3>3. mpc' = "send" => ~(~Head(actions).cancel /\ Tracked(Head(actions).id))
      BY <3>1
    <3>4. mpc' \in {"track", "send"}
      BY <3>1
    <3> QED
      BY <3>1, <3>2, <3>3, <3>4, ZenonT(30) DEF Fresh
  <2> QED
    BY <1>1, <1>2, <2>1, <2>2, Zenon DEF HandInv
<1>4. CASE Track
  <2>1. /\ mpc = "track" /\ mpc' = "count" /\ actions' = actions
        /\ tracker' = [tracker EXCEPT ![Head(actions).id] =
              [side |-> Head(actions).side, remaining |-> Head(actions).qty, active |-> TRUE]]
    BY <1>4, Zenon DEF Track
  <2>2. PICK a \in Action : a = Head(actions)
    BY <1>t, <2>1
  <2>3. a.id \in Ids /\ a.qty = QUOTE_SIZE /\ DOMAIN tracker = Ids
    BY DEF Action, Detail
  <2>4. tracker'[a.id] = [side |-> a.side, remaining |-> QUOTE_SIZE, active |-> TRUE]
    BY <2>1, <2>2, <2>3, ZenonT(30)
  <2>5. Fresh(a)'
    BY <2>4 DEF Fresh
  <2>6. Mine'
    BY <2>1, <2>2, <2>5, Zenon DEF HandInv
  <2> QED
    BY <1>1, <2>6, Zenon DEF HandInv
<1>5. CASE CountInFlight
  <2>1. mpc = "count" /\ mpc' = "send" /\ UNCHANGED <<actions, tracker>>
    BY <1>5, Zenon DEF CountInFlight
  <2>2. Mine'
    BY <2>1, Zenon DEF HandInv, Fresh
  <2> QED
    BY <1>1, <2>2, Zenon DEF HandInv
<1>6. ASSUME UNCHANGED <<mpc, actions>>, ~Track PROVE Mine'
  <2>1. ASSUME mpc \in {"count", "send"} PROVE Fresh(Head(actions))'
    BY <1>h, <1>k, <1>6, <2>1, Zenon DEF HandInv
  <2> QED
    BY <1>6, <2>1, Zenon DEF HandInv
<1>7. ASSUME NEW bid, NEW ask, MakerTick(bid, ask) PROVE mpc' \in {"idle", "risk"}
  BY <1>7, Zenon DEF MakerTick
<1>8. ASSUME NEW side, TakerTick(side) PROVE mpc' \in {"idle", "risk"}
  BY <1>8, Zenon DEF TakerTick
<1>9. ASSUME TickDone \/ send_order PROVE mpc' \in {"idle", "risk"}
  BY <1>9, Zenon DEF TickDone, send_order
<1>10. ASSUME NEW id, NEW qty, Execute(id, qty) PROVE UNCHANGED <<mpc, actions>>
  BY <1>10, Zenon DEF Execute
<1>11. ASSUME \/ Transmit \/ Gather \/ GatherEnd \/ SendBatch \/ Accept \/ Refuse \/ CancelByToken
              \/ on_execution_report \/ CloseInFlight \/ UNCHANGED orders_vars
       PROVE  UNCHANGED <<mpc, actions>>
  BY <1>11, Zenon DEF Transmit, Gather, GatherEnd, SendBatch, Accept, Refuse, CancelByToken,
                      on_execution_report, CloseInFlight, orders_vars
<1>12. \/ CheckRisk \/ Track \/ CountInFlight \/ UNCHANGED <<mpc, actions>> \/ mpc' \in {"idle", "risk"}
  BY <1>7, <1>8, <1>9, <1>10, <1>11, Zenon DEF OrdersNext
<1> QED
  BY <1>1, <1>2, <1>3, <1>4, <1>5, <1>6, <1>12, Zenon DEF HandInv

-----------------------------------------------------------------------------
\* Nothing has been executed of an order that is still on its way.
LEMMA NothingOwed ==
    ASSUME Types, Detail, RepInv, NEW a \in All
    PROVE  a.id \in Ids /\ Pending(a.id) = 0 /\ \A i \in DOMAIN reports : reports[i].id # a.id
<1>1. a.id \in Ids /\ a.id \in Int
  <2>1. \A b \in Action : b.id \in Ids
    BY DEF Action
  <2> QED
    BY <2>1, MemberIds, Zenon
<1>2. \A x \in Int : ~(x < x)
  OBVIOUS
<1>3. \A i \in DOMAIN reports : reports[i].id # a.id
  BY <1>1, <1>2, Zenon DEF RepInv, Reported
<1>4. Sum(SharesOf(reports, a.id)) = 0
  BY <1>3, SharesNone, ZenonT(30) DEF Detail
<1> QED
  BY <1>1, <1>3, <1>4, PendingIs, Zenon

\* What the exchange books of an order it accepts.
LEMMA AcceptBooks ==
    ASSUME Accept, book \in [Ids -> Resting], NEW a, a = Head(wire), a.id \in Ids
    PROVE  book'[a.id].side = a.side /\ book'[a.id].qty = a.qty
<1>1. book' = [book EXCEPT ![a.id] = [side |-> a.side, qty |-> a.qty]]
  BY Zenon DEF Accept
<1>2. book'[a.id] = [side |-> a.side, qty |-> a.qty]
  BY <1>1
<1> QED
  BY <1>2

LEMMA OwedStep ==
    ASSUME Types, LineInv, RestInv, Detail, RepInv, HandInv, OwedInv, [OrdersNext]_orders_vars
    PROVE  OwedInv'
<1> DEFINE Owed(id) == Pending(id) + book[id].qty > 0 =>
                          /\ tracker[id].active /\ tracker[id].remaining >= Pending(id) + book[id].qty
                          /\ tracker[id].side = book[id].side
<1> SUFFICES ASSUME NEW id \in Ids, Tracked(id) PROVE Owed(id)'
  BY Zenon DEF OwedInv, Tracked
<1>o. Owed(id)
  BY Zenon DEF OwedInv
<1>t. /\ actions \in Seq(Action) /\ wire \in Seq(Action) /\ reports \in Seq(Fills)
      /\ book \in Books /\ DOMAIN book = Ids
      /\ mpc \in {"track", "count", "send"} => actions # <<>>
  BY DEF Types, Detail, Books
<1>n. QUOTE_SIZE \in Nat \ {0}
  BY Numbers
<1>p. PICK p \in Nat, b \in Nat, m \in Nat :
         p = Pending(id) /\ b = book[id].qty /\ m = tracker[id].remaining
  BY BookTypes, PendingIs, Zenon
<1>q. Pending(id)' = Sum(SharesOf(reports', id))
  BY Zenon DEF Pending, SharesOf
<1>k. ASSUME Pending(id)' = p, book'[id].qty = b, book'[id].side = book[id].side, tracker'[id] = tracker[id]
      PROVE  Owed(id)'
  BY <1>o, <1>p, <1>k, Zenon
<1>r. ASSUME reports' = reports PROVE Pending(id)' = p
  BY <1>p, <1>q, <1>r, PendingIs, Zenon
<1>z. ~(0 + 0 > 0)
  OBVIOUS
<1> USE DEF md, rx, tx, exchange
<1>1. ASSUME UNCHANGED <<reports, book, tracker>> PROVE Owed(id)'
  BY <1>p, <1>k, <1>r, <1>1, Zenon
<1>2. ASSUME Track PROVE Owed(id)'
  <2>1. UNCHANGED <<reports, book>>
    BY <1>2, Zenon DEF Track
  <2>2. CASE tracker'[id] = tracker[id]
    BY <1>p, <1>k, <1>r, <2>1, <2>2, Zenon
  <2>3. CASE id = Head(actions).id
    <3>1. actions # <<>>
      BY <1>t, <1>2 DEF Track
    <3>2. Head(actions) \in All
      BY <1>t, <3>1, MemberTail, Zenon DEF All
    <3>3. p = 0
      BY <1>p, <2>3, <3>2, NothingOwed, Zenon
    <3>4. id \in W \cup B \cup Q \cup A /\ id \in Int
      BY <2>3, <3>2, MemberIds, Zenon
    <3>5. ~(b > 0)
      <4>1. ASSUME b > 0 PROVE id < id
        BY <1>p, <3>4, <4>1, Zenon DEF RestInv, Below
      <4> QED
        BY <3>4, <4>1
    <3>6. b = 0
      BY <3>5, Naught, ZenonT(30)
    <3> QED
      BY <1>p, <1>r, <1>z, <2>1, <3>3, <3>6, ZenonT(30)
  <2> QED
    BY <1>2, <2>2, <2>3, SlotKept, Zenon DEF Track, on_execution_report
<1>3. ASSUME Accept PROVE Owed(id)'
  <2>1. /\ wire # <<>> /\ ~Head(wire).cancel /\ UNCHANGED <<reports, tracker>>
        /\ book' = [book EXCEPT ![Head(wire).id] = [side |-> Head(wire).side, qty |-> Head(wire).qty]]
    BY <1>3, Zenon DEF Accept
  <2>2. PICK a \in Action : a = Head(wire) /\ a \in Out /\ a \in All
    BY <1>t, <2>1, MemberTail, Zenon DEF All, Out
  <2>3. a.qty = QUOTE_SIZE /\ a.id \in Ids
    BY DEF Action
  <2>4. CASE id = a.id
    <3>1. p = 0
      BY <1>p, <2>2, <2>4, NothingOwed, Zenon
    <3>2. book \in [Ids -> Resting]
      BY Zenon DEF Types
    <3>3. tracker'[id].side = a.side /\ tracker'[id].remaining = QUOTE_SIZE /\ tracker'[id].active
      BY <2>1, <2>2, <2>4, Zenon DEF HandInv, Fresh
    <3>4. QUOTE_SIZE >= 0 + QUOTE_SIZE
      BY <1>n
    <3>5. book'[id].side = a.side /\ book'[id].qty = QUOTE_SIZE
      BY <1>3, <2>2, <2>3, <2>4, <3>2, AcceptBooks, Zenon
    <3>6. Pending(id)' = 0
      BY <1>r, <2>1, <3>1, Zenon
    <3> QED
      BY <3>3, <3>4, <3>5, <3>6, Zenon
  <2>5. CASE id # a.id
    <3>1. book'[id] = book[id]
      BY <1>t, <2>1, <2>2, <2>5, ZenonT(30)
    <3> QED
      BY <1>p, <1>k, <1>r, <2>1, <3>1, Zenon
  <2> QED
    BY <2>4, <2>5, ZenonT(30)
<1>4. ASSUME CancelByToken PROVE Owed(id)'
  <2>1. /\ wire # <<>> /\ UNCHANGED <<reports, tracker>> /\ book' = [book EXCEPT ![Head(wire).id].qty = 0]
    BY <1>4, Zenon DEF CancelByToken
  <2>2. PICK a \in Action : a = Head(wire) /\ a \in All
    BY <1>t, <2>1, MemberTail, Zenon DEF All, Out
  <2>3. CASE id = a.id
    <3>1. p = 0
      BY <1>p, <2>2, <2>3, NothingOwed, Zenon
    <3>2. book'[id].qty = 0
      BY <1>t, <2>1, <2>2, <2>3 DEF Books
    <3>3. Pending(id)' = 0
      BY <1>r, <2>1, <3>1, Zenon
    <3> QED
      BY <1>z, <3>2, <3>3, Zenon
  <2>4. CASE id # a.id
    <3>1. book'[id] = book[id]
      BY <1>t, <2>1, <2>2, <2>4, ZenonT(30)
    <3> QED
      BY <1>p, <1>k, <1>r, <2>1, <3>1, Zenon
  <2> QED
    BY <2>3, <2>4, Zenon
<1>5. ASSUME NEW x \in Ids, NEW qty \in 1 .. QUOTE_SIZE, Execute(x, qty) PROVE Owed(id)'
  <2> DEFINE r == [id |-> x, qty |-> qty]
  <2>1. /\ UNCHANGED tracker /\ book' = [book EXCEPT ![x].qty = @ - qty]
        /\ reports' = reports \/ reports' = Append(reports, r)
    BY <1>5, Zenon DEF Execute
  <2>2. r \in Fills /\ r.id = x /\ r.qty = qty
    BY DEF Fills
  <2> HIDE DEF r
  <2>q. qty \in Nat
    BY <1>n
  <2>3. PICK g \in Nat : g <= qty /\ Pending(id)' = p + IF x = id THEN g ELSE 0
    <3>1. CASE reports' = reports
      <4>1. 0 \in Nat /\ 0 <= qty /\ p = p + IF x = id THEN 0 ELSE 0
        BY <2>q
      <4> QED
        BY <1>r, <3>1, <4>1, Zenon
    <3>2. CASE reports' = Append(reports, r)
      <4>1. Pending(id)' = p + IF x = id THEN qty ELSE 0
        BY <1>t, <1>p, <1>q, <3>2, <2>2, PendingIs, SharesAppend, ZenonT(30)
      <4>2. qty <= qty
        BY <2>q
      <4> QED
        BY <2>q, <4>1, <4>2, Zenon
    <3> QED
      BY <2>1, <3>1, <3>2, Zenon
  <2>4. CASE x = id
    <3>1. book'[id].qty = b - qty /\ book'[id].side = book[id].side
      BY <1>t, <1>p, <2>1, <2>4, ZenonT(30) DEF Books
    <3>2. Pending(id)' = p + g
      BY <2>3, <2>4, Zenon
    <3>3. ASSUME (p + g) + (b - qty) > 0
          PROVE  p + b > 0 /\ (m >= p + b => m >= (p + g) + (b - qty))
      BY <2>q, <2>3, <3>3
    <3> QED
      BY <1>o, <1>p, <2>1, <3>1, <3>2, <3>3, ZenonT(30)
  <2>5. CASE x # id
    <3>1. book'[id] = book[id]
      BY <1>t, <2>1, <2>5, Zenon
    <3>2. Pending(id)' = p
      BY <2>3, <2>5, Naught, ZenonT(30)
    <3> QED
      BY <1>p, <1>k, <2>1, <3>1, <3>2, Zenon
  <2> QED
    BY <2>4, <2>5, ZenonT(30)
<1>6. ASSUME on_execution_report PROVE Owed(id)'
  <2> DEFINE r == Head(reports)
             t == tracker[r.id]
  <2>1. reports # <<>> /\ reports' = Tail(reports) /\ r \in Fills
    BY <1>6, Applied, Zenon
  <2>2. book' = book
    BY <1>6, Zenon DEF on_execution_report
  <2>3. Pending(id)' \in Nat /\ Pending(id)' = p - IF r.id = id THEN r.qty ELSE 0
    BY <1>t, <1>p, <1>q, <2>1, PendingIs, SharesTail, Zenon
  <2>4. CASE r.id = id
    <3>1. t.active /\ r.qty <= t.remaining
      BY <2>1, <2>4, ReportOwed, Zenon
    <3>2. PICK u \in Trackings :
             /\ tracker' = [tracker EXCEPT ![r.id] = u]
             /\ u.side = t.side /\ u.remaining = t.remaining - r.qty
             /\ u.remaining > 0 => u.active
      BY <1>6, <2>4, <3>1, Applied, ZenonT(30)
    <3>3. PICK q \in Nat : q = r.qty
      BY <2>1, Numbers DEF Fills
    <3>4. DOMAIN tracker = Ids
      BY DEF Detail
    <3>5. tracker'[id] = u
      BY <2>4, <3>2, <3>4, Zenon
    <3>6. /\ Pending(id)' = p - q /\ tracker'[id].remaining = m - q /\ book'[id].qty = b
          /\ tracker'[id].side = tracker[id].side /\ book'[id].side = book[id].side
          /\ tracker'[id].remaining > 0 => tracker'[id].active
      BY <1>p, <2>2, <2>3, <2>4, <3>2, <3>3, <3>5, ZenonT(30)
    <3>7. ASSUME (p - q) + b > 0
          PROVE  p + b > 0 /\ (m >= p + b => m - q > 0 /\ m - q >= (p - q) + b)
      BY <3>7
    <3> QED
      BY <1>o, <1>p, <3>6, <3>7, Zenon
  <2>5. CASE r.id # id
    <3>1. tracker'[id] = tracker[id]
      BY <1>6, <2>5, SlotKept, ZenonT(30) DEF Track, on_execution_report
    <3>2. Pending(id)' = p
      BY <2>3, <2>5
    <3> QED
      BY <1>p, <1>k, <2>2, <3>1, <3>2, Zenon
  <2> QED
    BY <2>4, <2>5
<1>7. ASSUME NEW bid, NEW ask, MakerTick(bid, ask) PROVE UNCHANGED <<reports, book, tracker>>
  BY <1>7, Zenon DEF MakerTick
<1>8. ASSUME NEW side, TakerTick(side) PROVE UNCHANGED <<reports, book, tracker>>
  BY <1>8, Zenon DEF TakerTick
<1>9. ASSUME \/ CheckRisk \/ TickDone \/ CountInFlight \/ send_order \/ Transmit \/ Gather \/ GatherEnd
             \/ SendBatch \/ Refuse \/ CloseInFlight \/ UNCHANGED orders_vars
      PROVE  UNCHANGED <<reports, book, tracker>>
  BY <1>9, Zenon DEF CheckRisk, TickDone, CountInFlight, send_order, Transmit, Gather, GatherEnd, SendBatch,
                     Refuse, CloseInFlight, orders_vars
<1> HIDE DEF Owed
<1> QED
  BY <1>1, <1>2, <1>3, <1>4, <1>5, <1>6, <1>7, <1>8, <1>9, ZenonT(30) DEF OrdersNext

LEMMA PositionStep ==
    ASSUME Types, Detail, RepInv, OwedInv, PositionConfirmed, [OrdersNext]_orders_vars
    PROVE  PositionConfirmed'
<1>t. /\ wire \in Seq(Action) /\ reports \in Seq(Fills) /\ book \in Books /\ DOMAIN book = Ids
      /\ position \in Int /\ net \in Int /\ lost_net \in Int
  BY DEF Types, Detail, Books
<1>n. PICK n : n = Sum(NetOf(reports, book))
  OBVIOUS
<1>o. n \in Int /\ position + n + lost_net = net
  <2>1. NetOf(reports, book) \in Seq(Int)
    BY <1>t, NetType, Zenon
  <2>2. Sum(NetOf(reports, book)) \in Int
    <3>1. 0 \in Int
      OBVIOUS
    <3> QED
      BY <2>1, <3>1, SumAppend, Zenon
  <2> QED
    BY <1>n, <2>2, PendingNetIs, Zenon DEF PositionConfirmed
<1>q. PendingNet' = Sum(NetOf(reports', book'))
  BY Zenon DEF PendingNet, NetOf, Effect
<1>k. ASSUME UNCHANGED <<position, net, lost_net>>, NetOf(reports', book') = NetOf(reports, book)
      PROVE  PositionConfirmed'
  BY <1>n, <1>o, <1>q, <1>k, Zenon DEF PositionConfirmed
<1> USE DEF md, rx, tx, exchange
<1>1. ASSUME UNCHANGED <<position, net, lost_net, reports, book>> PROVE PositionConfirmed'
  BY <1>k, <1>1, Zenon
<1>2. CASE Accept
  <2>1. /\ wire # <<>> /\ UNCHANGED <<reports, position, net, lost_net>>
        /\ book' = [book EXCEPT ![Head(wire).id] = [side |-> Head(wire).side, qty |-> Head(wire).qty]]
    BY <1>2, Zenon DEF Accept
  <2>2. Head(wire) \in All
    BY <1>t, <2>1, MemberTail, Zenon DEF All, Out
  <2>3. \A i \in DOMAIN reports : reports[i].id # Head(wire).id
    BY <2>2, NothingOwed, Zenon
  <2>4. \A i \in DOMAIN reports : reports[i].id \in Ids
    <3>1. \A i \in DOMAIN reports : reports[i] \in Fills
      BY <1>t
    <3> QED
      BY <3>1 DEF Fills
  <2>5. \A i \in DOMAIN reports : book'[reports[i].id].side = book[reports[i].id].side
    BY <1>t, <2>1, <2>3, <2>4, Zenon
  <2>6. NetOf(reports, book') = NetOf(reports, book)
    BY <1>t, <2>5, NetSame, Zenon
  <2> QED
    BY <1>k, <2>1, <2>6, Zenon
<1>3. CASE CancelByToken
  <2>1. UNCHANGED <<reports, position, net, lost_net>> /\ book' = [book EXCEPT ![Head(wire).id].qty = 0]
    BY <1>3, Zenon DEF CancelByToken
  <2>2. \A i \in DOMAIN reports : reports[i].id \in Ids
    <3>1. \A i \in DOMAIN reports : reports[i] \in Fills
      BY <1>t
    <3> QED
      BY <3>1 DEF Fills
  <2>3. \A x \in Ids : book'[x].side = book[x].side
    BY <1>t, <2>1 DEF Books
  <2>4. NetOf(reports, book') = NetOf(reports, book)
    BY <1>t, <2>2, <2>3, NetSame, Zenon
  <2> QED
    BY <1>k, <2>1, <2>4, Zenon
<1>4. ASSUME NEW id \in Ids, NEW qty \in 1 .. QUOTE_SIZE, Execute(id, qty) PROVE PositionConfirmed'
  <2> DEFINE r == [id |-> id, qty |-> qty]
             e == Effect(r, book)
  <2>1. r \in Fills /\ r.id = id /\ r.qty = qty
    BY DEF Fills
  <2>2. e = IF Tracked(id) THEN Signed(book[id].side, qty) ELSE 0
    BY <2>1, Zenon DEF Effect
  <2> HIDE DEF r, e
  <2>3. /\ UNCHANGED position /\ book' = [book EXCEPT ![id].qty = @ - qty] /\ net' = net + e
        /\ \/ reports' = Append(reports, r) /\ lost_net' = lost_net
           \/ reports' = reports /\ lost_net' = lost_net + e
    BY <1>4, <2>2, Zenon DEF Execute, r
  <2>4. e \in Int
    BY <1>t, <2>1, EffectType, Zenon DEF e
  <2>5. \A x \in Ids : book'[x].side = book[x].side
    BY <1>t, <2>3 DEF Books
  <2>6. ASSUME reports' \in Seq(Fills) PROVE NetOf(reports', book') = NetOf(reports', book)
    <3>1. \A i \in DOMAIN reports' : reports'[i] \in Fills
      BY <2>6
    <3>2. \A i \in DOMAIN reports' : reports'[i].id \in Ids
      BY <3>1 DEF Fills
    <3> QED
      BY <2>5, <2>6, <3>2, NetSame, Zenon
  <2>7. CASE reports' = Append(reports, r) /\ lost_net' = lost_net
    <3>1. reports' \in Seq(Fills)
      BY <1>t, <2>1, <2>7
    <3>2. Sum(NetOf(reports', book)) = n + e
      BY <1>t, <1>n, <2>1, <2>7, NetAppend, Zenon DEF e
    <3>3. PendingNet' = n + e
      BY <1>q, <2>6, <3>1, <3>2, Zenon
    <3>4. position + (n + e) + lost_net = net + e
      BY <1>t, <1>o, <2>4
    <3> QED
      BY <2>3, <2>7, <3>3, <3>4, Zenon DEF PositionConfirmed
  <2>8. CASE reports' = reports /\ lost_net' = lost_net + e
    <3>1. PendingNet' = n
      BY <1>t, <1>n, <1>q, <2>6, <2>8, Zenon
    <3>2. position + n + (lost_net + e) = net + e
      BY <1>t, <1>o, <2>4
    <3> QED
      BY <2>3, <2>8, <3>1, <3>2, Zenon DEF PositionConfirmed
  <2> QED
    BY <2>3, <2>7, <2>8, Zenon
<1>5. CASE on_execution_report
  <2> DEFINE r == Head(reports)
             t == tracker[r.id]
             e == Effect(r, book)
  <2>1. reports # <<>> /\ reports' = Tail(reports) /\ r \in Fills
    BY <1>5, Applied, Zenon
  <2>2. UNCHANGED <<book, net, lost_net>>
    BY <1>5, Zenon DEF on_execution_report
  <2>3. PendingNet' = n - e
    BY <1>t, <1>n, <1>q, <2>1, <2>2, NetTail, Zenon
  <2>4. e \in Int
    BY <1>t, <2>1, EffectType, Zenon
  <2>5. position' = position + e
    <3>1. CASE Tracked(r.id)
      <4>1. t.active /\ r.qty <= t.remaining /\ t.side = book[r.id].side
        BY <2>1, <3>1, ReportOwed, Zenon
      <4>2. position' = position + Signed(t.side, r.qty)
        BY <1>5, <3>1, <4>1, Applied, Zenon
      <4> QED
        BY <3>1, <4>1, <4>2, Zenon DEF Effect
    <3>2. CASE ~Tracked(r.id)
      <4>1. position' = position
        BY <1>5, <3>2, Applied, Zenon
      <4>2. e = 0
        BY <3>2, Zenon DEF Effect
      <4> HIDE DEF e
      <4> QED
        BY <1>t, <4>1, <4>2
    <3> QED
      BY <3>1, <3>2
  <2> HIDE DEF r, t, e
  <2>6. (position + e) + (n - e) + lost_net = net
    BY <1>t, <1>o, <2>4
  <2> QED
    BY <2>2, <2>3, <2>5, <2>6, Zenon DEF PositionConfirmed
<1>6. ASSUME NEW bid, NEW ask, MakerTick(bid, ask) PROVE UNCHANGED <<position, net, lost_net, reports, book>>
  BY <1>6, Zenon DEF MakerTick
<1>7. ASSUME NEW side, TakerTick(side) PROVE UNCHANGED <<position, net, lost_net, reports, book>>
  BY <1>7, Zenon DEF TakerTick
<1>8. ASSUME \/ CheckRisk \/ TickDone \/ Track \/ CountInFlight \/ send_order \/ Transmit \/ Gather \/ GatherEnd
             \/ SendBatch \/ Refuse \/ CloseInFlight \/ UNCHANGED orders_vars
      PROVE  UNCHANGED <<position, net, lost_net, reports, book>>
  BY <1>8, Zenon DEF CheckRisk, TickDone, Track, CountInFlight, send_order, Transmit, Gather, GatherEnd, SendBatch,
                     Refuse, CloseInFlight, orders_vars
<1> QED
  BY <1>1, <1>2, <1>3, <1>4, <1>5, <1>6, <1>7, <1>8, ZenonT(30) DEF OrdersNext

-----------------------------------------------------------------------------
OrdersInv ==
    /\ Types /\ LineInv /\ RestInv /\ ActiveInv /\ InFlightExact
    /\ Detail /\ RepInv /\ HandInv /\ OwedInv /\ PositionConfirmed

LEMMA OrdersInvariant == OrdersSpec => []OrdersInv
<1>1. OrdersInit => OrdersInv
  <2> SUFFICES ASSUME OrdersInit PROVE OrdersInv
    OBVIOUS
  <2>1. Types /\ LineInv /\ RestInv /\ ActiveInv /\ InFlightExact /\ Detail
    BY LineInit, CountInit, DetailInit, ZenonT(30)
  <2>2. /\ reports = <<>> /\ wire = <<>> /\ batch = <<>> /\ queue = <<>> /\ mpc = "idle"
        /\ position = 0 /\ net = 0 /\ lost_net = 0 /\ \A id \in Ids : book[id].qty = 0
    BY DEF OrdersInit
  <2>3. Reported = {} /\ Out = {}
    BY <2>2 DEF Reported, Out, Members
  <2>4. RepInv
    BY <2>3, Zenon DEF RepInv
  <2>5. HandInv
    BY <2>2, <2>3 DEF HandInv
  <2>6. Sum(NetOf(reports, book)) = 0 /\ \A id : Sum(SharesOf(reports, id)) = 0
    <3>1. NetOf(<<>>, book) = <<>> /\ \A id : SharesOf(<<>>, id) = <<>>
      BY DEF NetOf, SharesOf
    <3> QED
      BY <2>2, <3>1, SumEmpty, Zenon
  <2>7. OwedInv
    <3>1. \A id \in Ids : Pending(id) = 0 /\ book[id].qty = 0
      BY <2>2, <2>6, PendingIs, Zenon
    <3>2. ~(0 + 0 > 0)
      OBVIOUS
    <3> QED
      BY <3>1, <3>2, Zenon DEF OwedInv
  <2>8. PositionConfirmed
    <3>1. 0 + 0 + 0 = 0
      OBVIOUS
    <3> QED
      BY <2>2, <2>6, <3>1, PendingNetIs, Zenon DEF PositionConfirmed
  <2> QED
    BY <2>1, <2>4, <2>5, <2>7, <2>8, Zenon DEF OrdersInv
<1>2. OrdersInv /\ [OrdersNext]_orders_vars => OrdersInv'
  BY TypesStep, LineStep, CountStep, DetailStep, RepStep, HandStep, OwedStep, PositionStep, Zenon
     DEF OrdersInv, CountInv
<1> QED
  BY <1>1, <1>2, PTL DEF OrdersSpec

(***************************************************************************)
(* For every size of the tracker, the queue and the batch and any number   *)
(* of orders: a report that comes back always finds its order active in    *)
(* order_tracker with that many shares remaining, so on_execution_report() *)
(* never takes a fill of a tracked order for an unknown one, and neither   *)
(* remaining nor in_flight_ wraps below zero.                              *)
(***************************************************************************)
THEOREM FillsAlwaysAttributed == OrdersSpec => []FillsAttributed
<1>1. OrdersInv => FillsAttributed
  <2> SUFFICES ASSUME OrdersInv PROVE FillsAttributed
    OBVIOUS
  <2>1. Types /\ Detail /\ HandInv /\ OwedInv /\ InFlightExact
    BY Zenon DEF OrdersInv
  <2>2. in_flight \in Nat
    <3>1. MaxIds \in Nat
      BY Numbers
    <3>2. PICK c \in Nat : c = Cardinality(Active) /\ IsFiniteSet(Active)
      BY <3>1, ActiveFinite, FS_CardinalityType, Zenon
    <3>3. in_flight = c - (IF mpc = "count" THEN 1 ELSE 0) + (IF rpc = "close" THEN 1 ELSE 0)
      BY <2>1, <3>2, Zenon DEF InFlightExact, Active
    <3>4. ASSUME mpc = "count" PROVE c # 0
      <4>1. actions \in Seq(Action) /\ actions # <<>>
        BY <2>1, <3>4 DEF Types
      <4>2. PICK h \in Action : h = Head(actions)
        BY <4>1, HeadIn, ZenonT(30)
      <4>3. tracker[h.id].active
        BY <2>1, <3>4, <4>2, ZenonT(30) DEF HandInv, Fresh
      <4>4. h.id \in Active
        BY <4>3 DEF Action, Active
      <4>5. Active # {}
        BY <4>4
      <4> QED
        BY <3>2, <4>5, FS_EmptySet, Zenon
    <3> QED
      BY <3>3, <3>4
  <2>3. OrdersTypeOK
    <3>1. counter \in 1 .. MaxIds + 1 /\ mpc \in {"idle", "risk", "track", "count", "send"}
          /\ rpc \in {"idle", "close"} /\ actions \in Seq(Action) /\ queue \in Seq(Action)
          /\ batch \in Seq(Action) /\ wire \in Seq(Action)
      BY <2>1 DEF Types
    <3> QED
      BY <2>1, <2>2, <3>1, Zenon DEF OrdersTypeOK, Detail, Trackings, Fills, Books
  <2> QED
    BY <2>1, <2>3, Zenon DEF OwedInv, FillsAttributed
<1> QED
  BY <1>1, OrdersInvariant, PTL

(***************************************************************************)
(* RiskManager's position is what the exchange has executed of the tracked *)
(* orders, less the reports still on their way and those that were lost,   *)
(* however the three threads and the exchange interleave: no report that   *)
(* arrives is passed over, applied twice, or with the wrong side.          *)
(***************************************************************************)
THEOREM PositionAlwaysConfirmed == OrdersSpec => []PositionConfirmed
<1>1. OrdersInv => PositionConfirmed
  BY DEF OrdersInv
<1> QED
  BY <1>1, OrdersInvariant, PTL
=============================================================================
