------------------------ MODULE ExchangeCoreProofs ------------------------
(***************************************************************************)
(* Proofs about ExchangeCore for any number of workers, clients, tokens    *)
(* and slots, and any capacity of the queues.                              *)
(***************************************************************************)
EXTENDS ExchangeCore, TLAPS

-----------------------------------------------------------------------------
(* Arithmetic of the slices.                                               *)

Owner(s) == s \div SliceCapacity

LEMMA Numbers ==
  /\ NumWorkers \in Nat \ {0} /\ SliceCapacity \in Nat \ {0}
  /\ QueueCapacity \in Nat \ {0} /\ RecycleCapacity \in Nat
  /\ SliceCapacity <= RecycleCapacity
  /\ NoSlot \notin Slots
  BY PoolAssumption, RecycleAssumption DEF Slots

LEMMA SliceBounds ==
  ASSUME NEW w \in Workers
  PROVE  /\ w * SliceCapacity \in Nat
         /\ (w + 1) * SliceCapacity = w * SliceCapacity + SliceCapacity
         /\ (w + 1) * SliceCapacity <= NumWorkers * SliceCapacity
         /\ NumWorkers * SliceCapacity \in Nat
  BY Numbers DEF Workers

LEMMA SlicesDisjoint ==
  ASSUME NEW v \in Workers, NEW w \in Workers, NEW s \in Slice(v), s \in Slice(w)
  PROVE  v = w
<1>0. v \in Nat /\ w \in Nat /\ s \in Int /\ SliceCapacity \in Nat \ {0}
  BY Numbers, SliceBounds DEF Workers, Slice
<1>1. ASSUME NEW i \in Nat, NEW j \in Nat, i < j PROVE (i + 1) * SliceCapacity <= j * SliceCapacity
  BY <1>0, <1>1
<1>2. ~(v < w) BY <1>0, <1>1, SliceBounds DEF Slice
<1>3. ~(w < v) BY <1>0, <1>1, SliceBounds DEF Slice
<1> QED BY <1>0, <1>2, <1>3

LEMMA SlotHasOwner ==
  ASSUME NEW s \in Slots
  PROVE  Owner(s) \in Workers /\ s \in Slice(Owner(s))
<1>0. s \in Nat /\ NumWorkers \in Nat \ {0} /\ SliceCapacity \in Nat \ {0} /\ s < NumWorkers * SliceCapacity
  BY Numbers DEF Slots
<1> DEFINE q == s \div SliceCapacity
<1>1. q \in Int /\ q * SliceCapacity <= s /\ s < (q + 1) * SliceCapacity
  BY <1>0
<1> HIDE DEF q
<1>2. q >= 0
  BY <1>0, <1>1
<1>3. q < NumWorkers
  BY <1>0, <1>1
<1> QED
  BY <1>0, <1>1, <1>2, <1>3 DEF Owner, Workers, Slice, q

-----------------------------------------------------------------------------
(* The inductive invariant.                                                *)

\* A slice is used up to its high-water mark; only a worker at work holds a task.
MarkInv == \A w \in Workers : high_water_mark[w] \in FirstMark(w) .. (w + 1) * SliceCapacity

HandInv ==
    \A w \in Workers :
        /\ pc[w] = "idle" <=> held[w] = NoTask
        /\ pc[w] = "record" => held[w].type = "NEW"

\* The conjuncts of SlotInOnePlace.
Place(w, s) ==
    /\ InHand(w, s) => s \in Issued(w) /\ ~Queued(w, s) /\ ~InBook(s) /\ ~Free(w, s)
    /\ Queued(w, s) => s \in Issued(w) /\ ~InBook(s) /\ ~Free(w, s)
    /\ Free(w, s) => s \in Issued(w) /\ ~InBook(s)
    /\ s \in Slice(w) /\ InBook(s) => s \in Issued(w)
    /\ s \in Issued(w) => InHand(w, s) \/ Queued(w, s) \/ InBook(s) \/ Free(w, s)

FreeOnce(w) == \A i, j \in DOMAIN recycle[w] : recycle[w][i] = recycle[w][j] => i = j

QueuedOnce(w) ==
    \A i, j \in DOMAIN queue[w] :
        queue[w][i].type = "NEW" /\ IsNew(queue[w][j], queue[w][i].slot) => i = j

SlotInv ==
    /\ TypeOK /\ MarkInv /\ HandInv
    /\ \A w \in Workers : FreeOnce(w) /\ QueuedOnce(w) /\ \A s \in Slots : Place(w, s)
    /\ cur \notin resting

LEMMA SlotInvImplies == SlotInv => SlotInOnePlace
  BY DEF SlotInv, SlotInOnePlace, Place, FreeOnce, QueuedOnce

LEMMA TypeInit == Init => TypeOK /\ MarkInv /\ HandInv
<1> SUFFICES ASSUME Init PROVE TypeOK /\ MarkInv /\ HandInv
  OBVIOUS
<1> USE DEF Init, Life!Init
<1>1. ASSUME NEW w \in Workers PROVE FirstMark(w) \in Nat /\ FirstMark(w) <= (w + 1) * SliceCapacity
  BY Numbers, SliceBounds DEF FirstMark
<1>2. 0 \in Slots
  BY Numbers DEF Slots
<1>3. high_water_mark \in [Workers -> Nat]
  BY <1>1
<1>4. session \in [Tokens -> [slot : Slots, client : Clients \cup {0}]]
  BY <1>2
<1>5. TypeOK
  BY <1>3, <1>4 DEF TypeOK
<1>6. MarkInv
  BY <1>1, <1>3 DEF MarkInv
<1> QED
  BY <1>5, <1>6 DEF HandInv

LEMMA SlotInit == Init => SlotInv
<1> SUFFICES ASSUME Init PROVE SlotInv
  OBVIOUS
<1>1. ASSUME NEW w \in Workers, NEW s \in Slots PROVE Place(w, s)
  <2>1. ~InHand(w, s) /\ ~Queued(w, s) /\ ~InBook(s) /\ ~Free(w, s)
    BY Numbers DEF Init, Life!Init, InHand, Queued, InBook, Free
  <2>2. s \notin Issued(w)
    <3>1. high_water_mark[w] = FirstMark(w) /\ w \in Nat /\ w * SliceCapacity \in Nat
      BY SliceBounds, Numbers DEF Init, Workers
    <3>2. CASE w = 0
      BY <3>1, <3>2, Numbers DEF FirstMark, Issued, Slice
    <3>3. CASE w # 0
      BY <3>1, <3>3, Numbers DEF FirstMark, Issued, Slice
    <3> QED BY <3>2, <3>3
  <2> QED BY <2>1, <2>2 DEF Place, Issued
<1>2. ASSUME NEW w \in Workers PROVE FreeOnce(w) /\ QueuedOnce(w)
  BY DEF Init, FreeOnce, QueuedOnce
<1>3. cur \notin resting
  BY DEF Init, Life!Init
<1> QED
  BY <1>1, <1>2, <1>3, TypeInit DEF SlotInv

-----------------------------------------------------------------------------
(* What an allocation, a deallocation and a pop do to the places.          *)

LEMMA Allocated ==
  ASSUME SlotInv, NEW w \in Workers, NEW s \in Slots, Recycled(w, s) \/ Fresh(w, s)
  PROVE  /\ s \in Slice(w) /\ s # 0 /\ ~InBook(s) /\ ~Queued(w, s)
         /\ recycle' \in [Workers -> Seq(Slots)] /\ high_water_mark' \in [Workers -> Nat] /\ MarkInv'
         /\ \A v \in Workers : FreeOnce(v)'
         /\ \A v \in Workers : Issued(v)' = IF v = w THEN Issued(w) \cup {s} ELSE Issued(v)
         /\ \A v \in Workers, x \in Slots : Free(v, x)' <=> Free(v, x) /\ ~(v = w /\ x = s)
<1>0. /\ w \in Nat /\ w * SliceCapacity \in Nat /\ SliceCapacity \in Nat \ {0}
      /\ (w + 1) * SliceCapacity = w * SliceCapacity + SliceCapacity
      /\ (w # 0 => w * SliceCapacity > 0)
  BY SliceBounds, Numbers DEF Workers
<1>1. /\ recycle \in [Workers -> Seq(Slots)] /\ high_water_mark \in [Workers -> Nat]
      /\ Place(w, s) /\ FreeOnce(w)
      /\ high_water_mark[w] \in FirstMark(w) .. (w + 1) * SliceCapacity
  BY DEF SlotInv, TypeOK, MarkInv
<1>2. CASE Recycled(w, s)
  <2>1. recycle[w] \in Seq(Slots) /\ recycle[w] # <<>> /\ s = recycle[w][1] /\ 1 \in DOMAIN recycle[w]
    BY <1>1, <1>2 DEF Recycled
  <2>2. Free(w, s)
    BY <2>1 DEF Free
  <2>3. s \in Issued(w) /\ ~InBook(s) /\ ~Queued(w, s)
    BY <1>1, <2>2 DEF Place
  <2>4. /\ recycle' = [recycle EXCEPT ![w] = Tail(@)] /\ high_water_mark' = high_water_mark
        /\ recycle' \in [Workers -> Seq(Slots)]
    BY <1>1, <1>2, <2>1 DEF Recycled
  <2>5. \A v \in Workers : v # w => recycle'[v] = recycle[v]
    BY <1>1, <2>4
  <2>6. /\ DOMAIN recycle[w] = 1 .. Len(recycle[w]) /\ DOMAIN recycle'[w] = 1 .. Len(recycle[w]) - 1
        /\ Len(recycle[w]) \in Nat \ {0}
        /\ \A i \in 1 .. Len(recycle[w]) - 1 : recycle'[w][i] = recycle[w][i + 1]
    BY <1>1, <2>1, <2>4
  <2>7. FreeOnce(w)'
    <3> SUFFICES ASSUME NEW i \in DOMAIN recycle'[w], NEW j \in DOMAIN recycle'[w],
                        recycle'[w][i] = recycle'[w][j]
                 PROVE  i = j
      BY DEF FreeOnce
    <3>1. /\ i \in 1 .. Len(recycle[w]) - 1 /\ j \in 1 .. Len(recycle[w]) - 1
          /\ recycle[w][i + 1] = recycle[w][j + 1]
      BY <2>6, Zenon
    <3>2. i + 1 \in DOMAIN recycle[w] /\ j + 1 \in DOMAIN recycle[w]
      BY <2>6, <3>1
    <3>3. i + 1 = j + 1
      BY <1>1, <3>1, <3>2 DEF FreeOnce
    <3> QED BY <3>1, <3>3
  <2>8. ASSUME NEW x \in Slots PROVE Free(w, x)' <=> Free(w, x) /\ x # s
    <3>1. ASSUME Free(w, x), x # s PROVE Free(w, x)'
      <4>1. PICK i \in 1 .. Len(recycle[w]) : recycle[w][i] = x BY <2>6, <3>1 DEF Free
      <4>2. i # 1 BY <2>1, <3>1, <4>1
      <4>3. i - 1 \in 1 .. Len(recycle[w]) - 1 BY <2>6, <4>2
      <4>4. recycle'[w][i - 1] = x BY <2>6, <4>1, <4>3
      <4> QED BY <2>6, <4>3, <4>4 DEF Free
    <3>2. ASSUME Free(w, x)' PROVE Free(w, x) /\ x # s
      <4>1. PICK i \in 1 .. Len(recycle[w]) - 1 : recycle'[w][i] = x BY <2>6, <3>2 DEF Free
      <4>2. recycle[w][i + 1] = x /\ i + 1 \in 1 .. Len(recycle[w]) /\ i + 1 # 1 BY <2>6, <4>1
      <4> QED BY <1>1, <2>1, <2>6, <4>2, Zenon DEF Free, FreeOnce
    <3> QED BY <3>1, <3>2
  <2>9. \A v \in Workers : Issued(v)' = Issued(v)
    BY <2>4 DEF Issued
  <2>10. \A v \in Workers : v # w => FreeOnce(v)' /\ \A x \in Slots : Free(v, x)' <=> Free(v, x)
    BY <2>5 DEF FreeOnce, Free, SlotInv
  <2>11. MarkInv'
    BY <2>4 DEF SlotInv, MarkInv
  <2>12. s \in Slice(w) /\ s # 0
    BY <2>3 DEF Issued
  <2>13. high_water_mark' \in [Workers -> Nat]
    BY <1>1, <2>4
  <2> QED BY <2>3, <2>4, <2>7, <2>8, <2>9, <2>10, <2>11, <2>12, <2>13, Zenon
<1>3. CASE Fresh(w, s)
  <2>1. /\ recycle[w] = <<>> /\ s = high_water_mark[w] /\ s < (w + 1) * SliceCapacity
        /\ high_water_mark' = [high_water_mark EXCEPT ![w] = @ + 1] /\ recycle' = recycle
    BY <1>3 DEF Fresh
  <2>2. s \in Nat /\ s >= FirstMark(w) /\ FirstMark(w) \in Nat
    BY <1>0, <1>1, <2>1 DEF FirstMark
  <2>3. s \in Slice(w) /\ s # 0
    BY <1>0, <2>1, <2>2 DEF FirstMark, Slice
  <2>4. s \notin Issued(w)
    BY <1>1, <2>1 DEF Issued
  <2>5. ~InBook(s) /\ ~Queued(w, s)
    BY <1>1, <2>3, <2>4 DEF Place
  <2>6. high_water_mark' \in [Workers -> Nat] /\ high_water_mark'[w] = s + 1
    BY <1>1, <2>1
  <2>7. MarkInv'
    <3>1. high_water_mark'[w] \in FirstMark(w) .. (w + 1) * SliceCapacity
      BY <1>0, <2>1, <2>2, <2>6
    <3> QED BY <1>1, <2>1, <3>1 DEF SlotInv, MarkInv
  <2>8. Issued(w)' = Issued(w) \cup {s}
    BY <1>0, <2>1, <2>2, <2>3, <2>6 DEF Issued, Slice
  <2>9. \A v \in Workers : v # w => Issued(v)' = Issued(v)
    BY <1>1, <2>1 DEF Issued
  <2>10. ~Free(w, s)
    BY <2>1 DEF Free
  <2>11. \A v \in Workers, x \in Slots : Free(v, x)' <=> Free(v, x)
    BY <2>1 DEF Free
  <2>12. \A v \in Workers : FreeOnce(v)'
    BY <2>1 DEF FreeOnce, SlotInv
  <2> QED BY <1>1, <2>1, <2>3, <2>5, <2>6, <2>7, <2>8, <2>9, <2>10, <2>11, <2>12
<1> QED
  BY <1>2, <1>3

LEMMA Deallocated ==
  ASSUME SlotInv, NEW s \in Slots, InBook(s), deallocate(s)
  PROVE  /\ recycle' \in [Workers -> Seq(Slots)] /\ UNCHANGED <<order, high_water_mark>>
         /\ \A v \in Workers : FreeOnce(v)'
         /\ \A v \in Workers, x \in Slots : Free(v, x)' <=> Free(v, x) \/ (v = Owner(s) /\ x = s)
<1> DEFINE w == Owner(s)
<1>1. w \in Workers /\ s \in Slice(w)
  BY SlotHasOwner
<1>2. recycle' = [recycle EXCEPT ![w] = Append(@, s)] /\ UNCHANGED <<order, high_water_mark>>
  BY DEF deallocate, Owner
<1> HIDE DEF w
<1>3. recycle \in [Workers -> Seq(Slots)] /\ recycle[w] \in Seq(Slots) /\ Place(w, s) /\ FreeOnce(w)
  BY <1>1 DEF SlotInv, TypeOK
<1>4. recycle' \in [Workers -> Seq(Slots)] /\ \A v \in Workers : v # w => recycle'[v] = recycle[v]
  BY <1>1, <1>2, <1>3
<1>5. /\ Len(recycle[w]) \in Nat /\ DOMAIN recycle[w] = 1 .. Len(recycle[w])
      /\ DOMAIN recycle'[w] = 1 .. Len(recycle[w]) + 1
      /\ recycle'[w][Len(recycle[w]) + 1] = s
      /\ \A i \in 1 .. Len(recycle[w]) : recycle'[w][i] = recycle[w][i]
  BY <1>1, <1>2, <1>3
<1>6. ~Free(w, s)
  BY <1>3 DEF Place
<1>7. FreeOnce(w)'
  <2> SUFFICES ASSUME NEW i \in DOMAIN recycle'[w], NEW j \in DOMAIN recycle'[w],
                      recycle'[w][i] = recycle'[w][j]
               PROVE  i = j
    BY DEF FreeOnce
  <2>1. i \in 1 .. Len(recycle[w]) + 1 /\ j \in 1 .. Len(recycle[w]) + 1
    BY <1>5
  <2>2. \A k \in 1 .. Len(recycle[w]) : recycle'[w][k] # s
    BY <1>5, <1>6 DEF Free
  <2>3. CASE i \in 1 .. Len(recycle[w]) /\ j \in 1 .. Len(recycle[w])
    <3>1. recycle[w][i] = recycle[w][j] BY <1>5, <2>3
    <3> QED BY <1>3, <1>5, <2>3, <3>1 DEF FreeOnce
  <2>4. CASE ~(i \in 1 .. Len(recycle[w]) /\ j \in 1 .. Len(recycle[w]))
    BY <1>5, <2>1, <2>2, <2>4
  <2> QED BY <2>3, <2>4
<1>8. ASSUME NEW x \in Slots PROVE Free(w, x)' <=> Free(w, x) \/ x = s
  BY <1>5, SMTT(30) DEF Free
<1>9. \A v \in Workers : v # w => FreeOnce(v)' /\ \A x \in Slots : Free(v, x)' <=> Free(v, x)
  BY <1>4 DEF FreeOnce, Free, SlotInv
<1> QED
  BY <1>1, <1>2, <1>4, <1>7, <1>8, <1>9 DEF w

LEMMA Popped ==
  ASSUME SlotInv, NEW w \in Workers, queue[w] # <<>>, Pop(w)
  PROVE  /\ queue' \in [Workers -> Seq(Tasks)] /\ Head(queue[w]) \in Tasks
         /\ \A v \in Workers : v # w => queue'[v] = queue[v]
         /\ Len(queue[w]) \in Nat \ {0} /\ DOMAIN queue[w] = 1 .. Len(queue[w])
         /\ queue[w][1] = Head(queue[w])
         /\ DOMAIN queue'[w] = 1 .. Len(queue[w]) - 1
         /\ \A i \in 1 .. Len(queue[w]) - 1 : queue'[w][i] = queue[w][i + 1]
         /\ \A v \in Workers : QueuedOnce(v)'
         /\ \A v \in Workers, x \in Slots :
               Queued(v, x)' <=> Queued(v, x) /\ ~(v = w /\ IsNew(Head(queue[w]), x))
<1>1. queue \in [Workers -> Seq(Tasks)] /\ queue[w] \in Seq(Tasks) /\ QueuedOnce(w)
  BY DEF SlotInv, TypeOK
<1>2. queue' = [queue EXCEPT ![w] = Tail(@)]
  BY DEF Pop
<1>3. /\ queue' \in [Workers -> Seq(Tasks)] /\ Head(queue[w]) \in Tasks
      /\ \A v \in Workers : v # w => queue'[v] = queue[v]
  BY <1>1, <1>2
<1>4. /\ Len(queue[w]) \in Nat \ {0} /\ DOMAIN queue[w] = 1 .. Len(queue[w])
      /\ queue[w][1] = Head(queue[w])
      /\ DOMAIN queue'[w] = 1 .. Len(queue[w]) - 1
      /\ \A i \in 1 .. Len(queue[w]) - 1 : queue'[w][i] = queue[w][i + 1]
  BY <1>1, <1>2
<1>5. QueuedOnce(w)'
  <2> SUFFICES ASSUME NEW i \in DOMAIN queue'[w], NEW j \in DOMAIN queue'[w],
                      queue'[w][i].type = "NEW", IsNew(queue'[w][j], queue'[w][i].slot)
               PROVE  i = j
    BY DEF QueuedOnce, IsNew
  <2>1. /\ i \in 1 .. Len(queue[w]) - 1 /\ j \in 1 .. Len(queue[w]) - 1
        /\ queue'[w][i] = queue[w][i + 1] /\ queue'[w][j] = queue[w][j + 1]
    BY <1>4, ZenonT(30)
  <2>2. i + 1 \in DOMAIN queue[w] /\ j + 1 \in DOMAIN queue[w]
    BY <1>4, <2>1
  <2>3. i + 1 = j + 1
    BY <1>1, <2>1, <2>2 DEF QueuedOnce
  <2> QED BY <2>1, <2>3
<1>6. ASSUME NEW x \in Slots PROVE Queued(w, x)' <=> Queued(w, x) /\ ~IsNew(Head(queue[w]), x)
  <2>1. ASSUME Queued(w, x), ~IsNew(Head(queue[w]), x) PROVE Queued(w, x)'
    <3>1. PICK i \in 1 .. Len(queue[w]) : IsNew(queue[w][i], x) BY <1>4, <2>1 DEF Queued
    <3>2. i # 1 BY <1>4, <2>1, <3>1
    <3>3. i - 1 \in 1 .. Len(queue[w]) - 1 /\ queue'[w][i - 1] = queue[w][i] BY <1>4, <3>2
    <3> QED BY <1>4, <3>1, <3>3, Zenon DEF Queued, IsNew
  <2>2. ASSUME Queued(w, x)' PROVE Queued(w, x) /\ ~IsNew(Head(queue[w]), x)
    <3>1. PICK i \in 1 .. Len(queue[w]) - 1 : IsNew(queue'[w][i], x) BY <1>4, <2>2 DEF Queued, IsNew
    <3>2. IsNew(queue[w][i + 1], x) /\ i + 1 \in 1 .. Len(queue[w]) /\ i + 1 # 1 BY <1>4, <3>1
    <3>3. ASSUME IsNew(Head(queue[w]), x) PROVE FALSE
      <4>1. queue[w][1].type = "NEW" /\ queue[w][1].slot = x BY <1>4, <3>3 DEF IsNew
      <4>2. 1 \in DOMAIN queue[w] /\ i + 1 \in DOMAIN queue[w] BY <1>4, <3>2
      <4> QED BY <1>1, <3>2, <4>1, <4>2 DEF QueuedOnce
    <3> QED BY <1>4, <3>2, <3>3 DEF Queued
  <2> QED BY <2>1, <2>2
<1>7. \A v \in Workers : v # w => QueuedOnce(v)' /\ \A x \in Slots : Queued(v, x)' <=> Queued(v, x)
  BY <1>3 DEF QueuedOnce, Queued, IsNew, SlotInv
<1> QED
  BY <1>3, <1>4, <1>5, <1>6, <1>7

-----------------------------------------------------------------------------
(* The invariant is kept.                                                  *)

LEMMA KeptByEnter ==
  ASSUME SlotInv, NEW w \in Workers, NEW c \in Clients, NEW t \in Tokens, EnterOrder(w, c, t)
  PROVE  SlotInv'
<1>0. TypeOK /\ HandInv
  BY DEF SlotInv
<1>1. PICK s \in Slots : /\ Recycled(w, s) \/ Fresh(w, s)
                         /\ order' = [order EXCEPT ![s] = [client |-> c, token |-> t]]
                         /\ held' = [held EXCEPT ![w] = Task("NEW", s, t, c)]
  BY Zenon DEF EnterOrder
<1>2. /\ pc[w] = "idle" /\ pc' = [pc EXCEPT ![w] = "record"]
      /\ UNCHANGED <<workerOf, session, queue, resting, cur>>
  BY DEF EnterOrder, engineVars
<1>3. /\ s \in Slice(w) /\ s # 0 /\ ~InBook(s) /\ ~Queued(w, s)
      /\ recycle' \in [Workers -> Seq(Slots)] /\ high_water_mark' \in [Workers -> Nat] /\ MarkInv'
      /\ \A v \in Workers : FreeOnce(v)'
      /\ \A v \in Workers : Issued(v)' = IF v = w THEN Issued(w) \cup {s} ELSE Issued(v)
      /\ \A v \in Workers, x \in Slots : Free(v, x)' <=> Free(v, x) /\ ~(v = w /\ x = s)
  BY <1>1, Allocated
<1>4. Task("NEW", s, t, c) \in Tasks /\ Task("NEW", s, t, c) # NoTask
  BY <1>3, NoTaskAssumption DEF Task, Tasks
<1>5. TypeOK'
  BY <1>0, <1>1, <1>2, <1>3, <1>4, Zenon DEF TypeOK
<1>6. HandInv'
  BY <1>0, <1>1, <1>2, <1>4 DEF HandInv, TypeOK, Task
<1>7. held[w] = NoTask
  BY <1>0, <1>2 DEF HandInv
<1>8. \A v \in Workers, x \in Slots : InHand(v, x)' <=> InHand(v, x) \/ (v = w /\ x = s)
  BY <1>0, <1>1, <1>4, <1>7 DEF InHand, IsNew, Task, TypeOK
<1>9. \A v \in Workers, x \in Slots : Queued(v, x)' <=> Queued(v, x)
  BY <1>2 DEF Queued
<1>10. \A x \in Slots : InBook(x)' <=> InBook(x)
  BY <1>2 DEF InBook
<1>11. \A v \in Workers : QueuedOnce(v)'
  BY <1>2 DEF QueuedOnce, SlotInv
<1>12. ASSUME NEW v \in Workers, NEW x \in Slots PROVE Place(v, x)'
  <2>1. Place(v, x) BY DEF SlotInv
  <2>2. CASE v = w BY <1>3, <1>8, <1>9, <1>10, <2>1, <2>2 DEF Place
  <2>3. CASE v # w BY <1>3, <1>8, <1>9, <1>10, <2>1, <2>3 DEF Place
  <2> QED BY <2>2, <2>3
<1> QED
  BY <1>2, <1>3, <1>5, <1>6, <1>11, <1>12 DEF SlotInv

LEMMA KeptByRecordOrCancel ==
  ASSUME SlotInv, NEW w \in Workers, NEW c \in Clients, NEW t \in Tokens,
         RecordOrder(w) \/ CancelOrder(w, c, t)
  PROVE  SlotInv'
<1>0. TypeOK /\ HandInv
  BY DEF SlotInv
<1>1. UNCHANGED <<workerOf, poolVars, queue, engineVars>> /\ pc' = [pc EXCEPT ![w] = "push"]
  BY DEF RecordOrder, CancelOrder
<1>2. /\ session' \in [Tokens -> [slot : Slots, client : Clients \cup {0}]]
      /\ held' \in [Workers -> Tasks \cup {NoTask}] /\ held'[w] # NoTask
      /\ \A v \in Workers : held'[v] = held[v] \/ (held[v] = NoTask /\ held'[v].type = "CANCEL")
      /\ \A v \in Workers : v # w => held'[v] = held[v]
  <2>1. CASE RecordOrder(w)
    <3>1. pc[w] = "record" /\ held' = held BY <2>1 DEF RecordOrder
    <3>2. held[w] \in Tasks /\ held[w] # NoTask BY <1>0, <3>1, NoTaskAssumption DEF HandInv, TypeOK
    <3>3. session' \in [Tokens -> [slot : Slots, client : Clients \cup {0}]]
      BY <1>0, <2>1, <3>2 DEF RecordOrder, TypeOK, Tasks
    <3> QED BY <1>0, <3>1, <3>2, <3>3 DEF TypeOK
  <2>2. CASE CancelOrder(w, c, t)
    <3>1. /\ pc[w] = "idle" /\ session' = session /\ session[t].slot # 0
          /\ held' = [held EXCEPT ![w] = Task("CANCEL", session[t].slot, t, c)]
      BY <2>2 DEF CancelOrder
    <3>2. Task("CANCEL", session[t].slot, t, c) \in Tasks BY <1>0, <3>1 DEF Task, Tasks, TypeOK
    <3>3. Task("CANCEL", session[t].slot, t, c).type = "CANCEL" BY DEF Task
    <3> QED BY <1>0, <3>1, <3>2, <3>3, NoTaskAssumption DEF HandInv, TypeOK
  <2> QED BY <2>1, <2>2
<1>3. TypeOK'
  BY <1>0, <1>1, <1>2, Zenon DEF TypeOK, poolVars, engineVars
<1>4. HandInv'
  BY <1>0, <1>1, <1>2, ZenonT(30) DEF HandInv, TypeOK
<1>5. MarkInv' /\ (cur \notin resting)' /\ \A v \in Workers : FreeOnce(v)' /\ QueuedOnce(v)'
  BY <1>1, ZenonT(30) DEF SlotInv, MarkInv, FreeOnce, QueuedOnce, poolVars, engineVars
<1>6. \A v \in Workers, x \in Slots : InHand(v, x)' <=> InHand(v, x)
  BY <1>2 DEF InHand, IsNew
<1>7. \A v \in Workers, x \in Slots :
         /\ (Queued(v, x)' <=> Queued(v, x)) /\ (Free(v, x)' <=> Free(v, x))
         /\ (InBook(x)' <=> InBook(x)) /\ Issued(v)' = Issued(v)
  BY <1>1 DEF Queued, InBook, Free, Issued, poolVars, engineVars
<1>8. \A v \in Workers, x \in Slots : Place(v, x)'
  BY <1>6, <1>7 DEF SlotInv, Place
<1> QED
  BY <1>3, <1>4, <1>5, <1>8 DEF SlotInv

LEMMA KeptByPush ==
  ASSUME SlotInv, NEW w \in Workers, PushTask(w)
  PROVE  SlotInv'
<1>0. TypeOK /\ HandInv
  BY DEF SlotInv
<1>1. /\ pc[w] = "push" /\ pc' = [pc EXCEPT ![w] = "idle"]
      /\ queue' = [queue EXCEPT ![w] = Append(@, held[w])] /\ held' = [held EXCEPT ![w] = NoTask]
      /\ UNCHANGED <<workerOf, session, order, high_water_mark, recycle, resting, cur>>
  BY DEF PushTask, poolVars, engineVars
<1>2. held[w] # NoTask /\ held[w] \in Tasks /\ queue[w] \in Seq(Tasks)
  BY <1>0, <1>1 DEF HandInv, TypeOK
<1>3. TypeOK'
  BY <1>0, <1>1, <1>2 DEF TypeOK
<1>4. HandInv'
  BY <1>0, <1>1 DEF HandInv, TypeOK
<1>5. /\ \A v \in Workers : v # w => queue'[v] = queue[v]
      /\ Len(queue[w]) \in Nat /\ DOMAIN queue[w] = 1 .. Len(queue[w])
      /\ DOMAIN queue'[w] = 1 .. Len(queue[w]) + 1
      /\ queue'[w][Len(queue[w]) + 1] = held[w]
      /\ \A i \in 1 .. Len(queue[w]) : queue'[w][i] = queue[w][i]
  BY <1>0, <1>1, <1>2 DEF TypeOK
<1>6. \A v \in Workers, x \in Slots : Queued(v, x)' <=> Queued(v, x) \/ (v = w /\ InHand(w, x))
  <2>1. ASSUME NEW x \in Slots, Queued(w, x)' PROVE Queued(w, x) \/ InHand(w, x)
    BY <1>2, <1>5, <2>1 DEF Queued, InHand, IsNew
  <2>2. ASSUME NEW x \in Slots, Queued(w, x) PROVE Queued(w, x)'
    <3>1. PICK i \in 1 .. Len(queue[w]) : IsNew(queue[w][i], x) BY <1>5, <2>2 DEF Queued
    <3>2. i \in DOMAIN queue'[w] /\ queue'[w][i] = queue[w][i] BY <1>5
    <3> QED BY <3>1, <3>2 DEF Queued, IsNew
  <2>3. ASSUME NEW x \in Slots, InHand(w, x) PROVE Queued(w, x)'
    <3>1. Len(queue[w]) + 1 \in DOMAIN queue'[w] BY <1>5
    <3> QED BY <1>5, <2>3, <3>1 DEF Queued, InHand, IsNew
  <2>4. \A v \in Workers, x \in Slots : v # w => (Queued(v, x)' <=> Queued(v, x))
    BY <1>5 DEF Queued
  <2> QED BY <2>1, <2>2, <2>3, <2>4
<1>7. \A v \in Workers, x \in Slots : InHand(v, x)' <=> InHand(v, x) /\ v # w
  BY <1>0, <1>1 DEF InHand, IsNew, TypeOK
<1>8. \A v \in Workers, x \in Slots : (Free(v, x)' <=> Free(v, x)) /\ (InBook(x)' <=> InBook(x))
  BY <1>1 DEF Free, InBook
<1>9. \A v \in Workers : Issued(v)' = Issued(v) /\ FreeOnce(v)'
  BY <1>1 DEF Issued, FreeOnce, SlotInv
<1>10. \A v \in Workers, x \in Slots : Place(v, x)'
  <2> SUFFICES ASSUME NEW v \in Workers, NEW x \in Slots PROVE Place(v, x)'
    OBVIOUS
  <2>1. Place(v, x) BY DEF SlotInv
  <2>2. CASE v = w BY <1>6, <1>7, <1>8, <1>9, <2>1, <2>2 DEF Place
  <2>3. CASE v # w BY <1>6, <1>7, <1>8, <1>9, <2>1, <2>3 DEF Place
  <2> QED BY <2>2, <2>3
<1>11. QueuedOnce(w)'
  <2> SUFFICES ASSUME NEW i \in DOMAIN queue'[w], NEW j \in DOMAIN queue'[w],
                      queue'[w][i].type = "NEW", IsNew(queue'[w][j], queue'[w][i].slot)
               PROVE  i = j
    BY DEF QueuedOnce, IsNew
  <2>1. QueuedOnce(w) BY DEF SlotInv
  <2>2. i \in 1 .. Len(queue[w]) + 1 /\ j \in 1 .. Len(queue[w]) + 1 BY <1>5, ZenonT(30)
  <2>3. \A k \in 1 .. Len(queue[w]) :
           ~(held[w].type = "NEW" /\ queue[w][k].type = "NEW" /\ queue[w][k].slot = held[w].slot)
    <3> SUFFICES ASSUME NEW k \in 1 .. Len(queue[w]), held[w].type = "NEW", queue[w][k].type = "NEW",
                        queue[w][k].slot = held[w].slot
                 PROVE  FALSE
      OBVIOUS
    <3>1. held[w].slot \in Slots BY <1>2 DEF Tasks
    <3>2. InHand(w, held[w].slot) /\ Queued(w, held[w].slot) BY <1>2, <1>5 DEF InHand, Queued, IsNew
    <3> QED BY <3>1, <3>2 DEF SlotInv, Place
  <2>4. CASE i \in 1 .. Len(queue[w]) /\ j \in 1 .. Len(queue[w])
    <3>1. queue'[w][i] = queue[w][i] /\ queue'[w][j] = queue[w][j] BY <1>5, <2>4
    <3> QED BY <1>5, <2>1, <2>4, <3>1 DEF QueuedOnce
  <2>5. CASE i = Len(queue[w]) + 1 /\ j \in 1 .. Len(queue[w])
    <3>1. queue'[w][i] = held[w] /\ queue'[w][j] = queue[w][j] BY <1>5, <2>5
    <3> QED BY <2>3, <2>5, <3>1 DEF IsNew
  <2>6. CASE j = Len(queue[w]) + 1 /\ i \in 1 .. Len(queue[w])
    <3>1. queue'[w][j] = held[w] /\ queue'[w][i] = queue[w][i] BY <1>5, <2>6
    <3> QED BY <2>3, <2>6, <3>1 DEF IsNew
  <2> QED BY <1>5, <2>2, <2>4, <2>5, <2>6, SMTT(30)
<1>12. \A v \in Workers : v # w => QueuedOnce(v)'
  BY <1>5 DEF QueuedOnce, SlotInv
<1>13. MarkInv' /\ (cur \notin resting)'
  BY <1>1 DEF SlotInv, MarkInv
<1> QED
  BY <1>3, <1>4, <1>9, <1>10, <1>11, <1>12, <1>13 DEF SlotInv

\* What the engine leaves alone keeps its part of the invariant.
LEMMA EngineLeaves ==
  ASSUME SlotInv, UNCHANGED <<workerOf, gatewayVars, order, high_water_mark>>
  PROVE  /\ MarkInv' /\ HandInv'
         /\ \A v \in Workers : Issued(v)' = Issued(v)
         /\ \A v \in Workers, x \in Slots : InHand(v, x)' <=> InHand(v, x)
  BY ZenonT(30) DEF SlotInv, MarkInv, HandInv, Issued, InHand, IsNew, gatewayVars

LEMMA KeptByTakeNew ==
  ASSUME SlotInv, NEW w \in Workers, TakeNew(w)
  PROVE  SlotInv'
<1> DEFINE s == Head(queue[w]).slot
<1>1. /\ queue[w] # <<>> /\ Head(queue[w]).type = "NEW" /\ Pop(w)
      /\ cur = NoSlot /\ s \notin resting /\ cur' = s /\ resting' = resting
      /\ UNCHANGED <<workerOf, session, pc, held, order, high_water_mark, recycle>>
  BY ZenonT(30) DEF TakeNew, Life!Begin, gatewayVars, poolVars
<1>2. /\ queue' \in [Workers -> Seq(Tasks)] /\ Head(queue[w]) \in Tasks
      /\ Len(queue[w]) \in Nat \ {0} /\ DOMAIN queue[w] = 1 .. Len(queue[w])
      /\ queue[w][1] = Head(queue[w])
      /\ \A v \in Workers : QueuedOnce(v)'
      /\ \A v \in Workers, x \in Slots :
            Queued(v, x)' <=> Queued(v, x) /\ ~(v = w /\ IsNew(Head(queue[w]), x))
  BY <1>1, Popped
<1>3. s \in Slots /\ \A x : IsNew(Head(queue[w]), x) <=> x = s
  BY <1>1, <1>2 DEF Tasks, IsNew
<1>4. Queued(w, s)
  BY <1>1, <1>2, <1>3 DEF Queued
<1> HIDE DEF s
<1>5. s \in Issued(w) /\ s \in Slice(w)
  BY <1>3, <1>4 DEF SlotInv, Place, Issued
<1>6. \A v \in Workers : v # w => s \notin Slice(v)
  BY <1>5, SlicesDisjoint
<1>7. \A x \in Slots : InBook(x)' <=> InBook(x) \/ x = s
  BY <1>1, Numbers DEF InBook
<1>8. \A v \in Workers, x \in Slots : Free(v, x)' <=> Free(v, x)
  BY <1>1, ZenonT(30) DEF Free
<1>9. /\ MarkInv' /\ HandInv'
      /\ \A v \in Workers : Issued(v)' = Issued(v) /\ FreeOnce(v)'
      /\ \A v \in Workers, x \in Slots : InHand(v, x)' <=> InHand(v, x)
  BY <1>1, EngineLeaves DEF gatewayVars, FreeOnce, SlotInv
<1>10. \A v \in Workers, x \in Slots : Place(v, x)'
  <2> SUFFICES ASSUME NEW v \in Workers, NEW x \in Slots PROVE Place(v, x)'
    OBVIOUS
  <2>1. Place(v, x) BY DEF SlotInv
  <2>2. CASE x # s BY <1>2, <1>3, <1>7, <1>8, <1>9, <2>1, <2>2, Zenon DEF Place
  <2>3. CASE x = s /\ v = w BY <1>2, <1>3, <1>4, <1>5, <1>7, <1>8, <1>9, <2>1, <2>3, Zenon DEF Place
  <2>4. CASE x = s /\ v # w
    <3>1. x \notin Issued(v) /\ x \notin Slice(v) BY <1>6, <2>4 DEF Issued
    <3> QED BY <1>2, <1>7, <1>8, <1>9, <2>1, <2>4, <3>1, Zenon DEF Place
  <2> QED BY <2>2, <2>3, <2>4
<1>11. TypeOK'
  BY <1>1, <1>2, <1>3, ZenonT(30) DEF SlotInv, TypeOK
<1> QED
  BY <1>1, <1>2, <1>9, <1>10, <1>11 DEF SlotInv

LEMMA KeptByStaleCancel ==
  ASSUME SlotInv, NEW w \in Workers, TakeStaleCancel(w)
  PROVE  SlotInv'
<1>1. /\ queue[w] # <<>> /\ Head(queue[w]).type = "CANCEL" /\ Pop(w)
      /\ UNCHANGED <<workerOf, session, pc, held, order, high_water_mark, recycle, resting, cur>>
  BY DEF TakeStaleCancel, gatewayVars, poolVars, engineVars
<1>2. /\ queue' \in [Workers -> Seq(Tasks)]
      /\ \A v \in Workers : QueuedOnce(v)'
      /\ \A v \in Workers, x \in Slots : Queued(v, x)' <=> Queued(v, x)
  BY <1>1, Popped, ZenonT(30) DEF IsNew
<1>3. /\ MarkInv' /\ HandInv'
      /\ \A v \in Workers : Issued(v)' = Issued(v) /\ FreeOnce(v)'
      /\ \A v \in Workers, x \in Slots : InHand(v, x)' <=> InHand(v, x)
  BY <1>1, EngineLeaves, ZenonT(30) DEF gatewayVars, FreeOnce, SlotInv
<1>4. \A v \in Workers, x \in Slots : (Free(v, x)' <=> Free(v, x)) /\ (InBook(x)' <=> InBook(x))
  BY <1>1 DEF Free, InBook
<1>5. \A v \in Workers, x \in Slots : Place(v, x)'
  BY <1>2, <1>3, <1>4 DEF SlotInv, Place
<1>6. TypeOK'
  BY <1>1, <1>2 DEF SlotInv, TypeOK
<1> QED
  BY <1>1, <1>2, <1>3, <1>5, <1>6 DEF SlotInv

\* A slot that leaves the book goes to the recycle queue of its slice.
LEMMA PlacesWhenFreed ==
  ASSUME SlotInv, NEW s \in Slots, InBook(s), deallocate(s),
         UNCHANGED <<workerOf, gatewayVars>>,
         \A x \in Slots : InBook(x)' <=> InBook(x) /\ x # s,
         \A v \in Workers, x \in Slots : Queued(v, x)' <=> Queued(v, x)
  PROVE  /\ recycle' \in [Workers -> Seq(Slots)] /\ UNCHANGED <<order, high_water_mark>>
         /\ MarkInv' /\ HandInv'
         /\ \A v \in Workers : FreeOnce(v)' /\ \A x \in Slots : Place(v, x)'
<1>1. /\ recycle' \in [Workers -> Seq(Slots)] /\ UNCHANGED <<order, high_water_mark>>
      /\ \A v \in Workers : FreeOnce(v)'
      /\ \A v \in Workers, x \in Slots : Free(v, x)' <=> Free(v, x) \/ (v = Owner(s) /\ x = s)
  BY Deallocated
<1>2. /\ MarkInv' /\ HandInv'
      /\ \A v \in Workers : Issued(v)' = Issued(v)
      /\ \A v \in Workers, x \in Slots : InHand(v, x)' <=> InHand(v, x)
  BY <1>1, EngineLeaves
<1>3. Owner(s) \in Workers /\ s \in Slice(Owner(s)) /\ \A v \in Workers : v # Owner(s) => s \notin Slice(v)
  BY SlotHasOwner, SlicesDisjoint
<1>4. s \in Issued(Owner(s))
  BY <1>3 DEF SlotInv, Place
<1>5. ASSUME NEW v \in Workers, NEW x \in Slots PROVE Place(v, x)'
  <2>1. Place(v, x) BY DEF SlotInv
  <2>2. CASE x # s BY <1>1, <1>2, <2>1, <2>2 DEF Place
  <2>3. CASE x = s /\ v = Owner(s) BY <1>1, <1>2, <1>4, <2>1, <2>3 DEF Place
  <2>4. CASE x = s /\ v # Owner(s)
    <3>1. x \notin Issued(v) /\ x \notin Slice(v) BY <1>3, <2>4, ZenonT(30) DEF Issued
    <3> QED BY <1>1, <1>2, <2>1, <2>4, <3>1 DEF Place
  <2> QED BY <2>2, <2>3, <2>4
<1> QED
  BY <1>1, <1>2, <1>5

LEMMA KeptByTakeCancel ==
  ASSUME SlotInv, NEW w \in Workers, TakeCancel(w)
  PROVE  SlotInv'
<1> DEFINE s == Head(queue[w]).slot
<1>1. /\ queue[w] # <<>> /\ Head(queue[w]).type = "CANCEL" /\ Pop(w) /\ deallocate(s)
      /\ cur = NoSlot /\ s \in resting /\ resting' = resting \ {s} /\ cur' = cur
      /\ UNCHANGED <<workerOf, gatewayVars>>
  BY ZenonT(30) DEF TakeCancel, Life!Remove
<1>2. /\ queue' \in [Workers -> Seq(Tasks)] /\ Head(queue[w]) \in Tasks
      /\ \A v \in Workers : QueuedOnce(v)'
      /\ \A v \in Workers, x \in Slots : Queued(v, x)' <=> Queued(v, x)
  BY <1>1, Popped, ZenonT(30) DEF IsNew
<1>3. s \in Slots /\ InBook(s)
  BY <1>1, <1>2 DEF Tasks, InBook
<1> HIDE DEF s
<1>4. \A x \in Slots : InBook(x)' <=> InBook(x) /\ x # s
  BY <1>1, Numbers DEF InBook
<1>5. /\ recycle' \in [Workers -> Seq(Slots)] /\ UNCHANGED <<order, high_water_mark>>
      /\ MarkInv' /\ HandInv'
      /\ \A v \in Workers : FreeOnce(v)' /\ \A x \in Slots : Place(v, x)'
  BY <1>1, <1>2, <1>3, <1>4, PlacesWhenFreed, Zenon
<1>6. TypeOK'
  BY <1>1, <1>2, <1>5, ZenonT(30) DEF SlotInv, TypeOK, gatewayVars
<1> QED
  BY <1>1, <1>2, <1>5, <1>6 DEF SlotInv

LEMMA KeptByMatching ==
  ASSUME SlotInv, (\E r \in Slots : UseUpResting(r)) \/ FinishMatch
  PROVE  SlotInv'
<1>0. TypeOK /\ cur \notin resting
  BY DEF SlotInv
<1>1. UNCHANGED <<workerOf, gatewayVars, queue>>
  BY DEF UseUpResting, FinishMatch
<1>2. \A v \in Workers : QueuedOnce(v)' /\ \A x \in Slots : Queued(v, x)' <=> Queued(v, x)
  BY <1>1 DEF QueuedOnce, Queued, SlotInv
<1>3. ASSUME NEW r \in Slots, UseUpResting(r) PROVE SlotInv'
  <2>1. cur # NoSlot /\ r \in resting /\ resting' = resting \ {r} /\ cur' = cur /\ deallocate(r)
    BY <1>3 DEF UseUpResting, Life!UseUp
  <2>2. InBook(r) /\ \A x \in Slots : InBook(x)' <=> InBook(x) /\ x # r
    BY <1>0, <2>1 DEF InBook
  <2>3. /\ recycle' \in [Workers -> Seq(Slots)] /\ UNCHANGED <<order, high_water_mark>>
        /\ MarkInv' /\ HandInv'
        /\ \A v \in Workers : FreeOnce(v)' /\ \A x \in Slots : Place(v, x)'
    BY <1>1, <1>2, <2>1, <2>2, PlacesWhenFreed
  <2>4. TypeOK'
    BY <1>0, <1>1, <2>1, <2>3 DEF TypeOK, gatewayVars
  <2> QED BY <1>0, <1>2, <2>1, <2>3, <2>4 DEF SlotInv
<1>4. CASE Life!ComesToRest /\ UNCHANGED poolVars
  <2>1. cur # NoSlot /\ cur \in Slots /\ resting' = resting \cup {cur} /\ cur' = NoSlot
    BY <1>0, <1>4 DEF Life!ComesToRest, TypeOK
  <2>2. UNCHANGED <<order, high_water_mark, recycle>>
    BY <1>4 DEF poolVars
  <2>3. \A x \in Slots : InBook(x)' <=> InBook(x)
    BY <2>1, Numbers DEF InBook
  <2>4. /\ MarkInv' /\ HandInv'
        /\ \A v \in Workers : Issued(v)' = Issued(v)
        /\ \A v \in Workers, x \in Slots : InHand(v, x)' <=> InHand(v, x)
    BY <1>1, <2>2, EngineLeaves
  <2>5. \A v \in Workers : FreeOnce(v)' /\ \A x \in Slots : Free(v, x)' <=> Free(v, x)
    BY <2>2 DEF FreeOnce, Free, SlotInv
  <2>6. \A v \in Workers, x \in Slots : Place(v, x)'
    BY <1>2, <2>3, <2>4, <2>5 DEF SlotInv, Place
  <2>7. TypeOK'
    BY <1>0, <1>1, <2>1, <2>2 DEF TypeOK, gatewayVars
  <2>8. cur' \notin resting'
    BY <1>0, <2>1, Numbers DEF TypeOK
  <2> QED BY <1>2, <2>4, <2>5, <2>6, <2>7, <2>8 DEF SlotInv
<1>5. CASE Life!Leaves /\ deallocate(cur)
  <2>1. cur # NoSlot /\ cur \in Slots /\ resting' = resting /\ cur' = NoSlot
    BY <1>0, <1>5 DEF Life!Leaves, TypeOK
  <2>2. InBook(cur) /\ \A x \in Slots : InBook(x)' <=> InBook(x) /\ x # cur
    BY <1>0, <2>1, Numbers DEF InBook
  <2>3. /\ recycle' \in [Workers -> Seq(Slots)] /\ UNCHANGED <<order, high_water_mark>>
        /\ MarkInv' /\ HandInv'
        /\ \A v \in Workers : FreeOnce(v)' /\ \A x \in Slots : Place(v, x)'
    BY <1>1, <1>2, <1>5, <2>1, <2>2, PlacesWhenFreed
  <2>4. TypeOK'
    BY <1>0, <1>1, <2>1, <2>3 DEF TypeOK, gatewayVars
  <2>5. cur' \notin resting'
    BY <1>0, <2>1, Numbers DEF TypeOK
  <2> QED BY <1>2, <2>3, <2>4, <2>5 DEF SlotInv
<1> QED
  BY <1>3, <1>4, <1>5 DEF FinishMatch

LEMMA SlotStep == SlotInv /\ [Next]_vars => SlotInv'
<1> SUFFICES ASSUME SlotInv, [Next]_vars PROVE SlotInv'
  OBVIOUS
<1>1. ASSUME NEW w \in Workers, WorkerStep(w) PROVE SlotInv'
  <2>1. ASSUME NEW c \in Clients, NEW t \in Tokens, EnterOrder(w, c, t) \/ CancelOrder(w, c, t)
        PROVE  SlotInv'
    BY <2>1, KeptByEnter, KeptByRecordOrCancel
  <2>2. CASE RecordOrder(w)
    <3>1. held[w].token \in Tokens /\ held[w].client \in Clients
      BY <2>2 DEF RecordOrder, SlotInv, HandInv, TypeOK, Tasks
    <3> QED BY <2>2, <3>1, KeptByRecordOrCancel
  <2>3. CASE PushTask(w) BY <2>3, KeptByPush
  <2> QED BY <1>1, <2>1, <2>2, <2>3 DEF WorkerStep
<1>2. ASSUME NEW w \in Workers, EngineTake(w) PROVE SlotInv'
  BY <1>2, KeptByTakeNew, KeptByTakeCancel, KeptByStaleCancel DEF EngineTake
<1>3. CASE UNCHANGED vars
  <2>1. UNCHANGED <<workerOf, session, pc, held, order, high_water_mark, recycle, queue, resting, cur>>
    BY <1>3 DEF vars, gatewayVars, poolVars, engineVars
  <2>2. TypeOK' /\ MarkInv' /\ HandInv' /\ cur' \notin resting'
    BY <2>1 DEF SlotInv, TypeOK, MarkInv, HandInv
  <2>3. \A v \in Workers : FreeOnce(v)' /\ QueuedOnce(v)'
    BY <2>1, Zenon DEF SlotInv, FreeOnce, QueuedOnce
  <2>4. \A v \in Workers, x \in Slots :
           /\ (InHand(v, x)' <=> InHand(v, x)) /\ (Queued(v, x)' <=> Queued(v, x))
           /\ (Free(v, x)' <=> Free(v, x)) /\ (InBook(x)' <=> InBook(x)) /\ Issued(v)' = Issued(v)
    BY <2>1, Zenon DEF InHand, Queued, InBook, Free, Issued
  <2>5. \A v \in Workers, x \in Slots : Place(v, x)'
    BY <2>4 DEF SlotInv, Place
  <2> QED BY <2>2, <2>3, <2>5 DEF SlotInv
<1> QED
  BY <1>1, <1>2, <1>3, KeptByMatching DEF Next

LEMMA SlotInvariant == Spec => []SlotInv
  BY SlotInit, SlotStep, PTL DEF Spec

(***************************************************************************)
(* For every number of workers and every pool: a slot is in one place, in  *)
(* the hands of its own worker, its queue, the book or its recycle queue.  *)
(***************************************************************************)
THEOREM EverySlotInOnePlace == Spec => []SlotInOnePlace
  BY SlotInvariant, SlotInvImplies, PTL

-----------------------------------------------------------------------------
(* Room in the recycle queues: one that holds a slice but for the slot in  *)
(* the book is not full.                                                   *)

-----------------------------------------------------------------------------
(* Cancels.  The session map names a connection of the slot's own worker,  *)
(* and whoever the slot is given to next is put down in the map by that    *)
(* same worker before it looks at another cancel.  So a queued cancel that *)
(* is out of date is followed, in the same queue, by the order that made   *)
(* it so.                                                                  *)

HeldTrue ==
    \A w \in Workers :
        held[w] # NoTask =>
            /\ held[w].slot \in Slice(w) /\ workerOf[held[w].client] = w
            /\ held[w].type = "NEW" => /\ order[held[w].slot].client = held[w].client
                                       /\ order[held[w].slot].token = held[w].token
            /\ held[w].type = "CANCEL" /\ order[held[w].slot].token = held[w].token
                  => order[held[w].slot].client = held[w].client

SessionTrue ==
    \A t \in Tokens :
        LET s == session[t].slot
            c == session[t].client
        IN  s # 0 =>
              /\ c \in Clients /\ s \in Slice(workerOf[c])
              /\ order[s].token = t =>
                    order[s].client = c \/ (pc[workerOf[c]] = "record" /\ held[workerOf[c]].slot = s)

Superseded(w, i, s) == InHand(w, s) \/ \E j \in DOMAIN queue[w] : i < j /\ IsNew(queue[w][j], s)

QueuedTrue ==
    \A w \in Workers, s \in Slots : \A i \in DOMAIN queue[w] :
        queue[w][i].type = "CANCEL" /\ queue[w][i].slot = s =>
            /\ s \in Slice(w)
            /\ order[s].token = queue[w][i].token /\ order[s].client # queue[w][i].client
                  => Superseded(w, i, s)

CancelInv == HeldTrue /\ SessionTrue /\ QueuedTrue

LEMMA OneMore == ASSUME NEW n \in Nat PROVE n + 1 \in 1 .. n + 1 /\ \A i \in 1 .. n : i < n + 1 /\ i \in 1 .. n + 1
OBVIOUS

\* The fields of the order a gateway worker writes.
LEMMA OrderFields ==
  ASSUME NEW s, s \in DOMAIN order, NEW c, NEW t, order' = [order EXCEPT ![s] = [client |-> c, token |-> t]]
  PROVE  order'[s].client = c /\ order'[s].token = t /\ \A x \in DOMAIN order : x # s => order'[x] = order[x]
OBVIOUS

LEMMA CancelInit == Init => CancelInv
<1> SUFFICES ASSUME Init PROVE CancelInv
  OBVIOUS
<1>1. HeldTrue BY DEF Init, HeldTrue
<1>2. SessionTrue BY DEF Init, SessionTrue
<1>3. QueuedTrue BY DEF Init, QueuedTrue
<1> QED BY <1>1, <1>2, <1>3 DEF CancelInv

LEMMA CancelInvImplies == SlotInv /\ CancelInv => CancelHitsOwner
<1> SUFFICES ASSUME SlotInv, CancelInv, NEW w \in Workers, queue[w] # <<>>,
                    Head(queue[w]).type = "CANCEL", Matches(Head(queue[w])),
                    order[Head(queue[w]).slot].client # Head(queue[w]).client
             PROVE  FALSE
  BY DEF CancelHitsOwner
<1> DEFINE task == Head(queue[w])
<1>1. queue[w] \in Seq(Tasks) /\ 1 \in DOMAIN queue[w] /\ queue[w][1] = task /\ task \in Tasks
  BY DEF SlotInv, TypeOK
<1>2. Superseded(w, 1, task.slot)
  <2>1. task.slot \in Slots BY <1>1, Zenon DEF Tasks
  <2> QED BY <1>1, <2>1 DEF CancelInv, QueuedTrue, Matches
<1>3. InHand(w, task.slot) \/ Queued(w, task.slot)
  BY <1>2, ZenonT(30) DEF Superseded, Queued
<1>4. task.slot \in Slots /\ InBook(task.slot)
  BY <1>1 DEF Tasks, Matches, InBook
<1> QED
  BY <1>3, <1>4 DEF SlotInv, Place

LEMMA CancelsKeptByEnter ==
  ASSUME SlotInv, CancelInv, NEW w \in Workers, NEW c \in Clients, NEW t \in Tokens, EnterOrder(w, c, t)
  PROVE  CancelInv'
<1>0. TypeOK /\ HandInv
  BY DEF SlotInv
<1>1. PICK s \in Slots : /\ Recycled(w, s) \/ Fresh(w, s)
                         /\ order' = [order EXCEPT ![s] = [client |-> c, token |-> t]]
                         /\ held' = [held EXCEPT ![w] = Task("NEW", s, t, c)]
  BY Zenon DEF EnterOrder
<1>2. /\ pc[w] = "idle" /\ pc' = [pc EXCEPT ![w] = "record"] /\ workerOf[c] = w
      /\ UNCHANGED <<workerOf, session, queue>>
  BY DEF EnterOrder
<1>3. s \in Slice(w) /\ \A v \in Workers : s \in Slice(v) => v = w
  BY <1>1, Allocated, SlicesDisjoint, ZenonT(30)
<1>4. Task("NEW", s, t, c) \in Tasks /\ Task("NEW", s, t, c) # NoTask
  BY <1>1, Allocated, NoTaskAssumption DEF Task, Tasks
<1>5. /\ held'[w].type = "NEW" /\ held'[w].slot = s /\ held'[w].token = t /\ held'[w].client = c
      /\ held'[w] # NoTask /\ pc'[w] = "record"
      /\ \A v \in Workers : v # w => held'[v] = held[v] /\ pc'[v] = pc[v]
      /\ order'[s].client = c /\ order'[s].token = t
      /\ \A x \in Slots : x # s => order'[x] = order[x]
  <2>1. held'[w] = Task("NEW", s, t, c) /\ pc'[w] = "record"
    BY <1>0, <1>1, <1>2, Zenon DEF TypeOK
  <2>2. \A v \in Workers : v # w => held'[v] = held[v] /\ pc'[v] = pc[v]
    BY <1>0, <1>1, <1>2, Zenon DEF TypeOK
  <2>3. DOMAIN order = Slots
    BY <1>0, Zenon DEF TypeOK
  <2>4. order'[s].client = c /\ order'[s].token = t /\ \A x \in Slots : x # s => order'[x] = order[x]
    BY <1>1, <2>3, OrderFields, Zenon
  <2>5. held'[w].type = "NEW" /\ held'[w].slot = s /\ held'[w].token = t /\ held'[w].client = c
    BY <2>1 DEF Task
  <2> QED
    BY <1>4, <2>1, <2>2, <2>4, <2>5, Zenon
<1>6. HeldTrue'
  <2> SUFFICES ASSUME NEW v \in Workers, held'[v] # NoTask
               PROVE  /\ held'[v].slot \in Slice(v) /\ workerOf[held'[v].client] = v
                      /\ held'[v].type = "NEW" => /\ order'[held'[v].slot].client = held'[v].client
                                                  /\ order'[held'[v].slot].token = held'[v].token
                      /\ held'[v].type = "CANCEL" /\ order'[held'[v].slot].token = held'[v].token
                            => order'[held'[v].slot].client = held'[v].client
    BY <1>2, ZenonT(30) DEF HeldTrue
  <2>1. CASE v = w
    <3>1. held'[v].type = "NEW" /\ held'[v].slot = s /\ held'[v].token = t /\ held'[v].client = c
      BY <1>5, <2>1, Zenon
    <3>2. s \in Slice(v) /\ workerOf[c] = v
      BY <1>2, <1>3, <2>1, Zenon
    <3>3. order'[held'[v].slot].client = c /\ order'[held'[v].slot].token = t /\ held'[v].type # "CANCEL"
      BY <1>5, <3>1, Zenon
    <3> QED BY <3>1, <3>2, <3>3, Zenon
  <2>2. CASE v # w
    <3>1. held'[v] = held[v] /\ held[v] # NoTask /\ held[v] \in Tasks BY <1>0, <1>5, <2>2, Zenon DEF TypeOK
    <3>2. held[v].slot \in Slice(v) /\ held[v].slot \in Slots BY <3>1, ZenonT(30) DEF CancelInv, HeldTrue, Tasks
    <3>3. order'[held[v].slot] = order[held[v].slot] BY <1>3, <1>5, <2>2, <3>2, ZenonT(30)
    <3> QED BY <3>1, <3>3, ZenonT(30) DEF CancelInv, HeldTrue
  <2> QED BY <2>1, <2>2
<1>7. SessionTrue'
  <2> SUFFICES ASSUME NEW u \in Tokens, session[u].slot # 0
               PROVE  LET x == session[u].slot
                          d == session[u].client
                      IN  /\ d \in Clients /\ x \in Slice(workerOf[d])
                          /\ order'[x].token = u =>
                                \/ order'[x].client = d
                                \/ pc'[workerOf[d]] = "record" /\ held'[workerOf[d]].slot = x
    BY <1>2, ZenonT(30) DEF SessionTrue
  <2> DEFINE x == session[u].slot
             d == session[u].client
  <2>1. x \in Slots /\ d \in Clients /\ x \in Slice(workerOf[d]) /\ workerOf[d] \in Workers
    BY <1>0, ZenonT(30) DEF CancelInv, SessionTrue, TypeOK
  <2>2. CASE x = s
    <3>1. workerOf[d] = w BY <1>3, <2>1, <2>2, ZenonT(30)
    <3> QED BY <1>5, <2>1, <2>2, <3>1, ZenonT(30)
  <2>3. CASE x # s
    <3>1. order'[x] = order[x] BY <1>5, <2>1, <2>3, ZenonT(30)
    <3>2. pc[workerOf[d]] = "record" => workerOf[d] # w BY <1>2
    <3>3. order[x].token = u => order[x].client = d \/ (pc[workerOf[d]] = "record" /\ held[workerOf[d]].slot = x)
      BY ZenonT(30) DEF CancelInv, SessionTrue
    <3> QED BY <1>5, <2>1, <3>1, <3>2, <3>3, ZenonT(30)
  <2> QED BY <2>2, <2>3, ZenonT(30)
<1>8. QueuedTrue'
  <2> SUFFICES ASSUME NEW v \in Workers, NEW x \in Slots, NEW i \in DOMAIN queue[v],
                      queue[v][i].type = "CANCEL", queue[v][i].slot = x
               PROVE  /\ x \in Slice(v)
                      /\ order'[x].token = queue[v][i].token /\ order'[x].client # queue[v][i].client
                            => Superseded(v, i, x)'
    BY <1>2, Zenon DEF QueuedTrue
  <2>2. x \in Slice(v)
    BY ZenonT(30) DEF CancelInv, QueuedTrue
  <2>3. CASE x = s
    <3>1. v = w BY <1>3, <2>2, <2>3, ZenonT(30)
    <3>2. InHand(v, x)' BY <1>5, <2>3, <3>1, ZenonT(30) DEF InHand, IsNew
    <3> QED BY <2>2, <3>2, ZenonT(30) DEF Superseded
  <2>4. CASE x # s
    <3>1. order'[x] = order[x] BY <1>5, <2>4, ZenonT(30)
    <3>2. InHand(v, x) => InHand(v, x)' BY <1>0, <1>2, <1>5, ZenonT(30) DEF InHand, IsNew, HandInv
    <3>3. Superseded(v, i, x) => Superseded(v, i, x)' BY <1>2, <3>2, Zenon DEF Superseded, IsNew
    <3> QED BY <2>2, <3>1, <3>3, Zenon DEF CancelInv, QueuedTrue
  <2> QED BY <2>3, <2>4, ZenonT(30)
<1> QED
  BY <1>6, <1>7, <1>8 DEF CancelInv

LEMMA CancelsKeptByRecord ==
  ASSUME SlotInv, CancelInv, NEW w \in Workers, RecordOrder(w)
  PROVE  CancelInv'
<1>0. TypeOK /\ HandInv
  BY DEF SlotInv
<1> DEFINE s == held[w].slot
           t == held[w].token
           c == held[w].client
<1>1. /\ pc[w] = "record" /\ pc' = [pc EXCEPT ![w] = "push"]
      /\ session' = [session EXCEPT ![t] = [slot |-> s, client |-> c]]
      /\ UNCHANGED <<workerOf, held, order, queue>>
  BY DEF RecordOrder, poolVars
<1>2. held[w] # NoTask /\ held[w] \in Tasks /\ held[w].type = "NEW"
  BY <1>0, <1>1, ZenonT(30) DEF HandInv, TypeOK
<1>3. /\ s \in Slots /\ t \in Tokens /\ c \in Clients /\ s \in Slice(w) /\ workerOf[c] = w
      /\ order[s].client = c /\ order[s].token = t
  <2>1. s \in Slots /\ t \in Tokens /\ c \in Clients
    BY <1>2 DEF Tasks
  <2> QED
    BY <1>2, <2>1, ZenonT(30) DEF CancelInv, HeldTrue
<1>4. HeldTrue' /\ QueuedTrue'
  <2>1. HeldTrue'
    BY <1>1, ZenonT(30) DEF CancelInv, HeldTrue
  <2>2. \A v \in Workers, x \in Slots : \A i \in DOMAIN queue[v] : Superseded(v, i, x)' <=> Superseded(v, i, x)
    BY <1>1, ZenonT(30) DEF Superseded, InHand
  <2> QED
    BY <1>1, <2>1, <2>2, ZenonT(30) DEF CancelInv, QueuedTrue
<1> HIDE DEF s, t, c
<1>5. SessionTrue'
  <2> SUFFICES ASSUME NEW u \in Tokens, session'[u].slot # 0
               PROVE  LET x == session'[u].slot
                          d == session'[u].client
                      IN  /\ d \in Clients /\ x \in Slice(workerOf[d])
                          /\ order[x].token = u =>
                                \/ order[x].client = d
                                \/ pc'[workerOf[d]] = "record" /\ held[workerOf[d]].slot = x
    BY <1>1, ZenonT(30) DEF SessionTrue
  <2>1. CASE u = t
    <3>1. session'[u].slot = s /\ session'[u].client = c
      <4>1. t \in DOMAIN session BY <1>0, <1>3, Zenon DEF TypeOK
      <4> QED BY <1>1, <2>1, <4>1
    <3> QED BY <1>3, <3>1, ZenonT(30)
  <2>2. CASE u # t
    <3>1. session'[u] = session[u] BY <1>0, <1>1, <2>2, ZenonT(30) DEF TypeOK
    <3> DEFINE x == session[u].slot
               d == session[u].client
    <3>2. x \in Slots /\ d \in Clients /\ x \in Slice(workerOf[d]) /\ workerOf[d] \in Workers
      BY <1>0, <3>1, ZenonT(30) DEF CancelInv, SessionTrue, TypeOK
    <3>3. order[x].token = u => order[x].client = d \/ (pc[workerOf[d]] = "record" /\ held[workerOf[d]].slot = x)
      BY <3>1 DEF CancelInv, SessionTrue
    <3>4. ASSUME workerOf[d] = w, held[w].slot = x PROVE order[x].token # u
      BY <1>3, <2>2, <3>4, ZenonT(30) DEF s
    <3>5. workerOf[d] # w => pc'[workerOf[d]] = pc[workerOf[d]]
      BY <1>0, <1>1, <3>2 DEF TypeOK
    <3> QED BY <3>1, <3>2, <3>3, <3>4, <3>5, ZenonT(30)
  <2> QED BY <2>1, <2>2, ZenonT(30)
<1> QED
  BY <1>4, <1>5 DEF CancelInv

LEMMA CancelsKeptByCancel ==
  ASSUME SlotInv, CancelInv, NEW w \in Workers, NEW c \in Clients, NEW t \in Tokens, CancelOrder(w, c, t)
  PROVE  CancelInv'
<1>0. TypeOK /\ HandInv
  BY DEF SlotInv
<1> DEFINE s == session[t].slot
<1>1. /\ pc[w] = "idle" /\ workerOf[c] = w /\ s # 0 /\ session[t].client = c
      /\ held' = [held EXCEPT ![w] = Task("CANCEL", s, t, c)]
      /\ pc' = [pc EXCEPT ![w] = "push"]
      /\ UNCHANGED <<workerOf, session, order, queue>>
  BY ZenonT(30) DEF CancelOrder, poolVars
<1>2. s \in Slice(w) /\ (order[s].token = t => order[s].client = c)
  BY <1>1, ZenonT(30) DEF CancelInv, SessionTrue
<1>3. /\ held[w] = NoTask
      /\ held'[w] = Task("CANCEL", s, t, c) /\ pc'[w] = "push"
      /\ \A v \in Workers : v # w => held'[v] = held[v] /\ pc'[v] = pc[v]
  BY <1>0, <1>1 DEF TypeOK, HandInv
<1> HIDE DEF s
<1>4. HeldTrue'
  <2> SUFFICES ASSUME NEW v \in Workers, held'[v] # NoTask
               PROVE  /\ held'[v].slot \in Slice(v) /\ workerOf[held'[v].client] = v
                      /\ held'[v].type = "NEW" => /\ order[held'[v].slot].client = held'[v].client
                                                  /\ order[held'[v].slot].token = held'[v].token
                      /\ held'[v].type = "CANCEL" /\ order[held'[v].slot].token = held'[v].token
                            => order[held'[v].slot].client = held'[v].client
    BY <1>1, ZenonT(30) DEF HeldTrue
  <2>1. CASE v = w
    <3>1. held'[w].type = "CANCEL" /\ held'[w].slot = s /\ held'[w].token = t /\ held'[w].client = c
      BY <1>3 DEF Task
    <3> QED BY <1>1, <1>2, <2>1, <3>1, ZenonT(30)
  <2>2. CASE v # w BY <1>3, <2>2, ZenonT(30) DEF CancelInv, HeldTrue
  <2> QED BY <2>1, <2>2, ZenonT(30)
<1>5. \A v \in Workers : pc[v] = "record" => v # w /\ pc'[v] = pc[v] /\ held'[v] = held[v]
  BY <1>1, <1>3, Zenon
<1>6. SessionTrue'
  <2> SUFFICES ASSUME NEW u \in Tokens, session[u].slot # 0
               PROVE  LET x == session[u].slot
                          d == session[u].client
                      IN  /\ d \in Clients /\ x \in Slice(workerOf[d])
                          /\ order[x].token = u =>
                                \/ order[x].client = d
                                \/ pc'[workerOf[d]] = "record" /\ held'[workerOf[d]].slot = x
    BY <1>1, ZenonT(30) DEF SessionTrue
  <2>1. session[u].client \in Clients /\ workerOf[session[u].client] \in Workers
    BY <1>0 DEF CancelInv, SessionTrue, TypeOK
  <2> QED BY <1>5, <2>1, ZenonT(30) DEF CancelInv, SessionTrue
<1>7. \A v \in Workers, x \in Slots : InHand(v, x) => InHand(v, x)'
  BY <1>3, ZenonT(30) DEF InHand, IsNew
<1>8. QueuedTrue'
  <2> SUFFICES ASSUME NEW v \in Workers, NEW x \in Slots, NEW i \in DOMAIN queue[v],
                      queue[v][i].type = "CANCEL", queue[v][i].slot = x
               PROVE  /\ x \in Slice(v)
                      /\ order[x].token = queue[v][i].token /\ order[x].client # queue[v][i].client
                            => Superseded(v, i, x)'
    BY <1>1, ZenonT(30) DEF QueuedTrue
  <2>1. Superseded(v, i, x) => Superseded(v, i, x)'
    BY <1>1, <1>7, Zenon DEF Superseded, IsNew
  <2> QED BY <2>1, ZenonT(30) DEF CancelInv, QueuedTrue
<1> QED
  BY <1>4, <1>6, <1>8, ZenonT(30) DEF CancelInv

LEMMA CancelsKeptByPush ==
  ASSUME SlotInv, CancelInv, NEW w \in Workers, PushTask(w)
  PROVE  CancelInv'
<1>0. TypeOK /\ HandInv
  BY DEF SlotInv
<1>1. /\ pc[w] = "push" /\ pc' = [pc EXCEPT ![w] = "idle"]
      /\ queue' = [queue EXCEPT ![w] = Append(@, held[w])] /\ held' = [held EXCEPT ![w] = NoTask]
      /\ UNCHANGED <<workerOf, session, order>>
  BY DEF PushTask, poolVars
<1>2. held[w] # NoTask /\ held[w] \in Tasks /\ queue[w] \in Seq(Tasks)
  BY <1>0, <1>1, ZenonT(30) DEF HandInv, TypeOK
<1>3. /\ \A v \in Workers : v # w => queue'[v] = queue[v] /\ held'[v] = held[v] /\ pc'[v] = pc[v]
      /\ held'[w] = NoTask
      /\ Len(queue[w]) \in Nat /\ DOMAIN queue[w] = 1 .. Len(queue[w])
      /\ DOMAIN queue'[w] = 1 .. Len(queue[w]) + 1
      /\ queue'[w][Len(queue[w]) + 1] = held[w]
      /\ \A i \in 1 .. Len(queue[w]) : queue'[w][i] = queue[w][i]
  BY <1>0, <1>1, <1>2 DEF TypeOK
<1>4. HeldTrue'
  <2> SUFFICES ASSUME NEW v \in Workers, held'[v] # NoTask PROVE held'[v] = held[v]
    BY <1>1 DEF HeldTrue, CancelInv
  <2> QED BY <1>3, ZenonT(30)
<1>5. SessionTrue'
  <2> SUFFICES ASSUME NEW u \in Tokens, session[u].slot # 0
               PROVE  LET x == session[u].slot
                          d == session[u].client
                      IN  /\ d \in Clients /\ x \in Slice(workerOf[d])
                          /\ order[x].token = u =>
                                \/ order[x].client = d
                                \/ pc'[workerOf[d]] = "record" /\ held'[workerOf[d]].slot = x
    BY <1>1, Zenon DEF SessionTrue
  <2>1. session[u].client \in Clients /\ workerOf[session[u].client] \in Workers
    BY <1>0 DEF CancelInv, SessionTrue, TypeOK
  <2> QED BY <1>1, <1>3, <2>1, ZenonT(30) DEF CancelInv, SessionTrue
<1>6. QueuedTrue'
  <2> SUFFICES ASSUME NEW v \in Workers, NEW x \in Slots, NEW i \in DOMAIN queue'[v],
                      queue'[v][i].type = "CANCEL", queue'[v][i].slot = x
               PROVE  /\ x \in Slice(v)
                      /\ order[x].token = queue'[v][i].token /\ order[x].client # queue'[v][i].client
                            => Superseded(v, i, x)'
    BY <1>1, Zenon DEF QueuedTrue
  <2>1. CASE v # w
    BY <1>3, <2>1 DEF CancelInv, QueuedTrue, Superseded, InHand, IsNew
  <2>2. CASE v = w /\ i = Len(queue[w]) + 1
    <3>1. queue'[v][i] = held[w] BY <1>3, <2>2, Zenon
    <3>2. /\ held[w].slot \in Slice(w) /\ held[w].type = "CANCEL" /\ held[w].slot = x
          /\ order[x].token = held[w].token => order[x].client = held[w].client
      BY <1>2, <3>1, ZenonT(30) DEF CancelInv, HeldTrue
    <3> QED BY <2>2, <3>1, <3>2, ZenonT(30)
  <2>3. CASE v = w /\ i \in 1 .. Len(queue[w])
    <3>1. queue'[w][i] = queue[w][i] /\ i \in DOMAIN queue[w] BY <1>3, <2>3, ZenonT(30)
    <3>2. ASSUME Superseded(w, i, x) PROVE Superseded(w, i, x)'
      <4>1. CASE InHand(w, x)
        <5>1. IsNew(queue'[w][Len(queue[w]) + 1], x) BY <1>3, <4>1, ZenonT(30) DEF InHand
        <5>2. i < Len(queue[w]) + 1 /\ Len(queue[w]) + 1 \in DOMAIN queue'[w] BY <1>3, <2>3, OneMore, Zenon
        <5> QED BY <5>1, <5>2, <3>1, ZenonT(30) DEF Superseded, IsNew
      <4>2. ASSUME NEW j \in DOMAIN queue[w], i < j, IsNew(queue[w][j], x) PROVE Superseded(w, i, x)'
        <5>1. j \in DOMAIN queue'[w] /\ queue'[w][j] = queue[w][j] BY <1>3, <4>2, OneMore, Zenon
        <5> QED BY <4>2, <5>1, <3>1, ZenonT(30) DEF Superseded, IsNew
      <4> QED BY <3>2, <4>1, <4>2, ZenonT(30) DEF Superseded
    <3> QED BY <2>3, <3>1, <3>2, ZenonT(30) DEF CancelInv, QueuedTrue
  <2> QED BY <1>3, <2>1, <2>2, <2>3
<1> QED
  BY <1>4, <1>5, <1>6 DEF CancelInv

LEMMA CancelsKeptByPop ==
  ASSUME SlotInv, CancelInv, NEW w \in Workers, queue[w] # <<>>, Pop(w),
         UNCHANGED <<workerOf, session, pc, held, order>>
  PROVE  CancelInv'
<1>1. /\ \A v \in Workers : v # w => queue'[v] = queue[v]
      /\ Len(queue[w]) \in Nat \ {0} /\ DOMAIN queue[w] = 1 .. Len(queue[w])
      /\ DOMAIN queue'[w] = 1 .. Len(queue[w]) - 1
      /\ \A i \in 1 .. Len(queue[w]) - 1 : queue'[w][i] = queue[w][i + 1]
  BY Popped, ZenonT(30)
<1>2. HeldTrue' /\ SessionTrue'
  BY ZenonT(30) DEF CancelInv, HeldTrue, SessionTrue
<1>3. QueuedTrue'
  <2> SUFFICES ASSUME NEW v \in Workers, NEW x \in Slots, NEW i \in DOMAIN queue'[v],
                      queue'[v][i].type = "CANCEL", queue'[v][i].slot = x
               PROVE  /\ x \in Slice(v)
                      /\ order[x].token = queue'[v][i].token /\ order[x].client # queue'[v][i].client
                            => Superseded(v, i, x)'
    BY ZenonT(30) DEF QueuedTrue
  <2>1. CASE v # w
    <3>1. queue'[v] = queue[v]
      BY <1>1, <2>1, Zenon
    <3>2. Superseded(v, i, x) => Superseded(v, i, x)'
      BY <3>1, ZenonT(30) DEF Superseded, InHand
    <3> QED
      BY <3>1, <3>2, ZenonT(30) DEF CancelInv, QueuedTrue
  <2>2. CASE v = w
    <3>1. /\ i \in 1 .. Len(queue[w]) - 1 /\ i + 1 \in DOMAIN queue[w]
          /\ queue'[w][i] = queue[w][i + 1]
      BY <1>1, <2>2
    <3>2. ASSUME Superseded(w, i + 1, x) PROVE Superseded(w, i, x)'
      <4>1. CASE InHand(w, x)
        BY <3>1, <4>1, ZenonT(30) DEF Superseded, InHand, IsNew
      <4>2. ASSUME NEW j \in DOMAIN queue[w], i + 1 < j, IsNew(queue[w][j], x) PROVE Superseded(w, i, x)'
        <5>1. j - 1 \in DOMAIN queue'[w] /\ i < j - 1 /\ queue'[w][j - 1] = queue[w][j] BY <1>1, <3>1, <4>2
        <5> QED BY <4>2, <5>1, <3>1, ZenonT(30) DEF Superseded, IsNew
      <4> QED BY <3>2, <4>1, <4>2, ZenonT(30) DEF Superseded
    <3> QED BY <2>2, <3>1, <3>2, Zenon DEF CancelInv, QueuedTrue
  <2> QED BY <2>1, <2>2, ZenonT(30)
<1> QED
  BY <1>2, <1>3, ZenonT(30) DEF CancelInv

LEMMA CancelStep == SlotInv /\ CancelInv /\ [Next]_vars => CancelInv'
<1> SUFFICES ASSUME SlotInv, CancelInv, [Next]_vars PROVE CancelInv'
  OBVIOUS
<1>1. ASSUME NEW w \in Workers, WorkerStep(w) PROVE CancelInv'
  BY <1>1, CancelsKeptByEnter, CancelsKeptByRecord, CancelsKeptByCancel, CancelsKeptByPush, ZenonT(30) DEF WorkerStep
<1>2. ASSUME NEW w \in Workers, EngineTake(w) PROVE CancelInv'
  <2>1. queue[w] # <<>> /\ Pop(w) /\ UNCHANGED <<workerOf, session, pc, held, order>>
    BY <1>2, ZenonT(30) DEF EngineTake, TakeNew, TakeCancel, TakeStaleCancel, deallocate, gatewayVars, poolVars
  <2> QED BY <2>1, CancelsKeptByPop
<1>3. CASE (\E r \in Slots : UseUpResting(r)) \/ FinishMatch \/ UNCHANGED vars
  <2>1. UNCHANGED <<workerOf, session, pc, held, order, queue>>
    BY <1>3 DEF UseUpResting, FinishMatch, deallocate, vars, gatewayVars, poolVars
  <2>2. HeldTrue'
    BY <2>1, ZenonT(30) DEF CancelInv, HeldTrue
  <2>3. SessionTrue'
    BY <2>1, ZenonT(30) DEF CancelInv, SessionTrue
  <2>4. QueuedTrue'
    <3>1. ASSUME NEW v, NEW i, NEW s PROVE Superseded(v, i, s)' <=> Superseded(v, i, s)
      BY <2>1, ZenonT(30) DEF Superseded, InHand, IsNew
    <3> QED
      BY <2>1, <3>1, ZenonT(30) DEF CancelInv, QueuedTrue
  <2> QED BY <2>2, <2>3, <2>4, Zenon DEF CancelInv
<1> QED
  BY <1>1, <1>2, <1>3 DEF Next

(***************************************************************************)
(* A cancel never removes another client's order: for any clients, tokens  *)
(* and slots, however tokens and slots are reused while it is queued.      *)
(***************************************************************************)
THEOREM CancelsHitTheirOwner == Spec => []CancelHitsOwner
<1>1. Init => CancelInv
  BY CancelInit
<1>2. SlotInv /\ CancelInv /\ [Next]_vars => CancelInv'
  BY CancelStep, ZenonT(30)
<1> QED
  BY <1>1, <1>2, SlotInvariant, CancelInvImplies, PTL DEF Spec

-----------------------------------------------------------------------------
LOCAL INSTANCE FiniteSetTheorems

LEMMA RoomForFreed == SlotInv => FreeingNeverSpins
<1> SUFFICES ASSUME SlotInv, NEW s \in Slots, InBook(s)
             PROVE  Len(recycle[Owner(s)]) < RecycleCapacity
  BY DEF FreeingNeverSpins, Owner
<1> DEFINE w == Owner(s)
           r == recycle[w]
           rest == Slice(w) \ {s}
<1>1. w \in Workers /\ s \in Slice(w)
  BY SlotHasOwner
<1>2. r \in Seq(Slots) /\ FreeOnce(w)
  BY <1>1 DEF SlotInv, TypeOK
<1>3. Len(r) \in Nat /\ DOMAIN r = 1 .. Len(r)
  BY <1>2
<1>4. ASSUME NEW i \in 1 .. Len(r) PROVE r[i] \in rest
  <2>1. r[i] \in Slots BY <1>2
  <2>2. Free(w, r[i]) BY <1>3, ZenonT(30) DEF Free
  <2>3. r[i] \in Issued(w) /\ ~InBook(r[i]) BY <1>1, <2>1, <2>2, ZenonT(30) DEF SlotInv, Place
  <2> QED BY <2>3 DEF Issued
<1>5. \A i, j \in 1 .. Len(r) : r[i] = r[j] => i = j
  BY <1>2, <1>3 DEF FreeOnce
<1>6. IsFiniteSet(Slice(w)) /\ Cardinality(Slice(w)) = SliceCapacity
  <2>1. w * SliceCapacity \in Int /\ (w + 1) * SliceCapacity - 1 \in Int
        /\ (w + 1) * SliceCapacity = w * SliceCapacity + SliceCapacity /\ SliceCapacity \in Nat \ {0}
    BY <1>1, SliceBounds, Numbers
  <2> DEFINE lo == w * SliceCapacity
             hi == (w + 1) * SliceCapacity - 1
  <2>2. lo \in Int /\ hi \in Int /\ hi - lo + 1 = SliceCapacity /\ ~(lo > hi)
    BY <2>1
  <2>3. Slice(w) = lo .. hi
    BY DEF Slice
  <2> HIDE DEF lo, hi
  <2> QED BY <2>2, <2>3, FS_Interval
<1>7. IsFiniteSet(rest) /\ Cardinality(rest) = SliceCapacity - 1
  BY <1>1, <1>6, FS_RemoveElement, Zenon
<1>8. r \in Injection(1 .. Len(r), rest)
  <2>1. r \in [1 .. Len(r) -> rest] BY <1>2, <1>3, <1>4
  <2> QED BY <1>5, <2>1 DEF Injection, IsInjective
<1>9. Cardinality(1 .. Len(r)) = Len(r)
  BY <1>3, FS_Interval
<1> HIDE DEF r, rest
<1>10. Len(r) <= SliceCapacity - 1
  BY <1>7, <1>8, <1>9, FS_Injection
<1> QED
  BY <1>3, <1>10, Numbers DEF r, w

(***************************************************************************)
(* The engine never waits for room to free a slot, whatever the sizes, as  *)
(* long as a recycle queue holds a slice (RecycleAssumption).              *)
(***************************************************************************)
THEOREM EngineNeverSpins == Spec => []FreeingNeverSpins
  BY SlotInvariant, RoomForFreed, PTL
=============================================================================
