--------------------------- MODULE RingsProofs ------------------------------
(***************************************************************************)
(* The two rings, for every capacity and every set of items: the ring of   *)
(* core/lock_free_queue.h has no slot race, never overwrites an item, and  *)
(* implements BoundedFifo; so does the firm's ring, of any capacity N and  *)
(* any Word that is a multiple of N (FirmRingSizes).                       *)
(***************************************************************************)
EXTENDS MCRings, SequenceTheorems, TLAPS

(* A mark x met between c and h, with t behind h, is still followed by h   *)
(* and then t.                                                             *)
LEMMA Between3 ==
    ASSUME NEW c \in Index, NEW h \in Index, NEW t \in Index,
           NEW x \in Between(c, h),
           Ahead(c, h) + Ahead(h, t) = Ahead(c, t)
    PROVE  Ahead(x, h) + Ahead(h, t) = Ahead(x, t)
  BY CapacityAssumption DEF Between, Ahead, Mask, Index

(* A mark x met between c and t, with c not beyond t seen from h, is not   *)
(* beyond t either.                                                        *)
LEMMA BetweenAhead ==
    ASSUME NEW h \in Index, NEW c \in Index, NEW t \in Index,
           NEW x \in Between(c, t),
           Ahead(h, c) <= Ahead(h, t)
    PROVE  Ahead(h, x) <= Ahead(h, t)
  BY CapacityAssumption DEF Between, Ahead, Mask, Index

(* TypeOK is inductive by itself. *)
THEOREM TypeCorrect == Spec => []TypeOK
<1>1. Init => TypeOK
  BY CapacityAssumption DEF Init, TypeOK, Index
<1>2. TypeOK /\ [Next]_vars => TypeOK'
  <2> SUFFICES ASSUME TypeOK, [Next]_vars PROVE TypeOK'
    OBVIOUS
  <2> USE CapacityAssumption DEF TypeOK
  <2>1. ASSUME NEW item \in Items, PushCall(item) PROVE TypeOK'
    BY <2>1 DEF PushCall, consumerVars
  <2>2. CASE PushRefresh
    BY <2>2 DEF PushRefresh, consumerVars, Between
  <2>3. CASE PushWrite
    BY <2>3 DEF PushWrite, consumerVars
  <2>4. CASE PushPublish
    BY <2>4 DEF PushPublish, next_t, consumerVars, Index, Mask
  <2>5. CASE PopCall
    BY <2>5 DEF PopCall, producerVars
  <2>6. CASE PopRefresh
    BY <2>6 DEF PopRefresh, producerVars, Between
  <2>7. CASE PopRead
    BY <2>7 DEF PopRead, producerVars
  <2>8. CASE PopAdvance
    BY <2>8 DEF PopAdvance, producerVars, Index, Mask
  <2>9. CASE UNCHANGED vars
    BY <2>9 DEF vars, producerVars, consumerVars
  <2> QED
    BY <2>1, <2>2, <2>3, <2>4, <2>5, <2>6, <2>7, <2>8, <2>9 DEF Next, Push, Pop
<1> QED
  BY <1>1, <1>2, PTL DEF Spec

-----------------------------------------------------------------------------
(***************************************************************************)
(* The inductive invariant.  The arithmetic is that of four marks on a     *)
(* circle; each action moves one of them to the place of, or up to, the    *)
(* next.                                                                   *)
(***************************************************************************)
LEMMA RingInvInit == Init => RingInv
  BY CapacityAssumption DEF Init, RingInv, Depth, Ahead, Mask, next_t

LEMMA RingInvStep == TypeOK /\ RingInv /\ [Next]_vars => RingInv'
<1> SUFFICES ASSUME TypeOK, RingInv, [Next]_vars PROVE RingInv'
  OBVIOUS
<1> USE CapacityAssumption DEF TypeOK, RingInv, Index
<1>1. ASSUME NEW item \in Items, PushCall(item) PROVE RingInv'
  BY <1>1 DEF PushCall, consumerVars, Depth, Ahead, Mask, next_t
<1>2. CASE PushRefresh
  <2>1. Ahead(cached_head', head) + Depth = Ahead(cached_head', tail)
    BY <1>2, Between3 DEF PushRefresh, Depth
  <2>2. UNCHANGED <<head, tail, cached_tail, cpc, pitem, citem, buffer>>
    BY <1>2 DEF PushRefresh, consumerVars
  <2>3. (Ahead(cached_head, head) + Depth = Ahead(cached_head, tail))'
    BY <2>1, <2>2 DEF Depth, Ahead, Mask
  <2>4. (Ahead(head, cached_tail) <= Depth)'
    BY <2>2 DEF Depth, Ahead, Mask
  <2>5. (ppc \in {"write", "publish"} => next_t # cached_head)' /\ ppc' # "publish"
    BY <1>2, <2>2 DEF PushRefresh, next_t, Mask
  <2>6. (ppc # "idle" => pitem \in Items)'
    BY <1>2, <2>2 DEF PushRefresh
  <2> QED
    BY <2>2, <2>3, <2>4, <2>5, <2>6
<1>3. CASE PushWrite
  <2>1. cpc = "advance" => head # tail
    BY DEF Depth, Ahead, Mask
  <2> QED
    BY <1>3, <2>1 DEF PushWrite, consumerVars, Depth, Ahead, Mask, next_t
<1>4. CASE PushPublish
  BY <1>4 DEF PushPublish, consumerVars, Depth, Ahead, Mask, next_t
<1>5. CASE PopCall
  BY <1>5 DEF PopCall, producerVars, Depth, Ahead, Mask, next_t
<1>6. CASE PopRefresh
  <2>1. Ahead(head, cached_tail') <= Depth
    BY <1>6, BetweenAhead DEF PopRefresh, Depth
  <2>2. UNCHANGED <<head, tail, cached_head, ppc, pitem, citem, buffer>>
    BY <1>6 DEF PopRefresh, producerVars
  <2>3. (Ahead(cached_head, head) + Depth = Ahead(cached_head, tail))'
    BY <2>2 DEF Depth, Ahead, Mask
  <2>4. (Ahead(head, cached_tail) <= Depth)'
    BY <2>1, <2>2 DEF Depth, Ahead, Mask
  <2>5. (cpc \in {"read", "advance"} => head # cached_tail)' /\ cpc' # "advance"
    BY <1>6, <2>2 DEF PopRefresh
  <2>6. (ppc \in {"write", "publish"} => next_t # cached_head)'
    BY <2>2 DEF next_t, Mask
  <2> QED
    BY <2>2, <2>3, <2>4, <2>5, <2>6
<1>7. CASE PopRead
  BY <1>7 DEF PopRead, producerVars, Depth, Ahead, Mask, next_t
<1>8. CASE PopAdvance
  BY <1>8 DEF PopAdvance, producerVars, Depth, Ahead, Mask, next_t
<1>9. CASE UNCHANGED vars
  BY <1>9 DEF vars, producerVars, consumerVars, Depth, Ahead, Mask, next_t
<1> QED
  BY <1>1, <1>2, <1>3, <1>4, <1>5, <1>6, <1>7, <1>8, <1>9 DEF Next, Push, Pop

(***************************************************************************)
(* The four marks stay in order: the invariant of the cached indices holds *)
(* in every state, at every capacity.                                      *)
(***************************************************************************)
THEOREM RingInvariant == Spec => []RingInv
  BY TypeCorrect, RingInvInit, RingInvStep, PTL DEF Spec

(***************************************************************************)
(* The store at line 21 and the load at line 35 never meet in one slot,    *)
(* and push() stores only into a slot that is free in truth, not just by   *)
(* its copy of head.                                                       *)
(***************************************************************************)
THEOREM SlotAccessesDisjoint == Spec => []NoSlotRace
<1> USE CapacityAssumption DEF TypeOK, RingInv, Depth, Ahead, Mask, Index
<1>1. TypeOK /\ RingInv => NeverOverfull
  BY DEF NeverOverfull, next_t
<1>2. TypeOK /\ RingInv => ~(ppc = "write" /\ cpc = "read" /\ tail = head)
  OBVIOUS
<1>3. TypeOK /\ RingInv => NoSlotRace
  BY ONLY <1>1, <1>2 DEF NoSlotRace
<1> QED
  BY ONLY <1>3, TypeCorrect, RingInvariant, PTL

-----------------------------------------------------------------------------
(***************************************************************************)
(* The refinement.  Depth and the live slots determine Contents, so each   *)
(* step is decided by what it does to them: the store of tail appends, the *)
(* store of head removes the first item, the store into a slot touches     *)
(* none that is live, and every other step leaves both alone.              *)
(***************************************************************************)
Value == Items \cup {NoItem}

Live(buf, h, d) == [k \in 1 .. d |-> buf[Mask(h + k - 1)]]

LEMMA LiveType ==
    ASSUME NEW buf \in [Index -> Value], NEW h \in Index, NEW d \in Index
    PROVE  Live(buf, h, d) \in Seq(Value) /\ Len(Live(buf, h, d)) = d
<1>1. ASSUME NEW k \in 1 .. d PROVE Mask(h + k - 1) \in Index
  BY CapacityAssumption DEF Mask, Index
<1>2. Live(buf, h, d) \in [1 .. d -> Value]
  BY <1>1 DEF Live
<1>3. d \in Nat
  BY CapacityAssumption DEF Index
<1> QED
  BY <1>2, <1>3 DEF Live

LEMMA LiveAppend ==
    ASSUME NEW buf \in [Index -> Value], NEW h \in Index, NEW d \in Index,
           NEW e \in Index, e = d + 1
    PROVE  Live(buf, h, e) = Append(Live(buf, h, d), buf[Mask(h + d)])
<1> DEFINE l == Live(buf, h, d)
           m == Live(buf, h, e)
           x == buf[Mask(h + d)]
<1>1. x \in Value /\ d \in Nat
  BY CapacityAssumption DEF Mask, Index
<1>2. l \in Seq(Value) /\ Len(l) = d /\ \A k \in 1 .. d : l[k] = buf[Mask(h + k - 1)]
  <2>1. l \in Seq(Value) /\ Len(l) = d
    BY LiveType
  <2>2. ASSUME NEW k \in 1 .. d PROVE l[k] = buf[Mask(h + k - 1)]
    BY DEF Live
  <2> QED
    BY <2>1, <2>2
<1>3. m \in Seq(Value) /\ Len(m) = e /\ \A k \in 1 .. e : m[k] = buf[Mask(h + k - 1)]
  <2>1. m \in Seq(Value) /\ Len(m) = e
    BY LiveType
  <2>2. ASSUME NEW k \in 1 .. e PROVE m[k] = buf[Mask(h + k - 1)]
    BY DEF Live
  <2> QED
    BY <2>1, <2>2
<1>4. h + e - 1 = h + d
  BY CapacityAssumption DEF Index
<1>5. m[e] = x
  BY <1>1, <1>3, <1>4
<1> HIDE DEF l, m, x
<1>6. /\ Append(l, x) \in Seq(Value)
      /\ Len(Append(l, x)) = e
      /\ \A k \in 1 .. d : Append(l, x)[k] = l[k]
      /\ Append(l, x)[e] = x
  BY <1>1, <1>2
<1>7. ASSUME NEW k \in 1 .. e PROVE m[k] = Append(l, x)[k]
  <2>1. k \in 1 .. d \/ k = e
    BY <1>1
  <2> QED
    BY <2>1, <1>1, <1>2, <1>3, <1>5, <1>6, Zenon
<1>8. m = Append(l, x)
  BY <1>3, <1>6, <1>7, SeqEqual
<1> QED
  BY <1>8 DEF l, m, x

LEMMA LiveTail ==
    ASSUME NEW buf \in [Index -> Value], NEW h \in Index, NEW d \in Index,
           NEW e \in Index, d = e + 1
    PROVE  /\ Live(buf, h, d) # <<>>
           /\ Head(Live(buf, h, d)) = buf[h]
           /\ Tail(Live(buf, h, d)) = Live(buf, Mask(h + 1), e)
<1>0. PICK g \in Index : g = Mask(h + 1)
  BY CapacityAssumption DEF Mask, Index
<1> DEFINE l == Live(buf, h, d)
           m == Live(buf, g, e)
<1>1. d \in Nat /\ e \in Nat
  BY CapacityAssumption DEF Index
<1>2. l \in Seq(Value) /\ Len(l) = d /\ \A k \in 1 .. d : l[k] = buf[Mask(h + k - 1)]
  <2>1. l \in Seq(Value) /\ Len(l) = d
    BY LiveType
  <2>2. ASSUME NEW k \in 1 .. d PROVE l[k] = buf[Mask(h + k - 1)]
    BY DEF Live
  <2> QED
    BY <2>1, <2>2
<1>3. m \in Seq(Value) /\ Len(m) = e /\ \A k \in 1 .. e : m[k] = buf[Mask(g + k - 1)]
  <2>1. m \in Seq(Value) /\ Len(m) = e
    BY LiveType
  <2>2. ASSUME NEW k \in 1 .. e PROVE m[k] = buf[Mask(g + k - 1)]
    BY DEF Live
  <2> QED
    BY <2>1, <2>2
<1> HIDE DEF l, m
<1>4. l # <<>>
  BY <1>1, <1>2
<1>5. Head(l) = buf[h]
  <2>1. Mask(h + 1 - 1) = h
    BY CapacityAssumption DEF Mask, Index
  <2> QED
    BY <1>1, <1>2, <1>4, <2>1
<1>6. /\ Tail(l) \in Seq(Value)
      /\ Len(Tail(l)) = e
      /\ \A k \in 1 .. e : Tail(l)[k] = l[k + 1]
  BY <1>1, <1>2, <1>4, HeadTailProperties
<1>7. ASSUME NEW k \in 1 .. e PROVE Tail(l)[k] = m[k]
  <2>1. k + 1 \in 1 .. d /\ Mask(h + (k + 1) - 1) = Mask(g + k - 1)
    BY <1>0, <1>1, CapacityAssumption DEF Mask, Index
  <2> QED
    BY <1>2, <1>3, <1>6, <2>1, Zenon
<1>8. Tail(l) = m
  BY <1>1, <1>3, <1>6, <1>7, SeqEqual
<1> QED
  BY <1>0, <1>4, <1>5, <1>8 DEF l, m

LEMMA BufferType == TypeOK => buffer \in [Index -> Value] /\ head \in Index
  BY DEF TypeOK, Value

LEMMA ContentsIsLive == Contents = Live(buffer, head, Depth)
  BY DEF Contents, Live

LEMMA PublishAppends == TypeOK /\ RingInv /\ PushPublish => Fifo!Push(pitem)
<1> SUFFICES ASSUME TypeOK, RingInv, PushPublish PROVE Fifo!Push(pitem)
  OBVIOUS
<1> USE CapacityAssumption
<1>1. Depth \in Index /\ Depth < Capacity - 1 /\ Depth' \in Index /\ Depth' = Depth + 1
  BY DEF TypeOK, RingInv, PushPublish, consumerVars, Depth, Ahead, Mask, next_t, Index
<1>2. Mask(head + Depth) = tail
  BY DEF TypeOK, Depth, Ahead, Mask, Index
<1>3. UNCHANGED <<head, buffer, got>> /\ buffer[tail] = pitem
  BY DEF PushPublish, RingInv, consumerVars
<1>4. Contents' = Live(buffer, head, Depth')
  BY <1>3 DEF Contents, Live, Mask
<1>5. Contents' = Append(Contents, pitem)
  <2>1. Live(buffer, head, Depth') = Append(Live(buffer, head, Depth), buffer[Mask(head + Depth)])
    BY ONLY BufferType, TypeOK, <1>1, LiveAppend, ZenonT(30)
  <2> QED
    BY <2>1, <1>2, <1>3, <1>4, ContentsIsLive
<1>6. Len(Contents) < Capacity - 1
  <2>1. Len(Live(buffer, head, Depth)) = Depth
    BY ONLY BufferType, TypeOK, <1>1, LiveType, Zenon
  <2> QED
    BY <2>1, <1>1, ContentsIsLive
<1> QED
  BY <1>3, <1>5, <1>6 DEF Fifo!Push

LEMMA AdvanceRemoves == TypeOK /\ RingInv /\ PopAdvance => Fifo!Pop
<1> SUFFICES ASSUME TypeOK, RingInv, PopAdvance PROVE Fifo!Pop
  OBVIOUS
<1> USE CapacityAssumption
<1>1. Depth \in Index /\ Depth' \in Index /\ Depth = Depth' + 1
  BY DEF TypeOK, RingInv, PopAdvance, producerVars, Depth, Ahead, Mask, Index
<1>2. head' \in Index /\ head' = Mask(head + 1)
  BY DEF TypeOK, PopAdvance, Mask, Index
<1>3. UNCHANGED buffer /\ got' = buffer[head]
  BY DEF PopAdvance, RingInv
<1>4. Contents' = Live(buffer, head', Depth')
  BY <1>3 DEF Contents, Live, Mask
<1>5. buffer \in [Index -> Value] /\ head \in Index
  BY BufferType
<1>6. Contents # <<>> /\ Head(Contents) = buffer[head] /\ Tail(Contents) = Contents'
  <2>1. PICK d \in Index : d = Depth
    BY <1>1, Zenon
  <2>2. PICK e \in Index : e = Depth' /\ d = e + 1
    BY <1>1, <2>1, Zenon
  <2>3. Live(buffer, head, d) # <<>>
    BY <2>2, <1>5, LiveTail
  <2>4. Head(Live(buffer, head, d)) = buffer[head]
    BY <2>2, <1>5, LiveTail
  <2>5. Tail(Live(buffer, head, d)) = Live(buffer, Mask(head + 1), e)
    BY <2>2, <1>5, LiveTail
  <2> QED
    BY <2>1, <2>2, <2>3, <2>4, <2>5, <1>2, <1>4, ContentsIsLive, Zenon
<1> QED
  BY <1>3, <1>6 DEF Fifo!Pop

LEMMA WriteHidden == TypeOK /\ RingInv /\ PushWrite => UNCHANGED <<Contents, got>>
<1> SUFFICES ASSUME TypeOK, RingInv, PushWrite PROVE UNCHANGED <<Contents, got>>
  OBVIOUS
<1>1. UNCHANGED <<head, tail, got>> /\ buffer' = [buffer EXCEPT ![tail] = pitem]
  BY DEF PushWrite, consumerVars
<1>2. Depth' = Depth /\ Depth \in Index
  BY <1>1, CapacityAssumption DEF TypeOK, Depth, Ahead, Mask, Index
<1>3. ASSUME NEW k \in 1 .. Depth
      PROVE  Mask(head + k - 1) \in Index /\ Mask(head + k - 1) # tail
  BY CapacityAssumption DEF TypeOK, Depth, Ahead, Mask, Index
<1>4. ASSUME NEW k \in 1 .. Depth
      PROVE  buffer'[Mask(head + k - 1)] = buffer[Mask(head + k - 1)]
  BY <1>1, <1>3 DEF TypeOK
<1>5. Contents' = [k \in 1 .. Depth |-> buffer'[Mask(head + k - 1)]]
  BY <1>1, <1>2 DEF Contents, Mask
<1> QED
  BY <1>1, <1>4, <1>5, Zenon DEF Contents

(***************************************************************************)
(* The ring implements the FIFO: every behaviour of push() and pop() on    *)
(* two threads, with arbitrarily stale cached indices, is a behaviour of a *)
(* queue of Capacity - 1 items on which each operation is one step.        *)
(***************************************************************************)
THEOREM RingImplementsFifo == Spec => ImplementsFifo
<1>1. Init => Fifo!Init
  <2> SUFFICES ASSUME Init PROVE Fifo!Init
    OBVIOUS
  <2>1. Depth = 0
    BY CapacityAssumption DEF Init, Depth, Ahead, Mask
  <2>2. Contents = <<>>
    BY <2>1 DEF Contents
  <2> QED
    BY <2>2 DEF Init, Fifo!Init
<1>2. TypeOK /\ RingInv /\ [Next]_vars => [Fifo!Next]_(Fifo!fifoVars)
  <2> SUFFICES ASSUME TypeOK, RingInv, [Next]_vars
               PROVE  Fifo!Next \/ UNCHANGED <<Contents, got>>
    BY DEF Fifo!fifoVars
  <2>1. CASE PushPublish
    <3>1. pitem \in Items
      BY <2>1 DEF PushPublish, RingInv
    <3> QED
      BY <2>1, <3>1, PublishAppends DEF Fifo!Next
  <2>2. CASE PopAdvance
    BY <2>2, AdvanceRemoves DEF Fifo!Next
  <2>3. CASE PushWrite
    BY <2>3, WriteHidden
  <2>4. CASE UNCHANGED <<buffer, head, tail, got>>
    BY <2>4 DEF Contents, Depth, Ahead, Mask
  <2>5. ASSUME NEW item \in Items, PushCall(item) PROVE UNCHANGED <<buffer, head, tail, got>>
    BY <2>5 DEF PushCall, consumerVars
  <2>6. PushRefresh => UNCHANGED <<buffer, head, tail, got>>
    BY DEF PushRefresh, consumerVars
  <2>7. PopCall \/ PopRefresh \/ PopRead => UNCHANGED <<buffer, head, tail, got>>
    BY DEF PopCall, PopRefresh, PopRead, producerVars
  <2>8. UNCHANGED vars => UNCHANGED <<buffer, head, tail, got>>
    BY DEF vars, producerVars, consumerVars
  <2> QED
    BY <2>1, <2>2, <2>3, <2>4, <2>5, <2>6, <2>7, <2>8 DEF Next, Push, Pop
<1> QED
  BY <1>1, <1>2, TypeCorrect, RingInvariant, PTL DEF Spec, ImplementsFifo, Fifo!Spec

-----------------------------------------------------------------------------
(* The ring of the firm.                                                   *)

LEMMA FirmSizes ==
  N \in Nat \ {0} /\ Word \in Nat /\ Word > N /\ Word % N = 0
  BY FirmRingSizes DEF Firm!RingAssumption

-----------------------------------------------------------------------------
(* Masking.  Two indices less than n apart have different slots, on either *)
(* side of the wrap, because n divides the word.                           *)

LEMMA NoMultiple ==
  ASSUME NEW n \in Nat \ {0}, NEW k \in Int, NEW d \in Int, 0 < d, d < n
  PROVE  n * k # d
<1>1. CASE k <= 0
  <2>1. n * k <= 0 BY <1>1
  <2> QED BY <2>1
<1>2. CASE k >= 1
  <2>1. n * k >= n BY <1>2
  <2> QED BY <2>1
<1> QED
  BY <1>1, <1>2

LEMMA DistinctSlots ==
  ASSUME NEW n \in Nat \ {0}, NEW w \in Nat, w % n = 0,
         NEW i \in Nat, NEW j \in Nat, NEW d \in Int, 0 < d, d < n,
         j = i + d \/ j = i + d - w
  PROVE  i % n # j % n
<1> SUFFICES ASSUME i % n = j % n PROVE FALSE
  OBVIOUS
<1>1. PICK p \in Int : i = n * p + (i % n)
  <2>1. i \div n \in Int /\ i = n * (i \div n) + (i % n) OBVIOUS
  <2> QED BY <2>1, Zenon
<1>2. PICK q \in Int : j = n * q + (j % n)
  <2>1. j \div n \in Int /\ j = n * (j \div n) + (j % n) OBVIOUS
  <2> QED BY <2>1, Zenon
<1>3. PICK r \in Int : w = n * r
  <2>1. w \div n \in Int /\ w = n * (w \div n) + (w % n) OBVIOUS
  <2>2. w = n * (w \div n) BY <2>1
  <2> QED BY <2>1, <2>2, Zenon
<1>m. i % n \in Int
  OBVIOUS
<1>4. CASE j = i + d
  <2>1. n * (q - p) = d
    <3>1. n * q - n * p = d BY <1>1, <1>2, <1>4, <1>m
    <3> QED BY <3>1
  <2>2. q - p \in Int OBVIOUS
  <2> QED BY <2>1, <2>2, NoMultiple
<1>5. CASE j = i + d - w
  <2>1. n * (q - p + r) = d
    <3>1. n * q - n * p + n * r = d BY <1>1, <1>2, <1>3, <1>5, <1>m
    <3> QED BY <3>1
  <2>2. q - p + r \in Int OBVIOUS
  <2> QED BY <2>1, <2>2, NoMultiple
<1> QED
  BY <1>4, <1>5

-----------------------------------------------------------------------------
(* Unsigned differences.                                                   *)

LEMMA MinusType ==
  ASSUME NEW i \in Firm!Index, NEW j \in Firm!Index
  PROVE  /\ Firm!Minus(i, j) \in Nat /\ Firm!Minus(i, j) < Word /\ (Firm!Minus(i, j) = 0 <=> i = j)
         /\ i \in Nat /\ Firm!Slot(i) \in 0 .. N - 1
<1>1. N \in Nat \ {0} /\ Word \in Nat /\ i \in Nat /\ j \in Nat
  BY FirmSizes DEF Firm!Index
<1>2. Firm!Slot(i) \in 0 .. N - 1
  BY <1>1 DEF Firm!Slot
<1> QED
  BY <1>1, <1>2, FirmSizes DEF Firm!Index, Firm!Minus, Firm!Wrap

\* A load of an index that the other thread moved on from a towards b.
LEMMA Load ==
  ASSUME NEW x \in Firm!Index, NEW y \in Firm!Index, NEW c \in Firm!Index,
         NEW s \in Firm!Between(x, y), Firm!Minus(y, x) + Firm!Minus(c, y) = Firm!Minus(c, x)
  PROVE  /\ s \in Firm!Index /\ Firm!Minus(y, s) + Firm!Minus(c, y) = Firm!Minus(c, s) /\ Firm!Minus(c, s) <= Firm!Minus(c, x)
  BY FirmSizes DEF Firm!Between, Firm!Index, Firm!Minus, Firm!Wrap

LEMMA LoadTail ==
  ASSUME NEW h \in Firm!Index, NEW x \in Firm!Index, NEW y \in Firm!Index,
         NEW s \in Firm!Between(x, y), Firm!Minus(x, h) <= Firm!Minus(y, h)
  PROVE  s \in Firm!Index /\ Firm!Minus(s, h) <= Firm!Minus(y, h)
  BY FirmSizes DEF Firm!Between, Firm!Index, Firm!Minus, Firm!Wrap

\* An index that is stored one further.
LEMMA Bump ==
  ASSUME NEW i \in Firm!Index
  PROVE  /\ Firm!Wrap(i + 1) \in Firm!Index
         /\ \A x \in Firm!Index :
              /\ Firm!Minus(i, x) < Word - 1 => Firm!Minus(Firm!Wrap(i + 1), x) = Firm!Minus(i, x) + 1
              /\ x # i => Firm!Minus(x, Firm!Wrap(i + 1)) = Firm!Minus(x, i) - 1
<1>1. Firm!Wrap(i + 1) \in Firm!Index
  BY FirmSizes DEF Firm!Index, Firm!Wrap
<1>2. ASSUME NEW x \in Firm!Index, Firm!Minus(i, x) < Word - 1 PROVE Firm!Minus(Firm!Wrap(i + 1), x) = Firm!Minus(i, x) + 1
  BY <1>2, FirmSizes DEF Firm!Index, Firm!Minus, Firm!Wrap
<1>3. ASSUME NEW x \in Firm!Index, x # i PROVE Firm!Minus(x, Firm!Wrap(i + 1)) = Firm!Minus(x, i) - 1
  BY <1>3, FirmSizes DEF Firm!Index, Firm!Minus, Firm!Wrap
<1> QED
  BY <1>1, <1>2, <1>3

\* The k-th live entry is not where the producer writes.
LEMMA LiveSlots ==
  ASSUME NEW h \in Firm!Index, NEW t \in Firm!Index, Firm!Minus(t, h) < N, NEW k \in 1 .. Firm!Minus(t, h)
  PROVE  /\ Firm!Wrap(h + k - 1) \in Firm!Index /\ Firm!Slot(Firm!Wrap(h + k - 1)) \in 0 .. N - 1
         /\ Firm!Slot(Firm!Wrap(h + k - 1)) # Firm!Slot(t)
<1> DEFINE i == Firm!Wrap(h + k - 1)
           d == Firm!Minus(t, h) - k + 1
<1>1. Firm!Minus(t, h) \in Nat /\ N \in Nat \ {0} /\ Word \in Nat /\ Word > N
  BY MinusType, FirmSizes
<1>2. i \in Firm!Index /\ d \in Int /\ 0 < d /\ d < N /\ (t = i + d \/ t = i + d - Word)
  BY <1>1 DEF Firm!Index, Firm!Minus, Firm!Wrap
<1>3. i \in Nat /\ t \in Nat
  BY <1>1, <1>2 DEF Firm!Index
<1> HIDE DEF i, d
<1>4. i % N # t % N
  BY <1>1, <1>2, <1>3, FirmSizes, DistinctSlots, Zenon
<1>5. Firm!Slot(i) \in 0 .. N - 1
  BY <1>2, MinusType
<1> QED
  BY <1>2, <1>4, <1>5 DEF i, Firm!Slot

-----------------------------------------------------------------------------
(* The invariant.                                                          *)

LEMMA FirmRingInvInit == ASSUME Firm!Init PROVE Firm!FirmRingInv
<1>1. 0 \in Firm!Index /\ Firm!Minus(0, 0) = 0
  BY FirmSizes DEF Firm!Index, Firm!Minus, Firm!Wrap
<1> QED
  BY <1>1, FirmSizes DEF Firm!Init, Firm!FirmRingInv

LEMMA FirmRingInvStep == ASSUME Firm!FirmRingInv, [Firm!Next]_(Firm!vars) PROVE Firm!FirmRingInv'
<1>1. /\ f_head \in Firm!Index /\ f_tail \in Firm!Index /\ seen_head \in Firm!Index /\ seen_tail \in Firm!Index
      /\ entries \in [0 .. N - 1 -> Items \cup {NoItem}]
  BY DEF Firm!FirmRingInv
<1>2. /\ Firm!Minus(f_tail, f_head) \in Nat /\ Firm!Minus(f_tail, seen_head) \in Nat /\ Firm!Minus(f_head, seen_head) \in Nat
      /\ Firm!Minus(seen_tail, f_head) \in Nat /\ N \in Nat \ {0} /\ Word \in Nat /\ Word > N
  BY <1>1, MinusType, FirmSizes
<1>3. /\ Firm!Minus(f_head, seen_head) + Firm!Minus(f_tail, f_head) = Firm!Minus(f_tail, seen_head)
      /\ Firm!Minus(f_tail, seen_head) <= N
      /\ Firm!Minus(seen_tail, f_head) <= Firm!Minus(f_tail, f_head)
  BY DEF Firm!FirmRingInv
<1> USE DEF Firm!producer, Firm!consumer
<1>4. ASSUME NEW item \in Items, Firm!EnqueueTest(item) PROVE Firm!FirmRingInv'
  <2>1. /\ seen_head' \in Firm!Between(seen_head, f_head) /\ eitem' = item
        /\ epc' = (IF Firm!Full(seen_head') THEN "idle" ELSE "write")
        /\ UNCHANGED <<f_tail, entries, dpc, ditem, seen_tail, f_head, f_got>>
    BY <1>4 DEF Firm!EnqueueTest
  <2>2. /\ seen_head' \in Firm!Index /\ Firm!Minus(f_head, seen_head') + Firm!Minus(f_tail, f_head) = Firm!Minus(f_tail, seen_head')
        /\ Firm!Minus(f_tail, seen_head') <= Firm!Minus(f_tail, seen_head)
    BY <1>1, <1>3, <2>1, Load
  <2>3. Firm!Minus(f_tail, seen_head') \in Nat
    BY <1>1, <2>2, MinusType
  <2>4. Firm!Minus(f_tail, seen_head') <= N
    BY <1>2, <1>3, <2>2, <2>3
  <2> QED BY <2>1, <2>2, <2>4 DEF Firm!FirmRingInv, Firm!Full
<1>5. CASE Firm!EnqueueWrite
  <2>1. /\ epc = "write" /\ epc' = "publish" /\ entries' = [entries EXCEPT ![Firm!Slot(f_tail)] = eitem]
        /\ UNCHANGED <<eitem, seen_head, f_tail, dpc, ditem, seen_tail, f_head, f_got>>
    BY <1>5 DEF Firm!EnqueueWrite
  <2>2. Firm!Slot(f_tail) \in 0 .. N - 1 /\ Firm!Slot(f_head) \in 0 .. N - 1
    BY <1>1, MinusType
  <2>3. eitem \in Items /\ entries' \in [0 .. N - 1 -> Items \cup {NoItem}] /\ entries'[Firm!Slot(f_tail)] = eitem
    BY <1>1, <2>1, <2>2 DEF Firm!FirmRingInv
  <2>4. ASSUME dpc = "advance" PROVE entries'[Firm!Slot(f_head)] = entries[Firm!Slot(f_head)]
    <3>1. f_head # seen_tail /\ Firm!Minus(f_tail, seen_head) < N
      BY <1>2, <2>1, <2>4 DEF Firm!FirmRingInv, Firm!Full
    <3>2. Firm!Minus(seen_tail, f_head) # 0
      BY <1>1, <3>1, MinusType
    <3>3. Firm!Minus(f_tail, f_head) < N /\ 1 \in 1 .. Firm!Minus(f_tail, f_head)
      BY <1>2, <1>3, <3>1, <3>2
    <3>4. Firm!Wrap(f_head + 1 - 1) = f_head
      BY <1>1, <1>2 DEF Firm!Wrap, Firm!Index
    <3>5. Firm!Slot(f_head) # Firm!Slot(f_tail)
      BY <1>1, <3>3, <3>4, LiveSlots, SMTT(30)
    <3> QED BY <1>1, <2>1, <2>2, <3>5
  <2> QED BY <2>1, <2>3, <2>4 DEF Firm!FirmRingInv, Firm!Full
<1>6. CASE Firm!EnqueuePublish
  <2>1. /\ epc = "publish" /\ epc' = "idle" /\ f_tail' = Firm!Wrap(f_tail + 1)
        /\ UNCHANGED <<eitem, seen_head, entries, dpc, ditem, seen_tail, f_head, f_got>>
    BY <1>6 DEF Firm!EnqueuePublish
  <2>2. Firm!Minus(f_tail, seen_head) < N
    BY <1>2, <2>1 DEF Firm!FirmRingInv, Firm!Full
  <2>3. Firm!Minus(f_tail, f_head) < Word - 1 /\ Firm!Minus(f_tail, seen_head) < Word - 1
    BY <1>2, <1>3, <2>2
  <2>4. /\ f_tail' \in Firm!Index /\ Firm!Minus(f_tail', f_head) = Firm!Minus(f_tail, f_head) + 1
        /\ Firm!Minus(f_tail', seen_head) = Firm!Minus(f_tail, seen_head) + 1
    BY <1>1, <2>1, <2>3, Bump
  <2>5. /\ Firm!Minus(f_head, seen_head) + Firm!Minus(f_tail', f_head) = Firm!Minus(f_tail', seen_head)
        /\ Firm!Minus(f_tail', seen_head) <= N /\ Firm!Minus(seen_tail, f_head) <= Firm!Minus(f_tail', f_head)
    BY <1>2, <1>3, <2>2, <2>4
  <2> QED BY <2>1, <2>4, <2>5 DEF Firm!FirmRingInv
<1>7. CASE Firm!DequeueTest
  <2>1. /\ seen_tail' \in Firm!Between(seen_tail, f_tail)
        /\ dpc' = (IF f_head = seen_tail' THEN "idle" ELSE "read")
        /\ UNCHANGED <<ditem, f_head, f_got, entries, epc, eitem, seen_head, f_tail>>
    BY <1>7 DEF Firm!DequeueTest
  <2>2. seen_tail' \in Firm!Index /\ Firm!Minus(seen_tail', f_head) <= Firm!Minus(f_tail, f_head)
    BY <1>1, <1>3, <2>1, LoadTail
  <2> QED BY <2>1, <2>2 DEF Firm!FirmRingInv, Firm!Full
<1>8. CASE Firm!DequeueRead
  <2>1. /\ dpc = "read" /\ dpc' = "advance" /\ ditem' = entries[Firm!Slot(f_head)]
        /\ UNCHANGED <<seen_tail, f_head, f_got, entries, epc, eitem, seen_head, f_tail>>
    BY <1>8 DEF Firm!DequeueRead
  <2>2. ditem' \in Items \cup {NoItem}
    BY <1>1, <2>1, MinusType
  <2> QED BY <2>1, <2>2 DEF Firm!FirmRingInv, Firm!Full
<1>9. CASE Firm!DequeueAdvance
  <2>1. /\ dpc = "advance" /\ dpc' = "idle" /\ f_head' = Firm!Wrap(f_head + 1) /\ f_got' = ditem
        /\ UNCHANGED <<ditem, seen_tail, entries, epc, eitem, seen_head, f_tail>>
    BY <1>9 DEF Firm!DequeueAdvance
  <2>2. f_head # seen_tail
    BY <2>1 DEF Firm!FirmRingInv
  <2>3. Firm!Minus(seen_tail, f_head) # 0
    BY <1>1, <2>2, MinusType
  <2>4. Firm!Minus(f_tail, f_head) # 0 /\ Firm!Minus(f_head, seen_head) < Word - 1
    BY <1>2, <1>3, <2>3
  <2>5. f_tail # f_head
    BY <1>1, <2>4, MinusType
  <2>6. /\ f_head' \in Firm!Index /\ Firm!Minus(f_head', seen_head) = Firm!Minus(f_head, seen_head) + 1
        /\ Firm!Minus(f_tail, f_head') = Firm!Minus(f_tail, f_head) - 1 /\ Firm!Minus(seen_tail, f_head') = Firm!Minus(seen_tail, f_head) - 1
    BY <1>1, <2>1, <2>2, <2>4, <2>5, Bump
  <2>7. /\ Firm!Minus(f_head', seen_head) + Firm!Minus(f_tail, f_head') = Firm!Minus(f_tail, seen_head)
        /\ Firm!Minus(seen_tail, f_head') <= Firm!Minus(f_tail, f_head')
    BY <1>2, <1>3, <2>6
  <2> QED BY <2>1, <2>6, <2>7 DEF Firm!FirmRingInv, Firm!Full
<1>10. CASE UNCHANGED Firm!vars
  BY <1>10 DEF Firm!vars, Firm!FirmRingInv, Firm!Full
<1> QED
  BY <1>4, <1>5, <1>6, <1>7, <1>8, <1>9, <1>10 DEF Firm!Next, Firm!enqueue, Firm!dequeue

-----------------------------------------------------------------------------
(* The refinement.  Live(e, h, d): the d entries from index h on.          *)

Entries == [0 .. N - 1 -> Value]
FirmLive(e, h, d) == [k \in 1 .. d |-> e[Firm!Slot(Firm!Wrap(h + k - 1))]]

LEMMA FirmLiveType ==
  ASSUME NEW e \in Entries, NEW h \in Firm!Index, NEW d \in Nat, d <= N
  PROVE  /\ FirmLive(e, h, d) \in Seq(Value) /\ Len(FirmLive(e, h, d)) = d
         /\ \A k \in 1 .. d : FirmLive(e, h, d)[k] = e[Firm!Slot(Firm!Wrap(h + k - 1))]
<1>1. ASSUME NEW k \in 1 .. d PROVE e[Firm!Slot(Firm!Wrap(h + k - 1))] \in Value
  <2>1. Firm!Wrap(h + k - 1) \in Firm!Index
    BY FirmSizes DEF Firm!Index, Firm!Wrap
  <2>2. Firm!Slot(Firm!Wrap(h + k - 1)) \in 0 .. N - 1
    BY <2>1, MinusType
  <2> QED BY <2>2 DEF Entries
<1>2. FirmLive(e, h, d) \in [1 .. d -> Value]
  BY <1>1 DEF FirmLive
<1> QED
  BY <1>2 DEF FirmLive

LEMMA FirmLiveAppend ==
  ASSUME NEW e \in Entries, NEW h \in Firm!Index, NEW t \in Firm!Index,
         NEW d \in Nat, d < N, d = Firm!Minus(t, h)
  PROVE  FirmLive(e, h, d + 1) = Append(FirmLive(e, h, d), e[Firm!Slot(t)])
<1> DEFINE l == FirmLive(e, h, d)
           m == FirmLive(e, h, d + 1)
           x == e[Firm!Slot(t)]
<1>0. N \in Nat /\ d + 1 \in Nat /\ d + 1 <= N
  BY FirmSizes
<1>1. l \in Seq(Value) /\ Len(l) = d /\ \A k \in 1 .. d : l[k] = e[Firm!Slot(Firm!Wrap(h + k - 1))]
  BY <1>0, FirmLiveType
<1>2. m \in Seq(Value) /\ Len(m) = d + 1 /\ \A k \in 1 .. d + 1 : m[k] = e[Firm!Slot(Firm!Wrap(h + k - 1))]
  BY <1>0, FirmLiveType, Zenon
<1>3. Firm!Wrap(h + (d + 1) - 1) = t
  BY FirmSizes DEF Firm!Index, Firm!Minus, Firm!Wrap
<1>4. x \in Value
  BY MinusType DEF Entries
<1>5. m[d + 1] = x
  BY <1>2, <1>3
<1> HIDE DEF l, m, x
<1>6. /\ Append(l, x) \in Seq(Value) /\ Len(Append(l, x)) = d + 1
      /\ \A k \in 1 .. d : Append(l, x)[k] = l[k]
      /\ Append(l, x)[d + 1] = x
  BY <1>1, <1>4
<1>7. ASSUME NEW k \in 1 .. d + 1 PROVE m[k] = Append(l, x)[k]
  <2>1. k \in 1 .. d \/ k = d + 1
    OBVIOUS
  <2> QED BY <2>1, <1>1, <1>2, <1>5, <1>6, Zenon
<1>8. m = Append(l, x)
  BY <1>2, <1>6, <1>7, SeqEqual
<1> QED
  BY <1>8 DEF l, m, x

LEMMA FirmLiveTail ==
  ASSUME NEW e \in Entries, NEW h \in Firm!Index, NEW d \in Nat, d + 1 <= N
  PROVE  /\ FirmLive(e, h, d + 1) # <<>>
         /\ Head(FirmLive(e, h, d + 1)) = e[Firm!Slot(h)]
         /\ Tail(FirmLive(e, h, d + 1)) = FirmLive(e, Firm!Wrap(h + 1), d)
<1>g. PICK g \in Firm!Index : g = Firm!Wrap(h + 1)
  BY Bump
<1> DEFINE l == FirmLive(e, h, d + 1)
           m == FirmLive(e, g, d)
<1>0. N \in Nat /\ d + 1 \in Nat /\ d <= N
  BY FirmSizes
<1>1. l \in Seq(Value) /\ Len(l) = d + 1 /\ \A k \in 1 .. d + 1 : l[k] = e[Firm!Slot(Firm!Wrap(h + k - 1))]
  BY <1>0, FirmLiveType
<1>2. m \in Seq(Value) /\ Len(m) = d /\ \A k \in 1 .. d : m[k] = e[Firm!Slot(Firm!Wrap(g + k - 1))]
  BY <1>0, FirmLiveType
<1> HIDE DEF l, m
<1>3. l # <<>>
  BY <1>1
<1>4. Head(l) = e[Firm!Slot(h)]
  <2>1. Firm!Wrap(h + 1 - 1) = h
    BY FirmSizes DEF Firm!Wrap, Firm!Index
  <2> QED BY <1>1, <1>3, <2>1
<1>5. /\ Tail(l) \in Seq(Value) /\ Len(Tail(l)) = d
      /\ \A k \in 1 .. d : Tail(l)[k] = l[k + 1]
  BY <1>1, <1>3, HeadTailProperties
<1>6. ASSUME NEW k \in 1 .. d PROVE Tail(l)[k] = m[k]
  <2>1. k + 1 \in 1 .. d + 1 /\ Firm!Wrap(h + (k + 1) - 1) = Firm!Wrap(g + k - 1)
    BY <1>g, <1>0, FirmSizes DEF Firm!Wrap, Firm!Index
  <2> QED BY <1>1, <1>2, <1>5, <2>1, Zenon
<1>7. Tail(l) = m
  BY <1>2, <1>5, <1>6, SeqEqual
<1> QED
  BY <1>g, <1>3, <1>4, <1>7 DEF l, m

LEMMA FirmFifoStep ==
  ASSUME Firm!FirmRingInv, [Firm!Next]_(Firm!vars)
  PROVE  (\E item \in Items : Firm!Fifo!Push(item)) \/ Firm!Fifo!Pop \/ UNCHANGED <<Firm!Contents, f_got>>
<1> DEFINE d == Firm!Minus(f_tail, f_head)
<1>1. /\ f_head \in Firm!Index /\ f_tail \in Firm!Index /\ seen_head \in Firm!Index /\ seen_tail \in Firm!Index /\ entries \in Entries
      /\ d <= Firm!Minus(f_tail, seen_head) /\ d \in Nat /\ N \in Nat \ {0} /\ d <= N
  <2>1. f_head \in Firm!Index /\ f_tail \in Firm!Index /\ seen_head \in Firm!Index /\ seen_tail \in Firm!Index /\ entries \in Entries
    BY DEF Firm!FirmRingInv, Entries, Value
  <2>2. d \in Nat /\ Firm!Minus(f_head, seen_head) \in Nat /\ N \in Nat \ {0} /\ Firm!Minus(f_tail, seen_head) \in Nat
    BY <2>1, MinusType, FirmSizes
  <2>3. d <= Firm!Minus(f_tail, seen_head) /\ d <= N
    BY <2>2 DEF Firm!FirmRingInv
  <2> QED BY <2>1, <2>2, <2>3
<1>c. Firm!Contents = FirmLive(entries, f_head, d)
  BY DEF Firm!Contents, FirmLive
<1>e. epc # "idle" => d < N
  <2>1. Firm!Minus(f_tail, seen_head) \in Nat
    BY <1>1, MinusType
  <2>2. ~Firm!Full(seen_head) => Firm!Minus(f_tail, seen_head) < N
    BY <1>1, <2>1 DEF Firm!Full
  <2>3. epc # "idle" => ~Firm!Full(seen_head)
    BY DEF Firm!FirmRingInv
  <2> HIDE DEF d
  <2> QED BY <1>1, <2>1, <2>2, <2>3
<1> USE DEF Firm!producer, Firm!consumer
<1> HIDE DEF d
<1>2. CASE Firm!EnqueuePublish
  <2>1. /\ epc = "publish" /\ f_tail' = Firm!Wrap(f_tail + 1) /\ UNCHANGED <<f_head, entries, f_got>>
        /\ eitem \in Items /\ entries[Firm!Slot(f_tail)] = eitem
    BY <1>2 DEF Firm!EnqueuePublish, Firm!FirmRingInv
  <2>2. d < N /\ d < Word - 1
    BY <1>1, <1>e, <2>1, FirmSizes
  <2>3. Firm!Minus(f_tail', f_head) = d + 1
    BY <1>1, <2>1, <2>2, Bump DEF d
  <2>4. Firm!Contents' = FirmLive(entries, f_head, d + 1)
    BY <2>1, <2>3 DEF Firm!Contents, FirmLive
  <2>5. Firm!Contents' = Append(Firm!Contents, eitem)
    BY <1>1, <1>c, <2>1, <2>2, <2>4, FirmLiveAppend, SMTT(30) DEF d
  <2>6. Len(Firm!Contents) < N
    BY <1>1, <1>c, <2>2, FirmLiveType, Zenon
  <2>7. Firm!Fifo!Push(eitem)
    BY <2>1, <2>5, <2>6 DEF Firm!Fifo!Push
  <2> QED BY <2>1, <2>7
<1>3. CASE Firm!DequeueAdvance
  <2>1. /\ dpc = "advance" /\ f_head' = Firm!Wrap(f_head + 1) /\ f_got' = ditem /\ UNCHANGED <<f_tail, entries>>
        /\ ditem = entries[Firm!Slot(f_head)] /\ f_head # seen_tail /\ Firm!Minus(seen_tail, f_head) <= d
    BY <1>3 DEF Firm!DequeueAdvance, Firm!FirmRingInv, d
  <2>2. Firm!Minus(seen_tail, f_head) \in Nat \ {0}
    BY <1>1, <2>1, MinusType
  <2>3. PICK c \in Nat : d = c + 1
    <3>1. d - 1 \in Nat /\ d = (d - 1) + 1 BY <1>1, <2>1, <2>2
    <3> QED BY <3>1
  <2>4. f_tail # f_head
    BY <1>1, <2>3, MinusType DEF d
  <2>5. Firm!Minus(f_tail, f_head') = c
    <3>1. Firm!Minus(f_tail, f_head') = d - 1 BY <1>1, <2>1, <2>4, Bump DEF d
    <3> QED BY <2>3, <3>1
  <2>6. Firm!Contents' = FirmLive(entries, Firm!Wrap(f_head + 1), c)
    BY <2>1, <2>5 DEF Firm!Contents, FirmLive
  <2>7. c + 1 <= N
    BY <1>1, <2>3
  <2>8. Firm!Contents # <<>> /\ Head(Firm!Contents) = entries[Firm!Slot(f_head)] /\ Tail(Firm!Contents) = Firm!Contents'
    BY <1>1, <1>c, <2>3, <2>6, <2>7, FirmLiveTail
  <2> QED BY <2>1, <2>8 DEF Firm!Fifo!Pop
<1>4. CASE Firm!EnqueueWrite
  <2>1. epc = "write" /\ entries' = [entries EXCEPT ![Firm!Slot(f_tail)] = eitem] /\ UNCHANGED <<f_head, f_tail, f_got>>
    BY <1>4 DEF Firm!EnqueueWrite
  <2>2. d < N
    BY <1>e, <2>1
  <2>3. ASSUME NEW k \in 1 .. d PROVE entries'[Firm!Slot(Firm!Wrap(f_head + k - 1))] = entries[Firm!Slot(Firm!Wrap(f_head + k - 1))]
    <3>1. Firm!Slot(Firm!Wrap(f_head + k - 1)) \in 0 .. N - 1 /\ Firm!Slot(Firm!Wrap(f_head + k - 1)) # Firm!Slot(f_tail)
      BY <1>1, <2>2, LiveSlots DEF d
    <3> QED BY <1>1, <2>1, <3>1 DEF Entries
  <2>4. Firm!Contents' = [k \in 1 .. d |-> entries'[Firm!Slot(Firm!Wrap(f_head + k - 1))]]
    BY <2>1 DEF Firm!Contents, d
  <2>5. Firm!Contents = [k \in 1 .. d |-> entries[Firm!Slot(Firm!Wrap(f_head + k - 1))]]
    BY DEF Firm!Contents, d
  <2>6. Firm!Contents' = Firm!Contents
    BY <2>3, <2>4, <2>5, Zenon
  <2> QED BY <2>1, <2>6
<1>5. CASE \/ (\E item \in Items : Firm!EnqueueTest(item)) \/ Firm!DequeueTest \/ Firm!DequeueRead \/ UNCHANGED Firm!vars
  <2>1. UNCHANGED <<entries, f_head, f_tail, f_got>>
    BY <1>5 DEF Firm!EnqueueTest, Firm!DequeueTest, Firm!DequeueRead, Firm!vars
  <2> QED BY <2>1 DEF Firm!Contents
<1> QED
  BY <1>2, <1>3, <1>4, <1>5 DEF Firm!Next, Firm!enqueue, Firm!dequeue

(***************************************************************************)
(* enqueue() and dequeue() on two threads, each loading the other's index  *)
(* with any staleness, are a FIFO of N items, however often the indices    *)
(* wrap.                                                                   *)
(***************************************************************************)
THEOREM FirmRingImplementsFifo == Firm!Spec => FirmRingIsFifo
<1>1. Firm!Init => Firm!FirmRingInv /\ Firm!Fifo!Init
  <2> SUFFICES ASSUME Firm!Init PROVE Firm!FirmRingInv /\ Firm!Fifo!Init
    OBVIOUS
  <2>1. Firm!Minus(f_tail, f_head) = 0 /\ f_got = NoItem
    BY FirmSizes DEF Firm!Init, Firm!Minus, Firm!Wrap
  <2>2. Firm!Contents = <<>>
    BY <2>1 DEF Firm!Contents
  <2> QED BY <2>1, <2>2, FirmRingInvInit DEF Firm!Fifo!Init
<1>2. Firm!FirmRingInv /\ [Firm!Next]_(Firm!vars) => Firm!FirmRingInv'
  BY FirmRingInvStep
<1>3. Firm!FirmRingInv /\ [Firm!Next]_(Firm!vars) => [Firm!Fifo!Next]_(Firm!Fifo!fifoVars)
  BY FirmFifoStep DEF Firm!Fifo!Next, Firm!Fifo!fifoVars
<1> QED
  BY <1>1, <1>2, <1>3, PTL DEF Firm!Spec, FirmRingIsFifo, Firm!FirmRingIsFifo, Firm!Fifo!Spec
=============================================================================
