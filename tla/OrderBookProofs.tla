-------------------------- MODULE OrderBookProofs --------------------------
(***************************************************************************)
(* Proofs about module OrderBook, for any number of slots, clients, prices *)
(* and shares: the parts of the book agree (BookInv), shares are conserved *)
(* and match_order() makes progress.  BookInv is inductive as it stands.   *)
(***************************************************************************)
EXTENDS OrderBook, WellFoundedInduction, TLAPS

-----------------------------------------------------------------------------
(* Facts about numbers and lists.                                          *)

\* Every set of naturals that is not empty has a least element.
LEMMA Least ==
    ASSUME NEW T, T \subseteq Nat, T # {}
    PROVE  \E x \in T : \A y \in T : x <= y
<1> DEFINE R == OpToRel(<, Nat)
<1>1. \A y, x \in Nat : <<y, x>> \in R <=> y < x
  BY DEF OpToRel
<1>2. IsWellFoundedOn(R, Nat)
  BY NatLessThanWellFounded, Zenon
<1> HIDE DEF R
<1>3. PICK x \in T : \A y \in T : ~ (<<y, x>> \in R)
  BY <1>2, WFMin, Zenon
<1>4. \A y \in T : x \in Nat /\ y \in Nat /\ ~ (y < x)
  BY <1>1, <1>3, Zenon
<1> QED
  BY <1>4

\* Quantities compare, prices are integers, a delete message has its type.
LEMMA Comparable == ASSUME NEW n \in 1 .. MaxQty, NEW k \in 1 .. MaxQty PROVE n >= k \/ n < k
BY MaxQtyAssumption

LEMMA NotZero == ASSUME NEW x, x > 0 PROVE x # 0
OBVIOUS

LEMMA Positive == ASSUME NEW qty \in 1 .. MaxQty PROVE 0 + qty = qty /\ qty # 0
BY MaxQtyAssumption

LEMMA HasPlace == ASSUME NEW l, NEW i \in 1 .. Len(l) PROVE l # <<>>
OBVIOUS

LEMMA PricesAreInts == Prices \subseteq Int /\ \A side \in Sides : Worst(side) \in Prices
BY MaxPriceAssumption DEF Worst, Prices

LEMMA DeleteMessage ==
    ASSUME NEW s \in Slots, NEW side \in Sides, NEW q \in Prices, NEW o \in Orders
    PROVE  <<Msg("X", s, side, q, o.qty)>> \in
              Seq([type : {"A", "E", "X"}, slot : Slots, side : Sides, price : Prices, qty : 0 .. MaxQty])
BY DEF Msg, Orders

\* The best of the marked prices exists: the scans have something to find.
LEMMA NearestIsBest ==
    ASSUME NEW side \in Sides, NEW marked \in SUBSET Prices, marked # {}
    PROVE  /\ Nearest(side, marked) \in marked
           /\ \A r \in marked : IF side = "B" THEN r <= Nearest(side, marked)
                                              ELSE Nearest(side, marked) <= r
<1> DEFINE Best(q) == \A r \in marked : IF side = "B" THEN r <= q ELSE q <= r
<1>1. marked \subseteq Nat /\ \A q \in marked : MAX_PRICE - q \in Nat
  BY MaxPriceAssumption DEF Prices
<1>2. CASE side = "B"
  <2> DEFINE far == {MAX_PRICE - q : q \in marked}
  <2>1. far \subseteq Nat /\ far # {}
    BY <1>1, Zenon
  <2>2. PICK x \in far : \A y \in far : x <= y
    BY <2>1, Least, Zenon
  <2>3. PICK q \in marked : x = MAX_PRICE - q
    BY <2>2
  <2>4. \A r \in marked : MAX_PRICE - q <= MAX_PRICE - r
    BY <2>2, <2>3
  <2>5. \A r \in marked : r <= q
    BY <2>4, <1>1, MaxPriceAssumption
  <2> QED
    BY <2>5, <1>2 DEF Nearest
<1>3. CASE side = "S"
  BY <1>1, <1>3, Least, Zenon DEF Nearest
<1> QED
  BY <1>2, <1>3 DEF Sides

LEMMA FindNext ==
    ASSUME NEW side \in Sides, NEW marked \in SUBSET Prices
    PROVE  /\ find_next(side, marked) = -1 <=> marked = {}
           /\ find_next(side, marked) # -1 =>
                 /\ find_next(side, marked) \in marked
                 /\ \A r \in marked : IF side = "B" THEN r <= find_next(side, marked)
                                                    ELSE find_next(side, marked) <= r
<1>1. -1 \notin marked
  BY MaxPriceAssumption DEF Prices
<1> QED
  BY <1>1, NearestIsBest DEF find_next

In(level, s) == \E i \in DOMAIN level : level[i] = s
Once(level) == \A i, j \in DOMAIN level : level[i] = level[j] => i = j

\* A list from which the entry at k is taken, the others closing up.
Without(level, k, short) ==
    /\ short \in Seq(Slots)
    /\ Len(short) = Len(level) - 1
    /\ \A j \in 1 .. Len(short) : short[j] = level[IF j < k THEN j ELSE j + 1]

LEMMA Unlinked ==
    ASSUME NEW level \in Seq(Slots), NEW k \in 1 .. Len(level), NEW short,
           Without(level, k, short), Once(level)
    PROVE  /\ Once(short)
           /\ \A s : In(short, s) <=> In(level, s) /\ s # level[k]
           /\ short = <<>> <=> Len(level) = 1
<1>1. /\ DOMAIN short = 1 .. Len(short) /\ Len(short) = Len(level) - 1
      /\ DOMAIN level = 1 .. Len(level) /\ Len(level) \in Nat
  BY DEF Without
<1>2. \A j \in 1 .. Len(short) : short[j] = level[IF j < k THEN j ELSE j + 1]
  BY DEF Without
<1>3. ASSUME NEW i \in 1 .. Len(short), NEW j \in 1 .. Len(short), short[i] = short[j]
      PROVE  i = j
  <2> DEFINE Up(n) == IF n < k THEN n ELSE n + 1
  <2>1. /\ Up(i) \in DOMAIN level /\ short[i] = level[Up(i)]
        /\ Up(j) \in DOMAIN level /\ short[j] = level[Up(j)]
    BY <1>1, <1>2
  <2>2. Up(i) = Up(j)
    BY <1>3, <2>1, Once(level), Zenon DEF Once
  <2> QED
    BY <2>2, <1>1
<1>4. ASSUME NEW s, In(short, s)
      PROVE  In(level, s) /\ s # level[k]
  <2>1. PICK j \in 1 .. Len(short) : short[j] = s
    BY <1>1, <1>4 DEF In
  <2> QED
    BY <1>1, <1>2, <2>1 DEF In, Once
<1>5. ASSUME NEW s, In(level, s), s # level[k]
      PROVE  In(short, s)
  <2>1. PICK i \in 1 .. Len(level) : level[i] = s
    BY <1>1, <1>5 DEF In
  <2>2. CASE i < k
    BY <1>1, <1>2, <2>1, <2>2 DEF In
  <2>3. CASE i > k
    <3>1. i - 1 \in 1 .. Len(short) /\ short[i - 1] = level[i]
      BY <1>1, <1>2, <2>1, <2>3
    <3> QED
      BY <1>1, <2>1, <3>1 DEF In
  <2> QED
    BY <1>5, <2>1, <2>2, <2>3
<1>6. short = <<>> <=> Len(level) = 1
  BY <1>1 DEF Without
<1> QED
  BY <1>1, <1>3, <1>4, <1>5, <1>6 DEF Once

\* Limit::remove at the head of the list.
LEMMA TailUnlinks ==
    ASSUME NEW level \in Seq(Slots), level # <<>>
    PROVE  /\ 1 \in 1 .. Len(level) /\ Head(level) = level[1]
           /\ Without(level, 1, Tail(level))
BY DEF Without

LEMMA Joined ==
    ASSUME NEW S, NEW a \in Seq(S), NEW b \in Seq(S)
    PROVE  /\ a \o b \in Seq(S) /\ Len(a \o b) = Len(a) + Len(b)
           /\ \A j \in 1 .. Len(a) + Len(b) :
                 (a \o b)[j] = IF j <= Len(a) THEN a[j] ELSE b[j - Len(a)]
OBVIOUS

\* Limit::remove anywhere.
LEMMA Removes ==
    ASSUME NEW S, NEW level \in Seq(S), NEW i \in 1 .. Len(level)
    PROVE  /\ remove(level, i) \in Seq(S) /\ Len(remove(level, i)) = Len(level) - 1
           /\ \A j \in 1 .. Len(level) - 1 : remove(level, i)[j] = level[IF j < i THEN j ELSE j + 1]
<1> DEFINE a == SubSeq(level, 1, i - 1)
           b == SubSeq(level, i + 1, Len(level))
<1>1. Len(level) \in Nat /\ \A j \in 1 .. Len(level) : level[j] \in S
  OBVIOUS
<1>2. /\ a \in Seq(S) /\ Len(a) = i - 1
      /\ \A j \in 1 .. i - 1 : a[j] = level[j]
  <2>1. \A j \in 1 .. i - 1 : level[j] \in S
    BY <1>1
  <2> QED
    BY <1>1, <2>1
<1>3. /\ b \in Seq(S) /\ Len(b) = Len(level) - i
      /\ \A j \in 1 .. Len(level) - i : b[j] = level[i + j]
  <2>1. \A j \in i + 1 .. Len(level) : level[j] \in S
    BY <1>1
  <2> QED
    BY <1>1, <2>1
<1> HIDE DEF a, b
<1>4. /\ a \o b \in Seq(S) /\ Len(a \o b) = Len(level) - 1
      /\ \A j \in 1 .. Len(level) - 1 : (a \o b)[j] = IF j < i THEN a[j] ELSE b[j - (i - 1)]
  <2>1. /\ a \o b \in Seq(S) /\ Len(a \o b) = Len(a) + Len(b)
        /\ \A j \in 1 .. Len(a) + Len(b) :
              (a \o b)[j] = IF j <= Len(a) THEN a[j] ELSE b[j - Len(a)]
    BY <1>2, <1>3, Joined, Zenon
  <2>2. Len(a) + Len(b) = Len(level) - 1 /\ \A j \in Int : j <= i - 1 <=> j < i
    BY <1>1, <1>2, <1>3
  <2> QED
    BY <1>2, <2>1, <2>2
<1>5. \A j \in 1 .. Len(level) - 1 : (a \o b)[j] = level[IF j < i THEN j ELSE j + 1]
  BY <1>1, <1>2, <1>3, <1>4
<1> QED
  BY <1>4, <1>5, Zenon DEF remove, a, b

LEMMA RemoveUnlinks ==
    ASSUME NEW level \in Seq(Slots), NEW i \in 1 .. Len(level)
    PROVE  Without(level, i, remove(level, i))
<1>1. /\ remove(level, i) \in Seq(Slots) /\ Len(remove(level, i)) = Len(level) - 1
      /\ \A j \in 1 .. Len(level) - 1 : remove(level, i)[j] = level[IF j < i THEN j ELSE j + 1]
  BY Removes, Zenon
<1> QED
  BY <1>1, Zenon DEF Without

\* Limit::add.
LEMMA AddLinks ==
    ASSUME NEW level \in Seq(Slots), NEW s \in Slots, Once(level), ~ In(level, s)
    PROVE  /\ add(level, s) \in Seq(Slots)
           /\ Once(add(level, s))
           /\ \A x : In(add(level, s), x) <=> In(level, x) \/ x = s
           /\ add(level, s) # <<>>
<1> DEFINE long == Append(level, s)
<1>1. /\ long \in Seq(Slots) /\ long # <<>> /\ Len(long) = Len(level) + 1
      /\ \A i \in 1 .. Len(level) : long[i] = level[i]
      /\ long[Len(level) + 1] = s
  OBVIOUS
<1>2. /\ DOMAIN long = 1 .. Len(level) + 1
      /\ DOMAIN level = 1 .. Len(level) /\ Len(level) \in Nat
  BY <1>1
<1> HIDE DEF long
<1>3. Once(long)
  BY <1>1, <1>2 DEF Once, In
<1>4. \A x : In(long, x) <=> In(level, x) \/ x = s
  BY <1>1, <1>2 DEF In
<1> QED
  BY <1>1, <1>3, <1>4 DEF add, long

-----------------------------------------------------------------------------
(* The invariant, with the lookup table stated by In and Once.             *)

Linked ==
    /\ \A side \in Sides, q \in Prices :
          /\ Once(levels[side][q])
          /\ \A s : In(levels[side][q], s) =>
                      s \in orders_by_id /\ order[s].side = side /\ order[s].price = q
    /\ \A s \in orders_by_id :
          /\ order[s] # NoOrder /\ order[s].qty > 0 /\ s # cur
          /\ In(levels[order[s].side][order[s].price], s)
    /\ \A s \in Slots \ (orders_by_id \cup {cur}) : order[s] = NoOrder

Sound ==
    /\ TypeOK
    /\ BitsExact
    /\ \A side \in Sides : NoneBetter(side, best[side])
    /\ CursorBound
    /\ Linked
    /\ NeverCrossed

LEMMA SoundIsBookInv == BookInv <=> Sound
<1>1. LookupExact <=> Linked
  BY DEF LookupExact, Linked, In, Once
<1> QED
  BY <1>1 DEF BookInv, Sound

\* The order in match_order().
LEMMA IncomingFacts ==
    ASSUME Sound, cur # NoSlot
    PROVE  /\ cur \in Slots /\ cur \notin orders_by_id /\ Incoming \in Orders
           /\ Incoming.side \in Sides /\ Incoming.price \in Prices /\ Incoming.qty \in 0 .. MaxQty
           /\ Incoming.client \in Clients /\ Incoming.asked \in 1 .. MaxQty
           /\ Opposite \in Sides /\ Opposite # Incoming.side
<1>1. cur \in Slots /\ cur \notin orders_by_id /\ Incoming \in Orders
  BY DEF Sound, TypeOK, Linked, Incoming
<1> QED
  BY <1>1 DEF Orders, Opposite, Other, Sides

\* The resting order at the head of the level the cursor is on.
AtHead(r) == r = Head(levels[Opposite][p])

LEMMA HeadFacts ==
    ASSUME Sound, cur # NoSlot, p # -1, levels[Opposite][p] # <<>>,
           NEW r, AtHead(r)
    PROVE  /\ p \in Prices /\ p \in bits[Opposite]
           /\ levels[Opposite][p] \in Seq(Slots)
           /\ 1 \in 1 .. Len(levels[Opposite][p]) /\ levels[Opposite][p][1] = r
           /\ Without(levels[Opposite][p], 1, Tail(levels[Opposite][p]))
           /\ r \in orders_by_id /\ r \in Slots /\ r # cur
           /\ order[r] \in Orders /\ order[r].side = Opposite /\ order[r].price = p
           /\ order[r].qty \in 1 .. MaxQty
<1> DEFINE level == levels[Opposite][p]
<1>1. p \in Prices /\ Opposite \in Sides /\ level \in Seq(Slots)
  BY IncomingFacts DEF Sound, TypeOK
<1>2. /\ 1 \in 1 .. Len(level) /\ level[1] = r
      /\ Without(level, 1, Tail(level))
  BY <1>1, TailUnlinks DEF AtHead
<1>3. In(level, r)
  BY <1>1, <1>2 DEF In
<1>4. /\ r \in orders_by_id /\ r \in Slots /\ r # cur /\ p \in bits[Opposite]
      /\ order[r] \in Orders /\ order[r].side = Opposite /\ order[r].price = p /\ order[r].qty > 0
  BY <1>1, <1>3 DEF Sound, TypeOK, Linked, BitsExact
<1>5. order[r].qty \in 1 .. MaxQty
  BY <1>4, MaxQtyAssumption DEF Orders
<1> QED
  BY <1>1, <1>2, <1>4, <1>5

\* The level the cursor is on is left for the next marked one.
LEMMA LeaveLevelEffect ==
    ASSUME TypeOK, p \in Prices, NEW side \in Sides, NoneBetter(side, p), LeaveLevel(side),
           \A d \in Sides : NoneBetter(d, best[d])
    PROVE  /\ bits' \in [Sides -> SUBSET Prices] /\ best' \in [Sides -> Prices]
           /\ p' \in Prices \cup {-1}
           /\ bits'[side] = bits[side] \ {p}
           /\ \A d \in Sides : d # side => bits'[d] = bits[d]
           /\ (\A d \in Sides : NoneBetter(d, best[d]))'
           /\ p' = -1 => bits'[side] = {}
           /\ p' # -1 => /\ NoneBetter(side, p)'
                         /\ IF side = "B" THEN p' < p ELSE p < p'
<1> DEFINE rest == Beyond(side, bits[side], p)
<1>1. bits[side] \in SUBSET Prices /\ Prices \subseteq Int
  BY DEF TypeOK, Prices
<1>2. rest = bits[side] \ {p} /\ rest \in SUBSET Prices
  BY <1>1 DEF Beyond, NoneBetter
<1>3. p' = find_next(side, rest)
  BY DEF LeaveLevel
<1>4. /\ p' = -1 <=> rest = {}
      /\ p' # -1 => /\ p' \in rest
                    /\ \A r \in rest : IF side = "B" THEN r <= p' ELSE p' <= r
  BY <1>2, <1>3, FindNext
<1>5. /\ bits' = [bits EXCEPT ![side] = bits[side] \ {p}]
      /\ best' = [best EXCEPT ![side] = IF p' = -1 THEN best[side] ELSE p']
  BY <1>3 DEF LeaveLevel
<1>6. /\ bits'[side] = rest
      /\ \A d \in Sides : d # side => bits'[d] = bits[d] /\ best'[d] = best[d]
      /\ best'[side] = IF p' = -1 THEN best[side] ELSE p'
      /\ bits' \in [Sides -> SUBSET Prices] /\ best' \in [Sides -> Prices]
  BY <1>2, <1>4, <1>5 DEF TypeOK
<1>7. p' # -1 => /\ NoneBetter(side, p)'
                 /\ IF side = "B" THEN p' < p ELSE p < p'
  BY <1>4, <1>6 DEF NoneBetter, Beyond
<1>8. (\A d \in Sides : NoneBetter(d, best[d]))'
  <2>1. NoneBetter(side, best[side])'
    BY <1>4, <1>6 DEF NoneBetter
  <2>2. \A d \in Sides : d # side => NoneBetter(d, best[d])'
    BY <1>6 DEF NoneBetter
  <2> QED
    BY <2>1, <2>2
<1> QED
  BY <1>2, <1>4, <1>6, <1>7, <1>8

-----------------------------------------------------------------------------
(* What an action must show for the lookup table to stay exact.            *)

\* The orders still resting keep side and price and have shares left.
StillResting ==
    /\ \A s \in orders_by_id' :
          /\ order'[s].side = order[s].side /\ order'[s].price = order[s].price
          /\ order'[s] # NoOrder /\ order'[s].qty > 0 /\ s # cur'
    /\ \A s \in Slots \ (orders_by_id' \cup {cur'}) : order'[s] = NoOrder

LEMMA NothingUnlinked ==
    ASSUME Linked, levels' = levels, orders_by_id' = orders_by_id, StillResting
    PROVE  Linked'
BY DEF Linked, StillResting

LEMMA OneUnlinked ==
    ASSUME Linked, TypeOK, NEW side \in Sides, NEW q \in Prices,
           NEW k \in 1 .. Len(levels[side][q]), NEW short, Without(levels[side][q], k, short),
           levels'[side][q] = short,
           \A d \in Sides, x \in Prices : d # side \/ x # q => levels'[d][x] = levels[d][x],
           orders_by_id' = orders_by_id \ {levels[side][q][k]}, StillResting
    PROVE  /\ Linked'
           /\ short = <<>> <=> Len(levels[side][q]) = 1
<1> DEFINE level == levels[side][q]
           r == level[k]
<1>1. level \in Seq(Slots) /\ Once(level) /\ short \in Seq(Slots)
  BY DEF TypeOK, Linked, Without
<1>2. /\ Once(short)
      /\ \A s : In(short, s) <=> In(level, s) /\ s # r
      /\ short = <<>> <=> Len(level) = 1
  BY <1>1, Unlinked
<1>4. In(level, r) /\ order[r].side = side /\ order[r].price = q
  BY <1>1 DEF In, Linked
<1> HIDE DEF level, r
<1>5. ASSUME NEW d \in Sides, NEW x \in Prices
      PROVE  /\ Once(levels'[d][x])
             /\ \A s : In(levels'[d][x], s) =>
                         s \in orders_by_id' /\ order'[s].side = d /\ order'[s].price = x
  <2>1. /\ Once(levels'[d][x])
        /\ \A s : In(levels'[d][x], s) => In(levels[d][x], s) /\ s # r
    <3>1. CASE d = side /\ x = q
      BY <1>2, <3>1 DEF level
    <3>2. CASE ~ (d = side /\ x = q)
      BY <1>4, <3>2 DEF Linked
    <3> QED
      BY <3>1, <3>2
  <2> QED
    BY <2>1 DEF Linked, StillResting, level, r
<1>6. ASSUME NEW s \in orders_by_id'
      PROVE  In(levels'[order'[s].side][order'[s].price], s)
  <2>1. s \in orders_by_id /\ s # r /\ order[s] \in Orders /\ In(levels[order[s].side][order[s].price], s)
    BY <1>6 DEF Linked, TypeOK, level, r
  <2>2. order[s].side \in Sides /\ order[s].price \in Prices
    BY <2>1 DEF Orders
  <2>3. In(levels'[order[s].side][order[s].price], s)
    BY <1>2, <2>1, <2>2, ZenonT(30) DEF level
  <2> QED
    BY <1>6, <2>3 DEF StillResting
<1>7. Linked'
  BY <1>5, <1>6 DEF Linked, StillResting
<1> QED
  BY <1>2, <1>7 DEF level

\* The same for the order at the head.
LEMMA HeadUnlinked ==
    ASSUME Linked, TypeOK, NEW side \in Sides, NEW q \in Prices, NEW short,
           1 \in 1 .. Len(levels[side][q]), Without(levels[side][q], 1, short),
           levels'[side][q] = short,
           \A d \in Sides, x \in Prices : d # side \/ x # q => levels'[d][x] = levels[d][x],
           orders_by_id' = orders_by_id \ {levels[side][q][1]}, StillResting
    PROVE  /\ Linked'
           /\ short = <<>> <=> Len(levels[side][q]) = 1
<1>1. PICK i \in 1 .. Len(levels[side][q]) : i = 1
  BY Zenon
<1>2. Without(levels[side][q], i, short) /\ orders_by_id' = orders_by_id \ {levels[side][q][i]}
  BY <1>1, Zenon
<1> QED
  BY <1>2, OneUnlinked

-----------------------------------------------------------------------------
(* The initial state and the actions, one lemma each.                      *)

LEMMA InitSound == Init => Sound
<1> SUFFICES ASSUME Init PROVE Sound
  OBVIOUS
<1>1. \A side \in Sides, q \in Prices : levels[side][q] = <<>> /\ bits[side] = {}
  BY DEF Init
<1>2. \A s : ~ In(<<>>, s)
  BY DEF In
<1>3. TypeOK
  <2>1. \A side \in Sides : Worst(side) \in Prices
    BY MaxPriceAssumption DEF Worst, Prices
  <2> QED
    BY <2>1, NoSlotAssumption DEF Init, TypeOK
<1>4. Linked
  BY <1>1, <1>2 DEF Init, Linked, Once
<1>5. (\A side \in Sides : NoneBetter(side, best[side])) /\ CursorBound
  BY <1>1, MaxPriceAssumption DEF Init, NoneBetter, CursorBound, Prices
<1>6. BitsExact /\ NeverCrossed
  BY <1>1 DEF BitsExact, NeverCrossed, Sides
<1> QED
  BY <1>3, <1>4, <1>5, <1>6 DEF Sound

LEMMA DiscardSound ==
    ASSUME Sound, NEW s \in Slots, Discard(s)
    PROVE  Sound'
<1>1. TypeOK'
  BY DEF Sound, TypeOK, Discard, Kept, bookVars
<1>2. Linked'
  <2>1. order' = order /\ levels' = levels /\ orders_by_id' = orders_by_id /\ cur' = cur
    BY DEF Discard, bookVars
  <2> QED
    BY <2>1, NothingUnlinked DEF Sound, Linked, StillResting
<1>3. (BitsExact /\ (\A d \in Sides : NoneBetter(d, best[d])) /\ NeverCrossed)'
  BY Zenon DEF Sound, BitsExact, NoneBetter, NeverCrossed, Discard, bookVars
<1>4. CursorBound'
  BY DEF CursorBound, Discard
<1> QED
  BY <1>1, <1>2, <1>3, <1>4 DEF Sound

LEMMA SubmitSound ==
    ASSUME Sound, NEW s \in Slots, NEW c \in Clients, NEW side \in Sides,
           NEW price \in QuotePrices, NEW qty \in 1 .. MaxQty, Submit(s, c, side, price, qty)
    PROVE  Sound'
<1> DEFINE new == [client |-> c, side |-> side, price |-> price, qty |-> qty, asked |-> qty]
<1>1. new \in Orders /\ new # NoOrder
  <2>1. price \in Prices /\ qty \in 0 .. MaxQty
    BY QuotePricesAssumption, MaxQtyAssumption
  <2>2. new \in Orders
    BY <2>1 DEF Orders
  <2> QED
    BY <2>2, NoOrderAssumption
<1>2. /\ order'[s] = new /\ \A x \in Slots : x # s => order'[x] = order[x]
      /\ order' \in [Slots -> Orders \cup {NoOrder}]
  BY <1>1 DEF Sound, TypeOK, Submit
<1>3. Other(side) \in Sides /\ p' \in Prices /\ cur' = s /\ cur' # NoSlot
  BY NoSlotAssumption DEF Sound, TypeOK, Submit, Other, Sides
<1>4. TypeOK'
  <2>1. /\ reported' \in [Slots -> {"none", "NEW", "PARTIAL_FILL", "FILLED", "CANCELED", "REJECTED"}]
        /\ acked' \in [Slots -> Nat]
    BY DEF Submit, Kept, Sound, TypeOK
  <2>2. itch' \in Seq([type : {"A", "E", "X"}, slot : Slots, side : Sides, price : Prices, qty : 0 .. MaxQty])
    BY DEF Submit
  <2>3. /\ levels' = levels /\ bits' = bits /\ best' = best /\ orders_by_id' = orders_by_id
        /\ order'[cur'] # NoOrder
    BY <1>1, <1>2, <1>3, Zenon DEF Submit
  <2> QED
    BY <1>2, <1>3, <2>1, <2>2, <2>3, ZenonT(30) DEF Sound, TypeOK
<1>5. StillResting
  <2>1. s \notin orders_by_id /\ orders_by_id' = orders_by_id
    BY DEF Sound, Linked, Submit
  <2>2. \A x \in orders_by_id : x \in Slots /\ order'[x] = order[x] /\ order[x] # NoOrder /\ order[x].qty > 0
    BY <1>2, <2>1 DEF Sound, Linked, TypeOK
  <2>3. \A x \in Slots \ (orders_by_id \cup {s}) : order'[x] = NoOrder
    BY <1>2, NoSlotAssumption DEF Sound, Linked, Submit
  <2> QED
    BY <1>3, <2>1, <2>2, <2>3, ZenonT(30) DEF StillResting
<1>6. Linked'
  BY <1>5, NothingUnlinked DEF Sound, Submit
<1>7. (BitsExact /\ (\A d \in Sides : NoneBetter(d, best[d])) /\ NeverCrossed)'
  BY Zenon DEF Sound, BitsExact, NoneBetter, NeverCrossed, Submit
<1>8. CursorBound'
  <2>1. Opposite' = Other(side)
    BY <1>2, <1>3 DEF Opposite, Incoming
  <2>2. p' = best[Other(side)] /\ bits' = bits /\ NoneBetter(Other(side), best[Other(side)])
    BY <1>3 DEF Sound, Submit
  <2>3. p' # -1
    BY <1>3 DEF Prices
  <2> QED
    BY <2>1, <2>2, <2>3, ZenonT(30) DEF CursorBound, NoneBetter
<1> QED
  BY <1>4, <1>6, <1>7, <1>8 DEF Sound

\* The order in match_order() leaves its slot: Done and SelfTrade.
LEMMA LeavesSound ==
    ASSUME Sound, cur # NoSlot, order' = [order EXCEPT ![cur] = NoOrder], cur' = NoSlot, p' = -1,
           itch' = <<>>, UNCHANGED <<levels, bits, best, orders_by_id, acked>>,
           reported' \in [Slots -> {"none", "NEW", "PARTIAL_FILL", "FILLED", "CANCELED", "REJECTED"}]
    PROVE  Sound'
<1>1. cur \in Slots /\ cur \notin orders_by_id
  BY IncomingFacts
<1>2. /\ order'[cur] = NoOrder /\ \A x \in Slots : x # cur => order'[x] = order[x]
      /\ order' \in [Slots -> Orders \cup {NoOrder}]
  BY <1>1 DEF Sound, TypeOK
<1>3. TypeOK'
  BY <1>2 DEF Sound, TypeOK
<1>4. StillResting
  <2>1. \A x \in orders_by_id : x \in Slots /\ x # cur /\ order[x] # NoOrder /\ order[x].qty > 0
    BY DEF Sound, Linked, TypeOK
  <2> QED
    BY <1>1, <1>2, <2>1, NoSlotAssumption DEF StillResting, Sound, Linked
<1>5. Linked'
  BY <1>4, NothingUnlinked DEF Sound
<1>6. (BitsExact /\ (\A d \in Sides : NoneBetter(d, best[d])) /\ NeverCrossed)'
  BY Zenon DEF Sound, BitsExact, NoneBetter, NeverCrossed
<1>7. CursorBound'
  BY DEF CursorBound
<1> QED
  BY <1>3, <1>5, <1>6, <1>7 DEF Sound

LEMMA DoneSound == ASSUME Sound, Done PROVE Sound'
BY LeavesSound, Zenon DEF Done, Sound, TypeOK

LEMMA SelfTradeSound == ASSUME Sound, SelfTrade PROVE Sound'
<1>1. reported' \in [Slots -> {"none", "NEW", "PARTIAL_FILL", "FILLED", "CANCELED", "REJECTED"}]
  BY Zenon DEF SelfTrade, Sound, TypeOK
<1> QED
  BY <1>1, LeavesSound DEF SelfTrade, InLoop

LEMMA SkipEmptyLevelSound == ASSUME Sound, SkipEmptyLevel PROVE Sound'
<1>1. cur # NoSlot /\ Opposite \in Sides /\ p \in Prices /\ NoneBetter(Opposite, p)
  BY IncomingFacts DEF SkipEmptyLevel, InLoop, Sound, TypeOK, CursorBound
<1> PICK opp \in Sides : opp = Opposite
  BY <1>1, ZenonT(30)
<1>2. /\ bits' \in [Sides -> SUBSET Prices] /\ best' \in [Sides -> Prices]
      /\ p' \in Prices \cup {-1}
      /\ bits'[opp] = bits[opp] \ {p}
      /\ \A d \in Sides : d # opp => bits'[d] = bits[d]
      /\ (\A d \in Sides : NoneBetter(d, best[d]))'
      /\ p' = -1 => bits'[opp] = {}
      /\ p' # -1 => NoneBetter(opp, p)'
  BY <1>1, LeaveLevelEffect DEF SkipEmptyLevel, Sound
<1>3. TypeOK'
  BY <1>2 DEF Sound, TypeOK, SkipEmptyLevel
<1>4. Linked' /\ NeverCrossed'
  <2>1. order' = order /\ levels' = levels /\ orders_by_id' = orders_by_id /\ cur' = cur
    BY ZenonT(30) DEF SkipEmptyLevel
  <2>2. Linked'
    BY <2>1, NothingUnlinked DEF Sound, Linked, StillResting
  <2> QED
    BY <2>1, <2>2 DEF Sound, NeverCrossed
<1>5. BitsExact'
  BY <1>1, <1>2 DEF Sound, BitsExact, SkipEmptyLevel
<1>6. CursorBound'
  <2>1. Opposite' = opp
    BY DEF SkipEmptyLevel, Opposite, Incoming
  <2> QED
    BY <1>2, <2>1 DEF CursorBound, NoneBetter
<1> QED
  BY <1>2, <1>3, <1>4, <1>5, <1>6 DEF Sound

\* The numbers of one execution.
LEMMA TradeNumbers ==
    ASSUME NEW n \in 1 .. MaxQty, NEW k \in 1 .. MaxQty
    PROVE  /\ Traded(n, k) \in 1 .. MaxQty /\ Traded(n, k) <= n /\ Traded(n, k) <= k
           /\ n - Traded(n, k) \in 0 .. MaxQty
           /\ UsedUp(n, k) \in BOOLEAN
           /\ UsedUp(n, k) => Traded(n, k) = k
           /\ ~ UsedUp(n, k) => Traded(n, k) = n /\ k - n \in 1 .. MaxQty
BY MaxQtyAssumption DEF Traded, UsedUp

LEMMA TradeCases ==
    ASSUME NEW n \in 1 .. MaxQty, NEW k \in 1 .. MaxQty
    PROVE  /\ n < k => Traded(n, k) = n
           /\ n >= k => Traded(n, k) = k /\ FillState(k, n) = "FILLED"
           /\ n - Traded(n, k) = 0 => FillState(n, k) = "FILLED"
BY MaxQtyAssumption DEF Traded, FillState

\* The parties of an execution.
LEMMA FillParties ==
    ASSUME Sound, Fill, NEW r \in Slots, AtHead(r)
    PROVE  /\ cur \in Slots /\ cur # NoSlot /\ cur' = cur /\ r # cur
           /\ order[cur] \in Orders /\ order[r] \in Orders
           /\ Incoming.qty \in 1 .. MaxQty /\ order[r].qty \in 1 .. MaxQty
<1>1. /\ cur # NoSlot /\ p # -1 /\ levels[Opposite][p] # <<>> /\ Incoming.qty > 0 /\ cur' = cur
  BY Zenon DEF Fill, InLoop
<1>2. /\ cur \in Slots /\ r # cur /\ order[cur] \in Orders /\ order[r] \in Orders
      /\ Incoming.qty \in 0 .. MaxQty /\ order[r].qty \in 1 .. MaxQty
  BY <1>1, IncomingFacts, HeadFacts DEF Incoming
<1> QED
  BY <1>1, <1>2, MaxQtyAssumption

\* The order new is the order old with q shares left.
Reduced(new, old, q) ==
    /\ new \in Orders /\ new # NoOrder
    /\ new.client = old.client /\ new.side = old.side /\ new.price = old.price
    /\ new.asked = old.asked /\ new.qty = q

\* An execution of m of n open shares keeps executed + open = asked.
LEMMA StillConserved ==
    ASSUME NEW a \in Nat, NEW n \in 1 .. MaxQty, NEW m \in 1 .. MaxQty
    PROVE  a + m + (n - m) = a + n
BY MaxQtyAssumption

LEMMA ReducedOrder ==
    ASSUME NEW o \in Orders, NEW q \in 0 .. MaxQty
    PROVE  Reduced([o EXCEPT !.qty = q], o, q)
<1>1. [o EXCEPT !.qty = q] \in Orders
  BY DEF Orders
<1> QED
  BY <1>1, NoOrderAssumption DEF Reduced, Orders

\* What an execution does to the orders: only its two parties change.
LEMMA FillEffect ==
    ASSUME Sound, Fill, NEW r \in Slots, AtHead(r),
           NEW n \in 1 .. MaxQty, n = Incoming.qty, NEW k \in 1 .. MaxQty, k = order[r].qty,
           NEW m \in 1 .. MaxQty, m = Traded(n, k)
    PROVE  /\ Reduced(order'[cur], order[cur], n - m)
           /\ n >= k => order'[r] = NoOrder
           /\ n < k => Reduced(order'[r], order[r], k - n)
           /\ \A s \in Slots : s # cur /\ s # r => order'[s] = order[s]
           /\ order' \in [Slots -> Orders \cup {NoOrder}]
<1>1. /\ cur \in Slots /\ r # cur /\ order[cur] \in Orders /\ order[r] \in Orders
      /\ order \in [Slots -> Orders \cup {NoOrder}]
  BY FillParties DEF Sound, TypeOK
<1>2. PICK left \in 0 .. MaxQty : left = n - m
  BY MaxQtyAssumption DEF Traded
<1>3. order' = [order EXCEPT ![cur].qty = left,
                             ![r] = IF n >= k THEN NoOrder ELSE [order[r] EXCEPT !.qty = @ - n]]
  BY <1>2, Zenon DEF Fill, UsedUp, AtHead
<1>4. /\ order'[cur] = [order[cur] EXCEPT !.qty = left]
      /\ order'[r] = IF n >= k THEN NoOrder ELSE [order[r] EXCEPT !.qty = k - n]
      /\ \A s \in Slots : s # cur /\ s # r => order'[s] = order[s]
      /\ DOMAIN order' = Slots
  BY <1>1, <1>3
<1>5. Reduced(order'[cur], order[cur], n - m)
  BY <1>1, <1>2, <1>4, ReducedOrder
<1>6. n < k => Reduced(order'[r], order[r], k - n)
  <2> SUFFICES ASSUME n < k PROVE Reduced(order'[r], order[r], k - n)
    OBVIOUS
  <2> PICK kept \in 0 .. MaxQty : kept = k - n
    BY MaxQtyAssumption
  <2>1. order'[r] = [order[r] EXCEPT !.qty = kept]
    BY <1>4, MaxQtyAssumption
  <2> QED
    BY <1>1, <2>1, ReducedOrder
<1>7. \A s \in Slots : order'[s] \in Orders \cup {NoOrder}
  <2>1. order'[r] \in Orders \cup {NoOrder}
    BY <1>4, <1>6, MaxQtyAssumption DEF Reduced
  <2> QED
    BY <1>1, <1>4, <1>5, <2>1 DEF Reduced
<1>8. order' = [s \in Slots |-> order'[s]]
  BY <1>1, <1>3, Zenon
<1> QED
  BY <1>4, <1>5, <1>6, <1>7, <1>8, MaxQtyAssumption

\* What an execution says: to its two parties only.
LEMMA FillSays ==
    ASSUME Sound, Fill, NEW r \in Slots, AtHead(r)
    PROVE  /\ itch' = <<Msg("E", r, order[r].side, order[r].price, Traded(Incoming.qty, order[r].qty)),
                        Msg("E", cur, Incoming.side, order[r].price, Traded(Incoming.qty, order[r].qty))>>
           /\ acked'[cur] = acked[cur] + Traded(Incoming.qty, order[r].qty)
           /\ acked'[r] = acked[r] + Traded(Incoming.qty, order[r].qty)
           /\ \A s \in Slots : s # cur /\ s # r => acked'[s] = acked[s]
           /\ acked' = [s \in Slots |-> acked'[s]]
           /\ reported'[cur] = FillState(Incoming.qty, order[r].qty)
           /\ reported'[r] = FillState(order[r].qty, Incoming.qty)
           /\ \A s \in Slots : s # cur /\ s # r => reported'[s] = reported[s]
           /\ reported' = [s \in Slots |-> reported'[s]]
<1>1. cur \in Slots /\ r # cur /\ acked \in [Slots -> Nat] /\ reported = [s \in Slots |-> reported[s]]
  BY FillParties DEF Sound, TypeOK
<1>2. /\ acked'[cur] = acked[cur] + Traded(Incoming.qty, order[r].qty)
      /\ acked'[r] = acked[r] + Traded(Incoming.qty, order[r].qty)
      /\ \A s \in Slots : s # cur /\ s # r => acked'[s] = acked[s]
      /\ acked' = [s \in Slots |-> acked'[s]]
  BY <1>1, Zenon DEF Fill, AtHead
<1>3. /\ reported'[cur] = FillState(Incoming.qty, order[r].qty)
      /\ reported'[r] = FillState(order[r].qty, Incoming.qty)
      /\ \A s \in Slots : s # cur /\ s # r => reported'[s] = reported[s]
      /\ reported' = [s \in Slots |-> reported'[s]]
  BY <1>1, Zenon DEF Fill, AtHead
<1>4. itch' = <<Msg("E", r, order[r].side, order[r].price, Traded(Incoming.qty, order[r].qty)),
                Msg("E", cur, Incoming.side, order[r].price, Traded(Incoming.qty, order[r].qty))>>
  BY Zenon DEF Fill, AtHead
<1> QED
  BY <1>2, <1>3, <1>4

\* What an execution does to the lists: a used-up resting order leaves.
LEMMA FillBook ==
    ASSUME Fill, NEW r, AtHead(r),
           NEW n, n = Incoming.qty, NEW k, k = order[r].qty
    PROVE  /\ n >= k => /\ orders_by_id' = orders_by_id \ {r}
                        /\ levels' = [levels EXCEPT ![Opposite][p] = Tail(levels[Opposite][p])]
           /\ ~ (n >= k) => orders_by_id' = orders_by_id /\ levels' = levels
           /\ n >= k /\ Len(levels[Opposite][p]) = 1 => LeaveLevel(Opposite)
           /\ ~ (n >= k /\ Len(levels[Opposite][p]) = 1) => bits' = bits /\ best' = best /\ p' = p
<1>1. UsedUp(Incoming.qty, order[Head(levels[Opposite][p])].qty) <=> n >= k
  BY DEF UsedUp, AtHead
<1>2. CASE n >= k
  BY <1>1, <1>2, Zenon DEF Fill, AtHead
<1>3. CASE ~ (n >= k)
  BY <1>1, <1>3, Zenon DEF Fill, AtHead
<1> QED
  BY <1>2, <1>3

LEMMA FillSound == ASSUME Sound, Fill PROVE Sound'
<1>1. cur # NoSlot /\ p \in Prices /\ levels[Opposite][p] # <<>> /\ p # -1
  BY Zenon DEF Fill, InLoop, Sound, TypeOK
<1> PICK opp \in Sides : opp = Opposite
  BY <1>1, IncomingFacts
<1> PICK q \in Prices : q = p
  BY <1>1
<1> DEFINE level == levels[opp][q]
<1> PICK r \in Slots : AtHead(r)
  BY <1>1, HeadFacts DEF AtHead
<1>2. /\ q \in bits[opp] /\ level \in Seq(Slots)
      /\ 1 \in 1 .. Len(level) /\ level[1] = r /\ Without(level, 1, Tail(level))
      /\ r \in orders_by_id /\ r # cur
      /\ order[r] \in Orders /\ order[r].side = opp /\ order[r].price = q
  BY <1>1, HeadFacts
<1>3. PICK n \in 1 .. MaxQty, k \in 1 .. MaxQty : n = Incoming.qty /\ k = order[r].qty
  BY FillParties
<1>4. PICK m \in 1 .. MaxQty : m = Traded(n, k)
  BY TradeNumbers
<1> DEFINE emptied == n >= k /\ Len(level) = 1
<1>5. /\ cur \in Slots /\ cur' = cur /\ Reduced(order'[cur], order[cur], n - m)
      /\ n >= k => order'[r] = NoOrder
      /\ n < k => Reduced(order'[r], order[r], k - n)
      /\ \A s \in Slots : s # cur /\ s # r => order'[s] = order[s]
      /\ order' \in [Slots -> Orders \cup {NoOrder}]
  BY <1>3, <1>4, FillParties, FillEffect
<1>6. /\ n >= k => /\ orders_by_id' = orders_by_id \ {level[1]}
                   /\ levels' = [levels EXCEPT ![opp][q] = Tail(level)]
      /\ ~ (n >= k) => orders_by_id' = orders_by_id /\ levels' = levels
      /\ emptied => LeaveLevel(opp)
      /\ ~ emptied => bits' = bits /\ best' = best /\ p' = p
  BY <1>2, <1>3, FillBook
<1>7. /\ levels' \in [Sides -> [Prices -> Seq(Slots)]] /\ Linked'
      /\ \A d \in Sides, x \in Prices : d # opp \/ x # q => levels'[d][x] = levels[d][x]
      /\ levels'[opp][q] = <<>> <=> emptied
      /\ orders_by_id' \subseteq Slots
  <2>1. /\ \A s \in orders_by_id : s \in Slots /\ s # cur /\ order[s] # NoOrder /\ order[s].qty > 0
        /\ \A s \in Slots : s \notin orders_by_id /\ s # cur => order'[s] = NoOrder
    BY <1>2, <1>5 DEF Sound, Linked, TypeOK
  <2>2. CASE n >= k
    <3>1. StillResting
      BY <1>2, <1>5, <1>6, <2>1, <2>2 DEF StillResting
    <3>2. PICK short \in Seq(Slots) : Without(level, 1, short) /\ levels' = [levels EXCEPT ![opp][q] = short]
      BY <1>2, <1>6, <2>2, Zenon DEF Without
    <3>3. levels \in [Sides -> [Prices -> Seq(Slots)]]
      BY DEF Sound, TypeOK
    <3>4. /\ levels' \in [Sides -> [Prices -> Seq(Slots)]] /\ levels'[opp][q] = short
          /\ \A d \in Sides, x \in Prices : d # opp \/ x # q => levels'[d][x] = levels[d][x]
      BY <3>2, <3>3
    <3>5. orders_by_id' = orders_by_id \ {level[1]}
      BY <1>6, <2>2, ZenonT(30)
    <3>6. Linked' /\ (short = <<>> <=> Len(level) = 1)
      <4>1. Linked /\ TypeOK /\ 1 \in 1 .. Len(levels[opp][q]) /\ Without(levels[opp][q], 1, short)
        BY <1>2, <3>2, Zenon DEF Sound
      <4>2. levels'[opp][q] = short /\ orders_by_id' = orders_by_id \ {levels[opp][q][1]}
        BY <3>4, <3>5, Zenon
      <4> QED
        BY <3>1, <3>4, <4>1, <4>2, HeadUnlinked, ZenonT(30)
    <3> QED
      BY <2>1, <2>2, <3>4, <3>5, <3>6, ZenonT(30)
  <2>3. CASE n < k
    <3>1. levels' = levels /\ orders_by_id' = orders_by_id /\ ~ emptied /\ k - n > 0
      BY <1>6, <2>3, MaxQtyAssumption
    <3>2. StillResting
      <4>1. \A s \in orders_by_id : s # r =>
               order'[s] = order[s] /\ order'[s] # NoOrder /\ order'[s].qty > 0 /\ s # cur'
        BY <1>5, <2>1, ZenonT(30)
      <4>2. /\ order'[r].side = order[r].side /\ order'[r].price = order[r].price
            /\ order'[r] # NoOrder /\ order'[r].qty > 0 /\ r # cur'
        BY <1>2, <1>5, <2>3, <3>1 DEF Reduced
      <4> QED
        BY <1>5, <2>1, <3>1, <4>1, <4>2 DEF StillResting
    <3>3. Linked'
      BY <3>1, <3>2, NothingUnlinked DEF Sound
    <3> QED
      BY <1>1, <2>1, <3>1, <3>3, ZenonT(30) DEF Sound, TypeOK
  <2> QED
    BY <2>2, <2>3, Comparable, ZenonT(30)
<1> HIDE DEF emptied, level
<1>8. Opposite' = opp
  BY <1>5, ZenonT(30) DEF Opposite, Incoming, Reduced
<1>9. NeverCrossed'
  <2>1. \A d \in Sides, x \in Prices : levels'[d][x] # <<>> => levels[d][x] # <<>>
    BY <1>1, <1>7, ZenonT(30)
  <2> QED
    BY <2>1 DEF Sound, NeverCrossed, Sides
<1>10. /\ bits' \in [Sides -> SUBSET Prices] /\ best' \in [Sides -> Prices] /\ p' \in Prices \cup {-1}
       /\ BitsExact' /\ CursorBound' /\ (\A d \in Sides : NoneBetter(d, best[d]))'
  <2>1. CASE emptied
    <3>1. NoneBetter(opp, p)
      BY <1>1 DEF Sound, CursorBound
    <3>2. /\ bits' \in [Sides -> SUBSET Prices] /\ best' \in [Sides -> Prices]
          /\ p' \in Prices \cup {-1}
          /\ bits'[opp] = bits[opp] \ {p}
          /\ \A d \in Sides : d # opp => bits'[d] = bits[d]
          /\ (\A d \in Sides : NoneBetter(d, best[d]))'
          /\ p' = -1 => bits'[opp] = {}
          /\ p' # -1 => NoneBetter(opp, p)'
      BY <1>1, <1>6, <2>1, <3>1, LeaveLevelEffect, ZenonT(30) DEF Sound
    <3>3. ASSUME NEW d \in Sides, NEW x \in Prices
          PROVE  x \in bits'[d] <=> levels'[d][x] # <<>>
      <4>1. CASE d = opp /\ x = q
        BY <1>1, <1>7, <2>1, <3>2, <4>1, ZenonT(30)
      <4>2. CASE ~ (d = opp /\ x = q)
        <5>1. levels'[d][x] = levels[d][x]
          BY <1>7, <4>2
        <5>2. x \in bits'[d] <=> x \in bits[d]
          BY <3>2, <4>2
        <5> QED
          BY <5>1, <5>2 DEF Sound, BitsExact
      <4> QED
        BY <4>1, <4>2
    <3>4. CursorBound'
      BY <1>8, <3>2 DEF CursorBound, NoneBetter
    <3> QED
      BY <3>2, <3>3, <3>4 DEF BitsExact
  <2>2. CASE ~ emptied
    <3>1. bits' = bits /\ best' = best /\ p' = p
      BY <1>6, <2>2, ZenonT(30)
    <3>2. ASSUME NEW d \in Sides, NEW x \in Prices
          PROVE  x \in bits'[d] <=> levels'[d][x] # <<>>
      <4>1. CASE d = opp /\ x = q
        BY <1>2, <1>7, <2>2, <3>1, <4>1
      <4>2. CASE ~ (d = opp /\ x = q)
        BY <1>7, <3>1, <4>2, ZenonT(60) DEF Sound, BitsExact
      <4> QED
        BY <4>1, <4>2
    <3>3. CursorBound'
      BY <1>1, <1>8, <3>1 DEF Sound, CursorBound, NoneBetter
    <3> QED
      BY <3>1, <3>2, <3>3 DEF Sound, TypeOK, NoneBetter, BitsExact
  <2> QED
    BY <2>1, <2>2
<1>11. TypeOK'
  <2>1. itch' \in Seq([type : {"A", "E", "X"}, slot : Slots, side : Sides, price : Prices, qty : 0 .. MaxQty])
    <3> PICK mine \in Sides : mine = Incoming.side
      BY <1>1, IncomingFacts
    <3>1. itch' = <<Msg("E", r, opp, q, m), Msg("E", cur, mine, q, m)>>
      BY <1>2, <1>3, <1>4, FillSays, ZenonT(30)
    <3>2. /\ Msg("E", r, opp, q, m) \in
               [type : {"A", "E", "X"}, slot : Slots, side : Sides, price : Prices, qty : 0 .. MaxQty]
          /\ Msg("E", cur, mine, q, m) \in
               [type : {"A", "E", "X"}, slot : Slots, side : Sides, price : Prices, qty : 0 .. MaxQty]
      BY <1>5, MaxQtyAssumption DEF Msg
    <3> QED
      BY <3>1, <3>2
  <2>2. acked' \in [Slots -> Nat]
    <3>1. acked \in [Slots -> Nat] /\ m \in Nat
      BY MaxQtyAssumption DEF Sound, TypeOK
    <3>2. /\ acked'[cur] = acked[cur] + m /\ acked'[r] = acked[r] + m
          /\ \A s \in Slots : s # cur /\ s # r => acked'[s] = acked[s]
          /\ acked' = [s \in Slots |-> acked'[s]]
      BY <1>3, <1>4, FillSays
    <3> QED
      BY <1>5, <3>1, <3>2
  <2>3. reported' \in [Slots -> {"none", "NEW", "PARTIAL_FILL", "FILLED", "CANCELED", "REJECTED"}]
    <3>1. \A x, y : FillState(x, y) \in {"PARTIAL_FILL", "FILLED"}
      BY DEF FillState
    <3>2. reported \in [Slots -> {"none", "NEW", "PARTIAL_FILL", "FILLED", "CANCELED", "REJECTED"}]
      BY DEF Sound, TypeOK
    <3>3. /\ reported'[cur] \in {"PARTIAL_FILL", "FILLED"} /\ reported'[r] \in {"PARTIAL_FILL", "FILLED"}
          /\ \A s \in Slots : s # cur /\ s # r => reported'[s] = reported[s]
          /\ reported' = [s \in Slots |-> reported'[s]]
      BY <3>1, FillSays
    <3> QED
      BY <3>2, <3>3
  <2> QED
    BY <1>5, <1>7, <1>10, <2>1, <2>2, <2>3 DEF TypeOK, Reduced
<1> QED
  BY <1>7, <1>9, <1>10, <1>11 DEF Sound

LEMMA RestSound == ASSUME Sound, Rest PROVE Sound'
<1>1. cur # NoSlot /\ ~ InLoop /\ Incoming.qty > 0
  BY DEF Rest
<1>2. cur \in Slots /\ cur \notin orders_by_id /\ order[cur] \in Orders
  BY <1>1, IncomingFacts DEF Incoming
<1>3. PICK side \in Sides, q \in Prices : side = Incoming.side /\ q = Incoming.price
  BY <1>1, IncomingFacts
<1> DEFINE level == levels[side][q]
<1>4. level \in Seq(Slots) /\ Once(level) /\ ~ In(level, cur)
  BY <1>2 DEF Sound, TypeOK, Linked
<1>5. PICK long \in Seq(Slots) :
         /\ long = add(level, cur) /\ Once(long) /\ long # <<>>
         /\ \A x : In(long, x) <=> In(level, x) \/ x = cur
  BY <1>2, <1>4, AddLinks, SMTT(30)
<1>6. /\ levels' = [levels EXCEPT ![side][q] = long]
      /\ bits' = [bits EXCEPT ![side] = IF level = <<>> THEN bits[side] \cup {q} ELSE bits[side]]
      /\ best' = [best EXCEPT ![side] = NewBest(side, q, best[side])]
      /\ orders_by_id' = orders_by_id \cup {cur} /\ order' = order /\ acked' = acked
      /\ cur' = NoSlot /\ p' = -1
  BY <1>3, <1>5 DEF Rest
<1>7. /\ levels' \in [Sides -> [Prices -> Seq(Slots)]] /\ levels'[side][q] = long
      /\ \A d \in Sides, x \in Prices : d # side \/ x # q => levels'[d][x] = levels[d][x]
  BY <1>6 DEF Sound, TypeOK
<1>8. q \in bits[side] <=> level # <<>>
  BY DEF Sound, BitsExact
<1>9. /\ bits' \in [Sides -> SUBSET Prices] /\ bits'[side] = bits[side] \cup {q}
      /\ \A d \in Sides : d # side => bits'[d] = bits[d] /\ best'[d] = best[d]
      /\ best'[side] = NewBest(side, q, best[side])
  BY <1>6, <1>8 DEF Sound, TypeOK
<1>10. best' \in [Sides -> Prices]
  <2>1. NewBest(side, q, best[side]) \in Prices
    BY DEF NewBest, Sound, TypeOK
  <2> QED
    BY <1>6, <2>1 DEF Sound, TypeOK
<1>11. TypeOK'
  <2>1. itch' = <<Msg("A", cur, side, q, Incoming.qty)>>
    BY <1>3, ZenonT(30) DEF Rest
  <2>2. itch' \in Seq([type : {"A", "E", "X"}, slot : Slots, side : Sides, price : Prices, qty : 0 .. MaxQty])
    BY <1>1, <1>2, <2>1, IncomingFacts DEF Msg
  <2>3. reported' \in [Slots -> {"none", "NEW", "PARTIAL_FILL", "FILLED", "CANCELED", "REJECTED"}]
    BY DEF Rest, Sound, TypeOK
  <2> QED
    BY <1>2, <1>6, <1>7, <1>9, <1>10, <2>2, <2>3, ZenonT(30) DEF Sound, TypeOK
<1> HIDE DEF level
<1>12. BitsExact'
  <2>1. ASSUME NEW d \in Sides, NEW x \in Prices
        PROVE  x \in bits'[d] <=> levels'[d][x] # <<>>
    <3>1. CASE d = side /\ x = q
      BY <1>5, <1>7, <1>9, <3>1
    <3>2. CASE ~ (d = side /\ x = q)
      <4>1. levels'[d][x] = levels[d][x]
        BY <1>7, <3>2
      <4>2. x \in bits'[d] <=> x \in bits[d]
        BY <1>9, <3>2
      <4> QED
        BY <4>1, <4>2 DEF Sound, BitsExact
    <3> QED
      BY <3>1, <3>2, ZenonT(30)
  <2> QED
    BY <2>1 DEF BitsExact
<1>13. (\A d \in Sides : NoneBetter(d, best[d]))'
  <2>1. NoneBetter(side, best[side])'
    <3>1. bits[side] \subseteq Int /\ q \in Int /\ best[side] \in Int
      BY MaxPriceAssumption DEF Sound, TypeOK, Prices
    <3>2. \A x \in bits[side] : IF side = "B" THEN x <= best[side] ELSE best[side] <= x
      BY DEF Sound, NoneBetter
    <3>3. NewBest(side, q, best[side]) =
             IF side = "B" THEN IF q <= best[side] THEN best[side] ELSE q
                           ELSE IF q >= best[side] THEN best[side] ELSE q
      BY DEF NewBest, Crosses
    <3> QED
      BY <1>9, <3>1, <3>2, <3>3 DEF NoneBetter
  <2>2. \A d \in Sides : d # side => NoneBetter(d, best[d])'
    BY <1>9, ZenonT(30) DEF Sound, NoneBetter
  <2> QED
    BY <2>1, <2>2
<1>14. Linked'
  <2>1. ASSUME NEW d \in Sides, NEW x \in Prices
        PROVE  /\ Once(levels'[d][x])
               /\ \A s : In(levels'[d][x], s) =>
                           s \in orders_by_id' /\ order'[s].side = d /\ order'[s].price = x
    <3>1. CASE d = side /\ x = q
      <4>1. \A s : In(level, s) => s \in orders_by_id /\ order[s].side = side /\ order[s].price = q
        BY DEF Sound, Linked, level
      <4>2. order[cur].side = side /\ order[cur].price = q
        BY <1>3 DEF Incoming
      <4> QED
        BY <1>5, <1>6, <1>7, <3>1, <4>1, <4>2, ZenonT(30)
    <3>2. CASE ~ (d = side /\ x = q)
      <4>1. levels'[d][x] = levels[d][x]
        BY <1>7, <3>2
      <4> QED
        BY <1>6, <4>1 DEF Sound, Linked
    <3> QED
      BY <3>1, <3>2, ZenonT(30)
  <2>2. ASSUME NEW s \in orders_by_id'
        PROVE  /\ order'[s] # NoOrder /\ order'[s].qty > 0 /\ s # cur'
               /\ In(levels'[order'[s].side][order'[s].price], s)
    <3>1. CASE s = cur
      <4>1. order[cur].side = side /\ order[cur].price = q /\ order[cur].qty > 0
        BY <1>1, <1>3, ZenonT(30) DEF Incoming
      <4> QED
        BY <1>1, <1>2, <1>5, <1>6, <1>7, <3>1, <4>1, NoOrderAssumption
    <3>2. CASE s # cur
      <4>1. /\ s \in orders_by_id /\ s \in Slots /\ order[s] # NoOrder /\ order[s].qty > 0
            /\ In(levels[order[s].side][order[s].price], s)
        BY <1>6, <2>2, <3>2 DEF Sound, Linked, TypeOK
      <4>2. order[s].side \in Sides /\ order[s].price \in Prices
        BY <4>1 DEF Sound, TypeOK, Orders
      <4>3. In(levels'[order[s].side][order[s].price], s)
        BY <1>5, <1>7, <4>1, <4>2, Zenon DEF level
      <4> QED
        BY <1>6, <4>1, <4>3, NoSlotAssumption, ZenonT(30)
    <3> QED
      BY <3>1, <3>2, ZenonT(30)
  <2>3. \A s \in Slots \ (orders_by_id' \cup {cur'}) : order'[s] = NoOrder
    BY <1>6 DEF Sound, Linked
  <2> QED
    BY <2>1, <2>2, <2>3 DEF Linked
<1>15. NeverCrossed'
  <2>1. /\ \A x \in Prices : x \in Int
        /\ Opposite \in Sides /\ Opposite # side
    BY <1>1, <1>3, IncomingFacts DEF Prices
  <2>2. ASSUME NEW x \in Prices, levels[Opposite][x] # <<>>
        PROVE  IF side = "B" THEN q < x ELSE x < q
    <3>1. x \in bits[Opposite]
      BY <2>1, <2>2 DEF Sound, BitsExact
    <3>2. p # -1 /\ NoneBetter(Opposite, p)
      BY <1>1, <3>1 DEF Sound, CursorBound
    <3>3. ~ Crosses(side, p, q)
      BY <1>1, <1>3, <3>2 DEF InLoop
    <3>4. IF Opposite = "B" THEN x <= p ELSE p <= x
      BY <3>1, <3>2 DEF NoneBetter
    <3>5. p \in Int
      BY <3>2 DEF Sound, TypeOK, Prices
    <3> QED
      BY <2>1, <3>3, <3>4, <3>5 DEF Crosses, Sides
  <2>3. ASSUME NEW b \in Prices, NEW a \in Prices, levels'["B"][b] # <<>>, levels'["S"][a] # <<>>
        PROVE  b < a
    <3>1. CASE side = "B" /\ b = q
      <4>1. Opposite = "S" /\ levels[Opposite][a] # <<>>
        BY <1>7, <2>1, <2>3, <3>1 DEF Sides
      <4> QED
        BY <2>2, <3>1, <4>1
    <3>2. CASE side = "S" /\ a = q
      <4>1. Opposite = "B" /\ levels[Opposite][b] # <<>>
        BY <1>7, <2>1, <2>3, <3>2 DEF Sides
      <4> QED
        BY <2>2, <3>2, <4>1
    <3>3. CASE ~ (side = "B" /\ b = q) /\ ~ (side = "S" /\ a = q)
      <4>1. levels["B"][b] # <<>> /\ levels["S"][a] # <<>>
        BY <1>7, <2>3, <3>3 DEF Sides
      <4> QED
        BY <4>1 DEF Sound, NeverCrossed
    <3> QED
      BY <3>1, <3>2, <3>3
  <2> QED
    BY <2>3, Zenon DEF NeverCrossed
<1>16. CursorBound'
  BY <1>6 DEF CursorBound
<1> QED
  BY <1>11, <1>12, <1>13, <1>14, <1>15, <1>16 DEF Sound

\* The cached best price after a rescan has no marked level before it.
LEMMA RescannedBound ==
    ASSUME Sound, NEW side \in Sides, NEW q \in Prices, NoneBetter(side, q)
    PROVE  /\ Rescanned(side, q) \in Prices
           /\ \A r \in bits[side] \ {q} : IF side = "B" THEN r <= Rescanned(side, q)
                                                        ELSE Rescanned(side, q) <= r
<1> DEFINE rest == Beyond(side, bits[side], q)
<1>1. bits[side] \in SUBSET Prices /\ Prices \subseteq Int
  BY PricesAreInts, Zenon DEF Sound, TypeOK
<1>2. rest = bits[side] \ {q} /\ rest \in SUBSET Prices
  BY <1>1 DEF Beyond, NoneBetter
<1>3. Worst(side) \in Prices
  BY PricesAreInts, Zenon
<1>4. /\ find_next(side, rest) = -1 <=> rest = {}
      /\ find_next(side, rest) # -1 =>
            /\ find_next(side, rest) \in rest
            /\ \A r \in rest : IF side = "B" THEN r <= find_next(side, rest)
                                             ELSE find_next(side, rest) <= r
  BY <1>2, FindNext, Zenon
<1>5. Rescanned(side, q) = IF find_next(side, rest) = -1 THEN Worst(side) ELSE find_next(side, rest)
  BY DEF Rescanned
<1> HIDE DEF rest
<1> QED
  BY <1>2, <1>3, <1>4, <1>5

LEMMA CancelSound ==
    ASSUME Sound, NEW s \in Slots, Cancel(s)
    PROVE  Sound'
<1>1. cur = NoSlot /\ s \in orders_by_id /\ order[s] \in Orders /\ order[s].qty > 0
  BY ZenonT(60) DEF Cancel, Sound, Linked, TypeOK
<1>2. PICK side \in Sides, q \in Prices : side = order[s].side /\ q = order[s].price
  BY <1>1 DEF Orders
<1> DEFINE level == levels[side][q]
           emptied == Len(level) = 1
<1>3. level \in Seq(Slots)
  BY DEF Sound, TypeOK
<1>4. PICK i \in 1 .. Len(level) : level[i] = s /\ levels' = [levels EXCEPT ![side][q] = remove(level, i)]
  BY <1>2, Zenon DEF Cancel
<1>5. PICK short \in Seq(Slots) : Without(level, i, short) /\ levels' = [levels EXCEPT ![side][q] = short]
  BY <1>3, <1>4, RemoveUnlinks, Zenon DEF Without
<1>6. /\ levels' \in [Sides -> [Prices -> Seq(Slots)]] /\ levels'[side][q] = short
      /\ \A d \in Sides, x \in Prices : d # side \/ x # q => levels'[d][x] = levels[d][x]
  BY <1>5 DEF Sound, TypeOK
<1>7. /\ order'[s] = NoOrder /\ \A x \in Slots : x # s => order'[x] = order[x]
      /\ order' \in [Slots -> Orders \cup {NoOrder}]
      /\ orders_by_id' = orders_by_id \ {s} /\ cur' = cur /\ p' = p
  BY ZenonT(30) DEF Cancel, Sound, TypeOK
<1>8. StillResting
  <2>1. \A x \in orders_by_id : x \in Slots /\ order[x] # NoOrder /\ order[x].qty > 0 /\ x # cur
    BY ZenonT(30) DEF Sound, Linked, TypeOK
  <2>2. \A x \in Slots : x \notin orders_by_id => order[x] = NoOrder
    BY <1>1, NoSlotAssumption DEF Sound, Linked
  <2> QED
    BY <1>7, <2>1, <2>2 DEF StillResting
<1>9. Linked' /\ (short = <<>> <=> emptied)
  BY <1>4, <1>5, <1>6, <1>7, <1>8, OneUnlinked DEF Sound
<1>10. q \in bits[side] /\ level # <<>>
  <2>1. level # <<>>
    BY HasPlace, ZenonT(30)
  <2> QED
    BY <2>1, Zenon DEF Sound, BitsExact
<1>11. /\ bits' = [bits EXCEPT ![side] = IF emptied THEN bits[side] \ {q} ELSE bits[side]]
       /\ best' = [best EXCEPT ![side] = IF emptied /\ q = best[side] THEN Rescanned(side, q) ELSE best[side]]
  BY <1>2 DEF Cancel
<1> HIDE DEF level, emptied
<1>12. /\ bits'[side] = IF emptied THEN bits[side] \ {q} ELSE bits[side]
       /\ \A d \in Sides : d # side => bits'[d] = bits[d] /\ best'[d] = best[d]
       /\ best'[side] = IF emptied /\ q = best[side] THEN Rescanned(side, q) ELSE best[side]
       /\ bits' \in [Sides -> SUBSET Prices]
  BY <1>11 DEF Sound, TypeOK
<1>13. q = best[side] => /\ Rescanned(side, q) \in Prices
                         /\ \A r \in bits[side] \ {q} : IF side = "B" THEN r <= Rescanned(side, q)
                                                                      ELSE Rescanned(side, q) <= r
  <2>1. q = best[side] => NoneBetter(side, q)
    BY DEF Sound
  <2> QED
    BY <2>1, RescannedBound
<1>14. best' \in [Sides -> Prices]
  BY <1>11, <1>13 DEF Sound, TypeOK
<1>15. (\A d \in Sides : NoneBetter(d, best[d]))'
  <2>1. NoneBetter(side, best[side])'
    <3>1. CASE emptied /\ q = best[side]
      BY <1>12, <1>13, <3>1, ZenonT(30) DEF NoneBetter
    <3>2. CASE ~ (emptied /\ q = best[side])
      BY <1>12, <3>2, ZenonT(30) DEF Sound, NoneBetter
    <3> QED
      BY <3>1, <3>2, ZenonT(30)
  <2>2. \A d \in Sides : d # side => NoneBetter(d, best[d])'
    BY <1>12, ZenonT(30) DEF Sound, NoneBetter
  <2> QED
    BY <2>1, <2>2
<1>16. BitsExact'
  <2>1. ASSUME NEW d \in Sides, NEW x \in Prices
        PROVE  x \in bits'[d] <=> levels'[d][x] # <<>>
    <3>1. CASE d = side /\ x = q
      BY <1>6, <1>9, <1>10, <1>12, <3>1, ZenonT(30)
    <3>2. CASE ~ (d = side /\ x = q)
      <4>1. levels'[d][x] = levels[d][x]
        BY <1>6, <3>2
      <4>2. x \in bits'[d] <=> x \in bits[d]
        BY <1>12, <3>2, ZenonT(30)
      <4> QED
        BY <4>1, <4>2 DEF Sound, BitsExact
    <3> QED
      BY <3>1, <3>2
  <2> QED
    BY <2>1 DEF BitsExact
<1>17. NeverCrossed'
  <2>1. \A d \in Sides, x \in Prices : levels'[d][x] # <<>> => levels[d][x] # <<>>
    BY <1>6, <1>10, ZenonT(30) DEF level
  <2> QED
    BY <2>1 DEF Sound, NeverCrossed, Sides
<1>18. CursorBound'
  BY <1>1, <1>7 DEF CursorBound
<1>19. TypeOK'
  <2>1. itch' = <<Msg("X", s, side, q, order[s].qty)>>
    BY <1>2, ZenonT(30) DEF Cancel
  <2>2. itch' \in Seq([type : {"A", "E", "X"}, slot : Slots, side : Sides, price : Prices, qty : 0 .. MaxQty])
    BY <1>1, <2>1, DeleteMessage, ZenonT(30)
  <2>3. /\ reported' \in [Slots -> {"none", "NEW", "PARTIAL_FILL", "FILLED", "CANCELED", "REJECTED"}]
        /\ acked' \in [Slots -> Nat]
    BY DEF Cancel, Kept, Sound, TypeOK
  <2> QED
    BY <1>1, <1>6, <1>7, <1>12, <1>14, <2>2, <2>3, ZenonT(30) DEF Sound, TypeOK
<1> QED
  BY <1>9, <1>15, <1>16, <1>17, <1>18, <1>19 DEF Sound

-----------------------------------------------------------------------------
LEMMA NextSound == Sound /\ [Next]_vars => Sound'
<1> SUFFICES ASSUME Sound, [Next]_vars PROVE Sound'
  OBVIOUS
<1>1. ASSUME NEW s \in Slots, NEW c \in Clients, NEW side \in Sides, NEW price \in QuotePrices,
             NEW qty \in 1 .. MaxQty, Submit(s, c, side, price, qty)
      PROVE  Sound'
  BY <1>1, SubmitSound
<1>2. ASSUME NEW s \in Slots, Discard(s) PROVE Sound'
  BY <1>2, DiscardSound
<1>3. CASE MatchStep
  BY <1>3, SkipEmptyLevelSound, SelfTradeSound, FillSound, RestSound, DoneSound DEF MatchStep
<1>4. ASSUME NEW s \in Slots, Cancel(s) PROVE Sound'
  BY <1>4, CancelSound
<1>5. CASE UNCHANGED vars
  <2>1. /\ order' = order /\ levels' = levels /\ bits' = bits /\ best' = best /\ cur' = cur
        /\ orders_by_id' = orders_by_id /\ p' = p /\ itch' = itch /\ reported' = reported /\ acked' = acked
    BY <1>5 DEF vars, bookVars
  <2>2. Linked'
    BY <2>1, NothingUnlinked, Zenon DEF Sound, Linked, StillResting
  <2>3. TypeOK'
    BY <2>1, ZenonT(30) DEF Sound, TypeOK
  <2>4. CursorBound'
    BY <2>1, ZenonT(30) DEF Sound, CursorBound, NoneBetter, Opposite, Incoming
  <2>5. (BitsExact /\ (\A d \in Sides : NoneBetter(d, best[d])) /\ NeverCrossed)'
    BY <2>1 DEF Sound, BitsExact, NoneBetter, NeverCrossed
  <2> QED
    BY <2>2, <2>3, <2>4, <2>5, Zenon DEF Sound
<1> QED
  BY <1>1, <1>2, <1>3, <1>4, <1>5 DEF Next, Match

(***************************************************************************)
(* Whatever is submitted, matched and cancelled, the parts of the book     *)
(* agree at every iteration of match_order() and after every               *)
(* cancel_order(): a bit is set just when its level holds an order, the    *)
(* cached best prices and the cursor hide no level, orders_by_id names     *)
(* exactly the linked orders, and the book is never crossed.               *)
(***************************************************************************)
THEOREM BookAgrees == Spec => []BookInv
<1>1. Init => Sound
  BY InitSound
<1>2. Sound /\ [Next]_vars => Sound'
  BY NextSound
<1>3. BookInv <=> Sound
  BY SoundIsBookInv
<1> QED
  BY <1>1, <1>2, <1>3, PTL DEF Spec

-----------------------------------------------------------------------------
(* What the owners and the audit trail are told.                           *)

\* An incoming order with nothing left was last called FILLED.
FilledSaid == cur # NoSlot /\ Incoming.qty = 0 => reported[cur] = "FILLED"

\* The last word on every order that leaves its slot in this step is true.
LeavesTruly ==
    \A s \in Slots :
        order[s] # NoOrder /\ order'[s] = NoOrder =>
            reported'[s] \in IF acked'[s] = order[s].asked THEN {"FILLED"} ELSE {"CANCELED", "REJECTED"}

Told == Sound /\ SharesConserved /\ FilledSaid

\* A call that starts forgets only what was said of free slots.
LEMMA KeptOccupied ==
    ASSUME acked' = Kept(acked, 0)
    PROVE  \A x \in Slots : acked'[x] = IF order[x] = NoOrder THEN 0 ELSE acked[x]
BY DEF Kept

\* The numbers of an order in a slot.
LEMMA Amounts ==
    ASSUME Told, NEW s \in Slots, order[s] # NoOrder
    PROVE  /\ acked[s] \in Nat /\ order[s].qty \in Nat /\ order[s].asked \in Nat
           /\ acked[s] + order[s].qty = order[s].asked
BY MaxQtyAssumption DEF Told, Sound, TypeOK, Orders, SharesConserved

LEMMA SubmitTold ==
    ASSUME Told, NEW s \in Slots, NEW c \in Clients, NEW side \in Sides,
           NEW price \in QuotePrices, NEW qty \in 1 .. MaxQty, Submit(s, c, side, price, qty)
    PROVE  SharesConserved' /\ FilledSaid' /\ LeavesTruly
<1> DEFINE new == [client |-> c, side |-> side, price |-> price, qty |-> qty, asked |-> qty]
<1>1. /\ order'[s] = new /\ \A x \in Slots : x # s => order'[x] = order[x]
      /\ order[s] = NoOrder /\ cur' = s
  BY ZenonT(30) DEF Told, Sound, TypeOK, Submit
<1> order'[s].qty = qty /\ 0 + order'[s].qty = order'[s].asked /\ qty # 0
  <2>1. PICK o : o = new
    BY Zenon
  <2>2. o.qty = qty /\ o.asked = qty
    BY <2>1, ZenonT(30)
  <2> QED
    BY <1>1, <2>1, <2>2, Positive, Zenon
<1> HIDE DEF new
<1>2. \A x \in Slots : acked'[x] = IF order[x] = NoOrder THEN 0 ELSE acked[x]
  <2>1. acked' = Kept(acked, 0)
    BY ZenonT(30) DEF Submit
  <2> QED
    BY <2>1, KeptOccupied
<1>3. SharesConserved'
  <2>1. ASSUME NEW x \in Slots, order'[x] # NoOrder
        PROVE  acked'[x] + order'[x].qty = order'[x].asked
    <3>1. CASE x = s
      BY <1>1, <1>2, <3>1, ZenonT(30)
    <3>2. CASE x # s
      BY <1>1, <1>2, <2>1, <3>2 DEF Told, SharesConserved
    <3> QED
      BY <3>1, <3>2, ZenonT(30)
  <2> QED
    BY <2>1 DEF SharesConserved
<1>4. FilledSaid'
  <2>1. Incoming.qty' = qty /\ qty # 0
    BY <1>1, Zenon DEF Incoming
  <2> QED
    BY <2>1, ZenonT(30) DEF FilledSaid
<1>5. LeavesTruly
  BY <1>1, ZenonT(30) DEF LeavesTruly
<1> QED
  BY <1>3, <1>4, <1>5, Zenon

\* Nothing happens to the orders: Discard, SkipEmptyLevel, Rest.
LEMMA OrdersKeptTold ==
    ASSUME Told, order' = order, \A x \in Slots : order[x] # NoOrder => acked'[x] = acked[x],
           \/ cur' = NoSlot
           \/ cur' = cur /\ reported' = reported
    PROVE  SharesConserved' /\ FilledSaid' /\ LeavesTruly
BY DEF Told, SharesConserved, FilledSaid, LeavesTruly, Incoming

\* The order in match_order() leaves: SelfTrade, Done.
LEMMA LeavesTold ==
    ASSUME Told, cur # NoSlot, order' = [order EXCEPT ![cur] = NoOrder], cur' = NoSlot,
           acked' = acked, reported'[cur] = IF Incoming.qty = 0 THEN "FILLED" ELSE "REJECTED"
    PROVE  SharesConserved' /\ FilledSaid' /\ LeavesTruly
<1>1. cur \in Slots /\ order[cur] # NoOrder /\ order[cur].qty = Incoming.qty
  BY DEF Told, Sound, TypeOK, Incoming
<1>2. order'[cur] = NoOrder /\ \A x \in Slots : x # cur => order'[x] = order[x]
  BY <1>1 DEF Told, Sound, TypeOK
<1>3. SharesConserved'
  BY <1>2 DEF Told, SharesConserved
<1>4. FilledSaid'
  BY DEF FilledSaid
<1>5. acked'[cur] = order[cur].asked <=> Incoming.qty = 0
  <2>1. /\ acked[cur] \in Nat /\ Incoming.qty \in Nat /\ order[cur].asked \in Nat
        /\ acked[cur] + Incoming.qty = order[cur].asked
    BY <1>1, Amounts
  <2> QED
    BY <2>1
<1>6. LeavesTruly
  BY <1>2, <1>5 DEF LeavesTruly
<1> QED
  BY <1>3, <1>4, <1>6

LEMMA FillTold ==
    ASSUME Told, Fill
    PROVE  SharesConserved' /\ FilledSaid' /\ LeavesTruly
<1> USE DEF Told
<1>1. PICK r \in Slots : AtHead(r)
  <2>1. cur # NoSlot /\ p # -1 /\ levels[Opposite][p] # <<>>
    BY Zenon DEF Fill, InLoop
  <2> QED
    BY <2>1, HeadFacts DEF AtHead
<1>2. /\ cur \in Slots /\ cur' = cur /\ r # cur
      /\ order[cur] \in Orders /\ order[r] \in Orders
  BY <1>1, FillParties
<1>3. PICK n \in 1 .. MaxQty, k \in 1 .. MaxQty : n = order[cur].qty /\ k = order[r].qty
  BY <1>1, FillParties DEF Incoming
<1>4. PICK m \in 1 .. MaxQty : m = Traded(n, k)
  BY TradeNumbers
<1>6. /\ Reduced(order'[cur], order[cur], n - m)
      /\ n >= k => order'[r] = NoOrder
      /\ n < k => Reduced(order'[r], order[r], k - n)
      /\ \A s \in Slots : s # cur /\ s # r => order'[s] = order[s]
  BY <1>1, <1>3, <1>4, FillEffect, ZenonT(30) DEF Incoming
<1>7. /\ acked'[cur] = acked[cur] + m /\ acked'[r] = acked[r] + m
      /\ \A s \in Slots : s # cur /\ s # r => acked'[s] = acked[s]
      /\ reported'[cur] = FillState(n, k) /\ reported'[r] = FillState(k, n)
  BY <1>1, <1>3, <1>4, FillSays, ZenonT(30) DEF Incoming
<1>8. /\ acked[cur] \in Nat /\ order[cur].asked \in Nat /\ acked[cur] + n = order[cur].asked
      /\ acked[r] \in Nat /\ order[r].asked \in Nat /\ acked[r] + k = order[r].asked
  BY <1>2, <1>3, Amounts, NoOrderAssumption
<1>9. SharesConserved'
  <2>1. acked'[cur] + order'[cur].qty = order'[cur].asked
    <3>1. Reduced(order'[cur], order[cur], n - m) /\ acked'[cur] = acked[cur] + m
      BY <1>6, <1>7, Zenon
    <3>2. order'[cur].qty = n - m /\ order'[cur].asked = order[cur].asked
      BY <3>1, Zenon DEF Reduced
    <3>3. acked[cur] + m + (n - m) = acked[cur] + n
      BY <1>8, StillConserved, ZenonT(30)
    <3> QED
      BY <1>8, <3>1, <3>2, <3>3, ZenonT(30)
  <2>2. order'[r] # NoOrder => acked'[r] + order'[r].qty = order'[r].asked
    <3> SUFFICES ASSUME order'[r] # NoOrder PROVE acked'[r] + order'[r].qty = order'[r].asked
      BY ZenonT(30)
    <3>1. n < k /\ m = n
      BY <1>4, <1>6, Comparable, TradeCases, Zenon
    <3> QED
      <4>1. Reduced(order'[r], order[r], k - n) /\ acked'[r] = acked[r] + n
        BY <1>6, <1>7, <3>1, Zenon
      <4>2. order'[r].qty = k - n /\ order'[r].asked = order[r].asked
        BY <4>1, Zenon DEF Reduced
      <4>3. acked[r] + n + (k - n) = order[r].asked
        BY <1>8, StillConserved, ZenonT(30)
      <4> QED
        BY <4>1, <4>2, <4>3, Zenon
  <2>3. \A s \in Slots : s # cur /\ s # r /\ order'[s] # NoOrder => acked'[s] + order'[s].qty = order'[s].asked
    BY <1>6, <1>7, ZenonT(30) DEF SharesConserved
  <2> QED
    BY <2>1, <2>2, <2>3, ZenonT(30) DEF SharesConserved
<1>10. FilledSaid'
  <2>1. n - m = 0 => FillState(n, k) = "FILLED"
    BY <1>4, TradeCases, Zenon
  <2>2. Incoming.qty' = n - m
    BY <1>2, <1>6, ZenonT(30) DEF Incoming, Reduced
  <2> QED
    BY <1>2, <1>7, <2>1, <2>2 DEF FilledSaid
<1>11. LeavesTruly
  <2>1. n >= k => FillState(k, n) = "FILLED" /\ acked'[r] = order[r].asked
    BY <1>4, <1>7, <1>8, TradeCases, Zenon
  <2>2. order'[r] = NoOrder => n >= k
    BY <1>6, Comparable, Zenon DEF Reduced
  <2>3. order'[cur] # NoOrder
    BY <1>6, ZenonT(30) DEF Reduced
  <2> QED
    BY <1>6, <1>7, <2>1, <2>2, <2>3, ZenonT(30) DEF LeavesTruly
<1> QED
  BY <1>9, <1>10, <1>11, ZenonT(30)

LEMMA CancelTold ==
    ASSUME Told, NEW s \in Slots, Cancel(s)
    PROVE  SharesConserved' /\ FilledSaid' /\ LeavesTruly
<1>1. s \in orders_by_id /\ order[s] # NoOrder /\ order[s].qty > 0 /\ cur' = NoSlot
  BY ZenonT(30) DEF Cancel, Told, Sound, Linked
<1>2. order'[s] = NoOrder /\ \A x \in Slots : x # s => order'[x] = order[x]
  BY Zenon DEF Cancel, Told, Sound, TypeOK
<1>3. /\ \A x \in Slots : acked'[x] = IF order[x] = NoOrder THEN 0 ELSE acked[x]
      /\ reported'[s] = "CANCELED"
  <2>1. acked' = Kept(acked, 0)
    BY Zenon DEF Cancel
  <2>2. reported'[s] = "CANCELED"
    BY ZenonT(30) DEF Cancel, Kept
  <2> QED
    BY <2>1, <2>2, KeptOccupied
<1>4. SharesConserved'
  BY <1>2, <1>3 DEF Told, SharesConserved
<1>5. acked'[s] # order[s].asked
  BY <1>1, <1>3, Amounts
<1> QED
  BY <1>1, <1>2, <1>3, <1>4, <1>5, ZenonT(30) DEF FilledSaid, LeavesTruly

LEMMA NextTold == Told /\ [Next]_vars => Told' /\ (LeavesTruly \/ UNCHANGED vars)
<1> SUFFICES ASSUME Told, [Next]_vars
             PROVE  SharesConserved' /\ FilledSaid' /\ (LeavesTruly \/ UNCHANGED vars)
  BY NextSound DEF Told
<1>1. ASSUME NEW s \in Slots, NEW c \in Clients, NEW side \in Sides, NEW price \in QuotePrices,
             NEW qty \in 1 .. MaxQty, Submit(s, c, side, price, qty)
      PROVE  SharesConserved' /\ FilledSaid' /\ LeavesTruly
  BY <1>1, SubmitTold
<1>2. ASSUME NEW s \in Slots, Discard(s)
      PROVE  SharesConserved' /\ FilledSaid' /\ LeavesTruly
  <2>1. order' = order /\ cur' = NoSlot
    BY <1>2 DEF Discard, bookVars
  <2>2. \A x \in Slots : order[x] # NoOrder => acked'[x] = acked[x]
    BY <1>2, KeptOccupied, Zenon DEF Discard
  <2> QED
    BY <2>1, <2>2, OrdersKeptTold
<1>3. CASE SkipEmptyLevel
  BY <1>3, OrdersKeptTold, Zenon DEF SkipEmptyLevel
<1>4. CASE Rest
  BY <1>4, OrdersKeptTold DEF Rest
<1>5. CASE Fill
  BY <1>5, FillTold, ZenonT(30)
<1>6. CASE SelfTrade
  <2>1. cur # NoSlot /\ cur \in Slots /\ Incoming.qty > 0
    BY <1>6, ZenonT(30) DEF SelfTrade, InLoop, Told, Sound, TypeOK
  <2>2. reported'[cur] = "REJECTED" /\ Incoming.qty # 0
    BY <1>6, <2>1, NotZero, Zenon DEF SelfTrade, Told, Sound, TypeOK
  <2> QED
    BY <1>6, <2>1, <2>2, LeavesTold, ZenonT(30) DEF SelfTrade
<1>7. CASE Done
  <2>1. reported' = reported /\ reported[cur] = "FILLED" /\ Incoming.qty = 0
    BY <1>7, Zenon DEF Done, Told, FilledSaid
  <2> QED
    BY <1>7, <2>1, LeavesTold, ZenonT(30) DEF Done
<1>8. ASSUME NEW s \in Slots, Cancel(s)
      PROVE  SharesConserved' /\ FilledSaid' /\ LeavesTruly
  BY <1>8, CancelTold, Zenon
<1>9. CASE UNCHANGED vars
  <2>1. order' = order /\ cur' = cur /\ reported' = reported /\ acked' = acked
    BY <1>9, Zenon DEF vars, bookVars
  <2> QED
    BY <2>1, OrdersKeptTold, ZenonT(30)
<1> QED
  BY <1>1, <1>2, <1>3, <1>4, <1>5, <1>6, <1>7, <1>8, <1>9, ZenonT(30) DEF Next, Match, MatchStep

LEMMA SpecTold == Spec => []Told
<1>1. Init => Told
  BY InitSound DEF Init, Told, SharesConserved, FilledSaid
<1>2. Told /\ [Next]_vars => Told'
  BY NextTold
<1> QED
  BY <1>1, <1>2, PTL DEF Spec

(***************************************************************************)
(* The execution reports an owner gets and what match_order() leaves open  *)
(* always add up to what was asked for, for both parties of every trade.   *)
(***************************************************************************)
THEOREM NoSharesLost == Spec => []SharesConserved
<1>1. Told => SharesConserved
  BY DEF Told
<1> QED
  BY <1>1, SpecTold, PTL

(***************************************************************************)
(* When an order leaves its slot, by match_order() or cancel_order(), its  *)
(* last drop copy is FILLED just when its owner was told of all its        *)
(* shares.  It rests on Told: an incoming order with nothing left has been *)
(* called FILLED by the execution that took its last share.                *)
(***************************************************************************)
THEOREM LastReportTrue == Spec => FinalReportTrue
<1>1. Told /\ [Next]_vars =>
         [\A s \in Slots :
            order[s] # NoOrder /\ order'[s] = NoOrder =>
               reported'[s] \in IF acked'[s] = order[s].asked THEN {"FILLED"}
                                ELSE {"CANCELED", "REJECTED"}]_vars
  BY NextTold DEF LeavesTruly
<1> QED
  BY <1>1, SpecTold, PTL DEF Spec, FinalReportTrue

-----------------------------------------------------------------------------
(* Progress of match_order().                                              *)

\* LadderLeft for a side and a cursor.
Ladder(side, q) == IF q = -1 THEN 0 ELSE IF side = "S" THEN MAX_PRICE - q ELSE q + 1

LEMMA LadderShrinks ==
    ASSUME NEW side \in Sides, NEW q \in Prices, NEW next \in Prices \cup {-1},
           next # -1 => IF side = "B" THEN next < q ELSE q < next
    PROVE  Ladder(side, next) \in Nat /\ Ladder(side, q) \in Nat /\ Ladder(side, next) < Ladder(side, q)
BY MaxPriceAssumption DEF Ladder, Prices, Sides

\* The iteration leaves less to trade or less of the ladder.
Shrinks == Incoming.qty' + LadderLeft' < Incoming.qty + LadderLeft

LEMMA SkipShrinks == ASSUME Sound, SkipEmptyLevel PROVE Shrinks
<1>1. cur # NoSlot /\ p \in Prices /\ NoneBetter(Opposite, p)
  BY DEF SkipEmptyLevel, InLoop, Sound, TypeOK, CursorBound
<1>2. PICK opp \in Sides : opp = Opposite
  BY <1>1, IncomingFacts
<1>3. p' \in Prices \cup {-1} /\ (p' # -1 => IF opp = "B" THEN p' < p ELSE p < p')
  BY <1>1, <1>2, LeaveLevelEffect, ZenonT(30) DEF SkipEmptyLevel, Sound
<1>4. Opposite' = opp /\ Incoming.qty' = Incoming.qty /\ Incoming.qty \in 0 .. MaxQty
  BY <1>1, <1>2, IncomingFacts DEF SkipEmptyLevel, Opposite, Incoming
<1>5. LadderLeft = Ladder(opp, p) /\ LadderLeft' = Ladder(opp, p')
  BY <1>2, <1>4 DEF LadderLeft, Ladder
<1>6. Ladder(opp, p') \in Nat /\ Ladder(opp, p) \in Nat /\ Ladder(opp, p') < Ladder(opp, p)
  BY <1>1, <1>3, LadderShrinks, ZenonT(30)
<1> QED
  BY <1>4, <1>5, <1>6, MaxQtyAssumption DEF Shrinks

LEMMA FillShrinks == ASSUME Sound, Fill PROVE Shrinks
<1>1. cur # NoSlot /\ p # -1 /\ levels[Opposite][p] # <<>> /\ p \in Prices
  BY Zenon DEF Fill, InLoop, Sound, TypeOK
<1>2. PICK r \in Slots : AtHead(r)
  BY <1>1, HeadFacts DEF AtHead
<1>3. PICK opp \in Sides : opp = Opposite
  BY <1>1, IncomingFacts
<1>4. PICK n \in 1 .. MaxQty, k \in 1 .. MaxQty : n = Incoming.qty /\ k = order[r].qty
  BY <1>2, FillParties
<1>5. PICK m \in 1 .. MaxQty : m = Traded(n, k)
  BY TradeNumbers
<1>6. Incoming.qty' = n - m /\ Opposite' = opp
  <2>1. Reduced(order'[cur], order[cur], n - m) /\ cur' = cur
    BY <1>2, <1>4, <1>5, FillParties, FillEffect, ZenonT(30)
  <2> QED
    BY <1>3, <2>1, ZenonT(30) DEF Reduced, Incoming, Opposite
<1>7. LadderLeft = Ladder(opp, p) /\ LadderLeft' = Ladder(opp, p')
  BY <1>3, <1>6, ZenonT(30) DEF LadderLeft, Ladder
<1>8. Ladder(opp, p') \in Nat /\ Ladder(opp, p) \in Nat /\ Ladder(opp, p') <= Ladder(opp, p)
  <2>1. CASE LeaveLevel(opp)
    <3>1. NoneBetter(opp, p)
      BY <1>1, <1>3, ZenonT(30) DEF Sound, CursorBound
    <3>2. p' \in Prices \cup {-1} /\ (p' # -1 => IF opp = "B" THEN p' < p ELSE p < p')
      BY <1>1, <2>1, <3>1, LeaveLevelEffect, ZenonT(30) DEF Sound
    <3>3. Ladder(opp, p') \in Nat /\ Ladder(opp, p) \in Nat /\ Ladder(opp, p') < Ladder(opp, p)
      BY <1>1, <3>2, LadderShrinks
    <3> QED
      BY <3>3
  <2>2. CASE p' = p
    <3>1. Ladder(opp, p) \in Nat
      BY <1>1, MaxPriceAssumption DEF Ladder, Prices
    <3> QED
      BY <2>2, <3>1
  <2> QED
    BY <1>2, <1>3, <2>1, <2>2, FillBook
<1> QED
  BY <1>4, <1>6, <1>7, <1>8, MaxQtyAssumption DEF Shrinks

(***************************************************************************)
(* match_order() terminates: every iteration of its loop lowers what the   *)
(* incoming order still wants plus what the cursor has left of the ladder. *)
(* Both are naturals in every state of the book, so the loop cannot run    *)
(* forever, whatever stale price the cursor started from.                  *)
(***************************************************************************)
THEOREM MatchTerminates == Spec => MatchProgresses
<1>1. Sound /\ [Next]_vars =>
         [cur # NoSlot /\ cur' = cur => Incoming.qty' + LadderLeft' < Incoming.qty + LadderLeft]_vars
  <2> SUFFICES ASSUME Sound, Next, cur # NoSlot, cur' = cur PROVE Shrinks
    BY ZenonT(30) DEF Shrinks
  <2>1. \A s \in Slots : ~ Discard(s) /\ ~ Cancel(s)
    BY DEF Discard, Cancel
  <2>2. \A s \in Slots, c \in Clients, side \in Sides, price \in QuotePrices, qty \in 1 .. MaxQty :
           ~ Submit(s, c, side, price, qty)
    BY ZenonT(30) DEF Submit
  <2>3. ~ SelfTrade /\ ~ Rest /\ ~ Done
    BY DEF SelfTrade, Rest, Done
  <2> QED
    BY <2>1, <2>2, <2>3, SkipShrinks, FillShrinks DEF Next, Match, MatchStep
<1>2. Init => Sound
  BY InitSound
<1>3. Sound /\ [Next]_vars => Sound'
  BY NextSound
<1> QED
  BY <1>1, <1>2, <1>3, PTL DEF Spec, MatchProgresses

-----------------------------------------------------------------------------
(* Refinement of BookLife.                                                 *)

LEMMA FillImplements == ASSUME Sound, Fill PROVE [Life!Next]_Life!lifeVars
<1>1. cur # NoSlot /\ p # -1 /\ levels[Opposite][p] # <<>> /\ cur' = cur
  BY ZenonT(30) DEF Fill, InLoop
<1>2. PICK r \in Slots : AtHead(r)
  BY <1>1, HeadFacts, ZenonT(30) DEF AtHead
<1>3. r \in orders_by_id
  BY <1>1, <1>2, HeadFacts
<1>4. orders_by_id' = orders_by_id \ {r} \/ orders_by_id' = orders_by_id
  BY <1>2, FillBook, ZenonT(30)
<1>5. CASE orders_by_id' = orders_by_id \ {r}
  BY <1>1, <1>3, <1>5 DEF Life!Next, Life!UseUp
<1>6. CASE orders_by_id' = orders_by_id
  BY <1>1, <1>6 DEF Life!lifeVars
<1> QED
  BY <1>4, <1>5, <1>6

(***************************************************************************)
(* The order book is a BookLife: match_order() and cancel_order() change   *)
(* orders_by_id and the order being matched only in the way ExchangeCore   *)
(* assumes when it builds the exchange on that machine.                    *)
(***************************************************************************)
THEOREM BookIsBookLife == Spec => ImplementsBookLife
<1>1. Init => Life!Init
  BY DEF Init, Life!Init
<1>2. Sound /\ [Next]_vars => [Life!Next]_Life!lifeVars
  <2> SUFFICES ASSUME Sound, [Next]_vars PROVE [Life!Next]_Life!lifeVars
    OBVIOUS
  <2>1. ASSUME NEW s \in Slots, NEW c \in Clients, NEW side \in Sides, NEW price \in QuotePrices,
               NEW qty \in 1 .. MaxQty, Submit(s, c, side, price, qty)
        PROVE  Life!Next
    <3>1. order[s] = NoOrder /\ cur = NoSlot /\ cur' = s /\ orders_by_id' = orders_by_id
      BY <2>1, Zenon DEF Submit
    <3>2. s \notin orders_by_id
      BY <3>1, Zenon DEF Sound, Linked
    <3> QED
      BY <3>1, <3>2, Zenon DEF Life!Next, Life!Begin
  <2>2. ASSUME NEW s \in Slots, Discard(s)
        PROVE  UNCHANGED Life!lifeVars
    BY <2>2, ZenonT(30) DEF Discard, bookVars, Life!lifeVars
  <2>3. CASE SkipEmptyLevel
    BY <2>3 DEF SkipEmptyLevel, Life!lifeVars
  <2>4. CASE SelfTrade \/ Done
    <3>1. cur # NoSlot /\ cur' = NoSlot /\ orders_by_id' = orders_by_id
      BY <2>4, Zenon DEF SelfTrade, InLoop, Done
    <3> QED
      BY <3>1, Zenon DEF Life!Next, Life!Leaves
  <2>5. CASE Fill
    BY <2>5, FillImplements
  <2>6. CASE Rest
    BY <2>6 DEF Rest, Life!Next, Life!ComesToRest
  <2>7. ASSUME NEW s \in Slots, Cancel(s)
        PROVE  Life!Next
    <3>1. s \in orders_by_id /\ cur = NoSlot /\ cur' = cur /\ orders_by_id' = orders_by_id \ {s}
      BY <2>7, ZenonT(30) DEF Cancel
    <3> QED
      BY <3>1, ZenonT(30) DEF Life!Next, Life!Remove
  <2>8. CASE UNCHANGED vars
    BY <2>8 DEF vars, bookVars, Life!lifeVars
  <2> QED
    BY <2>1, <2>2, <2>3, <2>4, <2>5, <2>6, <2>7, <2>8 DEF Next, Match, MatchStep
<1>3. Init => Sound
  BY InitSound
<1>4. Sound /\ [Next]_vars => Sound'
  BY NextSound
<1> QED
  BY <1>1, <1>2, <1>3, <1>4, PTL DEF Spec, ImplementsBookLife, Life!Spec
=============================================================================
