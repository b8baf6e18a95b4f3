------------------------- MODULE ObservedBookProofs -------------------------
(***************************************************************************)
(* Proofs about ObservedBook, for any number of slots, clients, prices and *)
(* shares and any word size: the two-level bitmaps of price_ladder.h find  *)
(* what a scan of the levels would find, and a level is served in the      *)
(* order of arrival.                                                       *)
(***************************************************************************)
EXTENDS ObservedBook, OrderBookProofs

-----------------------------------------------------------------------------
(* The words and bits of the two-level bitmap.                             *)

At(w, b) == w * W + b

LEMMA Times ==
    ASSUME NEW v \in Nat, NEW w \in Nat, v < w
    PROVE  v * W + W <= w * W
<1>1. PICK d \in Nat : w = v + 1 + d
  <2>1. w - v - 1 \in Nat /\ w = v + 1 + (w - v - 1)
    OBVIOUS
  <2> QED
    BY <2>1, Zenon
<1>2. (v + 1 + d) * W = v * W + W + d * W
  BY LadderAssumption
<1>3. v * W \in Nat /\ d * W \in Nat
  BY LadderAssumption
<1> QED
  BY <1>1, <1>2, <1>3, LadderAssumption

LEMMA AtTypes ==
    ASSUME NEW w \in Nat, NEW b \in Bits
    PROVE  At(w, b) \in Nat /\ b \in Nat /\ w * W \in Nat /\ b < W /\ w * W <= At(w, b)
  BY LadderAssumption DEF At, Bits

LEMMA AtBefore ==
    ASSUME NEW v \in Nat, NEW w \in Nat, NEW a \in Bits, NEW b \in Bits
    PROVE  /\ v < w => At(v, a) < At(w, b)
           /\ v = w => (At(v, a) < At(w, b) <=> a < b)
<1>1. v * W \in Nat /\ w * W \in Nat /\ a \in Nat /\ b \in Nat /\ a < W
  BY AtTypes
<1>2. v < w => v * W + W <= w * W
  BY Times
<1>3. PICK x \in Nat, y \in Nat : x = v * W /\ y = w * W
  BY <1>1
<1> QED
  BY <1>1, <1>2, <1>3, LadderAssumption DEF At

LEMMA AtOnce ==
    ASSUME NEW v \in Nat, NEW w \in Nat, NEW a \in Bits, NEW b \in Bits, At(v, a) = At(w, b)
    PROVE  v = w /\ a = b
<1>1. v * W \in Nat /\ w * W \in Nat /\ a \in Nat /\ b \in Nat
  BY AtTypes
<1>2. v = w
  <2>1. ~ (At(v, a) < At(w, b)) /\ ~ (At(w, b) < At(v, a))
    BY AtTypes
  <2> QED
    BY <2>1, AtBefore
<1> QED
  BY <1>1, <1>2 DEF At

LEMMA Splits ==
    ASSUME NEW n \in Nat
    PROVE  n \div W \in Nat /\ n % W \in Bits /\ n = At(n \div W, n % W)
<1>1. n \div W \in Int /\ n % W \in Bits /\ n = W * (n \div W) + (n % W)
  BY LadderAssumption DEF Bits
<1>2. n \div W \in Nat
  BY LadderAssumption
<1> QED
  BY <1>1, <1>2, LadderAssumption DEF At

LEMMA Parts ==
    ASSUME NEW w \in Nat, NEW b \in Bits, NEW n, n = At(w, b)
    PROVE  n \in Nat /\ n \div W = w /\ n % W = b
<1>1. n \in Nat
  BY AtTypes
<1>2. n \div W \in Nat /\ n % W \in Bits /\ At(n \div W, n % W) = At(w, b)
  BY <1>1, Splits
<1> QED
  BY <1>1, <1>2, AtOnce

\* A price stands in a word of the bitmap, and a word in a group of the summary.
LEMMA Divides ==
    ASSUME NEW a \in Nat, NEW V \in Nat, V > 0
    PROVE  a \div V \in Int /\ a < V * (a \div V) + V
<1>1. a \div V \in Int /\ a = V * (a \div V) + (a % V) /\ a % V < V /\ a % V \in Int
  OBVIOUS
<1>2. PICK z \in Int : z = V * (a \div V)
  BY <1>1
<1> QED
  BY <1>1, <1>2

LEMMA WordsEnough ==
    ASSUME NEW w \in Nat, NEW b \in Bits, At(w, b) <= MAX_PRICE
    PROVE  w \in 0 .. NumWords - 1
<1>1. MAX_PRICE \div W \in Nat /\ MAX_PRICE % W \in Bits /\ MAX_PRICE = At(MAX_PRICE \div W, MAX_PRICE % W)
  BY Splits, MaxPriceAssumption
<1>2. ~ (MAX_PRICE \div W < w)
  <2>1. MAX_PRICE \div W < w => MAX_PRICE < At(w, b)
    BY <1>1, AtBefore
  <2> QED
    BY <2>1, AtTypes, MaxPriceAssumption
<1> QED
  BY <1>1, <1>2 DEF NumWords

LEMMA GroupsEnough ==
    ASSUME NEW g \in Nat, NEW i \in Bits, At(g, i) \in 0 .. NumWords - 1
    PROVE  g \in 0 .. NumL2 - 1
<1>1. MAX_PRICE \div W \in Nat /\ MAX_PRICE % W \in Bits /\ MAX_PRICE = At(MAX_PRICE \div W, MAX_PRICE % W)
  BY Splits, MaxPriceAssumption
<1>2. PICK m \in Nat : m = MAX_PRICE \div W
  BY <1>1
<1>3. g * W <= m /\ g * W \in Nat
  BY <1>1, <1>2, AtTypes DEF NumWords
<1>4. (g * W) * W <= m * W
  <2>1. g * W = m \/ g * W < m
    BY <1>3
  <2>2. g * W < m => (g * W) * W + W <= m * W
    BY <1>3, Times
  <2>3. (g * W) * W \in Nat /\ m * W \in Nat
    BY <1>3, LadderAssumption
  <2> QED
    BY <2>1, <2>2, <2>3, LadderAssumption
<1>5. (g * W) * W = g * (W * W)
  BY LadderAssumption
<1>6. m * W <= MAX_PRICE
  BY <1>1, <1>2, AtTypes
<1>7. PICK V \in Nat : V = W * W /\ V > 0
  <2>1. W * W \in Nat /\ W * W > 0
    BY LadderAssumption
  <2> QED
    BY <2>1
<1>8. g * V <= MAX_PRICE
  BY <1>3, <1>4, <1>5, <1>6, <1>7, LadderAssumption, MaxPriceAssumption
<1>9. PICK z \in Int : z = MAX_PRICE \div V
  BY <1>7, MaxPriceAssumption
<1>10. MAX_PRICE < V * z + V
  BY <1>7, <1>9, Divides, MaxPriceAssumption
<1>11. g <= z
  <2> SUFFICES ASSUME z + 1 <= g PROVE FALSE
    BY <1>9
  <2>1. PICK d \in Nat : g = z + 1 + d
    <3>1. g - z - 1 \in Nat /\ g = z + 1 + (g - z - 1)
      BY <1>9
    <3> QED
      BY <3>1, Zenon
  <2>2. g * V = z * V + V + d * V /\ d * V \in Nat /\ z * V = V * z /\ z * V \in Int
    BY <2>1, <1>7, <1>9
  <2> QED
    BY <2>2, <1>8, <1>10, <1>7, <1>9, MaxPriceAssumption
<1> QED
  BY <1>7, <1>9, <1>11 DEF NumL2

LEMMA MinOf ==
    ASSUME NEW T, T \subseteq Nat, T # {}
    PROVE  LowestOf(T) \in T /\ \A y \in T : LowestOf(T) <= y
<1>1. PICK x \in T : \A y \in T : x <= y
  BY Least, Zenon
<1> QED
  BY <1>1, Zenon DEF LowestOf

LEMMA MaxOf ==
    ASSUME NEW N \in Nat, NEW T, T \subseteq 0 .. N, T # {}
    PROVE  HighestOf(T) \in T /\ \A y \in T : y <= HighestOf(T)
<1> DEFINE D == {N - y : y \in T}
<1>0. \A y \in T : N - y \in Nat
  OBVIOUS
<1>1. D \subseteq Nat /\ D # {}
  BY <1>0, Zenon
<1>2. PICK x \in D : \A y \in D : x <= y
  BY <1>1, Least, Zenon
<1>3. PICK z \in T : x = N - z
  BY <1>2
<1>4. \A y \in T : N - z <= N - y
  BY <1>2, <1>3
<1>5. \A y \in T : y <= z
  BY <1>4
<1>6. \E m \in T : \A y \in T : y <= m
  BY <1>5
<1> QED
  BY <1>6, Zenon DEF HighestOf

\* The words stand for the marked prices and the summary for the words.
LadderTypes ==
    /\ bitmap \in [Sides -> [0 .. NumWords - 1 -> SUBSET Bits]]
    /\ l2 \in [Sides -> [0 .. NumL2 - 1 -> SUBSET Bits]]

WordsStand ==
    \A side \in Sides : \A w \in 0 .. NumWords - 1, b \in Bits :
       b \in bitmap[side][w] <=> At(w, b) \in bits[side]

SummaryStands ==
    \A side \in Sides : \A g \in 0 .. NumL2 - 1, i \in Bits :
       i \in l2[side][g] <=> At(g, i) \in 0 .. NumWords - 1 /\ bitmap[side][At(g, i)] # {}

LadderInv == LadderTypes /\ WordsStand /\ SummaryStands

MarksTyped == bits \in [Sides -> SUBSET Prices]

Place(n, w, b, g, i) ==
    /\ w \in 0 .. NumWords - 1 /\ b \in Bits /\ n = At(w, b)
    /\ g \in 0 .. NumL2 - 1 /\ i \in Bits /\ w = At(g, i)

LEMMA Placed ==
    ASSUME NEW n \in 0 .. MAX_PRICE
    PROVE  Place(n, n \div W, n % W, (n \div W) \div W, (n \div W) % W)
<1>1. n \in Nat /\ n <= MAX_PRICE
  BY MaxPriceAssumption
<1>2. PICK w \in Nat : w = n \div W
  BY <1>1, Splits
<1>3. n % W \in Bits /\ n = At(w, n % W)
  BY <1>1, <1>2, Splits
<1>4. w \in 0 .. NumWords - 1
  BY <1>1, <1>3, WordsEnough
<1>5. w \div W \in Nat /\ w % W \in Bits /\ w = At(w \div W, w % W)
  BY Splits
<1>6. w \div W \in 0 .. NumL2 - 1
  BY <1>4, <1>5, GroupsEnough
<1> QED
  BY <1>2, <1>3, <1>4, <1>5, <1>6 DEF Place

LEMMA WhereMarked ==
    ASSUME MarksTyped, LadderInv, NEW side \in Sides, NEW r \in bits[side]
    PROVE  r \in Nat /\ \E v, c, h, j : Place(r, v, c, h, j) /\ c \in bitmap[side][v] /\ j \in l2[side][h]
<1>1. r \in 0 .. MAX_PRICE /\ r \in Nat
  BY MaxPriceAssumption DEF MarksTyped, Prices
<1>2. PICK v, c, h, j : Place(r, v, c, h, j)
  BY <1>1, Placed
<1>3. c \in bitmap[side][v]
  BY <1>2 DEF LadderInv, WordsStand, Place
<1>4. j \in l2[side][h]
  BY <1>2, <1>3, Zenon DEF LadderInv, SummaryStands, Place
<1> QED
  BY <1>1, <1>2, <1>3, <1>4

LEMMA NaturalPlaces ==
    /\ \A w \in 0 .. NumWords - 1 : w \in Nat
    /\ \A g \in 0 .. NumL2 - 1 : g \in Nat
    /\ NumWords \in Nat /\ NumL2 \in Nat
<1>1. MAX_PRICE \div W \in Nat
  BY Splits, MaxPriceAssumption
<1>2. MAX_PRICE \div (W * W) \in Int
  <2>1. W * W \in Nat /\ W * W > 0
    BY LadderAssumption
  <2> QED
    BY <2>1, Divides, MaxPriceAssumption
<1>3. MAX_PRICE \div (W * W) + 1 \in Nat
  <2>1. Place(0, 0 \div W, 0 % W, (0 \div W) \div W, (0 \div W) % W)
    BY Placed, MaxPriceAssumption
  <2>2. PICK g \in Int : g \in 0 .. NumL2 - 1
    BY <2>1 DEF Place
  <2> QED
    BY <2>2, <1>2 DEF NumL2
<1> QED
  BY <1>1, <1>2, <1>3 DEF NumWords, NumL2

\* Two prices compare as their groups, words and bits do.
LEMMA PlacesCompare ==
    ASSUME NEW n, NEW w, NEW b, NEW g, NEW i, Place(n, w, b, g, i),
           NEW r, NEW v, NEW c, NEW h, NEW j, Place(r, v, c, h, j)
    PROVE  /\ n \in Nat /\ r \in Nat /\ w \in Nat /\ v \in Nat /\ g \in Nat /\ h \in Nat
           /\ b \in Nat /\ c \in Nat /\ i \in Nat /\ j \in Nat
           /\ n < r <=> w < v \/ (w = v /\ b < c)
           /\ w < v <=> g < h \/ (g = h /\ i < j)
           /\ w = v <=> g = h /\ i = j
<1>0. n = At(w, b) /\ r = At(v, c) /\ w = At(g, i) /\ v = At(h, j)
  BY DEF Place
<1>1. /\ w \in Nat /\ v \in Nat /\ g \in Nat /\ h \in Nat
      /\ b \in Bits /\ c \in Bits /\ i \in Bits /\ j \in Bits
  BY NaturalPlaces, Zenon DEF Place
<1>2. n \in Nat /\ r \in Nat /\ b \in Nat /\ c \in Nat /\ i \in Nat /\ j \in Nat
  BY <1>0, <1>1, AtTypes
<1>3. /\ w < v => n < r
      /\ v < w => r < n
      /\ w = v => (n < r <=> b < c)
  <2>1. /\ w < v => At(w, b) < At(v, c)
        /\ w = v => (At(w, b) < At(v, c) <=> b < c)
    BY <1>1, AtBefore
  <2>2. v < w => At(v, c) < At(w, b)
    BY <1>1, AtBefore
  <2> QED
    BY <1>0, <2>1, <2>2, Zenon
<1>4. /\ g < h => w < v
      /\ h < g => v < w
      /\ g = h => (w < v <=> i < j)
  <2>1. /\ g < h => At(g, i) < At(h, j)
        /\ g = h => (At(g, i) < At(h, j) <=> i < j)
    BY <1>1, AtBefore
  <2>2. h < g => At(h, j) < At(g, i)
    BY <1>1, AtBefore
  <2> QED
    BY <1>0, <2>1, <2>2, Zenon
<1>5. w = v <=> g = h /\ i = j
  <2>1. At(g, i) = At(h, j) => g = h /\ i = j
    BY <1>1, AtOnce
  <2> QED
    BY <1>0, <2>1, Zenon
<1> QED
  BY <1>1, <1>2, <1>3, <1>4, <1>5

LEMMA NextIs ==
    ASSUME NEW side \in Sides, NEW marked, marked \subseteq Nat, NEW q \in marked,
           \A r \in marked : IF side = "B" THEN r <= q ELSE q <= r
    PROVE  find_next(side, marked) = q
<1>1. \A x \in marked : (\A r \in marked : IF side = "B" THEN r <= x ELSE x <= r) => x = q
  OBVIOUS
<1>2. marked # {}
  OBVIOUS
<1> QED
  BY <1>1, <1>2, Zenon DEF find_next, Nearest

\* The first bit of a word's part, and the least bit of a word.
LEMMA FirstBit ==
    ASSUME NEW word, word \subseteq Bits, word # {}
    PROVE  ctz(word) \in word /\ \A b \in word : ctz(word) <= b
<1>1. word \subseteq Nat
  BY DEF Bits
<1> QED
  BY <1>1, MinOf, Zenon DEF ctz

LEMMA LastBit ==
    ASSUME NEW word, word \subseteq Bits, word # {}
    PROVE  W - 1 - clz(word) \in word /\ \A b \in word : b <= W - 1 - clz(word)
<1>1. W - 1 \in Nat
  BY LadderAssumption
<1>2. HighestOf(word) \in word /\ \A b \in word : b <= HighestOf(word)
  BY <1>1, MaxOf, Zenon DEF Bits
<1>3. PICK m \in word : m = HighestOf(word)
  BY <1>2
<1>4. m \in Int /\ W - 1 - clz(word) = m
  BY <1>3, LadderAssumption DEF clz, Bits
<1> QED
  BY <1>2, <1>3, <1>4

LEMMA MarkedWord ==
    ASSUME MarksTyped, LadderInv, NEW side \in Sides,
           NEW g \in 0 .. NumL2 - 1, NEW i \in l2[side][g]
    PROVE  \E w \in 0 .. NumWords - 1 : w = At(g, i) /\ i \in Bits
              /\ bitmap[side][w] # {} /\ bitmap[side][w] \subseteq Bits
<1>1. i \in Bits
  BY Zenon DEF LadderInv, LadderTypes
<1>2. At(g, i) \in 0 .. NumWords - 1 /\ bitmap[side][At(g, i)] # {}
  BY <1>1 DEF LadderInv, SummaryStands
<1>3. bitmap[side][At(g, i)] \subseteq Bits
  BY <1>2, Zenon DEF LadderInv, LadderTypes
<1> QED
  BY <1>1, <1>2, <1>3, Zenon

LEMMA MarkedPrice ==
    ASSUME MarksTyped, LadderInv, NEW side \in Sides,
           NEW g \in 0 .. NumL2 - 1, NEW i \in Bits, NEW w \in 0 .. NumWords - 1, w = At(g, i),
           NEW b \in bitmap[side][w], NEW n, n = At(w, b)
    PROVE  n \in bits[side] /\ Place(n, w, b, g, i)
<1>1. b \in Bits
  BY Zenon DEF LadderInv, LadderTypes
<1> QED
  BY <1>1 DEF LadderInv, WordsStand, Place

LEMMA AskScan ==
    ASSUME MarksTyped, LadderInv, NEW start \in 0 .. MAX_PRICE
    PROVE  find_next_ask(start) = find_next("S", Beyond("S", bits["S"], start - 1))
<1> DEFINE marked == Beyond("S", bits["S"], start - 1)
<1>1. PICK w, b, g, i : /\ w = start \div W /\ b = start % W /\ g = w \div W /\ i = w % W
                        /\ Place(start, w, b, g, i)
  BY Placed
<1>2. PICK word : word = bitmap["S"][w] \cap {c \in Bits : c >= b}
  BY Zenon
<1>3. PICK group : group = l2["S"][g] \cap MaskAbove(i)
  BY Zenon
<1>4. PICK later : later = {h \in g + 1 .. NumL2 - 1 : l2["S"][h] # {}}
  BY ZenonT(30)
<1>5. find_next_ask(start) =
        CASE word # {} -> w * W + ctz(word)
          [] word = {} /\ group # {} -> LowestIn(g * W + ctz(group))
          [] word = {} /\ group = {} /\ later # {} -> LowestIn(LowestOf(later) * W + ctz(l2["S"][LowestOf(later)]))
          [] OTHER -> -1
  BY <1>1, <1>2, <1>3, <1>4, ZenonT(30) DEF find_next_ask
<1>6. /\ start \in Nat /\ w \in Nat /\ g \in Nat /\ b \in Nat /\ i \in Nat
      /\ w \in 0 .. NumWords - 1 /\ g \in 0 .. NumL2 - 1 /\ b \in Bits /\ i \in Bits
      /\ NumWords \in Nat /\ NumL2 \in Nat
  BY <1>1, PlacesCompare, NaturalPlaces DEF Place
<1>7. "S" \in Sides /\ "S" # "B"
  BY DEF Sides
<1>8. marked \subseteq bits["S"] /\ marked \subseteq Nat
      /\ \A r \in bits["S"] : r \in Nat /\ (r \in marked <=> start <= r)
  <2>1. \A r \in bits["S"] : r \in Nat
    BY <1>7, WhereMarked
  <2> QED
    BY <1>6, <1>7, <2>1 DEF Beyond
<1>9. \A c : c \in MaskAbove(i) <=> c \in Bits /\ i < c
  BY <1>6, LadderAssumption DEF MaskAbove, Bits
<1> HIDE DEF marked
\* Where the other marked prices are.
<1>10. ASSUME NEW r \in marked
       PROVE  \E v, c, h, j : /\ Place(r, v, c, h, j) /\ c \in bitmap["S"][v] /\ j \in l2["S"][h]
                              /\ w < v \/ (w = v /\ c \in word)
                              /\ w < v => h \in later \/ (g = h /\ j \in group)
  <2>1. PICK v, c, h, j : Place(r, v, c, h, j) /\ c \in bitmap["S"][v] /\ j \in l2["S"][h]
    BY <1>7, <1>8, WhereMarked
  <2>2. /\ r \in Nat /\ v \in Nat /\ c \in Nat /\ h \in Nat /\ j \in Nat
        /\ r < start <=> v < w \/ (v = w /\ c < b)
        /\ w < v <=> g < h \/ (g = h /\ i < j)
    BY <1>1, <2>1, PlacesCompare
  <2>3. ~ (r < start)
    BY <1>6, <1>8, <2>2
  <2>4. c \in Bits /\ j \in Bits /\ h \in 0 .. NumL2 - 1
    BY <2>1 DEF Place
  <2>5. w < v \/ (w = v /\ c \in word)
    BY <1>2, <1>6, <2>1, <2>2, <2>3, <2>4, SMTT(30)
  <2>6. w < v => h \in later \/ (g = h /\ j \in group)
    BY <1>3, <1>4, <1>6, <1>9, <2>1, <2>2, <2>4
  <2> QED
    BY <2>1, <2>5, <2>6
<1>11. CASE word # {}
  <2>1. PICK c : c = ctz(word) /\ c \in word /\ \A d \in word : c <= d
    <3>1. word \subseteq Bits
      BY <1>2
    <3> QED
      BY <1>11, <3>1, FirstBit
  <2>2. PICK n : n = At(w, c)
    OBVIOUS
  <2>3. n \in bits["S"] /\ Place(n, w, c, g, i)
    <3>1. c \in bitmap["S"][w] /\ w = At(g, i)
      BY <1>1, <1>2, <2>1, Zenon DEF Place
    <3> QED
      BY <1>6, <1>7, <2>2, <3>1, MarkedPrice, SMTT(30)
  <2>4. n \in marked
    <3>1. b <= c
      BY <1>2, <2>1
    <3>2. n < start <=> w < w \/ (w = w /\ c < b)
      BY <1>1, <2>3, PlacesCompare
    <3>3. ~ (n < start) /\ n \in Nat
      BY <1>6, <1>8, <2>3, <3>1, <3>2, PlacesCompare, SMTT(30)
    <3> QED
      BY <1>6, <1>8, <2>3, <3>3
  <2>5. ASSUME NEW r \in marked PROVE n <= r
    <3>1. PICK v, d, h, j : Place(r, v, d, h, j) /\ (w < v \/ (w = v /\ d \in word))
      BY <1>10
    <3> QED
      BY <2>1, <2>3, <3>1, PlacesCompare
  <2>6. find_next("S", marked) = n
    BY <1>7, <1>8, <2>4, <2>5, NextIs, Zenon
  <2> QED
    BY <1>5, <1>11, <2>1, <2>2, <2>6 DEF At, marked
<1>12. CASE word = {} /\ group # {}
  <2>1. PICK k : k = ctz(group) /\ k \in group /\ \A d \in group : k <= d
    <3>1. group \subseteq Bits
      BY <1>3, <1>9
    <3> QED
      BY <1>12, <3>1, FirstBit
  <2>2. k \in l2["S"][g] /\ i < k
    BY <1>3, <1>9, <2>1
  <2>3. PICK u \in 0 .. NumWords - 1 : u = At(g, k) /\ k \in Bits
                        /\ bitmap["S"][u] # {} /\ bitmap["S"][u] \subseteq Bits
    BY <1>6, <1>7, <2>2, MarkedWord
  <2>4. PICK c : c = ctz(bitmap["S"][u]) /\ c \in bitmap["S"][u] /\ \A d \in bitmap["S"][u] : c <= d
    BY <2>3, FirstBit
  <2>5. PICK n : n = At(u, c)
    OBVIOUS
  <2>6. n \in bits["S"] /\ Place(n, u, c, g, k)
    BY <1>6, <1>7, <2>3, <2>4, <2>5, MarkedPrice, SMTT(30)
  <2>7. n \in marked
    BY <1>1, <1>8, <2>2, <2>6, PlacesCompare
  <2>8. ASSUME NEW r \in marked PROVE n <= r
    <3>1. PICK v, d, h, j : /\ Place(r, v, d, h, j) /\ d \in bitmap["S"][v]
                            /\ h \in later \/ (g = h /\ j \in group)
      BY <1>10, <1>12
    <3>2. g < h \/ (g = h /\ k <= j)
      <4>1. h \in later => h \in g + 1 .. NumL2 - 1
        BY <1>4, Zenon
      <4> QED
        BY <1>6, <2>1, <3>1, <4>1
    <3> QED
      BY <2>4, <2>6, <3>1, <3>2, PlacesCompare
  <2>9. find_next("S", marked) = n
    BY <1>7, <1>8, <2>7, <2>8, NextIs, Zenon
  <2> QED
    BY <1>5, <1>12, <2>1, <2>3, <2>4, <2>5, <2>9 DEF At, LowestIn, marked
<1>13. CASE word = {} /\ group = {} /\ later # {}
  <2>1. PICK f : f = LowestOf(later) /\ f \in later /\ \A h \in later : f <= h
    <3>1. later \subseteq Nat
      BY <1>4, <1>6
    <3> QED
      BY <1>13, <3>1, MinOf, Zenon
  <2>2. f \in 0 .. NumL2 - 1 /\ g < f /\ l2["S"][f] # {} /\ l2["S"][f] \subseteq Bits
    <3>1. f \in g + 1 .. NumL2 - 1 /\ l2["S"][f] # {}
      BY <1>4, <2>1, Zenon
    <3>2. f \in 0 .. NumL2 - 1 /\ g < f
      BY <1>6, <3>1
    <3> QED
      BY <1>7, <3>1, <3>2, Zenon DEF LadderInv, LadderTypes
  <2>3. PICK k : k = ctz(l2["S"][f]) /\ k \in l2["S"][f] /\ \A d \in l2["S"][f] : k <= d
    BY <2>2, FirstBit
  <2>4. PICK u \in 0 .. NumWords - 1 : u = At(f, k) /\ k \in Bits
                        /\ bitmap["S"][u] # {} /\ bitmap["S"][u] \subseteq Bits
    BY <1>7, <2>2, <2>3, MarkedWord, SMTT(30)
  <2>5. PICK c : c = ctz(bitmap["S"][u]) /\ c \in bitmap["S"][u] /\ \A d \in bitmap["S"][u] : c <= d
    BY <2>4, FirstBit
  <2>6. PICK n : n = At(u, c)
    OBVIOUS
  <2>7. n \in bits["S"] /\ Place(n, u, c, f, k)
    BY <1>7, <2>2, <2>4, <2>5, <2>6, MarkedPrice, SMTT(30)
  <2>8. n \in marked
    BY <1>1, <1>8, <2>2, <2>7, PlacesCompare, SMTT(30)
  <2>9. ASSUME NEW r \in marked PROVE n <= r
    <3>1. PICK v, d, h, j : /\ Place(r, v, d, h, j) /\ d \in bitmap["S"][v] /\ j \in l2["S"][h]
                            /\ h \in later
      BY <1>10, <1>13
    <3>2. f <= h /\ (f = h => k <= j)
      BY <2>1, <2>3, <3>1, SMTT(30)
    <3> QED
      BY <2>5, <2>7, <3>1, <3>2, PlacesCompare, SMTT(30)
  <2>10. find_next("S", marked) = n
    BY <1>7, <1>8, <2>8, <2>9, NextIs, Zenon
  <2> QED
    BY <1>5, <1>13, <2>1, <2>3, <2>4, <2>5, <2>6, <2>10, Zenon DEF At, LowestIn, marked
<1>14. CASE word = {} /\ group = {} /\ later = {}
  <2>1. marked = {}
    BY <1>10, <1>14
  <2> QED
    BY <1>5, <1>14, <2>1 DEF find_next, marked
<1> QED
  BY <1>11, <1>12, <1>13, <1>14, Zenon

LEMMA BidScan ==
    ASSUME MarksTyped, LadderInv, NEW start \in Prices
    PROVE  find_next_bid(start) = find_next("B", Beyond("B", bits["B"], start + 1))
<1> DEFINE marked == Beyond("B", bits["B"], start + 1)
<1>1. PICK w, b, g, i : /\ w = start \div W /\ b = start % W /\ g = w \div W /\ i = w % W
                        /\ Place(start, w, b, g, i)
  <2>1. start \in 0 .. MAX_PRICE
    BY MaxPriceAssumption DEF Prices
  <2> QED
    BY <2>1, Placed
<1>2. PICK word : word = bitmap["B"][w] \cap {c \in Bits : c <= b}
  BY Zenon
<1>3. PICK group : group = l2["B"][g] \cap MaskBelow(i)
  BY Zenon
<1>4. PICK earlier : earlier = {h \in 0 .. g - 1 : l2["B"][h] # {}}
  BY Zenon
<1>5. find_next_bid(start) =
        CASE word # {} -> w * W + (W - 1 - clz(word))
          [] word = {} /\ group # {} -> HighestIn(g * W + (W - 1 - clz(group)))
          [] word = {} /\ group = {} /\ earlier # {} -> HighestIn(HighestOf(earlier) * W + (W - 1 - clz(l2["B"][HighestOf(earlier)])))
          [] OTHER -> -1
  BY <1>1, <1>2, <1>3, <1>4, ZenonT(30) DEF find_next_bid
<1>6. /\ start \in Nat /\ w \in Nat /\ g \in Nat /\ b \in Nat /\ i \in Nat
      /\ w \in 0 .. NumWords - 1 /\ g \in 0 .. NumL2 - 1 /\ b \in Bits /\ i \in Bits
      /\ NumWords \in Nat /\ NumL2 \in Nat
  BY <1>1, PlacesCompare, NaturalPlaces DEF Place
<1>7. "B" \in Sides
  BY DEF Sides
<1>8. marked \subseteq bits["B"] /\ marked \subseteq Nat
      /\ \A r \in bits["B"] : r \in Nat /\ (r \in marked <=> r <= start)
  <2>1. \A r \in bits["B"] : r \in Nat
    BY <1>7, WhereMarked
  <2> QED
    BY <1>6, <1>7, <2>1 DEF Beyond
<1>9. \A c : c \in MaskBelow(i) <=> c \in Bits /\ c < i
  BY <1>6, LadderAssumption DEF MaskBelow, Bits
<1> HIDE DEF marked
\* Where the other marked prices are.
<1>10. ASSUME NEW r \in marked
       PROVE  \E v, c, h, j : /\ Place(r, v, c, h, j) /\ c \in bitmap["B"][v] /\ j \in l2["B"][h]
                              /\ v < w \/ (w = v /\ c \in word)
                              /\ v < w => h \in earlier \/ (g = h /\ j \in group)
  <2>1. PICK v, c, h, j : Place(r, v, c, h, j) /\ c \in bitmap["B"][v] /\ j \in l2["B"][h]
    BY <1>7, <1>8, WhereMarked
  <2>2. /\ r \in Nat /\ v \in Nat /\ c \in Nat /\ h \in Nat /\ j \in Nat
        /\ start < r <=> w < v \/ (w = v /\ b < c)
        /\ v < w <=> h < g \/ (g = h /\ j < i)
    BY <1>1, <2>1, PlacesCompare
  <2>3. ~ (start < r)
    BY <1>6, <1>8, <2>2
  <2>4. c \in Bits /\ j \in Bits /\ h \in 0 .. NumL2 - 1
    BY <2>1 DEF Place
  <2>5. v < w \/ (w = v /\ c \in word)
    BY <1>2, <1>6, <2>1, <2>2, <2>3, <2>4, SMTT(30)
  <2>6. v < w => h \in earlier \/ (g = h /\ j \in group)
    BY <1>3, <1>4, <1>6, <1>9, <2>1, <2>2, <2>4, SMTT(30)
  <2> QED
    BY <2>1, <2>5, <2>6
<1>11. CASE word # {}
  <2>1. PICK c : c = (W - 1 - clz(word)) /\ c \in word /\ \A d \in word : d <= c
    <3>1. word \subseteq Bits
      BY <1>2
    <3> QED
      BY <1>11, <3>1, LastBit
  <2>2. PICK n : n = At(w, c)
    OBVIOUS
  <2>3. n \in bits["B"] /\ Place(n, w, c, g, i)
    <3>1. c \in bitmap["B"][w] /\ w = At(g, i)
      BY <1>1, <1>2, <2>1, Zenon DEF Place
    <3> QED
      BY <1>6, <1>7, <2>2, <3>1, MarkedPrice, SMTT(30)
  <2>4. n \in marked
    <3>1. c <= b
      BY <1>2, <2>1
    <3>2. start < n <=> w < w \/ (w = w /\ b < c)
      BY <1>1, <2>3, PlacesCompare
    <3>3. ~ (start < n) /\ n \in Nat
      BY <1>6, <1>8, <2>3, <3>1, <3>2, PlacesCompare, SMTT(30)
    <3> QED
      BY <1>6, <1>8, <2>3, <3>3
  <2>5. ASSUME NEW r \in marked PROVE r <= n
    <3>1. PICK v, d, h, j : Place(r, v, d, h, j) /\ (v < w \/ (w = v /\ d \in word))
      BY <1>10
    <3> QED
      BY <2>1, <2>3, <3>1, PlacesCompare, SMTT(30)
  <2>6. find_next("B", marked) = n
    BY <1>7, <1>8, <2>4, <2>5, NextIs, ZenonT(30)
  <2> QED
    BY <1>5, <1>11, <2>1, <2>2, <2>6 DEF At, marked
<1>12. CASE word = {} /\ group # {}
  <2>1. PICK k : k = (W - 1 - clz(group)) /\ k \in group /\ \A d \in group : d <= k
    <3>1. group \subseteq Bits
      BY <1>3, <1>9
    <3> QED
      BY <1>12, <3>1, LastBit
  <2>2. k \in l2["B"][g] /\ k < i
    BY <1>3, <1>9, <2>1
  <2>3. PICK u \in 0 .. NumWords - 1 : u = At(g, k) /\ k \in Bits
                        /\ bitmap["B"][u] # {} /\ bitmap["B"][u] \subseteq Bits
    BY <1>6, <1>7, <2>2, MarkedWord
  <2>4. PICK c : c = (W - 1 - clz(bitmap["B"][u])) /\ c \in bitmap["B"][u] /\ \A d \in bitmap["B"][u] : d <= c
    BY <2>3, LastBit
  <2>5. PICK n : n = At(u, c)
    OBVIOUS
  <2>6. n \in bits["B"] /\ Place(n, u, c, g, k)
    BY <1>6, <1>7, <2>3, <2>4, <2>5, MarkedPrice, ZenonT(30)
  <2>7. n \in marked
    BY <1>1, <1>8, <2>2, <2>6, PlacesCompare, SMTT(30)
  <2>8. ASSUME NEW r \in marked PROVE r <= n
    <3>1. PICK v, d, h, j : /\ Place(r, v, d, h, j) /\ d \in bitmap["B"][v]
                            /\ h \in earlier \/ (g = h /\ j \in group)
      BY <1>10, <1>12
    <3>2. h < g \/ (g = h /\ j <= k)
      <4>1. h \in earlier => h \in 0 .. g - 1
        BY <1>4, Zenon
      <4>2. h \in 0 .. g - 1 => h < g
        BY <1>6
      <4>3. j \in group => j <= k
        BY <2>1, Zenon
      <4> QED
        BY <3>1, <4>1, <4>2, <4>3, Zenon
    <3> QED
      BY <2>4, <2>6, <3>1, <3>2, PlacesCompare, SMTT(30)
  <2>9. find_next("B", marked) = n
    BY <1>7, <1>8, <2>7, <2>8, NextIs, Zenon
  <2> QED
    BY <1>5, <1>12, <2>1, <2>3, <2>4, <2>5, <2>9, SMTT(30) DEF At, HighestIn, marked
<1>13. CASE word = {} /\ group = {} /\ earlier # {}
  <2>1. PICK f : f = HighestOf(earlier) /\ f \in earlier /\ \A h \in earlier : h <= f
    <3>1. earlier \subseteq 0 .. g
      BY <1>4, <1>6
    <3> QED
      BY <1>6, <1>13, <3>1, MaxOf, Zenon
  <2>2. f \in 0 .. NumL2 - 1 /\ f < g /\ l2["B"][f] # {} /\ l2["B"][f] \subseteq Bits
    <3>1. f \in 0 .. g - 1 /\ l2["B"][f] # {}
      BY <1>4, <2>1, Zenon
    <3>2. f \in 0 .. NumL2 - 1 /\ f < g
      BY <1>6, <3>1
    <3> QED
      BY <1>7, <3>1, <3>2, Zenon DEF LadderInv, LadderTypes
  <2>3. PICK k : k = (W - 1 - clz(l2["B"][f])) /\ k \in l2["B"][f] /\ \A d \in l2["B"][f] : d <= k
    BY <2>2, LastBit
  <2>4. PICK u \in 0 .. NumWords - 1 : u = At(f, k) /\ k \in Bits
                        /\ bitmap["B"][u] # {} /\ bitmap["B"][u] \subseteq Bits
    BY <1>7, <2>2, <2>3, MarkedWord, ZenonT(30)
  <2>5. PICK c : c = (W - 1 - clz(bitmap["B"][u])) /\ c \in bitmap["B"][u] /\ \A d \in bitmap["B"][u] : d <= c
    BY <2>4, LastBit
  <2>6. PICK n : n = At(u, c)
    OBVIOUS
  <2>7. n \in bits["B"] /\ Place(n, u, c, f, k)
    BY <1>7, <2>2, <2>4, <2>5, <2>6, MarkedPrice, ZenonT(30)
  <2>8. n \in marked
    BY <1>1, <1>8, <2>2, <2>7, PlacesCompare, SMTT(30)
  <2>9. ASSUME NEW r \in marked PROVE r <= n
    <3>1. PICK v, d, h, j : /\ Place(r, v, d, h, j) /\ d \in bitmap["B"][v] /\ j \in l2["B"][h]
                            /\ h \in earlier
      BY <1>10, <1>13
    <3>2. h <= f /\ (f = h => j <= k)
      BY <2>1, <2>3, <3>1, SMTT(30)
    <3> QED
      BY <2>5, <2>7, <3>1, <3>2, PlacesCompare, SMTT(30)
  <2>10. find_next("B", marked) = n
    BY <1>7, <1>8, <2>8, <2>9, NextIs, Zenon
  <2> QED
    BY <1>5, <1>13, <2>1, <2>3, <2>4, <2>5, <2>6, <2>10, ZenonT(30) DEF At, HighestIn, marked
<1>14. CASE word = {} /\ group = {} /\ earlier = {}
  <2>1. marked = {}
    BY <1>10, <1>14
  <2> QED
    BY <1>5, <1>14, <2>1, SMTT(30) DEF find_next, marked
<1> QED
  BY <1>11, <1>12, <1>13, <1>14, Zenon

LEMMA LadderInvExact ==
    ASSUME MarksTyped, LadderInv
    PROVE  LadderExact
<1> SUFFICES ASSUME NEW side \in Sides
             PROVE  /\ \A price \in Prices : price \in bits[side] <=> price % W \in bitmap[side][price \div W]
                    /\ \A w \in 0 .. NumWords - 1 : w % W \in l2[side][w \div W] <=> bitmap[side][w] # {}
  BY DEF LadderExact
<1>1. ASSUME NEW price \in Prices
      PROVE  price \in bits[side] <=> price % W \in bitmap[side][price \div W]
  <2>1. price \in 0 .. MAX_PRICE
    BY MaxPriceAssumption DEF Prices
  <2>2. Place(price, price \div W, price % W, (price \div W) \div W, (price \div W) % W)
    BY <2>1, Placed
  <2> QED
    BY <2>2, Zenon DEF Place, LadderInv, WordsStand
<1>2. ASSUME NEW w \in 0 .. NumWords - 1
      PROVE  w % W \in l2[side][w \div W] <=> bitmap[side][w] # {}
  <2>1. w \div W \in Nat /\ w % W \in Bits /\ w = At(w \div W, w % W)
    BY NaturalPlaces, Splits
  <2>2. w \div W \in 0 .. NumL2 - 1
    BY <2>1, GroupsEnough
  <2> QED
    BY <2>1, <2>2, Zenon DEF LadderInv, SummaryStands
<1> QED
  BY <1>1, <1>2

LEMMA SetKeeps ==
    ASSUME MarksTyped, LadderInv, NEW side \in Sides, NEW price \in Prices,
           set_bit(side, price), bits' = [bits EXCEPT ![side] = @ \cup {price}]
    PROVE  LadderInv'
<1>1. PICK w, b, g, i : /\ w = price \div W /\ b = price % W /\ g = w \div W /\ i = w % W
                        /\ Place(price, w, b, g, i)
  <2>1. price \in 0 .. MAX_PRICE
    BY MaxPriceAssumption DEF Prices
  <2> QED
    BY <2>1, Placed
<1>2. /\ bitmap' = [bitmap EXCEPT ![side][w] = @ \cup {b}]
      /\ l2' = [l2 EXCEPT ![side][g] = @ \cup {i}]
  BY <1>1, ZenonT(30) DEF set_bit
<1>3. /\ w \in 0 .. NumWords - 1 /\ b \in Bits /\ price = At(w, b)
      /\ g \in 0 .. NumL2 - 1 /\ i \in Bits /\ w = At(g, i) /\ w \in Nat /\ g \in Nat
  BY <1>1, NaturalPlaces DEF Place
<1>4. LadderTypes'
  BY <1>2, <1>3, ZenonT(30) DEF LadderInv, LadderTypes
<1>5. \A s \in Sides : \A v \in 0 .. NumWords - 1, c \in Bits :
         c \in bitmap'[s][v] <=> c \in bitmap[s][v] \/ (s = side /\ v = w /\ c = b)
  BY <1>2, <1>3, Zenon DEF LadderInv, LadderTypes
<1>6. \A s \in Sides : \A h \in 0 .. NumL2 - 1, j \in Bits :
         j \in l2'[s][h] <=> j \in l2[s][h] \/ (s = side /\ h = g /\ j = i)
  BY <1>2, <1>3, Zenon DEF LadderInv, LadderTypes
<1>7. \A s \in Sides : \A q : q \in bits'[s] <=> q \in bits[s] \/ (s = side /\ q = price)
  BY DEF MarksTyped
<1>8. WordsStand'
  <2> SUFFICES ASSUME NEW s \in Sides, NEW v \in 0 .. NumWords - 1, NEW c \in Bits
               PROVE  c \in bitmap'[s][v] <=> At(v, c) \in bits'[s]
    BY DEF WordsStand
  <2>1. At(v, c) = price <=> v = w /\ c = b
    BY <1>3, NaturalPlaces, AtOnce
  <2>2. c \in bitmap[s][v] <=> At(v, c) \in bits[s]
    BY DEF LadderInv, WordsStand
  <2> QED
    BY <1>5, <1>7, <2>1, <2>2, Zenon
<1>9. SummaryStands'
  <2> SUFFICES ASSUME NEW s \in Sides, NEW h \in 0 .. NumL2 - 1, NEW j \in Bits
               PROVE  j \in l2'[s][h] <=> At(h, j) \in 0 .. NumWords - 1 /\ bitmap'[s][At(h, j)] # {}
    BY DEF SummaryStands
  <2>1. At(h, j) = w <=> h = g /\ j = i
    BY <1>3, NaturalPlaces, AtOnce
  <2>2. j \in l2[s][h] <=> At(h, j) \in 0 .. NumWords - 1 /\ bitmap[s][At(h, j)] # {}
    BY DEF LadderInv, SummaryStands
  <2>3. ASSUME NEW v \in 0 .. NumWords - 1
        PROVE  bitmap'[s][v] # {} <=> bitmap[s][v] # {} \/ (s = side /\ v = w)
    BY <1>2, <1>3, Zenon DEF LadderInv, LadderTypes
  <2> QED
    BY <1>3, <1>6, <2>1, <2>2, <2>3, Zenon
<1> QED
  BY <1>4, <1>8, <1>9 DEF LadderInv

LEMMA ClearKeeps ==
    ASSUME MarksTyped, LadderInv, NEW side \in Sides, NEW price \in Prices,
           clear_bit(side, price), bits' = [bits EXCEPT ![side] = @ \ {price}]
    PROVE  LadderInv'
<1>1. PICK w, b, g, i : /\ w = price \div W /\ b = price % W /\ g = w \div W /\ i = w % W
                        /\ Place(price, w, b, g, i)
  <2>1. price \in 0 .. MAX_PRICE
    BY MaxPriceAssumption DEF Prices
  <2> QED
    BY <2>1, Placed
<1>2. /\ bitmap' = [bitmap EXCEPT ![side][w] = @ \ {b}]
      /\ l2' = IF bitmap'[side][w] = {} THEN [l2 EXCEPT ![side][g] = @ \ {i}] ELSE l2
  BY <1>1, ZenonT(30) DEF clear_bit
<1>3. /\ w \in 0 .. NumWords - 1 /\ b \in Bits /\ price = At(w, b)
      /\ g \in 0 .. NumL2 - 1 /\ i \in Bits /\ w = At(g, i) /\ w \in Nat /\ g \in Nat
  BY <1>1, NaturalPlaces DEF Place
<1>4. LadderTypes'
  BY <1>2, <1>3, ZenonT(30) DEF LadderInv, LadderTypes
<1>5. \A s \in Sides : \A v \in 0 .. NumWords - 1, c \in Bits :
         c \in bitmap'[s][v] <=> c \in bitmap[s][v] /\ ~ (s = side /\ v = w /\ c = b)
  BY <1>2, <1>3, Zenon DEF LadderInv, LadderTypes
<1>6. \A s \in Sides : \A h \in 0 .. NumL2 - 1, j \in Bits :
         j \in l2'[s][h] <=> j \in l2[s][h] /\ ~ (bitmap'[side][w] = {} /\ s = side /\ h = g /\ j = i)
  BY <1>2, <1>3, Zenon DEF LadderInv, LadderTypes
<1>7. \A s \in Sides : \A q : q \in bits'[s] <=> q \in bits[s] /\ ~ (s = side /\ q = price)
  BY DEF MarksTyped
<1>8. WordsStand'
  <2> SUFFICES ASSUME NEW s \in Sides, NEW v \in 0 .. NumWords - 1, NEW c \in Bits
               PROVE  c \in bitmap'[s][v] <=> At(v, c) \in bits'[s]
    BY DEF WordsStand
  <2>1. At(v, c) = price <=> v = w /\ c = b
    BY <1>3, NaturalPlaces, AtOnce
  <2>2. c \in bitmap[s][v] <=> At(v, c) \in bits[s]
    BY DEF LadderInv, WordsStand
  <2> QED
    BY <1>5, <1>7, <2>1, <2>2, Zenon
<1>9. SummaryStands'
  <2> SUFFICES ASSUME NEW s \in Sides, NEW h \in 0 .. NumL2 - 1, NEW j \in Bits
               PROVE  j \in l2'[s][h] <=> At(h, j) \in 0 .. NumWords - 1 /\ bitmap'[s][At(h, j)] # {}
    BY DEF SummaryStands
  <2>1. At(h, j) = w <=> h = g /\ j = i
    BY <1>3, NaturalPlaces, AtOnce
  <2>2. j \in l2[s][h] <=> At(h, j) \in 0 .. NumWords - 1 /\ bitmap[s][At(h, j)] # {}
    BY DEF LadderInv, SummaryStands
  <2>3. ASSUME NEW v \in 0 .. NumWords - 1, ~ (s = side /\ v = w)
        PROVE  bitmap'[s][v] = bitmap[s][v]
    BY <1>2, <1>3, <2>3 DEF LadderInv, LadderTypes
  <2>4. bitmap'[side][w] # {} => bitmap[side][w] # {}
    BY <1>2, <1>3 DEF LadderInv, LadderTypes
  <2> QED
    BY <1>3, <1>6, <2>1, <2>2, <2>3, <2>4, ZenonT(30)
<1> QED
  BY <1>4, <1>8, <1>9 DEF LadderInv

\* One bit at a time, of which the book's calls tell.
BitMoves ==
    \/ bits' = bits /\ \A s \in Sides : Cleared(s) = {}
    \/ \E side \in Sides, q \in Prices :
          bits' = [bits EXCEPT ![side] = @ \cup {q}] /\ \A s \in Sides : Cleared(s) = {}
    \/ \E side \in Sides, q \in Prices :
          bits' = [bits EXCEPT ![side] = @ \ {q}]
            /\ \A s \in Sides : Cleared(s) \subseteq (IF s = side THEN {q} ELSE {})

LEMMA LadderKept ==
    ASSUME LadderInv, UNCHANGED <<bits, bitmap, l2>>
    PROVE  LadderInv'
  BY Zenon DEF LadderInv, LadderTypes, WordsStand, SummaryStands

LEMMA LadderFollows ==
    ASSUME MarksTyped, LadderInv, BitMoves, LadderStep
    PROVE  LadderInv'
<1>1. CASE bits' = bits /\ \A s \in Sides : Cleared(s) = {}
  <2>1. \A s \in Sides : NewlySet(s) = {} /\ Cleared(s) = {}
    BY <1>1, Zenon DEF NewlySet
  <2>2. UNCHANGED ladderVars
    BY <2>1, Zenon DEF LadderStep
  <2> QED
    BY <1>1, <2>2, LadderKept DEF ladderVars
<1>2. ASSUME NEW side \in Sides, NEW q \in Prices, bits' = [bits EXCEPT ![side] = @ \cup {q}],
             \A s \in Sides : Cleared(s) = {}
      PROVE  LadderInv'
  <2>1. \A s \in Sides : \A x : x \in NewlySet(s) => s = side /\ x = q
    BY <1>2 DEF NewlySet, MarksTyped
  <2>2. CASE \E s \in Sides : \E x \in NewlySet(s) : set_bit(s, x)
    <3>1. set_bit(side, q)
      BY <2>1, <2>2, Zenon
    <3> QED
      BY <1>2, <3>1, SetKeeps, Zenon
  <2>3. CASE (\A s \in Sides : NewlySet(s) \cup Cleared(s) = {}) /\ UNCHANGED ladderVars
    <3>1. q \in bits[side]
      BY <1>2, <2>3 DEF NewlySet, MarksTyped
    <3>2. bits' = bits
      BY <1>2, <3>1 DEF MarksTyped
    <3> QED
      BY <2>3, <3>2, LadderKept DEF ladderVars
  <2> QED
    BY <1>2, <2>2, <2>3, Zenon DEF LadderStep
<1>3. ASSUME NEW side \in Sides, NEW q \in Prices, bits' = [bits EXCEPT ![side] = @ \ {q}],
             \A s \in Sides : Cleared(s) \subseteq (IF s = side THEN {q} ELSE {})
      PROVE  LadderInv'
  <2>1. \A s \in Sides : NewlySet(s) = {}
    BY <1>3 DEF NewlySet, MarksTyped
  <2>2. CASE \E s \in Sides : \E x \in Cleared(s) : clear_bit(s, x)
    <3>1. clear_bit(side, q)
      BY <1>3, <2>2, Zenon
    <3> QED
      BY <1>3, <3>1, ClearKeeps, Zenon
  <2>3. CASE (\A s \in Sides : NewlySet(s) \cup Cleared(s) = {}) /\ UNCHANGED ladderVars
    <3>1. q \notin bits[side]
      BY <1>3, <2>3 DEF Cleared, MarksTyped
    <3>2. bits' = bits
      BY <1>3, <3>1 DEF MarksTyped
    <3> QED
      BY <2>3, <3>2, LadderKept DEF ladderVars
  <2> QED
    BY <2>1, <2>2, <2>3, Zenon DEF LadderStep
<1> QED
  BY <1>1, <1>2, <1>3, Zenon DEF BitMoves

LEMMA BitsKept ==
    ASSUME bits' = bits, ~ InLoop \/ p' = p \/ cur' # cur
    PROVE  BitMoves
<1>1. \A s \in Sides : Cleared(s) = {}
  BY Zenon DEF Cleared
<1> QED
  BY <1>1 DEF BitMoves

LEMMA LevelLeft ==
    ASSUME Sound, LeaveLevel(Opposite), Opposite \in Sides, p \in Prices
    PROVE  BitMoves
<1>1. bits' = [bits EXCEPT ![Opposite] = @ \ {p}]
  BY DEF LeaveLevel
<1>2. \A s \in Sides : Cleared(s) \subseteq (IF s = Opposite THEN {p} ELSE {})
  BY <1>1 DEF Cleared, Sound, TypeOK
<1> QED
  BY <1>1, <1>2, Zenon DEF BitMoves

LEMMA BitsMove ==
    ASSUME Sound, Next
    PROVE  BitMoves
<1>1. ASSUME NEW s \in Slots, Discard(s) PROVE BitMoves
  <2>1. bits' = bits /\ p' = p
    BY <1>1, Zenon DEF Discard, bookVars
  <2> QED
    BY <2>1, BitsKept
<1>2. ASSUME NEW s \in Slots, NEW c \in Clients, NEW side \in Sides, NEW price \in QuotePrices,
             NEW qty \in 1 .. MaxQty, Submit(s, c, side, price, qty)
      PROVE BitMoves
  <2>1. bits' = bits /\ ~ InLoop
    BY <1>2, Zenon DEF Submit, InLoop
  <2> QED
    BY <2>1, BitsKept
<1>3. CASE SkipEmptyLevel
  <2>1. cur # NoSlot /\ p \in Prices /\ LeaveLevel(Opposite)
    BY <1>3, Zenon DEF SkipEmptyLevel, InLoop, Sound, TypeOK
  <2>2. Opposite \in Sides
    BY <2>1, IncomingFacts
  <2> QED
    BY <2>1, <2>2, LevelLeft
<1>4. CASE SelfTrade
  <2>1. bits' = bits /\ cur # NoSlot /\ cur' = NoSlot
    BY <1>4, Zenon DEF SelfTrade, InLoop
  <2> QED
    BY <2>1, BitsKept
<1>5. CASE Fill
  <2>1. cur # NoSlot /\ p \in Prices
    BY <1>5, Zenon DEF Fill, InLoop, Sound, TypeOK
  <2>2. Opposite \in Sides
    BY <2>1, IncomingFacts
  <2>3. LeaveLevel(Opposite) \/ (bits' = bits /\ p' = p)
    BY <1>5, Zenon DEF Fill
  <2> QED
    BY <2>1, <2>2, <2>3, LevelLeft, BitsKept
<1>6. CASE Rest
  <2>1. ~ InLoop /\ cur # NoSlot
    BY <1>6, Zenon DEF Rest
  <2>2. PICK side \in Sides, q \in Prices : side = Incoming.side /\ q = Incoming.price
    BY <2>1, IncomingFacts
  <2>3. bits' = [bits EXCEPT ![side] = IF levels[side][q] = <<>> THEN @ \cup {q} ELSE @]
    BY <1>6, <2>2, Zenon DEF Rest
  <2>4. bits \in [Sides -> SUBSET Prices]
    BY DEF Sound, TypeOK
  <2>5. CASE levels[side][q] = <<>>
    <3>1. bits' = [bits EXCEPT ![side] = @ \cup {q}]
      BY <2>3, <2>5, Zenon
    <3>2. \A s \in Sides : Cleared(s) = {}
      BY <2>1, <2>4, <3>1 DEF Cleared
    <3> QED
      BY <3>1, <3>2, Zenon DEF BitMoves
  <2>6. CASE levels[side][q] # <<>>
    <3>1. bits' = bits
      BY <2>3, <2>4, <2>6
    <3> QED
      BY <2>1, <3>1, BitsKept
  <2> QED
    BY <2>5, <2>6
<1>7. CASE Done
  <2>1. bits' = bits /\ cur # NoSlot /\ cur' = NoSlot
    BY <1>7, Zenon DEF Done
  <2> QED
    BY <2>1, BitsKept
<1>8. ASSUME NEW s \in Slots, Cancel(s) PROVE BitMoves
  <2>1. ~ InLoop /\ s \in orders_by_id
    BY <1>8, Zenon DEF Cancel, InLoop
  <2>2. PICK side \in Sides, q \in Prices : side = order[s].side /\ q = order[s].price
    BY <2>1 DEF Sound, Linked, TypeOK, Orders
  <2>3. bits' = [bits EXCEPT ![side] = IF Len(levels[side][q]) = 1 THEN @ \ {q} ELSE @]
    BY <1>8, <2>2, Zenon DEF Cancel
  <2>4. bits \in [Sides -> SUBSET Prices]
    BY DEF Sound, TypeOK
  <2>5. CASE Len(levels[side][q]) = 1
    <3>1. bits' = [bits EXCEPT ![side] = @ \ {q}]
      BY <2>3, <2>5, Zenon
    <3>2. \A d \in Sides : Cleared(d) \subseteq (IF d = side THEN {q} ELSE {})
      BY <2>1, <2>4, <3>1 DEF Cleared
    <3> QED
      BY <3>1, <3>2, Zenon DEF BitMoves
  <2>6. CASE Len(levels[side][q]) # 1
    <3>1. bits' = bits
      BY <2>3, <2>4, <2>6
    <3> QED
      BY <2>1, <3>1, BitsKept
  <2> QED
    BY <2>5, <2>6
<1> QED
  BY <1>1, <1>2, <1>3, <1>4, <1>5, <1>6, <1>7, <1>8, Zenon DEF Next, Match, MatchStep

LEMMA LadderStarts ==
    ASSUME Init, LadderInit
    PROVE  LadderInv
<1>1. LadderTypes
  BY DEF LadderInit, LadderTypes
<1>2. WordsStand
  BY DEF Init, LadderInit, WordsStand
<1>3. SummaryStands
  BY DEF LadderInit, SummaryStands
<1> QED
  BY <1>1, <1>2, <1>3 DEF LadderInv

LEMMA LadderScans == ASSUME TypeOK, LadderInv PROVE ScansExact
<1>1. MarksTyped
  BY DEF TypeOK, MarksTyped
<1> QED
  BY <1>1, LadderInvExact, AskScan, BidScan, ZenonT(30) DEF ScansExact

(***************************************************************************)
(* The two-level bitmaps stand for the set of price levels that have       *)
(* orders, and find_next_ask() and find_next_bid() return the nearest one, *)
(* for any word size and any price range.                                  *)
(***************************************************************************)
THEOREM ScansAlwaysExact == ObservedSpec => []ScansExact
<1> DEFINE Inv == Sound /\ LadderInv
<1>1. ObservedInit => Inv
  BY InitSound, LadderStarts, Zenon DEF ObservedInit
<1>2. Inv /\ [ObservedNext]_observedVars => Inv'
  <2> SUFFICES ASSUME Sound, LadderInv, [ObservedNext]_observedVars PROVE Sound' /\ LadderInv'
    BY Zenon
  <2>1. CASE ObservedNext
    <3>1. Next /\ LadderStep
      BY <2>1, Zenon DEF ObservedNext, Next, Observe
    <3>2. MarksTyped
      BY DEF Sound, TypeOK, MarksTyped
    <3> QED
      BY <3>1, <3>2, NextSound, BitsMove, LadderFollows, Zenon
  <2>2. CASE UNCHANGED observedVars
    <3>1. UNCHANGED vars /\ UNCHANGED <<bits, bitmap, l2>>
      BY <2>2, Zenon DEF observedVars, ladderVars, vars, bookVars
    <3> QED
      BY <3>1, NextSound, LadderKept, Zenon
  <2> QED
    BY <2>1, <2>2, Zenon
<1>3. Inv => ScansExact
  BY LadderScans, Zenon DEF Sound
<1> QED
  BY <1>1, <1>2, <1>3, PTL DEF ObservedSpec

-----------------------------------------------------------------------------
(* The order of arrival.                                                   *)

Before(a, s, r) == \E i, j \in DOMAIN a : i < j /\ a[i] = s /\ a[j] = r

\* The orders of a level stand in the order of their arrival.
Queued(level, a) == \A i, j \in DOMAIN level : i < j => Before(a, level[i], level[j])

LEMMA BeforeWithout ==
    ASSUME NEW a \in Seq(Slots), NEW k \in 1 .. Len(a), NEW b, Without(a, k, b),
           NEW s, NEW r, Before(a, s, r), s # a[k], r # a[k]
    PROVE  Before(b, s, r)
<1>0. /\ b \in Seq(Slots) /\ Len(b) = Len(a) - 1
      /\ \A j \in 1 .. Len(b) : b[j] = a[IF j < k THEN j ELSE j + 1]
  BY Zenon DEF Without
<1>9. DOMAIN b = 1 .. Len(b) /\ DOMAIN a = 1 .. Len(a) /\ Len(a) \in Nat
  BY <1>0
<1>1. /\ DOMAIN b = 1 .. Len(a) - 1 /\ DOMAIN a = 1 .. Len(a) /\ Len(a) \in Nat
      /\ \A j \in 1 .. Len(a) - 1 : b[j] = a[IF j < k THEN j ELSE j + 1]
  BY <1>0, <1>9, Zenon
<1>2. PICK i, j \in 1 .. Len(a) : i < j /\ a[i] = s /\ a[j] = r
  BY <1>1, Zenon DEF Before
<1>3. i # k /\ j # k
  BY <1>2
<1>4. PICK x \in 1 .. Len(a) - 1, y \in 1 .. Len(a) - 1 : x < y /\ b[x] = a[i] /\ b[y] = a[j]
  <2> DEFINE Down(n) == IF n < k THEN n ELSE n - 1
  <2>1. /\ Down(i) \in 1 .. Len(a) - 1 /\ Down(j) \in 1 .. Len(a) - 1 /\ Down(i) < Down(j)
        /\ b[Down(i)] = a[i] /\ b[Down(j)] = a[j]
    BY <1>1, <1>2, <1>3
  <2> QED
    BY <2>1, Zenon
<1> QED
  BY <1>1, <1>2, <1>4, Zenon DEF Before

LEMMA QueuedWithout ==
    ASSUME NEW level \in Seq(Slots), NEW k \in 1 .. Len(level), NEW short, Without(level, k, short),
           NEW a, Queued(level, a)
    PROVE  Queued(short, a)
<1>1. /\ DOMAIN short = 1 .. Len(level) - 1 /\ DOMAIN level = 1 .. Len(level) /\ Len(level) \in Nat
      /\ \A j \in 1 .. Len(level) - 1 : short[j] = level[IF j < k THEN j ELSE j + 1]
  BY DEF Without
<1> SUFFICES ASSUME NEW i \in 1 .. Len(level) - 1, NEW j \in 1 .. Len(level) - 1, i < j
             PROVE  Before(a, short[i], short[j])
  BY <1>1, ZenonT(30) DEF Queued
<1> DEFINE Up(n) == IF n < k THEN n ELSE n + 1
<1>2. /\ Up(i) \in DOMAIN level /\ Up(j) \in DOMAIN level /\ Up(i) < Up(j)
      /\ short[i] = level[Up(i)] /\ short[j] = level[Up(j)]
  BY <1>1
<1> QED
  BY <1>2, Zenon DEF Queued

LEMMA BeforeAppend ==
    ASSUME NEW a \in Seq(Slots), NEW x \in Slots
    PROVE  /\ \A s, r : Before(a, s, r) => Before(Append(a, x), s, r)
           /\ \A s : In(a, s) => Before(Append(a, x), s, x)
<1>1. PICK n \in Nat : n = Len(a) /\ DOMAIN a = 1 .. n
  OBVIOUS
<1>2. PICK b \in Seq(Slots) : b = Append(a, x)
  <2>1. Append(a, x) \in Seq(Slots)
    OBVIOUS
  <2> QED
    BY <2>1, Zenon
<1>3. DOMAIN b = 1 .. n + 1 /\ b[n + 1] = x /\ \A i \in 1 .. n : b[i] = a[i]
  BY <1>1, <1>2
<1>4. \A i \in 1 .. n : i \in 1 .. n + 1 /\ n + 1 \in 1 .. n + 1 /\ i < n + 1
  OBVIOUS
<1>5. \A s, r : Before(a, s, r) => Before(b, s, r)
  BY <1>1, <1>3, <1>4, Zenon DEF Before
<1>6. \A s : In(a, s) => Before(b, s, x)
  BY <1>1, <1>3, <1>4, ZenonT(30) DEF Before, In
<1> QED
  BY <1>2, <1>5, <1>6, Zenon

LEMMA BeforeOneWay ==
    ASSUME NEW a \in Seq(Slots), Once(a), NEW s, NEW r, Before(a, s, r), Before(a, r, s)
    PROVE  FALSE
<1>1. PICK i, j \in DOMAIN a : i < j /\ a[i] = s /\ a[j] = r
  BY Zenon DEF Before
<1>2. PICK k, m \in DOMAIN a : k < m /\ a[k] = r /\ a[m] = s
  BY Zenon DEF Before
<1>3. i = m /\ j = k
  BY <1>1, <1>2, Zenon DEF Once
<1>4. i \in Int /\ j \in Int
  OBVIOUS
<1> QED
  BY <1>1, <1>2, <1>3, <1>4

ArrivalsAre(ids) ==
    /\ arrivals \in Seq(Slots) /\ Once(arrivals)
    /\ \A s : In(arrivals, s) <=> s \in ids

ArrivalsInv ==
    /\ ArrivalsAre(orders_by_id)
    /\ \A side \in Sides, q \in Prices : Queued(levels[side][q], arrivals)

LEMMA ArrivalsStay ==
    ASSUME ArrivalsAre(orders_by_id), orders_by_id' = orders_by_id, cur \notin orders_by_id, ArrivalsStep
    PROVE  arrivals' = arrivals
<1>1. \A i \in DOMAIN arrivals : arrivals[i] \in orders_by_id
  BY Zenon DEF ArrivalsAre, In
<1>2. {i \in DOMAIN arrivals : arrivals[i] \notin orders_by_id'} = {}
  BY <1>1, Zenon
<1> QED
  BY <1>2, Zenon DEF ArrivalsStep

LEMMA ArrivalsGrow ==
    ASSUME ArrivalsAre(orders_by_id), orders_by_id' = orders_by_id \cup {cur}, cur \in Slots,
           cur \notin orders_by_id, ArrivalsStep
    PROVE  arrivals' = Append(arrivals, cur) /\ ArrivalsAre(orders_by_id)'
<1>1. \A i \in DOMAIN arrivals : arrivals[i] \in orders_by_id
  BY Zenon DEF ArrivalsAre, In
<1>2. {i \in DOMAIN arrivals : arrivals[i] \notin orders_by_id'} = {}
  BY <1>1, Zenon
<1>3. arrivals' = Append(arrivals, cur)
  BY <1>2, Zenon DEF ArrivalsStep
<1>4. PICK a \in Seq(Slots), x \in Slots : a = arrivals /\ x = cur /\ Once(a) /\ ~ In(a, x)
  BY Zenon DEF ArrivalsAre
<1>5. PICK b : b = add(a, x)
  BY Zenon
<1>6. b \in Seq(Slots) /\ Once(b) /\ \A s : In(b, s) <=> In(a, s) \/ s = x
  BY <1>4, <1>5, AddLinks
<1>7. arrivals' = b
  BY <1>3, <1>4, <1>5, Zenon DEF add
<1>8. \A s : In(a, s) <=> s \in orders_by_id
  BY <1>4, Zenon DEF ArrivalsAre
<1>9. \A s : In(b, s) <=> s \in orders_by_id'
  BY <1>4, <1>6, <1>8, Zenon
<1>10. ArrivalsAre(orders_by_id)'
  BY <1>6, <1>7, <1>9, Zenon DEF ArrivalsAre, Once, In
<1> QED
  BY <1>3, <1>10

LEMMA ArrivalsShrink ==
    ASSUME ArrivalsAre(orders_by_id), NEW r \in orders_by_id, orders_by_id' = orders_by_id \ {r},
           cur \notin orders_by_id, ArrivalsStep
    PROVE  /\ ArrivalsAre(orders_by_id)'
           /\ \A s, t : Before(arrivals, s, t) /\ s # r /\ t # r => Before(arrivals', s, t)
<1>1. PICK a \in Seq(Slots) : a = arrivals /\ Once(a) /\ \A s : In(a, s) <=> s \in orders_by_id
  BY Zenon DEF ArrivalsAre
<1>2. PICK k \in DOMAIN a : a[k] = r
  BY <1>1, Zenon DEF In
<1>3. \A i \in DOMAIN a : a[i] \in orders_by_id /\ (a[i] = r => i = k)
  BY <1>1, <1>2, Zenon DEF In, Once
<1>4. {i \in DOMAIN a : a[i] \notin orders_by_id'} = {k}
  BY <1>2, <1>3, Zenon
<1>5. (CHOOSE i \in {k} : TRUE) = k
  BY Zenon
<1>6. {k} # {} /\ cur \notin orders_by_id'
  BY Zenon
<1>7. PICK b : b = remove(a, k)
  BY Zenon
<1>8. arrivals' = b
  BY <1>1, <1>4, <1>5, <1>6, <1>7, Zenon DEF ArrivalsStep
<1>9. k \in 1 .. Len(a)
  OBVIOUS
<1>10. Without(a, k, b)
  BY <1>7, <1>9, RemoveUnlinks
<1>11. Once(b) /\ (\A s : In(b, s) <=> In(a, s) /\ s # a[k]) /\ b \in Seq(Slots)
  BY <1>1, <1>9, <1>10, Unlinked, ZenonT(30) DEF Without
<1>12. \A s : In(b, s) <=> s \in orders_by_id'
  BY <1>1, <1>2, <1>11, Zenon
<1>13. ArrivalsAre(orders_by_id)'
  BY <1>8, <1>11, <1>12, Zenon DEF ArrivalsAre, Once, In
<1>14. \A s, t : Before(a, s, t) /\ s # r /\ t # r => Before(b, s, t)
  BY <1>2, <1>9, <1>10, BeforeWithout, ZenonT(30)
<1> QED
  BY <1>1, <1>8, <1>13, <1>14, Zenon

LEMMA CurNotResting == ASSUME Sound PROVE cur \notin orders_by_id
  BY NoSlotAssumption DEF Sound, TypeOK, Linked

LEMMA ArrivalsKept ==
    ASSUME ArrivalsInv, arrivals' = arrivals, orders_by_id' = orders_by_id, levels' = levels
    PROVE  ArrivalsInv'
<1>1. ArrivalsAre(orders_by_id)'
  BY Zenon DEF ArrivalsInv, ArrivalsAre, Once, In
<1>2. ASSUME NEW side \in Sides, NEW q \in Prices PROVE Queued(levels'[side][q], arrivals')
  BY Zenon DEF ArrivalsInv
<1> QED
  BY <1>1, <1>2, Zenon DEF ArrivalsInv, Queued, Before

LEMMA QueuesStay ==
    ASSUME Sound, ArrivalsInv, ArrivalsStep, orders_by_id' = orders_by_id, levels' = levels
    PROVE  ArrivalsInv'
<1>1. arrivals' = arrivals
  BY CurNotResting, ArrivalsStay, Zenon DEF ArrivalsInv
<1> QED
  BY <1>1, ArrivalsKept, Zenon

LEMMA LinkedThere ==
    ASSUME Sound, NEW d \in Sides, NEW x \in Prices
    PROVE  \A s : In(levels[d][x], s) => s \in orders_by_id /\ order[s].side = d /\ order[s].price = x
  BY Zenon DEF Sound, Linked

LEMMA QueuesShrink ==
    ASSUME Sound, ArrivalsInv, ArrivalsStep, NEW side \in Sides, NEW q \in Prices,
           NEW k \in 1 .. Len(levels[side][q]), NEW short, Without(levels[side][q], k, short),
           levels' = [levels EXCEPT ![side][q] = short],
           orders_by_id' = orders_by_id \ {levels[side][q][k]}
    PROVE  ArrivalsInv'
<1>1. PICK level \in Seq(Slots) : level = levels[side][q]
  BY DEF Sound, TypeOK
<1>2. PICK r : r = level[k] /\ r \in orders_by_id /\ order[r].side = side /\ order[r].price = q
  <2>1. In(level, level[k])
    BY <1>1 DEF In
  <2>2. \A s : In(levels[side][q], s) => s \in orders_by_id /\ order[s].side = side /\ order[s].price = q
    BY LinkedThere, Zenon
  <2>3. level[k] \in orders_by_id /\ order[level[k]].side = side /\ order[level[k]].price = q
    BY <1>1, <2>1, <2>2, Zenon
  <2> QED
    BY <2>3, Zenon
<1>3. /\ ArrivalsAre(orders_by_id)'
      /\ \A s, t : Before(arrivals, s, t) /\ s # r /\ t # r => Before(arrivals', s, t)
  BY <1>1, <1>2, CurNotResting, ArrivalsShrink, ZenonT(30) DEF ArrivalsInv
<1>4. /\ levels'[side][q] = short
      /\ \A d \in Sides, x \in Prices : d # side \/ x # q => levels'[d][x] = levels[d][x]
  BY DEF Sound, TypeOK
<1>5. Queued(short, arrivals) /\ ~ In(short, r)
  <2>1. Queued(level, arrivals) /\ Once(level)
    BY <1>1, Zenon DEF ArrivalsInv, Sound, Linked
  <2>2. Queued(short, arrivals)
    BY <1>1, <2>1, QueuedWithout, Zenon
  <2>3. ~ In(short, r)
    BY <1>1, <1>2, <2>1, Unlinked, ZenonT(30)
  <2> QED
    BY <2>2, <2>3
<1>6. ASSUME NEW d \in Sides, NEW x \in Prices
      PROVE  Queued(levels'[d][x], arrivals')
  <2>1. PICK l : l = levels'[d][x] /\ Queued(l, arrivals) /\ ~ In(l, r)
    <3>1. CASE d = side /\ x = q
      BY <1>4, <1>5, <3>1, ZenonT(30)
    <3>2. CASE ~ (d = side /\ x = q)
      <4>1. levels'[d][x] = levels[d][x]
        BY <1>4, <3>2, Zenon
      <4>2. ~ In(levels[d][x], r)
        <5>1. \A s : In(levels[d][x], s) => order[s].side = d /\ order[s].price = x
          BY LinkedThere, ZenonT(30)
        <5> QED
          BY <1>2, <3>2, <5>1, ZenonT(30)
      <4>3. Queued(levels[d][x], arrivals)
        BY Zenon DEF ArrivalsInv
      <4> QED
        BY <4>1, <4>2, <4>3, ZenonT(30)
    <3> QED
      BY <3>1, <3>2, Zenon
  <2>2. \A i \in DOMAIN l : l[i] # r
    BY <2>1, Zenon DEF In
  <2>3. Queued(l, arrivals')
    BY <1>3, <2>1, <2>2, Zenon DEF Queued
  <2> QED
    BY <2>1, <2>3, Zenon
<1> QED
  BY <1>3, <1>6, Zenon DEF ArrivalsInv, Queued, Before

LEMMA RestQueues ==
    ASSUME Sound, ArrivalsInv, Rest, ArrivalsStep
    PROVE  ArrivalsInv'
<1>1. cur # NoSlot /\ orders_by_id' = orders_by_id \cup {cur}
  BY Zenon DEF Rest
<1>2. cur \in Slots /\ cur \notin orders_by_id
  BY <1>1, IncomingFacts
<1>3. PICK side \in Sides, q \in Prices : side = Incoming.side /\ q = Incoming.price
  BY <1>1, IncomingFacts
<1>4. levels' = [levels EXCEPT ![side][q] = add(levels[side][q], cur)]
  BY <1>3, Zenon DEF Rest
<1>5. arrivals' = Append(arrivals, cur) /\ ArrivalsAre(orders_by_id)'
  BY <1>1, <1>2, ArrivalsGrow, ZenonT(30) DEF ArrivalsInv
<1>6. PICK level \in Seq(Slots), x \in Slots : level = levels[side][q] /\ x = cur
  BY <1>2 DEF Sound, TypeOK
<1>7. PICK a \in Seq(Slots) : a = arrivals /\ \A s : In(a, s) <=> s \in orders_by_id
  BY Zenon DEF ArrivalsInv, ArrivalsAre
<1>8. PICK b : b = Append(a, x)
  BY Zenon
<1>9. /\ \A s, r : Before(a, s, r) => Before(b, s, r)
      /\ \A s : In(a, s) => Before(b, s, x)
  BY <1>8, BeforeAppend, Zenon
<1>10. PICK long : long = Append(level, x)
  BY Zenon
<1>11. PICK n \in Nat : /\ DOMAIN level = 1 .. n /\ DOMAIN long = 1 .. n + 1 /\ long[n + 1] = x
                         /\ \A i \in 1 .. n : long[i] = level[i]
  <2>1. /\ DOMAIN level = 1 .. Len(level) /\ DOMAIN long = 1 .. Len(level) + 1
        /\ long[Len(level) + 1] = x /\ Len(level) \in Nat
        /\ \A i \in 1 .. Len(level) : long[i] = level[i]
    BY <1>10
  <2> QED
    BY <2>1, Zenon
<1>12. \A i \in DOMAIN level : In(a, level[i])
  <2>1. \A i \in DOMAIN level : level[i] \in orders_by_id
    BY <1>6, Zenon DEF Sound, Linked, In
  <2> QED
    BY <1>7, <2>1, Zenon
<1>13. Queued(long, b)
  <2> SUFFICES ASSUME NEW i \in 1 .. n + 1, NEW j \in 1 .. n + 1, i < j PROVE Before(b, long[i], long[j])
    BY <1>11, Zenon DEF Queued
  <2>1. i \in 1 .. n /\ (j \in 1 .. n \/ j = n + 1)
    OBVIOUS
  <2>2. CASE j \in 1 .. n
    <3>1. Before(a, level[i], level[j])
      BY <1>6, <1>7, <1>11, <2>1, <2>2, ZenonT(30) DEF ArrivalsInv, Queued
    <3> QED
      BY <1>9, <1>11, <2>1, <2>2, <3>1, ZenonT(30)
  <2>3. CASE j = n + 1
    BY <1>9, <1>11, <1>12, <2>1, <2>3, ZenonT(30)
  <2> QED
    BY <2>1, <2>2, <2>3, ZenonT(30)
<1>14. /\ levels'[side][q] = long
       /\ \A d \in Sides, z \in Prices : d # side \/ z # q => levels'[d][z] = levels[d][z]
  BY <1>4, <1>6, <1>10, SMTT(30) DEF Sound, TypeOK, add
<1>15. arrivals' = b
  BY <1>5, <1>6, <1>7, <1>8, ZenonT(30)
<1>16. ASSUME NEW d \in Sides, NEW z \in Prices
       PROVE  Queued(levels'[d][z], b)
  <2>1. CASE d = side /\ z = q
    BY <1>13, <1>14, <2>1, ZenonT(30)
  <2>2. CASE ~ (d = side /\ z = q)
    <3>1. levels'[d][z] = levels[d][z]
      BY <1>14, <2>2, ZenonT(30)
    <3>2. Queued(levels[d][z], a)
      BY <1>7, Zenon DEF ArrivalsInv
    <3>3. Queued(levels[d][z], b)
      BY <1>9, <3>2, Zenon DEF Queued
    <3> QED
      BY <3>1, <3>3, Zenon
  <2> QED
    BY <2>1, <2>2
<1>17. \A d \in Sides, z \in Prices : Queued(levels'[d][z], arrivals')
  BY <1>15, <1>16, Zenon
<1> QED
  BY <1>5, <1>17, Zenon DEF ArrivalsInv, Queued, Before

\* A resting order that is told of shares stands before every other of its side.
FirstServed == \A r \in orders_by_id : acked'[r] > acked[r] => \A s \in Slots \ {r} : ~ Outranks(s, r)

LEMMA FillServesFirst ==
    ASSUME Sound, ArrivalsInv, Fill
    PROVE  FirstServed
<1>1. cur # NoSlot /\ p \in Prices /\ levels[Opposite][p] # <<>> /\ p # -1
  BY ZenonT(30) DEF Fill, InLoop, Sound, TypeOK
<1> PICK opp \in Sides : opp = Opposite
  BY <1>1, IncomingFacts
<1> PICK q \in Prices : q = p
  BY <1>1, ZenonT(30)
<1>2. PICK h \in Slots : AtHead(h)
  BY <1>1, HeadFacts, ZenonT(30) DEF AtHead
<1>3. PICK level \in Seq(Slots) : /\ level = levels[opp][q] /\ 1 \in 1 .. Len(level) /\ level[1] = h
                                  /\ h \in orders_by_id /\ order[h].side = opp /\ order[h].price = q
  BY <1>1, <1>2, HeadFacts
<1> SUFFICES ASSUME NEW r \in orders_by_id, acked'[r] > acked[r], NEW s \in Slots \ {r}, Outranks(s, r)
             PROVE  FALSE
  BY Zenon DEF FirstServed
<1>4. r = h
  <2>1. \A t \in Slots : t # cur /\ t # h => acked'[t] = acked[t]
    BY <1>2, FillSays, ZenonT(30)
  <2>2. r \in Slots /\ r # cur /\ acked[r] \in Nat
    BY CurNotResting, ZenonT(30) DEF Sound, TypeOK
  <2> QED
    BY <2>1, <2>2
<1>5. PICK x \in Prices : x = order[s].price /\ s \in orders_by_id /\ order[s].side = opp /\ In(levels[opp][x], s)
  <2>1. s \in orders_by_id /\ order[s].side = opp
    BY <1>3, <1>4, Zenon DEF Outranks
  <2>2. In(levels[order[s].side][order[s].price], s) /\ order[s] # NoOrder
    BY <2>1, ZenonT(30) DEF Sound, Linked
  <2>3. order[s].price \in Prices
    BY <2>2 DEF Sound, TypeOK, Orders
  <2> QED
    BY <2>1, <2>2, <2>3, Zenon
<1>6. Crosses(opp, x, q)
  <2>1. levels[opp][x] # <<>>
    BY <1>5 DEF In
  <2>2. x \in bits[opp]
    BY <2>1, Zenon DEF Sound, BitsExact
  <2>3. NoneBetter(opp, q)
    BY <1>1, ZenonT(30) DEF Sound, CursorBound
  <2> QED
    BY <2>2, <2>3 DEF NoneBetter, Crosses
<1>7. x = q /\ CameBefore(s, h)
  BY <1>3, <1>4, <1>5, <1>6, Zenon DEF Outranks
<1>8. PICK a \in Seq(Slots) : a = arrivals /\ Once(a) /\ Queued(level, a)
  BY <1>3, Zenon DEF ArrivalsInv, ArrivalsAre
<1>9. Before(a, s, h)
  BY <1>7, <1>8, Zenon DEF CameBefore, Before
<1>10. PICK j \in DOMAIN level : level[j] = s
  BY <1>3, <1>5, <1>7, ZenonT(30) DEF In
<1>11. 1 < j /\ 1 \in DOMAIN level
  <2>1. j # 1
    BY <1>3, <1>4, <1>10
  <2> QED
    BY <1>3, <1>10, <2>1, SMTT(30)
<1>12. Before(a, h, s)
  BY <1>3, <1>8, <1>10, <1>11, Zenon DEF Queued
<1> QED
  BY <1>8, <1>9, <1>12, BeforeOneWay, ZenonT(30)

-----------------------------------------------------------------------------
(* The steps of the book.                                                  *)

\* A step that puts no order into the book and takes none out of it.
Quiet ==
    /\ itch' = <<>> /\ orders_by_id' = orders_by_id /\ levels' = levels
    /\ \A s \in orders_by_id : order'[s] = order[s] /\ acked'[s] = acked[s]

LEMMA StepKinds ==
    ASSUME Sound, Next
    PROVE  Quiet \/ Fill \/ Rest \/ \E s \in Slots : Cancel(s)
<1>1. /\ orders_by_id \subseteq Slots /\ cur \notin orders_by_id
      /\ \A r \in orders_by_id : order[r] # NoOrder
      /\ order = [s \in Slots |-> order[s]]
  BY CurNotResting, Zenon DEF Sound, Linked, TypeOK
<1>2. ASSUME NEW s \in Slots, Discard(s) PROVE Quiet
  BY <1>1, <1>2, Zenon DEF Discard, bookVars, Kept, Quiet
<1>3. ASSUME NEW s \in Slots, NEW c \in Clients, NEW side \in Sides, NEW price \in QuotePrices,
             NEW qty \in 1 .. MaxQty, Submit(s, c, side, price, qty)
      PROVE Quiet
  <2>1. order[s] = NoOrder
    BY <1>3, Zenon DEF Submit
  <2>2. \A r \in orders_by_id : r # s
    BY <1>1, <2>1, Zenon
  <2>3. \A r \in orders_by_id : order'[r] = order[r]
    BY <1>1, <1>3, <2>2, Zenon DEF Submit
  <2>4. \A r \in orders_by_id : acked'[r] = acked[r]
    BY <1>1, <1>3, Zenon DEF Submit, Kept
  <2> QED
    BY <1>3, <2>3, <2>4, Zenon DEF Submit, Quiet
<1>4. CASE SkipEmptyLevel
  BY <1>4, Zenon DEF SkipEmptyLevel, Quiet
<1>5. CASE SelfTrade
  BY <1>1, <1>5, Zenon DEF SelfTrade, Quiet
<1>6. CASE Done
  BY <1>1, <1>6, Zenon DEF Done, Quiet
<1> QED
  BY <1>2, <1>3, <1>4, <1>5, <1>6, ZenonT(30) DEF Next, Match, MatchStep

LEMMA FillQueues ==
    ASSUME Sound, ArrivalsInv, Fill, ArrivalsStep
    PROVE  ArrivalsInv'
<1>1. cur # NoSlot /\ p \in Prices /\ levels[Opposite][p] # <<>> /\ p # -1
  BY Zenon DEF Fill, InLoop, Sound, TypeOK
<1>2. PICK side \in Sides, q \in Prices : side = Opposite /\ q = p
  BY <1>1, IncomingFacts, ZenonT(30)
<1>3. PICK r \in Slots : AtHead(r)
  BY <1>1, HeadFacts DEF AtHead
<1>4. PICK k : k = 1
  BY Zenon
<1>5. k \in 1 .. Len(levels[side][q]) /\ levels[side][q][k] = r /\ Without(levels[side][q], k, Tail(levels[side][q]))
  BY <1>1, <1>2, <1>3, <1>4, HeadFacts, Zenon
<1>6. \/ orders_by_id' = orders_by_id /\ levels' = levels
      \/ /\ orders_by_id' = orders_by_id \ {r}
         /\ levels' = [levels EXCEPT ![side][q] = Tail(levels[side][q])]
  BY <1>2, <1>3, FillBook, Zenon
<1>7. CASE orders_by_id' = orders_by_id /\ levels' = levels
  BY <1>7, QueuesStay, Zenon
<1>8. CASE /\ orders_by_id' = orders_by_id \ {r}
           /\ levels' = [levels EXCEPT ![side][q] = Tail(levels[side][q])]
  <2>1. orders_by_id' = orders_by_id \ {levels[side][q][k]}
    BY <1>5, <1>8, Zenon
  <2> QED
    BY <1>5, <1>8, <2>1, QueuesShrink, Zenon
<1> QED
  BY <1>6, <1>7, <1>8, Zenon

LEMMA CancelQueues ==
    ASSUME Sound, ArrivalsInv, NEW s \in Slots, Cancel(s), ArrivalsStep
    PROVE  ArrivalsInv'
<1>1. s \in orders_by_id /\ orders_by_id' = orders_by_id \ {s}
  BY ZenonT(30) DEF Cancel
<1>2. PICK side \in Sides, q \in Prices : side = order[s].side /\ q = order[s].price
  BY <1>1 DEF Sound, Linked, TypeOK, Orders
<1>3. PICK level \in Seq(Slots) : level = levels[side][q]
  BY DEF Sound, TypeOK
<1>4. PICK k \in 1 .. Len(level) : level[k] = s /\ levels' = [levels EXCEPT ![side][q] = remove(level, k)]
  BY <1>2, <1>3, Zenon DEF Cancel
<1>5. Without(level, k, remove(level, k))
  BY RemoveUnlinks, Zenon
<1>6. k \in 1 .. Len(levels[side][q]) /\ Without(levels[side][q], k, remove(level, k)) /\ levels[side][q][k] = s
  BY <1>3, <1>4, <1>5, Zenon
<1>7. orders_by_id' = orders_by_id \ {levels[side][q][k]}
  BY <1>1, <1>6, Zenon
<1> QED
  BY <1>4, <1>6, <1>7, QueuesShrink, ZenonT(30)

LEMMA NextQueues ==
    ASSUME Sound, ArrivalsInv, Next, ArrivalsStep
    PROVE  ArrivalsInv'
  BY StepKinds, QueuesStay, FillQueues, RestQueues, CancelQueues, Zenon DEF Quiet

LEMMA NextServesFirst ==
    ASSUME Sound, ArrivalsInv, Next
    PROVE  FirstServed
<1>1. acked \in [Slots -> Nat] /\ orders_by_id \subseteq Slots
  BY DEF Sound, TypeOK
<1>2. CASE \A r \in orders_by_id : acked'[r] = acked[r]
  BY <1>1, <1>2 DEF FirstServed
<1>3. Quiet => \A r \in orders_by_id : acked'[r] = acked[r]
  BY Zenon DEF Quiet
<1>4. Rest => \A r \in orders_by_id : acked'[r] = acked[r]
  BY Zenon DEF Rest
<1>5. ASSUME NEW s \in Slots, Cancel(s) PROVE \A r \in orders_by_id : acked'[r] = acked[r]
  <2>1. \A r \in orders_by_id : order[r] # NoOrder
    BY Zenon DEF Sound, Linked
  <2> QED
    BY <1>1, <1>5, <2>1, Zenon DEF Cancel, Kept
<1> QED
  BY <1>2, <1>3, <1>4, <1>5, StepKinds, FillServesFirst, ZenonT(30)

LEMMA InitQueues == ASSUME Init, ArrivalsInit PROVE ArrivalsInv
<1>1. arrivals = <<>> /\ orders_by_id = {} /\ DOMAIN <<>> = {} /\ <<>> \in Seq(Slots)
  BY DEF Init, ArrivalsInit
<1>2. \A side \in Sides, q \in Prices : levels[side][q] = <<>>
  BY Zenon DEF Init
<1>3. \A side \in Sides, q \in Prices : Queued(levels[side][q], arrivals)
  BY <1>1, <1>2, Zenon DEF Queued
<1>4. ArrivalsAre(orders_by_id)
  BY <1>1, Zenon DEF ArrivalsAre, Once, In
<1> QED
  BY <1>3, <1>4, Zenon DEF ArrivalsInv

(***************************************************************************)
(* Execution by execution, match_order() serves the best price first and   *)
(* at one price the order that has been resting longest, whatever has been *)
(* matched and cancelled before.                                           *)
(***************************************************************************)
THEOREM PriorityKept == ObservedSpec => PriceTimePriority
<1> DEFINE Inv == Sound /\ ArrivalsInv
<1>1. ObservedInit => Inv
  BY InitSound, InitQueues, Zenon DEF ObservedInit
<1>2. Inv /\ [ObservedNext]_observedVars => Inv' /\ [FirstServed]_vars
  <2> SUFFICES ASSUME Sound, ArrivalsInv, [ObservedNext]_observedVars
               PROVE  Sound' /\ ArrivalsInv' /\ [FirstServed]_vars
    BY Zenon
  <2>1. CASE ObservedNext
    <3>1. Next /\ ArrivalsStep
      BY <2>1, Zenon DEF ObservedNext, Next, Observe
    <3> QED
      BY <3>1, NextSound, NextQueues, NextServesFirst, Zenon
  <2>2. CASE UNCHANGED observedVars
    <3>1. UNCHANGED vars /\ arrivals' = arrivals
      BY <2>2, Zenon DEF observedVars
    <3>2. orders_by_id' = orders_by_id /\ levels' = levels
      BY <3>1, Zenon DEF vars, bookVars
    <3>3. ArrivalsInv'
      BY <3>1, <3>2, ArrivalsKept, Zenon
    <3> QED
      BY <3>1, <3>3, NextSound, Zenon
  <2> QED
    BY <2>1, <2>2, Zenon
<1>3. [FirstServed]_vars => [\A r \in orders_by_id :
         acked'[r] > acked[r] => \A s \in Slots \ {r} : ~Outranks(s, r)]_vars
  BY Zenon DEF FirstServed
<1> QED
  BY <1>1, <1>2, <1>3, PTL DEF ObservedSpec, PriceTimePriority
=============================================================================
