-------------------------- MODULE TrackHeapProofs --------------------------
(* Proofs about TrackHeap, for any graph, in whatever order the windows    *)
(* ask for its elements: the ranges of tracks of one clock, that no two    *)
(* places share a track, and what is read in them.                         *)
EXTENDS TrackHeap, SequenceTheorems, WellFoundedInduction, TLAPS

-----------------------------------------------------------------------------
(* The capacities of a layout multiplied one after the other, and the      *)
(* position of coordinates after one dimension after the other.            *)

(* Among some natural numbers there is a first one.                        *)
LEMMA Least ==
    ASSUME NEW T \in SUBSET Nat, T # {}
    PROVE  \E x \in T : \A y \in T : x <= y
<1> DEFINE R == OpToRel(<, Nat)
<1>1. IsWellFoundedOn(R, Nat)
  BY NatLessThanWellFounded
<1>2. \A y, x \in Nat : <<y, x>> \in R <=> y < x
  BY DEF OpToRel
<1> HIDE DEF R
<1>3. PICK x \in T : \A y \in T : ~(<<y, x>> \in R)
  BY <1>1, WFMin
<1>4. ASSUME NEW y \in T PROVE x <= y
  <2>1. x \in Nat /\ y \in Nat
    OBVIOUS
  <2>2. ~(y < x)
    BY <1>2, <1>3, <2>1
  <2>3. QED
    BY <2>1, <2>2
<1>5. QED
  BY <1>4

LEMMA DivisionUnique ==
    ASSUME NEW n \in Int, NEW d \in Nat \ {0}, NEW q \in Int, NEW r \in 0..(d - 1), n = q * d + r
    PROVE  n \div d = q /\ n % d = r
<1>1. n = d * q + r
  OBVIOUS
<1>2. QED
  BY <1>1

ProductsOf(f, s, n) == f = [k \in 0..n |-> IF k = 0 THEN 1 ELSE f[k - 1] * s[k]]
PositionsOf(f, at, s, n) ==
    f = [k \in 0..n |-> IF k = 0 THEN 0 ELSE f[k - 1] * s[k] + at[k]]

LEMMA ProductsExist ==
    ASSUME NEW s, NEW n \in Nat
    PROVE  \E f : ProductsOf(f, s, n)
<1> DEFINE T == {m \in Nat : ~\E f : ProductsOf(f, s, m)}
<1>1. SUFFICES T = {}
  OBVIOUS
<1>2. SUFFICES ASSUME T # {} PROVE FALSE
  OBVIOUS
<1>3. PICK m \in T : \A y \in T : m <= y
  <2>1. T \in SUBSET Nat
    OBVIOUS
  <2> HIDE DEF T
  <2>2. QED
    BY <1>2, <2>1, Least
<1>4. m # 0
  <2>1. PICK f : f = [k \in 0..0 |-> 1]
    OBVIOUS
  <2>2. ProductsOf(f, s, 0)
    BY <2>1 DEF ProductsOf
  <2>3. QED
    BY <2>2
<1>5. m - 1 \in Nat /\ m - 1 \notin T
  BY <1>3, <1>4
<1>6. PICK g : ProductsOf(g, s, m - 1)
  BY <1>5
<1>7. \A k \in 0..(m - 1) : g[k] = IF k = 0 THEN 1 ELSE g[k - 1] * s[k]
  BY <1>6 DEF ProductsOf
<1>8. PICK f : f = [k \in 0..m |-> IF k < m THEN g[k] ELSE g[m - 1] * s[m]]
  OBVIOUS
<1>9. ASSUME NEW k \in 0..m
      PROVE  f[k] = IF k = 0 THEN 1 ELSE f[k - 1] * s[k]
  <2>1. CASE k = 0
    <3>1. 0 \in 0..(m - 1) /\ 0 < m
      BY <1>4, <1>5
    <3>2. f[0] = g[0] /\ g[0] = 1
      BY <1>5, <1>7, <1>8, <3>1
    <3>3. QED
      BY <2>1, <3>2
  <2>2. CASE k # 0
    <3>1. k - 1 \in 0..m /\ k - 1 < m
      BY <2>2
    <3>2. f[k - 1] = g[k - 1]
      BY <1>8, <3>1
    <3>3. CASE k = m
      BY <1>8, <2>2, <3>2, <3>3
    <3>4. CASE k # m
      <4>1. k \in 0..(m - 1) /\ k < m
        BY <3>4
      <4>2. f[k] = g[k]
        BY <1>8, <4>1
      <4>3. QED
        BY <1>7, <2>2, <3>2, <4>1, <4>2
    <3>5. QED
      BY <3>3, <3>4
  <2>3. QED
    BY <2>1, <2>2
<1>10. ProductsOf(f, s, m)
  <2>1. DOMAIN f = 0..m /\ f = [k \in 0..m |-> f[k]]
    BY <1>8
  <2>2. f = [k \in 0..m |-> IF k = 0 THEN 1 ELSE f[k - 1] * s[k]]
    BY <1>9, <2>1
  <2>3. QED
    BY <2>2 DEF ProductsOf
<1>11. QED
  BY <1>10

LEMMA PositionsExist ==
    ASSUME NEW at, NEW s, NEW n \in Nat
    PROVE  \E f : PositionsOf(f, at, s, n)
<1> DEFINE T == {m \in Nat : ~\E f : PositionsOf(f, at, s, m)}
<1>1. SUFFICES T = {}
  OBVIOUS
<1>2. SUFFICES ASSUME T # {} PROVE FALSE
  OBVIOUS
<1>3. PICK m \in T : \A y \in T : m <= y
  <2>1. T \in SUBSET Nat
    OBVIOUS
  <2> HIDE DEF T
  <2>2. QED
    BY <1>2, <2>1, Least
<1>4. m # 0
  <2>1. PICK f : f = [k \in 0..0 |-> 0]
    OBVIOUS
  <2>2. PositionsOf(f, at, s, 0)
    BY <2>1 DEF PositionsOf
  <2>3. QED
    BY <2>2
<1>5. m - 1 \in Nat /\ m - 1 \notin T
  BY <1>3, <1>4
<1>6. PICK g : PositionsOf(g, at, s, m - 1)
  BY <1>5
<1>7. \A k \in 0..(m - 1) : g[k] = IF k = 0 THEN 0 ELSE g[k - 1] * s[k] + at[k]
  BY <1>6 DEF PositionsOf
<1>8. PICK f : f = [k \in 0..m |-> IF k < m THEN g[k] ELSE g[m - 1] * s[m] + at[m]]
  OBVIOUS
<1>9. ASSUME NEW k \in 0..m
      PROVE  f[k] = IF k = 0 THEN 0 ELSE f[k - 1] * s[k] + at[k]
  <2>1. CASE k = 0
    <3>1. 0 \in 0..(m - 1) /\ 0 < m
      BY <1>4, <1>5
    <3>2. f[0] = g[0] /\ g[0] = 0
      BY <1>5, <1>7, <1>8, <3>1
    <3>3. QED
      BY <2>1, <3>2
  <2>2. CASE k # 0
    <3>1. k - 1 \in 0..m /\ k - 1 < m
      BY <2>2
    <3>2. f[k - 1] = g[k - 1]
      BY <1>8, <3>1
    <3>3. CASE k = m
      BY <1>8, <2>2, <3>2, <3>3
    <3>4. CASE k # m
      <4>1. k \in 0..(m - 1) /\ k < m
        BY <3>4
      <4>2. f[k] = g[k]
        BY <1>8, <4>1
      <4>3. QED
        BY <1>7, <2>2, <3>2, <4>1, <4>2
    <3>5. QED
      BY <3>3, <3>4
  <2>3. QED
    BY <2>1, <2>2
<1>10. PositionsOf(f, at, s, m)
  <2>1. DOMAIN f = 0..m /\ f = [k \in 0..m |-> f[k]]
    BY <1>8
  <2>2. f = [k \in 0..m |-> IF k = 0 THEN 0 ELSE f[k - 1] * s[k] + at[k]]
    BY <1>9, <2>1
  <2>3. QED
    BY <2>2 DEF PositionsOf
<1>11. QED
  BY <1>10

LEMMA ProductIs ==
    ASSUME NEW s, Len(s) \in Nat
    PROVE  \E f : ProductsOf(f, s, Len(s)) /\ Product(s) = f[Len(s)]
<1>1. PICK f : f = CHOOSE g : ProductsOf(g, s, Len(s))
  OBVIOUS
<1>2. ProductsOf(f, s, Len(s))
  BY <1>1, ProductsExist
<1>3. Product(s) = f[Len(s)]
  BY <1>1 DEF Product, ProductsOf
<1>4. QED
  BY <1>2, <1>3

LEMMA LinearIs ==
    ASSUME NEW at, NEW s, Len(at) \in Nat
    PROVE  \E f : PositionsOf(f, at, s, Len(at)) /\ Linear(at, s) = f[Len(at)]
<1>1. PICK f : f = CHOOSE g : PositionsOf(g, at, s, Len(at))
  OBVIOUS
<1>2. PositionsOf(f, at, s, Len(at))
  BY <1>1, PositionsExist
<1>3. Linear(at, s) = f[Len(at)]
  BY <1>1 DEF Linear, PositionsOf
<1>4. QED
  BY <1>2, <1>3

(* Coordinates within a layout                                             *)
InLayout(at, s) ==
    at \in Seq(Nat) /\ s \in Seq(Nat \ {0}) /\ Len(at) = Len(s) /\ \A k \in 1..Len(s) : at[k] < s[k]

LEMMA PositionsBelow ==
    ASSUME NEW at, NEW s, InLayout(at, s), NEW f, ProductsOf(f, s, Len(s)),
           NEW g, PositionsOf(g, at, s, Len(s)), NEW n \in 0..Len(s)
    PROVE  f[n] \in Nat \ {0} /\ g[n] \in 0..(f[n] - 1)
<1> DEFINE Below(m) == f[m] \in Nat \ {0} /\ g[m] \in 0..(f[m] - 1)
           T == {m \in 0..Len(s) : ~Below(m)}
<1>1. PICK l \in Nat : l = Len(s)
  BY DEF InLayout
<1>2. SUFFICES ASSUME T # {} PROVE FALSE
  OBVIOUS
<1>3. PICK m \in T : \A y \in T : m <= y
  <2>1. T \in SUBSET Nat
    BY <1>1
  <2> HIDE DEF T
  <2>2. QED
    BY <1>2, <2>1, Least
<1>4. \A k \in 0..l : /\ f[k] = IF k = 0 THEN 1 ELSE f[k - 1] * s[k]
                     /\ g[k] = IF k = 0 THEN 0 ELSE g[k - 1] * s[k] + at[k]
  BY <1>1 DEF ProductsOf, PositionsOf
<1>5. m # 0
  <2>1. f[0] = 1 /\ g[0] = 0
    BY <1>1, <1>4
  <2>2. Below(0)
    BY <2>1
  <2>3. QED
    BY <2>2
<1>6. m \in 1..l /\ m \in 0..l /\ m - 1 \in 0..l /\ Below(m - 1)
  BY <1>1, <1>3, <1>5
<1>7. PICK a \in Nat \ {0}, p \in Nat : a = f[m - 1] /\ p = g[m - 1] /\ p < a
  BY <1>6
<1>8. PICK d \in Nat \ {0}, c \in Nat : d = s[m] /\ c = at[m] /\ c < d
  BY <1>1, <1>6, ElementOfSeq DEF InLayout
<1>9. f[m] = a * d /\ g[m] = p * d + c
  BY <1>4, <1>5, <1>6, <1>7, <1>8
<1>10. a * d \in Nat \ {0} /\ p * d + c \in 0..(a * d - 1)
  <2>1. p * d \in Nat /\ a * d \in Nat \ {0}
    OBVIOUS
  <2>2. (p + 1) * d <= a * d
    <3>1. PICK e \in Nat : e = a - (p + 1) /\ a = p + 1 + e
      <4>1. a - (p + 1) \in Nat /\ a = p + 1 + (a - (p + 1))
        BY <1>7
      <4>2. QED
        BY <4>1
    <3>2. a * d = (p + 1) * d + e * d /\ e * d \in Nat /\ (p + 1) * d \in Nat
      BY <3>1
    <3>3. QED
      BY <3>2
  <2>3. (p + 1) * d = p * d + d
    OBVIOUS
  <2>4. PICK u \in Nat, v \in Nat \ {0} : u = p * d /\ v = a * d
    BY <2>1
  <2>5. u + d <= v
    BY <2>2, <2>3, <2>4
  <2>6. u + c \in 0..(v - 1)
    BY <1>8, <2>5
  <2>7. QED
    BY <2>4, <2>6
<1>11. Below(m)
  BY <1>9, <1>10
<1>12. QED
  BY <1>11

LEMMA PositionsApart ==
    ASSUME NEW at, NEW bt, NEW s, InLayout(at, s), InLayout(bt, s),
           NEW f, PositionsOf(f, at, s, Len(s)), NEW g, PositionsOf(g, bt, s, Len(s)),
           f[Len(s)] = g[Len(s)]
    PROVE  at = bt
<1>1. PICK l \in Nat : l = Len(s)
  BY DEF InLayout
<1> DEFINE T == {m \in 0..l : f[m] = g[m] /\ \E k \in 1..m : at[k] # bt[k]}
<1>2. SUFFICES ASSUME T # {} PROVE FALSE
  <2>1. at \in Seq(Nat) /\ bt \in Seq(Nat) /\ Len(at) = l /\ Len(bt) = l
    BY <1>1 DEF InLayout
  <2>2. l \notin T => \A k \in 1..l : at[k] = bt[k]
    BY <1>1
  <2> HIDE DEF T
  <2>3. T = {} => \A k \in 1..l : at[k] = bt[k]
    BY <2>2
  <2>4. QED
    BY <2>1, <2>3, SeqEqual
<1>3. PICK m \in T : \A y \in T : m <= y
  <2>1. T \in SUBSET Nat
    BY <1>1
  <2> HIDE DEF T
  <2>2. QED
    BY <1>2, <2>1, Least
<1>4. /\ \A k \in 0..l : f[k] = IF k = 0 THEN 0 ELSE f[k - 1] * s[k] + at[k]
      /\ \A k \in 0..l : g[k] = IF k = 0 THEN 0 ELSE g[k - 1] * s[k] + bt[k]
  BY <1>1 DEF PositionsOf
<1>5. m \in 1..l /\ m \in 0..l /\ m - 1 \in 0..l /\ m - 1 \notin T
  <2>1. PICK k \in 1..m : at[k] # bt[k]
    OBVIOUS
  <2>2. m - 1 \notin T
    BY <1>3
  <2>3. QED
    BY <1>1, <2>1, <2>2
<1>6. f[m - 1] \in Nat /\ g[m - 1] \in Nat
  <2>1. PICK h : ProductsOf(h, s, l)
    BY ProductsExist
  <2>2. f[m - 1] \in 0..(h[m - 1] - 1) /\ g[m - 1] \in 0..(h[m - 1] - 1)
    BY <1>1, <1>5, <2>1, PositionsBelow
  <2>3. QED
    BY <2>2
<1>7. PICK p \in Nat, q \in Nat : p = f[m - 1] /\ q = g[m - 1]
  BY <1>6
<1>8. PICK d \in Nat \ {0}, a \in Nat, b \in Nat :
          d = s[m] /\ a = at[m] /\ b = bt[m] /\ a < d /\ b < d
  BY <1>1, <1>5, ElementOfSeq DEF InLayout
<1>9. p * d + a = q * d + b
  <2>1. f[m] = p * d + a /\ g[m] = q * d + b
    BY <1>4, <1>5, <1>7, <1>8
  <2>2. f[m] = g[m]
    OBVIOUS
  <2>3. QED
    BY <2>1, <2>2
<1>10. p = q /\ a = b
  <2>1. PICK n \in Nat : /\ n = p * d + a /\ n = q * d + b
                         /\ a \in 0..(d - 1) /\ b \in 0..(d - 1)
    <3>1. p * d + a \in Nat
      OBVIOUS
    <3>2. a \in 0..(d - 1) /\ b \in 0..(d - 1)
      BY <1>8
    <3>3. QED
      BY <1>9, <3>1, <3>2
  <2>2. n \div d = p /\ n % d = a
    BY <2>1, DivisionUnique
  <2>3. n \div d = q /\ n % d = b
    BY <2>1, DivisionUnique
  <2>4. QED
    BY <2>2, <2>3
<1>11. PICK k \in 1..m : at[k] # bt[k]
  OBVIOUS
<1>12. k \in 1..(m - 1)
  <2>1. k # m
    BY <1>8, <1>10, <1>11
  <2>2. QED
    BY <1>5, <2>1
<1>13. m - 1 \in T
  BY <1>5, <1>7, <1>10, <1>11, <1>12
<1>14. QED
  BY <1>5, <1>13

LEMMA ProductType == ASSUME NEW s \in Seq(Nat \ {0}) PROVE Product(s) \in Nat \ {0}
<1>1. PICK l \in Nat : l = Len(s)
  OBVIOUS
<1>2. PICK at : at = [k \in 1..l |-> 0]
  OBVIOUS
<1>3. InLayout(at, s)
  <2>1. at \in Seq(Nat) /\ Len(at) = l
    BY <1>2
  <2>2. ASSUME NEW k \in 1..l PROVE at[k] < s[k]
    <3>1. s[k] \in Nat \ {0} /\ at[k] = 0
      BY <1>1, <1>2, ElementOfSeq
    <3>2. QED
      BY <3>1
  <2>3. QED
    BY <1>1, <2>1, <2>2 DEF InLayout
<1>4. PICK f : ProductsOf(f, s, l) /\ Product(s) = f[l]
  BY <1>1, ProductIs
<1>5. PICK g : PositionsOf(g, at, s, l)
  BY PositionsExist
<1>6. l \in 0..l
  OBVIOUS
<1>7. f[l] \in Nat \ {0}
  BY <1>1, <1>3, <1>4, <1>5, <1>6, PositionsBelow
<1>8. QED
  BY <1>4, <1>7

(* The position of coordinates is below the number of slots, and theirs    *)
(* alone.                                                                  *)
LEMMA LinearBelow ==
    ASSUME NEW at, NEW s, InLayout(at, s)
    PROVE  Linear(at, s) \in 0..(Product(s) - 1)
<1>1. PICK l \in Nat : l = Len(s) /\ l = Len(at)
  BY DEF InLayout
<1>2. PICK f : ProductsOf(f, s, l) /\ Product(s) = f[l]
  BY <1>1, ProductIs
<1>3. PICK g : PositionsOf(g, at, s, l) /\ Linear(at, s) = g[l]
  BY <1>1, LinearIs
<1>4. l \in 0..l
  OBVIOUS
<1>5. g[l] \in 0..(f[l] - 1)
  BY <1>1, <1>2, <1>3, <1>4, PositionsBelow
<1>6. QED
  BY <1>2, <1>3, <1>5

LEMMA LinearApart ==
    ASSUME NEW at, NEW bt, NEW s, InLayout(at, s), InLayout(bt, s), Linear(at, s) = Linear(bt, s)
    PROVE  at = bt
<1>1. PICK l \in Nat : l = Len(s) /\ l = Len(at) /\ l = Len(bt)
  BY DEF InLayout
<1>2. PICK f : PositionsOf(f, at, s, l) /\ Linear(at, s) = f[l]
  BY <1>1, LinearIs
<1>3. PICK g : PositionsOf(g, bt, s, l) /\ Linear(bt, s) = g[l]
  BY <1>1, LinearIs
<1>4. QED
  BY <1>1, <1>2, <1>3, PositionsApart

LEMMA MaxOfTwo ==
    ASSUME NEW a \in Int, NEW b \in Int
    PROVE  Max({a, b}) = IF a >= b THEN a ELSE b
BY DEF Max

LEMMA SlotsType == ASSUME NEW x \in Elements \cup Clocks PROVE Slots(x) \in Nat \ {0}
<1>1. CASE x \in Nodes
  <2>1. Product(Layout[x]) \in Nat \ {0}
    BY <1>1, GraphAssumption, ProductType
  <2>2. QED
    BY <1>1, <2>1 DEF Slots
<1>2. CASE x \notin Nodes /\ x \in Edges
  <2>1. Bandwidth[x] \in Nat /\ Latency[x] \in Nat
    BY <1>2, GraphAssumption
  <2>2. PICK m \in Nat \ {0} : m = Max({Bandwidth[x], 1})
    BY <2>1, MaxOfTwo
  <2>3. PICK n \in Nat \ {0} : n = Max({Latency[x], 1})
    BY <2>1, MaxOfTwo
  <2>4. m * n \in Nat \ {0}
    OBVIOUS
  <2>5. QED
    BY <1>2, <2>2, <2>3, <2>4 DEF Slots
<1>3. CASE x \notin Nodes /\ x \notin Edges
  BY <1>3 DEF Slots
<1>4. QED
  BY <1>1, <1>2, <1>3

-----------------------------------------------------------------------------
(* The inductive invariant.                                                *)

(* Every track has a clock, and the trace never changes it.                *)
TracksOK ==
    /\ nextTrackID \in Nat /\ tracks \in Seq(Range(tracks)) /\ Len(tracks) = nextTrackID
    /\ \A k \in 1..nextTrackID : "clock" \in DOMAIN tracks[k]

Ranges == [clock : Clocks, first : Nat, last : Nat]

(* No range ends after the last track.                                     *)
WithinTracks == \A r \in DOMAIN clockRanges : clockRanges[r].last <= nextTrackID

IInv == TracksOK /\ clockRanges \in Seq(Ranges) /\ WithinTracks /\ RangesExact

LEMMA InitIInv == Init => IInv
<1> SUFFICES ASSUME Init PROVE IInv
  OBVIOUS
<1>1. tracks = <<>> /\ clockRanges = <<>> /\ nextTrackID = 0
  BY DEF Init
<1>2. TracksOK
  BY <1>1 DEF TracksOK, Range
<1>3. clockRanges \in Seq(Ranges) /\ RangesExact /\ WithinTracks
  BY <1>1 DEF RangesExact, WithinTracks
<1>4. QED
  BY <1>2, <1>3 DEF IInv

-----------------------------------------------------------------------------
(* A block of tracks is added.                                             *)

(* The tracks there were stay as they are, and the new ones have a clock.  *)
LEMMA AddedTracks ==
    ASSUME TracksOK, NEW s \in Nat, NEW new, new \in Seq(Range(new)), Len(new) = s, NEW c,
           \A k \in 1..s : "clock" \in DOMAIN new[k] /\ new[k].clock = c,
           tracks' = tracks \o new, nextTrackID' = nextTrackID + s
    PROVE  /\ TracksOK'
           /\ \A k \in 1..nextTrackID : tracks'[k].clock = tracks[k].clock
           /\ \A k \in (nextTrackID + 1)..(nextTrackID + s) : tracks'[k].clock = c
           /\ \A k \in 1..nextTrackID : tracks'[k] = tracks[k]
           /\ \A k \in (nextTrackID + 1)..(nextTrackID + s) : tracks'[k] \in Range(new)
<1> DEFINE S == Range(tracks) \cup Range(new)
<1>1. PICK n \in Nat : n = nextTrackID
  BY DEF TracksOK
<1>2. tracks \in Seq(S) /\ new \in Seq(S) /\ Len(tracks) = n /\ Len(new) = s
  BY <1>1 DEF TracksOK, Range
<1> HIDE DEF S
<1>3. /\ tracks \o new \in Seq(S) /\ Len(tracks \o new) = n + s
      /\ \A k \in 1..(n + s) :
            (tracks \o new)[k] = IF k <= n THEN tracks[k] ELSE new[k - n]
  <2>1. /\ tracks \o new \in Seq(S) /\ Len(tracks \o new) = Len(tracks) + Len(new)
        /\ \A k \in 1..(Len(tracks) + Len(new)) :
              (tracks \o new)[k] = IF k <= Len(tracks) THEN tracks[k] ELSE new[k - Len(tracks)]
    BY <1>2, ConcatProperties
  <2>2. QED
    BY <1>2, <2>1
<1>4. /\ tracks' \in Seq(S) /\ Len(tracks') = n + s /\ DOMAIN tracks' = 1..(n + s)
      /\ \A k \in 1..n : tracks'[k] = tracks[k]
      /\ \A k \in (n + 1)..(n + s) : tracks'[k] = new[k - n] /\ k - n \in 1..s
  <2>1. PICK u \in Seq(S) : u = tracks'
    BY <1>3
  <2>2. Len(u) = n + s /\ DOMAIN u = 1..(n + s)
    BY <1>3, <2>1
  <2>3. \A k \in 1..(n + s) : u[k] = IF k <= n THEN tracks[k] ELSE new[k - n]
    BY <1>3, <2>1
  <2>4. ASSUME NEW k \in 1..n PROVE u[k] = tracks[k]
    <3>1. k \in 1..(n + s) /\ k <= n
      OBVIOUS
    <3>2. QED
      BY <2>3, <3>1, Zenon
  <2>5. \A k \in (n + 1)..(n + s) : u[k] = new[k - n] /\ k - n \in 1..s
    BY <2>3
  <2>6. QED
    BY <2>1, <2>2, <2>4, <2>5, Zenon
<1>5. tracks' \in Seq(Range(tracks'))
  <2>1. PICK u \in Seq(S) : u = tracks'
    BY <1>4
  <2>2. u \in Seq(Range(u))
    BY DEF Range
  <2>3. QED
    BY <2>1, <2>2
<1>6. \A k \in 1..(n + s) : k \in 1..n \/ k \in (n + 1)..(n + s)
  OBVIOUS
<1>7. \A k \in (n + 1)..(n + s) : "clock" \in DOMAIN tracks'[k] /\ tracks'[k].clock = c
  BY <1>4
<1>8. TracksOK'
  <2>1. \A k \in 1..(n + s) : "clock" \in DOMAIN tracks'[k]
    BY <1>1, <1>4, <1>6, <1>7 DEF TracksOK
  <2>2. QED
    BY <1>1, <1>4, <1>5, <2>1 DEF TracksOK
<1>9. \A k \in (n + 1)..(n + s) : tracks'[k] \in Range(new)
  <2>1. DOMAIN new = 1..s
    BY <1>2
  <2>2. \A k \in 1..s : new[k] \in Range(new)
    BY <2>1 DEF Range
  <2>3. QED
    BY <1>4, <2>2
<1>10. QED
  BY <1>1, <1>4, <1>7, <1>8, <1>9

(* The last range grows, or another one follows it.                        *)
LEMMA TrackIInv ==
    ASSUME IInv, NEW x \in Elements \cup Clocks, NEW c \in Clocks, Track(x, c)
    PROVE  IInv'
<1>1. PICK s \in Nat \ {0} : s = Slots(x)
  BY SlotsType
<1>2. PICK new : new = [k \in 1..s |-> [clock |-> c, table |-> Len(renames) + 1, values |-> <<>>]]
  OBVIOUS
<1>3. tracks' = tracks \o new /\ nextTrackID' = nextTrackID + s
  BY <1>1, <1>2 DEF Track
<1>4. /\ new \in Seq(Range(new)) /\ Len(new) = s
      /\ \A k \in 1..s : "clock" \in DOMAIN new[k] /\ new[k].clock = c
  BY <1>2 DEF Range
<1>5. /\ TracksOK'
      /\ \A k \in 1..nextTrackID : tracks'[k].clock = tracks[k].clock
      /\ \A k \in (nextTrackID + 1)..(nextTrackID + s) : tracks'[k].clock = c
  BY <1>3, <1>4, AddedTracks DEF IInv
<1>6. PICK N \in Nat : N = nextTrackID
  BY DEF IInv, TracksOK
<1>7. PICK n \in Nat : n = Len(clockRanges)
  BY DEF IInv
<1>8. PICK R \in Seq(Ranges) : R = clockRanges
  BY DEF IInv
<1>9. /\ n = 0 => N = 0
      /\ n > 0 => R[1].first = 0 /\ R[n].last = N
      /\ \A r \in 1..(n - 1) : R[r].last = R[r + 1].first /\ R[r].clock # R[r + 1].clock
      /\ \A r \in 1..n : \A id \in R[r].first..(R[r].last - 1) : tracks[id + 1].clock = R[r].clock
      /\ Len(R) = n /\ DOMAIN R = 1..n /\ \A r \in 1..n : R[r].last <= N
  <2>1. /\ Len(clockRanges) = 0 => nextTrackID = 0
        /\ Len(clockRanges) > 0 =>
              clockRanges[1].first = 0 /\ clockRanges[Len(clockRanges)].last = nextTrackID
        /\ \A r \in 1..(Len(clockRanges) - 1) :
              /\ clockRanges[r].last = clockRanges[r + 1].first
              /\ clockRanges[r].clock # clockRanges[r + 1].clock
        /\ \A r \in 1..Len(clockRanges) :
              \A id \in clockRanges[r].first..(clockRanges[r].last - 1) :
                  tracks[id + 1].clock = clockRanges[r].clock
    BY Zenon DEF IInv, RangesExact
  <2>2. DOMAIN clockRanges = 1..Len(clockRanges)
    BY DEF IInv
  <2>3. \A r \in 1..Len(clockRanges) : clockRanges[r].last <= nextTrackID
    BY <2>2 DEF IInv, WithinTracks
  <2>4. QED
    BY <1>6, <1>7, <1>8, <2>1, <2>2, <2>3, Zenon
<1>10. \A r \in 1..n : R[r] \in Ranges /\ R[r].last \in Nat /\ R[r].first \in Nat
  <2>1. \A r \in 1..n : R[r] \in Ranges
    BY <1>9
  <2>2. \A e \in Ranges : e.last \in Nat /\ e.first \in Nat
    BY DEF Ranges
  <2>3. QED
    BY <2>1, <2>2
<1>11. ASSUME NEW r \in 1..n, NEW id \in R[r].first..(R[r].last - 1)
       PROVE  tracks'[id + 1].clock = R[r].clock
  <2>1. id + 1 \in 1..N
    BY <1>9, <1>10
  <2>2. tracks[id + 1].clock = R[r].clock
    BY <1>9
  <2>3. QED
    BY <1>5, <1>6, <2>1, <2>2
<1>12. \A id \in N..(N + s - 1) : tracks'[id + 1].clock = c
  <2>1. \A id \in N..(N + s - 1) : id + 1 \in (N + 1)..(N + s)
    OBVIOUS
  <2>2. QED
    BY <1>5, <1>6, <2>1
<1>13. nextTrackID' = N + s
  BY <1>3, <1>6
<1>14. PICK Q : Q = clockRanges'
  OBVIOUS
<1>15. CASE Collapses(c)
  <2>1. n > 0 /\ R[n].clock = c
    BY <1>7, <1>8, <1>15 DEF Collapses, Last
  <2>2. Q = [R EXCEPT ![n].last = N + s]
    BY <1>6, <1>7, <1>8, <1>13, <1>14, <1>15 DEF Track, newTrackEntry
  <2>3. PICK e \in Ranges : e = [R[n] EXCEPT !.last = N + s]
    <3>1. [R[n] EXCEPT !.last = N + s] \in Ranges
      BY <1>10, <2>1 DEF Ranges
    <3>2. QED
      BY <3>1
  <2>4. e.clock = c /\ e.first = R[n].first /\ e.last = N + s
    BY <1>10, <2>1, <2>3 DEF Ranges
  <2>5. Q = [R EXCEPT ![n] = e]
    BY <1>9, <2>1, <2>2, <2>3
  <2>6. /\ Q \in Seq(Ranges) /\ Len(Q) = n /\ DOMAIN Q = 1..n /\ Q[n] = e
        /\ \A r \in 1..(n - 1) : Q[r] = R[r]
    BY <1>9, <2>1, <2>5
  <2>7. WithinTracks'
    <3>1. \A r \in 1..n : Q[r].last <= N + s
      <4>1. ASSUME NEW r \in 1..(n - 1) PROVE Q[r].last <= N + s
        <5>1. r \in 1..n /\ Q[r] = R[r]
          BY <2>6
        <5>2. R[r].last <= N /\ R[r].last \in Nat
          BY <1>9, <1>10, <5>1
        <5>3. QED
          BY <5>1, <5>2
      <4>2. Q[n].last <= N + s
        BY <2>4, <2>6
      <4>3. QED
        BY <4>1, <4>2
    <3>2. QED
      BY <1>13, <1>14, <2>6, <3>1 DEF WithinTracks
  <2>8. Q[1].first = 0 /\ Q[n].last = N + s
    BY <1>9, <2>1, <2>4, <2>6
  <2>9. ASSUME NEW r \in 1..(n - 1)
        PROVE  Q[r].last = Q[r + 1].first /\ Q[r].clock # Q[r + 1].clock
    <3>1. R[r].last = R[r + 1].first /\ R[r].clock # R[r + 1].clock /\ Q[r] = R[r]
      BY <1>9, <2>6
    <3>2. Q[r + 1].first = R[r + 1].first /\ Q[r + 1].clock = R[r + 1].clock
      <4>1. CASE r + 1 = n
        BY <2>1, <2>4, <2>6, <4>1
      <4>2. CASE r + 1 # n
        BY <2>6, <4>2
      <4>3. QED
        BY <4>1, <4>2
    <3>3. QED
      BY <3>1, <3>2
  <2>10. ASSUME NEW r \in 1..n, NEW id \in Q[r].first..(Q[r].last - 1)
         PROVE  tracks'[id + 1].clock = Q[r].clock
    <3>1. CASE r # n
      BY <1>11, <2>6, <3>1
    <3>2. CASE r = n /\ id \in R[n].first..(R[n].last - 1)
      BY <1>11, <2>1, <2>4, <2>6, <3>2
    <3>3. CASE r = n /\ id \in N..(N + s - 1)
      BY <1>12, <2>4, <2>6, <3>3
    <3>4. r = n => id \in R[n].first..(R[n].last - 1) \/ id \in N..(N + s - 1)
      BY <1>9, <1>10, <2>1, <2>4, <2>6
    <3>5. QED
      BY <3>1, <3>2, <3>3, <3>4
  <2>11. RangesExact'
    BY <1>13, <1>14, <2>1, <2>6, <2>8, <2>9, <2>10 DEF RangesExact
  <2>12. QED
    BY <1>5, <1>14, <2>6, <2>7, <2>11 DEF IInv
<1>16. CASE ~Collapses(c)
  <2>1. n > 0 => R[n].clock # c
    BY <1>7, <1>8, <1>16 DEF Collapses, Last
  <2>2. PICK e \in Ranges : e = [clock |-> c, first |-> N, last |-> N + s]
    <3>1. [clock |-> c, first |-> N, last |-> N + s] \in Ranges
      BY DEF Ranges
    <3>2. QED
      BY <3>1
  <2>3. e.clock = c /\ e.first = N /\ e.last = N + s
    BY <2>2
  <2>4. Q = Append(R, e)
    BY <1>6, <1>8, <1>13, <1>14, <1>16, <2>2 DEF Track, newTrackEntry
  <2>5. /\ Q \in Seq(Ranges) /\ Len(Q) = n + 1 /\ DOMAIN Q = 1..(n + 1) /\ Q[n + 1] = e
        /\ \A r \in 1..n : Q[r] = R[r]
    BY <1>9, <2>4
  <2>6. WithinTracks'
    <3>1. \A r \in 1..(n + 1) : Q[r].last <= N + s
      <4>1. \A r \in 1..n : Q[r].last <= N + s
        BY <1>9, <1>10, <2>5
      <4>2. Q[n + 1].last <= N + s
        BY <2>3, <2>5
      <4>3. QED
        BY <4>1, <4>2
    <3>2. QED
      BY <1>13, <1>14, <2>5, <3>1 DEF WithinTracks
  <2>7. Q[1].first = 0 /\ Q[n + 1].last = N + s
    BY <1>9, <2>3, <2>5
  <2>8. ASSUME NEW r \in 1..n
        PROVE  Q[r].last = Q[r + 1].first /\ Q[r].clock # Q[r + 1].clock
    <3>1. CASE r = n
      BY <1>9, <2>1, <2>3, <2>5, <3>1
    <3>2. CASE r # n
      BY <1>9, <2>5, <3>2
    <3>3. QED
      BY <3>1, <3>2
  <2>9. ASSUME NEW r \in 1..(n + 1), NEW id \in Q[r].first..(Q[r].last - 1)
        PROVE  tracks'[id + 1].clock = Q[r].clock
    <3>1. CASE r = n + 1
      BY <1>12, <2>3, <2>5, <3>1
    <3>2. CASE r # n + 1
      BY <1>11, <2>5, <3>2
    <3>3. QED
      BY <3>1, <3>2
  <2>10. Len(Q) = n + 1 /\ Len(Q) # 0 /\ Len(Q) - 1 = n
    BY <2>5
  <2>11. RangesExact'
    <3>1. \A r \in 1..(Len(Q) - 1) : Q[r].last = Q[r + 1].first /\ Q[r].clock # Q[r + 1].clock
      BY <2>8, <2>10
    <3>2. \A r \in 1..Len(Q) : \A id \in Q[r].first..(Q[r].last - 1) :
             tracks'[id + 1].clock = Q[r].clock
      BY <2>9, <2>10
    <3>3. Q[1].first = 0 /\ Q[Len(Q)].last = nextTrackID'
      BY <1>13, <2>7, <2>10
    <3>4. QED
      BY <1>14, <2>10, <3>1, <3>2, <3>3, Zenon DEF RangesExact
  <2>12. QED
    BY <1>5, <1>14, <2>5, <2>6, <2>11 DEF IInv
<1>17. QED
  BY <1>15, <1>16

-----------------------------------------------------------------------------
(* What the trace stores changes no clock of a track.                      *)

LEMMA StoredIInv ==
    ASSUME IInv, UNCHANGED <<nextTrackID, clockRanges>>, TracksOK',
           \A k \in 1..nextTrackID : tracks'[k].clock = tracks[k].clock
    PROVE  IInv'
<1>1. WithinTracks'
  BY DEF IInv, WithinTracks
<1>2. RangesExact'
  <2>1. nextTrackID \in Nat /\ clockRanges \in Seq(Ranges)
    BY DEF IInv, TracksOK
  <2>2. ASSUME NEW r \in 1..Len(clockRanges),
               NEW id \in clockRanges[r].first..(clockRanges[r].last - 1)
        PROVE  tracks'[id + 1].clock = clockRanges[r].clock
    <3>1. /\ clockRanges[r].first \in Nat /\ clockRanges[r].last \in Nat
          /\ clockRanges[r].last <= nextTrackID
      <4>1. clockRanges[r] \in Ranges /\ r \in DOMAIN clockRanges
        BY <2>1
      <4>2. QED
        BY <4>1 DEF IInv, WithinTracks, Ranges
    <3>2. id + 1 \in 1..nextTrackID
      BY <2>1, <3>1
    <3>3. tracks[id + 1].clock = clockRanges[r].clock
      BY DEF IInv, RangesExact
    <3>4. QED
      BY <3>2, <3>3
  <2>3. QED
    BY <2>2 DEF IInv, RangesExact
<1>3. QED
  BY <1>1, <1>2 DEF IInv

LEMMA PutTracks ==
    ASSUME TracksOK, NEW id, NEW t, NEW value, Put(id, t, value), UNCHANGED nextTrackID
    PROVE  TracksOK' /\ \A k \in 1..nextTrackID : tracks'[k].clock = tracks[k].clock
<1>1. PICK v : tracks' = [tracks EXCEPT ![id + 1].values = v]
  BY DEF Put
<1>2. PICK n \in Nat : n = nextTrackID /\ DOMAIN tracks = 1..n
  BY DEF TracksOK
<1>3. DOMAIN tracks' = 1..n /\ tracks' = [k \in 1..n |-> tracks'[k]]
  BY <1>1, <1>2
<1>4. ASSUME NEW k \in 1..n
      PROVE  "clock" \in DOMAIN tracks'[k] /\ tracks'[k].clock = tracks[k].clock
  <2>1. "clock" \in DOMAIN tracks[k]
    BY <1>2 DEF TracksOK
  <2>2. tracks'[k] = tracks[k] \/ tracks'[k] = [tracks[k] EXCEPT !.values = v]
    BY <1>1, <1>2
  <2>3. QED
    BY <2>1, <2>2
<1>5. TracksOK'
  <2>1. \A k \in 1..n : tracks'[k] \in Range(tracks')
    BY <1>3 DEF Range
  <2>2. tracks' \in Seq(Range(tracks')) /\ Len(tracks') = n
    BY <1>3, <2>1
  <2>3. QED
    BY <1>2, <1>4, <2>2 DEF TracksOK
<1>6. QED
  BY <1>2, <1>4, <1>5

LEMMA PutIInv ==
    ASSUME IInv, NEW id, NEW t, NEW value, Put(id, t, value),
           UNCHANGED <<nextTrackID, clockRanges>>
    PROVE  IInv'
BY PutTracks, StoredIInv DEF IInv

LEMMA SameIInv ==
    ASSUME IInv, UNCHANGED <<nextTrackID, clockRanges, tracks>> PROVE IInv'
BY DEF IInv, TracksOK, WithinTracks, RangesExact

-----------------------------------------------------------------------------
(* All steps.                                                              *)

LEMMA WriteEffect ==
    ASSUME Write
    PROVE  /\ UNCHANGED <<nextTrackID, clockRanges, trackTbl>>
           /\ tracks' = tracks \/ \E id, t, value : Put(id, t, value)
<1>1. UNCHANGED <<nextTrackID, clockRanges, trackTbl>>
  BY DEF Write
<1>2. ASSUME NEW n \in Nodes, NEW at, NEW t, NEW value, SetNodeTag(n, at, t, value)
      PROVE  tracks' = tracks \/ \E id, u, w : Put(id, u, w)
  BY <1>2 DEF SetNodeTag, Store, setError
<1>3. ASSUME NEW e \in Edges, NEW position, NEW value, MoveItem(e, position, value)
      PROVE  tracks' = tracks \/ \E id, u, w : Put(id, u, w)
  BY <1>3 DEF MoveItem, Store, setError
<1>4. ASSUME NEW t, NEW value, SetCycleTag(t, value)
      PROVE  tracks' = tracks \/ \E id, u, w : Put(id, u, w)
  BY <1>4 DEF SetCycleTag, Store
<1>5. QED
  BY <1>1, <1>2, <1>3, <1>4 DEF Write

LEMMA NextIInv == ASSUME IInv, [Next]_vars PROVE IInv'
<1>1. CASE trackTags
  <2>1. \A x \in Elements : ClockOf[x] \in Clocks
    BY GraphAssumption
  <2>2. QED
    BY <1>1, <2>1, TrackIInv DEF trackTags
<1>2. CASE trackCycleTags
  BY <1>2, TrackIInv DEF trackCycleTags
<1>3. CASE Write
  BY <1>3, WriteEffect, PutIInv, SameIInv
<1>4. CASE Cycle \/ UNCHANGED vars
  BY <1>4, SameIInv DEF Cycle, vars
<1>5. QED
  BY <1>1, <1>2, <1>3, <1>4 DEF Next

(* Every track is compressed with those of its clock, and none is left     *)
(* out, whichever elements the windows ask for, and in whatever order      *)
(* (TrackHeap::newTrackEntry, compressYourSelf).                           *)
THEOREM SpecRangesExact == Spec => []RangesExact
<1>1. Init => IInv
  BY InitIInv
<1>2. IInv /\ [Next]_vars => IInv'
  BY NextIInv
<1>3. IInv => RangesExact
  BY DEF IInv
<1>4. QED
  BY <1>1, <1>2, <1>3, PTL DEF Spec

LEMMA SpecIInv == Spec => []IInv
BY InitIInv, NextIInv, PTL DEF Spec

-----------------------------------------------------------------------------
(* The block of tracks of each element that is tracked.                    *)

Trackable == Elements \cup Clocks
ClockFor(x) == IF x \in Elements THEN ClockOf[x] ELSE x
Block(x) == trackTbl[x] .. (trackTbl[x] + Slots(x) - 1)

BlocksOK ==
    /\ trackTbl \in [Trackable -> Nat \cup {INVALID}]
    /\ \A x \in Trackable : trackTbl[x] # INVALID =>
          /\ trackTbl[x] + Slots(x) <= nextTrackID
          /\ \A id \in Block(x) : tracks[id + 1].clock = ClockFor(x)
    /\ \A x, y \in Trackable : x # y /\ trackTbl[x] # INVALID /\ trackTbl[y] # INVALID =>
          trackTbl[x] + Slots(x) <= trackTbl[y] \/ trackTbl[y] + Slots(y) <= trackTbl[x]

LEMMA BlockInTracks ==
    ASSUME TracksOK, BlocksOK, NEW x \in Trackable, trackTbl[x] # INVALID, NEW id \in Block(x)
    PROVE  id \in 0..(nextTrackID - 1) /\ id + 1 \in 1..nextTrackID
<1>1. trackTbl[x] \in Nat /\ trackTbl[x] + Slots(x) <= nextTrackID /\ nextTrackID \in Nat
  BY DEF TracksOK, BlocksOK
<1>2. Slots(x) \in Nat \ {0}
  BY SlotsType DEF Trackable
<1>3. QED
  BY <1>1, <1>2 DEF Block

LEMMA InitBlocksOK == Init => BlocksOK
BY DEF Init, BlocksOK, Trackable

LEMMA TrackBlocksOK ==
    ASSUME IInv, BlocksOK, NEW x \in Trackable, Track(x, ClockFor(x))
    PROVE  BlocksOK'
<1>1. PICK s \in Nat \ {0} : s = Slots(x)
  BY SlotsType DEF Trackable
<1>2. PICK c : c = ClockFor(x)
  OBVIOUS
<1>3. PICK new : new = [k \in 1..s |-> [clock |-> c, table |-> Len(renames) + 1, values |-> <<>>]]
  OBVIOUS
<1>4. PICK N \in Nat : N = nextTrackID
  BY DEF IInv, TracksOK
<1>5. /\ tracks' = tracks \o new /\ nextTrackID' = N + s /\ trackTbl[x] = INVALID
      /\ trackTbl' = [trackTbl EXCEPT ![x] = N]
  BY <1>1, <1>2, <1>3, <1>4 DEF Track
<1>6. /\ new \in Seq(Range(new)) /\ Len(new) = s
      /\ \A k \in 1..s : "clock" \in DOMAIN new[k] /\ new[k].clock = c
  BY <1>3 DEF Range
<1>7. /\ \A k \in 1..N : tracks'[k].clock = tracks[k].clock
      /\ \A k \in (N + 1)..(N + s) : tracks'[k].clock = c
  BY <1>4, <1>5, <1>6, AddedTracks DEF IInv
<1>8. /\ trackTbl' \in [Trackable -> Nat \cup {INVALID}] /\ trackTbl'[x] = N
      /\ \A y \in Trackable : y # x => trackTbl'[y] = trackTbl[y]
      /\ N # INVALID
  BY <1>5, GraphAssumption DEF BlocksOK
<1>9. ASSUME NEW y \in Trackable, y # x, trackTbl[y] # INVALID
      PROVE  trackTbl[y] \in Nat /\ Slots(y) \in Nat /\ trackTbl[y] + Slots(y) <= N
  BY <1>4, <1>9, SlotsType DEF BlocksOK, Trackable
<1>10. ASSUME NEW y \in Trackable, trackTbl'[y] # INVALID
       PROVE  /\ trackTbl'[y] + Slots(y) <= N + s
              /\ \A id \in trackTbl'[y]..(trackTbl'[y] + Slots(y) - 1) :
                    tracks'[id + 1].clock = ClockFor(y)
  <2>1. CASE y = x
    <3>1. \A id \in N..(N + s - 1) : id + 1 \in (N + 1)..(N + s)
      OBVIOUS
    <3>2. QED
      BY <1>1, <1>2, <1>7, <1>8, <2>1, <3>1
  <2>2. CASE y # x
    <3>1. trackTbl'[y] = trackTbl[y] /\ trackTbl[y] # INVALID
      BY <1>8, <1>10, <2>2
    <3>2. trackTbl[y] \in Nat /\ Slots(y) \in Nat /\ trackTbl[y] + Slots(y) <= N
      BY <1>9, <2>2, <3>1
    <3>3. ASSUME NEW id \in trackTbl[y]..(trackTbl[y] + Slots(y) - 1)
          PROVE  tracks'[id + 1].clock = ClockFor(y)
      <4>1. id + 1 \in 1..N
        BY <3>2
      <4>2. tracks[id + 1].clock = ClockFor(y)
        BY <3>1 DEF BlocksOK, Block
      <4>3. QED
        BY <1>7, <4>1, <4>2
    <3>4. QED
      BY <3>1, <3>2, <3>3
  <2>3. QED
    BY <2>1, <2>2
<1>11. ASSUME NEW y \in Trackable, NEW z \in Trackable, y # z,
              trackTbl'[y] # INVALID, trackTbl'[z] # INVALID
       PROVE  trackTbl'[y] + Slots(y) <= trackTbl'[z] \/ trackTbl'[z] + Slots(z) <= trackTbl'[y]
  <2>1. CASE y = x
    BY <1>8, <1>9, <1>11, <2>1
  <2>2. CASE z = x
    BY <1>8, <1>9, <1>11, <2>2
  <2>3. CASE y # x /\ z # x
    BY <1>8, <1>11, <2>3 DEF BlocksOK
  <2>4. QED
    BY <2>1, <2>2, <2>3
<1>12. QED
  BY <1>5, <1>8, <1>10, <1>11 DEF BlocksOK, Block

LEMMA WriteBlocksOK ==
    ASSUME IInv, BlocksOK, UNCHANGED <<nextTrackID, trackTbl>>,
           \A k \in 1..nextTrackID : tracks'[k].clock = tracks[k].clock
    PROVE  BlocksOK'
<1>1. ASSUME NEW x \in Trackable, trackTbl[x] # INVALID, NEW id \in Block(x)
      PROVE  tracks'[id + 1].clock = ClockFor(x)
  <2>1. id + 1 \in 1..nextTrackID
    BY <1>1, BlockInTracks DEF IInv
  <2>2. tracks[id + 1].clock = ClockFor(x)
    BY <1>1 DEF BlocksOK
  <2>3. QED
    BY <2>1, <2>2
<1>2. QED
  BY <1>1 DEF BlocksOK, Block

LEMMA NextBlocksOK == ASSUME IInv, BlocksOK, [Next]_vars PROVE BlocksOK'
<1>1. CASE trackTags
  <2>1. PICK x \in Elements : Track(x, ClockOf[x])
    BY <1>1 DEF trackTags
  <2>2. QED
    BY <2>1, TrackBlocksOK DEF Trackable, ClockFor
<1>2. CASE trackCycleTags
  <2>1. PICK c \in Clocks : Track(c, c)
    BY <1>2 DEF trackCycleTags
  <2>2. c \notin Elements
    BY GraphAssumption
  <2>3. QED
    BY <2>1, <2>2, TrackBlocksOK DEF Trackable, ClockFor
<1>3. CASE Write
  BY <1>3, WriteEffect, PutTracks, WriteBlocksOK DEF IInv
<1>4. CASE Cycle \/ UNCHANGED vars
  BY <1>4 DEF Cycle, vars, BlocksOK, Block
<1>5. QED
  BY <1>1, <1>2, <1>3, <1>4 DEF Next

LEMMA SpecBlocksOK == Spec => []BlocksOK
BY InitBlocksOK, NextBlocksOK, SpecIInv, PTL DEF Spec

-----------------------------------------------------------------------------
(* The places of the trace.                                                *)

(* The track of a place is in the block of its element, where the          *)
(* coordinates say.                                                        *)
InBlock(x, at, id) ==
    \/ x \in Nodes /\ at = <<>> /\ id = trackTbl[x]
    \/ x \in Nodes /\ InLayout(at, Layout[x]) /\ at # <<>> /\ id = trackTbl[x] + 1 + Linear(at, Layout[x])
    \/ x \in Edges /\ at \in Seq(Nat) /\ Len(at) = 1 /\ at[1] < Bandwidth[x] /\ id = trackTbl[x] + at[1]
    \/ x \in Clocks /\ at = <<>> /\ id = trackTbl[x]

IsPlace(x, at, id) ==
    x \in Trackable /\ trackTbl[x] # INVALID /\ id \in Block(x) /\ InBlock(x, at, id)

LEMMA WithinLayout ==
    ASSUME NEW n \in Nodes, NEW at \in Within(n), at # <<>>
    PROVE  InLayout(at, Layout[n]) /\ linearPosition(at, Layout[n]) = Linear(at, Layout[n])
<1>1. PICK s \in Seq(Nat \ {0}) : s = Layout[n]
  BY GraphAssumption
<1>2. /\ Len(at) = Len(s) /\ ~\E k \in DOMAIN at : at[k] >= s[k]
      /\ linearPosition(at, s) = Linear(at, s)
  <2>1. linearPosition(at, s) \in Nat
    BY <1>1 DEF Within
  <2>2. NUM_DIM_ERROR \notin Nat /\ OOB_DIM_ERROR \notin Nat
    BY GraphAssumption
  <2>3. QED
    BY <2>1, <2>2 DEF linearPosition
<1>3. PICK l \in Nat : l = Len(s)
  BY <1>1
<1>4. /\ at \in {<<0>>} \cup {<<k>> : k \in 0..s[1]} \cup {<<j, k>> : j \in 0..s[1], k \in 0..Last(s)}
  BY <1>1 DEF Within, Coordinates
<1>5. l \in Nat \ {0}
  <2>1. Len(at) = 1 \/ Len(at) = 2
    BY <1>4
  <2>2. QED
    BY <1>2, <1>3, <2>1
<1>6. s[1] \in Nat /\ Last(s) \in Nat
  <2>1. 1 \in 1..l /\ l \in 1..l
    BY <1>5
  <2>2. s[1] \in Nat \ {0} /\ s[l] \in Nat \ {0}
    BY <1>1, <1>3, <2>1, ElementOfSeq
  <2>3. QED
    BY <1>3, <2>2 DEF Last
<1>7. at \in Seq(Nat)
  <2>1. at = <<0>> \/ (\E k \in Nat : at = <<k>>) \/ (\E j, k \in Nat : at = <<j, k>>)
    BY <1>4, <1>6
  <2>2. \A j, k \in Nat : <<k>> \in Seq(Nat) /\ <<j, k>> \in Seq(Nat)
    OBVIOUS
  <2>3. QED
    BY <2>1, <2>2, Zenon
<1>8. \A k \in 1..l : at[k] < s[k]
  <2>1. ASSUME NEW k \in 1..l PROVE at[k] < s[k]
    <3>1. at[k] \in Nat /\ s[k] \in Nat
      BY <1>1, <1>2, <1>3, <1>7, ElementOfSeq
    <3>2. k \in DOMAIN at
      BY <1>2, <1>3, <1>7
    <3>3. ~(at[k] >= s[k])
      BY <1>2, <3>2
    <3>4. QED
      BY <3>1, <3>3
  <2>2. QED
    BY <2>1
<1>9. QED
  BY <1>1, <1>2, <1>3, <1>7, <1>8 DEF InLayout

LEMMA NodePlace ==
    ASSUME BlocksOK, NEW n \in Nodes, trackTbl[n] # INVALID, NEW at \in Within(n)
    PROVE  IsPlace(n, at, resolveNode(n, at))
<1>1. n \in Trackable
  BY DEF Trackable, Elements
<1>2. PICK a \in Nat : a = trackTbl[n]
  BY <1>1 DEF BlocksOK
<1>3. PICK m \in Nat \ {0} : m = Product(Layout[n]) /\ Slots(n) = 1 + m
  BY GraphAssumption, ProductType DEF Slots
<1>4. Block(n) = a..(a + m)
  BY <1>2, <1>3 DEF Block
<1>5. CASE at = <<>>
  <2>1. resolveNode(n, at) = a /\ a \in a..(a + m)
    BY <1>2, <1>5 DEF resolveNode
  <2>2. QED
    BY <1>1, <1>2, <1>4, <1>5, <2>1 DEF IsPlace, InBlock
<1>6. CASE at # <<>>
  <2>1. InLayout(at, Layout[n]) /\ linearPosition(at, Layout[n]) = Linear(at, Layout[n])
    BY <1>6, WithinLayout
  <2>2. PICK p \in 0..(m - 1) : p = Linear(at, Layout[n])
    BY <1>3, <2>1, LinearBelow
  <2>3. resolveNode(n, at) = a + 1 + p
    <3>1. p \in Nat
      OBVIOUS
    <3>2. QED
      BY <1>2, <1>6, <2>1, <2>2, <3>1 DEF resolveNode
  <2>4. a + 1 + p \in a..(a + m)
    OBVIOUS
  <2>5. QED
    BY <1>1, <1>2, <1>4, <1>6, <2>1, <2>2, <2>3, <2>4 DEF IsPlace, InBlock
<1>7. QED
  BY <1>5, <1>6

LEMMA EdgePlace ==
    ASSUME BlocksOK, NEW e \in Edges, trackTbl[e] # INVALID, NEW k \in 0..(Bandwidth[e] - 1)
    PROVE  IsPlace(e, <<k>>, MoveTrack(e, k))
<1>1. e \in Trackable /\ e \notin Nodes
  BY GraphAssumption DEF Trackable, Elements
<1>2. PICK a \in Nat : a = trackTbl[e]
  BY <1>1 DEF BlocksOK
<1>3. Bandwidth[e] \in Nat /\ Latency[e] \in Nat
  BY GraphAssumption
<1>4. k \in Nat /\ k < Bandwidth[e]
  BY <1>3
<1>5. PICK m \in Nat \ {0} : m = Max({Bandwidth[e], 1}) /\ k < m
  <2>1. Max({Bandwidth[e], 1}) = IF Bandwidth[e] >= 1 THEN Bandwidth[e] ELSE 1
    BY <1>3, MaxOfTwo
  <2>2. QED
    BY <1>3, <1>4, <2>1
<1>6. PICK l \in Nat \ {0} : l = Max({Latency[e], 1})
  <2>1. Max({Latency[e], 1}) = IF Latency[e] >= 1 THEN Latency[e] ELSE 1
    BY <1>3, MaxOfTwo
  <2>2. QED
    BY <1>3, <2>1
<1>7. PICK s \in Nat : s = Slots(e) /\ k < s
  <2>1. m * l \in Nat /\ m <= m * l
    <3>1. PICK j \in Nat : l = 1 + j
      <4>1. l - 1 \in Nat /\ l = 1 + (l - 1)
        OBVIOUS
      <4>2. QED
        BY <4>1
    <3>2. m * l = m + m * j /\ m * j \in Nat
      BY <3>1
    <3>3. QED
      BY <3>2
  <2>2. Slots(e) = m * l
    BY <1>1, <1>5, <1>6 DEF Slots
  <2>3. k < m * l
    <3>1. PICK u \in Nat : u = m * l
      BY <2>1
    <3>2. QED
      BY <1>4, <1>5, <2>1, <3>1
  <2>4. QED
    BY <2>1, <2>2, <2>3
<1>8. MoveTrack(e, k) = a + k /\ a + k \in Block(e)
  BY <1>2, <1>4, <1>7 DEF MoveTrack, Block
<1>9. <<k>> \in Seq(Nat) /\ Len(<<k>>) = 1 /\ <<k>>[1] = k
  BY <1>4
<1>10. QED
  BY <1>1, <1>2, <1>4, <1>8, <1>9 DEF IsPlace, InBlock

LEMMA CyclePlace ==
    ASSUME BlocksOK, NEW c \in Clocks, trackTbl[c] # INVALID
    PROVE  IsPlace(c, <<>>, trackTbl[c])
<1>1. c \in Trackable
  BY DEF Trackable
<1>2. trackTbl[c] \in Nat /\ Slots(c) \in Nat \ {0}
  BY <1>1, SlotsType DEF BlocksOK, Trackable
<1>3. trackTbl[c] \in Block(c)
  BY <1>2 DEF Block
<1>4. QED
  BY <1>1, <1>3 DEF IsPlace, InBlock

LEMMA PlaceFacts ==
    ASSUME BlocksOK, NEW p \in Places
    PROVE  /\ p = [of |-> p.of, at |-> p.at, track |-> p.track]
           /\ IsPlace(p.of, p.at, p.track)
<1>1. CASE \E n \in Nodes : p \in NodePlaces(n)
  <2>1. PICK n \in Nodes : p \in NodePlaces(n)
    BY <1>1
  <2>2. trackTbl[n] # INVALID
    BY <2>1 DEF NodePlaces
  <2>3. PICK at \in Within(n) : p = [of |-> n, at |-> at, track |-> resolveNode(n, at)]
    BY <2>1, <2>2 DEF NodePlaces
  <2>4. IsPlace(n, at, resolveNode(n, at))
    BY <2>2, NodePlace
  <2>5. QED
    BY <2>3, <2>4
<1>2. CASE \E e \in Edges : p \in EdgePlaces(e)
  <2>1. PICK e \in Edges : p \in EdgePlaces(e)
    BY <1>2
  <2>2. trackTbl[e] # INVALID
    BY <2>1 DEF EdgePlaces
  <2>3. PICK k \in 0..(Bandwidth[e] - 1) : p = [of |-> e, at |-> <<k>>, track |-> MoveTrack(e, k)]
    BY <2>1, <2>2 DEF EdgePlaces
  <2>4. IsPlace(e, <<k>>, MoveTrack(e, k))
    BY <2>2, EdgePlace
  <2>5. QED
    BY <2>3, <2>4
<1>3. CASE \E c \in Clocks : p \in CyclePlaces(c)
  <2>1. PICK c \in Clocks : p \in CyclePlaces(c)
    BY <1>3
  <2>2. trackTbl[c] # INVALID /\ p = [of |-> c, at |-> <<>>, track |-> trackTbl[c]]
    BY <2>1 DEF CyclePlaces
  <2>3. IsPlace(c, <<>>, trackTbl[c])
    BY <2>2, CyclePlace
  <2>4. QED
    BY <2>2, <2>3
<1>4. QED
  BY <1>1, <1>2, <1>3 DEF Places

(* No two places have the same track.                                      *)
LEMMA InBlocksApart ==
    ASSUME BlocksOK, NEW x, NEW y, NEW at, NEW bt, NEW id, IsPlace(x, at, id), IsPlace(y, bt, id)
    PROVE  x = y /\ at = bt
<1>1. /\ x \in Trackable /\ y \in Trackable /\ trackTbl[x] \in Nat /\ trackTbl[y] \in Nat
      /\ trackTbl[x] # INVALID /\ trackTbl[y] # INVALID
  BY DEF IsPlace, BlocksOK
<1>2. Slots(x) \in Nat \ {0} /\ Slots(y) \in Nat \ {0}
  BY <1>1, SlotsType DEF Trackable
<1>3. id \in Block(x) /\ id \in Block(y)
  BY DEF IsPlace
<1>4. x = y
  <2>1. SUFFICES ASSUME x # y PROVE FALSE
    OBVIOUS
  <2>2. trackTbl[x] + Slots(x) <= trackTbl[y] \/ trackTbl[y] + Slots(y) <= trackTbl[x]
    BY <1>1, <2>1 DEF BlocksOK
  <2>3. QED
    BY <1>1, <1>2, <1>3, <2>2 DEF Block
<1>5. InBlock(x, at, id) /\ InBlock(x, bt, id)
  BY <1>4 DEF IsPlace
<1>6. PICK a \in Nat : a = trackTbl[x]
  BY <1>1
<1>7. Nodes \cap Edges = {} /\ Nodes \cap Clocks = {} /\ Edges \cap Clocks = {}
  BY GraphAssumption DEF Elements
<1>8. CASE x \in Nodes
  <2>1. \/ at = <<>> /\ id = a
        \/ InLayout(at, Layout[x]) /\ id = a + 1 + Linear(at, Layout[x])
    BY <1>5, <1>6, <1>7, <1>8 DEF InBlock
  <2>2. \/ bt = <<>> /\ id = a
        \/ InLayout(bt, Layout[x]) /\ id = a + 1 + Linear(bt, Layout[x])
    BY <1>5, <1>6, <1>7, <1>8 DEF InBlock
  <2>3. Product(Layout[x]) \in Nat
    BY <1>8, GraphAssumption, ProductType
  <2>4. ASSUME NEW ct, InLayout(ct, Layout[x]) PROVE Linear(ct, Layout[x]) \in Nat
    <3>1. Linear(ct, Layout[x]) \in 0..(Product(Layout[x]) - 1)
      BY <2>4, LinearBelow
    <3>2. QED
      BY <2>3, <3>1
  <2>5. CASE at = <<>> /\ id = a
    <3>1. ~(InLayout(bt, Layout[x]) /\ id = a + 1 + Linear(bt, Layout[x]))
      BY <2>4, <2>5
    <3>2. QED
      BY <1>4, <2>2, <2>5, <3>1
  <2>6. CASE InLayout(at, Layout[x]) /\ id = a + 1 + Linear(at, Layout[x])
    <3>1. Linear(at, Layout[x]) \in Nat
      BY <2>4, <2>6
    <3>2. id # a
      BY <2>6, <3>1
    <3>3. InLayout(bt, Layout[x]) /\ id = a + 1 + Linear(bt, Layout[x])
      BY <2>2, <3>2
    <3>4. Linear(bt, Layout[x]) \in Nat
      BY <2>4, <3>3
    <3>5. Linear(at, Layout[x]) = Linear(bt, Layout[x])
      BY <2>6, <3>1, <3>3, <3>4
    <3>6. QED
      BY <1>4, <2>6, <3>3, <3>5, LinearApart
  <2>7. QED
    BY <2>1, <2>5, <2>6
<1>9. CASE x \in Edges
  <2>1. at \in Seq(Nat) /\ Len(at) = 1 /\ id = a + at[1]
    BY <1>5, <1>6, <1>7, <1>9 DEF InBlock
  <2>2. bt \in Seq(Nat) /\ Len(bt) = 1 /\ id = a + bt[1]
    BY <1>5, <1>6, <1>7, <1>9 DEF InBlock
  <2>3. at[1] \in Nat /\ bt[1] \in Nat
    <3>1. 1 \in 1..Len(at) /\ 1 \in 1..Len(bt)
      BY <2>1, <2>2
    <3>2. QED
      BY <2>1, <2>2, <3>1, ElementOfSeq
  <2>4. at[1] = bt[1]
    BY <2>1, <2>2, <2>3
  <2>5. \A k \in 1..Len(at) : at[k] = bt[k]
    BY <2>1, <2>4
  <2>6. QED
    BY <1>4, <2>1, <2>2, <2>5, SeqEqual
<1>10. CASE x \in Clocks
  BY <1>4, <1>5, <1>7, <1>10 DEF InBlock
<1>11. QED
  BY <1>1, <1>8, <1>9, <1>10 DEF Trackable, Elements

LEMMA BlocksApart == ASSUME IInv, BlocksOK PROVE PlacesApart
<1>1. ASSUME NEW p \in Places
      PROVE  /\ p.track \in 0..(nextTrackID - 1)
             /\ tracks[p.track + 1].clock = IF p.of \in Elements THEN ClockOf[p.of] ELSE p.of
  <2>1. IsPlace(p.of, p.at, p.track)
    BY PlaceFacts
  <2>2. p.of \in Trackable /\ trackTbl[p.of] # INVALID /\ p.track \in Block(p.of)
    BY <2>1 DEF IsPlace
  <2>3. p.track \in 0..(nextTrackID - 1)
    BY <2>2, BlockInTracks DEF IInv
  <2>4. tracks[p.track + 1].clock = ClockFor(p.of)
    BY <2>2 DEF BlocksOK
  <2>5. QED
    BY <2>3, <2>4 DEF ClockFor
<1>2. ASSUME NEW p \in Places, NEW q \in Places, p.track = q.track PROVE p = q
  <2>1. /\ p = [of |-> p.of, at |-> p.at, track |-> p.track]
        /\ q = [of |-> q.of, at |-> q.at, track |-> q.track]
    BY PlaceFacts
  <2>2. IsPlace(p.of, p.at, p.track) /\ IsPlace(q.of, q.at, p.track)
    BY <1>2, PlaceFacts
  <2>3. p.of = q.of /\ p.at = q.at
    BY <2>2, InBlocksApart
  <2>4. QED
    BY <1>2, <2>1, <2>3
<1>3. QED
  BY <1>1, <1>2 DEF PlacesApart

(* Every slot, position, element and cycle that is tracked has a track of  *)
(* its own, of its clock, for any layouts, bandwidths and latencies        *)
(* (TrackHeap::trackNodeTags, resolveTrackIdForNode, addMoveItem).         *)
THEOREM SpecPlacesApart == Spec => []PlacesApart
BY SpecIInv, SpecBlocksOK, BlocksApart, PTL

-----------------------------------------------------------------------------
(* The table of a block, and a vector of values that it names.             *)

Stored == Values \cup {UNDEF}

Distinct(table) == \A i, j \in 1..Len(table) : table[i] = table[j] => i = j
Table(table) == table \in Seq(Tags) /\ Distinct(table)

(* What getTagValue reads from the values of a track.                      *)
Read(values, table, t) ==
    LET k == Place(t, table)
    IN  IF k = 0 \/ k > Len(values) THEN UNDEF ELSE values[k]

LEMMA PlaceIn ==
    ASSUME NEW table, Table(table), NEW i \in 1..Len(table), NEW t, table[i] = t
    PROVE  Place(t, table) = i
<1> DEFINE I == {k \in 1..Len(table) : table[k] = t}
<1>1. I = {i}
  BY DEF Table, Distinct
<1>2. Place(t, table) = IF I # {} THEN Min(I) ELSE 0
  BY DEF Place, SelectInSeq
<1>3. i \in Int
  BY DEF Table
<1> HIDE DEF I
<1>4. Min(I) = i
  BY <1>1, <1>3 DEF Min
<1>5. QED
  BY <1>1, <1>2, <1>4

LEMMA PlaceOut ==
    ASSUME NEW table, NEW t, \A i \in 1..Len(table) : table[i] # t
    PROVE  Place(t, table) = 0
BY DEF Place, SelectInSeq

(* A renamed tag is appended to the table, unless it is there.             *)
Extends(table, old, t) ==
    /\ Len(table) >= Len(old)
    /\ \A i \in 1..Len(old) : table[i] = old[i]
    /\ \A i \in (Len(old) + 1)..Len(table) : table[i] = t
    /\ \E i \in 1..Len(table) : table[i] = t

LEMMA RenamedFacts ==
    ASSUME NEW table, Table(table), NEW t \in Tags
    PROVE  Table(Renamed(t, table)) /\ Extends(Renamed(t, table), table, t)
<1>1. PICK n \in Nat : n = Len(table) /\ DOMAIN table = 1..n
  BY DEF Table
<1>2. CASE t \in Range(table)
  <2>1. Renamed(t, table) = table
    BY <1>2 DEF Renamed
  <2>2. PICK i \in 1..n : table[i] = t
    BY <1>1, <1>2 DEF Range
  <2>3. Extends(table, table, t)
    BY <1>1, <2>2 DEF Extends
  <2>4. QED
    BY <2>1, <2>3
<1>3. CASE t \notin Range(table)
  <2>1. PICK u : u = Append(table, t)
    OBVIOUS
  <2>2. Renamed(t, table) = u
    BY <1>3, <2>1 DEF Renamed
  <2>3. /\ u \in Seq(Tags) /\ Len(u) = n + 1 /\ u[n + 1] = t
        /\ \A i \in 1..n : u[i] = table[i]
    BY <1>1, <2>1, AppendProperties DEF Table
  <2>4. \A i \in 1..n : u[i] # t
    BY <1>1, <1>3, <2>3 DEF Range
  <2>5. Distinct(u)
    <3>1. ASSUME NEW i \in 1..(n + 1), NEW j \in 1..(n + 1), u[i] = u[j], i # j PROVE FALSE
      <4>1. CASE i = n + 1
        <5>1. j \in 1..n
          BY <3>1, <4>1
        <5>2. QED
          BY <2>3, <2>4, <3>1, <4>1, <5>1
      <4>2. CASE j = n + 1
        <5>1. i \in 1..n
          BY <3>1, <4>2
        <5>2. QED
          BY <2>3, <2>4, <3>1, <4>2, <5>1
      <4>3. CASE i # n + 1 /\ j # n + 1
        <5>1. i \in 1..n /\ j \in 1..n
          BY <4>3
        <5>2. table[i] = table[j]
          BY <2>3, <3>1, <5>1
        <5>3. QED
          BY <1>1, <3>1, <5>1, <5>2 DEF Table, Distinct
      <4>4. QED
        BY <4>1, <4>2, <4>3
    <3>2. QED
      BY <2>3, <3>1 DEF Distinct
  <2>6. Extends(u, table, t)
    <3>1. \A i \in (n + 1)..(n + 1) : i = n + 1
      OBVIOUS
    <3>2. n + 1 \in 1..(n + 1) /\ n + 1 >= n
      OBVIOUS
    <3>3. QED
      BY <1>1, <2>3, <3>1, <3>2 DEF Extends
  <2>7. QED
    BY <2>2, <2>3, <2>5, <2>6 DEF Table
<1>4. QED
  BY <1>2, <1>3

(* The values of a track that are there read the same with the new table.  *)
LEMMA ReadSame ==
    ASSUME NEW old, Table(old), NEW table, Table(table), NEW t, Extends(table, old, t),
           NEW values \in Seq(Stored), Len(values) <= Len(old), NEW u
    PROVE  Read(values, table, u) = Read(values, old, u)
<1>1. PICK n \in Nat, l \in Nat, m \in Nat :
          n = Len(old) /\ l = Len(table) /\ m = Len(values) /\ m <= n /\ n <= l
  BY DEF Table, Extends
<1>2. CASE \E i \in 1..n : old[i] = u
  <2>1. PICK i \in 1..n : old[i] = u
    BY <1>2
  <2>2. i \in 1..l /\ table[i] = u
    BY <1>1, <2>1 DEF Extends
  <2>3. Place(u, old) = i /\ Place(u, table) = i
    BY <1>1, <2>1, <2>2, PlaceIn
  <2>4. QED
    BY <2>3 DEF Read
<1>3. CASE ~\E i \in 1..n : old[i] = u
  <2>1. Place(u, old) = 0
    BY <1>1, <1>3, PlaceOut
  <2>2. Place(u, table) = 0 \/ Place(u, table) > m
    <3>1. CASE \E i \in 1..l : table[i] = u
      <4>1. PICK i \in 1..l : table[i] = u
        BY <3>1
      <4>2. i \notin 1..n
        BY <1>1, <1>3, <4>1 DEF Extends
      <4>3. Place(u, table) = i
        BY <1>1, <4>1, PlaceIn
      <4>4. QED
        BY <1>1, <4>2, <4>3
    <3>2. CASE ~\E i \in 1..l : table[i] = u
      BY <1>1, <3>2, PlaceOut
    <3>3. QED
      BY <3>1, <3>2
  <2>3. QED
    BY <1>1, <2>1, <2>2 DEF Read
<1>4. QED
  BY <1>2, <1>3

(* The values of a track after one of them is set at place k.              *)
SetAt(new, values, k, value) ==
    /\ new \in Seq(Stored) /\ Len(new) >= Len(values) /\ Len(new) >= k
    /\ (Len(new) = Len(values) \/ Len(new) = k)
    /\ new[k] = value
    /\ \A j \in 1..Len(new) : j # k => new[j] = IF j <= Len(values) THEN values[j] ELSE UNDEF

LEMMA GrownSet ==
    ASSUME NEW values \in Seq(Stored), NEW k \in Nat \ {0}, NEW value \in Stored
    PROVE  SetAt([Grown(values, k) EXCEPT ![k] = value], values, k, value)
<1>1. PICK m \in Nat : m = Len(values)
  OBVIOUS
<1>2. PICK g : g = Grown(values, k)
  OBVIOUS
<1>3. PICK l \in Nat : l = IF k > m THEN k ELSE m
  OBVIOUS
<1>4. g \in Seq(Stored) /\ Len(g) = l /\ \A j \in 1..l : g[j] = IF j <= m THEN values[j] ELSE UNDEF
  <2>1. CASE k > m
    <3>1. PICK s : s = [j \in 1..(k - m) |-> UNDEF]
      OBVIOUS
    <3>2. s \in Seq(Stored) /\ Len(s) = k - m /\ \A j \in 1..(k - m) : s[j] = UNDEF
      <4>1. k - m \in Nat
        BY <2>1
      <4>2. UNDEF \in Stored
        BY DEF Stored
      <4>3. QED
        BY <3>1, <4>1, <4>2
    <3>3. g = values \o s
      BY <1>1, <1>2, <2>1, <3>1 DEF Grown
    <3>4. /\ values \o s \in Seq(Stored) /\ Len(values \o s) = Len(values) + Len(s)
          /\ \A i \in 1..(Len(values) + Len(s)) :
                (values \o s)[i] = IF i <= Len(values) THEN values[i] ELSE s[i - Len(values)]
      BY <3>2, ConcatProperties
    <3>5. m + (k - m) = k /\ l = k
      BY <1>3, <2>1
    <3>6. g \in Seq(Stored) /\ Len(g) = l /\ \A i \in 1..l : g[i] = IF i <= m THEN values[i] ELSE s[i - m]
      BY <1>1, <3>2, <3>3, <3>4, <3>5
    <3>7. \A i \in 1..l : ~(i <= m) => i - m \in 1..(k - m)
      BY <3>5
    <3>8. \A i \in 1..l : ~(i <= m) => s[i - m] = UNDEF
      BY <3>2, <3>7
    <3>9. QED
      BY <3>6, <3>8
  <2>2. CASE ~(k > m)
    <3>1. g = values /\ l = m
      BY <1>1, <1>2, <1>3, <2>2 DEF Grown
    <3>2. QED
      BY <1>1, <3>1
  <2>3. QED
    BY <2>1, <2>2
<1>5. k \in 1..l /\ l >= m /\ l >= k /\ (l = m \/ l = k)
  BY <1>3
<1>6. PICK new : new = [g EXCEPT ![k] = value]
  OBVIOUS
<1>7. new \in Seq(Stored) /\ Len(new) = l
  BY <1>4, <1>5, <1>6
<1>8. new[k] = value /\ \A j \in 1..l : j # k => new[j] = g[j]
  <2>1. DOMAIN g = 1..l
    BY <1>4
  <2>2. QED
    BY <1>5, <1>6, <2>1
<1>9. SetAt(new, values, k, value)
  BY <1>1, <1>4, <1>5, <1>7, <1>8 DEF SetAt
<1>10. QED
  BY <1>2, <1>6, <1>9

LEMMA ReadSet ==
    ASSUME NEW old, Table(old), NEW table, Table(table), NEW t, Extends(table, old, t),
           NEW values \in Seq(Stored), Len(values) <= Len(old), NEW value \in Stored,
           NEW new, SetAt(new, values, Place(t, table), value)
    PROVE  /\ new \in Seq(Stored) /\ Len(new) <= Len(table)
           /\ \A u : Read(new, table, u) = IF u = t THEN value ELSE Read(values, old, u)
<1>1. PICK n \in Nat, l \in Nat, m \in Nat :
          n = Len(old) /\ l = Len(table) /\ m = Len(values) /\ m <= n /\ n <= l
  BY DEF Table, Extends
<1>2. PICK k \in 1..l : table[k] = t /\ k = Place(t, table)
  <2>1. PICK k \in 1..l : table[k] = t
    BY <1>1 DEF Extends
  <2>2. QED
    BY <1>1, <2>1, PlaceIn
<1>3. PICK w \in Nat : w = Len(new)
  BY DEF SetAt
<1>4. /\ new \in Seq(Stored) /\ w >= m /\ w >= k /\ (w = m \/ w = k) /\ new[k] = value
      /\ \A j \in 1..w : j # k => new[j] = IF j <= m THEN values[j] ELSE UNDEF
  BY <1>1, <1>2, <1>3 DEF SetAt
<1>5. w <= l
  BY <1>1, <1>4
<1>6. ASSUME NEW u
      PROVE  Read(new, table, u) = IF u = t THEN value ELSE Read(values, old, u)
  <2>1. CASE u = t
    BY <1>2, <1>3, <1>4, <2>1 DEF Read
  <2>2. CASE u # t
    <3>1. Read(values, table, u) = Read(values, old, u)
      BY ReadSame
    <3>2. CASE \E i \in 1..l : table[i] = u
      <4>1. PICK i \in 1..l : table[i] = u
        BY <3>2
      <4>2. Place(u, table) = i /\ i # k
        BY <1>1, <1>2, <2>2, <4>1, PlaceIn
      <4>3. Read(values, table, u) = IF i > m THEN UNDEF ELSE values[i]
        BY <1>1, <4>2 DEF Read
      <4>4. Read(new, table, u) = IF i > w THEN UNDEF ELSE new[i]
        BY <1>3, <4>2 DEF Read
      <4>5. CASE i > w
        <5>1. i > m
          BY <1>4, <4>5
        <5>2. QED
          BY <2>2, <3>1, <4>3, <4>4, <4>5, <5>1
      <4>6. CASE ~(i > w)
        <5>1. new[i] = IF i <= m THEN values[i] ELSE UNDEF
          BY <1>4, <4>2, <4>6
        <5>2. (i > m) <=> ~(i <= m)
          OBVIOUS
        <5>3. QED
          BY <2>2, <3>1, <4>3, <4>4, <4>6, <5>1, <5>2
      <4>7. QED
        BY <4>5, <4>6
    <3>3. CASE ~\E i \in 1..l : table[i] = u
      <4>1. Place(u, table) = 0
        BY <1>1, <3>3, PlaceOut
      <4>2. QED
        BY <2>2, <3>1, <4>1 DEF Read
    <3>4. QED
      BY <3>2, <3>3
  <2>3. QED
    BY <2>1, <2>2
<1>7. QED
  BY <1>1, <1>3, <1>4, <1>5, <1>6

-----------------------------------------------------------------------------
(* What is read in a track is what was stored in it.                       *)

TracksStored ==
    \A k \in 1..nextTrackID :
       /\ "table" \in DOMAIN tracks[k] /\ "values" \in DOMAIN tracks[k]
       /\ tracks[k].table \in 1..Len(renames)
       /\ tracks[k].values \in Seq(Stored)
       /\ Len(tracks[k].values) <= Len(renames[tracks[k].table])

TablesOK == renames \in Seq(Seq(Tags)) /\ \A k \in 1..Len(renames) : Table(renames[k])

(* Nothing is stored for an element that has no tracks.                    *)
WrittenOK == \A x, at, t : <<x, at, t>> \in DOMAIN written => trackTbl[x] # INVALID

Own ==
    \A x, at, id : \A t \in Tags : IsPlace(x, at, id) =>
        getTagValue(id, t) = IF <<x, at, t>> \in DOMAIN written THEN written[<<x, at, t>>] ELSE UNDEF

StoresOK == clock \in Clocks /\ TracksStored /\ TablesOK /\ WrittenOK /\ Own

LEMMA getTagValueReads ==
    \A id, t : getTagValue(id, t) = Read(tracks[id + 1].values, renames[tracks[id + 1].table], t)
BY DEF getTagValue, Read

LEMMA getTagValueReadsNext ==
    \A id, t : getTagValue(id, t)' = Read(tracks'[id + 1].values, renames'[tracks'[id + 1].table], t)
BY DEF getTagValue, Read

LEMMA InitStoresOK == Init => StoresOK
<1> SUFFICES ASSUME Init PROVE StoresOK
  OBVIOUS
<1>1. /\ clock \in Clocks /\ nextTrackID = 0 /\ renames = <<>> /\ written = <<>>
      /\ trackTbl = [x \in Trackable |-> INVALID]
  BY DEF Init, Trackable
<1>2. TracksStored
  BY <1>1 DEF TracksStored
<1>3. TablesOK
  BY <1>1 DEF TablesOK
<1>4. DOMAIN written = {}
  BY <1>1
<1>5. WrittenOK
  BY <1>4 DEF WrittenOK
<1>6. Own
  BY <1>1 DEF Own, IsPlace
<1>7. QED
  BY <1>1, <1>2, <1>3, <1>5, <1>6 DEF StoresOK

(* The track of a place.                                                   *)
LEMMA PlaceTrack ==
    ASSUME NEW x, NEW at, NEW id, NEW jd, IsPlace(x, at, id), IsPlace(x, at, jd)
    PROVE  id = jd
<1>1. InBlock(x, at, id) /\ InBlock(x, at, jd)
  BY DEF IsPlace
<1>2. Nodes \cap Edges = {} /\ Nodes \cap Clocks = {} /\ Edges \cap Clocks = {}
  BY GraphAssumption DEF Elements
<1>3. QED
  BY <1>1, <1>2 DEF InBlock

LEMMA PutStored ==
    ASSUME TracksOK, TracksStored, TablesOK, NEW id \in 0..(nextTrackID - 1), NEW t \in Tags,
           NEW value \in Stored, Put(id, t, value), UNCHANGED nextTrackID
    PROVE  /\ TracksStored' /\ TablesOK'
           /\ \A j \in 0..(nextTrackID - 1), u \in Tags :
                 getTagValue(j, u)' = IF j = id /\ u = t THEN value ELSE getTagValue(j, u)
<1>1. PICK N \in Nat : N = nextTrackID /\ tracks \in Seq(Range(tracks)) /\ Len(tracks) = N
  BY DEF TracksOK
<1>2. id + 1 \in 1..N
  BY <1>1
<1>3. PICK track : track = tracks[id + 1]
  OBVIOUS
<1>4. PICK b \in 1..Len(renames) : b = track.table
  BY <1>1, <1>2, <1>3 DEF TracksStored
<1>5. PICK old : old = renames[b] /\ Table(old)
  BY <1>4 DEF TablesOK
<1>6. PICK table : table = Renamed(t, old) /\ Table(table) /\ Extends(table, old, t)
  BY <1>5, RenamedFacts
<1>7. PICK k \in Nat \ {0} : k = Place(t, table)
  <2>1. PICK i \in 1..Len(table) : table[i] = t
    BY <1>6 DEF Extends
  <2>2. Place(t, table) = i
    BY <1>6, <2>1, PlaceIn
  <2>3. QED
    BY <2>2
<1>8. PICK values \in Seq(Stored) : values = track.values /\ Len(values) <= Len(old)
  BY <1>1, <1>2, <1>3, <1>4, <1>5 DEF TracksStored
<1>9. PICK new : new = [Grown(values, k) EXCEPT ![k] = value]
  OBVIOUS
<1>10. SetAt(new, values, Place(t, table), value)
  BY <1>7, <1>8, <1>9, GrownSet
<1>11. /\ new \in Seq(Stored) /\ Len(new) <= Len(table)
       /\ \A u : Read(new, table, u) = IF u = t THEN value ELSE Read(values, old, u)
  BY <1>5, <1>6, <1>8, <1>10, ReadSet
<1>12. PICK ren, trs : ren = renames' /\ trs = tracks'
  OBVIOUS
<1>13. ren = [renames EXCEPT ![b] = table] /\ trs = [tracks EXCEPT ![id + 1].values = new]
  <2>1. ren = [renames EXCEPT ![b] = table]
    BY <1>3, <1>4, <1>5, <1>6, <1>12 DEF Put
  <2>2. trs = [tracks EXCEPT ![id + 1].values = [Grown(tracks[id + 1].values, k) EXCEPT ![k] = value]]
    BY <1>3, <1>4, <1>5, <1>6, <1>7, <1>12 DEF Put
  <2>3. QED
    BY <1>3, <1>8, <1>9, <2>1, <2>2
<1>14. /\ DOMAIN renames = 1..Len(renames) /\ Len(renames) \in Nat
       /\ renames \in Seq(Seq(Tags)) /\ table \in Seq(Tags)
  BY <1>6 DEF TablesOK, Table
<1>15. /\ ren \in Seq(Seq(Tags)) /\ Len(ren) = Len(renames) /\ ren[b] = table
       /\ \A c \in 1..Len(renames) : c # b => ren[c] = renames[c]
  BY <1>13, <1>14
<1>16. /\ \A j \in 1..N : j # id + 1 => trs[j] = tracks[j]
       /\ trs[id + 1] = [track EXCEPT !.values = new]
  <2>1. DOMAIN tracks = 1..N
    BY <1>1
  <2>2. QED
    BY <1>2, <1>3, <1>13, <2>1
<1>17. /\ "table" \in DOMAIN trs[id + 1] /\ "values" \in DOMAIN trs[id + 1]
       /\ trs[id + 1].table = b /\ trs[id + 1].values = new
  <2>1. "table" \in DOMAIN track /\ "values" \in DOMAIN track
    BY <1>1, <1>2, <1>3 DEF TracksStored
  <2>2. QED
    BY <1>4, <1>16, <2>1
<1>18. ASSUME NEW j \in 1..N, j # id + 1
       PROVE  /\ "table" \in DOMAIN trs[j] /\ "values" \in DOMAIN trs[j]
              /\ trs[j].table = tracks[j].table /\ trs[j].values = tracks[j].values
              /\ tracks[j].table \in 1..Len(renames) /\ tracks[j].values \in Seq(Stored)
              /\ Len(tracks[j].values) <= Len(renames[tracks[j].table])
  BY <1>1, <1>16, <1>18 DEF TracksStored
<1>19. TablesOK'
  <2>1. ASSUME NEW c \in 1..Len(ren) PROVE Table(ren[c])
    <3>1. CASE c = b
      BY <1>6, <1>15, <3>1
    <3>2. CASE c # b
      BY <1>15, <3>2 DEF TablesOK
    <3>3. QED
      BY <3>1, <3>2
  <2>2. QED
    BY <1>12, <1>15, <2>1 DEF TablesOK
<1>20. TracksStored'
  <2>1. ASSUME NEW j \in 1..N
        PROVE  /\ "table" \in DOMAIN trs[j] /\ "values" \in DOMAIN trs[j]
               /\ trs[j].table \in 1..Len(ren) /\ trs[j].values \in Seq(Stored)
               /\ Len(trs[j].values) <= Len(ren[trs[j].table])
    <3>1. CASE j = id + 1
      BY <1>11, <1>15, <1>17, <3>1
    <3>2. CASE j # id + 1
      <4>1. Len(renames[tracks[j].table]) <= Len(ren[tracks[j].table])
        <5>1. CASE tracks[j].table = b
          <6>1. Len(old) \in Nat /\ Len(table) >= Len(old) /\ Len(table) \in Nat
            BY <1>5, <1>6 DEF Table, Extends
          <6>2. QED
            BY <1>5, <1>15, <5>1, <6>1
        <5>2. CASE tracks[j].table # b
          <6>1. PICK c \in 1..Len(renames) : c = tracks[j].table
            BY <1>18, <3>2
          <6>2. ren[c] = renames[c] /\ renames[c] \in Seq(Tags)
            <7>1. c # b
              BY <5>2, <6>1
            <7>2. ren[c] = renames[c]
              BY <1>15, <7>1, Zenon
            <7>3. renames[c] \in Seq(Tags)
              BY <1>14, ElementOfSeq
            <7>4. QED
              BY <7>2, <7>3
          <6>3. Len(renames[c]) \in Nat
            BY <6>2
          <6>4. QED
            BY <6>1, <6>2, <6>3
        <5>3. QED
          BY <5>1, <5>2
      <4>2. tracks[j].table \in 1..Len(renames) /\ tracks[j].values \in Seq(Stored)
        BY <1>18, <3>2
      <4>3. PICK l, m, n \in Nat : /\ l = Len(tracks[j].values)
                                   /\ m = Len(renames[tracks[j].table])
                                   /\ n = Len(ren[tracks[j].table])
        <5>1. PICK c \in 1..Len(renames), vs \in Seq(Stored) :
                  c = tracks[j].table /\ vs = tracks[j].values
          BY <4>2
        <5>2. renames[c] \in Seq(Tags) /\ ren[c] \in Seq(Tags)
          BY <1>14, <1>15, ElementOfSeq
        <5>3. Len(vs) \in Nat /\ Len(renames[c]) \in Nat /\ Len(ren[c]) \in Nat
          BY <5>2
        <5>4. QED
          BY <5>1, <5>3
      <4>4. l <= n
        <5>1. l <= m
          BY <1>18, <3>2, <4>3, Zenon
        <5>2. m <= n
          BY <4>1, <4>3, Zenon
        <5>3. QED
          BY <5>1, <5>2
      <4>5. QED
        BY <1>15, <1>18, <3>2, <4>2, <4>3, <4>4
    <3>3. QED
      BY <3>1, <3>2
  <2>2. QED
    BY <1>1, <1>12, <2>1 DEF TracksStored
<1>21. ASSUME NEW j \in 0..(N - 1), NEW u \in Tags
       PROVE  Read(trs[j + 1].values, ren[trs[j + 1].table], u)
                  = IF j = id /\ u = t THEN value
                    ELSE Read(tracks[j + 1].values, renames[tracks[j + 1].table], u)
  <2>1. CASE j = id
    <3>1. Read(tracks[j + 1].values, renames[tracks[j + 1].table], u) = Read(values, old, u)
      BY <1>3, <1>4, <1>5, <1>8, <2>1
    <3>2. Read(trs[j + 1].values, ren[trs[j + 1].table], u) = Read(new, table, u)
      BY <1>15, <1>17, <2>1
    <3>3. QED
      BY <1>11, <2>1, <3>1, <3>2
  <2>2. CASE j # id
    <3>1. j + 1 \in 1..N /\ j + 1 # id + 1
      BY <2>2
    <3>2. PICK c \in 1..Len(renames), vs \in Seq(Stored) :
              /\ c = tracks[j + 1].table /\ vs = tracks[j + 1].values
              /\ c = trs[j + 1].table /\ vs = trs[j + 1].values
              /\ Len(vs) <= Len(renames[c])
      BY <1>18, <3>1
    <3>3. Read(vs, ren[c], u) = Read(vs, renames[c], u)
      <4>1. CASE c = b
        <5>1. Read(vs, table, u) = Read(vs, old, u)
          BY <1>5, <1>6, <3>2, <4>1, ReadSame
        <5>2. QED
          BY <1>5, <1>15, <4>1, <5>1
      <4>2. CASE c # b
        BY <1>15, <4>2
      <4>3. QED
        BY <4>1, <4>2
    <3>4. QED
      BY <2>2, <3>2, <3>3
  <2>3. QED
    BY <2>1, <2>2
<1>22. QED
  BY <1>1, <1>12, <1>19, <1>20, <1>21, getTagValueReads, getTagValueReadsNext

(* A value is stored at a place.                                           *)
LEMMA StoreStoresOK ==
    ASSUME IInv, BlocksOK, StoresOK, NEW x, NEW at, NEW id, IsPlace(x, at, id),
           NEW t \in Tags, NEW value \in Stored, Store(id, x, at, t, value),
           UNCHANGED <<clock, nextTrackID, trackTbl>>
    PROVE  StoresOK'
<1>1. x \in Trackable /\ trackTbl[x] # INVALID /\ id \in 0..(nextTrackID - 1)
  BY BlockInTracks DEF IsPlace, IInv
<1>2. Put(id, t, value)
  BY DEF Store
<1>3. /\ TracksStored' /\ TablesOK'
      /\ \A j \in 0..(nextTrackID - 1), u \in Tags :
            getTagValue(j, u)' = IF j = id /\ u = t THEN value ELSE getTagValue(j, u)
  BY <1>1, <1>2, PutStored DEF StoresOK, IInv
<1>4. PICK key : key = <<x, at, t>>
  OBVIOUS
<1>5. /\ DOMAIN written' = {key} \cup DOMAIN written /\ written'[key] = value
      /\ \A w \in DOMAIN written : w # key => written'[w] = written[w]
  <2>1. written' = [w \in {key} \cup DOMAIN written |-> IF w = key THEN value ELSE written[w]]
    BY <1>4 DEF Store
  <2>2. QED
    BY <2>1
<1>6. WrittenOK'
  <2>1. ASSUME NEW y, NEW bt, NEW u, <<y, bt, u>> \in DOMAIN written'
        PROVE  trackTbl'[y] # INVALID
    <3>1. CASE <<y, bt, u>> = key
      BY <1>1, <1>4, <3>1
    <3>2. CASE <<y, bt, u>> \in DOMAIN written
      BY <3>2 DEF StoresOK, WrittenOK
    <3>3. QED
      BY <1>5, <2>1, <3>1, <3>2
  <2>2. QED
    BY <2>1 DEF WrittenOK
<1>7. ASSUME NEW y, NEW bt, NEW jd, NEW u \in Tags, IsPlace(y, bt, jd)
      PROVE  getTagValue(jd, u)' = IF <<y, bt, u>> \in DOMAIN written'
                                   THEN written'[<<y, bt, u>>] ELSE UNDEF
  <2>1. jd \in 0..(nextTrackID - 1)
    BY <1>7, BlockInTracks DEF IsPlace, IInv
  <2>2. (jd = id /\ u = t) <=> <<y, bt, u>> = key
    <3>1. ASSUME jd = id PROVE y = x /\ bt = at
      BY <1>7, <3>1, InBlocksApart
    <3>2. ASSUME y = x, bt = at PROVE jd = id
      BY <1>7, <3>2, PlaceTrack
    <3>3. QED
      BY <1>4, <3>1, <3>2
  <2>3. CASE jd = id /\ u = t
    BY <1>3, <1>5, <2>1, <2>2, <2>3
  <2>4. CASE ~(jd = id /\ u = t)
    <3>1. getTagValue(jd, u)' = getTagValue(jd, u)
      BY <1>3, <2>1, <2>4
    <3>2. getTagValue(jd, u) = IF <<y, bt, u>> \in DOMAIN written
                               THEN written[<<y, bt, u>>] ELSE UNDEF
      BY <1>7 DEF StoresOK, Own
    <3>3. <<y, bt, u>> # key
      BY <2>2, <2>4
    <3>4. QED
      BY <1>5, <3>1, <3>2, <3>3
  <2>5. QED
    BY <2>3, <2>4
<1>8. Own'
  <2>1. \A y, bt, jd : IsPlace(y, bt, jd)' <=> IsPlace(y, bt, jd)
    BY DEF IsPlace, InBlock, Block
  <2>2. QED
    BY <1>7, <2>1 DEF Own
<1>9. QED
  BY <1>3, <1>6, <1>8 DEF StoresOK

LEMMA SameStoresOK ==
    ASSUME StoresOK, clock' \in Clocks, UNCHANGED <<nextTrackID, trackTbl, tracks, renames, written>>
    PROVE  StoresOK'
<1>1. TracksStored' /\ TablesOK' /\ WrittenOK'
  BY DEF StoresOK, TracksStored, TablesOK, WrittenOK
<1>2. \A y, bt, jd : IsPlace(y, bt, jd)' <=> IsPlace(y, bt, jd)
  BY DEF IsPlace, InBlock, Block
<1>3. \A jd, u : getTagValue(jd, u)' = getTagValue(jd, u)
  BY DEF getTagValue
<1>4. Own'
  BY <1>2, <1>3 DEF StoresOK, Own
<1>5. QED
  BY <1>1, <1>4 DEF StoresOK

LEMMA WriteStoresOK == ASSUME IInv, BlocksOK, StoresOK, Write PROVE StoresOK'
<1>1. UNCHANGED <<clock, nextTrackID, trackTbl>> /\ clock \in Clocks
  BY DEF Write, StoresOK
<1>2. setError => StoresOK'
  BY <1>1, SameStoresOK DEF setError
<1>3. ASSUME NEW n \in Nodes, NEW t \in Tags, NEW value \in Stored,
             NEW at \in Coordinates(n), SetNodeTag(n, at, t, value)
      PROVE  StoresOK'
  <2>1. PICK id : id = resolveNode(n, at)
    OBVIOUS
  <2>2. /\ id # INVALID
        /\ (id \in Nat /\ Store(id, n, at, t, value)) \/ setError
    BY <1>3, <2>1 DEF SetNodeTag
  <2>3. CASE id \in Nat /\ Store(id, n, at, t, value)
    <3>1. trackTbl[n] # INVALID
      BY <2>1, <2>2 DEF resolveNode
    <3>2. at = <<>> \/ linearPosition(at, Layout[n]) \in Nat
      BY <2>1, <2>3, <3>1 DEF resolveNode
    <3>3. at \in Within(n)
      BY <3>2 DEF Within
    <3>4. IsPlace(n, at, id)
      BY <2>1, <3>1, <3>3, NodePlace
    <3>5. QED
      BY <1>1, <2>3, <3>4, StoreStoresOK
  <2>4. QED
    BY <1>2, <2>2, <2>3
<1>4. ASSUME NEW e \in Edges, NEW value \in Values, NEW position \in 0..Bandwidth[e],
             MoveItem(e, position, value)
      PROVE  StoresOK'
  <2>1. /\ trackTbl[e] # INVALID
        /\ \/ position < Bandwidth[e] /\ Store(MoveTrack(e, position), e, <<position>>, slotItemId, value)
           \/ setError
    BY <1>4 DEF MoveItem
  <2>2. CASE position < Bandwidth[e] /\ Store(MoveTrack(e, position), e, <<position>>, slotItemId, value)
    <3>1. Bandwidth[e] \in Nat
      BY GraphAssumption
    <3>2. position \in 0..(Bandwidth[e] - 1)
      BY <2>2, <3>1
    <3>3. IsPlace(e, <<position>>, MoveTrack(e, position))
      BY <2>1, <3>2, EdgePlace
    <3>4. slotItemId \in Tags /\ value \in Stored
      BY GraphAssumption DEF Stored
    <3>5. QED
      BY <1>1, <2>2, <3>3, <3>4, StoreStoresOK
  <2>3. QED
    BY <1>2, <2>1, <2>2
<1>5. ASSUME NEW t \in Tags, NEW value \in Values, SetCycleTag(t, value)
      PROVE  StoresOK'
  <2>1. trackTbl[clock] # INVALID /\ Store(trackTbl[clock], clock, <<>>, t, value)
    BY <1>5 DEF SetCycleTag
  <2>2. IsPlace(clock, <<>>, trackTbl[clock]) /\ value \in Stored
    BY <1>1, <2>1, CyclePlace DEF Stored
  <2>3. QED
    BY <1>1, <2>1, <2>2, StoreStoresOK
<1>6. QED
  BY <1>3, <1>4, <1>5 DEF Write, Stored

(* An element is tracked: its tracks are new, and nothing is stored.       *)
LEMMA TrackStoresOK ==
    ASSUME IInv, BlocksOK, StoresOK, NEW x \in Trackable, Track(x, ClockFor(x))
    PROVE  StoresOK'
<1>1. PICK s \in Nat \ {0} : s = Slots(x)
  BY SlotsType DEF Trackable
<1>2. PICK c : c = ClockFor(x)
  OBVIOUS
<1>3. PICK b \in Nat : b = Len(renames)
  BY DEF StoresOK, TablesOK
<1>4. PICK e : e = [clock |-> c, table |-> b + 1, values |-> <<>>]
  OBVIOUS
<1>5. PICK new : new = [k \in 1..s |-> e]
  OBVIOUS
<1>6. PICK N \in Nat : N = nextTrackID
  BY DEF IInv, TracksOK
<1>7. PICK trs, ren, tbl : trs = tracks' /\ ren = renames' /\ tbl = trackTbl'
  OBVIOUS
<1>8. /\ tracks' = tracks \o new /\ nextTrackID' = N + s /\ trackTbl[x] = INVALID
      /\ tbl = [trackTbl EXCEPT ![x] = N] /\ ren = Append(renames, <<>>)
      /\ UNCHANGED <<clock, written>>
  BY <1>1, <1>2, <1>3, <1>4, <1>5, <1>6, <1>7 DEF Track
<1>9. /\ new \in Seq(Range(new)) /\ Len(new) = s /\ Range(new) = {e}
      /\ \A k \in 1..s : "clock" \in DOMAIN new[k] /\ new[k].clock = c
  <2>1. "clock" \in DOMAIN e /\ e.clock = c
    BY <1>4
  <2>2. 1 \in 1..s
    OBVIOUS
  <2>3. QED
    BY <1>5, <2>1, <2>2 DEF Range
<1>10. /\ \A k \in 1..N : trs[k] = tracks[k]
       /\ \A k \in (N + 1)..(N + s) : trs[k] = e
  <2>1. /\ \A k \in 1..N : tracks'[k] = tracks[k]
        /\ \A k \in (N + 1)..(N + s) : tracks'[k] \in Range(new)
    BY <1>6, <1>8, <1>9, AddedTracks DEF IInv
  <2>2. QED
    BY <1>7, <1>9, <2>1
<1>11. /\ ren \in Seq(Seq(Tags)) /\ Len(ren) = b + 1 /\ ren[b + 1] = <<>>
       /\ \A k \in 1..b : ren[k] = renames[k]
  <2>1. renames \in Seq(Seq(Tags)) /\ <<>> \in Seq(Tags)
    BY DEF StoresOK, TablesOK
  <2>2. QED
    BY <1>3, <1>8, <2>1, AppendProperties
<1>12. /\ "table" \in DOMAIN e /\ "values" \in DOMAIN e
       /\ e.table = b + 1 /\ e.values = <<>>
  BY <1>4
<1>13. TablesOK'
  <2>1. ASSUME NEW k \in 1..(b + 1) PROVE Table(ren[k])
    <3>1. CASE k = b + 1
      <4>1. Table(<<>>)
        BY DEF Table, Distinct
      <4>2. QED
        BY <1>11, <3>1, <4>1
    <3>2. CASE k # b + 1
      <4>1. k \in 1..b
        BY <3>2
      <4>2. Table(renames[k])
        BY <1>3, <4>1 DEF StoresOK, TablesOK
      <4>3. QED
        BY <1>11, <4>1, <4>2
    <3>3. QED
      BY <3>1, <3>2
  <2>2. QED
    BY <1>7, <1>11, <2>1 DEF TablesOK
<1>14. ASSUME NEW k \in 1..N
       PROVE  /\ "table" \in DOMAIN tracks[k] /\ "values" \in DOMAIN tracks[k]
              /\ tracks[k].table \in 1..b /\ tracks[k].values \in Seq(Stored)
              /\ Len(tracks[k].values) <= Len(renames[tracks[k].table])
  BY <1>3, <1>6 DEF StoresOK, TracksStored
<1>15. TracksStored'
  <2>1. ASSUME NEW k \in 1..(N + s)
        PROVE  /\ "table" \in DOMAIN trs[k] /\ "values" \in DOMAIN trs[k]
               /\ trs[k].table \in 1..(b + 1) /\ trs[k].values \in Seq(Stored)
               /\ Len(trs[k].values) <= Len(ren[trs[k].table])
    <3>1. CASE k \in 1..N
      <4>1. PICK d \in 1..b : d = tracks[k].table
        BY <1>14, <3>1
      <4>2. d \in 1..(b + 1) /\ ren[d] = renames[d]
        BY <1>11
      <4>3. QED
        BY <1>10, <1>14, <3>1, <4>1, <4>2
    <3>2. CASE k \notin 1..N
      <4>1. k \in (N + 1)..(N + s)
        BY <3>2
      <4>2. trs[k] = e /\ b + 1 \in 1..(b + 1) /\ <<>> \in Seq(Stored)
        BY <1>10, <4>1
      <4>3. Len(e.values) <= Len(ren[e.table])
        BY <1>11, <1>12
      <4>4. QED
        BY <1>12, <4>2, <4>3
    <3>3. QED
      BY <3>1, <3>2
  <2>2. QED
    BY <1>7, <1>8, <1>11, <2>1 DEF TracksStored
<1>16. /\ tbl \in [Trackable -> Nat \cup {INVALID}] /\ tbl[x] = N /\ N # INVALID
       /\ \A y \in Trackable : y # x => tbl[y] = trackTbl[y]
  BY <1>8, GraphAssumption DEF BlocksOK
<1>17. WrittenOK'
  <2>1. ASSUME NEW y, NEW at, NEW t, <<y, at, t>> \in DOMAIN written
        PROVE  tbl[y] # INVALID
    <3>1. trackTbl[y] # INVALID
      BY <2>1 DEF StoresOK, WrittenOK
    <3>2. y # x
      BY <1>8, <3>1
    <3>3. tbl[y] = trackTbl[y]
      BY <1>8, <3>2 DEF BlocksOK
    <3>4. QED
      BY <3>1, <3>3
  <2>2. QED
    BY <1>7, <1>8, <2>1 DEF WrittenOK
<1>18. ASSUME NEW y, NEW at, NEW id, IsPlace(y, at, id)', NEW t \in Tags
       PROVE  getTagValue(id, t)' = IF <<y, at, t>> \in DOMAIN written'
                                    THEN written'[<<y, at, t>>] ELSE UNDEF
  <2>1. getTagValue(id, t)' = Read(trs[id + 1].values, ren[trs[id + 1].table], t)
    BY <1>7, getTagValueReadsNext
  <2>2. y \in Trackable /\ tbl[y] # INVALID /\ id \in tbl[y]..(tbl[y] + Slots(y) - 1)
    BY <1>7, <1>18 DEF IsPlace, Block
  <2>3. CASE y = x
    <3>1. id + 1 \in (N + 1)..(N + s)
      BY <1>1, <1>16, <2>2, <2>3
    <3>2. trs[id + 1].values = <<>> /\ trs[id + 1].table = b + 1
      BY <1>10, <1>12, <3>1
    <3>3. Read(<<>>, ren[b + 1], t) = UNDEF
      <4>1. Place(t, <<>>) = 0
        BY PlaceOut
      <4>2. QED
        BY <1>11, <4>1 DEF Read
    <3>4. <<y, at, t>> \notin DOMAIN written
      BY <1>8, <2>3 DEF StoresOK, WrittenOK
    <3>5. QED
      BY <1>8, <2>1, <3>2, <3>3, <3>4
  <2>4. CASE y # x
    <3>1. tbl[y] = trackTbl[y]
      BY <1>16, <2>2, <2>4
    <3>2. IsPlace(y, at, id)
      BY <1>7, <1>18, <3>1 DEF IsPlace, Block, InBlock
    <3>3. id + 1 \in 1..N
      BY <1>6, <2>2, <3>2, BlockInTracks DEF IsPlace, IInv
    <3>4. PICK d \in 1..b, vs \in Seq(Stored) :
              d = tracks[id + 1].table /\ vs = tracks[id + 1].values
      BY <1>14, <3>3
    <3>5. d = trs[id + 1].table /\ vs = trs[id + 1].values /\ ren[d] = renames[d]
      BY <1>10, <1>11, <3>3, <3>4
    <3>6. getTagValue(id, t)' = getTagValue(id, t)
      BY <2>1, <3>4, <3>5, getTagValueReads
    <3>7. getTagValue(id, t) = IF <<y, at, t>> \in DOMAIN written
                               THEN written[<<y, at, t>>] ELSE UNDEF
      BY <3>2 DEF StoresOK, Own
    <3>8. QED
      BY <1>8, <3>6, <3>7
  <2>5. QED
    BY <2>3, <2>4
<1>19. QED
  BY <1>8, <1>13, <1>15, <1>17, <1>18 DEF StoresOK, Own

LEMMA NextStoresOK == ASSUME IInv, BlocksOK, StoresOK, [Next]_vars PROVE StoresOK'
<1>1. CASE trackTags
  <2>1. PICK x \in Elements : Track(x, ClockOf[x])
    BY <1>1 DEF trackTags
  <2>2. QED
    BY <2>1, TrackStoresOK DEF Trackable, ClockFor
<1>2. CASE trackCycleTags
  <2>1. PICK c \in Clocks : Track(c, c)
    BY <1>2 DEF trackCycleTags
  <2>2. c \notin Elements
    BY GraphAssumption
  <2>3. QED
    BY <2>1, <2>2, TrackStoresOK DEF Trackable, ClockFor
<1>3. CASE Write
  BY <1>3, WriteStoresOK
<1>4. CASE Cycle
  BY <1>4, SameStoresOK DEF Cycle
<1>5. CASE UNCHANGED vars
  BY <1>5, SameStoresOK DEF vars, StoresOK
<1>6. QED
  BY <1>1, <1>2, <1>3, <1>4, <1>5 DEF Next

LEMMA StoresRead == ASSUME BlocksOK, StoresOK PROVE ReadsOwn
BY PlaceFacts DEF StoresOK, Own, ReadsOwn

(* A tag of a slot, position, node, edge or cycle reads as the trace last  *)
(* set it there, though the tracks of a block share the table that renames *)
(* their tags and grow at different times (TrackVec::addTagValue,          *)
(* getTagValue, TagRenameTable::rename).                                   *)
THEOREM SpecReadsOwn == Spec => []ReadsOwn
<1>1. Spec => []StoresOK
  BY InitStoresOK, NextStoresOK, SpecIInv, SpecBlocksOK, PTL DEF Spec
<1>2. BlocksOK /\ StoresOK => ReadsOwn
  BY StoresRead
<1>3. QED
  BY <1>1, <1>2, SpecBlocksOK, PTL
=============================================================================
