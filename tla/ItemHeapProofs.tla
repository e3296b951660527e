--------------------------- MODULE ItemHeapProofs ---------------------------
(* Proofs about ItemHeap, for any items, chunk size, dictionaries and      *)
(* clocks: the chains of chunks are of one item each, the events and the   *)
(* sets of values are read in the order they were given, a tag knows       *)
(* whether it has more than one value, and it reads as it was written.     *)
EXTENDS ItemHeap, SequenceTheorems, FiniteSetTheorems, WellFoundedInduction, TLAPS

-----------------------------------------------------------------------------
(* The inductive invariant.                                                *)

GivenTags == UNION {g.tags \cup g.sovTags : g \in Givens}
AllTags == GivenTags \cup {NEWITEM, DELITEM}
AllEvents == UNION {g.events : g \in Givens}
AllValues == Values \cup {ZERO}

TagNodes == [type : {"tag"}, tagId : AllTags, dkey : Keys, isMutable : BOOLEAN,
             isSOV : BOOLEAN, clockId : Clocks, cycle : Nat, division : 0..1]
EventNodes == [type : {"event"}, event : AllEvents, clockId : Clocks, cycle : Nat,
               division : 0..1]
Nodes == TagNodes \cup EventNodes
Chunks == [content : Seq(Nodes), next : Nat]
CycleSet == [clock : Clocks, cycle : 0..MaxCycle, division : 0..1]
Records == [tag : AllTags, value : AllValues, at : CycleSet] \cup
           [event : AllEvents, at : CycleSet]

(* A vector of chunks whose offsets lead forward, within it.               *)
IsHeap(ev) ==
    /\ ev \in Seq(Chunks)
    /\ \A k \in 1..Len(ev) :
          Len(ev[k].content) \in 1..EVENTS_PER_CHUNK /\ k + ev[k].next <= Len(ev)

(* No chunk is in the chains of two items.                                 *)
ChainsApart ==
    \A i, j \in Items : i # j =>
        \A m \in DOMAIN PlacesOf(i), n \in DOMAIN PlacesOf(j) : PlacesOf(i)[m][1] # PlacesOf(j)[n][1]

HeapOK ==
    /\ IsHeap(eventVector)
    /\ itemVector \in [Items -> Nat]
    /\ \A i \in Items : itemVector[i] \in 1..(Len(eventVector) + 1)
    /\ ChainsApart

(* Where the clocks are; a clock that has started keeps its first cycle.   *)
ClocksOK ==
    /\ given \in Givens
    /\ currentCycle \in [Clocks -> Int]
    /\ firstEffectiveCycle \in [Clocks -> Nat]
    /\ \A c \in Clocks : currentCycle[c] # -1 =>
          /\ currentCycle[c] \in given.start[c]..MaxCycle
          /\ firstEffectiveCycle[given.internal[c]] = given.start[c]
    /\ cycle # NULL =>
          /\ cycle \in CycleSet /\ cycle.division < given.divisions[cycle.clock]
          /\ currentCycle[cycle.clock] = cycle.cycle

(* A clock enters its dictionaries one after the other.                    *)
DictsOK ==
    /\ entered \in [Clocks -> Seq(Nat)]
    /\ contents \in [0..(MAXDICT - 1) -> Seq(AllValues)]
    /\ \A c \in Clocks :
          /\ Len(entered[c]) \in 1..MAXDICT /\ entered[c][1] = 0
          /\ currentCycle[c] = -1 => Len(entered[c]) = 1
          /\ currentCycle[c] # -1 =>
                \A d \in 1..Len(entered[c]) : entered[c][d] <= currentCycle[c] - given.start[c]

(* The clock c was in the dictionary d at a cycle relative to its first.   *)
InDict(d, at, c) ==
    /\ d \in 0..current(c) /\ \A e \in 0..d : entered[c][e + 1] <= at
    /\ d < current(c) => entered[c][d + 2] > at

(* An entry is of a cycle that its clock went through, and its key is one  *)
(* of the dictionary the clock was in.                                     *)
NodeOf(n, c) ==
    /\ n.clockId = given.internal[c] /\ currentCycle[c] # -1
    /\ n.cycle + given.start[c] <= currentCycle[c]
    /\ n.division < given.divisions[c]
    /\ n.type = "tag" =>
          \E d \in 0..current(c) : InDict(d, n.cycle, c) /\ n.dkey + 1 \in DOMAIN contents[d]

NodesOK == \A i \in Items : \A k \in DOMAIN Entries(i) : \E c \in Clocks : NodeOf(Entries(i)[k], c)

(* The entries of an item as they are read.                                *)
Read(i) == [k \in DOMAIN Entries(i) |-> Decoded(Entries(i)[k])]

(* What was stored with an item, or said of it, is in the order of time.   *)
Ordered(s) ==
    /\ s \in Seq(Records)
    /\ \A k \in DOMAIN s :
          /\ currentCycle[s[k].at.clock] # -1 /\ s[k].at.division < given.divisions[s[k].at.clock]
          /\ cycle # NULL /\ toLCM(s[k].at) <= toLCM(cycle)
    /\ \A k, l \in DOMAIN s : k <= l => toLCM(s[k].at) <= toLCM(s[l].at)

(* What there is of a tag of single values.                                *)
Of(s, t) == {k \in DOMAIN s : IsPlain(s[k]) /\ s[k].tag = t}

OfCycle(x, y) == x.clock = y.clock /\ x.cycle = y.cycle

(* What the heap made of a tag of an item, of which it has rs and was told *)
(* ls: g is the entry that each value went to.  An entry is not later than *)
(* its values, and there since the first of them.  A value is still that   *)
(* of its entry unless a later one of the cycle of the entry replaced it.  *)
(* It goes to the entry of the one before it when it is of the cycle of    *)
(* the entry, or repeated.                                                 *)
NotLater(rs, ls, t, g) == \A w \in Of(ls, t) : toLCM(rs[g[w]].at) <= toLCM(ls[w].at)

InTurn(ls, t, g) == \A u, w \in Of(ls, t) : u <= w => g[u] <= g[w]

Founded(rs, ls, t, g) ==
    \A k \in Of(rs, t) : \E w \in Of(ls, t) :
        g[w] = k /\ ls[w].at = rs[k].at /\ \A u \in Of(ls, t) : u < w => g[u] # k

StillThere(rs, ls, t, g) ==
    \A w \in Of(ls, t) :
        \/ ls[w].value = rs[g[w]].value
        \/ \E x \in Of(ls, t) : w < x /\ g[x] = g[w] /\ OfCycle(ls[x].at, rs[g[w]].at)

WentOn(rs, ls, t, g) ==
    \A u, w \in Of(ls, t) : u < w /\ (\A x \in Of(ls, t) : x <= u \/ w <= x) =>
        (g[u] = g[w] <=> \/ OfCycle(ls[w].at, rs[g[u]].at)
                         \/ given.compressMutable /\ ls[w].value = ls[u].value)

LinkedBy(rs, ls, t, g) ==
    /\ NotLater(rs, ls, t, g) /\ InTurn(ls, t, g) /\ Founded(rs, ls, t, g)
    /\ StillThere(rs, ls, t, g) /\ WentOn(rs, ls, t, g)

Linked(rs, ls) ==
    \A t \in PlainTags : \E g \in [Of(ls, t) -> Of(rs, t)] : LinkedBy(rs, ls, t, g)

(* The events and the sets of values that are read are those given.        *)
Kept(rs, ls) ==
    /\ Cardinality(Others(rs)) = Cardinality(Others(ls))
    /\ \A k \in Others(rs), l \in Others(ls) : Rank(rs, k) = Rank(ls, l) => rs[k] = ls[l]

HistoryOK ==
    /\ DOMAIN log = Items
    /\ \A i \in Items : \A rs \in {Read(i)}, ls \in {log[i]} :
          Ordered(rs) /\ Ordered(ls) /\ Linked(rs, ls) /\ Kept(rs, ls)

IInv == HeapOK /\ ClocksOK /\ DictsOK /\ NodesOK /\ MutableKnown /\ HistoryOK

-----------------------------------------------------------------------------
(* Chains of chunks.                                                       *)

(* Among some natural numbers there is a first one.                        *)
LEMMA Least ==
    ASSUME NEW T \in SUBSET Nat, T # {}
    PROVE  \E x \in T : \A y \in T : x <= y
<1> DEFINE R == OpToRel(<, Nat)
<1>1. IsWellFoundedOn(R, Nat)
  BY NatLessThanWellFounded
<1>2. \A y, x \in Nat : <<y, x>> \in R <=> y < x
  BY DEF OpToRel
<1> HIDE DEF R
<1>3. PICK x \in T : \A y \in T : ~(<<y, x>> \in R)
  BY <1>1, WFMin
<1>4. ASSUME NEW y \in T PROVE x <= y
  <2>1. x \in Nat /\ y \in Nat
    OBVIOUS
  <2>2. ~(y < x)
    BY <1>2, <1>3, <2>1
  <2>3. QED
    BY <2>1, <2>2
<1>5. QED
  BY <1>4

(* What holds of a number when it holds of all the greater ones up to n.   *)
LEMMA Downwards ==
    ASSUME NEW n \in Nat, NEW G,
           \A k \in 2..n : (\A l \in 2..n : l > k => l \in G) => k \in G
    PROVE  2..n \subseteq G
<1> DEFINE B == {k \in 2..n : k \notin G}
<1>1. SUFFICES ASSUME B # {} PROVE FALSE
  OBVIOUS
<1>2. IsFiniteSet(2..n) /\ B \subseteq 2..n
  BY FS_Interval
<1>3. PICK m \in B : \A l \in B : l <= m
  <2>1. B \in SUBSET Int /\ \E b \in Int : \A l \in B : l <= b
    OBVIOUS
  <2> DEFINE N == {n - l : l \in B}
  <2>2. N \in SUBSET Nat /\ N # {}
    BY <1>1
  <2>3. PICK x \in N : \A y \in N : x <= y
    <3> HIDE DEF N
    <3>1. QED
      BY <2>2, Least
  <2>4. PICK m \in B : x = n - m
    BY <2>3
  <2>5. ASSUME NEW l \in B PROVE l <= m
    <3>1. n - l \in N /\ l \in Int /\ m \in Int
      OBVIOUS
    <3>2. n - m <= n - l
      BY <2>3, <2>4, <3>1
    <3>3. QED
      BY <3>1, <3>2
  <2>6. QED
    BY <2>5
<1>4. \A l \in 2..n : l > m => l \in G
  BY <1>3
<1>5. QED
  BY <1>3, <1>4

ChainOf(ev, k, f) ==
    LET own == [s \in 1..Len(ev[k - 1].content) |-> <<k, s>>]
    IN  IF ev[k - 1].next = 0 THEN own ELSE own \o f[k + ev[k - 1].next]
ChainsFrom(ev, m, f) == f = [k \in m..(Len(ev) + 1) |-> ChainOf(ev, k, f)]
Chains(ev) ==
    CHOOSE f : f =
        [k \in 2 .. (ITEM_UNUSED + 1 + Len(ev)) - 1 |->
            LET own == [s \in 1 .. Len(ev[k - ITEM_UNUSED].content) |-> <<k, s>>]
            IN  IF ev[k - ITEM_UNUSED].next = 0 THEN own ELSE own \o f[k + ev[k - ITEM_UNUSED].next]]

LEMMA PlacesAreChains == Places = Chains(eventVector)
BY DEF Places, Chains, ChunkAt, nextEventVectorEntry

LEMMA PlacesAreChainsNext == Places' = Chains(eventVector')
BY DEF Places, Chains, ChunkAt, nextEventVectorEntry

LEMMA HeapFacts ==
    ASSUME NEW ev, IsHeap(ev)
    PROVE  /\ Len(ev) \in Nat /\ Len(ev) + 1 \in Nat \ {0} /\ DOMAIN ev = 1..Len(ev)
           /\ \A k \in 1..Len(ev) :
                 /\ ev[k] \in Chunks /\ ev[k].content \in Seq(Nodes) /\ ev[k].next \in Nat
                 /\ Len(ev[k].content) \in 1..EVENTS_PER_CHUNK
                 /\ Len(ev[k].content) \in Nat \ {0}
           /\ \A k \in 2..(Len(ev) + 1) :
                 k - 1 \in 1..Len(ev) /\ k + ev[k - 1].next \in k..(Len(ev) + 1)
<1>1. ev \in Seq(Chunks) /\ Len(ev) \in Nat /\ DOMAIN ev = 1..Len(ev)
  BY DEF IsHeap
<1>2. ASSUME NEW k \in 1..Len(ev)
      PROVE  /\ ev[k] \in Chunks /\ ev[k].content \in Seq(Nodes) /\ ev[k].next \in Nat
             /\ Len(ev[k].content) \in 1..EVENTS_PER_CHUNK
             /\ Len(ev[k].content) \in Nat \ {0}
             /\ k + ev[k].next <= Len(ev)
  <2>1. ev[k] \in Chunks
    BY <1>1
  <2>2. Len(ev[k].content) \in 1..EVENTS_PER_CHUNK /\ k + ev[k].next <= Len(ev)
    BY DEF IsHeap
  <2>3. EVENTS_PER_CHUNK \in Nat
    BY ItemSizesAssumption
  <2>4. ev[k].content \in Seq(Nodes) /\ ev[k].next \in Nat
    BY <2>1 DEF Chunks
  <2>5. QED
    BY <2>1, <2>2, <2>3, <2>4
<1>3. ASSUME NEW k \in 2..(Len(ev) + 1)
      PROVE  k - 1 \in 1..Len(ev) /\ k + ev[k - 1].next \in k..(Len(ev) + 1)
  <2>1. k - 1 \in 1..Len(ev)
    BY <1>1
  <2>2. ev[k - 1].next \in Nat /\ (k - 1) + ev[k - 1].next <= Len(ev)
    BY <1>2, <2>1
  <2>3. PICK x \in Nat : x = ev[k - 1].next
    BY <2>2
  <2>4. QED
    BY <1>1, <2>1, <2>2, <2>3
<1>4. QED
  BY <1>1, <1>2, <1>3

(* There are such chains: from chunk m on, from the last chunk downwards.  *)
LEMMA ChainsExist ==
    ASSUME NEW ev, IsHeap(ev)
    PROVE  \E f : ChainsFrom(ev, 2, f)
<1> DEFINE N == Len(ev) + 1
           G == {m \in 2..(N + 1) : \E f : ChainsFrom(ev, m, f)}
<1>1. N \in Nat \ {0} /\ \A k \in 2..N : k - 1 \in 1..Len(ev) /\ k + ev[k - 1].next \in k..N
  BY HeapFacts
<1>2. N + 1 \in G
  <2>1. PICK f : f = [k \in (N + 1)..N |-> ChainOf(ev, k, {})]
    OBVIOUS
  <2>2. (N + 1)..N = {}
    BY <1>1
  <2>3. f = [k \in (N + 1)..N |-> ChainOf(ev, k, f)]
    BY <2>1, <2>2
  <2>4. QED
    BY <1>1, <2>3 DEF ChainsFrom
<1>3. ASSUME NEW m \in 2..(N + 1), \A l \in 2..(N + 1) : l > m => l \in G
      PROVE  m \in G
  <2>1. CASE m = N + 1
    BY <1>2, <2>1
  <2>2. CASE m # N + 1
    <3>1. m \in 2..N /\ m + 1 \in 2..(N + 1) /\ m + 1 > m /\ m \in Nat
      BY <1>1, <2>2
    <3>2. PICK g : ChainsFrom(ev, m + 1, g)
      BY <1>3, <3>1
    <3>3. PICK f : f = [k \in m..N |-> IF k = m THEN ChainOf(ev, m, g) ELSE g[k]]
      OBVIOUS
    <3>4. \A k \in (m + 1)..N : g[k] = ChainOf(ev, k, g)
      BY <3>2 DEF ChainsFrom
    <3>5. ASSUME NEW k \in m..N PROVE ChainOf(ev, k, f) = ChainOf(ev, k, g)
      <4>1. k \in 2..N /\ k + ev[k - 1].next \in k..N /\ k \in Nat
        BY <1>1, <3>1
      <4>2. CASE ev[k - 1].next = 0
        BY <4>2 DEF ChainOf
      <4>3. CASE ev[k - 1].next # 0
        <5>1. k + ev[k - 1].next \in m..N /\ k + ev[k - 1].next # m
          <6>1. ev[k - 1].next \in Nat /\ ev[k - 1].next # 0
            BY <4>1, <4>3, HeapFacts
          <6>2. PICK x \in Nat : x = ev[k - 1].next
            BY <6>1
          <6>3. x # 0 /\ k + x \in k..N /\ k \in m..N /\ m \in Nat /\ k \in Nat
            BY <3>1, <4>1, <6>1, <6>2
          <6>4. N \in Nat
            BY <1>1
          <6>5. k + x \in m..N /\ k + x # m
            BY ONLY <6>3, <6>4, x \in Nat
          <6>6. QED
            BY <6>2, <6>5
        <5>2. f[k + ev[k - 1].next] = g[k + ev[k - 1].next]
          BY <3>3, <5>1
        <5>3. QED
          BY <5>2 DEF ChainOf
      <4>4. QED
        BY <4>2, <4>3
    <3>6. \A k \in m..N : f[k] = ChainOf(ev, k, g)
      <4>1. \A k \in m..N : k = m \/ k \in (m + 1)..N
        BY <1>1, <3>1
      <4>2. QED
        BY <3>3, <3>4, <4>1
    <3>7. f = [k \in m..N |-> ChainOf(ev, k, f)]
      BY <3>3, <3>5, <3>6
    <3>8. QED
      BY <3>7 DEF ChainsFrom
  <2>3. QED
    BY <2>1, <2>2
<1>4. 2..(N + 1) \subseteq G
  <2> HIDE DEF G
  <2>1. N + 1 \in Nat
    BY <1>1
  <2>2. QED
    BY <1>3, <2>1, Downwards
<1>5. 2 \in G
  <2> HIDE DEF G
  <2>1. 2 \in 2..(N + 1)
    BY <1>1
  <2>2. QED
    BY <1>4, <2>1
<1>6. QED
  BY <1>5

(* The chain that starts at a chunk: its entries, then those of the next.  *)
LEMMA ChainsUnfold ==
    ASSUME NEW ev, IsHeap(ev), NEW k \in 2..(Len(ev) + 1)
    PROVE  Chains(ev)[k] = ChainOf(ev, k, Chains(ev))
<1>1. PICK f : ChainsFrom(ev, 2, f)
  BY ChainsExist
<1>2. (ITEM_UNUSED + 1 + Len(ev)) - 1 = Len(ev) + 1
  BY DEF IsHeap, ITEM_UNUSED
<1>3. Chains(ev) =
        [l \in 2 .. (ITEM_UNUSED + 1 + Len(ev)) - 1 |->
            LET own == [s \in 1 .. Len(ev[l - ITEM_UNUSED].content) |-> <<l, s>>]
            IN  IF ev[l - ITEM_UNUSED].next = 0 THEN own
                ELSE own \o Chains(ev)[l + ev[l - ITEM_UNUSED].next]]
  <2>1. f =
        [l \in 2 .. (ITEM_UNUSED + 1 + Len(ev)) - 1 |->
            LET own == [s \in 1 .. Len(ev[l - ITEM_UNUSED].content) |-> <<l, s>>]
            IN  IF ev[l - ITEM_UNUSED].next = 0 THEN own
                ELSE own \o f[l + ev[l - ITEM_UNUSED].next]]
    BY <1>1, <1>2 DEF ChainsFrom, ChainOf, ITEM_UNUSED
  <2>2. QED
    BY <2>1, Zenon DEF Chains
<1>4. QED
  BY <1>2, <1>3 DEF ChainOf, ITEM_UNUSED

Spots == Nat \X Nat

(* A chain from chunk k on: its entries are in chunks from k on, each once, *)
(* and the last one is the last of a chunk that has no next one.           *)
IsChain(ev, k, ps) ==
    /\ ps \in Seq(Spots) /\ Len(ps) # 0
    /\ \A m \in 1..Len(ps) :
          ps[m][1] \in k..(Len(ev) + 1) /\ ps[m][2] \in 1..Len(ev[ps[m][1] - 1].content)
    /\ \A m, n \in 1..Len(ps) : ps[m] = ps[n] => m = n
    /\ ev[ps[Len(ps)][1] - 1].next = 0
    /\ ps[Len(ps)][2] = Len(ev[ps[Len(ps)][1] - 1].content)

OwnSpots(ev, k) == [s \in 1..Len(ev[k - 1].content) |-> <<k, s>>]

LEMMA OwnIsChain ==
    ASSUME NEW ev, IsHeap(ev), NEW k \in 2..(Len(ev) + 1)
    PROVE  /\ OwnSpots(ev, k) \in Seq(Spots) /\ Len(OwnSpots(ev, k)) = Len(ev[k - 1].content)
           /\ Len(ev[k - 1].content) \in Nat \ {0}
           /\ \A m \in 1..Len(ev[k - 1].content) : OwnSpots(ev, k)[m] = <<k, m>>
           /\ ev[k - 1].next = 0 => IsChain(ev, k, OwnSpots(ev, k))
<1>1. PICK l \in Nat \ {0} : l = Len(ev[k - 1].content)
  BY HeapFacts
<1>2. k \in Nat /\ k \in k..(Len(ev) + 1)
  BY HeapFacts
<1>3. PICK own : own = [s \in 1..l |-> <<k, s>>]
  OBVIOUS
<1>4. own \in Seq(Spots) /\ Len(own) = l /\ \A m \in 1..l : own[m] = <<k, m>>
  BY <1>2, <1>3 DEF Spots
<1>5. OwnSpots(ev, k) = own
  BY <1>1, <1>3 DEF OwnSpots
<1>6. ASSUME ev[k - 1].next = 0 PROVE IsChain(ev, k, own)
  <2>1. \A m \in 1..l : own[m][1] = k /\ own[m][2] = m
    BY <1>4
  <2>2. \A m, n \in 1..l : own[m] = own[n] => m = n
    BY <2>1
  <2>3. l \in 1..l /\ Len(own) = l /\ l # 0
    BY <1>1, <1>4
  <2>4. \A m \in 1..Len(own) :
          own[m][1] \in k..(Len(ev) + 1) /\ own[m][2] \in 1..Len(ev[own[m][1] - 1].content)
    BY <1>1, <1>2, <2>1, <2>3
  <2>5. ev[own[Len(own)][1] - 1].next = 0 /\ own[Len(own)][2] = Len(ev[own[Len(own)][1] - 1].content)
    BY <1>1, <1>6, <2>1, <2>3
  <2>6. QED
    BY <1>4, <2>2, <2>3, <2>4, <2>5 DEF IsChain
<1>7. QED
  BY <1>1, <1>4, <1>5, <1>6

LEMMA JoinedSpots ==
    ASSUME NEW p \in Seq(Spots), NEW q \in Seq(Spots)
    PROVE  /\ p \o q \in Seq(Spots) /\ Len(p \o q) = Len(p) + Len(q)
           /\ Len(p) \in Nat /\ Len(q) \in Nat
           /\ \A m \in 1..Len(p) : (p \o q)[m] = p[m]
           /\ \A m \in 1..Len(q) : (p \o q)[Len(p) + m] = q[m]
           /\ \A m \in (Len(p) + 1)..(Len(p) + Len(q)) :
                 m - Len(p) \in 1..Len(q) /\ (p \o q)[m] = q[m - Len(p)]
<1>1. Len(p) \in Nat /\ Len(q) \in Nat
  OBVIOUS
<1>2. p \o q \in Seq(Spots) /\ Len(p \o q) = Len(p) + Len(q)
  BY ConcatProperties
<1>3. \A m \in 1..(Len(p) + Len(q)) : (p \o q)[m] = IF m <= Len(p) THEN p[m] ELSE q[m - Len(p)]
  BY ConcatProperties
<1>4. \A m \in 1..Len(p) : m \in 1..(Len(p) + Len(q)) /\ m <= Len(p)
  BY <1>1
<1>5. \A m \in 1..Len(q) : /\ Len(p) + m \in 1..(Len(p) + Len(q)) /\ ~(Len(p) + m <= Len(p))
                           /\ (Len(p) + m) - Len(p) = m
  BY <1>1
<1>6. \A m \in (Len(p) + 1)..(Len(p) + Len(q)) :
        m - Len(p) \in 1..Len(q) /\ m \in 1..(Len(p) + Len(q)) /\ ~(m <= Len(p))
  BY <1>1
<1>7. QED
  BY <1>1, <1>2, <1>3, <1>4, <1>5, <1>6

LEMMA ChainsAreChains ==
    ASSUME NEW ev, IsHeap(ev)
    PROVE  \A k \in 2..(Len(ev) + 1) : IsChain(ev, k, Chains(ev)[k])
<1> DEFINE N == Len(ev) + 1
           G == {k \in 2..N : IsChain(ev, k, Chains(ev)[k])}
<1>1. N \in Nat
  BY HeapFacts
<1>2. ASSUME NEW k \in 2..N, \A l \in 2..N : l > k => l \in G
      PROVE  k \in G
  <2>1. PICK own : own = OwnSpots(ev, k)
    OBVIOUS
  <2>2. Chains(ev)[k] = IF ev[k - 1].next = 0 THEN own
                        ELSE own \o Chains(ev)[k + ev[k - 1].next]
    BY <2>1, ChainsUnfold DEF ChainOf, OwnSpots
  <2>3. CASE ev[k - 1].next = 0
    BY <2>1, <2>2, <2>3, OwnIsChain
  <2>4. CASE ev[k - 1].next # 0
    <3>1. PICK x \in Nat \ {0} : x = ev[k - 1].next
      BY <2>4, HeapFacts
    <3>2. k + x \in 2..N /\ k + x > k /\ k \in Nat
      <4>1. k + x \in k..N
        BY <3>1, HeapFacts
      <4>2. QED
        BY <1>1, <3>1, <4>1
    <3>3. PICK q : q = Chains(ev)[k + x]
      OBVIOUS
    <3>4. IsChain(ev, k + x, q)
      BY <1>2, <3>2, <3>3
    <3>5. PICK p : p = own \o q
      OBVIOUS
    <3>6. own \in Seq(Spots) /\ q \in Seq(Spots) /\ Len(q) \in Nat \ {0}
      <4>1. own \in Seq(Spots)
        BY <2>1, OwnIsChain
      <4>2. q \in Seq(Spots) /\ Len(q) # 0
        BY <3>4 DEF IsChain
      <4>3. QED
        BY <4>1, <4>2
    <3>7. PICK l \in Nat \ {0}, n \in Nat \ {0} : l = Len(own) /\ n = Len(q)
      BY <2>1, <3>6, OwnIsChain
    <3>8. /\ p \in Seq(Spots) /\ Len(p) = l + n
          /\ \A m \in 1..l : p[m] = own[m]
          /\ \A m \in (l + 1)..(l + n) : m - l \in 1..n /\ p[m] = q[m - l]
      BY <3>5, <3>6, <3>7, JoinedSpots
    <3>9. \A m \in 1..l : own[m] = <<k, m>> /\ m \in 1..Len(ev[k - 1].content)
      BY <2>1, <3>7, OwnIsChain
    <3>10. \A m \in 1..n : /\ q[m][1] \in (k + x)..N
                           /\ q[m][2] \in 1..Len(ev[q[m][1] - 1].content)
      BY <3>4, <3>7 DEF IsChain
    <3>11. \A m \in 1..(l + n) : m \in 1..l \/ m \in (l + 1)..(l + n)
      OBVIOUS
    <3>12. ASSUME NEW m \in 1..(l + n)
           PROVE  p[m][1] \in k..N /\ p[m][2] \in 1..Len(ev[p[m][1] - 1].content)
      <4>1. CASE m \in 1..l
        <5>1. p[m][1] = k /\ p[m][2] = m
          <6>1. \A y \in 1..l : p[y][1] = k /\ p[y][2] = y
            BY <3>8, <3>9
          <6>2. QED
            BY <4>1, <6>1
        <5>2. k \in k..N
          BY <1>1
        <5>3. QED
          BY <3>9, <4>1, <5>1, <5>2
      <4>2. CASE m \in (l + 1)..(l + n)
        <5>1. m - l \in 1..n /\ p[m] = q[m - l]
          BY <3>8, <4>2
        <5>2. \A y \in (k + x)..N : y \in k..N
          BY <1>1, <3>2
        <5>3. QED
          BY <3>10, <5>1, <5>2
      <4>3. QED
        BY <3>11, <4>1, <4>2
    <3>13. ASSUME NEW a \in 1..(l + n), NEW b \in 1..(l + n), p[a] = p[b]
           PROVE  a = b
      <4>1. \A m \in 1..l : p[m][1] = k /\ p[m][2] = m
        BY <3>8, <3>9
      <4>2. ASSUME NEW m \in (l + 1)..(l + n) PROVE p[m][1] # k
        <5>1. m - l \in 1..n /\ p[m] = q[m - l]
          BY <3>8
        <5>2. \A y \in (k + x)..N : y # k
          BY <1>1, <3>2
        <5>3. QED
          BY <3>10, <5>1, <5>2
      <4>3. CASE a \in 1..l /\ b \in 1..l
        BY <3>13, <4>1, <4>3
      <4>4. CASE a \in (l + 1)..(l + n) /\ b \in (l + 1)..(l + n)
        <5>1. /\ a - l \in 1..n /\ p[a] = q[a - l]
              /\ b - l \in 1..n /\ p[b] = q[b - l]
          BY <3>8, <4>4
        <5>2. a - l = b - l
          BY <3>4, <3>7, <3>13, <5>1 DEF IsChain
        <5>3. QED
          BY <5>2
      <4>5. QED
        BY <3>11, <3>13, <4>1, <4>2, <4>3, <4>4
    <3>14. p[l + n] = q[n]
      <4>1. l + n \in (l + 1)..(l + n) /\ (l + n) - l = n
        OBVIOUS
      <4>2. QED
        BY <3>8, <4>1
    <3>15. l + n # 0
      OBVIOUS
    <3>16. IsChain(ev, k, p)
      BY <3>4, <3>7, <3>8, <3>12, <3>13, <3>14, <3>15 DEF IsChain
    <3>17. QED
      BY <2>2, <2>4, <3>1, <3>3, <3>5, <3>16
  <2>5. QED
    BY <2>3, <2>4
<1>3. 2..N \subseteq G
  <2> HIDE DEF G
  <2>1. QED
    BY <1>1, <1>2, Downwards
<1>4. QED
  BY <1>3

(* The vector ev2 is ev but for the chunk L, the end of a chain, that has  *)
(* another entry after its own, the one at p.                              *)
GrownAt(ev, ev2, L, p) ==
    /\ IsHeap(ev) /\ IsHeap(ev2) /\ Len(ev) <= Len(ev2) /\ p \in Spots
    /\ \A k \in 2..(Len(ev) + 1) : k # L =>
          /\ Len(ev2[k - 1].content) = Len(ev[k - 1].content)
          /\ ev2[k - 1].next = ev[k - 1].next
    /\ L \in 2..(Len(ev) + 1) =>
          /\ ev[L - 1].next = 0
          /\ ChainOf(ev2, L, Chains(ev2)) = Append(OwnSpots(ev, L), p)

EndOf(ps) == ps[Len(ps)][1]

LEMMA AppendJoined ==
    ASSUME NEW p \in Seq(Spots), NEW q \in Seq(Spots), NEW x \in Spots
    PROVE  p \o Append(q, x) = Append(p \o q, x)
<1>1. Append(q, x) \in Seq(Spots) /\ Len(Append(q, x)) = Len(q) + 1 /\ Len(q) \in Nat /\ Len(p) \in Nat
  BY AppendProperties
<1>2. /\ p \o q \in Seq(Spots) /\ Len(p \o q) = Len(p) + Len(q)
      /\ \A m \in 1..(Len(p) + Len(q)) : (p \o q)[m] = IF m <= Len(p) THEN p[m] ELSE q[m - Len(p)]
  BY ConcatProperties
<1>3. PICK l, r : l = p \o Append(q, x) /\ r = Append(p \o q, x)
  OBVIOUS
<1>4. /\ l \in Seq(Spots) /\ Len(l) = Len(p) + (Len(q) + 1)
      /\ \A m \in 1..(Len(p) + (Len(q) + 1)) : l[m] = IF m <= Len(p) THEN p[m] ELSE Append(q, x)[m - Len(p)]
  <2>1. PICK q2 : q2 = Append(q, x)
    OBVIOUS
  <2>2. q2 \in Seq(Spots) /\ Len(q2) = Len(q) + 1 /\ l = p \o q2
    BY <1>1, <1>3, <2>1
  <2>3. /\ l \in Seq(Spots) /\ Len(l) = Len(p) + Len(q2)
        /\ \A m \in 1..(Len(p) + Len(q2)) : l[m] = IF m <= Len(p) THEN p[m] ELSE q2[m - Len(p)]
    BY ONLY <2>2, p \in Seq(Spots), ConcatProperties
  <2>4. QED
    BY <2>1, <2>2, <2>3
<1>5. r \in Seq(Spots) /\ Len(r) = (Len(p) + Len(q)) + 1
      /\ (\A m \in 1..(Len(p) + Len(q)) : r[m] = (p \o q)[m]) /\ r[(Len(p) + Len(q)) + 1] = x
  BY <1>2, <1>3, AppendProperties
<1>6. (\A m \in 1..Len(q) : Append(q, x)[m] = q[m]) /\ Append(q, x)[Len(q) + 1] = x
  BY AppendProperties
<1>7. PICK a \in Nat, b \in Nat : a = Len(p) /\ b = Len(q)
  BY <1>1
<1>8. ASSUME NEW m \in 1..(a + b + 1) PROVE l[m] = r[m]
  <2>1. CASE m <= a
    <3>1. m \in 1..(a + b) /\ m \in 1..(a + (b + 1))
      BY <2>1
    <3>2. QED
      BY <1>2, <1>4, <1>5, <1>7, <2>1, <3>1
  <2>2. CASE m > a /\ m <= a + b
    <3>1. m \in 1..(a + b) /\ m \in 1..(a + (b + 1)) /\ ~(m <= a) /\ m - a \in 1..b
      BY <2>2
    <3>2. l[m] = q[m - a]
      BY <1>4, <1>6, <1>7, <3>1
    <3>3. r[m] = q[m - a]
      BY <1>2, <1>5, <1>7, <3>1
    <3>4. QED
      BY <3>2, <3>3
  <2>3. CASE m = (a + b) + 1
    <3>1. m \in 1..(a + (b + 1)) /\ ~(m <= a) /\ m - a = b + 1
      BY <2>3
    <3>2. l[m] = x
      BY <1>4, <1>6, <1>7, <3>1
    <3>3. r[m] = x
      BY <1>5, <1>7, <2>3
    <3>4. QED
      BY <3>2, <3>3
  <2>4. QED
    BY <2>1, <2>2, <2>3
<1>9. Len(l) = a + b + 1 /\ Len(r) = a + b + 1
  BY <1>4, <1>5, <1>7
<1>10. l = r
  BY <1>4, <1>5, <1>8, <1>9
<1>11. QED
  BY <1>3, <1>10

LEMMA ChainsGrow ==
    ASSUME NEW ev, NEW ev2, NEW L, NEW p, GrownAt(ev, ev2, L, p)
    PROVE  \A k \in 2..(Len(ev) + 1) :
              Chains(ev2)[k] = IF EndOf(Chains(ev)[k]) = L THEN Append(Chains(ev)[k], p)
                               ELSE Chains(ev)[k]
<1> DEFINE N == Len(ev) + 1
           Grown(k) == Chains(ev2)[k] = IF EndOf(Chains(ev)[k]) = L
                                        THEN Append(Chains(ev)[k], p) ELSE Chains(ev)[k]
           G == {k \in 2..N : Grown(k)}
<1>1. N \in Nat /\ Len(ev) \in Nat /\ Len(ev2) \in Nat /\ Len(ev) <= Len(ev2) /\ IsHeap(ev) /\ IsHeap(ev2)
  BY HeapFacts DEF GrownAt
<1>2. ASSUME NEW k \in 2..N, \A l \in 2..N : l > k => l \in G
      PROVE  k \in G
  <2>1. k \in 2..(Len(ev2) + 1) /\ k \in Nat
    BY <1>1
  <2>2. PICK own : own = OwnSpots(ev, k)
    OBVIOUS
  <2>3. Chains(ev)[k] = IF ev[k - 1].next = 0 THEN own
                        ELSE own \o Chains(ev)[k + ev[k - 1].next]
    BY <1>1, <2>2, ChainsUnfold DEF ChainOf, OwnSpots
  <2>4. Chains(ev2)[k] = ChainOf(ev2, k, Chains(ev2))
    BY <1>1, <2>1, ChainsUnfold
  <2>5. /\ own \in Seq(Spots) /\ Len(own) \in Nat \ {0}
        /\ ev[k - 1].next = 0 => IsChain(ev, k, own)
        /\ EndOf(own) = k
    <3>1. own \in Seq(Spots) /\ Len(own) = Len(ev[k - 1].content)
          /\ Len(ev[k - 1].content) \in Nat \ {0}
          /\ (\A m \in 1..Len(ev[k - 1].content) : own[m] = <<k, m>>)
          /\ (ev[k - 1].next = 0 => IsChain(ev, k, own))
      BY <1>1, <2>2, OwnIsChain
    <3>2. Len(own) \in 1..Len(ev[k - 1].content)
      BY <3>1
    <3>3. own[Len(own)] = <<k, Len(own)>>
      BY <3>1, <3>2
    <3>4. QED
      BY <3>1, <3>3 DEF EndOf
  <2>6. CASE k = L
    <3>1. ev[k - 1].next = 0 /\ ChainOf(ev2, k, Chains(ev2)) = Append(own, p)
      BY <2>2, <2>6 DEF GrownAt
    <3>2. Chains(ev)[k] = own /\ EndOf(Chains(ev)[k]) = L
      BY <2>3, <2>5, <2>6, <3>1
    <3>3. QED
      BY <2>4, <3>1, <3>2
  <2>7. CASE k # L
    <3>1. /\ Len(ev2[k - 1].content) = Len(ev[k - 1].content)
          /\ ev2[k - 1].next = ev[k - 1].next
      BY <2>7 DEF GrownAt
    <3>2. Chains(ev2)[k] = IF ev[k - 1].next = 0 THEN own
                           ELSE own \o Chains(ev2)[k + ev[k - 1].next]
      BY <2>2, <2>4, <3>1 DEF ChainOf, OwnSpots
    <3>3. CASE ev[k - 1].next = 0
      BY <2>3, <2>5, <2>7, <3>2, <3>3
    <3>4. CASE ev[k - 1].next # 0
      <4>1. PICK x \in Nat \ {0} : x = ev[k - 1].next
        BY <1>1, <3>4, HeapFacts
      <4>2. k + x \in 2..N /\ k + x > k
        <5>1. k + x \in k..N
          BY <1>1, <4>1, HeapFacts
        <5>2. QED
          BY <1>1, <4>1, <5>1
      <4>3. PICK q : q = Chains(ev)[k + x]
        OBVIOUS
      <4>4. q \in Seq(Spots) /\ Len(q) # 0
        BY <1>1, <4>2, <4>3, ChainsAreChains DEF IsChain
      <4>5. PICK r : r = own \o q
        OBVIOUS
      <4>6. Chains(ev)[k] = r
        BY <2>3, <3>4, <4>1, <4>3, <4>5
      <4>7. EndOf(r) = EndOf(q)
        <5>1. Len(q) \in Nat \ {0} /\ Len(r) = Len(own) + Len(q)
              /\ \A m \in 1..Len(q) : r[Len(own) + m] = q[m]
          BY <2>5, <4>4, <4>5, JoinedSpots
        <5>2. Len(q) \in 1..Len(q)
          BY <5>1
        <5>3. r[Len(r)] = q[Len(q)]
          BY <5>1, <5>2
        <5>4. QED
          BY <5>3 DEF EndOf
      <4>8. Grown(k + x)
        BY <1>2, <4>2
      <4>9. Chains(ev2)[k] = own \o Chains(ev2)[k + x]
        BY <3>2, <3>4, <4>1
      <4>10. CASE EndOf(q) = L
        <5>1. Chains(ev2)[k + x] = Append(q, p)
          BY <4>3, <4>8, <4>10
        <5>2. own \o Append(q, p) = Append(r, p)
          BY <2>5, <4>4, <4>5, AppendJoined DEF GrownAt
        <5>3. QED
          BY <4>6, <4>7, <4>9, <4>10, <5>1, <5>2
      <4>11. CASE EndOf(q) # L
        <5>1. Chains(ev2)[k + x] = q
          BY <4>3, <4>8, <4>11
        <5>2. QED
          BY <4>5, <4>6, <4>7, <4>9, <4>11, <5>1
      <4>12. QED
        BY <4>10, <4>11
    <3>5. QED
      BY <3>3, <3>4
  <2>8. QED
    BY <2>6, <2>7
<1>3. 2..N \subseteq G
  <2> HIDE DEF G
  <2>1. QED
    BY <1>1, <1>2, Downwards
<1>4. QED
  BY <1>3

-----------------------------------------------------------------------------
(* Storing an entry.                                                       *)

NodeIn(ev, x) == ev[x[1] - 1].content[x[2]]
ChainFrom(ev, first) == IF first <= 1 THEN <<>> ELSE Chains(ev)[first]
NodesFrom(ev, first) ==
    [k \in DOMAIN ChainFrom(ev, first) |-> NodeIn(ev, ChainFrom(ev, first)[k])]

NewChunk(n) == [content |-> <<n>>, next |-> 0]

WithChunk(ev, l, chunk) == [k \in DOMAIN ev |-> IF k = l THEN chunk ELSE ev[k]]

(* What Stored is, of the chains of the vector itself.                     *)
StoredIn(ev, first, n) ==
    IF first = 0 THEN Append(ev, NewChunk(n))
    ELSE LET l == EndOf(Chains(ev)[first]) - 1
         IN  IF Full(ev[l])
             THEN Append(WithChunk(ev, l, [ev[l] EXCEPT !.next = Offset(l, Len(ev) + 1)]),
                         NewChunk(n))
             ELSE WithChunk(ev, l, [ev[l] EXCEPT !.content = Append(@, n)])

(* The end of the chain that begins at `first`, if there is one.           *)
EndFrom(ev, first) == IF first = 0 THEN 0 ELSE EndOf(Chains(ev)[first])
BeginOf(ev, first) == IF first = 0 THEN Len(ev) + 2 ELSE first

(* The entry n was stored at x.                                            *)
StoredAt(ev, ev2, first, n, x) ==
    /\ GrownAt(ev, ev2, EndFrom(ev, first), x)
    /\ BeginOf(ev, first) \in 2..(Len(ev2) + 1)
    /\ Chains(ev2)[BeginOf(ev, first)] = Append(ChainFrom(ev, first), x)
    /\ x[1] \in {EndFrom(ev, first), Len(ev) + 2}
    /\ NodeIn(ev2, x) = n
    /\ \A k \in 2..(Len(ev) + 1) : \A s \in 1..Len(ev[k - 1].content) :
          NodeIn(ev2, <<k, s>>) = NodeIn(ev, <<k, s>>)

LEMMA NewChunkIs ==
    ASSUME NEW n \in Nodes
    PROVE  /\ NewChunk(n) \in Chunks /\ NewChunk(n).next = 0
           /\ NewChunk(n).content \in Seq(Nodes) /\ Len(NewChunk(n).content) = 1
           /\ NewChunk(n).content[1] = n
<1>1. PICK one : one = <<n>>
  OBVIOUS
<1>2. one \in Seq(Nodes) /\ Len(one) = 1 /\ one[1] = n
  BY <1>1
<1>3. NewChunk(n) = [content |-> one, next |-> 0]
  BY <1>1 DEF NewChunk
<1>4. QED
  BY <1>2, <1>3 DEF Chunks

LEMMA EndIs ==
    ASSUME NEW ev, IsHeap(ev), NEW first \in 2..(Len(ev) + 1)
    PROVE  /\ EndOf(Chains(ev)[first]) \in 2..(Len(ev) + 1)
           /\ ev[EndOf(Chains(ev)[first]) - 1].next = 0
           /\ Chains(ev)[first] \in Seq(Spots) /\ Len(Chains(ev)[first]) \in Nat \ {0}
<1>1. PICK ps : ps = Chains(ev)[first]
  OBVIOUS
<1>2. IsChain(ev, first, ps)
  BY <1>1, ChainsAreChains
<1>3. ps \in Seq(Spots) /\ Len(ps) \in Nat \ {0} /\ Len(ps) \in 1..Len(ps)
  BY <1>2 DEF IsChain
<1>4. EndOf(ps) \in first..(Len(ev) + 1) /\ ev[EndOf(ps) - 1].next = 0
  BY <1>2, <1>3 DEF IsChain, EndOf
<1>5. EndOf(ps) \in 2..(Len(ev) + 1)
  BY <1>4, HeapFacts
<1>6. QED
  BY <1>1, <1>3, <1>4, <1>5

(* The first entry of an item.                                             *)
LEMMA StoredFirst ==
    ASSUME NEW ev, IsHeap(ev), NEW n \in Nodes
    PROVE  \E x \in Spots : StoredAt(ev, Append(ev, NewChunk(n)), 0, n, x)
<1> DEFINE N == Len(ev)
<1>1. PICK ev2 : ev2 = Append(ev, NewChunk(n))
  OBVIOUS
<1>2. N \in Nat /\ ev \in Seq(Chunks)
  BY HeapFacts DEF IsHeap
<1>3. /\ ev2 \in Seq(Chunks) /\ Len(ev2) = N + 1
      /\ \A k \in 1..N : ev2[k] = ev[k]
      /\ ev2[N + 1] = NewChunk(n)
  BY <1>1, <1>2, NewChunkIs
<1>4. PICK x : x = <<N + 2, 1>>
  OBVIOUS
<1>5. x \in Spots /\ x[1] = N + 2 /\ x[2] = 1
  BY <1>2, <1>4 DEF Spots
<1>6. IsHeap(ev2)
  <2>1. ASSUME NEW k \in 1..(N + 1)
        PROVE  Len(ev2[k].content) \in 1..EVENTS_PER_CHUNK /\ k + ev2[k].next <= N + 1
    <3>1. CASE k = N + 1
      <4>1. Len(ev2[k].content) = 1 /\ ev2[k].next = 0
        BY <1>3, <3>1, NewChunkIs
      <4>2. QED
        BY <1>2, <3>1, <4>1, ItemSizesAssumption
    <3>2. CASE k # N + 1
      <4>1. k \in 1..N
        BY <1>2, <3>2
      <4>2. ev2[k] = ev[k] /\ Len(ev[k].content) \in 1..EVENTS_PER_CHUNK /\ k + ev[k].next <= N
            /\ ev[k].next \in Nat
        BY <1>3, <4>1, HeapFacts DEF IsHeap
      <4>3. QED
        BY <1>2, <4>1, <4>2
    <3>3. QED
      BY <3>1, <3>2
  <2>2. QED
    BY <1>3, <2>1 DEF IsHeap
<1>7. \A k \in 2..(N + 1) : k - 1 \in 1..N /\ ev2[k - 1] = ev[k - 1]
  BY <1>2, <1>3
<1>8. GrownAt(ev, ev2, 0, x)
  <2>1. 0 \notin 2..(N + 1)
    OBVIOUS
  <2>2. QED
    BY <1>2, <1>3, <1>5, <1>6, <1>7, <2>1 DEF GrownAt
<1>9. Chains(ev2)[N + 2] = <<x>>
  <2>1. N + 2 \in 2..(Len(ev2) + 1) /\ (N + 2) - 1 = N + 1
    BY <1>2, <1>3
  <2>2. ev2[(N + 2) - 1].next = 0 /\ Len(ev2[(N + 2) - 1].content) = 1
    BY <1>3, <2>1, NewChunkIs
  <2>3. Chains(ev2)[N + 2] = [s \in 1..1 |-> <<N + 2, s>>]
    BY <1>6, <2>1, <2>2, ChainsUnfold DEF ChainOf
  <2>4. [s \in 1..1 |-> <<N + 2, s>>] = <<<<N + 2, 1>>>>
    OBVIOUS
  <2>5. QED
    BY <1>4, <2>3, <2>4
<1>10. Append(<<>>, x) = <<x>>
  OBVIOUS
<1>11. NodeIn(ev2, x) = n
  <2>1. (N + 2) - 1 = N + 1
    BY <1>2
  <2>2. QED
    BY <1>3, <1>5, <2>1, NewChunkIs DEF NodeIn
<1>12. \A k \in 2..(N + 1) : \A s \in 1..Len(ev[k - 1].content) :
          NodeIn(ev2, <<k, s>>) = NodeIn(ev, <<k, s>>)
  BY <1>7 DEF NodeIn
<1>13. EndFrom(ev, 0) = 0 /\ BeginOf(ev, 0) = N + 2 /\ ChainFrom(ev, 0) = <<>>
  BY DEF EndFrom, BeginOf, ChainFrom
<1>14. N + 2 \in 2..(Len(ev2) + 1)
  BY <1>2, <1>3
<1>15. StoredAt(ev, ev2, 0, n, x)
  BY <1>5, <1>8, <1>9, <1>10, <1>11, <1>12, <1>13, <1>14 DEF StoredAt
<1>16. QED
  BY <1>1, <1>5, <1>15

LEMMA WithChunkIs ==
    ASSUME NEW ev, IsHeap(ev), NEW l \in 1..Len(ev), NEW chunk \in Chunks
    PROVE  /\ WithChunk(ev, l, chunk) \in Seq(Chunks) /\ Len(WithChunk(ev, l, chunk)) = Len(ev)
           /\ WithChunk(ev, l, chunk)[l] = chunk
           /\ \A k \in 1..Len(ev) : k # l => WithChunk(ev, l, chunk)[k] = ev[k]
<1>1. Len(ev) \in Nat /\ DOMAIN ev = 1..Len(ev) /\ \A k \in 1..Len(ev) : ev[k] \in Chunks
  BY HeapFacts
<1>2. PICK n \in Nat : n = Len(ev)
  BY <1>1
<1>3. PICK f : f = [k \in 1..n |-> IF k = l THEN chunk ELSE ev[k]]
  OBVIOUS
<1>4. WithChunk(ev, l, chunk) = f
  BY <1>1, <1>2, <1>3 DEF WithChunk
<1>5. f \in [1..n -> Chunks]
  BY <1>1, <1>2, <1>3
<1>6. f \in Seq(Chunks) /\ Len(f) = n
  BY <1>5
<1>7. f[l] = chunk /\ \A k \in 1..n : k # l => f[k] = ev[k]
  BY <1>2, <1>3
<1>8. QED
  BY <1>2, <1>4, <1>6, <1>7

IsLast(ev, first, l) == l = EndOf(Chains(ev)[first]) - 1

(* Another entry in the last chunk of the item.                            *)
LEMMA StoredWithin ==
    ASSUME NEW ev, IsHeap(ev), NEW first \in 2..(Len(ev) + 1), NEW n \in Nodes,
           NEW l, IsLast(ev, first, l), ~Full(ev[l])
    PROVE  \E x \in Spots :
              StoredAt(ev, WithChunk(ev, l, [ev[l] EXCEPT !.content = Append(@, n)]), first, n, x)
<1> DEFINE N == Len(ev)
<1>1. N \in Nat /\ ev \in Seq(Chunks)
  BY HeapFacts DEF IsHeap
<1>2. l \in 1..N /\ l + 1 \in 2..(N + 1) /\ (l + 1) - 1 = l /\ EndOf(Chains(ev)[first]) = l + 1
      /\ ev[l].next = 0
  <2>1. PICK e \in 2..(N + 1) : e = EndOf(Chains(ev)[first]) /\ ev[e - 1].next = 0
    BY EndIs
  <2>2. l = e - 1
    BY <2>1 DEF IsLast
  <2>3. QED
    BY <1>1, <2>1, <2>2
<1>3. PICK c : c = ev[l].content
  OBVIOUS
<1>4. c \in Seq(Nodes) /\ Len(c) \in 1..EVENTS_PER_CHUNK /\ Len(c) \in Nat /\ Len(c) # EVENTS_PER_CHUNK
      /\ ev[l] \in Chunks
  BY <1>2, <1>3, HeapFacts DEF Full
<1>5. PICK z \in Nat \ {0} : z = Len(c)
  BY <1>4
<1>6. PICK c2 : c2 = Append(c, n)
  OBVIOUS
<1>7. c2 \in Seq(Nodes) /\ Len(c2) = z + 1 /\ (\A s \in 1..z : c2[s] = c[s]) /\ c2[z + 1] = n
  BY <1>4, <1>5, <1>6
<1>8. PICK chunk : chunk = [ev[l] EXCEPT !.content = Append(@, n)]
  OBVIOUS
<1>9. chunk \in Chunks /\ chunk.content = c2 /\ chunk.next = 0
  <2>1. ev[l] = [content |-> c, next |-> 0]
    BY <1>2, <1>3, <1>4 DEF Chunks
  <2>2. chunk = [ev[l] EXCEPT !.content = c2]
    BY <1>3, <1>6, <1>8
  <2>3. chunk = [content |-> c2, next |-> 0]
    BY <2>1, <2>2
  <2>4. QED
    BY <1>7, <2>3 DEF Chunks
<1>10. PICK ev2 : ev2 = WithChunk(ev, l, chunk)
  OBVIOUS
<1>11. /\ ev2 \in Seq(Chunks) /\ Len(ev2) = N /\ ev2[l] = chunk
       /\ \A k \in 1..N : k # l => ev2[k] = ev[k]
  <2>1. chunk \in Chunks /\ l \in 1..Len(ev)
    BY <1>2, <1>9
  <2>2. /\ WithChunk(ev, l, chunk) \in Seq(Chunks) /\ Len(WithChunk(ev, l, chunk)) = Len(ev)
        /\ WithChunk(ev, l, chunk)[l] = chunk
        /\ \A k \in 1..Len(ev) : k # l => WithChunk(ev, l, chunk)[k] = ev[k]
    BY <2>1, WithChunkIs
  <2>3. QED
    BY <1>10, <2>2
<1>12. PICK x : x = <<l + 1, z + 1>>
  OBVIOUS
<1>13. x \in Spots /\ x[1] = l + 1 /\ x[2] = z + 1
  BY <1>2, <1>12 DEF Spots
<1>14. IsHeap(ev2)
  <2>1. ASSUME NEW k \in 1..N
        PROVE  Len(ev2[k].content) \in 1..EVENTS_PER_CHUNK /\ k + ev2[k].next <= N
    <3>1. CASE k = l
      <4>1. Len(ev2[k].content) = z + 1 /\ ev2[k].next = 0
        BY <1>7, <1>9, <1>11, <3>1
      <4>2. z + 1 \in 1..EVENTS_PER_CHUNK
        BY <1>4, <1>5, ItemSizesAssumption
      <4>3. QED
        BY <1>1, <3>1, <4>1, <4>2
    <3>2. CASE k # l
      BY <1>11, <3>2 DEF IsHeap
    <3>3. QED
      BY <3>1, <3>2
  <2>2. QED
    BY <1>11, <2>1 DEF IsHeap
<1>15. \A k \in 2..(N + 1) : k - 1 \in 1..N /\ (k # l + 1 => k - 1 # l)
  BY <1>1, <1>2
<1>16. ChainOf(ev2, l + 1, Chains(ev2)) = Append(OwnSpots(ev, l + 1), x)
  <2>1. PICK own : own = OwnSpots(ev, l + 1)
    OBVIOUS
  <2>2. own \in Seq(Spots) /\ Len(own) = z /\ \A m \in 1..z : own[m] = <<l + 1, m>>
    BY <1>2, <1>3, <1>5, <2>1, OwnIsChain
  <2>3. PICK f : f = [s \in 1..(z + 1) |-> <<l + 1, s>>]
    OBVIOUS
  <2>4. ChainOf(ev2, l + 1, Chains(ev2)) = f
    BY <1>2, <1>7, <1>9, <1>11, <2>3 DEF ChainOf
  <2>5. f = Append(own, x)
    <3>1. PICK a : a = Append(own, x)
      OBVIOUS
    <3>2. a \in Seq(Spots) /\ Len(a) = z + 1 /\ (\A m \in 1..z : a[m] = own[m]) /\ a[z + 1] = x
      <4>1. own \in Seq(Spots) /\ Len(own) = z /\ x \in Spots
        BY <1>13, <2>2
      <4>2. QED
        BY ONLY <3>1, <4>1, AppendProperties
    <3>3. \A m \in 1..(z + 1) : a[m] = <<l + 1, m>>
      BY <1>12, <2>2, <3>2
    <3>4. a = [m \in 1..(z + 1) |-> a[m]]
      BY <3>2
    <3>5. a = f
      BY <2>3, <3>3, <3>4
    <3>6. QED
      BY <3>1, <3>5
  <2>6. QED
    BY <2>1, <2>4, <2>5
<1>17. GrownAt(ev, ev2, l + 1, x)
  <2>1. ASSUME NEW k \in 2..(N + 1), k # l + 1
        PROVE  ev2[k - 1] = ev[k - 1]
    BY <1>11, <1>15, <2>1
  <2>2. ev[(l + 1) - 1].next = 0
    BY <1>2
  <2>3. QED
    BY <1>1, <1>11, <1>13, <1>14, <1>16, <2>1, <2>2 DEF GrownAt
<1>18. first # 0 /\ ~(first <= 1)
  OBVIOUS
<1>19. EndFrom(ev, first) = l + 1 /\ BeginOf(ev, first) = first
       /\ ChainFrom(ev, first) = Chains(ev)[first]
  BY <1>2, <1>18 DEF EndFrom, BeginOf, ChainFrom
<1>20. Chains(ev2)[first] = Append(Chains(ev)[first], x)
  <2>1. \A k \in 2..(Len(ev) + 1) :
           Chains(ev2)[k] = IF EndOf(Chains(ev)[k]) = l + 1 THEN Append(Chains(ev)[k], x)
                            ELSE Chains(ev)[k]
    BY <1>17, ChainsGrow
  <2>2. QED
    BY <1>2, <2>1
<1>21. NodeIn(ev2, x) = n
  BY <1>2, <1>7, <1>9, <1>11, <1>13 DEF NodeIn
<1>22. ASSUME NEW k \in 2..(N + 1), NEW s \in 1..Len(ev[k - 1].content)
       PROVE  NodeIn(ev2, <<k, s>>) = NodeIn(ev, <<k, s>>)
  <2>1. CASE k = l + 1
    <3>1. k - 1 = l /\ s \in 1..z
      BY <1>2, <1>3, <1>5, <2>1
    <3>2. ev2[k - 1].content[s] = ev[k - 1].content[s]
      BY <1>3, <1>7, <1>9, <1>11, <3>1
    <3>3. QED
      BY <3>2 DEF NodeIn
  <2>2. CASE k # l + 1
    BY <1>11, <1>15, <2>2 DEF NodeIn
  <2>3. QED
    BY <2>1, <2>2
<1>23. StoredAt(ev, ev2, first, n, x)
  BY <1>11, <1>13, <1>17, <1>19, <1>20, <1>21, <1>22 DEF StoredAt
<1>24. QED
  BY <1>8, <1>10, <1>13, <1>23

(* Another chunk for the item.                                             *)
LEMMA StoredBeyond ==
    ASSUME NEW ev, IsHeap(ev), NEW first \in 2..(Len(ev) + 1), NEW n \in Nodes,
           NEW l, IsLast(ev, first, l), Len(ev) + 1 <= OFFSETS
    PROVE  \E x \in Spots :
              StoredAt(ev, Append(WithChunk(ev, l, [ev[l] EXCEPT !.next = Offset(l, Len(ev) + 1)]),
                                  NewChunk(n)), first, n, x)
<1> DEFINE N == Len(ev)
<1>1. N \in Nat /\ ev \in Seq(Chunks)
  BY HeapFacts DEF IsHeap
<1>2. l \in 1..N /\ l + 1 \in 2..(N + 1) /\ (l + 1) - 1 = l /\ EndOf(Chains(ev)[first]) = l + 1
      /\ ev[l].next = 0
  <2>1. PICK e \in 2..(N + 1) : e = EndOf(Chains(ev)[first]) /\ ev[e - 1].next = 0
    BY EndIs
  <2>2. l = e - 1
    BY <2>1 DEF IsLast
  <2>3. QED
    BY <1>1, <2>1, <2>2
<1>3. PICK d : d = Offset(l, N + 1)
  OBVIOUS
<1>4. d = (N + 1) - l /\ d \in Nat \ {0} /\ l + d = N + 1
  <2>1. PICK y \in Nat \ {0} : y = (N + 1) - l
    BY <1>1, <1>2
  <2>2. y < OFFSETS /\ OFFSETS \in Nat \ {0}
    BY <1>1, <1>2, <2>1, ItemSizesAssumption
  <2>3. y % OFFSETS = y
    BY <2>2
  <2>4. QED
    BY <1>1, <1>2, <1>3, <2>1, <2>3 DEF Offset
<1>5. PICK c : c = ev[l].content
  OBVIOUS
<1>6. c \in Seq(Nodes) /\ Len(c) \in 1..EVENTS_PER_CHUNK /\ ev[l] \in Chunks
  BY <1>2, <1>5, HeapFacts
<1>7. PICK chunk : chunk = [ev[l] EXCEPT !.next = d]
  OBVIOUS
<1>8. chunk \in Chunks /\ chunk.content = c /\ chunk.next = d
  <2>1. ev[l] = [content |-> c, next |-> 0]
    BY <1>2, <1>5, <1>6 DEF Chunks
  <2>2. chunk = [content |-> c, next |-> d]
    BY <1>7, <2>1
  <2>3. QED
    BY <1>4, <1>6, <2>2 DEF Chunks
<1>9. PICK ev1 : ev1 = WithChunk(ev, l, chunk)
  OBVIOUS
<1>10. /\ ev1 \in Seq(Chunks) /\ Len(ev1) = N /\ ev1[l] = chunk
       /\ \A k \in 1..N : k # l => ev1[k] = ev[k]
  BY <1>2, <1>8, <1>9, WithChunkIs
<1>11. PICK ev2 : ev2 = Append(ev1, NewChunk(n))
  OBVIOUS
<1>12. /\ ev2 \in Seq(Chunks) /\ Len(ev2) = N + 1
       /\ \A k \in 1..N : ev2[k] = ev1[k]
       /\ ev2[N + 1] = NewChunk(n)
  <2>1. ev1 \in Seq(Chunks) /\ Len(ev1) = N /\ NewChunk(n) \in Chunks
    BY <1>10, NewChunkIs
  <2>2. QED
    BY ONLY <1>11, <2>1, AppendProperties
<1>13. ev2[l] = chunk /\ \A k \in 1..N : k # l => ev2[k] = ev[k]
  BY <1>2, <1>10, <1>12
<1>14. PICK x : x = <<N + 2, 1>>
  OBVIOUS
<1>15. x \in Spots /\ x[1] = N + 2 /\ x[2] = 1
  BY <1>1, <1>14 DEF Spots
<1>16. IsHeap(ev2)
  <2>1. ASSUME NEW k \in 1..(N + 1)
        PROVE  Len(ev2[k].content) \in 1..EVENTS_PER_CHUNK /\ k + ev2[k].next <= N + 1
    <3>1. CASE k = N + 1
      <4>1. Len(ev2[k].content) = 1 /\ ev2[k].next = 0
        BY <1>12, <3>1, NewChunkIs
      <4>2. QED
        BY <1>1, <3>1, <4>1, ItemSizesAssumption
    <3>2. CASE k = l
      BY <1>1, <1>4, <1>5, <1>6, <1>8, <1>13, <3>2
    <3>3. CASE k # N + 1 /\ k # l
      <4>1. k \in 1..N
        BY <1>1, <3>3
      <4>2. ev2[k] = ev[k] /\ Len(ev[k].content) \in 1..EVENTS_PER_CHUNK /\ k + ev[k].next <= N
            /\ ev[k].next \in Nat
        BY <1>13, <3>3, <4>1, HeapFacts DEF IsHeap
      <4>3. QED
        BY <1>1, <4>1, <4>2
    <3>4. QED
      BY <3>1, <3>2, <3>3
  <2>2. QED
    BY <1>12, <2>1 DEF IsHeap
<1>17. \A k \in 2..(N + 1) : k - 1 \in 1..N /\ (k # l + 1 => k - 1 # l)
  BY <1>1, <1>2
<1>18. Chains(ev2)[N + 2] = <<x>>
  <2>1. N + 2 \in 2..(Len(ev2) + 1) /\ (N + 2) - 1 = N + 1
    BY <1>1, <1>12
  <2>2. ev2[(N + 2) - 1].next = 0 /\ Len(ev2[(N + 2) - 1].content) = 1
    BY <1>12, <2>1, NewChunkIs
  <2>3. Chains(ev2)[N + 2] = [s \in 1..1 |-> <<N + 2, s>>]
    BY <1>16, <2>1, <2>2, ChainsUnfold DEF ChainOf
  <2>4. [s \in 1..1 |-> <<N + 2, s>>] = <<<<N + 2, 1>>>>
    OBVIOUS
  <2>5. QED
    BY <1>14, <2>3, <2>4
<1>19. ChainOf(ev2, l + 1, Chains(ev2)) = Append(OwnSpots(ev, l + 1), x)
  <2>1. PICK own : own = OwnSpots(ev, l + 1)
    OBVIOUS
  <2>2. own \in Seq(Spots)
    BY <1>2, <2>1, OwnIsChain
  <2>3. (l + 1) + d = N + 2 /\ d # 0
    BY <1>1, <1>2, <1>4
  <2>4. ChainOf(ev2, l + 1, Chains(ev2)) = own \o Chains(ev2)[N + 2]
    BY <1>2, <1>5, <1>8, <1>13, <2>1, <2>3 DEF ChainOf, OwnSpots
  <2>5. own \o <<x>> = Append(own, x)
    BY <1>15, <2>2, AppendIsConcat
  <2>6. QED
    BY <1>18, <2>1, <2>4, <2>5
<1>20. GrownAt(ev, ev2, l + 1, x)
  <2>1. ASSUME NEW k \in 2..(N + 1), k # l + 1
        PROVE  ev2[k - 1] = ev[k - 1]
    BY <1>13, <1>17, <2>1
  <2>2. ev[(l + 1) - 1].next = 0
    BY <1>2
  <2>3. N <= N + 1
    BY <1>1
  <2>4. QED
    BY <1>1, <1>12, <1>15, <1>16, <1>19, <2>1, <2>2, <2>3 DEF GrownAt
<1>21. first # 0 /\ ~(first <= 1) /\ first \in 2..(Len(ev2) + 1)
  BY <1>1, <1>12
<1>22. EndFrom(ev, first) = l + 1 /\ BeginOf(ev, first) = first
       /\ ChainFrom(ev, first) = Chains(ev)[first]
  BY <1>2, <1>21 DEF EndFrom, BeginOf, ChainFrom
<1>23. Chains(ev2)[first] = Append(Chains(ev)[first], x)
  <2>1. \A k \in 2..(Len(ev) + 1) :
           Chains(ev2)[k] = IF EndOf(Chains(ev)[k]) = l + 1 THEN Append(Chains(ev)[k], x)
                            ELSE Chains(ev)[k]
    BY <1>20, ChainsGrow
  <2>2. QED
    BY <1>2, <2>1
<1>24. NodeIn(ev2, x) = n
  <2>1. (N + 2) - 1 = N + 1
    BY <1>1
  <2>2. QED
    BY <1>12, <1>15, <2>1, NewChunkIs DEF NodeIn
<1>25. ASSUME NEW k \in 2..(N + 1), NEW s \in 1..Len(ev[k - 1].content)
       PROVE  NodeIn(ev2, <<k, s>>) = NodeIn(ev, <<k, s>>)
  <2>1. CASE k = l + 1
    BY <1>2, <1>5, <1>8, <1>13, <2>1 DEF NodeIn
  <2>2. CASE k # l + 1
    BY <1>13, <1>17, <2>2 DEF NodeIn
  <2>3. QED
    BY <2>1, <2>2
<1>26. StoredAt(ev, ev2, first, n, x)
  BY <1>15, <1>20, <1>21, <1>22, <1>23, <1>24, <1>25 DEF StoredAt
<1>27. QED
  BY <1>3, <1>7, <1>9, <1>11, <1>15, <1>26

LEMMA StoredIs ==
    ASSUME NEW ev, IsHeap(ev), NEW first \in {0} \cup 2..(Len(ev) + 1), NEW n \in Nodes,
           Len(StoredIn(ev, first, n)) <= OFFSETS
    PROVE  \E x \in Spots : StoredAt(ev, StoredIn(ev, first, n), first, n, x)
<1>1. CASE first = 0
  BY <1>1, StoredFirst DEF StoredIn
<1>2. CASE first # 0
  <2>1. first \in 2..(Len(ev) + 1)
    BY <1>2
  <2>2. PICK l : IsLast(ev, first, l)
    BY DEF IsLast
  <2>3. StoredIn(ev, first, n) =
            IF Full(ev[l])
            THEN Append(WithChunk(ev, l, [ev[l] EXCEPT !.next = Offset(l, Len(ev) + 1)]),
                        NewChunk(n))
            ELSE WithChunk(ev, l, [ev[l] EXCEPT !.content = Append(@, n)])
    BY <1>2, <2>2 DEF StoredIn, IsLast
  <2>4. CASE Full(ev[l])
    <3>1. PICK chunk : chunk = [ev[l] EXCEPT !.next = Offset(l, Len(ev) + 1)]
      OBVIOUS
    <3>2. StoredIn(ev, first, n) = Append(WithChunk(ev, l, chunk), NewChunk(n))
      BY <2>3, <2>4, <3>1
    <3>3. l \in 1..Len(ev)
      <4>1. PICK e \in 2..(Len(ev) + 1) : e = EndOf(Chains(ev)[first])
        BY <2>1, EndIs
      <4>2. l = e - 1
        BY <2>2, <4>1 DEF IsLast
      <4>3. QED
        BY <4>1, <4>2, HeapFacts
    <3>4. chunk \in Chunks
      <4>1. ev[l] \in Chunks
        BY <3>3, HeapFacts
      <4>2. Offset(l, Len(ev) + 1) \in Nat
        <5>1. OFFSETS \in Nat \ {0} /\ (Len(ev) + 1) - l \in Int
          BY <3>3, HeapFacts, ItemSizesAssumption
        <5>2. QED
          BY <5>1 DEF Offset
      <4>3. QED
        BY <3>1, <4>1, <4>2 DEF Chunks
    <3>5. WithChunk(ev, l, chunk) \in Seq(Chunks) /\ Len(WithChunk(ev, l, chunk)) = Len(ev)
      BY <3>3, <3>4, WithChunkIs
    <3>6. Len(StoredIn(ev, first, n)) = Len(ev) + 1
      BY <3>2, <3>5, NewChunkIs
    <3>7. Len(ev) + 1 <= OFFSETS
      BY <3>6
    <3>8. QED
      BY <2>1, <2>2, <2>3, <2>4, <3>7, StoredBeyond
  <2>5. CASE ~Full(ev[l])
    BY <2>1, <2>2, <2>3, <2>5, StoredWithin
  <2>6. QED
    BY <2>4, <2>5
<1>3. QED
  BY <1>1, <1>2

(* The chains of the items are apart.                                      *)
Apart(ev, iv) ==
    \A i, j \in Items : i # j =>
        \A m \in DOMAIN ChainFrom(ev, iv[i]), n \in DOMAIN ChainFrom(ev, iv[j]) :
            ChainFrom(ev, iv[i])[m][1] # ChainFrom(ev, iv[j])[n][1]

ItemsOK(ev, iv) ==
    /\ IsHeap(ev)
    /\ iv \in [Items -> Nat]
    /\ \A i \in Items : iv[i] \in 1..(Len(ev) + 1)
    /\ Apart(ev, iv)

(* The chain of an item, or none yet.                                      *)
Begins(iv, i, first) == first \in {0, iv[i]} /\ first # 1
Begun(ev, iv, i, first, iv2) == iv2 = [iv EXCEPT ![i] = BeginOf(ev, first)]

(* The chain of an item, if it has one.                                    *)
LEMMA ChainFromIs ==
    ASSUME NEW ev, IsHeap(ev), NEW first \in 0..(Len(ev) + 1)
    PROVE  /\ ChainFrom(ev, first) \in Seq(Spots) /\ Len(ChainFrom(ev, first)) \in Nat
           /\ DOMAIN ChainFrom(ev, first) = 1..Len(ChainFrom(ev, first))
           /\ first > 1 => IsChain(ev, first, ChainFrom(ev, first))
           /\ first <= 1 => ChainFrom(ev, first) = <<>>
           /\ \A m, n \in DOMAIN ChainFrom(ev, first) :
                 ChainFrom(ev, first)[m] = ChainFrom(ev, first)[n] => m = n
           /\ \A m \in DOMAIN ChainFrom(ev, first) :
                 /\ ChainFrom(ev, first)[m] =
                        <<ChainFrom(ev, first)[m][1], ChainFrom(ev, first)[m][2]>>
                 /\ ChainFrom(ev, first)[m][1] \in 2..(Len(ev) + 1)
                 /\ ChainFrom(ev, first)[m][2] \in 1..Len(ev[ChainFrom(ev, first)[m][1] - 1].content)
<1>1. PICK ps : ps = ChainFrom(ev, first)
  OBVIOUS
<1>2. CASE first <= 1
  <2>1. ps = <<>>
    BY <1>1, <1>2 DEF ChainFrom
  <2>2. ps \in Seq(Spots) /\ Len(ps) \in Nat /\ DOMAIN ps = 1..Len(ps) /\ DOMAIN ps = {}
    BY <2>1
  <2>3. QED
    BY <1>1, <1>2, <2>1, <2>2
<1>3. CASE first > 1
  <2>1. first \in 2..(Len(ev) + 1) /\ ~(first <= 1)
    BY <1>3, HeapFacts
  <2>2. IsChain(ev, first, ps)
    BY <1>1, <2>1, ChainsAreChains DEF ChainFrom
  <2>3. ps \in Seq(Spots) /\ Len(ps) \in Nat /\ DOMAIN ps = 1..Len(ps)
    BY <2>2 DEF IsChain
  <2>4. \A m \in 1..Len(ps) : ps[m] \in Spots
    BY <2>3
  <2>5. ASSUME NEW m \in 1..Len(ps)
        PROVE  /\ ps[m] = <<ps[m][1], ps[m][2]>> /\ ps[m][1] \in 2..(Len(ev) + 1)
               /\ ps[m][2] \in 1..Len(ev[ps[m][1] - 1].content)
    <3>1. ps[m] = <<ps[m][1], ps[m][2]>>
      BY <2>4 DEF Spots
    <3>2. /\ ps[m][1] \in first..(Len(ev) + 1)
          /\ ps[m][2] \in 1..Len(ev[ps[m][1] - 1].content)
      BY <2>2 DEF IsChain
    <3>3. \A y \in first..(Len(ev) + 1) : y \in 2..(Len(ev) + 1)
      BY <2>1
    <3>4. QED
      BY <3>1, <3>2, <3>3
  <2>6. \A m, n \in 1..Len(ps) : ps[m] = ps[n] => m = n
    BY <2>2 DEF IsChain
  <2>7. QED
    BY <1>1, <2>1, <2>2, <2>3, <2>5, <2>6
<1>4. QED
  BY <1>2, <1>3

LEMMA NodesFromIs ==
    ASSUME NEW ev, IsHeap(ev), NEW first \in 0..(Len(ev) + 1)
    PROVE  /\ NodesFrom(ev, first) \in Seq(Nodes)
           /\ Len(NodesFrom(ev, first)) = Len(ChainFrom(ev, first))
           /\ Len(NodesFrom(ev, first)) \in Nat
           /\ DOMAIN NodesFrom(ev, first) = 1..Len(NodesFrom(ev, first))
           /\ DOMAIN NodesFrom(ev, first) = DOMAIN ChainFrom(ev, first)
           /\ \A m \in DOMAIN NodesFrom(ev, first) :
                 NodesFrom(ev, first)[m] = NodeIn(ev, ChainFrom(ev, first)[m])
<1>1. PICK ps : ps = ChainFrom(ev, first)
  OBVIOUS
<1>2. PICK l \in Nat : l = Len(ps) /\ DOMAIN ps = 1..l
  BY <1>1, ChainFromIs
<1>3. PICK f : f = [k \in 1..l |-> NodeIn(ev, ps[k])]
  OBVIOUS
<1>4. NodesFrom(ev, first) = f
  BY <1>1, <1>2, <1>3 DEF NodesFrom
<1>5. ASSUME NEW k \in 1..l PROVE NodeIn(ev, ps[k]) \in Nodes
  <2>1. PICK c \in 2..(Len(ev) + 1) : c = ps[k][1] /\ ps[k][2] \in 1..Len(ev[c - 1].content)
    BY <1>1, <1>2, ChainFromIs
  <2>2. c - 1 \in 1..Len(ev) /\ ev[c - 1].content \in Seq(Nodes)
    BY <2>1, HeapFacts
  <2>3. PICK s \in 1..Len(ev[c - 1].content) : s = ps[k][2]
    BY <2>1
  <2>4. ev[c - 1].content[s] \in Nodes
    BY <2>2, <2>3, ElementOfSeq
  <2>5. QED
    BY <2>1, <2>3, <2>4 DEF NodeIn
<1>6. f \in [1..l -> Nodes]
  BY <1>3, <1>5
<1>7. f \in Seq(Nodes) /\ Len(f) = l /\ DOMAIN f = 1..l
  BY <1>6
<1>8. QED
  BY <1>1, <1>2, <1>3, <1>4, <1>7

(* A chain that does not end where an entry was stored is as before.       *)
LEMMA ChainsKept ==
    ASSUME NEW ev, NEW ev2, NEW L, NEW p, GrownAt(ev, ev2, L, p),
           NEW first \in 0..(Len(ev) + 1),
           first > 1 => EndOf(ChainFrom(ev, first)) # L
    PROVE  ChainFrom(ev2, first) = ChainFrom(ev, first) /\ first \in 0..(Len(ev2) + 1)
<1>1. IsHeap(ev) /\ IsHeap(ev2) /\ Len(ev) \in Nat /\ Len(ev2) \in Nat /\ Len(ev) <= Len(ev2)
  BY HeapFacts DEF GrownAt
<1>2. first \in 0..(Len(ev2) + 1)
  BY <1>1
<1>3. CASE first <= 1
  BY <1>2, <1>3 DEF ChainFrom
<1>4. CASE first > 1
  <2>1. first \in 2..(Len(ev) + 1) /\ ~(first <= 1)
    BY <1>1, <1>4
  <2>2. \A k \in 2..(Len(ev) + 1) :
           Chains(ev2)[k] = IF EndOf(Chains(ev)[k]) = L THEN Append(Chains(ev)[k], p)
                            ELSE Chains(ev)[k]
    BY ChainsGrow
  <2>3. EndOf(Chains(ev)[first]) # L
    BY <1>4, <2>1 DEF ChainFrom
  <2>4. QED
    BY <1>2, <2>1, <2>2, <2>3 DEF ChainFrom
<1>5. QED
  BY <1>3, <1>4

LEMMA StoredItems ==
    ASSUME NEW ev, NEW iv, ItemsOK(ev, iv), NEW i \in Items, NEW first, Begins(iv, i, first),
           NEW n \in Nodes, NEW x \in Spots, NEW ev2, StoredAt(ev, ev2, first, n, x),
           NEW iv2, Begun(ev, iv, i, first, iv2)
    PROVE  /\ ItemsOK(ev2, iv2)
           /\ NodesFrom(ev2, iv2[i]) = Append(NodesFrom(ev, first), n)
           /\ \A j \in Items : j # i => NodesFrom(ev2, iv2[j]) = NodesFrom(ev, iv[j])
<1> DEFINE N == Len(ev)
           L == EndFrom(ev, first)
<1>1. /\ IsHeap(ev) /\ N \in Nat /\ iv \in [Items -> Nat]
      /\ \A j \in Items : iv[j] \in 1..(N + 1) /\ iv[j] \in 0..(N + 1)
      /\ Apart(ev, iv)
  BY HeapFacts DEF ItemsOK
<1>2. GrownAt(ev, ev2, L, x) /\ IsHeap(ev2) /\ N <= Len(ev2) /\ Len(ev2) \in Nat
  BY HeapFacts DEF StoredAt, GrownAt
<1>3. PICK b : b = BeginOf(ev, first) /\ b \in 2..(Len(ev2) + 1)
  BY DEF StoredAt
<1>4. /\ iv2[i] = b /\ \A j \in Items : j # i => iv2[j] = iv[j]
      /\ iv2 = [iv EXCEPT ![i] = b]
  BY <1>1, <1>3 DEF Begun
<1>5. iv2 \in [Items -> Nat] /\ \A j \in Items : iv2[j] \in 1..(Len(ev2) + 1)
  <2>1. b \in Nat /\ b \in 1..(Len(ev2) + 1)
    BY <1>2, <1>3
  <2>2. \A j \in Items : iv[j] \in 1..(Len(ev2) + 1)
    BY <1>1, <1>2
  <2>3. QED
    BY <1>1, <1>3, <1>4, <2>1, <2>2
<1>6. first \in 0..(N + 1) /\ (first # 0 => first = iv[i] /\ first > 1 /\ first \in 2..(N + 1))
  BY <1>1 DEF Begins
<1>7. PICK ps : ps = ChainFrom(ev, first)
  OBVIOUS
<1>8. ps \in Seq(Spots) /\ Len(ps) \in Nat /\ DOMAIN ps = 1..Len(ps)
  BY <1>1, <1>6, <1>7, ChainFromIs
<1>9. PICK qs : qs = ChainFrom(ev2, b)
  OBVIOUS
<1>10. qs = Append(ps, x)
  <2>1. ~(b <= 1)
    BY <1>2, <1>3
  <2>2. QED
    BY <1>3, <1>7, <1>9, <2>1 DEF StoredAt, ChainFrom
<1>11. /\ qs \in Seq(Spots) /\ Len(qs) = Len(ps) + 1 /\ DOMAIN qs = 1..(Len(ps) + 1)
       /\ (\A m \in 1..Len(ps) : qs[m] = ps[m]) /\ qs[Len(ps) + 1] = x
  BY <1>8, <1>10
<1>12. first # 0 => \E m \in DOMAIN ps : ps[m][1] = L
  <2>1. SUFFICES ASSUME first # 0 PROVE \E m \in DOMAIN ps : ps[m][1] = L
    OBVIOUS
  <2>2. ps = Chains(ev)[first] /\ L = EndOf(ps)
    BY <1>6, <1>7, <2>1 DEF ChainFrom, EndFrom
  <2>3. Len(ps) \in Nat \ {0}
    BY <1>1, <1>6, <2>1, <2>2, EndIs
  <2>4. Len(ps) \in DOMAIN ps
    BY <1>8, <2>3
  <2>5. QED
    BY <2>2, <2>4 DEF EndOf
<1>13. ASSUME NEW j \in Items, j # i, NEW m \in DOMAIN ChainFrom(ev, iv[j])
       PROVE  /\ ChainFrom(ev, iv[j])[m][1] # L /\ ChainFrom(ev, iv[j])[m][1] # N + 2
              /\ \A z \in DOMAIN ps : ChainFrom(ev, iv[j])[m][1] # ps[z][1]
  <2>1. PICK c : c = ChainFrom(ev, iv[j])[m][1]
    OBVIOUS
  <2>2. c \in 2..(N + 1)
    BY <1>1, <2>1, ChainFromIs
  <2>3. ASSUME NEW z \in DOMAIN ps PROVE c # ps[z][1]
    <3>1. CASE first = 0
      <4>1. ps = <<>>
        BY <1>7, <3>1 DEF ChainFrom
      <4>2. DOMAIN ps = {}
        BY <4>1
      <4>3. QED
        BY <2>3, <4>2
    <3>2. CASE first # 0
      <4>1. ps = ChainFrom(ev, iv[i])
        BY <1>6, <1>7, <3>2
      <4>2. QED
        BY <1>1, <1>13, <2>1, <2>3, <4>1 DEF Apart
    <3>3. QED
      BY <3>1, <3>2
  <2>4. c # L
    <3>1. CASE first = 0
      BY <1>1, <2>2, <3>1 DEF EndFrom
    <3>2. CASE first # 0
      BY <1>12, <2>3, <3>2
    <3>3. QED
      BY <3>1, <3>2
  <2>5. c # N + 2
    BY <1>1, <2>2
  <2>6. QED
    BY <2>1, <2>3, <2>4, <2>5
<1>14. ASSUME NEW j \in Items, j # i
       PROVE  ChainFrom(ev2, iv2[j]) = ChainFrom(ev, iv[j])
  <2>1. iv[j] \in 0..(N + 1) /\ iv2[j] = iv[j]
    BY <1>1, <1>4, <1>14
  <2>2. ASSUME iv[j] > 1 PROVE EndOf(ChainFrom(ev, iv[j])) # L
    <3>1. IsChain(ev, iv[j], ChainFrom(ev, iv[j]))
      BY <1>1, <2>1, <2>2, ChainFromIs
    <3>2. PICK cs : cs = ChainFrom(ev, iv[j])
      OBVIOUS
    <3>3. Len(cs) \in DOMAIN cs
      BY <3>1, <3>2 DEF IsChain
    <3>4. cs[Len(cs)][1] # L
      BY <1>13, <1>14, <3>2, <3>3
    <3>5. QED
      BY <3>2, <3>4 DEF EndOf
  <2>3. QED
    BY <1>2, <2>1, <2>2, ChainsKept
<1>15. ASSUME NEW y, y = <<y[1], y[2]>>, y[1] \in 2..(N + 1), y[2] \in 1..Len(ev[y[1] - 1].content)
       PROVE  NodeIn(ev2, y) = NodeIn(ev, y)
  <2>1. NodeIn(ev2, <<y[1], y[2]>>) = NodeIn(ev, <<y[1], y[2]>>)
    BY <1>15 DEF StoredAt
  <2>2. QED
    BY <1>15, <2>1
<1>16. ASSUME NEW f \in 0..(N + 1), NEW m \in DOMAIN ChainFrom(ev, f)
       PROVE  NodeIn(ev2, ChainFrom(ev, f)[m]) = NodeIn(ev, ChainFrom(ev, f)[m])
  <2>1. PICK y : y = ChainFrom(ev, f)[m]
    OBVIOUS
  <2>2. y = <<y[1], y[2]>> /\ y[1] \in 2..(N + 1) /\ y[2] \in 1..Len(ev[y[1] - 1].content)
    BY <1>1, <2>1, ChainFromIs
  <2>3. QED
    BY <1>15, <2>1, <2>2
<1>17. ASSUME NEW j \in Items, j # i
       PROVE  NodesFrom(ev2, iv2[j]) = NodesFrom(ev, iv[j])
  <2>1. iv[j] \in 0..(N + 1)
    BY <1>1
  <2>2. \A m \in DOMAIN ChainFrom(ev, iv[j]) :
           NodeIn(ev2, ChainFrom(ev, iv[j])[m]) = NodeIn(ev, ChainFrom(ev, iv[j])[m])
    BY <1>16, <2>1
  <2>3. ChainFrom(ev2, iv2[j]) = ChainFrom(ev, iv[j])
    BY <1>14, <1>17
  <2>4. QED
    BY <2>2, <2>3 DEF NodesFrom
<1>18. NodesFrom(ev2, iv2[i]) = Append(NodesFrom(ev, first), n)
  <2>1. PICK es : es = NodesFrom(ev, first)
    OBVIOUS
  <2>2. es \in Seq(Nodes) /\ Len(es) = Len(ps) /\ \A m \in 1..Len(ps) : es[m] = NodeIn(ev, ps[m])
    <3>1. es \in Seq(Nodes) /\ Len(es) = Len(ps) /\ DOMAIN es = DOMAIN ps
          /\ \A m \in DOMAIN es : es[m] = NodeIn(ev, ps[m])
      BY <1>1, <1>6, <1>7, <2>1, NodesFromIs
    <3>2. QED
      BY <1>8, <3>1
  <2>3. PICK fs : fs = Append(es, n)
    OBVIOUS
  <2>4. /\ fs \in Seq(Nodes) /\ Len(fs) = Len(ps) + 1
        /\ (\A m \in 1..Len(ps) : fs[m] = es[m]) /\ fs[Len(ps) + 1] = n
    BY <2>2, <2>3
  <2>5. ASSUME NEW m \in 1..(Len(ps) + 1) PROVE NodeIn(ev2, qs[m]) = fs[m]
    <3>1. CASE m = Len(ps) + 1
      BY <1>11, <2>4, <3>1 DEF StoredAt
    <3>2. CASE m # Len(ps) + 1
      <4>1. m \in 1..Len(ps)
        BY <1>8, <3>2
      <4>2. NodeIn(ev2, ps[m]) = NodeIn(ev, ps[m])
        BY <1>6, <1>7, <1>8, <1>16, <4>1
      <4>3. QED
        BY <1>11, <2>2, <2>4, <4>1, <4>2
    <3>3. QED
      BY <3>1, <3>2
  <2>6. NodesFrom(ev2, b) = [m \in 1..(Len(ps) + 1) |-> NodeIn(ev2, qs[m])]
    BY <1>9, <1>11 DEF NodesFrom
  <2>7. fs = [m \in 1..(Len(ps) + 1) |-> fs[m]]
    BY <2>4
  <2>8. NodesFrom(ev2, b) = fs
    BY <2>5, <2>6, <2>7
  <2>9. QED
    BY <1>4, <2>1, <2>3, <2>8
<1>19. Apart(ev2, iv2)
  <2>1. ASSUME NEW j \in Items, j # i, NEW m \in DOMAIN ChainFrom(ev2, iv2[j]),
               NEW z \in DOMAIN ChainFrom(ev2, iv2[i])
        PROVE  ChainFrom(ev2, iv2[j])[m][1] # ChainFrom(ev2, iv2[i])[z][1]
    <3>1. ChainFrom(ev2, iv2[j]) = ChainFrom(ev, iv[j]) /\ ChainFrom(ev2, iv2[i]) = qs
      BY <1>4, <1>9, <1>14, <2>1
    <3>2. PICK c : c = ChainFrom(ev, iv[j])[m][1]
      OBVIOUS
    <3>3. c # L /\ c # N + 2 /\ \A y \in DOMAIN ps : c # ps[y][1]
      BY <1>13, <2>1, <3>1, <3>2
    <3>4. z \in 1..(Len(ps) + 1)
      BY <1>11, <2>1, <3>1
    <3>5. CASE z = Len(ps) + 1
      <4>1. qs[z] = x /\ x[1] \in {L, N + 2}
        BY <1>11, <3>5 DEF StoredAt
      <4>2. QED
        BY <3>1, <3>2, <3>3, <4>1
    <3>6. CASE z # Len(ps) + 1
      <4>1. z \in DOMAIN ps /\ qs[z] = ps[z]
        BY <1>8, <1>11, <3>4, <3>6
      <4>2. QED
        BY <3>1, <3>2, <3>3, <4>1
    <3>7. QED
      BY <3>5, <3>6
  <2>2. ASSUME NEW j \in Items, NEW k \in Items, j # k,
               NEW m \in DOMAIN ChainFrom(ev2, iv2[j]), NEW z \in DOMAIN ChainFrom(ev2, iv2[k])
        PROVE  ChainFrom(ev2, iv2[j])[m][1] # ChainFrom(ev2, iv2[k])[z][1]
    <3>1. CASE k = i
      BY <2>1, <2>2, <3>1
    <3>2. CASE j = i
      BY <2>1, <2>2, <3>2
    <3>3. CASE j # i /\ k # i
      BY <1>1, <1>14, <2>2, <3>3 DEF Apart
    <3>4. QED
      BY <3>1, <3>2, <3>3
  <2>3. QED
    BY <2>2 DEF Apart
<1>20. QED
  BY <1>2, <1>5, <1>17, <1>18, <1>19 DEF ItemsOK

-----------------------------------------------------------------------------
(* Other nodes in the same places.                                         *)

ReNoded(ev, f) ==
    [k \in DOMAIN ev |->
        [ev[k] EXCEPT !.content = [s \in DOMAIN ev[k].content |-> f[<<k + 1, s>>]]]]

LEMMA ReNodedIs ==
    ASSUME NEW ev, IsHeap(ev), NEW f,
           \A k \in 2..(Len(ev) + 1) : \A s \in 1..Len(ev[k - 1].content) : f[<<k, s>>] \in Nodes
    PROVE  /\ IsHeap(ReNoded(ev, f)) /\ Len(ReNoded(ev, f)) = Len(ev)
           /\ \A k \in 1..Len(ev) :
                 /\ Len(ReNoded(ev, f)[k].content) = Len(ev[k].content)
                 /\ ReNoded(ev, f)[k].next = ev[k].next
           /\ \A k \in 2..(Len(ev) + 1) : \A s \in 1..Len(ev[k - 1].content) :
                 NodeIn(ReNoded(ev, f), <<k, s>>) = f[<<k, s>>]
<1>1. PICK n \in Nat : n = Len(ev) /\ DOMAIN ev = 1..n
  BY HeapFacts
<1>2. PICK ev2 : ev2 = [k \in 1..n |->
        [ev[k] EXCEPT !.content = [s \in DOMAIN ev[k].content |-> f[<<k + 1, s>>]]]]
  OBVIOUS
<1>3. ReNoded(ev, f) = ev2
  BY <1>1, <1>2 DEF ReNoded
<1>4. ASSUME NEW k \in 1..n
      PROVE  /\ ev2[k] \in Chunks /\ ev2[k].next = ev[k].next
             /\ Len(ev2[k].content) = Len(ev[k].content)
             /\ \A s \in 1..Len(ev[k].content) : ev2[k].content[s] = f[<<k + 1, s>>]
  <2>1. PICK l \in Nat : l = Len(ev[k].content) /\ DOMAIN ev[k].content = 1..l
    <3>1. ev[k].content \in Seq(Nodes)
      BY <1>1, HeapFacts
    <3>2. Len(ev[k].content) \in Nat /\ DOMAIN ev[k].content = 1..Len(ev[k].content)
      BY <3>1
    <3>3. QED
      BY <3>2
  <2>2. PICK c : c = [s \in 1..l |-> f[<<k + 1, s>>]]
    OBVIOUS
  <2>3. k + 1 \in 2..(n + 1) /\ (k + 1) - 1 = k
    BY <1>1
  <2>4. \A s \in 1..l : f[<<k + 1, s>>] \in Nodes
    BY <1>1, <2>1, <2>3
  <2>5. c \in [1..l -> Nodes]
    BY <2>2, <2>4
  <2>6. c \in Seq(Nodes) /\ Len(c) = l
    BY <2>5
  <2>7. ev2[k] = [ev[k] EXCEPT !.content = c]
    BY <1>2, <2>1, <2>2
  <2>8. ev[k] \in Chunks
    BY <1>1, HeapFacts
  <2>9. ev2[k] = [content |-> c, next |-> ev[k].next] /\ ev[k].next \in Nat
    BY <2>7, <2>8 DEF Chunks
  <2>10. QED
    BY <2>1, <2>2, <2>6, <2>9 DEF Chunks
<1>5. ev2 \in [1..n -> Chunks]
  BY <1>2, <1>4
<1>6. ev2 \in Seq(Chunks) /\ Len(ev2) = n
  BY <1>5
<1>7. IsHeap(ev2)
  <2>1. \A k \in 1..n : Len(ev[k].content) \in 1..EVENTS_PER_CHUNK /\ k + ev[k].next <= n
    BY <1>1 DEF IsHeap
  <2>2. QED
    BY <1>4, <1>6, <2>1 DEF IsHeap
<1>8. ASSUME NEW k \in 2..(n + 1), NEW s \in 1..Len(ev[k - 1].content)
      PROVE  NodeIn(ev2, <<k, s>>) = f[<<k, s>>]
  <2>1. k - 1 \in 1..n /\ (k - 1) + 1 = k
    BY <1>1
  <2>2. QED
    BY <1>4, <2>1 DEF NodeIn
<1>9. QED
  BY <1>1, <1>3, <1>4, <1>6, <1>7, <1>8

LEMMA ReNodedItems ==
    ASSUME NEW ev, NEW iv, ItemsOK(ev, iv), NEW f,
           \A k \in 2..(Len(ev) + 1) : \A s \in 1..Len(ev[k - 1].content) : f[<<k, s>>] \in Nodes,
           NEW ev2, ev2 = ReNoded(ev, f)
    PROVE  /\ ItemsOK(ev2, iv) /\ Len(ev2) = Len(ev)
           /\ \A first \in 0..(Len(ev) + 1) :
                 /\ ChainFrom(ev2, first) = ChainFrom(ev, first)
                 /\ DOMAIN NodesFrom(ev2, first) = DOMAIN NodesFrom(ev, first)
                 /\ \A m \in DOMAIN NodesFrom(ev, first) :
                       NodesFrom(ev2, first)[m] = f[ChainFrom(ev, first)[m]]
<1>1. IsHeap(ev) /\ Len(ev) \in Nat
  BY HeapFacts DEF ItemsOK
<1>2. /\ IsHeap(ev2) /\ Len(ev2) = Len(ev)
      /\ \A k \in 1..Len(ev) : Len(ev2[k].content) = Len(ev[k].content) /\ ev2[k].next = ev[k].next
      /\ \A k \in 2..(Len(ev) + 1) : \A s \in 1..Len(ev[k - 1].content) :
            NodeIn(ev2, <<k, s>>) = f[<<k, s>>]
  BY <1>1, ReNodedIs
<1>3. GrownAt(ev, ev2, 0, <<0, 0>>)
  <2>1. \A k \in 2..(Len(ev) + 1) : k - 1 \in 1..Len(ev)
    BY <1>1
  <2>2. <<0, 0>> \in Spots /\ 0 \notin 2..(Len(ev) + 1) /\ Len(ev) <= Len(ev)
    BY <1>1 DEF Spots
  <2>3. QED
    BY <1>1, <1>2, <2>1, <2>2 DEF GrownAt
<1>4. ASSUME NEW first \in 0..(Len(ev) + 1)
      PROVE  ChainFrom(ev2, first) = ChainFrom(ev, first)
  <2>1. ASSUME first > 1 PROVE EndOf(ChainFrom(ev, first)) # 0
    <3>1. first \in 2..(Len(ev) + 1) /\ ~(first <= 1)
      BY <1>1, <2>1
    <3>2. EndOf(Chains(ev)[first]) \in 2..(Len(ev) + 1)
      BY <1>1, <3>1, EndIs
    <3>3. EndOf(Chains(ev)[first]) # 0
      BY <1>1, <3>2
    <3>4. QED
      BY <3>1, <3>3 DEF ChainFrom
  <2>2. QED
    BY <1>3, <2>1, ChainsKept
<1>5. ItemsOK(ev2, iv)
  <2>1. \A i \in Items : iv[i] \in 0..(Len(ev) + 1)
    <3>1. \A i \in Items : iv[i] \in 1..(Len(ev) + 1)
      BY DEF ItemsOK
    <3>2. QED
      BY <1>1, <3>1
  <2>2. \A i \in Items : ChainFrom(ev2, iv[i]) = ChainFrom(ev, iv[i])
    BY <1>4, <2>1
  <2>3. Apart(ev2, iv)
    BY <2>2 DEF ItemsOK, Apart
  <2>4. QED
    BY <1>2, <2>3 DEF ItemsOK
<1>6. ASSUME NEW first \in 0..(Len(ev) + 1)
      PROVE  /\ DOMAIN NodesFrom(ev2, first) = DOMAIN NodesFrom(ev, first)
             /\ \A m \in DOMAIN NodesFrom(ev, first) :
                   NodesFrom(ev2, first)[m] = f[ChainFrom(ev, first)[m]]
  <2>1. DOMAIN NodesFrom(ev2, first) = DOMAIN NodesFrom(ev, first)
        /\ DOMAIN NodesFrom(ev, first) = DOMAIN ChainFrom(ev, first)
    BY <1>4 DEF NodesFrom
  <2>2. ASSUME NEW m \in DOMAIN NodesFrom(ev, first)
        PROVE  NodesFrom(ev2, first)[m] = f[ChainFrom(ev, first)[m]]
    <3>1. PICK y : y = ChainFrom(ev, first)[m]
      OBVIOUS
    <3>2. y = <<y[1], y[2]>> /\ y[1] \in 2..(Len(ev) + 1) /\ y[2] \in 1..Len(ev[y[1] - 1].content)
      BY <1>1, <2>1, <2>2, <3>1, ChainFromIs
    <3>3. NodeIn(ev2, <<y[1], y[2]>>) = f[<<y[1], y[2]>>]
      BY <1>2, <3>2
    <3>4. NodeIn(ev2, y) = f[y]
      BY <3>2, <3>3
    <3>5. NodesFrom(ev2, first)[m] = NodeIn(ev2, y)
      BY <1>4, <2>1, <2>2, <3>1 DEF NodesFrom
    <3>6. QED
      BY <3>1, <3>4, <3>5
  <2>3. QED
    BY <2>1, <2>2
<1>7. QED
  BY <1>2, <1>4, <1>5, <1>6

-----------------------------------------------------------------------------
(* The operations on the heap, by what they do to the entries of an item.  *)

LEMMA Maximum ==
    ASSUME NEW n \in Nat, NEW K \in SUBSET (1..n), K # {}
    PROVE  Max(K) \in K /\ \A k \in K : k <= Max(K)
<1> DEFINE T == {n - k : k \in K}
<1>1. T \in SUBSET Nat /\ T # {}
  <2>1. PICK k \in K : TRUE
    OBVIOUS
  <2>2. n - k \in T
    OBVIOUS
  <2>3. \A l \in K : n - l \in Nat
    OBVIOUS
  <2>4. QED
    BY <2>2, <2>3
<1>2. PICK x \in T : \A y \in T : x <= y
  <2> HIDE DEF T
  <2>1. QED
    BY <1>1, Least
<1>3. PICK m \in K : x = n - m
  BY <1>2
<1>4. ASSUME NEW k \in K PROVE m >= k
  <2>1. n - k \in T /\ k \in Int /\ m \in Int
    OBVIOUS
  <2>2. n - m <= n - k
    BY <1>2, <1>3, <2>1
  <2>3. QED
    BY <2>1, <2>2
<1>5. Max(K) \in K /\ \A k \in K : Max(K) >= k
  BY <1>4 DEF Max
<1>6. \A k \in K : k \in Int
  OBVIOUS
<1>7. QED
  BY <1>5, <1>6

LEMMA Minimum ==
    ASSUME NEW n \in Nat, NEW K \in SUBSET (1..n), K # {}
    PROVE  Min(K) \in K /\ \A k \in K : Min(K) <= k
<1>1. K \in SUBSET Nat
  OBVIOUS
<1>2. \E x \in K : \A y \in K : x <= y
  BY <1>1, Least
<1>3. QED
  BY <1>2 DEF Min

TagsIn(es, t) == {k \in DOMAIN es : IsTag(es[k], t)}

LEMMA PlacesFromIs ==
    ASSUME NEW first
    PROVE  PlacesFrom(first) = ChainFrom(eventVector, first)
BY PlacesAreChains DEF PlacesFrom, ChainFrom, ITEM_UNUSED

LEMMA NodeAtIs ==
    ASSUME NEW x
    PROVE  NodeAt(x) = NodeIn(eventVector, x)
BY DEF NodeAt, ChunkAt, NodeIn, ITEM_UNUSED

LEMMA EntriesAre ==
    ASSUME NEW i
    PROVE  /\ PlacesOf(i) = ChainFrom(eventVector, itemVector[i])
           /\ Entries(i) = NodesFrom(eventVector, itemVector[i])
BY PlacesFromIs, NodeAtIs DEF PlacesOf, Entries, NodesFrom

LEMMA EntriesAreNext ==
    ASSUME NEW i
    PROVE  /\ PlacesOf(i)' = ChainFrom(eventVector', itemVector'[i])
           /\ Entries(i)' = NodesFrom(eventVector', itemVector'[i])
<1>1. \A first : PlacesFrom(first)' = ChainFrom(eventVector', first)
  BY PlacesAreChainsNext DEF PlacesFrom, ChainFrom, ITEM_UNUSED
<1>2. PlacesOf(i)' = ChainFrom(eventVector', itemVector'[i])
  BY PlacesAreChainsNext DEF PlacesOf, PlacesFrom, ChainFrom, ITEM_UNUSED
<1>3. Entries(i)' = [k \in DOMAIN PlacesOf(i)' |-> NodeIn(eventVector', PlacesOf(i)'[k])]
  BY DEF Entries, NodeAt, ChunkAt, NodeIn, ITEM_UNUSED
<1>4. QED
  BY <1>2, <1>3 DEF NodesFrom

LEMMA OfTagIs ==
    ASSUME NEW first, NEW t
    PROVE  OfTag(first, t) = TagsIn(NodesFrom(eventVector, first), t)
BY PlacesFromIs, NodeAtIs DEF OfTag, TagsIn, NodesFrom

LEMMA HeapIs == HeapOK <=> ItemsOK(eventVector, itemVector)
<1>1. \A i \in Items : PlacesOf(i) = ChainFrom(eventVector, itemVector[i])
  BY EntriesAre
<1>2. ChainsApart <=> Apart(eventVector, itemVector)
  <2>1. ASSUME ChainsApart PROVE Apart(eventVector, itemVector)
    <3>1. ASSUME NEW i \in Items, NEW j \in Items, i # j,
                 NEW m \in DOMAIN ChainFrom(eventVector, itemVector[i]),
                 NEW n \in DOMAIN ChainFrom(eventVector, itemVector[j])
          PROVE  ChainFrom(eventVector, itemVector[i])[m][1] # ChainFrom(eventVector, itemVector[j])[n][1]
      <4>1. /\ PlacesOf(i) = ChainFrom(eventVector, itemVector[i])
            /\ PlacesOf(j) = ChainFrom(eventVector, itemVector[j])
        BY <1>1
      <4>2. m \in DOMAIN PlacesOf(i) /\ n \in DOMAIN PlacesOf(j)
        BY <4>1
      <4>3. PlacesOf(i)[m][1] # PlacesOf(j)[n][1]
        BY <2>1, <3>1, <4>2 DEF ChainsApart
      <4>4. QED
        BY <4>1, <4>3
    <3>2. QED
      BY <3>1 DEF Apart
  <2>2. ASSUME Apart(eventVector, itemVector) PROVE ChainsApart
    <3>1. ASSUME NEW i \in Items, NEW j \in Items, i # j,
                 NEW m \in DOMAIN PlacesOf(i), NEW n \in DOMAIN PlacesOf(j)
          PROVE  PlacesOf(i)[m][1] # PlacesOf(j)[n][1]
      <4>1. /\ PlacesOf(i) = ChainFrom(eventVector, itemVector[i])
            /\ PlacesOf(j) = ChainFrom(eventVector, itemVector[j])
        BY <1>1
      <4>2. /\ m \in DOMAIN ChainFrom(eventVector, itemVector[i])
            /\ n \in DOMAIN ChainFrom(eventVector, itemVector[j])
        BY <3>1, <4>1
      <4>3. ChainFrom(eventVector, itemVector[i])[m][1] # ChainFrom(eventVector, itemVector[j])[n][1]
        BY <2>2, <3>1, <4>2 DEF Apart
      <4>4. QED
        BY <4>1, <4>3
    <3>2. QED
      BY <3>1 DEF ChainsApart
  <2>3. QED
    BY <2>1, <2>2
<1>3. QED
  BY <1>2 DEF HeapOK, ItemsOK

LEMMA HeapIsNext == HeapOK' <=> ItemsOK(eventVector', itemVector')
<1>1. \A i \in Items : PlacesOf(i)' = ChainFrom(eventVector', itemVector'[i])
  BY EntriesAreNext
<1>2. ChainsApart' <=> Apart(eventVector', itemVector')
  <2>1. ASSUME ChainsApart' PROVE Apart(eventVector', itemVector')
    <3>1. ASSUME NEW i \in Items, NEW j \in Items, i # j,
                 NEW m \in DOMAIN ChainFrom(eventVector', itemVector'[i]),
                 NEW n \in DOMAIN ChainFrom(eventVector', itemVector'[j])
          PROVE  ChainFrom(eventVector', itemVector'[i])[m][1] # ChainFrom(eventVector', itemVector'[j])[n][1]
      <4>1. /\ PlacesOf(i)' = ChainFrom(eventVector', itemVector'[i])
            /\ PlacesOf(j)' = ChainFrom(eventVector', itemVector'[j])
        BY <1>1
      <4>2. m \in DOMAIN PlacesOf(i)' /\ n \in DOMAIN PlacesOf(j)'
        BY <4>1
      <4>3. PlacesOf(i)'[m][1] # PlacesOf(j)'[n][1]
        BY <2>1, <3>1, <4>2 DEF ChainsApart
      <4>4. QED
        BY <4>1, <4>3
    <3>2. QED
      BY <3>1 DEF Apart
  <2>2. ASSUME Apart(eventVector', itemVector') PROVE ChainsApart'
    <3>1. ASSUME NEW i \in Items, NEW j \in Items, i # j,
                 NEW m \in DOMAIN PlacesOf(i)', NEW n \in DOMAIN PlacesOf(j)'
          PROVE  PlacesOf(i)'[m][1] # PlacesOf(j)'[n][1]
      <4>1. /\ PlacesOf(i)' = ChainFrom(eventVector', itemVector'[i])
            /\ PlacesOf(j)' = ChainFrom(eventVector', itemVector'[j])
        BY <1>1
      <4>2. /\ m \in DOMAIN ChainFrom(eventVector', itemVector'[i])
            /\ n \in DOMAIN ChainFrom(eventVector', itemVector'[j])
        BY <3>1, <4>1
      <4>3. ChainFrom(eventVector', itemVector'[i])[m][1] # ChainFrom(eventVector', itemVector'[j])[n][1]
        BY <2>2, <3>1, <4>2 DEF Apart
      <4>4. QED
        BY <4>1, <4>3
    <3>2. QED
      BY <3>1 DEF ChainsApart
  <2>3. QED
    BY <2>1, <2>2
<1>3. QED
  BY <1>2 DEF HeapOK, ItemsOK

LEMMA StoredIsStored ==
    ASSUME NEW ev, NEW first, NEW n, first # 0 => Chains(eventVector)[first] = Chains(ev)[first]
    PROVE  Stored(ev, first, n) = StoredIn(ev, first, n)
<1>1. CASE first = 0
  <2>1. StoredIn(ev, first, n) = Append(ev, [content |-> <<n>>, next |-> 0])
    BY <1>1 DEF StoredIn, NewChunk
  <2>2. Stored(ev, first, n) = Append(ev, [content |-> <<n>>, next |-> 0])
    BY ONLY <1>1, Zenon DEF Stored, ITEM_OPEN
  <2>3. QED
    BY <2>1, <2>2
<1>2. CASE first # 0
  BY <1>2, PlacesAreChains DEF Stored, StoredIn, ITEM_OPEN, ITEM_UNUSED, NewChunk, WithChunk, EndOf
<1>3. QED
  BY <1>1, <1>2

LEMMA WithNodesIs ==
    ASSUME NEW f
    PROVE  WithNodes(f) = ReNoded(eventVector, f)
BY DEF WithNodes, ReNoded, ITEM_UNUSED

MarkedIn(es, t) ==
    [m \in DOMAIN es |-> IF IsTag(es[m], t) THEN [es[m] EXCEPT !.isMutable = TRUE] ELSE es[m]]

LastIn(es, t) == es[Max(TagsIn(es, t))]
Several(es, t) == Cardinality(TagsIn(es, t)) > 1

(* The last entry of a tag is given another key.                           *)
Overwrote(es, t, key) ==
    [m \in DOMAIN es |->
        IF m = Max(TagsIn(es, t))
        THEN [es[m] EXCEPT !.dkey = key, !.isMutable = Several(es, t)]
        ELSE MarkedIn(es, t)[m]]

(* What newTag makes of the entries es: the three cases of it.             *)
WasReused(es, t, v, es2) ==
    /\ TagsIn(es, t) # {} /\ SameCycle(LastIn(es, t))
    /\ \E key \in Keys : KeyFor(v, cycle.clock, key) /\ es2 = Overwrote(es, t, key)

WasRepeated(es, t, v, es2) ==
    /\ TagsIn(es, t) # {} /\ ~SameCycle(LastIn(es, t))
    /\ given.compressMutable /\ ValueOf(LastIn(es, t)) = v
    /\ es2 = Overwrote(es, t, LastIn(es, t).dkey)
    /\ UNCHANGED dictVars

WasNew(es, t, v, es2) ==
    /\ TagsIn(es, t) # {} =>
          ~SameCycle(LastIn(es, t)) /\ ~(given.compressMutable /\ ValueOf(LastIn(es, t)) = v)
    /\ \E key \in Keys :
          /\ KeyFor(v, cycle.clock, key)
          /\ es2 = Append(MarkedIn(es, t), TagNode(t, key, TagsIn(es, t) # {}, FALSE))

TagEffect(es, t, v, es2) ==
    WasReused(es, t, v, es2) \/ WasRepeated(es, t, v, es2) \/ WasNew(es, t, v, es2)

LEMMA MarkedNode ==
    ASSUME NEW n \in Nodes, n.type = "tag", NEW b \in BOOLEAN
    PROVE  /\ n \in TagNodes /\ [n EXCEPT !.isMutable = b] \in Nodes
           /\ \A t : IsTag(n, t) => IsTag([n EXCEPT !.isMutable = b], t)
<1>1. n \in TagNodes
  <2>1. \A m \in EventNodes : m.type = "event"
    BY DEF EventNodes
  <2>2. QED
    BY <2>1 DEF Nodes
<1>2. [n EXCEPT !.isMutable = b] \in TagNodes
  BY <1>1 DEF TagNodes
<1>3. [n EXCEPT !.isMutable = b].type = n.type /\ [n EXCEPT !.isMutable = b].tagId = n.tagId
  BY <1>1 DEF TagNodes
<1>4. QED
  BY <1>1, <1>2, <1>3 DEF Nodes, IsTag

LEMMA RekeyedNode ==
    ASSUME NEW n \in Nodes, n.type = "tag", NEW b \in BOOLEAN, NEW key \in Keys
    PROVE  /\ n \in TagNodes /\ n.dkey \in Keys
           /\ [n EXCEPT !.dkey = key, !.isMutable = b] \in TagNodes
           /\ \A u : /\ [[n EXCEPT !.isMutable = u] EXCEPT !.dkey = key, !.isMutable = b]
                       = [n EXCEPT !.dkey = key, !.isMutable = b]
                    /\ [[n EXCEPT !.isMutable = u] EXCEPT !.isMutable = b]
                       = [n EXCEPT !.dkey = n.dkey, !.isMutable = b]
<1>1. n \in TagNodes /\ n.dkey \in Keys
  BY MarkedNode DEF TagNodes
<1>2. n = [f \in DOMAIN n |-> n[f]]
  BY <1>1 DEF TagNodes
<1>3. \A u : /\ [[n EXCEPT !.isMutable = u] EXCEPT !.dkey = key, !.isMutable = b]
               = [n EXCEPT !.dkey = key, !.isMutable = b]
             /\ [[n EXCEPT !.isMutable = u] EXCEPT !.isMutable = b]
               = [n EXCEPT !.dkey = n.dkey, !.isMutable = b]
  <2>1. ASSUME NEW u
        PROVE  /\ [[n EXCEPT !.isMutable = u] EXCEPT !.dkey = key, !.isMutable = b]
                  = [n EXCEPT !.dkey = key, !.isMutable = b]
               /\ [[n EXCEPT !.isMutable = u] EXCEPT !.isMutable = b]
                  = [n EXCEPT !.dkey = n.dkey, !.isMutable = b]
    BY ONLY <1>2
  <2>2. QED
    BY <2>1, Zenon
<1>4. [n EXCEPT !.dkey = key, !.isMutable = b] \in TagNodes
  BY <1>1 DEF TagNodes
<1>5. QED
  BY <1>1, <1>3, <1>4

(* Marked marks the entries of the tag in the chain, and no other.         *)
LEMMA MarkedIs ==
    ASSUME HeapOK, NEW first \in 0..(Len(eventVector) + 1), NEW t, NEW f, f = Marked(first, t)
    PROVE  /\ \A k \in 2..(Len(eventVector) + 1) : \A s \in 1..Len(eventVector[k - 1].content) :
                 /\ <<k, s>> \in DOMAIN f /\ f[<<k, s>>] \in Nodes
                 /\ (~\E m \in DOMAIN ChainFrom(eventVector, first) :
                         ChainFrom(eventVector, first)[m] = <<k, s>>) =>
                       f[<<k, s>>] = NodeIn(eventVector, <<k, s>>)
           /\ \A m \in DOMAIN NodesFrom(eventVector, first) :
                 f[ChainFrom(eventVector, first)[m]] = MarkedIn(NodesFrom(eventVector, first), t)[m]
<1> DEFINE ev == eventVector
           N == Len(eventVector) + 1
<1>1. IsHeap(ev) /\ N \in Nat /\ DOMAIN ev = 1..Len(ev)
  BY HeapFacts DEF HeapOK
<1>2. PICK ps : ps = ChainFrom(ev, first)
  OBVIOUS
<1>3. PICK es : es = NodesFrom(ev, first)
  OBVIOUS
<1>4. /\ DOMAIN es = DOMAIN ps /\ \A m \in DOMAIN es : es[m] = NodeIn(ev, ps[m])
  BY <1>1, <1>2, <1>3, NodesFromIs
<1>5. PICK K : K = TagsIn(es, t)
  OBVIOUS
<1>6. PICK marked : marked = {ps[k] : k \in K}
  OBVIOUS
<1>7. PICK places : places = UNION {{<<k + ITEM_UNUSED, s>> : s \in DOMAIN ev[k].content} :
                                        k \in DOMAIN ev}
  OBVIOUS
<1>8. f = [p \in places |-> IF p \in marked THEN [NodeIn(ev, p) EXCEPT !.isMutable = TRUE]
                            ELSE NodeIn(ev, p)]
  <2>1. OfTag(first, t) = K /\ PlacesFrom(first) = ps
    BY <1>2, <1>3, <1>5, OfTagIs, PlacesFromIs
  <2>2. marked = {PlacesFrom(first)[k] : k \in OfTag(first, t)}
    BY <1>6, <2>1
  <2>3. \A p : NodeAt(p) = NodeIn(ev, p)
    BY NodeAtIs
  <2>4. f = [p \in places |-> IF p \in marked THEN [NodeAt(p) EXCEPT !.isMutable = TRUE]
                              ELSE NodeAt(p)]
    BY <1>7, <2>2 DEF Marked
  <2>5. QED
    BY <2>3, <2>4
<1>9. ASSUME NEW k \in 2..N, NEW s \in 1..Len(ev[k - 1].content)
      PROVE  <<k, s>> \in places /\ NodeIn(ev, <<k, s>>) \in Nodes
  <2>1. k - 1 \in DOMAIN ev /\ (k - 1) + 1 = k /\ ev[k - 1].content \in Seq(Nodes)
    BY <1>1, HeapFacts
  <2>2. s \in DOMAIN ev[k - 1].content /\ ev[k - 1].content[s] \in Nodes
    BY <2>1, ElementOfSeq
  <2>3. <<k, s>> \in {<<(k - 1) + ITEM_UNUSED, r>> : r \in DOMAIN ev[k - 1].content}
    BY <2>1, <2>2 DEF ITEM_UNUSED
  <2>4. <<k, s>> \in places
    BY <1>7, <2>1, <2>3
  <2>5. QED
    BY <2>2, <2>4 DEF NodeIn
<1>10. ASSUME NEW p \in marked
       PROVE  NodeIn(ev, p).type = "tag" /\ \E m \in DOMAIN ps : ps[m] = p
  <2>1. PICK m \in K : p = ps[m]
    BY <1>6
  <2>2. m \in DOMAIN es /\ IsTag(es[m], t)
    BY <1>5, <2>1 DEF TagsIn
  <2>3. QED
    BY <1>4, <2>1, <2>2 DEF IsTag
<1>11. ASSUME NEW k \in 2..N, NEW s \in 1..Len(ev[k - 1].content)
       PROVE  /\ <<k, s>> \in DOMAIN f /\ f[<<k, s>>] \in Nodes
              /\ (~\E m \in DOMAIN ps : ps[m] = <<k, s>>) => f[<<k, s>>] = NodeIn(ev, <<k, s>>)
  <2>1. PICK p : p = <<k, s>>
    OBVIOUS
  <2>2. p \in places /\ NodeIn(ev, p) \in Nodes
    BY <1>9, <2>1
  <2>3. f[p] = IF p \in marked THEN [NodeIn(ev, p) EXCEPT !.isMutable = TRUE] ELSE NodeIn(ev, p)
    BY <1>8, <2>2
  <2>4. CASE p \in marked
    <3>1. [NodeIn(ev, p) EXCEPT !.isMutable = TRUE] \in Nodes
      BY <1>10, <2>2, <2>4, MarkedNode
    <3>2. \E m \in DOMAIN ps : ps[m] = p
      BY <1>10, <2>4
    <3>3. QED
      BY <1>8, <2>1, <2>2, <2>3, <2>4, <3>1, <3>2
  <2>5. CASE p \notin marked
    BY <1>8, <2>1, <2>2, <2>3, <2>5
  <2>6. QED
    BY <2>4, <2>5
<1>12. ASSUME NEW m \in DOMAIN es
       PROVE  f[ps[m]] = MarkedIn(es, t)[m]
  <2>1. PICK p : p = ps[m]
    OBVIOUS
  <2>2. p = <<p[1], p[2]>> /\ p[1] \in 2..N /\ p[2] \in 1..Len(ev[p[1] - 1].content)
    BY <1>1, <1>2, <1>4, <2>1, ChainFromIs
  <2>3. p \in places
    BY <1>9, <2>2
  <2>4. p \in marked <=> IsTag(es[m], t)
    <3>1. ASSUME p \in marked PROVE IsTag(es[m], t)
      <4>1. PICK l \in K : p = ps[l]
        BY <1>6, <3>1
      <4>2. l \in DOMAIN ps /\ IsTag(es[l], t)
        BY <1>4, <1>5, <4>1 DEF TagsIn
      <4>3. l = m
        BY <1>1, <1>2, <1>4, <2>1, <4>1, <4>2, ChainFromIs
      <4>4. QED
        BY <4>2, <4>3
    <3>2. ASSUME IsTag(es[m], t) PROVE p \in marked
      BY <1>5, <1>6, <2>1, <3>2 DEF TagsIn
    <3>3. QED
      BY <3>1, <3>2
  <2>5. f[p] = IF p \in marked THEN [NodeIn(ev, p) EXCEPT !.isMutable = TRUE] ELSE NodeIn(ev, p)
    BY <1>8, <2>3
  <2>6. NodeIn(ev, p) = es[m]
    BY <1>4, <2>1
  <2>7. MarkedIn(es, t)[m] = IF IsTag(es[m], t) THEN [es[m] EXCEPT !.isMutable = TRUE] ELSE es[m]
    BY DEF MarkedIn
  <2>8. QED
    BY <2>1, <2>4, <2>5, <2>6, <2>7
<1>13. QED
  BY <1>2, <1>3, <1>11, <1>12

-----------------------------------------------------------------------------
(* What the operations do to the entries of the items.                     *)

(* The chain of an item with other entries in its places.                  *)
LEMMA RewrittenItems ==
    ASSUME NEW ev, NEW iv, ItemsOK(ev, iv), NEW i \in Items, NEW first, Begins(iv, i, first),
           NEW f, NEW es,
           \A k \in 2..(Len(ev) + 1) : \A s \in 1..Len(ev[k - 1].content) :
              /\ f[<<k, s>>] \in Nodes
              /\ (~\E m \in DOMAIN ChainFrom(ev, first) : ChainFrom(ev, first)[m] = <<k, s>>) =>
                    f[<<k, s>>] = NodeIn(ev, <<k, s>>),
           DOMAIN es = DOMAIN NodesFrom(ev, first), es = [m \in DOMAIN es |-> es[m]],
           \A m \in DOMAIN NodesFrom(ev, first) : f[ChainFrom(ev, first)[m]] = es[m]
    PROVE  /\ ItemsOK(ReNoded(ev, f), iv) /\ Len(ReNoded(ev, f)) = Len(ev)
           /\ ChainFrom(ReNoded(ev, f), first) = ChainFrom(ev, first)
           /\ NodesFrom(ReNoded(ev, f), first) = es
           /\ \A j \in Items : j # i => NodesFrom(ReNoded(ev, f), iv[j]) = NodesFrom(ev, iv[j])
<1>1. PICK ev2 : ev2 = ReNoded(ev, f)
  OBVIOUS
<1>2. /\ IsHeap(ev) /\ iv \in [Items -> Nat] /\ Apart(ev, iv)
      /\ \A j \in Items : iv[j] \in 1..(Len(ev) + 1)
      /\ first \in 0..(Len(ev) + 1) /\ first \in {0, iv[i]}
  BY DEF ItemsOK, IsHeap, Begins
<1>3. \A k \in 2..(Len(ev) + 1) : \A s \in 1..Len(ev[k - 1].content) : f[<<k, s>>] \in Nodes
  OBVIOUS
<1>4. /\ ItemsOK(ev2, iv) /\ Len(ev2) = Len(ev)
      /\ \A g \in 0..(Len(ev) + 1) :
            /\ ChainFrom(ev2, g) = ChainFrom(ev, g)
            /\ DOMAIN NodesFrom(ev2, g) = DOMAIN NodesFrom(ev, g)
            /\ \A m \in DOMAIN NodesFrom(ev, g) : NodesFrom(ev2, g)[m] = f[ChainFrom(ev, g)[m]]
  BY <1>1, <1>3, ReNodedItems
<1>5. \A g : NodesFrom(ev2, g) = [m \in DOMAIN NodesFrom(ev2, g) |-> NodesFrom(ev2, g)[m]]
  BY DEF NodesFrom
<1>6. \A g : NodesFrom(ev, g) = [m \in DOMAIN NodesFrom(ev, g) |-> NodesFrom(ev, g)[m]]
  BY DEF NodesFrom
<1>7. NodesFrom(ev2, first) = es
  <2>1. /\ DOMAIN NodesFrom(ev2, first) = DOMAIN es
        /\ \A m \in DOMAIN es : NodesFrom(ev2, first)[m] = es[m]
    BY <1>2, <1>4
  <2>2. NodesFrom(ev2, first) = [m \in DOMAIN NodesFrom(ev2, first) |-> NodesFrom(ev2, first)[m]]
    BY <1>5
  <2>3. QED
    BY <2>1, <2>2
<1>8. ASSUME NEW j \in Items, j # i
      PROVE  NodesFrom(ev2, iv[j]) = NodesFrom(ev, iv[j])
  <2>1. iv[j] \in 0..(Len(ev) + 1)
    BY <1>2
  <2>2. /\ DOMAIN NodesFrom(ev2, iv[j]) = DOMAIN NodesFrom(ev, iv[j])
        /\ \A m \in DOMAIN NodesFrom(ev, iv[j]) :
              NodesFrom(ev2, iv[j])[m] = f[ChainFrom(ev, iv[j])[m]]
    BY <1>4, <2>1
  <2>3. ASSUME NEW m \in DOMAIN NodesFrom(ev, iv[j])
        PROVE  NodesFrom(ev2, iv[j])[m] = NodesFrom(ev, iv[j])[m]
    <3>1. PICK p : p = ChainFrom(ev, iv[j])[m]
      OBVIOUS
    <3>2. /\ m \in DOMAIN ChainFrom(ev, iv[j])
          /\ NodesFrom(ev, iv[j])[m] = NodeIn(ev, p)
      BY <1>2, <2>1, <3>1, NodesFromIs
    <3>3. p = <<p[1], p[2]>> /\ p[1] \in 2..(Len(ev) + 1) /\ p[2] \in 1..Len(ev[p[1] - 1].content)
      BY <1>2, <2>1, <3>1, <3>2, ChainFromIs
    <3>4. ~\E r \in DOMAIN ChainFrom(ev, first) : ChainFrom(ev, first)[r] = p
      <4>1. CASE first = 0
        BY <4>1 DEF ChainFrom
      <4>2. CASE first = iv[i]
        <5>1. SUFFICES ASSUME NEW r \in DOMAIN ChainFrom(ev, first), ChainFrom(ev, first)[r] = p
                       PROVE  FALSE
          OBVIOUS
        <5>2. ChainFrom(ev, iv[i])[r][1] # ChainFrom(ev, iv[j])[m][1]
          BY <1>2, <1>8, <3>2, <4>2 DEF Apart
        <5>3. QED
          BY <3>1, <4>2, <5>1, <5>2
      <4>3. QED
        BY <1>2, <4>1, <4>2
    <3>5. f[p] = NodeIn(ev, p)
      BY <3>3, <3>4
    <3>6. QED
      BY <2>2, <3>1, <3>2, <3>5
  <2>4. NodesFrom(ev2, iv[j]) = [m \in DOMAIN NodesFrom(ev2, iv[j]) |-> NodesFrom(ev2, iv[j])[m]]
    BY <1>5
  <2>5. NodesFrom(ev, iv[j]) = [m \in DOMAIN NodesFrom(ev, iv[j]) |-> NodesFrom(ev, iv[j])[m]]
    BY <1>6
  <2>6. QED
    BY <2>2, <2>3, <2>4, <2>5
<1>9. QED
  BY <1>1, <1>2, <1>4, <1>7, <1>8

(* The last entry of the tag is rewritten, all of them being marked.       *)
Rekeyed(first, t, key, f) ==
    \/ f = [Marked(first, t) EXCEPT ![LastOf(first, t)].dkey = key,
                                    ![LastOf(first, t)].isMutable = Mutable(first, t)]
    \/ /\ f = [Marked(first, t) EXCEPT ![LastOf(first, t)].isMutable = Mutable(first, t)]
       /\ key = LastIn(NodesFrom(eventVector, first), t).dkey

LEMMA RekeyedIs ==
    ASSUME HeapOK, NEW first \in 0..(Len(eventVector) + 1), NEW t, OfTag(first, t) # {},
           NEW key \in Keys, NEW f, NEW es, es = NodesFrom(eventVector, first),
           Rekeyed(first, t, key, f)
    PROVE  /\ \A k \in 2..(Len(eventVector) + 1) : \A s \in 1..Len(eventVector[k - 1].content) :
                 /\ f[<<k, s>>] \in Nodes
                 /\ (~\E m \in DOMAIN ChainFrom(eventVector, first) :
                         ChainFrom(eventVector, first)[m] = <<k, s>>) =>
                       f[<<k, s>>] = NodeIn(eventVector, <<k, s>>)
           /\ \A m \in DOMAIN es : f[ChainFrom(eventVector, first)[m]] = Overwrote(es, t, key)[m]
<1>1. PICK ev : ev = eventVector
  OBVIOUS
<1>2. PICK ps : ps = ChainFrom(ev, first)
  OBVIOUS
<1>3. PICK mk : mk = Marked(first, t)
  OBVIOUS
<1>4. PICK K : K = TagsIn(es, t)
  OBVIOUS
<1>5. PICK x : x = Max(K)
  OBVIOUS
<1>6. IsHeap(ev) /\ K = OfTag(first, t)
  BY <1>1, <1>4, OfTagIs DEF HeapOK
<1>7. /\ DOMAIN es = DOMAIN ps /\ DOMAIN es = 1..Len(es) /\ Len(es) \in Nat
      /\ \A m \in DOMAIN es : es[m] = NodeIn(ev, ps[m]) /\ es[m] \in Nodes
  <2>1. es \in Seq(Nodes)
    BY <1>1, <1>6, NodesFromIs
  <2>2. \A m \in DOMAIN es : es[m] \in Nodes
    BY <2>1, ElementOfSeq
  <2>3. QED
    BY <1>1, <1>2, <1>6, <2>2, NodesFromIs
<1>8. x \in K /\ x \in DOMAIN es /\ IsTag(es[x], t)
  <2>1. K \in SUBSET (1..Len(es)) /\ K # {}
    BY <1>4, <1>6, <1>7 DEF TagsIn
  <2>2. x \in K
    BY <1>5, <1>7, <2>1, Maximum
  <2>3. QED
    BY <1>4, <2>2 DEF TagsIn
<1>9. LastOf(first, t) = ps[x]
  BY <1>1, <1>2, <1>5, <1>6, PlacesFromIs DEF LastOf
<1>10. Mutable(first, t) = Several(es, t)
  BY <1>4, <1>6 DEF Mutable, Several
<1>11. PICK b \in BOOLEAN : b = Several(es, t)
  <2>1. Several(es, t) \in BOOLEAN
    BY DEF Several
  <2>2. QED
    BY <2>1
<1>12. /\ \A k \in 2..(Len(ev) + 1) : \A s \in 1..Len(ev[k - 1].content) :
             /\ <<k, s>> \in DOMAIN mk /\ mk[<<k, s>>] \in Nodes
             /\ (~\E m \in DOMAIN ps : ps[m] = <<k, s>>) => mk[<<k, s>>] = NodeIn(ev, <<k, s>>)
       /\ \A m \in DOMAIN es : mk[ps[m]] = MarkedIn(es, t)[m]
  BY <1>1, <1>2, <1>3, MarkedIs
<1>13. \A m \in DOMAIN ps :
          ps[m] = <<ps[m][1], ps[m][2]>> /\ ps[m][1] \in 2..(Len(ev) + 1)
          /\ ps[m][2] \in 1..Len(ev[ps[m][1] - 1].content)
  BY <1>1, <1>2, <1>6, ChainFromIs
<1>14. \A m, n \in DOMAIN ps : ps[m] = ps[n] => m = n
  BY <1>1, <1>2, <1>6, ChainFromIs
<1>15. PICK l : l = ps[x]
  OBVIOUS
<1>15a. \A m \in DOMAIN ps : ps[m] \in DOMAIN mk
  <2>1. SUFFICES ASSUME NEW m \in DOMAIN ps PROVE ps[m] \in DOMAIN mk
    OBVIOUS
  <2>2. PICK k, s : k = ps[m][1] /\ s = ps[m][2]
    OBVIOUS
  <2>3. ps[m] = <<k, s>> /\ k \in 2..(Len(ev) + 1) /\ s \in 1..Len(ev[k - 1].content)
    BY <1>13, <2>2
  <2>4. <<k, s>> \in DOMAIN mk
    BY <1>12, <2>3
  <2>5. QED
    BY <2>3, <2>4
<1>16. l \in DOMAIN mk
  BY <1>7, <1>8, <1>15, <1>15a
<1>17. PICK u : u = TRUE
  OBVIOUS
<1>18. mk[l] = [es[x] EXCEPT !.isMutable = u]
  <2>1. mk[l] = MarkedIn(es, t)[x]
    BY <1>8, <1>12, <1>15
  <2>2. QED
    BY <1>8, <1>17, <2>1 DEF MarkedIn
<1>19. es[x] \in Nodes /\ es[x].type = "tag" /\ es[x] = LastIn(es, t)
  BY <1>4, <1>5, <1>7, <1>8 DEF IsTag, LastIn
<1>20. PICK n : n = [es[x] EXCEPT !.dkey = key, !.isMutable = b]
  OBVIOUS
<1>21. /\ n \in Nodes
       /\ n = [[es[x] EXCEPT !.isMutable = u] EXCEPT !.dkey = key, !.isMutable = b]
       /\ key = es[x].dkey => n = [[es[x] EXCEPT !.isMutable = u] EXCEPT !.isMutable = b]
  <2>1. /\ [es[x] EXCEPT !.dkey = key, !.isMutable = b] \in TagNodes
        /\ \A w : /\ [[es[x] EXCEPT !.isMutable = w] EXCEPT !.dkey = key, !.isMutable = b]
                    = [es[x] EXCEPT !.dkey = key, !.isMutable = b]
                 /\ [[es[x] EXCEPT !.isMutable = w] EXCEPT !.isMutable = b]
                    = [es[x] EXCEPT !.dkey = es[x].dkey, !.isMutable = b]
    BY <1>19, RekeyedNode
  <2>2. n \in Nodes
    BY <1>20, <2>1 DEF Nodes
  <2>3. /\ [[es[x] EXCEPT !.isMutable = u] EXCEPT !.dkey = key, !.isMutable = b]
           = [es[x] EXCEPT !.dkey = key, !.isMutable = b]
        /\ [[es[x] EXCEPT !.isMutable = u] EXCEPT !.isMutable = b]
           = [es[x] EXCEPT !.dkey = es[x].dkey, !.isMutable = b]
    BY <2>1
  <2>4. QED
    BY <1>20, <2>2, <2>3, Zenon
<1>22. DOMAIN f = DOMAIN mk /\ \A p \in DOMAIN mk : f[p] = IF p = l THEN n ELSE mk[p]
  <2>1. CASE f = [mk EXCEPT ![l].dkey = key, ![l].isMutable = b]
    <3>1. \A p \in DOMAIN mk : p # l => f[p] = mk[p]
      BY <2>1
    <3>2. f[l] = [mk[l] EXCEPT !.dkey = key, !.isMutable = b]
      BY <1>16, <2>1
    <3>3. QED
      BY <1>18, <1>21, <2>1, <3>1, <3>2
  <2>2. CASE f = [mk EXCEPT ![l].isMutable = b] /\ key = es[x].dkey
    <3>1. \A p \in DOMAIN mk : p # l => f[p] = mk[p]
      BY <2>2
    <3>2. f[l] = [mk[l] EXCEPT !.isMutable = b]
      BY <1>16, <2>2
    <3>3. QED
      BY <1>18, <1>21, <2>2, <3>1, <3>2
  <2>3. LastOf(first, t) = l /\ Mutable(first, t) = b
    BY <1>9, <1>10, <1>11, <1>15
  <2>4. QED
    BY <1>3, <1>19, <2>1, <2>2, <2>3 DEF Rekeyed
<1>23. ASSUME NEW k \in 2..(Len(ev) + 1), NEW s \in 1..Len(ev[k - 1].content)
       PROVE  /\ f[<<k, s>>] \in Nodes
              /\ (~\E m \in DOMAIN ps : ps[m] = <<k, s>>) => f[<<k, s>>] = NodeIn(ev, <<k, s>>)
  <2>1. PICK p : p = <<k, s>>
    OBVIOUS
  <2>2. p \in DOMAIN mk /\ mk[p] \in Nodes
    BY <1>12, <2>1
  <2>3. (~\E m \in DOMAIN ps : ps[m] = p) => mk[p] = NodeIn(ev, p) /\ p # l
    BY <1>7, <1>8, <1>12, <1>15, <2>1
  <2>4. QED
    BY <1>21, <1>22, <2>1, <2>2, <2>3
<1>24. ASSUME NEW m \in DOMAIN es
       PROVE  f[ps[m]] = Overwrote(es, t, key)[m]
  <2>1. ps[m] \in DOMAIN mk
    BY <1>7, <1>15a
  <2>2. ps[m] = l <=> m = x
    BY <1>7, <1>8, <1>14, <1>15
  <2>3. Overwrote(es, t, key)[m] = IF m = x THEN [es[m] EXCEPT !.dkey = key, !.isMutable = b]
                                   ELSE MarkedIn(es, t)[m]
    BY <1>4, <1>5, <1>11 DEF Overwrote
  <2>4. f[ps[m]] = IF m = x THEN n ELSE mk[ps[m]]
    BY <1>22, <2>1, <2>2
  <2>5. QED
    BY <1>12, <1>20, <2>3, <2>4
<1>25. QED
  BY <1>1, <1>2, <1>23, <1>24

(* The cycle of the trace, as nodes keep it.                               *)
LEMMA StampIs ==
    ASSUME ClocksOK, cycle # NULL
    PROVE  /\ given \in Givens /\ cycle.clock \in Clocks /\ currentCycle[cycle.clock] # -1
           /\ IntCycle \in Nat /\ IntCycle = cycle.cycle - given.start[cycle.clock]
           /\ cycle.cycle = currentCycle[cycle.clock]
           /\ given.internal[cycle.clock] \in Clocks
           /\ cycle.cycle \in Nat /\ given.start[cycle.clock] \in Nat
           /\ cycle.division \in 0..1 /\ cycle.division < given.divisions[cycle.clock]
<1>1. /\ given \in Givens /\ cycle.clock \in Clocks /\ cycle.cycle \in 0..MaxCycle
      /\ cycle.division \in 0..1 /\ cycle.division < given.divisions[cycle.clock]
      /\ cycle.cycle = currentCycle[cycle.clock] /\ currentCycle \in [Clocks -> Int]
  BY DEF ClocksOK, CycleSet
<1>2. given.internal \in [Clocks -> Clocks] /\ given.start \in [Clocks -> Nat]
  BY <1>1, GivensAssumption
<1>3. cycle.cycle \in Nat /\ currentCycle[cycle.clock] # -1
  BY <1>1
<1>4. /\ currentCycle[cycle.clock] \in given.start[cycle.clock]..MaxCycle
      /\ firstEffectiveCycle[given.internal[cycle.clock]] = given.start[cycle.clock]
  BY <1>1, <1>3 DEF ClocksOK
<1>5. IntCycle = cycle.cycle - given.start[cycle.clock]
  BY <1>4 DEF IntCycle
<1>6. given.start[cycle.clock] \in Nat /\ given.internal[cycle.clock] \in Clocks
  BY <1>1, <1>2
<1>7. IntCycle \in Nat
  BY <1>1, <1>3, <1>4, <1>5, <1>6
<1>8. QED
  BY <1>1, <1>3, <1>5, <1>6, <1>7

LEMMA NodesAre ==
    ASSUME ClocksOK, cycle # NULL
    PROVE  /\ \A t \in AllTags, key \in Keys, m, s \in BOOLEAN :
                 /\ TagNode(t, key, m, s) \in TagNodes
                 /\ TagNode(t, key, m, s).tagId = t /\ TagNode(t, key, m, s).type = "tag"
                 /\ TagNode(t, key, m, s).dkey = key /\ TagNode(t, key, m, s).isMutable = m
                 /\ TagNode(t, key, m, s).clockId = given.internal[cycle.clock]
                 /\ TagNode(t, key, m, s).cycle = IntCycle
                 /\ TagNode(t, key, m, s).division = cycle.division
           /\ \A e \in AllEvents :
                 /\ EventNode(e) \in EventNodes
                 /\ EventNode(e).event = e /\ EventNode(e).type = "event"
                 /\ EventNode(e).clockId = given.internal[cycle.clock]
                 /\ EventNode(e).cycle = IntCycle
                 /\ EventNode(e).division = cycle.division
<1>1. /\ Stamp.clockId = given.internal[cycle.clock] /\ Stamp.cycle = IntCycle
      /\ Stamp.division = cycle.division
  BY DEF Stamp
<1>2. Stamp.clockId \in Clocks /\ Stamp.cycle \in Nat /\ Stamp.division \in 0..1
  BY <1>1, StampIs
<1>3. QED
  BY <1>1, <1>2 DEF TagNode, EventNode, TagNodes, EventNodes

(* The chain of the item with the entry n at its end.                      *)
LEMMA StoredItem ==
    ASSUME NEW ev, NEW iv, ItemsOK(ev, iv), NEW i \in Items, NEW first, Begins(iv, i, first),
           NEW n \in Nodes, NEW ev2, ev2 = StoredIn(ev, first, n), Len(ev2) <= OFFSETS,
           NEW iv2, Begun(ev, iv, i, first, iv2)
    PROVE  /\ ItemsOK(ev2, iv2)
           /\ NodesFrom(ev2, iv2[i]) = Append(NodesFrom(ev, first), n)
           /\ \A j \in Items : j # i => NodesFrom(ev2, iv2[j]) = NodesFrom(ev, iv[j])
<1>1. IsHeap(ev) /\ iv[i] \in 1..(Len(ev) + 1) /\ Len(ev) \in Nat
  BY HeapFacts DEF ItemsOK
<1>2. first \in {0} \cup 2..(Len(ev) + 1)
  BY <1>1 DEF Begins
<1>3. PICK x \in Spots : StoredAt(ev, ev2, first, n, x)
  BY <1>1, <1>2, StoredIs
<1>4. QED
  BY <1>3, StoredItems

(* newTag changes the entries of one item, in one of three ways.           *)
LEMMA TagStored ==
    ASSUME HeapOK, ClocksOK, cycle # NULL, NEW i \in Items, NEW first,
           Begins(itemVector, i, first), NEW t \in AllTags, NEW v, newTag(i, first, t, v), Len(eventVector') <= OFFSETS
    PROVE  /\ HeapOK'
           /\ \A j \in Items : j # i => Entries(j)' = Entries(j)
           /\ TagEffect(NodesFrom(eventVector, first), t, v, Entries(i)')
<1>1. PICK ev, ev2, iv, iv2 :
         ev = eventVector /\ ev2 = eventVector' /\ iv = itemVector /\ iv2 = itemVector'
  OBVIOUS
<1>2. /\ ItemsOK(ev, iv) /\ IsHeap(ev) /\ iv \in [Items -> Nat] /\ first \in 0..(Len(ev) + 1)
      /\ Len(ev) \in Nat /\ Begins(iv, i, first) /\ first \in {0, iv[i]}
  <2>1. ItemsOK(ev, iv)
    BY <1>1, HeapIs
  <2>2. IsHeap(ev) /\ iv \in [Items -> Nat] /\ iv[i] \in 1..(Len(ev) + 1)
    BY <2>1 DEF ItemsOK
  <2>3. QED
    BY <1>1, <2>1, <2>2, HeapFacts DEF Begins
<1>3. PICK es : es = NodesFrom(ev, first)
  OBVIOUS
<1>4. /\ \A j \in Items : Entries(j) = NodesFrom(ev, iv[j])
      /\ \A j \in Items : Entries(j)' = NodesFrom(ev2, iv2[j])
  BY <1>1, EntriesAre, EntriesAreNext
<1>5. SUFFICES
         /\ ItemsOK(ev2, iv2)
         /\ \A j \in Items : j # i => NodesFrom(ev2, iv2[j]) = NodesFrom(ev, iv[j])
         /\ TagEffect(es, t, v, NodesFrom(ev2, iv2[i]))
  BY <1>1, <1>3, <1>4, HeapIsNext
<1>6. OfTag(first, t) = TagsIn(es, t)
  BY <1>1, <1>3, OfTagIs
<1>7. /\ IsHeap(ev) /\ DOMAIN es = DOMAIN ChainFrom(ev, first) /\ DOMAIN es = 1..Len(es)
      /\ Len(es) \in Nat /\ es \in Seq(Nodes)
  BY <1>2, <1>3, NodesFromIs
<1>8. ASSUME TagsIn(es, t) # {} PROVE first # 0
  <2>1. CASE first = 0
    <3>1. ChainFrom(ev, first) = <<>>
      BY <2>1 DEF ChainFrom
    <3>2. DOMAIN es = {}
      <4>1. DOMAIN ChainFrom(ev, first) = 1..Len(ChainFrom(ev, first))
        BY <1>2, ChainFromIs
      <4>2. Len(ChainFrom(ev, first)) = 0
        BY <3>1
      <4>3. 1..Len(ChainFrom(ev, first)) = {}
        BY <4>2
      <4>4. DOMAIN es = DOMAIN ChainFrom(ev, first)
        BY <1>7
      <4>5. QED
        BY <4>1, <4>3, <4>4, Zenon
    <3>3. QED
      BY <1>8, <3>2 DEF TagsIn
  <2>2. QED
    BY <2>1
<1>9. ASSUME TagsIn(es, t) # {}
      PROVE  SameCycle(NodeAt(LastOf(first, t))) = SameCycle(LastIn(es, t))
             /\ ValueOf(NodeAt(LastOf(first, t))) = ValueOf(LastIn(es, t))
  <2>1. PICK x : x = Max(TagsIn(es, t))
    OBVIOUS
  <2>2. x \in DOMAIN es
    <3>1. TagsIn(es, t) \in SUBSET (1..Len(es))
      BY <1>7 DEF TagsIn
    <3>2. QED
      BY <1>7, <1>9, <2>1, <3>1, Maximum
  <2>3. NodeAt(LastOf(first, t)) = NodeIn(ev, ChainFrom(ev, first)[x])
    BY <1>1, <1>6, <2>1, NodeAtIs, PlacesFromIs DEF LastOf
  <2>4. NodeAt(LastOf(first, t)) = LastIn(es, t)
    BY <1>2, <1>3, <2>1, <2>2, <2>3, NodesFromIs DEF LastIn
  <2>5. QED
    BY <2>4
<1>10. Begun(ev, iv, i, first, iv2)
  <2>1. FirstChunk(first) = BeginOf(ev, first)
    BY <1>1, <1>2 DEF FirstChunk, BeginOf, ITEM_OPEN, ITEM_UNUSED, nextEventVectorEntry
  <2>2. itemVector' = [itemVector EXCEPT ![i] = FirstChunk(first)]
    BY DEF newTag
  <2>3. QED
    BY <1>1, <2>1, <2>2 DEF Begun
<1>11. ASSUME TagsIn(es, t) # {}, NEW key \in Keys, NEW f,
              Rekeyed(first, t, key, f),
              ev2 = WithNodes(f)
       PROVE  /\ ItemsOK(ev2, iv2)
              /\ \A j \in Items : j # i => NodesFrom(ev2, iv2[j]) = NodesFrom(ev, iv[j])
              /\ NodesFrom(ev2, iv2[i]) = Overwrote(es, t, key)
  <2>1. first # 0 /\ first = iv[i] /\ iv2 = iv
    BY <1>1, <1>2, <1>8, <1>10, <1>11 DEF BeginOf, Begun
  <2>2. ev2 = ReNoded(ev, f)
    BY <1>1, <1>11, WithNodesIs
  <2>3. PICK ow : ow = Overwrote(es, t, key)
    OBVIOUS
  <2>4. DOMAIN ow = DOMAIN es /\ ow = [m \in DOMAIN ow |-> ow[m]]
    BY <2>3 DEF Overwrote
  <2>5. /\ \A k \in 2..(Len(ev) + 1) : \A s \in 1..Len(ev[k - 1].content) :
              /\ f[<<k, s>>] \in Nodes
              /\ (~\E m \in DOMAIN ChainFrom(ev, first) :
                      ChainFrom(ev, first)[m] = <<k, s>>) =>
                    f[<<k, s>>] = NodeIn(ev, <<k, s>>)
        /\ \A m \in DOMAIN es : f[ChainFrom(ev, first)[m]] = ow[m]
    <3>1. /\ \A k \in 2..(Len(eventVector) + 1) : \A s \in 1..Len(eventVector[k - 1].content) :
                /\ f[<<k, s>>] \in Nodes
                /\ (~\E m \in DOMAIN ChainFrom(eventVector, first) :
                        ChainFrom(eventVector, first)[m] = <<k, s>>) =>
                      f[<<k, s>>] = NodeIn(eventVector, <<k, s>>)
          /\ \A m \in DOMAIN es : f[ChainFrom(eventVector, first)[m]] = Overwrote(es, t, key)[m]
      <4>1. es = NodesFrom(eventVector, first) /\ OfTag(first, t) # {}
            /\ first \in 0..(Len(eventVector) + 1)
        BY <1>1, <1>2, <1>3, <1>6, <1>11
      <4>2. QED
        BY <1>11, <4>1, RekeyedIs
    <3>2. QED
      BY <1>1, <2>3, <3>1
  <2>6. /\ ItemsOK(ReNoded(ev, f), iv)
        /\ NodesFrom(ReNoded(ev, f), first) = ow
        /\ \A j \in Items : j # i => NodesFrom(ReNoded(ev, f), iv[j]) = NodesFrom(ev, iv[j])
    <3>1. DOMAIN ow = DOMAIN NodesFrom(ev, first)
          /\ \A m \in DOMAIN NodesFrom(ev, first) : f[ChainFrom(ev, first)[m]] = ow[m]
      BY <1>3, <2>4, <2>5
    <3>2. QED
      BY <1>1, <1>2, <2>4, <2>5, <3>1, RewrittenItems
  <2>7. QED
    BY <2>1, <2>2, <2>3, <2>6
<1>12. CASE /\ Reused(first, t)
            /\ \E key \in Keys :
                  /\ KeyFor(v, cycle.clock, key)
                  /\ eventVector' = WithNodes([Marked(first, t) EXCEPT
                         ![LastOf(first, t)].dkey = key,
                         ![LastOf(first, t)].isMutable = Mutable(first, t)])
  <2>1. TagsIn(es, t) # {} /\ SameCycle(LastIn(es, t))
    BY <1>6, <1>9, <1>12 DEF Reused
  <2>2. PICK key \in Keys :
              /\ KeyFor(v, cycle.clock, key)
              /\ eventVector' = WithNodes([Marked(first, t) EXCEPT
                         ![LastOf(first, t)].dkey = key,
                         ![LastOf(first, t)].isMutable = Mutable(first, t)])
    BY <1>12
  <2>3. /\ ItemsOK(ev2, iv2)
        /\ \A j \in Items : j # i => NodesFrom(ev2, iv2[j]) = NodesFrom(ev, iv[j])
        /\ NodesFrom(ev2, iv2[i]) = Overwrote(es, t, key)
    <3>1. PICK f : f = [Marked(first, t) EXCEPT ![LastOf(first, t)].dkey = key,
                                                ![LastOf(first, t)].isMutable = Mutable(first, t)]
      OBVIOUS
    <3>2. Rekeyed(first, t, key, f)
      BY <3>1 DEF Rekeyed
    <3>3. ev2 = WithNodes(f)
      BY <1>1, <2>2, <3>1, Zenon
    <3>4. QED
      BY <1>11, <2>1, <3>2, <3>3
  <2>4. WasReused(es, t, v, NodesFrom(ev2, iv2[i]))
    BY <2>1, <2>2, <2>3 DEF WasReused
  <2>5. QED
    BY <2>3, <2>4 DEF TagEffect
<1>13. CASE /\ OfTag(first, t) # {} /\ ~Reused(first, t) /\ Repeated(first, t, v)
            /\ eventVector' = WithNodes([Marked(first, t) EXCEPT
                                            ![LastOf(first, t)].isMutable = Mutable(first, t)])
            /\ UNCHANGED dictVars
  <2>1. /\ TagsIn(es, t) # {} /\ ~SameCycle(LastIn(es, t))
        /\ given.compressMutable /\ ValueOf(LastIn(es, t)) = v
    BY <1>6, <1>9, <1>13 DEF Reused, Repeated
  <2>2. LastIn(es, t).dkey \in Keys
    <3>1. Max(TagsIn(es, t)) \in TagsIn(es, t)
      <4>1. TagsIn(es, t) \in SUBSET (1..Len(es))
        BY <1>7 DEF TagsIn
      <4>2. QED
        BY <1>7, <2>1, <4>1, Maximum
    <3>2. LastIn(es, t) \in Nodes /\ LastIn(es, t).type = "tag"
      BY <1>7, <3>1, ElementOfSeq DEF LastIn, TagsIn, IsTag
    <3>3. \A b \in BOOLEAN : LastIn(es, t) \in TagNodes
      BY <3>2, MarkedNode
    <3>4. QED
      BY <3>3 DEF TagNodes
  <2>3. /\ ItemsOK(ev2, iv2)
        /\ \A j \in Items : j # i => NodesFrom(ev2, iv2[j]) = NodesFrom(ev, iv[j])
        /\ NodesFrom(ev2, iv2[i]) = Overwrote(es, t, LastIn(es, t).dkey)
    <3>1. PICK f : f = [Marked(first, t) EXCEPT ![LastOf(first, t)].isMutable = Mutable(first, t)]
      OBVIOUS
    <3>2. PICK key : key = LastIn(es, t).dkey
      OBVIOUS
    <3>3. Rekeyed(first, t, key, f)
      BY <1>1, <1>3, <3>1, <3>2, Zenon DEF Rekeyed
    <3>4. ev2 = WithNodes(f)
      BY <1>1, <1>13, <3>1, Zenon
    <3>5. QED
      BY <1>11, <2>1, <2>2, <3>2, <3>3, <3>4
  <2>4. WasRepeated(es, t, v, NodesFrom(ev2, iv2[i]))
    BY <1>13, <2>1, <2>3 DEF WasRepeated
  <2>5. QED
    BY <2>3, <2>4 DEF TagEffect
<1>14. CASE /\ OfTag(first, t) # {} => ~Reused(first, t) /\ ~Repeated(first, t, v)
            /\ \E key \in Keys :
                  /\ KeyFor(v, cycle.clock, key)
                  /\ eventVector' = Stored(WithNodes(Marked(first, t)), first,
                                           TagNode(t, key, OfTag(first, t) # {}, FALSE))
  <2>1. TagsIn(es, t) # {} =>
          ~SameCycle(LastIn(es, t)) /\ ~(given.compressMutable /\ ValueOf(LastIn(es, t)) = v)
    BY <1>6, <1>9, <1>14 DEF Reused, Repeated
  <2>2. PICK key \in Keys :
            /\ KeyFor(v, cycle.clock, key)
            /\ eventVector' = Stored(WithNodes(Marked(first, t)), first,
                                     TagNode(t, key, OfTag(first, t) # {}, FALSE))
    BY <1>14
  <2>3. PICK n : n = TagNode(t, key, TagsIn(es, t) # {}, FALSE)
    OBVIOUS
  <2>4. n \in Nodes
    <3>1. (TagsIn(es, t) # {}) \in BOOLEAN /\ FALSE \in BOOLEAN
      OBVIOUS
    <3>2. TagNode(t, key, TagsIn(es, t) # {}, FALSE) \in TagNodes
      BY <3>1, NodesAre, Zenon
    <3>3. QED
      BY <2>3, <3>2 DEF Nodes
  <2>5. PICK f : f = Marked(first, t)
    OBVIOUS
  <2>6. PICK ev1 : ev1 = ReNoded(ev, f)
    OBVIOUS
  <2>7. PICK mk : mk = MarkedIn(es, t)
    OBVIOUS
  <2>8. DOMAIN mk = DOMAIN es /\ mk = [m \in DOMAIN mk |-> mk[m]]
    BY <2>7 DEF MarkedIn
  <2>9. /\ \A k \in 2..(Len(ev) + 1) : \A s \in 1..Len(ev[k - 1].content) :
              /\ f[<<k, s>>] \in Nodes
              /\ (~\E m \in DOMAIN ChainFrom(ev, first) :
                      ChainFrom(ev, first)[m] = <<k, s>>) =>
                    f[<<k, s>>] = NodeIn(ev, <<k, s>>)
        /\ \A m \in DOMAIN es : f[ChainFrom(ev, first)[m]] = mk[m]
    BY <1>1, <1>2, <1>3, <2>5, <2>7, MarkedIs
  <2>10. /\ ItemsOK(ev1, iv) /\ Len(ev1) = Len(ev)
         /\ ChainFrom(ev1, first) = ChainFrom(ev, first)
         /\ NodesFrom(ev1, first) = mk
         /\ \A j \in Items : j # i => NodesFrom(ev1, iv[j]) = NodesFrom(ev, iv[j])
    <3>1. DOMAIN mk = DOMAIN NodesFrom(ev, first)
          /\ \A m \in DOMAIN NodesFrom(ev, first) : f[ChainFrom(ev, first)[m]] = mk[m]
      BY <1>3, <2>8, <2>9
    <3>2. QED
      BY <1>1, <1>2, <2>6, <2>8, <2>9, <3>1, RewrittenItems
  <2>11. first # 0 => Chains(ev)[first] = Chains(ev1)[first]
    <3>1. first # 0 => ~(first <= 1)
      BY <1>2 DEF Begins
    <3>2. QED
      BY <2>10, <3>1 DEF ChainFrom
  <2>12. ev2 = StoredIn(ev1, first, n)
    <3>1. WithNodes(f) = ev1
      BY <1>1, <2>6, WithNodesIs
    <3>2. TagNode(t, key, OfTag(first, t) # {}, FALSE) = n
      BY <1>6, <2>3
    <3>3. eventVector' = Stored(ev1, first, n)
      BY <2>2, <2>5, <3>1, <3>2
    <3>4. Stored(ev1, first, n) = StoredIn(ev1, first, n)
      BY <1>1, <2>11, StoredIsStored
    <3>5. QED
      BY <1>1, <3>3, <3>4
  <2>13. Begun(ev1, iv, i, first, iv2) /\ Len(ev2) <= OFFSETS
    BY <1>1, <1>10, <2>10 DEF BeginOf, Begun
  <2>14. /\ ItemsOK(ev2, iv2)
         /\ NodesFrom(ev2, iv2[i]) = Append(mk, n)
         /\ \A j \in Items : j # i => NodesFrom(ev2, iv2[j]) = NodesFrom(ev1, iv[j])
    <3>2. /\ ItemsOK(ev2, iv2)
          /\ NodesFrom(ev2, iv2[i]) = Append(NodesFrom(ev1, first), n)
          /\ \A j \in Items : j # i => NodesFrom(ev2, iv2[j]) = NodesFrom(ev1, iv[j])
      BY <1>2, <2>4, <2>10, <2>12, <2>13, StoredItem
    <3>3. QED
      BY <2>10, <3>2
  <2>15. WasNew(es, t, v, NodesFrom(ev2, iv2[i]))
    BY <2>1, <2>2, <2>3, <2>7, <2>14 DEF WasNew
  <2>16. QED
    BY <2>10, <2>14, <2>15 DEF TagEffect
<1>15. QED
  BY <1>12, <1>13, <1>14 DEF newTag

(* Another entry, of an event or of a set of values.                       *)
LEMMA EntryStored ==
    ASSUME HeapOK, NEW i \in Items, Exists(i), NEW n \in Nodes, itemVector' = itemVector,
           eventVector' = Stored(eventVector, itemVector[i], n), Len(eventVector') <= OFFSETS
    PROVE  /\ HeapOK'
           /\ \A j \in Items : j # i => Entries(j)' = Entries(j)
           /\ Entries(i)' = Append(Entries(i), n)
<1>1. PICK ev, ev2, iv, iv2 :
         ev = eventVector /\ ev2 = eventVector' /\ iv = itemVector /\ iv2 = itemVector'
  OBVIOUS
<1>2. PICK first : first = itemVector[i]
  OBVIOUS
<1>3. ItemsOK(ev, iv) /\ first # 1 /\ first # 0 /\ iv2 = iv /\ first = iv[i] /\ iv \in [Items -> Nat]
  BY <1>1, <1>2, HeapIs DEF Exists, ITEM_UNUSED, ItemsOK
<1>4. Begins(iv, i, first) /\ Begun(ev, iv, i, first, iv2)
  <2>1. BeginOf(ev, first) = first
    BY <1>3 DEF BeginOf
  <2>2. iv = [iv EXCEPT ![i] = first]
    BY <1>3
  <2>3. QED
    BY <1>3, <2>1, <2>2 DEF Begins, Begun
<1>5. ev2 = StoredIn(ev, first, n) /\ Len(ev2) <= OFFSETS
  BY <1>1, <1>2, StoredIsStored
<1>6. /\ ItemsOK(ev2, iv2)
      /\ NodesFrom(ev2, iv2[i]) = Append(NodesFrom(ev, first), n)
      /\ \A j \in Items : j # i => NodesFrom(ev2, iv2[j]) = NodesFrom(ev, iv[j])
  BY <1>3, <1>4, <1>5, StoredItem
<1>7. /\ \A j \in Items : Entries(j) = NodesFrom(ev, iv[j])
      /\ \A j \in Items : Entries(j)' = NodesFrom(ev2, iv2[j])
  BY <1>1, EntriesAre, EntriesAreNext
<1>8. HeapOK'
  BY <1>1, <1>6, HeapIsNext
<1>9. QED
  BY <1>3, <1>6, <1>7, <1>8

LEMMA HeapUnchanged ==
    ASSUME HeapOK, itemVector' = itemVector, eventVector' = eventVector
    PROVE  HeapOK' /\ \A i \in Items : Entries(i)' = Entries(i)
<1>1. HeapOK'
  BY HeapIs, HeapIsNext
<1>2. QED
  BY <1>1, EntriesAre, EntriesAreNext

LEMMA NoEntries ==
    ASSUME NEW ev
    PROVE  NodesFrom(ev, 0) = <<>>
<1>1. ChainFrom(ev, 0) = <<>>
  BY DEF ChainFrom
<1>2. QED
  BY <1>1 DEF NodesFrom

LEMMA EntriesFacts ==
    ASSUME HeapOK, NEW i \in Items
    PROVE  /\ Entries(i) \in Seq(Nodes) /\ Len(Entries(i)) \in Nat
           /\ DOMAIN Entries(i) = 1..Len(Entries(i))
           /\ \A k \in DOMAIN Entries(i) : Entries(i)[k] \in Nodes
<1>1. IsHeap(eventVector) /\ itemVector[i] \in 0..(Len(eventVector) + 1)
  BY HeapFacts DEF HeapOK
<1>2. PICK es : es = Entries(i)
  OBVIOUS
<1>3. es = NodesFrom(eventVector, itemVector[i])
  BY <1>2, EntriesAre
<1>4. es \in Seq(Nodes) /\ Len(es) \in Nat /\ DOMAIN es = 1..Len(es)
  BY <1>1, <1>3, NodesFromIs
<1>5. \A k \in DOMAIN es : es[k] \in Nodes
  BY <1>4, ElementOfSeq
<1>6. QED
  BY <1>2, <1>4, <1>5

-----------------------------------------------------------------------------
(* What an entry is read as.                                               *)

(* Each clock has an internal clock of its own.                            *)
OwnInternals ==
    \A g \in Givens : \A c, d \in Clocks : g.internal[c] = g.internal[d] => c = d

LEMMA GivenIs ==
    ASSUME given \in Givens
    PROVE  /\ given.ratio \in [Clocks -> Nat \ {0}] /\ given.divisions \in [Clocks -> {1, 2}]
           /\ given.internal \in [Clocks -> Clocks] /\ given.start \in [Clocks -> Nat]
           /\ given.compressMutable \in BOOLEAN /\ given.backPropagate \in BOOLEAN
           /\ given.items \subseteq Items
           /\ given.sovTags \cap PlainTags = {}
           /\ given.tags \cup given.sovTags \subseteq AllTags /\ PlainTags \subseteq AllTags
           /\ given.events \subseteq AllEvents
<1>1. /\ given.ratio \in [Clocks -> Nat \ {0}] /\ given.divisions \in [Clocks -> {1, 2}]
      /\ given.internal \in [Clocks -> Clocks] /\ given.start \in [Clocks -> Nat]
      /\ given.compressMutable \in BOOLEAN /\ given.backPropagate \in BOOLEAN
      /\ given.items \subseteq Items
  BY GivensAssumption
<1>2. given.sovTags \cap PlainTags = {}
  <2>1. given.sovTags \cap (given.tags \cup {NEWITEM, DELITEM}) = {}
    BY GivensAssumption
  <2>2. QED
    BY <2>1 DEF PlainTags
<1>3. given.tags \cup given.sovTags \subseteq AllTags
  BY DEF AllTags, GivenTags
<1>4. PlainTags \subseteq AllTags
  BY <1>3 DEF PlainTags, AllTags
<1>5. given.events \subseteq AllEvents
  BY DEF AllEvents
<1>6. QED
  BY <1>1, <1>2, <1>3, <1>4, <1>5

LEMMA OwnClock ==
    ASSUME OwnInternals, given \in Givens, NEW c \in Clocks
    PROVE  internalToExternalClock(given.internal[c]) = c
<1>1. Clocks \subseteq Nat /\ \A d \in Clocks : given.internal[d] = given.internal[c] => d = c
  BY ItemClocksAssumption DEF OwnInternals
<1>2. /\ given.internal[c] = given.internal[c]
      /\ \A d \in Clocks : given.internal[d] = given.internal[c] => c <= d
  BY <1>1
<1>3. \A b \in Clocks : (/\ given.internal[b] = given.internal[c]
                         /\ \A d \in Clocks : given.internal[d] = given.internal[c] => b <= d) => b = c
  BY <1>1
<1>4. QED
  BY <1>2, <1>3 DEF internalToExternalClock

(* A clock was in one dictionary at a cycle.                               *)
LEMMA InOneDict ==
    ASSUME DictsOK, NEW c \in Clocks, NEW at \in Nat, NEW d \in 0..current(c), InDict(d, at, c)
    PROVE  DictAt(at, c) = d
<1>1. entered[c] \in Seq(Nat) /\ current(c) \in Nat /\ current(c) = Len(entered[c]) - 1
  BY DEF DictsOK, current
<1>2. \A e \in 0..current(c) : entered[c][e + 1] \in Nat
  <2>1. SUFFICES ASSUME NEW e \in 0..current(c) PROVE entered[c][e + 1] \in Nat
    OBVIOUS
  <2>2. e + 1 \in 1..Len(entered[c])
    BY <1>1
  <2>3. QED
    BY <1>1, <2>2, ElementOfSeq
<1>3. ASSUME NEW e \in 0..current(c), InDict(e, at, c) PROVE e = d
  <2>1. CASE e < d
    <3>1. e + 1 \in 0..d /\ (e + 1) + 1 = e + 2 /\ e < current(c) /\ e + 1 \in 0..current(c)
      BY <1>1, <2>1
    <3>2. entered[c][e + 2] <= at
      BY <3>1 DEF InDict
    <3>3. entered[c][e + 2] > at
      BY <1>3, <3>1 DEF InDict
    <3>4. entered[c][e + 2] \in Nat
      BY <1>2, <3>1
    <3>5. QED
      BY <3>2, <3>3, <3>4
  <2>2. CASE d < e
    <3>1. d + 1 \in 0..e /\ (d + 1) + 1 = d + 2 /\ d < current(c) /\ d + 1 \in 0..current(c)
      BY <1>1, <2>2
    <3>2. entered[c][d + 2] <= at
      BY <1>3, <3>1 DEF InDict
    <3>3. entered[c][d + 2] > at
      BY <3>1 DEF InDict
    <3>4. entered[c][d + 2] \in Nat
      BY <1>2, <3>1
    <3>5. QED
      BY <3>2, <3>3, <3>4
  <2>3. QED
    BY <1>1, <2>1, <2>2
<1>4. \A e \in 0..current(c) :
         ((\A b \in 0..e : entered[c][b + 1] <= at) /\ (e < current(c) => entered[c][e + 2] > at))
         <=> e = d
  BY <1>3 DEF InDict
<1>5. QED
  BY <1>4 DEF DictAt

(* What is read of an entry of the clock c.                                *)
LEMMA DecodedIs ==
    ASSUME OwnInternals, ClocksOK, DictsOK, NEW n \in Nodes, NEW c \in Clocks, NodeOf(n, c)
    PROVE  /\ internalToExternalClock(n.clockId) = c
           /\ AbsoluteCycle(n) = [clock |-> c, cycle |-> n.cycle + given.start[c],
                                  division |-> n.division]
           /\ AbsoluteCycle(n) \in CycleSet
           /\ Decoded(n) \in Records /\ Decoded(n).at = AbsoluteCycle(n)
           /\ n.type = "event" => Decoded(n) = [event |-> n.event, at |-> AbsoluteCycle(n)]
           /\ n.type # "event" =>
                 /\ Decoded(n) = [tag |-> n.tagId, value |-> ValueOf(n), at |-> AbsoluteCycle(n)]
                 /\ \A d \in 0..current(c) :
                       InDict(d, n.cycle, c) => ValueOf(n) = contents[d][n.dkey + 1]
<1>1. /\ given \in Givens /\ n.clockId = given.internal[c] /\ currentCycle[c] # -1
      /\ n.cycle + given.start[c] <= currentCycle[c]
  BY DEF ClocksOK, NodeOf
<1>2. internalToExternalClock(n.clockId) = c
  BY <1>1, OwnClock
<1>3. n.cycle \in Nat /\ n.division \in 0..1 /\ n.type \in {"tag", "event"}
  BY DEF Nodes, TagNodes, EventNodes
<1>4. /\ firstEffectiveCycle[n.clockId] = given.start[c]
      /\ currentCycle[c] \in given.start[c]..MaxCycle /\ given.start[c] \in Nat
  BY <1>1, GivenIs DEF ClocksOK
<1>5. AbsoluteCycle(n) = [clock |-> c, cycle |-> n.cycle + given.start[c], division |-> n.division]
  BY <1>2, <1>4 DEF AbsoluteCycle, RelativeCycle
<1>6. AbsoluteCycle(n) \in CycleSet
  <2>1. n.cycle + given.start[c] \in 0..MaxCycle
    BY <1>1, <1>3, <1>4, ItemSizesAssumption
  <2>2. QED
    BY <1>3, <1>5, <2>1 DEF CycleSet
<1>7. n.type = "event" => /\ Decoded(n) = [event |-> n.event, at |-> AbsoluteCycle(n)]
                          /\ Decoded(n) \in Records
  <2>1. SUFFICES ASSUME n.type = "event" PROVE n.event \in AllEvents
    BY <1>6 DEF Decoded, Records
  <2>2. QED
    BY <2>1 DEF Nodes, TagNodes, EventNodes
<1>8. ASSUME n.type # "event"
      PROVE  /\ Decoded(n) = [tag |-> n.tagId, value |-> ValueOf(n), at |-> AbsoluteCycle(n)]
             /\ n.tagId \in AllTags /\ n.type = "tag"
             /\ \A d \in 0..current(c) :
                   InDict(d, n.cycle, c) => ValueOf(n) = contents[d][n.dkey + 1]
             /\ ValueOf(n) \in AllValues
  <2>1. n.tagId \in AllTags /\ n.type = "tag"
    BY <1>8 DEF Nodes, TagNodes, EventNodes
  <2>2. ASSUME NEW d \in 0..current(c), InDict(d, n.cycle, c)
        PROVE  ValueOf(n) = contents[d][n.dkey + 1]
    <3>1. DictAt(n.cycle, c) = d
      BY <1>3, <2>2, InOneDict
    <3>2. QED
      BY <1>2, <3>1 DEF ValueOf, ValueByCycle
  <2>3. PICK d \in 0..current(c) : InDict(d, n.cycle, c) /\ n.dkey + 1 \in DOMAIN contents[d]
    BY <2>1 DEF NodeOf
  <2>4. contents[d] \in Seq(AllValues)
    <3>1. d \in 0..(MAXDICT - 1) /\ contents \in [0..(MAXDICT - 1) -> Seq(AllValues)]
      BY ItemSizesAssumption DEF DictsOK, current
    <3>2. QED
      BY <3>1
  <2>5. ValueOf(n) \in AllValues
    BY <2>2, <2>3, <2>4, ElementOfSeq
  <2>6. QED
    BY <1>8, <2>1, <2>2, <2>5 DEF Decoded
<1>9. n.type # "event" => Decoded(n) \in Records
  BY <1>6, <1>8 DEF Records
<1>10. Decoded(n).at = AbsoluteCycle(n)
  BY <1>7, <1>8
<1>11. QED
  BY <1>2, <1>5, <1>6, <1>7, <1>8, <1>9, <1>10

DecodesRight ==
    OwnInternals /\ ClocksOK /\ DictsOK =>
        \A n \in Nodes, c \in Clocks : NodeOf(n, c) =>
            /\ AbsoluteCycle(n) = [clock |-> c, cycle |-> n.cycle + given.start[c],
                                   division |-> n.division]
            /\ Decoded(n) \in Records
            /\ n.type = "event" => Decoded(n) = [event |-> n.event, at |-> AbsoluteCycle(n)]
            /\ n.type # "event" =>
                  /\ Decoded(n) = [tag |-> n.tagId, value |-> ValueOf(n), at |-> AbsoluteCycle(n)]
                  /\ \A d \in 0..current(c) :
                        InDict(d, n.cycle, c) => ValueOf(n) = contents[d][n.dkey + 1]

LEMMA DecodesRightNow == DecodesRight
<1>1. SUFFICES ASSUME OwnInternals, ClocksOK, DictsOK, NEW n \in Nodes, NEW c \in Clocks, NodeOf(n, c)
               PROVE  /\ AbsoluteCycle(n) = [clock |-> c, cycle |-> n.cycle + given.start[c],
                                             division |-> n.division]
                      /\ Decoded(n) \in Records
                      /\ n.type = "event" => Decoded(n) = [event |-> n.event, at |-> AbsoluteCycle(n)]
                      /\ n.type # "event" =>
                            /\ Decoded(n) = [tag |-> n.tagId, value |-> ValueOf(n),
                                             at |-> AbsoluteCycle(n)]
                            /\ \A d \in 0..current(c) :
                                  InDict(d, n.cycle, c) => ValueOf(n) = contents[d][n.dkey + 1]
  BY DEF DecodesRight
<1>2. QED
  BY <1>1, DecodedIs

(* The same in the next state.                                             *)
LEMMA DecodesRightNext == DecodesRight'
BY DecodesRightNow, PTL

(* The dictionaries only grew, and no clock went on to another.            *)
Grew ==
    /\ entered' = entered
    /\ contents' \in [0..(MAXDICT - 1) -> Seq(AllValues)]
    /\ \A d \in 0..(MAXDICT - 1) : \A k \in DOMAIN contents[d] :
          k \in DOMAIN contents'[d] /\ contents'[d][k] = contents[d][k]

LEMMA ClockInDict ==
    ASSUME ClocksOK, DictsOK, cycle # NULL
    PROVE  /\ current(cycle.clock) \in 0..(MAXDICT - 1)
           /\ InDict(current(cycle.clock), IntCycle, cycle.clock)
<1>1. PICK c \in Clocks : c = cycle.clock
  BY StampIs
<1>2. entered[c] \in Seq(Nat) /\ Len(entered[c]) \in 1..MAXDICT /\ current(c) = Len(entered[c]) - 1
  BY DEF DictsOK, current
<1>3. current(c) \in 0..(MAXDICT - 1)
  BY <1>2, ItemSizesAssumption
<1>4. IntCycle = currentCycle[c] - given.start[c] /\ currentCycle[c] # -1
  BY <1>1, StampIs
<1>5. \A e \in 0..current(c) : entered[c][e + 1] <= IntCycle
  <2>1. SUFFICES ASSUME NEW e \in 0..current(c) PROVE entered[c][e + 1] <= IntCycle
    OBVIOUS
  <2>2. e + 1 \in 1..Len(entered[c])
    BY <1>2
  <2>3. QED
    BY <1>4, <2>2 DEF DictsOK
<1>6. InDict(current(c), IntCycle, c)
  BY <1>2, <1>3, <1>5 DEF InDict
<1>7. QED
  BY <1>1, <1>3, <1>6

(* A value is given a key of the dictionary that the clock is in.          *)
LEMMA KeyGiven ==
    ASSUME ClocksOK, DictsOK, cycle # NULL, NEW v \in AllValues, NEW key,
           KeyFor(v, cycle.clock, key)
    PROVE  /\ Grew
           /\ key + 1 \in DOMAIN contents'[current(cycle.clock)]
           /\ contents'[current(cycle.clock)][key + 1] = v
<1>1. PICK c \in Clocks : c = cycle.clock
  BY StampIs
<1>2. PICK d \in 0..(MAXDICT - 1) : d = current(c)
  BY <1>1, ClockInDict
<1>3. PICK vs : vs = contents[d]
  OBVIOUS
<1>4. contents \in [0..(MAXDICT - 1) -> Seq(AllValues)] /\ vs \in Seq(AllValues)
  BY <1>3 DEF DictsOK
<1>5. entered' = entered
  BY DEF KeyFor
<1>6. CASE key + 1 \in DOMAIN vs /\ vs[key + 1] = v /\ UNCHANGED contents
  BY <1>1, <1>2, <1>3, <1>4, <1>5, <1>6 DEF Grew
<1>7. CASE key = Len(vs) /\ contents' = [contents EXCEPT ![d] = Append(vs, v)]
  <2>1. PICK vs2 : vs2 = Append(vs, v)
    OBVIOUS
  <2>2. /\ vs2 \in Seq(AllValues) /\ DOMAIN vs = 1..Len(vs) /\ DOMAIN vs2 = 1..(Len(vs) + 1)
        /\ Len(vs) \in Nat /\ vs2[Len(vs) + 1] = v /\ \A k \in 1..Len(vs) : vs2[k] = vs[k]
    BY <1>4, <2>1
  <2>3. contents'[d] = vs2 /\ \A e \in 0..(MAXDICT - 1) : e # d => contents'[e] = contents[e]
    BY <1>4, <1>7, <2>1
  <2>4. contents' \in [0..(MAXDICT - 1) -> Seq(AllValues)]
    BY <1>4, <1>7, <2>1, <2>2
  <2>5. \A e \in 0..(MAXDICT - 1) : \A k \in DOMAIN contents[e] :
          k \in DOMAIN contents'[e] /\ contents'[e][k] = contents[e][k]
    BY <1>3, <2>2, <2>3
  <2>6. key + 1 \in DOMAIN contents'[d] /\ contents'[d][key + 1] = v
    BY <1>7, <2>2, <2>3
  <2>7. QED
    BY <1>1, <1>2, <1>5, <2>4, <2>5, <2>6 DEF Grew
<1>8. QED
  BY <1>1, <1>2, <1>3, <1>6, <1>7 DEF KeyFor

LEMMA ClocksStay ==
    ASSUME ClocksOK, DictsOK, UNCHANGEDclocks, Grew
    PROVE  /\ ClocksOK' /\ DictsOK'
           /\ \A d, at, c : InDict(d, at, c)' <=> InDict(d, at, c)
<1>1. /\ given' = given /\ firstEffectiveCycle' = firstEffectiveCycle /\ cycle' = cycle
      /\ currentCycle' = currentCycle /\ entered' = entered
  BY DEF UNCHANGEDclocks, Grew
<1>2. ClocksOK'
  BY <1>1 DEF ClocksOK
<1>3. DictsOK'
  BY <1>1 DEF DictsOK, Grew
<1>4. \A d, at, c : InDict(d, at, c)' <=> InDict(d, at, c)
  BY <1>1 DEF InDict, current
<1>5. QED
  BY <1>2, <1>3, <1>4

(* An entry is read as before.                                             *)
LEMMA ReadAsBefore ==
    ASSUME OwnInternals, ClocksOK, DictsOK, UNCHANGEDclocks, Grew,
           NEW n \in Nodes, NEW c \in Clocks, NodeOf(n, c)
    PROVE  NodeOf(n, c)' /\ Decoded(n)' = Decoded(n)
<1>1. /\ given' = given /\ currentCycle' = currentCycle /\ entered' = entered
      /\ current(c)' = current(c)
  BY DEF UNCHANGEDclocks, Grew, current
<1>2. ClocksOK' /\ DictsOK' /\ \A d : InDict(d, n.cycle, c)' <=> InDict(d, n.cycle, c)
  BY ClocksStay
<1>3. \A d \in 0..current(c) : d \in 0..(MAXDICT - 1)
  BY ItemSizesAssumption DEF DictsOK, current
<1>4. NodeOf(n, c)'
  <2>1. n.type = "tag" =>
          \E d \in 0..current(c) : InDict(d, n.cycle, c)' /\ n.dkey + 1 \in DOMAIN contents'[d]
    BY <1>2, <1>3 DEF NodeOf, Grew
  <2>2. QED
    BY <1>1, <2>1 DEF NodeOf
<1>5. AbsoluteCycle(n)' = AbsoluteCycle(n)
  <2>1. AbsoluteCycle(n)
        = [clock |-> c, cycle |-> n.cycle + given.start[c], division |-> n.division]
    BY DecodesRightNow DEF DecodesRight
  <2>2. AbsoluteCycle(n)'
        = [clock |-> c, cycle |-> n.cycle + given'.start[c], division |-> n.division]
    BY <1>2, <1>4, DecodesRightNext DEF DecodesRight
  <2>3. QED
    BY <1>1, <2>1, <2>2
<1>6. CASE n.type = "event"
  <2>1. Decoded(n) = [event |-> n.event, at |-> AbsoluteCycle(n)]
    BY <1>6, DecodesRightNow DEF DecodesRight
  <2>2. Decoded(n)' = [event |-> n.event, at |-> AbsoluteCycle(n)']
    BY <1>2, <1>4, <1>6, DecodesRightNext DEF DecodesRight
  <2>3. QED
    BY <1>4, <1>5, <2>1, <2>2
<1>7. CASE n.type # "event"
  <2>1. /\ Decoded(n) = [tag |-> n.tagId, value |-> ValueOf(n), at |-> AbsoluteCycle(n)]
        /\ \A d \in 0..current(c) : InDict(d, n.cycle, c) => ValueOf(n) = contents[d][n.dkey + 1]
    BY <1>7, DecodesRightNow DEF DecodesRight
  <2>2. /\ Decoded(n)' = [tag |-> n.tagId, value |-> ValueOf(n)', at |-> AbsoluteCycle(n)']
        /\ \A d \in 0..current(c) : InDict(d, n.cycle, c)' => ValueOf(n)' = contents'[d][n.dkey + 1]
    BY <1>1, <1>2, <1>4, <1>7, DecodesRightNext DEF DecodesRight
  <2>3. n.type = "tag"
    BY <1>7 DEF Nodes, TagNodes, EventNodes
  <2>4. PICK d \in 0..current(c) : InDict(d, n.cycle, c) /\ n.dkey + 1 \in DOMAIN contents[d]
    BY <2>3 DEF NodeOf
  <2>5. ValueOf(n) = contents[d][n.dkey + 1] /\ ValueOf(n)' = contents'[d][n.dkey + 1]
    BY <1>2, <2>1, <2>2, <2>4
  <2>6. ValueOf(n)' = ValueOf(n)
    BY <1>3, <2>4, <2>5 DEF Grew
  <2>7. QED
    BY <1>4, <1>5, <2>1, <2>2, <2>6
<1>8. QED
  BY <1>4, <1>6, <1>7

(* A tag stored in this cycle is read with its value.                      *)
LEMMA NewTagRead ==
    ASSUME OwnInternals, ClocksOK, DictsOK, cycle # NULL, UNCHANGEDclocks,
           NEW v \in AllValues, NEW key \in Keys, KeyFor(v, cycle.clock, key),
           NEW n \in TagNodes, n.clockId = given.internal[cycle.clock], n.cycle = IntCycle,
           n.division \in 0..1, n.division < given.divisions[cycle.clock], n.dkey = key
    PROVE  /\ \E c \in Clocks : NodeOf(n, c)'
           /\ Decoded(n)' = [tag |-> n.tagId, value |-> v,
                             at |-> [clock |-> cycle.clock, cycle |-> cycle.cycle,
                                     division |-> n.division]]
<1>1. PICK c \in Clocks : c = cycle.clock
  BY StampIs
<1>2. /\ Grew /\ key + 1 \in DOMAIN contents'[current(c)]
      /\ contents'[current(c)][key + 1] = v
  BY <1>1, KeyGiven
<1>3. /\ given' = given /\ currentCycle' = currentCycle /\ entered' = entered
      /\ current(c)' = current(c) /\ cycle' = cycle
  BY <1>2 DEF UNCHANGEDclocks, Grew, current
<1>4. ClocksOK' /\ DictsOK' /\ \A d, at : InDict(d, at, c)' <=> InDict(d, at, c)
  BY <1>2, ClocksStay
<1>5. /\ current(c) \in 0..(MAXDICT - 1) /\ InDict(current(c), n.cycle, c)
      /\ current(c) \in 0..current(c)
  BY <1>1, ClockInDict
<1>6. /\ currentCycle[c] # -1 /\ n.cycle = cycle.cycle - given.start[c] /\ cycle.cycle \in Nat
      /\ given.start[c] \in Nat /\ cycle.cycle = currentCycle[c]
  BY <1>1, StampIs
<1>7. n.cycle + given.start[c] = cycle.cycle
  BY <1>6
<1>8. NodeOf(n, c)'
  <2>1. \E d \in 0..current(c) : InDict(d, n.cycle, c)' /\ n.dkey + 1 \in DOMAIN contents'[d]
    BY <1>2, <1>4, <1>5
  <2>2. QED
    BY <1>1, <1>3, <1>6, <1>7, <2>1 DEF NodeOf
<1>9. n.type # "event" /\ n \in Nodes
  BY DEF TagNodes, Nodes
<1>10. /\ AbsoluteCycle(n)'
          = [clock |-> c, cycle |-> n.cycle + given'.start[c], division |-> n.division]
       /\ Decoded(n)' = [tag |-> n.tagId, value |-> ValueOf(n)', at |-> AbsoluteCycle(n)']
       /\ \A d \in 0..current(c) : InDict(d, n.cycle, c)' => ValueOf(n)' = contents'[d][n.dkey + 1]
  BY <1>3, <1>4, <1>8, <1>9, DecodesRightNext DEF DecodesRight
<1>11. ValueOf(n)' = v
  BY <1>2, <1>4, <1>5, <1>10
<1>12. QED
  BY <1>1, <1>3, <1>7, <1>8, <1>10, <1>11

(* So is an event, at its cycle.                                           *)
LEMMA NewEventRead ==
    ASSUME OwnInternals, ClocksOK, DictsOK, cycle # NULL, UNCHANGEDclocks, Grew,
           NEW n \in EventNodes, n.clockId = given.internal[cycle.clock], n.cycle = IntCycle,
           n.division \in 0..1, n.division < given.divisions[cycle.clock]
    PROVE  /\ \E c \in Clocks : NodeOf(n, c)'
           /\ Decoded(n)' = [event |-> n.event,
                             at |-> [clock |-> cycle.clock, cycle |-> cycle.cycle,
                                     division |-> n.division]]
<1>1. PICK c \in Clocks : c = cycle.clock
  BY StampIs
<1>3. /\ given' = given /\ currentCycle' = currentCycle /\ cycle' = cycle
  BY DEF UNCHANGEDclocks
<1>4. ClocksOK' /\ DictsOK'
  BY ClocksStay
<1>6. /\ currentCycle[c] # -1 /\ n.cycle = cycle.cycle - given.start[c] /\ cycle.cycle \in Nat
      /\ given.start[c] \in Nat /\ cycle.cycle = currentCycle[c]
  BY <1>1, StampIs
<1>7. n.cycle + given.start[c] = cycle.cycle
  BY <1>6
<1>8. n.type = "event" /\ n \in Nodes
  BY DEF EventNodes, Nodes
<1>9. NodeOf(n, c)'
  BY <1>1, <1>3, <1>6, <1>7, <1>8 DEF NodeOf
<1>10. /\ AbsoluteCycle(n)'
          = [clock |-> c, cycle |-> n.cycle + given'.start[c], division |-> n.division]
       /\ Decoded(n)' = [event |-> n.event, at |-> AbsoluteCycle(n)']
  BY <1>4, <1>8, <1>9, DecodesRightNext DEF DecodesRight
<1>11. QED
  BY <1>1, <1>3, <1>7, <1>9, <1>10

(* Whether a tag is mutable is not read here.                              *)
LEMMA MutableNotRead ==
    ASSUME OwnInternals, ClocksOK, DictsOK, NEW n \in TagNodes, NEW n2 \in TagNodes,
           NEW c \in Clocks, NodeOf(n, c), n2.tagId = n.tagId, n2.dkey = n.dkey,
           n2.clockId = n.clockId, n2.cycle = n.cycle, n2.division = n.division
    PROVE  NodeOf(n2, c) /\ Decoded(n2) = Decoded(n)
<1>1. n.type = "tag" /\ n2.type = "tag" /\ n \in Nodes /\ n2 \in Nodes
  BY DEF TagNodes, Nodes
<1>2. NodeOf(n2, c)
  BY <1>1 DEF NodeOf
<1>3. AbsoluteCycle(n2) = AbsoluteCycle(n)
  BY DEF AbsoluteCycle, RelativeCycle
<1>4. ValueOf(n2) = ValueOf(n)
  BY DEF ValueOf
<1>5. Decoded(n2) = Decoded(n)
  BY <1>1, <1>3, <1>4 DEF Decoded
<1>6. QED
  BY <1>2, <1>5

LEMMA SameCycleIs ==
    ASSUME OwnInternals, ClocksOK, DictsOK, cycle # NULL, NEW n \in Nodes, NEW c \in Clocks,
           NodeOf(n, c)
    PROVE  SameCycle(n) <=> OfCycle(cycle, Decoded(n).at)
<1>1. /\ Decoded(n).at = [clock |-> c, cycle |-> n.cycle + given.start[c], division |-> n.division]
  BY DecodedIs
<1>2. n.clockId = given.internal[c] /\ n.cycle \in Nat
  BY DEF NodeOf, Nodes, TagNodes, EventNodes
<1>3. /\ IntCycle = cycle.cycle - given.start[cycle.clock] /\ cycle.clock \in Clocks
      /\ cycle.cycle \in Nat /\ given \in Givens
  BY StampIs
<1>4. given.internal[c] = given.internal[cycle.clock] <=> c = cycle.clock
  BY <1>3 DEF OwnInternals
<1>5. given.start[c] \in Nat
  BY <1>3, GivenIs
<1>6. ASSUME c = cycle.clock
      PROVE  n.cycle = IntCycle <=> n.cycle + given.start[c] = cycle.cycle
  BY <1>2, <1>3, <1>5, <1>6
<1>7. QED
  BY <1>1, <1>2, <1>4, <1>6 DEF SameCycle, OfCycle

-----------------------------------------------------------------------------
(* What the operations do to what is read.                                 *)

ReadsOf(es) == [k \in DOMAIN es |-> Decoded(es[k])]
AllOf(es) == es \in Seq(Nodes) /\ \A k \in DOMAIN es : \E c \in Clocks : NodeOf(es[k], c)

(* The entry k of a tag is given another value.                            *)
Revalued(rs, k, v) ==
    [m \in DOMAIN rs |-> IF m = k THEN [tag |-> rs[m].tag, value |-> v, at |-> rs[m].at] ELSE rs[m]]

TagSaid(t, v) == [tag |-> t, value |-> v, at |-> cycle]

(* The three cases of newTag: a tag of this cycle is overwritten, has the  *)
(* value already, or is stored.                                            *)
ReadReused(rs, t, v, rs2) ==
    Of(rs, t) # {} /\ OfCycle(cycle, rs[Max(Of(rs, t))].at) /\ rs2 = Revalued(rs, Max(Of(rs, t)), v)
ReadRepeated(rs, t, v, rs2) ==
    /\ Of(rs, t) # {} /\ ~OfCycle(cycle, rs[Max(Of(rs, t))].at)
    /\ given.compressMutable /\ rs[Max(Of(rs, t))].value = v
    /\ rs2 = rs
ReadNew(rs, t, v, rs2) ==
    /\ Of(rs, t) # {} => /\ ~OfCycle(cycle, rs[Max(Of(rs, t))].at)
                         /\ ~(given.compressMutable /\ rs[Max(Of(rs, t))].value = v)
    /\ rs2 = Append(rs, TagSaid(t, v))
ReadEffect(rs, t, v, rs2) ==
    ReadReused(rs, t, v, rs2) \/ ReadRepeated(rs, t, v, rs2) \/ ReadNew(rs, t, v, rs2)

LEMMA AllOfFacts ==
    ASSUME NEW es, AllOf(es)
    PROVE  /\ es \in Seq(Nodes) /\ Len(es) \in Nat /\ DOMAIN es = 1..Len(es)
           /\ \A k \in DOMAIN es : es[k] \in Nodes /\ \E c \in Clocks : NodeOf(es[k], c)
           /\ DOMAIN ReadsOf(es) = DOMAIN es
           /\ \A k \in DOMAIN es : ReadsOf(es)[k] = Decoded(es[k])
<1>1. es \in Seq(Nodes) /\ Len(es) \in Nat /\ DOMAIN es = 1..Len(es)
  BY DEF AllOf
<1>2. \A k \in DOMAIN es : es[k] \in Nodes
  BY <1>1, ElementOfSeq
<1>3. QED
  BY <1>1, <1>2 DEF AllOf, ReadsOf

(* The tags of single values are the ones read as such.                    *)
LEMMA TagsAreRead ==
    ASSUME OwnInternals, ClocksOK, DictsOK, NEW es, AllOf(es), NEW t \in PlainTags
    PROVE  Of(ReadsOf(es), t) = TagsIn(es, t)
<1>1. ASSUME NEW k \in DOMAIN es
      PROVE  IsPlain(ReadsOf(es)[k]) /\ ReadsOf(es)[k].tag = t <=> IsTag(es[k], t)
  <2>1. PICK n \in Nodes, c \in Clocks : n = es[k] /\ NodeOf(n, c) /\ ReadsOf(es)[k] = Decoded(n)
    BY AllOfFacts
  <2>2. CASE n.type = "event"
    <3>1. Decoded(n) = [event |-> n.event, at |-> AbsoluteCycle(n)]
      BY <2>1, <2>2, DecodedIs
    <3>2. "tag" \notin DOMAIN Decoded(n)
      BY <3>1
    <3>3. QED
      BY <2>1, <2>2, <3>2 DEF IsPlain, IsTag
  <2>3. CASE n.type # "event"
    <3>1. Decoded(n) = [tag |-> n.tagId, value |-> ValueOf(n), at |-> AbsoluteCycle(n)]
      BY <2>1, <2>3, DecodedIs
    <3>2. "tag" \in DOMAIN Decoded(n) /\ Decoded(n).tag = n.tagId
      BY <3>1
    <3>3. n.type = "tag"
      BY <2>3 DEF Nodes, TagNodes, EventNodes
    <3>4. QED
      BY <2>1, <3>2, <3>3 DEF IsPlain, IsTag
  <2>4. QED
    BY <2>2, <2>3
<1>2. DOMAIN ReadsOf(es) = DOMAIN es
  BY DEF ReadsOf
<1>3. QED
  BY <1>1, <1>2 DEF Of, TagsIn

(* The last entry of a tag, as it is read.                                 *)
LEMMA LastRead ==
    ASSUME OwnInternals, ClocksOK, DictsOK, cycle # NULL, NEW es, AllOf(es), NEW t \in PlainTags,
           TagsIn(es, t) # {}
    PROVE  LET x == Max(TagsIn(es, t))
           IN  /\ x \in DOMAIN es /\ x \in TagsIn(es, t) /\ \A k \in TagsIn(es, t) : k <= x
               /\ es[x] = LastIn(es, t) /\ es[x] \in TagNodes /\ es[x].tagId = t
               /\ ReadsOf(es)[x] = Decoded(es[x])
               /\ ReadsOf(es)[x].value = ValueOf(LastIn(es, t)) /\ ReadsOf(es)[x].tag = t
               /\ SameCycle(LastIn(es, t)) <=> OfCycle(cycle, ReadsOf(es)[x].at)
<1>1. PICK x : x = Max(TagsIn(es, t))
  OBVIOUS
<1>2. x \in DOMAIN es /\ IsTag(es[x], t) /\ x \in TagsIn(es, t) /\ \A k \in TagsIn(es, t) : k <= x
  <2>1. TagsIn(es, t) \in SUBSET (1..Len(es)) /\ Len(es) \in Nat
    BY AllOfFacts DEF TagsIn
  <2>2. x \in TagsIn(es, t) /\ \A k \in TagsIn(es, t) : k <= x
    BY <1>1, <2>1, Maximum
  <2>3. QED
    BY <2>2 DEF TagsIn
<1>3. PICK n \in Nodes, c \in Clocks : n = es[x] /\ NodeOf(n, c) /\ ReadsOf(es)[x] = Decoded(n)
  BY <1>2, AllOfFacts
<1>4. n.type = "tag" /\ n.tagId = t
  BY <1>2, <1>3 DEF IsTag
<1>5. n \in TagNodes
  <2>1. \A b \in BOOLEAN : n \in TagNodes
    BY <1>4, MarkedNode
  <2>2. QED
    BY <2>1
<1>6. Decoded(n) = [tag |-> n.tagId, value |-> ValueOf(n), at |-> AbsoluteCycle(n)]
  BY <1>3, <1>4, DecodedIs
<1>7. SameCycle(n) <=> OfCycle(cycle, Decoded(n).at)
  BY <1>3, SameCycleIs
<1>8. LastIn(es, t) = n
  BY <1>1, <1>3 DEF LastIn
<1>9. Decoded(n).value = ValueOf(n) /\ Decoded(n).tag = t
  BY <1>4, <1>6
<1>10. QED
  BY <1>1, <1>2, <1>3, <1>4, <1>5, <1>7, <1>8, <1>9

(* Entries that differ in nothing that is read.                            *)
SameRead(n, n2) ==
    \/ n2 = n
    \/ /\ n \in TagNodes /\ n2 \in TagNodes /\ n2.tagId = n.tagId /\ n2.dkey = n.dkey
       /\ n2.clockId = n.clockId /\ n2.cycle = n.cycle /\ n2.division = n.division

LEMMA SameReadIs ==
    ASSUME OwnInternals, ClocksOK, DictsOK, NEW n \in Nodes, NEW n2, SameRead(n, n2),
           NEW c \in Clocks, NodeOf(n, c)
    PROVE  n2 \in Nodes /\ NodeOf(n2, c) /\ Decoded(n2) = Decoded(n)
<1>1. CASE n2 = n
  BY <1>1
<1>2. CASE n2 # n
  <2>1. /\ n \in TagNodes /\ n2 \in TagNodes /\ n2.tagId = n.tagId /\ n2.dkey = n.dkey
        /\ n2.clockId = n.clockId /\ n2.cycle = n.cycle /\ n2.division = n.division
    BY <1>2 DEF SameRead
  <2>2. NodeOf(n2, c) /\ Decoded(n2) = Decoded(n)
    BY <2>1, MutableNotRead
  <2>3. QED
    BY <2>1, <2>2 DEF Nodes
<1>3. QED
  BY <1>1, <1>2

LEMMA SeqOfNodes ==
    ASSUME NEW es \in Seq(Nodes), NEW es2, es2 = [k \in DOMAIN es2 |-> es2[k]],
           DOMAIN es2 = DOMAIN es, \A k \in DOMAIN es2 : es2[k] \in Nodes
    PROVE  es2 \in Seq(Nodes) /\ Len(es2) = Len(es)
<1>1. DOMAIN es = 1..Len(es) /\ Len(es) \in Nat
  OBVIOUS
<1>2. es2 \in [1..Len(es) -> Nodes]
  BY <1>1
<1>3. es2 \in Seq(Nodes)
  BY <1>1, <1>2
<1>4. QED
  BY <1>1, <1>3

LEMMA SameReads ==
    ASSUME OwnInternals, ClocksOK, DictsOK, NEW es, AllOf(es), NEW es2,
           es2 = [k \in DOMAIN es2 |-> es2[k]], DOMAIN es2 = DOMAIN es,
           \A k \in DOMAIN es : SameRead(es[k], es2[k])
    PROVE  AllOf(es2) /\ ReadsOf(es2) = ReadsOf(es)
<1>1. /\ es \in Seq(Nodes) /\ \A k \in DOMAIN es : es[k] \in Nodes /\ \E c \in Clocks : NodeOf(es[k], c)
  BY AllOfFacts
<1>2. ASSUME NEW k \in DOMAIN es
      PROVE  es2[k] \in Nodes /\ (\E c \in Clocks : NodeOf(es2[k], c)) /\ Decoded(es2[k]) = Decoded(es[k])
  BY <1>1, <1>2, SameReadIs
<1>3. es2 \in Seq(Nodes)
  BY <1>1, <1>2, SeqOfNodes
<1>4. AllOf(es2)
  BY <1>2, <1>3 DEF AllOf
<1>5. ReadsOf(es2) = ReadsOf(es)
  BY <1>2 DEF ReadsOf
<1>6. QED
  BY <1>4, <1>5

LEMMA MarkedReads ==
    ASSUME NEW es \in Seq(Nodes), NEW t, NEW k \in DOMAIN es
    PROVE  SameRead(es[k], MarkedIn(es, t)[k]) /\ MarkedIn(es, t)[k] \in Nodes
<1>1. PICK n : n = es[k]
  OBVIOUS
<1>2. n \in Nodes
  BY <1>1, ElementOfSeq
<1>3. CASE IsTag(n, t)
  <2>1. PICK b \in BOOLEAN : b = TRUE
    OBVIOUS
  <2>2. n \in TagNodes /\ [n EXCEPT !.isMutable = b] \in Nodes
    BY <1>2, <1>3, MarkedNode DEF IsTag
  <2>3. MarkedIn(es, t)[k] = [n EXCEPT !.isMutable = b]
    BY <1>1, <1>3, <2>1 DEF MarkedIn
  <2>4. PICK m : m = [n EXCEPT !.isMutable = b]
    OBVIOUS
  <2>5. /\ m \in TagNodes /\ m.tagId = n.tagId /\ m.dkey = n.dkey
        /\ m.clockId = n.clockId /\ m.cycle = n.cycle /\ m.division = n.division
    BY <2>2, <2>4 DEF TagNodes
  <2>6. QED
    BY <1>1, <2>2, <2>3, <2>4, <2>5 DEF SameRead
<1>4. CASE ~IsTag(n, t)
  BY <1>1, <1>2, <1>4 DEF MarkedIn, SameRead
<1>5. QED
  BY <1>3, <1>4

(* Of the last entry, what may change is the key and whether it is mutable *)
LEMMA OverwroteIs ==
    ASSUME NEW es \in Seq(Nodes), NEW t, NEW key \in Keys, NEW k \in DOMAIN es
    PROVE  /\ k # Max(TagsIn(es, t)) => Overwrote(es, t, key)[k] = MarkedIn(es, t)[k]
           /\ k = Max(TagsIn(es, t)) /\ es[k] \in TagNodes =>
                 LET n == es[k]
                     m == Overwrote(es, t, key)[k]
                 IN  /\ m \in TagNodes /\ m.tagId = n.tagId /\ m.dkey = key
                     /\ m.clockId = n.clockId /\ m.cycle = n.cycle /\ m.division = n.division
                     /\ m.isMutable = Several(es, t)
           /\ DOMAIN Overwrote(es, t, key) = DOMAIN es
           /\ Overwrote(es, t, key) = [m \in DOMAIN es |-> Overwrote(es, t, key)[m]]
<1>1. PICK n : n = es[k]
  OBVIOUS
<1>2. PICK b \in BOOLEAN : b = Several(es, t)
  <2>1. Several(es, t) \in BOOLEAN
    BY DEF Several
  <2>2. QED
    BY <2>1
<1>3. PICK m : m = [n EXCEPT !.dkey = key, !.isMutable = b]
  OBVIOUS
<1>4. ASSUME n \in TagNodes
      PROVE  /\ m \in TagNodes /\ m.tagId = n.tagId /\ m.dkey = key /\ m.clockId = n.clockId
             /\ m.cycle = n.cycle /\ m.division = n.division /\ m.isMutable = b
  BY <1>3, <1>4 DEF TagNodes
<1>5. Overwrote(es, t, key)[k] = IF k = Max(TagsIn(es, t)) THEN m ELSE MarkedIn(es, t)[k]
  BY <1>1, <1>2, <1>3 DEF Overwrote
<1>6. /\ DOMAIN Overwrote(es, t, key) = DOMAIN es
      /\ Overwrote(es, t, key) = [l \in DOMAIN es |-> Overwrote(es, t, key)[l]]
  BY DEF Overwrote
<1>7. QED
  BY <1>1, <1>2, <1>4, <1>5, <1>6

(* Entries are read as before when the dictionaries grow.                  *)
LEMMA AllReadAsBefore ==
    ASSUME OwnInternals, ClocksOK, DictsOK, UNCHANGEDclocks, Grew, NEW es, AllOf(es)
    PROVE  AllOf(es)' /\ ReadsOf(es)' = ReadsOf(es)
<1>1. \A k \in DOMAIN es : es[k] \in Nodes /\ \E c \in Clocks : NodeOf(es[k], c)
  BY AllOfFacts
<1>2. \A k \in DOMAIN es : (\E c \in Clocks : NodeOf(es[k], c)') /\ Decoded(es[k])' = Decoded(es[k])
  BY <1>1, ReadAsBefore
<1>3. AllOf(es)'
  BY <1>2 DEF AllOf
<1>4. ReadsOf(es)' = ReadsOf(es)
  BY <1>2 DEF ReadsOf
<1>5. QED
  BY <1>3, <1>4

LEMMA ReusedRead ==
    ASSUME OwnInternals, ClocksOK, DictsOK, cycle # NULL, UNCHANGEDclocks,
           NEW es, AllOf(es), NEW t \in PlainTags, NEW v \in AllValues, NEW es2,
           WasReused(es, t, v, es2)
    PROVE  Grew /\ AllOf(es2)' /\ ReadReused(ReadsOf(es), t, v, ReadsOf(es2)')
<1>1. PICK x : x = Max(TagsIn(es, t))
  OBVIOUS
<1>2. PICK key \in Keys : KeyFor(v, cycle.clock, key) /\ es2 = Overwrote(es, t, key)
  BY DEF WasReused
<1>3. TagsIn(es, t) # {} /\ SameCycle(LastIn(es, t))
  BY DEF WasReused
<1>4. /\ x \in DOMAIN es /\ es[x] = LastIn(es, t) /\ es[x] \in TagNodes /\ es[x].tagId = t
      /\ ReadsOf(es)[x] = Decoded(es[x]) /\ ReadsOf(es)[x].tag = t
      /\ OfCycle(cycle, ReadsOf(es)[x].at)
  BY <1>1, <1>3, LastRead
<1>5. Grew
  BY <1>2, KeyGiven
<1>6. /\ es \in Seq(Nodes) /\ \A k \in DOMAIN es : es[k] \in Nodes /\ \E c \in Clocks : NodeOf(es[k], c)
      /\ DOMAIN ReadsOf(es) = DOMAIN es /\ \A k \in DOMAIN es : ReadsOf(es)[k] = Decoded(es[k])
  BY AllOfFacts
<1>7. /\ DOMAIN es2 = DOMAIN es /\ es2 = [k \in DOMAIN es2 |-> es2[k]]
      /\ \A k \in DOMAIN es : k # x => es2[k] = MarkedIn(es, t)[k]
  <2>1. \A k \in DOMAIN es : /\ k # Max(TagsIn(es, t)) => Overwrote(es, t, key)[k] = MarkedIn(es, t)[k]
                             /\ DOMAIN Overwrote(es, t, key) = DOMAIN es
                             /\ Overwrote(es, t, key) = [m \in DOMAIN es |-> Overwrote(es, t, key)[m]]
    BY <1>6, OverwroteIs
  <2>2. QED
    BY <1>1, <1>2, <1>4, <2>1
<1>8. ASSUME NEW k \in DOMAIN es, k # x
      PROVE  es2[k] \in Nodes /\ (\E c \in Clocks : NodeOf(es2[k], c)') /\ Decoded(es2[k])' = Decoded(es[k])
  <2>1. PICK c \in Clocks : NodeOf(es[k], c)
    BY <1>6
  <2>2. SameRead(es[k], es2[k])
    BY <1>6, <1>7, <1>8, MarkedReads
  <2>3. es2[k] \in Nodes /\ NodeOf(es2[k], c) /\ Decoded(es2[k]) = Decoded(es[k])
    BY <1>6, <2>1, <2>2, SameReadIs
  <2>4. NodeOf(es2[k], c)' /\ Decoded(es2[k])' = Decoded(es2[k])
    BY <1>5, <2>3, ReadAsBefore
  <2>5. QED
    BY <2>3, <2>4
<1>9. /\ es2[x] \in TagNodes /\ \E c \in Clocks : NodeOf(es2[x], c)'
      /\ Decoded(es2[x])' = [tag |-> t, value |-> v, at |-> ReadsOf(es)[x].at]
  <2>1. PICK n : n = es[x]
    OBVIOUS
  <2>2. PICK m : m = es2[x]
    OBVIOUS
  <2>3. /\ m \in TagNodes /\ m.tagId = n.tagId /\ m.dkey = key
        /\ m.clockId = n.clockId /\ m.cycle = n.cycle /\ m.division = n.division
    BY <1>1, <1>2, <1>4, <1>6, <2>1, <2>2, OverwroteIs
  <2>4. n.clockId = given.internal[cycle.clock] /\ n.cycle = IntCycle
    BY <1>3, <1>4, <2>1 DEF SameCycle
  <2>5. PICK c \in Clocks : NodeOf(n, c)
    BY <1>4, <1>6, <2>1
  <2>6. given \in Givens /\ cycle.clock \in Clocks
    BY StampIs
  <2>7. c = cycle.clock
    BY <2>4, <2>5, <2>6 DEF NodeOf, OwnInternals
  <2>8. n.division \in 0..1 /\ n.division < given.divisions[cycle.clock]
    BY <1>4, <2>1, <2>5, <2>7 DEF NodeOf, TagNodes
  <2>9. /\ \E b \in Clocks : NodeOf(m, b)'
        /\ Decoded(m)' = [tag |-> m.tagId, value |-> v,
                          at |-> [clock |-> cycle.clock, cycle |-> cycle.cycle,
                                  division |-> m.division]]
    BY <1>2, <2>3, <2>4, <2>8, NewTagRead
  <2>10. ReadsOf(es)[x].at
         = [clock |-> c, cycle |-> n.cycle + given.start[c], division |-> n.division]
    <3>1. n \in Nodes
      BY <1>4, <2>1 DEF Nodes
    <3>2. Decoded(n).at = [clock |-> c, cycle |-> n.cycle + given.start[c], division |-> n.division]
      BY <2>5, <3>1, DecodedIs
    <3>3. QED
      BY <1>4, <2>1, <3>2
  <2>11. ReadsOf(es)[x].at
         = [clock |-> cycle.clock, cycle |-> cycle.cycle, division |-> n.division]
    BY <1>4, <2>7, <2>10 DEF OfCycle
  <2>12. m.tagId = t
    BY <1>4, <2>1, <2>3
  <2>13. QED
    BY <2>2, <2>3, <2>9, <2>11, <2>12
<1>10. es2 \in Seq(Nodes)
  <2>1. \A k \in DOMAIN es2 : es2[k] \in Nodes
    BY <1>4, <1>7, <1>8, <1>9 DEF Nodes
  <2>2. QED
    BY <1>6, <1>7, <2>1, SeqOfNodes
<1>11. AllOf(es2)'
  <2>1. \A k \in DOMAIN es2 : \E c \in Clocks : NodeOf(es2[k], c)'
    BY <1>7, <1>8, <1>9
  <2>2. QED
    BY <1>10, <2>1 DEF AllOf
<1>12. ReadsOf(es2)' = Revalued(ReadsOf(es), x, v)
  <2>1. \A k \in DOMAIN es : Decoded(es2[k])'
           = IF k = x THEN [tag |-> ReadsOf(es)[k].tag, value |-> v, at |-> ReadsOf(es)[k].at]
             ELSE ReadsOf(es)[k]
    BY <1>4, <1>6, <1>8, <1>9
  <2>2. ReadsOf(es2)' = [k \in DOMAIN es |-> Decoded(es2[k])']
    BY <1>7 DEF ReadsOf
  <2>3. QED
    BY <1>6, <2>1, <2>2 DEF Revalued
<1>13. QED
  BY <1>1, <1>3, <1>4, <1>5, <1>11, <1>12, TagsAreRead DEF ReadReused

LEMMA RepeatedRead ==
    ASSUME OwnInternals, ClocksOK, DictsOK, cycle # NULL, UNCHANGEDclocks,
           NEW es, AllOf(es), NEW t \in PlainTags, NEW v \in AllValues, NEW es2,
           WasRepeated(es, t, v, es2)
    PROVE  Grew /\ AllOf(es2)' /\ ReadRepeated(ReadsOf(es), t, v, ReadsOf(es2)')
<1>1. PICK x : x = Max(TagsIn(es, t))
  OBVIOUS
<1>2. /\ TagsIn(es, t) # {} /\ ~SameCycle(LastIn(es, t))
      /\ given.compressMutable /\ ValueOf(LastIn(es, t)) = v
      /\ es2 = Overwrote(es, t, LastIn(es, t).dkey)
      /\ entered' = entered /\ contents' = contents
  BY DEF WasRepeated, dictVars
<1>3. /\ x \in DOMAIN es /\ es[x] = LastIn(es, t) /\ es[x] \in TagNodes
      /\ ReadsOf(es)[x].value = ValueOf(LastIn(es, t))
      /\ ~OfCycle(cycle, ReadsOf(es)[x].at)
  BY <1>1, <1>2, LastRead
<1>4. PICK key \in Keys : key = LastIn(es, t).dkey
  BY <1>3 DEF TagNodes
<1>5. Grew
  BY <1>2 DEF Grew, DictsOK
<1>6. es \in Seq(Nodes)
  BY AllOfFacts
<1>7. ASSUME NEW k \in DOMAIN es
      PROVE  /\ SameRead(es[k], es2[k]) /\ DOMAIN es2 = DOMAIN es
             /\ es2 = [m \in DOMAIN es |-> es2[m]]
  <2>1. /\ k # Max(TagsIn(es, t)) => es2[k] = MarkedIn(es, t)[k]
        /\ DOMAIN es2 = DOMAIN es
        /\ es2 = [m \in DOMAIN es |-> es2[m]]
    BY <1>2, <1>4, <1>6, OverwroteIs
  <2>2. CASE k = x
    <3>1. PICK n, m : n = es[k] /\ m = es2[k]
      OBVIOUS
    <3>2. /\ m \in TagNodes /\ m.tagId = n.tagId /\ m.dkey = key
          /\ m.clockId = n.clockId /\ m.cycle = n.cycle /\ m.division = n.division
      BY <1>1, <1>2, <1>3, <1>4, <1>6, <2>2, <3>1, OverwroteIs
    <3>3. n \in TagNodes /\ n.dkey = key
      BY <1>3, <1>4, <2>2, <3>1
    <3>4. QED
      BY <2>1, <3>1, <3>2, <3>3 DEF SameRead
  <2>3. CASE k # x
    BY <1>1, <1>6, <2>1, <2>3, MarkedReads
  <2>4. QED
    BY <2>1, <2>2, <2>3
<1>8. AllOf(es2) /\ ReadsOf(es2) = ReadsOf(es)
  BY <1>3, <1>7, SameReads
<1>9. AllOf(es2)' /\ ReadsOf(es2)' = ReadsOf(es)
  BY <1>5, <1>8, AllReadAsBefore
<1>10. Of(ReadsOf(es), t) = TagsIn(es, t)
  BY TagsAreRead
<1>11. QED
  BY <1>1, <1>2, <1>3, <1>5, <1>9, <1>10 DEF ReadRepeated

(* Another entry, the others being as before.                              *)
LEMMA AppendedReads ==
    ASSUME OwnInternals, ClocksOK, DictsOK, UNCHANGEDclocks, Grew,
           NEW es, AllOf(es), NEW es1, AllOf(es1), ReadsOf(es1) = ReadsOf(es),
           NEW n \in Nodes, NEW c \in Clocks, NodeOf(n, c)', NEW x, Decoded(n)' = x
    PROVE  AllOf(Append(es1, n))' /\ ReadsOf(Append(es1, n))' = Append(ReadsOf(es), x)
<1>1. PICK es2 : es2 = Append(es1, n)
  OBVIOUS
<1>2. es1 \in Seq(Nodes) /\ Len(es1) \in Nat /\ DOMAIN es1 = 1..Len(es1)
  BY AllOfFacts
<1>3. /\ es2 \in Seq(Nodes) /\ Len(es2) = Len(es1) + 1 /\ DOMAIN es2 = 1..(Len(es1) + 1)
      /\ es2[Len(es1) + 1] = n /\ \A k \in 1..Len(es1) : es2[k] = es1[k]
  BY <1>1, <1>2
<1>4. AllOf(es1)' /\ ReadsOf(es1)' = ReadsOf(es)
  BY AllReadAsBefore
<1>5. \A k \in DOMAIN es1 : \E b \in Clocks : NodeOf(es1[k], b)'
  BY <1>4 DEF AllOf
<1>6. AllOf(es2)'
  BY <1>2, <1>3, <1>5 DEF AllOf
<1>7. PICK rs : rs = ReadsOf(es)
  OBVIOUS
<1>8. rs = [k \in 1..Len(es1) |-> Decoded(es1[k])']
  BY <1>2, <1>4, <1>7 DEF ReadsOf
<1>9. ReadsOf(es2)' = [k \in 1..(Len(es1) + 1) |-> Decoded(es2[k])']
  BY <1>3 DEF ReadsOf
<1>10. ReadsOf(es2)' = Append(rs, x)
  <2>1. Len(rs) = Len(es1)
    BY <1>2, <1>8
  <2>2. Append(rs, x) = [k \in 1..(Len(es1) + 1) |-> IF k = Len(es1) + 1 THEN x ELSE rs[k]]
    BY <1>2, <1>8, <2>1
  <2>3. \A k \in 1..(Len(es1) + 1) : Decoded(es2[k])' = IF k = Len(es1) + 1 THEN x ELSE rs[k]
    BY <1>2, <1>3, <1>8
  <2>4. QED
    BY <1>9, <2>2, <2>3
<1>11. QED
  BY <1>1, <1>6, <1>7, <1>10

LEMMA NewRead ==
    ASSUME OwnInternals, ClocksOK, DictsOK, cycle # NULL, UNCHANGEDclocks,
           NEW es, AllOf(es), NEW t \in PlainTags, NEW v \in AllValues, NEW es2,
           WasNew(es, t, v, es2)
    PROVE  Grew /\ AllOf(es2)' /\ ReadNew(ReadsOf(es), t, v, ReadsOf(es2)')
<1>1. PICK key \in Keys :
         /\ KeyFor(v, cycle.clock, key)
         /\ es2 = Append(MarkedIn(es, t), TagNode(t, key, TagsIn(es, t) # {}, FALSE))
  BY DEF WasNew
<1>2. Grew
  BY <1>1, KeyGiven
<1>3. PICK es1 : es1 = MarkedIn(es, t)
  OBVIOUS
<1>4. AllOf(es1) /\ ReadsOf(es1) = ReadsOf(es)
  <2>1. DOMAIN es1 = DOMAIN es /\ es1 = [m \in DOMAIN es1 |-> es1[m]]
    BY <1>3 DEF MarkedIn
  <2>2. \A k \in DOMAIN es : SameRead(es[k], es1[k])
    BY <1>3, AllOfFacts, MarkedReads
  <2>3. QED
    BY <2>1, <2>2, SameReads
<1>6. PICK n : n = TagNode(t, key, TagsIn(es, t) # {}, FALSE)
  OBVIOUS
<1>7. /\ n \in TagNodes /\ n.tagId = t /\ n.dkey = key
      /\ n.clockId = given.internal[cycle.clock] /\ n.cycle = IntCycle
      /\ n.division = cycle.division
  <2>1. (TagsIn(es, t) # {}) \in BOOLEAN /\ FALSE \in BOOLEAN
    OBVIOUS
  <2>2. t \in AllTags
    BY StampIs, GivenIs
  <2>3. PICK m, s \in BOOLEAN : n = TagNode(t, key, m, s)
    BY <1>6, <2>1, Zenon
  <2>4. QED
    BY <2>2, <2>3, NodesAre
<1>8. cycle.division \in 0..1 /\ cycle.division < given.divisions[cycle.clock] /\ cycle \in CycleSet
  BY StampIs DEF ClocksOK
<1>9. cycle = [clock |-> cycle.clock, cycle |-> cycle.cycle, division |-> cycle.division]
  BY <1>8 DEF CycleSet
<1>10. /\ \E c \in Clocks : NodeOf(n, c)'
       /\ Decoded(n)' = [tag |-> n.tagId, value |-> v,
                         at |-> [clock |-> cycle.clock, cycle |-> cycle.cycle,
                                 division |-> n.division]]
  BY <1>1, <1>7, <1>8, NewTagRead
<1>11. Decoded(n)' = TagSaid(t, v)
  BY <1>7, <1>9, <1>10 DEF TagSaid
<1>12. AllOf(es2)' /\ ReadsOf(es2)' = Append(ReadsOf(es), TagSaid(t, v))
  <2>1. n \in Nodes /\ es2 = Append(es1, n)
    BY <1>1, <1>3, <1>6, <1>7 DEF Nodes
  <2>2. QED
    BY <1>2, <1>4, <1>10, <1>11, <2>1, AppendedReads
<1>13. Of(ReadsOf(es), t) = TagsIn(es, t)
  BY TagsAreRead
<1>14. ASSUME TagsIn(es, t) # {}
       PROVE  /\ ~OfCycle(cycle, ReadsOf(es)[Max(TagsIn(es, t))].at)
              /\ ~(given.compressMutable /\ ReadsOf(es)[Max(TagsIn(es, t))].value = v)
  <2>1. ~SameCycle(LastIn(es, t)) /\ ~(given.compressMutable /\ ValueOf(LastIn(es, t)) = v)
    BY <1>14 DEF WasNew
  <2>2. LET x == Max(TagsIn(es, t))
        IN  /\ ReadsOf(es)[x].value = ValueOf(LastIn(es, t))
            /\ SameCycle(LastIn(es, t)) <=> OfCycle(cycle, ReadsOf(es)[x].at)
    BY <1>14, LastRead
  <2>3. QED
    BY <2>1, <2>2
<1>15. QED
  BY <1>2, <1>12, <1>13, <1>14 DEF ReadNew

(* What newTag does to what is read.                                       *)
LEMMA TagRead ==
    ASSUME OwnInternals, ClocksOK, DictsOK, cycle # NULL, UNCHANGEDclocks,
           NEW es, AllOf(es), NEW t \in PlainTags, NEW v \in AllValues, NEW es2,
           TagEffect(es, t, v, es2)
    PROVE  Grew /\ AllOf(es2)' /\ ReadEffect(ReadsOf(es), t, v, ReadsOf(es2)')
BY ReusedRead, RepeatedRead, NewRead DEF TagEffect, ReadEffect

-----------------------------------------------------------------------------
(* A value more.                                                           *)

(* The last value of a tag went to its last entry, and is that of it.      *)
LEMMA LastLinked ==
    ASSUME NEW rs, NEW ls, NEW t, NEW g \in [Of(ls, t) -> Of(rs, t)], LinkedBy(rs, ls, t, g),
           Of(ls, t) \subseteq Nat, Of(rs, t) \subseteq Nat,
           NEW u \in Of(ls, t), \A x \in Of(ls, t) : x <= u,
           NEW z \in Of(rs, t), \A k \in Of(rs, t) : k <= z
    PROVE  g[u] = z /\ ls[u].value = rs[z].value
<1>1. PICK w \in Of(ls, t) : g[w] = z
  BY DEF LinkedBy, Founded
<1>2. z <= g[u]
  BY <1>1 DEF LinkedBy, InTurn
<1>3. g[u] \in Of(rs, t) /\ g[u] \in Nat /\ z \in Nat
  OBVIOUS
<1>4. g[u] = z
  BY <1>2, <1>3
<1>5. ~\E x \in Of(ls, t) : u < x
  OBVIOUS
<1>6. ls[u].value = rs[g[u]].value
  BY <1>5 DEF LinkedBy, StillThere
<1>7. QED
  BY <1>4, <1>6

(* The value w0 after the others goes to the entry y, the last one or a    *)
(* new one.                                                                *)
Extends(rs, ls, t, rs2, ls2, w0, y) ==
    /\ Of(ls, t) \subseteq Nat /\ Of(ls2, t) = Of(ls, t) \cup {w0} /\ w0 \in Nat
    /\ Of(rs, t) \subseteq Nat /\ Of(rs2, t) = Of(rs, t) \cup {y} /\ y \in Nat
    /\ \A w \in Of(ls, t) : w < w0 /\ ls2[w] = ls[w]
    /\ \A k \in Of(rs, t) : k <= y /\ rs2[k].at = rs[k].at /\ (k # y => rs2[k].value = rs[k].value)

LEMMA LinkExtended ==
    ASSUME NEW rs, NEW ls, NEW t, NEW g \in [Of(ls, t) -> Of(rs, t)], LinkedBy(rs, ls, t, g),
           NEW rs2, NEW ls2, NEW w0, NEW y, Extends(rs, ls, t, rs2, ls2, w0, y),
           toLCM(rs2[y].at) <= toLCM(ls2[w0].at), ls2[w0].value = rs2[y].value,
           y \notin Of(rs, t) => ls2[w0].at = rs2[y].at,
           y \in Of(rs, t) /\ rs2[y].value # rs[y].value => OfCycle(ls2[w0].at, rs2[y].at),
           \A z \in Of(rs, t) : (\A k \in Of(rs, t) : k <= z) =>
              (y = z <=> \/ OfCycle(ls2[w0].at, rs[z].at)
                         \/ given.compressMutable /\ ls2[w0].value = rs[z].value)
    PROVE  \E g2 \in [Of(ls2, t) -> Of(rs2, t)] : LinkedBy(rs2, ls2, t, g2)
<1>1. PICK W, K : W = Of(ls, t) /\ K = Of(rs, t)
  OBVIOUS
<1>2. /\ Of(ls2, t) = W \cup {w0} /\ Of(rs2, t) = K \cup {y}
      /\ W \subseteq Nat /\ K \subseteq Nat /\ w0 \in Nat /\ y \in Nat
      /\ \A w \in W : w < w0 /\ w # w0 /\ w \in Nat /\ ls2[w] = ls[w]
      /\ \A k \in K : k <= y /\ k \in Nat /\ rs2[k].at = rs[k].at
                      /\ (k # y => rs2[k].value = rs[k].value)
  BY <1>1 DEF Extends
<1>3. g \in [W -> K] /\ \A w \in W : g[w] \in K
  BY <1>1
<1>4. PICK g2 : g2 = [w \in W \cup {w0} |-> IF w = w0 THEN y ELSE g[w]]
  OBVIOUS
<1>5. g2 \in [W \cup {w0} -> K \cup {y}] /\ g2[w0] = y /\ \A w \in W : g2[w] = g[w]
  BY <1>2, <1>3, <1>4
<1>6. NotLater(rs2, ls2, t, g2)
  <2>1. ASSUME NEW w \in W PROVE toLCM(rs2[g2[w]].at) <= toLCM(ls2[w].at)
    <3>1. toLCM(rs[g[w]].at) <= toLCM(ls[w].at)
      BY <1>1 DEF LinkedBy, NotLater
    <3>2. g2[w] = g[w] /\ g[w] \in K
      BY <1>3, <1>5
    <3>3. rs2[g[w]].at = rs[g[w]].at /\ ls2[w] = ls[w]
      BY <1>2, <3>2
    <3>4. QED
      BY <3>1, <3>2, <3>3
  <2>2. toLCM(rs2[g2[w0]].at) <= toLCM(ls2[w0].at)
    BY <1>5
  <2>3. QED
    BY <1>2, <2>1, <2>2 DEF NotLater
<1>7. InTurn(ls2, t, g2)
  <2>1. SUFFICES ASSUME NEW u \in W \cup {w0}, NEW w \in W \cup {w0}, u <= w
                 PROVE  g2[u] <= g2[w]
    BY <1>2 DEF InTurn
  <2>2. CASE u \in W /\ w \in W
    BY <1>1, <1>5, <2>1, <2>2 DEF LinkedBy, InTurn
  <2>3. CASE u \in W /\ w = w0
    BY <1>2, <1>3, <1>5, <2>3
  <2>4. CASE u = w0
    <3>1. w = w0
      BY <1>2, <2>1, <2>4
    <3>2. QED
      BY <1>2, <1>5, <2>4, <3>1
  <2>5. QED
    BY <2>1, <2>2, <2>3, <2>4
<1>8. Founded(rs2, ls2, t, g2)
  <2>1. ASSUME NEW k \in K
        PROVE  \E w \in W \cup {w0} : /\ g2[w] = k /\ ls2[w].at = rs2[k].at
                                      /\ \A u \in W \cup {w0} : u < w => g2[u] # k
    <3>1. PICK w \in W : g[w] = k /\ ls[w].at = rs[k].at /\ \A u \in W : u < w => g[u] # k
      BY <1>1 DEF LinkedBy, Founded
    <3>2. g2[w] = k /\ ls2[w].at = rs2[k].at
      BY <1>2, <1>5, <3>1
    <3>3. ASSUME NEW u \in W \cup {w0}, u < w PROVE g2[u] # k
      <4>1. u \in W
        BY <1>2, <3>3
      <4>2. QED
        BY <1>5, <3>1, <3>3, <4>1
    <3>4. QED
      BY <3>2, <3>3
  <2>2. ASSUME y \notin K
        PROVE  \E w \in W \cup {w0} : /\ g2[w] = y /\ ls2[w].at = rs2[y].at
                                      /\ \A u \in W \cup {w0} : u < w => g2[u] # y
    <3>1. g2[w0] = y /\ ls2[w0].at = rs2[y].at
      BY <1>1, <1>5, <2>2
    <3>2. ASSUME NEW u \in W \cup {w0}, u < w0 PROVE g2[u] # y
      <4>1. u \in W
        BY <1>2, <3>2
      <4>2. QED
        BY <1>3, <1>5, <2>2, <4>1
    <3>3. QED
      BY <3>1, <3>2
  <2>3. \A k \in K \cup {y} :
           \E w \in W \cup {w0} : /\ g2[w] = k /\ ls2[w].at = rs2[k].at
                                 /\ \A u \in W \cup {w0} : u < w => g2[u] # k
    <3>1. SUFFICES ASSUME NEW k \in K \cup {y}
                   PROVE  \E w \in W \cup {w0} : /\ g2[w] = k /\ ls2[w].at = rs2[k].at
                                                /\ \A u \in W \cup {w0} : u < w => g2[u] # k
      OBVIOUS
    <3>2. CASE k \in K
      BY <2>1, <3>2
    <3>3. CASE k = y /\ y \notin K
      BY <2>2, <3>3
    <3>4. QED
      BY <3>1, <3>2, <3>3
  <2>4. Of(ls2, t) = W \cup {w0} /\ Of(rs2, t) = K \cup {y}
    BY <1>2
  <2>5. PICK W2, K2 : W2 = Of(ls2, t) /\ K2 = Of(rs2, t)
    OBVIOUS
  <2>6. \A k \in K2 : \E w \in W2 :
            g2[w] = k /\ ls2[w].at = rs2[k].at /\ \A u \in W2 : u < w => g2[u] # k
    BY <2>3, <2>4, <2>5
  <2>7. QED
    BY <2>5, <2>6 DEF Founded
<1>9. StillThere(rs2, ls2, t, g2)
  <2>1. ASSUME NEW w \in W
        PROVE  \/ ls2[w].value = rs2[g2[w]].value
               \/ \E x \in W \cup {w0} : w < x /\ g2[x] = g2[w] /\ OfCycle(ls2[x].at, rs2[g2[w]].at)
    <3>1. g2[w] = g[w] /\ g[w] \in K /\ rs2[g[w]].at = rs[g[w]].at /\ ls2[w] = ls[w]
      BY <1>2, <1>3, <1>5
    <3>2. CASE ls[w].value = rs[g[w]].value
      <4>1. CASE rs2[g[w]].value = rs[g[w]].value
        BY <3>1, <3>2, <4>1
      <4>2. CASE rs2[g[w]].value # rs[g[w]].value
        <5>1. g[w] = y
          BY <1>2, <3>1, <4>2
        <5>2. OfCycle(ls2[w0].at, rs2[y].at)
          BY <1>1, <3>1, <4>2, <5>1
        <5>3. QED
          BY <1>2, <1>5, <3>1, <5>1, <5>2
      <4>3. QED
        BY <4>1, <4>2
    <3>3. CASE \E x \in W : w < x /\ g[x] = g[w] /\ OfCycle(ls[x].at, rs[g[w]].at)
      <4>1. PICK x \in W : w < x /\ g[x] = g[w] /\ OfCycle(ls[x].at, rs[g[w]].at)
        BY <3>3
      <4>2. g2[x] = g2[w] /\ OfCycle(ls2[x].at, rs2[g2[w]].at)
        BY <1>2, <1>5, <3>1, <4>1
      <4>3. QED
        BY <4>1, <4>2
    <3>4. QED
      BY <1>1, <3>2, <3>3 DEF LinkedBy, StillThere
  <2>2. ls2[w0].value = rs2[g2[w0]].value
    BY <1>5
  <2>3. QED
    BY <1>2, <2>1, <2>2 DEF StillThere
<1>10. WentOn(rs2, ls2, t, g2)
  <2>1. SUFFICES ASSUME NEW u \in W \cup {w0}, NEW w \in W \cup {w0}, u < w,
                        \A x \in W \cup {w0} : x <= u \/ w <= x
                 PROVE  g2[u] = g2[w] <=> \/ OfCycle(ls2[w].at, rs2[g2[u]].at)
                                          \/ given.compressMutable /\ ls2[w].value = ls2[u].value
    <3>1. Of(ls2, t) = W \cup {w0}
      BY <1>2
    <3>2. QED
      BY ONLY <2>1, <3>1, Zenon DEF WentOn
  <2>2. u \in W
    BY <1>2, <2>1
  <2>3. g2[u] = g[u] /\ g[u] \in K /\ rs2[g[u]].at = rs[g[u]].at /\ ls2[u] = ls[u]
    BY <1>2, <1>3, <1>5, <2>2
  <2>4. CASE w \in W
    <3>1. g[u] = g[w] <=> \/ OfCycle(ls[w].at, rs[g[u]].at)
                          \/ given.compressMutable /\ ls[w].value = ls[u].value
      BY <1>1, <2>1, <2>2, <2>4 DEF LinkedBy, WentOn
    <3>2. g2[w] = g[w] /\ ls2[w] = ls[w]
      BY <1>2, <1>5, <2>4
    <3>3. QED
      BY <2>3, <3>1, <3>2
  <2>5. CASE w = w0
    <3>1. \A x \in W : x <= u
      BY <1>2, <2>1, <2>5
    <3>2. PICK z \in K : \A k \in K : k <= z
      <4>1. PICK x \in W : g[x] = g[u] /\ \A k \in K : TRUE
        BY <2>2
      <4>2. ASSUME NEW k \in K PROVE k <= g[u]
        <5>1. PICK r \in W : g[r] = k
          BY <1>1 DEF LinkedBy, Founded
        <5>2. r <= u
          BY <3>1
        <5>3. QED
          BY <1>1, <2>2, <5>1, <5>2 DEF LinkedBy, InTurn
      <4>3. QED
        BY <2>3, <4>2
    <3>3. g[u] = z /\ ls[u].value = rs[z].value
      BY <1>1, <1>2, <2>2, <3>1, <3>2, LastLinked
    <3>4. y = z <=> \/ OfCycle(ls2[w0].at, rs[z].at)
                    \/ given.compressMutable /\ ls2[w0].value = rs[z].value
      BY <1>1, <3>2
    <3>5. g2[u] = g2[w] <=> y = z
      BY <1>5, <2>3, <2>5, <3>3
    <3>6. QED
      BY <2>3, <2>5, <3>3, <3>4, <3>5
  <2>6. QED
    BY <2>4, <2>5
<1>11. QED
  BY <1>2, <1>5, <1>6, <1>7, <1>8, <1>9, <1>10 DEF LinkedBy

(* Another tag is as before.                                               *)
LEMMA LinkSame ==
    ASSUME NEW rs, NEW ls, NEW t, NEW g \in [Of(ls, t) -> Of(rs, t)], LinkedBy(rs, ls, t, g),
           NEW rs2, NEW ls2, Of(ls2, t) = Of(ls, t), Of(rs2, t) = Of(rs, t),
           \A w \in Of(ls, t) : ls2[w] = ls[w], \A k \in Of(rs, t) : rs2[k] = rs[k]
    PROVE  \E g2 \in [Of(ls2, t) -> Of(rs2, t)] : LinkedBy(rs2, ls2, t, g2)
<1>1. \A w \in Of(ls, t) : g[w] \in Of(rs, t) /\ rs2[g[w]] = rs[g[w]]
  OBVIOUS
<1>2. NotLater(rs2, ls2, t, g) /\ InTurn(ls2, t, g)
  BY <1>1 DEF LinkedBy, NotLater, InTurn
<1>3. Founded(rs2, ls2, t, g)
  BY <1>1 DEF LinkedBy, Founded
<1>4. StillThere(rs2, ls2, t, g)
  BY <1>1 DEF LinkedBy, StillThere
<1>5. WentOn(rs2, ls2, t, g)
  BY <1>1 DEF LinkedBy, WentOn
<1>6. QED
  BY <1>2, <1>3, <1>4, <1>5 DEF LinkedBy

LEMMA TimeIsNat ==
    ASSUME given \in Givens, NEW x \in CycleSet
    PROVE  toLCM(x) \in Nat
<1>1. x.clock \in Clocks /\ x.cycle \in Nat /\ x.division \in 0..1
  BY ItemSizesAssumption DEF CycleSet
<1>2. given.ratio[x.clock] \in Nat
  BY <1>1, GivenIs
<1>3. \A a, b \in Nat : a * b \in Nat
  OBVIOUS
<1>4. 2 * x.cycle + x.division \in Nat
  BY <1>1
<1>5. QED
  BY <1>2, <1>3, <1>4 DEF toLCM

LEMMA OrderedFacts ==
    ASSUME given \in Givens, NEW s, Ordered(s)
    PROVE  /\ s \in Seq(Records) /\ DOMAIN s = 1..Len(s) /\ Len(s) \in Nat
           /\ \A k \in DOMAIN s : s[k] \in Records /\ s[k].at \in CycleSet /\ toLCM(s[k].at) \in Nat
           /\ \A t : Of(s, t) \subseteq 1..Len(s) /\ Of(s, t) \subseteq Nat
<1>1. s \in Seq(Records) /\ DOMAIN s = 1..Len(s) /\ Len(s) \in Nat
  BY DEF Ordered
<1>2. \A k \in DOMAIN s : s[k] \in Records
  BY <1>1, ElementOfSeq
<1>3. \A k \in DOMAIN s : s[k].at \in CycleSet
  BY <1>2 DEF Records
<1>4. \A t : Of(s, t) \subseteq 1..Len(s) /\ Of(s, t) \subseteq Nat
  BY <1>1 DEF Of
<1>5. QED
  BY <1>1, <1>2, <1>3, <1>4, TimeIsNat

LEMMA OrderedAppend ==
    ASSUME ClocksOK, cycle # NULL, NEW s, Ordered(s), NEW x \in Records, x.at = cycle
    PROVE  Ordered(Append(s, x))
<1>1. /\ s \in Seq(Records) /\ DOMAIN s = 1..Len(s) /\ Len(s) \in Nat
      /\ \A k \in DOMAIN s : toLCM(s[k].at) \in Nat
  BY OrderedFacts DEF ClocksOK
<1>2. PICK s2 : s2 = Append(s, x)
  OBVIOUS
<1>3. /\ s2 \in Seq(Records) /\ DOMAIN s2 = 1..(Len(s) + 1)
      /\ s2[Len(s) + 1] = x /\ \A k \in 1..Len(s) : s2[k] = s[k]
  BY <1>1, <1>2
<1>4. /\ currentCycle[cycle.clock] # -1 /\ cycle.division < given.divisions[cycle.clock]
      /\ toLCM(cycle) \in Nat
  BY StampIs, TimeIsNat DEF ClocksOK
<1>5. ASSUME NEW k \in 1..(Len(s) + 1)
      PROVE  /\ currentCycle[s2[k].at.clock] # -1
             /\ s2[k].at.division < given.divisions[s2[k].at.clock]
             /\ toLCM(s2[k].at) <= toLCM(cycle) /\ toLCM(s2[k].at) \in Nat
  <2>1. CASE k = Len(s) + 1
    BY <1>3, <1>4, <2>1
  <2>2. CASE k \in 1..Len(s)
    BY <1>1, <1>3, <2>2 DEF Ordered
  <2>3. QED
    BY <1>1, <2>1, <2>2
<1>6. ASSUME NEW k \in 1..(Len(s) + 1), NEW l \in 1..(Len(s) + 1), k <= l
      PROVE  toLCM(s2[k].at) <= toLCM(s2[l].at)
  <2>1. CASE l = Len(s) + 1
    BY <1>3, <1>5, <2>1
  <2>2. CASE l \in 1..Len(s)
    <3>1. k \in 1..Len(s)
      BY <1>1, <1>6, <2>2
    <3>2. QED
      BY <1>1, <1>3, <1>6, <2>2, <3>1 DEF Ordered
  <2>3. QED
    BY <1>1, <2>1, <2>2
<1>7. QED
  BY <1>2, <1>3, <1>5, <1>6 DEF Ordered

LEMMA OrderedRevalued ==
    ASSUME given \in Givens, NEW s, Ordered(s), NEW k \in DOMAIN s, s[k].tag \in AllTags,
           NEW v \in AllValues
    PROVE  Ordered(Revalued(s, k, v))
<1>1. /\ s \in Seq(Records) /\ DOMAIN s = 1..Len(s) /\ Len(s) \in Nat
      /\ \A m \in DOMAIN s : s[m] \in Records /\ s[m].at \in CycleSet
  BY OrderedFacts
<1>2. PICK s2 : s2 = Revalued(s, k, v)
  OBVIOUS
<1>3. DOMAIN s2 = DOMAIN s /\ \A m \in DOMAIN s : s2[m].at = s[m].at /\ s2[m] \in Records
  <2>1. \A m \in DOMAIN s : m # k => s2[m] = s[m]
    BY <1>2 DEF Revalued
  <2>2. s2[k] = [tag |-> s[k].tag, value |-> v, at |-> s[k].at]
    BY <1>2 DEF Revalued
  <2>3. s2[k].at = s[k].at /\ s2[k] \in Records
    BY <1>1, <2>2 DEF Records
  <2>4. DOMAIN s2 = DOMAIN s
    BY <1>2 DEF Revalued
  <2>5. QED
    BY <1>1, <2>1, <2>3, <2>4
<1>4. s2 \in Seq(Records)
  <2>1. s2 = [m \in 1..Len(s) |-> s2[m]]
    BY <1>1, <1>2 DEF Revalued
  <2>2. s2 \in [1..Len(s) -> Records]
    BY <1>1, <1>3, <2>1
  <2>3. QED
    BY <1>1, <2>2
<1>5. \A m \in DOMAIN s2 :
          /\ currentCycle[s2[m].at.clock] # -1 /\ s2[m].at.division < given.divisions[s2[m].at.clock]
          /\ cycle # NULL /\ toLCM(s2[m].at) <= toLCM(cycle)
  BY <1>3 DEF Ordered
<1>6. \A m, l \in DOMAIN s2 : m <= l => toLCM(s2[m].at) <= toLCM(s2[l].at)
  BY <1>3 DEF Ordered
<1>7. QED
  BY <1>2, <1>4, <1>5, <1>6 DEF Ordered

(* What there is of a tag once x is added.                                 *)
LEMMA AppendOf ==
    ASSUME NEW s \in Seq(Records), NEW x, NEW t
    PROVE  /\ Of(s, t) \subseteq 1..Len(s) /\ Len(s) \in Nat
           /\ IsPlain(x) /\ x.tag = t => Of(Append(s, x), t) = Of(s, t) \cup {Len(s) + 1}
           /\ ~(IsPlain(x) /\ x.tag = t) => Of(Append(s, x), t) = Of(s, t)
<1>1. PICK s2 : s2 = Append(s, x)
  OBVIOUS
<1>2. /\ DOMAIN s = 1..Len(s) /\ Len(s) \in Nat
      /\ DOMAIN s2 = 1..(Len(s) + 1) /\ s2[Len(s) + 1] = x /\ \A k \in 1..Len(s) : s2[k] = s[k]
  BY <1>1
<1>3. \A k : k \in 1..(Len(s) + 1) <=> k \in 1..Len(s) \/ k = Len(s) + 1
  BY <1>2
<1>4. Len(s) + 1 \notin 1..Len(s)
  BY <1>2
<1>5. QED
  BY <1>1, <1>2, <1>3, <1>4 DEF Of

(* A set of values, or an event, is of no tag of single values.            *)
LEMMA OtherLinked ==
    ASSUME ClocksOK, NEW rs, Ordered(rs), NEW ls, Ordered(ls), Linked(rs, ls), NEW x, ~IsPlain(x)
    PROVE  Linked(Append(rs, x), Append(ls, x))
<1>1. SUFFICES ASSUME NEW t \in PlainTags
               PROVE  \E g2 \in [Of(Append(ls, x), t) -> Of(Append(rs, x), t)] :
                         LinkedBy(Append(rs, x), Append(ls, x), t, g2)
  BY DEF Linked
<1>2. PICK g \in [Of(ls, t) -> Of(rs, t)] : LinkedBy(rs, ls, t, g)
  BY DEF Linked
<1>3. PICK rs2, ls2 : rs2 = Append(rs, x) /\ ls2 = Append(ls, x)
  OBVIOUS
<1>4. rs \in Seq(Records) /\ ls \in Seq(Records)
  BY DEF Ordered
<1>5. /\ Of(ls2, t) = Of(ls, t) /\ Of(rs2, t) = Of(rs, t)
      /\ \A w \in Of(ls, t) : ls2[w] = ls[w]
      /\ \A k \in Of(rs, t) : rs2[k] = rs[k]
  <2>1. Of(ls2, t) = Of(ls, t) /\ Of(rs2, t) = Of(rs, t)
    BY <1>3, <1>4, AppendOf
  <2>2. \A k \in 1..Len(ls) : ls2[k] = ls[k]
    BY <1>3, <1>4
  <2>3. \A k \in 1..Len(rs) : rs2[k] = rs[k]
    BY <1>3, <1>4
  <2>4. Of(ls, t) \subseteq 1..Len(ls) /\ Of(rs, t) \subseteq 1..Len(rs)
    BY <1>4 DEF Of
  <2>5. QED
    BY <2>1, <2>2, <2>3, <2>4
<1>6. \E g2 \in [Of(ls2, t) -> Of(rs2, t)] : LinkedBy(rs2, ls2, t, g2)
  BY ONLY <1>2, <1>5, LinkSame
<1>7. QED
  BY ONLY <1>3, <1>6

LEMMA NothingLinked == Ordered(<<>>) /\ Linked(<<>>, <<>>)
<1>1. Ordered(<<>>)
  BY DEF Ordered
<1>2. ASSUME NEW t PROVE \E g \in [Of(<<>>, t) -> Of(<<>>, t)] : LinkedBy(<<>>, <<>>, t, g)
  <2>1. Of(<<>>, t) = {}
    BY DEF Of
  <2>2. PICK g : g = [w \in {} |-> w]
    OBVIOUS
  <2>3. g \in [Of(<<>>, t) -> Of(<<>>, t)]
    BY <2>1, <2>2
  <2>4. LinkedBy(<<>>, <<>>, t, g)
    BY <2>1 DEF LinkedBy, NotLater, InTurn, Founded, StillThere, WentOn
  <2>5. QED
    BY <2>3, <2>4
<1>3. QED
  BY <1>1, <1>2 DEF Linked

LEMMA RevaluedOf ==
    ASSUME NEW s, NEW t, NEW k \in Of(s, t), NEW v, NEW s2, s2 = Revalued(s, k, v)
    PROVE  /\ DOMAIN s2 = DOMAIN s
           /\ s2[k].value = v
           /\ \A m \in DOMAIN s : s2[m].at = s[m].at /\ (m # k => s2[m] = s[m])
           /\ \A t1 : Of(s2, t1) = Of(s, t1) /\ (t1 # t => \A m \in Of(s, t1) : s2[m] = s[m])
<1>1. k \in DOMAIN s /\ IsPlain(s[k]) /\ s[k].tag = t /\ t \in PlainTags
  BY DEF Of, IsPlain
<1>2. DOMAIN s2 = DOMAIN s /\ \A m \in DOMAIN s : m # k => s2[m] = s[m]
  BY DEF Revalued
<1>3. s2[k] = [tag |-> s[k].tag, value |-> v, at |-> s[k].at]
  BY <1>1 DEF Revalued
<1>4. s2[k].tag = s[k].tag /\ s2[k].value = v /\ s2[k].at = s[k].at /\ "tag" \in DOMAIN s2[k]
  BY <1>3
<1>5. IsPlain(s2[k])
  BY <1>1, <1>4 DEF IsPlain
<1>6. \A m \in DOMAIN s : \A t1 : (IsPlain(s2[m]) /\ s2[m].tag = t1) <=> (IsPlain(s[m]) /\ s[m].tag = t1)
  BY <1>1, <1>2, <1>4, <1>5
<1>7. \A t1 : Of(s2, t1) = Of(s, t1)
  BY <1>2, <1>6 DEF Of
<1>8. ASSUME NEW t1, t1 # t, NEW m \in Of(s, t1) PROVE s2[m] = s[m]
  BY <1>1, <1>2, <1>8 DEF Of
<1>9. QED
  BY <1>2, <1>4, <1>7, <1>8

LEMMA LastOfIs ==
    ASSUME NEW s \in Seq(Records), NEW t, Of(s, t) # {}
    PROVE  /\ Max(Of(s, t)) \in Of(s, t) /\ Max(Of(s, t)) \in DOMAIN s
           /\ \A k \in Of(s, t) : k <= Max(Of(s, t)) /\ k \in Nat
<1>1. Of(s, t) \in SUBSET (1..Len(s)) /\ Len(s) \in Nat /\ DOMAIN s = 1..Len(s)
  BY DEF Of
<1>2. Max(Of(s, t)) \in Of(s, t) /\ \A k \in Of(s, t) : k <= Max(Of(s, t))
  BY <1>1, Maximum
<1>3. QED
  BY <1>1, <1>2

LEMMA SaidIs ==
    ASSUME ClocksOK, cycle # NULL, NEW t \in PlainTags, NEW v \in AllValues
    PROVE  /\ TagSaid(t, v) \in Records /\ IsPlain(TagSaid(t, v)) /\ TagSaid(t, v).tag = t
           /\ TagSaid(t, v).value = v /\ TagSaid(t, v).at = cycle
<1>1. t \in AllTags /\ cycle \in CycleSet
  BY GivenIs DEF ClocksOK
<1>2. "tag" \in DOMAIN TagSaid(t, v) /\ TagSaid(t, v).tag = t
  BY DEF TagSaid
<1>3. IsPlain(TagSaid(t, v))
  BY <1>2 DEF IsPlain
<1>4. QED
  BY <1>1, <1>2, <1>3 DEF TagSaid, Records

LEMMA EffectOrdered ==
    ASSUME ClocksOK, cycle # NULL, NEW rs, Ordered(rs), NEW t \in PlainTags, NEW v \in AllValues,
           NEW rs2, ReadEffect(rs, t, v, rs2)
    PROVE  Ordered(rs2)
<1>1. given \in Givens /\ rs \in Seq(Records)
  BY DEF ClocksOK, Ordered
<1>2. CASE ReadReused(rs, t, v, rs2)
  <2>1. PICK z : z = Max(Of(rs, t))
    OBVIOUS
  <2>2. z \in Of(rs, t) /\ z \in DOMAIN rs
    BY <1>1, <1>2, <2>1, LastOfIs DEF ReadReused
  <2>3. rs[z].tag \in AllTags
    BY <1>1, <2>2, GivenIs DEF Of, IsPlain
  <2>4. rs2 = Revalued(rs, z, v)
    BY <1>2, <2>1 DEF ReadReused
  <2>5. QED
    BY <1>1, <2>2, <2>3, <2>4, OrderedRevalued
<1>3. CASE ReadRepeated(rs, t, v, rs2)
  BY <1>3 DEF ReadRepeated
<1>4. CASE ReadNew(rs, t, v, rs2)
  BY <1>4, SaidIs, OrderedAppend DEF ReadNew
<1>5. QED
  BY <1>2, <1>3, <1>4 DEF ReadEffect

(* A value is given: the other tags are as before.                         *)
LEMMA EffectElsewhere ==
    ASSUME ClocksOK, cycle # NULL, NEW rs, Ordered(rs), NEW t \in PlainTags, NEW v \in AllValues,
           NEW rs2, ReadEffect(rs, t, v, rs2), NEW t1, t1 # t
    PROVE  Of(rs2, t1) = Of(rs, t1) /\ \A k \in Of(rs, t1) : rs2[k] = rs[k]
<1>1. rs \in Seq(Records)
  BY DEF Ordered
<1>2. CASE ReadReused(rs, t, v, rs2)
  <2>1. PICK z : z = Max(Of(rs, t))
    OBVIOUS
  <2>2. z \in Of(rs, t)
    BY <1>1, <1>2, <2>1, LastOfIs DEF ReadReused
  <2>3. rs2 = Revalued(rs, z, v)
    BY <1>2, <2>1 DEF ReadReused
  <2>4. QED
    BY <2>2, <2>3, RevaluedOf
<1>3. CASE ReadRepeated(rs, t, v, rs2)
  BY <1>3 DEF ReadRepeated
<1>4. CASE ReadNew(rs, t, v, rs2)
  <2>1. rs2 = Append(rs, TagSaid(t, v)) /\ TagSaid(t, v).tag # t1
    BY <1>4, SaidIs DEF ReadNew
  <2>2. QED
    <3>1. Of(rs2, t1) = Of(rs, t1)
      BY <1>1, <2>1, AppendOf
    <3>2. \A k \in 1..Len(rs) : rs2[k] = rs[k]
      BY <1>1, <2>1
    <3>3. Of(rs, t1) \subseteq 1..Len(rs)
      BY <1>1 DEF Of
    <3>4. QED
      BY <3>1, <3>2, <3>3
<1>5. QED
  BY <1>2, <1>3, <1>4 DEF ReadEffect

(* A value more of a tag, whatever the heap makes of it.                   *)
LEMMA TagLinked ==
    ASSUME ClocksOK, cycle # NULL, NEW rs, Ordered(rs), NEW ls, Ordered(ls), Linked(rs, ls),
           NEW t \in PlainTags, NEW v \in AllValues, NEW rs2, ReadEffect(rs, t, v, rs2)
    PROVE  Linked(rs2, Append(ls, TagSaid(t, v)))
<1>1. PICK x, ls2 : x = TagSaid(t, v) /\ ls2 = Append(ls, x)
  OBVIOUS
<1>2. /\ given \in Givens
      /\ rs \in Seq(Records) /\ DOMAIN rs = 1..Len(rs) /\ Len(rs) \in Nat
      /\ ls \in Seq(Records) /\ DOMAIN ls = 1..Len(ls) /\ Len(ls) \in Nat
      /\ \A t1 : Of(rs, t1) \subseteq 1..Len(rs) /\ Of(rs, t1) \subseteq Nat
      /\ \A t1 : Of(ls, t1) \subseteq 1..Len(ls) /\ Of(ls, t1) \subseteq Nat
  BY OrderedFacts DEF ClocksOK
<1>3. x \in Records /\ IsPlain(x) /\ x.tag = t /\ x.value = v /\ x.at = cycle
  BY <1>1, SaidIs
<1>4. PICK w0 \in Nat : w0 = Len(ls) + 1
  BY <1>2
<1>5. /\ ls2[w0] = x /\ \A w \in 1..Len(ls) : ls2[w] = ls[w] /\ w < w0
      /\ Of(ls2, t) = Of(ls, t) \cup {w0}
  <2>1. ls2[w0] = x /\ \A w \in 1..Len(ls) : ls2[w] = ls[w] /\ w < w0
    BY <1>1, <1>2, <1>4
  <2>2. Of(ls2, t) = Of(ls, t) \cup {w0}
    BY <1>1, <1>2, <1>3, <1>4, AppendOf
  <2>3. QED
    BY <2>1, <2>2
<1>6. ASSUME NEW t1 \in PlainTags, t1 # t
      PROVE  \E g2 \in [Of(ls2, t1) -> Of(rs2, t1)] : LinkedBy(rs2, ls2, t1, g2)
  <2>1. PICK g \in [Of(ls, t1) -> Of(rs, t1)] : LinkedBy(rs, ls, t1, g)
    BY DEF Linked
  <2>2. Of(rs2, t1) = Of(rs, t1) /\ \A k \in Of(rs, t1) : rs2[k] = rs[k]
    BY <1>6, EffectElsewhere
  <2>3. Of(ls2, t1) = Of(ls, t1)
    BY <1>1, <1>2, <1>3, <1>6, AppendOf
  <2>4. \A w \in Of(ls, t1) : ls2[w] = ls[w]
    BY <1>2, <1>5
  <2>5. QED
    BY <2>1, <2>2, <2>3, <2>4, LinkSame
<1>7. \E g2 \in [Of(ls2, t) -> Of(rs2, t)] : LinkedBy(rs2, ls2, t, g2)
  <2>1. PICK g \in [Of(ls, t) -> Of(rs, t)] : LinkedBy(rs, ls, t, g)
    BY DEF Linked
  <2>2. Of(ls, t) \subseteq Nat /\ \A w \in Of(ls, t) : w < w0 /\ ls2[w] = ls[w]
    BY <1>2, <1>5
  <2>3. ASSUME Of(rs, t) # {}
        PROVE  \E z \in Of(rs, t) :
                  /\ z = Max(Of(rs, t)) /\ z \in Nat /\ \A k \in Of(rs, t) : k <= z /\ k \in Nat
                  /\ toLCM(rs[z].at) <= toLCM(cycle)
    <3>1. PICK z : z = Max(Of(rs, t))
      OBVIOUS
    <3>2. z \in Of(rs, t) /\ z \in DOMAIN rs /\ \A k \in Of(rs, t) : k <= z /\ k \in Nat
      BY <1>2, <2>3, <3>1, LastOfIs
    <3>3. toLCM(rs[z].at) <= toLCM(cycle)
      BY <3>2 DEF Ordered
    <3>4. QED
      BY <3>1, <3>2, <3>3
  <2>4. CASE ReadReused(rs, t, v, rs2)
    <3>1. PICK z \in Of(rs, t) :
                  /\ z = Max(Of(rs, t)) /\ z \in Nat /\ \A k \in Of(rs, t) : k <= z /\ k \in Nat
                  /\ toLCM(rs[z].at) <= toLCM(cycle)
      BY <2>3, <2>4 DEF ReadReused
    <3>2. OfCycle(cycle, rs[z].at) /\ rs2 = Revalued(rs, z, v)
      BY <2>4, <3>1 DEF ReadReused
    <3>3. /\ rs2[z].value = v
          /\ \A m \in DOMAIN rs : rs2[m].at = rs[m].at /\ (m # z => rs2[m] = rs[m])
          /\ \A t1 : Of(rs2, t1) = Of(rs, t1)
      BY <3>2, RevaluedOf
    <3>4. \A k \in Of(rs, t) : rs2[k].at = rs[k].at /\ (k # z => rs2[k].value = rs[k].value)
      BY <1>2, <3>3
    <3>5. Of(rs2, t) = Of(rs, t) \cup {z}
      BY <3>3
    <3>6. Extends(rs, ls, t, rs2, ls2, w0, z)
      BY <1>2, <1>5, <2>2, <3>1, <3>4, <3>5 DEF Extends
    <3>7. rs2[z].at = rs[z].at
      BY <3>4
    <3>8. \A y \in Of(rs, t) : (\A k \in Of(rs, t) : k <= y) => y = z
      BY <3>1
    <3>9. /\ toLCM(rs2[z].at) <= toLCM(ls2[w0].at) /\ ls2[w0].value = rs2[z].value
          /\ OfCycle(ls2[w0].at, rs2[z].at) /\ OfCycle(ls2[w0].at, rs[z].at)
      BY <1>3, <1>5, <3>1, <3>2, <3>3, <3>7
    <3>10. \A y \in Of(rs, t) : (\A k \in Of(rs, t) : k <= y) =>
              (z = y <=> \/ OfCycle(ls2[w0].at, rs[y].at)
                         \/ given.compressMutable /\ ls2[w0].value = rs[y].value)
      BY <3>8, <3>9
    <3>11. QED
      BY <2>1, <3>6, <3>9, <3>10, LinkExtended
  <2>5. CASE ReadRepeated(rs, t, v, rs2)
    <3>1. PICK z \in Of(rs, t) :
                  /\ z = Max(Of(rs, t)) /\ z \in Nat /\ \A k \in Of(rs, t) : k <= z /\ k \in Nat
                  /\ toLCM(rs[z].at) <= toLCM(cycle)
      BY <2>3, <2>5 DEF ReadRepeated
    <3>2. given.compressMutable /\ rs[z].value = v /\ rs2 = rs
      BY <2>5, <3>1 DEF ReadRepeated
    <3>3. Of(rs2, t) = Of(rs, t) \cup {z}
      BY <3>2
    <3>4. \A k \in Of(rs, t) : rs2[k].at = rs[k].at /\ (k # z => rs2[k].value = rs[k].value)
      BY <3>2
    <3>6. Extends(rs, ls, t, rs2, ls2, w0, z)
      BY <1>2, <1>5, <2>2, <3>1, <3>4, <3>3 DEF Extends
    <3>8. \A y \in Of(rs, t) : (\A k \in Of(rs, t) : k <= y) => y = z
      BY <3>1
    <3>9. /\ toLCM(rs2[z].at) <= toLCM(ls2[w0].at) /\ ls2[w0].value = rs2[z].value
          /\ rs2[z].value = rs[z].value
      BY <1>3, <1>5, <3>1, <3>2
    <3>10. \A y \in Of(rs, t) : (\A k \in Of(rs, t) : k <= y) =>
              (z = y <=> \/ OfCycle(ls2[w0].at, rs[y].at)
                         \/ given.compressMutable /\ ls2[w0].value = rs[y].value)
      BY <3>2, <3>8, <3>9
    <3>11. QED
      BY <2>1, <3>6, <3>9, <3>10, LinkExtended
  <2>6. CASE ReadNew(rs, t, v, rs2)
    <3>1. PICK y \in Nat : y = Len(rs) + 1
      BY <1>2
    <3>2. rs2 = Append(rs, x)
      BY <1>1, <2>6 DEF ReadNew
    <3>3. rs2[y] = x /\ \A k \in 1..Len(rs) : rs2[k] = rs[k] /\ k < y
      BY <1>2, <3>1, <3>2
    <3>4. Of(rs2, t) = Of(rs, t) \cup {y}
      BY <1>2, <1>3, <3>1, <3>2, AppendOf
    <3>5. y \notin Of(rs, t) /\ \A k \in Of(rs, t) : k < y /\ k <= y /\ rs2[k] = rs[k]
      <4>1. \A k \in Of(rs, t) : k \in 1..Len(rs) /\ k \in Nat
        BY <1>2
      <4>2. \A k \in Of(rs, t) : k < y /\ k <= y /\ rs2[k] = rs[k]
        BY <3>3, <4>1
      <4>3. QED
        BY <4>2
    <3>6. Extends(rs, ls, t, rs2, ls2, w0, y)
      BY <1>2, <1>5, <2>2, <3>1, <3>4, <3>5 DEF Extends
    <3>7. /\ ls2[w0].at = rs2[y].at /\ ls2[w0].at = cycle /\ ls2[w0].value = rs2[y].value
          /\ toLCM(rs2[y].at) <= toLCM(ls2[w0].at)
      <4>1. toLCM(cycle) \in Nat
        BY <1>2, TimeIsNat DEF ClocksOK
      <4>2. QED
        BY <1>3, <1>5, <3>3, <4>1
    <3>8. ASSUME NEW z \in Of(rs, t), \A k \in Of(rs, t) : k <= z
          PROVE  y = z <=> \/ OfCycle(ls2[w0].at, rs[z].at)
                           \/ given.compressMutable /\ ls2[w0].value = rs[z].value
      <4>1. z = Max(Of(rs, t))
        <5>1. PICK m \in Of(rs, t) : m = Max(Of(rs, t)) /\ m \in Nat /\ \A k \in Of(rs, t) : k <= m /\ k \in Nat
          BY <2>3, <3>8
        <5>2. QED
          BY <3>8, <5>1
      <4>2. ~OfCycle(cycle, rs[z].at) /\ ~(given.compressMutable /\ rs[z].value = v)
        BY <2>6, <4>1 DEF ReadNew
      <4>3. ls2[w0].value = v
        BY <1>3, <1>5
      <4>4. QED
        BY <3>5, <3>7, <4>2, <4>3
    <3>9. \A z \in Of(rs, t) : (\A k \in Of(rs, t) : k <= z) =>
              (y = z <=> \/ OfCycle(ls2[w0].at, rs[z].at)
                         \/ given.compressMutable /\ ls2[w0].value = rs[z].value)
      BY <3>8
    <3>10. y \in Of(rs, t) /\ rs2[y].value # rs[y].value => OfCycle(ls2[w0].at, rs2[y].at)
      BY <3>5
    <3>11. QED
      BY <2>1, <3>6, <3>7, <3>9, <3>10, LinkExtended
  <2>7. QED
    BY <2>4, <2>5, <2>6 DEF ReadEffect
<1>8. QED
  BY <1>1, <1>6, <1>7 DEF Linked

-----------------------------------------------------------------------------
(* Events and values of sets, among what an item has.                      *)

LEMMA OthersAre ==
    ASSUME NEW s \in Seq(Records)
    PROVE  /\ Others(s) \subseteq 1..Len(s) /\ Others(s) \subseteq DOMAIN s
           /\ IsFiniteSet(Others(s)) /\ Cardinality(Others(s)) \in Nat
           /\ \A k : Rank(s, k) \in Nat /\ Rank(s, k) <= Cardinality(Others(s))
<1>1. Others(s) \subseteq 1..Len(s) /\ Len(s) \in Nat /\ Others(s) \subseteq DOMAIN s
  BY DEF Others
<1>2. IsFiniteSet(Others(s)) /\ Cardinality(Others(s)) \in Nat
  <2>1. IsFiniteSet(1..Len(s))
    BY <1>1, FS_Interval
  <2>2. QED
    BY <1>1, <2>1, FS_Subset, FS_CardinalityType
<1>3. ASSUME NEW k PROVE Rank(s, k) \in Nat /\ Rank(s, k) <= Cardinality(Others(s))
  <2>1. PICK T : T = {l \in Others(s) : l <= k}
    OBVIOUS
  <2>2. T \in SUBSET Others(s)
    BY <2>1
  <2>3. IsFiniteSet(T) /\ Cardinality(T) <= Cardinality(Others(s))
    BY <1>2, <2>2, FS_Subset
  <2>4. Cardinality(T) \in Nat
    BY <2>3, FS_CardinalityType
  <2>5. QED
    BY <2>1, <2>3, <2>4 DEF Rank
<1>4. QED
  BY <1>1, <1>2, <1>3

Longer(s2, s, x) == s2 = Append(s, x)

LEMMA AppendOthers ==
    ASSUME NEW s \in Seq(Records), NEW x, NEW s2, Longer(s2, s, x)
    PROVE  /\ \A k \in Others(s) : s2[k] = s[k]
           /\ s2[Len(s) + 1] = x
           /\ IsPlain(x) => Others(s2) = Others(s)
           /\ ~IsPlain(x) => Others(s2) = Others(s) \cup {Len(s) + 1}
<1>2. /\ DOMAIN s = 1..Len(s) /\ Len(s) \in Nat
      /\ DOMAIN s2 = 1..(Len(s) + 1) /\ s2[Len(s) + 1] = x /\ \A k \in 1..Len(s) : s2[k] = s[k]
  BY DEF Longer
<1>3. \A k : k \in 1..(Len(s) + 1) <=> k \in 1..Len(s) \/ k = Len(s) + 1
  BY <1>2
<1>4. Len(s) + 1 \notin 1..Len(s)
  BY <1>2
<1>5. QED
  BY <1>2, <1>3, <1>4 DEF Others

(* The ranks once there is another one at the end.                         *)
LEMMA AppendRank ==
    ASSUME NEW s \in Seq(Records), NEW x, ~IsPlain(x), NEW s2, Longer(s2, s, x)
    PROVE  /\ Cardinality(Others(s2)) = Cardinality(Others(s)) + 1
           /\ Rank(s2, Len(s) + 1) = Cardinality(Others(s)) + 1
           /\ \A k \in Others(s) : Rank(s2, k) = Rank(s, k)
<1>1. PICK O, y : O = Others(s) /\ y = Len(s) + 1
  OBVIOUS
<1>2. /\ O \subseteq 1..Len(s) /\ IsFiniteSet(O) /\ Cardinality(O) \in Nat
      /\ Others(s2) = O \cup {y} /\ Len(s) \in Nat
  BY <1>1, OthersAre, AppendOthers
<1>3. y \notin O /\ y \in Nat /\ \A k \in O : k \in Nat /\ k < y
  BY <1>1, <1>2
<1>4. Cardinality(O \cup {y}) = Cardinality(O) + 1
  BY <1>2, <1>3, FS_AddElement
<1>5. {l \in O \cup {y} : l <= y} = O \cup {y}
  BY <1>3
<1>6. Rank(s2, y) = Cardinality(O) + 1
  BY <1>2, <1>4, <1>5 DEF Rank
<1>7. ASSUME NEW k \in O PROVE Rank(s2, k) = Rank(s, k)
  <2>1. {l \in O \cup {y} : l <= k} = {l \in O : l <= k}
    BY <1>3
  <2>2. QED
    BY <1>1, <1>2, <2>1 DEF Rank
<1>8. QED
  BY <1>1, <1>2, <1>4, <1>6, <1>7

LEMMA KeptAppend ==
    ASSUME NEW rs, Ordered(rs), NEW ls, Ordered(ls), Kept(rs, ls), NEW x, ~IsPlain(x)
    PROVE  Kept(Append(rs, x), Append(ls, x))
<1>1. rs \in Seq(Records) /\ ls \in Seq(Records)
  BY DEF Ordered
<1>2. PICK rs2, ls2 : rs2 = Append(rs, x) /\ ls2 = Append(ls, x)
  OBVIOUS
<1>3. PICK r, l : r = Len(rs) + 1 /\ l = Len(ls) + 1
  OBVIOUS
<1>3a. Longer(rs2, rs, x) /\ Longer(ls2, ls, x)
  BY <1>2 DEF Longer
<1>4. PICK c : c = Cardinality(Others(rs)) /\ c = Cardinality(Others(ls)) /\ c \in Nat
  BY <1>1, OthersAre DEF Kept
<1>5. /\ Cardinality(Others(rs2)) = c + 1 /\ Rank(rs2, r) = c + 1 /\ rs2[r] = x
      /\ Others(rs2) = Others(rs) \cup {r}
      /\ \A k \in Others(rs) : rs2[k] = rs[k] /\ Rank(rs2, k) = Rank(rs, k) /\ Rank(rs2, k) # c + 1
  <2>1. /\ Cardinality(Others(rs2)) = c + 1 /\ Rank(rs2, r) = c + 1
        /\ \A k \in Others(rs) : Rank(rs2, k) = Rank(rs, k)
    <3>1. /\ Cardinality(Others(rs2)) = Cardinality(Others(rs)) + 1
          /\ Rank(rs2, Len(rs) + 1) = Cardinality(Others(rs)) + 1
          /\ \A k \in Others(rs) : Rank(rs2, k) = Rank(rs, k)
      BY ONLY <1>1, <1>3a, ~IsPlain(x), AppendRank
    <3>2. QED
      BY ONLY <1>3, <1>4, <3>1
  <2>2. /\ rs2[r] = x /\ Others(rs2) = Others(rs) \cup {r} /\ \A k \in Others(rs) : rs2[k] = rs[k]
    BY <1>1, <1>3, <1>3a, AppendOthers
  <2>3. \A k \in Others(rs) : Rank(rs, k) \in Nat /\ Rank(rs, k) <= c
    BY <1>1, <1>4, OthersAre
  <2>4. \A k \in Others(rs) : Rank(rs2, k) # c + 1
    BY <1>4, <2>1, <2>3
  <2>5. QED
    BY <2>1, <2>2, <2>4
<1>6. /\ Cardinality(Others(ls2)) = c + 1 /\ Rank(ls2, l) = c + 1 /\ ls2[l] = x
      /\ Others(ls2) = Others(ls) \cup {l}
      /\ \A k \in Others(ls) : ls2[k] = ls[k] /\ Rank(ls2, k) = Rank(ls, k) /\ Rank(ls2, k) # c + 1
  <2>1. /\ Cardinality(Others(ls2)) = c + 1 /\ Rank(ls2, l) = c + 1
        /\ \A k \in Others(ls) : Rank(ls2, k) = Rank(ls, k)
    <3>1. /\ Cardinality(Others(ls2)) = Cardinality(Others(ls)) + 1
          /\ Rank(ls2, Len(ls) + 1) = Cardinality(Others(ls)) + 1
          /\ \A k \in Others(ls) : Rank(ls2, k) = Rank(ls, k)
      BY ONLY <1>1, <1>3a, ~IsPlain(x), AppendRank
    <3>2. QED
      BY ONLY <1>3, <1>4, <3>1
  <2>2. /\ ls2[l] = x /\ Others(ls2) = Others(ls) \cup {l} /\ \A k \in Others(ls) : ls2[k] = ls[k]
    BY <1>1, <1>3, <1>3a, AppendOthers
  <2>3. \A k \in Others(ls) : Rank(ls, k) \in Nat /\ Rank(ls, k) <= c
    BY <1>1, <1>4, OthersAre
  <2>4. \A k \in Others(ls) : Rank(ls2, k) # c + 1
    BY <1>4, <2>1, <2>3
  <2>5. QED
    BY <2>1, <2>2, <2>4
<1>7. \A k \in Others(rs), m \in Others(ls) : Rank(rs, k) = Rank(ls, m) => rs[k] = ls[m]
  BY DEF Kept
<1>8. \A k \in Others(rs2), m \in Others(ls2) : Rank(rs2, k) = Rank(ls2, m) => rs2[k] = ls2[m]
  BY <1>5, <1>6, <1>7
<1>9. QED
  BY <1>2, <1>5, <1>6, <1>8 DEF Kept

(* The tags of single values are not among them.                           *)
SameOthers(s2, s) == Others(s2) = Others(s) /\ \A k \in Others(s) : s2[k] = s[k]

LEMMA KeptSame ==
    ASSUME NEW rs, NEW ls, Kept(rs, ls), NEW rs2, NEW ls2, SameOthers(rs2, rs), SameOthers(ls2, ls)
    PROVE  Kept(rs2, ls2)
<1>1. (\A k : Rank(rs2, k) = Rank(rs, k)) /\ \A k : Rank(ls2, k) = Rank(ls, k)
  BY DEF Rank, SameOthers
<1>2. QED
  BY <1>1 DEF Kept, SameOthers

LEMMA EffectKept ==
    ASSUME ClocksOK, cycle # NULL, NEW rs, Ordered(rs), NEW ls, Ordered(ls), Kept(rs, ls),
           NEW t \in PlainTags, NEW v \in AllValues, NEW rs2, ReadEffect(rs, t, v, rs2)
    PROVE  Kept(rs2, Append(ls, TagSaid(t, v)))
<1>1. PICK ls2, x : x = TagSaid(t, v) /\ ls2 = Append(ls, x)
  OBVIOUS
<1>2. rs \in Seq(Records) /\ ls \in Seq(Records) /\ IsPlain(x)
  BY <1>1, SaidIs DEF Ordered
<1>3. Others(ls2) = Others(ls) /\ \A k \in Others(ls) : ls2[k] = ls[k]
  <2>1. Longer(ls2, ls, x)
    BY <1>1 DEF Longer
  <2>2. QED
    BY <1>2, <2>1, AppendOthers
<1>4. Others(rs2) = Others(rs) /\ \A k \in Others(rs) : rs2[k] = rs[k]
  <2>1. CASE ReadReused(rs, t, v, rs2)
    <3>1. PICK z : z = Max(Of(rs, t))
      OBVIOUS
    <3>2. z \in Of(rs, t) /\ rs2 = Revalued(rs, z, v)
      BY <1>2, <2>1, <3>1, LastOfIs DEF ReadReused
    <3>3. z \in DOMAIN rs /\ IsPlain(rs[z])
      BY <3>2 DEF Of
    <3>4. DOMAIN rs2 = DOMAIN rs /\ \A m \in DOMAIN rs : m # z => rs2[m] = rs[m]
      BY <3>2, RevaluedOf
    <3>5. IsPlain(rs2[z])
      <4>1. Of(rs2, t) = Of(rs, t)
        BY <3>2, RevaluedOf
      <4>2. QED
        BY <3>2, <4>1 DEF Of
    <3>6. QED
      BY <3>3, <3>4, <3>5 DEF Others
  <2>2. CASE ReadRepeated(rs, t, v, rs2)
    BY <2>2 DEF ReadRepeated
  <2>3. CASE ReadNew(rs, t, v, rs2)
    <3>1. Longer(rs2, rs, x)
      BY <1>1, <2>3 DEF ReadNew, Longer
    <3>2. QED
      BY <1>2, <3>1, AppendOthers
  <2>4. QED
    BY <2>1, <2>2, <2>3 DEF ReadEffect
<1>5. SameOthers(rs2, rs) /\ SameOthers(ls2, ls)
  BY <1>3, <1>4 DEF SameOthers
<1>6. QED
  BY <1>1, <1>5, KeptSame

LEMMA KeptStays ==
    ASSUME given' = given, NEW rs, NEW ls
    PROVE  Kept(rs, ls)' <=> Kept(rs, ls)
<1>1. PlainTags' = PlainTags
  BY DEF PlainTags
<1>2. \A s : Others(s)' = Others(s)
  BY <1>1 DEF Others, IsPlain
<1>3. \A s, k : Rank(s, k)' = Rank(s, k)
  BY <1>2 DEF Rank
<1>4. QED
  BY <1>2, <1>3 DEF Kept

LEMMA NothingKept == Kept(<<>>, <<>>)
<1>1. Others(<<>>) = {}
  BY DEF Others
<1>2. QED
  BY <1>1 DEF Kept

-----------------------------------------------------------------------------
(* Whether a tag is mutable.                                               *)

(* Of the entries of an item, those of a tag that has more than one are    *)
(* mutable.                                                                *)
Mutables(es) == \A t \in PlainTags : \A k \in TagsIn(es, t) : es[k].isMutable = Several(es, t)

LEMMA MutableKnownIs == MutableKnown <=> \A i \in Items : Mutables(Entries(i))
<1>1. ASSUME NEW i \in Items, NEW t
      PROVE  /\ OfTag(itemVector[i], t) = TagsIn(Entries(i), t)
             /\ \A k \in TagsIn(Entries(i), t) : NodeAt(PlacesOf(i)[k]) = Entries(i)[k]
  <2>1. OfTag(itemVector[i], t) = TagsIn(Entries(i), t)
    BY OfTagIs, EntriesAre
  <2>2. \A k \in DOMAIN PlacesOf(i) : Entries(i)[k] = NodeAt(PlacesOf(i)[k])
    BY DEF Entries
  <2>3. DOMAIN Entries(i) = DOMAIN PlacesOf(i)
    BY DEF Entries
  <2>4. QED
    BY <2>1, <2>2, <2>3 DEF TagsIn
<1>2. QED
  BY <1>1 DEF MutableKnown, Mutables, Several

LEMMA MutableKnownNext == (MutableKnown <=> \A i \in Items : Mutables(Entries(i)))'
BY MutableKnownIs, PTL

(* A tag has several entries when it has another than one of them.         *)
LEMMA SeveralIs ==
    ASSUME NEW n \in Nat, NEW K \in SUBSET (1..n), NEW x \in K
    PROVE  Cardinality(K) > 1 <=> \E k \in K : k # x
<1>1. IsFiniteSet(K)
  <2>1. IsFiniteSet(1..n)
    BY FS_Interval
  <2>2. QED
    BY <2>1, FS_Subset
<1>2. PICK L : L = K \ {x}
  OBVIOUS
<1>3. IsFiniteSet(L) /\ Cardinality(L) = Cardinality(K) - 1
  BY <1>1, <1>2, FS_RemoveElement
<1>4. Cardinality(L) \in Nat /\ Cardinality(K) \in Nat
  BY <1>1, <1>3, FS_CardinalityType
<1>5. Cardinality(L) = 0 <=> L = {}
  BY <1>3, FS_EmptySet
<1>6. Cardinality(K) > 1 <=> Cardinality(L) # 0
  BY <1>3, <1>4
<1>7. QED
  BY <1>2, <1>5, <1>6

LEMMA OverwroteMutables ==
    ASSUME NEW es \in Seq(Nodes), Mutables(es), NEW t \in PlainTags, TagsIn(es, t) # {},
           NEW key \in Keys, NEW es2, es2 = Overwrote(es, t, key)
    PROVE  Mutables(es2)
<1>1. PICK x : x = Max(TagsIn(es, t))
  OBVIOUS
<1>2. TagsIn(es, t) \in SUBSET (1..Len(es)) /\ Len(es) \in Nat /\ DOMAIN es = 1..Len(es)
  BY DEF TagsIn
<1>3. x \in TagsIn(es, t) /\ x \in DOMAIN es /\ IsTag(es[x], t)
  <2>1. x \in TagsIn(es, t)
    BY <1>1, <1>2, Maximum
  <2>2. QED
    BY <2>1 DEF TagsIn
<1>4. DOMAIN es2 = DOMAIN es
  BY DEF Overwrote
<1>5. ASSUME NEW k \in DOMAIN es, IsTag(es[k], t)
      PROVE  /\ IsTag(es2[k], t) /\ \A t1 : t1 # t => ~IsTag(es2[k], t1)
             /\ es2[k].isMutable = Several(es, t)
  <2>1. es[k] \in Nodes /\ es[k].type = "tag" /\ es[k].tagId = t
    BY <1>5, ElementOfSeq DEF IsTag
  <2>2. \A b \in BOOLEAN : es[k] \in TagNodes
    BY <2>1, MarkedNode
  <2>3. es[k] \in TagNodes
    BY <2>2
  <2>4. CASE k = x
    <3>1. es2[k] \in TagNodes /\ es2[k].tagId = t /\ es2[k].isMutable = Several(es, t)
      BY <1>1, <2>1, <2>3, <2>4, OverwroteIs
    <3>2. es2[k].type = "tag"
      BY <3>1 DEF TagNodes
    <3>3. QED
      BY <3>1, <3>2 DEF IsTag
  <2>5. CASE k # x
    <3>1. es2[k] = MarkedIn(es, t)[k]
      BY <1>1, <2>5, OverwroteIs
    <3>2. PICK u \in BOOLEAN : u = TRUE
      OBVIOUS
    <3>3. PICK n, n2 : n = es[k] /\ n2 = [n EXCEPT !.isMutable = u]
      OBVIOUS
    <3>4. es2[k] = n2
      BY <1>5, <3>1, <3>2, <3>3 DEF MarkedIn
    <3>5. n2.type = "tag" /\ n2.tagId = t /\ n2.isMutable = u
      BY <2>1, <2>3, <3>3 DEF TagNodes
    <3>6. Several(es, t)
      <4>1. k \in TagsIn(es, t)
        BY <1>5 DEF TagsIn
      <4>2. Cardinality(TagsIn(es, t)) > 1
        BY <1>2, <1>3, <2>5, <4>1, SeveralIs
      <4>3. QED
        BY <4>2 DEF Several
    <3>7. es2[k].isMutable = Several(es, t)
      <4>1. u = Several(es, t)
        BY <3>2, <3>6 DEF Several
      <4>2. QED
        BY <3>4, <3>5, <4>1
    <3>8. QED
      BY <3>4, <3>5, <3>7 DEF IsTag
  <2>6. QED
    BY <2>4, <2>5
<1>6. ASSUME NEW k \in DOMAIN es, ~IsTag(es[k], t) PROVE es2[k] = es[k]
  <2>1. k # x
    BY <1>3, <1>6
  <2>2. es2[k] = MarkedIn(es, t)[k]
    BY <1>1, <2>1, OverwroteIs
  <2>3. QED
    BY <1>6, <2>2 DEF MarkedIn
<1>7. \A t1 : TagsIn(es2, t1) = TagsIn(es, t1)
  <2>1. \A k \in DOMAIN es : \A t1 : IsTag(es2[k], t1) <=> IsTag(es[k], t1)
    <3>1. \A k \in DOMAIN es : \A t1 : IsTag(es[k], t) => (IsTag(es[k], t1) <=> t1 = t)
      BY DEF IsTag
    <3>2. QED
      BY <1>5, <1>6, <3>1
  <2>2. QED
    BY <1>4, <2>1 DEF TagsIn
<1>8. \A t1 : Several(es2, t1) = Several(es, t1)
  BY <1>7 DEF Several
<1>9. ASSUME NEW t1 \in PlainTags, NEW k \in TagsIn(es2, t1)
      PROVE  es2[k].isMutable = Several(es2, t1)
  <2>1. k \in DOMAIN es /\ IsTag(es[k], t1) /\ k \in TagsIn(es, t1)
    BY <1>7 DEF TagsIn
  <2>2. CASE t1 = t
    BY <1>5, <1>8, <2>1, <2>2
  <2>3. CASE t1 # t
    <3>1. ~IsTag(es[k], t)
      BY <2>1, <2>3 DEF IsTag
    <3>2. es2[k] = es[k]
      BY <1>6, <2>1, <3>1
    <3>3. QED
      BY <1>8, <2>1, <3>2 DEF Mutables
  <2>4. QED
    BY <2>2, <2>3
<1>10. QED
  BY <1>9 DEF Mutables

(* The tags once the entry n is at the end.                                *)
LEMMA AppendTags ==
    ASSUME NEW es \in Seq(Nodes), NEW n, NEW es2, Longer(es2, es, n)
    PROVE  /\ \A t : ~IsTag(n, t) => TagsIn(es2, t) = TagsIn(es, t)
           /\ \A t : IsTag(n, t) => TagsIn(es2, t) = TagsIn(es, t) \cup {Len(es) + 1}
           /\ \A k \in DOMAIN es : es2[k] = es[k]
           /\ es2[Len(es) + 1] = n
<1>1. /\ DOMAIN es = 1..Len(es) /\ Len(es) \in Nat
      /\ DOMAIN es2 = 1..(Len(es) + 1) /\ es2[Len(es) + 1] = n /\ \A k \in 1..Len(es) : es2[k] = es[k]
  BY DEF Longer
<1>2. \A k : k \in 1..(Len(es) + 1) <=> k \in 1..Len(es) \/ k = Len(es) + 1
  BY <1>1
<1>3. Len(es) + 1 \notin 1..Len(es)
  BY <1>1
<1>4. QED
  BY <1>1, <1>2, <1>3 DEF TagsIn

LEMMA MarkedTags ==
    ASSUME NEW es \in Seq(Nodes), NEW t, NEW mk, mk = MarkedIn(es, t)
    PROVE  /\ mk \in Seq(Nodes) /\ Len(mk) = Len(es) /\ DOMAIN mk = DOMAIN es
           /\ \A t1 : TagsIn(mk, t1) = TagsIn(es, t1)
           /\ \A k \in TagsIn(es, t) : mk[k].isMutable
           /\ \A k \in DOMAIN es : ~IsTag(es[k], t) => mk[k] = es[k]
<1>1. DOMAIN mk = DOMAIN es /\ mk = [k \in DOMAIN mk |-> mk[k]]
  BY DEF MarkedIn
<1>2. \A k \in DOMAIN mk : mk[k] \in Nodes
  BY <1>1, MarkedReads
<1>3. mk \in Seq(Nodes) /\ Len(mk) = Len(es)
  BY <1>1, <1>2, SeqOfNodes
<1>4. ASSUME NEW k \in DOMAIN es, IsTag(es[k], t)
      PROVE  mk[k].isMutable /\ IsTag(mk[k], t) /\ \A t1 : t1 # t => ~IsTag(mk[k], t1)
  <2>1. es[k] \in Nodes /\ es[k].type = "tag" /\ es[k].tagId = t
    BY <1>4, ElementOfSeq DEF IsTag
  <2>2. \A b \in BOOLEAN : es[k] \in TagNodes
    BY <2>1, MarkedNode
  <2>3. PICK u \in BOOLEAN : u = TRUE
    OBVIOUS
  <2>4. PICK n, n2 : n = es[k] /\ n2 = [n EXCEPT !.isMutable = u]
    OBVIOUS
  <2>5. mk[k] = n2
    BY <1>4, <2>3, <2>4 DEF MarkedIn
  <2>6. n2.type = "tag" /\ n2.tagId = t /\ n2.isMutable = u
    BY <2>1, <2>2, <2>4 DEF TagNodes
  <2>7. mk[k].isMutable
    BY <2>3, <2>5, <2>6
  <2>8. QED
    BY <2>5, <2>6, <2>7 DEF IsTag
<1>5. \A k \in DOMAIN es : ~IsTag(es[k], t) => mk[k] = es[k]
  BY DEF MarkedIn
<1>6. \A t1 : TagsIn(mk, t1) = TagsIn(es, t1)
  <2>1. \A k \in DOMAIN es : \A t1 : IsTag(mk[k], t1) <=> IsTag(es[k], t1)
    <3>1. \A k \in DOMAIN es : \A t1 : IsTag(es[k], t) => (IsTag(es[k], t1) <=> t1 = t)
      BY DEF IsTag
    <3>2. QED
      BY <1>4, <1>5, <3>1
  <2>2. QED
    BY <1>1, <2>1 DEF TagsIn
<1>7. \A k \in TagsIn(es, t) : mk[k].isMutable
  BY <1>4 DEF TagsIn
<1>8. QED
  BY <1>1, <1>3, <1>5, <1>6, <1>7

LEMMA NewMutables ==
    ASSUME ClocksOK, cycle # NULL, NEW es \in Seq(Nodes), Mutables(es), NEW t \in PlainTags,
           NEW v, NEW es2, WasNew(es, t, v, es2)
    PROVE  Mutables(es2)
<1>1. PICK mk : mk = MarkedIn(es, t)
  OBVIOUS
<1>2. PICK m : m = (TagsIn(es, t) # {})
  OBVIOUS
<1>3. m \in BOOLEAN /\ FALSE \in BOOLEAN /\ (m <=> TagsIn(es, t) # {})
  BY <1>2
<1>4. PICK key \in Keys : es2 = Append(mk, TagNode(t, key, m, FALSE))
  BY <1>1, <1>2 DEF WasNew
<1>5. PICK n : n = TagNode(t, key, m, FALSE)
  OBVIOUS
<1>6. n.type = "tag" /\ n.tagId = t /\ n.isMutable = m
  <2>1. t \in AllTags
    BY GivenIs DEF ClocksOK
  <2>2. \A b, s \in BOOLEAN : /\ TagNode(t, key, b, s).type = "tag" /\ TagNode(t, key, b, s).tagId = t
                              /\ TagNode(t, key, b, s).isMutable = b
    BY <2>1, NodesAre
  <2>3. QED
    BY <1>3, <1>5, <2>2, Zenon
<1>7. /\ mk \in Seq(Nodes) /\ Len(mk) = Len(es) /\ DOMAIN mk = DOMAIN es
      /\ \A t1 : TagsIn(mk, t1) = TagsIn(es, t1)
      /\ \A k \in TagsIn(es, t) : mk[k].isMutable
      /\ \A k \in DOMAIN es : ~IsTag(es[k], t) => mk[k] = es[k]
  BY <1>1, MarkedTags
<1>8. Longer(es2, mk, n)
  BY <1>4, <1>5 DEF Longer
<1>9. /\ \A t1 : ~IsTag(n, t1) => TagsIn(es2, t1) = TagsIn(mk, t1)
      /\ \A t1 : IsTag(n, t1) => TagsIn(es2, t1) = TagsIn(mk, t1) \cup {Len(mk) + 1}
      /\ \A k \in DOMAIN mk : es2[k] = mk[k]
      /\ es2[Len(mk) + 1] = n
  BY <1>7, <1>8, AppendTags
<1>10. \A t1 : IsTag(n, t1) <=> t1 = t
  BY <1>6 DEF IsTag
<1>11. PICK K, y : K = TagsIn(es, t) /\ y = Len(es) + 1
  OBVIOUS
<1>12. /\ K \in SUBSET (1..Len(es)) /\ Len(es) \in Nat /\ DOMAIN es = 1..Len(es)
       /\ y \notin K /\ TagsIn(es2, t) = K \cup {y}
  <2>1. K \in SUBSET (1..Len(es)) /\ Len(es) \in Nat /\ DOMAIN es = 1..Len(es)
    BY <1>11 DEF TagsIn
  <2>2. y \notin K
    BY <1>11, <2>1
  <2>3. QED
    BY <1>7, <1>9, <1>10, <1>11, <2>1, <2>2
<1>13. Several(es2, t) <=> K # {}
  <2>1. K \cup {y} \in SUBSET (1..y) /\ y \in Nat /\ y \in K \cup {y}
    BY <1>11, <1>12
  <2>2. Cardinality(K \cup {y}) > 1 <=> \E k \in K \cup {y} : k # y
    BY <2>1, SeveralIs
  <2>3. QED
    BY <1>12, <2>2 DEF Several
<1>14. Several(es2, t) \in BOOLEAN
  BY DEF Several
<1>15. ASSUME NEW k \in TagsIn(es2, t) PROVE es2[k].isMutable = Several(es2, t)
  <2>1. CASE k \in K
    <3>1. mk[k].isMutable /\ es2[k] = mk[k] /\ Several(es2, t)
      BY <1>7, <1>9, <1>11, <1>12, <1>13, <2>1
    <3>2. es2[k] \in Nodes /\ es2[k].type = "tag"
      <4>1. k \in DOMAIN mk
        BY <1>7, <1>12, <2>1
      <4>2. mk[k] \in Nodes
        BY <1>7, <4>1, ElementOfSeq
      <4>3. QED
        BY <1>15, <3>1, <4>2 DEF TagsIn, IsTag
    <3>3. \A b \in BOOLEAN : es2[k] \in TagNodes
      BY <3>2, MarkedNode
    <3>4. es2[k] \in TagNodes
      BY <3>3
    <3>5. es2[k].isMutable \in BOOLEAN
      BY <3>4 DEF TagNodes
    <3>6. QED
      BY <1>14, <3>1, <3>5
  <2>2. CASE k = y
    <3>1. es2[k] = n
      BY <1>7, <1>9, <1>11, <2>2
    <3>2. m <=> Several(es2, t)
      BY <1>3, <1>11, <1>13
    <3>3. m = Several(es2, t)
      BY <1>3, <1>14, <3>2
    <3>4. QED
      BY <1>6, <3>1, <3>3
  <2>3. QED
    BY <1>12, <2>1, <2>2
<1>16. ASSUME NEW t1 \in PlainTags, t1 # t, NEW k \in TagsIn(es2, t1)
       PROVE  es2[k].isMutable = Several(es2, t1)
  <2>1. TagsIn(es2, t1) = TagsIn(es, t1)
    BY <1>7, <1>9, <1>10, <1>16
  <2>2. k \in DOMAIN es /\ IsTag(es[k], t1) /\ k \in TagsIn(es, t1)
    BY <2>1 DEF TagsIn
  <2>3. ~IsTag(es[k], t)
    BY <1>16, <2>2 DEF IsTag
  <2>4. es2[k] = es[k]
    BY <1>7, <1>9, <2>2, <2>3
  <2>5. Several(es2, t1) = Several(es, t1)
    BY <2>1 DEF Several
  <2>6. QED
    BY <2>2, <2>4, <2>5 DEF Mutables
<1>17. QED
  BY <1>15, <1>16 DEF Mutables

LEMMA EffectMutables ==
    ASSUME ClocksOK, cycle # NULL, NEW es \in Seq(Nodes), Mutables(es), NEW t \in PlainTags,
           NEW v, NEW es2, TagEffect(es, t, v, es2)
    PROVE  Mutables(es2)
<1>1. CASE WasReused(es, t, v, es2)
  <2>1. PICK key \in Keys : es2 = Overwrote(es, t, key)
    BY <1>1 DEF WasReused
  <2>2. TagsIn(es, t) # {}
    BY <1>1 DEF WasReused
  <2>3. QED
    BY <2>1, <2>2, OverwroteMutables
<1>2. CASE WasRepeated(es, t, v, es2)
  <2>1. TagsIn(es, t) # {} /\ es2 = Overwrote(es, t, LastIn(es, t).dkey)
    BY <1>2 DEF WasRepeated
  <2>2. LastIn(es, t).dkey \in Keys
    <3>1. TagsIn(es, t) \in SUBSET (1..Len(es)) /\ Len(es) \in Nat
      BY DEF TagsIn
    <3>2. Max(TagsIn(es, t)) \in TagsIn(es, t)
      BY <2>1, <3>1, Maximum
    <3>3. LastIn(es, t) \in Nodes /\ LastIn(es, t).type = "tag"
      BY <3>2, ElementOfSeq DEF LastIn, TagsIn, IsTag
    <3>4. \A b \in BOOLEAN : LastIn(es, t) \in TagNodes
      BY <3>3, MarkedNode
    <3>5. LastIn(es, t) \in TagNodes
      BY <3>4
    <3>6. QED
      BY <3>5 DEF TagNodes
  <2>3. PICK key \in Keys : key = LastIn(es, t).dkey
    BY <2>2
  <2>4. es2 = Overwrote(es, t, key)
    BY <2>1, <2>3
  <2>5. QED
    BY <2>1, <2>4, OverwroteMutables
<1>3. CASE WasNew(es, t, v, es2)
  BY <1>3, NewMutables
<1>4. QED
  BY <1>1, <1>2, <1>3 DEF TagEffect

LEMMA OtherMutables ==
    ASSUME NEW es \in Seq(Nodes), Mutables(es), NEW n, \A t \in PlainTags : ~IsTag(n, t),
           NEW es2, Longer(es2, es, n)
    PROVE  Mutables(es2)
<1>1. /\ \A t : ~IsTag(n, t) => TagsIn(es2, t) = TagsIn(es, t)
      /\ \A k \in DOMAIN es : es2[k] = es[k]
  BY AppendTags
<1>2. ASSUME NEW t \in PlainTags, NEW k \in TagsIn(es2, t)
      PROVE  es2[k].isMutable = Several(es2, t)
  <2>1. TagsIn(es2, t) = TagsIn(es, t)
    BY <1>1
  <2>2. k \in TagsIn(es, t) /\ k \in DOMAIN es /\ Several(es2, t) = Several(es, t)
    BY <2>1 DEF TagsIn, Several
  <2>3. QED
    BY <1>1, <2>2 DEF Mutables
<1>3. QED
  BY <1>2 DEF Mutables

-----------------------------------------------------------------------------
(* The invariant is kept by an operation on an item.                       *)

(* The link is of the history alone.                                       *)
LEMMA LinkStays ==
    ASSUME given' = given, NEW rs, NEW ls
    PROVE  Linked(rs, ls)' <=> Linked(rs, ls)
<1>1. \A x : toLCM(x)' = toLCM(x)
  BY DEF toLCM
<1>2. PlainTags' = PlainTags
  BY DEF PlainTags
<1>3. \A s, t : Of(s, t)' = Of(s, t)
  BY <1>2 DEF Of, IsPlain
<1>4. \A t, g : LinkedBy(rs, ls, t, g)' <=> LinkedBy(rs, ls, t, g)
  <2>1. SUFFICES ASSUME NEW t, NEW g PROVE LinkedBy(rs, ls, t, g)' <=> LinkedBy(rs, ls, t, g)
    OBVIOUS
  <2>2. Of(rs, t)' = Of(rs, t) /\ Of(ls, t)' = Of(ls, t)
    BY <1>3
  <2>3. NotLater(rs, ls, t, g)' <=> NotLater(rs, ls, t, g)
    BY <1>1, <2>2 DEF NotLater
  <2>4. InTurn(ls, t, g)' <=> InTurn(ls, t, g)
    BY <2>2 DEF InTurn
  <2>5. Founded(rs, ls, t, g)' <=> Founded(rs, ls, t, g)
    BY <2>2 DEF Founded
  <2>6. StillThere(rs, ls, t, g)' <=> StillThere(rs, ls, t, g)
    BY <2>2 DEF StillThere, OfCycle
  <2>7. WentOn(rs, ls, t, g)' <=> WentOn(rs, ls, t, g)
    BY <2>2 DEF WentOn, OfCycle
  <2>8. QED
    BY <2>3, <2>4, <2>5, <2>6, <2>7 DEF LinkedBy
<1>5. QED
  BY <1>2, <1>3, <1>4 DEF Linked

LEMMA HistoryStays ==
    ASSUME given' = given, cycle' = cycle, currentCycle' = currentCycle, NEW rs, NEW ls
    PROVE  (Ordered(rs)' <=> Ordered(rs)) /\ (Linked(rs, ls)' <=> Linked(rs, ls))
<1>1. \A x : toLCM(x)' = toLCM(x)
  BY DEF toLCM
<1>2. Ordered(rs)' <=> Ordered(rs)
  BY <1>1 DEF Ordered
<1>3. QED
  BY <1>2, LinkStays

LEMMA ItemIs ==
    ASSUME IInv, NEW i \in Items, NEW es, es = Entries(i)
    PROVE  /\ AllOf(es) /\ Read(i) = ReadsOf(es) /\ Mutables(es)
           /\ Ordered(ReadsOf(es)) /\ Ordered(log[i])
           /\ Linked(ReadsOf(es), log[i]) /\ Kept(ReadsOf(es), log[i])
<1>1. AllOf(es)
  <2>1. es \in Seq(Nodes)
    BY EntriesFacts DEF IInv
  <2>2. \A k \in DOMAIN es : \E c \in Clocks : NodeOf(es[k], c)
    BY DEF IInv, NodesOK
  <2>3. QED
    BY <2>1, <2>2 DEF AllOf
<1>2. Read(i) = ReadsOf(es)
  BY DEF Read, ReadsOf
<1>3. PICK rs, ls : rs = Read(i) /\ ls = log[i]
  OBVIOUS
<1>4. Ordered(rs) /\ Ordered(ls) /\ Linked(rs, ls) /\ Kept(rs, ls)
  BY <1>3 DEF IInv, HistoryOK
<1>5. Mutables(es)
  BY MutableKnownIs DEF IInv
<1>6. QED
  BY <1>1, <1>2, <1>3, <1>4, <1>5

(* One item has other entries; the others are as they were.                *)
LEMMA OneItem ==
    ASSUME OwnInternals, IInv, UNCHANGEDclocks, Grew, HeapOK', NEW i \in Items,
           \A j \in Items : j # i => Entries(j)' = Entries(j),
           NEW es2, Entries(i)' = es2, AllOf(es2)', Mutables(es2), NEW rs2, ReadsOf(es2)' = rs2,
           NEW ls2, Ordered(rs2), Ordered(ls2), Linked(rs2, ls2), Kept(rs2, ls2),
           log' = [log EXCEPT ![i] = ls2]
    PROVE  IInv'
<1>1. ClocksOK /\ DictsOK /\ ClocksOK' /\ DictsOK'
  BY ClocksStay DEF IInv
<1>2. given' = given /\ cycle' = cycle /\ currentCycle' = currentCycle
  BY DEF UNCHANGEDclocks
<1>3. ASSUME NEW j \in Items
      PROVE  \E es, rs, ls : /\ Entries(j)' = es /\ AllOf(es)' /\ Mutables(es)
                             /\ ReadsOf(es)' = rs /\ log'[j] = ls
                             /\ Ordered(rs) /\ Ordered(ls) /\ Linked(rs, ls) /\ Kept(rs, ls)
  <2>1. DOMAIN log = Items
    BY DEF IInv, HistoryOK
  <2>2. CASE j = i
    BY <2>1, <2>2
  <2>3. CASE j # i
    <3>1. PICK es, ls : es = Entries(j) /\ ls = log[j]
      OBVIOUS
    <3>2. PICK rs : rs = ReadsOf(es)
      OBVIOUS
    <3>3. /\ AllOf(es) /\ Mutables(es)
          /\ Ordered(rs) /\ Ordered(ls) /\ Linked(rs, ls) /\ Kept(rs, ls)
      BY <3>1, <3>2, ItemIs
    <3>4. AllOf(es)' /\ ReadsOf(es)' = ReadsOf(es)
      BY <1>1, <3>3, AllReadAsBefore
    <3>5. Entries(j)' = es /\ log'[j] = ls
      BY <2>1, <2>3, <3>1
    <3>6. QED
      BY <3>2, <3>3, <3>4, <3>5
  <2>4. QED
    BY <2>2, <2>3
<1>4. NodesOK'
  <2>1. ASSUME NEW j \in Items, NEW k \in DOMAIN Entries(j)'
        PROVE  \E c \in Clocks : NodeOf(Entries(j)[k], c)'
    <3>1. PICK es : Entries(j)' = es /\ AllOf(es)'
      BY <1>3
    <3>2. PICK n : n = es[k]
      OBVIOUS
    <3>3. \E c \in Clocks : NodeOf(n, c)'
      BY <2>1, <3>1, <3>2 DEF AllOf
    <3>4. Entries(j)'[k] = n
      BY <3>1, <3>2
    <3>5. QED
      BY <3>3, <3>4 DEF NodeOf
  <2>2. QED
    BY <2>1 DEF NodesOK
<1>5. HistoryOK'
  <2>1. ASSUME NEW j \in Items, NEW rs \in {Read(j)'}, NEW ls \in {log'[j]}
        PROVE  Ordered(rs)' /\ Ordered(ls)' /\ Linked(rs, ls)' /\ Kept(rs, ls)'
    <3>1. PICK es : Entries(j)' = es /\ ReadsOf(es)' = Read(j)'
      BY <1>3 DEF Read, ReadsOf
    <3>2. Ordered(rs) /\ Ordered(ls) /\ Linked(rs, ls) /\ Kept(rs, ls)
      <4>1. PICK es3, rs3, ls3 :
               /\ Entries(j)' = es3 /\ ReadsOf(es3)' = rs3 /\ log'[j] = ls3
               /\ Ordered(rs3) /\ Ordered(ls3) /\ Linked(rs3, ls3) /\ Kept(rs3, ls3)
        BY <1>3
      <4>2. es3 = es /\ rs3 = rs /\ ls3 = ls
        BY <3>1, <4>1
      <4>3. QED
        BY <4>1, <4>2
    <3>3. QED
      BY <1>2, <3>2, HistoryStays, KeptStays
  <2>2. DOMAIN log' = Items
    BY DEF IInv, HistoryOK
  <2>3. QED
    BY <2>1, <2>2 DEF HistoryOK
<1>6. MutableKnown'
  <2>1. given' = given => \A es : Mutables(es)' <=> Mutables(es)
    BY DEF Mutables, PlainTags
  <2>2. ASSUME NEW j \in Items PROVE Mutables(Entries(j))'
    <3>1. PICK es : Entries(j)' = es /\ Mutables(es)
      BY <1>3
    <3>2. QED
      BY <1>2, <2>1, <3>1 DEF Mutables
  <2>3. QED
    BY <2>2, MutableKnownNext
<1>7. QED
  BY <1>1, <1>4, <1>5, <1>6 DEF IInv

OffsetsFit == Len(eventVector) <= OFFSETS

(* What an item has when it is created anew, or goes on.                   *)
BeginsWith(i, first, ls) ==
    \/ first = 0 /\ ls = <<>>
    \/ first = itemVector[i] /\ Exists(i) /\ ls = log[i]

LEMMA BeginIs ==
    ASSUME IInv, NEW i \in Items, NEW first, NEW ls, BeginsWith(i, first, ls),
           NEW es, es = NodesFrom(eventVector, first)
    PROVE  /\ Begins(itemVector, i, first) /\ AllOf(es) /\ Mutables(es)
           /\ Ordered(ReadsOf(es)) /\ Ordered(ls)
           /\ Linked(ReadsOf(es), ls) /\ Kept(ReadsOf(es), ls)
<1>1. CASE first = 0 /\ ls = <<>>
  <2>1. es = <<>>
    BY <1>1, NoEntries
  <2>2. PICK rs : rs = ReadsOf(es)
    OBVIOUS
  <2>3. rs = <<>>
    BY <2>1, <2>2 DEF ReadsOf
  <2>4. AllOf(es)
    BY <2>1 DEF AllOf
  <2>5. Begins(itemVector, i, first)
    BY <1>1 DEF Begins
  <2>6. Ordered(rs) /\ Ordered(ls) /\ Linked(rs, ls) /\ Kept(rs, ls)
    BY <1>1, <2>3, NothingLinked, NothingKept
  <2>7. Mutables(es)
    BY <2>1 DEF Mutables, TagsIn
  <2>8. QED
    BY <2>2, <2>4, <2>5, <2>6, <2>7
<1>2. CASE first = itemVector[i] /\ Exists(i) /\ ls = log[i]
  <2>1. es = Entries(i)
    BY <1>2, EntriesAre
  <2>2. /\ AllOf(es) /\ Mutables(es) /\ Ordered(ReadsOf(es)) /\ Ordered(log[i])
        /\ Linked(ReadsOf(es), log[i]) /\ Kept(ReadsOf(es), log[i])
    BY <2>1, ItemIs
  <2>3. Begins(itemVector, i, first)
    BY <1>2 DEF Begins, Exists, ITEM_UNUSED
  <2>4. QED
    BY <1>2, <2>2, <2>3
<1>3. QED
  BY <1>1, <1>2 DEF BeginsWith

LEMMA TagStep ==
    ASSUME OwnInternals, IInv, cycle # NULL, UNCHANGEDclocks, OffsetsFit', NEW i \in Items,
           NEW first, NEW ls, BeginsWith(i, first, ls), NEW t \in PlainTags, NEW v \in AllValues,
           newTag(i, first, t, v), log' = [log EXCEPT ![i] = Append(ls, TagSaid(t, v))]
    PROVE  IInv'
<1>1. PICK es : es = NodesFrom(eventVector, first)
  OBVIOUS
<1>2. PICK rs : rs = ReadsOf(es)
  OBVIOUS
<1>3. /\ Begins(itemVector, i, first) /\ AllOf(es) /\ Mutables(es)
      /\ Ordered(rs) /\ Ordered(ls) /\ Linked(rs, ls) /\ Kept(rs, ls)
  BY <1>1, <1>2, BeginIs
<1>4. HeapOK /\ ClocksOK /\ DictsOK /\ t \in AllTags
  BY GivenIs DEF IInv, ClocksOK
<1>5. PICK es2 : es2 = Entries(i)'
  OBVIOUS
<1>6. HeapOK' /\ (\A j \in Items : j # i => Entries(j)' = Entries(j)) /\ TagEffect(es, t, v, es2)
  <2>1. Len(eventVector') <= OFFSETS
    BY DEF OffsetsFit
  <2>2. HeapOK' /\ (\A j \in Items : j # i => Entries(j)' = Entries(j))
        /\ TagEffect(NodesFrom(eventVector, first), t, v, Entries(i)')
    BY <1>3, <1>4, <2>1, TagStored
  <2>3. QED
    BY <1>1, <1>5, <2>2
<1>7. PICK rs2 : rs2 = ReadsOf(es2)'
  OBVIOUS
<1>8. Grew /\ AllOf(es2)' /\ ReadEffect(rs, t, v, rs2)
  BY <1>2, <1>3, <1>4, <1>6, <1>7, TagRead
<1>9. PICK ls2 : ls2 = Append(ls, TagSaid(t, v))
  OBVIOUS
<1>10. Ordered(rs2)
  BY <1>3, <1>4, <1>8, EffectOrdered
<1>11. Ordered(ls2)
  BY <1>3, <1>4, <1>9, SaidIs, OrderedAppend
<1>12. Linked(rs2, ls2)
  BY <1>3, <1>4, <1>8, <1>9, TagLinked
<1>13. log' = [log EXCEPT ![i] = ls2]
  BY <1>9
<1>14. Entries(i)' = es2 /\ ReadsOf(es2)' = rs2
  BY <1>5, <1>7
<1>15. Kept(rs2, ls2)
  BY <1>3, <1>4, <1>8, <1>9, EffectKept
<1>16. Mutables(es2)
  BY <1>3, <1>4, <1>6, EffectMutables DEF AllOf
<1>17. QED
  BY <1>6, <1>8, <1>10, <1>11, <1>12, <1>13, <1>14, <1>15, <1>16, OneItem

LEMMA EntryStep ==
    ASSUME OwnInternals, IInv, cycle # NULL, UNCHANGEDclocks, OffsetsFit', NEW i \in Items,
           Exists(i), Grew, NEW n \in Nodes, \E c \in Clocks : NodeOf(n, c)',
           NEW x \in Records, Decoded(n)' = x, x.at = cycle, ~IsPlain(x),
           \A t \in PlainTags : ~IsTag(n, t),
           itemVector' = itemVector, eventVector' = Stored(eventVector, itemVector[i], n),
           Logged(i, x)
    PROVE  IInv'
<1>1. PICK es, ls : es = Entries(i) /\ ls = log[i]
  OBVIOUS
<1>2. PICK rs : rs = ReadsOf(es)
  OBVIOUS
<1>3. /\ AllOf(es) /\ Mutables(es)
      /\ Ordered(rs) /\ Ordered(ls) /\ Linked(rs, ls) /\ Kept(rs, ls)
  BY <1>1, <1>2, ItemIs
<1>4. HeapOK /\ ClocksOK /\ DictsOK
  BY DEF IInv
<1>5. /\ HeapOK' /\ \A j \in Items : j # i => Entries(j)' = Entries(j)
      /\ Entries(i)' = Append(es, n)
  <2>1. Len(eventVector') <= OFFSETS
    BY DEF OffsetsFit
  <2>2. QED
    BY <1>1, <1>4, <2>1, EntryStored
<1>6. PICK es2, rs2, ls2 : es2 = Append(es, n) /\ rs2 = Append(rs, x) /\ ls2 = Append(ls, x)
  OBVIOUS
<1>7. PICK c \in Clocks : NodeOf(n, c)'
  OBVIOUS
<1>8. AllOf(Append(es, n))' /\ ReadsOf(Append(es, n))' = Append(ReadsOf(es), x)
  BY <1>3, <1>4, <1>7, AppendedReads
<1>9. AllOf(es2)' /\ ReadsOf(es2)' = rs2
  BY <1>2, <1>6, <1>8
<1>10. Ordered(rs2) /\ Ordered(ls2)
  BY <1>3, <1>4, <1>6, OrderedAppend
<1>11. Linked(rs2, ls2)
  BY <1>3, <1>4, <1>6, OtherLinked
<1>12. log' = [log EXCEPT ![i] = ls2]
  BY <1>1, <1>6 DEF Logged
<1>13. Entries(i)' = es2
  BY <1>5, <1>6
<1>14. Kept(rs2, ls2)
  BY <1>3, <1>6, KeptAppend
<1>15. Mutables(es2)
  <2>1. Longer(es2, es, n) /\ es \in Seq(Nodes)
    BY <1>3, <1>6 DEF Longer, AllOf
  <2>2. QED
    BY <1>3, <2>1, OtherMutables
<1>16. QED
  BY <1>5, <1>9, <1>10, <1>11, <1>12, <1>13, <1>14, <1>15, OneItem

LEMMA TagActions ==
    ASSUME OwnInternals, IInv, OffsetsFit', NEW i \in Items, NEW t \in PlainTags,
           NEW v \in AllValues,
           (t = NEWITEM /\ v = ZERO /\ newItemBlock(i)) \/ SetTag(i, t, v)
    PROVE  IInv'
<1>1. DOMAIN log = Items
  BY DEF IInv, HistoryOK
<1>2. CASE t = NEWITEM /\ v = ZERO /\ newItemBlock(i)
  <2>1. PICK ls : ls = <<>>
    OBVIOUS
  <2>2. cycle # NULL /\ UNCHANGEDclocks /\ newTag(i, 0, t, v)
    BY <1>2 DEF newItemBlock, Running, Opened, ITEM_OPEN
  <2>3. BeginsWith(i, 0, ls)
    BY <2>1 DEF BeginsWith
  <2>4. log' = [log EXCEPT ![i] = Append(ls, TagSaid(t, v))]
    <3>1. PICK x : x = TagSaid(t, v)
      OBVIOUS
    <3>2. log' = [log EXCEPT ![i] = <<x>>]
      BY <1>2, <3>1 DEF newItemBlock, TagSaid
    <3>3. Append(ls, x) = <<x>>
      BY <2>1
    <3>4. QED
      BY <3>1, <3>2, <3>3
  <2>5. QED
    BY <2>2, <2>3, <2>4, TagStep
<1>3. CASE SetTag(i, t, v)
  <2>1. PICK ls, first : ls = log[i] /\ first = itemVector[i]
    OBVIOUS
  <2>2. cycle # NULL /\ UNCHANGEDclocks /\ newTag(i, first, t, v) /\ Exists(i)
    BY <1>3, <2>1 DEF SetTag, Running
  <2>3. BeginsWith(i, first, ls)
    BY <2>1, <2>2 DEF BeginsWith
  <2>4. log' = [log EXCEPT ![i] = Append(ls, TagSaid(t, v))]
    BY <1>3, <2>1 DEF SetTag, Logged, TagSaid
  <2>5. QED
    BY <2>2, <2>3, <2>4, TagStep
<1>4. QED
  BY <1>2, <1>3

LEMMA SovAction ==
    ASSUME OwnInternals, IInv, OffsetsFit', NEW i \in Items, NEW t \in given.sovTags,
           NEW v \in AllValues, SetSov(i, t, v)
    PROVE  IInv'
<1>1. ClocksOK /\ DictsOK /\ cycle # NULL /\ Exists(i) /\ UNCHANGEDclocks /\ itemVector' = itemVector
  BY DEF IInv, SetSov, Running
<1>2. t \in AllTags /\ t \notin PlainTags
  BY <1>1, GivenIs DEF ClocksOK
<1>3. PICK key \in Keys : /\ KeyFor(v, cycle.clock, key)
                          /\ eventVector' = Stored(eventVector, itemVector[i], TagNode(t, key, FALSE, TRUE))
  BY DEF SetSov
<1>4. PICK n : n = TagNode(t, key, FALSE, TRUE)
  OBVIOUS
<1>5. FALSE \in BOOLEAN /\ TRUE \in BOOLEAN
  OBVIOUS
<1>6. /\ n \in TagNodes /\ n.tagId = t /\ n.dkey = key /\ n.clockId = given.internal[cycle.clock]
      /\ n.cycle = IntCycle /\ n.division = cycle.division
  <2>1. \A m, s \in BOOLEAN :
           /\ TagNode(t, key, m, s) \in TagNodes /\ TagNode(t, key, m, s).tagId = t
           /\ TagNode(t, key, m, s).dkey = key
           /\ TagNode(t, key, m, s).clockId = given.internal[cycle.clock]
           /\ TagNode(t, key, m, s).cycle = IntCycle
           /\ TagNode(t, key, m, s).division = cycle.division
    BY <1>1, <1>2, NodesAre
  <2>2. QED
    BY <1>4, <1>5, <2>1, Zenon
<1>7. /\ cycle \in CycleSet /\ cycle.division \in 0..1 /\ cycle.division < given.divisions[cycle.clock]
  BY <1>1, StampIs DEF ClocksOK
<1>8. (\E c \in Clocks : NodeOf(n, c)')
      /\ Decoded(n)' = [tag |-> n.tagId, value |-> v,
                        at |-> [clock |-> cycle.clock, cycle |-> cycle.cycle, division |-> n.division]]
  BY <1>1, <1>3, <1>6, <1>7, NewTagRead
<1>9. cycle = [clock |-> cycle.clock, cycle |-> cycle.cycle, division |-> cycle.division]
  BY <1>7 DEF CycleSet
<1>10. PICK x : x = [tag |-> t, value |-> v, at |-> cycle]
  OBVIOUS
<1>11. Decoded(n)' = x
  BY <1>6, <1>8, <1>9, <1>10
<1>12. x \in Records /\ x.at = cycle /\ x.tag = t
  BY <1>2, <1>7, <1>10 DEF Records
<1>13. ~IsPlain(x)
  BY <1>2, <1>12 DEF IsPlain
<1>14. Logged(i, x)
  BY <1>10 DEF SetSov
<1>15. Grew
  BY <1>1, <1>3, KeyGiven
<1>16. n \in Nodes /\ eventVector' = Stored(eventVector, itemVector[i], n)
  BY <1>3, <1>4, <1>6 DEF Nodes
<1>17. \A t1 \in PlainTags : ~IsTag(n, t1)
  BY <1>2, <1>6 DEF IsTag
<1>18. QED
  BY <1>1, <1>8, <1>11, <1>12, <1>13, <1>14, <1>15, <1>16, <1>17, EntryStep

LEMMA EventAction ==
    ASSUME OwnInternals, IInv, OffsetsFit', NEW i \in Items, NEW e \in given.events,
           newEvent(i, e)
    PROVE  IInv'
<1>1. /\ ClocksOK /\ DictsOK /\ cycle # NULL /\ Exists(i) /\ UNCHANGEDclocks
      /\ itemVector' = itemVector /\ entered' = entered /\ contents' = contents
  BY DEF IInv, newEvent, Running, dictVars
<1>2. e \in AllEvents
  BY <1>1, GivenIs DEF ClocksOK
<1>3. PICK n : n = EventNode(e)
  OBVIOUS
<1>4. eventVector' = Stored(eventVector, itemVector[i], n)
  BY <1>3 DEF newEvent
<1>6. /\ n \in EventNodes /\ n.event = e /\ n.clockId = given.internal[cycle.clock]
      /\ n.cycle = IntCycle /\ n.division = cycle.division
  BY <1>1, <1>2, <1>3, NodesAre, Zenon
<1>7. /\ cycle \in CycleSet /\ cycle.division \in 0..1 /\ cycle.division < given.divisions[cycle.clock]
  BY <1>1, StampIs DEF ClocksOK
<1>15. Grew
  BY <1>1 DEF Grew, DictsOK
<1>8. (\E c \in Clocks : NodeOf(n, c)')
      /\ Decoded(n)' = [event |-> n.event,
                        at |-> [clock |-> cycle.clock, cycle |-> cycle.cycle, division |-> n.division]]
  BY <1>1, <1>6, <1>7, <1>15, NewEventRead
<1>9. cycle = [clock |-> cycle.clock, cycle |-> cycle.cycle, division |-> cycle.division]
  BY <1>7 DEF CycleSet
<1>10. PICK x : x = [event |-> e, at |-> cycle]
  OBVIOUS
<1>11. Decoded(n)' = x
  BY <1>6, <1>8, <1>9, <1>10
<1>12. x \in Records /\ x.at = cycle /\ "tag" \notin DOMAIN x
  BY <1>2, <1>7, <1>10 DEF Records
<1>13. ~IsPlain(x)
  BY <1>12 DEF IsPlain
<1>14. Logged(i, x)
  BY <1>10 DEF newEvent
<1>16. n \in Nodes /\ \A t \in PlainTags : ~IsTag(n, t)
  BY <1>6 DEF Nodes, EventNodes, IsTag
<1>17. QED
  BY <1>1, <1>4, <1>8, <1>11, <1>12, <1>13, <1>14, <1>15, <1>16, EntryStep

-----------------------------------------------------------------------------
(* The invariant is kept by a cycle.                                       *)

(* No clock goes back, none starts twice, and what was read in the         *)
(* dictionary of a past cycle still is.                                    *)
WentForward ==
    /\ given' = given /\ contents' = contents
    /\ \A b \in Clocks : currentCycle[b] # -1 =>
          /\ currentCycle[b] \in Nat /\ currentCycle'[b] \in Nat
          /\ currentCycle[b] <= currentCycle'[b]
          /\ \A at \in Nat : at + given.start[b] <= currentCycle[b] =>
                \A e \in 0..current(b) : InDict(e, at, b) => e \in 0..current(b)' /\ InDict(e, at, b)'
    /\ cycle # NULL => cycle' # NULL /\ toLCM(cycle)' >= toLCM(cycle)

LEMMA CycleClocks ==
    ASSUME OwnInternals, ClocksOK, DictsOK, NEW c \in Clocks, NEW n \in 0..MaxCycle, NEW d \in 0..1,
           Cycle(c, n, d)
    PROVE  ClocksOK' /\ DictsOK' /\ WentForward
<1>1. PICK x : x = [clock |-> c, cycle |-> n, division |-> d]
  OBVIOUS
<1>2. /\ x \in CycleSet /\ x.clock = c /\ x.cycle = n /\ x.division = d /\ n \in Nat /\ MaxCycle \in Nat
      /\ x # NULL
  <2>1. n \in Nat /\ MaxCycle \in Nat
    BY ItemSizesAssumption
  <2>2. x \in [clock : Clocks, cycle : Nat, division : 0..1]
    BY <1>1, <2>1
  <2>3. x # NULL
    BY <2>2, NullAssumption
  <2>4. QED
    BY <1>1, <2>1, <2>3 DEF CycleSet
<1>3. /\ d < given.divisions[c] /\ n >= currentCycle[c] /\ InOrder(x)
      /\ cycle' = x /\ currentCycle' = [currentCycle EXCEPT ![c] = n]
      /\ firstEffectiveCycle' = IF currentCycle[c] = -1
                                THEN [firstEffectiveCycle EXCEPT ![given.internal[c]] = n]
                                ELSE firstEffectiveCycle
      /\ given' = given /\ contents' = contents
      /\ \/ entered' = entered
         \/ /\ currentCycle[c] # -1 /\ n > currentCycle[c] /\ current(c) < MAXDICT - 1
            /\ entered' = [entered EXCEPT ![c] = Append(@, n - given.start[c])]
  <2>1. UNCHANGED given
    BY DEF Cycle
  <2>2. UNCHANGED dictVars => entered' = entered /\ contents' = contents
    BY DEF dictVars
  <2>3. NextDict(c, n - given.start[c]) =>
           /\ current(c) < MAXDICT - 1 /\ contents' = contents
           /\ entered' = [entered EXCEPT ![c] = Append(@, n - given.start[c])]
    BY DEF NextDict
  <2>4. /\ x.division < given.divisions[c] /\ x.cycle >= currentCycle[c] /\ InOrder(x)
        /\ cycle' = x /\ currentCycle' = [currentCycle EXCEPT ![c] = x.cycle]
        /\ firstEffectiveCycle' = IF currentCycle[c] = -1
                                  THEN [firstEffectiveCycle EXCEPT ![given.internal[c]] = x.cycle]
                                  ELSE firstEffectiveCycle
        /\ \/ UNCHANGED dictVars
           \/ /\ currentCycle[c] # -1 /\ x.cycle > currentCycle[c]
              /\ NextDict(c, x.cycle - given.start[c])
    BY <1>1 DEF Cycle
  <2>5. QED
    BY <1>2, <2>1, <2>2, <2>3, <2>4
<1>4. /\ given \in Givens /\ currentCycle \in [Clocks -> Int] /\ firstEffectiveCycle \in [Clocks -> Nat]
      /\ \A b \in Clocks : currentCycle[b] # -1 =>
            /\ currentCycle[b] \in given.start[b]..MaxCycle
            /\ firstEffectiveCycle[given.internal[b]] = given.start[b]
  BY DEF ClocksOK
<1>5. /\ given.internal \in [Clocks -> Clocks] /\ given.start \in [Clocks -> Nat]
      /\ \A b \in Clocks : given.internal[b] = given.internal[c] => b = c
  BY <1>4, GivenIs DEF OwnInternals
<1>6. currentCycle[c] = -1 => n = given.start[c]
  BY <1>2, <1>3 DEF InOrder, StartOf
<1>7. currentCycle'[c] = n /\ \A b \in Clocks : b # c => currentCycle'[b] = currentCycle[b]
  BY <1>3, <1>4
<1>8. n \in given.start[c]..MaxCycle /\ firstEffectiveCycle'[given.internal[c]] = given.start[c]
  <2>1. CASE currentCycle[c] = -1
    BY <1>2, <1>3, <1>4, <1>5, <1>6, <2>1
  <2>2. CASE currentCycle[c] # -1
    <3>1. currentCycle[c] \in given.start[c]..MaxCycle /\ given.start[c] \in Nat
      BY <1>4, <1>5, <2>2
    <3>2. n \in given.start[c]..MaxCycle
      BY <1>2, <1>3, <3>1
    <3>3. QED
      BY <1>3, <1>4, <2>2, <3>2
  <2>3. QED
    BY <2>1, <2>2
<1>9. \A b \in Clocks : b # c => firstEffectiveCycle'[given.internal[b]] = firstEffectiveCycle[given.internal[b]]
  BY <1>3, <1>4, <1>5
<1>10. firstEffectiveCycle' \in [Clocks -> Nat] /\ currentCycle' \in [Clocks -> Int]
  BY <1>2, <1>3, <1>4, <1>5
<1>11. ClocksOK'
  <2>1. ASSUME NEW b \in Clocks, currentCycle'[b] # -1
        PROVE  /\ currentCycle'[b] \in given.start[b]..MaxCycle
               /\ firstEffectiveCycle'[given.internal[b]] = given.start[b]
    BY <1>4, <1>7, <1>8, <1>9, <2>1
  <2>2. QED
    BY <1>2, <1>3, <1>4, <1>7, <1>10, <2>1 DEF ClocksOK
<1>12. \A b \in Clocks : entered[b] \in Seq(Nat) /\ Len(entered[b]) \in 1..MAXDICT /\ Len(entered[b]) \in Nat
  BY DEF DictsOK
<1>13. \A b \in Clocks : b # c => entered'[b] = entered[b] /\ current(b)' = current(b)
  BY <1>3 DEF DictsOK, current
<1>14. \/ entered'[c] = entered[c] /\ current(c)' = current(c)
       \/ \E es2 : /\ es2 = entered'[c] /\ es2 \in Seq(Nat) /\ Len(es2) = Len(entered[c]) + 1
                   /\ \A k \in 1..Len(entered[c]) : es2[k] = entered[c][k]
                   /\ es2[Len(entered[c]) + 1] = n - given.start[c]
                   /\ currentCycle[c] # -1 /\ n > currentCycle[c]
                   /\ current(c) < MAXDICT - 1 /\ current(c)' = current(c) + 1
  <2>1. CASE entered' = entered
    BY <2>1 DEF current
  <2>2. CASE /\ currentCycle[c] # -1 /\ n > currentCycle[c] /\ current(c) < MAXDICT - 1
             /\ entered' = [entered EXCEPT ![c] = Append(@, n - given.start[c])]
    <3>1. PICK m : m = n - given.start[c]
      OBVIOUS
    <3>2. m \in Nat
      BY <1>5, <1>8, <3>1
    <3>3. PICK es2 : es2 = Append(entered[c], m)
      OBVIOUS
    <3>4. /\ es2 \in Seq(Nat) /\ Len(es2) = Len(entered[c]) + 1
          /\ (\A k \in 1..Len(entered[c]) : es2[k] = entered[c][k])
          /\ es2[Len(entered[c]) + 1] = m
      BY <1>12, <3>2, <3>3
    <3>5. entered'[c] = es2
      BY <2>2, <3>1, <3>3 DEF DictsOK
    <3>6. current(c)' = current(c) + 1
      BY <1>12, <3>4, <3>5 DEF current
    <3>7. QED
      BY <2>2, <3>1, <3>4, <3>5, <3>6
  <2>3. QED
    BY <1>3, <2>1, <2>2
<1>15. DictsOK'
  <2>1. entered' \in [Clocks -> Seq(Nat)]
    <3>1. \A b \in Clocks : entered'[b] \in Seq(Nat)
      BY <1>12, <1>13, <1>14
    <3>2. DOMAIN entered' = Clocks /\ entered' = [b \in Clocks |-> entered'[b]]
      BY <1>3 DEF DictsOK
    <3>3. QED
      BY <3>1, <3>2
  <2>2. ASSUME NEW b \in Clocks
        PROVE  /\ Len(entered'[b]) \in 1..MAXDICT /\ entered'[b][1] = 0
               /\ currentCycle'[b] = -1 => Len(entered'[b]) = 1
               /\ currentCycle'[b] # -1 =>
                     \A e \in 1..Len(entered'[b]) : entered'[b][e] <= currentCycle'[b] - given.start[b]
    <3>1. CASE b # c
      BY <1>7, <1>13, <3>1 DEF DictsOK
    <3>2. CASE b = c
      <4>1. n # -1 /\ n \in Nat /\ given.start[c] \in Nat /\ currentCycle[c] \in Int
        BY <1>2, <1>4, <1>5
      <4>2. /\ Len(entered[c]) \in 1..MAXDICT /\ entered[c][1] = 0
            /\ currentCycle[c] = -1 => Len(entered[c]) = 1
            /\ currentCycle[c] # -1 =>
                 \A e \in 1..Len(entered[c]) : entered[c][e] <= currentCycle[c] - given.start[c]
        BY DEF DictsOK
      <4>3. \A e \in 1..Len(entered[c]) : entered[c][e] <= n - given.start[c] /\ entered[c][e] \in Nat
        <5>1. SUFFICES ASSUME NEW e \in 1..Len(entered[c])
                       PROVE  entered[c][e] <= n - given.start[c] /\ entered[c][e] \in Nat
          OBVIOUS
        <5>2. entered[c][e] \in Nat
          BY <1>12, ElementOfSeq
        <5>3. CASE currentCycle[c] = -1
          <6>1. e = 1
            <7>1. Len(entered[c]) = 1
              BY <4>2, <5>3
            <7>2. e \in 1..1
              BY <5>1, <7>1
            <7>3. QED
              BY <7>2
          <6>2. QED
            BY <1>6, <4>1, <4>2, <5>2, <5>3, <6>1
        <5>4. CASE currentCycle[c] # -1
          <6>1. entered[c][e] <= currentCycle[c] - given.start[c]
            BY <4>2, <5>4
          <6>2. n >= currentCycle[c] /\ currentCycle[c] \in Int /\ n \in Int /\ given.start[c] \in Int
            BY <1>3, <4>1
          <6>3. QED
            BY ONLY <5>2, <6>1, <6>2
        <5>5. QED
          BY <5>3, <5>4
      <4>4. CASE entered'[c] = entered[c] /\ current(c)' = current(c)
        BY <1>7, <3>2, <4>1, <4>2, <4>3, <4>4
      <4>5. CASE \E es2 : /\ es2 = entered'[c] /\ es2 \in Seq(Nat) /\ Len(es2) = Len(entered[c]) + 1
                          /\ \A k \in 1..Len(entered[c]) : es2[k] = entered[c][k]
                          /\ es2[Len(entered[c]) + 1] = n - given.start[c]
                          /\ currentCycle[c] # -1 /\ n > currentCycle[c]
                          /\ current(c) < MAXDICT - 1 /\ current(c)' = current(c) + 1
        <5>1. PICK es2 : /\ es2 = entered'[c] /\ es2 \in Seq(Nat) /\ Len(es2) = Len(entered[c]) + 1
                         /\ \A k \in 1..Len(entered[c]) : es2[k] = entered[c][k]
                         /\ es2[Len(entered[c]) + 1] = n - given.start[c]
                         /\ current(c) < MAXDICT - 1
          BY <4>5
        <5>2. Len(es2) \in 1..MAXDICT /\ es2[1] = 0
          <6>1. current(c) = Len(entered[c]) - 1 /\ Len(entered[c]) \in Nat /\ MAXDICT \in Nat
            BY <1>12, ItemSizesAssumption DEF current
          <6>2. 1 \in 1..Len(entered[c])
            BY <4>2, <6>1
          <6>3. es2[1] = 0
            BY <4>2, <5>1, <6>2
          <6>4. Len(es2) = Len(entered[c]) + 1 /\ current(c) < MAXDICT - 1
            BY <5>1
          <6>5. QED
            BY ONLY <6>1, <6>3, <6>4
        <5>3. \A e \in 1..Len(es2) : es2[e] <= n - given.start[c]
          <6>1. SUFFICES ASSUME NEW e \in 1..Len(es2) PROVE es2[e] <= n - given.start[c]
            OBVIOUS
          <6>2. e \in 1..Len(entered[c]) \/ e = Len(entered[c]) + 1
            BY <1>12, <5>1
          <6>3. CASE e \in 1..Len(entered[c])
            <7>1. es2[e] = entered[c][e]
              BY ONLY <5>1, <6>3
            <7>2. QED
              BY <4>1, <4>3, <6>3, <7>1
          <6>4. CASE e = Len(entered[c]) + 1
            <7>1. es2[e] = n - given.start[c]
              BY ONLY <5>1, <6>4
            <7>2. n - given.start[c] \in Int
              BY <4>1, <4>3
            <7>3. QED
              BY <7>1, <7>2
          <6>5. QED
            BY <6>2, <6>3, <6>4
        <5>4. QED
          BY <1>7, <3>2, <4>1, <5>1, <5>2, <5>3
      <4>6. QED
        BY <1>14, <4>4, <4>5
    <3>3. QED
      BY <3>1, <3>2
  <2>3. contents' \in [0..(MAXDICT - 1) -> Seq(AllValues)]
    BY <1>3 DEF DictsOK
  <2>4. QED
    BY <1>3, <2>1, <2>2, <2>3 DEF DictsOK
<1>16. ASSUME NEW b \in Clocks, currentCycle[b] # -1
       PROVE  /\ currentCycle[b] \in Nat /\ currentCycle'[b] \in Nat
              /\ currentCycle[b] <= currentCycle'[b]
  <2>1. currentCycle[b] \in given.start[b]..MaxCycle /\ given.start[b] \in Nat
    BY <1>4, <1>5, <1>16
  <2>2. currentCycle[b] \in Nat
    BY <1>2, <2>1
  <2>3. QED
    BY <1>2, <1>3, <1>7, <2>2
<1>17. ASSUME NEW b \in Clocks, currentCycle[b] # -1, NEW at \in Nat,
              at + given.start[b] <= currentCycle[b], NEW e \in 0..current(b), InDict(e, at, b)
       PROVE  e \in 0..current(b)' /\ InDict(e, at, b)'
  <2>1. /\ current(b) = Len(entered[b]) - 1 /\ Len(entered[b]) \in Nat \ {0}
        /\ current(b) \in Nat /\ e \in Nat
    BY <1>12 DEF current
  <2>2. CASE entered'[b] = entered[b] /\ current(b)' = current(b)
    BY <1>17, <2>2 DEF InDict
  <2>3. CASE b = c /\ \E es2 : /\ es2 = entered'[c] /\ es2 \in Seq(Nat) /\ Len(es2) = Len(entered[c]) + 1
                               /\ \A k \in 1..Len(entered[c]) : es2[k] = entered[c][k]
                               /\ es2[Len(entered[c]) + 1] = n - given.start[c]
                               /\ currentCycle[c] # -1 /\ n > currentCycle[c]
                               /\ current(c) < MAXDICT - 1 /\ current(c)' = current(c) + 1
    <3>1. PICK es2 : /\ es2 = entered'[b] /\ \A k \in 1..Len(entered[b]) : es2[k] = entered[b][k]
                     /\ es2[Len(entered[b]) + 1] = n - given.start[b]
                     /\ n > currentCycle[b] /\ current(b)' = current(b) + 1
      BY <2>3
    <3>2. \A k \in 0..e : es2[k + 1] <= at
      <4>1. \A k \in 0..e : k + 1 \in 1..Len(entered[b])
        BY <2>1
      <4>2. QED
        BY <1>17, <3>1, <4>1 DEF InDict
    <3>3. es2[e + 2] > at
      <4>1. CASE e < current(b)
        <5>1. e + 2 \in 1..Len(entered[b])
          BY <2>1, <4>1
        <5>2. QED
          BY <1>17, <3>1, <4>1, <5>1 DEF InDict
      <4>2. CASE e = current(b)
        <5>1. e + 2 = Len(entered[b]) + 1
          BY <2>1, <4>2
        <5>2. n - given.start[b] > at
          BY <1>2, <1>5, <1>16, <1>17, <3>1
        <5>3. QED
          BY <3>1, <5>1, <5>2
      <4>3. QED
        BY <2>1, <4>1, <4>2
    <3>4. e \in 0..current(b)' /\ e \in 0..(current(b) + 1)
      BY <2>1, <3>1
    <3>5. InDict(e, at, b)'
      BY <3>1, <3>2, <3>3, <3>4 DEF InDict
    <3>6. QED
      BY <3>4, <3>5
  <2>4. QED
    BY <1>13, <1>14, <2>2, <2>3
<1>18. cycle # NULL => toLCM(cycle)' >= toLCM(cycle)
  <2>1. toLCM(cycle)' = toLCM(x)
    BY <1>3 DEF toLCM
  <2>2. QED
    BY <1>3, <2>1 DEF InOrder
<1>19. WentForward
  BY <1>2, <1>3, <1>16, <1>17, <1>18 DEF WentForward
<1>20. QED
  BY <1>11, <1>15, <1>19

LEMMA NodeForward ==
    ASSUME OwnInternals, ClocksOK, DictsOK, ClocksOK', DictsOK', WentForward,
           NEW n \in Nodes, NEW c \in Clocks, NodeOf(n, c)
    PROVE  NodeOf(n, c)' /\ Decoded(n)' = Decoded(n)
<1>1. /\ given' = given /\ contents' = contents /\ currentCycle[c] # -1
      /\ currentCycle[c] \in Nat /\ currentCycle'[c] \in Nat /\ currentCycle[c] <= currentCycle'[c]
      /\ \A at \in Nat : at + given.start[c] <= currentCycle[c] =>
            \A e \in 0..current(c) : InDict(e, at, c) => e \in 0..current(c)' /\ InDict(e, at, c)'
  BY DEF WentForward, NodeOf
<1>2. n.cycle \in Nat /\ n.cycle + given.start[c] <= currentCycle[c] /\ given.start[c] \in Nat
  BY GivenIs DEF NodeOf, Nodes, TagNodes, EventNodes, ClocksOK
<1>3. \A e \in 0..current(c) : InDict(e, n.cycle, c) => e \in 0..current(c)' /\ InDict(e, n.cycle, c)'
  BY <1>1, <1>2
<1>4. NodeOf(n, c)'
  <2>1. n.type = "tag" =>
          \E d \in 0..current(c)' : InDict(d, n.cycle, c)' /\ n.dkey + 1 \in DOMAIN contents'[d]
    BY <1>1, <1>3 DEF NodeOf
  <2>2. n.clockId = given.internal[c] /\ n.division < given.divisions[c]
    BY DEF NodeOf
  <2>3. currentCycle'[c] # -1 /\ n.cycle + given.start[c] <= currentCycle'[c]
    BY <1>1, <1>2
  <2>4. QED
    BY <1>1, <2>1, <2>2, <2>3 DEF NodeOf
<1>5. AbsoluteCycle(n)' = AbsoluteCycle(n)
  <2>1. AbsoluteCycle(n)
        = [clock |-> c, cycle |-> n.cycle + given.start[c], division |-> n.division]
    BY DecodesRightNow DEF DecodesRight
  <2>2. AbsoluteCycle(n)'
        = [clock |-> c, cycle |-> n.cycle + given'.start[c], division |-> n.division]
    BY <1>4, DecodesRightNext DEF DecodesRight
  <2>3. QED
    BY <1>1, <2>1, <2>2
<1>6. CASE n.type = "event"
  <2>1. Decoded(n) = [event |-> n.event, at |-> AbsoluteCycle(n)]
    BY <1>6, DecodesRightNow DEF DecodesRight
  <2>2. Decoded(n)' = [event |-> n.event, at |-> AbsoluteCycle(n)']
    BY <1>4, <1>6, DecodesRightNext DEF DecodesRight
  <2>3. QED
    BY <1>4, <1>5, <2>1, <2>2
<1>7. CASE n.type # "event"
  <2>1. /\ Decoded(n) = [tag |-> n.tagId, value |-> ValueOf(n), at |-> AbsoluteCycle(n)]
        /\ \A d \in 0..current(c) : InDict(d, n.cycle, c) => ValueOf(n) = contents[d][n.dkey + 1]
    BY <1>7, DecodesRightNow DEF DecodesRight
  <2>2. /\ Decoded(n)' = [tag |-> n.tagId, value |-> ValueOf(n)', at |-> AbsoluteCycle(n)']
        /\ \A d \in 0..current(c)' : InDict(d, n.cycle, c)' => ValueOf(n)' = contents'[d][n.dkey + 1]
    BY <1>4, <1>7, DecodesRightNext DEF DecodesRight
  <2>3. n.type = "tag"
    BY <1>7 DEF Nodes, TagNodes, EventNodes
  <2>4. PICK d \in 0..current(c) : InDict(d, n.cycle, c) /\ n.dkey + 1 \in DOMAIN contents[d]
    BY <2>3 DEF NodeOf
  <2>5. ValueOf(n) = contents[d][n.dkey + 1] /\ ValueOf(n)' = contents'[d][n.dkey + 1]
    BY <1>3, <2>1, <2>2, <2>4
  <2>6. ValueOf(n)' = ValueOf(n)
    BY <1>1, <2>5
  <2>7. QED
    BY <1>4, <1>5, <2>1, <2>2, <2>6
<1>8. QED
  BY <1>4, <1>6, <1>7

LEMMA OrderForward ==
    ASSUME ClocksOK, ClocksOK', WentForward, NEW rs, Ordered(rs)
    PROVE  Ordered(rs)'
<1>1. given' = given /\ given \in Givens
  BY DEF WentForward, ClocksOK
<1>2. \A x : toLCM(x)' = toLCM(x)
  BY <1>1 DEF toLCM
<1>3. Ordered(rs)'
  <2>1. \A k \in DOMAIN rs : rs[k].at \in CycleSet /\ toLCM(rs[k].at) \in Nat
    BY <1>1, OrderedFacts
  <2>2. ASSUME NEW k \in DOMAIN rs
        PROVE  /\ currentCycle'[rs[k].at.clock] # -1
               /\ rs[k].at.division < given.divisions[rs[k].at.clock]
               /\ cycle' # NULL /\ toLCM(rs[k].at) <= toLCM(cycle)'
    <3>1. /\ currentCycle[rs[k].at.clock] # -1
          /\ rs[k].at.division < given.divisions[rs[k].at.clock]
          /\ cycle # NULL /\ toLCM(rs[k].at) <= toLCM(cycle)
      BY DEF Ordered
    <3>2. rs[k].at.clock \in Clocks
      BY <2>1 DEF CycleSet
    <3>3. currentCycle'[rs[k].at.clock] \in Nat
      BY <3>1, <3>2 DEF WentForward
    <3>4. cycle' # NULL /\ toLCM(cycle)' >= toLCM(cycle)
      BY <3>1 DEF WentForward
    <3>5. toLCM(cycle) \in Nat
      BY <1>1, <3>1, TimeIsNat DEF ClocksOK
    <3>6. toLCM(cycle)' \in Nat
      <4>1. PICK x : x = cycle'
        OBVIOUS
      <4>2. x \in CycleSet
        BY <3>4, <4>1 DEF ClocksOK
      <4>3. toLCM(x) \in Nat
        BY <1>1, <4>2, TimeIsNat
      <4>4. toLCM(cycle)' = toLCM(x)
        BY <1>1, <4>1 DEF toLCM
      <4>5. QED
        BY <4>3, <4>4
    <3>7. QED
      BY <2>1, <3>1, <3>3, <3>4, <3>5, <3>6
  <2>3. \A k \in DOMAIN rs :
            /\ currentCycle'[rs[k].at.clock] # -1
            /\ rs[k].at.division < given'.divisions[rs[k].at.clock]
            /\ cycle' # NULL /\ toLCM(rs[k].at)' <= toLCM(cycle)'
    BY <1>1, <1>2, <2>2
  <2>4. rs \in Seq(Records) /\ \A k, l \in DOMAIN rs : k <= l => toLCM(rs[k].at)' <= toLCM(rs[l].at)'
    BY <1>2 DEF Ordered
  <2>5. QED
    BY <2>3, <2>4 DEF Ordered
<1>4. QED
  BY <1>3

LEMMA HistoryForward ==
    ASSUME ClocksOK, ClocksOK', WentForward, NEW rs, NEW ls, Ordered(rs), Linked(rs, ls)
    PROVE  Ordered(rs)' /\ Linked(rs, ls)'
<1>1. given' = given
  BY DEF WentForward
<1>2. Linked(rs, ls)'
  BY <1>1, LinkStays
<1>3. QED
  BY <1>2, OrderForward

LEMMA StepForward ==
    ASSUME OwnInternals, IInv, ClocksOK', DictsOK', WentForward,
           itemVector' = itemVector, eventVector' = eventVector, log' = log
    PROVE  IInv'
<1>1. ClocksOK /\ DictsOK /\ HeapOK
  BY DEF IInv
<1>2. ClocksOK' /\ DictsOK' /\ WentForward
  OBVIOUS
<1>3. itemVector' = itemVector /\ eventVector' = eventVector /\ log' = log
  OBVIOUS
<1>4. HeapOK' /\ \A i \in Items : Entries(i)' = Entries(i)
  BY <1>1, <1>3, HeapUnchanged
<1>5. ASSUME NEW j \in Items
      PROVE  \E es, rs, ls : /\ Entries(j)' = es /\ es = Entries(j) /\ AllOf(es)' /\ ReadsOf(es)' = rs
                             /\ Mutables(es)' /\ log'[j] = ls
                             /\ Ordered(rs)' /\ Ordered(ls)' /\ Linked(rs, ls)' /\ Kept(rs, ls)'
  <2>1. PICK es, ls : es = Entries(j) /\ ls = log[j]
    OBVIOUS
  <2>2. PICK rs : rs = ReadsOf(es)
    OBVIOUS
  <2>3. /\ AllOf(es) /\ Mutables(es)
        /\ Ordered(rs) /\ Ordered(ls) /\ Linked(rs, ls) /\ Kept(rs, ls)
    BY <2>1, <2>2, ItemIs
  <2>4. \A k \in DOMAIN es : es[k] \in Nodes /\ \E b \in Clocks : NodeOf(es[k], b)
    BY <2>3, AllOfFacts
  <2>5. \A k \in DOMAIN es : (\E b \in Clocks : NodeOf(es[k], b)') /\ Decoded(es[k])' = Decoded(es[k])
    BY <1>1, <1>2, <2>4, NodeForward
  <2>6. AllOf(es)'
    BY <2>3, <2>5 DEF AllOf
  <2>7. ReadsOf(es)' = rs
    BY <2>2, <2>5 DEF ReadsOf
  <2>8. Ordered(rs)' /\ Ordered(ls)' /\ Linked(rs, ls)'
    <3>1. Ordered(rs)' /\ Linked(rs, ls)'
      BY <1>1, <1>2, <2>3, HistoryForward
    <3>2. Ordered(ls)'
      BY <1>1, <1>2, <2>3, OrderForward
    <3>3. QED
      BY <3>1, <3>2
  <2>9. given' = given
    BY DEF WentForward
  <2>10. Kept(rs, ls)'
    BY <2>3, <2>9, KeptStays
  <2>11. Mutables(es)'
    BY <2>3, <2>9 DEF Mutables, PlainTags
  <2>12. QED
    BY <1>3, <1>4, <2>1, <2>6, <2>7, <2>8, <2>10, <2>11
<1>6. NodesOK'
  <2>1. ASSUME NEW j \in Items, NEW k \in DOMAIN Entries(j)'
        PROVE  \E b \in Clocks : NodeOf(Entries(j)[k], b)'
    <3>1. PICK es : Entries(j)' = es /\ AllOf(es)'
      BY <1>5
    <3>2. PICK m : m = es[k]
      OBVIOUS
    <3>3. \E b \in Clocks : NodeOf(m, b)'
      BY <2>1, <3>1, <3>2 DEF AllOf
    <3>4. Entries(j)'[k] = m
      BY <3>1, <3>2
    <3>5. QED
      BY <3>3, <3>4 DEF NodeOf
  <2>2. QED
    BY <2>1 DEF NodesOK
<1>7. HistoryOK'
  <2>1. ASSUME NEW j \in Items, NEW rs \in {Read(j)'}, NEW ls \in {log'[j]}
        PROVE  Ordered(rs)' /\ Ordered(ls)' /\ Linked(rs, ls)' /\ Kept(rs, ls)'
    <3>1. PICK es3, rs3, ls3 :
             /\ Entries(j)' = es3 /\ ReadsOf(es3)' = rs3 /\ log'[j] = ls3
             /\ Ordered(rs3)' /\ Ordered(ls3)' /\ Linked(rs3, ls3)' /\ Kept(rs3, ls3)'
      BY <1>5
    <3>2. rs3 = Read(j)'
      BY <3>1 DEF Read, ReadsOf
    <3>3. rs3 = rs /\ ls3 = ls
      BY <2>1, <3>1, <3>2
    <3>4. QED
      BY <3>1, <3>3
  <2>2. DOMAIN log' = Items
    BY <1>3 DEF IInv, HistoryOK
  <2>3. QED
    BY <2>1, <2>2 DEF HistoryOK
<1>8. MutableKnown'
  <2>1. ASSUME NEW j \in Items PROVE Mutables(Entries(j))'
    <3>1. PICK es : Entries(j)' = es /\ Mutables(es)'
      BY <1>5
    <3>2. QED
      BY <3>1 DEF Mutables
  <2>2. QED
    BY <2>1, MutableKnownNext
<1>9. QED
  BY <1>2, <1>4, <1>6, <1>7, <1>8 DEF IInv

LEMMA CycleStep ==
    ASSUME OwnInternals, IInv, NEW c \in Clocks, NEW n \in 0..MaxCycle, NEW d \in 0..1, Cycle(c, n, d)
    PROVE  IInv'
<1>1. ClocksOK' /\ DictsOK' /\ WentForward
  BY CycleClocks DEF IInv
<1>2. itemVector' = itemVector /\ eventVector' = eventVector /\ log' = log
  BY DEF Cycle
<1>3. QED
  BY <1>1, <1>2, StepForward

LEMMA StutterStep ==
    ASSUME OwnInternals, IInv, UNCHANGED vars
    PROVE  IInv'
<1>1. /\ entered' = entered /\ contents' = contents /\ given' = given /\ cycle' = cycle
      /\ currentCycle' = currentCycle /\ firstEffectiveCycle' = firstEffectiveCycle
      /\ itemVector' = itemVector /\ eventVector' = eventVector /\ log' = log
  BY DEF vars, dictVars
<1>2. ClocksOK /\ DictsOK
  BY DEF IInv
<1>3. UNCHANGEDclocks /\ Grew
  BY <1>1, <1>2 DEF UNCHANGEDclocks, Grew, DictsOK
<1>4. ClocksOK' /\ DictsOK' /\ \A d, at, c : InDict(d, at, c)' <=> InDict(d, at, c)
  BY <1>2, <1>3, ClocksStay
<1>5. WentForward
  <2>1. \A b : current(b)' = current(b)
    BY <1>1 DEF current
  <2>2. ASSUME NEW b \in Clocks, currentCycle[b] # -1
        PROVE  currentCycle[b] \in Nat /\ currentCycle'[b] = currentCycle[b]
    <3>1. currentCycle[b] \in given.start[b]..MaxCycle /\ given.start[b] \in Nat
      BY <1>2, <2>2, GivenIs DEF ClocksOK
    <3>2. QED
      BY <1>1, <3>1, ItemSizesAssumption
  <2>3. cycle # NULL => cycle' # NULL /\ toLCM(cycle)' >= toLCM(cycle)
    <3>1. SUFFICES ASSUME cycle # NULL PROVE toLCM(cycle)' >= toLCM(cycle)
      BY <1>1
    <3>2. toLCM(cycle) \in Nat
      BY <1>2, <3>1, TimeIsNat DEF ClocksOK
    <3>3. toLCM(cycle)' = toLCM(cycle)
      BY <1>1 DEF toLCM
    <3>4. QED
      BY <3>2, <3>3
  <2>4. QED
    BY <1>1, <1>4, <2>1, <2>2, <2>3 DEF WentForward
<1>6. QED
  BY <1>1, <1>4, <1>5, StepForward

(* It holds at first.                                                      *)
LEMMA InitIInv ==
    ASSUME Init
    PROVE  IInv
<1>1. /\ entered = [c \in Clocks |-> <<0>>] /\ contents = [d \in 0..(MAXDICT - 1) |-> <<>>]
      /\ given \in Givens /\ itemVector = [i \in Items |-> 1] /\ eventVector = <<>>
      /\ firstEffectiveCycle = [c \in Clocks |-> 0] /\ cycle = NULL
      /\ currentCycle = [c \in Clocks |-> -1] /\ log = [i \in Items |-> <<>>]
  BY DEF Init, DictInit, ITEM_UNUSED
<1>2. PICK ev : ev = eventVector
  OBVIOUS
<1>3. ev \in Seq(Chunks) /\ Len(ev) = 0 /\ 1..Len(ev) = {}
  BY <1>1, <1>2
<1>4. \A i \in Items : PlacesOf(i) = <<>> /\ DOMAIN PlacesOf(i) = {}
  BY <1>1 DEF PlacesOf, PlacesFrom, ITEM_UNUSED
<1>5. HeapOK
  <2>1. IsHeap(ev)
    BY <1>3 DEF IsHeap
  <2>2. ChainsApart
    BY <1>4 DEF ChainsApart
  <2>3. itemVector \in [Items -> Nat] /\ \A i \in Items : itemVector[i] \in 1..(Len(ev) + 1)
    BY <1>1, <1>3
  <2>4. QED
    BY <1>2, <2>1, <2>2, <2>3 DEF HeapOK
<1>6. ClocksOK
  BY <1>1 DEF ClocksOK
<1>7. DictsOK
  <2>1. \A c \in Clocks : entered[c] = <<0>> /\ Len(entered[c]) = 1 /\ entered[c][1] = 0
                          /\ entered[c] \in Seq(Nat) /\ currentCycle[c] = -1
    <3>1. PICK z : z = <<0>>
      OBVIOUS
    <3>2. z \in Seq(Nat) /\ Len(z) = 1 /\ z[1] = 0
      BY <3>1
    <3>3. \A c \in Clocks : entered[c] = z /\ currentCycle[c] = -1
      BY <1>1, <3>1
    <3>4. QED
      BY <3>1, <3>2, <3>3
  <2>2. entered \in [Clocks -> Seq(Nat)]
    BY <1>1
  <2>3. contents \in [0..(MAXDICT - 1) -> Seq(AllValues)]
    BY <1>1
  <2>4. 1 \in 1..MAXDICT
    BY ItemSizesAssumption
  <2>5. QED
    BY <2>1, <2>2, <2>3, <2>4 DEF DictsOK
<1>8. NodesOK
  BY <1>4 DEF NodesOK, Entries
<1>9. HistoryOK
  <2>1. ASSUME NEW i \in Items, NEW rs \in {Read(i)}, NEW ls \in {log[i]}
        PROVE  Ordered(rs) /\ Ordered(ls) /\ Linked(rs, ls) /\ Kept(rs, ls)
    <3>1. DOMAIN Entries(i) = {}
      BY <1>4 DEF Entries
    <3>2. rs = <<>>
      BY <3>1 DEF Read
    <3>3. ls = <<>>
      BY <1>1
    <3>4. QED
      BY <3>2, <3>3, NothingLinked, NothingKept
  <2>2. DOMAIN log = Items
    BY <1>1
  <2>3. QED
    BY <2>1, <2>2 DEF HistoryOK
<1>10. MutableKnown
  <2>1. \A i \in Items : \A t : OfTag(itemVector[i], t) = {}
    BY <1>4 DEF OfTag, PlacesOf
  <2>2. QED
    BY <2>1 DEF MutableKnown
<1>11. QED
  BY <1>5, <1>6, <1>7, <1>8, <1>9, <1>10 DEF IInv

(* Every step keeps it, as long as the heap has no more chunks than an     *)
(* offset can say.                                                         *)
LEMMA StepIInv ==
    ASSUME OwnInternals, IInv, OffsetsFit', [Next]_vars
    PROVE  IInv'
<1>1. given \in Givens /\ given.items \subseteq Items
  BY GivenIs DEF IInv, ClocksOK
<1>2. ZERO \in AllValues /\ Values \subseteq AllValues /\ NEWITEM \in PlainTags /\ DELITEM \in PlainTags
      /\ given.tags \subseteq PlainTags
  BY DEF AllValues, PlainTags
<1>3. CASE UNCHANGED vars
  BY <1>3, StutterStep
<1>4. ASSUME NEW c \in Clocks, NEW n \in 0..MaxCycle, NEW d \in 0..1, Cycle(c, n, d)
      PROVE  IInv'
  BY <1>4, CycleStep
<1>5. ASSUME NEW i \in given.items, newItemBlock(i)
      PROVE  IInv'
  BY <1>1, <1>2, <1>5, TagActions
<1>6. ASSUME NEW i \in given.items, SetTag(i, DELITEM, ZERO)
      PROVE  IInv'
  BY <1>1, <1>2, <1>6, TagActions
<1>7. ASSUME NEW i \in given.items, NEW v \in Values \ {ZERO}, NEW t \in given.tags, SetTag(i, t, v)
      PROVE  IInv'
  BY <1>1, <1>2, <1>7, TagActions
<1>8. ASSUME NEW i \in given.items, NEW v \in Values \ {ZERO}, NEW t \in given.sovTags, SetSov(i, t, v)
      PROVE  IInv'
  BY <1>1, <1>2, <1>8, SovAction
<1>9. ASSUME NEW i \in given.items, NEW e \in given.events, newEvent(i, e)
      PROVE  IInv'
  BY <1>1, <1>9, EventAction
<1>10. QED
  BY <1>3, <1>4, <1>5, <1>6, <1>7, <1>8, <1>9 DEF Next

LEMMA SpecIInv ==
    ASSUME OwnInternals
    PROVE  Spec /\ []OffsetsFit => []IInv
<1>1. Init => IInv
  BY InitIInv
<1>2. IInv /\ OffsetsFit' /\ [Next]_vars => IInv'
  BY StepIInv
<1>3. QED
  BY <1>1, <1>2, PTL DEF Spec

-----------------------------------------------------------------------------
(* What the invariant says of the heap.                                    *)

(* The variables keep their types (ItemHeapDef.h): a chunk has as many     *)
(* nodes as it has room for, the offset to the next fits its bits, an item *)
(* has no chunk that was never allocated, and every entry is of a clock    *)
(* and a cycle of the trace.                                               *)
THEOREM SpecTypeOK ==
    ASSUME OwnInternals
    PROVE  Spec /\ []OffsetsFit => []TypeOK
<1>1. Spec /\ []OffsetsFit => []IInv
  BY SpecIInv
<1>2. IInv /\ OffsetsFit => TypeOK
  <2>1. SUFFICES ASSUME IInv, OffsetsFit PROVE TypeOK
    OBVIOUS
  <2>2. /\ given \in Givens /\ IsHeap(eventVector) /\ itemVector \in [Items -> Nat]
        /\ \A i \in Items : itemVector[i] \in 1..(Len(eventVector) + 1)
    BY <2>1 DEF IInv, HeapOK, ClocksOK
  <2>3. eventVector \in Seq(Chunks) /\ Len(eventVector) \in Nat
    BY <2>2 DEF IsHeap
  <2>4. \A i \in Items : itemVector[i] < nextEventVectorEntry
    BY <2>2, <2>3 DEF nextEventVectorEntry, ITEM_UNUSED
  <2>5. ASSUME NEW k \in DOMAIN eventVector
        PROVE  /\ Len(eventVector[k].content) \in 1 .. EVENTS_PER_CHUNK
               /\ eventVector[k].next \in 0 .. OFFSETS - 1
    <3>1. k \in 1..Len(eventVector) /\ eventVector[k] \in Chunks
      BY <2>3
    <3>2. eventVector[k].next \in Nat
      BY <3>1 DEF Chunks
    <3>3. Len(eventVector[k].content) \in 1..EVENTS_PER_CHUNK /\ k + eventVector[k].next <= Len(eventVector)
      BY <2>2, <3>1 DEF IsHeap
    <3>4. OFFSETS \in Nat /\ Len(eventVector) <= OFFSETS
      BY <2>1, ItemSizesAssumption DEF OffsetsFit
    <3>5. QED
      BY <2>3, <3>1, <3>2, <3>3, <3>4
  <2>6. ASSUME NEW k \in DOMAIN eventVector, NEW s \in DOMAIN eventVector[k].content,
               NEW n \in {eventVector[k].content[s]}
        PROVE  /\ n.clockId \in Clocks /\ n.cycle \in Nat /\ n.division \in 0..1
               /\ n.type = "tag" => n.dkey \in Keys /\ n.isMutable \in BOOLEAN
    <3>1. eventVector[k] \in Chunks
      BY <2>3
    <3>2. eventVector[k].content \in Seq(Nodes)
      BY <3>1 DEF Chunks
    <3>3. n \in Nodes
      BY <3>2
    <3>4. CASE n \in TagNodes
      BY <3>4 DEF TagNodes
    <3>5. CASE n \in EventNodes
      BY <3>5 DEF EventNodes
    <3>6. QED
      BY <3>3, <3>4, <3>5 DEF Nodes
  <2>7. QED
    BY <2>2, <2>4, <2>5, <2>6 DEF TypeOK
<1>3. QED
  BY <1>1, <1>2, PTL

(* A tag is marked mutable exactly when the heap has more than one value   *)
(* of it for the item (newTag): an entry is overwritten or repeated, and   *)
(* the marks of the entries before it are set on the way to the last.      *)
THEOREM SpecMutableKnown ==
    ASSUME OwnInternals
    PROVE  Spec /\ []OffsetsFit => []MutableKnown
<1>1. IInv => MutableKnown
  BY DEF IInv
<1>2. QED
  BY <1>1, SpecIInv, PTL

(* With internal clocks of their own, clocks are read as they were said.   *)
LEMMA ReadAsSaid ==
    ASSUME OwnInternals, given \in Givens, NEW x \in Records
    PROVE  AsRead(x) = x
<1>1. x.at \in CycleSet
  BY DEF Records
<1>2. x.at.clock \in Clocks
  BY <1>1 DEF CycleSet
<1>3. internalToExternalClock(given.internal[x.at.clock]) = x.at.clock
  BY <1>2, OwnClock
<1>4. AsRead(x) = [x EXCEPT !.at = [x.at EXCEPT !.clock = x.at.clock]]
  BY <1>3 DEF AsRead
<1>5. [x.at EXCEPT !.clock = x.at.clock] = x.at
  BY <1>1 DEF CycleSet
<1>6. [x EXCEPT !.at = x.at] = x
  BY DEF Records
<1>7. QED
  BY <1>4, <1>5, <1>6

(* The events and the sets of values of an item are read back from its     *)
(* chain of chunks in the order and at the cycles they were given, however *)
(* the chunks of the items are mixed in the heap (allocateNewSlot,         *)
(* nextEntry, newItemBlock).                                               *)
THEOREM SpecEntriesKept ==
    ASSUME OwnInternals
    PROVE  Spec /\ []OffsetsFit => []EntriesKept
<1>1. IInv => EntriesKept
  <2>1. SUFFICES ASSUME IInv PROVE EntriesKept
    OBVIOUS
  <2>2. given \in Givens
    BY <2>1 DEF IInv, ClocksOK
  <2>3. ASSUME NEW i \in Items, NEW rs \in {Read(i)}, NEW ls \in {log[i]},
               NEW rd \in {[k \in DOMAIN Entries(i) |-> Decoded(Entries(i)[k])]},
               NEW sd \in {[k \in DOMAIN log[i] |-> AsRead(log[i][k])]}
        PROVE  /\ Cardinality(Others(rd)) = Cardinality(Others(sd))
               /\ \A k \in Others(rd), l \in Others(sd) :
                     Rank(rd, k) = Rank(sd, l) => rd[k] = sd[l]
    <3>1. Ordered(ls) /\ Kept(rs, ls)
      BY <2>1, <2>3 DEF IInv, HistoryOK
    <3>2. rd = rs
      BY <2>3 DEF Read
    <3>3. ls \in Seq(Records)
      BY <3>1 DEF Ordered
    <3>4. \A k \in DOMAIN ls : AsRead(ls[k]) = ls[k]
      BY <2>2, <3>3, ReadAsSaid
    <3>5. sd = [k \in DOMAIN ls |-> ls[k]]
      BY <2>3, <3>4
    <3>6. sd = ls
      BY <3>3, <3>5
    <3>7. QED
      BY <3>1, <3>2, <3>6 DEF Kept
  <2>4. QED
    BY <2>3 DEF EntriesKept
<1>2. QED
  BY <1>1, SpecIInv, PTL

-----------------------------------------------------------------------------
(* Reading a tag of single values.                                         *)

(* The clocks that start in the trace do so at the same time.              *)
StartTogether ==
    \A g \in Givens : \A c, d \in Clocks :
        g.start[c] <= MaxCycle /\ g.start[d] <= MaxCycle =>
            g.start[c] * g.ratio[c] = g.start[d] * g.ratio[d]

Between(q, c, n) ==
    /\ toLCM(q) < toLCM(LastPhase(c, n))
    /\ toLCM(q) >= toLCM([LastPhase(c, n) EXCEPT !.division = 0])

LEMMA AskedIs ==
    ASSUME NEW q \in Asked
    PROVE  /\ \E c \in Clocks : currentCycle[c] # -1 /\
                 \E n \in given.start[c] .. MaxCycle : q = LastPhase(c, n)
           /\ \A c \in Clocks : currentCycle[c] # -1 => \A n \in 0 .. MaxCycle : ~Between(q, c, n)
<1> DEFINE Started == {c \in Clocks : currentCycle[c] # -1}
           EndsOf(c) == {LastPhase(c, n) : n \in given.start[c] .. MaxCycle}
           ends == UNION {EndsOf(c) : c \in Started}
<1>1. q \in ends /\ \A c \in Started, n \in 0 .. MaxCycle : ~Between(q, c, n)
  BY DEF Asked, Between
<1>2. PICK c \in Started : q \in EndsOf(c)
  BY <1>1
<1>3. \E n \in given.start[c] .. MaxCycle : q = LastPhase(c, n)
  BY <1>2
<1>4. QED
  BY <1>1, <1>2, <1>3

(* The asked cycle, as getTagById compares it.                             *)
AskedTime(q) == toLCM([q EXCEPT !.cycle = @ - firstEffectiveCycle[given.internal[q.clock]]])

LEMMA ShiftedTime ==
    ASSUME NEW k \in Int, NEW f \in Int, NEW d \in Int, NEW r \in Int
    PROVE  (2 * (k - f) + d) * r = (2 * k + d) * r - 2 * (f * r)
OBVIOUS

LEMMA AskedTimeIs ==
    ASSUME ClocksOK, NEW q \in Asked
    PROVE  \E c \in Clocks :
              /\ currentCycle[c] # -1 /\ q \in CycleSet
              /\ AskedTime(q) = toLCM(q) - 2 * (given.start[c] * given.ratio[c])
<1>1. PICK c \in Clocks : currentCycle[c] # -1 /\
                 \E n \in given.start[c] .. MaxCycle : q = LastPhase(c, n)
  BY AskedIs
<1>2. PICK n \in given.start[c] .. MaxCycle : q = LastPhase(c, n)
  BY <1>1
<1>3. /\ given.start[c] \in Nat /\ given.ratio[c] \in Nat /\ given.divisions[c] \in {1, 2}
  BY GivenIs DEF ClocksOK
<1>4. q = [clock |-> c, cycle |-> n, division |-> given.divisions[c] - 1]
  BY <1>2 DEF LastPhase
<1>5. n \in 0..MaxCycle /\ n \in Int /\ given.divisions[c] - 1 \in 0..1
  BY <1>3, ItemSizesAssumption
<1>6. q \in CycleSet
  BY <1>4, <1>5 DEF CycleSet
<1>7. firstEffectiveCycle[given.internal[c]] = given.start[c]
  BY <1>1 DEF ClocksOK
<1>8. [q EXCEPT !.cycle = @ - firstEffectiveCycle[given.internal[q.clock]]] =
      [clock |-> c, cycle |-> n - given.start[c], division |-> given.divisions[c] - 1]
  BY <1>4, <1>7
<1>9. /\ AskedTime(q) = (2 * (n - given.start[c]) + (given.divisions[c] - 1)) * given.ratio[c]
      /\ toLCM(q) = (2 * n + (given.divisions[c] - 1)) * given.ratio[c]
  BY <1>4, <1>8 DEF AskedTime, toLCM
<1>10. PICK f \in Int, d \in Int, r \in Int : f = given.start[c] /\ d = given.divisions[c] - 1 /\ r = given.ratio[c]
  BY <1>3, <1>5
<1>11. (2 * (n - f) + d) * r = (2 * n + d) * r - 2 * (f * r)
  BY <1>5, ShiftedTime
<1>12. QED
  BY <1>1, <1>6, <1>9, <1>10, <1>11

(* An entry is after the asked cycle when it is read as later.             *)
LEMMA LaterIs ==
    ASSUME OwnInternals, StartTogether, ClocksOK, DictsOK, NEW n \in Nodes, NEW c \in Clocks,
           NodeOf(n, c), NEW q \in Asked
    PROVE  Later(n, AskedTime(q)) <=> ~(toLCM(Decoded(n).at) <= toLCM(q))
<1>1. /\ Decoded(n).at = [clock |-> c, cycle |-> n.cycle + given.start[c], division |-> n.division]
      /\ internalToExternalClock(n.clockId) = c /\ Decoded(n).at \in CycleSet
  BY DecodedIs
<1>2. /\ n.cycle \in Int /\ n.division \in Int /\ currentCycle[c] # -1
  BY DEF NodeOf, Nodes, TagNodes, EventNodes
<1>3. PICK b \in Clocks : /\ currentCycle[b] # -1 /\ q \in CycleSet
                          /\ AskedTime(q) = toLCM(q) - 2 * (given.start[b] * given.ratio[b])
  BY AskedTimeIs
<1>4. given \in Givens /\ given.start \in [Clocks -> Nat] /\ given.ratio \in [Clocks -> Nat \ {0}]
  BY GivenIs DEF ClocksOK
<1>5. \A e \in Clocks : currentCycle[e] # -1 => given.start[e] <= MaxCycle
  <2>1. \A e \in Clocks : currentCycle[e] # -1 => currentCycle[e] \in given.start[e]..MaxCycle
    BY DEF ClocksOK
  <2>2. QED
    BY <1>4, <2>1, ItemSizesAssumption
<1>6. given.start[b] * given.ratio[b] = given.start[c] * given.ratio[c]
  BY <1>2, <1>3, <1>4, <1>5 DEF StartTogether
<1>7. PICK f \in Int, r \in Int : f = given.start[c] /\ r = given.ratio[c]
  BY <1>4
<1>8. PICK m \in Int : m = n.cycle + f
  BY <1>2
<1>9. (2 * (m - f) + n.division) * r = (2 * m + n.division) * r - 2 * (f * r)
  BY <1>2, ShiftedTime
<1>10. m - f = n.cycle
  BY <1>2, <1>8
<1>11. toLCM(Decoded(n).at) = (2 * m + n.division) * r
  BY <1>1, <1>7, <1>8 DEF toLCM
<1>12. toLCM(RelativeCycle(n)) = (2 * n.cycle + n.division) * r
  BY <1>1, <1>7 DEF toLCM, RelativeCycle
<1>13. PICK x \in Int, y \in Int, z \in Int : /\ x = toLCM(Decoded(n).at) /\ y = toLCM(q) /\ z = f * r
  BY <1>1, <1>3, <1>4, TimeIsNat
<1>14. toLCM(RelativeCycle(n)) = x - 2 * z /\ AskedTime(q) = y - 2 * z
  BY <1>3, <1>6, <1>7, <1>9, <1>10, <1>11, <1>12, <1>13
<1>15. x - 2 * z > y - 2 * z <=> ~(x <= y)
  OBVIOUS
<1>16. QED
  BY <1>13, <1>14, <1>15 DEF Later

(* What is read of a tag, and what was said of it, up to a cycle.          *)
UpTo(s, t, q) == {k \in Of(s, t) : toLCM(s[k].at) <= toLCM(q)}

(* What getTagById answers, of the entries as they are read.               *)
Answer(rs, t, q) ==
    IF UpTo(rs, t, q) # {} THEN rs[Max(UpTo(rs, t, q))].value
    ELSE IF given.backPropagate /\ Of(rs, t) # {} THEN rs[Min(Of(rs, t))].value
    ELSE NULL

(* The same of the entries themselves.                                     *)
AnswerIn(es, t, q) ==
    LET read  == {k \in DOMAIN es :
                     \A j \in 1 .. k : es[j].type = "tag" => ~Later(es[j], AskedTime(q))}
        found == {k \in read : IsTag(es[k], t)}
        ahead == {k \in DOMAIN es \ read : IsTag(es[k], t)}
    IN  IF found # {} THEN ValueOf(es[Max(found)])
        ELSE IF given.backPropagate /\ ahead # {} THEN ValueOf(es[Min(ahead)])
        ELSE NULL

LEMMA AnswerOfEntries ==
    ASSUME OwnInternals, StartTogether, ClocksOK, DictsOK, NEW es, AllOf(es), NEW rs,
           rs \in {ReadsOf(es)}, Ordered(rs), NEW t \in PlainTags, NEW q \in Asked
    PROVE  Answer(rs, t, q) = AnswerIn(es, t, q)
<1> DEFINE read  == {k \in DOMAIN es :
                        \A j \in 1 .. k : es[j].type = "tag" => ~Later(es[j], AskedTime(q))}
           found == {k \in read : IsTag(es[k], t)}
           ahead == {k \in DOMAIN es \ read : IsTag(es[k], t)}
<1>1. /\ Len(es) \in Nat /\ DOMAIN es = 1..Len(es)
      /\ \A k \in DOMAIN es : es[k] \in Nodes /\ \E c \in Clocks : NodeOf(es[k], c)
      /\ DOMAIN rs = DOMAIN es
      /\ \A k \in DOMAIN es : rs[k] = Decoded(es[k])
  BY AllOfFacts
<1>2. Of(rs, t) = TagsIn(es, t)
  BY TagsAreRead
<1>3. \A k \in Of(rs, t) : k \in DOMAIN es /\ es[k].type = "tag" /\ IsTag(es[k], t)
  BY <1>2 DEF TagsIn, IsTag
<1>4. \A k \in DOMAIN es : IsTag(es[k], t) => k \in Of(rs, t)
  BY <1>2 DEF TagsIn
<1>5. \A k \in DOMAIN es : Later(es[k], AskedTime(q)) <=> ~(toLCM(rs[k].at) <= toLCM(q))
  <2>1. SUFFICES ASSUME NEW k \in DOMAIN es
                 PROVE  Later(es[k], AskedTime(q)) <=> ~(toLCM(rs[k].at) <= toLCM(q))
    OBVIOUS
  <2>2. PICK n \in Nodes, c \in Clocks : n = es[k] /\ NodeOf(n, c) /\ rs[k] = Decoded(n)
    BY <1>1
  <2>3. Later(n, AskedTime(q)) <=> ~(toLCM(Decoded(n).at) <= toLCM(q))
    BY <2>2, LaterIs
  <2>4. QED
    BY <2>2, <2>3
<1>6. /\ \A k \in DOMAIN rs : toLCM(rs[k].at) \in Nat
      /\ \A k, l \in DOMAIN rs : k <= l => toLCM(rs[k].at) <= toLCM(rs[l].at)
      /\ toLCM(q) \in Nat
  BY AskedTimeIs, TimeIsNat, OrderedFacts DEF Ordered, ClocksOK
<1>7. \A k \in Of(rs, t) : k \in read <=> toLCM(rs[k].at) <= toLCM(q)
  <2>1. SUFFICES ASSUME NEW k \in Of(rs, t)
                 PROVE  k \in read <=> toLCM(rs[k].at) <= toLCM(q)
    OBVIOUS
  <2>2. k \in 1..Len(es) /\ k \in DOMAIN es /\ es[k].type = "tag"
    BY <1>1, <1>3
  <2>3. ASSUME k \in read PROVE toLCM(rs[k].at) <= toLCM(q)
    <3>1. k \in 1..k
      BY <2>2
    <3>2. ~Later(es[k], AskedTime(q))
      BY <2>2, <2>3, <3>1
    <3>3. QED
      BY <1>5, <2>2, <3>2
  <2>4. ASSUME toLCM(rs[k].at) <= toLCM(q) PROVE k \in read
    <3>1. SUFFICES ASSUME NEW j \in 1..k PROVE ~Later(es[j], AskedTime(q))
      BY <2>2
    <3>2. j \in DOMAIN es /\ j <= k
      BY <1>1, <2>2
    <3>3. toLCM(rs[j].at) <= toLCM(rs[k].at) /\ toLCM(rs[j].at) \in Nat /\ toLCM(rs[k].at) \in Nat
      BY <1>1, <1>6, <2>2, <3>2
    <3>4. toLCM(rs[j].at) <= toLCM(q)
      BY <1>6, <2>4, <3>3
    <3>5. QED
      BY <1>5, <3>2, <3>4
  <2>5. QED
    BY <2>3, <2>4
<1>8. found = UpTo(rs, t, q)
  <2>1. \A k \in found : k \in UpTo(rs, t, q)
    BY <1>4, <1>7 DEF UpTo
  <2>2. \A k \in UpTo(rs, t, q) : k \in found
    BY <1>3, <1>7 DEF UpTo
  <2>3. QED
    BY <2>1, <2>2
<1>9. UpTo(rs, t, q) = {} => ahead = Of(rs, t)
  <2>1. \A k \in ahead : k \in Of(rs, t)
    BY <1>4
  <2>2. UpTo(rs, t, q) = {} => \A k \in Of(rs, t) : k \in ahead
    BY <1>3, <1>7 DEF UpTo
  <2>3. QED
    BY <2>1, <2>2
<1>10. \A k \in Of(rs, t) : ValueOf(es[k]) = rs[k].value
  <2>1. SUFFICES ASSUME NEW k \in Of(rs, t) PROVE ValueOf(es[k]) = rs[k].value
    OBVIOUS
  <2>2. PICK n \in Nodes, c \in Clocks : n = es[k] /\ NodeOf(n, c) /\ rs[k] = Decoded(n)
    BY <1>1, <1>3
  <2>3. n.type # "event"
    BY <1>3, <2>2
  <2>4. Decoded(n) = [tag |-> n.tagId, value |-> ValueOf(n), at |-> AbsoluteCycle(n)]
    BY <2>2, <2>3, DecodedIs
  <2>5. Decoded(n).value = ValueOf(n)
    BY <2>4
  <2>6. QED
    BY <2>2, <2>5
<1>11. Of(rs, t) \in SUBSET (1..Len(es)) /\ UpTo(rs, t, q) \in SUBSET (1..Len(es))
  BY <1>1, <1>3 DEF UpTo
<1>12. UpTo(rs, t, q) # {} => Max(UpTo(rs, t, q)) \in Of(rs, t)
  <2>1. UpTo(rs, t, q) # {} => Max(UpTo(rs, t, q)) \in UpTo(rs, t, q)
    BY <1>1, <1>11, Maximum
  <2>2. QED
    BY <2>1 DEF UpTo
<1>13. Of(rs, t) # {} => Min(Of(rs, t)) \in Of(rs, t)
  BY <1>1, <1>11, Minimum
<1> HIDE DEF found, ahead
<1>14. Answer(rs, t, q) = IF found # {} THEN ValueOf(es[Max(found)])
                          ELSE IF given.backPropagate /\ ahead # {} THEN ValueOf(es[Min(ahead)])
                          ELSE NULL
  <2>1. CASE UpTo(rs, t, q) # {}
    <3>1. ValueOf(es[Max(found)]) = rs[Max(UpTo(rs, t, q))].value
      BY <1>8, <1>10, <1>12, <2>1
    <3>2. QED
      BY <1>8, <2>1, <3>1 DEF Answer
  <2>2. CASE UpTo(rs, t, q) = {} /\ Of(rs, t) # {}
    <3>1. ValueOf(es[Min(ahead)]) = rs[Min(Of(rs, t))].value
      BY <1>9, <1>10, <1>13, <2>2
    <3>2. QED
      BY <1>8, <1>9, <2>2, <3>1 DEF Answer
  <2>3. CASE UpTo(rs, t, q) = {} /\ Of(rs, t) = {}
    BY <1>8, <1>9, <2>3 DEF Answer
  <2>4. QED
    BY <2>1, <2>2, <2>3
<1>15. QED
  BY <1>14 DEF found, ahead, AnswerIn

(* What the trace said of a tag in the first cycle it was given a value,   *)
(* or repeated since.                                                      *)
SaidAgain(ls, t, k) ==
    given.compressMutable /\ ls[k].value = ls[Max({j \in Of(ls, t) : j < k})].value
SaidFirst(ls, t) ==
    {k \in Of(ls, t) : \A j \in Of(ls, t) : j <= k =>
        OfCycle(ls[j].at, ls[Min(Of(ls, t))].at) \/ SaidAgain(ls, t, j)}

(* What Written is, of the log of an item.                                 *)
Told(ls, t, q) ==
    IF UpTo(ls, t, q) # {} THEN ls[Max(UpTo(ls, t, q))].value
    ELSE IF Of(ls, t) # {} /\ given.backPropagate THEN ls[Max(SaidFirst(ls, t))].value
    ELSE NULL

LEMMA WrittenIsTold ==
    ASSUME NEW i \in Items, NEW t, NEW q
    PROVE  Written(i, t, q) = Told(log[i], t, q)
BY DEF Written, Told, UpTo, SaidFirst, SaidAgain, Of, OfCycle

(* The entries and what was said, and which went to which.                 *)
Account(rs, ls, t, g) ==
    /\ Ordered(rs) /\ Ordered(ls)
    /\ g \in [Of(ls, t) -> Of(rs, t)] /\ LinkedBy(rs, ls, t, g)

(* There is an entry up to a cycle when something was said up to it.       *)
LEMMA BothUpTo ==
    ASSUME ClocksOK, NEW rs, NEW ls, NEW t, NEW g, Account(rs, ls, t, g), NEW q \in Asked
    PROVE  /\ \A w \in UpTo(ls, t, q) : g[w] \in UpTo(rs, t, q)
           /\ \A k \in UpTo(rs, t, q) : \E w \in UpTo(ls, t, q) : g[w] = k
<1>1. /\ \A k \in Of(rs, t) : k \in DOMAIN rs /\ toLCM(rs[k].at) \in Nat
      /\ \A w \in Of(ls, t) : w \in DOMAIN ls /\ toLCM(ls[w].at) \in Nat
      /\ toLCM(q) \in Nat
  BY OrderedFacts, AskedTimeIs, TimeIsNat DEF Account, ClocksOK, Of
<1>2. ASSUME NEW w \in UpTo(ls, t, q) PROVE g[w] \in UpTo(rs, t, q)
  <2>1. w \in Of(ls, t) /\ g[w] \in Of(rs, t) /\ toLCM(ls[w].at) <= toLCM(q)
    BY DEF UpTo, Account
  <2>2. toLCM(rs[g[w]].at) <= toLCM(ls[w].at)
    BY <2>1 DEF Account, LinkedBy, NotLater
  <2>3. toLCM(rs[g[w]].at) <= toLCM(q)
    BY <1>1, <2>1, <2>2
  <2>4. QED
    BY <2>1, <2>3 DEF UpTo
<1>3. ASSUME NEW k \in UpTo(rs, t, q) PROVE \E w \in UpTo(ls, t, q) : g[w] = k
  <2>1. k \in Of(rs, t) /\ toLCM(rs[k].at) <= toLCM(q)
    BY DEF UpTo
  <2>2. PICK w \in Of(ls, t) : g[w] = k /\ ls[w].at = rs[k].at
    BY <2>1 DEF Account, LinkedBy, Founded
  <2>3. QED
    BY <2>1, <2>2 DEF UpTo
<1>4. QED
  BY <1>2, <1>3

(* The phases of a cycle are between its first and its last.               *)
LEMMA PhasesBetween ==
    ASSUME given \in Givens, NEW x \in CycleSet, x.division < given.divisions[x.clock]
    PROVE  /\ toLCM([LastPhase(x.clock, x.cycle) EXCEPT !.division = 0]) <= toLCM(x)
           /\ toLCM(x) <= toLCM(LastPhase(x.clock, x.cycle))
           /\ toLCM([LastPhase(x.clock, x.cycle) EXCEPT !.division = 0]) \in Nat
           /\ toLCM(LastPhase(x.clock, x.cycle)) \in Nat
<1>1. x.clock \in Clocks /\ x.cycle \in 0..MaxCycle /\ x.cycle \in Nat /\ x.division \in 0..1
  BY ItemSizesAssumption DEF CycleSet
<1>2. given.ratio[x.clock] \in Nat /\ given.divisions[x.clock] \in {1, 2}
  BY <1>1, GivenIs
<1>3. PICK n \in Nat, m \in Nat, r \in Nat, d \in 0..1 :
          n = x.cycle /\ m = given.divisions[x.clock] - 1 /\ r = given.ratio[x.clock] /\ d = x.division
  BY <1>1, <1>2
<1>4. m \in 0..1 /\ d <= m
  BY <1>2, <1>3
<1>5. LastPhase(x.clock, x.cycle) = [clock |-> x.clock, cycle |-> n, division |-> m]
  BY <1>3 DEF LastPhase
<1>6. [LastPhase(x.clock, x.cycle) EXCEPT !.division = 0] = [clock |-> x.clock, cycle |-> n, division |-> 0]
  BY <1>5
<1>7. /\ toLCM([LastPhase(x.clock, x.cycle) EXCEPT !.division = 0]) = (2 * n + 0) * r
      /\ toLCM(LastPhase(x.clock, x.cycle)) = (2 * n + m) * r
      /\ toLCM(x) = (2 * n + d) * r
  BY <1>3, <1>5, <1>6 DEF toLCM
<1>8. /\ LastPhase(x.clock, x.cycle) \in CycleSet
      /\ [LastPhase(x.clock, x.cycle) EXCEPT !.division = 0] \in CycleSet
  BY <1>1, <1>3, <1>4, <1>5, <1>6 DEF CycleSet
<1>9. (2 * n + 0) * r <= (2 * n + d) * r /\ (2 * n + d) * r <= (2 * n + m) * r
  <2>1. CASE d = 0 /\ m = 0
    BY <2>1
  <2>2. CASE d = 0 /\ m = 1
    BY <2>2
  <2>3. CASE d = 1 /\ m = 1
    BY <2>3
  <2>4. QED
    BY <1>4, <2>1, <2>2, <2>3
<1>10. QED
  BY <1>7, <1>8, <1>9, TimeIsNat

(* No asked cycle is between two phases of a cycle that has something.     *)
LEMMA NotBetween ==
    ASSUME ClocksOK, NEW x \in CycleSet, NEW y \in CycleSet, OfCycle(y, x), NEW q \in Asked,
           currentCycle[x.clock] # -1, x.division < given.divisions[x.clock],
           y.division < given.divisions[y.clock], toLCM(x) <= toLCM(q)
    PROVE  toLCM(y) <= toLCM(q)
<1>1. SUFFICES ASSUME ~(toLCM(y) <= toLCM(q)) PROVE FALSE
  OBVIOUS
<1>2. given \in Givens /\ toLCM(x) \in Nat /\ toLCM(y) \in Nat /\ toLCM(q) \in Nat
  BY AskedTimeIs, TimeIsNat DEF ClocksOK
<1>3. x.clock \in Clocks /\ x.cycle \in 0..MaxCycle /\ y.clock = x.clock /\ y.cycle = x.cycle
  BY DEF CycleSet, OfCycle
<1>4. PICK c \in Clocks, n \in 0..MaxCycle : c = x.clock /\ n = x.cycle
  BY <1>3
<1>5. /\ toLCM([LastPhase(c, n) EXCEPT !.division = 0]) <= toLCM(x)
      /\ toLCM([LastPhase(c, n) EXCEPT !.division = 0]) \in Nat
  BY <1>2, <1>4, PhasesBetween
<1>6. toLCM(y) <= toLCM(LastPhase(c, n)) /\ toLCM(LastPhase(c, n)) \in Nat
  BY <1>2, <1>3, <1>4, PhasesBetween
<1>7. toLCM(q) < toLCM(LastPhase(c, n)) /\ toLCM(q) >= toLCM([LastPhase(c, n) EXCEPT !.division = 0])
  BY <1>1, <1>2, <1>5, <1>6
<1>8. Between(q, c, n)
  BY <1>7 DEF Between
<1>9. \A b \in Clocks : currentCycle[b] # -1 => \A m \in 0 .. MaxCycle : ~Between(q, b, m)
  BY AskedIs
<1>10. QED
  BY <1>4, <1>8, <1>9

(* The last entry up to a cycle has the last value said up to it.          *)
LEMMA LastTold ==
    ASSUME ClocksOK, NEW rs, NEW ls, NEW t, NEW g, Account(rs, ls, t, g), NEW q \in Asked,
           UpTo(ls, t, q) # {}
    PROVE  rs[Max(UpTo(rs, t, q))].value = ls[Max(UpTo(ls, t, q))].value
<1>1. /\ UpTo(rs, t, q) \in SUBSET (1..Len(rs)) /\ Len(rs) \in Nat
      /\ UpTo(ls, t, q) \in SUBSET (1..Len(ls)) /\ Len(ls) \in Nat
  BY OrderedFacts DEF Account, ClocksOK, UpTo
<1>2. UpTo(rs, t, q) # {}
  BY BothUpTo
<1>3. PICK m : m = Max(UpTo(ls, t, q)) /\ m \in UpTo(ls, t, q) /\ \A w \in UpTo(ls, t, q) : w <= m
  BY <1>1, Maximum
<1>4. PICK k : k = Max(UpTo(rs, t, q)) /\ k \in UpTo(rs, t, q) /\ \A l \in UpTo(rs, t, q) : l <= k
  BY <1>1, <1>2, Maximum
<1>5. m \in Of(ls, t) /\ k \in Of(rs, t) /\ toLCM(rs[k].at) <= toLCM(q)
  BY <1>3, <1>4 DEF UpTo
<1>6. g[m] = k
  <2>1. g[m] \in UpTo(rs, t, q) /\ g[m] <= k
    BY <1>3, <1>4, BothUpTo
  <2>2. PICK w \in UpTo(ls, t, q) : g[w] = k
    BY <1>4, BothUpTo
  <2>3. w \in Of(ls, t) /\ w <= m
    BY <1>3, <2>2 DEF UpTo
  <2>4. g[w] <= g[m]
    BY <1>5, <2>3 DEF Account, LinkedBy, InTurn
  <2>5. g[m] \in Nat /\ k \in Nat
    BY <1>1, <1>4, <2>1
  <2>6. QED
    BY <2>1, <2>2, <2>4, <2>5
<1>7. ASSUME NEW x \in Of(ls, t), m < x, g[x] = k, OfCycle(ls[x].at, rs[k].at)
      PROVE  FALSE
  <2>1. k \in DOMAIN rs /\ x \in DOMAIN ls
    BY <1>5 DEF Of
  <2>2. /\ rs[k].at \in CycleSet /\ currentCycle[rs[k].at.clock] # -1
        /\ rs[k].at.division < given.divisions[rs[k].at.clock]
    BY <2>1, OrderedFacts DEF Account, ClocksOK, Ordered
  <2>3. /\ ls[x].at \in CycleSet /\ ls[x].at.division < given.divisions[ls[x].at.clock]
    BY <2>1, OrderedFacts DEF Account, ClocksOK, Ordered
  <2>4. toLCM(ls[x].at) <= toLCM(q)
    BY <1>5, <1>7, <2>2, <2>3, NotBetween
  <2>5. x \in UpTo(ls, t, q)
    BY <2>4 DEF UpTo
  <2>6. x <= m /\ x \in Nat /\ m \in Nat
    BY <1>1, <1>3, <2>5
  <2>7. QED
    BY <1>7, <2>6
<1>8. ls[m].value = rs[k].value
  <2>1. \/ ls[m].value = rs[g[m]].value
        \/ \E x \in Of(ls, t) : m < x /\ g[x] = g[m] /\ OfCycle(ls[x].at, rs[g[m]].at)
    BY <1>5 DEF Account, LinkedBy, StillThere
  <2>2. QED
    BY <1>6, <1>7, <2>1
<1>9. QED
  BY <1>3, <1>4, <1>8

(* The first entry has the value said last in the first cycle that said    *)
(* something, or repeated since.                                           *)
LEMMA FirstTold ==
    ASSUME ClocksOK, NEW rs, NEW ls, NEW t, NEW g, Account(rs, ls, t, g), Of(rs, t) # {}
    PROVE  rs[Min(Of(rs, t))].value = ls[Max(SaidFirst(ls, t))].value
<1>1. /\ Of(rs, t) \in SUBSET (1..Len(rs)) /\ Len(rs) \in Nat
      /\ Of(ls, t) \in SUBSET (1..Len(ls)) /\ Len(ls) \in Nat
      /\ SaidFirst(ls, t) \in SUBSET (1..Len(ls))
  BY OrderedFacts DEF Account, ClocksOK, SaidFirst
<1>2. PICK k \in Of(rs, t) : k = Min(Of(rs, t)) /\ \A l \in Of(rs, t) : k <= l
  BY <1>1, Minimum
<1>3. PICK a \in Of(ls, t) : g[a] = k /\ ls[a].at = rs[k].at /\ \A u \in Of(ls, t) : u < a => g[u] # k
  BY DEF Account, LinkedBy, Founded
<1>4. \A u \in Of(ls, t) : g[u] \in Of(rs, t) /\ g[u] \in Nat /\ u \in Nat /\ k \in Nat
  BY <1>1 DEF Account
<1>5. \A u, w \in Of(ls, t) : u <= w => g[u] <= g[w]
  BY DEF Account, LinkedBy, InTurn
<1>6. PICK b \in Of(ls, t) : b = Min(Of(ls, t)) /\ \A u \in Of(ls, t) : b <= u
  BY <1>1, Minimum
<1>7. b = a
  <2>1. b <= a /\ g[b] <= k /\ k <= g[b]
    BY <1>2, <1>3, <1>4, <1>5, <1>6
  <2>2. g[b] = k
    BY <1>4, <2>1
  <2>3. ~(b < a)
    BY <1>3, <2>2
  <2>4. QED
    BY <1>4, <2>1, <2>3
<1>8. \A u, w \in Of(ls, t) : u <= w /\ g[w] = k => g[u] = k
  <2>1. SUFFICES ASSUME NEW u \in Of(ls, t), NEW w \in Of(ls, t), u <= w, g[w] = k PROVE g[u] = k
    OBVIOUS
  <2>2. g[u] <= k /\ k <= g[u]
    BY <1>2, <1>4, <1>5, <2>1
  <2>3. QED
    BY <1>4, <2>2
(* Of two values, one after the other, the second goes to the first entry  *)
(* when the first does and it is of its cycle, or the same again.          *)
<1>9. ASSUME NEW w \in Of(ls, t), w # b
      PROVE  \E u \in Of(ls, t) :
                /\ u < w
                /\ g[u] = k => (g[w] = k <=> OfCycle(ls[w].at, ls[Min(Of(ls, t))].at) \/ SaidAgain(ls, t, w))
  <2> DEFINE B == {j \in Of(ls, t) : j < w}
  <2>1. b < w /\ b \in B
    BY <1>4, <1>6, <1>9
  <2>2. B \in SUBSET (1..Len(ls)) /\ B # {}
    BY <1>1, <2>1
  <2>3. PICK u \in B : u = Max(B) /\ \A j \in B : j <= u
    <3> HIDE DEF B
    <3>1. QED
      BY <1>1, <2>2, Maximum
  <2>4. \A x \in Of(ls, t) : x <= u \/ w <= x
    BY <1>4, <2>3
  <2>5. u \in Of(ls, t) /\ u < w
    OBVIOUS
  <2>6. g[u] = g[w] <=> \/ OfCycle(ls[w].at, rs[g[u]].at)
                        \/ given.compressMutable /\ ls[w].value = ls[u].value
    BY <2>4, <2>5 DEF Account, LinkedBy, WentOn
  <2>7. SaidAgain(ls, t, w) <=> given.compressMutable /\ ls[w].value = ls[u].value
    BY <2>3 DEF SaidAgain
  <2>8. ls[Min(Of(ls, t))].at = rs[k].at
    BY <1>3, <1>6, <1>7
  <2>9. QED
    BY <2>5, <2>6, <2>7, <2>8
<1>10. OfCycle(ls[b].at, ls[Min(Of(ls, t))].at) /\ g[b] = k
  BY <1>3, <1>6, <1>7 DEF OfCycle
<1>11. ASSUME NEW w \in Of(ls, t), g[w] = k PROVE w \in SaidFirst(ls, t)
  <2>1. SUFFICES ASSUME NEW j \in Of(ls, t), j <= w
                 PROVE  OfCycle(ls[j].at, ls[Min(Of(ls, t))].at) \/ SaidAgain(ls, t, j)
    BY DEF SaidFirst
  <2>2. g[j] = k
    BY <1>8, <1>11, <2>1
  <2>3. CASE j = b
    BY <1>10, <2>3
  <2>4. CASE j # b
    <3>1. PICK u \in Of(ls, t) :
             /\ u < j
             /\ g[u] = k => (g[j] = k <=> OfCycle(ls[j].at, ls[Min(Of(ls, t))].at) \/ SaidAgain(ls, t, j))
      BY <1>9, <2>4
    <3>2. u <= j
      BY <1>4, <3>1
    <3>3. g[u] = k
      BY <1>8, <2>2, <3>2
    <3>4. QED
      BY <2>2, <3>1, <3>3
  <2>5. QED
    BY <2>3, <2>4
<1>12. \A w \in SaidFirst(ls, t) : g[w] = k
  <2> DEFINE T == {w \in SaidFirst(ls, t) : g[w] # k}
  <2>1. SUFFICES ASSUME T # {} PROVE FALSE
    OBVIOUS
  <2>2. T \in SUBSET Nat
    BY <1>1
  <2>3. PICK w \in T : \A x \in T : w <= x
    <3> HIDE DEF T
    <3>1. QED
      BY <2>1, <2>2, Least
  <2>4. w \in Of(ls, t) /\ w # b /\ w \in SaidFirst(ls, t) /\ g[w] # k
    BY <1>10 DEF SaidFirst
  <2>5. PICK u \in Of(ls, t) :
           /\ u < w
           /\ g[u] = k => (g[w] = k <=> OfCycle(ls[w].at, ls[Min(Of(ls, t))].at) \/ SaidAgain(ls, t, w))
    BY <1>9, <2>4
  <2>6. w <= w /\ \A j \in Of(ls, t) : j <= u => j <= w
    BY <1>4, <2>4, <2>5
  <2>7. OfCycle(ls[w].at, ls[Min(Of(ls, t))].at) \/ SaidAgain(ls, t, w)
    BY <2>4, <2>6 DEF SaidFirst
  <2>8. u \in SaidFirst(ls, t)
    BY <2>4, <2>5, <2>6 DEF SaidFirst
  <2>9. u \notin T
    BY <1>4, <2>3, <2>4, <2>5
  <2>10. g[u] = k
    BY <2>8, <2>9
  <2>11. QED
    BY <2>4, <2>5, <2>7, <2>10
<1>13. PICK m \in SaidFirst(ls, t) : m = Max(SaidFirst(ls, t)) /\ \A w \in SaidFirst(ls, t) : w <= m
  <2>1. SaidFirst(ls, t) # {}
    BY <1>10, <1>11
  <2>2. QED
    BY <1>1, <2>1, Maximum
<1>14. ls[m].value = rs[k].value
  <2>1. m \in Of(ls, t) /\ g[m] = k
    BY <1>12 DEF SaidFirst
  <2>2. \/ ls[m].value = rs[g[m]].value
        \/ \E x \in Of(ls, t) : m < x /\ g[x] = g[m]
    BY <2>1 DEF Account, LinkedBy, StillThere
  <2>3. ASSUME NEW x \in Of(ls, t), m < x, g[x] = k PROVE FALSE
    <3>1. x <= m /\ x \in Nat /\ m \in Nat
      BY <1>4, <1>11, <1>13, <2>1, <2>3
    <3>2. QED
      BY <2>3, <3>1
  <2>4. QED
    BY <2>1, <2>2, <2>3
<1>15. QED
  BY <1>2, <1>13, <1>14

(* What is answered is what was told.                                      *)
LEMMA AnswerIsTold ==
    ASSUME ClocksOK, NEW rs, NEW ls, NEW t, NEW g, Account(rs, ls, t, g), NEW q \in Asked
    PROVE  Answer(rs, t, q) = Told(ls, t, q)
<1>1. UpTo(rs, t, q) # {} <=> UpTo(ls, t, q) # {}
  BY BothUpTo
<1>2. Of(rs, t) # {} <=> Of(ls, t) # {}
  <2>1. \A w \in Of(ls, t) : g[w] \in Of(rs, t)
    BY DEF Account
  <2>2. \A k \in Of(rs, t) : \E w \in Of(ls, t) : g[w] = k
    BY DEF Account, LinkedBy, Founded
  <2>3. QED
    BY <2>1, <2>2
<1>3. CASE UpTo(ls, t, q) # {}
  <2>1. rs[Max(UpTo(rs, t, q))].value = ls[Max(UpTo(ls, t, q))].value
    BY <1>3, LastTold
  <2>2. QED
    BY <1>1, <1>3, <2>1 DEF Answer, Told
<1>4. CASE UpTo(ls, t, q) = {} /\ Of(ls, t) # {}
  <2>1. rs[Min(Of(rs, t))].value = ls[Max(SaidFirst(ls, t))].value
    BY <1>2, <1>4, FirstTold
  <2>2. QED
    BY <1>1, <1>2, <1>4, <2>1 DEF Answer, Told
<1>5. CASE UpTo(ls, t, q) = {} /\ Of(ls, t) = {}
  BY <1>1, <1>2, <1>5 DEF Answer, Told
<1>6. QED
  BY <1>3, <1>4, <1>5

(* For every cycle, past and present, a tag of an item reads as the trace  *)
(* last said by the end of that cycle, when the clocks start together:     *)
(* through the entries that newTag overwrote, left out and never           *)
(* compressed, and the dictionaries that changed since (getTagById).       *)
THEOREM SpecReadsAsWritten ==
    ASSUME OwnInternals, StartTogether
    PROVE  Spec /\ []OffsetsFit => []ReadsAsWritten
<1>1. IInv => ReadsAsWritten
  <2>1. SUFFICES ASSUME IInv, NEW i \in Items, NEW t \in PlainTags, NEW q \in Asked
                 PROVE  getTagById(i, t, q) = Written(i, t, q)
    BY DEF ReadsAsWritten
  <2>2. HeapOK /\ ClocksOK /\ DictsOK /\ NodesOK /\ HistoryOK
    BY <2>1 DEF IInv
  <2>3. PICK es : es = Entries(i)
    OBVIOUS
  <2>4. PICK rs : rs = Read(i)
    OBVIOUS
  <2>5. PICK ls : ls = log[i]
    OBVIOUS
  <2>6. AllOf(es)
    BY <2>2, <2>3, EntriesFacts DEF AllOf, NodesOK
  <2>7. rs \in {ReadsOf(es)}
    BY <2>3, <2>4 DEF Read, ReadsOf
  <2>8. Ordered(rs) /\ Ordered(ls) /\ Linked(rs, ls)
    BY <2>2, <2>4, <2>5 DEF HistoryOK
  <2>9. PICK g \in [Of(ls, t) -> Of(rs, t)] : LinkedBy(rs, ls, t, g)
    BY <2>8 DEF Linked
  <2>10. Account(rs, ls, t, g)
    BY <2>8, <2>9 DEF Account
  <2>11. Answer(rs, t, q) = Told(ls, t, q)
    BY <2>2, <2>10, AnswerIsTold
  <2>12. Written(i, t, q) = Told(ls, t, q)
    BY <2>5, WrittenIsTold
  <2>13. Answer(rs, t, q) = getTagById(i, t, q)
    <3>1. Answer(rs, t, q) = AnswerIn(es, t, q)
      BY <2>2, <2>6, <2>7, <2>8, AnswerOfEntries
    <3>2. QED
      BY <2>3, <3>1 DEF getTagById, AnswerIn, AskedTime
  <2>14. QED
    BY <2>11, <2>12, <2>13
<1>2. QED
  BY <1>1, SpecIInv, PTL
=============================================================================
