-------------------------- MODULE TagHandlerProofs --------------------------
(* Proofs about TagHandler: the iterators of the views agree with searches *)
(* that start from nothing, for chunks of any size, any values and any     *)
(* trace.  A handler is where the search is: the entries it has reached    *)
(* are those up to its cycle (Placed), and it goes on from the entry it    *)
(* reached last to the next one that says something else (Skips).          *)
EXTENDS TagIdVecProofs, TagHandler

-----------------------------------------------------------------------------
(* The tags a trace leaves.                                                *)

(* What the theorems ask of the uses: the tags are forwarded, no offset of *)
(* the trace wraps, and a move in the last cycle has a next one.           *)
Searchable ==
    /\ MaxCycle < OFFSETS
    /\ \A u \in Uses : /\ u.fwd
                       /\ "Move" \in u.ops => MaxCycle + 1 < MAXCYCLES /\ MaxCycle + 1 < OFFSETS

(* The inductive invariant: that of TagIdVec, and that no entry is outside *)
(* the cycles of the tag.                                                  *)
SInv == Searchable /\ IInv /\ use.fwd /\ Kept(tag)

LEMMA SearchableFits ==
    ASSUME SInv
    PROVE  /\ cycle \in 0 .. MAXCYCLES - 1 /\ cycle < OFFSETS /\ phase \in Phases
           /\ "Move" \in use.ops => cycle + 1 \in 0 .. MAXCYCLES - 1 /\ cycle + 1 < OFFSETS
<1>1. cycle \in Nat /\ cycle <= MaxCycle /\ phase \in Phases /\ use \in Uses
  BY NowType, Sizes DEF SInv
<1>2. OFFSETS \in Nat /\ MaxCycle < OFFSETS
  BY SizesAssumption DEF SInv, Searchable
<1>3. "Move" \in use.ops => MaxCycle + 1 < MAXCYCLES /\ MaxCycle + 1 < OFFSETS
  BY <1>1 DEF SInv, Searchable
<1>4. QED
  BY <1>1, <1>2, <1>3, Sizes

LEMMA UptoPresent ==
    ASSUME SInv, "Move" \in use.ops => ~moved
    PROVE  Upto(tag, phase, cycle)
<1>1. Reach \in [Phases -> Int] /\ phase \in Phases
  BY ReachType DEF SInv, IInv
<1>2. Upto(tag, phase, Reach[phase])
  BY <1>1, HalvesUpto DEF SInv, IInv
<1>3. Reach[phase] = cycle
  BY <1>1 DEF Reach, Phases
<1>4. QED
  BY <1>2, <1>3

LEMMA EnteredKept ==
    ASSUME NEW t, Kept(t), NEW c \in 0 .. MAXCYCLES - 1, c < OFFSETS, NEW p \in Phases,
           NEW v \in Stored, ~Refuses(t, c, p, v), Upto(t, p, c)
    PROVE  Kept(Entered(t, c, p, v)) /\ Upto(Entered(t, c, p, v), p, c)
<1>1. CASE Repeats(t, v)
  BY <1>1 DEF Entered
<1>2. CASE ~Repeats(t, v)
  BY <1>2, EnteredHolds, Zenon
<1>3. QED
  BY <1>1, <1>2

LEMMA InitSInv == Searchable /\ Init => SInv
<1> SUFFICES ASSUME Searchable, Init PROVE SInv
  OBVIOUS
<1>1. IInv /\ tag = EmptyTag /\ use \in Uses
  BY InitIInv DEF Init
<1>2. Kept(tag)
  <2>1. tag \in TagType
    BY <1>1, TypeOfTag DEF IInv, TypeInv
  <2>2. tag.lastCycle = 0 /\ \A p \in Phases, k \in Chunks : Vec(tag, p, k) = NULL
    BY <1>1 DEF EmptyTag, Vec
  <2>3. QED
    BY <2>1, <2>2, SizesAssumption DEF Kept, InReach
<1>3. QED
  BY <1>1, <1>2 DEF SInv, Searchable

LEMMA NextSInv == ASSUME SInv, [Next]_vars PROVE SInv'
<1>1. IInv'
  BY NextIInv DEF SInv
<1>2. UNCHANGED use
  BY DEF Next, Cycle, Set, Undefine, Move, EndSimulation, vars
<1>3. Searchable' /\ use'.fwd
  BY <1>2 DEF SInv, Searchable
<1>4. Kept(tag) /\ cycle \in Nat /\ phase \in Phases /\ use \in Uses
  BY NowType DEF SInv
<1>5. ASSUME NEW v \in Stored, "Move" \notin use.ops,
             tag' = Entered(tag, cycle, phase, v), refused' = Refuses(tag, cycle, phase, v)
      PROVE  Kept(tag')
  <2>1. ~Refuses(tag, cycle, phase, v)
    BY <1>1, <1>5 DEF IInv, WritesAccepted
  <2>2. QED
    BY <1>4, <1>5, <2>1, UptoPresent, EnteredKept, SearchableFits
<1>6. ASSUME NEW c, NEW p, Cycle(c, p), c \in 0 .. MaxCycle PROVE Kept(tag')
  <2>1. CASE CompressDue(c)
    <3>1. c - 1 \in Nat
      BY <1>6, <2>1, CompressedAtType DEF SInv, IInv
    <3>2. tag' = Compressed(tag, c - 1, FALSE)
      BY <1>6, <2>1 DEF Cycle
    <3>3. QED
      BY <1>4, <3>1, <3>2, CompressedHolds
  <2>2. CASE ~CompressDue(c)
    BY <1>4, <1>6, <2>2 DEF Cycle
  <2>3. QED
    BY <2>1, <2>2
<1>7. ASSUME NEW v \in Values, Set(v) PROVE Kept(tag')
  BY <1>4, <1>5, <1>7, UsesAssumption DEF Set, Stored
<1>8. ASSUME Undefine PROVE Kept(tag')
  BY <1>4, <1>5, <1>8, UsesAssumption DEF Undefine, Stored
<1>9. ASSUME NEW v \in Values, Move(v) PROVE Kept(tag')
  <2>1. /\ "Move" \in use.ops /\ ~moved /\ v \in Stored /\ NONE \in Stored
        /\ ~Refuses(tag, cycle, phase, v)
        /\ tag' = Entered(Entered(tag, cycle, phase, v), cycle + 1, phase, NONE)
        /\ ~Refuses(Entered(tag, cycle, phase, v), cycle + 1, phase, NONE)
    BY <1>1, <1>9 DEF Move, Gone, IInv, WritesAccepted, Stored
  <2>2. PICK m : m = Entered(tag, cycle, phase, v)
    OBVIOUS
  <2>3. Kept(m) /\ Upto(m, phase, cycle)
    BY <1>4, <2>1, <2>2, UptoPresent, EnteredKept, SearchableFits
  <2>4. Upto(m, phase, cycle + 1)
    BY <1>4, <2>3 DEF Upto
  <2>5. cycle + 1 \in 0 .. MAXCYCLES - 1 /\ cycle + 1 < OFFSETS
    BY <2>1, SearchableFits
  <2>6. QED
    BY <1>4, <2>1, <2>2, <2>3, <2>4, <2>5, EnteredKept
<1>10. ASSUME EndSimulation PROVE Kept(tag')
  <2>1. cycle + CHUNK + 1 \in Nat
    BY <1>4, Sizes
  <2>2. QED
    BY <1>4, <1>10, <2>1, CompressedHolds DEF EndSimulation
<1>11. ASSUME UNCHANGED vars PROVE Kept(tag')
  BY <1>4, <1>11 DEF vars
<1>12. \A c \in cycle .. Min({cycle + use.maxGap, MaxCycle}) : c \in 0 .. MaxCycle
  <2>1. use.maxGap \in Nat
    BY <1>4, UsesAssumption
  <2>2. Min({cycle + use.maxGap, MaxCycle}) \in Int /\ Min({cycle + use.maxGap, MaxCycle}) <= MaxCycle
    BY <1>4, <2>1, MinOfTwo, Sizes
  <2>3. QED
    BY <1>4, <2>2, Sizes
<1>13. Kept(tag')
  BY <1>6, <1>7, <1>8, <1>9, <1>10, <1>11, <1>12 DEF Next
<1>14. QED
  BY <1>1, <1>3, <1>13 DEF SInv

LEMMA SpecSInv == Searchable /\ Spec => []SInv
<1>1. SInv /\ [Next]_vars => SInv'
  BY NextSInv
<1>2. QED
  BY <1>1, InitSInv, PTL DEF Spec

-----------------------------------------------------------------------------
(* Entries and cycles.                                                     *)

LEMMA Cut ==
    ASSUME NEW c \in Nat
    PROVE  /\ c \div CHUNK \in Nat /\ c % CHUNK \in Nat /\ c % CHUNK \in 0 .. CHUNK - 1
           /\ Start(c \div CHUNK) \in Nat /\ c = Start(c \div CHUNK) + (c % CHUNK)
<1>1. c \div CHUNK \in Nat /\ c % CHUNK \in 0 .. CHUNK - 1 /\ c = Start(c \div CHUNK) + (c % CHUNK)
  BY InChunkOf
<1>2. \A n \in 0 .. CHUNK - 1 : n \in Nat
  BY Sizes
<1>3. QED
  BY <1>1, <1>2, Starts

LEMMA ChunkEntries ==
    ASSUME NEW t, Kept(t), NEW d \in Phases, NEW k \in Nat
    PROVE  LET es == EntriesOf(t, d, k)
           IN  /\ DOMAIN es = 1 .. Len(es) /\ Len(es) \in Nat
               /\ \A i \in DOMAIN es : /\ es[i].offset \in 0 .. CHUNK - 1 /\ es[i].offset \in Nat
                                       /\ es[i].value \in Stored
                                       /\ Holds(t, d, Start(k) + es[i].offset, es[i].value)
               /\ InOrder(es)
<1> DEFINE es == EntriesOf(t, d, k)
<1>1. CASE k \in Chunks /\ Vec(t, d, k) # NULL
  <2>1. es = Vec(t, d, k).entries
    BY <1>1 DEF EntriesOf, Vec
  <2>2. /\ DOMAIN es = 1 .. Len(es) /\ Len(es) \in Nat
        /\ \A i \in DOMAIN es : /\ es[i].offset \in 0 .. CHUNK - 1 /\ es[i].offset \in Nat
                                /\ es[i].value \in Stored
    BY <1>1, <2>1, KeptTypes, EntriesTyped
  <2>3. InOrder(es)
    BY <1>1, <2>1 DEF Kept, InReach
  <2>4. \A i \in DOMAIN es : Holds(t, d, Start(k) + es[i].offset, es[i].value)
    BY <1>1, <2>1 DEF Holds
  <2>5. QED
    BY <2>2, <2>3, <2>4
<1>2. CASE ~(k \in Chunks /\ Vec(t, d, k) # NULL)
  <2>1. es = <<>>
    BY <1>2 DEF EntriesOf, Vec
  <2>2. QED
    BY <2>1 DEF InOrder
<1>3. QED
  BY <1>1, <1>2

LEMMA HoldsEntry ==
    ASSUME NEW t, Kept(t), NEW d \in Phases, NEW a, NEW w, Holds(t, d, a, w)
    PROVE  /\ a \in Nat /\ w \in Stored /\ a <= t.lastCycle /\ a < MAXCYCLES
           /\ a \div CHUNK \in Nat /\ a % CHUNK \in Nat
           /\ Vec(t, d, a \div CHUNK) # NULL /\ a \div CHUNK \in Chunks
           /\ \E i \in DOMAIN EntriesOf(t, d, a \div CHUNK) :
                 /\ EntriesOf(t, d, a \div CHUNK)[i].offset = a % CHUNK
                 /\ EntriesOf(t, d, a \div CHUNK)[i].value = w
<1>1. PICK k \in Chunks, o \in 0 .. CHUNK - 1 :
               a = Start(k) + o /\ Vec(t, d, k) # NULL /\ EntryAt(Vec(t, d, k).entries, o, w)
  BY HoldsSome
<1>2. a \in Nat /\ w \in Stored
  BY HoldsSome
<1>3. k \in Nat /\ o \in Nat /\ a \div CHUNK = k /\ a % CHUNK = o
  BY <1>1, <1>2, ChunkOf, Sizes DEF Chunks
<1>4. EntriesOf(t, d, k) = Vec(t, d, k).entries
  BY <1>1 DEF EntriesOf, Vec
<1>5. a <= t.lastCycle
  BY <1>1 DEF Kept, InReach, Holds, EntryAt
<1>6. t.lastCycle \in 0 .. MAXCYCLES - 1
  BY DEF Kept, TagType
<1>7. a < MAXCYCLES
  BY <1>2, <1>5, <1>6, Sizes
<1>8. QED
  BY <1>1, <1>2, <1>3, <1>4, <1>5, <1>7 DEF EntryAt

(* While the entries say what was read, the same is read.                  *)
LEMMA SteadyRead ==
    ASSUME NEW t, Kept(t), NEW d \in Phases, NEW c \in Int, NEW e \in Int, c <= e,
           \A a \in Int, v \in Stored :
               Holds(t, d, a, v) /\ c < a /\ a <= e => v = Searched(t, d, c).value
    PROVE  Searched(t, d, e).value = Searched(t, d, c).value
<1> DEFINE r == Searched(t, d, c)
           s == Searched(t, d, e)
<1>1. IsLatest(t, d, c, r) /\ IsLatest(t, d, e, s)
  BY SearchedLatest
<1>2. \A a \in Int, v \in Stored : Holds(t, d, a, v) /\ c < a /\ a <= e => v = r.value
  OBVIOUS
<1> HIDE DEF r, s
<1>3. CASE s = NotFound /\ \A a \in Int, v \in Stored : Holds(t, d, a, v) => e < a
  <2>1. r = NotFound
    BY <1>1, <1>3 DEF IsLatest
  <2>2. QED
    BY <1>3, <2>1 DEF r, s
<1>4. CASE /\ s.at \in Int /\ s.value \in Stored /\ Holds(t, d, s.at, s.value) /\ s.at <= e
           /\ \A a \in Int, v \in Stored : Holds(t, d, a, v) /\ a <= e => a <= s.at
  <2>1. CASE c < s.at
    BY <1>2, <1>4, <2>1 DEF r, s
  <2>2. CASE ~(c < s.at)
    <3>1. /\ r.at \in Int /\ r.value \in Stored /\ Holds(t, d, r.at, r.value) /\ r.at <= c
          /\ \A a \in Int, v \in Stored : Holds(t, d, a, v) /\ a <= c => a <= r.at
      BY <1>1, <1>4, <2>2 DEF IsLatest
    <3>2. r.at <= s.at /\ s.at <= r.at
      BY <1>4, <2>2, <3>1
    <3>3. r.at = s.at
      BY <1>4, <3>1, <3>2
    <3>4. QED
      BY <1>4, <3>1, <3>3, HoldsOnce DEF r, s
  <2>3. QED
    BY <2>1, <2>2
<1>5. QED
  BY <1>1, <1>3, <1>4 DEF IsLatest

(* At the cycle of an entry its value is read.                             *)
LEMMA HeldRead ==
    ASSUME NEW t, Kept(t), NEW d \in Phases, NEW a, NEW v, Holds(t, d, a, v)
    PROVE  Searched(t, d, a).value = v
<1>1. a \in Int /\ v \in Stored
  BY HoldsEntry
<1>2. PICK r : r = Searched(t, d, a) /\ IsLatest(t, d, a, r)
  BY <1>1, SearchedLatest
<1>3. ~(a < a) /\ a <= a
  BY <1>1
<1>4. /\ r.at \in Int /\ r.value \in Stored /\ Holds(t, d, r.at, r.value) /\ r.at <= a
      /\ a <= r.at
  BY <1>1, <1>2, <1>3 DEF IsLatest
<1>5. r.at = a
  BY <1>1, <1>4
<1>6. QED
  BY <1>2, <1>4, <1>5, HoldsOnce

(* Before the first entry nothing is read.                                 *)
LEMMA NothingRead ==
    ASSUME NEW t, Kept(t), NEW d \in Phases, NEW c \in Int,
           \A a \in Int, v \in Stored : Holds(t, d, a, v) => c < a
    PROVE  Searched(t, d, c) = NotFound
<1>1. IsLatest(t, d, c, Searched(t, d, c))
  BY SearchedLatest
<1>2. \A a \in Int : c < a => ~(a <= c)
  OBVIOUS
<1>3. QED
  BY <1>1, <1>2 DEF IsLatest

-----------------------------------------------------------------------------
(* Where a handler is.                                                     *)

HandlerType == [at : Nat, chunk : Nat, entry : Nat, value : Stored]

(* It has reached the entries of its chunk up to its cycle, and has the    *)
(* value of the last one.                                                  *)
Placed(t, d, h) ==
    LET es == EntriesOf(t, d, h.chunk)
    IN  /\ h \in HandlerType /\ h.chunk = h.at \div CHUNK /\ h.entry <= Len(es)
        /\ \A i \in DOMAIN es : i <= h.entry <=> es[i].offset <= h.at % CHUNK
        /\ h.entry > 0 => h.value = es[h.entry].value

(* getActualValue reaches them.                                            *)
LEMMA ActualPlaced ==
    ASSUME NEW t, Kept(t), NEW d \in Phases, NEW h \in HandlerType, h.chunk = h.at \div CHUNK,
           h.entry <= Len(EntriesOf(t, d, h.chunk)),
           \A i \in DOMAIN EntriesOf(t, d, h.chunk) :
               i <= h.entry => EntriesOf(t, d, h.chunk)[i].offset <= h.at % CHUNK,
           h.entry > 0 => h.value = EntriesOf(t, d, h.chunk)[h.entry].value
    PROVE  LET g == ActualValue(t, d, h)
           IN  /\ Placed(t, d, g) /\ g.at = h.at /\ g.chunk = h.chunk /\ h.entry <= g.entry
               /\ g.entry = h.entry => g.value = h.value
<1> DEFINE es == EntriesOf(t, d, h.chunk)
           T == {h.entry} \cup Reached(es, h)
           m == Max(T)
           g == ActualValue(t, d, h)
<1>1. h.at \in Nat /\ h.chunk \in Nat /\ h.entry \in Nat /\ h.value \in Stored
  BY DEF HandlerType
<1>2. /\ DOMAIN es = 1 .. Len(es) /\ Len(es) \in Nat /\ InOrder(es)
      /\ \A i \in DOMAIN es : es[i].offset \in Nat /\ es[i].value \in Stored
  BY <1>1, ChunkEntries
<1>3. h.at % CHUNK \in Nat
  BY <1>1, InChunkOf, Sizes
<1>4. /\ h.entry <= Len(es) /\ \A i \in DOMAIN es : i <= h.entry => es[i].offset <= h.at % CHUNK
      /\ h.entry > 0 => h.value = es[h.entry].value
  OBVIOUS
<1>5. g = IF m = h.entry THEN h ELSE [h EXCEPT !.entry = m, !.value = es[m].value]
  BY DEF ActualValue
<1> HIDE DEF es, g
<1>6. Reached(es, h) = {i \in DOMAIN es : es[i].offset <= h.at % CHUNK}
  BY DEF Reached
<1>7. m \in T /\ \A i \in T : i <= m
  <2>1. T \in SUBSET Int /\ T # {} /\ \A i \in T : i <= Len(es)
    BY <1>1, <1>2, <1>4, <1>6
  <2>2. Len(es) \in Int
    BY <1>2
  <2> HIDE DEF T
  <2>3. QED
    BY <2>1, <2>2, Largest, Zenon
<1> HIDE DEF m
<1>8. m \in Nat /\ h.entry <= m /\ m <= Len(es) /\ (m # h.entry => m \in Reached(es, h))
  BY <1>1, <1>2, <1>4, <1>6, <1>7
<1> HIDE DEF T
<1>9. \A i \in DOMAIN es : i <= m <=> es[i].offset <= h.at % CHUNK
  <2>1. ASSUME NEW i \in DOMAIN es, es[i].offset <= h.at % CHUNK PROVE i <= m
    BY <1>6, <1>7, <2>1 DEF T
  <2>2. ASSUME NEW i \in DOMAIN es, i <= m PROVE es[i].offset <= h.at % CHUNK
    <3>1. CASE m = h.entry
      BY <1>4, <2>2, <3>1
    <3>2. CASE m # h.entry
      <4>1. m \in DOMAIN es /\ es[m].offset <= h.at % CHUNK
        BY <1>6, <1>8, <3>2
      <4>2. i = m \/ i < m
        BY <1>2, <1>8, <2>2
      <4>3. es[i].offset <= es[m].offset
        BY <1>2, <2>2, <4>1, <4>2 DEF InOrder
      <4>4. QED
        BY <1>2, <1>3, <2>2, <4>1, <4>3
    <3>3. QED
      BY <3>1, <3>2
  <2>3. QED
    BY <2>1, <2>2
<1>10. /\ g \in HandlerType /\ g.at = h.at /\ g.chunk = h.chunk /\ g.entry = m
       /\ g.value = IF m = h.entry THEN h.value ELSE es[m].value
  <2>1. m # h.entry => es[m].value \in Stored
    BY <1>2, <1>6, <1>8
  <2>2. QED
    BY <1>5, <1>8, <2>1 DEF HandlerType
<1>11. Placed(t, d, g)
  BY <1>4, <1>8, <1>9, <1>10 DEF Placed, es
<1>12. QED
  BY <1>8, <1>10, <1>11 DEF g

(* What a handler that has reached an entry reads.                         *)
LEMMA PlacedReads ==
    ASSUME NEW t, Kept(t), NEW d \in Phases, NEW h, Placed(t, d, h), h.entry > 0
    PROVE  Searched(t, d, h.at).value = h.value
<1> DEFINE es == EntriesOf(t, d, h.chunk)
           x == Start(h.chunk) + es[h.entry].offset
<1>1. /\ h.at \in Nat /\ h.chunk \in Nat /\ h.entry \in Nat /\ h.value \in Stored
      /\ h.chunk = h.at \div CHUNK
  BY DEF Placed, HandlerType
<1>2. /\ DOMAIN es = 1 .. Len(es) /\ Len(es) \in Nat /\ InOrder(es)
      /\ \A i \in DOMAIN es : es[i].offset \in 0 .. CHUNK - 1 /\ es[i].offset \in Nat
      /\ \A i \in DOMAIN es : Holds(t, d, Start(h.chunk) + es[i].offset, es[i].value)
  BY <1>1, ChunkEntries
<1>3. /\ \A i \in DOMAIN es : i <= h.entry <=> es[i].offset <= h.at % CHUNK
      /\ h.entry \in DOMAIN es /\ h.value = es[h.entry].value
  BY <1>1, <1>2 DEF Placed
<1>4. h.at % CHUNK \in Nat /\ h.at = Start(h.chunk) + (h.at % CHUNK) /\ Start(h.chunk) \in Nat
  BY <1>1, Cut
<1>5. Holds(t, d, x, h.value)
  BY <1>2, <1>3
<1> HIDE DEF es
<1>6. x \in Nat /\ x <= h.at
  BY <1>1, <1>2, <1>3, <1>4
<1>7. ASSUME NEW a \in Int, NEW v \in Stored, Holds(t, d, a, v), x < a, a <= h.at
      PROVE  v = Searched(t, d, x).value
  <2>1. /\ a \in Nat /\ a \div CHUNK \in Nat /\ a % CHUNK \in Nat
        /\ \E i \in DOMAIN EntriesOf(t, d, a \div CHUNK) :
              EntriesOf(t, d, a \div CHUNK)[i].offset = a % CHUNK
    BY <1>7, HoldsEntry
  <2>2. a \div CHUNK = h.chunk
    <3>1. x \div CHUNK = h.chunk
      <4>1. PICK o \in 0 .. CHUNK - 1 : o = es[h.entry].offset
        BY <1>2, <1>3
      <4>2. x = Start(h.chunk) + o
        BY <4>1
      <4>3. QED
        BY <1>1, <1>6, <4>2, ChunkOf
    <3>2. x \div CHUNK <= a \div CHUNK /\ a \div CHUNK <= h.at \div CHUNK
      <4> HIDE DEF x
      <4>1. QED
        BY <1>1, <1>6, <1>7, <2>1, ChunkMonotone
    <3>3. QED
      BY <1>1, <2>1, <3>1, <3>2
  <2>3. PICK i \in DOMAIN es : es[i].offset = a % CHUNK
    BY <2>1, <2>2 DEF es
  <2>4. a = Start(h.chunk) + (a % CHUNK)
    BY <2>1, <2>2, InChunkOf
  <2>5. a % CHUNK <= h.at % CHUNK /\ es[h.entry].offset < a % CHUNK
    <3>1. es[h.entry].offset \in Nat
      BY <1>2, <1>3
    <3>2. QED
      BY <1>4, <1>7, <2>1, <2>4, <3>1
  <2>6. i <= h.entry
    BY <1>3, <2>3, <2>5
  <2>7. i < h.entry \/ i = h.entry
    BY <1>1, <1>2, <2>3, <2>6
  <2>8. QED
    BY <1>2, <1>3, <2>1, <2>3, <2>5, <2>7 DEF InOrder
<1>8. Searched(t, d, x).value = h.value
  BY <1>5, HeldRead
<1> HIDE DEF x
<1>9. Searched(t, d, h.at).value = Searched(t, d, x).value
  <2>1. x \in Int /\ h.at \in Int
    BY <1>1, <1>6
  <2>2. QED
    BY <1>6, <1>7, <2>1, SteadyRead
<1>10. QED
  BY <1>8, <1>9

(* An entry after the handler is one of its chunk it has not reached, or   *)
(* in a later chunk.                                                       *)
LEMMA EntryAhead ==
    ASSUME NEW t, Kept(t), NEW d \in Phases, NEW h, Placed(t, d, h),
           NEW a, NEW v, Holds(t, d, a, v), h.at < a
    PROVE  /\ a \div CHUNK \in Nat /\ h.chunk <= a \div CHUNK
           /\ a \div CHUNK = h.chunk =>
                 \E i \in DOMAIN EntriesOf(t, d, h.chunk) :
                     /\ h.entry < i /\ a = Start(h.chunk) + EntriesOf(t, d, h.chunk)[i].offset
                     /\ EntriesOf(t, d, h.chunk)[i].value = v
<1>1. /\ h.at \in Nat /\ h.chunk \in Nat /\ h.entry \in Nat /\ h.chunk = h.at \div CHUNK
      /\ \A i \in DOMAIN EntriesOf(t, d, h.chunk) :
             i <= h.entry <=> EntriesOf(t, d, h.chunk)[i].offset <= h.at % CHUNK
  BY DEF Placed, HandlerType
<1>2. /\ a \in Nat /\ a \div CHUNK \in Nat /\ a % CHUNK \in Nat
      /\ \E i \in DOMAIN EntriesOf(t, d, a \div CHUNK) :
            /\ EntriesOf(t, d, a \div CHUNK)[i].offset = a % CHUNK
            /\ EntriesOf(t, d, a \div CHUNK)[i].value = v
  BY HoldsEntry
<1>3. h.chunk <= a \div CHUNK
  BY <1>1, <1>2, ChunkMonotone
<1>4. ASSUME a \div CHUNK = h.chunk
      PROVE  \E i \in DOMAIN EntriesOf(t, d, h.chunk) :
                 /\ h.entry < i /\ a = Start(h.chunk) + EntriesOf(t, d, h.chunk)[i].offset
                 /\ EntriesOf(t, d, h.chunk)[i].value = v
  <2> DEFINE es == EntriesOf(t, d, h.chunk)
  <2>1. PICK i \in DOMAIN es : es[i].offset = a % CHUNK /\ es[i].value = v
    BY <1>2, <1>4
  <2>2. DOMAIN es = 1 .. Len(es)
    BY <1>1, ChunkEntries
  <2>3. a = Start(h.chunk) + (a % CHUNK) /\ h.at = Start(h.chunk) + (h.at % CHUNK)
        /\ Start(h.chunk) \in Nat /\ h.at % CHUNK \in Nat
    BY <1>1, <1>2, <1>4, Cut
  <2>4. ~(a % CHUNK <= h.at % CHUNK)
    BY <1>2, <2>3
  <2>5. ~(i <= h.entry) /\ i \in Nat
    BY <1>1, <2>1, <2>2, <2>4
  <2>6. h.entry < i
    BY <1>1, <2>5
  <2>7. QED
    BY <2>1, <2>3, <2>6
<1>5. QED
  BY <1>2, <1>3, <1>4

(* The next entry of the chunk is the next one of the phase.               *)
LEMMA NextEntryPlaced ==
    ASSUME NEW t, Kept(t), NEW d \in Phases, NEW h, Placed(t, d, h), HasNextEntry(t, d, h)
    PROVE  LET g == NextEntry(t, d, h)
           IN  /\ Placed(t, d, g) /\ h.at < g.at /\ Holds(t, d, g.at, g.value)
               /\ \A a \in Int, v \in Stored : Holds(t, d, a, v) /\ h.at < a => g.at <= a
<1> DEFINE es == EntriesOf(t, d, h.chunk)
           n == h.entry + 1
           g == NextEntry(t, d, h)
           o == es[n].offset
<1>1. /\ h \in HandlerType /\ h.at \in Nat /\ h.chunk \in Nat /\ h.entry \in Nat
      /\ h.chunk = h.at \div CHUNK
      /\ \A i \in DOMAIN es : i <= h.entry <=> es[i].offset <= h.at % CHUNK
  BY DEF Placed, HandlerType
<1>2. /\ DOMAIN es = 1 .. Len(es) /\ Len(es) \in Nat /\ InOrder(es)
      /\ \A i \in DOMAIN es : /\ es[i].offset \in 0 .. CHUNK - 1 /\ es[i].offset \in Nat
                              /\ es[i].value \in Stored
                              /\ Holds(t, d, Start(h.chunk) + es[i].offset, es[i].value)
  BY <1>1, ChunkEntries
<1>3. n \in DOMAIN es /\ n \in Nat /\ ~(n <= h.entry) /\ h.entry < n
  BY <1>1, <1>2 DEF HasNextEntry
<1>4. h.chunk * CHUNK = Start(h.chunk) /\ Start(h.chunk) \in Nat
  BY <1>1, Starts
<1>5. g = [h EXCEPT !.at = h.chunk * CHUNK + o, !.entry = n, !.value = es[n].value]
  BY DEF NextEntry, HandlerType, Placed
<1> HIDE DEF es, g, o, n
<1>6. o \in Nat /\ o \in 0 .. CHUNK - 1 /\ es[n].value \in Stored
      /\ Holds(t, d, Start(h.chunk) + o, es[n].value)
  BY <1>2, <1>3 DEF o
<1>7. /\ g \in HandlerType /\ g.at = Start(h.chunk) + o /\ g.chunk = h.chunk /\ g.entry = n
      /\ g.value = es[n].value /\ g.at \in Nat
  <2>1. PICK x \in Nat, w \in Stored : x = Start(h.chunk) + o /\ w = es[n].value
    BY <1>4, <1>6
  <2>2. g = [h EXCEPT !.at = x, !.entry = n, !.value = w]
    BY <1>4, <1>5, <2>1
  <2>3. n \in Nat /\ h \in HandlerType
    BY <1>1, <1>3
  <2>4. QED
    BY <2>1, <2>2, <2>3 DEF HandlerType
<1>8. g.at \div CHUNK = h.chunk /\ g.at % CHUNK = o
  BY <1>1, <1>6, <1>7, ChunkOf
<1>9. h.at < g.at
  <2>1. h.at % CHUNK \in Nat /\ h.at = Start(h.chunk) + (h.at % CHUNK)
    BY <1>1, Cut
  <2>2. ~(o <= h.at % CHUNK)
    BY <1>1, <1>3 DEF o
  <2>3. QED
    BY <1>4, <1>6, <1>7, <2>1, <2>2
<1>10. \A i \in DOMAIN es : i <= n <=> es[i].offset <= o
  <2>1. SUFFICES ASSUME NEW i \in DOMAIN es PROVE i <= n <=> es[i].offset <= o
    OBVIOUS
  <2>2. i < n \/ i = n \/ n < i
    BY <1>2, <1>3, <2>1
  <2>3. CASE i < n
    BY <1>2, <1>3, <2>1, <2>3 DEF InOrder, o
  <2>4. CASE i = n
    BY <1>2, <1>3, <2>4 DEF o
  <2>5. CASE n < i
    <3>1. o < es[i].offset
      BY <1>2, <1>3, <2>1, <2>5 DEF InOrder, o
    <3>2. es[i].offset \in Nat /\ i \in Nat
      BY <1>2, <2>1
    <3>3. QED
      BY <1>3, <1>6, <2>5, <3>1, <3>2
  <2>6. QED
    BY <2>2, <2>3, <2>4, <2>5
<1>11. Placed(t, d, g)
  <2>1. n <= Len(es)
    BY <1>2, <1>3
  <2>2. QED
    BY <1>7, <1>8, <1>10, <2>1 DEF Placed, es
<1>12. ASSUME NEW a \in Int, NEW v \in Stored, Holds(t, d, a, v), h.at < a PROVE g.at <= a
  <2>1. /\ a \div CHUNK \in Nat /\ h.chunk <= a \div CHUNK
        /\ a \div CHUNK = h.chunk =>
              \E i \in DOMAIN es : h.entry < i /\ a = Start(h.chunk) + es[i].offset
    BY <1>12, EntryAhead DEF es
  <2>2. CASE a \div CHUNK = h.chunk
    <3>1. PICK i \in DOMAIN es : h.entry < i /\ a = Start(h.chunk) + es[i].offset
      BY <2>1, <2>2
    <3>2. n <= i /\ i \in Nat
      BY <1>1, <1>2, <3>1 DEF n
    <3>3. o <= es[i].offset
      BY <1>2, <1>3, <1>6, <3>1, <3>2 DEF InOrder, o
    <3>4. es[i].offset \in Nat
      BY <1>2
    <3>5. QED
      BY <1>4, <1>6, <1>7, <3>1, <3>3, <3>4
  <2>3. CASE a \div CHUNK # h.chunk
    <3>1. a \in Nat /\ ~(a <= g.at)
      <4>1. a \in Nat
        BY <1>12, HoldsEntry
      <4>2. a <= g.at => a \div CHUNK <= g.at \div CHUNK
        BY <1>7, <4>1, ChunkMonotone
      <4>3. QED
        BY <1>1, <1>8, <2>1, <2>3, <4>1, <4>2
    <3>2. QED
      BY <1>7, <3>1
  <2>4. QED
    BY <2>2, <2>3
<1>13. QED
  BY <1>6, <1>7, <1>9, <1>11, <1>12 DEF g

(* A handler that comes to a chunk with a value.                           *)
LEMMA Arrives ==
    ASSUME NEW t, Kept(t), NEW d \in Phases, NEW k \in Nat, NEW v \in Stored
    PROVE  LET g == ActualValue(t, d, AtChunk(k, v))
           IN  /\ Placed(t, d, g) /\ g.at = Start(k) /\ g.chunk = k
               /\ g.entry = 0 => g.value = v
               /\ g.entry # 0 => Holds(t, d, g.at, g.value)
               /\ \A w \in Stored : Holds(t, d, g.at, w) => g.value = w
<1> DEFINE h == AtChunk(k, v)
           es == EntriesOf(t, d, k)
           g == ActualValue(t, d, h)
<1>1. /\ k * CHUNK = Start(k) /\ Start(k) \in Nat /\ Start(k) \div CHUNK = k
      /\ Start(k) % CHUNK = 0 /\ 0 \in 0 .. CHUNK - 1
  <2>1. k * CHUNK = Start(k) /\ Start(k) \in Nat /\ 0 \in 0 .. CHUNK - 1
    BY Starts, Sizes
  <2>2. Start(k) = Start(k) + 0
    BY <2>1
  <2>3. QED
    BY <2>1, <2>2, ChunkOf
<1>2. /\ h \in HandlerType /\ h.at = Start(k) /\ h.chunk = k /\ h.entry = 0 /\ h.value = v
  BY <1>1 DEF AtChunk, HandlerType
<1>3. /\ DOMAIN es = 1 .. Len(es) /\ Len(es) \in Nat
      /\ \A i \in DOMAIN es : /\ es[i].offset \in Nat
                              /\ Holds(t, d, Start(k) + es[i].offset, es[i].value)
  BY ChunkEntries
<1> HIDE DEF h, g
<1>4. /\ Placed(t, d, ActualValue(t, d, h)) /\ ActualValue(t, d, h).at = h.at
      /\ ActualValue(t, d, h).chunk = h.chunk
      /\ ActualValue(t, d, h).entry = h.entry => ActualValue(t, d, h).value = h.value
  <2>1. /\ h.chunk = h.at \div CHUNK /\ h.entry <= Len(EntriesOf(t, d, h.chunk))
        /\ \A i \in DOMAIN EntriesOf(t, d, h.chunk) :
               i <= h.entry => EntriesOf(t, d, h.chunk)[i].offset <= h.at % CHUNK
        /\ ~(h.entry > 0)
    BY <1>1, <1>2, <1>3
  <2>2. QED
    BY <1>2, <2>1, ActualPlaced, Zenon
<1>5. Placed(t, d, g) /\ g.at = Start(k) /\ g.chunk = k /\ (g.entry = 0 => g.value = v)
  BY <1>2, <1>4 DEF g
<1>6. /\ g.entry \in Nat /\ g.entry <= Len(es)
      /\ \A i \in DOMAIN es : i <= g.entry <=> es[i].offset <= 0
      /\ g.entry > 0 => g.value = es[g.entry].value
  BY <1>1, <1>5 DEF Placed, HandlerType
<1>7. g.entry # 0 => Holds(t, d, g.at, g.value)
  <2>1. SUFFICES ASSUME g.entry # 0 PROVE Holds(t, d, g.at, g.value)
    OBVIOUS
  <2>2. g.entry \in DOMAIN es /\ g.entry > 0
    BY <1>3, <1>6, <2>1
  <2>3. es[g.entry].offset = 0
    <3>1. g.entry <= g.entry
      BY <1>6
    <3>2. QED
      BY <1>3, <1>6, <2>2, <3>1
  <2>4. Start(k) + es[g.entry].offset = g.at
    BY <1>1, <1>5, <2>3
  <2>5. QED
    BY <1>3, <1>6, <2>2, <2>4
<1>8. ASSUME NEW w \in Stored, Holds(t, d, g.at, w) PROVE g.value = w
  <2>1. PICK i \in DOMAIN es : es[i].offset = 0
    BY <1>1, <1>5, <1>8, HoldsEntry
  <2>2. g.entry > 0
    BY <1>3, <1>6, <2>1
  <2>3. Searched(t, d, g.at).value = g.value
    BY <1>5, <2>2, PlacedReads
  <2>4. Searched(t, d, g.at).value = w
    BY <1>8, HeldRead
  <2>5. QED
    BY <2>3, <2>4
<1>9. QED
  BY <1>5, <1>7, <1>8 DEF g, h

(* A handler that has kept its value through cycles without entries reads  *)
(* it still.                                                               *)
LEMMA KeptValueReads ==
    ASSUME NEW t, Kept(t), NEW d \in Phases, NEW c \in Nat, NEW h, Placed(t, d, h),
           h.at = c + 1, h.entry = 0 => h.value = Searched(t, d, c).value
    PROVE  h.value = Searched(t, d, h.at).value
<1>1. h.entry \in Nat /\ h.chunk = h.at \div CHUNK
      /\ \A i \in DOMAIN EntriesOf(t, d, h.chunk) :
             i <= h.entry <=> EntriesOf(t, d, h.chunk)[i].offset <= h.at % CHUNK
  BY DEF Placed, HandlerType
<1>2. CASE h.entry > 0
  BY <1>2, PlacedReads
<1>3. CASE h.entry = 0
  <2>1. ASSUME NEW a \in Int, NEW v \in Stored, Holds(t, d, a, v), c < a, a <= h.at PROVE FALSE
    <3>1. a = h.at
      BY <2>1
    <3>2. /\ a % CHUNK \in Nat
          /\ \E i \in DOMAIN EntriesOf(t, d, a \div CHUNK) :
                EntriesOf(t, d, a \div CHUNK)[i].offset = a % CHUNK
      BY <2>1, HoldsEntry
    <3>3. PICK i \in DOMAIN EntriesOf(t, d, h.chunk) :
                   EntriesOf(t, d, h.chunk)[i].offset = h.at % CHUNK
      BY <1>1, <3>1, <3>2
    <3>4. i <= h.entry
      BY <1>1, <3>1, <3>2, <3>3
    <3>5. i \in 1 .. Len(EntriesOf(t, d, h.chunk))
      <4>1. h.chunk \in Nat
        BY DEF Placed, HandlerType
      <4>2. QED
        BY <3>3, <4>1, ChunkEntries
    <3>6. QED
      BY <1>3, <3>4, <3>5
  <2>2. c \in Int /\ h.at \in Int /\ c <= h.at
    OBVIOUS
  <2>3. Searched(t, d, h.at).value = Searched(t, d, c).value
    BY <2>1, <2>2, SteadyRead
  <2>4. QED
    BY <1>3, <2>3
<1>4. QED
  BY <1>1, <1>2, <1>3

(* The next cycle.                                                         *)
LEMMA NextCyclePlaced ==
    ASSUME NEW t, Kept(t), NEW d \in Phases, NEW h, Placed(t, d, h),
           h.value = Searched(t, d, h.at).value
    PROVE  LET g == nextCycle(t, d, h)
           IN  /\ Placed(t, d, g) /\ g.at = h.at + 1
               /\ g.value = Searched(t, d, g.at).value
<1> DEFINE g == nextCycle(t, d, h)
           n == h.at + 1
           r == h.at % CHUNK
<1>1. /\ h \in HandlerType /\ h.at \in Nat /\ h.chunk \in Nat /\ h.entry \in Nat
      /\ h.value \in Stored /\ h.chunk = h.at \div CHUNK /\ n \in Nat
      /\ h.entry <= Len(EntriesOf(t, d, h.chunk))
      /\ \A i \in DOMAIN EntriesOf(t, d, h.chunk) :
             i <= h.entry <=> EntriesOf(t, d, h.chunk)[i].offset <= r
      /\ h.entry > 0 => h.value = EntriesOf(t, d, h.chunk)[h.entry].value
  BY DEF Placed, HandlerType
<1>2. r \in Nat /\ r < CHUNK /\ h.at = Start(h.chunk) + r /\ Start(h.chunk) \in Nat /\ CHUNK \in Nat
  <2>1. r \in Nat /\ r \in 0 .. CHUNK - 1 /\ h.at = Start(h.chunk) + r /\ Start(h.chunk) \in Nat
    BY <1>1, Cut
  <2> HIDE DEF r
  <2>2. QED
    BY <2>1, Sizes
<1> HIDE DEF r
<1>3. CASE n % CHUNK = 0
  <2>1. n = Start(h.chunk + 1)
    <3>1. Start(h.chunk + 1) = Start(h.chunk) + CHUNK
      BY <1>1, Sizes DEF Start
    <3>2. r + 1 < CHUNK => n % CHUNK = r + 1
      <4>1. SUFFICES ASSUME r + 1 < CHUNK PROVE n % CHUNK = r + 1
        OBVIOUS
      <4>2. r + 1 \in 0 .. CHUNK - 1 /\ n = Start(h.chunk) + (r + 1)
        BY <1>2, <4>1
      <4> HIDE DEF n
      <4>3. QED
        BY <1>1, <4>2, ChunkOf
    <3>3. r + 1 = CHUNK
      BY <1>2, <1>3, <3>2
    <3>4. QED
      BY <1>2, <3>1, <3>3
  <2>2. g = ActualValue(t, d, AtChunk(h.chunk + 1, h.value))
    BY <1>3 DEF nextCycle, Turned
  <2>3. h.chunk + 1 \in Nat
    BY <1>1
  <2>4. Placed(t, d, g) /\ g.at = n /\ (g.entry = 0 => g.value = h.value)
    BY <1>1, <2>1, <2>2, <2>3, Arrives
  <2>5. QED
    BY <1>1, <2>4, KeptValueReads
<1>4. CASE n % CHUNK # 0
  <2> DEFINE u == [h EXCEPT !.at = @ + 1]
  <2>1. g = ActualValue(t, d, u)
    BY <1>4 DEF nextCycle, Turned
  <2>2. /\ u \in HandlerType /\ u.at = n /\ u.chunk = h.chunk /\ u.entry = h.entry
        /\ u.value = h.value
    BY <1>1 DEF HandlerType
  <2>3. n \div CHUNK = h.chunk /\ n % CHUNK = r + 1
    <3>1. r + 1 # CHUNK
      <4>1. SUFFICES ASSUME r + 1 = CHUNK PROVE FALSE
        OBVIOUS
      <4>2. Start(h.chunk + 1) = Start(h.chunk) + CHUNK
        BY <1>1, Sizes DEF Start
      <4>3. n = Start(h.chunk + 1) + 0
        BY <1>2, <4>1, <4>2
      <4> HIDE DEF n
      <4>6. 0 \in 0 .. CHUNK - 1 /\ h.chunk + 1 \in Nat /\ n \in Nat
        BY <1>1, Sizes
      <4>4. n % CHUNK = 0
        BY <4>3, <4>6, ChunkOf
      <4>5. QED
        BY <1>4, <4>4
    <3>2. r + 1 \in 0 .. CHUNK - 1 /\ n = Start(h.chunk) + (r + 1)
      BY <1>2, <3>1
    <3> HIDE DEF n
    <3>3. QED
      BY <1>1, <3>2, ChunkOf
  <2> HIDE DEF u, n
  <2>4. \A i \in DOMAIN EntriesOf(t, d, u.chunk) :
            i <= u.entry => EntriesOf(t, d, u.chunk)[i].offset <= u.at % CHUNK
    <3>1. \A i \in DOMAIN EntriesOf(t, d, h.chunk) : EntriesOf(t, d, h.chunk)[i].offset \in Nat
      BY <1>1, ChunkEntries
    <3>2. SUFFICES ASSUME NEW i \in DOMAIN EntriesOf(t, d, h.chunk), i <= h.entry
                   PROVE  EntriesOf(t, d, h.chunk)[i].offset <= r + 1
      BY <2>2, <2>3
    <3>3. EntriesOf(t, d, h.chunk)[i].offset <= r
      BY <1>1, <3>2
    <3>4. QED
      BY <1>2, <3>1, <3>2, <3>3
  <2>5. /\ u.chunk = u.at \div CHUNK /\ u.entry <= Len(EntriesOf(t, d, u.chunk))
        /\ u.entry > 0 => u.value = EntriesOf(t, d, u.chunk)[u.entry].value
    BY <1>1, <2>2, <2>3
  <2>6. /\ Placed(t, d, ActualValue(t, d, u)) /\ ActualValue(t, d, u).at = u.at
        /\ u.entry <= ActualValue(t, d, u).entry
        /\ ActualValue(t, d, u).entry = u.entry => ActualValue(t, d, u).value = u.value
    BY <2>2, <2>4, <2>5, ActualPlaced, Zenon
  <2>7. /\ Placed(t, d, g) /\ g.at = h.at + 1 /\ (g.entry = 0 => g.value = h.value)
    <3>1. g.entry = 0 => g.entry = u.entry
      BY <1>1, <2>1, <2>2, <2>6 DEF Placed, HandlerType
    <3>2. QED
      BY <2>1, <2>2, <2>6, <3>1 DEF n
  <2>8. QED
    BY <1>1, <2>7, KeptValueReads
<1>5. QED
  BY <1>3, <1>4

(* The first cycle.                                                        *)
LEMMA RewoundPlaced ==
    ASSUME NEW t, Kept(t), NEW d \in Phases
    PROVE  LET g == rewindToFirstCycle(t, d)
           IN  /\ Placed(t, d, g) /\ g.at = 0 /\ g.value = Searched(t, d, 0).value
<1> DEFINE g == rewindToFirstCycle(t, d)
<1>1. NONE \in Stored /\ 0 \in Nat /\ Start(0) = 0
  BY Sizes DEF Stored, Start
<1>2. g = ActualValue(t, d, AtChunk(0, NONE))
  BY DEF rewindToFirstCycle
<1>3. /\ Placed(t, d, g) /\ g.at = 0 /\ (g.entry = 0 => g.value = NONE)
      /\ g.entry # 0 => Holds(t, d, g.at, g.value)
      /\ \A w \in Stored : Holds(t, d, g.at, w) => g.value = w
  BY <1>1, <1>2, Arrives
<1> HIDE DEF g
<1>4. ASSUME NEW w \in Stored, Holds(t, d, 0, w) PROVE g.value = Searched(t, d, 0).value
  BY <1>3, <1>4, HeldRead
<1>5. ASSUME ~\E w \in Stored : Holds(t, d, 0, w)
      PROVE  g.value = Searched(t, d, 0).value
  <2>1. g.value = NONE
    <3>1. g.value \in Stored
      BY <1>3 DEF Placed, HandlerType
    <3>2. QED
      BY <1>3, <1>5, <3>1
  <2>2. ASSUME NEW a \in Int, NEW w \in Stored, Holds(t, d, a, w) PROVE 0 < a
    <3>1. a \in Nat
      BY <2>2, HoldsEntry
    <3>2. a # 0
      BY <1>5, <2>2
    <3>3. QED
      BY <3>1, <3>2
  <2>3. Searched(t, d, 0) = NotFound
    BY <2>2, NothingRead
  <2>4. QED
    BY <1>3, <2>1, <2>3 DEF NotFound
<1>6. g.value = Searched(t, d, 0).value
  BY <1>4, <1>5
<1>7. QED
  BY <1>3, <1>6 DEF g

-----------------------------------------------------------------------------
(* The next change.                                                        *)

(* Without a next entry in its chunk the entries after it are in others.   *)
LEMMA NoneAhead ==
    ASSUME NEW t, Kept(t), NEW d \in Phases, NEW h, Placed(t, d, h), ~HasNextEntry(t, d, h),
           NEW a, NEW w, Holds(t, d, a, w), h.at < a
    PROVE  a \div CHUNK \in Nat /\ h.chunk < a \div CHUNK
<1> DEFINE es == EntriesOf(t, d, h.chunk)
<1>1. h.chunk \in Nat /\ h.entry \in Nat /\ ~(h.entry < Len(es))
  BY DEF Placed, HandlerType, HasNextEntry
<1>2. /\ a \div CHUNK \in Nat /\ h.chunk <= a \div CHUNK
      /\ a \div CHUNK = h.chunk => \E i \in DOMAIN es : h.entry < i
  BY EntryAhead
<1>3. DOMAIN es = 1 .. Len(es) /\ Len(es) \in Nat
  BY <1>1, ChunkEntries
<1> HIDE DEF es
<1>4. a \div CHUNK # h.chunk
  BY <1>1, <1>2, <1>3
<1>5. QED
  BY <1>1, <1>2, <1>4

(* A chunk passed over, that brings nothing else than the value brought.   *)
LEMMA PassedOver ==
    ASSUME NEW t, Kept(t), NEW d \in Phases, NEW k \in Nat, NEW v \in Stored,
           ActualValue(t, d, AtChunk(k, v)).value = v,
           ~HasNextEntry(t, d, ActualValue(t, d, AtChunk(k, v))),
           NEW a, NEW w, Holds(t, d, a, w), a \div CHUNK = k
    PROVE  w = v
<1>1. PICK g : g = ActualValue(t, d, AtChunk(k, v))
  OBVIOUS
<1>2. /\ Placed(t, d, g) /\ g.at = Start(k) /\ g.chunk = k
      /\ \A u \in Stored : Holds(t, d, g.at, u) => g.value = u
  BY <1>1, Arrives
<1>3. a \in Nat /\ w \in Stored
  BY HoldsEntry
<1>4. ~(g.at < a)
  <2>1. ~HasNextEntry(t, d, g)
    BY <1>1
  <2>2. g.at < a => g.chunk < a \div CHUNK
    BY <1>2, <2>1, NoneAhead
  <2>3. ~(k < k)
    OBVIOUS
  <2>4. QED
    BY <1>2, <2>2, <2>3
<1>5. Start(k) <= a /\ Start(k) \in Nat
  BY <1>3, Cut
<1>6. a = g.at
  BY <1>2, <1>3, <1>4, <1>5
<1>7. QED
  BY <1>1, <1>2, <1>3, <1>6

LEMMA Smallest ==
    ASSUME NEW T \in SUBSET Nat, T # {}
    PROVE  Min(T) \in T /\ \A y \in T : Min(T) <= y
<1>1. \E x \in T : \A y \in T : x <= y
  BY Least
<1>2. QED
  BY <1>1 DEF Min

Over(h) == h.at = BIGGEST_CYCLE

(* From h to g nothing else is said than h did, and g is where something   *)
(* is, or there is nothing more.                                           *)
Skips(t, d, h, g) ==
    \/ /\ Over(g) /\ g \in HandlerType /\ g.value = h.value
       /\ \A a \in Int, v \in Stored : Holds(t, d, a, v) /\ h.at < a => v = h.value
    \/ /\ Placed(t, d, g) /\ h.at < g.at /\ Holds(t, d, g.at, g.value)
       /\ \A a \in Int, v \in Stored : Holds(t, d, a, v) /\ h.at < a /\ a < g.at => v = h.value

LEMMA BiggestType == BIGGEST_CYCLE \in Nat /\ MAXCYCLES < BIGGEST_CYCLE
BY Sizes DEF BIGGEST_CYCLE

LEMMA VisitType ==
    ASSUME NEW t, Kept(t)
    PROVE  /\ LastToVisit(t) \in Nat
           /\ \A d \in Phases : \A a, w : Holds(t, d, a, w) => a \div CHUNK < LastToVisit(t)
<1>1. t.lastCycle \in Nat
  BY KeptTypes
<1>2. t.lastCycle \div CHUNK \in Nat
  BY <1>1, InChunkOf
<1>3. LastToVisit(t) \in Nat
  BY <1>2 DEF LastToVisit
<1>4. ASSUME NEW d \in Phases, NEW a, NEW w, Holds(t, d, a, w) PROVE a \div CHUNK < LastToVisit(t)
  <2>1. a \in Nat /\ a <= t.lastCycle /\ a \div CHUNK \in Nat
    BY <1>4, HoldsEntry
  <2>2. a \div CHUNK <= t.lastCycle \div CHUNK
    BY <1>1, <2>1, ChunkMonotone
  <2>3. QED
    BY <1>2, <2>1, <2>2 DEF LastToVisit
<1>5. QED
  BY <1>3, <1>4

Arrival(t, d, h, k) == ActualValue(t, d, AtChunk(k, h.value))

(* The chunks a handler does not pass over.                                *)
Stops(t, d, h, noise) ==
    {k \in h.chunk + 1 .. LastToVisit(t) :
        \/ Differs(Arrival(t, d, h, k), h.value, noise)
        \/ HasNextEntry(t, d, Arrival(t, d, h, k))}

LEMMA SkipMoves ==
    ASSUME NEW t, Kept(t), NEW d \in Phases, NEW h, Placed(t, d, h), NEW noise
    PROVE  Skips(t, d, h, Skip(t, d, h, noise))
<1> SUFFICES ASSUME NEW S, S = Stops(t, d, h, noise), NEW m, m = Arrival(t, d, h, Min(S)),
                    NEW g, g = Skip(t, d, h, noise)
             PROVE  Skips(t, d, h, g)
  OBVIOUS
<1>0. S = Stops(t, d, h, noise) /\ m = Arrival(t, d, h, Min(S))
  OBVIOUS
<1>1. h \in HandlerType /\ h.at \in Nat /\ h.chunk \in Nat /\ h.value \in Stored
      /\ h.chunk = h.at \div CHUNK
  BY DEF Placed, HandlerType
<1>2. /\ HasNextEntry(t, d, h) => g = NextEntry(t, d, h)
      /\ ~HasNextEntry(t, d, h) /\ S = {} =>
             g = [h EXCEPT !.at = BIGGEST_CYCLE, !.chunk = LastToVisit(t) + 1]
      /\ ~HasNextEntry(t, d, h) /\ S # {} =>
             g = IF Differs(m, h.value, noise) THEN m ELSE NextEntry(t, d, m)
  <2> DEFINE N == HasNextEntry(t, d, h)
             x == NextEntry(t, d, h)
             y == [h EXCEPT !.at = BIGGEST_CYCLE, !.chunk = LastToVisit(t) + 1]
             z == IF Differs(m, h.value, noise) THEN m ELSE NextEntry(t, d, m)
  <2>1. g = CASE N -> x [] ~N /\ S = {} -> y [] OTHER -> z
    BY Zenon DEF Skip, Stops, Arrival
  <2> HIDE DEF N, x, y, z
  <2>2. /\ N => g = x
        /\ ~N /\ S = {} => g = y
        /\ ~N /\ S # {} => g = z
    <3>1. CASE N
      BY <2>1, <3>1
    <3>2. CASE ~N /\ S = {}
      BY <2>1, <3>2
    <3>3. CASE ~N /\ S # {}
      BY <2>1, <3>3
    <3>4. QED
      BY <3>1, <3>2, <3>3
  <2>3. QED
    BY <2>2 DEF N, x, y, z
<1>3. LastToVisit(t) \in Nat
  BY VisitType
<1>4. S \in SUBSET Nat
  BY <1>0, <1>1, <1>3 DEF Stops
<1>5. \A k \in S : k \in Nat /\ h.chunk < k
  BY <1>0, <1>1, <1>3 DEF Stops
<1>6. CASE HasNextEntry(t, d, h)
  <2>1. /\ Placed(t, d, g) /\ h.at < g.at /\ Holds(t, d, g.at, g.value)
        /\ \A a \in Int, v \in Stored : Holds(t, d, a, v) /\ h.at < a => g.at <= a
    BY <1>2, <1>6, NextEntryPlaced
  <2>2. g.at \in Nat
    BY <2>1 DEF Placed, HandlerType
  <2>3. \A a \in Int : g.at <= a => ~(a < g.at)
    BY <2>2
  <2>4. QED
    BY <2>1, <2>3 DEF Skips
<1>7. ASSUME ~HasNextEntry(t, d, h), NEW a \in Int, NEW v \in Stored, Holds(t, d, a, v), h.at < a,
             a \div CHUNK \notin S
      PROVE  v = h.value
  <2>1. a \div CHUNK \in Nat /\ h.chunk < a \div CHUNK /\ a \div CHUNK < LastToVisit(t)
    BY <1>7, NoneAhead, VisitType
  <2>2. PICK k \in Nat : k = a \div CHUNK
    BY <2>1
  <2>3. k \in h.chunk + 1 .. LastToVisit(t)
    BY <1>1, <1>3, <2>1, <2>2
  <2>4. /\ ~Differs(Arrival(t, d, h, k), h.value, noise)
        /\ ~HasNextEntry(t, d, Arrival(t, d, h, k))
    BY <1>7, <2>2, <2>3, <1>0 DEF Stops
  <2>5. /\ ActualValue(t, d, AtChunk(k, h.value)).value = h.value
        /\ ~HasNextEntry(t, d, ActualValue(t, d, AtChunk(k, h.value)))
    BY <2>4 DEF Arrival, Differs
  <2>6. QED
    BY <1>1, <1>7, <2>2, <2>5, PassedOver
<1>8. CASE ~HasNextEntry(t, d, h) /\ S = {}
  <2>1. g = [h EXCEPT !.at = BIGGEST_CYCLE, !.chunk = LastToVisit(t) + 1]
    BY <1>2, <1>8
  <2>2. PICK n \in Nat : n = LastToVisit(t) + 1
    BY <1>3
  <2>3. g \in HandlerType /\ g.at = BIGGEST_CYCLE /\ g.value = h.value
    BY <1>1, <2>1, <2>2, BiggestType DEF HandlerType
  <2>4. \A a \in Int, v \in Stored : Holds(t, d, a, v) /\ h.at < a => v = h.value
    BY <1>7, <1>8
  <2>5. QED
    BY <2>3, <2>4 DEF Skips, Over
<1>9. CASE ~HasNextEntry(t, d, h) /\ S # {}
  <2>1. PICK k \in S : k = Min(S) /\ \A y \in S : k <= y
    BY <1>4, <1>9, Smallest
  <2>2. PICK f : f = Arrival(t, d, h, k) /\ f = m
    BY <1>0, <2>1
  <2>3. k \in Nat /\ h.chunk < k
    BY <1>5
  <2>4. /\ Placed(t, d, f) /\ f.at = Start(k) /\ f.chunk = k /\ f.entry \in Nat
        /\ f.entry = 0 => f.value = h.value
        /\ f.entry # 0 => Holds(t, d, f.at, f.value)
        /\ \A w \in Stored : Holds(t, d, f.at, w) => f.value = w
    <3>1. f = ActualValue(t, d, AtChunk(k, h.value))
      BY <2>2 DEF Arrival
    <3>2. /\ Placed(t, d, f) /\ f.at = Start(k) /\ f.chunk = k
          /\ f.entry = 0 => f.value = h.value
          /\ f.entry # 0 => Holds(t, d, f.at, f.value)
          /\ \A w \in Stored : Holds(t, d, f.at, w) => f.value = w
      BY <1>1, <2>3, <3>1, Arrives
    <3>3. QED
      BY <3>2 DEF Placed, HandlerType
  <2>5. h.at < f.at /\ f.at \in Nat
    <3>1. h.at = Start(h.chunk) + (h.at % CHUNK) /\ h.at % CHUNK \in 0 .. CHUNK - 1
          /\ Start(h.chunk) \in Nat /\ h.at % CHUNK \in Nat
      BY <1>1, Cut
    <3>2. Start(h.chunk) + CHUNK <= Start(k) /\ Start(k) \in Nat
      BY <1>1, <2>3, Starts
    <3>3. h.at % CHUNK < CHUNK
      <4> DEFINE r == h.at % CHUNK
      <4>1. r \in 0 .. CHUNK - 1
        BY <3>1
      <4> HIDE DEF r
      <4>2. r < CHUNK
        BY <4>1, Sizes
      <4>3. QED
        BY <4>2 DEF r
    <3>4. QED
      BY <1>1, <2>4, <3>1, <3>2, <3>3, Sizes
  <2>6. ASSUME NEW a \in Int, NEW v \in Stored, Holds(t, d, a, v), h.at < a, a < f.at
        PROVE  v = h.value
    <3>1. a \in Nat /\ a \div CHUNK \in Nat
      BY <2>6, HoldsEntry
    <3>2. a \div CHUNK # k
      <4>1. a = Start(a \div CHUNK) + (a % CHUNK) /\ a % CHUNK \in Nat /\ Start(k) \in Nat
        BY <2>3, <3>1, Cut, Starts
      <4>2. QED
        BY <2>4, <2>6, <3>1, <4>1
    <3>3. a \div CHUNK <= k
      <4>1. f.at \div CHUNK = k
        BY <2>4 DEF Placed
      <4>2. a <= f.at
        BY <2>5, <2>6
      <4>3. QED
        BY <2>5, <3>1, <4>1, <4>2, ChunkMonotone
    <3>4. ~(k <= a \div CHUNK)
      BY <2>3, <3>1, <3>2, <3>3
    <3>5. a \div CHUNK \notin S
      BY <2>1, <3>4
    <3>6. QED
      BY <1>7, <1>9, <2>6, <3>5
  <2>7. CASE Differs(f, h.value, noise)
    <3>1. g = f
      BY <1>2, <1>9, <2>1, <2>2, <2>7
    <3>2. f.entry # 0
      BY <2>4, <2>7 DEF Differs
    <3>3. QED
      BY <2>4, <2>5, <2>6, <3>1, <3>2 DEF Skips
  <2>8. CASE ~Differs(f, h.value, noise)
    <3>1. g = NextEntry(t, d, f)
      BY <1>2, <1>9, <2>1, <2>2, <2>8
    <3>2. HasNextEntry(t, d, f) /\ f.value = h.value
      BY <1>0, <2>1, <2>2, <2>8 DEF Stops, Differs
    <3>3. /\ Placed(t, d, g) /\ f.at < g.at /\ Holds(t, d, g.at, g.value)
          /\ \A a \in Int, v \in Stored : Holds(t, d, a, v) /\ f.at < a => g.at <= a
      BY <2>4, <3>1, <3>2, NextEntryPlaced
    <3>4. g.at \in Nat
      BY <3>3 DEF Placed, HandlerType
    <3>5. ASSUME NEW a \in Int, NEW v \in Stored, Holds(t, d, a, v), h.at < a, a < g.at
          PROVE  v = h.value
      <4>1. CASE a < f.at
        BY <2>6, <3>5, <4>1
      <4>2. CASE a = f.at
        BY <2>4, <3>2, <3>5, <4>2
      <4>3. CASE f.at < a
        BY <3>3, <3>4, <3>5, <4>3
      <4>4. QED
        BY <2>5, <4>1, <4>2, <4>3
    <3>6. h.at < g.at
      BY <1>1, <2>5, <3>3, <3>4
    <3>7. QED
      BY <3>3, <3>5, <3>6 DEF Skips
  <2>9. QED
    BY <2>7, <2>8
<1>10. QED
  BY <1>6, <1>8, <1>9

(* Up to the next change the tag has the value the handler has.            *)
LEMMA SkipSteady ==
    ASSUME NEW t, Kept(t), NEW d \in Phases, NEW h, h.at \in Nat,
           h.value = Searched(t, d, h.at).value, NEW g, Skips(t, d, h, g),
           NEW c \in Int, h.at <= c, ~Over(g) => c < g.at
    PROVE  Searched(t, d, c).value = h.value
<1>1. ASSUME NEW a \in Int, NEW v \in Stored, Holds(t, d, a, v), h.at < a, a <= c PROVE v = h.value
  <2>1. CASE Over(g) /\ \A b \in Int, w \in Stored : Holds(t, d, b, w) /\ h.at < b => w = h.value
    BY <1>1, <2>1
  <2>2. CASE /\ Placed(t, d, g)
             /\ \A b \in Int, w \in Stored : Holds(t, d, b, w) /\ h.at < b /\ b < g.at => w = h.value
             /\ ~Over(g)
    <3>1. g.at \in Nat
      BY <2>2 DEF Placed, HandlerType
    <3>2. a < g.at
      BY <1>1, <2>2, <3>1
    <3>3. QED
      BY <1>1, <2>2, <3>2
  <2>3. CASE Placed(t, d, g) /\ Holds(t, d, g.at, g.value) /\ Over(g)
    <3>1. g.at \in Nat /\ g.at < MAXCYCLES
      BY <2>3, HoldsEntry
    <3>2. FALSE
      BY <2>3, <3>1, BiggestType, Sizes DEF Over
    <3>3. QED
      BY <3>2
  <2>4. QED
    BY <2>1, <2>2, <2>3 DEF Skips
<1>2. h.at \in Int
  OBVIOUS
<1>3. QED
  BY <1>1, <1>2, SteadyRead

-----------------------------------------------------------------------------
(* Handlers moved again and again.                                         *)

LEMMA Counting ==
    ASSUME NEW T, 0 \in T, \A n \in Nat : n \in T => n + 1 \in T
    PROVE  \A n \in Nat : n \in T
<1> DEFINE U == {n \in Nat : n \notin T}
<1>1. SUFFICES ASSUME U # {} PROVE FALSE
  OBVIOUS
<1>2. PICK n \in U : \A y \in U : n <= y
  <2>1. U \in SUBSET Nat
    OBVIOUS
  <2> HIDE DEF U
  <2>2. QED
    BY <1>1, <2>1, Least
<1>3. n # 0
  OBVIOUS
<1>4. n - 1 \in Nat /\ n - 1 \notin U
  BY <1>2, <1>3
<1>5. (n - 1) + 1 \in T
  BY <1>4
<1>6. QED
  BY <1>2, <1>5

(* g takes the steps of f from x on, in the set S.                         *)
Iterates(S, x, f, m, g) ==
    g \in [0 .. m -> S] /\ \A n \in 0 .. m : g[n] = IF n = 0 THEN x ELSE f[g[n - 1]]

(* A function that takes the steps of another one exists.                  *)
LEMMA Iterated ==
    ASSUME NEW S, NEW x \in S, NEW f \in [S -> S], NEW m \in Nat
    PROVE  \E g : Iterates(S, x, f, m, g)
<1> DEFINE T == {k \in Nat : \E g \in [0 .. k -> S] :
                                 \A n \in 0 .. k : g[n] = IF n = 0 THEN x ELSE f[g[n - 1]]}
<1>1. 0 \in T
  <2>1. PICK g : g = [n \in 0 .. 0 |-> x]
    OBVIOUS
  <2>2. g \in [0 .. 0 -> S] /\ \A n \in 0 .. 0 : g[n] = IF n = 0 THEN x ELSE f[g[n - 1]]
    BY <2>1
  <2>3. QED
    BY <2>2
<1>2. ASSUME NEW k \in Nat, k \in T PROVE k + 1 \in T
  <2>1. PICK g \in [0 .. k -> S] : \A n \in 0 .. k : g[n] = IF n = 0 THEN x ELSE f[g[n - 1]]
    BY <1>2
  <2>2. k \in 0 .. k
    OBVIOUS
  <2>3. f[g[k]] \in S
    BY <2>1, <2>2
  <2>4. PICK y \in S : y = f[g[k]]
    BY <2>3
  <2>5. PICK e : e = [n \in 0 .. k + 1 |-> IF n <= k THEN g[n] ELSE y]
    OBVIOUS
  <2>6. \A n \in 0 .. k + 1 : n \in 0 .. k \/ (n = k + 1 /\ ~(n <= k) /\ n # 0 /\ n - 1 = k)
    OBVIOUS
  <2>7. \A n \in 0 .. k : n <= k /\ n \in 0 .. k + 1
    OBVIOUS
  <2>8. \A n \in 0 .. k : e[n] = g[n]
    BY <2>5, <2>7
  <2>9. e[k + 1] = y
    BY <2>5, <2>6
  <2>10. e \in [0 .. k + 1 -> S]
    BY <2>1, <2>5, <2>6, <2>7
  <2>11. ASSUME NEW n \in 0 .. k + 1 PROVE e[n] = IF n = 0 THEN x ELSE f[e[n - 1]]
    <3>1. CASE n = k + 1
      <4>1. n # 0 /\ n - 1 = k
        BY <3>1
      <4>2. QED
        BY <2>2, <2>4, <2>8, <2>9, <3>1, <4>1
    <3>2. CASE n \in 0 .. k /\ n = 0
      BY <2>1, <2>8, <3>2
    <3>3. CASE n \in 0 .. k /\ n # 0
      <4>1. n - 1 \in 0 .. k
        BY <3>3
      <4>2. QED
        BY <2>1, <2>8, <3>3, <4>1
    <3>4. QED
      BY <2>6, <3>1, <3>2, <3>3
  <2>12. QED
    BY <2>10, <2>11
<1>3. m \in T
  <2> HIDE DEF T
  <2>1. QED
    BY <1>1, <1>2, Counting
<1>4. QED
  BY <1>3 DEF Iterates

(* A handler that has the value of its cycle.                              *)
Right(t, d, h) == Placed(t, d, h) /\ h.value = Searched(t, d, h.at).value

(* h goes over the cycles up to m.                                         *)
WalkUpto(t, d, m, h) ==
    h = [c \in 0 .. m |-> IF c = 0 THEN rewindToFirstCycle(t, d) ELSE nextCycle(t, d, h[c - 1])]

LEMMA WalkExists ==
    ASSUME NEW t, Kept(t), NEW d \in Phases, NEW m \in Nat
    PROVE  \E h : WalkUpto(t, d, m, h)
<1>1. PICK S : S = {h \in HandlerType : Right(t, d, h)}
  OBVIOUS
<1>2. \A h \in S : nextCycle(t, d, h) \in S
  <2>1. SUFFICES ASSUME NEW h \in S PROVE nextCycle(t, d, h) \in S
    OBVIOUS
  <2>2. PICK g : g = nextCycle(t, d, h)
    OBVIOUS
  <2>3. Placed(t, d, g) /\ g.at = h.at + 1 /\ g.value = Searched(t, d, g.at).value
    BY <1>1, <2>2, NextCyclePlaced DEF Right
  <2>4. QED
    BY <1>1, <2>2, <2>3 DEF Right, Placed
<1>3. PICK x \in S : x = rewindToFirstCycle(t, d)
  <2>1. PICK g : g = rewindToFirstCycle(t, d)
    OBVIOUS
  <2>2. Placed(t, d, g) /\ g.at = 0 /\ g.value = Searched(t, d, 0).value
    BY <2>1, RewoundPlaced
  <2>3. QED
    BY <1>1, <2>1, <2>2 DEF Right, Placed
<1>4. PICK f \in [S -> S] : \A h \in S : f[h] = nextCycle(t, d, h)
  <2>1. [h \in S |-> nextCycle(t, d, h)] \in [S -> S]
    BY <1>2
  <2>2. QED
    BY <2>1
<1>5. PICK h \in [0 .. m -> S] : \A n \in 0 .. m : h[n] = IF n = 0 THEN x ELSE f[h[n - 1]]
  <2>1. \E g : Iterates(S, x, f, m, g)
    BY Iterated
  <2>2. QED
    BY <2>1 DEF Iterates
<1>6. ASSUME NEW n \in 0 .. m
      PROVE  h[n] = IF n = 0 THEN rewindToFirstCycle(t, d) ELSE nextCycle(t, d, h[n - 1])
  <2>1. CASE n = 0
    BY <1>3, <1>5, <2>1
  <2>2. CASE n # 0
    <3>1. n - 1 \in 0 .. m
      BY <2>2
    <3>2. h[n - 1] \in S
      BY <3>1
    <3>3. QED
      BY <1>4, <1>5, <2>2, <3>2
  <2>3. QED
    BY <2>1, <2>2
<1>7. WalkUpto(t, d, m, h)
  <2>1. h = [n \in 0 .. m |-> h[n]]
    OBVIOUS
  <2>2. QED
    BY <1>6, <2>1 DEF WalkUpto
<1>8. QED
  BY <1>7

LEMMA WalkRight ==
    ASSUME NEW t, Kept(t), NEW d \in Phases, NEW m \in Nat, NEW h, WalkUpto(t, d, m, h)
    PROVE  \A c \in 0 .. m : Right(t, d, h[c]) /\ h[c].at = c
<1>1. \A c \in 0 .. m : h[c] = IF c = 0 THEN rewindToFirstCycle(t, d)
                               ELSE nextCycle(t, d, h[c - 1])
  BY DEF WalkUpto
<1> DEFINE T == {c \in Nat : c <= m => Right(t, d, h[c]) /\ h[c].at = c}
<1>2. 0 \in T
  <2>1. h[0] = rewindToFirstCycle(t, d)
    BY <1>1
  <2>2. Placed(t, d, h[0]) /\ h[0].at = 0 /\ h[0].value = Searched(t, d, 0).value
    BY <2>1, RewoundPlaced
  <2>3. QED
    BY <2>2 DEF Right
<1>3. ASSUME NEW c \in Nat, c \in T PROVE c + 1 \in T
  <2>1. SUFFICES ASSUME c + 1 <= m PROVE Right(t, d, h[c + 1]) /\ h[c + 1].at = c + 1
    OBVIOUS
  <2>2. c <= m /\ c + 1 \in 0 .. m /\ c + 1 # 0 /\ (c + 1) - 1 = c
    BY <2>1
  <2>3. h[c + 1] = nextCycle(t, d, h[c])
    BY <1>1, <2>2
  <2>4. Placed(t, d, h[c]) /\ h[c].value = Searched(t, d, h[c].at).value /\ h[c].at = c
    BY <1>3, <2>2 DEF Right
  <2>5. PICK e, g : e = h[c] /\ g = nextCycle(t, d, e)
    OBVIOUS
  <2>6. Placed(t, d, g) /\ g.at = e.at + 1 /\ g.value = Searched(t, d, g.at).value
    BY <2>4, <2>5, NextCyclePlaced
  <2>7. QED
    BY <2>3, <2>4, <2>5, <2>6 DEF Right
<1> HIDE DEF T
<1>4. \A c \in Nat : c \in T
  BY <1>2, <1>3, Counting
<1>5. QED
  BY <1>4 DEF T

LEMMA AsksType == Asks = 0 .. MaxCycle + 1 /\ MaxCycle + 1 \in Nat
BY Sizes DEF Asks

LEMMA WalkAnswers ==
    ASSUME Kept(tag), use.fwd
    PROVE  WalkReads(Searches)
<1>1. \A d \in Phases, c \in Asks : Searches[d][c] = Searched(tag, d, c).value
  <2>1. \A d \in Phases, c \in Asks : internalGetTagValue(tag, d, c) = Searched(tag, d, c)
    BY SearchedFwd
  <2>2. QED
    BY <2>1 DEF Searches
<1>2. ASSUME NEW d \in Phases PROVE \A c \in Asks : Walk(d)[c].value = Searches[d][c]
  <2>1. PICK h : h = CHOOSE g : WalkUpto(tag, d, MaxCycle + 1, g)
    OBVIOUS
  <2>2. Walk(d) = h
    BY <2>1 DEF Walk, WalkUpto, Asks
  <2>3. WalkUpto(tag, d, MaxCycle + 1, h)
    BY <2>1, AsksType, WalkExists
  <2>4. \A c \in 0 .. MaxCycle + 1 : Right(tag, d, h[c]) /\ h[c].at = c
    BY <2>3, AsksType, WalkRight
  <2>5. QED
    BY <1>1, <2>2, <2>4 DEF Right, Asks
<1>3. QED
  BY <1>2 DEF WalkReads

-----------------------------------------------------------------------------
(* The search for the next defined cycle.                                  *)

(* A value appears or changes at cycle x.                                  *)
Fresh(t, d, x) ==
    /\ Searched(t, d, x).value # NONE
    /\ x > 0 => Searched(t, d, x).value # Searched(t, d, x - 1).value

LEMMA FreshHolds ==
    ASSUME NEW t, Kept(t), NEW d \in Phases, NEW x \in Nat, Fresh(t, d, x)
    PROVE  Holds(t, d, x, Searched(t, d, x).value) /\ x < MAXCYCLES
<1>1. \E v \in Stored : Holds(t, d, x, v)
  <2>1. CASE x = 0
    <3>1. PICK r : r = Searched(t, d, x)
      OBVIOUS
    <3>2. r.at \in Int /\ r.at <= x /\ r.value \in Stored /\ Holds(t, d, r.at, r.value)
      BY <3>1, SearchedAt DEF Fresh
    <3>3. r.at \in Nat
      BY <3>2, HoldsEntry
    <3>4. r.at = x
      BY <2>1, <3>2, <3>3
    <3>5. QED
      BY <3>2, <3>4
  <2>2. CASE x > 0
    <3>1. SUFFICES ASSUME ~\E v \in Stored : Holds(t, d, x, v) PROVE FALSE
      OBVIOUS
    <3>2. x - 1 \in Int /\ x \in Int /\ x - 1 <= x
      OBVIOUS
    <3>3. \A a \in Int : x - 1 < a /\ a <= x => a = x
      OBVIOUS
    <3>4. Searched(t, d, x).value = Searched(t, d, x - 1).value
      BY <3>1, <3>2, <3>3, SteadyRead
    <3>5. QED
      BY <2>2, <3>4 DEF Fresh
  <2>3. QED
    BY <2>1, <2>2
<1>2. QED
  BY <1>1, HeldRead, HoldsEntry

(* A handler at the cycle of an entry has its value.                       *)
LEMMA PlacedHeld ==
    ASSUME NEW t, Kept(t), NEW d \in Phases, NEW h, Placed(t, d, h), NEW v, Holds(t, d, h.at, v)
    PROVE  h.value = v
<1> DEFINE es == EntriesOf(t, d, h.chunk)
<1>1. /\ h.chunk \in Nat /\ h.entry \in Nat /\ h.at \in Nat /\ h.chunk = h.at \div CHUNK
      /\ \A i \in DOMAIN es : i <= h.entry <=> es[i].offset <= h.at % CHUNK
  BY DEF Placed, HandlerType
<1>2. h.at % CHUNK \in Nat /\ \E i \in DOMAIN es : es[i].offset = h.at % CHUNK
  BY <1>1, HoldsEntry
<1>3. DOMAIN es = 1 .. Len(es) /\ Len(es) \in Nat
  BY <1>1, ChunkEntries
<1> HIDE DEF es
<1>4. h.entry > 0
  <2>1. PICK i \in DOMAIN es : es[i].offset = h.at % CHUNK
    BY <1>2
  <2>2. i <= h.entry
    BY <1>1, <1>2, <2>1
  <2>3. QED
    BY <1>1, <1>3, <2>2
<1>5. QED
  BY <1>4, HeldRead, PlacedReads

(* A handler on its way: past the end, or where its value is.              *)
Looking(t, d, h) ==
    /\ h \in HandlerType
    /\ Over(h) \/ (Placed(t, d, h) /\ (h.value # NONE => Holds(t, d, h.at, h.value)))

(* Nothing fresh from cycle c on was passed over.                          *)
NoneMissed(t, d, c, h) == \A x \in Nat : Fresh(t, d, x) /\ c <= x => h.at <= x

LEMMA SoughtOn ==
    ASSUME NEW t, Kept(t), NEW d \in Phases, NEW c \in Nat, NEW noise, NEW h,
           Looking(t, d, h), NoneMissed(t, d, c, h), ~IsFound(h, c), ~Over(h),
           NEW g, g = Skip(t, d, h, noise)
    PROVE  /\ Looking(t, d, g) /\ NoneMissed(t, d, c, g)
           /\ Over(g) \/ (h.at < g.at /\ Holds(t, d, g.at, g.value))
<1>1. Placed(t, d, h) /\ h.at \in Nat /\ (h.value # NONE => Holds(t, d, h.at, h.value))
  BY DEF Looking, HandlerType
<1>2. Skips(t, d, h, g)
  BY <1>1, SkipMoves
<1>3. Over(g) \/ (h.at < g.at /\ Holds(t, d, g.at, g.value))
  BY <1>2 DEF Skips
<1>4. Looking(t, d, g) /\ g.at \in Nat
  BY <1>2 DEF Looking, Skips, HandlerType, Placed
<1>5. ASSUME NEW x \in Nat, Fresh(t, d, x), c <= x, ~(g.at <= x) PROVE FALSE
  <2>1. PICK v : v = Searched(t, d, x).value /\ Holds(t, d, x, v) /\ v # NONE /\ v \in Stored
    BY <1>5, FreshHolds, HoldsEntry DEF Fresh
  <2>2. h.at <= x /\ x < g.at
    BY <1>4, <1>5 DEF NoneMissed
  <2>3. h.at # x
    <3>1. SUFFICES ASSUME h.at = x PROVE FALSE
      OBVIOUS
    <3>2. h.value = v
      BY <1>1, <2>1, <3>1, PlacedHeld
    <3>3. QED
      BY <1>1, <1>5, <2>1, <3>1, <3>2 DEF IsFound
  <2>4. h.at < x /\ x \in Int /\ x > 0 /\ h.at <= x - 1 /\ x - 1 < g.at /\ x - 1 \in Int
    BY <1>1, <1>4, <2>2, <2>3
  <2>5. v = h.value
    BY <1>2, <2>1, <2>2, <2>4 DEF Skips
  <2>6. h.value = Searched(t, d, h.at).value
    BY <1>1, <2>1, <2>5, HeldRead
  <2>7. Searched(t, d, x - 1).value = h.value
    BY <1>1, <1>2, <2>4, <2>6, SkipSteady
  <2>8. QED
    BY <1>5, <2>1, <2>4, <2>5, <2>7 DEF Fresh
<1>6. QED
  BY <1>3, <1>4, <1>5 DEF NoneMissed

(* The turns of the loop up to m.                                          *)
TurnsUpto(t, d, h, c, noise, m, after) ==
    after = [n \in 0 .. m |-> IF n = 0 THEN h ELSE Sought(t, d, after[n - 1], c, noise)]

Searching(t, d, c, h) == Looking(t, d, h) /\ NoneMissed(t, d, c, h)

LEMMA SoughtSearching ==
    ASSUME NEW t, Kept(t), NEW d \in Phases, NEW c \in Nat, NEW noise, NEW h,
           Searching(t, d, c, h), NEW g, g = Sought(t, d, h, c, noise)
    PROVE  /\ Searching(t, d, c, g)
           /\ IsFound(h, c) \/ Over(h) => g = h
           /\ ~IsFound(h, c) /\ ~Over(h) =>
                  Over(g) \/ (h.at < g.at /\ Holds(t, d, g.at, g.value))
<1>1. CASE IsFound(h, c) \/ Over(h)
  BY <1>1 DEF Sought, Over
<1>2. CASE ~(IsFound(h, c) \/ Over(h))
  <2>1. g = Skip(t, d, h, noise)
    BY <1>2 DEF Sought, Over
  <2>2. QED
    BY <1>2, <2>1, SoughtOn DEF Searching
<1>3. QED
  BY <1>1, <1>2

LEMMA TurnsExist ==
    ASSUME NEW t, Kept(t), NEW d \in Phases, NEW c \in Nat, NEW noise, NEW h,
           Searching(t, d, c, h), NEW m \in Nat
    PROVE  \E after : TurnsUpto(t, d, h, c, noise, m, after)
<1>1. PICK S : S = {g \in HandlerType : Searching(t, d, c, g)}
  OBVIOUS
<1>2. \A g \in S : Sought(t, d, g, c, noise) \in S
  <2>1. SUFFICES ASSUME NEW g \in S PROVE Sought(t, d, g, c, noise) \in S
    OBVIOUS
  <2>2. PICK e : e = Sought(t, d, g, c, noise)
    OBVIOUS
  <2>3. Searching(t, d, c, e)
    BY <1>1, <2>2, SoughtSearching
  <2>4. QED
    BY <1>1, <2>2, <2>3 DEF Searching, Looking
<1>3. PICK x \in S : x = h
  BY <1>1 DEF Searching, Looking
<1>4. PICK f \in [S -> S] : \A g \in S : f[g] = Sought(t, d, g, c, noise)
  <2>1. [g \in S |-> Sought(t, d, g, c, noise)] \in [S -> S]
    BY <1>2
  <2>2. QED
    BY <2>1
<1>5. PICK after \in [0 .. m -> S] :
               \A n \in 0 .. m : after[n] = IF n = 0 THEN x ELSE f[after[n - 1]]
  <2>1. \E g : Iterates(S, x, f, m, g)
    BY Iterated
  <2>2. QED
    BY <2>1 DEF Iterates
<1>6. ASSUME NEW n \in 0 .. m
      PROVE  after[n] = IF n = 0 THEN h ELSE Sought(t, d, after[n - 1], c, noise)
  <2>1. CASE n = 0
    BY <1>3, <1>5, <2>1
  <2>2. CASE n # 0
    <3>1. n - 1 \in 0 .. m
      BY <2>2
    <3>2. after[n - 1] \in S
      BY <3>1
    <3>3. QED
      BY <1>4, <1>5, <2>2, <3>2
  <2>3. QED
    BY <2>1, <2>2
<1>7. TurnsUpto(t, d, h, c, noise, m, after)
  <2>1. after = [n \in 0 .. m |-> after[n]]
    OBVIOUS
  <2>2. QED
    BY <1>6, <2>1 DEF TurnsUpto
<1>8. QED
  BY <1>7

(* Turn after turn the handler is on its way, and a cycle further.         *)
LEMMA TurnsSearch ==
    ASSUME NEW t, Kept(t), NEW d \in Phases, NEW c \in Nat, NEW noise, NEW h,
           Searching(t, d, c, h), NEW m \in Nat, NEW after, TurnsUpto(t, d, h, c, noise, m, after)
    PROVE  \A n \in 0 .. m : /\ Searching(t, d, c, after[n])
                             /\ \/ IsFound(after[n], c) \/ Over(after[n])
                                \/ /\ n <= after[n].at
                                   /\ n > 0 => Holds(t, d, after[n].at, after[n].value)
<1>1. \A n \in 0 .. m : after[n] = IF n = 0 THEN h ELSE Sought(t, d, after[n - 1], c, noise)
  BY DEF TurnsUpto
<1> DEFINE P(n) == /\ Searching(t, d, c, after[n])
                   /\ \/ IsFound(after[n], c) \/ Over(after[n])
                      \/ /\ n <= after[n].at
                         /\ n > 0 => Holds(t, d, after[n].at, after[n].value)
           T == {n \in Nat : n <= m => P(n)}
<1>2. 0 \in T
  <2>1. after[0] = h /\ h.at \in Nat
    <3>1. 0 \in 0 .. m
      OBVIOUS
    <3>2. QED
      BY <1>1, <3>1 DEF Searching, Looking, HandlerType
  <2>2. P(0)
    BY <2>1
  <2> HIDE DEF P
  <2>3. QED
    BY <2>2
<1>3. ASSUME NEW n \in Nat, n \in T PROVE n + 1 \in T
  <2>1. SUFFICES ASSUME n + 1 <= m PROVE P(n + 1)
    OBVIOUS
  <2>2. n <= m /\ n + 1 \in 0 .. m /\ n + 1 # 0 /\ (n + 1) - 1 = n
    BY <2>1
  <2>3. PICK e, g : e = after[n] /\ g = after[n + 1] /\ g = Sought(t, d, e, c, noise)
    BY <1>1, <2>2
  <2>4. /\ Searching(t, d, c, e)
        /\ IsFound(e, c) \/ Over(e) \/ n <= e.at
    BY <1>3, <2>2, <2>3
  <2>5. /\ Searching(t, d, c, g)
        /\ IsFound(e, c) \/ Over(e) => g = e
        /\ ~IsFound(e, c) /\ ~Over(e) => Over(g) \/ (e.at < g.at /\ Holds(t, d, g.at, g.value))
    BY <2>3, <2>4, SoughtSearching
  <2>6. e.at \in Nat /\ g.at \in Nat
    BY <2>4, <2>5 DEF Searching, Looking, HandlerType
  <2>7. IsFound(g, c) \/ Over(g) \/ (n + 1 <= g.at /\ Holds(t, d, g.at, g.value))
    BY <2>4, <2>5, <2>6
  <2>8. QED
    BY <2>3, <2>5, <2>7
<1> HIDE DEF T
<1>4. \A n \in Nat : n \in T
  BY <1>2, <1>3, Counting
<1>5. QED
  BY <1>4 DEF T

(* The loop ends where something is, having missed nothing.                *)
LEMMA SkipToFinds ==
    ASSUME NEW t, Kept(t), NEW d \in Phases, NEW c \in Nat, NEW noise, NEW h,
           Searching(t, d, c, h), NEW g, g = SkipTo(t, d, h, c, noise)
    PROVE  /\ Searching(t, d, c, g)
           /\ IsFound(g, c) \/ Over(g)
<1>1. MAXCYCLES \in Nat \ {0}
  BY Sizes
<1>2. PICK after : after = CHOOSE e : TurnsUpto(t, d, h, c, noise, MAXCYCLES, e)
  OBVIOUS
<1>3. g = after[MAXCYCLES]
  BY <1>2 DEF SkipTo, TurnsUpto
<1>4. TurnsUpto(t, d, h, c, noise, MAXCYCLES, after)
  BY <1>1, <1>2, TurnsExist
<1>5. PICK m \in Nat : m = MAXCYCLES /\ m > 0
  BY <1>1
<1>6. m \in 0 .. m
  OBVIOUS
<1>7. /\ Searching(t, d, c, g)
      /\ IsFound(g, c) \/ Over(g) \/ (m <= g.at /\ Holds(t, d, g.at, g.value))
  BY <1>3, <1>4, <1>5, <1>6, TurnsSearch
<1>8. Holds(t, d, g.at, g.value) => g.at \in Nat /\ g.at < m
  BY <1>5, HoldsEntry
<1>9. QED
  BY <1>5, <1>7, <1>8

LEMMA FindFinds ==
    ASSUME NEW t, Kept(t), NEW d \in Phases, NEW c \in Nat, NEW p, NEW noise,
           NEW h, h = skipToCycleDefined(t, d, c, p, noise)
    PROVE  /\ Asked(d, c, p) \in Nat
           /\ NoneMissed(t, d, Asked(d, c, p), h)
           /\ Over(h) \/ (Holds(t, d, h.at, h.value) /\ h.value # NONE /\ h.at >= Asked(d, c, p))
<1>1. PICK from \in Nat : from = Asked(d, c, p)
  BY DEF Asked
<1>2. PICK M : M = {j \in from \div CHUNK .. LastToVisit(t) : t.cycleVec[d][j] # NULL}
                       \cup {LastToVisit(t) + 1}
  OBVIOUS
<1>3. LastToVisit(t) \in Nat /\ from \div CHUNK \in Nat
  BY VisitType, InChunkOf
<1>4. M \in SUBSET Nat /\ M # {}
  BY <1>2, <1>3
<1>5. PICK k \in Nat : k = Min(M) /\ \A j \in M : k <= j
  BY <1>4, Smallest
<1>6. h = IF HasData(t, d) THEN SkipTo(t, d, ActualValue(t, d, AtChunk(k, NONE)), from, noise)
          ELSE [AtChunk(k, NONE) EXCEPT !.at = BIGGEST_CYCLE]
  BY <1>1, <1>2, <1>5 DEF skipToCycleDefined
<1>7. ASSUME NEW x \in Nat, Fresh(t, d, x), from <= x PROVE Start(k) <= x /\ HasData(t, d)
  <2>1. Holds(t, d, x, Searched(t, d, x).value)
    BY <1>7, FreshHolds
  <2>2. /\ x \div CHUNK \in Nat /\ x \div CHUNK \in Chunks /\ Vec(t, d, x \div CHUNK) # NULL
        /\ x \div CHUNK < LastToVisit(t)
    BY <2>1, HoldsEntry, VisitType
  <2>3. from \div CHUNK <= x \div CHUNK
    BY <1>7, ChunkMonotone
  <2>4. x \div CHUNK \in M
    <3>1. x \div CHUNK \in from \div CHUNK .. LastToVisit(t)
      BY <1>3, <2>2, <2>3
    <3>2. QED
      BY <1>2, <2>2, <3>1 DEF Vec
  <2>5. k <= x \div CHUNK
    BY <1>5, <2>4
  <2>6. Start(k) <= Start(x \div CHUNK)
    <3>1. PICK j \in Nat : j = x \div CHUNK
      BY <2>2
    <3>2. Start(k) \in Nat /\ Start(j) \in Nat /\ (k < j => Start(k) + CHUNK <= Start(j))
      BY <1>5, Starts
    <3>3. k = j \/ k < j
      BY <2>5, <3>1
    <3>4. QED
      BY <3>1, <3>2, <3>3, Sizes
  <2>7. x = Start(x \div CHUNK) + (x % CHUNK) /\ x % CHUNK \in Nat
        /\ Start(x \div CHUNK) \in Nat /\ Start(k) \in Nat
    BY Cut, Starts
  <2>8. HasData(t, d)
    BY <2>2 DEF HasData, Vec
  <2>9. QED
    BY <2>6, <2>7, <2>8
<1>8. CASE HasData(t, d)
  <2>1. PICK e : e = ActualValue(t, d, AtChunk(k, NONE))
    OBVIOUS
  <2>2. NONE \in Stored
    BY DEF Stored
  <2>3. /\ Placed(t, d, e) /\ e.at = Start(k) /\ (e.entry = 0 => e.value = NONE)
        /\ e.entry # 0 => Holds(t, d, e.at, e.value)
    BY <2>1, <2>2, Arrives
  <2>4. Looking(t, d, e)
    BY <2>3 DEF Looking, Placed
  <2>5. NoneMissed(t, d, from, e)
    BY <1>7, <2>3 DEF NoneMissed
  <2>6. Searching(t, d, from, h) /\ (IsFound(h, from) \/ Over(h))
    BY <1>6, <1>8, <2>1, <2>4, <2>5, SkipToFinds DEF Searching
  <2>7. QED
    BY <1>1, <2>6 DEF Searching, Looking, IsFound
<1>9. CASE ~HasData(t, d)
  <2>1. h = [AtChunk(k, NONE) EXCEPT !.at = BIGGEST_CYCLE]
    BY <1>6, <1>9
  <2>2. Over(h)
    BY <2>1 DEF Over, AtChunk
  <2>3. NoneMissed(t, d, from, h)
    BY <1>7, <1>9 DEF NoneMissed
  <2>4. QED
    BY <1>1, <2>2, <2>3
<1>10. QED
  BY <1>8, <1>9

-----------------------------------------------------------------------------
(* "Find", and what the phases of the tag say.                             *)

LEMMA SearchesAre ==
    ASSUME use.fwd, NEW d \in Phases, NEW c \in Asks
    PROVE  Searches[d][c] = Searched(tag, d, c).value
BY SearchedFwd DEF Searches

LEMMA HeldAsked ==
    ASSUME SInv, NEW d \in Phases, NEW a, NEW v, Holds(tag, d, a, v)
    PROVE  a \in Asks
<1>1. a \in Nat /\ v \in Stored
  BY HoldsEntry DEF SInv
<1>2. cycle \in Nat /\ cycle <= MaxCycle /\ MaxCycle \in Nat
  BY NowType, Sizes DEF SInv
<1>3. Reach \in [Phases -> Int] /\ Upto(tag, d, Reach[d])
  BY ReachType, HalvesUpto DEF SInv, IInv
<1>4. a <= Reach[d]
  BY <1>1, <1>3 DEF Upto
<1>5. Reach[d] <= cycle + 1
  BY <1>2 DEF Reach
<1>6. QED
  BY <1>1, <1>2, <1>3, <1>4, <1>5 DEF Asks

LEMMA FindAnswers == ASSUME SInv PROVE FindMissesNothing(Searches)
<1> SUFFICES ASSUME NEW d \in Phases, NEW noise \in Noises(tag), NEW c \in Asks, NEW p \in d .. 1
             PROVE  LET h == skipToCycleDefined(tag, d, c, p, noise)
                        NotBefore(x) == 2 * x + d >= 2 * c + p
                        fresh == {x \in Asks : Searches[d][x] # NONE
                                        /\ (x > 0 => Searches[d][x] # Searches[d][x - 1])}
                    IN  /\ \A x \in fresh : NotBefore(x) => h.at <= x
                        /\ h.at # BIGGEST_CYCLE =>
                               NotBefore(h.at) /\ h.value # NONE /\ h.value = Searches[d][h.at]
  BY Zenon DEF FindMissesNothing
<1>1. PICK h : h = skipToCycleDefined(tag, d, c, p, noise)
  OBVIOUS
<1>2. Kept(tag) /\ use.fwd /\ c \in Nat /\ d \in 0 .. 1 /\ p \in 0 .. 1
  BY Sizes DEF SInv, Asks, Phases
<1>3. /\ Asked(d, c, p) \in Nat
      /\ NoneMissed(tag, d, Asked(d, c, p), h)
      /\ Over(h) \/ (Holds(tag, d, h.at, h.value) /\ h.value # NONE /\ h.at >= Asked(d, c, p))
  BY <1>1, <1>2, FindFinds
<1>4. \A x \in Nat : 2 * x + d >= 2 * c + p <=> Asked(d, c, p) <= x
  BY <1>2 DEF Asked
<1>5. ASSUME NEW x \in Asks, Searches[d][x] # NONE, x > 0 => Searches[d][x] # Searches[d][x - 1],
             2 * x + d >= 2 * c + p
      PROVE  h.at <= x
  <2>1. x \in Nat /\ (x > 0 => x - 1 \in Asks)
    BY Sizes DEF Asks
  <2>2. Fresh(tag, d, x)
    BY <1>2, <1>5, <2>1, SearchesAre DEF Fresh
  <2>3. QED
    BY <1>3, <1>4, <1>5, <2>1, <2>2 DEF NoneMissed
<1>6. ASSUME h.at # BIGGEST_CYCLE
      PROVE  2 * h.at + d >= 2 * c + p /\ h.value # NONE /\ h.value = Searches[d][h.at]
  <2>1. Holds(tag, d, h.at, h.value) /\ h.value # NONE /\ h.at >= Asked(d, c, p)
    BY <1>3, <1>6 DEF Over
  <2>2. h.at \in Nat /\ h.at \in Asks
    BY <1>2, <2>1, HoldsEntry, HeldAsked
  <2>3. 2 * h.at + d >= 2 * c + p
    BY <1>3, <1>4, <2>1, <2>2
  <2>4. Searches[d][h.at] = h.value
    BY <1>2, <2>1, <2>2, SearchesAre, HeldRead
  <2>5. QED
    BY <2>1, <2>3, <2>4
<1>7. QED
  BY <1>1, <1>5, <1>6

LEMMA SInvHandlersAgree == SInv => HandlersAgree
<1>1. SInv => WalkReads(Searches) /\ FindMissesNothing(Searches)
  BY WalkAnswers, FindAnswers DEF SInv
<1>2. QED
  BY <1>1 DEF HandlersAgree

(* A handler that goes through a phase of a tag agrees, cycle by cycle and *)
(* where "find" takes it, with a search that starts from nothing, for      *)
(* chunks of any size and any trace (nextCycle, skipToCycleDefined,        *)
(* internalGetTagValue).                                                   *)
THEOREM HandlersAreSearches == Searchable /\ Spec => []HandlersAgree
BY SpecSInv, SInvHandlersAgree, PTL

-----------------------------------------------------------------------------
(* Two handlers.                                                           *)

DualType == [hs : [Phases -> HandlerType], actual : Phases]

(* Past the end, or with the value of its cycle.                           *)
Ready(t, d, h) == h \in HandlerType /\ (Over(h) \/ (Right(t, d, h) /\ h.at < MAXCYCLES))

TickAt(dual, d) == 2 * dual.hs[d].at + d

(* The one that is first is before the other one, and goes alone when the  *)
(* tag has no values in the other phase.                                   *)
DualOK(t, dual) ==
    /\ dual \in DualType /\ \A d \in Phases : Ready(t, d, dual.hs[d])
    /\ LET a == dual.actual
       IN  /\ Over(dual.hs[1 - a]) \/ TickAt(dual, a) < TickAt(dual, 1 - a)
           /\ \/ HasData(t, a) /\ HasData(t, 1 - a)
              \/ ~HasData(t, 1 - a) /\ Over(dual.hs[1 - a])

LEMMA OtherPhase == \A d \in Phases : d \in {0, 1} /\ 1 - d \in Phases /\ 1 - (1 - d) = d /\ 1 - d # d
BY DEF Phases

LEMMA SkipReady ==
    ASSUME NEW t, Kept(t), NEW d \in Phases, NEW noise, NEW h, Ready(t, d, h), ~Over(h),
           NEW g, g = Skip(t, d, h, noise)
    PROVE  Ready(t, d, g) /\ h.at < g.at
<1>1. Placed(t, d, h) /\ h.at \in Nat /\ h.at < MAXCYCLES /\ h.value = Searched(t, d, h.at).value
  BY DEF Ready, Right, HandlerType
<1>2. Skips(t, d, h, g)
  BY <1>1, SkipMoves
<1>3. CASE Over(g) /\ g \in HandlerType
  BY <1>1, <1>3, BiggestType, Sizes DEF Ready, Over
<1>4. CASE Placed(t, d, g) /\ h.at < g.at /\ Holds(t, d, g.at, g.value)
  BY <1>4, HoldsEntry, HeldRead DEF Ready, Right, Placed
<1>5. QED
  BY <1>2, <1>3, <1>4 DEF Skips

LEMMA DualSkipOn ==
    ASSUME NEW t, Kept(t), NEW noise, NEW dual, DualOK(t, dual), ~AtEnd(dual),
           NEW new, new = DualSkip(t, dual, noise)
    PROVE  DualOK(t, new) /\ Change(dual).tick < Change(new).tick
<1>1. PICK d \in Phases : d = dual.actual
  BY DEF DualOK, DualType
<1>2. PICK o \in Phases : o = 1 - d /\ d = 1 - o /\ o # d
  BY OtherPhase
<1>3. PICK h \in HandlerType : h = dual.hs[d]
  BY <1>1 DEF DualOK, DualType
<1>4. PICK e \in HandlerType : e = dual.hs[o]
  BY <1>2 DEF DualOK, DualType
<1>5. PICK g : g = Skip(t, d, h, noise)
  OBVIOUS
<1>6. Ready(t, d, h) /\ ~Over(h) /\ Ready(t, o, e)
  BY <1>1, <1>3, <1>4 DEF DualOK, AtEnd, Over
<1>7. Ready(t, d, g) /\ h.at < g.at /\ g \in HandlerType
  BY <1>5, <1>6, SkipReady DEF Ready
<1>8. PICK hs : hs = [dual.hs EXCEPT ![d] = g]
  OBVIOUS
<1>9. hs \in [Phases -> HandlerType] /\ hs[d] = g /\ hs[o] = e
  BY <1>1, <1>2, <1>4, <1>7, <1>8 DEF DualOK, DualType
<1>10. new = [hs |-> hs, actual |-> IF HasData(t, o) THEN Earliest(hs) ELSE d]
  BY <1>1, <1>2, <1>3, <1>5, <1>8 DEF DualSkip
<1>11. h.at \in Nat /\ e.at \in Nat /\ g.at \in Nat /\ h.at < MAXCYCLES
       /\ (Over(e) \/ e.at < MAXCYCLES) /\ (Over(g) \/ g.at < MAXCYCLES)
  BY <1>6, <1>7 DEF HandlerType, Ready
<1>12. MAXCYCLES < BIGGEST_CYCLE /\ MAXCYCLES \in Nat /\ BIGGEST_CYCLE \in Nat
  BY BiggestType, Sizes
<1>13. 2 * h.at + d < 2 * e.at + o
  <2>1. Over(e) \/ 2 * h.at + d < 2 * e.at + o
    BY <1>1, <1>2, <1>3, <1>4 DEF DualOK, TickAt
  <2>2. QED
    BY <1>11, <1>12, <2>1 DEF Over, Phases
<1>14. Change(dual).tick = 2 * h.at + d
  BY <1>1, <1>3 DEF Change
<1>15. \A q \in Phases : q = d \/ q = o
  BY <1>2 DEF Phases
<1>16. \A q \in Phases : Ready(t, q, hs[q])
  BY <1>6, <1>7, <1>9, <1>15
<1>17. CASE HasData(t, o)
  <2>1. HasData(t, d)
    BY <1>1, <1>2, <1>17 DEF DualOK
  <2>2. PICK a \in Phases : a = Earliest(hs)
    BY DEF Earliest, Phases
  <2>3. new = [hs |-> hs, actual |-> a]
    BY <1>10, <1>17, <2>2
  <2>4. a = IF hs[0].at <= hs[1].at THEN 0 ELSE 1
    BY <2>2 DEF Earliest
  <2>5. CASE d = 0
    <3>1. o = 1 /\ a = IF g.at <= e.at THEN 0 ELSE 1
      BY <1>2, <1>9, <2>4, <2>5
    <3>2. CASE g.at <= e.at
      <4>1. a = d /\ 1 - a = o /\ 2 * g.at + d < 2 * e.at + o /\ 2 * h.at + d < 2 * g.at + d
        BY <1>7, <1>11, <2>5, <3>1, <3>2
      <4>2. QED
        BY <1>9, <1>14, <1>16, <1>17, <2>1, <2>3, <4>1 DEF DualOK, DualType, TickAt, Change
    <3>3. CASE ~(g.at <= e.at)
      <4>1. a = o /\ 1 - a = d /\ 2 * e.at + o < 2 * g.at + d
        BY <1>11, <2>5, <3>1, <3>3
      <4>2. QED
        BY <1>9, <1>13, <1>14, <1>16, <1>17, <2>1, <2>3, <4>1 DEF DualOK, DualType, TickAt, Change
    <3>4. QED
      BY <3>2, <3>3
  <2>6. CASE d = 1
    <3>1. o = 0 /\ a = IF e.at <= g.at THEN 0 ELSE 1
      BY <1>2, <1>9, <2>4, <2>6
    <3>2. CASE e.at <= g.at
      <4>1. a = o /\ 1 - a = d /\ 2 * e.at + o < 2 * g.at + d
        BY <1>11, <2>6, <3>1, <3>2
      <4>2. QED
        BY <1>9, <1>13, <1>14, <1>16, <1>17, <2>1, <2>3, <4>1 DEF DualOK, DualType, TickAt, Change
    <3>3. CASE ~(e.at <= g.at)
      <4>1. a = d /\ 1 - a = o /\ 2 * g.at + d < 2 * e.at + o /\ 2 * h.at + d < 2 * g.at + d
        BY <1>7, <1>11, <2>6, <3>1, <3>3
      <4>2. QED
        BY <1>9, <1>14, <1>16, <1>17, <2>1, <2>3, <4>1 DEF DualOK, DualType, TickAt, Change
    <3>4. QED
      BY <3>2, <3>3
  <2>7. QED
    BY <2>5, <2>6, OtherPhase
<1>18. CASE ~HasData(t, o)
  <2>1. new = [hs |-> hs, actual |-> d]
    BY <1>10, <1>18
  <2>2. Over(e)
    BY <1>1, <1>2, <1>4, <1>18 DEF DualOK
  <2>3. 2 * h.at + d < 2 * g.at + d
    BY <1>7, <1>11 DEF Phases
  <2>4. QED
    BY <1>2, <1>9, <1>14, <1>16, <1>18, <2>1, <2>2, <2>3 DEF DualOK, DualType, Change
<1>19. QED
  BY <1>17, <1>18

(* Where the handlers begin.                                               *)
LEMMA InitialDual ==
    ASSUME NEW t, Kept(t), NEW noise, NEW dual, dual = initTagHandler(t, noise)
    PROVE  DualOK(t, dual) /\ dual.hs[dual.actual].at = 0
<1>1. PICK r \in [Phases -> HandlerType] : r = [d \in Phases |-> rewindToFirstCycle(t, d)]
  <2>1. \A d \in Phases : rewindToFirstCycle(t, d) \in HandlerType
    BY RewoundPlaced DEF Placed
  <2>2. QED
    BY <2>1
<1>2. MAXCYCLES \in Nat \ {0} /\ MAXCYCLES < BIGGEST_CYCLE /\ BIGGEST_CYCLE \in Nat
      /\ NONE \in Stored
  BY BiggestType, Sizes DEF Stored
<1>3. \A d \in Phases : r[d].at = 0 /\ Ready(t, d, r[d]) /\ ~Over(r[d])
  <2>1. SUFFICES ASSUME NEW d \in Phases PROVE r[d].at = 0 /\ Ready(t, d, r[d]) /\ ~Over(r[d])
    OBVIOUS
  <2>2. PICK g : g = rewindToFirstCycle(t, d)
    OBVIOUS
  <2>3. Placed(t, d, g) /\ g.at = 0 /\ g.value = Searched(t, d, 0).value
    BY <2>2, RewoundPlaced
  <2>4. r[d] = g
    BY <1>1, <2>2
  <2>5. QED
    BY <1>2, <2>3, <2>4 DEF Ready, Right, Over, Placed
<1>4. 0 \in Phases /\ 1 \in Phases /\ \A q \in Phases : q = 0 \/ q = 1
  BY DEF Phases
<1>5. CASE HasData(t, 0) /\ HasData(t, 1)
  <2> DEFINE low == r[0].value = NONE /\ r[1].value # NONE
             moves(d) == IF d = 0 THEN low ELSE r[1].value = NONE
  <2>1. dual = [hs |-> [d \in Phases |-> IF moves(d) THEN Skip(t, d, r[d], noise) ELSE r[d]],
                actual |-> IF low THEN 1 ELSE 0]
    BY <1>1, <1>5 DEF initTagHandler, DualRewound
  <2>2. PICK a \in Phases : a = IF low THEN 1 ELSE 0
    BY <1>4
  <2>3. PICK hs : hs = [d \in Phases |-> IF moves(d) THEN Skip(t, d, r[d], noise) ELSE r[d]]
    OBVIOUS
  <2>4. ~moves(a) /\ (moves(1 - a) \/ (a = 0 /\ ~moves(1)))
    BY <1>4, <2>2
  <2>5. \A d \in Phases : /\ moves(d) => Ready(t, d, hs[d]) /\ 0 < hs[d].at
                          /\ ~moves(d) => hs[d] = r[d]
    <3>1. SUFFICES ASSUME NEW d \in Phases
                   PROVE  /\ moves(d) => Ready(t, d, hs[d]) /\ 0 < hs[d].at
                          /\ ~moves(d) => hs[d] = r[d]
      OBVIOUS
    <3>2. CASE moves(d)
      <4>1. hs[d] = Skip(t, d, r[d], noise)
        BY <2>3, <3>2
      <4>2. PICK g, h : g = hs[d] /\ h = r[d] /\ Ready(t, d, h) /\ ~Over(h) /\ h.at = 0
        BY <1>3
      <4>3. Ready(t, d, g) /\ h.at < g.at
        BY <4>1, <4>2, SkipReady
      <4>4. QED
        BY <3>2, <4>2, <4>3
    <3>3. CASE ~moves(d)
      BY <2>3, <3>3
    <3>4. QED
      BY <3>2, <3>3
  <2>6. dual = [hs |-> hs, actual |-> a]
    BY <2>1, <2>2, <2>3
  <2> HIDE DEF moves, low
  <2>7. \A d \in Phases : Ready(t, d, hs[d])
    BY <1>3, <2>5
  <2>8. hs \in [Phases -> HandlerType]
    <3>1. hs = [d \in Phases |-> hs[d]]
      BY <2>3
    <3>2. \A d \in Phases : hs[d] \in HandlerType
      BY <2>7 DEF Ready
    <3>3. QED
      BY <3>1, <3>2
  <2>9. hs[a].at = 0 /\ 1 - a \in Phases /\ hs[1 - a].at \in Nat
    BY <1>3, <2>4, <2>5, <2>8, OtherPhase DEF HandlerType
  <2>10. 2 * hs[a].at + a < 2 * hs[1 - a].at + (1 - a)
    <3>1. CASE moves(1 - a)
      <4>1. PICK n \in Nat : n = hs[1 - a].at /\ 0 < n
        BY <2>5, <2>9, <3>1
      <4>2. QED
        BY <1>4, <2>9, <4>1
    <3>2. CASE a = 0
      BY <2>9, <3>2
    <3>3. QED
      BY <2>4, <3>1, <3>2
  <2>11. HasData(t, a) /\ HasData(t, 1 - a)
    BY <1>4, <1>5
  <2>12. QED
    BY <2>6, <2>7, <2>8, <2>9, <2>10, <2>11 DEF DualOK, DualType, TickAt
<1>6. CASE ~(HasData(t, 0) /\ HasData(t, 1))
  <2>1. PICK d \in Phases : d = IF HasData(t, 1) THEN 1 ELSE 0
    BY <1>4
  <2>2. PICK b \in HandlerType : b = [AtChunk(0, NONE) EXCEPT !.at = BIGGEST_CYCLE]
    BY <1>2 DEF HandlerType, AtChunk
  <2>3. Over(b) /\ \A q \in Phases : Ready(t, q, b)
    BY <1>2, <2>2 DEF Ready, Over, AtChunk
  <2>4. PICK hs : hs = [q \in Phases |-> IF q = d THEN r[d] ELSE b]
    OBVIOUS
  <2>5. dual = [hs |-> hs, actual |-> d]
    <3>1. dual = [hs |-> [q \in Phases |-> IF q = d THEN rewindToFirstCycle(t, d)
                                       ELSE [AtChunk(0, NONE) EXCEPT !.at = BIGGEST_CYCLE]],
                  actual |-> d]
      BY <1>6, <2>1 DEF initTagHandler
    <3>2. rewindToFirstCycle(t, d) = r[d]
      BY <1>1
    <3>3. QED
      BY <2>2, <2>4, <3>1, <3>2
  <2>6. hs \in [Phases -> HandlerType] /\ hs[d] = r[d] /\ hs[1 - d] = b /\ 1 - d \in Phases
    BY <2>4, OtherPhase
  <2>7. \A q \in Phases : Ready(t, q, hs[q])
    BY <1>3, <2>3, <2>4
  <2>8. ~HasData(t, 1 - d)
    BY <1>4, <1>6, <2>1
  <2>9. QED
    BY <1>3, <2>3, <2>5, <2>6, <2>7, <2>8 DEF DualOK, DualType
<1>7. QED
  BY <1>5, <1>6

-----------------------------------------------------------------------------
(* The changes of a tag.                                                   *)

FlipType == [tick : Nat, value : Stored]

(* What the tag has had from flip i until the next change.                 *)
Lasting(t, d, w, i) ==
    \A x \in Nat :
        /\ w.flips[i].tick <= x
        /\ x < IF i < Len(w.flips) THEN w.flips[i + 1].tick ELSE Change(w.dual).tick
        => w.flips[i].value = Searched(t, d, HalfCycle(d, x)).value

(* The flips a walk has taken go forward, from the tick it began at to the *)
(* one it is at, and are right; those of a tag with values in one phase    *)
(* are right until the next one.                                           *)
WalkOK(t, from, w) ==
    /\ w \in [dual : DualType, flips : Seq(FlipType)] /\ DualOK(t, w.dual)
    /\ \A i \in 1 .. Len(w.flips) : i < Len(w.flips) => w.flips[i].tick < w.flips[i + 1].tick
    /\ Len(w.flips) > 0 => w.flips[Len(w.flips)].tick < Change(w.dual).tick
    /\ \A i \in 1 .. Len(w.flips) :
          \E d \in Phases, a \in Nat : /\ w.flips[i].tick = 2 * a + d
                                       /\ w.flips[i].value = Searched(t, d, a).value
    /\ from = IF Len(w.flips) > 0 THEN w.flips[1].tick ELSE Change(w.dual).tick
    /\ \A d \in Phases : ~HasData(t, 1 - d) /\ w.dual.actual = d =>
          \A i \in 1 .. Len(w.flips) : Lasting(t, d, w, i)

(* Of a tag with values in one phase only that phase is gone through.      *)
LEMMA AloneStays ==
    ASSUME NEW t, NEW noise, NEW dual, DualOK(t, dual), NEW new, new = DualSkip(t, dual, noise),
           NEW d \in Phases, ~HasData(t, 1 - d), new.actual = d
    PROVE  dual.actual = d /\ new.hs[d] = Skip(t, d, dual.hs[d], noise)
<1>1. PICK a \in Phases : a = dual.actual /\ 1 - a \in Phases
  BY OtherPhase DEF DualOK, DualType
<1>2. PICK hs : hs = [dual.hs EXCEPT ![a] = Skip(t, a, @, noise)]
  OBVIOUS
<1>3. new = [hs |-> hs, actual |-> IF HasData(t, 1 - a) THEN Earliest(hs) ELSE a]
  BY <1>1, <1>2 DEF DualSkip
<1>4. hs[a] = Skip(t, a, dual.hs[a], noise)
  BY <1>1, <1>2 DEF DualOK, DualType
<1>5. ~HasData(t, 1 - a)
  <2>1. SUFFICES ASSUME HasData(t, 1 - a) PROVE FALSE
    OBVIOUS
  <2>2. HasData(t, a)
    BY <1>1, <2>1 DEF DualOK
  <2>3. 1 - d = a \/ 1 - d = 1 - a
    BY <1>1 DEF Phases
  <2>4. QED
    BY <2>1, <2>2, <2>3
<1>6. QED
  BY <1>1, <1>3, <1>4, <1>5

LEMMA TakenOK ==
    ASSUME NEW t, Kept(t), NEW noise, NEW from, NEW w, WalkOK(t, from, w),
           NEW u, u = TakeFlip(t, w, noise)
    PROVE  /\ WalkOK(t, from, u)
           /\ AtEnd(w.dual) => u = w
           /\ ~AtEnd(w.dual) => Change(w.dual).tick < Change(u.dual).tick
<1>1. CASE AtEnd(w.dual)
  BY <1>1 DEF TakeFlip
<1>2. CASE ~AtEnd(w.dual)
  <2>1. PICK dual, new : dual = w.dual /\ new = DualSkip(t, dual, noise)
    OBVIOUS
  <2>2. PICK fs, gs, f : /\ fs = w.flips /\ f = Change(dual) /\ gs = Append(fs, f)
                         /\ fs \in Seq(FlipType)
    BY DEF WalkOK
  <2>3. u = [dual |-> new, flips |-> gs]
    BY <1>2, <2>1, <2>2 DEF TakeFlip
  <2>4. DualOK(t, dual) /\ ~AtEnd(dual)
    BY <1>2, <2>1 DEF WalkOK
  <2>5. DualOK(t, new) /\ f.tick < Change(new).tick
    BY <2>1, <2>2, <2>4, DualSkipOn
  <2>6. PICK d \in Phases : d = dual.actual
    BY <2>4 DEF DualOK, DualType
  <2>7. PICK h \in HandlerType : h = dual.hs[d]
    BY <2>4, <2>6 DEF DualOK, DualType
  <2>8. h.at \in Nat /\ h.value \in Stored /\ Right(t, d, h) /\ Ready(t, d, h) /\ ~Over(h)
    BY <2>4, <2>6, <2>7 DEF DualOK, Ready, AtEnd, Over, HandlerType
  <2>9. f = [tick |-> 2 * h.at + d, value |-> h.value] /\ f \in FlipType
    BY <2>2, <2>6, <2>7, <2>8 DEF Change, FlipType, Phases
  <2>10. PICK n \in Nat : n = Len(fs)
    BY <2>2
  <2>11. /\ gs \in Seq(FlipType) /\ Len(gs) = n + 1 /\ gs[n + 1] = f
         /\ \A i \in 1 .. n : gs[i] = fs[i] /\ fs[i] \in FlipType /\ gs[i] \in FlipType
    BY <2>2, <2>9, <2>10
  <2>12. \A i \in 1 .. n + 1 : i \in 1 .. n \/ i = n + 1
    BY <2>10
  <2>13. /\ \A i \in 1 .. n : i < n => fs[i].tick < fs[i + 1].tick
         /\ n > 0 => fs[n].tick < f.tick
         /\ \A i \in 1 .. n : \E q \in Phases, a \in Nat :
               fs[i].tick = 2 * a + q /\ fs[i].value = Searched(t, q, a).value
         /\ from = IF n > 0 THEN fs[1].tick ELSE f.tick
    BY <2>1, <2>2, <2>10 DEF WalkOK
  <2>14. u \in [dual : DualType, flips : Seq(FlipType)]
    BY <2>3, <2>5, <2>11 DEF DualOK
  <2>15. ASSUME NEW i \in 1 .. n + 1, i < n + 1 PROVE gs[i].tick < gs[i + 1].tick
    <3>1. CASE i < n
      <4>1. i \in 1 .. n /\ i + 1 \in 1 .. n
        BY <2>15, <3>1
      <4>2. QED
        BY <2>11, <2>13, <3>1, <4>1
    <3>2. CASE i = n
      <4>1. i \in 1 .. n /\ n > 0
        BY <3>2, <2>15
      <4>2. QED
        BY <2>11, <2>13, <3>2, <4>1
    <3>3. QED
      BY <2>15, <3>1, <3>2
  <2>16. ASSUME NEW i \in 1 .. n + 1
         PROVE  \E q \in Phases, a \in Nat :
                   gs[i].tick = 2 * a + q /\ gs[i].value = Searched(t, q, a).value
    <3>1. CASE i \in 1 .. n
      BY <2>11, <2>13, <3>1
    <3>2. CASE i = n + 1
      BY <2>8, <2>9, <2>11, <3>2 DEF Right
    <3>3. QED
      BY <2>12, <3>1, <3>2
  <2>17. from = gs[1].tick
    <3>1. CASE n > 0
      <4>1. 1 \in 1 .. n
        BY <3>1
      <4>2. QED
        BY <2>11, <2>13, <3>1, <4>1
    <3>2. CASE n = 0
      BY <2>11, <2>13, <3>2
    <3>3. QED
      BY <3>1, <3>2
  <2>18. ASSUME NEW q \in Phases, ~HasData(t, 1 - q), new.actual = q, NEW i \in 1 .. n + 1
         PROVE  Lasting(t, q, u, i)
    <3>1. q = d /\ new.hs[d] = Skip(t, d, h, noise)
      BY <2>1, <2>4, <2>6, <2>7, <2>18, AloneStays
    <3>2. PICK g : g = new.hs[d] /\ Skips(t, d, h, g)
      BY <2>8, <3>1, SkipMoves DEF Right
    <3>3. Change(new).tick = 2 * g.at + d /\ (~Over(g) => g.at \in Nat)
      BY <2>18, <3>1, <3>2 DEF Change, Skips, Placed, HandlerType
    <3>4. ASSUME NEW x \in Nat, gs[i].tick <= x,
                 x < IF i < n + 1 THEN gs[i + 1].tick ELSE Change(new).tick
          PROVE  gs[i].value = Searched(t, d, HalfCycle(d, x)).value
      <4>1. CASE i \in 1 .. n
        <5>1. i < n => i + 1 \in 1 .. n
          OBVIOUS
        <5>2. i < n + 1 /\ (~(i < n) => i = n)
          BY <4>1
        <5>3. fs[i].tick <= x /\ x < IF i < n THEN fs[i + 1].tick ELSE f.tick
          BY <2>11, <3>4, <4>1, <5>1, <5>2
        <5>4. Lasting(t, d, w, i)
          BY <2>1, <2>2, <2>6, <2>10, <2>18, <3>1, <4>1 DEF WalkOK
        <5>5. fs[i].value = Searched(t, d, HalfCycle(d, x)).value
          BY <2>1, <2>2, <2>10, <5>3, <5>4 DEF Lasting
        <5>6. QED
          BY <2>11, <4>1, <5>5
      <4>2. CASE i = n + 1
        <5>1. 2 * h.at + d <= x /\ x < 2 * g.at + d /\ gs[i].value = h.value
          BY <2>9, <2>11, <3>3, <3>4, <4>2
        <5>2. PICK c \in Int : c = HalfCycle(d, x)
          BY Ticks
        <5>3. h.at <= c
          <6>1. x >= 2 * h.at + d
            BY <2>8, <5>1 DEF Phases
          <6>2. QED
            BY <2>8, <5>2, <6>1, Ticks
        <5>4. ~Over(g) => c < g.at
          BY <3>3, <5>1, <5>2, Ticks
        <5>5. QED
          BY <2>8, <3>2, <5>1, <5>2, <5>3, <5>4, SkipSteady DEF Right
      <4>3. QED
        BY <2>12, <4>1, <4>2
    <3>5. QED
      BY <2>3, <2>11, <3>1, <3>4 DEF Lasting
  <2>19. WalkOK(t, from, u)
    <3>1. u.dual = new /\ u.flips = gs /\ Len(u.flips) = n + 1 /\ n + 1 > 0
      BY <2>3, <2>11
    <3>2. QED
      BY <2>5, <2>11, <2>14, <2>15, <2>16, <2>17, <2>18, <3>1 DEF WalkOK
  <2>20. QED
    BY <1>2, <2>1, <2>2, <2>3, <2>5, <2>19
<1>3. QED
  BY <1>1, <1>2

(* The steps of a walk up to m.                                            *)
WalksUpto(t, dual, noise, m, walks) ==
    walks = [n \in 0 .. m |-> IF n = 0 THEN [dual |-> dual, flips |-> <<>>]
                              ELSE TakeFlip(t, walks[n - 1], noise)]

LEMMA WalkBegins ==
    ASSUME NEW t, NEW dual, DualOK(t, dual), NEW w, w = [dual |-> dual, flips |-> <<>>]
    PROVE  WalkOK(t, Change(dual).tick, w)
<1>1. w.dual = dual /\ w.flips = <<>> /\ Len(w.flips) = 0 /\ <<>> \in Seq(FlipType)
  OBVIOUS
<1>2. w \in [dual : DualType, flips : Seq(FlipType)]
  BY <1>1 DEF DualOK
<1>3. 1 .. 0 = {} /\ ~(0 > 0)
  OBVIOUS
<1>4. QED
  BY <1>1, <1>2, <1>3 DEF WalkOK

LEMMA WalksExist ==
    ASSUME NEW t, Kept(t), NEW noise, NEW dual, DualOK(t, dual), NEW m \in Nat
    PROVE  \E walks : WalksUpto(t, dual, noise, m, walks)
<1>1. PICK from, S : /\ from = Change(dual).tick
                     /\ S = {w \in [dual : DualType, flips : Seq(FlipType)] : WalkOK(t, from, w)}
  OBVIOUS
<1>2. \A w \in S : TakeFlip(t, w, noise) \in S
  <2>1. SUFFICES ASSUME NEW w \in S PROVE TakeFlip(t, w, noise) \in S
    OBVIOUS
  <2>2. PICK u : u = TakeFlip(t, w, noise)
    OBVIOUS
  <2>3. WalkOK(t, from, u)
    BY <1>1, <2>2, TakenOK
  <2>4. QED
    BY <1>1, <2>2, <2>3 DEF WalkOK
<1>3. PICK x \in S : x = [dual |-> dual, flips |-> <<>>]
  <2>1. PICK w : w = [dual |-> dual, flips |-> <<>>]
    OBVIOUS
  <2>2. WalkOK(t, from, w)
    BY <1>1, <2>1, WalkBegins
  <2>3. QED
    BY <1>1, <2>1, <2>2 DEF WalkOK
<1>4. PICK f \in [S -> S] : \A w \in S : f[w] = TakeFlip(t, w, noise)
  <2>1. [w \in S |-> TakeFlip(t, w, noise)] \in [S -> S]
    BY <1>2
  <2>2. QED
    BY <2>1
<1>5. PICK g \in [0 .. m -> S] : \A n \in 0 .. m : g[n] = IF n = 0 THEN x ELSE f[g[n - 1]]
  <2>1. \E g : Iterates(S, x, f, m, g)
    BY Iterated
  <2>2. QED
    BY <2>1 DEF Iterates
<1>6. ASSUME NEW n \in 0 .. m
      PROVE  g[n] = IF n = 0 THEN [dual |-> dual, flips |-> <<>>] ELSE TakeFlip(t, g[n - 1], noise)
  <2>1. CASE n = 0
    BY <1>3, <1>5, <2>1
  <2>2. CASE n # 0
    <3>1. n - 1 \in 0 .. m
      BY <2>2
    <3>2. g[n - 1] \in S
      BY <3>1
    <3>3. QED
      BY <1>4, <1>5, <2>2, <3>2
  <2>3. QED
    BY <2>1, <2>2
<1>7. WalksUpto(t, dual, noise, m, g)
  <2>1. g = [n \in 0 .. m |-> g[n]]
    OBVIOUS
  <2>2. QED
    BY <1>6, <2>1 DEF WalksUpto
<1>8. QED
  BY <1>7

(* A walk goes on by a tick with every change it takes.                    *)
LEMMA WalksGoOn ==
    ASSUME NEW t, Kept(t), NEW noise, NEW dual, DualOK(t, dual), NEW m \in Nat,
           NEW walks, WalksUpto(t, dual, noise, m, walks)
    PROVE  \A n \in 0 .. m : /\ WalkOK(t, Change(dual).tick, walks[n])
                             /\ AtEnd(walks[n].dual) \/ n <= Change(walks[n].dual).tick
<1>1. \A n \in 0 .. m : walks[n] = IF n = 0 THEN [dual |-> dual, flips |-> <<>>]
                                   ELSE TakeFlip(t, walks[n - 1], noise)
  BY DEF WalksUpto
<1>2. PICK from : from = Change(dual).tick
  OBVIOUS
<1>3. \A w : WalkOK(t, from, w) => Change(w.dual).tick \in Nat
  <2>1. SUFFICES ASSUME NEW w, WalkOK(t, from, w) PROVE Change(w.dual).tick \in Nat
    OBVIOUS
  <2>2. w.dual \in DualType
    BY <2>1 DEF WalkOK
  <2>3. PICK d \in Phases : d = w.dual.actual
    BY <2>2 DEF DualType
  <2>4. w.dual.hs[d].at \in Nat /\ d \in Nat
    BY <2>2, <2>3 DEF DualType, HandlerType, Phases
  <2>5. QED
    BY <2>3, <2>4 DEF Change
<1> DEFINE P(n) == /\ WalkOK(t, from, walks[n])
                   /\ AtEnd(walks[n].dual) \/ n <= Change(walks[n].dual).tick
           T == {n \in Nat : n <= m => P(n)}
<1>4. 0 \in T
  <2>1. walks[0] = [dual |-> dual, flips |-> <<>>]
    <3>1. 0 \in 0 .. m
      OBVIOUS
    <3>2. QED
      BY <1>1, <3>1
  <2>2. PICK w : w = walks[0]
    OBVIOUS
  <2>3. WalkOK(t, from, w)
    BY <1>2, <2>1, <2>2, WalkBegins
  <2>4. Change(w.dual).tick \in Nat
    BY <1>3, <2>3
  <2>5. QED
    BY <2>2, <2>3, <2>4
<1>5. ASSUME NEW n \in Nat, n \in T PROVE n + 1 \in T
  <2>1. SUFFICES ASSUME n + 1 <= m PROVE P(n + 1)
    OBVIOUS
  <2>2. n <= m /\ n + 1 \in 0 .. m /\ n + 1 # 0 /\ (n + 1) - 1 = n
    BY <2>1
  <2>3. PICK w, u : w = walks[n] /\ u = walks[n + 1] /\ u = TakeFlip(t, w, noise)
    BY <1>1, <2>2
  <2>4. WalkOK(t, from, w) /\ (AtEnd(w.dual) \/ n <= Change(w.dual).tick)
    BY <1>5, <2>2, <2>3
  <2>5. /\ WalkOK(t, from, u)
        /\ AtEnd(w.dual) => u = w
        /\ ~AtEnd(w.dual) => Change(w.dual).tick < Change(u.dual).tick
    BY <2>3, <2>4, TakenOK
  <2>6. Change(w.dual).tick \in Nat /\ Change(u.dual).tick \in Nat
    BY <1>3, <2>4, <2>5
  <2>7. AtEnd(u.dual) \/ n + 1 <= Change(u.dual).tick
    BY <2>4, <2>5, <2>6
  <2>8. QED
    BY <2>3, <2>5, <2>7
<1> HIDE DEF T
<1>6. \A n \in Nat : n \in T
  BY <1>4, <1>5, Counting
<1>7. QED
  BY <1>2, <1>6 DEF T

(* All the changes are taken.                                              *)
LEMMA FlipsEnd ==
    ASSUME NEW t, Kept(t), NEW noise, NEW dual, DualOK(t, dual)
    PROVE  \E w : /\ WalkOK(t, Change(dual).tick, w) /\ Flips(t, dual, noise) = w.flips
                  /\ AtEnd(w.dual)
<1>1. PICK m \in Nat : m = BIGGEST_CYCLE
  BY BiggestType
<1>2. PICK walks : walks = CHOOSE e : WalksUpto(t, dual, noise, m, e)
  OBVIOUS
<1>3. Flips(t, dual, noise) = walks[m].flips
  BY <1>1, <1>2 DEF Flips, WalksUpto
<1>4. WalksUpto(t, dual, noise, m, walks)
  BY <1>2, WalksExist
<1>5. m \in 0 .. m
  OBVIOUS
<1>6. PICK w : w = walks[m]
  OBVIOUS
<1>7. WalkOK(t, Change(dual).tick, w) /\ (AtEnd(w.dual) \/ m <= Change(w.dual).tick)
  BY <1>4, <1>5, <1>6, WalksGoOn
<1>8. AtEnd(w.dual)
  <2>1. SUFFICES ASSUME ~AtEnd(w.dual) PROVE FALSE
    OBVIOUS
  <2>2. PICK d \in Phases : d = w.dual.actual
    BY <1>7 DEF WalkOK, DualOK, DualType
  <2>3. PICK h : h = w.dual.hs[d] /\ Ready(t, d, h) /\ ~Over(h)
    BY <1>7, <2>1, <2>2 DEF WalkOK, DualOK, AtEnd, Over
  <2>4. h.at \in Nat /\ h.at < MAXCYCLES
    BY <2>3 DEF Ready, HandlerType
  <2>5. Change(w.dual).tick = 2 * h.at + d
    BY <2>2, <2>3 DEF Change
  <2>6. m = MAXCYCLES * 2
    BY <1>1 DEF BIGGEST_CYCLE
  <2>7. QED
    BY <1>7, <2>1, <2>4, <2>5, <2>6, Sizes DEF Phases
<1>9. QED
  BY <1>3, <1>6, <1>7, <1>8

-----------------------------------------------------------------------------
(* What the views go through, and what the tag answers.                    *)

First(t, noise) ==
    LET dual == initTagHandler(t, noise)
    IN  IF Change(dual).value = NONE THEN DualSkip(t, dual, noise) ELSE dual

LEMMA InitialGoes ==
    ASSUME NEW t, Kept(t), NEW noise, NEW dual, dual = initTagHandler(t, noise)
    PROVE  DualOK(t, dual) /\ ~AtEnd(dual) /\ dual.hs[dual.actual].at = 0
<1>1. DualOK(t, dual) /\ dual.hs[dual.actual].at = 0
  BY InitialDual
<1>2. BIGGEST_CYCLE # 0
  BY BiggestType, Sizes
<1>3. QED
  BY <1>1, <1>2 DEF AtEnd

LEMMA FirstOK ==
    ASSUME NEW t, Kept(t), NEW noise, NEW first, first = First(t, noise)
    PROVE  DualOK(t, first) /\ Change(first).tick \in Nat
<1>1. PICK dual : dual = initTagHandler(t, noise)
  OBVIOUS
<1>2. DualOK(t, dual) /\ ~AtEnd(dual)
  BY <1>1, InitialGoes
<1>3. DualOK(t, first)
  <2>1. CASE Change(dual).value = NONE
    <3>1. first = DualSkip(t, dual, noise)
      BY <1>1, <2>1 DEF First
    <3>2. QED
      BY <1>2, <3>1, DualSkipOn
  <2>2. CASE Change(dual).value # NONE
    BY <1>1, <1>2, <2>2 DEF First
  <2>3. QED
    BY <2>1, <2>2
<1>4. PICK d \in Phases : d = first.actual
  BY <1>3 DEF DualOK, DualType
<1>5. first.hs[d].at \in Nat /\ d \in Nat
  BY <1>3, <1>4 DEF DualOK, DualType, HandlerType, Phases
<1>6. QED
  BY <1>3, <1>4, <1>5 DEF Change

LEMMA FlipsTaken ==
    ASSUME NEW t, Kept(t), NEW noise, NEW first, first = First(t, noise)
    PROVE  /\ ~(Change(first).tick < LastTick) => FlipsOf(t, noise) = <<>>
           /\ Change(first).tick < LastTick =>
                 \E w : /\ WalkOK(t, Change(first).tick, w) /\ FlipsOf(t, noise) = w.flips
                        /\ AtEnd(w.dual)
<1>1. FlipsOf(t, noise) = IF Change(first).tick < LastTick THEN Flips(t, first, noise) ELSE <<>>
  BY DEF FlipsOf, First
<1>2. \E w : /\ WalkOK(t, Change(first).tick, w) /\ Flips(t, first, noise) = w.flips
             /\ AtEnd(w.dual)
  BY FirstOK, FlipsEnd
<1>3. QED
  BY <1>1, <1>2

(* The changes go forward, and each is what its phase has then.            *)
LEMMA FlipsForward ==
    ASSUME SInv, NEW noise, NEW flips, flips = FlipsOf(tag, noise)
    PROVE  /\ \A i \in 1 .. Len(flips) - 1 : flips[i].tick < flips[i + 1].tick
           /\ \A i \in DOMAIN flips :
                  flips[i].value =
                      internalGetTagValue(tag, flips[i].tick % 2, flips[i].tick \div 2).value
<1>1. Kept(tag) /\ use.fwd
  BY DEF SInv
<1>2. PICK first : first = First(tag, noise)
  OBVIOUS
<1>3. CASE ~(Change(first).tick < LastTick)
  <2>1. flips = <<>>
    BY <1>1, <1>2, <1>3, FlipsTaken
  <2>2. QED
    BY <2>1
<1>4. CASE Change(first).tick < LastTick
  <2>1. PICK w : WalkOK(tag, Change(first).tick, w) /\ flips = w.flips
    BY <1>1, <1>2, <1>4, FlipsTaken
  <2>2. /\ flips \in Seq(FlipType)
        /\ \A i \in 1 .. Len(flips) : i < Len(flips) => flips[i].tick < flips[i + 1].tick
        /\ \A i \in 1 .. Len(flips) :
              \E d \in Phases, a \in Nat : /\ flips[i].tick = 2 * a + d
                                           /\ flips[i].value = Searched(tag, d, a).value
    BY <2>1 DEF WalkOK
  <2>3. Len(flips) \in Nat /\ DOMAIN flips = 1 .. Len(flips)
    BY <2>2
  <2>4. \A i \in 1 .. Len(flips) - 1 : i \in 1 .. Len(flips) /\ i < Len(flips)
    BY <2>3
  <2>5. ASSUME NEW i \in DOMAIN flips
        PROVE  flips[i].value =
                   internalGetTagValue(tag, flips[i].tick % 2, flips[i].tick \div 2).value
    <3>1. PICK d \in Phases, a \in Nat : /\ flips[i].tick = 2 * a + d
                                         /\ flips[i].value = Searched(tag, d, a).value
      BY <2>2, <2>3, <2>5
    <3>2. (2 * a + d) % 2 = d /\ (2 * a + d) \div 2 = a
      BY DEF Phases
    <3>3. QED
      BY <1>1, <3>1, <3>2, SearchedFwd
  <2>6. QED
    BY <2>2, <2>4, <2>5
<1>5. QED
  BY <1>3, <1>4

(* A phase without values answers nothing.                                 *)
LEMMA NoDataNoValue ==
    ASSUME NEW t, Kept(t), NEW d \in Phases, ~HasData(t, d), NEW c \in Int
    PROVE  Searched(t, d, c) = NotFound
<1>1. ASSUME NEW a \in Int, NEW v \in Stored, Holds(t, d, a, v) PROVE FALSE
  BY <1>1, HoldsEntry DEF HasData, Vec
<1>2. QED
  BY <1>1, NothingRead

(* Nor does any before the first cycle.                                    *)
LEMMA NothingBefore ==
    ASSUME NEW t, Kept(t), NEW d \in Phases, NEW c \in Int, c < 0
    PROVE  Searched(t, d, c) = NotFound
<1>1. ASSUME NEW a \in Int, NEW v \in Stored, Holds(t, d, a, v) PROVE c < a
  BY <1>1, HoldsEntry
<1>2. QED
  BY <1>1, NothingRead

(* A tag with values in one phase answers with them.                       *)
LEMMA AnswersAlone ==
    ASSUME use.fwd, NEW t, Kept(t), NEW d \in Phases, ~HasData(t, 1 - d), NEW x \in Nat
    PROVE  getTagValue(t, x \div 2, x % 2) = Searched(t, d, HalfCycle(d, x)).value
<1>1. getTagValue(t, x \div 2, x % 2) = Told(t, x)
  <2>1. /\ internalGetTagValue(t, 0, x \div 2) = Searched(t, 0, x \div 2)
        /\ internalGetTagValue(t, 1, LowCycle(x \div 2, x % 2))
              = Searched(t, 1, LowCycle(x \div 2, x % 2))
    BY SearchedFwd
  <2>2. QED
    BY <2>1 DEF getTagValue, Told, Merged, HalfCycle
<1>2. PICK high, low : high = Searched(t, 0, HalfCycle(0, x)) /\ low = Searched(t, 1, HalfCycle(1, x))
  OBVIOUS
<1>3. Told(t, x) = Merged(high, low)
  BY <1>2 DEF Told
<1>4. 1 - d \in Phases /\ HalfCycle(1 - d, x) \in Int /\ d \in {0, 1}
  BY Ticks, OtherPhase
<1>5. Searched(t, 1 - d, HalfCycle(1 - d, x)).value = NONE
  BY <1>4, NoDataNoValue DEF NotFound
<1>6. CASE d = 0
  <2>1. low.value = NONE
    BY <1>2, <1>5, <1>6
  <2>2. QED
    BY <1>1, <1>2, <1>3, <1>6, <2>1, MergedFacts
<1>7. CASE d = 1
  <2>1. high.value = NONE
    BY <1>2, <1>5, <1>7
  <2>2. QED
    BY <1>1, <1>2, <1>3, <1>7, <2>1, MergedFacts
<1>8. QED
  BY <1>4, <1>6, <1>7

(* Before the first change there is nothing.                               *)
LEMMA NothingYet ==
    ASSUME NEW t, Kept(t), NEW noise, NEW first, first = First(t, noise),
           ~(HasData(t, 0) /\ HasData(t, 1))
    PROVE  \E d \in Phases :
              /\ ~HasData(t, 1 - d)
              /\ \A x \in Nat : x < Change(first).tick =>
                    Searched(t, d, HalfCycle(d, x)).value = NONE
<1>1. PICK dual : dual = initTagHandler(t, noise)
  OBVIOUS
<1>2. DualOK(t, dual) /\ ~AtEnd(dual) /\ dual.hs[dual.actual].at = 0
  BY <1>1, InitialGoes
<1>3. PICK d \in Phases : d = dual.actual
  BY <1>2 DEF DualOK, DualType
<1>4. ~HasData(t, 1 - d)
  <2>1. (HasData(t, d) /\ HasData(t, 1 - d)) \/ ~HasData(t, 1 - d)
    BY <1>2, <1>3 DEF DualOK
  <2>2. QED
    BY <2>1 DEF Phases
<1>5. PICK h : h = dual.hs[d] /\ Right(t, d, h) /\ h.at = 0 /\ Change(dual).value = h.value
               /\ Change(dual).tick = 2 * h.at + d
  BY <1>2, <1>3 DEF DualOK, Ready, AtEnd, Over, Change
<1>6. ASSUME NEW x \in Nat, x < Change(first).tick
      PROVE  Searched(t, d, HalfCycle(d, x)).value = NONE
  <2>1. PICK c \in Int : c = HalfCycle(d, x)
    BY Ticks
  <2>2. CASE c < 0
    BY <2>1, <2>2, NothingBefore DEF NotFound
  <2>3. CASE h.value # NONE
    <3>1. first = dual
      BY <1>1, <1>5, <2>3 DEF First
    <3>2. x < 2 * 0 + d
      BY <1>5, <1>6, <3>1
    <3>3. c < 0
      BY <2>1, <3>2, Ticks
    <3>4. QED
      BY <2>2, <3>3
  <2>4. CASE ~(c < 0) /\ h.value = NONE
    <3>1. first = DualSkip(t, dual, noise)
      BY <1>1, <1>5, <2>4 DEF First
    <3>2. first.actual = d /\ first.hs[d] = Skip(t, d, h, noise)
      BY <1>2, <1>3, <1>4, <1>5, <3>1 DEF DualSkip, DualOK, DualType
    <3>3. PICK g : g = first.hs[d] /\ Skips(t, d, h, g)
      BY <1>5, <3>2, SkipMoves DEF Right
    <3>4. ~Over(g) => g.at \in Nat
      BY <3>3 DEF Skips, Placed, HandlerType
    <3>5. x < 2 * g.at + d
      BY <1>6, <3>2, <3>3 DEF Change
    <3>6. ~Over(g) => c < g.at
      BY <2>1, <3>4, <3>5, Ticks
    <3>7. h.at \in Nat /\ h.at <= c
      BY <1>5, <2>4
    <3>8. QED
      BY <1>5, <2>1, <2>4, <3>3, <3>6, <3>7, SkipSteady DEF Right
  <2>5. QED
    BY <2>2, <2>3, <2>4
<1>7. QED
  BY <1>4, <1>6

(* The views show what a tag with values in one phase answers.             *)
LEMMA FlipsAlone ==
    ASSUME SInv, NEW noise, ~(HasData(tag, 0) /\ HasData(tag, 1)), ValueInTime,
           NEW flips, flips = FlipsOf(tag, noise)
    PROVE  Agree(flips)
<1>1. Kept(tag) /\ use.fwd
  BY DEF SInv
<1>2. PICK first : first = First(tag, noise) /\ Change(first).tick \in Nat
  BY <1>1, FirstOK
<1>3. \A x \in Nat : x < Change(first).tick => getTagValue(tag, x \div 2, x % 2) = NONE
  BY <1>1, <1>2, NothingYet, AnswersAlone
<1>4. LastTick \in Nat /\ LastTick <= 2 * MaxCycle + 1 /\ Horizon = 2 * MaxCycle + 3 /\ MaxCycle \in Nat
  BY NowType, HorizonType, Sizes DEF SInv, LastTick, Phases
<1>5. Change(first).tick < LastTick
  <2>1. PICK x \in 0 .. LastTick - 1 : getTagValue(tag, x \div 2, x % 2) # NONE
    BY DEF ValueInTime
  <2>2. x \in Nat /\ x < LastTick
    BY <1>4
  <2>3. ~(x < Change(first).tick)
    BY <1>3, <2>1, <2>2, Zenon
  <2>4. QED
    BY <1>2, <1>4, <2>2, <2>3
<1>6. PICK w : WalkOK(tag, Change(first).tick, w) /\ flips = w.flips /\ AtEnd(w.dual)
  BY <1>1, <1>2, <1>5, FlipsTaken
<1>7. PICK a \in Phases : a = w.dual.actual
  BY <1>6 DEF WalkOK, DualOK, DualType
<1>8. ~HasData(tag, 1 - a)
  <2>1. (HasData(tag, a) /\ HasData(tag, 1 - a)) \/ ~HasData(tag, 1 - a)
    BY <1>6, <1>7 DEF WalkOK, DualOK
  <2>2. QED
    BY <2>1 DEF Phases
<1>9. Change(w.dual).tick \in Nat /\ Horizon < Change(w.dual).tick
  <2>1. Change(w.dual).tick = 2 * BIGGEST_CYCLE + a
    BY <1>6, <1>7 DEF AtEnd, Change
  <2>2. QED
    BY <1>4, <2>1, Sizes DEF BIGGEST_CYCLE, Phases
<1>10. PICK l \in Nat : /\ l = Len(flips) /\ flips \in Seq(FlipType)
  BY <1>6 DEF WalkOK
<1>11. /\ Change(first).tick = IF l > 0 THEN flips[1].tick ELSE Change(w.dual).tick
       /\ \A i \in 1 .. l : Lasting(tag, a, w, i) /\ flips[i].tick \in Nat
  <2>1. \A i \in 1 .. l : flips[i].tick \in Nat
    <3>1. \A i \in 1 .. l : flips[i] \in FlipType
      BY <1>10
    <3>2. \A f \in FlipType : f.tick \in Nat
      BY DEF FlipType
    <3>3. QED
      BY <3>1, <3>2
  <2>2. QED
    BY <1>6, <1>7, <1>8, <1>10, <2>1 DEF WalkOK
<1>12. l > 0
  BY <1>2, <1>4, <1>5, <1>9, <1>10, <1>11
<1>13. ASSUME NEW x \in 0 .. Horizon PROVE Shown(flips, x) = getTagValue(tag, x \div 2, x % 2)
  <2>1. PICK T : T = {n \in 0 .. Len(flips) : \A i \in 1 .. n : flips[i].tick <= x}
    OBVIOUS
  <2>2. x \in Nat /\ x <= Horizon /\ x < Change(w.dual).tick
    BY <1>4, <1>9
  <2>3. T \in SUBSET Int /\ T # {} /\ \A n \in T : n <= l
    <3>1. 0 \in T
      BY <1>10, <2>1
    <3>2. QED
      BY <1>10, <2>1, <3>1
  <2>4. PICK m \in T : m = Max(T) /\ \A n \in T : n <= m
    <3>1. l \in Int
      OBVIOUS
    <3>2. Max(T) \in T /\ \A n \in T : n <= Max(T)
      BY <2>3, <3>1, Largest, Zenon
    <3>3. QED
      BY <3>2
  <2>5. m \in 0 .. l /\ \A i \in 1 .. m : flips[i].tick <= x
    BY <1>10, <2>1
  <2>6. Shown(flips, x) = IF m = 0 THEN NONE ELSE flips[m].value
    BY <2>1, <2>4 DEF Shown
  <2>7. m < l => x < flips[m + 1].tick
    <3>1. SUFFICES ASSUME m < l, ~(x < flips[m + 1].tick) PROVE FALSE
      OBVIOUS
    <3>2. m + 1 \in 0 .. l /\ m + 1 \in 1 .. l /\ ~(m + 1 <= m)
      BY <2>5, <3>1
    <3>3. flips[m + 1].tick <= x
      BY <1>11, <2>2, <3>1, <3>2
    <3>4. \A i \in 1 .. m + 1 : i \in 1 .. m \/ i = m + 1
      BY <2>5
    <3>5. m + 1 \in T
      BY <1>10, <2>1, <2>5, <3>2, <3>3, <3>4
    <3>6. QED
      BY <2>4, <3>2, <3>5
  <2>8. CASE m = 0
    <3>1. x < Change(first).tick
      BY <1>11, <1>12, <2>7, <2>8
    <3>2. QED
      BY <1>3, <2>2, <2>6, <2>8, <3>1
  <2>9. CASE m # 0
    <3>1. m \in 1 .. l /\ flips[m].tick <= x
      BY <2>5, <2>9
    <3>2. Lasting(tag, a, w, m)
      BY <1>11, <3>1
    <3>3. x < IF m < l THEN flips[m + 1].tick ELSE Change(w.dual).tick
      BY <2>2, <2>7
    <3>4. flips[m].value = Searched(tag, a, HalfCycle(a, x)).value
      BY <1>6, <1>10, <2>2, <3>1, <3>2, <3>3 DEF Lasting
    <3>5. getTagValue(tag, x \div 2, x % 2) = Searched(tag, a, HalfCycle(a, x)).value
      BY <1>1, <1>8, <2>2, AnswersAlone
    <3>6. QED
      BY <2>6, <2>9, <3>4, <3>5
  <2>10. QED
    BY <2>8, <2>9
<1>14. QED
  BY <1>13 DEF Agree

-----------------------------------------------------------------------------
LEMMA SInvFlipsInOrder == SInv => FlipsInOrder
<1> SUFFICES ASSUME SInv, NEW noise \in Noises(tag)
             PROVE  LET flips == FlipsOf(tag, noise)
                    IN  /\ \A i \in 1 .. Len(flips) - 1 : flips[i].tick < flips[i + 1].tick
                        /\ \A i \in DOMAIN flips :
                               flips[i].value = internalGetTagValue(tag, flips[i].tick % 2,
                                                                    flips[i].tick \div 2).value
                        /\ ~(HasData(tag, 0) /\ HasData(tag, 1)) /\ ValueInTime => Agree(flips)
  BY Zenon DEF FlipsInOrder
<1>1. PICK flips : flips = FlipsOf(tag, noise)
  OBVIOUS
<1>2. /\ \A i \in 1 .. Len(flips) - 1 : flips[i].tick < flips[i + 1].tick
      /\ \A i \in DOMAIN flips :
             flips[i].value =
                 internalGetTagValue(tag, flips[i].tick % 2, flips[i].tick \div 2).value
  BY <1>1, FlipsForward
<1>3. ~(HasData(tag, 0) /\ HasData(tag, 1)) /\ ValueInTime => Agree(flips)
  BY <1>1, FlipsAlone
<1>4. QED
  BY <1>1, <1>2, <1>3

(* The changes a view draws of a tag go forward in time, each is what its  *)
(* own phase has then, and while the tag has values in one phase only, and *)
(* not in the last moment only, they are for every moment what the tag     *)
(* answers, for chunks of any size and any trace (TagFlipHandler,          *)
(* DualTagHandler, getTagValue).                                           *)
THEOREM FlipsGoForward == Searchable /\ Spec => []FlipsInOrder
BY SpecSInv, SInvFlipsInOrder, PTL

====
