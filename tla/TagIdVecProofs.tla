--------------------------- MODULE TagIdVecProofs ---------------------------
(* Proofs about TagIdVec: the types of a tag, the order of its entries,    *)
(* that no write meets a compressed chunk or leaves the array; and that it *)
(* implements TagHistory: every answer comes from the last entries of the  *)
(* two halves before a tick, and a write changes those from its own cycle  *)
(* on.  For chunks of any size, any values and any trace.                  *)
EXTENDS TagAnswers, WellFoundedInduction, TLAPS

-----------------------------------------------------------------------------
(* Arithmetic.                                                             *)

LEMMA Division ==
    ASSUME NEW n \in Int, NEW k \in Int, n >= 0, k > 0
    PROVE  /\ n \div k \in Nat /\ n % k \in 0 .. k - 1
           /\ n = k * (n \div k) + (n % k)
<1>1. n \div k \in Nat
  OBVIOUS
<1>2. n % k \in 0 .. k - 1
  OBVIOUS
<1>3. n = k * (n \div k) + (n % k)
  BY SMT
<1>4. QED
  BY <1>1, <1>2, <1>3

LEMMA MaxOfTwo ==
    ASSUME NEW a \in Int, NEW b \in Int
    PROVE  Max({a, b}) = IF a >= b THEN a ELSE b
BY DEF Max

LEMMA MinOfTwo ==
    ASSUME NEW a \in Int, NEW b \in Int
    PROVE  Min({a, b}) = IF a <= b THEN a ELSE b
BY DEF Min

LEMMA Sizes ==
    /\ MAXCYCLES \in Nat \ {0} /\ CHUNK \in Nat \ {0} /\ MAXCHUNKS \in Nat \ {0}
    /\ MaxCycle \in Nat /\ MaxCycle < MAXCYCLES
<1>1. CHUNK * MAXCHUNKS \in Nat \ {0}
  BY SizesAssumption
<1>2. QED
  BY <1>1, SizesAssumption DEF MAXCYCLES

(* A cycle is in a chunk, and at a place of it.                            *)
LEMMA InChunk ==
    ASSUME NEW c \in 0 .. MAXCYCLES
    PROVE  /\ c \div CHUNK \in Chunks /\ c % CHUNK \in 0 .. CHUNK - 1
           /\ c = CHUNK * (c \div CHUNK) + (c % CHUNK)
           /\ c < MAXCYCLES => c \div CHUNK < MAXCHUNKS
<1> DEFINE k == c \div CHUNK
           x == CHUNK * k
           y == CHUNK * MAXCHUNKS
           r == c % CHUNK
<1>1. k \in Nat /\ r \in 0 .. CHUNK - 1 /\ c = x + r
  BY Division, Sizes
<1> HIDE DEF k, r
<1>2. k > MAXCHUNKS => x >= y + CHUNK
  BY <1>1, Sizes
<1>3. k >= MAXCHUNKS => x >= y
  BY <1>1, Sizes
<1>4. x \in Nat /\ y \in Nat /\ c \in 0 .. y
  BY <1>1, Sizes DEF MAXCYCLES
<1> HIDE DEF x, y
<1>5. k <= MAXCHUNKS /\ (c < y => k < MAXCHUNKS)
  BY <1>1, <1>2, <1>3, <1>4, Sizes
<1>6. k \in Chunks
  BY <1>1, <1>5, Sizes DEF Chunks
<1>7. c \div CHUNK = k /\ CHUNK * (c \div CHUNK) = x /\ MAXCYCLES = y /\ c % CHUNK = r
  BY DEF MAXCYCLES, k, x, y, r
<1>8. QED
  BY <1>1, <1>5, <1>6, <1>7

-----------------------------------------------------------------------------
(* Types.                                                                  *)

Stored == Values \cup {NONE}

TagType == [cycleVec   : [Phases -> [Chunks -> TagVec \cup {NULL}]],
            firstCycle : 0 .. MAXCYCLES - 1,
            lastCycle  : 0 .. MAXCYCLES - 1,
            lastValue  : Stored,
            lastCompressedChunk : 0 .. MAXCHUNKS]

LEMMA PutType ==
    ASSUME NEW es \in Seq(Entry), NEW off \in 0 .. CHUNK - 1, NEW v \in Stored
    PROVE  Put(es, off, v) \in Seq(Entry)
<1>1. [offset |-> off, value |-> v] \in Entry
  BY DEF Entry, Stored
<1>2. CASE Overwrites(es, off)
  <2>1. Len(es) \in DOMAIN es /\ es[Len(es)] \in Entry
    BY <1>2 DEF Overwrites
  <2>2. [es[Len(es)] EXCEPT !.value = v] \in Entry
    BY <2>1 DEF Entry, Stored
  <2>3. [es EXCEPT ![Len(es)].value = v] \in Seq(Entry)
    BY <2>1, <2>2
  <2>4. QED
    BY <1>2, <2>3 DEF Put
<1>3. CASE ~Overwrites(es, off)
  BY <1>1, <1>3 DEF Put
<1>4. QED
  BY <1>2, <1>3

LEMMA WrittenType ==
    ASSUME NEW vec \in TagVec \cup {NULL}, NEW off \in 0 .. CHUNK - 1, NEW v \in Stored
    PROVE  Written(vec, off, v) \in TagVec \cup {NULL}
<1>1. CASE Closed(vec)
  BY <1>1 DEF Written
<1>2. CASE ~Closed(vec)
  <2>1. Allocated(vec) \in TagVec
    BY DEF Allocated, TagVec
  <2>2. Put(Allocated(vec).entries, off, v) \in Seq(Entry)
    BY <2>1, PutType DEF TagVec
  <2>3. [Allocated(vec) EXCEPT !.entries = Put(@, off, v)] \in TagVec
    BY <2>1, <2>2 DEF TagVec
  <2>4. QED
    BY <1>2, <2>3 DEF Written
<1>3. QED
  BY <1>1, <1>2

LEMMA EnteredType ==
    ASSUME NEW t \in TagType, NEW c \in 0 .. MAXCYCLES, NEW p \in Phases, NEW v \in Stored
    PROVE  Entered(t, c, p, v) \in TagType
<1> DEFINE k == c \div CHUNK
           vec == Written(t.cycleVec[p][k], c % CHUNK, v)
           vecs == [t.cycleVec EXCEPT ![p][k] = vec]
<1>1. k \in Chunks /\ c % CHUNK \in 0 .. CHUNK - 1
  BY InChunk
<1> HIDE DEF k
<1>2. t.cycleVec \in [Phases -> [Chunks -> TagVec \cup {NULL}]]
  BY DEF TagType
<1>3. t.cycleVec[p][k] \in TagVec \cup {NULL}
  BY <1>1, <1>2
<1>4. vec \in TagVec \cup {NULL}
  BY <1>1, <1>3, WrittenType
<1> HIDE DEF vec
<1>5. vecs \in [Phases -> [Chunks -> TagVec \cup {NULL}]]
  BY <1>1, <1>2, <1>4
<1>6. Max({c, t.lastCycle}) \in 0 .. MAXCYCLES /\ Min({c, t.firstCycle}) \in 0 .. MAXCYCLES
  BY MaxOfTwo, MinOfTwo, Sizes DEF TagType
<1>7. \A n \in 0 .. MAXCYCLES : Clip(n) \in 0 .. MAXCYCLES - 1
  BY Sizes, Division DEF Clip
<1>8. Entered(t, c, p, v) =
          IF Repeats(t, v) THEN t
          ELSE [t EXCEPT !.cycleVec = vecs,
                         !.lastCycle  = Clip(Max({c, t.lastCycle})),
                         !.firstCycle = Clip(Min({c, t.firstCycle})),
                         !.lastValue  = v]
  BY DEF Entered, vec, k, TagType
<1> HIDE DEF vecs
<1>9. QED
  BY <1>5, <1>6, <1>7, <1>8 DEF TagType

(* What compression makes of a chunk.                                      *)
LEMMA CompressedType ==
    ASSUME NEW t \in TagType, NEW c \in Nat, NEW last \in BOOLEAN
    PROVE  /\ Compressed(t, c, last) \in TagType
           /\ \A p \in Phases, k \in Chunks :
                 LET old == t.cycleVec[p][k]
                     new == Compressed(t, c, last).cycleVec[p][k]
                 IN  \/ new = old
                     \/ /\ old # NULL /\ Complete(k, c, last)
                        /\ new = [old EXCEPT !.dense = TRUE]
<1> DEFINE Shrink(k, vec) ==
               IF k \in FromChunk(t) .. LastChunk(c) /\ vec # NULL
               THEN IF Complete(k, c, last) /\ Sparse(vec)
                    THEN [vec EXCEPT !.dense = TRUE] ELSE vec
               ELSE vec
           vecs == [p \in Phases |-> [k \in Chunks |-> Shrink(k, t.cycleVec[p][k])]]
<1>1. Compressed(t, c, last) =
          IF ~hasData(t) THEN t
          ELSE [t EXCEPT !.cycleVec = vecs, !.lastCompressedChunk = LastChunk(c) + 1]
  BY DEF Compressed
<1>2. LastChunk(c) + 1 \in 0 .. MAXCHUNKS
  <2>1. c \div CHUNK \in Nat
    BY Division, Sizes
  <2> DEFINE k == c \div CHUNK
  <2> HIDE DEF k
  <2>2. Min({k, MAXCHUNKS - 1}) \in 0 .. MAXCHUNKS - 1
    BY <2>1, MinOfTwo, Sizes DEF k
  <2>3. QED
    BY <2>2, Sizes DEF LastChunk, k
<1>3. t.cycleVec \in [Phases -> [Chunks -> TagVec \cup {NULL}]]
  BY DEF TagType
<1>4. \A k \in Chunks, vec \in TagVec \cup {NULL} : Shrink(k, vec) \in TagVec \cup {NULL}
  BY DEF TagVec
<1>5. \A k, vec :
          \/ Shrink(k, vec) = vec
          \/ /\ vec # NULL /\ Complete(k, c, last)
             /\ Shrink(k, vec) = [vec EXCEPT !.dense = TRUE]
  OBVIOUS
<1> HIDE DEF Shrink
<1>6. vecs \in [Phases -> [Chunks -> TagVec \cup {NULL}]]
  BY <1>3, <1>4
<1>7. \A p \in Phases, k \in Chunks : vecs[p][k] = Shrink(k, t.cycleVec[p][k])
  OBVIOUS
<1> HIDE DEF vecs
<1>8. Compressed(t, c, last) \in TagType
  BY <1>1, <1>2, <1>6 DEF TagType
<1>9. Compressed(t, c, last).cycleVec = t.cycleVec \/ Compressed(t, c, last).cycleVec = vecs
  BY <1>1 DEF TagType
<1>10. ASSUME NEW p \in Phases, NEW k \in Chunks
       PROVE  LET old == t.cycleVec[p][k]
                  new == Compressed(t, c, last).cycleVec[p][k]
              IN  \/ new = old
                  \/ /\ old # NULL /\ Complete(k, c, last)
                     /\ new = [old EXCEPT !.dense = TRUE]
  <2> DEFINE old == t.cycleVec[p][k]
  <2>1. \/ Shrink(k, old) = old
        \/ /\ old # NULL /\ Complete(k, c, last)
           /\ Shrink(k, old) = [old EXCEPT !.dense = TRUE]
    BY <1>5
  <2>2. vecs[p][k] = Shrink(k, old)
    BY <1>7
  <2> HIDE DEF old
  <2>3. Compressed(t, c, last).cycleVec[p][k] \in {old, Shrink(k, old)}
    BY <1>9, <2>2 DEF old
  <2>4. QED
    BY <2>1, <2>3 DEF old
<1>11. QED
  BY <1>8, <1>10

(* TypeOK, and the use is one of those there are.                          *)
TypeInv == TypeOK /\ use \in Uses

LEMMA TypeOfTag == TypeOK => tag \in TagType /\ cycle \in 0 .. MAXCYCLES - 1 /\ cycle + 1 \in 0 .. MAXCYCLES
BY Sizes DEF TypeOK, TagType, Stored

LEMMA TagOfType ==
    ASSUME TypeInv, tag' \in TagType, UNCHANGED use, cycle' \in 0 .. MaxCycle,
           phase' \in 0 .. use.divisions - 1, lastCompressCycle' \in 0 .. MaxCycle,
           moved' \in BOOLEAN, ended' \in BOOLEAN, refused' \in BOOLEAN
    PROVE  TypeInv'
BY DEF TypeInv, TypeOK, TagType, Stored

LEMMA InitType == Init => TypeInv
<1> SUFFICES ASSUME Init PROVE TypeInv
  OBVIOUS
<1>1. EmptyTag \in TagType
  BY Sizes DEF EmptyTag, TagType, Stored
<1>2. 0 \in 0 .. MaxCycle
  BY Sizes
<1>3. QED
  BY <1>1, <1>2 DEF Init, TypeInv, TypeOK, TagType, Stored

LEMMA CompressedAtType ==
    ASSUME TypeInv, NEW c \in 0 .. MaxCycle, CompressDue(c)
    PROVE  c - 1 \in Nat /\ Compressed(tag, c - 1, FALSE) \in TagType
<1>1. lastCompressCycle \in Nat /\ c \in Nat /\ c - lastCompressCycle >= CHUNK
  BY DEF TypeInv, TypeOK, CompressDue
<1>2. c - 1 \in Nat
  BY <1>1, Sizes
<1>3. QED
  BY <1>2, CompressedType, TypeOfTag DEF TypeInv

LEMMA NextType == ASSUME TypeInv, [Next]_vars PROVE TypeInv'
<1>1. tag \in TagType /\ cycle \in 0 .. MAXCYCLES /\ cycle + 1 \in 0 .. MAXCYCLES
  BY TypeOfTag, Sizes DEF TypeInv
<1>2. /\ cycle \in 0 .. MaxCycle /\ phase \in 0 .. use.divisions - 1
      /\ lastCompressCycle \in 0 .. MaxCycle
      /\ moved \in BOOLEAN /\ ended \in BOOLEAN /\ refused \in BOOLEAN
      /\ use.divisions \in {1, 2} /\ use.maxGap \in Nat
  BY UsesAssumption DEF TypeInv, TypeOK
<1>3. phase \in Phases
  BY <1>2 DEF Phases
<1>4. \A t \in TagType, c \in 0 .. MAXCYCLES, v \in Stored :
          /\ Entered(t, c, phase, v) \in TagType
          /\ Refuses(t, c, phase, v) \in BOOLEAN
  BY <1>3, EnteredType DEF Refuses
<1>5. NONE \in Stored /\ \A v \in Values : v \in Stored
  BY DEF Stored
<1>6. ASSUME NEW c \in cycle .. Min({cycle + use.maxGap, MaxCycle}),
             NEW p \in 0 .. use.divisions - 1, Cycle(c, p)
      PROVE  TypeInv'
  <2>1. c \in 0 .. MaxCycle
    <3>1. Min({cycle + use.maxGap, MaxCycle}) <= MaxCycle /\ Min({cycle + use.maxGap, MaxCycle}) \in Int
      BY <1>2, MinOfTwo, Sizes
    <3>2. QED
      BY <1>2, <3>1, Sizes
  <2>2. tag' \in TagType /\ lastCompressCycle' \in 0 .. MaxCycle
    BY <1>1, <1>2, <1>6, <2>1, CompressedAtType DEF Cycle
  <2>3. QED
    BY <1>2, <1>6, <2>1, <2>2, TagOfType DEF Cycle
<1>7. ASSUME NEW v \in Values, Set(v) PROVE TypeInv'
  BY <1>1, <1>2, <1>4, <1>5, <1>7, TagOfType DEF Set
<1>8. ASSUME Undefine PROVE TypeInv'
  BY <1>1, <1>2, <1>4, <1>5, <1>8, TagOfType DEF Undefine
<1>9. ASSUME NEW v \in Values, Move(v) PROVE TypeInv'
  <2> DEFINE added == Entered(tag, cycle, phase, v)
             after == Entered(added, cycle + 1, phase, NONE)
  <2>1. added \in TagType /\ after \in TagType
    BY <1>1, <1>4, <1>5
  <2>2. tag' \in TagType
    BY <1>9, <2>1 DEF Move, Gone
  <2>3. refused' \in BOOLEAN
    BY <1>1, <1>4, <1>5, <1>9, <2>1 DEF Move, Gone
  <2>4. QED
    BY <1>2, <1>9, <2>2, <2>3, TagOfType DEF Move
<1>10. ASSUME EndSimulation PROVE TypeInv'
  <2>1. cycle + CHUNK + 1 \in Nat
    BY <1>2, Sizes
  <2>2. tag' \in TagType
    BY <1>1, <1>10, <2>1, CompressedType DEF EndSimulation
  <2>3. QED
    BY <1>2, <1>10, <2>2, TagOfType DEF EndSimulation
<1>11. CASE UNCHANGED vars
  BY <1>1, <1>2, <1>11, TagOfType DEF vars
<1>12. QED
  BY <1>6, <1>7, <1>8, <1>9, <1>10, <1>11 DEF Next

LEMMA SpecType == Spec => []TypeInv
<1>1. TypeInv /\ [Next]_vars => TypeInv'
  BY NextType
<1>2. QED
  BY <1>1, InitType, PTL DEF Spec

(* The types of a tag, whatever the trace does to it (TagIdVec.h).         *)
THEOREM TagTypes == Spec => []TypeOK
<1>1. TypeInv => TypeOK
  BY DEF TypeInv
<1>2. QED
  BY <1>1, SpecType, PTL

-----------------------------------------------------------------------------
(* The order of the entries.                                               *)

InOrder(es) == \A i, j \in DOMAIN es : i < j => es[i].offset < es[j].offset

(* A chunk from cycle `base` on has entries, in order, none after `last`.  *)
VecOK(vec, base, last) ==
    vec # NULL =>
        /\ vec.entries # <<>> /\ InOrder(vec.entries)
        /\ \A i \in DOMAIN vec.entries : base + vec.entries[i].offset <= last

HalvesOK(t, upto) ==
    \A p \in Phases, k \in Chunks : VecOK(t.cycleVec[p][k], CHUNK * k, upto[p])

LEMMA Offsets ==
    ASSUME NEW es \in Seq(Entry)
    PROVE  \A i \in DOMAIN es : es[i] \in Entry /\ es[i].offset \in Nat
<1>1. \A e \in Entry : e.offset \in Nat
  BY Sizes DEF Entry
<1>2. \A i \in DOMAIN es : es[i] \in Entry
  OBVIOUS
<1>3. QED
  BY <1>1, <1>2

LEMMA PutOrder ==
    ASSUME NEW es \in Seq(Entry), NEW off \in 0 .. CHUNK - 1, NEW v \in Stored, InOrder(es),
           \A i \in DOMAIN es : es[i].offset <= off
    PROVE  /\ Put(es, off, v) # <<>> /\ InOrder(Put(es, off, v))
           /\ \A i \in DOMAIN Put(es, off, v) : Put(es, off, v)[i].offset <= off
<1> DEFINE e == [offset |-> off, value |-> v]
<1>0. \A i \in DOMAIN es : es[i] \in Entry /\ es[i].offset \in Nat
  BY Offsets
<1>1. CASE Overwrites(es, off)
  <2> DEFINE n == Len(es)
             r == [es EXCEPT ![n].value = v]
  <2>1. n \in DOMAIN es /\ Put(es, off, v) = r
    BY <1>1 DEF Overwrites, Put
  <2>2. DOMAIN r = DOMAIN es /\ \A i \in DOMAIN es : r[i].offset = es[i].offset
    BY <1>0, <2>1 DEF Entry
  <2>3. r # <<>>
    BY <2>1, <2>2
  <2> HIDE DEF r
  <2>4. QED
    BY <2>1, <2>2, <2>3 DEF InOrder
<1>2. CASE ~Overwrites(es, off) /\ v = NONE /\ es # <<>> /\ es[Len(es)].value = NONE
  <2>1. Put(es, off, v) = es
    BY <1>2 DEF Put
  <2>2. QED
    BY <1>2, <2>1
<1>3. CASE ~Overwrites(es, off) /\ ~(v = NONE /\ es # <<>> /\ es[Len(es)].value = NONE)
  <2>1. Put(es, off, v) = Append(es, e)
    BY <1>3 DEF Put
  <2>2. \A i \in DOMAIN es : es[i].offset < off
    <3>1. SUFFICES ASSUME NEW i \in DOMAIN es PROVE es[i].offset < off
      OBVIOUS
    <3>2. Len(es) \in DOMAIN es /\ es # <<>> /\ i <= Len(es)
      BY <3>1
    <3>3. es[Len(es)].offset < off
      BY <1>0, <1>3, <3>2 DEF Overwrites
    <3>4. QED
      BY <1>0, <3>2, <3>3 DEF InOrder
  <2>3. /\ DOMAIN Append(es, e) = 1 .. Len(es) + 1 /\ DOMAIN es = 1 .. Len(es)
        /\ \A i \in DOMAIN es : Append(es, e)[i] = es[i]
        /\ Append(es, e)[Len(es) + 1] = e
    OBVIOUS
  <2>4. e.offset = off
    OBVIOUS
  <2> HIDE DEF e
  <2>5. Append(es, e) # <<>>
    OBVIOUS
  <2>6. ASSUME NEW i \in 1 .. Len(es) + 1, NEW j \in 1 .. Len(es) + 1, i < j
        PROVE  Append(es, e)[i].offset < Append(es, e)[j].offset
    <3>1. i \in DOMAIN es /\ (j \in DOMAIN es \/ j = Len(es) + 1)
      BY <2>3, <2>6
    <3>2. CASE j \in DOMAIN es
      BY <2>3, <2>6, <3>1, <3>2 DEF InOrder
    <3>3. CASE j = Len(es) + 1
      BY <2>2, <2>3, <2>4, <3>1, <3>3
    <3>4. QED
      BY <3>1, <3>2, <3>3
  <2>7. ASSUME NEW i \in 1 .. Len(es) + 1 PROVE Append(es, e)[i].offset <= off
    <3>1. i \in DOMAIN es \/ i = Len(es) + 1
      BY <2>3
    <3>2. QED
      BY <2>2, <2>3, <2>4, <3>1
  <2>8. QED
    BY <2>1, <2>3, <2>5, <2>6, <2>7 DEF InOrder
<1>4. QED
  BY <1>1, <1>2, <1>3

LEMMA WrittenOrder ==
    ASSUME NEW vec \in TagVec \cup {NULL}, NEW base \in Nat, NEW off \in 0 .. CHUNK - 1,
           NEW v \in Stored, VecOK(vec, base, base + off)
    PROVE  VecOK(Written(vec, off, v), base, base + off)
<1>0. off \in Int /\ base \in Int
  BY Sizes
<1>1. CASE Closed(vec)
  BY <1>1 DEF Written
<1>2. CASE ~Closed(vec)
  <2> DEFINE a == Allocated(vec)
             es == a.entries
             r == Put(es, off, v)
  <2>1. a \in TagVec /\ es \in Seq(Entry)
    BY DEF Allocated, TagVec
  <2>2. InOrder(es) /\ \A i \in DOMAIN es : es[i].offset <= off
    <3>1. CASE vec = NULL
      BY <3>1 DEF Allocated, InOrder
    <3>2. CASE vec # NULL
      <4>1. es = vec.entries
        BY <3>2 DEF Allocated
      <4>2. \A i \in DOMAIN es : es[i].offset \in Nat
        BY <2>1, Offsets
      <4>3. InOrder(es) /\ \A i \in DOMAIN es : base + es[i].offset <= base + off
        BY <3>2, <4>1 DEF VecOK
      <4>4. \A i \in DOMAIN es : es[i].offset <= off
        BY <1>0, <4>2, <4>3
      <4>5. QED
        BY <4>3, <4>4
    <3>3. QED
      BY <3>1, <3>2
  <2>3. Written(vec, off, v) = [a EXCEPT !.entries = r]
    BY <1>2 DEF Written
  <2>4. Written(vec, off, v).entries = r
    BY <2>1, <2>3 DEF TagVec
  <2>5. r \in Seq(Entry)
    BY <2>1, PutType
  <2>6. \A i \in DOMAIN r : r[i].offset \in Nat
    BY <2>5, Offsets
  <2>7. r # <<>> /\ InOrder(r) /\ \A i \in DOMAIN r : r[i].offset <= off
    BY <2>1, <2>2, PutOrder
  <2> HIDE DEF r
  <2>8. \A i \in DOMAIN r : base + r[i].offset <= base + off
    <3> SUFFICES ASSUME NEW i \in DOMAIN r PROVE base + r[i].offset <= base + off
      OBVIOUS
    <3>1. r[i].offset \in Int /\ r[i].offset <= off
      BY <2>6, <2>7
    <3>2. QED
      BY <1>0, <3>1
  <2>9. QED
    BY <2>4, <2>7, <2>8 DEF VecOK
<1>3. QED
  BY <1>1, <1>2

-----------------------------------------------------------------------------
(* What a write does to the chunks of a tag.                               *)

LEMMA EnteredChunks ==
    ASSUME NEW t \in TagType, NEW c \in 0 .. MAXCYCLES, NEW p \in Phases, NEW v \in Stored,
           NEW q \in Phases, NEW k \in Chunks
    PROVE  LET old == t.cycleVec[q][k]
               new == Entered(t, c, p, v).cycleVec[q][k]
           IN  \/ new = old
               \/ q = p /\ k = c \div CHUNK /\ new = Written(old, c % CHUNK, v)
<1> DEFINE w == Written(t.cycleVec[p][c \div CHUNK], c % CHUNK, v)
           vecs == [t.cycleVec EXCEPT ![p][c \div CHUNK] = w]
<1>1. c \div CHUNK \in Chunks
  BY InChunk
<1>2. t.cycleVec \in [Phases -> [Chunks -> TagVec \cup {NULL}]]
  BY DEF TagType
<1>3. CASE Repeats(t, v)
  BY <1>3 DEF Entered
<1>4. CASE ~Repeats(t, v)
  <2>1. Entered(t, c, p, v).cycleVec = vecs
    BY <1>4 DEF Entered, TagType
  <2> HIDE DEF w
  <2>2. vecs[q][k] = IF q = p /\ k = c \div CHUNK THEN w ELSE t.cycleVec[q][k]
    BY <1>1, <1>2
  <2> HIDE DEF vecs
  <2>3. QED
    BY <2>1, <2>2 DEF w
<1>5. QED
  BY <1>3, <1>4

LEMMA VecLater ==
    ASSUME NEW vec \in TagVec \cup {NULL}, NEW base \in Int, NEW m \in Int, NEW n \in Int,
           m <= n, VecOK(vec, base, m)
    PROVE  VecOK(vec, base, n)
<1>1. CASE vec = NULL
  BY <1>1 DEF VecOK
<1>2. CASE vec # NULL
  <2>1. vec.entries \in Seq(Entry)
    BY <1>2 DEF TagVec
  <2>2. \A i \in DOMAIN vec.entries : vec.entries[i].offset \in Nat
    BY <2>1, Offsets
  <2>3. \A i \in DOMAIN vec.entries : base + vec.entries[i].offset <= m
    BY <1>2 DEF VecOK
  <2>4. \A i \in DOMAIN vec.entries : base + vec.entries[i].offset <= n
    <3> SUFFICES ASSUME NEW i \in DOMAIN vec.entries
                 PROVE  base + vec.entries[i].offset <= n
      OBVIOUS
    <3> DEFINE o == vec.entries[i].offset
    <3>1. o \in Nat /\ base + o <= m
      BY <2>2, <2>3
    <3> HIDE DEF o
    <3>2. base + o <= n
      BY <3>1
    <3>3. QED
      BY <3>2 DEF o
  <2>5. QED
    BY <1>2, <2>4 DEF VecOK
<1>3. QED
  BY <1>1, <1>2

LEMMA ChunkBase == \A k \in Chunks : CHUNK * k \in Nat
BY Sizes DEF Chunks

(* A write at or after the last entry of its half keeps the order.         *)
LEMMA EnteredOrder ==
    ASSUME NEW t \in TagType, NEW c \in 0 .. MAXCYCLES, NEW p \in Phases, NEW v \in Stored,
           NEW upto \in [Phases -> Int], upto[p] <= c, HalvesOK(t, upto)
    PROVE  HalvesOK(Entered(t, c, p, v), [upto EXCEPT ![p] = c])
<1> DEFINE new == Entered(t, c, p, v)
           later == [upto EXCEPT ![p] = c]
<1>1. SUFFICES ASSUME NEW q \in Phases, NEW k \in Chunks
               PROVE  VecOK(new.cycleVec[q][k], CHUNK * k, later[q])
  BY DEF HalvesOK
<1> DEFINE old == t.cycleVec[q][k]
           base == CHUNK * k
<1>2. old \in TagVec \cup {NULL} /\ base \in Nat /\ VecOK(old, base, upto[q])
  BY ChunkBase DEF TagType, HalvesOK
<1>3. upto[q] \in Int /\ later[q] \in Int /\ upto[q] <= later[q]
  BY Sizes
<1>4. CASE new.cycleVec[q][k] = old
  BY <1>2, <1>3, <1>4, VecLater
<1>5. CASE q = p /\ k = c \div CHUNK /\ new.cycleVec[q][k] = Written(old, c % CHUNK, v)
  <2> DEFINE off == c % CHUNK
  <2>1. off \in 0 .. CHUNK - 1 /\ c = base + off /\ later[q] = c
    BY <1>5, InChunk
  <2> HIDE DEF off, base, later
  <2>2. VecOK(old, base, base + off)
    BY <1>2, <1>3, <2>1, VecLater
  <2>3. QED
    BY <1>2, <1>5, <2>1, <2>2, WrittenOrder DEF off, base
<1>6. QED
  BY <1>4, <1>5, EnteredChunks

-----------------------------------------------------------------------------
(* The chunks that take no more entries.                                   *)

(* Those are over before cycle d.                                          *)
DenseOK(t, d) ==
    \A p \in Phases, k \in Chunks : Closed(t.cycleVec[p][k]) => CHUNK * k + CHUNK <= d

LEMMA WrittenOpen ==
    ASSUME NEW vec \in TagVec \cup {NULL}, NEW off \in 0 .. CHUNK - 1, NEW v \in Stored,
           Closed(Written(vec, off, v))
    PROVE  Closed(vec)
<1>1. SUFFICES ASSUME ~Closed(vec) PROVE FALSE
  OBVIOUS
<1>2. Allocated(vec) \in TagVec /\ ~Allocated(vec).dense
  BY <1>1 DEF Allocated, TagVec, Closed
<1>3. ~Written(vec, off, v).dense
  BY <1>1, <1>2 DEF Written, TagVec
<1>4. QED
  BY <1>3 DEF Closed

LEMMA EnteredOpen ==
    ASSUME NEW t \in TagType, NEW c \in 0 .. MAXCYCLES, NEW p \in Phases, NEW v \in Stored,
           NEW d \in Int, d <= c, DenseOK(t, d)
    PROVE  DenseOK(Entered(t, c, p, v), d) /\ ~Refuses(t, c, p, v)
<1>1. DenseOK(Entered(t, c, p, v), d)
  <2>1. SUFFICES ASSUME NEW q \in Phases, NEW k \in Chunks,
                        Closed(Entered(t, c, p, v).cycleVec[q][k])
                 PROVE  Closed(t.cycleVec[q][k])
    BY DEF DenseOK
  <2>2. t.cycleVec[q][k] \in TagVec \cup {NULL}
    BY DEF TagType
  <2>3. c % CHUNK \in 0 .. CHUNK - 1
    BY InChunk
  <2>4. QED
    BY <2>1, <2>2, <2>3, EnteredChunks, WrittenOpen
<1>2. ~Refuses(t, c, p, v)
  <2> DEFINE k == c \div CHUNK
             base == CHUNK * k
             off == c % CHUNK
  <2>1. k \in Chunks /\ off \in 0 .. CHUNK - 1 /\ c = base + off
    BY InChunk
  <2>2. base \in Nat
    BY <2>1, ChunkBase
  <2>3. Closed(t.cycleVec[p][k]) => base + CHUNK <= d
    BY <2>1 DEF DenseOK
  <2> HIDE DEF off, base
  <2>4. ~Closed(t.cycleVec[p][k])
    BY <2>1, <2>2, <2>3, Sizes
  <2>5. QED
    BY <2>4 DEF Refuses
<1>3. QED
  BY <1>1, <1>2

-----------------------------------------------------------------------------
(* What compression, and a later cycle, do to them.                        *)

LEMMA HalvesLater ==
    ASSUME NEW t \in TagType, NEW upto \in [Phases -> Int], NEW later \in [Phases -> Int],
           \A p \in Phases : upto[p] <= later[p], HalvesOK(t, upto)
    PROVE  HalvesOK(t, later)
<1>1. SUFFICES ASSUME NEW p \in Phases, NEW k \in Chunks
               PROVE  VecOK(t.cycleVec[p][k], CHUNK * k, later[p])
  BY DEF HalvesOK
<1>2. t.cycleVec[p][k] \in TagVec \cup {NULL} /\ CHUNK * k \in Int
  BY ChunkBase DEF TagType
<1>3. VecOK(t.cycleVec[p][k], CHUNK * k, upto[p])
  BY DEF HalvesOK
<1>4. QED
  BY <1>2, <1>3, VecLater

LEMMA CompressedOrder ==
    ASSUME NEW t \in TagType, NEW c \in Nat, NEW last \in BOOLEAN,
           NEW upto \in [Phases -> Int], HalvesOK(t, upto)
    PROVE  HalvesOK(Compressed(t, c, last), upto)
<1>1. SUFFICES ASSUME NEW p \in Phases, NEW k \in Chunks
               PROVE  VecOK(Compressed(t, c, last).cycleVec[p][k], CHUNK * k, upto[p])
  BY DEF HalvesOK
<1> DEFINE old == t.cycleVec[p][k]
           new == Compressed(t, c, last).cycleVec[p][k]
<1>2. old \in TagVec \cup {NULL} /\ VecOK(old, CHUNK * k, upto[p])
  BY DEF TagType, HalvesOK
<1>3. new = old \/ (old # NULL /\ new = [old EXCEPT !.dense = TRUE])
  BY CompressedType
<1> HIDE DEF old, new
<1>4. CASE new = old
  BY <1>2, <1>4 DEF new
<1>5. CASE old # NULL /\ new = [old EXCEPT !.dense = TRUE]
  <2>1. new.entries = old.entries
    BY <1>2, <1>5 DEF TagVec
  <2>2. QED
    BY <1>2, <1>5, <2>1 DEF VecOK, new
<1>6. QED
  BY <1>3, <1>4, <1>5

LEMMA CompressedDense ==
    ASSUME NEW t \in TagType, NEW c \in Nat, NEW d \in Int, c < d, DenseOK(t, d)
    PROVE  DenseOK(Compressed(t, c, FALSE), d)
<1>1. SUFFICES ASSUME NEW p \in Phases, NEW k \in Chunks,
                      Closed(Compressed(t, c, FALSE).cycleVec[p][k])
               PROVE  CHUNK * k + CHUNK <= d
  BY DEF DenseOK
<1>2. CASE Closed(t.cycleVec[p][k])
  BY <1>2 DEF DenseOK
<1>3. CASE ~Closed(t.cycleVec[p][k])
  <2> DEFINE base == CHUNK * k
  <2>1. Complete(k, c, FALSE)
    BY <1>1, <1>3, CompressedType
  <2>2. base \in Nat /\ k * CHUNK = base
    BY ChunkBase, Sizes DEF Chunks
  <2> HIDE DEF base
  <2>3. c >= base + CHUNK - 1
    BY <2>1, <2>2 DEF Complete
  <2>4. base + CHUNK <= d
    BY <2>2, <2>3, Sizes
  <2>5. QED
    BY <2>4 DEF base
<1>4. QED
  BY <1>2, <1>3

(* No chunk past the array.                                                *)
WithinTag(t) == \A p \in Phases : t.cycleVec[p][MAXCHUNKS] = NULL

LEMMA CompressedWithin ==
    ASSUME NEW t \in TagType, NEW c \in Nat, NEW last \in BOOLEAN, WithinTag(t)
    PROVE  WithinTag(Compressed(t, c, last))
<1>1. MAXCHUNKS \in Chunks
  BY Sizes DEF Chunks
<1>2. SUFFICES ASSUME NEW p \in Phases
               PROVE  Compressed(t, c, last).cycleVec[p][MAXCHUNKS] = NULL
  BY DEF WithinTag
<1>3. t.cycleVec[p][MAXCHUNKS] = NULL
  BY DEF WithinTag
<1> DEFINE new == Compressed(t, c, last).cycleVec[p][MAXCHUNKS]
<1>4. \/ new = t.cycleVec[p][MAXCHUNKS]
      \/ t.cycleVec[p][MAXCHUNKS] # NULL /\ new = [t.cycleVec[p][MAXCHUNKS] EXCEPT !.dense = TRUE]
  BY <1>1, CompressedType
<1>5. QED
  BY <1>3, <1>4, Zenon

LEMMA EnteredWithin ==
    ASSUME NEW t \in TagType, NEW c \in 0 .. MAXCYCLES - 1, NEW p \in Phases,
           NEW v \in Stored, WithinTag(t)
    PROVE  WithinTag(Entered(t, c, p, v))
<1>1. MAXCHUNKS \in Chunks
  BY Sizes DEF Chunks
<1>2. c \in 0 .. MAXCYCLES /\ c < MAXCYCLES
  BY Sizes
<1> DEFINE k == c \div CHUNK
<1>3. k < MAXCHUNKS /\ k \in Chunks
  BY <1>2, InChunk
<1> HIDE DEF k
<1>4. MAXCHUNKS # k
  BY <1>3, Sizes
<1>5. \A q \in Phases :
          Entered(t, c, p, v).cycleVec[q][MAXCHUNKS] = t.cycleVec[q][MAXCHUNKS]
  BY <1>1, <1>2, <1>4, EnteredChunks DEF k
<1>6. QED
  BY <1>5 DEF WithinTag

-----------------------------------------------------------------------------
(* The inductive invariant.                                                *)

(* The last cycle an entry of each half may be at: a move, in this cycle   *)
(* and phase or in the phase before, ends in the next cycle.               *)
Reach ==
    [p \in Phases |-> IF "Move" \in use.ops /\ (p < phase \/ (p = phase /\ moved))
                      THEN cycle + 1 ELSE cycle]

(* The cycle after the one a move may be in has its place in the array.    *)
Roomy == "Move" \notin use.ops \/ cycle + 1 < MAXCYCLES

IInv ==
    /\ TypeInv /\ WritesAccepted
    /\ HalvesOK(tag, Reach)
    /\ ~ended => DenseOK(tag, cycle)
    /\ Roomy => WithinTag(tag)

LEMMA InitIInv == Init => IInv
<1> SUFFICES ASSUME Init PROVE IInv
  OBVIOUS
<1>1. \A p \in Phases, k \in Chunks : tag.cycleVec[p][k] = NULL
  BY DEF Init, EmptyTag
<1>2. MAXCHUNKS \in Chunks
  BY Sizes DEF Chunks
<1>3. HalvesOK(tag, Reach) /\ DenseOK(tag, cycle) /\ WithinTag(tag)
  BY <1>1, <1>2 DEF HalvesOK, VecOK, DenseOK, Closed, WithinTag
<1>4. QED
  BY <1>3, InitType DEF IInv, Init, WritesAccepted

LEMMA ReachType == TypeInv => Reach \in [Phases -> Int] /\ phase \in Phases
<1> SUFFICES ASSUME TypeInv PROVE Reach \in [Phases -> Int] /\ phase \in Phases
  OBVIOUS
<1>1. cycle \in Int /\ phase \in 0 .. use.divisions - 1 /\ use.divisions \in {1, 2}
  BY UsesAssumption, Sizes DEF TypeInv, TypeOK
<1>2. QED
  BY <1>1 DEF Reach, Phases

LEMMA CycleIInv ==
    ASSUME IInv, NEW c \in 0 .. MaxCycle, NEW p \in 0 .. use.divisions - 1, Cycle(c, p),
           TypeInv'
    PROVE  IInv'
<1>1. tag \in TagType /\ cycle \in Int /\ phase \in Phases /\ Reach \in [Phases -> Int]
  BY TypeOfTag, ReachType, Sizes DEF IInv, TypeInv
<1>2. Reach' \in [Phases -> Int] /\ cycle' = c /\ phase' = p /\ ~moved' /\ c \in Int
      /\ p \in Phases /\ UNCHANGED <<use, ended, refused>> /\ ~ended
  <2>1. (Reach \in [Phases -> Int])'
    <3>1. cycle' \in Int
      BY Sizes DEF Cycle
    <3>2. QED
      BY <3>1 DEF Reach
  <2>2. use.divisions \in {1, 2}
    BY UsesAssumption DEF IInv, TypeInv
  <2>3. QED
    BY <2>1, <2>2, Sizes, TypeOfTag DEF Cycle, Phases, Tracing, IInv, TypeInv, TypeOK
<1>3. cycle <= c
  BY <1>1, <1>2 DEF Cycle
<1>4. \A q \in Phases : Reach[q] <= Reach'[q]
  BY <1>1, <1>2 DEF Reach, Cycle, Phases
<1>5. HalvesOK(tag, Reach') /\ DenseOK(tag, c)
  <2>1. HalvesOK(tag, Reach')
    BY <1>1, <1>2, <1>4, HalvesLater DEF IInv
  <2>2. SUFFICES ASSUME NEW q \in Phases, NEW k \in Chunks, Closed(tag.cycleVec[q][k])
                 PROVE  CHUNK * k + CHUNK <= c
    BY <2>1 DEF DenseOK
  <2> DEFINE base == CHUNK * k
  <2>3. base \in Nat /\ base + CHUNK <= cycle
    BY <1>2, <2>2, ChunkBase DEF IInv, DenseOK
  <2> HIDE DEF base
  <2>4. base + CHUNK <= c
    BY <1>1, <1>2, <1>3, <2>3, Sizes
  <2>5. QED
    BY <2>4 DEF base
<1>6. Roomy' => Roomy /\ WithinTag(tag)
  <2>1. cycle + 1 <= c + 1 /\ MAXCYCLES \in Nat
    BY <1>1, <1>2, <1>3, Sizes
  <2>2. c + 1 < MAXCYCLES => cycle + 1 < MAXCYCLES
    BY <1>1, <1>2, <2>1
  <2>3. QED
    BY <1>2, <2>2 DEF Roomy, IInv
<1>7. CASE ~CompressDue(c)
  <2>1. tag' = tag
    BY <1>7 DEF Cycle
  <2>2. QED
    BY <1>2, <1>5, <1>6, <2>1 DEF IInv, WritesAccepted
<1>8. CASE CompressDue(c)
  <2>1. tag' = Compressed(tag, c - 1, FALSE)
    BY <1>8 DEF Cycle
  <2>2. c - 1 \in Nat /\ c - 1 < c
    <3>1. c - 1 \in Nat
      BY <1>8, CompressedAtType DEF IInv
    <3>2. QED
      BY <1>2, <3>1
  <2>3. HalvesOK(tag', Reach') /\ DenseOK(tag', c)
    BY <1>1, <1>2, <1>5, <2>1, <2>2, CompressedOrder, CompressedDense
  <2>4. WithinTag(tag) => WithinTag(tag')
    BY <1>1, <2>1, <2>2, CompressedWithin
  <2>5. QED
    BY <1>2, <1>6, <2>3, <2>4 DEF IInv, WritesAccepted
<1>9. QED
  BY <1>7, <1>8

(* A value set or undefined in the cycle of the trace.                     *)
LEMMA SetIInv ==
    ASSUME IInv, NEW v \in Stored, "Move" \notin use.ops, Tracing,
           tag' = Entered(tag, cycle, phase, v), refused' = Refuses(tag, cycle, phase, v),
           UNCHANGED <<use, cycle, phase, moved, ended>>, TypeInv'
    PROVE  IInv'
<1>1. /\ tag \in TagType /\ cycle \in 0 .. MAXCYCLES - 1 /\ cycle \in 0 .. MAXCYCLES
      /\ phase \in Phases /\ Reach \in [Phases -> Int] /\ cycle \in Int
  BY TypeOfTag, ReachType, Sizes DEF IInv, TypeInv
<1>2. Reach[phase] = cycle /\ Reach' = Reach /\ Reach = [Reach EXCEPT ![phase] = cycle]
  BY <1>1 DEF Reach
<1>3. HalvesOK(tag', Reach')
  BY <1>1, <1>2, EnteredOrder DEF IInv
<1>4. DenseOK(tag', cycle) /\ ~refused'
  BY <1>1, EnteredOpen DEF IInv, Tracing
<1>5. WithinTag(tag) => WithinTag(tag')
  BY <1>1, EnteredWithin
<1>6. QED
  BY <1>3, <1>4, <1>5 DEF IInv, WritesAccepted, Roomy

LEMMA MoveIInv == ASSUME IInv, NEW v \in Values, Move(v), TypeInv' PROVE IInv'
<1> DEFINE added == Entered(tag, cycle, phase, v)
           after == Entered(added, cycle + 1, phase, NONE)
<1>1. /\ tag \in TagType /\ cycle \in 0 .. MAXCYCLES - 1 /\ cycle \in 0 .. MAXCYCLES
      /\ cycle + 1 \in 0 .. MAXCYCLES /\ cycle \in 0 .. MaxCycle /\ cycle \in Int
      /\ phase \in Phases /\ Reach \in [Phases -> Int]
  BY TypeOfTag, ReachType, Sizes DEF IInv, TypeInv, TypeOK
<1>2. v \in Stored /\ NONE \in Stored
  BY DEF Stored
<1>3. ~moved /\ ~ended /\ "Move" \in use.ops
  BY DEF Move, Tracing
<1>4. Reach[phase] = cycle /\ Reach = [Reach EXCEPT ![phase] = cycle]
  BY <1>1, <1>3 DEF Reach, Phases
<1>5. added \in TagType /\ HalvesOK(added, Reach)
  BY <1>1, <1>2, <1>4, EnteredType, EnteredOrder DEF IInv
<1>6. DenseOK(added, cycle) /\ ~Refuses(tag, cycle, phase, v)
  BY <1>1, <1>2, <1>3, EnteredOpen DEF IInv
<1> HIDE DEF added
<1>7. HalvesOK(after, [Reach EXCEPT ![phase] = cycle + 1])
  <2>1. Reach[phase] <= cycle + 1
    BY <1>1, <1>4
  <2>2. QED
    BY <1>1, <1>2, <1>5, <2>1, EnteredOrder
<1>8. DenseOK(after, cycle) /\ ~Refuses(added, cycle + 1, phase, NONE)
  BY <1>1, <1>2, <1>5, <1>6, EnteredOpen
<1>9. /\ tag' = after /\ ~refused' /\ moved'
      /\ UNCHANGED <<use, cycle, phase, ended>>
  BY <1>6, <1>8 DEF Move, Gone, added
<1>10. Reach' = [Reach EXCEPT ![phase] = cycle + 1]
  BY <1>1, <1>3, <1>9 DEF Reach, Phases
<1>11. Roomy => (WithinTag(tag) => WithinTag(tag'))
  <2>1. SUFFICES ASSUME Roomy, WithinTag(tag) PROVE WithinTag(after)
    BY <1>9
  <2>2. cycle + 1 \in 0 .. MAXCYCLES - 1
    BY <1>1, <1>3, <2>1, Sizes DEF Roomy
  <2>3. WithinTag(added)
    BY <1>1, <1>2, <2>1, EnteredWithin DEF added
  <2>4. QED
    BY <1>1, <1>2, <1>5, <2>2, <2>3, EnteredWithin
<1>12. QED
  BY <1>7, <1>8, <1>9, <1>10, <1>11 DEF IInv, WritesAccepted, Roomy

LEMMA EndIInv == ASSUME IInv, EndSimulation, TypeInv' PROVE IInv'
<1>1. tag \in TagType /\ cycle + CHUNK + 1 \in Nat /\ Reach \in [Phases -> Int]
  BY TypeOfTag, ReachType, Sizes DEF IInv, TypeInv
<1>2. tag' = Compressed(tag, cycle + CHUNK + 1, TRUE) /\ ended'
      /\ UNCHANGED <<use, cycle, phase, moved, refused>>
  BY DEF EndSimulation
<1>3. HalvesOK(tag', Reach) /\ (WithinTag(tag) => WithinTag(tag'))
  BY <1>1, <1>2, CompressedOrder, CompressedWithin DEF IInv
<1>4. Reach' = Reach
  BY <1>2 DEF Reach
<1>5. QED
  BY <1>2, <1>3, <1>4 DEF IInv, WritesAccepted, Roomy

LEMMA NextIInv == ASSUME IInv, [Next]_vars PROVE IInv'
<1>1. TypeInv'
  BY NextType DEF IInv
<1>2. ASSUME NEW c \in cycle .. Min({cycle + use.maxGap, MaxCycle}),
             NEW p \in 0 .. use.divisions - 1, Cycle(c, p)
      PROVE  IInv'
  <2>1. c \in 0 .. MaxCycle
    BY <1>1, <1>2 DEF Cycle, TypeInv, TypeOK
  <2>2. QED
    BY <1>1, <1>2, <2>1, CycleIInv
<1>3. use \in Uses /\ ("Move" \in use.ops => use.ops = {"Move"})
  BY UsesAssumption DEF IInv, TypeInv
<1>4. ASSUME NEW v \in Values, Set(v) PROVE IInv'
  <2>1. "Move" \notin use.ops /\ v \in Stored
    BY <1>3, <1>4 DEF Set, Stored
  <2>2. QED
    BY <1>1, <1>4, <2>1, SetIInv DEF Set
<1>5. ASSUME Undefine PROVE IInv'
  <2>1. "Move" \notin use.ops /\ NONE \in Stored
    BY <1>3, <1>5 DEF Undefine, Stored
  <2>2. QED
    BY <1>1, <1>5, <2>1, SetIInv DEF Undefine
<1>6. ASSUME NEW v \in Values, Move(v) PROVE IInv'
  BY <1>1, <1>6, MoveIInv
<1>7. ASSUME EndSimulation PROVE IInv'
  BY <1>1, <1>7, EndIInv
<1>8. CASE UNCHANGED vars
  <2>1. Reach' = Reach /\ UNCHANGED <<use, tag, cycle, ended, refused>>
    BY <1>8 DEF Reach, vars
  <2>2. QED
    BY <1>1, <2>1 DEF IInv, WritesAccepted, Roomy
<1>9. QED
  BY <1>2, <1>4, <1>5, <1>6, <1>7, <1>8 DEF Next

LEMMA SpecIInv == Spec => []IInv
<1>1. IInv /\ [Next]_vars => IInv'
  BY NextIInv
<1>2. QED
  BY <1>1, InitIInv, PTL DEF Spec

-----------------------------------------------------------------------------
(* The theorems.                                                           *)

(* The entries of every chunk stay in the order of their cycles, one for   *)
(* each, in both halves and through moves that write a cycle ahead: what   *)
(* the binary searches rely on (TagVecValue31::addTagValue).               *)
THEOREM EntriesSorted == Spec => []Sorted
<1>1. IInv => Sorted
  BY DEF IInv, Sorted, AllVecs, HalvesOK, VecOK, InOrder
<1>2. QED
  BY <1>1, SpecIInv, PTL

(* Compression never closes a chunk the trace will write to again, however *)
(* its cycles advance (TagIdVecNode::compressYourSelf, DBListener::Cycle). *)
THEOREM NoWriteRefused == Spec => []WritesAccepted
<1>1. IInv => WritesAccepted
  BY DEF IInv
<1>2. QED
  BY <1>1, SpecIInv, PTL

(* No chunk past the array is asked for, in a trace of any length, until   *)
(* the last cycle a trace may have, and not then either by a track nothing *)
(* moves along (TrackHeap::addMoveItem, checkCycleChunk).                  *)
THEOREM StaysWithinArray == Spec => []WithinArray
<1>1. IInv => WithinArray
  BY DEF IInv, Roomy, WithinTag, WithinArray
<1>2. QED
  BY <1>1, SpecIInv, PTL

-----------------------------------------------------------------------------
(* Arithmetic of chunks.                                                   *)

(* The first cycle of a chunk.                                             *)
Start(k) == CHUNK * k

LEMMA Starts ==
    /\ \A k \in Nat : Start(k) \in Nat /\ k * CHUNK = Start(k)
    /\ \A j, k \in Nat : j < k => Start(j) + CHUNK <= Start(k)
<1>1. CHUNK \in Nat \ {0}
  BY Sizes
<1>2. \A k \in Nat : Start(k) \in Nat /\ k * CHUNK = Start(k)
  BY <1>1 DEF Start
<1>3. ASSUME NEW j \in Nat, NEW k \in Nat, j < k PROVE Start(j) + CHUNK <= Start(k)
  <2>1. PICK n \in Nat : k = j + 1 + n
    <3>1. k - j - 1 \in Nat /\ k = j + 1 + (k - j - 1)
      BY <1>3
    <3>2. QED
      BY <3>1
  <2>2. CHUNK * (j + 1 + n) = CHUNK * j + CHUNK + CHUNK * n
    BY <1>1
  <2>3. CHUNK * n \in Nat /\ CHUNK * j \in Nat
    BY <1>1
  <2>4. QED
    BY <1>1, <2>1, <2>2, <2>3 DEF Start
<1>4. QED
  BY <1>2, <1>3

LEMMA InChunkOf ==
    ASSUME NEW c \in Nat
    PROVE  /\ c \div CHUNK \in Nat /\ c % CHUNK \in 0 .. CHUNK - 1
           /\ c = Start(c \div CHUNK) + (c % CHUNK)
BY Division, Sizes DEF Start

LEMMA ChunkOf ==
    ASSUME NEW k \in Nat, NEW o \in 0 .. CHUNK - 1, NEW c \in Nat, c = Start(k) + o
    PROVE  c \div CHUNK = k /\ c % CHUNK = o
<1> DEFINE j == c \div CHUNK
           r == c % CHUNK
<1>1. j \in Nat /\ r \in 0 .. CHUNK - 1 /\ c = Start(j) + r
  BY InChunkOf
<1> HIDE DEF j, r
<1>2. CHUNK \in Nat /\ Start(j) \in Nat /\ Start(k) \in Nat
  BY <1>1, Starts, Sizes
<1>3. ~(j < k)
  <2>1. j < k => Start(j) + CHUNK <= Start(k)
    BY <1>1, Starts
  <2>2. QED
    BY <1>1, <1>2, <2>1
<1>4. ~(k < j)
  <2>1. k < j => Start(k) + CHUNK <= Start(j)
    BY <1>1, Starts
  <2>2. QED
    BY <1>1, <1>2, <2>1
<1>5. j = k
  BY <1>1, <1>3, <1>4
<1>6. r = o
  BY <1>1, <1>2, <1>5
<1>7. QED
  BY <1>5, <1>6 DEF j, r

LEMMA ChunkMonotone ==
    ASSUME NEW c \in Nat, NEW d \in Nat, c <= d
    PROVE  c \div CHUNK <= d \div CHUNK
<1> DEFINE j == c \div CHUNK
           k == d \div CHUNK
           r == c % CHUNK
           o == d % CHUNK
<1>1. j \in Nat /\ r \in 0 .. CHUNK - 1 /\ c = Start(j) + r
  BY InChunkOf
<1>2. k \in Nat /\ o \in 0 .. CHUNK - 1 /\ d = Start(k) + o
  BY InChunkOf
<1> HIDE DEF j, k, r, o
<1>3. CHUNK \in Nat /\ Start(j) \in Nat /\ Start(k) \in Nat
  BY <1>1, <1>2, Starts, Sizes
<1>4. k < j => Start(k) + CHUNK <= Start(j)
  BY <1>1, <1>2, Starts
<1>5. j <= k
  BY <1>1, <1>2, <1>3, <1>4
<1>6. QED
  BY <1>5 DEF j, k

LEMMA Least ==
    ASSUME NEW T \in SUBSET Nat, T # {}
    PROVE  \E x \in T : \A y \in T : x <= y
<1> DEFINE R == OpToRel(<, Nat)
<1>1. IsWellFoundedOn(R, Nat)
  BY NatLessThanWellFounded
<1>2. \A y, x \in Nat : <<y, x>> \in R <=> y < x
  BY DEF OpToRel
<1> HIDE DEF R
<1>3. PICK x \in T : \A y \in T : ~(<<y, x>> \in R)
  BY <1>1, WFMin
<1>4. ASSUME NEW y \in T PROVE x <= y
  <2>1. x \in Nat /\ y \in Nat
    OBVIOUS
  <2>2. ~(y < x)
    BY <1>2, <1>3, <2>1
  <2>3. QED
    BY <2>1, <2>2
<1>5. QED
  BY <1>4

LEMMA Largest ==
    ASSUME NEW T \in SUBSET Int, T # {}, NEW b \in Int, \A y \in T : y <= b
    PROVE  Max(T) \in T /\ \A y \in T : y <= Max(T)
<1> DEFINE U == {n \in Nat : b - n \in T}
<1>1. ASSUME NEW y \in T PROVE b - y \in U
  BY <1>1
<1>2. U \in SUBSET Nat /\ U # {} /\ \A n \in U : b - n \in T
  BY <1>1
<1> HIDE DEF U
<1>3. PICK n \in U : \A m \in U : n <= m
  BY <1>2, Least
<1>4. n \in Nat /\ b - n \in T
  BY <1>2
<1>5. ASSUME NEW y \in T PROVE y <= b - n
  <2>1. n <= b - y /\ y \in Int
    BY <1>1, <1>3
  <2>2. QED
    BY <1>4, <2>1
<1>6. \E x \in T : \A y \in T : x >= y
  BY <1>4, <1>5
<1>7. QED
  BY <1>6 DEF Max

-----------------------------------------------------------------------------
(* The search of one half, of a forwarded tag.                             *)

Vec(t, p, k) == t.cycleVec[p][k]

Hits(t, p, k, d) ==
    IF Vec(t, p, k) = NULL THEN {} ELSE MatchesFwd(Vec(t, p, k).entries, SearchOffset(d, k))

FoundChunks(t, p, d) == {k \in t.firstCycle \div CHUNK .. d \div CHUNK : Hits(t, p, k, d) # {}}

Taken(t, p, d) ==
    LET k == Max(FoundChunks(t, p, d))
        e == Vec(t, p, k).entries[Max(Hits(t, p, k, d))]
    IN  [at |-> k * CHUNK + e.offset, value |-> e.value]

Searched(t, p, c) ==
    LET d == Min({c, t.lastCycle})
    IN  IF c < t.firstCycle \/ d > t.lastCycle \/ FoundChunks(t, p, d) = {}
        THEN NotFound ELSE Taken(t, p, d)

LEMMA SearchedFwd ==
    ASSUME use.fwd, NEW t, NEW p, NEW c
    PROVE  internalGetTagValue(t, p, c) = Searched(t, p, c)
BY DEF internalGetTagValue, Searched, Taken, FoundChunks, Hits, Vec, Clamp, minChunk, Matches

(* There is an entry for cycle a in half p, with value v.                  *)
Holds(t, p, a, v) ==
    \E k \in Chunks : /\ Vec(t, p, k) # NULL
                      /\ \E i \in DOMAIN Vec(t, p, k).entries :
                            /\ a = Start(k) + Vec(t, p, k).entries[i].offset
                            /\ v = Vec(t, p, k).entries[i].value

(* The entries are in order, within the first and the last cycle the tag   *)
(* knows of, and no further back than a search can see.                    *)
InReach(t, vec, k) ==
    vec # NULL =>
        /\ InOrder(vec.entries)
        /\ \A i \in DOMAIN vec.entries :
              LET a == Start(k) + vec.entries[i].offset
              IN  t.firstCycle <= a /\ a <= t.lastCycle

Kept(t) ==
    /\ t \in TagType /\ t.lastCycle < OFFSETS
    /\ \A p \in Phases, k \in Chunks : InReach(t, Vec(t, p, k), k)

(* What a search back from cycle c finds.                                  *)
IsLatest(t, p, c, r) ==
    \/ /\ r = NotFound
       /\ \A a \in Int, v \in Stored : Holds(t, p, a, v) => c < a
    \/ /\ r.at \in Int /\ r.value \in Stored /\ r = [at |-> r.at, value |-> r.value]
       /\ Holds(t, p, r.at, r.value) /\ r.at <= c
       /\ \A a \in Int, v \in Stored : Holds(t, p, a, v) /\ a <= c => a <= r.at

LEMMA KeptTypes ==
    ASSUME NEW t, Kept(t)
    PROVE  /\ t.firstCycle \in Nat /\ t.lastCycle \in Nat /\ t.lastCycle < OFFSETS
           /\ t.lastCycle \in 0 .. MAXCYCLES
           /\ \A p \in Phases, k \in Chunks : Vec(t, p, k) \in TagVec \cup {NULL}
BY Sizes DEF Kept, TagType, Vec

LEMMA EntriesTyped ==
    ASSUME NEW vec \in TagVec \cup {NULL}, vec # NULL
    PROVE  /\ vec.entries \in Seq(Entry) /\ DOMAIN vec.entries = 1 .. Len(vec.entries)
           /\ Len(vec.entries) \in Nat
           /\ \A i \in DOMAIN vec.entries :
                 /\ vec.entries[i] \in Entry
                 /\ vec.entries[i].offset \in 0 .. CHUNK - 1 /\ vec.entries[i].offset \in Nat
                 /\ vec.entries[i].value \in Stored
<1>1. vec.entries \in Seq(Entry)
  BY DEF TagVec
<1>2. \A e \in Entry : e.offset \in 0 .. CHUNK - 1 /\ e.value \in Stored
  BY DEF Entry, Stored
<1> DEFINE es == vec.entries
<1> HIDE DEF es
<1>3. es \in Seq(Entry)
  BY <1>1 DEF es
<1>4. \A i \in DOMAIN es : es[i] \in Entry
  BY <1>3
<1>5. DOMAIN es = 1 .. Len(es) /\ Len(es) \in Nat
  BY <1>3
<1>6. \A o \in 0 .. CHUNK - 1 : o \in Nat
  BY Sizes
<1>7. QED
  BY <1>2, <1>3, <1>4, <1>5, <1>6 DEF es

(* Every chunk between the first cycle and d is one of the array, and its  *)
(* hits are the entries up to d.                                           *)
LEMMA HitsOf ==
    ASSUME NEW t, Kept(t), NEW p \in Phases, NEW d \in Nat, d <= t.lastCycle,
           NEW k \in t.firstCycle \div CHUNK .. d \div CHUNK
    PROVE  /\ k \in Chunks
           /\ Hits(t, p, k, d) =
                 IF Vec(t, p, k) = NULL THEN {}
                 ELSE {i \in DOMAIN Vec(t, p, k).entries :
                          Start(k) + Vec(t, p, k).entries[i].offset <= d}
<1>1. /\ t.firstCycle \in Nat /\ t.lastCycle \in Nat /\ t.lastCycle < OFFSETS
      /\ t.lastCycle \in 0 .. MAXCYCLES
  BY KeptTypes
<1> DEFINE j == t.firstCycle \div CHUNK
           n == d \div CHUNK
           m == t.lastCycle \div CHUNK
           r == d % CHUNK
<1>2. j \in Nat /\ n \in Nat /\ n <= m /\ m \in Chunks
  BY <1>1, InChunkOf, InChunk, ChunkMonotone
<1>3. r \in 0 .. CHUNK - 1 /\ d = Start(n) + r
  BY InChunkOf
<1> HIDE DEF j, n, m, r
<1>4. k \in j .. n
  BY DEF j, n
<1>5. k \in Nat /\ k \in Chunks
  BY <1>2, <1>4, Sizes DEF Chunks
<1>6. Start(k) \in Nat /\ Start(k) <= d /\ k * CHUNK = Start(k)
  <2>1. Start(k) \in Nat /\ Start(n) \in Nat /\ k * CHUNK = Start(k)
    BY <1>2, <1>5, Starts
  <2>2. k < n => Start(k) + CHUNK <= Start(n)
    BY <1>2, <1>5, Starts
  <2>3. k = n \/ k < n
    BY <1>2, <1>4, <1>5
  <2>4. QED
    BY <1>3, <2>1, <2>2, <2>3, Sizes
<1>7. SearchOffset(d, k) = d - Start(k)
  <2> DEFINE x == d - Start(k)
  <2>1. x \in Nat /\ x < OFFSETS
    BY <1>1, <1>6, SizesAssumption
  <2>2. OFFSETS \in Nat \ {0}
    BY SizesAssumption
  <2> HIDE DEF x
  <2>3. x % OFFSETS = x
    BY <2>1, <2>2
  <2>4. QED
    BY <1>6, <2>3 DEF SearchOffset, x
<1>8. CASE Vec(t, p, k) = NULL
  BY <1>5, <1>8 DEF Hits
<1>9. CASE Vec(t, p, k) # NULL
  <2> DEFINE es == Vec(t, p, k).entries
             b == Start(k)
  <2>1. \A i \in DOMAIN es : es[i].offset \in Nat
    BY <1>5, <1>9, KeptTypes, EntriesTyped
  <2>2. Hits(t, p, k, d) = {i \in DOMAIN es : es[i].offset <= d - b}
    BY <1>7, <1>9 DEF Hits, MatchesFwd
  <2> HIDE DEF es, b
  <2>3. b \in Nat
    BY <1>6 DEF b
  <2>4. \A i \in DOMAIN es : es[i].offset <= d - b <=> b + es[i].offset <= d
    <3>1. SUFFICES ASSUME NEW i \in DOMAIN es
                   PROVE  es[i].offset <= d - b <=> b + es[i].offset <= d
      OBVIOUS
    <3>2. PICK o \in Nat : o = es[i].offset
      BY <2>1
    <3>3. QED
      BY <2>3, <3>2
  <2>5. Hits(t, p, k, d) = {i \in DOMAIN es : b + es[i].offset <= d}
    BY <2>2, <2>4
  <2>6. QED
    BY <1>5, <1>9, <2>5 DEF es, b
<1>10. QED
  BY <1>8, <1>9

(* An entry up to d is among the hits of its chunk.                        *)
LEMMA HeldFound ==
    ASSUME NEW t, Kept(t), NEW p \in Phases, NEW d \in Nat, d <= t.lastCycle,
           NEW a \in Int, NEW v, Holds(t, p, a, v), a <= d
    PROVE  \E k \in FoundChunks(t, p, d) : \E i \in Hits(t, p, k, d) :
              /\ Vec(t, p, k) # NULL /\ i \in DOMAIN Vec(t, p, k).entries
              /\ a = Start(k) + Vec(t, p, k).entries[i].offset
              /\ v = Vec(t, p, k).entries[i].value
<1>1. PICK k \in Chunks : /\ Vec(t, p, k) # NULL
                          /\ \E i \in DOMAIN Vec(t, p, k).entries :
                                /\ a = Start(k) + Vec(t, p, k).entries[i].offset
                                /\ v = Vec(t, p, k).entries[i].value
  BY DEF Holds
<1>2. PICK i \in DOMAIN Vec(t, p, k).entries :
               /\ a = Start(k) + Vec(t, p, k).entries[i].offset
               /\ v = Vec(t, p, k).entries[i].value
  BY <1>1
<1> DEFINE o == Vec(t, p, k).entries[i].offset
<1>3. o \in 0 .. CHUNK - 1 /\ o \in Nat /\ k \in Nat
  BY <1>1, KeptTypes, EntriesTyped DEF Chunks
<1>4. t.firstCycle <= a /\ t.firstCycle \in Nat
  BY <1>1, <1>2, KeptTypes DEF Kept, InReach
<1>5. a \in Nat
  BY <1>4
<1>6. a \div CHUNK = k
  <2> HIDE DEF o
  <2>1. a = Start(k) + o
    BY <1>2 DEF o
  <2>2. QED
    BY <1>3, <1>5, <2>1, ChunkOf
<1>7. k \in t.firstCycle \div CHUNK .. d \div CHUNK
  <2>1. t.firstCycle \div CHUNK <= a \div CHUNK /\ a \div CHUNK <= d \div CHUNK
    BY <1>4, <1>5, ChunkMonotone
  <2>2. t.firstCycle \div CHUNK \in Nat /\ d \div CHUNK \in Nat
    BY <1>4, InChunkOf
  <2>3. QED
    BY <1>3, <1>6, <2>1, <2>2
<1>8. i \in Hits(t, p, k, d)
  BY <1>1, <1>2, <1>7, HitsOf
<1>9. k \in FoundChunks(t, p, d)
  BY <1>7, <1>8 DEF FoundChunks
<1>10. QED
  BY <1>1, <1>2, <1>8, <1>9

LEMMA TakenLatest ==
    ASSUME NEW t, Kept(t), NEW p \in Phases, NEW d \in Nat, d <= t.lastCycle,
           FoundChunks(t, p, d) # {}
    PROVE  LET r == Taken(t, p, d)
           IN  /\ r.at \in Int /\ r.value \in Stored
               /\ r = [at |-> r.at, value |-> r.value]
               /\ Holds(t, p, r.at, r.value) /\ r.at <= d
               /\ \A a \in Int, v \in Stored : Holds(t, p, a, v) /\ a <= d => a <= r.at
<1> DEFINE F == FoundChunks(t, p, d)
           k == Max(F)
           lo == t.firstCycle \div CHUNK
           hi == d \div CHUNK
<1>1. lo \in Nat /\ hi \in Nat
  BY KeptTypes, InChunkOf
<1>2. F \subseteq lo .. hi /\ \A j \in F : Hits(t, p, j, d) # {}
  BY DEF FoundChunks
<1>3. k \in F /\ \A j \in F : j <= k
  <2> HIDE DEF F, lo, hi
  <2>1. F \in SUBSET Int /\ \A j \in F : j <= hi
    BY <1>1, <1>2
  <2>2. F # {}
    BY DEF F
  <2>3. hi \in Int
    BY <1>1
  <2>4. QED
    BY <2>1, <2>2, <2>3, Largest, Zenon
<1> HIDE DEF k
<1>4. k \in lo .. hi /\ k \in Chunks /\ k \in Nat
  BY <1>2, <1>3, HitsOf DEF Chunks
<1> DEFINE es == Vec(t, p, k).entries
           G == Hits(t, p, k, d)
           i == Max(G)
           b == Start(k)
<1>5. Vec(t, p, k) # NULL /\ G = {j \in DOMAIN es : b + es[j].offset <= d} /\ G # {}
  BY <1>2, <1>3, <1>4, HitsOf
<1>6. /\ DOMAIN es = 1 .. Len(es) /\ Len(es) \in Nat
      /\ \A j \in DOMAIN es : es[j].offset \in 0 .. CHUNK - 1 /\ es[j].offset \in Nat
                              /\ es[j].value \in Stored
  BY <1>4, <1>5, KeptTypes, EntriesTyped
<1>7. InOrder(es)
  BY <1>4, <1>5 DEF Kept, InReach
<1> HIDE DEF G, es, b
<1>8. i \in G /\ \A j \in G : j <= i
  <2>1. G \in SUBSET Int /\ \A j \in G : j <= Len(es)
    BY <1>5, <1>6
  <2>2. Len(es) \in Int /\ G # {}
    BY <1>5, <1>6
  <2>3. QED
    BY <2>1, <2>2, Largest, Zenon
<1> HIDE DEF i
<1>9. i \in DOMAIN es /\ b + es[i].offset <= d /\ b \in Nat /\ b = k * CHUNK
  BY <1>4, <1>5, <1>8, Starts DEF b
<1>10. PICK o \in Nat : o = es[i].offset /\ o \in 0 .. CHUNK - 1
  BY <1>6, <1>9
<1> DEFINE r == Taken(t, p, d)
<1>11. r = [at |-> b + o, value |-> es[i].value]
  BY <1>9, <1>10 DEF Taken, k, i, es, G, F
<1> HIDE DEF r
<1>12. /\ r.at = b + o /\ r.value = es[i].value /\ r.at \in Int /\ r.value \in Stored
       /\ r = [at |-> r.at, value |-> r.value] /\ r.at <= d
  BY <1>6, <1>9, <1>10, <1>11
<1>13. Holds(t, p, r.at, r.value)
  BY <1>4, <1>5, <1>9, <1>10, <1>12 DEF Holds, es, b
<1>14. ASSUME NEW a \in Int, NEW v \in Stored, Holds(t, p, a, v), a <= d PROVE a <= r.at
  <2>1. PICK j \in F : \E n \in Hits(t, p, j, d) :
                 /\ Vec(t, p, j) # NULL /\ n \in DOMAIN Vec(t, p, j).entries
                 /\ a = Start(j) + Vec(t, p, j).entries[n].offset
                 /\ v = Vec(t, p, j).entries[n].value
    BY <1>14, HeldFound
  <2>2. PICK n \in Hits(t, p, j, d) :
                 /\ Vec(t, p, j) # NULL /\ n \in DOMAIN Vec(t, p, j).entries
                 /\ a = Start(j) + Vec(t, p, j).entries[n].offset
    BY <2>1
  <2>3. j \in Chunks /\ j \in Nat /\ j <= k
    BY <1>2, <1>3, HitsOf DEF Chunks
  <2>4. PICK u \in Nat : u = Vec(t, p, j).entries[n].offset /\ u \in 0 .. CHUNK - 1
    BY <2>2, <2>3, KeptTypes, EntriesTyped
  <2>5. a = Start(j) + u /\ Start(j) \in Nat
    BY <2>2, <2>3, <2>4, Starts
  <2>6. CASE j < k
    <3>1. Start(j) + CHUNK <= b
      BY <1>4, <2>3, <2>6, Starts DEF b
    <3>2. QED
      BY <1>9, <1>10, <1>12, <2>4, <2>5, <3>1, Sizes
  <2>7. CASE j = k
    <3>1. n \in G /\ n \in DOMAIN es /\ u = es[n].offset
      BY <2>2, <2>4, <2>7 DEF G, es
    <3>2. n <= i /\ n \in Nat /\ i \in Nat
      BY <1>6, <1>8, <1>9, <3>1
    <3>3. u <= o
      BY <1>7, <1>9, <1>10, <2>4, <3>1, <3>2 DEF InOrder
    <3>4. QED
      BY <1>9, <1>10, <1>12, <2>5, <2>7, <3>3 DEF b
  <2>8. QED
    BY <1>4, <2>3, <2>6, <2>7
<1>15. QED
  BY <1>12, <1>13, <1>14 DEF r

(* A search finds the last entry up to the cycle that is asked for, in     *)
(* whatever chunk it is.                                                   *)
LEMMA SearchedLatest ==
    ASSUME NEW t, Kept(t), NEW p \in Phases, NEW c \in Int
    PROVE  IsLatest(t, p, c, Searched(t, p, c))
<1> DEFINE d == Min({c, t.lastCycle})
<1>1. t.firstCycle \in Nat /\ t.lastCycle \in Nat
  BY KeptTypes
<1>2. d = IF c <= t.lastCycle THEN c ELSE t.lastCycle
  BY <1>1, MinOfTwo
<1>3. \A a \in Int, v \in Stored : Holds(t, p, a, v) => t.firstCycle <= a /\ a <= t.lastCycle
  BY DEF Holds, Kept, InReach
<1>4. CASE c < t.firstCycle
  <2>1. Searched(t, p, c) = NotFound
    BY <1>4 DEF Searched
  <2>2. QED
    BY <1>1, <1>3, <1>4, <2>1 DEF IsLatest
<1>5. CASE ~(c < t.firstCycle)
  <2>1. d \in Nat /\ d <= t.lastCycle /\ d <= c /\ ~(d > t.lastCycle)
    BY <1>1, <1>2, <1>5
  <2>2. \A a \in Int : a <= t.lastCycle => (a <= c <=> a <= d)
    BY <1>1, <1>2
  <2>3. Searched(t, p, c) = IF FoundChunks(t, p, d) = {} THEN NotFound ELSE Taken(t, p, d)
    BY <1>5, <2>1 DEF Searched
  <2> HIDE DEF d
  <2>4. CASE FoundChunks(t, p, d) = {}
    <3>1. \A a \in Int, v \in Stored : Holds(t, p, a, v) => ~(a <= d)
      BY <2>1, <2>4, HeldFound
    <3>2. \A a \in Int, v \in Stored : Holds(t, p, a, v) => c < a
      BY <1>3, <2>2, <3>1
    <3>3. QED
      BY <2>3, <2>4, <3>2 DEF IsLatest
  <2>5. CASE FoundChunks(t, p, d) # {}
    <3> DEFINE r == Taken(t, p, d)
    <3>1. /\ r.at \in Int /\ r.value \in Stored /\ r = [at |-> r.at, value |-> r.value]
          /\ Holds(t, p, r.at, r.value) /\ r.at <= d
          /\ \A a \in Int, v \in Stored : Holds(t, p, a, v) /\ a <= d => a <= r.at
      BY <2>1, <2>5, TakenLatest
    <3>2. Searched(t, p, c) = r
      BY <2>3, <2>5
    <3> HIDE DEF r
    <3>3. r.at <= c
      BY <2>1, <3>1
    <3>4. \A a \in Int, v \in Stored : Holds(t, p, a, v) /\ a <= c => a <= r.at
      BY <1>3, <2>2, <3>1
    <3>5. QED
      BY <3>1, <3>2, <3>3, <3>4 DEF IsLatest
  <2>6. QED
    BY <2>4, <2>5
<1>6. QED
  BY <1>4, <1>5

-----------------------------------------------------------------------------
(* What a half holds, chunk by chunk.                                      *)

EntryAt(es, o, w) == \E i \in DOMAIN es : es[i].offset = o /\ es[i].value = w

LEMMA HoldsIn ==
    ASSUME NEW t, Kept(t), NEW p \in Phases, NEW k \in Chunks, NEW o \in 0 .. CHUNK - 1, NEW w
    PROVE  Holds(t, p, Start(k) + o, w) <=>
              Vec(t, p, k) # NULL /\ EntryAt(Vec(t, p, k).entries, o, w)
<1> DEFINE a == Start(k) + o
<1>1. k \in Nat /\ Start(k) \in Nat /\ o \in Nat /\ a \in Nat
  BY Starts, Sizes DEF Chunks
<1>2. ASSUME Vec(t, p, k) # NULL, EntryAt(Vec(t, p, k).entries, o, w) PROVE Holds(t, p, a, w)
  BY <1>2 DEF Holds, EntryAt
<1>3. ASSUME Holds(t, p, a, w)
      PROVE  Vec(t, p, k) # NULL /\ EntryAt(Vec(t, p, k).entries, o, w)
  <2>1. PICK j \in Chunks : /\ Vec(t, p, j) # NULL
                            /\ \E i \in DOMAIN Vec(t, p, j).entries :
                                  /\ a = Start(j) + Vec(t, p, j).entries[i].offset
                                  /\ w = Vec(t, p, j).entries[i].value
    BY <1>3 DEF Holds
  <2>2. PICK i \in DOMAIN Vec(t, p, j).entries :
                 /\ a = Start(j) + Vec(t, p, j).entries[i].offset
                 /\ w = Vec(t, p, j).entries[i].value
    BY <2>1
  <2>3. PICK n \in Nat : n = Vec(t, p, j).entries[i].offset /\ n \in 0 .. CHUNK - 1
    BY <2>1, KeptTypes, EntriesTyped
  <2>4. j \in Nat /\ Start(j) \in Nat /\ a = Start(j) + n
    BY <2>2, <2>3, Starts DEF Chunks
  <2>5. a \div CHUNK = j /\ a % CHUNK = n
    <3> HIDE DEF a
    <3>1. QED
      BY <1>1, <2>3, <2>4, ChunkOf
  <2>6. a \div CHUNK = k /\ a % CHUNK = o
    <3>1. a = Start(k) + o
      OBVIOUS
    <3> HIDE DEF a
    <3>2. QED
      BY <1>1, <3>1, ChunkOf
  <2>7. j = k /\ n = o
    BY <2>5, <2>6
  <2>8. QED
    BY <2>1, <2>2, <2>3, <2>7 DEF EntryAt
<1>4. QED
  BY <1>2, <1>3

LEMMA HoldsSome ==
    ASSUME NEW t, Kept(t), NEW p \in Phases, NEW a, NEW w, Holds(t, p, a, w)
    PROVE  /\ a \in Nat /\ w \in Stored
           /\ \E k \in Chunks, o \in 0 .. CHUNK - 1 :
                 a = Start(k) + o /\ Vec(t, p, k) # NULL /\ EntryAt(Vec(t, p, k).entries, o, w)
<1>1. PICK k \in Chunks : /\ Vec(t, p, k) # NULL
                          /\ \E i \in DOMAIN Vec(t, p, k).entries :
                                /\ a = Start(k) + Vec(t, p, k).entries[i].offset
                                /\ w = Vec(t, p, k).entries[i].value
  BY DEF Holds
<1>2. PICK i \in DOMAIN Vec(t, p, k).entries :
               /\ a = Start(k) + Vec(t, p, k).entries[i].offset
               /\ w = Vec(t, p, k).entries[i].value
  BY <1>1
<1>3. PICK n \in 0 .. CHUNK - 1 : n = Vec(t, p, k).entries[i].offset
  BY <1>1, KeptTypes, EntriesTyped
<1>4. w \in Stored
  BY <1>1, <1>2, KeptTypes, EntriesTyped
<1>5. a = Start(k) + n /\ Start(k) \in Nat /\ n \in Nat
  BY <1>2, <1>3, Starts, Sizes DEF Chunks
<1>6. a \in Nat
  BY <1>5
<1>7. EntryAt(Vec(t, p, k).entries, n, w)
  BY <1>2, <1>3 DEF EntryAt
<1>8. QED
  BY <1>1, <1>4, <1>5, <1>6, <1>7

(* A half has one value for a cycle.                                       *)
LEMMA HoldsOnce ==
    ASSUME NEW t, Kept(t), NEW p \in Phases, NEW a, NEW v, NEW w,
           Holds(t, p, a, v), Holds(t, p, a, w)
    PROVE  v = w
<1>1. PICK k \in Chunks, o \in 0 .. CHUNK - 1 :
               a = Start(k) + o /\ Vec(t, p, k) # NULL /\ EntryAt(Vec(t, p, k).entries, o, v)
  BY HoldsSome
<1> DEFINE es == Vec(t, p, k).entries
<1>2. EntryAt(es, o, v) /\ EntryAt(es, o, w)
  BY <1>1, HoldsIn
<1>3. InOrder(es)
  BY <1>1 DEF Kept, InReach
<1>4. DOMAIN es = 1 .. Len(es) /\ Len(es) \in Nat /\ \A i \in DOMAIN es : es[i].offset \in Nat
  BY <1>1, KeptTypes, EntriesTyped
<1> HIDE DEF es
<1>5. PICK i \in DOMAIN es : es[i].offset = o /\ es[i].value = v
  BY <1>2 DEF EntryAt
<1>6. PICK j \in DOMAIN es : es[j].offset = o /\ es[j].value = w
  BY <1>2 DEF EntryAt
<1>7. i \in Int /\ j \in Int /\ o \in Nat
  BY <1>4, <1>5
<1>8. ~(i < j) /\ ~(j < i)
  BY <1>3, <1>5, <1>6, <1>7 DEF InOrder
<1>9. i = j
  BY <1>7, <1>8
<1>10. QED
  BY <1>5, <1>6, <1>9

(* What a search finds depends on the entries up to the cycle only.        *)
LEMMA SearchedSame ==
    ASSUME NEW t, Kept(t), NEW u, Kept(u), NEW p \in Phases, NEW c \in Int,
           \A a \in Int, v \in Stored : a <= c => (Holds(u, p, a, v) <=> Holds(t, p, a, v))
    PROVE  Searched(u, p, c) = Searched(t, p, c)
<1> DEFINE r == Searched(t, p, c)
           s == Searched(u, p, c)
<1>1. IsLatest(t, p, c, r) /\ IsLatest(u, p, c, s)
  BY SearchedLatest
<1> HIDE DEF r, s
<1>2. CASE r = NotFound /\ \A a \in Int, v \in Stored : Holds(t, p, a, v) => c < a
  <2>1. \A a \in Int, v \in Stored : Holds(u, p, a, v) => ~(a <= c)
    BY <1>2
  <2>2. s = NotFound
    BY <1>1, <2>1 DEF IsLatest
  <2>3. QED
    BY <1>2, <2>2 DEF r, s
<1>3. CASE /\ r.at \in Int /\ r.value \in Stored /\ r = [at |-> r.at, value |-> r.value]
           /\ Holds(t, p, r.at, r.value) /\ r.at <= c
           /\ \A a \in Int, v \in Stored : Holds(t, p, a, v) /\ a <= c => a <= r.at
  <2>1. Holds(u, p, r.at, r.value)
    BY <1>3
  <2>2. ~(c < r.at)
    BY <1>3
  <2>3. /\ s.at \in Int /\ s.value \in Stored /\ s = [at |-> s.at, value |-> s.value]
        /\ Holds(u, p, s.at, s.value) /\ s.at <= c
        /\ \A a \in Int, v \in Stored : Holds(u, p, a, v) /\ a <= c => a <= s.at
    BY <1>1, <1>3, <2>1, <2>2 DEF IsLatest
  <2>4. r.at <= s.at /\ s.at <= r.at
    BY <1>3, <2>1, <2>3
  <2>5. r.at = s.at
    BY <1>3, <2>3, <2>4
  <2>6. r.value = s.value
    BY <2>1, <2>3, <2>5, HoldsOnce
  <2>7. QED
    BY <1>3, <2>3, <2>5, <2>6 DEF r, s
<1>4. QED
  BY <1>1, <1>2, <1>3 DEF IsLatest

-----------------------------------------------------------------------------
(* What a write changes.                                                   *)

(* The entries before an offset stay; from it on there is the value, or    *)
(* already none.                                                           *)
Replaced(es, r, off, v) ==
    /\ \A o \in Nat, w \in Stored : o < off => (EntryAt(r, o, w) <=> EntryAt(es, o, w))
    /\ \/ EntryAt(r, off, v)
       \/ /\ v = NONE
          /\ \E o \in Nat : EntryAt(r, o, NONE) /\ \A i \in DOMAIN r : r[i].offset <= o

LEMMA PutReplaces ==
    ASSUME NEW es \in Seq(Entry), NEW off \in 0 .. CHUNK - 1, NEW v \in Stored, InOrder(es),
           \A i \in DOMAIN es : es[i].offset <= off
    PROVE  Replaced(es, Put(es, off, v), off, v)
<1> DEFINE e == [offset |-> off, value |-> v]
           n == Len(es)
<1>0. /\ \A i \in DOMAIN es : es[i] \in Entry /\ es[i].offset \in Nat
      /\ off \in Nat /\ DOMAIN es = 1 .. n /\ n \in Nat
  BY Offsets, Sizes
<1>1. CASE Overwrites(es, off)
  <2> DEFINE r == [es EXCEPT ![n].value = v]
  <2>1. n \in DOMAIN es /\ Put(es, off, v) = r /\ es[n].offset = off
    BY <1>1 DEF Overwrites, Put
  <2>2. /\ DOMAIN r = DOMAIN es
        /\ \A i \in DOMAIN es : r[i].offset = es[i].offset /\ (i # n => r[i].value = es[i].value)
        /\ r[n].value = v
    BY <1>0, <2>1 DEF Entry
  <2> HIDE DEF r
  <2>3. EntryAt(r, off, v)
    BY <2>1, <2>2 DEF EntryAt
  <2>4. ASSUME NEW o \in Nat, NEW w \in Stored, o < off
        PROVE  EntryAt(r, o, w) <=> EntryAt(es, o, w)
    <3>1. \A i \in DOMAIN es : es[i].offset = o => i # n
      BY <1>0, <2>1, <2>4
    <3>2. QED
      BY <2>2, <3>1 DEF EntryAt
  <2>5. QED
    BY <2>1, <2>3, <2>4 DEF Replaced
<1>2. CASE ~Overwrites(es, off) /\ v = NONE /\ es # <<>> /\ es[n].value = NONE
  <2>1. Put(es, off, v) = es
    BY <1>2 DEF Put
  <2>2. n \in DOMAIN es
    BY <1>0, <1>2
  <2>3. \A i \in DOMAIN es : es[i].offset <= es[n].offset
    <3>1. SUFFICES ASSUME NEW i \in DOMAIN es PROVE es[i].offset <= es[n].offset
      OBVIOUS
    <3>2. i < n \/ i = n
      BY <1>0
    <3>3. es[i].offset \in Nat /\ es[n].offset \in Nat
      BY <1>0, <2>2
    <3>4. QED
      BY <2>2, <3>2, <3>3 DEF InOrder
  <2>4. EntryAt(es, es[n].offset, NONE) /\ es[n].offset \in Nat
    BY <1>0, <1>2, <2>2 DEF EntryAt
  <2>5. QED
    BY <1>2, <2>1, <2>3, <2>4 DEF Replaced
<1>3. CASE ~Overwrites(es, off) /\ ~(v = NONE /\ es # <<>> /\ es[n].value = NONE)
  <2> DEFINE r == Append(es, e)
  <2>1. Put(es, off, v) = r
    BY <1>3 DEF Put
  <2>2. /\ DOMAIN r = 1 .. n + 1
        /\ \A i \in DOMAIN es : r[i] = es[i]
        /\ r[n + 1].offset = off /\ r[n + 1].value = v
    OBVIOUS
  <2> HIDE DEF r
  <2>3. \A i \in DOMAIN r : i \in DOMAIN es \/ i = n + 1
    BY <1>0, <2>2
  <2>4. EntryAt(r, off, v)
    BY <1>0, <2>2 DEF EntryAt
  <2>5. ASSUME NEW o \in Nat, NEW w \in Stored, o < off
        PROVE  EntryAt(r, o, w) <=> EntryAt(es, o, w)
    <3>1. \A i \in DOMAIN r : r[i].offset = o => i \in DOMAIN es
      BY <1>0, <2>2, <2>3, <2>5
    <3>2. DOMAIN es \subseteq DOMAIN r
      BY <1>0, <2>2
    <3>3. QED
      BY <2>2, <3>1, <3>2 DEF EntryAt
  <2>6. QED
    BY <2>1, <2>4, <2>5 DEF Replaced
<1>4. QED
  BY <1>1, <1>2, <1>3

(* A chunk that was written to.                                            *)
LEMMA WrittenReplaces ==
    ASSUME NEW vec \in TagVec \cup {NULL}, NEW off \in 0 .. CHUNK - 1, NEW v \in Stored,
           ~Closed(vec),
           vec # NULL => /\ InOrder(vec.entries)
                         /\ \A i \in DOMAIN vec.entries : vec.entries[i].offset <= off
    PROVE  LET new == Written(vec, off, v)
           IN  /\ new \in TagVec /\ new # NULL /\ InOrder(new.entries)
               /\ \A i \in DOMAIN new.entries : new.entries[i].offset <= off
               /\ \/ vec # NULL /\ Replaced(vec.entries, new.entries, off, v)
                  \/ vec = NULL /\ Replaced(<<>>, new.entries, off, v)
<1> DEFINE a == Allocated(vec)
           es == a.entries
           r == Put(es, off, v)
           new == Written(vec, off, v)
<1>1. a \in TagVec /\ es \in Seq(Entry)
  BY DEF Allocated, TagVec
<1>2. es = IF vec = NULL THEN <<>> ELSE vec.entries
  BY DEF Allocated
<1>3. InOrder(es) /\ \A i \in DOMAIN es : es[i].offset <= off
  <2>1. CASE vec = NULL
    BY <1>2, <2>1 DEF InOrder
  <2>2. CASE vec # NULL
    BY <1>2, <2>2
  <2>3. QED
    BY <2>1, <2>2
<1>4. r \in Seq(Entry) /\ r # <<>> /\ InOrder(r) /\ \A i \in DOMAIN r : r[i].offset <= off
  BY <1>1, <1>3, PutType, PutOrder
<1>5. Replaced(es, r, off, v)
  BY <1>1, <1>3, PutReplaces
<1>6. new = [a EXCEPT !.entries = r]
  BY DEF Written
<1>7. new \in TagVec /\ new.entries = r
  <2> HIDE DEF a, r, new
  <2>1. QED
    BY <1>1, <1>4, <1>6 DEF TagVec
<1>8. new # NULL
  BY <1>7, NullAssumption
<1>9. QED
  BY <1>2, <1>4, <1>5, <1>7, <1>8

(* The fields of a tag after a write.                                      *)
LEMMA EnteredFields ==
    ASSUME NEW t \in TagType, NEW c \in 0 .. MAXCYCLES - 1, NEW p \in Phases, NEW v \in Stored,
           ~Repeats(t, v)
    PROVE  LET u == Entered(t, c, p, v)
           IN  /\ u \in TagType /\ u.lastValue = v
               /\ \A q \in Phases, k \in Chunks :
                     Vec(u, q, k) = IF q = p /\ k = c \div CHUNK
                                    THEN Written(Vec(t, p, k), c % CHUNK, v) ELSE Vec(t, q, k)
               /\ u.lastCycle \in Int /\ t.lastCycle <= u.lastCycle /\ c <= u.lastCycle
               /\ u.lastCycle = c \/ u.lastCycle = t.lastCycle
               /\ u.firstCycle \in Int /\ u.firstCycle <= t.firstCycle /\ u.firstCycle <= c
<1> DEFINE u == Entered(t, c, p, v)
           w == Written(Vec(t, p, c \div CHUNK), c % CHUNK, v)
           vecs == [t.cycleVec EXCEPT ![p][c \div CHUNK] = w]
<1>0. c \in Int /\ c \in 0 .. MAXCYCLES /\ MAXCYCLES \in Nat \ {0}
  BY Sizes
<1>1. c \div CHUNK \in Chunks
  BY <1>0, InChunk
<1>2. /\ t.cycleVec \in [Phases -> [Chunks -> TagVec \cup {NULL}]]
      /\ t.lastCycle \in 0 .. MAXCYCLES - 1 /\ t.firstCycle \in 0 .. MAXCYCLES - 1
      /\ t.lastCycle \in Int /\ t.firstCycle \in Int
  BY <1>0 DEF TagType
<1>3. u \in TagType
  BY <1>0, EnteredType
<1>4. \A n \in 0 .. MAXCYCLES - 1 : Clip(n) = n
  BY <1>0 DEF Clip
<1>5. /\ Max({c, t.lastCycle}) = IF c >= t.lastCycle THEN c ELSE t.lastCycle
      /\ Min({c, t.firstCycle}) = IF c <= t.firstCycle THEN c ELSE t.firstCycle
  BY <1>0, <1>2, MaxOfTwo, MinOfTwo
<1>6. u = [t EXCEPT !.cycleVec = vecs,
                    !.lastCycle  = Clip(Max({c, t.lastCycle})),
                    !.firstCycle = Clip(Min({c, t.firstCycle})),
                    !.lastValue  = v]
  BY DEF Entered, TagType, Vec
<1> HIDE DEF u, w
<1>7. \A q \in Phases, k \in Chunks :
          vecs[q][k] = IF q = p /\ k = c \div CHUNK THEN w ELSE t.cycleVec[q][k]
  BY <1>1, <1>2
<1> HIDE DEF vecs
<1>8. /\ u.cycleVec = vecs /\ u.lastValue = v
      /\ u.lastCycle = Clip(Max({c, t.lastCycle}))
      /\ u.firstCycle = Clip(Min({c, t.firstCycle}))
  BY <1>6 DEF TagType
<1>9. /\ u.lastCycle = IF c >= t.lastCycle THEN c ELSE t.lastCycle
      /\ u.firstCycle = IF c <= t.firstCycle THEN c ELSE t.firstCycle
  BY <1>2, <1>4, <1>5, <1>8
<1>10. \A q \in Phases, k \in Chunks :
          Vec(u, q, k) = IF q = p /\ k = c \div CHUNK
                         THEN Written(Vec(t, p, k), c % CHUNK, v) ELSE Vec(t, q, k)
  BY <1>7, <1>8 DEF Vec, w
<1>11. QED
  BY <1>0, <1>2, <1>3, <1>8, <1>9, <1>10 DEF u

(* No entry of a half is after cycle c.                                    *)
Upto(t, p, c) == \A a \in Int, w \in Stored : Holds(t, p, a, w) => a <= c

SameHalf(u, t, q) == \A a \in Int, w \in Stored : Holds(u, q, a, w) <=> Holds(t, q, a, w)

(* From cycle c on, half p has value v.                                    *)
Ends(u, p, c, v) ==
    \/ Holds(u, p, c, v)
    \/ v = NONE /\ \E a \in Int : Holds(u, p, a, NONE) /\ Upto(u, p, a)

LEMMA EnteredHolds ==
    ASSUME NEW t, Kept(t), NEW c \in 0 .. MAXCYCLES - 1, c < OFFSETS, NEW p \in Phases,
           NEW v \in Stored, ~Repeats(t, v), ~Refuses(t, c, p, v), Upto(t, p, c)
    PROVE  LET u == Entered(t, c, p, v)
           IN  /\ Kept(u)
               /\ \A q \in Phases : q # p => SameHalf(u, t, q)
               /\ \A a \in Int, w \in Stored : a < c => (Holds(u, p, a, w) <=> Holds(t, p, a, w))
               /\ Upto(u, p, c) /\ Ends(u, p, c, v)
<1> DEFINE u == Entered(t, c, p, v)
           k == c \div CHUNK
           off == c % CHUNK
           b == Start(k)
           old == Vec(t, p, k)
           new == Vec(u, p, k)
<1>0. c \in Nat /\ c \in Int /\ c \in 0 .. MAXCYCLES /\ MAXCYCLES \in Nat \ {0} /\ t \in TagType
  BY Sizes DEF Kept
<1>1. k \in Chunks /\ k \in Nat /\ off \in 0 .. CHUNK - 1 /\ off \in Nat /\ c = b + off /\ b \in Nat
  <2>1. k \in Nat /\ off \in 0 .. CHUNK - 1 /\ c = b + off
    BY <1>0, InChunkOf
  <2>2. k \in Chunks
    BY <1>0, InChunk
  <2> HIDE DEF k, off
  <2>3. b \in Nat
    BY <2>1, Starts
  <2>4. off \in Nat
    BY <2>1, Sizes
  <2>5. QED
    BY <2>1, <2>2, <2>3, <2>4
<1>2. /\ u \in TagType
      /\ \A q \in Phases, j \in Chunks :
            Vec(u, q, j) = IF q = p /\ j = k THEN Written(Vec(t, p, j), off, v) ELSE Vec(t, q, j)
      /\ u.lastCycle \in Int /\ t.lastCycle <= u.lastCycle /\ c <= u.lastCycle
      /\ u.lastCycle = c \/ u.lastCycle = t.lastCycle
      /\ u.firstCycle \in Int /\ u.firstCycle <= t.firstCycle /\ u.firstCycle <= c
  BY <1>0, EnteredFields
<1>3. ~Closed(old)
  BY DEF Refuses, Vec
<1> HIDE DEF u, k, off, b, old, new
<1>4. old \in TagVec \cup {NULL} /\ new = Written(old, off, v) /\ Vec(t, p, k) = old
  BY <1>1, <1>2, KeptTypes DEF old, new
<1>5. ASSUME old # NULL
      PROVE  InOrder(old.entries) /\ \A i \in DOMAIN old.entries : old.entries[i].offset <= off
  <2>1. InOrder(old.entries)
    BY <1>1, <1>4, <1>5 DEF Kept, InReach
  <2>2. ASSUME NEW i \in DOMAIN old.entries PROVE old.entries[i].offset <= off
    <3>1. PICK o \in Nat : o = old.entries[i].offset /\ o \in 0 .. CHUNK - 1
      BY <1>4, <1>5, EntriesTyped
    <3>2. old.entries[i].value \in Stored
      BY <1>4, <1>5, EntriesTyped
    <3>3. EntryAt(old.entries, o, old.entries[i].value)
      BY <3>1 DEF EntryAt
    <3>4. Holds(t, p, Start(k) + o, old.entries[i].value)
      BY <1>1, <1>4, <1>5, <3>1, <3>3, HoldsIn
    <3>5. b + o \in Int
      BY <1>1, <3>1
    <3>6. b + o <= c
      BY <3>2, <3>4, <3>5 DEF Upto, b
    <3>7. QED
      BY <1>1, <3>1, <3>6
  <2>3. QED
    BY <2>1, <2>2
<1>6. /\ new \in TagVec /\ new # NULL /\ InOrder(new.entries)
      /\ \A i \in DOMAIN new.entries : new.entries[i].offset <= off
      /\ \/ old # NULL /\ Replaced(old.entries, new.entries, off, v)
         \/ old = NULL /\ Replaced(<<>>, new.entries, off, v)
  BY <1>1, <1>3, <1>4, <1>5, WrittenReplaces
<1>7. /\ \A o \in Nat, w \in Stored :
            o < off => (EntryAt(new.entries, o, w) <=> old # NULL /\ EntryAt(old.entries, o, w))
      /\ \/ EntryAt(new.entries, off, v)
         \/ /\ v = NONE
            /\ \E o \in Nat : /\ EntryAt(new.entries, o, NONE)
                              /\ \A i \in DOMAIN new.entries : new.entries[i].offset <= o
  <2>1. CASE old # NULL
    BY <1>6, <2>1 DEF Replaced
  <2>2. CASE old = NULL
    <3>1. \A o, w : ~EntryAt(<<>>, o, w)
      BY DEF EntryAt
    <3>2. QED
      BY <1>6, <2>2, <3>1 DEF Replaced
  <2>3. QED
    BY <2>1, <2>2
<1>8. /\ \A i \in DOMAIN new.entries :
            /\ new.entries[i].offset \in Nat /\ new.entries[i].offset \in 0 .. CHUNK - 1
            /\ new.entries[i].value \in Stored
  BY <1>6, EntriesTyped
<1>9. t.firstCycle \in Int /\ t.lastCycle \in Int /\ t.lastCycle < OFFSETS /\ OFFSETS \in Nat
  BY KeptTypes, SizesAssumption
<1>10. Kept(u)
  <2>1. u.lastCycle < OFFSETS
    BY <1>2, <1>9
  <2>2. ASSUME NEW q \in Phases, NEW j \in Chunks PROVE InReach(u, Vec(u, q, j), j)
    <3>1. CASE ~(q = p /\ j = k)
      <4>1. Vec(u, q, j) = Vec(t, q, j) /\ InReach(t, Vec(t, q, j), j)
        BY <1>2, <3>1 DEF Kept
      <4>2. \A a \in Int : t.firstCycle <= a /\ a <= t.lastCycle =>
                              u.firstCycle <= a /\ a <= u.lastCycle
        BY <1>2, <1>9
      <4>3. CASE Vec(t, q, j) = NULL
        BY <4>1, <4>3 DEF InReach
      <4>4. CASE Vec(t, q, j) # NULL
        <5> DEFINE es == Vec(t, q, j).entries
        <5>1. \A i \in DOMAIN es : Start(j) + es[i].offset \in Int
          <6>1. \A i \in DOMAIN es : es[i].offset \in Nat
            BY <4>4, KeptTypes, EntriesTyped
          <6>2. Start(j) \in Nat
            BY Starts DEF Chunks
          <6> HIDE DEF es
          <6>3. QED
            BY <6>1, <6>2
        <5>2. QED
          BY <4>1, <4>2, <4>4, <5>1 DEF InReach
      <4>5. QED
        BY <4>3, <4>4
    <3>2. CASE q = p /\ j = k
      <4>1. Vec(u, q, j) = new
        BY <3>2 DEF new
      <4>2. ASSUME NEW i \in DOMAIN new.entries
            PROVE  LET a == Start(j) + new.entries[i].offset
                   IN  u.firstCycle <= a /\ a <= u.lastCycle
        <5>1. PICK o \in Nat : /\ o = new.entries[i].offset /\ o \in 0 .. CHUNK - 1 /\ o <= off
                               /\ new.entries[i].value \in Stored
          BY <1>6, <1>8
        <5>2. CASE o = off
          BY <1>1, <1>2, <3>2, <5>1, <5>2 DEF b
        <5>3. CASE o < off
          <6>1. old # NULL /\ EntryAt(old.entries, o, new.entries[i].value)
            BY <1>7, <5>1, <5>3 DEF EntryAt
          <6>2. PICK m \in DOMAIN old.entries : old.entries[m].offset = o
            BY <6>1 DEF EntryAt
          <6>3. t.firstCycle <= b + o /\ b + o <= t.lastCycle
            BY <1>1, <1>4, <6>1, <6>2 DEF Kept, InReach, b
          <6>4. QED
            BY <1>1, <1>2, <1>9, <3>2, <5>1, <6>3 DEF b
        <5>4. QED
          BY <1>1, <5>1, <5>2, <5>3
      <4>3. QED
        BY <1>6, <4>1, <4>2 DEF InReach
    <3>3. QED
      BY <3>1, <3>2
  <2>3. QED
    BY <1>2, <2>1, <2>2 DEF Kept
<1>11. ASSUME NEW q \in Phases, q # p PROVE SameHalf(u, t, q)
  <2>1. \A j \in Chunks : Vec(u, q, j) = Vec(t, q, j)
    BY <1>2, <1>11
  <2>2. QED
    BY <2>1 DEF SameHalf, Holds
<1>12. \A j \in Chunks : j # k => Vec(u, p, j) = Vec(t, p, j)
  BY <1>2
<1>13. \A w : \A o \in 0 .. CHUNK - 1 : Holds(u, p, b + o, w) <=> EntryAt(new.entries, o, w)
  BY <1>1, <1>6, <1>10, HoldsIn DEF b, new
<1>14. Upto(u, p, c)
  <2>1. SUFFICES ASSUME NEW a \in Int, NEW w \in Stored, Holds(u, p, a, w) PROVE a <= c
    BY DEF Upto
  <2>2. PICK j \in Chunks, o \in 0 .. CHUNK - 1 :
              a = Start(j) + o /\ Vec(u, p, j) # NULL /\ EntryAt(Vec(u, p, j).entries, o, w)
    BY <1>10, <2>1, HoldsSome
  <2>3. CASE j = k
    <3>1. o <= off
      BY <1>6, <2>2, <2>3 DEF EntryAt, new
    <3>2. o \in Int
      BY Sizes
    <3>3. QED
      BY <1>1, <2>2, <2>3, <3>1, <3>2 DEF b
  <2>4. CASE j # k
    <3>1. Vec(t, p, j) # NULL /\ EntryAt(Vec(t, p, j).entries, o, w)
      BY <1>12, <2>2, <2>4
    <3>2. Holds(t, p, a, w)
      BY <2>2, <3>1, HoldsIn
    <3>3. QED
      BY <3>2 DEF Upto
  <2>5. QED
    BY <2>3, <2>4
<1>15. ASSUME NEW a \in Int, NEW w \in Stored, a < c
       PROVE  Holds(u, p, a, w) <=> Holds(t, p, a, w)
  <2>1. ASSUME NEW j \in Chunks, NEW o \in 0 .. CHUNK - 1, a = Start(j) + o
        PROVE  Holds(u, p, a, w) <=> Holds(t, p, a, w)
    <3>1. CASE j # k
      <4>1. Vec(u, p, j) = Vec(t, p, j)
        BY <1>12, <3>1
      <4>2. QED
        BY <1>10, <2>1, <4>1, HoldsIn
    <3>2. CASE j = k
      <4>1. o \in Nat /\ o < off
        BY <1>1, <1>15, <2>1, <3>2, Sizes DEF b
      <4>2. Holds(u, p, a, w) <=> EntryAt(new.entries, o, w)
        BY <1>13, <2>1, <3>2 DEF b
      <4>3. Holds(t, p, a, w) <=> old # NULL /\ EntryAt(old.entries, o, w)
        BY <1>4, <2>1, <3>2, HoldsIn
      <4>4. QED
        BY <1>7, <4>1, <4>2, <4>3
    <3>3. QED
      BY <3>1, <3>2
  <2>2. CASE Holds(u, p, a, w)
    <3>1. PICK j \in Chunks, o \in 0 .. CHUNK - 1 : a = Start(j) + o
      BY <1>10, <2>2, HoldsSome
    <3>2. QED
      BY <2>1, <3>1
  <2>3. CASE Holds(t, p, a, w)
    <3>1. PICK j \in Chunks, o \in 0 .. CHUNK - 1 : a = Start(j) + o
      BY <2>3, HoldsSome
    <3>2. QED
      BY <2>1, <3>1
  <2>4. QED
    BY <2>2, <2>3
<1>16. Ends(u, p, c, v)
  <2>1. CASE EntryAt(new.entries, off, v)
    BY <1>1, <1>13, <2>1 DEF Ends
  <2>2. CASE /\ v = NONE
             /\ \E o \in Nat : /\ EntryAt(new.entries, o, NONE)
                               /\ \A i \in DOMAIN new.entries : new.entries[i].offset <= o
    <3>1. PICK o \in Nat : /\ EntryAt(new.entries, o, NONE)
                           /\ \A i \in DOMAIN new.entries : new.entries[i].offset <= o
      BY <2>2
    <3>2. o \in 0 .. CHUNK - 1
      BY <1>8, <3>1 DEF EntryAt
    <3>3. Holds(u, p, b + o, NONE) /\ b + o \in Int
      BY <1>1, <1>13, <3>1, <3>2
    <3>4. ASSUME NEW a \in Int, NEW w \in Stored, Holds(u, p, a, w) PROVE a <= b + o
      <4>1. PICK j \in Chunks, n \in 0 .. CHUNK - 1 :
                  a = Start(j) + n /\ Vec(u, p, j) # NULL /\ EntryAt(Vec(u, p, j).entries, n, w)
        BY <1>10, <3>4, HoldsSome
      <4>2. CASE j = k
        <5>1. n <= o
          BY <3>1, <4>1, <4>2 DEF EntryAt, new
        <5>2. n \in Int
          BY Sizes
        <5>3. QED
          BY <1>1, <4>1, <4>2, <5>1, <5>2 DEF b
      <4>3. CASE j # k
        <5>1. a <= c
          BY <1>14, <3>4 DEF Upto
        <5>2. j \in Nat /\ Start(j) \in Nat /\ n \in Nat /\ CHUNK \in Nat
          BY Starts, Sizes DEF Chunks
        <5>3. k < j => Start(k) + CHUNK <= Start(j)
          BY <1>1, <5>2, Starts
        <5>4. off < CHUNK
          BY <1>1, Sizes
        <5>5. ~(k < j)
          BY <1>1, <4>1, <5>1, <5>2, <5>3, <5>4 DEF b
        <5>6. j < k
          BY <1>1, <4>3, <5>2, <5>5
        <5>7. Start(j) + CHUNK <= b
          BY <1>1, <5>2, <5>6, Starts DEF b
        <5>8. n < CHUNK
          BY Sizes
        <5>9. QED
          BY <1>1, <4>1, <5>2, <5>7, <5>8
      <4>4. QED
        BY <4>2, <4>3
    <3>5. QED
      BY <2>2, <3>3, <3>4 DEF Ends, Upto
  <2>3. QED
    BY <1>7, <2>1, <2>2
<1>17. QED
  BY <1>10, <1>11, <1>14, <1>15, <1>16 DEF u

(* From cycle c on half p answers v; nothing else has changed.             *)
Answers1(t, u, p, c, v) ==
    /\ \A x \in Int : x < c => Searched(u, p, x) = Searched(t, p, x)
    /\ \A x \in Int : x >= c => /\ Searched(u, p, x).value = v
                                /\ v # NONE => Searched(u, p, x).at = c
    /\ \A q \in Phases, x \in Int : q # p => Searched(u, q, x) = Searched(t, q, x)

LEMMA EnteredAnswers ==
    ASSUME NEW t, Kept(t), NEW c \in 0 .. MAXCYCLES - 1, c < OFFSETS, NEW p \in Phases,
           NEW v \in Stored, ~Repeats(t, v), ~Refuses(t, c, p, v), Upto(t, p, c)
    PROVE  Answers1(t, Entered(t, c, p, v), p, c, v)
<1>1. PICK u : u = Entered(t, c, p, v)
  OBVIOUS
<1>2. /\ Kept(u)
      /\ \A q \in Phases : q # p => SameHalf(u, t, q)
      /\ \A a \in Int, w \in Stored : a < c => (Holds(u, p, a, w) <=> Holds(t, p, a, w))
      /\ Upto(u, p, c) /\ Ends(u, p, c, v)
  BY <1>1, EnteredHolds
<1>3. c \in Int
  BY Sizes
<1>4. ASSUME NEW x \in Int, x < c PROVE Searched(u, p, x) = Searched(t, p, x)
  <2>1. \A a \in Int, w \in Stored : a <= x => (Holds(u, p, a, w) <=> Holds(t, p, a, w))
    BY <1>2, <1>3, <1>4
  <2>2. QED
    BY <1>2, <2>1, SearchedSame
<1>5. ASSUME NEW q \in Phases, NEW x \in Int, q # p PROVE Searched(u, q, x) = Searched(t, q, x)
  <2>1. SameHalf(u, t, q)
    BY <1>2, <1>5
  <2>2. QED
    BY <1>2, <2>1, SearchedSame DEF SameHalf
<1>6. ASSUME NEW x \in Int, x >= c
      PROVE  Searched(u, p, x).value = v /\ (v # NONE => Searched(u, p, x).at = c)
  <2>1. PICK r : r = Searched(u, p, x)
    OBVIOUS
  <2>2. IsLatest(u, p, x, r)
    BY <1>2, <2>1, SearchedLatest
  <2>3. CASE Holds(u, p, c, v)
    <3>1. ~(x < c)
      BY <1>3, <1>6
    <3>2. /\ r.at \in Int /\ r.value \in Stored
          /\ Holds(u, p, r.at, r.value) /\ c <= r.at
      BY <1>3, <1>6, <2>2, <2>3, <3>1 DEF IsLatest
    <3>3. r.at <= c
      BY <1>2, <3>2 DEF Upto
    <3>4. r.at = c
      BY <1>3, <3>2, <3>3
    <3>5. r.value = v
      BY <1>2, <2>3, <3>2, <3>4, HoldsOnce
    <3>6. QED
      BY <2>1, <3>4, <3>5
  <2>4. CASE v = NONE /\ \E a \in Int : Holds(u, p, a, NONE) /\ Upto(u, p, a)
    <3>1. PICK a \in Int : Holds(u, p, a, NONE) /\ Upto(u, p, a)
      BY <2>4
    <3>2. NONE \in Stored
      BY DEF Stored
    <3>3. a <= c
      BY <1>2, <3>1, <3>2 DEF Upto
    <3>4. a <= x /\ ~(x < a)
      BY <1>3, <1>6, <3>3
    <3>5. /\ r.at \in Int /\ r.value \in Stored
          /\ Holds(u, p, r.at, r.value) /\ a <= r.at
      BY <2>2, <3>1, <3>2, <3>4 DEF IsLatest
    <3>6. r.at <= a
      BY <3>1, <3>5 DEF Upto
    <3>7. r.at = a
      BY <3>5, <3>6
    <3>8. r.value = NONE
      BY <1>2, <3>1, <3>5, <3>7, HoldsOnce
    <3>9. QED
      BY <2>1, <2>4, <3>8
  <2>5. QED
    BY <1>2, <2>3, <2>4 DEF Ends
<1>7. QED
  BY <1>1, <1>4, <1>5, <1>6 DEF Answers1

(* Compression changes no entry.                                           *)
LEMMA CompressedHolds ==
    ASSUME NEW t, Kept(t), NEW c \in Nat, NEW last \in BOOLEAN
    PROVE  LET u == Compressed(t, c, last)
           IN  /\ Kept(u) /\ u.lastValue = t.lastValue
               /\ \A q \in Phases : SameHalf(u, t, q)
<1>1. PICK u : u = Compressed(t, c, last)
  OBVIOUS
<1>2. t \in TagType
  BY DEF Kept
<1>3. /\ u \in TagType /\ u.lastValue = t.lastValue
      /\ u.firstCycle = t.firstCycle /\ u.lastCycle = t.lastCycle
  <2>1. u \in TagType
    BY <1>1, <1>2, CompressedType
  <2>2. QED
    BY <1>1, <1>2, <2>1 DEF Compressed, TagType
<1>4. ASSUME NEW q \in Phases, NEW k \in Chunks
      PROVE  /\ Vec(u, q, k) = NULL <=> Vec(t, q, k) = NULL
             /\ Vec(t, q, k) # NULL => Vec(u, q, k).entries = Vec(t, q, k).entries
  <2>1. PICK old, new : old = Vec(t, q, k) /\ new = Vec(u, q, k)
    OBVIOUS
  <2>2. new = old \/ (old # NULL /\ new = [old EXCEPT !.dense = TRUE])
    BY <1>1, <1>2, <2>1, CompressedType DEF Vec
  <2>3. old \in TagVec \cup {NULL}
    BY <2>1, KeptTypes
  <2>4. CASE new = old
    BY <2>1, <2>4
  <2>5. CASE old # NULL /\ new = [old EXCEPT !.dense = TRUE]
    <3>1. old \in TagVec
      BY <2>3, <2>5
    <3>2. new \in TagVec /\ new.entries = old.entries
      BY <2>5, <3>1 DEF TagVec
    <3>3. new # NULL
      BY <3>2, NullAssumption
    <3>4. QED
      BY <2>1, <2>5, <3>2, <3>3
  <2>6. QED
    BY <2>2, <2>4, <2>5
<1>5. Kept(u)
  <2>1. ASSUME NEW q \in Phases, NEW k \in Chunks PROVE InReach(u, Vec(u, q, k), k)
    <3>1. CASE Vec(t, q, k) = NULL
      BY <1>4, <3>1 DEF InReach
    <3>2. CASE Vec(t, q, k) # NULL
      <4>1. InReach(t, Vec(t, q, k), k) /\ Vec(u, q, k).entries = Vec(t, q, k).entries
        BY <1>4, <3>2 DEF Kept
      <4>2. QED
        BY <1>3, <3>2, <4>1 DEF InReach
    <3>3. QED
      BY <3>1, <3>2
  <2>2. QED
    BY <1>3, <2>1 DEF Kept
<1>6. ASSUME NEW q \in Phases PROVE SameHalf(u, t, q)
  <2>1. ASSUME NEW a \in Int, NEW w \in Stored PROVE Holds(u, q, a, w) <=> Holds(t, q, a, w)
    <3>1. ASSUME NEW k \in Chunks
          PROVE  /\ Vec(u, q, k) # NULL
                 /\ \E i \in DOMAIN Vec(u, q, k).entries :
                       /\ a = Start(k) + Vec(u, q, k).entries[i].offset
                       /\ w = Vec(u, q, k).entries[i].value
                 <=>
                 /\ Vec(t, q, k) # NULL
                 /\ \E i \in DOMAIN Vec(t, q, k).entries :
                       /\ a = Start(k) + Vec(t, q, k).entries[i].offset
                       /\ w = Vec(t, q, k).entries[i].value
      <4>1. CASE Vec(t, q, k) = NULL
        BY <1>4, <4>1
      <4>2. CASE Vec(t, q, k) # NULL
        <5>1. Vec(u, q, k) # NULL /\ Vec(u, q, k).entries = Vec(t, q, k).entries
          BY <1>4, <4>2
        <5>2. QED
          BY <4>2, <5>1
      <4>3. QED
        BY <4>1, <4>2
    <3>2. QED
      BY <3>1 DEF Holds
  <2>2. QED
    BY <2>1 DEF SameHalf
<1>7. QED
  BY <1>1, <1>3, <1>5, <1>6

LEMMA SearchedAt ==
    ASSUME NEW t, Kept(t), NEW p \in Phases, NEW x \in Int, Searched(t, p, x).value # NONE
    PROVE  LET r == Searched(t, p, x)
           IN  r.at \in Int /\ r.at <= x /\ r.value \in Stored /\ Holds(t, p, r.at, r.value)
<1>1. PICK r : r = Searched(t, p, x)
  OBVIOUS
<1>2. IsLatest(t, p, x, r) /\ r # NotFound
  BY <1>1, SearchedLatest DEF NotFound
<1>3. QED
  BY <1>1, <1>2 DEF IsLatest

-----------------------------------------------------------------------------
(* What a tag answers at a tick.                                           *)

(* The cycle the search of a half starts at.                               *)
HalfCycle(q, y) == IF q = 0 THEN y \div 2 ELSE LowCycle(y \div 2, y % 2)

Merged(high, low) ==
    CASE low.value  = NONE -> high.value
      [] high.value = NONE -> low.value
      [] OTHER -> IF high.at > low.at THEN high.value ELSE low.value

Told(t, y) == Merged(Searched(t, 0, HalfCycle(0, y)), Searched(t, 1, HalfCycle(1, y)))

LEMMA AnswersTold ==
    ASSUME use.fwd, NEW t
    PROVE  Answers(t) = [y \in 0 .. Horizon |-> Told(t, y)]
<1>1. ASSUME NEW y \in 0 .. Horizon PROVE getTagValue(t, y \div 2, y % 2) = Told(t, y)
  <2>1. /\ internalGetTagValue(t, 0, y \div 2) = Searched(t, 0, y \div 2)
        /\ internalGetTagValue(t, 1, LowCycle(y \div 2, y % 2))
              = Searched(t, 1, LowCycle(y \div 2, y % 2))
    BY SearchedFwd
  <2>2. QED
    BY <2>1 DEF getTagValue, Told, Merged, HalfCycle
<1>2. QED
  BY <1>1 DEF Answers

LEMMA MergedFacts ==
    ASSUME NEW high, NEW low
    PROVE  /\ low.value = NONE => Merged(high, low) = high.value
           /\ low.value # NONE /\ high.value = NONE => Merged(high, low) = low.value
           /\ low.value # NONE /\ high.value # NONE =>
                 Merged(high, low) = IF high.at > low.at THEN high.value ELSE low.value
<1>1. CASE low.value = NONE /\ high.value = NONE
  BY <1>1 DEF Merged
<1>2. CASE low.value = NONE /\ high.value # NONE
  BY <1>2 DEF Merged
<1>3. CASE low.value # NONE /\ high.value = NONE
  BY <1>3 DEF Merged
<1>4. CASE low.value # NONE /\ high.value # NONE
  BY <1>4 DEF Merged
<1>5. QED
  BY <1>1, <1>2, <1>3, <1>4

LEMMA TickOf ==
    ASSUME NEW y \in Nat
    PROVE  \E h \in Nat : \E r \in {0, 1} :
              y = 2 * h + r /\ HalfCycle(0, y) = h /\ HalfCycle(1, y) = h + r - 1
<1>1. y \div 2 \in Nat /\ y % 2 \in 0 .. 1 /\ y = 2 * (y \div 2) + (y % 2)
  BY Division
<1>2. HalfCycle(0, y) = y \div 2 /\ HalfCycle(1, y) = y \div 2 + (y % 2) - 1
  BY DEF HalfCycle, LowCycle
<1>3. PICK h \in Nat, r \in {0, 1} : h = y \div 2 /\ r = y % 2
  BY <1>1
<1>4. QED
  BY <1>1, <1>2, <1>3

(* Before, in and after cycle c of phase p.                                *)
LEMMA Ticks ==
    ASSUME NEW y \in Nat, NEW c \in Nat, NEW p \in Phases
    PROVE  /\ \A q \in Phases : HalfCycle(q, y) \in Int
           /\ y < 2 * c + p => HalfCycle(p, y) < c
           /\ y >= 2 * c + p => HalfCycle(p, y) >= c
           /\ y >= 2 * c + p /\ y < 2 * c + p + 2 => HalfCycle(p, y) = c
           /\ y >= 2 * c + p + 2 => HalfCycle(p, y) >= c + 1 /\ HalfCycle(1 - p, y) >= c + p
           /\ p = 0 /\ y >= 2 * c /\ y < 2 * c + 2 => HalfCycle(1, y) = c - 1 \/ HalfCycle(1, y) = c
<1>1. PICK h \in Nat, r \in {0, 1} :
              y = 2 * h + r /\ HalfCycle(0, y) = h /\ HalfCycle(1, y) = h + r - 1
  BY TickOf
<1>2. CASE p = 0
  BY <1>1, <1>2 DEF Phases
<1>3. CASE p = 1
  BY <1>1, <1>3 DEF Phases
<1>4. QED
  BY <1>2, <1>3 DEF Phases

(* The other half has nothing, or nothing later.                           *)
OtherBefore(t, p, c, v) ==
    \A x \in Int : LET r == Searched(t, 1 - p, x)
                   IN  r.value # NONE => v # NONE /\ r.at \in Int /\ r.at <= c - 1 + p

(* Either the value stays, or it is v from a tick on.                      *)
LEMMA SetAnswers ==
    ASSUME NEW t, NEW u, NEW c \in Nat, NEW p \in Phases, NEW v \in Stored,
           Answers1(t, u, p, c, v), OtherBefore(t, p, c, v), NEW y \in Nat
    PROVE  Told(u, y) = IF y < 2 * c + p THEN Told(t, y) ELSE v
<1>1. \A q \in Phases : HalfCycle(q, y) \in Int
  BY Ticks
<1>2. 0 \in Phases /\ 1 \in Phases /\ (p = 0 \/ p = 1)
  BY DEF Phases
<1>3. PICK high, low : /\ high = Searched(u, 0, HalfCycle(0, y))
                       /\ low = Searched(u, 1, HalfCycle(1, y))
  OBVIOUS
<1>4. Told(u, y) = Merged(high, low)
  BY <1>3 DEF Told
<1>5. CASE y < 2 * c + p
  <2>1. HalfCycle(p, y) < c
    BY <1>5, Ticks
  <2>2. \A q \in Phases : Searched(u, q, HalfCycle(q, y)) = Searched(t, q, HalfCycle(q, y))
    BY <1>1, <2>1 DEF Answers1
  <2>3. QED
    BY <1>2, <1>5, <2>2 DEF Told
<1>6. CASE ~(y < 2 * c + p)
  <2>1. HalfCycle(p, y) >= c
    <3>1. y >= 2 * c + p
      BY <1>2, <1>6
    <3>2. QED
      BY <3>1, Ticks
  <2>2. /\ Searched(u, p, HalfCycle(p, y)).value = v
        /\ v # NONE => Searched(u, p, HalfCycle(p, y)).at = c
    BY <1>1, <2>1 DEF Answers1
  <2>3. CASE p = 0
    <3>1. high.value = v /\ (v # NONE => high.at = c)
      BY <1>3, <2>2, <2>3
    <3>2. low = Searched(t, 1, HalfCycle(1, y))
      BY <1>1, <1>2, <1>3, <2>3 DEF Answers1
    <3>3. low.value # NONE => v # NONE /\ low.at \in Int /\ low.at <= c - 1
      BY <1>1, <1>2, <2>3, <3>2 DEF OtherBefore
    <3>4. low.value # NONE => high.at > low.at
      <4>1. SUFFICES ASSUME low.value # NONE PROVE high.at > low.at
        OBVIOUS
      <4>2. PICK l \in Int : l = low.at /\ l <= c - 1
        BY <3>3, <4>1
      <4>3. c > l
        BY <4>2
      <4>4. high.at = c
        BY <3>1, <3>3, <4>1
      <4>5. QED
        BY <4>2, <4>3, <4>4
    <3>5. Merged(high, low) = v
      BY <3>1, <3>3, <3>4, MergedFacts
    <3>6. QED
      BY <1>4, <1>6, <3>5
  <2>4. CASE p = 1
    <3>1. low.value = v /\ (v # NONE => low.at = c)
      BY <1>3, <2>2, <2>4
    <3>2. high = Searched(t, 0, HalfCycle(0, y))
      BY <1>1, <1>2, <1>3, <2>4 DEF Answers1
    <3>3. high.value # NONE => v # NONE /\ high.at \in Int /\ high.at <= c
      BY <1>1, <1>2, <2>4, <3>2 DEF OtherBefore
    <3>4. high.value # NONE => ~(high.at > low.at)
      <4>1. SUFFICES ASSUME high.value # NONE PROVE ~(high.at > low.at)
        OBVIOUS
      <4>2. PICK l \in Int : l = high.at /\ l <= c
        BY <3>3, <4>1
      <4>3. low.at = c
        BY <3>1, <3>3, <4>1
      <4>4. QED
        BY <4>2, <4>3
    <3>5. Merged(high, low) = v
      BY <3>1, <3>3, <3>4, MergedFacts
    <3>6. QED
      BY <1>4, <1>6, <3>5
  <2>5. QED
    BY <1>2, <2>3, <2>4
<1>7. QED
  BY <1>5, <1>6

(* A move: half p has v in cycle c and nothing after it, and the other     *)
(* half nothing from its own next write on.                                *)
LEMMA MoveAnswers ==
    ASSUME NEW t, NEW m, NEW u, NEW c \in Nat, NEW p \in Phases, NEW v \in Values, Kept(t),
           Answers1(t, m, p, c, v), Answers1(m, u, p, c + 1, NONE),
           \A x \in Int : x >= c + p => Searched(t, 1 - p, x).value = NONE, NEW y \in Nat
    PROVE  Told(u, y) = IF y < 2 * c + p THEN Told(t, y)
                        ELSE IF y < 2 * c + p + 2 THEN v ELSE NONE
<1>1. \A q \in Phases : HalfCycle(q, y) \in Int
  BY Ticks
<1>2. 0 \in Phases /\ 1 \in Phases /\ (p = 0 \/ p = 1) /\ 1 - p \in Phases /\ 1 - p # p
  BY DEF Phases
<1>3. PICK high, low : /\ high = Searched(u, 0, HalfCycle(0, y))
                       /\ low = Searched(u, 1, HalfCycle(1, y))
  OBVIOUS
<1>4. Told(u, y) = Merged(high, low)
  BY <1>3 DEF Told
<1>5. v # NONE
  BY ValuesAssumption
<1>6. \A x \in Int : Searched(u, 1 - p, x) = Searched(t, 1 - p, x)
  BY <1>2 DEF Answers1
<1>7. /\ \A x \in Int : x < c => Searched(u, p, x) = Searched(t, p, x)
      /\ Searched(u, p, c).value = v /\ Searched(u, p, c).at = c
      /\ \A x \in Int : x >= c + 1 => Searched(u, p, x).value = NONE
  <2>1. ASSUME NEW x \in Int, x < c PROVE Searched(u, p, x) = Searched(t, p, x)
    <3>1. x < c + 1
      BY <2>1
    <3>2. Searched(u, p, x) = Searched(m, p, x)
      BY <3>1 DEF Answers1
    <3>3. Searched(m, p, x) = Searched(t, p, x)
      BY <2>1 DEF Answers1
    <3>4. QED
      BY <3>2, <3>3
  <2>2. Searched(u, p, c) = Searched(m, p, c)
    <3>1. c \in Int /\ c < c + 1
      OBVIOUS
    <3>2. QED
      BY <3>1 DEF Answers1
  <2>3. Searched(m, p, c).value = v /\ Searched(m, p, c).at = c
    <3>1. c \in Int /\ c >= c
      OBVIOUS
    <3>2. QED
      BY <1>5, <3>1 DEF Answers1
  <2>4. QED
    BY <2>1, <2>2, <2>3 DEF Answers1
<1>8. CASE y < 2 * c + p
  <2>1. HalfCycle(p, y) < c
    BY <1>8, Ticks
  <2>2. Searched(u, p, HalfCycle(p, y)) = Searched(t, p, HalfCycle(p, y))
    BY <1>1, <1>7, <2>1
  <2>3. Searched(u, 1 - p, HalfCycle(1 - p, y)) = Searched(t, 1 - p, HalfCycle(1 - p, y))
    BY <1>1, <1>2, <1>6
  <2>4. CASE p = 0
    <3>1. 1 - p = 1
      BY <2>4
    <3>2. QED
      BY <1>8, <2>2, <2>3, <2>4, <3>1 DEF Told
  <2>5. CASE p = 1
    <3>1. 1 - p = 0
      BY <2>5
    <3>2. QED
      BY <1>8, <2>2, <2>3, <2>5, <3>1 DEF Told
  <2>6. QED
    BY <1>2, <2>4, <2>5
<1>9. CASE ~(y < 2 * c + p) /\ y < 2 * c + p + 2
  <2>1. y >= 2 * c + p
    BY <1>2, <1>9
  <2>2. HalfCycle(p, y) = c
    BY <1>9, <2>1, Ticks
  <2>3. CASE p = 0
    <3>1. high.value = v /\ high.at = c
      BY <1>3, <1>7, <2>2, <2>3
    <3>2. low = Searched(t, 1, HalfCycle(1, y))
      BY <1>1, <1>2, <1>3, <1>6, <2>3
    <3>3. HalfCycle(1, y) = c - 1 \/ HalfCycle(1, y) = c
      BY <1>9, <2>1, <2>3, Ticks
    <3>4. CASE low.value = NONE
      BY <1>4, <1>9, <3>1, <3>4, MergedFacts
    <3>5. CASE low.value # NONE
      <4>1. HalfCycle(1, y) = c - 1
        <5>1. ASSUME HalfCycle(1, y) = c PROVE FALSE
          <6>1. c \in Int /\ c >= c + p /\ 1 - p = 1
            BY <2>3
          <6>2. QED
            BY <3>2, <3>5, <5>1, <6>1
        <5>2. QED
          BY <3>3, <5>1
      <4>2. c - 1 \in Int
        OBVIOUS
      <4>3. PICK l \in Int : l = low.at /\ l <= c - 1
        BY <1>2, <3>2, <3>5, <4>1, <4>2, SearchedAt
      <4>4. high.at > low.at
        BY <3>1, <4>3
      <4>5. Merged(high, low) = v
        BY <1>5, <3>1, <3>5, <4>4, MergedFacts
      <4>6. QED
        BY <1>4, <1>9, <4>5
    <3>6. QED
      BY <3>4, <3>5
  <2>4. CASE p = 1
    <3>1. low.value = v /\ low.at = c
      BY <1>3, <1>7, <2>2, <2>4
    <3>2. high = Searched(t, 0, HalfCycle(0, y))
      BY <1>1, <1>2, <1>3, <1>6, <2>4
    <3>3. CASE high.value = NONE
      <4>1. Merged(high, low) = v
        BY <1>5, <3>1, <3>3, MergedFacts
      <4>2. QED
        BY <1>4, <1>9, <4>1
    <3>4. CASE high.value # NONE
      <4>1. PICK x \in Int : x = HalfCycle(0, y)
        BY <1>1, <1>2
      <4>2. ~(x >= c + p)
        <5>1. 1 - p = 0
          BY <2>4
        <5>2. QED
          BY <3>2, <3>4, <4>1, <5>1
      <4>3. x <= c
        BY <2>4, <4>2
      <4>4. PICK l \in Int : l = high.at /\ l <= x
        BY <1>2, <3>2, <3>4, <4>1, SearchedAt
      <4>5. ~(high.at > low.at)
        BY <3>1, <4>3, <4>4
      <4>6. Merged(high, low) = v
        BY <1>5, <3>1, <3>4, <4>5, MergedFacts
      <4>7. QED
        BY <1>4, <1>9, <4>6
    <3>5. QED
      BY <3>3, <3>4
  <2>5. QED
    BY <1>2, <2>3, <2>4
<1>10. CASE ~(y < 2 * c + p) /\ ~(y < 2 * c + p + 2)
  <2>1. y >= 2 * c + p + 2
    BY <1>2, <1>10
  <2>2. HalfCycle(p, y) >= c + 1 /\ HalfCycle(1 - p, y) >= c + p
    BY <2>1, Ticks
  <2>3. Searched(u, p, HalfCycle(p, y)).value = NONE
    BY <1>1, <1>7, <2>2
  <2>4. Searched(u, 1 - p, HalfCycle(1 - p, y)).value = NONE
    BY <1>1, <1>2, <1>6, <2>2
  <2>5. high.value = NONE /\ low.value = NONE
    <3>1. CASE p = 0
      <4>1. 1 - p = 1
        BY <3>1
      <4>2. QED
        BY <1>3, <2>3, <2>4, <3>1, <4>1
    <3>2. CASE p = 1
      <4>1. 1 - p = 0
        BY <3>2
      <4>2. QED
        BY <1>3, <2>3, <2>4, <3>2, <4>1
    <3>3. QED
      BY <1>2, <3>1, <3>2
  <2>6. QED
    BY <1>4, <1>10, <2>5, MergedFacts
<1>11. QED
  BY <1>8, <1>9, <1>10

-----------------------------------------------------------------------------
(* The steps of TagHistory.                                                *)

Now == 2 * cycle + phase

LEMMA SayStep ==
    ASSUME Now \in Nat, UNCHANGED <<cycle, phase>>, NEW said,
           \A y \in 0 .. Horizon : answers'[y] = IF y < Now THEN answers[y] ELSE said[y],
           Now <= Horizon + 1, Horizon \in Nat
    PROVE  History!Say(said)
<1>1. UNCHANGED Now
  BY DEF Now
<1> DEFINE n == Now
           h == Horizon
<1>2. /\ \A y \in n .. h : answers'[y] = said[y]
      /\ \A y \in 0 .. n - 1 : answers'[y] = answers[y]
  <2>1. n \in Nat /\ h \in Nat /\ n <= h + 1
    OBVIOUS
  <2>2. \A y \in 0 .. h : answers'[y] = IF y < n THEN answers[y] ELSE said[y]
    OBVIOUS
  <2> HIDE DEF n, h
  <2>3. QED
    BY <2>1, <2>2
<1>3. QED
  BY <1>1, <1>2 DEF History!Say, Now

LEMMA SetStep ==
    ASSUME Now \in Nat, Now <= Horizon + 1, Horizon \in Nat, UNCHANGED <<cycle, phase>>,
           NEW v \in Stored,
           \A y \in 0 .. Horizon : answers'[y] = IF y < Now THEN answers[y] ELSE v
    PROVE  History!Next
<1> DEFINE said == [t \in 0 .. Horizon |-> v]
<1>1. \A y \in 0 .. Horizon : answers'[y] = IF y < Now THEN answers[y] ELSE said[y]
  OBVIOUS
<1>2. History!Set(v) = History!Say(said)
  BY DEF History!Set, History!Times
<1> HIDE DEF said
<1>3. History!Set(v)
  BY <1>1, <1>2, SayStep
<1>4. QED
  BY <1>3 DEF History!Next, Stored

LEMMA PulseStep ==
    ASSUME Now \in Nat, Now <= Horizon + 1, Horizon \in Nat, UNCHANGED <<cycle, phase>>,
           NEW v \in Values,
           \A y \in 0 .. Horizon : answers'[y] =
              IF y < Now THEN answers[y] ELSE IF y < Now + 2 THEN v ELSE NONE
    PROVE  History!Next
<1> DEFINE said == [t \in 0 .. Horizon |-> IF t < Now + 2 THEN v ELSE NONE]
<1>1. \A y \in 0 .. Horizon : answers'[y] = IF y < Now THEN answers[y] ELSE said[y]
  OBVIOUS
<1>2. History!Pulse(v) = History!Say(said)
  BY DEF History!Pulse, History!Times, Now
<1> HIDE DEF said
<1>3. History!Pulse(v)
  BY <1>1, <1>2, SayStep
<1>4. QED
  BY <1>3 DEF History!Next

-----------------------------------------------------------------------------
(* The invariant of the refinement.                                        *)

(* What the theorem asks of the uses: the tags are forwarded, only slots   *)
(* of a clock of one phase are undefined, no offset of the trace wraps,    *)
(* and a move in the last cycle has a next one.                            *)
Answerable ==
    /\ MaxCycle < OFFSETS
    /\ \A u \in Uses : /\ u.fwd
                       /\ "Undefine" \in u.ops => u.divisions = 1
                       /\ "Move" \in u.ops => MaxCycle + 1 < MAXCYCLES /\ MaxCycle + 1 < OFFSETS

(* The last cycle of each half that is not after the present.              *)
Present == [q \in Phases |-> IF q <= phase THEN cycle ELSE cycle - 1]

NothingAhead == \A q \in Phases : Upto(tag, q, Present[q])

(* What was moved is gone.                                                 *)
MovesGone ==
    /\ tag.lastValue = NONE
    /\ \A q \in Phases, x \in Int : x >= Reach[q] => Searched(tag, q, x).value = NONE

(* A clock of one phase writes to one half.                                *)
OneHalf == use.divisions = 1 => \A a \in Int, w \in Stored : ~Holds(tag, 1, a, w)

(* The present and what follows it have the last value that was set.       *)
LastHolds == "Move" \notin use.ops => \A y \in Now .. Horizon : answers[y] = tag.lastValue

HInv ==
    /\ Answerable /\ IInv /\ use.fwd /\ Kept(tag)
    /\ answers = [y \in 0 .. Horizon |-> Told(tag, y)]
    /\ "Move" \notin use.ops => NothingAhead
    /\ "Move" \in use.ops => MovesGone
    /\ OneHalf /\ LastHolds

LEMMA HorizonType == Horizon \in Nat /\ Horizon = 2 * MaxCycle + 3
BY Sizes DEF Horizon

LEMMA NowType ==
    ASSUME IInv
    PROVE  /\ Now \in Nat /\ Now <= Horizon /\ cycle \in Nat /\ phase \in Phases
           /\ cycle \in 0 .. MaxCycle /\ use \in Uses
<1>1. /\ cycle \in 0 .. MaxCycle /\ phase \in 0 .. use.divisions - 1
      /\ use.divisions \in {1, 2} /\ use \in Uses
  BY UsesAssumption DEF IInv, TypeInv, TypeOK
<1>2. cycle \in Nat /\ cycle <= MaxCycle /\ phase \in 0 .. 1
  BY <1>1, Sizes
<1>3. QED
  BY <1>1, <1>2, HorizonType, Sizes DEF Now, Phases

LEMMA HalvesUpto ==
    ASSUME NEW t, Kept(t), NEW upto \in [Phases -> Int], HalvesOK(t, upto), NEW p \in Phases
    PROVE  Upto(t, p, upto[p])
<1>1. SUFFICES ASSUME NEW a \in Int, NEW w \in Stored, Holds(t, p, a, w) PROVE a <= upto[p]
  BY DEF Upto
<1>2. PICK k \in Chunks : /\ Vec(t, p, k) # NULL
                          /\ \E i \in DOMAIN Vec(t, p, k).entries :
                                /\ a = Start(k) + Vec(t, p, k).entries[i].offset
                                /\ w = Vec(t, p, k).entries[i].value
  BY <1>1 DEF Holds
<1>3. VecOK(t.cycleVec[p][k], CHUNK * k, upto[p])
  BY DEF HalvesOK
<1>4. QED
  BY <1>2, <1>3 DEF VecOK, Vec, Start

LEMMA SameTold ==
    ASSUME NEW t, Kept(t), NEW u, Kept(u), \A q \in Phases : SameHalf(u, t, q)
    PROVE  /\ \A q \in Phases, x \in Int : Searched(u, q, x) = Searched(t, q, x)
           /\ \A y \in Nat : Told(u, y) = Told(t, y)
<1>1. \A q \in Phases, x \in Int : Searched(u, q, x) = Searched(t, q, x)
  BY SearchedSame DEF SameHalf
<1>2. ASSUME NEW y \in Nat PROVE Told(u, y) = Told(t, y)
  <2>1. 0 \in Phases /\ 1 \in Phases
    BY DEF Phases
  <2>2. HalfCycle(0, y) \in Int /\ HalfCycle(1, y) \in Int
    BY <2>1, TickOf
  <2>3. QED
    BY <1>1, <2>1, <2>2 DEF Told
<1>3. QED
  BY <1>1, <1>2

(* The entries stay and time does not go back.                             *)
LEMMA EntriesStay ==
    ASSUME HInv, IInv', UNCHANGED use, Kept(tag'), tag'.lastValue = tag.lastValue,
           \A q \in Phases : SameHalf(tag', tag, q), answers' = Answers(tag'),
           Now <= Now', Now \in Nat, Now' \in Nat,
           \A q \in Phases : Reach[q] <= Reach'[q] /\ Present[q] <= Present'[q],
           Reach \in [Phases -> Int], Reach' \in [Phases -> Int],
           Present \in [Phases -> Int], Present' \in [Phases -> Int]
    PROVE  HInv' /\ answers' = answers
<1>1. answers' = [y \in 0 .. Horizon |-> Told(tag', y)]
  BY AnswersTold DEF HInv
<1>2. /\ \A q \in Phases, x \in Int : Searched(tag', q, x) = Searched(tag, q, x)
      /\ \A y \in Nat : Told(tag', y) = Told(tag, y)
  BY SameTold DEF HInv
<1>3. answers' = answers
  <2>1. \A y \in 0 .. Horizon : Told(tag', y) = Told(tag, y)
    BY <1>2, HorizonType
  <2>2. QED
    BY <1>1, <2>1 DEF HInv
<1>4. ASSUME NothingAhead PROVE NothingAhead'
  <2>1. SUFFICES ASSUME NEW q \in Phases, NEW a \in Int, NEW w \in Stored, Holds(tag', q, a, w)
                 PROVE  a <= Present'[q]
    BY DEF NothingAhead, Upto
  <2>2. Holds(tag, q, a, w)
    BY <2>1 DEF SameHalf
  <2>3. a <= Present[q]
    BY <1>4, <2>2 DEF NothingAhead, Upto
  <2>4. Present[q] \in Int /\ Present'[q] \in Int /\ Present[q] <= Present'[q]
    OBVIOUS
  <2>5. QED
    BY <2>3, <2>4
<1>5. ASSUME MovesGone PROVE MovesGone'
  <2>1. SUFFICES ASSUME NEW q \in Phases, NEW x \in Int, x >= Reach'[q]
                 PROVE  Searched(tag', q, x).value = NONE
    BY <1>5 DEF MovesGone
  <2>2. Reach[q] \in Int /\ Reach'[q] \in Int /\ Reach[q] <= Reach'[q]
    OBVIOUS
  <2>3. x >= Reach[q]
    BY <2>1, <2>2
  <2>4. QED
    BY <1>2, <1>5, <2>3 DEF MovesGone
<1>6. OneHalf'
  <2>1. 1 \in Phases
    BY DEF Phases
  <2>2. QED
    BY <2>1 DEF HInv, OneHalf, SameHalf
<1>7. Answerable'
  BY DEF HInv, Answerable
<1>8. LastHolds'
  <2>1. SUFFICES ASSUME "Move" \notin use.ops, NEW y \in Now' .. Horizon
                 PROVE  answers'[y] = tag'.lastValue
    BY DEF LastHolds
  <2>2. y \in Now .. Horizon
    BY HorizonType
  <2>3. QED
    BY <1>3, <2>1, <2>2 DEF HInv, LastHolds
<1>9. QED
  BY <1>1, <1>3, <1>4, <1>5, <1>6, <1>7, <1>8 DEF HInv

LEMMA PresentType == ASSUME IInv PROVE Present \in [Phases -> Int]
BY NowType DEF Present

LEMMA InitHInv ==
    ASSUME Answerable, AnswersInit
    PROVE  HInv /\ History!Init
<1>1. IInv /\ tag = EmptyTag /\ use \in Uses /\ cycle = 0 /\ phase \in 0 .. use.divisions - 1 /\ ~moved
  BY InitIInv DEF AnswersInit, Init
<1>2. use.fwd /\ phase \in Phases
  BY <1>1, NowType DEF Answerable
<1>3. \A p \in Phases, k \in Chunks : Vec(tag, p, k) = NULL
  BY <1>1 DEF EmptyTag, Vec
<1>4. Kept(tag)
  <2>1. tag \in TagType
    BY <1>1, TypeOfTag DEF IInv, TypeInv
  <2>2. tag.lastCycle = 0
    BY <1>1 DEF EmptyTag
  <2>3. QED
    BY <1>3, <2>1, <2>2, SizesAssumption DEF Kept, InReach
<1>5. \A p \in Phases, a \in Int, w \in Stored : ~Holds(tag, p, a, w)
  BY <1>3 DEF Holds
<1>6. ASSUME NEW p \in Phases, NEW x \in Int PROVE Searched(tag, p, x).value = NONE
  <2>1. IsLatest(tag, p, x, Searched(tag, p, x))
    BY <1>4, SearchedLatest
  <2>2. Searched(tag, p, x) = NotFound
    BY <1>5, <2>1 DEF IsLatest
  <2>3. QED
    BY <2>2 DEF NotFound
<1>7. answers = [y \in 0 .. Horizon |-> Told(tag, y)]
  BY <1>2, AnswersTold DEF AnswersInit
<1>8. ASSUME NEW y \in 0 .. Horizon PROVE Told(tag, y) = NONE
  <2>1. 0 \in Phases /\ 1 \in Phases /\ y \in Nat
    BY HorizonType DEF Phases
  <2>2. HalfCycle(0, y) \in Int /\ HalfCycle(1, y) \in Int
    BY <2>1, TickOf
  <2>3. /\ Searched(tag, 0, HalfCycle(0, y)).value = NONE
        /\ Searched(tag, 1, HalfCycle(1, y)).value = NONE
    BY <1>6, <2>1, <2>2
  <2>4. QED
    BY <2>3, MergedFacts DEF Told
<1>9. History!Init
  <2>1. answers = [y \in 0 .. Horizon |-> NONE]
    BY <1>7, <1>8
  <2>2. Now \in 0 .. 2 - 1
    BY <1>1, <1>2 DEF Now, Phases
  <2>3. QED
    BY <2>1, <2>2 DEF History!Init, History!Times, Now
<1>10. NothingAhead /\ OneHalf
  BY <1>5 DEF NothingAhead, OneHalf, Upto, Phases
<1>11. MovesGone
  <2>1. tag.lastValue = NONE
    BY <1>1 DEF EmptyTag
  <2>2. QED
    BY <1>6, <2>1 DEF MovesGone
<1>12. LastHolds
  <2>1. Now \in Nat
    BY <1>1, NowType
  <2>2. \A y \in Now .. Horizon : y \in 0 .. Horizon
    BY <2>1, HorizonType
  <2>3. QED
    BY <1>7, <1>8, <1>11, <2>2 DEF LastHolds, MovesGone
<1>13. QED
  BY <1>1, <1>2, <1>4, <1>7, <1>9, <1>10, <1>11, <1>12 DEF HInv

(* A cycle is announced.                                                   *)
LEMMA CycleStep ==
    ASSUME HInv, IInv', answers' = Answers(tag'), NEW c \in 0 .. MaxCycle,
           NEW p \in 0 .. use.divisions - 1, Cycle(c, p)
    PROVE  HInv' /\ History!Next
<1>1. /\ cycle' = c /\ phase' = p /\ UNCHANGED use /\ ~moved'
      /\ c > cycle \/ (c = cycle /\ p > phase)
  BY DEF Cycle
<1>2. /\ Reach \in [Phases -> Int] /\ Present \in [Phases -> Int]
      /\ (Reach \in [Phases -> Int])' /\ (Present \in [Phases -> Int])'
  <2>1. (Reach \in [Phases -> Int])'
    <3>1. cycle' \in Int
      BY <1>1, Sizes
    <3>2. QED
      BY <3>1 DEF Reach
  <2>2. (Present \in [Phases -> Int])'
    <3>1. cycle' \in Int
      BY <1>1, Sizes
    <3>2. QED
      BY <3>1 DEF Present
  <2>3. QED
    BY <2>1, <2>2, ReachType, PresentType DEF HInv, IInv
<1>3. /\ cycle \in Nat /\ c \in Nat /\ phase \in Phases /\ p \in Phases /\ Now <= Horizon
      /\ use.divisions \in {1, 2}
  <2>1. use.divisions \in {1, 2}
    BY UsesAssumption, NowType DEF HInv
  <2>2. p \in Phases
    BY <2>1 DEF Phases
  <2>3. QED
    BY <2>1, <2>2, NowType, Sizes DEF HInv
<1>4. \A q \in Phases : Reach[q] <= Reach'[q] /\ Present[q] <= Present'[q]
  <2>1. ASSUME NEW q \in Phases PROVE Reach[q] <= Reach'[q]
    BY <1>1, <1>3 DEF Reach, Phases
  <2>2. ASSUME NEW q \in Phases PROVE Present[q] <= Present'[q]
    BY <1>1, <1>3 DEF Present, Phases
  <2>3. QED
    BY <2>1, <2>2
<1>5. Kept(tag') /\ tag'.lastValue = tag.lastValue /\ \A q \in Phases : SameHalf(tag', tag, q)
  <2>1. CASE CompressDue(c)
    <3>1. tag' = Compressed(tag, c - 1, FALSE) /\ c - 1 \in Nat
      BY <2>1, CompressedAtType DEF Cycle, HInv, IInv
    <3>2. QED
      BY <3>1, CompressedHolds DEF HInv
  <2>2. CASE ~CompressDue(c)
    <3>1. tag' = tag
      BY <2>2 DEF Cycle
    <3>2. QED
      BY <3>1 DEF HInv, SameHalf
  <2>3. QED
    BY <2>1, <2>2
<1>6. Now' \in Now + 1 .. Horizon
  <2>1. Now' = 2 * c + p /\ Now = 2 * cycle + phase
    BY <1>1 DEF Now
  <2>2. 2 * c + p >= 2 * cycle + phase + 1
    BY <1>1, <1>3 DEF Phases
  <2>3. 2 * c + p <= Horizon
    BY <1>3, HorizonType, Sizes DEF Phases
  <2>4. Now' \in Int /\ Now + 1 \in Int /\ Horizon \in Int
    BY <1>3, <2>1, HorizonType DEF Phases
  <2>5. QED
    BY <1>3, <2>1, <2>2, <2>3, <2>4 DEF Phases
<1>7. HInv' /\ answers' = answers
  <2>1. Now \in Nat /\ Horizon \in Nat
    BY NowType, HorizonType DEF HInv
  <2>2. Now' \in Nat /\ Now <= Now'
    BY <1>6, <2>1
  <2>3. QED
    BY <1>1, <1>2, <1>4, <1>5, <2>1, <2>2, EntriesStay
<1>8. QED
  BY <1>6, <1>7 DEF History!Next, History!Advance, Now

(* The end of the trace.                                                   *)
LEMMA EndStep ==
    ASSUME HInv, IInv', answers' = Answers(tag'), EndSimulation
    PROVE  HInv' /\ UNCHANGED History!vars
<1>1. UNCHANGED <<use, cycle, phase, moved>> /\ tag' = Compressed(tag, cycle + CHUNK + 1, TRUE)
  BY DEF EndSimulation
<1>2. Reach' = Reach /\ Present' = Present /\ Reach \in [Phases -> Int] /\ Present \in [Phases -> Int]
  BY <1>1, ReachType, PresentType DEF HInv, IInv, Reach, Present
<1>3. cycle + CHUNK + 1 \in Nat
  BY NowType, Sizes DEF HInv
<1>4. Kept(tag') /\ tag'.lastValue = tag.lastValue /\ \A q \in Phases : SameHalf(tag', tag, q)
  BY <1>1, <1>3, CompressedHolds DEF HInv
<1>5. HInv' /\ answers' = answers
  <2>1. \A q \in Phases : Reach[q] <= Reach'[q] /\ Present[q] <= Present'[q]
    <3>1. \A q \in Phases : Reach[q] \in Int /\ Present[q] \in Int
      BY <1>2
    <3>2. QED
      BY <1>2, <3>1
  <2>2. Reach' \in [Phases -> Int] /\ Present' \in [Phases -> Int]
    BY <1>2
  <2>3. Now \in Nat /\ Now' = Now /\ Now <= Now'
    <3>1. Now \in Nat /\ Now' = Now
      BY <1>1, NowType DEF HInv, Now
    <3>2. QED
      BY <3>1
  <2>4. QED
    BY <1>1, <1>2, <1>4, <2>1, <2>2, <2>3, EntriesStay
<1>6. QED
  BY <1>1, <1>5 DEF History!vars

(* A value set or cleared in the cycle and phase of the trace.             *)
LEMMA SetTold ==
    ASSUME HInv, IInv', answers' = Answers(tag'), NEW v \in Stored, "Move" \notin use.ops,
           v = NONE => use.divisions = 1,
           tag' = Entered(tag, cycle, phase, v), refused' = Refuses(tag, cycle, phase, v),
           UNCHANGED <<use, cycle, phase, moved>>
    PROVE  HInv' /\ (History!Next \/ UNCHANGED History!vars)
<1>1. /\ cycle \in Nat /\ cycle \in Int /\ phase \in Phases /\ Now \in Nat /\ Now <= Horizon
      /\ cycle \in 0 .. MAXCYCLES - 1 /\ cycle < OFFSETS /\ use \in Uses
      /\ phase \in 0 .. use.divisions - 1
  <2>1. cycle \in 0 .. MAXCYCLES - 1 /\ phase \in 0 .. use.divisions - 1
    BY TypeOfTag DEF HInv, IInv, TypeInv, TypeOK
  <2>2. MaxCycle < OFFSETS
    BY DEF HInv, Answerable
  <2>3. QED
    BY <2>1, <2>2, NowType, Sizes, SizesAssumption DEF HInv
<1>2. Kept(tag) /\ NothingAhead /\ OneHalf /\ use.fwd
  BY DEF HInv
<1>3. ~Refuses(tag, cycle, phase, v)
  BY DEF IInv, WritesAccepted
<1>4. answers' = [y \in 0 .. Horizon |-> Told(tag', y)]
  BY <1>2, AnswersTold
<1>5. Answerable' /\ Present' = Present /\ Present \in [Phases -> Int] /\ Now' = Now
  BY PresentType DEF HInv, Answerable, Present, Now
<1>6. CASE Repeats(tag, v)
  <2>1. tag' = tag
    BY <1>6 DEF Entered
  <2>2. answers' = answers
    BY <1>4, <2>1 DEF HInv
  <2>3. HInv'
    BY <1>2, <1>4, <1>5, <2>1, <2>2 DEF HInv, NothingAhead, OneHalf, LastHolds
  <2>4. QED
    BY <2>2, <2>3 DEF History!vars
<1>7. CASE ~Repeats(tag, v)
  <2>1. Upto(tag, phase, cycle)
    BY <1>1, <1>2 DEF NothingAhead, Present
  <2>2. /\ Kept(tag')
        /\ \A q \in Phases : q # phase => SameHalf(tag', tag, q)
        /\ Upto(tag', phase, cycle)
    BY <1>1, <1>2, <1>3, <1>7, <2>1, EnteredHolds
  <2>3. Answers1(tag, tag', phase, cycle, v)
    BY <1>1, <1>2, <1>3, <1>7, <2>1, EnteredAnswers
  <2>4. OtherBefore(tag, phase, cycle, v)
    <3>1. SUFFICES ASSUME NEW x \in Int, Searched(tag, 1 - phase, x).value # NONE
                   PROVE  /\ v # NONE /\ Searched(tag, 1 - phase, x).at \in Int
                          /\ Searched(tag, 1 - phase, x).at <= cycle - 1 + phase
      BY DEF OtherBefore
    <3>2. 1 - phase \in Phases
      BY <1>1 DEF Phases
    <3>3. PICK r : r = Searched(tag, 1 - phase, x)
      OBVIOUS
    <3>4. r.at \in Int /\ r.value \in Stored /\ Holds(tag, 1 - phase, r.at, r.value)
      BY <1>2, <3>1, <3>2, <3>3, SearchedAt
    <3>5. r.at <= Present[1 - phase]
      BY <1>2, <3>2, <3>4 DEF NothingAhead, Upto
    <3>6. Present[1 - phase] = cycle - 1 + phase
      BY <1>1, <3>2 DEF Present, Phases
    <3>7. v # NONE
      <4>1. SUFFICES ASSUME use.divisions = 1 PROVE FALSE
        OBVIOUS
      <4>2. 1 - phase = 1
        BY <1>1, <4>1
      <4>3. QED
        BY <1>2, <3>4, <4>1, <4>2 DEF OneHalf
    <3>8. QED
      BY <3>3, <3>4, <3>5, <3>6, <3>7
  <2>5. NothingAhead'
    <3>1. SUFFICES ASSUME NEW q \in Phases PROVE Upto(tag', q, Present[q])
      BY <1>5 DEF NothingAhead
    <3>2. CASE q = phase
      BY <1>1, <2>2, <3>2 DEF Present
    <3>3. CASE q # phase
      BY <1>2, <2>2, <3>3 DEF NothingAhead, Upto, SameHalf
    <3>4. QED
      BY <3>2, <3>3
  <2>6. OneHalf'
    <3>1. SUFFICES ASSUME use.divisions = 1 PROVE \A a \in Int, w \in Stored : ~Holds(tag', 1, a, w)
      BY DEF OneHalf
    <3>2. 1 \in Phases /\ 1 # phase
      BY <1>1, <3>1 DEF Phases
    <3>3. QED
      BY <1>2, <2>2, <3>1, <3>2 DEF OneHalf, SameHalf
  <2>7. \A y \in 0 .. Horizon : answers'[y] = IF y < Now THEN answers[y] ELSE v
    <3>1. SUFFICES ASSUME NEW y \in 0 .. Horizon
                   PROVE  answers'[y] = IF y < Now THEN answers[y] ELSE v
      OBVIOUS
    <3>2. y \in Nat
      BY HorizonType
    <3>3. Told(tag', y) = IF y < 2 * cycle + phase THEN Told(tag, y) ELSE v
      BY <1>1, <2>3, <2>4, <3>2, SetAnswers
    <3>4. answers'[y] = Told(tag', y) /\ answers[y] = Told(tag, y)
      BY <1>4 DEF HInv
    <3>5. QED
      BY <3>3, <3>4 DEF Now
  <2>8. Now <= Horizon + 1 /\ Horizon \in Nat
    BY <1>1, HorizonType
  <2>9. History!Next
    BY <1>1, <2>7, <2>8, SetStep
  <2>10. LastHolds'
    <3>1. tag'.lastValue = v
      BY <1>2, <1>7 DEF Entered, Kept, TagType
    <3>2. SUFFICES ASSUME NEW y \in Now .. Horizon PROVE answers'[y] = v
      BY <1>5, <3>1 DEF LastHolds
    <3>3. y \in 0 .. Horizon /\ ~(y < Now)
      BY <1>1, <2>8
    <3>4. QED
      BY <2>7, <3>3
  <2>11. HInv'
    BY <1>2, <1>4, <1>5, <2>2, <2>5, <2>6, <2>10 DEF HInv
  <2>12. QED
    BY <2>9, <2>11
<1>8. QED
  BY <1>6, <1>7

(* An item moved: two writes, in the cycle of the trace and in the next.   *)
LEMMA MoveTold ==
    ASSUME HInv, IInv', answers' = Answers(tag'), NEW v \in Values, Move(v)
    PROVE  HInv' /\ History!Next
<1> DEFINE c == cycle
           p == phase
<1>1. /\ c \in Nat /\ c \in Int /\ p \in Phases /\ Now \in Nat /\ Now <= Horizon
      /\ use \in Uses /\ Reach \in [Phases -> Int]
  BY NowType, ReachType, Sizes DEF HInv, IInv
<1>2. /\ "Move" \in use.ops /\ ~moved /\ moved' /\ UNCHANGED <<use, cycle, phase>>
  BY DEF Move
<1>3. Kept(tag) /\ MovesGone /\ OneHalf /\ use.fwd /\ tag.lastValue = NONE
  BY <1>2 DEF HInv, MovesGone
<1>4. /\ c \in 0 .. MAXCYCLES - 1 /\ c < OFFSETS
      /\ c + 1 \in 0 .. MAXCYCLES - 1 /\ c + 1 < OFFSETS
  <2>1. MaxCycle + 1 < MAXCYCLES /\ MaxCycle + 1 < OFFSETS
    BY <1>1, <1>2 DEF HInv, Answerable
  <2>2. c <= MaxCycle
    BY <1>1, NowType DEF HInv
  <2>3. QED
    BY <1>1, <2>1, <2>2, Sizes, SizesAssumption
<1>5. v \in Stored /\ v # NONE /\ NONE \in Stored
  BY ValuesAssumption DEF Stored
<1>6. PICK m : m = Entered(tag, c, p, v)
  OBVIOUS
<1>7. /\ ~Refuses(tag, c, p, v) /\ ~Refuses(m, c + 1, p, NONE)
      /\ tag' = Entered(m, c + 1, p, NONE)
  BY <1>6 DEF IInv, WritesAccepted, Move, Gone
<1>8. Reach[p] = c /\ Reach' = [Reach EXCEPT ![p] = c + 1]
  BY <1>1, <1>2 DEF Reach, Phases
<1>9. Upto(tag, p, c)
  BY <1>1, <1>3, <1>8, HalvesUpto DEF HInv, IInv
<1>10. ~Repeats(tag, v)
  BY <1>3, <1>5 DEF Repeats
<1> HIDE DEF c, p
<1>11. /\ Kept(m) /\ Upto(m, p, c) /\ Answers1(tag, m, p, c, v)
       /\ \A q \in Phases : q # p => SameHalf(m, tag, q)
  BY <1>1, <1>3, <1>4, <1>5, <1>6, <1>7, <1>9, <1>10, EnteredHolds, EnteredAnswers
<1>12. ~Repeats(m, NONE)
  <2>1. m.lastValue = v
    BY <1>3, <1>6, <1>10 DEF Entered, Kept, TagType
  <2>2. QED
    BY <1>5, <2>1 DEF Repeats
<1>13. Upto(m, p, c + 1)
  BY <1>1, <1>11 DEF Upto
<1>14. /\ Kept(tag') /\ Answers1(m, tag', p, c + 1, NONE)
       /\ \A q \in Phases : q # p => SameHalf(tag', m, q)
  BY <1>1, <1>4, <1>5, <1>7, <1>11, <1>12, <1>13, EnteredHolds, EnteredAnswers
<1>15. answers' = [y \in 0 .. Horizon |-> Told(tag', y)]
  BY <1>3, AnswersTold
<1>16. MovesGone'
  <2>1. tag'.lastValue = NONE
    BY <1>7, <1>11, <1>12 DEF Entered, Kept, TagType
  <2>2. ASSUME NEW q \in Phases, NEW x \in Int, x >= Reach'[q]
        PROVE  Searched(tag', q, x).value = NONE
    <3>1. CASE q = p
      <4>1. x >= c + 1
        BY <1>1, <1>8, <2>2, <3>1
      <4>2. QED
        BY <1>14, <3>1, <4>1 DEF Answers1
    <3>2. CASE q # p
      <4>1. x >= Reach[q]
        BY <1>1, <1>8, <2>2, <3>2
      <4>2. Searched(tag', q, x) = Searched(tag, q, x)
        BY <1>11, <1>14, <3>2 DEF Answers1
      <4>3. QED
        BY <1>3, <4>1, <4>2 DEF MovesGone
    <3>3. QED
      BY <3>1, <3>2
  <2>3. QED
    BY <2>1, <2>2 DEF MovesGone
<1>17. OneHalf'
  <2>1. SUFFICES ASSUME use.divisions = 1 PROVE \A a \in Int, w \in Stored : ~Holds(tag', 1, a, w)
    BY <1>2 DEF OneHalf
  <2>2. 1 \in Phases /\ 1 # p
    <3>1. phase \in 0 .. use.divisions - 1
      BY DEF HInv, IInv, TypeInv, TypeOK
    <3>2. QED
      BY <2>1, <3>1 DEF Phases, p
  <2>3. QED
    BY <1>3, <1>11, <1>14, <2>1, <2>2 DEF OneHalf, SameHalf
<1>18. HInv'
  BY <1>2, <1>3, <1>14, <1>15, <1>16, <1>17 DEF HInv, Answerable, LastHolds
<1>19. \A x \in Int : x >= c + p => Searched(tag, 1 - p, x).value = NONE
  <2>1. SUFFICES ASSUME NEW x \in Int, x >= c + p PROVE Searched(tag, 1 - p, x).value = NONE
    OBVIOUS
  <2>2. 1 - p \in Phases
    BY <1>1 DEF Phases
  <2>3. Reach[1 - p] = c + p
    BY <1>1, <1>2, <2>2 DEF Reach, Phases, c, p
  <2>4. QED
    BY <1>3, <2>1, <2>2, <2>3 DEF MovesGone
<1>20. \A y \in 0 .. Horizon : answers'[y] =
           IF y < Now THEN answers[y] ELSE IF y < Now + 2 THEN v ELSE NONE
  <2>1. SUFFICES ASSUME NEW y \in 0 .. Horizon
                 PROVE  answers'[y] = IF y < Now THEN answers[y]
                                      ELSE IF y < Now + 2 THEN v ELSE NONE
    OBVIOUS
  <2>2. y \in Nat
    BY HorizonType
  <2>3. Told(tag', y) = IF y < 2 * c + p THEN Told(tag, y)
                        ELSE IF y < 2 * c + p + 2 THEN v ELSE NONE
    BY <1>1, <1>3, <1>11, <1>14, <1>19, <2>2, MoveAnswers
  <2>4. answers'[y] = Told(tag', y) /\ answers[y] = Told(tag, y)
    BY <1>15 DEF HInv
  <2>5. QED
    BY <2>3, <2>4 DEF Now, c, p
<1>21. Now <= Horizon + 1 /\ Horizon \in Nat
  BY <1>1, HorizonType
<1>22. History!Next
  BY <1>1, <1>2, <1>20, <1>21, PulseStep
<1>23. QED
  BY <1>18, <1>22

LEMMA HistoryStep ==
    ASSUME HInv, [AnswersNext]_<<vars, answers>>
    PROVE  HInv' /\ [History!Next]_(History!vars)
<1>1. IInv'
  <2>1. [Next]_vars
    BY DEF AnswersNext
  <2>2. QED
    BY <2>1, NextIInv DEF HInv
<1>2. CASE AnswersNext
  <2>1. answers' = Answers(tag') /\ Next
    BY <1>2 DEF AnswersNext
  <2>2. use \in Uses /\ ("Move" \in use.ops => use.ops = {"Move"})
        /\ ("Undefine" \in use.ops => use.divisions = 1)
    BY UsesAssumption DEF HInv, Answerable, IInv, TypeInv
  <2>3. ASSUME NEW c \in cycle .. Min({cycle + use.maxGap, MaxCycle}),
               NEW p \in 0 .. use.divisions - 1, Cycle(c, p)
        PROVE  HInv' /\ History!Next
    <3>1. c \in 0 .. MaxCycle
      BY <1>1, <2>3 DEF Cycle, IInv, TypeInv, TypeOK
    <3>2. QED
      BY <1>1, <2>1, <2>3, <3>1, CycleStep
  <2>4. ASSUME NEW v \in Values, Set(v)
        PROVE  HInv' /\ (History!Next \/ UNCHANGED History!vars)
    <3>1. "Move" \notin use.ops /\ v \in Stored /\ v # NONE
      BY <2>2, <2>4, ValuesAssumption DEF Set, Stored
    <3>2. QED
      BY <1>1, <2>1, <2>4, <3>1, SetTold DEF Set
  <2>5. ASSUME Undefine
        PROVE  HInv' /\ (History!Next \/ UNCHANGED History!vars)
    <3>1. "Move" \notin use.ops /\ NONE \in Stored /\ use.divisions = 1
      BY <2>2, <2>5 DEF Undefine, Stored
    <3>2. QED
      BY <1>1, <2>1, <2>5, <3>1, SetTold DEF Undefine
  <2>6. ASSUME NEW v \in Values, Move(v) PROVE HInv' /\ History!Next
    BY <1>1, <2>1, <2>6, MoveTold
  <2>7. ASSUME EndSimulation PROVE HInv' /\ UNCHANGED History!vars
    BY <1>1, <2>1, <2>7, EndStep
  <2>8. QED
    BY <2>1, <2>3, <2>4, <2>5, <2>6, <2>7 DEF Next
<1>3. CASE UNCHANGED <<vars, answers>>
  <2>1. UNCHANGED <<use, tag, cycle, phase, moved, answers>>
    BY <1>3 DEF vars
  <2>2. Reach' = Reach /\ Present' = Present /\ Answerable'
    BY <2>1 DEF Reach, Present, HInv, Answerable
  <2>3. HInv'
    BY <1>1, <2>1, <2>2 DEF HInv, NothingAhead, MovesGone, OneHalf, LastHolds, Now
  <2>4. UNCHANGED History!vars
    BY <2>1 DEF History!vars
  <2>5. QED
    BY <2>3, <2>4
<1>4. QED
  BY <1>2, <1>3

(* TagIdVec implements TagHistory, for chunks of any size, any values and  *)
(* any trace whose offsets do not wrap: whatever was written, compressed   *)
(* or skipped, every cycle and phase of the trace is answered with what    *)
(* the trace said of it, and what was said of the past stays               *)
(* (TagIdVecNode::getTagValue, for the forwarded tags; slots only of a     *)
(* clock of one phase, where undefining a value is seen at once).          *)
THEOREM TagKeepsItsHistory == Answerable /\ AnswersSpec => ImplementsTagHistory
<1>1. Answerable /\ AnswersInit => HInv /\ History!Init
  BY InitHInv
<1>2. HInv /\ [AnswersNext]_<<vars, answers>> => HInv' /\ [History!Next]_(History!vars)
  BY HistoryStep
<1>3. QED
  BY <1>1, <1>2, PTL DEF AnswersSpec, ImplementsTagHistory, History!Spec

(* What the tag answers for the ticks before the present never changes,    *)
(* when chunks are compressed and shrunk as when values are written.       *)
THEOREM PastStays == Answerable /\ AnswersSpec => PastIsKept
<1>1. Answerable /\ AnswersInit => HInv
  BY InitHInv
<1>2. HInv /\ [AnswersNext]_<<vars, answers>> => HInv'
  BY HistoryStep
<1>3. HInv /\ [AnswersNext]_<<vars, answers>> =>
          [\A t \in 0 .. 2 * cycle + phase - 1 : answers'[t] = answers[t]]_answers
  <2>1. SUFFICES ASSUME HInv, [AnswersNext]_<<vars, answers>>, answers' # answers
                 PROVE  \A t \in 0 .. 2 * cycle + phase - 1 : answers'[t] = answers[t]
    OBVIOUS
  <2>2. History!Next
    BY <2>1, HistoryStep DEF History!vars
  <2>3. ASSUME NEW said, History!Say(said)
        PROVE  \A t \in 0 .. 2 * cycle + phase - 1 : answers'[t] = answers[t]
    <3>1. 0 .. 2 * cycle + phase - 1 = 0 .. (2 * cycle + phase) - 1
      BY <2>1, NowType DEF HInv, Phases
    <3>2. QED
      BY <2>3, <3>1 DEF History!Say
  <2>4. ~History!Advance
    BY <2>1 DEF History!Advance
  <2>5. PICK v : History!Set(v) \/ History!Pulse(v)
    BY <2>2, <2>4 DEF History!Next
  <2>6. CASE History!Set(v)
    BY <2>3, <2>6 DEF History!Set
  <2>7. CASE History!Pulse(v)
    BY <2>3, <2>7 DEF History!Pulse
  <2>8. QED
    BY <2>5, <2>6, <2>7
<1>4. QED
  BY <1>1, <1>2, <1>3, PTL DEF AnswersSpec, PastIsKept

LEMMA SpecHInv == Answerable /\ AnswersSpec => []HInv
<1>1. Answerable /\ AnswersInit => HInv
  BY InitHInv
<1>2. HInv /\ [AnswersNext]_<<vars, answers>> => HInv'
  BY HistoryStep
<1>3. QED
  BY <1>1, <1>2, PTL DEF AnswersSpec

(* Under the same conditions getTagValue answers, in the cycle and phase   *)
(* of the trace, the last value that was set, and none when it was         *)
(* undefined: the old values of the other half never show again.           *)
THEOREM PresentIsRead == Answerable /\ AnswersSpec => []ReadsLastValue
<1>1. HInv => ReadsLastValue
  <2>1. SUFFICES ASSUME HInv, "Move" \notin use.ops
                 PROVE  getTagValue(tag, cycle, phase) = tag.lastValue
    BY DEF ReadsLastValue
  <2>2. cycle \in Nat /\ phase \in Phases /\ Now \in Nat /\ Now <= Horizon
    BY <2>1, NowType DEF HInv
  <2>3. Now \in 0 .. Horizon /\ Now \in Now .. Horizon
    BY <2>2, HorizonType
  <2>4. HalfCycle(0, Now) = cycle /\ HalfCycle(1, Now) = LowCycle(cycle, phase)
    <3>1. PICK h \in Nat, r \in {0, 1} :
                Now = 2 * h + r /\ HalfCycle(0, Now) = h /\ HalfCycle(1, Now) = h + r - 1
      BY <2>2, TickOf
    <3>2. h = cycle /\ r = phase
      BY <2>2, <3>1 DEF Now, Phases
    <3>3. QED
      BY <3>1, <3>2 DEF LowCycle
  <2>5. /\ internalGetTagValue(tag, 0, cycle) = Searched(tag, 0, cycle)
        /\ internalGetTagValue(tag, 1, LowCycle(cycle, phase))
              = Searched(tag, 1, LowCycle(cycle, phase))
    BY <2>1, SearchedFwd DEF HInv
  <2>6. getTagValue(tag, cycle, phase) = Told(tag, Now)
    BY <2>1, <2>4, <2>5 DEF HInv, getTagValue, Told, Merged
  <2>7. Told(tag, Now) = tag.lastValue
    BY <2>1, <2>3 DEF HInv, LastHolds
  <2>8. QED
    BY <2>6, <2>7
<1>2. QED
  BY <1>1, SpecHInv, PTL
=============================================================================
