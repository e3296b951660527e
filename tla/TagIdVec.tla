------------------------------ MODULE TagIdVec ------------------------------
(***************************************************************************)
(* One tag of one track (dDB/trackheap/TagIdVec.{h,cpp}) with the vectors  *)
(* that hold its values (TagVecValue64, 31, 8 and their NF, Short and      *)
(* Dense forms), and the writer that drives it: DBListener announces the   *)
(* cycles of the track's clock, compresses the chunks left behind and      *)
(* sets, clears or pulses the value in the cycle and phase it is in.       *)
(*                                                                         *)
(* The values set in phase 0 and those set in phase 1 are kept apart; each *)
(* half is cut into chunks of CHUNK cycles, allocated when first written.  *)
(* The encodings of a chunk differ in the width of their fields only, so   *)
(* one operator stands for the same method of all of them.  Cycles are     *)
(* relative to the first cycle of the clock (TrackHeap subtracts it).      *)
(* addTagValue and undefineTagValue are one operation, NONE being the      *)
(* value of an undefined tag.                                              *)
(***************************************************************************)
EXTENDS Integers, Sequences, FiniteSetsExt

CONSTANTS
    Values,      \* values of the tag
    NONE,        \* no value: lastValueUndefined, or an entry not defined
    NULL,        \* a chunk that is not allocated
    CHUNK,       \* CYCLE_CHUNK_SIZE
    MAXCHUNKS,   \* TAGIDVECNODE_MAXCHUNKS
    OFFSETS,     \* the offset a search computes is modulo this
    Uses,        \* what tags, clocks and traces there are
    MaxCycle     \* bound: last cycle of the trace

ASSUME SizesAssumption ==
    /\ CHUNK \in Nat \ {0} /\ MAXCHUNKS \in Nat \ {0} /\ OFFSETS \in Nat \ {0}
    /\ MaxCycle \in 0 .. CHUNK * MAXCHUNKS - 1
ASSUME ValuesAssumption == NONE \notin Values
(* A use: what the trace does to the tag, whether a value of the tag is    *)
(* forwarded to the cycles after it, the phases of the track's clock, and  *)
(* a bound on the cycles the clock advances at once.  Only forwarded tags  *)
(* are undefined: items in slots and edges, colours.  Nothing but moves    *)
(* writes to the tracks of an edge.                                        *)
ASSUME UsesAssumption ==
    /\ Uses \subseteq [ops : SUBSET {"Set", "Undefine", "Move"}, fwd : BOOLEAN,
                       divisions : {1, 2}, maxGap : Nat \ {0}]
    /\ \A u \in Uses : ~u.fwd => u.ops = {"Set"}
    /\ \A u \in Uses : "Move" \in u.ops => u.ops = {"Move"}

VARIABLES
    use,               \* given once
    tag,               \* the TagIdVecNode
    cycle, phase,      \* currentCycle of the clock
    lastCompressCycle, \* DBListener::lastCompressCycle of the clock
    moved,             \* an item was moved here in this cycle and phase
    ended,             \* Do_EndSimulation has run
    refused            \* a write returned false: the trace is in error

vars == <<use, tag, cycle, phase, lastCompressCycle, moved, ended, refused>>

MAXCYCLES == CHUNK * MAXCHUNKS
Phases == 0..1                 \* cycleVecHigh and cycleVecLow
Chunks == 0 .. MAXCHUNKS       \* the last one is past the end of the array
Clip(n) == n % MAXCYCLES       \* a 20-bit field

(* TagIdVecNode::TagIdVecNode                                              *)
EmptyTag == [cycleVec   |-> [p \in Phases |-> [k \in Chunks |-> NULL]],
             firstCycle |-> MAXCYCLES - 1,
             lastCycle  |-> 0,
             lastValue  |-> NONE,
             lastCompressedChunk |-> 0]

-----------------------------------------------------------------------------
(* Writing.                                                                *)

(* The chunk has no room for more entries: Dense and Short vectors.        *)
Closed(vec) == vec # NULL /\ vec.dense

(* checkCycleChunk, for one chunk                                          *)
Allocated(vec) == IF vec = NULL THEN [entries |-> <<>>, dense |-> FALSE] ELSE vec

(* Mutant: an entry of the same cycle is not looked for.                   *)
OverwritesM(es, off) == es # <<>> /\ es[Len(es)].offset > off

(* addTagValue and undefineTagValue of an encoding: the last entry is      *)
(* overwritten when it is of the same cycle.  Undefining what the chunk    *)
(* already ends with adds nothing.                                         *)
Overwrites(es, off) == es # <<>> /\ es[Len(es)].offset = off

Put(es, off, v) ==
    IF Overwrites(es, off) THEN [es EXCEPT ![Len(es)].value = v]
    ELSE IF v = NONE /\ es # <<>> /\ es[Len(es)].value = NONE THEN es
    ELSE Append(es, [offset |-> off, value |-> v])

Written(vec, off, v) ==
    IF Closed(vec) THEN vec
    ELSE [Allocated(vec) EXCEPT !.entries = Put(@, off, v)]

(* The tag already has this value: nothing is stored.                      *)
Repeats(t, v) == v = t.lastValue

(* TagIdVecNode::addTagValue, undefineTagValue                             *)
Entered(t, c, p, v) ==
    IF Repeats(t, v) THEN t
    ELSE [t EXCEPT !.cycleVec[p][c \div CHUNK] = Written(@, c % CHUNK, v),
                   !.lastCycle  = Clip(Max({c, @})),
                   !.firstCycle = Clip(Min({c, @})),
                   !.lastValue  = v]

(* Their result is FALSE                                                   *)
Refuses(t, c, p, v) == ~Repeats(t, v) /\ Closed(t.cycleVec[p][c \div CHUNK])

-----------------------------------------------------------------------------
(* Compression.                                                            *)

(* Mutant: a chunk that has begun is over.                                 *)
CompleteM(k, c, last) == last \/ c >= k * CHUNK

(* The chunk is over, or the trace is.                                     *)
Complete(k, c, last) == last \/ c >= k * CHUNK + CHUNK - 1

(* density < MIN_DENSITY, 0.75 in every encoding                           *)
Sparse(vec) == 4 * Len(vec.entries) < 3 * CHUNK

hasData(t) == \E p \in Phases, k \in Chunks : t.cycleVec[p][k] # NULL

(* Mutant: chunks past the array.                                          *)
LastChunkM(c) == c \div CHUNK

(* The chunks compression looks at.                                        *)
FromChunk(t) == t.lastCompressedChunk
LastChunk(c) == Min({c \div CHUNK, MAXCHUNKS - 1})

(* TagIdVecNode::compressYourSelf: a sparse chunk is copied to a vector of *)
(* the size it needs, that takes no more entries.                          *)
Compressed(t, c, last) ==
    LET Shrink(k, vec) ==
            IF k \in FromChunk(t) .. LastChunk(c) /\ vec # NULL
            THEN IF Complete(k, c, last) /\ Sparse(vec)
                 THEN [vec EXCEPT !.dense = TRUE] ELSE vec
            ELSE vec
    IN  IF ~hasData(t) THEN t
        ELSE [t EXCEPT !.cycleVec = [p \in Phases |->
                           [k \in Chunks |-> Shrink(k, t.cycleVec[p][k])]],
                       !.lastCompressedChunk = LastChunk(c) + 1]

-----------------------------------------------------------------------------
(* Reading.                                                                *)

NotFound == [at |-> -1, value |-> NONE]

(* The entries of a chunk that hold at an offset, the last one of them     *)
(* being the answer of the search: those set before it, or, in the NF      *)
(* encodings, at it.                                                       *)
MatchesFwd(es, off) == {i \in DOMAIN es : es[i].offset <= off}
MatchesNF(es, off)  == {i \in DOMAIN es : es[i].offset = off}
Matches(es, off)    == IF use.fwd THEN MatchesFwd(es, off) ELSE MatchesNF(es, off)

(* The offset of cycle c for chunk k, that may be an earlier chunk.        *)
SearchOffset(c, k) == (c - k * CHUNK) % OFFSETS

(* Mutant: no look back.                                                   *)
minChunkM(t, c) == c \div CHUNK

(* First chunk the search looks back to.                                   *)
minChunk(t, c) == (IF use.fwd THEN t.firstCycle ELSE c) \div CHUNK

(* A cycle after the last one with contents is taken back to it.           *)
Clamp(t, c) == IF use.fwd THEN Min({c, t.lastCycle}) ELSE c

(* TagIdVecNode::internalGetTagValue in one phase: where the value was set *)
(* and the value, NONE when there is none or an entry undefines it.        *)
internalGetTagValue(t, p, c) ==
    LET d == Clamp(t, c)
        Hits(k) == IF t.cycleVec[p][k] = NULL THEN {}
                   ELSE Matches(t.cycleVec[p][k].entries, SearchOffset(d, k))
        found == {k \in minChunk(t, d) .. d \div CHUNK : Hits(k) # {}}
    IN  IF c < t.firstCycle \/ d > t.lastCycle \/ found = {} THEN NotFound
        ELSE LET k == Max(found)
                 e == t.cycleVec[p][k].entries[Max(Hits(k))]
             IN  [at |-> k * CHUNK + e.offset, value |-> e.value]

(* Mutant: the low value of the cycle, whatever the phase.                 *)
LowCycleM(c, p) == c

(* Before phase 0 of a cycle comes phase 1 of the cycle before.            *)
LowCycle(c, p) == c + p - 1

(* TagIdVecNode::getTagValue                                               *)
getTagValue(t, c, p) ==
    IF use.fwd
    THEN LET high == internalGetTagValue(t, 0, c)
             low  == internalGetTagValue(t, 1, LowCycle(c, p))
         IN  CASE low.value  = NONE -> high.value
               [] high.value = NONE -> low.value
               [] OTHER -> IF high.at > low.at THEN high.value ELSE low.value
    ELSE internalGetTagValue(t, p, c).value

-----------------------------------------------------------------------------
(* The trace.                                                              *)

Init ==
    /\ use \in Uses
    /\ tag = EmptyTag
    /\ cycle = 0 /\ phase \in 0 .. use.divisions - 1
    /\ lastCompressCycle = 0
    /\ moved = FALSE /\ ended = FALSE /\ refused = FALSE

(* The listener takes callbacks of the trace.                              *)
Tracing == ~ended /\ ~refused

(* A chunk of cycles has passed since the last compression.                *)
CompressDue(c) == c - lastCompressCycle >= CHUNK

(* DBListener::Cycle, after the first one of the clock                     *)
Cycle(c, p) ==
    /\ Tracing
    /\ c > cycle \/ (c = cycle /\ p > phase)
    /\ cycle' = c /\ phase' = p /\ moved' = FALSE
    /\ IF CompressDue(c)
       THEN tag' = Compressed(tag, c - 1, FALSE) /\ lastCompressCycle' = c
       ELSE UNCHANGED <<tag, lastCompressCycle>>
    /\ UNCHANGED <<use, ended, refused>>

(* SetNodeTag, SetCycleTag, SetEdgeTag, EnterNode: the value v from now on *)
Set(v) ==
    /\ Tracing /\ "Set" \in use.ops
    /\ tag' = Entered(tag, cycle, phase, v)
    /\ refused' = Refuses(tag, cycle, phase, v)
    /\ UNCHANGED <<use, cycle, phase, lastCompressCycle, moved, ended>>

(* ExitNode: no value from now on                                          *)
Undefine ==
    /\ Tracing /\ "Undefine" \in use.ops
    /\ tag' = Entered(tag, cycle, phase, NONE)
    /\ refused' = Refuses(tag, cycle, phase, NONE)
    /\ UNCHANGED <<use, cycle, phase, lastCompressCycle, moved, ended>>

(* Mutant: the item is gone a cycle late.                                  *)
GoneM(c) == c + 2

(* The cycle in which a moved item is gone.                                *)
Gone(c) == c + 1

(* MoveItems: TrackHeap::addMoveItem, the value v for one cycle.  It gives *)
(* a position once in a cycle; MoveItemsWithPositions could give it twice. *)
Move(v) ==
    LET added == Entered(tag, cycle, phase, v)
        fails == Refuses(tag, cycle, phase, v)
    IN  /\ Tracing /\ ~moved /\ "Move" \in use.ops
        /\ tag' = IF fails THEN added ELSE Entered(added, Gone(cycle), phase, NONE)
        /\ refused' = (fails \/ Refuses(added, Gone(cycle), phase, NONE))
        /\ moved' = TRUE
        /\ UNCHANGED <<use, cycle, phase, lastCompressCycle, ended>>

(* DBListener::Do_EndSimulation, for a trace of one clock                  *)
EndSimulation ==
    /\ Tracing
    /\ tag' = Compressed(tag, cycle + CHUNK + 1, TRUE)
    /\ ended' = TRUE
    /\ UNCHANGED <<use, cycle, phase, lastCompressCycle, moved, refused>>

Next ==
    \/ \E c \in cycle .. Min({cycle + use.maxGap, MaxCycle}), p \in 0 .. use.divisions - 1 :
           Cycle(c, p)
    \/ \E v \in Values : Set(v) \/ Move(v)
    \/ Undefine
    \/ EndSimulation

Spec == Init /\ [][Next]_vars

-----------------------------------------------------------------------------
(* Properties.                                                             *)

Entry == [offset : 0 .. CHUNK - 1, value : Values \cup {NONE}]
TagVec == [entries : Seq(Entry), dense : BOOLEAN]

(* NULL is no chunk.                                                       *)
ASSUME NullAssumption == NULL \notin TagVec

(* Types of the variables (TagIdVec.h and DBListener.h declarations).      *)
TypeOK ==
    /\ tag \in [cycleVec : [Phases -> [Chunks -> TagVec \cup {NULL}]],
                firstCycle : 0 .. MAXCYCLES - 1,
                lastCycle  : 0 .. MAXCYCLES - 1,
                lastValue  : Values \cup {NONE},
                lastCompressedChunk : 0 .. MAXCHUNKS]
    /\ cycle \in 0 .. MaxCycle /\ phase \in 0 .. use.divisions - 1
    /\ lastCompressCycle \in 0 .. MaxCycle
    /\ moved \in BOOLEAN /\ ended \in BOOLEAN /\ refused \in BOOLEAN

AllVecs == {tag.cycleVec[p][k] : p \in Phases, k \in Chunks} \ {NULL}

(* The entries of every chunk are in the order of their cycles, one for a  *)
(* cycle, and there is at least one: what the binary search of the         *)
(* encodings, and their assertion on the last entry, rely on.              *)
Sorted ==
    \A vec \in AllVecs :
        /\ vec.entries # <<>>
        /\ \A i, j \in DOMAIN vec.entries :
               i < j => vec.entries[i].offset < vec.entries[j].offset

(* No write of a legal trace meets a chunk that was compressed: what the   *)
(* listener compresses when it announces a cycle is never written again.   *)
WritesAccepted == ~refused

(* No chunk past the end of the array of chunks is asked for.  The array   *)
(* is made for the cycles a trace may have, and a move writes one cycle    *)
(* ahead: in the last of them there must be none.                          *)
WithinArray ==
    "Move" \notin use.ops \/ cycle + 1 < MAXCYCLES =>
        \A p \in Phases : tag.cycleVec[p][MAXCHUNKS] = NULL

(* The same of every trace the listener accepts, the assertion of          *)
(* AEVector::allocateElement.                                              *)
ArraySuffices == \A p \in Phases : tag.cycleVec[p][MAXCHUNKS] = NULL

(* The value read in the cycle and phase of the trace is the last one that *)
(* was set, and none after it was undefined (getTagValue).                 *)
ReadsLastValue ==
    "Move" \notin use.ops => getTagValue(tag, cycle, phase) = tag.lastValue

(* Everything the tag answers, by tick of the trace: two for every cycle.  *)
Horizon == (MaxCycle + 2) * 2 - 1
Answers(t) == [x \in 0 .. Horizon |-> getTagValue(t, x \div 2, x % 2)]
=============================================================================
