----------------------------- MODULE TagHandler -----------------------------
(***************************************************************************)
(* The iterators the views draw a forwarded tag with, once its trace has   *)
(* ended (dDB/taghandler/TagHandler.{h,cpp}, TagFlipHandler.cpp, and the   *)
(* methods of the tag vectors they call).  They keep a place in the chunks *)
(* of one phase and go on from there, where getTagValue searches from      *)
(* nothing; a tag with values in both phases is gone through by two of     *)
(* them.  Nothing writes to the tag any more, so an operation is an        *)
(* operator on the handler, and a walk is a sequence.                      *)
(***************************************************************************)
EXTENDS TagIdVec

BIGGEST_CYCLE == MAXCYCLES * 2    \* past the last cycle of any tag

(* The entries of chunk k of phase d, none when it is not allocated.       *)
EntriesOf(t, d, k) ==
    IF k \in Chunks /\ t.cycleVec[d][k] # NULL THEN t.cycleVec[d][k].entries ELSE <<>>

(* hasHighData, hasLowData                                                 *)
HasData(t, d) == \E k \in Chunks : t.cycleVec[d][k] # NULL

(* A handler that enters chunk k with value v: the fields at, entry and    *)
(* value are act_cycle, act_entry and act_value, value being NONE when     *)
(* act_defined is false.                                                   *)
AtChunk(k, v) == [at |-> k * CHUNK, chunk |-> k, entry |-> 0, value |-> v]

-----------------------------------------------------------------------------
(* InternalTagHandler: one phase.                                          *)

Reached(es, h) == {i \in DOMAIN es : es[i].offset <= h.at % CHUNK}

(* getActualValue: on to the last entry not after the handler's cycle.     *)
ActualValue(t, d, h) ==
    LET es == EntriesOf(t, d, h.chunk)
        i  == Max({h.entry} \cup Reached(es, h))
    IN  IF i = h.entry THEN h ELSE [h EXCEPT !.entry = i, !.value = es[i].value]

rewindToFirstCycle(t, d) == ActualValue(t, d, AtChunk(0, NONE))

(* Mutant: the entries of the chunk are counted on from the last one.      *)
TurnedM(h) == [h EXCEPT !.at = @ + 1, !.chunk = (h.at + 1) \div CHUNK]

(* The next cycle, in the next chunk when this one is over.                *)
Turned(h) ==
    IF (h.at + 1) % CHUNK = 0 THEN AtChunk(h.chunk + 1, h.value)
    ELSE [h EXCEPT !.at = @ + 1]

nextCycle(t, d, h) == ActualValue(t, d, Turned(h))

(* skipToNextCycleWithChange of the vectors: their next entry.             *)
HasNextEntry(t, d, h) == h.entry < Len(EntriesOf(t, d, h.chunk))
NextEntry(t, d, h) ==
    LET e == EntriesOf(t, d, h.chunk)[h.entry + 1]
    IN  [h EXCEPT !.at = h.chunk * CHUNK + e.offset, !.entry = @ + 1, !.value = e.value]

LastToVisit(t) == t.lastCycle \div CHUNK + 1

(* The chunk begins with another value.  noise has the chunks that begin   *)
(* with an undefined entry whose value, never written, happens to differ.  *)
Differs(h, v, noise) == h.value # v \/ (h.entry # 0 /\ h.value = NONE /\ h.chunk \in noise)

(* InternalTagHandler::skipToNextCycleWithChange                           *)
Skip(t, d, h, noise) ==
    LET Arrival(k) == ActualValue(t, d, AtChunk(k, h.value))
        stops == {k \in h.chunk + 1 .. LastToVisit(t) :
                      \/ Differs(Arrival(k), h.value, noise)
                      \/ HasNextEntry(t, d, Arrival(k))}
        first == Arrival(Min(stops))
    IN  CASE HasNextEntry(t, d, h) -> NextEntry(t, d, h)
          [] ~HasNextEntry(t, d, h) /\ stops = {} ->
                 [h EXCEPT !.at = BIGGEST_CYCLE, !.chunk = LastToVisit(t) + 1]
          [] OTHER -> IF Differs(first, h.value, noise) THEN first ELSE NextEntry(t, d, first)

IsFound(h, c) == h.value # NONE /\ h.at >= c

(* One turn of the loop at the end of skipToCycleDefined.                  *)
Sought(t, d, h, c, noise) ==
    IF IsFound(h, c) \/ h.at = BIGGEST_CYCLE THEN h ELSE Skip(t, d, h, noise)

(* That loop.  Every turn goes on by a cycle, so it is over when a tag has *)
(* no more cycles.                                                         *)
SkipTo(t, d, h, c, noise) ==
    LET after[n \in 0 .. MAXCYCLES] ==
            IF n = 0 THEN h ELSE Sought(t, d, after[n - 1], c, noise)
    IN  after[MAXCYCLES]

(* A phase 0 handler asked for a phase 1 begins at the next cycle.         *)
Asked(d, c, p) == IF d = 0 /\ p = 1 THEN c + 1 ELSE c

(* InternalTagHandler::skipToCycleDefined                                  *)
skipToCycleDefined(t, d, c, p, noise) ==
    LET from == Asked(d, c, p)
        k    == Min({j \in from \div CHUNK .. LastToVisit(t) :
                         t.cycleVec[d][j] # NULL} \cup {LastToVisit(t) + 1})
    IN  IF HasData(t, d)
        THEN SkipTo(t, d, ActualValue(t, d, AtChunk(k, NONE)), from, noise)
        ELSE [AtChunk(k, NONE) EXCEPT !.at = BIGGEST_CYCLE]

-----------------------------------------------------------------------------
(* DualTagHandler: one handler for each phase, and the one that is first.  *)

(* Mutant: the phase 1 handler is first in its own cycle.                  *)
EarliestM(hs) == IF hs[1].at <= hs[0].at THEN 1 ELSE 0

Earliest(hs) == IF hs[0].at <= hs[1].at THEN 0 ELSE 1

(* DualTagHandler::rewindToFirstCycle: an undefined handler goes to its    *)
(* first value, but when both are the one of phase 0 stays.                *)
DualRewound(t, noise) ==
    LET hs == [d \in Phases |-> rewindToFirstCycle(t, d)]
        lowFirst == hs[0].value = NONE /\ hs[1].value # NONE
        moves(d) == IF d = 0 THEN lowFirst ELSE hs[1].value = NONE
    IN  [hs |-> [d \in Phases |-> IF moves(d) THEN Skip(t, d, hs[d], noise) ELSE hs[d]],
         actual |-> IF lowFirst THEN 1 ELSE 0]

(* TrackHeap::initTagHandler at the first cycle: a handler of one phase    *)
(* stands alone, the other one being past the end.                         *)
initTagHandler(t, noise) ==
    LET d == IF HasData(t, 1) THEN 1 ELSE 0
    IN  IF HasData(t, 0) /\ HasData(t, 1) THEN DualRewound(t, noise)
        ELSE [hs |-> [q \in Phases |-> IF q = d THEN rewindToFirstCycle(t, d)
                                       ELSE [AtChunk(0, NONE) EXCEPT !.at = BIGGEST_CYCLE]],
              actual |-> d]

(* skipToNextCycleWithChange of either.                                    *)
DualSkip(t, dual, noise) ==
    LET d  == dual.actual
        hs == [dual.hs EXCEPT ![d] = Skip(t, d, @, noise)]
    IN  [hs |-> hs, actual |-> IF HasData(t, 1 - d) THEN Earliest(hs) ELSE d]

(* The moment, in phases, a handler is at, and the value from then on.     *)
Change(dual) ==
    LET h == dual.hs[dual.actual] IN [tick |-> 2 * h.at + dual.actual, value |-> h.value]

AtEnd(dual) == dual.hs[dual.actual].at = BIGGEST_CYCLE

(* A walk takes the change it is at, and goes to the next.                *)
TakeFlip(t, walk, noise) ==
    IF AtEnd(walk.dual) THEN walk
    ELSE [dual  |-> DualSkip(t, walk.dual, noise),
          flips |-> Append(walk.flips, Change(walk.dual))]

(* The changes of a tag from there on, as TagFlipHandler goes through      *)
(* them: at most one for each moment a tag has.                            *)
Flips(t, dual, noise) ==
    LET walks[n \in 0 .. BIGGEST_CYCLE] ==
            IF n = 0 THEN [dual |-> dual, flips |-> <<>>]
            ELSE TakeFlip(t, walks[n - 1], noise)
    IN  walks[BIGGEST_CYCLE].flips

(* The last moment of the trace, DBListener::getLastCycle.                 *)
LastTick == 2 * cycle + phase

(* InternalTagFlipHandler::init, with one tag: an undefined tag goes to    *)
(* its first change, and is not gone through unless that comes before the  *)
(* last moment of the trace.                                               *)
FlipsOf(t, noise) ==
    LET dual  == initTagHandler(t, noise)
        first == IF Change(dual).value = NONE THEN DualSkip(t, dual, noise) ELSE dual
    IN  IF Change(first).tick < LastTick THEN Flips(t, first, noise) ELSE <<>>

(* TagFlipHandler::skipToNextCycleWithChange: what a view shows at tick x, *)
(* having taken the changes one after the other while they are not later.  *)
Shown(flips, x) ==
    LET taken == {n \in 0 .. Len(flips) : \A i \in 1 .. n : flips[i].tick <= x}
    IN  IF Max(taken) = 0 THEN NONE ELSE flips[Max(taken)].value

-----------------------------------------------------------------------------
(* Properties, of every tag a trace leaves.                                *)

(* The chunks of phase d that may begin with a value never written.        *)
Noises(t) ==
    SUBSET {k \in Chunks : \E d \in Phases :
                LET es == EntriesOf(t, d, k)
                IN  es # <<>> /\ es[1].offset = 0 /\ es[1].value = NONE}

Asks == 0 .. MaxCycle + 1

(* What each phase of the tag says of a cycle, searched from nothing.      *)
Searches == [d \in Phases |-> [c \in Asks |-> internalGetTagValue(tag, d, c).value]]

(* nextCycle after nextCycle, from rewindToFirstCycle.                     *)
Walk(d) ==
    LET h[c \in Asks] ==
            IF c = 0 THEN rewindToFirstCycle(tag, d) ELSE nextCycle(tag, d, h[c - 1])
    IN  h

(* A handler moved cycle by cycle over the whole trace has at each of them *)
(* the value a search finds: the filter of the floor plan draws what a     *)
(* question about the same cycle answers.                                  *)
WalkReads(searched) ==
    \A d \in Phases : LET h == Walk(d) IN \A c \in Asks : h[c].value = searched[d][c]

(* "Find" passes over nothing: between the moment asked and the one it     *)
(* lands on no value appears or changes, and there it finds the tag's own  *)
(* value.  Items are looked for, in slots and edges.                       *)
FindMissesNothing(searched) ==
    \A d \in Phases, noise \in Noises(tag) :
        LET fresh == {x \in Asks : searched[d][x] # NONE
                                   /\ (x > 0 => searched[d][x] # searched[d][x - 1])}
        IN  \A c \in Asks, p \in d .. 1 :
                LET h == skipToCycleDefined(tag, d, c, p, noise)
                    NotBefore(x) == 2 * x + d >= 2 * c + p
                IN  /\ \A x \in fresh : NotBefore(x) => h.at <= x
                    /\ h.at # BIGGEST_CYCLE =>
                           NotBefore(h.at) /\ h.value # NONE /\ h.value = searched[d][h.at]

(* A handler that goes through a phase of a tag and a search that starts   *)
(* from nothing agree, whatever was compressed and wherever the chunks end *)
(* (nextCycle, skipToCycleDefined, internalGetTagValue).                   *)
HandlersAgree ==
    ended => LET searched == Searches
             IN  WalkReads(searched) /\ (use.ops # {"Set"} => FindMissesNothing(searched))

(* What a view shows, having gone through these changes, is what the tag   *)
(* answers (getTagValue), at every moment.                                 *)
Agree(flips) ==
    \A x \in 0 .. Horizon : Shown(flips, x) = getTagValue(tag, x \div 2, x % 2)

(* The tag had a value before the last moment of the trace.                *)
ValueInTime == \E x \in 0 .. LastTick - 1 : getTagValue(tag, x \div 2, x % 2) # NONE

(* The changes of a tag go forward, so the loops that draw it end, each is *)
(* what its own phase has then, and while a tag has values in one phase    *)
(* only, and not in the last moment only, a view shows for every moment    *)
(* what the tag answers (TagFlipHandler, getTagValue).                     *)
FlipsInOrder ==
    ended => \A noise \in Noises(tag) :
        LET flips == FlipsOf(tag, noise)
        IN  /\ \A i \in 1 .. Len(flips) - 1 : flips[i].tick < flips[i + 1].tick
            /\ \A i \in DOMAIN flips :
                   flips[i].value =
                       internalGetTagValue(tag, flips[i].tick % 2, flips[i].tick \div 2).value
            /\ ~(HasData(tag, 0) /\ HasData(tag, 1)) /\ ValueInTime => Agree(flips)

(* The two handlers of a tag with values in both phases are kept in order  *)
(* "to maintain coherency" (TagHandler.h:47): a view shows what the tag    *)
(* answers here too (DualTagHandler, getTagValue).                         *)
FlipsAgree ==
    ended /\ ValueInTime => \A noise \in Noises(tag) : Agree(FlipsOf(tag, noise))

(* The same of tags set in the last moment only.                           *)
LateFlipsAgree ==
    ended /\ ~ValueInTime => \A noise \in Noises(tag) : Agree(FlipsOf(tag, noise))
=============================================================================
