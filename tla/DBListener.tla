----------------------------- MODULE DBListener -----------------------------
(***************************************************************************)
(* The consumer of a trace (dDB/DBListener.{h,cpp}) and the loader that    *)
(* feeds it (DralDB::loadDRLHeader, IOMgr, Dreams::loadFinish): the states *)
(* a trace goes through, the cycles its clocks announce, the items, and    *)
(* the moves of items through edges, which are stored twice, with the item *)
(* (ItemHeap) and with the position of the edge (TrackHeap).               *)
(*                                                                         *)
(* How a heap stores what it is given, the compression of chunks and the   *)
(* dictionaries are the subject of TagIdVec and Dict2064.  The graph and   *)
(* the clocks of the header are given; what a header may get wrong is one  *)
(* action.                                                                 *)
(***************************************************************************)
EXTENDS Integers, SequencesExt

CONSTANTS
    NumClocks,  \* clocks of the trace
    Divisions,  \* phases of a clock
    Ratio,      \* LCM cycles of a phase of a clock
    Skew,       \* LCM cycles a clock starts late
    Internal,   \* internal clock of a clock: one for a frequency and a skew
    Edges,      \* tracked edges
    EdgeClock,  \* clock an edge is attached to
    Bandwidth,  \* positions of an edge
    Items,      \* item ids
    MAXCYCLES,  \* most cycles a clock may have (1048575)
    CYCLE_CHUNK_SIZE,
    MaxCycle,   \* bound: last cycle announced
    MaxMoves    \* bound: items moved by one callback

Clocks == 0 .. NumClocks - 1

ASSUME ClocksAssumption ==
    /\ NumClocks \in Nat \ {0} /\ MaxCycle \in Nat
    /\ MAXCYCLES \in Nat /\ CYCLE_CHUNK_SIZE \in Nat
    /\ Divisions \in [Clocks -> {1, 2}] /\ Ratio \in [Clocks -> Nat \ {0}]
    /\ Skew \in [Clocks -> Nat] /\ Internal \in [Clocks -> Clocks]
    /\ \A c, d \in Clocks : Internal[c] = Internal[d] =>
                             Ratio[c] = Ratio[d] /\ Skew[c] = Skew[d]
ASSUME EdgesAssumption ==
    EdgeClock \in [Edges -> Clocks] /\ Bandwidth \in [Edges -> Nat \ {0}]
ASSUME BoundsAssumption == MaxMoves \in Nat

VARIABLES
    state,         \* DBListener::state
    loader,        \* of the trace: "header", "loading", "finished",
                   \* "failed" (header refused) or "crashed" (null pointer)
    traceAchieved, \* StartActivity was reached and the arrays are allocated
    cycle,         \* the cycle of the trace: clock, cycle and division
    currentCycle,  \* of each clock: cycle and division
    firstEffectiveCycle,
    isFirstCycle,
    itemFirst,     \* ItemHeap::firstEffectiveCycle, of each internal clock
    items,         \* ids ItemHeap has an entry for
    deleted,       \* those that have a deletion event
    lastUsedPos,   \* next position of each edge in this cycle
    itemMoves,     \* moves stored with the items: internal clock, and cycle
                   \* relative to its itemFirst
    trackMoves,    \* moves stored with the edges
    bounds,        \* firstCycle and lastCycle, in LCM cycles
    compressed,    \* clocks whose tracks were compressed for the last time
    regular        \* the trace has been one a simulator writes: no cycle, or
                   \* earlier phase of it, announced again, and no item id
                   \* given to a second item

clockVars == <<cycle, currentCycle, firstEffectiveCycle, isFirstCycle, itemFirst>>
moveVars  == <<lastUsedPos, itemMoves, trackMoves>>
itemVars  == <<items, deleted>>
endVars   == <<bounds, compressed>>
vars == <<state, loader, traceAchieved, regular, clockVars, itemVars, moveVars, endVars>>

Never == [cycle |-> -1, division |-> 0]

Init ==
    /\ state = "VERSION" /\ loader = "header" /\ traceAchieved = FALSE /\ regular = TRUE
    /\ cycle = [clock |-> 0, cycle |-> 0, division |-> 0]
    /\ currentCycle = [c \in Clocks |-> Never]
    /\ firstEffectiveCycle = [c \in Clocks |-> Never]
    /\ isFirstCycle = [c \in Clocks |-> TRUE]
    /\ itemFirst = [c \in Clocks |-> -1]
    /\ items = {} /\ deleted = {}
    /\ lastUsedPos = [e \in Edges |-> 0]
    /\ itemMoves = {} /\ trackMoves = {}
    /\ bounds = [first |-> 0, last |-> 0] /\ compressed = {}

-----------------------------------------------------------------------------
(* Time.                                                                   *)

(* CYCLE::toLCMCycles of the cycle x of clock c                            *)
toLCM(c, x) == (2 * x.cycle + x.division) * Ratio[c] + Skew[c]

(* Mutant: the comparison the other way round.                             *)
LowestM(S) == Max(S)

Lowest(S) == Min(S)

(* DBListener::Do_EndSimulation, the state of the listener apart: bounds   *)
(* over all clocks and, for each of them, a compression of the tracks of   *)
(* the clock of the current cycle, which a chunk is added to.              *)
EndOfSimulation ==
    /\ bounds' = [first |-> Lowest({toLCM(c, firstEffectiveCycle[c]) : c \in Clocks}),
                  last  |-> Max({toLCM(c, currentCycle[c]) : c \in Clocks})]
    /\ compressed' = compressed \cup {cycle.clock}
    /\ cycle' = [cycle EXCEPT !.cycle = @ + NumClocks * (CYCLE_CHUNK_SIZE + 1)]
    /\ UNCHANGED <<currentCycle, firstEffectiveCycle, isFirstCycle, itemFirst>>

StillRunning == UNCHANGED <<clockVars, endVars>>

(* The cycle x of clock c.                                                 *)
At(c, x) == [clock |-> c, cycle |-> x.cycle, division |-> x.division]

(* What DBListener::Cycle does with the arrays, for clock c at x.          *)
Announced(c, x) ==
    /\ cycle' = At(c, x)
    /\ currentCycle' = [currentCycle EXCEPT ![c] = x]
    /\ lastUsedPos' = [e \in Edges |-> 0]

-----------------------------------------------------------------------------
(* The header.                                                             *)

(* loadDRLHeader hands events over while the listener is in the header,    *)
(* IOMgr until it closes the file.                                         *)
Reading == \/ loader = "header" /\ state \in {"VERSION", "GRAPH"}
           \/ loader = "loading"

Version ==
    /\ Reading /\ state = "VERSION"
    /\ state' = "GRAPH"
    /\ UNCHANGED <<loader, traceAchieved, regular, clockVars, itemVars, moveVars, endVars>>

(* A callback that is out of place (of the header in the trace, of the     *)
(* trace in the header, any but EndSimulation after the end), or whose     *)
(* arguments are refused before anything is stored: a node, edge or clock  *)
(* the graph has no place for, an unknown clock, a cycle that goes back,   *)
(* more items than positions, an item id that is too big, a move or a      *)
(* deletion before the first cycle of the clock.                           *)
Rejected ==
    /\ Reading /\ state # "ERROR"
    /\ state' = "ERROR"
    /\ UNCHANGED <<loader, traceAchieved, regular, clockVars, itemVars, moveVars, endVars>>

(* StartActivity, and the first cycle of clock 0 that it announces         *)
StartActivity(first) ==
    LET x == [cycle |-> first, division |-> 0]
    IN  /\ Reading /\ state = "GRAPH"
        /\ state' = "TRACE" /\ traceAchieved' = TRUE
        /\ Announced(0, x)
        /\ firstEffectiveCycle' = [firstEffectiveCycle EXCEPT ![0] = x]
        /\ isFirstCycle' = [isFirstCycle EXCEPT ![0] = FALSE]
        /\ itemFirst' = [itemFirst EXCEPT ![Internal[0]] = first]
        /\ UNCHANGED <<loader, regular, itemVars, itemMoves, trackMoves, endVars>>

-----------------------------------------------------------------------------
(* The trace.                                                              *)

Tracing == Reading /\ state = "TRACE"

(* The cycle does not go back; the phase is not looked at.                 *)
InSequence(c, x) == x.cycle >= currentCycle[c].cycle

(* A trace that is regular announces a phase of a cycle once.              *)
Later(c, x) == \/ x.cycle > currentCycle[c].cycle
               \/ x.cycle = currentCycle[c].cycle /\ x.division > currentCycle[c].division

(* The cycle the others of the clock are relative to, once x is announced. *)
FirstOf(c, x) == IF isFirstCycle[c] THEN x ELSE firstEffectiveCycle[c]

(* Mutant: one cycle too many.                                             *)
TooLongM(c, x) == x.cycle - FirstOf(c, x).cycle > MAXCYCLES + 1

TooLong(c, x) == x.cycle - FirstOf(c, x).cycle > MAXCYCLES

(* Mutant: the last phase and one more.                                    *)
WrongPhaseM(c, x) == x.division > Divisions[c]

WrongPhase(c, x) == x.division >= Divisions[c]

(* A phase the clock does not have and a trace that is too long are found  *)
(* out when the cycle is already the current one.                          *)
Cycle(c, x) ==
    /\ Tracing /\ InSequence(c, x)
    /\ regular' = (regular /\ Later(c, x))
    /\ Announced(c, x)
    /\ IF WrongPhase(c, x) THEN UNCHANGED <<isFirstCycle, firstEffectiveCycle, itemFirst>>
       ELSE /\ itemFirst' = IF isFirstCycle[c] THEN [itemFirst EXCEPT ![Internal[c]] = x.cycle]
                            ELSE itemFirst
            /\ isFirstCycle' = [isFirstCycle EXCEPT ![c] = FALSE]
            /\ firstEffectiveCycle' = [firstEffectiveCycle EXCEPT ![c] = FirstOf(c, x)]
    /\ state' = IF WrongPhase(c, x) \/ TooLong(c, x) THEN "ERROR" ELSE state
    /\ UNCHANGED <<loader, traceAchieved, itemVars, itemMoves, trackMoves, endVars>>

(* ItemHeap::newItemBlock: an id used again loses what it had.             *)
NewItem(i) ==
    /\ Tracing
    /\ regular' = (regular /\ i \notin items)
    /\ items' = items \cup {i} /\ deleted' = deleted \ {i}
    /\ itemMoves' = {m \in itemMoves : m.item # i}
    /\ UNCHANGED <<state, loader, traceAchieved, clockVars, lastUsedPos, trackMoves, endVars>>

(* Mutant: an event of an item the heap has no entry for.                  *)
EndedM(i) == deleted \cup {i}

(* ItemHeap::endItemBlock                                                  *)
Ended(i) == deleted \cup ({i} \cap items)

(* The deletion is one more event of the item: it stays in the heap.       *)
DeleteItem(i) ==
    /\ Tracing /\ ~isFirstCycle[cycle.clock]
    /\ deleted' = Ended(i)
    /\ UNCHANGED <<state, loader, traceAchieved, regular, clockVars, items, moveVars, endVars>>

(* The items of s stored before the first one the heap does not know.      *)
Known(s) == SelectInSeq(s, LAMBDA i : i \notin items) - 1

(* Mutant: the positions of an earlier call are used again.                *)
NextPosM(e) == 0

NextPos(e) == lastUsedPos[e]

(* A move, as ItemHeap::newMoveItem stores it, and back (getCycle): the    *)
(* clock is the first one that has the internal clock.                     *)
Encoded(m) ==
    LET i == Internal[m.at.clock]
    IN  [m EXCEPT !.at.clock = i, !.at.cycle = @ - itemFirst[i]]

internalToExternalClock(i) == Min({c \in Clocks : Internal[c] = i})

Decoded(m) ==
    [m EXCEPT !.at.clock = internalToExternalClock(@), !.at.cycle = @ + itemFirst[m.at.clock]]

(* Where a move is.                                                        *)
Place(m) == [edge |-> m.edge, pos |-> m.pos, at |-> m.at]

(* MoveItems: the items take the next positions of the edge.  Each is      *)
(* stored with the item first; the edge takes no move of another clock.    *)
MoveItems(e, s) ==
    LET bad    == \E k \in DOMAIN s : s[k] \notin items
        stored == IF bad THEN 1 .. Known(s) ELSE DOMAIN s
        moves  == {[item |-> s[k], edge |-> e, pos |-> NextPos(e) + k - 1, at |-> cycle] :
                       k \in stored}
        accepts == EdgeClock[e] = cycle.clock
    IN  /\ Tracing
        /\ NextPos(e) + Len(s) <= Bandwidth[e]
        /\ ~isFirstCycle[cycle.clock]
        /\ itemMoves' = itemMoves \cup {Encoded(m) : m \in moves}
        /\ trackMoves' = IF accepts
              THEN {m \in trackMoves : Place(m) \notin {Place(n) : n \in moves}} \cup moves
              ELSE trackMoves
        /\ lastUsedPos' = IF bad THEN lastUsedPos
                          ELSE [lastUsedPos EXCEPT ![e] = NextPos(e) + Len(s)]
        /\ state' = IF bad \/ ~accepts THEN "ERROR" ELSE state
        /\ UNCHANGED <<loader, traceAchieved, regular, clockVars, itemVars, endVars>>

EndSimulation ==
    /\ Tracing
    /\ state' = "END"
    /\ EndOfSimulation
    /\ UNCHANGED <<loader, traceAchieved, regular, itemVars, moveVars>>

(* The trace reports an error of its own, the simulation ending first.     *)
Error ==
    /\ Reading
    /\ state' = "ERROR"
    /\ IF state = "TRACE" THEN EndOfSimulation ELSE StillRunning
    /\ UNCHANGED <<loader, traceAchieved, regular, itemVars, moveVars>>

-----------------------------------------------------------------------------
(* The loader.                                                             *)

(* The header is over when the listener has left it.  Then the tracks of   *)
(* the edges are made, with no position used (DralDB::processEvents).      *)
HeaderLoaded ==
    /\ loader = "header" /\ state \notin {"VERSION", "GRAPH"}
    /\ loader' = "loading"
    /\ lastUsedPos' = [e \in Edges |-> 0]
    /\ UNCHANGED <<state, traceAchieved, regular, clockVars, itemVars, itemMoves, trackMoves,
                   endVars>>

(* The file ends in the header.                                            *)
HeaderFails ==
    /\ loader = "header" /\ state \in {"VERSION", "GRAPH"}
    /\ loader' = "failed"
    /\ UNCHANGED <<state, traceAchieved, regular, clockVars, itemVars, moveVars, endVars>>

(* IOMgr stops at the end of the file, at an error, at the end of the      *)
(* simulation or when the user says so, and closes the file, which ends a  *)
(* trace that has not ended (DralDB::closeDRLFile, DBListener::flush).     *)
(* Then Dreams::loadFinish asks getHasFatalError(true), which ends it too. *)
LoadFinish ==
    /\ loader = "loading"
    /\ CASE state = "END" -> loader' = "finished" /\ UNCHANGED state /\ StillRunning
         [] state # "END" /\ traceAchieved ->
                loader' = "finished" /\ state' = "END" /\ EndOfSimulation
         [] OTHER -> loader' = "crashed" /\ UNCHANGED state /\ StillRunning
    /\ UNCHANGED <<traceAchieved, regular, itemVars, moveVars>>

Announcements == [cycle : 0 .. MaxCycle, division : 0..1]

Next ==
    \/ Version \/ Rejected \/ EndSimulation \/ Error
    \/ \E n \in 0 .. MaxCycle : StartActivity(n)
    \/ \E c \in Clocks, x \in Announcements : Cycle(c, x)
    \/ \E i \in Items : NewItem(i) \/ DeleteItem(i)
    \/ \E e \in Edges, n \in 1 .. MaxMoves : \E s \in [1..n -> Items] : MoveItems(e, s)
    \/ HeaderLoaded \/ HeaderFails \/ LoadFinish

Spec == Init /\ [][Next]_vars

-----------------------------------------------------------------------------
(* Properties.                                                             *)

CycleOf == [cycle : -1 .. MaxCycle, division : 0..1]
Move == [item : Items, edge : Edges, pos : Nat,
         at : [clock : Clocks, cycle : -MaxCycle .. MaxCycle, division : 0..1]]

(* The types of the variables.                                             *)
TypeOK ==
    /\ state \in {"ERROR", "VERSION", "GRAPH", "TRACE", "END"}
    /\ loader \in {"header", "loading", "finished", "failed", "crashed"}
    /\ traceAchieved \in BOOLEAN /\ regular \in BOOLEAN
    /\ cycle \in [clock : Clocks, cycle : Nat, division : 0..1]
    /\ currentCycle \in [Clocks -> CycleOf]
    /\ firstEffectiveCycle \in [Clocks -> CycleOf]
    /\ isFirstCycle \in [Clocks -> BOOLEAN]
    /\ itemFirst \in [Clocks -> -1 .. MaxCycle]
    /\ items \subseteq Items /\ deleted \subseteq items
    /\ \A e \in Edges : lastUsedPos[e] \in 0 .. Bandwidth[e]
    /\ itemMoves \subseteq Move /\ trackMoves \subseteq Move
    /\ bounds \in [first : Int, last : Int] /\ compressed \subseteq Clocks

(* While a trace is read the clock of the current cycle has a first cycle, *)
(* and the current cycle is one the clock has: the callbacks of the trace  *)
(* never index the heaps with a cycle relative to -1, and their test of    *)
(* isFirstCycle never fires, although Cycle makes a cycle the current one  *)
(* before it finds its phase wrong.                                        *)
FirstCycleKnown ==
    state = "TRACE" =>
        LET c == cycle.clock
        IN  /\ ~isFirstCycle[c] /\ cycle = At(c, currentCycle[c])
            /\ 0 <= firstEffectiveCycle[c].cycle /\ firstEffectiveCycle[c].cycle <= cycle.cycle
            /\ cycle.division < Divisions[c]

(* As long as a trace is regular and has no error, the moves stored with   *)
(* the items are those stored with the edges: what an item's history shows *)
(* and what the edge shows agree, and no two items are at a position of an *)
(* edge at once (MoveItems stores each move in both heaps, in the form of  *)
(* each, and calls for the same edge and cycle share its positions).       *)
(* Clocks of one frequency and skew are not told apart.                    *)
MovesMatch ==
    loader = "loading" /\ state \in {"TRACE", "END"} /\ regular =>
        {Decoded(m) : m \in itemMoves} =
            {[m EXCEPT !.at.clock = internalToExternalClock(Internal[@])] : m \in trackMoves}

(* The cycle stored with every move, relative to the first one of the      *)
(* clock, fits the twenty bits it is stored in: the limit is tested in     *)
(* every cycle, before anything is stored in it.                           *)
RelativeCyclesFit ==
    /\ \A m \in itemMoves : m.at.cycle \in 0 .. MAXCYCLES
    /\ \A m \in trackMoves :
           m.at.cycle - firstEffectiveCycle[m.at.clock].cycle \in 0 .. MAXCYCLES

(* When a regular trace has ended, however it ended, all that was stored   *)
(* lies between the first and the last cycle the views are given.          *)
BoundsCover ==
    state = "END" /\ regular =>
        \A m \in {Decoded(n) : n \in itemMoves} \cup trackMoves :
            toLCM(m.at.clock, m.at) \in bounds.first .. bounds.last

(* Whatever the trace, the end of the load finds "that everything is well  *)
(* set" (DBListener.h:361).                                                *)
WellSetAtEnd == loader # "crashed"
=============================================================================
