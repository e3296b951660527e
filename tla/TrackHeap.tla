----------------------------- MODULE TrackHeap -----------------------------
(***************************************************************************)
(* The tracks of a trace (dDB/trackheap/TrackHeap, TrackVec and            *)
(* TagRenameTable).  The layouts and watch windows of the application ask  *)
(* for the nodes and edges they show; each gets a block of tracks, one for *)
(* the node and one for each slot, or one for each position of the edge.   *)
(* The trace then sets tags and moves items (DBListener), which are stored *)
(* in the tracks of the elements that have them.  The tracks of a block    *)
(* share a table that renames the tags, in the order they are first set.   *)
(*                                                                         *)
(* A track keeps the last value of a tag; its history is the subject of    *)
(* TagIdVec.  The item of a slot or position is the value of a tag, slot.  *)
(***************************************************************************)
EXTENDS Integers, SequencesExt

CONSTANTS
    Nodes, Edges, Clocks,
    Tags,      \* tags, slotItemId among them
    slotItemId,
    Values,
    ClockOf,   \* the clock of each node and edge
    Layout,    \* per node: the capacities of its dimensions
    Bandwidth, \* per edge
    Latency,   \* per edge
    MaxBlocks, \* bound: elements that are tracked
    MaxWrites, \* bound: places the trace stores something in
    INVALID, NUM_DIM_ERROR, OOB_DIM_ERROR, \* TRACK_IDs that are none
    UNDEF      \* no value

Elements == Nodes \cup Edges

ASSUME GraphAssumption ==
    /\ Nodes \cap Edges = {} /\ Elements \cap Clocks = {} /\ ClockOf \in [Elements -> Clocks]
    /\ Layout \in [Nodes -> Seq(Nat \ {0})]
    /\ Bandwidth \in [Edges -> Nat] /\ Latency \in [Edges -> Nat]
    /\ {INVALID, NUM_DIM_ERROR, OOB_DIM_ERROR} \cap Nat = {}
    /\ UNDEF \notin Values /\ slotItemId \in Tags
    /\ Cardinality({INVALID, NUM_DIM_ERROR, OOB_DIM_ERROR}) = 3

VARIABLES
    state,       \* of the listener: "TRACE" or "ERROR"
    clock,       \* of the current cycle
    nextTrackID, \* tracks allocated
    trackTbl,    \* per node, edge and clock: its first track (nodeTrackTbl,
                 \* edgeTrackTbl, cycleTrackTbl)
    tracks,      \* trackIDVector: clock, table, and value of each renamed tag
    renames,     \* the tables
    clockRanges, \* clock_ranges
    written      \* history: what the trace stored last, and where

vars == <<state, clock, nextTrackID, trackTbl, tracks, renames, clockRanges, written>>

Init ==
    /\ state = "TRACE" /\ clock \in Clocks
    /\ nextTrackID = 0 /\ tracks = <<>> /\ renames = <<>> /\ clockRanges = <<>>
    /\ trackTbl = [x \in Elements \cup Clocks |-> INVALID]
    /\ written = <<>>

-----------------------------------------------------------------------------
(* Allocation.                                                             *)

Product(s) ==
    LET upto[k \in 0..Len(s)] == IF k = 0 THEN 1 ELSE upto[k - 1] * s[k]
    IN  upto[Len(s)]

SlotsM(x) == IF x \in Nodes THEN Product(Layout[x]) ELSE Max({IF x \in Edges THEN Bandwidth[x] ELSE 1, 1})
(* The tracks of an element: a node has one more than slots.  An edge has  *)
(* tracks for its latency too, which no move uses.                         *)
Slots(x) ==
    IF x \in Nodes THEN 1 + Product(Layout[x])
    ELSE IF x \in Edges THEN Max({Bandwidth[x], 1}) * Max({Latency[x], 1})
    ELSE 1

CollapsesM(c) == clockRanges # <<>>
Collapses(c) == clockRanges # <<>> /\ Last(clockRanges).clock = c

(* newTrackEntry                                                           *)
newTrackEntry(c, first, last) ==
    clockRanges' = IF Collapses(c)
                   THEN [clockRanges EXCEPT ![Len(clockRanges)].last = last]
                   ELSE Append(clockRanges, [clock |-> c, first |-> first, last |-> last])

(* trackNodeTags, trackEdgeTags and trackCycleTags for an element x of     *)
(* clock c that has no tracks yet; one that has them keeps them.           *)
Track(x, c) ==
    /\ trackTbl[x] = INVALID /\ Len(renames) < MaxBlocks
    /\ nextTrackID' = nextTrackID + Slots(x)
    /\ trackTbl' = [trackTbl EXCEPT ![x] = nextTrackID]
    /\ renames' = Append(renames, <<>>)
    /\ tracks' = tracks \o [k \in 1..Slots(x) |->
                                [clock |-> c, table |-> Len(renames) + 1, values |-> <<>>]]
    /\ newTrackEntry(c, nextTrackID, nextTrackID')
    /\ UNCHANGED <<state, clock, written>>

trackTags == \E x \in Elements : Track(x, ClockOf[x])
trackCycleTags == \E c \in Clocks : Track(c, c)

-----------------------------------------------------------------------------
(* Where an element of the trace is stored.                                *)

(* The place in a row-major order of the coordinates at.                   *)
Linear(at, layout) ==
    LET upto[k \in 0..Len(at)] == IF k = 0 THEN 0 ELSE upto[k - 1] * layout[k] + at[k]
    IN  upto[Len(at)]

(* NodeSlot::linearPosition                                                *)
linearPosition(at, layout) ==
    IF Len(at) # Len(layout) THEN NUM_DIM_ERROR
    ELSE IF \E k \in DOMAIN at : at[k] >= layout[k] THEN OOB_DIM_ERROR
    ELSE Linear(at, layout)

(* resolveTrackIdForNode: of the node, or of the slot at some coordinates. *)
resolveNode(n, at) ==
    LET position == linearPosition(at, Layout[n])
    IN  IF at = <<>> \/ trackTbl[n] = INVALID THEN trackTbl[n]
        ELSE IF position \notin Nat THEN position
        ELSE trackTbl[n] + 1 + position

-----------------------------------------------------------------------------
(* The tags of a track.                                                    *)

(* TagRenameTable::rename: the table after it; the place of t is then      *)
(* Place(t, table).                                                        *)
Renamed(t, table) == IF t \in Range(table) THEN table ELSE Append(table, t)

Place(t, table) == SelectInSeq(table, LAMBDA u : u = t)

GrownM(values, k) == Append(values, UNDEF)
(* The vector of a track grows to the place of a tag another slot renamed. *)
Grown(values, k) ==
    IF k > Len(values) THEN values \o [j \in 1..(k - Len(values)) |-> UNDEF] ELSE values

(* addTagValue, and undefineTagValue with UNDEF, in track id.              *)
Put(id, t, value) ==
    LET track == tracks[id + 1]
        table == Renamed(t, renames[track.table])
        k == Place(t, table)
    IN  /\ renames' = [renames EXCEPT ![track.table] = table]
        /\ tracks' = [tracks EXCEPT ![id + 1].values = [Grown(@, k) EXCEPT ![k] = value]]

(* getTagValue of tag t in track id                                        *)
getTagValue(id, t) ==
    LET track == tracks[id + 1]
        k == Place(t, renames[track.table])
    IN  IF k = 0 \/ k > Len(track.values) THEN UNDEF ELSE track.values[k]

-----------------------------------------------------------------------------
(* The trace.  A write to an element that is not tracked goes to the       *)
(* external listeners only.                                                *)

setError == state' = "ERROR" /\ UNCHANGED <<tracks, renames, written>>

(* The clock of a cycle must be the clock of the track.                    *)
Attached(id) == tracks[id + 1].clock = clock

(* What the trace stores of x, at a place of it.                           *)
Store(id, x, at, t, value) ==
    /\ Put(id, t, value)
    /\ written' = [w \in {<<x, at, t>>} \cup DOMAIN written |->
                       IF w = <<x, at, t>> THEN value ELSE written[w]]
    /\ UNCHANGED state

(* SetNodeTag, and EnterNode and ExitNode with slotItemId.                 *)
SetNodeTag(n, at, t, value) ==
    LET id == resolveNode(n, at)
    IN  /\ id # INVALID
        /\ IF id \in Nat /\ Attached(id) THEN Store(id, n, at, t, value) ELSE setError

(* addMoveItem stores at the position, whatever the latency.               *)
MoveTrack(e, position) == trackTbl[e] + position

(* MoveItemsWithPositions of an item; in the cycle that follows it is no   *)
(* longer there, which is part of the history.                             *)
MoveItem(e, position, value) ==
    /\ trackTbl[e] # INVALID
    /\ IF position < Bandwidth[e] /\ Attached(trackTbl[e])
       THEN Store(MoveTrack(e, position), e, <<position>>, slotItemId, value)
       ELSE setError

(* SetCycleTag                                                             *)
SetCycleTag(t, value) ==
    LET id == trackTbl[clock]
    IN  id # INVALID /\ Store(id, clock, <<>>, t, value)

(* Coordinates a trace names: all of those of the layout, some that are    *)
(* out of it, and those of another number of dimensions.                   *)
Coordinates(n) ==
    {<<>>, <<0>>} \cup {<<k>> : k \in 0..Layout[n][1]}
        \cup {<<j, k>> : j \in 0..Layout[n][1], k \in 0..Last(Layout[n])}

(* EnterNode, ExitNode, SetNodeTag, MoveItemsWithPositions and SetCycleTag *)
(* all begin with the same tests of the state and of the clock.            *)
Write ==
    /\ state = "TRACE" /\ Cardinality(DOMAIN written) < MaxWrites
    /\ \/ \E n \in Nodes, t \in Tags, value \in Values \cup {UNDEF} :
              \E at \in Coordinates(n) : SetNodeTag(n, at, t, value)
       \/ \E e \in Edges, value \in Values :
              \E position \in 0..Bandwidth[e] : MoveItem(e, position, value)
       \/ \E t \in Tags, value \in Values : SetCycleTag(t, value)
    /\ UNCHANGED <<clock, nextTrackID, trackTbl, clockRanges>>

(* A cycle of some clock.                                                  *)
Cycle ==
    /\ state = "TRACE" /\ clock' \in Clocks \ {clock}
    /\ UNCHANGED <<state, nextTrackID, trackTbl, tracks, renames, clockRanges, written>>

Next == trackTags \/ trackCycleTags \/ Write \/ Cycle

Spec == Init /\ [][Next]_vars

-----------------------------------------------------------------------------
(* Properties.                                                             *)

(* Where a trace may store something, and the track that is for it.        *)
Within(n) == {at \in Coordinates(n) : at = <<>> \/ linearPosition(at, Layout[n]) \in Nat}

NodePlaces(n) ==
    IF trackTbl[n] = INVALID THEN {}
    ELSE {[of |-> n, at |-> at, track |-> resolveNode(n, at)] : at \in Within(n)}

EdgePlaces(e) ==
    IF trackTbl[e] = INVALID THEN {}
    ELSE {[of |-> e, at |-> <<k>>, track |-> MoveTrack(e, k)] : k \in 0..(Bandwidth[e] - 1)}

CyclePlaces(c) ==
    IF trackTbl[c] = INVALID THEN {} ELSE {[of |-> c, at |-> <<>>, track |-> trackTbl[c]]}

Places ==
    UNION ({NodePlaces(n) : n \in Nodes} \cup {EdgePlaces(e) : e \in Edges}
               \cup {CyclePlaces(c) : c \in Clocks})

(* Every slot, position and element has a track that is no other's, of the *)
(* clock it is attached to, in whatever order the windows asked for them.  *)
PlacesApart ==
    /\ \A p \in Places :
          /\ p.track \in 0..(nextTrackID - 1)
          /\ tracks[p.track + 1].clock = IF p.of \in Elements THEN ClockOf[p.of] ELSE p.of
    /\ \A p, q \in Places : p.track = q.track => p = q

(* The ranges compressYourSelf walks hold every track once, in a range of  *)
(* its clock: none is left out of the compression of its clock, and none   *)
(* is compressed up to a cycle of another.                                 *)
RangesExact ==
    LET n == Len(clockRanges)
    IN  /\ n = 0 => nextTrackID = 0
        /\ n > 0 => clockRanges[1].first = 0 /\ clockRanges[n].last = nextTrackID
        /\ \A r \in 1..(n - 1) :
              /\ clockRanges[r].last = clockRanges[r + 1].first
              /\ clockRanges[r].clock # clockRanges[r + 1].clock
        /\ \A r \in 1..n : \A id \in clockRanges[r].first..(clockRanges[r].last - 1) :
              tracks[id + 1].clock = clockRanges[r].clock

(* A tag of a slot, of a position, of a node or of a cycle reads as the    *)
(* trace last set it there; a tag set in other slots of the same table, or *)
(* nowhere, is not defined.                                                *)
ReadsOwn ==
    \A p \in Places, t \in Tags :
        getTagValue(p.track, t) =
            IF <<p.of, p.at, t>> \in DOMAIN written THEN written[<<p.of, p.at, t>>] ELSE UNDEF
=============================================================================
