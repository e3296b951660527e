# Dreams: specifications of the trace viewer and its database

Dreams displays what happens in a processor, or another system, cycle by
cycle, from a trace a simulator wrote. The TLA+ modules here model the parts of
it that hold its own logic: the *trace database*
(`src/tools/Dreams/src/dDB`), from the callbacks that consume a trace to the
answers the views get, and the *main window* that opens, loads and closes traces
and moves its windows through time. They are model-checked with TLC on small
instances; what they promise is proved with TLAPS for every size, but for what is
live (section 4).

Paths below are relative to `src/tools/Dreams/src/dDB/` unless they start with
`src/`.

## 1. The system

A trace is a sequence of DRAL commands. The DRAL library, which is not part of
the repository, reads it and makes one call of `DBListener` for each. The
program has one thread, but two sources of interleaving:

* the *trace*: several clock domains advance at their own pace, cycles are skipped,
  the same data is stored in several places under several encodings, chunks are
  compressed while the trace goes on, a trace may stop anywhere, and every count
  has a width;
* the *event loop*: handlers of the main window run it before they are done
  (`qApp->processEvents`), so that the user, the timer of the loader and other
  handlers come in between their steps.

### Components

**DBListener and the loader** (`DBListener.*`, `DralDB.*`,
`src/tools/Dreams/src/IOMgr.cpp`).
*State*: the state of the trace (version, graph, trace, end, error), the current
cycle and, for each clock, the current and first cycle, whether it has ticked,
and when it was compressed last; the next free position of each edge.
*Operations*: one callback for each command; the loader reads the header,
parses the layout, reads events in batches from a timer, closes the file and ends
the trace. *Interactions*: calls every other component; it owns the order in
which they are called. *Hard*: several clocks; state changed before an argument
is found wrong; four ways to end a trace. *Correct when*: what is stored is
relative to a known first cycle and fits its field, the heaps agree, and the
bounds cover the trace.

**Dict2064** (`Dict2064.*`, `Hash6431.*`). *State*: dictionaries of 20-bit keys
for 64-bit values, an array for reading and a hash for inserting; the dictionary
each clock is in; the list of cycles in which each clock entered one.
*Operations*: `startDict`, `getKeyFor`, `allocNewDict`, `getValueByCycle`,
`clearDict`. *Interactions*: the heaps store keys and read them back much later,
with the cycle and the clock. *Hard*: clocks share and leave dictionaries at
their own pace; the hash is freed by the last to leave. *Correct when*: every key
reads back as the value it was given for.

**ItemHeap** (`itemheap/`). *State*: for each item a chain of chunks of four nodes,
a tag or an event each, in one vector shared by all the items; a node has an
internal clock of 3 bits, a cycle of 20 bits relative to the first one of that
clock, and a key of a dictionary. *Operations*: `newItemBlock`, `endItemBlock`,
`newTag`, `newMoveItem`, `newEnterNode`, `newExitNode`, `newGenericEvent`,
`getTagById`, `nextEntry`. *Interactions*: `Dict2064` for keys, `ClockDomainMgr`
to compare cycles of different clocks. *Hard*: the last entry of a tag is
overwritten, dropped as a repetition, or followed by a new one; offsets between
chunks; an item's id used again. *Correct when*: events come back in order, and
every cycle reads what the trace last said.

**TrackHeap** (`trackheap/TrackHeap.*`, `TrackVec.*`, `TagRenameTable.*`).
*State*: the first track of each node, edge and clock, the tracks, the table that
renames the tags of a block of tracks, the ranges of tracks of each clock.
*Operations*: `trackNodeTags`, `trackEdgeTags`, `trackCycleTags`,
`addTagValue`, `addMoveItem`, `getTagValue`, `compressYourSelf`.
*Interactions*: views ask for elements, the trace stores in them. *Hard*: both come
in any order; coordinates that do not exist. *Correct when*: no two places share a
track, and every track is compressed with its own clock.

**TagIdVec** (`trackheap/TagIdVec.*`, `TagVecValue31*`, `TagVecValue64*`,
`TagVecValue8*`). *State*: the history of one tag of one track: an array of
chunks of 4096 cycles for each phase of the clock, each chunk a sorted list of
changes or, once compressed, one entry for each cycle. *Operations*:
`addTagValue`, `undefineTagValue`, `getTagValue`, `compressYourSelf`. *Hard*: two
phases kept apart, skipped chunks, writes one cycle ahead, compression, searches
over earlier chunks. *Correct when*: at any time it answers for any cycle what the
trace said.

**ClockDomainMgr and the windows' time** (`ClockDomainMgr.*`,
`src/tools/Dreams/src/mdi/MDIDreamsWindow.cpp`, `MDIFloorplanWindow.cpp`).
*State*: the clocks of a trace, the *internal* clock of each (one for each
frequency and skew, at most eight), its phase and skew in cycles of the least
common multiple of the frequencies (LCM cycles); the cycle each window shows and
the picoseconds it still owes. *Operations*: `addNewClockDomain`,
`computeRatiosAndLCM`, `toLCMCycles`, `fromLCMCycles`, `operator+`, `operator-`,
`setFrame`, `attendCycleChanged`. *Hard*: rounding in both directions, carries,
the ends of the sliders. *Correct when*: cycles of different clocks compare in the
order of time, and windows that are locked stay together.

**The main window** (`src/tools/Dreams/src/Dreams.cpp`, `IOMgr.cpp`,
`DreamsDB.cpp`). *State*: the open traces, the one being loaded, the windows that
exist and the list of those kept informed, counts of windows by kind, the play
timer and its clock. *Operations*: open, load, stop, abort, close a window, the
windows of a trace, a trace, everything; play and stop. *Hard*: the event loop
inside handlers. *Correct when*: databases are owned once, every load ends, and no
handler goes on with something that is gone.

**Tag handlers** (`taghandler/`). *State*: for each tag a view draws, the chunk,
entry and cycle reached and the value there, in one phase or in each of two; for
several tags, the one that changes first. *Operations*: `rewindToFirstCycle`,
`nextCycle`, `skipToNextCycleWithChange`, `skipToCycleDefined`. *Interactions*: views
and "find" iterate with them over what `TagIdVec` keeps. *Hard*: chunks that end, are
missing or were compressed; two phases merged. *Correct when*: what they go through
is what `getTagValue` answers.

**Graph** (`dralgraph/`), **tag descriptors**, **strings**: tables that only grow while the
header is read. **Containers, log, configuration**.

**The rest of the graphical application** (`src/tools/Dreams/src`): the parser of
architecture definition files, the expressions that choose colours and shapes,
layouts, views, highlights, dialogs, dock windows, preferences. It reads the
database through handlers. **Libraries** (`src/lib/libagt`: widgets;
`src/lib/libdraldb`: an older database). **Other tools**: 2Dreams, 1Dream,
3Dreams, TDreams (other viewers and a query tool), dral2PTV, dralTranslator,
dralStats, stb2stc, stc2stb, dbtest.

`PROJECT.json` lists each with its status; section 7 says why a part is left out.

### How they interact

    user, timers -> Dreams, IOMgr (Workspace) --- opens, loads, ends and closes a trace
                           |                \---- windows follow each other (ClockDomainMgr)
                           v
    trace file -> DRAL library -> DBListener --+-> ClockDomainMgr  (clock -> internal clock, LCM)
                                               +-> ItemHeap  --\
                                               +-> TrackHeap ---+-> Dict2064  (value <-> key)
                                               |      \-> TagIdVec (one for each tag of a track)
    Dreams::loadFinish ------------------------+-> end of the trace, clearDict
    views <- handlers <- ItemHeap, TrackHeap

## 2. Modules

| module | models | kind |
|---|---|---|
| `TagDict` | what the dictionaries promise: lists of values that only grow, each clock going through them at its own pace | abstract specification, and the part of `ItemHeap` that stores values |
| `Dict2064` | the dictionaries: shared hashes, counters, lists of cycles | component; `ImplementsTagDict` is the refinement |
| `ItemHeap` | items, chains of chunks, tags and events; composes with `TagDict` | component |
| `TagHistory` | what a tag promises: a value for each tick, fixed once the tick is past | abstract specification |
| `TagIdVec` | one tag of one track, driven by the cycles, writes and the end of a trace | component |
| `TagHandler` | the iterators of the views over one tag, as operators on what `TagIdVec` leaves; composes with it | pure operators, and properties of the composition |
| `TrackHeap` | allocation, resolution and ranges of tracks, renaming of tags | component |
| `DBListener` | the states, clocks, items, moves and end of a trace, and its loader | component |
| `ClockDomainMgr` | clocks, LCM cycles, picoseconds, windows that follow each other | component |
| `Workspace` | traces, loader and windows of the main window, with the event loops in its handlers | component |
| `TagAnswers` | `TagIdVec` with what the tag answers for every tick; `ImplementsTagHistory` is the refinement | composition |
| `MC...` | the instances TLC checks, with constant functions | checking |
| `Dict2064Proofs`, `TagIdVecProofs`, `TagHandlerProofs`, `TrackHeapProofs`, `ItemHeapProofs`, `DBListenerProofs`, `ClockDomainProofs`, `WorkspaceProofs` | theorems | TLAPS |

In every module, a definition whose name ends in `M` is a plausible mistake
made on purpose in the operator of the same name without it, for showing that
the properties notice it. Nothing else uses these definitions. A variable called
a *history* records what happened, for the properties; no guard of the code's
reads it (`given`, `use` and `log` also bound a trace).

### TagDict and Dict2064

`TagDict` has, for each clock, the cycles it entered dictionaries in (`entered`),
and for each dictionary its values (`contents`): `KeyFor` finds a value or appends
it, `NextDict` moves a clock on, `ValueByCycle` reads a key back.

In `Dict2064`, `dict` is the hash of each dictionary (a function from values to
keys; buckets and collision lists are left out), `dict_values` the array of the
same dictionary, `current_dict[c]` the dictionary of clock `c` (`NULL` after
`clearDict`), `next_dict[c]` and `first[d][c]` the list `getValueByCycle`
searches. `Cycle` is the part of `DBListener::Cycle` that swaps dictionaries,
`Store` is `getKeyFor` called by a heap in the current cycle, `clearDict` is the
call of `Dreams::loadFinish`. `entries` keeps every key a heap was given with
its clock, cycle and value, which is what the heaps store (for the values in
`Watched` only, as every value is treated alike). A hash that was deleted is
`NULL`. The refinement maps `entered` to the list of cycles and `contents` to the
part of the arrays that has been given out.

Cycles relative to the first of the clock are used, as in the call. A trace
announces phase 0 of a cycle once; section 6 tells what happens otherwise.

### ItemHeap

`eventVector` is the vector of chunks, `itemVector` the first chunk of each item,
or `ITEM_OPEN`, `ITEM_UNUSED`; the offset from a chunk to the next is kept modulo
`OFFSETS`. `newTag` has the three outcomes of the code for a tag of one value:
the last entry is of this cycle and is reused, it has the value already and
`compressMutable` is on, or a new entry is stored; in each the entries met on the
way are marked mutable. `SetSov` is `newTag` of a set of values, `newEvent` the four
callbacks that store an event. `Cycle` is what `DBListener::Cycle` does here. The
options, clocks, items and tags of a trace are chosen once, in `given`. `log`
keeps what each item was given; the properties compare it with `Entries` (the
order `nextEntry` goes) and with `getTagById`.

Values go through `TagDict`, which `Dict2064` implements: a proved
refinement makes the composition of the two sound.

### TagHistory and TagIdVec

`TagIdVec` is one `TagIdVecNode` (`tag`), the clock that drives it and
`DBListener`'s part in it: `Cycle` announces a cycle and compresses when a chunk of
cycles has passed since the last compression; `Set` and `Undefine` are a value
entered and undefined (`EnterNode`, `ExitNode`, `SetNodeTag`); `Move` is
`TrackHeap::addMoveItem`, a value for one cycle; `EndSimulation` is the last
compression. What the trace does to the tag is `use`, chosen once: a slot of a
node, a tag of a node, a position of an edge; with the phases of the clock and
the cycles it may skip. A chunk is a record of its sorted entries and whether it
is dense; the three encodings (31, 64 and 8 bits) differ in how an entry is packed
and agree on this. `refused` records a write a dense chunk turned down.
`getTagValue` is translated with its search over earlier chunks and the choice
between the phases.

`TagHistory` knows nothing of chunks: it has a value for each tick, the present can
be written, the past is fixed, and what is past the present follows from it.
`TagAnswers!ImplementsTagHistory` is the refinement. The mapping of `value` is
what `getTagValue` answers for every tick; it is kept in the variable `answers`,
for otherwise TLC would evaluate the searches many times in a step.

### TagHandler

A handler is used when the trace has ended and the tag does not change any more, so
that its operations are operators and a walk through a tag is a sequence. A handler
is a record of its cycle, chunk, entry and value (`NONE` when `act_defined` is false);
`ActualValue` and `NextEntry` are what the vectors do for it, `Turned`, `Skip` and
`skipToCycleDefined` the loops over chunks. A loop whose turns depend on each other
is a function of the number of turns, long enough for any tag (`SkipTo` of `Sought`,
`Flips` of `TakeFlip`). `DualSkip` and `DualRewound` are
`DualTagHandler`, `FlipsOf` is `TagFlipHandler` with one tag: the list of changes a
view takes one after the other, and `Shown` what it shows at a moment. An undefined
entry that starts a compressed chunk has a value nobody wrote, that the code compares
all the same; `noise` is the set of chunks where it differs, and the properties are
for every such set. The handler keeps the vector of the last chunk it found; the
model looks it up by the chunk's number, which is the same for a forwarded tag.

`HandlersAgree` compares the handlers with searches that start from nothing, for
every tag a trace of `TagIdVec` can leave; `FlipsInOrder` says that the changes
go forward, that each has the value of its phase and, for a tag that has values in
one phase, that a view shows what the tag answers. `FlipsAgree` is the same of a tag
with values in both, and is violated (section 6).

### TrackHeap

`Track` is `trackNodeTags`, `trackEdgeTags` or `trackCycleTags` for an element that
has no tracks yet: it takes a block of tracks, a new table of names, and joins or
adds a range of its clock. `resolveNode` is `resolveTrackIdForNode` with
`NodeSlot::linearPosition`. `Write` is the part of `SetNodeTag`, `EnterNode`,
`ExitNode`, `MoveItemsWithPositions` and `SetCycleTag` that reaches the tracks,
with their refusals. A track keeps the last value of each renamed tag; its history
is `TagIdVec`. `written` keeps what the trace stored where.

### DBListener

`state` is `DBListener::state`; `loader` is where the file is: in its header
(`DralDB::loadDRLHeader`), being read (`IOMgr::processEvent`), finished, refused,
or crashed. `cycle`, `currentCycle`, `firstEffectiveCycle` and `isFirstCycle` are
the arrays `StartActivity` allocates, `itemFirst` that of `ItemHeap`. A move is
kept twice, as the code does: with the item, under the internal clock and
relative to `itemFirst` (`Encoded`, `Decoded`), and with the edge, under the
clock itself. `Cycle`, `MoveItems`, `NewItem`, `DeleteItem`, `EndSimulation`,
`Error`, `Version` and `StartActivity` are the callbacks, each with all its
checks; a callback that is refused before it stores anything is the action
`Rejected`. `regular` notes that the trace never announced a cycle again, went back a
phase, or used an item's id again: the code accepts each of these, no
simulator should write them, and `MovesMatch` and `BoundsCover` are claimed of traces
without them only.

The compression that goes with a cycle is in `TagIdVec`, the dictionaries are in
`Dict2064`; `DBListener` leaves both out. `MoveItems` stops at an item that does
not exist after the moves before it were stored, and goes on after a track
refused one, as the code does.

### ClockDomainMgr

`NewClock` is the callback of the header with the checks of `addNewClockDomain`,
`StartActivity` computes ratios and skews, with the widths they are kept in. The
conversions are operators: `toLCMCycles`, `fromLCMCycles`, `toPs`, `fromPs`,
`Plus`, `Minus`. After the start, two windows are open, one on the first clock and
one on the last; `Drag` moves the slider of one (`setFrame`) and the other attends
(`attendCycleChanged`, `getAccCycleChanged`, `showCycle`), keeping the rest as its
displacement. `moved` sums what each was moved, `strayed` notes that one met an
end of its slider.

### Workspace

Everything runs in one thread. A handler that runs the event loop before it goes
on is pushed on `calls`, with what it keeps in its local variables, and goes on in
a step of its own once it is on top. There are five:

* `do_genericOpen`, while a child process works for the ADF: tar, for the files the
  trace embeds (`IOMgr::getTarContent`, `src/tools/Dreams/src/IOMgr.cpp:291`), the
  script of the ADF and its validation (`src/tools/Dreams/src/adf/ADFMgr.cpp:413`, 498).
  The trace is then `dreamsdb`, `loading` is TRUE, and neither the timer nor the dialog
  of the loader is there. `OpenNext` goes up to these events, `ADFParsed` is what comes
  after them; it may be nested in the `loadFinish` of the trace before, whose handler it
  replaces on `calls`, having nothing left to do;
* `stopRead` and `cancelRead` of the loader;
* `do_genericTraceClose` (an iterator into the list of windows, which QGList moves
  off a window that leaves it) and `do_closeAll` (a copy of the list).

Modal dialogs let nothing else happen and are part of the handler that shows them.
The dialog of the loader is not one of them, although `IOMgr.cpp:100` asks for it: its
constructor gives it the flags of a top-level window (`IOMgr.h:57`), and the tests of
`isLoading()` all over `Dreams.cpp`, which beep, are for a user who can reach the other
windows. A dialog that is not modal processes no events when it is told the progress, so
that nothing comes in between before `stopRead` runs the event loop itself. A window is
deleted by its `closeEvent` after `mdiCloseEvent`, which does nothing while a trace
is loading.

`hasty` notes that the user closed something while a trace was loading, or opened
or closed something while a handler was closing windows: the code then goes on with
windows that are gone, and `NothingDangles` and `CountsRight` are claimed only short
of that. `LoaderAlive`, `DBsOwned` and `TraceIds` hold for any user.

## 3. Runs

| run | instance | what it shows |
|---|---|---|
| `dict` | 2 clocks, 4 values of which 1 is watched, 3 dictionaries of 4 keys, margin 2, 4 cycles | every key reads back; no hash dangles or leaks; keys suffice while the clocks together stay within the margin; a key keeps its value; refinement of `TagDict` |
| `tagvec` | a slot and a position on clocks of one phase with gaps of up to 4 and 3 cycles, a tag and a position on clocks of two phases, with no gaps and gaps of up to 3; chunks of 2 cycles, 3 of them; values are symmetric | order of entries, no write into a compressed chunk, no chunk past the array unless an item moves in the last cycle, refinement of `TagHistory`; after the end, handlers that agree with searches, and changes in order |
| `flips` | a tag with two phases, no gaps, 2 chunks of 2 cycles | **violation**: `FlipsAgree` |
| `slot_phases` | entered in a phase, left in the other | **violation**: `ReadsLastValue` |
| `listener` | clocks of different frequency, skew and phases, an edge on each, a limit of one cycle; two items that move twice in regular traces, one item that moves once in the others | first cycles are known, relative cycles fit; in regular traces both heaps hold the same moves and the bounds cover them however the trace ends |
| `end_without_trace` | an error in the header | **violation**: `WellSetAtEnd` |
| `items` | two items whose sets of values fill several chunks, on one clock; one item with plain tags and events on two clocks that start together, options on and off | events and sets come back in order; every cycle reads what the trace last said; only tags that change are mutable |
| `items_apart` | two clocks that do not start together | **violation**: `ReadsAsWritten` |
| `workspace` | 2 traces, 3 windows, layouts of two windows, one, none; 3 handlers at once | the loader finds its trace, also while that is being opened; databases are owned once; ids are places; nothing dangles; counts; every load ends |
| `workspace_clock` | the same | **violation**: `ClockIsLive` |
| `clockdomains` | headers of up to 3 clocks of frequencies 1, 1.33 and 2 GHz, skews 0 and 0.3, 2 internal clocks; multiples that fit their bits and one that does not; 5 moves of two windows | clocks share rightly; order of time and conversions, as long as the multiple fits; sums; windows stay together |
| `tracks` | 2 nodes of 2 and 4 slots, an edge with positions and latency and one without, 2 clocks; 3 blocks, 2 writes | no two places share a track; ranges are exact; every place reads its own |

Deadlock is not checked: every trace ends, and after its end nothing happens.

Every property of a passing run has a mutant in `PROJECT.json`, a mistake in the
modelled code that the property notices in that run.

### Bounds, and why they are enough

* `dict`: two clocks, because all interactions are between the clock that acts and
  the others, and the only thing that counts the others is the hash that the last
  one frees. Dictionaries of four keys with a margin of two, and as many new values
  per cycle and clock as the two clocks together fit into the margin (one): clocks
  enter a second and a third dictionary within three cycles, apart from each other.
* `tagvec`: a chunk of two cycles has a first and a last one; with gaps of three
  and four cycles it is entered at either, skipped, or left with one entry; three
  chunks let one be skipped between two. Two values: more only rename. The clocks of one
  phase go to the last cycle the listener accepts (`MaxCycle` is `MAXCYCLES - 1`), but no
  item moves in it: the refinement and the handlers need that of a tag with moves, and
  `WithinArray` has it as a condition. A move in the cycle before it reaches the last
  chunk. The clocks of two phases stop earlier (`Last` in `MCTagIdVec`): the
  tag in cycle 4, in the third chunk, and the position in cycle 3, whose moves
  write to the third.
* `tagvec`, for the handlers: of three chunks the middle one may be missing or
  compressed, the trace may end in any of them, and the last chunk looked at is past
  the array. Every cycle of every tag is asked for.
* `listener`: two items and two positions of an edge are enough for an item at
  both, for two items in one call and in two, and for a call that fails at its
  second item. `MAXCYCLES` of one, so that the limit is reached. The run explores
  two parts of the states (`MCDBListener!Wide`, `Narrow`): regular traces of two
  cycles with all the moves, and any traces of three cycles with one move of one
  item. Its next-state relation is that of `DBListener` within their union.
* `items`: chunks of two nodes and six entries of two items make chains of three
  chunks that mix; four entries of one item are enough for two values of a tag, a
  repetition and an entry of another clock between. Two dictionaries of a clock.
* `workspace`: three handlers that wait at once are one of the load, which opens the trace or ends the
  load, one that closes a trace and one that closes everything; the second
  trace is the one a handler finds in the place of the first; three windows make a
  first, a next and a last one for the iterators.
* `clockdomains`: of the frequencies, 1 and 2 GHz have an exact multiple, 1.33 has a
  long one and phases that are no whole picoseconds. `RATIO_MOD` is met: the multiple
  of 1 and 1.33 GHz fits it and that of 1.33 and 2 GHz does not, so that both sides of
  `LcmFits` are reached. `SKEW_MOD` is not met.
* `tracks`: three blocks are enough for a clock's range to be joined, ended by
  another's, and begun again; two writes for a tag renamed by one slot and read in
  another.
* `MaxCycle`, `MaxGap`, `MaxFresh`, `MaxMoves`, `MaxSteps`, `MaxTraces`, `MaxWindows`,
  `MaxBlocks`, `MaxWrites` only stop the model. The values of constants of the
  code, smaller here, are `CONSTANTS` with assumptions: `MAXDICT`, `MAXKEY`,
  `MAXKEYDELTA`, `CHUNK`, `MAXCHUNKS`, `OFFSETS`, `MAXCYCLES`, `CYCLE_CHUNK_SIZE`,
  `EVENTS_PER_CHUNK`, `MAX_CLOCK_ID`.
* The theorems of section 4 have no bound at all.

### Fairness

In the database the trace decides what comes next, and the program reacts to each
command and returns: no fairness, and nothing about liveness. In `Workspace`,
`FairSpec` assumes weak fairness of

* `ReadOn`, and `ReadEnd` once nothing is unread: the timer of `IOMgr` has an
  interval of zero and fires at every turn of the event loop while it is active;
* `ADFParsed`: the child processes that work for the ADF end. Its script and its
  validation have a time-out (`IOMgr.h:42`); that tar ends is an assumption, for
  `getTarContent` waits for it without one;
* `LoadFinish`, `LoadCancel`, `TraceCloseStep`, `CloseAllStep`: `processEvents`
  returns once nothing is pending, and the handler on top of the stack goes on.

Nothing is assumed of the user. `LoadEnds` then says that a load ends; a user who
is hasty may leave a handler below without a defined next step and is excepted.

## 4. What is proved

Every theorem is for any value of the constants under the named assumptions of the
component; the modules' bounds (`MaxCycle`...) are arbitrary naturals.

| module | theorem | |
|---|---|---|
| `Dict2064Proofs` | `TypeCorrect` | `Spec => []TypeOK` |
| | `ReadsBack` | `Spec => []ReadBack` |
| | `NoDangling` | `Spec => []NoDanglingDict` |
| | `HashInvertsArray` | `Spec => []HashMatchesValues` |
| | `AbandonedFreed` | `Spec => []AbandonedDictFreed` |
| | `StableKeys` | `Spec => KeysAreStable` |
| | `KeysDoSuffice` | `Spec => [](MarginSuffices => KeysSuffice)` |
| | `ImplementsDict` | `Spec => ImplementsTagDict` |
| `TagIdVecProofs` | `TagTypes` | `Spec => []TypeOK` |
| | `EntriesSorted` | `Spec => []Sorted` |
| | `NoWriteRefused` | `Spec => []WritesAccepted` |
| | `StaysWithinArray` | `Spec => []WithinArray` |
| | `TagKeepsItsHistory` | `Answerable /\ AnswersSpec => ImplementsTagHistory` |
| | `PastStays` | `Answerable /\ AnswersSpec => PastIsKept` |
| | `PresentIsRead` | `Answerable /\ AnswersSpec => []ReadsLastValue` |
| `TagHandlerProofs` | `HandlersAreSearches` | `Searchable /\ Spec => []HandlersAgree` |
| | `FlipsGoForward` | `Searchable /\ Spec => []FlipsInOrder` |
| `TrackHeapProofs` | `SpecRangesExact` | `Spec => []RangesExact` |
| | `SpecPlacesApart` | `Spec => []PlacesApart` |
| | `SpecReadsOwn` | `Spec => []ReadsOwn` |
| `ItemHeapProofs` | `SpecTypeOK` | `OwnInternals`: `Spec /\ []OffsetsFit => []TypeOK` |
| | `SpecEntriesKept` | `OwnInternals`: `Spec /\ []OffsetsFit => []EntriesKept` |
| | `SpecMutableKnown` | `OwnInternals`: `Spec /\ []OffsetsFit => []MutableKnown` |
| | `SpecReadsAsWritten` | `OwnInternals`, `StartTogether`: `Spec /\ []OffsetsFit => []ReadsAsWritten` |
| `DBListenerProofs` | `SpecFirstCycleKnown` | `Spec => []FirstCycleKnown` |
| | `SpecRelativeCyclesFit` | `Spec => [](Distinct => RelativeCyclesFit)` |
| | `SpecMovesMatch` | `Spec => [](Distinct => MovesMatch)` |
| | `SpecBoundsCover` | `Spec => [](Distinct => BoundsCover)` |
| | `SpecTypeOK` | `Spec => []TypeOK` |
| `ClockDomainProofs` | `SpecTypeOK` | `Spec => []TypeOK` |
| | `SpecShared` | `Spec => []SharedClocks` |
| | `SpecTimeOrder` | `Spec => []TimeOrder` |
| | `SpecPhaseContains` | `Spec => []PhaseContains` |
| | `SpecSumsUndone` | `Spec => []SumsUndone` |
| | `SpecFollows` | `Spec => []Follows` |
| `WorkspaceProofs` | `SpecLoaderAlive` | `Spec => []LoaderAlive` |
| | `SpecDBsOwned` | `Spec => []DBsOwned` |
| | `SpecTraceIds` | `Spec => []TraceIds` |
| | `SpecTypeOK` | `Spec => []TypeOK` |
| | `SpecNothingDangles` | `Spec => []NothingDangles` |
| | `SpecCountsRight` | `Spec => []CountsRight` |

The hypotheses in the table are what the code needs and does not check; each names
a divergence of section 6 when it fails:

* `MarginSuffices`: the margin of keys has room for what all the clocks together add
  in one cycle each;
* `Answerable`: the tag is forwarded; only slots of a clock of one phase are undefined
  (`slot_phases`); the last cycle is below `OFFSETS`, the reach of a search (65536
  in the code), and so is the end of a move, which is below `MAXCYCLES` too;
* `Searchable`: every tag is forwarded, the last cycle is below `OFFSETS`, and the cycle
  after it, for a trace with moves, below `OFFSETS` and `MAXCYCLES`. The instance of
  `flips` satisfies it and `Answerable`; that of `tagvec` satisfies both but for the moves
  in the last cycle, which it leaves out;
* `Distinct`, in `ItemHeap` `OwnInternals`: no two clocks share an internal clock;
* `OffsetsFit`: the heap has no more chunks than the offset between two can say (in the
  code a `Q_ASSERT` on `ITEM_MAX_CHUNK_OFFSET`, which a release build does not have);
* `StartTogether`: the clocks that start in the trace do so at the same time, for
  `getTagById` compares cycles relative to the first of each (`items_apart`).

Three properties have such a condition in themselves, as a predicate of the state:

* `WithinArray`: there is no move, or the trace is not yet in the last cycle the listener
  accepts (`ArraySuffices`, section 6, has no such condition);
* `TimeOrder`, `PhaseContains`: the multiple fits its bits (`LcmFits`; `clockdomains` has
  headers of both kinds), for the first also the skews in LCM cycles (`SkewsFit`), for the
  second twice each ratio (`RatiosFit`).

Hardly any of the invariants is inductive. Each proof module begins with the
inductive one (`IInv`), has a step for each action and, under it, one for each
conjunct the action can disturb.

**Dict2064.** Assumed: `SizesAssumption` (sizes are naturals, there is a dictionary,
the margin is not above `MAXKEY`), `WatchedAssumption`, `ClocksAssumption` (finitely
many clocks, at least one) and `NullAssumption` (`NULL` is no value, number, hash or
array). `ReadBack` speaks of a search over cycles, and a new dictionary changes
that search for every cycle; it is preserved because a clock enters a dictionary
at a cycle no entry of it has reached. `IInv` therefore says, next to `TypeOK`:

* `AllocatedOK`: a dictionary some clock entered is allocated, and one that is not
  allocated has given out no key;
* `CounterOK`: `counter` is the number of clocks that have not left the dictionary
  (those in it and those still on their way to it), so that its hash is freed
  exactly when none is left;
* `HashesOK`: the hashes that exist are those of the allocated dictionaries not yet
  left by all, or none after `clearDict`;
* `KeysOK`: a key the hash finds was given out, and the array holds the value there;
* `FirstOK`: the cycle a clock entered a dictionary in is not past its current one;
* `EntriesOK`: each entry was stored in a dictionary whose array holds its value
  under its key, at or after the cycles its clock entered this and all earlier
  dictionaries in, and before the cycle it entered the next one in.

The refinement needs the converse of `KeysOK` too, `Complete`: a value that was
given a key is found by the hash, so that none is given two. Then a found key is the
place of the value in `contents` (`FoundAbstract`), a new one is appended to it
(`InsertAbstract`), `allocNewDict` appends to `entered` (`AllocAbstract`), and every
other step, the freeing of hashes among them, leaves both as they are.

`KeysDoSuffice` counts. A clock that takes a key past the mark has asked for the next
dictionary and leaves when its cycle ends, but the others may still be on their
way. `PastMark` is the set of the keys the clocks may have taken past the mark, as
pairs of a clock and a number, and `MarginOK` says that no more were given out than it
has members: a step that takes a key past the mark adds a pair, and a clock that
leaves keeps its own.

**TagIdVec.** Assumed: `SizesAssumption`, `ValuesAssumption`, `UsesAssumption` (only
forwarded tags are undefined; nothing but moves writes to the track of an edge). A
move writes one cycle ahead, so the entries of a phase may reach a cycle past the
current one: `HalvesOK` bounds the cycles of each phase's entries by where its
writes have come to, and says that each chunk is in order; `DenseOK` that a
compressed chunk is over, until the trace has ended. `Roomy` is the condition in
`WithinArray`, that no move is in the last cycle the listener accepts: without it the
theorem is false (`ArraySuffices`, section 6).

**TagHistory** (in `TagIdVecProofs` too). Assumed besides: `NullAssumption` (`NULL` is
no chunk). The proof forgets the chunks step by step.

* `Holds(t, p, a, v)`: half `p` has an entry of value `v` for cycle `a`, in whatever
  chunk. `SearchedLatest` is about `internalGetTagValue`: looking back from the chunk
  of a cycle, in each for the last entry not after an offset, finds the latest
  entry of all that are not after the cycle, or none. It needs the entries in order,
  within the first and last cycle of the tag (`Kept`), and no offset that wraps.
* `EnteredHolds`: a write leaves the entries before its cycle and makes its value
  the last, or leaves a cleared end as it is. `CompressedHolds`: compression leaves
  them all. With `SearchedSame`, that a search depends on nothing else, this gives
  what is answered in one half before and after (`EnteredAnswers`).
* `SetAnswers` and `MoveAnswers` merge the halves: from the tick of the write on, a new
  value wins over what the other half has, which is older, and before it nothing
  changes.

`HInv` is the invariant of the refinement, next to `IInv` and `Kept`: `NothingAhead`
(no half has an entry after the present), `MovesGone` (after a move, no search from
the next cycle on finds a value), `OneHalf` (a clock of one phase writes to one
half) and `LastHolds` (the present and the future have `lastValue`), which is why a
write that repeats it may be dropped. `Cycle` is `Advance`, `Set` and `Undefine` are
`Set`, or nothing when they repeat, `Move` is `Pulse`, `EndSimulation` is nothing.

**TagHandler.** The invariant is `SInv`: `IInv`, `Kept` (entries are in order, within the
cycles of the tag, which are below `OFFSETS`) and a forwarded tag. Everything else is
about a tag of which these hold; compression and moves play no part any more.

* A handler is `Placed` when the entries of its chunk it has reached are those up to its
  cycle, and its value is that of the last of them, or the one it came with. Entering a
  chunk (`Arrives`), the next cycle (`NextCyclePlaced`) and the next entry
  (`NextEntryPlaced`) keep it placed, and a placed handler has the value a search finds at its
  cycle: when it has reached an entry (`PlacedReads`), or came with what a search from
  before its chunk finds (`KeptValueReads`). With that, the first half of `HandlersAgree` follows cycle by cycle
  (`WalkRight`).
* `SkipMoves`: `Skip` goes to a later cycle or past the end, and between the two there is no
  entry of another value (`Skips`), although it passes over chunks that are
  not there and over entries that begin a chunk and repeat. That is where the code
  is subtle: `LastToVisit` has to be late enough, and a chunk is entered with the value
  of the one before it.
* "Find" skips until the tag is defined, not before the cycle asked; by the number of turns,
  it has passed over no cycle in which a value appears or changes (`NoneMissed`,
  `TurnsSearch`), and because each turn gains a cycle it is over within `MAXCYCLES`
  of them (`SkipToFinds`). `FindFinds` does not need the restriction `HandlersAgree` puts
  on the use.
* Two handlers: each is past the end or right (`Ready`), and the one in front is never later
  than the other (`DualOK`); the start and `DualSkip` keep it so (`InitialDual`,
  `DualSkipOn`). `WalkOK` says of the changes taken so far that they are in order, before
  the handler, and each what its phase says; and, when the other phase has nothing, that
  each lasts until the next (`Lasting`), which is what makes the view show the answer of
  `getTagValue` (`AnswersAlone`, `FlipsAlone`). In a tag with both phases this last part
  is false (`flips`).

**ItemHeap.** Assumed: `GivensAssumption` (no tag has both single values and sets of
them; a trace that mixes them is refused, `DBListener.cpp:335` and 482),
`ItemSizesAssumption`, `ItemClocksAssumption` (clocks are numbered) and
`NullAssumption`. The proof has four layers.

* Chains: an offset leads forward, so that the chain of a chunk is well defined from
  the last chunk back (`ChainsExist`, `Downwards`), and no chunk is in the chains of two
  items (`ChainsApart`). A node that is stored is the next entry of its item and
  leaves the entries of the others, in the last chunk or in a new one (`StoredItems`);
  one that is overwritten or marked changes nothing else (`RewrittenItems`).
* Reading: an entry is of a cycle that its clock went through, and its key is one of the
  dictionary the clock was in (`NodeOf`), so that what it is read as stays while the
  dictionaries grow and clocks go on (`ReadAsBefore`, `NodeForward`).
* History: what is read of an item and what it was given (`HistoryOK`) are both in the
  order of time (`Ordered`); the events and sets of values are the same (`Kept`);
  and each value of a tag went to an entry (`Linked`): not later than the value and there
  since the first that went to it (`NotLater`, `Founded`), in turn (`InTurn`), with the
  last of the values that went to it, or one of the cycle of the entry (`StillThere`),
  and to the entry of the value before exactly when it is of its cycle, or repeated
  (`WentOn`).
* Answers: the last entry up to a cycle has the value said last up to it, since no asked
  cycle is between two phases of an entry's cycle (`LastTold`, `NotBetween`); looking
  ahead, the first entry has the value `Written` says (`FirstTold`).

`MCItemHeap` satisfies `OwnInternals` and `StartTogether`, and reaches heaps of several
chunks for an item.

**TrackHeap.** Assumed: `GraphAssumption` (no element has the name of a clock: they are
tracked in tables of their own). `TracksOK` relates the tracks to their number and says
that no write changes a clock; `WithinTracks` that no range reaches past the last
track. That an element takes at least one track, and that distinct coordinates have
distinct positions below the product of the capacities, is proved of the recursive
functions by the least dimension at which it would fail. `BlocksOK` gives every tracked
element a block of tracks of its own, of its clock. For `SpecReadsOwn`, `StoresOK`
adds that the tracks of a block share one table without repetitions, that no track
has more values than the table names, and that what is read in a track under a tag is
what was last written there: a table only grows at its end, so that what the other
tracks of the block hold keeps its meaning.

**DBListener.** Assumed: `ClocksAssumption`, `EdgesAssumption`,
`BoundsAssumption`. `ClocksOK`: the first cycle of a clock is not after its
current one; `HeaderOK`: nothing was announced or stored in the header;
`NotTooLong`: in the state `TRACE` the current cycle is within the limit of the
first, which is what a callback that stores relies on; `ItemFirstOK`,
`TrackMovesOK`, `ItemMovesOK`: what the heaps were told and hold. `RelativeCyclesFit`
needs `Distinct`, that no two clocks share an internal clock: a second one
overwrites `itemFirst` (section 6), and what is stored afterwards for the first is
relative to the wrong cycle.

`SpecMovesMatch` needs more: the two heaps hold the same set of moves because a
`MoveItems` never finds its position taken. `PastOK` says that no stored move is
later than the current cycle of its clock; in a regular trace clocks only go on, so
that a cycle just announced has no moves yet (`PositionsOK`: those of the current
cycle are below the next free position). `SameMoves` is preserved because a clock
that has moves has ticked, and keeps the first cycle its moves are relative to; the
limit on cycles makes decoding the inverse of encoding (`DecodedEncoded`).

`SpecBoundsCover` compares every move with the bounds, which are taken over all the
clocks. `RangesOK` puts a move between the first and the current cycle of its own
clock, `ProductMonotone` and `LCMOfRange` carry that order to LCM cycles, and
`BoundsOfClocks` that the minimum and maximum of a set of numbers, one for each of
finitely many clocks, bound each of them. The last is an induction over a finite set,
done with a smallest counterexample in the well-founded order of its subsets
(`GreatestExists`).

`SpecTypeOK` is not inductive by itself: a relative cycle is above `-MaxCycle` because
`itemFirst` is known for every internal clock one of whose clocks has ticked
(`Times`), and `lastUsedPos` stays within the bandwidth of its edge (`Positions`).

**ClockDomainMgr.** Assumed: `ClockSizesAssumption`. `TablesOK` (types),
`InternalsOK` (an internal clock has the frequency and skew of its clocks, and no
two have the same), `ExternalOK` (`int_to_ext` is a clock of it), `ComputedOK`
(what is computed depends on frequency and skew only), `NotComputed` (not before
the start).

The multiple is computed by a loop over the clocks (`LcmOf`); that it is a positive
multiple of every frequency is proved from the first clock for which it would not be. The
code cuts the multiple to 32 bits and then divides it; where it fits (`LcmFits`), the
ratio of a clock is exact, and `SpecTimeOrder` and `SpecPhaseContains` are
facts about quotients: two moments in LCM cycles compare as the moments do in
picoseconds, since both are multiplied by the same number. `SpecFollows` keeps, for
each window, that what it shows and what it still owes add up to what it was moved, in
picoseconds; a phase of a whole number of them is what makes both conversions exact,
and `strayed` excludes the windows that met an end of their slider.

**Workspace.** Assumed: `BoundsAssumption`, `KindsAssumption`, `NullAssumption`. The
three properties depend on each other, on the numbering of databases (`DBsOK`: a new
one has a new number), on `TracesOK` (no trace is there twice), on the stack
(`CallsOK`), and on what the loader may rely on while its handler waits
(`LoaderOK`): one handler of the load at most is on the stack, so that below the one
that goes on there is none (`LoaderGoesOn`, `NoLoader`), and another that opens the next
trace may take its place (`OpeningCalls`). The windows play no part in it: whatever happens to them, and
however hasty the user is, the databases are owned once.

`SpecNothingDangles` and `SpecCountsRight` are about a user who is not hasty (`Sound`):
the list of windows is that of the windows there are, each of an open trace and there
once (`WindowsOK`); the counts are those of that list (`CountsOK`); and a handler
that closes windows is the only one that waits (`ClosingOK`). Of such a handler the
invariant says what it has still to meet: `do_closeAll`, that its copy of the list
is what is left of the windows; `do_genericTraceClose`, that no window of its trace is
before its iterator. The removal of a window from a list (`Only`) keeps the order of the
others (`OnlyFacts`), so that the window after one that leaves is the one the
iterator goes to.

Model-checked only: `LoadEnds`, for liveness under fairness is out of the prover's reach,
as is `ENABLED`. The runs that expect a violation show divergences of the code, and their
properties are false; but `PresentIsRead` proves `ReadsLastValue` under the condition
that `slot_phases` breaks.

Nor can the prover use an induction theorem that takes an operator, and no module has a
recursive operator: recursion is by functions. Where a recursive
function had to be known (`ItemHeap!Places`, `TrackHeap!Product` and `Linear`, `ClockDomainMgr!LcmOf`,
`Workspace!Only`, and in `TagHandler` `Walk`, `SkipTo` and `Flips`), the proof shows that the function exists (for the loops of `TagHandler`, once for any
step: `Counting`, `Iterated`), and that there is no least argument at which what is claimed fails.

## 5. Hazards

`PROJECT.json` lists what in this code can go wrong in a way a test would hardly
reach, each at its line with the properties that would notice, or with the reason
why none does yet.

## 6. Divergences

With a run that shows them (`findings` in `PROJECT.json` has the quotations):

* `slot_phases`: an item that enters a slot in one phase and leaves it in the other
  is read there for ever after.
* `end_without_trace`: an error in the header leaves a listener without arrays, and
  the end of the load reads them.
* `flips`: a tag gets a in phase 0, b in phase 1, and a again in phase 0 of the first
  cycle of the next chunk. The handler of phase 0 passes over the entry that chunk
  begins with, as no change of its own phase; a view that draws the changes shows b for
  ever, while `getTagValue` answers a.
* `items_apart`: the search for a tag compares cycles relative to different origins
  when the clocks of an item did not start together.
* `workspace_clock`: the animation reads the clock of a trace that was closed.

Without a run of their own; the definition in parentheses states what is violated:

* Closing a window while a trace is loading deletes it and leaves it in the list of
  windows kept informed, and in the counts (`src/tools/Dreams/src/Dreams.cpp:1738`;
  `Workspace!ListIsLive`).
* A move in cycle 1048575, the last one the listener accepts (`DBListener.cpp:2125`),
  undefines its position in cycle 1048576 (`TrackHeap.cpp:532`), in chunk 256 of an array
  of 256. `AEVector.h:299` asserts `Q_ASSERT(segment < MAXSEGMENTS);`, and `TagIdVec.h:68`
  sizes the array for the cycles accepted, `8 * 32 * 4096 = 1 million cycles.`
  (`TagIdVec!ArraySuffices` under `Spec`, with the constants of `tagvec`).
* The multiple of the frequencies is cut to 32 bits before it is divided by each
  (`ClockDomainMgr.h:352`), although the ratios would fit: 333, 266, 401 and 199 have a
  multiple of 7068435822. The quotients of what is left of it are rounded down, so that the
  phases of the clocks are no longer measured in one unit, where `ClockDomainMgr.h:110`
  calls `lcm_ratio` the `Frequency ratio respect to the LCM.`
  (`ClockDomainMgr!RatioToLcm`, with the constants of `clockdomains`).
* Sixteen chunks after it was set, a value is no longer found
  (`TagAnswers!PastIsKept` with `Uses <- Far`, `CHUNK = 2`, `OFFSETS = 32`,
  `MAXCHUNKS = 17`).
* The margin of keys is for one clock; two that share a dictionary exhaust it, each
  within the margin (`KeysSuffice` with `MaxFresh = 2`).
* The start of a second clock of the same frequency and skew moves the events the
  items already have (`MovesMatch` with `Internal <- OneInternal`).

* A tag that is set for the first time in the last moment of a trace is not gone
  through, although views draw that moment (`taghandler/TagFlipHandler.cpp:284`, the
  test is strict; `TagHandler!LateFlipsAgree` in the instance of `flips`).

Seen while modelling:

* Within a chunk a handler stops at an entry with the value of the entry before,
  between chunks it does not (`trackheap/TagVecValue31.cpp:246`).
* The handler of a tag that is not forwarded answers undefined for a missing chunk and
  keeps the vector before it, whose entries it then goes through again
  (`taghandler/TagHandler.cpp:213`).
* A cycle announced again (`DBListener.cpp:2073`, the test is strict): the positions
  of the edges start again, so that the next `MoveItems` overwrites what the first
  one stored in the track and not what it stored with the item; and a
  dictionary that is due is swapped in the middle of the cycle, so that what the
  cycle stored before reads back from the wrong one.
* `Do_EndSimulation` compresses the tracks of the last clock only
  (`DBListener.cpp:814`), and takes cycle -1 as the first of the trace when a clock
  never ticks (`DBListener.cpp:803`).
* `loadDRLHeader` answers that a header that ended in an error was loaded
  (`DralDB.cpp:154`).
* Items may move after their deletion without the error that is worded for it
  (`DBListener.cpp:754`).
* A tag that is not forwarded and set to the same value in two cycles is found in
  the first only (`trackheap/TagIdVec.h:152`); `ImplementsTagHistory` is for
  forwarded tags.
* `MoveItemsWithPositions` accepts a position twice in a cycle, and the entries of
  the chunk lose their order (`DBListener.cpp:676`).
* The offset to the next chunk of an item has 25 bits where the vector of chunks
  may be larger (`itemheap/ItemHeapDef.h:258`).
* A frequency that does not divide the picoseconds of a cycle loses part of one at
  each `fromPs(toPs())`: a window with a clock of 1.33 GHz that follows single cycles
  never advances. Stepping back before the start wraps. `Follows` is for phases of
  whole picoseconds, away from the ends of the sliders.
* `fromLCMCycles` may answer phase 1 for a clock of one phase.
* The skew of a clock in LCM cycles is cut to 16 bits (`ClockDomainMgr.h:375`), and twice
  the ratio, by which `fromLCMCycles` divides, to 32 (`ClockDomainMgr.h:486`).
* A tar that does not end leaves the main window refusing every trace: it is waited for
  without a time-out (`src/tools/Dreams/src/IOMgr.cpp:291`).
* `resolveTrackIdForEdge` with a slot uses the table of the nodes
  (`trackheap/TrackHeap.h:230`); it has no caller, nor has `trackCycleTags` in the
  application.
* Moves on an edge are stored by position only, whatever its latency, while an edge
  has tracks for positions times latency.
* `do_saveSession` and `do_loadSession` use `dreamsdb`, `NULL` whenever no trace is
  loading (`src/tools/Dreams/src/Dreams.cpp:1030`).

## 7. Not modelled

* The rest of the graphical application, the libraries and the other tools: they
  read the database, or convert files one command at a time; what they do is
  parsing, layout, formatting and drawing. They are most of the lines of the
  repository.
* The DRAL library: not in the repository. What it may call, and in which order, is
  the environment of the modules (`Rejected` and the guards of the callbacks).
* Highlights, annotations, marks, sessions, other clocks for a window, and the steps
  of the play timer.
* Of the tag handlers: tags that are not forwarded, the merge of several tags of one
  track, the tags of the item in a slot, items that are looked for in several tracks.
  The backward operations have no body. Expressions: evaluated without state.
* In `ItemHeap`: clocks that share an internal clock while they are in different
  dictionaries; iteration with masks; statistics. In `TagIdVec`: statistics of
  occupancy, the accounting of memory, sets of values, which always fail; the keys
  64-bit vectors keep and their pools of freed chunks. In `Dict2064`: the buckets
  of the hash. In `DBListener`: sets of values, comments, strings and the graph.

## 8. What is left

1. The 64-bit tag vectors with `TagDict` for their keys, and the pools of chunks.
2. `ItemHeap` with clocks that share an internal clock.
3. Tag handlers of tags that are not forwarded, and of several tags at once.
4. Highlights: windows mark items in each other, across traces that close.
5. Expressions and the rule engine as pure operators.
