------------------------------ MODULE ItemHeap ------------------------------
(***************************************************************************)
(* The heap of items (dDB/itemheap/ItemHeap.{h,cpp}, ItemHeapDef.h): for   *)
(* each item a chain of chunks with its tags and events, in the order the  *)
(* trace gave them.  A value is kept as a key of a dictionary (TagDict)    *)
(* and a cycle relative to the first one of its internal clock.            *)
(*                                                                         *)
(* The caller is part of the module: DBListener announces cycles, which    *)
(* may put a clock in the next dictionary, and creates, deletes, tags and  *)
(* moves items in the cycle it is in.  Moves, entries to nodes, exits and  *)
(* generic events differ in the fields of their node only, so one          *)
(* operation stands for the four.  The clocks of the trace, what it stores *)
(* and the options of the user are given once.                             *)
(***************************************************************************)
EXTENDS TagDict, FiniteSetsExt

CONSTANTS
    Items,       \* item ids
    NEWITEM, DELITEM,  \* newitem_tagid, delitem_tagid
    ZERO,        \* the value of those two
    NULL,        \* no value
    Givens,      \* what stays as it is while a trace is loaded
    EVENTS_PER_CHUNK,
    OFFSETS,     \* offsets to the next chunk are kept modulo this (2^25)
    MaxCycle,    \* bound: last cycle announced
    MaxDicts     \* bound: dictionaries of a clock

(* Of a clock: LCM cycles of a phase, phases, internal clock, first cycle. *)
(* Of DBConfig: compressMutable and backPropagate.  Of the trace: the      *)
(* items it creates, its tags of a single value, its tags of sets of       *)
(* values (no tag is of both), its events, and a bound on how many of them *)
(* it stores.                                                              *)
ASSUME GivensAssumption ==
    \A g \in Givens :
        /\ g.ratio \in [Clocks -> Nat \ {0}] /\ g.divisions \in [Clocks -> {1, 2}]
        /\ g.internal \in [Clocks -> Clocks] /\ g.start \in [Clocks -> Nat]
        /\ g.compressMutable \in BOOLEAN /\ g.backPropagate \in BOOLEAN
        /\ g.items \subseteq Items /\ g.maxEntries \in Nat
        /\ g.sovTags \cap (g.tags \cup {NEWITEM, DELITEM}) = {}
ASSUME ItemSizesAssumption ==
    /\ EVENTS_PER_CHUNK \in Nat \ {0} /\ OFFSETS \in Nat \ {0} /\ MAXDICT \in Nat \ {0}
    /\ MaxCycle \in Nat
ASSUME ItemClocksAssumption == Clocks \subseteq Nat
ASSUME NullAssumption == NULL \notin [clock : Clocks, cycle : Nat, division : 0..1]

VARIABLES
    given,                \* clocks, options and kind of the trace
    itemVector,           \* first chunk of each item, ITEM_OPEN or ITEM_UNUSED
    eventVector,          \* chunks: their nodes and the offset to the next
    firstEffectiveCycle,  \* per internal clock
    cycle,                \* the cycle of the trace: clock, cycle, division
    currentCycle,         \* per clock: cycle announced last, -1 before
    log                   \* history: what was stored with each item

vars == <<dictVars, given, itemVector, eventVector, firstEffectiveCycle,
          cycle, currentCycle, log>>

ITEM_OPEN == 0
ITEM_UNUSED == 1

-----------------------------------------------------------------------------
(* Time.                                                                   *)

(* CYCLE::toLCMCycles, the clocks having no skew                           *)
toLCM(x) == (2 * x.cycle + x.division) * given.ratio[x.clock]

internalToExternalClock(i) ==
    CHOOSE c \in Clocks :
        /\ given.internal[c] = i
        /\ \A d \in Clocks : given.internal[d] = i => c <= d

(* The cycle of a node, not yet made absolute.                             *)
RelativeCycle(n) ==
    [clock |-> internalToExternalClock(n.clockId), cycle |-> n.cycle, division |-> n.division]

-----------------------------------------------------------------------------
(* Chains of chunks.                                                       *)

nextEventVectorEntry == ITEM_UNUSED + 1 + Len(eventVector)

ChunkAt(k) == eventVector[k - ITEM_UNUSED]

(* Where the entries of the chunk k and of those after it are.             *)
Places[k \in 2 .. nextEventVectorEntry - 1] ==
    LET own == [s \in 1 .. Len(ChunkAt(k).content) |-> <<k, s>>]
    IN  IF ChunkAt(k).next = 0 THEN own ELSE own \o Places[k + ChunkAt(k).next]

PlacesFrom(first) == IF first <= ITEM_UNUSED THEN <<>> ELSE Places[first]

(* The entries of an item in the order nextEntry goes through them.        *)
PlacesOf(i) == PlacesFrom(itemVector[i])

NodeAt(p) == ChunkAt(p[1]).content[p[2]]

Entries(i) == [k \in DOMAIN PlacesOf(i) |-> NodeAt(PlacesOf(i)[k])]

(* The vector of chunks with the nodes `node` in their places.             *)
WithNodes(node) ==
    [k \in DOMAIN eventVector |->
        [eventVector[k] EXCEPT !.content =
            [s \in DOMAIN eventVector[k].content |-> node[<<k + ITEM_UNUSED, s>>]]]]

(* setNextChunk: what of the distance between two chunks is kept.          *)
Offset(from, to) == (to - from) % OFFSETS

(* Mutant: a chunk takes one node more than it has room for.               *)
FullM(chunk) == Len(chunk.content) > EVENTS_PER_CHUNK

Full(chunk) == Len(chunk.content) = EVENTS_PER_CHUNK

(* ItemHeap::allocateNewSlot, filled with the node n, for an item whose    *)
(* first chunk is `first`; ev is the vector of chunks.                     *)
Stored(ev, first, n) ==
    LET new == [content |-> <<n>>, next |-> 0]
    IN  IF first = ITEM_OPEN THEN Append(ev, new)
        ELSE LET last == Places[first][Len(Places[first])][1] - ITEM_UNUSED
                 With(chunk) == [k \in DOMAIN ev |-> IF k = last THEN chunk ELSE ev[k]]
             IN  IF Full(ev[last])
                 THEN Append(With([ev[last] EXCEPT !.next = Offset(last, Len(ev) + 1)]), new)
                 ELSE With([ev[last] EXCEPT !.content = Append(@, n)])

FirstChunk(first) == IF first = ITEM_OPEN THEN nextEventVectorEntry ELSE first

-----------------------------------------------------------------------------
(* Writing.                                                                *)

Exists(i) == itemVector[i] # ITEM_UNUSED

(* The cycle of the trace as nodes keep it.                                *)
IntCycle == cycle.cycle - firstEffectiveCycle[given.internal[cycle.clock]]

Stamp == [clockId |-> given.internal[cycle.clock], cycle |-> IntCycle,
          division |-> cycle.division]

TagNode(t, key, mutable, sov) ==
    [type |-> "tag", tagId |-> t, dkey |-> key, isMutable |-> mutable, isSOV |-> sov,
     clockId |-> Stamp.clockId, cycle |-> Stamp.cycle, division |-> Stamp.division]

EventNode(e) ==
    [type |-> "event", event |-> e,
     clockId |-> Stamp.clockId, cycle |-> Stamp.cycle, division |-> Stamp.division]

ValueOf(n) == ValueByCycle(n.dkey, n.cycle, internalToExternalClock(n.clockId))

IsTag(n, t) == n.type = "tag" /\ n.tagId = t

(* Which of the entries from chunk `first` on are of tag t.                *)
OfTag(first, t) == {k \in DOMAIN PlacesFrom(first) : IsTag(NodeAt(PlacesFrom(first)[k]), t)}

FirstOf(first, t) == PlacesFrom(first)[Min(OfTag(first, t))]
LastOf(first, t)  == PlacesFrom(first)[Max(OfTag(first, t))]

(* The nodes once every entry of the tag was marked as mutable on the way  *)
(* to the last.                                                            *)
Marked(first, t) ==
    LET marked == {PlacesFrom(first)[k] : k \in OfTag(first, t)}
        places == UNION {{<<k + ITEM_UNUSED, s>> : s \in DOMAIN eventVector[k].content} :
                            k \in DOMAIN eventVector}
    IN  [p \in places |-> IF p \in marked THEN [NodeAt(p) EXCEPT !.isMutable = TRUE]
                          ELSE NodeAt(p)]

(* The node n is of this cycle.                                            *)
SameCycle(n) == n.cycle = IntCycle /\ n.clockId = given.internal[cycle.clock]

(* Mutant: the value is compared with the first entry of the tag.          *)
RepeatedM(first, t, v) == given.compressMutable /\ ValueOf(NodeAt(FirstOf(first, t))) = v

(* CompressMutable: the tag already has the value.                         *)
Repeated(first, t, v) == given.compressMutable /\ ValueOf(NodeAt(LastOf(first, t))) = v

(* The last entry of the tag is of this cycle.                             *)
Reused(first, t) == OfTag(first, t) # {} /\ SameCycle(NodeAt(LastOf(first, t)))

(* A tag that has one value again is not mutable; one of more values is.   *)
MutableM(first, t) == TRUE
Mutable(first, t) == Cardinality(OfTag(first, t)) > 1

(* ItemHeap::newTag of a single value, for the item i whose first chunk is *)
(* `first`: the last entry of the tag is overwritten, has the value        *)
(* already, or a new entry is stored.                                      *)
newTag(i, first, t, v) ==
    LET last   == LastOf(first, t)
        marked == Marked(first, t)
        stored == OfTag(first, t) # {}
    IN  /\ itemVector' = [itemVector EXCEPT ![i] = FirstChunk(first)]
        /\ \/ /\ Reused(first, t)
              /\ \E key \in Keys :
                    /\ KeyFor(v, cycle.clock, key)
                    /\ eventVector' = WithNodes([marked EXCEPT
                           ![last].dkey = key, ![last].isMutable = Mutable(first, t)])
           \/ /\ stored /\ ~Reused(first, t) /\ Repeated(first, t, v)
              /\ eventVector' =
                     WithNodes([marked EXCEPT ![last].isMutable = Mutable(first, t)])
              /\ UNCHANGED dictVars
           \/ /\ stored => ~Reused(first, t) /\ ~Repeated(first, t, v)
              /\ \E key \in Keys :
                    /\ KeyFor(v, cycle.clock, key)
                    /\ eventVector' =
                           Stored(WithNodes(marked), first, TagNode(t, key, stored, FALSE))

(* History: the item was given x in the cycle of the trace.                *)
Logged(i, x) == log' = [log EXCEPT ![i] = Append(@, x)]

(* The bound of the model is not reached, by what the items were given and *)
(* by what the heap has ever stored.                                       *)
WithinBound ==
    /\ FoldFunction(LAMBDA s, n : Len(s) + n, 0, log) < given.maxEntries
    /\ FoldFunction(LAMBDA c, n : Len(c.content) + n, 0, eventVector) < given.maxEntries

(* The trace is in a cycle.                                                *)
Running == cycle # NULL /\ WithinBound

UNCHANGEDclocks == UNCHANGED <<given, firstEffectiveCycle, cycle, currentCycle>>

(* Mutant: the chunks of an item used before are kept.                     *)
OpenedM(i) == IF Exists(i) THEN itemVector[i] ELSE ITEM_OPEN

(* What itemVector has of an item that is created                          *)
Opened(i) == ITEM_OPEN

(* newItemBlock: whatever the item had before is lost.                     *)
newItemBlock(i) ==
    /\ Running
    /\ newTag(i, Opened(i), NEWITEM, ZERO)
    /\ log' = [log EXCEPT ![i] = <<[tag |-> NEWITEM, value |-> ZERO, at |-> cycle]>>]
    /\ UNCHANGEDclocks

(* SetTagSingleValue, SetTagString; DeleteItem, whose endItemBlock is a    *)
(* tag as well                                                             *)
SetTag(i, t, v) ==
    /\ Running /\ Exists(i)
    /\ newTag(i, itemVector[i], t, v)
    /\ Logged(i, [tag |-> t, value |-> v, at |-> cycle])
    /\ UNCHANGEDclocks

(* ItemHeap::newTag of a set of values, given one after the other          *)
SetSov(i, t, v) ==
    /\ Running /\ Exists(i)
    /\ \E key \in Keys :
          /\ KeyFor(v, cycle.clock, key)
          /\ eventVector' = Stored(eventVector, itemVector[i], TagNode(t, key, FALSE, TRUE))
    /\ Logged(i, [tag |-> t, value |-> v, at |-> cycle])
    /\ UNCHANGED itemVector /\ UNCHANGEDclocks

(* newMoveItem, newEnterNode, newExitNode, newGenericEvent                 *)
newEvent(i, e) ==
    /\ Running /\ Exists(i)
    /\ eventVector' = Stored(eventVector, itemVector[i], EventNode(e))
    /\ Logged(i, [event |-> e, at |-> cycle])
    /\ UNCHANGED <<dictVars, itemVector>> /\ UNCHANGEDclocks

-----------------------------------------------------------------------------
(* The clocks of the trace.                                                *)

StartOf(c) == [clock |-> c, cycle |-> given.start[c], division |-> 0]

(* A trace is written in the order of time: no clock goes on when another  *)
(* one has to start.                                                       *)
InOrder(x) ==
    /\ cycle # NULL => toLCM(x) >= toLCM(cycle)
    /\ IF currentCycle[x.clock] = -1 THEN x = StartOf(x.clock)
       ELSE \A c \in Clocks : currentCycle[c] = -1 => toLCM(x) < toLCM(StartOf(c))

(* DBListener::Cycle, for the phase d of the cycle n of clock c, the first *)
(* or not: a clock may enter the next dictionary in phase 0 (Dict2064 says *)
(* when).                                                                  *)
Cycle(c, n, d) ==
    LET x == [clock |-> c, cycle |-> n, division |-> d]
        int == given.internal[c]
        isFirst == currentCycle[c] = -1
    IN  /\ x.division < given.divisions[c]
        /\ x.cycle >= currentCycle[c] /\ x # cycle /\ InOrder(x)
        /\ cycle' = x
        /\ currentCycle' = [currentCycle EXCEPT ![c] = x.cycle]
        /\ firstEffectiveCycle' = IF isFirst THEN [firstEffectiveCycle EXCEPT ![int] = x.cycle]
                                  ELSE firstEffectiveCycle
        /\ \/ UNCHANGED dictVars
           \/ /\ ~isFirst /\ x.division = 0 /\ x.cycle > currentCycle[c]
              /\ Len(entered[c]) < MaxDicts
              /\ NextDict(c, x.cycle - given.start[c])
        /\ UNCHANGED <<given, itemVector, eventVector, log>>

Init ==
    /\ DictInit
    /\ given \in Givens
    /\ itemVector = [i \in Items |-> ITEM_UNUSED]
    /\ eventVector = <<>>
    /\ firstEffectiveCycle = [c \in Clocks |-> 0]
    /\ cycle = NULL
    /\ currentCycle = [c \in Clocks |-> -1]
    /\ log = [i \in Items |-> <<>>]

Next ==
    \/ \E c \in Clocks, n \in 0 .. MaxCycle, d \in 0..1 : Cycle(c, n, d)
    \/ \E i \in given.items :
           \/ newItemBlock(i)
           \/ SetTag(i, DELITEM, ZERO)
           \/ \E v \in Values \ {ZERO} :
                 \/ \E t \in given.tags : SetTag(i, t, v)
                 \/ \E t \in given.sovTags : SetSov(i, t, v)
           \/ \E e \in given.events : newEvent(i, e)

Spec == Init /\ [][Next]_vars

-----------------------------------------------------------------------------
(* Reading.                                                                *)

(* Mutant: a tag of the asked cycle is not found.                          *)
LaterM(n, lcm) == toLCM(RelativeCycle(n)) >= lcm

Later(n, lcm) == toLCM(RelativeCycle(n)) > lcm

(* ItemHeap::getTagById for a tag of single values: the search stops at    *)
(* the first tag stored after the asked cycle q.                           *)
getTagById(i, t, q) ==
    LET es    == Entries(i)
        lcm   == toLCM([q EXCEPT !.cycle = @ - firstEffectiveCycle[given.internal[q.clock]]])
        read  == {k \in DOMAIN es : \A j \in 1 .. k : es[j].type = "tag" => ~Later(es[j], lcm)}
        found == {k \in read : IsTag(es[k], t)}
        ahead == {k \in DOMAIN es \ read : IsTag(es[k], t)}
    IN  IF found # {} THEN ValueOf(es[Max(found)])
        ELSE IF given.backPropagate /\ ahead # {} THEN ValueOf(es[Min(ahead)])
        ELSE NULL

-----------------------------------------------------------------------------
(* Properties.                                                             *)

PlainTags == given.tags \cup {NEWITEM, DELITEM}

(* Types of the variables (ItemHeapDef.h); an offset of zero ends a chain. *)
TypeOK ==
    /\ given \in Givens
    /\ itemVector \in [Items -> Nat]
    /\ \A i \in Items : itemVector[i] < nextEventVectorEntry
    /\ \A k \in DOMAIN eventVector :
          /\ Len(eventVector[k].content) \in 1 .. EVENTS_PER_CHUNK
          /\ eventVector[k].next \in 0 .. OFFSETS - 1
          /\ \A s \in DOMAIN eventVector[k].content :
                LET n == eventVector[k].content[s]
                IN  /\ n.clockId \in Clocks /\ n.cycle \in Nat /\ n.division \in 0..1
                    /\ n.type = "tag" => n.dkey \in Keys /\ n.isMutable \in BOOLEAN

AsRead(x) == [x EXCEPT !.at.clock = internalToExternalClock(given.internal[@])]

AbsoluteCycle(n) == [RelativeCycle(n) EXCEPT !.cycle = @ + firstEffectiveCycle[n.clockId]]

Decoded(n) ==
    IF n.type = "event" THEN [event |-> n.event, at |-> AbsoluteCycle(n)]
    ELSE [tag |-> n.tagId, value |-> ValueOf(n), at |-> AbsoluteCycle(n)]

IsPlain(x) == "tag" \in DOMAIN x /\ x.tag \in PlainTags

(* Events and values of sets in a sequence, and how many there are up to k *)
Others(s) == {k \in DOMAIN s : ~IsPlain(s[k])}
Rank(s, k) == Cardinality({l \in Others(s) : l <= k})

(* The events and the sets of values of an item are read back from its     *)
(* chain of chunks in the order and at the cycles the trace gave them, and *)
(* none of another item among them, however the chunks of the items are    *)
(* mixed in the heap (allocateNewSlot, nextEntry, newItemBlock).           *)
EntriesKept ==
    \A i \in Items :
        LET read == [k \in DOMAIN Entries(i) |-> Decoded(Entries(i)[k])]
            said == [k \in DOMAIN log[i] |-> AsRead(log[i][k])]
        IN  /\ Cardinality(Others(read)) = Cardinality(Others(said))
            /\ \A k \in Others(read), l \in Others(said) :
                  Rank(read, k) = Rank(said, l) => read[k] = said[l]

(* What the trace said of a tag by the end of the cycle q: the last value, *)
(* or, when asked to look ahead, the one the tag had at the end of the     *)
(* first cycle it was given one, unless another cycle had said otherwise   *)
(* (or, but for compressMutable, the same) before that.                    *)
Written(i, t, q) ==
    LET ws    == {k \in DOMAIN log[i] : IsPlain(log[i][k]) /\ log[i][k].tag = t}
        At(k) == log[i][k].at
        seen  == {k \in ws : toLCM(At(k)) <= toLCM(q)}
        Again(k) == given.compressMutable
                    /\ log[i][k].value = log[i][Max({j \in ws : j < k})].value
        OfFirst(k) == At(k).clock = At(Min(ws)).clock /\ At(k).cycle = At(Min(ws)).cycle
        first == {k \in ws : \A j \in ws : j <= k => OfFirst(j) \/ Again(j)}
    IN  IF seen # {} THEN log[i][Max(seen)].value
        ELSE IF ws # {} /\ given.backPropagate THEN log[i][Max(first)].value
        ELSE NULL

LastPhase(c, n) == [clock |-> c, cycle |-> n, division |-> given.divisions[c] - 1]

(* The ends of the cycles of the clocks that have started, other clocks    *)
(* being between two cycles too: of each cycle the heap keeps one value.   *)
Asked ==
    LET Started == {c \in Clocks : currentCycle[c] # -1}
        ends == UNION {{LastPhase(c, n) : n \in given.start[c] .. MaxCycle} : c \in Started}
        Within(q, c, n) == /\ toLCM(q) < toLCM(LastPhase(c, n))
                           /\ toLCM(q) >= toLCM([LastPhase(c, n) EXCEPT !.division = 0])
    IN  {q \in ends : \A c \in Started, n \in 0 .. MaxCycle : ~Within(q, c, n)}

(* For every cycle, past and present, a tag of an item reads as the trace  *)
(* last said by the end of that cycle, through the entries overwritten,    *)
(* left out and never compressed, and the dictionaries that changed since  *)
(* (newTag, getTagById).                                                   *)
ReadsAsWritten ==
    \A i \in Items, t \in PlainTags, q \in Asked : getTagById(i, t, q) = Written(i, t, q)

(* A tag is marked mutable exactly when the heap has more than one value   *)
(* of it for the item, and on all of them: what the dialog of a tag shows  *)
(* (newTag, TagDialogImpl.cpp:117).                                        *)
MutableKnown ==
    \A i \in Items, t \in PlainTags :
        LET ks == OfTag(itemVector[i], t)
        IN  \A k \in ks : NodeAt(PlacesOf(i)[k]).isMutable = (Cardinality(ks) > 1)
=============================================================================
