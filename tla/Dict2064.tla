------------------------------ MODULE Dict2064 ------------------------------
(***************************************************************************)
(* The value dictionaries of the Dreams database (dDB/Dict2064.{h,cpp},    *)
(* dDB/Hash6431.h).  Tag values are 64 bits wide; the heaps store a 20 bit *)
(* key instead.  A dictionary holds at most MAXKEY values, so a trace uses *)
(* a sequence of them; keys are reused from one dictionary to the next and *)
(* the cycle of an entry tells which dictionary its key belongs to.  Every *)
(* clock domain goes through the same sequence at its own pace.            *)
(*                                                                         *)
(* The caller is part of the module: DBListener announces cycles and       *)
(* swaps dictionaries (Cycle), the heaps ask for keys while a cycle of a   *)
(* clock is current (Store).  Cycles are relative to the first cycle of    *)
(* their clock, as allocNewDict receives them.                             *)
(***************************************************************************)
EXTENDS Integers, FiniteSets

CONSTANTS
    Clocks,       \* clock domains of the trace
    Values,       \* 64 bit tag values
    Watched,      \* the values whose entries the history follows
    NULL,         \* the null pointer, and the content of a fresh array
    MAXDICT,      \* DICT2064_MAXDICT
    MAXKEY,       \* DICT2064_MAXKEY
    MAXKEYDELTA,  \* DICT2064_MAXKEYDELTA
    MaxFresh,     \* bound: new values one clock domain stores in one cycle
    MaxCycle      \* bound: cycles a clock domain runs

ASSUME ClocksAssumption == IsFiniteSet(Clocks) /\ Clocks # {}
ASSUME WatchedAssumption == Watched \subseteq Values
ASSUME SizesAssumption ==
    /\ MAXDICT \in Nat \ {0}
    /\ MAXKEY \in Nat /\ MAXKEYDELTA \in Nat /\ MAXKEYDELTA <= MAXKEY
    /\ MaxFresh \in Nat /\ MaxCycle \in Nat
ASSUME NullAssumption ==
    /\ NULL \notin Values \cup Int
    /\ NULL \notin [Values -> Int]
    /\ NULL \notin [0..MAXKEY -> Values \cup {NULL}]

VARIABLES
    next_dict,      \* per clock: first dictionary it has not entered
    alloc_new_dict, \* per clock: it wants the next dictionary
    current_dict,   \* per clock: dictionary whose hash it looks values up in
    first,          \* Dict2064Node::cycle, per dictionary and clock
    dict_values,    \* Dict2064Node::dict_values, key -> value
    next_key,       \* Dict2064Node::next_key
    dict,           \* Dict2064Node::dict, the hash: value -> key
    counter,        \* Dict2064Node::counter
    now,            \* per clock: cycle announced last, -1 before the first
    fresh,          \* per clock: values it added in that cycle
    entries         \* history: the entries of watched values the heaps stored

nodeVars  == <<first, dict_values, next_key, dict, counter>>
clockVars == <<next_dict, alloc_new_dict, current_dict>>
envVars   == <<now, fresh, entries>>
vars      == <<clockVars, nodeVars, envVars>>

Dicts == 0 .. MAXDICT - 1
NoKey == -1                  \* Hash6431::find did not find the value
EmptyHashM == [v \in Values |-> 0]             \* mutant: buckets not cleared
EmptyHash == [v \in Values |-> NoKey]
Entries == [clock : Clocks, cycle : 0..MaxCycle, key : 0..MAXKEY, value : Watched]

TypeOK ==
    /\ next_dict \in [Clocks -> 1..MAXDICT]
    /\ alloc_new_dict \in [Clocks -> BOOLEAN]
    /\ current_dict \in [Clocks -> Dicts \cup {NULL}]
    /\ first \in [Dicts -> [Clocks -> Nat]]
    /\ dict_values \in [Dicts -> [0..MAXKEY -> Values \cup {NULL}] \cup {NULL}]
    /\ next_key \in [Dicts -> 0..MAXKEY+1]
    /\ dict \in [Dicts -> [Values -> Int] \cup {NULL}]
    /\ counter \in [Dicts -> Int]
    /\ now \in [Clocks -> -1..MaxCycle]
    /\ fresh \in [Clocks -> Nat]
    /\ entries \in SUBSET Entries

(* next_dict[clock_id]++, once the clock entered dictionary n.             *)
EnteredM(n) == n                              \* mutant: not incremented
Entered(n) == n + 1

(***************************************************************************)
(* startDict, called once by DBListener::StartActivity: every clock domain *)
(* enters dictionary 0.  The loop over the clocks allocates it for the     *)
(* first one and shares it with the others.                                *)
(***************************************************************************)
Init ==
    /\ next_dict = [c \in Clocks |-> Entered(0)]
    /\ alloc_new_dict = [c \in Clocks |-> FALSE]
    /\ current_dict = [c \in Clocks |-> 0]
    /\ first = [d \in Dicts |-> [c \in Clocks |-> 0]]
    /\ dict_values =
           [d \in Dicts |-> IF d = 0 THEN [k \in 0..MAXKEY |-> NULL] ELSE NULL]
    /\ next_key = [d \in Dicts |-> 0]
    /\ dict = [d \in Dicts |-> IF d = 0 THEN EmptyHash ELSE NULL]
    /\ counter = [d \in Dicts |-> Cardinality(Clocks)]
    /\ now = [c \in Clocks |-> -1]
    /\ fresh = [c \in Clocks |-> 0]
    /\ entries = {}

-----------------------------------------------------------------------------
(* Dict2064Node::detach on a node whose hash is h and counter n.           *)
DetachedFirst(h, n) == NULL                   \* mutant: counter ignored
DetachedNever(h, n) == IF n = 0 THEN NULL ELSE h  \* mutant: tested before --
Detached(h, n) == IF n - 1 = 0 THEN NULL ELSE h

(* Nobody allocated dictionary n yet.                                      *)
IsNewM(n) == TRUE                             \* mutant: every clock allocates
IsNew(n) == dict_values[n] = NULL

(***************************************************************************)
(* allocNewDict: clock c enters the next dictionary, valid from `cycle`    *)
(* on.  The first clock to get there allocates it; the last clock to leave *)
(* the previous one frees its hash.  The code has no test of MAXDICT: the  *)
(* guard bounds the model, beyond it the code writes outside dict_vec.     *)
(***************************************************************************)
allocNewDict(cycle, c) ==
    LET n == next_dict[c]
        created == IsNew(n)
        hash == IF created THEN EmptyHash ELSE dict[n]
    IN  /\ n < MAXDICT
        /\ dict_values' = IF created
                          THEN [dict_values EXCEPT ![n] = [k \in 0..MAXKEY |-> NULL]]
                          ELSE dict_values
        /\ dict' = [dict EXCEPT ![n] = hash,
                                ![n-1] = Detached(dict[n-1], counter[n-1])]
        /\ counter' = [counter EXCEPT ![n-1] = @ - 1]
        /\ first' = [first EXCEPT ![n][c] = cycle]
        /\ current_dict' = [current_dict EXCEPT ![c] = n]
        /\ next_dict' = [next_dict EXCEPT ![c] = Entered(n)]
        /\ alloc_new_dict' = [alloc_new_dict EXCEPT ![c] = FALSE]
        /\ UNCHANGED next_key

(* The part of DBListener::Cycle the dictionaries see: the swap happens in *)
(* phase 0 only, so that the phases of a cycle share a dictionary.         *)
Cycle(c, cycle, phase) ==
    /\ now' = [now EXCEPT ![c] = cycle]
    /\ fresh' = IF cycle = now[c] THEN fresh ELSE [fresh EXCEPT ![c] = 0]
    /\ IF alloc_new_dict[c] /\ phase = 0
       THEN allocNewDict(cycle, c)
       ELSE UNCHANGED <<clockVars, nodeVars>>
    /\ UNCHANGED entries

(* A new cycle starts with its phase 0; the guard is the test of Cycle     *)
(* against currentCycle, strict because the cycle is new.                  *)
NewCycle(c) ==
    \E cycle \in 0..MaxCycle : cycle > now[c] /\ Cycle(c, cycle, 0)

(* The second phase of the current cycle.                                  *)
NewPhase(c) == now[c] >= 0 /\ Cycle(c, now[c], 1)

(* The value is in the hash of the clock's dictionary: its key is reused.  *)
FoundKey(v, c, key) ==
    /\ key = dict[current_dict[c]][v]
    /\ key # NoKey
    /\ UNCHANGED <<clockVars, nodeVars, fresh>>

(* getKeyFor asks for the next dictionary when few keys are left.          *)
NearlyFullM(d) == next_key[d] >= MAXKEY       \* mutant: no margin
NearlyFull(d) == next_key[d] >= MAXKEY - MAXKEYDELTA

(* The value is new: it gets the next key of the dictionary.  Q_ASSERT     *)
(* stops nothing in a release build, so key MAXKEY is given out too; with  *)
(* next_key above MAXKEY the code writes outside dict_values.              *)
InsertKey(v, c, key) ==
    LET d == next_dict[c] - 1
        h == current_dict[c]
    IN  /\ dict[h][v] = NoKey
        /\ key = next_key[d] /\ key <= MAXKEY
        /\ fresh[c] < MaxFresh
        /\ alloc_new_dict' = [alloc_new_dict EXCEPT
               ![c] = @ \/ NearlyFull(d)]
        /\ next_key' = [next_key EXCEPT ![d] = @ + 1]
        /\ dict_values' = [dict_values EXCEPT ![d][key] = v]
        /\ dict' = [dict EXCEPT ![h][v] = key]
        /\ fresh' = [fresh EXCEPT ![c] = @ + 1]
        /\ UNCHANGED <<next_dict, current_dict, first, counter>>

(* getKeyFor, for the clock whose cycle is current, by a heap that keeps   *)
(* the key with the cycle.  No value is stored once clearDict ran.         *)
Store(v, c) ==
    /\ now[c] >= 0
    /\ current_dict[c] # NULL
    /\ dict[current_dict[c]] # NULL
    /\ \E key \in 0..MAXKEY :
          /\ FoundKey(v, c, key) \/ InsertKey(v, c, key)
          /\ entries' = IF v \in Watched
                 THEN entries \cup
                      {[clock |-> c, cycle |-> now[c], key |-> key, value |-> v]}
                 ELSE entries
    /\ UNCHANGED now

(* clearDict, called by Dreams::loadFinish once the trace is loaded.       *)
clearDict ==
    /\ dict' = [d \in Dicts |-> NULL]
    /\ current_dict' = [c \in Clocks |-> NULL]
    /\ UNCHANGED <<next_dict, alloc_new_dict, first, dict_values, next_key,
                   counter, envVars>>

(* The dictionary getValueByCycle stops at: the last one before the first  *)
(* whose first cycle for this clock is later than the entry's.             *)
DictOfM(cycle, c) == next_dict[c] - 1         \* mutant: the newest dictionary
DictOf(cycle, c) ==
    CHOOSE d \in 0 .. next_dict[c] - 1 :
        /\ \A e \in 0..d : first[e][c] <= cycle
        /\ d + 1 < next_dict[c] => first[d+1][c] > cycle

getValueByCycle(key, cycle, c) == dict_values[DictOf(cycle, c)][key]

-----------------------------------------------------------------------------
cleared == \A c \in Clocks : current_dict[c] = NULL

Next ==
    \/ \E c \in Clocks : ~cleared /\ (NewCycle(c) \/ NewPhase(c))
    \/ \E c \in Clocks, v \in Values : Store(v, c)
    \/ clearDict

Spec == Init /\ [][Next]_vars

-----------------------------------------------------------------------------
(* Every stored entry reads back as the value that was stored, whatever    *)
(* dictionaries its clock and the others went through since: what the      *)
(* views rely on when they resolve the key of a node (getValueByCycle).    *)
ReadBack ==
    \A e \in entries : getValueByCycle(e.key, e.cycle, e.clock) = e.value

(* Until clearDict, the hash a clock looks values up in is allocated and   *)
(* belongs to the last dictionary that clock entered: the counter of a     *)
(* node never frees a hash another clock still points to (detach).         *)
NoDanglingDict ==
    ~cleared => \A c \in Clocks :
        /\ current_dict[c] = next_dict[c] - 1
        /\ dict[current_dict[c]] # NULL

(* A live hash and the array of its node agree, so a found key denotes the *)
(* looked up value (getKeyFor fills both).                                 *)
HashMatchesValues ==
    \A d \in Dicts : dict[d] # NULL =>
        \A v \in Values : dict[d][v] # NoKey => dict_values[d][dict[d][v]] = v

(* A hash nobody uses any more is freed: memory stays bounded (detach).    *)
AbandonedDictFreed ==
    \A d \in Dicts :
        (\A c \in Clocks : next_dict[c] > d + 1) => dict[d] = NULL

(* The assertion of getKeyFor: a dictionary never runs out of keys before  *)
(* every clock domain has left it.                                         *)
KeysSuffice == \A d \in Dicts : next_key[d] <= MAXKEY

(* A clock never goes back to an earlier dictionary, and what a dictionary *)
(* holds under a key it gave out never changes.                            *)
KeysAreStable ==
    [][/\ \A c \in Clocks : next_dict'[c] >= next_dict[c]
       /\ \A d \in Dicts : \A k \in 0 .. next_key[d] - 1 :
             k <= MAXKEY => dict_values'[d][k] = dict_values[d][k]]_vars

(* What the dictionaries stand for: the cycles each clock entered them in, *)
(* and the values each holds.                                              *)
entered == [c \in Clocks |-> [n \in 1 .. next_dict[c] |-> first[n-1][c]]]
contents == [d \in Dicts |-> IF dict_values[d] = NULL THEN <<>>
                             ELSE [k \in 1 .. next_key[d] |-> dict_values[d][k-1]]]

Abstract == INSTANCE TagDict WITH Cycles <- 0 .. MaxCycle, Keys <- 0 .. MAXKEY

(* Dict2064 implements TagDict: the shared hashes, the clocks that come    *)
(* and go and the freed dictionaries add up to lists of values that only   *)
(* grow (allocNewDict, getKeyFor).                                         *)
ImplementsTagDict == Abstract!DictSpec
=============================================================================
