------------------------------ MODULE TagDict -------------------------------
(***************************************************************************)
(* What the dictionaries promise, whatever stores them: one list of        *)
(* dictionaries, each a list of values that only grows, and every clock    *)
(* going through it at its own pace.  A value is stored as its place in    *)
(* the dictionary its clock is in, and found again from the place and the  *)
(* cycle.  Dict2064 implements this; ItemHeap stores its tags with it.     *)
(***************************************************************************)
EXTENDS Integers, Sequences

CONSTANTS
    Clocks,   \* clock domains of the trace
    Values,   \* 64 bit tag values
    Cycles,   \* cycles, relative to the first of their clock
    Keys,     \* keys: places in a dictionary
    MAXDICT   \* DICT2064_MAXDICT

VARIABLES
    entered,  \* per clock: the cycles it entered dictionaries 0, 1, ... at
    contents  \* per dictionary: its values, the one of key k at k + 1

dictVars == <<entered, contents>>

DictInit ==
    /\ entered = [c \in Clocks |-> <<0>>]
    /\ contents = [d \in 0 .. MAXDICT - 1 |-> <<>>]

(* The dictionary clock c is in.                                           *)
current(c) == Len(entered[c]) - 1

(* The dictionary clock c was in at a cycle.                               *)
DictAt(cycle, c) ==
    CHOOSE d \in 0 .. current(c) :
        /\ \A e \in 0 .. d : entered[c][e+1] <= cycle
        /\ d < current(c) => entered[c][d+2] > cycle

(* allocNewDict                                                            *)
NextDict(c, cycle) ==
    /\ current(c) < MAXDICT - 1
    /\ entered' = [entered EXCEPT ![c] = Append(@, cycle)]
    /\ UNCHANGED contents

(* getKeyFor                                                               *)
KeyFor(v, c, key) ==
    LET vs == contents[current(c)]
    IN  /\ UNCHANGED entered
        /\ \/ /\ key + 1 \in DOMAIN vs /\ vs[key + 1] = v
              /\ UNCHANGED contents
           \/ /\ v \notin {vs[k] : k \in DOMAIN vs} /\ key = Len(vs)
              /\ contents' = [contents EXCEPT ![current(c)] = Append(vs, v)]

(* getValueByCycle                                                         *)
ValueByCycle(key, cycle, c) == contents[DictAt(cycle, c)][key + 1]

DictNext ==
    \E c \in Clocks :
        \/ \E cycle \in Cycles : NextDict(c, cycle)
        \/ \E v \in Values, key \in Keys : KeyFor(v, c, key)

DictSpec == DictInit /\ [][DictNext]_dictVars
=============================================================================
