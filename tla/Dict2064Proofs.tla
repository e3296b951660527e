--------------------------- MODULE Dict2064Proofs ---------------------------
(* Proofs about Dict2064, for any clocks, values and dictionary sizes.     *)
EXTENDS Dict2064, Sequences, FiniteSetTheorems, TLAPS

-----------------------------------------------------------------------------
(* The inductive invariant.                                                *)

(* The clocks that have not left dictionary d, entered or not.             *)
Users(d) == {c \in Clocks : next_dict[c] <= d + 1}

(* A dictionary some clock entered is allocated; no key of a dictionary    *)
(* was given out before that.                                              *)
AllocatedOK ==
    /\ \A c \in Clocks, d \in Dicts : d < next_dict[c] => dict_values[d] # NULL
    /\ \A d \in Dicts : dict_values[d] = NULL => next_key[d] = 0

CounterOK == \A d \in Dicts : counter[d] = Cardinality(Users(d))

(* Which hashes exist: all of those in use, or none after clearDict.       *)
HashesOK ==
    \/ /\ \A c \in Clocks : current_dict[c] = NULL
       /\ \A d \in Dicts : dict[d] = NULL
    \/ /\ \A c \in Clocks : current_dict[c] = next_dict[c] - 1
       /\ \A d \in Dicts :
             dict[d] # NULL <=> dict_values[d] # NULL /\ Users(d) # {}

(* A found key was given out for the value looked up.                      *)
KeysOK ==
    \A d \in Dicts : dict[d] # NULL =>
        \A v \in Values : dict[d][v] # NoKey =>
            /\ dict[d][v] \in 0 .. next_key[d] - 1
            /\ dict[d][v] <= MAXKEY
            /\ dict_values[d][dict[d][v]] = v

FirstOK ==
    \A c \in Clocks, d \in Dicts :
        d < next_dict[c] => first[d][c] = 0 \/ first[d][c] <= now[c]

(* Entry e was stored while its clock was in dictionary d.                 *)
StoredIn(e, d) ==
    /\ d < next_dict[e.clock]
    /\ e.key < next_key[d]
    /\ dict_values[d][e.key] = e.value
    /\ \A x \in 0..d : first[x][e.clock] <= e.cycle
    /\ d + 1 < next_dict[e.clock] => first[d+1][e.clock] > e.cycle

EntriesOK ==
    \A e \in entries :
        e.cycle <= now[e.clock] /\ \E d \in Dicts : StoredIn(e, d)

DictInv == /\ TypeOK
           /\ AllocatedOK
           /\ CounterOK
           /\ HashesOK
           /\ KeysOK
           /\ FirstOK

IInv == DictInv /\ EntriesOK

-----------------------------------------------------------------------------
LEMMA InitIInv == Init => IInv
<1> SUFFICES ASSUME Init PROVE IInv
  OBVIOUS
<1> USE DEF Dicts, NoKey
<1>1. TypeOK
  <2>1. Cardinality(Clocks) \in Int
    BY ClocksAssumption, FS_CardinalityType
  <2>2. EmptyHash \in [Values -> Int]
    BY DEF EmptyHash
  <2>3. QED
    BY <2>1, <2>2, SizesAssumption, NullAssumption DEF Init, TypeOK, Entered
<1>2. AllocatedOK
  BY NullAssumption, SizesAssumption DEF Init, AllocatedOK, Entered
<1>3. ASSUME NEW d \in Dicts PROVE Users(d) = Clocks
  BY <1>3 DEF Init, Users, Entered
<1>4. CounterOK
  BY <1>3 DEF Init, CounterOK
<1>5. HashesOK
  <2>1. EmptyHash # NULL /\ [k \in 0..MAXKEY |-> NULL] # NULL
    BY NullAssumption DEF EmptyHash
  <2>2. QED
    BY <1>3, <2>1, ClocksAssumption DEF Init, HashesOK, Entered
<1>6. KeysOK
  BY DEF Init, KeysOK, EmptyHash
<1>7. FirstOK
  BY DEF Init, FirstOK, Entered
<1>8. EntriesOK
  BY DEF Init, EntriesOK
<1>9. QED
  BY <1>1, <1>2, <1>4, <1>5, <1>6, <1>7, <1>8 DEF IInv, DictInv

-----------------------------------------------------------------------------
(* A clock enters its next dictionary at a cycle later than its last one.  *)
LEMMA AllocIInv ==
    ASSUME IInv, NEW c \in Clocks, NEW cycle \in 0..MaxCycle, cycle > now[c],
           ~cleared, allocNewDict(cycle, c),
           now' = [now EXCEPT ![c] = cycle], fresh' \in [Clocks -> Nat],
           entries' = entries
    PROVE  IInv'
<1> DEFINE n == next_dict[c]
<1>0. TypeOK /\ AllocatedOK /\ CounterOK /\ HashesOK /\ KeysOK /\ FirstOK /\ EntriesOK
  BY DEF IInv, DictInv
<1>a1. n < MAXDICT /\ next_key' = next_key
  BY DEF allocNewDict, IsNew, Entered
<1>a2. dict_values' = IF dict_values[n] = NULL
                      THEN [dict_values EXCEPT ![n] = [k \in 0..MAXKEY |-> NULL]]
                      ELSE dict_values
  BY DEF allocNewDict, IsNew, Entered
<1>a3. dict' = [dict EXCEPT
             ![n] = IF dict_values[n] = NULL THEN EmptyHash ELSE dict[n],
             ![n-1] = Detached(dict[n-1], counter[n-1])]
  BY DEF allocNewDict, IsNew, Entered
<1>a4. counter' = [counter EXCEPT ![n-1] = counter[n-1] - 1]
  BY DEF allocNewDict, IsNew, Entered
<1>a5. first' = [first EXCEPT ![n][c] = cycle]
  BY DEF allocNewDict, IsNew, Entered
<1>a6. /\ current_dict' = [current_dict EXCEPT ![c] = n]
       /\ next_dict' = [next_dict EXCEPT ![c] = n + 1]
       /\ alloc_new_dict' = [alloc_new_dict EXCEPT ![c] = FALSE]
  BY DEF allocNewDict, IsNew, Entered
<1>t1. /\ next_dict \in [Clocks -> 1..MAXDICT]
       /\ alloc_new_dict \in [Clocks -> BOOLEAN]
       /\ current_dict \in [Clocks -> Dicts \cup {NULL}]
       /\ now \in [Clocks -> Int]
  BY <1>0, SizesAssumption DEF TypeOK
<1>t2. dict_values \in [Dicts -> [0..MAXKEY -> Values \cup {NULL}] \cup {NULL}]
  BY <1>0 DEF TypeOK
<1>t3. dict \in [Dicts -> [Values -> Int] \cup {NULL}]
  BY <1>0 DEF TypeOK
<1>t4. first \in [Dicts -> [Clocks -> Nat]]
  BY <1>0 DEF TypeOK
<1>t5. counter \in [Dicts -> Int] /\ next_key \in [Dicts -> 0..MAXKEY+1]
  BY <1>0 DEF TypeOK
<1>b. n \in 1..MAXDICT
  BY <1>t1
<1> HIDE DEF n
<1>1. n \in 1 .. MAXDICT-1 /\ n \in Dicts /\ n - 1 \in Dicts /\ n - 1 # n
  BY <1>a1, <1>b, SizesAssumption DEF Dicts
<1>2. EmptyHash \in [Values -> Int] /\ EmptyHash # NULL
  BY NullAssumption DEF EmptyHash, NoKey
<1>3. [k \in 0..MAXKEY |-> NULL] \in [0..MAXKEY -> Values \cup {NULL}]
  OBVIOUS
<1>4. [k \in 0..MAXKEY |-> NULL] # NULL
  BY <1>3, NullAssumption
<1>5. /\ next_dict'[c] = n + 1 /\ next_dict[c] = n
      /\ current_dict'[c] = n
      /\ \A x \in Clocks : x # c => /\ next_dict'[x] = next_dict[x]
                                    /\ current_dict'[x] = current_dict[x]
                                    /\ now'[x] = now[x]
      /\ now'[c] = cycle
  BY <1>a6, <1>t1 DEF n
<1>6. /\ dict_values'[n] # NULL
      /\ dict_values[n] # NULL => dict_values'[n] = dict_values[n]
      /\ \A d \in Dicts : d # n => dict_values'[d] = dict_values[d]
  BY <1>a2, <1>t2, <1>1, <1>4
<1>7. /\ \A x \in Clocks, d \in Dicts :
             (x # c \/ d # n) => first'[d][x] = first[d][x]
      /\ first'[n][c] = cycle
  BY <1>a5, <1>t4, <1>1
<1>8. TypeOK'
  <2>1. /\ next_dict' \in [Clocks -> 1..MAXDICT]
        /\ alloc_new_dict' \in [Clocks -> BOOLEAN]
        /\ current_dict' \in [Clocks -> Dicts \cup {NULL}]
    BY <1>a6, <1>t1, <1>1, SizesAssumption
  <2>2. dict_values' \in [Dicts -> [0..MAXKEY -> Values \cup {NULL}] \cup {NULL}]
    BY <1>a2, <1>t2, <1>1, <1>3
  <2>3. dict' \in [Dicts -> [Values -> Int] \cup {NULL}]
    <3>1. Detached(dict[n-1], counter[n-1]) \in [Values -> Int] \cup {NULL}
      BY <1>t3, <1>1 DEF Detached
    <3>2. QED
      BY <1>a3, <1>t3, <1>1, <1>2, <3>1
  <2>4. counter' \in [Dicts -> Int] /\ next_key' \in [Dicts -> 0..MAXKEY+1]
    BY <1>a1, <1>a4, <1>t5, <1>1
  <2>5. first' \in [Dicts -> [Clocks -> Nat]]
    BY <1>a5, <1>t4, <1>1, SizesAssumption
  <2>6. now' \in [Clocks -> -1..MaxCycle]
    BY <1>0, SizesAssumption DEF TypeOK
  <2>7. entries' \in SUBSET Entries
    BY <1>0 DEF TypeOK
  <2>8. QED
    BY <2>1, <2>2, <2>3, <2>4, <2>5, <2>6, <2>7 DEF TypeOK
<1>9. AllocatedOK'
  <2>1. ASSUME NEW x \in Clocks, NEW d \in Dicts, d < next_dict'[x]
        PROVE  dict_values'[d] # NULL
    <3>1. d # n => d < next_dict[x]
      BY <2>1, <1>1, <1>5, <1>t1 DEF Dicts
    <3>2. QED
      BY <3>1, <1>0, <1>1, <1>6 DEF AllocatedOK
  <2>2. ASSUME NEW d \in Dicts, dict_values'[d] = NULL PROVE next_key'[d] = 0
    BY <2>2, <1>0, <1>1, <1>6, <1>a1 DEF AllocatedOK
  <2>3. QED
    BY <2>1, <2>2 DEF AllocatedOK
<1>10. /\ \A d \in Dicts : d = n-1 => c \in Users(d) /\ Users(d)' = Users(d) \ {c}
       /\ \A d \in Dicts : d # n-1 => Users(d)' = Users(d)
       /\ \A d \in Dicts : d = n => c \in Users(d)
  <2>1. ASSUME NEW d \in Dicts, NEW x \in Clocks, d # n-1 \/ x # c
        PROVE  next_dict'[x] <= d + 1 <=> next_dict[x] <= d + 1
    BY <2>1, <1>1, <1>5, <1>t1, SizesAssumption DEF Dicts
  <2>2. /\ \A d \in Dicts : d = n-1 => ~(next_dict'[c] <= d + 1)
        /\ \A d \in Dicts : d \in {n-1, n} => next_dict[c] <= d + 1
    BY <1>1, <1>5
  <2>3. QED
    BY <2>1, <2>2 DEF Users
<1>11. \A d \in Dicts : IsFiniteSet(Users(d)) /\ Cardinality(Users(d)) \in Nat
  BY ClocksAssumption, FS_Subset, FS_CardinalityType DEF Users
<1>12. \A d \in Dicts : d = n-1 =>
          /\ IsFiniteSet(Users(d)')
          /\ Cardinality(Users(d)') = Cardinality(Users(d)) - 1
  BY <1>10, <1>11, FS_RemoveElement
<1>13. CounterOK'
  <2>1. SUFFICES ASSUME NEW d \in Dicts PROVE counter'[d] = Cardinality(Users(d)')
    BY DEF CounterOK
  <2>2. CASE d = n-1
    BY <2>2, <1>12, <1>a4, <1>t5, <1>0 DEF CounterOK
  <2>3. CASE d # n-1
    BY <2>3, <1>1, <1>10, <1>a4, <1>t5, <1>0 DEF CounterOK
  <2>4. QED
    BY <2>2, <2>3
<1>14. /\ \A x \in Clocks : current_dict[x] = next_dict[x] - 1
       /\ \A d \in Dicts :
             dict[d] # NULL <=> dict_values[d] # NULL /\ Users(d) # {}
  BY <1>0 DEF HashesOK, cleared
<1>15. dict'[n] = IF dict_values[n] = NULL THEN EmptyHash ELSE dict[n]
  BY <1>1, <1>a3, <1>t3
<1>16. dict'[n-1] = Detached(dict[n-1], counter[n-1])
  BY <1>1, <1>a3, <1>t3
<1>17. \A d \in Dicts : d # n /\ d # n-1 => dict'[d] = dict[d]
  BY <1>1, <1>a3, <1>t3
<1>18. HashesOK'
  <2>1. \A x \in Clocks : current_dict'[x] = next_dict'[x] - 1
    BY <1>1, <1>14, <1>5
  <2>2. dict'[n] # NULL
    BY <1>1, <1>2, <1>10, <1>14, <1>15
  <2>3. dict_values[n-1] # NULL
    BY <1>1, <1>5, <1>0 DEF AllocatedOK
  <2>4. dict[n-1] # NULL
    BY <2>3, <1>1, <1>10, <1>14
  <2>5. ASSUME NEW d \in Dicts, d = n-1
        PROVE  dict'[d] # NULL <=> Users(d)' # {}
    <3>1. counter[d] - 1 = Cardinality(Users(d)')
      BY <2>5, <1>0, <1>12 DEF CounterOK
    <3>2. Cardinality(Users(d)') = 0 <=> Users(d)' = {}
      BY <2>5, <1>12, FS_EmptySet
    <3>3. QED
      BY <1>16, <2>4, <2>5, <3>1, <3>2 DEF Detached
  <2>6. ASSUME NEW d \in Dicts
        PROVE  dict'[d] # NULL <=> dict_values'[d] # NULL /\ Users(d)' # {}
    <3>1. CASE d = n
      <4>1. Users(d)' # {}
        BY <3>1, <1>1, <1>10
      <4>2. QED
        BY <3>1, <4>1, <1>6, <2>2
    <3>2. CASE d = n-1
      BY <3>2, <1>1, <1>6, <2>5, <2>3
    <3>3. CASE d # n /\ d # n-1
      BY <3>3, <1>10, <1>14, <1>17, <1>6
    <3>4. QED
      BY <3>1, <3>2, <3>3
  <2>7. QED
    BY <2>1, <2>6 DEF HashesOK
<1>19. KeysOK'
  <2>1. SUFFICES ASSUME NEW d \in Dicts, dict'[d] # NULL,
                        NEW v \in Values, dict'[d][v] # NoKey
                 PROVE  /\ dict'[d][v] \in 0 .. next_key'[d] - 1
                        /\ dict'[d][v] <= MAXKEY
                        /\ dict_values'[d][dict'[d][v]] = v
    BY DEF KeysOK
  <2>2. dict'[d] = dict[d] /\ dict_values[d] # NULL
    <3>1. CASE d = n
      BY <3>1, <2>1, <1>1, <1>15, <1>14 DEF EmptyHash
    <3>2. CASE d = n-1
      BY <3>2, <2>1, <1>1, <1>14, <1>16 DEF Detached
    <3>3. CASE d # n /\ d # n-1
      BY <3>3, <2>1, <1>17, <1>14
    <3>4. QED
      BY <3>1, <3>2, <3>3
  <2>3. dict_values'[d] = dict_values[d]
    BY <2>2, <1>1, <1>6
  <2>4. QED
    BY <2>1, <2>2, <2>3, <1>0, <1>a1 DEF KeysOK
<1>20. FirstOK'
  <2>1. SUFFICES ASSUME NEW x \in Clocks, NEW d \in Dicts, d < next_dict'[x]
                 PROVE  first'[d][x] = 0 \/ first'[d][x] <= now'[x]
    BY DEF FirstOK
  <2>2. CASE x = c /\ d = n
    BY <2>2, <1>5, <1>7
  <2>3. CASE x # c \/ d # n
    <3>a. first'[d][x] = first[d][x]
      BY <2>3, <1>7
    <3>b. x # c => d < next_dict[x]
      BY <2>1, <1>5
    <3>c. x = c => d < n + 1 /\ d # n /\ next_dict[x] = n
      BY <2>1, <2>3, <1>5
    <3>d. d \in Int /\ n \in Int
      BY <1>b, SizesAssumption DEF Dicts
    <3>1. d < next_dict[x] /\ first'[d][x] = first[d][x]
      BY <3>a, <3>b, <3>c, <3>d
    <3>2. first[d][x] = 0 \/ first[d][x] <= now[x]
      BY <3>1, <1>0 DEF FirstOK
    <3>3. now[x] <= now'[x] /\ now[x] \in Int /\ now'[x] \in Int /\ first[d][x] \in Nat
      BY <1>5, <1>t1, <1>t4
    <3>4. QED
      BY <3>1, <3>2, <3>3
  <2>4. QED
    BY <2>2, <2>3
<1>21. EntriesOK'
  <2>1. SUFFICES ASSUME NEW e \in entries
                 PROVE  e.cycle <= now'[e.clock] /\ \E d \in Dicts : StoredIn(e, d)'
    BY DEF EntriesOK
  <2>2. e.clock \in Clocks /\ e.cycle \in 0..MaxCycle
    BY <1>0 DEF TypeOK, Entries
  <2>3. e.cycle <= now[e.clock] /\ now[e.clock] \in Int
    BY <2>2, <1>0, <1>t1 DEF EntriesOK
  <2>4. e.cycle <= now'[e.clock]
    BY <2>2, <2>3, <1>5
  <2>5. PICK d \in Dicts : StoredIn(e, d)
    BY <1>0 DEF EntriesOK
  <2>6. /\ d < next_dict[e.clock]
        /\ e.key < next_key[d]
        /\ dict_values[d][e.key] = e.value
        /\ \A x \in 0..d : first[x][e.clock] <= e.cycle
        /\ d + 1 < next_dict[e.clock] => first[d+1][e.clock] > e.cycle
    BY <2>5 DEF StoredIn
  <2>7. dict_values'[d] = dict_values[d]
    BY <2>2, <2>6, <1>0, <1>6 DEF AllocatedOK
  <2>8. d < next_dict'[e.clock]
    BY <2>2, <2>6, <1>5, <1>1 DEF Dicts
  <2>9. \A x \in 0..d : x \in Dicts /\ (e.clock = c => x # n)
    BY <2>6, <1>1, <1>5, SizesAssumption DEF Dicts
  <2>10. \A x \in 0..d : first'[x][e.clock] <= e.cycle
    BY <2>2, <2>6, <2>9, <1>7
  <2>11. ASSUME d + 1 < next_dict'[e.clock] PROVE first'[d+1][e.clock] > e.cycle
    <3>1. CASE e.clock = c /\ d + 1 = n
      BY <3>1, <1>7, <2>2, <2>3
    <3>2. CASE ~(e.clock = c /\ d + 1 = n)
      <4>1. d + 1 < next_dict[e.clock] /\ next_dict[e.clock] \in 1..MAXDICT
        BY <3>2, <2>11, <2>2, <2>6, <1>1, <1>5, <1>t1 DEF Dicts
      <4>2. d + 1 \in Dicts
        BY <4>1, SizesAssumption DEF Dicts
      <4>3. QED
        BY <4>1, <4>2, <3>2, <2>2, <2>6, <1>7
    <3>3. QED
      BY <3>1, <3>2
  <2>12. StoredIn(e, d)'
    BY <2>6, <2>7, <2>8, <2>10, <2>11, <1>a1 DEF StoredIn
  <2>13. QED
    BY <2>4, <2>12
<1>22. QED
  BY <1>8, <1>9, <1>13, <1>18, <1>19, <1>20, <1>21 DEF IInv, DictInv

-----------------------------------------------------------------------------
(* The steps that leave the dictionaries alone: a cycle or a phase without *)
(* a swap, and a value found in the hash.                                  *)
LEMMA QuietIInv ==
    ASSUME IInv, UNCHANGED <<clockVars, nodeVars>>,
           now' \in [Clocks -> -1..MaxCycle], fresh' \in [Clocks -> Nat],
           entries' = entries,
           \A c \in Clocks : now'[c] >= now[c]
    PROVE  IInv'
<1>0. TypeOK /\ AllocatedOK /\ CounterOK /\ HashesOK /\ KeysOK /\ FirstOK /\ EntriesOK
  BY DEF IInv, DictInv
<1> USE DEF clockVars, nodeVars
<1>1. TypeOK'
  BY <1>0 DEF TypeOK
<1>2. AllocatedOK'
  BY <1>0 DEF AllocatedOK
<1>3. ASSUME NEW d \in Dicts PROVE Users(d)' = Users(d)
  BY DEF Users
<1>4. CounterOK'
  BY <1>0, <1>3 DEF CounterOK
<1>5. HashesOK'
  BY <1>0, <1>3 DEF HashesOK
<1>6. KeysOK'
  BY <1>0 DEF KeysOK
<1>7. FirstOK'
  <2>1. ASSUME NEW c \in Clocks, NEW d \in Dicts
        PROVE  now[c] \in Int /\ now'[c] \in Int /\ first[d][c] \in Nat
    BY <1>0, SizesAssumption DEF TypeOK
  <2>2. QED
    BY <1>0, <2>1 DEF FirstOK
<1>8. EntriesOK'
  <2>1. ASSUME NEW e \in entries
        PROVE  e.cycle <= now'[e.clock] /\ \E d \in Dicts : StoredIn(e, d)'
    <3>1. e.clock \in Clocks /\ e.cycle \in Int
      BY <1>0, SizesAssumption DEF TypeOK, Entries
    <3>2. now[e.clock] \in Int /\ now'[e.clock] \in Int
      BY <3>1, <1>0, SizesAssumption DEF TypeOK
    <3>3. e.cycle <= now'[e.clock]
      BY <3>1, <3>2, <1>0 DEF EntriesOK
    <3>4. PICK d \in Dicts : StoredIn(e, d)
      BY <1>0 DEF EntriesOK
    <3>5. StoredIn(e, d)'
      BY <3>4 DEF StoredIn
    <3>6. QED
      BY <3>3, <3>5
  <2>2. QED
    BY <2>1 DEF EntriesOK
<1>9. QED
  BY <1>1, <1>2, <1>4, <1>5, <1>6, <1>7, <1>8 DEF IInv, DictInv

(* What getKeyFor establishes when it returns key for value v of clock c,  *)
(* besides the invariant: the key denotes v in the clock's dictionary, and *)
(* the entries stored before are where they were.                          *)
KeyGiven(v, c, key) ==
    /\ DictInv'
    /\ \A e \in entries, d \in Dicts : StoredIn(e, d) => StoredIn(e, d)'
    /\ key < next_key'[next_dict[c] - 1]
    /\ dict_values'[next_dict[c] - 1][key] = v
    /\ next_dict' = next_dict /\ first' = first

(* A value that is already in the hash of the clock's dictionary.          *)
LEMMA FoundKeyGiven ==
    ASSUME IInv, NEW c \in Clocks, NEW v \in Values, NEW key \in 0..MAXKEY,
           current_dict[c] # NULL, dict[current_dict[c]] # NULL,
           FoundKey(v, c, key), now' = now, entries' \in SUBSET Entries
    PROVE  KeyGiven(v, c, key)
<1>0. TypeOK /\ AllocatedOK /\ CounterOK /\ HashesOK /\ KeysOK /\ FirstOK
  BY DEF IInv, DictInv
<1>1. current_dict[c] = next_dict[c] - 1
  BY <1>0 DEF HashesOK
<1>2. next_dict[c] - 1 \in Dicts /\ next_key[next_dict[c] - 1] \in Nat
  <2>1. next_dict \in [Clocks -> 1..MAXDICT] /\ next_key \in [Dicts -> 0..MAXKEY+1]
    BY <1>0 DEF TypeOK
  <2>2. QED
    BY <2>1, SizesAssumption DEF Dicts
<1>3. dict[next_dict[c] - 1][v] = key /\ key # NoKey /\ dict[next_dict[c] - 1] # NULL
  BY <1>1 DEF FoundKey
<1>4. key < next_key[next_dict[c] - 1] /\ dict_values[next_dict[c] - 1][key] = v
  BY <1>0, <1>2, <1>3 DEF KeysOK
<1>5. UNCHANGED <<clockVars, nodeVars, fresh, now>>
  BY DEF FoundKey
<1>6. \A x \in Dicts : Users(x)' = Users(x)
  BY <1>5 DEF Users, clockVars
<1>7. TypeOK'
  BY <1>0, <1>5 DEF TypeOK, clockVars, nodeVars
<1>8. AllocatedOK' /\ CounterOK' /\ HashesOK'
  BY <1>0, <1>5, <1>6 DEF AllocatedOK, CounterOK, HashesOK, clockVars, nodeVars
<1>9. KeysOK' /\ FirstOK'
  BY <1>0, <1>5 DEF KeysOK, FirstOK, clockVars, nodeVars
<1>10. \A e \in entries, d \in Dicts : StoredIn(e, d) => StoredIn(e, d)'
  BY <1>5 DEF StoredIn, clockVars, nodeVars
<1>11. QED
  BY <1>4, <1>5, <1>7, <1>8, <1>9, <1>10 DEF KeyGiven, DictInv, clockVars, nodeVars

(* A new value takes the next key of the clock's dictionary.               *)
LEMMA InsertKeyGiven ==
    ASSUME IInv, NEW c \in Clocks, NEW v \in Values, NEW key \in 0..MAXKEY,
           current_dict[c] # NULL, dict[current_dict[c]] # NULL,
           InsertKey(v, c, key), now' = now, entries' \in SUBSET Entries
    PROVE  KeyGiven(v, c, key)
<1> DEFINE d == next_dict[c] - 1
<1>0. TypeOK /\ AllocatedOK /\ CounterOK /\ HashesOK /\ KeysOK /\ FirstOK /\ EntriesOK
  BY DEF IInv, DictInv
<1>1. current_dict[c] = d
  BY <1>0 DEF HashesOK
<1>a1. /\ dict[d][v] = NoKey
       /\ key = next_key[d]
       /\ next_key' = [next_key EXCEPT ![d] = next_key[d] + 1]
  BY <1>1 DEF InsertKey, NearlyFull
<1>a2. dict_values' = [dict_values EXCEPT ![d][key] = v]
  BY DEF InsertKey, NearlyFull
<1>a3. dict' = [dict EXCEPT ![d][v] = key]
  BY <1>1 DEF InsertKey, NearlyFull
<1>a4. /\ next_dict' = next_dict /\ current_dict' = current_dict
       /\ first' = first /\ counter' = counter
  BY DEF InsertKey, NearlyFull
<1>a5. /\ alloc_new_dict' = [alloc_new_dict EXCEPT ![c] =
              alloc_new_dict[c] \/ next_key[d] >= MAXKEY - MAXKEYDELTA]
       /\ fresh' = [fresh EXCEPT ![c] = fresh[c] + 1]
  BY DEF InsertKey, NearlyFull
<1>2. next_dict[c] \in 1..MAXDICT /\ d \in Dicts /\ d < next_dict[c]
  <2>1. next_dict \in [Clocks -> 1..MAXDICT]
    BY <1>0 DEF TypeOK
  <2>2. QED
    BY <2>1, SizesAssumption DEF Dicts
<1> HIDE DEF d
<1>t1. /\ next_key \in [Dicts -> 0..MAXKEY+1]
       /\ alloc_new_dict \in [Clocks -> BOOLEAN] /\ fresh \in [Clocks -> Nat]
  BY <1>0 DEF TypeOK
<1>t2. dict_values \in [Dicts -> [0..MAXKEY -> Values \cup {NULL}] \cup {NULL}]
  BY <1>0 DEF TypeOK
<1>t3. dict \in [Dicts -> [Values -> Int] \cup {NULL}]
  BY <1>0 DEF TypeOK
<1>3. dict_values[d] \in [0..MAXKEY -> Values \cup {NULL}] /\ dict_values[d] # NULL
  BY <1>0, <1>2, <1>t2 DEF AllocatedOK
<1>4. dict[d] \in [Values -> Int] /\ dict[d] # NULL
  BY <1>1, <1>2, <1>t3
<1>5. /\ \A x \in Dicts : x # d => dict_values'[x] = dict_values[x]
      /\ dict_values'[d] = [dict_values[d] EXCEPT ![key] = v]
      /\ dict_values'[d] \in [0..MAXKEY -> Values \cup {NULL}]
  BY <1>a2, <1>2, <1>3, <1>t2
<1>6. /\ \A x \in Dicts : x # d => dict'[x] = dict[x]
      /\ dict'[d] = [dict[d] EXCEPT ![v] = key]
      /\ dict'[d] \in [Values -> Int]
  BY <1>a3, <1>2, <1>4, <1>t3, SizesAssumption
<1>7. dict'[d] # NULL /\ dict_values'[d] # NULL
  BY <1>5, <1>6, NullAssumption
<1>8. /\ \A x \in Dicts : x # d => next_key'[x] = next_key[x]
      /\ next_key'[d] = key + 1 /\ next_key[d] = key
  BY <1>a1, <1>2, <1>t1
<1>9. TypeOK'
  <2>1. dict_values' \in [Dicts -> [0..MAXKEY -> Values \cup {NULL}] \cup {NULL}]
    <3>1. dict_values' = [dict_values EXCEPT ![d] = [dict_values[d] EXCEPT ![key] = v]]
      BY <1>a2
    <3>2. [dict_values[d] EXCEPT ![key] = v] \in [0..MAXKEY -> Values \cup {NULL}]
      BY <1>3
    <3>3. QED
      BY <3>1, <3>2, <1>2, <1>t2
  <2>2. dict' \in [Dicts -> [Values -> Int] \cup {NULL}]
    <3>1. dict' = [dict EXCEPT ![d] = [dict[d] EXCEPT ![v] = key]]
      BY <1>a3
    <3>2. [dict[d] EXCEPT ![v] = key] \in [Values -> Int]
      BY <1>4, SizesAssumption
    <3>3. QED
      BY <3>1, <3>2, <1>2, <1>t3
  <2>3. next_key' \in [Dicts -> 0..MAXKEY+1]
    BY <1>a1, <1>t1, <1>2, SizesAssumption
  <2>4. alloc_new_dict' \in [Clocks -> BOOLEAN] /\ fresh' \in [Clocks -> Nat]
    BY <1>a5, <1>t1
  <2>5. QED
    BY <2>1, <2>2, <2>3, <2>4, <1>0, <1>a4 DEF TypeOK
<1>10. AllocatedOK'
  BY <1>0, <1>5, <1>7, <1>8, <1>a4, <1>2 DEF AllocatedOK
<1>11. \A x \in Dicts : Users(x)' = Users(x)
  BY <1>a4 DEF Users
<1>12. CounterOK'
  BY <1>0, <1>11, <1>a4 DEF CounterOK
<1>13. HashesOK'
  BY <1>0, <1>1, <1>4, <1>5, <1>6, <1>7, <1>3, <1>11, <1>a4, <1>2 DEF HashesOK
<1>14. KeysOK'
  <2>1. SUFFICES ASSUME NEW x \in Dicts, dict'[x] # NULL,
                        NEW w \in Values, dict'[x][w] # NoKey
                 PROVE  /\ dict'[x][w] \in 0 .. next_key'[x] - 1
                        /\ dict'[x][w] <= MAXKEY
                        /\ dict_values'[x][dict'[x][w]] = w
    BY DEF KeysOK
  <2>2. CASE x # d
    BY <2>1, <2>2, <1>0, <1>5, <1>6, <1>8 DEF KeysOK
  <2>3. CASE x = d /\ w = v
    BY <2>3, <1>3, <1>4, <1>5, <1>6, <1>8, SizesAssumption
  <2>4. CASE x = d /\ w # v
    <3>1. dict'[d][w] = dict[d][w] /\ dict[d][w] # NoKey
      BY <2>1, <2>4, <1>4, <1>6
    <3>2. /\ dict[d][w] \in 0 .. key - 1 /\ dict[d][w] <= MAXKEY
          /\ dict_values[d][dict[d][w]] = w
      BY <3>1, <1>0, <1>2, <1>4, <1>8 DEF KeysOK
    <3>3. dict_values'[d][dict[d][w]] = w
      BY <3>2, <1>3, <1>5, SizesAssumption
    <3>4. QED
      BY <2>4, <3>1, <3>2, <3>3, <1>8
  <2>5. QED
    BY <2>2, <2>3, <2>4
<1>15. FirstOK'
  BY <1>0, <1>a4 DEF FirstOK
<1>16. ASSUME NEW e \in entries, NEW x \in Dicts, StoredIn(e, x)
       PROVE  StoredIn(e, x)'
  <2>1. e.key \in 0..MAXKEY
    BY <1>0 DEF TypeOK, Entries
  <2>2. e.key < next_key'[x] /\ dict_values'[x][e.key] = e.value
    <3>1. CASE x = d
      BY <3>1, <1>16, <2>1, <1>3, <1>5, <1>8 DEF StoredIn
    <3>2. CASE x # d
      BY <3>2, <1>16, <1>5, <1>8 DEF StoredIn
    <3>3. QED
      BY <3>1, <3>2
  <2>3. QED
    BY <1>16, <2>2, <1>a4 DEF StoredIn
<1>17. DictInv'
  BY <1>9, <1>10, <1>12, <1>13, <1>14, <1>15 DEF DictInv
<1>18. key < next_key'[d] /\ dict_values'[d][key] = v
  BY <1>3, <1>5, <1>8, SizesAssumption
<1>19. QED
  BY <1>16, <1>17, <1>18, <1>a4 DEF d, KeyGiven

(* Storing a value: the entry belongs to the dictionary its clock is in.   *)
LEMMA StoreIInv ==
    ASSUME IInv, NEW c \in Clocks, NEW v \in Values, Store(v, c)
    PROVE  IInv'
<1> PICK key \in 0..MAXKEY :
          /\ FoundKey(v, c, key) \/ InsertKey(v, c, key)
          /\ entries' = IF v \in Watched
                 THEN entries \cup
                      {[clock |-> c, cycle |-> now[c], key |-> key, value |-> v]}
                 ELSE entries
  BY DEF Store
<1> PICK new : new = [clock |-> c, cycle |-> now[c], key |-> key, value |-> v]
  OBVIOUS
<1> PICK d : d = next_dict[c] - 1
  OBVIOUS
<1>0. TypeOK /\ FirstOK /\ EntriesOK
  BY DEF IInv, DictInv
<1>1. /\ now[c] >= 0 /\ now' = now
      /\ current_dict[c] # NULL /\ dict[current_dict[c]] # NULL
  BY DEF Store
<1>2. now[c] \in 0..MaxCycle
  BY <1>0, <1>1, SizesAssumption DEF TypeOK
<1>3. entries' \in SUBSET Entries
  BY <1>0, <1>2 DEF TypeOK, Entries
<1>4. KeyGiven(v, c, key)
  BY <1>1, <1>3, FoundKeyGiven, InsertKeyGiven
<1>5. d \in Dicts /\ d < next_dict[c] /\ next_dict[c] \in Nat
  <2>1. next_dict \in [Clocks -> 1..MAXDICT]
    BY <1>0 DEF TypeOK
  <2>2. QED
    BY <2>1, SizesAssumption DEF Dicts
<1>6. \A x \in 0..d : first[x][c] <= now[c]
  <2>1. ASSUME NEW x \in 0..d PROVE x \in Dicts /\ x < next_dict[c]
    BY <1>5, SizesAssumption DEF Dicts
  <2>2. QED
    BY <2>1, <1>0, <1>2, SizesAssumption DEF FirstOK
<1>7. StoredIn(new, d)'
  <2>1. d < next_dict'[c] /\ ~(d + 1 < next_dict'[c])
    BY <1>4, <1>5 DEF KeyGiven
  <2>2. \A x \in 0..d : first'[x][c] <= now[c]
    BY <1>4, <1>6 DEF KeyGiven
  <2>3. key < next_key'[d] /\ dict_values'[d][key] = v
    BY <1>4 DEF KeyGiven
  <2>4. new.clock = c /\ new.cycle = now[c] /\ new.key = key /\ new.value = v
    OBVIOUS
  <2>5. QED
    BY <2>1, <2>2, <2>3, <2>4, <1>1 DEF StoredIn
<1>8. EntriesOK'
  <2>1. ASSUME NEW e \in entries
        PROVE  e.cycle <= now'[e.clock] /\ \E x \in Dicts : StoredIn(e, x)'
    BY <1>0, <1>1, <1>4 DEF EntriesOK, KeyGiven
  <2>2. new.cycle <= now'[new.clock] /\ \E x \in Dicts : StoredIn(new, x)'
    BY <1>1, <1>2, <1>5, <1>7
  <2>3. \A e \in entries' : e \in entries \/ e = new
    OBVIOUS
  <2>4. QED
    BY <2>1, <2>2, <2>3 DEF EntriesOK
<1>9. QED
  BY <1>4, <1>8 DEF IInv, KeyGiven

(* clearDict drops the hashes and keeps the values.                        *)
LEMMA ClearIInv == ASSUME IInv, clearDict PROVE IInv'
<1>0. TypeOK /\ AllocatedOK /\ CounterOK /\ HashesOK /\ KeysOK /\ FirstOK /\ EntriesOK
  BY DEF IInv, DictInv
<1>1. /\ dict' = [d \in Dicts |-> NULL] /\ current_dict' = [c \in Clocks |-> NULL]
      /\ UNCHANGED <<next_dict, alloc_new_dict, first, dict_values, next_key,
                     counter, now, fresh, entries>>
  BY DEF clearDict, envVars
<1>2. TypeOK'
  BY <1>0, <1>1 DEF TypeOK
<1>3. \A d \in Dicts : Users(d)' = Users(d)
  BY <1>1 DEF Users
<1>4. AllocatedOK' /\ CounterOK' /\ FirstOK'
  BY <1>0, <1>1, <1>3 DEF AllocatedOK, CounterOK, FirstOK
<1>5. HashesOK' /\ KeysOK'
  BY <1>1 DEF HashesOK, KeysOK
<1>6. \A e \in entries, d \in Dicts : StoredIn(e, d) => StoredIn(e, d)'
  BY <1>1 DEF StoredIn
<1>7. EntriesOK'
  BY <1>0, <1>1, <1>6 DEF EntriesOK
<1>8. QED
  BY <1>2, <1>4, <1>5, <1>7 DEF IInv, DictInv

-----------------------------------------------------------------------------
LEMMA NextIInv == IInv /\ [Next]_vars => IInv'
<1> SUFFICES ASSUME IInv, [Next]_vars PROVE IInv'
  OBVIOUS
<1>0. now \in [Clocks -> -1..MaxCycle] /\ fresh \in [Clocks -> Nat]
  BY DEF IInv, DictInv, TypeOK
<1>1. ASSUME NEW c \in Clocks, ~cleared, NewCycle(c) PROVE IInv'
  <2> PICK cycle \in 0..MaxCycle : cycle > now[c] /\ Cycle(c, cycle, 0)
    BY <1>1 DEF NewCycle
  <2>1. /\ now' = [now EXCEPT ![c] = cycle]
        /\ fresh' = IF cycle = now[c] THEN fresh ELSE [fresh EXCEPT ![c] = 0]
        /\ entries' = entries
    BY DEF Cycle
  <2>2. /\ now' \in [Clocks -> -1..MaxCycle] /\ fresh' \in [Clocks -> Nat]
        /\ \A x \in Clocks : now'[x] >= now[x]
    BY <2>1, <1>0, SizesAssumption
  <2>3. CASE alloc_new_dict[c]
    BY <2>1, <2>2, <2>3, <1>1, AllocIInv DEF Cycle
  <2>4. CASE ~alloc_new_dict[c]
    BY <2>1, <2>2, <2>4, QuietIInv DEF Cycle
  <2>5. QED
    BY <2>3, <2>4
<1>2. ASSUME NEW c \in Clocks, NewPhase(c) PROVE IInv'
  <2>1. now' = now /\ fresh' = fresh /\ entries' = entries
    BY <1>2, <1>0 DEF NewPhase, Cycle
  <2>2. UNCHANGED <<clockVars, nodeVars>>
    BY <1>2 DEF NewPhase, Cycle
  <2>3. \A x \in Clocks : now'[x] >= now[x]
    BY <2>1, <1>0, SizesAssumption
  <2>4. QED
    BY <2>1, <2>2, <2>3, <1>0, QuietIInv
<1>3. ASSUME NEW c \in Clocks, NEW v \in Values, Store(v, c) PROVE IInv'
  BY <1>3, StoreIInv
<1>4. CASE clearDict
  BY <1>4, ClearIInv
<1>5. CASE UNCHANGED vars
  <2>1. \A x \in Clocks : now'[x] >= now[x]
    BY <1>5, <1>0, SizesAssumption DEF vars, envVars
  <2>2. QED
    BY <1>5, <2>1, <1>0, QuietIInv DEF vars, envVars
<1>6. QED
  BY <1>1, <1>2, <1>3, <1>4, <1>5 DEF Next

LEMMA Invariance == Spec => []IInv
  BY InitIInv, NextIInv, PTL DEF Spec

-----------------------------------------------------------------------------
(* What the model checker verifies on small instances holds in general.    *)

(* The state of the dictionaries stays well formed.                        *)
THEOREM TypeCorrect == Spec => []TypeOK
<1>1. IInv => TypeOK
  BY DEF IInv, DictInv
<1>2. QED
  BY <1>1, Invariance, PTL

(* Every stored value reads back, however many clock domains share the     *)
(* dictionaries and whatever pace each keeps, as long as no clock announces*)
(* the same cycle twice with phase 0.                                      *)
THEOREM ReadsBack == Spec => []ReadBack
<1>1. IInv => ReadBack
  <2> SUFFICES ASSUME IInv, NEW e \in entries
               PROVE  getValueByCycle(e.key, e.cycle, e.clock) = e.value
    BY DEF ReadBack
  <2>0. TypeOK /\ EntriesOK
    BY DEF IInv, DictInv
  <2>1. PICK d \in Dicts : StoredIn(e, d)
    BY <2>0 DEF EntriesOK
  <2>2. e.clock \in Clocks /\ next_dict[e.clock] \in 1..MAXDICT /\ e.cycle \in 0..MaxCycle
    BY <2>0 DEF TypeOK, Entries
  <2>3. \A x \in Dicts : first[x][e.clock] \in Nat
    BY <2>0, <2>2 DEF TypeOK
  <2> DEFINE Fits(x) == /\ \A y \in 0..x : first[y][e.clock] <= e.cycle
                        /\ x + 1 < next_dict[e.clock] => first[x+1][e.clock] > e.cycle
  <2>4. d \in 0 .. next_dict[e.clock] - 1 /\ Fits(d)
    BY <2>1, <2>2, SizesAssumption DEF StoredIn, Dicts
  <2>5. ASSUME NEW x \in 0 .. next_dict[e.clock] - 1, Fits(x) PROVE x = d
    <3>1. CASE x < d
      <4>1. x + 1 \in 0..d /\ x + 1 \in Dicts /\ x + 1 < next_dict[e.clock]
        BY <3>1, <2>2, <2>4, SizesAssumption DEF Dicts
      <4>2. first[x+1][e.clock] <= e.cycle /\ first[x+1][e.clock] > e.cycle
        BY <4>1, <2>4, <2>5
      <4>3. QED
        BY <4>1, <4>2, <2>2, <2>3, SizesAssumption
    <3>2. CASE d < x
      <4>1. d + 1 \in 0..x /\ d + 1 \in Dicts /\ d + 1 < next_dict[e.clock]
        BY <3>2, <2>2, <2>4, SizesAssumption DEF Dicts
      <4>2. first[d+1][e.clock] <= e.cycle /\ first[d+1][e.clock] > e.cycle
        BY <4>1, <2>4, <2>5
      <4>3. QED
        BY <4>1, <4>2, <2>2, <2>3, SizesAssumption
    <3>3. QED
      BY <3>1, <3>2, <2>2, <2>4
  <2>6. DictOf(e.cycle, e.clock) = d
    BY <2>4, <2>5 DEF DictOf
  <2>7. QED
    BY <2>1, <2>6 DEF getValueByCycle, StoredIn
<1>2. QED
  BY <1>1, Invariance, PTL

(* No clock looks values up in a hash that was freed.                      *)
THEOREM NoDangling == Spec => []NoDanglingDict
<1>1. IInv => NoDanglingDict
  <2> SUFFICES ASSUME IInv, ~cleared, NEW c \in Clocks
               PROVE  /\ current_dict[c] = next_dict[c] - 1
                      /\ dict[current_dict[c]] # NULL
    BY DEF NoDanglingDict
  <2>0. TypeOK /\ HashesOK /\ AllocatedOK
    BY DEF IInv, DictInv
  <2>1. next_dict \in [Clocks -> 1..MAXDICT]
    BY <2>0 DEF TypeOK
  <2>2. /\ \A x \in Clocks : current_dict[x] = next_dict[x] - 1
        /\ \A d \in Dicts :
              dict[d] # NULL <=> dict_values[d] # NULL /\ Users(d) # {}
    BY <2>0 DEF HashesOK, cleared
  <2>3. next_dict[c] - 1 \in Dicts /\ next_dict[c] - 1 < next_dict[c]
    BY <2>1, SizesAssumption DEF Dicts
  <2>4. Users(next_dict[c] - 1) # {}
    BY <2>1, SizesAssumption DEF Users
  <2>5. QED
    BY <2>0, <2>2, <2>3, <2>4 DEF AllocatedOK
<1>2. QED
  BY <1>1, Invariance, PTL

(* Every live hash inverts the array of its node.                          *)
THEOREM HashInvertsArray == Spec => []HashMatchesValues
<1>1. IInv => HashMatchesValues
  BY DEF IInv, DictInv, KeysOK, HashMatchesValues
<1>2. QED
  BY <1>1, Invariance, PTL

(* The last clock to leave a dictionary frees its hash.                    *)
THEOREM AbandonedFreed == Spec => []AbandonedDictFreed
<1>1. IInv => AbandonedDictFreed
  <2> SUFFICES ASSUME IInv, NEW d \in Dicts, \A c \in Clocks : next_dict[c] > d + 1
               PROVE  dict[d] = NULL
    BY DEF AbandonedDictFreed
  <2>1. \A c \in Clocks : next_dict[c] \in Int
    BY SizesAssumption DEF IInv, DictInv, TypeOK
  <2>2. Users(d) = {}
    BY <2>1, SizesAssumption DEF Users, Dicts
  <2>3. QED
    BY <2>2 DEF IInv, DictInv, HashesOK
<1>2. QED
  BY <1>1, Invariance, PTL

(* No clock goes back a dictionary and no key changes its meaning.         *)
THEOREM StableKeys == Spec => KeysAreStable
<1> DEFINE Stable ==
       /\ \A c \in Clocks : next_dict'[c] >= next_dict[c]
       /\ \A d \in Dicts : \A k \in 0 .. next_key[d] - 1 :
             k <= MAXKEY => dict_values'[d][k] = dict_values[d][k]
<1>1. IInv /\ [Next]_vars => [Stable]_vars
  <2> SUFFICES ASSUME IInv, Next PROVE Stable
    OBVIOUS
  <2>0. TypeOK /\ AllocatedOK /\ HashesOK
    BY DEF IInv, DictInv
  <2>1. /\ next_dict \in [Clocks -> 1..MAXDICT]
        /\ next_key \in [Dicts -> 0..MAXKEY+1]
        /\ dict_values \in [Dicts -> [0..MAXKEY -> Values \cup {NULL}] \cup {NULL}]
    BY <2>0 DEF TypeOK
  <2>2. ASSUME UNCHANGED <<next_dict, dict_values>> PROVE Stable
    BY <2>1, <2>2, SizesAssumption
  <2>3. ASSUME NEW c \in Clocks, NEW cycle, allocNewDict(cycle, c) PROVE Stable
    <3>1. /\ next_dict' = [next_dict EXCEPT ![c] = next_dict[c] + 1]
          /\ dict_values[next_dict[c]] # NULL => dict_values' = dict_values
          /\ dict_values' = dict_values \/ dict_values' = [dict_values EXCEPT
                   ![next_dict[c]] = [k \in 0..MAXKEY |-> NULL]]
      BY <2>3 DEF allocNewDict, Entered, IsNew
    <3>2. \A x \in Clocks : next_dict'[x] >= next_dict[x]
      BY <3>1, <2>1, SizesAssumption
    <3>3. ASSUME NEW d \in Dicts, NEW k \in 0 .. next_key[d] - 1
          PROVE  dict_values'[d] = dict_values[d]
      <4>1. dict_values[d] # NULL
        BY <3>3, <2>0, <2>1, SizesAssumption DEF AllocatedOK
      <4>2. QED
        BY <3>1, <4>1, <2>1
    <3>4. QED
      BY <3>2, <3>3
  <2>4. ASSUME NEW c \in Clocks, NEW v \in Values, NEW key \in 0..MAXKEY,
               current_dict[c] # NULL, InsertKey(v, c, key)
        PROVE  Stable
    <3>1. /\ next_dict' = next_dict
          /\ dict_values' = [dict_values EXCEPT ![next_dict[c] - 1][key] = v]
          /\ key = next_key[next_dict[c] - 1]
      BY <2>4 DEF InsertKey, NearlyFull
    <3>2. next_dict[c] - 1 \in Dicts /\ next_dict[c] - 1 < next_dict[c]
      BY <2>1, SizesAssumption DEF Dicts
    <3>3. ASSUME NEW d \in Dicts, NEW k \in 0 .. next_key[d] - 1, k <= MAXKEY
          PROVE  dict_values'[d][k] = dict_values[d][k]
      <4>1. CASE d = next_dict[c] - 1
        <5>1. k # key /\ k \in 0..MAXKEY
          BY <3>1, <3>3, <4>1, <2>1, SizesAssumption
        <5>2. dict_values[d] \in [0..MAXKEY -> Values \cup {NULL}]
          BY <4>1, <3>2, <2>0, <2>1 DEF AllocatedOK
        <5>3. dict_values'[d] = [dict_values[d] EXCEPT ![key] = v]
          BY <3>1, <3>2, <4>1, <2>1
        <5>4. QED
          BY <5>1, <5>2, <5>3
      <4>2. CASE d # next_dict[c] - 1
        BY <4>2, <3>1, <3>2, <2>1
      <4>3. QED
        BY <4>1, <4>2
    <3>4. QED
      BY <3>1, <3>3, <2>1, SizesAssumption
  <2>5. ASSUME NEW c \in Clocks, NewCycle(c) \/ NewPhase(c) PROVE Stable
    BY <2>5, <2>2, <2>3 DEF NewCycle, NewPhase, Cycle, clockVars, nodeVars
  <2>6. ASSUME NEW c \in Clocks, NEW v \in Values, Store(v, c) PROVE Stable
    BY <2>6, <2>2, <2>4 DEF Store, FoundKey, clockVars, nodeVars
  <2>7. CASE clearDict
    BY <2>7, <2>2 DEF clearDict
  <2>8. QED
    BY <2>5, <2>6, <2>7 DEF Next
<1>2. QED
  BY <1>1, Invariance, PTL DEF Spec, KeysAreStable

-----------------------------------------------------------------------------
(* The keys of a dictionary.                                               *)

(* The keys the clocks may have taken past the mark at which a clock asks  *)
(* for the next dictionary: those a clock added in the cycle it is in once *)
(* it has asked, and as many as a cycle may add once it has left.          *)
PastMark(d) ==
    {x \in Clocks \X (1 .. MaxFresh) :
        \/ next_dict[x[1]] > d + 1
        \/ next_dict[x[1]] = d + 1 /\ alloc_new_dict[x[1]] /\ x[2] <= fresh[x[1]]}

(* No clock takes one without its being counted.                           *)
MarginOK ==
    /\ \A c \in Clocks : fresh[c] <= MaxFresh
    /\ \A d \in Dicts : next_key[d] - (MAXKEY - MAXKEYDELTA) <= Cardinality(PastMark(d))

(* The margin is enough for all the clocks of the trace.                   *)
MarginSuffices == Cardinality(Clocks) * MaxFresh <= MAXKEYDELTA

LEMMA TakenSize ==
    ASSUME NEW T \in SUBSET (Clocks \X (1 .. MaxFresh))
    PROVE  /\ IsFiniteSet(T) /\ Cardinality(T) \in Nat
           /\ Cardinality(T) <= Cardinality(Clocks) * MaxFresh
<1>1. IsFiniteSet(1 .. MaxFresh) /\ Cardinality(1 .. MaxFresh) = MaxFresh
  BY SizesAssumption, FS_Interval
<1>2. /\ IsFiniteSet(Clocks \X (1 .. MaxFresh))
      /\ Cardinality(Clocks \X (1 .. MaxFresh)) = Cardinality(Clocks) * MaxFresh
  BY <1>1, ClocksAssumption, FS_Product
<1>3. QED
  BY <1>2, FS_Subset, FS_CardinalityType

LEMMA PastMarkSize ==
    ASSUME NEW d \in Dicts
    PROVE  /\ IsFiniteSet(PastMark(d)) /\ Cardinality(PastMark(d)) \in Nat
           /\ Cardinality(PastMark(d)) <= Cardinality(Clocks) * MaxFresh
<1>1. PastMark(d) \in SUBSET (Clocks \X (1 .. MaxFresh))
  BY DEF PastMark
<1>2. QED
  BY <1>1, TakenSize

(* A step that takes no key and forgets none of those counted.             *)
LEMMA QuietMargin ==
    ASSUME IInv, MarginOK, next_key' = next_key,
           \A c \in Clocks : fresh'[c] <= MaxFresh,
           \A d \in Dicts : PastMark(d) \subseteq PastMark(d)'
    PROVE  MarginOK'
<1>1. ASSUME NEW d \in Dicts
      PROVE  next_key'[d] - (MAXKEY - MAXKEYDELTA) <= Cardinality(PastMark(d)')
  <2>1. IsFiniteSet(PastMark(d)') /\ Cardinality(PastMark(d)') \in Nat
    <3>1. PastMark(d)' \in SUBSET (Clocks \X (1 .. MaxFresh))
      BY DEF PastMark
    <3>2. QED
      BY <3>1, TakenSize
  <2>2. Cardinality(PastMark(d)) <= Cardinality(PastMark(d)')
    BY <2>1, FS_Subset
  <2>3. Cardinality(PastMark(d)) \in Nat /\ next_key[d] \in Int
    BY PastMarkSize, SizesAssumption DEF IInv, DictInv, TypeOK
  <2>4. QED
    BY <2>1, <2>2, <2>3, SizesAssumption DEF MarginOK
<1>2. QED
  BY <1>1 DEF MarginOK

LEMMA InitMargin == Init => MarginOK
<1> SUFFICES ASSUME Init PROVE MarginOK
  OBVIOUS
<1>1. \A d \in Dicts : next_key[d] = 0 /\ Cardinality(PastMark(d)) \in Nat
  BY PastMarkSize DEF Init
<1>2. QED
  BY <1>1, SizesAssumption DEF Init, MarginOK

(* A clock that asked for the next dictionary is in it from the next cycle *)
(* on, and what it took past the mark is counted for good.                 *)
LEMMA CycleMargin ==
    ASSUME IInv, MarginOK, NEW c \in Clocks, NewCycle(c)
    PROVE  MarginOK'
<1>1. PICK cycle \in 0..MaxCycle : cycle > now[c] /\ Cycle(c, cycle, 0)
  BY DEF NewCycle
<1>2. /\ next_dict \in [Clocks -> 1..MAXDICT] /\ fresh \in [Clocks -> Nat]
      /\ alloc_new_dict \in [Clocks -> BOOLEAN] /\ now \in [Clocks -> -1..MaxCycle]
  BY DEF IInv, DictInv, TypeOK
<1>3. fresh' = [fresh EXCEPT ![c] = 0]
  BY <1>1, <1>2, SizesAssumption DEF Cycle
<1>4. \A x \in Clocks : fresh'[x] <= MaxFresh
  BY <1>2, <1>3, SizesAssumption DEF MarginOK
<1>5. CASE alloc_new_dict[c]
  <2>1. /\ next_key' = next_key
        /\ next_dict' = [next_dict EXCEPT ![c] = next_dict[c] + 1]
        /\ alloc_new_dict' = [alloc_new_dict EXCEPT ![c] = FALSE]
    BY <1>1, <1>5 DEF Cycle, allocNewDict, Entered
  <2>2. ASSUME NEW d \in Dicts PROVE PastMark(d) \subseteq PastMark(d)'
    BY <1>2, <1>3, <2>1, SizesAssumption DEF PastMark, Dicts
  <2>3. QED
    BY <1>4, <2>1, <2>2, QuietMargin
<1>6. CASE ~alloc_new_dict[c]
  <2>1. UNCHANGED <<next_key, next_dict, alloc_new_dict>>
    BY <1>1, <1>6 DEF Cycle, clockVars, nodeVars
  <2>2. ASSUME NEW d \in Dicts PROVE PastMark(d) \subseteq PastMark(d)'
    BY <1>2, <1>3, <1>6, <2>1 DEF PastMark
  <2>3. QED
    BY <1>4, <2>1, <2>2, QuietMargin
<1>7. QED
  BY <1>5, <1>6

(* A key that is given out past the mark is one more that is counted.      *)
LEMMA InsertMargin ==
    ASSUME IInv, MarginOK, NEW c \in Clocks, NEW v \in Values, NEW key \in 0..MAXKEY,
           InsertKey(v, c, key)
    PROVE  MarginOK'
<1>1. /\ next_dict \in [Clocks -> 1..MAXDICT] /\ fresh \in [Clocks -> Nat]
      /\ alloc_new_dict \in [Clocks -> BOOLEAN] /\ next_key \in [Dicts -> 0..MAXKEY+1]
  BY DEF IInv, DictInv, TypeOK
<1>2. PICK e \in Dicts, n \in 1 .. MaxFresh : e = next_dict[c] - 1 /\ n = fresh[c] + 1
  BY <1>1, SizesAssumption DEF InsertKey, Dicts
<1>3. /\ fresh[c] < MaxFresh /\ fresh' = [fresh EXCEPT ![c] = n]
      /\ next_key' = [next_key EXCEPT ![e] = next_key[e] + 1]
      /\ alloc_new_dict' = [alloc_new_dict EXCEPT
             ![c] = alloc_new_dict[c] \/ next_key[e] >= MAXKEY - MAXKEYDELTA]
      /\ next_dict' = next_dict
  BY <1>2 DEF InsertKey, NearlyFull
<1>4. \A x \in Clocks : fresh'[x] <= MaxFresh
  BY <1>1, <1>2, <1>3, SizesAssumption DEF MarginOK
<1>5. ASSUME NEW d \in Dicts
      PROVE  /\ PastMark(d) \subseteq PastMark(d)'
             /\ IsFiniteSet(PastMark(d)') /\ Cardinality(PastMark(d)') \in Nat
             /\ Cardinality(PastMark(d)) <= Cardinality(PastMark(d)')
  <2>1. PastMark(d) \subseteq PastMark(d)'
    <3>1. \A x \in Clocks : /\ fresh'[x] >= fresh[x] /\ fresh'[x] \in Nat
                            /\ alloc_new_dict[x] => alloc_new_dict'[x]
      BY <1>1, <1>2, <1>3
    <3>2. QED
      BY <1>1, <1>2, <1>3, <3>1 DEF PastMark
  <2>2. IsFiniteSet(PastMark(d)') /\ Cardinality(PastMark(d)') \in Nat
    <3>1. PastMark(d)' \in SUBSET (Clocks \X (1 .. MaxFresh))
      BY DEF PastMark
    <3>2. QED
      BY <3>1, TakenSize
  <2>3. QED
    BY <2>1, <2>2, FS_Subset
<1>6. CASE next_key[e] < MAXKEY - MAXKEYDELTA
  <2>1. ASSUME NEW d \in Dicts
        PROVE  next_key'[d] - (MAXKEY - MAXKEYDELTA) <= Cardinality(PastMark(d)')
    <3>1. Cardinality(PastMark(d)) \in Nat
      BY PastMarkSize
    <3>2. QED
      BY <1>1, <1>2, <1>3, <1>5, <1>6, <3>1, SizesAssumption DEF MarginOK
  <2>2. QED
    BY <1>4, <2>1 DEF MarginOK
<1>7. CASE next_key[e] >= MAXKEY - MAXKEYDELTA
  <2>1. <<c, n>> \notin PastMark(e) /\ <<c, n>> \in PastMark(e)'
    <3>1. fresh'[c] = n /\ alloc_new_dict'[c] /\ next_dict'[c] = e + 1 /\ next_dict[c] = e + 1
      <4>1. fresh'[c] = n /\ next_dict'[c] = e + 1 /\ next_dict[c] = e + 1
        BY <1>1, <1>2, <1>3
      <4>2. alloc_new_dict'[c]
        <5>1. alloc_new_dict'[c] = (alloc_new_dict[c] \/ next_key[e] >= MAXKEY - MAXKEYDELTA)
          BY <1>1, <1>2, <1>3, Zenon
        <5>2. QED
          BY <1>7, <5>1, Zenon
      <4>3. QED
        BY <4>1, <4>2
    <3>2. QED
      BY <1>1, <1>2, <1>3, <3>1 DEF PastMark
  <2>2. Cardinality(PastMark(e)) + 1 <= Cardinality(PastMark(e)')
    <3>1. /\ IsFiniteSet(PastMark(e)) /\ Cardinality(PastMark(e)) \in Nat
          /\ IsFiniteSet(PastMark(e)') /\ PastMark(e) \subseteq PastMark(e)'
      <4>1. IsFiniteSet(PastMark(e)) /\ Cardinality(PastMark(e)) \in Nat
        BY <1>2, <1>3, PastMarkSize
      <4>2. IsFiniteSet(PastMark(e)') /\ PastMark(e) \subseteq PastMark(e)'
        BY <1>2, <1>3, <1>5
      <4>3. QED
        BY <4>1, <4>2
    <3> DEFINE S == PastMark(e) \cup {<<c, n>>}
               all == PastMark(e)'
    <3>2. Cardinality(S) = Cardinality(PastMark(e)) + 1
      BY <2>1, <3>1, FS_AddElement
    <3>3. S \in SUBSET all
      BY <2>1, <3>1
    <3>4. IsFiniteSet(all)
      BY <3>1
    <3>5. Cardinality(S) <= Cardinality(all)
      <4> HIDE DEF S, all
      <4>1. QED
        BY <3>3, <3>4, FS_Subset
    <3>6. QED
      BY <3>2, <3>5
  <2>3. ASSUME NEW d \in Dicts
        PROVE  next_key'[d] - (MAXKEY - MAXKEYDELTA) <= Cardinality(PastMark(d)')
    <3>1. Cardinality(PastMark(d)) \in Nat /\ next_key[d] \in Int
      BY <1>1, PastMarkSize
    <3>2. CASE d = e
      <4>1. next_key'[d] = next_key[d] + 1
        BY <1>1, <1>2, <1>3, <3>2
      <4>2. next_key[d] - (MAXKEY - MAXKEYDELTA) <= Cardinality(PastMark(d))
        BY DEF MarginOK
      <4>3. /\ Cardinality(PastMark(d)) + 1 <= Cardinality(PastMark(d)')
            /\ Cardinality(PastMark(d)') \in Nat
        BY <1>5, <2>2, <3>2
      <4>4. QED
        BY <3>1, <4>1, <4>2, <4>3, SizesAssumption
    <3>3. CASE d # e
      <4>1. next_key'[d] = next_key[d]
        BY <1>1, <1>2, <1>3, <3>3
      <4>2. QED
        BY <1>5, <3>1, <4>1, SizesAssumption DEF MarginOK
    <3>4. QED
      BY <3>2, <3>3
  <2>4. QED
    BY <1>4, <2>3 DEF MarginOK
<1>8. QED
  BY <1>1, <1>2, <1>3, <1>6, <1>7, SizesAssumption

LEMMA NextMargin == ASSUME IInv, MarginOK, [Next]_vars PROVE MarginOK'
<1>1. ASSUME NEW c \in Clocks, NewCycle(c) PROVE MarginOK'
  BY <1>1, CycleMargin
<1>2. ASSUME UNCHANGED <<next_key, next_dict, alloc_new_dict, fresh>> PROVE MarginOK'
  BY <1>2, QuietMargin DEF PastMark, MarginOK
<1>3. ASSUME NEW c \in Clocks, NewPhase(c) PROVE MarginOK'
  <2>1. UNCHANGED <<next_key, next_dict, alloc_new_dict, fresh>>
    BY <1>3 DEF NewPhase, Cycle, clockVars, nodeVars
  <2>2. QED
    BY <1>2, <2>1
<1>4. ASSUME NEW c \in Clocks, NEW v \in Values, Store(v, c) PROVE MarginOK'
  <2>1. PICK key \in 0..MAXKEY : FoundKey(v, c, key) \/ InsertKey(v, c, key)
    BY <1>4 DEF Store
  <2>2. CASE FoundKey(v, c, key)
    BY <1>2, <2>2 DEF FoundKey, clockVars, nodeVars
  <2>3. QED
    BY <2>1, <2>2, InsertMargin
<1>5. CASE clearDict \/ UNCHANGED vars
  BY <1>2, <1>5 DEF clearDict, envVars, vars, clockVars, nodeVars
<1>6. QED
  BY <1>1, <1>3, <1>4, <1>5 DEF Next

(* The margin that getKeyFor keeps is enough for every clock to go on to   *)
(* the end of its cycle, whoever of them shares the dictionary, when it    *)
(* has room for what all of them add in a cycle: the assertion of          *)
(* getKeyFor holds.                                                        *)
THEOREM KeysDoSuffice == Spec => [](MarginSuffices => KeysSuffice)
<1>1. IInv /\ MarginOK => (MarginSuffices => KeysSuffice)
  <2> SUFFICES ASSUME IInv, MarginOK, MarginSuffices, NEW d \in Dicts
               PROVE  next_key[d] <= MAXKEY
    BY DEF KeysSuffice
  <2>1. /\ Cardinality(PastMark(d)) \in Nat
        /\ Cardinality(PastMark(d)) <= Cardinality(Clocks) * MaxFresh
    BY PastMarkSize
  <2>2. next_key[d] \in Int /\ Cardinality(Clocks) \in Int
    BY SizesAssumption, ClocksAssumption, FS_CardinalityType DEF IInv, DictInv, TypeOK
  <2>3. PICK all \in Int : all = Cardinality(Clocks) * MaxFresh
    BY <2>2, SizesAssumption
  <2>4. QED
    BY <2>1, <2>2, <2>3, SizesAssumption DEF MarginOK, MarginSuffices
<1>2. Init => MarginOK
  BY InitMargin
<1>3. IInv /\ MarginOK /\ [Next]_vars => MarginOK'
  BY NextMargin
<1>4. QED
  BY <1>1, <1>2, <1>3, Invariance, PTL DEF Spec

-----------------------------------------------------------------------------
(* The refinement of TagDict.                                              *)

(* Values given out are found by the hash as long as there is one, so that *)
(* none is given a second key.                                             *)
Complete ==
    \A d \in Dicts : dict[d] # NULL =>
        \A v \in Values, k \in 0 .. next_key[d] - 1 :
            dict_values[d][k] = v => dict[d][v] # NoKey

RInv == IInv /\ Complete

LEMMA InitComplete == Init => Complete
<1> SUFFICES ASSUME Init PROVE Complete
  OBVIOUS
<1>1. \A d \in Dicts : next_key[d] = 0
  BY DEF Init
<1>2. QED
  BY <1>1 DEF Complete

LEMMA AllocComplete ==
    ASSUME RInv, NEW c \in Clocks, NEW cycle, allocNewDict(cycle, c)
    PROVE  Complete'
<1> DEFINE n == next_dict[c]
<1>0. TypeOK /\ AllocatedOK
  BY DEF RInv, IInv, DictInv
<1>1. n < MAXDICT /\ next_key' = next_key
  BY DEF allocNewDict, IsNew, Entered
<1>2. dict_values' = IF dict_values[n] = NULL
                     THEN [dict_values EXCEPT ![n] = [k \in 0..MAXKEY |-> NULL]]
                     ELSE dict_values
  BY DEF allocNewDict, IsNew, Entered
<1>3. dict' = [dict EXCEPT
            ![n] = IF dict_values[n] = NULL THEN EmptyHash ELSE dict[n],
            ![n-1] = Detached(dict[n-1], counter[n-1])]
  BY DEF allocNewDict, IsNew, Entered
<1>4. /\ dict_values \in [Dicts -> [0..MAXKEY -> Values \cup {NULL}] \cup {NULL}]
      /\ dict \in [Dicts -> [Values -> Int] \cup {NULL}]
  BY <1>0 DEF TypeOK
<1>5. n \in Dicts /\ n - 1 \in Dicts /\ n - 1 # n
  <2>1. n \in 1..MAXDICT
    BY <1>0 DEF TypeOK
  <2>2. QED
    BY <1>1, <2>1, SizesAssumption DEF Dicts
<1> HIDE DEF n
<1>6. SUFFICES ASSUME NEW d \in Dicts, dict'[d] # NULL, NEW v \in Values,
                      NEW k \in 0 .. next_key[d] - 1, dict_values'[d][k] = v
               PROVE  dict'[d][v] # NoKey
  BY <1>1 DEF Complete
<1>7. dict_values[d] # NULL
  BY <1>0, <1>6 DEF AllocatedOK
<1>8. dict_values'[d] = dict_values[d]
  BY <1>2, <1>4, <1>7
<1>9. dict'[d] \in {dict[d], NULL}
  <2>1. CASE d = n
    BY <1>3, <1>4, <1>5, <1>7, <2>1
  <2>2. CASE d = n - 1
    BY <1>3, <1>4, <1>5, <2>2 DEF Detached
  <2>3. CASE d # n /\ d # n - 1
    BY <1>3, <1>4, <1>5, <2>3
  <2>4. QED
    BY <2>1, <2>2, <2>3
<1>10. QED
  BY <1>6, <1>8, <1>9 DEF RInv, Complete

LEMMA InsertComplete ==
    ASSUME RInv, NEW c \in Clocks, NEW v \in Values, NEW key \in 0..MAXKEY,
           current_dict[c] # NULL, InsertKey(v, c, key)
    PROVE  Complete'
<1> DEFINE d == next_dict[c] - 1
<1>0. TypeOK /\ AllocatedOK /\ HashesOK
  BY DEF RInv, IInv, DictInv
<1>1. current_dict[c] = d
  BY <1>0 DEF HashesOK
<1>2. /\ key = next_key[d]
      /\ next_key' = [next_key EXCEPT ![d] = next_key[d] + 1]
      /\ dict_values' = [dict_values EXCEPT ![d][key] = v]
      /\ dict' = [dict EXCEPT ![d][v] = key]
  BY <1>1 DEF InsertKey, NearlyFull
<1>3. next_dict[c] \in 1..MAXDICT /\ d \in Dicts /\ d < next_dict[c]
  <2>1. next_dict \in [Clocks -> 1..MAXDICT]
    BY <1>0 DEF TypeOK
  <2>2. QED
    BY <2>1, SizesAssumption DEF Dicts
<1> HIDE DEF d
<1>4. /\ dict_values \in [Dicts -> [0..MAXKEY -> Values \cup {NULL}] \cup {NULL}]
      /\ dict \in [Dicts -> [Values -> Int] \cup {NULL}]
      /\ next_key \in [Dicts -> 0..MAXKEY+1]
  BY <1>0 DEF TypeOK
<1>5. SUFFICES ASSUME NEW x \in Dicts, dict'[x] # NULL, NEW w \in Values,
                      NEW k \in 0 .. next_key'[x] - 1, dict_values'[x][k] = w
               PROVE  dict'[x][w] # NoKey
  BY DEF Complete
<1>6. CASE x # d
  <2>1. dict'[x] = dict[x] /\ dict_values'[x] = dict_values[x] /\ next_key'[x] = next_key[x]
    BY <1>2, <1>3, <1>4, <1>6
  <2>2. QED
    BY <1>5, <2>1 DEF RInv, Complete
<1>7. CASE x = d
  <2>1. dict_values[d] \in [0..MAXKEY -> Values \cup {NULL}]
    BY <1>0, <1>3, <1>4 DEF AllocatedOK
  <2>2. dict[d] \in [Values -> Int] /\ dict[d] # NULL
    <3>1. dict[d] # NULL
      <4>1. \A y \in Clocks : current_dict[y] = next_dict[y] - 1
        BY <1>0 DEF HashesOK
      <4>2. Users(d) # {}
        <5>1. next_dict[c] <= d + 1
          BY <1>3 DEF d
        <5>2. QED
          BY <5>1 DEF Users
      <4>3. QED
        BY <1>0, <1>3, <4>1, <4>2 DEF HashesOK, AllocatedOK
    <3>2. QED
      BY <1>3, <1>4, <3>1
  <2>3. /\ dict'[d] = [dict[d] EXCEPT ![v] = key]
        /\ dict_values'[d] = [dict_values[d] EXCEPT ![key] = v]
    BY <1>2, <1>3, <1>4
  <2>4. CASE w = v
    BY <1>7, <2>2, <2>3, <2>4 DEF NoKey
  <2>5. CASE w # v
    <3>1. dict'[d][w] = dict[d][w]
      BY <2>2, <2>3, <2>5
    <3>2. k \in 0 .. next_key[d] /\ next_key[d] \in Nat /\ k \in 0..MAXKEY
      BY <1>2, <1>3, <1>4, <1>7, SizesAssumption
    <3>3. k # key
      BY <1>5, <1>7, <2>1, <2>3, <2>5, <3>2
    <3>4. dict_values[d][k] = w /\ k \in 0 .. next_key[d] - 1
      BY <1>2, <1>5, <1>7, <2>1, <2>3, <3>2, <3>3
    <3>5. QED
      BY <1>3, <1>7, <2>2, <3>1, <3>4 DEF RInv, Complete
  <2>6. QED
    BY <2>4, <2>5
<1>8. QED
  BY <1>6, <1>7

LEMMA NextComplete == ASSUME RInv, [Next]_vars PROVE Complete'
<1>1. ASSUME UNCHANGED <<next_key, dict, dict_values>> PROVE Complete'
  BY <1>1 DEF RInv, Complete
<1>2. ASSUME NEW c \in Clocks, NEW cycle, NEW phase, Cycle(c, cycle, phase) PROVE Complete'
  <2>1. CASE allocNewDict(cycle, c)
    BY <2>1, AllocComplete
  <2>2. CASE UNCHANGED <<clockVars, nodeVars>>
    BY <1>1, <2>2 DEF nodeVars
  <2>3. QED
    BY <1>2, <2>1, <2>2 DEF Cycle
<1>3. ASSUME NEW c \in Clocks, NEW v \in Values, Store(v, c) PROVE Complete'
  <2>1. PICK key \in 0..MAXKEY : FoundKey(v, c, key) \/ InsertKey(v, c, key)
    BY <1>3 DEF Store
  <2>2. CASE FoundKey(v, c, key)
    BY <1>1, <2>2 DEF FoundKey, nodeVars
  <2>3. CASE InsertKey(v, c, key)
    BY <1>3, <2>3, InsertComplete DEF Store
  <2>4. QED
    BY <2>1, <2>2, <2>3
<1>4. CASE clearDict
  BY <1>4 DEF clearDict, Complete
<1>5. CASE UNCHANGED vars
  BY <1>1, <1>5 DEF vars, nodeVars
<1>6. QED
  BY <1>2, <1>3, <1>4, <1>5 DEF Next, NewCycle, NewPhase

LEMMA RInvariance == Spec => []RInv
<1>1. Init => RInv
  BY InitIInv, InitComplete DEF RInv
<1>2. RInv /\ [Next]_vars => RInv'
  BY NextIInv, NextComplete DEF RInv
<1>3. QED
  BY <1>1, <1>2, PTL DEF Spec

LEMMA AppendValue ==
    ASSUME NEW S, NEW n \in Nat, NEW s \in [1..n -> S], NEW e \in S
    PROVE  /\ s \in Seq(S) /\ Len(s) = n
           /\ Append(s, e) = [k \in 1 .. n + 1 |-> IF k = n + 1 THEN e ELSE s[k]]
<1>1. s \in Seq(S) /\ Len(s) = n
  OBVIOUS
<1> DEFINE t == [k \in 1 .. n + 1 |-> IF k = n + 1 THEN e ELSE s[k]]
<1>2. t \in Seq(S) /\ Len(t) = n + 1
  OBVIOUS
<1>3. Append(s, e) \in Seq(S) /\ Len(Append(s, e)) = n + 1
  BY <1>1
<1>4. \A k \in 1 .. n + 1 : Append(s, e)[k] = t[k]
  BY <1>1
<1> HIDE DEF t
<1>5. Append(s, e) = t
  BY <1>2, <1>3, <1>4
<1>6. QED
  BY <1>1, <1>5 DEF t

LEMMA AbstractTypes ==
    ASSUME IInv
    PROVE  /\ next_dict \in [Clocks -> 1..MAXDICT]
           /\ \A c \in Clocks :
                 entered[c] \in [1 .. next_dict[c] -> Nat] /\ Len(entered[c]) = next_dict[c]
           /\ \A d \in Dicts :
                 /\ contents[d] \in [1 .. next_key[d] -> Values \cup {NULL}]
                 /\ Len(contents[d]) = next_key[d] /\ next_key[d] \in Nat
<1>1. TypeOK /\ AllocatedOK
  BY DEF IInv, DictInv
<1>2. /\ next_dict \in [Clocks -> 1..MAXDICT]
      /\ first \in [Dicts -> [Clocks -> Nat]]
      /\ next_key \in [Dicts -> 0..MAXKEY+1]
      /\ dict_values \in [Dicts -> [0..MAXKEY -> Values \cup {NULL}] \cup {NULL}]
  BY <1>1 DEF TypeOK
<1>3. ASSUME NEW c \in Clocks
      PROVE  entered[c] \in [1 .. next_dict[c] -> Nat] /\ Len(entered[c]) = next_dict[c]
  <2>1. next_dict[c] \in 1..MAXDICT
    BY <1>2
  <2>2. \A n \in 1 .. next_dict[c] : n - 1 \in Dicts /\ first[n-1][c] \in Nat
    BY <1>2, <2>1, SizesAssumption DEF Dicts
  <2>3. entered[c] = [n \in 1 .. next_dict[c] |-> first[n-1][c]]
    BY DEF entered
  <2>4. entered[c] \in [1 .. next_dict[c] -> Nat]
    BY <2>2, <2>3
  <2>5. QED
    BY <2>1, <2>4, SizesAssumption
<1>4. ASSUME NEW d \in Dicts
      PROVE  /\ contents[d] \in [1 .. next_key[d] -> Values \cup {NULL}]
             /\ Len(contents[d]) = next_key[d] /\ next_key[d] \in Nat
  <2>1. next_key[d] \in 0 .. MAXKEY + 1
    BY <1>2
  <2>2. contents[d] = IF dict_values[d] = NULL THEN <<>>
                      ELSE [k \in 1 .. next_key[d] |-> dict_values[d][k-1]]
    BY DEF contents
  <2>3. CASE dict_values[d] = NULL
    <3>1. next_key[d] = 0
      BY <1>1, <2>3 DEF AllocatedOK
    <3>2. QED
      BY <2>2, <2>3, <3>1
  <2>4. CASE dict_values[d] # NULL
    <3>1. dict_values[d] \in [0..MAXKEY -> Values \cup {NULL}]
      BY <1>2, <2>4
    <3>2. \A k \in 1 .. next_key[d] : dict_values[d][k-1] \in Values \cup {NULL}
      BY <2>1, <3>1, SizesAssumption
    <3>3. contents[d] \in [1 .. next_key[d] -> Values \cup {NULL}]
      BY <2>2, <2>4, <3>2
    <3>4. QED
      BY <2>1, <3>3, SizesAssumption
  <2>5. QED
    BY <2>3, <2>4
<1>5. QED
  BY <1>2, <1>3, <1>4

(* A clock enters the next dictionary of the list.                         *)
LEMMA AllocAbstract ==
    ASSUME IInv, NEW c \in Clocks, NEW cycle \in 0..MaxCycle, allocNewDict(cycle, c)
    PROVE  /\ entered' = [entered EXCEPT ![c] = Append(entered[c], cycle)]
           /\ contents' = contents /\ Len(entered[c]) < MAXDICT
<1> DEFINE n == next_dict[c]
<1>0. TypeOK /\ AllocatedOK
  BY DEF IInv, DictInv
<1>1. /\ n < MAXDICT /\ next_key' = next_key
      /\ dict_values' = IF dict_values[n] = NULL
                        THEN [dict_values EXCEPT ![n] = [k \in 0..MAXKEY |-> NULL]]
                        ELSE dict_values
      /\ first' = [first EXCEPT ![n][c] = cycle]
      /\ next_dict' = [next_dict EXCEPT ![c] = n + 1]
  BY DEF allocNewDict, IsNew, Entered
<1>2. /\ next_dict \in [Clocks -> 1..MAXDICT]
      /\ first \in [Dicts -> [Clocks -> Nat]]
      /\ dict_values \in [Dicts -> [0..MAXKEY -> Values \cup {NULL}] \cup {NULL}]
  BY <1>0 DEF TypeOK
<1>3. n \in Nat /\ n >= 1 /\ n \in Dicts
  <2>1. n \in 1..MAXDICT
    BY <1>2
  <2>2. QED
    BY <1>1, <2>1, SizesAssumption DEF Dicts
<1> HIDE DEF n
<1>4. \A x \in Clocks : next_dict'[x] = IF x = c THEN n + 1 ELSE next_dict[x]
  BY <1>1, <1>2
<1>5. \A x \in Clocks, d \in Dicts :
          first'[d][x] = IF x = c /\ d = n THEN cycle ELSE first[d][x]
  BY <1>1, <1>2
<1>6. entered[c] \in [1..n -> Nat] /\ Len(entered[c]) = n
  BY AbstractTypes DEF n
<1>7. cycle \in Nat
  BY SizesAssumption
<1>8. Append(entered[c], cycle)
          = [k \in 1 .. n + 1 |-> IF k = n + 1 THEN cycle ELSE entered[c][k]]
  BY <1>3, <1>6, <1>7, AppendValue
<1>9. entered'[c] = Append(entered[c], cycle)
  <2>1. entered'[c] = [k \in 1 .. n + 1 |-> first'[k-1][c]]
    BY <1>4 DEF entered
  <2>2. \A k \in 1 .. n + 1 : k - 1 \in Dicts
    BY <1>1, <1>3, SizesAssumption DEF Dicts
  <2>3. \A k \in 1..n : entered[c][k] = first[k-1][c]
    BY DEF entered, n
  <2>4. \A k \in 1 .. n + 1 :
            first'[k-1][c] = IF k = n + 1 THEN cycle ELSE entered[c][k]
    BY <1>3, <1>5, <2>2, <2>3
  <2>5. QED
    BY <1>8, <2>1, <2>4
<1>10. ASSUME NEW x \in Clocks, x # c PROVE entered'[x] = entered[x]
  <2>1. next_dict[x] \in 1..MAXDICT
    BY <1>2
  <2>2. \A k \in 1 .. next_dict[x] : k - 1 \in Dicts
    BY <2>1, SizesAssumption DEF Dicts
  <2>3. \A k \in 1 .. next_dict[x] : first'[k-1][x] = first[k-1][x]
    BY <1>5, <1>10, <2>2
  <2>4. /\ entered'[x] = [k \in 1 .. next_dict[x] |-> first'[k-1][x]]
        /\ entered[x] = [k \in 1 .. next_dict[x] |-> first[k-1][x]]
    BY <1>4, <1>10 DEF entered
  <2>5. QED
    BY <2>3, <2>4
<1>11. entered' = [entered EXCEPT ![c] = Append(entered[c], cycle)]
  <2>1. entered = [x \in Clocks |-> entered[x]] /\ entered' = [x \in Clocks |-> entered'[x]]
    BY DEF entered
  <2>2. QED
    BY <1>9, <1>10, <2>1
<1>12. contents' = contents
  <2>1. ASSUME NEW d \in Dicts PROVE contents'[d] = contents[d]
    <3>1. CASE d = n /\ dict_values[n] = NULL
      <4>1. next_key[d] = 0 /\ contents[d] = <<>>
        BY <1>0, <3>1 DEF AllocatedOK, contents
      <4>2. dict_values'[d] = [k \in 0..MAXKEY |-> NULL] /\ next_key'[d] = 0
        BY <1>1, <1>2, <1>3, <3>1, <4>1
      <4>3. contents'[d] = <<>>
        BY <4>2 DEF contents
      <4>4. QED
        BY <4>1, <4>3
    <3>2. CASE ~(d = n /\ dict_values[n] = NULL)
      <4>1. dict_values'[d] = dict_values[d] /\ next_key'[d] = next_key[d]
        BY <1>1, <1>2, <1>3, <3>2
      <4>2. QED
        BY <4>1 DEF contents
    <3>3. QED
      BY <3>1, <3>2
  <2>2. QED
    BY <2>1 DEF contents
<1>13. QED
  BY <1>1, <1>6, <1>11, <1>12

(* A found key is the place of the value in the abstract dictionary.       *)
LEMMA FoundAbstract ==
    ASSUME RInv, NEW c \in Clocks, NEW v \in Values, NEW key \in 0..MAXKEY,
           current_dict[c] # NULL, dict[current_dict[c]] # NULL, FoundKey(v, c, key)
    PROVE  Abstract!KeyFor(v, c, key)
<1> DEFINE d == next_dict[c] - 1
<1>0. TypeOK /\ AllocatedOK /\ HashesOK /\ KeysOK
  BY DEF RInv, IInv, DictInv
<1>1. current_dict[c] = d
  BY <1>0 DEF HashesOK
<1>2. next_dict[c] \in 1..MAXDICT /\ d \in Dicts /\ d < next_dict[c]
  <2>1. next_dict \in [Clocks -> 1..MAXDICT]
    BY <1>0 DEF TypeOK
  <2>2. QED
    BY <2>1, SizesAssumption DEF Dicts
<1>3. Len(entered[c]) - 1 = d
  BY AbstractTypes DEF RInv
<1> HIDE DEF d
<1>4. key \in 0 .. next_key[d] - 1 /\ dict_values[d][key] = v
  BY <1>0, <1>1, <1>2 DEF FoundKey, KeysOK
<1>5. dict_values[d] # NULL /\ next_key[d] \in Nat
  BY <1>0, <1>2, AbstractTypes DEF AllocatedOK, RInv
<1>6. contents[d] = [k \in 1 .. next_key[d] |-> dict_values[d][k-1]]
  BY <1>2, <1>5 DEF contents
<1>7. key + 1 \in DOMAIN contents[d] /\ contents[d][key + 1] = v
  BY <1>4, <1>5, <1>6
<1>8. entered' = entered /\ contents' = contents
  BY DEF FoundKey, clockVars, nodeVars, entered, contents
<1>9. QED
  BY <1>3, <1>7, <1>8 DEF Abstract!KeyFor, Abstract!current

(* A new value is appended to the abstract dictionary, which lacked it.    *)
LEMMA InsertAbstract ==
    ASSUME RInv, NEW c \in Clocks, NEW v \in Values, NEW key \in 0..MAXKEY,
           current_dict[c] # NULL, dict[current_dict[c]] # NULL, InsertKey(v, c, key)
    PROVE  Abstract!KeyFor(v, c, key)
<1> DEFINE d == next_dict[c] - 1
<1>0. TypeOK /\ AllocatedOK /\ HashesOK
  BY DEF RInv, IInv, DictInv
<1>1. current_dict[c] = d
  BY <1>0 DEF HashesOK
<1>2. next_dict[c] \in 1..MAXDICT /\ d \in Dicts /\ d < next_dict[c]
  <2>1. next_dict \in [Clocks -> 1..MAXDICT]
    BY <1>0 DEF TypeOK
  <2>2. QED
    BY <2>1, SizesAssumption DEF Dicts
<1>3. Len(entered[c]) - 1 = d
  BY AbstractTypes DEF RInv
<1>4. /\ key = next_key[d]
      /\ next_key' = [next_key EXCEPT ![d] = next_key[d] + 1]
      /\ dict_values' = [dict_values EXCEPT ![d][key] = v]
      /\ dict[d][v] = NoKey /\ dict[d] # NULL
      /\ next_dict' = next_dict /\ first' = first
  BY <1>1 DEF InsertKey, NearlyFull
<1> HIDE DEF d
<1>5. /\ dict_values \in [Dicts -> [0..MAXKEY -> Values \cup {NULL}] \cup {NULL}]
      /\ next_key \in [Dicts -> 0..MAXKEY+1] /\ next_key[d] \in Nat
  <2>1. TypeOK
    BY <1>0
  <2>2. QED
    BY <1>2, <2>1, SizesAssumption DEF TypeOK
<1>6. dict_values[d] # NULL /\ dict_values[d] \in [0..MAXKEY -> Values \cup {NULL}]
  BY <1>0, <1>2, <1>5 DEF AllocatedOK
<1>7. contents[d] = [k \in 1 .. next_key[d] |-> dict_values[d][k-1]]
  BY <1>2, <1>6 DEF contents
<1>8. v \notin {contents[d][k] : k \in DOMAIN contents[d]}
  <2>1. SUFFICES ASSUME NEW k \in 1 .. next_key[d], dict_values[d][k-1] = v PROVE FALSE
    BY <1>7
  <2>2. k - 1 \in 0 .. next_key[d] - 1
    BY <1>5
  <2>3. QED
    BY <1>2, <1>4, <2>1, <2>2 DEF RInv, Complete
<1>9. /\ contents[d] \in [1 .. next_key[d] -> Values \cup {NULL}]
      /\ Len(contents[d]) = next_key[d]
  BY <1>2, AbstractTypes DEF RInv
<1>10. Append(contents[d], v)
           = [k \in 1 .. next_key[d] + 1 |-> IF k = next_key[d] + 1 THEN v ELSE contents[d][k]]
  <2>1. v \in Values \cup {NULL}
    OBVIOUS
  <2>2. QED
    BY <1>5, <1>9, <2>1, AppendValue
<1>11. contents'[d] = Append(contents[d], v)
  <2>1. /\ dict_values'[d] = [dict_values[d] EXCEPT ![key] = v]
        /\ next_key'[d] = next_key[d] + 1
    BY <1>2, <1>4, <1>5
  <2>2. dict_values'[d] # NULL
    <3>1. dict_values'[d] \in [0..MAXKEY -> Values \cup {NULL}]
      BY <1>6, <2>1
    <3>2. QED
      BY <3>1, NullAssumption
  <2>3. contents'[d] = [k \in 1 .. next_key[d] + 1 |-> dict_values'[d][k-1]]
    BY <1>2, <2>1, <2>2 DEF contents
  <2>4. \A k \in 1 .. next_key[d] + 1 :
            dict_values'[d][k-1] = IF k = next_key[d] + 1 THEN v ELSE contents[d][k]
    <3>1. TAKE k \in 1 .. next_key[d] + 1
    <3>2. k - 1 \in 0..MAXKEY
      BY <1>4, <1>5, SizesAssumption
    <3>3. CASE k = next_key[d] + 1
      <4>1. k - 1 = key
        BY <1>4, <1>5, <3>3
      <4>2. dict_values'[d][key] = v
        BY <1>6, <2>1
      <4>3. QED
        BY <3>3, <4>1, <4>2
    <3>4. CASE k # next_key[d] + 1
      <4>1. k \in 1 .. next_key[d] /\ k - 1 # key
        BY <1>4, <1>5, <3>4
      <4>2. dict_values'[d][k-1] = dict_values[d][k-1]
        BY <1>6, <2>1, <3>2, <4>1
      <4>3. QED
        BY <1>7, <3>4, <4>1, <4>2
    <3>5. QED
      BY <3>3, <3>4
  <2>5. QED
    BY <1>10, <2>3, <2>4
<1>12. contents' = [contents EXCEPT ![d] = Append(contents[d], v)]
  <2>1. contents = [x \in Dicts |-> contents[x]] /\ contents' = [x \in Dicts |-> contents'[x]]
    BY DEF contents
  <2>2. ASSUME NEW x \in Dicts, x # d PROVE contents'[x] = contents[x]
    <3>1. dict_values'[x] = dict_values[x] /\ next_key'[x] = next_key[x]
      BY <1>2, <1>4, <1>5, <2>2
    <3>2. QED
      BY <3>1 DEF contents
  <2>3. QED
    BY <1>2, <1>11, <2>1, <2>2
<1>13. entered' = entered
  BY <1>4 DEF entered
<1>14. QED
  BY <1>3, <1>4, <1>8, <1>9, <1>12, <1>13 DEF Abstract!KeyFor, Abstract!current

LEMMA InitAbstract == Init => Abstract!DictInit
<1> SUFFICES ASSUME Init PROVE Abstract!DictInit
  OBVIOUS
<1>1. entered = [c \in Clocks |-> <<0>>]
  <2>1. ASSUME NEW c \in Clocks PROVE entered[c] = <<0>>
    <3>1. next_dict[c] = 1 /\ first[0][c] = 0
      BY SizesAssumption DEF Init, Entered, Dicts
    <3>2. entered[c] = [n \in 1..1 |-> first[n-1][c]]
      BY <3>1 DEF entered
    <3>3. QED
      BY <3>1, <3>2
  <2>2. QED
    BY <2>1 DEF entered
<1>2. contents = [d \in Dicts |-> <<>>]
  <2>1. ASSUME NEW d \in Dicts PROVE contents[d] = <<>>
    <3>1. next_key[d] = 0
      BY DEF Init
    <3>2. [k \in 1..0 |-> dict_values[d][k-1]] = <<>>
      OBVIOUS
    <3>3. QED
      BY <3>1, <3>2 DEF contents
  <2>2. QED
    BY <2>1 DEF contents
<1>3. QED
  BY <1>1, <1>2 DEF Abstract!DictInit, Dicts

LEMMA NextAbstract ==
    ASSUME RInv, [Next]_vars PROVE [Abstract!DictNext]_(Abstract!dictVars)
<1>1. ASSUME UNCHANGED <<next_dict, first, dict_values, next_key>>
      PROVE  UNCHANGED Abstract!dictVars
  BY <1>1 DEF entered, contents, Abstract!dictVars
<1>2. ASSUME NEW c \in Clocks, NewCycle(c)
      PROVE  Abstract!DictNext \/ UNCHANGED Abstract!dictVars
  <2>1. PICK cycle \in 0..MaxCycle : Cycle(c, cycle, 0)
    BY <1>2 DEF NewCycle
  <2>2. CASE allocNewDict(cycle, c)
    <3>1. Abstract!NextDict(c, cycle)
      <4>1. Len(entered[c]) = next_dict[c] /\ next_dict[c] \in Int
        BY AbstractTypes DEF RInv
      <4>2. QED
        BY <2>2, <4>1, AllocAbstract, SizesAssumption
           DEF RInv, Abstract!NextDict, Abstract!current
    <3>2. QED
      BY <3>1 DEF Abstract!DictNext
  <2>3. CASE UNCHANGED <<clockVars, nodeVars>>
    BY <1>1, <2>3 DEF clockVars, nodeVars
  <2>4. QED
    BY <2>1, <2>2, <2>3 DEF Cycle
<1>3. ASSUME NEW c \in Clocks, NewPhase(c) PROVE UNCHANGED Abstract!dictVars
  BY <1>1, <1>3 DEF NewPhase, Cycle, clockVars, nodeVars
<1>4. ASSUME NEW c \in Clocks, NEW v \in Values, Store(v, c) PROVE Abstract!DictNext
  <2>1. PICK key \in 0..MAXKEY : FoundKey(v, c, key) \/ InsertKey(v, c, key)
    BY <1>4 DEF Store
  <2>2. Abstract!KeyFor(v, c, key)
    BY <1>4, <2>1, FoundAbstract, InsertAbstract DEF Store
  <2>3. QED
    BY <2>2 DEF Abstract!DictNext
<1>5. CASE clearDict
  BY <1>1, <1>5 DEF clearDict
<1>6. CASE UNCHANGED vars
  BY <1>1, <1>6 DEF vars, clockVars, nodeVars
<1>7. QED
  BY <1>2, <1>3, <1>4, <1>5, <1>6 DEF Next

(* Dict2064 implements TagDict (allocNewDict, getKeyFor, clearDict): every *)
(* step of the shared dictionaries enters the next one, asks for a key or  *)
(* changes nothing a caller can tell.                                      *)
THEOREM ImplementsDict == Spec => ImplementsTagDict
<1>1. Init => Abstract!DictInit
  BY InitAbstract
<1>2. RInv /\ [Next]_vars => [Abstract!DictNext]_(Abstract!dictVars)
  BY NextAbstract
<1>3. QED
  BY <1>1, <1>2, RInvariance, PTL DEF Spec, ImplementsTagDict, Abstract!DictSpec
=============================================================================
