-------------------------- MODULE DBListenerProofs --------------------------
(* Proofs about DBListener, for any clocks, edges, items and bounds: the   *)
(* cycles the callbacks of a trace find, and those that are stored; the    *)
(* bounds of the trace, taken over the clocks at its end, which cover all  *)
(* that was stored; and the types of the state of the listener.            *)
EXTENDS DBListener, FiniteSetTheorems, WellFoundedInduction, TLAPS

-----------------------------------------------------------------------------
(* The inductive invariant.                                                *)

AnyCycle == [cycle : Int, division : 0..1]

(* The first cycle of a clock that has one is before its current one.      *)
ClocksOK ==
    /\ cycle \in [clock : Clocks, cycle : Int, division : 0..1]
    /\ currentCycle \in [Clocks -> AnyCycle]
    /\ firstEffectiveCycle \in [Clocks -> AnyCycle]
    /\ isFirstCycle \in [Clocks -> BOOLEAN]
    /\ itemFirst \in [Clocks -> Int]
    /\ \A c \in Clocks : ~isFirstCycle[c] =>
          /\ 0 <= firstEffectiveCycle[c].cycle
          /\ firstEffectiveCycle[c].cycle <= currentCycle[c].cycle

(* Before the activity starts nothing was announced or stored.             *)
HeaderOK ==
    state \in {"VERSION", "GRAPH"} =>
        /\ itemMoves = {} /\ trackMoves = {}
        /\ \A c \in Clocks : isFirstCycle[c]

(* In the trace, the current cycle is not too long after the first.        *)
NotTooLong ==
    state = "TRACE" =>
        cycle.cycle - firstEffectiveCycle[cycle.clock].cycle <= MAXCYCLES

(* No two clocks share an internal clock.                                  *)
Distinct == \A c, d \in Clocks : Internal[c] = Internal[d] => c = d

(* The heap of the items is told the first cycle of each clock.            *)
ItemFirstOK ==
    Distinct => \A c \in Clocks :
        ~isFirstCycle[c] => itemFirst[Internal[c]] = firstEffectiveCycle[c].cycle

TrackMovesOK ==
    \A m \in trackMoves :
        /\ m.at.clock \in Clocks /\ ~isFirstCycle[m.at.clock]
        /\ m.at.cycle - firstEffectiveCycle[m.at.clock].cycle \in 0 .. MAXCYCLES

ItemMovesOK == Distinct => \A m \in itemMoves : m.at.cycle \in 0 .. MAXCYCLES

IInv ==
    /\ ClocksOK /\ HeaderOK /\ FirstCycleKnown /\ NotTooLong
    /\ ItemFirstOK /\ TrackMovesOK /\ ItemMovesOK

LEMMA InitIInv == Init => IInv
<1> SUFFICES ASSUME Init PROVE IInv
  OBVIOUS
<1>1. 0 \in Clocks /\ Never \in AnyCycle
  BY ClocksAssumption DEF Clocks, Never, AnyCycle
<1>2. ClocksOK
  BY <1>1 DEF Init, ClocksOK
<1>3. HeaderOK /\ FirstCycleKnown /\ NotTooLong /\ ItemFirstOK /\ TrackMovesOK /\ ItemMovesOK
  BY DEF Init, HeaderOK, FirstCycleKnown, NotTooLong, ItemFirstOK, TrackMovesOK, ItemMovesOK
<1>4. QED
  BY <1>2, <1>3 DEF IInv

-----------------------------------------------------------------------------
(* Steps that store nothing and announce nothing.                          *)

(* Nothing moves, and the trace is not entered.                            *)
LEMMA QuietIInv ==
    ASSUME IInv, UNCHANGED <<clockVars, itemMoves, trackMoves>>,
           state' = "TRACE" => state = "TRACE",
           state' \in {"VERSION", "GRAPH"} => state \in {"VERSION", "GRAPH"}
    PROVE  IInv'
<1>1. UNCHANGED <<cycle, currentCycle, firstEffectiveCycle, isFirstCycle, itemFirst>>
  BY DEF clockVars
<1>2. ClocksOK'
  BY <1>1 DEF IInv, ClocksOK
<1>3. HeaderOK' /\ NotTooLong' /\ ItemFirstOK' /\ TrackMovesOK' /\ ItemMovesOK'
  BY <1>1 DEF IInv, HeaderOK, NotTooLong, ItemFirstOK, TrackMovesOK, ItemMovesOK
<1>4. FirstCycleKnown'
  BY <1>1 DEF IInv, FirstCycleKnown, At
<1>5. QED
  BY <1>2, <1>3, <1>4 DEF IInv

(* The trace ends.                                                         *)
LEMMA EndIInv ==
    ASSUME IInv, EndOfSimulation, UNCHANGED <<itemMoves, trackMoves>>,
           state' \in {"END", "ERROR"}
    PROVE  IInv'
<1>1. /\ cycle' = [cycle EXCEPT !.cycle = @ + NumClocks * (CYCLE_CHUNK_SIZE + 1)]
      /\ UNCHANGED <<currentCycle, firstEffectiveCycle, isFirstCycle, itemFirst>>
  BY DEF EndOfSimulation
<1>2. NumClocks * (CYCLE_CHUNK_SIZE + 1) \in Int
  BY ClocksAssumption
<1>3. cycle' \in [clock : Clocks, cycle : Int, division : 0..1]
  BY <1>1, <1>2 DEF IInv, ClocksOK
<1>4. ClocksOK'
  BY <1>1, <1>3 DEF IInv, ClocksOK
<1>5. HeaderOK' /\ NotTooLong' /\ FirstCycleKnown'
  BY DEF HeaderOK, NotTooLong, FirstCycleKnown
<1>6. ItemFirstOK' /\ TrackMovesOK' /\ ItemMovesOK'
  BY <1>1 DEF IInv, ItemFirstOK, TrackMovesOK, ItemMovesOK
<1>7. QED
  BY <1>4, <1>5, <1>6 DEF IInv

-----------------------------------------------------------------------------
(* Cycles.                                                                 *)

(* The first cycle of the trace, of clock 0, which the heaps are told.     *)
LEMMA StartIInv == ASSUME IInv, NEW n \in 0 .. MaxCycle, StartActivity(n) PROVE IInv'
<1> DEFINE x == [cycle |-> n, division |-> 0]
<1>1. /\ state = "GRAPH" /\ state' = "TRACE"
      /\ cycle' = At(0, x)
      /\ currentCycle' = [currentCycle EXCEPT ![0] = x]
      /\ firstEffectiveCycle' = [firstEffectiveCycle EXCEPT ![0] = x]
      /\ isFirstCycle' = [isFirstCycle EXCEPT ![0] = FALSE]
      /\ itemFirst' = [itemFirst EXCEPT ![Internal[0]] = n]
      /\ UNCHANGED <<itemMoves, trackMoves>>
  BY DEF StartActivity, Announced
<1>2. /\ n \in Int /\ 0 <= n /\ x \in AnyCycle /\ x.cycle = n /\ x.division = 0
      /\ 0 \in Clocks /\ Internal[0] \in Clocks /\ MAXCYCLES \in Nat /\ Divisions[0] \in {1, 2}
  BY ClocksAssumption DEF AnyCycle, Clocks
<1> HIDE DEF x
<1>3. cycle' \in [clock : Clocks, cycle : Int, division : 0..1]
      /\ cycle'.clock = 0 /\ cycle'.cycle = n /\ cycle'.division = 0
  BY <1>1, <1>2 DEF At
<1>4. /\ itemMoves = {} /\ trackMoves = {} /\ \A c \in Clocks : isFirstCycle[c]
  BY <1>1 DEF IInv, HeaderOK
<1>5. /\ currentCycle'[0] = x /\ firstEffectiveCycle'[0] = x /\ ~isFirstCycle'[0]
      /\ itemFirst'[Internal[0]] = n
      /\ \A c \in Clocks : ~isFirstCycle'[c] => c = 0
  BY <1>1, <1>2, <1>4 DEF IInv, ClocksOK
<1>6. ClocksOK'
  BY <1>1, <1>2, <1>3, <1>5 DEF IInv, ClocksOK
<1>7. HeaderOK' /\ TrackMovesOK' /\ ItemMovesOK'
  BY <1>1, <1>4 DEF HeaderOK, TrackMovesOK, ItemMovesOK
<1>8. FirstCycleKnown'
  BY <1>1, <1>2, <1>3, <1>5 DEF FirstCycleKnown
<1>9. NotTooLong' /\ ItemFirstOK'
  BY <1>2, <1>3, <1>5 DEF NotTooLong, ItemFirstOK
<1>10. QED
  BY <1>6, <1>7, <1>8, <1>9 DEF IInv

(* A cycle is announced; a phase the clock does not have, or a trace that  *)
(* is too long, ends in an error.                                          *)
LEMMA CycleIInv ==
    ASSUME IInv, NEW c \in Clocks, NEW x \in Announcements, Cycle(c, x)
    PROVE  IInv'
<1>1. /\ state = "TRACE" /\ currentCycle[c].cycle <= x.cycle
      /\ cycle' = At(c, x)
      /\ currentCycle' = [currentCycle EXCEPT ![c] = x]
      /\ state' = IF WrongPhase(c, x) \/ TooLong(c, x) THEN "ERROR" ELSE state
      /\ UNCHANGED <<itemMoves, trackMoves>>
  BY DEF Cycle, Tracing, InSequence, Announced, IInv, ClocksOK, AnyCycle, Announcements
<1>2. x \in AnyCycle /\ x.cycle \in Nat /\ x.division \in 0..1 /\ MaxCycle \in Nat
  BY ClocksAssumption DEF Announcements, AnyCycle
<1>3. /\ cycle' \in [clock : Clocks, cycle : Int, division : 0..1]
      /\ cycle'.clock = c /\ cycle'.cycle = x.cycle /\ cycle'.division = x.division
  BY <1>1, <1>2 DEF At, AnyCycle
<1>4. currentCycle' \in [Clocks -> AnyCycle] /\ currentCycle'[c] = x
      /\ \A d \in Clocks : d # c => currentCycle'[d] = currentCycle[d]
  BY <1>1, <1>2 DEF IInv, ClocksOK
<1>5. \A d \in Clocks : currentCycle[d].cycle \in Int /\ currentCycle'[d].cycle \in Int
  BY <1>4 DEF IInv, ClocksOK, AnyCycle
<1>6. HeaderOK'
  BY <1>1 DEF HeaderOK
<1>7. CASE WrongPhase(c, x)
  <2>1. state' = "ERROR" /\ UNCHANGED <<isFirstCycle, firstEffectiveCycle, itemFirst>>
    BY <1>1, <1>7 DEF Cycle
  <2>2. \A d \in Clocks : currentCycle[d].cycle <= currentCycle'[d].cycle
    BY <1>1, <1>4, <1>5
  <2>3. \A d \in Clocks : firstEffectiveCycle[d].cycle \in Int
    BY DEF IInv, ClocksOK, AnyCycle
  <2>4. ClocksOK'
    BY <1>3, <1>4, <1>5, <2>1, <2>2, <2>3 DEF IInv, ClocksOK
  <2>5. FirstCycleKnown' /\ NotTooLong'
    BY <2>1 DEF FirstCycleKnown, NotTooLong
  <2>6. ItemFirstOK' /\ TrackMovesOK' /\ ItemMovesOK'
    BY <1>1, <2>1 DEF IInv, ItemFirstOK, TrackMovesOK, ItemMovesOK
  <2>7. QED
    BY <1>6, <2>4, <2>5, <2>6 DEF IInv
<1>8. CASE ~WrongPhase(c, x)
  <2> DEFINE f == FirstOf(c, x)
  <2>1. /\ itemFirst' = IF isFirstCycle[c] THEN [itemFirst EXCEPT ![Internal[c]] = x.cycle]
                        ELSE itemFirst
        /\ isFirstCycle' = [isFirstCycle EXCEPT ![c] = FALSE]
        /\ firstEffectiveCycle' = [firstEffectiveCycle EXCEPT ![c] = f]
    BY <1>8 DEF Cycle
  <2>2. f = IF isFirstCycle[c] THEN x ELSE firstEffectiveCycle[c]
    BY DEF FirstOf
  <2>3. TooLong(c, x) <=> x.cycle - f.cycle > MAXCYCLES
    BY DEF TooLong
  <2> HIDE DEF f
  <2>4. f \in AnyCycle /\ f.cycle \in Int /\ 0 <= f.cycle /\ f.cycle <= x.cycle
    <3>1. CASE isFirstCycle[c]
      BY <1>2, <2>2, <3>1
    <3>2. CASE ~isFirstCycle[c]
      <4>1. /\ f = firstEffectiveCycle[c] /\ 0 <= firstEffectiveCycle[c].cycle
            /\ firstEffectiveCycle[c].cycle <= currentCycle[c].cycle
            /\ firstEffectiveCycle[c] \in AnyCycle
        BY <2>2, <3>2 DEF IInv, ClocksOK
      <4>2. QED
        BY <1>1, <1>2, <1>5, <4>1 DEF AnyCycle
    <3>3. QED
      BY <3>1, <3>2
  <2>5. /\ firstEffectiveCycle' \in [Clocks -> AnyCycle] /\ firstEffectiveCycle'[c] = f
        /\ \A d \in Clocks : d # c => firstEffectiveCycle'[d] = firstEffectiveCycle[d]
    BY <2>1, <2>4 DEF IInv, ClocksOK
  <2>6. /\ isFirstCycle' \in [Clocks -> BOOLEAN] /\ ~isFirstCycle'[c]
        /\ \A d \in Clocks : d # c => isFirstCycle'[d] = isFirstCycle[d]
    BY <2>1 DEF IInv, ClocksOK
  <2>7. Internal \in [Clocks -> Clocks] /\ x.cycle \in Int
    BY <1>2, ClocksAssumption
  <2>8. itemFirst' \in [Clocks -> Int]
    BY <2>1, <2>7 DEF IInv, ClocksOK
  <2>9. ClocksOK'
    <3>1. ASSUME NEW d \in Clocks, ~isFirstCycle'[d]
          PROVE  /\ 0 <= firstEffectiveCycle'[d].cycle
                 /\ firstEffectiveCycle'[d].cycle <= currentCycle'[d].cycle
      <4>1. CASE d = c
        BY <1>4, <2>4, <2>5, <4>1
      <4>2. CASE d # c
        BY <1>4, <2>5, <2>6, <3>1, <4>2 DEF IInv, ClocksOK
      <4>3. QED
        BY <4>1, <4>2
    <3>2. QED
      BY <1>3, <1>4, <2>5, <2>6, <2>8, <3>1 DEF ClocksOK
  <2>10. FirstCycleKnown'
    <3>1. SUFFICES ASSUME state' = "TRACE" PROVE FirstCycleKnown'
      BY DEF FirstCycleKnown
    <3>2. x.division < Divisions[c]
      <4>1. Divisions[c] \in {1, 2}
        BY ClocksAssumption
      <4>2. QED
        BY <1>2, <1>8, <4>1 DEF WrongPhase
    <3>3. cycle' = At(c, currentCycle'[c])
      BY <1>1, <1>4
    <3>4. QED
      BY <1>3, <2>4, <2>5, <2>6, <3>2, <3>3 DEF FirstCycleKnown, At
  <2>11. NotTooLong'
    <3>1. state' = "TRACE" => ~(x.cycle - f.cycle > MAXCYCLES)
      BY <1>1, <2>3
    <3>2. x.cycle \in Int /\ f.cycle \in Int /\ MAXCYCLES \in Int
      BY <1>2, <2>4, ClocksAssumption
    <3>3. QED
      BY <1>3, <2>5, <3>1, <3>2 DEF NotTooLong
  <2>12. ItemFirstOK'
    <3>1. SUFFICES ASSUME Distinct, NEW d \in Clocks, ~isFirstCycle'[d]
                   PROVE  itemFirst'[Internal[d]] = firstEffectiveCycle'[d].cycle
      BY DEF ItemFirstOK, Distinct
    <3>2. itemFirst \in [Clocks -> Int]
      BY DEF IInv, ClocksOK
    <3>3. CASE d = c
      <4>1. CASE isFirstCycle[c]
        BY <2>1, <2>2, <2>5, <2>7, <3>2, <3>3, <4>1
      <4>2. CASE ~isFirstCycle[c]
        BY <2>1, <2>2, <2>5, <3>1, <3>3, <4>2 DEF IInv, ItemFirstOK
      <4>3. QED
        BY <4>1, <4>2
    <3>4. CASE d # c
      <4>1. Internal[d] # Internal[c] /\ Internal[d] \in Clocks
        BY <2>7, <3>1, <3>4 DEF Distinct
      <4>2. itemFirst'[Internal[d]] = itemFirst[Internal[d]]
        BY <2>1, <3>2, <4>1
      <4>3. QED
        BY <2>5, <2>6, <3>1, <3>4, <4>2 DEF IInv, ItemFirstOK
    <3>5. QED
      BY <3>3, <3>4
  <2>13. TrackMovesOK'
    <3>1. \A d \in Clocks : ~isFirstCycle[d] =>
             firstEffectiveCycle'[d] = firstEffectiveCycle[d] /\ ~isFirstCycle'[d]
      BY <2>2, <2>5, <2>6
    <3>2. QED
      BY <1>1, <3>1 DEF IInv, TrackMovesOK
  <2>14. ItemMovesOK'
    BY <1>1 DEF IInv, ItemMovesOK
  <2>15. QED
    BY <1>6, <2>9, <2>10, <2>11, <2>12, <2>13, <2>14 DEF IInv
<1>9. QED
  BY <1>7, <1>8

-----------------------------------------------------------------------------
(* Moves.                                                                  *)

LEMMA MoveItemsIInv == ASSUME IInv, NEW e \in Edges, NEW s, MoveItems(e, s) PROVE IInv'
<1> DEFINE bad    == \E k \in DOMAIN s : s[k] \notin items
           stored == IF bad THEN 1 .. Known(s) ELSE DOMAIN s
           moves  == {[item |-> s[k], edge |-> e, pos |-> NextPos(e) + k - 1, at |-> cycle] :
                          k \in stored}
<1>1. /\ state = "TRACE" /\ state' \in {"TRACE", "ERROR"}
      /\ UNCHANGED clockVars
      /\ itemMoves' = itemMoves \cup {Encoded(m) : m \in moves}
      /\ trackMoves' \subseteq trackMoves \cup moves
  BY DEF MoveItems, Tracing
<1>2. UNCHANGED <<cycle, currentCycle, firstEffectiveCycle, isFirstCycle, itemFirst>>
  BY <1>1 DEF clockVars
<1>3. PICK c \in Clocks : c = cycle.clock
  BY DEF IInv, ClocksOK
<1>4. /\ ~isFirstCycle[c] /\ cycle.cycle \in Int /\ firstEffectiveCycle[c].cycle \in Int
      /\ cycle.cycle - firstEffectiveCycle[c].cycle \in 0 .. MAXCYCLES
  <2>1. /\ ~isFirstCycle[c] /\ firstEffectiveCycle[c].cycle <= cycle.cycle
        /\ cycle.cycle - firstEffectiveCycle[c].cycle <= MAXCYCLES
    BY <1>1, <1>3 DEF IInv, FirstCycleKnown, NotTooLong
  <2>2. cycle.cycle \in Int /\ firstEffectiveCycle[c].cycle \in Int /\ MAXCYCLES \in Nat
    BY ClocksAssumption DEF IInv, ClocksOK, AnyCycle
  <2>3. QED
    BY <2>1, <2>2
<1>5. \A m \in moves : m.at = cycle
  OBVIOUS
<1>6. ASSUME NEW m \in moves, Distinct PROVE Encoded(m).at.cycle \in 0 .. MAXCYCLES
  <2>1. PICK k \in stored :
            m = [item |-> s[k], edge |-> e, pos |-> NextPos(e) + k - 1, at |-> cycle]
    OBVIOUS
  <2>2. PICK at \in [clock : Clocks, cycle : Int, division : 0..1] : at = cycle
    BY DEF IInv, ClocksOK
  <2>3. m.at = at /\ "at" \in DOMAIN m /\ at.clock = c
    BY <1>3, <2>1, <2>2
  <2> DEFINE i == Internal[c]
             at1 == [at EXCEPT !.clock = i]
             at2 == [at1 EXCEPT !.cycle = @ - itemFirst[i]]
  <2>4. Encoded(m) = [[m EXCEPT !.at.clock = i] EXCEPT !.at.cycle = @ - itemFirst[i]]
    BY <2>3 DEF Encoded
  <2>5. Encoded(m).at = at2
    BY <2>3, <2>4
  <2>6. at2.cycle = at.cycle - itemFirst[i]
    OBVIOUS
  <2>7. itemFirst[i] = firstEffectiveCycle[c].cycle
    BY <1>4, <1>6 DEF IInv, ItemFirstOK
  <2>8. QED
    BY <1>4, <2>2, <2>5, <2>6, <2>7
<1> HIDE DEF moves
<1>7. ItemMovesOK'
  <2>1. Distinct => \A m \in itemMoves : m.at.cycle \in 0 .. MAXCYCLES
    BY DEF IInv, ItemMovesOK
  <2>2. QED
    BY <1>1, <1>6, <2>1 DEF ItemMovesOK, Distinct
<1>8. TrackMovesOK'
  <2>1. \A m \in moves :
           /\ m.at.clock \in Clocks /\ ~isFirstCycle[m.at.clock]
           /\ m.at.cycle - firstEffectiveCycle[m.at.clock].cycle \in 0 .. MAXCYCLES
    BY <1>3, <1>4, <1>5
  <2>2. QED
    BY <1>1, <1>2, <2>1 DEF IInv, TrackMovesOK
<1>9. ClocksOK' /\ HeaderOK' /\ NotTooLong' /\ ItemFirstOK'
  BY <1>1, <1>2 DEF IInv, ClocksOK, HeaderOK, NotTooLong, ItemFirstOK
<1>10. FirstCycleKnown'
  BY <1>1, <1>2 DEF IInv, FirstCycleKnown, At
<1>11. QED
  BY <1>7, <1>8, <1>9, <1>10 DEF IInv

(* An id used again loses its moves.                                       *)
LEMMA NewItemIInv == ASSUME IInv, NEW i \in Items, NewItem(i) PROVE IInv'
<1>1. /\ state = "TRACE" /\ state' = state
      /\ UNCHANGED <<cycle, currentCycle, firstEffectiveCycle, isFirstCycle, itemFirst>>
      /\ itemMoves' \subseteq itemMoves /\ trackMoves' = trackMoves
  BY DEF NewItem, Tracing, clockVars
<1>2. ClocksOK' /\ HeaderOK' /\ NotTooLong' /\ ItemFirstOK' /\ TrackMovesOK'
  BY <1>1 DEF IInv, ClocksOK, HeaderOK, NotTooLong, ItemFirstOK, TrackMovesOK
<1>3. FirstCycleKnown' /\ ItemMovesOK'
  BY <1>1 DEF IInv, FirstCycleKnown, ItemMovesOK, At
<1>4. QED
  BY <1>2, <1>3 DEF IInv

-----------------------------------------------------------------------------
(* All steps.                                                              *)

LEMMA NextIInv == ASSUME IInv, [Next]_vars PROVE IInv'
<1>1. CASE Version \/ Rejected \/ HeaderLoaded \/ HeaderFails \/ UNCHANGED vars
  <2>1. /\ UNCHANGED <<clockVars, itemMoves, trackMoves>>
        /\ state' = "TRACE" => state = "TRACE"
        /\ state' \in {"VERSION", "GRAPH"} => state \in {"VERSION", "GRAPH"}
    BY <1>1 DEF Version, Rejected, HeaderLoaded, HeaderFails, vars, moveVars
  <2>2. QED
    BY <2>1, QuietIInv
<1>2. CASE EndSimulation
  BY <1>2, EndIInv DEF EndSimulation, moveVars
<1>3. CASE Error
  <2>1. state' = "ERROR" /\ UNCHANGED <<itemMoves, trackMoves>>
        /\ (EndOfSimulation \/ UNCHANGED clockVars)
    BY <1>3 DEF Error, StillRunning, moveVars
  <2>2. CASE EndOfSimulation
    BY <2>1, <2>2, EndIInv
  <2>3. CASE UNCHANGED clockVars
    BY <2>1, <2>3, QuietIInv
  <2>4. QED
    BY <2>1, <2>2, <2>3
<1>4. ASSUME NEW n \in 0 .. MaxCycle, StartActivity(n) PROVE IInv'
  BY <1>4, StartIInv
<1>5. ASSUME NEW c \in Clocks, NEW x \in Announcements, Cycle(c, x) PROVE IInv'
  BY <1>5, CycleIInv
<1>6. ASSUME NEW i \in Items, NewItem(i) \/ DeleteItem(i) PROVE IInv'
  <2>1. CASE NewItem(i)
    BY <2>1, NewItemIInv
  <2>2. CASE DeleteItem(i)
    BY <2>2, QuietIInv DEF DeleteItem, moveVars
  <2>3. QED
    BY <1>6, <2>1, <2>2
<1>7. ASSUME NEW e \in Edges, NEW n \in 1 .. MaxMoves, NEW s \in [1..n -> Items],
             MoveItems(e, s)
      PROVE  IInv'
  BY <1>7, MoveItemsIInv
<1>8. CASE LoadFinish
  <2>1. UNCHANGED <<itemMoves, trackMoves>>
    BY <1>8 DEF LoadFinish, moveVars
  <2>2. \/ state' = state /\ UNCHANGED clockVars
        \/ state' = "END" /\ EndOfSimulation
    BY <1>8 DEF LoadFinish, StillRunning
  <2>3. QED
    BY <2>1, <2>2, EndIInv, QuietIInv
<1>9. QED
  BY <1>1, <1>2, <1>3, <1>4, <1>5, <1>6, <1>7, <1>8 DEF Next

LEMMA SpecIInv == Spec => []IInv
<1>1. Init => IInv
  BY InitIInv
<1>2. IInv /\ [Next]_vars => IInv'
  BY NextIInv
<1>3. QED
  BY <1>1, <1>2, PTL DEF Spec

(* The callbacks of a trace never index the heaps with a cycle relative to *)
(* -1, nor with a phase the clock does not have (DBListener::Cycle).       *)
THEOREM SpecFirstCycleKnown == Spec => []FirstCycleKnown
<1>1. IInv => FirstCycleKnown
  BY DEF IInv
<1>2. QED
  BY <1>1, SpecIInv, PTL

(* Unless two clocks share an internal clock, the cycles stored with moves *)
(* fit their bits.  When two do, the later one overwrites the first cycle  *)
(* the heap of the items has for both, and what was stored is then read    *)
(* relative to another one.                                                *)
THEOREM SpecRelativeCyclesFit == Spec => [](Distinct => RelativeCyclesFit)
<1>1. IInv => (Distinct => RelativeCyclesFit)
  BY DEF IInv, TrackMovesOK, ItemMovesOK, RelativeCyclesFit
<1>2. QED
  BY <1>1, SpecIInv, PTL

-----------------------------------------------------------------------------
(* The two heaps hold the same moves.                                      *)

(* A trace that was regular and without an error so far.                   *)
Good == /\ regular /\ state \in {"VERSION", "GRAPH", "TRACE", "END"}
        /\ loader \in {"header", "loading"}

TrackMove == [item : items, edge : Edges, pos : Int,
              at : [clock : Clocks, cycle : Int, division : 0..1]]

(* No move is later than the current cycle of its clock, which only goes   *)
(* on in a regular trace.                                                  *)
PastOK ==
    \A m \in trackMoves :
        LET x == currentCycle[m.at.clock]
        IN  m.at.cycle < x.cycle \/ (m.at.cycle = x.cycle /\ m.at.division <= x.division)

(* The positions taken in the current cycle are those before the next one. *)
PositionsOK ==
    state = "TRACE" => \A m \in trackMoves : m.at = cycle => m.pos < lastUsedPos[m.edge]

(* What the items have is what the tracks have, as an item stores it.      *)
SameMoves == Distinct => itemMoves = {Encoded(m) : m \in trackMoves}

MovesInv ==
    /\ lastUsedPos \in [Edges -> Int]
    /\ loader = "header" => itemMoves = {} /\ trackMoves = {}
    /\ Good => trackMoves \subseteq TrackMove /\ PastOK /\ PositionsOK /\ SameMoves

LEMMA InitMovesInv == Init => MovesInv
  BY DEF Init, MovesInv, PastOK, PositionsOK, SameMoves

(* Nothing is announced or stored.                                         *)
LEMMA QuietMovesInv ==
    ASSUME MovesInv,
           UNCHANGED <<items, currentCycle, itemFirst, lastUsedPos, itemMoves, trackMoves>>,
           Good' => Good, loader' = "header" => loader = "header",
           state' = "TRACE" => state = "TRACE" /\ cycle' = cycle
    PROVE  MovesInv'
<1>1. ASSUME Good'
      PROVE  (trackMoves \subseteq TrackMove)' /\ PastOK' /\ PositionsOK' /\ SameMoves'
  BY <1>1 DEF MovesInv, TrackMove, PastOK, PositionsOK, SameMoves, Distinct, Encoded
<1>2. QED
  BY <1>1 DEF MovesInv

(* There are no moves yet.                                                 *)
LEMMA EmptyMovesInv ==
    ASSUME itemMoves' = {}, trackMoves' = {}, lastUsedPos' \in [Edges -> Int]
    PROVE  MovesInv'
  BY DEF MovesInv, PastOK, PositionsOK, SameMoves

(* A cycle is announced.  Those of a clock that has moves do not change    *)
(* the cycle its moves are relative to.                                    *)
LEMMA CycleMovesInv ==
    ASSUME IInv, MovesInv, NEW c \in Clocks, NEW x \in Announcements, Cycle(c, x)
    PROVE  MovesInv'
<1>1. /\ cycle' = At(c, x) /\ currentCycle' = [currentCycle EXCEPT ![c] = x]
      /\ lastUsedPos' = [e \in Edges |-> 0]
      /\ UNCHANGED <<loader, items, itemMoves, trackMoves>>
      /\ state = "TRACE"
      /\ regular' = (regular /\ Later(c, x))
  BY DEF Cycle, Announced, Tracing, itemVars
<1>2. lastUsedPos' \in [Edges -> Int]
  BY <1>1
<1>3. loader' = "header" => itemMoves' = {} /\ trackMoves' = {}
  BY <1>1 DEF MovesInv
<1>4. SUFFICES ASSUME Good'
               PROVE  (trackMoves \subseteq TrackMove)' /\ PastOK' /\ PositionsOK' /\ SameMoves'
  BY <1>2, <1>3 DEF MovesInv
<1>5. Good /\ Later(c, x)
  BY <1>1, <1>4 DEF Good
<1>6. /\ trackMoves \subseteq TrackMove /\ PastOK /\ SameMoves
  BY <1>5 DEF MovesInv
<1>7. (trackMoves \subseteq TrackMove)'
  BY <1>1, <1>6 DEF TrackMove
<1>8. /\ currentCycle \in [Clocks -> AnyCycle] /\ x.cycle \in Int /\ x.division \in 0..1
  BY ClocksAssumption DEF IInv, ClocksOK, Announcements
<1>9. \A m \in trackMoves : /\ m.at.clock \in Clocks /\ m.at.cycle \in Int
                            /\ m.at.division \in 0..1
  BY <1>6 DEF TrackMove
<1>10. ASSUME NEW m \in trackMoves, m.at.clock = c
       PROVE  \/ m.at.cycle < x.cycle
              \/ m.at.cycle = x.cycle /\ m.at.division < x.division
  <2>1. currentCycle[c].cycle \in Int /\ currentCycle[c].division \in 0..1
    BY <1>8 DEF AnyCycle
  <2>2. \/ m.at.cycle < currentCycle[c].cycle
        \/ m.at.cycle = currentCycle[c].cycle /\ m.at.division <= currentCycle[c].division
    BY <1>6, <1>10 DEF PastOK
  <2>3. \/ x.cycle > currentCycle[c].cycle
        \/ x.cycle = currentCycle[c].cycle /\ x.division > currentCycle[c].division
    BY <1>5 DEF Later
  <2>4. QED
    BY <1>8, <1>9, <2>1, <2>2, <2>3
<1>11. PastOK'
  <2>1. ASSUME NEW m \in trackMoves
        PROVE  LET y == currentCycle'[m.at.clock]
               IN  m.at.cycle < y.cycle \/ (m.at.cycle = y.cycle /\ m.at.division <= y.division)
    <3>1. CASE m.at.clock = c
      <4>1. currentCycle'[m.at.clock] = x
        BY <1>1, <1>8, <3>1
      <4>2. QED
        BY <1>8, <1>9, <1>10, <3>1, <4>1
    <3>2. CASE m.at.clock # c
      BY <1>1, <1>6, <1>8, <1>9, <3>2 DEF PastOK
    <3>3. QED
      BY <3>1, <3>2
  <2>2. QED
    BY <1>1, <2>1 DEF PastOK
<1>12. PositionsOK'
  <2>1. \A m \in trackMoves : m.at # At(c, x)
    BY <1>8, <1>9, <1>10 DEF At
  <2>2. QED
    BY <1>1, <2>1 DEF PositionsOK
<1>13. SameMoves'
  <2>1. SUFFICES ASSUME Distinct PROVE itemMoves' = {Encoded(m)' : m \in trackMoves'}
    BY DEF SameMoves, Distinct
  <2>2. itemFirst \in [Clocks -> Int] /\ Internal \in [Clocks -> Clocks]
    BY ClocksAssumption DEF IInv, ClocksOK
  <2>3. ASSUME NEW m \in trackMoves
        PROVE  itemFirst'[Internal[m.at.clock]] = itemFirst[Internal[m.at.clock]]
    <3>1. itemFirst' = itemFirst
          \/ (isFirstCycle[c] /\ itemFirst' = [itemFirst EXCEPT ![Internal[c]] = x.cycle])
      BY DEF Cycle
    <3>2. ~isFirstCycle[m.at.clock]
      BY DEF IInv, TrackMovesOK
    <3>3. isFirstCycle[c] => Internal[m.at.clock] # Internal[c]
      BY <1>9, <2>1, <3>2 DEF Distinct
    <3>4. QED
      BY <1>9, <2>2, <3>1, <3>3
  <2>4. \A m \in trackMoves : Encoded(m)' = Encoded(m)
    BY <2>3 DEF Encoded
  <2>5. itemMoves = {Encoded(m) : m \in trackMoves}
    BY <1>6, <2>1 DEF SameMoves
  <2>6. QED
    BY <1>1, <2>4, <2>5
<1>14. QED
  BY <1>7, <1>11, <1>12, <1>13

(* An id no item had.                                                      *)
LEMMA NewItemMovesInv ==
    ASSUME IInv, MovesInv, NEW i \in Items, NewItem(i) PROVE MovesInv'
<1>1. /\ UNCHANGED <<loader, state, cycle, currentCycle, itemFirst, lastUsedPos, trackMoves>>
      /\ regular' = (regular /\ i \notin items) /\ items' = items \cup {i}
      /\ itemMoves' = {m \in itemMoves : m.item # i}
  BY DEF NewItem, clockVars
<1>2. loader' = "header" => itemMoves' = {} /\ trackMoves' = {}
  BY <1>1 DEF MovesInv
<1>3. SUFFICES ASSUME Good'
               PROVE  (trackMoves \subseteq TrackMove)' /\ PastOK' /\ PositionsOK' /\ SameMoves'
  BY <1>1, <1>2 DEF MovesInv
<1>4. Good /\ i \notin items
  BY <1>1, <1>3 DEF Good
<1>5. trackMoves \subseteq TrackMove /\ PastOK /\ PositionsOK /\ SameMoves
  BY <1>4 DEF MovesInv
<1>6. (trackMoves \subseteq TrackMove)'
  BY <1>1, <1>5 DEF TrackMove
<1>7. PastOK' /\ PositionsOK'
  BY <1>1, <1>5 DEF PastOK, PositionsOK
<1>8. SameMoves'
  <2>1. \A m \in trackMoves : Encoded(m).item \in items
    BY <1>5 DEF TrackMove, Encoded
  <2>2. Distinct => itemMoves' = itemMoves
    BY <1>1, <1>4, <1>5, <2>1 DEF SameMoves
  <2>3. \A m \in trackMoves : Encoded(m)' = Encoded(m)
    BY <1>1 DEF Encoded
  <2>4. QED
    BY <1>1, <1>5, <2>2, <2>3 DEF SameMoves, Distinct
<1>9. QED
  BY <1>6, <1>7, <1>8

(* The moves of a call that ends well are at positions no move is at.      *)
LEMMA MoveItemsMovesInv ==
    ASSUME IInv, MovesInv, NEW e \in Edges, NEW n \in 1 .. MaxMoves,
           NEW s \in [1..n -> Items], MoveItems(e, s)
    PROVE  MovesInv'
<1> DEFINE bad    == \E k \in DOMAIN s : s[k] \notin items
           stored == IF bad THEN 1 .. Known(s) ELSE DOMAIN s
           moves  == {[item |-> s[k], edge |-> e, pos |-> NextPos(e) + k - 1, at |-> cycle] :
                          k \in stored}
           clear  == {m \in trackMoves : Place(m) \notin {Place(o) : o \in moves}}
<1>1. /\ state = "TRACE" /\ Reading
      /\ UNCHANGED <<loader, regular, cycle, currentCycle, itemFirst, items>>
      /\ itemMoves' = itemMoves \cup {Encoded(m) : m \in moves}
      /\ state' \in {"TRACE", "ERROR"}
      /\ state' = "TRACE" => ~bad /\ EdgeClock[e] = cycle.clock
      /\ EdgeClock[e] = cycle.clock => trackMoves' = clear \cup moves
      /\ lastUsedPos' = IF bad THEN lastUsedPos
                        ELSE [lastUsedPos EXCEPT ![e] = NextPos(e) + Len(s)]
  BY DEF MoveItems, Tracing, clockVars, itemVars
<1>2. Len(s) = n /\ n \in Nat /\ DOMAIN s = 1 .. n
  BY BoundsAssumption
<1>3. lastUsedPos \in [Edges -> Int] /\ lastUsedPos[e] \in Int
  BY DEF MovesInv
<1>4. lastUsedPos' \in [Edges -> Int]
  BY <1>1, <1>2, <1>3 DEF NextPos
<1>5. loader' # "header"
  BY <1>1 DEF Reading
<1>6. SUFFICES ASSUME Good'
               PROVE  (trackMoves \subseteq TrackMove)' /\ PastOK' /\ PositionsOK' /\ SameMoves'
  BY <1>4, <1>5 DEF MovesInv
<1>7. /\ Good /\ state' = "TRACE" /\ ~bad /\ stored = 1 .. n
      /\ trackMoves' = clear \cup moves
      /\ lastUsedPos' = [lastUsedPos EXCEPT ![e] = lastUsedPos[e] + n]
  BY <1>1, <1>2, <1>6 DEF Good, NextPos
<1>8. trackMoves \subseteq TrackMove /\ PastOK /\ PositionsOK /\ SameMoves
  BY <1>7 DEF MovesInv
<1>9. \A m \in moves : \E k \in 1 .. n :
          m = [item |-> s[k], edge |-> e, pos |-> lastUsedPos[e] + k - 1, at |-> cycle]
  BY <1>7 DEF NextPos
<1>10. \A k \in 1 .. n : s[k] \in items
  BY <1>2, <1>7
<1>11. \A m \in moves :
           /\ m.item \in items /\ m.edge = e /\ m.at = cycle /\ m \in TrackMove
           /\ m.pos \in Int /\ lastUsedPos[e] <= m.pos /\ m.pos < lastUsedPos[e] + n
  <2>1. cycle \in [clock : Clocks, cycle : Int, division : 0..1]
    BY DEF IInv, ClocksOK
  <2>2. QED
    BY <1>2, <1>3, <1>9, <1>10, <2>1 DEF TrackMove
<1>12. clear = trackMoves
  <2>1. SUFFICES ASSUME NEW m \in trackMoves, NEW o \in moves, Place(m) = Place(o)
                 PROVE  FALSE
    OBVIOUS
  <2>2. m.edge = o.edge /\ m.pos = o.pos /\ m.at = o.at
    BY <2>1 DEF Place
  <2>3. m.pos < lastUsedPos[e]
    BY <1>1, <1>8, <1>11, <2>2 DEF PositionsOK
  <2>4. QED
    BY <1>3, <1>11, <2>2, <2>3
<1>13. trackMoves' = trackMoves \cup moves
  BY <1>7, <1>12
<1> HIDE DEF moves, clear, bad, stored
<1>14. (trackMoves \subseteq TrackMove)'
  <2>1. TrackMove' = TrackMove
    BY <1>1 DEF TrackMove
  <2>2. QED
    BY <1>8, <1>11, <1>13, <2>1
<1>15. PastOK'
  <2>1. cycle = At(cycle.clock, currentCycle[cycle.clock])
    BY <1>1 DEF IInv, FirstCycleKnown
  <2>2. cycle.clock \in Clocks /\ cycle.cycle \in Int /\ cycle.division \in 0..1
    BY DEF IInv, ClocksOK
  <2>3. \A m \in moves : LET x == currentCycle[m.at.clock]
                         IN  m.at.cycle = x.cycle /\ m.at.division <= x.division
    BY <1>11, <2>1, <2>2 DEF At
  <2>4. QED
    BY <1>1, <1>8, <1>13, <2>3 DEF PastOK
<1>16. PositionsOK'
  <2>1. ASSUME NEW m \in trackMoves', m.at = cycle PROVE m.pos < lastUsedPos'[m.edge]
    <3>1. CASE m \in moves
      BY <1>3, <1>7, <1>11, <3>1
    <3>2. CASE m \in trackMoves
      <4>1. m.edge \in Edges /\ m.pos \in Int /\ m.pos < lastUsedPos[m.edge]
        BY <1>1, <1>8, <2>1, <3>2 DEF PositionsOK, TrackMove
      <4>2. lastUsedPos[m.edge] \in Int /\ lastUsedPos[m.edge] <= lastUsedPos'[m.edge]
        BY <1>2, <1>3, <1>7, <4>1
      <4>3. QED
        BY <1>4, <4>1, <4>2
    <3>3. QED
      BY <1>13, <3>1, <3>2
  <2>2. QED
    BY <1>1, <2>1 DEF PositionsOK
<1>17. SameMoves'
  <2>1. \A m : Encoded(m)' = Encoded(m)
    BY <1>1 DEF Encoded
  <2>2. Distinct => itemMoves' = {Encoded(m) : m \in trackMoves \cup moves}
    BY <1>1, <1>8 DEF SameMoves
  <2>3. QED
    BY <1>13, <2>1, <2>2 DEF SameMoves, Distinct
<1>18. QED
  BY <1>14, <1>15, <1>16, <1>17

LEMMA NextMovesInv == ASSUME IInv, MovesInv, [Next]_vars PROVE MovesInv'
<1> USE DEF clockVars, itemVars, moveVars
<1>1. CASE Version \/ Rejected \/ HeaderFails \/ UNCHANGED vars
  BY <1>1, QuietMovesInv DEF Version, Rejected, HeaderFails, vars, Good
<1>2. CASE EndSimulation \/ Error \/ LoadFinish \/ (\E i \in Items : DeleteItem(i))
  <2>1. UNCHANGED <<items, currentCycle, itemFirst, lastUsedPos, itemMoves, trackMoves>>
    BY <1>2 DEF EndSimulation, Error, LoadFinish, DeleteItem, EndOfSimulation, StillRunning
  <2>2. /\ Good' => Good
        /\ loader' = "header" => loader = "header"
        /\ state' = "TRACE" => state = "TRACE" /\ cycle' = cycle
    BY <1>2 DEF EndSimulation, Error, LoadFinish, DeleteItem, StillRunning, Good, Tracing, Reading
  <2>3. QED
    BY <2>1, <2>2, QuietMovesInv
<1>3. CASE HeaderLoaded
  BY <1>3, EmptyMovesInv DEF HeaderLoaded, MovesInv
<1>4. ASSUME NEW k \in 0 .. MaxCycle, StartActivity(k) PROVE MovesInv'
  BY <1>4, EmptyMovesInv DEF StartActivity, Announced, IInv, HeaderOK
<1>5. ASSUME NEW c \in Clocks, NEW x \in Announcements, Cycle(c, x) PROVE MovesInv'
  BY <1>5, CycleMovesInv
<1>6. ASSUME NEW i \in Items, NewItem(i) PROVE MovesInv'
  BY <1>6, NewItemMovesInv
<1>7. ASSUME NEW e \in Edges, NEW n \in 1 .. MaxMoves, NEW s \in [1..n -> Items],
             MoveItems(e, s)
      PROVE  MovesInv'
  BY <1>7, MoveItemsMovesInv
<1>8. QED
  BY <1>1, <1>2, <1>3, <1>4, <1>5, <1>6, <1>7 DEF Next

LEMMA SpecMovesInv == Spec => []MovesInv
<1>1. Init => MovesInv
  BY InitMovesInv
<1>2. IInv /\ MovesInv /\ [Next]_vars => MovesInv'
  BY NextMovesInv
<1>3. QED
  BY <1>1, <1>2, SpecIInv, PTL DEF Spec

(* A move is read back from its item as it was stored.                     *)
LEMMA DecodedEncoded ==
    ASSUME Distinct, ClocksOK, NEW m,
           m = [item |-> m.item, edge |-> m.edge, pos |-> m.pos, at |-> m.at],
           m.at \in [clock : Clocks, cycle : Int, division : 0..1]
    PROVE  Decoded(Encoded(m)) = m
<1> DEFINE c == m.at.clock
           i == Internal[c]
           first == itemFirst[i]
<1>1. /\ c \in Clocks /\ i \in Clocks /\ first \in Int /\ m.at.cycle \in Int
      /\ m = [item |-> m.item, edge |-> m.edge, pos |-> m.pos, at |-> m.at]
      /\ m.at = [clock |-> c, cycle |-> m.at.cycle, division |-> m.at.division]
  BY ClocksAssumption DEF ClocksOK
<1>2. internalToExternalClock(i) = c
  <2>1. {d \in Clocks : Internal[d] = i} = {c}
    BY <1>1 DEF Distinct
  <2>2. c <= c
    BY <1>1 DEF Clocks
  <2>3. QED
    BY <2>1, <2>2 DEF internalToExternalClock, Min
<1>3. Encoded(m) = [item |-> m.item, edge |-> m.edge, pos |-> m.pos,
                    at |-> [clock |-> i, cycle |-> m.at.cycle - first,
                            division |-> m.at.division]]
  <2> DEFINE n == [m EXCEPT !.at.clock = i]
  <2>1. n = [item |-> m.item, edge |-> m.edge, pos |-> m.pos,
             at |-> [clock |-> i, cycle |-> m.at.cycle, division |-> m.at.division]]
    BY <1>1
  <2>2. Encoded(m) = [n EXCEPT !.at.cycle = @ - first]
    BY DEF Encoded
  <2> HIDE DEF n
  <2>3. QED
    BY <2>1, <2>2
<1>4. QED
  <2> DEFINE n == Encoded(m)
             o == [n EXCEPT !.at.clock = c]
  <2> HIDE DEF n
  <2>1. n.at.clock = i /\ n.at.cycle = m.at.cycle - first
    BY <1>3 DEF n
  <2>2. o = [item |-> m.item, edge |-> m.edge, pos |-> m.pos,
             at |-> [clock |-> c, cycle |-> m.at.cycle - first,
                     division |-> m.at.division]]
    BY <1>3 DEF n
  <2>3. Decoded(n) = [o EXCEPT !.at.cycle = @ + first]
    BY <1>2, <2>1 DEF Decoded
  <2> HIDE DEF o
  <2>4. (m.at.cycle - first) + first = m.at.cycle
    BY <1>1
  <2>5. QED
    BY <1>1, <2>2, <2>3, <2>4 DEF n

(* In every regular trace without an error, the moves stored with the      *)
(* items are those stored with the edges, as long as no two clocks share   *)
(* an internal clock (MoveItems, newMoveItem, addMoveItem).                *)
THEOREM SpecMovesMatch == Spec => [](Distinct => MovesMatch)
<1>1. IInv /\ MovesInv => (Distinct => MovesMatch)
  <2>1. SUFFICES ASSUME IInv, MovesInv, Distinct, Good
                 PROVE  {Decoded(m) : m \in itemMoves} =
                            {[m EXCEPT !.at.clock = internalToExternalClock(Internal[@])] :
                                 m \in trackMoves}
    BY DEF MovesMatch, Good
  <2>2. trackMoves \subseteq TrackMove /\ itemMoves = {Encoded(m) : m \in trackMoves}
    BY <2>1 DEF MovesInv, SameMoves
  <2>3. \A m \in trackMoves : Decoded(Encoded(m)) = m
    BY <2>1, <2>2, DecodedEncoded DEF IInv, TrackMove
  <2>4. ASSUME NEW m \in trackMoves
        PROVE  [m EXCEPT !.at.clock = internalToExternalClock(Internal[@])] = m
    <3> DEFINE c == m.at.clock
    <3>1. /\ c \in Clocks
          /\ m = [item |-> m.item, edge |-> m.edge, pos |-> m.pos, at |-> m.at]
          /\ m.at = [clock |-> c, cycle |-> m.at.cycle, division |-> m.at.division]
      BY <2>2 DEF TrackMove
    <3>2. {d \in Clocks : Internal[d] = Internal[c]} = {c} /\ c <= c
      BY <2>1, <3>1 DEF Distinct, Clocks
    <3>3. internalToExternalClock(Internal[c]) = c
      BY <3>2 DEF internalToExternalClock, Min
    <3>4. QED
      BY <3>1, <3>3
  <2>5. QED
    BY <2>2, <2>3, <2>4
<1>2. QED
  BY <1>1, SpecIInv, SpecMovesInv, PTL

-----------------------------------------------------------------------------
(* Bounds of a set of numbers.                                             *)

(* Finitely many numbers have a greatest: a smallest set of them that had  *)
(* none would have one without any of its members, and thus one.           *)
LEMMA GreatestExists ==
    ASSUME NEW D, IsFiniteSet(D), D # {}, NEW f, \A c \in D : f[c] \in Int
    PROVE  \E d \in D : \A c \in D : f[c] <= f[d]
<1> DEFINE Greatest(T, d) == \A c \in T : f[c] <= f[d]
           without == {T \in SUBSET D : T # {} /\ ~\E d \in T : Greatest(T, d)}
<1>1. SUFFICES ASSUME without # {} PROVE FALSE
  OBVIOUS
<1>2. PICK T \in without : \A U \in without : ~(U \subseteq T /\ U # T)
  <2>1. IsWellFoundedOn(StrictSubsetOrdering(D), SUBSET D)
    <3>1. FiniteSubsetsOf(D) = SUBSET D
      BY ONLY IsFiniteSet(D), FS_FiniteSubsetsOfFinite
    <3>2. QED
      BY <3>1, FS_StrictSubsetOrderingWellFounded
  <2>2. without \subseteq SUBSET D
    OBVIOUS
  <2>3. PICK T \in without : \A U \in without : ~(<<U, T>> \in StrictSubsetOrdering(D))
    <3> HIDE DEF without
    <3>1. QED
      BY <1>1, <2>1, <2>2, WFMin
  <2>4. \A U \in without : ~(U \subseteq T /\ U # T)
    BY <2>2, <2>3 DEF StrictSubsetOrdering
  <2>5. QED
    BY <2>4
<1>3. T \subseteq D /\ T # {} /\ ~\E d \in T : Greatest(T, d)
  OBVIOUS
<1>4. PICK x \in T : TRUE
  BY <1>3
<1> DEFINE U == T \ {x}
<1>5. f[x] \in Int /\ \A c \in U : f[c] \in Int
  BY <1>3
<1>6. CASE U = {}
  BY <1>3, <1>5, <1>6
<1>7. CASE U # {}
  <2>1. PICK d \in U : Greatest(U, d)
    <3>1. U \in SUBSET D /\ U \subseteq T /\ U # T
      BY <1>3, <1>4
    <3>2. U \notin without
      BY <1>2, <3>1
    <3>3. QED
      BY <1>7, <3>1, <3>2
  <2>2. CASE f[d] <= f[x]
    BY <1>3, <1>5, <2>1, <2>2
  <2>3. CASE f[x] <= f[d]
    BY <1>3, <1>5, <2>1, <2>3
  <2>4. QED
    BY <1>5, <2>1, <2>2, <2>3
<1>8. QED
  BY <1>6, <1>7

(* Among some natural numbers there is a first one.                        *)
LEMMA LeastOf ==
    ASSUME NEW T \in SUBSET Nat, T # {}
    PROVE  \E x \in T : \A y \in T : x <= y
<1> DEFINE R == OpToRel(<, Nat)
<1>1. IsWellFoundedOn(R, Nat)
  BY NatLessThanWellFounded
<1>2. \A y, x \in Nat : <<y, x>> \in R <=> y < x
  BY DEF OpToRel
<1> HIDE DEF R
<1>3. PICK x \in T : \A y \in T : ~(<<y, x>> \in R)
  BY <1>1, WFMin
<1>4. ASSUME NEW y \in T PROVE x <= y
  <2>1. x \in Nat /\ y \in Nat
    OBVIOUS
  <2>2. ~(y < x)
    BY <1>2, <1>3, <2>1
  <2>3. QED
    BY <2>1, <2>2
<1>5. QED
  BY <1>4

(* The bounds taken over the clocks hold for each of them.                 *)
LEMMA BoundsOfClocks ==
    ASSUME NEW f, \A c \in Clocks : f[c] \in Int, NEW S, S = {f[c] : c \in Clocks}
    PROVE  /\ Min(S) \in S /\ Max(S) \in S
           /\ \A c \in Clocks : Min(S) <= f[c] /\ f[c] <= Max(S)
<1>1. IsFiniteSet(Clocks) /\ 0 \in Clocks
  BY ClocksAssumption, FS_Interval DEF Clocks
<1>2. PICK d \in Clocks : \A c \in Clocks : f[c] <= f[d]
  BY <1>1, GreatestExists
<1>3. PICK b \in Clocks : \A c \in Clocks : f[b] <= f[c]
  <2> DEFINE g == [c \in Clocks |-> 0 - f[c]]
  <2>1. \A c \in Clocks : g[c] \in Int /\ g[c] = 0 - f[c]
    OBVIOUS
  <2> HIDE DEF g
  <2>2. PICK b \in Clocks : \A c \in Clocks : g[c] <= g[b]
    BY <1>1, <2>1, GreatestExists
  <2>3. \A c \in Clocks : f[b] <= f[c]
    BY <2>1, <2>2
  <2>4. QED
    BY <2>3
<1>4. Min(S) \in S /\ \A y \in S : Min(S) <= y
  BY <1>3 DEF Min
<1>5. Max(S) \in S /\ \A y \in S : y <= Max(S)
  BY <1>2 DEF Max
<1>6. QED
  BY <1>4, <1>5

-----------------------------------------------------------------------------
(* The inductive invariant.                                                *)

Tick(x) == 2 * x.cycle + x.division

(* What was stored at a cycle between the first and the current one of its *)
(* clock.                                                                  *)
InRange(at) ==
    /\ at \in [clock : Clocks, cycle : Int, division : 0..1] /\ ~isFirstCycle[at.clock]
    /\ Tick(firstEffectiveCycle[at.clock]) <= Tick(at)
    /\ Tick(at) <= Tick(currentCycle[at.clock])

IsMove(m) == m = [item |-> m.item, edge |-> m.edge, pos |-> m.pos, at |-> m.at]

StoredInRange(m) == \E k : IsMove(k) /\ InRange(k.at) /\ m = Encoded(k)

(* In a regular trace, with an error or not.                               *)
RangesOK ==
    regular =>
        /\ \A c \in Clocks :
              ~isFirstCycle[c] => Tick(firstEffectiveCycle[c]) <= Tick(currentCycle[c])
        /\ \A m \in trackMoves : InRange(m.at)
        /\ Distinct => \A m \in itemMoves : StoredInRange(m)

(* Nothing is announced after the end, when the bounds were taken.         *)
BoundsOK ==
    state = "END" =>
        bounds = [first |-> Min({toLCM(c, firstEffectiveCycle[c]) : c \in Clocks}),
                  last  |-> Max({toLCM(c, currentCycle[c]) : c \in Clocks})]

RInv == RangesOK /\ BoundsOK

LEMMA InitRInv == Init => RInv
  BY DEF Init, RInv, RangesOK, BoundsOK

(* Nothing is announced or stored.                                         *)
LEMMA QuietRanges ==
    ASSUME RangesOK, regular' => regular, trackMoves' = trackMoves, itemMoves' \subseteq itemMoves,
           UNCHANGED <<currentCycle, firstEffectiveCycle, isFirstCycle, itemFirst>>
    PROVE  RangesOK'
<1>1. \A at : InRange(at)' <=> InRange(at)
  BY DEF InRange
<1>2. \A k : Encoded(k)' = Encoded(k)
  BY DEF Encoded
<1>3. \A m : StoredInRange(m) => StoredInRange(m)'
  BY <1>1, <1>2 DEF StoredInRange
<1>4. QED
  BY <1>1, <1>3 DEF RangesOK

(* Clocks only go on, and one that has moves keeps its first cycle.        *)
LEMMA CycleRanges ==
    ASSUME IInv, RangesOK, NEW c \in Clocks, NEW x \in Announcements, Cycle(c, x)
    PROVE  RangesOK'
<1>1. /\ regular' = (regular /\ Later(c, x))
      /\ currentCycle' = [currentCycle EXCEPT ![c] = x]
      /\ UNCHANGED <<itemMoves, trackMoves>>
  BY DEF Cycle, Announced
<1>2. SUFFICES ASSUME regular, Later(c, x)
      PROVE  /\ \A d \in Clocks : ~isFirstCycle'[d] =>
                    Tick(firstEffectiveCycle'[d]) <= Tick(currentCycle'[d])
             /\ \A m \in trackMoves : InRange(m.at)'
             /\ Distinct => \A m \in itemMoves : StoredInRange(m)'
  BY <1>1 DEF RangesOK, Distinct
<1>3. /\ currentCycle \in [Clocks -> AnyCycle] /\ firstEffectiveCycle \in [Clocks -> AnyCycle]
      /\ isFirstCycle \in [Clocks -> BOOLEAN] /\ itemFirst \in [Clocks -> Int]
      /\ x \in AnyCycle
  BY ClocksAssumption DEF IInv, ClocksOK, Announcements, AnyCycle
<1>4. \A y \in AnyCycle : y.cycle \in Int /\ y.division \in 0..1 /\ Tick(y) \in Int
  BY DEF AnyCycle, Tick
<1>5. \A d \in Clocks : /\ currentCycle[d] \in AnyCycle /\ firstEffectiveCycle[d] \in AnyCycle
                         /\ currentCycle'[d] = IF d = c THEN x ELSE currentCycle[d]
  BY <1>1, <1>3
<1>6. Tick(currentCycle[c]) < Tick(x)
  BY <1>2, <1>3, <1>4, <1>5 DEF Later, Tick
<1>7. \A d \in Clocks : ~isFirstCycle[d] =>
          ~isFirstCycle'[d] /\ firstEffectiveCycle'[d] = firstEffectiveCycle[d]
  BY <1>3 DEF Cycle, FirstOf
<1>8. \A d \in Clocks : isFirstCycle[d] /\ ~isFirstCycle'[d] =>
          d = c /\ firstEffectiveCycle'[d] = x
  BY <1>3 DEF Cycle, FirstOf
<1>9. \A d \in Clocks : Tick(currentCycle[d]) <= Tick(currentCycle'[d])
  BY <1>3, <1>4, <1>5, <1>6
<1>10. ASSUME NEW d \in Clocks, ~isFirstCycle'[d]
       PROVE  Tick(firstEffectiveCycle'[d]) <= Tick(currentCycle'[d])
  <2>1. CASE isFirstCycle[d]
    BY <1>3, <1>4, <1>5, <1>8, <1>10, <2>1
  <2>2. CASE ~isFirstCycle[d]
    <3>1. /\ Tick(firstEffectiveCycle[d]) \in Int /\ Tick(currentCycle[d]) \in Int
          /\ Tick(currentCycle'[d]) \in Int
      BY <1>3, <1>4, <1>5
    <3>2. Tick(firstEffectiveCycle[d]) <= Tick(currentCycle[d])
      BY <1>2, <2>2 DEF RangesOK
    <3>3. QED
      BY <1>7, <1>9, <2>2, <3>1, <3>2
  <2>3. QED
    BY <2>1, <2>2
<1>11. ASSUME NEW at, InRange(at) PROVE InRange(at)'
  <2>1. PICK d \in Clocks : d = at.clock
    BY <1>11 DEF InRange
  <2>2. Tick(at) \in Int /\ Tick(currentCycle[d]) \in Int /\ Tick(currentCycle'[d]) \in Int
    BY <1>3, <1>4, <1>5, <1>11 DEF InRange, Tick
  <2>3. Tick(at) <= Tick(currentCycle'[d])
    BY <1>9, <1>11, <2>1, <2>2 DEF InRange
  <2>4. QED
    BY <1>7, <1>11, <2>1, <2>3 DEF InRange
<1>12. ASSUME Distinct, NEW k, InRange(k.at) PROVE Encoded(k)' = Encoded(k)
  <2>1. Internal \in [Clocks -> Clocks] /\ k.at.clock \in Clocks /\ ~isFirstCycle[k.at.clock]
    BY <1>12, ClocksAssumption DEF InRange
  <2>2. \/ itemFirst' = itemFirst
        \/ isFirstCycle[c] /\ itemFirst' = [itemFirst EXCEPT ![Internal[c]] = x.cycle]
    BY DEF Cycle
  <2>3. itemFirst'[Internal[k.at.clock]] = itemFirst[Internal[k.at.clock]]
    BY <1>3, <1>12, <2>1, <2>2 DEF Distinct
  <2>4. QED
    BY <2>3 DEF Encoded
<1>13. QED
  BY <1>2, <1>10, <1>11, <1>12 DEF RangesOK, StoredInRange

(* Moves are stored at the current cycle, that of its clock.               *)
LEMMA MoveItemsRanges ==
    ASSUME IInv, RangesOK, NEW e \in Edges, NEW s, MoveItems(e, s) PROVE RangesOK'
<1> DEFINE stored == IF \E k \in DOMAIN s : s[k] \notin items THEN 1 .. Known(s) ELSE DOMAIN s
           moves  == {[item |-> s[k], edge |-> e, pos |-> NextPos(e) + k - 1, at |-> cycle] :
                          k \in stored}
<1>1. /\ state = "TRACE" /\ regular' = regular
      /\ UNCHANGED <<currentCycle, firstEffectiveCycle, isFirstCycle, itemFirst>>
      /\ itemMoves' = itemMoves \cup {Encoded(m) : m \in moves}
      /\ trackMoves' \subseteq trackMoves \cup moves
  BY DEF MoveItems, Tracing, clockVars
<1>2. \A m \in moves : IsMove(m) /\ m.at = cycle
  BY DEF IsMove
<1> HIDE DEF moves
<1>3. SUFFICES ASSUME regular
      PROVE  /\ \A d \in Clocks : ~isFirstCycle'[d] =>
                    Tick(firstEffectiveCycle'[d]) <= Tick(currentCycle'[d])
             /\ \A m \in trackMoves' : InRange(m.at)'
             /\ Distinct => \A m \in itemMoves' : StoredInRange(m)'
  BY <1>1 DEF RangesOK, Distinct
<1>4. /\ \A d \in Clocks : ~isFirstCycle[d] =>
             Tick(firstEffectiveCycle[d]) <= Tick(currentCycle[d])
      /\ \A m \in trackMoves : InRange(m.at)
      /\ Distinct => \A m \in itemMoves : StoredInRange(m)
  BY <1>3 DEF RangesOK
<1>5. InRange(cycle)
  <2>1. cycle \in [clock : Clocks, cycle : Int, division : 0..1]
    BY DEF IInv, ClocksOK
  <2>2. PICK c \in Clocks : c = cycle.clock
    BY <2>1
  <2>3. ~isFirstCycle[c] /\ cycle = At(c, currentCycle[c])
    BY <1>1, <2>2 DEF IInv, FirstCycleKnown
  <2>4. Tick(cycle) = Tick(currentCycle[c]) /\ Tick(cycle) \in Int
    BY <2>1, <2>3 DEF At, Tick
  <2>5. Tick(firstEffectiveCycle[c]) <= Tick(cycle) /\ Tick(cycle) <= Tick(currentCycle[c])
    BY <1>4, <2>3, <2>4
  <2>6. QED
    BY <2>1, <2>2, <2>3, <2>5 DEF InRange
<1>6. \A at : InRange(at)' <=> InRange(at)
  BY <1>1 DEF InRange
<1>7. \A k : Encoded(k)' = Encoded(k)
  BY <1>1 DEF Encoded
<1>8. \A m : StoredInRange(m)' <=> StoredInRange(m)
  BY <1>6, <1>7 DEF StoredInRange
<1>9. \A m \in moves : StoredInRange(Encoded(m))
  BY <1>2, <1>5 DEF StoredInRange
<1>10. QED
  BY <1>1, <1>2, <1>4, <1>5, <1>6, <1>8, <1>9

(* The bounds are taken when the trace ends, and nothing is announced then.*)
LEMMA EndBounds == ASSUME EndOfSimulation PROVE BoundsOK'
  BY DEF EndOfSimulation, BoundsOK, Lowest

LEMMA QuietBounds ==
    ASSUME BoundsOK, state' = "END" => state = "END",
           state = "END" => UNCHANGED <<bounds, currentCycle, firstEffectiveCycle>>
    PROVE  BoundsOK'
  BY DEF BoundsOK

LEMMA NextRInv == ASSUME IInv, RInv, [Next]_vars PROVE RInv'
<1> USE DEF RInv
<1>1. CASE Version \/ Rejected \/ HeaderLoaded \/ HeaderFails \/ UNCHANGED vars
  <2>1. /\ UNCHANGED <<currentCycle, firstEffectiveCycle, isFirstCycle, itemFirst, bounds>>
        /\ UNCHANGED <<regular, itemMoves, trackMoves>>
        /\ state' = "END" => state = "END"
    BY <1>1 DEF Version, Rejected, HeaderLoaded, HeaderFails, vars, clockVars, moveVars, endVars
  <2>2. QED
    BY <2>1, QuietRanges, QuietBounds
<1>2. ASSUME NEW i \in Items, NewItem(i) \/ DeleteItem(i) PROVE RInv'
  <2>1. /\ UNCHANGED <<currentCycle, firstEffectiveCycle, isFirstCycle, itemFirst, bounds>>
        /\ UNCHANGED <<state, trackMoves>>
        /\ regular' => regular
    <3>1. CASE NewItem(i)
      BY <3>1 DEF NewItem, clockVars, endVars
    <3>2. CASE DeleteItem(i)
      BY <3>2 DEF DeleteItem, clockVars, moveVars, endVars
    <3>3. QED
      BY <1>2, <3>1, <3>2
  <2>2. itemMoves' \subseteq itemMoves
    BY <1>2 DEF NewItem, DeleteItem, moveVars
  <2>3. QED
    BY <2>1, <2>2, QuietRanges, QuietBounds
<1>3. CASE EndSimulation \/ Error \/ LoadFinish
  <2>1. /\ regular' = regular /\ UNCHANGED <<trackMoves, itemMoves>>
        /\ UNCHANGED <<currentCycle, firstEffectiveCycle, isFirstCycle, itemFirst>>
    BY <1>3 DEF EndSimulation, Error, LoadFinish, EndOfSimulation, StillRunning,
                clockVars, moveVars
  <2>2. EndOfSimulation \/ (UNCHANGED bounds /\ (state' = "END" => state = "END"))
    BY <1>3 DEF EndSimulation, Error, LoadFinish, StillRunning, endVars
  <2>3. QED
    BY <2>1, <2>2, QuietRanges, QuietBounds, EndBounds
<1>4. ASSUME NEW n \in 0 .. MaxCycle, StartActivity(n) PROVE RInv'
  <2> DEFINE x == [cycle |-> n, division |-> 0]
  <2>1. /\ state' = "TRACE" /\ UNCHANGED <<itemMoves, trackMoves>>
        /\ currentCycle' = [currentCycle EXCEPT ![0] = x]
        /\ firstEffectiveCycle' = [firstEffectiveCycle EXCEPT ![0] = x]
        /\ isFirstCycle' = [isFirstCycle EXCEPT ![0] = FALSE]
    BY <1>4 DEF StartActivity, Announced
  <2>2. itemMoves = {} /\ trackMoves = {} /\ \A c \in Clocks : isFirstCycle[c]
    BY <1>4 DEF StartActivity, IInv, HeaderOK
  <2> HIDE DEF x
  <2>3. \A c \in Clocks : ~isFirstCycle'[c] => firstEffectiveCycle'[c] = x /\ currentCycle'[c] = x
    BY <2>1, <2>2 DEF IInv, ClocksOK
  <2>4. Tick(x) \in Int
    BY ClocksAssumption DEF x, Tick
  <2>5. RangesOK'
    BY <2>1, <2>2, <2>3, <2>4 DEF RangesOK
  <2>6. QED
    BY <2>1, <2>5 DEF BoundsOK
<1>5. ASSUME NEW c \in Clocks, NEW x \in Announcements, Cycle(c, x) PROVE RInv'
  <2>1. state' \in {"TRACE", "ERROR"}
    BY <1>5 DEF Cycle, Tracing
  <2>2. QED
    BY <1>5, <2>1, CycleRanges DEF BoundsOK
<1>6. ASSUME NEW e \in Edges, NEW n \in 1 .. MaxMoves, NEW s \in [1..n -> Items],
             MoveItems(e, s)
      PROVE  RInv'
  <2>1. state' \in {"TRACE", "ERROR"}
    BY <1>6 DEF MoveItems, Tracing
  <2>2. QED
    BY <1>6, <2>1, MoveItemsRanges DEF BoundsOK
<1>7. QED
  BY <1>1, <1>2, <1>3, <1>4, <1>5, <1>6 DEF Next

LEMMA SpecRInv == Spec => []RInv
<1>1. Init => RInv
  BY InitRInv
<1>2. IInv /\ RInv /\ [Next]_vars => RInv'
  BY NextRInv
<1>3. QED
  BY <1>1, <1>2, SpecIInv, PTL DEF Spec

-----------------------------------------------------------------------------
(* The bounds cover what was stored.                                       *)

LEMMA ProductMonotone ==
    ASSUME NEW a \in Int, NEW b \in Int, a <= b, NEW r \in Nat, NEW k \in Nat
    PROVE  a * r + k <= b * r + k
<1>1. PICK d \in Nat : b = a + d
  <2>1. b - a \in Nat /\ b = a + (b - a)
    OBVIOUS
  <2>2. QED
    BY <2>1
<1>2. b * r = a * r + d * r /\ d * r \in Nat /\ a * r \in Int
  BY <1>1
<1>3. QED
  BY <1>2

(* A cycle between two others of its clock is between them in LCM cycles.  *)
LEMMA LCMOfRange ==
    ASSUME IInv, BoundsOK, state = "END", NEW at, InRange(at)
    PROVE  toLCM(at.clock, at) \in bounds.first .. bounds.last
<1>1. PICK c \in Clocks : c = at.clock
  BY DEF InRange
<1>2. /\ firstEffectiveCycle \in [Clocks -> AnyCycle] /\ currentCycle \in [Clocks -> AnyCycle]
      /\ \A d \in Clocks : Ratio[d] \in Nat /\ Skew[d] \in Nat
  BY ClocksAssumption DEF IInv, ClocksOK
<1>3. ASSUME NEW y \in AnyCycle, NEW d \in Clocks PROVE Tick(y) \in Int /\ toLCM(d, y) \in Int
  BY <1>2 DEF AnyCycle, Tick, toLCM
<1>4. Tick(at) \in Int
  BY DEF InRange, Tick
<1> DEFINE F == [d \in Clocks |-> toLCM(d, firstEffectiveCycle[d])]
           L == [d \in Clocks |-> toLCM(d, currentCycle[d])]
<1>5. \A d \in Clocks : F[d] \in Int /\ L[d] \in Int
  BY <1>2, <1>3
<1>6. bounds.first = Min({F[d] : d \in Clocks}) /\ bounds.last = Max({L[d] : d \in Clocks})
  BY DEF BoundsOK
<1>7. /\ bounds.first \in Int /\ bounds.last \in Int
      /\ bounds.first <= F[c] /\ L[c] <= bounds.last
  <2> HIDE DEF F, L
  <2>1. bounds.first \in {F[d] : d \in Clocks} /\ bounds.first <= F[c]
    BY <1>5, <1>6, BoundsOfClocks
  <2>2. bounds.last \in {L[d] : d \in Clocks} /\ L[c] <= bounds.last
    BY <1>5, <1>6, BoundsOfClocks
  <2>3. QED
    BY <1>5, <2>1, <2>2
<1>8. F[c] <= toLCM(c, at) /\ toLCM(c, at) <= L[c] /\ toLCM(c, at) \in Int
  <2>1. /\ F[c] = Tick(firstEffectiveCycle[c]) * Ratio[c] + Skew[c]
        /\ L[c] = Tick(currentCycle[c]) * Ratio[c] + Skew[c]
        /\ toLCM(c, at) = Tick(at) * Ratio[c] + Skew[c]
    BY DEF toLCM, Tick
  <2>2. /\ Tick(firstEffectiveCycle[c]) \in Int /\ Tick(currentCycle[c]) \in Int
        /\ Tick(firstEffectiveCycle[c]) <= Tick(at) /\ Tick(at) <= Tick(currentCycle[c])
    BY <1>1, <1>2, <1>3 DEF InRange
  <2>3. F[c] <= toLCM(c, at) /\ toLCM(c, at) <= L[c]
    BY <1>2, <1>4, <2>1, <2>2, ProductMonotone
  <2>4. QED
    BY <1>2, <1>4, <2>1, <2>3
<1>9. F[c] \in Int /\ L[c] \in Int
  BY <1>5
<1> HIDE DEF F, L
<1>10. QED
  BY <1>1, <1>7, <1>8, <1>9

(* However a regular trace ends, all that was stored is between the first  *)
(* and the last cycle the views are given, as long as no two clocks share  *)
(* an internal clock (Do_EndSimulation, MoveItems).                        *)
THEOREM SpecBoundsCover == Spec => [](Distinct => BoundsCover)
<1>1. IInv /\ RInv => (Distinct => BoundsCover)
  <2>1. SUFFICES ASSUME IInv, RInv, Distinct, state = "END", regular,
                        NEW m \in {Decoded(n) : n \in itemMoves} \cup trackMoves
                 PROVE  toLCM(m.at.clock, m.at) \in bounds.first .. bounds.last
    BY DEF BoundsCover
  <2>2. /\ \A n \in trackMoves : InRange(n.at)
        /\ \A n \in itemMoves : StoredInRange(n)
    BY <2>1 DEF RInv, RangesOK
  <2>3. InRange(m.at)
    <3>1. CASE m \in trackMoves
      BY <2>2, <3>1
    <3>2. ASSUME NEW n \in itemMoves, m = Decoded(n) PROVE InRange(m.at)
      <4>1. PICK k : IsMove(k) /\ InRange(k.at) /\ n = Encoded(k)
        BY <2>2 DEF StoredInRange
      <4>2. Decoded(n) = k
        BY <2>1, <4>1, DecodedEncoded DEF IInv, IsMove, InRange
      <4>3. QED
        BY <3>2, <4>1, <4>2
    <3>3. QED
      BY <3>1, <3>2
  <2>4. QED
    BY <2>1, <2>3, LCMOfRange DEF RInv
<1>2. QED
  BY <1>1, SpecIInv, SpecRInv, PTL

-----------------------------------------------------------------------------
(* The types of the variables.  That a relative cycle is never below       *)
(* -MaxCycle needs the heap of the items to know a first cycle of every    *)
(* clock that has one, though clocks may share it.                         *)

Modes ==
    /\ state \in {"ERROR", "VERSION", "GRAPH", "TRACE", "END"}
    /\ loader \in {"header", "loading", "finished", "failed", "crashed"}
    /\ traceAchieved \in BOOLEAN /\ regular \in BOOLEAN

Times ==
    /\ cycle \in [clock : Clocks, cycle : Nat, division : 0..1]
    /\ currentCycle \in [Clocks -> CycleOf]
    /\ firstEffectiveCycle \in [Clocks -> CycleOf]
    /\ isFirstCycle \in [Clocks -> BOOLEAN]
    /\ itemFirst \in [Clocks -> -1 .. MaxCycle]
    /\ \A c \in Clocks : ~isFirstCycle[c] => itemFirst[Internal[c]] \in 0 .. MaxCycle

Entries == items \subseteq Items /\ deleted \subseteq items

Positions ==
    /\ lastUsedPos \in [Edges -> Int]
    /\ \A e \in Edges : lastUsedPos[e] \in 0 .. Bandwidth[e]

Moves == itemMoves \subseteq Move /\ trackMoves \subseteq Move

Ends == bounds \in [first : Int, last : Int] /\ compressed \subseteq Clocks

TInv == Modes /\ Times /\ Entries /\ Positions /\ Moves /\ Ends

LEMMA TInvTypeOK == TInv => TypeOK
BY DEF TInv, Modes, Times, Entries, Positions, Moves, Ends, TypeOK

LEMMA CycleTypes ==
    /\ MaxCycle \in Nat /\ 0 \in Clocks /\ Never \in CycleOf
    /\ Internal \in [Clocks -> Clocks]
    /\ Announcements \subseteq CycleOf /\ CycleOf \subseteq AnyCycle
    /\ \A x \in Announcements : x.cycle \in 0 .. MaxCycle /\ x.division \in 0..1
<1>1. MaxCycle \in Nat /\ 0 \in Clocks /\ Internal \in [Clocks -> Clocks]
  <2>1. 0 \in Clocks
    BY ClocksAssumption DEF Clocks
  <2>2. QED
    BY <2>1, ClocksAssumption
<1>2. QED
  BY <1>1 DEF Never, CycleOf, AnyCycle, Announcements

LEMMA ZeroPositions ==
    ASSUME lastUsedPos' = [e \in Edges |-> 0] PROVE Positions'
<1>1. \A e \in Edges : Bandwidth[e] \in Nat \ {0}
  BY EdgesAssumption
<1>2. QED
  BY <1>1 DEF Positions

LEMMA InitTInv == Init => TInv
<1> SUFFICES ASSUME Init PROVE TInv
  OBVIOUS
<1>1. Modes /\ Entries /\ Moves /\ Ends
  <2>1. Modes
    BY DEF Init, Modes
  <2>2. Entries /\ Moves
    BY DEF Init, Entries, Moves
  <2>3. Ends
    BY DEF Init, Ends
  <2>4. QED
    BY <2>1, <2>2, <2>3
<1>2. Times
  <2>1. cycle \in [clock : Clocks, cycle : Nat, division : 0..1]
    BY CycleTypes DEF Init
  <2>2. itemFirst \in [Clocks -> -1 .. MaxCycle]
    BY CycleTypes DEF Init
  <2>3. QED
    BY <2>1, <2>2, CycleTypes DEF Init, Times
<1>3. Positions
  <2>1. \A e \in Edges : Bandwidth[e] \in Nat \ {0}
    BY EdgesAssumption
  <2>2. QED
    BY <2>1 DEF Init, Positions
<1>4. QED
  BY <1>1, <1>2, <1>3 DEF TInv

(* The bounds are those of some clocks.                                    *)
LEMMA EndTypes ==
    ASSUME Times, Ends, EndOfSimulation PROVE Times' /\ Ends'
<1>1. ASSUME NEW c \in Clocks, NEW x \in CycleOf PROVE toLCM(c, x) \in Int
  <2>1. PICK q \in Int, d \in Int : q = x.cycle /\ d = x.division
    BY DEF CycleOf
  <2>2. PICK r \in Nat, s \in Nat : r = Ratio[c] /\ s = Skew[c]
    BY ClocksAssumption
  <2>3. (2 * q + d) * r + s \in Int
    OBVIOUS
  <2>4. QED
    BY <2>1, <2>2, <2>3 DEF toLCM
<1>2. Lowest({toLCM(c, firstEffectiveCycle[c]) : c \in Clocks}) \in Int
  <2> DEFINE f == [c \in Clocks |-> toLCM(c, firstEffectiveCycle[c])]
             S == {f[c] : c \in Clocks}
  <2>1. \A c \in Clocks : f[c] \in Int
    BY <1>1 DEF Times
  <2>2. S = {toLCM(c, firstEffectiveCycle[c]) : c \in Clocks} /\ S \subseteq Int
    BY <2>1
  <2>3. S = {f[c] : c \in Clocks}
    OBVIOUS
  <2> HIDE DEF f, S
  <2>4. Min(S) \in S
    BY <2>1, <2>3, BoundsOfClocks
  <2>5. QED
    BY <2>2, <2>4 DEF Lowest
<1>3. Max({toLCM(c, currentCycle[c]) : c \in Clocks}) \in Int
  <2> DEFINE f == [c \in Clocks |-> toLCM(c, currentCycle[c])]
             S == {f[c] : c \in Clocks}
  <2>1. \A c \in Clocks : f[c] \in Int
    BY <1>1 DEF Times
  <2>2. S = {toLCM(c, currentCycle[c]) : c \in Clocks} /\ S \subseteq Int
    BY <2>1
  <2>3. S = {f[c] : c \in Clocks}
    OBVIOUS
  <2> HIDE DEF f, S
  <2>4. Max(S) \in S
    BY <2>1, <2>3, BoundsOfClocks
  <2>5. QED
    BY <2>2, <2>4
<1>4. Ends'
  <2>1. cycle.clock \in Clocks
    BY DEF Times
  <2>2. QED
    BY <1>2, <1>3, <2>1 DEF EndOfSimulation, Ends
<1>5. cycle' \in [clock : Clocks, cycle : Nat, division : 0..1]
  <2>1. PICK k \in Nat : k = NumClocks * (CYCLE_CHUNK_SIZE + 1)
    <3>1. NumClocks * (CYCLE_CHUNK_SIZE + 1) \in Nat
      BY ClocksAssumption
    <3>2. QED
      BY <3>1
  <2>2. cycle' = [cycle EXCEPT !.cycle = @ + k]
    BY <2>1 DEF EndOfSimulation
  <2>3. QED
    BY <2>2 DEF Times
<1>6. Times'
  BY <1>5 DEF EndOfSimulation, Times
<1>7. QED
  BY <1>4, <1>6

LEMMA SameTimes == ASSUME Times, UNCHANGED clockVars PROVE Times'
BY DEF Times, clockVars

LEMMA SameEnds == ASSUME Ends, UNCHANGED endVars PROVE Ends'
BY DEF Ends, endVars

LEMMA StartTypes ==
    ASSUME TInv, NEW n \in 0 .. MaxCycle, StartActivity(n) PROVE TInv'
<1>1. PICK x : x = [cycle |-> n, division |-> 0]
  OBVIOUS
<1>2. n \in Nat /\ n \in -1 .. MaxCycle /\ x \in CycleOf /\ x.cycle = n /\ x.division = 0
  BY <1>1, CycleTypes DEF CycleOf
<1>3. /\ cycle' = At(0, x) /\ currentCycle' = [currentCycle EXCEPT ![0] = x]
      /\ lastUsedPos' = [e \in Edges |-> 0]
      /\ firstEffectiveCycle' = [firstEffectiveCycle EXCEPT ![0] = x]
      /\ isFirstCycle' = [isFirstCycle EXCEPT ![0] = FALSE]
      /\ itemFirst' = [itemFirst EXCEPT ![Internal[0]] = n]
  BY <1>1 DEF StartActivity, Announced
<1>4. Times'
  <2>1. cycle' \in [clock : Clocks, cycle : Nat, division : 0..1]
    BY <1>2, <1>3, CycleTypes DEF At
  <2>2. /\ currentCycle' \in [Clocks -> CycleOf] /\ firstEffectiveCycle' \in [Clocks -> CycleOf]
        /\ isFirstCycle' \in [Clocks -> BOOLEAN]
    BY <1>2, <1>3 DEF TInv, Times
  <2>3. itemFirst' \in [Clocks -> -1 .. MaxCycle]
    BY <1>2, <1>3 DEF TInv, Times
  <2>4. ASSUME NEW c \in Clocks, ~isFirstCycle'[c]
        PROVE  itemFirst'[Internal[c]] \in 0 .. MaxCycle
    <3>1. Internal[c] \in Clocks /\ Internal[0] \in Clocks /\ 0 \in Clocks
      BY CycleTypes
    <3>2. CASE Internal[c] = Internal[0]
      BY <1>3, <3>1, <3>2 DEF TInv, Times
    <3>3. CASE Internal[c] # Internal[0]
      <4>1. c # 0 /\ ~isFirstCycle[c]
        BY <1>3, <2>4, <3>1, <3>3 DEF TInv, Times
      <4>2. itemFirst[Internal[c]] \in 0 .. MaxCycle
        BY <4>1 DEF TInv, Times
      <4>3. QED
        BY <1>3, <3>1, <3>3, <4>2 DEF TInv, Times
    <3>4. QED
      BY <3>2, <3>3
  <2>5. QED
    BY <2>1, <2>2, <2>3, <2>4 DEF Times
<1>5. Modes' /\ Entries' /\ Moves' /\ Ends'
  BY DEF StartActivity, TInv, Modes, Entries, Moves, Ends, Move, itemVars, endVars
<1>6. QED
  BY <1>3, <1>4, <1>5, ZeroPositions DEF TInv

LEMMA AnnouncedTypes ==
    ASSUME TInv, NEW c \in Clocks, NEW x \in Announcements, Cycle(c, x) PROVE TInv'
<1>1. x \in CycleOf /\ x.cycle \in 0 .. MaxCycle /\ x.cycle \in Nat /\ x.division \in 0..1
  BY CycleTypes
<1>2. PICK y : y = FirstOf(c, x)
  OBVIOUS
<1>3. y \in CycleOf
  BY <1>1, <1>2 DEF FirstOf, TInv, Times
<1>4. /\ cycle' = At(c, x) /\ currentCycle' = [currentCycle EXCEPT ![c] = x]
      /\ lastUsedPos' = [e \in Edges |-> 0]
  BY DEF Cycle, Announced
<1>5. /\ cycle' \in [clock : Clocks, cycle : Nat, division : 0..1]
      /\ currentCycle' \in [Clocks -> CycleOf]
  BY <1>1, <1>4 DEF At, TInv, Times
<1>6. Times'
  <2>1. CASE UNCHANGED <<isFirstCycle, firstEffectiveCycle, itemFirst>>
    BY <1>5, <2>1 DEF TInv, Times
  <2>2. CASE /\ itemFirst' = IF isFirstCycle[c] THEN [itemFirst EXCEPT ![Internal[c]] = x.cycle]
                             ELSE itemFirst
             /\ isFirstCycle' = [isFirstCycle EXCEPT ![c] = FALSE]
             /\ firstEffectiveCycle' = [firstEffectiveCycle EXCEPT ![c] = y]
    <3>1. firstEffectiveCycle' \in [Clocks -> CycleOf] /\ isFirstCycle' \in [Clocks -> BOOLEAN]
      BY <1>3, <2>2 DEF TInv, Times
    <3>2. itemFirst' \in [Clocks -> -1 .. MaxCycle]
      <4>1. PICK k \in -1 .. MaxCycle : k = x.cycle
        BY <1>1
      <4>2. itemFirst \in [Clocks -> -1 .. MaxCycle]
        BY DEF TInv, Times
      <4>3. CASE isFirstCycle[c]
        BY <2>2, <4>1, <4>2, <4>3
      <4>4. CASE ~isFirstCycle[c]
        BY <2>2, <4>2, <4>4
      <4>5. QED
        BY <4>3, <4>4
    <3>3. ASSUME NEW d \in Clocks, ~isFirstCycle'[d]
          PROVE  itemFirst'[Internal[d]] \in 0 .. MaxCycle
      <4>1. Internal[d] \in Clocks /\ Internal[c] \in Clocks
        BY CycleTypes
      <4>2. CASE isFirstCycle[c] /\ Internal[d] = Internal[c]
        BY <1>1, <2>2, <4>1, <4>2 DEF TInv, Times
      <4>3. CASE isFirstCycle[c] /\ Internal[d] # Internal[c]
        <5>1. d # c /\ ~isFirstCycle[d]
          BY <2>2, <3>3, <4>3 DEF TInv, Times
        <5>2. itemFirst[Internal[d]] \in 0 .. MaxCycle
          BY <5>1 DEF TInv, Times
        <5>3. QED
          BY <2>2, <4>1, <4>3, <5>2 DEF TInv, Times
      <4>4. CASE ~isFirstCycle[c]
        <5>1. ~isFirstCycle[d]
          BY <2>2, <3>3, <4>4 DEF TInv, Times
        <5>2. QED
          BY <2>2, <4>4, <5>1 DEF TInv, Times
      <4>5. QED
        BY <4>2, <4>3, <4>4
    <3>4. QED
      BY <1>5, <3>1, <3>2, <3>3 DEF Times
  <2>3. QED
    BY <1>2, <2>1, <2>2 DEF Cycle
<1>7. Modes' /\ Entries' /\ Moves' /\ Ends'
  <2>1. regular' \in BOOLEAN /\ state' \in {"ERROR", "TRACE"}
    BY DEF Cycle, Tracing, TInv, Modes, Later
  <2>2. UNCHANGED <<loader, traceAchieved, items, deleted, itemMoves, trackMoves, bounds, compressed>>
    BY DEF Cycle, itemVars, endVars
  <2>3. QED
    BY <2>1, <2>2 DEF TInv, Modes, Entries, Moves, Ends, Move
<1>8. QED
  BY <1>4, <1>6, <1>7, ZeroPositions DEF TInv

LEMMA MoveItemsTypes ==
    ASSUME IInv, TInv, NEW e \in Edges, NEW n \in 1 .. MaxMoves, NEW s \in [1..n -> Items],
           MoveItems(e, s)
    PROVE  TInv'
<1> DEFINE bad    == \E k \in DOMAIN s : s[k] \notin items
           stored == IF bad THEN 1 .. Known(s) ELSE DOMAIN s
           moves  == {[item |-> s[k], edge |-> e, pos |-> NextPos(e) + k - 1, at |-> cycle] :
                          k \in stored}
<1>1. /\ state = "TRACE" /\ state' \in {"TRACE", "ERROR"}
      /\ UNCHANGED <<loader, traceAchieved, regular, clockVars, itemVars, endVars>>
      /\ NextPos(e) + Len(s) <= Bandwidth[e]
      /\ itemMoves' = itemMoves \cup {Encoded(m) : m \in moves}
      /\ trackMoves' \subseteq trackMoves \cup moves
      /\ lastUsedPos' = IF bad THEN lastUsedPos
                        ELSE [lastUsedPos EXCEPT ![e] = NextPos(e) + Len(s)]
  BY DEF MoveItems, Tracing
<1>2. Len(s) = n /\ n \in Nat /\ DOMAIN s = 1 .. n /\ Bandwidth[e] \in Nat
  BY BoundsAssumption, EdgesAssumption
<1>3. PICK p \in Nat : p = lastUsedPos[e] /\ p = NextPos(e) /\ p + n <= Bandwidth[e]
  BY <1>1, <1>2 DEF TInv, Positions, NextPos
<1>4. stored \subseteq 1 .. n
  <2>1. CASE ~bad
    BY <1>2, <2>1
  <2>2. CASE bad
    <3>1. PICK b \in 1 .. n : s[b] \notin items
      BY <1>2, <2>2
    <3>2. PICK I : I = {i \in 1 .. Len(s) : s[i] \notin items}
      OBVIOUS
    <3>3. PICK k : k = SelectInSeq(s, LAMBDA i : i \notin items)
      OBVIOUS
    <3>4. k = IF I # {} THEN Min(I) ELSE 0
      BY <3>2, <3>3 DEF SelectInSeq
    <3>5. b \in I /\ I \subseteq 1 .. n
      BY <1>2, <3>1, <3>2
    <3>6. PICK l \in I : \A j \in I : l <= j
      <4>1. I \in SUBSET Nat /\ I # {}
        BY <3>5
      <4>2. QED
        BY <4>1, LeastOf
    <3>7. Min(I) \in I
      BY <3>5, <3>6 DEF Min
    <3>8. k \in 1 .. n
      BY <3>4, <3>5, <3>7
    <3>9. Known(s) = k - 1
      BY <3>3 DEF Known
    <3>10. QED
      BY <2>2, <3>8, <3>9
  <2>3. QED
    BY <2>1, <2>2
<1>5. PICK c \in Clocks : c = cycle.clock
  BY DEF IInv, ClocksOK
<1>6. /\ ~isFirstCycle[c] /\ cycle.cycle \in 0 .. MaxCycle /\ cycle.division \in 0..1
      /\ cycle = [clock |-> c, cycle |-> cycle.cycle, division |-> cycle.division]
  <2>1. ~isFirstCycle[c] /\ cycle = At(c, currentCycle[c])
    BY <1>1, <1>5 DEF IInv, FirstCycleKnown
  <2>2. currentCycle[c].cycle \in -1 .. MaxCycle /\ cycle.cycle = currentCycle[c].cycle
    BY <2>1 DEF TInv, Times, CycleOf, At
  <2>3. cycle.cycle \in Nat /\ cycle.division \in 0..1
    BY DEF TInv, Times
  <2>4. cycle = [clock |-> c, cycle |-> cycle.cycle, division |-> cycle.division]
    BY <1>5 DEF TInv, Times
  <2>5. QED
    BY <2>1, <2>2, <2>3, <2>4, CycleTypes
<1>7. PICK x \in 0 .. MaxCycle, d \in 0..1 : cycle = [clock |-> c, cycle |-> x, division |-> d]
  BY <1>6
<1>8. ASSUME NEW m \in moves PROVE m \in Move /\ Encoded(m) \in Move
  <2>1. PICK k \in stored :
            m = [item |-> s[k], edge |-> e, pos |-> p + k - 1, at |-> cycle]
    BY <1>3
  <2>2. s[k] \in Items /\ p + k - 1 \in Nat
    BY <1>2, <1>4
  <2>3. PICK i \in Clocks, f \in 0 .. MaxCycle : i = Internal[c] /\ f = itemFirst[i]
    BY <1>6, CycleTypes DEF TInv, Times
  <2>4. x \in -MaxCycle .. MaxCycle /\ x - f \in -MaxCycle .. MaxCycle
    BY CycleTypes
  <2>5. m \in Move
    BY <1>7, <2>1, <2>2, <2>4 DEF Move
  <2>6. PICK a : a = [clock |-> i, cycle |-> x - f, division |-> d]
    OBVIOUS
  <2>7. Encoded(m) = [[m EXCEPT !.at.clock = i] EXCEPT !.at.cycle = @ - itemFirst[i]]
    BY <1>7, <2>1, <2>3 DEF Encoded
  <2>8. [m EXCEPT !.at.clock = i]
            = [item |-> s[k], edge |-> e, pos |-> p + k - 1,
               at |-> [clock |-> i, cycle |-> x, division |-> d]]
    BY <1>7, <2>1
  <2>9. Encoded(m) = [item |-> s[k], edge |-> e, pos |-> p + k - 1, at |-> a]
    <3>1. PICK b : b = [clock |-> i, cycle |-> x, division |-> d]
      OBVIOUS
    <3>2. [b EXCEPT !.cycle = @ - f] = a
      BY <2>6, <3>1
    <3>3. PICK r : r = [item |-> s[k], edge |-> e, pos |-> p + k - 1, at |-> b]
      OBVIOUS
    <3>4. Encoded(m) = [r EXCEPT !.at.cycle = @ - f]
      BY <2>3, <2>7, <2>8, <3>1, <3>3
    <3>5. [r EXCEPT !.at.cycle = @ - f] = [r EXCEPT !.at = [b EXCEPT !.cycle = @ - f]]
      BY <3>3
    <3>6. QED
      BY <3>2, <3>3, <3>4, <3>5
  <2>10. QED
    BY <2>2, <2>4, <2>5, <2>6, <2>9 DEF Move
<1> HIDE DEF moves, stored
<1>9. Moves'
  BY <1>1, <1>8 DEF TInv, Moves, Move
<1>10. Positions'
  <2>1. lastUsedPos' \in [Edges -> Int] /\ \A g \in Edges : g # e => lastUsedPos'[g] = lastUsedPos[g]
    BY <1>1, <1>2, <1>3 DEF TInv, Positions
  <2>2. lastUsedPos'[e] \in 0 .. Bandwidth[e]
    BY <1>1, <1>2, <1>3 DEF TInv, Positions
  <2>3. QED
    BY <2>1, <2>2 DEF TInv, Positions
<1>11. Modes' /\ Entries'
  BY <1>1 DEF TInv, Modes, Entries, itemVars
<1>12. QED
  BY <1>1, <1>9, <1>10, <1>11, SameTimes, SameEnds DEF TInv

LEMMA NextTInv == ASSUME IInv, TInv, [Next]_vars PROVE TInv'
<1>1. CASE Version \/ Rejected \/ HeaderFails \/ UNCHANGED vars
  <2>1. UNCHANGED <<clockVars, itemVars, moveVars, endVars>>
    BY <1>1 DEF Version, Rejected, HeaderFails, vars
  <2>2. Modes'
    BY <1>1 DEF Version, Rejected, HeaderFails, vars, TInv, Modes
  <2>3. Entries' /\ Positions' /\ Moves'
    BY <2>1 DEF TInv, Entries, Positions, Moves, Move, itemVars, moveVars
  <2>4. QED
    BY <2>1, <2>2, <2>3, SameTimes, SameEnds DEF TInv
<1>2. CASE EndSimulation \/ Error \/ LoadFinish
  <2>1. UNCHANGED <<itemVars, moveVars>> /\ (EndOfSimulation \/ StillRunning)
    BY <1>2 DEF EndSimulation, Error, LoadFinish
  <2>2. Modes'
    BY <1>2 DEF EndSimulation, Error, LoadFinish, TInv, Modes
  <2>3. Entries' /\ Positions' /\ Moves'
    BY <2>1 DEF TInv, Entries, Positions, Moves, Move, itemVars, moveVars
  <2>4. Times' /\ Ends'
    BY <2>1, EndTypes, SameTimes, SameEnds DEF TInv, StillRunning
  <2>5. QED
    BY <2>2, <2>3, <2>4 DEF TInv
<1>3. ASSUME NEW n \in 0 .. MaxCycle, StartActivity(n) PROVE TInv'
  BY <1>3, StartTypes
<1>4. ASSUME NEW c \in Clocks, NEW x \in Announcements, Cycle(c, x) PROVE TInv'
  BY <1>4, AnnouncedTypes
<1>5. ASSUME NEW i \in Items, NewItem(i) \/ DeleteItem(i) PROVE TInv'
  <2>1. UNCHANGED <<clockVars, lastUsedPos, endVars>>
    BY <1>5 DEF NewItem, DeleteItem, moveVars
  <2>2. Modes' /\ Entries' /\ Moves'
    BY <1>5 DEF NewItem, DeleteItem, Ended, TInv, Modes, Entries, Moves, Move, moveVars
  <2>3. Positions'
    BY <2>1 DEF TInv, Positions
  <2>4. QED
    BY <2>1, <2>2, <2>3, SameTimes, SameEnds DEF TInv
<1>6. ASSUME NEW e \in Edges, NEW n \in 1 .. MaxMoves, NEW s \in [1..n -> Items],
             MoveItems(e, s)
      PROVE  TInv'
  BY <1>6, MoveItemsTypes
<1>7. CASE HeaderLoaded
  <2>1. /\ UNCHANGED <<clockVars, itemVars, endVars, itemMoves, trackMoves>>
        /\ lastUsedPos' = [e \in Edges |-> 0]
    BY <1>7 DEF HeaderLoaded
  <2>2. Modes' /\ Entries' /\ Moves'
    BY <1>7, <2>1 DEF HeaderLoaded, TInv, Modes, Entries, Moves, Move, itemVars
  <2>3. QED
    BY <2>1, <2>2, ZeroPositions, SameTimes, SameEnds DEF TInv
<1>8. QED
  BY <1>1, <1>2, <1>3, <1>4, <1>5, <1>6, <1>7 DEF Next

(* The variables of a trace have their types: a position never passes the  *)
(* bandwidth of its edge, a deleted item is one the heap knows, and a      *)
(* cycle stored with an item is relative to a first cycle there is         *)
(* (DBListener.cpp, the callbacks).                                        *)
THEOREM SpecTypeOK == Spec => []TypeOK
<1>1. Spec => []TInv
  BY InitTInv, NextTInv, SpecIInv, PTL DEF Spec
<1>2. QED
  BY <1>1, TInvTypeOK, PTL
=============================================================================
