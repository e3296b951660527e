---------------------------- MODULE MCDBListener ----------------------------
(* Instances of DBListener for TLC: clock 0 of one phase, clock 1 of two   *)
(* and another frequency that starts late, or the same frequency and skew; *)
(* an edge on each of them.                                                *)
EXTENDS DBListener

CONSTANTS e1, e2

TwoDivisions == [c \in Clocks |-> c + 1]
TwoRatios    == [c \in Clocks |-> 3 - c]
TwoSkews     == [c \in Clocks |-> c]
OneRatio     == [c \in Clocks |-> 1]
NoSkew       == [c \in Clocks |-> 0]

OneInternal  == [c \in Clocks |-> 0]
TwoInternals == [c \in Clocks |-> c]

EdgePerClock == [e \in Edges |-> IF e = e1 THEN 0 ELSE NumClocks - 1]
FirstIsWider == [e \in Edges |-> IF e = e1 THEN 2 ELSE 1]
TwoPositions == [e \in Edges |-> 2]
OnePosition  == [e \in Edges |-> 1]

(* Two spaces in one run.  A trace that is regular moves two items through *)
(* all the positions, within two cycles; one that is not moves one item    *)
(* once, and has cycles enough to be too long.                             *)
Wide   == regular /\ \A c \in Clocks : currentCycle[c].cycle <= 1
Narrow == items \subseteq {1} /\ Cardinality(itemMoves) <= 1 /\ Cardinality(trackMoves) <= 1

MCNext == Next /\ (Wide \/ Narrow)'
MCSpec == Init /\ [][MCNext]_vars
=============================================================================
