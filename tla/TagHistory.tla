----------------------------- MODULE TagHistory -----------------------------
(***************************************************************************)
(* What a tag of a track promises, whatever stores it: for every moment of *)
(* the trace, the value the tag had then.  Time advances in ticks, one for *)
(* every phase of a clock cycle.  The trace only speaks of the present: a  *)
(* value holds from now on, until another one replaces it (SetNodeTag,     *)
(* EnterNode), it is cleared (ExitNode), or it holds for one cycle only    *)
(* (MoveItems).  TagIdVec implements this.                                 *)
(***************************************************************************)
EXTENDS Integers

CONSTANTS
    Values,   \* values of the tag
    NONE,     \* the tag has no value
    Ticks,    \* phases of a clock cycle
    Horizon   \* last tick

VARIABLES
    now,      \* tick of the trace
    value     \* value of the tag at every tick, as known now

vars == <<now, value>>

Times == 0..Horizon

Init == now \in 0 .. Ticks - 1 /\ value = [t \in Times |-> NONE]

Advance == /\ now' \in now + 1 .. Horizon
           /\ UNCHANGED value

(* What was said of the past stays, and `said` is known from now on.       *)
Say(said) ==
    /\ UNCHANGED now
    /\ \A t \in now .. Horizon : value'[t] = said[t]
    /\ \A t \in 0 .. now - 1 : value'[t] = value[t]

(* The tag has value v from now on, or none.                               *)
Set(v) == Say([t \in Times |-> v])

(* The tag has value v for the cycle that starts now.                      *)
Pulse(v) == Say([t \in Times |-> IF t < now + Ticks THEN v ELSE NONE])

Next == Advance \/ Set(NONE) \/ \E v \in Values : Set(v) \/ Pulse(v)

Spec == Init /\ [][Next]_vars
=============================================================================
