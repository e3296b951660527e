----------------------------- MODULE MCTagIdVec -----------------------------
(* Instances of TagIdVec: a slot of a node, a tag of a node, a position of *)
(* an edge.                                                                *)
EXTENDS TagHandler, TagAnswers, TLC

CONSTANTS a, b

Use(ops, divisions, gap) ==
    [ops |-> ops, fwd |-> TRUE, divisions |-> divisions, maxGap |-> gap]

SlotOps == {"Set", "Undefine"}   \* EnterNode and ExitNode
TagOps  == {"Set"}               \* SetNodeTag and the like
EdgeOps == {"Move"}              \* MoveItems

(* A slot and a position whose clock skips cycles and whole chunks; a      *)
(* position that skips them and a tag that announces every cycle, the last *)
(* two in both phases.                                                     *)
Tracks == {Use(SlotOps, 1, 4), Use(EdgeOps, 1, 3),
           Use(EdgeOps, 2, 3), Use(TagOps, 2, 1)}

Slots == {Use(SlotOps, 2, 1)}
Tags  == {Use(TagOps, 2, 1)}
Far   == {Use(TagOps, 1, 32)}

(* A clock of one phase goes to the last cycle the listener accepts, but   *)
(* no item moves in it: WithinArray excepts that.  The clocks of two       *)
(* phases stop before it, to keep the instance small.                      *)
Last(u) ==
    CASE u.divisions = 1   -> MaxCycle
      [] "Set" \in u.ops  -> MaxCycle - 1
      [] "Move" \in u.ops -> MaxCycle - 2

MCNext ==
    /\ AnswersNext
    /\ (cycle <= Last(use))'
    /\ (moved => cycle + 1 < MAXCYCLES)'
MCSpec == AnswersInit /\ [][MCNext]_<<vars, answers>>

(* The values of a tag are only compared with each other.                  *)
Symmetry == Permutations(Values)
=============================================================================
