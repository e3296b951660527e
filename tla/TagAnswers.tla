----------------------------- MODULE TagAnswers -----------------------------
(* What a tag answers for every tick of the trace, and that TagIdVec       *)
(* implements TagHistory by it.  The answers are kept in a variable of     *)
(* their own: TLC would otherwise search the chunks again for every        *)
(* alternative of TagHistory.                                              *)
EXTENDS TagIdVec

VARIABLE answers

AnswersInit == Init /\ answers = Answers(tag)
AnswersNext == Next /\ answers' = Answers(tag')
AnswersSpec == AnswersInit /\ [][AnswersNext]_<<vars, answers>>

History == INSTANCE TagHistory WITH
    Ticks <- 2,
    now   <- 2 * cycle + phase,
    value <- answers

(* TagIdVec implements TagHistory: whatever was compressed, at any moment  *)
(* and for every cycle and phase of the trace, getTagValue answers what    *)
(* the trace said, and what it says of the past never changes.             *)
ImplementsTagHistory == History!Spec

(* What the tag answers for the ticks before the present never changes.    *)
PastIsKept ==
    [][\A t \in 0 .. 2 * cycle + phase - 1 : answers'[t] = answers[t]]_answers
=============================================================================
