---------------------------- MODULE MCEvaluation ----------------------------
(***************************************************************************)
(* Instances of Evaluation for TLC.                                        *)
(***************************************************************************)
EXTENDS Evaluation

CONSTANTS t1, t2, e1

\* Nothing to read; v2 better, with a score missing and one out of range; v1 better.
\* Two of the second kind and one of the third give equal means.
MCJudgements == {{}, {<<{}, {130}>>}, {<<{100}, {-20}>>}}
MCBounds == <<1, 2, 4>>
=============================================================================
