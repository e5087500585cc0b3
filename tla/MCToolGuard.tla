---------------------------- MODULE MCToolGuard ----------------------------
(* Model-checking instance of ToolGuard.                                    *)
EXTENDS ToolGuard, TLC

\* The calls of a turn are interchangeable.
CallSymmetry == Permutations(Calls)
=============================================================================
