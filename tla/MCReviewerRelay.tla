-------------------------- MODULE MCReviewerRelay --------------------------
(***************************************************************************)
(* Model-checking instance of ReviewerRelay.  Sessions are interchangeable,*)
(* so the session of one Task is fixed; the other Task has the same one or *)
(* another one.                                                            *)
(***************************************************************************)
EXTENDS ReviewerRelay

CONSTANTS t1, s1

MCInit == Init /\ key[t1][1] = s1

MCSpec == MCInit /\ [][Next]_vars /\ HookFairness

=============================================================================
