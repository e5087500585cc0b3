----------------------------- MODULE MCAdvisor -----------------------------
(* Advisor for TLC: sessions and request ids are interchangeable. *)
EXTENDS Advisor, TLC

Symmetry ==
    Permutations(Mains) \cup Permutations(Advisors) \cup Permutations(Requests)
=============================================================================
