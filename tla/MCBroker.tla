------------------------------ MODULE MCBroker ------------------------------
(* Model-checking instances of Broker.                                      *)
EXTENDS Broker

(* Sessions are told apart only by HomeSession, which an instance that uses *)
(* this symmetry leaves empty or makes all of Session.                      *)
SessionSymmetry == Permutations(Session)
=============================================================================
