--------------------------- MODULE MCSandboxTools ---------------------------
(* SandboxTools for TLC: the calls of one session are interchangeable. *)
EXTENDS SandboxTools, TLC

Symmetry == Permutations(Calls) \cup Permutations(HostCalls)
=============================================================================
