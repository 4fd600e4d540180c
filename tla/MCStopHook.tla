----------------------------- MODULE MCStopHook -----------------------------
(* Small instances of StopHook for TLC. *)
EXTENDS StopHook, TLC

CONSTANTS h1, h2, f1, f2

\* Handlers of one version report alike.
SeesAll == [h \in Handlers |-> Findings]

HandlerSymmetry == Permutations(Handlers)

=============================================================================
