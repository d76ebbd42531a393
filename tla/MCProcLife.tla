----------------------------- MODULE MCProcLife -----------------------------
(* ProcLife for TLC: the user slots are interchangeable.                   *)
EXTENDS ProcLife

Slots == Permutations(User)

=============================================================================
