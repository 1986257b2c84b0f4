--------------------------- MODULE MCIntrospection ---------------------------
(* Small instances of Introspection for TLC. *)
EXTENDS Introspection, TLC

\* Sound for the safety runs.
TaskSymmetry == Permutations(Tasks)
=============================================================================
