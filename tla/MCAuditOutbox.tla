--------------------------- MODULE MCAuditOutbox ---------------------------
(* Small instances of AuditOutbox for TLC. *)
EXTENDS AuditOutbox, TLC

\* Row ids are compared by ORDER BY id, so they are numbers, not model values.
OneEvent == {1}
TwoEvents == {1, 2}

\* Sound for the safety runs: no definition tells one relay from another.
RelaySymmetry == Permutations(Relays)
=============================================================================
