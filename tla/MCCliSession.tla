---------------------------- MODULE MCCliSession ----------------------------
(* A small instance of CliSession for TLC.                                   *)
EXTENDS CliSession, TLC

Symmetry == Permutations(Clients) \cup Permutations(Requests)
=============================================================================
