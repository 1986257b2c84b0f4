---------------------------- MODULE MCCliProfiles ----------------------------
(* A small instance of CliProfiles for TLC. *)
EXTENDS CliProfiles, TLC

\* Sound: no definition tells one process from another.
ProcSymmetry == Permutations(Procs)
=============================================================================
