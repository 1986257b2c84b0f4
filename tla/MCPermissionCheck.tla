-------------------------- MODULE MCPermissionCheck --------------------------
(* Small instances of PermissionCheck for TLC. *)
EXTENDS PermissionCheck, TLC

\* An administrator may read and write, a viewer may read.
TwoRoles == [r \in {"admin", "viewer"} |->
               IF r = "admin" THEN {"read", "write"} ELSE {"read"}]

\* Sound: tasks differ in nothing but the request they serve.
TaskSymmetry == Permutations(Tasks)
=============================================================================
