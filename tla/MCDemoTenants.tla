---------------------------- MODULE MCDemoTenants ----------------------------
(* Small instances of DemoTenants for TLC: no symmetry, the run checks       *)
(* liveness too.                                                              *)
EXTENDS DemoTenants
=============================================================================
