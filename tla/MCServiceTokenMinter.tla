------------------------ MODULE MCServiceTokenMinter ------------------------
(* Small instances of ServiceTokenMinter for TLC: no symmetry, the run checks *)
(* liveness too.                                                              *)
EXTENDS ServiceTokenMinter
=============================================================================
