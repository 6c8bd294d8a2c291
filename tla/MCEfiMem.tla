------------------------------ MODULE MCEfiMem ------------------------------
(* Constants of the run of EfiMem that a configuration cannot express. *)
EXTENDS EfiMem

MCNumbers == {-1, 1, 2, 3}
=============================================================================
