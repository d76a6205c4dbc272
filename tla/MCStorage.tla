------------------------------ MODULE MCStorage ------------------------------
(* Instances of Storage for TLC. *)
EXTENDS Storage, TLC
Interchangeable == Permutations(Thread)
==============================================================================
