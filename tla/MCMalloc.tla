------------------------------ MODULE MCMalloc ------------------------------
(* Instances of Malloc for TLC.                                             *)
EXTENDS Malloc, TLC

CONSTANTS t1, t2

Symmetry == Permutations(Threads)

=============================================================================
