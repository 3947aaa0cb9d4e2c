---------------------------- MODULE MCStdioFiles ----------------------------
(* Instances of StdioFiles for TLC.                                         *)
EXTENDS StdioFiles, TLC

CONSTANTS t1, t2, t3, in, out, err, f1, f2, l1, l2, l3, l4, l5

\* Threads, and the FILEs that fopen makes, are interchangeable.
Symmetry == Permutations(Threads) \cup Permutations(Opened)

=============================================================================
