---------------------------- MODULE MCFileStore -----------------------------
(***************************************************************************)
(* Three nodes, as deployed; names are interchangeable, nodes are not: the *)
(* order of their directories decides which replica is read.               *)
(***************************************************************************)
EXTENDS FileStore, TLC

Symmetry == Permutations(Name)

=============================================================================
