---------------------------- MODULE MCFileQueue -----------------------------
(***************************************************************************)
(* FileQueue on small sets; clients and buffers are interchangeable.       *)
(***************************************************************************)
EXTENDS FileQueue

Symmetry == Permutations(Client) \union Permutations(Buffer)
=============================================================================
