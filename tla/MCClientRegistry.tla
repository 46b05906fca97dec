-------------------------- MODULE MCClientRegistry --------------------------
(***************************************************************************)
(* ClientRegistry on small sets.  Descriptors are ordered, allocations are *)
(* chosen: only threads and names are interchangeable.                     *)
(***************************************************************************)
EXTENDS ClientRegistry

Symmetry == Permutations(Thread) \union Permutations(User)
=============================================================================
