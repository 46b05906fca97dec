------------------------------ MODULE MCRooms -------------------------------
(***************************************************************************)
(* Rooms on small sets.  Clients, names and allocations are only compared  *)
(* with each other, so every permutation of them is a symmetry.            *)
(***************************************************************************)
EXTENDS Rooms, TLC

Symmetry == Permutations(Client) \union Permutations(Name)
              \union Permutations(Room)
=============================================================================
