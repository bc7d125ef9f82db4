-------------------------- MODULE MCCorridaLobby --------------------------
(* Small instances of the race lobby for TLC. *)
EXTENDS CorridaLobby, TLC

Symmetry == Permutations(Joins) \cup Permutations(Finishes)
\* Lobbies are used in any order: their permutation is a symmetry too.
SymmetryLobbies == Symmetry \cup Permutations(Lobbies)
=============================================================================
