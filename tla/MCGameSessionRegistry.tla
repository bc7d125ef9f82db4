----------------------- MODULE MCGameSessionRegistry -----------------------
(* A small instance of the registry for TLC. *)
EXTENDS GameSessionRegistry, TLC

Symmetry == Permutations(Sessions) \cup Permutations(Users) \cup Permutations(Guilds)
=============================================================================
