----------------------------- MODULE MCRobbery -----------------------------
(* A small instance of the robberies for TLC: one user with chips, two without. *)
EXTENDS Robbery, TLC

MCUsers == {1, 2, 3}
MCStartDocs ==
    [u \in Users |-> IF u = 2 THEN [NoDoc EXCEPT !.chips = 2, !.bonus = 1, !.claimed = TRUE]
                     ELSE [NoDoc EXCEPT !.claimed = (u = 1)]]
MCSymmetry == Permutations(Handlers)
=============================================================================
