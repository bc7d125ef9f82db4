----------------------------- MODULE MCPayments -----------------------------
(* Small instances of the pay command for TLC. *)
EXTENDS Payments, TLC

CONSTANTS u1, u2

\* Both can pay, and one of them has a bonus.
MCStart == (u1 :> [chips |-> 2, bonus |-> 1, authorized |-> FALSE])
             @@ (u2 :> [chips |-> 2, bonus |-> 0, authorized |-> FALSE])
\* The payer can pay what is offered twice.
MCRichStart == [MCStart EXCEPT ![u1].chips = 4]
Symmetry == Permutations(Offers) \cup Permutations(Reactors)
=============================================================================
