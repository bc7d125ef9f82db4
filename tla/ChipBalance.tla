---------------------------- MODULE ChipBalance ----------------------------
(***************************************************************************)
(* The arithmetic of a user's chips: normal chips, which may be in debt,   *)
(* bonus chips, which are spent first, and the user's consent to a debt    *)
(* (db.py, "bonus chips / debt overrides", and cogs/games/services/base.py).*)
(* The temporary bonus of one race skill is counted as bonus.              *)
(***************************************************************************)
EXTENDS Integers

CONSTANT MaxDebt   \* _MAX_CHIP_DEBT
ASSUME MaxDebtAssumption == MaxDebt \in Nat

Balance == [chips: Int, bonus: Nat, authorized: BOOLEAN]

Worth(b) == b.chips + b.bonus

\* What is left after a cost: the bonus first, then normal chips.
Spent(b, n) ==
    [b EXCEPT !.bonus = IF n <= b.bonus THEN b.bonus - n ELSE 0,
              !.chips = IF n <= b.bonus THEN b.chips ELSE b.chips - (n - b.bonus)]

\* Mutant: any credit that leaves a debt also withdraws the consent to it.
GainedForgetful(b, n) ==
    [b EXCEPT !.chips = b.chips + n,
              !.authorized = IF b.chips < 0 THEN FALSE ELSE b.authorized]
\* A credit goes to the normal chips; the consent ends when the debt is paid.
Gained(b, n) ==
    [b EXCEPT !.chips = b.chips + n,
              !.authorized = IF b.chips < 0 /\ 0 <= b.chips + n THEN FALSE
                             ELSE b.authorized]

GainedBonus(b, n) == [b EXCEPT !.bonus = b.bonus + n]

\* A cost that would put the user in debt, or deeper in debt, within the limit.
NeedsConfirmation(b, n) ==
    /\ ~b.authorized
    /\ Spent(b, n).chips >= -MaxDebt
    /\ Spent(b, n).chips < 0
    /\ Spent(b, n).chips < b.chips

WithinDebtLimit(b, n) == Spent(b, n).chips >= -MaxDebt
=============================================================================
