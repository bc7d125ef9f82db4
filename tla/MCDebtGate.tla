----------------------------- MODULE MCDebtGate -----------------------------
(* A small instance of the gate over a wallet for TLC. *)
EXTENDS DebtGate, TLC

Start(chips, bonus, authorized, claimed, recharged) ==
    [NoDoc EXCEPT !.chips = chips, !.bonus = bonus, !.authorized = authorized,
                  !.claimed = claimed, !.recharged = recharged]
\* A user who owes a chip and has not claimed today's bonus; one without chips
\* who may still recharge.
MCStartDocs == {Start(-1, 0, TRUE, FALSE, TRUE), Start(0, 0, FALSE, TRUE, FALSE)}
=============================================================================
