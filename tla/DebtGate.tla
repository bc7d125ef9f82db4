------------------------------ MODULE DebtGate ------------------------------
(***************************************************************************)
(* Asking a user for the consent to a debt (the message gates of           *)
(* cogs/games/services/base.py), over the wallet it protects.  The first   *)
(* command that needs the consent opens the user's gate and waits for its  *)
(* answer; each later one, while the question is open, withdraws the       *)
(* message that was shown, has a new one shown, and is itself discarded.   *)
(* A press on a message that was withdrawn changes nothing.                *)
(*                                                                         *)
(* The sections under the gate's lock do not await, so each is one step.   *)
(***************************************************************************)
EXTENDS ChipWallet

CONSTANTS Commands,   \* game commands that may ask at once
          Shows,      \* tasks that show the question, alive at a time
          MaxAsks,    \* bound: later commands of a user while the question is open
          NoShow, NoCommand

ASSUME MaxAsksAssumption == MaxAsks \in Nat
ASSUME NoneAtGateAssumption == NoShow \notin Shows /\ NoCommand \notin Commands

VARIABLES gate,      \* _negative_debt_message_gates
          show,      \* the tasks of _show_negative_message_gate
          command    \* the user each command that opened a gate waits for
gateVars == <<gate, show, command>>
allVars == <<cache, store, holder, saving, gate, show, command>>

\* A gate: its future's owner, the first command's cost, the task of its
\* generation, and the view shown last ("view" outlives its generation).
Gate == [owner: Commands \cup {NoCommand}, amount: Amounts \cup {0},
         show: Shows \cup {NoShow}, view: Shows \cup {NoShow}, asked: 0..MaxAsks]
NoGate == [owner |-> NoCommand, amount |-> 0, show |-> NoShow, view |-> NoShow, asked |-> 0]
IsOpen(u) == gate[u] # NoGate

ShowState == [at: {"ended", "sleeping", "preparing", "sending", "shown", "saving", "saved"},
              user: Users \cup {NoUser}, cancelled: BOOLEAN,
              confirmed: BOOLEAN,                     \* view.confirmed
              handler: Handlers \cup {NoHandler}]     \* of the save it awaits
Ended == [at |-> "ended", user |-> NoUser, cancelled |-> FALSE, confirmed |-> FALSE,
          handler |-> NoHandler]

GateTypeOK ==
    /\ TypeOK
    /\ gate \in [Users -> Gate]
    /\ show \in [Shows -> ShowState]
    /\ command \in [Commands -> Users \cup {NoUser}]

GateInit ==
    /\ Init
    /\ gate = [u \in Users |-> NoGate]
    /\ show = [s \in Shows |-> Ended]
    /\ command = [c \in Commands |-> NoUser]

(***************************************************************************)
(* The command (_confirm_negative_from_message)                            *)
(***************************************************************************)
Fresh(s) == show[s] = Ended /\ \A u \in Users : s \notin {gate[u].show, gate[u].view}
NewShow(u) == [Ended EXCEPT !.at = "sleeping", !.user = u]

\* The first command opens the gate and waits for its future.
OpenGate(c, u, n, s) ==
    /\ command[c] = NoUser /\ NeedsConfirmation(cache[u], n) /\ Fresh(s)
    /\ ~IsOpen(u)
    /\ gate' = [gate EXCEPT ![u] = [NoGate EXCEPT !.owner = c, !.amount = n, !.show = s]]
    /\ show' = [show EXCEPT ![s] = NewShow(u)]
    /\ command' = [command EXCEPT ![c] = u]
    /\ UNCHANGED vars

\* Mutant: the older task goes on beside the new one.
StillShowing(task) == task
Withdrawn(task) == IF task.at = "ended" THEN task ELSE [task EXCEPT !.cancelled = TRUE]

Pressed(u) == gate[u].view # NoShow /\ show[gate[u].view].confirmed

\* A later one has the question shown again, unless it has just been answered,
\* and is discarded either way; its own cost is forgotten.
AskAgain(u, n, s) ==
    /\ NeedsConfirmation(cache[u], n) /\ Fresh(s)
    /\ IsOpen(u) /\ ~Pressed(u) /\ gate[u].asked < MaxAsks
    /\ show' = [show EXCEPT ![gate[u].show] = Withdrawn(@), ![s] = NewShow(u)]
    /\ gate' = [gate EXCEPT ![u].show = s, ![u].asked = @ + 1]
    /\ UNCHANGED command /\ UNCHANGED vars

(***************************************************************************)
(* The task that shows the question (_show_negative_message_gate)          *)
(***************************************************************************)
Current(s) == show[s].at # "ended" /\ gate[show[s].user].show = s
Runs(s, at) == show[s].at = at /\ ~show[s].cancelled
End(s) == show' = [show EXCEPT ![s] = Ended]

\* The gate is closed and its owner has its answer.
Answer(u) ==
    /\ gate' = [gate EXCEPT ![u] = NoGate]
    /\ command' = [command EXCEPT ![gate[u].owner] = NoUser]

CancelledEnds(s) ==
    /\ show[s].cancelled /\ End(s)
    /\ UNCHANGED <<gate, command>> /\ UNCHANGED vars

\* After the pause, which gathers a burst of commands.
Wakes(s) ==
    /\ Runs(s, "sleeping")
    /\ IF Current(s) THEN show' = [show EXCEPT ![s].at = "preparing"] ELSE End(s)
    /\ UNCHANGED <<gate, command>> /\ UNCHANGED vars

\* What was to happen before the question has happened: it is shown, unless the
\* balance does not call for it any more.
Prepared(s) ==
    LET u == show[s].user
    IN  /\ Runs(s, "preparing")
        /\ IF ~Current(s) THEN End(s) /\ UNCHANGED <<gate, command>>
           ELSE IF NeedsConfirmation(cache[u], gate[u].amount)
           THEN /\ show' = [show EXCEPT ![s].at = "sending"]
                /\ gate' = [gate EXCEPT ![u].view = s]
                /\ UNCHANGED command
           ELSE Answer(u) /\ End(s)
        /\ UNCHANGED vars

Sent(s) ==
    /\ Runs(s, "sending")
    /\ IF Current(s) THEN show' = [show EXCEPT ![s].at = "shown"] ELSE End(s)
    /\ UNCHANGED <<gate, command>> /\ UNCHANGED vars

\* The user presses Continue (_NegativeDebtConfirmView._confirm); the view stops
\* a little later.  The button works even if its task has been withdrawn.
Press(s) ==
    /\ show[s].at = "shown" /\ ~show[s].confirmed
    /\ show' = [show EXCEPT ![s].confirmed = TRUE]
    /\ UNCHANGED <<gate, command>> /\ UNCHANGED vars

\* Mutants: the owner's future is forgotten; the gate is.
FutureForgotten(u) == gate' = [gate EXCEPT ![u] = NoGate] /\ UNCHANGED command
GateForgotten(u) == command' = [command EXCEPT ![gate[u].owner] = NoUser] /\ UNCHANGED gate
FinalAnswer(u) == Answer(u)

Concludes(s) ==
    /\ IF Current(s) THEN FinalAnswer(show[s].user) ELSE UNCHANGED <<gate, command>>
    /\ End(s)
    /\ UNCHANGED vars

\* Mutant: a consent is noted whatever the balance has become.
AnyNeed(u) == TRUE
StillNeeded(u) == NeedsConfirmation(cache[u], gate[u].amount)

\* The view has stopped or timed out without a consent that is still needed.
ViewEnds(s) ==
    /\ Runs(s, "shown")
    /\ ~show[s].confirmed \/ ~StillNeeded(show[s].user)
    /\ Concludes(s)

\* With one, it is noted and saved first.
ConsentNoted(s, h) ==
    LET u == show[s].user
    IN  /\ Runs(s, "shown") /\ show[s].confirmed /\ StillNeeded(u)
        /\ SaveUnlocked(h, u, [cache[u] EXCEPT !.authorized = TRUE])
        /\ show' = [show EXCEPT ![s].at = "saving", ![s].handler = h]
        /\ UNCHANGED <<gate, command>>

ConsentSaved(s) == Runs(s, "saved") /\ Concludes(s)

\* The preparation or the sending raised: the owner is told no.
ShowFails(s) ==
    /\ Runs(s, "preparing") \/ Runs(s, "sending")
    /\ Concludes(s)

ShowStep(s) ==
    \/ CancelledEnds(s) \/ Wakes(s) \/ Prepared(s) \/ Sent(s) \/ ViewEnds(s)
    \/ ConsentSaved(s) \/ ShowFails(s)

(***************************************************************************)
(* The wallet goes on                                                      *)
(***************************************************************************)
WalletStep ==
    /\ \/ \E h \in Handlers, u \in Users :
             \/ \E n \in Amounts : TryConsume(h, u, n) \/ Prize(h, u, n)
             \/ AskRecharge(h, u) \/ ClaimDaily(h, u)
       \/ \E h \in Handlers : Recharge(h)
    /\ UNCHANGED gateVars

\* A save has landed, and the task that waits for it goes on.
Landed(h) ==
    /\ SaveLands(h)
    /\ show' = [s \in Shows |-> IF show[s].handler = h
                                THEN [show[s] EXCEPT !.at = "saved", !.handler = NoHandler]
                                ELSE show[s]]
    /\ UNCHANGED <<gate, command>>

\* Nothing of the gates survives the process.
Restarted ==
    /\ Restart
    /\ gate' = [u \in Users |-> NoGate]
    /\ show' = [s \in Shows |-> Ended]
    /\ command' = [c \in Commands |-> NoUser]

GateNext ==
    \/ \E u \in Users, n \in Amounts, s \in Shows :
          AskAgain(u, n, s) \/ \E c \in Commands : OpenGate(c, u, n, s)
    \/ \E s \in Shows : ShowStep(s) \/ Press(s) \/ \E h \in Handlers : ConsentNoted(s, h)
    \/ WalletStep \/ Restarted
    \/ \E h \in Handlers : Landed(h)

GateSpec == GateInit /\ [][GateNext]_allVars

\* Pauses, views and saves end by themselves: a view has a timeout, and a noted
\* consent is saved once a save can begin.
FairGateSpec ==
    /\ GateSpec
    /\ \A s \in Shows :
          WF_allVars(ShowStep(s)) /\ SF_allVars(\E h \in Handlers : ConsentNoted(s, h))
    /\ \A h \in Handlers : WF_allVars(Landed(h)) /\ WF_allVars(Recharge(h) /\ UNCHANGED gateVars)

(***************************************************************************)
(* Properties                                                              *)
(***************************************************************************)
\* The gates change the wallet as ChipWallet allows: consents included, all it
\* promises holds with them.
ImplementsWallet == Spec

\* A consent comes from a press on the message shown last, for the command that
\* waits, while its cost still calls for it - not from one that was withdrawn.
ConsentIsPressed ==
    [][\A u \in Users :
         cache'[u].authorized /\ ~cache[u].authorized /\ ~Restarted =>
           /\ IsOpen(u) /\ show[gate[u].show].confirmed
           /\ NeedsConfirmation(cache[u], gate[u].amount)]_allVars

\* A gate is open exactly while its owner waits, and somebody is there to answer:
\* its task runs, and has not been cancelled.
OwnerWaitsAtGate ==
    \A u \in Users :
       /\ {c \in Commands : command[c] = u} = {gate[u].owner} \ {NoCommand}
       /\ IsOpen(u) => LET s == gate[u].show
                       IN show[s].at # "ended" /\ show[s].user = u /\ ~show[s].cancelled

\* Every command that waits for a consent gets its answer.
OwnersAnswered == \A c \in Commands : []<>(command[c] = NoUser)
=============================================================================
