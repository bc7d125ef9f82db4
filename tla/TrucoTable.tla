----------------------------- MODULE TrucoTable -----------------------------
(***************************************************************************)
(* A truco challenge and the match it becomes (cogs/games/games/truco.py). *)
(* Presses of the players, the timeouts of the messages and the sweep that *)
(* every new challenge makes work on the game under its play lock, and     *)
(* await while they hold it; dealing the hands works without it, and so    *)
(* does the sweep of finished games.  Who has his hand may play, ask for   *)
(* more or run while the other's is still being sent.  A game that is      *)
(* removed takes its lock with it: those who come later take a new one.    *)
(*                                                                         *)
(* Chips are counted as what each player won or lost here; the rest of the *)
(* wallet, the bonus, statistics, variants and messages are left out.  The *)
(* other games of the players are "elsewhere".                             *)
(***************************************************************************)
EXTENDS Integers, Sequences, FiniteSets

CONSTANTS Challenger, Opponent,
          Handlers,        \* presses under way at a time
          Clock,           \* the one of the timeouts and of the sweep
          Contributions,   \* _TRUCO_TARGET_CONTRIB_1V1, by the index of the level
          MayFail,         \* calls that may raise where the code hardly expects it:
                           \* "charge", "answer", "prize"
          MaxPresses,      \* bound: presses on the table
          None

ASSUME PlayersAssumption == Challenger # Opponent /\ None \notin {Challenger, Opponent}
ASSUME ContributionsAssumption == Contributions \in Seq(Nat) /\ Contributions # <<>>
ASSUME MayFailAssumption == MayFail \subseteq {"charge", "answer", "prize"}
ASSUME BoundAssumption == MaxPresses \in Nat
ASSUME ClockAssumption == Clock \notin Handlers /\ None \notin Handlers \cup {Clock}

Players == {Challenger, Opponent}
Other(p) == CHOOSE q \in Players : q # p
All == Handlers \cup {Clock}
Levels == DOMAIN Contributions

Game == [status: {"invite", "starting", "active", "asked", "finished"},
         finished: BOOLEAN, accepted: BOOLEAN, current: BOOLEAN,
         level: Levels, turn: Players, starter: Players, table: SUBSET Players,
         results: Seq(Players \cup {None}), asker: Players \cup {None}, asked: Levels \cup {0},
         refundable: BOOLEAN,             \* entry_refunds
         hands: SUBSET Players,           \* the players who hold their cards
         undealt: SUBSET Players]         \* dm_failed

Kinds == {"none", "accept", "decline", "expire", "play", "raise", "take", "run", "timeout", "sweep"}
Work == [at: {"idle", "waiting", "activating", "charging", "starting", "dealing", "second",
              "showing", "aborting", "played", "resolving", "prize", "releasing"},
         kind: Kinds, by: Players \cup {None},
         paid: SUBSET Players,             \* charged by this handler
         winner: Players \cup {None}]
NoWork == [at |-> "idle", kind |-> "none", by |-> None, paid |-> {}, winner |-> None]

VARIABLES game, lease,    \* the game, and its session in the registry
          elsewhere,      \* players whom another session holds
          lock,           \* who holds the play lock
          work,           \* what each handler is at
          gain,           \* chips won or lost here
          presses
\* For the properties: what was done with the entries, and the chips of charges that
\* raised, of which nobody knows any more.
VARIABLES settled, lost
vars == <<game, lease, elsewhere, lock, work, gain, settled, lost, presses>>

TypeOK ==
    /\ game \in Game
    /\ lease \in {"none", "pending", "active"}
    /\ elsewhere \subseteq Players
    /\ lock \in All \cup {None}
    /\ work \in [All -> Work]
    /\ gain \in [Players -> Int]
    /\ settled \subseteq {"paid", "refunded"} /\ lost \in Int
    /\ presses \in 0..MaxPresses

\* The challenge has been published (_handle_truco_trigger).
Init ==
    /\ game = [status |-> "invite", finished |-> FALSE, accepted |-> FALSE, current |-> TRUE,
               level |-> 1, turn |-> Challenger, starter |-> Challenger, table |-> {},
               results |-> <<>>, asker |-> None, asked |-> 0,
               refundable |-> FALSE, hands |-> {}, undealt |-> {}]
    /\ lease = "pending" /\ elsewhere = {} /\ lock = None
    /\ work = [h \in All |-> NoWork]
    /\ gain = [p \in Players |-> 0] /\ settled = {} /\ lost = 0 /\ presses = 0

Idle(h) == work[h].at = "idle"
At(h, at) == work[h].at = at
Goes(h, at) == work' = [work EXCEPT ![h].at = at]
Ends(h) == work' = [work EXCEPT ![h] = NoWork]
Unlocks(h) == lock' = IF lock = h THEN None ELSE lock

(***************************************************************************)
(* Presses, timeouts and the play lock                                     *)
(***************************************************************************)
Waits(h, kind, by) == work' = [work EXCEPT ![h] = [NoWork EXCEPT !.at = "waiting", !.kind = kind, !.by = by]]

\* The buttons of the challenge and, for who holds a hand, those of the hand.  A
\* card of a player is taken one at a time (_truco_play_inflight).
Press(h, p, kind) ==
    /\ h \in Handlers /\ Idle(h) /\ presses < MaxPresses
    /\ \/ kind \in {"accept", "decline"} /\ p = Opponent
       \/ kind \in {"play", "raise", "take", "run"} /\ p \in game.hands
    /\ kind = "play" => \A g \in Handlers : work[g].kind # "play" \/ work[g].by # p
    /\ ~game.finished
    /\ presses' = presses + 1
    /\ Waits(h, kind, p)
    /\ UNCHANGED <<game, lease, elsewhere, lock, gain, settled, lost>>

\* A message times out, or the sweep finds the game idle, when nobody has touched
\* it for long: no handler is at work.  The invitation's own timeout does not ask.
TimesOut ==
    /\ Idle(Clock) /\ game.current /\ ~game.finished
    /\ \/ game.status = "invite" /\ Waits(Clock, "expire", None)
       \/ /\ game.status # "invite" /\ \A h \in Handlers : Idle(h)
          /\ Waits(Clock, "timeout", None)
    /\ UNCHANGED <<game, lease, elsewhere, lock, gain, settled, lost, presses>>

Open == ~game.finished /\ ~game.accepted /\ game.status = "invite"
InPlay == ~game.finished /\ game.current

\* The lock, or the new one of a game that has been removed.
Enters(h) == At(h, "waiting") /\ (lock = None \/ ~game.current)

\* What the handler asks of the game once it has the lock.
Allowed(h) ==
    LET w == work[h]
    IN  CASE w.kind = "accept"  -> Open /\ game.current
          [] w.kind = "decline" -> Open /\ game.current
          [] w.kind = "expire"  -> Open
          [] w.kind = "play"    -> /\ InPlay /\ game.status = "active"
                                   /\ w.by = game.turn /\ w.by \notin game.table
          [] w.kind = "raise"   -> /\ InPlay
                                   /\ \/ game.status = "asked" /\ w.by # game.asker
                                      \/ game.status = "active" /\ w.by = game.turn
          [] w.kind = "take"    -> InPlay /\ game.status = "asked" /\ w.by # game.asker
          [] OTHER              -> InPlay

\* Refused: or the player cannot pay, does not confirm, or, for a timeout, the game
\* has been touched meanwhile.
Refused(h) ==
    /\ Enters(h)
    /\ \/ ~Allowed(h) \/ work[h].kind \in {"accept", "raise", "take"}
       \/ work[h].kind = "timeout" /\ \E g \in Handlers : ~Idle(g)
    /\ Ends(h)
    /\ UNCHANGED <<game, lease, elsewhere, lock, gain, settled, lost, presses>>

(***************************************************************************)
(* The end: the game is finished and removed, its session released         *)
(***************************************************************************)
\* Mutant: the game is removed, but not finished.
OnlyRemoved(g) == [g EXCEPT !.current = FALSE]
Removed(g) == [g EXCEPT !.finished = TRUE, !.current = FALSE]

\* _handle_truco_decline, _expire_truco_invite
CloseInvite(h) ==
    /\ Enters(h) /\ Allowed(h) /\ work[h].kind \in {"decline", "expire"}
    /\ game' = Removed(game)
    /\ lock' = None
    /\ Goes(h, "releasing")
    /\ UNCHANGED <<lease, elsewhere, gain, settled, lost, presses>>

Releases(h) ==
    /\ At(h, "releasing")
    /\ lease' = "none" /\ Ends(h) /\ Unlocks(h)
    /\ UNCHANGED <<game, elsewhere, gain, settled, lost, presses>>

\* _finish_truco_game begins, unless the game is finished already.
Finishes(h, winner, g) ==
    /\ game' = [g EXCEPT !.finished = TRUE, !.status = "finished"]
    /\ work' = [work EXCEPT ![h].at = "prize", ![h].winner = winner]

\* The winner has the pot; statistics and prizes may raise.
Prize(h) ==
    /\ At(h, "prize")
    /\ \/ /\ gain' = [gain EXCEPT ![work[h].winner] = @ + 2 * Contributions[game.level]]
          /\ settled' = settled \cup {"paid"}
       \/ "prize" \in MayFail /\ UNCHANGED <<gain, settled>>
    /\ game' = Removed(game)
    /\ lock' = IF game.current THEN None ELSE lock
    /\ Goes(h, "releasing")
    /\ UNCHANGED <<lease, elsewhere, lost, presses>>

\* The sweep removes a game that is finished, whoever is still at its end.
SweepsFinished ==
    /\ Idle(Clock) /\ game.current /\ game.finished
    /\ game' = [game EXCEPT !.current = FALSE]
    /\ lock' = None
    /\ work' = [work EXCEPT ![Clock] = [NoWork EXCEPT !.at = "releasing", !.kind = "sweep"]]
    /\ UNCHANGED <<lease, elsewhere, gain, settled, lost, presses>>

(***************************************************************************)
(* Accepting the challenge (_handle_truco_accept)                          *)
(***************************************************************************)
AcceptBegins(h) ==
    /\ Enters(h) /\ Allowed(h) /\ work[h].kind = "accept"
    /\ lock' = h /\ Goes(h, "activating")
    /\ UNCHANGED <<game, lease, elsewhere, gain, settled, lost, presses>>

\* Mutant: the reservation is made whatever the players do elsewhere.
NobodyBusy == TRUE
NobodyElsewhere == elsewhere = {}

\* The players are reserved, or the server is full and the challenge stays, or
\* one of them plays elsewhere and it is closed.
Activated(h) ==
    /\ At(h, "activating")
    /\ \/ /\ lease # "none" /\ NobodyElsewhere
          /\ lease' = "active" /\ Goes(h, "charging") /\ UNCHANGED <<game, lock>>
       \/ /\ lease # "none" /\ NobodyElsewhere
          /\ Ends(h) /\ Unlocks(h) /\ UNCHANGED <<game, lease>>
       \/ /\ lease = "none" \/ ~NobodyElsewhere
          /\ game' = Removed(game) /\ lock' = None /\ Goes(h, "releasing") /\ UNCHANGED lease
    /\ UNCHANGED <<elsewhere, gain, settled, lost, presses>>

\* What each player pays for the entry, or more for the level that was asked.
Due(h) ==
    IF work[h].kind = "accept" THEN Contributions[1]
    ELSE Contributions[game.asked] - Contributions[game.level]

BeingCharged(h) == Cardinality(work[h].paid) * (IF work[h].paid = {} THEN 0 ELSE Due(h))

Charged(h, p) ==
    /\ gain' = [gain EXCEPT ![p] = @ - Due(h)]
    /\ work' = [work EXCEPT ![h].paid = @ \cup {p}]
    /\ UNCHANGED <<game, lease, elsewhere, lock, settled, lost, presses>>

\* Mutant: who has paid is not paid back.
NotRefunded(h) == UNCHANGED gain
Refunded(h) == gain' = [p \in Players |-> IF p \in work[h].paid THEN gain[p] + Due(h) ELSE gain[p]]

\* The charge is refused and what was paid is returned, or it raises, and what the
\* first has paid is forgotten.
NotCharged(h) ==
    /\ \/ /\ Refunded(h) /\ UNCHANGED lost
          /\ IF work[h].kind = "accept"
               THEN /\ game' = Removed(game) /\ lock' = None
                    /\ work' = [work EXCEPT ![h].at = "releasing", ![h].paid = {}]
               ELSE UNCHANGED game /\ Ends(h) /\ Unlocks(h)
       \/ /\ "charge" \in MayFail /\ Ends(h) /\ Unlocks(h) /\ UNCHANGED <<game, gain>>
          /\ lost' = lost + BeingCharged(h)
    /\ UNCHANGED <<lease, elsewhere, settled, presses>>

\* The challenger is charged first, for a raise the one who moves first.
Charge(h) ==
    /\ At(h, "charging") /\ work[h].paid # Players
    /\ \E p \in Players \ work[h].paid :
          /\ work[h].paid = {} => p = IF work[h].kind = "accept" THEN Challenger ELSE game.starter
          /\ Charged(h, p) \/ NotCharged(h)

Accepted(h) ==
    /\ At(h, "charging") /\ work[h].paid = Players /\ work[h].kind = "accept"
    /\ game' = [game EXCEPT !.accepted = TRUE, !.status = "starting", !.refundable = TRUE]
    /\ work' = [work EXCEPT ![h].at = "starting", ![h].paid = {}]
    /\ Unlocks(h)
    /\ UNCHANGED <<lease, elsewhere, gain, settled, lost, presses>>

(***************************************************************************)
(* Dealing, without the lock (_start_truco_game)                           *)
(***************************************************************************)
Deals(h) ==
    /\ At(h, "starting")
    /\ game' = [game EXCEPT !.status = "active"]
    /\ Goes(h, "dealing")
    /\ UNCHANGED <<lease, elsewhere, lock, gain, settled, lost, presses>>

\* _truco_send_hand_dm: the hand of a player is delivered, or is not.
Sent(p, delivered) ==
    IF delivered THEN [game EXCEPT !.hands = @ \cup {p}] ELSE [game EXCEPT !.undealt = @ \cup {p}]

\* The hands are sent one after the other, to both whatever becomes of the first.
Hand(h) ==
    /\ At(h, "dealing")
    /\ \E delivered \in BOOLEAN : game' = Sent(Challenger, delivered)
    /\ Goes(h, "second")
    /\ UNCHANGED <<lease, elsewhere, lock, gain, settled, lost, presses>>

\* After the second the turn is shown, or, as a hand has not been delivered, the game
\* is given up, whatever who holds his hand has done (_truco_abort_game_start).
SecondHand(h) ==
    /\ At(h, "second")
    /\ \E delivered \in BOOLEAN :
          LET g == Sent(Opponent, delivered)
          IN  IF g.undealt # {} THEN game' = [g EXCEPT !.finished = TRUE] /\ Goes(h, "aborting")
              ELSE game' = g /\ Goes(h, "showing")
    /\ UNCHANGED <<lease, elsewhere, lock, gain, settled, lost, presses>>

\* When the turn has been shown the entries are not refunded any more.
ShowsTurn(h) ==
    /\ At(h, "showing")
    /\ game' = [game EXCEPT !.refundable = FALSE]
    /\ Ends(h)
    /\ UNCHANGED <<lease, elsewhere, lock, gain, settled, lost, presses>>

\* There is no channel, or the message cannot be sent to it.
Abort(h) ==
    /\ At(h, "starting") \/ At(h, "dealing")
    /\ game' = [game EXCEPT !.finished = TRUE]
    /\ Goes(h, "aborting")
    /\ UNCHANGED <<lease, elsewhere, lock, gain, settled, lost, presses>>

\* The entries that are refundable are returned, also of a match that one has won.
Aborted(h) ==
    /\ At(h, "aborting")
    /\ IF game.refundable
         THEN /\ gain' = [p \in Players |-> gain[p] + Contributions[1]]
              /\ settled' = settled \cup {"refunded"}
         ELSE UNCHANGED <<gain, settled>>
    /\ game' = [Removed(game) EXCEPT !.refundable = FALSE]
    /\ lock' = IF game.current THEN None ELSE lock
    /\ Goes(h, "releasing")
    /\ UNCHANGED <<lease, elsewhere, lost, presses>>

(***************************************************************************)
(* The match                                                               *)
(***************************************************************************)
\* _truco_refresh_private_views sends both hands again: one that is still to be dealt
\* may be delivered so.
Refreshed == {game.hands, Players}

\* _handle_truco_play_card: the card is on the table ...
Plays(h) ==
    /\ Enters(h) /\ Allowed(h) /\ work[h].kind = "play"
    /\ \E hands \in Refreshed : game' = [game EXCEPT !.table = @ \cup {work[h].by}, !.hands = hands]
    /\ lock' = h /\ Goes(h, "played")
    /\ UNCHANGED <<lease, elsewhere, gain, settled, lost, presses>>

\* Mutant: the turn stays with the player.
SameTurn == game.turn
NextTurn == CHOOSE p \in Players : p \notin game.table

\* ... and either it is the other's turn, or the round is resolved.  The answer to
\* the player may raise before.
Played(h) ==
    /\ At(h, "played")
    /\ \/ /\ game.table # Players
          /\ game' = [game EXCEPT !.turn = NextTurn] /\ Ends(h) /\ Unlocks(h)
       \/ game.table = Players /\ Goes(h, "resolving") /\ UNCHANGED <<game, lock>>
       \/ "answer" \in MayFail /\ Ends(h) /\ Unlocks(h) /\ UNCHANGED game
    /\ UNCHANGED <<lease, elsewhere, gain, settled, lost, presses>>

Wins(r, p) == Cardinality({i \in DOMAIN r : r[i] = p})

\* Mutant: the last round decides when the first was not tied.
LastRoundWins(r, starter) ==
    IF Len(r) = 3 /\ r[3] # None THEN r[3] ELSE IF Len(r) = 3 THEN starter ELSE None

\* _truco_hand_winner_team: two rounds won, or one and a tie before or after it; in
\* the third round its winner, then that of the first, then who began.
HandWinner(r, starter) ==
    IF r[1] # None /\ Wins(r, r[1]) >= 2 THEN r[1]
    ELSE IF Len(r) = 1 THEN None
    ELSE IF r[1] = None /\ r[2] # None THEN r[2]
    ELSE IF r[1] # None /\ r[2] = None THEN r[1]
    ELSE IF Len(r) < 3 THEN None
    ELSE IF r[3] # None THEN r[3]
    ELSE IF r[1] # None THEN r[1] ELSE starter

\* _truco_resolve_round
Resolves(h) ==
    /\ At(h, "resolving")
    /\ \E w \in Players \cup {None} :
          LET results == Append(game.results, w)
              winner == HandWinner(results, game.starter)
              next == IF w # None THEN w ELSE game.starter
              g == [game EXCEPT !.results = results, !.table = {}]
          IN  IF winner # None
                THEN IF game.finished THEN Ends(h) /\ Unlocks(h) /\ game' = g
                     ELSE Finishes(h, winner, g) /\ UNCHANGED lock
                ELSE /\ game' = [g EXCEPT !.starter = next, !.turn = next]
                     /\ Ends(h) /\ Unlocks(h)
    /\ UNCHANGED <<lease, elsewhere, gain, settled, lost, presses>>

\* _truco_next_raise_level
Above(level) == IF level + 1 \in Levels THEN level + 1 ELSE 0

\* _handle_truco_raise: to ask for more, or, instead of an answer, for still more.
Raises(h) ==
    LET next == Above(IF game.status = "asked" THEN game.asked ELSE game.level)
    IN  /\ Enters(h) /\ Allowed(h) /\ work[h].kind = "raise" /\ next # 0
        /\ \E hands \in Refreshed :
              game' = [game EXCEPT !.status = "asked", !.asker = work[h].by, !.asked = next,
                                   !.hands = hands]
        /\ Ends(h)
        /\ UNCHANGED <<lease, elsewhere, lock, gain, settled, lost, presses>>

\* _handle_truco_accept_raise
TakesRaise(h) ==
    /\ Enters(h) /\ Allowed(h) /\ work[h].kind = "take"
    /\ lock' = h /\ Goes(h, "charging")
    /\ UNCHANGED <<game, lease, elsewhere, gain, settled, lost, presses>>

RaiseTaken(h) ==
    /\ At(h, "charging") /\ work[h].paid = Players /\ work[h].kind = "take"
    /\ game' = [game EXCEPT !.level = game.asked, !.status = "active", !.asker = None, !.asked = 0]
    /\ Ends(h) /\ Unlocks(h)
    /\ UNCHANGED <<lease, elsewhere, gain, settled, lost, presses>>

\* Who runs loses, and so does whose turn it is for too long.
WinnerBy(h) == IF work[h].kind = "run" THEN Other(work[h].by) ELSE Other(game.turn)

\* _handle_truco_run, and the end of a match that nobody has touched for long.
GivenUp(h) ==
    /\ Enters(h) /\ Allowed(h) /\ work[h].kind \in {"run", "timeout"}
    /\ Finishes(h, WinnerBy(h), game)
    /\ lock' = h
    /\ UNCHANGED <<lease, elsewhere, gain, settled, lost, presses>>

(***************************************************************************)
(* Other games                                                             *)
(***************************************************************************)
\* The registry gives a player to one session at a time; a challenge holds the
\* challenger only.
JoinsElsewhere(p) ==
    /\ p \notin elsewhere
    /\ lease = "none" \/ (lease = "pending" /\ p = Opponent)
    /\ elsewhere' = elsewhere \cup {p}
    /\ UNCHANGED <<game, lease, lock, work, gain, settled, lost, presses>>

LeavesElsewhere(p) ==
    /\ p \in elsewhere /\ elsewhere' = elsewhere \ {p}
    /\ UNCHANGED <<game, lease, lock, work, gain, settled, lost, presses>>

Entry(h) ==
    \/ Refused(h) \/ CloseInvite(h) \/ AcceptBegins(h) \/ Plays(h) \/ Raises(h)
    \/ TakesRaise(h) \/ GivenUp(h)
Step(h) ==
    \/ Releases(h) \/ Prize(h) \/ Activated(h) \/ Charge(h) \/ Accepted(h) \/ Deals(h) \/ Hand(h)
    \/ SecondHand(h) \/ ShowsTurn(h) \/ Abort(h) \/ Aborted(h) \/ Played(h) \/ Resolves(h) \/ RaiseTaken(h)

Next ==
    \/ \E h \in All : Entry(h) \/ Step(h)
    \/ \E h \in Handlers, p \in Players, kind \in Kinds : Press(h, p, kind)
    \/ TimesOut \/ SweepsFinished
    \/ \E p \in Players : JoinsElsewhere(p) \/ LeavesElsewhere(p)

Spec == Init /\ [][Next]_vars

\* Calls return, the lock is given in turn, and messages time out.
FairSpec ==
    /\ Spec /\ WF_vars(TimesOut)
    /\ \A h \in All : WF_vars(Step(h)) /\ SF_vars(Entry(h))

(***************************************************************************)
(* Properties                                                              *)
(***************************************************************************)
\* Chips are neither made nor lost but where the code says so: what the players have
\* lost is what they contributed less what was paid out or returned, or is in a charge
\* under way, or was in one that raised.  And what was paid out or returned is what
\* was contributed, once: to the winner, or to both when the deal fails.  The one
\* exception is a deal that fails for one player while the other has his hand: what
\* he has done with it stands, and the entries are returned besides.
Contributed == IF game.accepted THEN 2 * Contributions[game.level] ELSE 0
PaidOut == IF "paid" \in settled THEN Contributed ELSE 0
Returned == IF "refunded" \in settled THEN 2 * Contributions[1] ELSE 0
Balance == gain[Challenger] + gain[Opponent] + lost + Contributed - (PaidOut + Returned)
ChipsAccounted ==
    /\ TypeOK
    /\ \E h \in All : \A g \in All : g # h => work[g].paid = {}
    /\ \A h \in All : work[h].paid # {} => Balance + BeingCharged(h) = 0
    /\ (\A h \in All : work[h].paid = {}) => Balance = 0
    /\ settled # {} /\ (game.undealt = {} \/ game.hands = {}) => PaidOut + Returned = Contributed
    /\ lost # 0 => "charge" \in MayFail

\* The players of a match are held by its session, and by no other.
PlayersReserved == game.accepted /\ ~game.finished => lease = "active" /\ elsewhere = {}

\* When no press is being handled, somebody can move: whose turn it is has a card to
\* play, and who is asked can answer.
SomebodyCanMove ==
    game.accepted /\ InPlay /\ lock = None =>
       /\ game.status = "active" => game.turn \notin game.table
       /\ game.status = "asked" => game.asker # None /\ game.asked > game.level

\* Who wins by the cards has won no fewer rounds than the other, whatever was tied.
WinnerWonRounds ==
    \A h \in All : At(h, "prize") /\ work[h].kind = "play" =>
       LET w == work[h].winner IN Wins(game.results, w) >= Wins(game.results, Other(w))

\* Every challenge is closed, and the entries of every match are paid out or returned.
TableCloses == <>[](game.finished /\ lease = "none" /\ (game.accepted => settled # {}))
=============================================================================
