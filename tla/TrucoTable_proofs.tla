---------------------------- MODULE TrucoTable_proofs ----------------------------
(***************************************************************************)
(* The truco table's theorems, for every set of handlers, every scale of   *)
(* contributions and every bound on the presses.  The inductive invariant  *)
(* says who may be at what: one handler works under the play lock, one     *)
(* deals, and what each has found in the game still holds when it goes on. *)
(***************************************************************************)
EXTENDS TrucoTable, FiniteSetTheorems, SequenceTheorems, TLAPS

Stages == {"idle", "waiting", "activating", "charging", "starting", "dealing", "second", "showing",
           "aborting", "played", "resolving", "prize", "releasing"}

\* At work under the play lock, and dealing, without it.
Busy(h) == work[h].at \in {"activating", "charging", "played", "resolving", "prize"}
Dealing(h) == work[h].at \in {"starting", "dealing", "second", "showing", "aborting"}

\* One handler works under the lock, also on a game that has lost its lock, for
\* nobody begins on a game that was removed; and one deals.
OneAtWork ==
    /\ ~game.current => game.finished
    /\ \A h \in All : Busy(h) /\ game.current => lock = h
    /\ \A g, h \in All : Busy(g) /\ Busy(h) => g = h
    /\ \A g, h \in All : Dealing(g) /\ Dealing(h) => g = h
    /\ \A h \in All : At(h, "releasing") => game.finished /\ ~game.current

\* What a handler that works under the lock, or deals, is there for.
KindByStage(h) ==
    /\ At(h, "activating") \/ Dealing(h) => work[h].kind = "accept"
    /\ At(h, "charging") => work[h].kind \in {"accept", "take"}
    /\ At(h, "played") \/ At(h, "resolving") => work[h].kind = "play"
    /\ At(h, "prize") => work[h].kind \in {"play", "run", "timeout"} /\ work[h].winner \in Players
    /\ work[h].paid # {} => At(h, "charging")

\* What a handler has found in the game, and still holds.
Found(h) ==
    /\ work[h].kind \in {"play", "raise", "take", "run"} =>
          work[h].by \in Players /\ game.hands # {}
    /\ work[h].kind = "timeout" => game.accepted /\ \A g \in All : ~Dealing(g)
    /\ At(h, "activating") \/ (At(h, "charging") /\ work[h].kind = "accept") =>
          ~game.accepted /\ ~game.finished /\ game.current
    /\ At(h, "charging") /\ work[h].kind = "accept" => lease = "active" /\ elsewhere = {}
    /\ At(h, "charging") /\ work[h].kind = "take" => game.status = "asked"
    /\ Dealing(h) => game.accepted
    /\ At(h, "starting") \/ At(h, "dealing") => game.hands = {}
    /\ At(h, "prize") => game.accepted /\ game.finished

\* The game by itself, and the reservation of its players.
GameInv ==
    /\ game.accepted <=> game.status # "invite"
    /\ game.hands # {} => game.accepted
    /\ game.status = "asked" =>
          game.asker \in Players /\ game.asked \in Levels /\ game.asked > game.level
    /\ PlayersReserved

\* Two rounds at most have been played when a hand goes on.
RoundsInv ==
    /\ ~game.finished => Len(game.results) <= 2
    /\ \A h \in All : At(h, "played") \/ At(h, "resolving") => Len(game.results) <= 2
    /\ WinnerWonRounds

IInv ==
    /\ TypeOK /\ OneAtWork /\ GameInv /\ RoundsInv
    /\ \A h \in All : KindByStage(h) /\ Found(h)

\* Whose turn it is has not played, but while his card is being handled.
TurnInv == (\A h \in All : ~At(h, "played") /\ ~At(h, "resolving")) => game.turn \notin game.table

\* A match goes on when somebody holds a hand; the pot is won after that, and the
\* entries are returned when nobody does, or when a hand was not delivered.
EntriesInv ==
    /\ settled # {} => game.finished /\ game.accepted
    /\ game.hands = {} => game.level = 1 /\ "paid" \notin settled
    /\ "refunded" \in settled => game.undealt # {} \/ game.hands = {}
    /\ game.accepted /\ ~game.finished /\ game.hands = {} => \E h \in All : Dealing(h)
    /\ \A h \in All :
          /\ Dealing(h) => "refunded" \notin settled
          /\ At(h, "showing") => game.hands # {}
          /\ At(h, "aborting") => game.finished /\ (game.undealt # {} \/ game.hands = {})
          /\ At(h, "prize") => game.hands # {} /\ "paid" \notin settled
          /\ At(h, "charging") /\ work[h].kind = "take" => "paid" \notin settled

\* Nobody but who is charging has a charge under way, and it makes up the balance.
ChipsInv ==
    /\ \A h \in All : work[h].paid # {} => Balance + BeingCharged(h) = 0
    /\ (\A h \in All : work[h].paid = {}) => Balance = 0
    /\ lost # 0 => "charge" \in MayFail

-----------------------------------------------------------------------------
LEMMA OtherPlayer ==
    ASSUME NEW p \in Players
    PROVE  Other(p) \in Players /\ Other(p) # p /\ Players = {p, Other(p)}
BY PlayersAssumption DEF Players, Other

LEMMA LevelOne == 1 \in Levels /\ Levels \subseteq Nat \ {0} /\ \A l \in Levels : Contributions[l] \in Nat
BY ContributionsAssumption DEF Levels

LEMMA NoWorkTyped == NoWork \in Work
BY DEF NoWork, Work, Kinds

LEMMA InitTyped == Init => TypeOK
BY LevelOne, NoWorkTyped, BoundAssumption
   DEF Init, TypeOK, Game, Players

\* A handler that goes on to another stage keeps the rest of its work; the others
\* keep theirs.
LEMMA Gone ==
    ASSUME TypeOK, NEW h \in All, NEW at \in Stages, Goes(h, at)
    PROVE  /\ work' \in [All -> Work]
           /\ At(h, at)' /\ work'[h].kind = work[h].kind /\ work'[h].by = work[h].by
           /\ work'[h].paid = work[h].paid /\ work'[h].winner = work[h].winner
           /\ \A g \in All \ {h} : work'[g] = work[g]
BY DEF TypeOK, Goes, At, Work, Stages

LEMMA Ended ==
    ASSUME TypeOK, NEW h \in All, Ends(h)
    PROVE  /\ work' \in [All -> Work] /\ work'[h] = NoWork
           /\ \A g \in All \ {h} : work'[g] = work[g]
BY NoWorkTyped DEF TypeOK, Ends

LEMMA Waiting ==
    ASSUME TypeOK, NEW h \in All, NEW kind \in Kinds, NEW by \in Players \cup {None},
           Waits(h, kind, by)
    PROVE  /\ work' \in [All -> Work]
           /\ At(h, "waiting")' /\ work'[h].kind = kind /\ work'[h].by = by /\ work'[h].paid = {}
           /\ \A g \in All \ {h} : work'[g] = work[g]
BY NoWorkTyped DEF TypeOK, Waits, Work, At, NoWork

\* Who is let in finds the lock free and nobody at work under it.
LEMMA AloneUnderLock ==
    ASSUME IInv, NEW h \in All, Enters(h), Allowed(h)
    PROVE  /\ game.current /\ ~game.finished /\ lock = None
           /\ \A g \in All : ~Busy(g)
BY ClockAssumption
   DEF IInv, OneAtWork, Enters, Allowed, Open, InPlay, All

\* The rounds are those of before, and nobody goes on to play or to win one.
LEMMA RoundsKept ==
    ASSUME RoundsInv, NEW h \in All, \A g \in All \ {h} : work'[g] = work[g],
           game'.results = game.results, game.finished => game'.finished,
           At(h, "played")' \/ At(h, "resolving")' => Len(game.results) <= 2,
           At(h, "prize")' => work'[h].kind # "play"
    PROVE  RoundsInv'
BY DEF RoundsInv, WinnerWonRounds, At

LEMMA RefusedKeeps == ASSUME IInv, NEW h \in All, Refused(h) PROVE IInv'
<1>b. /\ work' \in [All -> Work]
      /\ work'[h] = NoWork
      /\ \A g \in All \ {h} : work'[g] = work[g]
  BY Ended DEF Refused, IInv
<1>1. TypeOK'
  BY <1>b DEF Refused, IInv, TypeOK
<1>2. OneAtWork'
  BY <1>b DEF Refused, IInv, OneAtWork, Busy, Dealing, At, NoWork
<1>3. GameInv'
  BY <1>b DEF Refused, IInv, GameInv, PlayersReserved
<1>4. \A g \in All : KindByStage(g)'
  BY <1>b DEF IInv, KindByStage, Dealing, At, NoWork
<1>5. \A g \in All : Found(g)'
  BY <1>b DEF Refused, IInv, Found, Dealing, At, NoWork
<1>6. RoundsInv'
  BY <1>b DEF Refused, IInv, RoundsInv, WinnerWonRounds, At, NoWork
<1> QED
  BY <1>1, <1>2, <1>3, <1>4, <1>5, <1>6 DEF IInv

LEMMA CloseInviteKeeps == ASSUME IInv, NEW h \in All, CloseInvite(h) PROVE IInv'
<1>a. game.current /\ ~game.finished /\ lock = None /\ (\A g \in All : ~Busy(g))
  BY AloneUnderLock DEF CloseInvite
<1>b. /\ work' \in [All -> Work]
      /\ work'[h].at = "releasing" /\ work'[h].kind = work[h].kind /\ work'[h].by = work[h].by
      /\ work'[h].paid = work[h].paid /\ work'[h].winner = work[h].winner
      /\ \A g \in All \ {h} : work'[g] = work[g]
  BY Gone DEF CloseInvite, IInv, Stages, At
<1>1. TypeOK'
  BY <1>a, <1>b DEF CloseInvite, Removed, Open, Allowed, IInv, TypeOK, Game
<1>2. OneAtWork'
  BY <1>a, <1>b DEF CloseInvite, Removed, IInv, OneAtWork, Busy, Dealing
<1>3. GameInv'
  BY <1>a, <1>b DEF CloseInvite, Removed, IInv, GameInv, PlayersReserved
<1>4. \A g \in All : KindByStage(g)'
  BY <1>a, <1>b DEF CloseInvite, IInv, KindByStage, Dealing, At
<1>5. \A g \in All : Found(g)'
  BY <1>a, <1>b DEF CloseInvite, Removed, IInv, Found, Busy, Dealing, At
<1>6. RoundsInv'
  BY <1>a, <1>b DEF CloseInvite, Removed, IInv, RoundsInv, WinnerWonRounds, At
<1> QED
  BY <1>1, <1>2, <1>3, <1>4, <1>5, <1>6 DEF IInv

LEMMA AcceptBeginsKeeps == ASSUME IInv, NEW h \in All, AcceptBegins(h) PROVE IInv'
<1>a. game.current /\ ~game.finished /\ lock = None /\ (\A g \in All : ~Busy(g))
  BY AloneUnderLock DEF AcceptBegins
<1>b. /\ work' \in [All -> Work]
      /\ work'[h].at = "activating" /\ work'[h].kind = work[h].kind /\ work'[h].by = work[h].by
      /\ work'[h].paid = work[h].paid /\ work'[h].winner = work[h].winner
      /\ \A g \in All \ {h} : work'[g] = work[g]
  BY Gone DEF AcceptBegins, IInv, Stages, At
<1>1. TypeOK'
  BY <1>a, <1>b DEF AcceptBegins, IInv, TypeOK
<1>2. OneAtWork'
  BY <1>a, <1>b DEF AcceptBegins, IInv, OneAtWork, Busy, Dealing, At
<1>3. GameInv'
  <2>1. UNCHANGED <<game, lease, elsewhere>>
    BY DEF AcceptBegins
  <2> QED
    BY <2>1 DEF IInv, GameInv, PlayersReserved
<1>4. \A g \in All : KindByStage(g)'
  BY <1>a, <1>b DEF AcceptBegins, IInv, KindByStage, Busy, Dealing, At
<1>5. \A g \in All : Found(g)'
  BY <1>a, <1>b DEF AcceptBegins, Open, Allowed, IInv, Found, Dealing, At
<1>6. RoundsInv'
  BY <1>a, <1>b DEF AcceptBegins, IInv, RoundsInv, WinnerWonRounds, At
<1> QED
  BY <1>1, <1>2, <1>3, <1>4, <1>5, <1>6 DEF IInv

LEMMA PlaysKeeps == ASSUME IInv, NEW h \in All, Plays(h) PROVE IInv'
<1>a. game.current /\ ~game.finished /\ lock = None /\ (\A g \in All : ~Busy(g))
  BY AloneUnderLock DEF Plays
<1>b. /\ work' \in [All -> Work]
      /\ work'[h].at = "played" /\ work'[h].kind = work[h].kind /\ work'[h].by = work[h].by
      /\ work'[h].paid = work[h].paid /\ work'[h].winner = work[h].winner
      /\ \A g \in All \ {h} : work'[g] = work[g]
  BY Gone DEF Plays, IInv, Stages, At
<1>c. PICK hands \in SUBSET Players :
         /\ game' = [game EXCEPT !.table = @ \cup {work[h].by}, !.hands = hands]
         /\ hands # {} /\ lock' = h /\ game.hands # {}
         /\ work[h].kind = "play" /\ work[h].by \in Players
         /\ UNCHANGED <<lease, elsewhere, gain, settled, lost, presses>>
  <2>1. /\ game.hands # {} /\ Players # {} /\ game.hands \in SUBSET Players
        /\ work[h].kind = "play" /\ work[h].by \in Players
    BY DEF Plays, IInv, TypeOK, Game, Found, Players
  <2> QED
    BY <2>1 DEF Plays, Refreshed
<1>1. TypeOK'
  BY <1>a, <1>b, <1>c DEF IInv, TypeOK, Game
<1>2. OneAtWork'
  BY <1>a, <1>b, <1>c DEF IInv, OneAtWork, Busy, Dealing, At
<1>3. GameInv'
  BY <1>a, <1>b, <1>c DEF IInv, GameInv, PlayersReserved
<1>4. \A g \in All : KindByStage(g)'
  BY <1>a, <1>b, <1>c DEF IInv, KindByStage, Dealing, At
<1>5. \A g \in All : Found(g)'
  BY <1>a, <1>b, <1>c DEF IInv, Found, Dealing, At
<1>6. RoundsInv'
  BY <1>a, <1>b, <1>c DEF IInv, RoundsInv, WinnerWonRounds, At
<1> QED
  BY <1>1, <1>2, <1>3, <1>4, <1>5, <1>6 DEF IInv

LEMMA RaisesKeeps == ASSUME IInv, NEW h \in All, Raises(h) PROVE IInv'
<1>a. game.current /\ ~game.finished /\ lock = None /\ (\A g \in All : ~Busy(g))
  BY AloneUnderLock DEF Raises
<1>b. /\ work' \in [All -> Work]
      /\ work'[h] = NoWork
      /\ \A g \in All \ {h} : work'[g] = work[g]
  BY Ended DEF Raises, IInv
<1> DEFINE next == Above(IF game.status = "asked" THEN game.asked ELSE game.level)
<1>c. work[h].by \in Players /\ game.hands # {} /\ game.hands \in SUBSET Players /\ Players # {}
  BY DEF Raises, IInv, TypeOK, Game, Found, Players
<1>d. next \in Levels /\ next > game.level
  <2>1. game.level \in Nat /\ (game.status = "asked" => game.asked \in Nat /\ game.asked > game.level)
    BY LevelOne DEF IInv, TypeOK, Game, GameInv
  <2>2. \A l \in Nat : Above(l) # 0 => Above(l) \in Levels /\ Above(l) = l + 1
    BY DEF Above
  <2>3. next # 0
    BY DEF Raises
  <2>4. CASE game.status = "asked"
    BY <2>1, <2>2, <2>3, <2>4
  <2>5. CASE game.status # "asked"
    BY <2>1, <2>2, <2>3, <2>5
  <2> QED
    BY <2>4, <2>5
<1> HIDE DEF next
<1>e. PICK hands \in SUBSET Players :
         /\ game' = [game EXCEPT !.status = "asked", !.asker = work[h].by, !.asked = next,
                                 !.hands = hands]
         /\ hands # {} /\ UNCHANGED <<lease, elsewhere, lock, gain, settled, lost, presses>>
  BY <1>c DEF Raises, Refreshed, next
<1>1. TypeOK'
  BY <1>b, <1>c, <1>d, <1>e DEF IInv, TypeOK, Game
<1>2. OneAtWork'
  BY <1>b, <1>e DEF IInv, OneAtWork, Busy, Dealing, At, NoWork
<1>3. GameInv'
  BY <1>c, <1>d, <1>e DEF IInv, GameInv, PlayersReserved
<1>4. \A g \in All : KindByStage(g)'
  BY <1>a, <1>b DEF IInv, KindByStage, Dealing, At, NoWork
<1>5. \A g \in All : Found(g)'
  BY <1>a, <1>b, <1>c, <1>e DEF IInv, Found, Dealing, At, NoWork
<1>6. RoundsInv'
  BY <1>a, <1>b, <1>e DEF IInv, RoundsInv, WinnerWonRounds, At, NoWork
<1> QED
  BY <1>1, <1>2, <1>3, <1>4, <1>5, <1>6 DEF IInv

LEMMA TakesRaiseKeeps == ASSUME IInv, NEW h \in All, TakesRaise(h) PROVE IInv'
<1>a. game.current /\ ~game.finished /\ lock = None /\ (\A g \in All : ~Busy(g))
  BY AloneUnderLock DEF TakesRaise
<1>b. /\ work' \in [All -> Work]
      /\ work'[h].at = "charging" /\ work'[h].kind = work[h].kind /\ work'[h].by = work[h].by
      /\ work'[h].paid = work[h].paid /\ work'[h].winner = work[h].winner
      /\ \A g \in All \ {h} : work'[g] = work[g]
  BY Gone DEF TakesRaise, IInv, Stages, At
<1>1. TypeOK'
  BY <1>a, <1>b DEF TakesRaise, IInv, TypeOK
<1>2. OneAtWork'
  BY <1>a, <1>b DEF TakesRaise, IInv, OneAtWork, Busy, Dealing, At
<1>3. GameInv'
  BY <1>a, <1>b DEF TakesRaise, IInv, GameInv, PlayersReserved
<1>4. \A g \in All : KindByStage(g)'
  BY <1>a, <1>b DEF TakesRaise, IInv, KindByStage, Dealing, At
<1>5. \A g \in All : Found(g)'
  BY <1>a, <1>b DEF TakesRaise, Allowed, IInv, Found, Dealing, At
<1>6. RoundsInv'
  BY <1>a, <1>b DEF TakesRaise, IInv, RoundsInv, WinnerWonRounds, At
<1> QED
  BY <1>1, <1>2, <1>3, <1>4, <1>5, <1>6 DEF IInv

LEMMA ReleasesKeeps == ASSUME IInv, NEW h \in All, Releases(h) PROVE IInv'
<1>b. /\ work' \in [All -> Work]
      /\ work'[h] = NoWork
      /\ \A g \in All \ {h} : work'[g] = work[g]
  BY Ended DEF Releases, IInv
<1>1. TypeOK'
  BY <1>b DEF Releases, Unlocks, IInv, TypeOK
<1>2. OneAtWork'
  BY <1>b DEF Releases, IInv, OneAtWork, Busy, Dealing, NoWork
<1>3. GameInv'
  BY <1>b DEF Releases, IInv, OneAtWork, GameInv, PlayersReserved
<1>4. \A g \in All : KindByStage(g)'
  BY <1>b DEF IInv, KindByStage, Dealing, At, NoWork
<1>5. \A g \in All : Found(g)'
  BY <1>b DEF Releases, IInv, OneAtWork, Found, Dealing, At, NoWork
<1>6. RoundsInv'
  <2>1. game'.results = game.results /\ game'.finished = game.finished
    BY DEF Releases
  <2> QED
    BY <1>b, <2>1, RoundsKept DEF IInv, At, NoWork
<1> QED
  BY <1>1, <1>2, <1>3, <1>4, <1>5, <1>6 DEF IInv

LEMMA PrizeKeeps == ASSUME IInv, NEW h \in All, Prize(h) PROVE IInv'
<1>b. /\ work' \in [All -> Work]
      /\ work'[h].at = "releasing" /\ work'[h].kind = work[h].kind /\ work'[h].by = work[h].by
      /\ work'[h].paid = work[h].paid /\ work'[h].winner = work[h].winner
      /\ \A g \in All \ {h} : work'[g] = work[g]
  BY Gone DEF Prize, IInv, Stages, At
<1>1. TypeOK'
  <2>1. game' \in Game
    BY DEF Prize, Removed, IInv, TypeOK, Game
  <2>2. gain' \in [Players -> Int]
    <3>1. 2 * Contributions[game.level] \in Nat
      <4>1. Contributions[game.level] \in Nat
        BY LevelOne DEF IInv, TypeOK, Game
      <4> QED
        BY <4>1
    <3>2. gain' = gain \/ gain' = [gain EXCEPT ![work[h].winner] = @ + 2 * Contributions[game.level]]
      BY DEF Prize
    <3> QED
      BY <3>1, <3>2 DEF IInv, TypeOK
  <2> QED
    BY <1>b, <2>1, <2>2 DEF Prize, IInv, TypeOK
<1>2. OneAtWork'
  BY <1>b DEF Prize, Removed, IInv, OneAtWork, Busy, Dealing
<1>3. GameInv'
  BY <1>b DEF Prize, Removed, IInv, GameInv, PlayersReserved
<1>4. \A g \in All : KindByStage(g)'
  BY <1>b DEF Prize, IInv, KindByStage, Dealing, At
<1>5. \A g \in All : Found(g)'
  BY <1>b DEF Prize, Removed, IInv, Found, Dealing, At
<1>6. RoundsInv'
  BY <1>b DEF Prize, Removed, IInv, RoundsInv, WinnerWonRounds, At, NoWork
<1> QED
  BY <1>1, <1>2, <1>3, <1>4, <1>5, <1>6 DEF IInv

LEMMA AcceptedKeeps == ASSUME IInv, NEW h \in All, Accepted(h) PROVE IInv'
<1>b. /\ work' \in [All -> Work]
      /\ work'[h].at = "starting" /\ work'[h].kind = work[h].kind /\ work'[h].by = work[h].by
      /\ work'[h].paid = {} /\ work'[h].winner = work[h].winner
      /\ \A g \in All \ {h} : work'[g] = work[g]
  BY DEF Accepted, At, IInv, TypeOK, Work
<1>1. TypeOK'
  BY <1>b DEF Accepted, Unlocks, IInv, TypeOK, Game
<1>2. OneAtWork'
  BY <1>b DEF Accepted, IInv, OneAtWork, Found, Busy, Dealing, At
<1>3. GameInv'
  BY <1>b DEF Accepted, IInv, GameInv, PlayersReserved, Found
<1>4. \A g \in All : KindByStage(g)'
  BY <1>b DEF Accepted, IInv, KindByStage, Dealing, At
<1>5. \A g \in All : Found(g)'
  BY <1>b DEF Accepted, IInv, OneAtWork, GameInv, Found, Busy, At
<1>6. RoundsInv'
  BY <1>b DEF Accepted, IInv, RoundsInv, WinnerWonRounds, At
<1> QED
  BY <1>1, <1>2, <1>3, <1>4, <1>5, <1>6 DEF IInv

LEMMA DealsKeeps == ASSUME IInv, NEW h \in All, Deals(h) PROVE IInv'
<1>b. /\ work' \in [All -> Work]
      /\ work'[h].at = "dealing" /\ work'[h].kind = work[h].kind /\ work'[h].by = work[h].by
      /\ work'[h].paid = work[h].paid /\ work'[h].winner = work[h].winner
      /\ \A g \in All \ {h} : work'[g] = work[g]
  BY Gone DEF Deals, IInv, Stages, At
<1>1. TypeOK'
  BY <1>b DEF Deals, IInv, TypeOK, Game
<1>2. OneAtWork'
  BY <1>b DEF Deals, IInv, OneAtWork, Busy, Dealing, At
<1>3. GameInv'
  BY <1>b DEF Deals, IInv, GameInv, PlayersReserved, Found, Dealing, At
<1>4. \A g \in All : KindByStage(g)'
  BY <1>b DEF Deals, IInv, KindByStage, Dealing, At
<1>5. \A g \in All : Found(g)'
  BY <1>b DEF Deals, IInv, Found, Dealing, At
<1>6. RoundsInv'
  BY <1>b DEF Deals, IInv, RoundsInv, WinnerWonRounds, At
<1> QED
  BY <1>1, <1>2, <1>3, <1>4, <1>5, <1>6 DEF IInv

LEMMA AbortKeeps == ASSUME IInv, NEW h \in All, Abort(h) PROVE IInv'
<1>b. /\ work' \in [All -> Work]
      /\ work'[h].at = "aborting" /\ work'[h].kind = work[h].kind /\ work'[h].by = work[h].by
      /\ work'[h].paid = work[h].paid /\ work'[h].winner = work[h].winner
      /\ \A g \in All \ {h} : work'[g] = work[g]
  BY Gone DEF Abort, IInv, Stages, At
<1>1. TypeOK'
  BY <1>b DEF Abort, IInv, TypeOK, Game
<1>2. OneAtWork'
  BY <1>b DEF Abort, IInv, OneAtWork, Busy, Dealing, At
<1>3. GameInv'
  BY <1>b DEF Abort, IInv, GameInv, PlayersReserved
<1>4. \A g \in All : KindByStage(g)'
  BY <1>b DEF Abort, IInv, KindByStage, Dealing, At
<1>5. \A g \in All : Found(g)'
  BY <1>b DEF Abort, IInv, Found, Dealing, At
<1>6. RoundsInv'
  BY <1>b DEF Abort, IInv, Game, RoundsInv, WinnerWonRounds, At
<1> QED
  BY <1>1, <1>2, <1>3, <1>4, <1>5, <1>6 DEF IInv

LEMMA AbortedKeeps == ASSUME IInv, NEW h \in All, Aborted(h) PROVE IInv'
<1>b. /\ work' \in [All -> Work]
      /\ work'[h].at = "releasing" /\ work'[h].kind = work[h].kind /\ work'[h].by = work[h].by
      /\ work'[h].paid = work[h].paid /\ work'[h].winner = work[h].winner
      /\ \A g \in All \ {h} : work'[g] = work[g]
  BY Gone DEF Aborted, IInv, Stages, At
<1>1. TypeOK'
  <2>1. game' \in Game
    BY DEF Aborted, Removed, IInv, TypeOK, Game
  <2>2. gain' \in [Players -> Int]
    BY LevelOne DEF Aborted, IInv, TypeOK
  <2> QED
    BY <1>b, <2>1, <2>2 DEF Aborted, IInv, TypeOK
<1>2. OneAtWork'
  BY <1>b DEF Aborted, Removed, IInv, OneAtWork, Busy, Dealing
<1>3. GameInv'
  BY <1>b DEF Aborted, Removed, IInv, GameInv, PlayersReserved
<1>4. \A g \in All : KindByStage(g)'
  BY <1>b DEF Aborted, IInv, KindByStage, Dealing, At
<1>5. \A g \in All : Found(g)'
  BY <1>b DEF Aborted, Removed, IInv, Found, Dealing, At
<1>6. RoundsInv'
  BY <1>b DEF Aborted, Removed, IInv, RoundsInv, WinnerWonRounds, At, NoWork
<1> QED
  BY <1>1, <1>2, <1>3, <1>4, <1>5, <1>6 DEF IInv

LEMMA RaiseTakenKeeps == ASSUME IInv, NEW h \in All, RaiseTaken(h) PROVE IInv'
<1>b. /\ work' \in [All -> Work]
      /\ work'[h] = NoWork
      /\ \A g \in All \ {h} : work'[g] = work[g]
  BY Ended DEF RaiseTaken, IInv
<1>1. TypeOK'
  <2>1. game.asked \in Levels
    BY DEF RaiseTaken, IInv, GameInv, Found
  <2>2. game' \in Game
    BY <2>1 DEF RaiseTaken, IInv, TypeOK, Game
  <2> QED
    BY <1>b, <2>2 DEF RaiseTaken, Unlocks, IInv, TypeOK
<1>2. OneAtWork'
  BY <1>b DEF RaiseTaken, IInv, OneAtWork, Busy, Dealing, At, NoWork
<1>3. GameInv'
  BY <1>b DEF RaiseTaken, IInv, GameInv, PlayersReserved, Found
<1>4. \A g \in All : KindByStage(g)'
  BY <1>b DEF IInv, KindByStage, Dealing, At, NoWork
<1>5. \A g \in All : Found(g)'
  BY <1>b DEF RaiseTaken, IInv, OneAtWork, Found, Busy, Dealing, At, NoWork
<1>6. RoundsInv'
  <2>1. game'.results = game.results /\ game'.finished = game.finished
    BY DEF RaiseTaken
  <2> QED
    BY <1>b, <2>1, RoundsKept DEF IInv, At, NoWork
<1> QED
  BY <1>1, <1>2, <1>3, <1>4, <1>5, <1>6 DEF IInv

LEMMA SweepsFinishedKeeps == ASSUME IInv, SweepsFinished PROVE IInv'
<1> USE ClockAssumption DEF All
<1>b. /\ work' \in [All -> Work]
      /\ work'[Clock].at = "releasing" /\ work'[Clock].kind = "sweep"
      /\ work'[Clock].paid = {}
      /\ \A g \in All \ {Clock} : work'[g] = work[g]
  BY NoWorkTyped DEF SweepsFinished, NoWork, IInv, TypeOK, Work, Kinds
<1>1. TypeOK'
  BY <1>b DEF SweepsFinished, IInv, TypeOK, Game
<1>2. OneAtWork'
  BY <1>b DEF SweepsFinished, IInv, OneAtWork, Busy, Dealing
<1>3. GameInv'
  BY <1>b DEF SweepsFinished, IInv, GameInv, PlayersReserved
<1>4. \A g \in All : KindByStage(g)'
  BY <1>b DEF IInv, KindByStage, Dealing, At
<1>5. \A g \in All : Found(g)'
  BY <1>b DEF SweepsFinished, IInv, Found, Dealing, At
<1>6. RoundsInv'
  BY <1>b DEF SweepsFinished, IInv, RoundsInv, WinnerWonRounds, At
<1> QED
  BY <1>1, <1>2, <1>3, <1>4, <1>5, <1>6 DEF IInv

LEMMA GivenUpKeeps == ASSUME IInv, NEW h \in All, GivenUp(h) PROVE IInv'
<1>a. game.current /\ ~game.finished /\ lock = None /\ (\A g \in All : ~Busy(g))
  BY AloneUnderLock DEF GivenUp
<1>c. WinnerBy(h) \in Players
  BY OtherPlayer DEF WinnerBy, IInv, TypeOK, Game, Found
<1>b. /\ work' \in [All -> Work]
      /\ work'[h].at = "prize" /\ work'[h].kind = work[h].kind /\ work'[h].by = work[h].by
      /\ work'[h].paid = work[h].paid /\ work'[h].winner = WinnerBy(h)
      /\ \A g \in All \ {h} : work'[g] = work[g]
  BY <1>c DEF GivenUp, Finishes, IInv, TypeOK, Work
<1>1. TypeOK'
  BY <1>a, <1>b, <1>c DEF GivenUp, Finishes, IInv, TypeOK, Game
<1>2. OneAtWork'
  BY <1>a, <1>b, <1>c DEF GivenUp, Finishes, IInv, OneAtWork, Busy, Dealing, At
<1>3. GameInv'
  BY <1>a, <1>b, <1>c DEF GivenUp, Finishes, IInv, GameInv, PlayersReserved, Found
<1>4. \A g \in All : KindByStage(g)'
  BY <1>a, <1>b, <1>c DEF GivenUp, IInv, KindByStage, Dealing, At
<1>5. \A g \in All : Found(g)'
  BY <1>a, <1>b, <1>c DEF GivenUp, Finishes, IInv, GameInv, Found, Busy, Dealing, At
<1>6. RoundsInv'
  BY <1>a, <1>b, <1>c DEF GivenUp, Finishes, IInv, RoundsInv, WinnerWonRounds, At
<1> QED
  BY <1>1, <1>2, <1>3, <1>4, <1>5, <1>6 DEF IInv

LEMMA JoinsElsewhereKeeps == ASSUME IInv, NEW p \in Players, JoinsElsewhere(p) PROVE IInv'
<1>1. TypeOK'
  BY DEF JoinsElsewhere, IInv, TypeOK
<1>2. OneAtWork'
  BY DEF JoinsElsewhere, IInv, OneAtWork, Busy, Dealing, At
<1>3. GameInv'
  BY DEF JoinsElsewhere, IInv, GameInv, PlayersReserved
<1>4. \A g \in All : KindByStage(g)'
  BY DEF JoinsElsewhere, IInv, KindByStage, Dealing, At
<1>5. \A g \in All : Found(g)'
  BY DEF JoinsElsewhere, IInv, Found, Dealing, At
<1>6. RoundsInv'
  BY DEF JoinsElsewhere, IInv, RoundsInv, WinnerWonRounds, At
<1> QED
  BY <1>1, <1>2, <1>3, <1>4, <1>5, <1>6 DEF IInv

LEMMA LeavesElsewhereKeeps == ASSUME IInv, NEW p \in Players, LeavesElsewhere(p) PROVE IInv'
<1>1. TypeOK'
  BY DEF LeavesElsewhere, IInv, TypeOK
<1>2. OneAtWork'
  BY DEF LeavesElsewhere, IInv, OneAtWork, Busy, Dealing, At
<1>3. GameInv'
  BY DEF LeavesElsewhere, IInv, GameInv, PlayersReserved
<1>4. \A g \in All : KindByStage(g)'
  BY DEF LeavesElsewhere, IInv, KindByStage, Dealing, At
<1>5. \A g \in All : Found(g)'
  BY DEF LeavesElsewhere, IInv, Found, Dealing, At
<1>6. RoundsInv'
  BY DEF LeavesElsewhere, IInv, RoundsInv, WinnerWonRounds, At
<1> QED
  BY <1>1, <1>2, <1>3, <1>4, <1>5, <1>6 DEF IInv

LEMMA TimesOutKeeps == ASSUME IInv, TimesOut PROVE IInv'
<1> USE ClockAssumption DEF All
<1>a. PICK kind \in {"expire", "timeout"} :
        /\ Waits(Clock, kind, None)
        /\ kind = "timeout" => game.status # "invite" /\ \A g \in Handlers : Idle(g)
  BY DEF TimesOut
<1>b. /\ work' \in [All -> Work]
      /\ work'[Clock].at = "waiting" /\ work'[Clock].kind = kind /\ work'[Clock].paid = {}
      /\ \A g \in All \ {Clock} : work'[g] = work[g]
  BY <1>a, Waiting DEF IInv, At, Kinds
<1>1. TypeOK'
  BY <1>a, <1>b DEF TimesOut, IInv, TypeOK
<1>2. OneAtWork'
  BY <1>a, <1>b DEF TimesOut, IInv, OneAtWork, Busy, Dealing, At
<1>3. GameInv'
  BY <1>a, <1>b DEF TimesOut, IInv, GameInv, PlayersReserved
<1>4. \A g \in All : KindByStage(g)'
  BY <1>a, <1>b DEF IInv, KindByStage, Dealing, At
<1>5. \A g \in All : Found(g)'
  BY <1>a, <1>b DEF TimesOut, Idle, IInv, GameInv, Found, Dealing, At
<1>6. RoundsInv'
  BY <1>a, <1>b DEF TimesOut, IInv, RoundsInv, WinnerWonRounds, At
<1> QED
  BY <1>1, <1>2, <1>3, <1>4, <1>5, <1>6 DEF IInv

LEMMA PressKeeps == ASSUME IInv, NEW h \in Handlers, NEW p \in Players, NEW kind \in Kinds,
       Press(h, p, kind) PROVE IInv'
<1>b. /\ work' \in [All -> Work]
      /\ work'[h].at = "waiting" /\ work'[h].kind = kind /\ work'[h].by = p
      /\ work'[h].paid = {}
      /\ \A g \in All \ {h} : work'[g] = work[g]
  BY Waiting DEF Press, IInv, At, All
<1>1. TypeOK'
  BY <1>b, BoundAssumption DEF Press, IInv, TypeOK
<1>2. OneAtWork'
  BY <1>b, BoundAssumption DEF Press, IInv, OneAtWork, Busy, Dealing, At
<1>3. GameInv'
  BY <1>b, BoundAssumption DEF Press, IInv, GameInv, PlayersReserved
<1>4. \A g \in All : KindByStage(g)'
  BY <1>b, BoundAssumption DEF IInv, KindByStage, Dealing, At
<1>5. \A g \in All : Found(g)'
  BY <1>b, BoundAssumption DEF Press, IInv, Found, Dealing, At
<1>6. RoundsInv'
  BY <1>b, BoundAssumption DEF Press, IInv, RoundsInv, WinnerWonRounds, At
<1> QED
  BY <1>1, <1>2, <1>3, <1>4, <1>5, <1>6 DEF IInv

\* A hand that is sent is held, or counts as not delivered; the rest stays.
LEMMA SentOne ==
    ASSUME IInv, NEW p \in Players, NEW delivered \in BOOLEAN
    PROVE  \E hands, undealt \in SUBSET Players :
              /\ Sent(p, delivered) = [game EXCEPT !.hands = hands, !.undealt = undealt]
              /\ game.hands \subseteq hands /\ game.undealt \subseteq undealt
              /\ delivered => hands # {} /\ undealt = game.undealt
              /\ ~delivered => undealt # {} /\ hands = game.hands
<1>1. game \in Game /\ game.hands \in SUBSET Players /\ game.undealt \in SUBSET Players
  BY DEF IInv, TypeOK, Game
<1>2. CASE delivered
  <2>1. Sent(p, delivered) = [game EXCEPT !.hands = game.hands \cup {p}, !.undealt = game.undealt]
    BY <1>1, <1>2 DEF Sent, Game
  <2>2. game.hands \cup {p} \in SUBSET Players
    BY <1>1
  <2> QED
    BY <1>1, <1>2, <2>1, <2>2
<1>3. CASE ~delivered
  <2>1. Sent(p, delivered) = [game EXCEPT !.hands = game.hands, !.undealt = game.undealt \cup {p}]
    BY <1>1, <1>3 DEF Sent, Game
  <2>2. game.undealt \cup {p} \in SUBSET Players
    BY <1>1
  <2> QED
    BY <1>1, <1>3, <2>1, <2>2
<1> QED
  BY <1>2, <1>3

\* The first hand has been sent: it is held, or was not delivered.
LEMMA FirstSent ==
    ASSUME IInv, NEW h \in All, Hand(h)
    PROVE  /\ \E hands, undealt \in SUBSET Players :
                 /\ game' = [game EXCEPT !.hands = hands, !.undealt = undealt]
                 /\ game.hands \subseteq hands /\ game.undealt \subseteq undealt
           /\ At(h, "dealing") /\ Goes(h, "second") /\ game.accepted
           /\ UNCHANGED <<lease, elsewhere, lock, gain, settled, lost, presses>>
<1>1. Challenger \in Players
  BY DEF Players
<1>2. game.accepted
  BY DEF Hand, IInv, Found, Dealing, At
<1> QED
  BY <1>1, <1>2, SentOne DEF Hand

\* The second has been sent: with both delivered the turn is shown next.
LEMMA SecondSent ==
    ASSUME IInv, NEW h \in All, SecondHand(h)
    PROVE  /\ \E hands, undealt \in SUBSET Players, finished \in BOOLEAN :
                 /\ game' = [game EXCEPT !.hands = hands, !.undealt = undealt, !.finished = finished]
                 /\ game.hands \subseteq hands /\ game.undealt \subseteq undealt
                 /\ game.finished => finished
                 /\ \/ Goes(h, "aborting") /\ undealt # {} /\ finished
                    \/ Goes(h, "showing") /\ hands # {} /\ finished = game.finished
           /\ At(h, "second") /\ game.accepted
           /\ UNCHANGED <<lease, elsewhere, lock, gain, settled, lost, presses>>
<1>1. Opponent \in Players /\ game \in Game
  BY DEF Players, IInv, TypeOK
<1>2. game.accepted
  BY DEF SecondHand, IInv, Found, Dealing, At
<1>3. PICK delivered \in BOOLEAN :
        LET g == Sent(Opponent, delivered)
        IN  IF g.undealt # {} THEN game' = [g EXCEPT !.finished = TRUE] /\ Goes(h, "aborting")
            ELSE game' = g /\ Goes(h, "showing")
  BY DEF SecondHand
<1>4. PICK hands \in SUBSET Players, undealt \in SUBSET Players :
        /\ Sent(Opponent, delivered) = [game EXCEPT !.hands = hands, !.undealt = undealt]
        /\ game.hands \subseteq hands /\ game.undealt \subseteq undealt
        /\ delivered => hands # {} /\ undealt = game.undealt
        /\ ~delivered => undealt # {} /\ hands = game.hands
  BY <1>1, SentOne
<1>5. Sent(Opponent, delivered).undealt = undealt
  BY <1>1, <1>4 DEF Game
<1>6. CASE undealt # {}
  <2>1. Goes(h, "aborting") /\ game' = [Sent(Opponent, delivered) EXCEPT !.finished = TRUE]
    BY <1>3, <1>5, <1>6
  <2>2. game' = [game EXCEPT !.hands = hands, !.undealt = undealt, !.finished = TRUE]
    BY <1>1, <1>4, <2>1 DEF Game
  <2> QED
    BY <1>2, <1>4, <1>6, <2>1, <2>2 DEF SecondHand
<1>7. CASE undealt = {}
  <2>1. Goes(h, "showing") /\ game' = Sent(Opponent, delivered)
    BY <1>3, <1>5, <1>7
  <2>2. game' = [game EXCEPT !.hands = hands, !.undealt = undealt, !.finished = game.finished]
    BY <1>1, <1>4, <2>1 DEF Game
  <2>3. game.finished \in BOOLEAN /\ hands # {}
    BY <1>1, <1>4, <1>7 DEF Game
  <2> QED
    BY <1>2, <1>4, <1>7, <2>1, <2>2, <2>3 DEF SecondHand
<1> QED
  BY <1>6, <1>7

LEMMA HandKeeps == ASSUME IInv, NEW h \in All, Hand(h) PROVE IInv'
<1>a. PICK hands \in SUBSET Players, undealt \in SUBSET Players :
         /\ game' = [game EXCEPT !.hands = hands, !.undealt = undealt]
         /\ game.hands \subseteq hands /\ game.undealt \subseteq undealt
         /\ At(h, "dealing") /\ game.accepted
         /\ UNCHANGED <<lease, elsewhere, lock, gain, settled, lost, presses>>
  BY FirstSent
<1>b. /\ work' \in [All -> Work]
      /\ work'[h].at = "second" /\ work'[h].kind = work[h].kind /\ work'[h].by = work[h].by
      /\ work'[h].paid = work[h].paid /\ work'[h].winner = work[h].winner
      /\ \A g \in All \ {h} : work'[g] = work[g]
  BY Gone, FirstSent DEF IInv, Stages, At
<1>1. TypeOK'
  BY <1>a, <1>b DEF IInv, TypeOK, Game
<1>2. OneAtWork'
  BY <1>a, <1>b DEF IInv, OneAtWork, Busy, Dealing, At, NoWork
<1>3. GameInv'
  BY <1>a, <1>b DEF IInv, GameInv, PlayersReserved
<1>4. \A g \in All : KindByStage(g)'
  BY <1>a, <1>b DEF IInv, KindByStage, Dealing, At, NoWork
<1>5. \A g \in All : Found(g)'
  BY <1>a, <1>b DEF IInv, OneAtWork, Found, Dealing, At, NoWork
<1>6. RoundsInv'
  BY <1>a, <1>b DEF IInv, RoundsInv, WinnerWonRounds, At, NoWork
<1> QED
  BY <1>1, <1>2, <1>3, <1>4, <1>5, <1>6 DEF IInv

LEMMA SecondHandKeeps == ASSUME IInv, NEW h \in All, SecondHand(h) PROVE IInv'
<1>a. PICK hands \in SUBSET Players, undealt \in SUBSET Players, finished \in BOOLEAN :
         /\ game' = [game EXCEPT !.hands = hands, !.undealt = undealt, !.finished = finished]
         /\ game.hands \subseteq hands /\ game.undealt \subseteq undealt
         /\ game.finished => finished
         /\ At(h, "second") /\ game.accepted
         /\ UNCHANGED <<lease, elsewhere, lock, gain, settled, lost, presses>>
  BY SecondSent
<1>b. /\ work' \in [All -> Work]
      /\ work'[h].at \in {"aborting", "showing"} /\ work'[h].kind = work[h].kind /\ work'[h].by = work[h].by
      /\ work'[h].paid = work[h].paid /\ work'[h].winner = work[h].winner
      /\ \A g \in All \ {h} : work'[g] = work[g]
  <2>1. Goes(h, "aborting") \/ Goes(h, "showing")
    BY SecondSent
  <2> QED
    BY <2>1, Gone DEF IInv, Stages, At
<1>1. TypeOK'
  BY <1>a, <1>b DEF IInv, TypeOK, Game
<1>2. OneAtWork'
  BY <1>a, <1>b DEF IInv, OneAtWork, Busy, Dealing, At, NoWork
<1>3. GameInv'
  BY <1>a, <1>b DEF IInv, GameInv, PlayersReserved
<1>4. \A g \in All : KindByStage(g)'
  BY <1>a, <1>b DEF IInv, KindByStage, Dealing, At, NoWork
<1>5. \A g \in All : Found(g)'
  BY <1>a, <1>b DEF IInv, OneAtWork, Found, Dealing, At, NoWork
<1>6. RoundsInv'
  BY <1>a, <1>b DEF IInv, RoundsInv, WinnerWonRounds, At, NoWork
<1> QED
  BY <1>1, <1>2, <1>3, <1>4, <1>5, <1>6 DEF IInv

LEMMA ShowsTurnKeeps == ASSUME IInv, NEW h \in All, ShowsTurn(h) PROVE IInv'
<1>a. /\ game' = [game EXCEPT !.refundable = FALSE] /\ At(h, "showing")
      /\ UNCHANGED <<lease, elsewhere, lock, gain, settled, lost, presses>>
  BY DEF ShowsTurn
<1>b. /\ work' \in [All -> Work] /\ work'[h] = NoWork
      /\ \A g \in All \ {h} : work'[g] = work[g]
  BY Ended DEF ShowsTurn, IInv
<1>1. TypeOK'
  BY <1>a, <1>b DEF IInv, TypeOK, Game
<1>2. OneAtWork'
  BY <1>a, <1>b DEF IInv, OneAtWork, Busy, Dealing, At, NoWork
<1>3. GameInv'
  BY <1>a, <1>b DEF IInv, GameInv, PlayersReserved
<1>4. \A g \in All : KindByStage(g)'
  BY <1>a, <1>b DEF IInv, KindByStage, Dealing, At, NoWork
<1>5. \A g \in All : Found(g)'
  BY <1>a, <1>b DEF IInv, OneAtWork, Found, Dealing, At, NoWork
<1>6. RoundsInv'
  BY <1>a, <1>b DEF IInv, RoundsInv, WinnerWonRounds, At, NoWork
<1> QED
  BY <1>1, <1>2, <1>3, <1>4, <1>5, <1>6 DEF IInv

LEMMA PlayedKeeps == ASSUME IInv, NEW h \in All, Played(h) PROVE IInv'
<1>a. \/ /\ game.table # Players /\ game' = [game EXCEPT !.turn = NextTurn] /\ Ends(h) /\ Unlocks(h)
      \/ /\ Goes(h, "resolving") /\ UNCHANGED <<game, lock>>
      \/ /\ UNCHANGED game /\ Ends(h) /\ Unlocks(h)
  BY DEF Played
<1>b. /\ work' \in [All -> Work]
      /\ \/ work'[h] = NoWork /\ Unlocks(h)
         \/ /\ work'[h].at = "resolving" /\ work'[h].kind = work[h].kind /\ work'[h].by = work[h].by
            /\ work'[h].paid = work[h].paid /\ UNCHANGED lock
      /\ \A g \in All \ {h} : work'[g] = work[g]
  BY <1>a, Gone, Ended DEF IInv, Stages, At
<1>c. \E p \in Players : game' = [game EXCEPT !.turn = p]
  <2>1. game.turn \in Players /\ game' = game => game' = [game EXCEPT !.turn = game.turn]
    BY DEF IInv, TypeOK, Game
  <2>2. game.table # Players => NextTurn \in Players
    BY DEF NextTurn, IInv, TypeOK, Game
  <2> QED
    BY <1>a, <2>1, <2>2 DEF IInv, TypeOK, Game
<1>d. At(h, "played") /\ UNCHANGED <<lease, elsewhere, gain, settled, lost, presses>>
  BY DEF Played
<1>1. TypeOK'
  BY <1>b, <1>c, <1>d DEF Unlocks, IInv, TypeOK, Game
<1>2. OneAtWork'
  BY <1>b, <1>c, <1>d DEF IInv, OneAtWork, Busy, Dealing, At, NoWork
<1>3. GameInv'
  BY <1>b, <1>c, <1>d DEF IInv, GameInv, PlayersReserved
<1>4. \A g \in All : KindByStage(g)'
  BY <1>b, <1>c, <1>d DEF IInv, KindByStage, Dealing, At, NoWork
<1>5. \A g \in All : Found(g)'
  BY <1>b, <1>c, <1>d DEF IInv, Found, Dealing, At, NoWork
<1>6. RoundsInv'
  BY <1>b, <1>c, <1>d DEF IInv, RoundsInv, WinnerWonRounds, At, NoWork
<1> QED
  BY <1>1, <1>2, <1>3, <1>4, <1>5, <1>6 DEF IInv

\* Charged by none, by one, or by both.
LEMMA PaidBy ==
    ASSUME NEW paid \in SUBSET Players
    PROVE  /\ paid = {} => Cardinality(paid) = 0
           /\ \A p \in Players : paid = {p} => Cardinality(paid) = 1
           /\ paid = Players => Cardinality(paid) = 2
           /\ paid = {} \/ paid = Players \/ \E p \in Players : paid = {p}
<1>1. Players = {Challenger} \cup {Opponent} /\ Opponent \notin {Challenger}
  BY PlayersAssumption DEF Players
<1>2. IsFiniteSet({Challenger}) /\ Cardinality({Challenger}) = 1
  BY FS_Singleton
<1>3. Cardinality({Challenger} \cup {Opponent}) = 2
  BY <1>1, <1>2, FS_AddElement
<1>4. Cardinality({}) = 0 /\ \A p : Cardinality({p}) = 1
  BY FS_EmptySet, FS_Singleton
<1>5. paid = {} \/ paid = Players \/ paid = {Challenger} \/ paid = {Opponent}
  BY <1>1
<1>6. Challenger \in Players /\ Opponent \in Players
  BY <1>1
<1>7. paid = {} \/ paid = Players \/ \E p \in Players : paid = {p}
  BY <1>5, <1>6
<1>8. Cardinality(Players) = 2
  BY <1>1, <1>3
<1> QED
  BY <1>4, <1>7, <1>8

\* What is due for the entry, and for a raise that has been asked for.
LEMMA DueTyped ==
    ASSUME IInv, NEW h \in All, At(h, "charging")
    PROVE  Due(h) \in Int
<1>1. work[h].kind # "accept" => game.asked \in Levels
  BY DEF IInv, KindByStage, Found, GameInv
<1>2. Contributions[1] \in Nat /\ Contributions[game.level] \in Nat
  BY LevelOne DEF IInv, TypeOK, Game
<1>3. work[h].kind # "accept" => Contributions[game.asked] \in Nat
  BY <1>1, LevelOne
<1> QED
  BY <1>2, <1>3 DEF Due

LEMMA BeingChargedTyped ==
    ASSUME IInv, NEW h \in All, At(h, "charging")
    PROVE  BeingCharged(h) \in Int
<1>1. Due(h) \in Int
  BY DueTyped
<1>2. work[h].paid \in SUBSET Players
  BY DEF IInv, TypeOK, Work
<1>3. Cardinality(work[h].paid) \in Int
  BY <1>2, PaidBy
<1>4. Cardinality(work[h].paid) * 0 \in Int /\ Cardinality(work[h].paid) * Due(h) \in Int
  BY <1>1, <1>3
<1> QED
  BY <1>4 DEF BeingCharged

\* A charge changes the chips and, as the lock is held, little else.
LEMMA ChargedKeeps == ASSUME IInv, NEW h \in All, At(h, "charging"), NEW p \in Players, Charged(h, p) PROVE IInv'
<1>b. /\ work' \in [All -> Work]
      /\ work'[h].at = "charging" /\ work'[h].kind = work[h].kind /\ work'[h].by = work[h].by
      /\ work'[h].paid = work[h].paid \cup {p} /\ work'[h].winner = work[h].winner
      /\ \A g \in All \ {h} : work'[g] = work[g]
  BY DEF Charged, At, IInv, TypeOK, Work
<1>c. gain' \in [Players -> Int]
  <2>1. gain[p] - Due(h) \in Int
    BY DueTyped DEF IInv, TypeOK
  <2> QED
    BY <2>1 DEF Charged, IInv, TypeOK
<1>1. TypeOK'
  BY <1>b, <1>c DEF Charged, IInv, TypeOK
<1>2. OneAtWork'
  BY <1>b, <1>c DEF Charged, IInv, OneAtWork, Busy, Dealing, At
<1>3. GameInv'
  BY <1>b, <1>c DEF Charged, IInv, GameInv, PlayersReserved
<1>4. \A g \in All : KindByStage(g)'
  BY <1>b, <1>c DEF IInv, KindByStage, Dealing, At
<1>5. \A g \in All : Found(g)'
  BY <1>b, <1>c DEF Charged, IInv, Found, Dealing, At
<1>6. RoundsInv'
  BY <1>b, <1>c DEF Charged, IInv, RoundsInv, WinnerWonRounds, At
<1> QED
  BY <1>1, <1>2, <1>3, <1>4, <1>5, <1>6 DEF IInv

LEMMA NotChargedKeeps == ASSUME IInv, NEW h \in All, At(h, "charging"), NotCharged(h) PROVE IInv'
<1>a. gain' \in [Players -> Int]
  <2>1. \A p \in Players : gain[p] + Due(h) \in Int
    BY DueTyped DEF IInv, TypeOK
  <2> QED
    BY <2>1 DEF NotCharged, Refunded, IInv, TypeOK
<1>b. lost' \in Int
  BY BeingChargedTyped DEF NotCharged, IInv, TypeOK
<1>1. CASE /\ game' = Removed(game) /\ lock' = None
           /\ work' = [work EXCEPT ![h].at = "releasing", ![h].paid = {}]
  <2>b. /\ work' \in [All -> Work]
        /\ work'[h].at = "releasing" /\ work'[h].kind = work[h].kind /\ work'[h].by = work[h].by
        /\ work'[h].paid = {} /\ work'[h].winner = work[h].winner
        /\ \A g \in All \ {h} : work'[g] = work[g]
    BY <1>1 DEF IInv, TypeOK, Work
  <2>1. TypeOK'
    BY <1>a, <1>b, <1>1, <2>b DEF NotCharged, Removed, IInv, TypeOK, Game
  <2>2. OneAtWork'
    BY <1>a, <1>1, <2>b DEF Removed, IInv, OneAtWork, Busy, Dealing
  <2>3. GameInv'
    BY <1>a, <1>1, <2>b DEF Removed, IInv, GameInv, PlayersReserved
  <2>4. \A g \in All : KindByStage(g)'
    BY <1>a, <1>1, <2>b DEF IInv, KindByStage, Dealing, At
  <2>5. \A g \in All : Found(g)'
    BY <1>a, <1>1, <2>b DEF Removed, IInv, OneAtWork, Found, Busy, Dealing, At
  <2>6. RoundsInv'
    BY <1>a, <1>1, <2>b DEF Removed, IInv, RoundsInv, WinnerWonRounds, At
  <2> QED
    BY <2>1, <2>2, <2>3, <2>4, <2>5, <2>6 DEF IInv
<1>2. CASE UNCHANGED game /\ Ends(h) /\ Unlocks(h)
  <2>b. /\ work' \in [All -> Work]
        /\ work'[h] = NoWork
        /\ \A g \in All \ {h} : work'[g] = work[g]
    BY <1>2, Ended DEF IInv
  <2>1. TypeOK'
    BY <1>a, <1>b, <1>2, <2>b DEF NotCharged, Unlocks, IInv, TypeOK
  <2>2. OneAtWork'
    BY <1>a, <1>2, <2>b DEF IInv, OneAtWork, Busy, Dealing, At, NoWork
  <2>3. GameInv'
    BY <1>a, <1>2, <2>b DEF NotCharged, IInv, GameInv, PlayersReserved
  <2>4. \A g \in All : KindByStage(g)'
    BY <1>a, <1>2, <2>b DEF IInv, KindByStage, Dealing, At, NoWork
  <2>5. \A g \in All : Found(g)'
    BY <1>a, <1>2, <2>b DEF NotCharged, IInv, Found, Dealing, At, NoWork
  <2>6. RoundsInv'
    BY <1>2, <2>b, RoundsKept DEF IInv, At, NoWork
  <2> QED
    BY <2>1, <2>2, <2>3, <2>4, <2>5, <2>6 DEF IInv
<1> QED
  BY <1>1, <1>2 DEF NotCharged

LEMMA ChargeKeeps == ASSUME IInv, NEW h \in All, Charge(h) PROVE IInv'
BY ChargedKeeps, NotChargedKeeps DEF Charge

\* The players are reserved, or not; in the end the handler goes on, or is done.
LEMMA ActivatedKeeps == ASSUME IInv, NEW h \in All, Activated(h) PROVE IInv'
<1>a. /\ work[h].kind = "accept" /\ work[h].paid = {}
      /\ ~game.accepted /\ ~game.finished /\ game.current /\ lock = h
  BY DEF Activated, IInv, KindByStage, Found, OneAtWork, Busy, At
<1>c. UNCHANGED <<elsewhere, gain, settled, lost, presses>>
  BY DEF Activated
<1>1. CASE /\ NobodyElsewhere /\ lease' = "active" /\ Goes(h, "charging")
           /\ UNCHANGED <<game, lock>>
  <2>b. /\ work' \in [All -> Work]
        /\ work'[h].at = "charging" /\ work'[h].kind = work[h].kind /\ work'[h].by = work[h].by
        /\ work'[h].paid = work[h].paid /\ work'[h].winner = work[h].winner
        /\ \A g \in All \ {h} : work'[g] = work[g]
    BY <1>1, Gone DEF IInv, Stages, At
  <2>1. TypeOK'
    BY <1>a, <1>c, <1>1, <2>b DEF IInv, TypeOK
  <2>2. OneAtWork'
    BY <1>a, <1>c, <1>1, <2>b DEF IInv, OneAtWork, Busy, Dealing, At
  <2>3. GameInv'
    BY <1>a, <1>c, <1>1, <2>b DEF IInv, GameInv, PlayersReserved
  <2>4. \A g \in All : KindByStage(g)'
    BY <1>a, <1>c, <1>1, <2>b DEF IInv, KindByStage, Dealing, At
  <2>5. \A g \in All : Found(g)'
    BY <1>a, <1>c, <1>1, <2>b DEF NobodyElsewhere, IInv, Found, Dealing, At
  <2>6. RoundsInv'
    BY <1>a, <1>c, <1>1, <2>b DEF IInv, RoundsInv, WinnerWonRounds, At
  <2> QED
    BY <2>1, <2>2, <2>3, <2>4, <2>5, <2>6 DEF IInv
<1>2. CASE Ends(h) /\ Unlocks(h) /\ UNCHANGED <<game, lease>>
  <2>b. /\ work' \in [All -> Work]
        /\ work'[h] = NoWork
        /\ \A g \in All \ {h} : work'[g] = work[g]
    BY <1>2, Ended DEF IInv
  <2>1. TypeOK'
    BY <1>a, <1>c, <1>2, <2>b DEF Unlocks, IInv, TypeOK
  <2>2. OneAtWork'
    BY <1>a, <1>c, <1>2, <2>b DEF IInv, OneAtWork, Busy, Dealing, At, NoWork
  <2>3. GameInv'
    BY <1>a, <1>c, <1>2, <2>b DEF IInv, GameInv, PlayersReserved
  <2>4. \A g \in All : KindByStage(g)'
    BY <1>a, <1>c, <1>2, <2>b DEF IInv, KindByStage, Dealing, At, NoWork
  <2>5. \A g \in All : Found(g)'
    BY <1>a, <1>c, <1>2, <2>b DEF IInv, Found, Dealing, At, NoWork
  <2>6. RoundsInv'
    BY <1>a, <1>c, <1>2, <2>b DEF IInv, RoundsInv, WinnerWonRounds, At, NoWork
  <2> QED
    BY <2>1, <2>2, <2>3, <2>4, <2>5, <2>6 DEF IInv
<1>3. CASE /\ game' = Removed(game) /\ lock' = None /\ Goes(h, "releasing")
           /\ UNCHANGED lease
  <2>b. /\ work' \in [All -> Work]
        /\ work'[h].at = "releasing" /\ work'[h].kind = work[h].kind /\ work'[h].by = work[h].by
        /\ work'[h].paid = work[h].paid /\ work'[h].winner = work[h].winner
        /\ \A g \in All \ {h} : work'[g] = work[g]
    BY <1>3, Gone DEF IInv, Stages, At
  <2>1. TypeOK'
    BY <1>a, <1>c, <1>3, <2>b DEF Removed, IInv, TypeOK, Game
  <2>2. OneAtWork'
    BY <1>a, <1>c, <1>3, <2>b DEF Removed, IInv, OneAtWork, Busy, Dealing
  <2>3. GameInv'
    BY <1>a, <1>c, <1>3, <2>b DEF Removed, IInv, GameInv, PlayersReserved
  <2>4. \A g \in All : KindByStage(g)'
    BY <1>a, <1>c, <1>3, <2>b DEF IInv, KindByStage, Dealing, At
  <2>5. \A g \in All : Found(g)'
    BY <1>a, <1>c, <1>3, <2>b DEF Removed, IInv, OneAtWork, Found, Busy, Dealing, At
  <2>6. RoundsInv'
    BY <1>a, <1>c, <1>3, <2>b DEF Removed, IInv, RoundsInv, WinnerWonRounds, At
  <2> QED
    BY <2>1, <2>2, <2>3, <2>4, <2>5, <2>6 DEF IInv
<1> QED
  BY <1>1, <1>2, <1>3 DEF Activated

-----------------------------------------------------------------------------
\* The rounds a player has won, counted position by position.
WonAt(r, p, i) == IF i <= Len(r) /\ r[i] = p THEN 1 ELSE 0
WonUpTo(r, p, n) == {i \in DOMAIN r : i <= n /\ r[i] = p}

LEMMA WinsUpTo ==
    ASSUME NEW r \in Seq(Players \cup {None}), NEW p, NEW k \in Nat,
           IsFiniteSet(WonUpTo(r, p, k))
    PROVE  /\ IsFiniteSet(WonUpTo(r, p, k + 1))
           /\ Cardinality(WonUpTo(r, p, k + 1)) = Cardinality(WonUpTo(r, p, k)) + WonAt(r, p, k + 1)
<1>1. CASE k + 1 <= Len(r) /\ r[k + 1] = p
  <2>1. /\ WonUpTo(r, p, k + 1) = WonUpTo(r, p, k) \cup {k + 1}
        /\ k + 1 \notin WonUpTo(r, p, k) /\ WonAt(r, p, k + 1) = 1
    BY <1>1 DEF WonUpTo, WonAt
  <2> QED
    BY <2>1, FS_AddElement
<1>2. CASE ~(k + 1 <= Len(r) /\ r[k + 1] = p)
  <2>1. WonUpTo(r, p, k + 1) = WonUpTo(r, p, k) /\ WonAt(r, p, k + 1) = 0
    BY <1>2 DEF WonUpTo, WonAt
  <2>2. Cardinality(WonUpTo(r, p, k)) \in Nat
    BY FS_CardinalityType
  <2> QED
    BY <2>1, <2>2
<1> QED
  BY <1>1, <1>2

LEMMA WinsCounted ==
    ASSUME NEW r \in Seq(Players \cup {None}), Len(r) <= 3, NEW p
    PROVE  Wins(r, p) = WonAt(r, p, 1) + WonAt(r, p, 2) + WonAt(r, p, 3)
<1> DEFINE Up(n) == WonUpTo(r, p, n)
<1>1. Up(0) = {} /\ Up(3) = {i \in DOMAIN r : r[i] = p}
  BY DEF WonUpTo
<1>2. IsFiniteSet(Up(0)) /\ Cardinality(Up(0)) = 0
  BY <1>1, FS_EmptySet
<1>3. IsFiniteSet(Up(1)) /\ Cardinality(Up(1)) = Cardinality(Up(0)) + WonAt(r, p, 1)
  <2>1. 0 + 1 = 1 /\ 0 \in Nat
    OBVIOUS
  <2> QED
    BY <1>2, <2>1, WinsUpTo
<1>4. IsFiniteSet(Up(2)) /\ Cardinality(Up(2)) = Cardinality(Up(1)) + WonAt(r, p, 2)
  <2>1. 1 + 1 = 2
    OBVIOUS
  <2> QED
    BY <1>3, <2>1, WinsUpTo
<1>5. IsFiniteSet(Up(3)) /\ Cardinality(Up(3)) = Cardinality(Up(2)) + WonAt(r, p, 3)
  <2>1. 2 + 1 = 3
    OBVIOUS
  <2> QED
    BY <1>4, <2>1, WinsUpTo
<1>6. WonAt(r, p, 1) \in Nat /\ WonAt(r, p, 2) \in Nat /\ WonAt(r, p, 3) \in Nat
  BY DEF WonAt
<1>7. Wins(r, p) = Cardinality(Up(3))
  BY <1>1 DEF Wins
<1> QED
  BY <1>2, <1>3, <1>4, <1>5, <1>6, <1>7

LEMMA OneTwoThree == \A n \in Nat : n >= 1 /\ n <= 3 => n = 1 \/ n = 2 \/ n = 3
OBVIOUS

\* Who wins a hand is a player, the third round decides it at the latest, and he has
\* won no fewer rounds than the other.
LEMMA HandDecided ==
    ASSUME NEW r \in Seq(Players \cup {None}), Len(r) >= 1, Len(r) <= 3, NEW starter \in Players
    PROVE  LET w == HandWinner(r, starter)
           IN  /\ w \in Players \cup {None}
               /\ Len(r) = 3 => w # None
               /\ w # None => Wins(r, w) >= Wins(r, Other(w))
<1>0. Len(r) \in Nat /\ Len(r) >= 1 /\ Len(r) <= 3
  OBVIOUS
<1>1. /\ r[1] \in Players \cup {None}
      /\ Len(r) >= 2 => r[2] \in Players \cup {None}
      /\ Len(r) = 3 => r[3] \in Players \cup {None}
  OBVIOUS
<1>2. None \notin Players
  BY PlayersAssumption DEF Players
<1>3. \A p \in Players : Other(p) \in Players /\ Other(p) # p
  BY OtherPlayer
<1>4. \A p : Wins(r, p) = WonAt(r, p, 1) + WonAt(r, p, 2) + WonAt(r, p, 3)
  BY WinsCounted
<1>5. /\ HandWinner(r, starter) \in Players \cup {None}
      /\ Len(r) = 3 => HandWinner(r, starter) # None
  <2> DEFINE twice == Wins(r, r[1]) >= 2
  <2>1. HandWinner(r, starter) =
          IF r[1] # None /\ twice THEN r[1]
          ELSE IF Len(r) = 1 THEN None
          ELSE IF r[1] = None /\ r[2] # None THEN r[2]
          ELSE IF r[1] # None /\ r[2] = None THEN r[1]
          ELSE IF Len(r) < 3 THEN None
          ELSE IF r[3] # None THEN r[3]
          ELSE IF r[1] # None THEN r[1] ELSE starter
    BY DEF HandWinner
  <2> HIDE DEF twice
  <2>2. Len(r) = 1 \/ Len(r) = 2 \/ Len(r) = 3
    BY <1>0, OneTwoThree, Zenon
  <2>3. CASE Len(r) = 1
    BY <1>1, <2>1, <2>3
  <2>4. CASE Len(r) = 2
    BY <1>1, <2>1, <2>4
  <2>5. CASE Len(r) = 3
    BY <1>1, <1>2, <2>1, <2>5
  <2> QED
    BY <2>2, <2>3, <2>4, <2>5
<1>6. ASSUME HandWinner(r, starter) # None
      PROVE  Wins(r, HandWinner(r, starter)) >= Wins(r, Other(HandWinner(r, starter)))
  <2> DEFINE w == HandWinner(r, starter)
             One(i, p) == IF r[i] = p THEN 1 ELSE 0
  <2>1. Len(r) = 1 \/ Len(r) = 2 \/ Len(r) = 3
    BY <1>0, OneTwoThree, Zenon
  <2>2. w \in Players /\ Other(w) # w
    BY <1>3, <1>5, <1>6
  <2>3. CASE Len(r) = 1
    <3>1. w = r[1]
      BY <1>6, <2>3 DEF HandWinner
    <3>2. \A p : Wins(r, p) = One(1, p)
      BY <1>4, <2>3 DEF WonAt
    <3> QED
      BY <2>2, <3>1, <3>2
  <2>4. CASE Len(r) = 2
    <3>1. \A p : Wins(r, p) = One(1, p) + One(2, p)
      BY <1>4, <2>4 DEF WonAt
    <3>2. w = r[1] \/ w = r[2]
      BY <1>6, <2>4 DEF HandWinner
    <3>3. w = r[1] => r[2] = r[1] \/ r[2] = None
      BY <1>2, <1>6, <2>2, <2>4, <3>1 DEF HandWinner
    <3>4. w = r[2] => r[2] = r[1] \/ r[1] = None
      BY <1>2, <1>6, <2>2, <2>4, <3>1 DEF HandWinner
    <3>5. w # None /\ Other(w) # None /\ One(1, Other(w)) \in {0, 1} /\ One(2, Other(w)) \in {0, 1}
      BY <1>2, <1>3, <2>2
    <3>6. CASE w = r[1]
      BY <2>2, <3>1, <3>3, <3>5, <3>6
    <3>7. CASE w = r[2]
      BY <2>2, <3>1, <3>4, <3>5, <3>7
    <3> QED
      BY <3>2, <3>6, <3>7
  <2>5. CASE Len(r) = 3
    <3>1. \A p : Wins(r, p) = One(1, p) + One(2, p) + One(3, p)
      BY <1>4, <2>5 DEF WonAt
    <3> QED
      BY <1>1, <1>2, <1>3, <1>6, <2>5, <3>1 DEF HandWinner
  <2> QED
    BY <2>1, <2>3, <2>4, <2>5
<1> QED
  BY <1>5, <1>6

\* The end of a round is the end of the hand, or the next round begins.
LEMMA Resolved ==
    ASSUME IInv, NEW h \in All, Resolves(h)
    PROVE  /\ At(h, "resolving") /\ UNCHANGED <<lease, elsewhere, gain, settled, lost, presses>>
           /\ game' \in Game /\ game'.table = {}
           /\ game'.accepted = game.accepted /\ game'.current = game.current
           /\ game'.level = game.level /\ game'.hands = game.hands
           /\ game'.asker = game.asker /\ game'.asked = game.asked
           /\ game'.refundable = game.refundable /\ game'.undealt = game.undealt
           /\ game'.status = game.status \/ (game'.finished /\ game'.status = "finished")
           /\ game.finished => game'.finished
           /\ game'.finished \/ Len(game'.results) <= 2
           /\ \/ Ends(h) /\ Unlocks(h) /\ game'.finished = game.finished
              \/ \E p \in Players :
                    /\ work' = [work EXCEPT ![h].at = "prize", ![h].winner = p]
                    /\ UNCHANGED lock /\ ~game.finished /\ game'.finished
                    /\ Wins(game'.results, p) >= Wins(game'.results, Other(p))
<1>1. PICK w \in Players \cup {None} :
        LET results == Append(game.results, w)
            winner == HandWinner(results, game.starter)
            next == IF w # None THEN w ELSE game.starter
            g == [game EXCEPT !.results = results, !.table = {}]
        IN  IF winner # None
              THEN IF game.finished THEN Ends(h) /\ Unlocks(h) /\ game' = g
                   ELSE Finishes(h, winner, g) /\ UNCHANGED lock
              ELSE /\ game' = [g EXCEPT !.starter = next, !.turn = next]
                   /\ Ends(h) /\ Unlocks(h)
  BY DEF Resolves
<1> DEFINE results == Append(game.results, w)
           winner == HandWinner(results, game.starter)
           next == IF w # None THEN w ELSE game.starter
           g == [game EXCEPT !.results = results, !.table = {}]
<1>2. At(h, "resolving") /\ UNCHANGED <<lease, elsewhere, gain, settled, lost, presses>>
  BY DEF Resolves
<1>3. game.starter \in Players /\ game.results \in Seq(Players \cup {None}) /\ Len(game.results) <= 2
  BY <1>2 DEF IInv, TypeOK, Game, RoundsInv
<1>4. results \in Seq(Players \cup {None}) /\ Len(results) >= 1 /\ Len(results) <= 3
      /\ (Len(results) = 3 \/ Len(results) <= 2)
  <2>1. results \in Seq(Players \cup {None}) /\ Len(results) = Len(game.results) + 1
    BY <1>3, AppendProperties
  <2>2. Len(game.results) \in Nat
    BY <1>3
  <2> QED
    BY <1>3, <2>1, <2>2
<1>5. /\ winner \in Players \cup {None}
      /\ Len(results) = 3 => winner # None
      /\ winner # None => Wins(results, winner) >= Wins(results, Other(winner))
  BY <1>3, <1>4, HandDecided
<1>6. next \in Players
  BY <1>3
<1> HIDE DEF results, winner, next
<1>7. CASE winner # None /\ game.finished
  <2>1. Ends(h) /\ Unlocks(h) /\ game' = g
    BY <1>1, <1>7 DEF results, winner
  <2> QED
    BY <1>2, <1>4, <1>7, <2>1 DEF IInv, TypeOK, Game
<1>8. CASE winner # None /\ ~game.finished
  <2>1. Finishes(h, winner, g) /\ UNCHANGED lock
    BY <1>1, <1>8 DEF results, winner
  <2>2. game' = [game EXCEPT !.results = results, !.table = {}, !.finished = TRUE, !.status = "finished"]
    BY <2>1 DEF Finishes
  <2>3. work' = [work EXCEPT ![h].at = "prize", ![h].winner = winner]
    BY <2>1 DEF Finishes
  <2>4. /\ game' \in Game /\ game'.table = {} /\ game'.results = results
        /\ game'.accepted = game.accepted /\ game'.current = game.current
        /\ game'.level = game.level /\ game'.hands = game.hands
        /\ game'.asker = game.asker /\ game'.asked = game.asked
        /\ game'.refundable = game.refundable /\ game'.undealt = game.undealt
        /\ game'.finished /\ game'.status = "finished"
    BY <1>4, <2>2 DEF IInv, TypeOK, Game
  <2> QED
    BY <1>2, <1>5, <1>8, <2>1, <2>3, <2>4, Zenon
<1>9. CASE winner = None
  <2>1. game' = [g EXCEPT !.starter = next, !.turn = next] /\ Ends(h) /\ Unlocks(h)
    BY <1>1, <1>9 DEF results, winner, next
  <2>2. game' = [game EXCEPT !.results = results, !.table = {}, !.starter = next, !.turn = next]
    BY <2>1
  <2> QED
    BY <1>2, <1>4, <1>5, <1>6, <1>9, <2>1, <2>2 DEF IInv, TypeOK, Game
<1> QED
  BY <1>7, <1>8, <1>9

LEMMA ResolvesKeeps == ASSUME IInv, NEW h \in All, Resolves(h) PROVE IInv'
<1>a. /\ At(h, "resolving") /\ work[h].kind = "play" /\ work[h].paid = {} /\ game.accepted
      /\ game' \in Game /\ UNCHANGED <<lease, elsewhere, gain, settled, lost, presses>>
      /\ game'.accepted = game.accepted /\ game'.current = game.current
      /\ game'.level = game.level /\ game'.hands = game.hands
      /\ game'.asker = game.asker /\ game'.asked = game.asked
      /\ game'.status = game.status \/ (game'.finished /\ game'.status = "finished")
      /\ game.finished => game'.finished
      /\ game'.finished \/ Len(game'.results) <= 2
  BY Resolved DEF IInv, KindByStage, Found, GameInv, At
<1>b. \A g \in All \ {h} : ~Busy(g)
  BY <1>a DEF IInv, OneAtWork, Busy, At
<1>1. CASE Ends(h) /\ Unlocks(h) /\ game'.finished = game.finished
  <2>b. /\ work' \in [All -> Work]
        /\ work'[h] = NoWork
        /\ \A g \in All \ {h} : work'[g] = work[g]
    BY <1>1, Ended DEF IInv
  <2>1. TypeOK'
    BY <1>a, <1>b, <1>1, <2>b DEF Unlocks, IInv, TypeOK
  <2>2. OneAtWork'
    BY <1>a, <1>b, <1>1, <2>b DEF IInv, OneAtWork, Busy, Dealing, At, NoWork
  <2>3. GameInv'
    BY <1>a, <1>b, <1>1, <2>b DEF IInv, GameInv, PlayersReserved
  <2>4. \A g \in All : KindByStage(g)'
    BY <1>a, <1>b, <1>1, <2>b DEF IInv, KindByStage, Dealing, At, NoWork
  <2>5. \A g \in All : Found(g)'
    BY <1>a, <1>b, <1>1, <2>b DEF IInv, GameInv, Found, Busy, Dealing, At, NoWork
  <2>6. RoundsInv'
    <3>1. \A g \in All : work'[g].at \notin {"played", "resolving", "prize"}
      BY <1>b, <2>b DEF Busy, NoWork
    <3> QED
      BY <1>a, <3>1, Zenon DEF RoundsInv, WinnerWonRounds, At
  <2> QED
    BY <2>1, <2>2, <2>3, <2>4, <2>5, <2>6 DEF IInv
<1>2. ASSUME NEW p \in Players,
             /\ work' = [work EXCEPT ![h].at = "prize", ![h].winner = p]
             /\ UNCHANGED lock /\ game'.finished
             /\ Wins(game'.results, p) >= Wins(game'.results, Other(p))
      PROVE  IInv'
  <2>b. /\ work' \in [All -> Work]
        /\ work'[h].at = "prize" /\ work'[h].kind = work[h].kind /\ work'[h].by = work[h].by
        /\ work'[h].paid = work[h].paid /\ work'[h].winner = p
        /\ \A g \in All \ {h} : work'[g] = work[g]
    BY <1>2 DEF IInv, TypeOK, Work
  <2>1. TypeOK'
    BY <1>a, <1>b, <1>2, <2>b DEF IInv, TypeOK
  <2>2. OneAtWork'
    BY <1>a, <1>b, <1>2, <2>b DEF IInv, OneAtWork, Busy, Dealing, At
  <2>3. GameInv'
    BY <1>a, <1>b, <1>2, <2>b DEF IInv, GameInv, PlayersReserved
  <2>4. \A g \in All : KindByStage(g)'
    BY <1>a, <1>b, <1>2, <2>b DEF IInv, KindByStage, Dealing, At
  <2>5. \A g \in All : Found(g)'
    BY <1>a, <1>b, <1>2, <2>b DEF IInv, Found, Busy, Dealing, At
  <2>6. RoundsInv'
    <3>1. \A g \in All : /\ work'[g].at \notin {"played", "resolving"}
                         /\ work'[g].at = "prize" => work'[g].winner = p
      BY <1>b, <2>b DEF Busy
    <3> QED
      BY <1>2, <3>1, Zenon DEF RoundsInv, WinnerWonRounds, At
  <2> QED
    BY <2>1, <2>2, <2>3, <2>4, <2>5, <2>6 DEF IInv
<1> QED
  BY <1>1, <1>2, Resolved

-----------------------------------------------------------------------------
LEMMA InitIInv == Init => IInv
<1> SUFFICES ASSUME Init PROVE IInv
  OBVIOUS
<1>1. TypeOK
  BY InitTyped
<1>2. \A h \in All : work[h] = NoWork
  BY DEF Init
<1>3. OneAtWork /\ GameInv
  BY <1>2 DEF Init, OneAtWork, GameInv, PlayersReserved, Busy, Dealing, At, NoWork
<1>4. RoundsInv
  BY <1>2 DEF Init, RoundsInv, WinnerWonRounds, NoWork
<1>5. \A h \in All : KindByStage(h) /\ Found(h)
  BY <1>2 DEF KindByStage, Found, Dealing, At, NoWork
<1> QED
  BY <1>1, <1>3, <1>4, <1>5 DEF IInv

LEMMA StepIInv == IInv /\ [Next]_vars => IInv'
<1> SUFFICES ASSUME IInv, [Next]_vars PROVE IInv'
  OBVIOUS
<1>1. ASSUME NEW h \in All, Entry(h) PROVE IInv'
  BY <1>1, RefusedKeeps, CloseInviteKeeps, AcceptBeginsKeeps, PlaysKeeps, RaisesKeeps,
     TakesRaiseKeeps, GivenUpKeeps DEF Entry
<1>2. ASSUME NEW h \in All, Step(h) PROVE IInv'
  BY <1>2, ReleasesKeeps, PrizeKeeps, ActivatedKeeps, ChargeKeeps, AcceptedKeeps, DealsKeeps,
     HandKeeps, SecondHandKeeps, ShowsTurnKeeps, AbortKeeps, AbortedKeeps, PlayedKeeps,
     ResolvesKeeps, RaiseTakenKeeps DEF Step
<1>3. ASSUME NEW h \in Handlers, NEW p \in Players, NEW kind \in Kinds, Press(h, p, kind)
      PROVE  IInv'
  BY <1>3, PressKeeps
<1>4. CASE TimesOut \/ SweepsFinished
  BY <1>4, TimesOutKeeps, SweepsFinishedKeeps
<1>5. ASSUME NEW p \in Players, JoinsElsewhere(p) \/ LeavesElsewhere(p) PROVE IInv'
  BY <1>5, JoinsElsewhereKeeps, LeavesElsewhereKeeps
<1>6. CASE UNCHANGED vars
  BY <1>6, Zenon DEF vars, IInv, TypeOK, OneAtWork, GameInv, RoundsInv, KindByStage, Found, Busy,
                     Dealing, At, PlayersReserved, WinnerWonRounds
<1> QED
  BY <1>1, <1>2, <1>3, <1>4, <1>5, <1>6 DEF Next

LEMMA AlwaysIInv == Spec => []IInv
BY InitIInv, StepIInv, PTL DEF Spec

\* Whatever presses, timeouts and failures meet, the state is well formed.
THEOREM TypeCorrect == Spec => []TypeOK
BY AlwaysIInv, PTL DEF IInv

\* The players of a match are held by its session, and by no other, from the charge
\* of the entries to the end.
THEOREM PlayersStayReserved == Spec => []PlayersReserved
BY AlwaysIInv, PTL DEF IInv, GameInv

\* Who wins by the cards has won no fewer rounds than the other.
THEOREM WinnersWonRounds == Spec => []WinnerWonRounds
BY AlwaysIInv, PTL DEF IInv, RoundsInv

-----------------------------------------------------------------------------
\* The turn, where the answer to a player never fails.  A step that leaves the turn,
\* the table and the cards being handled alone keeps it.
LEMMA TurnKept ==
    ASSUME TurnInv, game'.turn = game.turn, game'.table = game.table,
           \A g \in All : At(g, "played") \/ At(g, "resolving") => work'[g].at = work[g].at
    PROVE  TurnInv'
BY DEF TurnInv, At

LEMMA TurnStep ==
    ASSUME IInv, TurnInv, "answer" \notin MayFail, [Next]_vars
    PROVE  TurnInv'
<1> DEFINE Kept == /\ game'.turn = game.turn /\ game'.table = game.table
                   /\ \A g \in All : At(g, "played") \/ At(g, "resolving") => work'[g].at = work[g].at
<1>1. ASSUME NEW h \in All, Entry(h) PROVE TurnInv'
  <2>1. CASE Plays(h)
    <3>1. work'[h].at = "played"
      BY <2>1, Gone DEF Plays, IInv, Stages, At
    <3> QED
      BY <3>1 DEF TurnInv, At
  <2>2. CASE ~Plays(h)
    <3>1. At(h, "waiting")
      BY <1>1, <2>2 DEF Entry, Enters, Refused, CloseInvite, AcceptBegins, Raises, TakesRaise,
                        GivenUp
    <3>2. game'.turn = game.turn /\ game'.table = game.table
      BY <1>1, <2>2 DEF Entry, Refused, CloseInvite, AcceptBegins, Raises, TakesRaise, GivenUp,
                        Removed, Finishes, IInv, TypeOK, Game
    <3>3. \A g \in All \ {h} : work'[g] = work[g]
      BY <1>1, <2>2 DEF Entry, Refused, CloseInvite, AcceptBegins, Raises, TakesRaise, GivenUp,
                        Goes, Ends, Finishes, IInv, TypeOK
    <3> QED
      BY <3>1, <3>2, <3>3, TurnKept DEF At
  <2> QED
    BY <2>1, <2>2
<1>2. ASSUME NEW h \in All, Step(h) PROVE TurnInv'
  <2>1. CASE Played(h)
    <3>1. CASE game.table # Players /\ game' = [game EXCEPT !.turn = NextTurn]
      <4>1. NextTurn \in Players /\ NextTurn \notin game.table
        BY <3>1 DEF NextTurn, IInv, TypeOK, Game
      <4> QED
        BY <3>1, <4>1 DEF TurnInv
    <3>2. CASE Goes(h, "resolving")
      <4>1. work'[h].at = "resolving"
        BY <3>2, Gone DEF IInv, Stages, At
      <4> QED
        BY <4>1 DEF TurnInv, At
    <3> QED
      BY <2>1, <3>1, <3>2 DEF Played
  <2>2. CASE Resolves(h)
    BY <2>2, Resolved DEF TurnInv
  <2>3. CASE ~Played(h) /\ ~Resolves(h)
    <3>1. ~At(h, "played") /\ ~At(h, "resolving")
      BY <1>2, <2>3 DEF Step, Releases, Prize, Activated, Charge, Accepted, Deals, Hand, SecondHand,
                        ShowsTurn, Abort, Aborted, RaiseTaken, At
    <3>2. game'.turn = game.turn /\ game'.table = game.table
      BY <1>2, <2>3 DEF Step, Releases, Prize, Activated, Charge, Charged, NotCharged, Accepted,
                        Deals, Hand, SecondHand, Sent, ShowsTurn, Abort, Aborted, RaiseTaken,
                        Removed, IInv, TypeOK, Game
    <3>3. \A g \in All \ {h} : work'[g] = work[g]
      BY <1>2, <2>3 DEF Step, Releases, Prize, Activated, Charge, Charged, NotCharged, Accepted,
                        Deals, Hand, SecondHand, ShowsTurn, Abort, Aborted, RaiseTaken, Goes, Ends,
                        IInv, TypeOK
    <3> QED
      BY <3>1, <3>2, <3>3, TurnKept
  <2> QED
    BY <2>1, <2>2, <2>3
<1>3. ASSUME NEW h \in Handlers, NEW p \in Players, NEW kind \in Kinds, Press(h, p, kind)
      PROVE  TurnInv'
  <2>1. ~At(h, "played") /\ ~At(h, "resolving") /\ \A g \in All \ {h} : work'[g] = work[g]
    BY <1>3 DEF Press, Idle, At, Waits
  <2> QED
    BY <1>3, <2>1, TurnKept DEF Press
<1>4. CASE TimesOut \/ SweepsFinished
  <2>1. /\ ~At(Clock, "played") /\ ~At(Clock, "resolving")
        /\ \A g \in All \ {Clock} : work'[g] = work[g]
    BY <1>4 DEF TimesOut, SweepsFinished, Idle, At, Waits, IInv, TypeOK
  <2>2. game'.turn = game.turn /\ game'.table = game.table
    BY <1>4 DEF TimesOut, SweepsFinished, IInv, TypeOK, Game
  <2> QED
    BY <2>1, <2>2, TurnKept
<1>5. CASE UNCHANGED <<game, work>>
  BY <1>5 DEF TurnInv, At
<1> QED
  BY <1>1, <1>2, <1>3, <1>4, <1>5 DEF Next, JoinsElsewhere, LeavesElsewhere, vars

\* Where the answer to a player does not fail, somebody can move whenever no press is
\* being handled: the match waits for a player, never for nobody.
THEOREM SomebodyMoves ==
    ASSUME "answer" \notin MayFail
    PROVE  Spec => []SomebodyCanMove
<1>1. Init => TurnInv
  BY PlayersAssumption DEF Init, TurnInv
<1>2. IInv /\ TurnInv => SomebodyCanMove
  <2> SUFFICES ASSUME IInv, TurnInv, game.accepted, InPlay, lock = None
               PROVE  /\ game.status = "active" => game.turn \notin game.table
                      /\ game.status = "asked" => game.asker # None /\ game.asked > game.level
    BY DEF SomebodyCanMove
  <2>1. \A h \in All : ~Busy(h)
    BY ClockAssumption DEF IInv, OneAtWork, InPlay, All
  <2>2. game.turn \notin game.table
    BY <2>1 DEF TurnInv, Busy, At
  <2>3. game.status = "asked" => game.asker # None /\ game.asked > game.level
    BY PlayersAssumption DEF IInv, GameInv, Players
  <2> QED
    BY <2>2, <2>3
<1>3. IInv /\ TurnInv /\ [Next]_vars => TurnInv'
  BY TurnStep
<1> QED
  BY <1>1, <1>2, <1>3, AlwaysIInv, PTL DEF Spec

-----------------------------------------------------------------------------
\* The entries.  A step that leaves the hands, the level and the entries alone, and
\* neither begins a deal nor gives one up with the match, keeps them.
LEMMA EntriesKept ==
    ASSUME EntriesInv, NEW h \in All, \A g \in All \ {h} : work'[g] = work[g],
           game'.hands = game.hands, game'.undealt = game.undealt, game'.level = game.level,
           game'.accepted = game.accepted, settled' = settled, game.finished => game'.finished,
           Dealing(h)' => Dealing(h),
           Dealing(h) => Dealing(h)' \/ game'.finished \/ game.hands # {},
           ~At(h, "showing")',
           At(h, "aborting")' => game'.finished /\ game.hands = {},
           At(h, "prize")' => game.hands # {} /\ "paid" \notin settled,
           At(h, "charging")' /\ work'[h].kind = "take" => "paid" \notin settled
    PROVE  EntriesInv'
BY DEF EntriesInv, Dealing, At

\* Before a match is over nothing has been settled.
LEMMA NotSettled ==
    ASSUME EntriesInv, ~game.finished \/ ~game.accepted
    PROVE  settled = {}
BY DEF EntriesInv

LEMMA EntriesEntry ==
    ASSUME IInv, EntriesInv, NEW h \in All, Entry(h)
    PROVE  EntriesInv'
<1>1. CASE Refused(h)
  <2>1. Ends(h) /\ UNCHANGED <<game, settled>> /\ At(h, "waiting")
    BY <1>1 DEF Refused, Enters
  <2> QED
    BY <2>1, Ended, EntriesKept DEF IInv, NoWork, Dealing, At
<1>2. CASE ~Refused(h)
  <2>1. Enters(h) /\ Allowed(h) /\ At(h, "waiting")
    BY <1>2 DEF Entry, CloseInvite, AcceptBegins, Plays, Raises, TakesRaise, GivenUp, Enters
  <2>2. ~game.finished /\ settled = {} /\ \A g \in All : ~Busy(g)
    BY <2>1, AloneUnderLock, NotSettled
  <2>3. CASE Plays(h) \/ Raises(h)
    <3>1. game.hands # {} /\ Players # {}
      BY <2>3 DEF Plays, Raises, IInv, Found, Players
    <3>2. game'.hands # {} /\ settled' = {}
      BY <2>2, <2>3, <3>1 DEF Plays, Raises, Refreshed, IInv, TypeOK, Game
    <3>3. /\ \A g \in All \ {h} : work'[g] = work[g]
          /\ work'[h].at \in {"played", "idle"}
      <4>1. Goes(h, "played") \/ Ends(h)
        BY <2>3 DEF Plays, Raises
      <4> QED
        BY <4>1, Gone, Ended DEF IInv, Stages, At, NoWork
    <3>4. \A g \in All : ~At(g, "aborting") /\ ~At(g, "prize")
      BY <2>2 DEF EntriesInv, Busy, At
    <3> QED
      BY <3>2, <3>3, <3>4 DEF EntriesInv, Dealing, At
  <2>4. CASE ~Plays(h) /\ ~Raises(h)
    <3>1. /\ game'.hands = game.hands /\ game'.level = game.level /\ game'.undealt = game.undealt
          /\ game'.accepted = game.accepted /\ settled' = settled
      BY <1>2, <2>4 DEF Entry, CloseInvite, AcceptBegins, TakesRaise, GivenUp, Removed, Finishes,
                        IInv, TypeOK, Game
    <3>2. /\ \A g \in All \ {h} : work'[g] = work[g]
          /\ work'[h].at \in {"releasing", "activating", "charging", "prize"}
          /\ At(h, "prize")' => GivenUp(h)
      BY <1>2, <2>4 DEF Entry, CloseInvite, AcceptBegins, TakesRaise, GivenUp, Goes, Finishes,
                        IInv, TypeOK, Work, At
    <3>3. GivenUp(h) => game.hands # {}
      BY <2>2 DEF GivenUp, IInv, Found, EntriesInv
    <3> QED
      BY <2>1, <2>2, <3>1, <3>2, <3>3, EntriesKept DEF Dealing, At
  <2> QED
    BY <2>3, <2>4
<1> QED
  BY <1>1, <1>2

\* Dealing: what is sent only adds to the hands, and to those that were not delivered.
LEMMA EntriesDealt ==
    ASSUME IInv, EntriesInv, NEW h \in All,
           Deals(h) \/ Hand(h) \/ SecondHand(h) \/ ShowsTurn(h) \/ Abort(h)
    PROVE  EntriesInv'
<1>0. Dealing(h) /\ \A g \in All \ {h} : ~Dealing(g)
  BY DEF Deals, Hand, SecondHand, ShowsTurn, Abort, IInv, OneAtWork, Dealing, At
<1>1. CASE Deals(h)
  <2>1. At(h, "dealing")' /\ \A g \in All \ {h} : work'[g] = work[g]
    BY <1>1, Gone DEF Deals, Stages, IInv
  <2>2. /\ game'.hands = game.hands /\ game'.level = game.level /\ game'.undealt = game.undealt
        /\ game'.accepted = game.accepted /\ settled' = settled /\ game'.finished = game.finished
    BY <1>1 DEF Deals
  <2> QED
    BY <1>0, <2>1, <2>2, EntriesKept DEF Dealing, At
<1>2. CASE Hand(h)
  <2>1. At(h, "second")' /\ \A g \in All \ {h} : work'[g] = work[g]
    BY <1>2, Gone, FirstSent DEF Stages, IInv
  <2>2. PICK hands \in SUBSET Players, undealt \in SUBSET Players :
           /\ game' = [game EXCEPT !.hands = hands, !.undealt = undealt]
           /\ game.hands \subseteq hands /\ game.undealt \subseteq undealt
    BY <1>2, FirstSent
  <2>3. settled' = settled
    BY <1>2, FirstSent
  <2> QED
    BY <1>0, <2>1, <2>2, <2>3 DEF EntriesInv, Dealing, At, IInv, TypeOK, Game
<1>3. CASE SecondHand(h)
  <2>1. PICK hands \in SUBSET Players, undealt \in SUBSET Players, finished \in BOOLEAN :
           /\ game' = [game EXCEPT !.hands = hands, !.undealt = undealt, !.finished = finished]
           /\ game.hands \subseteq hands /\ game.undealt \subseteq undealt
           /\ game.finished => finished
           /\ \/ Goes(h, "aborting") /\ undealt # {} /\ finished
              \/ Goes(h, "showing") /\ hands # {} /\ finished = game.finished
    BY <1>3, SecondSent
  <2>2. /\ \A g \in All \ {h} : work'[g] = work[g]
        /\ \/ At(h, "aborting")' /\ undealt # {} /\ finished
           \/ At(h, "showing")' /\ hands # {}
    BY <2>1, Gone DEF Stages, IInv
  <2>3. settled' = settled
    BY <1>3, SecondSent
  <2> QED
    BY <1>0, <2>1, <2>2, <2>3 DEF EntriesInv, Dealing, At, IInv, TypeOK, Game
<1>4. CASE ShowsTurn(h)
  <2>1. /\ work'[h] = NoWork /\ \A g \in All \ {h} : work'[g] = work[g]
        /\ game.hands # {}
    BY <1>4, Ended DEF ShowsTurn, IInv, EntriesInv
  <2>2. /\ game'.hands = game.hands /\ game'.level = game.level /\ game'.undealt = game.undealt
        /\ game'.accepted = game.accepted /\ settled' = settled /\ game'.finished = game.finished
    BY <1>4 DEF ShowsTurn
  <2> QED
    BY <2>1, <2>2, EntriesKept DEF NoWork, Dealing, At
<1>5. CASE Abort(h)
  <2>1. At(h, "aborting")' /\ \A g \in All \ {h} : work'[g] = work[g]
    BY <1>5, Gone DEF Abort, Stages, IInv
  <2>2. game.hands = {}
    BY <1>5 DEF Abort, IInv, Found
  <2>3. /\ game'.hands = game.hands /\ game'.level = game.level /\ game'.undealt = game.undealt
        /\ game'.accepted = game.accepted /\ settled' = settled /\ game'.finished
    BY <1>5 DEF Abort, IInv, TypeOK, Game
  <2> QED
    BY <1>0, <2>1, <2>2, <2>3, EntriesKept DEF Dealing, At
<1> QED
  BY <1>1, <1>2, <1>3, <1>4, <1>5

LEMMA EntriesStep ==
    ASSUME IInv, EntriesInv, NEW h \in All, Step(h)
    PROVE  EntriesInv'
<1>1. CASE Releases(h)
  <2>1. Ends(h) /\ UNCHANGED settled /\ game' = game /\ ~Dealing(h)
    BY <1>1 DEF Releases, Dealing, At
  <2> QED
    BY <2>1, Ended, EntriesKept DEF IInv, NoWork, Dealing, At
<1>2. CASE Prize(h)
  <2>1. At(h, "prize") /\ game.finished /\ game.accepted /\ game.hands # {}
    BY <1>2 DEF Prize, IInv, Found, EntriesInv
  <2>2. \A g \in All \ {h} : work'[g] = work[g] /\ ~Busy(g)
    BY <1>2, <2>1, Gone DEF Prize, Stages, IInv, OneAtWork, Busy, At
  <2>3. At(h, "releasing")'
    BY <1>2, Gone DEF Prize, Stages, IInv
  <2>4. /\ game'.hands = game.hands /\ game'.level = game.level /\ game'.finished
        /\ game'.accepted = game.accepted /\ game'.undealt = game.undealt
        /\ settled' \in {settled, settled \cup {"paid"}}
    BY <1>2 DEF Prize, Removed
  <2> QED
    BY <2>1, <2>2, <2>3, <2>4 DEF EntriesInv, Busy, Dealing, At
<1>3. CASE Activated(h)
  <2>1. work[h].kind = "accept" /\ ~Dealing(h)
    BY <1>3 DEF Activated, IInv, KindByStage, Dealing, At
  <2>2. /\ \A g \in All \ {h} : work'[g] = work[g]
        /\ work'[h].at \in {"charging", "idle", "releasing"} /\ work'[h].kind # "take"
    <3>1. CASE Goes(h, "charging")
      BY <2>1, <3>1, Gone DEF IInv, Stages, At
    <3>2. CASE Ends(h)
      BY <3>2, Ended DEF IInv, NoWork
    <3>3. CASE Goes(h, "releasing")
      BY <2>1, <3>3, Gone DEF IInv, Stages, At
    <3> QED
      BY <1>3, <3>1, <3>2, <3>3 DEF Activated
  <2>3. /\ game'.hands = game.hands /\ game'.level = game.level /\ settled' = settled
        /\ game'.accepted = game.accepted /\ game'.undealt = game.undealt
        /\ game.finished => game'.finished
    BY <1>3 DEF Activated, Removed, IInv, TypeOK, Game
  <2> QED
    BY <2>1, <2>2, <2>3, EntriesKept DEF Dealing, At
<1>4. CASE Charge(h)
  <2>1. At(h, "charging") /\ ~Dealing(h)
    BY <1>4 DEF Charge, Dealing, At
  <2>2. PICK p \in Players : Charged(h, p) \/ NotCharged(h)
    BY <1>4 DEF Charge
  <2>3. \A g \in All \ {h} : work'[g] = work[g]
    BY <2>2 DEF Charged, NotCharged, Ends, IInv, TypeOK
  <2>4. /\ game'.hands = game.hands /\ game'.level = game.level /\ settled' = settled
        /\ game'.accepted = game.accepted /\ game'.undealt = game.undealt
        /\ game.finished => game'.finished
    BY <2>2 DEF Charged, NotCharged, Removed, IInv, TypeOK, Game
  <2>5. CASE Charged(h, p)
    <3>1. At(h, "charging")' /\ work'[h].kind = work[h].kind
      BY <2>1, <2>5 DEF Charged, At, IInv, TypeOK
    <3>2. work'[h].kind = "take" => "paid" \notin settled
      BY <2>1, <3>1 DEF EntriesInv
    <3> QED
      BY <2>1, <2>3, <2>4, <3>1, <3>2, EntriesKept DEF Dealing, At
  <2>6. CASE NotCharged(h)
    <3>1. work'[h].at \in {"releasing", "idle"}
      BY <2>6 DEF NotCharged, Ends, NoWork, IInv, TypeOK, Work
    <3> QED
      BY <2>1, <2>3, <2>4, <3>1, EntriesKept DEF Dealing, At
  <2> QED
    BY <2>2, <2>5, <2>6
<1>5. CASE Accepted(h)
  <2>1. At(h, "starting")' /\ \A g \in All \ {h} : work'[g] = work[g]
    BY <1>5 DEF Accepted, At, IInv, TypeOK
  <2>2. settled = {}
    BY <1>5, NotSettled DEF Accepted, IInv, Found
  <2>3. /\ game'.hands = game.hands /\ game'.level = game.level
        /\ game'.undealt = game.undealt /\ game'.finished = game.finished /\ settled' = settled
    BY <1>5 DEF Accepted
  <2> QED
    BY <2>1, <2>2, <2>3 DEF EntriesInv, Dealing, At
<1>6. CASE Aborted(h)
  <2>1. At(h, "releasing")' /\ At(h, "aborting") /\ \A g \in All \ {h} : work'[g] = work[g]
    BY <1>6, Gone DEF Aborted, Stages, IInv
  <2>2. game.accepted /\ \A g \in All \ {h} : ~Dealing(g)
    BY <2>1 DEF IInv, Found, OneAtWork, Dealing, At
  <2>3. /\ game'.hands = game.hands /\ game'.level = game.level /\ game'.finished
        /\ game'.accepted = game.accepted /\ game'.undealt = game.undealt
        /\ settled' \in {settled, settled \cup {"refunded"}}
    BY <1>6 DEF Aborted, Removed
  <2> QED
    BY <2>1, <2>2, <2>3 DEF EntriesInv, Dealing, At
<1>7. CASE Played(h)
  <2>1. /\ \A g \in All \ {h} : work'[g] = work[g]
        /\ work'[h].at \in {"idle", "resolving"} /\ ~Dealing(h)
    BY <1>7 DEF Played, Goes, Ends, NoWork, IInv, TypeOK, Work, Dealing, At
  <2>2. /\ game'.hands = game.hands /\ game'.level = game.level /\ settled' = settled
        /\ game'.accepted = game.accepted /\ game'.undealt = game.undealt
        /\ game'.finished = game.finished
    BY <1>7 DEF Played, IInv, TypeOK, Game
  <2> QED
    BY <2>1, <2>2, EntriesKept DEF Dealing, At
<1>8. CASE Resolves(h)
  <2>1. game.hands # {} /\ ~Dealing(h)
    BY <1>8 DEF Resolves, IInv, KindByStage, Found, Dealing, At
  <2>2. /\ \A g \in All \ {h} : work'[g] = work[g]
        /\ work'[h].at = "idle" \/ (work'[h].at = "prize" /\ ~game.finished)
    <3>1. CASE Ends(h)
      BY <3>1, Ended DEF IInv, NoWork
    <3>2. ASSUME NEW p \in Players, work' = [work EXCEPT ![h].at = "prize", ![h].winner = p]
          PROVE  work'[h].at = "prize" /\ \A g \in All \ {h} : work'[g] = work[g]
      BY <3>2 DEF IInv, TypeOK
    <3> QED
      BY <1>8, <3>1, <3>2, Resolved
  <2>3. /\ game'.hands = game.hands /\ game'.level = game.level /\ settled' = settled
        /\ game'.accepted = game.accepted /\ game'.undealt = game.undealt
        /\ game.finished => game'.finished
    BY <1>8, Resolved
  <2> QED
    BY <2>1, <2>2, <2>3, NotSettled, EntriesKept DEF Dealing, At
<1>9. CASE RaiseTaken(h)
  <2>1. work'[h] = NoWork /\ \A g \in All \ {h} : work'[g] = work[g]
    BY <1>9, Ended DEF RaiseTaken, IInv
  <2>2. game.hands # {} /\ ~Dealing(h)
    BY <1>9 DEF RaiseTaken, IInv, Found, Dealing, At
  <2>3. /\ game'.hands = game.hands /\ game'.finished = game.finished /\ settled' = settled
        /\ game'.accepted = game.accepted /\ game'.undealt = game.undealt
    BY <1>9 DEF RaiseTaken
  <2> QED
    BY <2>1, <2>2, <2>3 DEF EntriesInv, Dealing, At, NoWork
<1> QED
  BY <1>1, <1>2, <1>3, <1>4, <1>5, <1>6, <1>7, <1>8, <1>9, EntriesDealt DEF Step

LEMMA EntriesOthers ==
    ASSUME IInv, EntriesInv,
           \/ \E h \in Handlers, p \in Players, kind \in Kinds : Press(h, p, kind)
           \/ TimesOut \/ SweepsFinished \/ UNCHANGED <<game, work, settled>>
    PROVE  EntriesInv'
<1>1. ASSUME NEW h \in Handlers, NEW p \in Players, NEW kind \in Kinds, Press(h, p, kind)
      PROVE  EntriesInv'
  <2>1. h \in All /\ At(h, "waiting")' /\ ~Dealing(h) /\ \A g \in All \ {h} : work'[g] = work[g]
    BY <1>1, Waiting DEF Press, Idle, IInv, All, Dealing
  <2>2. UNCHANGED <<game, settled>>
    BY <1>1 DEF Press
  <2> QED
    BY <2>1, <2>2, EntriesKept DEF Dealing, At
<1>2. CASE TimesOut \/ SweepsFinished
  <2>1. /\ Clock \in All /\ work'[Clock].at \in {"waiting", "releasing"} /\ ~Dealing(Clock)
        /\ \A g \in All \ {Clock} : work'[g] = work[g]
    <3>1. Clock \in All /\ ~Dealing(Clock)
      BY <1>2 DEF All, TimesOut, SweepsFinished, Idle, Dealing
    <3>2. TimesOut => \E kind \in {"expire", "timeout"} : Waits(Clock, kind, None)
      BY DEF TimesOut
    <3>3. CASE TimesOut
      BY <3>1, <3>2, <3>3, Waiting DEF IInv, At, Kinds
    <3>4. CASE SweepsFinished
      BY <3>1, <3>4 DEF SweepsFinished, IInv, TypeOK
    <3> QED
      BY <1>2, <3>1, <3>3, <3>4
  <2>2. /\ game'.hands = game.hands /\ game'.level = game.level /\ settled' = settled
        /\ game'.accepted = game.accepted /\ game'.undealt = game.undealt
        /\ game'.finished = game.finished
    BY <1>2 DEF TimesOut, SweepsFinished, IInv, TypeOK, Game
  <2> QED
    BY <2>1, <2>2, EntriesKept DEF Dealing, At
<1>3. CASE UNCHANGED <<game, work, settled>>
  BY <1>3 DEF EntriesInv, Dealing, At
<1> QED
  BY <1>1, <1>2, <1>3

-----------------------------------------------------------------------------
\* The balance of the chips.
LEMMA BalanceTyped ==
    ASSUME IInv
    PROVE  /\ gain[Challenger] \in Int /\ gain[Opponent] \in Int /\ lost \in Int
           /\ Contributed \in Nat /\ PaidOut \in Nat /\ Returned \in Nat
           /\ Balance \in Int
<1>1. gain[Challenger] \in Int /\ gain[Opponent] \in Int /\ lost \in Int
  BY DEF IInv, TypeOK, Players
<1>2. Contributed \in Nat /\ PaidOut \in Nat /\ Returned \in Nat
  <2>1. Contributions[game.level] \in Nat /\ Contributions[1] \in Nat
    BY LevelOne DEF IInv, TypeOK, Game
  <2> QED
    BY <2>1 DEF Contributed, PaidOut, Returned
<1> QED
  BY <1>1, <1>2 DEF Balance

\* A step that changes neither the balance nor what is due keeps the accounts.
LEMMA ChipsKept ==
    ASSUME ChipsInv, Balance' = Balance, lost' = lost,
           game'.level = game.level, game'.asked = game.asked,
           \A g \in All : /\ work'[g].paid = work[g].paid
                          /\ work[g].paid # {} => work'[g].kind = work[g].kind
    PROVE  ChipsInv'
<1>1. \A g \in All : work[g].paid # {} => Due(g)' = Due(g)
  BY DEF Due
<1>2. \A g \in All : work[g].paid # {} => BeingCharged(g)' = BeingCharged(g)
  BY <1>1 DEF BeingCharged
<1> QED
  BY <1>2 DEF ChipsInv

LEMMA SameBalance ==
    ASSUME gain' = gain, game'.level = game.level, game'.accepted = game.accepted,
           settled' = settled, lost' = lost
    PROVE  Balance' = Balance
BY DEF Balance, Contributed, PaidOut, Returned

\* Who is not charging has no charge under way; and one charges at a time.
LEMMA OneCharge ==
    ASSUME IInv, NEW h \in All
    PROVE  /\ ~At(h, "charging") => work[h].paid = {}
           /\ Busy(h) => \A g \in All \ {h} : work[g].paid = {}
           /\ (\A g \in All : ~Busy(g)) => work[h].paid = {}
BY DEF IInv, OneAtWork, KindByStage, Busy, At

LEMMA ChipsEntry ==
    ASSUME IInv, ChipsInv, NEW h \in All, Entry(h)
    PROVE  ChipsInv'
<1>1. CASE Refused(h)
  <2>1. Ends(h) /\ UNCHANGED <<game, gain, settled, lost>> /\ ~At(h, "charging")
    BY <1>1 DEF Refused, Enters, At
  <2>2. work'[h] = NoWork /\ \A g \in All \ {h} : work'[g] = work[g]
    BY <2>1, Ended DEF IInv
  <2>3. Balance' = Balance
    BY <2>1, SameBalance
  <2>4. work[h].paid = {}
    BY <2>1, OneCharge
  <2> QED
    BY <2>1, <2>2, <2>3, <2>4, ChipsKept DEF NoWork
<1>2. CASE ~Refused(h)
  <2>1. Enters(h) /\ Allowed(h)
    BY <1>2 DEF Entry, CloseInvite, AcceptBegins, Plays, Raises, TakesRaise, GivenUp
  <2>2. \A g \in All : work[g].paid = {}
    BY <2>1, AloneUnderLock, OneCharge
  <2>3. /\ gain' = gain /\ settled' = settled /\ lost' = lost
        /\ game'.level = game.level /\ game'.accepted = game.accepted
    BY <1>2 DEF Entry, CloseInvite, AcceptBegins, Plays, Raises, TakesRaise, GivenUp, Removed,
                Finishes, IInv, TypeOK, Game
  <2>4. \A g \in All : work'[g].paid = work[g].paid
    <3>1. CASE Ends(h)
      BY <2>2, <3>1, Ended DEF IInv, NoWork
    <3>2. CASE ~Ends(h)
      <4>1. \/ Goes(h, "releasing") \/ Goes(h, "activating") \/ Goes(h, "played")
            \/ Goes(h, "charging") \/ Finishes(h, WinnerBy(h), game)
        BY <1>2, <3>2 DEF Entry, CloseInvite, AcceptBegins, Plays, Raises, TakesRaise, GivenUp
      <4> QED
        BY <4>1 DEF Goes, Finishes, IInv, TypeOK, Work
    <3> QED
      BY <3>1, <3>2
  <2>5. Balance' = Balance /\ Balance = 0
    BY <2>2, <2>3, SameBalance DEF ChipsInv
  <2> QED
    BY <2>2, <2>3, <2>4, <2>5 DEF ChipsInv
<1> QED
  BY <1>1, <1>2

\* Charging: what one pays leaves the balance and is under way, and what was paid is
\* paid back, contributed, or lost in a charge that raises.
LEMMA ChipsCharged ==
    ASSUME IInv, ChipsInv, NEW h \in All, At(h, "charging"), work[h].paid # Players,
           NEW p \in Players \ work[h].paid, Charged(h, p)
    PROVE  ChipsInv'
<1>1. \A g \in All \ {h} : work[g].paid = {} /\ work'[g].paid = {}
  BY OneCharge DEF Charged, Busy, At
<1>2. work'[h].paid = work[h].paid \cup {p} /\ work'[h].kind = work[h].kind
  BY DEF Charged, IInv, TypeOK
<1>3. Due(h)' = Due(h)
  BY <1>2 DEF Charged, Due
<1>4. Due(h) \in Int /\ Balance \in Int
  BY DueTyped, BalanceTyped
<1>5. Balance' = Balance - Due(h)
  <2>1. \A q \in Players : gain'[q] = IF q = p THEN gain[q] - Due(h) ELSE gain[q]
    BY DEF Charged, IInv, TypeOK
  <2>2. gain'[Challenger] + gain'[Opponent] = gain[Challenger] + gain[Opponent] - Due(h)
    BY <1>4, <2>1, BalanceTyped, PlayersAssumption DEF Players
  <2>3. /\ lost' = lost /\ Contributed' = Contributed
        /\ PaidOut' = PaidOut /\ Returned' = Returned
    BY DEF Charged, Contributed, PaidOut, Returned
  <2> QED
    BY <1>4, <2>2, <2>3, BalanceTyped DEF Balance
<1>0. lost' = lost /\ (lost # 0 => "charge" \in MayFail)
  BY DEF Charged, ChipsInv
<1>6. work[h].paid \in SUBSET Players
  BY DEF IInv, TypeOK, Work
<1>7. CASE work[h].paid = {}
  <2>1. Balance = 0
    BY <1>1, <1>7 DEF ChipsInv
  <2>2. work'[h].paid = {p} /\ Cardinality(work'[h].paid) = 1
    BY <1>2, <1>6, <1>7, PaidBy
  <2>3. BeingCharged(h)' = Due(h)
    BY <1>3, <1>4, <2>2 DEF BeingCharged
  <2> QED
    BY <1>0, <1>1, <1>4, <1>5, <2>1, <2>2, <2>3 DEF ChipsInv
<1>8. CASE work[h].paid # {}
  <2>1. Cardinality(work[h].paid) = 1 /\ work[h].paid \cup {p} = Players
    BY <1>6, <1>8, PaidBy DEF Players
  <2>2. BeingCharged(h) = Due(h) /\ Balance + BeingCharged(h) = 0
    BY <1>4, <1>8, <2>1 DEF BeingCharged, ChipsInv
  <2>3. BeingCharged(h)' = 2 * Due(h)
    BY <1>2, <1>3, <1>4, <2>1, PaidBy DEF BeingCharged, Players
  <2>4. Balance' + BeingCharged(h)' = 0
    BY <1>4, <1>5, <2>2, <2>3
  <2>5. work'[h].paid # {}
    BY <1>2
  <2> QED
    BY <1>0, <1>1, <2>4, <2>5 DEF ChipsInv
<1> QED
  BY <1>7, <1>8

LEMMA ChipsNotCharged ==
    ASSUME IInv, ChipsInv, NEW h \in All, At(h, "charging"),
           work[h].paid # Players, NotCharged(h)
    PROVE  ChipsInv'
<1>1. \A g \in All : work'[g].paid = {}
  <2>1. \A g \in All \ {h} : work[g].paid = {} /\ work'[g] = work[g]
    BY OneCharge DEF NotCharged, Ends, Busy, At, IInv, TypeOK
  <2>2. work'[h].paid = {}
    BY DEF NotCharged, Ends, NoWork, IInv, TypeOK, Work
  <2> QED
    BY <2>1, <2>2
<1>2. Due(h) \in Int /\ Balance \in Int
  BY DueTyped, BalanceTyped
<1>3. work[h].paid \in SUBSET Players /\ \A g \in All \ {h} : work[g].paid = {}
  BY OneCharge DEF IInv, TypeOK, Work, Busy, At
<1>4. \/ Refunded(h) /\ lost' = lost
      \/ "charge" \in MayFail /\ gain' = gain /\ lost' = lost + BeingCharged(h)
  BY DEF NotCharged
<1>5. Contributed' = Contributed /\ PaidOut' = PaidOut /\ Returned' = Returned
  <2>1. game'.accepted = game.accepted /\ game'.level = game.level /\ settled' = settled
    BY DEF NotCharged, Removed, IInv, TypeOK, Game
  <2> QED
    BY <2>1 DEF Contributed, PaidOut, Returned
<1>6. lost' # 0 => "charge" \in MayFail
  BY <1>4 DEF ChipsInv
<1>7. CASE work[h].paid = {}
  <2>1. Cardinality({}) = 0
    BY FS_EmptySet
  <2>2. BeingCharged(h) = 0
    BY <1>7, <2>1 DEF BeingCharged
  <2>3. /\ gain'[Challenger] = gain[Challenger] /\ gain'[Opponent] = gain[Opponent]
        /\ lost' = lost
    BY <1>4, <1>7, <2>2, BalanceTyped DEF Refunded, Players
  <2>4. Balance = 0
    BY <1>3, <1>7 DEF ChipsInv
  <2>5. Balance' = 0
    BY <1>5, <2>3, <2>4 DEF Balance
  <2> QED
    BY <1>1, <1>6, <2>5 DEF ChipsInv
<1>8. CASE work[h].paid # {}
  <2>1. PICK p \in Players : work[h].paid = {p}
    BY <1>3, <1>8, PaidBy
  <2>2. Cardinality(work[h].paid) = 1
    BY <1>3, <2>1, PaidBy
  <2>3. BeingCharged(h) = Due(h)
    BY <1>2, <1>8, <2>2 DEF BeingCharged
  <2>4. Balance + Due(h) = 0
    BY <1>8, <2>3 DEF ChipsInv
  <2>5. gain'[Challenger] + gain'[Opponent] + lost' =
          gain[Challenger] + gain[Opponent] + lost + Due(h)
    <3>1. CASE Refunded(h) /\ lost' = lost
      <4>1. \A q \in Players : gain'[q] = IF q = p THEN gain[q] + Due(h) ELSE gain[q]
        BY <2>1, <3>1 DEF Refunded
      <4> QED
        BY <1>2, <3>1, <4>1, BalanceTyped, PlayersAssumption DEF Players
    <3>2. CASE gain' = gain /\ lost' = lost + BeingCharged(h)
      BY <1>2, <2>3, <3>2, BalanceTyped
    <3> QED
      BY <1>4, <3>1, <3>2
  <2>6. gain'[Challenger] \in Int /\ gain'[Opponent] \in Int /\ lost' \in Int
    BY NotChargedKeeps, BalanceTyped DEF IInv, TypeOK, Players
  <2>7. Balance' = 0
    BY <1>2, <1>5, <2>4, <2>5, <2>6, BalanceTyped DEF Balance
  <2> QED
    BY <1>1, <1>6, <2>7 DEF ChipsInv
<1> QED
  BY <1>7, <1>8

\* When both have paid, what they paid is contributed: the entries, or a raise.
LEMMA BothPaid ==
    ASSUME IInv, ChipsInv, NEW h \in All, At(h, "charging"), work[h].paid = Players
    PROVE  Balance + 2 * Due(h) = 0 /\ \A g \in All \ {h} : work[g].paid = {}
<1>1. work[h].paid # {} /\ Cardinality(work[h].paid) = 2
  BY PaidBy DEF Players
<1>2. BeingCharged(h) = 2 * Due(h)
  BY <1>1 DEF BeingCharged
<1> QED
  BY <1>1, <1>2, OneCharge DEF ChipsInv

LEMMA ChipsAccepted ==
    ASSUME IInv, EntriesInv, ChipsInv, NEW h \in All, Accepted(h)
    PROVE  ChipsInv'
<1>1. ~game.accepted /\ ~game.finished /\ game.hands = {}
  BY DEF Accepted, IInv, Found, GameInv
<1>2. settled = {} /\ game.level = 1
  BY <1>1, NotSettled DEF EntriesInv
<1>3. Balance + 2 * Contributions[1] = 0 /\ \A g \in All \ {h} : work[g].paid = {}
  BY BothPaid DEF Accepted, Due
<1>4. \A g \in All : work'[g].paid = {}
  BY <1>3 DEF Accepted, IInv, TypeOK
<1>5. game'.accepted /\ game'.level = 1 /\ settled' = {} /\ gain' = gain /\ lost' = lost
  BY <1>2 DEF Accepted
<1>6. /\ Contributed = 0 /\ PaidOut = 0 /\ Returned = 0
      /\ Contributed' = 2 * Contributions[1] /\ PaidOut' = 0 /\ Returned' = 0
  BY <1>1, <1>2, <1>5 DEF Contributed, PaidOut, Returned
<1>7. Balance' = 0
  BY <1>3, <1>5, <1>6, BalanceTyped, LevelOne DEF Balance
<1> QED
  BY <1>4, <1>5, <1>7 DEF ChipsInv

LEMMA ChipsRaiseTaken ==
    ASSUME IInv, EntriesInv, ChipsInv, NEW h \in All, RaiseTaken(h)
    PROVE  ChipsInv'
<1>1. game.accepted /\ game.asked \in Levels
  BY DEF RaiseTaken, IInv, Found, GameInv
<1>2. "paid" \notin settled
  BY DEF RaiseTaken, EntriesInv
<1>3. /\ Balance + 2 * (Contributions[game.asked] - Contributions[game.level]) = 0
      /\ \A g \in All \ {h} : work[g].paid = {}
  BY BothPaid DEF RaiseTaken, Due
<1>4. \A g \in All : work'[g].paid = {}
  BY <1>3, Ended DEF RaiseTaken, NoWork, IInv
<1>5. game'.accepted /\ game'.level = game.asked /\ settled' = settled /\ gain' = gain /\ lost' = lost
  BY <1>1 DEF RaiseTaken
<1>6. /\ Contributed = 2 * Contributions[game.level] /\ PaidOut = 0
      /\ Contributed' = 2 * Contributions[game.asked] /\ PaidOut' = 0 /\ Returned' = Returned
  BY <1>1, <1>2, <1>5 DEF Contributed, PaidOut, Returned
<1>7. Contributions[game.asked] \in Nat /\ Contributions[game.level] \in Nat
  BY <1>1, LevelOne DEF IInv, TypeOK, Game
<1>8. Balance' = 0
  BY <1>3, <1>5, <1>6, <1>7, BalanceTyped DEF Balance
<1> QED
  BY <1>4, <1>5, <1>8 DEF ChipsInv

\* The pot goes to the winner, or the entries back to both.
LEMMA ChipsPrize ==
    ASSUME IInv, EntriesInv, ChipsInv, NEW h \in All, Prize(h)
    PROVE  ChipsInv'
<1>1. /\ game.accepted /\ "paid" \notin settled /\ work[h].winner \in Players
      /\ \A g \in All : work[g].paid = {}
  <2>1. At(h, "prize") /\ Busy(h)
    BY DEF Prize, Busy, At
  <2>2. \A g \in All : work[g].paid = {}
    BY <2>1, OneCharge DEF At
  <2> QED
    BY <2>1, <2>2 DEF IInv, Found, KindByStage, EntriesInv
<1>2. game'.accepted /\ game'.level = game.level /\ lost' = lost
  BY <1>1 DEF Prize, Removed
<1>3. \A g \in All : work'[g].paid = {}
  BY <1>1, Gone DEF Prize, Stages, IInv
<1>4. Balance = 0 /\ Contributions[game.level] \in Nat
  BY <1>1, LevelOne DEF ChipsInv, IInv, TypeOK, Game
<1>5. CASE UNCHANGED <<gain, settled>>
  BY <1>1, <1>2, <1>3, <1>4, <1>5, SameBalance DEF ChipsInv
<1>6. CASE /\ gain' = [gain EXCEPT ![work[h].winner] = @ + 2 * Contributions[game.level]]
           /\ settled' = settled \cup {"paid"}
  <2>1. gain'[Challenger] + gain'[Opponent] =
          gain[Challenger] + gain[Opponent] + 2 * Contributions[game.level]
    BY <1>1, <1>4, <1>6, BalanceTyped, PlayersAssumption DEF Players, IInv, TypeOK
  <2>2. gain'[Challenger] \in Int /\ gain'[Opponent] \in Int
    BY PrizeKeeps DEF IInv, TypeOK, Players
  <2>3. /\ Contributed' = Contributed /\ Returned' = Returned
        /\ PaidOut = 0 /\ PaidOut' = 2 * Contributions[game.level]
    BY <1>1, <1>2, <1>6 DEF Contributed, PaidOut, Returned
  <2>4. Balance' = 0
    BY <1>2, <1>4, <2>1, <2>2, <2>3, BalanceTyped DEF Balance
  <2> QED
    BY <1>2, <1>3, <2>4 DEF ChipsInv
<1> QED
  BY <1>5, <1>6 DEF Prize

LEMMA ChipsAborted ==
    ASSUME IInv, EntriesInv, ChipsInv, NEW h \in All, Aborted(h)
    PROVE  ChipsInv'
<1>1. game.accepted /\ "refunded" \notin settled
  BY DEF Aborted, IInv, Found, EntriesInv, Dealing, At
<1>2. /\ game'.level = game.level /\ game'.asked = game.asked /\ game'.accepted = game.accepted
      /\ lost' = lost
  BY DEF Aborted, Removed
<1>3. \A g \in All : work'[g].paid = work[g].paid /\ work'[g].kind = work[g].kind
  BY Gone DEF Aborted, Stages, IInv
<1>4. Balance' = Balance
  <2>1. CASE game.refundable
    <3>1. /\ gain'[Challenger] = gain[Challenger] + Contributions[1]
          /\ gain'[Opponent] = gain[Opponent] + Contributions[1]
      BY <2>1 DEF Aborted, Players
    <3>2. settled' = settled \cup {"refunded"}
      BY <2>1 DEF Aborted
    <3>3. /\ Contributed' = Contributed /\ PaidOut' = PaidOut
          /\ Returned = 0 /\ Returned' = 2 * Contributions[1]
      BY <1>1, <1>2, <3>2 DEF Contributed, PaidOut, Returned
    <3> QED
      BY <1>2, <3>1, <3>3, BalanceTyped, LevelOne DEF Balance
  <2>2. CASE ~game.refundable
    <3>1. gain' = gain /\ settled' = settled
      BY <2>2 DEF Aborted
    <3> QED
      BY <1>2, <3>1, SameBalance
  <2> QED
    BY <2>1, <2>2
<1> QED
  BY <1>2, <1>3, <1>4, ChipsKept

\* The other steps neither charge nor pay.
LEMMA ChipsStep ==
    ASSUME IInv, EntriesInv, ChipsInv, NEW h \in All, Step(h)
    PROVE  ChipsInv'
<1> DEFINE Others == /\ gain' = gain /\ settled' = settled /\ lost' = lost
                     /\ game'.level = game.level /\ game'.accepted = game.accepted
                     /\ game'.asked = game.asked
<1>1. ASSUME ~At(h, "charging"), Others, work'[h].paid = {},
             \A g \in All \ {h} : work'[g] = work[g]
      PROVE  ChipsInv'
  <2>1. \A g \in All : /\ work'[g].paid = work[g].paid
                       /\ work[g].paid # {} => work'[g].kind = work[g].kind
    BY <1>1, OneCharge
  <2> QED
    BY <1>1, <2>1, SameBalance, ChipsKept
<1>2. CASE Hand(h) \/ SecondHand(h)
  <2>1. Others
    <3>1. CASE Hand(h)
      BY <3>1, FirstSent DEF IInv, TypeOK, Game
    <3>2. CASE SecondHand(h)
      BY <3>2, SecondSent DEF IInv, TypeOK, Game
    <3> QED
      BY <1>2, <3>1, <3>2
  <2>2. ~At(h, "charging") /\ work[h].paid = {}
    BY <1>2, OneCharge DEF Hand, SecondHand, At
  <2>3. Goes(h, "second") \/ Goes(h, "aborting") \/ Goes(h, "showing")
    BY <1>2, FirstSent, SecondSent
  <2>4. work'[h].paid = {} /\ \A g \in All \ {h} : work'[g] = work[g]
    BY <2>2, <2>3, Gone DEF IInv, Stages
  <2> QED
    BY <1>1, <2>1, <2>2, <2>4
<1>3. CASE Resolves(h)
  <2>1. Others /\ ~At(h, "charging") /\ work[h].paid = {}
    BY <1>3, Resolved, OneCharge DEF Resolves, At
  <2>2. work'[h].paid = {} /\ \A g \in All \ {h} : work'[g] = work[g]
    <3>1. CASE Ends(h)
      BY <3>1, Ended DEF IInv, NoWork
    <3>2. ASSUME NEW p \in Players, work' = [work EXCEPT ![h].at = "prize", ![h].winner = p]
          PROVE  work'[h].paid = work[h].paid /\ \A g \in All \ {h} : work'[g] = work[g]
      BY <3>2 DEF IInv, TypeOK
    <3> QED
      BY <1>3, <2>1, <3>1, <3>2, Resolved
  <2> QED
    BY <1>1, <2>1, <2>2
<1>4. CASE Releases(h) \/ Activated(h) \/ Deals(h) \/ ShowsTurn(h) \/ Abort(h) \/ Played(h)
  <2>1. ~At(h, "charging") /\ work[h].paid = {}
    BY <1>4, OneCharge DEF Releases, Activated, Deals, ShowsTurn, Abort, Played, At
  <2>2. Others
    BY <1>4 DEF Releases, Activated, Deals, ShowsTurn, Abort, Played, Removed, IInv, TypeOK, Game
  <2>3. work'[h].paid = {} /\ \A g \in All \ {h} : work'[g] = work[g]
    BY <1>4, <2>1 DEF Releases, Activated, Deals, ShowsTurn, Abort, Played, Goes, Ends, NoWork,
                      IInv, TypeOK, Work
  <2> QED
    BY <1>1, <2>1, <2>2, <2>3
<1>5. CASE Charge(h)
  BY <1>5, ChipsCharged, ChipsNotCharged DEF Charge
<1> QED
  BY <1>2, <1>3, <1>4, <1>5, ChipsAccepted, ChipsRaiseTaken, ChipsPrize, ChipsAborted DEF Step

LEMMA ChipsOthers ==
    ASSUME IInv, ChipsInv,
           \/ \E h \in Handlers, p \in Players, kind \in Kinds : Press(h, p, kind)
           \/ TimesOut \/ SweepsFinished \/ UNCHANGED <<game, work, gain, settled, lost>>
    PROVE  ChipsInv'
<1>1. ASSUME NEW h \in All, ~At(h, "charging"), work'[h].paid = {},
             \A g \in All \ {h} : work'[g] = work[g]
      PROVE  \A g \in All : /\ work'[g].paid = work[g].paid
                            /\ work[g].paid # {} => work'[g].kind = work[g].kind
  BY <1>1, OneCharge
<1>2. ASSUME NEW h \in Handlers, NEW p \in Players, NEW kind \in Kinds, Press(h, p, kind)
      PROVE  ChipsInv'
  <2>1. /\ h \in All /\ ~At(h, "charging") /\ work'[h].paid = {}
        /\ \A g \in All \ {h} : work'[g] = work[g]
    BY <1>2, Waiting DEF Press, Idle, At, IInv, All
  <2>2. UNCHANGED <<game, gain, settled, lost>>
    BY <1>2 DEF Press
  <2> QED
    BY <1>1, <2>1, <2>2, SameBalance, ChipsKept
<1>3. CASE TimesOut \/ SweepsFinished
  <2>1. Clock \in All /\ ~At(Clock, "charging")
    BY <1>3 DEF TimesOut, SweepsFinished, Idle, At, All
  <2>2. work'[Clock].paid = {} /\ \A g \in All \ {Clock} : work'[g] = work[g]
    <3>1. TimesOut => \E kind \in {"expire", "timeout"} : Waits(Clock, kind, None)
      BY DEF TimesOut
    <3>2. CASE TimesOut
      BY <2>1, <3>1, <3>2, Waiting DEF IInv, Kinds
    <3>3. CASE SweepsFinished
      BY <2>1, <3>3 DEF SweepsFinished, NoWork, IInv, TypeOK
    <3> QED
      BY <1>3, <3>2, <3>3
  <2>3. /\ gain' = gain /\ settled' = settled /\ lost' = lost
        /\ game'.level = game.level /\ game'.accepted = game.accepted /\ game'.asked = game.asked
    BY <1>3 DEF TimesOut, SweepsFinished, IInv, TypeOK, Game
  <2> QED
    BY <1>1, <2>1, <2>2, <2>3, SameBalance, ChipsKept
<1>4. CASE UNCHANGED <<game, work, gain, settled, lost>>
  BY <1>4, SameBalance, ChipsKept
<1> QED
  BY <1>2, <1>3, <1>4

\* What was paid out or returned is what was contributed, but where a hand was not
\* delivered and another was.
LEMMA SettledOnce ==
    ASSUME IInv, EntriesInv, settled # {}, game.undealt = {} \/ game.hands = {}
    PROVE  PaidOut + Returned = Contributed
<1>1. game.accepted /\ settled \subseteq {"paid", "refunded"}
  BY DEF IInv, TypeOK, EntriesInv
<1>2. Contributions[game.level] \in Nat /\ Contributions[1] \in Nat
  BY LevelOne DEF IInv, TypeOK, Game
<1>3. CASE game.hands = {}
  <2>1. settled = {"refunded"} /\ game.level = 1
    BY <1>1, <1>3 DEF EntriesInv
  <2> QED
    BY <1>1, <1>2, <2>1 DEF PaidOut, Returned, Contributed
<1>4. CASE game.hands # {} /\ game.undealt = {}
  <2>1. settled = {"paid"}
    BY <1>1, <1>4 DEF EntriesInv
  <2> QED
    BY <1>1, <1>2, <2>1 DEF PaidOut, Returned, Contributed
<1> QED
  BY <1>3, <1>4

\* Whatever fails, the chips of every state add up: entries and raises are paid out or
\* returned, once, but where a hand is not delivered to one while the other has his;
\* and only a charge that raises loses any.
THEOREM ChipsAddUp == Spec => []ChipsAccounted
<1>1. Init => EntriesInv /\ ChipsInv
  <2> SUFFICES ASSUME Init PROVE EntriesInv /\ ChipsInv
    OBVIOUS
  <2>1. \A h \in All : work[h] = NoWork
    BY DEF Init
  <2>2. EntriesInv
    BY <2>1 DEF Init, EntriesInv, Dealing, At, NoWork
  <2>3. Balance = 0 /\ lost = 0
    BY DEF Init, Balance, Contributed, PaidOut, Returned, Players
  <2> QED
    BY <2>1, <2>2, <2>3 DEF ChipsInv, NoWork
<1>2. IInv /\ EntriesInv /\ ChipsInv /\ [Next]_vars => EntriesInv' /\ ChipsInv'
  <2> SUFFICES ASSUME IInv, EntriesInv, ChipsInv, [Next]_vars PROVE EntriesInv' /\ ChipsInv'
    OBVIOUS
  <2>1. ASSUME NEW h \in All, Entry(h) \/ Step(h) PROVE EntriesInv' /\ ChipsInv'
    BY <2>1, EntriesEntry, EntriesStep, ChipsEntry, ChipsStep
  <2>2. CASE \/ \E h \in Handlers, p \in Players, kind \in Kinds : Press(h, p, kind)
             \/ TimesOut \/ SweepsFinished
    BY <2>2, EntriesOthers, ChipsOthers
  <2>3. CASE UNCHANGED <<game, work, gain, settled, lost>>
    BY <2>3, EntriesOthers, ChipsOthers
  <2> QED
    BY <2>1, <2>2, <2>3 DEF Next, JoinsElsewhere, LeavesElsewhere, vars
<1>3. IInv /\ EntriesInv /\ ChipsInv => ChipsAccounted
  <2> SUFFICES ASSUME IInv, EntriesInv, ChipsInv PROVE ChipsAccounted
    OBVIOUS
  <2>1. TypeOK
    BY DEF IInv
  <2>2. \E h \in All : \A g \in All : g # h => work[g].paid = {}
    <3>1. Clock \in All
      BY DEF All
    <3>2. CASE \A g \in All : ~Busy(g)
      BY <3>1, <3>2, OneCharge
    <3>3. CASE \E h \in All : Busy(h)
      BY <3>3, OneCharge
    <3> QED
      BY <3>2, <3>3
  <2> QED
    BY <2>1, <2>2, SettledOnce DEF ChipsAccounted, ChipsInv
<1> QED
  BY <1>1, <1>2, <1>3, AlwaysIInv, PTL DEF Spec
=============================================================================
