# A verification project for the bot

TLA+ models of the parts of the bot where concurrent handlers share state that
users care about: who may play where, whose chips are whose, and which speech
synthesis belongs to whom.  The bot is one asyncio process.  Between two awaits
a handler runs alone; at every await any other handler may run.  That is the
grain of every model here: **what a handler does between two awaits is one
action**, and a guard that was checked before an await is not assumed after it.

## 1. The system

| Component | Source | State | Operations | What is hard |
| --- | --- | --- | --- | --- |
| Game session registry | `cogs/games/services/session_registry.py` | leases by session, session by user, active users by guild, all under one lock | `create_pending`, `activate`, `touch`, `release`, `cleanup_expired` | three structures that must agree; expiry; a guild-wide limit |
| Race lobby (corrida) | `cogs/games/games/corrida.py` | a session dict per guild, its join lock, entries that were charged | open, join, start, time out, clean up, settle | about twenty exits after a charge; four kinds of task on one lobby; lobbies that succeed one another |
| Chip wallet | `cogs/games/services/base.py`, `db.py` | a cached document per user, the stored one, an economy lock per user | entry, prize, recharge, daily bonus, consent to debt, save | saves that land out of order; restart; rules that change around zero |
| Payments | `cogs/games/services/payments.py` | an open offer per payer | offer, replace, react, finalize, expire | reactions at the same time; offers replaced under a handler; two locks |
| Synthesis semaphore | `cogs/tts/audio.py` (`_PrioritySemaphore`) | a count, two queues of futures, a streak | acquire, release, promote, cancel | a cancellation that meets a grant; starvation |
| Shared synthesis | `cogs/tts/streaming.py`, `runtime.py` | jobs by text with reference counts, tasks, slots and a buffer | join or create, leave, produce, copy, close | the last one leaving while another arrives; cleanup put off; requests that cannot be cancelled |
| Debt consent gate | `cogs/games/services/base.py` | a gate per user: a future, the task and the view that ask | ask, ask again, press, refuse, note, fail | a burst of commands of one user; messages that were withdrawn and are pressed; a consent that is noted after other saves |
| Robbery and ordered locks | `cogs/games/services/base.py` | two documents at a time, history rows of robberies | rob, 0to1, Change Fate, golden robbery | two locks; two saves of which one may fail; two ways to give the same robbery back |
| Truco | `cogs/games/games/truco.py` | a game, its lease, a play lock that dies with it | invite, accept, decline, expire, deal, play, raise, take, run, sweep | several charges in a row; hands dealt without the lock; timeouts that meet a late press |
| TTS queue and playback | `cogs/tts/audio.py`, `cog.py` | a queue, a worker task, a generation, a part prepared ahead | send, speak, prefetch, clear, switch off | a worker that may be cancelled at every await; some awaits swallow it |
| Path leases, replay buffer | `cogs/tts/runtime.py` | owners of audio files; bytes in memory and on disk | acquire, release, remove; append, spill, close | not modelled: one thread lock, no await inside |
| Alms, other games | `cogs/games/__init__.py`, `cogs/games/games/*` | views and sessions of their own over registry and wallet | ask, give; invite, play, settle | not modelled, see the plan |
| TTS panels | `cogs/tts/ui.py` and others | settings | panels, aliases | interface |
| Music, chatbot, forms, tickets, welcome, birthdays, roles, anti-bot | `music_system/`, `cogs/*` | configuration and panels | commands | network I/O and rendering |
| Process, web server, updater, phone worker, activity, Android app | `bot.py`, `webserver.py`, `deploy/`, `scripts/`, `activity/`, `android/` | - | - | other processes and languages |

How they interact: every game reserves its players in the registry, charges
them through the wallet, and gives both back; a command that would put its user
into debt asks at the gate first, and the gate notes the consent in the wallet
it guards; payments and robberies move chips between two wallets under their
locks while games charge the same wallets; a guild's worker takes its audio
from shared syntheses, which take their slots from the semaphores; truco's sweep
reaps expired leases of *every* game; a restart loses the cache and whatever
save had not landed.  `PROJECT.json` lists each hazard at its line with the
property that would catch it going wrong.

What makes each correct: the registry's indexes say what its leases say, and
its limit holds; every entry a lobby or a table takes is played for or given
back, once; nobody owes chips without consent and the collection has what the
bot shows; whoever asks for a consent gets an answer; chips are neither made nor
lost by a payment, a robbery or its undoing; no two commands wait for each
other's wallets; at a table somebody can always move; slots are neither lost nor
idle; nobody's departure takes the audio from somebody else; a guild's messages
are spoken in order and whole, and not after a clear.

## 2. The modules

| Module | Models | State and actions in the code |
| --- | --- | --- |
| `SessionLeases` | the promise of the registry, over leases alone | `sessions`: a lease or none per session; `Open`, `Activate`, `SetDeadline`, `Close` |
| `GameSessionRegistry` | the registry as it is | `sessions` = `_sessions`, `userSession` = `_user_sessions`, `guildActive` = `_guild_active_users`; one action per method; `DeadlinePasses` is the clock |
| `CorridaLobby` | the race of one guild, EXTENDS `GameSessionRegistry` | `race` = `_race_sessions[guild]`, `lobby` = the session dict, `lock` = `_join_lock`; `opener`, `join`, `finish`, `cleanup` are program counters of the four kinds of handler; `net` is what a lobby took from a user and still has |
| `ChipBalance` | arithmetic of a balance | `Spent`, `Gained`, `GainedBonus` = the branches of `add_user_chips` and `add_user_bonus_chips` |
| `ChipWallet` | the document of a user in cache and collection | `cache` = `user_cache`, `store` = the collection, `holder` = `_chip_economy_lock`, `saving` = the `update_one` each handler awaits |
| `DebtGate` | the question before a debt, EXTENDS `ChipWallet` | `gate` = `_negative_debt_message_gates`, `show` = the tasks of `_show_negative_message_gate` with their views, `command` = the commands that wait for a gate's future; `ConsentNoted` makes the wallet's `Consent` step |
| `Payments` | offers, reactions, transfers | `current` = `_payment_sessions`, `offer` = the pending dicts, `reactor` = reaction handlers between their awaits |
| `Robbery` | robberies and what gives them back | `cache` and `store` as in the wallet, `economy` = the locks of two users taken in the order of their ids, `progress` = the locks of the skills, `work` = the commands: locks they want, saves they make, saves that would undo them, rows they note |
| `TrucoTable` | a challenge and its match | `game` = `TrucoGame`, `lease` = its session, `elsewhere` = players other sessions hold, `lock` = the play lock, `work` = presses, timeouts, the dealing of the hands and the sweep between their awaits, `gain` = chips won or lost here; `settled` and `lost` are histories: what was done with the entries, what raising charges lost |
| `SlotPool` | the promise of a semaphore | where each task is |
| `PrioritySemaphore` | `_PrioritySemaphore` | `value`, `foreground`, `background`, `streak` as in the class; `state` is the future of a task; a grant and the task's going on are two actions |
| `SharedSynthesis` | `SharedSynthesisMixin` | `current` = `_tts_shared_jobs`, `job` = `StreamJob` with the position of its producer, `consumer` = streams and files, `free` = what the semaphores have left |
| `GuildSpeech` | a guild's queue and its worker | `guild` = `GuildTTSState`, `worker` = the task of `_worker_loop` with its locals and its await, `clearing` = the clears of `cog.py`, `fate` and `left` are histories: what became of each part, and the parts that a worker on its way out left in the queue |
| `MC*` | small instances | constants, start documents, request sets, symmetry |
| `*_proofs` | theorems | section 5 |

`SessionLeases` and `SlotPool` are the abstract specifications;
`GameSessionRegistry!ImplementsLeases` and `PrioritySemaphore!ImplementsPool`
are the refinements.  `SharedSynthesis` is built on the abstract pool: it takes
a slot whenever one is free, which is what the semaphore is proved to implement.
`ChipWallet` is in turn what `DebtGate` implements (`ImplementsWallet`): every
step of the gates is a wallet step or leaves the wallet alone, so the wallet's
theorems hold of the composition, where consents come from presses.

Cancellation is modelled where tasks are cancelled.  In `GuildSpeech` a
cancelled worker gets its error at its next resumption, at each of its awaits,
and the awaits that swallow it (`suppress(BaseException)`) do.  In
`PrioritySemaphore` a cancellation may meet a grant; in `DebtGate` it reaches
the task of a question that was asked again.

Operators marked "Mutant" in a module are variants of the definition next to
them, a plausible mistake each; with one put in place of the definition, TLC
finds the property named beside it in `PROJECT.json` violated.

## 3. The runs

| Run | Instance | What it shows |
| --- | --- | --- |
| `registry` | 3 sessions, 3 users, 2 guilds, limit 2 | indexes and leases agree after every call; no session takes another's user; the promise, its limit included, is implemented |
| `corrida_lobby` | 1 lobby, 3 users, 2 joins, 2 finishers, 1 other game of two players | every entry ends in the pot or back with its player, once; a race is not settled after refunds; players are reserved exactly while they are in; **liveness**: entries settle |
| `corrida_stranded` | 2 lobbies, finding | the end of the first lobby drops the second one, whose player has paid |
| `debt_gate` | 1 user, 1 command that opens a gate and 1 that asks again, 2 questions, 2 wallet handlers, saves outside the lock, restart | no debt without consent in cache or collection; a day's bonus once; a consent was pressed on the message shown last; the wallet is implemented; **liveness**: whoever waits is answered |
| `payments` | 2 users, 2 offers of which one may replace the other, 2 reaction handlers, games | chips are accounted for; what is paid was confirmed, but for the payer's newer offer that _finalize_payment takes for a confirmed one that is gone; an offer expires by its own timer; **liveness**: offers close, transfers and locks end |
| `payments_twice` | 1 offer, 2 handlers, finding | one confirmation message, two transfers |
| `semaphore` | 4 tasks, 1 slot, streak 2 | slots conserved and never idle; pool implemented; **liveness**: every waiter is served |
| `shared_synthesis` | 2 consumers, 2 jobs, a text per engine, 1 slot each | others undisturbed, one synthesis per text, slots counted right; **liveness**: jobs close, files are answered |
| `guild_speech` | 2 messages of 1 or 2 parts, capacity 2, 2 clears, 2 changes of the switch | parts are heard in order, messages evicted whole, the local player says nothing that was cleared, a clear leaves what came after it unless another overlaps it; **liveness**: every clear ends, and so does every part that no worker on its way out has left in the queue |
| `speech_stale` | the same, finding | the music agent is given a part that a clear has discarded |
| `robbery` | 3 users, 2 commands at once, 2 robberies, 1 failed save or restart, 2 days | a robbery is given back at most once, no chips come from nothing, no circle of waits |
| `truco` | 2 players, 7 presses of which 2 at once, besides timeouts and sweep, 3 levels, hands that are not delivered, charges that raise | chips are accounted for, also by a deal that fails for one while the other plays, players held by one session, somebody can move, the winner won rounds; **liveness**: the table closes |

Bounds and why they are enough:

* Registry: three sessions allow two that compete for a user and one in the
  other guild; a limit of 2 with 3 users is reached and refused.
* Lobby: with `MaxPlayers = 3` a third player may join while the start button is
  pressed, so that the button waits for the lock; the guild's limit of 2 refuses
  that player after the charge.  Two joins and two finishers meet on the lock;
  another game of two fills the guild, so that the opener's own activation may
  be refused.  `OverdueIn` names the situations in which the clock may pass
  (`MayGoOverdue` gives the code's durations), `JoinsOutlastRaces` whether saving
  a join may take as long as a race.  In `corrida_stranded`, which needs two
  lobbies, two players are a full one.  A finite set of lobbies is used up, so
  deadlock is not checked.
* Debt gate and wallet: the user owes a chip and has not claimed the day's
  bonus, or has none and may recharge; a cost of 1 then needs a consent, and a
  credit of 1 brings the balance over zero while the question is open.  `Shows`
  are used again when nothing refers to them; two are the one withdrawn and the
  one shown in its place.  `MaxAsks` bounds repeated commands, `MaxWorth` and
  `MaxRecharges` credits.  `MaxDebt = 2` stands for the code's debt limit.
* Payments: an amount of 2 against 2 chips and a bonus of 1: a game that comes
  first makes the offer unaffordable.  The tax is at least 1, so it is never
  zero.  Offers are used up, so deadlock is not checked.
* Semaphore: four tasks are one inside, two that keep the foreground busy, and
  one in the background; the streak of 2 (4 in the code, any number in the
  proofs) is passed.
* Shared synthesis: a job closes only when nothing refers to it, and then its
  object is used again, so behaviours are not bounded by the number of jobs;
  two jobs are enough for an old one to be closed while its successor runs.
* Guild speech: the two-part message fills the queue and shares a text with
  another message, so evictions and duplicates happen; with one item spoken, one
  prepared and the rest queued, every pair of the worker's places is occupied.
  The second clear comes while the first waits for the worker.  A message comes
  at every await of the worker, also as it leaves; the two-part message is enough
  for a part at hand whose audio is spent and one prepared ahead.  Messages are
  used up, so deadlock is not checked.  (Three messages and one change of the
  switch pass too, in some 1.9 million states.)
* Robbery: `Keep = 1` (10 in the code) makes a list that forgets, `Limit = 2`
  (50) and `Fine = 1` (10) keep numbers small; only user 2 has chips and both
  skills, so it may be robbed by two, rob back and use either skill on the same
  robbery; two commands that name each other's wallets are what a circle of
  waits needs, any number is in the proof.  `Before = 0`: the run begins with no
  robbery made; the proofs begin with any that earlier runs left.  Robberies are
  used up, so deadlock is not checked.
* Truco: three of the five levels give a raise, a raise on a raise, and none
  left; seven presses are the acceptance and six cards, which are three rounds, or
  fewer with raises between them.  Each hand is delivered or not, and who has his
  may press before the other's is sent; `MayFail = {"charge"}` lets a charge
  raise.  The challenge is used up, so deadlock is not checked.

## 4. Fairness

A handler that can go on does (`WF` of its next step): the event loop is fair
and every call to Discord or the database in these parts ends, by success,
exception or timeout.  `asyncio.Lock` and the semaphore serve waiters in order,
so an acquisition that is enabled again and again happens (`SF`): `JoinGetsLock`
and `FinishGetsLock` in the lobby, `ReactorStep` in the payments, `Entry` into
truco's play lock, `ConsentNoted` at the gate, whose save takes the wallet,
`SlotGrant` and `PrefetchGrant` in the synthesis (the last two are what
`EveryWaiterServed` shows).  In `GuildSpeech`, `WF` of the worker's step is the
event loop; `SF` of `Arrival` and `ClearEnds` says that a message being accepted
and a clear that waits for a task do go on, although the worker's steps may
disable them for a while.  Timers fire: views (`on_timeout`), offers
(`_expire_later`), truco's timeouts.  Nothing is assumed of people: opening,
joining, pressing, reacting, consenting and new requests for speech have no
fairness.  In the semaphore, a task that holds a slot releases it because each
synthesis has a deadline.

## 5. What is proved

TLAPS checks, for every value of the constants under the modules' `ASSUME`s:

* `CorridaLobby_proofs`, of the registry: the indexes agree with the leases
  (`IndexesFollowLeases`), no step moves a user from one live session to another
  (`NobodyIsStolen`), the guild limit (`ActivePlayersBounded`), and the
  refinement (`RegistryImplementsLeases`).  The invariant is `RegistryIInv`: types, both
  indexes, and that the active users of a lease are reserved by it.  The limit
  alone is not inductive: `activate` counts the index, so one needs to know that
  the index is the union of the leases, and `release` subtracts from the index,
  which needs that no two leases share a user.  `GuildCap` is then shown to be
  kept under `RegistryIInv`.
* `CorridaLobby_proofs`, of the lobby, for any number of users, handlers and
  other games.  `LobbyTypeCorrect` has no premise.  The invariant `CorridaIInv`
  adds `LobbyInv` of each lobby, which holds between any two awaits: handlers
  serve open lobbies only (`ServesOpen`); the lock is held exactly while one
  player's entry is saved or given back, and that player is not in yet
  (`LockHeld`); once a lobby is overdue only its cleanup works on it
  (`OverdueFrozen`); while one handler cancels, no other is past the lock
  (`DecidedAlone`); it ends once (`EndsOnce`); and at each stage of its life it
  has an entry of exactly whom it should (`EntriesHeld`): of the owner while it
  opens, of the players and of whom it is charging while it is open, of those who
  are left while it refunds.  `EntryTakenOnce` alone says nothing of who is still
  to be refunded, so it is not inductive.
  A step is about one lobby and leaves the others aside (`AsideKeeps`), but for
  one: a refused start button clears `starting` on whatever race is current
  (corrida.py:915-917).  If that race is being cancelled it may be cancelled
  again, see section 6.  So `MoneyIfMarksStay` (`EntryTakenOnce`, `SettledOnce`)
  and `PlayersReservedIfMarksStay`, for lobbies that follow one another and
  players who leave, take it as a premise that this does not happen
  (`MarksKept`).  `OneLobbyMoney` proves it of a guild with one race whose
  players stay: a button is pressed where there are two players, and a handler
  cancels where there are not (`OneLobbyMarks`).  `OneLobbySettles` and
  `OneLobbyReserves` add that a lease covers all players (`Leased`), that a race
  is closed when it ends (`Closed`) and that it stays the guild's until then
  (`Found`).  The second lobby is excluded because there the property fails:
  `corrida_stranded` shows how.  All of them, like the run, let a lobby outlast
  its limits while it is open and nowhere else (`OverdueIn`).
* `DebtGate_proofs`, of the wallet: types (`WalletTyped`); `DebtNeedsConsent`,
  from `AllAgreed`: *every* document there is - cached, stored, or in a save under
  way - owes only with consent.  The property speaks of two of the three; a save
  that lands late is why it is not inductive.  `DailyGrantedOnce` has the same
  form.
* `DebtGate_proofs`, of the gate: `GatesImplementWallet`, step by step: each action of the
  gates is an action of the wallet or leaves its variables alone; from it
  `GatedDebtNeedsConsent`, by `DebtNeedsConsent`.  `OwnersWaitForSomebody` and
  `ConsentsArePressed` are about the gates themselves, for any number of
  commands and questions; their invariant (`GateInvariance`) adds that a task
  that is not cancelled belongs to the generation its gate names.
* `Speech_proofs`, of the semaphore: `SemaphoreTyped`, `SlotsNeverLost`,
  `FreeSlotsAreTaken` and `SemaphoreImplementsPool`, from `SemaphoreInv`: types,
  conservation, every pending task is in a queue, and a free slot means empty
  queues.  The last two are what `NoIdleSlot` lacks to be inductive: a release
  may raise the count only after both queues were emptied.  Lemmas say what
  dropping done futures and removing a cancelled one leave of a queue; the first
  live waiter exists because a non-empty set of naturals has a least element
  (`LeastElement` of `FiniteLemmas`).
* `Speech_proofs`, of a guild's speech, for any finite set of messages and of
  clears, any capacity and any number of changes of the switch:
  `DuplicatesAreWaiting`, `MessagesEvictedWhole`, `LocalSpeechIsFresh`,
  `SpeechKeepsOrder` and `ClearsSpareTheNew`.  None of the five carries itself; together they rest on `SpeechInv`, which says what is
  true at *every* await of the worker.  Of the data: the count of a text covers
  what is queued and the part that was fetched and is not booked yet (`Counted`);
  an item at hand comes before what is prepared ahead or was taken by the arrival
  task, and that before the queue (`Ordered`); and every waiting part is at hand
  or queued (`Located`).  The order of what is heard is these two: whatever comes
  after must still be somewhere behind, and what came before waits no more.  Of
  the worker: what it holds where (`Placed`), that it left its last item settled
  (`Past`), and that a worker of an earlier generation has a clear waiting for
  its end, while one of the guild's generation is not cancelled and finds the
  guild taking messages (`Clocked`).  From `Clocked` follows that the local
  player says nothing stale: the awaits that swallow a CancelledError leave
  behind a worker whose generation is not the guild's, and the local way asks for
  it once more.  `ClearsSpareTheNew` needs besides that what a stalled worker has
  is older than its guild while no message is let in (`Aged`), and that a worker
  ends with an item at hand only because of a clear or by an exception
  (`EndsEarly`).
  Lemmas say what an eviction cuts, and how texts are counted in the two parts of
  a queue that was cut (`EvictionsCut`, `CountConcat`).
  `GroupsAssumption`, `ClearsAssumption` and `NoItemAssumption` say that messages
  and clears are finitely many and that no item is a part.
* `Robbery_proofs`: `RobberyTyped` and `NobodyWaitsInACircle`, for any finite
  sets of users and of commands and any documents.  The invariant is `Inv`: a command
  that waits wants one wallet, or two different ones in the order of their ids;
  whoever holds a wallet while it waits wants one of a greater id
  (`HoldsInOrder`); and nobody is recorded as robbed by oneself (`FromOthers`),
  in any document, save, undoing save or row to be noted.  The last part is what
  the locks alone lack: a skill locks its user and whom the record names, and
  with one user twice there would be no order.  In a circle the command that
  waits for the wallet of the greatest id would wait for a command that wants a
  greater one still; that there is a greatest is `Heaviest` of `FiniteLemmas`.
  `RobberiesGivenBackOnce` adds `BackInv`.  The property speaks of the documents
  in the cache and in the collection; a document that was copied for undoing, or
  is on its way to the collection, may replace either, and a row that is still
  to be noted may offer a robbery to 0to1 after it was given back.  So every
  document there is must be `Fair`: marked exactly as it got back, with the
  cutoff past whatever it got back, and telling of robberies only that have been
  made (`Known`): those whose command still waits for its locks are in no
  document, in no row and have an id of their own (`IdsApart`).  That a list
  forgets (`Keep`) needs no more than that.  The start documents are such as the
  program leaves them, with `Before` robberies made earlier.
  `ChipsOnlyMove` states `NoChipsFromNothing` for at most one save that raises;
  section 6 shows what a second one does.  Between the two saves of a command
  chips are missing or there twice, so its invariant `ChipsInv` counts what is
  under way: `Ahead` is the most that a command may still add, be it that the
  rest of its saves land (`Onward`) or that they are put back (`PutBack`), and
  what users hold with all of it (`AtStake`) never exceeds what they held before
  and what was minted.  That `Ahead` of the other commands does not grow with a
  step needs the locks: whose documents a command saves, their wallets it holds
  (`UnderLocks`).  A bonus is claimed without them, but only adds to a document,
  which leaves less ahead (`AheadFalls`).
* `Payments_proofs`: `PaymentsTyped`, `PaymentsConfirmed`, `OffersExpireInTime`
  and `ChipsKept`.  The invariant `IInv` says that an offer, once made, keeps its
  payer, its target and its amount (`Offered`, `SameTerms`), that the index has a
  payer's own offers (`Kept`) and that a handler works for the payer of the offer
  it has found (`Handled`); without the last, the debit of one wallet could be the
  credit of another offer.  `ChipsKept` is about sums over all users and all
  handlers: every step changes one wallet and one handler, and a sum of which one
  member changes, changes by as much (`SumChanged` of `FiniteLemmas`).
  `PaymentsConfirmed` says that nothing is transferred unconfirmed unless an
  earlier offer of the same payer, which both had confirmed, is not kept any more:
  its handler is the one that found both confirmations and then took whatever
  offer the payer had.
* `SharedSynthesis_proofs`: `SlotsKept`, `HeldJobsLive` and `OneJobPerText`, for
  any number of consumers, jobs, texts and slots.  The invariant `IInv`: a job's
  count of references is the number of consumers that hold it (`RefsInv`); the
  index has every job that can be joined (`IndexInv`); slots that are not free
  are held by running producers (`SlotsReturned`); and a job that is being
  cancelled or is closed has no references and a producer holds the slots of its
  stage (`JobInv`).  The count is the heart: a job is cancelled when it falls to
  zero, so that it may neither miss a consumer nor keep one that left.
* `TrucoTable_proofs`: for any `MayFail`, costs and number of presses,
  `TypeCorrect`, `PlayersStayReserved`, `WinnersWonRounds` and `ChipsAddUp`; where
  no answer to a player raises, `SomebodyMoves` (section 6 says what happens
  where one does).  `ChipsAddUp` has no premise: a hand that is not delivered, a
  charge or a prize that raises are among its steps, and its statement says what
  they do to the chips.  The invariant `IInv`
  says that one handler works under the play lock, also on a game that was
  removed and lost its lock, and one deals (`OneAtWork`); what each is there for
  (`KindByStage`); and that what it found in the game before an await still
  holds when it goes on (`Found`).  `TurnInv`, `EntriesInv` and `ChipsInv` rest
  on it.
* `FiniteLemmas`: least and greatest elements, and sums over finite sets.
  Nothing there is by induction, which is out of the prover's reach: a set of
  counterexamples that is not empty has a smallest one (`MinimalSet`).  That the
  recursive function behind `SumFunctionOnSet` exists, and that it does not
  matter in which order it adds, is shown in the same way.

`ActivePlayersBounded` and `FreeSlotsAreTaken` state what no run checks by
itself: the first is part of `ImplementsLeases`, the second of `ImplementsPool`.

Only model-checked: all liveness, which is out of the prover's reach.

## 6. Where code and intent part

Three runs are expected to be violated; `PROJECT.json` quotes the lines.

* `corrida_stranded`: four exits drop the guild's race without looking whether
  it is still theirs; the opener's exits do look.
* `payments_twice`: the offer stays open and confirmed while its message is
  edited and its transfer awaited; each reaction handler finalizes it.
* `speech_stale`: `suppress(BaseException)` around the await of a prepared audio
  swallows the cancellation of a clear, and the agent speaks on.

Four disagreements happen inside the passing runs; the property concerned states
the exception they make, and anything beyond it violates the property:

* `payments`, `PaidConfirmed`: the handler of one confirmed offer finalizes
  whatever offer its payer has once the message is edited (payments.py:222),
  though the message says that payer and target must confirm (payments.py:52).
  So an offer that nobody confirmed is paid if an earlier offer of the payer, which
  both had confirmed, was replaced or had been paid meanwhile.
* `truco`, `ChipsAccounted`: both hands are sent before a failure is acted on
  (truco.py:1453-1463), and who has his may run (truco.py:1705-1721 asks neither
  turn nor status) or have a raise taken through the other's refreshed hand.  If
  a hand is not delivered the entries are returned all the same (truco.py:332-349):
  the pot is paid *and* the entries are returned, or the entries are and a raise is
  not.  And when the second charge of an acceptance or of a raise raises an
  exception, what the first has paid is lost (truco.py:1359-1384).
* `guild_speech`, `EverythingSettles`: a part stays in the queue without a worker
  until the next message if it comes while the worker leaves, finds it still not
  done and so starts none (audio.py:706-711 against 6319-6325 and 6634-6648); if it
  comes too late for the idle timeout; or if the worker ends by the CancelledError
  of audio that a failed agent had cancelled (audio.py:6352-6355, 6403-6439, 6480).
  `left` is these parts; they settle once a worker comes.
* `guild_speech`, `ClearsOnlyOlder`: the same CancelledError throws away the part
  that was prepared ahead, although no clear came (`Strayed`).

Further disagreements that the models reach with other constants, kept out of
the runs:

* `CorridaLobby`, `OverdueIn = {"joining"}`, `NoStrandedEntry`: a cleanup that
  reads its refunds during a join misses the entry being charged.
* `CorridaLobby`, `MayLeave = {u1}` and two finishers, or two lobbies,
  `EntryTakenOnce`: a refused start button clears `starting` on a lobby that is
  being cancelled, and its entries are given back twice.
* `CorridaLobby`, `JoinsOutlastRaces = TRUE`, `NoStrandedEntry`: a refused start
  button clears `starting` on a race that is about to start; another player is
  let in and charged, and if that save outlasts the race the entry is neither
  in the pot nor given back.
* `ChipWallet`, in its run: the history of an entry, the daily bonus and consents
  are saved outside the lock, so an older document can land last and stay until
  the next save.  No property says that cache and collection agree at rest.
* `ChipWallet`, two handlers in `AskRecharge`: both recharges are granted.
* `Payments`: the debit takes bonus chips first (`Spent`), while the texts
  promise normal chips only (payments.py:101, 245).
* `GuildSpeech`, three clears and three messages, `ClearsOnlyOlder` without
  `Overlapping`: the end of an early clear sets `accepting` (cog.py:4662-4663)
  while a later one still waits for the worker; a message let in then is taken by
  the worker of the earlier generation and thrown away.  The attempt to prove the
  property found this (two clears do not show it); the exception states it.
* `GuildSpeech`: a clear that cancels the worker in its `finally`, while it
  cancels a remote request, skips the release of the item's audio; overlapping
  clears may wipe the counts of a new message (so `DuplicatesWait` says at
  most); switching speech off and on keeps a prepared part, and a state that was
  dropped forgets that it was switched off; an answer `ok = False` of the agent
  counts as played.
* `DebtGate`: commands that come while a question is open are discarded, not
  answered with it; the comparisons of generations decide nothing that the
  cancellation has not decided.
* `Robbery`, `MaxFaults = 2`, `NoChipsFromNothing`: if the save that undoes a
  failed one fails too, the thief keeps the chips and the victim has them again.
  A restart between two saves leaves one side.
* `Robbery`: the thief's document is copied before the victim's save is awaited,
  so a daily bonus claimed meanwhile is lost; 0to1 reads its row again after the
  locks and may then charge another thief nothing.  Both only lose chips or are
  counted as made (`minted`), so `NoChipsFromNothing` says at most.
* `TrucoTable`, `MayFail = {"answer"}`, `SomebodyCanMove`: a card is put on the
  table and the answer to the press raises (truco.py:1539-1540): nobody can move
  until the timeout.  `{"prize"}`, `TableCloses`: an exception in the statistics
  loses the pot.
* `TrucoTable`: when the time to answer a raise is over, the one who asked loses
  (truco.py:1071), although the message waits for the other (truco.py:1582).

So `corrida_lobby`, `robbery` and, for an answer or a prize that raises, `truco`
are conditional results: they say what holds as long as the named situation does
not arise, and the list above says what happens when it does.

## 7. What the models leave out

* Exceptions of the database inside a handler (the code catches most of them and
  goes on), but for `Robbery` and `TrucoTable`; the bot leaving a guild while a
  lobby is open.
* The race itself: plans, impulses, track, narration.  The pot is one entry per
  locked player and its division is one step.
* Wallet: chip seasons, weekly bonus, contents of histories, achievements; a
  temporary bonus counts as bonus.
* Debt gate: the gates of buttons (`_confirm_negative_ephemeral`,
  `_confirm_negative_via_message`), which ask one handler alone; a message sent
  by a task that is cancelled during the sending.
* Payments: both users have played a game; the statistics after a transfer are
  part of its last step; a debt made by a transfer is not asked about.
* Registry: `activate` adds players that the caller names; the model lets callers
  name the players they have and those that join (`CallerGrowsPlayers`), as the
  games do, while the method itself would take any set.
* Robbery: a command that is cancelled while it waits for the second wallet, which
  would keep the first (base.py:1919-1921 acquires both before its `try`): nothing
  cancels a command but the end of the process.
* Robbery: the forced robbery, which locks, saves and undoes in the same way;
  0to1 of rows that are not robberies; what a golden round is used for.
* Truco: the wallet's split of an entry, its bonus and variants, statistics and
  messages; who wins a round is any of the two or a tie.  The confirmation that
  a raise awaits under the play lock is one step with it, as nothing but the
  sweep can come between.  So is the answer to who runs, between the look at the
  game and its end (truco.py:1705-1721).
* Shared synthesis: shutdown, the phone worker's route, bytes and prebuffering;
  `pending_io` (the append of the producer, which its task outlives); a closed
  job's record is normalised so that its object can be used again.
* Guild speech: `_shutdown_tts_runtime`, a guild that is gone, voice recovery,
  the warm hold, caches and metrics, leases of audio files.  A clear that cancels
  the worker while it cancels a remote request skips the stop of the arrival task
  (audio.py:6609-6616); in the model that task ends with the worker, in the code it
  goes on waiting on a queue that the guild's next state does not use.
* Path leases and the replay buffer: their operations hold one thread lock and
  do not await, so what could go wrong is counting, which unit tests reach.
* Alms: one donor's transfer at a time, as in `Payments`, with cooldowns.
* Time is only an order: deadlines pass, ttl lengths do not matter.  In
  particular a touch that moves a deadline is a deadline that has not passed.

The wallet has no run of its own: `debt_gate` contains all its actions.

## 8. Plan

Done, in this order: registry, lobby, wallet, payments, semaphore, shared
synthesis; the gate over the wallet, the guild's speech, robbery, truco; proofs
of registry, lobby, wallet, gate, semaphore, payments, shared synthesis, truco,
robbery and the guild's speech.

Next:

1. `AudioFiles`: `PathLeases` and `ReplayBuffer` with `MemoryBudget`
   (`cogs/tts/runtime.py`): a file in use is not removed, the budget is returned
   exactly once.
2. `Alms`: documents read before awaits.
3. Race prizes: `_allocate_race_rewards` as a function against its reference,
   what is handed out never exceeds the pot.

## 9. Running

In this directory, `tlc -config MCPayments.cfg MCPayments` checks a run;
`PROJECT.json` lists module, configuration and expected outcome of each.
`tlapm DebtGate_proofs.tla` checks a proof module.  No run takes more than
about two and a half minutes with two workers.
