--------------------------- MODULE CorridaLobby ---------------------------
(***************************************************************************)
(* The race game of one guild (cogs/games/games/corrida.py), from the      *)
(* message that opens a lobby to the prizes, over the session registry.    *)
(* A handler is an asyncio task: what it does between two awaits is one    *)
(* action, and at every await the others run.  Four kinds of task meet on  *)
(* one lobby: the opener, the players who join, the view's timeout or the  *)
(* start button, and the cleanup of a lobby that lasted too long.          *)
(*                                                                         *)
(* Chips appear as what each lobby took from each user and has not given   *)
(* back.  Leases carry no ttl here: "overdue" stands for the clocks.       *)
(***************************************************************************)
EXTENDS GameSessionRegistry, Integers

CONSTANTS Lobbies,     \* one per opening message: the session dict and its id
          Joins,       \* join handlers that may run at once
          Finishes,    \* timeout and start-button handlers that may run at once
          Guild,
          MaxPlayers,  \* CORRIDA_MAX_PARTICIPANTS
          MayLeave,    \* users who may have left the guild when the race starts
          OverdueIn,   \* where a lobby may outlast its limits: see MayGoOverdue
          JoinsOutlastRaces, \* whether saving a join may take as long as a race
          PostMayFail, \* whether Discord may refuse the lobby's panel
          NoLobby, NoTask, NoUser

ASSUME LobbiesAssumption == Lobbies \subseteq Sessions /\ NoLobby \notin Lobbies
ASSUME TasksAssumption == NoTask \notin Joins
ASSUME GuildAssumption == Guild \in Guilds
ASSUME MaxPlayersAssumption == MaxPlayers \in Nat \ {0}
ASSUME OverdueAssumption == OverdueIn \subseteq {"confirming", "open", "joining", "starting"}
ASSUME MayAssumption == JoinsOutlastRaces \in BOOLEAN /\ PostMayFail \in BOOLEAN

\* The sessions of other games over the same registry.
OtherGames == Sessions \ Lobbies

VARIABLES race,      \* _race_sessions[guild]
          lobby,     \* the session dict of each lobby
          lock,      \* _join_lock: the join handler that holds it
          opener,    \* how far the opening handler is
          join, finish, cleanup,   \* the other tasks
          net,       \* entries taken from a user by a lobby and not given back
          settled,   \* how often a race was settled
          pot        \* the users whose entries were in the pot that was shared out

vars == <<registryVars, race, lobby, lock, opener, join, finish, cleanup, net,
          settled, pot>>

OpenerState == {"none", "confirming", "paid", "posting", "open", "refunding",
                "withdrawing", "done"}
JoinState == {"idle", "confirming", "waiting", "paid", "refunding"}
FinishState == {"idle", "waiting", "refunding", "closing", "prelude", "started",
                "racing", "paying"}
CleanupState == {"none", "spawned", "refunding", "closing", "done"}

LobbyRecord == [owner: Users \cup {NoUser}, locked: SUBSET Users, starting: BOOLEAN,
                started: BOOLEAN, ended: BOOLEAN, created: BOOLEAN,
                overdue: BOOLEAN]

TypeOK ==
    /\ RegistryTypeOK
    /\ race \in Lobbies \cup {NoLobby}
    /\ lobby \in [Lobbies -> LobbyRecord]
    /\ lock \in [Lobbies -> Joins \cup {NoTask}]
    /\ opener \in [Lobbies -> OpenerState]
    /\ join \in [Joins -> [pc: JoinState, user: Users \cup {NoUser},
                           lobby: Lobbies \cup {NoLobby}]]
    /\ finish \in [Finishes -> [pc: FinishState, lobby: Lobbies \cup {NoLobby},
                                source: {"none", "button", "timeout"},
                                left: SUBSET Users]]
    /\ cleanup \in [Lobbies -> [pc: CleanupState, left: SUBSET Users]]
    /\ net \in [Lobbies -> [Users -> Int]]
    /\ settled \in [Lobbies -> Nat]
    /\ pot \in [Lobbies -> SUBSET Users]

\* Mutant: the record of an idle join handler lacks its lobby.
ShortNoJoin == [pc |-> "idle", user |-> NoUser]
NoJoin == [pc |-> "idle", user |-> NoUser, lobby |-> NoLobby]
NoFinish == [pc |-> "idle", lobby |-> NoLobby, source |-> "none", left |-> {}]
NewLobby == [owner |-> NoUser, locked |-> {}, starting |-> FALSE, started |-> FALSE,
             ended |-> FALSE, created |-> FALSE, overdue |-> FALSE]

Init ==
    /\ RegistryInit
    /\ race = NoLobby
    /\ lobby = [l \in Lobbies |-> NewLobby]
    /\ lock = [l \in Lobbies |-> NoTask]
    /\ opener = [l \in Lobbies |-> "none"]
    /\ join = [j \in Joins |-> NoJoin]
    /\ finish = [f \in Finishes |-> NoFinish]
    /\ cleanup = [l \in Lobbies |-> [pc |-> "none", left |-> {}]]
    /\ net = [l \in Lobbies |-> [u \in Users |-> 0]]
    /\ settled = [l \in Lobbies |-> 0]
    /\ pot = [l \in Lobbies |-> {}]

-----------------------------------------------------------------------------
(* Looking the guild's race up. *)

\* _get_race_session returns the current lobby unless it ended or is overdue...
Seen(l) == race = l /\ ~lobby[l].ended /\ ~lobby[l].overdue
NothingSeen == \A l \in Lobbies : ~Seen(l)

\* ... and what it does to a lobby that is: an ended one is dropped, an overdue
\* one is dropped and its cleanup is spawned.
CleanupAfterLookup ==
    [l \in Lobbies |->
        IF race = l /\ ~lobby[l].ended /\ lobby[l].overdue /\ cleanup[l].pc = "none"
          THEN [pc |-> "spawned", left |-> {}]
          ELSE cleanup[l]]
RaceAfterLookup == IF NothingSeen THEN NoLobby ELSE race

Lookup == race' = RaceAfterLookup /\ cleanup' = CleanupAfterLookup

\* Any handler may be the one that looks up a lobby that is over: it answers
\* that there is no race and does nothing else.
LookupDropsRace ==
    /\ race # NoLobby /\ NothingSeen
    /\ Lookup
    /\ UNCHANGED <<registryVars, lobby, lock, opener, join, finish, net, settled, pot>>

Finishing(l) == \E f \in Finishes : finish[f].lobby = l /\ finish[f].pc # "waiting"

\* An asyncio.Lock is not given to a newcomer while someone waits for it.
WaitedFor(l) ==
    \/ \E j \in Joins : join[j].lobby = l /\ join[j].pc = "waiting"
    \/ \E f \in Finishes : finish[f].lobby = l /\ finish[f].pc = "waiting"
LockAtOnce(l) == lock[l] = NoTask /\ ~WaitedFor(l)

\* The idle limit of a lobby is 65 s after its last join and its age limit
\* 195 s, far longer than a database or Discord call.  So the clocks pass while
\* the owner is asked to confirm a debt and while the lobby waits for players;
\* the age limit may also pass while a player is joining, or while a handler
\* starts the race after a refused button cleared "starting".  A race that is
\* starting has limits of its own, which its loop keeps postponing.
MayGoOverdue(l) ==
    /\ ~lobby[l].starting /\ ~lobby[l].started /\ ~lobby[l].ended
    /\ LET situation == CASE opener[l] = "confirming" -> "confirming"
                          [] opener[l] = "open" /\ Finishing(l) -> "starting"
                          [] opener[l] = "open" /\ ~Finishing(l) /\ ~LockAtOnce(l) -> "joining"
                          [] opener[l] = "open" /\ ~Finishing(l) /\ LockAtOnce(l) -> "open"
                          [] OTHER -> "opening"
       IN  situation \in OverdueIn

GoesOverdue(l) ==
    /\ MayGoOverdue(l)
    /\ lobby' = [lobby EXCEPT ![l].overdue = TRUE]
    /\ UNCHANGED <<registryVars, race, lock, opener, join, finish, cleanup, net,
                   settled, pot>>

\* Truco's cleanup releases every expired lease that is not a truco game: a
\* lobby's lease lasts 65 s after the last activation, like its idle limit.
TrucoReapsLease(l) ==
    /\ lobby[l].overdue
    /\ Release(l)
    /\ UNCHANGED <<race, lobby, lock, opener, join, finish, cleanup, net, settled, pot>>

\* _release_race_registry: a missing lease is not an error.
\* Mutant: the lease is left to expire.
KeepLease(l) == UNCHANGED registryVars
ReleaseRegistry(l) == ReleaseLocked({l} \cap Live)

Owes(l, u, n) == net' = [net EXCEPT ![l][u] = @ + n]

-----------------------------------------------------------------------------
(* _handle_corrida_trigger: opening a lobby. *)

OpenerAt(l, pc) == opener' = [opener EXCEPT ![l] = pc]
PopIfCurrent(l) == race' = IF race = l THEN NoLobby ELSE race

\* The lobby becomes the guild's race and reserves its owner before any await.
\* A registry that refuses the owner leaves no trace but the lookup.
Trigger(l, u) ==
    /\ opener[l] = "none"
    /\ NothingSeen
    /\ CreatePending(l, Guild, u, {}, "none")
    /\ race' = l
    /\ cleanup' = CleanupAfterLookup
    /\ lobby' = [lobby EXCEPT ![l] = [NewLobby EXCEPT !.owner = u, !.created = TRUE]]
    /\ OpenerAt(l, "confirming")
    /\ UNCHANGED <<lock, join, finish, net, settled, pot>>

\* The owner refuses the debt, or has too few chips.
OpenerGivesUp(l) ==
    /\ opener[l] = "confirming"
    /\ ReleaseRegistry(l)
    /\ lobby' = [lobby EXCEPT ![l].created = FALSE]
    /\ PopIfCurrent(l)
    /\ OpenerAt(l, "done")
    /\ UNCHANGED <<lock, join, finish, cleanup, net, settled, pot>>

OpenerPays(l) ==
    /\ opener[l] = "confirming"
    /\ Owes(l, lobby[l].owner, 1)
    /\ OpenerAt(l, "paid")
    /\ UNCHANGED <<registryVars, race, lobby, lock, join, finish, cleanup, settled, pot>>

\* The owner becomes the first player, and the panel is sent.
OpenerReserves(l) ==
    /\ opener[l] = "paid"
    /\ Activate(l, {lobby[l].owner}, "none")
    /\ lobby' = [lobby EXCEPT ![l] = [lobby[l] EXCEPT !.locked = @ \cup {lobby[l].owner},
                                                      !.overdue = FALSE]]
    /\ OpenerAt(l, "posting")
    /\ UNCHANGED <<race, lock, join, finish, cleanup, net, settled, pot>>

OpenerRefused(l) ==
    /\ opener[l] = "paid"
    /\ ~MayActivate(l, {lobby[l].owner})
    /\ OpenerAt(l, "refunding")
    /\ UNCHANGED <<registryVars, race, lobby, lock, join, finish, cleanup, net, settled, pot>>

OpenerPosts(l) ==
    /\ opener[l] = "posting"
    /\ OpenerAt(l, "open")
    /\ UNCHANGED <<registryVars, race, lobby, lock, join, finish, cleanup, net, settled, pot>>

OpenerPostFails(l) ==
    /\ PostMayFail
    /\ opener[l] = "posting"
    /\ OpenerAt(l, "refunding")
    /\ UNCHANGED <<registryVars, race, lobby, lock, join, finish, cleanup, net, settled, pot>>

OpenerRefunds(l) ==
    /\ opener[l] = "refunding"
    /\ Owes(l, lobby[l].owner, -1)
    /\ OpenerAt(l, "withdrawing")
    /\ UNCHANGED <<registryVars, race, lobby, lock, join, finish, cleanup, settled, pot>>

OpenerWithdraws(l) ==
    /\ opener[l] = "withdrawing"
    /\ ReleaseRegistry(l)
    /\ lobby' = [lobby EXCEPT ![l].created = FALSE]
    /\ PopIfCurrent(l)
    /\ OpenerAt(l, "done")
    /\ UNCHANGED <<lock, join, finish, cleanup, net, settled, pot>>

-----------------------------------------------------------------------------
(* _handle_race_button and _complete_race_join: joining a lobby. *)

Accepting(l) == Seen(l) /\ ~lobby[l].starting /\ ~lobby[l].started
Busy(u, l) == userSession[u] \notin {NoSession, l}
\* Mutant: a player who is already in is not recognised.
HasPlaceAgain(l, u) == Cardinality(lobby[l].locked) < MaxPlayers /\ ~Busy(u, l)
HasPlace(l, u) ==
    /\ u \notin lobby[l].locked
    /\ Cardinality(lobby[l].locked) < MaxPlayers
    /\ ~Busy(u, l)

JoinAt(j, pc) == join' = [join EXCEPT ![j].pc = pc]
JoinEnds(j) == join' = [join EXCEPT ![j] = NoJoin]

JoinPress(j, l, u) ==
    /\ join[j].pc = "idle"
    /\ opener[l] = "open"
    /\ Accepting(l) /\ HasPlace(l, u)
    /\ join' = [join EXCEPT ![j] = [pc |-> "confirming", user |-> u, lobby |-> l]]
    /\ UNCHANGED <<registryVars, race, lobby, lock, opener, finish, cleanup, net,
                   settled, pot>>

\* The user refuses the debt, has too few chips, or the race is another one now.
JoinGivesUp(j) ==
    /\ join[j].pc = "confirming"
    /\ JoinEnds(j)
    /\ UNCHANGED <<registryVars, race, lobby, lock, opener, finish, cleanup, net,
                   settled, pot>>

\* Under the lock everything is looked at again, then the entry is taken.  The
\* lock stays held while the debit is saved.
EnterJoin(j) ==
    LET l == join[j].lobby
        u == join[j].user
    IN  /\ Lookup
        /\ IF Accepting(l) /\ HasPlace(l, u)
             THEN /\ lock' = [lock EXCEPT ![l] = j]
                  /\ Owes(l, u, 1)
                  /\ JoinAt(j, "paid")
             ELSE JoinEnds(j) /\ UNCHANGED <<lock, net>>
        /\ UNCHANGED <<registryVars, lobby, opener, finish, settled, pot>>

JoinConfirms(j) ==
    /\ join[j].pc = "confirming"
    /\ Seen(join[j].lobby)
    /\ IF LockAtOnce(join[j].lobby)
         THEN EnterJoin(j)
         ELSE /\ JoinAt(j, "waiting")
              /\ UNCHANGED <<registryVars, race, lobby, lock, opener, finish, cleanup,
                             net, settled, pot>>

JoinGetsLock(j) ==
    /\ join[j].pc = "waiting"
    /\ lock[join[j].lobby] = NoTask
    /\ EnterJoin(j)

\* create_pending and activate in one go, for a session whose reservation was
\* given up (registry_created is false).
MayRecreate(l, u) ==
    /\ l \notin Live
    /\ userSession[u] = NoSession
    /\ Cardinality(guildActive[Guild]) < MaxActive
RecreateLease(l, u) ==
    /\ sessions' = [sessions EXCEPT ![l] =
                      [guild |-> Guild, reserved |-> {u}, active |-> {u},
                       state |-> "active", deadline |-> "none"]]
    /\ userSession' = [userSession EXCEPT ![u] = l]
    /\ guildActive' = [guildActive EXCEPT ![Guild] = @ \cup {u}]

\* Mutant: the lock of a refused join is not given back.
StayLocked(l) == UNCHANGED lock
Unlock(l) == lock' = [lock EXCEPT ![l] = NoTask]

\* The debit is saved: the place is reserved and the user becomes a player of
\* the session dict in hand, whatever happened to the lobby meanwhile.
JoinReserves(j) ==
    LET l == join[j].lobby
        u == join[j].user
    IN  /\ join[j].pc = "paid"
        /\ \/ lobby[l].created /\ Activate(l, lobby[l].locked \cup {u}, "none")
           \/ ~lobby[l].created /\ MayRecreate(l, u) /\ RecreateLease(l, u)
        /\ lobby' = [lobby EXCEPT ![l] = [lobby[l] EXCEPT !.locked = @ \cup {u},
                                                          !.created = TRUE,
                                                          !.overdue = FALSE]]
        /\ Unlock(l)
        /\ JoinEnds(j)
        /\ UNCHANGED <<race, opener, finish, cleanup, net, settled, pot>>

JoinRefused(j) ==
    LET l == join[j].lobby
        u == join[j].user
    IN  /\ join[j].pc = "paid"
        /\ IF lobby[l].created
             THEN ~MayActivate(l, lobby[l].locked \cup {u})
             ELSE ~MayRecreate(l, u)
        /\ JoinAt(j, "refunding")
        /\ UNCHANGED <<registryVars, race, lobby, lock, opener, finish, cleanup, net,
                       settled, pot>>

JoinRefunds(j) ==
    /\ join[j].pc = "refunding"
    /\ Owes(join[j].lobby, join[j].user, -1)
    /\ Unlock(join[j].lobby)
    /\ JoinEnds(j)
    /\ UNCHANGED <<registryVars, race, lobby, opener, finish, cleanup, settled, pot>>

-----------------------------------------------------------------------------
(* _finish_race_lobby, called by the view's timeout and by the start button. *)

FinishAt(f, pc) == finish' = [finish EXCEPT ![f].pc = pc]
FinishEnds(f) == finish' = [finish EXCEPT ![f] = NoFinish]

\* A start button that got FALSE clears "starting" on whatever race is current.
StartRefused(source) ==
    lobby' = IF source = "button" /\ ~NothingSeen
               THEN [lobby EXCEPT ![race].starting = FALSE]
               ELSE lobby

\* Whose entries a cancelled lobby gives back.  Mutant: the owner's only.
OwnerEntry(l) == {lobby[l].owner} \cap lobby[l].locked
EntriesToRefund(l) == lobby[l].locked

\* Under the lock the first caller marks the race as starting; with one player,
\* or fewer than two still in the guild, the entries are given back.
EnterFinish(f, l, source) ==
    /\ Lookup
    /\ IF Accepting(l)
         THEN \E left \in SUBSET (lobby[l].locked \cap MayLeave) :
                /\ lobby' = [lobby EXCEPT ![l].starting = TRUE]
                /\ finish' = [finish EXCEPT ![f] =
                     IF Cardinality(lobby[l].locked \ left) < 2
                       THEN [pc |-> "refunding", lobby |-> l, source |-> source,
                             left |-> EntriesToRefund(l)]
                       ELSE [pc |-> "prelude", lobby |-> l, source |-> source, left |-> {}]]
         ELSE StartRefused(source) /\ FinishEnds(f)
    /\ UNCHANGED <<registryVars, lock, opener, join, net, settled, pot>>

CallFinish(f, l, source) ==
    IF LockAtOnce(l)
      THEN EnterFinish(f, l, source)
      ELSE /\ finish' = [finish EXCEPT ![f] = [pc |-> "waiting", lobby |-> l,
                                               source |-> source, left |-> {}]]
           /\ UNCHANGED <<registryVars, race, lobby, lock, opener, join, cleanup, net,
                          settled, pot>>

PressStart(f, l) ==
    /\ finish[f].pc = "idle"
    /\ opener[l] = "open"
    /\ Accepting(l)
    /\ Cardinality(lobby[l].locked) >= 2
    /\ CallFinish(f, l, "button")

\* Every refresh of the panel makes a new view with the same token, so more
\* than one view of a lobby may time out; none is left once the race started.
ViewTimesOut(f, l) ==
    /\ finish[f].pc = "idle"
    /\ opener[l] = "open"
    /\ race = l /\ ~lobby[l].started
    /\ \/ Seen(l) /\ CallFinish(f, l, "timeout")
       \/ LookupDropsRace

FinishGetsLock(f) ==
    /\ finish[f].pc = "waiting"
    /\ lock[finish[f].lobby] = NoTask
    /\ EnterFinish(f, finish[f].lobby, finish[f].source)

FinishRefunds(f, u) ==
    /\ finish[f].pc = "refunding"
    /\ u \in finish[f].left
    /\ Owes(finish[f].lobby, u, -1)
    /\ finish' = [finish EXCEPT ![f].left = @ \ {u}]
    /\ UNCHANGED <<registryVars, race, lobby, lock, opener, join, cleanup, settled, pot>>

Ended(l) ==
    lobby' = [lobby EXCEPT ![l] = [lobby[l] EXCEPT !.ended = TRUE, !.starting = FALSE,
                                                   !.started = FALSE, !.created = FALSE]]

FinishCancels(f) ==
    /\ finish[f].pc = "refunding"
    /\ finish[f].left = {}
    /\ Ended(finish[f].lobby)
    /\ ReleaseRegistry(finish[f].lobby)
    /\ FinishAt(f, "closing")
    /\ UNCHANGED <<race, lock, opener, join, cleanup, net, settled, pot>>

\* The lobby's message is edited; then whatever race the guild has is dropped.
FinishCloses(f) ==
    /\ finish[f].pc = "closing"
    /\ race' = NoLobby
    /\ FinishEnds(f)
    /\ UNCHANGED <<registryVars, lobby, lock, opener, join, cleanup, net, settled, pot>>

\* The games played are recorded player by player before the race is started.
FinishStarts(f) ==
    /\ finish[f].pc = "prelude"
    /\ lobby' = [lobby EXCEPT ![finish[f].lobby] =
                   [lobby[finish[f].lobby] EXCEPT !.starting = TRUE, !.started = TRUE]]
    /\ FinishAt(f, "started")
    /\ UNCHANGED <<registryVars, race, lock, opener, join, cleanup, net, settled, pot>>

FinishRaces(f) ==
    /\ finish[f].pc = "started"
    /\ lobby' = [lobby EXCEPT ![finish[f].lobby].starting = FALSE]
    /\ FinishAt(f, "racing")
    /\ UNCHANGED <<registryVars, race, lock, opener, join, cleanup, net, settled, pot>>

\* Each tick looks whether the race was ended.  Mutant: it does not.
NeverEnded(l) == TRUE
StillRacing(l) == ~lobby[l].ended

\* The loop finds that another handler ended the race.
FinishFindsEnd(f) ==
    /\ finish[f].pc = "racing"
    /\ ~StillRacing(finish[f].lobby)
    /\ StartRefused(finish[f].source)
    /\ FinishEnds(f)
    /\ UNCHANGED <<registryVars, race, lock, opener, join, cleanup, net, settled, pot>>

\* The last tick: the pot is an entry of each locked player.  A race takes a
\* second and then ticks of two seconds.  Only a join that a refused button let
\* in again holds the lock meanwhile, and it is saved long before the last tick,
\* unless JoinsOutlastRaces.
FinishSettles(f) ==
    LET l == finish[f].lobby
    IN  /\ finish[f].pc = "racing"
        /\ StillRacing(l)
        /\ JoinsOutlastRaces \/ LockAtOnce(l)
        /\ lobby' = [lobby EXCEPT ![l].ended = TRUE, ![l].starting = FALSE]
        /\ settled' = [settled EXCEPT ![l] = @ + 1]
        /\ pot' = [pot EXCEPT ![l] = lobby[l].locked]
        /\ FinishAt(f, "paying")
        /\ UNCHANGED <<registryVars, race, lock, opener, join, cleanup, net>>

\* The prizes are paid and the result is shown; then the reservation is given
\* up and whatever race the guild has is dropped.
FinishPays(f) ==
    /\ finish[f].pc = "paying"
    /\ ReleaseRegistry(finish[f].lobby)
    /\ lobby' = [lobby EXCEPT ![finish[f].lobby].created = FALSE]
    /\ race' = NoLobby
    /\ FinishEnds(f)
    /\ UNCHANGED <<lock, opener, join, cleanup, net, settled, pot>>

-----------------------------------------------------------------------------
(* _cleanup_stale_race_session: a lobby that lasted too long. *)

CleanupAt(l, pc, left) == cleanup' = [cleanup EXCEPT ![l] = [pc |-> pc, left |-> left]]

CleanupCancels(l) ==
    /\ Ended(l)
    /\ ReleaseRegistry(l)
    /\ CleanupAt(l, "closing", {})
    /\ UNCHANGED <<race, lock, opener, join, finish, net, settled, pot>>

\* The players to refund are read once.
CleanupStarts(l) ==
    /\ cleanup[l].pc = "spawned"
    /\ IF EntriesToRefund(l) = {}
         THEN CleanupCancels(l)
         ELSE /\ CleanupAt(l, "refunding", EntriesToRefund(l))
              /\ UNCHANGED <<registryVars, race, lobby, lock, opener, join, finish, net,
                             settled, pot>>

CleanupRefunds(l, u) ==
    /\ cleanup[l].pc = "refunding"
    /\ u \in cleanup[l].left
    /\ Owes(l, u, -1)
    /\ CleanupAt(l, "refunding", cleanup[l].left \ {u})
    /\ UNCHANGED <<registryVars, race, lobby, lock, opener, join, finish, settled, pot>>

CleanupEnds(l) ==
    /\ cleanup[l].pc = "refunding"
    /\ cleanup[l].left = {}
    /\ CleanupCancels(l)

CleanupCloses(l) ==
    /\ cleanup[l].pc = "closing"
    /\ CleanupAt(l, "done", {})
    /\ race' = NoLobby
    /\ UNCHANGED <<registryVars, lobby, lock, opener, join, finish, net, settled, pot>>

-----------------------------------------------------------------------------
(* Another game over the same registry, of two (truco), keeps its users busy. *)

OtherOpens(o, u) ==
    /\ CreatePending(o, Guild, u, {}, "none")
    /\ UNCHANGED <<race, lobby, lock, opener, join, finish, cleanup, net, settled, pot>>

\* It begins with its players, who count for the guild's limit.
OtherPlays(o, players) ==
    /\ Cardinality(players) = 2
    /\ {u \in Users : userSession[u] = o} \subseteq players
    /\ Activate(o, players, "none")
    /\ UNCHANGED <<race, lobby, lock, opener, join, finish, cleanup, net, settled, pot>>

OtherCloses(o) ==
    /\ Release(o)
    /\ UNCHANGED <<race, lobby, lock, opener, join, finish, cleanup, net, settled, pot>>

Environment ==
    \/ LookupDropsRace
    \/ \E l \in Lobbies : GoesOverdue(l) \/ TrucoReapsLease(l)
    \/ \E l \in Lobbies, u \in Users : Trigger(l, u)
    \/ \E j \in Joins, l \in Lobbies, u \in Users : JoinPress(j, l, u)
    \/ \E f \in Finishes, l \in Lobbies : PressStart(f, l)
    \/ \E o \in OtherGames : OtherCloses(o) \/ \E u \in Users : OtherOpens(o, u)
    \/ \E o \in OtherGames, players \in SUBSET Users : OtherPlays(o, players)

OpenerStep(l) ==
    \/ OpenerGivesUp(l) \/ OpenerPays(l) \/ OpenerReserves(l) \/ OpenerRefused(l)
    \/ OpenerPosts(l) \/ OpenerPostFails(l) \/ OpenerRefunds(l) \/ OpenerWithdraws(l)
JoinStep(j) ==
    \/ JoinGivesUp(j) \/ JoinConfirms(j) \/ JoinGetsLock(j)
    \/ JoinReserves(j) \/ JoinRefused(j) \/ JoinRefunds(j)
FinishStep(f) ==
    \/ FinishGetsLock(f) \/ FinishCancels(f) \/ FinishCloses(f) \/ FinishStarts(f)
    \/ FinishRaces(f) \/ FinishFindsEnd(f) \/ FinishSettles(f) \/ FinishPays(f)
    \/ \E u \in Users : FinishRefunds(f, u)
CleanupStep(l) ==
    \/ CleanupStarts(l) \/ CleanupEnds(l) \/ CleanupCloses(l)
    \/ \E u \in Users : CleanupRefunds(l, u)
TimeoutStep == \E f \in Finishes, l \in Lobbies : ViewTimesOut(f, l)

Next ==
    \/ Environment
    \/ \E l \in Lobbies : OpenerStep(l) \/ CleanupStep(l)
    \/ \E j \in Joins : JoinStep(j)
    \/ \E f \in Finishes : FinishStep(f)
    \/ TimeoutStep

Spec == Init /\ [][Next]_vars

\* The event loop runs every handler that can run, a view always times out, and
\* an asyncio.Lock is given to its waiters in the order they came.
Fairness ==
    /\ \A l \in Lobbies : WF_vars(OpenerStep(l)) /\ WF_vars(CleanupStep(l))
    /\ \A j \in Joins : WF_vars(JoinStep(j)) /\ SF_vars(JoinGetsLock(j))
    /\ \A f \in Finishes : WF_vars(FinishStep(f)) /\ SF_vars(FinishGetsLock(f))
    /\ WF_vars(TimeoutStep)
FairSpec == Spec /\ Fairness
-----------------------------------------------------------------------------
Quiet(l) ==
    /\ opener[l] \in {"none", "open", "done"}
    /\ cleanup[l].pc \in {"none", "done"}
    /\ \A j \in Joins : join[j].lobby # l
    /\ \A f \in Finishes : finish[f].lobby # l

\* What the players of a lobby paid is in the pot that was shared out, or they
\* have it back: once nothing is under way for a lobby and it is no longer the
\* guild's race, nothing else can ever find it.
NoStrandedEntry ==
    \A l \in Lobbies : Quiet(l) /\ race # l =>
        \A u \in Users : net[l][u] = IF u \in pot[l] THEN 1 ELSE 0

\* Nobody ever gets back more than was taken, and nobody is charged twice.
EntryTakenOnce == \A l \in Lobbies, u \in Users : net[l][u] \in 0..1

\* A race is settled at most once, and never after its entries were given back.
SettledOnce ==
    \A l \in Lobbies :
        /\ settled[l] <= 1
        /\ settled[l] = 1 => \A u \in pot[l] : net[l][u] = 1

\* A player of the guild's open lobby cannot be in another game meanwhile,
\* unless the lobby outlasted its lease.
PlayersReserved ==
    \A l \in Lobbies : Seen(l) =>
        \A u \in lobby[l].locked : userSession[u] = l

\* Nothing keeps a user reserved for a lobby that is gone.
NoLeakedLease ==
    \A l \in Lobbies : Quiet(l) /\ race # l => l \notin Live

\* Both: the registry keeps a lobby's players for as long as the lobby has them.
ReservedWhileInLobby == PlayersReserved /\ NoLeakedLease

\* Every entry that is taken is eventually given back or raced for.
EntriesSettle ==
    \A l \in Lobbies, u \in Users :
        net[l][u] = 1 ~> net[l][u] = 0 \/ u \in pot[l]
=============================================================================
