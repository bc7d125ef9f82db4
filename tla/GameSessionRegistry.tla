------------------------ MODULE GameSessionRegistry ------------------------
(***************************************************************************)
(* The process-wide reservation registry of interactive games              *)
(* (cogs/games/services/session_registry.py).  The registry keeps three    *)
(* indexes that must agree: the leases by session id, the session that     *)
(* holds each user, and the active users of each guild.  Every method runs *)
(* under one asyncio lock with no await inside, so a method is one action; *)
(* calls of different games interleave freely.                             *)
(***************************************************************************)
EXTENDS Naturals, FiniteSets

CONSTANTS Sessions, Users, Guilds, MaxActive, NoLease,
          NoSession   \* a user with no entry in _user_sessions

ASSUME UsersFinite == IsFiniteSet(Users)
ASSUME MaxActiveAssumption == MaxActive \in Nat \ {0}
ASSUME NoSessionAssumption == NoSession \notin Sessions

Deadline == {"none", "running", "passed"}
Lease == [guild: Guilds, reserved: SUBSET Users, active: SUBSET Users,
          state: {"pending", "active"}, deadline: Deadline]

ASSUME NoLeaseAssumption == NoLease \notin Lease

VARIABLES sessions,      \* _sessions: the lease of each session id
          userSession,   \* _user_sessions: the session that reserves a user
          guildActive    \* _guild_active_users: the active users of a guild
registryVars == <<sessions, userSession, guildActive>>

RegistryTypeOK ==
    /\ sessions \in [Sessions -> Lease \cup {NoLease}]
    /\ userSession \in [Users -> Sessions \cup {NoSession}]
    /\ guildActive \in [Guilds -> SUBSET Users]

RegistryInit ==
    /\ sessions = [s \in Sessions |-> NoLease]
    /\ userSession = [u \in Users |-> NoSession]
    /\ guildActive = [g \in Guilds |-> {}]

Live == {s \in Sessions : sessions[s] # NoLease}
Expired == {s \in Live : sessions[s].deadline = "passed"}

\* The owner and everyone the session will need hold no other reservation.
AllFree(owner, needed) == \A u \in {owner} \cup needed : userSession[u] = NoSession

PendingLease(g, owner, deadline) ==
    [guild |-> g, reserved |-> {owner}, active |-> {}, state |-> "pending",
     deadline |-> deadline]

\* create_pending: the owner is reserved; the users it needs free are only
\* looked at.  A refusal changes nothing.
CreatePending(s, g, owner, needed, deadline) ==
    /\ s \notin Live
    /\ AllFree(owner, needed)
    /\ Cardinality(guildActive[g]) < MaxActive
    /\ sessions' = [sessions EXCEPT ![s] = PendingLease(g, owner, deadline)]
    /\ userSession' = [userSession EXCEPT ![owner] = s]
    /\ UNCHANGED guildActive

\* The callers only ever add players to a session: a race passes the players
\* already locked plus the new one, a truco game activates once with both.
CallerGrowsPlayers(s, players) == sessions[s].active \subseteq players

\* Mutant: users held by another session are taken over.
Anyone(s, players) == TRUE
NotElsewhere(s, players) == \A u \in players : userSession[u] \in {NoSession, s}

\* Mutant: the guild is looked at before the new players are counted.
RoomBefore(g, players) == Cardinality(guildActive[g]) < MaxActive
RoomFor(g, players) ==
    Cardinality(guildActive[g]) + Cardinality(players \ guildActive[g]) <= MaxActive

\* activate: the whole set becomes the session's players, or nothing changes.
MayActivate(s, players) ==
    /\ s \in Live
    /\ NotElsewhere(s, players)
    /\ RoomFor(sessions[s].guild, players)

Activate(s, players, deadline) ==
    /\ MayActivate(s, players)
    /\ CallerGrowsPlayers(s, players)
    /\ guildActive' = [guildActive EXCEPT ![sessions[s].guild] = @ \cup players]
    /\ userSession' = [u \in Users |-> IF u \in players THEN s ELSE userSession[u]]
    /\ sessions' = [sessions EXCEPT ![s] =
                      [sessions[s] EXCEPT !.reserved = @ \cup players,
                                          !.active = players,
                                          !.state = "active",
                                          !.deadline = deadline]]

Touch(s, deadline) ==
    /\ s \in Live
    /\ sessions' = [sessions EXCEPT ![s] = [sessions[s] EXCEPT !.deadline = deadline]]
    /\ UNCHANGED <<userSession, guildActive>>

\* _release_locked, user index: the reserved users that still point at a
\* released session become free.
UsersFreed(gone) ==
    {u \in Users : \E s \in gone : u \in sessions[s].reserved /\ userSession[u] = s}

\* _release_locked, guild index: the active users leave their guild.  Mutant:
\* only while the session's deadline still runs.
PlayersLeftInTime(gone, g) ==
    {u \in Users : \E s \in gone : /\ sessions[s].guild = g
                                   /\ sessions[s].deadline # "passed"
                                   /\ u \in sessions[s].active}
PlayersLeft(gone, g) ==
    {u \in Users : \E s \in gone : sessions[s].guild = g /\ u \in sessions[s].active}

\* _release_locked of every session in "gone".
ReleaseLocked(gone) ==
    /\ sessions' = [s \in Sessions |-> IF s \in gone THEN NoLease ELSE sessions[s]]
    /\ userSession' = [u \in Users |->
                         IF u \in UsersFreed(gone) THEN NoSession ELSE userSession[u]]
    /\ guildActive' = [g \in Guilds |-> guildActive[g] \ PlayersLeft(gone, g)]

Release(s) == s \in Live /\ ReleaseLocked({s})

CleanupExpired == Expired # {} /\ ReleaseLocked(Expired)

\* The monotonic clock passes the deadline of a lease.
DeadlinePasses(s) ==
    /\ s \in Live
    /\ sessions[s].deadline = "running"
    /\ sessions' = [sessions EXCEPT ![s] = [sessions[s] EXCEPT !.deadline = "passed"]]
    /\ UNCHANGED <<userSession, guildActive>>

\* _deadline: no ttl, or at least one second ahead.
Ttl == {"none", "running"}

RegistryNext ==
    \/ \E s \in Sessions, g \in Guilds, owner \in Users, needed \in SUBSET Users,
          deadline \in Ttl : CreatePending(s, g, owner, needed, deadline)
    \/ \E s \in Sessions, players \in SUBSET Users, deadline \in Ttl :
          Activate(s, players, deadline)
    \/ \E s \in Sessions, deadline \in Ttl : Touch(s, deadline)
    \/ \E s \in Sessions : Release(s)
    \/ CleanupExpired
    \/ \E s \in Sessions : DeadlinePasses(s)

RegistrySpec == RegistryInit /\ [][RegistryNext]_registryVars
-----------------------------------------------------------------------------
\* The user index and the leases agree in both directions: an entry that
\* outlives its lease would keep a user out of every game for ever, a missing
\* one would let a user play two games at once.
UserIndexAgrees ==
    \A u \in Users, s \in Sessions :
        userSession[u] = s <=> s \in Live /\ u \in sessions[s].reserved

\* The guild index is exactly the players of the guild's live sessions: the
\* counter that admits new games neither leaks nor forgets a player.
GuildIndexAgrees ==
    \A g \in Guilds, u \in Users :
        u \in guildActive[g] <=>
            \E s \in Live : sessions[s].guild = g /\ u \in sessions[s].active

\* Both indexes, which every call changes together with the leases.
IndexesAgree == UserIndexAgrees /\ GuildIndexAgrees

\* A session's players are among the users it reserves.
LeaseCoversPlayers == \A s \in Live : sessions[s].active \subseteq sessions[s].reserved

\* A guild never has more players than its limit.
GuildCap == \A g \in Guilds : Cardinality(guildActive[g]) <= MaxActive

\* A user changes sessions only by being free in between: no call hands a user
\* of a live session over to another one.
NoStealing ==
    [][\A u \in Users : userSession[u] # NoSession =>
          userSession'[u] \in {userSession[u], NoSession}]_registryVars

\* The indexed registry implements the promise stated over leases alone.
Promise == INSTANCE SessionLeases WITH leases <- sessions
ImplementsLeases == Promise!Spec
=============================================================================
