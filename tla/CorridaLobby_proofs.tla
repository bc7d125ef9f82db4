---------------------- MODULE CorridaLobby_proofs ----------------------
(***************************************************************************)
(* Theorems about the session registry and about the race lobbies over it, *)
(* for every set of sessions, users, guilds, lobbies and handlers and      *)
(* every limit.                                                            *)
(*                                                                         *)
(* The registry: its three indexes agree (RegistryIInv, which is           *)
(* inductive); the guild cap and the refinement of SessionLeases follow.   *)
(*                                                                         *)
(* The lobby: LobbyInv(l) is what holds of one lobby between any two       *)
(* awaits: whose entries it has at each stage (EntriesHeld), who holds its *)
(* lock (LockHeld), that one handler alone decides it (DecidedAlone) and   *)
(* that it ends once (EndsOnce).  A step is about one lobby; for the       *)
(* others it is an Aside, which keeps LobbyInv (AsideKeeps).  So the proof *)
(* has a lemma per action that says what it changes (...Effect), one per   *)
(* handler that it leaves the other lobbies aside, and one that it keeps   *)
(* LobbyInv of its own (...Inv).  One kind of step is neither: a refused   *)
(* start button clears "starting" on whatever race is current.  Where it   *)
(* takes the mark from a race that is being decided, entries are given     *)
(* back twice; the theorems either assume that it never does (MarksKept),  *)
(* or are about a guild whose only race it is (OneLobby), where it cannot. *)
(***************************************************************************)
EXTENDS CorridaLobby, FiniteSetTheorems, TLAPS

RegistryIInv ==
    /\ RegistryTypeOK
    /\ UserIndexAgrees
    /\ GuildIndexAgrees
    /\ LeaseCoversPlayers

-----------------------------------------------------------------------------
\* A record update of a lease is a lease again, with the fields it names.
LEMMA UpdatedLease ==
    ASSUME NEW l \in Lease, NEW players \in SUBSET Users, NEW deadline \in Deadline
    PROVE  LET m == [l EXCEPT !.reserved = @ \cup players, !.active = players,
                              !.state = "active", !.deadline = deadline]
           IN  /\ m \in Lease
               /\ m.guild = l.guild
               /\ m.reserved = l.reserved \cup players
               /\ m.active = players
BY DEF Lease

LEMMA UpdatedDeadline ==
    ASSUME NEW l \in Lease, NEW deadline \in Deadline
    PROVE  LET m == [l EXCEPT !.deadline = deadline]
           IN  /\ m \in Lease
               /\ m.guild = l.guild
               /\ m.reserved = l.reserved
               /\ m.active = l.active
BY DEF Lease

\* Adding to a finite set what it lacks adds up the cardinalities.
LEMMA UnionCardinality ==
    ASSUME NEW A, NEW B, IsFiniteSet(A), IsFiniteSet(B)
    PROVE  /\ IsFiniteSet(A \cup B)
           /\ Cardinality(A \cup B) = Cardinality(A) + Cardinality(B \ A)
<1>1. IsFiniteSet(B \ A)
  BY FS_Difference
<1>2. A \cap (B \ A) = {} /\ A \cup B = A \cup (B \ A)
  OBVIOUS
<1>3. /\ IsFiniteSet(A \cup (B \ A))
      /\ Cardinality(A \cup (B \ A)) =
            Cardinality(A) + Cardinality(B \ A) - Cardinality(A \cap (B \ A))
  BY <1>1, FS_Union
<1>4. Cardinality(A \cap (B \ A)) = 0
  BY <1>2, FS_EmptySet
<1>5. Cardinality(A) \in Nat /\ Cardinality(B \ A) \in Nat
  BY <1>1, FS_CardinalityType
<1>6. /\ IsFiniteSet(A \cup B)
      /\ Cardinality(A \cup B) = Cardinality(A) + Cardinality(B \ A) - 0
  BY <1>2, <1>3, <1>4, Zenon
<1> QED
  BY <1>5, <1>6

-----------------------------------------------------------------------------
LEMMA RegistryInitIInv == RegistryInit => RegistryIInv
BY NoSessionAssumption, NoLeaseAssumption
   DEF RegistryInit, RegistryIInv, RegistryTypeOK, UserIndexAgrees, GuildIndexAgrees, LeaseCoversPlayers, Live

\* create_pending adds one lease and one entry of the user index.
LEMMA CreatePendingIInv ==
    ASSUME RegistryIInv, NEW s \in Sessions, NEW g \in Guilds, NEW owner \in Users,
           NEW needed \in SUBSET Users, NEW deadline \in Ttl,
           CreatePending(s, g, owner, needed, deadline)
    PROVE  RegistryIInv'
<1> DEFINE l == [guild |-> g, reserved |-> {owner}, active |-> {},
                 state |-> "pending", deadline |-> deadline]
<1>1. /\ l \in Lease
      /\ l.guild = g /\ l.reserved = {owner} /\ l.active = {}
  BY DEF Lease, Deadline, Ttl
<1>2. /\ sessions' = [sessions EXCEPT ![s] = l]
      /\ userSession' = [userSession EXCEPT ![owner] = s]
      /\ guildActive' = guildActive
      /\ sessions[s] = NoLease
      /\ userSession[owner] = NoSession
  BY DEF CreatePending, AllFree, PendingLease, Live
<1> HIDE DEF l
<1>3. RegistryTypeOK'
  BY <1>1, <1>2 DEF RegistryIInv, RegistryTypeOK
<1>4. UserIndexAgrees'
  BY <1>1, <1>2, NoSessionAssumption, NoLeaseAssumption
     DEF RegistryIInv, RegistryTypeOK, UserIndexAgrees, Live
<1>5. GuildIndexAgrees'
  BY <1>1, <1>2, NoLeaseAssumption DEF RegistryIInv, RegistryTypeOK, GuildIndexAgrees, Live
<1>6. LeaseCoversPlayers'
  BY <1>1, <1>2, NoLeaseAssumption DEF RegistryIInv, RegistryTypeOK, LeaseCoversPlayers, Live
<1> QED
  BY <1>3, <1>4, <1>5, <1>6 DEF RegistryIInv

\* activate reserves the players for the session and replaces its players by a
\* set that contains them: the guild index must not be left with the old ones.
LEMMA ActivateIInv ==
    ASSUME RegistryIInv, NEW s \in Sessions, NEW players \in SUBSET Users,
           NEW deadline \in Ttl, Activate(s, players, deadline)
    PROVE  RegistryIInv'
<1> DEFINE l == sessions[s]
           m == [l EXCEPT !.reserved = @ \cup players, !.active = players,
                          !.state = "active", !.deadline = deadline]
<1>1. l \in Lease /\ l # NoLease /\ l.guild \in Guilds /\ l.active \subseteq players
  BY DEF Activate, MayActivate, Live, RegistryIInv, RegistryTypeOK, Lease, CallerGrowsPlayers
<1>2. /\ m \in Lease /\ m # NoLease
      /\ m.guild = l.guild
      /\ m.reserved = l.reserved \cup players
      /\ m.active = players
  <2>1. deadline \in Deadline
    BY DEF Ttl, Deadline
  <2>2. /\ m \in Lease
        /\ m.guild = l.guild
        /\ m.reserved = l.reserved \cup players
        /\ m.active = players
    BY <1>1, <2>1, UpdatedLease
  <2> HIDE DEF m
  <2> QED
    BY <2>2, NoLeaseAssumption
<1>3. /\ sessions' = [sessions EXCEPT ![s] = m]
      /\ userSession' = [u \in Users |-> IF u \in players THEN s ELSE userSession[u]]
      /\ guildActive' = [guildActive EXCEPT ![l.guild] = @ \cup players]
      /\ \A u \in players : userSession[u] \in {NoSession, s}
  BY DEF Activate, MayActivate, NotElsewhere
<1> HIDE DEF l, m
<1>3a. l = sessions[s]
  BY DEF l
<1>4. RegistryTypeOK'
  BY <1>1, <1>2, <1>3 DEF RegistryIInv, RegistryTypeOK
<1>5. UserIndexAgrees'
  BY <1>1, <1>2, <1>3, <1>3a, NoSessionAssumption
     DEF RegistryIInv, RegistryTypeOK, UserIndexAgrees, Live
<1>6. GuildIndexAgrees'
  BY <1>1, <1>2, <1>3, <1>3a DEF RegistryIInv, RegistryTypeOK, GuildIndexAgrees, Live
<1>7. LeaseCoversPlayers'
  BY <1>1, <1>2, <1>3, <1>3a DEF RegistryIInv, RegistryTypeOK, LeaseCoversPlayers, Live
<1> QED
  BY <1>4, <1>5, <1>6, <1>7 DEF RegistryIInv

\* A new deadline leaves what the indexes speak of unchanged.
LEMMA DeadlineIInv ==
    ASSUME RegistryIInv, NEW s \in Sessions, s \in Live, NEW deadline \in Deadline,
           sessions' = [sessions EXCEPT ![s] = [sessions[s] EXCEPT !.deadline = deadline]],
           UNCHANGED <<userSession, guildActive>>
    PROVE  RegistryIInv'
<1> DEFINE l == sessions[s]
           m == [l EXCEPT !.deadline = deadline]
<1>1. l \in Lease /\ l # NoLease
  BY DEF Live, RegistryIInv, RegistryTypeOK
<1>2. /\ m \in Lease /\ m # NoLease
      /\ m.guild = l.guild /\ m.reserved = l.reserved /\ m.active = l.active
  BY <1>1, UpdatedDeadline, NoLeaseAssumption
<1>3. sessions' = [sessions EXCEPT ![s] = m] /\ l = sessions[s]
  OBVIOUS
<1> HIDE DEF l, m
<1>4. RegistryTypeOK'
  BY <1>2, <1>3 DEF RegistryIInv, RegistryTypeOK
<1>5. UserIndexAgrees'
  BY <1>1, <1>2, <1>3 DEF RegistryIInv, RegistryTypeOK, UserIndexAgrees, Live
<1>6. GuildIndexAgrees'
  BY <1>1, <1>2, <1>3 DEF RegistryIInv, RegistryTypeOK, GuildIndexAgrees, Live
<1>7. LeaseCoversPlayers'
  BY <1>1, <1>2, <1>3 DEF RegistryIInv, RegistryTypeOK, LeaseCoversPlayers, Live
<1> QED
  BY <1>4, <1>5, <1>6, <1>7 DEF RegistryIInv

\* A release takes out of the indexes exactly what the leases put in them.
\* That the guild index keeps the players of the other sessions needs that no
\* user plays in two sessions, which the user index gives.
LEMMA ReleaseIInv ==
    ASSUME RegistryIInv, NEW gone \in SUBSET Sessions, gone \subseteq Live, ReleaseLocked(gone)
    PROVE  RegistryIInv'
<1>1. RegistryTypeOK'
  BY DEF ReleaseLocked, UsersFreed, PlayersLeft, RegistryIInv, RegistryTypeOK
<1>2. /\ sessions' = [s \in Sessions |-> IF s \in gone THEN NoLease ELSE sessions[s]]
      /\ \A s \in Live : sessions[s] \in Lease
  BY DEF ReleaseLocked, Live, RegistryIInv, RegistryTypeOK
<1>3. UserIndexAgrees'
  <2> SUFFICES ASSUME NEW u \in Users, NEW s \in Sessions
               PROVE  userSession'[u] = s <=> s \in Live' /\ u \in sessions'[s].reserved
    BY DEF UserIndexAgrees
  <2>1. userSession[u] = s <=> s \in Live /\ u \in sessions[s].reserved
    BY DEF RegistryIInv, UserIndexAgrees
  <2>2. s \in Live' <=> s \in Live /\ s \notin gone
    BY <1>2 DEF Live
  <2>3. s \notin gone => sessions'[s] = sessions[s]
    BY <1>2
  <2>4. userSession'[u] = IF userSession[u] \in gone THEN NoSession ELSE userSession[u]
    BY DEF ReleaseLocked, UsersFreed, RegistryIInv, UserIndexAgrees
  <2> QED
    BY <2>1, <2>2, <2>3, <2>4, NoSessionAssumption
<1>4. GuildIndexAgrees'
  <2> SUFFICES ASSUME NEW g \in Guilds, NEW u \in Users
               PROVE  u \in guildActive'[g] <=>
                        \E s \in Live' : sessions'[s].guild = g /\ u \in sessions'[s].active
    BY DEF GuildIndexAgrees
  <2> DEFINE In(s) == sessions[s].guild = g /\ u \in sessions[s].active
  <2>1. u \in guildActive[g] <=> \E s \in Live : In(s)
    BY DEF RegistryIInv, GuildIndexAgrees
  <2>2. u \in guildActive'[g] <=> u \in guildActive[g] /\ ~ \E s \in gone : In(s)
    BY DEF ReleaseLocked, PlayersLeft, RegistryIInv, RegistryTypeOK
  <2>3. Live' = Live \ gone
    BY <1>2 DEF Live
  <2>4. \A s \in Live \ gone : sessions'[s] = sessions[s]
    BY <1>2 DEF Live
  <2>5. \A s, r \in Live : In(s) /\ In(r) => s = r
    <3> SUFFICES ASSUME NEW s \in Live, NEW r \in Live, In(s), In(r)
                 PROVE  s = r
      OBVIOUS
    <3>1. u \in sessions[s].reserved /\ u \in sessions[r].reserved
      BY DEF RegistryIInv, LeaseCoversPlayers
    <3> QED
      BY <3>1 DEF RegistryIInv, UserIndexAgrees, Live
  <2> QED
    BY <2>1, <2>2, <2>3, <2>4, <2>5
<1>5. LeaseCoversPlayers'
  BY <1>2 DEF RegistryIInv, LeaseCoversPlayers, Live
<1> QED
  BY <1>1, <1>3, <1>4, <1>5 DEF RegistryIInv

\* Every step keeps the indexes agreeing.
LEMMA RegistryNextIInv == RegistryIInv /\ [RegistryNext]_registryVars => RegistryIInv'
<1> SUFFICES ASSUME RegistryIInv, [RegistryNext]_registryVars PROVE RegistryIInv'
  OBVIOUS
<1>1. ASSUME NEW s \in Sessions, NEW g \in Guilds, NEW owner \in Users,
             NEW needed \in SUBSET Users, NEW deadline \in Ttl,
             CreatePending(s, g, owner, needed, deadline)
      PROVE  RegistryIInv'
  BY <1>1, CreatePendingIInv
<1>2. ASSUME NEW s \in Sessions, NEW players \in SUBSET Users, NEW deadline \in Ttl,
             Activate(s, players, deadline)
      PROVE  RegistryIInv'
  BY <1>2, ActivateIInv
<1>3. ASSUME NEW s \in Sessions, NEW deadline \in Ttl, Touch(s, deadline)
      PROVE  RegistryIInv'
  BY <1>3, DeadlineIInv DEF Touch, Ttl, Deadline
<1>4. ASSUME NEW s \in Sessions, Release(s) PROVE RegistryIInv'
  BY <1>4, ReleaseIInv DEF Release
<1>5. CASE CleanupExpired
  <2>1. Expired \in SUBSET Sessions /\ Expired \subseteq Live
    BY DEF Expired, Live
  <2> QED
    BY <1>5, <2>1, ReleaseIInv DEF CleanupExpired
<1>6. ASSUME NEW s \in Sessions, DeadlinePasses(s) PROVE RegistryIInv'
  BY <1>6, DeadlineIInv DEF DeadlinePasses, Deadline
<1>7. CASE UNCHANGED registryVars
  BY <1>7 DEF registryVars, RegistryIInv, RegistryTypeOK, UserIndexAgrees, GuildIndexAgrees, LeaseCoversPlayers, Live
<1> QED
  BY <1>1, <1>2, <1>3, <1>4, <1>5, <1>6, <1>7 DEF RegistryNext

-----------------------------------------------------------------------------
\* The three indexes of the registry agree in every reachable state.
THEOREM IndexesFollowLeases == RegistrySpec => [](RegistryTypeOK /\ IndexesAgree)
<1>1. RegistryIInv => RegistryTypeOK /\ IndexesAgree
  BY DEF RegistryIInv, IndexesAgree
<1> QED
  BY <1>1, RegistryInitIInv, RegistryNextIInv, PTL DEF RegistrySpec

\* A user who is held is kept or let go, by every call.
LEMMA StepStealsNobody ==
    ASSUME RegistryIInv, [RegistryNext]_registryVars, NEW u \in Users, userSession[u] # NoSession
    PROVE  userSession'[u] \in {userSession[u], NoSession}
<1>1. ASSUME NEW s \in Sessions, NEW g \in Guilds, NEW owner \in Users,
             NEW needed \in SUBSET Users, NEW deadline \in Ttl,
             CreatePending(s, g, owner, needed, deadline)
      PROVE  userSession'[u] = userSession[u]
  BY <1>1 DEF CreatePending, AllFree, RegistryIInv, RegistryTypeOK
<1>2. ASSUME NEW s \in Sessions, NEW players \in SUBSET Users, NEW deadline \in Ttl,
             Activate(s, players, deadline)
      PROVE  userSession'[u] = userSession[u]
  BY <1>2 DEF Activate, MayActivate, NotElsewhere, RegistryIInv, RegistryTypeOK
<1>3. ASSUME NEW gone \in SUBSET Sessions, ReleaseLocked(gone)
      PROVE  userSession'[u] \in {userSession[u], NoSession}
  BY <1>3 DEF ReleaseLocked
<1>4. ASSUME NEW s \in Sessions, Release(s)
      PROVE  userSession'[u] \in {userSession[u], NoSession}
  BY <1>3, <1>4 DEF Release
<1>5. CASE CleanupExpired
  BY <1>3, <1>5 DEF CleanupExpired, Expired, Live
<1>6. ASSUME NEW s \in Sessions,
             DeadlinePasses(s) \/ (\E deadline \in Ttl : Touch(s, deadline))
      PROVE  userSession'[u] = userSession[u]
  BY <1>6 DEF DeadlinePasses, Touch
<1>7. CASE UNCHANGED registryVars
  BY <1>7 DEF registryVars
<1> QED
  BY <1>1, <1>2, <1>4, <1>5, <1>6, <1>7 DEF RegistryNext

\* No call of the registry takes a user from one game to another.
THEOREM NobodyIsStolen == RegistrySpec => NoStealing
<1>1. RegistryIInv /\ [RegistryNext]_registryVars =>
        [\A u \in Users : userSession[u] # NoSession =>
            userSession'[u] \in {userSession[u], NoSession}]_registryVars
  BY StepStealsNobody
<1> QED
  BY <1>1, RegistryInitIInv, RegistryNextIInv, PTL DEF RegistrySpec, NoStealing

\* The limit of a guild: a pending session does not count, and activate admits
\* only as many new players as the guild index leaves room for.
LEMMA NextGuildCap == RegistryIInv /\ GuildCap /\ [RegistryNext]_registryVars => GuildCap'
<1> SUFFICES ASSUME RegistryIInv, GuildCap, [RegistryNext]_registryVars, NEW g \in Guilds
             PROVE  Cardinality(guildActive'[g]) <= MaxActive
  BY DEF GuildCap
<1>1. /\ guildActive[g] \subseteq Users
      /\ IsFiniteSet(guildActive[g])
      /\ Cardinality(guildActive[g]) \in Nat
      /\ Cardinality(guildActive[g]) <= MaxActive
  BY UsersFinite, FS_Subset, FS_CardinalityType DEF GuildCap, RegistryIInv, RegistryTypeOK
\* A guild index that only lost players is still within the limit.
<1>2. ASSUME guildActive'[g] \subseteq guildActive[g]
      PROVE  Cardinality(guildActive'[g]) <= MaxActive
  <2>1. /\ Cardinality(guildActive'[g]) <= Cardinality(guildActive[g])
        /\ IsFiniteSet(guildActive'[g])
    BY <1>1, <1>2, FS_Subset
  <2>2. Cardinality(guildActive'[g]) \in Nat
    BY <2>1, FS_CardinalityType
  <2> QED
    BY <1>1, <2>1, <2>2, MaxActiveAssumption
<1>3. ASSUME NEW s \in Sessions, NEW players \in SUBSET Users, NEW deadline \in Ttl,
             Activate(s, players, deadline), sessions[s].guild = g
      PROVE  Cardinality(guildActive'[g]) <= MaxActive
  <2>1. /\ Cardinality(guildActive[g]) + Cardinality(players \ guildActive[g]) <= MaxActive
        /\ guildActive'[g] = guildActive[g] \cup players
    BY <1>3 DEF Activate, MayActivate, RoomFor, RegistryIInv, RegistryTypeOK
  <2>2. IsFiniteSet(players)
    BY UsersFinite, FS_Subset
  <2>3. Cardinality(guildActive[g] \cup players)
          = Cardinality(guildActive[g]) + Cardinality(players \ guildActive[g])
    BY <1>1, <2>2, UnionCardinality
  <2> QED
    BY <2>1, <2>3
<1>4. ASSUME NEW s \in Sessions, NEW players \in SUBSET Users, NEW deadline \in Ttl,
             Activate(s, players, deadline), sessions[s].guild # g
      PROVE  guildActive'[g] \subseteq guildActive[g]
  BY <1>4 DEF Activate, MayActivate, RegistryIInv, RegistryTypeOK
<1>5. ASSUME NEW gone \in SUBSET Sessions, ReleaseLocked(gone)
      PROVE  guildActive'[g] \subseteq guildActive[g]
  BY <1>5 DEF ReleaseLocked, RegistryIInv, RegistryTypeOK
<1>6. CASE \E s \in Sessions, players \in SUBSET Users, deadline \in Ttl :
              Activate(s, players, deadline)
  BY <1>2, <1>3, <1>4, <1>6
<1>7. CASE (\E s \in Sessions : Release(s)) \/ CleanupExpired
  BY <1>2, <1>5, <1>7 DEF Release, CleanupExpired, Expired, Live
<1>8. CASE UNCHANGED guildActive
  BY <1>2, <1>8
<1> QED
  BY <1>6, <1>7, <1>8 DEF RegistryNext, registryVars, CreatePending, Touch, DeadlinePasses

\* No guild ever has more players than its limit.
THEOREM ActivePlayersBounded == RegistrySpec => []GuildCap
<1>1. RegistryInit => GuildCap
  BY MaxActiveAssumption, FS_EmptySet DEF RegistryInit, GuildCap
<1> QED
  BY <1>1, RegistryInitIInv, RegistryNextIInv, NextGuildCap, PTL DEF RegistrySpec

-----------------------------------------------------------------------------
\* The two modules extend FiniteSets separately; their Cardinality is the same.
LEMMA SameCardinality == \A S : Promise!Cardinality(S) = Cardinality(S)
BY DEF Promise!Cardinality, Cardinality, Promise!IsFiniteSet, IsFiniteSet

\* Under the invariant each index says what the leases say.
LEMMA IndexMeaning ==
    ASSUME RegistryIInv
    PROVE  /\ Promise!Live = Live
           /\ \A g \in Guilds : Promise!Playing(g) = guildActive[g]
           /\ \A u \in Users, r \in Live :
                 u \in Promise!ReservedBy(r) <=> userSession[u] = r
<1>1. Promise!Live = Live
  BY DEF Promise!Live, Live
<1>2. ASSUME NEW g \in Guilds PROVE Promise!Playing(g) = guildActive[g]
  BY <1>1 DEF Promise!Playing, RegistryIInv, RegistryTypeOK, GuildIndexAgrees
<1>3. ASSUME NEW u \in Users, NEW r \in Live
      PROVE  u \in Promise!ReservedBy(r) <=> userSession[u] = r
  BY DEF Promise!ReservedBy, RegistryIInv, UserIndexAgrees, Live
<1> QED
  BY <1>1, <1>2, <1>3

\* Every step of the indexed registry is a step of the promise, or a stutter.
LEMMA StepRefines == RegistryIInv /\ [RegistryNext]_registryVars => [Promise!Next]_(Promise!vars)
<1> SUFFICES ASSUME RegistryIInv, [RegistryNext]_registryVars PROVE [Promise!Next]_(Promise!vars)
  OBVIOUS
<1>1. ASSUME NEW s \in Sessions, NEW g \in Guilds, NEW owner \in Users,
             NEW needed \in SUBSET Users, NEW deadline \in Ttl,
             CreatePending(s, g, owner, needed, deadline)
      PROVE  Promise!Next
  <2>1. /\ s \notin Promise!Live
        /\ Cardinality(Promise!Playing(g)) < MaxActive
    BY <1>1, IndexMeaning DEF CreatePending
  <2>2. userSession[owner] = NoSession
    BY <1>1 DEF CreatePending, AllFree
  <2>3. \A r \in Promise!Live : owner \notin Promise!ReservedBy(r)
    <3> SUFFICES ASSUME NEW r \in Live PROVE owner \notin Promise!ReservedBy(r)
      BY IndexMeaning
    <3>1. r \in Sessions
      BY DEF Live
    <3> QED
      BY <2>2, <3>1, IndexMeaning, NoSessionAssumption
  <2>4. Promise!Open(s, g, owner, deadline)
    BY <1>1, <2>1, <2>3, SameCardinality DEF Promise!Open, CreatePending, PendingLease
  <2>5. deadline \in Promise!Deadline
    BY DEF Ttl, Promise!Deadline
  <2> QED
    BY <2>4, <2>5 DEF Promise!Next
<1>2. ASSUME NEW s \in Sessions, NEW players \in SUBSET Users, NEW deadline \in Ttl,
             Activate(s, players, deadline)
      PROVE  Promise!Next
  <2>1. /\ s \in Live
        /\ sessions[s].guild \in Guilds
        /\ sessions[s].active \subseteq players
        /\ \A u \in players : userSession[u] \in {NoSession, s}
    BY <1>2 DEF Activate, MayActivate, CallerGrowsPlayers, NotElsewhere, RegistryIInv, RegistryTypeOK, Live, Lease
  <2>2. \A r \in Promise!Live \ {s} : players \cap Promise!ReservedBy(r) = {}
    <3> SUFFICES ASSUME NEW r \in Live, r # s, NEW u \in players
                 PROVE  u \notin Promise!ReservedBy(r)
      BY IndexMeaning
    <3>1. r \in Sessions
      BY DEF Live
    <3> QED
      BY <2>1, <3>1, IndexMeaning, NoSessionAssumption
  <2>3. Cardinality(Promise!Playing(sessions[s].guild) \cup players) <= MaxActive
    <3> DEFINE A == guildActive[sessions[s].guild]
    <3>1. Cardinality(A) + Cardinality(players \ A) <= MaxActive
      BY <1>2 DEF Activate, MayActivate, RoomFor
    <3>2. IsFiniteSet(A) /\ IsFiniteSet(players)
      BY <2>1, UsersFinite, FS_Subset DEF RegistryIInv, RegistryTypeOK
    <3>3. Cardinality(A \cup players) <= MaxActive
      BY <3>1, <3>2, UnionCardinality
    <3> QED
      BY <2>1, <3>3, IndexMeaning
  <2>4. Promise!Activate(s, players, deadline)
    BY <1>2, <2>1, <2>2, <2>3, IndexMeaning, SameCardinality DEF Promise!Activate, Activate, MayActivate, CallerGrowsPlayers
  <2>5. deadline \in Promise!Deadline
    BY DEF Ttl, Promise!Deadline
  <2> QED
    BY <2>4, <2>5 DEF Promise!Next
<1>3. ASSUME NEW s \in Live, NEW deadline \in Deadline,
             sessions' = [sessions EXCEPT ![s] = [sessions[s] EXCEPT !.deadline = deadline]]
      PROVE  Promise!Next
  <2>1. Promise!SetDeadline(s, deadline)
    BY <1>3, IndexMeaning DEF Promise!SetDeadline
  <2> QED
    BY <2>1 DEF Promise!Next, Promise!Deadline, Deadline, Live
<1>4. ASSUME NEW gone \in SUBSET Sessions, gone \subseteq Live, ReleaseLocked(gone)
      PROVE  Promise!Next
  <2>1. Promise!Close(gone)
    BY <1>4, IndexMeaning DEF Promise!Close, ReleaseLocked
  <2> QED
    BY <2>1 DEF Promise!Next
<1>5. CASE \E s \in Sessions, deadline \in Ttl : Touch(s, deadline)
  BY <1>3, <1>5 DEF Touch, Ttl, Deadline
<1>6. CASE \E s \in Sessions : DeadlinePasses(s)
  BY <1>3, <1>6 DEF DeadlinePasses, Deadline
<1>7. CASE (\E s \in Sessions : Release(s)) \/ CleanupExpired
  BY <1>4, <1>7 DEF Release, CleanupExpired, Expired, Live
<1>8. CASE UNCHANGED registryVars
  BY <1>8 DEF registryVars, Promise!vars
<1> QED
  BY <1>1, <1>2, <1>5, <1>6, <1>7, <1>8 DEF RegistryNext

\* The registry with its three indexes implements the promise over leases.
THEOREM RegistryImplementsLeases == RegistrySpec => ImplementsLeases
<1>1. RegistryInit => Promise!Init
  BY DEF RegistryInit, Promise!Init
<1> QED
  BY <1>1, RegistryInitIInv, RegistryNextIInv, StepRefines, PTL DEF RegistrySpec, ImplementsLeases, Promise!Spec

-----------------------------------------------------------------------------
JoinRecord == [pc: JoinState, user: Users \cup {NoUser}, lobby: Lobbies \cup {NoLobby}]
FinishRecord == [pc: FinishState, lobby: Lobbies \cup {NoLobby},
                 source: {"none", "button", "timeout"}, left: SUBSET Users]
CleanupRecord == [pc: CleanupState, left: SUBSET Users]

\* A handler at work has a lobby, and whoever it charges is a user.
HandlersKnown ==
    /\ \A l \in Lobbies : opener[l] # "none" => lobby[l].owner \in Users
    /\ \A j \in Joins : join[j].pc # "idle" =>
          join[j].user \in Users /\ join[j].lobby \in Lobbies
    /\ \A f \in Finishes : finish[f].pc # "idle" =>
          finish[f].lobby \in Lobbies /\ finish[f].source \in {"button", "timeout"}

\* Types, the registry's invariant, and what is known of handlers at work.
Typed == RegistryIInv /\ TypeOK /\ HandlersKnown

\* What the lobby does to the registry keeps the registry's invariant.
LEMMA RecreateIInv ==
    ASSUME RegistryIInv, NEW l \in Lobbies, NEW u \in Users, MayRecreate(l, u),
           RecreateLease(l, u)
    PROVE  RegistryIInv'
<1> DEFINE m == [guild |-> Guild, reserved |-> {u}, active |-> {u},
                 state |-> "active", deadline |-> "none"]
<1>1. m \in Lease /\ m.guild = Guild /\ m.reserved = {u} /\ m.active = {u} /\ m # NoLease
  BY GuildAssumption, NoLeaseAssumption DEF Lease, Deadline
<1>2. /\ sessions' = [sessions EXCEPT ![l] = m]
      /\ userSession' = [userSession EXCEPT ![u] = l]
      /\ guildActive' = [guildActive EXCEPT ![Guild] = @ \cup {u}]
      /\ l \in Sessions /\ sessions[l] = NoLease /\ userSession[u] = NoSession
  BY LobbiesAssumption DEF RecreateLease, MayRecreate, Live
<1> HIDE DEF m
<1>3. RegistryTypeOK'
  BY <1>1, <1>2 DEF RegistryIInv, RegistryTypeOK
<1>4. UserIndexAgrees'
  BY <1>1, <1>2, NoSessionAssumption DEF RegistryIInv, RegistryTypeOK, UserIndexAgrees, Live
<1>5. GuildIndexAgrees'
  BY <1>1, <1>2, GuildAssumption DEF RegistryIInv, RegistryTypeOK, GuildIndexAgrees, Live
<1>6. LeaseCoversPlayers'
  BY <1>1, <1>2 DEF RegistryIInv, RegistryTypeOK, LeaseCoversPlayers, Live
<1> QED
  BY <1>3, <1>4, <1>5, <1>6 DEF RegistryIInv

\* A step that calls the registry not at all leaves its invariant.
LEMMA SameIInv == RegistryIInv /\ UNCHANGED registryVars => RegistryIInv'
BY DEF registryVars, RegistryIInv, RegistryTypeOK, UserIndexAgrees, GuildIndexAgrees,
       LeaseCoversPlayers, Live

\* Every call that a lobby's handlers and the other games make of the registry
\* keeps its invariant: a step of the lobby is a registry step, or recreates a lease.
LEMMA NextRegistry == Typed /\ [Next]_vars => RegistryIInv'
<1> SUFFICES ASSUME Typed, [Next]_vars PROVE RegistryIInv'
  OBVIOUS
<1>0. RegistryIInv
  BY DEF Typed
<1>1. ASSUME NEW l \in Lobbies, ReleaseRegistry(l) PROVE RegistryIInv'
  BY <1>0, <1>1, ReleaseIInv, LobbiesAssumption DEF ReleaseRegistry, Live
<1>2. ASSUME NEW s \in Sessions, Release(s) PROVE RegistryIInv'
  BY <1>0, <1>2, ReleaseIInv DEF Release
<1>3. ASSUME NEW s \in Sessions, NEW u \in Users, CreatePending(s, Guild, u, {}, "none")
      PROVE  RegistryIInv'
  BY <1>0, <1>3, CreatePendingIInv, GuildAssumption DEF Ttl
<1>4. ASSUME NEW s \in Sessions, NEW players \in SUBSET Users, Activate(s, players, "none")
      PROVE  RegistryIInv'
  BY <1>0, <1>4, ActivateIInv DEF Ttl
<1>5. ASSUME NEW l \in Lobbies, OpenerReserves(l) PROVE RegistryIInv'
  <2>1. {lobby[l].owner} \in SUBSET Users
    BY <1>5 DEF OpenerReserves, Typed, HandlersKnown
  <2> QED
    BY <1>4, <1>5, <2>1, LobbiesAssumption DEF OpenerReserves
<1>6. ASSUME NEW j \in Joins, JoinReserves(j) PROVE RegistryIInv'
  <2>1. join[j].lobby \in Lobbies /\ join[j].user \in Users
    BY <1>6 DEF JoinReserves, Typed, HandlersKnown
  <2>2. lobby[join[j].lobby].locked \cup {join[j].user} \in SUBSET Users
    BY <2>1 DEF Typed, TypeOK, LobbyRecord
  <2> QED
    BY <1>0, <1>4, <1>6, <2>1, <2>2, RecreateIInv, LobbiesAssumption DEF JoinReserves
<1>7. ASSUME NEW f \in Finishes, FinishCancels(f) \/ FinishPays(f) PROVE RegistryIInv'
  <2>1. finish[f].lobby \in Lobbies
    BY <1>7 DEF FinishCancels, FinishPays, Typed, HandlersKnown
  <2> QED
    BY <1>1, <1>7, <2>1 DEF FinishCancels, FinishPays
<1>8. CASE Environment
  <2>1. ASSUME NEW l \in Lobbies, TrucoReapsLease(l) PROVE RegistryIInv'
    BY <1>2, <2>1, LobbiesAssumption DEF TrucoReapsLease
  <2>2. ASSUME NEW l \in Lobbies, NEW u \in Users, Trigger(l, u) PROVE RegistryIInv'
    BY <1>3, <2>2, LobbiesAssumption DEF Trigger
  <2>3. ASSUME NEW o \in OtherGames PROVE o \in Sessions
    BY DEF OtherGames
  <2>4. ASSUME NEW o \in OtherGames, OtherCloses(o) PROVE RegistryIInv'
    BY <1>2, <2>3, <2>4 DEF OtherCloses
  <2>5. ASSUME NEW o \in OtherGames, NEW u \in Users, OtherOpens(o, u) PROVE RegistryIInv'
    BY <1>3, <2>3, <2>5 DEF OtherOpens
  <2>6. ASSUME NEW o \in OtherGames, NEW players \in SUBSET Users, OtherPlays(o, players)
        PROVE  RegistryIInv'
    BY <1>4, <2>3, <2>6 DEF OtherPlays
  <2>7. CASE UNCHANGED registryVars
    BY <1>0, <2>7, SameIInv
  <2> QED
    BY <1>8, <2>1, <2>2, <2>4, <2>5, <2>6, <2>7
       DEF Environment, LookupDropsRace, GoesOverdue, JoinPress, PressStart, CallFinish,
           EnterFinish
<1>9. ASSUME NEW l \in Lobbies, OpenerStep(l) \/ CleanupStep(l) PROVE RegistryIInv'
  <2>1. CASE OpenerGivesUp(l) \/ OpenerWithdraws(l)
    BY <1>1, <2>1 DEF OpenerGivesUp, OpenerWithdraws
  <2>2. CASE CleanupStarts(l) \/ CleanupEnds(l)
    BY <1>0, <1>1, <2>2, SameIInv DEF CleanupStarts, CleanupEnds, CleanupCancels
  <2>3. CASE UNCHANGED registryVars
    BY <1>0, <2>3, SameIInv
  <2> QED
    BY <1>5, <1>9, <2>1, <2>2, <2>3
       DEF OpenerStep, CleanupStep, OpenerPays, OpenerRefused, OpenerPosts, OpenerPostFails,
           OpenerRefunds, CleanupCloses, CleanupRefunds
<1>10. ASSUME NEW j \in Joins, JoinStep(j) PROVE RegistryIInv'
  <2>1. CASE UNCHANGED registryVars
    BY <1>0, <2>1, SameIInv
  <2> QED
    BY <1>6, <1>10, <2>1
       DEF JoinStep, JoinGivesUp, JoinConfirms, JoinGetsLock, EnterJoin, JoinRefused,
           JoinRefunds
<1>11. ASSUME NEW f \in Finishes, FinishStep(f) PROVE RegistryIInv'
  <2>1. CASE UNCHANGED registryVars
    BY <1>0, <2>1, SameIInv
  <2> QED
    BY <1>7, <1>11, <2>1
       DEF FinishStep, FinishGetsLock, EnterFinish, FinishCloses, FinishStarts, FinishRaces,
           FinishFindsEnd, FinishSettles, FinishRefunds
<1>12. CASE TimeoutStep \/ UNCHANGED vars
  <2>1. UNCHANGED registryVars
    BY <1>12 DEF TimeoutStep, ViewTimesOut, CallFinish, EnterFinish, LookupDropsRace, vars
  <2> QED
    BY <1>0, <2>1, SameIInv
<1> QED
  BY <1>8, <1>9, <1>10, <1>11, <1>12 DEF Next

\* Everything a step can do to a session dict, field by field.
Become(m, owner, locked, starting, started, ended, created, overdue) ==
    /\ m \in LobbyRecord
    /\ m.owner = owner /\ m.locked = locked /\ m.starting = starting
    /\ m.started = started /\ m.ended = ended /\ m.created = created
    /\ m.overdue = overdue

\* What each update of a session dict in the code changes of it, and what not.
LEMMA StartingSet ==
    ASSUME NEW r \in LobbyRecord, NEW b \in BOOLEAN
    PROVE  Become([r EXCEPT !.starting = b], r.owner, r.locked, b, r.started, r.ended,
                  r.created, r.overdue)
BY DEF LobbyRecord, Become

LEMMA CreatedCleared ==
    ASSUME NEW r \in LobbyRecord
    PROVE  Become([r EXCEPT !.created = FALSE], r.owner, r.locked, r.starting, r.started,
                  r.ended, FALSE, r.overdue)
BY DEF LobbyRecord, Become

LEMMA OverdueSet ==
    ASSUME NEW r \in LobbyRecord
    PROVE  Become([r EXCEPT !.overdue = TRUE], r.owner, r.locked, r.starting, r.started,
                  r.ended, r.created, TRUE)
BY DEF LobbyRecord, Become

LEMMA OwnerPlays ==
    ASSUME NEW r \in LobbyRecord, NEW u \in Users
    PROVE  Become([r EXCEPT !.locked = @ \cup {u}, !.overdue = FALSE], r.owner,
                  r.locked \cup {u}, r.starting, r.started, r.ended, r.created, FALSE)
BY DEF LobbyRecord, Become

LEMMA PlayerJoins ==
    ASSUME NEW r \in LobbyRecord, NEW u \in Users
    PROVE  Become([r EXCEPT !.locked = @ \cup {u}, !.created = TRUE, !.overdue = FALSE],
                  r.owner, r.locked \cup {u}, r.starting, r.started, r.ended, TRUE, FALSE)
BY DEF LobbyRecord, Become

LEMMA LobbyEnds ==
    ASSUME NEW r \in LobbyRecord
    PROVE  Become([r EXCEPT !.ended = TRUE, !.starting = FALSE, !.started = FALSE,
                            !.created = FALSE],
                  r.owner, r.locked, FALSE, FALSE, TRUE, FALSE, r.overdue)
BY DEF LobbyRecord, Become

LEMMA RaceStarts ==
    ASSUME NEW r \in LobbyRecord
    PROVE  Become([r EXCEPT !.starting = TRUE, !.started = TRUE], r.owner, r.locked, TRUE,
                  TRUE, r.ended, r.created, r.overdue)
BY DEF LobbyRecord, Become

LEMMA RaceSettles ==
    ASSUME NEW r \in LobbyRecord
    PROVE  Become([[r EXCEPT !.ended = TRUE] EXCEPT !.starting = FALSE], r.owner, r.locked,
                  FALSE, r.started, TRUE, r.created, r.overdue)
BY DEF LobbyRecord, Become

LEMMA LobbyOpens ==
    ASSUME NEW u \in Users
    PROVE  Become([NewLobby EXCEPT !.owner = u, !.created = TRUE], u, {}, FALSE, FALSE, FALSE,
                  TRUE, FALSE)
BY DEF LobbyRecord, NewLobby, Become

-----------------------------------------------------------------------------
\* What a step did, variable by variable and entry by entry.
LobbyTurns(l, locked, starting, started, ended, created, overdue) ==
    /\ lobby' \in [Lobbies -> LobbyRecord]
    /\ \A m \in Lobbies \ {l} : lobby'[m] = lobby[m]
    /\ Become(lobby'[l], lobby[l].owner, locked, starting, started, ended, created, overdue)
OpenerTurns(l, pc) ==
    /\ opener' \in [Lobbies -> OpenerState]
    /\ \A m \in Lobbies \ {l} : opener'[m] = opener[m]
    /\ opener'[l] = pc
JoinTurns(j, pc, u, l) ==
    /\ join' \in [Joins -> JoinRecord]
    /\ \A k \in Joins \ {j} : join'[k] = join[k]
    /\ join'[j].pc = pc /\ join'[j].user = u /\ join'[j].lobby = l
FinishTurns(f, pc, l, source, left) ==
    /\ finish' \in [Finishes -> FinishRecord]
    /\ \A g \in Finishes \ {f} : finish'[g] = finish[g]
    /\ finish'[f].pc = pc /\ finish'[f].lobby = l /\ finish'[f].source = source
    /\ finish'[f].left = left
CleanupTurns(l, pc, left) ==
    /\ cleanup' \in [Lobbies -> CleanupRecord]
    /\ \A m \in Lobbies \ {l} : cleanup'[m] = cleanup[m]
    /\ cleanup'[l].pc = pc /\ cleanup'[l].left = left
LockTurns(l, holder) ==
    /\ lock' \in [Lobbies -> Joins \cup {NoTask}]
    /\ \A m \in Lobbies \ {l} : lock'[m] = lock[m]
    /\ lock'[l] = holder
NetTurns(l, u, n) ==
    /\ net' \in [Lobbies -> [Users -> Int]]
    /\ \A m \in Lobbies \ {l} : net'[m] = net[m]
    /\ net'[l] = [w \in Users |-> IF w = u THEN net[l][u] + n ELSE net[l][w]]

\* A lookup may spawn the cleanup of the race that it drops.
Spawns(m) ==
    /\ race = m /\ ~lobby[m].ended /\ lobby[m].overdue /\ cleanup[m].pc = "none"
    /\ cleanup'[m].pc = "spawned" /\ cleanup'[m].left = {}
LooksUp ==
    /\ cleanup' \in [Lobbies -> CleanupRecord]
    /\ \A m \in Lobbies : cleanup'[m] = cleanup[m] \/ Spawns(m)
DropsRace ==
    /\ race' \in {race, NoLobby}
    /\ race # NoLobby => (race' = NoLobby <=> NothingSeen)

\* Of one lobby: the types of its parts.
LEMMA LobbyTypesOf ==
    ASSUME Typed
    PROVE  /\ lobby \in [Lobbies -> LobbyRecord] /\ opener \in [Lobbies -> OpenerState]
           /\ join \in [Joins -> JoinRecord] /\ finish \in [Finishes -> FinishRecord]
           /\ cleanup \in [Lobbies -> CleanupRecord]
           /\ lock \in [Lobbies -> Joins \cup {NoTask}]
           /\ net \in [Lobbies -> [Users -> Int]] /\ settled \in [Lobbies -> Nat]
           /\ pot \in [Lobbies -> SUBSET Users] /\ race \in Lobbies \cup {NoLobby}
BY DEF Typed, TypeOK, JoinRecord, FinishRecord, CleanupRecord

\* The fields of a session dict.
LEMMA LobbyFields ==
    ASSUME Typed, NEW l \in Lobbies
    PROVE  /\ lobby[l] \in LobbyRecord
           /\ lobby[l].locked \in SUBSET Users
           /\ lobby[l].starting \in BOOLEAN /\ lobby[l].started \in BOOLEAN
           /\ lobby[l].ended \in BOOLEAN /\ lobby[l].created \in BOOLEAN
           /\ lobby[l].overdue \in BOOLEAN
BY LobbyTypesOf DEF LobbyRecord

\* Writing one entry of the lobby function.
LEMMA LobbySet ==
    ASSUME Typed, NEW l \in Lobbies, NEW r, NEW locked, NEW starting, NEW started, NEW ended,
           NEW created, NEW overdue,
           Become(r, lobby[l].owner, locked, starting, started, ended, created, overdue),
           lobby' = [lobby EXCEPT ![l] = r]
    PROVE  LobbyTurns(l, locked, starting, started, ended, created, overdue)
BY LobbyTypesOf DEF Become, LobbyTurns

\* The same for the other variables.
LEMMA OpenerSet ==
    ASSUME Typed, NEW l \in Lobbies, NEW pc \in OpenerState, OpenerAt(l, pc)
    PROVE  OpenerTurns(l, pc)
BY LobbyTypesOf DEF OpenerAt, OpenerTurns

LEMMA JoinSet ==
    ASSUME Typed, NEW j \in Joins, NEW pc \in JoinState, JoinAt(j, pc)
    PROVE  JoinTurns(j, pc, join[j].user, join[j].lobby)
BY LobbyTypesOf DEF JoinAt, JoinTurns, JoinRecord

LEMMA JoinLeaves ==
    ASSUME Typed, NEW j \in Joins, JoinEnds(j)
    PROVE  JoinTurns(j, "idle", NoUser, NoLobby)
BY LobbyTypesOf DEF JoinEnds, NoJoin, JoinTurns, JoinRecord, JoinState

LEMMA FinishSet ==
    ASSUME Typed, NEW f \in Finishes, NEW pc \in FinishState, FinishAt(f, pc)
    PROVE  FinishTurns(f, pc, finish[f].lobby, finish[f].source, finish[f].left)
BY LobbyTypesOf DEF FinishAt, FinishTurns, FinishRecord

LEMMA FinishLeaves ==
    ASSUME Typed, NEW f \in Finishes, FinishEnds(f)
    PROVE  FinishTurns(f, "idle", NoLobby, "none", {})
BY LobbyTypesOf DEF FinishEnds, NoFinish, FinishTurns, FinishRecord, FinishState

LEMMA CleanupSet ==
    ASSUME Typed, NEW l \in Lobbies, NEW pc \in CleanupState, NEW left \in SUBSET Users,
           CleanupAt(l, pc, left)
    PROVE  CleanupTurns(l, pc, left)
BY LobbyTypesOf DEF CleanupAt, CleanupTurns, CleanupRecord

LEMMA LockSet ==
    ASSUME Typed, NEW l \in Lobbies, NEW h \in Joins \cup {NoTask}, lock' = [lock EXCEPT ![l] = h]
    PROVE  LockTurns(l, h)
BY LobbyTypesOf DEF LockTurns

\* One entry is taken or given back.
LEMMA NetSet ==
    ASSUME Typed, NEW l \in Lobbies, NEW u \in Users, NEW n \in Int, Owes(l, u, n)
    PROVE  NetTurns(l, u, n)
<1>1. net \in [Lobbies -> [Users -> Int]]
  BY LobbyTypesOf
<1>2. net' = [net EXCEPT ![l] = [net[l] EXCEPT ![u] = net[l][u] + n]]
  BY DEF Owes
<1>3. [net[l] EXCEPT ![u] = net[l][u] + n]
        = [w \in Users |-> IF w = u THEN net[l][u] + n ELSE net[l][w]]
  BY <1>1
<1>4. [w \in Users |-> IF w = u THEN net[l][u] + n ELSE net[l][w]] \in [Users -> Int]
  BY <1>1
<1> DEFINE row == [w \in Users |-> IF w = u THEN net[l][u] + n ELSE net[l][w]]
<1>5. net' = [net EXCEPT ![l] = row] /\ row \in [Users -> Int]
  BY <1>2, <1>3, <1>4
<1>6. net'[l] = row /\ net' \in [Lobbies -> [Users -> Int]]
      /\ \A m \in Lobbies \ {l} : net'[m] = net[m]
  <2> HIDE DEF row
  <2> QED
    BY <1>1, <1>5
<1> QED
  BY <1>6 DEF NetTurns

\* What a lookup of the race changes.
LEMMA LookupSet ==
    ASSUME Typed, Lookup
    PROVE  LooksUp /\ DropsRace
<1>1. cleanup' \in [Lobbies -> CleanupRecord]
  BY LobbyTypesOf DEF Lookup, CleanupAfterLookup, CleanupRecord, CleanupState
<1>2. \A m \in Lobbies : cleanup'[m] = cleanup[m] \/ Spawns(m)
  BY LobbyTypesOf DEF Lookup, CleanupAfterLookup, Spawns
<1>3. DropsRace
  BY LobbyTypesOf DEF Lookup, RaceAfterLookup, DropsRace, NothingSeen, Seen
<1> QED
  BY <1>1, <1>2, <1>3 DEF LooksUp

\* The opener.
LEMMA TriggerEffect ==
    ASSUME Typed, NEW l \in Lobbies, NEW u \in Users, Trigger(l, u)
    PROVE  /\ opener[l] = "none" /\ NothingSeen /\ race' = l
           /\ lobby' \in [Lobbies -> LobbyRecord]
           /\ \A m \in Lobbies \ {l} : lobby'[m] = lobby[m]
           /\ Become(lobby'[l], u, {}, FALSE, FALSE, FALSE, TRUE, FALSE)
           /\ OpenerTurns(l, "confirming") /\ LooksUp
           /\ UNCHANGED <<lock, join, finish, net, settled, pot>>
<1>1. lobby' = [lobby EXCEPT ![l] = [NewLobby EXCEPT !.owner = u, !.created = TRUE]]
  BY DEF Trigger
<1>2. /\ lobby' \in [Lobbies -> LobbyRecord]
      /\ \A m \in Lobbies \ {l} : lobby'[m] = lobby[m]
      /\ Become(lobby'[l], u, {}, FALSE, FALSE, FALSE, TRUE, FALSE)
  BY <1>1, LobbyOpens, LobbyTypesOf DEF Become
<1>3. OpenerTurns(l, "confirming")
  BY OpenerSet DEF Trigger, OpenerState
<1>4. cleanup' \in [Lobbies -> CleanupRecord]
  BY LobbyTypesOf DEF Trigger, CleanupAfterLookup, CleanupRecord, CleanupState
<1>5. \A m \in Lobbies : cleanup'[m] = cleanup[m] \/ Spawns(m)
  BY LobbyTypesOf DEF Trigger, CleanupAfterLookup, Spawns
<1> QED
  BY <1>2, <1>3, <1>4, <1>5 DEF Trigger, LooksUp

\* A lobby that is withdrawn: by an owner who gives up, or after its refund.
LEMMA WithdrawEffect ==
    ASSUME Typed, NEW l \in Lobbies, OpenerGivesUp(l) \/ OpenerWithdraws(l)
    PROVE  /\ opener[l] \in {"confirming", "withdrawing"}
           /\ LobbyTurns(l, lobby[l].locked, lobby[l].starting, lobby[l].started,
                         lobby[l].ended, FALSE, lobby[l].overdue)
           /\ OpenerTurns(l, "done")
           /\ race' = IF race = l THEN NoLobby ELSE race
           /\ UNCHANGED <<lock, join, finish, cleanup, net, settled, pot>>
<1>1. lobby' = [lobby EXCEPT ![l] = [lobby[l] EXCEPT !.created = FALSE]]
  BY LobbyTypesOf DEF OpenerGivesUp, OpenerWithdraws
<1>2. LobbyTurns(l, lobby[l].locked, lobby[l].starting, lobby[l].started,
                 lobby[l].ended, FALSE, lobby[l].overdue)
  BY <1>1, CreatedCleared, LobbySet, LobbyFields
<1>3. OpenerTurns(l, "done")
  BY OpenerSet DEF OpenerGivesUp, OpenerWithdraws, OpenerState
<1> QED
  BY <1>2, <1>3 DEF OpenerGivesUp, OpenerWithdraws, PopIfCurrent

LEMMA OpenerPaysEffect ==
    ASSUME Typed, NEW l \in Lobbies, OpenerPays(l)
    PROVE  /\ opener[l] = "confirming" /\ OpenerTurns(l, "paid")
           /\ NetTurns(l, lobby[l].owner, 1)
           /\ UNCHANGED <<race, lobby, lock, join, finish, cleanup, settled, pot>>
<1>1. lobby[l].owner \in Users
  BY DEF OpenerPays, Typed, HandlersKnown
<1> QED
  BY <1>1, OpenerSet, NetSet DEF OpenerPays, OpenerState

LEMMA OpenerRefundsEffect ==
    ASSUME Typed, NEW l \in Lobbies, OpenerRefunds(l)
    PROVE  /\ opener[l] = "refunding" /\ OpenerTurns(l, "withdrawing")
           /\ NetTurns(l, lobby[l].owner, -1)
           /\ UNCHANGED <<race, lobby, lock, join, finish, cleanup, settled, pot>>
<1>1. lobby[l].owner \in Users
  BY DEF OpenerRefunds, Typed, HandlersKnown
<1> QED
  BY <1>1, OpenerSet, NetSet DEF OpenerRefunds, OpenerState

\* The owner becomes the first player.
LEMMA OpenerReservesEffect ==
    ASSUME Typed, NEW l \in Lobbies, OpenerReserves(l)
    PROVE  /\ opener[l] = "paid" /\ OpenerTurns(l, "posting")
           /\ LobbyTurns(l, lobby[l].locked \cup {lobby[l].owner}, lobby[l].starting,
                         lobby[l].started, lobby[l].ended, lobby[l].created, FALSE)
           /\ UNCHANGED <<race, lock, join, finish, cleanup, net, settled, pot>>
<1>1. lobby[l].owner \in Users
  BY DEF OpenerReserves, Typed, HandlersKnown
<1>2. LobbyTurns(l, lobby[l].locked \cup {lobby[l].owner}, lobby[l].starting,
                 lobby[l].started, lobby[l].ended, lobby[l].created, FALSE)
  BY <1>1, OwnerPlays, LobbySet, LobbyFields DEF OpenerReserves
<1> QED
  BY <1>2, OpenerSet DEF OpenerReserves, OpenerState

\* Steps of the opener that change its program counter only.
LEMMA OpenerMovesEffect ==
    ASSUME Typed, NEW l \in Lobbies, OpenerRefused(l) \/ OpenerPosts(l) \/ OpenerPostFails(l)
    PROVE  /\ \/ opener[l] = "paid" /\ OpenerTurns(l, "refunding")
              \/ opener[l] = "posting" /\ OpenerTurns(l, "open")
              \/ opener[l] = "posting" /\ OpenerTurns(l, "refunding")
           /\ UNCHANGED <<race, lobby, lock, join, finish, cleanup, net, settled, pot>>
BY OpenerSet DEF OpenerRefused, OpenerPosts, OpenerPostFails, OpenerState

-----------------------------------------------------------------------------
\* The players who join.
LEMMA JoinPressEffect ==
    ASSUME Typed, NEW j \in Joins, NEW l \in Lobbies, NEW u \in Users, JoinPress(j, l, u)
    PROVE  /\ join[j].pc = "idle" /\ opener[l] = "open" /\ ~lobby[l].overdue
           /\ JoinTurns(j, "confirming", u, l)
           /\ UNCHANGED <<race, lobby, lock, opener, finish, cleanup, net, settled, pot>>
BY LobbyTypesOf DEF JoinPress, Accepting, Seen, JoinTurns, JoinRecord, JoinState

JoinCharges(j, l, u) ==
    /\ Accepting(l) /\ HasPlace(l, u)
    /\ LockTurns(l, j) /\ NetTurns(l, u, 1) /\ JoinTurns(j, "paid", u, l)
JoinFails(j) == JoinTurns(j, "idle", NoUser, NoLobby) /\ UNCHANGED <<lock, net>>

\* Under the lock the entry is taken, or the join ends.
LEMMA EnterJoinEffect ==
    ASSUME Typed, NEW j \in Joins, join[j].pc # "idle", EnterJoin(j)
    PROVE  /\ JoinCharges(j, join[j].lobby, join[j].user) \/ JoinFails(j)
           /\ LooksUp /\ DropsRace
           /\ UNCHANGED <<lobby, opener, finish, settled, pot>>
<1>1. join[j].lobby \in Lobbies /\ join[j].user \in Users
  BY DEF Typed, HandlersKnown
<1>2. CASE Accepting(join[j].lobby) /\ HasPlace(join[j].lobby, join[j].user)
  <2>1. /\ lock' = [lock EXCEPT ![join[j].lobby] = j]
        /\ Owes(join[j].lobby, join[j].user, 1)
        /\ JoinAt(j, "paid")
    BY <1>2, Zenon DEF EnterJoin
  <2>2. LockTurns(join[j].lobby, j)
    BY <1>1, <2>1, LockSet
  <2>3. NetTurns(join[j].lobby, join[j].user, 1)
    BY <1>1, <2>1, NetSet
  <2>4. JoinTurns(j, "paid", join[j].user, join[j].lobby)
    BY <2>1, JoinSet DEF JoinState
  <2>5. JoinCharges(j, join[j].lobby, join[j].user)
    BY <1>2, <2>2, <2>3, <2>4 DEF JoinCharges
  <2> QED
    BY <2>5, LookupSet DEF EnterJoin
<1>3. CASE ~(Accepting(join[j].lobby) /\ HasPlace(join[j].lobby, join[j].user))
  <2>1. JoinEnds(j) /\ UNCHANGED <<lock, net>>
    BY <1>3, Zenon DEF EnterJoin
  <2> QED
    BY <2>1, JoinLeaves, LookupSet DEF EnterJoin, JoinFails
<1> QED
  BY <1>2, <1>3

LEMMA JoinWaitsEffect ==
    ASSUME Typed, NEW j \in Joins, JoinConfirms(j), ~LockAtOnce(join[j].lobby)
    PROVE  /\ join[j].pc = "confirming" /\ ~lobby[join[j].lobby].overdue
           /\ JoinTurns(j, "waiting", join[j].user, join[j].lobby)
           /\ UNCHANGED <<race, lobby, lock, opener, finish, cleanup, net, settled, pot>>
BY JoinSet DEF JoinConfirms, JoinState, Seen

LEMMA JoinGivesUpEffect ==
    ASSUME Typed, NEW j \in Joins, JoinGivesUp(j)
    PROVE  /\ join[j].pc = "confirming" /\ JoinTurns(j, "idle", NoUser, NoLobby)
           /\ UNCHANGED <<race, lobby, lock, opener, finish, cleanup, net, settled, pot>>
BY JoinLeaves DEF JoinGivesUp

\* The debit is saved and the user becomes a player.
LEMMA JoinReservesEffect ==
    ASSUME Typed, NEW j \in Joins, JoinReserves(j)
    PROVE  LET l == join[j].lobby
               u == join[j].user
           IN  /\ join[j].pc = "paid"
               /\ LobbyTurns(l, lobby[l].locked \cup {u}, lobby[l].starting, lobby[l].started,
                             lobby[l].ended, TRUE, FALSE)
               /\ LockTurns(l, NoTask) /\ JoinTurns(j, "idle", NoUser, NoLobby)
               /\ UNCHANGED <<race, opener, finish, cleanup, net, settled, pot>>
<1> DEFINE l == join[j].lobby
           u == join[j].user
<1>1. l \in Lobbies /\ u \in Users
  BY DEF JoinReserves, Typed, HandlersKnown
<1>2. /\ lobby' = [lobby EXCEPT ![l] = [lobby[l] EXCEPT !.locked = @ \cup {u},
                                                        !.created = TRUE, !.overdue = FALSE]]
      /\ lock' = [lock EXCEPT ![l] = NoTask] /\ JoinEnds(j)
      /\ join[j].pc = "paid"
      /\ UNCHANGED <<race, opener, finish, cleanup, net, settled, pot>>
  BY DEF JoinReserves, Unlock
<1> HIDE DEF l, u
<1>3. LobbyTurns(l, lobby[l].locked \cup {u}, lobby[l].starting, lobby[l].started,
                 lobby[l].ended, TRUE, FALSE)
  BY <1>1, <1>2, PlayerJoins, LobbySet, LobbyFields
<1>4. LockTurns(l, NoTask) /\ JoinTurns(j, "idle", NoUser, NoLobby)
  BY <1>1, <1>2, LockSet, JoinLeaves
<1> QED
  BY <1>2, <1>3, <1>4 DEF l, u

LEMMA JoinRefusedEffect ==
    ASSUME Typed, NEW j \in Joins, JoinRefused(j)
    PROVE  /\ join[j].pc = "paid" /\ JoinTurns(j, "refunding", join[j].user, join[j].lobby)
           /\ UNCHANGED <<race, lobby, lock, opener, finish, cleanup, net, settled, pot>>
BY JoinSet DEF JoinRefused, JoinState

LEMMA JoinRefundsEffect ==
    ASSUME Typed, NEW j \in Joins, JoinRefunds(j)
    PROVE  /\ join[j].pc = "refunding"
           /\ NetTurns(join[j].lobby, join[j].user, -1)
           /\ LockTurns(join[j].lobby, NoTask) /\ JoinTurns(j, "idle", NoUser, NoLobby)
           /\ UNCHANGED <<race, lobby, opener, finish, cleanup, settled, pot>>
<1>1. join[j].lobby \in Lobbies /\ join[j].user \in Users
  BY DEF JoinRefunds, Typed, HandlersKnown
<1>2. NetTurns(join[j].lobby, join[j].user, -1)
  <2>1. Owes(join[j].lobby, join[j].user, -1) /\ -1 \in Int
    BY DEF JoinRefunds
  <2> QED
    BY <1>1, <2>1, NetSet
<1>3. LockTurns(join[j].lobby, NoTask)
  BY <1>1, LockSet DEF JoinRefunds, Unlock
<1> QED
  BY <1>2, <1>3, JoinLeaves DEF JoinRefunds

-----------------------------------------------------------------------------
\* The start button and the view's timeout.
FinishEnters(f, l, source) ==
    /\ Accepting(l)
    /\ LobbyTurns(l, lobby[l].locked, TRUE, lobby[l].started, lobby[l].ended,
                  lobby[l].created, lobby[l].overdue)
    /\ \E left \in SUBSET (lobby[l].locked \cap MayLeave) :
          \/ /\ Cardinality(lobby[l].locked \ left) < 2
             /\ FinishTurns(f, "refunding", l, source, lobby[l].locked)
          \/ /\ ~(Cardinality(lobby[l].locked \ left) < 2)
             /\ FinishTurns(f, "prelude", l, source, {})

\* A refused start button clears "starting" on the guild's race.
Refuses(source) ==
    \/ UNCHANGED lobby
    \/ /\ source = "button"
       /\ race \in Lobbies /\ Seen(race)
       /\ LobbyTurns(race, lobby[race].locked, FALSE, lobby[race].started, lobby[race].ended,
                     lobby[race].created, lobby[race].overdue)

\* A refused start button marks at most the current race.
LEMMA RefusesSet ==
    ASSUME Typed, NEW source, StartRefused(source)
    PROVE  Refuses(source)
<1>1. CASE source = "button" /\ ~NothingSeen
  <2>1. race \in Lobbies /\ Seen(race)
    BY <1>1 DEF NothingSeen, Seen
  <2>2. lobby' = [lobby EXCEPT ![race] = [lobby[race] EXCEPT !.starting = FALSE]]
    BY <1>1, LobbyTypesOf DEF StartRefused
  <2> QED
    BY <1>1, <2>1, <2>2, StartingSet, LobbySet, LobbyFields DEF Refuses
<1> QED
  BY <1>1 DEF StartRefused, Refuses

\* Under the lock the caller starts or cancels the race, or is refused.
LEMMA EnterFinishEffect ==
    ASSUME Typed, NEW f \in Finishes, NEW l \in Lobbies, NEW source \in {"button", "timeout"},
           EnterFinish(f, l, source)
    PROVE  /\ \/ FinishEnters(f, l, source)
              \/ ~Accepting(l) /\ Refuses(source) /\ FinishTurns(f, "idle", NoLobby, "none", {})
           /\ LooksUp /\ DropsRace
           /\ UNCHANGED <<lock, opener, join, net, settled, pot>>
<1>1. CASE Accepting(l)
  <2>1. PICK left \in SUBSET (lobby[l].locked \cap MayLeave) :
          /\ lobby' = [lobby EXCEPT ![l].starting = TRUE]
          /\ finish' = [finish EXCEPT ![f] =
                 IF Cardinality(lobby[l].locked \ left) < 2
                   THEN [pc |-> "refunding", lobby |-> l, source |-> source,
                         left |-> EntriesToRefund(l)]
                   ELSE [pc |-> "prelude", lobby |-> l, source |-> source, left |-> {}]]
    BY <1>1 DEF EnterFinish
  <2>2. lobby' = [lobby EXCEPT ![l] = [lobby[l] EXCEPT !.starting = TRUE]]
    BY <2>1, LobbyTypesOf
  <2>3. LobbyTurns(l, lobby[l].locked, TRUE, lobby[l].started, lobby[l].ended,
                   lobby[l].created, lobby[l].overdue)
    BY <2>2, StartingSet, LobbySet, LobbyFields
  <2>4. CASE Cardinality(lobby[l].locked \ left) < 2
    <3>1. FinishTurns(f, "refunding", l, source, lobby[l].locked)
      BY <2>1, <2>4, LobbyTypesOf, LobbyFields
         DEF FinishTurns, FinishRecord, FinishState, EntriesToRefund
    <3> QED
      BY <1>1, <2>1, <2>3, <2>4, <3>1, LookupSet DEF EnterFinish, FinishEnters
  <2>5. CASE ~(Cardinality(lobby[l].locked \ left) < 2)
    <3>1. FinishTurns(f, "prelude", l, source, {})
      BY <2>1, <2>5, LobbyTypesOf DEF FinishTurns, FinishRecord, FinishState
    <3> QED
      BY <1>1, <2>1, <2>3, <2>5, <3>1, LookupSet DEF EnterFinish, FinishEnters
  <2> QED
    BY <2>4, <2>5
<1>2. CASE ~Accepting(l)
  BY <1>2, LookupSet, RefusesSet, FinishLeaves DEF EnterFinish
<1> QED
  BY <1>1, <1>2

LEMMA FinishWaitsEffect ==
    ASSUME Typed, NEW f \in Finishes, NEW l \in Lobbies, NEW source \in {"button", "timeout"},
           CallFinish(f, l, source), ~LockAtOnce(l)
    PROVE  /\ FinishTurns(f, "waiting", l, source, {})
           /\ UNCHANGED <<race, lobby, lock, opener, join, cleanup, net, settled, pot>>
BY LobbyTypesOf DEF CallFinish, FinishTurns, FinishRecord, FinishState

LEMMA FinishRefundsEffect ==
    ASSUME Typed, NEW f \in Finishes, NEW u \in Users, FinishRefunds(f, u)
    PROVE  /\ finish[f].pc = "refunding" /\ u \in finish[f].left
           /\ NetTurns(finish[f].lobby, u, -1)
           /\ FinishTurns(f, "refunding", finish[f].lobby, finish[f].source, finish[f].left \ {u})
           /\ UNCHANGED <<race, lobby, lock, opener, join, cleanup, settled, pot>>
<1>1. finish[f].lobby \in Lobbies
  BY DEF FinishRefunds, Typed, HandlersKnown
<1>2. FinishTurns(f, "refunding", finish[f].lobby, finish[f].source, finish[f].left \ {u})
  BY LobbyTypesOf DEF FinishRefunds, FinishTurns, FinishRecord
<1> QED
  BY <1>1, <1>2, NetSet DEF FinishRefunds

LEMMA FinishCancelsEffect ==
    ASSUME Typed, NEW f \in Finishes, FinishCancels(f)
    PROVE  LET l == finish[f].lobby
           IN  /\ finish[f].pc = "refunding" /\ finish[f].left = {}
               /\ LobbyTurns(l, lobby[l].locked, FALSE, FALSE, TRUE, FALSE, lobby[l].overdue)
               /\ FinishTurns(f, "closing", l, finish[f].source, {})
               /\ UNCHANGED <<race, lock, opener, join, cleanup, net, settled, pot>>
<1>1. finish[f].lobby \in Lobbies
  BY DEF FinishCancels, Typed, HandlersKnown
<1> DEFINE l == finish[f].lobby
<1>2. LobbyTurns(l, lobby[l].locked, FALSE, FALSE, TRUE, FALSE, lobby[l].overdue)
  BY <1>1, LobbyEnds, LobbySet, LobbyFields DEF FinishCancels, Ended
<1>3. FinishTurns(f, "closing", l, finish[f].source, finish[f].left)
  BY FinishSet DEF FinishCancels, FinishState
<1> QED
  BY <1>2, <1>3 DEF FinishCancels

LEMMA FinishClosesEffect ==
    ASSUME Typed, NEW f \in Finishes, FinishCloses(f)
    PROVE  /\ finish[f].pc = "closing" /\ race' = NoLobby
           /\ FinishTurns(f, "idle", NoLobby, "none", {})
           /\ UNCHANGED <<lobby, lock, opener, join, cleanup, net, settled, pot>>
BY FinishLeaves DEF FinishCloses

LEMMA FinishStartsEffect ==
    ASSUME Typed, NEW f \in Finishes, FinishStarts(f)
    PROVE  LET l == finish[f].lobby
           IN  /\ finish[f].pc = "prelude"
               /\ LobbyTurns(l, lobby[l].locked, TRUE, TRUE, lobby[l].ended, lobby[l].created,
                             lobby[l].overdue)
               /\ FinishTurns(f, "started", l, finish[f].source, finish[f].left)
               /\ UNCHANGED <<race, lock, opener, join, cleanup, net, settled, pot>>
<1>1. finish[f].lobby \in Lobbies
  BY DEF FinishStarts, Typed, HandlersKnown
<1> DEFINE l == finish[f].lobby
<1>2. LobbyTurns(l, lobby[l].locked, TRUE, TRUE, lobby[l].ended, lobby[l].created,
                 lobby[l].overdue)
  BY <1>1, RaceStarts, LobbySet, LobbyFields DEF FinishStarts
<1>3. FinishTurns(f, "started", l, finish[f].source, finish[f].left)
  BY FinishSet DEF FinishStarts, FinishState
<1> QED
  BY <1>2, <1>3 DEF FinishStarts

LEMMA FinishRacesEffect ==
    ASSUME Typed, NEW f \in Finishes, FinishRaces(f)
    PROVE  LET l == finish[f].lobby
           IN  /\ finish[f].pc = "started"
               /\ LobbyTurns(l, lobby[l].locked, FALSE, lobby[l].started, lobby[l].ended,
                             lobby[l].created, lobby[l].overdue)
               /\ FinishTurns(f, "racing", l, finish[f].source, finish[f].left)
               /\ UNCHANGED <<race, lock, opener, join, cleanup, net, settled, pot>>
<1>1. finish[f].lobby \in Lobbies
  BY DEF FinishRaces, Typed, HandlersKnown
<1> DEFINE l == finish[f].lobby
<1>2. lobby' = [lobby EXCEPT ![l] = [lobby[l] EXCEPT !.starting = FALSE]]
  BY <1>1, LobbyTypesOf DEF FinishRaces
<1>3. LobbyTurns(l, lobby[l].locked, FALSE, lobby[l].started, lobby[l].ended,
                 lobby[l].created, lobby[l].overdue)
  BY <1>1, <1>2, StartingSet, LobbySet, LobbyFields
<1>4. FinishTurns(f, "racing", l, finish[f].source, finish[f].left)
  BY FinishSet DEF FinishRaces, FinishState
<1> QED
  BY <1>3, <1>4 DEF FinishRaces

LEMMA FinishFindsEndEffect ==
    ASSUME Typed, NEW f \in Finishes, FinishFindsEnd(f)
    PROVE  /\ finish[f].pc = "racing" /\ Refuses(finish[f].source)
           /\ FinishTurns(f, "idle", NoLobby, "none", {})
           /\ UNCHANGED <<race, lock, opener, join, cleanup, net, settled, pot>>
BY FinishLeaves, RefusesSet DEF FinishFindsEnd

LEMMA FinishSettlesEffect ==
    ASSUME Typed, NEW f \in Finishes, FinishSettles(f)
    PROVE  LET l == finish[f].lobby
           IN  /\ finish[f].pc = "racing" /\ ~lobby[l].ended
               /\ JoinsOutlastRaces \/ LockAtOnce(l)
               /\ LobbyTurns(l, lobby[l].locked, FALSE, lobby[l].started, TRUE,
                             lobby[l].created, lobby[l].overdue)
               /\ FinishTurns(f, "paying", l, finish[f].source, finish[f].left)
               /\ settled' = [settled EXCEPT ![l] = @ + 1]
               /\ pot' = [pot EXCEPT ![l] = lobby[l].locked]
               /\ UNCHANGED <<race, lock, opener, join, cleanup, net>>
<1>1. finish[f].lobby \in Lobbies
  BY DEF FinishSettles, Typed, HandlersKnown
<1> DEFINE l == finish[f].lobby
<1>2. /\ lobby' = [lobby EXCEPT ![l].ended = TRUE, ![l].starting = FALSE]
      /\ settled' = [settled EXCEPT ![l] = @ + 1]
      /\ pot' = [pot EXCEPT ![l] = lobby[l].locked]
      /\ finish[f].pc = "racing" /\ ~lobby[l].ended
      /\ JoinsOutlastRaces \/ LockAtOnce(l)
      /\ FinishAt(f, "paying")
      /\ UNCHANGED <<race, lock, opener, join, cleanup, net>>
  BY DEF FinishSettles, StillRacing
<1> HIDE DEF l
<1>3. lobby' = [lobby EXCEPT ![l] = [[lobby[l] EXCEPT !.ended = TRUE] EXCEPT !.starting = FALSE]]
  BY <1>1, <1>2, LobbyTypesOf DEF l
<1>4. LobbyTurns(l, lobby[l].locked, FALSE, lobby[l].started, TRUE, lobby[l].created,
                 lobby[l].overdue)
  BY <1>1, <1>3, RaceSettles, LobbySet, LobbyFields DEF l
<1>5. FinishTurns(f, "paying", l, finish[f].source, finish[f].left)
  BY <1>2, FinishSet DEF FinishState, l
<1> QED
  BY <1>2, <1>4, <1>5 DEF l

LEMMA FinishPaysEffect ==
    ASSUME Typed, NEW f \in Finishes, FinishPays(f)
    PROVE  LET l == finish[f].lobby
           IN  /\ finish[f].pc = "paying" /\ race' = NoLobby
               /\ LobbyTurns(l, lobby[l].locked, lobby[l].starting, lobby[l].started,
                             lobby[l].ended, FALSE, lobby[l].overdue)
               /\ FinishTurns(f, "idle", NoLobby, "none", {})
               /\ UNCHANGED <<lock, opener, join, cleanup, net, settled, pot>>
<1>1. finish[f].lobby \in Lobbies
  BY DEF FinishPays, Typed, HandlersKnown
<1> DEFINE l == finish[f].lobby
<1>2. lobby' = [lobby EXCEPT ![l] = [lobby[l] EXCEPT !.created = FALSE]]
  BY <1>1, LobbyTypesOf DEF FinishPays
<1>3. LobbyTurns(l, lobby[l].locked, lobby[l].starting, lobby[l].started,
                 lobby[l].ended, FALSE, lobby[l].overdue)
  BY <1>1, <1>2, CreatedCleared, LobbySet, LobbyFields
<1>4. FinishTurns(f, "idle", NoLobby, "none", {})
  BY FinishLeaves DEF FinishPays
<1> QED
  BY <1>3, <1>4 DEF FinishPays

-----------------------------------------------------------------------------
\* The clocks and the cleanup.
LEMMA GoesOverdueEffect ==
    ASSUME Typed, NEW l \in Lobbies, GoesOverdue(l)
    PROVE  /\ MayGoOverdue(l)
           /\ LobbyTurns(l, lobby[l].locked, lobby[l].starting, lobby[l].started,
                         lobby[l].ended, lobby[l].created, TRUE)
           /\ UNCHANGED <<race, lock, opener, join, finish, cleanup, net, settled, pot>>
<1>1. lobby' = [lobby EXCEPT ![l] = [lobby[l] EXCEPT !.overdue = TRUE]]
  BY LobbyTypesOf DEF GoesOverdue
<1>2. LobbyTurns(l, lobby[l].locked, lobby[l].starting, lobby[l].started,
                 lobby[l].ended, lobby[l].created, TRUE)
  BY <1>1, OverdueSet, LobbySet, LobbyFields
<1> QED
  BY <1>2 DEF GoesOverdue

LEMMA CleanupCancelsEffect ==
    ASSUME Typed, NEW l \in Lobbies, CleanupCancels(l)
    PROVE  /\ LobbyTurns(l, lobby[l].locked, FALSE, FALSE, TRUE, FALSE, lobby[l].overdue)
           /\ CleanupTurns(l, "closing", {})
           /\ UNCHANGED <<race, lock, opener, join, finish, net, settled, pot>>
<1>1. LobbyTurns(l, lobby[l].locked, FALSE, FALSE, TRUE, FALSE, lobby[l].overdue)
  BY LobbyEnds, LobbySet, LobbyFields DEF CleanupCancels, Ended
<1> QED
  BY <1>1, CleanupSet DEF CleanupCancels, CleanupState

LEMMA CleanupStartsEffect ==
    ASSUME Typed, NEW l \in Lobbies, CleanupStarts(l)
    PROVE  /\ cleanup[l].pc = "spawned"
           /\ \/ lobby[l].locked = {} /\ CleanupCancels(l)
              \/ /\ CleanupTurns(l, "refunding", lobby[l].locked)
                 /\ UNCHANGED <<race, lobby, lock, opener, join, finish, net, settled, pot>>
<1>1. lobby[l].locked \in SUBSET Users
  BY LobbyFields
<1> QED
  BY <1>1, CleanupSet DEF CleanupStarts, EntriesToRefund, CleanupState

LEMMA CleanupRefundsEffect ==
    ASSUME Typed, NEW l \in Lobbies, NEW u \in Users, CleanupRefunds(l, u)
    PROVE  /\ cleanup[l].pc = "refunding" /\ u \in cleanup[l].left
           /\ NetTurns(l, u, -1)
           /\ CleanupTurns(l, "refunding", cleanup[l].left \ {u})
           /\ UNCHANGED <<race, lobby, lock, opener, join, finish, settled, pot>>
<1>1. cleanup[l].left \ {u} \in SUBSET Users
  BY LobbyTypesOf DEF CleanupRecord
<1> QED
  BY <1>1, CleanupSet, NetSet DEF CleanupRefunds, CleanupState

LEMMA CleanupClosesEffect ==
    ASSUME Typed, NEW l \in Lobbies, CleanupCloses(l)
    PROVE  /\ cleanup[l].pc = "closing" /\ race' = NoLobby
           /\ CleanupTurns(l, "done", {})
           /\ UNCHANGED <<lobby, lock, opener, join, finish, net, settled, pot>>
BY CleanupSet DEF CleanupCloses, CleanupState

-----------------------------------------------------------------------------
\* Typed, without the registry's part.
LobbyTypes ==
    /\ race \in Lobbies \cup {NoLobby}
    /\ lobby \in [Lobbies -> LobbyRecord]
    /\ lock \in [Lobbies -> Joins \cup {NoTask}]
    /\ opener \in [Lobbies -> OpenerState]
    /\ join \in [Joins -> JoinRecord]
    /\ finish \in [Finishes -> FinishRecord]
    /\ cleanup \in [Lobbies -> CleanupRecord]
    /\ net \in [Lobbies -> [Users -> Int]]
    /\ settled \in [Lobbies -> Nat]
    /\ pot \in [Lobbies -> SUBSET Users]
    /\ HandlersKnown

\* The types, with what is known of handlers at work.
LEMMA TypesTogether == Typed <=> RegistryIInv /\ LobbyTypes
BY DEF Typed, LobbyTypes, TypeOK, RegistryIInv, JoinRecord, FinishRecord, CleanupRecord

LEMMA InitTyped == Init => Typed
<1> SUFFICES ASSUME Init PROVE Typed
  OBVIOUS
<1>1. RegistryIInv
  BY RegistryInitIInv DEF Init
<1>2. TypeOK
  BY <1>1 DEF RegistryIInv, Init, TypeOK, NewLobby, LobbyRecord, OpenerState, NoJoin, JoinState,
              NoFinish, FinishState, CleanupState
<1> QED
  BY <1>1, <1>2 DEF Typed, HandlersKnown, Init, NoJoin, NoFinish

\* The owner of a lobby never changes once it is open.
OwnersKept == \A m \in Lobbies : lobby'[m].owner = lobby[m].owner

\* A step on a lobby's dict keeps the owners of all.
LEMMA TurnsKeepOwners ==
    ASSUME NEW l \in Lobbies, NEW locked, NEW starting, NEW started, NEW ended, NEW created,
           NEW overdue, LobbyTurns(l, locked, starting, started, ended, created, overdue)
    PROVE  OwnersKept /\ lobby' \in [Lobbies -> LobbyRecord]
BY DEF LobbyTurns, Become, OwnersKept

\* The types are kept: by the opener ...
LEMMA OpenerTypes ==
    ASSUME Typed, NEW l \in Lobbies, OpenerStep(l) \/ \E u \in Users : Trigger(l, u)
    PROVE  LobbyTypes'
<1>0. LobbyTypes
  BY TypesTogether
<1>1. ASSUME NEW u \in Users, Trigger(l, u) PROVE LobbyTypes'
  <2>1. /\ \A m \in Lobbies \ {l} : lobby'[m] = lobby[m] /\ opener'[m] = opener[m]
        /\ lobby'[l].owner = u /\ UNCHANGED <<join, finish>>
    BY <1>1, TriggerEffect DEF OpenerTurns, Become
  <2>2. HandlersKnown'
    BY <1>0, <2>1 DEF LobbyTypes, HandlersKnown
  <2> QED
    BY <1>0, <1>1, <2>2, TriggerEffect DEF LobbyTypes, OpenerTurns, LooksUp
<1>2. CASE OpenerGivesUp(l) \/ OpenerWithdraws(l)
  <2>1. HandlersKnown'
    BY <1>0, <1>2, WithdrawEffect, TurnsKeepOwners DEF LobbyTypes, HandlersKnown, OpenerTurns, OwnersKept
  <2> QED
    BY <1>0, <1>2, <2>1, WithdrawEffect, TurnsKeepOwners DEF LobbyTypes, OpenerTurns
<1>3. CASE OpenerReserves(l)
  <2>1. HandlersKnown'
    BY <1>0, <1>3, OpenerReservesEffect, TurnsKeepOwners DEF LobbyTypes, HandlersKnown, OpenerTurns, OwnersKept
  <2> QED
    BY <1>0, <1>3, <2>1, OpenerReservesEffect, TurnsKeepOwners DEF LobbyTypes, OpenerTurns
<1>4. CASE OpenerPays(l) \/ OpenerRefunds(l)
  BY <1>0, <1>4, OpenerPaysEffect, OpenerRefundsEffect DEF LobbyTypes, HandlersKnown, OpenerTurns, NetTurns
<1>5. CASE OpenerRefused(l) \/ OpenerPosts(l) \/ OpenerPostFails(l)
  BY <1>0, <1>5, OpenerMovesEffect DEF LobbyTypes, HandlersKnown, OpenerTurns
<1> QED
  BY <1>1, <1>2, <1>3, <1>4, <1>5 DEF OpenerStep

\* ... by the joins ...
LEMMA EnterJoinTypes ==
    ASSUME Typed, NEW j \in Joins, join[j].pc # "idle", EnterJoin(j)
    PROVE  LobbyTypes'
<1>0. LobbyTypes
  BY TypesTogether
<1>1. HandlersKnown'
  BY <1>0, EnterJoinEffect DEF LobbyTypes, HandlersKnown, JoinCharges, JoinFails, JoinTurns
<1> QED
  BY <1>0, <1>1, EnterJoinEffect
     DEF LobbyTypes, JoinCharges, JoinFails, JoinTurns, LockTurns, NetTurns, LooksUp, DropsRace

LEMMA JoinTypes ==
    ASSUME Typed, NEW j \in Joins,
           JoinStep(j) \/ \E l \in Lobbies, u \in Users : JoinPress(j, l, u)
    PROVE  LobbyTypes'
<1>0. LobbyTypes
  BY TypesTogether
<1>1. ASSUME NEW l \in Lobbies, NEW u \in Users, JoinPress(j, l, u) PROVE LobbyTypes'
  <2>1. HandlersKnown'
    <3>1. JoinTurns(j, "confirming", u, l) /\ UNCHANGED <<lobby, opener, finish>>
      BY <1>1, JoinPressEffect
    <3> QED
      BY <1>0, <3>1 DEF LobbyTypes, HandlersKnown, JoinTurns
  <2> QED
    BY <1>0, <1>1, <2>1, JoinPressEffect DEF LobbyTypes, JoinTurns
<1>2. ASSUME JoinGetsLock(j) \/ (JoinConfirms(j) /\ LockAtOnce(join[j].lobby))
      PROVE  LobbyTypes'
  BY <1>2, EnterJoinTypes DEF JoinGetsLock, JoinConfirms
<1>3. CASE JoinConfirms(j) /\ ~LockAtOnce(join[j].lobby)
  BY <1>0, <1>3, JoinWaitsEffect DEF LobbyTypes, HandlersKnown, JoinTurns
<1>4. CASE JoinGivesUp(j) \/ JoinRefused(j)
  BY <1>0, <1>4, JoinGivesUpEffect, JoinRefusedEffect DEF LobbyTypes, HandlersKnown, JoinTurns
<1>5. CASE JoinReserves(j)
  <2>1. join[j].lobby \in Lobbies
    BY <1>0, <1>5, JoinReservesEffect DEF LobbyTypes, HandlersKnown
  <2>2. HandlersKnown'
    BY <1>0, <1>5, <2>1, JoinReservesEffect, TurnsKeepOwners
       DEF LobbyTypes, HandlersKnown, JoinTurns, OwnersKept
  <2> QED
    BY <1>0, <1>5, <2>1, <2>2, JoinReservesEffect, TurnsKeepOwners
       DEF LobbyTypes, JoinTurns, LockTurns
<1>6. CASE JoinRefunds(j)
  BY <1>0, <1>6, JoinRefundsEffect DEF LobbyTypes, HandlersKnown, JoinTurns, LockTurns, NetTurns
<1> QED
  BY <1>1, <1>2, <1>3, <1>4, <1>5, <1>6 DEF JoinStep

LEMMA RefusesKeepsOwners ==
    ASSUME Typed, NEW source, Refuses(source)
    PROVE  OwnersKept /\ lobby' \in [Lobbies -> LobbyRecord]
BY TurnsKeepOwners, LobbyTypesOf DEF Refuses, OwnersKept

\* ... by the start button and the timeout ...
LEMMA EnterFinishTypes ==
    ASSUME Typed, NEW f \in Finishes, NEW l \in Lobbies, NEW source \in {"button", "timeout"},
           EnterFinish(f, l, source)
    PROVE  LobbyTypes'
<1>0. LobbyTypes
  BY TypesTogether
<1>1. OwnersKept /\ lobby' \in [Lobbies -> LobbyRecord]
  BY EnterFinishEffect, RefusesKeepsOwners, TurnsKeepOwners DEF FinishEnters
<1>2. /\ finish' \in [Finishes -> FinishRecord]
      /\ \A g \in Finishes \ {f} : finish'[g] = finish[g]
      /\ \/ finish'[f].pc = "idle"
         \/ finish'[f].lobby = l /\ finish'[f].source = source
  <2>1. CASE FinishEnters(f, l, source)
    BY <2>1 DEF FinishEnters, FinishTurns
  <2>2. CASE FinishTurns(f, "idle", NoLobby, "none", {})
    BY <2>2 DEF FinishTurns
  <2> QED
    BY <2>1, <2>2, EnterFinishEffect
<1>3. HandlersKnown'
  BY <1>0, <1>1, <1>2, EnterFinishEffect DEF LobbyTypes, HandlersKnown, OwnersKept
<1> QED
  BY <1>0, <1>1, <1>2, <1>3, EnterFinishEffect DEF LobbyTypes, LooksUp, DropsRace

LEMMA CallFinishTypes ==
    ASSUME Typed, NEW f \in Finishes, NEW l \in Lobbies, NEW source \in {"button", "timeout"},
           CallFinish(f, l, source)
    PROVE  LobbyTypes'
<1>0. LobbyTypes
  BY TypesTogether
<1>1. CASE LockAtOnce(l)
  BY <1>1, EnterFinishTypes DEF CallFinish
<1>2. CASE ~LockAtOnce(l)
  BY <1>0, <1>2, FinishWaitsEffect DEF LobbyTypes, HandlersKnown, FinishTurns
<1> QED
  BY <1>1, <1>2

LEMMA LookupDropsTypes ==
    ASSUME Typed, LookupDropsRace
    PROVE  LobbyTypes'
BY TypesTogether, LookupSet DEF LookupDropsRace, LobbyTypes, HandlersKnown, LooksUp, DropsRace

LEMMA FinishTypes ==
    ASSUME Typed, NEW f \in Finishes,
           \/ FinishStep(f)
           \/ \E l \in Lobbies : PressStart(f, l) \/ ViewTimesOut(f, l)
    PROVE  LobbyTypes'
<1>0. LobbyTypes
  BY TypesTogether
<1>1. CASE \E l \in Lobbies : PressStart(f, l) \/ ViewTimesOut(f, l)
  BY <1>1, CallFinishTypes, LookupDropsTypes DEF PressStart, ViewTimesOut
<1>2. CASE FinishGetsLock(f)
  <2>1. finish[f].lobby \in Lobbies /\ finish[f].source \in {"button", "timeout"}
    BY <1>0, <1>2 DEF FinishGetsLock, LobbyTypes, HandlersKnown
  <2> QED
    BY <1>2, <2>1, EnterFinishTypes DEF FinishGetsLock
<1>3. ASSUME NEW u \in Users, FinishRefunds(f, u) PROVE LobbyTypes'
  BY <1>0, <1>3, FinishRefundsEffect DEF LobbyTypes, HandlersKnown, FinishTurns, NetTurns
<1>4. CASE FinishCloses(f)
  BY <1>0, <1>4, FinishClosesEffect DEF LobbyTypes, HandlersKnown, FinishTurns
<1>5. CASE FinishFindsEnd(f)
  BY <1>0, <1>5, FinishFindsEndEffect, RefusesKeepsOwners
     DEF LobbyTypes, HandlersKnown, FinishTurns, OwnersKept
<1>6. ASSUME FinishCancels(f) \/ FinishStarts(f) \/ FinishRaces(f) \/ FinishSettles(f)
             \/ FinishPays(f)
      PROVE  LobbyTypes'
  <2>1. finish[f].lobby \in Lobbies /\ finish[f].source \in {"button", "timeout"}
    BY <1>0, <1>6 DEF FinishCancels, FinishStarts, FinishRaces, FinishSettles, FinishPays,
                      LobbyTypes, HandlersKnown
  <2>2. OwnersKept /\ lobby' \in [Lobbies -> LobbyRecord]
    BY <1>6, <2>1, TurnsKeepOwners, FinishCancelsEffect, FinishStartsEffect, FinishRacesEffect,
       FinishSettlesEffect, FinishPaysEffect
  <2>3. /\ finish' \in [Finishes -> FinishRecord]
        /\ \A g \in Finishes \ {f} : finish'[g] = finish[g]
        /\ \/ finish'[f].pc = "idle"
           \/ finish'[f].lobby = finish[f].lobby /\ finish'[f].source = finish[f].source
    BY <1>6, FinishCancelsEffect, FinishStartsEffect, FinishRacesEffect,
       FinishSettlesEffect, FinishPaysEffect DEF FinishTurns
  <2>4. /\ UNCHANGED <<lock, opener, join, cleanup, net>>
        /\ race' \in {race, NoLobby}
        /\ settled' \in [Lobbies -> Nat] /\ pot' \in [Lobbies -> SUBSET Users]
    <3>1. CASE FinishSettles(f)
      <4>1. /\ settled' = [settled EXCEPT ![finish[f].lobby] = @ + 1]
            /\ pot' = [pot EXCEPT ![finish[f].lobby] = lobby[finish[f].lobby].locked]
            /\ UNCHANGED <<lock, opener, join, cleanup, net, race>>
        BY <3>1, FinishSettlesEffect
      <4>2. lobby[finish[f].lobby].locked \in SUBSET Users
        BY <2>1, LobbyFields
      <4> QED
        BY <1>0, <2>1, <4>1, <4>2 DEF LobbyTypes
    <3>2. CASE FinishCancels(f) \/ FinishStarts(f) \/ FinishRaces(f) \/ FinishPays(f)
      BY <1>0, <3>2, FinishCancelsEffect, FinishStartsEffect, FinishRacesEffect,
         FinishPaysEffect DEF LobbyTypes
    <3> QED
      BY <1>6, <3>1, <3>2
  <2>5. HandlersKnown'
    BY <1>0, <2>1, <2>2, <2>3, <2>4 DEF LobbyTypes, HandlersKnown, OwnersKept
  <2> QED
    BY <1>0, <2>2, <2>3, <2>4, <2>5 DEF LobbyTypes
<1> QED
  BY <1>1, <1>2, <1>3, <1>4, <1>5, <1>6 DEF FinishStep

\* ... and by the clocks and the cleanup.
LEMMA CleanupTypes ==
    ASSUME Typed, NEW l \in Lobbies, CleanupStep(l)
    PROVE  LobbyTypes'
<1>0. LobbyTypes
  BY TypesTogether
<1>1. ASSUME CleanupCancels(l) PROVE LobbyTypes'
  BY <1>0, <1>1, CleanupCancelsEffect, TurnsKeepOwners
     DEF LobbyTypes, HandlersKnown, CleanupTurns, OwnersKept
<1>2. CASE CleanupStarts(l) \/ CleanupEnds(l)
  BY <1>0, <1>1, <1>2, CleanupStartsEffect
     DEF CleanupEnds, LobbyTypes, HandlersKnown, CleanupTurns
<1>3. ASSUME NEW u \in Users, CleanupRefunds(l, u) PROVE LobbyTypes'
  BY <1>0, <1>3, CleanupRefundsEffect DEF LobbyTypes, HandlersKnown, CleanupTurns, NetTurns
<1>4. CASE CleanupCloses(l)
  BY <1>0, <1>4, CleanupClosesEffect DEF LobbyTypes, HandlersKnown, CleanupTurns
<1> QED
  BY <1>2, <1>3, <1>4 DEF CleanupStep

\* Steps that touch the registry alone.
OtherStep ==
    \/ \E l \in Lobbies : TrucoReapsLease(l)
    \/ \E o \in OtherGames : OtherCloses(o) \/ \E u \in Users : OtherOpens(o, u)
    \/ \E o \in OtherGames, players \in SUBSET Users : OtherPlays(o, players)
    \/ UNCHANGED vars
lobbyVars == <<race, lobby, lock, opener, join, finish, cleanup, net, settled, pot>>

LEMMA OtherEffect == OtherStep => UNCHANGED lobbyVars
BY DEF OtherStep, TrucoReapsLease, OtherCloses, OtherOpens, OtherPlays, vars, lobbyVars

\* Next, sorted by whose step it is.
LEMMA Steps ==
    [Next]_vars =>
        \/ OtherStep \/ LookupDropsRace
        \/ \E l \in Lobbies : \/ GoesOverdue(l) \/ CleanupStep(l)
                              \/ OpenerStep(l) \/ \E u \in Users : Trigger(l, u)
        \/ \E j \in Joins : JoinStep(j) \/ \E l \in Lobbies, u \in Users : JoinPress(j, l, u)
        \/ \E f \in Finishes : \/ FinishStep(f)
                               \/ \E l \in Lobbies : PressStart(f, l) \/ ViewTimesOut(f, l)
BY DEF Next, Environment, TimeoutStep, OtherStep

LEMMA NextTyped == Typed /\ [Next]_vars => Typed'
<1> SUFFICES ASSUME Typed, [Next]_vars PROVE Typed'
  OBVIOUS
<1>1. LobbyTypes
  BY TypesTogether
<1>2. ASSUME NEW l \in Lobbies, GoesOverdue(l) PROVE LobbyTypes'
  <2>1. OwnersKept /\ lobby' \in [Lobbies -> LobbyRecord]
        /\ UNCHANGED <<race, lock, opener, join, finish, cleanup, net, settled, pot>>
    BY <1>2, GoesOverdueEffect, TurnsKeepOwners
  <2> QED
    BY <1>1, <2>1 DEF LobbyTypes, HandlersKnown, OwnersKept
<1>3. ASSUME OtherStep PROVE LobbyTypes'
  BY <1>1, <1>3, OtherEffect DEF lobbyVars, LobbyTypes, HandlersKnown
<1>4. LobbyTypes'
  BY <1>2, <1>3, Steps, LookupDropsTypes, OpenerTypes, JoinTypes, FinishTypes, CleanupTypes
<1> QED
  BY <1>4, NextRegistry
     DEF Typed, LobbyTypes, TypeOK, RegistryIInv, JoinRecord, FinishRecord, CleanupRecord

\* Every value the lobby's variables take has the type the code gives it.
THEOREM LobbyTypeCorrect == Spec => []TypeOK
<1>1. Typed => TypeOK
  BY DEF Typed
<1> QED
  BY <1>1, InitTyped, NextTyped, PTL DEF Spec

-----------------------------------------------------------------------------
\* What a lobby took and has not given back: an entry of each holder.
NetIs(l, holders) == net[l] = [u \in Users |-> IF u \in holders THEN 1 ELSE 0]
\* The player whose entry is taken while the lock is held.
Charged(l) == {u \in Users : \E j \in Joins : lock[l] = j /\ join[j].user = u}
TwoPlayers(l) == Cardinality(lobby[l].locked) >= 2
Cancelled(l) == lobby[l].ended /\ settled[l] = 0
Refunding(f, l) == finish[f].lobby = l /\ finish[f].pc = "refunding"

\* Handlers have a lobby only while they work, and only an open one.
ServesOpen(l) ==
    /\ \A j \in Joins : join[j].lobby = l => join[j].pc # "idle" /\ opener[l] = "open"
    /\ \A f \in Finishes : finish[f].lobby = l => finish[f].pc # "idle" /\ opener[l] = "open"

\* The lock is held exactly while a player's entry is saved or given back, and
\* that player is not in yet.
LockHeld(l) ==
    \A j \in Joins :
        /\ lock[l] = j <=> join[j].lobby = l /\ join[j].pc \in {"paid", "refunding"}
        /\ lock[l] = j => join[j].user \notin lobby[l].locked

\* A lobby that is being opened or withdrawn has at most its owner.
Opening(l) ==
    /\ opener[l] # "open" =>
         /\ cleanup[l].pc = "none" /\ lock[l] = NoTask
         /\ ~lobby[l].overdue /\ ~lobby[l].ended /\ ~lobby[l].starting /\ ~lobby[l].started
         /\ settled[l] = 0
         /\ lobby[l].locked \subseteq {lobby[l].owner}
    /\ opener[l] \in {"none", "confirming", "paid"} => lobby[l].locked = {}
    /\ opener[l] \in {"posting", "open"} => lobby[l].owner \in lobby[l].locked
    /\ opener[l] \in {"none", "done"} => race # l

\* Once a lobby is overdue only its cleanup works on it.
OverdueFrozen(l) ==
    /\ lobby[l].overdue =>
         /\ lock[l] = NoTask
         /\ \A f \in Finishes : finish[f].lobby # l
         /\ \A j \in Joins : join[j].lobby = l => join[j].pc = "confirming"
         /\ ~lobby[l].starting /\ ~lobby[l].started /\ settled[l] = 0
         /\ lobby[l].ended <=> cleanup[l].pc \in {"closing", "done"}
    /\ cleanup[l].pc # "none" => lobby[l].overdue /\ race # l
    /\ cleanup[l].pc = "refunding" => cleanup[l].left \subseteq lobby[l].locked

\* A handler for which the mark "starting" must stay: with players who may have
\* left, another one could still decide otherwise.
BeingDecided(f, l) ==
    /\ finish[f].lobby = l
    /\ \/ finish[f].pc = "refunding"
       \/ finish[f].pc = "prelude" /\ MayLeave # {}

\* While one handler cancels the lobby, no other is past the lock.
DecidedAlone(l) ==
    \A f \in Finishes : finish[f].lobby = l =>
        /\ BeingDecided(f, l) =>
             /\ lobby[l].starting /\ ~lobby[l].started /\ ~lobby[l].ended
             /\ \A g \in Finishes \ {f} : finish[g].lobby = l => finish[g].pc = "waiting"
        /\ finish[f].pc = "refunding" =>
             /\ lock[l] = NoTask
             /\ finish[f].left \subseteq lobby[l].locked
             /\ MayLeave = {} => ~TwoPlayers(l)
        /\ finish[f].pc = "prelude" /\ MayLeave = {} => TwoPlayers(l)
        /\ finish[f].pc = "waiting" /\ finish[f].source = "button" => TwoPlayers(l)
        /\ finish[f].pc \in {"started", "racing"} => lobby[l].started
        /\ finish[f].pc \in {"closing", "paying"} => lobby[l].ended
        /\ finish[f].pc = "paying" => settled[l] = 1

\* A race ends once: settled, with its players' entries in the pot, or cancelled.
EndsOnce(l) ==
    /\ settled[l] \in {0, 1}
    /\ settled[l] = 1 => lobby[l].ended /\ pot[l] \subseteq lobby[l].locked
    /\ settled[l] = 0 => pot[l] = {}
    /\ Cancelled(l) =>
         /\ lock[l] = NoTask
         /\ \A f \in Finishes : finish[f].lobby = l => finish[f].pc \in {"waiting", "closing"}

\* Whose entries the lobby holds at each stage of its life.
EntriesHeld(l) ==
    /\ opener[l] \in {"none", "confirming", "withdrawing", "done"} => NetIs(l, {})
    /\ opener[l] \in {"paid", "posting", "refunding"} => NetIs(l, {lobby[l].owner})
    /\ cleanup[l].pc = "refunding" => NetIs(l, cleanup[l].left)
    /\ Cancelled(l) => NetIs(l, {})
    /\ \A f \in Finishes : Refunding(f, l) => NetIs(l, finish[f].left)
    /\ opener[l] = "open" /\ cleanup[l].pc # "refunding" /\ ~Cancelled(l)
         /\ (\A f \in Finishes : ~Refunding(f, l))
         => NetIs(l, lobby[l].locked \cup Charged(l))

\* What holds of a lobby between any two awaits.
LobbyInv(l) ==
    /\ ServesOpen(l) /\ LockHeld(l) /\ Opening(l) /\ OverdueFrozen(l)
    /\ DecidedAlone(l) /\ EndsOnce(l) /\ EntriesHeld(l)

\* No step takes the mark away from a race that is being decided.
MarkStays(l) ==
    (\E f \in Finishes : BeingDecided(f, l)) /\ lobby[l].starting =>
        lobby'[l].starting \/ lobby'[l].ended

-----------------------------------------------------------------------------
\* A step that leaves a lobby's players, money and decisions alone.
JoinAside(j, l) ==
    \/ join'[j] = join[j]
    \/ /\ join[j].lobby = l => join[j].pc \in {"confirming", "waiting"}
       /\ join'[j].lobby = l =>
            /\ join'[j].pc \in {"confirming", "waiting"} /\ opener[l] = "open"
            /\ lobby[l].overdue => join'[j].pc = "confirming"
    \/ /\ join[j].pc = "paid" /\ join'[j].pc = "refunding"
       /\ join'[j].lobby = join[j].lobby /\ join'[j].user = join[j].user
FinishAside(f, l) ==
    \/ finish'[f] = finish[f]
    \/ /\ finish[f].lobby = l => finish[f].pc \in {"waiting", "racing", "closing", "paying"}
       /\ finish'[f].lobby = l =>
            /\ finish'[f].pc = "waiting" /\ opener[l] = "open" /\ ~lobby[l].overdue
            /\ finish'[f].source = "button" => TwoPlayers(l)
LobbyAside(l) ==
    /\ lobby'[l].owner = lobby[l].owner /\ lobby'[l].locked = lobby[l].locked
    /\ lobby'[l].started = lobby[l].started /\ lobby'[l].ended = lobby[l].ended
    /\ lobby'[l].overdue = lobby[l].overdue
    /\ lobby'[l].starting => lobby[l].starting
Aside(l) ==
    /\ LobbyAside(l)
    /\ opener'[l] = opener[l] /\ lock'[l] = lock[l] /\ net'[l] = net[l]
    /\ settled'[l] = settled[l] /\ pot'[l] = pot[l]
    /\ cleanup'[l] = cleanup[l] \/ Spawns(l)
    /\ race' = l => race = l /\ ~Spawns(l)
    /\ \A j \in Joins : JoinAside(j, l)
    /\ \A f \in Finishes : FinishAside(f, l)

\* A step that leaves a lobby aside keeps its invariant, as long as the mark of a
\* race that is being decided stays.
LEMMA AsideKeeps ==
    ASSUME Typed, NEW l \in Lobbies, LobbyInv(l), Aside(l), MarkStays(l)
    PROVE  LobbyInv(l)'
<1>1. ServesOpen(l)'
  BY DEF LobbyInv, Aside, JoinAside, FinishAside, ServesOpen
<1>2. LockHeld(l)'
  BY DEF LobbyInv, Aside, JoinAside, LobbyAside, LockHeld
<1>3. Opening(l)'
  BY DEF LobbyInv, Aside, LobbyAside, Spawns, Opening
<1>4. OverdueFrozen(l)'
  BY DEF LobbyInv, Aside, JoinAside, FinishAside, LobbyAside, Spawns, OverdueFrozen
<1>5. DecidedAlone(l)'
  <2>1. ASSUME NEW f \in Finishes, finish'[f].lobby = l, BeingDecided(f, l)'
        PROVE  /\ lobby'[l].starting /\ ~lobby'[l].started /\ ~lobby'[l].ended
               /\ \A g \in Finishes \ {f} : finish'[g].lobby = l => finish'[g].pc = "waiting"
    <3>1. finish'[f] = finish[f] /\ BeingDecided(f, l)
      BY <2>1 DEF Aside, FinishAside, BeingDecided
    <3>2. /\ lobby[l].starting /\ ~lobby[l].started /\ ~lobby[l].ended
          /\ \A g \in Finishes \ {f} : finish[g].lobby = l => finish[g].pc = "waiting"
      BY <3>1 DEF LobbyInv, DecidedAlone, BeingDecided
    <3> QED
      BY <3>1, <3>2 DEF Aside, LobbyAside, FinishAside, MarkStays
  <2>2. ASSUME NEW f \in Finishes, finish'[f].lobby = l
        PROVE  /\ finish'[f].pc = "refunding" =>
                    /\ lock'[l] = NoTask
                    /\ finish'[f].left \subseteq lobby'[l].locked
                    /\ MayLeave = {} => ~TwoPlayers(l)'
               /\ finish'[f].pc = "prelude" /\ MayLeave = {} => TwoPlayers(l)'
               /\ finish'[f].pc = "waiting" /\ finish'[f].source = "button" => TwoPlayers(l)'
               /\ finish'[f].pc \in {"started", "racing"} => lobby'[l].started
               /\ finish'[f].pc \in {"closing", "paying"} => lobby'[l].ended
               /\ finish'[f].pc = "paying" => settled'[l] = 1
    <3>1. TwoPlayers(l)' = TwoPlayers(l)
      BY DEF TwoPlayers, Aside, LobbyAside
    <3> QED
      BY <2>2, <3>1 DEF LobbyInv, DecidedAlone, Aside, LobbyAside, FinishAside
  <2> QED
    BY <2>1, <2>2 DEF DecidedAlone
<1>6. EndsOnce(l)'
  BY DEF LobbyInv, Aside, FinishAside, LobbyAside, EndsOnce, Cancelled
<1>7. EntriesHeld(l)'
  <2>1. \A S : NetIs(l, S)' <=> NetIs(l, S)
    BY DEF Aside, NetIs
  <2>2. Charged(l)' = Charged(l)
    BY DEF Aside, JoinAside, Charged, LobbyInv, LockHeld
  <2>3. \A f \in Finishes : (Refunding(f, l)' <=> Refunding(f, l))
                         /\ (Refunding(f, l) => finish'[f] = finish[f])
    BY DEF Aside, FinishAside, Refunding
  <2>4. Cancelled(l)' = Cancelled(l)
    BY DEF Aside, LobbyAside, Cancelled
  <2>5. /\ cleanup'[l].pc = "refunding" <=> cleanup[l].pc = "refunding"
        /\ cleanup[l].pc = "refunding" => cleanup'[l] = cleanup[l]
    BY DEF Aside, Spawns
  <2> QED
    BY <2>1, <2>2, <2>3, <2>4, <2>5 DEF LobbyInv, EntriesHeld, Aside, LobbyAside
<1> QED
  BY <1>1, <1>2, <1>3, <1>4, <1>5, <1>6, <1>7 DEF LobbyInv

-----------------------------------------------------------------------------
\* The inductive invariant of the lobbies of a guild.
CorridaIInv == Typed /\ \A l \in Lobbies : LobbyInv(l)

\* A lookup, a refused start button and a write to another lobby's dict leave a
\* lobby aside.
LEMMA LookupAside ==
    ASSUME Typed, LooksUp, DropsRace, NEW l \in Lobbies
    PROVE  /\ cleanup'[l] = cleanup[l] \/ Spawns(l)
           /\ race' = l => race = l /\ ~Spawns(l)
<1>1. Spawns(l) => NothingSeen
  BY DEF Spawns, NothingSeen, Seen
<1>2. race # NoLobby /\ NothingSeen => race' = NoLobby
  BY DEF DropsRace
<1> QED
  BY <1>1, <1>2, LobbiesAssumption DEF LooksUp, DropsRace, Spawns

LEMMA TurnsAside ==
    ASSUME Typed, NEW m \in Lobbies, NEW created, NEW starting,
           LobbyTurns(m, lobby[m].locked, starting, lobby[m].started, lobby[m].ended, created,
                      lobby[m].overdue),
           starting => lobby[m].starting
    PROVE  \A l \in Lobbies : LobbyAside(l)
BY DEF LobbyTurns, Become, LobbyAside

LEMMA RefusesAside ==
    ASSUME Typed, NEW source, Refuses(source)
    PROVE  \A l \in Lobbies : LobbyAside(l)
<1>1. CASE UNCHANGED lobby
  BY <1>1 DEF LobbyAside
<1>2. CASE ~UNCHANGED lobby
  BY <1>2, TurnsAside DEF Refuses
<1> QED
  BY <1>1, <1>2

LEMMA LookupDropsAside ==
    ASSUME CorridaIInv, LookupDropsRace
    PROVE  \A l \in Lobbies : Aside(l)
BY LookupSet, LookupAside DEF CorridaIInv, LookupDropsRace, Aside, LobbyAside, JoinAside, FinishAside

\* The joins' steps that neither take nor give an entry leave every lobby aside ...
LEMMA JoinLight ==
    ASSUME CorridaIInv, NEW j \in Joins,
           \/ \E l \in Lobbies, u \in Users : JoinPress(j, l, u)
           \/ JoinGivesUp(j) \/ JoinRefused(j)
           \/ JoinConfirms(j) /\ ~LockAtOnce(join[j].lobby)
    PROVE  \A l \in Lobbies : Aside(l)
<1>1. /\ \A k \in Joins \ {j} : join'[k] = join[k]
      /\ UNCHANGED <<race, lobby, lock, opener, finish, cleanup, net, settled, pot>>
  BY JoinPressEffect, JoinGivesUpEffect, JoinRefusedEffect, JoinWaitsEffect
     DEF CorridaIInv, JoinTurns
<1>2. ASSUME NEW l \in Lobbies PROVE JoinAside(j, l)
  <2>1. join[j].lobby = l => join[j].pc # "idle" /\ opener[l] = "open"
    BY DEF CorridaIInv, LobbyInv, ServesOpen
  <2>2. CASE \E m \in Lobbies, u \in Users : JoinPress(j, m, u)
    BY <2>1, <2>2, JoinPressEffect DEF CorridaIInv, JoinTurns, JoinAside
  <2>3. CASE JoinGivesUp(j)
    BY <2>3, JoinGivesUpEffect, LobbiesAssumption DEF CorridaIInv, JoinTurns, JoinAside
  <2>4. CASE JoinRefused(j)
    BY <2>4, JoinRefusedEffect DEF CorridaIInv, JoinTurns, JoinAside
  <2>5. CASE JoinConfirms(j) /\ ~LockAtOnce(join[j].lobby)
    BY <2>1, <2>5, JoinWaitsEffect DEF CorridaIInv, JoinTurns, JoinAside
  <2> QED
    BY <2>2, <2>3, <2>4, <2>5
<1> QED
  BY <1>1, <1>2 DEF Aside, LobbyAside, JoinAside, FinishAside, Spawns

LEMMA JoinFailsAside ==
    ASSUME CorridaIInv, NEW j \in Joins, join[j].pc \in {"confirming", "waiting"},
           JoinFails(j), LooksUp, DropsRace, UNCHANGED <<lobby, opener, finish, settled, pot>>
    PROVE  \A l \in Lobbies : Aside(l)
BY LookupAside, LobbiesAssumption
   DEF CorridaIInv, JoinFails, JoinTurns, Aside, LobbyAside, JoinAside, FinishAside

\* ... and so do a finishing handler that waits for the lock ...
LEMMA FinishWaitsAside ==
    ASSUME CorridaIInv, NEW f \in Finishes, NEW l \in Lobbies,
           PressStart(f, l) \/ ViewTimesOut(f, l), ~LockAtOnce(l), ~LookupDropsRace
    PROVE  \A m \in Lobbies : Aside(m)
<1>1. finish[f].pc = "idle" /\ opener[l] = "open" /\ ~lobby[l].overdue
  BY DEF PressStart, ViewTimesOut, Accepting, Seen
<1>2. PICK source \in {"button", "timeout"} :
        CallFinish(f, l, source) /\ (source = "button" => TwoPlayers(l))
  BY DEF PressStart, ViewTimesOut, TwoPlayers
<1>3. /\ FinishTurns(f, "waiting", l, source, {})
      /\ UNCHANGED <<race, lobby, lock, opener, join, cleanup, net, settled, pot>>
  BY <1>2, FinishWaitsEffect DEF CorridaIInv
<1>4. ASSUME NEW m \in Lobbies PROVE FinishAside(f, m)
  BY <1>1, <1>2, <1>3 DEF CorridaIInv, LobbyInv, ServesOpen, FinishTurns, FinishAside
<1> QED
  BY <1>3, <1>4 DEF FinishTurns, Aside, LobbyAside, JoinAside, FinishAside, Spawns

\* ... and one that is refused, closes, pays the prizes or finds the race ended.
LEMMA FinishLight ==
    ASSUME CorridaIInv, NEW f \in Finishes, FinishCloses(f) \/ FinishFindsEnd(f) \/ FinishPays(f)
    PROVE  \A l \in Lobbies : Aside(l)
<1>0. Typed
  BY DEF CorridaIInv
<1>1. FinishTurns(f, "idle", NoLobby, "none", {})
      /\ UNCHANGED <<lock, opener, join, cleanup, net, settled, pot>>
      /\ finish[f].pc \in {"closing", "racing", "paying"}
      /\ race' \in {race, NoLobby}
  BY <1>0, FinishClosesEffect, FinishFindsEndEffect, FinishPaysEffect
<1>2. \A l \in Lobbies : LobbyAside(l)
  <2>1. CASE FinishCloses(f)
    BY <1>0, <2>1, FinishClosesEffect DEF LobbyAside
  <2>2. CASE FinishFindsEnd(f)
    BY <1>0, <2>2, FinishFindsEndEffect, RefusesAside
  <2>3. CASE FinishPays(f)
    <3>1. finish[f].lobby \in Lobbies
      BY <2>3 DEF FinishPays, CorridaIInv, Typed, HandlersKnown
    <3> DEFINE l == finish[f].lobby
    <3>2. LobbyTurns(l, lobby[l].locked, lobby[l].starting, lobby[l].started, lobby[l].ended,
                     FALSE, lobby[l].overdue)
      BY <1>0, <2>3, FinishPaysEffect
    <3> HIDE DEF l
    <3>3. l \in Lobbies
      BY <3>1 DEF l
    <3> QED
      BY <3>2, <3>3 DEF LobbyTurns, Become, LobbyAside
  <2> QED
    BY <2>1, <2>2, <2>3
<1>3. ASSUME NEW l \in Lobbies PROVE \A g \in Finishes : FinishAside(g, l)
  BY <1>1, LobbiesAssumption DEF FinishTurns, FinishAside
<1>4. ASSUME NEW l \in Lobbies PROVE race' = l => race = l /\ ~Spawns(l)
  <2>1. cleanup'[l] = cleanup[l]
    BY <1>1
  <2> QED
    BY <1>1, <2>1, LobbiesAssumption DEF Spawns
<1> QED
  BY <1>1, <1>2, <1>3, <1>4 DEF Aside, JoinAside

LEMMA FinishRefusedAside ==
    ASSUME CorridaIInv, NEW f \in Finishes, NEW source, finish[f].pc \in {"idle", "waiting"},
           Refuses(source), FinishTurns(f, "idle", NoLobby, "none", {}), LooksUp, DropsRace,
           UNCHANGED <<lock, opener, join, net, settled, pot>>
    PROVE  \A l \in Lobbies : Aside(l)
<1>1. \A l \in Lobbies : LobbyAside(l)
  BY RefusesAside DEF CorridaIInv
<1>2. ASSUME NEW l \in Lobbies PROVE \A g \in Finishes : FinishAside(g, l)
  BY LobbiesAssumption DEF CorridaIInv, LobbyInv, ServesOpen, FinishTurns, FinishAside
<1> QED
  BY <1>1, <1>2, LookupAside DEF CorridaIInv, Aside, JoinAside

\* The lobbies a step is not about.
LEMMA OthersAside ==
    ASSUME NEW m \in Lobbies,
           lobby'[m] = lobby[m], opener'[m] = opener[m], lock'[m] = lock[m],
           net'[m] = net[m], settled'[m] = settled[m], pot'[m] = pot[m],
           cleanup'[m] = cleanup[m] \/ Spawns(m),
           race' = m => race = m /\ ~Spawns(m),
           \A j \in Joins : join'[j] = join[j] \/ (join[j].lobby # m /\ join'[j].lobby # m),
           \A f \in Finishes : finish'[f] = finish[f]
                               \/ (finish[f].lobby # m /\ finish'[f].lobby # m)
    PROVE  Aside(m)
<1>1. LobbyAside(m)
  BY DEF LobbyAside
<1> QED
  BY <1>1 DEF Aside, JoinAside, FinishAside

\* Nobody but its opener works on a lobby that is not open.
LEMMA OpenerAlone ==
    ASSUME Typed, NEW l \in Lobbies, LobbyInv(l), opener[l] # "open"
    PROVE  /\ \A j \in Joins : join[j].lobby # l
           /\ \A f \in Finishes : finish[f].lobby # l
           /\ lock[l] = NoTask /\ cleanup[l].pc = "none" /\ settled[l] = 0 /\ pot[l] = {}
BY DEF LobbyInv, ServesOpen, Opening, EndsOnce

\* A step of the opener keeps what does not speak of entries.
LEMMA OpenerKeeps ==
    ASSUME Typed, NEW l \in Lobbies, LobbyInv(l), opener[l] # "open",
           UNCHANGED <<lock, join, finish, settled, pot>>, cleanup'[l] = cleanup[l],
           ~lobby'[l].starting, ~lobby'[l].started, ~lobby'[l].ended, ~lobby'[l].overdue,
           lobby'[l].locked \subseteq {lobby'[l].owner},
           opener'[l] \in {"none", "confirming", "paid"} => lobby'[l].locked = {},
           opener'[l] \in {"posting", "open"} => lobby'[l].owner \in lobby'[l].locked,
           opener'[l] \in {"none", "done"} => race' # l,
           opener'[l] \in OpenerState,
           net'[l] = [u \in Users |->
                        IF opener'[l] \in {"paid", "posting", "open", "refunding"}
                           /\ u = lobby'[l].owner THEN 1 ELSE 0]
    PROVE  LobbyInv(l)'
<1>1. /\ \A j \in Joins : join'[j].lobby # l
      /\ \A f \in Finishes : finish'[f].lobby # l
      /\ lock'[l] = NoTask /\ cleanup'[l].pc = "none" /\ settled'[l] = 0 /\ pot'[l] = {}
  BY OpenerAlone
<1>2. ServesOpen(l)' /\ DecidedAlone(l)'
  BY <1>1 DEF ServesOpen, DecidedAlone
<1>3. LockHeld(l)'
  BY <1>1, TasksAssumption DEF LockHeld
<1>4. Opening(l)'
  BY <1>1 DEF Opening
<1>5. OverdueFrozen(l)'
  BY <1>1 DEF OverdueFrozen
<1>6. EndsOnce(l)'
  BY <1>1 DEF EndsOnce, Cancelled
<1>7. EntriesHeld(l)'
  <2>1. Charged(l)' = {}
    BY <1>1, TasksAssumption DEF Charged
  <2>2. opener'[l] = "open" => lobby'[l].locked \cup Charged(l)' = {lobby'[l].owner}
    BY <2>1
  <2>3. CASE opener'[l] \in {"paid", "posting", "open", "refunding"}
    <3>1. NetIs(l, {lobby[l].owner})'
      BY <2>3 DEF NetIs
    <3> QED
      BY <1>1, <2>2, <2>3, <3>1 DEF EntriesHeld, Cancelled, Refunding
  <2>4. CASE opener'[l] \notin {"paid", "posting", "open", "refunding"}
    <3>1. NetIs(l, {})'
      BY <2>4 DEF NetIs
    <3> QED
      BY <1>1, <2>4, <3>1 DEF EntriesHeld, Cancelled, Refunding, OpenerState
  <2> QED
    BY <2>3, <2>4
<1> QED
  BY <1>2, <1>3, <1>4, <1>5, <1>6, <1>7 DEF LobbyInv

\* What the invariant says of a lobby that is not open yet.
LEMMA OpenerFacts ==
    ASSUME Typed, NEW l \in Lobbies, LobbyInv(l), opener[l] # "open"
    PROVE  /\ ~lobby[l].starting /\ ~lobby[l].started /\ ~lobby[l].ended /\ ~lobby[l].overdue
           /\ lobby[l].locked \subseteq {lobby[l].owner}
           /\ opener[l] \in {"none", "confirming", "paid"} => lobby[l].locked = {}
           /\ opener[l] = "posting" => lobby[l].owner \in lobby[l].locked
           /\ opener[l] \in {"none", "confirming", "withdrawing", "done"} =>
                 net[l] = [u \in Users |-> 0]
           /\ opener[l] \in {"paid", "posting", "refunding"} =>
                 net[l] = [u \in Users |-> IF u = lobby[l].owner THEN 1 ELSE 0]
<1>1. /\ opener[l] \in {"none", "confirming", "withdrawing", "done"} => NetIs(l, {})
      /\ opener[l] \in {"paid", "posting", "refunding"} => NetIs(l, {lobby[l].owner})
  BY DEF LobbyInv, EntriesHeld
<1>2. NetIs(l, {}) => net[l] = [u \in Users |-> 0]
  BY DEF NetIs
<1>3. NetIs(l, {lobby[l].owner}) => net[l] = [u \in Users |-> IF u = lobby[l].owner THEN 1 ELSE 0]
  BY DEF NetIs
<1> QED
  BY <1>1, <1>2, <1>3 DEF LobbyInv, Opening

\* A lobby is opened.
LEMMA TriggerInv ==
    ASSUME CorridaIInv, NEW l \in Lobbies, NEW u \in Users, Trigger(l, u)
    PROVE  /\ LobbyInv(l)'
           /\ \A m \in Lobbies \ {l} : Aside(m)
<1>0. Typed /\ LobbyInv(l)
  BY DEF CorridaIInv
<1>1. /\ opener[l] = "none" /\ race' = l
      /\ \A m \in Lobbies \ {l} : lobby'[m] = lobby[m] /\ opener'[m] = opener[m]
      /\ Become(lobby'[l], u, {}, FALSE, FALSE, FALSE, TRUE, FALSE)
      /\ opener'[l] = "confirming" /\ LooksUp
      /\ UNCHANGED <<lock, join, finish, net, settled, pot>>
  BY <1>0, TriggerEffect DEF OpenerTurns
<1>2. LobbyInv(l)'
  <2>1. cleanup'[l] = cleanup[l]
    BY <1>0, <1>1 DEF LooksUp, Spawns, LobbyInv, Opening
  <2>2. net'[l] = [w \in Users |-> 0]
    BY <1>0, <1>1, OpenerFacts
  <2> QED
    BY <1>0, <1>1, <2>1, <2>2, OpenerKeeps DEF Become, OpenerState
<1>3. ASSUME NEW m \in Lobbies \ {l} PROVE Aside(m)
  BY <1>1, <1>3, OthersAside DEF LooksUp
<1> QED
  BY <1>2, <1>3

\* The opener's steps leave the other lobbies aside.
LEMMA OpenerAside ==
    ASSUME CorridaIInv, NEW l \in Lobbies, OpenerStep(l)
    PROVE  /\ \A m \in Lobbies \ {l} : Aside(m)
           /\ opener[l] # "open" /\ opener'[l] \in OpenerState
           /\ UNCHANGED <<lock, join, finish, cleanup, settled, pot>>
<1>1. /\ UNCHANGED <<lock, join, finish, cleanup, settled, pot>>
      /\ \A m \in Lobbies \ {l} : lobby'[m] = lobby[m] /\ opener'[m] = opener[m] /\ net'[m] = net[m]
      /\ race' \in {race, NoLobby}
      /\ opener[l] # "open" /\ opener'[l] \in OpenerState
  BY WithdrawEffect, OpenerPaysEffect, OpenerRefundsEffect, OpenerReservesEffect,
     OpenerMovesEffect
     DEF CorridaIInv, OpenerStep, OpenerTurns, LobbyTurns, NetTurns, OpenerState
<1>2. ASSUME NEW m \in Lobbies \ {l} PROVE Aside(m)
  BY <1>1, OthersAside, LobbiesAssumption DEF Spawns
<1> QED
  BY <1>1, <1>2

\* What an opener's step leaves of its lobby's dict.
OpenerLobby(l) ==
    /\ ~lobby'[l].starting /\ ~lobby'[l].started /\ ~lobby'[l].ended /\ ~lobby'[l].overdue
    /\ lobby'[l].owner = lobby[l].owner

\* The opener's steps keep the invariant of its lobby.
LEMMA OpenerInv ==
    ASSUME CorridaIInv, NEW l \in Lobbies, OpenerStep(l)
    PROVE  LobbyInv(l)'
<1>0. Typed /\ LobbyInv(l)
  BY DEF CorridaIInv
<1>1. /\ UNCHANGED <<lock, join, finish, cleanup, settled, pot>>
      /\ opener[l] # "open" /\ opener'[l] \in OpenerState
  BY OpenerAside
<1>2. OpenerLobby(l)
  BY <1>0, <1>1, OpenerFacts, WithdrawEffect, OpenerPaysEffect, OpenerRefundsEffect,
     OpenerReservesEffect, OpenerMovesEffect
     DEF OpenerStep, LobbyTurns, Become, OpenerLobby
<1>3. CASE OpenerGivesUp(l) \/ OpenerWithdraws(l)
  <2>1. /\ opener[l] \in {"confirming", "withdrawing"} /\ opener'[l] = "done" /\ race' # l
        /\ lobby'[l].locked = lobby[l].locked
        /\ UNCHANGED net
    BY <1>0, <1>3, WithdrawEffect, LobbiesAssumption DEF OpenerTurns, LobbyTurns, Become
  <2>2. net'[l] = [w \in Users |-> 0] /\ lobby[l].locked \subseteq {lobby[l].owner}
    BY <1>0, <1>1, <2>1, OpenerFacts
  <2> QED
    BY <1>0, <1>1, <1>2, <2>1, <2>2, OpenerKeeps DEF OpenerLobby
<1>4. CASE OpenerPays(l)
  <2>1. /\ opener[l] = "confirming" /\ opener'[l] = "paid" /\ UNCHANGED lobby
        /\ net'[l] = [w \in Users |-> IF w = lobby[l].owner THEN net[l][lobby[l].owner] + 1
                                                           ELSE net[l][w]]
    BY <1>0, <1>4, OpenerPaysEffect DEF OpenerTurns, NetTurns
  <2>2. net[l] = [w \in Users |-> 0] /\ lobby[l].locked = {} /\ lobby[l].owner \in Users
    BY <1>0, <1>1, <2>1, OpenerFacts DEF Typed, HandlersKnown
  <2>3. net'[l] = [w \in Users |-> IF w = lobby[l].owner THEN 1 ELSE 0]
    BY <2>1, <2>2
  <2> QED
    BY <1>0, <1>1, <1>2, <2>1, <2>2, <2>3, OpenerKeeps DEF OpenerLobby
<1>5. CASE OpenerRefunds(l)
  <2>1. /\ opener[l] = "refunding" /\ opener'[l] = "withdrawing" /\ UNCHANGED lobby
        /\ net'[l] = [w \in Users |-> IF w = lobby[l].owner THEN net[l][lobby[l].owner] + (-1)
                                                           ELSE net[l][w]]
    BY <1>0, <1>5, OpenerRefundsEffect DEF OpenerTurns, NetTurns
  <2>2. /\ net[l] = [w \in Users |-> IF w = lobby[l].owner THEN 1 ELSE 0]
        /\ lobby[l].locked \subseteq {lobby[l].owner} /\ lobby[l].owner \in Users
    BY <1>0, <1>1, <2>1, OpenerFacts DEF Typed, HandlersKnown
  <2>3. net'[l] = [w \in Users |-> 0]
    BY <2>1, <2>2
  <2> QED
    BY <1>0, <1>1, <1>2, <2>1, <2>2, <2>3, OpenerKeeps DEF OpenerLobby
<1>6. CASE OpenerReserves(l)
  <2>1. /\ opener[l] = "paid" /\ opener'[l] = "posting"
        /\ lobby'[l].locked = lobby[l].locked \cup {lobby[l].owner}
        /\ UNCHANGED <<net, race>>
    BY <1>0, <1>6, OpenerReservesEffect DEF OpenerTurns, LobbyTurns, Become
  <2>2. /\ net[l] = [w \in Users |-> IF w = lobby[l].owner THEN 1 ELSE 0]
        /\ lobby[l].locked = {}
    BY <1>0, <1>1, <2>1, OpenerFacts
  <2> QED
    BY <1>0, <1>1, <1>2, <2>1, <2>2, OpenerKeeps DEF OpenerLobby
<1>7. CASE OpenerRefused(l) \/ OpenerPosts(l) \/ OpenerPostFails(l)
  <2>1. /\ \/ opener[l] = "paid" /\ opener'[l] = "refunding"
           \/ opener[l] = "posting" /\ opener'[l] \in {"open", "refunding"}
        /\ UNCHANGED <<lobby, net, race>>
    BY <1>0, <1>7, OpenerMovesEffect DEF OpenerTurns
  <2>2. /\ net[l] = [w \in Users |-> IF w = lobby[l].owner THEN 1 ELSE 0]
        /\ lobby[l].locked \subseteq {lobby[l].owner}
        /\ opener[l] = "posting" => lobby[l].owner \in lobby[l].locked
    BY <1>0, <1>1, <2>1, OpenerFacts
  <2> QED
    BY <1>0, <1>1, <1>2, <2>1, <2>2, OpenerKeeps DEF OpenerLobby
<1> QED
  BY <1>3, <1>4, <1>5, <1>6, <1>7 DEF OpenerStep

\* A lobby of two players that gets more has two.
LEMMA PlayersGrow ==
    ASSUME NEW S \in SUBSET Users, NEW T \in SUBSET Users, S \subseteq T, Cardinality(S) >= 2
    PROVE  Cardinality(T) >= 2
<1>1. IsFiniteSet(T)
  BY UsersFinite, FS_Subset
<1>2. Cardinality(S) <= Cardinality(T) /\ Cardinality(S) \in Nat /\ Cardinality(T) \in Nat
  BY <1>1, FS_Subset, FS_CardinalityType
<1> QED
  BY <1>2

\* What the invariant says of a lobby whose lock is held.
LEMMA HolderFacts ==
    ASSUME Typed, NEW l \in Lobbies, LobbyInv(l), NEW j \in Joins, lock[l] = j
    PROVE  /\ opener[l] = "open" /\ ~lobby[l].overdue /\ cleanup[l].pc = "none" /\ ~Cancelled(l)
           /\ join[j].lobby = l /\ join[j].user \in Users /\ join[j].user \notin lobby[l].locked
           /\ \A f \in Finishes : ~Refunding(f, l)
           /\ Charged(l) = {join[j].user}
           /\ NetIs(l, lobby[l].locked \cup {join[j].user})
           /\ \A k \in Joins : join[k].lobby = l /\ join[k].pc \in {"paid", "refunding"} => k = j
<1>1. lock[l] # NoTask
  BY TasksAssumption
<1>2. /\ join[j].lobby = l /\ join[j].user \notin lobby[l].locked
      /\ join[j].pc \in {"paid", "refunding"}
      /\ \A k \in Joins : join[k].lobby = l /\ join[k].pc \in {"paid", "refunding"} => k = j
  BY DEF LobbyInv, LockHeld
<1>3. join[j].user \in Users
  BY <1>2 DEF Typed, HandlersKnown
<1>4. opener[l] = "open" /\ ~lobby[l].overdue /\ cleanup[l].pc = "none" /\ ~Cancelled(l)
  BY <1>1, <1>2 DEF LobbyInv, ServesOpen, OverdueFrozen, EndsOnce
<1>5. \A f \in Finishes : ~Refunding(f, l)
  BY <1>1 DEF LobbyInv, DecidedAlone, Refunding
<1>6. Charged(l) = {join[j].user}
  BY <1>3 DEF Charged
<1> QED
  BY <1>2, <1>3, <1>4, <1>5, <1>6 DEF LobbyInv, EntriesHeld

\* A join's step that takes, keeps or gives back the entry of its user.
LEMMA JoinCoreAside ==
    ASSUME CorridaIInv, NEW j \in Joins, NEW l \in Lobbies, join[j].lobby = l,
           \A k \in Joins \ {j} : join'[k] = join[k],
           join'[j].lobby \in {l, NoLobby},
           \A m \in Lobbies \ {l} : lobby'[m] = lobby[m] /\ lock'[m] = lock[m] /\ net'[m] = net[m],
           UNCHANGED <<opener, finish, settled, pot>>,
           \A m \in Lobbies : cleanup'[m] = cleanup[m] \/ Spawns(m),
           \A m \in Lobbies : race' = m => race = m /\ ~Spawns(m)
    PROVE  \A m \in Lobbies \ {l} : Aside(m)
BY OthersAside, LobbiesAssumption

\* A join takes the lock and the entry.
LEMMA ChargeInv ==
    ASSUME CorridaIInv, NEW j \in Joins, NEW l \in Lobbies, NEW u \in Users,
           join[j].lobby = l, join[j].user = u, join[j].pc \in {"confirming", "waiting"},
           lock[l] = NoTask, JoinCharges(j, l, u), LooksUp, DropsRace,
           UNCHANGED <<lobby, opener, finish, settled, pot>>
    PROVE  /\ LobbyInv(l)'
           /\ \A m \in Lobbies \ {l} : Aside(m)
<1>0. Typed /\ LobbyInv(l)
  BY DEF CorridaIInv
<1>1. /\ race = l /\ ~lobby[l].ended /\ ~lobby[l].overdue /\ ~lobby[l].starting
      /\ ~lobby[l].started /\ u \notin lobby[l].locked /\ opener[l] = "open"
  BY <1>0 DEF JoinCharges, Accepting, Seen, HasPlace, LobbyInv, ServesOpen
<1>2. /\ lock'[l] = j /\ \A k \in Joins \ {j} : join'[k] = join[k]
      /\ join'[j].pc = "paid" /\ join'[j].user = u /\ join'[j].lobby = l
      /\ net'[l] = [w \in Users |-> IF w = u THEN net[l][u] + 1 ELSE net[l][w]]
      /\ \A m \in Lobbies \ {l} : lock'[m] = lock[m] /\ net'[m] = net[m]
  BY DEF JoinCharges, LockTurns, JoinTurns, NetTurns
<1>3. cleanup'[l] = cleanup[l] /\ cleanup[l].pc = "none"
  BY <1>0, <1>1 DEF LooksUp, Spawns, LobbyInv, OverdueFrozen
<1>4. \A f \in Finishes : ~Refunding(f, l)
  BY <1>0, <1>1 DEF LobbyInv, DecidedAlone, BeingDecided, Refunding
<1>5. ServesOpen(l)'
  BY <1>0, <1>1, <1>2 DEF LobbyInv, ServesOpen
<1>6. LockHeld(l)'
  BY <1>0, <1>1, <1>2, TasksAssumption DEF LobbyInv, LockHeld
<1>7. Opening(l)' /\ OverdueFrozen(l)'
  BY <1>1, <1>3, <1>0 DEF LobbyInv, Opening, OverdueFrozen
<1>8. DecidedAlone(l)'
  BY <1>0, <1>4 DEF LobbyInv, DecidedAlone, BeingDecided, Refunding, TwoPlayers
<1>9. EndsOnce(l)' /\ settled[l] = 0
  BY <1>0, <1>1 DEF LobbyInv, EndsOnce, Cancelled
<1>10. EntriesHeld(l)'
  <2>1. Charged(l) = {} /\ Charged(l)' = {u}
    BY <1>2, TasksAssumption DEF Charged
  <2>2. NetIs(l, lobby[l].locked)
    BY <1>0, <1>1, <1>3, <1>4, <2>1 DEF LobbyInv, EntriesHeld, Cancelled
  <2>3. NetIs(l, lobby[l].locked \cup Charged(l))'
    BY <1>1, <1>2, <2>1, <2>2 DEF NetIs
  <2> QED
    BY <1>1, <1>3, <1>4, <2>3 DEF EntriesHeld, Cancelled, Refunding
<1>11. \A m \in Lobbies \ {l} : Aside(m)
  BY <1>0, <1>2, LookupAside, JoinCoreAside
<1> QED
  BY <1>5, <1>6, <1>7, <1>8, <1>9, <1>10, <1>11 DEF LobbyInv

\* The entry is saved: who was charged is now a player.
LEMMA ReserveInv ==
    ASSUME CorridaIInv, NEW j \in Joins, NEW l \in Lobbies, NEW u \in Users,
           join[j].lobby = l, join[j].user = u, join[j].pc = "paid",
           LobbyTurns(l, lobby[l].locked \cup {u}, lobby[l].starting, lobby[l].started,
                      lobby[l].ended, TRUE, FALSE),
           LockTurns(l, NoTask), JoinTurns(j, "idle", NoUser, NoLobby),
           UNCHANGED <<race, opener, finish, cleanup, net, settled, pot>>
    PROVE  /\ LobbyInv(l)'
           /\ \A m \in Lobbies \ {l} : Aside(m)
<1>0. Typed /\ LobbyInv(l) /\ lock[l] = j
  BY DEF CorridaIInv, LobbyInv, LockHeld
<1>1. /\ opener[l] = "open" /\ ~lobby[l].overdue /\ cleanup[l].pc = "none" /\ ~Cancelled(l)
      /\ \A f \in Finishes : ~Refunding(f, l)
      /\ NetIs(l, lobby[l].locked \cup {u})
      /\ \A k \in Joins : join[k].lobby = l /\ join[k].pc \in {"paid", "refunding"} => k = j
  BY <1>0, HolderFacts
<1>2. /\ lobby'[l].owner = lobby[l].owner /\ lobby'[l].locked = lobby[l].locked \cup {u}
      /\ lobby'[l].starting = lobby[l].starting /\ lobby'[l].started = lobby[l].started
      /\ lobby'[l].ended = lobby[l].ended /\ ~lobby'[l].overdue
      /\ \A m \in Lobbies \ {l} : lobby'[m] = lobby[m] /\ lock'[m] = lock[m]
      /\ lock'[l] = NoTask /\ join'[j].lobby = NoLobby
      /\ \A k \in Joins \ {j} : join'[k] = join[k]
  BY DEF LobbyTurns, Become, LockTurns, JoinTurns
<1>3. TwoPlayers(l) => TwoPlayers(l)'
  BY <1>0, <1>2, PlayersGrow, LobbyFields DEF TwoPlayers
<1>4. ServesOpen(l)'
  BY <1>0, <1>2, LobbiesAssumption DEF LobbyInv, ServesOpen
<1>5. LockHeld(l)'
  BY <1>1, <1>2, TasksAssumption, LobbiesAssumption DEF LockHeld
<1>6. Opening(l)' /\ OverdueFrozen(l)'
  BY <1>0, <1>1, <1>2 DEF LobbyInv, Opening, OverdueFrozen
<1>7. DecidedAlone(l)'
  BY <1>0, <1>1, <1>2, <1>3 DEF LobbyInv, DecidedAlone, BeingDecided, Refunding
<1>8. EndsOnce(l)'
  BY <1>0, <1>1, <1>2 DEF LobbyInv, EndsOnce, Cancelled
<1>9. EntriesHeld(l)'
  <2>1. Charged(l)' = {}
    BY <1>2, TasksAssumption DEF Charged
  <2>2. NetIs(l, lobby[l].locked \cup Charged(l))'
    BY <1>1, <1>2, <2>1 DEF NetIs
  <2> QED
    BY <1>1, <1>2, <2>2 DEF EntriesHeld, Cancelled, Refunding
<1>10. \A m \in Lobbies \ {l} : Aside(m)
  BY <1>2, JoinCoreAside DEF Spawns
<1> QED
  BY <1>4, <1>5, <1>6, <1>7, <1>8, <1>9, <1>10 DEF LobbyInv

\* The place is refused: the entry goes back and the lock is free.
LEMMA GiveBackInv ==
    ASSUME CorridaIInv, NEW j \in Joins, NEW l \in Lobbies, NEW u \in Users,
           join[j].lobby = l, join[j].user = u, join[j].pc = "refunding",
           NetTurns(l, u, -1), LockTurns(l, NoTask), JoinTurns(j, "idle", NoUser, NoLobby),
           UNCHANGED <<race, lobby, opener, finish, cleanup, settled, pot>>
    PROVE  /\ LobbyInv(l)'
           /\ \A m \in Lobbies \ {l} : Aside(m)
<1>0. Typed /\ LobbyInv(l) /\ lock[l] = j
  BY DEF CorridaIInv, LobbyInv, LockHeld
<1>1. /\ opener[l] = "open" /\ ~lobby[l].overdue /\ cleanup[l].pc = "none" /\ ~Cancelled(l)
      /\ \A f \in Finishes : ~Refunding(f, l)
      /\ NetIs(l, lobby[l].locked \cup {u}) /\ u \notin lobby[l].locked
      /\ \A k \in Joins : join[k].lobby = l /\ join[k].pc \in {"paid", "refunding"} => k = j
  BY <1>0, HolderFacts
<1>2. /\ \A m \in Lobbies \ {l} : lock'[m] = lock[m] /\ net'[m] = net[m]
      /\ lock'[l] = NoTask /\ join'[j].lobby = NoLobby
      /\ \A k \in Joins \ {j} : join'[k] = join[k]
      /\ net'[l] = [w \in Users |-> IF w = u THEN net[l][u] + (-1) ELSE net[l][w]]
  BY DEF LockTurns, JoinTurns, NetTurns
<1>4. ServesOpen(l)'
  BY <1>0, <1>2, LobbiesAssumption DEF LobbyInv, ServesOpen
<1>5. LockHeld(l)'
  BY <1>1, <1>2, TasksAssumption, LobbiesAssumption DEF LockHeld
<1>6. Opening(l)' /\ OverdueFrozen(l)'
  BY <1>0, <1>1, <1>2 DEF LobbyInv, Opening, OverdueFrozen
<1>7. DecidedAlone(l)'
  BY <1>0, <1>1, <1>2 DEF LobbyInv, DecidedAlone, BeingDecided, Refunding, TwoPlayers
<1>8. EndsOnce(l)'
  BY <1>0, <1>1, <1>2 DEF LobbyInv, EndsOnce, Cancelled
<1>9. EntriesHeld(l)'
  <2>1. Charged(l)' = {}
    BY <1>2, TasksAssumption DEF Charged
  <2>2. NetIs(l, lobby[l].locked \cup Charged(l))'
    BY <1>1, <1>2, <2>1 DEF NetIs
  <2> QED
    BY <1>1, <1>2, <2>2 DEF EntriesHeld, Cancelled, Refunding
<1>10. \A m \in Lobbies \ {l} : Aside(m)
  BY <1>2, JoinCoreAside DEF Spawns
<1> QED
  BY <1>4, <1>5, <1>6, <1>7, <1>8, <1>9, <1>10 DEF LobbyInv

\* Every step of a join handler, seen from its lobby.
LEMMA JoinInv ==
    ASSUME CorridaIInv, NEW j \in Joins, JoinStep(j)
    PROVE  \/ \A m \in Lobbies : Aside(m)
           \/ \E l \in Lobbies : LobbyInv(l)' /\ \A m \in Lobbies \ {l} : Aside(m)
<1>0. Typed
  BY DEF CorridaIInv
<1>1. CASE JoinGivesUp(j) \/ JoinRefused(j) \/ (JoinConfirms(j) /\ ~LockAtOnce(join[j].lobby))
  BY <1>1, JoinLight
<1>2. join[j].pc # "idle" => join[j].lobby \in Lobbies /\ join[j].user \in Users
  BY <1>0 DEF Typed, HandlersKnown
<1>3. CASE JoinGetsLock(j) \/ (JoinConfirms(j) /\ LockAtOnce(join[j].lobby))
  <2>1. /\ join[j].pc \in {"confirming", "waiting"} /\ lock[join[j].lobby] = NoTask
        /\ EnterJoin(j)
    BY <1>3 DEF JoinGetsLock, JoinConfirms, LockAtOnce
  <2>2. /\ JoinCharges(j, join[j].lobby, join[j].user) \/ JoinFails(j)
        /\ LooksUp /\ DropsRace
        /\ UNCHANGED <<lobby, opener, finish, settled, pot>>
    BY <1>0, <2>1, EnterJoinEffect
  <2>3. CASE JoinFails(j)
    BY <2>1, <2>2, <2>3, JoinFailsAside
  <2>4. CASE JoinCharges(j, join[j].lobby, join[j].user)
    BY <1>2, <2>1, <2>2, <2>4, ChargeInv
  <2> QED
    BY <2>2, <2>3, <2>4
<1>4. CASE JoinReserves(j)
  <2> DEFINE l == join[j].lobby
             u == join[j].user
  <2>1. /\ join[j].pc = "paid"
        /\ LobbyTurns(l, lobby[l].locked \cup {u}, lobby[l].starting, lobby[l].started,
                      lobby[l].ended, TRUE, FALSE)
        /\ LockTurns(l, NoTask) /\ JoinTurns(j, "idle", NoUser, NoLobby)
        /\ UNCHANGED <<race, opener, finish, cleanup, net, settled, pot>>
    BY <1>0, <1>4, JoinReservesEffect
  <2>2. l \in Lobbies /\ u \in Users
    BY <1>2, <2>1
  <2>3. l = join[j].lobby /\ u = join[j].user
    OBVIOUS
  <2> HIDE DEF l, u
  <2> QED
    BY <2>1, <2>2, <2>3, ReserveInv
<1>5. CASE JoinRefunds(j)
  BY <1>0, <1>2, <1>5, JoinRefundsEffect, GiveBackInv
<1> QED
  BY <1>1, <1>3, <1>4, <1>5 DEF JoinStep

\* What the invariant says of a lobby on which a finishing handler works.
LEMMA FinisherFacts ==
    ASSUME Typed, NEW l \in Lobbies, LobbyInv(l), NEW f \in Finishes, finish[f].lobby = l
    PROVE  opener[l] = "open" /\ ~lobby[l].overdue /\ cleanup[l].pc = "none"
BY DEF LobbyInv, ServesOpen, OverdueFrozen

\* A step of a finishing handler on its lobby leaves the others aside.
LEMMA FinishCoreAside ==
    ASSUME CorridaIInv, NEW f \in Finishes, NEW l \in Lobbies,
           finish[f].lobby = l \/ finish[f].pc = "idle",
           \A g \in Finishes \ {f} : finish'[g] = finish[g],
           finish'[f].lobby = l,
           \A m \in Lobbies \ {l} : lobby'[m] = lobby[m] /\ net'[m] = net[m]
                                    /\ settled'[m] = settled[m] /\ pot'[m] = pot[m],
           UNCHANGED <<opener, lock, join>>,
           \A m \in Lobbies : cleanup'[m] = cleanup[m] \/ Spawns(m),
           \A m \in Lobbies : race' = m => race = m /\ ~Spawns(m)
    PROVE  \A m \in Lobbies \ {l} : Aside(m)
<1>1. ASSUME NEW m \in Lobbies \ {l} PROVE finish[f].lobby # m
  BY DEF CorridaIInv, LobbyInv, ServesOpen
<1> QED
  BY <1>1, OthersAside

\* The first caller under the lock.
LEMMA EntersInv ==
    ASSUME CorridaIInv, NEW f \in Finishes, NEW l \in Lobbies, NEW source \in {"button", "timeout"},
           finish[f].pc = "idle" \/ (finish[f].pc = "waiting" /\ finish[f].lobby = l),
           opener[l] = "open", lock[l] = NoTask, FinishEnters(f, l, source), LooksUp, DropsRace,
           UNCHANGED <<lock, opener, join, net, settled, pot>>
    PROVE  /\ LobbyInv(l)'
           /\ \A m \in Lobbies \ {l} : Aside(m)
<1>0. Typed /\ LobbyInv(l)
  BY DEF CorridaIInv
<1>1. race = l /\ ~lobby[l].ended /\ ~lobby[l].overdue /\ ~lobby[l].starting /\ ~lobby[l].started
  BY DEF FinishEnters, Accepting, Seen
<1>2. /\ lobby'[l].owner = lobby[l].owner /\ lobby'[l].locked = lobby[l].locked
      /\ lobby'[l].starting /\ ~lobby'[l].started /\ ~lobby'[l].ended /\ ~lobby'[l].overdue
      /\ \A m \in Lobbies \ {l} : lobby'[m] = lobby[m]
      /\ \A g \in Finishes \ {f} : finish'[g] = finish[g]
      /\ finish'[f].lobby = l
      /\ \/ finish'[f].pc = "refunding" /\ finish'[f].left = lobby[l].locked
         \/ finish'[f].pc = "prelude"
  BY <1>1 DEF FinishEnters, LobbyTurns, Become, FinishTurns
<1>3. /\ MayLeave = {} /\ finish'[f].pc = "refunding" => ~TwoPlayers(l)
      /\ MayLeave = {} /\ finish'[f].pc = "prelude" => TwoPlayers(l)
  <2>1. PICK left \in SUBSET (lobby[l].locked \cap MayLeave) :
          \/ Cardinality(lobby[l].locked \ left) < 2 /\ finish'[f].pc = "refunding"
          \/ ~(Cardinality(lobby[l].locked \ left) < 2) /\ finish'[f].pc = "prelude"
    BY DEF FinishEnters, FinishTurns
  <2>2. Cardinality(lobby[l].locked) \in Nat
    BY <1>0, LobbyFields, UsersFinite, FS_Subset, FS_CardinalityType
  <2>3. MayLeave = {} => lobby[l].locked \ left = lobby[l].locked
    OBVIOUS
  <2>4. ASSUME MayLeave = {}
        PROVE  \/ finish'[f].pc = "refunding" /\ Cardinality(lobby[l].locked) < 2
               \/ finish'[f].pc = "prelude" /\ ~(Cardinality(lobby[l].locked) < 2)
    BY <2>1, <2>3, <2>4
  <2>5. TwoPlayers(l) <=> ~(Cardinality(lobby[l].locked) < 2)
    BY <2>2 DEF TwoPlayers
  <2> QED
    BY <2>4, <2>5
<1>4. cleanup'[l] = cleanup[l] /\ cleanup[l].pc = "none"
  BY <1>0, <1>1 DEF LooksUp, Spawns, LobbyInv, OverdueFrozen
<1>5. \A g \in Finishes : finish[g].lobby = l =>
         finish[g].pc = "waiting" \/ (finish[g].pc = "prelude" /\ MayLeave = {} /\ TwoPlayers(l))
  <2>1. ASSUME NEW g \in Finishes, finish[g].lobby = l
        PROVE  finish[g].pc \notin {"idle", "refunding", "closing", "started", "racing", "paying"}
    BY <1>0, <1>1, <2>1 DEF LobbyInv, ServesOpen, DecidedAlone, BeingDecided
  <2>2. ASSUME NEW g \in Finishes, finish[g].lobby = l, finish[g].pc = "prelude"
        PROVE  MayLeave = {} /\ TwoPlayers(l)
    BY <1>0, <1>1, <2>2 DEF LobbyInv, DecidedAlone, BeingDecided
  <2>3. \A g \in Finishes : finish[g].pc \in FinishState
    BY <1>0, LobbyTypesOf DEF FinishRecord
  <2> QED
    BY <2>1, <2>2, <2>3 DEF FinishState
<1>6. ServesOpen(l)' /\ LockHeld(l)' /\ Opening(l)' /\ OverdueFrozen(l)'
  BY <1>0, <1>2, <1>4 DEF LobbyInv, ServesOpen, LockHeld, Opening, OverdueFrozen
<1>7. DecidedAlone(l)'
  <2>1. TwoPlayers(l)' = TwoPlayers(l)
    BY <1>2 DEF TwoPlayers
  <2>2. ASSUME NEW g \in Finishes, finish'[g].lobby = l, BeingDecided(g, l)'
        PROVE  /\ lobby'[l].starting /\ ~lobby'[l].started /\ ~lobby'[l].ended
               /\ \A h \in Finishes \ {g} : finish'[h].lobby = l => finish'[h].pc = "waiting"
    <3>1. g = f
      BY <1>2, <1>5, <2>2 DEF BeingDecided
    <3>2. \A h \in Finishes \ {f} : finish[h].lobby = l => finish[h].pc = "waiting"
      BY <1>2, <1>3, <1>5, <2>2, <3>1 DEF BeingDecided
    <3> QED
      BY <1>2, <3>1, <3>2
  <2>3. ASSUME NEW g \in Finishes, finish'[g].lobby = l
        PROVE  /\ finish'[g].pc = "refunding" =>
                    /\ lock'[l] = NoTask
                    /\ finish'[g].left \subseteq lobby'[l].locked
                    /\ MayLeave = {} => ~TwoPlayers(l)'
               /\ finish'[g].pc = "prelude" /\ MayLeave = {} => TwoPlayers(l)'
               /\ finish'[g].pc = "waiting" /\ finish'[g].source = "button" => TwoPlayers(l)'
               /\ finish'[g].pc \notin {"started", "racing", "closing", "paying"}
    <3>1. CASE g = f
      BY <1>2, <1>3, <2>1, <3>1
    <3>2. CASE g # f
      <4>1. finish'[g] = finish[g] /\ finish[g].lobby = l
        BY <1>2, <2>3, <3>2
      <4>2. finish[g].pc = "waiting" /\ finish[g].source = "button" => TwoPlayers(l)
        BY <1>0, <4>1 DEF LobbyInv, DecidedAlone
      <4> QED
        BY <1>5, <2>1, <4>1, <4>2
    <3> QED
      BY <3>1, <3>2
  <2> QED
    BY <2>2, <2>3 DEF DecidedAlone
<1>8. EndsOnce(l)' /\ ~Cancelled(l) /\ ~Cancelled(l)'
  BY <1>0, <1>1, <1>2 DEF LobbyInv, EndsOnce, Cancelled
<1>9. EntriesHeld(l)'
  <2>1. Charged(l) = {} /\ Charged(l)' = {}
    BY TasksAssumption DEF Charged
  <2>2. \A g \in Finishes : ~Refunding(g, l)
    BY <1>5 DEF Refunding
  <2>3. NetIs(l, lobby[l].locked)
    BY <1>0, <1>4, <1>8, <2>1, <2>2 DEF LobbyInv, EntriesHeld
  <2>4. NetIs(l, lobby[l].locked)'
    BY <1>2, <2>3 DEF NetIs
  <2>5. \A g \in Finishes : Refunding(g, l)' => finish'[g].left = lobby'[l].locked
    BY <1>2, <2>2 DEF Refunding
  <2> QED
    BY <1>4, <1>8, <2>1, <2>4, <2>5 DEF EntriesHeld
<1>10. \A m \in Lobbies \ {l} : Aside(m)
  BY <1>0, <1>2, LookupAside, FinishCoreAside
<1> QED
  BY <1>6, <1>7, <1>8, <1>9, <1>10 DEF LobbyInv

\* A player gets the entry back, one at a time.
LEMMA RefundInv ==
    ASSUME CorridaIInv, NEW f \in Finishes, NEW l \in Lobbies, NEW u \in Users,
           finish[f].lobby = l, finish[f].pc = "refunding", u \in finish[f].left,
           NetTurns(l, u, -1),
           FinishTurns(f, "refunding", l, finish[f].source, finish[f].left \ {u}),
           UNCHANGED <<race, lobby, lock, opener, join, cleanup, settled, pot>>
    PROVE  /\ LobbyInv(l)'
           /\ \A m \in Lobbies \ {l} : Aside(m)
<1>0. Typed /\ LobbyInv(l)
  BY DEF CorridaIInv
<1>1. /\ opener[l] = "open" /\ cleanup[l].pc = "none" /\ ~lobby[l].ended
      /\ \A g \in Finishes \ {f} : finish[g].lobby = l => finish[g].pc = "waiting"
      /\ NetIs(l, finish[f].left)
  BY <1>0, FinisherFacts DEF LobbyInv, DecidedAlone, BeingDecided, EntriesHeld, Refunding
<1>2. /\ \A g \in Finishes \ {f} : finish'[g] = finish[g]
      /\ finish'[f].pc = "refunding" /\ finish'[f].lobby = l
      /\ finish'[f].source = finish[f].source /\ finish'[f].left = finish[f].left \ {u}
      /\ \A m \in Lobbies \ {l} : net'[m] = net[m]
      /\ net'[l] = [w \in Users |-> IF w = u THEN net[l][u] + (-1) ELSE net[l][w]]
  BY DEF FinishTurns, NetTurns
<1>3. ServesOpen(l)' /\ LockHeld(l)' /\ Opening(l)' /\ OverdueFrozen(l)'
  BY <1>0, <1>2 DEF LobbyInv, ServesOpen, LockHeld, Opening, OverdueFrozen
<1>4. DecidedAlone(l)'
  BY <1>0, <1>1, <1>2 DEF LobbyInv, DecidedAlone, BeingDecided, TwoPlayers
<1>5. EndsOnce(l)'
  BY <1>0, <1>1, <1>2 DEF LobbyInv, EndsOnce, Cancelled
<1>6. EntriesHeld(l)'
  <2>1. NetIs(l, finish[f].left)'
    BY <1>1, <1>2 DEF NetIs
  <2>2. \A g \in Finishes : Refunding(g, l)' => g = f
    BY <1>1, <1>2 DEF Refunding
  <2>3. Refunding(f, l)'
    BY <1>2 DEF Refunding
  <2> QED
    BY <1>1, <2>1, <2>2, <2>3 DEF EntriesHeld, Cancelled
<1>7. \A m \in Lobbies \ {l} : Aside(m)
  BY <1>2, FinishCoreAside DEF Spawns
<1> QED
  BY <1>3, <1>4, <1>5, <1>6, <1>7 DEF LobbyInv

\* Everybody has the entry back: the lobby is over.
LEMMA CancelInv ==
    ASSUME CorridaIInv, NEW f \in Finishes, NEW l \in Lobbies,
           finish[f].lobby = l, finish[f].pc = "refunding", finish[f].left = {},
           LobbyTurns(l, lobby[l].locked, FALSE, FALSE, TRUE, FALSE, lobby[l].overdue),
           FinishTurns(f, "closing", l, finish[f].source, {}),
           UNCHANGED <<race, lock, opener, join, cleanup, net, settled, pot>>
    PROVE  /\ LobbyInv(l)'
           /\ \A m \in Lobbies \ {l} : Aside(m)
<1>0. Typed /\ LobbyInv(l)
  BY DEF CorridaIInv
<1>1. /\ opener[l] = "open" /\ cleanup[l].pc = "none" /\ ~lobby[l].overdue /\ lock[l] = NoTask
      /\ \A g \in Finishes \ {f} : finish[g].lobby = l => finish[g].pc = "waiting"
      /\ NetIs(l, {}) /\ settled[l] = 0
  BY <1>0, FinisherFacts
     DEF LobbyInv, DecidedAlone, BeingDecided, EntriesHeld, Refunding, EndsOnce
<1>2. /\ lobby'[l].owner = lobby[l].owner /\ lobby'[l].locked = lobby[l].locked
      /\ ~lobby'[l].starting /\ ~lobby'[l].started /\ lobby'[l].ended /\ ~lobby'[l].overdue
      /\ \A m \in Lobbies \ {l} : lobby'[m] = lobby[m]
      /\ \A g \in Finishes \ {f} : finish'[g] = finish[g]
      /\ finish'[f].pc = "closing" /\ finish'[f].lobby = l
  BY <1>1 DEF LobbyTurns, Become, FinishTurns
<1>3. ServesOpen(l)' /\ LockHeld(l)' /\ Opening(l)' /\ OverdueFrozen(l)'
  BY <1>0, <1>1, <1>2 DEF LobbyInv, ServesOpen, LockHeld, Opening, OverdueFrozen
<1>4. DecidedAlone(l)'
  BY <1>0, <1>1, <1>2 DEF LobbyInv, DecidedAlone, BeingDecided, TwoPlayers
<1>5. EndsOnce(l)'
  BY <1>0, <1>1, <1>2 DEF LobbyInv, EndsOnce, Cancelled
<1>6. EntriesHeld(l)'
  <2>1. NetIs(l, {})' /\ Cancelled(l)'
    BY <1>1, <1>2 DEF NetIs, Cancelled
  <2>2. \A g \in Finishes : ~Refunding(g, l)'
    BY <1>1, <1>2 DEF Refunding
  <2> QED
    BY <1>1, <2>1, <2>2 DEF EntriesHeld
<1>7. \A m \in Lobbies \ {l} : Aside(m)
  BY <1>2, FinishCoreAside DEF Spawns
<1> QED
  BY <1>3, <1>4, <1>5, <1>6, <1>7 DEF LobbyInv

\* The race is started, is under way, and is settled.
LEMMA RaceInv ==
    ASSUME CorridaIInv, NEW f \in Finishes, NEW l \in Lobbies, NEW starting \in BOOLEAN,
           NEW pc,
           finish[f].lobby = l,
           \/ finish[f].pc = "prelude" /\ pc = "started"
           \/ finish[f].pc = "started" /\ pc = "racing",
           LobbyTurns(l, lobby[l].locked, starting, TRUE, lobby[l].ended, lobby[l].created,
                      lobby[l].overdue),
           FinishTurns(f, pc, l, finish[f].source, finish[f].left),
           UNCHANGED <<race, lock, opener, join, cleanup, net, settled, pot>>
    PROVE  /\ LobbyInv(l)'
           /\ \A m \in Lobbies \ {l} : Aside(m)
<1>0. Typed /\ LobbyInv(l)
  BY DEF CorridaIInv
<1>1. /\ opener[l] = "open" /\ cleanup[l].pc = "none" /\ ~lobby[l].overdue
      /\ \A g \in Finishes \ {f} : ~BeingDecided(g, l)
      /\ ~Cancelled(l)
  BY <1>0, FinisherFacts DEF LobbyInv, DecidedAlone, BeingDecided, EndsOnce
<1>2. /\ lobby'[l].owner = lobby[l].owner /\ lobby'[l].locked = lobby[l].locked
      /\ lobby'[l].started /\ lobby'[l].ended = lobby[l].ended /\ ~lobby'[l].overdue
      /\ \A m \in Lobbies \ {l} : lobby'[m] = lobby[m]
      /\ \A g \in Finishes \ {f} : finish'[g] = finish[g]
      /\ finish'[f].pc = pc /\ finish'[f].lobby = l
  BY <1>1 DEF LobbyTurns, Become, FinishTurns
<1>3. ServesOpen(l)' /\ LockHeld(l)' /\ Opening(l)' /\ OverdueFrozen(l)'
  BY <1>0, <1>1, <1>2 DEF LobbyInv, ServesOpen, LockHeld, Opening, OverdueFrozen
<1>4. DecidedAlone(l)'
  BY <1>0, <1>1, <1>2 DEF LobbyInv, DecidedAlone, BeingDecided, TwoPlayers
<1>5. EndsOnce(l)'
  BY <1>0, <1>1, <1>2 DEF LobbyInv, EndsOnce, Cancelled
<1>6. EntriesHeld(l)'
  <2>1. \A g \in Finishes : ~Refunding(g, l) /\ ~Refunding(g, l)'
    BY <1>1, <1>2 DEF Refunding, BeingDecided
  <2>2. Charged(l)' = Charged(l)
    BY DEF Charged
  <2>3. NetIs(l, lobby[l].locked \cup Charged(l))
    BY <1>0, <1>1, <2>1 DEF LobbyInv, EntriesHeld
  <2>4. NetIs(l, lobby[l].locked \cup Charged(l))'
    BY <1>2, <2>2, <2>3 DEF NetIs
  <2> QED
    BY <1>1, <1>2, <2>1, <2>4 DEF EntriesHeld, Cancelled
<1>7. \A m \in Lobbies \ {l} : Aside(m)
  BY <1>2, FinishCoreAside DEF Spawns
<1> QED
  BY <1>3, <1>4, <1>5, <1>6, <1>7 DEF LobbyInv

\* The last tick: the pot is shared out.
LEMMA SettleInv ==
    ASSUME CorridaIInv, NEW f \in Finishes, NEW l \in Lobbies,
           finish[f].lobby = l, finish[f].pc = "racing", ~lobby[l].ended,
           LobbyTurns(l, lobby[l].locked, FALSE, lobby[l].started, TRUE, lobby[l].created,
                      lobby[l].overdue),
           FinishTurns(f, "paying", l, finish[f].source, finish[f].left),
           settled' = [settled EXCEPT ![l] = @ + 1],
           pot' = [pot EXCEPT ![l] = lobby[l].locked],
           UNCHANGED <<race, lock, opener, join, cleanup, net>>
    PROVE  /\ LobbyInv(l)'
           /\ \A m \in Lobbies \ {l} : Aside(m)
<1>0. Typed /\ LobbyInv(l)
  BY DEF CorridaIInv
<1>1. /\ opener[l] = "open" /\ cleanup[l].pc = "none" /\ ~lobby[l].overdue
      /\ \A g \in Finishes \ {f} : ~BeingDecided(g, l)
      /\ settled[l] = 0
  BY <1>0, FinisherFacts DEF LobbyInv, DecidedAlone, BeingDecided, EndsOnce
<1>2. /\ lobby'[l].owner = lobby[l].owner /\ lobby'[l].locked = lobby[l].locked
      /\ lobby'[l].started = lobby[l].started /\ lobby'[l].ended /\ ~lobby'[l].overdue
      /\ \A m \in Lobbies \ {l} : lobby'[m] = lobby[m]
      /\ \A g \in Finishes \ {f} : finish'[g] = finish[g]
      /\ finish'[f].pc = "paying" /\ finish'[f].lobby = l
      /\ settled'[l] = 1 /\ pot'[l] = lobby[l].locked
      /\ \A m \in Lobbies \ {l} : settled'[m] = settled[m] /\ pot'[m] = pot[m]
  BY <1>0, <1>1, LobbyTypesOf DEF LobbyTurns, Become, FinishTurns
<1>3. ServesOpen(l)' /\ LockHeld(l)' /\ Opening(l)' /\ OverdueFrozen(l)'
  BY <1>0, <1>1, <1>2 DEF LobbyInv, ServesOpen, LockHeld, Opening, OverdueFrozen
<1>4. DecidedAlone(l)'
  BY <1>0, <1>1, <1>2 DEF LobbyInv, DecidedAlone, BeingDecided, TwoPlayers
<1>5. EndsOnce(l)'
  BY <1>2 DEF EndsOnce, Cancelled
<1>6. EntriesHeld(l)'
  <2>1. \A g \in Finishes : ~Refunding(g, l) /\ ~Refunding(g, l)'
    BY <1>1, <1>2 DEF Refunding, BeingDecided
  <2>2. Charged(l)' = Charged(l)
    BY DEF Charged
  <2>3. NetIs(l, lobby[l].locked \cup Charged(l))
    BY <1>0, <1>1, <2>1 DEF LobbyInv, EntriesHeld, Cancelled
  <2>4. NetIs(l, lobby[l].locked \cup Charged(l))'
    BY <1>2, <2>2, <2>3 DEF NetIs
  <2> QED
    BY <1>1, <1>2, <2>1, <2>4 DEF EntriesHeld, Cancelled
<1>7. \A m \in Lobbies \ {l} : Aside(m)
  BY <1>2, FinishCoreAside DEF Spawns
<1> QED
  BY <1>3, <1>4, <1>5, <1>6, <1>7 DEF LobbyInv

\* What a step must show: either it leaves every lobby aside, or it keeps the
\* invariant of the one it is about.
Focused ==
    \/ \A m \in Lobbies : Aside(m)
    \/ \E l \in Lobbies : LobbyInv(l)' /\ \A m \in Lobbies \ {l} : Aside(m)

\* Under the lock, whatever comes of it.
LEMMA EnterFinishInv ==
    ASSUME CorridaIInv, NEW f \in Finishes, NEW l \in Lobbies, NEW source \in {"button", "timeout"},
           finish[f].pc = "idle" \/ (finish[f].pc = "waiting" /\ finish[f].lobby = l),
           opener[l] = "open", lock[l] = NoTask, EnterFinish(f, l, source)
    PROVE  Focused
<1>1. /\ \/ FinishEnters(f, l, source)
         \/ ~Accepting(l) /\ Refuses(source) /\ FinishTurns(f, "idle", NoLobby, "none", {})
      /\ LooksUp /\ DropsRace
      /\ UNCHANGED <<lock, opener, join, net, settled, pot>>
  BY EnterFinishEffect DEF CorridaIInv
<1>2. CASE FinishEnters(f, l, source)
  BY <1>1, <1>2, EntersInv DEF Focused
<1>3. CASE ~FinishEnters(f, l, source)
  BY <1>1, <1>3, FinishRefusedAside DEF Focused
<1> QED
  BY <1>2, <1>3

\* Every step of a finishing handler, seen from its lobby.
LEMMA FinishInv ==
    ASSUME CorridaIInv, NEW f \in Finishes,
           \/ FinishStep(f)
           \/ \E l \in Lobbies : PressStart(f, l) \/ ViewTimesOut(f, l)
    PROVE  Focused
<1>0. Typed
  BY DEF CorridaIInv
<1>1. finish[f].pc # "idle" => finish[f].lobby \in Lobbies
                               /\ finish[f].source \in {"button", "timeout"}
  BY <1>0 DEF Typed, HandlersKnown
<1>2. ASSUME NEW l \in Lobbies, PressStart(f, l) \/ ViewTimesOut(f, l) PROVE Focused
  <2>1. CASE LookupDropsRace
    BY <2>1, LookupDropsAside DEF Focused
  <2>2. CASE ~LookupDropsRace /\ ~LockAtOnce(l)
    BY <1>2, <2>2, FinishWaitsAside DEF Focused
  <2>3. CASE ~LookupDropsRace /\ LockAtOnce(l)
    <3>1. /\ finish[f].pc = "idle" /\ opener[l] = "open" /\ lock[l] = NoTask
          /\ \E source \in {"button", "timeout"} : EnterFinish(f, l, source)
      BY <1>2, <2>3 DEF PressStart, ViewTimesOut, CallFinish, LockAtOnce
    <3> QED
      BY <3>1, EnterFinishInv
  <2> QED
    BY <2>1, <2>2, <2>3
<1>3. CASE FinishGetsLock(f)
  <2>1. finish[f].pc = "waiting" /\ lock[finish[f].lobby] = NoTask
        /\ EnterFinish(f, finish[f].lobby, finish[f].source)
    BY <1>3 DEF FinishGetsLock
  <2>2. opener[finish[f].lobby] = "open"
    BY <1>1, <2>1 DEF CorridaIInv, LobbyInv, ServesOpen
  <2> QED
    BY <1>1, <2>1, <2>2, EnterFinishInv
<1>4. CASE FinishCloses(f) \/ FinishFindsEnd(f) \/ FinishPays(f)
  BY <1>4, FinishLight DEF Focused
<1> DEFINE l == finish[f].lobby
<1>5. ASSUME NEW u \in Users, FinishRefunds(f, u) PROVE Focused
  BY <1>0, <1>1, <1>5, FinishRefundsEffect, RefundInv DEF Focused
<1>6. CASE FinishCancels(f)
  <2>1. /\ finish[f].pc = "refunding" /\ finish[f].left = {} /\ l \in Lobbies
        /\ LobbyTurns(l, lobby[l].locked, FALSE, FALSE, TRUE, FALSE, lobby[l].overdue)
        /\ FinishTurns(f, "closing", l, finish[f].source, {})
        /\ UNCHANGED <<race, lock, opener, join, cleanup, net, settled, pot>>
    BY <1>0, <1>1, <1>6, FinishCancelsEffect
  <2>2. l = finish[f].lobby
    OBVIOUS
  <2> HIDE DEF l
  <2> QED
    BY <2>1, <2>2, CancelInv DEF Focused
<1>7. CASE FinishStarts(f)
  <2>1. /\ finish[f].pc = "prelude" /\ l \in Lobbies
        /\ LobbyTurns(l, lobby[l].locked, TRUE, TRUE, lobby[l].ended, lobby[l].created,
                      lobby[l].overdue)
        /\ FinishTurns(f, "started", l, finish[f].source, finish[f].left)
        /\ UNCHANGED <<race, lock, opener, join, cleanup, net, settled, pot>>
    BY <1>0, <1>1, <1>7, FinishStartsEffect
  <2>2. l = finish[f].lobby
    OBVIOUS
  <2> HIDE DEF l
  <2> QED
    BY <2>1, <2>2, RaceInv DEF Focused
<1>8. CASE FinishRaces(f)
  <2>1. /\ finish[f].pc = "started" /\ l \in Lobbies
        /\ LobbyTurns(l, lobby[l].locked, FALSE, lobby[l].started, lobby[l].ended,
                      lobby[l].created, lobby[l].overdue)
        /\ FinishTurns(f, "racing", l, finish[f].source, finish[f].left)
        /\ UNCHANGED <<race, lock, opener, join, cleanup, net, settled, pot>>
    BY <1>0, <1>1, <1>8, FinishRacesEffect
  <2>2. l = finish[f].lobby
    OBVIOUS
  <2> HIDE DEF l
  <2>3. lobby[l].started = TRUE
    BY <1>0, <2>1, <2>2, LobbyFields DEF CorridaIInv, LobbyInv, DecidedAlone
  <2>4. LobbyTurns(l, lobby[l].locked, FALSE, TRUE, lobby[l].ended,
                   lobby[l].created, lobby[l].overdue)
    BY <2>1, <2>3
  <2> QED
    BY <2>1, <2>2, <2>4, RaceInv DEF Focused
<1>9. CASE FinishSettles(f)
  <2>1. /\ finish[f].pc = "racing" /\ ~lobby[l].ended /\ l \in Lobbies
        /\ LobbyTurns(l, lobby[l].locked, FALSE, lobby[l].started, TRUE,
                      lobby[l].created, lobby[l].overdue)
        /\ FinishTurns(f, "paying", l, finish[f].source, finish[f].left)
        /\ settled' = [settled EXCEPT ![l] = @ + 1]
        /\ pot' = [pot EXCEPT ![l] = lobby[l].locked]
        /\ UNCHANGED <<race, lock, opener, join, cleanup, net>>
    BY <1>0, <1>1, <1>9, FinishSettlesEffect
  <2>2. l = finish[f].lobby
    OBVIOUS
  <2> HIDE DEF l
  <2> QED
    BY <2>1, <2>2, SettleInv DEF Focused
<1> QED
  BY <1>2, <1>3, <1>4, <1>5, <1>6, <1>7, <1>8, <1>9 DEF FinishStep

-----------------------------------------------------------------------------
\* A lobby lasts too long only while it waits for players and nobody works on it.
LEMMA OverdueInv ==
    ASSUME CorridaIInv, OverdueIn \subseteq {"open"}, NEW l \in Lobbies, GoesOverdue(l)
    PROVE  /\ LobbyInv(l)'
           /\ \A m \in Lobbies \ {l} : Aside(m)
<1>0. Typed /\ LobbyInv(l)
  BY DEF CorridaIInv
<1>1. /\ MayGoOverdue(l)
      /\ LobbyTurns(l, lobby[l].locked, lobby[l].starting, lobby[l].started,
                    lobby[l].ended, lobby[l].created, TRUE)
      /\ UNCHANGED <<race, lock, opener, join, finish, cleanup, net, settled, pot>>
  BY <1>0, GoesOverdueEffect
<1>2. /\ opener[l] = "open" /\ ~Finishing(l) /\ LockAtOnce(l)
      /\ ~lobby[l].starting /\ ~lobby[l].started /\ ~lobby[l].ended
  BY <1>1 DEF MayGoOverdue
<1>3. /\ lock[l] = NoTask
      /\ \A f \in Finishes : finish[f].lobby # l
      /\ \A j \in Joins : join[j].lobby = l => join[j].pc = "confirming"
  <2>1. ASSUME NEW j \in Joins, join[j].lobby = l
        PROVE  join[j].pc \notin {"idle", "waiting", "paid", "refunding"} /\ join[j].pc \in JoinState
    BY <1>0, <1>2, <2>1, TasksAssumption, LobbyTypesOf
       DEF LockAtOnce, WaitedFor, LobbyInv, ServesOpen, LockHeld, JoinRecord
  <2> QED
    BY <1>2, <2>1 DEF Finishing, LockAtOnce, WaitedFor, JoinState
<1>4. /\ lobby'[l].owner = lobby[l].owner /\ lobby'[l].locked = lobby[l].locked
      /\ ~lobby'[l].starting /\ ~lobby'[l].started /\ ~lobby'[l].ended /\ lobby'[l].overdue
      /\ \A m \in Lobbies \ {l} : lobby'[m] = lobby[m]
  BY <1>1, <1>2 DEF LobbyTurns, Become
<1>5. settled[l] = 0 /\ cleanup[l].pc \notin {"closing", "done"}
  BY <1>0, <1>2 DEF LobbyInv, EndsOnce, OverdueFrozen
<1>6. ServesOpen(l)' /\ LockHeld(l)' /\ Opening(l)' /\ DecidedAlone(l)'
  BY <1>0, <1>1, <1>2, <1>3, <1>4 DEF LobbyInv, ServesOpen, LockHeld, Opening, DecidedAlone
<1>7. OverdueFrozen(l)'
  BY <1>0, <1>1, <1>3, <1>4, <1>5 DEF LobbyInv, OverdueFrozen
<1>8. EndsOnce(l)'
  BY <1>0, <1>1, <1>2, <1>4 DEF LobbyInv, EndsOnce, Cancelled
<1>9. EntriesHeld(l)'
  <2>1. Charged(l)' = Charged(l) /\ \A S : NetIs(l, S)' <=> NetIs(l, S)
    BY <1>1 DEF Charged, NetIs
  <2> QED
    BY <1>0, <1>1, <1>2, <1>4, <2>1 DEF LobbyInv, EntriesHeld, Cancelled, Refunding
<1>10. \A m \in Lobbies \ {l} : Aside(m)
  BY <1>1, <1>4, OthersAside DEF Spawns
<1> QED
  BY <1>6, <1>7, <1>8, <1>9, <1>10 DEF LobbyInv

\* What the invariant says of a lobby that is being cleaned up.
LEMMA CleanerFacts ==
    ASSUME Typed, NEW l \in Lobbies, LobbyInv(l), cleanup[l].pc # "none"
    PROVE  /\ opener[l] = "open" /\ lobby[l].overdue /\ race # l /\ lock[l] = NoTask
           /\ \A f \in Finishes : finish[f].lobby # l
           /\ settled[l] = 0 /\ ~lobby[l].starting /\ ~lobby[l].started
           /\ lobby[l].owner \in lobby[l].locked
           /\ lobby[l].ended <=> cleanup[l].pc \in {"closing", "done"}
           /\ Charged(l) = {}
           /\ cleanup[l].pc = "spawned" => NetIs(l, lobby[l].locked)
           /\ cleanup[l].pc = "refunding" => NetIs(l, cleanup[l].left)
           /\ cleanup[l].pc \in {"closing", "done"} => NetIs(l, {})
<1>1. /\ opener[l] = "open" /\ lobby[l].overdue /\ race # l /\ lock[l] = NoTask
      /\ \A f \in Finishes : finish[f].lobby # l
      /\ settled[l] = 0 /\ ~lobby[l].starting /\ ~lobby[l].started
      /\ lobby[l].owner \in lobby[l].locked
      /\ lobby[l].ended <=> cleanup[l].pc \in {"closing", "done"}
  BY DEF LobbyInv, Opening, OverdueFrozen
<1>2. Charged(l) = {}
  BY <1>1, TasksAssumption DEF Charged
<1>3. cleanup[l].pc = "spawned" => NetIs(l, lobby[l].locked)
  BY <1>1, <1>2 DEF LobbyInv, EntriesHeld, Cancelled, Refunding
<1> QED
  BY <1>1, <1>2, <1>3 DEF LobbyInv, EntriesHeld, Cancelled

\* A step of the cleanup.
LEMMA CleanerKeeps ==
    ASSUME CorridaIInv, NEW l \in Lobbies, cleanup[l].pc # "none",
           NEW pc \in {"refunding", "closing", "done"}, NEW left \in SUBSET lobby[l].locked,
           CleanupTurns(l, pc, left),
           lobby'[l].owner = lobby[l].owner, lobby'[l].locked = lobby[l].locked,
           ~lobby'[l].starting, ~lobby'[l].started, lobby'[l].overdue,
           lobby'[l].ended <=> pc \in {"closing", "done"},
           \A m \in Lobbies \ {l} : lobby'[m] = lobby[m] /\ net'[m] = net[m],
           race' \in {race, NoLobby},
           pc = "refunding" => NetIs(l, left)', pc # "refunding" => NetIs(l, {})',
           UNCHANGED <<lock, opener, join, finish, settled, pot>>
    PROVE  /\ LobbyInv(l)'
           /\ \A m \in Lobbies \ {l} : Aside(m)
<1>0. Typed /\ LobbyInv(l)
  BY DEF CorridaIInv
<1>1. /\ opener[l] = "open" /\ race # l /\ lock[l] = NoTask
      /\ \A f \in Finishes : finish[f].lobby # l
      /\ settled[l] = 0 /\ lobby[l].owner \in lobby[l].locked /\ lobby[l].overdue
  BY <1>0, CleanerFacts
<1>2. /\ cleanup'[l].pc = pc /\ cleanup'[l].left = left
      /\ \A m \in Lobbies \ {l} : cleanup'[m] = cleanup[m]
      /\ race' # l
  BY <1>1, LobbiesAssumption DEF CleanupTurns
<1>3. ServesOpen(l)' /\ LockHeld(l)' /\ Opening(l)' /\ DecidedAlone(l)'
  BY <1>0, <1>1 DEF LobbyInv, ServesOpen, LockHeld, Opening, DecidedAlone
<1>4. OverdueFrozen(l)'
  BY <1>0, <1>1, <1>2 DEF LobbyInv, OverdueFrozen
<1>5. EndsOnce(l)'
  BY <1>0, <1>1 DEF LobbyInv, EndsOnce, Cancelled
<1>6. EntriesHeld(l)'
  BY <1>1, <1>2 DEF EntriesHeld, Cancelled, Refunding
<1>7. \A m \in Lobbies \ {l} : Aside(m)
  BY <1>2, OthersAside, LobbiesAssumption DEF Spawns
<1> QED
  BY <1>3, <1>4, <1>5, <1>6, <1>7 DEF LobbyInv

\* Every step of a cleanup, seen from its lobby.
LEMMA CleanupInv ==
    ASSUME CorridaIInv, NEW l \in Lobbies, CleanupStep(l)
    PROVE  /\ LobbyInv(l)'
           /\ \A m \in Lobbies \ {l} : Aside(m)
<1>0. Typed /\ LobbyInv(l)
  BY DEF CorridaIInv
<1>1. ASSUME CleanupCancels(l), cleanup[l].pc = "refunding", cleanup[l].left = {}
      PROVE  /\ LobbyInv(l)'
             /\ \A m \in Lobbies \ {l} : Aside(m)
  <2>1. /\ LobbyTurns(l, lobby[l].locked, FALSE, FALSE, TRUE, FALSE, lobby[l].overdue)
        /\ CleanupTurns(l, "closing", {})
        /\ UNCHANGED <<race, lock, opener, join, finish, net, settled, pot>>
    BY <1>0, <1>1, CleanupCancelsEffect
  <2>2. NetIs(l, {})'
    <3>1. NetIs(l, cleanup[l].left)
      BY <1>0, <1>1, CleanerFacts
    <3> QED
      BY <1>1, <2>1, <3>1 DEF NetIs
  <2>3. /\ lobby'[l].owner = lobby[l].owner /\ lobby'[l].locked = lobby[l].locked
        /\ ~lobby'[l].starting /\ ~lobby'[l].started /\ lobby'[l].overdue /\ lobby'[l].ended
        /\ \A m \in Lobbies \ {l} : lobby'[m] = lobby[m]
    BY <1>0, <1>1, <2>1, CleanerFacts DEF LobbyTurns, Become
  <2> QED
    BY <1>1, <2>1, <2>2, <2>3, CleanerKeeps
<1>2. CASE CleanupStarts(l)
  <2>1. cleanup[l].pc = "spawned"
    BY <1>0, <1>2, CleanupStartsEffect
  <2>2. /\ ~lobby[l].starting /\ ~lobby[l].started /\ lobby[l].overdue /\ ~lobby[l].ended
        /\ lobby[l].locked # {} /\ NetIs(l, lobby[l].locked)
    BY <1>0, <2>1, CleanerFacts
  <2>3. /\ CleanupTurns(l, "refunding", lobby[l].locked)
        /\ UNCHANGED <<race, lobby, lock, opener, join, finish, net, settled, pot>>
    BY <1>0, <1>2, <2>2, CleanupStartsEffect
  <2>4. NetIs(l, lobby[l].locked)'
    BY <2>2, <2>3 DEF NetIs
  <2>5. lobby[l].locked \in SUBSET lobby[l].locked /\ lobby'[l].locked = lobby[l].locked
    BY <2>3
  <2>6. NetIs(l, lobby[l].locked)' => net'[l] = [u \in Users |-> IF u \in lobby'[l].locked THEN 1 ELSE 0]
    BY DEF NetIs
  <2> DEFINE left == lobby[l].locked
  <2>7. net'[l] = [u \in Users |-> IF u \in left THEN 1 ELSE 0] /\ CleanupTurns(l, "refunding", left)
        /\ left \in SUBSET lobby[l].locked
    BY <2>3, <2>4, <2>5, <2>6
  <2> HIDE DEF left
  <2> QED
    BY <2>1, <2>2, <2>3, <2>7, CleanerKeeps DEF NetIs
<1>3. ASSUME NEW u \in Users, CleanupRefunds(l, u)
      PROVE  /\ LobbyInv(l)'
             /\ \A m \in Lobbies \ {l} : Aside(m)
  <2>1. /\ cleanup[l].pc = "refunding" /\ u \in cleanup[l].left
        /\ CleanupTurns(l, "refunding", cleanup[l].left \ {u})
        /\ \A m \in Lobbies \ {l} : net'[m] = net[m]
        /\ net'[l] = [w \in Users |-> IF w = u THEN net[l][u] + (-1) ELSE net[l][w]]
        /\ UNCHANGED <<race, lobby, lock, opener, join, finish, settled, pot>>
    BY <1>0, <1>3, CleanupRefundsEffect DEF NetTurns
  <2>2. /\ ~lobby[l].starting /\ ~lobby[l].started /\ lobby[l].overdue /\ ~lobby[l].ended
        /\ NetIs(l, cleanup[l].left) /\ cleanup[l].left \subseteq lobby[l].locked
    BY <1>0, <2>1, CleanerFacts DEF LobbyInv, OverdueFrozen
  <2> DEFINE left == cleanup[l].left \ {u}
  <2>3. net'[l] = [w \in Users |-> IF w \in left THEN 1 ELSE 0]
    BY <2>1, <2>2 DEF NetIs
  <2>4. left \in SUBSET lobby[l].locked /\ CleanupTurns(l, "refunding", left)
    BY <2>1, <2>2
  <2> HIDE DEF left
  <2> QED
    BY <2>1, <2>2, <2>3, <2>4, CleanerKeeps DEF NetIs
<1>4. CASE CleanupCloses(l)
  <2>1. /\ cleanup[l].pc = "closing" /\ race' = NoLobby
        /\ CleanupTurns(l, "done", {})
        /\ UNCHANGED <<lobby, lock, opener, join, finish, net, settled, pot>>
    BY <1>0, <1>4, CleanupClosesEffect
  <2>2. /\ ~lobby[l].starting /\ ~lobby[l].started /\ lobby[l].overdue /\ lobby[l].ended
        /\ NetIs(l, {})
    BY <1>0, <2>1, CleanerFacts
  <2>3. NetIs(l, {})'
    BY <2>1, <2>2 DEF NetIs
  <2> QED
    BY <2>1, <2>2, <2>3, CleanerKeeps
<1> QED
  BY <1>1, <1>2, <1>3, <1>4 DEF CleanupStep, CleanupEnds

\* No refused start button takes the mark from a race that is being decided.
MarksStay == \A l \in Lobbies : MarkStays(l)

\* The invariant holds at first ...
LEMMA InitLobbyInv == Init => \A l \in Lobbies : LobbyInv(l)
<1> SUFFICES ASSUME Init, NEW l \in Lobbies PROVE LobbyInv(l)
  OBVIOUS
<1>1. /\ opener[l] = "none" /\ lock[l] = NoTask /\ race # l /\ cleanup[l].pc = "none"
      /\ lobby[l].locked = {} /\ ~lobby[l].starting /\ ~lobby[l].started /\ ~lobby[l].ended
      /\ ~lobby[l].overdue /\ settled[l] = 0 /\ pot[l] = {} /\ net[l] = [u \in Users |-> 0]
      /\ \A j \in Joins : join[j].lobby # l
      /\ \A f \in Finishes : finish[f].lobby # l
  BY LobbiesAssumption DEF Init, NewLobby, NoJoin, NoFinish
<1>2. ServesOpen(l) /\ LockHeld(l) /\ Opening(l) /\ OverdueFrozen(l) /\ DecidedAlone(l)
  BY <1>1, TasksAssumption DEF ServesOpen, LockHeld, Opening, OverdueFrozen, DecidedAlone
<1>3. EndsOnce(l)
  BY <1>1 DEF EndsOnce, Cancelled
<1>4. NetIs(l, {})
  BY <1>1 DEF NetIs
<1>5. EntriesHeld(l)
  BY <1>1, <1>4 DEF EntriesHeld, Cancelled, Refunding
<1> QED
  BY <1>2, <1>3, <1>5 DEF LobbyInv

\* Every step is about one lobby at most.
LEMMA StepsFocused ==
    ASSUME CorridaIInv, OverdueIn \subseteq {"open"}, [Next]_vars
    PROVE  Focused
<1>1. CASE OtherStep
  BY <1>1, OtherEffect, LobbiesAssumption
     DEF lobbyVars, Focused, Aside, LobbyAside, JoinAside, FinishAside, Spawns
<1>2. CASE LookupDropsRace
  BY <1>2, LookupDropsAside DEF Focused
<1>3. ASSUME NEW j \in Joins, JoinStep(j) \/ \E l \in Lobbies, u \in Users : JoinPress(j, l, u)
      PROVE  Focused
  BY <1>3, JoinLight, JoinInv DEF Focused
<1>4. ASSUME NEW l \in Lobbies, NEW u \in Users, Trigger(l, u) PROVE Focused
  BY <1>4, TriggerInv DEF Focused
<1>5. ASSUME NEW l \in Lobbies, GoesOverdue(l) \/ CleanupStep(l) \/ OpenerStep(l)
      PROVE  Focused
  BY <1>5, OverdueInv, CleanupInv, OpenerInv, OpenerAside DEF Focused
<1> QED
  BY <1>1, <1>2, <1>3, <1>4, <1>5, FinishInv, Steps

\* ... and is kept by every step that leaves the marks of decided races.
LEMMA NextCorridaIInv ==
    ASSUME OverdueIn \subseteq {"open"}
    PROVE  CorridaIInv /\ [Next]_vars /\ MarksStay => CorridaIInv'
<1> SUFFICES ASSUME CorridaIInv, [Next]_vars, MarksStay PROVE CorridaIInv'
  OBVIOUS
<1>1. Typed'
  BY NextTyped DEF CorridaIInv
<1>2. \A l \in Lobbies : LobbyInv(l)'
  BY StepsFocused, AsideKeeps DEF CorridaIInv, Focused, MarksStay
<1> QED
  BY <1>1, <1>2 DEF CorridaIInv

\* The guild has one race only.
OneLobby == \A l, m \in Lobbies : l = m

\* With one lobby, and players who stay, no refused start button can take the
\* mark away from the handler that cancels: it was pressed by two players, and
\* the handler cancels because there is but one.
LEMMA OneLobbyMarks ==
    ASSUME OneLobby, MayLeave = {}, OverdueIn \subseteq {"open"}
    PROVE  CorridaIInv /\ [Next]_vars => MarksStay
<1> SUFFICES ASSUME CorridaIInv, [Next]_vars, NEW l \in Lobbies, NEW f \in Finishes,
                    BeingDecided(f, l), lobby[l].starting
             PROVE  lobby'[l].starting \/ lobby'[l].ended
  BY DEF MarksStay, MarkStays
<1>0. Typed /\ LobbyInv(l)
  BY DEF CorridaIInv
<1>1. /\ finish[f].lobby = l /\ finish[f].pc = "refunding" /\ ~TwoPlayers(l)
      /\ ~lobby[l].started /\ lock[l] = NoTask /\ opener[l] = "open"
      /\ \A g \in Finishes \ {f} : finish[g].lobby = l => finish[g].pc = "waiting"
  BY <1>0 DEF BeingDecided, LobbyInv, DecidedAlone, ServesOpen
<1>2. CASE OtherStep \/ LookupDropsRace
  BY <1>2, OtherEffect DEF lobbyVars, LookupDropsRace
<1>3. ASSUME NEW j \in Joins, JoinStep(j) \/ \E m \in Lobbies, u \in Users : JoinPress(j, m, u)
      PROVE  lobby'[l].starting \/ lobby'[l].ended
  <2>1. CASE JoinReserves(j)
    <3>1. join[j].lobby = l /\ join[j].pc = "paid"
      BY <1>0, <2>1, JoinReservesEffect DEF OneLobby, Typed, HandlersKnown
    <3>2. lock[l] = j
      BY <1>0, <3>1 DEF LobbyInv, LockHeld
    <3> QED
      BY <1>1, <3>2, TasksAssumption
  <2>2. CASE UNCHANGED lobby
    BY <2>2
  <2> QED
    BY <1>3, <2>1, <2>2
       DEF JoinStep, JoinPress, JoinGivesUp, JoinConfirms, JoinGetsLock, EnterJoin, JoinRefused,
           JoinRefunds
<1>4. ASSUME NEW m \in Lobbies, NEW u \in Users, Trigger(m, u)
      PROVE  lobby'[l].starting \/ lobby'[l].ended
  BY <1>1, <1>4 DEF Trigger
<1>5. ASSUME NEW m \in Lobbies, GoesOverdue(m) \/ CleanupStep(m) \/ OpenerStep(m)
      PROVE  lobby'[l].starting \/ lobby'[l].ended
  <2>1. m = l
    BY DEF OneLobby
  <2>2. CASE GoesOverdue(m)
    BY <2>1, <2>2 DEF GoesOverdue, MayGoOverdue
  <2>3. CASE OpenerStep(m)
    BY <1>1, <2>1, <2>3, OpenerAside
  <2>4. CASE CleanupStep(m)
    <3>1. cleanup[l].pc # "none"
      BY <2>1, <2>4 DEF CleanupStep, CleanupStarts, CleanupEnds, CleanupCloses, CleanupRefunds
    <3> QED
      BY <1>0, <1>1, <3>1, CleanerFacts
  <2> QED
    BY <1>5, <2>2, <2>3, <2>4
<1>6. ASSUME NEW g \in Finishes,
             \/ FinishStep(g)
             \/ \E m \in Lobbies : PressStart(g, m) \/ ViewTimesOut(g, m)
      PROVE  lobby'[l].starting \/ lobby'[l].ended
  <2>1. ~Accepting(l)
    BY DEF Accepting
  <2>2. ASSUME NEW source \in {"button", "timeout"}, EnterFinish(g, l, source), source = "button" => TwoPlayers(l)
        PROVE  lobby'[l].starting \/ lobby'[l].ended
    <3>1. source = "timeout"
      BY <1>1, <2>2
    <3>2. Refuses(source)
      BY <1>0, <2>1, <2>2, EnterFinishEffect DEF FinishEnters
    <3> QED
      BY <3>1, <3>2 DEF Refuses
  <2>3. ASSUME NEW m \in Lobbies, PressStart(g, m) \/ ViewTimesOut(g, m)
        PROVE  lobby'[l].starting \/ lobby'[l].ended
    <3>1. m = l
      BY DEF OneLobby
    <3>2. CASE PressStart(g, m)
      BY <2>1, <3>1, <3>2 DEF PressStart
    <3>3. CASE ViewTimesOut(g, m)
      <4>1. LookupDropsRace \/ CallFinish(g, l, "timeout")
        BY <3>1, <3>3 DEF ViewTimesOut
      <4>2. CASE UNCHANGED lobby
        BY <4>2
      <4>3. CASE EnterFinish(g, l, "timeout")
        BY <2>2, <4>3
      <4> QED
        BY <4>1, <4>2, <4>3 DEF CallFinish, LookupDropsRace
    <3> QED
      BY <2>3, <3>2, <3>3
  <2>4. finish[g].pc # "idle" => finish[g].lobby = l /\ finish[g].source \in {"button", "timeout"}
    BY <1>0 DEF OneLobby, Typed, HandlersKnown
  <2>5. CASE FinishGetsLock(g)
    <3>1. EnterFinish(g, l, finish[g].source) /\ finish[g].pc = "waiting"
      BY <2>4, <2>5 DEF FinishGetsLock
    <3>2. finish[g].source = "button" => TwoPlayers(l)
      BY <1>0, <2>4, <3>1 DEF LobbyInv, DecidedAlone
    <3> QED
      BY <2>2, <2>4, <3>1, <3>2
  <2>6. CASE FinishCancels(g)
    BY <1>0, <2>4, <2>6, FinishCancelsEffect DEF LobbyTurns, Become
  <2>7. CASE UNCHANGED lobby
    BY <2>7
  <2>8. CASE FinishStarts(g) \/ FinishRaces(g) \/ FinishFindsEnd(g) \/ FinishSettles(g) \/ FinishPays(g)
    BY <1>1, <2>4, <2>8 DEF FinishStarts, FinishRaces, FinishFindsEnd, FinishSettles, FinishPays
  <2> QED
    BY <1>6, <2>3, <2>5, <2>6, <2>7, <2>8 DEF FinishStep, FinishCloses, FinishRefunds
<1> QED
  BY <1>2, <1>3, <1>4, <1>5, <1>6, Steps

-----------------------------------------------------------------------------
\* The invariant says whose entry a lobby has: nobody's twice.
LEMMA EntriesCounted == CorridaIInv => EntryTakenOnce
<1> SUFFICES ASSUME CorridaIInv, NEW l \in Lobbies, NEW u \in Users PROVE net[l][u] \in 0..1
  BY DEF EntryTakenOnce
<1>1. opener[l] \in OpenerState /\ EntriesHeld(l)
  BY LobbyTypesOf DEF CorridaIInv, LobbyInv
<1>2. \E S : NetIs(l, S)
  <2>1. CASE opener[l] # "open"
    BY <1>1, <2>1 DEF EntriesHeld, OpenerState
  <2>2. CASE opener[l] = "open"
    BY <1>1, <2>2 DEF EntriesHeld
  <2> QED
    BY <2>1, <2>2
<1> QED
  BY <1>2 DEF NetIs

\* It says of a settled race that its players' entries are in the pot.
LEMMA RacesCounted == CorridaIInv => SettledOnce
<1> SUFFICES ASSUME CorridaIInv, NEW l \in Lobbies
             PROVE  settled[l] <= 1 /\ (settled[l] = 1 => \A u \in pot[l] : net[l][u] = 1)
  BY DEF SettledOnce
<1>0. Typed /\ LobbyInv(l)
  BY DEF CorridaIInv
<1>1. settled[l] \in {0, 1}
  BY <1>0 DEF LobbyInv, EndsOnce
<1>2. ASSUME settled[l] = 1 PROVE \A u \in pot[l] : net[l][u] = 1
  <2>1. /\ opener[l] = "open" /\ cleanup[l].pc # "refunding" /\ ~Cancelled(l)
        /\ \A f \in Finishes : ~Refunding(f, l)
        /\ pot[l] \subseteq lobby[l].locked
    BY <1>0, <1>2 DEF LobbyInv, Opening, OverdueFrozen, EndsOnce, DecidedAlone, BeingDecided,
                      Refunding, Cancelled
  <2>2. NetIs(l, lobby[l].locked \cup Charged(l))
    BY <1>0, <2>1 DEF LobbyInv, EntriesHeld
  <2>3. pot[l] \subseteq Users
    BY <1>0, LobbyTypesOf
  <2> QED
    BY <2>1, <2>2, <2>3 DEF NetIs
<1> QED
  BY <1>1, <1>2

\* A lobby that waits for players or races holds a lease over all of them.
Leased(l) ==
    /\ opener[l] \in {"none", "done"} => l \notin Live
    /\ opener[l] \in {"confirming", "paid", "posting", "open"} /\ ~lobby[l].ended /\ ~lobby[l].overdue
         => lobby[l].created
    /\ opener[l] \in {"posting", "open", "refunding", "withdrawing"} /\ lobby[l].locked # {}
         /\ ~lobby[l].ended /\ ~lobby[l].overdue
         => l \in Live /\ lobby[l].locked \subseteq sessions[l].active

\* What a step does to the lease of a lobby that it is not about.
LeaseSame(l) ==
    /\ opener'[l] = opener[l] /\ sessions'[l] = sessions[l]
    /\ lobby'[l].locked = lobby[l].locked /\ lobby'[l].created = lobby[l].created
    /\ lobby'[l].ended = lobby[l].ended /\ lobby'[l].overdue = lobby[l].overdue
LeaseOver(l) ==
    opener'[l] = opener[l] /\ opener[l] = "open" /\ (lobby'[l].ended \/ lobby'[l].overdue)

\* A step that leaves a lobby's lease and players, or ends the lobby.
LEMMA LeaseAside ==
    ASSUME NEW l \in Lobbies, Leased(l), LeaseSame(l) \/ LeaseOver(l)
    PROVE  Leased(l)'
BY LobbiesAssumption DEF Leased, LeaseSame, LeaseOver, Live

\* A call to the registry changes the lease of its own session only.
LEMMA OtherLeases ==
    ASSUME RegistryIInv, NEW s \in Sessions,
           \/ \E g \in Guilds, owner \in Users, needed \in SUBSET Users, deadline \in Deadline :
                 CreatePending(s, g, owner, needed, deadline)
           \/ \E players \in SUBSET Users, deadline \in Deadline : Activate(s, players, deadline)
           \/ \E u \in Users : RecreateLease(s, u)
           \/ ReleaseRegistry(s) \/ Release(s)
    PROVE  \A t \in Sessions \ {s} : sessions'[t] = sessions[t]
BY DEF RegistryIInv, RegistryTypeOK, CreatePending, Activate, RecreateLease, ReleaseRegistry,
       Release, ReleaseLocked

\* What the registry's calls leave of the lease they are about.
LEMMA ReleasedLease ==
    ASSUME RegistryIInv, NEW s \in Sessions, ReleaseRegistry(s)
    PROVE  s \notin Live'
BY DEF RegistryIInv, RegistryTypeOK, ReleaseRegistry, ReleaseLocked, Live

LEMMA ActivatedLease ==
    ASSUME RegistryIInv, NEW s \in Sessions, NEW players \in SUBSET Users,
           Activate(s, players, "none")
    PROVE  s \in Live' /\ sessions'[s].active = players
<1>1. sessions[s] \in Lease /\ "none" \in Deadline
  BY DEF RegistryIInv, RegistryTypeOK, Activate, MayActivate, Live, Deadline
<1>2. sessions'[s] = [sessions[s] EXCEPT !.reserved = @ \cup players, !.active = players,
                                         !.state = "active", !.deadline = "none"]
  BY DEF Activate, RegistryIInv, RegistryTypeOK
<1>3. sessions'[s] \in Lease /\ sessions'[s].active = players
  BY <1>1, <1>2 DEF Lease
<1> QED
  BY <1>3, NoLeaseAssumption DEF Live

-----------------------------------------------------------------------------
\* Leased is kept: by the opener ...
LEMMA OpenerLeased ==
    ASSUME CorridaIInv, NEW l \in Lobbies, Leased(l), NEW m \in Lobbies,
           OpenerStep(m) \/ \E u \in Users : Trigger(m, u)
    PROVE  Leased(l)'
<1>0. Typed /\ RegistryIInv /\ LobbyInv(l) /\ m \in Sessions /\ l \in Sessions
  BY LobbiesAssumption DEF CorridaIInv, Typed
<1>1. CASE l # m
  <2>1. lobby'[l] = lobby[l] /\ opener'[l] = opener[l]
    BY <1>0, <1>1, TriggerEffect, WithdrawEffect, OpenerPaysEffect, OpenerRefundsEffect,
       OpenerReservesEffect, OpenerMovesEffect DEF OpenerStep, OpenerTurns, LobbyTurns
  <2>2. sessions'[l] = sessions[l]
    <3>1. CASE UNCHANGED registryVars
      BY <3>1 DEF registryVars
    <3>2. ASSUME OpenerReserves(m) PROVE sessions'[l] = sessions[l]
      <4>1. {lobby[m].owner} \in SUBSET Users /\ Activate(m, {lobby[m].owner}, "none")
            /\ "none" \in Deadline
        BY <1>0, <3>2 DEF OpenerReserves, Typed, HandlersKnown, Deadline
      <4> QED
        BY <1>0, <1>1, <4>1, OtherLeases
    <3>3. ASSUME NEW u \in Users, Trigger(m, u) PROVE sessions'[l] = sessions[l]
      <4>1. CreatePending(m, Guild, u, {}, "none") /\ "none" \in Deadline /\ {} \in SUBSET Users
        BY <3>3 DEF Trigger, Deadline
      <4> QED
        BY <1>0, <1>1, <4>1, OtherLeases, GuildAssumption
    <3>4. CASE OpenerGivesUp(m) \/ OpenerWithdraws(m)
      BY <1>0, <1>1, <3>4, OtherLeases DEF OpenerGivesUp, OpenerWithdraws
    <3> QED
      BY <3>1, <3>2, <3>3, <3>4
         DEF OpenerStep, OpenerPays, OpenerRefunds, OpenerRefused, OpenerPosts, OpenerPostFails
  <2> QED
    BY <2>1, <2>2, LeaseAside DEF LeaseSame
<1>2. CASE l = m
  <2>1. ASSUME NEW u \in Users, Trigger(m, u) PROVE Leased(l)'
    BY <1>0, <1>2, <2>1, TriggerEffect DEF OpenerTurns, Become, Leased
  <2>2. CASE OpenerGivesUp(m) \/ OpenerWithdraws(m)
    <3>1. opener'[l] = "done" /\ ReleaseRegistry(l)
      BY <1>0, <1>2, <2>2, WithdrawEffect DEF OpenerGivesUp, OpenerWithdraws, OpenerTurns
    <3> QED
      BY <1>0, <3>1, ReleasedLease DEF Leased
  <2>3. CASE OpenerReserves(m)
    <3>1. /\ opener[l] = "paid" /\ opener'[l] = "posting"
          /\ lobby'[l].locked = lobby[l].locked \cup {lobby[l].owner}
          /\ lobby'[l].created = lobby[l].created
      BY <1>0, <1>2, <2>3, OpenerReservesEffect DEF OpenerTurns, LobbyTurns, Become
    <3>2. lobby[l].locked = {} /\ ~lobby[l].ended /\ ~lobby[l].overdue /\ lobby[l].owner \in Users
      BY <1>0, <3>1, OpenerFacts DEF Typed, HandlersKnown
    <3>3. l \in Live' /\ sessions'[l].active = {lobby[l].owner}
      BY <1>0, <1>2, <2>3, <3>2, ActivatedLease DEF OpenerReserves
    <3> QED
      BY <3>1, <3>2, <3>3 DEF Leased
  <2>4. CASE OpenerPays(m) \/ OpenerRefunds(m)
    <3>1. /\ \/ opener[l] = "confirming" /\ opener'[l] = "paid"
             \/ opener[l] = "refunding" /\ opener'[l] = "withdrawing"
          /\ UNCHANGED <<lobby, sessions>>
      BY <1>0, <1>2, <2>4, OpenerPaysEffect, OpenerRefundsEffect
         DEF OpenerPays, OpenerRefunds, OpenerTurns, registryVars
    <3> QED
      BY <3>1 DEF Leased, Live
  <2>5. CASE OpenerRefused(m) \/ OpenerPosts(m) \/ OpenerPostFails(m)
    <3>1. /\ \/ opener[l] = "paid" /\ opener'[l] = "refunding"
             \/ opener[l] = "posting" /\ opener'[l] \in {"open", "refunding"}
          /\ UNCHANGED <<lobby, sessions>>
      BY <1>0, <1>2, <2>5, OpenerMovesEffect
         DEF OpenerRefused, OpenerPosts, OpenerPostFails, OpenerTurns, registryVars
    <3>2. opener[l] = "paid" => lobby[l].locked = {}
      BY <1>0, OpenerFacts
    <3> QED
      BY <3>1, <3>2 DEF Leased, Live
  <2> QED
    BY <2>1, <2>2, <2>3, <2>4, <2>5 DEF OpenerStep
<1> QED
  BY <1>1, <1>2

\* ... by the joins ...
LEMMA JoinLeased ==
    ASSUME CorridaIInv, NEW l \in Lobbies, Leased(l), NEW j \in Joins,
           JoinStep(j) \/ \E m \in Lobbies, u \in Users : JoinPress(j, m, u)
    PROVE  Leased(l)'
<1>0. Typed /\ RegistryIInv /\ LobbyInv(l) /\ l \in Sessions
  BY LobbiesAssumption DEF CorridaIInv, Typed
<1>1. CASE UNCHANGED <<registryVars, lobby, opener>>
  BY <1>1, LeaseAside DEF LeaseSame, registryVars
<1>2. ASSUME JoinReserves(j) PROVE Leased(l)'
  <2> DEFINE m == join[j].lobby
             u == join[j].user
  <2>1. /\ LobbyTurns(m, lobby[m].locked \cup {u}, lobby[m].starting, lobby[m].started,
                      lobby[m].ended, TRUE, FALSE)
        /\ UNCHANGED opener /\ join[j].pc = "paid"
    BY <1>0, <1>2, JoinReservesEffect
  <2>2. m \in Lobbies /\ u \in Users
    BY <1>0, <2>1 DEF Typed, HandlersKnown
  <2>3. \/ lobby[m].created /\ Activate(m, lobby[m].locked \cup {u}, "none")
        \/ ~lobby[m].created /\ RecreateLease(m, u)
    BY <1>2 DEF JoinReserves
  <2>4. m = join[j].lobby
    OBVIOUS
  <2> HIDE DEF m, u
  <2>5. m \in Sessions /\ lobby[m].locked \cup {u} \in SUBSET Users /\ "none" \in Deadline
    BY <1>0, <2>2, LobbiesAssumption, LobbyFields DEF Deadline
  <2>6. CASE l # m
    <3>1. sessions'[l] = sessions[l]
      BY <1>0, <2>2, <2>3, <2>5, <2>6, OtherLeases
    <3> QED
      BY <2>1, <2>6, <3>1, LeaseAside DEF LeaseSame, LobbyTurns
  <2>7. CASE l = m
    <3>1. lock[l] = j /\ opener[l] = "open" /\ ~lobby[l].overdue
      <4>1. lock[l] = j
        BY <1>0, <2>1, <2>4, <2>7 DEF LobbyInv, LockHeld
      <4> QED
        BY <1>0, <4>1, HolderFacts
    <3>2. /\ lobby'[l].locked = lobby[l].locked \cup {u} /\ lobby'[l].created
          /\ lobby'[l].ended = lobby[l].ended /\ ~lobby'[l].overdue
      BY <2>1, <2>7 DEF LobbyTurns, Become
    <3>3. CASE lobby[l].ended
      BY <2>1, <3>1, <3>2, <3>3, LeaseAside DEF LeaseOver
    <3>4. CASE ~lobby[l].ended
      <4>1. Activate(l, lobby[l].locked \cup {u}, "none")
        BY <2>3, <2>7, <3>1, <3>4 DEF Leased
      <4>2. l \in Live' /\ sessions'[l].active = lobby[l].locked \cup {u}
        BY <1>0, <2>5, <2>7, <4>1, ActivatedLease
      <4> QED
        BY <2>1, <3>1, <3>2, <4>2 DEF Leased
    <3> QED
      BY <3>3, <3>4
  <2> QED
    BY <2>6, <2>7
<1> QED
  BY <1>1, <1>2
     DEF JoinStep, JoinPress, JoinGivesUp, JoinConfirms, JoinGetsLock, EnterJoin, JoinRefused,
         JoinRefunds

LEMMA RefusesLease ==
    ASSUME NEW source, NEW l \in Lobbies, Refuses(source), UNCHANGED <<registryVars, opener>>
    PROVE  LeaseSame(l)
BY DEF Refuses, LobbyTurns, Become, LeaseSame, registryVars

\* ... by the start button and the timeout ...
LEMMA EnterFinishLeased ==
    ASSUME CorridaIInv, NEW l \in Lobbies, Leased(l), NEW f \in Finishes, NEW m \in Lobbies,
           NEW source \in {"button", "timeout"}, EnterFinish(f, m, source)
    PROVE  Leased(l)'
<1>1. UNCHANGED <<registryVars, opener>>
  BY DEF EnterFinish
<1>2. FinishEnters(f, m, source) \/ Refuses(source)
  BY EnterFinishEffect DEF CorridaIInv
<1>3. LeaseSame(l)
  <2>1. CASE Refuses(source)
    BY <1>1, <2>1, RefusesLease
  <2>2. CASE FinishEnters(f, m, source)
    BY <1>1, <2>2 DEF FinishEnters, LobbyTurns, Become, LeaseSame, registryVars
  <2> QED
    BY <1>2, <2>1, <2>2
<1> QED
  BY <1>3, LeaseAside

LEMMA FinishLeased ==
    ASSUME CorridaIInv, NEW l \in Lobbies, Leased(l), NEW f \in Finishes,
           \/ FinishStep(f)
           \/ \E m \in Lobbies : PressStart(f, m) \/ ViewTimesOut(f, m)
    PROVE  Leased(l)'
<1>0. Typed /\ RegistryIInv /\ LobbyInv(l) /\ l \in Sessions
  BY LobbiesAssumption DEF CorridaIInv, Typed
<1>1. CASE UNCHANGED <<registryVars, lobby, opener>>
  BY <1>1, LeaseAside DEF LeaseSame, registryVars
<1>2. ASSUME NEW m \in Lobbies, PressStart(f, m) \/ ViewTimesOut(f, m) PROVE Leased(l)'
  BY <1>1, <1>2, EnterFinishLeased DEF PressStart, ViewTimesOut, CallFinish, LookupDropsRace
<1> DEFINE m == finish[f].lobby
<1>3. finish[f].pc # "idle" => m \in Lobbies /\ finish[f].source \in {"button", "timeout"}
  BY <1>0 DEF Typed, HandlersKnown
<1>4. CASE FinishGetsLock(f)
  BY <1>3, <1>4, EnterFinishLeased DEF FinishGetsLock
<1>5. CASE FinishFindsEnd(f)
  BY <1>0, <1>5, FinishFindsEndEffect, RefusesLease, LeaseAside DEF FinishFindsEnd
<1>6. CASE FinishStarts(f) \/ FinishRaces(f)
  <2>1. \E starting, started :
           LobbyTurns(m, lobby[m].locked, starting, started, lobby[m].ended, lobby[m].created,
                      lobby[m].overdue)
    BY <1>0, <1>6, FinishStartsEffect, FinishRacesEffect
  <2>2. UNCHANGED <<registryVars, opener>>
    BY <1>6 DEF FinishStarts, FinishRaces
  <2> HIDE DEF m
  <2>3. LeaseSame(l)
    BY <2>1, <2>2 DEF LobbyTurns, Become, LeaseSame, registryVars
  <2> QED
    BY <2>3, LeaseAside
<1>7. CASE FinishSettles(f) \/ FinishCancels(f) \/ FinishPays(f)
  <2>1. finish[f].pc \in {"refunding", "racing", "paying"} /\ m \in Lobbies /\ UNCHANGED opener
    BY <1>3, <1>7 DEF FinishSettles, FinishCancels, FinishPays
  <2>2. opener[m] = "open" /\ (finish[f].pc = "paying" => lobby[m].ended)
    BY <2>1 DEF CorridaIInv, LobbyInv, ServesOpen, DecidedAlone
  <2>3. lobby'[m].ended /\ \A k \in Lobbies \ {m} : lobby'[k] = lobby[k]
    BY <1>0, <1>7, <2>2, FinishSettlesEffect, FinishCancelsEffect, FinishPaysEffect
       DEF LobbyTurns, Become
  <2>4. ReleaseRegistry(m) \/ UNCHANGED registryVars
    BY <1>7 DEF FinishSettles, FinishCancels, FinishPays
  <2> HIDE DEF m
  <2>5. CASE l = m
    BY <2>1, <2>2, <2>3, <2>5, LeaseAside DEF LeaseOver
  <2>6. CASE l # m
    <3>1. sessions'[l] = sessions[l]
      BY <1>0, <2>1, <2>4, <2>6, OtherLeases, LobbiesAssumption DEF registryVars
    <3> QED
      BY <2>1, <2>3, <2>6, <3>1, LeaseAside DEF LeaseSame
  <2> QED
    BY <2>5, <2>6
<1> QED
  BY <1>1, <1>2, <1>4, <1>5, <1>6, <1>7 DEF FinishStep, FinishCloses, FinishRefunds

\* ... by the clocks and the cleanup ...
LEMMA CleanupLeased ==
    ASSUME CorridaIInv, NEW l \in Lobbies, Leased(l), NEW m \in Lobbies,
           CleanupStep(m) \/ GoesOverdue(m), OverdueIn \subseteq {"open"}
    PROVE  Leased(l)'
<1>0. Typed /\ RegistryIInv /\ LobbyInv(m) /\ m \in Sessions /\ l \in Sessions
  BY LobbiesAssumption DEF CorridaIInv, Typed
<1>1. CASE UNCHANGED <<registryVars, lobby, opener>>
  BY <1>1, LeaseAside DEF LeaseSame, registryVars
<1>2. ASSUME /\ UNCHANGED opener
             /\ \A k \in Lobbies \ {m} : lobby'[k] = lobby[k]
             /\ opener[m] = "open" /\ (lobby'[m].ended \/ lobby'[m].overdue)
             /\ ReleaseRegistry(m) \/ UNCHANGED registryVars
      PROVE  Leased(l)'
  <2>1. CASE l = m
    BY <1>2, <2>1, LeaseAside DEF LeaseOver
  <2>2. CASE l # m
    <3>1. sessions'[l] = sessions[l]
      BY <1>0, <1>2, <2>2, OtherLeases DEF registryVars
    <3> QED
      BY <1>2, <2>2, <3>1, LeaseAside DEF LeaseSame
  <2> QED
    BY <2>1, <2>2
<1>3. ASSUME CleanupCancels(m), cleanup[m].pc # "none" PROVE Leased(l)'
  <2>1. /\ \A k \in Lobbies \ {m} : lobby'[k] = lobby[k]
        /\ lobby'[m].ended /\ UNCHANGED opener
    BY <1>0, <1>3, CleanupCancelsEffect DEF LobbyTurns, Become
  <2>2. opener[m] = "open"
    BY <1>0, <1>3, CleanerFacts
  <2> QED
    BY <1>2, <1>3, <2>1, <2>2 DEF CleanupCancels
<1>4. CASE GoesOverdue(m)
  <2>1. /\ \A k \in Lobbies \ {m} : lobby'[k] = lobby[k]
        /\ lobby'[m].overdue /\ UNCHANGED opener /\ MayGoOverdue(m)
    BY <1>0, <1>4, GoesOverdueEffect DEF LobbyTurns, Become
  <2>2. opener[m] = "open"
    BY <2>1 DEF MayGoOverdue
  <2> QED
    BY <1>2, <1>4, <2>1, <2>2 DEF GoesOverdue
<1>5. CASE CleanupStep(m)
  BY <1>1, <1>3, <1>5 DEF CleanupStep, CleanupStarts, CleanupEnds, CleanupCloses, CleanupRefunds
<1> QED
  BY <1>4, <1>5

\* ... and by the other games and truco's sweep.
LEMMA OtherLeased ==
    ASSUME CorridaIInv, NEW l \in Lobbies, Leased(l), OtherStep \/ LookupDropsRace
    PROVE  Leased(l)'
<1>0. RegistryIInv /\ LobbyInv(l) /\ l \in Sessions /\ "none" \in Deadline /\ {} \in SUBSET Users
  BY LobbiesAssumption DEF CorridaIInv, Typed, Deadline
<1>1. UNCHANGED <<lobby, opener>>
  BY OtherEffect DEF lobbyVars, LookupDropsRace
<1>2. CASE TrucoReapsLease(l)
  <2>1. lobby[l].overdue /\ opener[l] = "open"
    BY <1>0, <1>2 DEF TrucoReapsLease, LobbyInv, Opening
  <2> QED
    BY <1>1, <2>1, LeaseAside DEF LeaseOver
<1>3. ASSUME NEW s \in Sessions \ {l},
             \/ Release(s) \/ \E u \in Users : CreatePending(s, Guild, u, {}, "none")
             \/ \E players \in SUBSET Users : Activate(s, players, "none")
      PROVE  sessions'[l] = sessions[l]
  BY <1>0, <1>3, OtherLeases, GuildAssumption
<1>4. CASE UNCHANGED registryVars
  BY <1>1, <1>4, LeaseAside DEF LeaseSame, registryVars
<1>5. CASE OtherStep /\ ~UNCHANGED registryVars /\ ~TrucoReapsLease(l)
  <2>1. \E s \in Sessions \ {l} :
             \/ Release(s) \/ \E u \in Users : CreatePending(s, Guild, u, {}, "none")
             \/ \E players \in SUBSET Users : Activate(s, players, "none")
    BY <1>5, LobbiesAssumption
       DEF OtherStep, OtherGames, OtherCloses, OtherOpens, OtherPlays, TrucoReapsLease, vars
  <2> QED
    BY <1>1, <1>3, <2>1, LeaseAside DEF LeaseSame
<1> QED
  BY <1>2, <1>4, <1>5 DEF LookupDropsRace

LEMMA NextLeased ==
    ASSUME OverdueIn \subseteq {"open"}, CorridaIInv, [Next]_vars, NEW l \in Lobbies, Leased(l)
    PROVE  Leased(l)'
BY Steps, OtherLeased, CleanupLeased, FinishLeased, JoinLeased, OpenerLeased

LEMMA InitLeased == Init => \A l \in Lobbies : Leased(l)
BY LobbiesAssumption DEF Init, RegistryInit, Leased, Live, NewLobby

\* A lease over all players means that the registry has them in no other game.
LEMMA PlayersHeld == CorridaIInv /\ (\A l \in Lobbies : Leased(l)) => PlayersReserved
<1> SUFFICES ASSUME CorridaIInv, \A l \in Lobbies : Leased(l), NEW l \in Lobbies, Seen(l),
                    NEW u \in lobby[l].locked
             PROVE  userSession[u] = l
  BY DEF PlayersReserved
<1>0. Typed /\ LobbyInv(l) /\ Leased(l) /\ RegistryIInv /\ l \in Sessions /\ u \in Users
  BY LobbiesAssumption, LobbyFields DEF CorridaIInv, Typed
<1>1. opener[l] \in {"posting", "open", "refunding", "withdrawing"}
  BY <1>0, LobbyTypesOf DEF LobbyInv, Opening, Seen, OpenerState
<1>2. l \in Live /\ u \in sessions[l].active
  BY <1>0, <1>1 DEF Leased, Seen
<1> QED
  BY <1>0, <1>2 DEF RegistryIInv, LeaseCoversPlayers, UserIndexAgrees

-----------------------------------------------------------------------------
\* No refused start button ever takes the mark "starting" from a race that a
\* handler is cancelling, or is about to start (corrida.py:915-917).
MarksKept == [][MarksStay]_vars

\* While MarksKept holds, and for any number of lobbies that follow one another
\* in a guild, of players who leave and of handlers at once: nobody is charged
\* twice or refunded twice, and no race is settled twice or after a refund.  A
\* lobby may outlast its limits while it waits for players.
THEOREM MoneyIfMarksStay ==
    ASSUME OverdueIn \subseteq {"open"}
    PROVE  Spec /\ MarksKept => [](EntryTakenOnce /\ SettledOnce)
<1>1. Init => CorridaIInv
  BY InitTyped, InitLobbyInv DEF CorridaIInv
<1>2. CorridaIInv /\ UNCHANGED vars => MarksStay
  BY DEF vars, MarksStay, MarkStays
<1>3. CorridaIInv /\ [Next]_vars /\ [MarksStay]_vars => CorridaIInv'
  BY <1>2, NextCorridaIInv
<1>4. CorridaIInv => EntryTakenOnce /\ SettledOnce
  BY EntriesCounted, RacesCounted
<1> QED
  BY <1>1, <1>3, <1>4, PTL DEF Spec, MarksKept

\* Under the same condition the registry keeps the players of the guild's open
\* lobby reserved for it: they can be in no other game meanwhile.
THEOREM PlayersReservedIfMarksStay ==
    ASSUME OverdueIn \subseteq {"open"}
    PROVE  Spec /\ MarksKept => []PlayersReserved
<1> DEFINE I == CorridaIInv /\ \A l \in Lobbies : Leased(l)
<1>1. Init => I
  BY InitTyped, InitLobbyInv, InitLeased DEF CorridaIInv
<1>2. CorridaIInv /\ UNCHANGED vars => MarksStay
  BY DEF vars, MarksStay, MarkStays
<1>3. I /\ [Next]_vars /\ [MarksStay]_vars => I'
  BY <1>2, NextCorridaIInv, NextLeased
<1>4. I => PlayersReserved
  BY PlayersHeld
<1> QED
  BY <1>1, <1>3, <1>4, PTL DEF Spec, MarksKept

\* Where the guild has one race and no player leaves it, no refused start button
\* can do so: nobody is charged twice or refunded twice, and no race is settled
\* twice or after a refund, whatever the order of joins, presses and timeouts.
THEOREM OneLobbyMoney ==
    ASSUME OneLobby, MayLeave = {}, OverdueIn \subseteq {"open"}
    PROVE  Spec => [](EntryTakenOnce /\ SettledOnce)
<1>1. Init => CorridaIInv
  BY InitTyped, InitLobbyInv DEF CorridaIInv
<1>2. CorridaIInv /\ [Next]_vars => CorridaIInv'
  BY OneLobbyMarks, NextCorridaIInv
<1>3. CorridaIInv => EntryTakenOnce /\ SettledOnce
  BY EntriesCounted, RacesCounted
<1> QED
  BY <1>1, <1>2, <1>3, PTL DEF Spec

-----------------------------------------------------------------------------
\* With joins saved before the race is over, a lobby that ended is closed.
Settling(l) == \E f \in Finishes : finish[f].lobby = l /\ finish[f].pc = "paying"
Closed(l) ==
    /\ settled[l] = 1 => pot[l] = lobby[l].locked
    /\ lobby[l].ended => lock[l] = NoTask
    /\ lobby[l].ended => l \notin Live \/ Settling(l)
\* The guild's only lobby is its race until it is over.
Found(l) ==
    opener[l] \notin {"none", "done"} /\ race # l => lobby[l].ended \/ cleanup[l].pc # "none"

\* The steps that may disturb either, seen from one lobby.
LEMMA ClosedAside ==
    ASSUME NEW l \in Lobbies, Closed(l), sessions'[l] = sessions[l],
           lobby'[l].locked = lobby[l].locked, lobby'[l].ended = lobby[l].ended,
           lock'[l] = lock[l], settled'[l] = settled[l], pot'[l] = pot[l],
           Settling(l) => Settling(l)'
    PROVE  Closed(l)'
BY LobbiesAssumption DEF Closed, Live

\* Of a lobby that has neither ended nor been settled Closed asks nothing.
LEMMA ClosedOpen ==
    ASSUME NEW l \in Lobbies, ~lobby'[l].ended, settled'[l] = 0
    PROVE  Closed(l)'
BY DEF Closed

LEMMA NotEnded ==
    ASSUME NEW l \in Lobbies, LobbyInv(l), ~lobby[l].ended
    PROVE  settled[l] = 0
BY DEF LobbyInv, EndsOnce

\* Closed is kept by every kind of step.
LEMMA OpenerClosed ==
    ASSUME CorridaIInv, NEW l \in Lobbies, OpenerStep(l) \/ \E u \in Users : Trigger(l, u)
    PROVE  Closed(l)'
<1>0. Typed /\ LobbyInv(l)
  BY DEF CorridaIInv
<1>1. CASE OpenerStep(l)
  <2>1. opener[l] # "open" /\ UNCHANGED settled
    BY <1>1, OpenerAside
  <2>2. ~lobby[l].ended /\ settled[l] = 0
    BY <1>0, <2>1, OpenerAlone, OpenerFacts
  <2>3. ~lobby'[l].ended
    BY <1>0, <1>1, <2>2, WithdrawEffect, OpenerPaysEffect, OpenerRefundsEffect,
       OpenerReservesEffect, OpenerMovesEffect DEF OpenerStep, LobbyTurns, Become
  <2> QED
    BY <2>1, <2>2, <2>3, ClosedOpen
<1>2. ASSUME NEW u \in Users, Trigger(l, u) PROVE Closed(l)'
  <2>1. opener[l] = "none" /\ ~lobby'[l].ended /\ UNCHANGED settled
    BY <1>0, <1>2, TriggerEffect DEF Become
  <2> QED
    BY <1>0, <2>1, OpenerAlone, ClosedOpen
<1> QED
  BY <1>1, <1>2

LEMMA JoinClosed ==
    ASSUME CorridaIInv, OneLobby, NEW l \in Lobbies, Closed(l), NEW j \in Joins,
           JoinStep(j) \/ \E m \in Lobbies, u \in Users : JoinPress(j, m, u)
    PROVE  Closed(l)'
<1>0. Typed /\ LobbyInv(l)
  BY DEF CorridaIInv
<1>1. CASE UNCHANGED <<registryVars, lobby, lock, finish, settled, pot>>
  BY <1>1, ClosedAside DEF registryVars, Settling
<1>2. join[j].pc # "idle" => join[j].lobby = l
  BY <1>0 DEF Typed, HandlersKnown, OneLobby
<1>3. ASSUME lock[l] = j, ~lobby[l].ended => ~lobby'[l].ended, UNCHANGED settled
      PROVE  Closed(l)'
  BY <1>0, <1>3, TasksAssumption, NotEnded, ClosedOpen DEF Closed
<1>4. CASE JoinReserves(j)
  <2>1. join[j].pc = "paid" /\ UNCHANGED settled
    BY <1>4 DEF JoinReserves
  <2>2. join[j].lobby = l /\ lock[l] = j
    BY <1>0, <1>2, <2>1 DEF LobbyInv, LockHeld
  <2>3. lobby'[l].ended = lobby[l].ended
    BY <1>0, <1>4, <2>2, JoinReservesEffect DEF LobbyTurns, Become
  <2> QED
    BY <1>3, <2>1, <2>2, <2>3
<1>5. CASE JoinRefunds(j)
  <2>1. join[j].pc = "refunding" /\ UNCHANGED <<lobby, settled>>
    BY <1>5 DEF JoinRefunds
  <2>2. lock[l] = j
    BY <1>0, <1>2, <2>1 DEF LobbyInv, LockHeld
  <2> QED
    BY <1>3, <2>1, <2>2
<1>6. ASSUME EnterJoin(j), join[j].pc # "idle" PROVE Closed(l)'
  <2>1. /\ JoinCharges(j, l, join[j].user) \/ JoinFails(j)
        /\ UNCHANGED <<lobby, opener, finish, settled, pot>>
    BY <1>0, <1>2, <1>6, EnterJoinEffect
  <2>2. CASE JoinFails(j)
    BY <1>1, <1>6, <2>1, <2>2 DEF JoinFails, EnterJoin
  <2>3. CASE JoinCharges(j, l, join[j].user)
    BY <1>0, <2>1, <2>3, NotEnded, ClosedOpen DEF JoinCharges, Accepting, Seen
  <2> QED
    BY <2>1, <2>2, <2>3
<1> QED
  BY <1>1, <1>4, <1>5, <1>6
     DEF JoinStep, JoinPress, JoinGivesUp, JoinConfirms, JoinGetsLock, JoinRefused

LEMMA CleanupClosed ==
    ASSUME CorridaIInv, NEW l \in Lobbies, Closed(l), CleanupStep(l) \/ GoesOverdue(l)
    PROVE  Closed(l)'
<1>0. Typed /\ LobbyInv(l) /\ RegistryIInv /\ l \in Sessions
  BY LobbiesAssumption DEF CorridaIInv, Typed
<1>1. CASE UNCHANGED <<registryVars, lobby, lock, finish, settled, pot>>
  BY <1>1, ClosedAside DEF registryVars, Settling
<1>2. ASSUME CleanupCancels(l), cleanup[l].pc # "none" PROVE Closed(l)'
  BY <1>0, <1>2, CleanerFacts, ReleasedLease DEF CleanupCancels, Closed
<1>3. CASE GoesOverdue(l)
  <2>1. ~lobby[l].ended /\ lobby'[l].ended = lobby[l].ended /\ UNCHANGED settled
    BY <1>0, <1>3, GoesOverdueEffect DEF MayGoOverdue, LobbyTurns, Become
  <2> QED
    BY <1>0, <2>1, NotEnded, ClosedOpen
<1> QED
  BY <1>1, <1>2, <1>3
     DEF CleanupStep, CleanupStarts, CleanupEnds, CleanupCloses, CleanupRefunds

LEMMA OtherClosed ==
    ASSUME CorridaIInv, NEW l \in Lobbies, Closed(l), OtherStep \/ LookupDropsRace
    PROVE  Closed(l)'
<1>0. RegistryIInv /\ l \in Sessions /\ "none" \in Deadline /\ {} \in SUBSET Users
  BY LobbiesAssumption DEF CorridaIInv, Typed, Deadline
<1>1. UNCHANGED <<lobby, lock, finish, settled, pot>>
  BY OtherEffect DEF lobbyVars, LookupDropsRace
<1>2. CASE Release(l)
  <2>1. l \notin Live'
    BY <1>0, <1>2 DEF Release, ReleaseLocked, Live, RegistryIInv, RegistryTypeOK
  <2> QED
    BY <1>1, <2>1 DEF Closed
<1>3. CASE UNCHANGED registryVars
  BY <1>1, <1>3, ClosedAside DEF registryVars, Settling
<1>4. CASE OtherStep /\ ~UNCHANGED registryVars /\ ~Release(l)
  <2>1. \E s \in Sessions \ {l} :
             \/ Release(s) \/ \E u \in Users : CreatePending(s, Guild, u, {}, "none")
             \/ \E players \in SUBSET Users : Activate(s, players, "none")
    BY <1>4, LobbiesAssumption
       DEF OtherStep, OtherGames, OtherCloses, OtherOpens, OtherPlays, TrucoReapsLease, vars
  <2>2. sessions'[l] = sessions[l]
    BY <1>0, <2>1, OtherLeases, GuildAssumption
  <2> QED
    BY <1>1, <2>2, ClosedAside DEF Settling
<1> QED
  BY <1>2, <1>3, <1>4 DEF LookupDropsRace

\* A race is settled with the lock free, so that nobody joins it afterwards.
LEMMA FinishClosed ==
    ASSUME CorridaIInv, OneLobby, ~JoinsOutlastRaces, NEW l \in Lobbies, Closed(l),
           NEW f \in Finishes,
           \/ FinishStep(f)
           \/ \E m \in Lobbies : PressStart(f, m) \/ ViewTimesOut(f, m)
    PROVE  Closed(l)'
<1>0. Typed /\ LobbyInv(l) /\ RegistryIInv /\ l \in Sessions
  BY LobbiesAssumption DEF CorridaIInv, Typed
<1>1. finish[f].pc # "idle" => finish[f].lobby = l /\ finish[f].source \in {"button", "timeout"}
  BY <1>0 DEF Typed, HandlersKnown, OneLobby
<1>2. ASSUME finish[f].pc # "paying", UNCHANGED <<registryVars, lock, settled, pot>>,
             \A g \in Finishes \ {f} : finish'[g] = finish[g], LobbyAside(l)
      PROVE  Closed(l)'
  <2>1. Settling(l) => Settling(l)'
    BY <1>2 DEF Settling
  <2> QED
    BY <1>2, <2>1, ClosedAside DEF registryVars, LobbyAside
<1>3. ASSUME NEW source \in {"button", "timeout"}, EnterFinish(f, l, source),
             finish[f].pc \in {"idle", "waiting"}
      PROVE  Closed(l)'
  <2>1. /\ FinishEnters(f, l, source)
           \/ (Refuses(source) /\ FinishTurns(f, "idle", NoLobby, "none", {}))
        /\ UNCHANGED <<lock, settled, pot>>
    BY <1>0, <1>3, EnterFinishEffect
  <2>2. CASE FinishEnters(f, l, source)
    <3>1. ~lobby[l].ended /\ lobby'[l].ended = lobby[l].ended
      BY <2>2 DEF FinishEnters, Accepting, Seen, LobbyTurns, Become
    <3> QED
      BY <1>0, <2>1, <3>1, NotEnded, ClosedOpen
  <2>3. CASE ~FinishEnters(f, l, source)
    <3>1. LobbyAside(l)
      BY <1>0, <2>1, <2>3, RefusesAside
    <3> QED
      BY <1>2, <1>3, <2>1, <2>3, <3>1 DEF FinishTurns, EnterFinish
  <2> QED
    BY <2>2, <2>3
<1>4. ASSUME NEW m \in Lobbies, PressStart(f, m) \/ ViewTimesOut(f, m) PROVE Closed(l)'
  <2>1. m = l
    BY DEF OneLobby
  <2>2. CASE LookupDropsRace
    BY <2>2, OtherClosed
  <2>3. finish[f].pc = "idle"
    BY <1>4 DEF PressStart, ViewTimesOut
  <2>4. LookupDropsRace \/ \E source \in {"button", "timeout"} : CallFinish(f, l, source)
    BY <1>4, <2>1 DEF PressStart, ViewTimesOut
  <2>5. ASSUME NEW source \in {"button", "timeout"}, CallFinish(f, l, source) PROVE Closed(l)'
    <3>1. CASE LockAtOnce(l)
      BY <1>3, <2>3, <2>5, <3>1 DEF CallFinish
    <3>2. CASE ~LockAtOnce(l)
      <4>1. /\ FinishTurns(f, "waiting", l, source, {})
            /\ UNCHANGED <<lobby, lock, settled, pot, registryVars>>
        BY <1>0, <2>5, <3>2, FinishWaitsEffect DEF CallFinish
      <4> QED
        BY <1>2, <2>3, <4>1 DEF FinishTurns, LobbyAside
    <3> QED
      BY <3>1, <3>2
  <2> QED
    BY <2>2, <2>4, <2>5
<1>5. CASE FinishGetsLock(f)
  BY <1>1, <1>3, <1>5 DEF FinishGetsLock
<1>6. ASSUME NEW u \in Users, FinishRefunds(f, u) PROVE Closed(l)'
  <2>1. finish[f].pc = "refunding" /\ UNCHANGED <<lobby, lock, settled, pot, registryVars>>
        /\ \A g \in Finishes \ {f} : finish'[g] = finish[g]
    BY <1>0, <1>6, FinishRefundsEffect DEF FinishRefunds, FinishTurns
  <2> QED
    BY <1>2, <2>1 DEF LobbyAside
<1>7. CASE FinishCloses(f)
  <2>1. finish[f].pc = "closing" /\ UNCHANGED <<lobby, lock, settled, pot, registryVars>>
        /\ \A g \in Finishes \ {f} : finish'[g] = finish[g]
    BY <1>0, <1>7, FinishClosesEffect DEF FinishCloses, FinishTurns
  <2> QED
    BY <1>2, <2>1 DEF LobbyAside
<1>8. CASE FinishFindsEnd(f)
  <2>1. finish[f].pc = "racing" /\ UNCHANGED <<lock, settled, pot, registryVars>>
        /\ \A g \in Finishes \ {f} : finish'[g] = finish[g]
        /\ Refuses(finish[f].source)
    BY <1>0, <1>8, FinishFindsEndEffect DEF FinishFindsEnd, FinishTurns
  <2>2. LobbyAside(l) /\ finish[f].pc # "paying"
    <3>1. \A k \in Lobbies : LobbyAside(k)
      BY <1>0, <1>8, FinishFindsEndEffect, RefusesAside
    <3> QED
      BY <2>1, <3>1
  <2> QED
    BY <1>2, <2>1, <2>2
<1>9. CASE FinishStarts(f) \/ FinishRaces(f)
  <2>1. /\ finish[f].pc \in {"prelude", "started"} /\ UNCHANGED <<lock, settled, pot, registryVars>>
        /\ \A g \in Finishes \ {f} : finish'[g] = finish[g]
    BY <1>0, <1>9, FinishStartsEffect, FinishRacesEffect DEF FinishStarts, FinishRaces, FinishTurns
  <2>2. lobby'[l].locked = lobby[l].locked /\ lobby'[l].ended = lobby[l].ended
    BY <1>0, <1>1, <1>9, <2>1, FinishStartsEffect, FinishRacesEffect DEF LobbyTurns, Become
  <2>3. Settling(l) => Settling(l)'
    BY <2>1 DEF Settling
  <2> QED
    BY <2>1, <2>2, <2>3, ClosedAside DEF registryVars
<1>10. CASE FinishCancels(f)
  <2>1. /\ finish[f].pc = "refunding" /\ finish[f].lobby = l /\ ReleaseRegistry(l)
        /\ UNCHANGED <<lock, settled, pot>>
    BY <1>1, <1>10 DEF FinishCancels
  <2>2. lock[l] = NoTask /\ settled[l] = 0
    BY <1>0, <2>1 DEF LobbyInv, DecidedAlone, BeingDecided, EndsOnce
  <2> QED
    BY <1>0, <2>1, <2>2, ReleasedLease DEF Closed
<1>11. CASE FinishSettles(f)
  <2>1. /\ finish[f].lobby = l /\ LockAtOnce(l) /\ pot'[l] = lobby[l].locked
        /\ lobby'[l].locked = lobby[l].locked
        /\ finish'[f].lobby = l /\ finish'[f].pc = "paying" /\ UNCHANGED lock
    <3>1. finish[f].pc = "racing"
      BY <1>11 DEF FinishSettles
    <3>2. finish[f].lobby = l
      BY <1>1, <3>1
    <3> QED
      BY <1>0, <1>11, <3>2, FinishSettlesEffect, LobbyTypesOf DEF LobbyTurns, Become, FinishTurns
  <2>2. Settling(l)'
    BY <2>1 DEF Settling
  <2> QED
    BY <2>1, <2>2 DEF Closed, LockAtOnce
<1>12. CASE FinishPays(f)
  <2>1. /\ finish[f].pc = "paying" /\ finish[f].lobby = l /\ ReleaseRegistry(l)
        /\ UNCHANGED <<lock, settled, pot>>
    BY <1>1, <1>12 DEF FinishPays
  <2>2. lobby[l].ended
    BY <1>0, <2>1 DEF LobbyInv, DecidedAlone
  <2>3. lobby'[l].locked = lobby[l].locked
    BY <1>0, <1>12, <2>1, FinishPaysEffect DEF LobbyTurns, Become
  <2> QED
    BY <1>0, <2>1, <2>2, <2>3, ReleasedLease DEF Closed
<1> QED
  BY <1>4, <1>5, <1>6, <1>7, <1>8, <1>9, <1>10, <1>11, <1>12 DEF FinishStep

\* Found is kept unless the race is dropped or a lobby opened.
LEMMA FoundAside ==
    ASSUME NEW l \in Lobbies, Found(l), opener'[l] = opener[l] \/ race' = l,
           race' = race \/ race' = l \/ lobby'[l].ended \/ cleanup'[l].pc # "none",
           lobby[l].ended => lobby'[l].ended,
           cleanup[l].pc # "none" => cleanup'[l].pc # "none"
    PROVE  Found(l)'
BY DEF Found

\* A lookup drops a race that ended or whose cleanup it spawns.
LEMMA LookupFound ==
    ASSUME Typed, NEW l \in Lobbies, Lookup
    PROVE  /\ race' = race \/ race # l \/ lobby[l].ended \/ cleanup'[l].pc # "none"
           /\ cleanup[l].pc # "none" => cleanup'[l].pc # "none"
           /\ race' \in {race, NoLobby}
BY LobbyTypesOf, LobbiesAssumption
   DEF Lookup, CleanupAfterLookup, RaceAfterLookup, NothingSeen, Seen

\* Found is kept by every kind of step.
LEMMA OpenerFound ==
    ASSUME CorridaIInv, NEW l \in Lobbies, Found(l),
           OpenerStep(l) \/ \E u \in Users : Trigger(l, u)
    PROVE  Found(l)'
<1>0. Typed /\ LobbyInv(l)
  BY DEF CorridaIInv
<1>1. CASE \E u \in Users : Trigger(l, u)
  BY <1>1 DEF Trigger, Found
<1>2. CASE OpenerGivesUp(l) \/ OpenerWithdraws(l)
  BY <1>0, <1>2, WithdrawEffect DEF OpenerTurns, Found
<1>3. ASSUME UNCHANGED race, OpenerStep(l), opener[l] \notin {"none", "done"} PROVE Found(l)'
  <2>1. opener[l] # "open"
    BY <1>3, OpenerAside
  <2>2. ~lobby[l].ended /\ cleanup[l].pc = "none"
    BY <1>0, <2>1, OpenerAlone, OpenerFacts
  <2> QED
    BY <1>3, <2>2 DEF Found
<1> QED
  BY <1>1, <1>2, <1>3
     DEF OpenerStep, OpenerPays, OpenerReserves, OpenerRefused, OpenerPosts, OpenerPostFails,
         OpenerRefunds

LEMMA JoinFound ==
    ASSUME CorridaIInv, NEW l \in Lobbies, Found(l), NEW j \in Joins,
           JoinStep(j) \/ \E m \in Lobbies, u \in Users : JoinPress(j, m, u)
    PROVE  Found(l)'
<1>0. Typed
  BY DEF CorridaIInv
<1>1. CASE UNCHANGED <<race, lobby, opener, cleanup>>
  BY <1>1, FoundAside
<1>2. CASE EnterJoin(j)
  <2>1. Lookup /\ UNCHANGED <<lobby, opener>>
    BY <1>2 DEF EnterJoin
  <2> QED
    BY <1>0, <2>1, LookupFound, FoundAside DEF Found
<1>3. CASE JoinReserves(j)
  <2>1. UNCHANGED <<race, opener, cleanup>> /\ join[j].pc = "paid"
    BY <1>3 DEF JoinReserves
  <2>2. lobby'[l].ended = lobby[l].ended
    BY <1>0, <1>3, JoinReservesEffect DEF LobbyTurns, Become
  <2> QED
    BY <2>1, <2>2, FoundAside
<1> QED
  BY <1>1, <1>2, <1>3
     DEF JoinStep, JoinPress, JoinGivesUp, JoinConfirms, JoinGetsLock, JoinRefused, JoinRefunds

LEMMA CleanupFound ==
    ASSUME CorridaIInv, NEW l \in Lobbies, Found(l), CleanupStep(l) \/ GoesOverdue(l)
    PROVE  Found(l)'
<1>0. Typed
  BY DEF CorridaIInv
<1>1. CASE GoesOverdue(l)
  <2>1. UNCHANGED <<race, opener, cleanup>> /\ lobby'[l].ended = lobby[l].ended
    BY <1>0, <1>1, GoesOverdueEffect DEF LobbyTurns, Become
  <2> QED
    BY <2>1, FoundAside
<1>2. CASE CleanupStep(l)
  <2>1. cleanup'[l].pc # "none"
    BY <1>0, <1>2, CleanupStartsEffect, CleanupCancelsEffect, CleanupRefundsEffect,
       CleanupClosesEffect DEF CleanupStep, CleanupEnds, CleanupTurns
  <2> QED
    BY <2>1 DEF Found
<1> QED
  BY <1>1, <1>2

LEMMA FinishFound ==
    ASSUME CorridaIInv, OneLobby, NEW l \in Lobbies, Found(l), NEW f \in Finishes,
           \/ FinishStep(f)
           \/ \E m \in Lobbies : PressStart(f, m) \/ ViewTimesOut(f, m)
    PROVE  Found(l)'
<1>0. Typed /\ LobbyInv(l)
  BY DEF CorridaIInv
<1>1. finish[f].pc # "idle" => finish[f].lobby = l /\ finish[f].source \in {"button", "timeout"}
  BY <1>0 DEF Typed, HandlersKnown, OneLobby
<1>2. ASSUME UNCHANGED <<opener, cleanup>>, lobby[l].ended => lobby'[l].ended,
             UNCHANGED race \/ lobby'[l].ended
      PROVE  Found(l)'
  BY <1>2, FoundAside
<1>3. ASSUME NEW source \in {"button", "timeout"}, EnterFinish(f, l, source) PROVE Found(l)'
  <2>1. Lookup /\ UNCHANGED opener
    BY <1>3 DEF EnterFinish
  <2>2. FinishEnters(f, l, source) \/ Refuses(source)
    BY <1>0, <1>3, EnterFinishEffect
  <2>3. lobby'[l].ended = lobby[l].ended
    <3>1. CASE FinishEnters(f, l, source)
      BY <3>1 DEF FinishEnters, LobbyTurns, Become
    <3>2. CASE Refuses(source)
      <4>1. \A k \in Lobbies : LobbyAside(k)
        BY <1>0, <3>2, RefusesAside
      <4> QED
        BY <4>1 DEF LobbyAside
    <3> QED
      BY <2>2, <3>1, <3>2
  <2> QED
    BY <1>0, <2>1, <2>3, LookupFound, FoundAside DEF Found
<1>4. CASE LookupDropsRace
  BY <1>0, <1>4, LookupFound, FoundAside DEF LookupDropsRace, Found
<1>5. ASSUME NEW m \in Lobbies, PressStart(f, m) \/ ViewTimesOut(f, m) PROVE Found(l)'
  <2>1. m = l
    BY DEF OneLobby
  <2> QED
    BY <1>2, <1>3, <1>4, <1>5, <2>1 DEF PressStart, ViewTimesOut, CallFinish
<1>6. CASE FinishGetsLock(f)
  BY <1>1, <1>3, <1>6 DEF FinishGetsLock
<1>7. CASE FinishCloses(f) \/ FinishPays(f)
  <2>1. finish[f].pc \in {"closing", "paying"} /\ UNCHANGED <<opener, cleanup>>
    BY <1>7 DEF FinishCloses, FinishPays
  <2>2. finish[f].lobby = l /\ lobby[l].ended
    BY <1>0, <1>1, <2>1 DEF LobbyInv, DecidedAlone
  <2>3. lobby'[l].ended
    BY <1>0, <1>7, <2>2, FinishClosesEffect, FinishPaysEffect DEF LobbyTurns, Become
  <2> QED
    BY <1>2, <2>1, <2>3
<1>8. CASE FinishFindsEnd(f)
  <2>1. \A k \in Lobbies : LobbyAside(k)
    BY <1>0, <1>8, FinishFindsEndEffect, RefusesAside
  <2> QED
    BY <1>2, <1>8, <2>1 DEF LobbyAside, FinishFindsEnd
<1>9. CASE FinishStarts(f) \/ FinishRaces(f) \/ FinishSettles(f) \/ FinishCancels(f)
  <2>1. UNCHANGED <<race, opener, cleanup>> /\ finish[f].pc # "idle"
    BY <1>9 DEF FinishStarts, FinishRaces, FinishSettles, FinishCancels
  <2>2. finish[f].lobby = l
    BY <1>1, <2>1
  <2>3. lobby'[l].ended = lobby[l].ended \/ lobby'[l].ended
    <3>1. CASE FinishStarts(f)
      BY <1>0, <2>2, <3>1, FinishStartsEffect DEF LobbyTurns, Become
    <3>2. CASE FinishRaces(f)
      BY <1>0, <2>2, <3>2, FinishRacesEffect DEF LobbyTurns, Become
    <3>3. CASE FinishSettles(f)
      BY <1>0, <2>2, <3>3, FinishSettlesEffect DEF LobbyTurns, Become
    <3>4. CASE FinishCancels(f)
      BY <1>0, <2>2, <3>4, FinishCancelsEffect DEF LobbyTurns, Become
    <3> QED
      BY <1>9, <3>1, <3>2, <3>3, <3>4
  <2> QED
    BY <1>2, <2>1, <2>3
<1> QED
  BY <1>2, <1>5, <1>6, <1>7, <1>8, <1>9 DEF FinishStep, FinishRefunds

\* The invariant of a guild whose only race is this one.
OneIInv ==
    /\ CorridaIInv
    /\ \A l \in Lobbies : Leased(l)
    /\ \A l \in Lobbies : Closed(l) /\ Found(l)

\* The invariant of the only race is inductive.
LEMMA NextOneIInv ==
    ASSUME OneLobby, MayLeave = {}, OverdueIn \subseteq {"open"}, ~JoinsOutlastRaces
    PROVE  OneIInv /\ [Next]_vars => OneIInv'
<1> SUFFICES ASSUME OneIInv, [Next]_vars PROVE OneIInv'
  OBVIOUS
<1>0. CorridaIInv /\ \A l \in Lobbies : Leased(l) /\ Closed(l) /\ Found(l)
  BY DEF OneIInv
<1>1. CorridaIInv'
  BY <1>0, OneLobbyMarks, NextCorridaIInv
<1>2. ASSUME NEW l \in Lobbies PROVE Leased(l)'
  BY <1>0, NextLeased
<1>3. ASSUME NEW l \in Lobbies PROVE Closed(l)' /\ Found(l)'
  <2>1. CASE OtherStep
    <3>1. Found(l)'
      BY <1>0, <2>1, OtherEffect, FoundAside DEF lobbyVars
    <3> QED
      BY <1>0, <2>1, <3>1, OtherClosed
  <2>2. CASE LookupDropsRace
    <3>1. Found(l)'
      BY <1>0, <2>2, LookupFound, FoundAside DEF LookupDropsRace, CorridaIInv, Found
    <3> QED
      BY <1>0, <2>2, <3>1, OtherClosed
  <2>3. ASSUME NEW m \in Lobbies, GoesOverdue(m) \/ CleanupStep(m) \/ OpenerStep(m)
                                  \/ \E u \in Users : Trigger(m, u)
        PROVE  Closed(l)' /\ Found(l)'
    <3>1. m = l
      BY DEF OneLobby
    <3> QED
      BY <1>0, <2>3, <3>1, OpenerClosed, CleanupClosed, OpenerFound, CleanupFound
  <2> QED
    BY <1>0, <2>1, <2>2, <2>3, JoinClosed, FinishClosed, JoinFound, FinishFound, Steps
<1> QED
  BY <1>1, <1>2, <1>3 DEF OneIInv

LEMMA InitOneIInv == Init => OneIInv
<1> SUFFICES ASSUME Init PROVE OneIInv
  OBVIOUS
<1>1. \A l \in Lobbies : Closed(l) /\ Found(l)
  BY LobbiesAssumption DEF Init, Closed, Found, NewLobby
<1> QED
  BY <1>1, InitTyped, InitLobbyInv, InitLeased DEF OneIInv, CorridaIInv

\* What is left when nothing is under way for a lobby.
LEMMA QuietLobby ==
    ASSUME OneIInv, NEW l \in Lobbies, Quiet(l), race # l
    PROVE  l \notin Live /\ \A u \in Users : net[l][u] = IF u \in pot[l] THEN 1 ELSE 0
<1>0. Typed /\ LobbyInv(l) /\ Leased(l) /\ Closed(l) /\ Found(l)
  BY DEF OneIInv, CorridaIInv
<1>1. CASE opener[l] \in {"none", "done"}
  <2>1. NetIs(l, {}) /\ pot[l] = {} /\ l \notin Live
    BY <1>0, <1>1 DEF LobbyInv, Opening, EndsOnce, EntriesHeld, Leased
  <2> QED
    BY <2>1 DEF NetIs
<1>2. CASE opener[l] = "open"
  <2>1. lobby[l].ended
    BY <1>0, <1>2, CleanerFacts DEF Found, Quiet
  <2>2. l \notin Live /\ lock[l] = NoTask
    BY <1>0, <2>1 DEF Closed, Settling, Quiet
  <2>3. CASE settled[l] = 0
    <3>1. NetIs(l, {}) /\ pot[l] = {}
      BY <1>0, <2>1, <2>3 DEF LobbyInv, EndsOnce, EntriesHeld, Cancelled
    <3> QED
      BY <2>2, <3>1 DEF NetIs
  <2>4. CASE settled[l] = 1
    <3>1. Charged(l) = {} /\ pot[l] = lobby[l].locked
      BY <1>0, <2>2, <2>4, TasksAssumption DEF Charged, Closed
    <3>2. NetIs(l, lobby[l].locked \cup Charged(l))
      BY <1>0, <1>2, <2>4 DEF Quiet, LobbyInv, EntriesHeld, Cancelled, Refunding
    <3> QED
      BY <2>2, <3>1, <3>2 DEF NetIs
  <2> QED
    BY <1>0, <2>3, <2>4 DEF LobbyInv, EndsOnce
<1> QED
  BY <1>1, <1>2 DEF Quiet

\* In such a guild, when a join is saved before the race is over, no entry is left
\* behind: once nobody works for the lobby and it is not the guild's race, every
\* entry is in the pot or back with its player.
THEOREM OneLobbySettles ==
    ASSUME OneLobby, MayLeave = {}, OverdueIn \subseteq {"open"}, ~JoinsOutlastRaces
    PROVE  Spec => []NoStrandedEntry
<1>1. OneIInv => NoStrandedEntry
  BY QuietLobby DEF NoStrandedEntry
<1>2. OneIInv /\ [Next]_vars => OneIInv'
  BY NextOneIInv
<1> QED
  BY <1>1, <1>2, InitOneIInv, PTL DEF Spec

\* In such a guild the registry holds the players of the lobby exactly as long as
\* the lobby has them: in no other game meanwhile, and no lease afterwards.
THEOREM OneLobbyReserves ==
    ASSUME OneLobby, MayLeave = {}, OverdueIn \subseteq {"open"}, ~JoinsOutlastRaces
    PROVE  Spec => []ReservedWhileInLobby
<1>1. OneIInv => ReservedWhileInLobby
  BY QuietLobby, PlayersHeld DEF ReservedWhileInLobby, NoLeakedLease, OneIInv
<1>2. OneIInv /\ [Next]_vars => OneIInv'
  BY NextOneIInv
<1> QED
  BY <1>1, <1>2, InitOneIInv, PTL DEF Spec
=============================================================================
