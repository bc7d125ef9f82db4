--------------------------- MODULE SessionLeases ---------------------------
(***************************************************************************)
(* What the registry of interactive game sessions promises, said of the    *)
(* leases alone: a user is reserved by at most one live session anywhere,  *)
(* and the users playing in a guild never exceed its limit.  There is no   *)
(* index here: every guard is stated over the leases themselves.           *)
(***************************************************************************)
EXTENDS Naturals, FiniteSets

CONSTANTS Sessions,   \* session ids
          Users,      \* Discord users
          Guilds,     \* Discord servers
          MaxActive,  \* players a guild may have at once
          NoLease     \* a session id with no lease

Deadline == {"none", "running", "passed"}
Lease == [guild: Guilds, reserved: SUBSET Users, active: SUBSET Users,
          state: {"pending", "active"}, deadline: Deadline]

VARIABLE leases
vars == leases

Live == {s \in Sessions : leases[s] # NoLease}

\* Users reserved by some live session, and users playing in a guild.
ReservedBy(s) == leases[s].reserved
Playing(g) ==
    {u \in Users : \E s \in Live : leases[s].guild = g /\ u \in leases[s].active}

Init == leases = [s \in Sessions |-> NoLease]

\* A session opens for its owner only if no other session reserves the owner
\* and the guild still has room.
Open(s, g, owner, deadline) ==
    /\ s \notin Live
    /\ \A r \in Live : owner \notin ReservedBy(r)
    /\ Cardinality(Playing(g)) < MaxActive
    /\ leases' = [leases EXCEPT ![s] =
                    [guild |-> g, reserved |-> {owner}, active |-> {},
                     state |-> "pending", deadline |-> deadline]]

\* The session starts, or takes in more players, if nobody else holds them.
Activate(s, players, deadline) ==
    /\ s \in Live
    /\ leases[s].active \subseteq players
    /\ \A r \in Live \ {s} : players \cap ReservedBy(r) = {}
    /\ Cardinality(Playing(leases[s].guild) \cup players) <= MaxActive
    /\ leases' = [leases EXCEPT ![s] =
                    [leases[s] EXCEPT !.reserved = @ \cup players,
                                      !.active = players,
                                      !.state = "active",
                                      !.deadline = deadline]]

SetDeadline(s, deadline) ==
    /\ s \in Live
    /\ leases' = [leases EXCEPT ![s] = [leases[s] EXCEPT !.deadline = deadline]]

Close(gone) ==
    /\ gone \subseteq Live
    /\ leases' = [s \in Sessions |-> IF s \in gone THEN NoLease ELSE leases[s]]

Next ==
    \/ \E s \in Sessions, g \in Guilds, owner \in Users, deadline \in Deadline :
          Open(s, g, owner, deadline)
    \/ \E s \in Sessions, players \in SUBSET Users, deadline \in Deadline :
          Activate(s, players, deadline)
    \/ \E s \in Sessions, deadline \in Deadline : SetDeadline(s, deadline)
    \/ \E gone \in SUBSET Sessions : Close(gone)

Spec == Init /\ [][Next]_vars
=============================================================================
