SPECIFICATION Spec
CONSTANTS
    Lobbies = {l1, l2}
    Users = {u1, u2}
    Joins = {j1}
    Finishes = {f1}
    Sessions = {l1, l2, o1}
    Guild = g1
    Guilds = {g1}
    MaxActive = 2
    MaxPlayers = 2
    MayLeave = {}
    OverdueIn = {}
    JoinsOutlastRaces = FALSE
    PostMayFail = TRUE
    NoLobby = NoLobby
    NoTask = NoTask
    NoUser = NoUser
    NoLease = NoLease
    NoSession = NoSession
INVARIANT NoStrandedEntry
CHECK_DEADLOCK FALSE
