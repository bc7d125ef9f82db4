SPECIFICATION FairSpec
CONSTANTS
    Lobbies = {l1}
    Users = {u1, u2, u3}
    Joins = {j1, j2}
    Finishes = {f1, f2}
    Sessions = {l1, o1}
    Guild = g1
    Guilds = {g1}
    MaxActive = 2
    MaxPlayers = 3
    MayLeave = {}
    OverdueIn = {"open"}
    JoinsOutlastRaces = FALSE
    PostMayFail = TRUE
    NoLobby = NoLobby
    NoTask = NoTask
    NoUser = NoUser
    NoLease = NoLease
    NoSession = NoSession
CHECK_DEADLOCK FALSE
INVARIANTS TypeOK NoStrandedEntry EntryTakenOnce SettledOnce ReservedWhileInLobby
PROPERTIES EntriesSettle
