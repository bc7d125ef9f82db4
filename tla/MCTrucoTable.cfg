SPECIFICATION FairSpec
CONSTANTS
    Challenger = a
    Opponent = b
    Handlers = {h1, h2}
    Clock = clock
    Contributions <- MCContributions
    MayFail = {"charge"}
    MaxPresses = 7
    None = None
CHECK_DEADLOCK FALSE
INVARIANTS ChipsAccounted PlayersReserved SomebodyCanMove WinnerWonRounds
PROPERTIES TableCloses
