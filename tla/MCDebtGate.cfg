SPECIFICATION FairGateSpec
CONSTANTS
    Users = {u1}
    Handlers = {h1, h2}
    Commands = {c1}
    Shows = {s1, s2}
    Amounts = {1}
    DailyChips = 1
    DailyBonus = 1
    RechargeBonus = 1
    Threshold = 0
    MaxDebt = 2
    MaxWorth = 1
    MaxRecharges = 1
    MaxAsks = 1
    NoHandler = NoHandler
    NoUser = NoUser
    NoShow = NoShow
    NoCommand = NoCommand
    StartDocs <- MCStartDocs
INVARIANTS DebtWasAuthorized DailyOnce OwnerWaitsAtGate
PROPERTIES ImplementsWallet ConsentIsPressed OwnersAnswered
