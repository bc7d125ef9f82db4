SPECIFICATION FairSpec
CONSTANTS
  u1 = u1
  u2 = u2
  Users = {u1, u2}
  Offers = {o1, o2}
  Reactors = {r1, r2}
  Amounts = {2}
  Start <- MCStart
  Entry = 2
  MayReplace = TRUE
  MayLeave = {u2}
  MaxDebt = 2
  NoOffer = NoOffer
  NoUser = NoUser
  NoHolder = NoHolder
  Game = Game
CHECK_DEADLOCK FALSE
INVARIANTS ChipsAccounted PaidConfirmed ExpiresInItsTime
PROPERTIES PaymentsEnd
