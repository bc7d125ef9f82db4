SPECIFICATION Spec
CONSTANTS
  u1 = u1
  u2 = u2
  Users = {u1, u2}
  Offers = {o1}
  Reactors = {r1, r2}
  Amounts = {2}
  Start <- MCRichStart
  Entry = 0
  MayReplace = FALSE
  MayLeave = {}
  MaxDebt = 2
  NoOffer = NoOffer
  NoUser = NoUser
  NoHolder = NoHolder
  Game = Game
CHECK_DEADLOCK FALSE
INVARIANTS PaidOnce
