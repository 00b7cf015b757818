SPECIFICATION SessionsSpec
CONSTANTS
  Accounts = {u1, u2}
  Passwords = {p1, p2}
  Lifetime = 2
  MaxTime = 3
  NoToken = NoToken
  Never = Never
  Address = Address
INVARIANTS
  CountedAsServed
  LetInByPassword
  InactiveIsOut
CHECK_DEADLOCK FALSE
