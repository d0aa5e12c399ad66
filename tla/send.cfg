SPECIFICATION Spec
CONSTANTS
  Discipline <- AllDisciplines
  Cases <- AllOrNothing
  Balances = {3, 46}
  Amounts = {0, 2, 30}
  Coins = {19, 45}
  Fees = {1, 5}
  Ids = {p1, p2}
  MinimalFee = 1
  NodeFee = 1
  Share = 10
  Cent = 2
  MaxSpin = 48
  Exact = 32
  Grain = 4
  Modulus = 64
  MaxEvents = 5
INVARIANTS
  TypeOK
  SentAsConfirmed
  OutputsMatch
  BalanceCovers
CHECK_DEADLOCK FALSE
