SPECIFICATION Spec
CONSTANTS
  Discipline <- AllButUndisturbed
  Cases <- OnlyAllButUndisturbed
  Balances = {3, 24}
  Amounts = {2, 12}
  Coins = {19}
  Fees = {1}
  Ids = {p1, p2}
  MinimalFee = 1
  NodeFee = 1
  Share = 10
  Cent = 2
  MaxSpin = 48
  Exact = 32
  Grain = 4
  Modulus = 64
  MaxEvents = 4
INVARIANTS
  BalanceCovers
CHECK_DEADLOCK FALSE
