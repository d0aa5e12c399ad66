SPECIFICATION Spec
CONSTANTS
  Discipline <- AllButFeeCovered
  Cases <- OnlyAllButFeeCovered
  Balances = {3}
  Amounts = {2}
  Coins = {19}
  Fees = {5}
  Ids = {p1, p2}
  MinimalFee = 1
  NodeFee = 1
  Share = 10
  Cent = 2
  MaxSpin = 48
  Exact = 32
  Grain = 4
  Modulus = 64
  MaxEvents = 4
INVARIANTS
  BalanceCovers
CHECK_DEADLOCK FALSE
