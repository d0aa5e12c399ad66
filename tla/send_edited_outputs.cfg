SPECIFICATION Spec
CONSTANTS
  Discipline <- AllButAsSelected
  Cases <- OnlyAllButAsSelected
  Balances = {24}
  Amounts = {2}
  Coins = {19}
  Fees = {1}
  Ids = {p1, p2}
  MinimalFee = 1
  NodeFee = 1
  Share = 10
  Cent = 2
  MaxSpin = 48
  Exact = 32
  Grain = 4
  Modulus = 64
  MaxEvents = 4
INVARIANTS
  OutputsMatch
CHECK_DEADLOCK FALSE
