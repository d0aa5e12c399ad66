SPECIFICATION Spec
CONSTANTS
  Discipline <- AllButSettled
  Cases <- OnlyAllButSettled
  Balances = {24}
  Amounts = {0, 2}
  Coins = {19}
  Fees = {1}
  Ids = {p1, p2}
  MinimalFee = 1
  NodeFee = 1
  Share = 10
  Cent = 2
  MaxSpin = 48
  Exact = 32
  Grain = 4
  Modulus = 64
  MaxEvents = 4
INVARIANTS
  SentAsConfirmed
CHECK_DEADLOCK FALSE
