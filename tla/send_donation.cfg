SPECIFICATION FairSpec
CONSTANTS
  Discipline <- AllDisciplines
  Cases <- OnlyAllDisciplines
  Balances = {46}
  Amounts = {2}
  Coins = {35}
  Fees = {1}
  Ids = {p1, p2}
  MinimalFee = 1
  NodeFee = 1
  Share = 10
  Cent = 2
  MaxSpin = 48
  Exact = 32
  Grain = 4
  Modulus = 64
  MaxEvents = 3
PROPERTIES
  DonationIsShare
CHECK_DEADLOCK FALSE
