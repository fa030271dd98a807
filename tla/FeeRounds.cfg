SPECIFICATION FairSpec
CONSTANTS
  a1 = a1
  a2 = a2
  a3 = a3
  b1 = b1
  b2 = b2
  f1 = f1
  f2 = f2
  f3 = f3
  Coins = {a1, a2, a3, b1, b2, f1, f2, f3}
  Types = {"a", "b", "fee"}
  TypeOf <- CoinTypes
  Value <- CoinValues
  NoFee = ""
  Requests <- FeeRequests
PROPERTIES
  FeeBalancingEnds
CHECK_DEADLOCK FALSE
