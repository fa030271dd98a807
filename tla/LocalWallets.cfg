CONSTANTS
  a1 = a1
  a2 = a2
  a3 = a3
  b1 = b1
  b2 = b2
  f1 = f1
  f2 = f2
  f3 = f3
  Coins = {a1, a2, a3, b1, b2, f1, f2, f3}
  Types = {"a", "b", "fee"}
  TypeOf <- CoinTypes
  Value <- CoinValues
  NoFee = ""
  Requests <- AllRequests
  Nights = {n1, n2}
  DTxs = {c1, c2}
  MaxTime = 3
  Grace = 1
  MaxSpends = 2
  MaxRestores = 1
  STxs = {c1, c2}
  InitialCoins = 2
  MaxCoins = 4
  MaxSRestores = 1
  u1 = u1
  u2 = u2
  Calls = {c1, c2}
  NightUtxos = {u1, u2}
  Rate <- MCRate
  Cap = 3
  MaxTicks = 2
  Fees = {1, 2}
  Networks <- MCNetworks
  CharsOf <- MCCharsOf
  LowerCase <- MCLowerCase
  KeyLength = 2
  Modulus = 5
  MaxBytes = 5
  Mainnet = "mainnet"
  Foreign <- MCForeign
  NoText = NoText
  Roles = {0, 2}
  PathNumbers <- MCPathNumbers
  Hardened = 2
  MaxKeys = 2
  MaxDerived = 2
  HexDigit = 2
  HashBytes = 2
  Field <- MCField
  Margin = 1
  NoKey = NoKey
  Refused = Refused
  Utxos = {o1, o2}
  OthersUtxos = {x1}
  ZswapCoins = {z1}
  DustCoins = {d1}
  MaxSegment = 6
  MaxBalances = 2
  Unsigned = Unsigned
  NoTransaction = NoTransaction
  Asks = {c1, c2}
  MaxWrites = 2
  MaxStarts = 1
  MaxReopened = 1
  Nothing = Nothing
SPECIFICATION WalletsSpec
INVARIANTS
  SpendsDistinctCoins
  OutcomeIsRight
  DustBookings
  ShieldedBookings
  RegistrationHolds
  EncodingsHold
  RecipesHold
  ClassesHold
CHECK_DEADLOCK FALSE
SYMMETRY WalletsSymmetry
