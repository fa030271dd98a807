SPECIFICATION RecordsSpec
CONSTANTS
  a = a
  b = b
  Txs <- PartAndWhole
  SubmitForm = "chain"
  Sections <- ThreeWallets
  Outcomes = {"SUCCESS"}
  MaxCalls = 2
  MaxOthers = 1
  s1 = s1
  r1 = r1
  g1 = g1
  g2 = g2
  Transactions = {s1, r1}
  Rewards = {r1}
  Unbalanced = {s1, r1}
  SpendsOf <- MCSpends
  Expiry <- MCExpiry
  Mints <- MCMints
  MintTx = g2
  MaxDetours = 1
INVARIANTS
  HistoryKept
  OpenIsTracked
  AnswerIsTrue
  SimulatorFollowed
CHECK_DEADLOCK FALSE
