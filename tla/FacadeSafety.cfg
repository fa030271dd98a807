SPECIFICATION Spec
CONSTANTS
  x = x
  y = y
  u = u
  d = d
  Idle = Idle
  Dead = Dead
  Subscription = Subscription
  Calls = {x, y}
  Coins = {u, d}
  Wallets <- UnshieldedAndDust
  WalletOf <- WalletOfCoin
  Flows <- BothFlows
  Faults <- AllFaults
  MaxMishaps = 1
INVARIANTS
  SafeUnlessMishap
  NoStrandedBooking
  HistoryTruthful
  FailedAwaitsRevert
CHECK_DEADLOCK FALSE
SYMMETRY Symmetry
