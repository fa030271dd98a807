SPECIFICATION Spec
CONSTANTS
  x = x
  y = y
  u = u
  d = d
  Idle = Idle
  Dead = Dead
  Subscription = Subscription
  Calls = {x, y}
  Coins = {u}
  Wallets <- UnshieldedOnly
  WalletOf <- WalletOfCoin
  Flows <- PlainTransfer
  Faults <- StaleRevert
  MaxMishaps = 1
INVARIANTS
  AvailableIsSafe
CHECK_DEADLOCK FALSE
