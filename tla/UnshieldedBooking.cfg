SPECIFICATION BookingSpec
CONSTANTS
  u1 = u1
  u2 = u2
  u3 = u3
  t1 = t1
  t2 = t2
  NoTx = NoTx
  Utxos = {u1, u2, u3}
  Txs = {t1, t2}
  Faults <- NoFaults
  MaxChain = 3
  MaxDisconnects = 1
  MaxRestarts = 1
SYMMETRY Symmetry
INVARIANTS
  AvailableNotPending
  LiveInputsReserved
