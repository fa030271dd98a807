SPECIFICATION ClientSpec
CONSTANTS
  BufferSize = 3
  ResumeThreshold = 1
  From = 1
  MaxPublished = 6
  FeedFaults <- AllFeedFaults
  u1 = u1
  u2 = u2
  t1 = t1
  NoTx = NoTx
  Utxos = {u1, u2}
  Txs = {t1}
  Faults <- AllFaults
  MaxChain = 3
  MaxDisconnects = 1
  MaxRestarts = 1
  Sources = {"s1", "s2"}
  Tags = {"v1", "v2"}
  Contents = {"c1", "c2"}
  HandMade = "hand"
  Releases <- MCReleases
  Argvs <- MCArgvs
  MaxEdits = 2
  MaxRuns = 3
  Absent = Absent
INVARIANTS
  UpdateRegenerates
CHECK_DEADLOCK FALSE
