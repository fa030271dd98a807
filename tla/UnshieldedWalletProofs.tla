---------------------- MODULE UnshieldedWalletProofs ----------------------
(***************************************************************************)
(* What UnshieldedWallet guarantees for every set of UTxOs, every set of   *)
(* transactions and every bound.                                           *)
(***************************************************************************)
EXTENDS UnshieldedWallet, TLAPS

(* Appending to the chain changes nothing about its prefixes.              *)
LEMMA PrefixStable ==
  ASSUME NEW c \in Seq(Update), NEW e \in Update, NEW n \in 0..Len(c)
  PROVE  /\ CreatedUpTo(Append(c, e), n) = CreatedUpTo(c, n)
         /\ SpentUpTo(Append(c, e), n) = SpentUpTo(c, n)
         /\ UnspentAt(Append(c, e), n) = UnspentAt(c, n)
<1>1. \A i \in 1..n : Append(c, e)[i] = c[i]
  OBVIOUS
<1>2. CreatedUpTo(Append(c, e), n) = CreatedUpTo(c, n)
  BY <1>1 DEF CreatedUpTo
<1>3. SpentUpTo(Append(c, e), n) = SpentUpTo(c, n)
  BY <1>1 DEF SpentUpTo
<1> QED  BY <1>2, <1>3 DEF UnspentAt

(* One more transaction: what it creates and spends is added.              *)
LEMMA PrefixStep ==
  ASSUME NEW c \in Seq(Update), NEW n \in DOMAIN c
  PROVE  /\ n - 1 \in Nat /\ n \in Nat
         /\ CreatedUpTo(c, n) = CreatedUpTo(c, n - 1) \cup c[n].createdUtxos
         /\ SpentUpTo(c, n) = SpentUpTo(c, n - 1) \cup
              (IF c[n].status # "FAILURE" THEN c[n].spentUtxos ELSE {})
<1>1. n \in Nat /\ n - 1 \in Nat /\ 1..n = (1..(n-1)) \cup {n} /\ n \notin 1..(n-1)
  OBVIOUS
<1>2. CreatedUpTo(c, n) = CreatedUpTo(c, n - 1) \cup c[n].createdUtxos
  BY <1>1 DEF CreatedUpTo
<1>3. CASE c[n].status # "FAILURE"
  <2>1. {j \in 1..n : c[j].status # "FAILURE"}
          = {j \in 1..(n-1) : c[j].status # "FAILURE"} \cup {n}
    BY <1>1, <1>3
  <2> QED  BY <1>1, <1>2, <1>3, <2>1 DEF SpentUpTo
<1>4. CASE c[n].status = "FAILURE"
  <2>1. {j \in 1..n : c[j].status # "FAILURE"} = {j \in 1..(n-1) : c[j].status # "FAILURE"}
    BY <1>1, <1>4
  <2> QED  BY <1>1, <1>2, <1>4, <2>1 DEF SpentUpTo
<1> QED  BY <1>3, <1>4

-----------------------------------------------------------------------------
(* Type correctness                                                        *)

LEMMA TypeInit == Init => TypeOK
BY ConstantsAssumption DEF Init, TypeOK, Snapshot, Update

LEMMA TypeNext == TypeOK /\ [Next]_vars => TypeOK'
<1> SUFFICES ASSUME TypeOK, [Next]_vars PROVE TypeOK'
  OBVIOUS
<1> USE DEF TypeOK, Snapshot
<1>1. ASSUME NEW t \in Txs, NEW G \in SUBSET Utxos, NEW F \in SUBSET Utxos, PrepareOffer(t, G, F)
      PROVE  TypeOK'
  BY <1>1 DEF PrepareOffer, SpendUtxos, faultVars
<1>2. ASSUME NEW t \in Txs, NEW S \in SUBSET availableUtxos, NEW night \in BOOLEAN,
             MakeTransfer(t, S, night)
      PROVE  TypeOK'
  <2>1. S \in SUBSET Utxos  OBVIOUS
  <2> QED  BY <1>1, <1>2, <2>1 DEF MakeTransfer
<1>3. ASSUME NEW t \in Txs, NEW S \in SUBSET availableUtxos,
             InitSwap(t, S) \/ BalanceFinalizedTransaction(t, S)
      PROVE  TypeOK'
  <2>1. S \in SUBSET Utxos  OBVIOUS
  <2> QED  BY <1>1, <1>3, <2>1 DEF InitSwap, BalanceFinalizedTransaction
<1>4. ASSUME NEW t \in Txs, NEW G \in SUBSET Utxos, NEW F \in SUBSET Utxos, RotateUtxos(t, G, F)
      PROVE  TypeOK'
  BY <1>1, <1>4 DEF RotateUtxos
<1>5. ASSUME NEW t \in Txs, NEW G \in SUBSET availableUtxos, NEW F \in SUBSET availableUtxos,
             BalanceUnboundTransaction(t, G, F)
      PROVE  TypeOK'
  BY <1>5 DEF BalanceUnboundTransaction, walletVars, faultVars
<1>6. ASSUME NEW t \in Txs, RevertTransaction(t) PROVE TypeOK'
  BY <1>6 DEF RevertTransaction, RollbackUtxos, OwnInputs, txVars, faultVars
<1>7. ASSUME NEW t \in Txs \cup {NoTx}, NEW S \in SUBSET Utxos, NEW C \in SUBSET Utxos,
             NEW st \in Statuses, Append1(t, S, C, st)
      PROVE  TypeOK'
  <2>1. [tx |-> t, spentUtxos |-> S, createdUtxos |-> C, status |-> st] \in Update
    BY DEF Update
  <2>2. chain' \in Seq(Update)
    BY <1>7, <2>1 DEF Append1
  <2> QED  BY <1>7, <2>2 DEF Append1, walletVars, txVars, faultVars
<1>8. ASSUME NEW t \in Txs, Include(t) PROVE TypeOK'
  <2>1. OwnInputs(t) \in SUBSET Utxos /\ guaranteed[t] \in SUBSET Utxos /\ Fresh \subseteq Utxos
    BY DEF OwnInputs, Fresh
  <2>2. {"SUCCESS", "PARTIAL_SUCCESS", "FAILURE"} = Statuses
    BY DEF Statuses
  <2>3. CASE \E C \in SUBSET Fresh : Append1(t, OwnInputs(t), C, "SUCCESS")
    BY <1>7, <2>1, <2>2, <2>3
  <2>4. CASE \E C \in SUBSET Fresh :
               fallible[t] # {} /\ Append1(t, guaranteed[t], C, "PARTIAL_SUCCESS")
    BY <1>7, <2>1, <2>2, <2>4
  <2>5. CASE Append1(t, IF "failure_lists_inputs" \in Faults THEN OwnInputs(t) ELSE {},
                     {}, "FAILURE")
    BY <1>7, <2>1, <2>2, <2>5
  <2> QED  BY <1>8, <2>3, <2>4, <2>5 DEF Include
<1>9. CASE ForeignTransaction
  <2>1. CASE \E u \in Fresh : Append1(NoTx, {}, {u}, "SUCCESS")
    BY <1>7, <2>1 DEF Fresh, Statuses
  <2>2. Unspent \subseteq Utxos
    <3>1. \A i \in 1..Len(chain) : chain[i] \in Update
      OBVIOUS
    <3>2. \A e \in Update : e.createdUtxos \subseteq Utxos
      BY DEF Update
    <3>3. \A i \in 1..Len(chain) : chain[i].createdUtxos \subseteq Utxos
      BY <3>1, <3>2
    <3> QED  BY <3>3 DEF Unspent, UnspentAt, CreatedUpTo
  <2>3. CASE \E u \in Unspent : Append1(NoTx, {u}, {}, "SUCCESS")
    BY <1>7, <2>2, <2>3 DEF Statuses
  <2> QED  BY <1>9, <2>1, <2>3 DEF ForeignTransaction
<1>10. CASE ApplyTransaction
  <2>1. cursor \in DOMAIN chain /\ chain[cursor] \in Update
    BY <1>10 DEF ApplyTransaction
  <2>2. availableUtxos' \in SUBSET Utxos /\ pendingUtxos' \in SUBSET Utxos
    BY <1>10, <2>1 DEF ApplyTransaction, ApplyUpdate, ApplyFailedUpdate, Update
  <2>3. live' \in SUBSET Txs /\ cursor' \in Nat
    BY <1>10, <2>1 DEF ApplyTransaction
  <2>4. progress' \in [appliedId: Nat, highestTransactionId: Nat, isConnected: BOOLEAN]
    BY <1>10, <2>1 DEF ApplyTransaction
  <2> QED  BY <1>10, <2>2, <2>3, <2>4 DEF ApplyTransaction, txVars, faultVars
<1>11. CASE UpdateProgress
  <2>1. Len(chain) \in Nat
    OBVIOUS
  <2>2. progress' \in [appliedId: Nat, highestTransactionId: Nat, isConnected: BOOLEAN]
    BY <1>11, <2>1 DEF UpdateProgress
  <2> QED  BY <1>11, <2>2 DEF UpdateProgress, txVars, faultVars
<1>12. CASE Disconnect
  BY <1>12 DEF Disconnect, walletVars, txVars
<1>13. CASE StartSync
  BY <1>13 DEF StartSync, OpenCursor, walletVars, txVars, faultVars
<1>14. CASE Serialize
  BY <1>14 DEF Serialize, walletVars, txVars, faultVars
<1>15. CASE CrashAndRestore
  BY <1>15 DEF CrashAndRestore, txVars
<1>16. CASE UNCHANGED vars
  BY <1>16 DEF vars
<1> HIDE DEF TypeOK, Snapshot
<1> QED
  BY <1>2, <1>3, <1>4, <1>5, <1>6, <1>8, <1>9, <1>10, <1>11, <1>12, <1>13, <1>14, <1>15, <1>16
  DEF Next, Transacting, Synchronising

(* The wallet's state is always made of UTxOs of the address, known        *)
(* transactions and natural ids (UnshieldedState, CoreWallet.progress).    *)
THEOREM TypeCorrect == Spec => []TypeOK
BY TypeInit, TypeNext, PTL DEF Spec

-----------------------------------------------------------------------------
(* Total balance                                                           *)

(* On a well-formed chain everything spent was created before.             *)
LEMMA SpentWasCreated ==
  ASSUME NEW c \in Seq(Update), ChainWellFormed(c), NEW n \in 0..Len(c)
  PROVE  SpentUpTo(c, n) \subseteq CreatedUpTo(c, n)
<1> SUFFICES ASSUME NEW i \in 1..n, NEW u \in c[i].spentUtxos
             PROVE  u \in CreatedUpTo(c, n)
  BY DEF SpentUpTo
<1>1. i \in DOMAIN c /\ i - 1 \in Nat
  OBVIOUS
<1>2. u \in CreatedUpTo(c, i - 1)
  BY <1>1 DEF ChainWellFormed, UnspentAt
<1>3. PICK j \in 1..(i-1) : u \in c[j].createdUtxos
  BY <1>2 DEF CreatedUpTo
<1>4. j \in 1..n
  BY <1>1, <1>3
<1> QED  BY <1>3, <1>4 DEF CreatedUpTo

(* What one transaction does to the unspent outputs, and why applying the  *)
(* last applied transaction again changes nothing in their union.          *)
LEMMA UnspentStep ==
  ASSUME NEW c \in Seq(Update), ChainWellFormed(c), NEW n \in DOMAIN c
  PROVE  /\ c[n].status # "FAILURE" =>
              /\ UnspentAt(c, n) = (UnspentAt(c, n - 1) \ c[n].spentUtxos) \cup c[n].createdUtxos
              /\ c[n].createdUtxos \subseteq UnspentAt(c, n)
              /\ c[n].spentUtxos \cap UnspentAt(c, n) = {}
         /\ c[n].status = "FAILURE" =>
              /\ UnspentAt(c, n) = UnspentAt(c, n - 1)
              /\ c[n].spentUtxos \subseteq UnspentAt(c, n)
<1>1. /\ n - 1 \in 0..Len(c)
      /\ c[n].createdUtxos \cap CreatedUpTo(c, n - 1) = {}
      /\ c[n].spentUtxos \subseteq UnspentAt(c, n - 1)
      /\ c[n].status = "FAILURE" => c[n].createdUtxos = {}
  BY DEF ChainWellFormed
<1>2. SpentUpTo(c, n - 1) \subseteq CreatedUpTo(c, n - 1)
  BY <1>1, SpentWasCreated
<1>3. /\ CreatedUpTo(c, n) = CreatedUpTo(c, n - 1) \cup c[n].createdUtxos
      /\ SpentUpTo(c, n) = SpentUpTo(c, n - 1) \cup
              (IF c[n].status # "FAILURE" THEN c[n].spentUtxos ELSE {})
  BY PrefixStep
<1> QED  BY <1>1, <1>2, <1>3 DEF UnspentAt

LEMMA LedgerInit == Init => LedgerInv
<1> SUFFICES ASSUME Init PROVE LedgerInv
  OBVIOUS
<1>1. Len(chain) = 0 /\ DOMAIN chain = {} /\ 0 \in 0..Len(chain)
  BY DEF Init
<1>2. UnspentAt(chain, 0) = {}
  BY DEF UnspentAt, CreatedUpTo, SpentUpTo
<1> QED  BY <1>1, <1>2 DEF Init, LedgerInv, ChainWellFormed, TotalIsLedgerBalance

(* The chain grows by a transaction the ledger accepts.                    *)
LEMMA LedgerAppend ==
  ASSUME TypeOK, LedgerInv, NEW t \in Txs \cup {NoTx}, NEW S \in SUBSET Unspent,
         NEW C \in SUBSET Fresh, NEW st \in Statuses, st = "FAILURE" => C = {},
         Append1(t, S, C, st)
  PROVE  LedgerInv'
<1> DEFINE e == [tx |-> t, spentUtxos |-> S, createdUtxos |-> C, status |-> st]
<1>1. chain \in Seq(Update) /\ Len(chain) \in Nat /\ chain' = Append(chain, e)
  BY DEF TypeOK, Append1
<1>2. Unspent \subseteq Utxos /\ Fresh \subseteq Utxos
  <2>1. \A i \in 1..Len(chain) : chain[i] \in Update
    BY <1>1
  <2>2. \A x \in Update : x.createdUtxos \subseteq Utxos
    BY DEF Update
  <2>3. \A i \in 1..Len(chain) : chain[i].createdUtxos \subseteq Utxos
    BY <2>1, <2>2
  <2> QED  BY <2>3 DEF Unspent, UnspentAt, CreatedUpTo, Fresh
<1>3. e \in Update
  BY <1>2 DEF Update
<1>4. \A n \in 0..Len(chain) : /\ CreatedUpTo(chain', n) = CreatedUpTo(chain, n)
                                /\ UnspentAt(chain', n) = UnspentAt(chain, n)
  BY <1>1, <1>3, PrefixStable
<1>5. /\ chain' \in Seq(Update) /\ Len(chain') = Len(chain) + 1
      /\ chain'[Len(chain) + 1] = e
      /\ \A i \in 1..Len(chain) : chain'[i] = chain[i]
      /\ DOMAIN chain' = 1..(Len(chain) + 1) /\ DOMAIN chain = 1..Len(chain)
  BY <1>1, <1>3
<1>6. ChainWellFormed(chain')
  <2> SUFFICES ASSUME NEW i \in 1..(Len(chain) + 1)
               PROVE  /\ chain'[i].createdUtxos \cap CreatedUpTo(chain', i - 1) = {}
                      /\ chain'[i].spentUtxos \subseteq UnspentAt(chain', i - 1)
                      /\ chain'[i].status = "FAILURE" => chain'[i].createdUtxos = {}
    BY <1>5 DEF ChainWellFormed
  <2>1. i - 1 \in 0..Len(chain)
    BY <1>1
  <2>2. CASE i \in 1..Len(chain)
    BY <1>4, <1>5, <2>1, <2>2 DEF LedgerInv, ChainWellFormed
  <2>3. CASE i = Len(chain) + 1
    <3>1. i - 1 = Len(chain) /\ chain'[i] = e
      BY <1>1, <1>5, <2>3
    <3>2. /\ e.createdUtxos \cap CreatedUpTo(chain, Len(chain)) = {}
          /\ e.spentUtxos \subseteq UnspentAt(chain, Len(chain))
          /\ e.status = "FAILURE" => e.createdUtxos = {}
      BY DEF Fresh, Unspent
    <3> QED  BY <1>4, <2>1, <3>1, <3>2
  <2> QED  BY <1>1, <2>2, <2>3
<1>7. UNCHANGED <<availableUtxos, pendingUtxos, progress, cursor, snapshot>>
  BY DEF Append1, walletVars
<1> QED  BY <1>1, <1>4, <1>5, <1>6, <1>7 DEF LedgerInv, TotalIsLedgerBalance

(* A step that moves coins between available and pending only.             *)
LEMMA LedgerMove ==
  ASSUME TypeOK, LedgerInv, UNCHANGED <<chain, progress, cursor, snapshot>>,
         (availableUtxos \cup pendingUtxos)' = availableUtxos \cup pendingUtxos
  PROVE  LedgerInv'
BY DEF LedgerInv, TotalIsLedgerBalance

(* The sync applies the next transaction, or the boundary one again.       *)
LEMMA LedgerApply ==
  ASSUME TypeOK, LedgerInv, ApplyTransaction
  PROVE  LedgerInv'
<1> DEFINE e == chain[cursor]
<1>1. /\ chain \in Seq(Update) /\ cursor \in DOMAIN chain /\ cursor \in 1..Len(chain)
      /\ cursor \in Nat /\ chain' = chain /\ snapshot' = snapshot /\ cursor' = cursor + 1
      /\ progress'.appliedId = cursor
  BY DEF TypeOK, ApplyTransaction, txVars
<1>2. progress.appliedId = cursor - 1 \/ progress.appliedId = cursor
  BY <1>1 DEF LedgerInv, TypeOK
<1>3. /\ availableUtxos \cup pendingUtxos = UnspentAt(chain, progress.appliedId)
      /\ ChainWellFormed(chain)
  BY DEF LedgerInv, TotalIsLedgerBalance
<1>4. (availableUtxos \cup pendingUtxos)' = UnspentAt(chain, cursor)
  <2>1. CASE e.status = "FAILURE"
    <3>1. /\ availableUtxos' = availableUtxos \cup e.spentUtxos
          /\ pendingUtxos' = pendingUtxos \ e.spentUtxos
      BY <2>1 DEF ApplyTransaction, ApplyFailedUpdate
    <3>2. /\ UnspentAt(chain, cursor) = UnspentAt(chain, cursor - 1)
          /\ e.spentUtxos \subseteq UnspentAt(chain, cursor)
      BY <1>1, <1>3, <2>1, UnspentStep
    <3> QED  BY <1>2, <1>3, <3>1, <3>2
  <2>2. CASE e.status # "FAILURE"
    <3>1. /\ availableUtxos' = (availableUtxos \ e.spentUtxos) \cup e.createdUtxos
          /\ pendingUtxos' = pendingUtxos \ e.spentUtxos
      BY <2>2 DEF ApplyTransaction, ApplyUpdate
    <3>2. /\ UnspentAt(chain, cursor)
               = (UnspentAt(chain, cursor - 1) \ e.spentUtxos) \cup e.createdUtxos
          /\ e.createdUtxos \subseteq UnspentAt(chain, cursor)
          /\ e.spentUtxos \cap UnspentAt(chain, cursor) = {}
      BY <1>1, <1>3, <2>2, UnspentStep
    <3>3. CASE progress.appliedId = cursor - 1
      BY <1>3, <3>1, <3>2, <3>3
    <3>4. CASE progress.appliedId = cursor
      BY <1>3, <3>1, <3>2, <3>4
    <3> QED  BY <1>2, <3>3, <3>4
  <2> QED  BY <2>1, <2>2
<1>5. progress'.appliedId \in 0..Len(chain') /\ cursor' = progress'.appliedId + 1
  BY <1>1
<1>6. ChainWellFormed(chain')
  BY <1>1, <1>3
<1>7. /\ snapshot'.appliedId \in 0..Len(chain')
      /\ snapshot'.availableUtxos \cup snapshot'.pendingUtxos
           = UnspentAt(chain', snapshot'.appliedId)
  BY <1>1 DEF LedgerInv
<1>8. (availableUtxos \cup pendingUtxos)' = UnspentAt(chain', progress'.appliedId)
  BY <1>1, <1>4
<1> QED  BY <1>5, <1>6, <1>7, <1>8 DEF LedgerInv, TotalIsLedgerBalance

LEMMA LedgerNext == TypeOK /\ LedgerInv /\ [Next]_vars => LedgerInv'
<1> SUFFICES ASSUME TypeOK, LedgerInv, [Next]_vars PROVE LedgerInv'
  OBVIOUS
<1>1. ASSUME NEW t \in Txs, NEW G, NEW F, PrepareOffer(t, G, F) PROVE LedgerInv'
  BY <1>1, LedgerMove DEF PrepareOffer, SpendUtxos
<1>2. ASSUME NEW t \in Txs, Transacting(t) PROVE LedgerInv'
  <2>1. ASSUME NEW S, NEW night, MakeTransfer(t, S, night) PROVE LedgerInv'
    BY <1>1, <2>1 DEF MakeTransfer
  <2>2. ASSUME NEW S, InitSwap(t, S) \/ BalanceFinalizedTransaction(t, S) PROVE LedgerInv'
    BY <1>1, <2>2 DEF InitSwap, BalanceFinalizedTransaction
  <2>3. ASSUME NEW G, NEW F, RotateUtxos(t, G, F) PROVE LedgerInv'
    BY <1>1, <2>3 DEF RotateUtxos
  <2>4. ASSUME NEW G, NEW F, BalanceUnboundTransaction(t, G, F) PROVE LedgerInv'
    BY <2>4, LedgerMove DEF BalanceUnboundTransaction, walletVars
  <2>5. CASE RevertTransaction(t)
    BY <2>5, LedgerMove DEF RevertTransaction, RollbackUtxos
  <2> QED  BY <1>2, <2>1, <2>2, <2>3, <2>4, <2>5 DEF Transacting
<1>3. ASSUME NEW t \in Txs, Include(t) PROVE LedgerInv'
  <2>1. OwnInputs(t) \in SUBSET Unspent /\ guaranteed[t] \in SUBSET Unspent
    BY <1>3 DEF Include, OwnInputs
  <2>2. CASE \E C \in SUBSET Fresh : Append1(t, OwnInputs(t), C, "SUCCESS")
    BY <2>1, <2>2, LedgerAppend DEF Statuses
  <2>3. CASE \E C \in SUBSET Fresh :
               fallible[t] # {} /\ Append1(t, guaranteed[t], C, "PARTIAL_SUCCESS")
    BY <2>1, <2>3, LedgerAppend DEF Statuses
  <2>4. CASE Append1(t, IF "failure_lists_inputs" \in Faults THEN OwnInputs(t) ELSE {},
                     {}, "FAILURE")
    BY <2>1, <2>4, LedgerAppend DEF Statuses
  <2> QED  BY <1>3, <2>2, <2>3, <2>4 DEF Include
<1>4. CASE ForeignTransaction
  <2>1. CASE \E u \in Fresh : Append1(NoTx, {}, {u}, "SUCCESS")
    BY <2>1, LedgerAppend DEF Statuses
  <2>2. CASE \E u \in Unspent : Append1(NoTx, {u}, {}, "SUCCESS")
    BY <2>2, LedgerAppend DEF Statuses
  <2> QED  BY <1>4, <2>1, <2>2 DEF ForeignTransaction
<1>5. CASE ApplyTransaction
  BY <1>5, LedgerApply
<1>6. CASE UpdateProgress
  <2>1. progress'.appliedId = progress.appliedId
    BY <1>6 DEF UpdateProgress, TypeOK
  <2> QED  BY <1>6, <2>1 DEF UpdateProgress, LedgerInv, TotalIsLedgerBalance
<1>7. CASE Disconnect
  BY <1>7 DEF Disconnect, LedgerInv, TotalIsLedgerBalance, walletVars
<1>8. CASE StartSync
  <2>1. \/ cursor' = progress.appliedId + 1
        \/ "inclusive_cursor" \in Faults /\ cursor' = progress.appliedId
    BY <1>8 DEF StartSync, OpenCursor
  <2> QED  BY <1>8, <2>1 DEF StartSync, LedgerInv, TotalIsLedgerBalance, walletVars
<1>9. CASE Serialize
  BY <1>9 DEF Serialize, LedgerInv, TotalIsLedgerBalance, walletVars
<1>10. CASE CrashAndRestore
  BY <1>10 DEF CrashAndRestore, LedgerInv, TotalIsLedgerBalance
<1>11. CASE UNCHANGED vars
  BY <1>11 DEF vars, LedgerInv, TotalIsLedgerBalance
<1> QED
  BY <1>2, <1>3, <1>4, <1>5, <1>6, <1>7, <1>8, <1>9, <1>10, <1>11
  DEF Next, Synchronising

(* Whatever the indexer replays, the user reverts, and the process loses   *)
(* in a crash, available plus pending UTxOs (UnshieldedState) are exactly  *)
(* the address's unspent outputs at CoreWallet.progress.appliedId.         *)
THEOREM TotalBalance == Spec => []TotalIsLedgerBalance
<1>1. LedgerInv => TotalIsLedgerBalance
  BY DEF LedgerInv
<1> QED  BY <1>1, LedgerInit, LedgerNext, TypeCorrect, PTL DEF Spec

-----------------------------------------------------------------------------
(* Booking                                                                 *)

(* The coins the wallet knows are outputs of the applied prefix.           *)
LEMMA KnownWasCreated ==
  ASSUME LedgerInv
  PROVE  availableUtxos \cup pendingUtxos \subseteq CreatedUpTo(chain, progress.appliedId)
BY DEF LedgerInv, TotalIsLedgerBalance, UnspentAt

(* With an exclusive cursor the sync applies the next transaction, whose   *)
(* outputs are new to the wallet.                                          *)
LEMMA ApplyNext ==
  ASSUME TypeOK, LedgerInv, ApplyTransaction, "inclusive_cursor" \notin Faults
  PROVE  /\ cursor \in DOMAIN chain /\ cursor - 1 = progress.appliedId
         /\ chain[cursor].createdUtxos \cap CreatedUpTo(chain, progress.appliedId) = {}
         /\ CreatedUpTo(chain, progress.appliedId) \subseteq CreatedUpTo(chain, cursor)
<1>1. chain \in Seq(Update) /\ cursor \in DOMAIN chain /\ cursor \in Nat /\ cursor # 0
  BY DEF TypeOK, ApplyTransaction
<1>2. cursor - 1 = progress.appliedId
  BY <1>1 DEF LedgerInv, TypeOK
<1>3. chain[cursor].createdUtxos \cap CreatedUpTo(chain, cursor - 1) = {}
  BY <1>1 DEF LedgerInv, ChainWellFormed
<1>4. CreatedUpTo(chain, cursor) = CreatedUpTo(chain, cursor - 1) \cup chain[cursor].createdUtxos
  BY <1>1, PrefixStep
<1> QED  BY <1>1, <1>2, <1>3, <1>4

LEMMA DisjointNext ==
  ASSUME "inclusive_cursor" \notin Faults
  PROVE  TypeOK /\ LedgerInv /\ DisjointInv /\ [Next]_vars => DisjointInv'
<1> SUFFICES ASSUME TypeOK, LedgerInv, DisjointInv, [Next]_vars PROVE DisjointInv'
  OBVIOUS
<1> USE DEF DisjointInv, AvailableNotPending
<1>1. ASSUME NEW t \in Txs, NEW G, NEW F, PrepareOffer(t, G, F) PROVE DisjointInv'
  BY <1>1 DEF PrepareOffer, SpendUtxos
<1>2. ASSUME NEW t \in Txs, Transacting(t) PROVE DisjointInv'
  <2>1. ASSUME NEW S, NEW night, MakeTransfer(t, S, night) PROVE DisjointInv'
    BY <1>1, <2>1 DEF MakeTransfer
  <2>2. ASSUME NEW S, InitSwap(t, S) \/ BalanceFinalizedTransaction(t, S) PROVE DisjointInv'
    BY <1>1, <2>2 DEF InitSwap, BalanceFinalizedTransaction
  <2>3. ASSUME NEW G, NEW F, RotateUtxos(t, G, F) PROVE DisjointInv'
    BY <1>1, <2>3 DEF RotateUtxos
  <2>4. ASSUME NEW G, NEW F, BalanceUnboundTransaction(t, G, F) PROVE DisjointInv'
    BY <2>4 DEF BalanceUnboundTransaction, walletVars
  <2>5. CASE RevertTransaction(t)
    BY <2>5 DEF RevertTransaction, RollbackUtxos
  <2> QED  BY <1>2, <2>1, <2>2, <2>3, <2>4, <2>5 DEF Transacting
<1>3. ASSUME NEW t, NEW S, NEW C, NEW st, Append1(t, S, C, st) PROVE DisjointInv'
  BY <1>3 DEF Append1, walletVars
<1>4. ASSUME NEW t \in Txs, Include(t) PROVE DisjointInv'
  BY <1>3, <1>4 DEF Include
<1>5. CASE ForeignTransaction
  BY <1>3, <1>5 DEF ForeignTransaction
<1>6. CASE ApplyTransaction
  <2> DEFINE e == chain[cursor]
  <2>1. e.createdUtxos \cap (availableUtxos \cup pendingUtxos) = {}
    BY <1>6, ApplyNext, KnownWasCreated
  <2>2. snapshot' = snapshot
    BY <1>6 DEF ApplyTransaction
  <2>3. CASE e.status = "FAILURE"
    BY <1>6, <2>2, <2>3 DEF ApplyTransaction, ApplyFailedUpdate
  <2>4. CASE e.status # "FAILURE"
    BY <1>6, <2>1, <2>2, <2>4 DEF ApplyTransaction, ApplyUpdate
  <2> QED  BY <2>3, <2>4
<1>7. CASE UpdateProgress
  BY <1>7 DEF UpdateProgress
<1>8. CASE Disconnect
  BY <1>8 DEF Disconnect, walletVars
<1>9. CASE StartSync
  BY <1>9 DEF StartSync, walletVars
<1>10. CASE Serialize
  BY <1>10 DEF Serialize, walletVars
<1>11. CASE CrashAndRestore
  BY <1>11 DEF CrashAndRestore
<1>12. CASE UNCHANGED vars
  BY <1>12 DEF vars
<1> HIDE DEF DisjointInv
<1> QED
  BY <1>2, <1>4, <1>5, <1>6, <1>7, <1>8, <1>9, <1>10, <1>11, <1>12 DEF Next, Synchronising

(* When the indexer starts after the given transaction id, no UTxO is ever *)
(* selectable and booked at once, over reverts, failures and restores      *)
(* (UnshieldedState.availableUtxos, pendingUtxos).                         *)
THEOREM AvailableNeverPending ==
  ASSUME "inclusive_cursor" \notin Faults
  PROVE  Spec => []AvailableNotPending
<1>1. Init => DisjointInv
  BY DEF Init, DisjointInv, AvailableNotPending
<1>2. DisjointInv => AvailableNotPending
  BY DEF DisjointInv
<1> QED  BY <1>1, <1>2, DisjointNext, LedgerInit, LedgerNext, TypeCorrect, PTL DEF Spec

-----------------------------------------------------------------------------
(* No double booking                                                       *)

(* Booking reserves the inputs of a new transaction.                       *)
LEMMA ReservePrepare ==
  ASSUME TypeOK, LedgerInv, BookingInv, NEW t \in Txs, NEW G, NEW F, PrepareOffer(t, G, F)
  PROVE  BookingInv'
<1>1. /\ OwnInputs(t)' = G \cup F /\ OwnInputs(t) = {} /\ G \cup F # {}
      /\ \A s \in Txs \ {t} : OwnInputs(s)' = OwnInputs(s)
  BY DEF PrepareOffer, OwnInputs, Issued, TypeOK
<1>2. G \cup F \subseteq availableUtxos /\ availableUtxos' = availableUtxos \ (G \cup F)
  BY DEF PrepareOffer, SpendUtxos
<1>3. G \cup F \subseteq CreatedUpTo(chain, progress.appliedId)
  BY <1>2, KnownWasCreated
<1>4. /\ live' = live \cup {t} /\ chain' = chain /\ progress' = progress
      /\ snapshot' = snapshot /\ live \subseteq Txs /\ snapshot.live \subseteq Txs
  BY DEF PrepareOffer, TypeOK, Snapshot
<1>5. t \notin live /\ t \notin snapshot.live
  BY <1>1 DEF BookingInv, Reserved
<1>6. Reserved(snapshot.live, snapshot.availableUtxos, snapshot.appliedId)'
  <2>1. \A s \in snapshot.live : OwnInputs(s)' = OwnInputs(s)
    BY <1>1, <1>4, <1>5
  <2> QED  BY <1>4, <2>1 DEF BookingInv, Reserved
<1>7. Reserved(live, availableUtxos, progress.appliedId)'
  <2> SUFFICES ASSUME NEW r \in live \cup {t}
               PROVE  /\ OwnInputs(r)' # {}
                      /\ OwnInputs(r)' \subseteq CreatedUpTo(chain, progress.appliedId)
                      /\ OwnInputs(r)' \cap availableUtxos' = {}
                      /\ \A s \in (live \cup {t}) \ {r} : OwnInputs(s)' \cap OwnInputs(r)' = {}
    BY <1>4 DEF Reserved
  <2>1. \A s \in live : /\ OwnInputs(s)' = OwnInputs(s)
                        /\ OwnInputs(s) # {}
                        /\ OwnInputs(s) \subseteq CreatedUpTo(chain, progress.appliedId)
                        /\ OwnInputs(s) \cap availableUtxos = {}
    BY <1>1, <1>4, <1>5 DEF BookingInv, Reserved
  <2>2. \A s \in live : \A q \in live \ {s} : OwnInputs(q) \cap OwnInputs(s) = {}
    BY DEF BookingInv, Reserved
  <2>3. CASE r = t
    BY <1>1, <1>2, <1>3, <1>5, <2>1, <2>3
  <2>4. CASE r \in live
    BY <1>1, <1>2, <1>5, <2>1, <2>2, <2>4
  <2> QED  BY <2>3, <2>4
<1> QED  BY <1>4, <1>6, <1>7 DEF BookingInv

(* A step that hands out nothing keeps the reservations of the             *)
(* transactions that stay live, when it makes none of their inputs         *)
(* selectable and forgets no applied output.                               *)
LEMMA ReserveKeep ==
  ASSUME BookingInv, UNCHANGED <<guaranteed, fallible, chain, snapshot>>, live' \subseteq live,
         CreatedUpTo(chain, progress.appliedId) \subseteq CreatedUpTo(chain, progress'.appliedId),
         \A t \in live' : OwnInputs(t) \cap availableUtxos' = {}
  PROVE  BookingInv'
<1>1. \A t : OwnInputs(t)' = OwnInputs(t)
  BY DEF OwnInputs
<1>2. Reserved(live, availableUtxos, progress.appliedId)'
  BY <1>1 DEF BookingInv, Reserved
<1>3. Reserved(snapshot.live, snapshot.availableUtxos, snapshot.appliedId)'
  BY <1>1 DEF BookingInv, Reserved
<1> QED  BY <1>2, <1>3 DEF BookingInv

LEMMA ReserveAppend ==
  ASSUME TypeOK, LedgerInv, BookingInv, NEW t \in Txs \cup {NoTx}, NEW S \in SUBSET Utxos,
         NEW C \in SUBSET Utxos, NEW st \in Statuses, st = "FAILURE" => S = {},
         Append1(t, S, C, st)
  PROVE  BookingInv'
<1> DEFINE e == [tx |-> t, spentUtxos |-> S, createdUtxos |-> C, status |-> st]
<1>1. chain \in Seq(Update) /\ chain' = Append(chain, e) /\ e \in Update
  BY DEF TypeOK, Append1, Update
<1>2. \A i \in DOMAIN chain' : chain'[i].status = "FAILURE" => chain'[i].spentUtxos = {}
  <2> SUFFICES ASSUME NEW i \in DOMAIN chain', chain'[i].status = "FAILURE"
               PROVE  chain'[i].spentUtxos = {}
    OBVIOUS
  <2>1. CASE i \in DOMAIN chain
    BY <1>1, <2>1 DEF BookingInv
  <2>2. CASE i = Len(chain) + 1
    BY <1>1, <2>2
  <2> QED  BY <1>1, <2>1, <2>2
<1>3. /\ progress.appliedId \in 0..Len(chain) /\ snapshot.appliedId \in 0..Len(chain)
  BY DEF LedgerInv
<1>4. /\ CreatedUpTo(chain', progress.appliedId) = CreatedUpTo(chain, progress.appliedId)
      /\ CreatedUpTo(chain', snapshot.appliedId) = CreatedUpTo(chain, snapshot.appliedId)
  BY <1>1, <1>3, PrefixStable
<1>5. /\ UNCHANGED <<availableUtxos, progress, guaranteed, fallible, live, snapshot>>
      /\ \A s : OwnInputs(s)' = OwnInputs(s)
  BY DEF Append1, walletVars, txVars, OwnInputs
<1>6. Reserved(live, availableUtxos, progress.appliedId)'
  BY <1>4, <1>5 DEF BookingInv, Reserved
<1>7. Reserved(snapshot.live, snapshot.availableUtxos, snapshot.appliedId)'
  BY <1>4, <1>5 DEF BookingInv, Reserved
<1> QED  BY <1>2, <1>6, <1>7 DEF BookingInv

LEMMA ReserveApply ==
  ASSUME Faults = {}, TypeOK, LedgerInv, BookingInv, ApplyTransaction
  PROVE  BookingInv'
<1> DEFINE e == chain[cursor]
<1>1. /\ cursor \in DOMAIN chain
      /\ e.createdUtxos \cap CreatedUpTo(chain, progress.appliedId) = {}
      /\ CreatedUpTo(chain, progress.appliedId) \subseteq CreatedUpTo(chain, cursor)
  BY ApplyNext
<1>2. /\ progress'.appliedId = cursor /\ live' \subseteq live
      /\ UNCHANGED <<guaranteed, fallible, chain, snapshot>>
  BY DEF ApplyTransaction, txVars, TypeOK
<1>3. availableUtxos' \subseteq availableUtxos \cup e.createdUtxos
  <2>1. CASE e.status = "FAILURE"
    <3>1. e.spentUtxos = {}
      BY <1>1, <2>1 DEF BookingInv
    <3> QED  BY <2>1, <3>1 DEF ApplyTransaction, ApplyFailedUpdate
  <2>2. CASE e.status # "FAILURE"
    BY <2>2 DEF ApplyTransaction, ApplyUpdate
  <2> QED  BY <2>1, <2>2
<1>4. \A t \in live' : OwnInputs(t) \cap availableUtxos' = {}
  BY <1>1, <1>2, <1>3 DEF BookingInv, Reserved
<1> QED  BY <1>1, <1>2, <1>4, ReserveKeep

LEMMA BookingNext ==
  ASSUME Faults = {}
  PROVE  TypeOK /\ LedgerInv /\ BookingInv /\ [Next]_vars => BookingInv'
<1> SUFFICES ASSUME TypeOK, LedgerInv, BookingInv, [Next]_vars PROVE BookingInv'
  OBVIOUS
<1>1. ASSUME NEW t \in Txs, Transacting(t) PROVE BookingInv'
  <2>1. ASSUME NEW S, NEW night, MakeTransfer(t, S, night) PROVE BookingInv'
    BY <2>1, ReservePrepare DEF MakeTransfer
  <2>2. ASSUME NEW S, InitSwap(t, S) \/ BalanceFinalizedTransaction(t, S) PROVE BookingInv'
    BY <2>2, ReservePrepare DEF InitSwap, BalanceFinalizedTransaction
  <2>3. ASSUME NEW G, NEW F, RotateUtxos(t, G, F) PROVE BookingInv'
    BY <2>3, ReservePrepare DEF RotateUtxos
  <2>4. ASSUME NEW G, NEW F, BalanceUnboundTransaction(t, G, F) PROVE BookingInv'
    BY <2>4 DEF BalanceUnboundTransaction
  <2>5. CASE RevertTransaction(t)
    <3>1. /\ t \in live /\ live' = live \ {t} /\ progress' = progress
          /\ UNCHANGED <<guaranteed, fallible, chain, snapshot>>
      BY <2>5 DEF RevertTransaction, txVars
    <3>2. availableUtxos' \subseteq availableUtxos \cup OwnInputs(t)
      BY <2>5 DEF RevertTransaction, RollbackUtxos
    <3>3. \A s \in live' : OwnInputs(s) \cap availableUtxos' = {}
      BY <3>1, <3>2 DEF BookingInv, Reserved
    <3> QED  BY <3>1, <3>3, ReserveKeep
  <2> QED  BY <1>1, <2>1, <2>2, <2>3, <2>4, <2>5 DEF Transacting
<1>2. Unspent \subseteq Utxos /\ Fresh \subseteq Utxos
  <2>1. \A i \in 1..Len(chain) : chain[i] \in Update
    BY DEF TypeOK
  <2>2. \A x \in Update : x.createdUtxos \subseteq Utxos
    BY DEF Update
  <2>3. \A i \in 1..Len(chain) : chain[i].createdUtxos \subseteq Utxos
    BY <2>1, <2>2
  <2> QED  BY <2>3 DEF Unspent, UnspentAt, CreatedUpTo, Fresh
<1>3. ASSUME NEW t \in Txs, Include(t) PROVE BookingInv'
  <2>1. OwnInputs(t) \in SUBSET Utxos /\ guaranteed[t] \in SUBSET Utxos
    BY DEF OwnInputs, TypeOK
  <2>2. CASE \E C \in SUBSET Fresh : Append1(t, OwnInputs(t), C, "SUCCESS")
    BY <1>2, <2>1, <2>2, ReserveAppend DEF Statuses
  <2>3. CASE \E C \in SUBSET Fresh :
               fallible[t] # {} /\ Append1(t, guaranteed[t], C, "PARTIAL_SUCCESS")
    BY <1>2, <2>1, <2>3, ReserveAppend DEF Statuses
  <2>4. CASE Append1(t, IF "failure_lists_inputs" \in Faults THEN OwnInputs(t) ELSE {},
                     {}, "FAILURE")
    BY <2>1, <2>4, ReserveAppend DEF Statuses
  <2> QED  BY <1>3, <2>2, <2>3, <2>4 DEF Include
<1>4. CASE ForeignTransaction
  <2>1. CASE \E u \in Fresh : Append1(NoTx, {}, {u}, "SUCCESS")
    BY <1>2, <2>1, ReserveAppend DEF Statuses
  <2>2. CASE \E u \in Unspent : Append1(NoTx, {u}, {}, "SUCCESS")
    BY <1>2, <2>2, ReserveAppend DEF Statuses
  <2> QED  BY <1>4, <2>1, <2>2 DEF ForeignTransaction
<1>5. CASE ApplyTransaction
  BY <1>5, ReserveApply
<1>6. CASE UNCHANGED <<availableUtxos, chain, guaranteed, fallible, live, snapshot>>
           /\ progress'.appliedId = progress.appliedId
  BY <1>6, ReserveKeep DEF BookingInv, Reserved
<1>7. CASE UpdateProgress
  BY <1>6, <1>7 DEF UpdateProgress, txVars, TypeOK
<1>8. CASE Disconnect
  BY <1>6, <1>8 DEF Disconnect, walletVars, txVars
<1>9. CASE StartSync
  BY <1>6, <1>9 DEF StartSync, walletVars, txVars
<1>10. CASE Serialize
  BY <1>10 DEF Serialize, walletVars, txVars, BookingInv, Reserved, OwnInputs
<1>11. CASE CrashAndRestore
  BY <1>11 DEF CrashAndRestore, txVars, BookingInv, Reserved, OwnInputs
<1>12. CASE UNCHANGED vars
  BY <1>6, <1>12 DEF vars
<1> QED
  BY <1>1, <1>3, <1>4, <1>5, <1>7, <1>8, <1>9, <1>10, <1>11, <1>12 DEF Next, Synchronising

(* Without the four admitted faults no two transactions the wallet stands  *)
(* by share an input, and none of their inputs can be selected again, over *)
(* any interleaving of transacting, reverts, sync, failures and restores   *)
(* (CoreWallet.spendUtxos, rollbackUtxo, applyUpdate).                     *)
THEOREM NoDoubleBooking ==
  ASSUME Faults = {}
  PROVE  Spec => []LiveInputsReserved
<1>1. Init => BookingInv
  BY DEF Init, BookingInv, Reserved
<1>2. BookingInv => LiveInputsReserved
  BY DEF BookingInv, Reserved, LiveInputsReserved
<1> QED  BY <1>1, <1>2, BookingNext, LedgerInit, LedgerNext, TypeCorrect, PTL DEF Spec
=============================================================================
