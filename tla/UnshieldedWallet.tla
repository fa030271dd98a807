------------------------- MODULE UnshieldedWallet -------------------------
(***************************************************************************)
(* Coin booking in the unshielded wallet: UnshieldedState (available and   *)
(* pending UTxOs), the transacting capability that books them, the revert  *)
(* that un-books them, the synchronisation loop that applies the indexer's *)
(* transactions, and save / crash / restore through the serialised state.  *)
(*                                                                         *)
(* Every write of the wallet goes through SubscriptionRef.modifyEffect or  *)
(* updateEffect (RunningV1Variant), which hold a semaphore: each is one    *)
(* atomic action here.  The ledger and the indexer are external: `chain`   *)
(* is the sequence of transactions touching this address, in id order.     *)
(***************************************************************************)
EXTENDS Naturals, Sequences, FiniteSets

CONSTANTS
  Utxos,           \* UTxOs that can ever belong to this wallet's address
  Txs,             \* transactions this wallet can hand out
  NoTx,            \* tag of a chain entry this wallet did not build
  Faults,          \* which of AllFaults this instance admits
  MaxChain,        \* bound: length of the chain
  MaxDisconnects,  \* bound: failures of the subscription
  MaxRestarts      \* bound: crashes followed by a restore

(***************************************************************************)
(* inclusive_cursor     the indexer re-delivers the transaction whose id   *)
(*                      is passed as `transactionId`                       *)
(* unbooked_balancing   balanceUnboundTransaction/balanceUnprovenTransaction *)
(*                      are used                                           *)
(* stale_revert         revertTransaction is called again for a            *)
(*                      transaction that was already reverted or settled   *)
(* failure_lists_inputs a FAILURE transaction arrives with its inputs as   *)
(*                      spentUtxos (otherwise with none)                   *)
(***************************************************************************)
AllFaults == {"inclusive_cursor", "unbooked_balancing", "stale_revert", "failure_lists_inputs"}

ASSUME ConstantsAssumption ==
  /\ NoTx \notin Txs
  /\ Faults \subseteq AllFaults
  /\ MaxChain \in Nat /\ MaxDisconnects \in Nat /\ MaxRestarts \in Nat

VARIABLES
  chain,           \* what the indexer serves for the address
  availableUtxos,  \* UnshieldedState.availableUtxos, by hash
  pendingUtxos,    \* UnshieldedState.pendingUtxos, by hash
  progress,        \* CoreWallet.progress
  guaranteed,      \* per transaction: own inputs of its guaranteed offers
  fallible,        \* per transaction: own inputs of its fallible offers
  live,            \* history: handed out, neither reverted nor fully settled
  cursor,          \* id the open subscription delivers next, 0 when it is down
  snapshot,        \* last serializeState, with the `live` of that moment
  disconnects, restarts

walletVars == <<availableUtxos, pendingUtxos, progress>>
txVars     == <<guaranteed, fallible>>
faultVars  == <<disconnects, restarts>>
vars == <<chain, availableUtxos, pendingUtxos, progress, guaranteed, fallible,
          live, cursor, snapshot, disconnects, restarts>>

Statuses == {"SUCCESS", "PARTIAL_SUCCESS", "FAILURE"}

Update == [tx: Txs \cup {NoTx}, spentUtxos: SUBSET Utxos, createdUtxos: SUBSET Utxos,
           status: Statuses]

-----------------------------------------------------------------------------
(* The ledger, as far as the address is concerned (external).              *)

CreatedUpTo(c, n) == UNION {c[i].createdUtxos : i \in 1..n}

SpentUpTo(c, n) == UNION {c[i].spentUtxos : i \in {j \in 1..n : c[j].status # "FAILURE"}}

\* The unspent outputs of the address after the first n transactions of c.
UnspentAt(c, n) == CreatedUpTo(c, n) \ SpentUpTo(c, n)

Unspent == UnspentAt(chain, Len(chain))

Fresh == Utxos \ CreatedUpTo(chain, Len(chain))

-----------------------------------------------------------------------------
(* UnshieldedState and CoreWallet                                          *)

\* extractOwnInputs: own inputs over all segments, both sections.
OwnInputs(t) == guaranteed[t] \cup fallible[t]

Issued == {t \in Txs : OwnInputs(t) # {}}

\* Mutant: one coin of the selection is left out of the booking.
SpendUtxosOff(S) ==
  /\ S \subseteq availableUtxos
  /\ availableUtxos' = availableUtxos \ (S \ {CHOOSE u \in S : TRUE})
  /\ pendingUtxos' = pendingUtxos \cup S

\* spendUtxos folds spendByUtxo over the inputs: one missing UTxO fails all.
SpendUtxos(S) ==
  /\ S \subseteq availableUtxos
  /\ availableUtxos' = availableUtxos \ S
  /\ pendingUtxos' = pendingUtxos \cup S

\* Mutant: the check that the UTxO is still pending is dropped.
RollbackUtxosOff(S) ==
  /\ availableUtxos' = availableUtxos \cup S
  /\ pendingUtxos' = pendingUtxos \ S

\* rollbackSpendByUtxo over every input: UTxOs that are not pending any more
\* (a sync update won the race) are skipped.
RollbackUtxos(S) ==
  /\ availableUtxos' = availableUtxos \cup (S \cap pendingUtxos)
  /\ pendingUtxos' = pendingUtxos \ S

ApplyUpdate(e) ==
  /\ availableUtxos' = (availableUtxos \ e.spentUtxos) \cup e.createdUtxos
  /\ pendingUtxos' = pendingUtxos \ e.spentUtxos

ApplyFailedUpdate(e) ==
  /\ availableUtxos' = availableUtxos \cup e.spentUtxos
  /\ pendingUtxos' = pendingUtxos \ e.spentUtxos

-----------------------------------------------------------------------------
(* Transacting: the operations that hand out a transaction.                *)

\* Mutant: the state with the booked inputs is dropped.
PrepareOfferOff(t, G, F) ==
  /\ t \notin Issued
  /\ G \cup F # {}
  /\ G \cup F \subseteq availableUtxos
  /\ guaranteed' = [guaranteed EXCEPT ![t] = G]
  /\ fallible' = [fallible EXCEPT ![t] = F]
  /\ live' = live \cup {t}
  /\ UNCHANGED <<chain, walletVars, cursor, snapshot, faultVars>>

\* #prepareOffer: book the inputs and put them in the offers of the result.
PrepareOffer(t, G, F) ==
  /\ t \notin Issued
  /\ G \cup F # {}
  /\ SpendUtxos(G \cup F)
  /\ guaranteed' = [guaranteed EXCEPT ![t] = G]
  /\ fallible' = [fallible EXCEPT ![t] = F]
  /\ live' = live \cup {t}
  /\ UNCHANGED <<chain, progress, cursor, snapshot, faultVars>>

\* A transfer goes to the fallible section when it has a NIGHT output, and to
\* the guaranteed section otherwise.
MakeTransfer(t, S, hasNightOutput) ==
  IF hasNightOutput THEN PrepareOffer(t, {}, S) ELSE PrepareOffer(t, S, {})

\* A swap puts the inputs it gives away in the guaranteed section.
InitSwap(t, S) == PrepareOffer(t, S, {})

\* A bound transaction can only be balanced in its guaranteed section, by a
\* balancing transaction of its own; with no imbalance nothing is booked.
BalanceFinalizedTransaction(t, S) == PrepareOffer(t, S, {})

\* The caller chooses the UTxOs of both sections; spendUtxos refuses the call
\* when one of them is not available.
RotateUtxos(t, G, F) == G \cap F = {} /\ PrepareOffer(t, G, F)

\* #balanceUnboundishTransaction selects from `wallet` for every segment and
\* returns that same `wallet`: the state #prepareOffer computed is dropped.
BalanceUnboundTransaction(t, G, F) ==
  /\ "unbooked_balancing" \in Faults
  /\ t \notin Issued
  /\ G \cup F # {}
  /\ G \cup F \subseteq availableUtxos
  /\ guaranteed' = [guaranteed EXCEPT ![t] = G]
  /\ fallible' = [fallible EXCEPT ![t] = F]
  /\ live' = live \cup {t}
  /\ UNCHANGED <<chain, walletVars, cursor, snapshot, faultVars>>

RevertTransaction(t) ==
  /\ t \in Issued
  /\ t \in live \/ "stale_revert" \in Faults
  /\ RollbackUtxos(OwnInputs(t))
  /\ live' = live \ {t}
  /\ UNCHANGED <<chain, progress, txVars, cursor, snapshot, faultVars>>

-----------------------------------------------------------------------------
(* Transactions reaching the chain (external).                             *)

Append1(t, S, C, status) ==
  /\ Len(chain) < MaxChain
  /\ chain' = Append(chain, [tx |-> t, spentUtxos |-> S, createdUtxos |-> C, status |-> status])
  /\ UNCHANGED <<walletVars, txVars, live, cursor, snapshot, faultVars>>

\* A handed-out transaction is included at most once, whether or not the
\* wallet reverted it meanwhile: the ledger only asks that its inputs be
\* unspent.  PARTIAL_SUCCESS applies the guaranteed section only, FAILURE
\* applies nothing.
Include(t) ==
  /\ t \in Issued
  /\ \A i \in DOMAIN chain : chain[i].tx # t
  /\ guaranteed[t] \cap fallible[t] = {}
  /\ OwnInputs(t) \subseteq Unspent
  /\ \/ \E C \in SUBSET Fresh : Append1(t, OwnInputs(t), C, "SUCCESS")
     \/ \E C \in SUBSET Fresh :
          fallible[t] # {} /\ Append1(t, guaranteed[t], C, "PARTIAL_SUCCESS")
     \/ Append1(t, IF "failure_lists_inputs" \in Faults THEN OwnInputs(t) ELSE {},
                {}, "FAILURE")

\* Another party pays the address, or another instance of the same wallet
\* spends one of its UTxOs.
ForeignTransaction ==
  \/ \E u \in Fresh : Append1(NoTx, {}, {u}, "SUCCESS")
  \/ \E u \in Unspent : Append1(NoTx, {u}, {}, "SUCCESS")

-----------------------------------------------------------------------------
(* Synchronisation                                                         *)

\* The id the indexer serves first for `transactionId: appliedId`.
OpenCursor(appliedId) ==
  IF "inclusive_cursor" \in Faults /\ appliedId > 0 THEN appliedId ELSE appliedId + 1

\* One transaction update: UTxOs first, then the applied id, in one write.
\* A transaction none of whose inputs can be booked any more leaves `live`.
ApplyTransaction ==
  /\ cursor \in DOMAIN chain
  /\ LET e == chain[cursor] IN
       /\ IF e.status = "FAILURE" THEN ApplyFailedUpdate(e) ELSE ApplyUpdate(e)
       /\ live' = {t \in live : t = e.tx => ~(OwnInputs(t) \subseteq e.spentUtxos)}
  /\ progress' = [progress EXCEPT !.appliedId = cursor]
  /\ cursor' = cursor + 1
  /\ UNCHANGED <<chain, txVars, snapshot, faultVars>>

\* Mutant: a progress message does not mark the wallet connected.
UpdateProgressOff ==
  /\ cursor # 0
  /\ progress' = [progress EXCEPT !.highestTransactionId = Len(chain)]
  /\ UNCHANGED <<chain, availableUtxos, pendingUtxos, txVars, live, cursor, snapshot, faultVars>>

UpdateProgress ==
  /\ cursor # 0
  /\ progress' = [progress EXCEPT !.highestTransactionId = Len(chain), !.isConnected = TRUE]
  /\ UNCHANGED <<chain, availableUtxos, pendingUtxos, txVars, live, cursor, snapshot, faultVars>>

\* The stream fails, with any number of served updates still unread.
Disconnect ==
  /\ cursor # 0
  /\ disconnects < MaxDisconnects
  /\ cursor' = 0
  /\ disconnects' = disconnects + 1
  /\ UNCHANGED <<chain, walletVars, txVars, live, snapshot, restarts>>

\* Stream.retry runs startSync again from the state's current appliedId.
StartSync ==
  /\ cursor = 0
  /\ cursor' = OpenCursor(progress.appliedId)
  /\ UNCHANGED <<chain, walletVars, txVars, live, snapshot, faultVars>>

IsStrictlyComplete ==
  progress.isConnected /\ progress.highestTransactionId = progress.appliedId

-----------------------------------------------------------------------------
(* Serialisation                                                           *)

Snapshot == [availableUtxos: SUBSET Utxos, pendingUtxos: SUBSET Utxos, appliedId: Nat,
             live: SUBSET Txs]

\* A save that no restore will read is left out (the bound on restarts).
Serialize ==
  /\ restarts < MaxRestarts
  /\ snapshot' = [availableUtxos |-> availableUtxos, pendingUtxos |-> pendingUtxos,
                  appliedId |-> progress.appliedId, live |-> live]
  /\ UNCHANGED <<chain, walletVars, txVars, live, cursor, faultVars>>

\* A crash loses everything since the snapshot.  Transactions handed out after
\* it are unknown to the restored wallet and leave `live`; they can still be
\* included.
CrashAndRestore ==
  /\ restarts < MaxRestarts
  /\ restarts' = restarts + 1
  /\ availableUtxos' = snapshot.availableUtxos
  /\ pendingUtxos' = snapshot.pendingUtxos
  /\ progress' = [appliedId |-> snapshot.appliedId,
                  highestTransactionId |-> snapshot.appliedId, isConnected |-> FALSE]
  /\ live' = snapshot.live
  /\ cursor' = 0
  /\ UNCHANGED <<chain, txVars, snapshot, disconnects>>

-----------------------------------------------------------------------------

Init ==
  /\ chain = <<>>
  /\ availableUtxos = {}
  /\ pendingUtxos = {}
  /\ progress = [appliedId |-> 0, highestTransactionId |-> 0, isConnected |-> FALSE]
  /\ guaranteed = [t \in Txs |-> {}]
  /\ fallible = [t \in Txs |-> {}]
  /\ live = {}
  /\ cursor = 0
  /\ snapshot = [availableUtxos |-> {}, pendingUtxos |-> {}, appliedId |-> 0, live |-> {}]
  /\ disconnects = 0
  /\ restarts = 0

Transacting(t) ==
  \/ \E S \in SUBSET availableUtxos, night \in BOOLEAN : MakeTransfer(t, S, night)
  \/ \E S \in SUBSET availableUtxos : InitSwap(t, S)
  \/ \E S \in SUBSET availableUtxos : BalanceFinalizedTransaction(t, S)
  \/ \E G, F \in SUBSET Utxos : RotateUtxos(t, G, F)
  \/ \E G, F \in SUBSET availableUtxos : BalanceUnboundTransaction(t, G, F)
  \/ RevertTransaction(t)

Synchronising == ApplyTransaction \/ UpdateProgress \/ Disconnect \/ StartSync

Next ==
  \/ \E t \in Txs : Transacting(t) \/ Include(t)
  \/ ForeignTransaction
  \/ Synchronising
  \/ Serialize
  \/ CrashAndRestore

Spec == Init /\ [][Next]_vars

\* The sync fiber runs as long as the wallet does, and Stream.retry restarts
\* it without a limit; nothing obliges the user or the chain to do anything.
FairSpec ==
  /\ Spec
  /\ WF_vars(ApplyTransaction)
  /\ WF_vars(UpdateProgress)
  /\ WF_vars(StartSync)

-----------------------------------------------------------------------------
(* Properties                                                              *)

TypeOK ==
  /\ chain \in Seq(Update)
  /\ availableUtxos \in SUBSET Utxos
  /\ pendingUtxos \in SUBSET Utxos
  /\ progress \in [appliedId: Nat, highestTransactionId: Nat, isConnected: BOOLEAN]
  /\ guaranteed \in [Txs -> SUBSET Utxos]
  /\ fallible \in [Txs -> SUBSET Utxos]
  /\ live \in SUBSET Txs
  /\ cursor \in Nat
  /\ snapshot \in Snapshot
  /\ disconnects \in Nat /\ restarts \in Nat

\* Total balance: whatever was booked, reverted, replayed after a reconnection
\* or restored from an old snapshot, available and pending together are exactly
\* the address's unspent outputs at the applied id.  In particular no coin is
\* lost or created by a revert racing the sync, and no spent coin comes back.
TotalIsLedgerBalance ==
  availableUtxos \cup pendingUtxos = UnspentAt(chain, progress.appliedId)

\* What the ledger guarantees about the chain: outputs are fresh, inputs were
\* unspent, a failed transaction creates nothing.
ChainWellFormed(c) ==
  \A i \in DOMAIN c :
    /\ c[i].createdUtxos \cap CreatedUpTo(c, i - 1) = {}
    /\ c[i].spentUtxos \subseteq UnspentAt(c, i - 1)
    /\ c[i].status = "FAILURE" => c[i].createdUtxos = {}

\* The inductive strengthening of TotalIsLedgerBalance: the same balance for
\* the snapshot, and a subscription that skips nothing.
LedgerInv ==
  /\ ChainWellFormed(chain)
  /\ progress.appliedId \in 0..Len(chain)
  /\ TotalIsLedgerBalance
  /\ cursor # 0 => \/ cursor = progress.appliedId + 1
                   \/ "inclusive_cursor" \in Faults /\ cursor = progress.appliedId
  /\ snapshot.appliedId \in 0..Len(chain)
  /\ snapshot.availableUtxos \cup snapshot.pendingUtxos = UnspentAt(chain, snapshot.appliedId)

\* A UTxO is never offered for selection while it is booked.
AvailableNotPending == availableUtxos \cap pendingUtxos = {}

\* No double booking: the inputs of a transaction the wallet still stands by
\* are neither selectable nor inputs of another such transaction.
LiveInputsReserved ==
  \A t \in live :
    /\ OwnInputs(t) \cap availableUtxos = {}
    /\ \A s \in live \ {t} : OwnInputs(s) \cap OwnInputs(t) = {}

\* The inductive strengthening of the two above: they also hold of the
\* snapshot, reserved inputs are outputs the wallet has already seen, and a
\* failed transaction gives nothing back on its own.
Reserved(L, available, n) ==
  \A t \in L :
    /\ OwnInputs(t) # {}
    /\ OwnInputs(t) \subseteq CreatedUpTo(chain, n)
    /\ OwnInputs(t) \cap available = {}
    /\ \A s \in L \ {t} : OwnInputs(s) \cap OwnInputs(t) = {}

DisjointInv ==
  /\ AvailableNotPending
  /\ snapshot.availableUtxos \cap snapshot.pendingUtxos = {}

BookingInv ==
  /\ \A i \in DOMAIN chain : chain[i].status = "FAILURE" => chain[i].spentUtxos = {}
  /\ Reserved(live, availableUtxos, progress.appliedId)
  /\ Reserved(snapshot.live, snapshot.availableUtxos, snapshot.appliedId)

\* Catching up: however often the subscription fails or the process restarts,
\* the wallet ends up reporting itself strictly complete, and it is: its coins
\* are then the coins of the whole chain.
EventuallySynced ==
  <>[](/\ IsStrictlyComplete
       /\ availableUtxos \cup pendingUtxos = Unspent)
=============================================================================
