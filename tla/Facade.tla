------------------------------- MODULE Facade -------------------------------
(***************************************************************************)
(* The wallet facade: calls that build a transaction step by step over the *)
(* wallets, each step booking coins in one of them; proving, submitting and *)
(* reverting; and the subscription that reverts whatever the pending-       *)
(* transactions service reports as failed.                                 *)
(*                                                                         *)
(* Every `await` is a point where another call, the subscription, the poll *)
(* of the pending-transactions service or a wallet's sync may run, so each *)
(* step between two of them is an action of its own.  A call stands for    *)
(* the transaction it builds.  PendingTransactions models the pending      *)
(* service itself, UnshieldedWallet the bookings of one wallet.            *)
(***************************************************************************)
EXTENDS Naturals, Sequences, FiniteSets

CONSTANTS
  Calls,      \* transactions, each built by one call of the user
  Coins,
  Wallets,    \* "shielded", "unshielded", "dust"
  WalletOf,   \* [Coins -> Wallets]
  Flows,      \* the sequences of steps a call may consist of
  Idle, Dead, \* values of `revert` when no revert is running
  Subscription, \* the subscription that reverts failed transactions
  Faults,     \* which of AllFaults this instance admits
  MaxMishaps  \* bound: how many of them in one behaviour

(***************************************************************************)
(* late_step     a step of a call throws after an earlier one booked coins *)
(* stale_revert  a transaction is reverted that was reverted before        *)
(* late_revert   the user reverts a transaction that was submitted         *)
(* lost_answer   submission fails although the node keeps the transaction  *)
(* partial       a transaction succeeds in part                            *)
(* revert_error  a revert by the subscription throws                       *)
(* wrong_verdict the pending service takes a transaction for failed that has *)
(*               succeeded (its TTL passes while the indexer lags or the     *)
(*               status query fails) or that the ledger still admits (the    *)
(*               service's TTL, or the wallet's clock, is ahead of it)       *)
(***************************************************************************)
AllFaults == {"late_step", "stale_revert", "late_revert", "lost_answer", "partial",
              "revert_error", "wrong_verdict"}

Checks == {"attach", "fee", "sign"}

ASSUME FacadeAssumption ==
  /\ WalletOf \in [Coins -> Wallets]
  /\ Wallets \cap Checks = {}
  /\ Flows \subseteq Seq(Wallets \cup Checks) \ {<<>>}
  /\ Subscription \notin Calls
  /\ Idle # Dead
  /\ \A i \in Calls, W \in SUBSET Wallets, b \in BOOLEAN :
        [tx |-> i, left |-> W, clears |-> b] \notin {Idle, Dead}
  /\ Faults \subseteq AllFaults /\ MaxMishaps \in Nat

\* Only createDustActionTransaction books before a check that may fail, and it
\* books in the unshielded wallet alone, which releases the coins then.
UnbooksAtChecks(flow) ==
  \A k, l \in DOMAIN flow :
    k < l /\ flow[l] \in Checks => flow[k] \in Checks \cup {"unshielded"}

ASSUME FlowsAssumption == \A flow \in Flows : UnbooksAtChecks(flow)

VARIABLES
  coin,      \* the wallets' view of every coin
  inputs,    \* per call: own coins its transaction spends
  stage,     \* per call: how far the user is with it
  plan,      \* per call: the steps left to run
  pending,   \* PendingTransactionsService: an item of the call, and its result
  queue,     \* snapshots with failed items the subscription has not worked off
  revert,    \* reverts in progress: of a call, or of the subscription
  reverted,  \* history: calls that some revert was started for
  mempool, expired, chain, spent,  \* the node and the ledger
  synced,    \* per wallet: the transactions on chain it has applied
  lifecycle, \* per call: its entry in the transaction history
  mishaps    \* history: the faults that have happened

walletVars == <<coin, inputs>>
callVars == <<stage, plan>>
serviceVars == <<pending, queue>>
revertVars == <<revert, reverted>>
ledgerVars == <<mempool, expired, chain, spent>>
vars == <<walletVars, callVars, serviceVars, revertVars, ledgerVars, synced, lifecycle,
          mishaps>>

Stages == {"idle", "building", "recipe", "finalized", "submitting", "submitted", "ended"}
Revert == [tx: Calls, left: SUBSET Wallets, clears: BOOLEAN]

\* A fault happens, if the instance admits it.
Mishap(f) ==
  /\ f \in Faults
  /\ f \in mishaps \/ Cardinality(mishaps) < MaxMishaps
  /\ mishaps' = mishaps \cup {f}

OrdinaryOr(ordinary, f) ==
  \/ ordinary /\ UNCHANGED mishaps
  \/ ~ordinary /\ Mishap(f)

-----------------------------------------------------------------------------
(* The pending-transactions service                                        *)

FailedIn(p) == {i \in Calls : p[i] = "failed"}

\* Every write of the service's SubscriptionRef is published; the subscription
\* (concatMap) queues the failed items of each snapshot.
Publish(p) ==
  /\ pending' = p
  /\ queue' = IF FailedIn(p) = {} THEN queue ELSE Append(queue, FailedIn(p))

AddPending(i) == Publish([pending EXCEPT ![i] = IF @ = "none" THEN "pending" ELSE @])

ClearPending(i) == Publish([pending EXCEPT ![i] = "none"])

\* The result of i is saved: a failure or a success in part.
SaveFailure(i) == Publish([pending EXCEPT ![i] = "failed"])

\* Mutant: whatever the indexer answers counts as a failure.
VerdictOff(i) ==
  /\ pending[i] = "pending"
  /\ SaveFailure(i)
  /\ expired' = IF chain[i] = "none" THEN expired \cup {i} ELSE expired
  /\ UNCHANGED <<walletVars, callVars, revertVars, mempool, chain, spent, synced,
                 lifecycle, mishaps>>

\* Poll: the outcome on chain, or expiry.  A failed or partly successful
\* transaction is kept with its result, a successful one is cleared.  No
\* answer (a failed query counts as one without transactions) is a failure
\* once the TTL has passed: a wrong one if the transaction is on chain all the
\* same, or can still get there.
Verdict(i) ==
  /\ pending[i] = "pending"
  /\ \/ chain[i] = "SUCCESS" /\ ClearPending(i) /\ UNCHANGED <<expired, mishaps>>
     \/ chain[i] \in {"FAILURE", "PARTIAL_SUCCESS"} /\ SaveFailure(i) /\ UNCHANGED <<expired, mishaps>>
     \/ chain[i] = "none" /\ SaveFailure(i) /\ expired' = expired \cup {i} /\ UNCHANGED mishaps
     \/ chain[i] \in {"none", "SUCCESS"} /\ SaveFailure(i) /\ Mishap("wrong_verdict") /\ UNCHANGED expired
  /\ UNCHANGED <<walletVars, callVars, revertVars, mempool, chain, spent, synced, lifecycle>>

-----------------------------------------------------------------------------
(* Reverting                                                               *)

\* revertTransaction of one wallet: of the coins the transaction spends, those
\* the wallet holds as booked become available.
ReleaseCoins(i, w) ==
  coin' = [c \in Coins |-> IF c \in inputs[i] /\ WalletOf[c] = w /\ coin[c] = "booked"
                           THEN "available" ELSE coin[c]]

StartRevert(r, i, clears) ==
  /\ revert[r] = Idle
  /\ revert' = [revert EXCEPT ![r] = [tx |-> i, left |-> Wallets, clears |-> clears]]
  /\ reverted' = reverted \cup {i}

Running(r) == revert[r] \notin {Idle, Dead}

\* The wallets revert in parallel.
RevertWallet(r, w) ==
  /\ Running(r) /\ w \in revert[r].left
  /\ ReleaseCoins(revert[r].tx, w)
  /\ revert' = [revert EXCEPT ![r].left = @ \ {w}]
  /\ UNCHANGED <<inputs, callVars, serviceVars, reverted, ledgerVars, synced, lifecycle,
                 mishaps>>

\* Mutant: the item is not cleared.
FinishRevertOff(r) ==
  /\ Running(r) /\ revert[r].left = {}
  /\ lifecycle' = [lifecycle EXCEPT ![revert[r].tx] = IF revert[r].clears THEN "rejected" ELSE @]
  /\ revert' = [revert EXCEPT ![r] = Idle]
  /\ UNCHANGED <<walletVars, callVars, serviceVars, reverted, ledgerVars, synced, mishaps>>

\* Once all have, the item is cleared and the history entry is rejected; the
\* cleanup after a failed proof stops short of both.
FinishRevert(r) ==
  /\ Running(r) /\ revert[r].left = {}
  /\ LET i == revert[r].tx IN
       IF revert[r].clears
       THEN ClearPending(i) /\ lifecycle' = [lifecycle EXCEPT ![i] = "rejected"]
       ELSE UNCHANGED <<serviceVars, lifecycle>>
  /\ revert' = [revert EXCEPT ![r] = Idle]
  /\ UNCHANGED <<walletVars, callVars, reverted, ledgerVars, synced, mishaps>>

\* The subscription: snapshots one after the other, their failed items one
\* after the other, whatever has become of them since.
AutoRevert(i) ==
  /\ queue # <<>> /\ i \in Head(queue)
  /\ StartRevert(Subscription, i, TRUE)
  /\ queue' = IF Head(queue) = {i} THEN Tail(queue) ELSE [queue EXCEPT ![1] = @ \ {i}]
  /\ OrdinaryOr(i \notin reverted, "stale_revert")
  /\ UNCHANGED <<walletVars, callVars, pending, ledgerVars, synced, lifecycle>>

\* An error ends the observable, and with it the subscription.
AutoRevertFails ==
  /\ Running(Subscription)
  /\ revert' = [revert EXCEPT ![Subscription] = Dead]
  /\ Mishap("revert_error")
  /\ UNCHANGED <<walletVars, callVars, serviceVars, reverted, ledgerVars, synced, lifecycle>>

\* revert(txOrRecipe), by the user.
UserRevert(i) ==
  /\ stage[i] \in {"recipe", "finalized", "submitted"}
  /\ StartRevert(i, i, TRUE)
  /\ stage' = [stage EXCEPT ![i] = "ended"]
  /\ \/ stage[i] # "submitted" /\ OrdinaryOr(i \notin reverted, "stale_revert")
     \/ stage[i] = "submitted" /\ Mishap("late_revert")
  /\ UNCHANGED <<walletVars, plan, serviceVars, ledgerVars, synced, lifecycle>>

-----------------------------------------------------------------------------
(* Building a transaction                                                  *)

Available(w) == {c \in Coins : WalletOf[c] = w /\ coin[c] = "available"}

Start(i, flow) ==
  /\ stage[i] = "idle"
  /\ stage' = [stage EXCEPT ![i] = "building"]
  /\ plan' = [plan EXCEPT ![i] = flow]
  /\ UNCHANGED <<walletVars, serviceVars, revertVars, ledgerVars, synced, lifecycle, mishaps>>

Advance(i) ==
  /\ plan' = [plan EXCEPT ![i] = Tail(@)]
  /\ stage' = [stage EXCEPT ![i] = IF Len(plan[i]) = 1 THEN "recipe" ELSE @]

At(i, step) == stage[i] = "building" /\ Head(plan[i]) = step

\* Mutant: the wallet hands the coins out without booking them.
BookOff(i, w, S) ==
  /\ At(i, w) /\ S # {} /\ S \subseteq Available(w)
  /\ inputs' = [inputs EXCEPT ![i] = @ \cup S]
  /\ Advance(i)
  /\ UNCHANGED <<coin, serviceVars, revertVars, ledgerVars, synced, lifecycle, mishaps>>

\* A wallet transfers, swaps, rotates or balances: it picks available coins
\* and books them in the same state update.  (A wallet that has nothing to
\* balance is no step of the flow.)
Book(i, w, S) ==
  /\ At(i, w) /\ S # {} /\ S \subseteq Available(w)
  /\ inputs' = [inputs EXCEPT ![i] = @ \cup S]
  /\ coin' = [c \in Coins |-> IF c \in S THEN "booked" ELSE coin[c]]
  /\ Advance(i)
  /\ UNCHANGED <<serviceVars, revertVars, ledgerVars, synced, lifecycle, mishaps>>

\* The dust wallet attaches the registration, its fee is looked at, the
\* transaction is signed.
PassCheck(i) ==
  /\ \E s \in Checks : At(i, s)
  /\ Advance(i)
  /\ UNCHANGED <<walletVars, serviceVars, revertVars, ledgerVars, synced, lifecycle, mishaps>>

\* Mutant: the coins of the registration stay booked.
FailCheckOff(i) ==
  /\ \E s \in Checks : At(i, s)
  /\ stage' = [stage EXCEPT ![i] = "ended"]
  /\ UNCHANGED <<walletVars, plan, serviceVars, revertVars, ledgerVars, synced, lifecycle, mishaps>>

\* Attaching or signing fails, or the generated dust is below the fee: the
\* unshielded wallet releases the coins of the registration.
FailCheck(i) ==
  /\ \E s \in Checks : At(i, s)
  /\ ReleaseCoins(i, "unshielded")
  /\ stage' = [stage EXCEPT ![i] = "ended"]
  /\ UNCHANGED <<inputs, plan, serviceVars, revertVars, ledgerVars, synced, lifecycle, mishaps>>

\* A wallet cannot balance, or the fee cannot be calculated: the call throws
\* and nothing releases what its earlier steps booked.
Throw(i) ==
  /\ \E s \in Wallets \cup {"fee"} : At(i, s)
  /\ OrdinaryOr(inputs[i] = {}, "late_step")
  /\ stage' = [stage EXCEPT ![i] = "ended"]
  /\ UNCHANGED <<walletVars, plan, serviceVars, revertVars, ledgerVars, synced, lifecycle>>

\* finalizeTransaction, finalizeRecipe: prove, bind, track as pending.
Finalize(i) ==
  /\ stage[i] = "recipe"
  /\ AddPending(i)
  /\ stage' = [stage EXCEPT ![i] = "finalized"]
  /\ UNCHANGED <<walletVars, plan, revertVars, ledgerVars, synced, lifecycle, mishaps>>

\* Proving fails: all wallets revert, then the call throws.
ProveFails(i) ==
  /\ stage[i] = "recipe"
  /\ StartRevert(i, i, FALSE)
  /\ OrdinaryOr(i \notin reverted, "stale_revert")
  /\ stage' = [stage EXCEPT ![i] = "ended"]
  /\ UNCHANGED <<walletVars, plan, serviceVars, ledgerVars, synced, lifecycle>>

-----------------------------------------------------------------------------
(* Submitting                                                              *)

\* submitTransaction: pending (again), then the history entry.
Submit(i) ==
  /\ stage[i] = "finalized"
  /\ AddPending(i)
  /\ lifecycle' = [lifecycle EXCEPT ![i] = "pending"]
  /\ stage' = [stage EXCEPT ![i] = "submitting"]
  /\ UNCHANGED <<walletVars, plan, revertVars, ledgerVars, synced, mishaps>>

\* The node accepts.  When the transaction was reverted or expired meanwhile
\* the call goes on all the same.
Accept(i) ==
  /\ stage[i] = "submitting"
  /\ mempool' = mempool \cup {i}
  /\ stage' = [stage EXCEPT ![i] = "submitted"]
  /\ UNCHANGED <<walletVars, plan, serviceVars, revertVars, expired, chain, spent, synced,
                 lifecycle, mishaps>>

\* The submission fails: at the node, or (finality timeout, dropped, usurped,
\* lost connection) after the node had accepted.
SubmissionFails(i) ==
  /\ \/ stage[i] = "submitting" /\ OrdinaryOr(i \notin reverted, "stale_revert")
     \/ stage[i] = "submitted" /\ Mishap("lost_answer")
  /\ StartRevert(i, i, TRUE)
  /\ stage' = [stage EXCEPT ![i] = "ended"]
  /\ UNCHANGED <<walletVars, plan, serviceVars, ledgerVars, synced, lifecycle>>

-----------------------------------------------------------------------------
(* The ledger (external) and the wallets' sync                             *)

Include(i, status, S) ==
  /\ i \in mempool \ expired /\ chain[i] = "none"
  /\ inputs[i] \cap spent = {}
  /\ \/ status = "SUCCESS" /\ S = inputs[i] /\ UNCHANGED mishaps
     \/ status = "FAILURE" /\ S = {} /\ UNCHANGED mishaps
     \/ status = "PARTIAL_SUCCESS" /\ S \subseteq inputs[i] /\ Mishap("partial")
  /\ chain' = [chain EXCEPT ![i] = status]
  /\ spent' = spent \cup S
  /\ UNCHANGED <<walletVars, callVars, serviceVars, revertVars, mempool, expired, synced,
                 lifecycle>>

\* A wallet applies a transaction: its spent coins are gone, the history entry
\* is finalized (gotFinalized, whatever the status).
Sync(w, i) ==
  /\ chain[i] # "none" /\ i \notin synced[w]
  /\ \E c \in inputs[i] : WalletOf[c] = w
  /\ coin' = [c \in Coins |-> IF c \in inputs[i] \cap spent /\ WalletOf[c] = w
                              THEN "gone" ELSE coin[c]]
  /\ synced' = [synced EXCEPT ![w] = @ \cup {i}]
  /\ lifecycle' = [lifecycle EXCEPT ![i] = "finalized"]
  /\ UNCHANGED <<inputs, callVars, serviceVars, revertVars, ledgerVars, mishaps>>

-----------------------------------------------------------------------------

Init ==
  /\ coin = [c \in Coins |-> "available"]
  /\ inputs = [i \in Calls |-> {}]
  /\ stage = [i \in Calls |-> "idle"] /\ plan = [i \in Calls |-> <<>>]
  /\ pending = [i \in Calls |-> "none"] /\ queue = <<>>
  /\ revert = [r \in Calls \cup {Subscription} |-> Idle] /\ reverted = {}
  /\ mempool = {} /\ expired = {} /\ chain = [i \in Calls |-> "none"] /\ spent = {}
  /\ synced = [w \in Wallets |-> {}]
  /\ lifecycle = [i \in Calls |-> "none"]
  /\ mishaps = {}

Build(i) ==
  \/ \E flow \in Flows : Start(i, flow)
  \/ \E w \in Wallets, S \in SUBSET Coins : Book(i, w, S)
  \/ PassCheck(i) \/ FailCheck(i) \/ Throw(i)
  \/ Finalize(i) \/ ProveFails(i)

Reverting(r) == (\E w \in Wallets : RevertWallet(r, w)) \/ FinishRevert(r)

Next ==
  \/ \E i \in Calls :
       \/ Build(i)
       \/ Submit(i) \/ Accept(i) \/ SubmissionFails(i)
       \/ UserRevert(i) \/ Verdict(i) \/ AutoRevert(i)
       \/ \E S \in SUBSET Coins, s \in {"SUCCESS", "FAILURE", "PARTIAL_SUCCESS"} : Include(i, s, S)
       \/ \E w \in Wallets : Sync(w, i)
  \/ \E r \in Calls \cup {Subscription} : Reverting(r)
  \/ AutoRevertFails

Spec == Init /\ [][Next]_vars

-----------------------------------------------------------------------------
(* Properties                                                              *)

TypeOK ==
  /\ coin \in [Coins -> {"available", "booked", "gone"}]
  /\ inputs \in [Calls -> SUBSET Coins]
  /\ stage \in [Calls -> Stages]
  /\ plan \in [Calls -> Seq(Wallets \cup Checks)]
  /\ \A i \in Calls : stage[i] = "building" => plan[i] # <<>>
  /\ pending \in [Calls -> {"none", "pending", "failed"}]
  /\ queue \in Seq((SUBSET Calls) \ {{}})
  /\ revert \in [Calls \cup {Subscription} -> Revert \cup {Idle, Dead}]
  /\ reverted \in SUBSET Calls
  /\ mempool \in SUBSET Calls /\ expired \in SUBSET Calls
  /\ chain \in [Calls -> {"none", "SUCCESS", "FAILURE", "PARTIAL_SUCCESS"}]
  /\ spent \in SUBSET Coins
  /\ synced \in [Wallets -> SUBSET Calls]
  /\ lifecycle \in [Calls -> {"none", "pending", "finalized", "rejected"}]
  /\ mishaps \in SUBSET Faults

\* The coins of a transaction are reserved for it while it is being built, is
\* in the user's hands or is tracked as pending and not being reverted.
Reserves(i) ==
  stage[i] \in {"building", "recipe"} \/ (pending[i] = "pending" /\ i \notin reverted)

\* Specification.md on available coins: "safe to spend at the moment, with no
\* risk of transaction being rejected due to coin double spend".
AvailableIsSafe ==
  \A c \in Coins : coin[c] = "available" =>
    c \notin spent /\ \A i \in Calls : Reserves(i) => c \notin inputs[i]

\* Available coins are safe to spend as long as none of the faults happens
\* that hand a coin out twice (a wrong verdict is one: the subscription releases
\* coins that a successful transaction has spent): whatever calls run at the
\* same time, fail or are reverted, and whenever the polls and the wallets'
\* syncs come in between.
SafeUnlessMishap ==
  mishaps \subseteq {"late_step", "revert_error"} => AvailableIsSafe

\* What a booking is still needed for, or who will release it.
Accounted(i, c) ==
  \/ stage[i] \in {"building", "recipe", "finalized", "submitting"}
  \/ pending[i] # "none"
  \/ \E r \in Calls \cup {Subscription} :
       revert[r] \in Revert /\ revert[r].tx = i /\ WalletOf[c] \in revert[r].left
  \/ c \in spent

\* createDustActionTransaction: "If this fails we must unbook the UTxOs so the
\* caller can retry".  No booking outlives the call it was made for.
BookingsAccounted ==
  \A c \in Coins : coin[c] = "booked" => \E i \in Calls : c \in inputs[i] /\ Accounted(i, c)

\* A coin that no running call, tracked transaction or revert accounts for is
\* available again, whichever of them failed on the way and even if it was
\* taken for failed wrongly, unless a call threw after it had booked, a
\* transaction was reverted twice or after it was sent, or the subscription died.
NoStrandedBooking == mishaps \subseteq {"partial", "wrong_verdict"} => BookingsAccounted

\* The history never says of a successful transaction that it was rejected,
\* unless one was reverted although submitted, reverted twice or, because of a
\* failed query, a lagging indexer or a TTL that passed too early, taken for
\* failed.
HistoryTruthful ==
  mishaps \cap {"lost_answer", "late_revert", "stale_revert", "wrong_verdict"} = {} =>
    \A i \in Calls : lifecycle[i] = "rejected" => chain[i] # "SUCCESS"

\* A failed transaction is reverted without anyone asking for it: as long as
\* the service lists it, a snapshot the subscription has still to work off
\* names it, or the subscription is reverting it, unless it died.
FailedAwaitsRevert ==
  \A i \in Calls : pending[i] = "failed" =>
    \/ "revert_error" \in mishaps
    \/ \E k \in DOMAIN queue : i \in queue[k]
    \/ Running(Subscription) /\ revert[Subscription].tx = i
=============================================================================
