------------------------ MODULE PendingTransactions ------------------------
(***************************************************************************)
(* The pending-transactions service: the set of finalized transactions the *)
(* wallet waits for, the merging of transactions that contain one another, *)
(* and the loop that asks the indexer once a second for their outcome.     *)
(*                                                                         *)
(* A transaction is identified by its set of ledger identifiers; a balanced *)
(* transaction carries the identifiers of both parts it was merged from.   *)
(* Writes of the state hold the semaphore of its SubscriptionRef.  The loop *)
(* works on a snapshot of the state and awaits the network between reading *)
(* an item and saving its outcome.                                         *)
(***************************************************************************)
EXTENDS Naturals, FiniteSets

CONSTANTS
  Txs,       \* transactions, as nonempty finite sets of identifiers
  TTL,       \* [Txs -> Nat]: the earliest TTL of the intents of a transaction
  Graced,    \* transactions with dust payments (or counted as shielded offers)
  Grace,     \* dustGracePeriodSeconds
  Outcomes,  \* bound: the statuses the ledger gives
  MaxTime,   \* bound: the clock
  MaxRestarts, \* bound: save and restore
  Faults     \* which of AllFaults this instance admits

(***************************************************************************)
(* query_error  a status query fails                                       *)
(* indexer_lag  the indexer reports a transaction later than the ledger    *)
(*              applies it                                                 *)
(* re_added     a part of a transaction is added after the whole was       *)
(***************************************************************************)
AllFaults == {"query_error", "indexer_lag", "re_added"}

Failed == {"FAILURE", "PARTIAL_SUCCESS"}
Statuses == Failed \cup {"SUCCESS"}

ASSUME TxsAssumption ==
  /\ \A t \in Txs : t # {} /\ IsFiniteSet(t)
  /\ TTL \in [Txs -> Nat]
  /\ Graced \subseteq Txs /\ Outcomes \subseteq Statuses
  /\ Grace \in Nat /\ MaxTime \in Nat /\ MaxRestarts \in Nat
  /\ Faults \subseteq AllFaults

\* A merged transaction has the intents and dust payments of its parts, so it
\* expires no later than they do.  (Left out: a part that counts as shielded for
\* want of a fallible offer, and what it is merged into for none but those.)
ASSUME MergeAssumption ==
  \A s, t \in Txs : s \subseteq t => TTL[t] <= TTL[s] /\ (s \in Graced => t \in Graced)

VARIABLES
  state,      \* PendingTransactions.all
  now,        \* the wallet's clock
  chain,      \* confirmed transactions with their status
  indexed,    \* those the indexer reports
  queue,      \* items of the current tick's snapshot still to be asked for
  check,      \* the item being asked for, or its outcome waiting to be saved
  added,      \* history: transactions ever added
  tracked,    \* history: added, and neither discarded nor confirmed since
  missed,     \* history: a query was answered without a transaction on chain
  restarts

ledgerVars == <<now, chain, indexed>>
pollVars == <<queue, check>>
vars == <<state, now, chain, indexed, queue, check, added, tracked, missed, restarts>>

None == "none"

Item == [tx: Txs, creationTime: Nat, result: {None} \cup Failed]
Confirmed == [identifiers: Txs, status: Statuses]
NoCheck == [step |-> "idle"]
Check == {NoCheck} \cup [step: {"ask"}, item: Item, now: Nat]
                   \cup [step: {"save"}, item: Item, result: Statuses]

-----------------------------------------------------------------------------
(* The pure functions over the state                                       *)

\* HashSet intersection as large as the smaller of both identifier sets.
IsOneIncludedInOther(s, t) == s \subseteq t \/ t \subseteq s

AllPending(items) == {i \in items : i.result = None}

AllFailed(items) == {i \in items : i.result \in Failed}

\* Mutant: only the very same transaction counts as matching.
MatchingOff(items, t) == {i \in items : i.tx = t}

Matching(items, t) == {i \in items : IsOneIncludedInOther(t, i.tx)}

\* Arr.max over the matching items with the new one last: a new item only wins
\* when it is strictly bigger.  Equally big items that were there before are
\* taken in any order.
Biggest(items, new) ==
  LET M == Matching(items, new.tx)
      Max == {i \in M : \A j \in M : Cardinality(j.tx) <= Cardinality(i.tx)}
  IN IF \E i \in Max : Cardinality(i.tx) >= Cardinality(new.tx) THEN Max ELSE {new}

\* Mutant: a transaction is discarded whenever the given one shares a part.
WithoutOff(items, t) == {i \in items : i.tx \cap t = {}}

\* clear: drop the items whose identifiers are all among those of t.
Without(items, t) == {i \in items : ~(i.tx \subseteq t)}

WithResult(items, t, r) ==
  {IF i.tx \subseteq t THEN [i EXCEPT !.result = r] ELSE i : i \in items}

\* Mutant: a transaction counts as expired at its TTL.
HasTTLExpiredOff(i, at) ==
  \/ at >= TTL[i.tx]
  \/ i.tx \in Graced /\ at > i.creationTime + Grace

HasTTLExpired(i, at) ==
  \/ at > TTL[i.tx]
  \/ i.tx \in Graced /\ at > i.creationTime + Grace

-----------------------------------------------------------------------------
(* The service's operations                                                *)

AddPendingTransaction(t) ==
  \E biggest \in Biggest(state, [tx |-> t, creationTime |-> now, result |-> None]) :
    state' = (state \ Matching(state, t)) \cup {biggest}

Clear(t) == state' = Without(state, t)

\* The facade adds the parts of a transaction when it finalizes them and the
\* merged transaction after that.
Add(t) ==
  /\ "re_added" \in Faults \/ \A s \in added \ {t} : ~(t \subseteq s)
  /\ AddPendingTransaction(t)
  /\ added' = added \cup {t}
  /\ tracked' = tracked \cup {t}
  /\ UNCHANGED <<ledgerVars, pollVars, missed, restarts>>

\* A revert discards a transaction and every part of it.
Discard(t) ==
  /\ Clear(t)
  /\ tracked' = {s \in tracked : ~(s \subseteq t)}
  /\ UNCHANGED <<ledgerVars, pollVars, added, missed, restarts>>

\* A tick of the poll: the items without a result.  Stream.mapConcatEffect
\* finishes one tick before it pulls the next.
Tick ==
  /\ check = NoCheck /\ queue = {}
  /\ queue' = AllPending(state)
  /\ UNCHANGED <<state, ledgerVars, check, added, tracked, missed, restarts>>

\* `now` is read before the query is sent.
Ask(i) ==
  /\ check = NoCheck
  /\ i \in queue
  /\ queue' = queue \ {i}
  /\ check' = [step |-> "ask", item |-> i, now |-> now]
  /\ UNCHANGED <<state, ledgerVars, added, tracked, missed, restarts>>

\* queryForStatus finds the transaction that carries the first identifier and
\* takes it when it carries the others as well.
Reported(t) == {c.status : c \in {x \in indexed : t \subseteq x.identifiers}}

\* Mutant: without an answer the TTL is not looked at.
NoAnswerOff ==
  /\ check' = NoCheck
  /\ UNCHANGED missed

\* Without an answer an expired transaction has failed; otherwise it stays
\* pending.
NoAnswer ==
  LET expired == HasTTLExpired(check.item, check.now) IN
    /\ check' = IF expired THEN [step |-> "save", item |-> check.item, result |-> "FAILURE"]
                           ELSE NoCheck
    /\ missed' = (missed \/ (expired /\ \E c \in chain : check.item.tx \subseteq c.identifiers))

\* The answer to the query.  An error counts as an empty one.
Answer ==
  /\ check.step = "ask"
  /\ \/ /\ \E r \in Reported(check.item.tx) :
             check' = [step |-> "save", item |-> check.item, result |-> r]
        /\ UNCHANGED missed
     \/ /\ Reported(check.item.tx) = {} \/ "query_error" \in Faults
        /\ NoAnswer
  /\ UNCHANGED <<state, ledgerVars, queue, added, tracked, restarts>>

SaveResult ==
  /\ check.step = "save"
  /\ IF check.result = "SUCCESS"
     THEN /\ Clear(check.item.tx)
          /\ tracked' = {s \in tracked : ~(s \subseteq check.item.tx)}
     ELSE /\ state' = WithResult(state, check.item.tx, check.result)
          /\ UNCHANGED tracked
  /\ check' = NoCheck
  /\ UNCHANGED <<ledgerVars, queue, added, missed, restarts>>

\* Save and restore: the serialised state has no results, and the loop starts
\* over.
Restart ==
  /\ restarts < MaxRestarts
  /\ restarts' = restarts + 1
  /\ state' = {[i EXCEPT !.result = None] : i \in state}
  /\ queue' = {} /\ check' = NoCheck
  /\ UNCHANGED <<ledgerVars, added, tracked, missed>>

-----------------------------------------------------------------------------
(* The ledger and the indexer (external)                                   *)

TimePasses ==
  /\ now < MaxTime
  /\ now' = now + 1
  /\ UNCHANGED <<state, chain, indexed, pollVars, added, tracked, missed, restarts>>

\* The ledger applies a transaction within its TTLs, and every identifier at
\* most once.  Dust payments are valid for Grace from time 0, when the
\* transactions are built.
Confirm(t, status) ==
  /\ now <= TTL[t] /\ (t \in Graced => now <= Grace)
  /\ \A c \in chain : c.identifiers \cap t = {}
  /\ chain' = chain \cup {[identifiers |-> t, status |-> status]}
  /\ indexed' = IF "indexer_lag" \in Faults THEN indexed ELSE chain'
  /\ UNCHANGED <<state, now, pollVars, added, tracked, missed, restarts>>

Index ==
  /\ indexed # chain
  /\ indexed' = chain
  /\ UNCHANGED <<state, now, chain, pollVars, added, tracked, missed, restarts>>

-----------------------------------------------------------------------------

Init ==
  /\ state = {} /\ now = 0
  /\ chain = {} /\ indexed = {}
  /\ queue = {} /\ check = NoCheck
  /\ added = {} /\ tracked = {} /\ missed = FALSE /\ restarts = 0

Poll == Tick \/ (\E i \in queue : Ask(i)) \/ Answer \/ SaveResult

Next ==
  \/ \E t \in Txs : Add(t) \/ Discard(t) \/ \E s \in Outcomes : Confirm(t, s)
  \/ Poll \/ Restart
  \/ TimePasses \/ Index

Spec == Init /\ [][Next]_vars

\* The clock advances, the indexer catches up and the loop runs.
FairSpec == Spec /\ WF_vars(Poll) /\ WF_vars(TimePasses) /\ WF_vars(Index)

-----------------------------------------------------------------------------
(* Properties                                                              *)

TypeOK ==
  /\ state \in SUBSET Item
  /\ now \in 0..MaxTime
  /\ chain \in SUBSET Confirmed /\ indexed \in SUBSET chain
  /\ queue \in SUBSET Item
  /\ check \in Check
  /\ added \in SUBSET Txs /\ tracked \in SUBSET added
  /\ missed \in BOOLEAN
  /\ restarts \in 0..MaxRestarts

\* One transaction, one item: whatever parts and merged transactions are added
\* in whatever order, no item contains another, so no two items can be
\* resolved by the same confirmation or expire on behalf of each other.
Separated ==
  \A i, j \in state : i # j => ~IsOneIncludedInOther(i.tx, j.tx)

\* submitTransaction "tracks it as pending until finalized or discarded": a
\* transaction that was added is covered by some item until then.
TrackedUntilResolved ==
  \A t \in tracked : \E i \in state : t \subseteq i.tx

\* A verdict of failure is final: the coins of a failed transaction are given
\* back, so it must neither have succeeded nor be able to succeed later.
FailureIsFinal ==
  \A i \in state : i.result \in Failed =>
    \A c \in chain : i.tx \subseteq c.identifiers => c.status \in Failed

\* It is final however long the answers and the saving of their results take,
\* as long as no query overlooks a transaction that is on chain.
FinalUnlessMissed == ~missed => FailureIsFinal

\* No transaction stays pending for ever: it is confirmed, discarded, or its
\* item fails.
EventuallyResolved ==
  \A t \in Txs :
    (t \in tracked) ~> (t \notin tracked \/ \E i \in state : t \subseteq i.tx /\ i.result # None)
=============================================================================
