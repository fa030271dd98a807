----------------------------- MODULE TxHistory -----------------------------
(***************************************************************************)
(* The transaction history: one storage that the facade writes when it     *)
(* submits and reverts transactions, and the three wallets write when they *)
(* see one on chain, each from a forked fiber and in no order.  Beside it   *)
(* runs the pending-transactions service, on whose verdict the facade       *)
(* rejects what will not land (PendingTransactions has its detail).         *)
(*                                                                         *)
(* A transaction is its set of identifiers.  Its entry is stored under the  *)
(* chain's hash once proven and bound, and under the hex of its bytes       *)
(* otherwise; so one transaction may have entries under several keys.       *)
(***************************************************************************)
EXTENDS Naturals, FiniteSets, Sequences, SequencesExt

CONSTANTS
  Txs,        \* transactions, as nonempty sets of identifiers
  SubmitForm, \* the form of what is submitted: "chain", or "erased" (simulator)
  Sections,   \* [wallet -> set of the pieces its section of an entry consists of]; the
              \* unshielded section comes in one piece
  Outcomes,   \* bound: the statuses the ledger gives
  MaxCalls,   \* bound: transactions finalized or submitted
  MaxOthers   \* bound: reverts by the application, and restarts

Forms == {"chain", "erased", "unproven"}
Statuses == {"SUCCESS", "FAILURE", "PARTIAL_SUCCESS"}
Wallets == DOMAIN Sections \* among "shielded", "unshielded" and "dust"
Pieces == UNION {{w} \X Sections[w] : w \in Wallets}
None == "none"

ASSUME TxHistoryAssumption ==
  /\ \A t \in Txs : t # {} /\ IsFiniteSet(t)
  /\ Wallets \subseteq {"shielded", "unshielded", "dust"}
  /\ \A w \in Wallets : Sections[w] # {}
  /\ \A p, q \in Pieces : p[1] = "unshielded" /\ q[1] = "unshielded" => p = q
  /\ SubmitForm \in {"chain", "erased"} /\ Outcomes \subseteq Statuses
  /\ MaxCalls \in Nat /\ MaxOthers \in Nat

VARIABLES
  storage,   \* the entries, in the order of their first write (a Map)
  pending,   \* the pending-transactions service: items with their verdict
  calls,     \* submissions between their awaits
  reverts,   \* reverts between their awaits
  chain,     \* [Txs -> status], None before the transaction is included
  todo,      \* writes of the wallets that are under way, in no order
  written,   \* history: the writes that succeeded
  recorded,  \* history: keys under which an entry was ever written
  mishap,   \* history: what OpenIsTracked makes an exception of
  counts     \* calls, and reverts by the application or restarts

vars == <<storage, pending, calls, reverts, chain, todo, written,
          recorded, mishap, counts>>

Count(what, max) == counts[what] < max /\ counts' = [counts EXCEPT ![what] = @ + 1]

Key == [ids: Txs, form: Forms]
Entry == [key: Key, ids: Txs, lifecycle: {"pending", "finalized", "rejected"},
          status: Statuses \cup {None}, fees: BOOLEAN, sections: SUBSET Pieces]

-----------------------------------------------------------------------------
(* The storage                                                             *)

HasKey(s, k) == \E i \in DOMAIN s : s[i].key = k

\* Mutant: the default merge of the storage, a shallow spread.
MergeEntriesOff(existing, incoming) == incoming

Section(e, w) == {p \in e.sections : p[1] = w}

\* Two batches of one transaction add up (mergeShieldedSections, mergeDustSections); ...
MergeShielded(old, new) == old \cup new
MergeDust(old, new) == old \cup new

\* ... an unshielded section comes in one piece and replaces the one before.
MergeUnshielded(old, new) == IF new = {} THEN old ELSE new

\* mergeWalletEntries: identifiers are united, what the ledger says of the transaction
\* is the first that was written, the lifecycle is the incoming one.
MergeEntries(existing, incoming) ==
  [incoming EXCEPT
     !.ids = existing.ids \cup incoming.ids,
     !.status = IF existing.status = None THEN incoming.status ELSE existing.status,
     !.fees = existing.fees \/ incoming.fees,
     !.sections =
        MergeShielded(Section(existing, "shielded"), Section(incoming, "shielded"))
        \cup MergeUnshielded(Section(existing, "unshielded"), Section(incoming, "unshielded"))
        \cup MergeDust(Section(existing, "dust"), Section(incoming, "dust"))]

Upsert(s, e) ==
  IF HasKey(s, e.key)
  THEN [i \in DOMAIN s |-> IF s[i].key = e.key THEN MergeEntries(s[i], e) ELSE s[i]]
  ELSE Append(s, e)

\* The entries a confirmation may clear.
Superseded(e, ids, k) ==
  e.ids \subseteq ids /\ e.lifecycle = "pending" /\ e.key # k

\* clearPendingByIdentifiers: find gives the first match only.
ClearPendingByIdentifiers(s, ids, k) ==
  LET M == {i \in DOMAIN s : Superseded(s[i], ids, k)}
  IN IF M = {} THEN s ELSE RemoveAt(s, CHOOSE i \in M : \A j \in M : i <= j)

\* What a writer that only knows the identifiers puts in.
Bare(k, lifecycle) == [key |-> k, ids |-> k.ids, lifecycle |-> lifecycle,
                       status |-> None, fees |-> FALSE, sections |-> {}]

GotPending(k) == storage' = Upsert(storage, Bare(k, "pending"))

GotRejected(k) == storage' = Upsert(storage, Bare(k, "rejected"))

GotFinalized(e) == storage' = ClearPendingByIdentifiers(Upsert(storage, e), e.ids, e.key)

-----------------------------------------------------------------------------
(* The pending-transactions service, as the facade sees it                 *)

\* Add: the biggest of the transactions that contain one another stays.
AddPending(t) ==
  LET M == {i \in pending : i.tx \subseteq t \/ t \subseteq i.tx}
  IN pending' = IF \E i \in M : t \subseteq i.tx
                THEN pending
                ELSE (pending \ M) \cup {[tx |-> t, failed |-> FALSE]}

\* Mutant: whatever shares a part with the transaction is cleared.
ClearPendingOff(t) == pending' = {i \in pending : i.tx \cap t = {}}

\* Clear: a transaction and all its parts.
ClearPending(t) == pending' = {i \in pending : ~(i.tx \subseteq t)}

\* The indexer reports a transaction with all the identifiers of the item, or the
\* item's TTL has passed: a failure also if the indexer lags, the query fails or the
\* ledger's TTL is later, and the transaction succeeds all the same.
Verdict(i) ==
  /\ i \in pending /\ ~i.failed
  /\ \/ /\ \E t \in Txs : i.tx \subseteq t /\ chain[t] = "SUCCESS"
        /\ ClearPending(i.tx)
     \/ pending' = (pending \ {i}) \cup {[i EXCEPT !.failed = TRUE]}
  /\ UNCHANGED <<storage, calls, reverts, chain, todo, written, recorded, mishap, counts>>

-----------------------------------------------------------------------------
(* The facade                                                              *)

\* A submission that comes to its pending entry after the verdict or the confirmation.
LateRecord(t) ==
  \/ \A i \in pending : ~(t \subseteq i.tx)
  \/ \E w \in written : t \subseteq w.tx

\* finalizeTransaction, finalizeRecipe: a proven transaction is waited for before
\* it is submitted.
Finalize(t) ==
  /\ AddPending(t)
  /\ Count("calls", MaxCalls)
  /\ UNCHANGED <<storage, calls, reverts, chain, todo, written, recorded,
                 mishap>>

\* submitTransaction, up to its first await.
Submit(t) ==
  /\ AddPending(t)
  /\ calls' = calls \cup {[tx |-> t, step |-> "record"]}
  /\ Count("calls", MaxCalls)
  /\ UNCHANGED <<storage, reverts, chain, todo, written, recorded, mishap>>

\* The pending entry, then the submission itself.
Record(c) ==
  /\ c \in calls /\ c.step = "record"
  /\ GotPending([ids |-> c.tx, form |-> SubmitForm])
  /\ recorded' = recorded \cup {[ids |-> c.tx, form |-> SubmitForm]}
  /\ calls' = (calls \ {c}) \cup {[c EXCEPT !.step = "submit"]}
  /\ mishap' = (mishap \/ LateRecord(c.tx))
  /\ UNCHANGED <<pending, reverts, chain, todo, written, counts>>

Submitted(c) ==
  /\ c \in calls /\ c.step = "submit"
  /\ calls' = calls \ {c}
  /\ UNCHANGED <<storage, pending, reverts, chain, todo, written, recorded,
                 mishap, counts>>

\* revertTransaction begins with the wallets.
Revert(t, form) == reverts' = reverts \cup {[tx |-> t, form |-> form, step |-> "clear"]}

\* The node refuses the transaction, or the wait for its finality fails.
SubmissionFails(c) ==
  /\ c \in calls /\ c.step = "submit"
  /\ calls' = calls \ {c}
  /\ Revert(c.tx, SubmitForm)
  /\ UNCHANGED <<storage, pending, chain, todo, written, recorded, mishap, counts>>

\* The subscription of the constructor reverts the very object it was given.
AutoRevert(i) ==
  /\ i \in pending /\ i.failed
  /\ Revert(i.tx, SubmitForm)
  /\ UNCHANGED <<storage, pending, calls, chain, todo, written, recorded,
                 mishap, counts>>

\* revert, by the application: a submitted transaction, or the parts of a recipe
\* in the form the recipe holds them.
UserRevert(t, form) ==
  /\ Revert(t, form)
  /\ Count("others", MaxOthers)
  /\ UNCHANGED <<storage, pending, calls, chain, todo, written, recorded,
                 mishap>>

\* Entries that a revert of t leaves pending although nothing is waited for any more.
LeftOver(t, form) ==
  \E i \in DOMAIN storage :
     /\ storage[i].lifecycle = "pending" /\ storage[i].ids \subseteq t
     /\ storage[i].key # [ids |-> t, form |-> form]

\* The wallets have reverted; the transaction is no longer waited for.
ClearReverted(r) ==
  /\ r \in reverts /\ r.step = "clear"
  /\ ClearPending(r.tx)
  /\ reverts' = (reverts \ {r}) \cup {[r EXCEPT !.step = "reject"]}
  /\ mishap' = (mishap \/ LeftOver(r.tx, r.form))
  /\ UNCHANGED <<storage, calls, chain, todo, written, recorded, counts>>

\* gotRejected, under the key of the form that was reverted; nothing else is cleared.
Reject(r) ==
  /\ r \in reverts /\ r.step = "reject"
  /\ GotRejected([ids |-> r.tx, form |-> r.form])
  /\ recorded' = recorded \cup {[ids |-> r.tx, form |-> r.form]}
  /\ reverts' = reverts \ {r}
  /\ UNCHANGED <<pending, calls, chain, todo, written, mishap, counts>>

-----------------------------------------------------------------------------
(* The ledger and the wallets                                              *)

\* The ledger includes a transaction with fresh identifiers, whoever submitted it and
\* whatever the service thinks of it; one or more of the wallets will see it.
Include(t) ==
  /\ \A s \in Txs : s \cap t # {} => chain[s] = None
  /\ \E o \in Outcomes, W \in SUBSET Wallets :
       /\ W # {}
       /\ chain' = [chain EXCEPT ![t] = o]
       /\ todo' = todo \cup {[tx |-> t, piece |-> p] : p \in {q \in Pieces : q[1] \in W}}
  /\ UNCHANGED <<storage, pending, calls, reverts, written, recorded, mishap, counts>>

\* getTransactionDetails: any status but the two failures counts as success.
Details(t) ==
  [Bare([ids |-> t, form |-> "chain"], "finalized") EXCEPT
     !.status = IF chain[t] \in {"FAILURE", "PARTIAL_SUCCESS"} THEN chain[t] ELSE "SUCCESS"]

\* The inputs of the three wallets.  The fees are paid, and told, by dust.
ShieldedInput(w) == [Details(w.tx) EXCEPT !.sections = {w.piece}]
DustInput(w) == [Details(w.tx) EXCEPT !.sections = {w.piece}, !.fees = TRUE]
UnshieldedInput(w) ==
  [Bare([ids |-> w.tx, form |-> "chain"], "finalized") EXCEPT
     !.status = chain[w.tx], !.sections = {w.piece}]

\* A confirmation that clears one pending entry, where it confirms more.
OneOfSeveral(e) ==
  \E i, j \in DOMAIN storage :
    i # j /\ Superseded(storage[i], e.ids, e.key) /\ Superseded(storage[j], e.ids, e.key)

\* put: one forked write of a wallet.
Put(w, input) ==
  /\ GotFinalized(input)
  /\ todo' = todo \ {w}
  /\ written' = written \cup {w}
  /\ recorded' = recorded \cup {input.key}
  /\ mishap' = (mishap \/ OneOfSeveral(input))
  /\ UNCHANGED <<pending, calls, reverts, chain, counts>>

PutShielded(w) == w.piece[1] = "shielded" /\ Put(w, ShieldedInput(w))
PutDust(w) == w.piece[1] = "dust" /\ Put(w, DustInput(w))
PutUnshielded(w) == w.piece[1] = "unshielded" /\ Put(w, UnshieldedInput(w))

\* The lookup of the details gave up, as it may for the wallets that need one: it is
\* logged, and the write never happens.
GiveUp(w) ==
  /\ w.piece[1] # "unshielded"
  /\ todo' = todo \ {w}
  /\ mishap' = TRUE
  /\ UNCHANGED <<storage, pending, calls, reverts, chain, written, recorded,
                 counts>>

\* serialize and restore: the storage survives, the memory of the process does not, and
\* by default the facade starts with an empty pending-transactions service.
Restart ==
  /\ Count("others", MaxOthers)
  /\ pending' = {} /\ calls' = {} /\ reverts' = {} /\ todo' = {}
  /\ mishap' = TRUE
  /\ UNCHANGED <<storage, chain, written, recorded>>

-----------------------------------------------------------------------------
Init ==
  /\ storage = <<>> /\ pending = {} /\ calls = {} /\ reverts = {}
  /\ chain = [t \in Txs |-> None] /\ todo = {}
  /\ written = {} /\ recorded = {} /\ mishap = FALSE
  /\ counts = [calls |-> 0, others |-> 0]

Next ==
  \/ \E t \in Txs : Finalize(t) \/ Submit(t) \/ Include(t)
  \/ \E t \in Txs, form \in {SubmitForm, "unproven"} : UserRevert(t, form)
  \/ \E c \in calls : Record(c) \/ Submitted(c) \/ SubmissionFails(c)
  \/ \E i \in pending : AutoRevert(i) \/ Verdict(i)
  \/ \E r \in reverts : ClearReverted(r) \/ Reject(r)
  \/ \E w \in todo : PutShielded(w) \/ PutDust(w) \/ PutUnshielded(w) \/ GiveUp(w)
  \/ Restart

Spec == Init /\ [][Next]_vars

-----------------------------------------------------------------------------
(* Properties                                                              *)

TypeOK ==
  /\ storage \in Seq(Entry)
  /\ pending \subseteq [tx: Txs, failed: BOOLEAN]
  /\ calls \subseteq [tx: Txs, step: {"record", "submit"}]
  /\ reverts \subseteq [tx: Txs, form: Forms, step: {"clear", "reject"}]
  /\ chain \in [Txs -> Statuses \cup {None}]
  /\ todo \subseteq [tx: Txs, piece: Pieces] /\ written \subseteq [tx: Txs, piece: Pieces]
  /\ recorded \subseteq Key /\ mishap \in BOOLEAN

\* What a wallet once wrote about a transaction stays in its entry, with the status (and,
\* from dust, the fees) the ledger gave, whatever order the facade and the other wallets write in.
SectionsKept ==
  \A w \in written : \E i \in DOMAIN storage :
     /\ storage[i].key = [ids |-> w.tx, form |-> "chain"]
     /\ w.piece \in storage[i].sections /\ storage[i].status = chain[w.tx]
     /\ w.piece[1] = "dust" => storage[i].fees

\* A transaction that was ever recorded is still told of: by its own entry, or by that
\* of a confirmed transaction that contains it.
NothingForgotten ==
  \A k \in recorded : \/ HasKey(storage, k)
                      \/ \E i \in DOMAIN storage : /\ k.ids \subseteq storage[i].ids
                                                   /\ storage[i].key.form = "chain"
                                                   /\ chain[storage[i].key.ids] # None

\* No write to the history loses a section, and nothing recorded is forgotten.
HistoryKept == SectionsKept /\ NothingForgotten

PendingKeys == {storage[i].key : i \in {j \in DOMAIN storage : storage[j].lifecycle = "pending"}}

\* An entry that says pending is still waited for, or about to be rejected or confirmed;
\* unless it was confirmed together with another pending entry, was reverted in another
\* form, was recorded after its verdict, lost its write, or survived a restart.
OpenIsTracked ==
  ~mishap =>
    \A k \in PendingKeys :
       \/ \E i \in pending : k.ids \subseteq i.tx
       \/ \E r \in reverts : r.tx = k.ids /\ r.form = k.form /\ r.step = "reject"
       \/ \E w \in todo : k.ids \subseteq w.tx

=============================================================================
