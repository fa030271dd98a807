------------------------------ MODULE EventSync ------------------------------
(***************************************************************************)
(* How the shielded and the dust wallet follow the ledger events of the    *)
(* indexer (v1/Sync.ts and v1/RunningV1Variant.ts of both packages, which  *)
(* differ only in what a replay does to the wallet).                       *)
(*                                                                         *)
(* A call of start() forks a fiber that reads the state, subscribes from   *)
(* just below its applied index, and applies the events batch by batch.    *)
(* When anything in the stream fails the fiber waits and starts over; when *)
(* the server completes the subscription it simply stops.  Nothing keeps   *)
(* start() from being called twice.  For every event that changes the      *)
(* wallet a fiber is forked that looks the transaction up over HTTP and    *)
(* writes a section of the history.                                        *)
(*                                                                         *)
(* The subscription under it is the ordered feed (OrderedFeed.tla, which   *)
(* Backpressure implements).  Events are 1, 2, ...                         *)
(***************************************************************************)
EXTENDS Integers, Sequences, FiniteSets

CONSTANTS
  Starts,      \* calls of start() during the life of a process
  BatchSize,
  Relevant,    \* the events that change this wallet
  MaxEvents,   \* bound: events the indexer publishes
  MaxFaults,   \* bound: failures of every kind
  Faults       \* which of AllFaults this instance admits

(***************************************************************************)
(* stream_fails  connection, decoding or replay fails                      *)
(* completes     the server completes the subscription                     *)
(* indexer_lag   the HTTP side does not know the transaction within the    *)
(*               retry window, or rejects the query                        *)
(* restart       the process stops and is restored from its last save      *)
(***************************************************************************)
AllFaults == {"stream_fails", "completes", "indexer_lag", "restart"}

ASSUME EventSyncAssumption ==
  /\ IsFiniteSet(Starts)
  /\ BatchSize \in Nat \ {0} /\ MaxEvents \in Nat /\ MaxFaults \in Nat
  /\ Relevant \subseteq 1..MaxEvents
  /\ Faults \subseteq AllFaults

VARIABLES
  published,  \* the last event the indexer knows
  wallet,     \* the state in the SubscriptionRef
  fibers,     \* one sync fiber for each call of start()
  looking,    \* events whose lookup runs
  recorded,   \* events in the transaction history
  lost,       \* history: events whose lookup gave up or was cut off
  saved,      \* the last serialized snapshot
  learned,    \* history: the highest maxId applied since the process started
  faults      \* history: failures so far

vars == <<published, wallet, fibers, looking, recorded, lost, saved, learned, faults>>

Events == 1..MaxEvents
Indices == 0..MaxEvents

\* No batch: the one that ends before it begins.
NoBatch == [first |-> 1, last |-> 0, maxId |-> 0]
Batch == [first: 1..MaxEvents + 1, last: Indices, maxId: Indices]

\* `replayed` stands for the local ledger state: the events that made it.
Wallet == [applied: Indices, tip: Indices, connected: BOOLEAN, replayed: Seq(Events)]

\* `next` is the event the subscription delivers next and `seen` the highest
\* maxId it has carried, or could not be below.
Fiber == [phase: {"off", "streaming", "waiting", "ended"},
          next: 1..MaxEvents + 1, seen: Indices, batch: Batch]

Idle == [phase |-> "off", next |-> 1, seen |-> 0, batch |-> NoBatch]

Blank == [applied |-> 0, tip |-> 0, connected |-> FALSE, replayed |-> <<>>]

IsEmpty(b) == b.last < b.first

Larger(a, b) == IF a >= b THEN a ELSE b

-----------------------------------------------------------------------------
(* The indexer                                                             *)

Publish ==
  /\ published < MaxEvents
  /\ published' = published + 1
  /\ UNCHANGED <<wallet, fibers, looking, recorded, lost, saved, learned, faults>>

Fault(kind) ==
  /\ kind \in Faults /\ faults < MaxFaults
  /\ faults' = faults + 1

-----------------------------------------------------------------------------
(* The sync service                                                        *)

\* Mutant: the cursor skips the event that is applied already.
ResumeFromOff(applied) == applied

\* -1: the subscription is opened without an id.
ResumeFrom(applied) == applied - 1

\* The cursor is inclusive, and the watermark drops the event it names: the
\* first event to arrive is the one after it.
Subscribe(applied) ==
  [phase |-> "streaming", next |-> Larger(ResumeFrom(applied) + 1, 1),
   seen |-> published, batch |-> NoBatch]

\* startSyncInBackground: a new fiber over the state of this moment.
Start(f) ==
  /\ fibers[f].phase = "off"
  /\ fibers' = [fibers EXCEPT ![f] = Subscribe(wallet.applied)]
  /\ UNCHANGED <<published, wallet, looking, recorded, lost, saved, learned, faults>>

\* Stream.retry runs the whole stream again, the read of the state included.
Retry(f) ==
  /\ fibers[f].phase = "waiting"
  /\ fibers' = [fibers EXCEPT ![f] = Subscribe(wallet.applied)]
  /\ UNCHANGED <<published, wallet, looking, recorded, lost, saved, learned, faults>>

\* groupedWithin: up to BatchSize events.  Each carries the highest id the
\* indexer knew when it sent it, which may be long ago.
Receive(f) ==
  /\ fibers[f].phase = "streaming" /\ IsEmpty(fibers[f].batch)
  /\ \E last \in fibers[f].next..published :
       /\ last < fibers[f].next + BatchSize
       /\ \E maxId \in Larger(last, fibers[f].seen)..published :
            fibers' = [fibers EXCEPT ![f] =
              [@ EXCEPT !.next = last + 1, !.seen = maxId,
                        !.batch = [first |-> fibers[f].next, last |-> last, maxId |-> maxId]]]
  /\ UNCHANGED <<published, wallet, looking, recorded, lost, saved, learned, faults>>

StreamFails(f) ==
  /\ fibers[f].phase = "streaming"
  /\ Fault("stream_fails")
  /\ fibers' = [fibers EXCEPT ![f].phase = "waiting", ![f].batch = NoBatch]
  /\ UNCHANGED <<published, wallet, looking, recorded, lost, saved, learned>>

\* Stream.retry does not run a stream again that ended well.
Completes(f) ==
  /\ fibers[f].phase = "streaming" /\ IsEmpty(fibers[f].batch)
  /\ Fault("completes")
  /\ fibers' = [fibers EXCEPT ![f].phase = "ended"]
  /\ UNCHANGED <<published, wallet, looking, recorded, lost, saved, learned>>

-----------------------------------------------------------------------------
(* The sync capability                                                     *)

\* Mutant: nothing is filtered.
FreshUpdatesOff(w, b) == [i \in 1..b.last - b.first + 1 |-> b.first - 1 + i]

\* The events of the batch after the applied index, in order.
FreshUpdates(w, b) ==
  LET before == Larger(w.applied, b.first - 1)
  IN [i \in 1..Larger(b.last - before, 0) |-> before + i]

\* Mutant: the tip is the last event of the batch.
ApplyUpdateOff(w, b) ==
  LET fresh == FreshUpdates(w, b)
  IN [applied |-> IF fresh = <<>> THEN w.applied ELSE b.last,
      tip |-> b.last, connected |-> TRUE, replayed |-> w.replayed \o fresh]

ApplyUpdate(w, b) ==
  LET fresh == FreshUpdates(w, b)
  IN [applied |-> IF fresh = <<>> THEN w.applied ELSE b.last,
      tip |-> b.maxId, connected |-> TRUE, replayed |-> w.replayed \o fresh]

\* Mutant: the first event of a batch is taken for the boundary.
ChangesOff(w, b) == {i \in Relevant : w.applied < i /\ b.first < i /\ i <= b.last}

\* The changes a replay reports: one for each fresh event of this wallet.
Changes(w, b) == {i \in Relevant : w.applied < i /\ b.first <= i /\ i <= b.last}

\* modifyEffect serialises the fibers; the lookups are forked.
Apply(f) ==
  LET b == fibers[f].batch
  IN /\ fibers[f].phase = "streaming" /\ ~IsEmpty(b)
     /\ wallet' = ApplyUpdate(wallet, b)
     /\ looking' = looking \cup Changes(wallet, b)
     /\ learned' = Larger(learned, b.maxId)
     /\ fibers' = [fibers EXCEPT ![f].batch = NoBatch]
     /\ UNCHANGED <<published, recorded, lost, saved, faults>>

-----------------------------------------------------------------------------
(* The transaction history                                                 *)

\* getTransactionDetails, then put.
Record(i) ==
  /\ i \in looking
  /\ looking' = looking \ {i}
  /\ recorded' = recorded \cup {i}
  /\ UNCHANGED <<published, wallet, fibers, lost, saved, learned, faults>>

\* The failure is logged; the event is not looked at again.
GiveUp(i) ==
  /\ i \in looking
  /\ Fault("indexer_lag")
  /\ looking' = looking \ {i}
  /\ lost' = lost \cup {i}
  /\ UNCHANGED <<published, wallet, fibers, recorded, saved, learned>>

-----------------------------------------------------------------------------
(* Save and restore                                                        *)

Serialize ==
  /\ saved' = [applied |-> wallet.applied, replayed |-> wallet.replayed]
  /\ UNCHANGED <<published, wallet, fibers, looking, recorded, lost, learned, faults>>

\* The history storage is kept by the application; lookups die with the
\* process, and those of events the snapshot includes are not made again.
Restart ==
  /\ Fault("restart")
  /\ wallet' = [applied |-> saved.applied, tip |-> 0, connected |-> FALSE,
                replayed |-> saved.replayed]
  /\ fibers' = [f \in Starts |-> Idle]
  /\ looking' = {}
  /\ lost' = lost \cup {i \in looking : i <= saved.applied}
  /\ learned' = 0
  /\ UNCHANGED <<published, recorded, saved>>

-----------------------------------------------------------------------------
Init ==
  /\ published = 0
  /\ wallet = Blank
  /\ fibers = [f \in Starts |-> Idle]
  /\ looking = {} /\ recorded = {} /\ lost = {}
  /\ saved = [applied |-> 0, replayed |-> <<>>]
  /\ learned = 0
  /\ faults = 0

Next ==
  \/ Publish \/ Serialize \/ Restart
  \/ \E f \in Starts :
       Start(f) \/ Retry(f) \/ Receive(f) \/ StreamFails(f) \/ Completes(f) \/ Apply(f)
  \/ \E i \in Events : Record(i) \/ GiveUp(i)

Spec == Init /\ [][Next]_vars

(***************************************************************************)
(* The runtime schedules every fiber, the retry timer fires, and a lookup  *)
(* that is neither answered nor given up does not exist.  The indexer need *)
(* not publish and the application need neither start nor save.            *)
(***************************************************************************)
FairSpec ==
  /\ Spec
  /\ \A f \in Starts : WF_vars(Receive(f)) /\ WF_vars(Apply(f)) /\ WF_vars(Retry(f))
  /\ \A i \in Events : WF_vars(Record(i))

-----------------------------------------------------------------------------
(* Properties                                                              *)

\* The type invariant.
TypeOK ==
  /\ published \in Indices
  /\ wallet \in Wallet
  /\ fibers \in [Starts -> Fiber]
  /\ looking \subseteq Events /\ recorded \subseteq Events /\ lost \subseteq Events
  /\ saved \in [applied: Indices, replayed: Seq(Events)]
  /\ learned \in Indices
  /\ faults \in 0..MaxFaults

\* Every event up to the applied index has been replayed into the local
\* ledger state exactly once and in order, whatever batches two fibers,
\* retries and restores make overlap.  A gap or a repetition is what the
\* ledger rejects as a non-linear insertion.
ExactlyOnce == wallet.replayed = [i \in 1..wallet.applied |-> i]

Started == {f \in Starts : fibers[f].phase # "off"}

\* A wallet that calls itself synced (isStrictlyComplete) has applied every
\* event it has ever heard of since the process started, as long as only one
\* fiber syncs it.
SyncedIsHonest ==
  (wallet.connected /\ wallet.applied = wallet.tip /\ \A f, g \in Started : f = g)
    => wallet.applied = learned

\* The history has, or is about to have, every relevant event that has been
\* applied, but for those whose lookup gave up or died with the process.
HistoryCovers ==
  \A i \in Relevant : i <= wallet.applied => i \in looking \cup recorded \cup lost

IsSynced ==
  wallet.connected /\ wallet.applied = published /\ wallet.tip = published

\* A wallet whose only sync runs ends up synced with whatever the indexer
\* has published, also one that is restored at the tip and to which nothing
\* new is delivered.
EventuallySynced ==
  \A f \in Starts :
    <>[](published > 0 /\ Started = {f} /\ fibers[f].phase # "ended" => IsSynced)
=============================================================================
