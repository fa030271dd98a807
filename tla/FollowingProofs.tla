---------------------------- MODULE FollowingProofs ----------------------------
(***************************************************************************)
(* Proofs about the two components that follow the chain.                  *)
(*                                                                         *)
(* EventSync, for every number of fibers, batch size, set of relevant      *)
(* events, bound and fault: the inductive invariant says where a stream    *)
(* stands with respect to the applied index: whatever it delivers next, or *)
(* has in its batch, begins at most one above the index, so that filtering *)
(* by the index can repeat nothing and skip nothing.                       *)
(*                                                                         *)
(* Runtime, for every list of variants, every set of commands and every    *)
(* bound: the inductive invariant follows the states through the stream of *)
(* changes: the last state before any version out of range is the one the  *)
(* migration will start from, and it holds the effects of all commands     *)
(* that were applied in time.                                              *)
(***************************************************************************)
EXTENDS EventSync, Runtime, SequenceTheorems, TLAPS

-----------------------------------------------------------------------------
(* The pure functions                                                      *)

\* Subscribing yields a well-formed stream that begins at the boundary.
LEMMA SubscribeFacts ==
  ASSUME NEW applied \in Indices, published \in Indices
  PROVE  /\ Subscribe(applied) \in Fiber
         /\ Subscribe(applied).phase = "streaming"
         /\ Subscribe(applied).batch = NoBatch
         /\ Subscribe(applied).seen = published
         /\ Subscribe(applied).next <= applied + 1
  BY EventSyncAssumption
  DEF Subscribe, Larger, ResumeFrom, Fiber, Batch, NoBatch, Indices

\* Counting from m + 1 after counting to m is counting on.
LEMMA CountingOn ==
  ASSUME NEW S, NEW s \in Seq(S), NEW t \in Seq(S), NEW m \in Nat, NEW n \in Nat,
         Len(s) = m, Len(t) = n,
         \A i \in 1..m : s[i] = i, \A i \in 1..n : t[i] = m + i
  PROVE  s \o t = [i \in 1..m + n |-> i]
<1>1. /\ s \o t \in Seq(S) /\ Len(s \o t) = Len(s) + Len(t)
      /\ \A i \in 1..Len(s) + Len(t) :
           (s \o t)[i] = IF i <= Len(s) THEN s[i] ELSE t[i - Len(s)]
  BY ONLY ConcatProperties, s \in Seq(S), t \in Seq(S)
<1>2. /\ s \o t \in Seq(S) /\ Len(s \o t) = m + n
      /\ \A i \in 1..m + n : (s \o t)[i] = IF i <= m THEN s[i] ELSE t[i - m]
  BY <1>1
<1>3. \A i \in 1..m + n : (s \o t)[i] = i
  BY <1>2
<1>4. s \o t = [i \in 1..m + n |-> (s \o t)[i]]
  BY <1>2, LenProperties
<1> QED BY <1>3, <1>4

\* Fresh updates are events, and applying a batch keeps the wallet well formed.
LEMMA ApplyType ==
  ASSUME NEW w \in Wallet, NEW b \in Batch
  PROVE  FreshUpdates(w, b) \in Seq(Events) /\ ApplyUpdate(w, b) \in Wallet
<1> DEFINE before == Larger(w.applied, b.first - 1)
           n == Larger(b.last - before, 0)
           fresh == FreshUpdates(w, b)
<1>1. /\ w.applied \in Nat /\ b.last \in 0..MaxEvents /\ b.first \in 1..MaxEvents + 1
      /\ MaxEvents \in Nat /\ w.replayed \in Seq(Events)
      /\ w.applied \in Indices /\ b.maxId \in Indices /\ b.last \in Indices
  BY EventSyncAssumption DEF Wallet, Batch, Indices
<1>2. before \in Nat /\ n \in Nat
  BY <1>1 DEF Larger
<1>3. fresh = [i \in 1..n |-> before + i]
  BY DEF FreshUpdates
<1>4. \A i \in 1..n : before + i \in Events
  <2>1. n # 0 => n = b.last - before
    BY <1>1, <1>2 DEF Larger
  <2> HIDE DEF before, n
  <2> QED BY <1>1, <1>2, <2>1 DEF Events
<1>5. fresh \in Seq(Events)
  <2> HIDE DEF fresh, before, n
  <2> QED BY <1>2, <1>3, <1>4
<1>6. w.replayed \o fresh \in Seq(Events)
  <2> HIDE DEF fresh
  <2> QED BY <1>1, <1>5
<1> QED BY <1>1, <1>5, <1>6 DEF ApplyUpdate, Wallet

\* What the fresh updates of a batch are when the batch begins no later than
\* one above the applied index.
LEMMA FreshFacts ==
  ASSUME NEW w \in Wallet, NEW b \in Batch, ~IsEmpty(b), b.first <= w.applied + 1,
         w.replayed = [i \in 1..w.applied |-> i]
  PROVE  /\ FreshUpdates(w, b) \in Seq(Events)
         /\ ApplyUpdate(w, b).applied = Larger(w.applied, b.last)
         /\ w.replayed \o FreshUpdates(w, b)
              = [i \in 1..Larger(w.applied, b.last) |-> i]
<1> DEFINE fresh == FreshUpdates(w, b)
           n == Larger(b.last - w.applied, 0)
<1>1. /\ w.applied \in 0..MaxEvents /\ b.first \in 1..MaxEvents + 1
      /\ b.last \in 0..MaxEvents /\ MaxEvents \in Nat
      /\ w.applied \in Nat /\ b.last \in Nat /\ b.first \in Nat
  BY EventSyncAssumption DEF Wallet, Batch, Indices
<1>2. Larger(w.applied, b.first - 1) = w.applied
  BY <1>1 DEF Larger
<1>3. fresh = [i \in 1..n |-> w.applied + i] /\ n \in Nat
  BY <1>1, <1>2 DEF FreshUpdates, Larger
<1>4. w.applied + n = Larger(w.applied, b.last)
  BY <1>1 DEF Larger
<1>5. \A i \in 1..n : w.applied + i \in Events
  BY <1>1 DEF Larger, Events
<1> HIDE DEF fresh, n
<1>6. fresh \in Seq(Events)
  BY <1>3, <1>5
<1>7. Len(fresh) = n
  BY <1>3, <1>6
<1>8. (fresh = <<>>) <=> (n = 0)
  BY <1>3, <1>6, <1>7
<1>9. ApplyUpdate(w, b).applied = Larger(w.applied, b.last)
  <2>1. CASE n = 0
    BY <2>1, <1>1, <1>4, <1>8 DEF ApplyUpdate, fresh
  <2>2. CASE n # 0
    BY <2>2, <1>1, <1>8 DEF ApplyUpdate, fresh, n, Larger
  <2> QED BY <2>1, <2>2
<1>10. w.replayed \in Seq(Events) /\ Len(w.replayed) = w.applied
  BY <1>1 DEF Wallet
<1>11. w.replayed \o fresh = [i \in 1..Larger(w.applied, b.last) |-> i]
  <2>1. w.replayed \in Seq(Events) /\ w.applied \in Nat
    BY <1>1, <1>10
  <2>2. \A i \in 1..w.applied : w.replayed[i] = i
    BY <1>1
  <2>3. \A i \in 1..n : fresh[i] = w.applied + i
    BY <1>3
  <2>4. w.replayed \o fresh = [i \in 1..w.applied + n |-> i]
    BY <1>3, <1>6, <1>7, <1>10, <2>1, <2>2, <2>3, CountingOn
  <2> QED BY <2>4, <1>4
<1> QED BY <1>6, <1>9, <1>11 DEF fresh

-----------------------------------------------------------------------------
(* Type correctness                                                        *)

LEMMA NoBatchType == NoBatch \in Batch /\ IsEmpty(NoBatch)
BY EventSyncAssumption DEF NoBatch, Batch, IsEmpty, Indices

LEMMA ReceivedType ==
  ASSUME NEW x \in Fiber, NEW n \in 1..MaxEvents + 1, NEW m \in Indices, NEW b \in Batch
  PROVE  [x EXCEPT !.next = n, !.seen = m, !.batch = b] \in Fiber
BY DEF Fiber

LEMMA SyncTypeInit == Init => TypeOK
BY EventSyncAssumption
DEF Init, TypeOK, Indices, Wallet, Blank, Fiber, Idle, Batch, NoBatch

LEMMA SyncTypeNext == TypeOK /\ [Next]_vars => TypeOK'
<1> SUFFICES ASSUME TypeOK, [Next]_vars PROVE TypeOK'
  OBVIOUS
<1> USE DEF TypeOK
<1>0. /\ MaxEvents \in Nat /\ MaxFaults \in Nat /\ BatchSize \in Nat
      /\ Relevant \subseteq Events /\ published \in 0..MaxEvents
  BY EventSyncAssumption DEF Events, Indices
<1>1. CASE Publish
  BY <1>0, <1>1 DEF Publish, Indices
<1>2. CASE Serialize
  BY <1>2 DEF Serialize, Wallet
<1>3. CASE Restart
  <2>1. wallet' \in Wallet
    BY <1>0, <1>3 DEF Restart, Wallet, Indices
  <2>2. fibers' \in [Starts -> Fiber]
    BY <1>0, <1>3 DEF Restart, Fiber, Idle, Batch, NoBatch, Indices
  <2>3. faults' \in 0..MaxFaults
    BY <1>0, <1>3 DEF Restart, Fault
  <2> QED BY <1>0, <1>3, <2>1, <2>2, <2>3 DEF Restart, Indices
<1>4. ASSUME NEW f \in Starts, Start(f) \/ Retry(f) PROVE TypeOK'
  <2>1. Subscribe(wallet.applied) \in Fiber
    BY SubscribeFacts DEF Wallet
  <2> QED BY <1>4, <2>1 DEF Start, Retry
<1>5. ASSUME NEW f \in Starts, Receive(f) PROVE TypeOK'
  <2>0. PICK last \in fibers[f].next..published :
          \E maxId \in Larger(last, fibers[f].seen)..published :
            fibers' = [fibers EXCEPT ![f] =
              [@ EXCEPT !.next = last + 1, !.seen = maxId,
                        !.batch = [first |-> fibers[f].next, last |-> last, maxId |-> maxId]]]
    BY <1>5 DEF Receive
  <2>1. PICK maxId \in Larger(last, fibers[f].seen)..published :
          fibers' = [fibers EXCEPT ![f] =
              [@ EXCEPT !.next = last + 1, !.seen = maxId,
                        !.batch = [first |-> fibers[f].next, last |-> last, maxId |-> maxId]]]
    BY <2>0
  <2>2. fibers[f] \in Fiber /\ fibers[f].next \in 1..MaxEvents + 1 /\ fibers[f].seen \in 0..MaxEvents
    BY DEF Fiber, Indices
  <2>3. last \in 1..MaxEvents /\ maxId \in 0..MaxEvents
    BY <1>0, <2>2 DEF Larger
  <2>4. [first |-> fibers[f].next, last |-> last, maxId |-> maxId] \in Batch
    BY <1>0, <2>2, <2>3 DEF Batch, Indices
  <2>5. fibers' \in [Starts -> Fiber]
    <3>1. [fibers[f] EXCEPT !.next = last + 1, !.seen = maxId,
             !.batch = [first |-> fibers[f].next, last |-> last, maxId |-> maxId]] \in Fiber
      <4>1. last + 1 \in 1..MaxEvents + 1 /\ maxId \in Indices
        BY <1>0, <2>3 DEF Indices
      <4> QED BY <2>2, <2>4, <4>1, ReceivedType
    <3> QED BY <2>1, <3>1
  <2> QED BY <1>5, <2>5 DEF Receive
<1>6. ASSUME NEW f \in Starts, StreamFails(f) PROVE TypeOK'
  <2>0. fibers[f] \in Fiber
    OBVIOUS
  <2>1. [fibers[f] EXCEPT !.phase = "waiting", !.batch = NoBatch] \in Fiber
    BY <2>0, NoBatchType DEF Fiber
  <2>2. fibers' = [fibers EXCEPT ![f] = [fibers[f] EXCEPT !.phase = "waiting", !.batch = NoBatch]]
    BY <1>6 DEF StreamFails
  <2>3. fibers' \in [Starts -> Fiber]
    BY <2>1, <2>2
  <2> QED BY <1>0, <1>6, <2>3 DEF StreamFails, Fault
<1>7. ASSUME NEW f \in Starts, Completes(f) PROVE TypeOK'
  <2>0. fibers[f] \in Fiber
    OBVIOUS
  <2>1. [fibers[f] EXCEPT !.phase = "ended"] \in Fiber
    BY <2>0 DEF Fiber
  <2>2. fibers' = [fibers EXCEPT ![f] = [fibers[f] EXCEPT !.phase = "ended"]]
    BY <1>7 DEF Completes
  <2>3. fibers' \in [Starts -> Fiber]
    BY <2>1, <2>2
  <2> QED BY <1>0, <1>7, <2>3 DEF Completes, Fault
<1>8. ASSUME NEW f \in Starts, Apply(f) PROVE TypeOK'
  <2>1. fibers[f].batch \in Batch /\ fibers[f].batch.maxId \in Indices
    BY DEF Fiber, Batch
  <2>2. wallet' \in Wallet
    BY <1>8, <2>1, ApplyType DEF Apply
  <2>3. fibers' \in [Starts -> Fiber]
    <3>1. [fibers[f] EXCEPT !.batch = NoBatch] \in Fiber
      BY NoBatchType DEF Fiber
    <3>2. fibers' = [fibers EXCEPT ![f] = [fibers[f] EXCEPT !.batch = NoBatch]]
      BY <1>8 DEF Apply
    <3> QED BY <3>1, <3>2
  <2>4. looking' \subseteq Events /\ learned' \in Indices
    BY <1>0, <1>8, <2>1 DEF Apply, Changes, Larger
  <2> QED BY <1>8, <2>2, <2>3, <2>4 DEF Apply
<1>9. ASSUME NEW i \in Events, Record(i) PROVE TypeOK'
  BY <1>9 DEF Record
<1>10. ASSUME NEW i \in Events, GiveUp(i) PROVE TypeOK'
  BY <1>0, <1>10 DEF GiveUp, Fault
<1>11. CASE UNCHANGED vars
  BY <1>11 DEF vars
<1> HIDE DEF TypeOK
<1> QED BY <1>1, <1>2, <1>3, <1>4, <1>5, <1>6, <1>7, <1>8, <1>9, <1>10, <1>11 DEF Next

\* Every variable keeps its type, for every instance.
THEOREM SyncTypeCorrect == Spec => []TypeOK
<1> QED BY SyncTypeInit, SyncTypeNext, PTL DEF Spec

-----------------------------------------------------------------------------
(* The inductive invariant                                                 *)

\* A stream begins at most one above the applied index.
Aligned(f) ==
  IF IsEmpty(fibers[f].batch)
  THEN fibers[f].next <= wallet.applied + 1
  ELSE /\ fibers[f].batch.first <= wallet.applied + 1
       /\ fibers[f].next = fibers[f].batch.last + 1

StreamsAligned == \A f \in Starts : fibers[f].phase = "streaming" => Aligned(f)

\* The snapshot is an earlier state of the wallet.
SavedEarlier ==
  /\ saved.applied <= wallet.applied
  /\ saved.replayed = [i \in 1..saved.applied |-> i]

SyncInv == TypeOK /\ ExactlyOnce /\ StreamsAligned /\ SavedEarlier /\ HistoryCovers

LEMMA SyncInvInit == Init => SyncInv
<1> SUFFICES ASSUME Init PROVE SyncInv
  OBVIOUS
<1>1. TypeOK
  BY SyncTypeInit
<1>2. wallet.applied = 0 /\ wallet.replayed = <<>> /\ saved.applied = 0 /\ saved.replayed = <<>>
  BY DEF Init, Blank
<1>3. <<>> = [i \in 1..0 |-> i]
  OBVIOUS
<1>4. \A i \in Relevant : ~(i <= 0)
  BY EventSyncAssumption
<1>5. StreamsAligned
  BY DEF Init, StreamsAligned, Idle
<1> QED BY <1>1, <1>2, <1>3, <1>4, <1>5 DEF SyncInv, ExactlyOnce, SavedEarlier, HistoryCovers

LEMMA SyncInvNext == SyncInv /\ [Next]_vars => SyncInv'
<1> SUFFICES ASSUME SyncInv, [Next]_vars PROVE SyncInv'
  OBVIOUS
<1>0. TypeOK /\ ExactlyOnce /\ StreamsAligned /\ SavedEarlier /\ HistoryCovers /\ TypeOK'
  BY SyncTypeNext DEF SyncInv
<1>a. /\ wallet \in Wallet /\ wallet.applied \in Nat /\ saved.applied \in Nat
      /\ \A f \in Starts : fibers[f] \in Fiber /\ fibers[f].batch \in Batch /\ fibers[f].next \in Nat
      /\ Relevant \subseteq Nat
  <2>1. wallet \in Wallet /\ saved.applied \in Nat
    BY <1>0 DEF TypeOK, Indices
  <2>2. wallet.applied \in Nat
    BY <2>1 DEF Wallet, Indices
  <2>3. \A f \in Starts : fibers[f] \in Fiber
    BY <1>0 DEF TypeOK
  <2>4. \A f \in Starts : fibers[f].batch \in Batch /\ fibers[f].next \in Nat
    BY <2>3, EventSyncAssumption DEF Fiber
  <2> QED BY <2>1, <2>2, <2>3, <2>4, EventSyncAssumption
<1>1. ASSUME UNCHANGED <<wallet, fibers, saved>>,
             looking \cup recorded \cup lost \subseteq looking' \cup recorded' \cup lost'
      PROVE  SyncInv'
  BY <1>0, <1>1 DEF SyncInv, ExactlyOnce, StreamsAligned, Aligned, SavedEarlier, HistoryCovers
<1>2. CASE Serialize
  <2>1. wallet' = wallet /\ fibers' = fibers /\ UNCHANGED <<looking, recorded, lost>>
        /\ saved'.applied = wallet.applied /\ saved'.replayed = wallet.replayed
    BY <1>2 DEF Serialize
  <2> QED
    BY <1>0, <1>a, <2>1
    DEF SyncInv, ExactlyOnce, StreamsAligned, Aligned, SavedEarlier, HistoryCovers
<1>3. CASE Restart
  <2>1. /\ wallet'.applied = saved.applied /\ wallet'.replayed = saved.replayed /\ saved' = saved
        /\ looking' = {} /\ recorded' = recorded
        /\ lost' = lost \cup {i \in looking : i <= saved.applied}
    BY <1>3 DEF Restart
  <2>2. StreamsAligned'
    BY <1>3 DEF Restart, StreamsAligned, Idle
  <2>3. HistoryCovers'
    BY <1>0, <1>a, <2>1 DEF HistoryCovers, SavedEarlier
  <2> QED BY <1>0, <1>a, <2>1, <2>2, <2>3 DEF SyncInv, ExactlyOnce, SavedEarlier
<1>4. ASSUME NEW f \in Starts,
             UNCHANGED <<wallet, saved, looking, recorded, lost>>,
             NEW new \in Fiber, fibers' = [fibers EXCEPT ![f] = new],
             \/ new.phase # "streaming"
             \/ IsEmpty(new.batch) /\ new.next <= wallet.applied + 1
             \/ /\ ~IsEmpty(new.batch) /\ new.batch.first <= wallet.applied + 1
                /\ new.next = new.batch.last + 1
      PROVE  SyncInv'
  <2>1. StreamsAligned'
    BY <1>0, <1>4 DEF TypeOK, StreamsAligned, Aligned
  <2> QED BY <1>0, <1>4, <2>1 DEF SyncInv, ExactlyOnce, SavedEarlier, HistoryCovers
<1>5. ASSUME NEW f \in Starts, Start(f) \/ Retry(f) PROVE SyncInv'
  <2> DEFINE new == Subscribe(wallet.applied)
  <2>1. /\ new \in Fiber /\ new.batch = NoBatch /\ new.next <= wallet.applied + 1
    BY <1>0, SubscribeFacts DEF TypeOK, Wallet
  <2>2. fibers' = [fibers EXCEPT ![f] = new] /\ UNCHANGED <<wallet, saved, looking, recorded, lost>>
    BY <1>5 DEF Start, Retry
  <2> HIDE DEF new
  <2> QED BY <1>4, <2>1, <2>2, NoBatchType
<1>6. ASSUME NEW f \in Starts, Receive(f) PROVE SyncInv'
  <2>1. PICK last \in fibers[f].next..published :
          \E maxId \in Larger(last, fibers[f].seen)..published :
            fibers' = [fibers EXCEPT ![f] =
              [@ EXCEPT !.next = last + 1, !.seen = maxId,
                        !.batch = [first |-> fibers[f].next, last |-> last, maxId |-> maxId]]]
    BY <1>6 DEF Receive
  <2>2. PICK maxId \in Larger(last, fibers[f].seen)..published :
          fibers' = [fibers EXCEPT ![f] =
              [@ EXCEPT !.next = last + 1, !.seen = maxId,
                        !.batch = [first |-> fibers[f].next, last |-> last, maxId |-> maxId]]]
    BY <2>1
  <2> DEFINE new == [fibers[f] EXCEPT !.next = last + 1, !.seen = maxId,
                        !.batch = [first |-> fibers[f].next, last |-> last, maxId |-> maxId]]
  <2>3. fibers' = [fibers EXCEPT ![f] = new]
    BY <2>2
  <2>4. fibers[f].phase = "streaming" /\ IsEmpty(fibers[f].batch)
        /\ UNCHANGED <<wallet, saved, looking, recorded, lost>>
    BY <1>6 DEF Receive
  <2>5. fibers[f].next <= wallet.applied + 1
    BY <1>0, <2>4 DEF StreamsAligned, Aligned
  <2>6. new.batch.first = fibers[f].next /\ new.batch.last = last /\ new.next = last + 1
    BY <1>a DEF Fiber
  <2>7. ~IsEmpty(new.batch)
    BY <1>a, <2>6 DEF IsEmpty
  <2>8. new \in Fiber
    BY <1>0, <2>3 DEF TypeOK
  <2> HIDE DEF new
  <2> QED BY <1>4, <2>3, <2>4, <2>5, <2>6, <2>7, <2>8
<1>7. ASSUME NEW f \in Starts, StreamFails(f) \/ Completes(f) PROVE SyncInv'
  <2>1. PICK new \in Fiber : fibers' = [fibers EXCEPT ![f] = new] /\ new.phase # "streaming"
    <3>1. CASE StreamFails(f)
      <4> DEFINE new == [fibers[f] EXCEPT !.phase = "waiting", !.batch = NoBatch]
      <4>1. new \in Fiber /\ new.phase # "streaming"
        BY <1>a, NoBatchType DEF Fiber
      <4>2. fibers' = [fibers EXCEPT ![f] = new]
        BY <3>1 DEF StreamFails
      <4> QED BY <4>1, <4>2
    <3>2. CASE Completes(f)
      <4> DEFINE new == [fibers[f] EXCEPT !.phase = "ended"]
      <4>1. new \in Fiber /\ new.phase # "streaming"
        BY <1>a DEF Fiber
      <4>2. fibers' = [fibers EXCEPT ![f] = new]
        BY <3>2 DEF Completes
      <4> QED BY <4>1, <4>2
    <3> QED BY <1>7, <3>1, <3>2
  <2>2. UNCHANGED <<wallet, saved, looking, recorded, lost>>
    BY <1>7 DEF StreamFails, Completes
  <2> QED BY <1>4, <2>1, <2>2
<1>8. ASSUME NEW f \in Starts, Apply(f) PROVE SyncInv'
  <2> DEFINE b == fibers[f].batch
             top == Larger(wallet.applied, b.last)
  <2>1. /\ fibers[f].phase = "streaming" /\ ~IsEmpty(b) /\ b \in Batch
        /\ b.first <= wallet.applied + 1 /\ fibers[f].next = b.last + 1
        /\ b.last \in Nat /\ b.first \in Nat
    BY <1>0, <1>8, <1>a DEF Apply, StreamsAligned, Aligned, Batch, Indices
  <2>2. /\ wallet' = ApplyUpdate(wallet, b) /\ looking' = looking \cup Changes(wallet, b)
        /\ fibers' = [fibers EXCEPT ![f] = [fibers[f] EXCEPT !.batch = NoBatch]]
        /\ UNCHANGED <<recorded, lost, saved>>
    BY <1>8 DEF Apply
  <2>3. wallet'.applied = top /\ wallet'.replayed = [i \in 1..top |-> i]
    BY <1>0, <1>a, <2>1, <2>2, FreshFacts DEF ExactlyOnce, ApplyUpdate
  <2>4. top \in Nat /\ wallet.applied <= top /\ b.last <= top
    BY <1>a, <2>1 DEF Larger
  <2>5. StreamsAligned'
    <3>1. ASSUME NEW g \in Starts, fibers'[g].phase = "streaming" PROVE Aligned(g)'
      <4>1. CASE g = f
        <5>1. fibers'[g].batch = NoBatch /\ fibers'[g].next = b.last + 1
          BY <1>0, <1>a, <2>1, <2>2, <4>1 DEF TypeOK, Fiber
        <5> QED BY <5>1, <2>1, <2>3, <2>4, NoBatchType DEF Aligned
      <4>2. CASE g # f
        <5>1. fibers'[g] = fibers[g]
          BY <1>0, <2>2, <4>2 DEF TypeOK
        <5>2. Aligned(g)
          BY <1>0, <3>1, <5>1 DEF StreamsAligned
        <5>3. fibers[g].next \in Nat /\ fibers[g].batch.first \in Nat
          BY <1>a DEF Batch
        <5> HIDE DEF top
        <5> QED BY <1>a, <2>3, <2>4, <5>1, <5>2, <5>3 DEF Aligned
      <4> QED BY <4>1, <4>2
    <3> QED BY <3>1 DEF StreamsAligned
  <2>6. HistoryCovers'
    <3>1. ASSUME NEW i \in Relevant, i <= top PROVE i \in looking' \cup recorded' \cup lost'
      <4>1. CASE i <= wallet.applied
        BY <1>0, <2>2, <4>1 DEF HistoryCovers
      <4>2. CASE ~(i <= wallet.applied)
        BY <1>a, <2>1, <2>2, <3>1, <4>2 DEF Changes, Larger
      <4> QED BY <4>1, <4>2
    <3> QED BY <2>3, <3>1 DEF HistoryCovers
  <2>7. ExactlyOnce' /\ SavedEarlier'
    BY <1>0, <1>a, <2>2, <2>3, <2>4 DEF ExactlyOnce, SavedEarlier
  <2> QED BY <1>0, <2>5, <2>6, <2>7 DEF SyncInv
<1>9. CASE Publish
  BY <1>1, <1>9 DEF Publish
<1>10. ASSUME NEW i \in Events, Record(i) \/ GiveUp(i) PROVE SyncInv'
  <2>1. UNCHANGED <<wallet, fibers, saved>>
    BY <1>10 DEF Record, GiveUp
  <2>2. looking \cup recorded \cup lost \subseteq looking' \cup recorded' \cup lost'
    BY <1>10 DEF Record, GiveUp
  <2> QED BY <1>1, <2>1, <2>2
<1>11. CASE UNCHANGED vars
  BY <1>1, <1>11 DEF vars
<1> QED BY <1>2, <1>3, <1>5, <1>6, <1>7, <1>8, <1>9, <1>10, <1>11 DEF Next

\* No event is replayed twice or skipped, whatever fibers, retries and
\* restores do.
THEOREM EveryEventOnce == Spec => []ExactlyOnce
<1>1. SyncInv => ExactlyOnce
  BY DEF SyncInv
<1> QED BY <1>1, SyncInvInit, SyncInvNext, PTL DEF Spec

\* No relevant event is missing from the history but by a lookup that was
\* given up or cut off.
THEOREM HistoryIsCovered == Spec => []HistoryCovers
<1>1. SyncInv => HistoryCovers
  BY DEF SyncInv
<1> QED BY <1>1, SyncInvInit, SyncInvNext, PTL DEF Spec

-----------------------------------------------------------------------------
(* What a wallet that is synced by one fiber has heard                     *)

\* The fiber's subscription has carried at least what the wallet learned, and
\* the tip is what it learned last.
HeardBy(f) ==
  /\ learned <= fibers[f].seen
  /\ ~IsEmpty(fibers[f].batch) => fibers[f].batch.maxId = fibers[f].seen

Alone == \A f, g \in Started : f = g

HonestInv ==
  /\ learned <= published
  /\ \A f \in Starts : fibers[f].batch.maxId <= published
  /\ Started = {} => ~wallet.connected
  /\ Alone => /\ wallet.connected => wallet.tip = learned
              /\ \A f \in Started : HeardBy(f)

LEMMA HonestInvInit == Init => HonestInv
BY EventSyncAssumption
DEF Init, HonestInv, Started, Blank, Idle, NoBatch, HeardBy

LEMMA HonestInvNext == TypeOK /\ HonestInv /\ [Next]_vars => HonestInv'
<1> SUFFICES ASSUME TypeOK, HonestInv, [Next]_vars PROVE HonestInv'
  OBVIOUS
<1>0. /\ learned \in Nat /\ published \in Nat
      /\ fibers \in [Starts -> Fiber]
      /\ \A f \in Starts : fibers[f] \in Fiber /\ fibers[f].batch \in Batch
                           /\ fibers[f].seen \in Nat /\ fibers[f].batch.maxId \in Nat
  <2>1. \A f \in Starts : fibers[f] \in Fiber
    BY DEF TypeOK
  <2>2. \A f \in Starts : fibers[f].batch \in Batch /\ fibers[f].seen \in Nat
    BY <2>1 DEF Fiber, Indices
  <2>3. \A f \in Starts : fibers[f].batch.maxId \in Nat
    BY <2>2 DEF Batch, Indices
  <2> QED BY <2>1, <2>2, <2>3 DEF TypeOK, Indices
<1>1. ASSUME UNCHANGED <<wallet, fibers, learned>>, published <= published', published' \in Nat
      PROVE  HonestInv'
  BY <1>0, <1>1 DEF HonestInv, Started, Alone, HeardBy
\* A step of one fiber that neither applies nor subscribes.
<1>2. ASSUME NEW f \in Started, UNCHANGED <<wallet, learned, published>>,
             NEW new \in Fiber, fibers' = [fibers EXCEPT ![f] = new],
             new.phase # "off", fibers[f].seen <= new.seen, new.batch.maxId <= published,
             ~IsEmpty(new.batch) => new.batch.maxId = new.seen
      PROVE  HonestInv'
  <2>1. Started' = Started
    BY <1>0, <1>2 DEF Started
  <2>2. fibers'[f] = new /\ \A g \in Starts \ {f} : fibers'[g] = fibers[g]
    BY <1>0, <1>2 DEF Started
  <2>3. new.seen \in Nat /\ f \in Starts
    BY <1>2 DEF Fiber, Indices, Started
  <2>4. Alone => HeardBy(f)'
    BY <1>0, <1>2, <2>2, <2>3 DEF HonestInv, HeardBy
  <2>5. Alone => \A g \in Started : g = f
    BY <1>2 DEF Alone
  <2>6. \A g \in Starts : fibers'[g].batch.maxId <= published'
    BY <1>2, <2>2 DEF HonestInv
  <2> QED BY <1>2, <2>1, <2>4, <2>5, <2>6 DEF HonestInv, Alone
<1>3. ASSUME NEW f \in Starts, Start(f) \/ Retry(f) PROVE HonestInv'
  <2> DEFINE new == Subscribe(wallet.applied)
  <2>1. /\ new \in Fiber /\ new.batch = NoBatch /\ new.seen = published /\ new.phase = "streaming"
    BY SubscribeFacts DEF TypeOK, Wallet
  <2>2. fibers' = [fibers EXCEPT ![f] = new] /\ UNCHANGED <<wallet, learned, published>>
    BY <1>3 DEF Start, Retry
  <2> HIDE DEF new
  <2>3. fibers'[f] = new /\ \A g \in Starts \ {f} : fibers'[g] = fibers[g]
    BY <1>0, <2>2
  <2>4. Started' = Started \cup {f}
    BY <1>0, <2>1, <2>3 DEF Started
  <2>5. HeardBy(f)'
    BY <1>0, <2>1, <2>2, <2>3, NoBatchType DEF HonestInv, HeardBy
  <2>6. Alone' => Alone /\ \A g \in Started' : g = f
    BY <2>4 DEF Alone
  <2>7. \A g \in Starts : fibers'[g].batch.maxId <= published'
    BY <1>0, <2>1, <2>2, <2>3 DEF HonestInv, NoBatch
  <2> QED BY <2>2, <2>4, <2>5, <2>6, <2>7 DEF HonestInv
<1>4. ASSUME NEW f \in Starts, Receive(f) PROVE HonestInv'
  <2>1. PICK last \in fibers[f].next..published :
          \E maxId \in Larger(last, fibers[f].seen)..published :
            fibers' = [fibers EXCEPT ![f] =
              [@ EXCEPT !.next = last + 1, !.seen = maxId,
                        !.batch = [first |-> fibers[f].next, last |-> last, maxId |-> maxId]]]
    BY <1>4 DEF Receive
  <2>2. PICK maxId \in Larger(last, fibers[f].seen)..published :
          fibers' = [fibers EXCEPT ![f] =
              [@ EXCEPT !.next = last + 1, !.seen = maxId,
                        !.batch = [first |-> fibers[f].next, last |-> last, maxId |-> maxId]]]
    BY <2>1
  <2> DEFINE new == [fibers[f] EXCEPT !.next = last + 1, !.seen = maxId,
                        !.batch = [first |-> fibers[f].next, last |-> last, maxId |-> maxId]]
  <2>3. fibers' = [fibers EXCEPT ![f] = new] /\ UNCHANGED <<wallet, learned, published>>
    BY <1>4, <2>2 DEF Receive
  <2>4. new.seen = maxId /\ new.batch.maxId = maxId /\ new.phase = fibers[f].phase
    BY <1>0 DEF Fiber
  <2>5. new \in Fiber
    BY <1>0, <2>3, SyncTypeNext DEF TypeOK
  <2>6. fibers[f].phase = "streaming" /\ f \in Started
    BY <1>4 DEF Receive, Started
  <2>7. fibers[f].next \in Nat
    BY <1>0, EventSyncAssumption DEF Fiber
  <2>8. fibers[f].seen <= maxId /\ maxId <= published
    BY <1>0, <2>7 DEF Larger
  <2> HIDE DEF new
  <2> QED BY <1>2, <2>3, <2>4, <2>5, <2>6, <2>8
<1>5. ASSUME NEW f \in Starts, StreamFails(f) \/ Completes(f) PROVE HonestInv'
  <2>1. f \in Started /\ UNCHANGED <<wallet, learned, published>>
    BY <1>5 DEF StreamFails, Completes, Started
  <2>2. PICK new \in Fiber :
          /\ fibers' = [fibers EXCEPT ![f] = new] /\ new.phase # "off"
          /\ new.seen = fibers[f].seen /\ IsEmpty(new.batch)
          /\ new.batch.maxId <= published
    <3>1. CASE StreamFails(f)
      <4> DEFINE new == [fibers[f] EXCEPT !.phase = "waiting", !.batch = NoBatch]
      <4>1. /\ new \in Fiber /\ new.phase # "off" /\ new.seen = fibers[f].seen
            /\ IsEmpty(new.batch) /\ new.batch.maxId = 0
        BY <1>0, NoBatchType DEF Fiber, NoBatch
      <4>2. fibers' = [fibers EXCEPT ![f] = new]
        BY <3>1 DEF StreamFails
      <4> HIDE DEF new
      <4>3. new.batch.maxId <= published
        BY <1>0, <4>1
      <4>4. /\ fibers' = [fibers EXCEPT ![f] = new] /\ new.phase # "off"
            /\ new.seen = fibers[f].seen /\ IsEmpty(new.batch) /\ new.batch.maxId <= published
        BY <4>1, <4>2, <4>3
      <4> QED BY <4>1, <4>4, Zenon
    <3>2. CASE Completes(f)
      <4> DEFINE new == [fibers[f] EXCEPT !.phase = "ended"]
      <4>0. new \in Fiber
        BY <1>0 DEF Fiber
      <4>1. /\ new.phase # "off" /\ new.seen = fibers[f].seen
            /\ new.batch = fibers[f].batch
        BY <1>0 DEF Fiber
      <4>2. fibers' = [fibers EXCEPT ![f] = new] /\ IsEmpty(fibers[f].batch)
        BY <3>2 DEF Completes
      <4>3. fibers[f].batch.maxId <= published
        BY DEF HonestInv
      <4>4. new.batch.maxId <= published /\ IsEmpty(new.batch)
        BY <4>1, <4>2, <4>3
      <4> HIDE DEF new
      <4> QED BY <4>0, <4>1, <4>2, <4>4
    <3> QED BY <1>5, <3>1, <3>2
  <2>3. fibers[f].seen <= new.seen
    BY <1>0, <2>2
  <2> QED BY <1>2, <2>1, <2>2, <2>3
<1>6. ASSUME NEW f \in Starts, Apply(f) PROVE HonestInv'
  <2> DEFINE b == fibers[f].batch
             new == [fibers[f] EXCEPT !.batch = NoBatch]
  <2>1. /\ f \in Started /\ ~IsEmpty(b) /\ published' = published
        /\ wallet'.tip = b.maxId /\ learned' = Larger(learned, b.maxId)
        /\ fibers' = [fibers EXCEPT ![f] = new]
    BY <1>6 DEF Apply, Started, ApplyUpdate
  <2>2. new.batch = NoBatch /\ new.seen = fibers[f].seen /\ new.phase = fibers[f].phase
    BY <1>0 DEF Fiber
  <2> HIDE DEF new
  <2>3. fibers'[f] = new /\ \A g \in Starts \ {f} : fibers'[g] = fibers[g]
    BY <1>0, <2>1
  <2>4. Started' = Started
    BY <1>0, <2>1, <2>2, <2>3 DEF Started
  <2>5. b.maxId <= published /\ b.maxId \in Nat
    BY <1>0 DEF HonestInv
  <2>6. learned' <= published'
    BY <1>0, <2>1, <2>5 DEF HonestInv, Larger
  <2>7. Alone => learned' = b.maxId /\ b.maxId = fibers[f].seen
    BY <1>0, <2>1, <2>5 DEF HonestInv, HeardBy, Larger
  <2>8. Alone => HeardBy(f)'
    BY <2>2, <2>3, <2>5, <2>7, NoBatchType DEF HeardBy
  <2>9. Alone => \A g \in Started : g = f
    BY <2>1 DEF Alone
  <2>10. \A g \in Starts : fibers'[g].batch.maxId <= published'
    BY <1>0, <2>1, <2>2, <2>3 DEF HonestInv, NoBatch
  <2>11. Started' # {}
    BY <2>1, <2>4
  <2> QED BY <2>1, <2>4, <2>6, <2>7, <2>8, <2>9, <2>10, <2>11 DEF HonestInv, Alone
<1>7. CASE Restart
  <2>1. /\ wallet'.connected = FALSE /\ fibers' = [f \in Starts |-> Idle]
        /\ learned' = 0 /\ published' = published
    BY <1>7 DEF Restart
  <2>2. Started' = {}
    BY <2>1 DEF Started, Idle
  <2>3. \A f \in Starts : fibers'[f].batch.maxId <= published'
    BY <1>0, <2>1 DEF Idle, NoBatch
  <2> QED BY <1>0, <2>1, <2>2, <2>3 DEF HonestInv
<1>8. CASE Publish
  BY <1>0, <1>1, <1>8 DEF Publish
<1>9. CASE Serialize \/ UNCHANGED vars
  BY <1>0, <1>1, <1>9 DEF Serialize, vars
<1>10. ASSUME NEW i \in Events, Record(i) \/ GiveUp(i) PROVE HonestInv'
  BY <1>0, <1>1, <1>10 DEF Record, GiveUp
<1> QED BY <1>3, <1>4, <1>5, <1>6, <1>7, <1>8, <1>9, <1>10 DEF Next

\* One fiber never makes a wallet call itself synced below what it has heard.
THEOREM SyncedOnlyAtTheTip == Spec => []SyncedIsHonest
<1>1. HonestInv => SyncedIsHonest
  BY DEF HonestInv, SyncedIsHonest, Alone
<1> QED BY <1>1, SyncTypeInit, SyncTypeNext, HonestInvInit, HonestInvNext, PTL DEF Spec

-----------------------------------------------------------------------------
(* Runtime                                                                 *)

USE DEF OffTrack

-----------------------------------------------------------------------------
(* Changes and sequences of changes                                        *)

\* The three kinds of change and what they carry.
LEMMA ChangeKinds ==
  ASSUME NEW c \in Change
  PROVE  \/ c.kind = "state" /\ c.state \in State
         \/ c.kind = "version" /\ c.version \in Versions
         \/ c.kind = "next"
  BY DEF Change, StateChange, VersionChange, NextVersion

\* Building a change.
LEMMA ChangeMade ==
  /\ \A s \in State : /\ StateChange(s) \in Change /\ StateChange(s).kind = "state"
                      /\ StateChange(s).state = s
  /\ \A v \in Versions : /\ VersionChange(v) \in Change /\ VersionChange(v).kind = "version"
                         /\ VersionChange(v).version = v
  /\ NextVersion \in Change /\ NextVersion.kind = "next"
  BY DEF Change, StateChange, VersionChange, NextVersion

\* The first change of a stream and those after it.
LEMMA TakenStream ==
  ASSUME NEW ch \in Seq(Change), ch # <<>>
  PROVE  /\ Head(ch) \in Change /\ Head(ch) = ch[1] /\ Len(ch) \in Nat /\ Len(ch) >= 1
         /\ Tail(ch) \in Seq(Change) /\ Len(Tail(ch)) = Len(ch) - 1
         /\ \A i \in 1..Len(Tail(ch)) : Tail(ch)[i] = ch[i + 1]
  OBVIOUS

\* What a write adds to a stream: the state, and its version if that is new.
LEMMA WrittenStream ==
  ASSUME NEW ch \in Seq(Change), NEW old \in State, NEW new \in State
  PROVE  LET d == ch \o ChangesOf(old, new)
             n == Len(ch)
         IN  /\ d \in Seq(Change) /\ n \in Nat
             /\ \A i \in 1..n : d[i] = ch[i]
             /\ d[n + 1] = StateChange(new)
             /\ old.version = new.version => Len(d) = n + 1
             /\ old.version # new.version =>
                  Len(d) = n + 2 /\ d[n + 2] = VersionChange(new.version)
<1>1. new.version \in Versions
  BY DEF State
<1>2. /\ StateChange(new) \in Change /\ VersionChange(new.version) \in Change
  BY <1>1, ChangeMade
<1>3. CASE old.version = new.version
  <2>1. ChangesOf(old, new) = <<StateChange(new)>>
    BY <1>3 DEF ChangesOf
  <2>2. /\ <<StateChange(new)>> \in Seq(Change) /\ Len(<<StateChange(new)>>) = 1
        /\ <<StateChange(new)>>[1] = StateChange(new)
    BY <1>2
  <2> DEFINE e == <<StateChange(new)>>
  <2> HIDE DEF e
  <2>3. e \in Seq(Change) /\ Len(e) = 1 /\ e[1] = StateChange(new)
    BY <2>2 DEF e
  <2>4. LET d == ch \o e
        IN  /\ d \in Seq(Change) /\ Len(d) = Len(ch) + Len(e)
            /\ \A i \in 1..Len(ch) + Len(e) : d[i] = IF i <= Len(ch) THEN ch[i]
                                                      ELSE e[i - Len(ch)]
    BY ONLY <2>3, ConcatProperties, ch \in Seq(Change)
  <2>5. Len(ch) \in Nat
    OBVIOUS
  <2>6. LET d == ch \o e
        IN  (\A i \in 1..Len(ch) : d[i] = ch[i]) /\ d[Len(ch) + 1] = e[1]
    BY <2>3, <2>4, <2>5
  <2>7. ChangesOf(old, new) = e
    BY <2>1 DEF e
  <2> QED BY <1>3, <2>3, <2>4, <2>5, <2>6, <2>7
<1>4. CASE old.version # new.version
  <2> DEFINE e == <<StateChange(new), VersionChange(new.version)>>
  <2>1. ChangesOf(old, new) = e
    BY <1>4 DEF ChangesOf
  <2>2. /\ e \in Seq(Change) /\ Len(e) = 2
        /\ e[1] = StateChange(new) /\ e[2] = VersionChange(new.version)
    BY <1>2
  <2> HIDE DEF e
  <2>3. LET d == ch \o e
        IN  /\ d \in Seq(Change) /\ Len(d) = Len(ch) + Len(e)
            /\ \A i \in 1..Len(ch) + Len(e) : d[i] = IF i <= Len(ch) THEN ch[i]
                                                      ELSE e[i - Len(ch)]
    BY ONLY <2>2, ConcatProperties, ch \in Seq(Change)
  <2>4. Len(ch) \in Nat
    OBVIOUS
  <2>5. LET d == ch \o e
        IN  /\ \A i \in 1..Len(ch) : d[i] = ch[i]
            /\ d[Len(ch) + 1] = e[1] /\ d[Len(ch) + 2] = e[2]
    BY <2>2, <2>3, <2>4
  <2> QED BY <1>4, <2>1, <2>2, <2>3, <2>4, <2>5
<1> QED BY <1>3, <1>4

-----------------------------------------------------------------------------
(* Type correctness                                                        *)

\* The next variant of one that is not the last.
LEMMA NextVariant ==
  /\ \A k \in Variants : k \in Nat /\ Since[k] \in Nat /\ Since[k] \in Versions
                         /\ NextActivation(k) \in Versions
  /\ \A k \in Variants : ~IsLast(k) => k + 1 \in Variants
  BY RuntimeAssumption DEF Variants, IsLast, NextActivation, Versions

\* Writing to a variant keeps references and changes well formed.
LEMMA WriteType ==
  ASSUME RuntimeTypeOK, NEW k \in Variants, NEW s \in State, Write(k, s)
  PROVE  ref' \in [Variants -> State] /\ changes' \in Seq(Change)
<1>1. ref' \in [Variants -> State]
  BY DEF RuntimeTypeOK, Write
<1>2. changes \o ChangesOf(ref[k], s) \in Seq(Change)
  BY WrittenStream DEF RuntimeTypeOK
<1>3. changes' \in Seq(Change)
  BY <1>2 DEF RuntimeTypeOK, Write
<1> QED BY <1>1, <1>3

\* Initial states have the right types.
LEMMA RuntimeInitType == RuntimeInit => RuntimeTypeOK
<1> SUFFICES ASSUME RuntimeInit PROVE RuntimeTypeOK
  OBVIOUS
<1>1. PICK k \in Variants, v \in Versions : StartVariant(k, [version |-> v, log |-> {}])
  BY DEF RuntimeInit
<1> DEFINE s == [version |-> v, log |-> {}]
<1>2. s \in State /\ s.version = v
  BY DEF State
<1> HIDE DEF s
<1>3. StartVariant(k, s)
  BY <1>1 DEF s
<1>4. Since[k] \in Versions
  BY NextVariant
<1>5. <<StateChange(s)>> \in Seq(Change)
  BY <1>2, ChangeMade
<1>6. /\ ref = [j \in Variants |-> s] /\ current = k /\ changes = <<StateChange(s)>>
      /\ scope = [j \in Variants |-> IF j = k THEN "open" ELSE "none"]
      /\ acc = [version |-> Since[k], last |-> s]
      /\ latest = [version |-> Since[k], state |-> s]
      /\ chainVersion = s.version /\ mishaps \subseteq {"misplaced"}
  BY <1>3 DEF StartVariant
<1>7. s.version \in Versions
  BY <1>2
<1>8. /\ ref \in [Variants -> State] /\ scope \in [Variants -> {"none", "open", "closed"}]
      /\ current \in Variants /\ changes \in Seq(Change) /\ chainVersion \in Versions
  BY <1>2, <1>5, <1>6, <1>7
<1>9. /\ acc \in [version: Versions, last: State]
      /\ latest \in [version: Versions, state: State]
  BY <1>2, <1>4, <1>6
<1>10. /\ syncing = {} /\ calls = [c \in Commands |-> NotSent] /\ phase = "following"
       /\ signals = 0 /\ late = {}
  BY DEF RuntimeInit
<1>11. signals \in 0..MaxSignals
  BY <1>10, RuntimeAssumption
<1>12. mishaps \in SUBSET {"misplaced", "next", "skipped", "start_error", "stopped_midway"}
  BY <1>6
<1> QED BY <1>8, <1>9, <1>10, <1>11, <1>12 DEF RuntimeTypeOK, Phases

\* Every step keeps the types.
LEMMA RuntimeNextType == RuntimeTypeOK /\ [RuntimeNext]_runtimeVars => RuntimeTypeOK'
<1> SUFFICES ASSUME RuntimeTypeOK, [RuntimeNext]_runtimeVars PROVE RuntimeTypeOK'
  OBVIOUS
<1> USE DEF RuntimeTypeOK
<1>1. ASSUME NEW v \in Versions, Upgrade(v) PROVE RuntimeTypeOK'
  BY <1>1 DEF Upgrade, variantVars, fiberVars
<1>2. CASE StartSyncInBackground
  BY <1>2 DEF StartSyncInBackground, fiberVars
<1>3. ASSUME NEW k \in Variants, SyncUpdate(k) PROVE RuntimeTypeOK'
  <2> DEFINE s == [ref[k] EXCEPT !.version = chainVersion]
  <2>1. s \in State
    BY DEF State
  <2>2. ref' \in [Variants -> State] /\ changes' \in Seq(Change)
    BY <1>3, <2>1, WriteType DEF SyncUpdate
  <2> QED BY <1>3, <2>2 DEF SyncUpdate
<1>4. CASE ReportNext
  <2>1. changes' \in Seq(Change)
    BY <1>4, ChangeMade DEF ReportNext
  <2>2. signals' \in 0..MaxSignals
    BY <1>4, RuntimeAssumption DEF ReportNext
  <2> QED BY <1>4, <2>1, <2>2 DEF ReportNext, variantVars
<1>5. ASSUME NEW c \in Commands, Dispatch(c) PROVE RuntimeTypeOK'
  BY <1>5 DEF Dispatch, variantVars, fiberVars
<1>6. ASSUME NEW c \in Commands, Execute(c) PROVE RuntimeTypeOK'
  <2> DEFINE k == calls[c]
             s == [ref[k] EXCEPT !.log = @ \cup {c}]
  <2>1. k \in Variants /\ s \in State
    BY <1>6 DEF Execute, State
  <2>2. ref' \in [Variants -> State] /\ changes' \in Seq(Change)
    <3>1. Write(k, s)
      BY <1>6 DEF Execute
    <3> HIDE DEF k, s
    <3> QED BY <2>1, <3>1, WriteType
  <2>3. late' \in SUBSET Commands /\ calls' \in [Commands -> Variants \cup {NotSent, Done}]
    BY <1>6 DEF Execute
  <2> QED BY <1>6, <2>2, <2>3 DEF Execute
<1>7. CASE TakeState
  <2>1. /\ Head(changes) \in Change /\ Tail(changes) \in Seq(Change)
        /\ Head(changes).kind = "state"
    BY <1>7, TakenStream DEF TakeState
  <2>2. Head(changes).state \in State
    BY <2>1, ChangeKinds
  <2>3. latest' \in [version: Versions, state: State] /\ acc' \in [version: Versions, last: State]
    BY <1>7, <2>2 DEF TakeState
  <2>4. changes' \in Seq(Change)
    BY <1>7, <2>1 DEF TakeState
  <2> QED BY <1>7, <2>3, <2>4 DEF TakeState, variantVars
<1>8. CASE TakeVersion
  <2> DEFINE c == Head(changes)
             v == NewVersion(c, current)
  <2>1. c \in Change /\ Tail(changes) \in Seq(Change)
    BY <1>8, TakenStream DEF TakeVersion
  <2>2. v \in Versions
    BY <2>1, ChangeKinds, NextVariant DEF NewVersion
  <2>3. acc' \in [version: Versions, last: State]
    <3>1. acc' = [acc EXCEPT !.version = v] \/ acc' = acc
      BY <1>8 DEF TakeVersion
    <3> HIDE DEF v
    <3> QED BY <2>2, <3>1
  <2>4. changes' \in Seq(Change) /\ phase' \in {"leaving", "following"}
    <3>1. /\ changes' = <<>> \/ changes' = Tail(changes)
          /\ phase' = "leaving" \/ phase' = phase
          /\ phase = "following"
      BY <1>8 DEF TakeVersion
    <3>2. <<>> \in Seq(Change)
      OBVIOUS
    <3> HIDE DEF c
    <3> QED BY <2>1, <3>1, <3>2
  <2>5. mishaps' \in SUBSET {"misplaced", "next", "skipped", "start_error", "stopped_midway"}
    <3>1. mishaps' = mishaps \cup {"skipped"} \/ mishaps' = mishaps
      BY <1>8 DEF TakeVersion
    <3> QED BY <3>1
  <2>6. UNCHANGED <<chainVersion, variantVars, current, calls, latest, signals, late>>
    BY <1>8 DEF TakeVersion
  <2> HIDE DEF c, v
  <2> QED BY <2>3, <2>4, <2>5, <2>6 DEF variantVars, Phases
<1>9. CASE CloseVariant
  BY <1>9 DEF CloseVariant, Phases
<1>10. CASE Migrate
  BY <1>10, NextVariant DEF Migrate, Phases
<1>11. CASE SetCurrent
  <2>0. current + 1 \in Variants
    BY <1>11, NextVariant DEF SetCurrent
  <2>1. <<StateChange(ref[current + 1])>> \in Seq(Change)
    BY <2>0, ChangeMade
  <2> QED BY <1>11, <2>0, <2>1 DEF SetCurrent, Phases, variantVars
<1>12. CASE MigrationFails
  BY <1>12 DEF MigrationFails, Phases, variantVars
<1>13. CASE Interrupt
  BY <1>13 DEF Interrupt, Phases, variantVars
<1>14. CASE CloseCurrent
  BY <1>14 DEF CloseCurrent, Phases
<1>15. CASE UNCHANGED runtimeVars
  BY <1>15 DEF runtimeVars, variantVars, fiberVars
<1> QED
  BY <1>1, <1>2, <1>3, <1>4, <1>5, <1>6, <1>7, <1>8, <1>9, <1>10, <1>11, <1>12, <1>13, <1>14,
     <1>15 DEF RuntimeNext, Follow

\* Every variable of the runtime keeps its type.
THEOREM RuntimeTypeCorrect == RuntimeSpec => []RuntimeTypeOK
<1> QED BY RuntimeInitType, RuntimeNextType, PTL DEF RuntimeSpec

-----------------------------------------------------------------------------
(* States in the stream                                                    *)

\* Taking the first change off a stream moves every position by one.
LEMMA TailBefore ==
  ASSUME NEW ch \in Seq(Change), ch # <<>>, NEW i \in 1..Len(ch), NEW p \in 0..Len(Tail(ch)),
         LastBefore(Tail(ch), i, p)
  PROVE  \E r \in 0..Len(ch) :
           /\ LastBefore(ch, i + 1, r)
           /\ \A last, newLast :
                /\ Head(ch).kind = "state" => newLast = Head(ch).state
                /\ Head(ch).kind # "state" => newLast = last
                => StateAt(ch, last, r) = StateAt(Tail(ch), newLast, p)
<1> USE DEF LastBefore, IsState, StateAt
<1>1. /\ Head(ch) = ch[1] /\ Len(ch) \in Nat /\ Len(ch) >= 1 /\ Len(Tail(ch)) = Len(ch) - 1
      /\ \A j \in 1..Len(ch) - 1 : Tail(ch)[j] = ch[j + 1]
  BY TakenStream
<1> DEFINE t == Tail(ch)
<1>2. /\ LastBefore(t, i, p) /\ p \in 0..Len(ch) - 1
      /\ \A j \in 1..Len(ch) - 1 : t[j] = ch[j + 1]
  BY <1>1
<1> HIDE DEF t
<1>3. \A q \in p + 2..i : ch[q].kind # "state"
  <2> SUFFICES ASSUME NEW q \in p + 2..i PROVE ch[q].kind # "state"
    OBVIOUS
  <2>1. q - 1 \in p + 1..i - 1 /\ q - 1 \in 1..Len(ch) - 1 /\ (q - 1) + 1 = q
    BY <1>1, <1>2
  <2>2. t[q - 1].kind # "state" /\ t[q - 1] = ch[q]
    BY <1>2, <2>1
  <2> QED BY <2>2
<1>4. CASE p # 0
  <2>1. p \in 1..Len(ch) - 1 /\ p + 1 \in 1..i /\ p + 1 \in 0..Len(ch)
    BY <1>1, <1>2, <1>4
  <2>2. t[p] = ch[p + 1] /\ t[p].kind = "state" /\ \A newLast : StateAt(t, newLast, p) = t[p].state
    BY <1>2, <1>4, <2>1
  <2>3. /\ LastBefore(ch, i + 1, p + 1)
        /\ \A last : StateAt(ch, last, p + 1) = ch[p + 1].state
    BY <1>3, <2>1, <2>2
  <2> QED BY <2>1, <2>2, <2>3 DEF t
<1>5. CASE p = 0 /\ Head(ch).kind = "state"
  <2>1. LastBefore(ch, i + 1, 1) /\ \A last : StateAt(ch, last, 1) = ch[1].state
    BY <1>1, <1>3, <1>5
  <2>2. \A newLast : StateAt(t, newLast, p) = newLast
    BY <1>1, <1>5
  <2> QED BY <1>1, <2>1, <2>2 DEF t
<1>6. CASE p = 0 /\ Head(ch).kind # "state"
  <2>1. \A q \in 1..i : ch[q].kind # "state"
    BY <1>1, <1>3, <1>6
  <2>2. LastBefore(ch, i + 1, 0) /\ \A last : StateAt(ch, last, 0) = last
    BY <1>1, <2>1
  <2>3. \A newLast : StateAt(t, newLast, p) = newLast
    BY <1>6
  <2> QED BY <1>1, <2>2, <2>3 DEF t
<1> QED BY <1>4, <1>5, <1>6

\* What is added to a stream leaves the positions before it alone.
LEMMA KeptBefore ==
  ASSUME NEW ch \in Seq(Change), NEW d \in Seq(Change), NEW n \in Nat, n <= Len(ch),
         \A j \in 1..n : d[j] = ch[j],
         NEW i \in 1..n + 1, NEW p \in Nat, NEW last, LastBefore(d, i, p)
  PROVE  p \in 0..Len(ch) /\ LastBefore(ch, i, p) /\ StateAt(ch, last, p) = StateAt(d, last, p)
  BY DEF LastBefore, IsState, StateAt

\* Right after a state, that is the last state.
LEMMA RightAfter ==
  ASSUME NEW d \in Seq(Change), NEW m \in Nat, m >= 1, d[m].kind = "state",
         NEW i \in Nat, i = m + 1 \/ (i = m + 2 /\ d[m + 1].kind # "state"),
         NEW p \in Nat, NEW last, LastBefore(d, i, p)
  PROVE  StateAt(d, last, p) = d[m].state
<1>1. p = m
  <2>1. p \in 0..i - 1 /\ (p = 0 \/ d[p].kind = "state")
        /\ \A q \in p + 1..i - 1 : d[q].kind # "state"
    BY DEF LastBefore, IsState
  <2>2. ~(p < m)
    BY <2>1
  <2> QED BY <2>1, <2>2
<1> QED BY <1>1 DEF StateAt

-----------------------------------------------------------------------------
(* The steps                                                               *)

\* A write to the variant that is being followed.
LEMMA WriteStream ==
  ASSUME RuntimeTypeOK, StreamInv, phase = "following",
         NEW s \in State, Write(current, s), ref[current].log \subseteq s.log,
         UNCHANGED <<phase, current, acc, latest, mishaps>>,
         Saved' \subseteq s.log,
         \/ Saved' \subseteq Saved
         \/ \A i \in DOMAIN changes : ~Leaves(changes[i], current)
  PROVE  StreamInv'
<1> DEFINE n == Len(changes)
           old == ref[current]
<1>1. /\ changes \in Seq(Change) /\ changes' \in Seq(Change) /\ current \in Variants
      /\ old \in State /\ n \in Nat /\ DOMAIN changes = 1..n
  BY WriteType DEF RuntimeTypeOK
<1>2. /\ changes' = changes \o ChangesOf(old, s) /\ ref' = [ref EXCEPT ![current] = s]
  BY DEF Write, Listening
<1>3. /\ \A i \in 1..n : changes'[i] = changes[i]
      /\ changes'[n + 1] = StateChange(s)
      /\ old.version = s.version => Len(changes') = n + 1
      /\ old.version # s.version =>
           Len(changes') = n + 2 /\ changes'[n + 2] = VersionChange(s.version)
  <2> HIDE DEF old
  <2> QED BY <1>1, <1>2, WrittenStream
<1>4. ref'[current'] = s
  BY <1>1, <1>2 DEF RuntimeTypeOK
<1>5. /\ s.version \in Versions
      /\ StateChange(s).kind = "state" /\ StateChange(s).state = s
      /\ VersionChange(s.version).kind = "version"
      /\ VersionChange(s.version).version = s.version
  BY DEF State, StateChange, VersionChange
<1> HIDE DEF n, old
<1> DEFINE m == Len(changes')
<1>6. DOMAIN changes' = 1..m /\ m \in Nat
  BY <1>1
<1>b. (m = n + 1 /\ old.version = s.version) \/ (m = n + 2 /\ old.version # s.version)
  BY <1>3
<1> HIDE DEF m
<1>a. n \in Nat /\ n + 1 \in Nat /\ (n + 1) + 1 = n + 2 /\ (n + 1) + 2 = n + 3
  BY <1>1
\* What holds of the positions before the write.
<1>7. ASSUME NEW i \in 1..n + 1, NEW p \in Nat, LastBefore(changes', i, p)
      PROVE  /\ p \in 0..n /\ LastBefore(changes, i, p)
             /\ StateAt(changes, acc.last, p) = StateAt(changes', acc.last, p)
  BY <1>1, <1>3, <1>7, KeptBefore DEF n
\* The last state is the one written.
<1>8. ASSUME NEW p \in Nat, NEW i \in Nat, i = n + 2 \/ i = n + 3, i <= m + 1,
             LastBefore(changes', i, p)
      PROVE  StateAt(changes', acc.last, p) = s
  <2> DEFINE k == n + 1
  <2>1. /\ k \in Nat /\ k >= 1 /\ i \in Nat /\ changes'[k].kind = "state"
        /\ changes'[k].state = s
    BY <1>a, <1>3, <1>5, <1>8
  <2>2. i = k + 1 \/ (i = k + 2 /\ changes'[k + 1].kind # "state")
    <3>1. CASE i = n + 2
      BY <1>a, <3>1
    <3>2. CASE i = n + 3
      <4>1. m = n + 2 /\ old.version # s.version
        BY <1>a, <1>b, <1>6, <1>8, <3>2
      <4>2. changes'[n + 2] = VersionChange(s.version)
        BY <1>3, <4>1
      <4>3. changes'[n + 2].kind # "state"
        BY <1>5, <4>2
      <4> QED BY <1>a, <3>2, <4>3
    <3> QED BY <1>8, <3>1, <3>2
  <2> HIDE DEF k
  <2>3. StateAt(changes', acc.last, p) = changes'[k].state
    BY <1>1, <1>8, <2>1, <2>2, RightAfter
  <2> QED BY <2>1, <2>3
<1>9. \A p \in 0..m : LastBefore(changes', m + 1, p) =>
        StateAt(changes', acc.last, p) = s
  <2> SUFFICES ASSUME NEW p \in 0..m, LastBefore(changes', m + 1, p)
               PROVE  StateAt(changes', acc.last, p) = s
    OBVIOUS
  <2>1. /\ p \in Nat /\ m + 1 \in Nat
        /\ m + 1 = n + 2 \/ m + 1 = n + 3
    BY <1>1, <1>b, <1>6
  <2> QED BY <1>8, <2>1
<1>10. ASSUME NEW i \in 1..m, NEW p \in 0..m, LastBefore(changes', i, p)
       PROVE  /\ Leaves(changes'[i], current) => Saved' \subseteq StateAt(changes', acc.last, p).log
              /\ changes'[i].kind = "version" =>
                   StateAt(changes', acc.last, p).version = changes'[i].version
  <2>1. i \in 1..n \/ i = n + 1 \/ (i = n + 2 /\ old.version # s.version)
    BY <1>1, <1>3, <1>b, <1>6
  <2>2. CASE i \in 1..n
    <3>1. /\ p \in 0..n /\ LastBefore(changes, i, p) /\ changes'[i] = changes[i]
          /\ StateAt(changes, acc.last, p) = StateAt(changes', acc.last, p)
      BY <1>1, <1>3, <1>b, <1>6, <1>7, <1>10, <2>2
    <3>2. /\ Leaves(changes[i], current) => Saved \subseteq StateAt(changes, acc.last, p).log
          /\ changes[i].kind = "version" =>
               StateAt(changes, acc.last, p).version = changes[i].version
      BY <1>1, <2>2, <3>1 DEF StreamInv, Surviving, n
    <3>3. Leaves(changes[i], current) => Saved' \subseteq Saved
      BY <1>1, <2>2
    <3> QED BY <3>1, <3>2, <3>3
  <2>3. CASE i = n + 1
    BY <1>3, <1>5, <2>3 DEF Leaves
  <2>4. CASE i = n + 2 /\ old.version # s.version
    <3>1. StateAt(changes', acc.last, p) = s
      BY <1>1, <1>b, <1>6, <1>8, <1>10, <2>4
    <3> QED BY <1>3, <1>5, <2>4, <3>1
  <2> QED BY <2>1, <2>2, <2>3, <2>4
<1>11. \A i \in 1..m : changes'[i].kind = "next" => "next" \in mishaps
  <2> SUFFICES ASSUME NEW i \in 1..m, changes'[i].kind = "next"
               PROVE  "next" \in mishaps
    OBVIOUS
  <2>1. i \in 1..n
    BY <1>1, <1>3, <1>5, <1>b, <1>6
  <2> QED BY <1>1, <1>3, <2>1 DEF StreamInv
<1>12. \E i \in 1..m : changes'[i].kind = "state"
  <2>1. n + 1 \in 1..m /\ changes'[n + 1].kind = "state"
    BY <1>1, <1>3, <1>5, <1>b, <1>6
  <2> QED BY <2>1
<1>13. \/ OffTrack
       \/ WithinRange(s.version, current)
       \/ \E i \in 1..m : Leaves(changes'[i], current)
  <2>1. CASE \E i \in 1..n : Leaves(changes[i], current)
    <3>1. PICK i \in 1..n : Leaves(changes[i], current)
      BY <2>1
    <3>2. i \in 1..m /\ Leaves(changes'[i], current)
      BY <1>1, <1>3, <1>b, <1>6, <3>1
    <3> QED BY <3>2
  <2>2. CASE old.version # s.version
    <3>1. n + 2 \in 1..m
      BY <1>a, <1>b, <1>6, <2>2
    <3>2. ~WithinRange(s.version, current) => Leaves(changes'[n + 2], current)
      BY <1>3, <1>5, <2>2 DEF Leaves
    <3> QED BY <3>1, <3>2
  <2>3. CASE old.version = s.version /\ ~\E i \in 1..n : Leaves(changes[i], current)
    BY <1>1, <2>3 DEF StreamInv, old
  <2> QED BY <2>1, <2>2, <2>3
<1>14. latest' # RuntimeError
  BY DEF StreamInv
<1> HIDE DEF Saved
<1> QED
  BY <1>4, <1>b, <1>6, <1>9, <1>10, <1>11, <1>12, <1>13, <1>14 DEF StreamInv, Surviving, m

\* A variant reports Next on the stream that is being followed.
LEMMA NextStream ==
  ASSUME RuntimeTypeOK, StreamInv, ReportNext
  PROVE  StreamInv'
<1> DEFINE n == Len(changes)
           d == Append(changes, NextVersion)
<1>1. /\ changes \in Seq(Change) /\ n \in Nat /\ DOMAIN changes = 1..n /\ phase = "following"
      /\ changes' = d
      /\ UNCHANGED <<ref, current, calls, phase, acc, latest, late>>
      /\ "next" \in mishaps'
  BY DEF RuntimeTypeOK, ReportNext, Listening, variantVars
<1>2. NextVersion \in Change /\ NextVersion.kind = "next"
  BY ChangeMade
<1>3. /\ d \in Seq(Change) /\ Len(d) = n + 1 /\ DOMAIN d = 1..n + 1
      /\ \A i \in 1..n : d[i] = changes[i]
      /\ d[n + 1] = NextVersion
  BY <1>1, <1>2
<1> HIDE DEF n, d
<1>4. ASSUME NEW i \in 1..n + 1, NEW p \in Nat, LastBefore(d, i, p)
      PROVE  /\ p \in 0..n /\ LastBefore(changes, i, p)
             /\ StateAt(changes, acc.last, p) = StateAt(d, acc.last, p)
  BY <1>1, <1>3, <1>4, KeptBefore DEF n
<1>5. \A p \in 0..n : LastBefore(changes, n + 1, p) =>
        StateAt(changes, acc.last, p) = ref[current]
  BY <1>1 DEF StreamInv, n
<1>6. ASSUME NEW p \in 0..n + 1, LastBefore(d, n + 2, p)
      PROVE  StateAt(d, acc.last, p) = ref[current]
  <2>1. LastBefore(d, n + 1, p) /\ p \in Nat
    BY <1>1, <1>2, <1>3, <1>6 DEF LastBefore, IsState
  <2>2. n + 1 \in 1..n + 1
    BY <1>1
  <2> QED BY <1>4, <1>5, <2>1, <2>2
<1>7. ASSUME NEW i \in 1..n + 1, NEW p \in 0..n + 1, LastBefore(d, i, p)
      PROVE  /\ Leaves(d[i], current) => Surviving(StateAt(d, acc.last, p))
             /\ d[i].kind = "version" => StateAt(d, acc.last, p).version = d[i].version
  <2>1. /\ p \in 0..n /\ LastBefore(changes, i, p)
        /\ StateAt(changes, acc.last, p) = StateAt(d, acc.last, p)
    BY <1>1, <1>4, <1>7
  <2>2. CASE i \in 1..n
    BY <1>1, <1>3, <2>1, <2>2 DEF StreamInv, n
  <2>3. CASE i = n + 1
    <3>1. StateAt(d, acc.last, p) = ref[current]
      BY <1>5, <2>1, <2>3
    <3>2. Surviving(ref[current])
      BY <1>1 DEF StreamInv
    <3> QED BY <1>2, <1>3, <2>3, <3>1, <3>2
  <2>4. i \in 1..n \/ i = n + 1
    BY <1>1
  <2> QED BY <2>2, <2>3, <2>4
<1>8. latest # RuntimeError /\ Surviving(ref[current])
  BY <1>1 DEF StreamInv
<1>9. \/ latest.state = acc.last
      \/ \E i \in 1..n + 1 : d[i].kind = "state"
  <2>1. \/ latest.state = acc.last
        \/ \E i \in 1..n : changes[i].kind = "state"
    BY <1>1 DEF StreamInv
  <2>2. ASSUME NEW i \in 1..n, changes[i].kind = "state"
        PROVE  \E j \in 1..n + 1 : d[j].kind = "state"
    <3>1. i \in 1..n + 1 /\ d[i].kind = "state"
      BY <1>1, <1>3, <2>2
    <3> QED BY <3>1
  <2> QED BY <2>1, <2>2
<1>10. (n + 1) + 1 = n + 2
  BY <1>1
<1>11. /\ Len(changes') = n + 1 /\ DOMAIN changes' = 1..n + 1 /\ Saved' = Saved
       /\ changes' = d
  BY <1>1, <1>3 DEF Saved
<1> HIDE DEF Saved
<1> QED
  BY <1>1, <1>6, <1>7, <1>8, <1>9, <1>10, <1>11 DEF StreamInv, Surviving

\* Taking a change that does not make the runtime leave the variant.
LEMMA TakenKeeps ==
  ASSUME RuntimeTypeOK, StreamInv, phase = "following", changes # <<>>,
         changes' = Tail(changes),
         Head(changes).kind = "state" => acc'.last = Head(changes).state,
         Head(changes).kind # "state" => acc'.last = acc.last,
         \/ Head(changes).kind = "state" /\ latest'.state = Head(changes).state
            /\ latest' # RuntimeError
         \/ Head(changes).kind # "state" /\ latest' = latest,
         ~Leaves(Head(changes), current),
         UNCHANGED <<ref, current, calls, phase, late, mishaps>>
  PROVE  StreamInv'
<1> DEFINE n == Len(changes)
           t == Tail(changes)
           kept == acc'.last
<1>1. /\ changes \in Seq(Change) /\ n \in Nat /\ n >= 1 /\ DOMAIN changes = 1..n
      /\ t \in Seq(Change) /\ Len(t) = n - 1 /\ DOMAIN t = 1..n - 1
      /\ \A i \in 1..n - 1 : t[i] = changes[i + 1]
      /\ Head(changes) = changes[1]
  BY TakenStream DEF RuntimeTypeOK
<1>2. ASSUME NEW i \in 1..n, NEW p \in 0..n - 1, LastBefore(t, i, p)
      PROVE  \E r \in 0..n : /\ LastBefore(changes, i + 1, r)
                             /\ StateAt(changes, acc.last, r) = StateAt(t, kept, p)
  <2>1. /\ Head(changes).kind = "state" => kept = Head(changes).state
        /\ Head(changes).kind # "state" => kept = acc.last
    OBVIOUS
  <2>2. /\ i \in 1..Len(changes) /\ p \in 0..Len(Tail(changes)) /\ LastBefore(Tail(changes), i, p)
        /\ changes \in Seq(Change) /\ changes # <<>>
    BY <1>1, <1>2
  <2> HIDE DEF kept
  <2>3. PICK r \in 0..Len(changes) :
          /\ LastBefore(changes, i + 1, r)
          /\ \A last, newLast :
               /\ Head(changes).kind = "state" => newLast = Head(changes).state
               /\ Head(changes).kind # "state" => newLast = last
               => StateAt(changes, last, r) = StateAt(Tail(changes), newLast, p)
    BY ONLY <2>2, TailBefore
  <2> QED BY <2>1, <2>3
<1> HIDE DEF n, t, kept
<1>3. ASSUME NEW p \in 0..n - 1, LastBefore(t, n, p)
      PROVE  StateAt(t, kept, p) = ref[current]
  <2>1. n \in 1..n
    BY <1>1
  <2>2. PICK r \in 0..n : /\ LastBefore(changes, n + 1, r)
                          /\ StateAt(changes, acc.last, r) = StateAt(t, kept, p)
    BY <1>2, <1>3, <2>1
  <2>3. \A q \in 0..n : LastBefore(changes, n + 1, q) =>
          StateAt(changes, acc.last, q) = ref[current]
    BY DEF StreamInv, n
  <2> QED BY <2>2, <2>3
<1>4. ASSUME NEW i \in 1..n - 1, NEW p \in 0..n - 1, LastBefore(t, i, p)
      PROVE  /\ Leaves(t[i], current) => Surviving(StateAt(t, kept, p))
             /\ t[i].kind = "version" => StateAt(t, kept, p).version = t[i].version
  <2>1. i \in 1..n /\ i + 1 \in 1..n /\ t[i] = changes[i + 1]
    BY <1>1
  <2>2. PICK r \in 0..n : /\ LastBefore(changes, i + 1, r)
                          /\ StateAt(changes, acc.last, r) = StateAt(t, kept, p)
    BY <1>2, <1>4, <2>1
  <2>3. /\ Leaves(changes[i + 1], current) => Surviving(StateAt(changes, acc.last, r))
        /\ changes[i + 1].kind = "version" =>
             StateAt(changes, acc.last, r).version = changes[i + 1].version
    BY <1>1, <2>1, <2>2 DEF StreamInv, n
  <2> QED BY <2>1, <2>2, <2>3
<1>5. \A i \in 1..n - 1 : t[i].kind = "next" => "next" \in mishaps
  <2> SUFFICES ASSUME NEW i \in 1..n - 1, t[i].kind = "next" PROVE "next" \in mishaps
    OBVIOUS
  <2>1. i + 1 \in DOMAIN changes /\ changes[i + 1].kind = "next"
    BY <1>1
  <2> QED BY <2>1 DEF StreamInv
<1>6. latest' # RuntimeError /\ Surviving(ref[current])
  BY DEF StreamInv
<1>7. \/ latest'.state = kept
      \/ \E i \in 1..n - 1 : t[i].kind = "state"
  <2>1. CASE Head(changes).kind = "state"
    BY <2>1 DEF kept
  <2>2. CASE Head(changes).kind # "state" /\ latest.state = acc.last
    BY <2>2 DEF kept
  <2>3. CASE Head(changes).kind # "state" /\ latest.state # acc.last
    <3>1. PICK i \in 1..n : changes[i].kind = "state"
      BY <1>1, <2>3 DEF StreamInv
    <3>2. i # 1
      BY <1>1, <2>3, <3>1
    <3>3. i - 1 \in 1..n - 1 /\ (i - 1) + 1 = i
      BY <1>1, <3>2
    <3>4. t[i - 1].kind = "state"
      BY <1>1, <3>1, <3>3
    <3> QED BY <3>3, <3>4
  <2> QED BY <2>1, <2>2, <2>3
<1>8. \/ OffTrack
      \/ WithinRange(ref[current].version, current)
      \/ \E i \in 1..n - 1 : Leaves(t[i], current)
  <2>1. \/ OffTrack
        \/ WithinRange(ref[current].version, current)
        \/ \E i \in 1..n : Leaves(changes[i], current)
    BY <1>1 DEF StreamInv
  <2>2. ASSUME NEW i \in 1..n, Leaves(changes[i], current)
        PROVE  \E j \in 1..n - 1 : Leaves(t[j], current)
    <3>1. i # 1
      BY <1>1, <2>2
    <3>2. i - 1 \in 1..n - 1 /\ (i - 1) + 1 = i
      BY <1>1, <3>1
    <3>3. Leaves(t[i - 1], current)
      BY <1>1, <2>2, <3>2
    <3> QED BY <3>2, <3>3
  <2> QED BY <2>1, <2>2
<1>9. /\ Len(changes') = n - 1 /\ DOMAIN changes' = 1..n - 1 /\ (n - 1) + 1 = n
      /\ changes' = t /\ acc'.last = kept /\ Saved' = Saved
  BY <1>1 DEF t, kept, Saved
<1>10. /\ \A p \in 0..Len(changes') : LastBefore(changes', Len(changes') + 1, p) =>
           StateAt(changes', acc'.last, p) = ref[current]
       /\ \A i \in DOMAIN changes', p \in 0..Len(changes') : LastBefore(changes', i, p) =>
            /\ Leaves(changes'[i], current) => Surviving(StateAt(changes', acc'.last, p))
            /\ changes'[i].kind = "version" =>
                 StateAt(changes', acc'.last, p).version = changes'[i].version
  BY <1>3, <1>4, <1>9
<1>11. /\ \A i \in DOMAIN changes' : changes'[i].kind = "next" => "next" \in mishaps
       /\ \/ latest'.state = acc'.last
          \/ \E i \in DOMAIN changes' : changes'[i].kind = "state"
       /\ \/ OffTrack
          \/ WithinRange(ref[current].version, current)
          \/ \E i \in DOMAIN changes' : Leaves(changes'[i], current)
  BY <1>5, <1>7, <1>8, <1>9
<1> HIDE DEF Saved
<1> QED
  BY <1>6, <1>9, <1>10, <1>11 DEF StreamInv, Surviving

\* Taking a version out of the range starts the migration.
LEMMA LeavingStep ==
  ASSUME RuntimeTypeOK, StreamInv, TakeVersion, Leaves(Head(changes), current)
  PROVE  StreamInv' /\ MigrationInv'
<1> DEFINE c == Head(changes)
           v == NewVersion(c, current)
<1>1. /\ phase = "following" /\ phase' = "leaving" /\ changes # <<>>
      /\ acc' = [acc EXCEPT !.version = v]
      /\ mishaps' = IF ~IsLast(current) /\ ~WithinRange(v, current + 1)
                    THEN mishaps \cup {"skipped"} ELSE mishaps
      /\ UNCHANGED <<ref, current, calls, latest, late>>
  BY DEF TakeVersion, variantVars
<1>2. acc'.last = acc.last
  BY <1>1 DEF RuntimeTypeOK
<1>3. c = changes[1] /\ Len(changes) \in Nat /\ Len(changes) >= 1 /\ c \in Change
  BY <1>1, TakenStream DEF RuntimeTypeOK
<1>4. 1 \in DOMAIN changes /\ 0 \in 0..Len(changes)
  BY <1>3 DEF RuntimeTypeOK
<1>5. LastBefore(changes, 1, 0) /\ StateAt(changes, acc.last, 0) = acc.last
  BY DEF LastBefore, IsState, StateAt
<1>6. /\ Surviving(acc.last)
      /\ changes[1].kind = "version" => acc.last.version = changes[1].version
      /\ changes[1].kind = "next" => "next" \in mishaps
      /\ latest # RuntimeError
  BY <1>1, <1>3, <1>4, <1>5 DEF StreamInv
<1> HIDE DEF v
<1>7. \/ IsLast(current) \/ OffTrack'
      \/ WithinRange(acc.last.version, current + 1)
  <2>1. c.kind = "version" \/ c.kind = "next"
    BY DEF Leaves
  <2>2. CASE c.kind = "next"
    BY <1>1, <1>3, <1>6, <2>2
  <2>3. CASE c.kind = "version"
    <3>1. v = acc.last.version
      BY <1>3, <1>6, <2>3 DEF NewVersion, v
    <3> QED BY <1>1, <3>1
  <2> QED BY <2>1, <2>2, <2>3
<1>8. Saved' = Saved
  BY <1>1 DEF Saved
<1> HIDE DEF Saved
<1> QED BY <1>1, <1>2, <1>6, <1>7, <1>8 DEF StreamInv, MigrationInv, Surviving

\* The variant that takes over: its stream begins with its state.
LEMMA TakeOver ==
  ASSUME RuntimeTypeOK, MigrationInv, ScopeInv, SetCurrent
  PROVE  StreamInv' /\ MigrationInv' /\ ScopeInv'
<1> DEFINE s == ref[current + 1]
           k == current + 1
<1>1. /\ phase = "starting" /\ phase' = "following" /\ current' = k
      /\ changes' = <<StateChange(s)>>
      /\ UNCHANGED <<ref, scope, syncing, calls, acc, latest, late, mishaps>>
  BY DEF SetCurrent, variantVars
<1>2. /\ latest # RuntimeError /\ Surviving(s) /\ s = acc.last /\ s \in State
      /\ OffTrack \/ WithinRange(s.version, k)
      /\ k \in Variants /\ k \in Nat /\ current \in Nat
  BY <1>1, NextVariant DEF RuntimeTypeOK, MigrationInv
<1>3. StateChange(s).kind = "state" /\ StateChange(s).state = s
  BY DEF StateChange
<1>4. ref'[current'] = s
  BY <1>1
<1>5. Saved' = Saved
  BY <1>1 DEF Saved
<1> DEFINE d == <<StateChange(s)>>
<1>6. Len(d) = 1 /\ d \in Seq(Change) /\ d[1] = StateChange(s) /\ DOMAIN d = 1..1
  BY <1>2, ChangeMade
<1> HIDE DEF d, s, k, Saved
<1>7. ASSUME NEW p \in 0..1, LastBefore(d, 2, p)
      PROVE  StateAt(d, acc.last, p) = s
  <2>1. p = 1
    BY <1>3, <1>6, <1>7 DEF LastBefore
  <2> QED BY <1>3, <1>6, <2>1 DEF StateAt
<1>8. \A i \in 1..1 : d[i].kind = "state"
  BY <1>3, <1>6
<1>9. changes' = d
  BY <1>1 DEF d
<1>10. StreamInv'
  <2>1. \A p \in 0..Len(d) : LastBefore(d, Len(d) + 1, p) => StateAt(d, acc.last, p) = s
    BY <1>6, <1>7
  <2>2. \A i \in DOMAIN d : d[i].kind # "version" /\ d[i].kind # "next" /\ d[i].kind = "state"
    BY <1>6, <1>8
  <2>3. \A i \in DOMAIN d : ~Leaves(d[i], k)
    BY <2>2 DEF Leaves
  <2>4. \E i \in DOMAIN d : d[i].kind = "state"
    BY <1>6, <1>8
  <2> QED BY <1>1, <1>2, <1>4, <1>5, <1>9, <2>1, <2>2, <2>3, <2>4 DEF StreamInv, Surviving
<1>11. MigrationInv'
  BY <1>1 DEF MigrationInv
<1>12. ScopeInv'
  <2>1. NothingInBackground'
    BY <1>1, <1>2 DEF ScopeInv, NothingInBackground, k
  <2>2. syncing' = {}
    BY <1>1 DEF ScopeInv
  <2>3. ASSUME NEW c \in Commands, calls'[c] \in Variants PROVE calls'[c] <= current'
    <3>1. calls[c] <= current /\ calls[c] \in Nat
      BY <1>1, <2>3, NextVariant DEF ScopeInv
    <3> QED BY <1>1, <1>2, <3>1 DEF k
  <2> QED BY <1>1, <2>1, <2>2, <2>3 DEF ScopeInv
<1> QED BY <1>10, <1>11, <1>12

-----------------------------------------------------------------------------
(* The inductive invariant                                                 *)

\* Commands that are done and were applied in time: how a step changes them.
LEMMA SavedSame ==
  ASSUME RuntimeTypeOK, UNCHANGED <<calls, late>>
  PROVE  Saved' = Saved
  BY DEF Saved

\* Initial states satisfy the invariant.
LEMMA InitInv == RuntimeInit => IInv
<1> SUFFICES ASSUME RuntimeInit PROVE IInv
  OBVIOUS
<1>1. PICK k \in Variants, v \in Versions : StartVariant(k, [version |-> v, log |-> {}])
  BY DEF RuntimeInit
<1> DEFINE s == [version |-> v, log |-> {}]
           d == <<StateChange(s)>>
<1>2. s \in State /\ s.version = v
  BY DEF State
<1>3. StateChange(s).kind = "state" /\ StateChange(s).state = s
  BY DEF StateChange
<1>4. Len(d) = 1 /\ d \in Seq(Change) /\ d[1] = StateChange(s) /\ DOMAIN d = 1..1
  BY <1>2, ChangeMade
<1> HIDE DEF s, d
<1>5. /\ WithinRange(s.version, k) \/ OffTrack
      /\ ref = [j \in Variants |-> s] /\ current = k /\ changes = d
      /\ scope = [j \in Variants |-> IF j = k THEN "open" ELSE "none"]
      /\ acc.last = s /\ latest = [version |-> Since[k], state |-> s]
      /\ phase = "following" /\ syncing = {} /\ calls = [c \in Commands |-> NotSent]
      /\ late = {} /\ mishaps \subseteq {"misplaced"}
  BY <1>1 DEF StartVariant, RuntimeInit, s, d
<1>6. RuntimeTypeOK
  BY RuntimeInitType
<1>7. latest # RuntimeError /\ latest.state = s
  <2>1. latest \in [version: Versions, state: State]
    BY <1>2, <1>5, NextVariant
  <2> QED BY <1>5, <2>1, RuntimeAssumption
<1>8. Saved = {} /\ ref[current] = s
  BY <1>5, RuntimeAssumption DEF Saved
<1>9. StreamInv
  <2>1. ASSUME NEW p \in 0..1, LastBefore(d, 2, p)
        PROVE  StateAt(d, acc.last, p) = s
    <3>1. p = 1
      BY <1>3, <1>4, <2>1 DEF LastBefore
    <3> QED BY <1>3, <1>4, <3>1 DEF StateAt
  <2>2. \A p \in 0..Len(d) : LastBefore(d, Len(d) + 1, p) => StateAt(d, acc.last, p) = s
    BY <1>4, <2>1
  <2>3. \A i \in DOMAIN d : d[i].kind = "state" /\ ~Leaves(d[i], current)
    BY <1>3, <1>4 DEF Leaves
  <2> QED BY <1>5, <1>7, <1>8, <2>2, <2>3 DEF StreamInv, Surviving
<1>10. MigrationInv
  BY <1>5 DEF MigrationInv
<1>11. ScopeInv
  BY <1>5, RuntimeAssumption DEF ScopeInv, NothingInBackground
<1> QED BY <1>6, <1>9, <1>10, <1>11 DEF IInv

\* What the application, the chain and the syncs do.
LEMMA OutsideStep ==
  ASSUME IInv,
         \/ \E v \in Versions : Upgrade(v)
         \/ StartSyncInBackground
         \/ \E k \in Variants : SyncUpdate(k)
         \/ \E c \in Commands : Dispatch(c) \/ Execute(c)
  PROVE  StreamInv' /\ MigrationInv' /\ ScopeInv'
<1>1. RuntimeTypeOK /\ StreamInv /\ MigrationInv /\ ScopeInv /\ current \in Variants
  BY DEF IInv, RuntimeTypeOK
<1>2. ASSUME NEW v \in Versions, Upgrade(v) PROVE StreamInv' /\ MigrationInv' /\ ScopeInv'
  <2>1. UNCHANGED <<ref, scope, syncing, current, calls, phase, changes, acc, latest, late,
                    mishaps>>
    BY <1>2 DEF Upgrade, variantVars, fiberVars
  <2> QED BY <1>1, <2>1 DEF StreamInv, MigrationInv, ScopeInv, NothingInBackground, Surviving, Saved
<1>3. CASE StartSyncInBackground
  <2>1. /\ UNCHANGED <<ref, scope, current, calls, phase, changes, acc, latest, late, mishaps>>
        /\ syncing' = IF scope[current] = "open" THEN syncing \cup {current} ELSE syncing
    BY <1>3 DEF StartSyncInBackground, fiberVars
  <2>2. StreamInv' /\ MigrationInv'
    BY <1>1, <2>1 DEF StreamInv, MigrationInv, Surviving, Saved
  <2>3. ScopeInv'
    BY <1>1, <2>1 DEF ScopeInv, NothingInBackground
  <2> QED BY <2>2, <2>3
<1>4. ASSUME NEW k \in Variants, SyncUpdate(k) PROVE StreamInv' /\ MigrationInv' /\ ScopeInv'
  <2> DEFINE s == [ref[k] EXCEPT !.version = chainVersion]
  <2>1. k = current /\ phase \notin {"closed", "starting", "stopped"}
    BY <1>1, <1>4 DEF SyncUpdate, ScopeInv
  <2>2. s \in State /\ s.log = ref[current].log
    BY <1>1, <2>1 DEF RuntimeTypeOK, State
  <2>3. /\ Write(current, s)
        /\ UNCHANGED <<scope, syncing, current, calls, phase, acc, latest, late, mishaps>>
    BY <1>4, <2>1 DEF SyncUpdate
  <2> HIDE DEF s
  <2>4. Saved' = Saved
    BY <1>1, <2>3, SavedSame
  <2>5. StreamInv'
    <3>1. CASE phase = "following"
      <4>1. Saved \subseteq s.log
        BY <1>1, <2>2, <3>1 DEF StreamInv, Surviving
      <4> QED BY <1>1, <2>2, <2>3, <2>4, <3>1, <4>1, WriteStream
    <3>2. CASE phase # "following"
      BY <2>3, <3>2 DEF StreamInv
    <3> QED BY <3>1, <3>2
  <2>6. MigrationInv'
    BY <1>1, <2>1, <2>3, <2>4 DEF MigrationInv, Surviving
  <2>7. ScopeInv'
    BY <1>1, <2>3 DEF ScopeInv, NothingInBackground
  <2> QED BY <2>5, <2>6, <2>7
<1>5. ASSUME NEW c \in Commands, Dispatch(c) PROVE StreamInv' /\ MigrationInv' /\ ScopeInv'
  <2>1. /\ UNCHANGED <<ref, scope, syncing, current, phase, changes, acc, latest, late, mishaps>>
        /\ calls[c] = NotSent /\ calls' = [calls EXCEPT ![c] = current]
    BY <1>5 DEF Dispatch, variantVars, fiberVars
  <2>2. Saved' = Saved
    BY <1>1, <2>1, RuntimeAssumption DEF Saved, RuntimeTypeOK
  <2>3. StreamInv' /\ MigrationInv'
    <3> HIDE DEF Saved
    <3> QED BY <1>1, <2>1, <2>2 DEF StreamInv, MigrationInv, Surviving
  <2>4. NothingInBackground'
    BY <1>1, <2>1 DEF ScopeInv, NothingInBackground
  <2>5. \A b \in Commands : calls'[b] \in Variants => calls'[b] <= current
    BY <1>1, <2>1, NextVariant DEF ScopeInv, RuntimeTypeOK
  <2> QED BY <1>1, <2>1, <2>3, <2>4, <2>5 DEF ScopeInv
<1>6. ASSUME NEW c \in Commands, Execute(c) PROVE StreamInv' /\ MigrationInv' /\ ScopeInv'
  <2> DEFINE k == calls[c]
             s == [ref[k] EXCEPT !.log = @ \cup {c}]
  <2>1. /\ k \in Variants /\ Write(k, s)
        /\ late' = IF OnTheWayOut(k) THEN late \cup {c} ELSE late
        /\ calls' = [calls EXCEPT ![c] = Done]
        /\ UNCHANGED <<scope, syncing, current, phase, acc, latest, mishaps>>
    BY <1>6 DEF Execute
  <2>2. s \in State /\ s.log = ref[k].log \cup {c}
    BY <1>1, <2>1 DEF RuntimeTypeOK, State
  <2>3. k <= current /\ k \in Nat /\ current \in Nat
    BY <1>1, <2>1, NextVariant DEF ScopeInv
  <2> HIDE DEF k, s
  <2>4. /\ Saved' \subseteq Saved \cup {c}
        /\ OnTheWayOut(k) => Saved' \subseteq Saved
    BY <1>1, <2>1, RuntimeAssumption DEF Saved, RuntimeTypeOK, k
  <2>5. StreamInv'
    <3>1. CASE phase = "following" /\ k = current
      <4>1. Saved \subseteq ref[current].log
        BY <1>1, <3>1 DEF StreamInv, Surviving
      <4>2. /\ Saved' \subseteq s.log
            /\ ref[current].log \subseteq s.log /\ Write(current, s)
        BY <2>1, <2>2, <2>4, <3>1, <4>1
      <4>3. \/ Saved' \subseteq Saved
            \/ \A i \in DOMAIN changes : ~Leaves(changes[i], current)
        BY <2>4, <3>1 DEF OnTheWayOut
      <4> QED BY <1>1, <2>1, <2>2, <3>1, <4>2, <4>3, WriteStream
    <3>2. CASE phase = "following" /\ k # current
      <4>1. OnTheWayOut(k) /\ changes' = changes /\ ref' = [ref EXCEPT ![k] = s]
        BY <2>1, <3>2 DEF OnTheWayOut, Listening, Write
      <4>2. ref'[current] = ref[current]
        BY <1>1, <3>2, <4>1 DEF RuntimeTypeOK
      <4>3. Saved' \subseteq Saved
        BY <2>4, <4>1
      <4> HIDE DEF Saved
      <4> QED BY <1>1, <2>1, <4>1, <4>2, <4>3 DEF StreamInv, Surviving
    <3>3. CASE phase # "following"
      BY <2>1, <3>3 DEF StreamInv
    <3> QED BY <3>1, <3>2, <3>3
  <2>6. MigrationInv'
    <3>1. CASE phase \in {"leaving", "closed", "starting"}
      <4>1. OnTheWayOut(k) /\ ref' = [ref EXCEPT ![k] = s]
        BY <2>1, <3>1 DEF OnTheWayOut, Listening, Write
      <4>2. Saved' \subseteq Saved
        BY <2>4, <4>1
      <4>3. phase = "starting" => ref'[current + 1] = ref[current + 1]
        <5>1. phase = "starting" => current + 1 \in Variants /\ current + 1 # k
          BY <1>1, <2>3, NextVariant DEF RuntimeTypeOK
        <5> QED BY <1>1, <4>1, <5>1 DEF RuntimeTypeOK
      <4> HIDE DEF Saved
      <4> QED BY <1>1, <2>1, <4>2, <4>3 DEF MigrationInv, Surviving
    <3>2. CASE phase \notin {"leaving", "closed", "starting"}
      BY <2>1, <3>2 DEF MigrationInv
    <3> QED BY <3>1, <3>2
  <2>7. NothingInBackground'
    BY <1>1, <2>1 DEF ScopeInv, NothingInBackground
  <2>8. \A b \in Commands : calls'[b] \in Variants => calls'[b] <= current
    BY <1>1, <2>1, RuntimeAssumption DEF ScopeInv, RuntimeTypeOK
  <2> QED BY <1>1, <2>1, <2>5, <2>6, <2>7, <2>8 DEF ScopeInv
<1> QED BY <1>2, <1>3, <1>4, <1>5, <1>6

\* What the fiber of the runtime and the stop of the wallet do.
LEMMA FiberStep ==
  ASSUME IInv, ReportNext \/ Follow \/ Interrupt \/ CloseCurrent
  PROVE  StreamInv' /\ MigrationInv' /\ ScopeInv'
<1>1. /\ RuntimeTypeOK /\ StreamInv /\ MigrationInv /\ ScopeInv /\ current \in Variants
      /\ current \in Nat
  BY NextVariant DEF IInv, RuntimeTypeOK
<1>2. CASE ReportNext
  <2>1. /\ UNCHANGED <<scope, syncing, current, calls, phase>> /\ phase = "following"
        /\ mishaps \subseteq mishaps'
    BY <1>2 DEF ReportNext, Listening, variantVars
  <2>2. MigrationInv'
    BY <2>1 DEF MigrationInv
  <2>3. ScopeInv'
    BY <1>1, <2>1 DEF ScopeInv, NothingInBackground
  <2> QED BY <1>1, <1>2, <2>2, <2>3, NextStream
<1>3. CASE TakeState
  <2>1. /\ phase = "following" /\ changes # <<>> /\ Head(changes).kind = "state"
        /\ changes' = Tail(changes)
        /\ UNCHANGED <<ref, scope, syncing, current, calls, phase, late, mishaps>>
    BY <1>3 DEF TakeState, variantVars
  <2>2. Head(changes).state \in State
    BY <1>1, <2>1, TakenStream, ChangeKinds DEF RuntimeTypeOK
  <2>3. latest'.state = Head(changes).state /\ latest' \in [version: Versions, state: State]
    BY <1>1, <1>3, <2>2 DEF TakeState, RuntimeTypeOK
  <2>4. latest' # RuntimeError
    BY <2>3, RuntimeAssumption
  <2>5. acc'.last = Head(changes).state
    BY <1>1, <1>3 DEF TakeState, RuntimeTypeOK
  <2>6. ~Leaves(Head(changes), current)
    BY <2>1 DEF Leaves
  <2>7. StreamInv'
    BY <1>1, <2>1, <2>3, <2>4, <2>5, <2>6, TakenKeeps
  <2> QED BY <1>1, <2>1, <2>7 DEF MigrationInv, ScopeInv, NothingInBackground
<1>4. CASE TakeVersion
  <2>1. UNCHANGED <<ref, scope, syncing, current, calls, latest, late>>
    BY <1>4 DEF TakeVersion, variantVars
  <2>2. StreamInv' /\ MigrationInv'
    <3>1. CASE Leaves(Head(changes), current)
      BY <1>1, <1>4, <3>1, LeavingStep
    <3>2. CASE ~Leaves(Head(changes), current)
      <4>1. /\ phase = "following" /\ changes # <<>> /\ Head(changes).kind # "state"
            /\ changes' = Tail(changes) /\ UNCHANGED <<phase, mishaps>>
        BY <1>4, <3>2 DEF TakeVersion
      <4>2. acc'.last = acc.last
        BY <1>1, <1>4, <3>2 DEF TakeVersion, RuntimeTypeOK
      <4>3. StreamInv'
        BY <1>1, <2>1, <3>2, <4>1, <4>2, TakenKeeps
      <4> QED BY <4>1, <4>3 DEF MigrationInv
    <3> QED BY <3>1, <3>2
  <2>3. phase = "following" /\ phase' \in {"following", "leaving"} /\ mishaps \subseteq mishaps'
    BY <1>4 DEF TakeVersion
  <2>4. ScopeInv'
    BY <1>1, <2>1, <2>3 DEF ScopeInv, NothingInBackground
  <2> QED BY <2>2, <2>4
<1>5. CASE CloseVariant
  <2>1. /\ phase = "leaving" /\ phase' = "closed"
        /\ scope' = [scope EXCEPT ![current] = "closed"] /\ syncing' = syncing \ {current}
        /\ UNCHANGED <<ref, current, calls, acc, latest, late, mishaps>>
    BY <1>5 DEF CloseVariant
  <2>2. StreamInv'
    BY <2>1 DEF StreamInv
  <2>3. MigrationInv'
    BY <1>1, <2>1 DEF MigrationInv, Surviving, Saved
  <2>4. scope' \in [Variants -> {"none", "open", "closed"}] /\ scope'[current] = "closed"
        /\ \A j \in Variants : j # current => scope'[j] = scope[j]
    BY <1>1, <2>1 DEF RuntimeTypeOK
  <2>5. ScopeInv'
    BY <1>1, <2>1, <2>4 DEF ScopeInv, NothingInBackground
  <2> QED BY <2>2, <2>3, <2>5
<1>6. CASE Migrate
  <2>1. /\ phase = "closed" /\ phase' = "starting" /\ ~IsLast(current)
        /\ ref' = [ref EXCEPT ![current + 1] = acc.last]
        /\ scope' = [scope EXCEPT ![current + 1] = "open"]
        /\ UNCHANGED <<syncing, current, calls, acc, latest, late, mishaps>>
    BY <1>6 DEF Migrate
  <2>2. StreamInv'
    BY <2>1 DEF StreamInv
  <2>3. current + 1 \in Variants
    BY <1>1, <2>1, NextVariant
  <2>4. ref'[current + 1] = acc.last
    BY <1>1, <2>1, <2>3 DEF RuntimeTypeOK
  <2>5. MigrationInv'
    BY <1>1, <2>1, <2>4 DEF MigrationInv, Surviving, Saved
  <2>6. /\ current # current + 1
        /\ \A j \in Variants : j # current + 1 => scope'[j] = scope[j]
    BY <1>1, <2>1 DEF RuntimeTypeOK
  <2>7. ScopeInv'
    BY <1>1, <2>1, <2>6 DEF ScopeInv, NothingInBackground
  <2> QED BY <2>2, <2>5, <2>7
<1>7. CASE SetCurrent
  BY <1>1, <1>7, TakeOver
<1>8. CASE MigrationFails
  <2>1. /\ phase = "closed" /\ phase' = "failed" /\ mishaps \subseteq mishaps'
        /\ UNCHANGED <<scope, syncing, current, calls>>
    BY <1>8 DEF MigrationFails, variantVars
  <2> QED BY <1>1, <2>1 DEF StreamInv, MigrationInv, ScopeInv, NothingInBackground
<1>9. CASE Interrupt
  <2>1. /\ phase' = "interrupted" /\ phase \notin {"interrupted", "stopped"}
        /\ mishaps \subseteq mishaps'
        /\ phase = "starting" => "stopped_midway" \in mishaps'
        /\ UNCHANGED <<scope, syncing, current, calls>>
    BY <1>9 DEF Interrupt, variantVars
  <2> QED BY <1>1, <2>1 DEF StreamInv, MigrationInv, ScopeInv, NothingInBackground
<1>10. CASE CloseCurrent
  <2>1. /\ phase = "interrupted" /\ phase' = "stopped"
        /\ scope' = [scope EXCEPT ![current] = "closed"] /\ syncing' = syncing \ {current}
        /\ UNCHANGED <<current, calls, mishaps>>
    BY <1>10 DEF CloseCurrent
  <2>2. /\ scope'[current] = "closed"
        /\ \A j \in Variants : j # current => scope'[j] = scope[j]
    BY <1>1, <2>1 DEF RuntimeTypeOK
  <2> QED BY <1>1, <2>1, <2>2 DEF StreamInv, MigrationInv, ScopeInv, NothingInBackground
<1> QED BY <1>2, <1>3, <1>4, <1>5, <1>6, <1>7, <1>8, <1>9, <1>10 DEF Follow

\* Every step keeps the invariant.
LEMMA NextInv == IInv /\ [RuntimeNext]_runtimeVars => IInv'
<1> SUFFICES ASSUME IInv, [RuntimeNext]_runtimeVars PROVE IInv'
  OBVIOUS
<1>1. RuntimeTypeOK'
  BY RuntimeNextType DEF IInv
<1>2. StreamInv' /\ MigrationInv' /\ ScopeInv'
  <2>1. CASE \/ \E v \in Versions : Upgrade(v)
             \/ StartSyncInBackground
             \/ \E k \in Variants : SyncUpdate(k)
             \/ \E c \in Commands : Dispatch(c) \/ Execute(c)
    BY <2>1, OutsideStep
  <2>2. CASE ReportNext \/ Follow \/ Interrupt \/ CloseCurrent
    BY <2>2, FiberStep
  <2>3. CASE UNCHANGED runtimeVars
    BY <2>3 DEF IInv, StreamInv, MigrationInv, ScopeInv, NothingInBackground, Surviving, Saved,
                runtimeVars, variantVars, fiberVars
  <2> QED BY <2>1, <2>2, <2>3 DEF RuntimeNext
<1> QED BY <1>1, <1>2 DEF IInv

\* The inductive invariant.
LEMMA Inductive == RuntimeSpec => []IInv
<1> QED BY InitInv, NextInv, PTL DEF RuntimeSpec

\* Commands survive the migration to the next variant, for every number of
\* variants and commands and every interleaving with the sync, the migration
\* and stop(): Runtime.runVariantStream migrates the last state it was told of.
THEOREM MigrationKeepsCommands == RuntimeSpec => []CommandsSurvive
<1>1. IInv => CommandsSurvive
  <2> SUFFICES ASSUME IInv PROVE CommandsSurvive
    OBVIOUS
  <2>1. phase = "following" => Surviving(ref[current])
    BY DEF IInv, StreamInv
  <2>2. phase \in {"leaving", "closed"} => Surviving(acc.last)
    BY DEF IInv, MigrationInv
  <2>3. phase = "starting" => Surviving(ref[current + 1])
    BY DEF IInv, MigrationInv
  <2> QED BY <2>1, <2>2, <2>3 DEF CommandsSurvive
<1> QED BY <1>1, Inductive, PTL

\* No variant is left running in the background, whenever the wallet is stopped
\* but in the one step between the start of a variant and its becoming current.
THEOREM NoVariantLeftRunning == RuntimeSpec => []NothingInBackground
<1>1. IInv => NothingInBackground
  BY DEF IInv, ScopeInv
<1> QED BY <1>1, Inductive, PTL

\* A runtime with nothing left to take follows the variant the version of its
\* state belongs to, and has published that state.
THEOREM QuietRuntimeIsCurrent == RuntimeSpec => []QuietMeansCurrent
<1>1. IInv => QuietMeansCurrent
  <2> SUFFICES ASSUME IInv, phase = "following", changes = <<>>
               PROVE  /\ latest # RuntimeError /\ latest.state = ref[current]
                      /\ ~OffTrack =>
                           WithinRange(ref[current].version, current)
    BY DEF QuietMeansCurrent
  <2>1. DOMAIN changes = {} /\ Len(changes) = 0 /\ 0 \in 0..Len(changes)
    OBVIOUS
  <2>2. LastBefore(changes, Len(changes) + 1, 0) /\ StateAt(changes, acc.last, 0) = acc.last
    BY <2>1 DEF LastBefore, IsState, StateAt
  <2>3. acc.last = ref[current]
    BY <2>1, <2>2 DEF IInv, StreamInv
  <2> QED BY <2>1, <2>3 DEF IInv, StreamInv
<1> QED BY <1>1, Inductive, PTL
================================================================================
