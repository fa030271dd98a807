--------------------- MODULE PendingTransactionsProofs ---------------------
(***************************************************************************)
(* What the pending-transactions service guarantees for every set of       *)
(* transactions, however their identifiers overlap, every TTL and every    *)
(* interleaving of the polling loop with the callers.                      *)
(***************************************************************************)
EXTENDS PendingTransactions, FiniteSetTheorems, TLAPS

LEMMA MatchingSubset ==
  ASSUME NEW items, NEW t PROVE Matching(items, t) \subseteq items
BY DEF Matching

(* What replaces the matching items is one of them or the new item.        *)
LEMMA BiggestChoice ==
  ASSUME NEW items, NEW new
  PROVE  Biggest(items, new) \subseteq Matching(items, new.tx) \cup {new}
BY DEF Biggest

-----------------------------------------------------------------------------
(* Type correctness                                                        *)

LEMMA TypeInit == Init => TypeOK
<1> SUFFICES ASSUME Init PROVE TypeOK
  OBVIOUS
<1>1. missed \in BOOLEAN /\ check \in Check
  BY DEF Init, Check
<1>2. now \in 0..MaxTime /\ restarts \in 0..MaxRestarts
  BY TxsAssumption DEF Init
<1> QED  BY <1>1, <1>2 DEF Init, TypeOK

LEMMA TypeNext == TypeOK /\ [Next]_vars => TypeOK'
<1> SUFFICES ASSUME TypeOK, [Next]_vars PROVE TypeOK'
  OBVIOUS
<1> USE DEF TypeOK, ledgerVars, pollVars
<1>0. /\ \A i \in Item : \A r \in {None} \cup Failed : [i EXCEPT !.result = r] \in Item
      /\ now \in Nat
  BY TxsAssumption DEF Item
<1>1. ASSUME NEW t \in Txs, Add(t) PROVE TypeOK'
  <2> DEFINE new == [tx |-> t, creationTime |-> now, result |-> None]
  <2>1. new \in Item /\ new.tx = t
    BY <1>0 DEF Item
  <2>2. PICK m \in Biggest(state, new) : state' = (state \ Matching(state, t)) \cup {m}
    BY <1>1 DEF Add, AddPendingTransaction
  <2>3. m \in Item
    BY <2>1, BiggestChoice, MatchingSubset
  <2>4. state' \in SUBSET Item
    BY <2>2, <2>3
  <2> QED  BY <1>1, <2>4 DEF Add
<1>2. ASSUME NEW t \in Txs, Discard(t) PROVE TypeOK'
  BY <1>2 DEF Discard, Clear, Without
<1>3. ASSUME NEW t \in Txs, NEW s \in Outcomes, Confirm(t, s) PROVE TypeOK'
  BY <1>3, TxsAssumption DEF Confirm, Confirmed
<1>4. CASE Tick
  BY <1>4 DEF Tick, AllPending
<1>5. ASSUME NEW i \in queue, Ask(i) PROVE TypeOK'
  BY <1>0, <1>5 DEF Ask, Check
<1>6. CASE Answer
  <2>1. check \in Check /\ check.step = "ask"
          /\ UNCHANGED <<state, ledgerVars, queue, added, tracked, restarts>>
    BY <1>6 DEF Answer
  <2>2. check.item \in Item
    BY <2>1 DEF Check, NoCheck
  <2>3. Reported(check.item.tx) \subseteq Statuses
    BY DEF Reported, Confirmed
  <2>4. \A r \in Statuses : [step |-> "save", item |-> check.item, result |-> r] \in Check
    BY <2>2 DEF Check
  <2>5. "FAILURE" \in Statuses /\ NoCheck \in Check
    BY DEF Statuses, Failed, Check
  <2>6. check' \in Check
    <3>1. CASE \E r \in Reported(check.item.tx) :
                 check' = [step |-> "save", item |-> check.item, result |-> r]
      BY <2>3, <2>4, <3>1
    <3>2. CASE check' = IF HasTTLExpired(check.item, check.now)
                        THEN [step |-> "save", item |-> check.item, result |-> "FAILURE"]
                        ELSE NoCheck
      BY <2>4, <2>5, <3>2
    <3> QED  BY <1>6, <3>1, <3>2 DEF Answer, NoAnswer
  <2>7. missed' \in BOOLEAN
    BY <1>6 DEF Answer, NoAnswer
  <2> QED  BY <2>1, <2>6, <2>7
<1>7. CASE SaveResult
  <2>1. check \in Check /\ check.step = "save" /\ NoCheck \in Check
    BY <1>7 DEF SaveResult, Check
  <2>2. check.item \in Item /\ check.result \in Statuses
    BY <2>1 DEF Check, NoCheck
  <2>3. CASE check.result = "SUCCESS"
    BY <1>7, <2>1, <2>3 DEF SaveResult, Clear, Without
  <2>4. CASE check.result # "SUCCESS"
    <3>1. check.result \in Failed
      BY <2>2, <2>4 DEF Statuses
    <3>2. state' \in SUBSET Item
      BY <1>0, <1>7, <2>4, <3>1 DEF SaveResult, WithResult
    <3> QED  BY <1>7, <2>1, <2>4, <3>2 DEF SaveResult
  <2> QED  BY <2>3, <2>4
<1>8. CASE Restart
  BY <1>0, <1>8, TxsAssumption DEF Restart, Check
<1>9. CASE TimePasses
  BY <1>0, <1>9, TxsAssumption DEF TimePasses
<1>10. CASE Index
  BY <1>10 DEF Index
<1>11. CASE UNCHANGED vars
  BY <1>11 DEF vars
<1> HIDE DEF TypeOK
<1> QED  BY <1>1, <1>2, <1>3, <1>4, <1>5, <1>6, <1>7, <1>8, <1>9, <1>10, <1>11 DEF Next, Poll

(* The state and every outcome under way are well formed.                  *)
THEOREM TypeCorrect == Spec => []TypeOK
BY TypeInit, TypeNext, PTL DEF Spec

-----------------------------------------------------------------------------
(* One transaction, one item                                               *)

LEMMA SeparatedNext == TypeOK /\ Separated /\ [Next]_vars => Separated'
<1> SUFFICES ASSUME TypeOK, Separated, [Next]_vars PROVE Separated'
  OBVIOUS
<1>1. ASSUME NEW t \in Txs, Add(t) PROVE Separated'
  <2> DEFINE new == [tx |-> t, creationTime |-> now, result |-> None]
  <2>1. PICK m \in Biggest(state, new) : state' = (state \ Matching(state, t)) \cup {m}
    BY <1>1 DEF Add, AddPendingTransaction
  <2>2. m \in Matching(state, t) \/ m.tx = t
    BY <2>1, BiggestChoice
  <2>3. \A i \in state \ Matching(state, t) :
          ~IsOneIncludedInOther(i.tx, m.tx) /\ ~IsOneIncludedInOther(m.tx, i.tx)
    BY <2>2 DEF Matching, IsOneIncludedInOther, Separated
  <2> QED  BY <2>1, <2>3 DEF Separated
<1>2. ASSUME NEW t \in Txs, Discard(t) PROVE Separated'
  BY <1>2 DEF Discard, Clear, Without, Separated
<1>3. CASE SaveResult
  <2>1. CASE check.result = "SUCCESS"
    BY <1>3, <2>1 DEF SaveResult, Clear, Without, Separated
  <2>2. CASE check.result # "SUCCESS"
    <3> DEFINE f(i) == IF i.tx \subseteq check.item.tx THEN [i EXCEPT !.result = check.result] ELSE i
    <3>1. state' = {f(i) : i \in state}
      BY <1>3, <2>2 DEF SaveResult, WithResult
    <3>2. \A i \in state : f(i).tx = i.tx
      BY DEF TypeOK, Item
    <3> HIDE DEF f
    <3>3. ASSUME NEW i \in state', NEW j \in state', i # j
          PROVE  ~IsOneIncludedInOther(i.tx, j.tx)
      <4>1. PICK p \in state : i = f(p)
        BY <3>1, <3>3
      <4>2. PICK q \in state : j = f(q)
        BY <3>1, <3>3
      <4>3. p # q
        BY <3>3, <4>1, <4>2
      <4>4. i.tx = p.tx /\ j.tx = q.tx
        BY <3>2, <4>1, <4>2
      <4> QED  BY <4>3, <4>4 DEF Separated
    <3> QED  BY <3>3 DEF Separated
  <2> QED  BY <2>1, <2>2
<1>4. CASE Restart
  <2> DEFINE f(i) == [i EXCEPT !.result = None]
  <2>1. state' = {f(i) : i \in state}
    BY <1>4 DEF Restart
  <2>2. \A i \in state : f(i).tx = i.tx
    BY DEF TypeOK, Item
  <2> HIDE DEF f
  <2>3. ASSUME NEW i \in state', NEW j \in state', i # j
        PROVE  ~IsOneIncludedInOther(i.tx, j.tx)
    <3>1. PICK p \in state : i = f(p)
      BY <2>1, <2>3
    <3>2. PICK q \in state : j = f(q)
      BY <2>1, <2>3
    <3>3. p # q
      BY <2>3, <3>1, <3>2
    <3>4. i.tx = p.tx /\ j.tx = q.tx
      BY <2>2, <3>1, <3>2
    <3> QED  BY <3>3, <3>4 DEF Separated
  <2> QED  BY <2>3 DEF Separated
<1>5. CASE Tick \/ (\E i \in queue : Ask(i)) \/ Answer \/ TimePasses \/ Index \/ UNCHANGED vars
           \/ \E t \in Txs, s \in Outcomes : Confirm(t, s)
  BY <1>5 DEF Tick, Ask, Answer, TimePasses, Index, vars, Confirm, Separated
<1> QED  BY <1>1, <1>2, <1>3, <1>4, <1>5 DEF Next, Poll

(* Whatever transactions and parts of transactions are added, discarded,   *)
(* confirmed or failed, no pending item contains another.                  *)
THEOREM ItemsSeparated == Spec => []Separated
<1>1. Init => Separated
  BY DEF Init, Separated
<1> QED  BY <1>1, TypeInit, TypeNext, SeparatedNext, PTL DEF Spec

-----------------------------------------------------------------------------
(* No transaction is forgotten                                             *)

(* Parts are added before the transaction they are merged into.            *)
InOrder == "re_added" \notin Faults

(* Items are for transactions that were added, the biggest of their kind.  *)
Maximal ==
  \A i \in state : i.tx \in added /\ \A s \in added : i.tx \subseteq s => i.tx = s

TrackInv == Maximal /\ TrackedUntilResolved

(* Added in order, a transaction takes the place of its parts itself.      *)
LEMMA AddedWins ==
  ASSUME TypeOK, Maximal, InOrder, NEW t \in Txs, Add(t),
         NEW m \in Biggest(state, [tx |-> t, creationTime |-> now, result |-> None])
  PROVE  m.tx = t
<1> DEFINE new == [tx |-> t, creationTime |-> now, result |-> None]
<1>1. CASE m = new
  BY <1>1
<1>2. CASE m # new
  <2>1. m \in Matching(state, t) /\ Cardinality(m.tx) >= Cardinality(t)
    <3> DEFINE M == Matching(state, t)
               Max == {i \in M : \A j \in M : Cardinality(j.tx) <= Cardinality(i.tx)}
    <3>1. new.tx = t
      OBVIOUS
    <3>2. m \in IF \E i \in Max : Cardinality(i.tx) >= Cardinality(t) THEN Max ELSE {new}
      BY <3>1 DEF Biggest
    <3>3. PICK i \in Max : Cardinality(i.tx) >= Cardinality(t)
      BY <1>2, <3>2
    <3>4. m \in Max
      BY <3>2, <3>3
    <3>5. Cardinality(i.tx) <= Cardinality(m.tx)
      BY <3>3, <3>4
    <3>6. i.tx \in Txs /\ m.tx \in Txs
      BY <3>3, <3>4 DEF Matching, TypeOK, Item
    <3>7. Cardinality(i.tx) \in Nat /\ Cardinality(m.tx) \in Nat /\ Cardinality(t) \in Nat
      BY <3>6, TxsAssumption, FS_CardinalityType
    <3> QED BY <3>3, <3>4, <3>5, <3>7
  <2>2. m.tx \in Txs /\ m.tx \in added /\ (t \subseteq m.tx \/ m.tx \subseteq t)
    BY <2>1 DEF Matching, IsOneIncludedInOther, TypeOK, Item, Maximal
  <2>3. CASE t \subseteq m.tx
    BY <2>2, <2>3 DEF Add, InOrder
  <2>4. CASE m.tx \subseteq t
    <3>1. IsFiniteSet(t) /\ Cardinality(m.tx) <= Cardinality(t)
          /\ (Cardinality(t) = Cardinality(m.tx) => t = m.tx)
      BY <2>4, TxsAssumption, FS_Subset
    <3>2. Cardinality(m.tx) \in Nat /\ Cardinality(t) \in Nat
      BY <2>2, TxsAssumption, FS_CardinalityType
    <3> QED BY <2>1, <3>1, <3>2
  <2> QED BY <2>2, <2>3, <2>4
<1> QED BY <1>1, <1>2

(* Saving a result and restoring change results only.                      *)
LEMMA SameItems ==
  ASSUME TrackInv, UNCHANGED <<added, tracked>>,
         \A i \in state' : \E j \in state : i.tx = j.tx,
         \A j \in state : \E i \in state' : i.tx = j.tx
  PROVE  TrackInv'
  BY DEF TrackInv, Maximal, TrackedUntilResolved

(* What is cleared takes all that is tracked of it along.                  *)
LEMMA ClearedTracks ==
  ASSUME TrackInv, NEW t, Clear(t), tracked' = {s \in tracked : ~(s \subseteq t)},
         UNCHANGED added
  PROVE  TrackInv'
  BY DEF TrackInv, Maximal, TrackedUntilResolved, Clear, Without

LEMMA TrackNext == InOrder /\ TypeOK /\ TrackInv /\ [Next]_vars => TrackInv'
<1> SUFFICES ASSUME InOrder, TypeOK, TrackInv, [Next]_vars PROVE TrackInv'
  OBVIOUS
<1>1. ASSUME NEW t \in Txs, Add(t) PROVE TrackInv'
  <2> DEFINE new == [tx |-> t, creationTime |-> now, result |-> None]
  <2>1. PICK m \in Biggest(state, new) : state' = (state \ Matching(state, t)) \cup {m}
    BY <1>1 DEF Add, AddPendingTransaction
  <2>2. m.tx = t
    BY <1>1, <2>1, AddedWins DEF TrackInv
  <2> HIDE DEF new
  <2>3. added' = added \cup {t} /\ tracked' = tracked \cup {t}
    BY <1>1 DEF Add
  <2>4. \A i \in state \ Matching(state, t) : ~(i.tx \subseteq t) /\ ~(t \subseteq i.tx)
    BY DEF Matching, IsOneIncludedInOther
  <2>5. Maximal'
    <3>1. \A s \in added : t \subseteq s => t = s
      BY <1>1 DEF Add, InOrder
    <3> QED BY <2>1, <2>2, <2>3, <2>4, <3>1 DEF TrackInv, Maximal
  <2>6. \A i \in Matching(state, t) : i.tx \subseteq t
    BY <1>1 DEF Matching, IsOneIncludedInOther, Add, InOrder, TrackInv, Maximal
  <2>7. ASSUME NEW s \in tracked' PROVE \E i \in state' : s \subseteq i.tx
    <3>1. CASE s = t
      BY <2>1, <2>2, <3>1
    <3>2. CASE s \in tracked
      <4>1. PICK i \in state : s \subseteq i.tx
        BY <3>2 DEF TrackInv, TrackedUntilResolved
      <4> QED BY <2>1, <2>2, <2>6, <4>1
    <3> QED BY <2>3, <2>7, <3>1, <3>2
  <2> QED BY <2>5, <2>7 DEF TrackInv, TrackedUntilResolved
<1>2. ASSUME NEW t \in Txs, Discard(t) PROVE TrackInv'
  BY <1>2, ClearedTracks DEF Discard
<1>3. CASE SaveResult
  <2>1. CASE check.result = "SUCCESS"
    BY <1>3, <2>1, ClearedTracks DEF SaveResult
  <2>2. CASE check.result # "SUCCESS"
    <3> DEFINE f(i) == IF i.tx \subseteq check.item.tx THEN [i EXCEPT !.result = check.result] ELSE i
    <3>1. state' = {f(i) : i \in state} /\ UNCHANGED <<added, tracked>>
      BY <1>3, <2>2 DEF SaveResult, WithResult
    <3>2. \A i \in state : f(i).tx = i.tx
      BY DEF TypeOK, Item
    <3> HIDE DEF f
    <3> QED BY <3>1, <3>2, SameItems
  <2> QED BY <2>1, <2>2
<1>4. CASE Restart
  <2> DEFINE f(i) == [i EXCEPT !.result = None]
  <2>1. state' = {f(i) : i \in state} /\ UNCHANGED <<added, tracked>>
    BY <1>4 DEF Restart
  <2>2. \A i \in state : f(i).tx = i.tx
    BY DEF TypeOK, Item
  <2> HIDE DEF f
  <2> QED BY <2>1, <2>2, SameItems
<1>5. CASE Tick \/ (\E i \in queue : Ask(i)) \/ Answer \/ TimePasses \/ Index \/ UNCHANGED vars
           \/ \E t \in Txs, s \in Outcomes : Confirm(t, s)
  BY <1>5, SameItems DEF Tick, Ask, Answer, TimePasses, Index, vars, Confirm
<1> QED BY <1>1, <1>2, <1>3, <1>4, <1>5 DEF Next, Poll

(* submitTransaction "tracks it as pending until finalized or discarded":   *)
(* whatever parts and merged transactions are added, some item covers every *)
(* transaction until then, if parts are added before what they are merged   *)
(* into.                                                                    *)
THEOREM NothingForgotten ==
  ASSUME InOrder PROVE Spec => []TrackedUntilResolved
<1>1. Init => TrackInv
  BY DEF Init, TrackInv, Maximal, TrackedUntilResolved
<1>2. TypeOK /\ TrackInv /\ [Next]_vars => TrackInv'
  BY TrackNext
<1>3. TrackInv => TrackedUntilResolved
  BY DEF TrackInv
<1> QED BY <1>1, <1>2, <1>3, TypeInit, TypeNext, PTL DEF Spec


-----------------------------------------------------------------------------
(* A failure is final                                                      *)

OnChain(x) == \E c \in chain : x \subseteq c.identifiers

(* The ledger will not take x, or anything x is merged into, any more.     *)
Over(x) == now > TTL[x] \/ (x \in Graced /\ now > Grace)

Doomed(x) ==
  \/ \E c \in chain : x \subseteq c.identifiers /\ c.status \in Failed
  \/ Over(x) /\ ~OnChain(x)

ChainInv ==
  /\ \A c \in chain : c.identifiers \in Txs
  /\ \A c, d \in chain : c # d => c.identifiers \cap d.identifiers = {}

PollInv ==
  /\ \A i \in queue : i.tx \in added
  /\ check.step # "idle" => check.item.tx \in added
  /\ check.step = "ask" => check.now <= now

VerdictInv ==
  ~missed =>
    /\ \A i \in state : i.result \in Failed => Doomed(i.tx)
    /\ check.step = "save" /\ check.result \in Failed => Doomed(check.item.tx)

FinalInv == ChainInv /\ PollInv /\ VerdictInv

(* Whatever the clock and the ledger do, what is doomed stays so.          *)
LEMMA DoomLasts ==
  ASSUME TypeOK, [Next]_vars, NEW x \in Txs, Doomed(x)
  PROVE  Doomed(x)'
<1>1. now \in Nat /\ now' \in Nat /\ now' >= now /\ chain \subseteq chain'
  <2>1. now \in Nat /\ (now' = now \/ now' = now + 1) /\ chain \subseteq chain'
    BY TxsAssumption
    DEF TypeOK, Next, Poll, Add, Discard, Confirm, Tick, Ask, Answer, SaveResult, Restart,
        TimePasses, Index, vars, ledgerVars
  <2> QED BY <2>1
<1>2. TTL[x] \in Nat /\ Grace \in Nat
  BY TxsAssumption
<1>3. Over(x) => Over(x)'
  BY <1>1, <1>2 DEF Over
<1>4. CASE \E t \in Txs, s \in Outcomes : Confirm(t, s)
  <2>1. PICK t \in Txs, s \in Outcomes : Confirm(t, s)
    BY <1>4
  <2>2. Over(x) => ~(x \subseteq t)
    <3>1. now <= TTL[t] /\ (t \in Graced => now <= Grace) /\ TTL[t] \in Nat
      BY <2>1, TxsAssumption DEF Confirm
    <3>2. x \subseteq t => TTL[t] <= TTL[x] /\ (x \in Graced => t \in Graced)
      BY MergeAssumption
    <3> QED BY <1>1, <1>2, <3>1, <3>2 DEF Over
  <2>3. chain' = chain \cup {[identifiers |-> t, status |-> s]}
    BY <2>1 DEF Confirm
  <2> QED BY <1>3, <2>2, <2>3 DEF Doomed, OnChain
<1>5. CASE UNCHANGED chain
  BY <1>3, <1>5 DEF Doomed, OnChain
<1> QED
  BY <1>4, <1>5 DEF Next, Poll, Add, Discard, Tick, Ask, Answer, SaveResult, Restart,
                    TimePasses, Index, vars, ledgerVars

LEMMA ChainNext == TypeOK /\ ChainInv /\ [Next]_vars => ChainInv'
<1> SUFFICES ASSUME TypeOK, ChainInv, [Next]_vars PROVE ChainInv'
  OBVIOUS
<1>1. CASE UNCHANGED chain
  BY <1>1 DEF ChainInv
<1>2. CASE \E t \in Txs, s \in Outcomes : Confirm(t, s)
  BY <1>2 DEF Confirm, ChainInv
<1> QED
  BY <1>1, <1>2 DEF Next, Poll, Add, Discard, Tick, Ask, Answer, SaveResult, Restart,
                    TimePasses, Index, vars, ledgerVars

(* The poll asks for transactions that were added, with a clock not ahead. *)
LEMMA PollNext == TypeOK /\ Maximal /\ PollInv /\ [Next]_vars => PollInv'
<1> SUFFICES ASSUME TypeOK, Maximal, PollInv, [Next]_vars PROVE PollInv'
  OBVIOUS
<1> USE DEF ledgerVars, pollVars
<1>0. now \in Nat
  BY TxsAssumption DEF TypeOK
<1>1. ASSUME NEW t \in Txs, Add(t) \/ Discard(t) \/ \E s \in Outcomes : Confirm(t, s)
      PROVE  PollInv'
  BY <1>1 DEF Add, Discard, Confirm, PollInv
<1>2. CASE Tick
  BY <1>2 DEF Tick, AllPending, PollInv, Maximal
<1>3. ASSUME NEW i \in queue, Ask(i) PROVE PollInv'
  BY <1>0, <1>3 DEF Ask, PollInv
<1>4. CASE Answer
  <2>1. /\ check'.step = "idle" \/ (check'.step = "save" /\ check'.item = check.item)
        /\ check.step = "ask" /\ UNCHANGED <<queue, added, now>>
    BY <1>4 DEF Answer, NoAnswer, NoCheck
  <2> QED BY <2>1 DEF PollInv
<1>5. CASE SaveResult \/ Restart
  BY <1>5 DEF SaveResult, Restart, NoCheck, PollInv
<1>6. CASE TimePasses
  BY <1>0, <1>6 DEF TimePasses, PollInv, TypeOK, Check, NoCheck
<1>7. CASE Index \/ UNCHANGED vars
  BY <1>7 DEF Index, vars, PollInv
<1> QED BY <1>1, <1>2, <1>3, <1>4, <1>5, <1>6, <1>7 DEF Next, Poll

(* An answer without the transaction dooms what has expired, unless it was  *)
(* overlooked on chain; an answer with a failed one dooms it as well.      *)
LEMMA AnswerDooms ==
  ASSUME TypeOK, PollInv, Answer, ~missed', check'.step = "save", check'.result \in Failed
  PROVE  Doomed(check.item.tx) /\ check'.item = check.item
<1>1. check.step = "ask" /\ check \in Check
  BY DEF Answer, TypeOK
<1>2. check.item \in Item /\ check.now \in Nat
  BY <1>1 DEF Check, NoCheck
<1>3. ASSUME NEW r \in Reported(check.item.tx),
             check' = [step |-> "save", item |-> check.item, result |-> r]
      PROVE  Doomed(check.item.tx) /\ check'.item = check.item
  BY <1>3 DEF Reported, Doomed, TypeOK
<1>4. CASE NoAnswer
  <2>1. HasTTLExpired(check.item, check.now) /\ check'.item = check.item
    BY <1>4 DEF NoAnswer, NoCheck
  <2>2. ~OnChain(check.item.tx)
    BY <1>4, <2>1 DEF NoAnswer, OnChain
  <2>3. /\ check.item.tx \in Txs /\ check.item.creationTime \in Nat /\ now \in Nat
        /\ check.now <= now
    BY <1>1, <1>2, TxsAssumption DEF Item, PollInv, TypeOK
  <2>4. TTL[check.item.tx] \in Nat /\ Grace \in Nat
    BY <2>3, TxsAssumption
  <2>5. Over(check.item.tx)
    BY <1>2, <2>1, <2>3, <2>4 DEF HasTTLExpired, Over
  <2> QED BY <2>1, <2>2, <2>5 DEF Doomed
<1> QED BY <1>3, <1>4 DEF Answer

LEMMA VerdictNext ==
  InOrder /\ TypeOK /\ Maximal /\ PollInv /\ VerdictInv /\ [Next]_vars => VerdictInv'
<1> SUFFICES ASSUME InOrder, TypeOK, Maximal, PollInv, VerdictInv, [Next]_vars, ~missed'
             PROVE  /\ \A i \in state' : i.result \in Failed => Doomed(i.tx)'
                    /\ check'.step = "save" /\ check'.result \in Failed => Doomed(check.item.tx)'
  BY DEF VerdictInv
<1> USE DEF ledgerVars, pollVars
<1>1. ~missed
  BY DEF Next, Poll, Add, Discard, Confirm, Tick, Ask, Answer, NoAnswer, SaveResult, Restart,
         TimePasses, Index, vars
<1>2. /\ \A i \in state : i.result \in Failed => Doomed(i.tx)
      /\ check.step = "save" /\ check.result \in Failed => Doomed(check.item.tx)
  BY <1>1 DEF VerdictInv
<1>3. \A x \in Txs : Doomed(x) => Doomed(x)'
  BY DoomLasts
<1>4. \A i \in state : i \in Item /\ i.tx \in Txs
  BY DEF TypeOK, Item
<1>5. None \notin Failed
  BY DEF None, Failed
<1>6. ASSUME NEW i \in state', i.result \in Failed, i \in state PROVE Doomed(i.tx)'
  BY <1>2, <1>3, <1>4, <1>6
<1>7. ASSUME NEW i \in state', i.result \in Failed PROVE Doomed(i.tx)'
  <2>1. ASSUME NEW t \in Txs, Add(t) PROVE i \in state
    <3> DEFINE new == [tx |-> t, creationTime |-> now, result |-> None]
    <3>1. PICK m \in Biggest(state, new) : state' = (state \ Matching(state, t)) \cup {m}
      BY <2>1 DEF Add, AddPendingTransaction
    <3>2. m \in state \/ m = new
      BY <3>1, BiggestChoice, MatchingSubset
    <3> QED BY <1>5, <1>7, <3>1, <3>2
  <2>2. ASSUME NEW t \in Txs, Discard(t) PROVE i \in state
    BY <1>7, <2>2 DEF Discard, Clear, Without
  <2>3. CASE SaveResult
    <3>1. CASE check.result = "SUCCESS"
      BY <1>6, <1>7, <2>3, <3>1 DEF SaveResult, Clear, Without
    <3>2. CASE check.result # "SUCCESS"
      <4>1. check.step = "save" /\ check.item \in Item /\ check.result \in Failed
        BY <2>3, <3>2 DEF SaveResult, TypeOK, Check, NoCheck, Statuses
      <4> DEFINE f(j) == IF j.tx \subseteq check.item.tx THEN [j EXCEPT !.result = check.result] ELSE j
      <4>2. PICK j \in state : i = f(j)
        BY <1>7, <2>3, <3>2 DEF SaveResult, WithResult
      <4>3. CASE j.tx \subseteq check.item.tx
        <5>1. j.tx = check.item.tx /\ i.tx = j.tx
          BY <1>4, <4>1, <4>2, <4>3 DEF Maximal, PollInv, Item
        <5> QED BY <1>2, <1>3, <1>4, <4>1, <4>2, <5>1
      <4>4. CASE ~(j.tx \subseteq check.item.tx)
        BY <1>6, <1>7, <4>2, <4>4
      <4> QED BY <4>3, <4>4
    <3> QED BY <3>1, <3>2
  <2>4. CASE Restart
    <3>1. PICK j \in state : i = [j EXCEPT !.result = None]
      BY <1>7, <2>4 DEF Restart
    <3>2. i.result = None
      BY <1>4, <3>1 DEF Item
    <3> QED BY <1>5, <1>7, <3>2
  <2>5. CASE UNCHANGED state
    BY <1>6, <1>7, <2>5
  <2> QED
    BY <1>6, <1>7, <2>1, <2>2, <2>3, <2>4, <2>5
    DEF Next, Poll, Confirm, Tick, Ask, Answer, TimePasses, Index, vars
<1>8. ASSUME check'.step = "save", check'.result \in Failed PROVE Doomed(check.item.tx)'
  <2>1. CASE Answer
    <3>1. Doomed(check.item.tx) /\ check'.item = check.item
      BY <1>8, <2>1, AnswerDooms
    <3>2. check.item.tx \in Txs
      BY <2>1 DEF Answer, TypeOK, Check, NoCheck, Item
    <3>3. PICK x \in Txs : x = check.item.tx
      BY <3>2
    <3> QED BY <1>3, <3>1, <3>3
  <2>2. CASE UNCHANGED check
    <3>1. check.item.tx \in Txs /\ Doomed(check.item.tx)
      BY <1>2, <1>8, <2>2 DEF TypeOK, Check, NoCheck, Item
    <3>2. PICK x \in Txs : x = check.item.tx
      BY <3>1
    <3> QED BY <1>3, <2>2, <3>1, <3>2
  <2>3. CASE (\E i \in queue : Ask(i)) \/ SaveResult \/ Restart
    BY <1>8, <2>3 DEF Ask, SaveResult, Restart, NoCheck
  <2> QED
    BY <2>1, <2>2, <2>3 DEF Next, Poll, Add, Discard, Confirm, Tick, TimePasses, Index, vars
<1> QED BY <1>7, <1>8

LEMMA FinalNext ==
  InOrder /\ TypeOK /\ TrackInv /\ FinalInv /\ [Next]_vars => FinalInv'
  BY ChainNext, PollNext, VerdictNext DEF FinalInv, TrackInv

(* What is doomed is on chain as a failure only.                           *)
LEMMA DoomedIsFinal == TypeOK /\ FinalInv => FinalUnlessMissed
<1> SUFFICES ASSUME TypeOK, FinalInv, ~missed,
                    NEW i \in state, i.result \in Failed,
                    NEW c \in chain, i.tx \subseteq c.identifiers
             PROVE  c.status \in Failed
  BY DEF FinalUnlessMissed, FailureIsFinal
<1>1. PICK d \in chain : i.tx \subseteq d.identifiers /\ d.status \in Failed
  BY DEF FinalInv, VerdictInv, Doomed, OnChain
<1>2. i.tx # {}
  BY TxsAssumption DEF TypeOK, Item
<1>3. c = d
  BY <1>1, <1>2 DEF FinalInv, ChainInv
<1> QED BY <1>1, <1>3

(* A transaction that failed neither has succeeded nor will, however long   *)
(* the answers take and however often the service is restarted, unless a    *)
(* query overlooked it on chain: the coins may be given back.              *)
THEOREM FailuresAreFinal ==
  ASSUME InOrder PROVE Spec => []FinalUnlessMissed
<1>1. Init => TrackInv /\ FinalInv
  BY DEF Init, TrackInv, Maximal, TrackedUntilResolved, FinalInv, ChainInv, PollInv, VerdictInv,
         NoCheck
<1>2. TypeOK /\ TrackInv /\ [Next]_vars => TrackInv'
  BY TrackNext
<1>3. TypeOK /\ TrackInv /\ FinalInv /\ [Next]_vars => FinalInv'
  BY FinalNext
<1> QED BY <1>1, <1>2, <1>3, DoomedIsFinal, TypeInit, TypeNext, PTL DEF Spec

=============================================================================
