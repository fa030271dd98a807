----------------------------- MODULE FacadeProofs -----------------------------
(***************************************************************************)
(* Theorems about Facade: types; a failed transaction is reverted by itself; *)
(* the history is truthful; available coins are safe to spend; no booking   *)
(* outlives what it was made for.                                           *)
(***************************************************************************)
EXTENDS Facade, FiniteSetTheorems, SequenceTheorems, TLAPS

-----------------------------------------------------------------------------
(* The inductive invariants                                                *)

Reverts(r, i) == Running(r) /\ revert[r].tx = i

Reverters == Calls \cup {Subscription}

\* A snapshot the subscription has not worked off names i.
Queued(i) == \E k \in DOMAIN queue : i \in queue[k]

\* i is not on chain as a success and never will be, or a verdict was wrong.
Failing(i) ==
  \/ i \in expired \/ chain[i] \in {"FAILURE", "PARTIAL_SUCCESS"}
  \/ "wrong_verdict" \in mishaps

Unsent == {"idle", "building", "recipe"}

\* How far a call is bounds what the service, the node and the history know.
CallInv(i) ==
  /\ i \in expired => chain[i] = "none"
  /\ pending[i] = "failed" \/ Queued(i) => Failing(i)
  /\ stage[i] \in Unsent => ~Queued(i) /\ pending[i] = "none" /\ i \notin reverted \cup mempool
  /\ stage[i] \in {"finalized", "submitting"} => i \notin mempool
  /\ stage[i] = "ended" /\ (pending[i] # "none" \/ Queued(i)) => i \in reverted
  /\ stage[i] = "idle" => inputs[i] = {}
  /\ chain[i] # "none" => i \in mempool
  /\ lifecycle[i] = "rejected" => i \in reverted

\* The user's call reverts its own transaction; the subscription reverts
\* failed ones and clears them.
RevertInv(r) ==
  Running(r) =>
    /\ revert[r].tx \in reverted
    /\ r # Subscription => revert[r].tx = r /\ stage[r] = "ended"
    /\ r = Subscription => revert[r].clears

CommonInv == (\A i \in Calls : CallInv(i)) /\ (\A r \in Reverters : RevertInv(r))

\* No transaction has been reverted twice, or after it was sent, or because of
\* a wrong verdict.
Orderly == mishaps \cap {"lost_answer", "late_revert", "stale_revert", "wrong_verdict"} = {}

OrderlyInv ==
  Orderly =>
    /\ \A i \in Calls : i \in mempool => stage[i] = "submitted"
    /\ \A i \in reverted : Failing(i) \/ (stage[i] = "ended" /\ i \notin mempool)
    /\ \A r, s \in Reverters : Running(r) /\ Running(s) /\ r # s => revert[r].tx # revert[s].tx

\* The transaction i may still need, or give back, its coins of the wallet w.
Keeps(i, w) ==
  \/ i \notin reverted /\ stage[i] # "ended"
  \/ \E r \in Reverters : Reverts(r, i) /\ w \in revert[r].left

OneKeeper ==
  /\ \A i \in Calls : chain[i] # "PARTIAL_SUCCESS"
  /\ \A i \in Calls : \A c \in inputs[i] :
       Keeps(i, WalletOf[c]) => /\ coin[c] # "available"
                                /\ \A j \in Calls \ {i} : c \in inputs[j] => ~Keeps(j, WalletOf[c])
  /\ \A c \in spent : \E i \in Calls : c \in inputs[i] /\ chain[i] = "SUCCESS"

\* None of the faults that hand a coin out twice has happened.
SafeMishaps == mishaps \subseteq {"late_step", "revert_error"}

SafeInv == SafeMishaps => OneKeeper

\* The coin c is booked for i, or i has spent it.
Holds(i, c) == c \in inputs[i] /\ (Keeps(i, WalletOf[c]) \/ c \in spent)

Held == \A c \in Coins : coin[c] = "booked" => \E i \in Calls : Holds(i, c)

BookedInv == mishaps \subseteq {"partial", "wrong_verdict"} => Held

\* The service tracks what the user has finalized, until it is on chain.
TrackedInv ==
  \A i \in Calls :
    /\ i \notin reverted /\ stage[i] \in {"finalized", "submitting", "submitted"} =>
         pending[i] # "none" \/ chain[i] = "SUCCESS"
    /\ chain[i] = "SUCCESS" => inputs[i] \subseteq spent

\* A call with a check to come has booked in the unshielded wallet only.
PlanInv ==
  \A i \in Calls : stage[i] = "building" =>
    /\ UnbooksAtChecks(plan[i])
    /\ (\E k \in DOMAIN plan[i] : plan[i][k] \in Checks) =>
         \A c \in inputs[i] : WalletOf[c] = "unshielded"

-----------------------------------------------------------------------------
(* Types                                                                   *)

LEMMA RevertsAreRecords ==
  ASSUME TypeOK
  PROVE  /\ \A r \in Reverters : Running(r) <=> revert[r] \in Revert
         /\ \A r \in Reverters : Running(r) =>
              revert[r].tx \in Calls /\ revert[r].left \in SUBSET Wallets
  BY FacadeAssumption DEF TypeOK, Running, Revert, Reverters

LEMMA PublishTyped ==
  ASSUME TypeOK, NEW p \in [Calls -> {"none", "pending", "failed"}], Publish(p)
  PROVE  /\ pending' = p /\ queue' \in Seq((SUBSET Calls) \ {{}})
         /\ \A j \in Calls : Queued(j)' <=> Queued(j) \/ p[j] = "failed"
<1>1. pending' = p /\ queue \in Seq((SUBSET Calls) \ {{}})
  BY DEF TypeOK, Publish
<1>2. CASE FailedIn(p) = {}
  BY <1>1, <1>2 DEF Publish, FailedIn, Queued
<1>3. CASE FailedIn(p) # {}
  <2>1. FailedIn(p) \in (SUBSET Calls) \ {{}} /\ queue' = Append(queue, FailedIn(p))
    BY <1>3 DEF Publish, FailedIn
  <2>2. \A j : j \in FailedIn(p) <=> j \in Calls /\ p[j] = "failed"
    BY DEF FailedIn
  <2> HIDE DEF FailedIn
  <2>3. queue' \in Seq((SUBSET Calls) \ {{}}) /\ Len(queue') = Len(queue) + 1
        /\ queue'[Len(queue) + 1] = FailedIn(p)
        /\ \A k \in 1..Len(queue) : queue'[k] = queue[k]
    BY <1>1, <2>1
  <2>4. ASSUME NEW j \in Calls
        PROVE  Queued(j)' <=> Queued(j) \/ p[j] = "failed"
    <3>1. Queued(j) <=> \E k \in 1..Len(queue) : j \in queue[k]
      BY <1>1 DEF Queued
    <3>2. Queued(j)' <=> \E k \in 1..Len(queue) + 1 : j \in queue'[k]
      BY <2>3 DEF Queued
    <3>3. 1..Len(queue) + 1 = (1..Len(queue)) \cup {Len(queue) + 1}
      BY <1>1
    <3> QED BY <2>2, <2>3, <3>1, <3>2, <3>3
  <2> QED BY <1>1, <2>3, <2>4
<1> QED BY <1>2, <1>3

LEMMA AddPendingTyped ==
  ASSUME TypeOK, NEW i \in Calls, AddPending(i)
  PROVE  /\ pending' = [pending EXCEPT ![i] = IF @ = "none" THEN "pending" ELSE @]
         /\ pending' \in [Calls -> {"none", "pending", "failed"}]
         /\ queue' \in Seq((SUBSET Calls) \ {{}})
         /\ \A j \in Calls : Queued(j)' <=> Queued(j) \/ pending'[j] = "failed"
<1> DEFINE p == [pending EXCEPT ![i] = IF @ = "none" THEN "pending" ELSE @]
<1>1. p \in [Calls -> {"none", "pending", "failed"}]
  BY DEF TypeOK
<1>2. Publish(p)
  BY DEF AddPending
<1> HIDE DEF p
<1>3. /\ pending' = p /\ queue' \in Seq((SUBSET Calls) \ {{}})
      /\ \A j \in Calls : Queued(j)' <=> Queued(j) \/ p[j] = "failed"
  BY <1>1, <1>2, PublishTyped
<1> QED BY <1>1, <1>3 DEF p

LEMMA ClearPendingTyped ==
  ASSUME TypeOK, NEW i \in Calls, ClearPending(i)
  PROVE  /\ pending' = [pending EXCEPT ![i] = "none"]
         /\ pending' \in [Calls -> {"none", "pending", "failed"}]
         /\ queue' \in Seq((SUBSET Calls) \ {{}})
         /\ \A j \in Calls : Queued(j)' <=> Queued(j) \/ pending'[j] = "failed"
<1> DEFINE p == [pending EXCEPT ![i] = "none"]
<1>1. p \in [Calls -> {"none", "pending", "failed"}]
  BY DEF TypeOK
<1>2. Publish(p)
  BY DEF ClearPending
<1> HIDE DEF p
<1>3. /\ pending' = p /\ queue' \in Seq((SUBSET Calls) \ {{}})
      /\ \A j \in Calls : Queued(j)' <=> Queued(j) \/ p[j] = "failed"
  BY <1>1, <1>2, PublishTyped
<1> QED BY <1>1, <1>3 DEF p

LEMMA WorkedOff ==
  ASSUME TypeOK, NEW i \in Calls, AutoRevert(i)
  PROVE  /\ queue' \in Seq((SUBSET Calls) \ {{}})
         /\ Queued(i)
         /\ \A j \in Calls : /\ Queued(j)' => Queued(j)
                             /\ Queued(j) /\ j # i => Queued(j)'
<1>1. /\ queue \in Seq((SUBSET Calls) \ {{}}) /\ queue # <<>> /\ i \in queue[1]
      /\ queue' = IF queue[1] = {i} THEN Tail(queue) ELSE [queue EXCEPT ![1] = @ \ {i}]
  BY DEF TypeOK, AutoRevert
<1>2. Queued(i)
  BY <1>1 DEF Queued
<1>3. CASE queue[1] = {i}
  <2>1. /\ queue' \in Seq((SUBSET Calls) \ {{}}) /\ Len(queue') = Len(queue) - 1
        /\ \A k \in 1..Len(queue') : queue'[k] = queue[k + 1]
    BY <1>1, <1>3
  <2>2. ASSUME NEW j \in Calls
        PROVE  (Queued(j)' => Queued(j)) /\ (Queued(j) /\ j # i => Queued(j)')
    <3>1. ASSUME Queued(j)' PROVE Queued(j)
      <4>1. PICK k \in 1..Len(queue') : j \in queue'[k]
        BY <2>1, <3>1 DEF Queued
      <4>2. k + 1 \in DOMAIN queue /\ j \in queue[k + 1]
        BY <1>1, <2>1, <4>1
      <4> QED BY <4>2 DEF Queued
    <3>2. ASSUME Queued(j), j # i PROVE Queued(j)'
      <4>1. PICK k \in 1..Len(queue) : j \in queue[k]
        BY <1>1, <3>2 DEF Queued
      <4>2. k # 1
        BY <1>3, <3>2, <4>1
      <4>3. k - 1 \in 1..Len(queue') /\ queue'[k - 1] = queue[k]
        BY <1>1, <2>1, <4>1, <4>2
      <4> QED BY <2>1, <4>1, <4>3 DEF Queued
    <3> QED BY <3>1, <3>2
  <2> QED BY <1>2, <2>1, <2>2
<1>4. CASE queue[1] # {i}
  <2>1. queue[1] \in (SUBSET Calls) \ {{}} /\ 1 \in DOMAIN queue
    BY <1>1
  <2>2. queue[1] \ {i} \in (SUBSET Calls) \ {{}}
    BY <1>1, <1>4, <2>1
  <2>3. /\ queue' \in Seq((SUBSET Calls) \ {{}}) /\ DOMAIN queue' = DOMAIN queue
        /\ queue'[1] = queue[1] \ {i}
        /\ \A k \in DOMAIN queue : k # 1 => queue'[k] = queue[k]
    BY <1>1, <1>4, <2>1, <2>2
  <2>4. \A j \in Calls : \A k \in DOMAIN queue :
          (j \in queue'[k] => j \in queue[k]) /\ (j \in queue[k] /\ j # i => j \in queue'[k])
    BY <2>3
  <2> QED BY <1>2, <2>3, <2>4 DEF Queued
<1> QED BY <1>3, <1>4

LEMMA RevertStarts ==
  ASSUME TypeOK, NEW r \in Reverters, NEW i \in Calls, NEW b \in BOOLEAN, StartRevert(r, i, b)
  PROVE  /\ ~Running(r)
         /\ revert' = [revert EXCEPT ![r] = [tx |-> i, left |-> Wallets, clears |-> b]]
         /\ revert' \in [Reverters -> Revert \cup {Idle, Dead}]
         /\ reverted' = reverted \cup {i} /\ reverted' \in SUBSET Calls
         /\ Running(r)' /\ revert'[r].tx = i /\ revert'[r].left = Wallets /\ revert'[r].clears = b
         /\ \A s \in Reverters \ {r} : revert'[s] = revert[s] /\ (Running(s)' <=> Running(s))
<1>1. [tx |-> i, left |-> Wallets, clears |-> b] \in Revert
  BY DEF Revert
<1>2. [tx |-> i, left |-> Wallets, clears |-> b] \notin {Idle, Dead}
  BY FacadeAssumption
<1> QED BY <1>1, <1>2 DEF TypeOK, StartRevert, Running, Reverters

LEMMA ReleaseTyped ==
  ASSUME TypeOK, NEW i \in Calls, NEW w, ReleaseCoins(i, w)
  PROVE  coin' \in [Coins -> {"available", "booked", "gone"}]
  BY DEF TypeOK, ReleaseCoins

\* A verdict clears a success and keeps a failure, or is wrong.
LEMMA VerdictTyped ==
  ASSUME TypeOK, NEW i \in Calls, Verdict(i)
  PROVE  /\ \/ chain[i] = "SUCCESS" /\ pending' = [pending EXCEPT ![i] = "none"]
            \/ /\ pending' = [pending EXCEPT ![i] = "failed"]
               /\ chain[i] # "SUCCESS" \/ "wrong_verdict" \in mishaps'
         /\ pending' \in [Calls -> {"none", "pending", "failed"}]
         /\ queue' \in Seq((SUBSET Calls) \ {{}})
         /\ \A j \in Calls : Queued(j)' <=> Queued(j) \/ pending'[j] = "failed"
         /\ expired' \in {expired, expired \cup {i}}
         /\ i \in expired' => i \in expired \/ chain[i] = "none"
         /\ Failing(i)' \/ chain[i] = "SUCCESS"
         /\ mishaps' \in {mishaps, mishaps \cup {"wrong_verdict"}}
         /\ mishaps' \in SUBSET Faults
<1>1. /\ expired' \in {expired, expired \cup {i}}
      /\ i \in expired' => i \in expired \/ chain[i] = "none"
      /\ mishaps' \in {mishaps, mishaps \cup {"wrong_verdict"}}
      /\ mishaps' \in SUBSET Faults
  BY DEF Verdict, Mishap, TypeOK
<1>2. Failing(i)' \/ chain[i] = "SUCCESS"
  BY DEF Verdict, Mishap, Failing, TypeOK
<1>3. CASE ClearPending(i) /\ chain[i] = "SUCCESS"
  BY <1>1, <1>2, <1>3, ClearPendingTyped
<1>4. CASE SaveFailure(i) /\ (chain[i] # "SUCCESS" \/ "wrong_verdict" \in mishaps')
  <2> DEFINE p == [pending EXCEPT ![i] = "failed"]
  <2>1. p \in [Calls -> {"none", "pending", "failed"}]
    BY DEF TypeOK
  <2>2. Publish(p)
    BY <1>4 DEF SaveFailure
  <2> HIDE DEF p
  <2>3. /\ pending' = p /\ queue' \in Seq((SUBSET Calls) \ {{}})
        /\ \A j \in Calls : Queued(j)' <=> Queued(j) \/ p[j] = "failed"
    BY <2>1, <2>2, PublishTyped
  <2> QED BY <1>1, <1>2, <1>4, <2>1, <2>3 DEF p
<1> QED BY <1>3, <1>4 DEF Verdict, Mishap

LEMMA RevertWalletTyped ==
  ASSUME TypeOK, NEW r \in Reverters, NEW w \in Wallets, RevertWallet(r, w)
  PROVE  /\ coin' \in [Coins -> {"available", "booked", "gone"}]
         /\ revert' \in [Reverters -> Revert \cup {Idle, Dead}]
         /\ revert[r].tx \in Calls /\ Running(r) /\ w \in revert[r].left
         /\ revert'[r].left = revert[r].left \ {w}
         /\ \A s \in Reverters \ {r} : revert'[s] = revert[s]
         /\ \A s \in Reverters : /\ Running(s)' <=> Running(s)
                                /\ revert'[s].tx = revert[s].tx
                                /\ revert'[s].clears = revert[s].clears
<1>1. revert[r] \in Revert /\ revert[r].tx \in Calls
  BY RevertsAreRecords DEF RevertWallet
<1>2. coin' \in [Coins -> {"available", "booked", "gone"}]
  BY <1>1, ReleaseTyped DEF RevertWallet
<1> DEFINE rest == [revert[r] EXCEPT !.left = @ \ {w}]
<1>3. /\ rest \in Revert /\ rest.tx = revert[r].tx /\ rest.clears = revert[r].clears
      /\ rest.left = revert[r].left \ {w}
  BY <1>1 DEF Revert
<1>4. rest \notin {Idle, Dead}
  BY <1>3, FacadeAssumption DEF Revert
<1>5. revert' = [revert EXCEPT ![r] = rest]
  BY DEF RevertWallet
<1>6. revert \in [Reverters -> Revert \cup {Idle, Dead}]
  BY DEF TypeOK, Reverters
<1>7. Running(r) /\ w \in revert[r].left
  BY DEF RevertWallet
<1> HIDE DEF rest
<1>8. revert' \in [Reverters -> Revert \cup {Idle, Dead}] /\ revert'[r] = rest
      /\ \A s \in Reverters \ {r} : revert'[s] = revert[s]
  BY <1>3, <1>5, <1>6
<1> QED BY <1>1, <1>2, <1>3, <1>4, <1>7, <1>8 DEF Running

LEMMA AdvanceTyped ==
  ASSUME TypeOK, NEW i \in Calls, stage[i] = "building", Advance(i)
  PROVE  /\ stage' \in [Calls -> Stages]
         /\ plan' \in [Calls -> Seq(Wallets \cup Checks)]
         /\ \A j \in Calls : stage'[j] = "building" => plan'[j] # <<>>
         /\ stage'[i] \in {"building", "recipe"}
         /\ stage'[i] = "building" => plan'[i] = Tail(plan[i])
         /\ \A j \in Calls \ {i} : stage'[j] = stage[j] /\ plan'[j] = plan[j]
<1>1. plan[i] \in Seq(Wallets \cup Checks) /\ plan[i] # <<>>
  BY DEF TypeOK
<1>2. /\ Tail(plan[i]) \in Seq(Wallets \cup Checks)
      /\ Len(plan[i]) # 1 => Tail(plan[i]) # <<>>
  <2>1. ASSUME NEW S, NEW q \in Seq(S), q # <<>>
        PROVE  Tail(q) \in Seq(S) /\ (Len(q) # 1 => Tail(q) # <<>>)
    <3>1. Tail(q) \in Seq(S) /\ Len(Tail(q)) = Len(q) - 1 /\ Len(q) \in Nat
      BY <2>1, HeadTailProperties
    <3> QED BY <3>1
  <2> QED BY <1>1, <2>1
<1>3. /\ plan' = [plan EXCEPT ![i] = Tail(plan[i])]
      /\ stage' = [stage EXCEPT ![i] = IF Len(plan[i]) = 1 THEN "recipe" ELSE stage[i]]
  BY DEF Advance
<1>4. plan \in [Calls -> Seq(Wallets \cup Checks)] /\ stage \in [Calls -> Stages]
      /\ \A j \in Calls : stage[j] = "building" => plan[j] # <<>>
  BY DEF TypeOK
<1> QED BY <1>1, <1>2, <1>3, <1>4 DEF Stages


\* What Build(i) does to the types.
LEMMA BuildTyped ==
  ASSUME TypeOK, NEW i \in Calls, Build(i)
  PROVE  TypeOK'
<1> USE DEF walletVars, callVars, serviceVars, revertVars, ledgerVars
<1>1. ASSUME NEW flow \in Flows, Start(i, flow) PROVE TypeOK'
  <2>1. flow \in Seq(Wallets \cup Checks) /\ flow # <<>>
    BY FacadeAssumption
  <2> QED BY <1>1, <2>1 DEF Start, TypeOK, Stages
<1>2. ASSUME NEW w \in Wallets, NEW S \in SUBSET Coins, Book(i, w, S) PROVE TypeOK'
  <2>1. stage[i] = "building"
    BY <1>2 DEF Book, At
  <2>2. /\ stage' \in [Calls -> Stages] /\ plan' \in [Calls -> Seq(Wallets \cup Checks)]
        /\ \A j \in Calls : stage'[j] = "building" => plan'[j] # <<>>
    BY <1>2, <2>1, AdvanceTyped DEF Book
  <2>3. inputs' \in [Calls -> SUBSET Coins] /\ coin' \in [Coins -> {"available", "booked", "gone"}]
    BY <1>2 DEF Book, TypeOK
  <2> QED BY <1>2, <2>2, <2>3 DEF Book, TypeOK
<1>3. CASE PassCheck(i)
  <2>1. stage[i] = "building"
    BY <1>3 DEF PassCheck, At
  <2>2. /\ stage' \in [Calls -> Stages] /\ plan' \in [Calls -> Seq(Wallets \cup Checks)]
        /\ \A j \in Calls : stage'[j] = "building" => plan'[j] # <<>>
    BY <1>3, <2>1, AdvanceTyped DEF PassCheck
  <2> QED BY <1>3, <2>2 DEF PassCheck, TypeOK
<1>4. CASE FailCheck(i)
  <2>1. coin' \in [Coins -> {"available", "booked", "gone"}]
    BY <1>4, ReleaseTyped DEF FailCheck
  <2> QED BY <1>4, <2>1 DEF FailCheck, TypeOK, Stages
<1>5. CASE Throw(i)
  BY <1>5 DEF Throw, OrdinaryOr, Mishap, TypeOK, Stages
<1>6. CASE Finalize(i)
  <2>1. /\ pending' \in [Calls -> {"none", "pending", "failed"}]
        /\ queue' \in Seq((SUBSET Calls) \ {{}})
    BY <1>6, AddPendingTyped DEF Finalize
  <2> QED BY <1>6, <2>1 DEF Finalize, TypeOK, Stages
<1>7. CASE ProveFails(i)
  <2>1. revert' \in [Reverters -> Revert \cup {Idle, Dead}] /\ reverted' \in SUBSET Calls
    BY <1>7, RevertStarts DEF ProveFails, Reverters
  <2> QED BY <1>7, <2>1 DEF ProveFails, OrdinaryOr, Mishap, TypeOK, Stages, Reverters
<1> QED BY <1>1, <1>2, <1>3, <1>4, <1>5, <1>6, <1>7 DEF Build

LEMMA TypeNext == TypeOK /\ [Next]_vars => TypeOK'
<1> SUFFICES ASSUME TypeOK, [Next]_vars PROVE TypeOK'
  OBVIOUS
<1> USE DEF walletVars, callVars, serviceVars, revertVars, ledgerVars
<1>1. CASE UNCHANGED vars
  BY <1>1 DEF vars, TypeOK
<1>2. ASSUME NEW i \in Calls, Build(i) PROVE TypeOK'
  BY <1>2, BuildTyped
<1>3. ASSUME NEW i \in Calls, Submit(i) PROVE TypeOK'
  <2>1. /\ pending' \in [Calls -> {"none", "pending", "failed"}]
        /\ queue' \in Seq((SUBSET Calls) \ {{}})
    BY <1>3, AddPendingTyped DEF Submit
  <2> QED BY <1>3, <2>1 DEF Submit, TypeOK, Stages
<1>4. ASSUME NEW i \in Calls, Accept(i) PROVE TypeOK'
  BY <1>4 DEF Accept, TypeOK, Stages
<1>5. ASSUME NEW i \in Calls, SubmissionFails(i) PROVE TypeOK'
  <2>1. revert' \in [Reverters -> Revert \cup {Idle, Dead}] /\ reverted' \in SUBSET Calls
    BY <1>5, RevertStarts DEF SubmissionFails, Reverters
  <2> QED BY <1>5, <2>1 DEF SubmissionFails, OrdinaryOr, Mishap, TypeOK, Stages, Reverters
<1>6. ASSUME NEW i \in Calls, UserRevert(i) PROVE TypeOK'
  <2>1. revert' \in [Reverters -> Revert \cup {Idle, Dead}] /\ reverted' \in SUBSET Calls
    BY <1>6, RevertStarts DEF UserRevert, Reverters
  <2> QED BY <1>6, <2>1 DEF UserRevert, OrdinaryOr, Mishap, TypeOK, Stages, Reverters
<1>7. ASSUME NEW i \in Calls, Verdict(i) PROVE TypeOK'
  BY <1>7, VerdictTyped DEF Verdict, TypeOK
<1>8. ASSUME NEW i \in Calls, AutoRevert(i) PROVE TypeOK'
  <2>1. revert' \in [Reverters -> Revert \cup {Idle, Dead}] /\ reverted' \in SUBSET Calls
    BY <1>8, RevertStarts DEF AutoRevert, Reverters
  <2>2. queue' \in Seq((SUBSET Calls) \ {{}})
    BY <1>8, WorkedOff
  <2> QED BY <1>8, <2>1, <2>2 DEF AutoRevert, OrdinaryOr, Mishap, TypeOK, Reverters
<1>9. ASSUME NEW i \in Calls, NEW S \in SUBSET Coins,
             NEW s \in {"SUCCESS", "FAILURE", "PARTIAL_SUCCESS"}, Include(i, s, S)
      PROVE TypeOK'
  BY <1>9 DEF Include, Mishap, TypeOK
<1>10. ASSUME NEW i \in Calls, NEW w \in Wallets, Sync(w, i) PROVE TypeOK'
  BY <1>10 DEF Sync, TypeOK
<1>11. ASSUME NEW r \in Reverters, Reverting(r) PROVE TypeOK'
  <2>1. ASSUME NEW w \in Wallets, RevertWallet(r, w) PROVE TypeOK'
    BY <2>1, RevertWalletTyped DEF RevertWallet, TypeOK, Reverters
  <2>2. CASE FinishRevert(r)
    <3>1. revert' \in [Reverters -> Revert \cup {Idle, Dead}]
      BY <2>2 DEF FinishRevert, TypeOK, Reverters
    <3>2. revert[r].tx \in Calls
      BY <2>2, RevertsAreRecords DEF FinishRevert
    <3>3. /\ pending' \in [Calls -> {"none", "pending", "failed"}]
          /\ queue' \in Seq((SUBSET Calls) \ {{}})
          /\ lifecycle' \in [Calls -> {"none", "pending", "finalized", "rejected"}]
      <4>1. CASE revert[r].clears
        <5>1. ClearPending(revert[r].tx)
          BY <2>2, <4>1 DEF FinishRevert
        <5> QED BY <2>2, <3>2, <4>1, <5>1, ClearPendingTyped DEF FinishRevert, TypeOK
      <4>2. CASE ~revert[r].clears
        BY <2>2, <4>2 DEF FinishRevert, TypeOK
      <4> QED BY <4>1, <4>2
    <3> QED BY <2>2, <3>1, <3>3 DEF FinishRevert, TypeOK, Reverters
  <2> QED BY <1>11, <2>1, <2>2 DEF Reverting
<1>12. CASE AutoRevertFails
  BY <1>12 DEF AutoRevertFails, Mishap, TypeOK
<1> QED BY <1>1, <1>2, <1>3, <1>4, <1>5, <1>6, <1>7, <1>8, <1>9, <1>10, <1>11, <1>12
        DEF Next, Reverters


LEMMA TypeInit == Init => TypeOK
  BY FacadeAssumption DEF Init, TypeOK, Stages

\* Every variable of the facade, the service, the node and the wallets' view
\* of the coins keeps its type, for any calls, coins, wallets and flows.
THEOREM TypeCorrect == Spec => []TypeOK
  BY TypeInit, TypeNext, PTL DEF Spec

-----------------------------------------------------------------------------
(* Failed transactions are reverted                                        *)

\* What the property needs besides types: the subscription clears what it
\* has reverted.
AwaitInv ==
  /\ FailedAwaitsRevert
  /\ Running(Subscription) => revert[Subscription].clears

\* A write of the service publishes every failed item again.
LEMMA PublishAwaits ==
  ASSUME TypeOK, AwaitInv,
         \A j \in Calls : pending'[j] = "failed" => Queued(j)',
         UNCHANGED revert, mishaps \subseteq mishaps'
  PROVE  AwaitInv'
  BY DEF AwaitInv, FailedAwaitsRevert, Queued, Running

\* A call reverts on its own, and nothing the property reads changes.
LEMMA UserRevertAwaits ==
  ASSUME TypeOK, AwaitInv, NEW i \in Calls, NEW b \in BOOLEAN, StartRevert(i, i, b),
         UNCHANGED serviceVars, mishaps \subseteq mishaps'
  PROVE  AwaitInv'
<1>1. i \in Reverters /\ Subscription \in Reverters /\ i # Subscription
  BY FacadeAssumption DEF Reverters
<1>2. revert'[Subscription] = revert[Subscription] /\ (Running(Subscription)' <=> Running(Subscription))
  BY <1>1, RevertStarts
<1> QED BY <1>2 DEF AwaitInv, FailedAwaitsRevert, serviceVars

LEMMA AwaitNext == TypeOK /\ AwaitInv /\ [Next]_vars => AwaitInv'
<1> SUFFICES ASSUME TypeOK, AwaitInv, [Next]_vars PROVE AwaitInv'
  OBVIOUS
<1> USE DEF walletVars, callVars, revertVars, ledgerVars
<1>1. CASE UNCHANGED <<serviceVars, revert, mishaps>>
  BY <1>1 DEF serviceVars, AwaitInv, FailedAwaitsRevert, Running
<1>2. ASSUME NEW i \in Calls, Build(i) PROVE AwaitInv'
  <2>1. CASE Throw(i)
    BY <2>1 DEF Throw, OrdinaryOr, Mishap, serviceVars, AwaitInv, FailedAwaitsRevert, Running
  <2>2. CASE Finalize(i)
    <3>1. \A j \in Calls : pending'[j] = "failed" => Queued(j)'
      BY <2>2, AddPendingTyped DEF Finalize
    <3> QED BY <2>2, <3>1, PublishAwaits DEF Finalize
  <2>3. CASE ProveFails(i)
    BY <2>3, UserRevertAwaits DEF ProveFails, OrdinaryOr, Mishap
  <2> QED BY <1>1, <1>2, <2>1, <2>2, <2>3
          DEF Build, Start, Book, PassCheck, FailCheck
<1>3. ASSUME NEW i \in Calls, Submit(i) PROVE AwaitInv'
  <2>1. \A j \in Calls : pending'[j] = "failed" => Queued(j)'
    BY <1>3, AddPendingTyped DEF Submit
  <2> QED BY <1>3, <2>1, PublishAwaits DEF Submit
<1>4. ASSUME NEW i \in Calls, SubmissionFails(i) PROVE AwaitInv'
  BY <1>4, UserRevertAwaits DEF SubmissionFails, OrdinaryOr, Mishap
<1>5. ASSUME NEW i \in Calls, UserRevert(i) PROVE AwaitInv'
  BY <1>5, UserRevertAwaits DEF UserRevert, OrdinaryOr, Mishap
<1>6. ASSUME NEW i \in Calls, Verdict(i) PROVE AwaitInv'
  BY <1>6, VerdictTyped, PublishAwaits DEF Verdict, Mishap
<1>7. ASSUME NEW i \in Calls, AutoRevert(i) PROVE AwaitInv'
  <2>1. /\ Running(Subscription)' /\ revert'[Subscription].tx = i /\ revert'[Subscription].clears
        /\ ~Running(Subscription)
    BY <1>7, RevertStarts DEF AutoRevert, Reverters
  <2>2. \A j \in Calls : Queued(j) /\ j # i => Queued(j)'
    BY <1>7, WorkedOff
  <2>3. pending' = pending /\ mishaps \subseteq mishaps'
    BY <1>7 DEF AutoRevert, OrdinaryOr, Mishap
  <2> QED BY <2>1, <2>2, <2>3 DEF AwaitInv, FailedAwaitsRevert, Queued
<1>8. ASSUME NEW i \in Calls, NEW S \in SUBSET Coins,
             NEW s \in {"SUCCESS", "FAILURE", "PARTIAL_SUCCESS"}, Include(i, s, S)
      PROVE AwaitInv'
  BY <1>8 DEF Include, Mishap, serviceVars, AwaitInv, FailedAwaitsRevert, Running
<1>9. ASSUME NEW r \in Reverters, NEW w \in Wallets, RevertWallet(r, w) PROVE AwaitInv'
  <2>1. /\ revert'[Subscription].tx = revert[Subscription].tx
        /\ revert'[Subscription].clears = revert[Subscription].clears
        /\ Running(Subscription)' <=> Running(Subscription)
    BY <1>9, RevertWalletTyped DEF Reverters
  <2> QED BY <1>9, <2>1 DEF RevertWallet, serviceVars, AwaitInv, FailedAwaitsRevert
<1>10. ASSUME NEW r \in Reverters, FinishRevert(r) PROVE AwaitInv'
  <2>1. revert[r].tx \in Calls
    BY <1>10, RevertsAreRecords DEF FinishRevert
  <2>2. Running(Subscription)' <=> Running(Subscription) /\ r # Subscription
    BY <1>10, FacadeAssumption DEF FinishRevert, Running, TypeOK, Reverters
  <2>3. r # Subscription => revert'[Subscription] = revert[Subscription]
    BY <1>10 DEF FinishRevert, TypeOK, Reverters
  <2>4. CASE revert[r].clears
    <3>1. \A j \in Calls : pending'[j] = "failed" => Queued(j)'
      BY <1>10, <2>1, <2>4, ClearPendingTyped DEF FinishRevert
    <3> QED BY <1>10, <2>2, <2>3, <3>1 DEF FinishRevert, AwaitInv, FailedAwaitsRevert, Queued
  <2>5. CASE ~revert[r].clears
    <3>1. r # Subscription /\ UNCHANGED <<pending, queue, mishaps>>
      BY <1>10, <2>5 DEF FinishRevert, AwaitInv, serviceVars
    <3> QED BY <2>2, <2>3, <3>1 DEF AwaitInv, FailedAwaitsRevert
  <2> QED BY <2>4, <2>5
<1>11. CASE AutoRevertFails
  BY <1>11 DEF AutoRevertFails, Mishap, AwaitInv, FailedAwaitsRevert, Running, TypeOK
<1> QED BY <1>1, <1>2, <1>3, <1>4, <1>5, <1>6, <1>7, <1>8, <1>9, <1>10, <1>11
        DEF Next, Reverting, Reverters, vars, Accept, Sync

\* Whatever fails is reverted without the user asking for it: as long as the
\* service lists a failed transaction, the subscription has it ahead of it or
\* is at it, unless a revert threw and ended the subscription.
THEOREM FailedIsReverted == Spec => []FailedAwaitsRevert
<1>1. Init => AwaitInv
  BY DEF Init, AwaitInv, FailedAwaitsRevert, Running
<1> QED BY <1>1, AwaitNext, TypeInit, TypeNext, PTL DEF Spec, AwaitInv


-----------------------------------------------------------------------------
(* What the later theorems share                                           *)

\* Faults are never taken back.
LEMMA MishapsGrow == [Next]_vars => mishaps \subseteq mishaps'
  BY DEF Next, vars, Build, Reverting, Start, Book, PassCheck, FailCheck, Throw, Finalize,
         ProveFails, Submit, Accept, SubmissionFails, UserRevert, Verdict, AutoRevert, Include,
         Sync, RevertWallet, FinishRevert, AutoRevertFails, OrdinaryOr, Mishap

LEMMA CommonInit == Init => CommonInv
  BY DEF Init, CommonInv, CallInv, RevertInv, Queued, Failing, Unsent, Running, Reverters

\* A call that reverts its own transaction ends there.
LEMMA OwnRevertCommon ==
  ASSUME TypeOK, CommonInv, NEW i \in Calls, NEW b \in BOOLEAN, StartRevert(i, i, b),
         stage' = [stage EXCEPT ![i] = "ended"],
         UNCHANGED <<inputs, serviceVars, ledgerVars, lifecycle>>, mishaps \subseteq mishaps'
  PROVE  CommonInv'
<1> USE DEF serviceVars, ledgerVars
<1>1. ASSUME NEW j \in Calls PROVE CallInv(j)'
  <2>1. reverted' = reverted \cup {i}
    BY RevertStarts DEF Reverters
  <2>2. Queued(j)' <=> Queued(j)
    BY DEF Queued
  <2> QED BY <2>1, <2>2 DEF CommonInv, CallInv, TypeOK, Failing, Unsent
<1>2. ASSUME NEW r \in Reverters PROVE RevertInv(r)'
  <2>1. i # Subscription /\ i \in Reverters
    BY FacadeAssumption DEF Reverters
  <2>2. CASE r = i
    BY <2>1, <2>2, RevertStarts DEF RevertInv, TypeOK
  <2>3. CASE r # i
    BY <2>1, <2>3, RevertStarts DEF CommonInv, RevertInv, TypeOK, Reverters
  <2> QED BY <2>2, <2>3
<1> QED BY <1>1, <1>2 DEF CommonInv

\* Steps that leave the reverts alone, and end a call at most.
LEMMA RevertsUndisturbed ==
  ASSUME CommonInv, UNCHANGED <<revert, reverted>>,
         \A j \in Calls : stage[j] = "ended" => stage'[j] = "ended"
  PROVE  \A r \in Reverters : RevertInv(r)'
  BY DEF CommonInv, RevertInv, Reverters, Running

LEMMA BuildCommon ==
  ASSUME TypeOK, CommonInv, NEW i \in Calls, Build(i), mishaps \subseteq mishaps'
  PROVE  CommonInv'
<1> USE DEF walletVars, callVars, serviceVars, revertVars, ledgerVars
<1>1. ASSUME UNCHANGED <<serviceVars, revertVars, ledgerVars, lifecycle>>,
             stage[i] \in {"idle", "building"}, stage'[i] \in {"building", "recipe", "ended"},
             \A j \in Calls \ {i} : stage'[j] = stage[j] /\ inputs'[j] = inputs[j],
             mishaps \subseteq mishaps'
      PROVE  CommonInv'
  <2>1. \A r \in Reverters : RevertInv(r)'
    BY <1>1, RevertsUndisturbed
  <2>2. ASSUME NEW j \in Calls PROVE CallInv(j)'
    <3>1. Queued(j)' <=> Queued(j)
      BY <1>1 DEF Queued
    <3>2. Failing(j) => Failing(j)'
      BY <1>1 DEF Failing
    <3> QED BY <1>1, <3>1, <3>2 DEF CommonInv, CallInv, Unsent
  <2> QED BY <2>1, <2>2 DEF CommonInv
<1>2. ASSUME NEW flow \in Flows, Start(i, flow) PROVE CommonInv'
  BY <1>1, <1>2 DEF Start, TypeOK
<1>3. ASSUME NEW w \in Wallets, NEW S \in SUBSET Coins, Book(i, w, S) PROVE CommonInv'
  <2>1. /\ stage[i] = "building" /\ stage'[i] \in {"building", "recipe"}
        /\ \A j \in Calls \ {i} : stage'[j] = stage[j] /\ inputs'[j] = inputs[j]
    BY <1>3, AdvanceTyped DEF Book, At, TypeOK
  <2> QED BY <1>1, <1>3, <2>1 DEF Book
<1>4. CASE PassCheck(i)
  <2>1. /\ stage[i] = "building" /\ stage'[i] \in {"building", "recipe"}
        /\ \A j \in Calls \ {i} : stage'[j] = stage[j] /\ inputs'[j] = inputs[j]
    BY <1>4, AdvanceTyped DEF PassCheck, At
  <2> QED BY <1>1, <1>4, <2>1 DEF PassCheck
<1>5. CASE FailCheck(i) \/ Throw(i)
  BY <1>1, <1>5 DEF FailCheck, Throw, At, TypeOK
<1>6. CASE Finalize(i)
  <2>1. \A r \in Reverters : RevertInv(r)'
    BY <1>6, RevertsUndisturbed DEF Finalize, TypeOK
  <2>2. ASSUME NEW j \in Calls PROVE CallInv(j)'
    <3>1. Queued(j)' <=> Queued(j) \/ pending'[j] = "failed"
      BY <1>6, AddPendingTyped DEF Finalize
    <3>2. pending' = [pending EXCEPT ![i] = IF @ = "none" THEN "pending" ELSE @]
      BY <1>6, AddPendingTyped DEF Finalize
    <3>3. Failing(j) => Failing(j)'
      BY <1>6 DEF Finalize, Failing
    <3> QED BY <1>6, <3>1, <3>2, <3>3 DEF Finalize, CommonInv, CallInv, TypeOK, Unsent
  <2> QED BY <2>1, <2>2 DEF CommonInv
<1>7. CASE ProveFails(i)
  BY <1>7, OwnRevertCommon DEF ProveFails
<1> QED BY <1>2, <1>3, <1>4, <1>5, <1>6, <1>7 DEF Build


LEMMA CommonNext == TypeOK /\ CommonInv /\ [Next]_vars => CommonInv'
<1> SUFFICES ASSUME TypeOK, CommonInv, [Next]_vars PROVE CommonInv'
  OBVIOUS
<1>0. mishaps \subseteq mishaps'
  BY MishapsGrow
<1> USE DEF walletVars, callVars, serviceVars, revertVars, ledgerVars
<1>1. CASE UNCHANGED vars
  BY <1>1 DEF vars, CommonInv, CallInv, RevertInv, Queued, Failing, Running
<1>2. ASSUME NEW i \in Calls, Build(i) PROVE CommonInv'
  BY <1>0, <1>2, BuildCommon
<1>3. ASSUME NEW i \in Calls, Submit(i) PROVE CommonInv'
  <2>1. \A r \in Reverters : RevertInv(r)'
    BY <1>3, RevertsUndisturbed DEF Submit, TypeOK
  <2>2. ASSUME NEW j \in Calls PROVE CallInv(j)'
    <3>1. /\ Queued(j)' <=> Queued(j) \/ pending'[j] = "failed"
          /\ pending' = [pending EXCEPT ![i] = IF @ = "none" THEN "pending" ELSE @]
      BY <1>3, AddPendingTyped DEF Submit
    <3>2. Failing(j) => Failing(j)'
      BY <1>3 DEF Submit, Failing
    <3> QED BY <1>3, <3>1, <3>2 DEF Submit, CommonInv, CallInv, TypeOK, Unsent
  <2> QED BY <2>1, <2>2 DEF CommonInv
<1>4. ASSUME NEW i \in Calls, Accept(i) PROVE CommonInv'
  <2>1. \A r \in Reverters : RevertInv(r)'
    BY <1>4, RevertsUndisturbed DEF Accept, TypeOK
  <2>2. ASSUME NEW j \in Calls PROVE CallInv(j)'
    BY <1>4 DEF Accept, CommonInv, CallInv, TypeOK, Unsent, Queued, Failing
  <2> QED BY <2>1, <2>2 DEF CommonInv
<1>5. ASSUME NEW i \in Calls, SubmissionFails(i) PROVE CommonInv'
  BY <1>0, <1>5, OwnRevertCommon DEF SubmissionFails
<1>6. ASSUME NEW i \in Calls, UserRevert(i) PROVE CommonInv'
  BY <1>0, <1>6, OwnRevertCommon DEF UserRevert
<1>7. ASSUME NEW i \in Calls, Verdict(i) PROVE CommonInv'
  <2>1. \A r \in Reverters : RevertInv(r)'
    BY <1>7, RevertsUndisturbed DEF Verdict
  <2>2. ASSUME NEW j \in Calls PROVE CallInv(j)'
    <3>1. /\ Queued(j)' <=> Queued(j) \/ pending'[j] = "failed"
          /\ pending' \in {[pending EXCEPT ![i] = "none"], [pending EXCEPT ![i] = "failed"]}
          /\ pending'[i] = "failed" => Failing(i)'
          /\ expired' \in {expired, expired \cup {i}}
          /\ i \in expired' => i \in expired \/ chain[i] = "none"
      BY <1>7, VerdictTyped DEF Failing, TypeOK
    <3>2. Failing(j) => Failing(j)'
      BY <1>7, VerdictTyped DEF Verdict, Failing
    <3> QED BY <1>7, <3>1, <3>2 DEF Verdict, CommonInv, CallInv, TypeOK, Unsent
  <2> QED BY <2>1, <2>2 DEF CommonInv
<1>8. ASSUME NEW i \in Calls, AutoRevert(i) PROVE CommonInv'
  <2>1. ASSUME NEW j \in Calls PROVE CallInv(j)'
    <3>1. Queued(i) /\ (Queued(j)' => Queued(j)) /\ reverted' = reverted \cup {i}
      BY <1>8, WorkedOff, RevertStarts DEF AutoRevert, Reverters
    <3>2. Failing(j) => Failing(j)'
      BY <1>0, <1>8 DEF AutoRevert, Failing
    <3> QED BY <1>8, <3>1, <3>2 DEF AutoRevert, CommonInv, CallInv
  <2>2. ASSUME NEW r \in Reverters PROVE RevertInv(r)'
    <3>1. CASE r = Subscription
      BY <1>8, <3>1, RevertStarts DEF AutoRevert, RevertInv
    <3>2. CASE r # Subscription
      <4>1. /\ revert'[r] = revert[r] /\ (Running(r)' <=> Running(r))
            /\ reverted \subseteq reverted'
        <5>1. StartRevert(Subscription, i, TRUE) /\ Subscription \in Reverters
          BY <1>8 DEF AutoRevert, Reverters
        <5> QED BY <3>2, <5>1, RevertStarts
      <4>2. stage' = stage /\ RevertInv(r)
        BY <1>8 DEF AutoRevert, CommonInv
      <4> QED BY <4>1, <4>2 DEF RevertInv
    <3> QED BY <3>1, <3>2
  <2> QED BY <2>1, <2>2 DEF CommonInv
<1>9. ASSUME NEW i \in Calls, NEW S \in SUBSET Coins,
             NEW s \in {"SUCCESS", "FAILURE", "PARTIAL_SUCCESS"}, Include(i, s, S)
      PROVE CommonInv'
  <2>1. \A r \in Reverters : RevertInv(r)'
    BY <1>9, RevertsUndisturbed DEF Include
  <2>2. ASSUME NEW j \in Calls PROVE CallInv(j)'
    <3>1. chain' = [chain EXCEPT ![i] = s] /\ i \in mempool \ expired /\ chain[i] = "none"
      BY <1>9 DEF Include
    <3>2. (Queued(j)' <=> Queued(j)) /\ (Failing(j) => Failing(j)')
      BY <1>0, <1>9, <3>1 DEF Include, Queued, Failing, CommonInv, CallInv, TypeOK
    <3> QED BY <1>9, <3>1, <3>2 DEF Include, CommonInv, CallInv, TypeOK, Unsent
  <2> QED BY <2>1, <2>2 DEF CommonInv
<1>10. ASSUME NEW i \in Calls, NEW w \in Wallets, Sync(w, i) PROVE CommonInv'
  <2>1. \A r \in Reverters : RevertInv(r)'
    BY <1>10, RevertsUndisturbed DEF Sync
  <2>2. ASSUME NEW j \in Calls PROVE CallInv(j)'
    BY <1>10 DEF Sync, CommonInv, CallInv, TypeOK, Queued, Failing, Unsent
  <2> QED BY <2>1, <2>2 DEF CommonInv
<1>11. ASSUME NEW r \in Reverters, NEW w \in Wallets, RevertWallet(r, w) PROVE CommonInv'
  <2>1. ASSUME NEW j \in Calls PROVE CallInv(j)'
    BY <1>11 DEF RevertWallet, CommonInv, CallInv, Queued, Failing, Unsent
  <2>2. ASSUME NEW s \in Reverters PROVE RevertInv(s)'
    <3>1. /\ Running(s)' <=> Running(s)
          /\ revert'[s].tx = revert[s].tx /\ revert'[s].clears = revert[s].clears
      BY <1>11, RevertWalletTyped
    <3>2. UNCHANGED <<stage, reverted>> /\ RevertInv(s)
      BY <1>11 DEF RevertWallet, CommonInv
    <3> QED BY <3>1, <3>2 DEF RevertInv
  <2> QED BY <2>1, <2>2 DEF CommonInv
<1>12. ASSUME NEW r \in Reverters, FinishRevert(r) PROVE CommonInv'
  <2>1. revert[r].tx \in Calls /\ revert[r].tx \in reverted
    BY <1>12, RevertsAreRecords DEF FinishRevert, CommonInv, RevertInv
  <2>2. ASSUME NEW s \in Reverters PROVE RevertInv(s)'
    BY <1>12, FacadeAssumption DEF FinishRevert, CommonInv, RevertInv, Running, TypeOK, Reverters
  <2>3. ASSUME NEW j \in Calls PROVE CallInv(j)'
    <3>1. CASE revert[r].clears
      <4>1. ClearPending(revert[r].tx) /\ lifecycle' = [lifecycle EXCEPT ![revert[r].tx] = "rejected"]
        BY <1>12, <3>1 DEF FinishRevert
      <4>2. /\ Queued(j)' <=> Queued(j) \/ pending'[j] = "failed"
            /\ pending' = [pending EXCEPT ![revert[r].tx] = "none"]
        BY <2>1, <4>1, ClearPendingTyped
      <4>3. (Failing(j) => Failing(j)') /\ UNCHANGED <<inputs, stage, reverted, ledgerVars>>
        BY <1>12 DEF FinishRevert, Failing
      <4> QED BY <2>1, <4>1, <4>2, <4>3 DEF CommonInv, CallInv, TypeOK
    <3>2. CASE ~revert[r].clears
      BY <1>12, <3>2 DEF FinishRevert, CommonInv, CallInv, Queued, Failing, Unsent
    <3> QED BY <3>1, <3>2
  <2> QED BY <2>2, <2>3 DEF CommonInv
<1>13. CASE AutoRevertFails
  <2>1. ASSUME NEW j \in Calls PROVE CallInv(j)'
    BY <1>0, <1>13 DEF AutoRevertFails, CommonInv, CallInv, Queued, Failing, Unsent
  <2>2. ASSUME NEW r \in Reverters PROVE RevertInv(r)'
    BY <1>13 DEF AutoRevertFails, CommonInv, RevertInv, Running, TypeOK, Reverters
  <2> QED BY <2>1, <2>2 DEF CommonInv
<1> QED BY <1>1, <1>2, <1>3, <1>4, <1>5, <1>6, <1>7, <1>8, <1>9, <1>10, <1>11, <1>12, <1>13
        DEF Next, Reverting, Reverters


-----------------------------------------------------------------------------
(* The history is truthful                                                 *)

\* A first revert of i, after which i cannot succeed any more.
LEMMA FirstRevert ==
  ASSUME TypeOK, CommonInv, OrderlyInv, Orderly,
         NEW r \in Reverters, NEW i \in Calls, NEW b \in BOOLEAN, StartRevert(r, i, b),
         i \notin reverted, UNCHANGED ledgerVars,
         \/ stage' = stage /\ Failing(i)
         \/ stage' = [stage EXCEPT ![i] = "ended"] /\ i \notin mempool
  PROVE  OrderlyInv'
<1> USE DEF ledgerVars
<1>1. \A j \in Calls : j \in mempool' => stage'[j] = "submitted"
  BY DEF OrderlyInv, TypeOK
<1>2. \A j \in reverted' : Failing(j)' \/ (stage'[j] = "ended" /\ j \notin mempool')
  <2>1. reverted' = reverted \cup {i} /\ reverted \in SUBSET Calls
    BY RevertStarts DEF TypeOK
  <2>2. \A j \in Calls : Failing(j) => Failing(j)'
    BY DEF Failing, Orderly
  <2> QED BY <2>1, <2>2 DEF OrderlyInv, TypeOK
<1>3. ASSUME NEW s \in Reverters, NEW q \in Reverters, Running(s)', Running(q)', s # q
      PROVE  revert'[s].tx # revert'[q].tx
  <2>1. revert'[r].tx = i /\ \A p \in Reverters \ {r} : Running(p)' => revert'[p].tx \in reverted
    BY RevertStarts DEF CommonInv, RevertInv
  <2>2. CASE s = r \/ q = r
    BY <1>3, <2>1, <2>2
  <2>3. CASE s # r /\ q # r
    <3>1. revert'[s] = revert[s] /\ revert'[q] = revert[q] /\ Running(s) /\ Running(q)
      BY <1>3, <2>3, RevertStarts
    <3> QED BY <1>3, <3>1 DEF OrderlyInv
  <2> QED BY <2>2, <2>3
<1> QED BY <1>1, <1>2, <1>3 DEF OrderlyInv

\* Steps that start no revert and put nothing into the mempool.
LEMMA OrderlyUndisturbed ==
  ASSUME TypeOK, CommonInv, OrderlyInv, Orderly,
         UNCHANGED <<reverted, mempool>>,
         \A i \in Calls : stage[i] \in {"submitted", "ended"} => stage'[i] = stage[i],
         \A i \in Calls : Failing(i) => Failing(i)',
         \A r \in Reverters : Running(r)' => Running(r) /\ revert'[r].tx = revert[r].tx
  PROVE  OrderlyInv'
  BY DEF OrderlyInv, TypeOK

LEMMA OrderlyNext == TypeOK /\ CommonInv /\ OrderlyInv /\ [Next]_vars => OrderlyInv'
<1> SUFFICES ASSUME TypeOK, CommonInv, OrderlyInv, [Next]_vars, Orderly' PROVE OrderlyInv'
  BY DEF OrderlyInv
<1>0. Orderly
  BY MishapsGrow DEF Orderly
<1> USE DEF walletVars, callVars, serviceVars, revertVars, ledgerVars
<1>1. ASSUME UNCHANGED <<reverted, revert, mempool, expired, chain>>,
             \A i \in Calls : stage[i] \in {"submitted", "ended"} => stage'[i] = stage[i]
      PROVE  OrderlyInv'
  BY <1>0, <1>1, OrderlyUndisturbed DEF Running, Failing, Orderly
<1>2. CASE UNCHANGED vars
  BY <1>1, <1>2 DEF vars
<1>3. ASSUME NEW i \in Calls, Build(i) PROVE OrderlyInv'
  <2>1. ASSUME NEW flow \in Flows, Start(i, flow) PROVE OrderlyInv'
    BY <1>1, <2>1 DEF Start, TypeOK
  <2>2. ASSUME NEW w \in Wallets, NEW S \in SUBSET Coins, Book(i, w, S) PROVE OrderlyInv'
    BY <1>1, <2>2, AdvanceTyped DEF Book, At
  <2>3. CASE PassCheck(i)
    BY <1>1, <2>3, AdvanceTyped DEF PassCheck, At
  <2>4. CASE FailCheck(i) \/ Throw(i) \/ Finalize(i)
    BY <1>1, <2>4 DEF FailCheck, Throw, Finalize, At, TypeOK
  <2>5. CASE ProveFails(i)
    <3>1. i \notin reverted
      BY <2>5 DEF ProveFails, OrdinaryOr, Mishap, Orderly
    <3>2. i \notin mempool
      BY <2>5 DEF ProveFails, CommonInv, CallInv, Unsent
    <3> QED BY <1>0, <2>5, <3>1, <3>2, FirstRevert DEF ProveFails, Reverters
  <2> QED BY <1>3, <2>1, <2>2, <2>3, <2>4, <2>5 DEF Build
<1>4. ASSUME NEW i \in Calls, Submit(i) PROVE OrderlyInv'
  BY <1>1, <1>4 DEF Submit, TypeOK
<1>5. ASSUME NEW i \in Calls, Accept(i) PROVE OrderlyInv'
  <2>1. \A r \in Reverters : Running(r)' <=> Running(r)
    BY <1>5 DEF Accept, Running
  <2>2. \A j \in Calls : Failing(j) => Failing(j)'
    BY <1>5 DEF Accept, Failing
  <2> QED BY <1>0, <1>5, <2>1, <2>2 DEF Accept, OrderlyInv, TypeOK
<1>6. ASSUME NEW i \in Calls, SubmissionFails(i) PROVE OrderlyInv'
  <2>1. i \notin reverted /\ stage[i] = "submitting"
    BY <1>6 DEF SubmissionFails, OrdinaryOr, Mishap, Orderly
  <2>2. i \notin mempool
    BY <2>1 DEF CommonInv, CallInv
  <2> QED BY <1>0, <1>6, <2>1, <2>2, FirstRevert DEF SubmissionFails, Reverters
<1>7. ASSUME NEW i \in Calls, UserRevert(i) PROVE OrderlyInv'
  <2>1. i \notin reverted /\ stage[i] \in {"recipe", "finalized"}
    BY <1>7 DEF UserRevert, OrdinaryOr, Mishap, Orderly
  <2>2. i \notin mempool
    BY <2>1 DEF CommonInv, CallInv, Unsent
  <2> QED BY <1>0, <1>7, <2>1, <2>2, FirstRevert DEF UserRevert, Reverters
<1>8. ASSUME NEW i \in Calls, Verdict(i) PROVE OrderlyInv'
  BY <1>0, <1>8, OrderlyUndisturbed DEF Verdict, Failing, Running, Orderly
<1>9. ASSUME NEW i \in Calls, AutoRevert(i) PROVE OrderlyInv'
  <2>1. i \notin reverted
    BY <1>9 DEF AutoRevert, OrdinaryOr, Mishap, Orderly
  <2>2. Failing(i)
    BY <1>9, WorkedOff DEF CommonInv, CallInv
  <2> QED BY <1>0, <1>9, <2>1, <2>2, FirstRevert DEF AutoRevert, Reverters
<1>10. ASSUME NEW i \in Calls, NEW S \in SUBSET Coins,
             NEW s \in {"SUCCESS", "FAILURE", "PARTIAL_SUCCESS"}, Include(i, s, S)
      PROVE OrderlyInv'
  <2>1. \A j \in Calls : Failing(j) => Failing(j)'
    BY <1>0, <1>10 DEF Include, Failing, TypeOK, Orderly
  <2> QED BY <1>0, <1>10, <2>1, OrderlyUndisturbed DEF Include, Running
<1>11. ASSUME NEW i \in Calls, NEW w \in Wallets, Sync(w, i) PROVE OrderlyInv'
  BY <1>1, <1>11 DEF Sync
<1>12. ASSUME NEW r \in Reverters, NEW w \in Wallets, RevertWallet(r, w) PROVE OrderlyInv'
  <2>1. \A s \in Reverters : Running(s)' => Running(s) /\ revert'[s].tx = revert[s].tx
    BY <1>12, RevertWalletTyped
  <2> QED BY <1>0, <1>12, <2>1, OrderlyUndisturbed DEF RevertWallet, Failing
<1>13. ASSUME NEW r \in Reverters, FinishRevert(r) PROVE OrderlyInv'
  <2>1. \A s \in Reverters : Running(s)' => Running(s) /\ revert'[s] = revert[s]
    BY <1>13 DEF FinishRevert, Running, TypeOK, Reverters
  <2> QED BY <1>0, <1>13, <2>1, OrderlyUndisturbed DEF FinishRevert, Failing
<1>14. CASE AutoRevertFails
  <2>1. \A s \in Reverters : Running(s)' => Running(s) /\ revert'[s] = revert[s]
    BY <1>14 DEF AutoRevertFails, Running, TypeOK, Reverters
  <2> QED BY <1>0, <1>14, <2>1, OrderlyUndisturbed DEF AutoRevertFails, Failing, Orderly
<1> QED BY <1>2, <1>3, <1>4, <1>5, <1>6, <1>7, <1>8, <1>9, <1>10, <1>11, <1>12, <1>13, <1>14
        DEF Next, Reverting, Reverters

LEMMA OrderlyInit == Init => OrderlyInv
  BY DEF Init, OrderlyInv, Running, Reverters

\* Without a second revert, a revert of a transaction that was sent, or an
\* answer of the node that got lost, what was reverted does not succeed.
LEMMA RevertedNeverSucceeds ==
  ASSUME TypeOK, CommonInv, OrderlyInv, Orderly, NEW i \in reverted
  PROVE  chain[i] # "SUCCESS"
<1>1. i \in Calls /\ (Failing(i) \/ i \notin mempool)
  BY DEF OrderlyInv, TypeOK
<1> QED BY <1>1 DEF CommonInv, CallInv, Failing, Orderly

\* Whoever reverts a transaction, and whenever the polls come in between, its
\* entry in the history does not say "rejected" of a transaction that succeeds.
THEOREM HistoryIsTruthful == Spec => []HistoryTruthful
<1>1. TypeOK /\ CommonInv /\ OrderlyInv => HistoryTruthful
  BY RevertedNeverSucceeds DEF HistoryTruthful, Orderly, CommonInv, CallInv
<1> QED BY <1>1, CommonInit, CommonNext, OrderlyInit, OrderlyNext, TypeInit, TypeNext, PTL DEF Spec


-----------------------------------------------------------------------------
(* Available coins are safe to spend                                       *)

\* Nobody starts to keep coins, and what becomes available nobody keeps.
LEMMA KeepersFewer ==
  ASSUME TypeOK, OneKeeper, UNCHANGED <<inputs, chain, spent>>,
         \A j \in Calls, w \in Wallets : Keeps(j, w)' => Keeps(j, w),
         \A c \in Coins : coin'[c] = "available" /\ coin[c] # "available" =>
           \A j \in Calls : c \in inputs[j] => ~Keeps(j, WalletOf[c])'
  PROVE  OneKeeper'
<1>1. \A c \in Coins : WalletOf[c] \in Wallets
  BY FacadeAssumption
<1>2. \A j \in Calls : inputs[j] \in SUBSET Coins
  BY DEF TypeOK
<1> HIDE DEF Keeps
<1> QED BY <1>1, <1>2 DEF OneKeeper

LEMMA KeepersFixed ==
  ASSUME TypeOK, OneKeeper, UNCHANGED <<inputs, chain, spent, revert, reverted>>,
         \A j \in Calls : stage[j] = "ended" => stage'[j] = "ended",
         \A c \in Coins : coin'[c] = "available" => coin[c] = "available"
  PROVE  OneKeeper'
<1>1. \A j \in Calls, w \in Wallets : Keeps(j, w)' => Keeps(j, w)
  BY DEF Keeps, Reverts, Running
<1> QED BY <1>1, KeepersFewer

\* A revert keeps what its transaction kept.
LEMMA FirstRevertKeeps ==
  ASSUME TypeOK, OneKeeper, NEW r \in Reverters, NEW i \in Calls, NEW b \in BOOLEAN,
         StartRevert(r, i, b), i \notin reverted, stage[i] # "ended",
         UNCHANGED <<coin, inputs, chain, spent>>,
         \A j \in Calls : stage[j] = "ended" => stage'[j] = "ended"
  PROVE  OneKeeper'
<1>1. ASSUME NEW j \in Calls, NEW w \in Wallets, Keeps(j, w)'
      PROVE  Keeps(j, w)
  <2>1. Keeps(i, w)
    BY DEF Keeps
  <2>2. ASSUME NEW s \in Reverters, Reverts(s, j)', w \in revert'[s].left, j # i
        PROVE  Keeps(j, w)
    <3>1. s # r
      BY <2>2, RevertStarts DEF Reverts
    <3>2. revert'[s] = revert[s] /\ Running(s)
      BY <2>2, <3>1, RevertStarts DEF Reverts
    <3> QED BY <2>2, <3>2 DEF Keeps, Reverts
  <2>3. reverted \subseteq reverted'
    BY RevertStarts
  <2> QED BY <1>1, <2>1, <2>2, <2>3 DEF Keeps
<1> QED BY <1>1, KeepersFewer

\* The unshielded wallet takes back what a transaction in the making had.
LEMMA FailCheckKeeps ==
  ASSUME TypeOK, CommonInv, OneKeeper, NEW i \in Calls, FailCheck(i)
  PROVE  OneKeeper'
<1> USE DEF revertVars, ledgerVars
<1>1. stage[i] = "building" /\ i \notin reverted
  BY DEF FailCheck, At, CommonInv, CallInv, Unsent
<1>2. \A w : Keeps(i, w)
  BY <1>1 DEF Keeps
<1>3. \A w : ~Keeps(i, w)'
  <2>1. stage'[i] = "ended" /\ UNCHANGED <<revert, reverted>>
    BY DEF FailCheck, TypeOK
  <2>2. \A r \in Reverters : ~Reverts(r, i)
    BY <1>1 DEF CommonInv, RevertInv, Reverts
  <2> QED BY <2>1, <2>2 DEF Keeps, Reverts, Running
<1>4. ASSUME NEW j \in Calls, NEW w \in Wallets, Keeps(j, w)' PROVE Keeps(j, w)
  BY <1>4 DEF FailCheck, Keeps, Reverts, Running, TypeOK
<1>5. ASSUME NEW c \in Coins, coin'[c] = "available", coin[c] # "available",
             NEW j \in Calls, c \in inputs[j]
      PROVE  ~Keeps(j, WalletOf[c])'
  <2>1. c \in inputs[i] /\ WalletOf[c] \in Wallets
    BY <1>5, FacadeAssumption DEF FailCheck, ReleaseCoins
  <2>2. j # i => ~Keeps(j, WalletOf[c])
    BY <1>2, <1>5, <2>1 DEF OneKeeper
  <2> QED BY <1>3, <1>4, <2>1, <2>2
<1>6. UNCHANGED <<inputs, chain, spent>>
  BY DEF FailCheck
<1> QED BY <1>4, <1>5, <1>6, KeepersFewer

\* A wallet takes back what the reverted transaction kept.
LEMMA RevertWalletKeeps ==
  ASSUME TypeOK, CommonInv, OrderlyInv, Orderly, OneKeeper,
         NEW r \in Reverters, NEW w \in Wallets, RevertWallet(r, w)
  PROVE  OneKeeper'
<1> USE DEF revertVars, ledgerVars, callVars
<1> PICK i \in Calls : i = revert[r].tx
  BY RevertWalletTyped
<1>1. /\ Running(r) /\ w \in revert[r].left /\ revert'[r].left = revert[r].left \ {w}
      /\ \A s \in Reverters : (Running(s)' <=> Running(s)) /\ revert'[s].tx = revert[s].tx
      /\ \A s \in Reverters \ {r} : revert'[s] = revert[s]
  BY RevertWalletTyped
<1>2. UNCHANGED <<stage, reverted, inputs, chain, spent>> /\ i \in reverted
  BY <1>1 DEF RevertWallet, CommonInv, RevertInv
<1>3. Keeps(i, w)
  BY <1>1 DEF Keeps, Reverts
<1>4. ~Keeps(i, w)'
  <2>1. \A s \in Reverters : Running(s) /\ revert[s].tx = i => s = r
    BY <1>1 DEF OrderlyInv
  <2> QED BY <1>1, <1>2, <2>1 DEF Keeps, Reverts
<1>5. ASSUME NEW j \in Calls, NEW v \in Wallets, Keeps(j, v)' PROVE Keeps(j, v)
  <2>1. \A s \in Reverters : v \in revert'[s].left => v \in revert[s].left
    BY <1>1
  <2> QED BY <1>1, <1>2, <1>5, <2>1 DEF Keeps, Reverts
<1>6. ASSUME NEW c \in Coins, coin'[c] = "available", coin[c] # "available",
             NEW j \in Calls, c \in inputs[j]
      PROVE  ~Keeps(j, WalletOf[c])'
  <2>1. c \in inputs[i] /\ WalletOf[c] = w
    BY <1>6 DEF RevertWallet, ReleaseCoins
  <2>2. j # i => ~Keeps(j, w)
    BY <1>1, <1>3, <1>6, <2>1 DEF OneKeeper
  <2> QED BY <1>4, <1>5, <2>1, <2>2
<1> QED BY <1>2, <1>5, <1>6, KeepersFewer


\* A wallet books coins that are available, which therefore nobody keeps.
LEMMA BookKeeps ==
  ASSUME TypeOK, CommonInv, OneKeeper,
         NEW i \in Calls, NEW w \in Wallets, NEW S \in SUBSET Coins, Book(i, w, S)
  PROVE  OneKeeper'
<1> USE DEF revertVars, ledgerVars
<1>1. /\ inputs' = [inputs EXCEPT ![i] = @ \cup S]
      /\ coin' = [c \in Coins |-> IF c \in S THEN "booked" ELSE coin[c]]
      /\ \A c \in S : coin[c] = "available"
      /\ UNCHANGED <<chain, spent, revert, reverted>>
  BY DEF Book, Available
<1>2. ASSUME NEW j \in Calls, NEW v PROVE Keeps(j, v)' <=> Keeps(j, v)
  <2>1. \A k \in Calls : stage'[k] # "ended" <=> stage[k] # "ended"
    BY AdvanceTyped DEF Book, At
  <2> QED BY <1>1, <2>1 DEF Keeps, Reverts, Running
<1>3. \A j \in Calls : inputs[j] \in SUBSET Coins /\ inputs'[j] \in SUBSET Coins
  BY <1>1 DEF TypeOK
<1>4. ASSUME NEW j \in Calls, NEW c \in inputs'[j], Keeps(j, WalletOf[c])
      PROVE  /\ coin'[c] # "available"
             /\ \A k \in Calls \ {j} : c \in inputs'[k] => ~Keeps(k, WalletOf[c])
  <2>1. c \in Coins
    BY <1>3
  <2>2. CASE c \in S
    <3>1. \A k \in Calls : c \in inputs[k] => ~Keeps(k, WalletOf[c])
      BY <1>1, <2>2 DEF OneKeeper
    <3>2. c \notin inputs[j] /\ j = i
      BY <1>1, <1>4, <3>1 DEF TypeOK
    <3> QED BY <1>1, <2>1, <2>2, <3>1, <3>2 DEF TypeOK
  <2>3. CASE c \notin S
    <3>1. \A k \in Calls : c \in inputs'[k] <=> c \in inputs[k]
      BY <1>1, <2>3 DEF TypeOK
    <3> QED BY <1>1, <1>4, <2>1, <2>3, <3>1 DEF OneKeeper
  <2> QED BY <2>2, <2>3
<1>5. \A c \in spent' : \E j \in Calls : c \in inputs'[j] /\ chain'[j] = "SUCCESS"
  BY <1>1 DEF OneKeeper, TypeOK
<1>6. \A j \in Calls : chain'[j] # "PARTIAL_SUCCESS"
  BY <1>1 DEF OneKeeper
<1>7. ASSUME NEW j \in Calls, NEW c \in inputs'[j], Keeps(j, WalletOf[c])'
      PROVE  /\ coin'[c] # "available"
             /\ \A k \in Calls \ {j} : c \in inputs'[k] => ~Keeps(k, WalletOf[c])'
  BY <1>2, <1>4, <1>7
<1> QED BY <1>5, <1>6, <1>7 DEF OneKeeper

LEMMA IncludeKeeps ==
  ASSUME TypeOK, OneKeeper, NEW i \in Calls, NEW S \in SUBSET Coins,
         NEW s \in {"SUCCESS", "FAILURE", "PARTIAL_SUCCESS"}, Include(i, s, S),
         "partial" \notin mishaps'
  PROVE  OneKeeper'
<1> USE DEF revertVars, ledgerVars, walletVars, callVars
<1>1. /\ s # "PARTIAL_SUCCESS" /\ (s = "SUCCESS" => S = inputs[i]) /\ (s = "FAILURE" => S = {})
      /\ chain[i] = "none" /\ chain' = [chain EXCEPT ![i] = s] /\ spent' = spent \cup S
      /\ UNCHANGED <<coin, inputs, stage, revert, reverted>>
  BY DEF Include, Mishap
<1>2. \A j \in Calls : \A v : Keeps(j, v)' <=> Keeps(j, v)
  BY <1>1 DEF Keeps, Reverts, Running
<1>3. \A j \in Calls : chain'[j] # "PARTIAL_SUCCESS"
  BY <1>1 DEF OneKeeper, TypeOK
<1>4. ASSUME NEW c \in spent' PROVE \E j \in Calls : c \in inputs'[j] /\ chain'[j] = "SUCCESS"
  <2>1. CASE c \in spent
    <3>1. PICK j \in Calls : c \in inputs[j] /\ chain[j] = "SUCCESS"
      BY <2>1 DEF OneKeeper
    <3> QED BY <1>1, <3>1 DEF TypeOK
  <2>2. CASE c \in S
    BY <1>1, <2>2 DEF TypeOK
  <2> QED BY <1>1, <1>4, <2>1, <2>2
<1> QED BY <1>1, <1>2, <1>3, <1>4 DEF OneKeeper

LEMMA SafeNext == TypeOK /\ CommonInv /\ OrderlyInv /\ SafeInv /\ [Next]_vars => SafeInv'
<1> SUFFICES ASSUME TypeOK, CommonInv, OrderlyInv, SafeInv, [Next]_vars, SafeMishaps'
             PROVE  OneKeeper'
  BY DEF SafeInv
<1>0. SafeMishaps /\ Orderly /\ OneKeeper
  BY MishapsGrow DEF SafeMishaps, Orderly, SafeInv
<1> USE DEF walletVars, callVars, serviceVars, revertVars, ledgerVars
<1>1. CASE UNCHANGED vars
  BY <1>0, <1>1, KeepersFixed DEF vars
<1>2. ASSUME NEW i \in Calls, Build(i) PROVE OneKeeper'
  <2>1. ASSUME NEW flow \in Flows, Start(i, flow) PROVE OneKeeper'
    BY <1>0, <2>1, KeepersFixed DEF Start, TypeOK
  <2>2. ASSUME NEW w \in Wallets, NEW S \in SUBSET Coins, Book(i, w, S) PROVE OneKeeper'
    BY <1>0, <2>2, BookKeeps
  <2>3. CASE PassCheck(i)
    BY <1>0, <2>3, AdvanceTyped, KeepersFixed DEF PassCheck, At
  <2>4. CASE FailCheck(i)
    BY <1>0, <2>4, FailCheckKeeps
  <2>5. CASE Throw(i) \/ Finalize(i)
    BY <1>0, <2>5, KeepersFixed DEF Throw, Finalize, At, TypeOK
  <2>6. CASE ProveFails(i)
    <3>1. i \notin reverted /\ stage[i] # "ended"
      BY <2>6 DEF ProveFails, CommonInv, CallInv, Unsent
    <3> QED BY <1>0, <2>6, <3>1, FirstRevertKeeps DEF ProveFails, Reverters, TypeOK
  <2> QED BY <1>2, <2>1, <2>2, <2>3, <2>4, <2>5, <2>6 DEF Build
<1>3. ASSUME NEW i \in Calls, Submit(i) \/ Accept(i) PROVE OneKeeper'
  BY <1>0, <1>3, KeepersFixed DEF Submit, Accept, TypeOK
<1>4. ASSUME NEW i \in Calls, SubmissionFails(i) PROVE OneKeeper'
  <2>1. i \notin reverted /\ stage[i] # "ended"
    BY <1>4 DEF SubmissionFails, OrdinaryOr, Mishap, SafeMishaps
  <2> QED BY <1>0, <1>4, <2>1, FirstRevertKeeps DEF SubmissionFails, Reverters, TypeOK
<1>5. ASSUME NEW i \in Calls, UserRevert(i) PROVE OneKeeper'
  <2>1. i \notin reverted /\ stage[i] # "ended"
    BY <1>5 DEF UserRevert, OrdinaryOr, Mishap, SafeMishaps
  <2> QED BY <1>0, <1>5, <2>1, FirstRevertKeeps DEF UserRevert, Reverters, TypeOK
<1>6. ASSUME NEW i \in Calls, Verdict(i) PROVE OneKeeper'
  BY <1>0, <1>6, KeepersFixed DEF Verdict
<1>7. ASSUME NEW i \in Calls, AutoRevert(i) PROVE OneKeeper'
  <2>1. i \notin reverted
    BY <1>7 DEF AutoRevert, OrdinaryOr, Mishap, SafeMishaps
  <2>2. stage[i] # "ended"
    BY <1>7, <2>1, WorkedOff DEF CommonInv, CallInv
  <2> QED BY <1>0, <1>7, <2>1, <2>2, FirstRevertKeeps DEF AutoRevert, Reverters
<1>8. ASSUME NEW i \in Calls, NEW S \in SUBSET Coins,
             NEW s \in {"SUCCESS", "FAILURE", "PARTIAL_SUCCESS"}, Include(i, s, S)
      PROVE OneKeeper'
  BY <1>0, <1>8, IncludeKeeps DEF SafeMishaps
<1>9. ASSUME NEW i \in Calls, NEW w \in Wallets, Sync(w, i) PROVE OneKeeper'
  BY <1>0, <1>9, KeepersFixed DEF Sync, TypeOK
<1>10. ASSUME NEW r \in Reverters, NEW w \in Wallets, RevertWallet(r, w) PROVE OneKeeper'
  BY <1>0, <1>10, RevertWalletKeeps
<1>11. ASSUME NEW r \in Reverters, FinishRevert(r) \/ (r = Subscription /\ AutoRevertFails)
       PROVE OneKeeper'
  <2>1. \A s \in Reverters : Running(s)' => Running(s) /\ revert'[s] = revert[s]
    BY <1>11 DEF FinishRevert, AutoRevertFails, Running, TypeOK, Reverters
  <2>2. UNCHANGED <<coin, inputs, stage, reverted, chain, spent>>
    BY <1>11 DEF FinishRevert, AutoRevertFails
  <2>3. \A j \in Calls, w \in Wallets : Keeps(j, w)' => Keeps(j, w)
    BY <2>1, <2>2 DEF Keeps, Reverts
  <2> QED BY <1>0, <2>2, <2>3, KeepersFewer
<1> QED BY <1>1, <1>2, <1>3, <1>4, <1>5, <1>6, <1>7, <1>8, <1>9, <1>10, <1>11
        DEF Next, Reverting, Reverters

\* Who reserves a coin keeps it, and a spent coin is kept by who spent it.
LEMMA KeptIsSafe == TypeOK /\ CommonInv /\ OrderlyInv /\ SafeInv => SafeUnlessMishap
<1> SUFFICES ASSUME TypeOK, CommonInv, OrderlyInv, SafeInv, SafeMishaps,
                    NEW c \in Coins, coin[c] = "available"
             PROVE  c \notin spent /\ \A i \in Calls : Reserves(i) => c \notin inputs[i]
  BY DEF SafeUnlessMishap, SafeMishaps, AvailableIsSafe
<1>1. Orderly /\ OneKeeper
  BY DEF SafeMishaps, Orderly, SafeInv
<1>2. ASSUME c \in spent PROVE FALSE
  <2>1. PICK i \in Calls : c \in inputs[i] /\ chain[i] = "SUCCESS"
    BY <1>1, <1>2 DEF OneKeeper
  <2>2. i \notin reverted
    BY <1>1, <2>1, RevertedNeverSucceeds
  <2>3. stage[i] # "ended"
    BY <1>1, <2>1 DEF CommonInv, CallInv, OrderlyInv
  <2> QED BY <1>1, <2>1, <2>2, <2>3 DEF OneKeeper, Keeps
<1>3. ASSUME NEW i \in Calls, Reserves(i), c \in inputs[i] PROVE FALSE
  <2>1. i \notin reverted /\ stage[i] # "ended"
    BY <1>3 DEF Reserves, CommonInv, CallInv, Unsent
  <2> QED BY <1>1, <1>3, <2>1 DEF OneKeeper, Keeps
<1> QED BY <1>2, <1>3

\* Whatever calls run at the same time, fail or are reverted, and whenever the
\* polls and the wallets' syncs come in between: an available coin is not spent
\* and no transaction in the making or tracked has it, unless one of the faults
\* happened that hand a coin out twice.
THEOREM AvailableCoinsAreSafe == Spec => []SafeUnlessMishap
<1>1. Init => SafeInv
  BY DEF Init, SafeInv, OneKeeper
<1> QED BY <1>1, KeptIsSafe, SafeNext, CommonInit, CommonNext, OrderlyInit, OrderlyNext,
           TypeInit, TypeNext, PTL DEF Spec


-----------------------------------------------------------------------------
(* No booking is stranded                                                  *)

\* The rest of a flow keeps what FlowsAssumption says of it.
LEMMA RestUnbooks ==
  ASSUME NEW T, NEW q \in Seq(T), q # <<>>, UnbooksAtChecks(q)
  PROVE  /\ UnbooksAtChecks(Tail(q))
         /\ \A k \in DOMAIN Tail(q) : Tail(q)[k] \in Checks =>
              /\ \E l \in DOMAIN q : q[l] \in Checks
              /\ Head(q) \in Checks \cup {"unshielded"}
<1>1. /\ Len(q) \in Nat /\ DOMAIN q = 1..Len(q) /\ Head(q) = q[1] /\ 1 \in DOMAIN q
      /\ DOMAIN Tail(q) = 1..(Len(q) - 1)
      /\ \A k \in 1..(Len(q) - 1) : Tail(q)[k] = q[k + 1]
  <2>1. Tail(q) \in Seq(T) /\ Len(q) \in Nat /\ Len(Tail(q)) = Len(q) - 1 /\ Len(q) # 0
    BY HeadTailProperties
  <2>2. DOMAIN Tail(q) = 1..(Len(q) - 1) /\ DOMAIN q = 1..Len(q)
    BY <2>1
  <2> QED BY <2>1, <2>2, HeadTailProperties
<1>2. ASSUME NEW k \in DOMAIN Tail(q)
      PROVE  k + 1 \in DOMAIN q /\ Tail(q)[k] = q[k + 1] /\ 1 < k + 1
  BY <1>1
<1>3. UnbooksAtChecks(Tail(q))
  <2> SUFFICES ASSUME NEW k \in DOMAIN Tail(q), NEW l \in DOMAIN Tail(q), k < l,
                      Tail(q)[l] \in Checks
               PROVE  Tail(q)[k] \in Checks \cup {"unshielded"}
    BY DEF UnbooksAtChecks
  <2>1. k + 1 < l + 1
    BY <1>1
  <2> QED BY <1>2, <2>1 DEF UnbooksAtChecks
<1>4. \A k \in DOMAIN Tail(q) : Tail(q)[k] \in Checks =>
        /\ \E l \in DOMAIN q : q[l] \in Checks
        /\ Head(q) \in Checks \cup {"unshielded"}
  BY <1>1, <1>2 DEF UnbooksAtChecks
<1> QED BY <1>3, <1>4

\* The plan of a call that goes on, when its step books S.
LEMMA PlanAdvances ==
  ASSUME TypeOK, PlanInv, NEW i \in Calls, stage[i] = "building", Advance(i),
         NEW S, inputs' = [inputs EXCEPT ![i] = @ \cup S],
         \/ S = {}
         \/ Head(plan[i]) \in Wallets /\ \A c \in S : WalletOf[c] = Head(plan[i])
  PROVE  PlanInv'
<1>1. \A j \in Calls \ {i} : stage'[j] = stage[j] /\ plan'[j] = plan[j] /\ inputs'[j] = inputs[j]
  BY AdvanceTyped DEF TypeOK
<1>2. ASSUME stage'[i] = "building"
      PROVE  /\ UnbooksAtChecks(plan'[i])
             /\ (\E k \in DOMAIN plan'[i] : plan'[i][k] \in Checks) =>
                  \A c \in inputs'[i] : WalletOf[c] = "unshielded"
  <2>1. plan'[i] = Tail(plan[i])
    BY <1>2, AdvanceTyped
  <2>2. plan[i] \in Seq(Wallets \cup Checks) /\ plan[i] # <<>> /\ UnbooksAtChecks(plan[i])
    BY DEF TypeOK, PlanInv
  <2>3. UnbooksAtChecks(plan'[i])
    BY <2>1, <2>2, RestUnbooks
  <2>4. ASSUME NEW k \in DOMAIN plan'[i], plan'[i][k] \in Checks
        PROVE  \A c \in inputs'[i] : WalletOf[c] = "unshielded"
    <3>1. /\ \E l \in DOMAIN plan[i] : plan[i][l] \in Checks
          /\ Head(plan[i]) \in Checks \cup {"unshielded"}
      BY <2>1, <2>2, <2>4, RestUnbooks
    <3>2. \A c \in inputs[i] : WalletOf[c] = "unshielded"
      BY <3>1 DEF PlanInv
    <3>3. \A c \in S : WalletOf[c] = "unshielded"
      BY <3>1, FacadeAssumption
    <3> QED BY <3>2, <3>3 DEF TypeOK
  <2> QED BY <2>3, <2>4
<1> QED BY <1>1, <1>2 DEF PlanInv

LEMMA PlanNext == TypeOK /\ CommonInv /\ PlanInv /\ [Next]_vars => PlanInv'
<1> SUFFICES ASSUME TypeOK, CommonInv, PlanInv, [Next]_vars PROVE PlanInv'
  OBVIOUS
<1> USE DEF walletVars, callVars, serviceVars, revertVars, ledgerVars
<1>1. ASSUME UNCHANGED <<plan, inputs>>,
             \A j \in Calls : stage'[j] = "building" => stage[j] = "building"
      PROVE  PlanInv'
  BY <1>1 DEF PlanInv
<1>2. ASSUME NEW i \in Calls, NEW flow \in Flows, Start(i, flow) PROVE PlanInv'
  <2>1. inputs[i] = {} /\ UnbooksAtChecks(flow)
    BY <1>2, FlowsAssumption DEF Start, CommonInv, CallInv
  <2> QED BY <1>2, <2>1 DEF Start, PlanInv, TypeOK
<1>3. ASSUME NEW i \in Calls, NEW w \in Wallets, NEW S \in SUBSET Coins, Book(i, w, S)
      PROVE  PlanInv'
  <2>1. stage[i] = "building" /\ Head(plan[i]) = w /\ \A c \in S : WalletOf[c] = w
    BY <1>3 DEF Book, At, Available
  <2> QED BY <1>3, <2>1, PlanAdvances DEF Book
<1>4. ASSUME NEW i \in Calls, PassCheck(i) PROVE PlanInv'
  <2>1. inputs' = [inputs EXCEPT ![i] = @ \cup {}] /\ stage[i] = "building" /\ Advance(i)
    BY <1>4 DEF PassCheck, At, TypeOK
  <2> QED BY <2>1, PlanAdvances
<1>5. CASE UNCHANGED vars
  BY <1>1, <1>5 DEF vars
<1>6. ASSUME NEW i \in Calls, FailCheck(i) \/ Throw(i) \/ Finalize(i) \/ ProveFails(i)
      PROVE  PlanInv'
  BY <1>1, <1>6 DEF FailCheck, Throw, Finalize, ProveFails, TypeOK
<1>7. ASSUME NEW i \in Calls, Submit(i) \/ Accept(i) \/ SubmissionFails(i) \/ UserRevert(i)
      PROVE  PlanInv'
  BY <1>1, <1>7 DEF Submit, Accept, SubmissionFails, UserRevert, TypeOK
<1>8. ASSUME NEW i \in Calls, Verdict(i) \/ AutoRevert(i) PROVE PlanInv'
  BY <1>1, <1>8 DEF Verdict, AutoRevert
<1>9. ASSUME NEW i \in Calls, NEW S, NEW s, Include(i, s, S) PROVE PlanInv'
  BY <1>1, <1>9 DEF Include
<1>10. ASSUME NEW i \in Calls, NEW w \in Wallets, Sync(w, i) PROVE PlanInv'
  BY <1>1, <1>10 DEF Sync
<1>11. ASSUME NEW r \in Reverters, Reverting(r) \/ AutoRevertFails PROVE PlanInv'
  BY <1>1, <1>11 DEF Reverting, RevertWallet, FinishRevert, AutoRevertFails
<1> QED BY <1>2, <1>3, <1>4, <1>5, <1>6, <1>7, <1>8, <1>9, <1>10, <1>11
        DEF Next, Build, Reverters


LEMMA TrackedNext == TypeOK /\ CommonInv /\ TrackedInv /\ [Next]_vars => TrackedInv'
<1> SUFFICES ASSUME TypeOK, CommonInv, TrackedInv, [Next]_vars PROVE TrackedInv'
  OBVIOUS
<1> USE DEF walletVars, callVars, serviceVars, revertVars, ledgerVars
<1>1. ASSUME UNCHANGED <<pending, chain, spent, inputs>>, reverted \subseteq reverted',
             \A j \in Calls : \/ stage'[j] \notin {"finalized", "submitting", "submitted"}
                              \/ stage[j] \in {"finalized", "submitting", "submitted"}
      PROVE  TrackedInv'
  BY <1>1 DEF TrackedInv
<1>2. CASE UNCHANGED vars
  BY <1>1, <1>2 DEF vars
<1>3. ASSUME NEW i \in Calls, Build(i) PROVE TrackedInv'
  <2>1. ASSUME NEW flow \in Flows, Start(i, flow) PROVE TrackedInv'
    BY <1>1, <2>1 DEF Start, TypeOK
  <2>2. ASSUME NEW w \in Wallets, NEW S \in SUBSET Coins, Book(i, w, S) PROVE TrackedInv'
    <3>1. /\ stage'[i] \in {"building", "recipe"}
          /\ \A j \in Calls \ {i} : stage'[j] = stage[j] /\ inputs'[j] = inputs[j]
      BY <2>2, AdvanceTyped DEF Book, At, TypeOK
    <3>2. chain[i] = "none"
      BY <2>2 DEF Book, At, CommonInv, CallInv, Unsent
    <3>3. UNCHANGED <<pending, chain, spent, reverted>>
      BY <2>2 DEF Book
    <3> QED BY <3>1, <3>2, <3>3 DEF TrackedInv
  <2>3. CASE PassCheck(i)
    BY <1>1, <2>3, AdvanceTyped DEF PassCheck, At
  <2>4. CASE FailCheck(i) \/ Throw(i)
    BY <1>1, <2>4 DEF FailCheck, Throw, TypeOK
  <2>5. CASE Finalize(i)
    <3>1. pending' = [pending EXCEPT ![i] = IF @ = "none" THEN "pending" ELSE @]
      BY <2>5, AddPendingTyped DEF Finalize
    <3> QED BY <2>5, <3>1 DEF Finalize, TrackedInv, TypeOK
  <2>6. CASE ProveFails(i)
    BY <1>1, <2>6 DEF ProveFails, StartRevert, TypeOK
  <2> QED BY <1>3, <2>1, <2>2, <2>3, <2>4, <2>5, <2>6 DEF Build
<1>4. ASSUME NEW i \in Calls, Submit(i) PROVE TrackedInv'
  <2>1. pending' = [pending EXCEPT ![i] = IF @ = "none" THEN "pending" ELSE @]
    BY <1>4, AddPendingTyped DEF Submit
  <2> QED BY <1>4, <2>1 DEF Submit, TrackedInv, TypeOK
<1>5. ASSUME NEW i \in Calls, Accept(i) \/ SubmissionFails(i) \/ UserRevert(i) PROVE TrackedInv'
  BY <1>1, <1>5 DEF Accept, SubmissionFails, UserRevert, StartRevert, TypeOK
<1>6. ASSUME NEW i \in Calls, Verdict(i) PROVE TrackedInv'
  <2>1. \/ chain[i] = "SUCCESS" /\ pending' = [pending EXCEPT ![i] = "none"]
        \/ pending' = [pending EXCEPT ![i] = "failed"]
    BY <1>6, VerdictTyped
  <2> QED BY <1>6, <2>1 DEF Verdict, TrackedInv, TypeOK
<1>7. ASSUME NEW i \in Calls, AutoRevert(i) PROVE TrackedInv'
  BY <1>1, <1>7 DEF AutoRevert, StartRevert
<1>8. ASSUME NEW i \in Calls, NEW S \in SUBSET Coins,
             NEW s \in {"SUCCESS", "FAILURE", "PARTIAL_SUCCESS"}, Include(i, s, S)
      PROVE TrackedInv'
  BY <1>8 DEF Include, TrackedInv, TypeOK
<1>9. ASSUME NEW i \in Calls, NEW w \in Wallets, Sync(w, i) PROVE TrackedInv'
  BY <1>1, <1>9 DEF Sync
<1>10. ASSUME NEW r \in Reverters, NEW w \in Wallets, RevertWallet(r, w) PROVE TrackedInv'
  BY <1>1, <1>10 DEF RevertWallet
<1>11. ASSUME NEW r \in Reverters, FinishRevert(r) PROVE TrackedInv'
  <2>1. revert[r].tx \in Calls /\ revert[r].tx \in reverted
    BY <1>11, RevertsAreRecords DEF FinishRevert, CommonInv, RevertInv
  <2>2. CASE revert[r].clears
    <3>1. pending' = [pending EXCEPT ![revert[r].tx] = "none"]
      BY <1>11, <2>1, <2>2, ClearPendingTyped DEF FinishRevert
    <3> QED BY <1>11, <2>1, <3>1 DEF FinishRevert, TrackedInv, TypeOK
  <2>3. CASE ~revert[r].clears
    BY <1>1, <1>11, <2>3 DEF FinishRevert
  <2> QED BY <2>2, <2>3
<1>12. CASE AutoRevertFails
  BY <1>1, <1>12 DEF AutoRevertFails
<1> QED BY <1>2, <1>3, <1>4, <1>5, <1>6, <1>7, <1>8, <1>9, <1>10, <1>11, <1>12
        DEF Next, Reverting, Reverters

\* What stays booked stays booked for the same transactions.
LEMMA HoldersStay ==
  ASSUME TypeOK, Held,
         \A c \in Coins : coin'[c] = "booked" =>
           coin[c] = "booked" /\ \A j \in Calls : Holds(j, c) => Holds(j, c)'
  PROVE  Held'
  BY DEF Held

LEMMA HoldersFixed ==
  ASSUME TypeOK, Held, UNCHANGED <<inputs, spent, revert, reverted>>,
         \A j \in Calls : stage'[j] = "ended" => stage[j] = "ended" \/ inputs[j] = {},
         \A c \in Coins : coin'[c] = "booked" => coin[c] = "booked"
  PROVE  Held'
<1>1. ASSUME NEW c \in Coins, NEW j \in Calls, Holds(j, c) PROVE Holds(j, c)'
  BY <1>1 DEF Holds, Keeps, Reverts, Running
<1> QED BY <1>1, HoldersStay


\* A revert takes over what its transaction held.
LEMMA RevertHolds ==
  ASSUME TypeOK, Held, NEW r \in Reverters, NEW i \in Calls, NEW b \in BOOLEAN,
         StartRevert(r, i, b), UNCHANGED <<coin, inputs, spent>>,
         \A j \in Calls \ {i} : stage'[j] = stage[j]
  PROVE  Held'
<1>1. ASSUME NEW j \in Calls, NEW w \in Wallets, Keeps(j, w)
      PROVE  Keeps(j, w)'
  <2>1. CASE j = i
    BY <2>1, RevertStarts DEF Keeps, Reverts
  <2>2. CASE j # i
    <3>1. CASE \E s \in Reverters : Reverts(s, j) /\ w \in revert[s].left
      <4>1. PICK s \in Reverters : Reverts(s, j) /\ w \in revert[s].left
        BY <3>1
      <4>2. s # r
        BY <4>1, RevertStarts DEF Reverts
      <4>3. revert'[s] = revert[s] /\ Running(s)'
        BY <4>1, <4>2, RevertStarts DEF Reverts
      <4> QED BY <4>1, <4>3 DEF Keeps, Reverts
    <3>2. CASE j \notin reverted /\ stage[j] # "ended"
      BY <2>2, <3>2, RevertStarts DEF Keeps
    <3> QED BY <1>1, <3>1, <3>2 DEF Keeps
  <2> QED BY <2>1, <2>2
<1>2. ASSUME NEW c \in Coins, NEW j \in Calls, Holds(j, c) PROVE Holds(j, c)'
  <2>1. WalletOf[c] \in Wallets
    BY FacadeAssumption
  <2> QED BY <1>1, <1>2, <2>1 DEF Holds
<1> QED BY <1>2, HoldersStay

\* All a registration has booked by then is in the unshielded wallet.
LEMMA FailCheckHolds ==
  ASSUME TypeOK, PlanInv, Held, NEW i \in Calls, FailCheck(i)
  PROVE  Held'
<1> USE DEF revertVars, ledgerVars
<1>1. UNCHANGED <<inputs, spent, revert, reverted>> /\ stage' = [stage EXCEPT ![i] = "ended"]
  BY DEF FailCheck
<1>2. \A c \in inputs[i] : WalletOf[c] = "unshielded"
  <2>1. stage[i] = "building" /\ Head(plan[i]) \in Checks
    BY DEF FailCheck, At
  <2>2. plan[i] \in Seq(Wallets \cup Checks) /\ plan[i] # <<>>
    BY <2>1 DEF TypeOK
  <2>3. 1 \in DOMAIN plan[i] /\ plan[i][1] \in Checks
    BY <2>1, <2>2
  <2> QED BY <2>1, <2>3 DEF PlanInv
<1>3. ASSUME NEW c \in Coins, coin'[c] = "booked" PROVE coin[c] = "booked" /\ c \notin inputs[i]
  BY <1>2, <1>3 DEF FailCheck, ReleaseCoins
<1>4. ASSUME NEW c \in Coins, NEW j \in Calls, Holds(j, c), j # i PROVE Holds(j, c)'
  BY <1>1, <1>4 DEF Holds, Keeps, Reverts, Running, TypeOK
<1>5. ASSUME NEW c \in Coins, coin'[c] = "booked", NEW j \in Calls, Holds(j, c)
      PROVE  Holds(j, c)'
  BY <1>3, <1>4, <1>5 DEF Holds
<1> QED BY <1>3, <1>5, HoldersStay

\* What the wallet w does not take back the revert still has ahead of it.
LEMMA RevertWalletHolds ==
  ASSUME TypeOK, Held, NEW r \in Reverters, NEW w \in Wallets, RevertWallet(r, w)
  PROVE  Held'
<1> USE DEF callVars, ledgerVars
<1> PICK i \in Calls : i = revert[r].tx
  BY RevertWalletTyped
<1>1. /\ revert'[r].left = revert[r].left \ {w}
      /\ \A s \in Reverters : (Running(s)' <=> Running(s)) /\ revert'[s].tx = revert[s].tx
      /\ \A s \in Reverters \ {r} : revert'[s] = revert[s]
  BY RevertWalletTyped
<1>2. UNCHANGED <<stage, reverted, inputs, spent>>
  BY DEF RevertWallet
<1>3. ASSUME NEW c \in Coins, coin'[c] = "booked"
      PROVE  coin[c] = "booked" /\ ~(c \in inputs[i] /\ WalletOf[c] = w)
  BY <1>3 DEF RevertWallet, ReleaseCoins
<1>4. ASSUME NEW j \in Calls, NEW v \in Wallets, Keeps(j, v), j # i \/ v # w
      PROVE  Keeps(j, v)'
  <2>1. ASSUME NEW s \in Reverters, Reverts(s, j), v \in revert[s].left
        PROVE  Reverts(s, j)' /\ v \in revert'[s].left
    BY <1>1, <1>4, <2>1 DEF Reverts
  <2> QED BY <1>2, <1>4, <2>1 DEF Keeps
<1>5. ASSUME NEW c \in Coins, coin'[c] = "booked", NEW j \in Calls, Holds(j, c)
      PROVE  Holds(j, c)'
  <2>1. WalletOf[c] \in Wallets
    BY FacadeAssumption
  <2>2. j # i \/ WalletOf[c] # w
    BY <1>3, <1>5 DEF Holds
  <2> QED BY <1>2, <1>4, <1>5, <2>1, <2>2 DEF Holds
<1> QED BY <1>3, <1>5, HoldersStay

LEMMA BookHolds ==
  ASSUME TypeOK, CommonInv, Held,
         NEW i \in Calls, NEW w \in Wallets, NEW S \in SUBSET Coins, Book(i, w, S)
  PROVE  Held'
<1> USE DEF revertVars, ledgerVars
<1>1. /\ inputs' = [inputs EXCEPT ![i] = @ \cup S]
      /\ coin' = [c \in Coins |-> IF c \in S THEN "booked" ELSE coin[c]]
      /\ UNCHANGED <<spent, revert, reverted>>
  BY DEF Book
<1>2. ASSUME NEW j \in Calls, NEW v PROVE Keeps(j, v)' <=> Keeps(j, v)
  <2>1. \A k \in Calls : stage'[k] # "ended" <=> stage[k] # "ended"
    BY AdvanceTyped DEF Book, At
  <2> QED BY <1>1, <2>1 DEF Keeps, Reverts, Running
<1>3. \A v : Keeps(i, v)
  BY DEF Book, At, CommonInv, CallInv, Unsent, Keeps
<1>4. ASSUME NEW c \in Coins, coin'[c] = "booked"
      PROVE  \E j \in Calls : Holds(j, c)'
  <2>1. CASE c \in S
    BY <1>1, <1>2, <1>3, <2>1 DEF Holds, TypeOK
  <2>2. CASE c \notin S
    <3>1. PICK j \in Calls : Holds(j, c)
      BY <1>1, <1>4, <2>2 DEF Held
    <3> QED BY <1>1, <1>2, <3>1 DEF Holds, TypeOK
  <2> QED BY <2>1, <2>2
<1> QED BY <1>4 DEF Held

LEMMA BookedNext == TypeOK /\ CommonInv /\ PlanInv /\ BookedInv /\ [Next]_vars => BookedInv'
<1> SUFFICES ASSUME TypeOK, CommonInv, PlanInv, BookedInv, [Next]_vars,
                    mishaps' \subseteq {"partial", "wrong_verdict"}
             PROVE  Held'
  BY DEF BookedInv
<1>0. Held
  BY MishapsGrow DEF BookedInv
<1> USE DEF walletVars, callVars, serviceVars, revertVars, ledgerVars
<1>1. CASE UNCHANGED vars
  BY <1>0, <1>1, HoldersFixed DEF vars
<1>2. ASSUME NEW i \in Calls, Build(i) PROVE Held'
  <2>1. ASSUME NEW flow \in Flows, Start(i, flow) PROVE Held'
    BY <1>0, <2>1, HoldersFixed DEF Start, TypeOK
  <2>2. ASSUME NEW w \in Wallets, NEW S \in SUBSET Coins, Book(i, w, S) PROVE Held'
    BY <1>0, <2>2, BookHolds
  <2>3. CASE PassCheck(i)
    BY <1>0, <2>3, AdvanceTyped, HoldersFixed DEF PassCheck, At
  <2>4. CASE FailCheck(i)
    BY <1>0, <2>4, FailCheckHolds
  <2>5. CASE Throw(i)
    <3>1. inputs[i] = {}
      BY <2>5 DEF Throw, OrdinaryOr, Mishap
    <3> QED BY <1>0, <2>5, <3>1, HoldersFixed DEF Throw, TypeOK
  <2>6. CASE Finalize(i)
    BY <1>0, <2>6, HoldersFixed DEF Finalize, TypeOK
  <2>7. CASE ProveFails(i)
    BY <1>0, <2>7, RevertHolds DEF ProveFails, Reverters, TypeOK
  <2> QED BY <1>2, <2>1, <2>2, <2>3, <2>4, <2>5, <2>6, <2>7 DEF Build
<1>3. ASSUME NEW i \in Calls, Submit(i) \/ Accept(i) PROVE Held'
  BY <1>0, <1>3, HoldersFixed DEF Submit, Accept, TypeOK
<1>4. ASSUME NEW i \in Calls, SubmissionFails(i) PROVE Held'
  BY <1>0, <1>4, RevertHolds DEF SubmissionFails, Reverters, TypeOK
<1>5. ASSUME NEW i \in Calls, UserRevert(i) PROVE Held'
  BY <1>0, <1>5, RevertHolds DEF UserRevert, Reverters, TypeOK
<1>6. ASSUME NEW i \in Calls, Verdict(i) PROVE Held'
  BY <1>0, <1>6, HoldersFixed DEF Verdict
<1>7. ASSUME NEW i \in Calls, AutoRevert(i) PROVE Held'
  BY <1>0, <1>7, RevertHolds DEF AutoRevert, Reverters
<1>8. ASSUME NEW i \in Calls, NEW S \in SUBSET Coins, NEW s, Include(i, s, S) PROVE Held'
  <2>1. UNCHANGED <<coin, inputs, stage, revert, reverted>> /\ spent \subseteq spent'
    BY <1>8 DEF Include
  <2>2. \A c \in Coins, j \in Calls : Holds(j, c) => Holds(j, c)'
    BY <2>1 DEF Holds, Keeps, Reverts, Running
  <2> QED BY <1>0, <2>1, <2>2, HoldersStay
<1>9. ASSUME NEW i \in Calls, NEW w \in Wallets, Sync(w, i) PROVE Held'
  BY <1>0, <1>9, HoldersFixed DEF Sync
<1>10. ASSUME NEW r \in Reverters, NEW w \in Wallets, RevertWallet(r, w) PROVE Held'
  BY <1>0, <1>10, RevertWalletHolds
<1>11. ASSUME NEW r \in Reverters, FinishRevert(r) PROVE Held'
  <2>1. /\ UNCHANGED <<coin, inputs, stage, reverted, spent>> /\ revert[r].left = {}
        /\ \A s \in Reverters \ {r} : revert'[s] = revert[s]
    BY <1>11 DEF FinishRevert, TypeOK, Reverters
  <2>2. \A c \in Coins, j \in Calls : Holds(j, c) => Holds(j, c)'
    BY <2>1 DEF Holds, Keeps, Reverts, Running
  <2> QED BY <1>0, <2>1, <2>2, HoldersStay
<1>12. CASE AutoRevertFails
  BY <1>12 DEF AutoRevertFails, Mishap
<1> QED BY <1>1, <1>2, <1>3, <1>4, <1>5, <1>6, <1>7, <1>8, <1>9, <1>10, <1>11, <1>12
        DEF Next, Reverting, Reverters

LEMMA HeldIsAccounted == TypeOK /\ CommonInv /\ TrackedInv /\ BookedInv => NoStrandedBooking
<1> SUFFICES ASSUME TypeOK, CommonInv, TrackedInv, Held, NEW c \in Coins, coin[c] = "booked"
             PROVE  \E i \in Calls : c \in inputs[i] /\ Accounted(i, c)
  BY DEF NoStrandedBooking, BookedInv, BookingsAccounted
<1>1. PICK i \in Calls : Holds(i, c)
  BY DEF Held
<1>2. CASE c \in spent
  BY <1>1, <1>2 DEF Holds, Accounted
<1>3. CASE i \notin reverted /\ stage[i] # "ended"
  <2>1. stage[i] # "idle"
    BY <1>1 DEF Holds, CommonInv, CallInv
  <2>2. stage[i] = "submitted" => pending[i] # "none" \/ c \in spent
    BY <1>1, <1>3 DEF Holds, TrackedInv
  <2> QED BY <1>1, <1>3, <2>1, <2>2 DEF Holds, Accounted, TypeOK, Stages
<1>4. CASE \E r \in Reverters : Reverts(r, i) /\ WalletOf[c] \in revert[r].left
  BY <1>1, <1>4, RevertsAreRecords DEF Holds, Accounted, Reverts, Reverters
<1> QED BY <1>1, <1>2, <1>3, <1>4 DEF Holds, Keeps

\* Whichever calls run, fail or are reverted in whatever order: a booked coin
\* belongs to a call that runs, a transaction that is tracked or spent it, or
\* a revert under way, unless one of the faults happened that lose a booking.
THEOREM BookingsAreAccounted == Spec => []NoStrandedBooking
<1>1. Init => PlanInv /\ TrackedInv /\ BookedInv
  BY DEF Init, PlanInv, TrackedInv, BookedInv, Held
<1> QED BY <1>1, HeldIsAccounted, PlanNext, TrackedNext, BookedNext, CommonInit, CommonNext,
           TypeInit, TypeNext, PTL DEF Spec

=============================================================================
