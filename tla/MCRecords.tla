------------------------------ MODULE MCRecords ------------------------------
(***************************************************************************)
(* Two records of what happened to transactions: the history storage of a  *)
(* wallet, and the blocks and states of the simulator.  They share no      *)
(* state, so a behaviour moves one of them and TLC explores each by itself.*)
(***************************************************************************)
EXTENDS TxHistory, Simulator, TLC

CONSTANTS
  a, b,          \* identifiers
  s1, r1,        \* a transfer, and the claim of a reward
  g1, g2         \* the transactions of the genesis block

VARIABLE part  \* the record that is kept

\* A transaction, and the merged one that contains it.
PartAndWhole == {{a}, {a, b}}
ThreeWallets == [shielded |-> {1}, unshielded |-> {1}, dust |-> {1}]

\* The transfer spends the Night that was minted, and expires.
MCSpends == (s1 :> {g1}) @@ (r1 :> {})
MCExpiry == (s1 :> 3) @@ (r1 :> 9)
MCMints == <<[tx |-> g1, type |-> "night", keyed |-> TRUE],
             [tx |-> g2, type |-> "shielded", keyed |-> FALSE],
             [tx |-> g2, type |-> "night", keyed |-> FALSE]>>

recordsVars == <<vars, simulatorVars, part>>

RecordsInit == Init /\ SimulatorInit /\ part \in {"history", "simulator"}

History(A) == part = "history" /\ A /\ UNCHANGED <<simulatorVars, part>>
Simulated(A) == part = "simulator" /\ A /\ UNCHANGED <<vars, part>>

\* Bound: the wallets that see a transaction are one of these sets.
SomeViews == {{"shielded"}, {"unshielded", "dust"}}
SeenByOneOf(views) == {w.piece[1] : w \in todo' \ todo} \in views

\* Bound: the clock jumps only while a transaction waits in the mempool.
JumpWhileWaiting == FastForward /\ Latest.mempool # <<>>

RecordsNext ==
  \/ \E t \in Txs : History(Finalize(t))
  \/ \E t \in Txs : History(Submit(t))
  \/ \E t \in Txs : History(Include(t) /\ SeenByOneOf(SomeViews))
  \/ \E t \in Txs, form \in {SubmitForm, "unproven"} : History(UserRevert(t, form))
  \/ \E c \in calls : History(Record(c))
  \/ \E c \in calls : History(Submitted(c))
  \/ \E c \in calls : History(SubmissionFails(c))
  \/ \E i \in pending : History(AutoRevert(i))
  \/ \E i \in pending : History(Verdict(i))
  \/ \E r \in reverts : History(ClearReverted(r))
  \/ \E r \in reverts : History(Reject(r))
  \/ \E w \in todo : History(PutShielded(w))
  \/ \E w \in todo : History(PutDust(w))
  \/ \E w \in todo : History(PutUnshielded(w))
  \/ \E w \in todo : History(GiveUp(w))
  \/ History(Restart)
  \/ \E t \in Transactions : Simulated(SubmitAndWait(t))
  \/ \E t \in Transactions : Simulated(SubmitAndForget(t))
  \/ \E t \in Transactions : Simulated(DistributeNight(t))
  \/ \E t \in Transactions : Simulated(SubmitClaim(t))
  \/ \E t \in Transactions : Simulated(AnswerCaller(t))
  \/ \E t \in Transactions : Simulated(BookInputs(t))
  \/ Simulated(JumpWhileWaiting)
  \/ Simulated(SkipState)
  \/ Simulated(ProduceBlock)
  \/ \E w \in Followers : Simulated(TakeLatest(w))
  \/ \E w \in Followers : Simulated(Subscribe(w))
  \/ \E w \in Followers : Simulated(TakeState(w))
  \/ \E w \in Followers : Simulated(StopSync(w))

RecordsSpec == RecordsInit /\ [][RecordsNext]_recordsVars
=============================================================================
