------------------------------ MODULE Simulator ------------------------------
(***************************************************************************)
(* The simulator wallets are tested against: a ledger, its blocks and a    *)
(* mempool in one SubscriptionRef, a block producer that follows the        *)
(* states the ref publishes, the callers that submit transactions, and the  *)
(* sync services of the wallets that read the shared stream of states.      *)
(*                                                                         *)
(* A subscriber of the ref reads every state in order, each at its own      *)
(* pace, so that `published` is the whole history and a subscriber is an    *)
(* index into it.  The ledger, and what it refuses, is external.            *)
(***************************************************************************)
EXTENDS Naturals, Sequences

CONSTANTS
  Transactions,  \* transactions that are submitted, each with one output, named after it
  Rewards,       \* those that claim a Night reward
  Unbalanced,    \* those refused where balancing is enforced
  SpendsOf,      \* per transaction: the outputs it spends
  Expiry,        \* per transaction: its TTL
  Mints,         \* genesis mints, in order: [tx, type, keyed]
  MintTx,        \* the one transaction of the shielded and custom mints
  MaxDetours     \* bound: calls of fastForward and wallets stopped, together

Genesis == {MintTx} \cup {Mints[i].tx : i \in DOMAIN Mints}
Outputs == Transactions \cup Genesis

\* Nobody submits a genesis transaction again, and a claim spends a reward, not
\* an output.
ASSUME SimulatorAssumption ==
  /\ Rewards \subseteq Transactions /\ Unbalanced \subseteq Transactions
  /\ Genesis \cap Transactions = {}
  /\ SpendsOf \in [Transactions -> SUBSET Outputs]
  /\ \A t \in Rewards : SpendsOf[t] = {}
  /\ Mints \in Seq([tx : Genesis, type : {"night", "shielded", "custom"}, keyed : BOOLEAN])
  /\ MaxDetours \in Nat

VARIABLES
  published,   \* the states of the SubscriptionRef, the last one current
  handled,     \* how many of them the block producer has taken
  producing,   \* whether the fiber of the block producer runs
  caller,      \* per transaction: how it was submitted, and what became of it for the caller
  answer,      \* per transaction: the number of the block submitTransaction returned
  discarded,   \* history: transactions of requests that failed
  stream,      \* per wallet: [at, next, seen] of its sync stream
  appliedIndex, \* event wallet: first block it has not replayed
  replayed,    \* event wallet: the events it has replayed
  utxos,       \* unshielded wallet: [available, pending]
  rewound,     \* history: the unshielded wallet was given an older state
  detours

producerVars == <<published, handled, producing, discarded>>
callerVars == <<caller, answer>>
followerVars == <<stream, appliedIndex, replayed, utxos, rewound>>
simulatorVars == <<producerVars, callerVars, followerVars, detours>>

\* The lists of a sequence of lists, one after the other.
Flat(lists) ==
  LET upTo[n \in 0..Len(lists)] == IF n = 0 THEN <<>> ELSE upTo[n - 1] \o lists[n]
  IN upTo[Len(lists)]

Followers == {"events", "unshielded"}

Latest == published[Len(published)]

GetLastBlock(s) == s.blocks[Len(s.blocks)]

Publish(s) == published' = Append(published, s)

-----------------------------------------------------------------------------
(* Transactions in a ledger: the rewards distributed and the outputs that   *)
(* are unspent; `spent` is what protects it from a replay.                  *)

Conflicts(ledger, t) ==
  \/ t \in ledger.spent
  \/ SpendsOf[t] \ ledger.outputs # {}
  \/ t \in Rewards /\ t \notin ledger.claimable

Spend(ledger, t) ==
  [outputs |-> (ledger.outputs \ SpendsOf[t]) \cup {t},
   claimable |-> ledger.claimable \ {t},
   spent |-> ledger.spent \cup {t} \cup SpendsOf[t]]

\* tx.wellFormed throws: not balanced, too late, or, if this is where the
\* ledger looks for them (`early`), for spends that were made before.
Malformed(ledger, ready, time, early) ==
  \/ ready.tx \in Unbalanced /\ ready.strictness = "default"
  \/ Expiry[ready.tx] < time
  \/ early /\ Conflicts(ledger, ready.tx)

\* processTransaction, in the fold of processTransactions: the first error
\* ends it; a transaction that fails as it is applied is part of the block.
ProcessTransaction(acc, ready, time, early) ==
  IF ~acc.ok \/ Malformed(acc.ledger, ready, time, early)
    THEN [acc EXCEPT !.ok = FALSE]
  ELSE IF Conflicts(acc.ledger, ready.tx)
    THEN [acc EXCEPT !.txs = Append(@, [tx |-> ready.tx, result |-> "failure"])]
  ELSE [acc EXCEPT !.txs = Append(@, [tx |-> ready.tx, result |-> "success"]),
                   !.ledger = Spend(@, ready.tx)]

ProcessTransactions(ledger, request, time, early) ==
  LET upTo[n \in 0..Len(request)] ==
        IF n = 0 THEN [ok |-> TRUE, ledger |-> ledger, txs |-> <<>>]
        ELSE ProcessTransaction(upTo[n - 1], request[n], time, early)
  IN upTo[Len(request)]

\* Mutant: a request empties the mempool.
WithoutTxsOff(mempool, request) == <<>>

\* removeFromMempool: drop what the request holds.
WithoutTxs(mempool, request) ==
  Flat([i \in DOMAIN mempool |->
    IF \A j \in DOMAIN request : request[j].tx # mempool[i].tx THEN <<mempool[i]>> ELSE <<>>])

CreateBlock(s, done, time, request) ==
  [s EXCEPT !.ledger = done.ledger,
            !.blocks = Append(@, [number |-> GetLastBlock(s).number + 1, txs |-> done.txs]),
            !.mempool = WithoutTxs(@, request),
            !.time = time]

-----------------------------------------------------------------------------
(* The genesis block                                                        *)

\* Night needs a verifying key for the claim; without one the mint is skipped.
Minted(t) == <<[tx |-> t, result |-> "success"]>>

GenesisTransactions ==
  (IF \E i \in DOMAIN Mints : Mints[i].type # "night" THEN Minted(MintTx) ELSE <<>>)
    \o Flat([i \in DOMAIN Mints |->
         IF Mints[i].type = "night" /\ Mints[i].keyed THEN Minted(Mints[i].tx) ELSE <<>>])

\* Simulator.init: a blank ledger, or one with the outputs minted.
InitialState ==
  [ledger |-> [outputs |-> {GenesisTransactions[i].tx : i \in DOMAIN GenesisTransactions},
               claimable |-> {}, spent |-> {}],
   blocks |-> <<[number |-> 0, txs |-> GenesisTransactions]>>,
   mempool |-> <<>>,
   time |-> 0]

-----------------------------------------------------------------------------
(* Callers                                                                  *)

AddToMempool(s, t, strictness) ==
  [s EXCEPT !.mempool = Append(@, [tx |-> t, strictness |-> strictness])]

\* Both ways to submit; a wallet submits what it has booked the inputs of.
Enqueue(t, how) ==
  /\ caller[t] = "none"
  /\ t \notin Rewards
  /\ SpendsOf[t] \subseteq utxos.pending
  /\ caller' = [caller EXCEPT ![t] = how]
  /\ \E strictness \in {"none", "genesis"} : Publish(AddToMempool(Latest, t, strictness))
  /\ UNCHANGED <<handled, producing, discarded, answer, followerVars, detours>>

SubmitAndWait(t) == Enqueue(t, "waiting")
SubmitAndForget(t) == Enqueue(t, "forgotten")

\* rewardNight, first step: the reward goes straight into the ledger.
DistributeNight(t) ==
  /\ t \in Rewards
  /\ caller[t] = "none"
  /\ caller' = [caller EXCEPT ![t] = "distributed"]
  /\ Publish([Latest EXCEPT !.ledger.claimable = @ \cup {t}])
  /\ UNCHANGED <<handled, producing, discarded, answer, followerVars, detours>>

\* Second step: submit the claim, which is not balanced.
SubmitClaim(t) ==
  /\ caller[t] = "distributed"
  /\ caller' = [caller EXCEPT ![t] = "waiting"]
  /\ Publish(AddToMempool(Latest, t, "genesis"))
  /\ UNCHANGED <<handled, producing, discarded, answer, followerVars, detours>>

InMempool(s, t) == \E i \in DOMAIN s.mempool : s.mempool[i].tx = t

BlocksWith(s, t) ==
  {b \in DOMAIN s.blocks : \E i \in DOMAIN s.blocks[b].txs : s.blocks[b].txs[i].tx = t}

\* submitTransaction waits for the first state whose mempool lacks the
\* transaction, and returns the first block that holds it, or fails with
\* "Transaction was discarded".
AnswerCaller(t) ==
  /\ caller[t] = "waiting"
  /\ ~InMempool(Latest, t)
  /\ LET last == CHOOSE i \in DOMAIN published :
                   /\ InMempool(published[i], t)
                   /\ ~InMempool(published[i + 1], t)
         s == published[last + 1]
         found == BlocksWith(s, t) IN
       IF found = {}
         THEN caller' = [caller EXCEPT ![t] = "discarded"] /\ UNCHANGED answer
         ELSE /\ caller' = [caller EXCEPT ![t] = "included"]
              /\ answer' = [answer EXCEPT ![t] =
                   s.blocks[CHOOSE b \in found : \A c \in found : b <= c].number]
  /\ UNCHANGED <<producerVars, followerVars, detours>>

FastForward ==
  /\ detours < MaxDetours
  /\ detours' = detours + 1
  /\ Publish([Latest EXCEPT !.time = @ + 2])
  /\ UNCHANGED <<handled, producing, discarded, callerVars, followerVars>>

-----------------------------------------------------------------------------
(* The block producer                                                       *)

\* allMempoolTransactions: everything in the mempool, each with its own
\* strictness or that of the producer.
AssignStrictness(mempool) ==
  [i \in DOMAIN mempool |->
    [tx |-> mempool[i].tx,
     strictness |-> IF mempool[i].strictness = "none" THEN "default" ELSE mempool[i].strictness]]

\* A state with an empty mempool asks for no block.
SkipState ==
  /\ producing
  /\ handled < Len(published)
  /\ published[handled + 1].mempool = <<>>
  /\ handled' = handled + 1
  /\ UNCHANGED <<published, producing, discarded, callerVars, followerVars, detours>>

\* All transactions of a request that failed leave the mempool.
DiscardRequest(request) ==
  Publish([Latest EXCEPT !.mempool = WithoutTxs(@, request)])

\* #produceBlock: the transactions are those of the state that was published
\* then, the ledger is that of now.  A failed request ends the producer.
ProduceBlock ==
  /\ producing
  /\ handled < Len(published)
  /\ published[handled + 1].mempool # <<>>
  /\ handled' = handled + 1
  /\ \E early \in BOOLEAN :
       LET request == AssignStrictness(published[handled + 1].mempool)
           time == Latest.time + 1
           done == ProcessTransactions(Latest.ledger, request, time, early) IN
         IF done.ok
           THEN /\ Publish(CreateBlock(Latest, done, time, request))
                /\ UNCHANGED <<producing, discarded>>
           ELSE /\ DiscardRequest(request)
                /\ producing' = FALSE
                /\ discarded' = discarded \cup {request[i].tx : i \in DOMAIN request}
  /\ UNCHANGED <<callerVars, followerVars, detours>>

-----------------------------------------------------------------------------
(* The sync streams of the wallets                                          *)

Off == [at |-> "off", next |-> 0, seen |-> 0]
Listening == {w \in Followers : stream[w].at = "shared"}

\* Mutant: the older accessor, which takes the position for the last block that
\* was replayed.
BlockEventsFromOff(s, position) ==
  Flat([i \in DOMAIN s.blocks |->
    IF s.blocks[i].number > position THEN s.blocks[i].txs ELSE <<>>])

\* getBlockEventsFrom: the events of the blocks from the position on.
BlockEventsFrom(s, position) ==
  Flat([i \in DOMAIN s.blocks |->
    IF s.blocks[i].number >= position THEN s.blocks[i].txs ELSE <<>>])

\* Applying a state to the shielded or dust wallet, which replays the events
\* of the blocks it has not seen.
ApplyBlocks(s) ==
  /\ replayed' = replayed \o BlockEventsFrom(s, appliedIndex)
  /\ appliedIndex' = GetLastBlock(s).number + 1
  /\ UNCHANGED utxos

\* Created: neither available nor pending in the wallet.
Created(s) == s.ledger.outputs \ (utxos.available \cup utxos.pending)

\* Applying a state to the unshielded wallet, which takes over the outputs of
\* the ledger, whatever they were before.
ApplyOutputs(s) ==
  /\ utxos' = [available |-> (utxos.available \cap s.ledger.outputs) \cup Created(s),
               pending |-> utxos.pending \cap s.ledger.outputs]
  /\ UNCHANGED <<replayed, appliedIndex>>

\* A state reaches wallet w; the event wallets skip states without new blocks.
Take(w, s) ==
  IF w = "unshielded" THEN ApplyOutputs(s)
  ELSE IF stream[w].seen < Len(s.blocks) THEN ApplyBlocks(s)
  ELSE UNCHANGED <<replayed, appliedIndex, utxos>>

\* updates(): first the latest state.
TakeLatest(w) ==
  /\ stream[w].at = "off"
  /\ stream' = [stream EXCEPT ![w] = [at |-> "latest", next |-> Len(published), seen |-> Len(Latest.blocks)]]
  /\ Take(w, Latest)
  /\ UNCHANGED <<producerVars, callerVars, rewound, detours>>

\* Then the shared stream.  The first listener starts it with the current
\* state; a later one is given the state it passed on last, which no listener
\* is ahead of.
Subscribe(w) ==
  /\ stream[w].at = "latest"
  /\ \E k \in 1..Len(published) :
       /\ IF Listening = {} THEN k = Len(published)
                            ELSE \A l \in Listening : stream[l].next <= k + 1
       /\ Take(w, published[k])
       /\ stream' = [stream EXCEPT ![w].at = "shared", ![w].next = k + 1]
       /\ rewound' = (rewound \/ (w = "unshielded" /\ k < stream[w].next))
  /\ UNCHANGED <<producerVars, callerVars, detours>>

TakeState(w) ==
  /\ stream[w].at = "shared"
  /\ stream[w].next <= Len(published)
  /\ LET s == published[stream[w].next] IN
       /\ Take(w, s)
       /\ stream' = [stream EXCEPT ![w].next = @ + 1,
                                   ![w].seen = IF @ < Len(s.blocks) THEN Len(s.blocks) ELSE @]
  /\ UNCHANGED <<producerVars, callerVars, rewound, detours>>

\* The wallet is stopped; it keeps its state for the next start.
StopSync(w) ==
  /\ detours < MaxDetours
  /\ detours' = detours + 1
  /\ stream[w].at # "off"
  /\ stream' = [stream EXCEPT ![w] = Off]
  /\ UNCHANGED <<producerVars, callerVars, appliedIndex, replayed, utxos, rewound>>

\* The unshielded wallet books the inputs of a transaction.
BookInputs(t) ==
  /\ caller[t] = "none"
  /\ SpendsOf[t] # {}
  /\ SpendsOf[t] \subseteq utxos.available
  /\ utxos' = [available |-> utxos.available \ SpendsOf[t],
               pending |-> utxos.pending \cup SpendsOf[t]]
  /\ UNCHANGED <<producerVars, callerVars, stream, appliedIndex, replayed, rewound, detours>>

SimulatorInit ==
  /\ published = <<InitialState>>
  /\ handled = 0 /\ producing = TRUE
  /\ caller = [t \in Transactions |-> "none"]
  /\ answer = [t \in Transactions |-> 0]
  /\ discarded = {}
  /\ stream = [w \in Followers |-> Off]
  /\ appliedIndex = 0 /\ replayed = <<>>
  /\ utxos = [available |-> {}, pending |-> {}]
  /\ rewound = FALSE
  /\ detours = 0

SimulatorNext ==
  \/ \E t \in Transactions : SubmitAndWait(t)
  \/ \E t \in Transactions : SubmitAndForget(t)
  \/ \E t \in Transactions : DistributeNight(t)
  \/ \E t \in Transactions : SubmitClaim(t)
  \/ \E t \in Transactions : AnswerCaller(t)
  \/ \E t \in Transactions : BookInputs(t)
  \/ FastForward
  \/ SkipState
  \/ ProduceBlock
  \/ \E w \in Followers : TakeLatest(w)
  \/ \E w \in Followers : Subscribe(w)
  \/ \E w \in Followers : TakeState(w)
  \/ \E w \in Followers : StopSync(w)

SimulatorSpec == SimulatorInit /\ [][SimulatorNext]_simulatorVars

-----------------------------------------------------------------------------
(* Properties                                                              *)

\* What submitTransaction returns is true, and stays true: the block holds the
\* transaction, or the transaction was part of a request that failed and is in
\* no block, now or later.
AnswersStand ==
  \A t \in Transactions :
    /\ caller[t] = "included" => answer[t] + 1 \in BlocksWith(Latest, t)
    /\ caller[t] = "discarded" => t \in discarded /\ BlocksWith(Latest, t) = {}

\* Nothing is lost between callers and the producer, who works on old states:
\* a submitted transaction waits in the mempool, or it is in a block or was
\* discarded; a reward can be claimed until it is.
NothingSwallowed ==
  \A t \in Transactions :
    /\ caller[t] \notin {"none", "distributed"} =>
         (InMempool(Latest, t) <=> (BlocksWith(Latest, t) = {} /\ t \notin discarded))
    /\ caller[t] = "distributed" => t \in Latest.ledger.claimable

\* What callers are told, and what becomes of what they submitted.
AnswerIsTrue == AnswersStand /\ NothingSwallowed

\* The shielded and dust wallets replay every transaction of every block up to
\* their position once and in order, whichever states of the shared stream
\* they are given and however often they are started.
ReplayedOnce ==
  replayed = Flat([i \in 1..appliedIndex |-> Latest.blocks[i].txs])

\* What the unshielded wallet booked for a transaction is not available again
\* while that transaction may still be included, unless the shared stream has
\* given it a state older than the one it started from.
BookingsKept ==
  ~rewound =>
    \A t \in Transactions :
      InMempool(Latest, t) => SpendsOf[t] \cap utxos.available = {}

\* Each wallet makes of the states what its sync promises.
SimulatorFollowed == ReplayedOnce /\ BookingsKept
=============================================================================
