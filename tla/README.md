# A verification project for the Midnight wallet SDK

TLA+ models of the wallet SDK in `packages/*/src` (all source paths below are relative to `packages/`), TLC runs that
check them on small instances, and TLAPS proofs that hold for every value of the constants. `PROJECT.json` lists the
components, the runs, for every definition the lines of code it models (`map`), for every property a mutation of the
code that breaks it (`mutants`), the hazards the properties are aimed at, the findings and the theorems.

    tlc -workers 2 -config Following.cfg MCFollowing.tla     # check one run
    tlapm FollowingProofs.tla                                # check the proofs of one module

## 1. The system

The SDK is a TypeScript library, mostly written with Effect fibers and streams, that an application embeds. It keeps
three wallets (shielded, unshielded, dust), follows the chain through an indexer, builds, proves and submits
transactions, and gives coins back when a transaction fails. All of it runs on one event loop, so a race is an
interleaving at an `await`, a `yield*` or a callback. The state of a wallet lives in a `SubscriptionRef`, whose updates
hold a semaphore: such an update is one atomic action in the models.

### Inventory

| Component | State | Operations | Hard behaviour | Correct when |
|---|---|---|---|---|
| Unshielded wallet (`unshielded-wallet/src/v1`) | available and pending UTxOs, applied id, highest id | transfer, rotate, swap, balance, sign, revert, apply SUCCESS / PARTIAL_SUCCESS / FAILURE, save, restore | a revert racing the sync, re-delivery after a reconnection, restore of an old snapshot | the balance is the ledger's, no UTxO is offered while booked, nor given to two transactions |
| Shielded and dust sync (`*/v1/Sync.ts`, `RunningV1Variant.ts`) | applied index, tip, local ledger state, lookups under way | start, receive a batch, apply, retry, look up a transaction, save, restore | overlapping fibers, re-delivery of the boundary event, completion by the server, forked lookups | every event is replayed once, "synced" is true only at the tip, the history misses nothing silently |
| Dust wallet (`dust-wallet/src/v1`) | pendingDust, marks in the ledger library's DustLocalState | select inputs, pay fees in rounds, register Night, revert, restore | one booking kept in two places, marks that only time lifts, a fee that depends on the inputs it pays with | bookings agree in both places, the fee is covered, a registration costs what was estimated |
| Shielded wallet (`shielded-wallet/src/v1`) | ZswapLocalState (ledger library), coin hashes beside it | balance per section, transfer, swap, revert, restore | coin identity in fallible sections, the local state threaded through sections | no coin spent twice, the balance is what will be owned, every coin has its hash |
| Balancer (`capabilities/src/balancer`) | counter offer: imbalances, inputs, outputs | pick a coin, add change | every addition moves the fee | a recipe settles exactly what was missing |
| Indexer subscriptions (`indexer-client/src/effect`) | session, generation, watermark, in-flight count, disposer, queue | open, item, error, complete, consume, pause, resume, interrupt | callbacks of disposed sessions, callbacks before the disposer is stored | an ordered feed without gap or repetition, bounded memory |
| Schema sync tool (`indexer-client/scripts/schema-sync`) | lock file, copy of the schema, generated types | verify, update, change the tag | tags that move, edits by hand, a run that dies between two files | lock, copy and types agree, or the verification says so |
| Pending transactions (`capabilities/src/pendingTransactions`) | set of items with result | add (merge), clear, poll, save result, restore | a snapshot used across awaits, indexer lag, parts and merged transactions | one item per transaction, tracked until resolved, failure is final |
| Facade (`facade/src/index.ts`) | none of its own; owns the pending service, the history and a subscription | transfer, swap, balance, sign, register dust, finalize, submit, revert, start, stop | steps over several wallets without a transaction, auto-revert racing the user | available coins are safe to spend, no booking is stranded, what is signed stays signed, the history is true |
| Wallet classes and builders (`*/v1/V1Builder.ts`, `*Wallet.ts`, `runtime/src/WalletBuilder.ts`) | builder's components, replayed state, subscriptions | build, start, restore, observe, wait, stop | a chain of queues between state and observer, stop during start | the newest state arrives and never an older one, a stopped wallet is quiet |
| Runtime (`runtime/src`) | current variant and its scope, accumulator, published state | start, dispatch, migrate, stop | migration while commands and sync go on, stop in the middle of it | commands survive, nothing runs on in the background |
| Transaction history storage (`abstractions/src`, `*/TransactionHistory.ts`) | entries by hash, three sections each | merge, got pending / finalized / rejected | unordered writers, parts of merged transactions | no section lost, nothing forgotten, nothing pending for ever |
| Submission and node client (`capabilities/src/submission`, `node-client/src`) | a shared connection | submit, watch status, close | a lost answer, one submission closing another's connection | the answer matches the node |
| Proving (`prover-client/src`) | a worker per proof | prove, answer key requests, time out | timeout racing the answer | settles once, the worker ends |
| Simulator (`capabilities/src/simulation`) | blocks, mempool, ledger, the wallets' cursors | submit, produce blocks, fast-forward, follow | snapshots of the mempool, a shared stream that lags | answers stand, wallets replay each block once |
| Address format, HD keys (`address-format/src`, `hd/src`) | an HD wallet's root key | encode, decode; select, derive, clear; sample a secret key | capital letters, the elided mainnet segment, widths of scalars | what comes back is what was sent, or an error |
| Validation, utilities, test kit | none | pure functions | | |

### How they interact

The application calls the facade. The facade dispatches a step to one wallet after the other; each runs inside the
runtime of that wallet, which routes it to the current variant. The wallets call the balancer and the ledger library.
The facade then proves (worker or HTTP), adds the transaction to the pending service and submits it through the node
client. The pending service polls the indexer and publishes every change of its state; the facade subscribes and
reverts what failed, in all three wallets and the history. The sync fibers of the wallets read their own subscriptions
(through the backpressure wrapper) and write state and history. A wallet can be serialized at any moment and restored
in another process; the pending service likewise, and independently.

## 2. Modules

| Module | Models | Correspondence |
|---|---|---|
| `UnshieldedWallet` | booking, revert, sync, save and restore of the unshielded wallet | `availableUtxos`/`pendingUtxos` are the two maps of `UnshieldedState`; `PrepareOffer`, `RollbackUtxos`, `ApplyUpdate`, `ApplyFailedUpdate` carry the code's names; the chain is a sequence of updates with ids |
| `DustWallet` | bookings of the dust wallet | a coin is its Night output and a sequence number; `state` is the local state with its marks, `pendingDust` the wallet's list; reverting runs the local time on, as the code does |
| `ShieldedWallet` | bookings of the shielded wallet | `wallet` is the local state with the hashes beside it; the operators `StateFor...` pass the state from section to section |
| `Balancing` | `Balancer.ts`, `CounterOffer.ts` and the fee rounds of the dust wallet | a pass of a loop is an action; the request carries what the three callers vary |
| `DustRegistration` | registering and deregistering Night outputs, with the wait for their dust and its estimate | one action per stretch between two awaits of `createDustActionTransaction`; amounts are what the outputs have generated |
| `Recipes` | a transaction through balancing, signing, proving, merging and reverting | `recipe` is the `BalancingRecipe`; a transaction is its intents by segment with the signature of each input, and the coins it spends |
| `Facade` | the calls of the facade as sequences of steps, reverts, submission, the revert subscription | one action per stretch between two awaits; `coin` is the wallets' view, `pending` the service's, `queue` the snapshots `concatMap` has yet to work off |
| `PendingTransactions` | the service with its polling loop | `state` is `all`, `queue` and `check` the loop between its awaits; a transaction is its set of identifiers |
| `TxHistory` | the history storage with its writers: facade and three wallets | `storage` is the map in insertion order (`find` and `clear` depend on it), `todo` the forked writes under way |
| `OrderedFeed` | what a subscription promises (abstract) | the contract the sync code relies on |
| `Backpressure` | `Backpressure.ts`, every callback and every transition of its state | `bp` is the `stateRef` record field by field, `sessions` the sources opened so far, `queue` and `exit` the asyncPush queue; the pure transitions `DecideItem`, `DecideComplete`, `DecideResume`, `DecideTerminate` are operators |
| `EventSync` | the sync fibers of the shielded and dust wallets and their history lookups | `wallet` is the synced part of `CoreWallet`; events are 1, 2, ... |
| `Runtime` | `Runtime.ts` with `WalletBuilder`'s start and stop | `phase`, `acc` and `changes` are the fiber of `runVariantStream`, its accumulator and what the variant's stream holds for it |
| `WalletClasses` | the builders, the classes they make, a wallet object from start to stop, the facade's start and stop | `held`, `published`, `unread`, `shared` are the variant's reference, the runtime's, the sliding buffer and the shared observable; a state is a number |
| `Submission` | submission service, node client and the socket they share | a call is the transaction it submits; `callPhase` is where its stream is, `socket` the WebSocket of the shared api, `link` and `reports` the subscriptions it carries; the node is external |
| `Proving` | the worker of a proof with its messages, key lookups and timer; the proof server | `outbox` holds what the worker posted, `lookup` the downloads of the default key provider, `promise` what the caller waits for |
| `Simulator` | simulator, block producer, callers and the wallets' simulator sync | `published` is every state its reference ever held; a subscriber is an index into it |
| `SchemaSync` | the schema tool with every file it reads and writes | `tool` is the run between two of its steps, a content stands for its hash |
| `AddressFormat` | codecs and parser, beside the reference implementation of the specification | a text is its segments and payload; `result` is what the code makes of it, `expected` what the reference does |
| `KeyDerivation` | the HD wallet and the sampling of scalars | keys are paths; the sampling is on bytes of a small base |
| `Encodings` | the two of them side by side, for the property that a run checks of both | |
| `MC*` | instances for TLC; those of several components let a behaviour move one of them (`part`) | |
| `*Proofs` | theorems and proofs, one module per group of components | `IndexerClientProofs` (`Backpressure`, `SchemaSync`), `LocalWalletsProofs` (`Balancing`, `DustWallet`, `ShieldedWallet`, `WalletClasses`, `DustRegistration`, `Recipes`, `Encodings`), `ClientsProofs` (`Submission`, `Proving`), `FollowingProofs` (`EventSync`, `Runtime`), `RecordsProofs` (`TxHistory`, `Simulator`), `UnshieldedWalletProofs`, `PendingTransactionsProofs`, `FacadeProofs` |

Some modelling decisions that are not obvious:

- **Histories instead of many runs.** `mishaps`, `mishap`, `strained`, `missed`, `late`, `lost`, `spoiled`, `rewound`
  record that something happened after which a promise is off (a fault the code does not defend against, or a
  documented limit). A property states the promise under its exact condition, so one run with every fault enabled covers
  all the cases, and the condition says which fault is to blame. Where the promise fails *because of* such an event and
  a document promises otherwise, a run with expectation `violation` shows it without the condition.
- **Conjunctions.** Where a run checks many parts, a property is the conjunction of a component's named promises:
  `OutcomeIsRight` (`Settles`, `FeeCovered`, `RefusedOnlyWhenShort`), `DustBookings` (`BookedNotOffered`,
  `PendingHasOwner`, `AvailableIsCounted`), `ShieldedBookings` (`HashesCover`, `CoinsSpentOnce`, `TotalIsFuture`),
  `RegistrationHolds` (`BookedByOneCall`, `EstimateHolds`), `RecipesHold` (`PartsCanBeMerged`, `BookedIsCarried`,
  `SignaturesHold`), `ClassesHold` (`BuiltWhole`, `LatestIsSeen`, `AnswersGoForward`, `StoppedIsQuiet`), `EncodingsHold`
  (`AddressesHold`, `KeysHold`), `HistoryKept` (`SectionsKept`, `NothingForgotten`), `AnswerIsTrue` (`AnswersStand`,
  `NothingSwallowed`), `SimulatorFollowed` (`ReplayedOnce`, `BookingsKept`), `VerdictsAreTrue` (`StageWasReached`,
  `FailedStaysOut`), `PinsHold` (`UpdateRepairs`, `VerifiedIsPinned`, `VerifiedTypes`), `EveryCallSettles`
  (`EventuallySettled`, `EveryProofSettles`). Each conjunct has its own comment in the module.
- **External parts.** Ledger, indexer, node, graphql-ws, GitHub and the clock are modelled from how the code uses them
  and are marked external in the map. In `Runtime` the sync that raises the version is external as well: today's
  variants set `protocolVersion` only from a snapshot, the runtime is built for those that do more.
- **Runtime.SetCurrent** sets `currentVariantRef` and subscribes in one action: the fiber does not suspend between the
  two (no contended semaphore, no asynchronous effect), and reading the reference and its `changes` starts with its
  current value. The subscription of the first variant likewise happens within `runSync`.
- **Balancing** abstracts amounts to small integers and the ledger's fee to a base and a part per spend; the comparison
  of coins by value (`byValue`) is kept because the outcome depends on it.
- **Recipes** keeps what a signature was made over (which inputs the intent had), so that a signature that was overtaken
  by a later change of its intent is a value of its own. The other party's inputs are signed before the wallet sees them.
- **Facade and Recipes** divide the balancing calls: `Facade` has the order in which the wallets are asked and what
  stops a call midway, `Recipes` what the transactions look like when none does.
- **Submission.** `disturbed` records that a call shared the client with another one, lost its connection, or saw
  `close()`; `unsure` that the node itself no longer answers for the transaction (finality timeout, dropped) or that its
  report could not be decoded. The properties state what a call is owed outside of these. `api.disconnect()` returns
  before the socket is closed, and `isConnected` stays true in between, which the actions keep apart.
- **Proving.** Every key consists of the same number of files; whether the prover fails, and whether a browser reports
  the rejection that the worker throws, are free choices.
- **PendingTransactions.HasTTLExpired** follows the code: a transaction with dust payments, or counted as shielded, is
  given the grace period.

## 3. Runs

| Run | Module | Bounds | What it shows |
|---|---|---|---|
| `UnshieldedBooking` | `MCUnshieldedWallet` | 3 UTxOs, 2 transactions, chain of 3, 1 disconnect, 1 restart, no re-delivery, no in-place balancing, symmetry | disjoint sets and no double booking for every interleaving of two transactions with reverts, restores and all ledger outcomes |
| `InPlaceBooking` (violation) | `MCUnshieldedWallet` | the same with in-place balancing | what is balanced in place spends coins the wallet goes on offering |
| `IndexerClient` | `MCIndexerClient` | feed: buffer 3, threshold 1, watermark 1, 5 events, all faults; wallet: 2 UTxOs, 1 transaction, chain of 3, 1 disconnect, 1 restart, all faults; schema: 2 sources, 2 tags, 2 schemas, 3 runs, 2 edits | refinement of `OrderedFeed`, delivery, and (until a fault) the cap and no leaked subscription; the balance survives re-delivery, stale reverts and failures that list inputs, and the wallet catches up; the pins agree |
| `SchemaUpdate` (violation) | `MCIndexerClient` | the same | an update leaves types of older settings where they are |
| `PendingTransactions` | `MCPendingTransactions` | two parts and their merged transaction, clock 0..2, 1 restart, indexer lag and failing queries | separation, tracking, finality, resolution |
| `FacadeSafety` | `MCFacade` | 2 calls, 1 coin in each of 2 wallets, transfer and registration, 1 mishap of any kind (a wrong verdict of the pending service among them), symmetry | coins safe to spend, bookings accounted for, truthful history, every failed transaction is going to be reverted |
| `FacadeStale` (violation) | `MCFacade` | 2 calls, 1 coin, stale reverts | a second revert releases another transaction's coin |
| `FeeRounds` (violation) | `MCBalancing` | 8 coins of 3 types, the dust wallet's requests | fee balancing may loop for ever |
| `Following` | `MCFollowing` | sync: 2 start() calls, batches of 2, 3 events, 2 faults of any kind; runtime: 3 variants (one version inside the first range, one beyond the last), 2 commands, 1 Next, started with the first variant | exactly-once replay, honest synced flag, history, catching up; commands survive a migration, nothing runs in the background, the runtime follows the version |
| `Clients` | `MCClients` | node: 2 submissions that wait for finality (what the facade waits for), 1 lost connection, 1 reorganization; prover: 2 proofs, 2 keys of 2 files, 2 attempts, 1 repetition | an answer is true, a failure undisturbed by others is final, no worker is left, everything settles unless its subscription was cut |
| `LocalWallets` | `MCLocalWallets` | balancer: 8 coins of 3 types, 512 requests; dust: 2 Night outputs, 2 transactions, clock 0..3, grace 1, 1 restore; shielded: 2 coins at the start and 4 at most, 2 transactions, 1 restore; registration: 2 calls, 2 outputs of different rates, fees 1 and 2, 2 ticks; recipes: 2 UTxOs of the wallet and 1 of the other party, 1 shielded and 1 dust coin, 6 segments, 2 balancings; classes: 2 asks, 2 writes, 1 start, 1 restore; keys: accounts and indexes -1, 0, 2 with 2 as first hardened number; addresses: payloads of at most 5 binary digits, keys of 2, networks with capitals, digits and the mainnet's name; symmetry | balancings end rightly, bookings agree with the local states, a registration costs what was estimated, recipes can be merged, carry what was booked and stay signed, wallets are seen in order, keys and addresses are what the specification has |
| `Records` | `MCRecords` | history: a transaction and the merged one, seen by the shielded wallet or the other two (`SomeViews`; the theorems about it have no such bound), a verdict of failure at any time, 2 calls, 1 revert or restart; simulator: a transfer and a claim, 2 genesis transactions, 2 wallets, 1 stop or jump of the clock, which jumps only while a transaction waits (`JumpWhileWaiting`) | no section lost, nothing forgotten, nothing pending untracked; answers of the simulator stand and wallets replay each block once |

A run over several components lets each behaviour move one of them (the variable `part`): they share no state, and one
run asks one kind of question of each. Where components do share state (wallets and pending service under the facade,
history under facade and wallets, simulator under its wallets) a module has both.

**Why the bounds suffice.** Each instance is the smallest in which the interesting case can happen twice or between two
actors: two transactions competing for one coin plus a foreign one, a buffer that fills and drains while a second and
third session is open (an item early, at, and after the pause), an item absorbed by a bigger one, two fibers with
overlapping batches, two migrations in a row with a command before, during and after, a transaction balanced, finalized
and balanced again, a snapshot of the mempool taken before a block and used after it. One mishap at a time is enough in
the facade because each property names the mishaps it excludes; two would only conflate them. The claims that matter
most do not rest on the bounds: they are proved (section 4). Symmetry is used only where the elements are compared for
equality and no liveness is checked; in `LocalWallets` one pair of values serves as calls, transactions and asks of all
its components, so that one group of permutations covers them. In `UnshieldedBooking` the next-state relation leaves
in-place balancing out (`BookingNext`), which the finding is about; `IndexerClient` has it. Deadlock checking is off where the
system may stop: a stream that ended, a balancing that is done, calls that are over, a runtime that was stopped, a tool
nobody calls again.

**Fairness.** Only what the scheduler owes: the fibers of the library run when they can (`WF` of the sync, retry,
consumer, lookup and polling steps; in `Backpressure` of the callbacks of the current session only; in `Runtime` of the
following fiber; in `Balancing` of the next pass of a synchronous loop; in `Submission` the socket opens and closes, and
the node goes on with what it accepted, while a request may be lost for ever; in `Proving` the ten-minute timer fires
and the proof server answers or its connection breaks, while nothing is asked of the prover). For `PendingTransactions`
the clock moves and the indexer eventually indexes what is on chain. Nothing obliges a user to act, a fault to stop or
the chain to grow. `Facade` needs no fairness: instead of "a failed transaction is eventually reverted" it states the
invariant that somebody holds the duty to revert it. Neither does `WalletClasses`: that the newest state arrives is the
invariant that whoever looks has it once nothing is on its way.

## 4. Proofs

All theorems assume only the named `ASSUME` of the module (well-formed constants: disjoint model values, bounds in
`Nat`, increasing versions, a threshold below the buffer size); TLC evaluates it in every run.

| Theorem | States | Inductive invariant and why it is needed |
|---|---|---|
| `UnshieldedWalletProofs!TypeCorrect` | types | |
| `...!TotalBalance` | `TotalIsLedgerBalance`, all faults | `LedgerInv`: the snapshot has the ledger's balance at *its* position too (else a restore breaks it), the cursor skips nothing, and the chain is well formed (outputs fresh, inputs unspent), which makes replaying the boundary update harmless |
| `...!AvailableNeverPending` | disjoint sets without the inclusive cursor | `DisjointInv`, also for the snapshot |
| `...!NoDoubleBooking` | `LiveInputsReserved` without faults | `BookingInv`: reserved inputs of live transactions, now and in the snapshot, are outputs already seen, so no later update can make them available |
| `IndexerClientProofs!DeliversOrderedFeed` | the module implements `OrderedFeed` | `Contiguous`, `SessionInv`, `ExitInv`: the queue holds exactly the keys between consumer and watermark; the current session never runs ahead of the watermark; an exit is queued only when the stream is terminal |
| `...!InFlightBounded` | `InFlightCapped` | `CapInv`: outside a pause there is room for one more item and the handle a pause will dispose is that of the session that could deliver it |
| `...!NothingLeaks` | `NoLeakedSubscription` | `HandledInv`: until a stale or early callback, the only session that may be open is the one whose disposer is stored, and none is open during a pause |
| `...!PinsAgree` | `PinsHold` | `PinInv`: what a running tool holds in memory is of the right kind (`ToolKnows`); while nobody interferes, it is what source, lock and copy have at that step (`FilesFollow`); the types are those of the copy that is there, also of one about to get a new header (`TypesFollow`). `ArgvsAssumption` only says that the tags asked for are among the tags of the model |
| `PendingTransactionsProofs!ItemsSeparated` | `Separated` | inductive by itself; the proof is about the merge of an added transaction with the items that contain it or that it contains |
| `...!NothingForgotten` | `TrackedUntilResolved`, if parts are added before what they are merged into (`InOrder`, as the facade does) | `TrackInv`: an item is for a transaction that was added and that no bigger one contains. Without `InOrder` it is false: with the items {a,b} and {b,c}, adding {b} keeps one of the two equally big items and drops the other |
| `...!FailuresAreFinal` | `FinalUnlessMissed`, likewise | `FinalInv`: a verdict of failure, saved or about to be, is on a transaction that failed on chain, or is over its TTL and not on chain (`VerdictInv`); included transactions do not overlap (`ChainInv`). `MergeAssumption`: a merged transaction expires no later than its parts |
| `FacadeProofs!FailedIsReverted` | `FailedAwaitsRevert` | `AwaitInv`: the property, and that the subscription clears what it has reverted |
| `...!HistoryIsTruthful` | `HistoryTruthful` | `CommonInv`: how far a call is bounds what service, node and history know of it, whom a snapshot names fails for good unless a verdict was wrong; `OrderlyInv`: without the named mishaps, what is reverted has failed for good or was given up unsent, and nobody reverts the same transaction twice |
| `...!AvailableCoinsAreSafe` | `SafeUnlessMishap` | no mishap but `late_step` and `revert_error`. `SafeInv`: while a transaction may still need or give back its coins in a wallet (`Keeps`), they are not available and no other transaction keeps them (`OneKeeper`); what is spent was spent by a success |
| `...!BookingsAreAccounted` | `NoStrandedBooking` | also after a wrong verdict. `BookedInv`: a booked coin is kept by a transaction or spent by it; `TrackedInv`: what was finalized is tracked until it is on chain; `PlanInv`: a call with a check to come has booked in the unshielded wallet only. The last is a property of the flows (`FlowsAssumption`), which TLC evaluates for the code's |
| `FollowingProofs!EveryEventOnce` | `ExactlyOnce` for any number of fibers | batches are contiguous and start at most one above what the wallet has applied (`StreamsAligned`), and a snapshot is a prefix (`SavedEarlier`) |
| `...!HistoryIsCovered`, `...!SyncedOnlyAtTheTip` | `HistoryCovers`, `SyncedIsHonest` | the second needs that with one fiber the tip in the state is the greatest heard of (`HInv`) |
| `...!MigrationKeepsCommands` | `CommandsSurvive` | `StreamInv`: the last state before any version out of range in the stream (or the accumulator, if there is none) holds the effects of all commands applied in time; `MigrationInv` carries that state to the next variant |
| `...!NoVariantLeftRunning` | `NothingInBackground` | `ScopeInv`: only the current variant has a sync fiber or commands on their way |
| `...!QuietRuntimeIsCurrent` | `QuietMeansCurrent` | `StreamInv`: a version in the stream comes with the state that has it |
| `LocalWalletsProofs!DistinctCoins` | `SpendsDistinctCoins` | picked coins leave the list (`PickedInv`), also from one round to the next |
| `...!BalancingsEndRight` | `OutcomeIsRight`, any coins, values, types and requests | `BalancingInv`: the imbalances are what the inputs bring less what outputs and fees take (`AccountInv`), a type that got its change stays settled and the fee token gets it last (`ChangeInv`), what is not on offer any more was picked (`OfferInv`). From its second round on the dust wallet starts from the fee as a surplus (finding 2), so the accounts of that round are off; it picks nothing then, which is why a recipe that does end pays exactly its fee. `BalancingAssumption`: the rounds are the dust wallet's, which asks for its own token only and whose coins cost nothing to move (`dust-wallet/src/v1/Transacting.ts:646-661`) |
| `...!DustBookingsAgree` | `DustBookings` | `DustInv`: without a mishap, the coins of a transaction in use are booked under a mark it can lift, or spent already (`OwnedCoins`), no two transactions share one (`OwnersApart`), and what is not booked has no mark (`FreeUnmarked`) |
| `...!ShieldedBookingsAgree` | `ShieldedBookings` | `ShieldedInv`: wallet and snapshot are what replaying the chain up to their position gives (`WalletAt`); beyond that, exactly what the transactions in use spend and make is pending, each coin for one of them (`ShieldedOrderly`); outputs are new to the chain until they are included (`ShieldedTxsSound`). What replaying a batch gives is by induction on its length |
| `...!WalletsAreSeenInOrder` | `ClassesHold` | `ClassesInv`: the last state on its way in each queue is the one its source has (`Flows`), states only get newer from what has been shown back to the variant (`SharedOrdered`, `UnreadOrdered`), who still waits has not been shown what it waits for (`WaitsForMore`), and a facade that stops has nothing open but what it has yet to stop (`StopInv`) |
| `...!RegistrationsHold` | `RegistrationHolds` | `RegistrationInv`: what a call waited for has been generated by one of its unregistered outputs (`WaitedFor`), at each stage the transaction spends the call's outputs with one in the guaranteed section and the signatures made so far (`BuiltOf`), and the payment allowed covers the fee waited for (`PaidOf`). `RegistrationBounds`: finitely many Night outputs |
| `...!RecipesStayWhole` | `RecipesHold` | `RecipeInv`: the parts share no segment and use the first ones only (`PartsApart`), so the next balancing finds two free, carry what is booked (`PartsCarry`), and each signature of the wallet is over the intent as it is (`PartsSigned`): the parts of a finalized transaction are all signed, which is what survives signing a recipe whose base is bound. `RecipeBounds`: more segments than balancing calls can use; beyond that the code takes segment 1 again |
| `...!AddressesAreReadAsMeant` | `AddressesHold`, any networks, labels, key lengths and payloads | `AddressInv`: the text on its way is what the sender encoded or what another program wrote, and the two results are what codec and reference make of it. The rest is about the operators: a parsed text tells its labels apart (`ParsedIs`, `RefParsedIs`), so both accept the same texts (`DecodedAsInReference`). `AddressAssumption`, `KindsAssumption`: lower case keeps a network a network, keys fit the payloads, the kinds are valid labels, errors are not texts |
| `...!KeysAreRight` | `KeysHold`, any field, hash length, margin and base | `KeysInv`: an answer follows from the root key it met, the account and the roles (`DerivedInv`); every byte sampled so far is that of a digest, in order (`SampledInv`), and the rounds fill the buffer (`RoundsFill`). That a key comes back from its representation (`ReadBack`) is an induction over its bytes: reading a byte undoes the dropping of two digits. `KeysAssumption`: the largest element of the field has no more digits than the field's bytes have room for |
| `...!EncodingsAreRight` | `EncodingsHold` | the two before |
| `ClientsProofs!AnswersAreTrue` | `VerdictsAreTrue`, any number of calls, losses and reorganizations | `VerdictInv`: unhandled reports tell of stages passed and of ends that are final (`ToldTruly`), finality is reported after the earlier stages (`InOrder`), a request that died with its connection never left (`NeverLeft`), where a call is bounds what is under way for it (`OnTheWire`); links need an open socket, and calls that overlap are both `disturbed` (`SharedInv`) |
| `...!WorkersEnd` | `NoOrphanWorker`, any number of proofs and keys | `WorkerInv`: a proof that has not begun has no worker, and one that asks the proof server has no live worker (`Apart`), so neither the server's answer nor a late message settles a promise past its worker |
| `RecordsProofs!HistoryIsKept` | `HistoryKept` | `HistoryInv`: what is written or under way is of the chain (`SoundInv`), the status in an entry is the ledger's (`StatusTrue`), and the ledger includes no two transactions with an identifier in common (`Exclusive`), which is what makes merging entries harmless |
| `...!OpenEntriesAreFollowed` | `OpenIsTracked` | `OpenInv`: of what the ledger included a wallet writes sooner or later (`Noticed`), a pending entry of it has that write before it (`AwaitsWrite`), and any pending entry is tracked by the service, a revert or a write (`Tracked`) |
| `...!AnswersAreTrue` | `AnswerIsTrue`, any transactions, mints and lengths | `Orderly`: published states only follow one another; `CallerInv`: a transaction that leaves the mempool is in a block of that very state or was discarded for good, and a claim that is not in a block stays claimable, whichever old state the producer works on |
| `...!WalletsFollow` | `SimulatorFollowed` | `ReplayInv`: what the event wallet has replayed is in the latest state, and a state of the shared stream that has blocks it has not seen has no fewer than it has replayed; `BookedInv`: the unshielded wallet has the outputs of a published state that is not newer than the one it was given. `SimulatorAssumption`: nobody submits a genesis transaction again, and a claim spends no output |

`TypeCorrect` is proved for the pending transactions, the event sync, backpressure, the runtime, the submission, the
proving, the facade and the history as well (for the schema tool, the dust and shielded wallets and the simulator it
is a part of the inductive invariant); their runs do not repeat it.

**Sums and recursive functions.** The library's induction theorems take an operator as a parameter, which the provers cannot
instantiate, so every induction here is about a least counterexample, an element of a set of numbers (`LeastExists`), and
the recursive functions in `ReplayAll`, `Shifted` and `ToScalar` are shown to exist that way before anything is said of
them. The balancer's sums are folds over sets; `SumIsUnits` shows that such a sum is the cardinality of a set of units
(`Units`: f[x] of every x), after which adding to it, splitting and comparing are facts about finite sets (`SumAdd`,
`SumSame`).

**Only model-checked.** Every invariant and action property of the passing runs is proved. Liveness under fairness is
outside the prover's reach, as is `ENABLED`: `EventuallyDelivered`, `WalletCatchesUp`, `EventuallyResolved`,
`EventuallySynced`, `VersionFollowed` and `EveryCallSettles` are checked by TLC on their instances and nothing more. What
`ScaleDecode` amounts to is not proved either, nor needed: codec and reference both compare its result with the modulus.
No module has a RECURSIVE operator.

## 5. Findings

1. `FacadeStale`: the revert subscription acts on every snapshot without looking at the current state, so a failed
   transaction can be reverted twice; the second revert frees coins booked by another transaction since.
2. `FeeRounds`: from the second round on the dust wallet starts from the fee with the wrong sign; when the first
   round's coins do not cover the fee the synchronous loop never ends.
3. `InPlaceBooking`: balancing an unbound or unproven transaction in place selects inputs and leaves them available
   (`unshielded-wallet/src/v1/Transacting.ts:609-665`), although docs/Design.md:266-268 speaks of the coins as booked.
   The two sections of one transaction can even pick the same UTxO.
4. `SchemaUpdate`: `--update` regenerates the types only if the schema changed, although the tool's README says it serves to
   regenerate them after a change of the code generator's settings.

Met while modelling, not a run of its own. **Facade and transactions:**

- `createDustActionTransaction` calculates the fee outside any `try` after booking (`facade/src/index.ts:710`), and the
  balancing calls book in one wallet after the other: an error in between strands the bookings. `NoStrandedBooking` holds
  because it excludes the mishap `late_step`.
- A failed status query counts as an empty answer (`pendingTransactionsService.ts:253-260`), and an empty answer after the
  TTL as a failure (`:193-198`); the TTL itself may be earlier than the ledger's (`facade/src/transaction.ts:57-73`: a grace
  period from the creation, by the wallet's clock). So a transaction that has succeeded, or still can, is
  reverted by the subscription when the indexer lags or fails at that moment: its coins, spent but not yet synced, become
  available, and `gotRejected` may overwrite `gotFinalized`. `SafeUnlessMishap` and `HistoryTruthful` except it
  (`wrong_verdict`, which `PendingTransactions` has in detail as `missed`); `NoStrandedBooking`, `FailedAwaitsRevert`
  and the two properties of `TxHistory`, where a verdict may come at any time, hold all the same.
- A signature that is there is never replaced (`TransactionOps.ts:154`), so balancing a signed intent in place leaves a
  stale signature that signing again does not refresh (`SignaturesHold` excludes it: `spoiled`). Signing fills every
  unsigned input of an offer, the other party's included, which therefore has to sign first. `signRecipe` does not
  sign a finalized original, and the base of an unbound recipe gets no signature for a dust registration.
- Waiting for the dust of a registration looks at the unregistered outputs (`DustWallet.ts:184-187,450-453`), while the split
  puts the output that generates most in the guaranteed section, registered or not (`CoinsAndBalances.ts:189-203`), and pays
  with it only if it is unregistered (`Transacting.ts:340-352`): with a registered output among them the payment may be
  zero, although `facade/src/index.ts:1304-1305` says to wait so that the registration covers its fee. `WaitedMeansPaid`
  speaks of outputs none of which is registered.
- Reverting in another form than the history entry has (a recipe's part instead of the merged transaction) rejects an
  entry of its own and leaves the first one pending; after a restart nothing settles pending entries, since the facade starts
  with no pending transactions. `clearPendingByIdentifiers` (`InMemoryTransactionHistoryStorage.ts:118`) clears the first match
  only, where `TransactionHistoryStorage.ts:186-188` speaks of entries.
- A facade that fails midway in `init` leaves the wallets and services it made open.

**Wallets and runtime:**

- A runtime that is stopped between the start of the next variant and its becoming current leaves that variant's scope
  open (`stopped_midway`); a version that jumps over a variant, or a state restored under a variant whose range it is
  not in, leaves the runtime on that variant until the version changes again (`OffTrack`).
- `serializeState` promises the most recent state (`ShieldedWallet.ts:316-319`, `UnshieldedWallet.ts:347-350`) and takes the
  one the shared observable replays, which may lag behind the variant. Commands after `stop()` still run in the variant but are
  never published; `waitForSyncedState` of a stopped wallet that is not synced never answers; `start` after `stop`
  resolves though nothing syncs and failed transactions are no longer reverted; a second `start` forks a second sync.
- Reverting a later dust transaction runs the local time past the marks of an earlier one, so `walletBalance` counts
  coins that are still in `pendingDust`; a restore forgets `pendingDust` altogether (`DustBookings` excludes both). The dust
  variant's `migrateState` returns its argument (a TODO), so a dust wallet that is started empty has none.
- `applyGap` of the unshielded wallet is always 0, and its progress counts as complete before any sync.
- A subscription completed by the server ends the sync of the shielded and dust wallets for good (`EventuallySynced`
  excludes it).

**Clients, simulator, tools:**

- The end of one submission disconnects the api that all share; another that waits for finality is cut off, hears
  nothing, and does not settle (`Deaf`). The same goes for a lost connection, since nothing resubscribes.
- The proof server request is meant to be repeated on 502, 503 and 504 (comment at `HttpProverClient.ts:111`), but a
  status other than 200 has become a `ClientError` by then; only a gateway error whose text cannot be read is repeated.
- The default key material provider caches the body of an HTTP error page as if it were a key.
- The simulator's block producer works on snapshots of the mempool: a transaction may be processed twice, whose failure
  discards the whole batch and ends the producer for good. Wallets that resubscribe may be given a state older than the one they
  started from, which rewinds the unshielded wallet. A submission to the simulator reports the last block rather than its own
  (`submissionService.ts:137-196`).
- Schema tool: a run that dies after writing `indexer.gql`, or whose code generation fails, leaves stale types behind
  that a later `--update` does not touch and the verification passes; `--update` silently pins what a tag was moved to;
  a release's schema pasted by hand and then tagged is only given a new header.
- Addresses: capitals are lowered in the text, so a network named `DevNet` does not come back; an explicit `mainnet`
  segment is refused; the parser ignores what follows the third segment and refuses digits `0` that
  docs/spec/Specification.md:397-400 allows (`address-format/src/index.ts:65`); the codec of a shielded address takes
  payloads of other lengths than the reference does.
- `clear` of an HD wallet wipes the root key only; keys selected before throw when they derive.

## 6. Not modelled, and why

- Validation, utilities, test kit, website and snippets: calls into the ledger library, pure helpers, test infrastructure.
- Of the node client: `getGenesis`, a finite reconnection timeout (the default is infinite). Of proving: that one
  transaction asks for several proofs. Of the simulator: block producers other than the default one, and fullness.
- Progress reports of variants, and variant streams that end or fail: those of the real variants do neither.
- The cap of eight history lookups at a time, fee estimates of transactions other than registrations, a coin selection given
  by the application, the wording of serialized snapshots (their content is in the modules that save and restore).
- Checksums, BIP32, hash functions, and everything inside the ledger library: external.

## 7. Plan

The order was: bookings and sync of one wallet, the feed under the sync, the pending service, the facade over both; the
event sync, the balancer, the runtime, and the way to the node (proving and submission); then the history, the dust and
shielded wallets, registrations, recipes, wallet classes, simulator, keys and addresses, the schema tool. What is left:

| Next | Contents |
|---|---|
| Proofs | that the parts of the wallet facade compose, once they do in a module |
| Composition | `Facade` with the detailed `PendingTransactions` and `TxHistory` instead of the summaries it has of them |
| Bounds | three wallets and two mishaps in `Facade`, two recipes at once in `Recipes` |
