--------------------------- MODULE WalletClasses ---------------------------
(***************************************************************************)
(* How a wallet comes to life and how an application looks at it.  A V1     *)
(* builder collects the components of the variant, WalletBuilder makes a    *)
(* class of it, a wallet object is started empty or from a snapshot, and    *)
(* the facade starts and stops it along with its services.  The state       *)
(* reaches the application through a chain of queues: the variant's         *)
(* reference, the runtime's reference, a sliding buffer that keeps the      *)
(* latest state only, and an observable shared by all who look.             *)
(*                                                                         *)
(* The three wallets have a builder and a class each; a behaviour follows   *)
(* one of them.  The factories of the components, the seeds and keys, and   *)
(* what a command does to the state are external: a state is a number, and  *)
(* whether its sync progress is complete.  Variants that succeed one        *)
(* another are in Runtime, the snapshot's content in EventSync.             *)
(***************************************************************************)
EXTENDS Naturals, Sequences, FiniteSets

CONSTANTS
  Asks,         \* serializeState, getAddress and waitForSyncedState calls
  MaxWrites,    \* bound: states of a wallet after the first one
  MaxStarts,    \* bound: calls of the facade's start
  MaxReopened,  \* bound: wallets made from a snapshot
  Nothing       \* an absent component, state or class

WalletStates == [n : 0..MaxWrites, done : BOOLEAN]

ASSUME ClassesAssumption ==
  /\ MaxWrites \in Nat /\ MaxStarts \in Nat /\ MaxReopened \in Nat
  /\ Nothing \notin WalletStates /\ Nothing \notin STRING

VARIABLES
  whichWallet,     \* the wallet this behaviour is about
  builder,    \* its V1Builder: the components it has and its transaction type
  variant,    \* the components of the class that was built
  object,     \* the wallet object: not made, open or stopped
  held,       \* the variant's state reference
  unread,     \* states the runtime has not copied yet
  published,  \* the runtime's state reference
  syncs,      \* sync fibers in the variant's scope
  shared,     \* the shared observable: connected, what is in it, its replay
  asks,       \* calls that look at the state
  watching,   \* the application is subscribed to the facade's state
  newest,     \* history: the latest state an answer carried
  backwards,  \* history: an answer older than one given before
  reopened,   \* wallets made from a snapshot so far
  facade,     \* what has become of the facade
  polling,    \* pollers of the pending transactions service, and its scope
  reverting,  \* the facade's subscription that reverts failed transactions
  starting,   \* what a start of the facade has still to start
  stopping,   \* what a stop of the facade has still to stop
  starts      \* start calls of this facade so far

buildVars == <<builder, variant>>
stateVars == <<object, held, unread, published, syncs, reopened>>
lookVars == <<shared, asks, watching, newest, backwards>>
facadeVars == <<facade, polling, reverting, starting, stopping, starts>>
classVars == <<whichWallet, buildVars, stateVars, lookVars, facadeVars>>

-----------------------------------------------------------------------------
(* The builders                                                            *)

\* The type parameter of a new builder, and that of the default components.
TransactionTypes == {"never", "finalized"}

\* What each method of the shielded builder replaces.
ShieldedSetters ==
  [withSync |-> {"syncService", "syncCapability"},
   withSerialization |-> {"serialization"},
   withTransacting |-> {"transacting"},
   withCoinSelection |-> {"coinSelection"},
   withCoinsAndBalances |-> {"coinsAndBalances"},
   withTransactionHistory |-> {"transactionHistory"},
   withKeys |-> {"keys"}]

\* The builder of the dust wallet has the same methods, ...
DustSetters == ShieldedSetters

\* ... and so has that of the unshielded wallet.
UnshieldedSetters == ShieldedSetters

\* withTransactionType drops what was made for the previous type.  The
\* unshielded wallet has one type of transaction only.
ShieldedTyped == {"transacting", "transactionHistory"}
DustTyped == {"transacting"}

\* The components isBuildStateFull asks for.
ShieldedNeeded == UNION {ShieldedSetters[m] : m \in DOMAIN ShieldedSetters}
DustNeeded == UNION {DustSetters[m] : m \in DOMAIN DustSetters}
UnshieldedNeeded == UNION {UnshieldedSetters[m] : m \in DOMAIN UnshieldedSetters}

Setters == [shielded |-> ShieldedSetters, dust |-> DustSetters,
            unshielded |-> UnshieldedSetters][whichWallet]

Typed == [shielded |-> ShieldedTyped, dust |-> DustTyped, unshielded |-> {}][whichWallet]

Needed == [shielded |-> ShieldedNeeded, dust |-> DustNeeded,
           unshielded |-> UnshieldedNeeded][whichWallet]

\* A component is known by the transaction type it was configured for.
Components == [ShieldedNeeded -> TransactionTypes \cup {Nothing}]

EmptyBuilder == [has |-> [p \in ShieldedNeeded |-> Nothing], type |-> "never"]

\* A builder for transactions of type t.
WithType(b, t) ==
  [has |-> [p \in DOMAIN b.has |-> IF p \in Typed THEN Nothing ELSE b.has[p]], type |-> t]

\* withDefaults of the shielded builder: the default type, then everything.
ShieldedDefaults(b) ==
  LET typed == WithType(b, "finalized")
  IN [typed EXCEPT !.has = [p \in DOMAIN @ |-> IF p \in ShieldedNeeded THEN "finalized" ELSE @[p]]]

\* The same for dust.
DustDefaults(b) ==
  LET typed == WithType(b, "finalized")
  IN [typed EXCEPT !.has = [p \in DOMAIN @ |-> IF p \in DustNeeded THEN "finalized" ELSE @[p]]]

\* The unshielded builder only has the components to set.
UnshieldedDefaults(b) ==
  [b EXCEPT !.has = [p \in DOMAIN @ |-> IF p \in UnshieldedNeeded THEN b.type ELSE @[p]]]

Defaults(b) == [shielded |-> ShieldedDefaults(b), dust |-> DustDefaults(b),
                unshielded |-> UnshieldedDefaults(b)][whichWallet]

Building == variant = Nothing /\ UNCHANGED <<whichWallet, stateVars, lookVars, facadeVars>>

WithTransactionType(t) ==
  /\ Building /\ whichWallet # "unshielded"
  /\ builder' = WithType(builder, t)
  /\ UNCHANGED variant

WithComponent(m) ==
  /\ Building
  /\ builder' = [builder EXCEPT !.has =
                   [p \in DOMAIN @ |-> IF p \in Setters[m] THEN builder.type ELSE @[p]]]
  /\ UNCHANGED variant

WithDefaults ==
  /\ Building
  /\ builder' = Defaults(builder)
  /\ UNCHANGED variant

\* An incomplete builder throws.
Complete(b) == \A p \in Needed : b.has[p] # Nothing

\* The context of the variant that build makes: what every factory returns for
\* the configuration.
ShieldedContext(b) == [p \in ShieldedNeeded |-> b.has[p]]
DustContext(b) == [p \in DustNeeded |-> b.has[p]]
UnshieldedContext(b) == [p \in UnshieldedNeeded |-> b.has[p]]

\* WalletBuilder builds the class of the only variant.
BuildClass ==
  /\ Building /\ Complete(builder)
  /\ variant' = [shielded |-> ShieldedContext(builder), dust |-> DustContext(builder),
                 unshielded |-> UnshieldedContext(builder)][whichWallet]
  /\ UNCHANGED builder

-----------------------------------------------------------------------------
(* The wallet object and its state                                         *)

FreshState == [n |-> 0, done |-> FALSE]

IdleAsk == [stage |-> "idle", kind |-> "serialize", state |-> Nothing]

Disconnected == [on |-> FALSE, queue |-> <<>>, latest |-> Nothing, replay |-> Nothing]

Waiting == {a \in Asks : asks[a].stage = "waiting"}

NobodyLooks == Waiting = {} /\ ~watching

\* A wallet object with a scope and a runtime of its own.
Open(s) ==
  /\ object' = "open"
  /\ held' = s /\ unread' = <<>> /\ published' = s /\ syncs' = 0
  /\ shared' = Disconnected
  /\ newest' = Nothing

\* startWithSecretKeys, startWithSecretKey, startWithPublicKey: an empty wallet.
StartFresh ==
  /\ object = "none"
  /\ facade.stage = "making" /\ facade.next = "wallet"
  /\ Open(FreshState)
  /\ facade' = [facade EXCEPT !.next = "rest"]
  /\ UNCHANGED <<whichWallet, buildVars, reopened, asks, watching, backwards,
                 polling, reverting, starting, stopping, starts>>

\* Every write of the variant's reference reaches the runtime while it runs.
Write(s) ==
  /\ held' = s
  /\ unread' = IF object = "open" THEN Append(unread, s) ELSE unread

\* A sync update, applied by one of the sync fibers.
SyncUpdate(done) ==
  /\ syncs > 0 /\ held.n < MaxWrites
  /\ Write([n |-> held.n + 1, done |-> done])
  /\ UNCHANGED <<whichWallet, buildVars, object, published, syncs, reopened, lookVars, facadeVars>>

\* The commands of each wallet, dispatched to its running variant.
ShieldedCommands == {"balanceTransaction", "transferTransaction", "initSwap", "revertTransaction"}

DustCommands ==
  {"createDustGenerationTransaction", "splitNightUtxosForDustRegistration", "attachDustRegistration",
   "addDustGenerationSignature", "addDustRegistrationSignature", "calculateFee", "estimateFee",
   "balanceTransactions", "revertTransaction"}

UnshieldedCommands ==
  {"balanceFinalizedTransaction", "balanceUnboundTransaction", "balanceUnprovenTransaction",
   "transferTransaction", "rotateUtxos", "initSwap", "signUnprovenTransaction",
   "signUnboundTransaction", "revertTransaction"}

\* Those of them that write the reference; the others at most read it.
ShieldedWriting == ShieldedCommands
DustWriting == {"balanceTransactions", "revertTransaction"}
UnshieldedWriting == UnshieldedCommands \ {"signUnprovenTransaction", "signUnboundTransaction"}

Writing == [shielded |-> ShieldedWriting, dust |-> DustWriting,
            unshielded |-> UnshieldedWriting][whichWallet]

\* A command runs whether the wallet is stopped or not.
Command(m) ==
  /\ m \in Writing
  /\ object # "none" /\ held.n < MaxWrites
  /\ Write([held EXCEPT !.n = @ + 1])
  /\ UNCHANGED <<whichWallet, buildVars, object, published, syncs, reopened, lookVars, facadeVars>>

\* The runtime copies the next state; the queue of who is connected gets it.
PublishState ==
  /\ object = "open" /\ unread # <<>>
  /\ published' = Head(unread)
  /\ unread' = Tail(unread)
  /\ shared' = IF shared.on THEN [shared EXCEPT !.queue = Append(@, Head(unread))] ELSE shared
  /\ UNCHANGED <<whichWallet, buildVars, object, held, syncs, reopened, asks, watching, newest,
                 backwards, facadeVars>>

\* Mutant: a full buffer drops what arrives.
SlidingOff(latest, s) == IF latest = Nothing THEN s ELSE latest

\* A buffer of one state that keeps the one that arrives.
Sliding(latest, s) == s

Buffer ==
  /\ shared.on /\ shared.queue # <<>>
  /\ shared' = [shared EXCEPT !.queue = Tail(@), !.latest = Sliding(@, Head(shared.queue))]
  /\ UNCHANGED <<whichWallet, buildVars, stateVars, asks, watching, newest, backwards, facadeVars>>

-----------------------------------------------------------------------------
(* Looking at the state                                                    *)

\* waitForSyncedState waits for complete progress, serializeState and
\* getAddress take the first state they see.
Meets(kind, s) == kind = "synced" => s.done

Answered(s) == {a \in Waiting : Meets(asks[a].kind, s)}

Give(as, s) ==
  /\ asks' = [a \in Asks |-> IF a \in as THEN [asks[a] EXCEPT !.stage = "answered", !.state = s]
                                         ELSE asks[a]]
  /\ newest' = IF as # {} /\ (newest = Nothing \/ newest.n < s.n) THEN s ELSE newest
  /\ backwards' = (backwards \/ (as # {} /\ newest # Nothing /\ s.n < newest.n))

\* The first subscription connects; the reference sends its content at once.
Connected == IF shared.on THEN shared ELSE [Disconnected EXCEPT !.on = TRUE, !.queue = <<published>>]

\* The replay answers a call right away, or the call subscribes and waits.
Ask(a, kind) ==
  LET now == shared.replay # Nothing /\ Meets(kind, shared.replay)
  IN /\ object # "none" /\ asks[a].stage = "idle"
     /\ IF now
        THEN /\ asks' = [asks EXCEPT ![a] = [stage |-> "answered", kind |-> kind,
                                             state |-> shared.replay]]
             /\ newest' = IF newest = Nothing \/ newest.n < shared.replay.n THEN shared.replay
                                                                            ELSE newest
             /\ backwards' = (backwards \/ (newest # Nothing /\ shared.replay.n < newest.n))
             /\ UNCHANGED shared
        ELSE /\ asks' = [asks EXCEPT ![a] = [stage |-> "waiting", kind |-> kind,
                                             state |-> Nothing]]
             /\ shared' = Connected
             /\ UNCHANGED <<newest, backwards>>
     /\ UNCHANGED <<whichWallet, buildVars, stateVars, watching, facadeVars>>

\* The last subscriber that leaves takes the connection and the replay along.
RefCounted(s, left) == IF left = {} /\ ~watching THEN Disconnected ELSE s

\* The next state goes to all who look; those who have what they asked for leave.
Deliver ==
  /\ shared.on /\ shared.latest # Nothing
  /\ Give(Answered(shared.latest), shared.latest)
  /\ shared' = RefCounted([shared EXCEPT !.replay = shared.latest, !.latest = Nothing],
                          Waiting \ Answered(shared.latest))
  /\ UNCHANGED <<whichWallet, buildVars, stateVars, watching, facadeVars>>

\* The application subscribes to the facade's state, which combines those of
\* the wallets, ...
Watch ==
  /\ facade.stage \in {"ready", "stopping", "stopped"} /\ ~watching
  /\ watching' = TRUE
  /\ shared' = Connected
  /\ UNCHANGED <<whichWallet, buildVars, stateVars, asks, newest, backwards, facadeVars>>

\* ... and leaves.
Unwatch ==
  /\ watching
  /\ watching' = FALSE
  /\ shared' = IF Waiting = {} THEN Disconnected ELSE shared
  /\ UNCHANGED <<whichWallet, buildVars, stateVars, asks, newest, backwards, facadeVars>>

-----------------------------------------------------------------------------
(* The facade                                                              *)

FacadeOnly == UNCHANGED <<whichWallet, buildVars, stateVars, lookVars>>

\* ShieldedWallet(configuration), DustWallet, UnshieldedWallet: the class of a
\* builder with the default components.
DefaultClass == variant # Nothing /\ builder = Defaults(EmptyBuilder)

\* init makes the services, then the wallets, then the rest.  The wallets a
\* behaviour goes on with are those of the default classes, any other variant
\* behaves alike.
MakeServices ==
  /\ DefaultClass
  /\ facade = [stage |-> "making", next |-> "services"]
  /\ facade' = [facade EXCEPT !.next = "wallet"]
  /\ polling' = [open |-> TRUE, n |-> 0]
  /\ FacadeOnly /\ UNCHANGED <<reverting, starting, stopping, starts>>

\* The constructor starts to revert the transactions that fail.
MakeFacade ==
  /\ facade = [stage |-> "making", next |-> "rest"]
  /\ facade' = [facade EXCEPT !.stage = "ready"]
  /\ reverting' = TRUE
  /\ FacadeOnly /\ UNCHANGED <<polling, starting, stopping, starts>>

\* A factory throws: nobody has a handle on what was made before it.
InitFails ==
  /\ facade.stage = "making"
  /\ facade' = [facade EXCEPT !.stage = "failed"]
  /\ FacadeOnly /\ UNCHANGED <<polling, reverting, starting, stopping, starts>>

\* start() starts the wallets and the pending transactions service at once, ...
StartFacade ==
  /\ facade.stage \in {"ready", "stopping", "stopped"}
  /\ starting = {} /\ starts < MaxStarts
  /\ starting' = {"wallet", "pending"}
  /\ starts' = starts + 1
  /\ FacadeOnly /\ UNCHANGED <<facade, polling, reverting, stopping>>

\* A fiber forked into a closed scope is interrupted at once.
Scoped(open, n) == IF open THEN n + 1 ELSE n

\* ... each of which forks a fiber into its scope.  Nothing looks whether one
\* runs already.
StartSync ==
  /\ "wallet" \in starting
  /\ syncs' = Scoped(object = "open", syncs)
  /\ starting' = starting \ {"wallet"}
  /\ UNCHANGED <<whichWallet, buildVars, object, held, unread, published, reopened, lookVars,
                 facade, polling, reverting, stopping, starts>>

StartPolling ==
  /\ "pending" \in starting
  /\ polling' = [polling EXCEPT !.n = Scoped(polling.open, @)]
  /\ starting' = starting \ {"pending"}
  /\ FacadeOnly /\ UNCHANGED <<facade, reverting, stopping, starts>>

\* stop() unsubscribes and closes everything at once; ...
StopFacade ==
  /\ facade.stage = "ready"
  /\ facade' = [facade EXCEPT !.stage = "stopping"]
  /\ stopping' = {"wallet", "pending"}
  /\ reverting' = FALSE
  /\ FacadeOnly /\ UNCHANGED <<polling, starting, starts>>

\* Closing the runtime closes the running variant, whose fibers are interrupted.
VariantClosed(n) == 0

StopWallet ==
  /\ "wallet" \in stopping
  /\ object' = "stopped" /\ unread' = <<>> /\ syncs' = VariantClosed(syncs)
  /\ stopping' = stopping \ {"wallet"}
  /\ UNCHANGED <<whichWallet, buildVars, held, published, reopened, lookVars,
                 facade, polling, reverting, starting, starts>>

StopPolling ==
  /\ "pending" \in stopping
  /\ polling' = [open |-> FALSE, n |-> 0]
  /\ stopping' = stopping \ {"pending"}
  /\ FacadeOnly /\ UNCHANGED <<facade, reverting, starting, starts>>

\* ... it returns once all of them are closed.
StopReturns ==
  /\ facade.stage = "stopping" /\ stopping = {}
  /\ facade' = [facade EXCEPT !.stage = "stopped"]
  /\ FacadeOnly /\ UNCHANGED <<polling, reverting, starting, stopping, starts>>

\* A wallet restored from a snapshot, in a facade of its own; the stopped one
\* is not used any more.  A restored wallet is not connected.
Restore(a) ==
  /\ facade.stage = "stopped" /\ starting = {} /\ NobodyLooks
  /\ asks[a].stage = "answered" /\ asks[a].kind = "serialize" /\ reopened < MaxReopened
  /\ Open([asks[a].state EXCEPT !.done = FALSE])
  /\ reopened' = reopened + 1
  /\ asks' = [b \in Asks |-> IdleAsk]
  /\ facade' = [stage |-> "making", next |-> "rest"]
  /\ polling' = [open |-> TRUE, n |-> 0]
  /\ starts' = 0
  /\ UNCHANGED <<whichWallet, buildVars, watching, backwards, reverting, starting, stopping>>

-----------------------------------------------------------------------------
ClassesInit ==
  /\ whichWallet \in {"shielded", "dust", "unshielded"}
  /\ builder = EmptyBuilder /\ variant = Nothing
  /\ object = "none" /\ held = Nothing /\ unread = <<>> /\ published = Nothing /\ syncs = 0
  /\ shared = Disconnected /\ asks = [a \in Asks |-> IdleAsk] /\ watching = FALSE
  /\ newest = Nothing /\ backwards = FALSE /\ reopened = 0
  /\ facade = [stage |-> "making", next |-> "services"]
  /\ polling = [open |-> FALSE, n |-> 0] /\ reverting = FALSE
  /\ starting = {} /\ stopping = {} /\ starts = 0

ClassesNext ==
  \/ \E t \in TransactionTypes : WithTransactionType(t)
  \/ \E m \in DOMAIN Setters : WithComponent(m)
  \/ WithDefaults
  \/ BuildClass
  \/ MakeServices
  \/ StartFresh
  \/ MakeFacade
  \/ InitFails
  \/ StartFacade
  \/ StartSync
  \/ StartPolling
  \/ \E done \in BOOLEAN : SyncUpdate(done)
  \/ \E m \in Writing : Command(m)
  \/ PublishState
  \/ Buffer
  \/ Deliver
  \/ \E a \in Asks, kind \in {"serialize", "synced"} : Ask(a, kind)
  \/ Watch
  \/ Unwatch
  \/ StopFacade
  \/ StopWallet
  \/ StopPolling
  \/ StopReturns
  \/ \E a \in Asks : Restore(a)

ClassesSpec == ClassesInit /\ [][ClassesNext]_classVars

-----------------------------------------------------------------------------
(* Properties                                                              *)

\* However the methods of a builder are called, the variant it builds has all
\* its components, and transacts in transactions of the builder's type
\* (withTransactionType, isBuildStateFull).
BuiltWhole ==
  variant # Nothing =>
    /\ \A p \in Needed : variant[p] # Nothing
    /\ variant["transacting"] = builder.type

\* Nothing is on its way to those who look.
Settled == unread = <<>> /\ (shared.on => shared.queue = <<>> /\ shared.latest = Nothing)

\* States may be skipped on the way from the variant to the application, the
\* latest one is not: once nothing is on its way, whoever looks has it, and no
\* call waits for what it could see (Runtime's sliding buffer, shareReplay).
LatestIsSeen ==
  /\ object = "open" /\ Settled => published = held
  /\ shared.on /\ Settled => /\ shared.replay = published
                             /\ Answered(published) = {}

\* The answers an application gets never go back in time (mapState,
\* serializeState, waitForSyncedState).
AnswersGoForward == ~backwards

\* After the facade has stopped nothing runs on its behalf, even when it was
\* starting meanwhile or is started again (start, stop).
StoppedIsQuiet ==
  facade.stage = "stopped" => syncs = 0 /\ polling.n = 0 /\ ~reverting

ClassesHold == BuiltWhole /\ LatestIsSeen /\ AnswersGoForward /\ StoppedIsQuiet
=============================================================================
