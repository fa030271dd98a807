--------------------------- MODULE ShieldedWallet ---------------------------
(***************************************************************************)
(* The bookings of the shielded wallet (packages/shielded-wallet/src/v1).  *)
(* The ledger library's ZswapLocalState (external) holds the coins, the    *)
(* pending spends and the pending outputs; the wallet keeps beside it the  *)
(* hashes of all these coins, which its accessors look up without a check, *)
(* and threads the local state through the sections of a transaction.      *)
(***************************************************************************)
EXTENDS Integers, FiniteSets, Sequences

CONSTANTS
  STxs,          \* transactions this wallet builds
  InitialCoins,  \* number of coins the wallet starts with
  MaxCoins,      \* bound on the coins ever made
  MaxSRestores   \* bound on restarts from a snapshot

ASSUME ShieldedBounds == InitialCoins \in Nat /\ MaxCoins \in Nat /\ InitialCoins <= MaxCoins
                         /\ MaxSRestores \in Nat

VARIABLES
  wallet,      \* CoreWallet: the local state and coinHashes, by nonce
  appliedTo,   \* progress.appliedIndex, in events of the chain
  stxs,        \* what became of each transaction
  minted,      \* coins made so far, by the wallet or by others
  events,      \* events on chain, in order (external)
  savedShielded, \* the last serialized state
  srestores,   \* restarts so far
  smishap      \* the wallet was restored, or a transaction reverted too late

shieldedVars == <<wallet, appliedTo, stxs, minted, events, savedShielded, srestores, smishap>>

ShieldedCoins == 1..MaxCoins
Wallets == [coins : SUBSET ShieldedCoins, pendingSpends : SUBSET ShieldedCoins,
            pendingOutputs : SUBSET ShieldedCoins, coinHashes : SUBSET ShieldedCoins]
NoShieldedTx == [stage |-> "none", spends |-> {}, outputs |-> {}, clash |-> FALSE]
SEvent == [spends : SUBSET ShieldedCoins, outputs : SUBSET ShieldedCoins]

ShieldedTypeOK ==
  /\ wallet \in Wallets
  /\ stxs \in [STxs -> [stage : {"none", "built", "reverted", "included", "reverted_included"},
                        spends : SUBSET ShieldedCoins, outputs : SUBSET ShieldedCoins, clash : BOOLEAN]]
  /\ minted \in InitialCoins..MaxCoins
  /\ \A i \in DOMAIN events : events[i] \in SEvent
  /\ appliedTo \in 0..Len(events)
  /\ savedShielded.wallet \in Wallets /\ savedShielded.appliedTo \in 0..Len(events)
  /\ srestores \in 0..MaxSRestores
  /\ smishap \in BOOLEAN

First == [coins |-> 1..InitialCoins, pendingSpends |-> {}, pendingOutputs |-> {},
          coinHashes |-> 1..InitialCoins]

\* CoreWallet.init: hashes of all coins of the local state
ShieldedInit ==
  /\ wallet = First
  /\ appliedTo = 0
  /\ stxs = [t \in STxs |-> NoShieldedTx]
  /\ minted = InitialCoins
  /\ events = <<>>
  /\ savedShielded = [wallet |-> First, appliedTo |-> 0]
  /\ srestores = 0
  /\ smishap = FALSE
-----------------------------------------------------------------------------
(* CoreWallet and the coins it reports *)

\* CoinHashesMap.pickAllCoins
PickAllCoins(w) == w.coins \cup w.pendingOutputs

\* CoinHashesMap.assertValid
AssertValid(w) == PickAllCoins(w) \subseteq w.coinHashes

\* getAvailableCoins
AvailableCoins(w) == w.coins \ w.pendingSpends

\* getTotalCoins: the available coins and the pending outputs
TotalCoins(w) == AvailableCoins(w) \cup w.pendingOutputs

\* spendCoins: ZswapLocalState.spend for one coin after the other
SpendCoins(w, coins) == [w EXCEPT !.pendingSpends = @ \cup coins]

\* watchCoins: ZswapLocalState.watchFor, and the hashes of the new coins
WatchCoins(w, coins) ==
  [w EXCEPT !.pendingOutputs = @ \cup coins, !.coinHashes = @ \cup coins]

\* replayEventsWithChanges: the local state takes the event, and the hashes are
\* those of the coins it has now
ReplayEvent(w, e) ==
  LET coins == (w.coins \ e.spends) \cup e.outputs
      outputs == w.pendingOutputs \ e.outputs
  IN [coins |-> coins, pendingSpends |-> w.pendingSpends \ e.spends,
      pendingOutputs |-> outputs, coinHashes |-> coins \cup outputs]
ReplayAll(w, es) ==
  LET replay[k \in 0..Len(es)] == IF k = 0 THEN w ELSE ReplayEvent(replay[k - 1], es[k])
  IN replay[Len(es)]

\* revertTransaction: ZswapLocalState.revertTransaction; the hashes stay
Reverted(w, t) ==
  [w EXCEPT !.pendingSpends = @ \ stxs[t].spends, !.pendingOutputs = @ \ stxs[t].outputs]
-----------------------------------------------------------------------------
(* Building transactions *)

\* getBalanceRecipe, for one section: the coins picked, each once, and the change.
\* Which coins and whether they suffice is Balancing's; here it may be any.
Recipes(w, fresh) == [inputs : SUBSET AvailableCoins(w), outputs : {{}, {fresh} \cap ShieldedCoins}]

\* #prepareOffer
PrepareShieldedOffer(w, recipe) == WatchCoins(SpendCoins(w, recipe.inputs), recipe.outputs)

Book(t, w, spends, outputs, clash) ==
  /\ wallet' = w
  /\ minted' = minted + Cardinality(outputs)
  /\ stxs' = [stxs EXCEPT ![t] = [stage |-> "built", spends |-> spends,
                                  outputs |-> outputs, clash |-> clash]]
  /\ UNCHANGED <<appliedTo, events, savedShielded, srestores, smishap>>

\* Mutant: both sections are balanced with the state before the call.
StateForGuaranteedOff(before, afterFallible) == before

\* The state the guaranteed section is balanced with: the one the fallible
\* sections left
StateForGuaranteed(before, afterFallible) == afterFallible

\* balanceTransaction: the fallible section, then the guaranteed one; an error
\* in either leaves the state as it was, a balanced transaction too.
BalanceTransaction(t) ==
  /\ stxs[t].stage = "none"
  /\ \E f \in Recipes(wallet, minted + 1) :
       LET afterFallible == PrepareShieldedOffer(wallet, f)
           state == StateForGuaranteed(wallet, afterFallible)
       IN \E g \in Recipes(state, minted + Cardinality(f.outputs) + 1) :
            /\ f.inputs \cup g.inputs # {}
            /\ Book(t, PrepareShieldedOffer(state, g), f.inputs \cup g.inputs,
                    f.outputs \cup g.outputs, f.inputs \cap g.inputs # {})

\* #processDesiredOutputs: the coin of an output to oneself, made before the
\* section is balanced
SelfCoins(fresh) == {{}, {fresh} \cap ShieldedCoins}

\* #balanceGuaranteedSection alone, then the outputs to oneself are watched
BalanceAndWatch(t, spendsSomething) ==
  \E self \in SelfCoins(minted + 1) :
    \E g \in Recipes(wallet, minted + Cardinality(self) + 1) :
      /\ g.inputs # {} \/ (~spendsSomething /\ self # {})
      /\ Book(t, WatchCoins(PrepareShieldedOffer(wallet, g), self), g.inputs, g.outputs \cup self, FALSE)

\* Refused without a positive amount, so a transfer always spends
MakeShieldedTransfer(t) == stxs[t].stage = "none" /\ BalanceAndWatch(t, TRUE)

\* A swap that only asks for something spends nothing; no offer is made then
InitShieldedSwap(t) == stxs[t].stage = "none" /\ BalanceAndWatch(t, FALSE)

RevertShieldedTransaction(t) ==
  /\ stxs[t].stage # "none"
  /\ wallet' = Reverted(wallet, t)
  /\ LET again == stxs[t].stage # "built"
     IN /\ smishap' = (smishap \/ (again /\ stxs[t].spends \cap wallet.pendingSpends # {}))
        /\ stxs' = [stxs EXCEPT ![t].stage =
                      IF @ \in {"included", "reverted_included"} THEN "reverted_included" ELSE "reverted"]
  /\ UNCHANGED <<appliedTo, minted, events, savedShielded, srestores>>

\* A node includes a transaction whose coins are unspent (external)
IncludeShieldedTransaction(t) ==
  /\ stxs[t].stage \in {"built", "reverted"}
  /\ \A i \in DOMAIN events : events[i].spends \cap stxs[t].spends = {}
  /\ events' = Append(events, [spends |-> stxs[t].spends, outputs |-> stxs[t].outputs])
  /\ stxs' = [stxs EXCEPT ![t].stage = IF @ = "built" THEN "included" ELSE "reverted_included"]
  /\ UNCHANGED <<wallet, appliedTo, minted, savedShielded, srestores, smishap>>

\* Somebody sends a coin (external)
Receive ==
  /\ minted < MaxCoins
  /\ events' = Append(events, [spends |-> {}, outputs |-> {minted + 1}])
  /\ minted' = minted + 1
  /\ UNCHANGED <<wallet, appliedTo, stxs, savedShielded, srestores, smishap>>

\* applyUpdate with a batch of events
ApplyShieldedUpdate ==
  \E k \in (appliedTo + 1)..Len(events) :
    /\ wallet' = ReplayAll(wallet, SubSeq(events, appliedTo + 1, k))
    /\ appliedTo' = k
    /\ UNCHANGED <<stxs, minted, events, savedShielded, srestores, smishap>>

\* serialize: the whole local state, the hashes and the index
SerializeShielded ==
  /\ srestores < MaxSRestores
  /\ savedShielded' = [wallet |-> wallet, appliedTo |-> appliedTo]
  /\ UNCHANGED <<wallet, appliedTo, stxs, minted, events, srestores, smishap>>

\* deserialize and restoreWithCoinHashes, which refuses a snapshot with hashes
\* missing
RestoreShielded ==
  /\ srestores < MaxSRestores
  /\ AssertValid(savedShielded.wallet)
  /\ wallet' = savedShielded.wallet
  /\ appliedTo' = savedShielded.appliedTo
  /\ srestores' = srestores + 1
  /\ smishap' = TRUE
  /\ UNCHANGED <<stxs, minted, events, savedShielded>>

ShieldedNext ==
  \/ \E t \in STxs : BalanceTransaction(t) \/ MakeShieldedTransfer(t) \/ InitShieldedSwap(t)
                     \/ RevertShieldedTransaction(t) \/ IncludeShieldedTransaction(t)
  \/ Receive
  \/ ApplyShieldedUpdate
  \/ SerializeShielded
  \/ RestoreShielded

ShieldedSpec == ShieldedInit /\ [][ShieldedNext]_shieldedVars
-----------------------------------------------------------------------------
(* Properties *)

InUse == {t \in STxs : stxs[t].stage \in {"built", "included"}}

\* The accessors find the hashes of every coin they list, after any revert,
\* batch or restart, and every snapshot can be restored: the hashes are updated
\* at three places only, and a batch throws the others away
\* (CoreWallet.ts:47-67, 173-187, 247-259; CoinsAndBalances.ts:78-97).
HashesCover == AssertValid(wallet) /\ AssertValid(savedShielded.wallet)

\* No coin is spent in two sections of a transaction or by two transactions in
\* use, and none of them is available, until a restart forgets what was booked
\* after the snapshot or a second revert frees a coin booked since.
CoinsSpentOnce ==
  ~smishap =>
    \A t \in InUse : /\ ~stxs[t].clash
                     /\ stxs[t].spends \cap AvailableCoins(wallet) = {}
                     /\ \A u \in InUse \ {t} : stxs[t].spends \cap stxs[u].spends = {}

\* The coins of the applied part of the chain
OnChainCoins ==
  LET seen == {events[i] : i \in 1..appliedTo}
  IN ((1..InitialCoins) \cup UNION {e.outputs : e \in seen}) \ UNION {e.spends : e \in seen}

\* The total balance is what the wallet will own once every transaction in use
\* is on chain: a transfer lowers it by what leaves the wallet and by no more,
\* and a revert puts it back (CoinsAndBalances.ts:63-99).
TotalIsFuture ==
  ~smishap =>
    LET made == UNION {stxs[t].outputs : t \in InUse}
        gone == UNION {stxs[t].spends : t \in InUse}
        spent == UNION {events[i].spends : i \in 1..appliedTo}
    IN TotalCoins(wallet) = (OnChainCoins \cup (made \ spent)) \ gone

\* The bookings of the shielded wallet, which are the pending spends and outputs
\* of its local state, and the hashes kept beside it.
ShieldedBookings == HashesCover /\ CoinsSpentOnce /\ TotalIsFuture
=============================================================================
