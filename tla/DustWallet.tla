----------------------------- MODULE DustWallet -----------------------------
(***************************************************************************)
(* The bookings of the dust wallet (packages/dust-wallet/src/v1): the      *)
(* coins of the local ledger state, the marks the ledger puts on coins it  *)
(* spent, and pendingDust, the wallet's own list of coins in use.          *)
(*                                                                         *)
(* Every Night output backs one dust coin at a time; spending it on chain  *)
(* replaces it by its successor, so a coin is a pair of its backing Night  *)
(* and its sequence number.  The ledger library is external: spend marks   *)
(* a coin until the end of the grace period, processTtls lifts the marks   *)
(* that have run out, and walletBalance counts the coins without a mark.   *)
(***************************************************************************)
EXTENDS Integers, FiniteSets, Sequences

CONSTANTS
  Nights,      \* Night outputs registered for dust generation
  DTxs,        \* transactions whose fee this wallet pays
  MaxTime,     \* bound on the clock
  Grace,       \* dustGracePeriodSeconds, in ticks
  MaxSpends,   \* bound on the spends of one Night's coins
  MaxRestores  \* bound on restarts from a snapshot

ASSUME DustBounds == /\ MaxTime \in Nat \ {0} /\ Grace \in Nat \ {0}
                     /\ MaxSpends \in Nat \ {0} /\ MaxRestores \in Nat

VARIABLES
  clock,       \* the time
  state,       \* DustLocalState: the coin of each Night and its mark
  pendingDust, \* CoreWallet.pendingDust
  applied,     \* progress.appliedIndex, in included transactions
  txs,         \* what became of each transaction
  dustChain,   \* transactions on chain, in order (external)
  saved,       \* the last snapshot of serializeState
  restores,    \* restarts so far
  mishap       \* "restored" or "stale_revert" once that happened, else "none"

dustVars == <<clock, state, pendingDust, applied, txs, dustChain, saved, restores, mishap>>

Coin == [night : Nights, seq : 0..MaxSpends]
Marks == 0..(MaxTime + Grace)       \* 0: not marked
LocalState == [seq : [Nights -> 0..MaxSpends], mark : [Nights -> Marks]]
FreshNights == [seq |-> [n \in Nights |-> 0], mark |-> [n \in Nights |-> 0]]
NoDustTx == [stage |-> "none", coins |-> {}, ctime |-> 0]
Seqs == UNION {[1..k -> DTxs] : k \in 0..Cardinality(DTxs)}

DustTypeOK ==
  /\ clock \in 1..MaxTime
  /\ state \in LocalState
  /\ pendingDust \subseteq Coin
  /\ applied \in 0..Cardinality(DTxs)
  /\ txs \in [DTxs -> [stage : {"none", "built", "reverted"}, coins : SUBSET Coin, ctime : 0..MaxTime]]
  /\ dustChain \in Seqs
  /\ saved \in [state : LocalState, applied : 0..Cardinality(DTxs)]
  /\ restores \in 0..MaxRestores
  /\ mishap \in {"none", "restored", "stale_revert"}
-----------------------------------------------------------------------------
(* The local ledger state (external) *)

CoinOf(st, n) == [night |-> n, seq |-> st.seq[n]]
DustUtxos(st) == {CoinOf(st, n) : n \in Nights}
IsMarked(st, c) == st.mark[c.night] > 0

\* DustLocalState.processTtls
ProcessTtls(st, time) ==
  [st EXCEPT !.mark = [n \in Nights |-> IF st.mark[n] <= time THEN 0 ELSE st.mark[n]]]

\* DustLocalState.spend, for each of the coins
SpendOf(st, coins, time) ==
  [st EXCEPT !.mark = [n \in Nights |-> IF CoinOf(st, n) \in coins THEN time + Grace ELSE st.mark[n]]]

\* DustLocalState.replayEventsWithChanges: a spent coin gives way to its successor
Replay(st, coins) ==
  LET Hit(n) == CoinOf(st, n) \in coins
  IN [seq  |-> [n \in Nights |-> IF Hit(n) THEN st.seq[n] + 1 ELSE st.seq[n]],
      mark |-> [n \in Nights |-> IF Hit(n) THEN 0 ELSE st.mark[n]]]

OnChain == {dustChain[i] : i \in DOMAIN dustChain}
SpentOnChain == UNION {txs[t].coins : t \in OnChain}

\* DustLocalState.walletBalance, as the set of coins it counts
WalletBalance == {c \in DustUtxos(state) : ~IsMarked(state, c)}
-----------------------------------------------------------------------------
(* The wallet *)

\* availableDustTokens
Available == DustUtxos(state) \ pendingDust

\* CoreWallet.empty
DustInit ==
  /\ clock = 1
  /\ state = FreshNights
  /\ pendingDust = {}
  /\ applied = 0
  /\ txs = [t \in DTxs |-> NoDustTx]
  /\ dustChain = <<>>
  /\ saved = [state |-> FreshNights, applied |-> 0]
  /\ restores = 0
  /\ mishap = "none"

\* balanceTransactions: the time is the timestamp of the block fetched before
\* the state was taken, or the caller's; choosing, spending and booking the
\* coins is one update of the state.
BalanceTransactions(t) ==
  /\ txs[t].stage = "none"
  /\ \E coins \in (SUBSET Available) \ {{}}, time \in 1..clock :
       /\ \A c \in coins : c.seq < MaxSpends
       /\ state' = SpendOf(state, coins, time)
       /\ pendingDust' = pendingDust \cup coins
       /\ txs' = [txs EXCEPT ![t] = [stage |-> "built", coins |-> coins, ctime |-> time]]
  /\ UNCHANGED <<clock, applied, dustChain, saved, restores, mishap>>

\* Mutant: the time is run on to the creation of the transaction only.
UnmarkOff(st, t, relevant) ==
  IF relevant = {} THEN st ELSE ProcessTtls(st, txs[t].ctime)

\* applyFailed on the local state: the marks are lifted by running the time on
\* to the end of the grace period of the transaction, whoever put them.
Unmark(st, t, relevant) ==
  IF relevant = {} THEN st ELSE ProcessTtls(st, txs[t].ctime + Grace)

\* applyFailed on pendingDust
Unbook(pending, relevant) == pending \ relevant

\* revertTransaction.  The caller may be late: another revert of t, or the
\* chain, may have freed its coins and a later transaction booked them.
RevertDustTransaction(t) ==
  /\ txs[t].stage # "none"
  /\ LET relevant == pendingDust \cap txs[t].coins
     IN /\ state' = Unmark(state, t, relevant)
        /\ pendingDust' = Unbook(pendingDust, relevant)
        /\ mishap' = IF relevant # {} /\ txs[t].stage = "reverted" THEN "stale_revert" ELSE mishap
  /\ txs' = [txs EXCEPT ![t].stage = "reverted"]
  /\ UNCHANGED <<clock, applied, dustChain, saved, restores>>

\* A node includes a transaction, reverted or not, while its coins are unspent
\* and its time is within the grace period (external).
IncludeDustTransaction(t) ==
  /\ txs[t].stage # "none" /\ t \notin OnChain
  /\ txs[t].coins \cap SpentOnChain = {}
  /\ clock <= txs[t].ctime + Grace
  /\ dustChain' = Append(dustChain, t)
  /\ UNCHANGED <<clock, state, pendingDust, applied, txs, saved, restores, mishap>>

\* applyEventsWithChanges of a batch that reaches the k-th transaction of the
\* chain.  A batch may hold only the events of others: processTtls runs anyway.
KeepCurrent(pending, st) == pending \cap DustUtxos(st)

ApplyEvents ==
  \E k \in applied..Len(dustChain) :
    LET coins == UNION {txs[dustChain[i]].coins : i \in (applied + 1)..k}
        replayed == ProcessTtls(Replay(state, coins), clock)
    IN /\ state' = replayed
       /\ pendingDust' = KeepCurrent(pendingDust, replayed)
       /\ applied' = k
       /\ UNCHANGED <<clock, txs, dustChain, saved, restores, mishap>>

\* serialize: the local state with its marks and the index, not pendingDust
SerializeDust ==
  /\ restores < MaxRestores
  /\ saved' = [state |-> state, applied |-> applied]
  /\ saved' # saved
  /\ UNCHANGED <<clock, state, pendingDust, applied, txs, dustChain, restores, mishap>>

\* deserialize and CoreWallet.restore, in a new process
RestoreDust ==
  /\ restores < MaxRestores
  /\ state' = saved.state
  /\ applied' = saved.applied
  /\ pendingDust' = {}
  /\ restores' = restores + 1
  /\ mishap' = "restored"
  /\ UNCHANGED <<clock, txs, dustChain, saved>>

DustTick ==
  /\ clock < MaxTime
  /\ clock' = clock + 1
  /\ UNCHANGED <<state, pendingDust, applied, txs, dustChain, saved, restores, mishap>>

DustNext ==
  \/ \E t \in DTxs : BalanceTransactions(t) \/ RevertDustTransaction(t) \/ IncludeDustTransaction(t)
  \/ ApplyEvents
  \/ SerializeDust
  \/ RestoreDust
  \/ DustTick

DustSpec == DustInit /\ [][DustNext]_dustVars
-----------------------------------------------------------------------------
(* Properties *)

Live == {t \in DTxs : txs[t].stage = "built"}

\* A coin that a transaction in use spends is not offered to another one, and
\* no two transactions in use share a coin, as long as the wallet was not
\* restored (the snapshot forgets pendingDust) and no transaction was reverted
\* a second time after its coins went to another (CoreWallet.ts:112-145).
BookedNotOffered ==
  mishap = "none" =>
    /\ \A t \in Live : txs[t].coins \cap Available = {}
    /\ \A t, u \in Live : t # u => txs[t].coins \cap txs[u].coins = {}

\* Every coin in pendingDust is a coin of the local state and belongs to a
\* transaction that was not reverted: no booking outlives the transaction or
\* the coin it was made for, whatever happened (CoreWallet.ts:92-145).
PendingHasOwner ==
  \A c \in pendingDust : c \in DustUtxos(state) /\ \E t \in Live : c \in txs[t].coins

\* What the wallet offers to spend is part of what it calls its balance: a
\* revert lifts exactly the marks that go with the booking it ends, although
\* it can do so only by running the time on (CoreWallet.ts:128-136).
AvailableIsCounted == mishap = "none" => Available \subseteq WalletBalance

\* The three things that must agree about a booked coin, which live in two
\* places of the dust wallet's state: pendingDust and the marks of the local
\* state.
DustBookings == BookedNotOffered /\ PendingHasOwner /\ AvailableIsCounted
=============================================================================
