------------------------ MODULE MCUnshieldedWallet ------------------------
(* Instances of UnshieldedWallet for TLC. *)
EXTENDS UnshieldedWallet, TLC

CONSTANTS u1, u2, u3, t1, t2

\* UTxOs and transactions are only compared for equality.
Symmetry == Permutations(Utxos) \cup Permutations(Txs)

NoFaults == {}
InPlace == {"unbooked_balancing"}

\* Without faults no transaction is balanced in place, and Next is this.
BookingNext ==
  \/ \E t \in Txs, S \in SUBSET availableUtxos, night \in BOOLEAN : MakeTransfer(t, S, night)
  \/ \E t \in Txs, S \in SUBSET availableUtxos : InitSwap(t, S)
  \/ \E t \in Txs, S \in SUBSET availableUtxos : BalanceFinalizedTransaction(t, S)
  \/ \E t \in Txs, G, F \in SUBSET Utxos : RotateUtxos(t, G, F)
  \/ \E t \in Txs : RevertTransaction(t)
  \/ \E t \in Txs : Include(t)
  \/ ForeignTransaction
  \/ Synchronising
  \/ Serialize
  \/ CrashAndRestore

BookingSpec == Init /\ [][BookingNext]_vars
=============================================================================
