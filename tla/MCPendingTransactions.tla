----------------------- MODULE MCPendingTransactions -----------------------
(* Instances of PendingTransactions for TLC. *)
EXTENDS PendingTransactions

CONSTANTS a, b, c

Small == {{a}, {b}, {a, b}}

\* The balancing part b expires first, and so does what it is merged into.
Ttl == [t \in Txs |-> IF b \in t THEN 0 ELSE 1]
WithB == {t \in Txs : b \in t}

\* An expired transaction counts as FAILURE; the service treats both alike.
SuccessOrPartial == {"SUCCESS", "PARTIAL_SUCCESS"}

Harmless == {"indexer_lag", "query_error"}
=============================================================================
