------------------------------ MODULE MCFacade ------------------------------
(* Instances of Facade for TLC. *)
EXTENDS Facade, TLC

CONSTANTS x, y, u, d

UnshieldedAndDust == {"unshielded", "dust"}
WalletOfCoin == [c \in Coins |-> IF c = u THEN "unshielded" ELSE "dust"]

\* A transfer that pays its fee, and a dust registration.
Transfer == <<"unshielded", "dust">>
Registration == <<"unshielded", "attach", "fee", "sign">>
RegistrationOnly == {Registration}
BothFlows == {Transfer, Registration}

UnshieldedOnly == {"unshielded"}
PlainTransfer == {<<"unshielded">>}

\* Calls are only compared for equality.
Symmetry == Permutations(Calls)

StaleRevert == {"stale_revert"}
LateStep == {"late_step"}
=============================================================================
