----------------------------- MODULE Balancing -----------------------------
(***************************************************************************)
(* Balancing: coins are picked and change is added until every token type  *)
(* of a transaction is at its target (Balancer.ts, CounterOffer.ts).  The  *)
(* shielded and unshielded wallets run it once per section.  The dust      *)
(* wallet runs it in rounds, because the spends it adds raise the fee they *)
(* pay: round after round it asks the ledger for the fee of what the last  *)
(* round picked (computeBalancingRecipe).                                  *)
(*                                                                         *)
(* A pass of a `while` loop of the code is one action.  Nothing interleaves *)
(* with them, the code is synchronous; what varies is the request.         *)
(***************************************************************************)
EXTENDS Integers, Sequences, FiniteSets, Functions

CONSTANTS
  Coins, Types,
  TypeOf,    \* [Coins -> Types]
  Value,     \* [Coins -> Nat]
  NoFee,     \* the feeTokenType of a caller that pays no fee: ''
  Requests   \* the calls this instance admits

(***************************************************************************)
(* initial, target    the imbalances of the transaction, and the wanted    *)
(*                    ones                                                 *)
(* feeType, inputFee, outputFee   the token that pays, and what it pays    *)
(*                    for every input and output that is added             *)
(* byValue            isCoinEqual compares type and value, not identity    *)
(* rounds             the caller is the dust wallet                        *)
(* baseFee, spendFee  the ledger's fee for the transaction, and for every  *)
(*                    dust spend merged into it                            *)
(***************************************************************************)
Request ==
  [initial: [Types -> Int], target: [Types -> Int],
   feeType: Types \cup {NoFee}, inputFee: Nat, outputFee: Nat,
   byValue: BOOLEAN, rounds: BOOLEAN, baseFee: Nat, spendFee: Nat]

ASSUME BalancingAssumption ==
  /\ TypeOf \in [Coins -> Types] /\ Value \in [Coins -> Nat]
  /\ NoFee \notin Types
  /\ Requests \subseteq Request
  \* The dust wallet asks for its own token, and the coins are free to move.
  /\ \A r \in Requests : r.rounds =>
       /\ r.feeType \in Types /\ r.inputFee = 0 /\ r.outputFee = 0
       /\ \A t \in Types : r.target[t] = 0 /\ (t # r.feeType => r.initial[t] = 0)

VARIABLES
  request,
  coins,      \* the coins that may still be picked
  imbalance,  \* CounterOffer.imbalances
  inputs,     \* CounterOffer.inputs
  outputs,    \* CounterOffer.outputs: at most one of a type
  outcome,    \* "balancing", "recipe" (a round is over), "done", "insufficient"
  fee,        \* currentFee
  spends      \* what each input pays: the result of distributeFeeAcrossInputs

offerVars == <<coins, imbalance, inputs, outputs>>
vars == <<request, offerVars, outcome, fee, spends>>

Zero == [t \in Types |-> 0]

SumOver(f, S) == FoldFunctionOnSet(+, 0, f, S)
ValueOf(S) == SumOver(Value, S)
ValuesBefore(n) == ValueOf({inputs[m] : m \in 1..(n - 1)})

-----------------------------------------------------------------------------
(* One step of the balancer                                                *)

\* find(Non)NativeImbalance.  The order of the other types is the one of a Map.
Unbalanced(t) == imbalance[t] # request.target[t]
NonNative == {t \in Types \ {request.feeType} : Unbalanced(t)}

\* The fee that an input, or an output of type t, costs on top.
Charge(f, n) == IF request.feeType = NoFee THEN f ELSE [f EXCEPT ![request.feeType] = @ - n]

\* There is more than wanted, and for the fee token enough more to pay for
\* the output itself.
ShouldAddOutput(t) ==
  IF t = request.feeType THEN imbalance[t] >= request.target[t] + request.outputFee
                         ELSE imbalance[t] > request.target[t]

\* Mutant: change in the fee token does not pay for itself.
AddOutputOff(t) ==
  LET surplus == imbalance[t] - request.target[t]
      settled == [imbalance EXCEPT ![t] = request.target[t]]
  IN /\ outputs' = outputs \cup {[type |-> t, value |-> surplus]}
     /\ imbalance' = IF t = request.feeType THEN settled ELSE Charge(settled, request.outputFee)
     /\ UNCHANGED <<coins, inputs>>

AddOutput(t) ==
  LET surplus == imbalance[t] - request.target[t]
      settled == [imbalance EXCEPT ![t] = request.target[t]]
      pays == IF t = request.feeType THEN request.outputFee ELSE 0
  IN /\ outputs' = outputs \cup {[type |-> t, value |-> surplus - pays]}
     /\ imbalance' = IF t = request.feeType THEN settled ELSE Charge(settled, request.outputFee)
     /\ UNCHANGED <<coins, inputs>>

\* chooseCoin: a smallest coin of the type; the dust wallet skips empty ones.
Candidates(t) ==
  LET candidates == {c \in coins : TypeOf[c] = t /\ (request.rounds => Value[c] > 0)}
  IN {c \in candidates : \A e \in candidates : Value[c] <= Value[e]}

\* isCoinEqual.
Same(c, e) == IF request.byValue THEN TypeOf[c] = TypeOf[e] /\ Value[c] = Value[e] ELSE c = e

\* Mutant: the coin stays in the list it was picked from.
AddInputOff(c) ==
  /\ inputs' = Append(inputs, c)
  /\ imbalance' = Charge([imbalance EXCEPT ![TypeOf[c]] = @ + Value[c]], request.inputFee)
  /\ UNCHANGED <<coins, outputs>>

AddInput(c) ==
  /\ inputs' = Append(inputs, c)
  /\ imbalance' = Charge([imbalance EXCEPT ![TypeOf[c]] = @ + Value[c]], request.inputFee)
  /\ coins' = {e \in coins : ~Same(e, c)}
  /\ UNCHANGED outputs

DoBalance(t) ==
  \/ ShouldAddOutput(t) /\ AddOutput(t) /\ UNCHANGED outcome
  \/ /\ ~ShouldAddOutput(t)
     /\ \E c \in Candidates(t) : AddInput(c)
     /\ UNCHANGED outcome
  \/ /\ ~ShouldAddOutput(t) /\ Candidates(t) = {}
     /\ outcome' = "insufficient"
     /\ UNCHANGED offerVars

-----------------------------------------------------------------------------
(* The loops                                                               *)

BalanceNonNative ==
  /\ outcome = "balancing"
  /\ \E t \in NonNative : DoBalance(t)
  /\ UNCHANGED <<request, fee, spends>>

BalanceNative ==
  /\ outcome = "balancing"
  /\ NonNative = {}
  /\ request.feeType # NoFee /\ Unbalanced(request.feeType)
  /\ DoBalance(request.feeType)
  /\ UNCHANGED <<request, fee, spends>>

GetBalanceRecipe ==
  /\ outcome = "balancing"
  /\ NonNative = {}
  /\ request.feeType # NoFee => ~Unbalanced(request.feeType)
  /\ outcome' = IF request.rounds THEN "recipe" ELSE "done"
  /\ UNCHANGED <<request, offerVars, fee, spends>>

\* The ledger's fee for the transaction with the spends of the round.
DryRunFee == request.baseFee + Len(inputs) * request.spendFee

\* distributeFeeAcrossInputs: smaller inputs are drained first.
Distribute(amount) ==
  [n \in DOMAIN inputs |->
     LET remaining == IF amount > ValuesBefore(n) THEN amount - ValuesBefore(n) ELSE 0
     IN IF remaining >= Value[inputs[n]] THEN Value[inputs[n]] ELSE remaining]

\* computeBalancingRecipe: done when the coins of the round cover its fee;
\* otherwise another round, which starts from that fee as the imbalance.
ComputeBalancingRecipe ==
  /\ outcome = "recipe"
  /\ fee' = DryRunFee
  /\ \/ /\ DryRunFee <= ValueOf(Range(inputs))
        /\ outcome' = "done" /\ spends' = Distribute(DryRunFee)
        /\ UNCHANGED offerVars
     \/ /\ DryRunFee > ValueOf(Range(inputs))
        /\ outcome' = "balancing"
        /\ coins' = Coins /\ inputs' = <<>> /\ outputs' = {}
        /\ imbalance' = [Zero EXCEPT ![request.feeType] = DryRunFee]
        /\ UNCHANGED spends
  /\ UNCHANGED request

-----------------------------------------------------------------------------

Init ==
  /\ request \in Requests
  /\ coins = Coins
  /\ imbalance = request.initial
  /\ inputs = <<>> /\ outputs = {} /\ spends = <<>>
  /\ outcome = "balancing"
  /\ fee = IF request.rounds THEN request.initial[request.feeType] ELSE 0

Next == BalanceNonNative \/ BalanceNative \/ GetBalanceRecipe \/ ComputeBalancingRecipe

Spec == Init /\ [][Next]_vars

\* The code is synchronous: nothing else runs until it returns.
FairSpec == Spec /\ WF_vars(Next)

-----------------------------------------------------------------------------
(* Properties                                                              *)

TypeOK ==
  /\ request \in Requests
  /\ coins \in SUBSET Coins
  /\ imbalance \in [Types -> Int]
  /\ inputs \in Seq(Coins)
  /\ outputs \in SUBSET [type: Types, value: Int]
  /\ outcome \in {"balancing", "recipe", "done", "insufficient"}
  /\ fee \in Int
  /\ spends \in Seq(Nat)

\* No coin is picked twice, nor one that is not on offer any more.
SpendsDistinctCoins ==
  /\ \A m, n \in DOMAIN inputs : inputs[m] = inputs[n] => m = n
  /\ \A n \in DOMAIN inputs : inputs[n] \notin coins

InputsOf(t) == {c \in Range(inputs) : TypeOf[c] = t}
OutputsOf(t) == SumOver([o \in outputs |-> o.value], {o \in outputs : o.type = t})

\* What the inputs and outputs added cost in tokens of type t.
Costs(t) ==
  IF t # request.feeType THEN 0
  ELSE Len(inputs) * request.inputFee + Cardinality(outputs) * request.outputFee

\* What the transaction ends up with in tokens of type t.
Result(t) == request.initial[t] + ValueOf(InputsOf(t)) - OutputsOf(t) - Costs(t)

\* A recipe settles the transaction: what its inputs bring, less what its
\* outputs take and both cost, is exactly what was missing, in every type.
Settles == outcome = "done" /\ ~request.rounds => \A t \in Types : Result(t) = request.target[t]

\* A balancing is refused only when all the coins of some type together could
\* not settle it.  (Specification.md: "abort with error if there is no coin
\* available to be spent".)
RefusedOnlyWhenShort ==
  outcome = "insufficient" /\ ~request.byValue =>
    \E t \in Types :
      /\ InputsOf(t) = {c \in Coins : TypeOf[c] = t /\ (request.rounds => Value[c] > 0)}
      /\ Result(t) < request.target[t] + (IF t = request.feeType THEN request.outputFee ELSE 0)

\* The dust spends of a finished recipe pay the fee of the transaction they
\* are part of, and none pays more than its coin is worth.
FeeCovered ==
  outcome = "done" /\ request.rounds =>
    /\ fee = DryRunFee
    /\ DOMAIN spends = DOMAIN inputs
    /\ \A n \in DOMAIN spends : spends[n] <= Value[inputs[n]]
    /\ SumOver(spends, DOMAIN spends) = fee

\* What a balancing comes to is right, however it ends: a settled transaction,
\* dust spends that pay its fee, or a refusal for lack of coins.
OutcomeIsRight == Settles /\ FeeCovered /\ RefusedOnlyWhenShort

Ended == outcome \in {"done", "insufficient"}

\* Specification.md on covering fees: "Continue if the remaining amount is
\* bigger than zero, otherwise proceed to the next stage".  Every round selects
\* another dust output, so the rounds come to an end.
FeeBalancingEnds == request.rounds => <>Ended
=============================================================================
