-------------------------- MODULE LocalWalletsProofs --------------------------
(***************************************************************************)
(* Theorems about what a wallet does by itself: the balancer, the bookings *)
(* of the dust wallet and those of the shielded wallet, the life of a      *)
(* wallet object, registrations, the recipe of one transaction, and how    *)
(* addresses and keys are written and read.                                *)
(***************************************************************************)
EXTENDS Balancing, DustWallet, ShieldedWallet, WalletClasses, DustRegistration, Recipes,
        Encodings, FiniteSetTheorems, SequenceTheorems, WellFoundedInduction, TLAPS

(* What fails for some number fails for a least one.                       *)
LEMMA LeastExists ==
  ASSUME NEW T, T \subseteq Nat, T # {}
  PROVE  \E x \in T : \A y \in T : x <= y
<1>1. PICK x \in T : \A y \in T : ~(<<y, x>> \in OpToRel(<, Nat))
  BY NatLessThanWellFounded, WFMin
<1>2. \A y \in T : ~(y < x)
  BY <1>1 DEF OpToRel
<1> QED BY <1>2

-----------------------------------------------------------------------------
(* Sums                                                                    *)

(* A sum of natural numbers is the number of units in it: f[x] of every x. *)
UnitsOf(f, x) == {x} \X (1..f[x])
Units(f, S) == UNION {UnitsOf(f, x) : x \in S}

LEMMA UnitsOfCounted ==
  ASSUME NEW f, NEW x, f[x] \in Nat
  PROVE  IsFiniteSet(UnitsOf(f, x)) /\ Cardinality(UnitsOf(f, x)) = f[x]
<1>1. IsFiniteSet({x}) /\ Cardinality({x}) = 1
  BY FS_Singleton
<1>2. IsFiniteSet(1..f[x]) /\ Cardinality(1..f[x]) = f[x]
  BY FS_Interval
<1>3. /\ IsFiniteSet({x} \X (1..f[x]))
      /\ Cardinality({x} \X (1..f[x])) = Cardinality({x}) * Cardinality(1..f[x])
  BY <1>1, <1>2, FS_Product
<1>4. 1 * f[x] = f[x]
  OBVIOUS
<1> QED BY <1>1, <1>2, <1>3, <1>4 DEF UnitsOf

LEMMA UnitsFinite ==
  ASSUME NEW f, NEW S, IsFiniteSet(S), \A x \in S : f[x] \in Nat
  PROVE  IsFiniteSet(Units(f, S))
<1> DEFINE g == [x \in S |-> UnitsOf(f, x)]
           R == {UnitsOf(f, x) : x \in S}
<1>1. g \in Surjection(S, R)
  BY DEF Surjection
<1>2. IsFiniteSet(R)
  BY <1>1, FS_Surjection
<1>3. \A T \in R : IsFiniteSet(T)
  BY UnitsOfCounted
<1> HIDE DEF R
<1>4. IsFiniteSet(UNION R)
  BY <1>2, <1>3, FS_UNION
<1> QED BY <1>4 DEF Units, R

LEMMA UnitsRemove ==
  ASSUME NEW f, NEW S, IsFiniteSet(S), \A x \in S : f[x] \in Nat, NEW y \in S
  PROVE  Cardinality(Units(f, S)) = f[y] + Cardinality(Units(f, S \ {y}))
<1>1. IsFiniteSet(S \ {y}) /\ \A x \in S \ {y} : f[x] \in Nat
  BY FS_RemoveElement
<1>2. IsFiniteSet(Units(f, S \ {y}))
  BY <1>1, UnitsFinite
<1>3. IsFiniteSet(UnitsOf(f, y)) /\ Cardinality(UnitsOf(f, y)) = f[y]
  BY UnitsOfCounted
<1>4. Units(f, S) = UnitsOf(f, y) \cup Units(f, S \ {y})
  BY DEF Units
<1>5. UnitsOf(f, y) \cap Units(f, S \ {y}) = {}
  BY DEF Units, UnitsOf
<1>6. Cardinality(Units(f, S \ {y})) \in Nat /\ f[y] \in Nat
  BY <1>2, FS_CardinalityType
<1>7. Cardinality(UnitsOf(f, y) \cup Units(f, S \ {y}))
        = Cardinality(UnitsOf(f, y)) + Cardinality(Units(f, S \ {y}))
            - Cardinality(UnitsOf(f, y) \cap Units(f, S \ {y}))
  BY <1>2, <1>3, FS_Union
<1>8. Cardinality(UnitsOf(f, y) \cap Units(f, S \ {y})) = 0
  BY <1>5, FS_EmptySet
<1>9. Cardinality(Units(f, S)) = Cardinality(UnitsOf(f, y) \cup Units(f, S \ {y}))
  BY <1>4
<1> QED BY <1>3, <1>6, <1>7, <1>8, <1>9

(* The fold that makes a sum, as a function of the part of the set that is *)
(* still to be added up.                                                   *)
Folded(g, f, S) ==
  g = [T \in SUBSET S |->
         IF T = {} THEN 0 ELSE LET x == CHOOSE x \in T : TRUE IN f[x] + g[T \ {x}]]

LEMMA SumIsFolded ==
  ASSUME NEW f, NEW S
  PROVE  SumOver(f, S) = (CHOOSE g : Folded(g, f, S))[S]
BY DEF SumOver, FoldFunctionOnSet, MapThenFoldSet, Folded

LEMMA SumIsUnits ==
  ASSUME NEW f, NEW S, IsFiniteSet(S), \A x \in S : f[x] \in Nat
  PROVE  SumOver(f, S) = Cardinality(Units(f, S))
<1>0. \A T \in SUBSET S : IsFiniteSet(T) /\ \A x \in T : f[x] \in Nat
  BY FS_Subset
<1>1. \E g : Folded(g, f, S)
  <2> DEFINE n(T) == Cardinality(Units(f, T))
             g == [T \in SUBSET S |-> n(T)]
  <2>1. ASSUME NEW T \in SUBSET S, T # {}, NEW x \in T
        PROVE  n(T) = f[x] + g[T \ {x}]
    <3>1. n(T) = f[x] + n(T \ {x})
      BY <1>0, <2>1, UnitsRemove
    <3>2. T \ {x} \in SUBSET S
      OBVIOUS
    <3> HIDE DEF n
    <3> QED BY <3>1, <3>2
  <2>2. n({}) = 0
    <3>1. Units(f, {}) = {}
      BY DEF Units
    <3> QED BY <3>1, FS_EmptySet
  <2>3. ASSUME NEW T \in SUBSET S
        PROVE  g[T] = IF T = {} THEN 0 ELSE LET x == CHOOSE x \in T : TRUE IN f[x] + g[T \ {x}]
    <3> HIDE DEF n
    <3>1. g[T] = n(T)
      OBVIOUS
    <3> HIDE DEF g
    <3>2. CASE T = {}
      BY <2>2, <3>1, <3>2
    <3>3. CASE T # {}
      <4>1. (CHOOSE x \in T : TRUE) \in T
        BY <3>3
      <4> QED BY <2>1, <3>1, <3>3, <4>1
    <3> QED BY <3>2, <3>3
  <2>4. g = [T \in SUBSET S |-> g[T]]
    OBVIOUS
  <2> HIDE DEF g
  <2>5. Folded(g, f, S)
    BY <2>3, <2>4 DEF Folded
  <2> QED BY <2>5
<1> DEFINE sum == CHOOSE g : Folded(g, f, S)
<1>2. Folded(sum, f, S)
  BY <1>1
<1>3. SumOver(f, S) = sum[S]
  BY SumIsFolded
<1> HIDE DEF sum
<1> DEFINE Bad == {T \in SUBSET S : sum[T] # Cardinality(Units(f, T))}
           Sizes == {m \in Nat : \E T \in Bad : m = Cardinality(T)}
<1>4. Bad = {}
  <2> SUFFICES ASSUME Bad # {} PROVE FALSE
    OBVIOUS
  <2>1. Sizes # {} /\ Sizes \subseteq Nat
    <3>1. \A T \in Bad : Cardinality(T) \in Nat
      BY <1>0, FS_CardinalityType
    <3> QED BY <3>1
  <2>2. PICK m \in Sizes : \A k \in Sizes : m <= k
    BY <2>1, LeastExists
  <2>3. PICK T \in Bad : m = Cardinality(T)
    BY <2>2
  <2>4. T \in SUBSET S /\ IsFiniteSet(T) /\ m \in Nat
    BY <1>0, <2>1, <2>3
  <2>5. CASE T = {}
    <3>1. sum[T] = 0
      BY <1>2, <2>4, <2>5 DEF Folded
    <3>2. Units(f, T) = {}
      BY <2>5 DEF Units
    <3> QED BY <2>3, <3>1, <3>2, FS_EmptySet
  <2>6. CASE T # {}
    <3> DEFINE x == CHOOSE x \in T : TRUE
    <3>1. x \in T
      BY <2>6
    <3>2. sum[T] = f[x] + sum[T \ {x}]
      BY <1>2, <2>4, <2>6 DEF Folded
    <3> HIDE DEF x
    <3>3. IsFiniteSet(T \ {x}) /\ Cardinality(T \ {x}) = m - 1 /\ T \ {x} \in SUBSET S
      BY <2>3, <2>4, <3>1, FS_RemoveElement
    <3>4. Cardinality(T \ {x}) \in Nat
      BY <3>3, FS_CardinalityType
    <3>5. T \ {x} \notin Bad
      BY <2>2, <2>4, <3>3, <3>4
    <3>6. sum[T \ {x}] = Cardinality(Units(f, T \ {x}))
      BY <3>3, <3>5
    <3>7. Cardinality(Units(f, T)) = f[x] + Cardinality(Units(f, T \ {x}))
      BY <1>0, <2>4, <3>1, UnitsRemove
    <3> QED BY <2>3, <3>2, <3>6, <3>7
  <2> QED BY <2>5, <2>6
<1> QED BY <1>3, <1>4

(* The laws of a sum: nothing sums up to zero, an element more adds what it *)
(* is worth, and what the function says elsewhere does not matter.         *)
LEMMA SumEmpty == ASSUME NEW f PROVE SumOver(f, {}) = 0
<1>1. Units(f, {}) = {}
  BY DEF Units
<1> QED BY <1>1, SumIsUnits, FS_EmptySet

LEMMA SumType ==
  ASSUME NEW f, NEW S, IsFiniteSet(S), \A x \in S : f[x] \in Nat
  PROVE  SumOver(f, S) \in Nat
BY SumIsUnits, UnitsFinite, FS_CardinalityType

LEMMA SumAdd ==
  ASSUME NEW f, NEW S, IsFiniteSet(S), NEW y, y \notin S, \A x \in S \cup {y} : f[x] \in Nat
  PROVE  SumOver(f, S \cup {y}) = SumOver(f, S) + f[y]
<1>1. IsFiniteSet(S \cup {y})
  BY FS_AddElement
<1>2. (S \cup {y}) \ {y} = S
  OBVIOUS
<1>3. SumOver(f, S \cup {y}) = f[y] + SumOver(f, S)
  BY <1>1, <1>2, SumIsUnits, UnitsRemove
<1> QED BY <1>3, SumType

LEMMA SumSame ==
  ASSUME NEW f, NEW g, NEW S, IsFiniteSet(S), \A x \in S : f[x] \in Nat /\ g[x] = f[x]
  PROVE  SumOver(g, S) = SumOver(f, S)
<1>1. Units(g, S) = Units(f, S)
  BY DEF Units, UnitsOf
<1> QED BY <1>1, SumIsUnits

-----------------------------------------------------------------------------
(* The balancer                                                            *)

(* No coin is picked twice, whatever the request, the coins and the fees,  *)
(* also when coins are compared by value and across the rounds of the dust *)
(* wallet.                                                                 *)
PickedInv ==
  /\ inputs \in Seq(Coins)
  /\ coins \in SUBSET Coins
  /\ SpendsDistinctCoins

(* A coin is equal to itself, in both senses of isCoinEqual.               *)
LEMMA SameReflexive == \A c \in Coins : Same(c, c)
BY DEF Same

LEMMA PickedInit == Init => PickedInv
BY DEF Init, PickedInv, SpendsDistinctCoins

(* A coin on offer is new, and no coin on offer is left that equals it.    *)
LEMMA PickedAddInput ==
  ASSUME PickedInv, NEW c \in coins, AddInput(c)
  PROVE  PickedInv'
<1> DEFINE rest == {e \in coins : ~Same(e, c)}
<1>1. /\ inputs \in Seq(Coins) /\ coins \in SUBSET Coins /\ c \in Coins
      /\ inputs' = Append(inputs, c) /\ coins' = rest
  BY DEF PickedInv, AddInput
<1>2. /\ Len(inputs) \in Nat /\ DOMAIN inputs = 1..Len(inputs)
      /\ inputs' \in Seq(Coins) /\ DOMAIN inputs' = 1..(Len(inputs) + 1)
      /\ inputs'[Len(inputs) + 1] = c
      /\ \A n \in 1..Len(inputs) : inputs'[n] = inputs[n]
  BY <1>1
<1>3. rest \in SUBSET coins /\ c \notin rest
  BY <1>1, SameReflexive
<1>4. \A n \in 1..Len(inputs) : inputs[n] \notin coins /\ inputs[n] # c
  BY <1>2 DEF PickedInv, SpendsDistinctCoins
<1> HIDE DEF rest
<1>5. \A n \in DOMAIN inputs' : inputs'[n] \notin coins'
  <2>1. ASSUME NEW n \in 1..Len(inputs) PROVE inputs'[n] \notin coins'
    BY <1>1, <1>2, <1>3, <1>4
  <2>2. inputs'[Len(inputs) + 1] \notin coins'
    BY <1>1, <1>2, <1>3
  <2> QED  BY <2>1, <2>2, <1>2
<1>6. \A m, n \in DOMAIN inputs' : inputs'[m] = inputs'[n] => m = n
  <2> SUFFICES ASSUME NEW m \in DOMAIN inputs', NEW n \in DOMAIN inputs', inputs'[m] = inputs'[n]
               PROVE  m = n
    OBVIOUS
  <2>1. CASE m \in 1..Len(inputs) /\ n \in 1..Len(inputs)
    BY <1>2, <2>1 DEF PickedInv, SpendsDistinctCoins
  <2>2. CASE m = Len(inputs) + 1 \/ n = Len(inputs) + 1
    BY <1>2, <1>4, <2>2
  <2> QED  BY <1>2, <2>1, <2>2
<1>7. coins' \in SUBSET Coins
  BY <1>1, <1>3
<1> QED  BY <1>2, <1>5, <1>6, <1>7 DEF PickedInv, SpendsDistinctCoins

LEMMA PickedDoBalance ==
  ASSUME PickedInv, NEW t \in Types, DoBalance(t)
  PROVE  PickedInv'
<1>1. CASE AddOutput(t) \/ UNCHANGED offerVars
  BY <1>1 DEF AddOutput, offerVars, PickedInv, SpendsDistinctCoins
<1>2. CASE \E c \in Candidates(t) : AddInput(c)
  <2>1. PICK c \in Candidates(t) : AddInput(c)
    BY <1>2
  <2>2. c \in coins
    BY <2>1 DEF Candidates
  <2> QED  BY <2>1, <2>2, PickedAddInput
<1> QED  BY <1>1, <1>2 DEF DoBalance

(* The fee token of a request is a token type, unless it is NoFee.         *)
RequestInv == request \in Requests

LEMMA PickedNext == RequestInv /\ PickedInv /\ [Next]_vars => PickedInv'
<1> SUFFICES ASSUME RequestInv, PickedInv, [Next]_vars PROVE PickedInv'
  OBVIOUS
<1>1. CASE BalanceNonNative
  BY <1>1, PickedDoBalance DEF BalanceNonNative, NonNative
<1>2. CASE BalanceNative
  <2>1. request.feeType \in Types
    BY <1>2, BalancingAssumption DEF BalanceNative, RequestInv, Request
  <2> QED  BY <1>2, <2>1, PickedDoBalance DEF BalanceNative
<1>3. CASE GetBalanceRecipe \/ UNCHANGED vars
  BY <1>3 DEF GetBalanceRecipe, vars, offerVars, PickedInv, SpendsDistinctCoins
<1>4. CASE ComputeBalancingRecipe
  <2>1. CASE UNCHANGED offerVars
    BY <2>1 DEF offerVars, PickedInv, SpendsDistinctCoins
  <2>2. CASE coins' = Coins /\ inputs' = <<>>
    BY <2>2 DEF PickedInv, SpendsDistinctCoins
  <2> QED  BY <1>4, <2>1, <2>2 DEF ComputeBalancingRecipe
<1> QED  BY <1>1, <1>2, <1>3, <1>4 DEF Next

(* In every round of every balancing each coin is picked at most once.     *)
THEOREM DistinctCoins == Spec => []SpendsDistinctCoins
<1>1. Init => RequestInv /\ PickedInv
  BY PickedInit DEF Init, RequestInv
<1>2. RequestInv /\ [Next]_vars => RequestInv'
  BY DEF RequestInv, Next, vars, BalanceNonNative, BalanceNative, GetBalanceRecipe,
         ComputeBalancingRecipe
<1>3. PickedInv => SpendsDistinctCoins
  BY DEF PickedInv
<1> QED  BY <1>1, <1>2, <1>3, PickedNext, PTL DEF Spec

(* Outputs carry change, at most one of a type, which is then settled for  *)
(* good: change in the fee token is the last thing that is added.          *)
ChangeInv ==
  /\ outputs \subseteq [type : Types, value : Nat] /\ IsFiniteSet(outputs)
  /\ \A o \in outputs : ~Unbalanced(o.type) /\ (o.type = request.feeType => NonNative = {})

(* The imbalances are what the inputs bring, less what the outputs take and *)
(* both cost.  A second round of the dust wallet starts from the fee as a  *)
(* surplus instead, and so picks no coin.                                  *)
AccountInv ==
  /\ imbalance \in [Types -> Int]
  /\ \/ \A t \in Types : imbalance[t] = Result(t)
     \/ request.rounds /\ NonNative = {} /\ imbalance[request.feeType] >= 0

(* A coin that is not on offer any more was picked, unless others like it  *)
(* went with the one that was, and empty coins pay no fee.                 *)
OfferInv ==
  /\ ~request.byValue => Range(inputs) = Coins \ coins
  /\ request.rounds => \A n \in DOMAIN inputs : Value[inputs[n]] > 0

OutcomeInv ==
  /\ outcome \in {"balancing", "recipe", "done", "insufficient"}
  /\ outcome = "recipe" => request.rounds

BalancingInv ==
  RequestInv /\ PickedInv /\ ChangeInv /\ AccountInv /\ OfferInv /\ OutcomeInv /\ OutcomeIsRight

LEMMA RequestFacts ==
  ASSUME RequestInv
  PROVE  /\ request \in Request
         /\ request.initial \in [Types -> Int] /\ request.target \in [Types -> Int]
         /\ request.feeType \in Types \cup {NoFee} /\ request.inputFee \in Nat
         /\ request.outputFee \in Nat /\ request.baseFee \in Nat /\ request.spendFee \in Nat
         /\ request.byValue \in BOOLEAN /\ request.rounds \in BOOLEAN
         /\ \A t \in Types : t # NoFee
         /\ request.rounds =>
              /\ request.feeType \in Types /\ request.inputFee = 0 /\ request.outputFee = 0
              /\ \A t \in Types : request.target[t] = 0 /\ (t # request.feeType => request.initial[t] = 0)
<1>1. request \in Request
  BY BalancingAssumption DEF RequestInv
<1>2. request.rounds =>
        /\ request.feeType \in Types /\ request.inputFee = 0 /\ request.outputFee = 0
        /\ \A t \in Types : request.target[t] = 0 /\ (t # request.feeType => request.initial[t] = 0)
  BY BalancingAssumption DEF RequestInv
<1>3. \A t \in Types : t # NoFee
  BY BalancingAssumption
<1> QED BY <1>1, <1>2, <1>3 DEF Request

(* What the picked coins are worth, before and after one more is picked.   *)
LEMMA PickedFinite ==
  ASSUME inputs \in Seq(Coins)
  PROVE  /\ IsFiniteSet(Range(inputs)) /\ Range(inputs) \subseteq Coins
         /\ \A t : IsFiniteSet(InputsOf(t)) /\ InputsOf(t) \subseteq Coins
         /\ \A S \in SUBSET Coins : IsFiniteSet(S) => ValueOf(S) \in Nat
<1>1. inputs \in [1..Len(inputs) -> Coins] /\ Len(inputs) \in Nat
  OBVIOUS
<1>2. inputs \in Surjection(1..Len(inputs), Range(inputs))
  BY <1>1 DEF Surjection, Range
<1>3. IsFiniteSet(1..Len(inputs))
  BY <1>1, FS_Interval
<1>4. IsFiniteSet(Range(inputs))
  BY <1>2, <1>3, FS_Surjection
<1>5. Range(inputs) \subseteq Coins
  BY <1>1 DEF Range
<1>6. \A t : InputsOf(t) \in SUBSET Range(inputs)
  BY DEF InputsOf
<1>7. \A t : IsFiniteSet(InputsOf(t))
  BY <1>4, <1>6, FS_Subset
<1>8. \A S \in SUBSET Coins : \A c \in S : Value[c] \in Nat
  BY BalancingAssumption
<1>9. \A S \in SUBSET Coins : IsFiniteSet(S) => ValueOf(S) \in Nat
  BY <1>8, SumType DEF ValueOf
<1> QED BY <1>4, <1>5, <1>6, <1>7, <1>9

LEMMA InputAdded ==
  ASSUME PickedInv, NEW c \in coins, AddInput(c)
  PROVE  /\ Range(inputs)' = Range(inputs) \cup {c}
         /\ Len(inputs') = Len(inputs) + 1
         /\ \A t \in Types : ValueOf(InputsOf(t))' = ValueOf(InputsOf(t)) + (IF TypeOf[c] = t THEN Value[c] ELSE 0)
<1>1. inputs \in Seq(Coins) /\ c \in Coins /\ inputs' = Append(inputs, c)
  BY DEF PickedInv, AddInput
<1>2. Len(inputs') = Len(inputs) + 1 /\ DOMAIN inputs' = 1..(Len(inputs) + 1) /\ DOMAIN inputs = 1..Len(inputs)
      /\ Len(inputs) \in Nat
  BY <1>1
<1>3. \A n \in 1..Len(inputs) : inputs'[n] = inputs[n]
  BY <1>1
<1>4. inputs'[Len(inputs) + 1] = c
  BY <1>1
<1>5. Range(inputs') = Range(inputs) \cup {c}
  BY <1>2, <1>3, <1>4 DEF Range
<1>6. c \notin Range(inputs)
  BY DEF PickedInv, SpendsDistinctCoins, Range
<1>7. ASSUME NEW t \in Types
      PROVE  ValueOf(InputsOf(t))' = ValueOf(InputsOf(t)) + (IF TypeOf[c] = t THEN Value[c] ELSE 0)
  <2>1. ValueOf(InputsOf(t))' = ValueOf({e \in Range(inputs') : TypeOf[e] = t})
    BY DEF ValueOf, InputsOf
  <2>2. IsFiniteSet(InputsOf(t)) /\ InputsOf(t) \subseteq Coins /\ ValueOf(InputsOf(t)) \in Nat
    BY <1>1, PickedFinite
  <2>3. CASE TypeOf[c] = t
    <3>1. {e \in Range(inputs') : TypeOf[e] = t} = InputsOf(t) \cup {c}
      BY <1>5, <2>3 DEF InputsOf
    <3>2. c \notin InputsOf(t)
      BY <1>6 DEF InputsOf
    <3>3. \A x \in InputsOf(t) \cup {c} : Value[x] \in Nat
      BY <1>1, <2>2, BalancingAssumption
    <3>4. ValueOf(InputsOf(t) \cup {c}) = ValueOf(InputsOf(t)) + Value[c]
      BY <2>2, <3>2, <3>3, SumAdd DEF ValueOf
    <3> QED BY <2>1, <2>3, <3>1, <3>4
  <2>4. CASE TypeOf[c] # t
    <3>1. {e \in Range(inputs') : TypeOf[e] = t} = InputsOf(t)
      BY <1>5, <2>4 DEF InputsOf
    <3> QED BY <2>1, <2>2, <2>4, <3>1
  <2> QED BY <2>3, <2>4
<1> QED BY <1>2, <1>5, <1>7

(* What the outputs take, before and after one more is added.              *)
LEMMA OutputsSummed ==
  ASSUME outputs \subseteq [type : Types, value : Nat], IsFiniteSet(outputs)
  PROVE  \A t : OutputsOf(t) \in Nat
<1> DEFINE f == [o \in outputs |-> o.value]
<1> SUFFICES ASSUME NEW t PROVE SumOver(f, {o \in outputs : o.type = t}) \in Nat
  BY DEF OutputsOf
<1>1. {o \in outputs : o.type = t} \in SUBSET outputs
  OBVIOUS
<1>2. IsFiniteSet({o \in outputs : o.type = t})
  BY <1>1, FS_Subset
<1>3. \A o \in outputs : f[o] \in Nat
  OBVIOUS
<1> HIDE DEF f
<1> QED BY <1>1, <1>2, <1>3, SumType

LEMMA OutputAdded ==
  ASSUME outputs \subseteq [type : Types, value : Nat], IsFiniteSet(outputs),
         NEW n \in [type : Types, value : Nat], n \notin outputs, outputs' = outputs \cup {n}
  PROVE  /\ outputs' \subseteq [type : Types, value : Nat] /\ IsFiniteSet(outputs')
         /\ Cardinality(outputs') = Cardinality(outputs) + 1 /\ Cardinality(outputs) \in Nat
         /\ \A t : OutputsOf(t)' = OutputsOf(t) + (IF n.type = t THEN n.value ELSE 0)
<1>1. /\ IsFiniteSet(outputs') /\ Cardinality(outputs') = Cardinality(outputs) + 1
      /\ Cardinality(outputs) \in Nat
  BY FS_AddElement, FS_CardinalityType
<1>2. ASSUME NEW t
      PROVE  OutputsOf(t)' = OutputsOf(t) + (IF n.type = t THEN n.value ELSE 0)
  <2> DEFINE f == [o \in outputs |-> o.value]
             g == [o \in outputs \cup {n} |-> o.value]
             S == {o \in outputs : o.type = t}
             R == {o \in outputs \cup {n} : o.type = t}
  <2>1. OutputsOf(t) = SumOver(f, S) /\ OutputsOf(t)' = SumOver(g, R)
    BY DEF OutputsOf
  <2>2. IsFiniteSet(S) /\ S \subseteq outputs
    <3>1. S \in SUBSET outputs
      OBVIOUS
    <3> QED BY <3>1, FS_Subset
  <2>3. \A o \in outputs : f[o] \in Nat /\ g[o] = f[o]
    OBVIOUS
  <2>4. g[n] = n.value /\ n.value \in Nat
    OBVIOUS
  <2>5. R = IF n.type = t THEN S \cup {n} ELSE S
    OBVIOUS
  <2>6. n \notin S
    OBVIOUS
  <2> HIDE DEF f, g, S, R
  <2>7. SumOver(g, S) = SumOver(f, S) /\ SumOver(f, S) \in Nat
    BY <2>2, <2>3, SumSame, SumType
  <2>8. \A x \in S \cup {n} : g[x] \in Nat
    BY <2>2, <2>3, <2>4
  <2>9. SumOver(g, S \cup {n}) = SumOver(g, S) + g[n]
    BY <2>2, <2>6, <2>8, SumAdd
  <2> QED BY <2>1, <2>4, <2>5, <2>7, <2>9
<1> QED BY <1>1, <1>2

(* What both cost, before and after one of them is added.                  *)
LEMMA CostsStep ==
  ASSUME RequestInv, NEW m \in Nat, NEW n \in Nat
  PROVE  /\ (m + 1) * request.inputFee + n * request.outputFee
              = m * request.inputFee + n * request.outputFee + request.inputFee
         /\ m * request.inputFee + (n + 1) * request.outputFee
              = m * request.inputFee + n * request.outputFee + request.outputFee
         /\ m * request.inputFee + n * request.outputFee \in Nat
<1> DEFINE i == request.inputFee
           o == request.outputFee
<1>1. i \in Nat /\ o \in Nat
  BY RequestFacts
<1> HIDE DEF i, o
<1>2. (m + 1) * i = m * i + i /\ (n + 1) * o = n * o + o /\ m * i \in Nat /\ n * o \in Nat
  BY <1>1
<1> DEFINE a == m * i
           b == n * o
<1>3. a \in Nat /\ b \in Nat /\ (m + 1) * i = a + i /\ (n + 1) * o = b + o
  BY <1>2
<1>4. /\ (m + 1) * i + n * o = m * i + n * o + i
      /\ m * i + (n + 1) * o = m * i + n * o + o
      /\ m * i + n * o \in Nat
  <2>1. n * o = b /\ m * i = a
    OBVIOUS
  <2> HIDE DEF a, b
  <2> QED BY <1>1, <1>3, <2>1
<1> QED BY <1>4 DEF i, o

LEMMA ResultType ==
  ASSUME RequestInv, PickedInv, ChangeInv, NEW t \in Types
  PROVE  /\ request.initial[t] \in Int /\ ValueOf(InputsOf(t)) \in Nat
         /\ OutputsOf(t) \in Nat /\ Costs(t) \in Nat
         /\ Result(t) = request.initial[t] + ValueOf(InputsOf(t)) - OutputsOf(t) - Costs(t)
<1>1. request.initial[t] \in Int
  BY RequestFacts
<1>2. ValueOf(InputsOf(t)) \in Nat
  BY PickedFinite DEF PickedInv
<1>3. OutputsOf(t) \in Nat
  BY OutputsSummed DEF ChangeInv
<1>4. Costs(t) \in Nat
  <2>1. Len(inputs) \in Nat /\ Cardinality(outputs) \in Nat
    BY FS_CardinalityType DEF PickedInv, ChangeInv
  <2>2. Len(inputs) * request.inputFee + Cardinality(outputs) * request.outputFee \in Nat
    BY <2>1, CostsStep
  <2> QED BY <2>2 DEF Costs
<1> QED BY <1>1, <1>2, <1>3, <1>4 DEF Result

(* The two steps of the counter offer keep the account of every type.      *)
LEMMA AccountAddInput ==
  ASSUME RequestInv, PickedInv, ChangeInv, AccountInv, NEW c \in coins, AddInput(c),
         UNCHANGED request, \A t \in Types : imbalance[t] = Result(t)
  PROVE  /\ imbalance' \in [Types -> Int]
         /\ \A t \in Types : imbalance'[t] = Result(t)'
         /\ \A t \in Types : t # TypeOf[c] /\ t # request.feeType => imbalance'[t] = imbalance[t]
<1> DEFINE i == request.inputFee
           fee1 == request.feeType
           v == Value[c]
           d == TypeOf[c]
           raised == [imbalance EXCEPT ![d] = @ + v]
<1>1. i \in Nat /\ v \in Nat /\ d \in Types /\ imbalance \in [Types -> Int]
      /\ fee1 \in Types \cup {NoFee} /\ \A t \in Types : t # NoFee
  BY BalancingAssumption, RequestFacts DEF PickedInv, AccountInv
<1>2. raised \in [Types -> Int] /\ \A t \in Types : raised[t] = imbalance[t] + (IF d = t THEN v ELSE 0)
  BY <1>1
<1>3. imbalance' = Charge(raised, i)
  BY DEF AddInput
<1> HIDE DEF raised
<1>4. /\ imbalance' \in [Types -> Int]
      /\ \A t \in Types : imbalance'[t] = raised[t] - (IF t = fee1 THEN i ELSE 0)
  <2>1. CASE fee1 = NoFee
    <3>1. imbalance' = raised
      BY <1>3, <2>1 DEF Charge
    <3> QED BY <1>1, <1>2, <2>1, <3>1
  <2>2. CASE fee1 # NoFee
    <3>1. imbalance' = [raised EXCEPT ![fee1] = @ - i]
      BY <1>3, <2>2 DEF Charge
    <3> HIDE DEF i, fee1, v, d
    <3> QED BY <1>1, <1>2, <2>2, <3>1
  <2> QED BY <2>1, <2>2
<1>5. ASSUME NEW t \in Types
      PROVE  imbalance'[t] = Result(t)'
  <2>1. ValueOf(InputsOf(t))' = ValueOf(InputsOf(t)) + (IF d = t THEN v ELSE 0)
        /\ Len(inputs') = Len(inputs) + 1
    BY InputAdded
  <2>2. OutputsOf(t)' = OutputsOf(t) /\ Cardinality(outputs)' = Cardinality(outputs)
    BY DEF AddInput, OutputsOf
  <2>3. Costs(t)' = Costs(t) + (IF t = fee1 THEN i ELSE 0)
    <3>1. Len(inputs) \in Nat /\ Cardinality(outputs) \in Nat
      BY FS_CardinalityType DEF PickedInv, ChangeInv
    <3>2. (Len(inputs) + 1) * request.inputFee + Cardinality(outputs) * request.outputFee
            = Len(inputs) * request.inputFee + Cardinality(outputs) * request.outputFee + request.inputFee
      BY <3>1, CostsStep
    <3>3. CASE t = fee1
      <4>1. Costs(t)' = (Len(inputs) + 1) * request.inputFee + Cardinality(outputs) * request.outputFee
        BY <2>1, <2>2, <3>3 DEF Costs
      <4>2. Costs(t) = Len(inputs) * request.inputFee + Cardinality(outputs) * request.outputFee
        BY <3>3 DEF Costs
      <4> QED BY <3>2, <3>3, <4>1, <4>2
    <3>4. CASE t # fee1
      <4>1. Costs(t)' = 0 /\ Costs(t) = 0
        BY <3>4 DEF Costs
      <4> QED BY <3>4, <4>1
    <3> QED BY <3>3, <3>4
  <2>4. Result(t)' = request.initial[t] + ValueOf(InputsOf(t))' - OutputsOf(t)' - Costs(t)'
    BY DEF Result
  <2>5. imbalance'[t] = imbalance[t] + (IF d = t THEN v ELSE 0) - (IF t = fee1 THEN i ELSE 0)
    <3>1. imbalance'[t] = raised[t] - (IF t = fee1 THEN i ELSE 0)
      BY <1>4
    <3>2. raised[t] = imbalance[t] + (IF d = t THEN v ELSE 0)
      BY <1>2
    <3>3. raised[t] \in Int /\ imbalance[t] \in Int /\ i \in Nat /\ v \in Nat
      BY <1>1, <1>2
    <3> HIDE DEF i, fee1, v, d
    <3> QED BY <3>1, <3>2, <3>3
  <2> DEFINE a == ValueOf(InputsOf(t))
             b == OutputsOf(t)
             e == Costs(t)
             z == request.initial[t]
  <2>6. z \in Int /\ a \in Nat /\ b \in Nat /\ e \in Nat /\ imbalance[t] = z + a - b - e
    BY ResultType
  <2>7. Result(t)' = z + (a + (IF d = t THEN v ELSE 0)) - b - (e + (IF t = fee1 THEN i ELSE 0))
    BY <2>1, <2>2, <2>3, <2>4
  <2> HIDE DEF a, b, e, z, i, fee1, v, d
  <2> QED BY <1>1, <2>5, <2>6, <2>7
<1>6. ASSUME NEW t \in Types, t # d, t # fee1
      PROVE  imbalance'[t] = imbalance[t]
  BY <1>1, <1>2, <1>4, <1>6
<1> QED BY <1>4, <1>5, <1>6

LEMMA AddOutputEffect ==
  ASSUME RequestInv, ChangeInv, NEW t \in Types, imbalance \in [Types -> Int],
         Unbalanced(t), ShouldAddOutput(t), AddOutput(t)
  PROVE  \E o \in [type : Types, value : Nat] :
           /\ o.type = t /\ o \notin outputs /\ outputs' = outputs \cup {o}
           /\ o.value = imbalance[t] - request.target[t]
                          - (IF t = request.feeType THEN request.outputFee ELSE 0)
           /\ imbalance' \in [Types -> Int] /\ imbalance'[t] = request.target[t]
           /\ \A u \in Types \ {t} :
                imbalance'[u] = imbalance[u] - (IF u = request.feeType THEN request.outputFee ELSE 0)
<1> DEFINE p == request.outputFee
           fee1 == request.feeType
           w == request.target[t]
           b == imbalance[t]
           pays == IF t = fee1 THEN p ELSE 0
           o == [type |-> t, value |-> b - w - pays]
           settled == [imbalance EXCEPT ![t] = w]
<1>1. p \in Nat /\ w \in Int /\ b \in Int /\ fee1 \in Types \cup {NoFee} /\ \A u \in Types : u # NoFee
  BY RequestFacts
<1>2. b - w - pays \in Nat
  <2>1. IF t = fee1 THEN b >= w + p ELSE b > w
    BY DEF ShouldAddOutput
  <2> HIDE DEF p, fee1, w, b
  <2> QED BY <1>1, <2>1
<1>3. o \in [type : Types, value : Nat] /\ o.type = t
  BY <1>2
<1>4. o \notin outputs
  BY DEF ChangeInv
<1>5. outputs' = outputs \cup {o}
  BY DEF AddOutput
<1>6. settled \in [Types -> Int] /\ settled[t] = w /\ \A u \in Types \ {t} : settled[u] = imbalance[u]
  BY <1>1
<1>7. imbalance' = IF t = fee1 \/ fee1 = NoFee THEN settled ELSE [settled EXCEPT ![fee1] = @ - p]
  BY DEF AddOutput, Charge
<1> HIDE DEF settled, p, fee1, w
<1>8. /\ imbalance' \in [Types -> Int] /\ imbalance'[t] = w
      /\ \A u \in Types \ {t} : imbalance'[u] = imbalance[u] - (IF u = fee1 THEN p ELSE 0)
  <2>1. CASE t = fee1 \/ fee1 = NoFee
    <3>1. imbalance' = settled
      BY <1>7, <2>1
    <3>2. \A u \in Types \ {t} : u # fee1 /\ imbalance[u] \in Int
      BY <1>1, <2>1
    <3> QED BY <1>6, <3>1, <3>2
  <2>2. CASE t # fee1 /\ fee1 # NoFee
    <3>1. imbalance' = [settled EXCEPT ![fee1] = @ - p] /\ fee1 \in Types
      BY <1>1, <1>7, <2>2
    <3> QED BY <1>1, <1>6, <2>2, <3>1
  <2> QED BY <2>1, <2>2
<1>9. o.value = b - w - pays
  OBVIOUS
<1> HIDE DEF o
<1> QED BY <1>3, <1>4, <1>5, <1>8, <1>9 DEF p, fee1, w

LEMMA AccountAddOutput ==
  ASSUME RequestInv, PickedInv, ChangeInv, AccountInv, NEW t \in Types,
         Unbalanced(t), ShouldAddOutput(t), AddOutput(t), UNCHANGED request,
         \A u \in Types : imbalance[u] = Result(u)
  PROVE  \A u \in Types : imbalance'[u] = Result(u)'
<1>1. PICK o \in [type : Types, value : Nat] :
           /\ o.type = t /\ o \notin outputs /\ outputs' = outputs \cup {o}
           /\ o.value = imbalance[t] - request.target[t]
                          - (IF t = request.feeType THEN request.outputFee ELSE 0)
           /\ imbalance' \in [Types -> Int] /\ imbalance'[t] = request.target[t]
           /\ \A u \in Types \ {t} :
                imbalance'[u] = imbalance[u] - (IF u = request.feeType THEN request.outputFee ELSE 0)
  BY AddOutputEffect DEF AccountInv
<1>2. /\ Cardinality(outputs') = Cardinality(outputs) + 1 /\ Cardinality(outputs) \in Nat
      /\ \A u : OutputsOf(u)' = OutputsOf(u) + (IF o.type = u THEN o.value ELSE 0)
  BY <1>1, OutputAdded DEF ChangeInv
<1>3. inputs' = inputs
  BY DEF AddOutput
<1> SUFFICES ASSUME NEW u \in Types PROVE imbalance'[u] = Result(u)'
  OBVIOUS
<1> DEFINE p == request.outputFee
           fee1 == request.feeType
           w == request.target[t]
           a == ValueOf(InputsOf(u))
           b == OutputsOf(u)
           e == Costs(u)
           z == request.initial[u]
<1>4. p \in Nat /\ w \in Int /\ imbalance[t] \in Int /\ imbalance[u] \in Int
  BY RequestFacts DEF AccountInv
<1>5. z \in Int /\ a \in Nat /\ b \in Nat /\ e \in Nat /\ imbalance[u] = z + a - b - e
  BY ResultType
<1>6. Costs(u)' = e + (IF u = fee1 THEN p ELSE 0)
  <2>1. Len(inputs) \in Nat
    BY DEF PickedInv
  <2>2. Len(inputs) * request.inputFee + (Cardinality(outputs) + 1) * request.outputFee
          = Len(inputs) * request.inputFee + Cardinality(outputs) * request.outputFee + request.outputFee
    BY <1>2, <2>1, CostsStep
  <2>3. CASE u = fee1
    <3>1. Costs(u)' = Len(inputs) * request.inputFee + (Cardinality(outputs) + 1) * request.outputFee
      BY <1>2, <1>3, <2>3 DEF Costs
    <3>2. Costs(u) = Len(inputs) * request.inputFee + Cardinality(outputs) * request.outputFee
      BY <2>3 DEF Costs
    <3> QED BY <2>2, <2>3, <3>1, <3>2
  <2>4. CASE u # fee1
    <3>1. Costs(u)' = 0 /\ Costs(u) = 0
      BY <2>4 DEF Costs
    <3> QED BY <2>4, <3>1, <1>5
  <2> QED BY <2>3, <2>4
<1>7. ValueOf(InputsOf(u))' = a
  BY <1>3 DEF ValueOf, InputsOf
<1>8. Result(u)' = z + ValueOf(InputsOf(u))' - OutputsOf(u)' - Costs(u)'
  BY DEF Result
<1>9. OutputsOf(u)' = b + (IF u = t THEN imbalance[t] - w - (IF t = fee1 THEN p ELSE 0) ELSE 0)
  <2>1. OutputsOf(u)' = b + (IF o.type = u THEN o.value ELSE 0)
    BY <1>2
  <2> QED BY <1>1, <2>1
<1>10. imbalance'[u] = IF u = t THEN w ELSE imbalance[u] - (IF u = fee1 THEN p ELSE 0)
  <2>1. CASE u = t
    BY <1>1, <2>1
  <2>2. CASE u # t
    BY <1>1, <2>2
  <2> QED BY <2>1, <2>2
<1>11. Result(u)' = z + a - (b + (IF u = t THEN imbalance[t] - w - (IF t = fee1 THEN p ELSE 0) ELSE 0))
                     - (e + (IF u = fee1 THEN p ELSE 0))
  BY <1>6, <1>7, <1>8, <1>9
<1> HIDE DEF p, fee1, w, a, b, e, z
<1> QED BY <1>4, <1>5, <1>10, <1>11

(* A type with coins to pick has a smallest one.                           *)
LEMMA SmallestCoin ==
  ASSUME RequestInv, PickedInv, NEW t \in Types, Candidates(t) = {}
  PROVE  \A c \in coins : ~(TypeOf[c] = t /\ (request.rounds => Value[c] > 0))
<1> DEFINE S == {c \in coins : TypeOf[c] = t /\ (request.rounds => Value[c] > 0)}
           V == {n \in Nat : \E c \in S : n = Value[c]}
<1> SUFFICES ASSUME S # {} PROVE FALSE
  OBVIOUS
<1>1. \A c \in S : Value[c] \in Nat
  BY BalancingAssumption DEF PickedInv
<1>2. V # {} /\ V \subseteq Nat
  BY <1>1
<1>3. PICK n \in V : \A m \in V : n <= m
  BY <1>2, LeastExists
<1>4. PICK c \in S : n = Value[c]
  BY <1>3
<1>5. \A e \in S : Value[c] <= Value[e]
  BY <1>1, <1>3, <1>4
<1> QED BY <1>4, <1>5 DEF Candidates

(* What is left of a fee after the coins before are drained is paid by the *)
(* coin, as far as it goes; together they pay the whole fee.               *)
LEMMA Distributed ==
  ASSUME PickedInv, NEW amount \in Nat, amount <= ValueOf(Range(inputs))
  PROVE  LET s == Distribute(amount)
         IN  /\ DOMAIN s = DOMAIN inputs
             /\ \A n \in DOMAIN s : s[n] \in Nat /\ s[n] <= Value[inputs[n]]
             /\ SumOver(s, DOMAIN s) = amount
<1> DEFINE s == Distribute(amount)
           k == Len(inputs)
           P(n) == ValuesBefore(n + 1)
           Least(a, b) == IF a <= b THEN a ELSE b
<1>1. inputs \in Seq(Coins) /\ k \in Nat /\ DOMAIN inputs = 1..k /\ \A n \in 1..k : inputs[n] \in Coins
  BY DEF PickedInv
<1>2. \A n \in 1..k : Value[inputs[n]] \in Nat
  BY <1>1, BalancingAssumption
<1> DEFINE Drained(n) == {inputs[m] : m \in 1..n}
<1>3. ASSUME NEW n \in 0..k
      PROVE  P(n) = ValueOf(Drained(n)) /\ IsFiniteSet(Drained(n)) /\ Drained(n) \subseteq Coins /\ P(n) \in Nat
  <2>1. (n + 1) - 1 = n
    OBVIOUS
  <2>2. P(n) = ValueOf(Drained(n))
    BY <2>1 DEF ValuesBefore
  <2>3. Drained(n) \in SUBSET Range(inputs) /\ Drained(n) \subseteq Coins
    BY <1>1 DEF Range
  <2>4. IsFiniteSet(Range(inputs))
    BY <1>1, PickedFinite
  <2>5. IsFiniteSet(Drained(n))
    BY <2>3, <2>4, FS_Subset
  <2>6. ValueOf(Drained(n)) \in Nat
    BY <1>1, <2>3, <2>5, PickedFinite
  <2> QED BY <2>2, <2>3, <2>5, <2>6
<1>4. ASSUME NEW n \in 1..k
      PROVE  P(n) = P(n - 1) + Value[inputs[n]]
  <2>1. n - 1 \in 0..k /\ n \in 0..k
    BY <1>1
  <2>2. Drained(n) = Drained(n - 1) \cup {inputs[n]}
    <3>1. 1..n = (1..(n - 1)) \cup {n}
      BY <1>1
    <3> QED BY <3>1
  <2>3. inputs[n] \notin Drained(n - 1)
    BY <1>1 DEF PickedInv, SpendsDistinctCoins
  <2>4. \A c \in Drained(n - 1) \cup {inputs[n]} : Value[c] \in Nat
    BY <1>1, <1>3, <2>1, BalancingAssumption
  <2> HIDE DEF Drained, P
  <2>5. ValueOf(Drained(n - 1) \cup {inputs[n]}) = ValueOf(Drained(n - 1)) + Value[inputs[n]]
    BY <1>3, <2>1, <2>3, <2>4, SumAdd DEF ValueOf
  <2> QED BY <1>3, <2>1, <2>2, <2>5
<1>5. P(0) = 0 /\ P(k) = ValueOf(Range(inputs))
  <2>1. Drained(0) = {} /\ Drained(k) = Range(inputs)
    BY <1>1 DEF Range
  <2>2. 0 \in 0..k /\ k \in 0..k
    BY <1>1
  <2>3. ValueOf({}) = 0
    BY SumEmpty DEF ValueOf
  <2> HIDE DEF P, Drained
  <2> QED BY <1>3, <2>1, <2>2, <2>3
<1>6. ASSUME NEW n \in 1..k
      PROVE  s[n] = Least(Value[inputs[n]], IF amount > P(n - 1) THEN amount - P(n - 1) ELSE 0)
  <2>1. (n - 1) + 1 = n
    BY <1>1
  <2>2. P(n - 1) = ValuesBefore(n)
    BY <2>1
  <2> DEFINE remaining == IF amount > ValuesBefore(n) THEN amount - ValuesBefore(n) ELSE 0
  <2>3. s[n] = IF remaining >= Value[inputs[n]] THEN Value[inputs[n]] ELSE remaining
    BY <1>1 DEF Distribute
  <2>4. n - 1 \in 0..k
    BY <1>1
  <2>5. P(n - 1) \in Nat /\ Value[inputs[n]] \in Nat
    BY <1>2, <1>3, <2>4
  <2>6. remaining \in Nat
    BY <2>2, <2>5
  <2> HIDE DEF P, s
  <2> QED BY <2>2, <2>3, <2>5, <2>6
<1>7. DOMAIN s = 1..k
  BY <1>1 DEF Distribute
<1> HIDE DEF s, P, Drained
<1>8. ASSUME NEW n \in 1..k
      PROVE  s[n] \in Nat /\ s[n] <= Value[inputs[n]]
             /\ Least(amount, P(n)) = Least(amount, P(n - 1)) + s[n]
  <2>1. n - 1 \in 0..k /\ n \in 0..k
    BY <1>1
  <2>2. P(n) \in Nat /\ P(n - 1) \in Nat /\ Value[inputs[n]] \in Nat
    BY <1>2, <1>3, <2>1
  <2> QED BY <1>4, <1>6, <2>2
<1>9. \A n \in 0..k : SumOver(s, 1..n) = Least(amount, P(n))
  <2> DEFINE T == {n \in 0..k : SumOver(s, 1..n) # Least(amount, P(n))}
  <2> SUFFICES ASSUME T # {} PROVE FALSE
    OBVIOUS
  <2>1. T \subseteq Nat
    BY <1>1
  <2>2. PICK n \in T : \A m \in T : n <= m
    BY <2>1, LeastExists
  <2>3. CASE n = 0
    <3>1. 1..n = {}
      BY <2>3
    <3> QED BY <1>5, <2>2, <2>3, <3>1, SumEmpty
  <2>4. CASE n # 0
    <3>1. n \in 1..k /\ n - 1 \in 0..k /\ ~(n <= n - 1)
      BY <1>1, <2>2, <2>4
    <3>2. SumOver(s, 1..(n - 1)) = Least(amount, P(n - 1))
      BY <2>2, <3>1
    <3>3. 1..n = (1..(n - 1)) \cup {n} /\ n \notin 1..(n - 1)
      BY <1>1, <3>1
    <3>6. IsFiniteSet(1..(n - 1))
      BY <1>1, <3>1, FS_Interval
    <3>4. \A m \in (1..(n - 1)) \cup {n} : s[m] \in Nat
      BY <1>1, <1>8, <3>1
    <3>5. SumOver(s, (1..(n - 1)) \cup {n}) = SumOver(s, 1..(n - 1)) + s[n]
      BY <3>3, <3>4, <3>6, SumAdd
    <3> HIDE DEF Least
    <3> QED BY <1>8, <2>2, <3>1, <3>2, <3>3, <3>5
  <2> QED BY <2>3, <2>4
<1>10. SumOver(s, 1..k) = amount
  <2>1. k \in 0..k /\ P(k) \in Nat
    BY <1>1, <1>3
  <2>2. SumOver(s, 1..k) = Least(amount, P(k))
    BY <1>9, <2>1
  <2> QED BY <1>5, <2>1, <2>2
<1> QED BY <1>1, <1>7, <1>8, <1>10 DEF s

(* Once change in the fee token was added, nothing is left to balance.     *)
LEMMA BalancingMoves ==
  ASSUME RequestInv, ChangeInv, NEW t \in Types, Unbalanced(t),
         \/ t \in NonNative
         \/ NonNative = {} /\ t = request.feeType
  PROVE  \A o \in outputs : o.type # t /\ o.type # request.feeType
BY DEF ChangeInv

LEMMA ChangeAddOutput ==
  ASSUME RequestInv, PickedInv, ChangeInv, AccountInv, NEW t \in Types, Unbalanced(t),
         t \in NonNative \/ (NonNative = {} /\ t = request.feeType),
         ShouldAddOutput(t), AddOutput(t), UNCHANGED request
  PROVE  ChangeInv'
<1>1. PICK o \in [type : Types, value : Nat] :
           /\ o.type = t /\ o \notin outputs /\ outputs' = outputs \cup {o}
           /\ imbalance' \in [Types -> Int] /\ imbalance'[t] = request.target[t]
           /\ \A u \in Types \ {t} :
                imbalance'[u] = imbalance[u] - (IF u = request.feeType THEN request.outputFee ELSE 0)
  BY AddOutputEffect DEF AccountInv
<1>2. outputs' \subseteq [type : Types, value : Nat] /\ IsFiniteSet(outputs')
  BY <1>1, OutputAdded DEF ChangeInv
<1>3. \A u \in Types \ {t} : u # request.feeType => imbalance'[u] = imbalance[u]
  <2>1. \A u \in Types : imbalance[u] \in Int
    BY DEF AccountInv
  <2> QED BY <1>1, <2>1
<1>4. ASSUME NEW p \in outputs'
      PROVE  ~Unbalanced(p.type)' /\ (p.type = request'.feeType => NonNative' = {})
  <2>1. CASE p = o
    <3>1. ~Unbalanced(p.type)'
      BY <1>1, <2>1 DEF Unbalanced
    <3>2. CASE t = request.feeType
      <4>1. NonNative = {}
        BY <3>2 DEF NonNative
      <4>2. NonNative' = {}
        BY <1>3, <3>2, <4>1 DEF NonNative, Unbalanced
      <4> QED BY <3>1, <4>2
    <3> QED BY <1>1, <2>1, <3>1, <3>2
  <2>2. CASE p # o
    <3>1. p \in outputs /\ p.type \in Types
      BY <1>1, <2>2 DEF ChangeInv
    <3>2. p.type # t /\ p.type # request.feeType
      BY <3>1, BalancingMoves
    <3>3. ~Unbalanced(p.type)
      BY <3>1 DEF ChangeInv
    <3>4. ~Unbalanced(p.type)'
      BY <1>3, <3>1, <3>2, <3>3 DEF Unbalanced
    <3> QED BY <3>2, <3>4
  <2> QED BY <2>1, <2>2
<1> QED BY <1>2, <1>4 DEF ChangeInv

(* A second round finds a surplus of the fee token and nothing else to do. *)
LEMMA SecondRound ==
  ASSUME RequestInv, request.rounds, NonNative = {}, imbalance \in [Types -> Int],
         imbalance[request.feeType] >= 0
  PROVE  ShouldAddOutput(request.feeType)
<1>1. request.target[request.feeType] = 0 /\ request.outputFee = 0 /\ request.feeType \in Types
  BY RequestFacts
<1> QED BY <1>1 DEF ShouldAddOutput

(* One pass of a loop keeps the books.                                     *)
LEMMA BooksDoBalance ==
  ASSUME BalancingInv, NEW t \in Types, Unbalanced(t),
         t \in NonNative \/ (NonNative = {} /\ t = request.feeType),
         DoBalance(t), UNCHANGED request, outcome = "balancing"
  PROVE  ChangeInv' /\ AccountInv' /\ OfferInv' /\ OutcomeInv' /\ RefusedOnlyWhenShort'
         /\ outcome' \in {"balancing", "insufficient"}
<1> USE DEF BalancingInv
<1>1. CASE ShouldAddOutput(t) /\ AddOutput(t) /\ UNCHANGED outcome
  <2>1. ChangeInv'
    BY <1>1, ChangeAddOutput
  <2>2. PICK o \in [type : Types, value : Nat] :
           /\ imbalance' \in [Types -> Int] /\ imbalance'[t] = request.target[t]
           /\ \A u \in Types \ {t} :
                imbalance'[u] = imbalance[u] - (IF u = request.feeType THEN request.outputFee ELSE 0)
    BY <1>1, AddOutputEffect DEF AccountInv
  <2>3. AccountInv'
    <3>1. CASE \A u \in Types : imbalance[u] = Result(u)
      <4>1. \A u \in Types : imbalance'[u] = Result(u)'
        BY <1>1, <3>1, AccountAddOutput
      <4> QED BY <2>2, <4>1 DEF AccountInv
    <3>2. CASE request.rounds /\ NonNative = {} /\ imbalance[request.feeType] >= 0
      <4>1. t = request.feeType /\ request.target[t] = 0
        BY <3>2, RequestFacts
      <4>2. imbalance'[t] >= 0
        BY <2>2, <4>1
      <4>3. \A u \in Types \ {t} : imbalance'[u] = imbalance[u]
        <5>1. \A u \in Types : imbalance[u] \in Int
          BY DEF AccountInv
        <5> QED BY <2>2, <4>1, <5>1
      <4>4. NonNative' = {}
        BY <3>2, <4>1, <4>3 DEF NonNative, Unbalanced
      <4> QED BY <2>2, <3>2, <4>1, <4>2, <4>4 DEF AccountInv
    <3> QED BY <3>1, <3>2 DEF AccountInv
  <2>4. OfferInv' /\ OutcomeInv' /\ RefusedOnlyWhenShort'
    BY <1>1 DEF AddOutput, OfferInv, OutcomeInv, RefusedOnlyWhenShort
  <2> QED BY <1>1, <2>1, <2>3, <2>4
<1>2. CASE ~ShouldAddOutput(t) /\ (\E c \in Candidates(t) : AddInput(c)) /\ UNCHANGED outcome
  <2>1. PICK c \in Candidates(t) : AddInput(c)
    BY <1>2
  <2>2. c \in coins /\ c \in Coins /\ TypeOf[c] = t /\ (request.rounds => Value[c] > 0)
    BY <2>1 DEF Candidates, PickedInv
  <2>3. \A u \in Types : imbalance[u] = Result(u)
    <3>1. CASE request.rounds /\ NonNative = {} /\ imbalance[request.feeType] >= 0
      BY <1>2, <3>1, SecondRound DEF AccountInv
    <3> QED BY <3>1 DEF AccountInv
  <2>4. /\ imbalance' \in [Types -> Int] /\ \A u \in Types : imbalance'[u] = Result(u)'
        /\ \A u \in Types : u # t /\ u # request.feeType => imbalance'[u] = imbalance[u]
    BY <2>1, <2>2, <2>3, AccountAddInput
  <2>5. AccountInv'
    BY <2>4 DEF AccountInv
  <2>6. ChangeInv'
    <3>1. \A o \in outputs : o.type # t /\ o.type # request.feeType /\ o.type \in Types /\ ~Unbalanced(o.type)
      BY BalancingMoves DEF ChangeInv
    <3>2. outputs' = outputs
      BY <2>1 DEF AddInput
    <3>3. \A o \in outputs : ~Unbalanced(o.type)'
      BY <2>4, <3>1 DEF Unbalanced
    <3> QED BY <3>1, <3>2, <3>3 DEF ChangeInv
  <2>7. OfferInv'
    <3>1. Range(inputs') = Range(inputs) \cup {c}
      BY <2>1, <2>2, InputAdded
    <3>2. ~request.byValue => Range(inputs)' = Coins \ coins'
      <4>1. ~request.byValue => coins' = coins \ {c}
        BY <2>1 DEF AddInput, Same
      <4> QED BY <2>2, <3>1, <4>1 DEF OfferInv, PickedInv
    <3>3. request.rounds => \A n \in DOMAIN inputs' : Value[inputs'[n]] > 0
      <4>1. \A n \in DOMAIN inputs : inputs'[n] = inputs[n]
        BY <2>1 DEF AddInput, PickedInv
      <4>2. \A n \in DOMAIN inputs' : n \notin DOMAIN inputs => inputs'[n] = c
        BY <2>1, <2>2 DEF AddInput, PickedInv
      <4> QED BY <2>2, <4>1, <4>2 DEF OfferInv
    <3> QED BY <3>2, <3>3 DEF OfferInv
  <2>8. OutcomeInv' /\ RefusedOnlyWhenShort'
    BY <1>2 DEF OutcomeInv, RefusedOnlyWhenShort
  <2> QED BY <1>2, <2>5, <2>6, <2>7, <2>8
<1>3. CASE ~ShouldAddOutput(t) /\ Candidates(t) = {} /\ outcome' = "insufficient" /\ UNCHANGED offerVars
  <2>1. imbalance' = imbalance /\ outputs' = outputs /\ inputs' = inputs /\ coins' = coins
    BY <1>3 DEF offerVars
  <2>2. \A u \in Types : imbalance[u] = Result(u)
    <3>1. CASE request.rounds /\ NonNative = {} /\ imbalance[request.feeType] >= 0
      BY <1>3, <3>1, SecondRound DEF AccountInv
    <3> QED BY <3>1 DEF AccountInv
  <2>3. \A u : InputsOf(u)' = InputsOf(u) /\ Result(u)' = Result(u)
    BY <2>1 DEF InputsOf, Result, ValueOf, OutputsOf, Costs
  <2>4. ChangeInv' /\ AccountInv' /\ OfferInv' /\ OutcomeInv'
    <3>1. NonNative' = NonNative /\ \A u : Unbalanced(u)' = Unbalanced(u)
      BY <2>1 DEF NonNative, Unbalanced
    <3> QED BY <1>3, <2>1, <2>3, <3>1 DEF ChangeInv, AccountInv, OfferInv, OutcomeInv
  <2>5. RefusedOnlyWhenShort'
    <3> SUFFICES ASSUME ~request.byValue
                 PROVE  /\ InputsOf(t) = {c \in Coins : TypeOf[c] = t /\ (request.rounds => Value[c] > 0)}
                        /\ Result(t) < request.target[t] + (IF t = request.feeType THEN request.outputFee ELSE 0)
      BY <2>3 DEF RefusedOnlyWhenShort
    <3>1. \A c \in coins : ~(TypeOf[c] = t /\ (request.rounds => Value[c] > 0))
      BY <1>3, SmallestCoin
    <3>2. Range(inputs) = Coins \ coins
      BY DEF OfferInv
    <3>3. request.rounds => \A c \in Range(inputs) : Value[c] > 0
      BY DEF OfferInv, Range
    <3>4. InputsOf(t) = {c \in Coins : TypeOf[c] = t /\ (request.rounds => Value[c] > 0)}
      BY <3>1, <3>2, <3>3 DEF InputsOf
    <3>5. imbalance[t] \in Int /\ request.target[t] \in Int /\ request.outputFee \in Nat
      BY RequestFacts DEF AccountInv
    <3>6. imbalance[t] < request.target[t] + (IF t = request.feeType THEN request.outputFee ELSE 0)
      <4>1. imbalance[t] # request.target[t]
        BY DEF Unbalanced
      <4> QED BY <1>3, <3>5, <4>1 DEF ShouldAddOutput
    <3> QED BY <2>2, <3>4, <3>6
  <2> QED BY <1>3, <2>4, <2>5
<1> QED BY <1>1, <1>2, <1>3 DEF DoBalance

(* However a balancing ends, its outcome is right.                         *)
LEMMA BooksNext == BalancingInv /\ [Next]_vars => BalancingInv'
<1> SUFFICES ASSUME BalancingInv, [Next]_vars PROVE BalancingInv'
  OBVIOUS
<1> USE DEF BalancingInv
<1>1. PickedInv'
  BY PickedNext
<1>2. ASSUME NEW t \in Types, Unbalanced(t), t \in NonNative \/ (NonNative = {} /\ t = request.feeType),
             DoBalance(t), UNCHANGED <<request, fee, spends>>, outcome = "balancing"
      PROVE  BalancingInv'
  <2>1. /\ ChangeInv' /\ AccountInv' /\ OfferInv' /\ OutcomeInv' /\ RefusedOnlyWhenShort'
        /\ outcome' \in {"balancing", "insufficient"}
    BY <1>2, BooksDoBalance
  <2>2. Settles' /\ FeeCovered'
    BY <2>1 DEF Settles, FeeCovered
  <2>3. RequestInv'
    BY <1>2 DEF RequestInv
  <2> QED BY <1>1, <2>1, <2>2, <2>3 DEF OutcomeIsRight
<1>3. CASE BalanceNonNative
  <2>1. PICK t \in NonNative : DoBalance(t)
    BY <1>3 DEF BalanceNonNative
  <2>2. t \in Types /\ Unbalanced(t)
    BY <2>1 DEF NonNative
  <2> QED BY <1>2, <1>3, <2>1, <2>2 DEF BalanceNonNative
<1>4. CASE BalanceNative
  <2>1. request.feeType \in Types
    BY <1>4, RequestFacts DEF BalanceNative
  <2> QED BY <1>2, <1>4, <2>1 DEF BalanceNative
<1>5. ASSUME UNCHANGED offerVars, UNCHANGED request
      PROVE  /\ inputs' = inputs /\ DryRunFee' = DryRunFee
             /\ \A u : Result(u)' = Result(u) /\ InputsOf(u)' = InputsOf(u)
             /\ RequestInv' /\ ChangeInv' /\ AccountInv' /\ OfferInv'
  <2>1. imbalance' = imbalance /\ outputs' = outputs /\ inputs' = inputs /\ coins' = coins /\ request' = request
    BY <1>5 DEF offerVars
  <2>2. \A u : InputsOf(u)' = InputsOf(u) /\ Result(u)' = Result(u) /\ Unbalanced(u)' = Unbalanced(u)
    BY <2>1 DEF InputsOf, Result, ValueOf, OutputsOf, Costs, Unbalanced
  <2>3. NonNative' = NonNative
    BY <2>1, <2>2 DEF NonNative
  <2>4. RequestInv' /\ ChangeInv' /\ AccountInv' /\ OfferInv' /\ DryRunFee' = DryRunFee
    BY <2>1, <2>2, <2>3 DEF RequestInv, ChangeInv, AccountInv, OfferInv, DryRunFee
  <2> QED BY <2>1, <2>2, <2>4
<1>6. CASE GetBalanceRecipe
  <2>1. UNCHANGED offerVars /\ request' = request /\ outcome' = IF request.rounds THEN "recipe" ELSE "done"
    BY <1>6 DEF GetBalanceRecipe
  <2>2. OutcomeInv' /\ FeeCovered' /\ RefusedOnlyWhenShort'
    BY <2>1, RequestFacts DEF OutcomeInv, FeeCovered, RefusedOnlyWhenShort
  <2>3. ASSUME ~request.rounds, NEW t \in Types
        PROVE  Result(t)' = request'.target[t]
    <3>1. ~Unbalanced(t)
      <4>1. t = request.feeType => request.feeType # NoFee
        BY RequestFacts
      <4>2. NonNative = {} /\ (request.feeType # NoFee => ~Unbalanced(request.feeType))
        BY <1>6 DEF GetBalanceRecipe
      <4>3. CASE t = request.feeType
        BY <4>1, <4>2, <4>3
      <4>4. CASE t # request.feeType
        BY <4>2, <4>4 DEF NonNative
      <4> QED BY <4>3, <4>4
    <3>2. imbalance[t] = Result(t)
      BY <2>3 DEF AccountInv
    <3>3. Result(t)' = Result(t)
      BY <1>5, <2>1
    <3> QED BY <2>1, <3>1, <3>2, <3>3 DEF Unbalanced
  <2>4. Settles'
    BY <2>1, <2>3 DEF Settles
  <2> QED BY <1>1, <1>5, <2>1, <2>2, <2>4 DEF OutcomeIsRight
<1>7. CASE ComputeBalancingRecipe
  <2>1. request.rounds /\ request' = request /\ outcome' \in {"done", "balancing"} /\ fee' = DryRunFee
    BY <1>7 DEF OutcomeInv, ComputeBalancingRecipe
  <2>2. OutcomeInv' /\ Settles' /\ RefusedOnlyWhenShort' /\ RequestInv'
    BY <2>1 DEF OutcomeInv, Settles, RefusedOnlyWhenShort, RequestInv
  <2>3. DryRunFee \in Nat
    <3>1. Len(inputs) \in Nat /\ request.baseFee \in Nat /\ request.spendFee \in Nat
      BY RequestFacts DEF PickedInv
    <3> QED BY <3>1 DEF DryRunFee
  <2>4. CASE /\ DryRunFee <= ValueOf(Range(inputs))
             /\ outcome' = "done" /\ spends' = Distribute(DryRunFee)
             /\ UNCHANGED offerVars
    <3>1. /\ DOMAIN spends' = DOMAIN inputs
          /\ \A n \in DOMAIN spends' : spends'[n] <= Value[inputs[n]]
          /\ SumOver(spends', DOMAIN spends') = DryRunFee
      BY <2>3, <2>4, Distributed
    <3>2. FeeCovered'
      BY <1>5, <2>1, <2>4, <3>1 DEF FeeCovered
    <3> QED BY <1>1, <1>5, <2>1, <2>2, <2>4, <3>2 DEF OutcomeIsRight
  <2>5. CASE /\ DryRunFee > ValueOf(Range(inputs))
             /\ outcome' = "balancing"
             /\ coins' = Coins /\ inputs' = <<>> /\ outputs' = {}
             /\ imbalance' = [Zero EXCEPT ![request.feeType] = DryRunFee]
    <3>1. FeeCovered'
      BY <2>5 DEF FeeCovered
    <3>2. ChangeInv'
      BY <2>5, FS_EmptySet DEF ChangeInv
    <3>3. OfferInv'
      <4>1. Range(inputs') = {} /\ DOMAIN inputs' = {}
        BY <2>5 DEF Range
      <4> QED BY <2>1, <2>5, <4>1 DEF OfferInv
    <3>4. AccountInv'
      <4>1. /\ imbalance' \in [Types -> Int] /\ imbalance'[request.feeType] = DryRunFee
            /\ \A t \in Types \ {request.feeType} : imbalance'[t] = 0
        BY <2>1, <2>3, <2>5, RequestFacts DEF Zero
      <4>2. NonNative' = {}
        BY <2>1, <4>1, RequestFacts DEF NonNative, Unbalanced
      <4> QED BY <2>1, <2>3, <4>1, <4>2 DEF AccountInv
    <3> QED BY <1>1, <2>2, <3>1, <3>2, <3>3, <3>4 DEF OutcomeIsRight
  <2> QED BY <1>7, <2>4, <2>5 DEF ComputeBalancingRecipe
<1>8. CASE UNCHANGED vars
  <2>1. UNCHANGED offerVars /\ request' = request /\ outcome' = outcome /\ fee' = fee /\ spends' = spends
    BY <1>8 DEF vars
  <2>2. inputs' = inputs /\ DryRunFee' = DryRunFee /\ \A u : Result(u)' = Result(u) /\ InputsOf(u)' = InputsOf(u)
    BY <1>5, <2>1
  <2>3. OutcomeInv' /\ Settles' /\ FeeCovered' /\ RefusedOnlyWhenShort'
    BY <2>1, <2>2 DEF OutcomeInv, OutcomeIsRight, Settles, FeeCovered, RefusedOnlyWhenShort
  <2> QED BY <1>1, <1>5, <2>1, <2>3 DEF OutcomeIsRight
<1> QED BY <1>3, <1>4, <1>6, <1>7, <1>8 DEF Next

LEMMA BooksInit == Init => BalancingInv
<1> SUFFICES ASSUME Init PROVE BalancingInv
  OBVIOUS
<1>1. request \in Requests /\ RequestInv /\ imbalance = request.initial /\ inputs = <<>> /\ outputs = {}
      /\ coins = Coins /\ outcome = "balancing"
  BY DEF Init, RequestInv
<1>2. PickedInv
  BY PickedInit
<1>3. ChangeInv
  BY <1>1, FS_EmptySet DEF ChangeInv
<1>4. Range(inputs) = {} /\ DOMAIN inputs = {} /\ Len(inputs) = 0
  BY <1>1 DEF Range
<1>5. OfferInv /\ OutcomeInv /\ OutcomeIsRight
  BY <1>1, <1>4 DEF OfferInv, OutcomeInv, OutcomeIsRight, Settles, FeeCovered, RefusedOnlyWhenShort
<1>6. ASSUME NEW t \in Types
      PROVE  imbalance[t] = Result(t)
  <2>1. InputsOf(t) = {} /\ {o \in outputs : o.type = t} = {}
    BY <1>1, <1>4 DEF InputsOf
  <2>2. ValueOf(InputsOf(t)) = 0
    BY <2>1, SumEmpty DEF ValueOf
  <2>3. OutputsOf(t) = 0
    BY <2>1, SumEmpty DEF OutputsOf
  <2>4. Costs(t) = 0
    <3>1. Cardinality(outputs) = 0
      BY <1>1, FS_EmptySet
    <3>2. request.inputFee \in Nat /\ request.outputFee \in Nat
      BY <1>1, RequestFacts
    <3>3. 0 * request.inputFee = 0 /\ 0 * request.outputFee = 0
      BY <3>2
    <3> QED BY <1>4, <3>1, <3>3 DEF Costs
  <2>5. request.initial[t] \in Int
    BY <1>1, RequestFacts
  <2> QED BY <1>1, <2>2, <2>3, <2>4, <2>5 DEF Result
<1>7. AccountInv
  BY <1>1, <1>6, RequestFacts DEF AccountInv
<1> QED BY <1>1, <1>2, <1>3, <1>5, <1>7 DEF BalancingInv

(* However a balancing ends, for any coins, requests and fees: a settled   *)
(* transaction is at its targets in every type, the spends of the dust     *)
(* wallet pay the fee of the transaction they are part of and none more    *)
(* than its coin is worth, and only a lack of coins is refused.            *)
THEOREM BalancingsEndRight == Spec => []OutcomeIsRight
<1>1. BalancingInv => OutcomeIsRight
  BY DEF BalancingInv
<1> QED BY <1>1, BooksInit, BooksNext, PTL DEF Spec

-----------------------------------------------------------------------------
(* The bookings of the dust wallet                                         *)

DustTypes ==
  /\ clock \in Nat \ {0}
  /\ state \in [seq : [Nights -> Nat], mark : [Nights -> Nat]]
  /\ pendingDust \subseteq [night : Nights, seq : Nat]
  /\ txs \in [DTxs -> [stage : {"none", "built", "reverted"},
                       coins : SUBSET [night : Nights, seq : Nat], ctime : Nat]]
  /\ dustChain \in Seq(DTxs)
  /\ applied \in Nat
  /\ saved \in [state : [seq : [Nights -> Nat], mark : [Nights -> Nat]], applied : Nat]

(* The coin a Night backs now, and whether the wallet lists it as booked.  *)
IsBooked(n) == CoinOf(state, n) \in pendingDust

(* Without a mishap, the coins of a transaction in use are booked or spent *)
(* on the chain the wallet has seen, no two of them share one, and a coin  *)
(* has a mark that its transaction can lift if it is booked, and none if   *)
(* it is not.                                                              *)
OwnedCoins ==
  \A t \in Live : \A c \in txs[t].coins :
    \/ c \in pendingDust /\ state.mark[c.night] <= txs[t].ctime + Grace
    \/ c.seq < state.seq[c.night]
OwnersApart == \A t, u \in Live : t # u => txs[t].coins \cap txs[u].coins = {}
FreeUnmarked == \A n \in Nights : ~IsBooked(n) => state.mark[n] = 0

DustInv ==
  /\ DustTypes /\ PendingHasOwner
  /\ mishap = "none" => OwnedCoins /\ OwnersApart /\ FreeUnmarked

LEMMA CoinFacts ==
  ASSUME DustTypes
  PROVE  /\ \A n \in Nights : CoinOf(state, n).night = n /\ CoinOf(state, n).seq = state.seq[n]
         /\ \A c \in DustUtxos(state) : c.night \in Nights /\ c = CoinOf(state, c.night)
         /\ \A c \in [night : Nights, seq : Nat] :
              c.seq = state.seq[c.night] => c \in DustUtxos(state)
<1>1. \A n \in Nights : CoinOf(state, n).night = n /\ CoinOf(state, n).seq = state.seq[n]
  BY DEF CoinOf
<1>2. \A c \in DustUtxos(state) : c.night \in Nights /\ c = CoinOf(state, c.night)
  BY <1>1 DEF DustUtxos
<1>3. ASSUME NEW c \in [night : Nights, seq : Nat], c.seq = state.seq[c.night]
      PROVE  c \in DustUtxos(state)
  <2>1. c = CoinOf(state, c.night) /\ c.night \in Nights
    BY <1>3 DEF CoinOf
  <2> QED BY <2>1 DEF DustUtxos
<1> QED BY <1>1, <1>2, <1>3

LEMMA DustBookingsHold == DustInv => DustBookings
<1> SUFFICES ASSUME DustInv PROVE DustBookings
  OBVIOUS
<1>1. DustTypes /\ PendingHasOwner
  BY DEF DustInv
<1>2. ASSUME mishap = "none", NEW t \in Live, NEW c \in txs[t].coins, c \in Available PROVE FALSE
  <2>1. c \in DustUtxos(state) /\ c \notin pendingDust
    BY <1>2 DEF Available
  <2>2. c.seq = state.seq[c.night] /\ c.night \in Nights
    BY <1>1, <2>1, CoinFacts
  <2>3. c.seq < state.seq[c.night]
    BY <1>2, <2>1 DEF DustInv, OwnedCoins
  <2>4. state.seq[c.night] \in Nat
    BY <1>1, <2>2 DEF DustTypes
  <2> QED BY <2>2, <2>3, <2>4
<1>3. ASSUME mishap = "none", NEW c \in Available PROVE c \in WalletBalance
  <2>1. c \in DustUtxos(state) /\ c \notin pendingDust
    BY DEF Available
  <2>2. c.night \in Nights /\ c = CoinOf(state, c.night)
    BY <1>1, <2>1, CoinFacts
  <2>3. state.mark[c.night] = 0
    BY <1>3, <2>1, <2>2 DEF DustInv, FreeUnmarked, IsBooked
  <2> QED BY <2>1, <2>3 DEF WalletBalance, IsMarked
<1>4. BookedNotOffered
  BY <1>2 DEF BookedNotOffered, DustInv, OwnersApart
<1>5. AvailableIsCounted
  BY <1>3 DEF AvailableIsCounted
<1> QED BY <1>1, <1>4, <1>5 DEF DustBookings

LEMMA DustInitInv == DustInit => DustInv
<1> SUFFICES ASSUME DustInit PROVE DustInv
  OBVIOUS
<1>1. FreshNights \in [seq : [Nights -> Nat], mark : [Nights -> Nat]]
      /\ \A n \in Nights : FreshNights.mark[n] = 0
  BY DEF FreshNights
<1>2. txs \in [DTxs -> [stage : {"none", "built", "reverted"},
                        coins : SUBSET [night : Nights, seq : Nat], ctime : Nat]]
      /\ Live = {}
  <2>1. NoDustTx \in [stage : {"none", "built", "reverted"},
                      coins : SUBSET [night : Nights, seq : Nat], ctime : Nat]
        /\ NoDustTx.stage = "none"
    BY DEF NoDustTx
  <2> QED BY <2>1 DEF DustInit, Live
<1>3. saved \in [state : [seq : [Nights -> Nat], mark : [Nights -> Nat]], applied : Nat]
  BY <1>1 DEF DustInit
<1>4. DustTypes
  BY <1>1, <1>2, <1>3 DEF DustInit, DustTypes
<1> QED BY <1>1, <1>2, <1>4 DEF DustInit, DustInv, PendingHasOwner, OwnedCoins, OwnersApart,
                                FreeUnmarked

(* Coins are picked from those that are not booked, and marked.            *)
LEMMA BalanceDust == ASSUME DustInv, NEW t \in DTxs, BalanceTransactions(t) PROVE DustInv'
<1>1. PICK picked \in (SUBSET Available) \ {{}}, time \in 1..clock :
        /\ picked # {}
        /\ state' = SpendOf(state, picked, time)
        /\ pendingDust' = pendingDust \cup picked
        /\ txs' = [txs EXCEPT ![t] = [stage |-> "built", coins |-> picked, ctime |-> time]]
  BY DEF BalanceTransactions
<1>2. /\ txs[t].stage = "none" /\ UNCHANGED <<clock, applied, dustChain, saved, mishap>>
      /\ DustTypes /\ PendingHasOwner
  BY DEF BalanceTransactions, DustInv
<1>3. time \in Nat /\ time > 0 /\ Grace \in Nat
  BY <1>2, DustBounds DEF DustTypes
<1>4. /\ state'.seq = state.seq /\ state' \in [seq : [Nights -> Nat], mark : [Nights -> Nat]]
      /\ \A n \in Nights : state'.mark[n] = IF CoinOf(state, n) \in picked THEN time + Grace
                                                                          ELSE state.mark[n]
  <2>1. time + Grace \in Nat
    BY <1>3
  <2>2. state.seq \in [Nights -> Nat] /\ state.mark \in [Nights -> Nat]
    BY <1>2 DEF DustTypes
  <2> DEFINE marks == [n \in Nights |-> IF CoinOf(state, n) \in picked THEN time + Grace ELSE state.mark[n]]
  <2>3. marks \in [Nights -> Nat]
    BY <2>1, <2>2
  <2>4. state' = [state EXCEPT !.mark = marks]
    BY <1>1 DEF SpendOf
  <2>5. state'.seq = state.seq /\ state'.mark = marks
        /\ state' \in [seq : [Nights -> Nat], mark : [Nights -> Nat]]
    BY <1>2, <2>3, <2>4 DEF DustTypes
  <2> QED BY <2>5
<1>5. \A n \in Nights : CoinOf(state, n)' = CoinOf(state, n)
  BY <1>4 DEF CoinOf
<1>6. picked \subseteq DustUtxos(state) /\ picked \cap pendingDust = {}
      /\ picked \subseteq [night : Nights, seq : Nat] /\ DustUtxos(state)' = DustUtxos(state)
  <2>1. picked \subseteq DustUtxos(state) /\ picked \cap pendingDust = {}
    BY <1>1 DEF Available
  <2>2. DustUtxos(state) \subseteq [night : Nights, seq : Nat]
    BY <1>2 DEF DustUtxos, CoinOf, DustTypes
  <2> QED BY <1>5, <2>1, <2>2 DEF DustUtxos
<1>7. /\ txs' \in [DTxs -> [stage : {"none", "built", "reverted"},
                            coins : SUBSET [night : Nights, seq : Nat], ctime : Nat]]
      /\ txs'[t].stage = "built" /\ txs'[t].coins = picked /\ txs'[t].ctime = time
      /\ \A u \in DTxs : u # t => txs'[u] = txs[u]
  BY <1>1, <1>2, <1>3, <1>6 DEF DustTypes
<1>8. Live' = Live \cup {t} /\ t \notin Live
  BY <1>2, <1>7 DEF Live
<1>9. DustTypes'
  BY <1>1, <1>2, <1>4, <1>6, <1>7 DEF DustTypes
<1>10. PendingHasOwner'
  <2> SUFFICES ASSUME NEW c \in pendingDust'
               PROVE  c \in DustUtxos(state)' /\ \E u \in Live' : c \in txs'[u].coins
    BY DEF PendingHasOwner
  <2>1. CASE c \in picked
    BY <1>6, <1>7, <1>8, <2>1
  <2>2. CASE c \in pendingDust
    <3>1. PICK u \in Live : c \in DustUtxos(state) /\ c \in txs[u].coins
      BY <1>2, <2>2 DEF PendingHasOwner
    <3>2. u # t /\ txs'[u] = txs[u]
      BY <1>7, <1>8 DEF Live
    <3> QED BY <1>6, <1>8, <3>1, <3>2
  <2> QED BY <1>1, <2>1, <2>2
<1>11. ASSUME mishap = "none" PROVE OwnedCoins' /\ OwnersApart' /\ FreeUnmarked'
  <2>1. OwnedCoins /\ OwnersApart /\ FreeUnmarked /\ BookedNotOffered
    BY <1>11, DustBookingsHold DEF DustInv, DustBookings
  <2>2. \A c \in picked : /\ c.night \in Nights /\ CoinOf(state, c.night) = c
                         /\ state'.mark[c.night] = time + Grace
    BY <1>2, <1>4, <1>6, CoinFacts
  <2>3. \A c \in pendingDust : state'.mark[c.night] = state.mark[c.night]
    <3> SUFFICES ASSUME NEW c \in pendingDust PROVE state'.mark[c.night] = state.mark[c.night]
      OBVIOUS
    <3>1. c.night \in Nights /\ CoinOf(state, c.night) = c
      BY <1>2, CoinFacts DEF PendingHasOwner
    <3> QED BY <1>4, <1>6, <3>1
  <2>4. OwnedCoins'
    <3> SUFFICES ASSUME NEW u \in Live', NEW c \in txs'[u].coins
                 PROVE  \/ c \in pendingDust' /\ state'.mark[c.night] <= txs'[u].ctime + Grace
                        \/ c.seq < state'.seq[c.night]
      BY DEF OwnedCoins
    <3>1. CASE u = t
      <4>1. state'.mark[c.night] = time + Grace /\ c \in pendingDust'
        BY <1>1, <1>7, <2>2, <3>1
      <4> QED BY <1>3, <1>7, <3>1, <4>1
    <3>2. CASE u # t
      <4>1. u \in Live /\ txs'[u] = txs[u]
        BY <1>7, <1>8, <3>2 DEF Live
      <4>2. \/ c \in pendingDust /\ state.mark[c.night] <= txs[u].ctime + Grace
            \/ c.seq < state.seq[c.night]
        BY <2>1, <4>1 DEF OwnedCoins
      <4> QED BY <1>1, <1>4, <2>3, <4>1, <4>2
    <3> QED BY <3>1, <3>2
  <2>5. OwnersApart'
    <3>1. ASSUME NEW u \in Live, u # t PROVE txs'[u].coins \cap picked = {}
      <4>1. txs[u].coins \cap Available = {}
        BY <1>11, <2>1 DEF BookedNotOffered
      <4>2. txs'[u] = txs[u]
        BY <1>7, <3>1 DEF Live
      <4> QED BY <1>1, <4>1, <4>2
    <3>2. \A u \in Live : u # t /\ txs'[u].coins = txs[u].coins
      BY <1>7, <1>8 DEF Live
    <3> QED BY <1>7, <1>8, <2>1, <3>1, <3>2 DEF OwnersApart
  <2>6. FreeUnmarked'
    BY <1>1, <1>4, <1>5, <2>1 DEF FreeUnmarked, IsBooked
  <2> QED BY <2>4, <2>5, <2>6
<1> QED BY <1>2, <1>9, <1>10, <1>11 DEF DustInv


LedgerState == [seq : [Nights -> Nat], mark : [Nights -> Nat]]

LEMMA TtlFacts ==
  ASSUME NEW st \in LedgerState, NEW time \in Nat
  PROVE  /\ ProcessTtls(st, time) \in LedgerState /\ ProcessTtls(st, time).seq = st.seq
         /\ \A n \in Nights : ProcessTtls(st, time).mark[n] =
                                IF st.mark[n] <= time THEN 0 ELSE st.mark[n]
<1> DEFINE marks == [n \in Nights |-> IF st.mark[n] <= time THEN 0 ELSE st.mark[n]]
<1>1. marks \in [Nights -> Nat]
  BY DEF LedgerState
<1>2. ProcessTtls(st, time) = [st EXCEPT !.mark = marks]
  BY DEF ProcessTtls
<1> HIDE DEF marks
<1>3. ProcessTtls(st, time) \in LedgerState /\ ProcessTtls(st, time).seq = st.seq
      /\ ProcessTtls(st, time).mark = marks
  BY <1>1, <1>2 DEF LedgerState
<1> QED BY <1>3 DEF marks

(* The revert of a transaction frees the coins that are still booked for   *)
(* it; running the time on to the end of its grace period lifts exactly    *)
(* their marks and those of older transactions.                            *)
LEMMA RevertDust == ASSUME DustInv, NEW t \in DTxs, RevertDustTransaction(t) PROVE DustInv'
<1> DEFINE relevant == pendingDust \cap txs[t].coins
<1>1. /\ state' = Unmark(state, t, relevant) /\ pendingDust' = pendingDust \ relevant
      /\ mishap' = IF relevant # {} /\ txs[t].stage = "reverted" THEN "stale_revert" ELSE mishap
      /\ txs[t].stage # "none" /\ txs' = [txs EXCEPT ![t].stage = "reverted"]
      /\ UNCHANGED <<clock, applied, dustChain, saved>>
  BY DEF RevertDustTransaction, Unbook
<1>2. DustTypes /\ PendingHasOwner /\ state \in LedgerState
  BY DEF DustInv, DustTypes, LedgerState
<1>3. /\ txs' \in [DTxs -> [stage : {"none", "built", "reverted"},
                            coins : SUBSET [night : Nights, seq : Nat], ctime : Nat]]
      /\ txs'[t].stage = "reverted"
      /\ \A u \in DTxs : txs'[u].coins = txs[u].coins /\ txs'[u].ctime = txs[u].ctime
      /\ \A u \in DTxs : u # t => txs'[u].stage = txs[u].stage
  BY <1>1, <1>2 DEF DustTypes
<1>4. Live' = Live \ {t}
  BY <1>3 DEF Live
<1>5. txs[t].ctime + Grace \in Nat
  BY <1>2, DustBounds DEF DustTypes
<1>6. /\ state' \in LedgerState /\ state'.seq = state.seq
      /\ \A n \in Nights : state'.mark[n] <= state.mark[n] /\ (state.mark[n] = 0 => state'.mark[n] = 0)
      /\ relevant # {} => \A n \in Nights :
           state'.mark[n] = IF state.mark[n] <= txs[t].ctime + Grace THEN 0 ELSE state.mark[n]
  <2>1. CASE relevant = {}
    <3>1. state' = state
      BY <1>1, <2>1 DEF Unmark
    <3> QED BY <1>2, <2>1, <3>1 DEF LedgerState
  <2>2. CASE relevant # {}
    <3>1. state' = ProcessTtls(state, txs[t].ctime + Grace)
      BY <1>1, <2>2 DEF Unmark
    <3>2. /\ state' \in LedgerState /\ state'.seq = state.seq
          /\ \A n \in Nights :
               state'.mark[n] = IF state.mark[n] <= txs[t].ctime + Grace THEN 0 ELSE state.mark[n]
      BY <1>2, <1>5, <3>1, TtlFacts
    <3>3. \A n \in Nights : state.mark[n] \in Nat
      BY <1>2 DEF LedgerState
    <3> QED BY <1>5, <3>2, <3>3
  <2> QED BY <2>1, <2>2
<1> HIDE DEF relevant
<1>7. (\A n \in Nights : CoinOf(state, n)' = CoinOf(state, n)) /\ DustUtxos(state)' = DustUtxos(state)
  <2>1. \A n \in Nights : CoinOf(state, n)' = CoinOf(state, n)
    BY <1>6 DEF CoinOf
  <2> QED BY <2>1 DEF DustUtxos
<1>8. DustTypes'
  BY <1>1, <1>2, <1>3, <1>6 DEF DustTypes, LedgerState
<1>9. PendingHasOwner'
  <2> SUFFICES ASSUME NEW c \in pendingDust'
               PROVE  c \in DustUtxos(state)' /\ \E u \in Live' : c \in txs'[u].coins
    BY DEF PendingHasOwner
  <2>1. c \in pendingDust /\ c \notin txs[t].coins
    BY <1>1 DEF relevant
  <2>2. PICK u \in Live : c \in DustUtxos(state) /\ c \in txs[u].coins
    BY <1>2, <2>1 DEF PendingHasOwner
  <2> QED BY <1>3, <1>4, <1>7, <2>1, <2>2 DEF Live
<1>10. ASSUME mishap' = "none" PROVE OwnedCoins' /\ OwnersApart' /\ FreeUnmarked'
  <2>1. mishap = "none" /\ (relevant # {} => t \in Live)
    BY <1>1, <1>2, <1>10 DEF Live, DustTypes
  <2>2. OwnedCoins /\ OwnersApart /\ FreeUnmarked
    BY <2>1 DEF DustInv
  <2>3. OwnedCoins'
    <3> SUFFICES ASSUME NEW u \in Live', NEW c \in txs'[u].coins
                 PROVE  \/ c \in pendingDust' /\ state'.mark[c.night] <= txs'[u].ctime + Grace
                        \/ c.seq < state'.seq[c.night]
      BY DEF OwnedCoins
    <3>1. u \in Live /\ u # t /\ c \in txs[u].coins /\ txs'[u].ctime = txs[u].ctime
      BY <1>3, <1>4 DEF Live
    <3>2. c \notin relevant
      BY <2>1, <2>2, <3>1 DEF OwnersApart, relevant
    <3>3. CASE c.seq < state.seq[c.night]
      BY <1>6, <3>3
    <3>4. CASE c \in pendingDust /\ state.mark[c.night] <= txs[u].ctime + Grace
      <4>1. c.night \in Nights
        BY <1>2, <3>4 DEF DustTypes
      <4>2. state'.mark[c.night] <= state.mark[c.night]
        BY <1>6, <4>1
      <4>3. state'.mark[c.night] \in Nat /\ state.mark[c.night] \in Nat
        BY <1>2, <1>6, <4>1 DEF LedgerState
      <4>4. txs[u].ctime + Grace \in Nat
        <5>1. u \in DTxs
          BY <3>1 DEF Live
        <5> QED BY <1>2, <5>1, DustBounds DEF DustTypes
      <4> QED BY <1>1, <3>1, <3>2, <3>4, <4>2, <4>3, <4>4
    <3> QED BY <2>2, <3>1, <3>3, <3>4 DEF OwnedCoins
  <2>4. OwnersApart'
    BY <1>3, <1>4, <2>2 DEF OwnersApart, Live
  <2>5. FreeUnmarked'
    <3> SUFFICES ASSUME NEW n \in Nights, ~IsBooked(n)' PROVE state'.mark[n] = 0
      BY DEF FreeUnmarked
    <3>1. CASE ~IsBooked(n)
      BY <1>6, <2>2, <3>1 DEF FreeUnmarked
    <3>2. CASE IsBooked(n)
      <4>1. CoinOf(state, n) \in relevant
        BY <1>1, <1>7, <3>2 DEF IsBooked
      <4>2. t \in Live /\ CoinOf(state, n) \in txs[t].coins
        BY <2>1, <4>1 DEF relevant
      <4>3. CoinOf(state, n).seq = state.seq[n] /\ CoinOf(state, n).night = n
        BY <1>2, CoinFacts
      <4>4. state.mark[n] <= txs[t].ctime + Grace
        <5>1. ~(state.seq[n] < state.seq[n])
          BY <1>2 DEF LedgerState
        <5> QED BY <2>2, <4>2, <4>3, <5>1 DEF OwnedCoins
      <4> QED BY <1>6, <4>1, <4>4
    <3> QED BY <3>1, <3>2
  <2> QED BY <2>3, <2>4, <2>5
<1> QED BY <1>8, <1>9, <1>10 DEF DustInv

(* A spent coin gives way to its successor, which is not booked.           *)
LEMMA ApplyDust == ASSUME DustInv, ApplyEvents PROVE DustInv'
<1>0. PICK k \in applied..Len(dustChain) :
        /\ state' = ProcessTtls(Replay(state, UNION {txs[dustChain[i]].coins : i \in (applied + 1)..k}),
                                clock)
        /\ pendingDust' = pendingDust \cap DustUtxos(state')
        /\ applied' = k
  BY DEF ApplyEvents, KeepCurrent
<1> DEFINE spent == UNION {txs[dustChain[i]].coins : i \in (applied + 1)..k}
<1>1. /\ state' = ProcessTtls(Replay(state, spent), clock)
      /\ pendingDust' = pendingDust \cap DustUtxos(state')
      /\ applied' = k
  BY <1>0
<1> HIDE DEF spent
<1>2. DustTypes /\ PendingHasOwner /\ state \in LedgerState /\ clock \in Nat
  BY DEF DustInv, DustTypes, LedgerState
<1>3. UNCHANGED <<clock, txs, dustChain, saved, mishap>>
  BY DEF ApplyEvents
<1> DEFINE hit(n) == CoinOf(state, n) \in spent
           seqs == [n \in Nights |-> IF hit(n) THEN state.seq[n] + 1 ELSE state.seq[n]]
           marks == [n \in Nights |-> IF hit(n) THEN 0 ELSE state.mark[n]]
           replayed == [seq |-> seqs, mark |-> marks]
<1>4. seqs \in [Nights -> Nat] /\ marks \in [Nights -> Nat] /\ Replay(state, spent) = replayed
  BY <1>2 DEF LedgerState, Replay
<1>5. /\ state' \in LedgerState /\ state'.seq = seqs
      /\ \A n \in Nights : state'.mark[n] = IF marks[n] <= clock THEN 0 ELSE marks[n]
  <2> HIDE DEF seqs, marks
  <2>1. replayed \in LedgerState /\ replayed.seq = seqs /\ replayed.mark = marks
    BY <1>4 DEF LedgerState
  <2> HIDE DEF replayed
  <2>2. ProcessTtls(replayed, clock) \in LedgerState /\ ProcessTtls(replayed, clock).seq = replayed.seq
        /\ \A n \in Nights : ProcessTtls(replayed, clock).mark[n] =
                               IF replayed.mark[n] <= clock THEN 0 ELSE replayed.mark[n]
    BY <1>2, <2>1, TtlFacts
  <2> QED BY <1>1, <1>4, <2>1, <2>2
<1>6. ASSUME NEW n \in Nights
      PROVE  /\ state.seq[n] \in Nat /\ state.mark[n] \in Nat
             /\ hit(n) => state'.seq[n] = state.seq[n] + 1 /\ state'.mark[n] = 0
             /\ ~hit(n) => /\ state'.seq[n] = state.seq[n] /\ state'.mark[n] <= state.mark[n]
                           /\ state.mark[n] = 0 => state'.mark[n] = 0
  <2>1. state.seq[n] \in Nat /\ state.mark[n] \in Nat
    BY <1>2 DEF LedgerState
  <2>2. seqs[n] = (IF hit(n) THEN state.seq[n] + 1 ELSE state.seq[n])
        /\ marks[n] = (IF hit(n) THEN 0 ELSE state.mark[n])
    OBVIOUS
  <2> HIDE DEF hit, seqs, marks
  <2> QED BY <1>2, <1>5, <2>1, <2>2
<1>7. DustTypes'
  BY <1>1, <1>2, <1>3, <1>5 DEF DustTypes, LedgerState
<1>8. \A c \in pendingDust : /\ c.night \in Nights /\ c = CoinOf(state, c.night)
                             /\ c.seq = state.seq[c.night] /\ c \in [night : Nights, seq : Nat]
  BY <1>2, CoinFacts DEF PendingHasOwner, DustTypes
<1>9. PendingHasOwner'
  <2>1. \A c \in pendingDust' : c \in pendingDust /\ c \in DustUtxos(state)'
    BY <1>1
  <2> QED BY <1>2, <1>3, <2>1 DEF PendingHasOwner, Live
<1> HIDE DEF hit, seqs, marks, replayed
<1>10. ASSUME NEW c \in pendingDust, ~hit(c.night) PROVE c \in pendingDust'
  <2>1. c.seq = state'.seq[c.night] /\ c \in [night : Nights, seq : Nat]
    BY <1>6, <1>8, <1>10
  <2>2. CoinOf(state', c.night) = c /\ c.night \in Nights
    BY <2>1 DEF CoinOf
  <2>3. c \in DustUtxos(state')
    BY <2>2 DEF DustUtxos
  <2> QED BY <1>1, <2>3
<1>11. ASSUME mishap = "none" PROVE OwnedCoins' /\ OwnersApart' /\ FreeUnmarked'
  <2>1. OwnedCoins /\ OwnersApart /\ FreeUnmarked
    BY <1>11 DEF DustInv
  <2>2. OwnedCoins'
    <3> SUFFICES ASSUME NEW u \in Live, NEW c \in txs[u].coins
                 PROVE  \/ c \in pendingDust' /\ state'.mark[c.night] <= txs[u].ctime + Grace
                        \/ c.seq < state'.seq[c.night]
      BY <1>3 DEF OwnedCoins, Live
    <3>1. c.night \in Nights /\ c.seq \in Nat /\ txs[u].ctime + Grace \in Nat
      BY <1>2, DustBounds DEF DustTypes, Live
    <3>2. state.seq[c.night] \in Nat /\ state.mark[c.night] \in Nat
          /\ state'.seq[c.night] \in Nat /\ state'.mark[c.night] \in Nat
      BY <1>5, <1>6, <3>1 DEF LedgerState
    <3>3. CASE c.seq < state.seq[c.night]
      BY <1>6, <3>1, <3>2, <3>3
    <3>4. CASE c \in pendingDust /\ state.mark[c.night] <= txs[u].ctime + Grace
      <4>1. CASE hit(c.night)
        BY <1>6, <1>8, <3>1, <3>2, <3>4, <4>1
      <4>2. CASE ~hit(c.night)
        <5>1. c \in pendingDust'
          BY <1>10, <3>4, <4>2
        <5>2. state'.mark[c.night] <= state.mark[c.night]
          BY <1>6, <3>1, <4>2
        <5>3. state'.mark[c.night] <= txs[u].ctime + Grace
          BY <3>1, <3>2, <3>4, <5>2
        <5> QED BY <5>1, <5>3
      <4> QED BY <4>1, <4>2
    <3> QED BY <2>1, <3>3, <3>4 DEF OwnedCoins
  <2>3. OwnersApart'
    BY <1>3, <2>1 DEF OwnersApart, Live
  <2>4. FreeUnmarked'
    <3> SUFFICES ASSUME NEW n \in Nights, ~IsBooked(n)' PROVE state'.mark[n] = 0
      BY DEF FreeUnmarked
    <3>1. CASE hit(n)
      BY <1>6, <3>1
    <3>2. CASE ~hit(n)
      <4>1. CoinOf(state, n)' = CoinOf(state, n) /\ CoinOf(state, n).night = n
        BY <1>6, <3>2 DEF CoinOf
      <4>2. ~IsBooked(n)
        BY <1>10, <3>2, <4>1 DEF IsBooked
      <4> QED BY <1>6, <2>1, <3>2, <4>2 DEF FreeUnmarked
    <3> QED BY <3>1, <3>2
  <2> QED BY <2>2, <2>3, <2>4
<1> QED BY <1>3, <1>7, <1>9, <1>11 DEF DustInv

LEMMA DustNextInv == DustInv /\ [DustNext]_dustVars => DustInv'
<1> SUFFICES ASSUME DustInv, [DustNext]_dustVars PROVE DustInv'
  OBVIOUS
<1>1. ASSUME NEW t \in DTxs, BalanceTransactions(t) PROVE DustInv'
  BY <1>1, BalanceDust
<1>2. ASSUME NEW t \in DTxs, RevertDustTransaction(t) PROVE DustInv'
  BY <1>2, RevertDust
<1>3. ASSUME ApplyEvents PROVE DustInv'
  BY <1>3, ApplyDust
<1>4. ASSUME RestoreDust PROVE DustInv'
  BY <1>4 DEF RestoreDust, DustInv, DustTypes, PendingHasOwner
<1>5. ASSUME UNCHANGED <<state, pendingDust, txs, mishap>>, DustTypes' PROVE DustInv'
  BY <1>5 DEF DustInv, PendingHasOwner, OwnedCoins, OwnersApart, FreeUnmarked, IsBooked, Live
<1>6. ASSUME \/ \E t \in DTxs : IncludeDustTransaction(t)
             \/ SerializeDust \/ DustTick \/ UNCHANGED dustVars
      PROVE  DustInv'
  <2>1. DustTypes'
    <3>1. DustTypes
      BY DEF DustInv
    <3>2. ASSUME NEW t \in DTxs, IncludeDustTransaction(t) PROVE DustTypes'
      BY <3>1, <3>2 DEF IncludeDustTransaction, DustTypes
    <3>3. CASE SerializeDust
      BY <3>1, <3>3 DEF SerializeDust, DustTypes
    <3>4. CASE DustTick
      BY <3>1, <3>4 DEF DustTick, DustTypes
    <3>5. CASE UNCHANGED dustVars
      BY <3>1, <3>5 DEF dustVars, DustTypes
    <3> QED BY <1>6, <3>2, <3>3, <3>4, <3>5
  <2>2. UNCHANGED <<state, pendingDust, txs, mishap>>
    BY <1>6 DEF IncludeDustTransaction, SerializeDust, DustTick, dustVars
  <2> QED BY <1>5, <2>1, <2>2
<1> QED BY <1>1, <1>2, <1>3, <1>4, <1>6 DEF DustNext

(* A dust coin that a transaction in use spends is not offered again nor   *)
(* shared, every booking belongs to a transaction in use, and what is      *)
(* offered is counted in the balance, unless a restart forgot the bookings *)
(* or a transaction was reverted again after its coins went to another.    *)
THEOREM DustBookingsAgree == DustSpec => []DustBookings
  BY DustInitInv, DustNextInv, DustBookingsHold, PTL DEF DustSpec



-----------------------------------------------------------------------------
(* The bookings of the shielded wallet                                     *)

CoinSets == [coins : SUBSET Nat, pendingSpends : SUBSET Nat, pendingOutputs : SUBSET Nat,
             coinHashes : SUBSET Nat]
ChainEvents == [spends : SUBSET Nat, outputs : SUBSET Nat]

(* The coins that were there before an event and those it has seen spent.  *)
SeenBy(es, a) == (1..InitialCoins) \cup UNION {es[i].outputs : i \in 1..a}
SpentBy(es, a) == UNION {es[i].spends : i \in 1..a}

(* An event spends what was there and makes new coins.                     *)
ChainSound(es) ==
  /\ es \in Seq(ChainEvents)
  /\ \A i \in 1..Len(es) : es[i].spends \subseteq SeenBy(es, i - 1)
  /\ \A i \in 1..Len(es) : es[i].outputs \cap SeenBy(es, i - 1) = {}

(* A wallet that has applied the first a events: its coins, and a hash for *)
(* each of them.                                                           *)
WalletAt(w, es, a) ==
  w \in CoinSets /\ w.coins = SeenBy(es, a) \ SpentBy(es, a) /\ AssertValid(w)

(* What is pending in it, if the transactions in use spend the coins gone  *)
(* and make the coins made.                                                *)
PendingAt(w, es, a, gone, made) ==
  /\ w.pendingSpends = gone \ SpentBy(es, a)
  /\ w.pendingOutputs = made \ SeenBy(es, a)

LEMMA NoEvents == \A es : SeenBy(es, 0) = 1..InitialCoins /\ SpentBy(es, 0) = {}
BY DEF SeenBy, SpentBy

LEMMA OneMoreEvent ==
  ASSUME NEW es, NEW a \in Nat
  PROVE  /\ SeenBy(es, a + 1) = SeenBy(es, a) \cup es[a + 1].outputs
         /\ SpentBy(es, a + 1) = SpentBy(es, a) \cup es[a + 1].spends
<1>1. 1..(a + 1) = (1..a) \cup {a + 1}
  OBVIOUS
<1> QED BY <1>1 DEF SeenBy, SpentBy

LEMMA EarlierEvents ==
  ASSUME NEW es, NEW a \in Nat, NEW b \in Nat, a <= b
  PROVE  SeenBy(es, a) \subseteq SeenBy(es, b) /\ SpentBy(es, a) \subseteq SpentBy(es, b)
<1>1. \A i \in 1..a : i \in 1..b
  OBVIOUS
<1> QED BY <1>1 DEF SeenBy, SpentBy

LEMMA AppendedEvent ==
  ASSUME NEW es \in Seq(ChainEvents), NEW e \in ChainEvents, NEW a \in 0..Len(es)
  PROVE  SeenBy(Append(es, e), a) = SeenBy(es, a) /\ SpentBy(Append(es, e), a) = SpentBy(es, a)
<1>1. \A i \in 1..a : Append(es, e)[i] = es[i]
  OBVIOUS
<1> QED BY <1>1 DEF SeenBy, SpentBy

(* What is spent was there.                                                *)
LEMMA SpentWasSeen ==
  ASSUME NEW es, ChainSound(es), NEW a \in 0..Len(es)
  PROVE  SpentBy(es, a) \subseteq SeenBy(es, a)
<1> SUFFICES ASSUME NEW i \in 1..a, NEW c \in es[i].spends PROVE c \in SeenBy(es, a)
  BY DEF SpentBy
<1>1. i \in 1..Len(es) /\ i - 1 \in Nat /\ a \in Nat /\ i - 1 <= a
  BY DEF ChainSound
<1> QED BY <1>1, EarlierEvents DEF ChainSound

LEMMA ReplayOne ==
  ASSUME NEW es, ChainSound(es), NEW a \in Nat, a + 1 <= Len(es), NEW w, WalletAt(w, es, a)
  PROVE  /\ WalletAt(ReplayEvent(w, es[a + 1]), es, a + 1)
         /\ \A gone, made : PendingAt(w, es, a, gone, made)
                              => PendingAt(ReplayEvent(w, es[a + 1]), es, a + 1, gone, made)
<1> DEFINE e == es[a + 1]
           next == ReplayEvent(w, e)
<1>1. a + 1 \in 1..Len(es) /\ a \in 0..Len(es) /\ (a + 1) - 1 = a
  BY DEF ChainSound
<1>2. e \in ChainEvents
  BY <1>1 DEF ChainSound
<1>3. e.spends \subseteq SeenBy(es, a) /\ e.outputs \cap SeenBy(es, a) = {}
  BY <1>1 DEF ChainSound
<1>4. SpentBy(es, a) \subseteq SeenBy(es, a)
  BY <1>1, SpentWasSeen
<1>5. /\ SeenBy(es, a + 1) = SeenBy(es, a) \cup e.outputs
      /\ SpentBy(es, a + 1) = SpentBy(es, a) \cup e.spends
  BY OneMoreEvent
<1> HIDE DEF e
<1>6. /\ next.coins = (w.coins \ e.spends) \cup e.outputs
      /\ next.pendingSpends = w.pendingSpends \ e.spends
      /\ next.pendingOutputs = w.pendingOutputs \ e.outputs
      /\ next.coinHashes = next.coins \cup next.pendingOutputs
  BY DEF ReplayEvent
<1>7. next \in CoinSets
  BY <1>2 DEF ReplayEvent, WalletAt, CoinSets, ChainEvents
<1> HIDE DEF next
<1>8. next.coins = SeenBy(es, a + 1) \ SpentBy(es, a + 1)
  BY <1>3, <1>4, <1>5, <1>6 DEF WalletAt
<1>9. AssertValid(next)
  BY <1>6 DEF AssertValid, PickAllCoins
<1>10. WalletAt(next, es, a + 1)
  BY <1>7, <1>8, <1>9 DEF WalletAt
<1>11. \A gone, made : PendingAt(w, es, a, gone, made) => PendingAt(next, es, a + 1, gone, made)
  BY <1>5, <1>6 DEF PendingAt
<1> QED BY <1>10, <1>11 DEF next, e

(* ReplayAll applies one event after the other.                            *)
LEMMA ReplayAllSteps ==
  ASSUME NEW w, NEW es, Len(es) \in Nat
  PROVE  \E f : /\ f = [k \in 0..Len(es) |-> IF k = 0 THEN w ELSE ReplayEvent(f[k - 1], es[k])]
                /\ ReplayAll(w, es) = f[Len(es)]
<1> DEFINE Steps(f, n) == f = [k \in 0..n |-> IF k = 0 THEN w ELSE ReplayEvent(f[k - 1], es[k])]
           T == {n \in Nat : ~\E f : Steps(f, n)}
<1>1. T = {}
  <2> SUFFICES ASSUME T # {} PROVE FALSE
    OBVIOUS
  <2>1. PICK n \in T : \A m \in T : n <= m
    BY LeastExists
  <2>2. CASE n = 0
    <3> DEFINE g == [k \in 0..0 |-> w]
    <3>1. Steps(g, 0)
      OBVIOUS
    <3> QED BY <2>1, <2>2, <3>1
  <2>3. CASE n # 0
    <3>1. n \in Nat /\ n - 1 \in Nat /\ ~(n <= n - 1)
      BY <2>1, <2>3
    <3>2. PICK f : Steps(f, n - 1)
      BY <2>1, <3>1
    <3> DEFINE g == [k \in 0..n |-> IF k = n THEN ReplayEvent(f[n - 1], es[n]) ELSE f[k]]
    <3>3. ASSUME NEW k \in 0..n
          PROVE  g[k] = IF k = 0 THEN w ELSE ReplayEvent(g[k - 1], es[k])
      <4>1. CASE k = n
        <5>1. n - 1 \in 0..n /\ n - 1 # n
          BY <3>1
        <5> QED BY <2>3, <4>1, <5>1
      <4>2. CASE k # n
        <5>1. k \in 0..(n - 1) /\ (k # 0 => k - 1 \in 0..n /\ k - 1 # n)
          BY <3>1, <4>2
        <5>2. f[k] = IF k = 0 THEN w ELSE ReplayEvent(f[k - 1], es[k])
          BY <3>2, <5>1
        <5> QED BY <4>2, <5>1, <5>2
      <4> QED BY <4>1, <4>2
    <3>4. Steps(g, n)
      <4> HIDE DEF g
      <4>1. g = [k \in 0..n |-> g[k]]
        BY DEF g
      <4> QED BY <3>3, <4>1
    <3> QED BY <2>1, <3>4
  <2> QED BY <2>2, <2>3
<1>2. \E f : Steps(f, Len(es))
  BY <1>1
<1> DEFINE replay == CHOOSE f : Steps(f, Len(es))
<1>3. Steps(replay, Len(es))
  BY <1>2
<1>4. ReplayAll(w, es) = replay[Len(es)]
  BY DEF ReplayAll
<1> QED BY <1>3, <1>4


LEMMA ReplayMany ==
  ASSUME NEW es, ChainSound(es), NEW a \in 0..Len(es), NEW k \in a..Len(es),
         NEW w, WalletAt(w, es, a)
  PROVE  /\ WalletAt(ReplayAll(w, SubSeq(es, a + 1, k)), es, k)
         /\ \A gone, made : PendingAt(w, es, a, gone, made)
                => PendingAt(ReplayAll(w, SubSeq(es, a + 1, k)), es, k, gone, made)
<1> DEFINE batch == SubSeq(es, a + 1, k)
           Right(v, b) == /\ WalletAt(v, es, b)
                          /\ \A gone, made : PendingAt(w, es, a, gone, made)
                                               => PendingAt(v, es, b, gone, made)
<1>1. Len(es) \in Nat /\ es \in Seq(ChainEvents)
  BY DEF ChainSound
<1>2. /\ Len(batch) = k - a /\ Len(batch) \in Nat
      /\ \A i \in 1..(k - a) : batch[i] = es[a + i]
  <2>1. a + 1 \in 1..(Len(es) + 1) /\ k \in a..Len(es) /\ a \in Nat /\ k \in Nat
    BY <1>1
  <2>2. Len(batch) = k - a
    BY <1>1, <2>1
  <2>3. \A i \in 1..(k - a) : batch[i] = es[a + i]
    BY <1>1, <2>1
  <2> QED BY <2>1, <2>2, <2>3
<1> HIDE DEF batch
<1>3. PICK f : /\ f = [j \in 0..Len(batch) |-> IF j = 0 THEN w ELSE ReplayEvent(f[j - 1], batch[j])]
               /\ ReplayAll(w, batch) = f[Len(batch)]
  BY <1>2, ReplayAllSteps
<1>4. \A j \in 0..(k - a) : Right(f[j], a + j)
  <2> DEFINE T == {j \in 0..(k - a) : ~Right(f[j], a + j)}
  <2> SUFFICES ASSUME T # {} PROVE FALSE
    OBVIOUS
  <2>1. PICK j \in T : \A i \in T : j <= i
    <3>1. T \subseteq Nat
      BY <1>1
    <3> QED BY <3>1, LeastExists
  <2>2. j \in 0..(k - a) /\ a \in Nat /\ k - a \in Nat
    BY <1>2, <2>1
  <2>3. CASE j = 0
    <3>1. f[j] = w /\ a + j = a
      BY <1>2, <1>3, <2>2, <2>3
    <3> QED BY <2>1, <3>1
  <2>4. CASE j # 0
    <3>1. j - 1 \in 0..(k - a) /\ ~(j <= j - 1) /\ j \in 1..(k - a)
      BY <2>2, <2>4
    <3>2. Right(f[j - 1], a + (j - 1))
      BY <2>1, <3>1
    <3>3. f[j] = ReplayEvent(f[j - 1], es[a + j])
      BY <1>2, <1>3, <2>2, <2>4, <3>1
    <3> DEFINE b == a + (j - 1)
    <3>4. b \in Nat /\ b + 1 = a + j /\ b + 1 <= Len(es)
      BY <1>1, <2>2, <3>1
    <3> HIDE DEF b
    <3>5. WalletAt(f[j - 1], es, b)
      BY <3>2 DEF b
    <3>6. /\ WalletAt(ReplayEvent(f[j - 1], es[b + 1]), es, b + 1)
          /\ \A gone, made : PendingAt(f[j - 1], es, b, gone, made)
                    => PendingAt(ReplayEvent(f[j - 1], es[b + 1]), es, b + 1, gone, made)
      BY <3>4, <3>5, ReplayOne
    <3>7. \A gone, made : PendingAt(w, es, a, gone, made) => PendingAt(f[j - 1], es, b, gone, made)
      BY <3>2 DEF b
    <3>8. Right(f[j], a + j)
      BY <3>3, <3>4, <3>6, <3>7
    <3> QED BY <2>1, <3>8
  <2> QED BY <2>3, <2>4
<1>5. Right(f[k - a], a + (k - a)) /\ a + (k - a) = k
  BY <1>1, <1>4
<1> QED BY <1>2, <1>3, <1>5 DEF batch

Included == {"included", "reverted_included"}
Gone(ts, used) == UNION {ts[t].spends : t \in used}
MadeBy(ts, used) == UNION {ts[t].outputs : t \in used}

(* Every transaction spends coins that are on chain and makes coins of its *)
(* own, which are new to the chain until it is included.                   *)
ShieldedTxsSound ==
  /\ stxs \in [STxs -> [stage : {"none", "built", "reverted", "included", "reverted_included"},
                        spends : SUBSET Nat, outputs : SUBSET Nat, clash : BOOLEAN]]
  /\ \A t \in STxs : stxs[t].spends \subseteq SeenBy(events, Len(events))
  /\ \A t \in STxs : \A c \in stxs[t].outputs : InitialCoins < c /\ c <= minted
  /\ \A t \in STxs : stxs[t].stage \notin Included
                        => stxs[t].outputs \cap SeenBy(events, Len(events)) = {}
  /\ \A t, u \in STxs : t # u => stxs[t].outputs \cap stxs[u].outputs = {}
  /\ \A t \in STxs : stxs[t].stage = "none" => stxs[t].spends = {} /\ stxs[t].outputs = {}

(* Without a mishap what is pending in the wallet is what the transactions *)
(* in use spend and make, beyond what is on chain; they spend coins the    *)
(* wallet has seen, each of them one of its own.                           *)
ShieldedOrderly ==
  /\ PendingAt(wallet, events, appliedTo, Gone(stxs, InUse), MadeBy(stxs, InUse))
  /\ \A t \in STxs : stxs[t].spends \subseteq SeenBy(events, appliedTo)
  /\ \A t \in InUse : ~stxs[t].clash
  /\ \A t, u \in InUse : t # u => stxs[t].spends \cap stxs[u].spends = {}

ShieldedInv ==
  /\ ChainSound(events) /\ minted \in Nat /\ InitialCoins <= minted
  /\ \A c \in SeenBy(events, Len(events)) : c <= minted
  /\ ShieldedTxsSound
  /\ appliedTo \in 0..Len(events) /\ WalletAt(wallet, events, appliedTo)
  /\ savedShielded.appliedTo \in 0..Len(events)
  /\ WalletAt(savedShielded.wallet, events, savedShielded.appliedTo)
  /\ ~smishap => ShieldedOrderly

LEMMA ShieldedBookingsHold == ShieldedInv => ShieldedBookings
<1> SUFFICES ASSUME ShieldedInv PROVE ShieldedBookings
  OBVIOUS
<1>1. HashesCover
  BY DEF ShieldedInv, WalletAt, HashesCover
<1>2. appliedTo \in 0..Len(events) /\ Len(events) \in Nat /\ ChainSound(events)
  BY DEF ShieldedInv, ChainSound
<1> DEFINE seen == SeenBy(events, appliedTo)
           spent == SpentBy(events, appliedTo)
           gone == Gone(stxs, InUse)
           made == MadeBy(stxs, InUse)
<1>3. wallet.coins = seen \ spent /\ spent \subseteq seen
  BY <1>2, SpentWasSeen DEF ShieldedInv, WalletAt
<1>4. OnChainCoins = seen \ spent /\ spent = UNION {events[i].spends : i \in 1..appliedTo}
  BY DEF OnChainCoins, SeenBy, SpentBy
<1>5. \A t \in InUse : stxs[t].spends \subseteq gone
  BY DEF Gone
<1>6. CoinsSpentOnce
  <2> SUFFICES ASSUME ~smishap, NEW t \in InUse
               PROVE  /\ ~stxs[t].clash
                      /\ stxs[t].spends \cap AvailableCoins(wallet) = {}
                      /\ \A u \in InUse \ {t} : stxs[t].spends \cap stxs[u].spends = {}
    BY DEF CoinsSpentOnce
  <2>1. ShieldedOrderly
    BY DEF ShieldedInv
  <2>2. wallet.pendingSpends = gone \ spent
    BY <2>1 DEF ShieldedOrderly, PendingAt
  <2> HIDE DEF gone, seen, spent
  <2>3. stxs[t].spends \cap AvailableCoins(wallet) = {}
    BY <1>3, <1>5, <2>2 DEF AvailableCoins
  <2> QED BY <2>1, <2>3 DEF ShieldedOrderly
<1>7. TotalIsFuture
  <2> SUFFICES ASSUME ~smishap PROVE TotalCoins(wallet) = (OnChainCoins \cup (made \ spent)) \ gone
    BY <1>4 DEF TotalIsFuture, Gone, MadeBy
  <2>1. ShieldedOrderly
    BY DEF ShieldedInv
  <2>2. wallet.pendingSpends = gone \ spent /\ wallet.pendingOutputs = made \ seen
    BY <2>1 DEF ShieldedOrderly, PendingAt
  <2>3. gone \subseteq seen
    BY <2>1 DEF ShieldedOrderly, Gone, InUse
  <2> HIDE DEF gone, made, seen, spent
  <2>4. TotalCoins(wallet) = ((seen \ spent) \ (gone \ spent)) \cup (made \ seen)
    BY <1>3, <2>2 DEF TotalCoins, AvailableCoins
  <2> QED BY <1>3, <1>4, <2>3, <2>4
<1> QED BY <1>1, <1>6, <1>7 DEF ShieldedBookings

LEMMA ShieldedInitInv == ShieldedInit => ShieldedInv
<1> SUFFICES ASSUME ShieldedInit PROVE ShieldedInv
  OBVIOUS
<1>1. events = <<>> /\ Len(events) = 0 /\ ChainSound(events)
  BY DEF ShieldedInit, ChainSound
<1>2. SeenBy(events, 0) = 1..InitialCoins /\ SpentBy(events, 0) = {}
  BY NoEvents
<1>3. InitialCoins \in Nat
  BY ShieldedBounds
<1>4. WalletAt(First, events, 0)
  BY <1>2, <1>3 DEF WalletAt, First, CoinSets, AssertValid, PickAllCoins
<1>5. \A t \in STxs : stxs[t] = NoShieldedTx
  BY DEF ShieldedInit
<1>6. ShieldedTxsSound
  BY <1>5 DEF ShieldedTxsSound, NoShieldedTx, Included, ShieldedInit
<1>7. InUse = {} /\ Gone(stxs, InUse) = {} /\ MadeBy(stxs, InUse) = {}
  <2>1. InUse = {}
    BY <1>5 DEF InUse, NoShieldedTx
  <2> QED BY <2>1 DEF Gone, MadeBy
<1>8. ShieldedOrderly
  BY <1>5, <1>7 DEF ShieldedOrderly, PendingAt, ShieldedInit, First, NoShieldedTx
<1> QED BY <1>1, <1>2, <1>3, <1>4, <1>6, <1>8 DEF ShieldedInv, ShieldedInit


(* A transaction is booked with coins that are available and new outputs.  *)
LEMMA BookInv ==
  ASSUME ShieldedInv, NEW t \in STxs, stxs[t].stage = "none",
         NEW w, NEW paid, NEW made, Book(t, w, paid, made, FALSE),
         w \in CoinSets, w.coins = wallet.coins,
         w.pendingSpends = wallet.pendingSpends \cup paid,
         w.pendingOutputs = wallet.pendingOutputs \cup made,
         w.coinHashes = wallet.coinHashes \cup made,
         paid \subseteq AvailableCoins(wallet),
         made \subseteq (minted + 1)..(minted + Cardinality(made)), Cardinality(made) \in Nat
  PROVE  ShieldedInv'
<1>1. /\ wallet' = w /\ minted' = minted + Cardinality(made)
      /\ stxs' = [stxs EXCEPT ![t] = [stage |-> "built", spends |-> paid,
                                      outputs |-> made, clash |-> FALSE]]
      /\ UNCHANGED <<appliedTo, events, savedShielded, smishap>>
  BY DEF Book
<1>2. /\ ChainSound(events) /\ minted \in Nat /\ InitialCoins <= minted /\ InitialCoins \in Nat
      /\ \A c \in SeenBy(events, Len(events)) : c <= minted /\ c \in Nat
      /\ appliedTo \in 0..Len(events) /\ Len(events) \in Nat /\ ShieldedTxsSound
  <2>1. SeenBy(events, Len(events)) \subseteq Nat
    <3>1. \A i \in 1..Len(events) : events[i] \in ChainEvents
      BY DEF ShieldedInv, ChainSound
    <3>2. \A i \in 1..Len(events) : events[i].outputs \subseteq Nat
      BY <3>1 DEF ChainEvents
    <3> QED BY <3>2, ShieldedBounds DEF SeenBy
  <2>2. /\ ChainSound(events) /\ minted \in Nat /\ InitialCoins <= minted
        /\ \A c \in SeenBy(events, Len(events)) : c <= minted
        /\ appliedTo \in 0..Len(events) /\ ShieldedTxsSound
    BY DEF ShieldedInv
  <2> QED BY <2>1, <2>2, ShieldedBounds DEF ChainSound
<1>3. minted' \in Nat /\ minted <= minted' /\ InitialCoins <= minted'
  BY <1>1, <1>2
<1>4. \A c \in made : c \in Nat /\ minted < c /\ c <= minted' /\ InitialCoins < c
  BY <1>1, <1>2
<1>5. wallet.coins = SeenBy(events, appliedTo) \ SpentBy(events, appliedTo)
      /\ wallet \in CoinSets /\ AssertValid(wallet)
  BY DEF ShieldedInv, WalletAt
<1>6. /\ paid \subseteq SeenBy(events, appliedTo)
      /\ paid \cap SpentBy(events, appliedTo) = {}
      /\ paid \cap wallet.pendingSpends = {}
      /\ SeenBy(events, appliedTo) \subseteq SeenBy(events, Len(events))
      /\ paid \subseteq SeenBy(events, Len(events)) /\ paid \subseteq Nat
  <2>1. SeenBy(events, appliedTo) \subseteq SeenBy(events, Len(events))
    <3>1. appliedTo \in Nat /\ appliedTo <= Len(events)
      BY <1>2
    <3> QED BY <1>2, <3>1, EarlierEvents
  <2> QED BY <1>2, <1>5, <2>1 DEF AvailableCoins
<1>7. made \cap SeenBy(events, Len(events)) = {}
  <2> SUFFICES ASSUME NEW c \in made, c \in SeenBy(events, Len(events)) PROVE FALSE
    OBVIOUS
  <2> QED BY <1>2, <1>4
<1>8. /\ stxs'[t].stage = "built" /\ stxs'[t].spends = paid /\ stxs'[t].outputs = made
      /\ stxs'[t].clash = FALSE
      /\ \A u \in STxs : u # t => stxs'[u] = stxs[u]
      /\ stxs' \in [STxs -> [stage : {"none", "built", "reverted", "included", "reverted_included"},
                             spends : SUBSET Nat, outputs : SUBSET Nat, clash : BOOLEAN]]
  <2> DEFINE r == [stage |-> "built", spends |-> paid, outputs |-> made, clash |-> FALSE]
  <2>1. paid \in SUBSET Nat /\ made \in SUBSET Nat
    BY <1>4, <1>6
  <2>2. r \in [stage : {"none", "built", "reverted", "included", "reverted_included"},
               spends : SUBSET Nat, outputs : SUBSET Nat, clash : BOOLEAN]
    BY <2>1
  <2>3. r.stage = "built" /\ r.spends = paid /\ r.outputs = made /\ r.clash = FALSE
    OBVIOUS
  <2> HIDE DEF r
  <2>4. stxs' = [stxs EXCEPT ![t] = r]
    BY <1>1 DEF r
  <2> QED BY <1>2, <2>2, <2>3, <2>4 DEF ShieldedTxsSound
<1>9. \A u \in STxs : \A c \in stxs[u].outputs : c <= minted /\ c \in Nat
  BY <1>2 DEF ShieldedTxsSound
<1>10. ShieldedTxsSound'
  <2>1. \A u \in STxs : stxs'[u].spends \subseteq SeenBy(events, Len(events))
    BY <1>2, <1>6, <1>8 DEF ShieldedTxsSound
  <2>2. \A u \in STxs : \A c \in stxs'[u].outputs : InitialCoins < c /\ c <= minted'
    <3> SUFFICES ASSUME NEW u \in STxs, NEW c \in stxs'[u].outputs
                 PROVE  InitialCoins < c /\ c <= minted'
      OBVIOUS
    <3>1. CASE u = t
      BY <1>4, <1>8, <3>1
    <3>2. CASE u # t
      <4>1. InitialCoins < c /\ c <= minted /\ c \in Nat
        BY <1>2, <1>8, <1>9, <3>2 DEF ShieldedTxsSound
      <4> QED BY <1>2, <1>3, <4>1
    <3> QED BY <3>1, <3>2
  <2>3. \A u \in STxs : stxs'[u].stage \notin Included
                          => stxs'[u].outputs \cap SeenBy(events, Len(events)) = {}
    BY <1>2, <1>7, <1>8 DEF ShieldedTxsSound
  <2>4. \A u \in STxs : u # t => stxs[u].outputs \cap made = {}
    <3> SUFFICES ASSUME NEW u \in STxs, NEW c \in made, c \in stxs[u].outputs PROVE FALSE
      OBVIOUS
    <3> QED BY <1>2, <1>4, <1>9
  <2>5. \A u, v \in STxs : u # v => stxs'[u].outputs \cap stxs'[v].outputs = {}
    BY <1>2, <1>8, <2>4 DEF ShieldedTxsSound
  <2>6. \A u \in STxs : stxs'[u].stage = "none" => stxs'[u].spends = {} /\ stxs'[u].outputs = {}
    BY <1>2, <1>8 DEF ShieldedTxsSound
  <2> QED BY <1>1, <1>8, <2>1, <2>2, <2>3, <2>5, <2>6 DEF ShieldedTxsSound
<1>11. WalletAt(w, events, appliedTo)
  BY <1>5 DEF WalletAt, AssertValid, PickAllCoins
<1>12. InUse' = InUse \cup {t} /\ t \notin InUse
  BY <1>8 DEF InUse
<1>13. ASSUME ~smishap PROVE ShieldedOrderly'
  <2>1. ShieldedOrderly
    BY <1>13 DEF ShieldedInv
  <2> DEFINE gone == Gone(stxs, InUse)
             before == MadeBy(stxs, InUse)
             used == InUse
  <2>2. Gone(stxs', used \cup {t}) = gone \cup paid /\ MadeBy(stxs', used \cup {t}) = before \cup made
    <3>1. \A u \in InUse : stxs'[u] = stxs[u]
      BY <1>8, <1>12 DEF InUse
    <3> QED BY <1>8, <3>1 DEF Gone, MadeBy
  <2>3. PendingAt(wallet, events, appliedTo, gone, before)
    BY <2>1 DEF ShieldedOrderly
  <2> HIDE DEF gone, before
  <2>4. PendingAt(w, events, appliedTo, gone \cup paid, before \cup made)
    BY <1>6, <1>7, <2>3 DEF PendingAt
  <2>5. \A u \in InUse : stxs[u].spends \cap paid = {}
    <3>1. \A u \in InUse : stxs[u].spends \subseteq gone
      BY DEF Gone, gone
    <3>2. paid \cap gone = {}
      BY <1>6, <2>3 DEF PendingAt
    <3> QED BY <3>1, <3>2
  <2>6. \A u, v \in InUse' : u # v => stxs'[u].spends \cap stxs'[v].spends = {}
    <3> SUFFICES ASSUME NEW u \in InUse', NEW v \in InUse', u # v
                 PROVE  stxs'[u].spends \cap stxs'[v].spends = {}
      OBVIOUS
    <3>1. \A x \in InUse' : x = t \/ (x \in InUse /\ stxs'[x] = stxs[x])
      BY <1>8, <1>12 DEF InUse
    <3>2. CASE u # t /\ v # t
      <4>1. u \in InUse /\ v \in InUse
        BY <1>12, <3>2
      <4>2. stxs[u].spends \cap stxs[v].spends = {}
        BY <2>1, <4>1 DEF ShieldedOrderly
      <4> QED BY <3>1, <3>2, <4>2
    <3>3. CASE u = t \/ v = t
      BY <1>8, <2>5, <3>1, <3>3
    <3> QED BY <3>2, <3>3
  <2>7. \A u \in InUse' : ~stxs'[u].clash
    BY <1>8, <1>12, <2>1 DEF ShieldedOrderly, InUse
  <2>8. \A u \in STxs : stxs'[u].spends \subseteq SeenBy(events, appliedTo)
    BY <1>6, <1>8, <2>1 DEF ShieldedOrderly
  <2> QED BY <1>1, <1>12, <2>2, <2>4, <2>6, <2>7, <2>8 DEF ShieldedOrderly
<1>14. \A c \in SeenBy(events, Len(events)) : c <= minted'
  BY <1>2, <1>3
<1> QED BY <1>1, <1>2, <1>3, <1>10, <1>11, <1>13, <1>14 DEF ShieldedInv


LEMMA PreparedOffer ==
  ASSUME NEW w \in CoinSets, NEW n \in Nat, NEW r \in Recipes(w, n)
  PROVE  LET p == PrepareShieldedOffer(w, r)
         IN /\ p \in CoinSets /\ p.coins = w.coins
            /\ p.pendingSpends = w.pendingSpends \cup r.inputs
            /\ p.pendingOutputs = w.pendingOutputs \cup r.outputs
            /\ p.coinHashes = w.coinHashes \cup r.outputs
            /\ r.inputs \subseteq AvailableCoins(w)
            /\ r.outputs = {} \/ r.outputs = {n}
<1>1. r.inputs \subseteq AvailableCoins(w) /\ (r.outputs = {} \/ r.outputs = {n})
  BY DEF Recipes
<1>2. r.inputs \in SUBSET Nat /\ r.outputs \in SUBSET Nat
  BY <1>1 DEF AvailableCoins, CoinSets
<1> DEFINE s == SpendCoins(w, r.inputs)
<1>3. /\ s \in CoinSets /\ s.coins = w.coins /\ s.pendingSpends = w.pendingSpends \cup r.inputs
      /\ s.pendingOutputs = w.pendingOutputs /\ s.coinHashes = w.coinHashes
  BY <1>2 DEF SpendCoins, CoinSets
<1> HIDE DEF s
<1> DEFINE p == WatchCoins(s, r.outputs)
<1>4. /\ p \in CoinSets /\ p.coins = s.coins /\ p.pendingSpends = s.pendingSpends
      /\ p.pendingOutputs = s.pendingOutputs \cup r.outputs
      /\ p.coinHashes = s.coinHashes \cup r.outputs
  BY <1>2, <1>3 DEF WatchCoins, CoinSets
<1>5. p = PrepareShieldedOffer(w, r)
  BY DEF PrepareShieldedOffer, s
<1> HIDE DEF p
<1> QED BY <1>1, <1>3, <1>4, <1>5

(* New coins get the numbers after those given out.                        *)
LEMMA NewCoins ==
  ASSUME NEW n \in Nat, NEW A, A = {} \/ A = {n + 1},
         NEW B, B = {} \/ B = {n + Cardinality(A) + 1}
  PROVE  /\ Cardinality(A) \in Nat /\ Cardinality(A \cup B) \in Nat
         /\ A \cup B \subseteq (n + 1)..(n + Cardinality(A \cup B))
<1>1. Cardinality({}) = 0 /\ \A x : Cardinality({x}) = 1
  BY FS_EmptySet, FS_Singleton
<1>2. CASE A = {}
  <2>1. CASE B = {}
    BY <1>1, <1>2, <2>1
  <2>2. CASE B = {n + 1}
    <3>1. A \cup B = {n + 1} /\ Cardinality(A \cup B) = 1
      BY <1>1, <1>2, <2>2
    <3> QED BY <1>1, <1>2, <3>1
  <2>3. n + Cardinality(A) + 1 = n + 1
    BY <1>1, <1>2
  <2> QED BY <2>1, <2>2, <2>3
<1>3. CASE A = {n + 1}
  <2>0. Cardinality(A) = 1
    BY <1>1, <1>3
  <2>1. Cardinality(A) = 1 /\ n + Cardinality(A) + 1 = n + 2
    BY <2>0
  <2>2. CASE B = {}
    <3>1. A \cup B = {n + 1} /\ Cardinality(A \cup B) = 1
      BY <1>1, <1>3, <2>2
    <3>2. {n + 1} \subseteq (n + 1)..(n + 1)
      OBVIOUS
    <3> QED BY <2>0, <3>1, <3>2
  <2>3. CASE B = {n + 2}
    <3>0. n + 2 \notin A
      BY <1>3
    <3>1. IsFiniteSet(A)
      BY <1>3, FS_Singleton
    <3>2. Cardinality(A \cup {n + 2}) = Cardinality(A) + 1
      BY <3>0, <3>1, FS_AddElement
    <3>3. A \cup B = A \cup {n + 2} /\ Cardinality(A \cup B) = 2
      BY <2>1, <2>3, <3>2
    <3> QED BY <1>3, <2>1, <3>3
  <2> QED BY <2>1, <2>2, <2>3
<1> QED BY <1>2, <1>3

LEMMA BalanceInv ==
  ASSUME ShieldedInv, NEW t \in STxs, BalanceTransaction(t) PROVE ShieldedInv'
<1>1. wallet \in CoinSets /\ minted \in Nat /\ stxs[t].stage = "none"
  BY DEF ShieldedInv, WalletAt, BalanceTransaction
<1>2. PICK f \in Recipes(wallet, minted + 1) :
        \E g \in Recipes(PrepareShieldedOffer(wallet, f), minted + Cardinality(f.outputs) + 1) :
          Book(t, PrepareShieldedOffer(PrepareShieldedOffer(wallet, f), g), f.inputs \cup g.inputs,
               f.outputs \cup g.outputs, f.inputs \cap g.inputs # {})
  BY DEF BalanceTransaction, StateForGuaranteed
<1> DEFINE after == PrepareShieldedOffer(wallet, f)
<1>3. PICK g \in Recipes(after, minted + Cardinality(f.outputs) + 1) :
        Book(t, PrepareShieldedOffer(after, g), f.inputs \cup g.inputs,
             f.outputs \cup g.outputs, f.inputs \cap g.inputs # {})
  BY <1>2
<1> DEFINE w == PrepareShieldedOffer(after, g)
<1>4. /\ after \in CoinSets /\ after.coins = wallet.coins
      /\ after.pendingSpends = wallet.pendingSpends \cup f.inputs
      /\ after.pendingOutputs = wallet.pendingOutputs \cup f.outputs
      /\ after.coinHashes = wallet.coinHashes \cup f.outputs
      /\ f.inputs \subseteq AvailableCoins(wallet)
      /\ f.outputs = {} \/ f.outputs = {minted + 1}
  <2>1. minted + 1 \in Nat
    BY <1>1
  <2> QED BY <1>1, <2>1, PreparedOffer
<1>5. Cardinality(f.outputs) \in Nat
  BY <1>1, <1>4, NewCoins
<1> HIDE DEF after
<1>6. /\ w \in CoinSets /\ w.coins = after.coins
      /\ w.pendingSpends = after.pendingSpends \cup g.inputs
      /\ w.pendingOutputs = after.pendingOutputs \cup g.outputs
      /\ w.coinHashes = after.coinHashes \cup g.outputs
      /\ g.inputs \subseteq AvailableCoins(after)
      /\ g.outputs = {} \/ g.outputs = {minted + Cardinality(f.outputs) + 1}
  <2>1. minted + Cardinality(f.outputs) + 1 \in Nat
    BY <1>1, <1>5
  <2> QED BY <1>4, <2>1, PreparedOffer
<1> HIDE DEF w
<1>7. g.inputs \subseteq AvailableCoins(wallet) /\ f.inputs \cap g.inputs = {}
  BY <1>4, <1>6 DEF AvailableCoins
<1>8. /\ f.outputs \cup g.outputs \subseteq (minted + 1)..(minted + Cardinality(f.outputs \cup g.outputs))
      /\ Cardinality(f.outputs \cup g.outputs) \in Nat
  BY <1>1, <1>4, <1>6, NewCoins
<1>9. Book(t, w, f.inputs \cup g.inputs, f.outputs \cup g.outputs, FALSE)
  <2>1. (f.inputs \cap g.inputs # {}) = FALSE
    BY <1>7
  <2>2. Book(t, w, f.inputs \cup g.inputs, f.outputs \cup g.outputs, f.inputs \cap g.inputs # {})
    BY <1>3 DEF w
  <2> QED BY <2>1, <2>2
<1> DEFINE paid == f.inputs \cup g.inputs
           new == f.outputs \cup g.outputs
<1>10. /\ w.coins = wallet.coins /\ w.pendingSpends = wallet.pendingSpends \cup paid
       /\ w.pendingOutputs = wallet.pendingOutputs \cup new
       /\ w.coinHashes = wallet.coinHashes \cup new /\ paid \subseteq AvailableCoins(wallet)
  BY <1>4, <1>6, <1>7
<1>11. /\ Book(t, w, paid, new, FALSE) /\ Cardinality(new) \in Nat
       /\ new \subseteq (minted + 1)..(minted + Cardinality(new))
  BY <1>8, <1>9
<1> HIDE DEF paid, new
<1> QED BY <1>1, <1>6, <1>10, <1>11, BookInv

LEMMA WatchInv ==
  ASSUME ShieldedInv, NEW t \in STxs, stxs[t].stage = "none", NEW b, BalanceAndWatch(t, b)
  PROVE  ShieldedInv'
<1>1. wallet \in CoinSets /\ minted \in Nat
  BY DEF ShieldedInv, WalletAt
<1>2. PICK self \in SelfCoins(minted + 1) :
        \E g \in Recipes(wallet, minted + Cardinality(self) + 1) :
          Book(t, WatchCoins(PrepareShieldedOffer(wallet, g), self), g.inputs, g.outputs \cup self, FALSE)
  BY DEF BalanceAndWatch
<1>3. PICK g \in Recipes(wallet, minted + Cardinality(self) + 1) :
          Book(t, WatchCoins(PrepareShieldedOffer(wallet, g), self), g.inputs, g.outputs \cup self, FALSE)
  BY <1>2
<1>4. self = {} \/ self = {minted + 1}
  BY <1>2 DEF SelfCoins
<1>5. Cardinality(self) \in Nat
  BY <1>1, <1>4, NewCoins
<1> DEFINE p == PrepareShieldedOffer(wallet, g)
           w == WatchCoins(p, self)
           new == g.outputs \cup self
<1>6. /\ p \in CoinSets /\ p.coins = wallet.coins
      /\ p.pendingSpends = wallet.pendingSpends \cup g.inputs
      /\ p.pendingOutputs = wallet.pendingOutputs \cup g.outputs
      /\ p.coinHashes = wallet.coinHashes \cup g.outputs
      /\ g.inputs \subseteq AvailableCoins(wallet)
      /\ g.outputs = {} \/ g.outputs = {minted + Cardinality(self) + 1}
  <2>1. minted + Cardinality(self) + 1 \in Nat
    BY <1>1, <1>5
  <2> QED BY <1>1, <2>1, PreparedOffer
<1>7. new \subseteq (minted + 1)..(minted + Cardinality(new)) /\ Cardinality(new) \in Nat
  <2>1. self \cup g.outputs = new
    OBVIOUS
  <2>2. /\ self \cup g.outputs \subseteq (minted + 1)..(minted + Cardinality(self \cup g.outputs))
        /\ Cardinality(self \cup g.outputs) \in Nat
    BY <1>1, <1>4, <1>6, NewCoins
  <2> HIDE DEF new
  <2> QED BY <2>1, <2>2
<1>8. Book(t, w, g.inputs, new, FALSE)
  BY <1>3
<1> HIDE DEF p
<1>9. /\ w \in CoinSets /\ w.coins = p.coins /\ w.pendingSpends = p.pendingSpends
      /\ w.pendingOutputs = p.pendingOutputs \cup self /\ w.coinHashes = p.coinHashes \cup self
  <2>1. self \in SUBSET Nat
    BY <1>1, <1>4
  <2> QED BY <1>6, <2>1 DEF WatchCoins, CoinSets
<1> HIDE DEF w
<1>10. /\ w.coins = wallet.coins /\ w.pendingSpends = wallet.pendingSpends \cup g.inputs
       /\ w.pendingOutputs = wallet.pendingOutputs \cup new
       /\ w.coinHashes = wallet.coinHashes \cup new
  BY <1>6, <1>9
<1> HIDE DEF new
<1> QED BY <1>6, <1>7, <1>8, <1>9, <1>10, BookInv


(* The coins of a reverted transaction are available again.                *)
LEMMA RevertShieldedInv ==
  ASSUME ShieldedInv, NEW t \in STxs, RevertShieldedTransaction(t) PROVE ShieldedInv'
<1>1. /\ stxs[t].stage # "none" /\ wallet' = Reverted(wallet, t)
      /\ smishap' = (smishap \/ (stxs[t].stage # "built" /\ stxs[t].spends \cap wallet.pendingSpends # {}))
      /\ stxs' = [stxs EXCEPT ![t].stage =
                    IF @ \in {"included", "reverted_included"} THEN "reverted_included" ELSE "reverted"]
      /\ UNCHANGED <<appliedTo, minted, events, savedShielded>>
  BY DEF RevertShieldedTransaction
<1>2. ShieldedTxsSound /\ WalletAt(wallet, events, appliedTo) /\ wallet \in CoinSets
  BY DEF ShieldedInv, WalletAt
<1>3. /\ stxs' \in [STxs -> [stage : {"none", "built", "reverted", "included", "reverted_included"},
                             spends : SUBSET Nat, outputs : SUBSET Nat, clash : BOOLEAN]]
      /\ stxs'[t].stage \in {"reverted", "reverted_included"}
      /\ stxs'[t].stage \in Included <=> stxs[t].stage \in Included
      /\ \A u \in STxs : /\ stxs'[u].spends = stxs[u].spends /\ stxs'[u].outputs = stxs[u].outputs
                         /\ stxs'[u].clash = stxs[u].clash
                         /\ u # t => stxs'[u].stage = stxs[u].stage
  BY <1>1, <1>2 DEF ShieldedTxsSound, Included
<1>4. /\ wallet'.coins = wallet.coins /\ wallet'.coinHashes = wallet.coinHashes
      /\ wallet'.pendingSpends = wallet.pendingSpends \ stxs[t].spends
      /\ wallet'.pendingOutputs = wallet.pendingOutputs \ stxs[t].outputs
      /\ wallet' \in CoinSets
  BY <1>1, <1>2 DEF Reverted, CoinSets
<1>5. WalletAt(wallet', events, appliedTo)
  BY <1>2, <1>4 DEF WalletAt, AssertValid, PickAllCoins
<1>6. ShieldedTxsSound'
  BY <1>1, <1>2, <1>3 DEF ShieldedTxsSound
<1>7. InUse' = InUse \ {t}
  BY <1>3 DEF InUse
<1>8. ASSUME ~smishap' PROVE ShieldedOrderly'
  <2>1. ShieldedOrderly
    BY <1>1, <1>8 DEF ShieldedInv
  <2> DEFINE gone == Gone(stxs, InUse)
             made == MadeBy(stxs, InUse)
             rest == InUse \ {t}
             goneNow == Gone(stxs', rest)
             madeNow == MadeBy(stxs', rest)
  <2>2. /\ goneNow \subseteq gone /\ gone \subseteq goneNow \cup stxs[t].spends
        /\ madeNow \subseteq made /\ made \subseteq madeNow \cup stxs[t].outputs
        /\ madeNow \cap stxs[t].outputs = {}
    <3>1. \A u \in STxs : stxs'[u].spends = stxs[u].spends /\ stxs'[u].outputs = stxs[u].outputs
      BY <1>3
    <3>2. \A u \in rest : u \in STxs /\ stxs[u].outputs \cap stxs[t].outputs = {}
      BY <1>2 DEF ShieldedTxsSound, InUse
    <3>3. \A u \in InUse : u \in STxs
      BY DEF InUse
    <3> QED BY <3>1, <3>2, <3>3 DEF Gone, MadeBy
  <2>3. t \in InUse => stxs[t].outputs \subseteq made
    BY DEF MadeBy
  <2>4. wallet.pendingSpends = gone \ SpentBy(events, appliedTo)
        /\ wallet.pendingOutputs = made \ SeenBy(events, appliedTo)
    BY <2>1 DEF ShieldedOrderly, PendingAt
  <2>5. wallet'.pendingSpends = goneNow \ SpentBy(events, appliedTo)
    <3>1. CASE stxs[t].spends \cap wallet.pendingSpends = {}
      <4> HIDE DEF gone, goneNow
      <4> QED BY <1>4, <2>2, <2>4, <3>1
    <3>2. CASE stxs[t].spends \cap wallet.pendingSpends # {}
      <4>1. t \in InUse
        BY <1>1, <1>8, <3>2 DEF InUse
      <4>2. goneNow \cap stxs[t].spends = {}
        <5>1. \A u \in rest : stxs[u].spends \cap stxs[t].spends = {} /\ stxs'[u].spends = stxs[u].spends
          BY <1>3, <2>1, <4>1 DEF ShieldedOrderly, InUse
        <5> QED BY <5>1 DEF Gone
      <4> HIDE DEF gone, goneNow
      <4> QED BY <1>4, <2>2, <2>4, <4>2
    <3> QED BY <3>1, <3>2
  <2>6. wallet'.pendingOutputs = madeNow \ SeenBy(events, appliedTo)
    <3> HIDE DEF made, madeNow
    <3> QED BY <1>4, <2>2, <2>4
  <2>7. PendingAt(wallet', events, appliedTo, Gone(stxs', InUse'), MadeBy(stxs', InUse'))
    BY <1>7, <2>5, <2>6 DEF PendingAt
  <2>8. \A u \in STxs : stxs'[u].spends \subseteq SeenBy(events, appliedTo)
    BY <1>3, <2>1 DEF ShieldedOrderly
  <2>9. /\ \A u \in InUse' : ~stxs'[u].clash
        /\ \A u, v \in InUse' : u # v => stxs'[u].spends \cap stxs'[v].spends = {}
    <3>1. \A u \in InUse' : /\ u \in InUse /\ stxs'[u].spends = stxs[u].spends
                            /\ stxs'[u].clash = stxs[u].clash
      BY <1>3, <1>7 DEF InUse
    <3> QED BY <2>1, <3>1 DEF ShieldedOrderly
  <2> QED BY <1>1, <2>7, <2>8, <2>9 DEF ShieldedOrderly
<1> QED BY <1>1, <1>5, <1>6, <1>8 DEF ShieldedInv

(* An event that spends what is on chain and makes new coins, and whose    *)
(* transactions keep to the rules, moves the chain and nothing else.       *)
LEMMA NewEvent ==
  ASSUME ShieldedInv, NEW e \in ChainEvents, events' = Append(events, e),
         UNCHANGED <<wallet, appliedTo, savedShielded, smishap>>,
         e.spends \subseteq SeenBy(events, Len(events)),
         e.outputs \cap SeenBy(events, Len(events)) = {},
         \A c \in e.outputs : c <= minted', minted' \in Nat, minted <= minted',
         /\ stxs' \in [STxs -> [stage : {"none", "built", "reverted", "included", "reverted_included"},
                                spends : SUBSET Nat, outputs : SUBSET Nat, clash : BOOLEAN]]
         /\ \A u \in STxs : /\ stxs'[u].spends = stxs[u].spends /\ stxs'[u].outputs = stxs[u].outputs
                            /\ stxs'[u].clash = stxs[u].clash
                            /\ stxs'[u].stage = "none" => stxs[u].stage = "none"
                            /\ stxs'[u].stage \notin Included =>
                                 /\ stxs[u].stage \notin Included
                                 /\ stxs[u].outputs \cap e.outputs = {},
         InUse' = InUse
  PROVE  ShieldedInv'
<1> DEFINE n == Len(events)
<1>1. /\ events \in Seq(ChainEvents) /\ n \in Nat /\ Len(events') = n + 1
      /\ events' \in Seq(ChainEvents) /\ events'[n + 1] = e
      /\ \A i \in 1..n : events'[i] = events[i]
  BY DEF ShieldedInv, ChainSound
<1>2. \A a \in 0..n : SeenBy(events', a) = SeenBy(events, a) /\ SpentBy(events', a) = SpentBy(events, a)
  BY <1>1, AppendedEvent
<1>3. SeenBy(events', n + 1) = SeenBy(events, n) \cup e.outputs
  <2>1. SeenBy(events', n + 1) = SeenBy(events', n) \cup events'[n + 1].outputs
    BY <1>1, OneMoreEvent
  <2> QED BY <1>1, <1>2, <2>1
<1>4. ChainSound(events')
  <2>1. ASSUME NEW i \in 1..(n + 1)
        PROVE  /\ events'[i].spends \subseteq SeenBy(events', i - 1)
               /\ events'[i].outputs \cap SeenBy(events', i - 1) = {}
    <3>1. CASE i = n + 1
      <4>1. i - 1 = n /\ events'[i] = e /\ SeenBy(events', i - 1) = SeenBy(events, n)
        BY <1>1, <1>2, <3>1
      <4> QED BY <4>1
    <3>2. CASE i # n + 1
      <4>1. i \in 1..n /\ i - 1 \in 0..n
        BY <1>1, <3>2
      <4>2. events'[i] = events[i] /\ SeenBy(events', i - 1) = SeenBy(events, i - 1)
        BY <1>1, <1>2, <4>1
      <4>3. events[i].spends \subseteq SeenBy(events, i - 1)
            /\ events[i].outputs \cap SeenBy(events, i - 1) = {}
        BY <4>1 DEF ShieldedInv, ChainSound
      <4> QED BY <4>2, <4>3
    <3> QED BY <3>1, <3>2
  <2> QED BY <1>1, <2>1 DEF ChainSound
<1>5. minted' \in Nat /\ InitialCoins <= minted'
  BY ShieldedBounds DEF ShieldedInv
<1>6. \A c \in SeenBy(events', n + 1) : c <= minted'
  <2> SUFFICES ASSUME NEW c \in SeenBy(events, n) PROVE c <= minted'
    BY <1>3
  <2>1. c \in Nat
    <3>1. \A i \in 1..n : events[i] \in ChainEvents
      BY <1>1
    <3>2. \A i \in 1..n : events[i].outputs \subseteq Nat
      BY <3>1 DEF ChainEvents
    <3> QED BY <3>2, ShieldedBounds DEF SeenBy
  <2>2. c <= minted /\ minted \in Nat
    BY DEF ShieldedInv
  <2> QED BY <2>1, <2>2
<1>7. ShieldedTxsSound'
  <2>1. ShieldedTxsSound /\ minted \in Nat
    BY DEF ShieldedInv
  <2>2. \A u \in STxs : stxs'[u].spends \subseteq SeenBy(events', n + 1)
    BY <1>3, <2>1 DEF ShieldedTxsSound
  <2>3. \A u \in STxs : \A c \in stxs'[u].outputs : InitialCoins < c /\ c <= minted'
    <3> SUFFICES ASSUME NEW u \in STxs, NEW c \in stxs[u].outputs
                 PROVE  InitialCoins < c /\ c <= minted'
      OBVIOUS
    <3>1. InitialCoins < c /\ c <= minted /\ c \in Nat
      BY <2>1 DEF ShieldedTxsSound
    <3> QED BY <2>1, <3>1
  <2>4. \A u \in STxs : stxs'[u].stage \notin Included
                          => stxs'[u].outputs \cap SeenBy(events', n + 1) = {}
    BY <1>3, <2>1 DEF ShieldedTxsSound
  <2>5. /\ \A u, v \in STxs : u # v => stxs'[u].outputs \cap stxs'[v].outputs = {}
        /\ \A u \in STxs : stxs'[u].stage = "none" => stxs'[u].spends = {} /\ stxs'[u].outputs = {}
    BY <2>1 DEF ShieldedTxsSound
  <2> QED BY <1>1, <2>2, <2>3, <2>4, <2>5 DEF ShieldedTxsSound
<1>8. /\ appliedTo \in 0..n /\ savedShielded.appliedTo \in 0..n
      /\ appliedTo \in 0..(n + 1) /\ savedShielded.appliedTo \in 0..(n + 1)
  BY <1>1 DEF ShieldedInv
<1>9. WalletAt(wallet, events', appliedTo)
      /\ WalletAt(savedShielded.wallet, events', savedShielded.appliedTo)
  BY <1>2, <1>8 DEF WalletAt, ShieldedInv
<1>10. ASSUME ~smishap PROVE ShieldedOrderly'
  <2>1. ShieldedOrderly
    BY <1>10 DEF ShieldedInv
  <2>2. Gone(stxs', InUse) = Gone(stxs, InUse) /\ MadeBy(stxs', InUse) = MadeBy(stxs, InUse)
    BY DEF Gone, MadeBy, InUse
  <2>3. PendingAt(wallet, events', appliedTo, Gone(stxs', InUse), MadeBy(stxs', InUse))
    BY <1>2, <1>8, <2>1, <2>2 DEF ShieldedOrderly, PendingAt
  <2>4. \A u \in STxs : stxs'[u].spends \subseteq SeenBy(events', appliedTo)
    BY <1>2, <1>8, <2>1 DEF ShieldedOrderly
  <2>5. /\ \A u \in InUse : ~stxs'[u].clash
        /\ \A u, v \in InUse : u # v => stxs'[u].spends \cap stxs'[v].spends = {}
    BY <2>1 DEF ShieldedOrderly, InUse
  <2> QED BY <2>3, <2>4, <2>5 DEF ShieldedOrderly
<1> QED BY <1>1, <1>4, <1>5, <1>6, <1>7, <1>8, <1>9, <1>10 DEF ShieldedInv

LEMMA IncludeShieldedInv ==
  ASSUME ShieldedInv, NEW t \in STxs, IncludeShieldedTransaction(t) PROVE ShieldedInv'
<1> DEFINE e == [spends |-> stxs[t].spends, outputs |-> stxs[t].outputs]
<1>1. /\ stxs[t].stage \in {"built", "reverted"} /\ events' = Append(events, e)
      /\ stxs' = [stxs EXCEPT ![t].stage = IF @ = "built" THEN "included" ELSE "reverted_included"]
      /\ UNCHANGED <<wallet, appliedTo, minted, savedShielded, smishap>>
  BY DEF IncludeShieldedTransaction
<1>2. ShieldedTxsSound /\ minted \in Nat
  BY DEF ShieldedInv
<1>3. e \in ChainEvents /\ e.spends = stxs[t].spends /\ e.outputs = stxs[t].outputs
  BY <1>2 DEF ShieldedTxsSound, ChainEvents
<1> HIDE DEF e
<1>4. /\ e.spends \subseteq SeenBy(events, Len(events))
      /\ e.outputs \cap SeenBy(events, Len(events)) = {}
      /\ \A c \in e.outputs : c <= minted
  BY <1>1, <1>2, <1>3 DEF ShieldedTxsSound, Included
<1>5. /\ stxs' \in [STxs -> [stage : {"none", "built", "reverted", "included", "reverted_included"},
                             spends : SUBSET Nat, outputs : SUBSET Nat, clash : BOOLEAN]]
      /\ stxs'[t].stage = IF stxs[t].stage = "built" THEN "included" ELSE "reverted_included"
      /\ \A u \in STxs : /\ stxs'[u].spends = stxs[u].spends /\ stxs'[u].outputs = stxs[u].outputs
                         /\ stxs'[u].clash = stxs[u].clash
                         /\ u # t => stxs'[u].stage = stxs[u].stage
  BY <1>1, <1>2 DEF ShieldedTxsSound
<1>6. \A u \in STxs : u # t => stxs[u].outputs \cap e.outputs = {}
  BY <1>2, <1>3 DEF ShieldedTxsSound
<1>7. /\ \A u \in STxs : /\ stxs'[u].stage = "none" => stxs[u].stage = "none"
                         /\ stxs'[u].stage \notin Included =>
                              stxs[u].stage \notin Included /\ stxs[u].outputs \cap e.outputs = {}
      /\ InUse' = InUse
  BY <1>1, <1>5, <1>6 DEF Included, InUse
<1> QED BY <1>1, <1>2, <1>3, <1>4, <1>5, <1>7, NewEvent

LEMMA ReceiveInv == ASSUME ShieldedInv, Receive PROVE ShieldedInv'
<1> DEFINE e == [spends |-> {}, outputs |-> {minted + 1}]
<1>1. /\ events' = Append(events, e) /\ minted' = minted + 1
      /\ UNCHANGED <<wallet, appliedTo, stxs, savedShielded, smishap>>
  BY DEF Receive
<1>2. /\ ShieldedTxsSound /\ minted \in Nat
      /\ \A c \in SeenBy(events, Len(events)) : c <= minted
  BY DEF ShieldedInv
<1>3. e \in ChainEvents /\ e.spends = {} /\ e.outputs = {minted + 1}
  BY <1>2 DEF ChainEvents
<1> HIDE DEF e
<1>4. e.outputs \cap SeenBy(events, Len(events)) = {}
  <2> SUFFICES ASSUME minted + 1 \in SeenBy(events, Len(events)) PROVE FALSE
    BY <1>3
  <2>1. minted + 1 <= minted
    BY <1>2
  <2> QED BY <1>2, <2>1
<1>5. \A u \in STxs : stxs[u].outputs \cap e.outputs = {}
  <2> SUFFICES ASSUME NEW u \in STxs, minted + 1 \in stxs[u].outputs PROVE FALSE
    BY <1>3
  <2>1. minted + 1 <= minted
    BY <1>2 DEF ShieldedTxsSound
  <2> QED BY <1>2, <2>1
<1>6. /\ \A c \in e.outputs : c <= minted'
      /\ minted' \in Nat /\ minted <= minted' /\ e.spends \subseteq SeenBy(events, Len(events))
  BY <1>1, <1>2, <1>3
<1>7. InUse' = InUse
  BY <1>1 DEF InUse
<1>8. stxs' \in [STxs -> [stage : {"none", "built", "reverted", "included", "reverted_included"},
                          spends : SUBSET Nat, outputs : SUBSET Nat, clash : BOOLEAN]]
  BY <1>1, <1>2 DEF ShieldedTxsSound
<1> QED BY <1>1, <1>3, <1>4, <1>5, <1>6, <1>7, <1>8, NewEvent

LEMMA UpdateInv == ASSUME ShieldedInv, ApplyShieldedUpdate PROVE ShieldedInv'
<1>1. PICK k \in (appliedTo + 1)..Len(events) :
        /\ wallet' = ReplayAll(wallet, SubSeq(events, appliedTo + 1, k))
        /\ appliedTo' = k
        /\ UNCHANGED <<stxs, minted, events, savedShielded, srestores, smishap>>
  BY DEF ApplyShieldedUpdate
<1>2. /\ ChainSound(events) /\ appliedTo \in 0..Len(events) /\ Len(events) \in Nat
      /\ WalletAt(wallet, events, appliedTo) /\ ShieldedTxsSound
  BY DEF ShieldedInv, ChainSound
<1>3. k \in appliedTo..Len(events) /\ k \in 0..Len(events) /\ appliedTo <= k /\ appliedTo \in Nat
  BY <1>1, <1>2
<1>4. /\ WalletAt(wallet', events, k)
      /\ \A gone, made : PendingAt(wallet, events, appliedTo, gone, made)
                           => PendingAt(wallet', events, k, gone, made)
  BY <1>1, <1>2, <1>3, ReplayMany
<1>5. SeenBy(events, appliedTo) \subseteq SeenBy(events, k)
  BY <1>1, <1>3, EarlierEvents
<1>6. ShieldedTxsSound' /\ InUse' = InUse
  BY <1>1, <1>2 DEF ShieldedTxsSound, InUse
<1>7. ASSUME ~smishap PROVE ShieldedOrderly'
  <2>1. ShieldedOrderly
    BY <1>7 DEF ShieldedInv
  <2>2. PendingAt(wallet', events, k, Gone(stxs, InUse), MadeBy(stxs, InUse))
    BY <1>4, <2>1 DEF ShieldedOrderly
  <2>3. \A u \in STxs : stxs[u].spends \subseteq SeenBy(events, k)
    BY <1>5, <2>1 DEF ShieldedOrderly
  <2> QED BY <1>1, <1>6, <2>1, <2>2, <2>3 DEF ShieldedOrderly
<1> QED BY <1>1, <1>3, <1>4, <1>6, <1>7 DEF ShieldedInv

LEMMA ShieldedNextInv == ShieldedInv /\ [ShieldedNext]_shieldedVars => ShieldedInv'
<1> SUFFICES ASSUME ShieldedInv, [ShieldedNext]_shieldedVars PROVE ShieldedInv'
  OBVIOUS
<1>1. ASSUME NEW t \in STxs, BalanceTransaction(t) PROVE ShieldedInv'
  BY <1>1, BalanceInv
<1>2. ASSUME NEW t \in STxs, MakeShieldedTransfer(t) \/ InitShieldedSwap(t) PROVE ShieldedInv'
  BY <1>2, WatchInv DEF MakeShieldedTransfer, InitShieldedSwap
<1>3. ASSUME NEW t \in STxs, RevertShieldedTransaction(t) PROVE ShieldedInv'
  BY <1>3, RevertShieldedInv
<1>4. ASSUME NEW t \in STxs, IncludeShieldedTransaction(t) PROVE ShieldedInv'
  BY <1>4, IncludeShieldedInv
<1>5. ASSUME Receive PROVE ShieldedInv'
  BY <1>5, ReceiveInv
<1>6. ASSUME ApplyShieldedUpdate PROVE ShieldedInv'
  BY <1>6, UpdateInv
<1>7. ASSUME SerializeShielded \/ RestoreShielded \/ UNCHANGED shieldedVars PROVE ShieldedInv'
  <2>1. UNCHANGED <<stxs, minted, events>>
    BY <1>7 DEF SerializeShielded, RestoreShielded, shieldedVars
  <2>2. ShieldedTxsSound' /\ InUse' = InUse
    BY <2>1 DEF ShieldedInv, ShieldedTxsSound, InUse
  <2>3. CASE SerializeShielded
    <3>1. /\ savedShielded'.wallet = wallet /\ savedShielded'.appliedTo = appliedTo
          /\ UNCHANGED <<wallet, appliedTo, smishap>>
      BY <2>3 DEF SerializeShielded
    <3>2. ShieldedOrderly' = ShieldedOrderly
      BY <2>1, <2>2, <3>1 DEF ShieldedOrderly
    <3> QED BY <2>1, <2>2, <3>1, <3>2 DEF ShieldedInv
  <2>4. CASE RestoreShielded
    <3>1. /\ wallet' = savedShielded.wallet /\ appliedTo' = savedShielded.appliedTo
          /\ smishap' = TRUE /\ UNCHANGED savedShielded
      BY <2>4 DEF RestoreShielded
    <3> QED BY <2>1, <2>2, <3>1 DEF ShieldedInv
  <2>5. CASE UNCHANGED shieldedVars
    <3>1. UNCHANGED <<wallet, appliedTo, smishap, savedShielded>>
      BY <2>5 DEF shieldedVars
    <3>2. ShieldedOrderly' = ShieldedOrderly
      BY <2>1, <2>2, <3>1 DEF ShieldedOrderly
    <3> QED BY <2>1, <2>2, <3>1, <3>2 DEF ShieldedInv
  <2> QED BY <1>7, <2>3, <2>4, <2>5
<1> QED BY <1>1, <1>2, <1>3, <1>4, <1>5, <1>6, <1>7 DEF ShieldedNext

(* Every coin the accessors list has its hash, also in every snapshot; no  *)
(* coin is spent in two sections or by two transactions in use; and the    *)
(* total balance is what the wallet will own once all of them are on       *)
(* chain, unless a restart forgot bookings or a transaction was reverted   *)
(* again after its coins went to another.                                  *)
THEOREM ShieldedBookingsAgree == ShieldedSpec => []ShieldedBookings
  BY ShieldedInitInv, ShieldedNextInv, ShieldedBookingsHold, PTL DEF ShieldedSpec


-----------------------------------------------------------------------------
(* The life of a wallet object                                             *)

(* What transacts in a builder is for its type of transactions, and what   *)
(* was built of it is complete.                                            *)
BuildInv ==
  /\ whichWallet \in {"shielded", "dust", "unshielded"}
  /\ builder \in [has : [ShieldedNeeded -> TransactionTypes \cup {Nothing}], type : TransactionTypes]
  /\ builder.has["transacting"] \in {Nothing, builder.type}
  /\ BuiltWhole

MaybeState == WalletStates \cup {Nothing}

ViewTypes ==
  /\ object # "none" => held \in WalletStates /\ published \in WalletStates
  /\ unread \in Seq(WalletStates)
  /\ shared \in [on : BOOLEAN, queue : Seq(WalletStates), latest : MaybeState, replay : MaybeState]
  /\ shared.on => object # "none"
  /\ ~shared.on => shared = Disconnected
  /\ asks \in [Asks -> [stage : {"idle", "waiting", "answered"}, kind : {"serialize", "synced"},
                        state : MaybeState]]
  /\ \A a \in Asks : asks[a].stage = "answered" => asks[a].state \in WalletStates
  /\ newest \in MaybeState /\ backwards = FALSE
  /\ newest # Nothing => object # "none"

(* The last state of each queue is the one its source has.                 *)
LastGiven(s) ==
  IF s.queue # <<>> THEN s.queue[Len(s.queue)]
  ELSE IF s.latest # Nothing THEN s.latest ELSE s.replay

Flows ==
  /\ object = "open" => held = IF unread = <<>> THEN published ELSE unread[Len(unread)]
  /\ shared.on => published = LastGiven(shared)

(* From the answers given back to the variant's reference, states only get *)
(* newer.                                                                  *)
Later(s, t) == s # Nothing /\ t # Nothing => s.n <= t.n
Increasing(q) == \A i, j \in 1..Len(q) : i <= j => Later(q[i], q[j])
AllAfter(s, q) == \A i \in 1..Len(q) : Later(s, q[i])
AllBefore(q, s) == \A i \in 1..Len(q) : Later(q[i], s)

SharedOrdered ==
  /\ Increasing(shared.queue) /\ AllBefore(shared.queue, published)
  /\ AllAfter(newest, shared.queue) /\ AllAfter(shared.replay, shared.queue)
  /\ AllAfter(shared.latest, shared.queue)
  /\ Later(shared.replay, shared.latest) /\ Later(shared.latest, published)
  /\ Later(shared.replay, published)
  /\ Later(newest, published) /\ Later(newest, shared.replay) /\ Later(newest, shared.latest)

UnreadOrdered ==
  /\ Increasing(unread) /\ AllBefore(unread, held) /\ AllAfter(published, unread)
  /\ object # "none" => Later(published, held)

(* Who still waits has not been shown what it waits for.                   *)
WaitsForMore ==
  \A a \in Waiting : shared.replay # Nothing => ~Meets(asks[a].kind, shared.replay)

ViewInv == ViewTypes /\ Flows /\ SharedOrdered /\ UnreadOrdered /\ WaitsForMore

(* What keeps a stopped facade quiet.                                      *)
StopInv ==
  /\ object \in {"none", "open", "stopped"}
  /\ syncs \in Nat /\ polling \in [open : BOOLEAN, n : Nat]
  /\ facade \in [stage : {"making", "ready", "stopping", "stopped", "failed"},
                 next : {"services", "wallet", "rest"}]
  /\ facade.stage \notin {"making", "failed"} \/ facade.next = "rest" => object # "none"
  /\ object # "open" => syncs = 0
  /\ ~polling.open => polling.n = 0
  /\ facade.stage \in {"stopping", "stopped"} =>
       /\ ~reverting
       /\ "wallet" \notin stopping => object # "open"
       /\ "pending" \notin stopping => ~polling.open
  /\ stopping \subseteq {"wallet", "pending"}
  /\ stopping # {} => facade.stage = "stopping"

ClassesInv == BuildInv /\ ViewInv /\ StopInv

LEMMA StatesAreNumbers ==
  /\ \A s \in WalletStates : s.n \in Nat /\ s.n <= MaxWrites /\ s.done \in BOOLEAN
  /\ Nothing \notin WalletStates /\ MaxWrites \in Nat
  BY ClassesAssumption DEF WalletStates

LEMMA SameParts ==
  /\ ShieldedNeeded = DustNeeded /\ ShieldedNeeded = UnshieldedNeeded
  /\ "transacting" \in ShieldedNeeded
<1>1. ShieldedNeeded = DustNeeded /\ ShieldedNeeded = UnshieldedNeeded
  BY DEF ShieldedNeeded, DustNeeded, UnshieldedNeeded, DustSetters, UnshieldedSetters
<1>2. "withTransacting" \in DOMAIN ShieldedSetters /\ ShieldedSetters["withTransacting"] = {"transacting"}
  BY DEF ShieldedSetters
<1>3. "transacting" \in ShieldedNeeded
  BY <1>2 DEF ShieldedNeeded
<1> QED BY <1>1, <1>3

LEMMA NeededIsAll == BuildInv => Needed = ShieldedNeeded
  BY SameParts DEF BuildInv, Needed

LEMMA BuildNextInv == BuildInv /\ [ClassesNext]_classVars => BuildInv'
<1> SUFFICES ASSUME BuildInv, [ClassesNext]_classVars PROVE BuildInv'
  OBVIOUS
<1> USE SameParts
<1> DEFINE Has == [ShieldedNeeded -> TransactionTypes \cup {Nothing}]
           B == [has : Has, type : TransactionTypes]
<1>1. Needed = ShieldedNeeded
  BY NeededIsAll
<1>2. ASSUME variant = Nothing, UNCHANGED whichWallet, variant' = variant, builder' \in B,
             builder'.has["transacting"] \in {Nothing, builder'.type}
      PROVE  BuildInv'
  BY <1>2 DEF BuildInv, BuiltWhole
<1>3. ASSUME NEW t \in TransactionTypes, NEW b \in B PROVE WithType(b, t) \in B
  BY <1>3 DEF WithType
<1>4. ASSUME NEW t \in TransactionTypes, WithTransactionType(t) PROVE BuildInv'
  <2>1. WithType(builder, t) \in B
    BY <1>3 DEF BuildInv
  <2>2. WithType(builder, t).has["transacting"] = Nothing /\ WithType(builder, t).type = t
    BY <1>4 DEF BuildInv, WithTransactionType, Building, WithType, Typed, ShieldedTyped, DustTyped
  <2> QED BY <1>2, <1>4, <2>1, <2>2 DEF WithTransactionType, Building
<1>5. ASSUME NEW m \in DOMAIN Setters, WithComponent(m) PROVE BuildInv'
  <2> DEFINE has == [p \in ShieldedNeeded |-> IF p \in Setters[m] THEN builder.type ELSE builder.has[p]]
  <2>1. builder' = [has |-> has, type |-> builder.type]
    BY <1>5 DEF WithComponent, BuildInv
  <2>2. has \in Has /\ has["transacting"] \in {Nothing, builder.type}
    BY DEF BuildInv
  <2> QED BY <1>2, <1>5, <2>1, <2>2 DEF WithComponent, Building, BuildInv
<1>6. CASE WithDefaults
  <2>1. Defaults(builder) \in B /\ Defaults(builder).has["transacting"] = Defaults(builder).type
    <3>1. CASE whichWallet = "unshielded"
      <4>1. Defaults(builder) = UnshieldedDefaults(builder)
        BY <3>1 DEF Defaults
      <4>2. UnshieldedDefaults(builder)
              = [has |-> [p \in ShieldedNeeded |-> builder.type], type |-> builder.type]
        BY DEF UnshieldedDefaults, BuildInv
      <4> QED BY <4>1, <4>2 DEF BuildInv
    <3>2. CASE whichWallet \in {"shielded", "dust"}
      <4>1. Defaults(builder) \in {ShieldedDefaults(builder), DustDefaults(builder)}
        BY <3>2 DEF Defaults
      <4> DEFINE typed == WithType(builder, "finalized")
      <4>2. typed \in B /\ typed.type = "finalized"
        BY <1>3 DEF WithType, TransactionTypes, BuildInv
      <4> HIDE DEF typed
      <4> DEFINE all == [has |-> [p \in ShieldedNeeded |-> "finalized"], type |-> "finalized"]
      <4>3. [typed EXCEPT !.has = [p \in DOMAIN @ |-> IF p \in ShieldedNeeded THEN "finalized" ELSE @[p]]]
             = all
        BY <4>2
      <4>4. ShieldedDefaults(builder) = all /\ DustDefaults(builder) = all
        BY <4>3 DEF ShieldedDefaults, DustDefaults, typed
      <4> QED BY <4>1, <4>4 DEF TransactionTypes
    <3> QED BY <3>1, <3>2 DEF BuildInv
  <2> QED BY <1>2, <1>6, <2>1 DEF WithDefaults, Building
<1>7. CASE BuildClass
  <2>1. variant' = [p \in ShieldedNeeded |-> builder.has[p]]
    <3> DEFINE made == [p \in ShieldedNeeded |-> builder.has[p]]
    <3>1. ShieldedContext(builder) = made /\ DustContext(builder) = made
          /\ UnshieldedContext(builder) = made
      BY DEF ShieldedContext, DustContext, UnshieldedContext
    <3> HIDE DEF made
    <3>2. variant' = [shielded |-> made, dust |-> made, unshielded |-> made][whichWallet]
      BY <1>7, <3>1 DEF BuildClass
    <3>3. variant' = made
      BY <3>2 DEF BuildInv
    <3> QED BY <3>3 DEF made
  <2>2. \A p \in ShieldedNeeded : builder.has[p] # Nothing
    BY <1>1, <1>7 DEF BuildClass, Complete
  <2>3. UNCHANGED <<whichWallet, builder>>
    BY <1>7 DEF BuildClass, Building
  <2>4. Needed' = Needed
    BY <2>3 DEF Needed
  <2>5. BuiltWhole'
    BY <1>1, <2>1, <2>2, <2>3, <2>4 DEF BuiltWhole, BuildInv
  <2> QED BY <2>3, <2>5 DEF BuildInv
<1>8. CASE UNCHANGED <<whichWallet, buildVars>>
  BY <1>8 DEF BuildInv, buildVars, BuiltWhole, Needed
<1>9. CASE UNCHANGED classVars
  BY <1>8, <1>9 DEF classVars
<1>10. ASSUME ClassesNext, ~(\E t \in TransactionTypes : WithTransactionType(t)),
              ~(\E m \in DOMAIN Setters : WithComponent(m)), ~WithDefaults, ~BuildClass
       PROVE  UNCHANGED <<whichWallet, buildVars>>
  BY <1>10 DEF ClassesNext, FacadeOnly, MakeServices, StartFresh, MakeFacade, InitFails, StartFacade,
       StartSync, StartPolling, SyncUpdate, Command, PublishState, Buffer, Deliver, Ask, Watch,
       Unwatch, StopFacade, StopWallet, StopPolling, StopReturns, Restore
<1> QED BY <1>4, <1>5, <1>6, <1>7, <1>8, <1>9, <1>10
LEMMA StopNextInv == StopInv /\ [ClassesNext]_classVars => StopInv'
<1> SUFFICES ASSUME StopInv, [ClassesNext]_classVars PROVE StopInv'
  OBVIOUS
<1> DEFINE Polling == [open : BOOLEAN, n : Nat]
<1>1. CASE UNCHANGED <<object, syncs, polling, facade, reverting, stopping>>
  BY <1>1 DEF StopInv
<1>2. ASSUME ClassesNext, ~MakeServices, ~StartFresh, ~MakeFacade, ~InitFails, ~StartSync,
             ~StartPolling, ~StopFacade, ~StopWallet, ~StopPolling, ~StopReturns,
             ~(\E a \in Asks : Restore(a))
      PROVE  UNCHANGED <<object, syncs, polling, facade, reverting, stopping>>
  BY <1>2 DEF ClassesNext, Building, WithTransactionType, WithComponent, WithDefaults, BuildClass,
       stateVars, facadeVars, StartFacade, FacadeOnly, SyncUpdate, Command, PublishState, Buffer,
       Deliver, Ask, Watch, Unwatch
<1>3. CASE MakeServices
  BY <1>3 DEF MakeServices, StopInv, FacadeOnly, stateVars
<1>4. CASE StartFresh
  BY <1>4 DEF StartFresh, StopInv, Open
<1>5. CASE MakeFacade
  BY <1>5 DEF MakeFacade, StopInv, FacadeOnly, stateVars
<1>6. CASE InitFails
  BY <1>6 DEF InitFails, StopInv, FacadeOnly, stateVars
<1>7. CASE StartSync
  BY <1>7 DEF StartSync, StopInv, Scoped
<1>8. CASE StartPolling
  <2>1. polling' \in Polling /\ (~polling'.open => polling'.n = 0) /\ polling'.open = polling.open
    BY <1>8 DEF StartPolling, StopInv, Scoped
  <2> QED BY <1>8, <2>1 DEF StartPolling, StopInv, FacadeOnly, stateVars
<1>9. CASE StopFacade
  BY <1>9 DEF StopFacade, StopInv, FacadeOnly, stateVars
<1>10. CASE StopWallet
  BY <1>10 DEF StopWallet, StopInv, VariantClosed
<1>11. CASE StopPolling
  BY <1>11 DEF StopPolling, StopInv, FacadeOnly, stateVars
<1>12. CASE StopReturns
  BY <1>12 DEF StopReturns, StopInv, FacadeOnly, stateVars
<1>13. ASSUME NEW a \in Asks, Restore(a) PROVE StopInv'
  BY <1>13 DEF Restore, StopInv, Open
<1>14. CASE UNCHANGED classVars
  BY <1>1, <1>14 DEF classVars, stateVars, facadeVars
<1> QED BY <1>1, <1>2, <1>3, <1>4, <1>5, <1>6, <1>7, <1>8, <1>9, <1>10, <1>11, <1>12, <1>13, <1>14

-----------------------------------------------------------------------------
(* Queues of states                                                        *)

LEMMA LaterIsTransitive ==
  ASSUME NEW s \in WalletStates, NEW t \in WalletStates, Later(s, t)
  PROVE  \A x \in MaybeState : Later(x, s) => Later(x, t)
<1> SUFFICES ASSUME NEW x \in WalletStates, Later(x, s) PROVE Later(x, t)
  BY DEF MaybeState, Later
<1>1. x.n \in Nat /\ s.n \in Nat /\ t.n \in Nat /\ s # Nothing /\ t # Nothing /\ x # Nothing
  BY StatesAreNumbers
<1> QED BY <1>1 DEF Later

LEMMA Appended ==
  ASSUME NEW q \in Seq(WalletStates), NEW s \in WalletStates, Increasing(q), AllBefore(q, s)
  PROVE  /\ Append(q, s) \in Seq(WalletStates) /\ Append(q, s) # <<>>
         /\ Append(q, s)[Len(Append(q, s))] = s
         /\ Increasing(Append(q, s)) /\ AllBefore(Append(q, s), s)
         /\ \A x : AllAfter(x, q) /\ Later(x, s) => AllAfter(x, Append(q, s))
         /\ \A x \in WalletStates : AllBefore(q, x) /\ Later(s, x) => AllBefore(Append(q, s), x)
<1> DEFINE p == Append(q, s)
<1>1. p \in Seq(WalletStates) /\ Len(p) = Len(q) + 1 /\ p[Len(q) + 1] = s /\ Len(q) \in Nat
      /\ \A i \in 1..Len(q) : p[i] = q[i]
  OBVIOUS
<1> HIDE DEF p
<1>2. \A i \in 1..Len(p) : i \in 1..Len(q) \/ i = Len(q) + 1
  BY <1>1
<1>3. Later(s, s)
  BY StatesAreNumbers DEF Later
<1>4. Increasing(p)
  BY <1>1, <1>2, <1>3 DEF Increasing, AllBefore
<1>5. AllBefore(p, s)
  BY <1>1, <1>2, <1>3 DEF AllBefore
<1>6. \A x : AllAfter(x, q) /\ Later(x, s) => AllAfter(x, p)
  BY <1>1, <1>2 DEF AllAfter
<1>7. \A x \in WalletStates : AllBefore(q, x) /\ Later(s, x) => AllBefore(p, x)
  BY <1>1, <1>2 DEF AllBefore
<1>8. p # <<>> /\ p[Len(p)] = s
  BY <1>1
<1> QED BY <1>1, <1>4, <1>5, <1>6, <1>7, <1>8 DEF p

LEMMA Taken ==
  ASSUME NEW q \in Seq(WalletStates), q # <<>>, Increasing(q)
  PROVE  /\ Head(q) \in WalletStates /\ Tail(q) \in Seq(WalletStates)
         /\ Increasing(Tail(q)) /\ AllAfter(Head(q), Tail(q))
         /\ \A x : AllBefore(q, x) => AllBefore(Tail(q), x) /\ Later(Head(q), x)
         /\ \A x : AllAfter(x, q) => AllAfter(x, Tail(q)) /\ Later(x, Head(q))
         /\ q[Len(q)] = IF Tail(q) = <<>> THEN Head(q) ELSE Tail(q)[Len(Tail(q))]
<1> DEFINE p == Tail(q)
           h == Head(q)
<1>1. /\ p \in Seq(WalletStates) /\ Len(p) = Len(q) - 1 /\ Len(q) \in Nat \ {0}
      /\ h = q[1] /\ h \in WalletStates
      /\ \A i \in 1..Len(p) : p[i] = q[i + 1]
      /\ (p = <<>> <=> Len(p) = 0)
  <2>1. Len(q) \in Nat \ {0}
    OBVIOUS
  <2>2. h = q[1] /\ h \in WalletStates
    BY <2>1
  <2>3. p \in Seq(WalletStates) /\ Len(p) = Len(q) - 1
    BY HeadTailProperties
  <2>4. \A i \in 1..Len(p) : p[i] = q[i + 1]
    BY <2>1
  <2> HIDE DEF p
  <2>5. p = <<>> <=> Len(p) = 0
    BY <2>3, EmptySeq
  <2> QED BY <2>1, <2>2, <2>3, <2>4, <2>5
<1> HIDE DEF p, h
<1>2. \A i \in 1..Len(p) : i + 1 \in 1..Len(q) /\ 1 <= i + 1
  BY <1>1
<1>3. 1 \in 1..Len(q)
  BY <1>1
<1>4. Increasing(p)
  <2> SUFFICES ASSUME NEW i \in 1..Len(p), NEW j \in 1..Len(p), i <= j PROVE Later(p[i], p[j])
    BY DEF Increasing
  <2>1. i + 1 <= j + 1
    OBVIOUS
  <2> QED BY <1>1, <1>2, <2>1 DEF Increasing
<1>5. AllAfter(h, p)
  BY <1>1, <1>2, <1>3 DEF Increasing, AllAfter
<1>6. \A x : AllBefore(q, x) => AllBefore(p, x) /\ Later(h, x)
  BY <1>1, <1>2, <1>3 DEF AllBefore
<1>7. \A x : AllAfter(x, q) => AllAfter(x, p) /\ Later(x, h)
  BY <1>1, <1>2, <1>3 DEF AllAfter
<1>8. q[Len(q)] = IF p = <<>> THEN h ELSE p[Len(p)]
  BY <1>1
<1> QED BY <1>1, <1>4, <1>5, <1>6, <1>7, <1>8 DEF p, h

-----------------------------------------------------------------------------
(* The state on its way                                                    *)

viewVars == <<object, held, unread, published, shared, asks, newest, backwards>>

LEMMA ViewUnchanged == ViewInv /\ UNCHANGED viewVars => ViewInv'
  BY DEF ViewInv, ViewTypes, viewVars, Flows, LastGiven, SharedOrdered, UnreadOrdered, Increasing,
     AllAfter, AllBefore, WaitsForMore, Waiting

(* A new object shows its first state everywhere.                          *)
LEMMA OpenView ==
  ASSUME ViewInv, NEW s \in WalletStates, Open(s), backwards' = backwards,
         asks' = asks \/ asks' = [a \in Asks |-> IdleAsk]
  PROVE  ViewInv'
<1> USE StatesAreNumbers DEF Open
<1>1. unread' = <<>> /\ shared' = Disconnected /\ Len(<<>>) = 0
  OBVIOUS
<1>2. shared'.queue = <<>> /\ shared'.latest = Nothing /\ shared'.replay = Nothing /\ ~shared'.on
  BY <1>1 DEF Disconnected
<1>3. ViewTypes'
  <2>1. <<>> \in Seq(WalletStates)
    OBVIOUS
  <2>2. Disconnected \in [on : BOOLEAN, queue : Seq(WalletStates), latest : MaybeState,
                          replay : MaybeState]
    BY <2>1 DEF Disconnected, MaybeState
  <2>3. asks' \in [Asks -> [stage : {"idle", "waiting", "answered"},
                            kind : {"serialize", "synced"}, state : MaybeState]]
        /\ \A a \in Asks : asks'[a].stage = "answered" => asks'[a].state \in WalletStates
    BY DEF ViewInv, ViewTypes, IdleAsk, MaybeState
  <2> QED BY <1>2, <2>1, <2>2, <2>3 DEF ViewInv, ViewTypes, MaybeState
<1>4. Flows'
  BY <1>1, <1>2 DEF Flows
<1>5. SharedOrdered'
  BY <1>2 DEF SharedOrdered, Increasing, AllAfter, AllBefore, Later
<1>6. UnreadOrdered'
  BY <1>1 DEF UnreadOrdered, Increasing, AllAfter, AllBefore, Later
<1>7. WaitsForMore'
  BY <1>2 DEF WaitsForMore
<1> QED BY <1>3, <1>4, <1>5, <1>6, <1>7 DEF ViewInv

(* A write is the newest state, and the last one the runtime will copy.    *)
LEMMA WriteView ==
  ASSUME ViewInv, object # "none", NEW s \in WalletStates, held.n <= s.n, Write(s),
         UNCHANGED <<object, published, shared, asks, newest, backwards>>
  PROVE  ViewInv'
<1> USE StatesAreNumbers
<1>1. held \in WalletStates /\ published \in WalletStates /\ unread \in Seq(WalletStates)
  BY DEF ViewInv, ViewTypes
<1>2. held' = s /\ Later(published, s) /\ AllBefore(unread, s)
  <2>1. Later(published, held) /\ AllBefore(unread, held)
    BY DEF ViewInv, UnreadOrdered
  <2>2. \A i \in 1..Len(unread) : unread[i] \in WalletStates
    BY <1>1
  <2> QED BY <1>1, <2>1, <2>2 DEF Write, Later, AllBefore
<1>3. UnreadOrdered' /\ unread' \in Seq(WalletStates)
      /\ (object = "open" => unread' # <<>> /\ unread'[Len(unread')] = s)
  <2>1. CASE object = "open"
    <3>1. unread' = Append(unread, s)
      BY <2>1 DEF Write
    <3>2. Increasing(unread) /\ AllAfter(published, unread)
      BY DEF ViewInv, UnreadOrdered
    <3> QED BY <1>1, <1>2, <2>1, <3>1, <3>2, Appended DEF UnreadOrdered, AllAfter, AllBefore, Increasing
  <2>2. CASE object # "open"
    <3>1. unread' = unread
      BY <2>2 DEF Write
    <3> QED BY <1>1, <1>2, <2>2, <3>1 DEF ViewInv, UnreadOrdered, AllAfter, AllBefore, Increasing
  <2> QED BY <2>1, <2>2
<1>4. ViewTypes'
  BY <1>1, <1>2, <1>3 DEF ViewInv, ViewTypes
<1>5. Flows'
  BY <1>2, <1>3 DEF ViewInv, Flows, LastGiven
<1>6. SharedOrdered' /\ WaitsForMore'
  BY DEF ViewInv, SharedOrdered, Increasing, AllAfter, AllBefore, WaitsForMore, Waiting
<1> QED BY <1>3, <1>4, <1>5, <1>6 DEF ViewInv

(* A state the runtime copies is the oldest of those it has not, and the   *)
(* last one in the queue of who is connected.                              *)
LEMMA PublishView == ViewInv /\ PublishState => ViewInv'
<1> SUFFICES ASSUME ViewInv, PublishState PROVE ViewInv'
  OBVIOUS
<1> USE StatesAreNumbers
<1> DEFINE s == Head(unread)
<1>1. /\ held \in WalletStates /\ published \in WalletStates /\ unread \in Seq(WalletStates)
      /\ object = "open" /\ unread # <<>> /\ published' = s /\ unread' = Tail(unread)
      /\ UNCHANGED <<object, held, asks, newest, backwards>>
  BY DEF ViewInv, ViewTypes, PublishState
<1>2. Increasing(unread) /\ AllBefore(unread, held) /\ AllAfter(published, unread)
      /\ held = unread[Len(unread)]
  BY <1>1 DEF ViewInv, UnreadOrdered, Flows
<1>3. /\ s \in WalletStates /\ unread' \in Seq(WalletStates)
      /\ Increasing(unread') /\ AllAfter(s, unread') /\ AllBefore(unread', held)
      /\ Later(s, held) /\ Later(published, s)
      /\ held = IF unread' = <<>> THEN s ELSE unread'[Len(unread')]
  BY <1>1, <1>2, Taken
<1> HIDE DEF s
<1>4. UnreadOrdered'
  BY <1>1, <1>3 DEF UnreadOrdered, Increasing, AllAfter, AllBefore
<1>5. \A x \in MaybeState : Later(x, published) => Later(x, s)
  BY <1>1, <1>3, LaterIsTransitive
<1>6. /\ shared \in [on : BOOLEAN, queue : Seq(WalletStates), latest : MaybeState, replay : MaybeState]
      /\ newest \in MaybeState
  BY DEF ViewInv, ViewTypes
<1>7. AllBefore(shared.queue, s)
  <2>1. \A i \in 1..Len(shared.queue) : shared.queue[i] \in MaybeState
    BY <1>6 DEF MaybeState
  <2> QED BY <1>5, <2>1 DEF ViewInv, SharedOrdered, AllBefore
<1>8. CASE ~shared.on
  <2>1. shared' = shared /\ shared = Disconnected
    BY <1>8 DEF PublishState, ViewInv, ViewTypes
  <2>2. ViewTypes'
    BY <1>1, <1>3, <1>8, <2>1 DEF ViewInv, ViewTypes
  <2>3. Flows'
    BY <1>1, <1>3, <1>8, <2>1 DEF ViewInv, Flows
  <2>4. SharedOrdered'
    BY <1>1, <1>3, <1>5, <1>6, <1>7, <2>1 DEF ViewInv, SharedOrdered, Increasing, AllAfter, AllBefore
  <2>5. WaitsForMore'
    BY <1>1, <2>1 DEF ViewInv, WaitsForMore, Waiting
  <2> QED BY <1>4, <2>2, <2>3, <2>4, <2>5 DEF ViewInv
<1>9. CASE shared.on
  <2> DEFINE q == Append(shared.queue, s)
  <2>1. shared' = [shared EXCEPT !.queue = q]
    BY <1>9 DEF PublishState, s
  <2>2. /\ Increasing(shared.queue) /\ Later(newest, s) /\ Later(shared.latest, s) /\ Later(shared.replay, s)
        /\ AllAfter(newest, shared.queue) /\ AllAfter(shared.latest, shared.queue)
        /\ AllAfter(shared.replay, shared.queue)
    BY <1>5, <1>6 DEF ViewInv, SharedOrdered
  <2>3. /\ q \in Seq(WalletStates) /\ q # <<>> /\ q[Len(q)] = s /\ Increasing(q) /\ AllBefore(q, s)
        /\ AllAfter(newest, q) /\ AllAfter(shared.latest, q) /\ AllAfter(shared.replay, q)
    BY <1>3, <1>6, <1>7, <2>2, Appended
  <2> HIDE DEF q
  <2>4. /\ shared'.queue = q /\ shared'.on /\ shared'.latest = shared.latest
        /\ shared'.replay = shared.replay
        /\ shared' \in [on : BOOLEAN, queue : Seq(WalletStates), latest : MaybeState, replay : MaybeState]
    BY <1>6, <1>9, <2>1, <2>3
  <2>5. ViewTypes'
    BY <1>1, <1>3, <2>4 DEF ViewInv, ViewTypes
  <2>6. Flows'
    BY <1>1, <1>3, <2>3, <2>4 DEF Flows, LastGiven
  <2>7. SharedOrdered'
    <3>1. Later(shared.replay, shared.latest) /\ Later(newest, shared.replay) /\ Later(newest, shared.latest)
      BY DEF ViewInv, SharedOrdered
    <3> QED BY <1>1, <2>2, <2>3, <2>4, <3>1 DEF SharedOrdered, Increasing, AllAfter, AllBefore
  <2>8. WaitsForMore'
    BY <1>1, <2>4 DEF ViewInv, WaitsForMore, Waiting
  <2> QED BY <1>4, <2>5, <2>6, <2>7, <2>8 DEF ViewInv
<1> QED BY <1>6, <1>8, <1>9

(* The buffer keeps the state that arrives, which is the newer one.        *)
LEMMA BufferView == ViewInv /\ Buffer => ViewInv'
<1> SUFFICES ASSUME ViewInv, Buffer PROVE ViewInv'
  OBVIOUS
<1> USE StatesAreNumbers
<1> DEFINE h == Head(shared.queue)
           q == Tail(shared.queue)
<1>1. /\ shared \in [on : BOOLEAN, queue : Seq(WalletStates), latest : MaybeState, replay : MaybeState]
      /\ shared.on /\ shared.queue # <<>> /\ UNCHANGED <<object, held, unread, published, asks, newest, backwards>>
      /\ shared' = [shared EXCEPT !.queue = q, !.latest = h]
  BY DEF ViewInv, ViewTypes, Buffer, Sliding, stateVars
<1>2. /\ Increasing(shared.queue) /\ AllBefore(shared.queue, published)
      /\ AllAfter(newest, shared.queue) /\ AllAfter(shared.replay, shared.queue)
      /\ Later(newest, shared.replay) /\ Later(newest, published) /\ Later(shared.replay, published)
  BY DEF ViewInv, SharedOrdered
<1>3. /\ h \in WalletStates /\ q \in Seq(WalletStates) /\ Increasing(q) /\ AllAfter(h, q)
      /\ AllBefore(q, published) /\ Later(h, published)
      /\ AllAfter(newest, q) /\ Later(newest, h)
      /\ AllAfter(shared.replay, q) /\ Later(shared.replay, h)
      /\ shared.queue[Len(shared.queue)] = IF q = <<>> THEN h ELSE q[Len(q)]
  BY <1>1, <1>2, Taken
<1> HIDE DEF h, q
<1>4. /\ shared' \in [on : BOOLEAN, queue : Seq(WalletStates), latest : MaybeState, replay : MaybeState]
      /\ shared'.on /\ shared'.queue = q /\ shared'.latest = h /\ shared'.replay = shared.replay
  BY <1>1, <1>3 DEF MaybeState
<1>5. ViewTypes'
  BY <1>1, <1>4 DEF ViewInv, ViewTypes
<1>6. Flows'
  <2>1. published = shared.queue[Len(shared.queue)]
    BY <1>1 DEF ViewInv, Flows, LastGiven
  <2>2. h # Nothing
    BY <1>3
  <2> QED BY <1>1, <1>3, <1>4, <2>1, <2>2 DEF ViewInv, Flows, LastGiven
<1>7. SharedOrdered'
  BY <1>1, <1>2, <1>3, <1>4 DEF SharedOrdered, Increasing, AllAfter, AllBefore
<1>8. UnreadOrdered' /\ WaitsForMore'
  BY <1>1, <1>4 DEF ViewInv, UnreadOrdered, Increasing, AllAfter, AllBefore, WaitsForMore, Waiting
<1> QED BY <1>5, <1>6, <1>7, <1>8 DEF ViewInv

(* The end of the last subscription forgets what was on its way.           *)
LEMMA DisconnectedView ==
  ASSUME ViewInv, shared' = Disconnected, UNCHANGED <<object, held, unread, published>>,
         newest' \in MaybeState, newest' # Nothing => object # "none", Later(newest', published),
         backwards' = FALSE,
         asks' \in [Asks -> [stage : {"idle", "waiting", "answered"}, kind : {"serialize", "synced"},
                             state : MaybeState]],
         \A a \in Asks : asks'[a].stage = "answered" => asks'[a].state \in WalletStates
  PROVE  ViewInv'
<1>1. shared'.queue = <<>> /\ shared'.latest = Nothing /\ shared'.replay = Nothing
      /\ shared'.on = FALSE /\ Len(<<>>) = 0
  BY DEF Disconnected
<1>2. shared' \in [on : BOOLEAN, queue : Seq(WalletStates), latest : MaybeState, replay : MaybeState]
  <2>1. <<>> \in Seq(WalletStates)
    OBVIOUS
  <2> QED BY <2>1 DEF Disconnected, MaybeState
<1>3. ViewTypes'
  BY <1>1, <1>2 DEF ViewInv, ViewTypes, Disconnected
<1>4. Flows'
  BY <1>1 DEF ViewInv, Flows
<1>5. SharedOrdered'
  BY <1>1 DEF SharedOrdered, Increasing, AllAfter, AllBefore, Later
<1>6. UnreadOrdered' /\ WaitsForMore'
  BY <1>1 DEF ViewInv, UnreadOrdered, Increasing, AllAfter, AllBefore, WaitsForMore
<1> QED BY <1>3, <1>4, <1>5, <1>6 DEF ViewInv

(* What an answer does to the newest state an application has.             *)
LEMMA DeliverView == ViewInv /\ Deliver => ViewInv'
<1> SUFFICES ASSUME ViewInv, Deliver PROVE ViewInv'
  OBVIOUS
<1> USE StatesAreNumbers
<1> DEFINE s == shared.latest
           as == Answered(s)
           next == [shared EXCEPT !.replay = s, !.latest = Nothing]
<1>1. /\ shared \in [on : BOOLEAN, queue : Seq(WalletStates), latest : MaybeState, replay : MaybeState]
      /\ asks \in [Asks -> [stage : {"idle", "waiting", "answered"}, kind : {"serialize", "synced"},
                            state : MaybeState]]
      /\ s \in WalletStates /\ newest \in MaybeState
      /\ shared.on /\ UNCHANGED <<object, held, unread, published>> /\ object # "none"
  BY DEF ViewInv, ViewTypes, Deliver, MaybeState, stateVars
<1>2. /\ Increasing(shared.queue) /\ AllBefore(shared.queue, published)
      /\ AllAfter(newest, shared.queue) /\ AllAfter(s, shared.queue)
      /\ Later(newest, published) /\ Later(s, published) /\ Later(newest, s)
  BY DEF ViewInv, SharedOrdered
<1>3. as \subseteq Asks /\ as \subseteq Waiting
  BY DEF Answered, Waiting
<1>4. newest' \in {newest, s} /\ backwards' = FALSE
  <2>1. newest # Nothing => ~(s.n < newest.n)
    BY <1>1, <1>2 DEF Later, MaybeState
  <2> QED BY <2>1 DEF Deliver, Give, ViewInv, ViewTypes
<1>5. Later(newest', published) /\ AllAfter(newest', shared.queue) /\ Later(newest', s)
      /\ newest' \in MaybeState
  <2>1. Later(s, s)
    BY <1>1 DEF Later
  <2> QED BY <1>1, <1>2, <1>4, <2>1 DEF MaybeState
<1>6. asks' = [a \in Asks |-> IF a \in as THEN [asks[a] EXCEPT !.stage = "answered", !.state = s]
                                        ELSE asks[a]]
  BY DEF Deliver, Give
<1>7. /\ asks' \in [Asks -> [stage : {"idle", "waiting", "answered"}, kind : {"serialize", "synced"},
                            state : MaybeState]]
      /\ \A a \in Asks : asks'[a].stage = "answered" => asks'[a].state \in WalletStates
      /\ \A a \in Asks : asks'[a].kind = asks[a].kind
      /\ \A a \in Asks : asks'[a].stage = "waiting" => a \in Waiting \ as
  <2>1. ASSUME NEW a \in Asks
        PROVE  /\ asks'[a] \in [stage : {"idle", "waiting", "answered"}, kind : {"serialize", "synced"},
                               state : MaybeState]
               /\ asks'[a].stage = "answered" => asks'[a].state \in WalletStates
               /\ asks'[a].kind = asks[a].kind
               /\ asks'[a].stage = "waiting" => a \in Waiting \ as
    <3> HIDE DEF as, s
    <3>1. CASE a \in as
      <4>1. asks'[a] = [asks[a] EXCEPT !.stage = "answered", !.state = s]
        BY <1>6, <3>1
      <4>2. asks[a] \in [stage : {"idle", "waiting", "answered"}, kind : {"serialize", "synced"},
                         state : MaybeState]
        BY <1>1
      <4>3. asks'[a] = [stage |-> "answered", kind |-> asks[a].kind, state |-> s]
        BY <4>1, <4>2
      <4>4. s \in WalletStates /\ s \in MaybeState
        BY <1>1 DEF MaybeState
      <4> QED BY <4>2, <4>3, <4>4
    <3>2. CASE a \notin as
      BY <1>1, <1>6, <3>2 DEF Waiting, ViewInv, ViewTypes
    <3> QED BY <3>1, <3>2
  <2> QED BY <1>6, <2>1
<1>8. CASE shared' = Disconnected
  BY <1>1, <1>4, <1>5, <1>7, <1>8, DisconnectedView
<1>9. CASE shared' = next
  <2>1. /\ shared' \in [on : BOOLEAN, queue : Seq(WalletStates), latest : MaybeState, replay : MaybeState]
        /\ shared'.on /\ shared'.queue = shared.queue /\ shared'.latest = Nothing /\ shared'.replay = s
    BY <1>1, <1>9 DEF MaybeState
  <2>2. ViewTypes'
    BY <1>1, <1>4, <1>5, <1>7, <2>1 DEF ViewInv, ViewTypes
  <2>3. Flows'
    BY <1>1, <2>1 DEF ViewInv, Flows, LastGiven
  <2>4. SharedOrdered'
    BY <1>1, <1>2, <1>5, <2>1 DEF SharedOrdered, Increasing, AllAfter, AllBefore, Later
  <2>5. UnreadOrdered'
    BY <1>1 DEF ViewInv, UnreadOrdered, Increasing, AllAfter, AllBefore
  <2>6. WaitsForMore'
    <3> SUFFICES ASSUME NEW a \in Asks, asks'[a].stage = "waiting" PROVE ~Meets(asks'[a].kind, s)
      BY <2>1 DEF WaitsForMore, Waiting
    <3> QED BY <1>7 DEF Answered
  <2> QED BY <2>2, <2>3, <2>4, <2>5, <2>6 DEF ViewInv
<1>10. shared' \in {Disconnected, next}
  BY DEF Deliver, RefCounted
<1> QED BY <1>8, <1>9, <1>10

(* Who connects finds the present state in the queue; who joins, what is   *)
(* on its way to the others.                                               *)
LEMMA ConnectedView ==
  ASSUME ViewInv, object # "none", shared' = Connected,
         UNCHANGED <<object, held, unread, published, newest, backwards>>,
         asks' \in [Asks -> [stage : {"idle", "waiting", "answered"}, kind : {"serialize", "synced"},
                             state : MaybeState]],
         \A a \in Asks : asks'[a].stage = "answered" => asks'[a].state \in WalletStates,
         \A a \in Asks : asks'[a].stage = "waiting" /\ shared.replay # Nothing
                           => ~Meets(asks'[a].kind, shared.replay)
  PROVE  ViewInv'
<1> USE StatesAreNumbers
<1>1. CASE shared.on
  <2>1. shared' = shared
    BY <1>1 DEF Connected
  <2> QED BY <2>1 DEF ViewInv, ViewTypes, Flows, LastGiven, SharedOrdered, UnreadOrdered, Increasing,
             AllAfter, AllBefore, WaitsForMore, Waiting
<1>2. CASE ~shared.on
  <2> DEFINE q == <<published>>
  <2>1. published \in WalletStates /\ newest \in MaybeState /\ Later(newest, published)
        /\ Later(published, published)
    BY DEF ViewInv, ViewTypes, SharedOrdered, Later
  <2>2. q \in Seq(WalletStates) /\ q # <<>> /\ Len(q) = 1 /\ q[1] = published
    BY <2>1
  <2>3. shared' = [on |-> TRUE, queue |-> q, latest |-> Nothing, replay |-> Nothing]
    BY <1>2 DEF Connected, Disconnected
  <2> HIDE DEF q
  <2>4. /\ shared'.on /\ shared'.queue = q /\ shared'.latest = Nothing /\ shared'.replay = Nothing
        /\ shared' \in [on : BOOLEAN, queue : Seq(WalletStates), latest : MaybeState, replay : MaybeState]
    BY <2>2, <2>3 DEF MaybeState
  <2>5. ViewTypes'
    BY <2>4 DEF ViewInv, ViewTypes
  <2>6. Flows'
    BY <2>2, <2>4 DEF ViewInv, Flows, LastGiven
  <2>7. SharedOrdered'
    <3>1. \A i \in 1..Len(q) : q[i] = published
      BY <2>2
    <3> QED BY <2>1, <2>4, <3>1 DEF SharedOrdered, Increasing, AllAfter, AllBefore, Later
  <2>8. UnreadOrdered' /\ WaitsForMore'
    BY <2>4 DEF ViewInv, UnreadOrdered, Increasing, AllAfter, AllBefore, WaitsForMore
  <2> QED BY <2>5, <2>6, <2>7, <2>8 DEF ViewInv
<1> QED BY <1>1, <1>2 DEF ViewInv, ViewTypes

LEMMA AskView ==
  ASSUME ViewInv, NEW a \in Asks, NEW kind \in {"serialize", "synced"}, Ask(a, kind)
  PROVE  ViewInv'
<1> USE StatesAreNumbers
<1> DEFINE r == shared.replay
           AskType == [stage : {"idle", "waiting", "answered"}, kind : {"serialize", "synced"},
                       state : MaybeState]
<1>1. /\ UNCHANGED <<object, held, unread, published>> /\ object # "none"
      /\ asks \in [Asks -> AskType] /\ r \in MaybeState /\ newest \in MaybeState
      /\ Later(newest, r) /\ Later(newest, published) /\ Later(r, published)
  BY DEF Ask, ViewInv, ViewTypes, SharedOrdered, stateVars
<1>2. CASE r # Nothing /\ Meets(kind, r)
  <2>1. /\ asks' = [asks EXCEPT ![a] = [stage |-> "answered", kind |-> kind, state |-> r]]
        /\ newest' \in {newest, r} /\ shared' = shared /\ r \in WalletStates
        /\ backwards' = (backwards \/ (newest # Nothing /\ r.n < newest.n))
    BY <1>1, <1>2 DEF Ask, MaybeState
  <2>2. backwards' = FALSE
    <3>1. newest # Nothing => ~(r.n < newest.n)
      BY <1>1, <2>1 DEF Later, MaybeState
    <3> QED BY <2>1, <3>1 DEF ViewInv, ViewTypes
  <2>3. newest' \in MaybeState /\ Later(newest', published) /\ AllAfter(newest', shared.queue)
        /\ Later(newest', shared.replay) /\ Later(newest', shared.latest)
    <3>1. Later(r, r)
      BY <2>1 DEF Later
    <3>2. AllAfter(newest, shared.queue) /\ AllAfter(r, shared.queue) /\ Later(r, shared.latest)
          /\ Later(newest, shared.latest)
      BY DEF ViewInv, SharedOrdered
    <3> QED BY <1>1, <2>1, <3>1, <3>2
  <2>4. /\ asks' \in [Asks -> AskType]
        /\ \A b \in Asks : b # a => asks'[b] = asks[b]
        /\ asks'[a] = [stage |-> "answered", kind |-> kind, state |-> r]
    BY <1>1, <2>1
  <2>5. ViewTypes'
    BY <1>1, <2>1, <2>2, <2>3, <2>4 DEF ViewInv, ViewTypes
  <2>6. Flows' /\ UnreadOrdered'
    BY <1>1, <2>1 DEF ViewInv, Flows, LastGiven, UnreadOrdered, Increasing, AllAfter, AllBefore
  <2>7. SharedOrdered'
    BY <1>1, <2>1, <2>3 DEF ViewInv, SharedOrdered, Increasing, AllAfter, AllBefore
  <2>8. WaitsForMore'
    BY <2>1, <2>4 DEF ViewInv, WaitsForMore, Waiting
  <2> QED BY <2>5, <2>6, <2>7, <2>8 DEF ViewInv
<1>3. CASE ~(r # Nothing /\ Meets(kind, r))
  <2>1. /\ asks' = [asks EXCEPT ![a] = [stage |-> "waiting", kind |-> kind, state |-> Nothing]]
        /\ shared' = Connected /\ UNCHANGED <<newest, backwards>>
    BY <1>3 DEF Ask
  <2>2. /\ asks' \in [Asks -> AskType]
        /\ \A b \in Asks : b # a => asks'[b] = asks[b]
        /\ asks'[a] = [stage |-> "waiting", kind |-> kind, state |-> Nothing]
    BY <1>1, <2>1 DEF MaybeState
  <2>3. \A b \in Asks : asks'[b].stage = "answered" => asks'[b].state \in WalletStates
    BY <2>2 DEF ViewInv, ViewTypes
  <2>4. \A b \in Asks : asks'[b].stage = "waiting" /\ r # Nothing => ~Meets(asks'[b].kind, r)
    BY <1>3, <2>2 DEF ViewInv, WaitsForMore, Waiting
  <2> QED BY <1>1, <2>1, <2>2, <2>3, <2>4, ConnectedView
<1> QED BY <1>2, <1>3

LEMMA ViewNextInv == ViewInv /\ StopInv /\ [ClassesNext]_classVars => ViewInv'
<1> SUFFICES ASSUME ViewInv, StopInv, [ClassesNext]_classVars PROVE ViewInv'
  OBVIOUS
<1>1. CASE UNCHANGED viewVars
  BY <1>1, ViewUnchanged
<1>2. CASE UNCHANGED classVars
  BY <1>1, <1>2 DEF classVars, stateVars, lookVars, viewVars
<1>3. ASSUME ClassesNext, ~StartFresh, ~(\E done \in BOOLEAN : SyncUpdate(done)),
             ~(\E m \in Writing : Command(m)), ~PublishState, ~Buffer, ~Deliver,
             ~(\E a \in Asks, kind \in {"serialize", "synced"} : Ask(a, kind)), ~Watch, ~Unwatch,
             ~StopWallet, ~(\E a \in Asks : Restore(a))
      PROVE  UNCHANGED viewVars
  BY <1>3 DEF ClassesNext, viewVars, stateVars, lookVars, Building, WithTransactionType,
       WithComponent, WithDefaults, BuildClass, FacadeOnly, MakeServices, MakeFacade, InitFails,
       StartFacade, StartSync, StartPolling, StopFacade, StopPolling, StopReturns
<1>4. CASE StartFresh
  <2>1. FreshState \in WalletStates
    BY StatesAreNumbers DEF FreshState, WalletStates
  <2> QED BY <1>4, <2>1, OpenView DEF StartFresh
<1>5. ASSUME NEW done \in BOOLEAN, SyncUpdate(done) PROVE ViewInv'
  <2>1. object # "none" /\ held \in WalletStates
    BY <1>5 DEF SyncUpdate, StopInv, ViewInv, ViewTypes
  <2> DEFINE s == [n |-> held.n + 1, done |-> done]
  <2>2. s \in WalletStates /\ held.n <= s.n
    BY <1>5, <2>1, StatesAreNumbers DEF SyncUpdate, WalletStates
  <2>3. Write(s) /\ UNCHANGED <<object, published, shared, asks, newest, backwards>>
    BY <1>5 DEF SyncUpdate, lookVars
  <2> HIDE DEF s
  <2> QED BY <2>1, <2>2, <2>3, WriteView
<1>6. ASSUME NEW m \in Writing, Command(m) PROVE ViewInv'
  <2>1. object # "none" /\ held \in WalletStates
    BY <1>6 DEF Command, ViewInv, ViewTypes
  <2> DEFINE s == [held EXCEPT !.n = @ + 1]
  <2>2. s \in WalletStates /\ held.n <= s.n
    BY <1>6, <2>1, StatesAreNumbers DEF Command, WalletStates
  <2>3. Write(s) /\ UNCHANGED <<object, published, shared, asks, newest, backwards>>
    BY <1>6 DEF Command, lookVars
  <2> HIDE DEF s
  <2> QED BY <2>1, <2>2, <2>3, WriteView
<1>7. CASE Watch
  <2>1. object # "none" /\ shared' = Connected
        /\ UNCHANGED <<object, held, unread, published, newest, backwards, asks>>
    BY <1>7 DEF Watch, StopInv, stateVars
  <2>2. \A a \in Asks : asks[a].stage = "waiting" /\ shared.replay # Nothing
                           => ~Meets(asks[a].kind, shared.replay)
    BY DEF ViewInv, WaitsForMore, Waiting
  <2> QED BY <2>1, <2>2, ConnectedView DEF ViewInv, ViewTypes
<1>8. CASE Unwatch
  <2>1. UNCHANGED <<object, held, unread, published, newest, backwards, asks>>
        /\ (shared' = Disconnected \/ shared' = shared)
    BY <1>8 DEF Unwatch, stateVars
  <2>2. CASE shared' = shared
    BY <1>1, <2>1, <2>2 DEF viewVars
  <2>3. CASE shared' = Disconnected
    <3>1. /\ newest \in MaybeState /\ (newest # Nothing => object # "none") /\ Later(newest, published)
          /\ backwards = FALSE
          /\ asks \in [Asks -> [stage : {"idle", "waiting", "answered"}, kind : {"serialize", "synced"},
                               state : MaybeState]]
          /\ \A a \in Asks : asks[a].stage = "answered" => asks[a].state \in WalletStates
      BY DEF ViewInv, ViewTypes, SharedOrdered
    <3> QED BY <2>1, <2>3, <3>1, DisconnectedView
  <2> QED BY <2>1, <2>2, <2>3
<1>9. CASE StopWallet
  <2>1. object' = "stopped" /\ unread' = <<>> /\ Len(<<>>) = 0 /\ object # "none"
        /\ UNCHANGED <<held, published, shared, asks, newest, backwards>>
    BY <1>9 DEF StopWallet, lookVars, StopInv
  <2>2. ViewTypes'
    <3>1. <<>> \in Seq(WalletStates)
      OBVIOUS
    <3> QED BY <2>1, <3>1 DEF ViewInv, ViewTypes
  <2>3. Flows' /\ SharedOrdered' /\ UnreadOrdered' /\ WaitsForMore'
    BY <2>1 DEF ViewInv, Flows, LastGiven, SharedOrdered, UnreadOrdered, Increasing, AllAfter,
       AllBefore, WaitsForMore, Waiting
  <2> QED BY <2>2, <2>3 DEF ViewInv
<1>10. ASSUME NEW a \in Asks, Restore(a) PROVE ViewInv'
  <2>1. asks[a].state \in WalletStates
    BY <1>10 DEF Restore, ViewInv, ViewTypes
  <2>2. [asks[a].state EXCEPT !.done = FALSE] \in WalletStates
    BY <2>1 DEF WalletStates
  <2> QED BY <1>10, <2>2, OpenView DEF Restore
<1>11. CASE PublishState
  BY <1>11, PublishView
<1>12. CASE Buffer
  BY <1>12, BufferView
<1>13. CASE Deliver
  BY <1>13, DeliverView
<1>14. ASSUME NEW a \in Asks, NEW kind \in {"serialize", "synced"}, Ask(a, kind) PROVE ViewInv'
  BY <1>14, AskView
<1> QED BY <1>1, <1>2, <1>3, <1>4, <1>5, <1>6, <1>7, <1>8, <1>9, <1>10, <1>11, <1>12, <1>13, <1>14

LEMMA ClassesInitInv == ClassesInit => ClassesInv
<1> SUFFICES ASSUME ClassesInit PROVE ClassesInv
  OBVIOUS
<1>1. BuildInv
  BY SameParts DEF ClassesInit, BuildInv, EmptyBuilder, BuiltWhole, TransactionTypes
<1>2. StopInv
  BY DEF ClassesInit, StopInv
<1>3. ViewInv
  <2>1. /\ shared.queue = <<>> /\ shared.latest = Nothing /\ shared.replay = Nothing /\ ~shared.on
        /\ Len(<<>>) = 0 /\ <<>> \in Seq(WalletStates)
    BY DEF ClassesInit, Disconnected
  <2>2. ViewTypes
    BY <2>1 DEF ClassesInit, ViewTypes, Disconnected, MaybeState, IdleAsk
  <2>3. Flows /\ SharedOrdered /\ UnreadOrdered /\ WaitsForMore
    BY <2>1 DEF ClassesInit, Flows, SharedOrdered, UnreadOrdered, Increasing, AllAfter, AllBefore, Later,
       WaitsForMore
  <2> QED BY <2>2, <2>3 DEF ViewInv
<1> QED BY <1>1, <1>2, <1>3 DEF ClassesInv

LEMMA ClassesInvHolds == ClassesInv => ClassesHold
<1> SUFFICES ASSUME ClassesInv PROVE ClassesHold
  OBVIOUS
<1>1. BuiltWhole
  BY DEF ClassesInv, BuildInv
<1>2. AnswersGoForward
  BY DEF ClassesInv, ViewInv, ViewTypes, AnswersGoForward
<1>3. StoppedIsQuiet
  BY DEF ClassesInv, StopInv, StoppedIsQuiet
<1>4. LatestIsSeen
  <2>1. ASSUME object = "open", Settled PROVE published = held
    BY <2>1 DEF ClassesInv, ViewInv, Flows, Settled
  <2>2. ASSUME shared.on, Settled PROVE shared.replay = published /\ Answered(published) = {}
    <3>1. shared.replay = published
      BY <2>2 DEF ClassesInv, ViewInv, Flows, LastGiven, Settled
    <3>2. published # Nothing
      BY <2>2, StatesAreNumbers DEF ClassesInv, ViewInv, ViewTypes
    <3> QED BY <3>1, <3>2 DEF ClassesInv, ViewInv, WaitsForMore, Answered
  <2> QED BY <2>1, <2>2 DEF LatestIsSeen
<1> QED BY <1>1, <1>2, <1>3, <1>4 DEF ClassesHold

(* A class is only built complete; who looks at a wallet sees its latest   *)
(* state once nothing is on its way, and never an older one after a newer; *)
(* a stopped facade is quiet.  For any number of calls, writes, starts and *)
(* restored wallets, and whenever subscriptions come and go.               *)
THEOREM WalletsAreSeenInOrder == ClassesSpec => []ClassesHold
<1>1. ClassesInv /\ [ClassesNext]_classVars => ClassesInv'
  BY BuildNextInv, ViewNextInv, StopNextInv DEF ClassesInv
<1> QED BY <1>1, ClassesInitInv, ClassesInvHolds, PTL DEF ClassesSpec


-----------------------------------------------------------------------------
(* Registrations                                                           *)

IsBuilding(c) == calls[c].stage \in {"split"} \cup Holding

(* A call that did not wait requires nothing; one that waited has seen that *)
(* much generated, and what was estimated for it spends its outputs.       *)
WaitedFor(c) ==
  /\ CallAt(c, "idle") => calls[c] = IdleCall
  /\ CallAt(c, "waited") /\ calls[c].required > 0 =>
       \E u \in calls[c].utxos \ registered : GeneratedNow(u, now) >= calls[c].required
  /\ calls[c].required > 0 =>
       /\ calls[c].registration
       /\ \E u \in calls[c].utxos :
            calls[c].estimated = AddDustGenerationSignature(
                                   CreateDustGenerationTransaction(u, calls[c].utxos))

(* What a call has built so far spends its outputs, one of them in the     *)
(* guaranteed section.                                                     *)
BuiltOf(c) ==
  IsBuilding(c) =>
    LET tx == calls[c].tx
    IN /\ \E u \in calls[c].utxos : tx.guaranteed = {u} /\ tx.fallible = calls[c].utxos \ {u}
       /\ CallAt(c, "split") => ~tx.registration
       /\ calls[c].stage \in {"attached", "checked", "signed", "done"} => tx.registration
       /\ CallAt(c, "signed") => tx.signed = OffersOf(tx)
       /\ CallAt(c, "done") => tx.signed = OffersOf(tx) \cup {"registration"}

PaidOf(c) ==
  Waited(c) /\ calls[c].utxos \cap registered = {} => calls[c].feePayment >= calls[c].required

RegistrationInv ==
  /\ RegistrationTypeOK /\ BookedByOneCall
  /\ \A c \in Calls : WaitedFor(c) /\ BuiltOf(c) /\ PaidOf(c)

LEMMA GeneratedTyped ==
  ASSUME NEW u \in NightUtxos, NEW t \in Nat
  PROVE  GeneratedNow(u, t) \in 0..Cap
<1> DEFINE r == Rate[u]
<1>1. r \in Nat /\ Cap \in Nat
  BY RegistrationBounds
<1> HIDE DEF r
<1>2. r * t \in Nat
  BY <1>1
<1> QED BY <1>1, <1>2 DEF GeneratedNow, r

LEMMA GeneratedGrows ==
  ASSUME NEW u \in NightUtxos, NEW t \in Nat
  PROVE  GeneratedNow(u, t) <= GeneratedNow(u, t + 1)
<1> DEFINE r == Rate[u]
<1>1. r \in Nat /\ Cap \in Nat
  BY RegistrationBounds
<1> HIDE DEF r
<1>2. r * t \in Nat /\ r * (t + 1) = r * t + r
  BY <1>1
<1> QED BY <1>1, <1>2 DEF GeneratedNow, r

LEMMA GuaranteedIsAmongThem ==
  ASSUME NEW utxos, NEW t, NEW u \in Guaranteed(utxos, t)
  PROVE  u \in utxos /\ \A v \in utxos : GeneratedNow(v, t) <= GeneratedNow(u, t)
  BY DEF Guaranteed

(* Some output has generated the most.                                     *)
LEMMA MaxIsReached ==
  ASSUME NEW utxos \in SUBSET NightUtxos, NEW t \in Nat, utxos \ registered # {}
  PROVE  \E u \in utxos \ registered : GeneratedNow(u, t) = MaxGenerated(utxos, t)
<1> DEFINE fresh == {GeneratedNow(u, t) : u \in utxos \ registered}
           below == {Cap - x : x \in fresh}
<1>1. fresh # {}
  OBVIOUS
<1>2. Cap \in Nat /\ \A x \in fresh : x \in 0..Cap
  BY GeneratedTyped, RegistrationBounds
<1>3. below \subseteq Nat /\ below # {}
  BY <1>1, <1>2
<1> HIDE DEF fresh
<1>4. PICK y \in below : \A z \in below : y <= z
  BY <1>3, LeastExists
<1>5. PICK x \in fresh : y = Cap - x
  OBVIOUS
<1>6. \A z \in fresh : x >= z
  <2> TAKE z \in fresh
  <2>1. Cap - z \in below
    OBVIOUS
  <2> QED BY <1>2, <1>4, <1>5, <2>1
<1>7. Max(fresh) \in fresh
  BY <1>6 DEF Max
<1>8. MaxGenerated(utxos, t) = Max(fresh)
  BY <1>1 DEF MaxGenerated, fresh
<1> QED BY <1>7, <1>8 DEF fresh
CallVars(c) == <<calls[c], now, registered>>

LEMMA OtherCall ==
  ASSUME NEW c \in Calls, WaitedFor(c) /\ BuiltOf(c) /\ PaidOf(c),
         calls'[c] = calls[c], UNCHANGED <<now, registered>>
  PROVE  (WaitedFor(c) /\ BuiltOf(c) /\ PaidOf(c))'
<1>1. WaitedFor(c)'
  BY DEF WaitedFor, CallAt, GeneratedNow
<1>2. BuiltOf(c)'
  BY DEF BuiltOf, IsBuilding, CallAt
<1>3. PaidOf(c)'
  BY DEF PaidOf, Waited
<1> QED BY <1>1, <1>2, <1>3

LEMMA CallStep ==
  ASSUME RegistrationInv, NEW c \in Calls, NEW r \in CallState, SetCall(c, r),
         UNCHANGED <<now, ledgerFee, registered>>,
         pendingNight' \subseteq NightUtxos, feeUnknown' \in BOOLEAN,
         BookedByOneCall',
         calls'[c] = r => (WaitedFor(c) /\ BuiltOf(c) /\ PaidOf(c))'
  PROVE  RegistrationInv'
<1>1. calls \in [Calls -> CallState]
  BY DEF RegistrationInv, RegistrationTypeOK
<1>2. calls' \in [Calls -> CallState] /\ calls'[c] = r /\ \A d \in Calls \ {c} : calls'[d] = calls[d]
  BY <1>1 DEF SetCall
<1>3. RegistrationTypeOK'
  BY <1>2 DEF RegistrationInv, RegistrationTypeOK
<1>4. ASSUME NEW d \in Calls PROVE (WaitedFor(d) /\ BuiltOf(d) /\ PaidOf(d))'
  <2>1. CASE d = c
    BY <1>2, <2>1
  <2>2. CASE d # c
    BY <1>2, <2>2, OtherCall DEF RegistrationInv
  <2> QED BY <2>1, <2>2
<1> QED BY <1>3, <1>4 DEF RegistrationInv

(* Steps that neither begin nor end a booking.                             *)
LEMMA SameBookings ==
  ASSUME RegistrationInv, NEW c \in Calls, NEW r \in CallState, SetCall(c, r),
         UNCHANGED <<pendingNight, feeUnknown>>,
         calls[c].stage \in Holding <=> r.stage \in Holding,
         r.stage \in Holding => r.utxos = calls[c].utxos
  PROVE  BookedByOneCall'
<1>1. calls \in [Calls -> CallState] /\ BookedByOneCall
  BY DEF RegistrationInv, RegistrationTypeOK
<1>2. calls'[c] = r /\ \A d \in Calls \ {c} : calls'[d] = calls[d]
  BY <1>1 DEF SetCall
<1>3. \A d \in Calls : /\ calls'[d].stage \in Holding <=> calls[d].stage \in Holding
                       /\ calls'[d].stage \in Holding => calls'[d].utxos = calls[d].utxos
  BY <1>2
<1> QED BY <1>1, <1>3 DEF BookedByOneCall

(* A call that fails after booking releases its outputs.                   *)
LEMMA FailCallInv ==
  ASSUME RegistrationInv, NEW c \in Calls, calls[c].stage \in Holding, FailCall(c)
  PROVE  RegistrationInv'
<1> DEFINE r == [calls[c] EXCEPT !.stage = "failed"]
<1>1. calls \in [Calls -> CallState] /\ BookedByOneCall /\ pendingNight \subseteq NightUtxos
      /\ feeUnknown \in BOOLEAN
  BY DEF RegistrationInv, RegistrationTypeOK
<1>2. r \in CallState /\ r.stage = "failed" /\ r.utxos = calls[c].utxos /\ r.required = calls[c].required
      /\ r.registration = calls[c].registration /\ r.estimated = calls[c].estimated
  BY <1>1 DEF CallState, Stages
<1>3. SetCall(c, r) /\ pendingNight' = pendingNight \ calls[c].utxos
      /\ UNCHANGED <<now, ledgerFee, registered, feeUnknown>>
  BY DEF FailCall, Release
<1> HIDE DEF r
<1>4. calls'[c] = r /\ \A d \in Calls \ {c} : calls'[d] = calls[d]
  BY <1>1, <1>3 DEF SetCall
<1>5. "failed" \notin Holding
  BY DEF Holding
<1>6. BookedByOneCall'
  <2>1. \A d \in Calls : calls'[d].stage \in Holding =>
          d # c /\ calls'[d] = calls[d] /\ calls[d].utxos \cap calls[c].utxos = {}
    BY <1>1, <1>2, <1>4, <1>5 DEF BookedByOneCall
  <2>2. \A d \in Calls : calls'[d].stage \in Holding => calls'[d].utxos \subseteq pendingNight'
    BY <1>1, <1>3, <2>1 DEF BookedByOneCall
  <2>3. ASSUME ~feeUnknown, NEW u \in pendingNight'
        PROVE  \E d \in Calls : calls'[d].stage \in Holding /\ u \in calls'[d].utxos
    <3>1. PICK d \in Calls : calls[d].stage \in Holding /\ u \in calls[d].utxos
      BY <1>1, <1>3, <2>3 DEF BookedByOneCall
    <3>2. d # c
      BY <1>3, <2>3, <3>1
    <3> QED BY <1>4, <3>1, <3>2
  <2> QED BY <1>1, <1>3, <2>1, <2>2, <2>3 DEF BookedByOneCall
<1>7. (WaitedFor(c) /\ BuiltOf(c) /\ PaidOf(c))'
  <2>1. WaitedFor(c)
    BY DEF RegistrationInv
  <2> QED BY <1>2, <1>3, <1>4, <2>1 DEF WaitedFor, BuiltOf, PaidOf, Waited, IsBuilding, CallAt, Holding
<1> QED BY <1>1, <1>2, <1>3, <1>6, <1>7, CallStep

LEMMA CallTyped ==
  ASSUME RegistrationInv, NEW c \in Calls
  PROVE  /\ calls[c] \in CallState /\ calls[c].utxos \subseteq NightUtxos
         /\ calls \in [Calls -> CallState] /\ pendingNight \subseteq NightUtxos /\ feeUnknown \in BOOLEAN
         /\ now \in Nat /\ ledgerFee \in Nat
         /\ WaitedFor(c) /\ BuiltOf(c) /\ PaidOf(c)
  BY RegistrationBounds DEF RegistrationInv, RegistrationTypeOK, CallState

LEMMA OffersTyped ==
  ASSUME NEW utxos \in SUBSET NightUtxos, NEW u \in utxos
  PROVE  LET tx == Offers(u, utxos)
             estimated == AddDustGenerationSignature(CreateDustGenerationTransaction(u, utxos))
         IN /\ tx \in Intent /\ tx.guaranteed = {u} /\ tx.fallible = utxos \ {u} /\ ~tx.registration
            /\ estimated \in Intent /\ estimated.guaranteed = {u} /\ estimated.fallible = utxos \ {u}
            /\ estimated.registration
            /\ estimated.signed = OffersOf(estimated) \cup {"registration"}
<1> DEFINE tx == Offers(u, utxos)
           made == CreateDustGenerationTransaction(u, utxos)
           estimated == AddDustGenerationSignature(made)
<1>1. tx \in Intent /\ tx.guaranteed = {u} /\ tx.fallible = utxos \ {u} /\ tx.registration = FALSE
  BY DEF Offers, NoRegistration, Intent
<1>2. made = [tx EXCEPT !.registration = TRUE]
  BY DEF CreateDustGenerationTransaction
<1> HIDE DEF tx, made
<1>3. made \in Intent /\ made.guaranteed = {u} /\ made.fallible = utxos \ {u} /\ made.registration = TRUE
  BY <1>1, <1>2 DEF Intent
<1>4. OffersOf(made) \cup {"registration"} \in SUBSET Parts
  BY DEF OffersOf, Parts
<1> DEFINE signs == OffersOf(made) \cup {"registration"}
<1>5. estimated = [made EXCEPT !.signed = signs]
  BY DEF AddDustGenerationSignature
<1> HIDE DEF estimated, signs
<1>6. /\ estimated \in Intent /\ estimated.guaranteed = {u} /\ estimated.fallible = utxos \ {u}
      /\ estimated.registration = TRUE /\ estimated.signed = signs
  BY <1>3, <1>4, <1>5 DEF Intent, signs
<1>7. OffersOf(estimated) = OffersOf(made)
  <2>1. estimated["guaranteed"] = made["guaranteed"] /\ estimated["fallible"] = made["fallible"]
    BY <1>3, <1>6
  <2> QED BY <2>1 DEF OffersOf
<1> QED BY <1>1, <1>6, <1>7 DEF tx, made, estimated, signs

LEMMA StartWaitInv ==
  ASSUME RegistrationInv, NEW c \in Calls, NEW utxos \in SUBSET NightUtxos, StartWait(c, utxos)
  PROVE  RegistrationInv'
<1> DEFINE fakeOf(u) == AddDustGenerationSignature(CreateDustGenerationTransaction(u, utxos))
           r(u) == [IdleCall EXCEPT !.stage = "waiting", !.utxos = utxos, !.registration = TRUE,
                                    !.required = CalculateFee, !.estimated = fakeOf(u)]
<1>1. PICK u \in Guaranteed(utxos, now) : SetCall(c, r(u))
  BY DEF StartWait
<1>2. u \in utxos
  BY GuaranteedIsAmongThem
<1>3. fakeOf(u) \in Intent
  BY <1>2, OffersTyped
<1> DEFINE f == fakeOf(u)
<1> HIDE DEF fakeOf
<1>4. IdleCall \in CallState /\ ledgerFee \in Nat
  <2>1. NoRegistration \in Intent
    BY DEF NoRegistration, Intent
  <2>2. 0 \in 0..Cap
    BY RegistrationBounds
  <2> QED BY <2>1, <2>2, CallTyped DEF CallState, Stages, IdleCall
<1>5. /\ r(u) \in CallState /\ r(u).stage = "waiting" /\ r(u).registration
      /\ r(u).utxos = utxos /\ r(u).estimated = f
  BY <1>3, <1>4 DEF CallState, Stages, CalculateFee
<1> DEFINE s == r(u)
<1> HIDE DEF r, f
<1>6. SetCall(c, s) /\ UNCHANGED <<now, ledgerFee, registered, pendingNight, feeUnknown>>
      /\ CallAt(c, "idle")
  BY <1>1 DEF StartWait
<1>7. BookedByOneCall'
  BY <1>5, <1>6, SameBookings DEF Holding, CallAt
<1>8. ASSUME calls'[c] = s PROVE (WaitedFor(c) /\ BuiltOf(c) /\ PaidOf(c))'
  <2>1. WaitedFor(c)'
    BY <1>2, <1>5, <1>8 DEF WaitedFor, CallAt, f, fakeOf
  <2>2. BuiltOf(c)' /\ PaidOf(c)'
    BY <1>5, <1>8 DEF BuiltOf, PaidOf, Waited, IsBuilding, Holding
  <2> QED BY <2>1, <2>2
<1> QED BY <1>5, <1>6, <1>7, <1>8, CallTyped, CallStep

LEMMA SplitInv ==
  ASSUME RegistrationInv, NEW c \in Calls, NEW utxos \in SUBSET NightUtxos, NEW registration \in BOOLEAN,
         Split(c, utxos, registration)
  PROVE  RegistrationInv'
<1>1. PICK u \in Guaranteed(utxos, now) :
        SetCall(c, [calls[c] EXCEPT !.stage = "split", !.utxos = utxos, !.registration = registration,
                      !.tx = Offers(u, utxos), !.feePayment = FeePayment(u, now, registration)])
  BY DEF Split
<1> DEFINE payment == FeePayment(u, now, registration)
           r == [calls[c] EXCEPT !.stage = "split", !.utxos = utxos, !.registration = registration,
                   !.tx = Offers(u, utxos), !.feePayment = payment]
<1>2. u \in utxos /\ \A v \in utxos : GeneratedNow(v, now) <= GeneratedNow(u, now)
  BY GuaranteedIsAmongThem
<1>3. Offers(u, utxos) \in Intent /\ Offers(u, utxos).guaranteed = {u}
      /\ Offers(u, utxos).fallible = utxos \ {u} /\ ~Offers(u, utxos).registration
  BY <1>2, OffersTyped
<1>4. payment \in 0..Cap /\ (registration /\ u \notin registered => payment = GeneratedNow(u, now))
  BY <1>2, CallTyped, GeneratedTyped, RegistrationBounds DEF FeePayment
<1> HIDE DEF payment
<1>5. /\ r \in CallState /\ r.stage = "split" /\ r.registration = registration /\ r.utxos = utxos
      /\ r.tx = Offers(u, utxos) /\ r.feePayment = payment /\ r.required = calls[c].required
      /\ r.estimated = calls[c].estimated /\ r.required \in Nat
  BY <1>3, <1>4, CallTyped DEF CallState, Stages
<1>6. SetCall(c, r) /\ UNCHANGED <<now, ledgerFee, registered, pendingNight, feeUnknown>>
  BY <1>1 DEF Split, payment
<1>7. CallAt(c, "idle") \/ (CallAt(c, "waited") /\ utxos = calls[c].utxos /\ registration)
  BY DEF Split
<1> HIDE DEF r
<1>8. BookedByOneCall'
  BY <1>5, <1>6, <1>7, SameBookings DEF Holding, CallAt
<1>9. CallAt(c, "idle") => r.required = 0
  BY <1>5, CallTyped DEF WaitedFor, IdleCall
<1>10. ASSUME calls'[c] = r PROVE (WaitedFor(c) /\ BuiltOf(c) /\ PaidOf(c))'
  <2>1. WaitedFor(c)'
    BY <1>5, <1>6, <1>7, <1>9, <1>10, CallTyped DEF WaitedFor, CallAt
  <2>2. BuiltOf(c)'
    BY <1>2, <1>3, <1>5, <1>10 DEF BuiltOf, IsBuilding, CallAt
  <2>3. PaidOf(c)'
    <3> SUFFICES ASSUME r.required > 0, utxos \cap registered = {} PROVE payment >= r.required
      BY <1>5, <1>6, <1>10 DEF PaidOf, Waited
    <3>1. CallAt(c, "waited") /\ utxos = calls[c].utxos /\ registration
      BY <1>5, <1>7, <1>9
    <3>2. PICK v \in utxos : GeneratedNow(v, now) >= r.required
      BY <1>5, <3>1, CallTyped DEF WaitedFor
    <3>3. payment = GeneratedNow(u, now) /\ GeneratedNow(v, now) <= GeneratedNow(u, now)
      BY <1>2, <1>4, <3>1
    <3>4. GeneratedNow(u, now) \in Nat /\ GeneratedNow(v, now) \in Nat
      BY <1>2, CallTyped, GeneratedTyped, RegistrationBounds
    <3> QED BY <1>5, <3>2, <3>3, <3>4
  <2> QED BY <2>1, <2>2, <2>3
<1> QED BY <1>5, <1>6, <1>8, <1>10, CallTyped, CallStep

(* Steps of a call that only move it to another stage.                     *)
LEMMA StageInv ==
  ASSUME RegistrationInv, NEW c \in Calls, NEW stage \in Stages,
         SetCall(c, [calls[c] EXCEPT !.stage = stage]),
         UNCHANGED <<now, ledgerFee, registered, pendingNight, feeUnknown>>,
         \/ /\ CallAt(c, "waiting") /\ stage = "waited"
            /\ calls[c].required <= 0 \/ MaxGenerated(calls[c].utxos, now) >= calls[c].required
         \/ CallAt(c, "waiting") /\ stage = "failed"
         \/ CallAt(c, "split") /\ stage = "failed"
         \/ CallAt(c, "attached") /\ stage = "checked"
  PROVE  RegistrationInv'
<1> DEFINE r == [calls[c] EXCEPT !.stage = stage]
<1>1. /\ r \in CallState /\ r.stage = stage /\ r.utxos = calls[c].utxos /\ r.tx = calls[c].tx
      /\ r.required = calls[c].required /\ r.required \in Nat /\ r.estimated = calls[c].estimated
      /\ r.registration = calls[c].registration /\ r.feePayment = calls[c].feePayment
  BY CallTyped DEF CallState
<1> HIDE DEF r
<1>2. SetCall(c, r)
  BY DEF r
<1>3. BookedByOneCall'
  BY <1>1, <1>2, SameBookings DEF Holding, CallAt
<1>4. ASSUME calls'[c] = r PROVE (WaitedFor(c) /\ BuiltOf(c) /\ PaidOf(c))'
  <2>1. stage = "waited" /\ r.required > 0 =>
          \E u \in r.utxos \ registered : GeneratedNow(u, now) >= r.required
    <3> SUFFICES ASSUME stage = "waited", r.required > 0
                 PROVE  \E u \in r.utxos \ registered : GeneratedNow(u, now) >= r.required
      OBVIOUS
    <3>1. MaxGenerated(r.utxos, now) >= r.required
      BY <1>1 DEF CallAt
    <3>2. r.utxos \ registered # {}
      BY <1>1, <3>1 DEF MaxGenerated
    <3>3. PICK u \in r.utxos \ registered : GeneratedNow(u, now) = MaxGenerated(r.utxos, now)
      BY <1>1, <3>2, CallTyped, MaxIsReached
    <3> QED BY <3>1, <3>3
  <2>2. WaitedFor(c)'
    BY <1>1, <1>4, <2>1, CallTyped DEF WaitedFor, CallAt, GeneratedNow
  <2>3. BuiltOf(c)'
    BY <1>1, <1>4, CallTyped DEF BuiltOf, IsBuilding, CallAt, Holding
  <2>4. PaidOf(c)'
    BY <1>1, <1>4, CallTyped DEF PaidOf, Waited, CallAt
  <2> QED BY <2>2, <2>3, <2>4
<1> QED BY <1>1, <1>2, <1>3, <1>4, CallTyped, CallStep

LEMMA RotateInv ==
  ASSUME RegistrationInv, NEW c \in Calls, RotateNight(c)
  PROVE  RegistrationInv'
<1>1. CASE calls[c].utxos \cap pendingNight # {}
  <2>1. SetCall(c, [calls[c] EXCEPT !.stage = "failed"])
        /\ UNCHANGED <<now, ledgerFee, registered, pendingNight, feeUnknown>> /\ CallAt(c, "split")
    BY <1>1 DEF RotateNight
  <2> QED BY <2>1, StageInv DEF Stages
<1>2. CASE calls[c].utxos \cap pendingNight = {}
  <2> DEFINE r == [calls[c] EXCEPT !.stage = "rotated"]
  <2>1. /\ r \in CallState /\ r.stage = "rotated" /\ r.utxos = calls[c].utxos /\ r.tx = calls[c].tx
        /\ r.required = calls[c].required /\ r.required \in Nat /\ r.estimated = calls[c].estimated
        /\ r.registration = calls[c].registration /\ r.feePayment = calls[c].feePayment
    BY CallTyped DEF CallState, Stages
  <2>2. /\ SetCall(c, r) /\ pendingNight' = pendingNight \cup r.utxos
        /\ UNCHANGED <<now, ledgerFee, registered, feeUnknown>> /\ CallAt(c, "split")
    BY <1>2 DEF RotateNight
  <2> HIDE DEF r
  <2>3. calls'[c] = r /\ \A d \in Calls \ {c} : calls'[d] = calls[d]
    BY <2>2, CallTyped DEF SetCall
  <2>4. BookedByOneCall'
    <3>1. BookedByOneCall
      BY DEF RegistrationInv
    <3>2. \A d \in Calls \ {c} : calls[d].stage \in Holding =>
            calls[d].utxos \subseteq pendingNight /\ calls[d].utxos \cap r.utxos = {}
      BY <1>2, <2>1, <3>1 DEF BookedByOneCall
    <3>3. "rotated" \in Holding /\ "split" \notin Holding
      BY DEF Holding
    <3>4. \A d \in Calls : calls'[d].stage \in Holding => calls'[d].utxos \subseteq pendingNight'
      BY <2>1, <2>2, <2>3, <3>2
    <3>5. \A d, e \in Calls : d # e /\ calls'[d].stage \in Holding /\ calls'[e].stage \in Holding
                                => calls'[d].utxos \cap calls'[e].utxos = {}
      BY <2>3, <3>1, <3>2 DEF BookedByOneCall
    <3>6. ASSUME ~feeUnknown, NEW u \in pendingNight'
          PROVE  \E d \in Calls : calls'[d].stage \in Holding /\ u \in calls'[d].utxos
      <4>1. CASE u \in r.utxos
        BY <2>1, <2>3, <3>3, <4>1
      <4>2. CASE u \in pendingNight
        <5>1. PICK d \in Calls : calls[d].stage \in Holding /\ u \in calls[d].utxos
          BY <3>1, <3>6, <4>2 DEF BookedByOneCall
        <5>2. d # c
          BY <2>2, <3>3, <5>1 DEF CallAt
        <5> QED BY <2>3, <5>1, <5>2
      <4> QED BY <2>2, <4>1, <4>2
    <3> QED BY <2>2, <3>4, <3>5, <3>6 DEF BookedByOneCall
  <2>5. (WaitedFor(c) /\ BuiltOf(c) /\ PaidOf(c))'
    <3>1. WaitedFor(c)' /\ PaidOf(c)'
      BY <2>1, <2>2, <2>3, CallTyped DEF WaitedFor, PaidOf, Waited, CallAt
    <3>2. BuiltOf(c)'
      BY <2>1, <2>2, <2>3, CallTyped DEF BuiltOf, IsBuilding, Holding, CallAt
    <3> QED BY <3>1, <3>2
  <2> QED BY <2>1, <2>2, <2>3, <2>4, <2>5, CallTyped, CallStep
<1> QED BY <1>1, <1>2

LEMMA FeeUnknownInv ==
  ASSUME RegistrationInv, NEW c \in Calls, FeeUnknown(c)
  PROVE  RegistrationInv'
<1> DEFINE r == [calls[c] EXCEPT !.stage = "failed"]
<1>1. /\ r \in CallState /\ r.stage = "failed" /\ r.utxos = calls[c].utxos /\ r.tx = calls[c].tx
      /\ r.required = calls[c].required /\ r.required \in Nat /\ r.estimated = calls[c].estimated
      /\ r.registration = calls[c].registration
  BY CallTyped DEF CallState, Stages
<1>2. SetCall(c, r) /\ UNCHANGED <<now, ledgerFee, registered, pendingNight>> /\ feeUnknown' = TRUE
  BY DEF FeeUnknown
<1> HIDE DEF r
<1>3. calls'[c] = r /\ \A d \in Calls \ {c} : calls'[d] = calls[d]
  BY <1>2, CallTyped DEF SetCall
<1>4. BookedByOneCall'
  <2>1. "failed" \notin Holding /\ BookedByOneCall
    BY DEF Holding, RegistrationInv
  <2>2. \A d \in Calls : calls'[d].stage \in Holding => calls'[d] = calls[d]
    BY <1>1, <1>3, <2>1
  <2> QED BY <1>2, <2>1, <2>2 DEF BookedByOneCall
<1>5. (WaitedFor(c) /\ BuiltOf(c) /\ PaidOf(c))'
  BY <1>1, <1>2, <1>3, CallTyped DEF WaitedFor, BuiltOf, PaidOf, Waited, IsBuilding, CallAt, Holding
<1> QED BY <1>1, <1>2, <1>4, <1>5, CallTyped, CallStep

(* Steps after the booking that add to the transaction.                    *)
LEMMA BuildingInv ==
  ASSUME RegistrationInv, NEW c \in Calls, NEW tx \in Intent, NEW stage \in Holding,
         SetCall(c, [calls[c] EXCEPT !.stage = stage, !.tx = tx]),
         UNCHANGED <<now, ledgerFee, registered, pendingNight, feeUnknown>>,
         calls[c].stage \in Holding,
         tx.guaranteed = calls[c].tx.guaranteed, tx.fallible = calls[c].tx.fallible,
         stage # "rotated" => tx.registration,
         stage = "signed" => tx.signed = OffersOf(tx),
         stage = "done" => tx.signed = OffersOf(tx) \cup {"registration"}
  PROVE  RegistrationInv'
<1> DEFINE r == [calls[c] EXCEPT !.stage = stage, !.tx = tx]
<1>1. /\ r \in CallState /\ r.stage = stage /\ r.utxos = calls[c].utxos /\ r.tx = tx
      /\ r.required = calls[c].required /\ r.required \in Nat /\ r.estimated = calls[c].estimated
      /\ r.registration = calls[c].registration /\ r.feePayment = calls[c].feePayment
  BY CallTyped DEF CallState, Stages, Holding
<1>2. SetCall(c, r)
  OBVIOUS
<1> HIDE DEF r
<1>3. BookedByOneCall'
  BY <1>1, <1>2, SameBookings
<1>4. ASSUME calls'[c] = r PROVE (WaitedFor(c) /\ BuiltOf(c) /\ PaidOf(c))'
  <2>1. WaitedFor(c)' /\ PaidOf(c)'
    BY <1>1, <1>4, CallTyped DEF WaitedFor, PaidOf, Waited, CallAt, Holding
  <2>2. BuiltOf(c)'
    <3>1. \E u \in r.utxos : tx.guaranteed = {u} /\ tx.fallible = r.utxos \ {u}
      BY <1>1, CallTyped DEF BuiltOf, IsBuilding
    <3> QED BY <1>1, <1>4, <3>1 DEF BuiltOf, CallAt, Holding
  <2> QED BY <2>1, <2>2
<1> QED BY <1>1, <1>2, <1>3, <1>4, CallTyped, CallStep

LEMMA StepInv ==
  ASSUME RegistrationInv, NEW c \in Calls, RegistrationStep(c)
  PROVE  RegistrationInv'
<1> DEFINE tx == calls[c].tx
           same == UNCHANGED <<now, ledgerFee, registered, pendingNight, feeUnknown>>
<1>1. tx \in Intent /\ calls[c] \in CallState
  BY CallTyped DEF CallState
<1>2. ASSUME NEW utxos \in SUBSET NightUtxos, StartWait(c, utxos) PROVE RegistrationInv'
  BY <1>2, StartWaitInv
<1>3. CASE WaitResolves(c) \/ WaitTimesOut(c)
  BY <1>3, StageInv DEF WaitResolves, WaitTimesOut, Stages
<1>4. ASSUME NEW utxos \in SUBSET NightUtxos, NEW registration \in BOOLEAN,
             Split(c, utxos, registration)
      PROVE  RegistrationInv'
  BY <1>4, SplitInv
<1>5. CASE RotateNight(c)
  BY <1>5, RotateInv
<1>6. CASE AttachFails(c) \/ RefusedForFee(c) \/ SigningFails(c)
  <2>1. calls[c].stage \in Holding /\ FailCall(c)
    BY <1>6 DEF AttachFails, RefusedForFee, SigningFails, CallAt, Holding
  <2> QED BY <2>1, FailCallInv
<1>7. CASE FeeUnknown(c)
  BY <1>7, FeeUnknownInv
<1>8. CASE PassFeeCheck(c)
  BY <1>8, StageInv DEF PassFeeCheck, Stages
<1>9. CASE AttachDustRegistration(c)
  <2> DEFINE new == [tx EXCEPT !.registration = TRUE]
  <2>1. new \in Intent /\ new.guaranteed = tx.guaranteed /\ new.fallible = tx.fallible /\ new.registration
    BY <1>1 DEF Intent
  <2>2. SetCall(c, [calls[c] EXCEPT !.stage = "attached", !.tx = new]) /\ same /\ CallAt(c, "rotated")
    BY <1>1, <1>9 DEF AttachDustRegistration, SetCall, CallState
  <2> HIDE DEF new
  <2> QED BY <2>1, <2>2, BuildingInv DEF CallAt, Holding
<1>10. CASE SignOffers(c)
  <2> DEFINE new == [tx EXCEPT !.signed = OffersOf(tx)]
  <2>1. CallAt(c, "checked") /\ tx.registration
    BY <1>10, CallTyped DEF SignOffers, BuiltOf, IsBuilding, CallAt, Holding
  <2>2. OffersOf(tx) \subseteq Parts
    BY DEF OffersOf, Parts
  <2>3. /\ new \in Intent /\ new.guaranteed = tx.guaranteed /\ new.fallible = tx.fallible
        /\ new.registration /\ new.signed = OffersOf(tx)
    BY <1>1, <2>1, <2>2 DEF Intent
  <2>4. SetCall(c, [calls[c] EXCEPT !.stage = "signed", !.tx = new]) /\ same
    BY <1>1, <1>10 DEF SignOffers, SignableOffers, SetCall, CallState
  <2> HIDE DEF new
  <2>5. OffersOf(new) = OffersOf(tx)
    <3>1. new["guaranteed"] = tx["guaranteed"] /\ new["fallible"] = tx["fallible"]
      BY <2>3
    <3> QED BY <3>1 DEF OffersOf
  <2> QED BY <2>1, <2>3, <2>4, <2>5, BuildingInv DEF CallAt, Holding
<1>11. CASE AddDustRegistrationSignature(c)
  <2> DEFINE new == [tx EXCEPT !.signed = OffersOf(tx) \cup {"registration"}]
  <2>1. CallAt(c, "signed") /\ tx.registration /\ tx.signed = OffersOf(tx)
    BY <1>11, CallTyped DEF AddDustRegistrationSignature, BuiltOf, IsBuilding, CallAt, Holding
  <2>2. OffersOf(tx) \cup {"registration"} \subseteq Parts
    BY DEF OffersOf, Parts
  <2>3. /\ new \in Intent /\ new.guaranteed = tx.guaranteed /\ new.fallible = tx.fallible
        /\ new.registration /\ new.signed = OffersOf(tx) \cup {"registration"}
    BY <1>1, <2>1, <2>2 DEF Intent
  <2>4. SetCall(c, [calls[c] EXCEPT !.stage = "done", !.tx = new]) /\ same
    BY <1>1, <1>11, <2>1 DEF AddDustRegistrationSignature, SetCall, CallState
  <2> HIDE DEF new
  <2>5. OffersOf(new) = OffersOf(tx)
    <3>1. new["guaranteed"] = tx["guaranteed"] /\ new["fallible"] = tx["fallible"]
      BY <2>3
    <3> QED BY <3>1 DEF OffersOf
  <2> QED BY <2>1, <2>3, <2>4, <2>5, BuildingInv DEF CallAt, Holding
<1> QED BY <1>2, <1>3, <1>4, <1>5, <1>6, <1>7, <1>8, <1>9, <1>10, <1>11 DEF RegistrationStep

LEMMA RegistrationNextInv == RegistrationInv /\ [RegistrationNext]_regVars => RegistrationInv'
<1> SUFFICES ASSUME RegistrationInv, [RegistrationNext]_regVars PROVE RegistrationInv'
  OBVIOUS
<1>1. CASE UNCHANGED <<ledgerFee, registered, pendingNight, calls, feeUnknown>> /\ now' \in {now, now + 1}
           /\ now' \in 0..MaxTicks
  <2>1. RegistrationTypeOK' /\ BookedByOneCall'
    BY <1>1 DEF RegistrationInv, RegistrationTypeOK, BookedByOneCall
  <2>2. ASSUME NEW c \in Calls PROVE (WaitedFor(c) /\ BuiltOf(c) /\ PaidOf(c))'
    <3>1. BuiltOf(c)' /\ PaidOf(c)'
      BY <1>1, CallTyped DEF BuiltOf, IsBuilding, PaidOf, Waited, CallAt
    <3>2. ASSUME CallAt(c, "waited"), calls[c].required > 0
          PROVE  \E u \in calls[c].utxos \ registered : GeneratedNow(u, now') >= calls[c].required
      <4>1. PICK u \in calls[c].utxos \ registered : GeneratedNow(u, now) >= calls[c].required
        BY <3>2, CallTyped DEF WaitedFor
      <4>2. GeneratedNow(u, now) <= GeneratedNow(u, now + 1) /\ GeneratedNow(u, now) \in Nat
            /\ GeneratedNow(u, now + 1) \in Nat /\ calls[c].required \in Nat
        BY CallTyped, GeneratedGrows, GeneratedTyped, RegistrationBounds DEF CallState
      <4> QED BY <1>1, <4>1, <4>2
    <3>3. WaitedFor(c)'
      <4>1. \A u : GeneratedNow(u, now)' = GeneratedNow(u, now')
        BY DEF GeneratedNow
      <4> QED BY <1>1, <3>2, <4>1, CallTyped DEF WaitedFor, CallAt
    <3> QED BY <3>1, <3>3
  <2> QED BY <2>1, <2>2 DEF RegistrationInv
<1>2. CASE NewFee
  <2>1. RegistrationTypeOK' /\ BookedByOneCall'
    BY <1>2 DEF NewFee, RegistrationInv, RegistrationTypeOK, BookedByOneCall
  <2>2. ASSUME NEW c \in Calls PROVE (WaitedFor(c) /\ BuiltOf(c) /\ PaidOf(c))'
    BY <1>2, CallTyped, OtherCall DEF NewFee
  <2> QED BY <2>1, <2>2 DEF RegistrationInv
<1>3. ASSUME NEW c \in Calls, RegistrationStep(c) PROVE RegistrationInv'
  BY <1>3, StepInv
<1>4. CASE RegistrationTick
  BY <1>1, <1>4, RegistrationBounds DEF RegistrationTick, RegistrationInv, RegistrationTypeOK
<1>5. CASE UNCHANGED regVars
  BY <1>1, <1>5 DEF regVars, RegistrationInv, RegistrationTypeOK
<1> QED BY <1>2, <1>3, <1>4, <1>5 DEF RegistrationNext

LEMMA RegistrationInitInv == RegistrationInit => RegistrationInv
<1> SUFFICES ASSUME RegistrationInit PROVE RegistrationInv
  OBVIOUS
<1>1. IdleCall \in CallState
  BY RegistrationBounds DEF IdleCall, CallState, Stages, NoRegistration, Intent
<1>2. RegistrationTypeOK
  <2>1. calls \in [Calls -> CallState] /\ feeUnknown \in BOOLEAN
    BY <1>1 DEF RegistrationInit
  <2>2. now \in 0..MaxTicks
    BY RegistrationBounds DEF RegistrationInit
  <2>3. ledgerFee \in Fees /\ registered \subseteq NightUtxos /\ pendingNight \subseteq NightUtxos
    BY DEF RegistrationInit
  <2> QED BY <2>1, <2>2, <2>3 DEF RegistrationTypeOK
<1>3. \A c \in Calls : calls[c] = IdleCall /\ calls[c].stage = "idle" /\ calls[c].required = 0
  BY DEF RegistrationInit, IdleCall
<1>4. BookedByOneCall
  BY <1>3 DEF RegistrationInit, BookedByOneCall, Holding
<1>5. \A c \in Calls : WaitedFor(c) /\ BuiltOf(c) /\ PaidOf(c)
  BY <1>3 DEF WaitedFor, BuiltOf, PaidOf, Waited, IsBuilding, CallAt, Holding
<1> QED BY <1>2, <1>4, <1>5 DEF RegistrationInv

LEMMA RegistrationInvHolds == RegistrationInv => RegistrationHolds
<1> SUFFICES ASSUME RegistrationInv PROVE RegistrationHolds
  OBVIOUS
<1>1. WaitedMeansPaid
  BY DEF RegistrationInv, WaitedMeansPaid, PaidOf
<1>2. EstimateIsBuilt
  <2> SUFFICES ASSUME NEW c \in Calls, calls[c].stage = "done", calls[c].required > 0
               PROVE  Shape(calls[c].tx) = Shape(calls[c].estimated)
    BY DEF EstimateIsBuilt
  <2> DEFINE tx == calls[c].tx
             estimated == calls[c].estimated
             utxos == calls[c].utxos
  <2>1. utxos \in SUBSET NightUtxos /\ IsFiniteSet(utxos)
    BY CallTyped, RegistrationBounds, FS_Subset
  <2>2. PICK u \in utxos : tx.guaranteed = {u} /\ tx.fallible = utxos \ {u}
    BY CallTyped DEF BuiltOf, IsBuilding, Holding
  <2>3. tx.registration /\ tx.signed = OffersOf(tx) \cup {"registration"}
    BY CallTyped DEF BuiltOf, IsBuilding, CallAt, Holding
  <2>4. PICK v \in utxos : estimated = AddDustGenerationSignature(CreateDustGenerationTransaction(v, utxos))
    BY CallTyped DEF WaitedFor
  <2>5. /\ estimated \in Intent /\ estimated.guaranteed = {v} /\ estimated.fallible = utxos \ {v}
        /\ estimated.registration /\ estimated.signed = OffersOf(estimated) \cup {"registration"}
    <3> DEFINE made == AddDustGenerationSignature(CreateDustGenerationTransaction(v, utxos))
    <3> HIDE DEF utxos
    <3>1. /\ made \in Intent /\ made.guaranteed = {v} /\ made.fallible = utxos \ {v}
          /\ made.registration /\ made.signed = OffersOf(made) \cup {"registration"}
      BY <2>1, OffersTyped
    <3>2. estimated = made
      BY <2>4
    <3> HIDE DEF made, estimated
    <3> QED BY <3>1, <3>2
  <2>6. tx \in Intent
    BY CallTyped DEF CallState
  <2> HIDE DEF tx, estimated, utxos
  <2>7. Cardinality({u}) = 1 /\ Cardinality({v}) = 1
    BY FS_Singleton
  <2>8. Cardinality(utxos \ {u}) = Cardinality(utxos) - 1
        /\ Cardinality(utxos \ {v}) = Cardinality(utxos) - 1
    BY <2>1, <2>2, <2>4, FS_RemoveElement
  <2>9. utxos \ {u} = {} <=> utxos \ {v} = {}
    BY <2>2, <2>4
  <2>10. OffersOf(tx) = OffersOf(estimated)
    <3>1. (tx["guaranteed"] # {} <=> estimated["guaranteed"] # {})
          /\ (tx["fallible"] # {} <=> estimated["fallible"] # {})
      BY <2>2, <2>5, <2>9
    <3> QED BY <3>1 DEF OffersOf
  <2>11. tx.registration = estimated.registration
    <3>1. tx.registration \in BOOLEAN /\ estimated.registration \in BOOLEAN
      BY <2>5, <2>6 DEF Intent
    <3> QED BY <2>3, <2>5, <3>1
  <2>12. Cardinality(tx.guaranteed) = Cardinality(estimated.guaranteed)
         /\ Cardinality(tx.fallible) = Cardinality(estimated.fallible)
    BY <2>2, <2>5, <2>7, <2>8
  <2>13. Shape(tx) = Shape(estimated)
    BY <2>3, <2>5, <2>10, <2>11, <2>12 DEF Shape
  <2> QED BY <2>13 DEF tx, estimated
<1> QED BY <1>1, <1>2 DEF RegistrationHolds, EstimateHolds, RegistrationInv

(* Every booked output is held by one call on its way to a transaction,    *)
(* what was waited for is paid, and what was estimated is of the shape of  *)
(* what is built: for any number of calls that interleave, any outputs,    *)
(* rates, fees and times at which a step fails.                            *)
THEOREM RegistrationsHold == RegistrationSpec => []RegistrationHolds
  BY RegistrationInitInv, RegistrationNextInv, RegistrationInvHolds, PTL DEF RegistrationSpec

-----------------------------------------------------------------------------
(* Recipes                                                                 *)

(* Another party's signature stays where it is; those of this wallet cover *)
(* the intent as it is.                                                    *)
TheirsKept(offer) ==
  \A c \in DOMAIN offer \ Utxos : offer[c] \in Signatures /\ offer[c].by = "other party"
OursTrue(offer, data) ==
  \A c \in DOMAIN offer \cap Utxos : offer[c] \in {Unsigned, [by |-> "wallet", over |-> data]}
OursSigned(offer, data) ==
  \A c \in DOMAIN offer \cap Utxos : offer[c] = [by |-> "wallet", over |-> data]

IntentKept(i) == TheirsKept(i.guaranteed) /\ TheirsKept(i.fallible)
IntentTrue(i) ==
  OursTrue(i.guaranteed, GetSignatureData(i)) /\ OursTrue(i.fallible, GetSignatureData(i))
IntentSigned(i) ==
  OursSigned(i.guaranteed, GetSignatureData(i)) /\ OursSigned(i.fallible, GetSignatureData(i))

(* A part of a recipe, or none                                             *)
RecipeParts == Transactions \cup {NoTransaction}
SegmentsOf(p) == IF p = NoTransaction THEN {} ELSE GetSegments(p)
PartKept(p) == \A s \in SegmentsOf(p) : IntentKept(p.intents[s])
PartTrue(p) == \A s \in SegmentsOf(p) : IntentTrue(p.intents[s])
PartSigned(p) == \A s \in SegmentsOf(p) : IntentSigned(p.intents[s])

LEMMA PartialFunction ==
  ASSUME NEW D, NEW R, NEW f
  PROVE  f \in Partial(D, R) <=> f \in [DOMAIN f -> R] /\ DOMAIN f \subseteq D
BY DEF Partial

LEMMA BesidePartial ==
  ASSUME NEW D, NEW R, NEW f \in Partial(D, R), NEW g \in Partial(D, R)
  PROVE  Beside(f, g) \in Partial(D, R)
<1>1. f \in [DOMAIN f -> R] /\ DOMAIN f \subseteq D /\ g \in [DOMAIN g -> R] /\ DOMAIN g \subseteq D
  BY PartialFunction
<1>2. Beside(f, g) \in [DOMAIN f \cup DOMAIN g -> R]
  BY <1>1 DEF Beside
<1>3. DOMAIN Beside(f, g) = DOMAIN f \cup DOMAIN g
  BY DEF Beside
<1> QED BY <1>1, <1>2, <1>3, PartialFunction

LEMMA TransactionFields ==
  ASSUME NEW tx \in Transactions
  PROVE  /\ tx = [intents |-> tx.intents, spends |-> tx.spends]
         /\ tx.intents \in Partial(Segments, Intents)
         /\ tx.intents \in [GetSegments(tx) -> Intents]
         /\ GetSegments(tx) \subseteq Segments
         /\ tx.spends \in SUBSET (ZswapCoins \cup DustCoins)
         /\ tx # NoTransaction
         /\ SegmentsOf(tx) = GetSegments(tx)
         /\ Booked(tx) = OwnInputs(tx) \cup tx.spends
<1>1. tx = [intents |-> tx.intents, spends |-> tx.spends] /\ tx.intents \in Partial(Segments, Intents)
      /\ tx.spends \in SUBSET (ZswapCoins \cup DustCoins)
  BY DEF Transactions
<1>2. tx.intents \in [GetSegments(tx) -> Intents] /\ GetSegments(tx) \subseteq Segments
  BY <1>1, PartialFunction DEF GetSegments
<1>3. tx # NoTransaction
  BY RecipeValues
<1> QED BY <1>1, <1>2, <1>3 DEF SegmentsOf, Booked

LEMMA IntentFields ==
  ASSUME NEW i \in Intents
  PROVE  /\ i = [guaranteed |-> i.guaranteed, fallible |-> i.fallible,
                 registration |-> i.registration, bound |-> i.bound]
         /\ i.guaranteed \in UtxoOffers
         /\ i.fallible \in UtxoOffers
         /\ i.registration \in {"none", "unsigned", "signed"}
         /\ i.bound \in BOOLEAN
BY DEF Intents

LEMMA InputsOfSegments ==
  ASSUME NEW tx
  PROVE  OwnInputs(tx) = {c \in Utxos : \E s \in GetSegments(tx) :
                            c \in DOMAIN tx.intents[s].guaranteed \/ c \in DOMAIN tx.intents[s].fallible}
<1>1. ASSUME NEW c \in OwnInputs(tx)
      PROVE  /\ c \in Utxos
             /\ \E s \in GetSegments(tx) :
                  c \in DOMAIN tx.intents[s].guaranteed \/ c \in DOMAIN tx.intents[s].fallible
  <2>1. c \in Utxos /\ \E s \in GetSegments(tx), o \in OfferSections : c \in DOMAIN tx.intents[s][o]
    BY DEF OwnInputs
  <2>2. PICK s \in GetSegments(tx), o \in OfferSections : c \in DOMAIN tx.intents[s][o]
    BY <2>1
  <2>3. o = "guaranteed" \/ o = "fallible"
    BY DEF OfferSections
  <2> QED BY <2>1, <2>2, <2>3
<1>2. ASSUME NEW c \in Utxos, NEW s \in GetSegments(tx),
             c \in DOMAIN tx.intents[s].guaranteed \/ c \in DOMAIN tx.intents[s].fallible
      PROVE  c \in OwnInputs(tx)
  <2>1. PICK o \in OfferSections : c \in DOMAIN tx.intents[s][o]
    BY <1>2 DEF OfferSections
  <2> QED BY <2>1 DEF OwnInputs
<1> QED BY <1>1, <1>2

LEMMA IntentChange ==
  ASSUME NEW tx \in Transactions, NEW g \in [GetSegments(tx) -> Intents]
  PROVE  /\ [tx EXCEPT !.intents = g] \in Transactions
         /\ [tx EXCEPT !.intents = g].intents = g
         /\ GetSegments([tx EXCEPT !.intents = g]) = GetSegments(tx)
         /\ [tx EXCEPT !.intents = g].spends = tx.spends
<1>1. tx = [intents |-> tx.intents, spends |-> tx.spends] /\ GetSegments(tx) \subseteq Segments
      /\ tx.spends \in SUBSET (ZswapCoins \cup DustCoins)
  BY TransactionFields
<1>2. [tx EXCEPT !.intents = g] = [intents |-> g, spends |-> tx.spends]
  BY <1>1
<1>3. g \in Partial(Segments, Intents)
  BY <1>1, PartialFunction
<1>4. [tx EXCEPT !.intents = g] \in Transactions
  BY <1>1, <1>2, <1>3 DEF Transactions
<1> QED BY <1>2, <1>4 DEF GetSegments

LEMMA SpendingPart ==
  ASSUME NEW paid, paid \subseteq ZswapCoins \cup DustCoins
  PROVE  /\ Spending(paid) \in Transactions
         /\ GetSegments(Spending(paid)) = {}
         /\ Spending(paid).spends = paid
         /\ PartKept(Spending(paid)) /\ PartTrue(Spending(paid)) /\ PartSigned(Spending(paid))
<1>1. GetSegments(Spending(paid)) = {}
  BY DEF Spending, GetSegments
<1>2. Spending(paid).intents \in Partial(Segments, Intents)
  <2>1. Spending(paid).intents \in [{} -> Intents]
    BY DEF Spending
  <2> QED BY <2>1, PartialFunction
<1>3. Spending(paid) = [intents |-> Spending(paid).intents, spends |-> paid]
  BY DEF Spending
<1>4. Spending(paid) \in Transactions
  BY <1>2, <1>3 DEF Transactions
<1>5. SegmentsOf(Spending(paid)) = {}
  BY <1>1 DEF SegmentsOf
<1> QED BY <1>1, <1>3, <1>4, <1>5 DEF PartKept, PartTrue, PartSigned

(* A part that spends outputs or pays fees in an intent of its own         *)
LEMMA IntentPart ==
  ASSUME NEW paid, paid \subseteq ZswapCoins \cup DustCoins, NEW s \in Segments,
         NEW i \in Intents
  PROVE  /\ AddIntent(Spending(paid), s, i) \in Transactions
         /\ GetSegments(AddIntent(Spending(paid), s, i)) = {s}
         /\ AddIntent(Spending(paid), s, i).intents[s] = i
         /\ AddIntent(Spending(paid), s, i).spends = paid
<1> DEFINE b == Beside(Spending(paid).intents, [x \in {s} |-> i])
<1>1. Spending(paid) \in Transactions /\ GetSegments(Spending(paid)) = {} /\ Spending(paid).spends = paid
  BY SpendingPart
<1>2. Spending(paid).intents \in Partial(Segments, Intents) /\ DOMAIN Spending(paid).intents = {}
  BY <1>1, TransactionFields DEF GetSegments
<1>3. [x \in {s} |-> i] \in Partial(Segments, Intents)
  <2>1. [x \in {s} |-> i] \in [{s} -> Intents]
    OBVIOUS
  <2> QED BY <2>1, PartialFunction
<1>4. b \in Partial(Segments, Intents) /\ DOMAIN b = {s} /\ b[s] = i
  <2>1. DOMAIN b = {s} /\ b[s] = i
    BY <1>2 DEF Beside
  <2>2. b \in Partial(Segments, Intents)
    BY <1>2, <1>3, BesidePartial
  <2> QED BY <2>1, <2>2
<1>5. AddIntent(Spending(paid), s, i) = [intents |-> b, spends |-> paid]
  <2>1. Spending(paid) = [intents |-> Spending(paid).intents, spends |-> Spending(paid).spends]
    BY <1>1, TransactionFields
  <2> HIDE DEF b
  <2>2. AddIntent(Spending(paid), s, i) = [Spending(paid) EXCEPT !.intents = b]
    BY DEF AddIntent, b
  <2> QED BY <1>1, <2>1, <2>2
<1> HIDE DEF b
<1> QED BY <1>1, <1>4, <1>5 DEF Transactions, GetSegments

LEMMA NewIntentIsIntent ==
  /\ NewIntent \in Intents
  /\ DOMAIN NewIntent.guaranteed = {} /\ DOMAIN NewIntent.fallible = {}
<1>1. EmptyOffer \in UtxoOffers /\ DOMAIN EmptyOffer = {}
  <2>1. EmptyOffer \in [{} -> Signatures \cup {Unsigned}] /\ DOMAIN EmptyOffer = {}
    BY DEF EmptyOffer
  <2> QED BY <2>1, PartialFunction DEF UtxoOffers
<1> QED BY <1>1 DEF NewIntent, Intents

LEMMA FreeSegment ==
  ASSUME NEW tx, NEW b \in Nat, b < MaxSegment, GetSegments(tx) \subseteq 1..b
  PROVE  /\ FindAvailableSegmentId(tx) \in 1..(b + 1)
         /\ FindAvailableSegmentId(tx) \in Segments \ GetSegments(tx)
<1> DEFINE free == Segments \ GetSegments(tx)
<1>1. b + 1 \in free /\ free \subseteq Nat
  BY RecipeBounds DEF Segments
<1>2. PICK x \in free : \A y \in free : x <= y
  BY <1>1, LeastExists
<1>3. Min(free) \in free /\ \A y \in free : Min(free) <= y
  BY <1>2 DEF Min
<1>4. FindAvailableSegmentId(tx) = Min(free)
  BY <1>1 DEF FindAvailableSegmentId
<1> HIDE DEF free
<1>5. Min(free) \in 1..(b + 1)
  BY <1>1, <1>3, RecipeBounds DEF free, Segments
<1> QED BY <1>3, <1>4, <1>5 DEF free

LEMMA MergeParts ==
  ASSUME NEW a \in RecipeParts, NEW b \in RecipeParts, SegmentsOf(a) \cap SegmentsOf(b) = {}
  PROVE  LET m == MergeUnprovenTransactions(a, b)
         IN /\ m \in RecipeParts
            /\ m = NoTransaction <=> a = NoTransaction /\ b = NoTransaction
            /\ SegmentsOf(m) = SegmentsOf(a) \cup SegmentsOf(b)
            /\ Booked(m) = Booked(a) \cup Booked(b)
            /\ PartKept(a) /\ PartKept(b) => PartKept(m)
            /\ PartTrue(a) /\ PartTrue(b) => PartTrue(m)
            /\ PartSigned(a) /\ PartSigned(b) => PartSigned(m)
<1> DEFINE m == MergeUnprovenTransactions(a, b)
<1>1. CASE a = NoTransaction
  BY <1>1, RecipeValues DEF MergeUnprovenTransactions, SegmentsOf, Booked, PartKept, PartTrue, PartSigned
<1>2. CASE a # NoTransaction /\ b = NoTransaction
  BY <1>2, RecipeValues DEF MergeUnprovenTransactions, SegmentsOf, Booked, PartKept, PartTrue, PartSigned
<1>3. CASE a # NoTransaction /\ b # NoTransaction
  <2>1. a \in Transactions /\ b \in Transactions
    BY <1>3 DEF RecipeParts
  <2> DEFINE f == Beside(a.intents, b.intents)
  <2>2. /\ f \in Partial(Segments, Intents)
        /\ DOMAIN f = GetSegments(a) \cup GetSegments(b)
        /\ \A s \in GetSegments(a) : f[s] = a.intents[s]
        /\ \A s \in GetSegments(b) : f[s] = b.intents[s]
    <3>1. /\ a.intents \in Partial(Segments, Intents) /\ b.intents \in Partial(Segments, Intents)
          /\ DOMAIN a.intents \cap DOMAIN b.intents = {}
      BY <2>1, TransactionFields DEF GetSegments
    <3>2. f \in Partial(Segments, Intents)
      BY <3>1, BesidePartial
    <3>3. /\ DOMAIN f = DOMAIN a.intents \cup DOMAIN b.intents
          /\ \A s \in DOMAIN a.intents : f[s] = a.intents[s]
          /\ \A s \in DOMAIN b.intents : f[s] = b.intents[s]
      BY <3>1 DEF Beside
    <3> QED BY <3>2, <3>3 DEF GetSegments
  <2>3. m = [intents |-> f, spends |-> a.spends \cup b.spends]
    BY <1>3 DEF MergeUnprovenTransactions, Merge
  <2> HIDE DEF f, m
  <2>4. m \in Transactions
    BY <2>1, <2>2, <2>3, TransactionFields DEF Transactions
  <2>5. /\ GetSegments(m) = GetSegments(a) \cup GetSegments(b)
        /\ \A s \in GetSegments(a) : m.intents[s] = a.intents[s]
        /\ \A s \in GetSegments(b) : m.intents[s] = b.intents[s]
        /\ m.spends = a.spends \cup b.spends
    BY <2>2, <2>3 DEF GetSegments
  <2>6. SegmentsOf(m) = GetSegments(m) /\ SegmentsOf(a) = GetSegments(a) /\ SegmentsOf(b) = GetSegments(b)
    BY <2>1, <2>4, TransactionFields
  <2>7. OwnInputs(m) = OwnInputs(a) \cup OwnInputs(b)
    BY <2>5, InputsOfSegments
  <2>8. Booked(m) = Booked(a) \cup Booked(b)
    BY <2>1, <2>4, <2>5, <2>7, TransactionFields
  <2>9. m # NoTransaction
    BY <2>4, RecipeValues
  <2>10. /\ PartKept(a) /\ PartKept(b) => PartKept(m)
         /\ PartTrue(a) /\ PartTrue(b) => PartTrue(m)
         /\ PartSigned(a) /\ PartSigned(b) => PartSigned(m)
    BY <2>5, <2>6 DEF PartKept, PartTrue, PartSigned
  <2> QED BY <1>3, <2>4, <2>5, <2>6, <2>8, <2>9, <2>10 DEF RecipeParts, m
<1> QED BY <1>1, <1>2, <1>3

(* The parts that the wallets make: each has an intent in a segment that   *)
(* the transaction does not have, or none.                                 *)
LEMMA ShieldedPart ==
  ASSUME NEW kinds, NEW p \in ShieldedParts(kinds)
  PROVE  /\ p \in RecipeParts /\ SegmentsOf(p) = {}
         /\ PartKept(p) /\ PartTrue(p) /\ PartSigned(p)
<1>1. CASE p = NoTransaction
  BY <1>1 DEF RecipeParts, SegmentsOf, PartKept, PartTrue, PartSigned
<1>2. CASE p # NoTransaction
  <2>1. PICK c \in Selectable(kinds, "shielded", ZswapCoins) : p = Spending({c})
    BY <1>2 DEF ShieldedParts
  <2>2. {c} \subseteq ZswapCoins \cup DustCoins
    BY DEF Selectable
  <2>3. SegmentsOf(p) = {} /\ p \in RecipeParts
    BY <2>1, <2>2, SpendingPart, TransactionFields DEF RecipeParts
  <2> QED BY <2>1, <2>2, <2>3, SpendingPart
<1> QED BY <1>1, <1>2

LEMMA FeePart ==
  ASSUME NEW kinds, NEW tx, NEW b \in Nat, b < MaxSegment, GetSegments(tx) \subseteq 1..b,
         NEW p \in FeeParts(kinds, tx)
  PROVE  /\ p \in RecipeParts
         /\ SegmentsOf(p) \subseteq (1..(b + 1)) \ GetSegments(tx)
         /\ PartKept(p) /\ PartTrue(p)
<1>1. CASE p = NoTransaction
  BY <1>1 DEF RecipeParts, SegmentsOf, PartKept, PartTrue
<1>2. CASE p # NoTransaction
  <2> DEFINE s == FindAvailableSegmentId(tx)
  <2>1. PICK paid \in SUBSET (DustCoins \ taken) : p = AddIntent(Spending(paid), s, NewIntent)
    BY <1>2 DEF FeeParts
  <2>2. s \in 1..(b + 1) /\ s \in Segments \ GetSegments(tx)
    BY FreeSegment
  <2> HIDE DEF s
  <2>3. /\ p \in Transactions /\ GetSegments(p) = {s} /\ p.intents[s] = NewIntent
    BY <2>1, <2>2, IntentPart, NewIntentIsIntent
  <2>4. SegmentsOf(p) = {s}
    BY <2>3, TransactionFields
  <2>5. PartKept(p) /\ PartTrue(p)
    BY <2>3, <2>4, NewIntentIsIntent
       DEF PartKept, PartTrue, IntentKept, IntentTrue, TheirsKept, OursTrue
  <2> QED BY <2>2, <2>3, <2>4, <2>5 DEF RecipeParts
<1> QED BY <1>1, <1>2

LEMMA UnshieldedPart ==
  ASSUME NEW kinds, NEW tx, NEW b \in Nat, b < MaxSegment, GetSegments(tx) \subseteq 1..b,
         NEW p \in UnshieldedParts(kinds, tx)
  PROVE  /\ p \in RecipeParts
         /\ SegmentsOf(p) \subseteq (1..(b + 1)) \ GetSegments(tx)
         /\ PartKept(p) /\ PartTrue(p)
<1>1. CASE p = NoTransaction
  BY <1>1 DEF RecipeParts, SegmentsOf, PartKept, PartTrue
<1>2. CASE p # NoTransaction
  <2> DEFINE s == FindAvailableSegmentId(tx)
             I(c) == [NewIntent EXCEPT !.guaranteed = [u \in {c} |-> Unsigned]]
  <2>1. PICK c \in Selectable(kinds, "unshielded", Utxos) : p = AddIntent(Spending({}), s, I(c))
    BY <1>2 DEF UnshieldedParts
  <2>2. s \in 1..(b + 1) /\ s \in Segments \ GetSegments(tx)
    BY FreeSegment
  <2>3. c \in Utxos
    BY DEF Selectable
  <2>4. [u \in {c} |-> Unsigned] \in UtxoOffers
    <3>1. [u \in {c} |-> Unsigned] \in [{c} -> Signatures \cup {Unsigned}]
      OBVIOUS
    <3> QED BY <2>3, <3>1, PartialFunction DEF UtxoOffers, Outputs
  <2>5. /\ I(c) \in Intents
        /\ I(c).guaranteed = [u \in {c} |-> Unsigned]
        /\ I(c).fallible = NewIntent.fallible
    BY <2>4, NewIntentIsIntent, IntentFields DEF Intents
  <2> HIDE DEF s, I
  <2>6. /\ p \in Transactions /\ GetSegments(p) = {s} /\ p.intents[s] = I(c)
    BY <2>1, <2>2, <2>5, IntentPart
  <2>7. SegmentsOf(p) = {s}
    BY <2>6, TransactionFields
  <2>8. PartKept(p) /\ PartTrue(p)
    BY <2>3, <2>5, <2>6, <2>7, NewIntentIsIntent
       DEF PartKept, PartTrue, IntentKept, IntentTrue, TheirsKept, OursTrue
  <2> QED BY <2>2, <2>6, <2>7, <2>8 DEF RecipeParts
<1> QED BY <1>1, <1>2

(* Merging an offer in place keeps what was there, and spoils the intent   *)
(* if it was signed.                                                       *)
LEMMA OfferMerged ==
  ASSUME NEW offer \in UtxoOffers, NEW picks, NEW place,
         place \in DOMAIN picks => picks[place] \in Utxos
  PROVE  LET merged == MergeOffer(offer, picks, place)
         IN /\ merged \in UtxoOffers
            /\ DOMAIN offer \subseteq DOMAIN merged
            /\ TheirsKept(offer) => TheirsKept(merged)
            /\ (\A c \in DOMAIN offer : offer[c] = Unsigned) =>
                 \A c \in DOMAIN merged : merged[c] = Unsigned
<1>1. CASE place \notin DOMAIN picks
  BY <1>1 DEF MergeOffer
<1>2. CASE place \in DOMAIN picks
  <2> DEFINE one == [c \in {picks[place]} |-> Unsigned]
  <2>1. one \in UtxoOffers
    <3>1. one \in [{picks[place]} -> Signatures \cup {Unsigned}]
      OBVIOUS
    <3> QED BY <1>2, <3>1, PartialFunction DEF UtxoOffers, Outputs
  <2>2. DOMAIN one = {picks[place]} /\ one[picks[place]] = Unsigned
    OBVIOUS
  <2> HIDE DEF one
  <2>3. MergeOffer(offer, picks, place) = Beside(offer, one)
    BY <1>2 DEF MergeOffer, one
  <2>4. Beside(offer, one) \in UtxoOffers
    BY <2>1, BesidePartial DEF UtxoOffers
  <2>5. /\ DOMAIN Beside(offer, one) = DOMAIN offer \cup {picks[place]}
        /\ \A c \in DOMAIN offer : Beside(offer, one)[c] = offer[c]
        /\ picks[place] \notin DOMAIN offer => Beside(offer, one)[picks[place]] = Unsigned
    BY <2>2 DEF Beside
  <2>6. TheirsKept(offer) => TheirsKept(Beside(offer, one))
    BY <1>2, <2>5 DEF TheirsKept
  <2>7. (\A c \in DOMAIN offer : offer[c] = Unsigned) =>
           \A c \in DOMAIN Beside(offer, one) : Beside(offer, one)[c] = Unsigned
    BY <2>5
  <2> QED BY <2>3, <2>4, <2>5, <2>6, <2>7
<1> QED BY <1>1, <1>2

(* Changing the intents and not what they spend                            *)
LEMMA SameSpending ==
  ASSUME NEW tx \in Transactions, NEW g \in [GetSegments(tx) -> Intents],
         \A s \in GetSegments(tx) : /\ DOMAIN tx.intents[s].guaranteed \subseteq DOMAIN g[s].guaranteed
                                    /\ DOMAIN tx.intents[s].fallible \subseteq DOMAIN g[s].fallible
  PROVE  LET new == [tx EXCEPT !.intents = g]
         IN /\ new \in Transactions /\ new \in RecipeParts /\ new # NoTransaction
            /\ new.intents = g
            /\ GetSegments(new) = GetSegments(tx)
            /\ SegmentsOf(new) = SegmentsOf(tx)
            /\ Booked(tx) \subseteq Booked(new)
<1> DEFINE new == [tx EXCEPT !.intents = g]
<1>1. /\ new \in Transactions /\ new.intents = g
      /\ GetSegments(new) = GetSegments(tx) /\ new.spends = tx.spends
  BY IntentChange
<1> HIDE DEF new
<1>2. OwnInputs(tx) \subseteq OwnInputs(new)
  BY <1>1, InputsOfSegments
<1>3. new # NoTransaction /\ SegmentsOf(new) = SegmentsOf(tx) /\ Booked(tx) \subseteq Booked(new)
  BY <1>1, <1>2, TransactionFields
<1> QED BY <1>1, <1>3 DEF new, RecipeParts

LEMMA InPlace ==
  ASSUME NEW kinds, NEW tx \in Transactions, NEW base \in BalancedInPlace(kinds, tx)
  PROVE  /\ base \in Transactions
         /\ GetSegments(base) = GetSegments(tx)
         /\ Booked(tx) \subseteq Booked(base)
         /\ PartKept(tx) => PartKept(base)
         /\ PartTrue(tx) /\ ~SpoiledBy(tx, base) => PartTrue(base)
<1>1. PICK places \in SUBSET Places(tx) :
        \E picks \in [places -> Selectable(kinds, "unshielded", Utxos)] : base = MergeOffers(tx, picks)
  BY DEF BalancedInPlace
<1>2. PICK picks \in [places -> Selectable(kinds, "unshielded", Utxos)] : base = MergeOffers(tx, picks)
  BY <1>1
<1>3. \A place : place \in DOMAIN picks => picks[place] \in Utxos
  BY <1>2 DEF Selectable
<1> DEFINE G(s) == MergeOffer(tx.intents[s].guaranteed, picks, <<s, "guaranteed">>)
           F(s) == MergeOffer(tx.intents[s].fallible, picks, <<s, "fallible">>)
           g == [s \in GetSegments(tx) |-> MergeIntent(tx.intents[s], picks, s)]
<1>4. base = [tx EXCEPT !.intents = g]
  BY <1>2 DEF MergeOffers, GetSegments
<1>5. ASSUME NEW s \in GetSegments(tx)
      PROVE  /\ tx.intents[s] \in Intents
             /\ g[s] \in Intents /\ g[s].guaranteed = G(s) /\ g[s].fallible = F(s)
             /\ G(s) \in UtxoOffers /\ F(s) \in UtxoOffers
             /\ DOMAIN tx.intents[s].guaranteed \subseteq DOMAIN G(s)
             /\ DOMAIN tx.intents[s].fallible \subseteq DOMAIN F(s)
             /\ IntentKept(tx.intents[s]) => TheirsKept(G(s)) /\ TheirsKept(F(s))
             /\ (\A c \in DOMAIN tx.intents[s].guaranteed : tx.intents[s].guaranteed[c] = Unsigned) =>
                  \A c \in DOMAIN G(s) : G(s)[c] = Unsigned
             /\ (\A c \in DOMAIN tx.intents[s].fallible : tx.intents[s].fallible[c] = Unsigned) =>
                  \A c \in DOMAIN F(s) : F(s)[c] = Unsigned
  <2>1. tx.intents[s] \in Intents
    BY TransactionFields
  <2>2. tx.intents[s].guaranteed \in UtxoOffers /\ tx.intents[s].fallible \in UtxoOffers
    BY <2>1, IntentFields
  <2>3. /\ G(s) \in UtxoOffers
        /\ DOMAIN tx.intents[s].guaranteed \subseteq DOMAIN G(s)
        /\ TheirsKept(tx.intents[s].guaranteed) => TheirsKept(G(s))
        /\ (\A c \in DOMAIN tx.intents[s].guaranteed : tx.intents[s].guaranteed[c] = Unsigned) =>
             \A c \in DOMAIN G(s) : G(s)[c] = Unsigned
    BY <1>3, <2>2, OfferMerged
  <2>4. /\ F(s) \in UtxoOffers
        /\ DOMAIN tx.intents[s].fallible \subseteq DOMAIN F(s)
        /\ TheirsKept(tx.intents[s].fallible) => TheirsKept(F(s))
        /\ (\A c \in DOMAIN tx.intents[s].fallible : tx.intents[s].fallible[c] = Unsigned) =>
             \A c \in DOMAIN F(s) : F(s)[c] = Unsigned
    BY <1>3, <2>2, OfferMerged
  <2> HIDE DEF G, F
  <2>5. g[s] = [tx.intents[s] EXCEPT !.guaranteed = G(s), !.fallible = F(s)]
    BY DEF MergeIntent, G, F
  <2> HIDE DEF g
  <2>6. g[s] \in Intents /\ g[s].guaranteed = G(s) /\ g[s].fallible = F(s)
    BY <2>1, <2>3, <2>4, <2>5 DEF Intents
  <2> QED BY <2>1, <2>3, <2>4, <2>6 DEF IntentKept
<1> HIDE DEF G, F
<1>6. g \in [GetSegments(tx) -> Intents]
  <2>1. \A s \in GetSegments(tx) : g[s] \in Intents
    BY <1>5
  <2> QED BY <2>1
<1> HIDE DEF g
<1>7. /\ base \in Transactions /\ base.intents = g
      /\ GetSegments(base) = GetSegments(tx)
      /\ SegmentsOf(base) = GetSegments(tx)
      /\ SegmentsOf(tx) = GetSegments(tx)
      /\ Booked(tx) \subseteq Booked(base)
  BY <1>4, <1>5, <1>6, SameSpending, TransactionFields
<1>8. PartKept(tx) => PartKept(base)
  BY <1>5, <1>7 DEF PartKept, IntentKept
<1>9. ASSUME PartTrue(tx), ~SpoiledBy(tx, base), NEW s \in GetSegments(tx)
      PROVE  IntentTrue(g[s])
  <2>1. CASE g[s] = tx.intents[s]
    BY <1>7, <1>9, <2>1 DEF PartTrue
  <2>2. CASE ~HasSignature(tx.intents[s])
    <3>1. \A c \in DOMAIN tx.intents[s].guaranteed : tx.intents[s].guaranteed[c] = Unsigned
      BY <2>2 DEF HasSignature, OfferSections
    <3>2. \A c \in DOMAIN tx.intents[s].fallible : tx.intents[s].fallible[c] = Unsigned
      BY <2>2 DEF HasSignature, OfferSections
    <3>3. /\ \A c \in DOMAIN g[s].guaranteed : g[s].guaranteed[c] = Unsigned
          /\ \A c \in DOMAIN g[s].fallible : g[s].fallible[c] = Unsigned
      BY <1>5, <3>1, <3>2
    <3> QED BY <3>3 DEF IntentTrue, OursTrue
  <2> QED BY <1>7, <1>9, <2>1, <2>2 DEF SpoiledBy
<1>10. PartTrue(tx) /\ ~SpoiledBy(tx, base) => PartTrue(base)
  BY <1>7, <1>9 DEF PartTrue
<1> QED BY <1>7, <1>8, <1>10

(* Signing fills every signature that is missing.                          *)
LEMMA OfferSigned ==
  ASSUME NEW offer \in UtxoOffers, NEW data, [by |-> "wallet", over |-> data] \in Signatures
  PROVE  LET new == AddSignaturesToOffer(offer, [by |-> "wallet", over |-> data])
         IN /\ new \in UtxoOffers /\ DOMAIN new = DOMAIN offer
            /\ TheirsKept(offer) => TheirsKept(new)
            /\ OursTrue(offer, data) => OursSigned(new, data)
<1> DEFINE signature == [by |-> "wallet", over |-> data]
           new == AddSignaturesToOffer(offer, signature)
<1> HIDE DEF signature
<1>1. /\ DOMAIN new = DOMAIN offer
      /\ \A c \in DOMAIN offer : new[c] = IF offer[c] = Unsigned THEN signature ELSE offer[c]
  BY DEF AddSignaturesToOffer
<1>2. new \in UtxoOffers
  <2>1. offer \in [DOMAIN offer -> Signatures \cup {Unsigned}] /\ DOMAIN offer \subseteq Outputs
    BY PartialFunction DEF UtxoOffers
  <2>2. new \in [DOMAIN offer -> Signatures \cup {Unsigned}]
    BY <2>1 DEF AddSignaturesToOffer, signature
  <2> HIDE DEF new
  <2> QED BY <1>1, <2>1, <2>2, PartialFunction DEF UtxoOffers
<1> HIDE DEF new
<1>3. TheirsKept(offer) => TheirsKept(new)
  BY <1>1, RecipeValues DEF TheirsKept
<1>4. OursTrue(offer, data) => OursSigned(new, data)
  BY <1>1 DEF OursTrue, OursSigned, signature
<1> QED BY <1>1, <1>2, <1>3, <1>4 DEF new, signature

LEMMA SignedIntent ==
  ASSUME NEW i \in Intents
  PROVE  LET new == AddSignature(i)
         IN /\ new \in Intents
            /\ DOMAIN new.guaranteed = DOMAIN i.guaranteed
            /\ DOMAIN new.fallible = DOMAIN i.fallible
            /\ IntentKept(i) => IntentKept(new)
            /\ IntentTrue(i) => IntentSigned(new)
<1> DEFINE data == GetSignatureData(i)
           new == AddSignature(i)
           G == AddSignaturesToOffer(i.guaranteed, OwnSignature(i))
           F == AddSignaturesToOffer(i.fallible, OwnSignature(i))
<1>1. OwnSignature(i) = [by |-> "wallet", over |-> data]
  BY DEF OwnSignature
<1>2. i.guaranteed \in UtxoOffers /\ i.fallible \in UtxoOffers
  BY IntentFields
<1>3. data \in (SUBSET Outputs) \X (SUBSET Outputs) \X BOOLEAN
  <2>1. DOMAIN i.guaranteed \subseteq Outputs /\ DOMAIN i.fallible \subseteq Outputs
    BY <1>2, PartialFunction DEF UtxoOffers
  <2> QED BY <2>1 DEF GetSignatureData
<1>4. [by |-> "wallet", over |-> data] \in Signatures
  BY <1>3 DEF Signatures
<1> HIDE DEF data
<1>5. /\ G \in UtxoOffers /\ DOMAIN G = DOMAIN i.guaranteed
      /\ TheirsKept(i.guaranteed) => TheirsKept(G)
      /\ OursTrue(i.guaranteed, data) => OursSigned(G, data)
  BY <1>1, <1>2, <1>4, OfferSigned
<1>6. /\ F \in UtxoOffers /\ DOMAIN F = DOMAIN i.fallible
      /\ TheirsKept(i.fallible) => TheirsKept(F)
      /\ OursTrue(i.fallible, data) => OursSigned(F, data)
  BY <1>1, <1>2, <1>4, OfferSigned
<1>7. new = [i EXCEPT !.guaranteed = G, !.fallible = F]
  BY DEF AddSignature
<1> HIDE DEF G, F, new
<1>8. new \in Intents /\ new.guaranteed = G /\ new.fallible = F /\ new.registration = i.registration
  BY <1>5, <1>6, <1>7, IntentFields DEF Intents
<1>9. GetSignatureData(new) = data
  BY <1>5, <1>6, <1>8 DEF GetSignatureData, data
<1>10. IntentKept(i) => IntentKept(new)
  BY <1>5, <1>6, <1>8 DEF IntentKept
<1>11. IntentTrue(i) => IntentSigned(new)
  BY <1>5, <1>6, <1>8, <1>9 DEF IntentTrue, IntentSigned, data
<1> QED BY <1>5, <1>6, <1>8, <1>10, <1>11 DEF new

LEMMA SignedTransaction ==
  ASSUME NEW tx \in Transactions
  PROVE  LET new == SignTransaction(tx)
         IN /\ new \in Transactions
            /\ GetSegments(new) = GetSegments(tx)
            /\ Booked(tx) \subseteq Booked(new)
            /\ PartKept(tx) => PartKept(new)
            /\ PartTrue(tx) => PartSigned(new)
<1> DEFINE new == SignTransaction(tx)
           g == [s \in GetSegments(tx) |-> AddSignature(tx.intents[s])]
<1>1. new = [tx EXCEPT !.intents = g]
  BY DEF SignTransaction, GetSegments
<1>2. ASSUME NEW s \in GetSegments(tx)
      PROVE  /\ g[s] \in Intents
             /\ DOMAIN g[s].guaranteed = DOMAIN tx.intents[s].guaranteed
             /\ DOMAIN g[s].fallible = DOMAIN tx.intents[s].fallible
             /\ IntentKept(tx.intents[s]) => IntentKept(g[s])
             /\ IntentTrue(tx.intents[s]) => IntentSigned(g[s])
  <2>1. tx.intents[s] \in Intents
    BY TransactionFields
  <2>2. g[s] = AddSignature(tx.intents[s])
    OBVIOUS
  <2> HIDE DEF g
  <2> QED BY <2>1, <2>2, SignedIntent
<1>3. g \in [GetSegments(tx) -> Intents]
  <2>1. \A s \in GetSegments(tx) : g[s] \in Intents
    BY <1>2
  <2> QED BY <2>1
<1> HIDE DEF g, new
<1>4. /\ new \in Transactions /\ new.intents = g
      /\ GetSegments(new) = GetSegments(tx)
      /\ SegmentsOf(new) = GetSegments(tx) /\ SegmentsOf(tx) = GetSegments(tx)
      /\ Booked(tx) \subseteq Booked(new)
  BY <1>1, <1>2, <1>3, SameSpending, TransactionFields
<1> QED BY <1>2, <1>4 DEF new, PartKept, PartTrue, PartSigned

LEMMA SignedRegistration ==
  ASSUME NEW tx \in Transactions
  PROVE  LET new == SignDustRegistrationIfPresent(tx)
         IN /\ new \in Transactions
            /\ GetSegments(new) = GetSegments(tx)
            /\ Booked(tx) \subseteq Booked(new)
            /\ PartKept(tx) => PartKept(new)
            /\ PartSigned(tx) => PartSigned(new)
<1>1. CASE ~(1 \in GetSegments(tx) /\ tx.intents[1].registration # "none")
  BY <1>1 DEF SignDustRegistrationIfPresent
<1>2. CASE 1 \in GetSegments(tx) /\ tx.intents[1].registration # "none"
  <2> DEFINE new == SignDustRegistrationIfPresent(tx)
             i == [tx.intents[1] EXCEPT !.registration = "signed"]
             g == [tx.intents EXCEPT ![1] = i]
  <2>1. new = [tx EXCEPT !.intents = g]
    BY <1>2 DEF SignDustRegistrationIfPresent
  <2>2. tx.intents \in [GetSegments(tx) -> Intents] /\ tx.intents[1] \in Intents
    BY <1>2, TransactionFields
  <2>3. /\ i \in Intents /\ i.guaranteed = tx.intents[1].guaranteed
        /\ i.fallible = tx.intents[1].fallible /\ i.registration # "none"
    BY <2>2, IntentFields DEF Intents
  <2>4. GetSignatureData(i) = GetSignatureData(tx.intents[1])
    BY <1>2, <2>3 DEF GetSignatureData
  <2> HIDE DEF i, new
  <2>5. /\ g \in [GetSegments(tx) -> Intents]
        /\ g[1] = i /\ \A s \in GetSegments(tx) : s # 1 => g[s] = tx.intents[s]
    BY <1>2, <2>2, <2>3
  <2> HIDE DEF g
  <2>6. \A s \in GetSegments(tx) : /\ DOMAIN tx.intents[s].guaranteed = DOMAIN g[s].guaranteed
                                   /\ DOMAIN tx.intents[s].fallible = DOMAIN g[s].fallible
                                   /\ (IntentKept(tx.intents[s]) => IntentKept(g[s]))
                                   /\ (IntentSigned(tx.intents[s]) => IntentSigned(g[s]))
    BY <2>3, <2>4, <2>5 DEF IntentKept, IntentSigned
  <2>7. /\ new \in Transactions /\ new.intents = g
        /\ GetSegments(new) = GetSegments(tx)
        /\ SegmentsOf(new) = GetSegments(tx) /\ SegmentsOf(tx) = GetSegments(tx)
        /\ Booked(tx) \subseteq Booked(new)
    BY <2>1, <2>5, <2>6, SameSpending, TransactionFields
  <2> QED BY <2>6, <2>7 DEF new, PartKept, PartSigned
<1> QED BY <1>1, <1>2

LEMMA SignedPart ==
  ASSUME NEW p \in RecipeParts
  PROVE  LET new == SignUnproven(p)
         IN /\ new \in RecipeParts
            /\ new = NoTransaction <=> p = NoTransaction
            /\ SegmentsOf(new) = SegmentsOf(p)
            /\ Booked(p) \subseteq Booked(new)
            /\ PartKept(p) => PartKept(new)
            /\ PartTrue(p) => PartSigned(new)
<1>1. CASE p = NoTransaction
  BY <1>1 DEF SignUnproven, PartSigned, SegmentsOf
<1>2. CASE p # NoTransaction
  <2> DEFINE t == SignTransaction(p)
             new == SignDustRegistrationIfPresent(t)
  <2>1. p \in Transactions
    BY <1>2 DEF RecipeParts
  <2>2. /\ t \in Transactions
        /\ GetSegments(t) = GetSegments(p)
        /\ Booked(p) \subseteq Booked(t)
        /\ PartKept(p) => PartKept(t)
        /\ PartTrue(p) => PartSigned(t)
    BY <2>1, SignedTransaction
  <2> HIDE DEF t
  <2>3. /\ new \in Transactions
        /\ GetSegments(new) = GetSegments(t)
        /\ Booked(t) \subseteq Booked(new)
        /\ PartKept(t) => PartKept(new)
        /\ PartSigned(t) => PartSigned(new)
    BY <2>2, SignedRegistration
  <2> HIDE DEF new
  <2>4. SignUnproven(p) = new
    BY <1>2 DEF SignUnproven, new, t
  <2>5. SegmentsOf(new) = SegmentsOf(p) /\ new # NoTransaction
    BY <2>1, <2>2, <2>3, TransactionFields
  <2> QED BY <1>2, <2>2, <2>3, <2>4, <2>5 DEF RecipeParts
<1> QED BY <1>1, <1>2

LEMMA BoundTransaction ==
  ASSUME NEW tx \in Transactions
  PROVE  LET new == Bind(tx)
         IN /\ new \in Transactions
            /\ GetSegments(new) = GetSegments(tx)
            /\ Booked(tx) \subseteq Booked(new)
            /\ PartKept(tx) => PartKept(new)
            /\ PartSigned(tx) => PartSigned(new)
<1> DEFINE new == Bind(tx)
           g == [s \in GetSegments(tx) |-> [tx.intents[s] EXCEPT !.bound = TRUE]]
<1>1. new = [tx EXCEPT !.intents = g]
  BY DEF Bind, GetSegments
<1>2. ASSUME NEW s \in GetSegments(tx)
      PROVE  /\ g[s] \in Intents
             /\ DOMAIN tx.intents[s].guaranteed = DOMAIN g[s].guaranteed
             /\ DOMAIN tx.intents[s].fallible = DOMAIN g[s].fallible
             /\ IntentKept(tx.intents[s]) => IntentKept(g[s])
             /\ IntentSigned(tx.intents[s]) => IntentSigned(g[s])
  <2>1. tx.intents[s] \in Intents
    BY TransactionFields
  <2>2. g[s] = [tx.intents[s] EXCEPT !.bound = TRUE]
    OBVIOUS
  <2> HIDE DEF g
  <2>3. /\ g[s] \in Intents /\ g[s].guaranteed = tx.intents[s].guaranteed
        /\ g[s].fallible = tx.intents[s].fallible /\ g[s].registration = tx.intents[s].registration
    BY <2>1, <2>2, IntentFields DEF Intents
  <2>4. GetSignatureData(g[s]) = GetSignatureData(tx.intents[s])
    BY <2>3 DEF GetSignatureData
  <2> QED BY <2>3, <2>4 DEF IntentKept, IntentSigned
<1>3. g \in [GetSegments(tx) -> Intents]
  <2>1. \A s \in GetSegments(tx) : g[s] \in Intents
    BY <1>2
  <2> QED BY <2>1
<1> HIDE DEF g, new
<1>4. /\ new \in Transactions /\ new.intents = g
      /\ GetSegments(new) = GetSegments(tx)
      /\ SegmentsOf(new) = GetSegments(tx) /\ SegmentsOf(tx) = GetSegments(tx)
      /\ Booked(tx) \subseteq Booked(new)
  BY <1>1, <1>2, <1>3, SameSpending, TransactionFields
<1> QED BY <1>2, <1>4 DEF new, PartKept, PartSigned

LEMMA SignedIsTrue ==
  ASSUME NEW p, PartSigned(p)
  PROVE  PartTrue(p)
BY DEF PartSigned, PartTrue, IntentSigned, IntentTrue, OursSigned, OursTrue

(* The parts of a recipe can be merged and carry what is booked; the       *)
(* wallet's signatures, where there are any, are over the intents as they  *)
(* are, and each balancing call finds its segments free.                   *)
RecipeTypes ==
  /\ recipe = [type |-> recipe.type, base |-> recipe.base, balancing |-> recipe.balancing]
  /\ recipe.type \in {"FINALIZED_TRANSACTION", "UNBOUND_TRANSACTION", "UNPROVEN_TRANSACTION"}
  /\ recipe.base \in RecipeParts /\ recipe.balancing \in RecipeParts
  /\ (recipe.type = "UNPROVEN_TRANSACTION" \/ recipe.base = NoTransaction) =>
       recipe.balancing = NoTransaction
  /\ signed \in BOOLEAN /\ spoiled \in BOOLEAN /\ balances \in 0..MaxBalances

PartsApart ==
  /\ SegmentsOf(recipe.base) \cap SegmentsOf(recipe.balancing) = {}
  /\ SegmentsOf(recipe.base) \cup SegmentsOf(recipe.balancing) \subseteq 1..(2 * balances + 2)

PartsCarry == taken \subseteq Booked(recipe.base) \cup Booked(recipe.balancing)

PartsSigned ==
  /\ PartKept(recipe.base) /\ PartKept(recipe.balancing)
  /\ ~spoiled => PartTrue(recipe.base) /\ PartTrue(recipe.balancing)
  /\ ~spoiled /\ signed => PartSigned(recipe.base) /\ PartSigned(recipe.balancing)
  /\ ~spoiled /\ recipe.type = "FINALIZED_TRANSACTION" => PartSigned(recipe.base)

RecipeInv == RecipeTypes /\ PartsApart /\ PartsCarry /\ PartsSigned

LEMMA RecipeInitInv == RecipeInit => RecipeInv
<1> SUFFICES ASSUME RecipeInit PROVE RecipeInv
  OBVIOUS
<1>1. PICK type \in {"FINALIZED_TRANSACTION", "UNBOUND_TRANSACTION", "UNPROVEN_TRANSACTION"},
           theirs \in SUBSET OthersUtxos, segment \in {1, 2}, registration \in {"none", "unsigned"} :
        recipe = [type |-> type, balancing |-> NoTransaction,
                  base |-> AddIntent(Spending({}), segment, TheirIntent(type, theirs, registration))]
  BY DEF RecipeInit
<1> DEFINE data == <<theirs, {}, registration # "none">>
           signature == [by |-> "other party", over |-> data]
           offer == [c \in theirs |-> signature]
           i == TheirIntent(type, theirs, registration)
           base == AddIntent(Spending({}), segment, i)
<1>2. recipe = [type |-> type, balancing |-> NoTransaction, base |-> base]
  BY <1>1
<1>3. signature \in Signatures /\ signature.by = "other party"
  <2>1. data \in (SUBSET Outputs) \X (SUBSET Outputs) \X BOOLEAN
    BY DEF Outputs
  <2> HIDE DEF data
  <2> QED BY <2>1 DEF Signatures
<1>4. /\ i.guaranteed = offer /\ i.fallible = EmptyOffer
      /\ i.registration = registration
      /\ i.bound \in BOOLEAN
      /\ i = [guaranteed |-> i.guaranteed, fallible |-> i.fallible,
              registration |-> i.registration, bound |-> i.bound]
  BY DEF TheirIntent
<1> HIDE DEF signature
<1>5. offer \in UtxoOffers
  <2>1. offer \in [theirs -> Signatures \cup {Unsigned}]
    BY <1>3
  <2>2. theirs \subseteq Outputs
    BY DEF Outputs
  <2> HIDE DEF offer
  <2> QED BY <2>1, <2>2, PartialFunction DEF UtxoOffers
<1>6. DOMAIN offer = theirs /\ \A c \in theirs : offer[c] = signature
  OBVIOUS
<1> HIDE DEF offer, i
<1>7. i \in Intents /\ DOMAIN i.fallible = {}
  <2>1. EmptyOffer = NewIntent.fallible
    BY DEF NewIntent
  <2> QED BY <1>4, <1>5, <2>1, NewIntentIsIntent, IntentFields DEF Intents
<1>8. IntentKept(i) /\ IntentSigned(i)
  <2>1. theirs \cap Utxos = {}
    BY RecipeValues
  <2> QED BY <1>3, <1>4, <1>6, <1>7, <2>1
          DEF IntentKept, IntentSigned, TheirsKept, OursSigned
<1>9. segment \in Segments
  BY RecipeBounds DEF Segments
<1>10. base \in Transactions /\ GetSegments(base) = {segment} /\ base.intents[segment] = i
  BY <1>7, <1>9, IntentPart
<1> HIDE DEF base
<1>11. SegmentsOf(base) = {segment} /\ SegmentsOf(NoTransaction) = {}
  BY <1>10, TransactionFields DEF SegmentsOf
<1>12. /\ recipe.type = type /\ recipe.balancing = NoTransaction /\ recipe.base = base
       /\ recipe = [type |-> recipe.type, base |-> recipe.base, balancing |-> recipe.balancing]
  BY <1>2
<1>13. taken = {} /\ signed = FALSE /\ spoiled = FALSE /\ balances = 0
  BY DEF RecipeInit
<1>14. RecipeTypes
  <2>1. signed \in BOOLEAN /\ spoiled \in BOOLEAN
    BY <1>13
  <2>3. balances \in 0..MaxBalances
    BY <1>13, RecipeBounds
  <2>2. recipe.base \in RecipeParts /\ recipe.balancing \in RecipeParts
    BY <1>10, <1>12 DEF RecipeParts
  <2> QED BY <1>12, <2>1, <2>2, <2>3, Zenon DEF RecipeTypes
<1>15. PartsApart
  BY <1>11, <1>12, <1>13 DEF PartsApart
<1>16. PartKept(base) /\ PartSigned(base) /\ PartKept(NoTransaction) /\ PartSigned(NoTransaction)
  BY <1>8, <1>10, <1>11 DEF PartKept, PartSigned
<1>17. PartsSigned
  BY <1>12, <1>13, <1>16, SignedIsTrue DEF PartsSigned
<1> QED BY <1>13, <1>14, <1>15, <1>17 DEF RecipeInv, PartsCarry

(* A balancing call that leaves its parts in segments of their own, with   *)
(* what it booked                                                          *)
LEMMA BalancedInv ==
  ASSUME RecipeInv, NEW base \in Transactions, NEW balancing \in RecipeParts, NEW booked,
         NEW spoils \in BOOLEAN,
         balances < MaxBalances, recipe.base # NoTransaction, recipe.balancing = NoTransaction,
         SegmentsOf(base) \cap SegmentsOf(balancing) = {},
         SegmentsOf(base) \cup SegmentsOf(balancing) \subseteq 1..(2 * balances + 4),
         Booked(recipe.base) \cup booked \subseteq Booked(base) \cup Booked(balancing),
         PartKept(base), PartKept(balancing),
         ~spoiled /\ ~spoils => PartTrue(base) /\ PartTrue(balancing),
         recipe.type = "FINALIZED_TRANSACTION" => base = recipe.base,
         recipe.type = "UNPROVEN_TRANSACTION" => balancing = NoTransaction,
         Balanced(base, balancing, booked, spoils)
  PROVE  RecipeInv'
<1>1. /\ recipe' = [recipe EXCEPT !.base = base, !.balancing = balancing]
      /\ taken' = taken \cup booked
      /\ signed' = FALSE /\ spoiled' = (spoiled \/ spoils)
      /\ balances' = balances + 1
  BY DEF Balanced
<1>2. recipe = [type |-> recipe.type, base |-> recipe.base, balancing |-> recipe.balancing]
  BY DEF RecipeInv, RecipeTypes
<1>3. /\ recipe'.type = recipe.type /\ recipe'.base = base /\ recipe'.balancing = balancing
      /\ recipe' = [type |-> recipe'.type, base |-> recipe'.base, balancing |-> recipe'.balancing]
  BY <1>1, <1>2
<1>4. base \in RecipeParts /\ base # NoTransaction
  BY TransactionFields DEF RecipeParts
<1>5. Booked(NoTransaction) = {}
  BY DEF Booked
<1>6. RecipeTypes'
  <2>1. recipe'.type \in {"FINALIZED_TRANSACTION", "UNBOUND_TRANSACTION", "UNPROVEN_TRANSACTION"}
    BY <1>3 DEF RecipeInv, RecipeTypes
  <2>2. (recipe'.type = "UNPROVEN_TRANSACTION" \/ recipe'.base = NoTransaction) =>
          recipe'.balancing = NoTransaction
    BY <1>3, <1>4
  <2>3. signed' \in BOOLEAN
    BY <1>1
  <2>4. spoiled' \in BOOLEAN
    BY <1>1 DEF RecipeInv, RecipeTypes
  <2>5. balances' \in 0..MaxBalances
    BY <1>1, RecipeBounds DEF RecipeInv, RecipeTypes
  <2>6. recipe'.base \in RecipeParts /\ recipe'.balancing \in RecipeParts
    BY <1>3, <1>4
  <2> QED BY <1>3, <2>1, <2>2, <2>3, <2>4, <2>5, <2>6, Zenon DEF RecipeTypes
<1>7. PartsApart'
  <2>1. 2 * balances' + 2 = 2 * balances + 4
    BY <1>1, RecipeBounds DEF RecipeInv, RecipeTypes
  <2> QED BY <1>3, <2>1 DEF PartsApart
<1>8. PartsCarry'
  <2>1. taken \subseteq Booked(recipe.base)
    BY <1>5 DEF RecipeInv, PartsCarry
  <2> QED BY <1>1, <1>3, <2>1 DEF PartsCarry
<1>9. PartsSigned'
  <2>1. ~spoiled' => ~spoiled /\ ~spoils
    BY <1>1
  <2>2. ~spoiled /\ recipe.type = "FINALIZED_TRANSACTION" => PartSigned(base)
    BY DEF RecipeInv, PartsSigned
  <2>3. ~signed'
    BY <1>1
  <2> QED BY <1>3, <2>1, <2>2, <2>3 DEF PartsSigned
<1> QED BY <1>6, <1>7, <1>8, <1>9 DEF RecipeInv

(* Where every balancing call starts                                       *)
LEMMA BeforeBalancing ==
  ASSUME RecipeInv, NEW type, MayBalance(type)
  PROVE  /\ recipe.type = type
         /\ recipe.base \in Transactions /\ recipe.base # NoTransaction
         /\ recipe.balancing = NoTransaction
         /\ balances \in Nat /\ balances < MaxBalances
         /\ 2 * balances + 3 \in Nat /\ 2 * balances + 3 < MaxSegment
         /\ 2 * balances + 2 \in Nat /\ 2 * balances + 2 < MaxSegment
         /\ GetSegments(recipe.base) \subseteq 1..(2 * balances + 2)
         /\ PartKept(recipe.base)
         /\ ~spoiled => PartTrue(recipe.base)
<1>1. /\ recipe.type = type /\ recipe.base # NoTransaction
      /\ recipe.balancing = NoTransaction /\ balances < MaxBalances
  BY DEF MayBalance
<1>2. recipe.base \in Transactions
  BY <1>1 DEF RecipeInv, RecipeTypes, RecipeParts
<1>3. balances \in Nat /\ MaxBalances \in Nat /\ MaxSegment \in Nat /\ MaxSegment >= 2 * MaxBalances + 2
  BY RecipeBounds DEF RecipeInv, RecipeTypes
<1>4. SegmentsOf(recipe.base) = GetSegments(recipe.base)
  BY <1>2, TransactionFields
<1>5. GetSegments(recipe.base) \subseteq 1..(2 * balances + 2)
  BY <1>4 DEF RecipeInv, PartsApart
<1>6. PartKept(recipe.base) /\ (~spoiled => PartTrue(recipe.base))
  BY DEF RecipeInv, PartsSigned
<1> QED BY <1>1, <1>2, <1>3, <1>5, <1>6

LEMMA BalanceFinalizedInv ==
  ASSUME RecipeInv, NEW kinds, BalanceFinalized(kinds)
  PROVE  RecipeInv'
<1> DEFINE base == recipe.base
           B == 2 * balances + 2
<1>1. MayBalance("FINALIZED_TRANSACTION")
  BY DEF BalanceFinalized
<1>2. /\ recipe.type = "FINALIZED_TRANSACTION"
      /\ base \in Transactions /\ base # NoTransaction
      /\ recipe.balancing = NoTransaction
      /\ balances \in Nat /\ balances < MaxBalances
      /\ B + 1 \in Nat /\ B + 1 < MaxSegment
      /\ B \in Nat /\ B < MaxSegment
      /\ GetSegments(base) \subseteq 1..B
      /\ PartKept(base)
      /\ ~spoiled => PartTrue(base)
  BY <1>1, BeforeBalancing
<1>3. PICK unshielded \in UnshieldedParts(kinds, base), shielded \in ShieldedParts(kinds) :
        LET merged == MergeUnprovenTransactions(shielded, unshielded)
        IN \E feePart \in FeeParts(kinds, MergeUnprovenTransactions(base, merged)) :
             LET balancing == MergeUnprovenTransactions(merged, feePart)
             IN Balanced(base, balancing, Booked(balancing), FALSE)
  BY DEF BalanceFinalized
<1> DEFINE merged == MergeUnprovenTransactions(shielded, unshielded)
           whole == MergeUnprovenTransactions(base, merged)
<1>4. PICK feePart \in FeeParts(kinds, whole) :
        LET balancing == MergeUnprovenTransactions(merged, feePart)
        IN Balanced(base, balancing, Booked(balancing), FALSE)
  BY <1>3
<1> DEFINE balancing == MergeUnprovenTransactions(merged, feePart)
<1>5. Balanced(base, balancing, Booked(balancing), FALSE)
  BY <1>4
<1> HIDE DEF base
<1>6. /\ unshielded \in RecipeParts
      /\ SegmentsOf(unshielded) \subseteq (1..(B + 1)) \ GetSegments(base)
      /\ PartKept(unshielded) /\ PartTrue(unshielded)
  <2> HIDE DEF B
  <2> QED BY <1>2, UnshieldedPart
<1>7. /\ shielded \in RecipeParts /\ SegmentsOf(shielded) = {}
      /\ PartKept(shielded) /\ PartTrue(shielded)
  BY ShieldedPart
<1>8. /\ merged \in RecipeParts
      /\ SegmentsOf(merged) = SegmentsOf(unshielded)
      /\ PartKept(merged) /\ PartTrue(merged)
  <2>1. SegmentsOf(shielded) \cap SegmentsOf(unshielded) = {}
    BY <1>7
  <2>2. /\ merged \in RecipeParts
        /\ SegmentsOf(merged) = SegmentsOf(shielded) \cup SegmentsOf(unshielded)
        /\ PartKept(merged) /\ PartTrue(merged)
    BY <1>6, <1>7, <2>1, MergeParts
  <2> QED BY <1>7, <2>2
<1> HIDE DEF merged
<1>9. SegmentsOf(base) = GetSegments(base) /\ base \in RecipeParts
  BY <1>2, TransactionFields DEF RecipeParts
<1>10. /\ whole \in RecipeParts /\ whole # NoTransaction
       /\ SegmentsOf(whole) = GetSegments(base) \cup SegmentsOf(merged)
  BY <1>2, <1>6, <1>8, <1>9, MergeParts
<1> HIDE DEF whole
<1>11. GetSegments(whole) = GetSegments(base) \cup SegmentsOf(merged)
  BY <1>10, TransactionFields DEF RecipeParts
<1>12. GetSegments(whole) \subseteq 1..(B + 1)
  BY <1>2, <1>6, <1>8, <1>11
<1>13. /\ feePart \in RecipeParts
       /\ SegmentsOf(feePart) \subseteq (1..(B + 1 + 1)) \ GetSegments(whole)
       /\ PartKept(feePart) /\ PartTrue(feePart)
  <2> HIDE DEF B
  <2> QED BY <1>2, <1>12, FeePart
<1>14. /\ balancing \in RecipeParts
       /\ SegmentsOf(balancing) = SegmentsOf(merged) \cup SegmentsOf(feePart)
       /\ PartKept(balancing) /\ PartTrue(balancing)
  BY <1>8, <1>11, <1>13, MergeParts
<1> HIDE DEF balancing
<1>15. SegmentsOf(base) \cap SegmentsOf(balancing) = {}
  BY <1>6, <1>8, <1>9, <1>11, <1>13, <1>14
<1>16. SegmentsOf(base) \cup SegmentsOf(balancing) \subseteq 1..(2 * balances + 4)
  BY <1>2, <1>6, <1>8, <1>9, <1>13, <1>14
<1> QED BY <1>2, <1>5, <1>14, <1>15, <1>16, BalancedInv DEF base

LEMMA BalanceUnboundInv ==
  ASSUME RecipeInv, NEW kinds, BalanceUnbound(kinds)
  PROVE  RecipeInv'
<1> DEFINE old == recipe.base
           B == 2 * balances + 2
<1>1. MayBalance("UNBOUND_TRANSACTION")
  BY DEF BalanceUnbound
<1>2. /\ recipe.type = "UNBOUND_TRANSACTION"
      /\ old \in Transactions /\ old # NoTransaction
      /\ recipe.balancing = NoTransaction
      /\ balances \in Nat /\ balances < MaxBalances
      /\ B \in Nat /\ B < MaxSegment
      /\ GetSegments(old) \subseteq 1..B
      /\ PartKept(old)
      /\ ~spoiled => PartTrue(old)
  BY <1>1, BeforeBalancing
<1>3. PICK shielded \in ShieldedParts(kinds), base \in BalancedInPlace(kinds, old) :
        \E feePart \in FeeParts(kinds, MergeUnprovenTransactions(base, shielded)) :
          LET balancing == MergeUnprovenTransactions(shielded, feePart)
          IN Balanced(base, balancing, Booked(balancing), SpoiledBy(old, base))
  BY DEF BalanceUnbound
<1> DEFINE whole == MergeUnprovenTransactions(base, shielded)
<1>4. PICK feePart \in FeeParts(kinds, whole) :
        LET balancing == MergeUnprovenTransactions(shielded, feePart)
        IN Balanced(base, balancing, Booked(balancing), SpoiledBy(old, base))
  BY <1>3
<1> DEFINE balancing == MergeUnprovenTransactions(shielded, feePart)
<1>5. Balanced(base, balancing, Booked(balancing), SpoiledBy(old, base))
  BY <1>4
<1> HIDE DEF old
<1>6. /\ base \in Transactions
      /\ GetSegments(base) = GetSegments(old)
      /\ Booked(old) \subseteq Booked(base)
      /\ PartKept(base)
      /\ ~spoiled /\ ~SpoiledBy(old, base) => PartTrue(base)
  BY <1>2, InPlace
<1>7. /\ shielded \in RecipeParts /\ SegmentsOf(shielded) = {}
      /\ PartKept(shielded) /\ PartTrue(shielded)
  BY ShieldedPart
<1>8. SegmentsOf(base) = GetSegments(base) /\ base \in RecipeParts /\ base # NoTransaction
  BY <1>6, TransactionFields DEF RecipeParts
<1>9. GetSegments(whole) = GetSegments(base)
  <2>1. SegmentsOf(base) \cap SegmentsOf(shielded) = {}
    BY <1>7
  <2>2. /\ whole \in RecipeParts /\ whole # NoTransaction
        /\ SegmentsOf(whole) = SegmentsOf(base) \cup SegmentsOf(shielded)
    BY <1>7, <1>8, <2>1, MergeParts
  <2> HIDE DEF whole
  <2> QED BY <1>7, <1>8, <2>2 DEF SegmentsOf
<1> HIDE DEF whole
<1>10. /\ feePart \in RecipeParts
       /\ SegmentsOf(feePart) \subseteq (1..(B + 1)) \ GetSegments(whole)
       /\ PartKept(feePart) /\ PartTrue(feePart)
  <2> HIDE DEF B
  <2> QED BY <1>2, <1>6, <1>9, FeePart
<1>11. /\ balancing \in RecipeParts
       /\ SegmentsOf(balancing) = SegmentsOf(shielded) \cup SegmentsOf(feePart)
       /\ PartKept(balancing) /\ PartTrue(balancing)
  <2>1. SegmentsOf(shielded) \cap SegmentsOf(feePart) = {}
    BY <1>7
  <2> QED BY <1>7, <1>10, <2>1, MergeParts
<1> HIDE DEF balancing
<1>12. SegmentsOf(base) \cap SegmentsOf(balancing) = {}
  BY <1>7, <1>8, <1>9, <1>10, <1>11
<1>13. SegmentsOf(base) \cup SegmentsOf(balancing) \subseteq 1..(2 * balances + 4)
  BY <1>2, <1>6, <1>7, <1>8, <1>10, <1>11
<1>14. SpoiledBy(old, base) \in BOOLEAN
  BY DEF SpoiledBy
<1>15. Booked(old) \cup Booked(balancing) \subseteq Booked(base) \cup Booked(balancing)
  BY <1>6
<1> QED BY <1>2, <1>5, <1>6, <1>11, <1>12, <1>13, <1>14, <1>15, BalancedInv DEF old

LEMMA BalanceUnprovenInv ==
  ASSUME RecipeInv, NEW kinds, BalanceUnproven(kinds)
  PROVE  RecipeInv'
<1> DEFINE old == recipe.base
           B == 2 * balances + 2
<1>1. MayBalance("UNPROVEN_TRANSACTION")
  BY DEF BalanceUnproven
<1>2. /\ recipe.type = "UNPROVEN_TRANSACTION"
      /\ old \in Transactions /\ old # NoTransaction
      /\ recipe.balancing = NoTransaction
      /\ balances \in Nat /\ balances < MaxBalances
      /\ B \in Nat /\ B < MaxSegment
      /\ GetSegments(old) \subseteq 1..B
      /\ PartKept(old)
      /\ ~spoiled => PartTrue(old)
  BY <1>1, BeforeBalancing
<1>3. PICK shielded \in ShieldedParts(kinds), base \in BalancedInPlace(kinds, old) :
        LET merged == MergeUnprovenTransactions(base, shielded)
        IN \E feePart \in FeeParts(kinds, merged) :
             Balanced(MergeUnprovenTransactions(merged, feePart), NoTransaction,
                      Booked(shielded) \cup Booked(feePart), SpoiledBy(old, base))
  BY DEF BalanceUnproven
<1> DEFINE merged == MergeUnprovenTransactions(base, shielded)
<1>4. PICK feePart \in FeeParts(kinds, merged) :
        Balanced(MergeUnprovenTransactions(merged, feePart), NoTransaction,
                 Booked(shielded) \cup Booked(feePart), SpoiledBy(old, base))
  BY <1>3
<1> DEFINE whole == MergeUnprovenTransactions(merged, feePart)
<1>5. Balanced(whole, NoTransaction, Booked(shielded) \cup Booked(feePart), SpoiledBy(old, base))
  BY <1>4
<1> HIDE DEF old
<1>6. /\ base \in Transactions
      /\ GetSegments(base) = GetSegments(old)
      /\ Booked(old) \subseteq Booked(base)
      /\ PartKept(base)
      /\ ~spoiled /\ ~SpoiledBy(old, base) => PartTrue(base)
  BY <1>2, InPlace
<1>7. /\ shielded \in RecipeParts /\ SegmentsOf(shielded) = {}
      /\ PartKept(shielded) /\ PartTrue(shielded)
  BY ShieldedPart
<1>8. SegmentsOf(base) = GetSegments(base) /\ base \in RecipeParts /\ base # NoTransaction
  BY <1>6, TransactionFields DEF RecipeParts
<1>9. /\ merged \in RecipeParts /\ merged # NoTransaction
      /\ SegmentsOf(merged) = GetSegments(base) /\ GetSegments(merged) = GetSegments(base)
      /\ Booked(merged) = Booked(base) \cup Booked(shielded)
      /\ PartKept(merged)
      /\ PartTrue(base) => PartTrue(merged)
  <2>1. SegmentsOf(base) \cap SegmentsOf(shielded) = {}
    BY <1>7
  <2>2. /\ merged \in RecipeParts /\ merged # NoTransaction
        /\ SegmentsOf(merged) = SegmentsOf(base) \cup SegmentsOf(shielded)
        /\ Booked(merged) = Booked(base) \cup Booked(shielded)
        /\ PartKept(merged)
        /\ PartTrue(base) => PartTrue(merged)
    BY <1>6, <1>7, <1>8, <2>1, MergeParts
  <2> HIDE DEF merged
  <2>3. SegmentsOf(merged) = GetSegments(base)
    BY <1>7, <1>8, <2>2
  <2> QED BY <2>2, <2>3 DEF SegmentsOf
<1> HIDE DEF merged
<1>10. /\ feePart \in RecipeParts
       /\ SegmentsOf(feePart) \subseteq (1..(B + 1)) \ GetSegments(merged)
       /\ PartKept(feePart) /\ PartTrue(feePart)
  <2> HIDE DEF B
  <2> QED BY <1>2, <1>6, <1>9, FeePart
<1>11. /\ whole \in RecipeParts /\ whole # NoTransaction
       /\ SegmentsOf(whole) = SegmentsOf(merged) \cup SegmentsOf(feePart)
       /\ Booked(whole) = Booked(merged) \cup Booked(feePart)
       /\ PartKept(whole)
       /\ PartTrue(merged) => PartTrue(whole)
  <2>1. SegmentsOf(merged) \cap SegmentsOf(feePart) = {}
    BY <1>9, <1>10
  <2> QED BY <1>9, <1>10, <2>1, MergeParts
<1> HIDE DEF whole
<1>12. whole \in Transactions
  BY <1>11 DEF RecipeParts
<1>13. /\ NoTransaction \in RecipeParts /\ SegmentsOf(NoTransaction) = {}
       /\ PartKept(NoTransaction) /\ PartTrue(NoTransaction)
  BY DEF RecipeParts, SegmentsOf, PartKept, PartTrue
<1>14. SegmentsOf(whole) \cap SegmentsOf(NoTransaction) = {}
  BY <1>13
<1>15. SegmentsOf(whole) \cup SegmentsOf(NoTransaction) \subseteq 1..(2 * balances + 4)
  BY <1>2, <1>6, <1>9, <1>10, <1>11, <1>13
<1>16. SpoiledBy(old, base) \in BOOLEAN
  BY DEF SpoiledBy
<1>17. Booked(old) \cup (Booked(shielded) \cup Booked(feePart)) \subseteq Booked(whole) \cup Booked(NoTransaction)
  BY <1>6, <1>9, <1>11
<1>18. ~spoiled /\ ~SpoiledBy(old, base) => PartTrue(whole) /\ PartTrue(NoTransaction)
  BY <1>6, <1>9, <1>11, <1>13
<1> QED BY <1>2, <1>5, <1>11, <1>12, <1>13, <1>14, <1>15, <1>16, <1>17, <1>18, BalancedInv DEF old

(* The steps that change the parts and no segment                          *)
LEMMA PartsChangedInv ==
  ASSUME RecipeInv, NEW base \in RecipeParts, NEW balancing \in RecipeParts,
         recipe' = [recipe EXCEPT !.base = base, !.balancing = balancing],
         base = NoTransaction => balancing = NoTransaction,
         recipe.balancing = NoTransaction => balancing = NoTransaction,
         SegmentsOf(base) \subseteq SegmentsOf(recipe.base),
         SegmentsOf(balancing) \subseteq SegmentsOf(recipe.balancing),
         taken' \subseteq Booked(base) \cup Booked(balancing),
         PartKept(base), PartKept(balancing),
         ~spoiled => PartTrue(base) /\ PartTrue(balancing),
         ~spoiled /\ signed' => PartSigned(base) /\ PartSigned(balancing),
         ~spoiled /\ recipe.type = "FINALIZED_TRANSACTION" => PartSigned(base),
         signed' \in BOOLEAN, spoiled' = spoiled, balances' = balances
  PROVE  RecipeInv'
<1>1. recipe = [type |-> recipe.type, base |-> recipe.base, balancing |-> recipe.balancing]
  BY DEF RecipeInv, RecipeTypes
<1>2. /\ recipe'.type = recipe.type /\ recipe'.base = base /\ recipe'.balancing = balancing
      /\ recipe' = [type |-> recipe'.type, base |-> recipe'.base, balancing |-> recipe'.balancing]
  BY <1>1
<1>3. RecipeTypes'
  <2>1. recipe'.type \in {"FINALIZED_TRANSACTION", "UNBOUND_TRANSACTION", "UNPROVEN_TRANSACTION"}
    BY <1>2 DEF RecipeInv, RecipeTypes
  <2>2. (recipe'.type = "UNPROVEN_TRANSACTION" \/ recipe'.base = NoTransaction) =>
          recipe'.balancing = NoTransaction
    BY <1>2 DEF RecipeInv, RecipeTypes
  <2>3. spoiled' \in BOOLEAN
    BY DEF RecipeInv, RecipeTypes
  <2>4. balances' \in 0..MaxBalances
    BY DEF RecipeInv, RecipeTypes
  <2>5. recipe'.base \in RecipeParts /\ recipe'.balancing \in RecipeParts
    BY <1>2
  <2> QED BY <1>2, <2>1, <2>2, <2>3, <2>4, <2>5, Zenon DEF RecipeTypes
<1>4. PartsApart'
  BY <1>2 DEF RecipeInv, PartsApart
<1>5. PartsCarry'
  BY <1>2 DEF PartsCarry
<1>6. PartsSigned'
  BY <1>2 DEF PartsSigned
<1> QED BY <1>3, <1>4, <1>5, <1>6 DEF RecipeInv

LEMMA NoPart ==
  /\ NoTransaction \in RecipeParts /\ SegmentsOf(NoTransaction) = {} /\ Booked(NoTransaction) = {}
  /\ PartKept(NoTransaction) /\ PartTrue(NoTransaction) /\ PartSigned(NoTransaction)
BY DEF RecipeParts, SegmentsOf, Booked, PartKept, PartTrue, PartSigned

LEMMA SignRecipeInv ==
  ASSUME RecipeInv, SignRecipe
  PROVE  RecipeInv'
<1>1. /\ recipe.base # NoTransaction
      /\ signed' = TRUE /\ taken' = taken /\ spoiled' = spoiled /\ balances' = balances
  BY DEF SignRecipe
<1>2. signed' \in BOOLEAN
  BY <1>1
<1>3. /\ recipe.base \in RecipeParts /\ recipe.base \in Transactions /\ recipe.balancing \in RecipeParts
      /\ recipe = [type |-> recipe.type, base |-> recipe.base, balancing |-> recipe.balancing]
  BY <1>1 DEF RecipeInv, RecipeTypes, RecipeParts
<1>4. /\ PartKept(recipe.base) /\ PartKept(recipe.balancing)
      /\ ~spoiled => PartTrue(recipe.base) /\ PartTrue(recipe.balancing)
      /\ ~spoiled /\ recipe.type = "FINALIZED_TRANSACTION" => PartSigned(recipe.base)
      /\ taken \subseteq Booked(recipe.base) \cup Booked(recipe.balancing)
  BY DEF RecipeInv, PartsSigned, PartsCarry
<1>5. LET new == SignUnproven(recipe.balancing)
      IN /\ new \in RecipeParts
         /\ new = NoTransaction <=> recipe.balancing = NoTransaction
         /\ SegmentsOf(new) = SegmentsOf(recipe.balancing)
         /\ Booked(recipe.balancing) \subseteq Booked(new)
         /\ PartKept(new)
         /\ ~spoiled => PartSigned(new)
  BY <1>3, <1>4, SignedPart
<1>6. CASE /\ recipe.type = "FINALIZED_TRANSACTION"
           /\ recipe' = [recipe EXCEPT !.balancing = SignUnproven(@)]
  <2> DEFINE new == SignUnproven(recipe.balancing)
  <2>1. recipe' = [recipe EXCEPT !.base = recipe.base, !.balancing = new]
    BY <1>3, <1>6
  <2>2. /\ new \in RecipeParts
        /\ new = NoTransaction <=> recipe.balancing = NoTransaction
        /\ SegmentsOf(new) = SegmentsOf(recipe.balancing)
        /\ Booked(recipe.balancing) \subseteq Booked(new)
        /\ PartKept(new)
        /\ ~spoiled => PartSigned(new)
    BY <1>5
  <2> HIDE DEF new
  <2>3. ~spoiled => PartSigned(recipe.base) /\ PartTrue(new)
    BY <1>4, <1>6, <2>2, SignedIsTrue
  <2>4. taken' \subseteq Booked(recipe.base) \cup Booked(new)
    BY <1>1, <1>4, <2>2
  <2> QED BY <1>1, <1>2, <1>3, <1>4, <1>6, <2>1, <2>2, <2>3, <2>4, PartsChangedInv
<1>7. CASE /\ recipe.type = "UNBOUND_TRANSACTION"
           /\ recipe' = [recipe EXCEPT !.balancing = SignUnproven(@), !.base = SignTransaction(@)]
  <2> DEFINE new == SignUnproven(recipe.balancing)
             base == SignTransaction(recipe.base)
  <2>1. recipe' = [recipe EXCEPT !.base = base, !.balancing = new]
    BY <1>3, <1>7
  <2>2. /\ new \in RecipeParts
        /\ new = NoTransaction <=> recipe.balancing = NoTransaction
        /\ SegmentsOf(new) = SegmentsOf(recipe.balancing)
        /\ Booked(recipe.balancing) \subseteq Booked(new)
        /\ PartKept(new)
        /\ ~spoiled => PartSigned(new)
    BY <1>5
  <2>3. /\ base \in Transactions
        /\ GetSegments(base) = GetSegments(recipe.base)
        /\ Booked(recipe.base) \subseteq Booked(base)
        /\ PartKept(base)
        /\ ~spoiled => PartSigned(base)
    BY <1>3, <1>4, SignedTransaction
  <2> HIDE DEF new, base
  <2>4. base \in RecipeParts /\ base # NoTransaction /\ SegmentsOf(base) = SegmentsOf(recipe.base)
    BY <1>3, <2>3, TransactionFields DEF RecipeParts
  <2>5. ~spoiled => PartTrue(base) /\ PartTrue(new)
    BY <2>2, <2>3, SignedIsTrue
  <2>6. taken' \subseteq Booked(base) \cup Booked(new)
    BY <1>1, <1>4, <2>2, <2>3
  <2> QED BY <1>1, <1>2, <2>1, <2>2, <2>3, <2>4, <2>5, <2>6, PartsChangedInv
<1>8. CASE /\ recipe.type = "UNPROVEN_TRANSACTION"
           /\ recipe' = [recipe EXCEPT !.base = SignUnproven(@)]
  <2> DEFINE base == SignUnproven(recipe.base)
  <2>1. recipe' = [recipe EXCEPT !.base = base, !.balancing = NoTransaction]
        /\ recipe.balancing = NoTransaction
    BY <1>3, <1>8 DEF RecipeInv, RecipeTypes
  <2>2. /\ base \in RecipeParts /\ base # NoTransaction
        /\ SegmentsOf(base) = SegmentsOf(recipe.base)
        /\ Booked(recipe.base) \subseteq Booked(base)
        /\ PartKept(base)
        /\ ~spoiled => PartSigned(base)
    BY <1>1, <1>3, <1>4, SignedPart
  <2> HIDE DEF base
  <2>3. ~spoiled => PartTrue(base)
    BY <2>2, SignedIsTrue
  <2>4. taken' \subseteq Booked(base) \cup Booked(NoTransaction)
    BY <1>1, <1>4, <2>1, <2>2
  <2> QED BY <1>1, <1>2, <2>1, <2>2, <2>3, <2>4, NoPart, PartsChangedInv
<1> QED BY <1>6, <1>7, <1>8 DEF SignRecipe

LEMMA ProvingFailsInv ==
  ASSUME RecipeInv, ProvingFails
  PROVE  RecipeInv'
<1>1. /\ recipe.base # NoTransaction
      /\ signed' = FALSE /\ spoiled' = spoiled /\ balances' = balances
  BY DEF ProvingFails
<1>2. signed' \in BOOLEAN /\ ~signed'
  BY <1>1
<1>3. /\ recipe.base \in RecipeParts /\ recipe.balancing \in RecipeParts
      /\ recipe = [type |-> recipe.type, base |-> recipe.base, balancing |-> recipe.balancing]
  BY DEF RecipeInv, RecipeTypes
<1>4. /\ PartKept(recipe.base)
      /\ ~spoiled => PartTrue(recipe.base)
      /\ ~spoiled /\ recipe.type = "FINALIZED_TRANSACTION" => PartSigned(recipe.base)
      /\ taken \subseteq Booked(recipe.base) \cup Booked(recipe.balancing)
  BY DEF RecipeInv, PartsSigned, PartsCarry
<1>5. CASE recipe.type = "UNPROVEN_TRANSACTION"
  <2>1. /\ recipe' = [recipe EXCEPT !.base = NoTransaction]
        /\ taken' = RevertedFrom({recipe.base})
        /\ recipe.balancing = NoTransaction
    BY <1>5 DEF ProvingFails, RecipeInv, RecipeTypes
  <2>2. recipe' = [recipe EXCEPT !.base = NoTransaction, !.balancing = NoTransaction]
    BY <1>3, <2>1
  <2>3. taken' \subseteq Booked(NoTransaction) \cup Booked(NoTransaction)
    BY <1>1, <1>4, <2>1, NoPart DEF RevertedFrom, Booked
  <2> QED BY <1>1, <1>2, <2>2, <2>3, NoPart, PartsChangedInv
<1>6. CASE recipe.type # "UNPROVEN_TRANSACTION"
  <2>1. /\ recipe' = [recipe EXCEPT !.balancing = NoTransaction]
        /\ recipe.balancing # NoTransaction
        /\ taken' = RevertedFrom({recipe.balancing})
    BY <1>6 DEF ProvingFails
  <2>2. recipe' = [recipe EXCEPT !.base = recipe.base, !.balancing = NoTransaction]
    BY <1>3, <2>1
  <2>3. taken' \subseteq Booked(recipe.base) \cup Booked(NoTransaction)
    BY <1>4, <2>1 DEF RevertedFrom, Booked
  <2> QED BY <1>1, <1>2, <1>3, <1>4, <2>2, <2>3, NoPart, PartsChangedInv
<1> QED BY <1>5, <1>6

LEMMA RevertRecipeInv ==
  ASSUME RecipeInv, RevertRecipe
  PROVE  RecipeInv'
<1>1. /\ recipe.base # NoTransaction
      /\ taken' = RevertedFrom(GetTransactions(recipe))
      /\ recipe' = [recipe EXCEPT !.base = NoTransaction, !.balancing = NoTransaction]
      /\ signed' = signed /\ spoiled' = spoiled /\ balances' = balances
  BY DEF RevertRecipe
<1>2. signed' \in BOOLEAN
  BY <1>1 DEF RecipeInv, RecipeTypes
<1>3. taken \subseteq Booked(recipe.base) \cup Booked(recipe.balancing)
  BY DEF RecipeInv, PartsCarry
<1>4. recipe.base \in GetTransactions(recipe)
      /\ (recipe.balancing # NoTransaction => recipe.balancing \in GetTransactions(recipe))
  BY <1>1 DEF GetTransactions
<1>5. ASSUME NEW c \in taken
      PROVE  \E tx \in GetTransactions(recipe) : c \in OwnInputs(tx) \cup tx.spends
  BY <1>3, <1>4 DEF Booked
<1>6. taken' = {}
  BY <1>1, <1>5 DEF RevertedFrom
<1>7. taken' \subseteq Booked(NoTransaction) \cup Booked(NoTransaction)
  BY <1>6
<1> QED BY <1>1, <1>2, <1>7, NoPart, PartsChangedInv

LEMMA FinalizeRecipeInv ==
  ASSUME RecipeInv, FinalizeRecipe
  PROVE  RecipeInv'
<1> DEFINE whole == MergeUnprovenTransactions(recipe.base, recipe.balancing)
           base == Bind(whole)
<1>1. /\ recipe.base # NoTransaction
      /\ recipe' = [type |-> "FINALIZED_TRANSACTION", balancing |-> NoTransaction, base |-> base]
      /\ spoiled' = (spoiled \/ ~signed)
      /\ taken' = taken /\ signed' = signed /\ balances' = balances
  BY DEF FinalizeRecipe
<1>2. /\ recipe.base \in RecipeParts /\ recipe.balancing \in RecipeParts
      /\ SegmentsOf(recipe.base) \cap SegmentsOf(recipe.balancing) = {}
      /\ SegmentsOf(recipe.base) \cup SegmentsOf(recipe.balancing) \subseteq 1..(2 * balances + 2)
      /\ taken \subseteq Booked(recipe.base) \cup Booked(recipe.balancing)
      /\ PartKept(recipe.base) /\ PartKept(recipe.balancing)
      /\ ~spoiled /\ signed => PartSigned(recipe.base) /\ PartSigned(recipe.balancing)
  BY DEF RecipeInv, RecipeTypes, PartsApart, PartsCarry, PartsSigned
<1>3. /\ whole \in RecipeParts /\ whole # NoTransaction
      /\ SegmentsOf(whole) = SegmentsOf(recipe.base) \cup SegmentsOf(recipe.balancing)
      /\ Booked(whole) = Booked(recipe.base) \cup Booked(recipe.balancing)
      /\ PartKept(whole)
      /\ ~spoiled /\ signed => PartSigned(whole)
  BY <1>1, <1>2, MergeParts
<1> HIDE DEF whole
<1>4. /\ base \in Transactions
      /\ GetSegments(base) = GetSegments(whole)
      /\ Booked(whole) \subseteq Booked(base)
      /\ PartKept(base)
      /\ ~spoiled /\ signed => PartSigned(base)
  BY <1>3, BoundTransaction DEF RecipeParts
<1> HIDE DEF base
<1>5. base \in RecipeParts /\ base # NoTransaction /\ SegmentsOf(base) = SegmentsOf(whole)
  BY <1>3, <1>4, TransactionFields DEF RecipeParts
<1>6. /\ recipe'.type = "FINALIZED_TRANSACTION" /\ recipe'.base = base
      /\ recipe'.balancing = NoTransaction
      /\ recipe' = [type |-> recipe'.type, base |-> recipe'.base, balancing |-> recipe'.balancing]
  BY <1>1
<1>7. RecipeTypes'
  <2>1. signed' \in BOOLEAN /\ balances' \in 0..MaxBalances
    BY <1>1 DEF RecipeInv, RecipeTypes
  <2>2. spoiled' \in BOOLEAN
    BY <1>1
  <2>3. recipe'.base \in RecipeParts /\ recipe'.balancing \in RecipeParts
    BY <1>5, <1>6, NoPart
  <2> QED BY <1>6, <2>1, <2>2, <2>3, Zenon DEF RecipeTypes
<1>8. PartsApart'
  BY <1>1, <1>2, <1>3, <1>5, <1>6, NoPart DEF PartsApart
<1>9. PartsCarry'
  BY <1>1, <1>2, <1>3, <1>4, <1>6 DEF PartsCarry
<1>10. PartsSigned'
  <2>1. ~spoiled' => ~spoiled /\ signed
    BY <1>1
  <2>2. ~spoiled' => PartSigned(base) /\ PartTrue(base)
    BY <1>4, <2>1, SignedIsTrue
  <2> QED BY <1>4, <1>6, <2>2, NoPart DEF PartsSigned
<1> QED BY <1>7, <1>8, <1>9, <1>10 DEF RecipeInv

LEMMA RecipeInvStep == RecipeInv /\ [RecipesNext]_recipeVars => RecipeInv'
<1> SUFFICES ASSUME RecipeInv, [RecipesNext]_recipeVars PROVE RecipeInv'
  OBVIOUS
<1>1. CASE UNCHANGED recipeVars
  BY <1>1 DEF recipeVars, RecipeInv, RecipeTypes, PartsApart, PartsCarry, PartsSigned
<1>2. CASE \E kinds \in SUBSET TokenKinds : BalanceFinalized(kinds)
  BY <1>2, BalanceFinalizedInv
<1>3. CASE \E kinds \in SUBSET TokenKinds : BalanceUnbound(kinds)
  BY <1>3, BalanceUnboundInv
<1>4. CASE \E kinds \in SUBSET TokenKinds : BalanceUnproven(kinds)
  BY <1>4, BalanceUnprovenInv
<1>5. CASE SignRecipe
  BY <1>5, SignRecipeInv
<1>6. CASE FinalizeRecipe
  BY <1>6, FinalizeRecipeInv
<1>7. CASE ProvingFails
  BY <1>7, ProvingFailsInv
<1>8. CASE RevertRecipe
  BY <1>8, RevertRecipeInv
<1> QED BY <1>1, <1>2, <1>3, <1>4, <1>5, <1>6, <1>7, <1>8 DEF RecipesNext

LEMMA RecipeInvHolds == RecipeInv => RecipesHold
<1> SUFFICES ASSUME RecipeInv PROVE RecipesHold
  OBVIOUS
<1>1. ASSUME NEW tx \in GetTransactions(recipe)
      PROVE  /\ tx \in {recipe.base, recipe.balancing}
             /\ tx \in Transactions /\ SegmentsOf(tx) = GetSegments(tx)
             /\ GetSegments(tx) \subseteq Segments
             /\ tx.intents \in [GetSegments(tx) -> Intents]
  <2>1. tx \in {recipe.base, recipe.balancing} /\ tx \in Transactions
    BY DEF RecipeInv, RecipeTypes, GetTransactions, RecipeParts
  <2> QED BY <2>1, TransactionFields
<1>2. RecipeTypeOK
  BY <1>1 DEF RecipeTypeOK, RecipeInv, RecipeTypes
<1>3. PartsCanBeMerged
  <2> SUFFICES ASSUME recipe.balancing # NoTransaction
               PROVE  GetSegments(recipe.base) \cap GetSegments(recipe.balancing) = {}
    BY DEF PartsCanBeMerged
  <2>1. recipe.base # NoTransaction
    BY DEF RecipeInv, RecipeTypes
  <2> QED BY <2>1 DEF RecipeInv, PartsApart, SegmentsOf
<1>4. BookedIsCarried
  <2>1. taken \subseteq Booked(recipe.base) \cup Booked(recipe.balancing)
    BY DEF RecipeInv, PartsCarry
  <2>2. ASSUME NEW c \in taken
        PROVE  \E tx \in GetTransactions(recipe) : c \in OwnInputs(tx) \cup tx.spends
    BY <2>1 DEF Booked, GetTransactions
  <2> QED BY <2>2 DEF BookedIsCarried
<1>5. SignaturesHold
  <2> SUFFICES ASSUME NEW tx \in GetTransactions(recipe), NEW s \in GetSegments(tx),
                      NEW o \in OfferSections, NEW c \in DOMAIN tx.intents[s][o]
               PROVE  IF c \in Utxos
                      THEN signed /\ ~spoiled => tx.intents[s][o][c] = OwnSignature(tx.intents[s])
                      ELSE tx.intents[s][o][c].by = "other party"
    BY DEF SignaturesHold
  <2> DEFINE i == tx.intents[s]
  <2>1. IntentKept(i) /\ (signed /\ ~spoiled => IntentSigned(i))
    BY <1>1 DEF RecipeInv, PartsSigned, PartKept, PartSigned
  <2> HIDE DEF i
  <2>2. i[o] = i.guaranteed \/ i[o] = i.fallible
    BY DEF OfferSections
  <2>3. c \in DOMAIN i[o]
    BY DEF i
  <2>4. c \notin Utxos => i[o][c].by = "other party"
    BY <2>1, <2>2, <2>3 DEF IntentKept, TheirsKept
  <2>5. c \in Utxos /\ signed /\ ~spoiled => i[o][c] = OwnSignature(i)
    BY <2>1, <2>2, <2>3 DEF IntentSigned, OursSigned, OwnSignature
  <2> QED BY <2>4, <2>5 DEF i
<1> QED BY <1>2, <1>3, <1>4, <1>5 DEF RecipesHold

(* However a transaction is balanced, signed, proved, merged and balanced  *)
(* again, the parts of its recipe can be merged, carry all that is booked, *)
(* and bear signatures over the intents as they are.                       *)
THEOREM RecipesStayWhole == RecipesSpec => []RecipesHold
<1>1. RecipesSpec => []RecipeInv
  BY RecipeInitInv, RecipeInvStep, PTL DEF RecipesSpec
<1> QED BY <1>1, RecipeInvHolds, PTL

-----------------------------------------------------------------------------
(* Addresses                                                               *)

(* What a payload is decoded into is the payload, or an error.             *)
LEMMA FromBytesIsData ==
  ASSUME NEW kind \in Kinds, NEW data
  PROVE  FromBytes(kind, data) \in {data, Refused}
BY DEF FromBytes, DustAddressOf, ShieldedAddressOf, KeyOf

(* Codec and reference agree about the bytes, but for the length of a      *)
(* shielded address and for encryption public keys.                        *)
LEMMA BytesAsInReference ==
  ASSUME NEW kind \in Kinds, NEW data \in Payloads
  PROVE  \/ FromBytes(kind, data) = RefFromBytes(kind, data)
         \/ kind = "shield-epk"
         \/ kind = "shield-addr" /\ Len(data) # 2 * KeyLength
<1>1. CASE kind \in Scalars
  BY <1>1 DEF FromBytes, RefFromBytes, DustAddressOf, Scalars, Fixed
<1>2. CASE kind \in Fixed
  BY <1>2 DEF FromBytes, RefFromBytes, KeyOf, Scalars, Fixed
<1>3. CASE kind = "shield-addr" /\ Len(data) = 2 * KeyLength
  <2>1. PICK n \in 0..MaxBytes : data \in [1..n -> Bytes]
    BY DEF Payloads
  <2>2. n \in Nat /\ data \in Seq(Bytes) /\ Len(data) = n /\ KeyLength \in Nat
    BY <2>1, AddressAssumption
  <2> DEFINE front == SubSeq(data, 1, IF Len(data) < KeyLength THEN Len(data) ELSE KeyLength)
  <2>3. Len(front) = KeyLength /\ front \in [1..KeyLength -> Bytes]
    <3>1. KeyLength \in 1..Len(data) /\ ~(Len(data) < KeyLength)
      BY <1>3, <2>2, AddressAssumption
    <3>2. front = SubSeq(data, 1, KeyLength)
      BY <3>1
    <3>3. SubSeq(data, 1, KeyLength) \in Seq(Bytes) /\ Len(SubSeq(data, 1, KeyLength)) = KeyLength
      BY <2>2, <3>1
    <3>4. front \in Seq(Bytes) /\ Len(front) = KeyLength
      BY <3>2, <3>3
    <3> HIDE DEF front
    <3>5. front \in [1..Len(front) -> Bytes]
      BY <3>4
    <3> QED BY <3>4, <3>5
  <2>4. KeyLength \in 0..MaxBytes
    BY <2>2, AddressAssumption
  <2>5. front \in Payloads
    BY <2>3, <2>4 DEF Payloads
  <2>6. KeyOf("shield-cpk", front) # Refused
    BY <2>3, <2>5, AddressAssumption DEF KeyOf
  <2>7. ShieldedAddressOf(data) = data
    BY <2>6 DEF ShieldedAddressOf
  <2> QED BY <1>3, <2>7 DEF FromBytes, RefFromBytes, Scalars, Fixed
<1> QED BY <1>1, <1>2, <1>3 DEF Kinds

(* A text that somebody wrote: labels before the payload, at least one.    *)
Texts == [prefix : Seq(Labels) \ {<<>>}, data : Payloads]

LEMMA ParsedIs ==
  ASSUME NEW t \in Texts
  PROVE  LET n == IF Len(t.prefix) >= 3 THEN t.prefix[3] ELSE Mainnet
             type == IF Len(t.prefix) >= 2 THEN t.prefix[2] ELSE "undefined"
             refused == \/ t.prefix[1] # "mn"
                        \/ ~ValidateSegment(type)
                        \/ Len(t.prefix) >= 3 /\ ~ValidateSegment(n)
         IN  IF refused THEN Parse(t) = Refused
             ELSE /\ Parse(t) # Refused /\ Parse(t).type = type /\ Parse(t).network = n
                  /\ Parse(t).explicit = (Len(t.prefix) >= 3) /\ Parse(t).data = t.data
<1> DEFINE n == IF Len(t.prefix) >= 3 THEN t.prefix[3] ELSE Mainnet
           type == IF Len(t.prefix) >= 2 THEN t.prefix[2] ELSE "undefined"
           r == [type |-> type, network |-> n, explicit |-> Len(t.prefix) >= 3, data |-> t.data]
<1>1. t.prefix \in Seq(Labels) /\ t.data \in Payloads /\ Len(t.prefix) \in Nat
  BY DEF Texts
<1>2. type \in Labels \cup {"undefined"} /\ n \in Labels /\ (Len(t.prefix) >= 3) \in BOOLEAN
  BY <1>1, AddressAssumption
<1>3. r # Refused
  <2> HIDE DEF n, type
  <2>1. r \in Parsed
    BY <1>1, <1>2 DEF Parsed
  <2> QED BY <2>1, KindsAssumption
<1>4. Parse(t) = IF \/ t.prefix[1] # "mn"
                    \/ ~ValidateSegment(type)
                    \/ Len(t.prefix) >= 3 /\ ~ValidateSegment(n)
                 THEN Refused ELSE r
  BY DEF Parse
<1>5. r.type = type /\ r.network = n /\ r.explicit = (Len(t.prefix) >= 3) /\ r.data = t.data
  OBVIOUS
<1> HIDE DEF r
<1> QED BY <1>3, <1>4, <1>5

LEMMA RefParsedIs ==
  ASSUME NEW t \in Texts
  PROVE  LET k == Len(t.prefix)
             accepted == /\ t.prefix[1] = "mn" /\ k >= 2 /\ ValidateSegment(t.prefix[2])
                         /\ k >= 3 => ValidateSegment(t.prefix[3])
         IN  IF ~accepted THEN RefParse(t) = Refused
             ELSE /\ RefParse(t) # Refused /\ RefParse(t).type = t.prefix[2]
                  /\ RefParse(t).network = (IF k >= 3 THEN <<t.prefix[3]>> ELSE <<>>)
                  /\ RefParse(t).data = t.data
<1> DEFINE n == IF Len(t.prefix) >= 3 THEN <<t.prefix[3]>> ELSE <<>>
           r == [type |-> t.prefix[2], network |-> n, data |-> t.data]
           valid == \A k \in 2..Len(t.prefix) : k <= 3 => ValidateSegment(t.prefix[k])
<1>1. t.prefix \in Seq(Labels) /\ t.data \in Payloads /\ Len(t.prefix) \in Nat
  BY DEF Texts
<1>2. Len(t.prefix) >= 2 =>
        (valid <=> ValidateSegment(t.prefix[2]) /\ (Len(t.prefix) >= 3 => ValidateSegment(t.prefix[3])))
  <2>1. \A k \in 2..Len(t.prefix) : k <= 3 => k \in {2, 3}
    BY <1>1
  <2>2. Len(t.prefix) >= 2 => 2 \in 2..Len(t.prefix)
    BY <1>1
  <2>3. Len(t.prefix) >= 3 => 3 \in 2..Len(t.prefix)
    BY <1>1
  <2>4. ~(2 \in {3}) /\ \A k \in 2..Len(t.prefix) : k = 3 => Len(t.prefix) >= 3
    BY <1>1
  <2> QED BY <2>1, <2>2, <2>3, <2>4
<1>3. Len(t.prefix) >= 2 => r # Refused
  <2> SUFFICES ASSUME Len(t.prefix) >= 2 PROVE r # Refused
    OBVIOUS
  <2>1. n \in Seq(Labels) /\ t.prefix[2] \in Labels
    BY <1>1
  <2> HIDE DEF n
  <2>2. r \in RefParsed
    BY <1>1, <2>1 DEF RefParsed
  <2> QED BY <2>2, KindsAssumption
<1>4. RefParse(t) = IF t.prefix[1] = "mn" /\ Len(t.prefix) >= 2 /\ valid THEN r ELSE Refused
  BY DEF RefParse
<1>5. r.type = t.prefix[2] /\ r.network = n /\ r.data = t.data
  OBVIOUS
<1> HIDE DEF r, valid
<1> QED BY <1>2, <1>3, <1>4, <1>5

(* Codec and reference agree about every text, but for the same two.       *)
LEMMA DecodedAsInReference ==
  ASSUME NEW t \in Texts, NEW kind \in Kinds, NEW n \in Networks
  PROVE  \/ Decode(kind, n, t) = RefDecode(kind, n, t)
         \/ kind = "shield-epk"
         \/ kind = "shield-addr" /\ Len(t.data) # 2 * KeyLength
<1> DEFINE r == Parse(t)
           q == RefParse(t)
           k == Len(t.prefix)
<1>1. t.prefix \in Seq(Labels) /\ t.data \in Payloads /\ k \in Nat
  BY DEF Texts
<1>2. kind # "undefined"
  BY DEF Kinds, Fixed, Scalars
<1>3. Decode(kind, n, t) = IF r = Refused \/ r.type # kind \/ ~SameNetwork(r, n) THEN Refused
                           ELSE FromBytes(kind, r.data)
  BY DEF Decode
<1>4. RefDecode(kind, n, t) =
        IF q # Refused /\ q.type = kind /\ q.network = (IF n = Mainnet THEN <<>> ELSE <<n>>)
        THEN RefFromBytes(kind, q.data) ELSE Refused
  BY DEF RefDecode
<1>5. (r = Refused \/ r.type # kind \/ ~SameNetwork(r, n))
        <=> ~(q # Refused /\ q.type = kind /\ q.network = (IF n = Mainnet THEN <<>> ELSE <<n>>))
  <2>1. CASE k < 2
    <3>1. ~(k >= 2)
      BY <1>1, <2>1
    <3>2. q = Refused
      BY <3>1, RefParsedIs
    <3>3. r = Refused \/ r.type = "undefined"
      BY <3>1, ParsedIs
    <3> QED BY <1>2, <3>2, <3>3
  <2>2. CASE k >= 2
    <3> DEFINE ok == t.prefix[1] = "mn" /\ ValidateSegment(t.prefix[2])
                     /\ (k >= 3 => ValidateSegment(t.prefix[3]))
    <3>1. IF ~ok THEN q = Refused
          ELSE /\ q # Refused /\ q.type = t.prefix[2]
               /\ q.network = (IF k >= 3 THEN <<t.prefix[3]>> ELSE <<>>)
      BY <2>2, RefParsedIs
    <3>2. IF ~ok THEN r = Refused
          ELSE /\ r # Refused /\ r.type = t.prefix[2] /\ r.explicit = (k >= 3)
               /\ r.network = (IF k >= 3 THEN t.prefix[3] ELSE Mainnet)
      BY <2>2, ParsedIs
    <3> HIDE DEF ok, r, q, k
    <3>3. ASSUME ok
          PROVE  SameNetwork(r, n) <=> q.network = (IF n = Mainnet THEN <<>> ELSE <<n>>)
      <4>1. CASE k >= 3
        <5>1. q.network = <<t.prefix[3]>> /\ r.network = t.prefix[3] /\ r.explicit
          BY <3>1, <3>2, <3>3, <4>1
        <5>2. <<t.prefix[3]>> # <<>> /\ (<<t.prefix[3]>> = <<n>> <=> t.prefix[3] = n)
          OBVIOUS
        <5> QED BY <5>1, <5>2 DEF SameNetwork
      <4>2. CASE ~(k >= 3)
        <5>1. q.network = <<>> /\ r.network = Mainnet /\ ~r.explicit
          BY <3>1, <3>2, <3>3, <4>2
        <5>2. <<n>> # <<>>
          OBVIOUS
        <5> QED BY <5>1, <5>2 DEF SameNetwork
      <4> QED BY <4>1, <4>2
    <3> QED BY <3>1, <3>2, <3>3
  <2> QED BY <1>1, <2>1, <2>2
<1>6. q # Refused /\ r # Refused => q.data = t.data /\ r.data = t.data
  BY ParsedIs, RefParsedIs
<1> HIDE DEF r, q, k
<1> QED BY <1>1, <1>3, <1>4, <1>5, <1>6, BytesAsInReference

(* A text that is on its way was encoded by the sender, or by somebody     *)
(* else; what came out of it is what the decoders say.                     *)
AddressInv ==
  /\ item \in Items /\ network \in Networks /\ sent \in BOOLEAN
  /\ text = NoText => ~sent /\ asked = <<>>
  /\ text # NoText =>
       IF sent THEN text = EncodeFor(item, network)
       ELSE \E prefix \in Foreign : text = [prefix |-> prefix, data |-> item.data]
  /\ asked # <<>> =>
       /\ text # NoText /\ text # Refused
       /\ \E kind \in Kinds, n \in Networks :
            /\ asked = <<kind, n>>
            /\ result = Decode(kind, n, text) /\ expected = RefDecode(kind, n, text)

(* What can be encoded is a payload that a codec takes.                    *)
LEMMA ItemIs ==
  ASSUME NEW i \in Items
  PROVE  i.kind \in Kinds /\ i.data \in Payloads /\ FromBytes(i.kind, i.data) = i.data
<1>1. i.kind \in Kinds /\ i.data \in Payloads /\ FromBytes(i.kind, i.data) # Refused
  BY DEF Items
<1> QED BY <1>1, FromBytesIsData

LEMMA EncodedIs ==
  ASSUME NEW i \in Items, NEW n \in Networks, EncodeFor(i, n) # Refused
  PROVE  LET t == EncodeFor(i, n)
         IN  /\ t \in Texts /\ t.data = i.data
             /\ t.prefix[1] = "mn" /\ t.prefix[2] = i.kind
             /\ Len(t.prefix) = IF n = Mainnet THEN 2 ELSE 3
             /\ n # Mainnet => t.prefix[3] = LowerCase[n] /\ ValidateSegment(n)
<1> DEFINE t == EncodeFor(i, n)
           p == <<"mn", i.kind>> \o (IF n = Mainnet THEN <<>> ELSE <<LowerCase[n]>>)
<1>1. i.kind \in Labels /\ i.data \in Payloads /\ LowerCase[n] \in Labels /\ "mn" \in Labels
  BY ItemIs, AddressAssumption, KindsAssumption
<1>2. t = AsText(i.kind, n, i.data) /\ (n # Mainnet => ValidateSegment(n))
  BY DEF EncodeFor
<1>3. /\ p \in Seq(Labels) /\ p[1] = "mn" /\ p[2] = i.kind
      /\ Len(p) = IF n = Mainnet THEN 2 ELSE 3
      /\ n # Mainnet => p[3] = LowerCase[n]
  <2>1. CASE n = Mainnet
    <3>1. p = <<"mn", i.kind>> \o <<>>
      BY <2>1
    <3>2. <<"mn", i.kind>> \in Seq(Labels)
      BY <1>1
    <3>3. p = <<"mn", i.kind>>
      BY <3>1, <3>2
    <3> HIDE DEF p
    <3> QED BY <2>1, <3>2, <3>3
  <2>2. CASE n # Mainnet
    <3> DEFINE front == <<"mn", i.kind>>
               rest == <<LowerCase[n]>>
    <3>1. p = front \o rest
      BY <2>2
    <3>2. /\ front \in Seq(Labels) /\ Len(front) = 2 /\ front[1] = "mn" /\ front[2] = i.kind
          /\ rest \in Seq(Labels) /\ Len(rest) = 1 /\ rest[1] = LowerCase[n]
      BY <1>1
    <3> HIDE DEF front, rest, p
    <3>3. /\ p \in Seq(Labels) /\ Len(p) = 2 + 1
          /\ \A k \in 1..3 : p[k] = IF k <= 2 THEN front[k] ELSE rest[k - 2]
      <4>1. /\ p \in Seq(Labels) /\ Len(p) = Len(front) + Len(rest)
            /\ \A k \in 1..(Len(front) + Len(rest)) :
                 p[k] = IF k <= Len(front) THEN front[k] ELSE rest[k - Len(front)]
        BY <3>1, <3>2, ConcatProperties, Zenon
      <4>2. Len(front) = 2 /\ Len(front) + Len(rest) = 3 /\ 2 + 1 = 3
        BY <3>2
      <4> QED BY <4>1, <4>2
    <3>4. p[1] = front[1] /\ p[2] = front[2]
      BY <3>3
    <3>5. p[3] = rest[1]
      <4>1. 3 \in 1..3 /\ ~(3 <= 2) /\ 3 - 2 = 1
        OBVIOUS
      <4> QED BY <3>3, <4>1
    <3> QED BY <2>2, <3>2, <3>3, <3>4, <3>5
  <2> QED BY <2>1, <2>2
<1>4. t = [prefix |-> p, data |-> i.data]
  BY <1>2 DEF AsText
<1>5. p # <<>>
  <2>1. Len(p) # 0
    BY <1>3
  <2> HIDE DEF p
  <2> QED BY <2>1
<1> HIDE DEF p, t
<1>6. t \in Texts /\ t.prefix = p /\ t.data = i.data
  BY <1>1, <1>3, <1>4, <1>5 DEF Texts
<1> QED BY <1>2, <1>3, <1>6 DEF t

(* Both kinds of texts are texts.                                          *)
LEMMA TextIs ==
  ASSUME AddressInv, text # NoText, text # Refused
  PROVE  text \in Texts
<1>1. CASE sent
  BY <1>1, EncodedIs DEF AddressInv
<1>2. CASE ~sent
  <2>1. PICK prefix \in Foreign : text = [prefix |-> prefix, data |-> item.data]
    BY <1>2 DEF AddressInv
  <2>2. prefix \in Seq(Labels) \ {<<>>} /\ item.data \in Payloads
    BY ItemIs, AddressAssumption DEF AddressInv
  <2> QED BY <2>1, <2>2 DEF Texts
<1> QED BY <1>1, <1>2

LEMMA AddressStep == AddressInv /\ [AddressNext]_addressVars => AddressInv'
<1> SUFFICES ASSUME AddressInv, [AddressNext]_addressVars PROVE AddressInv'
  OBVIOUS
<1>1. CASE EncodeItem
  <2>1. EncodeFor(item, network) # NoText
    <3>1. CASE EncodeFor(item, network) = Refused
      BY <3>1, AddressAssumption
    <3>2. CASE EncodeFor(item, network) # Refused
      <4>1. EncodeFor(item, network) \in Texts
        BY <3>2, EncodedIs DEF AddressInv
      <4>2. Texts \subseteq TextRecords
        BY DEF Texts, TextRecords
      <4> QED BY <4>1, <4>2, AddressAssumption
    <3> QED BY <3>1, <3>2
  <2> QED BY <1>1, <2>1 DEF EncodeItem, AddressInv
<1>2. ASSUME NEW prefix \in Foreign, HandForeign(prefix)
      PROVE  AddressInv'
  <2>1. text' = [prefix |-> prefix, data |-> item.data]
    BY <1>2 DEF HandForeign
  <2>2. prefix \in Seq(Labels) /\ item.data \in Payloads
    BY ItemIs, AddressAssumption DEF AddressInv
  <2>3. text' \in TextRecords
    BY <2>1, <2>2 DEF TextRecords
  <2>4. text' # NoText
    BY <2>3, AddressAssumption
  <2>5. ~sent /\ asked = <<>> /\ UNCHANGED <<item, network, sent, asked, result, expected>>
    BY <1>2 DEF HandForeign, AddressInv
  <2> QED BY <2>1, <2>4, <2>5 DEF AddressInv
<1>3. ASSUME NEW kind \in Kinds, NEW n \in Networks, DecodeText(kind, n)
      PROVE  AddressInv'
  BY <1>3 DEF DecodeText, AddressInv
<1>4. CASE UNCHANGED addressVars
  BY <1>4 DEF addressVars, AddressInv
<1> QED BY <1>1, <1>2, <1>3, <1>4 DEF AddressNext

LEMMA AddressMeaning == AddressInv => AddressesHold
<1> SUFFICES ASSUME AddressInv PROVE AddressesHold
  OBVIOUS
<1>1. CASE asked = <<>>
  <2>1. \A a, b : asked # <<a, b>>
    BY <1>1
  <2> QED BY <1>1, <2>1 DEF AddressesHold, ComesBack, ReadAsMeant, AsInReference
<1>2. CASE asked # <<>>
  <2>1. PICK kind \in Kinds, n \in Networks :
          /\ asked = <<kind, n>>
          /\ result = Decode(kind, n, text) /\ expected = RefDecode(kind, n, text)
    BY <1>2 DEF AddressInv
  <2>2. text # NoText /\ text # Refused /\ text \in Texts /\ asked[1] = kind
    BY <1>2, <2>1, TextIs DEF AddressInv
  <2>3. AsInReference
    BY <2>1, <2>2, DecodedAsInReference DEF AsInReference
  <2>4. ASSUME sent
        PROVE  /\ result # Refused => kind = item.kind /\ n = LowerCase[network]
               /\ kind = item.kind /\ n = network /\ LowerCase[network] = network => result = item.data
    <3> DEFINE r == Parse(text)
    <3>1. text = EncodeFor(item, network) /\ item \in Items /\ network \in Networks
      BY <2>2, <2>4 DEF AddressInv
    <3>2. /\ text.data = item.data /\ text.prefix[1] = "mn" /\ text.prefix[2] = item.kind
          /\ Len(text.prefix) = IF network = Mainnet THEN 2 ELSE 3
          /\ network # Mainnet => text.prefix[3] = LowerCase[network]
      BY <2>2, <3>1, EncodedIs
    <3>4. ValidateSegment(item.kind) /\ LowerCase[Mainnet] = Mainnet
      BY <3>1, ItemIs, KindsAssumption, AddressAssumption
    <3> DEFINE third == IF Len(text.prefix) >= 3 THEN text.prefix[3] ELSE Mainnet
               second == IF Len(text.prefix) >= 2 THEN text.prefix[2] ELSE "undefined"
    <3>3. IF \/ text.prefix[1] # "mn"
             \/ ~ValidateSegment(second)
             \/ Len(text.prefix) >= 3 /\ ~ValidateSegment(third)
          THEN r = Refused
          ELSE /\ r # Refused /\ r.type = second /\ r.network = third
               /\ r.explicit = (Len(text.prefix) >= 3) /\ r.data = text.data
      BY <2>2, ParsedIs
    <3>8. /\ second = item.kind /\ third = LowerCase[network]
          /\ Len(text.prefix) >= 3 <=> network # Mainnet
      BY <3>2, <3>4
    <3> HIDE DEF r, second, third
    <3>5. IF network # Mainnet /\ ~ValidateSegment(LowerCase[network]) THEN r = Refused
          ELSE /\ r # Refused /\ r.type = item.kind /\ r.data = item.data
               /\ r.network = LowerCase[network] /\ (r.explicit <=> network # Mainnet)
      BY <3>2, <3>3, <3>4, <3>8
    <3>6. result = IF r = Refused \/ r.type # kind \/ ~SameNetwork(r, n) THEN Refused
                   ELSE FromBytes(kind, r.data)
      BY <2>1 DEF Decode, r
    <3>7. FromBytes(item.kind, item.data) = item.data
      BY <3>1, ItemIs
    <3>9. ASSUME result # Refused PROVE kind = item.kind /\ n = LowerCase[network]
      <4>1. r # Refused /\ r.type = kind /\ SameNetwork(r, n)
        BY <3>6, <3>9
      <4>2. r.type = item.kind /\ r.network = LowerCase[network]
        BY <3>5, <4>1
      <4> QED BY <4>1, <4>2 DEF SameNetwork
    <3>10. ASSUME kind = item.kind, n = network, LowerCase[network] = network
           PROVE  result = item.data
      <4>1. network # Mainnet => ValidateSegment(LowerCase[network])
        BY <2>2, <3>1, <3>10, EncodedIs
      <4>2. /\ r # Refused /\ r.type = kind /\ r.data = item.data
            /\ r.network = n /\ (r.explicit <=> n # Mainnet)
        BY <3>5, <3>10, <4>1
      <4>3. SameNetwork(r, n)
        BY <4>2 DEF SameNetwork
      <4> QED BY <3>6, <3>7, <3>10, <4>2, <4>3
    <3> QED BY <3>9, <3>10
  <2>5. ReadAsMeant
    BY <2>1, <2>4 DEF ReadAsMeant
  <2>6. ComesBack
    <3>1. asked = <<item.kind, network>> => kind = item.kind /\ n = network
      BY <2>1
    <3> QED BY <2>4, <3>1 DEF ComesBack
  <2> QED BY <2>3, <2>5, <2>6 DEF AddressesHold
<1> QED BY <1>1, <1>2

(* A text is read back as what was written and on the network it was       *)
(* written for, as nothing else, and as the reference reads it; whatever   *)
(* networks, payloads and texts of other programs there are.               *)
THEOREM AddressesAreReadAsMeant == AddressSpec => []AddressesHold
<1>1. AddressInit => AddressInv
  BY DEF AddressInit, AddressInv
<1> QED BY <1>1, AddressStep, AddressMeaning, PTL DEF AddressSpec

-----------------------------------------------------------------------------
(* Keys                                                                    *)

(* A number is quotient and remainder of its division, and of no others.   *)
LEMMA Division ==
  ASSUME NEW a \in Nat, NEW b \in Nat \ {0}
  PROVE  /\ a \div b \in 0..a /\ (a % b) \in 0..(b - 1)
         /\ a = b * (a \div b) + (a % b)
<1>1. a \div b \in Nat /\ (a % b) \in 0..(b - 1) /\ a = b * (a \div b) + (a % b)
  OBVIOUS
<1>2. ASSUME NEW q \in Nat, NEW r \in Nat, a = b * q + r PROVE q <= a
  <2>1. b * q >= q
    OBVIOUS
  <2> QED BY <1>2, <2>1
<1> QED BY <1>1, <1>2

LEMMA DivisionUnique ==
  ASSUME NEW a \in Nat, NEW b \in Nat \ {0}, NEW q \in Nat, NEW r \in 0..(b - 1), a = q * b + r
  PROVE  a \div b = q /\ (a % b) = r
OBVIOUS

LEMMA DivisionMonotone ==
  ASSUME NEW a \in Nat, NEW c \in Nat, a <= c, NEW b \in Nat \ {0}
  PROVE  a \div b <= c \div b
<1> DEFINE p == a \div b
           q == c \div b
<1>1. /\ p \in Nat /\ q \in Nat
      /\ \E r \in 0..(b - 1) : a = b * p + r
      /\ \E r \in 0..(b - 1) : c = b * q + r
  <2>1. p \in 0..a /\ (a % b) \in 0..(b - 1) /\ a = b * p + (a % b)
    BY Division
  <2>2. q \in 0..c /\ (c % b) \in 0..(b - 1) /\ c = b * q + (c % b)
    BY Division
  <2> HIDE DEF p, q
  <2> QED BY <2>1, <2>2
<1> HIDE DEF p, q
<1>2. ASSUME q + 1 <= p PROVE FALSE
  <2>1. b * (q + 1) <= b * p
    BY <1>1, <1>2
  <2>2. b * (q + 1) = b * q + b
    BY <1>1
  <2>3. b * q \in Nat /\ b * p \in Nat
    BY <1>1
  <2> QED BY <1>1, <2>1, <2>2, <2>3
<1>3. p <= q
  BY <1>1, <1>2
<1> QED BY <1>3 DEF p, q

(* Digits are dropped one by one.                                          *)
LEMMA ShiftedIs ==
  ASSUME NEW scalar \in Nat
  PROVE  /\ Shifted(scalar)[0] = scalar
         /\ \A n \in 1..(2 * Wanted) : Shifted(scalar)[n] = Shifted(scalar)[n - 1] \div HexDigit
         /\ \A n \in 0..(2 * Wanted) : Shifted(scalar)[n] \in Nat
<1> DEFINE Drops(f, n) == f = [k \in 0..n |-> IF k = 0 THEN scalar ELSE f[k - 1] \div HexDigit]
           T == {n \in Nat : ~\E f : Drops(f, n)}
           w == 2 * Wanted
<1>0. w \in Nat /\ HexDigit \in Nat \ {0}
  BY KeysAssumption DEF Wanted
<1>1. T = {}
  <2> SUFFICES ASSUME T # {} PROVE FALSE
    OBVIOUS
  <2>1. PICK n \in T : \A m \in T : n <= m
    BY LeastExists
  <2>2. CASE n = 0
    <3> DEFINE g == [k \in 0..0 |-> scalar]
    <3>1. Drops(g, 0)
      OBVIOUS
    <3> QED BY <2>1, <2>2, <3>1
  <2>3. CASE n # 0
    <3>1. n \in Nat /\ n - 1 \in Nat /\ ~(n <= n - 1)
      BY <2>1, <2>3
    <3>2. PICK f : Drops(f, n - 1)
      BY <2>1, <3>1
    <3> DEFINE g == [k \in 0..n |-> IF k = n THEN f[n - 1] \div HexDigit ELSE f[k]]
    <3>3. ASSUME NEW k \in 0..n
          PROVE  g[k] = IF k = 0 THEN scalar ELSE g[k - 1] \div HexDigit
      <4>1. CASE k = n
        <5>1. n - 1 \in 0..n /\ n - 1 # n
          BY <3>1
        <5> QED BY <2>3, <4>1, <5>1
      <4>2. CASE k # n
        <5>1. k \in 0..(n - 1) /\ (k # 0 => k - 1 \in 0..n /\ k - 1 # n)
          BY <3>1, <4>2
        <5>2. f[k] = IF k = 0 THEN scalar ELSE f[k - 1] \div HexDigit
          BY <3>2, <5>1
        <5> QED BY <4>2, <5>1, <5>2
      <4> QED BY <4>1, <4>2
    <3>4. Drops(g, n)
      <4> HIDE DEF g
      <4>1. g = [k \in 0..n |-> g[k]]
        BY DEF g
      <4> QED BY <3>3, <4>1
    <3> QED BY <2>1, <3>4
  <2> QED BY <2>2, <2>3
<1> DEFINE rest == CHOOSE f : Drops(f, w)
<1>2. Drops(rest, w)
  BY <1>0, <1>1
<1>3. Shifted(scalar) = rest
  BY DEF Shifted
<1> HIDE DEF rest, w
<1>4. /\ rest[0] = scalar
      /\ \A n \in 1..w : n \in 0..w /\ n # 0 /\ rest[n] = rest[n - 1] \div HexDigit
  BY <1>0, <1>2
<1>5. \A n \in 0..w : rest[n] \in Nat
  <2> DEFINE U == {n \in 0..w : rest[n] \notin Nat}
  <2> SUFFICES ASSUME U # {} PROVE FALSE
    OBVIOUS
  <2>1. PICK n \in U : \A m \in U : n <= m
    <3>1. U \subseteq Nat
      BY <1>0
    <3> QED BY <3>1, LeastExists
  <2>2. n # 0
    BY <1>4, <2>1
  <2>3. n - 1 \in 0..w /\ ~(n <= n - 1) /\ n \in 1..w
    BY <1>0, <2>1, <2>2
  <2>4. rest[n - 1] \in Nat
    BY <2>1, <2>3
  <2>5. rest[n - 1] \div HexDigit \in 0..rest[n - 1]
    BY <1>0, <2>4, Division
  <2>6. rest[n] \in Nat
    BY <1>4, <2>3, <2>4, <2>5
  <2> QED BY <2>1, <2>6
<1> QED BY <1>3, <1>4, <1>5 DEF w

LEMMA ShiftedMonotone ==
  ASSUME NEW small \in Nat, NEW large \in Nat, small <= large
  PROVE  \A n \in 0..(2 * Wanted) : Shifted(small)[n] <= Shifted(large)[n]
<1> DEFINE w == 2 * Wanted
           U == {n \in 0..w : ~(Shifted(small)[n] <= Shifted(large)[n])}
<1>0. w \in Nat /\ HexDigit \in Nat \ {0}
  BY KeysAssumption DEF Wanted
<1> SUFFICES ASSUME U # {} PROVE FALSE
  OBVIOUS
<1>1. PICK n \in U : \A m \in U : n <= m
  <2>1. U \subseteq Nat
    BY <1>0
  <2> QED BY <2>1, LeastExists
<1>2. n # 0
  BY <1>1, ShiftedIs
<1>3. n - 1 \in 0..w /\ ~(n <= n - 1) /\ n \in 1..w
  BY <1>0, <1>1, <1>2
<1>4. Shifted(small)[n - 1] <= Shifted(large)[n - 1]
  BY <1>1, <1>3
<1>5. Shifted(small)[n - 1] \div HexDigit <= Shifted(large)[n - 1] \div HexDigit
  BY <1>0, <1>3, <1>4, ShiftedIs, DivisionMonotone
<1>6. Shifted(small)[n] <= Shifted(large)[n]
  BY <1>3, <1>5, ShiftedIs
<1> QED BY <1>1, <1>6

(* An element of the field has no more digits than the field has.          *)
LEMMA DigitsOfField ==
  ASSUME NEW scalar \in Nat, scalar < Field.modulus
  PROVE  /\ Shifted(scalar)[2 * Field.bytes] = 0
         /\ DigitCount(scalar) \in 1..(2 * Field.bytes)
<1> DEFINE w == 2 * Wanted
           b == 2 * Field.bytes
           T == {n \in 1..w : Shifted(scalar)[n] = 0}
<1>1. w \in Nat /\ b \in 1..w /\ Field.modulus - 1 \in Nat /\ scalar <= Field.modulus - 1
  BY KeysAssumption DEF Wanted
<1>2. Shifted(scalar)[b] <= Shifted(Field.modulus - 1)[b]
  BY <1>1, ShiftedMonotone
<1>3. Shifted(scalar)[b] = 0
  BY <1>1, <1>2, ShiftedIs, KeysAssumption
<1>4. PICK n \in T : \A m \in T : n <= m
  <2>1. T \subseteq Nat /\ b \in T
    BY <1>1, <1>3
  <2> QED BY <2>1, LeastExists
<1> DEFINE Counts(k) == Shifted(scalar)[k] = 0 /\ \A m \in 1..(k - 1) : Shifted(scalar)[m] # 0
<1>5. n \in 1..w /\ Counts(n)
  BY <1>1, <1>4
<1>6. DigitCount(scalar) \in 1..w /\ Counts(DigitCount(scalar))
  BY <1>5 DEF DigitCount
<1>7. ~(b < DigitCount(scalar))
  <2> SUFFICES ASSUME b < DigitCount(scalar) PROVE FALSE
    OBVIOUS
  <2>1. b \in 1..(DigitCount(scalar) - 1)
    BY <1>1, <1>6
  <2> QED BY <1>3, <1>6, <2>1
<1> QED BY <1>1, <1>3, <1>6, <1>7

(* Every byte of a representation is two digits of the number.             *)
LEMMA FromScalarIs ==
  ASSUME NEW scalar \in Nat, scalar < Field.modulus
  PROVE  /\ FromScalar(scalar) \in [1..Field.bytes -> Byte]
         /\ \A k \in 1..Field.bytes :
              FromScalar(scalar)[k] = HexDigit * (Shifted(scalar)[2 * k - 1] % HexDigit)
                                      + (Shifted(scalar)[2 * k - 2] % HexDigit)
<1> DEFINE b == Field.bytes
           length == IF DigitCount(scalar) < 2 * b THEN 2 * b ELSE DigitCount(scalar)
           Digit(i) == Shifted(scalar)[length - i] % HexDigit
           bytes == length \div 2
<1>0. b \in Nat \ {0} /\ HexDigit \in Nat \ {0} /\ b <= Wanted /\ Wanted \in Nat
  BY KeysAssumption DEF Wanted
<1>1. FromScalar(scalar) =
        [k \in 1..bytes |-> HexDigit * Digit(2 * (bytes - k) + 1) + Digit(2 * (bytes - k) + 2)]
  BY DEF FromScalar
<1>2. length = 2 * b
  BY <1>0, DigitsOfField
<1> HIDE DEF length
<1>3. bytes = b
  <2>1. 2 * b = b * 2 + 0 /\ 2 * b \in Nat /\ 0 \in 0..(2 - 1)
    BY <1>0
  <2>2. (2 * b) \div 2 = b
    BY <1>0, <2>1, DivisionUnique
  <2> QED BY <1>2, <2>2
<1> HIDE DEF bytes
<1>4. ASSUME NEW k \in 1..b
      PROVE  /\ Digit(2 * (b - k) + 1) = (Shifted(scalar)[2 * k - 1] % HexDigit)
             /\ Digit(2 * (b - k) + 2) = (Shifted(scalar)[2 * k - 2] % HexDigit)
  <2>1. length - (2 * (b - k) + 1) = 2 * k - 1 /\ length - (2 * (b - k) + 2) = 2 * k - 2
    BY <1>0, <1>2
  <2> QED BY <2>1
<1>5. ASSUME NEW k \in 1..b
      PROVE  HexDigit * (Shifted(scalar)[2 * k - 1] % HexDigit)
             + (Shifted(scalar)[2 * k - 2] % HexDigit) \in Byte
  <2>1. 2 * k - 1 \in 0..(2 * Wanted) /\ 2 * k - 2 \in 0..(2 * Wanted)
    BY <1>0
  <2> DEFINE x == Shifted(scalar)[2 * k - 1] % HexDigit
             y == Shifted(scalar)[2 * k - 2] % HexDigit
  <2>2. x \in 0..(HexDigit - 1) /\ y \in 0..(HexDigit - 1)
    BY <1>0, <2>1, ShiftedIs, Division
  <2> HIDE DEF x, y
  <2>3. HexDigit * x <= HexDigit * (HexDigit - 1) /\ HexDigit * x \in Nat
    BY <1>0, <2>2
  <2>4. HexDigit * (HexDigit - 1) = HexDigit * HexDigit - HexDigit /\ HexDigit * HexDigit \in Nat
    BY <1>0
  <2>5. HexDigit * x + y \in Byte
    BY <1>0, <2>2, <2>3, <2>4 DEF Byte
  <2> QED BY <2>5 DEF x, y
<1> HIDE DEF Digit, b
<1>6. FromScalar(scalar) = [k \in 1..b |-> HexDigit * (Shifted(scalar)[2 * k - 1] % HexDigit)
                                           + (Shifted(scalar)[2 * k - 2] % HexDigit)]
  BY <1>1, <1>3, <1>4
<1> QED BY <1>5, <1>6 DEF b

(* The bytes are read from the last one to the first.                      *)
LEMMA ToScalarIs ==
  ASSUME NEW n \in Nat, NEW bytes \in [1..n -> Byte]
  PROVE  \E value :
           /\ value[0] = 0 /\ ToScalar(bytes) = value[n]
           /\ \A k \in 1..n : value[k] = value[k - 1] * (HexDigit * HexDigit) + bytes[n - (k - 1)]
           /\ \A k \in 0..n : value[k] \in Nat
<1> DEFINE Reads(f, m) ==
             f = [k \in 0..m |-> IF k = 0 THEN 0
                                 ELSE f[k - 1] * (HexDigit * HexDigit) + bytes[n - (k - 1)]]
           T == {m \in Nat : ~\E f : Reads(f, m)}
<1>0. HexDigit * HexDigit \in Nat /\ Byte \subseteq Nat
  BY KeysAssumption DEF Byte
<1>1. T = {}
  <2> SUFFICES ASSUME T # {} PROVE FALSE
    OBVIOUS
  <2>1. PICK l \in T : \A m \in T : l <= m
    BY LeastExists
  <2>2. CASE l = 0
    <3> DEFINE g == [k \in 0..0 |-> 0]
    <3>1. Reads(g, 0)
      OBVIOUS
    <3> QED BY <2>1, <2>2, <3>1
  <2>3. CASE l # 0
    <3>1. l \in Nat /\ l - 1 \in Nat /\ ~(l <= l - 1)
      BY <2>1, <2>3
    <3>2. PICK f : Reads(f, l - 1)
      BY <2>1, <3>1
    <3> DEFINE g == [k \in 0..l |-> IF k = l
                                    THEN f[l - 1] * (HexDigit * HexDigit) + bytes[n - (l - 1)]
                                    ELSE f[k]]
    <3>3. ASSUME NEW k \in 0..l
          PROVE  g[k] = IF k = 0 THEN 0
                        ELSE g[k - 1] * (HexDigit * HexDigit) + bytes[n - (k - 1)]
      <4>1. CASE k = l
        <5>1. l - 1 \in 0..l /\ l - 1 # l
          BY <3>1
        <5> QED BY <2>3, <4>1, <5>1
      <4>2. CASE k # l
        <5>1. k \in 0..(l - 1) /\ (k # 0 => k - 1 \in 0..l /\ k - 1 # l)
          BY <3>1, <4>2
        <5>2. f[k] = IF k = 0 THEN 0
                     ELSE f[k - 1] * (HexDigit * HexDigit) + bytes[n - (k - 1)]
          BY <3>2, <5>1
        <5> QED BY <4>2, <5>1, <5>2
      <4> QED BY <4>1, <4>2
    <3>4. Reads(g, l)
      <4> HIDE DEF g
      <4>1. g = [k \in 0..l |-> g[k]]
        BY DEF g
      <4> QED BY <3>3, <4>1
    <3> QED BY <2>1, <3>4
  <2> QED BY <2>2, <2>3
<1> DEFINE value == CHOOSE f : Reads(f, n)
<1>2. Reads(value, n)
  BY <1>1
<1>3. Len(bytes) = n
  OBVIOUS
<1>4. ToScalar(bytes) = value[n]
  BY <1>3 DEF ToScalar
<1> HIDE DEF value
<1>5. /\ value[0] = 0
      /\ \A k \in 1..n : k \in 0..n /\ k # 0
           /\ value[k] = value[k - 1] * (HexDigit * HexDigit) + bytes[n - (k - 1)]
  BY <1>2
<1>6. \A k \in 0..n : value[k] \in Nat
  <2> DEFINE U == {k \in 0..n : value[k] \notin Nat}
  <2> SUFFICES ASSUME U # {} PROVE FALSE
    OBVIOUS
  <2>1. PICK k \in U : \A m \in U : k <= m
    <3>1. U \subseteq Nat
      OBVIOUS
    <3> QED BY <3>1, LeastExists
  <2>2. k # 0
    BY <1>5, <2>1
  <2>3. k - 1 \in 0..n /\ ~(k <= k - 1) /\ k \in 1..n /\ n - (k - 1) \in 1..n
    BY <2>1, <2>2
  <2>4. value[k - 1] \in Nat /\ bytes[n - (k - 1)] \in Nat
    BY <1>0, <2>1, <2>3
  <2>5. value[k - 1] * (HexDigit * HexDigit) \in Nat
    BY <1>0, <2>4
  <2>6. value[k] \in Nat
    BY <1>5, <2>3, <2>4, <2>5
  <2> QED BY <2>1, <2>6
<1> QED BY <1>4, <1>5, <1>6

(* A number comes back from its representation.                            *)
LEMMA ReadBack ==
  ASSUME NEW scalar \in Nat, scalar < Field.modulus
  PROVE  /\ Len(FromScalar(scalar)) = Field.bytes
         /\ ToScalar(FromScalar(scalar)) = scalar
<1> DEFINE b == Field.bytes
           repr == FromScalar(scalar)
           s == Shifted(scalar)
<1>0. b \in Nat \ {0} /\ HexDigit \in Nat \ {0} /\ b <= Wanted /\ Wanted \in Nat
  BY KeysAssumption DEF Wanted
<1>1. repr \in [1..b -> Byte]
  BY FromScalarIs
<1>2. PICK value :
        /\ value[0] = 0 /\ ToScalar(repr) = value[b]
        /\ \A k \in 1..b : value[k] = value[k - 1] * (HexDigit * HexDigit) + repr[b - (k - 1)]
        /\ \A k \in 0..b : value[k] \in Nat
  <2> HIDE DEF repr, b
  <2>1. b \in Nat
    BY <1>0
  <2> QED BY <1>1, <2>1, ToScalarIs
<1>3. \A k \in 0..b : value[k] = s[2 * b - 2 * k]
  <2> DEFINE U == {k \in 0..b : value[k] # s[2 * b - 2 * k]}
  <2> SUFFICES ASSUME U # {} PROVE FALSE
    OBVIOUS
  <2>1. PICK k \in U : \A m \in U : k <= m
    <3>1. U \subseteq Nat
      BY <1>0
    <3> QED BY <3>1, LeastExists
  <2>2. k # 0
    <3>1. 2 * b - 2 * 0 = 2 * b
      BY <1>0
    <3>2. s[2 * b] = 0
      BY DigitsOfField
    <3> QED BY <1>2, <2>1, <3>1, <3>2
  <2> DEFINE j == b - (k - 1)
             m == 2 * b - 2 * k
  <2>3. /\ k - 1 \in 0..b /\ ~(k <= k - 1) /\ k \in 1..b /\ j \in 1..b
        /\ 2 * j - 2 = m /\ 2 * j - 1 = m + 1 /\ 2 * b - 2 * (k - 1) = m + 2
        /\ m \in 0..(2 * Wanted) /\ m + 1 \in 1..(2 * Wanted) /\ m + 2 \in 1..(2 * Wanted)
        /\ (m + 1) - 1 = m /\ (m + 2) - 1 = m + 1
        /\ m + 1 \in 0..(2 * Wanted) /\ m + 2 \in 0..(2 * Wanted)
    BY <1>0, <2>1, <2>2
  <2>4. value[k - 1] = s[m + 2]
    BY <2>1, <2>3
  <2>5. value[k] = value[k - 1] * (HexDigit * HexDigit) + repr[j]
    BY <1>2, <2>3
  <2>6. repr[j] = HexDigit * (s[m + 1] % HexDigit) + (s[m] % HexDigit)
    BY <2>3, FromScalarIs
  <2> HIDE DEF s, m, j, repr, b
  <2>7. s[m] \in Nat /\ s[m + 1] \in Nat /\ s[m + 2] \in Nat
    BY <2>3, ShiftedIs DEF s
  <2>8. s[m + 1] = s[m] \div HexDigit /\ s[m + 2] = s[m + 1] \div HexDigit
    BY <2>3, ShiftedIs DEF s
  <2>9. s[m] = HexDigit * s[m + 1] + (s[m] % HexDigit)
    BY <1>0, <2>7, <2>8, Division
  <2>10. s[m + 1] = HexDigit * s[m + 2] + (s[m + 1] % HexDigit)
    BY <1>0, <2>7, <2>8, Division
  <2> DEFINE low == s[m] % HexDigit
             high == s[m + 1] % HexDigit
  <2>11. low \in Nat /\ high \in Nat
    <3>1. low \in 0..(HexDigit - 1)
      BY <1>0, <2>7, Division
    <3>2. high \in 0..(HexDigit - 1)
      BY <1>0, <2>7, Division
    <3> HIDE DEF low, high
    <3> QED BY <1>0, <3>1, <3>2
  <2>12. s[m] = HexDigit * s[m + 1] + low /\ s[m + 1] = HexDigit * s[m + 2] + high
    BY <2>9, <2>10
  <2>15. repr[j] = HexDigit * high + low
    BY <2>6
  <2> HIDE DEF low, high
  <2>13. s[m] = s[m + 2] * (HexDigit * HexDigit) + (HexDigit * high + low)
    <3> DEFINE x == s[m]
               y == s[m + 1]
               z == s[m + 2]
    <3>1. x \in Nat /\ y \in Nat /\ z \in Nat /\ x = HexDigit * y + low /\ y = HexDigit * z + high
      BY <2>7, <2>12
    <3> HIDE DEF x, y, z
    <3>2. HexDigit * y = HexDigit * (HexDigit * z) + HexDigit * high
      BY <1>0, <2>11, <3>1
    <3>3. HexDigit * (HexDigit * z) = z * (HexDigit * HexDigit)
      BY <1>0, <3>1
    <3>4. HexDigit * y \in Nat /\ HexDigit * high \in Nat /\ z * (HexDigit * HexDigit) \in Nat
      BY <1>0, <2>11, <3>1
    <3>5. x = z * (HexDigit * HexDigit) + (HexDigit * high + low)
      BY <2>11, <3>1, <3>2, <3>3, <3>4
    <3> QED BY <3>5 DEF x, z
  <2>14. value[k] = s[m]
    BY <2>4, <2>5, <2>13, <2>15
  <2> QED BY <2>1, <2>14 DEF m
<1>4. value[b] = s[0] /\ s[0] = scalar
  <2>1. 2 * b - 2 * b = 0 /\ b \in 0..b
    BY <1>0
  <2> QED BY <1>3, <2>1, ShiftedIs
<1>5. Len(repr) = b
  BY <1>0, <1>1
<1> QED BY <1>2, <1>4, <1>5

(* What a derivation answered follows from the root key that it met, the   *)
(* account and the roles.                                                  *)
WasThrown(d) == d.root = "wiped" /\ \E r \in d.of.roles : ~OutOfBounds(d.of.account, r, d.index)

DerivedInv ==
  /\ \A k \in keysHeld : k.roles # {}
  /\ \A d \in derived :
       /\ d.of.roles # {}
       /\ d.answer = IF WasThrown(d) THEN [type |-> "thrown", keys |-> <<>>]
                     ELSE FromResults(d.of.account, d.of.roles, d.index)

(* Every byte that was sampled is of a digest, in order.                   *)
SampledByte(k) ==
  buffer[k] = digest[((k - 1) \div HashBytes) + 1][((k - 1) % HashBytes) + 1]

SampledInv ==
  /\ round \in 0..Rounds /\ digest \in Seq([1..HashBytes -> Byte]) /\ Len(digest) = round
  /\ buffer \in [1..Wanted -> Byte]
  /\ \A k \in 1..Wanted : k <= round * HashBytes => SampledByte(k)
  /\ secret # NoKey =>
       round = Rounds /\ secret = [key |-> Reduced(buffer), repr |-> FromScalar(Reduced(buffer))]

KeysInv == DerivedInv /\ SampledInv

(* The rounds fill the buffer.                                             *)
LEMMA RoundsFill == Rounds \in Nat /\ Wanted \in Nat \ {0} /\ Wanted <= Rounds * HashBytes
<1> DEFINE n == Wanted + HashBytes - 1
           q == n \div HashBytes
<1>1. Wanted \in Nat \ {0} /\ HashBytes \in Nat \ {0} /\ n \in Nat
  BY KeysAssumption DEF Wanted
<1>2. q \in 0..n /\ (n % HashBytes) \in 0..(HashBytes - 1) /\ n = HashBytes * q + (n % HashBytes)
  BY <1>1, Division
<1>3. Rounds = q
  BY DEF Rounds
<1> HIDE DEF q
<1>4. q \in Nat /\ Wanted <= HashBytes * q
  BY <1>1, <1>2
<1>5. HashBytes * q = q * HashBytes
  BY <1>1, <1>4
<1> QED BY <1>1, <1>3, <1>4, <1>5

(* A round adds the bytes of its digest.                                   *)
LEMMA RoundAdds ==
  ASSUME SampledInv, NEW segment \in [1..HashBytes -> Byte], SampleRound(segment)
  PROVE  SampledInv'
<1> DEFINE h == HashBytes
           offset == round * h
<1>1. /\ round \in 0..Rounds /\ digest \in Seq([1..h -> Byte]) /\ Len(digest) = round
      /\ buffer \in [1..Wanted -> Byte] /\ Rounds \in Nat /\ Wanted \in Nat /\ h \in Nat \ {0}
  BY RoundsFill, KeysAssumption DEF SampledInv
<1>2. /\ round' = round + 1 /\ round < Rounds /\ secret = NoKey /\ secret' = NoKey
      /\ digest' = Append(digest, segment) /\ buffer' = CopyAt(buffer, segment, offset)
  BY <1>1 DEF SampleRound, SampledInv
<1>3. /\ round' \in 0..Rounds /\ digest' \in Seq([1..h -> Byte]) /\ Len(digest') = round'
      /\ \A n \in 1..round : digest'[n] = digest[n]
      /\ digest'[round + 1] = segment
  BY <1>1, <1>2
<1>4. Len(segment) = h /\ offset \in Nat
  BY <1>1
<1>5. buffer' = [k \in 1..Wanted |->
                   IF offset < k /\ k <= offset + h THEN segment[k - offset] ELSE buffer[k]]
  BY <1>1, <1>2, <1>4 DEF CopyAt
<1> HIDE DEF h, offset
<1>6. buffer' \in [1..Wanted -> Byte]
  <2>1. \A k \in 1..Wanted : offset < k /\ k <= offset + h => segment[k - offset] \in Byte
    BY <1>1, <1>4 DEF h
  <2> QED BY <1>1, <1>5, <2>1
<1>7. ASSUME NEW k \in 1..Wanted, k <= round' * h PROVE SampledByte(k)'
  <2> DEFINE n == (k - 1) \div h
             m == (k - 1) % h
  <2>0. k - 1 \in Nat /\ round' * h = offset + h
    BY <1>1, <1>2 DEF offset
  <2>1. CASE k <= offset
    <3>1. SampledByte(k)
      BY <2>1 DEF SampledInv, offset, h
    <3>2. n \in 0..(k - 1) /\ k - 1 = h * n + m /\ m \in 0..(h - 1)
      BY <1>1, <2>0, Division
    <3> HIDE DEF n, m
    <3>3. n < round
      <4> SUFFICES ASSUME round <= n PROVE FALSE
        BY <1>1, <3>2
      <4>1. n \in Nat /\ m \in Nat /\ round \in Nat /\ h \in Nat /\ k - 1 = h * n + m
        BY <1>1, <2>0, <3>2
      <4>2. h * round <= h * n
        BY <4>1
      <4>3. h * round = offset /\ h * n \in Nat
        BY <4>1 DEF offset
      <4> QED BY <1>4, <2>0, <2>1, <4>1, <4>2, <4>3
    <3>4. n + 1 \in 1..round
      BY <1>1, <3>2, <3>3
    <3>5. buffer[k] = digest[n + 1][m + 1]
      BY <3>1 DEF SampledByte, n, m, h
    <3>6. buffer'[k] = buffer[k]
      BY <1>4, <1>5, <2>1
    <3>7. buffer'[k] = digest'[n + 1][m + 1]
      BY <1>3, <3>4, <3>5, <3>6
    <3> QED BY <3>7 DEF SampledByte, n, m, h
  <2>2. CASE ~(k <= offset)
    <3>1. /\ k - 1 - offset \in 0..(h - 1) /\ k - 1 = round * h + (k - 1 - offset)
          /\ k - 1 - offset + 1 = k - offset
      BY <1>1, <1>4, <1>7, <2>0, <2>2 DEF offset
    <3>2. n = round /\ m = k - 1 - offset
      BY <1>1, <2>0, <3>1, DivisionUnique
    <3> HIDE DEF n, m
    <3>3. buffer'[k] = segment[m + 1]
      BY <1>1, <1>4, <1>5, <1>7, <2>0, <2>2, <3>1, <3>2
    <3>4. buffer'[k] = digest'[n + 1][m + 1]
      BY <1>3, <3>2, <3>3
    <3> QED BY <3>4 DEF SampledByte, n, m, h
  <2> QED BY <2>1, <2>2
<1> QED BY <1>2, <1>3, <1>6, <1>7 DEF SampledInv, h

LEMMA KeysStep == KeysInv /\ [KeysNext]_keyVars => KeysInv'
<1> SUFFICES ASSUME KeysInv, [KeysNext]_keyVars PROVE KeysInv'
  OBVIOUS
<1> USE DEF KeysInv
<1>1. CASE FromSeed \/ Clear \/ UNCHANGED keyVars
  BY <1>1 DEF FromSeed, Clear, keyVars, hdVars, sampleVars, DerivedInv, SampledInv, SampledByte,
              WasThrown
<1>2. ASSUME NEW account \in PathNumbers, NEW roles \in (SUBSET Roles) \ {{}}, Select(account, roles)
      PROVE  KeysInv'
  <2>1. keysHeld' = keysHeld \cup {[account |-> account, roles |-> roles]}
        /\ UNCHANGED <<root, derived, sampleVars>>
    BY <1>2 DEF Select
  <2> QED BY <2>1 DEF sampleVars, DerivedInv, SampledInv, SampledByte, WasThrown
<1>3. ASSUME NEW k \in keysHeld, NEW index \in PathNumbers, DeriveKeysAt(k, index)
      PROVE  KeysInv'
  <2> DEFINE thrown == \E r \in k.roles : Throws(k.account, r, index)
             answer == IF thrown THEN [type |-> "thrown", keys |-> <<>>]
                       ELSE FromResults(k.account, k.roles, index)
             d == [of |-> k, index |-> index, answer |-> answer, root |-> root]
  <2>1. derived' = derived \cup {d} /\ UNCHANGED <<root, keysHeld, sampleVars>>
    BY <1>3 DEF DeriveKeysAt
  <2>2. d.of = k /\ d.index = index /\ d.answer = answer /\ d.root = root
    OBVIOUS
  <2>3. WasThrown(d) <=> thrown
    BY DEF WasThrown, Throws
  <2>4. k.roles # {}
    BY DEF DerivedInv
  <2> HIDE DEF d
  <2>5. DerivedInv'
    BY <2>1, <2>2, <2>3, <2>4 DEF DerivedInv, WasThrown
  <2>6. SampledInv'
    BY <2>1 DEF sampleVars, SampledInv, SampledByte
  <2> QED BY <2>5, <2>6
<1>4. ASSUME NEW segment \in [1..HashBytes -> Byte], SampleRound(segment)
      PROVE  KeysInv'
  <2>1. UNCHANGED hdVars
    BY <1>4 DEF SampleRound
  <2>2. DerivedInv'
    BY <2>1 DEF hdVars, DerivedInv, WasThrown
  <2> QED BY <1>4, <2>2, RoundAdds
<1>5. CASE SampleKey
  <2>1. UNCHANGED hdVars
    BY <1>5 DEF SampleKey
  <2>2. DerivedInv'
    BY <2>1 DEF hdVars, DerivedInv, WasThrown
  <2>3. /\ secret' = [key |-> Reduced(buffer), repr |-> FromScalar(Reduced(buffer))]
        /\ round = Rounds /\ UNCHANGED <<round, digest, buffer>>
    BY <1>5 DEF SampleKey
  <2>4. SampledInv'
    BY <2>3 DEF SampledInv, SampledByte
  <2> QED BY <2>2, <2>4
<1> QED BY <1>1, <1>2, <1>3, <1>4, <1>5 DEF KeysNext

LEMMA KeysMeaning == KeysInv => KeysHold
<1> SUFFICES ASSUME KeysInv PROVE KeysHold
  OBVIOUS
<1>1. ASSUME NEW d \in derived
      PROVE  IF WasThrown(d) THEN d.answer.type = "thrown"
             ELSE IF \E r \in d.of.roles : OutOfBounds(d.of.account, r, d.index)
                  THEN d.answer.type = "keyOutOfBounds"
                  ELSE /\ d.answer.type = "keysDerived"
                       /\ \A r \in d.of.roles : d.answer.keys[r] = <<d.of.account, r, d.index>>
  <2>1. d.answer = IF WasThrown(d) THEN [type |-> "thrown", keys |-> <<>>]
                   ELSE FromResults(d.of.account, d.of.roles, d.index)
    BY DEF KeysInv, DerivedInv
  <2> DEFINE failed == {r \in d.of.roles : OutOfBounds(d.of.account, r, d.index)}
             keys == [r \in d.of.roles |-> <<d.of.account, r, d.index>>]
  <2>2. CASE WasThrown(d)
    BY <2>1, <2>2
  <2>3. CASE ~WasThrown(d) /\ failed # {}
    <3>1. d.answer = [type |-> "keyOutOfBounds", keys |-> <<>>]
      BY <2>1, <2>3 DEF FromResults
    <3> QED BY <2>3, <3>1
  <2>4. CASE ~WasThrown(d) /\ failed = {}
    <3>1. d.answer = [type |-> "keysDerived", keys |-> keys]
      BY <2>1, <2>4 DEF FromResults
    <3>2. \A r \in d.of.roles : keys[r] = <<d.of.account, r, d.index>>
      OBVIOUS
    <3> HIDE DEF keys
    <3>3. d.answer.type = "keysDerived" /\ d.answer.keys = keys
      BY <3>1
    <3> QED BY <2>4, <3>2, <3>3
  <2> QED BY <2>2, <2>3, <2>4
<1>2. ClearedForGood
  <2> SUFFICES ASSUME NEW d \in derived, d.root = "wiped" PROVE d.answer.type # "keysDerived"
    BY DEF ClearedForGood
  <2>1. d.of.roles # {}
    BY DEF KeysInv, DerivedInv
  <2> QED BY <1>1, <2>1 DEF WasThrown
<1>3. RolesAgree
  <2> SUFFICES ASSUME NEW one \in derived, NEW many \in derived, one.of.roles \subseteq many.of.roles,
                      one.of.account = many.of.account, one.index = many.index, one.root = many.root
               PROVE  /\ one.answer.type = "keyOutOfBounds" => many.answer.type # "keysDerived"
                      /\ many.answer.type = "keysDerived" =>
                           \A r \in one.of.roles : one.answer.keys[r] = many.answer.keys[r]
    BY DEF RolesAgree
  <2>1. ASSUME one.answer.type = "keyOutOfBounds" PROVE many.answer.type # "keysDerived"
    BY <1>1, <2>1
  <2>2. ASSUME many.answer.type = "keysDerived", NEW r \in one.of.roles
        PROVE  one.answer.keys[r] = many.answer.keys[r]
    <3>1. /\ ~WasThrown(many)
          /\ \A s \in many.of.roles : ~OutOfBounds(many.of.account, s, many.index)
          /\ many.answer.keys[r] = <<many.of.account, r, many.index>>
      BY <1>1, <2>2
    <3>2. ~WasThrown(one) /\ \A s \in one.of.roles : ~OutOfBounds(one.of.account, s, one.index)
      BY <3>1 DEF WasThrown
    <3>3. one.answer.keys[r] = <<one.of.account, r, one.index>>
      BY <1>1, <3>2
    <3> QED BY <3>1, <3>3
  <2> QED BY <2>1, <2>2
<1>4. SampledRight
  <2> SUFFICES ASSUME secret # NoKey
               PROVE  /\ \A k \in 1..Wanted : SampledByte(k)
                      /\ \E q \in 0..ToScalar(buffer) :
                           q * Field.modulus + secret.key = ToScalar(buffer)
                      /\ secret.key < Field.modulus
                      /\ Len(secret.repr) = Field.bytes /\ ToScalar(secret.repr) = secret.key
    BY DEF SampledRight, SampledByte
  <2> DEFINE n == ToScalar(buffer)
             m == Field.modulus
             q == n \div m
             key == n % m
  <2>1. /\ secret = [key |-> key, repr |-> FromScalar(key)]
        /\ round = Rounds /\ buffer \in [1..Wanted -> Byte]
    BY DEF KeysInv, SampledInv, Reduced
  <2>2. \A k \in 1..Wanted : SampledByte(k)
    <3>1. Wanted \in Nat /\ Rounds * HashBytes \in Nat
      BY RoundsFill, KeysAssumption
    <3>2. \A k \in 1..Wanted : k <= round * HashBytes
      BY <2>1, <3>1, RoundsFill
    <3> QED BY <3>2 DEF KeysInv, SampledInv
  <2>3. n \in Nat /\ m \in Nat \ {0}
    <3>1. Wanted \in Nat
      BY RoundsFill
    <3>2. PICK value : /\ n = value[Wanted] /\ \A k \in 0..Wanted : value[k] \in Nat
      BY <2>1, <3>1, ToScalarIs
    <3> HIDE DEF n
    <3> QED BY <3>1, <3>2, KeysAssumption
  <2> HIDE DEF n, m
  <2>4. q \in 0..n /\ key \in 0..(m - 1) /\ n = m * q + key
    BY <2>3, Division
  <2> HIDE DEF q, key
  <2>5. q * m + key = n
    BY <2>3, <2>4
  <2>6. key \in Nat /\ key < m
    BY <2>3, <2>4
  <2>7. Len(FromScalar(key)) = Field.bytes /\ ToScalar(FromScalar(key)) = key
    BY <2>6, ReadBack DEF m
  <2>8. secret.key = key /\ secret.repr = FromScalar(key)
    BY <2>1
  <2> QED BY <2>2, <2>4, <2>5, <2>6, <2>7, <2>8 DEF n, m
<1> QED BY <1>2, <1>3, <1>4 DEF KeysHold

(* Keys are derived from a live root only and agree however they are asked *)
(* for, and a secret key is made of every byte sampled, in its field, and  *)
(* comes back from its representation; for every field, hash length and    *)
(* base of digits.                                                         *)
THEOREM KeysAreRight == KeysSpec => []KeysHold
<1>1. KeysInit => KeysInv
  <2> SUFFICES ASSUME KeysInit PROVE KeysInv
    OBVIOUS
  <2>1. DerivedInv
    BY DEF KeysInit, DerivedInv
  <2>2. 0 \in Byte
    <3>1. HexDigit * HexDigit >= 1 /\ HexDigit * HexDigit \in Nat
      BY KeysAssumption
    <3> QED BY <3>1 DEF Byte
  <2>3. SampledInv
    <3>1. 0 \in 0..Rounds /\ HashBytes \in Nat /\ 0 * HashBytes = 0
      BY RoundsFill, KeysAssumption
    <3>2. buffer \in [1..Wanted -> Byte]
      BY <2>2 DEF KeysInit
    <3> QED BY <3>1, <3>2 DEF KeysInit, SampledInv
  <2> QED BY <2>1, <2>3 DEF KeysInv
<1> QED BY <1>1, KeysStep, KeysMeaning, PTL DEF KeysSpec

(* What leaves a wallet as text or as numbers is right.                    *)
THEOREM EncodingsAreRight == EncodingsSpec => []EncodingsHold
BY AddressesAreReadAsMeant, KeysAreRight, PTL DEF EncodingsSpec, EncodingsHold
=============================================================================
