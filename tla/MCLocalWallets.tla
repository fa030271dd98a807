--------------------------- MODULE MCLocalWallets ---------------------------
(***************************************************************************)
(* What a wallet does by itself: the balancer, the bookings of the dust    *)
(* and of the shielded wallet, the registration of Night outputs, the calls *)
(* that make a transaction, the life of the wallet object, its keys and     *)
(* addresses.  They share no state, so a behaviour moves one of them and   *)
(* TLC explores each by itself.                                            *)
(***************************************************************************)
EXTENDS MCBalancing, DustWallet, ShieldedWallet, DustRegistration, MCAddressFormat,
        Encodings, Recipes, WalletClasses, TLC

CONSTANTS u1, u2

VARIABLE part  \* the component that moves

MCRate == (u1 :> 1) @@ (u2 :> 2)

\* A recipe for the behaviours that are not about one
MCRecipe == [type |-> "UNPROVEN_TRANSACTION", balancing |-> NoTransaction,
             base |-> AddIntent(Spending({}), 1, NewIntent)]

madeVars == <<recipeVars, classVars>>
walletsVars ==
  <<vars, dustVars, shieldedVars, regVars, addressVars, keyVars, madeVars, part>>

\* One component starts in any of its initial states, the others in one.
WalletsInit ==
  /\ part \in {"balancer", "dust", "shielded", "registration", "addresses", "hd", "sampling",
              "recipe", "classes"}
  /\ part # "balancer" => request = Section
  /\ Init /\ DustInit /\ ShieldedInit /\ RegistrationInit
  /\ part # "registration" => registered = {} /\ ledgerFee = 1
  /\ part # "addresses" => item = [kind |-> "dust", data |-> <<>>] /\ network = Mainnet
  /\ AddressInit /\ KeysInit
  /\ RecipeInit /\ (part # "recipe" => recipe = MCRecipe)
  /\ ClassesInit /\ (part # "classes" => whichWallet = "shielded")

Balancer(A) ==
  part = "balancer" /\ A
  /\ UNCHANGED <<dustVars, shieldedVars, regVars, addressVars, keyVars, madeVars, part>>
Dust(A) ==
  part = "dust" /\ A
  /\ UNCHANGED <<vars, shieldedVars, regVars, addressVars, keyVars, madeVars, part>>
Shielded(A) ==
  part = "shielded" /\ A
  /\ UNCHANGED <<vars, dustVars, regVars, addressVars, keyVars, madeVars, part>>
Registration(A) ==
  part = "registration" /\ A
  /\ UNCHANGED <<vars, dustVars, shieldedVars, addressVars, keyVars, madeVars, part>>
Addresses(A) ==
  part = "addresses" /\ A
  /\ UNCHANGED <<vars, dustVars, shieldedVars, regVars, keyVars, madeVars, part>>
Keys(p, A) ==
  part = p /\ A
  /\ UNCHANGED <<vars, dustVars, shieldedVars, regVars, addressVars, madeVars, part>>
OnRecipe(A) ==
  part = "recipe" /\ A
  /\ UNCHANGED <<vars, dustVars, shieldedVars, regVars, addressVars, keyVars, classVars, part>>
Classes(A) ==
  part = "classes" /\ A
  /\ UNCHANGED <<vars, dustVars, shieldedVars, regVars, addressVars, keyVars, recipeVars, part>>

WalletsNext ==
  \/ Balancer(BalanceNonNative)
  \/ Balancer(BalanceNative)
  \/ Balancer(GetBalanceRecipe)
  \/ Balancer(ComputeBalancingRecipe)
  \/ \E t \in DTxs : Dust(BalanceTransactions(t))
  \/ \E t \in DTxs : Dust(RevertDustTransaction(t))
  \/ \E t \in DTxs : Dust(IncludeDustTransaction(t))
  \/ Dust(ApplyEvents)
  \/ Dust(SerializeDust)
  \/ Dust(RestoreDust)
  \/ Dust(DustTick)
  \/ \E t \in STxs : Shielded(BalanceTransaction(t))
  \/ \E t \in STxs : Shielded(MakeShieldedTransfer(t))
  \/ \E t \in STxs : Shielded(InitShieldedSwap(t))
  \/ \E t \in STxs : Shielded(RevertShieldedTransaction(t))
  \/ \E t \in STxs : Shielded(IncludeShieldedTransaction(t))
  \/ Shielded(Receive)
  \/ Shielded(ApplyShieldedUpdate)
  \/ Shielded(SerializeShielded)
  \/ Shielded(RestoreShielded)
  \/ \E c \in Calls, utxos \in SUBSET NightUtxos : Registration(StartWait(c, utxos))
  \/ \E c \in Calls : Registration(WaitResolves(c))
  \/ \E c \in Calls : Registration(WaitTimesOut(c))
  \/ \E c \in Calls, utxos \in SUBSET NightUtxos, r \in BOOLEAN : Registration(Split(c, utxos, r))
  \/ \E c \in Calls : Registration(RotateNight(c))
  \/ \E c \in Calls : Registration(AttachDustRegistration(c))
  \/ \E c \in Calls : Registration(AttachFails(c))
  \/ \E c \in Calls : Registration(PassFeeCheck(c))
  \/ \E c \in Calls : Registration(RefusedForFee(c))
  \/ \E c \in Calls : Registration(FeeUnknown(c))
  \/ \E c \in Calls : Registration(SignOffers(c))
  \/ \E c \in Calls : Registration(AddDustRegistrationSignature(c))
  \/ \E c \in Calls : Registration(SigningFails(c))
  \/ Registration(RegistrationTick)
  \/ Registration(NewFee)
  \/ Addresses(EncodeItem)
  \/ \E prefix \in Foreign : Addresses(HandForeign(prefix))
  \/ \E kind \in Kinds, n \in Networks : Addresses(DecodeText(kind, n))
  \/ Keys("hd", FromSeed)
  \/ \E account \in PathNumbers, roles \in (SUBSET Roles) \ {{}} : Keys("hd", Select(account, roles))
  \/ Keys("hd", Clear)
  \/ \E k \in keysHeld, index \in PathNumbers : Keys("hd", DeriveKeysAt(k, index))
  \/ \E segment \in [1..HashBytes -> Byte] : Keys("sampling", SampleRound(segment))
  \/ Keys("sampling", SampleKey)
  \/ \E kinds \in SUBSET TokenKinds : OnRecipe(BalanceFinalized(kinds))
  \/ \E kinds \in SUBSET TokenKinds : OnRecipe(BalanceUnbound(kinds))
  \/ \E kinds \in SUBSET TokenKinds : OnRecipe(BalanceUnproven(kinds))
  \/ OnRecipe(SignRecipe)
  \/ OnRecipe(FinalizeRecipe)
  \/ OnRecipe(ProvingFails)
  \/ OnRecipe(RevertRecipe)
  \/ \E t \in TransactionTypes : Classes(WithTransactionType(t))
  \/ \E m \in DOMAIN Setters : Classes(WithComponent(m))
  \/ Classes(WithDefaults)
  \/ Classes(BuildClass)
  \/ Classes(MakeServices)
  \/ Classes(StartFresh)
  \/ Classes(MakeFacade)
  \/ Classes(InitFails)
  \/ Classes(StartFacade)
  \/ Classes(StartSync)
  \/ Classes(StartPolling)
  \/ \E done \in BOOLEAN : Classes(SyncUpdate(done))
  \/ \E m \in Writing : Classes(Command(m))
  \/ Classes(PublishState)
  \/ Classes(Buffer)
  \/ Classes(Deliver)
  \/ \E a \in Asks, kind \in {"serialize", "synced"} : Classes(Ask(a, kind))
  \/ Classes(Watch)
  \/ Classes(Unwatch)
  \/ Classes(StopFacade)
  \/ Classes(StopWallet)
  \/ Classes(StopPolling)
  \/ Classes(StopReturns)
  \/ \E a \in Asks : Classes(Restore(a))

MCPathNumbers == {-1, 0, 2}
MCField == [bytes |-> 2, modulus |-> 11]

\* Calls, transactions and asks, whatever a part calls them, are only compared for
\* equality; the instance uses the same two values for all.
WalletsSymmetry == Permutations(Calls)

WalletsSpec == WalletsInit /\ [][WalletsNext]_walletsVars
=============================================================================
