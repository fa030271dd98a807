------------------------------ MODULE Recipes ------------------------------
(***************************************************************************)
(* One transaction on its way through the calls of the application: it is   *)
(* balanced (into a recipe of one or two transactions), signed, proved,     *)
(* bound and merged, perhaps balanced again, or reverted.  The calls may    *)
(* come in any order their types allow.  How a balancing call books coins   *)
(* in one wallet after the other, and what stops it midway, is Facade's.    *)
(***************************************************************************)
EXTENDS Naturals, FiniteSets, FiniteSetsExt

CONSTANTS
  Utxos,        \* unshielded outputs of this wallet
  OthersUtxos,  \* unshielded outputs of the other party
  ZswapCoins,     \* shielded coins of this wallet
  DustCoins,         \* dust coins of this wallet
  MaxSegment,   \* intent segments are 1..MaxSegment
  MaxBalances,  \* bound: balancing calls
  Unsigned, NoTransaction

\* Every balancing call finds two free segments: there are 65535 of them.
ASSUME RecipeBounds ==
  /\ MaxSegment \in Nat /\ MaxBalances \in Nat
  /\ MaxSegment >= 2 * MaxBalances + 2

VARIABLES
  recipe,   \* the BalancingRecipe, or a transaction as a recipe without balancing part
  taken,    \* coins and outputs that the wallets have booked for it
  signed,   \* history: signed since it was balanced
  spoiled,  \* history: balanced in place when signed, or finalized unsigned
  balances

recipeVars == <<recipe, taken, signed, spoiled, balances>>

TokenKinds == {"shielded", "unshielded", "dust"}
OfferSections == {"guaranteed", "fallible"}
Segments == 1..MaxSegment

Partial(D, R) == UNION {[d -> R] : d \in SUBSET D}
Outputs == Utxos \cup OthersUtxos

\* A signature covers the intent: its inputs by section, and whether it registers.
Signatures == [by : {"wallet", "other party"},
               over : (SUBSET Outputs) \X (SUBSET Outputs) \X BOOLEAN]
UtxoOffers == Partial(Outputs, Signatures \cup {Unsigned})
Intents == [guaranteed : UtxoOffers, fallible : UtxoOffers,
            registration : {"none", "unsigned", "signed"}, bound : BOOLEAN]
Transactions == [intents : Partial(Segments, Intents), spends : SUBSET (ZswapCoins \cup DustCoins)]

ASSUME RecipeValues ==
  /\ Utxos \cap OthersUtxos = {}
  /\ Unsigned \notin Signatures /\ NoTransaction \notin Transactions

\* Two finite functions as one; f is right where both are defined.
Beside(f, g) ==
  [x \in DOMAIN f \cup DOMAIN g |-> IF x \in DOMAIN f THEN f[x] ELSE g[x]]
EmptyOffer == [c \in {} |-> Unsigned]
NewIntent == [guaranteed |-> EmptyOffer, fallible |-> EmptyOffer,
              registration |-> "none", bound |-> FALSE]
\* A transaction: its intents by segment, and the shielded and dust coins it spends
Spending(coins) == [intents |-> [s \in {} |-> NewIntent], spends |-> coins]
AddIntent(tx, s, intent) == [tx EXCEPT !.intents = Beside(@, [x \in {s} |-> intent])]
-----------------------------------------------------------------------------
(* The recipe *)

GetTransactions(r) == {r.base, r.balancing} \ {NoTransaction}

GetSegments(tx) == DOMAIN tx.intents

\* Mutant: the first segment is taken whatever the transaction has.
FindAvailableSegmentIdOff(tx) == 1

FindAvailableSegmentId(tx) ==
  LET free == Segments \ GetSegments(tx) IN IF free = {} THEN 1 ELSE Min(free)

\* merge of the ledger, which refuses two intents in one segment (external)
Merge(a, b) == [intents |-> Beside(a.intents, b.intents), spends |-> a.spends \cup b.spends]

MergeUnprovenTransactions(a, b) ==
  IF a # NoTransaction /\ b # NoTransaction THEN Merge(a, b)
  ELSE IF a # NoTransaction THEN a ELSE b

OwnInputs(tx) ==
  {c \in Utxos : \E s \in GetSegments(tx), o \in OfferSections : c \in DOMAIN tx.intents[s][o]}

RecipeTypeOK ==
  /\ recipe.type \in {"FINALIZED_TRANSACTION", "UNBOUND_TRANSACTION", "UNPROVEN_TRANSACTION"}
  /\ \A tx \in GetTransactions(recipe) : GetSegments(tx) \subseteq Segments
  /\ signed \in BOOLEAN /\ spoiled \in BOOLEAN /\ balances \in 0..MaxBalances

\* An intent of the other party, which has put outputs in and signed it
TheirIntent(type, theirs, registration) ==
  LET signature == [by |-> "other party", over |-> <<theirs, {}, registration # "none">>]
  IN [guaranteed |-> [c \in theirs |-> signature], fallible |-> EmptyOffer,
      registration |-> registration, bound |-> type = "FINALIZED_TRANSACTION"]

\* The transactions an application starts from: its own, or one of the other
\* party; segment 1 may be free or not.
RecipeInit ==
  /\ \E type \in {"FINALIZED_TRANSACTION", "UNBOUND_TRANSACTION", "UNPROVEN_TRANSACTION"},
        theirs \in SUBSET OthersUtxos, segment \in {1, 2}, registration \in {"none", "unsigned"} :
       /\ registration # "none" => type = "UNPROVEN_TRANSACTION" /\ segment = 1
       /\ recipe = [type |-> type, balancing |-> NoTransaction,
                    base |-> AddIntent(Spending({}), segment, TheirIntent(type, theirs, registration))]
  /\ taken = {} /\ signed = FALSE /\ spoiled = FALSE /\ balances = 0
-----------------------------------------------------------------------------
(* Balancing *)

\* TokenKindsToBalance.toFlags: a wallet that is not asked makes no part, one
\* that is asked makes none either when nothing is missing.
Selectable(kinds, kind, coins) == IF kind \in kinds THEN coins \ taken ELSE {}

ShieldedParts(kinds) ==
  {NoTransaction} \cup {Spending({c}) : c \in Selectable(kinds, "shielded", ZswapCoins)}

\* The dust wallet puts its spends in an intent of their own, beside what there is;
\* it makes one whenever it is asked.
FeeParts(kinds, existing) ==
  IF "dust" \in kinds
  THEN {AddIntent(Spending(coins), FindAvailableSegmentId(existing), NewIntent) : coins \in SUBSET (DustCoins \ taken)}
  ELSE {NoTransaction}

\* A bound transaction gets an intent with a guaranteed offer beside its own.
UnshieldedParts(kinds, tx) ==
  {NoTransaction} \cup
    {AddIntent(Spending({}), FindAvailableSegmentId(tx), [NewIntent EXCEPT !.guaranteed = [u \in {c} |-> Unsigned]]) :
       c \in Selectable(kinds, "unshielded", Utxos)}

\* In place, an offer is merged into every section that misses something; what
\* misses in the guaranteed section goes into the first intent.
Places(tx) ==
  {<<Min(GetSegments(tx)), "guaranteed">>} \cup {<<s, "fallible">> : s \in GetSegments(tx)}
MergeOffer(offer, picks, place) ==
  IF place \in DOMAIN picks THEN Beside(offer, [c \in {picks[place]} |-> Unsigned]) ELSE offer
MergeIntent(intent, picks, s) ==
  [intent EXCEPT !.guaranteed = MergeOffer(@, picks, <<s, "guaranteed">>),
                 !.fallible = MergeOffer(@, picks, <<s, "fallible">>)]
MergeOffers(tx, picks) ==
  [tx EXCEPT !.intents = [s \in DOMAIN @ |-> MergeIntent(@[s], picks, s)]]
BalancedInPlace(kinds, tx) ==
  UNION {{MergeOffers(tx, picks) : picks \in [places -> Selectable(kinds, "unshielded", Utxos)]} :
           places \in SUBSET Places(tx)}

HasSignature(intent) == \E o \in OfferSections : \E c \in DOMAIN intent[o] : intent[o][c] # Unsigned
SpoiledBy(tx, balanced) ==
  \E s \in GetSegments(tx) : HasSignature(tx.intents[s]) /\ balanced.intents[s] # tx.intents[s]

Balanced(base, balancing, booked, spoils) ==
  /\ recipe' = [recipe EXCEPT !.base = base, !.balancing = balancing]
  /\ taken' = taken \cup booked
  /\ signed' = FALSE /\ spoiled' = (spoiled \/ spoils)
  /\ balances' = balances + 1

MayBalance(type) ==
  /\ balances < MaxBalances
  /\ recipe.type = type /\ recipe.base # NoTransaction /\ recipe.balancing = NoTransaction

\* Coins that the wallets book for a part they make
Booked(tx) == IF tx = NoTransaction THEN {} ELSE OwnInputs(tx) \cup tx.spends

BalanceFinalized(kinds) ==
  /\ MayBalance("FINALIZED_TRANSACTION")
  /\ \E unshielded \in UnshieldedParts(kinds, recipe.base), shielded \in ShieldedParts(kinds) :
       LET merged == MergeUnprovenTransactions(shielded, unshielded)
       IN \E fee \in FeeParts(kinds, MergeUnprovenTransactions(recipe.base, merged)) :
            LET balancing == MergeUnprovenTransactions(merged, fee)
            IN balancing # NoTransaction /\ Balanced(recipe.base, balancing, Booked(balancing), FALSE)

BalanceUnbound(kinds) ==
  /\ MayBalance("UNBOUND_TRANSACTION")
  /\ \E shielded \in ShieldedParts(kinds), base \in BalancedInPlace(kinds, recipe.base) :
       \E fee \in FeeParts(kinds, MergeUnprovenTransactions(base, shielded)) :
         LET balancing == MergeUnprovenTransactions(shielded, fee)
         IN /\ balancing # NoTransaction \/ "unshielded" \in kinds
            /\ Balanced(base, balancing, Booked(balancing), SpoiledBy(recipe.base, base))

BalanceUnproven(kinds) ==
  /\ MayBalance("UNPROVEN_TRANSACTION")
  /\ \E shielded \in ShieldedParts(kinds), base \in BalancedInPlace(kinds, recipe.base) :
       LET merged == MergeUnprovenTransactions(base, shielded)
       IN \E fee \in FeeParts(kinds, merged) :
            Balanced(MergeUnprovenTransactions(merged, fee), NoTransaction,
                     Booked(shielded) \cup Booked(fee), SpoiledBy(recipe.base, base))
-----------------------------------------------------------------------------
(* Signing *)

\* What signatureData covers: the intent without its signatures
GetSignatureData(i) == <<DOMAIN i.guaranteed, DOMAIN i.fallible, i.registration # "none">>
OwnSignature(i) == [by |-> "wallet", over |-> GetSignatureData(i)]

\* addSignaturesToOffer: a signature that is there stays, the others are filled in.
AddSignaturesToOffer(offer, signature) ==
  [c \in DOMAIN offer |-> IF offer[c] = Unsigned THEN signature ELSE offer[c]]

AddSignature(i) ==
  [i EXCEPT !.guaranteed = AddSignaturesToOffer(@, OwnSignature(i)),
            !.fallible = AddSignaturesToOffer(@, OwnSignature(i))]

SignTransaction(tx) == [tx EXCEPT !.intents = [s \in DOMAIN @ |-> AddSignature(@[s])]]

SignDustRegistrationIfPresent(tx) ==
  IF 1 \in GetSegments(tx) /\ tx.intents[1].registration # "none"
  THEN [tx EXCEPT !.intents[1].registration = "signed"] ELSE tx

SignUnproven(tx) ==
  IF tx = NoTransaction THEN tx ELSE SignDustRegistrationIfPresent(SignTransaction(tx))

\* Signing changes the parts that are not bound yet; a finalized recipe has a
\* balancing part by its type.
SignRecipe ==
  /\ ~signed \* signing again changes nothing
  /\ recipe.base # NoTransaction
  /\ \/ recipe.type = "FINALIZED_TRANSACTION" /\ recipe.balancing # NoTransaction
        /\ recipe' = [recipe EXCEPT !.balancing = SignUnproven(@)]
     \/ recipe.type = "UNBOUND_TRANSACTION"
        /\ recipe' = [recipe EXCEPT !.balancing = SignUnproven(@), !.base = SignTransaction(@)]
     \/ recipe.type = "UNPROVEN_TRANSACTION"
        /\ recipe' = [recipe EXCEPT !.base = SignUnproven(@)]
  /\ signed' = TRUE
  /\ UNCHANGED <<taken, spoiled, balances>>
-----------------------------------------------------------------------------
(* Finalizing and reverting *)

Bind(tx) == [tx EXCEPT !.intents = [s \in DOMAIN @ |-> [@[s] EXCEPT !.bound = TRUE]]]

\* The proved parts are bound and merged with the base into one transaction,
\* which may be balanced again as any finalized one.
FinalizeRecipe ==
  /\ recipe.base # NoTransaction
  /\ recipe.type = "FINALIZED_TRANSACTION" => recipe.balancing # NoTransaction
  /\ recipe' = [type |-> "FINALIZED_TRANSACTION", balancing |-> NoTransaction,
                base |-> Bind(MergeUnprovenTransactions(recipe.base, recipe.balancing))]
  /\ spoiled' = (spoiled \/ ~signed)
  /\ UNCHANGED <<taken, signed, balances>>

\* revertTransaction of the three wallets: what the transactions spend is free again
RevertedFrom(txs) == taken \ UNION {OwnInputs(tx) \cup tx.spends : tx \in txs}

\* The proof fails: finalizeTransaction reverts what was to be proved and throws;
\* the caller is left with the base of the recipe, if that was not it.
ProvingFails ==
  /\ recipe.base # NoTransaction
  /\ IF recipe.type = "UNPROVEN_TRANSACTION"
     THEN /\ recipe' = [recipe EXCEPT !.base = NoTransaction]
          /\ taken' = RevertedFrom({recipe.base})
     ELSE /\ recipe.balancing # NoTransaction
          /\ recipe' = [recipe EXCEPT !.balancing = NoTransaction]
          /\ taken' = RevertedFrom({recipe.balancing})
  /\ signed' = FALSE
  /\ UNCHANGED <<spoiled, balances>>

\* revert of a recipe reverts each of its transactions.
RevertRecipe ==
  /\ recipe.base # NoTransaction
  /\ taken' = RevertedFrom(GetTransactions(recipe))
  /\ recipe' = [recipe EXCEPT !.base = NoTransaction, !.balancing = NoTransaction]
  /\ UNCHANGED <<signed, spoiled, balances>>

RecipesNext ==
  \/ \E kinds \in SUBSET TokenKinds : BalanceFinalized(kinds)
  \/ \E kinds \in SUBSET TokenKinds : BalanceUnbound(kinds)
  \/ \E kinds \in SUBSET TokenKinds : BalanceUnproven(kinds)
  \/ SignRecipe
  \/ FinalizeRecipe
  \/ ProvingFails
  \/ RevertRecipe

RecipesSpec == RecipeInit /\ [][RecipesNext]_recipeVars
-----------------------------------------------------------------------------
(* Properties *)

\* The two transactions of a recipe have no segment in common, so that they can
\* be merged: whichever wallets made the balancing part, and however often the
\* transaction is balanced again, each intent found a free segment
\* (TransactionOps.ts:79-87, dust Transacting.ts:743-751).
PartsCanBeMerged ==
  recipe.balancing # NoTransaction =>
    GetSegments(recipe.base) \cap GetSegments(recipe.balancing) = {}

\* Whatever the wallets booked is spent by a transaction of the recipe, so that
\* reverting the recipe, in any form it takes until it is one finalized
\* transaction, gives everything back (index.ts:212-228, 1352-1359).
BookedIsCarried ==
  taken \subseteq UNION {OwnInputs(tx) \cup tx.spends : tx \in GetTransactions(recipe)}

\* Once signed, and until it is balanced again, every output of this wallet that
\* the recipe spends carries the wallet's signature over the intent as it is now,
\* through binding, merging and further balancing of the whole; and the other
\* party's signature is where it was.  Balancing a signed intent in place breaks
\* it for good, since a signature that is there is never replaced
\* (TransactionOps.ts:146-165, index.ts:1006-1058).
SignaturesHold ==
  \A tx \in GetTransactions(recipe) : \A s \in GetSegments(tx), o \in OfferSections :
    LET i == tx.intents[s]
    IN \A c \in DOMAIN i[o] :
         IF c \in Utxos THEN signed /\ ~spoiled => i[o][c] = OwnSignature(i)
         ELSE i[o][c].by = "other party"

RecipesHold == RecipeTypeOK /\ PartsCanBeMerged /\ BookedIsCarried /\ SignaturesHold
=============================================================================
