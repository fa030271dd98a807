-------------------------- MODULE DustRegistration --------------------------
(***************************************************************************)
(* Registering Night outputs for dust generation: the facade waits until   *)
(* the outputs have generated enough dust, lets the dust wallet split them *)
(* (the output in the guaranteed section pays the fee with what it has     *)
(* generated), lets the unshielded wallet book them and build the intent,  *)
(* attaches the registration, compares the payment with the fee and signs. *)
(* Every await is a step of its own, so calls interleave.                  *)
(***************************************************************************)
EXTENDS Integers, FiniteSets, FiniteSetsExt

CONSTANTS
  Calls,     \* calls of register- and deregisterNightUtxosForDustGeneration
  NightUtxos,     \* Night outputs
  Rate,      \* dust generated by each output per tick, from time 0
  Cap,       \* most dust any output can hold
  Fees,      \* fees the ledger parameters may ask of the transaction
  MaxTicks    \* bound on the clock

ASSUME RegistrationBounds ==
  /\ IsFiniteSet(NightUtxos)
  /\ Rate \in [NightUtxos -> Nat] /\ Cap \in Nat /\ Fees \subseteq Nat /\ MaxTicks \in Nat

VARIABLES
  now,         \* the clock
  ledgerFee,   \* the fee under the current ledger parameters (external)
  registered,  \* outputs with registeredForDustGeneration
  pendingNight,\* outputs that the unshielded wallet has booked
  calls,       \* the calls, with what each has learned so far
  feeUnknown   \* calculateFee rejected in some call

regVars == <<now, ledgerFee, registered, pendingNight, calls, feeUnknown>>

Stages == {"idle", "waiting", "waited", "split", "rotated", "attached", "checked",
           "signed", "done", "failed"}
\* The intent at segment 1: the outputs its two unshielded offers spend, whether
\* the registration is attached, and the parts that carry a signature
Parts == {"guaranteed", "fallible", "registration"}
Intent == [guaranteed : SUBSET NightUtxos, fallible : SUBSET NightUtxos,
           registration : BOOLEAN, signed : SUBSET Parts]
NoRegistration == [guaranteed |-> {}, fallible |-> {}, registration |-> FALSE, signed |-> {}]
IdleCall == [stage |-> "idle", utxos |-> {}, registration |-> FALSE, required |-> 0,
         feePayment |-> 0, tx |-> NoRegistration, estimated |-> NoRegistration]
CallState == [stage : Stages, utxos : SUBSET NightUtxos, registration : BOOLEAN, required : Nat,
              feePayment : 0..Cap, tx : Intent, estimated : Intent]

RegistrationTypeOK ==
  /\ now \in 0..MaxTicks
  /\ ledgerFee \in Fees
  /\ registered \subseteq NightUtxos
  /\ pendingNight \subseteq NightUtxos
  /\ calls \in [Calls -> CallState]
  /\ feeUnknown \in BOOLEAN

RegistrationInit ==
  /\ now = 0
  /\ ledgerFee \in Fees
  /\ registered \in SUBSET NightUtxos
  /\ pendingNight = {}
  /\ calls = [c \in Calls |-> IdleCall]
  /\ feeUnknown = FALSE
-----------------------------------------------------------------------------
(* What the outputs generate, and how they are split *)

\* estimateDustGeneration: a fake dust coin of value 0 made when the output was
GeneratedNow(u, time) == IF Rate[u] * time <= Cap THEN Rate[u] * time ELSE Cap

\* the quantity waitForGeneratedDust follows
MaxGenerated(utxos, time) ==
  LET fresh == {GeneratedNow(u, time) : u \in utxos \ registered}
  IN IF fresh = {} THEN 0 ELSE Max(fresh)

\* splitNightUtxos: sorted by what is generated now, largest first, the first
\* one is guaranteed and the rest fallible
Guaranteed(utxos, time) ==
  {u \in utxos : \A v \in utxos : GeneratedNow(v, time) <= GeneratedNow(u, time)}

\* splitNightUtxosForDustRegistration: the payment allowed to the registration
FeePayment(u, time, registration) ==
  IF registration /\ u \notin registered THEN GeneratedNow(u, time) ELSE 0

\* makeOffer, rotateUtxos: an offer for each section that spends something
Offers(u, utxos) == [NoRegistration EXCEPT !.guaranteed = {u}, !.fallible = utxos \ {u}]

\* The offers there are to sign
OffersOf(tx) == {part \in {"guaranteed", "fallible"} : tx[part] # {}}

\* createDustGenerationTransaction: both offers and the registration at once
CreateDustGenerationTransaction(u, utxos) == [Offers(u, utxos) EXCEPT !.registration = TRUE]

\* addDustGenerationSignature: signs whatever the intent has
AddDustGenerationSignature(tx) == [tx EXCEPT !.signed = OffersOf(tx) \cup {"registration"}]

\* calculateFee of the transaction with its registration: the current parameters
CalculateFee == ledgerFee
-----------------------------------------------------------------------------
(* One call *)

SetCall(c, fields) == calls' = [calls EXCEPT ![c] = fields]
CallAt(c, stage) == calls[c].stage = stage

\* estimateRegistration gives the fee to wait for: that of a transaction made
\* and signed for the purpose, which books nothing; then waitForGeneratedDust
\* starts with the same outputs, and wants at least one of them.
StartWait(c, utxos) ==
  /\ CallAt(c, "idle") /\ utxos # {}
  /\ \E u \in Guaranteed(utxos, now) :
       LET fake == AddDustGenerationSignature(CreateDustGenerationTransaction(u, utxos))
       IN SetCall(c, [IdleCall EXCEPT !.stage = "waiting", !.utxos = utxos, !.registration = TRUE,
                                      !.required = CalculateFee, !.estimated = fake])
  /\ UNCHANGED <<now, ledgerFee, registered, pendingNight, feeUnknown>>

\* The projection is compared with what is required at every tick.
WaitResolves(c) ==
  /\ CallAt(c, "waiting")
  /\ calls[c].required <= 0 \/ MaxGenerated(calls[c].utxos, now) >= calls[c].required
  /\ SetCall(c, [calls[c] EXCEPT !.stage = "waited"])
  /\ UNCHANGED <<now, ledgerFee, registered, pendingNight, feeUnknown>>

WaitTimesOut(c) ==
  /\ CallAt(c, "waiting")
  /\ SetCall(c, [calls[c] EXCEPT !.stage = "failed"])
  /\ UNCHANGED <<now, ledgerFee, registered, pendingNight, feeUnknown>>

\* RegistrationStep 1 of createDustActionTransaction: the time is read and the outputs are
\* split; a deregistration, and a caller that did not wait, start here.
Split(c, utxos, registration) ==
  /\ CallAt(c, "waited") => utxos = calls[c].utxos /\ registration
  /\ CallAt(c, "waited") \/ CallAt(c, "idle")
  /\ utxos # {}
  /\ \E u \in Guaranteed(utxos, now) :
       SetCall(c, [calls[c] EXCEPT !.stage = "split", !.utxos = utxos, !.registration = registration,
                               !.tx = Offers(u, utxos), !.feePayment = FeePayment(u, now, registration)])
  /\ UNCHANGED <<now, ledgerFee, registered, pendingNight, feeUnknown>>

\* RegistrationStep 2, rotateUtxos: books all outputs, or fails when one is not available
RotateNight(c) ==
  /\ CallAt(c, "split")
  /\ IF calls[c].utxos \cap pendingNight = {}
     THEN /\ pendingNight' = pendingNight \cup calls[c].utxos
          /\ SetCall(c, [calls[c] EXCEPT !.stage = "rotated"])
     ELSE /\ SetCall(c, [calls[c] EXCEPT !.stage = "failed"])
          /\ UNCHANGED pendingNight
  /\ UNCHANGED <<now, ledgerFee, registered, feeUnknown>>

\* Mutant: the booking is kept when a later step fails.
ReleaseOff(pending, c) == pending

\* A step after the booking fails: the booking is reverted and the error thrown
Release(pending, c) == pending \ calls[c].utxos
FailCall(c) ==
  /\ pendingNight' = Release(pendingNight, c)
  /\ SetCall(c, [calls[c] EXCEPT !.stage = "failed"])
  /\ UNCHANGED <<now, ledgerFee, registered, feeUnknown>>

\* RegistrationStep 3, attachDustRegistration; the ledger may throw
AttachDustRegistration(c) ==
  /\ CallAt(c, "rotated")
  /\ SetCall(c, [calls[c] EXCEPT !.stage = "attached", !.tx.registration = TRUE])
  /\ UNCHANGED <<now, ledgerFee, registered, pendingNight, feeUnknown>>
AttachFails(c) == CallAt(c, "rotated") /\ FailCall(c)

\* RegistrationStep 4: only a registration that an unregistered output pays for is checked
IsChecked(c) == calls[c].registration /\ calls[c].tx.guaranteed \ registered # {}

PassFeeCheck(c) ==
  /\ CallAt(c, "attached")
  /\ IsChecked(c) => calls[c].feePayment >= CalculateFee
  /\ SetCall(c, [calls[c] EXCEPT !.stage = "checked"])
  /\ UNCHANGED <<now, ledgerFee, registered, pendingNight, feeUnknown>>
RefusedForFee(c) ==
  /\ CallAt(c, "attached") /\ IsChecked(c) /\ calls[c].feePayment < CalculateFee
  /\ FailCall(c)
\* calculateFee needs the block data; when that fails nothing is reverted
FeeUnknown(c) ==
  /\ CallAt(c, "attached") /\ IsChecked(c)
  /\ feeUnknown' = TRUE
  /\ SetCall(c, [calls[c] EXCEPT !.stage = "failed"])
  /\ UNCHANGED <<now, ledgerFee, registered, pendingNight>>

\* RegistrationStep 5, signRecipe: the unshielded offers first, then the registration at
\* segment 1; the caller's signing function may throw at either.
SignableOffers(tx) == OffersOf(tx)
SignOffers(c) ==
  /\ CallAt(c, "checked")
  /\ SetCall(c, [calls[c] EXCEPT !.stage = "signed", !.tx.signed = SignableOffers(calls[c].tx)])
  /\ UNCHANGED <<now, ledgerFee, registered, pendingNight, feeUnknown>>
AddDustRegistrationSignature(c) ==
  /\ CallAt(c, "signed")
  /\ SetCall(c, [calls[c] EXCEPT !.stage = "done", !.tx.signed = @ \cup {"registration"}])
  /\ UNCHANGED <<now, ledgerFee, registered, pendingNight, feeUnknown>>
SigningFails(c) == (CallAt(c, "checked") \/ CallAt(c, "signed")) /\ FailCall(c)

RegistrationTick ==
  /\ now < MaxTicks
  /\ now' = now + 1
  /\ UNCHANGED <<ledgerFee, registered, pendingNight, calls, feeUnknown>>
\* New ledger parameters (external)
NewFee ==
  /\ \E f \in Fees : f # ledgerFee /\ ledgerFee' = f
  /\ UNCHANGED <<now, registered, pendingNight, calls, feeUnknown>>

RegistrationStep(c) ==
  \/ \E utxos \in SUBSET NightUtxos : StartWait(c, utxos)
  \/ WaitResolves(c) \/ WaitTimesOut(c)
  \/ \E utxos \in SUBSET NightUtxos, registration \in BOOLEAN : Split(c, utxos, registration)
  \/ RotateNight(c)
  \/ AttachDustRegistration(c) \/ AttachFails(c)
  \/ PassFeeCheck(c) \/ RefusedForFee(c) \/ FeeUnknown(c)
  \/ SignOffers(c) \/ AddDustRegistrationSignature(c) \/ SigningFails(c)

RegistrationNext == (\E c \in Calls : RegistrationStep(c)) \/ RegistrationTick \/ NewFee

RegistrationSpec == RegistrationInit /\ [][RegistrationNext]_regVars
-----------------------------------------------------------------------------
(* Properties *)

Waited(c) == calls[c].required > 0 /\ calls[c].stage \notin {"idle", "waiting", "waited", "failed"}

\* Having waited for the fee, a registration of outputs none of which is
\* registered yet pays that fee: the wait follows the quantity the split then
\* takes, and time only adds to it (DustWallet.ts:446-456, Transacting.ts:340-352).
WaitedMeansPaid ==
  \A c \in Calls : Waited(c) /\ calls[c].utxos \cap registered = {} =>
    calls[c].feePayment >= calls[c].required

Shape(tx) == <<Cardinality(tx.guaranteed), Cardinality(tx.fallible), tx.registration, tx.signed>>

\* What estimateRegistration priced, made in one go by the dust wallet alone, is
\* of the same shape as the transaction that the two wallets then make step by
\* step: the same inputs in each section, a registration, and every part signed
\* (index.ts:1182-1205 against 638-735).
EstimateIsBuilt ==
  \A c \in Calls : calls[c].stage = "done" /\ calls[c].required > 0 =>
    Shape(calls[c].tx) = Shape(calls[c].estimated)

Holding == {"rotated", "attached", "checked", "signed", "done"}

\* An output is booked exactly while one call, and only one, holds it on its way
\* to a transaction: whichever step fails gives back what its call booked and
\* nothing of another call's (index.ts:676-733).  Only a fee that cannot be
\* computed leaves a booking behind.
BookedByOneCall ==
  /\ \A c \in Calls : calls[c].stage \in Holding => calls[c].utxos \subseteq pendingNight
  /\ \A c, d \in Calls :
       c # d /\ calls[c].stage \in Holding /\ calls[d].stage \in Holding =>
         calls[c].utxos \cap calls[d].utxos = {}
  /\ ~feeUnknown => \A u \in pendingNight :
       \E c \in Calls : calls[c].stage \in Holding /\ u \in calls[c].utxos

\* Both halves of what estimateRegistration promises the caller who then waits
\* and registers: the fee it gives is that of the transaction that is made, and
\* once waited for it is paid.
EstimateHolds == WaitedMeansPaid /\ EstimateIsBuilt

\* Registrations are booked by one call and cost what was estimated.
RegistrationHolds == BookedByOneCall /\ EstimateHolds
=============================================================================
