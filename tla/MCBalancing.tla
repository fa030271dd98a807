---------------------------- MODULE MCBalancing ----------------------------
(* Instances of Balancing for TLC. *)
EXTENDS Balancing

CONSTANTS a1, a2, a3, b1, b2, f1, f2, f3

CoinTypes == [c \in Coins |-> IF c \in {a1, a2, a3} THEN "a" ELSE IF c \in {b1, b2} THEN "b" ELSE "fee"]

\* Two coins of type a have the same value, one fee coin is empty.
CoinValues ==
  [c \in Coins |-> CASE c \in {a1, a2} -> 2 [] c = a3 -> 3 [] c = b1 -> 1 [] c = b2 -> 4
                     [] c = f1 -> 0 [] c = f2 -> 2 [] OTHER -> 3]

Amounts == -8..3
OfAll(x, y, z) == [t \in Types |-> CASE t = "a" -> x [] t = "b" -> y [] OTHER -> z]

Section ==
  [initial |-> Zero, target |-> Zero, feeType |-> NoFee, inputFee |-> 0, outputFee |-> 0,
   byValue |-> FALSE, rounds |-> FALSE, baseFee |-> 0, spendFee |-> 0]

\* Sections of the shielded (guaranteed and fallible) and unshielded wallets;
\* a swap has targets.
Sections ==
  {[Section EXCEPT !.initial = OfAll(x, y, 0), !.target = OfAll(w, 0, 0), !.byValue = v] :
     x \in Amounts, y \in {-4, -2, 0, 2}, w \in {-2, 0, 1}, v \in BOOLEAN}

\* A caller that pays for inputs and outputs in the fee token.
PaidSections ==
  {[Section EXCEPT !.initial = OfAll(x, 0, z), !.feeType = "fee", !.inputFee = i, !.outputFee = o] :
     x \in {-4, -3, 0, 2}, z \in -4..2, i \in {0, 1}, o \in {0, 1}}

\* The dust wallet: transactions that need a fee and may pay some of it
\* already.  Merged with each other and with the dust intent they cost a little
\* less or more.
FeeRequests ==
  {[Section EXCEPT !.initial = OfAll(0, 0, paid - own), !.feeType = "fee", !.rounds = TRUE,
                   !.baseFee = own + change, !.spendFee = spend] :
     own \in 2..7, paid \in {0, 1, 3}, change \in {-2, 0, 1}, spend \in {0, 1}}

AllRequests == Sections \cup PaidSections \cup FeeRequests
=============================================================================
