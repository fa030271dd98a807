--------------------------- MODULE KeyDerivation ---------------------------
(***************************************************************************)
(* Keys out of a seed.  An application makes an HD wallet, selects an       *)
(* account and one role or several, derives keys at indexes, and clears the *)
(* wallet when it has what it needs.  The keys of Zswap and Dust are then   *)
(* sampled out of such a key: rounds of hashes fill a buffer, which is read *)
(* as a little-endian number modulo the field's prime and written down as a *)
(* vector for tests.                                                        *)
(*                                                                         *)
(* External: BIP32 (a key is known by its path; a seed that is too short or *)
(* too long has no root key) and the hash function, which returns anything. *)
(***************************************************************************)
EXTENDS Integers, Sequences, FiniteSets

CONSTANTS
  Roles,        \* role numbers an application may select
  PathNumbers,  \* accounts and indexes it may ask for
  Hardened,     \* HARDENED_OFFSET: child indexes are below
  MaxKeys,      \* bound: account and role keys an application holds
  MaxDerived,   \* bound: derivations
  HexDigit,     \* base of a hexadecimal digit; a byte has two of them
  HashBytes,    \* bytes in a digest
  Field,        \* bytes and modulus of the field of a secret key
  Margin,       \* bytes sampled on top
  NoKey         \* no wallet, no key

Byte == 0..(HexDigit * HexDigit - 1)

Wanted == Field.bytes + Margin

\* A number without its last digits, one after the other.
Shifted(scalar) ==
  LET rest[n \in 0..(2 * Wanted)] == IF n = 0 THEN scalar ELSE rest[n - 1] \div HexDigit
  IN rest

\* The largest element of a field is written with the bytes of the field.
ASSUME KeysAssumption ==
  /\ Roles \subseteq Int /\ PathNumbers \subseteq Int /\ Hardened \in Nat \ {0}
  /\ HexDigit \in Nat \ {0, 1} /\ HashBytes \in Nat \ {0} /\ Margin \in Nat
  /\ Field.bytes \in Nat \ {0} /\ Field.modulus \in Nat \ {0}
  /\ Shifted(Field.modulus - 1)[2 * Field.bytes] = 0

VARIABLES
  root,     \* the root key: none, live, wiped or refused
  keysHeld, \* account and role keys made from it, all of one reference
  derived,  \* what each derivation answered, and the root key it met
  round,    \* of sampleBytes
  digest,   \* what the hash function returned in each round
  buffer,   \* the bytes sampled so far
  secret    \* the key and its representation, once it is sampled

hdVars == <<root, keysHeld, derived>>
sampleVars == <<round, digest, buffer, secret>>
keyVars == <<hdVars, sampleVars>>

-----------------------------------------------------------------------------
(* The HD wallet                                                           *)

\* fromSeed never throws: what the library refuses is a result.
FromSeed ==
  /\ root = "none"
  /\ root' \in {"live", "refused"}
  /\ UNCHANGED <<keysHeld, derived, sampleVars>>

\* selectAccount, then selectRole or selectRoles.
Select(account, roles) ==
  /\ root \in {"live", "wiped"} /\ Cardinality(keysHeld) < MaxKeys
  /\ keysHeld' = keysHeld \cup {[account |-> account, roles |-> roles]}
  /\ UNCHANGED <<root, derived, sampleVars>>

\* clear wipes the private data of the root key.
Clear ==
  /\ root = "live"
  /\ root' = "wiped"
  /\ UNCHANGED <<keysHeld, derived, sampleVars>>

IsValidChildIndex(v) == 0 <= v /\ v < Hardened

OutOfBounds(account, role, index) ==
  \E v \in {account, role, index} : ~IsValidChildIndex(v)

\* A wiped root key cannot derive; the bounds are looked at first.
Throws(account, role, index) == root = "wiped" /\ ~OutOfBounds(account, role, index)

\* CompositeDerivationResult: the roles that failed, or a key for each role.
FromResults(account, roles, index) ==
  LET failed == {r \in roles : OutOfBounds(account, r, index)}
  IN IF failed # {} THEN [type |-> "keyOutOfBounds", keys |-> <<>>]
     ELSE [type |-> "keysDerived", keys |-> [r \in roles |-> <<account, r, index>>]]

\* deriveKeyAt and deriveKeysAt: one after the other, and a throw ends it.
DeriveKeysAt(k, index) ==
  LET answer == IF \E r \in k.roles : Throws(k.account, r, index)
                THEN [type |-> "thrown", keys |-> <<>>]
                ELSE FromResults(k.account, k.roles, index)
  IN /\ k \in keysHeld /\ Cardinality(derived) < MaxDerived
     /\ derived' = derived \cup {[of |-> k, index |-> index, answer |-> answer, root |-> root]}
     /\ UNCHANGED <<root, keysHeld, sampleVars>>

-----------------------------------------------------------------------------
(* Sampling a secret key                                                   *)

Rounds == (Wanted + HashBytes - 1) \div HashBytes

\* Buffer.copy at an offset: what does not fit is dropped.
CopyAt(target, segment, offset) ==
  [k \in DOMAIN target |->
     IF offset < k /\ k <= offset + Len(segment) THEN segment[k - offset] ELSE target[k]]

\* A round of sampleBytes.
SampleRound(segment) ==
  /\ round < Rounds
  /\ round' = round + 1
  /\ digest' = Append(digest, segment)
  /\ buffer' = CopyAt(buffer, segment, round * HashBytes)
  /\ UNCHANGED <<secret, hdVars>>

\* The bytes are reversed, and their digits are read from the left.
ToScalar(bytes) ==
  LET value[k \in 0..Len(bytes)] ==
        IF k = 0 THEN 0
        ELSE value[k - 1] * (HexDigit * HexDigit) + bytes[Len(bytes) - (k - 1)]
  IN value[Len(bytes)]

\* toString(16) takes the digits from the right and has no leading zeros ...
DigitCount(scalar) ==
  CHOOSE n \in 1..(2 * Wanted) :
    Shifted(scalar)[n] = 0 /\ \A m \in 1..(n - 1) : Shifted(scalar)[m] # 0

\* ... but padStart adds those of the field.  A byte is two digits from the
\* left, and the bytes are reversed.
FromScalar(scalar) ==
  LET length == IF DigitCount(scalar) < 2 * Field.bytes THEN 2 * Field.bytes ELSE DigitCount(scalar)
      Digit(i) == Shifted(scalar)[length - i] % HexDigit
      bytes == length \div 2
  IN [k \in 1..bytes |-> HexDigit * Digit(2 * (bytes - k) + 1) + Digit(2 * (bytes - k) + 2)]

Reduced(bytes) == ToScalar(bytes) % Field.modulus

\* sampleKey, and the vector made of the key.
SampleKey ==
  /\ round = Rounds /\ secret = NoKey
  /\ secret' = [key |-> Reduced(buffer), repr |-> FromScalar(Reduced(buffer))]
  /\ UNCHANGED <<round, digest, buffer, hdVars>>

-----------------------------------------------------------------------------
KeysInit ==
  /\ root = "none" /\ keysHeld = {} /\ derived = {}
  /\ round = 0 /\ digest = <<>> /\ buffer = [k \in 1..Wanted |-> 0] /\ secret = NoKey

KeysNext ==
  \/ FromSeed
  \/ \E account \in PathNumbers, roles \in (SUBSET Roles) \ {{}} : Select(account, roles)
  \/ Clear
  \/ \E k \in keysHeld, index \in PathNumbers : DeriveKeysAt(k, index)
  \/ \E segment \in [1..HashBytes -> Byte] : SampleRound(segment)
  \/ SampleKey

KeysSpec == KeysInit /\ [][KeysNext]_keyVars

-----------------------------------------------------------------------------
(* Properties                                                              *)

\* Once the wallet is cleared no key can be derived, not even with an account
\* or role key selected before (clear).
ClearedForGood ==
  \A d \in derived : d.root = "wiped" => d.answer.type # "keysDerived"

\* Asking for several roles gives exactly the keys that asking for each of them
\* gives, or none of them (deriveKeysAt).
RolesAgree ==
  \A one, many \in derived :
      /\ Cardinality(one.of.roles) = 1 /\ one.of.roles \subseteq many.of.roles
      /\ one.of.account = many.of.account /\ one.index = many.index /\ one.root = many.root
      => /\ one.answer.type = "keyOutOfBounds" => many.answer.type # "keysDerived"
         /\ many.answer.type = "keysDerived" =>
              \A r \in one.of.roles : one.answer.keys[r] = many.answer.keys[r]

\* Every byte of the buffer is of a digest, in order, and the secret key is the
\* whole of it as a number, below the modulus, and can be read back from its
\* representation, which is as long as the field says (sampleKey, fromScalar).
SampledRight ==
  secret # NoKey =>
    /\ \A k \in 1..Wanted :
         buffer[k] = digest[((k - 1) \div HashBytes) + 1][((k - 1) % HashBytes) + 1]
    /\ \E q \in 0..ToScalar(buffer) : q * Field.modulus + secret.key = ToScalar(buffer)
    /\ secret.key < Field.modulus
    /\ Len(secret.repr) = Field.bytes /\ ToScalar(secret.repr) = secret.key

KeysHold == ClearedForGood /\ RolesAgree /\ SampledRight
=============================================================================
