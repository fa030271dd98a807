----------------------------- MODULE Encodings ------------------------------
(***************************************************************************)
(* The ways in which bytes leave a wallet: as text, when an address is     *)
(* handed to somebody (AddressFormat), and as numbers, when a key is made  *)
(* of a seed and written down (KeyDerivation).  Neither reads what the     *)
(* other keeps.                                                            *)
(***************************************************************************)
EXTENDS AddressFormat, KeyDerivation

EncodingsSpec == AddressSpec /\ KeysSpec

\* Every program derives the same keys from a seed, and reads the address another
\* one wrote as the reference implementation does.
EncodingsHold == AddressesHold /\ KeysHold
=============================================================================
