--------------------------- MODULE AddressFormat ---------------------------
(***************************************************************************)
(* Addresses and keys as Bech32m text: what a sender encodes for a network, *)
(* what a receiver makes of a text it was handed, and what the reference    *)
(* implementation of the specification makes of the same text.              *)
(*                                                                         *)
(* A text is the segments of its human-readable part and its payload.  A    *)
(* payload is a sequence of bytes, keys are KeyLength bytes long, network   *)
(* identifiers are known by the classes of their characters.  External:     *)
(* bech32m (checksums are right; the encoder lowers the human-readable      *)
(* part), the SCALE codec, the ledger's encryption secret key.              *)
(***************************************************************************)
EXTENDS Integers, Sequences

CONSTANTS
  Networks,    \* network identifiers an application is configured with
  CharsOf,     \* classes of the characters of a segment
  LowerCase,   \* a segment in lower case
  KeyLength,   \* bytes in a key
  Modulus,     \* of the scalar field
  MaxBytes,    \* bound: bytes in a payload
  Mainnet,     \* the identifier that is left out
  Foreign,     \* segments of texts that come from elsewhere
  NoText,      \* nothing was encoded or handed over yet
  Refused      \* an error was thrown

Bytes == {0, 1}
Payloads == UNION {[1..n -> Bytes] : n \in 0..MaxBytes}

\* Segments of human-readable parts.
Labels == DOMAIN CharsOf
TextRecords == [prefix : Seq(Labels), data : Payloads]

\* Texts are told from errors, and from no text.
ASSUME AddressAssumption ==
  /\ Mainnet \in Networks /\ Networks \subseteq Labels /\ "mn" \in Labels
  /\ Foreign \subseteq Seq(Labels) \ {<<>>}
  /\ KeyLength \in Nat \ {0} /\ Modulus \in Nat \ {0}
  /\ MaxBytes \in Nat /\ MaxBytes >= 2 * KeyLength
  /\ LowerCase[Mainnet] = Mainnet /\ \A n \in Networks : LowerCase[n] \in Networks
  /\ Refused \notin Payloads
  /\ {NoText, Refused} \cap TextRecords = {} /\ NoText # Refused

VARIABLES
  item,     \* what the sender encodes: its kind and its data
  network,  \* the sender's network
  text,     \* the text that is handed over
  sent,     \* the sender encoded it
  asked,    \* kind and network the receiver decodes for
  result,   \* what the receiver got
  expected  \* what the reference makes of the same text

addressVars == <<item, network, text, sent, asked, result, expected>>

-----------------------------------------------------------------------------
(* Data of each kind                                                       *)

Fixed == {"addr", "shield-cpk"}
Scalars == {"dust", "shield-esk"}
Kinds == Fixed \cup Scalars \cup {"shield-addr", "shield-epk"}

\* SCALE compact integers, little-endian (external).
ScaleDecode(bytes) ==
  LET value[k \in 0..Len(bytes)] ==
        IF k = 0 THEN 0 ELSE 2 * value[k - 1] + bytes[Len(bytes) - (k - 1)]
  IN value[Len(bytes)]

\* ShieldedCoinPublicKey and UnshieldedAddress take keys of their length only,
\* an encryption public key is taken as it is.
KeyOf(kind, data) == IF kind \in Fixed /\ Len(data) # KeyLength THEN Refused ELSE data

\* A scalar in its field; a secret key is read by the ledger, which refuses as much.
DustAddressOf(data) == IF ScaleDecode(data) >= Modulus THEN Refused ELSE data

\* The coin public key comes first, all the rest is the encryption public key.
ShieldedAddressOf(data) ==
  LET first == SubSeq(data, 1, IF Len(data) < KeyLength THEN Len(data) ELSE KeyLength)
  IN IF KeyOf("shield-cpk", first) = Refused THEN Refused ELSE data

\* dataFromBytes of each codec.
FromBytes(kind, data) ==
  IF kind \in Scalars THEN DustAddressOf(data)
  ELSE IF kind = "shield-addr" THEN ShieldedAddressOf(data)
  ELSE KeyOf(kind, data)

\* What an application can hold, encoded into bytes.
Items == {i \in [kind : Kinds, data : Payloads] : FromBytes(i.kind, i.data) # Refused}

-----------------------------------------------------------------------------
(* MidnightBech32m and its codecs                                          *)

\* /^[A-Za-z1-9-]+$/
ValidateSegment(s) == CharsOf[s] # {} /\ CharsOf[s] \subseteq {"letter", "capital", "digit", "hyphen"}

\* What the two parsers return.
Parsed ==
  [type : Labels \cup {"undefined"}, network : Labels, explicit : BOOLEAN, data : Payloads]
RefParsed == [type : Labels, network : Seq(Labels), data : Payloads]

\* The kinds are segments themselves, and a parsed text is not an error.
ASSUME KindsAssumption ==
  /\ Kinds \subseteq Labels /\ \A kind \in Kinds : ValidateSegment(kind)
  /\ Refused \notin Parsed /\ Refused \notin RefParsed

\* Mutant: mainnet has a segment like any other network.
AsTextOff(kind, n, data) == [prefix |-> <<"mn", kind, LowerCase[n]>>, data |-> data]

\* asString: the segment of mainnet is omitted.  The encoder lowers the prefix.
AsText(kind, n, data) ==
  [prefix |-> <<"mn", kind>> \o (IF n = Mainnet THEN <<>> ELSE <<LowerCase[n]>>), data |-> data]

\* A codec refuses to encode for a network with characters it does not allow.
EncodeFor(i, n) ==
  IF n # Mainnet /\ ~ValidateSegment(n) THEN Refused ELSE AsText(i.kind, n, i.data)

\* parse looks at three segments; without the third one the network is mainnet.
\* The identifier "mainnet" in a text is not the omitted one, and a type that
\* is undefined passes as if it were the word.
Parse(t) ==
  LET n == IF Len(t.prefix) >= 3 THEN t.prefix[3] ELSE Mainnet
      type == IF Len(t.prefix) >= 2 THEN t.prefix[2] ELSE "undefined"
  IN IF \/ t.prefix[1] # "mn"
        \/ ~ValidateSegment(type)
        \/ Len(t.prefix) >= 3 /\ ~ValidateSegment(n)
     THEN Refused
     ELSE [type |-> type, network |-> n, explicit |-> Len(t.prefix) >= 3, data |-> t.data]

\* createContext turns "mainnet" into the symbol that parse uses for no segment.
SameNetwork(r, n) == r.network = n /\ (n = Mainnet => ~r.explicit)

\* decode of a codec for the receiver's network.
Decode(kind, n, t) ==
  LET r == Parse(t)
  IN IF r = Refused \/ r.type # kind \/ ~SameNetwork(r, n) THEN Refused
     ELSE FromBytes(kind, r.data)

-----------------------------------------------------------------------------
(* The reference implementation                                            *)

\* MidnightBech32m.parse of the reference: no segment is no network.
RefParse(t) ==
  LET n == IF Len(t.prefix) >= 3 THEN <<t.prefix[3]>> ELSE <<>>
  IN IF t.prefix[1] = "mn" /\ Len(t.prefix) >= 2 /\ \A k \in 2..Len(t.prefix) :
          k <= 3 => ValidateSegment(t.prefix[k])
     THEN [type |-> t.prefix[2], network |-> n, data |-> t.data]
     ELSE Refused

\* Its codecs: a shielded address is two keys long, and there is none for an
\* encryption public key.
RefFromBytes(kind, data) ==
  IF \/ kind \in Fixed /\ Len(data) # KeyLength
     \/ kind = "shield-addr" /\ Len(data) # 2 * KeyLength
     \/ kind \in Scalars /\ ScaleDecode(data) >= Modulus
     \/ kind = "shield-epk"
  THEN Refused ELSE data

\* Its decode, for a context whose network is null on mainnet.
RefDecode(kind, n, t) ==
  LET r == RefParse(t)
  IN IF r # Refused /\ r.type = kind /\ r.network = (IF n = Mainnet THEN <<>> ELSE <<n>>)
     THEN RefFromBytes(kind, r.data) ELSE Refused

-----------------------------------------------------------------------------
AddressInit ==
  /\ item \in Items /\ network \in Networks
  /\ text = NoText /\ sent = FALSE
  /\ asked = <<>> /\ result = NoText /\ expected = NoText

\* The sender encodes what it holds for its network.
EncodeItem ==
  /\ text = NoText
  /\ text' = EncodeFor(item, network) /\ sent' = TRUE
  /\ UNCHANGED <<item, network, asked, result, expected>>

\* A text that was encoded by another program.
HandForeign(prefix) ==
  /\ text = NoText /\ network = Mainnet
  /\ text' = [prefix |-> prefix, data |-> item.data]
  /\ UNCHANGED <<item, network, sent, asked, result, expected>>

\* The receiver parses the text and decodes it.
DecodeText(kind, n) ==
  /\ text \notin {NoText, Refused} /\ asked = <<>>
  /\ asked' = <<kind, n>>
  /\ result' = Decode(kind, n, text)
  /\ expected' = RefDecode(kind, n, text)
  /\ UNCHANGED <<item, network, text, sent>>

AddressNext ==
  \/ EncodeItem
  \/ \E prefix \in Foreign : HandForeign(prefix)
  \/ \E kind \in Kinds, n \in Networks : DecodeText(kind, n)

AddressSpec == AddressInit /\ [][AddressNext]_addressVars

-----------------------------------------------------------------------------
(* Properties                                                              *)

\* A text comes back as what was encoded, on the network it was encoded for,
\* if that has no capitals: Bech32m has none (encode, parse, decode).
ComesBack ==
  sent /\ asked = <<item.kind, network>> /\ LowerCase[network] = network => result = item.data

\* Nobody reads a text as another kind, or on another network (decode).
ReadAsMeant ==
  sent /\ asked # <<>> /\ result # Refused => asked = <<item.kind, LowerCase[network]>>

\* What is decoded and what is refused is as in the reference implementation,
\* but for the length of a shielded address and for encryption public keys.
AsInReference ==
  asked # <<>> => \/ result = expected
                  \/ asked[1] = "shield-epk"
                  \/ asked[1] = "shield-addr" /\ Len(text.data) # 2 * KeyLength

AddressesHold == ComesBack /\ ReadAsMeant /\ AsInReference
=============================================================================
