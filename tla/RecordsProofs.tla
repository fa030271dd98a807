---------------------------- MODULE RecordsProofs ----------------------------
(***************************************************************************)
(* Theorems about the records kept of transactions: the history storage    *)
(* (TxHistory) and the simulator (Simulator).                              *)
(***************************************************************************)
EXTENDS TxHistory, Simulator, SequenceTheorems, WellFoundedInduction, TLAPS

(* What stands in a sequence from which one element is removed.            *)
LEMMA RemoveAtFacts ==
  ASSUME NEW S, NEW s \in Seq(S), NEW i \in DOMAIN s
  PROVE  /\ RemoveAt(s, i) \in Seq(S)
         /\ \A j \in DOMAIN RemoveAt(s, i) : \E l \in DOMAIN s : l # i /\ RemoveAt(s, i)[j] = s[l]
         /\ \A l \in DOMAIN s : l # i => \E j \in DOMAIN RemoveAt(s, i) : RemoveAt(s, i)[j] = s[l]
<1> DEFINE a == SubSeq(s, 1, i - 1)
           b == SubSeq(s, i + 1, Len(s))
           n == Len(s)
<1>1. n \in Nat /\ i \in 1..n /\ DOMAIN s = 1..n
  OBVIOUS
<1>2. a \in Seq(S) /\ Len(a) = i - 1 /\ \A j \in 1..i - 1 : a[j] = s[j]
  <2>1. i - 1 \in Nat /\ i - 1 <= n
    BY <1>1
  <2>2. \A j \in 1..i - 1 : j \in 1..n
    BY <1>1
  <2>3. a \in Seq(S)
    BY <1>1, <2>1, <2>2, SubSeqProperties
  <2> QED BY <1>1, <2>1, <2>2, <2>3, SubSeqProperties
<1>3. b \in Seq(S) /\ Len(b) = n - i /\ \A j \in 1..n - i : b[j] = s[j + i]
  <2>1. i + 1 \in Nat /\ i + 1 \in 1..n + 1
    BY <1>1
  <2>2. b \in Seq(S) /\ Len(b) = n - i
    BY <1>1, <2>1, SubSeqProperties
  <2>3. ASSUME NEW j \in 1..n - i PROVE b[j] = s[j + i]
    <3>1. b[j] = s[i + 1 + j - 1]
      BY <1>1, <2>1, <2>2, SubSeqProperties
    <3>2. i + 1 + j - 1 = j + i
      BY <1>1
    <3> QED BY <3>1, <3>2
  <2> QED BY <2>2, <2>3
<1>4. RemoveAt(s, i) = a \o b
  BY DEF RemoveAt
<1> HIDE DEF a, b
<1>5. /\ a \o b \in Seq(S) /\ Len(a \o b) = n - 1
      /\ \A j \in 1..n - 1 : (a \o b)[j] = IF j <= i - 1 THEN a[j] ELSE b[j - (i - 1)]
  <2>1. /\ a \o b \in Seq(S) /\ Len(a \o b) = Len(a) + Len(b)
        /\ \A j \in 1..Len(a) + Len(b) : (a \o b)[j] = IF j <= Len(a) THEN a[j] ELSE b[j - Len(a)]
    BY <1>2, <1>3, ConcatProperties
  <2>2. (i - 1) + (n - i) = n - 1 /\ Len(a) = i - 1 /\ Len(b) = n - i
    BY <1>1, <1>2, <1>3
  <2> HIDE DEF n
  <2> QED BY <2>1, <2>2
<1> HIDE DEF n
<1>6. DOMAIN (a \o b) = 1..n - 1
  BY <1>1, <1>5
<1>7. \A j \in 1..n - 1 : (a \o b)[j] = IF j <= i - 1 THEN s[j] ELSE s[j + 1]
  <2> SUFFICES ASSUME NEW j \in 1..n - 1
               PROVE (a \o b)[j] = IF j <= i - 1 THEN s[j] ELSE s[j + 1]
    OBVIOUS
  <2>1. CASE j <= i - 1
    BY <1>1, <1>2, <1>5, <2>1
  <2>2. CASE ~(j <= i - 1)
    <3>1. j - (i - 1) \in 1..n - i /\ j - (i - 1) + i = j + 1
      BY <1>1, <2>2
    <3> QED BY <1>3, <1>5, <2>2, <3>1
  <2> QED BY <2>1, <2>2
<1>8. ASSUME NEW j \in 1..n - 1
      PROVE  \E l \in 1..n : l # i /\ (a \o b)[j] = s[l]
  <2>1. CASE j <= i - 1
    <3>1. j \in 1..n /\ j # i
      BY <1>1, <2>1
    <3> QED BY <1>7, <2>1, <3>1
  <2>2. CASE ~(j <= i - 1)
    <3>1. j + 1 \in 1..n /\ j + 1 # i
      BY <1>1, <2>2
    <3> QED BY <1>7, <2>2, <3>1
  <2> QED BY <2>1, <2>2
<1>9. ASSUME NEW l \in 1..n, l # i
      PROVE  \E j \in 1..n - 1 : (a \o b)[j] = s[l]
  <2>1. CASE l < i
    <3>1. l \in 1..n - 1 /\ l <= i - 1
      BY <1>1, <2>1
    <3> QED BY <1>7, <3>1
  <2>2. CASE l > i
    <3>1. l - 1 \in 1..n - 1 /\ ~(l - 1 <= i - 1) /\ l - 1 + 1 = l
      BY <1>1, <2>2
    <3> QED BY <1>7, <3>1
  <2>3. l < i \/ l > i
    BY <1>1, <1>9
  <2> QED BY <2>1, <2>2, <2>3
<1> QED BY <1>1, <1>4, <1>5, <1>6, <1>8, <1>9

(* A nonempty set of naturals has a least element.                         *)
LEMMA LeastExists ==
  ASSUME NEW T, T \subseteq Nat, T # {}
  PROVE  \E x \in T : \A y \in T : x <= y
<1>1. PICK x \in T : \A y \in T : ~(<<y, x>> \in OpToRel(<, Nat))
  BY NatLessThanWellFounded, WFMin
<1>2. \A y \in T : ~(y < x)
  BY <1>1 DEF OpToRel
<1> QED BY <1>2

-----------------------------------------------------------------------------
(* The storage                                                             *)

(* An entry tells of the transaction it is stored under.                   *)
Keyed(s) == \A i \in DOMAIN s : s[i].ids = s[i].key.ids

(* What a later version of an entry may not lose.                          *)
Retains(old, new) ==
  /\ new.key = old.key /\ old.sections \subseteq new.sections
  /\ old.status # None => new.status = old.status
  /\ old.fees => new.fees

(* The status of an entry after a write of e: the first that was given.    *)
StatusFrom(s, e, new) ==
  \/ new.status = e.status
  \/ \E i \in DOMAIN s : s[i].key = e.key /\ s[i].status # None /\ new.status = s[i].status

(* What e brings is in the entry it is merged into.                        *)
Brings(s, e, new) ==
  /\ new.key = e.key /\ new.ids = e.ids /\ new.lifecycle = e.lifecycle
  /\ e.sections \subseteq new.sections
  /\ e.fees => new.fees
  /\ StatusFrom(s, e, new)

LEMMA PieceWallet == \A p \in Pieces : p[1] \in {"shielded", "unshielded", "dust"}
  BY TxHistoryAssumption DEF Pieces

LEMMA MergeFacts ==
  ASSUME NEW x \in Entry, NEW e \in Entry,
         x.key = e.key, x.ids = x.key.ids, e.ids = e.key.ids
  PROVE  LET m == MergeEntries(x, e) IN
           /\ m \in Entry /\ m.key = e.key /\ m.ids = e.ids /\ m.lifecycle = e.lifecycle
           /\ m.sections = x.sections \cup e.sections
           /\ m.status = IF x.status = None THEN e.status ELSE x.status
           /\ m.fees <=> x.fees \/ e.fees
<1> DEFINE sections == MergeShielded(Section(x, "shielded"), Section(e, "shielded"))
                       \cup MergeUnshielded(Section(x, "unshielded"), Section(e, "unshielded"))
                       \cup MergeDust(Section(x, "dust"), Section(e, "dust"))
           status == IF x.status = None THEN e.status ELSE x.status
           fees == x.fees \/ e.fees
           m == MergeEntries(x, e)
<1>1. x.sections \in SUBSET Pieces /\ e.sections \in SUBSET Pieces
  BY DEF Entry
<1>2. sections = x.sections \cup e.sections
  <2>1. ASSUME NEW p, p \in x.sections, p[1] = "unshielded"
        PROVE  p \in MergeUnshielded(Section(x, "unshielded"), Section(e, "unshielded"))
    <3>1. p \in Section(x, "unshielded")
      BY <2>1 DEF Section
    <3>2. CASE Section(e, "unshielded") = {}
      BY <3>1, <3>2 DEF MergeUnshielded
    <3>3. CASE Section(e, "unshielded") # {}
      <4>1. PICK q \in e.sections : q[1] = "unshielded"
        BY <3>3 DEF Section
      <4>2. p \in Pieces /\ q \in Pieces
        BY <1>1, <2>1, <4>1
      <4>3. p = q
        BY <2>1, <4>1, <4>2, TxHistoryAssumption
      <4>4. p \in Section(e, "unshielded")
        BY <4>1, <4>3 DEF Section
      <4> QED BY <3>3, <4>4 DEF MergeUnshielded
    <3> QED BY <3>2, <3>3
  <2>2. \A p \in x.sections : p \in sections
    BY <1>1, <2>1, PieceWallet DEF MergeShielded, MergeDust, Section
  <2>3. ASSUME NEW p, p \in e.sections, p[1] = "unshielded"
        PROVE  p \in MergeUnshielded(Section(x, "unshielded"), Section(e, "unshielded"))
    BY <2>3 DEF MergeUnshielded, Section
  <2>4. \A p \in e.sections : p \in sections
    BY <1>1, <2>3, PieceWallet DEF MergeShielded, MergeDust, Section
  <2>5. sections \subseteq x.sections \cup e.sections
    BY DEF MergeShielded, MergeUnshielded, MergeDust, Section
  <2> HIDE DEF sections
  <2> QED BY <2>2, <2>4, <2>5
<1>3. sections \in SUBSET Pieces
  BY <1>1, <1>2
<1>4. status \in Statuses \cup {None} /\ fees \in BOOLEAN
  BY DEF Entry
<1>5. x.ids \cup e.ids = e.ids
  OBVIOUS
<1> HIDE DEF sections, status, fees
<1>6. m = [e EXCEPT !.ids = x.ids \cup e.ids, !.status = status, !.fees = fees,
                    !.sections = sections]
  BY DEF MergeEntries, sections, status, fees
<1>7. /\ m \in Entry /\ m.key = e.key /\ m.ids = e.ids /\ m.lifecycle = e.lifecycle
      /\ m.sections = sections /\ m.status = status /\ m.fees = fees
  BY <1>3, <1>4, <1>5, <1>6 DEF Entry
<1>8. m.fees <=> x.fees \/ e.fees
  BY <1>7 DEF fees
<1> HIDE DEF m
<1>9. /\ m \in Entry /\ m.key = e.key /\ m.ids = e.ids /\ m.lifecycle = e.lifecycle
      /\ m.sections = x.sections \cup e.sections
      /\ m.status = IF x.status = None THEN e.status ELSE x.status
      /\ m.fees <=> x.fees \/ e.fees
  BY <1>2, <1>7, <1>8 DEF status
<1> QED BY <1>9 DEF m

(* A write keeps every entry, at its place, and changes that of its key.   *)
LEMMA UpsertFacts ==
  ASSUME NEW s \in Seq(Entry), Keyed(s), NEW e \in Entry, e.ids = e.key.ids
  PROVE  LET u == Upsert(s, e) IN
           /\ u \in Seq(Entry) /\ Keyed(u)
           /\ \A i \in DOMAIN s : i \in DOMAIN u /\ Retains(s[i], u[i])
           /\ \E j \in DOMAIN u : Brings(s, e, u[j])
           /\ \A j \in DOMAIN u : u[j].key = e.key => Brings(s, e, u[j])
           /\ \A j \in DOMAIN u : u[j].key # e.key => j \in DOMAIN s /\ u[j] = s[j]
<1> DEFINE u == Upsert(s, e)
<1>1. CASE HasKey(s, e.key)
  <2>1. u = [i \in DOMAIN s |-> IF s[i].key = e.key THEN MergeEntries(s[i], e) ELSE s[i]]
    BY <1>1 DEF Upsert
  <2>2. \A i \in DOMAIN s : s[i] \in Entry /\ s[i].ids = s[i].key.ids
    BY DEF Keyed
  <2>3. \A i \in DOMAIN s : u[i] \in Entry
    BY <2>1, <2>2, MergeFacts
  <2>4. u \in Seq(Entry) /\ DOMAIN u = DOMAIN s
    BY <2>1, <2>3
  <2>5. ASSUME NEW i \in DOMAIN s, s[i].key = e.key
        PROVE  Brings(s, e, u[i]) /\ Retains(s[i], u[i]) /\ u[i].ids = u[i].key.ids
    <3>1. u[i] = MergeEntries(s[i], e)
      BY <2>1, <2>5
    <3>2. /\ u[i].key = e.key /\ u[i].ids = e.ids /\ u[i].lifecycle = e.lifecycle
          /\ u[i].sections = s[i].sections \cup e.sections
          /\ u[i].status = IF s[i].status = None THEN e.status ELSE s[i].status
          /\ u[i].fees <=> s[i].fees \/ e.fees
      BY <2>2, <2>5, <3>1, MergeFacts
    <3>3. StatusFrom(s, e, u[i])
      BY <2>5, <3>2 DEF StatusFrom
    <3> QED BY <2>5, <3>2, <3>3 DEF Brings, Retains
  <2>6. ASSUME NEW i \in DOMAIN s, s[i].key # e.key PROVE u[i] = s[i]
    BY <2>1, <2>6
  <2>7. PICK i \in DOMAIN s : s[i].key = e.key
    BY <1>1 DEF HasKey
  <2> HIDE DEF u
  <2>8. Keyed(u)
    BY <2>2, <2>4, <2>5, <2>6 DEF Keyed
  <2>9. \A j \in DOMAIN s : Retains(s[j], u[j])
    BY <2>5, <2>6 DEF Retains
  <2>10. \A j \in DOMAIN u : u[j].key = e.key => Brings(s, e, u[j])
    BY <2>4, <2>5, <2>6
  <2>11. \A j \in DOMAIN u : u[j].key # e.key => u[j] = s[j]
    BY <2>4, <2>5, <2>6 DEF Brings
  <2> QED BY <2>4, <2>5, <2>7, <2>8, <2>9, <2>10, <2>11 DEF u
<1>2. CASE ~HasKey(s, e.key)
  <2>1. u = Append(s, e)
    BY <1>2 DEF Upsert
  <2>2. /\ u \in Seq(Entry) /\ DOMAIN u = DOMAIN s \cup {Len(s) + 1}
        /\ Len(s) + 1 \notin DOMAIN s
        /\ \A i \in DOMAIN s : u[i] = s[i]
        /\ u[Len(s) + 1] = e
    BY <2>1
  <2>3. Brings(s, e, e)
    BY DEF Brings, StatusFrom
  <2>4. \A i \in DOMAIN s : s[i].key # e.key
    BY <1>2 DEF HasKey
  <2> HIDE DEF u
  <2>5. Keyed(u)
    BY <2>2 DEF Keyed
  <2>6. \A j \in DOMAIN s : Retains(s[j], u[j])
    BY <2>2 DEF Retains
  <2> QED BY <2>2, <2>3, <2>4, <2>5, <2>6 DEF u
<1> QED BY <1>1, <1>2


(* Clearing drops at most one entry, and only one that is superseded.      *)
LEMMA ClearFacts ==
  ASSUME NEW u \in Seq(Entry), Keyed(u), NEW ids, NEW k
  PROVE  LET c == ClearPendingByIdentifiers(u, ids, k) IN
           /\ c \in Seq(Entry) /\ Keyed(c)
           /\ \A i \in DOMAIN u : ~Superseded(u[i], ids, k) => \E j \in DOMAIN c : c[j] = u[i]
           /\ \A j \in DOMAIN c : \E i \in DOMAIN u : c[j] = u[i]
           /\ (\A i, j \in DOMAIN u :
                 Superseded(u[i], ids, k) /\ Superseded(u[j], ids, k) => i = j)
                => \A j \in DOMAIN c : ~Superseded(c[j], ids, k)
<1> DEFINE M == {i \in DOMAIN u : Superseded(u[i], ids, k)}
           c == ClearPendingByIdentifiers(u, ids, k)
<1>1. CASE M = {}
  <2>1. c = u
    BY <1>1 DEF ClearPendingByIdentifiers
  <2> QED BY <1>1, <2>1
<1>2. CASE M # {}
  <2> DEFINE first == CHOOSE i \in M : \A j \in M : i <= j
  <2>1. M \subseteq Nat
    OBVIOUS
  <2>2. \E i \in M : \A j \in M : i <= j
    BY <1>2, <2>1, LeastExists
  <2>3. first \in M
    BY <2>2
  <2>4. c = RemoveAt(u, first)
    BY <1>2 DEF ClearPendingByIdentifiers
  <2>5. first \in DOMAIN u /\ Superseded(u[first], ids, k)
    BY <2>3
  <2> HIDE DEF first, c
  <2>6. /\ c \in Seq(Entry)
        /\ \A j \in DOMAIN c : \E l \in DOMAIN u : l # first /\ c[j] = u[l]
        /\ \A l \in DOMAIN u : l # first => \E j \in DOMAIN c : c[j] = u[l]
    BY <2>4, <2>5, RemoveAtFacts
  <2>7. Keyed(c)
    BY <2>6 DEF Keyed
  <2>8. \A i \in DOMAIN u : ~Superseded(u[i], ids, k) => \E j \in DOMAIN c : c[j] = u[i]
    BY <2>5, <2>6
  <2>9. ASSUME \A i, j \in DOMAIN u :
                 Superseded(u[i], ids, k) /\ Superseded(u[j], ids, k) => i = j,
               NEW j \in DOMAIN c
        PROVE  ~Superseded(c[j], ids, k)
    BY <2>5, <2>6, <2>9
  <2> QED BY <2>6, <2>7, <2>8, <2>9 DEF c
<1> QED BY <1>1, <1>2

(* What the write of a wallet, or of a submission or revert, leaves.       *)
Written(s, new, e) ==
  /\ new \in Seq(Entry) /\ Keyed(new)
  /\ \A i \in DOMAIN s :
       \/ Superseded(s[i], e.ids, e.key)
       \/ \E j \in DOMAIN new : Retains(s[i], new[j])
  /\ \E j \in DOMAIN new : Brings(s, e, new[j])
  /\ \A j \in DOMAIN new : \/ new[j].key = e.key /\ Brings(s, e, new[j])
                           \/ \E i \in DOMAIN s : new[j] = s[i] /\ s[i].key # e.key

LEMMA UpsertWrites ==
  ASSUME NEW s \in Seq(Entry), Keyed(s), NEW e \in Entry, e.ids = e.key.ids
  PROVE  /\ Written(s, Upsert(s, e), e)
         /\ \A i \in DOMAIN s : \E j \in DOMAIN Upsert(s, e) : Retains(s[i], Upsert(s, e)[j])
<1> DEFINE u == Upsert(s, e)
<1>1. /\ u \in Seq(Entry) /\ Keyed(u)
      /\ \A i \in DOMAIN s : i \in DOMAIN u /\ Retains(s[i], u[i])
      /\ \E j \in DOMAIN u : Brings(s, e, u[j])
      /\ \A j \in DOMAIN u : u[j].key = e.key => Brings(s, e, u[j])
      /\ \A j \in DOMAIN u : u[j].key # e.key => j \in DOMAIN s /\ u[j] = s[j]
  BY UpsertFacts
<1> HIDE DEF u
<1>2. \A j \in DOMAIN u : \/ u[j].key = e.key /\ Brings(s, e, u[j])
                          \/ \E i \in DOMAIN s : u[j] = s[i] /\ s[i].key # e.key
  BY <1>1
<1>3. Written(s, u, e) /\ \A i \in DOMAIN s : \E j \in DOMAIN u : Retains(s[i], u[j])
  BY <1>1, <1>2 DEF Written
<1> QED BY <1>3 DEF u

LEMMA ConfirmationWrites ==
  ASSUME NEW s \in Seq(Entry), Keyed(s), NEW e \in Entry, e.ids = e.key.ids,
         e.lifecycle = "finalized"
  PROVE  LET new == ClearPendingByIdentifiers(Upsert(s, e), e.ids, e.key) IN
           /\ Written(s, new, e)
           /\ ~(\E i, j \in DOMAIN s : i # j /\ Superseded(s[i], e.ids, e.key)
                                              /\ Superseded(s[j], e.ids, e.key))
                => \A j \in DOMAIN new : ~Superseded(new[j], e.ids, e.key)
<1> DEFINE u == Upsert(s, e)
           new == ClearPendingByIdentifiers(u, e.ids, e.key)
<1>1. /\ u \in Seq(Entry) /\ Keyed(u)
      /\ \A i \in DOMAIN s : i \in DOMAIN u /\ Retains(s[i], u[i])
      /\ \E j \in DOMAIN u : Brings(s, e, u[j])
      /\ \A j \in DOMAIN u : u[j].key = e.key => Brings(s, e, u[j])
      /\ \A j \in DOMAIN u : u[j].key # e.key => j \in DOMAIN s /\ u[j] = s[j]
  BY UpsertFacts
<1> HIDE DEF u
<1>2. /\ new \in Seq(Entry) /\ Keyed(new)
      /\ \A i \in DOMAIN u : ~Superseded(u[i], e.ids, e.key) => \E j \in DOMAIN new : new[j] = u[i]
      /\ \A j \in DOMAIN new : \E i \in DOMAIN u : new[j] = u[i]
      /\ (\A i, j \in DOMAIN u :
            Superseded(u[i], e.ids, e.key) /\ Superseded(u[j], e.ids, e.key) => i = j)
           => \A j \in DOMAIN new : ~Superseded(new[j], e.ids, e.key)
  BY <1>1, ClearFacts
<1> HIDE DEF new
<1>3. \A j \in DOMAIN u : u[j].key = e.key => ~Superseded(u[j], e.ids, e.key)
  BY DEF Superseded
<1>4. ASSUME NEW i \in DOMAIN s, ~Superseded(s[i], e.ids, e.key)
      PROVE  \E j \in DOMAIN new : Retains(s[i], new[j])
  <2>1. ~Superseded(u[i], e.ids, e.key)
    BY <1>1, <1>3, <1>4
  <2> QED BY <1>1, <1>2, <2>1
<1>5. \E j \in DOMAIN new : Brings(s, e, new[j])
  <2>1. PICK j \in DOMAIN u : Brings(s, e, u[j])
    BY <1>1
  <2>2. u[j].key = e.key
    BY <2>1 DEF Brings
  <2> QED BY <1>2, <1>3, <2>1, <2>2
<1>6. \A j \in DOMAIN new : \/ new[j].key = e.key /\ Brings(s, e, new[j])
                            \/ \E i \in DOMAIN s : new[j] = s[i] /\ s[i].key # e.key
  BY <1>1, <1>2
<1>7. ASSUME \A i, j \in DOMAIN s : ~(i # j /\ Superseded(s[i], e.ids, e.key)
                                            /\ Superseded(s[j], e.ids, e.key)),
             NEW i \in DOMAIN u, NEW j \in DOMAIN u,
             Superseded(u[i], e.ids, e.key), Superseded(u[j], e.ids, e.key)
      PROVE  i = j
  <2>1. u[i].key # e.key /\ u[j].key # e.key
    BY <1>3, <1>7
  <2>2. i \in DOMAIN s /\ j \in DOMAIN s /\ u[i] = s[i] /\ u[j] = s[j]
    BY <1>1, <2>1
  <2> QED BY <1>7, <2>2
<1>8. ~(\E i, j \in DOMAIN s : i # j /\ Superseded(s[i], e.ids, e.key)
                                       /\ Superseded(s[j], e.ids, e.key))
        => \A j \in DOMAIN new : ~Superseded(new[j], e.ids, e.key)
  BY <1>2, <1>7
<1>9. Written(s, new, e)
  BY <1>2, <1>4, <1>5, <1>6 DEF Written
<1> QED BY <1>8, <1>9 DEF new, u


-----------------------------------------------------------------------------
(* Type correctness                                                        *)

(* What is written, or under way, is about transactions of the chain.      *)
OnChain == \A w \in todo \cup written : chain[w.tx] # None

SoundInv == TypeOK /\ Keyed(storage) /\ OnChain

LEMMA BareFacts ==
  ASSUME NEW k \in Key, NEW l \in {"pending", "finalized", "rejected"}
  PROVE  /\ Bare(k, l) \in Entry
         /\ Bare(k, l).key = k /\ Bare(k, l).ids = k.ids /\ Bare(k, l).lifecycle = l
         /\ Bare(k, l).status = None /\ Bare(k, l).fees = FALSE /\ Bare(k, l).sections = {}
  BY DEF Bare, Entry, Key

ChainKey(t) == [ids |-> t, form |-> "chain"]

(* The write of a wallet puts what the ledger gave under the chain's hash. *)
Confirms(w, e) ==
  /\ e \in Entry /\ e.key = ChainKey(w.tx) /\ e.ids = w.tx /\ e.lifecycle = "finalized"
  /\ e.status = chain[w.tx] /\ e.sections = {w.piece}
  /\ w.piece[1] = "dust" => e.fees
  /\ Put(w, e)

LEMMA ChainKeyFacts == \A t \in Txs : ChainKey(t) \in Key /\ ChainKey(t).ids = t
                                      /\ ChainKey(t).form = "chain"
  BY DEF ChainKey, Key, Forms

LEMMA PutConfirms ==
  ASSUME SoundInv, NEW w \in todo, PutShielded(w) \/ PutDust(w) \/ PutUnshielded(w)
  PROVE  \E e \in Entry : Confirms(w, e)
<1> DEFINE b == Bare(ChainKey(w.tx), "finalized")
<1>1. w.tx \in Txs /\ w.piece \in Pieces /\ chain[w.tx] \in Statuses
  BY DEF SoundInv, TypeOK, OnChain
<1>2. /\ b \in Entry /\ b.key = ChainKey(w.tx) /\ b.ids = w.tx /\ b.lifecycle = "finalized"
      /\ b.status = None /\ b.fees = FALSE /\ b.sections = {}
  <2>1. ChainKey(w.tx) \in Key /\ ChainKey(w.tx).ids = w.tx
    BY <1>1, ChainKeyFacts
  <2> QED BY <2>1, BareFacts
<1>3. Details(w.tx) = [b EXCEPT !.status = chain[w.tx]]
  BY <1>1 DEF Details, Statuses, ChainKey
<1>4. chain[w.tx] \in Statuses \cup {None} /\ {w.piece} \in SUBSET Pieces
  BY <1>1
<1>5. CASE PutShielded(w)
  <2>1. ShieldedInput(w) = [b EXCEPT !.status = chain[w.tx], !.sections = {w.piece}]
    BY <1>2, <1>3 DEF ShieldedInput, Entry
  <2> HIDE DEF b
  <2>2. /\ ShieldedInput(w) \in Entry /\ ShieldedInput(w).key = ChainKey(w.tx)
        /\ ShieldedInput(w).ids = w.tx /\ ShieldedInput(w).lifecycle = "finalized"
        /\ ShieldedInput(w).status = chain[w.tx] /\ ShieldedInput(w).sections = {w.piece}
    BY <1>2, <1>4, <2>1 DEF Entry
  <2>3. Put(w, ShieldedInput(w)) /\ w.piece[1] # "dust"
    BY <1>5 DEF PutShielded
  <2> QED BY <2>2, <2>3 DEF Confirms
<1>6. CASE PutDust(w)
  <2>1. /\ DustInput(w) = [b EXCEPT !.status = chain[w.tx], !.sections = {w.piece}, !.fees = TRUE]
        /\ DustInput(w).fees = TRUE
    BY <1>2, <1>3 DEF DustInput, Entry
  <2> HIDE DEF b
  <2>2. /\ DustInput(w) \in Entry /\ DustInput(w).key = ChainKey(w.tx)
        /\ DustInput(w).ids = w.tx /\ DustInput(w).lifecycle = "finalized"
        /\ DustInput(w).status = chain[w.tx] /\ DustInput(w).sections = {w.piece}
        /\ DustInput(w).fees
    BY <1>2, <1>4, <2>1 DEF Entry
  <2>3. Put(w, DustInput(w))
    BY <1>6 DEF PutDust
  <2> QED BY <2>2, <2>3 DEF Confirms
<1>7. CASE PutUnshielded(w)
  <2>1. UnshieldedInput(w) = [b EXCEPT !.status = chain[w.tx], !.sections = {w.piece}]
    BY DEF UnshieldedInput, ChainKey
  <2> HIDE DEF b
  <2>2. /\ UnshieldedInput(w) \in Entry /\ UnshieldedInput(w).key = ChainKey(w.tx)
        /\ UnshieldedInput(w).ids = w.tx /\ UnshieldedInput(w).lifecycle = "finalized"
        /\ UnshieldedInput(w).status = chain[w.tx] /\ UnshieldedInput(w).sections = {w.piece}
    BY <1>2, <1>4, <2>1 DEF Entry
  <2>3. Put(w, UnshieldedInput(w)) /\ w.piece[1] # "dust"
    BY <1>7 DEF PutUnshielded
  <2> QED BY <2>2, <2>3 DEF Confirms
<1> QED BY <1>5, <1>6, <1>7

(* The three kinds of writes.                                              *)
LEMMA PutWrites ==
  ASSUME SoundInv, NEW w, NEW e, Confirms(w, e)
  PROVE  /\ Written(storage, storage', e)
         /\ mishap' \/ \A j \in DOMAIN storage' : ~Superseded(storage'[j], e.ids, e.key)
<1>1. storage \in Seq(Entry) /\ Keyed(storage)
  BY DEF SoundInv, TypeOK
<1>2. e \in Entry /\ e.ids = e.key.ids /\ e.lifecycle = "finalized"
  BY DEF Confirms, ChainKey
<1>3. /\ storage' = ClearPendingByIdentifiers(Upsert(storage, e), e.ids, e.key)
      /\ mishap' = (mishap \/ OneOfSeveral(e))
  BY DEF Confirms, Put, GotFinalized
<1> QED BY <1>1, <1>2, <1>3, ConfirmationWrites DEF OneOfSeveral

CallKey(c) == [ids |-> c.tx, form |-> SubmitForm]
RevertKey(r) == [ids |-> r.tx, form |-> r.form]

LEMMA BareWrites ==
  ASSUME SoundInv, NEW k \in Key, NEW l \in {"pending", "rejected"},
         storage' = Upsert(storage, Bare(k, l))
  PROVE  /\ Written(storage, storage', Bare(k, l))
         /\ \A i \in DOMAIN storage : \E j \in DOMAIN storage' : Retains(storage[i], storage'[j])
<1>1. storage \in Seq(Entry) /\ Keyed(storage)
  BY DEF SoundInv, TypeOK
<1>2. Bare(k, l) \in Entry /\ Bare(k, l).ids = Bare(k, l).key.ids
  <2>1. l \in {"pending", "finalized", "rejected"}
    OBVIOUS
  <2>2. Bare(k, l) \in Entry /\ Bare(k, l).key = k /\ Bare(k, l).ids = k.ids
    BY <2>1, BareFacts
  <2> QED BY <2>2
<1> QED BY <1>1, <1>2, UpsertWrites

LEMMA RecordWrites ==
  ASSUME SoundInv, NEW c, Record(c)
  PROVE  /\ CallKey(c) \in Key /\ c.tx \in Txs
         /\ storage' = Upsert(storage, Bare(CallKey(c), "pending"))
         /\ recorded' = recorded \cup {CallKey(c)}
<1>1. c.tx \in Txs
  BY DEF SoundInv, TypeOK, Record
<1>2. CallKey(c) \in Key
  BY <1>1, TxHistoryAssumption DEF CallKey, Key, Forms
<1> QED BY <1>1, <1>2 DEF Record, GotPending, CallKey

LEMMA RejectWrites ==
  ASSUME SoundInv, NEW r, Reject(r)
  PROVE  /\ RevertKey(r) \in Key /\ r.tx \in Txs
         /\ storage' = Upsert(storage, Bare(RevertKey(r), "rejected"))
         /\ recorded' = recorded \cup {RevertKey(r)}
<1>1. r.tx \in Txs /\ r.form \in Forms
  BY DEF SoundInv, TypeOK, Reject
<1>2. RevertKey(r) \in Key
  BY <1>1 DEF RevertKey, Key
<1> QED BY <1>1, <1>2 DEF Reject, GotRejected, RevertKey


LEMMA PendingStays ==
  ASSUME TypeOK, NEW t \in Txs
  PROVE  /\ AddPending(t) => pending' \subseteq [tx: Txs, failed: BOOLEAN]
         /\ ClearPending(t) => pending' \subseteq pending
<1>1. [tx |-> t, failed |-> FALSE] \in [tx: Txs, failed: BOOLEAN]
  OBVIOUS
<1> QED BY <1>1 DEF AddPending, ClearPending, TypeOK

LEMMA SoundInit == Init => SoundInv
<1> SUFFICES ASSUME Init PROVE SoundInv
  OBVIOUS
<1>1. storage \in Seq(Entry)
  BY DEF Init
<1>2. [t \in Txs |-> None] \in [Txs -> Statuses \cup {None}]
  OBVIOUS
<1>3. TypeOK
  BY <1>1, <1>2 DEF Init, TypeOK
<1> QED BY <1>3 DEF Init, SoundInv, Keyed, OnChain

LEMMA SoundNext == SoundInv /\ [Next]_vars => SoundInv'
<1> SUFFICES ASSUME SoundInv, [Next]_vars PROVE SoundInv'
  OBVIOUS
<1> USE DEF SoundInv
<1>1. ASSUME NEW t \in Txs, Finalize(t) PROVE SoundInv'
  <2>1. pending' \subseteq [tx: Txs, failed: BOOLEAN]
    BY <1>1, PendingStays DEF Finalize
  <2> QED BY <1>1, <2>1 DEF Finalize, TypeOK, Keyed, OnChain
<1>2. ASSUME NEW t \in Txs, Submit(t) PROVE SoundInv'
  <2>1. pending' \subseteq [tx: Txs, failed: BOOLEAN]
    BY <1>2, PendingStays DEF Submit
  <2> QED BY <1>2, <2>1 DEF Submit, TypeOK, Keyed, OnChain
<1>3. ASSUME NEW t \in Txs, Include(t) PROVE SoundInv'
  <2>1. PICK o \in Outcomes, W \in SUBSET Wallets :
          /\ chain' = [chain EXCEPT ![t] = o]
          /\ todo' = todo \cup {[tx |-> t, piece |-> p] : p \in {q \in Pieces : q[1] \in W}}
    BY <1>3 DEF Include
  <2>2. o \in Statuses /\ o # None
    BY TxHistoryAssumption DEF Statuses, None
  <2>3. TypeOK'
    BY <1>3, <2>1, <2>2 DEF Include, TypeOK
  <2>4. OnChain'
    BY <1>3, <2>1, <2>2 DEF Include, OnChain, TypeOK
  <2> QED BY <1>3, <2>3, <2>4 DEF Include, Keyed
<1>4. ASSUME NEW t \in Txs, NEW form \in {SubmitForm, "unproven"}, UserRevert(t, form)
      PROVE  SoundInv'
  <2>1. form \in Forms
    BY TxHistoryAssumption DEF Forms
  <2> QED BY <1>4, <2>1 DEF UserRevert, Revert, TypeOK, Keyed, OnChain
<1>5. ASSUME NEW c \in calls, Record(c) PROVE SoundInv'
  <2>1. /\ CallKey(c) \in Key /\ storage' = Upsert(storage, Bare(CallKey(c), "pending"))
        /\ recorded' = recorded \cup {CallKey(c)}
    BY <1>5, RecordWrites
  <2>2. Written(storage, storage', Bare(CallKey(c), "pending"))
    BY <2>1, BareWrites
  <2>3. storage' \in Seq(Entry) /\ Keyed(storage')
    BY <2>2 DEF Written
  <2>4. calls' \subseteq [tx: Txs, step: {"record", "submit"}]
    BY <1>5 DEF Record, TypeOK
  <2> QED BY <1>5, <2>1, <2>3, <2>4 DEF Record, TypeOK, Keyed, OnChain
<1>6. ASSUME NEW c \in calls, Submitted(c) PROVE SoundInv'
  BY <1>6 DEF Submitted, TypeOK, Keyed, OnChain
<1>7. ASSUME NEW c \in calls, SubmissionFails(c) PROVE SoundInv'
  <2>1. SubmitForm \in Forms
    BY TxHistoryAssumption DEF Forms
  <2> QED BY <1>7, <2>1 DEF SubmissionFails, Revert, TypeOK, Keyed, OnChain
<1>8. ASSUME NEW i \in pending, AutoRevert(i) PROVE SoundInv'
  <2>1. SubmitForm \in Forms
    BY TxHistoryAssumption DEF Forms
  <2> QED BY <1>8, <2>1 DEF AutoRevert, Revert, TypeOK, Keyed, OnChain
<1>9. ASSUME NEW i \in pending, Verdict(i) PROVE SoundInv'
  <2>1. i.tx \in Txs /\ [i EXCEPT !.failed = TRUE] \in [tx: Txs, failed: BOOLEAN]
    BY DEF TypeOK
  <2>2. ClearPending(i.tx) => pending' \subseteq pending
    BY <2>1, PendingStays
  <2>3. pending' \subseteq [tx: Txs, failed: BOOLEAN]
    BY <1>9, <2>1, <2>2 DEF Verdict, TypeOK
  <2> QED BY <1>9, <2>3 DEF Verdict, TypeOK, Keyed, OnChain
<1>10. ASSUME NEW r \in reverts, ClearReverted(r) PROVE SoundInv'
  <2>1. r.tx \in Txs /\ [r EXCEPT !.step = "reject"] \in [tx: Txs, form: Forms, step: {"clear", "reject"}]
    BY DEF TypeOK
  <2>2. pending' \subseteq pending
    BY <1>10, <2>1, PendingStays DEF ClearReverted
  <2> QED BY <1>10, <2>1, <2>2 DEF ClearReverted, TypeOK, Keyed, OnChain
<1>11. ASSUME NEW r \in reverts, Reject(r) PROVE SoundInv'
  <2>1. /\ RevertKey(r) \in Key /\ storage' = Upsert(storage, Bare(RevertKey(r), "rejected"))
        /\ recorded' = recorded \cup {RevertKey(r)}
    BY <1>11, RejectWrites
  <2>2. Written(storage, storage', Bare(RevertKey(r), "rejected"))
    BY <2>1, BareWrites
  <2>3. storage' \in Seq(Entry) /\ Keyed(storage')
    BY <2>2 DEF Written
  <2> QED BY <1>11, <2>1, <2>3 DEF Reject, TypeOK, Keyed, OnChain
<1>12. ASSUME NEW w \in todo, PutShielded(w) \/ PutDust(w) \/ PutUnshielded(w) PROVE SoundInv'
  <2>1. PICK e \in Entry : Confirms(w, e)
    BY <1>12, PutConfirms
  <2>2. storage' \in Seq(Entry) /\ Keyed(storage')
    BY <2>1, PutWrites DEF Written
  <2>3. Put(w, e) /\ e.key \in Key
    BY <2>1 DEF Confirms, Entry
  <2> QED BY <2>2, <2>3 DEF Put, TypeOK, Keyed, OnChain
<1>13. ASSUME NEW w \in todo, GiveUp(w) PROVE SoundInv'
  BY <1>13 DEF GiveUp, TypeOK, Keyed, OnChain
<1>14. ASSUME Restart PROVE SoundInv'
  BY <1>14 DEF Restart, TypeOK, Keyed, OnChain
<1>15. ASSUME UNCHANGED vars PROVE SoundInv'
  BY <1>15 DEF vars, TypeOK, Keyed, OnChain
<1> QED
  BY <1>1, <1>2, <1>3, <1>4, <1>5, <1>6, <1>7, <1>8, <1>9, <1>10, <1>11, <1>12, <1>13, <1>14,
     <1>15 DEF Next

(* The history storage, the services beside it and the chain keep their    *)
(* types: an entry tells of the transaction whose key it has, whatever was *)
(* merged into it.                                                         *)
THEOREM HistoryTypeCorrect == Spec => [](TypeOK /\ Keyed(storage))
<1>1. SoundInv => TypeOK /\ Keyed(storage)
  BY DEF SoundInv
<1> QED BY SoundInit, SoundNext, <1>1, PTL DEF Spec


-----------------------------------------------------------------------------
(* No write loses a section, and nothing recorded is forgotten             *)

(* The status an entry tells of is the one the ledger gave.                *)
StatusTrue ==
  \A i \in DOMAIN storage :
    storage[i].status # None => storage[i].status = chain[storage[i].key.ids]

(* The ledger includes no two transactions with an identifier in common.   *)
Exclusive ==
  \A s, t \in Txs : chain[s] # None /\ chain[t] # None /\ s \cap t # {} => s = t

HistoryInv == SoundInv /\ StatusTrue /\ Exclusive /\ SectionsKept /\ NothingForgotten

(* Steps that leave storage, chain and what was written and recorded alone.*)
LEMMA HistoryUndisturbed ==
  ASSUME HistoryInv, UNCHANGED <<storage, chain, written, recorded>>
  PROVE  StatusTrue' /\ Exclusive' /\ SectionsKept' /\ NothingForgotten'
  BY DEF HistoryInv, StatusTrue, Exclusive, SectionsKept, NothingForgotten, HasKey

(* Confirmed still, for an entry that is kept or merged into.              *)
TellsOf(k, s) ==
  \/ \E i \in DOMAIN s : s[i].key = k
  \/ \E i \in DOMAIN s : /\ k.ids \subseteq s[i].key.ids
                         /\ s[i].key.form = "chain" /\ chain[s[i].key.ids] # None

HasSection(w, s) ==
  \E i \in DOMAIN s :
     /\ s[i].key = ChainKey(w.tx)
     /\ w.piece \in s[i].sections /\ s[i].status = chain[w.tx]
     /\ w.piece[1] = "dust" => s[i].fees

LEMMA PropertiesByEntry ==
  ASSUME SoundInv
  PROVE  /\ SectionsKept <=> \A w \in written : HasSection(w, storage)
         /\ NothingForgotten <=> \A h \in recorded : TellsOf(h, storage)
<1>1. \A i \in DOMAIN storage : storage[i].ids = storage[i].key.ids
  BY DEF SoundInv, Keyed
<1>2. SectionsKept <=> \A w \in written : HasSection(w, storage)
  BY DEF SectionsKept, HasSection, ChainKey
<1>3. NothingForgotten <=> \A h \in recorded : TellsOf(h, storage)
  BY <1>1 DEF NothingForgotten, TellsOf, HasKey
<1> QED BY <1>2, <1>3

(* A bare entry changes the lifecycle of an entry, and nothing else of it. *)
LEMMA BareKeeps ==
  ASSUME HistoryInv, SoundInv', NEW k \in Key, NEW l \in {"pending", "rejected"},
         storage' = Upsert(storage, Bare(k, l)), recorded' = recorded \cup {k},
         UNCHANGED <<chain, written>>
  PROVE  StatusTrue' /\ Exclusive' /\ SectionsKept' /\ NothingForgotten'
<1> DEFINE e == Bare(k, l)
<1>1. /\ Written(storage, storage', e)
      /\ \A i \in DOMAIN storage : \E j \in DOMAIN storage' : Retains(storage[i], storage'[j])
  BY BareWrites DEF HistoryInv
<1>2. e.key = k /\ e.status = None
  BY DEF Bare
<1> HIDE DEF e
<1>3. StatusTrue'
  <2> SUFFICES ASSUME NEW j \in DOMAIN storage', storage'[j].status # None
               PROVE  storage'[j].status = chain[storage'[j].key.ids]
    BY DEF StatusTrue
  <2>1. \/ storage'[j].key = e.key /\ Brings(storage, e, storage'[j])
        \/ \E i \in DOMAIN storage : storage'[j] = storage[i] /\ storage[i].key # e.key
    BY <1>1 DEF Written
  <2>2. CASE Brings(storage, e, storage'[j])
    <3>1. PICK i \in DOMAIN storage : /\ storage[i].key = e.key /\ storage[i].status # None
                                      /\ storage'[j].status = storage[i].status
      BY <1>2, <2>2 DEF Brings, StatusFrom
    <3> QED BY <2>2, <3>1 DEF Brings, HistoryInv, StatusTrue
  <2> QED BY <2>1, <2>2 DEF HistoryInv, StatusTrue
<1>4. SectionsKept'
  <2>1. ASSUME NEW w \in written PROVE HasSection(w, storage)'
    <3>1. PICK i \in DOMAIN storage :
            /\ storage[i].key = ChainKey(w.tx)
            /\ w.piece \in storage[i].sections /\ storage[i].status = chain[w.tx]
            /\ w.piece[1] = "dust" => storage[i].fees
      BY PropertiesByEntry DEF HistoryInv, HasSection
    <3>2. chain[w.tx] # None
      BY DEF HistoryInv, SoundInv, OnChain
    <3>3. PICK j \in DOMAIN storage' : Retains(storage[i], storage'[j])
      BY <1>1
    <3>4. /\ storage'[j].key = ChainKey(w.tx)
          /\ w.piece \in storage'[j].sections /\ storage'[j].status = chain[w.tx]
          /\ w.piece[1] = "dust" => storage'[j].fees
      BY <3>1, <3>2, <3>3 DEF Retains
    <3> QED BY <3>4 DEF HasSection, ChainKey
  <2> QED BY <2>1 DEF SectionsKept, HasSection, ChainKey
<1>5. NothingForgotten'
  <2>1. ASSUME NEW h \in recorded' PROVE TellsOf(h, storage)'
    <3>1. CASE h = k
      <4>1. PICK j \in DOMAIN storage' : Brings(storage, e, storage'[j])
        BY <1>1 DEF Written
      <4> QED BY <1>2, <3>1, <4>1 DEF Brings, TellsOf
    <3>2. CASE h \in recorded
      <4>1. TellsOf(h, storage)
        BY <3>2, PropertiesByEntry DEF HistoryInv
      <4>2. \A i \in DOMAIN storage : \E j \in DOMAIN storage' : storage'[j].key = storage[i].key
        BY <1>1 DEF Retains
      <4> QED BY <4>1, <4>2 DEF TellsOf
    <3> QED BY <3>1, <3>2
  <2>2. \A i \in DOMAIN storage' : storage'[i].ids = storage'[i].key.ids
    BY DEF SoundInv, Keyed
  <2> QED BY <2>1, <2>2 DEF NothingForgotten, TellsOf, HasKey
<1>6. Exclusive'
  BY DEF HistoryInv, Exclusive
<1> QED BY <1>3, <1>4, <1>5, <1>6


(* The write of a wallet clears only what is not confirmed by itself.      *)
LEMMA ConfirmationKeeps ==
  ASSUME HistoryInv, SoundInv', NEW w \in todo, NEW e \in Entry, Confirms(w, e)
  PROVE  StatusTrue' /\ Exclusive' /\ SectionsKept' /\ NothingForgotten'
<1>1. Written(storage, storage', e)
  BY PutWrites DEF HistoryInv
<1>2. /\ e.key = ChainKey(w.tx) /\ e.ids = w.tx /\ e.status = chain[w.tx]
      /\ e.sections = {w.piece}
      /\ w.piece[1] = "dust" => e.fees
  BY DEF Confirms
<1>3. /\ written' = written \cup {w} /\ recorded' = recorded \cup {e.key} /\ chain' = chain
  BY DEF Confirms, Put
<1>4. w.tx \in Txs /\ w.tx # {} /\ chain[w.tx] # None
  BY TxHistoryAssumption DEF HistoryInv, SoundInv, TypeOK, OnChain
<1>5. \A i \in DOMAIN storage : storage[i].ids = storage[i].key.ids
  BY DEF HistoryInv, SoundInv, Keyed
<1>6. StatusTrue'
  <2> SUFFICES ASSUME NEW j \in DOMAIN storage', storage'[j].status # None
               PROVE  storage'[j].status = chain[storage'[j].key.ids]
    BY <1>3 DEF StatusTrue
  <2>1. \/ storage'[j].key = e.key /\ Brings(storage, e, storage'[j])
        \/ \E i \in DOMAIN storage : storage'[j] = storage[i] /\ storage[i].key # e.key
    BY <1>1 DEF Written
  <2>2. CASE Brings(storage, e, storage'[j])
    <3>1. e.key.ids = w.tx
      BY <1>2 DEF ChainKey
    <3>2. CASE storage'[j].status = e.status
      BY <1>2, <2>2, <3>1, <3>2 DEF Brings
    <3>3. CASE \E i \in DOMAIN storage : /\ storage[i].key = e.key /\ storage[i].status # None
                                         /\ storage'[j].status = storage[i].status
      BY <2>2, <3>3 DEF Brings, HistoryInv, StatusTrue
    <3> QED BY <2>2, <3>2, <3>3 DEF Brings, StatusFrom
  <2> QED BY <2>1, <2>2 DEF HistoryInv, StatusTrue
<1>7. SectionsKept'
  <2>1. ASSUME NEW v \in written PROVE HasSection(v, storage)'
    <3>1. PICK i \in DOMAIN storage :
            /\ storage[i].key = ChainKey(v.tx)
            /\ v.piece \in storage[i].sections /\ storage[i].status = chain[v.tx]
            /\ v.piece[1] = "dust" => storage[i].fees
      BY PropertiesByEntry DEF HistoryInv, HasSection
    <3>2. chain[v.tx] # None /\ v.tx \in Txs /\ v.tx # {}
      BY TxHistoryAssumption DEF HistoryInv, SoundInv, TypeOK, OnChain
    <3>3. ~Superseded(storage[i], e.ids, e.key)
      <4> SUFFICES ASSUME v.tx \subseteq w.tx PROVE storage[i].key = e.key
        BY <1>2, <1>5, <3>1 DEF Superseded, ChainKey
      <4>1. v.tx \cap w.tx # {}
        BY <3>2
      <4>2. v.tx = w.tx
        BY <1>4, <3>2, <4>1 DEF HistoryInv, Exclusive
      <4> QED BY <1>2, <3>1, <4>2
    <3>4. PICK j \in DOMAIN storage' : Retains(storage[i], storage'[j])
      BY <1>1, <3>3 DEF Written
    <3>5. /\ storage'[j].key = ChainKey(v.tx)
          /\ v.piece \in storage'[j].sections /\ storage'[j].status = chain[v.tx]
          /\ v.piece[1] = "dust" => storage'[j].fees
      BY <3>1, <3>2, <3>4 DEF Retains
    <3> QED BY <1>3, <3>5 DEF HasSection, ChainKey
  <2>2. HasSection(w, storage)'
    <3>1. PICK j \in DOMAIN storage' : Brings(storage, e, storage'[j])
      BY <1>1 DEF Written
    <3>2. /\ storage'[j].key = ChainKey(w.tx) /\ w.piece \in storage'[j].sections
          /\ w.piece[1] = "dust" => storage'[j].fees
      BY <1>2, <3>1 DEF Brings
    <3>3. storage'[j].status = chain[w.tx]
      <4>1. storage'[j].status # None
        BY <1>2, <1>4, <3>1 DEF Brings, StatusFrom
      <4>2. storage'[j].key.ids = w.tx
        BY <3>2 DEF ChainKey
      <4> QED BY <1>3, <1>6, <4>1, <4>2 DEF StatusTrue
    <3> QED BY <1>3, <3>2, <3>3 DEF HasSection, ChainKey
  <2>3. \A v \in written' : HasSection(v, storage)'
    BY <1>3, <2>1, <2>2
  <2> QED BY <2>3 DEF SectionsKept, HasSection, ChainKey
<1>8. NothingForgotten'
  <2>1. PICK n \in DOMAIN storage' : Brings(storage, e, storage'[n])
    BY <1>1 DEF Written
  <2>2. /\ storage'[n].key = e.key /\ storage'[n].key.ids = w.tx /\ storage'[n].key.form = "chain"
        /\ chain'[storage'[n].key.ids] # None
    BY <1>2, <1>3, <1>4, <2>1 DEF Brings, ChainKey
  <2>3. \A i \in DOMAIN storage :
          \/ storage[i].key.ids \subseteq w.tx
          \/ \E j \in DOMAIN storage' : storage'[j].key = storage[i].key
    BY <1>1, <1>2, <1>5 DEF Written, Superseded, Retains
  <2>4. ASSUME NEW h \in recorded' PROVE TellsOf(h, storage)'
    <3>1. CASE h = e.key
      BY <2>2, <3>1 DEF TellsOf
    <3>2. CASE h \in recorded
      <4>1. PICK i \in DOMAIN storage :
              \/ storage[i].key = h
              \/ /\ h.ids \subseteq storage[i].key.ids
                 /\ storage[i].key.form = "chain" /\ chain[storage[i].key.ids] # None
        BY <3>2, PropertiesByEntry DEF HistoryInv, TellsOf
      <4>2. CASE storage[i].key.ids \subseteq w.tx
        <5>1. h.ids \subseteq w.tx
          BY <4>1, <4>2
        <5> QED BY <2>2, <5>1 DEF TellsOf
      <4>3. CASE \E j \in DOMAIN storage' : storage'[j].key = storage[i].key
        BY <1>3, <4>1, <4>3 DEF TellsOf
      <4> QED BY <2>3, <4>2, <4>3
    <3> QED BY <1>3, <3>1, <3>2
  <2>5. \A i \in DOMAIN storage' : storage'[i].ids = storage'[i].key.ids
    BY DEF SoundInv, Keyed
  <2> QED BY <2>4, <2>5 DEF NothingForgotten, TellsOf, HasKey
<1>9. Exclusive'
  BY <1>3 DEF HistoryInv, Exclusive
<1> QED BY <1>6, <1>7, <1>8, <1>9

(* What the ledger includes has fresh identifiers.                         *)
LEMMA IncludeKeeps ==
  ASSUME HistoryInv, SoundInv', NEW t \in Txs, Include(t)
  PROVE  StatusTrue' /\ Exclusive' /\ SectionsKept' /\ NothingForgotten'
<1>1. PICK o \in Outcomes : chain' = [chain EXCEPT ![t] = o]
  BY DEF Include
<1>2. UNCHANGED <<storage, written, recorded>> /\ chain[t] = None
      /\ \A s \in Txs : s \cap t # {} => chain[s] = None
  BY TxHistoryAssumption DEF Include
<1>3. \A s \in Txs : chain[s] # None => chain'[s] = chain[s]
  BY <1>1, <1>2 DEF HistoryInv, SoundInv, TypeOK
<1>4. \A i \in DOMAIN storage : storage[i].key.ids \in Txs
  <2>1. \A i \in DOMAIN storage : storage[i] \in Entry
    BY DEF HistoryInv, SoundInv, TypeOK
  <2> QED BY <2>1 DEF Entry, Key
<1>5. StatusTrue'
  <2> SUFFICES ASSUME NEW i \in DOMAIN storage, storage[i].status # None
               PROVE  storage[i].status = chain'[storage[i].key.ids]
    BY <1>2 DEF StatusTrue
  <2>1. storage[i].status = chain[storage[i].key.ids]
    BY DEF HistoryInv, StatusTrue
  <2> QED BY <1>3, <1>4, <2>1
<1>6. Exclusive'
  <2>1. \A s \in Txs : s # t => chain'[s] = chain[s]
    BY <1>1 DEF HistoryInv, SoundInv, TypeOK
  <2> QED BY <1>2, <2>1 DEF HistoryInv, Exclusive
<1>7. SectionsKept'
  <2>1. \A w \in written : chain'[w.tx] = chain[w.tx]
    BY <1>3 DEF HistoryInv, SoundInv, OnChain, TypeOK
  <2> QED BY <1>2, <2>1 DEF HistoryInv, SectionsKept
<1>8. NothingForgotten'
  <2>1. \A i \in DOMAIN storage : chain[storage[i].key.ids] # None
                                    => chain'[storage[i].key.ids] # None
    BY <1>3, <1>4
  <2> QED BY <1>2, <2>1 DEF HistoryInv, NothingForgotten, HasKey
<1> QED BY <1>5, <1>6, <1>7, <1>8

LEMMA HistoryNext == HistoryInv /\ [Next]_vars => HistoryInv'
<1> SUFFICES ASSUME HistoryInv, [Next]_vars
             PROVE  StatusTrue' /\ Exclusive' /\ SectionsKept' /\ NothingForgotten' /\ SoundInv'
  BY DEF HistoryInv
<1>1. SoundInv'
  BY SoundNext DEF HistoryInv
<1> DEFINE Goal == StatusTrue' /\ Exclusive' /\ SectionsKept' /\ NothingForgotten'
<1>2. ASSUME NEW t \in Txs, Include(t) PROVE Goal
  BY <1>1, <1>2, IncludeKeeps
<1>3. ASSUME NEW c \in calls, Record(c) PROVE Goal
  <2>1. /\ CallKey(c) \in Key /\ storage' = Upsert(storage, Bare(CallKey(c), "pending"))
        /\ recorded' = recorded \cup {CallKey(c)}
    BY <1>3, RecordWrites DEF HistoryInv
  <2>2. UNCHANGED <<chain, written>>
    BY <1>3 DEF Record
  <2> QED BY <1>1, <2>1, <2>2, BareKeeps
<1>4. ASSUME NEW r \in reverts, Reject(r) PROVE Goal
  <2>1. /\ RevertKey(r) \in Key /\ storage' = Upsert(storage, Bare(RevertKey(r), "rejected"))
        /\ recorded' = recorded \cup {RevertKey(r)}
    BY <1>4, RejectWrites DEF HistoryInv
  <2>2. UNCHANGED <<chain, written>>
    BY <1>4 DEF Reject
  <2> QED BY <1>1, <2>1, <2>2, BareKeeps
<1>5. ASSUME NEW w \in todo, PutShielded(w) \/ PutDust(w) \/ PutUnshielded(w) PROVE Goal
  <2>1. PICK e \in Entry : Confirms(w, e)
    BY <1>5, PutConfirms DEF HistoryInv
  <2> QED BY <1>1, <2>1, ConfirmationKeeps
<1>6. ASSUME \/ \E t \in Txs : Finalize(t) \/ Submit(t)
             \/ \E t \in Txs, form \in {SubmitForm, "unproven"} : UserRevert(t, form)
             \/ \E c \in calls : Submitted(c) \/ SubmissionFails(c)
             \/ \E i \in pending : AutoRevert(i) \/ Verdict(i)
             \/ \E r \in reverts : ClearReverted(r)
             \/ \E w \in todo : GiveUp(w)
             \/ Restart \/ UNCHANGED vars
      PROVE Goal
  <2>1. UNCHANGED <<storage, chain, written, recorded>>
    BY <1>6 DEF Finalize, Submit, UserRevert, Submitted, SubmissionFails, AutoRevert, Verdict,
                ClearReverted, GiveUp, Restart, vars
  <2> QED BY <2>1, HistoryUndisturbed
<1> QED BY <1>1, <1>2, <1>3, <1>4, <1>5, <1>6 DEF Next

(* What a wallet once wrote about a transaction stays in its entry, with   *)
(* the status the ledger gave, and what was recorded is told of for ever,  *)
(* whatever order the wallets and the facade write and clear entries in.   *)
THEOREM HistoryIsKept == Spec => []HistoryKept
<1>1. Init => HistoryInv
  <2> SUFFICES ASSUME Init PROVE HistoryInv
    OBVIOUS
  <2>1. SoundInv
    BY SoundInit
  <2>2. \A t \in Txs : chain[t] = None
    BY DEF Init
  <2> QED BY <2>1, <2>2 DEF Init, HistoryInv, StatusTrue, Exclusive, SectionsKept, NothingForgotten
<1>2. HistoryInv => HistoryKept
  BY DEF HistoryInv, HistoryKept
<1> QED BY <1>1, <1>2, HistoryNext, PTL DEF Spec


-----------------------------------------------------------------------------
(* An entry that says pending is followed up                               *)

(* What the ledger included, a wallet has written or is about to write.    *)
Noticed == \A t \in Txs : chain[t] # None => \E w \in todo \cup written : w.tx = t

(* A pending entry of what was included is about to be confirmed.          *)
AwaitsWrite ==
  \A k \in PendingKeys : \A t \in Txs :
    chain[t] # None /\ k.ids \subseteq t => \E w \in todo : w.tx = t

Tracked(k) ==
  \/ \E i \in pending : k.ids \subseteq i.tx
  \/ \E r \in reverts : r.tx = k.ids /\ r.form = k.form /\ r.step = "reject"
  \/ \E w \in todo : k.ids \subseteq w.tx

OpenInv == ~mishap => Noticed /\ AwaitsWrite /\ \A k \in PendingKeys : Tracked(k)

(* Steps that only add to what is waited for, reverted or written.         *)
LEMMA OpenUndisturbed ==
  ASSUME OpenInv, UNCHANGED <<storage, chain, written, todo, mishap>>, reverts \subseteq reverts',
         \A i \in pending : \E j \in pending' : i.tx \subseteq j.tx
  PROVE  OpenInv'
<1> SUFFICES ASSUME ~mishap PROVE Noticed' /\ AwaitsWrite' /\ \A k \in PendingKeys' : Tracked(k)'
  BY DEF OpenInv
<1>1. PendingKeys' = PendingKeys
  BY DEF PendingKeys
<1>2. \A k \in PendingKeys : Tracked(k)'
  BY DEF OpenInv, Tracked
<1> QED BY <1>1, <1>2 DEF OpenInv, Noticed, AwaitsWrite

LEMMA PendingAfter ==
  ASSUME NEW e, Written(storage, storage', e), NEW k \in PendingKeys'
  PROVE  \/ k = e.key /\ e.lifecycle = "pending"
         \/ k \in PendingKeys /\ k # e.key
<1>1. PICK j \in DOMAIN storage' : storage'[j].lifecycle = "pending" /\ storage'[j].key = k
  BY DEF PendingKeys
<1>2. \/ storage'[j].key = e.key /\ Brings(storage, e, storage'[j])
      \/ \E i \in DOMAIN storage : storage'[j] = storage[i] /\ storage[i].key # e.key
  BY DEF Written
<1>3. CASE Brings(storage, e, storage'[j])
  BY <1>1, <1>3 DEF Brings
<1>4. CASE \E i \in DOMAIN storage : storage'[j] = storage[i] /\ storage[i].key # e.key
  BY <1>1, <1>4 DEF PendingKeys
<1> QED BY <1>2, <1>3, <1>4

(* The pending entry of a submission: its item is there, and no wallet has *)
(* seen the transaction yet.                                               *)
LEMMA RecordOpen ==
  ASSUME SoundInv, OpenInv, NEW c, Record(c) PROVE OpenInv'
<1> SUFFICES ASSUME ~mishap' PROVE Noticed' /\ AwaitsWrite' /\ \A k \in PendingKeys' : Tracked(k)'
  BY DEF OpenInv
<1> DEFINE e == Bare(CallKey(c), "pending")
<1>1. Written(storage, storage', e) /\ e.key = CallKey(c) /\ CallKey(c).ids = c.tx
  BY RecordWrites, BareWrites DEF Bare, CallKey
<1> HIDE DEF e
<1>2. UNCHANGED <<pending, reverts, chain, todo, written>> /\ ~mishap /\ ~LateRecord(c.tx)
  BY DEF Record, SoundInv, TypeOK
<1>3. Noticed /\ AwaitsWrite /\ \A k \in PendingKeys : Tracked(k)
  BY <1>2 DEF OpenInv
<1>4. Noticed'
  BY <1>2, <1>3 DEF Noticed
<1>5. \A k \in PendingKeys' : k = CallKey(c) \/ k \in PendingKeys
  BY <1>1, PendingAfter
<1>6. (\E i \in pending : c.tx \subseteq i.tx) /\ \A w \in written : ~(c.tx \subseteq w.tx)
  BY <1>2 DEF LateRecord
<1>7. AwaitsWrite'
  <2> SUFFICES ASSUME NEW k \in PendingKeys', NEW t \in Txs, chain[t] # None, k.ids \subseteq t
               PROVE  \E w \in todo : w.tx = t
    BY <1>2 DEF AwaitsWrite
  <2>1. CASE k = CallKey(c)
    <3>1. PICK w \in todo \cup written : w.tx = t
      BY <1>3 DEF Noticed
    <3> QED BY <1>1, <1>6, <2>1, <3>1
  <2>2. CASE k \in PendingKeys
    BY <1>3, <2>2 DEF AwaitsWrite
  <2> QED BY <1>5, <2>1, <2>2
<1>8. ASSUME NEW k \in PendingKeys' PROVE Tracked(k)'
  <2>1. CASE k = CallKey(c)
    BY <1>1, <1>2, <1>6, <2>1 DEF Tracked
  <2>2. CASE k \in PendingKeys
    BY <1>2, <1>3, <2>2 DEF Tracked
  <2> QED BY <1>5, <2>1, <2>2
<1> QED BY <1>4, <1>7, <1>8

(* The rejection ends the one entry its revert tracked.                    *)
LEMMA RejectOpen ==
  ASSUME SoundInv, OpenInv, NEW r, Reject(r) PROVE OpenInv'
<1> SUFFICES ASSUME ~mishap' PROVE Noticed' /\ AwaitsWrite' /\ \A k \in PendingKeys' : Tracked(k)'
  BY DEF OpenInv
<1> DEFINE e == Bare(RevertKey(r), "rejected")
<1>1. Written(storage, storage', e) /\ e.key = RevertKey(r) /\ e.lifecycle = "rejected"
  BY RejectWrites, BareWrites DEF Bare
<1> HIDE DEF e
<1>2. UNCHANGED <<pending, chain, todo, written, mishap>> /\ reverts' = reverts \ {r} /\ ~mishap
  BY DEF Reject
<1>3. Noticed /\ AwaitsWrite /\ \A k \in PendingKeys : Tracked(k)
  BY <1>2 DEF OpenInv
<1>4. \A k \in PendingKeys' : k \in PendingKeys /\ k # RevertKey(r)
  BY <1>1, PendingAfter
<1>5. ASSUME NEW k \in PendingKeys' PROVE Tracked(k)'
  <2>1. k \in PendingKeys /\ k # RevertKey(r) /\ Tracked(k)
    BY <1>3, <1>4
  <2>2. k = [ids |-> k.ids, form |-> k.form]
    <3>1. \A i \in DOMAIN storage : storage[i].key \in Key
      <4>1. \A i \in DOMAIN storage : storage[i] \in Entry
        BY DEF SoundInv, TypeOK
      <4> QED BY <4>1 DEF Entry
    <3>2. k \in Key
      BY <2>1, <3>1 DEF PendingKeys
    <3> QED BY <3>2 DEF Key
  <2>3. ~(r.tx = k.ids /\ r.form = k.form)
    BY <2>1, <2>2 DEF RevertKey
  <2> QED BY <1>2, <2>1, <2>3 DEF Tracked
<1>6. Noticed' /\ AwaitsWrite'
  BY <1>2, <1>3, <1>4 DEF Noticed, AwaitsWrite
<1> QED BY <1>5, <1>6

(* The confirmation clears the pending entries the transaction contains.   *)
LEMMA ConfirmationOpen ==
  ASSUME SoundInv, SoundInv', OpenInv, NEW w \in todo, NEW e \in Entry, Confirms(w, e)
  PROVE  OpenInv'
<1> SUFFICES ASSUME ~mishap' PROVE Noticed' /\ AwaitsWrite' /\ \A k \in PendingKeys' : Tracked(k)'
  BY DEF OpenInv
<1>1. /\ Written(storage, storage', e)
      /\ \A j \in DOMAIN storage' : ~Superseded(storage'[j], e.ids, e.key)
  BY PutWrites
<1>2. e.lifecycle = "finalized" /\ e.ids = w.tx
  BY DEF Confirms
<1>3. /\ UNCHANGED <<pending, reverts, chain>> /\ ~mishap
      /\ todo' = todo \ {w} /\ written' = written \cup {w}
  BY DEF Confirms, Put, SoundInv, TypeOK
<1>4. Noticed /\ AwaitsWrite /\ \A k \in PendingKeys : Tracked(k)
  BY <1>3 DEF OpenInv
<1>5. ASSUME NEW k \in PendingKeys' PROVE k \in PendingKeys /\ ~(k.ids \subseteq w.tx)
  <2>1. k \in PendingKeys /\ k # e.key
    BY <1>1, <1>2, PendingAfter
  <2>2. PICK j \in DOMAIN storage' : storage'[j].lifecycle = "pending" /\ storage'[j].key = k
    BY DEF PendingKeys
  <2>3. storage'[j].ids = k.ids
    BY <2>2 DEF SoundInv, Keyed
  <2> QED BY <1>1, <1>2, <2>1, <2>2, <2>3 DEF Superseded
<1>6. Noticed'
  BY <1>3, <1>4 DEF Noticed
<1>7. AwaitsWrite'
  <2> SUFFICES ASSUME NEW k \in PendingKeys', NEW t \in Txs, chain[t] # None, k.ids \subseteq t
               PROVE  \E v \in todo' : v.tx = t
    BY <1>3 DEF AwaitsWrite
  <2>1. PICK v \in todo : v.tx = t
    BY <1>4, <1>5 DEF AwaitsWrite
  <2> QED BY <1>3, <1>5, <2>1
<1>8. \A k \in PendingKeys' : Tracked(k)'
  BY <1>3, <1>4, <1>5 DEF Tracked
<1> QED BY <1>6, <1>7, <1>8

LEMMA IncludeOpen ==
  ASSUME SoundInv, OpenInv, NEW t \in Txs, Include(t) PROVE OpenInv'
<1> SUFFICES ASSUME ~mishap PROVE Noticed' /\ AwaitsWrite' /\ \A k \in PendingKeys' : Tracked(k)'
  BY DEF OpenInv, Include
<1>1. PICK o \in Outcomes, W \in SUBSET Wallets :
        /\ W # {}
        /\ chain' = [chain EXCEPT ![t] = o]
        /\ todo' = todo \cup {[tx |-> t, piece |-> p] : p \in {q \in Pieces : q[1] \in W}}
  BY DEF Include
<1>2. UNCHANGED <<storage, pending, reverts, written>>
  BY DEF Include
<1>3. todo \subseteq todo' /\ \A s \in Txs : s # t => chain'[s] = chain[s]
  BY <1>1 DEF SoundInv, TypeOK
<1>4. \E w \in todo' : w.tx = t
  <2>1. PICK v \in W : v \in Wallets
    BY <1>1
  <2>2. PICK x \in Sections[v] : TRUE
    BY <2>1, TxHistoryAssumption
  <2>3. <<v, x>> \in {v} \X Sections[v]
    BY <2>2
  <2>4. <<v, x>> \in Pieces /\ <<v, x>>[1] \in W
    BY <2>1, <2>3 DEF Pieces
  <2>5. [tx |-> t, piece |-> <<v, x>>] \in todo'
    BY <1>1, <2>4
  <2> QED BY <2>5
<1>5. Noticed /\ AwaitsWrite /\ \A k \in PendingKeys : Tracked(k)
  BY DEF OpenInv
<1>6. PendingKeys' = PendingKeys
  BY <1>2 DEF PendingKeys
<1>7. Noticed'
  BY <1>2, <1>3, <1>4, <1>5 DEF Noticed
<1>8. AwaitsWrite'
  BY <1>3, <1>4, <1>5, <1>6 DEF AwaitsWrite
<1>9. \A k \in PendingKeys' : Tracked(k)'
  BY <1>2, <1>3, <1>5, <1>6 DEF Tracked
<1> QED BY <1>7, <1>8, <1>9

(* What a successful transaction contains is no longer waited for: its     *)
(* entries are about to be confirmed.                                      *)
LEMMA VerdictOpen ==
  ASSUME SoundInv, OpenInv, NEW i \in pending, Verdict(i) PROVE OpenInv'
<1> SUFFICES ASSUME ~mishap PROVE Noticed' /\ AwaitsWrite' /\ \A k \in PendingKeys' : Tracked(k)'
  BY DEF OpenInv, Verdict
<1>1. UNCHANGED <<storage, reverts, chain, todo, written>>
  BY DEF Verdict
<1>2. Noticed /\ AwaitsWrite /\ \A k \in PendingKeys : Tracked(k)
  BY DEF OpenInv
<1>3. PendingKeys' = PendingKeys
  BY <1>1 DEF PendingKeys
<1>4. CASE \E t \in Txs : i.tx \subseteq t /\ chain[t] # None /\ ClearPending(i.tx)
  <2>1. PICK t \in Txs : i.tx \subseteq t /\ chain[t] # None /\ ClearPending(i.tx)
    BY <1>4
  <2>2. ASSUME NEW k \in PendingKeys, NEW j \in pending, k.ids \subseteq j.tx, j \notin pending'
        PROVE  \E w \in todo : k.ids \subseteq w.tx
    <3>1. k.ids \subseteq t
      BY <2>1, <2>2 DEF ClearPending
    <3>2. PICK w \in todo : w.tx = t
      BY <1>2, <2>1, <3>1 DEF AwaitsWrite
    <3> QED BY <3>1, <3>2
  <2>3. \A k \in PendingKeys : Tracked(k)'
    BY <1>1, <1>2, <2>2 DEF Tracked
  <2> QED BY <1>1, <1>2, <1>3, <2>3 DEF Noticed, AwaitsWrite
<1>5. CASE pending' = (pending \ {i}) \cup {[i EXCEPT !.failed = TRUE]}
  <2>1. [i EXCEPT !.failed = TRUE].tx = i.tx
    BY DEF SoundInv, TypeOK
  <2>2. \A j \in pending : \E l \in pending' : j.tx \subseteq l.tx
    BY <1>5, <2>1
  <2> QED BY <1>1, <2>2, OpenUndisturbed DEF Verdict, OpenInv
<1> QED BY <1>4, <1>5 DEF Verdict, None

(* A revert clears the items of what it contains, and goes on to reject.   *)
LEMMA ClearOpen ==
  ASSUME SoundInv, OpenInv, NEW r \in reverts, ClearReverted(r) PROVE OpenInv'
<1> SUFFICES ASSUME ~mishap' PROVE Noticed' /\ AwaitsWrite' /\ \A k \in PendingKeys' : Tracked(k)'
  BY DEF OpenInv
<1>1. /\ UNCHANGED <<storage, chain, todo, written>> /\ ~mishap /\ ~LeftOver(r.tx, r.form)
      /\ r.step = "clear" /\ ClearPending(r.tx)
      /\ reverts' = (reverts \ {r}) \cup {[r EXCEPT !.step = "reject"]}
  BY DEF ClearReverted, SoundInv, TypeOK
<1>2. Noticed /\ AwaitsWrite /\ \A k \in PendingKeys : Tracked(k)
  BY <1>1 DEF OpenInv
<1>3. PendingKeys' = PendingKeys
  BY <1>1 DEF PendingKeys
<1>4. ASSUME NEW k \in PendingKeys, k.ids \subseteq r.tx
      PROVE  \E s \in reverts' : s.tx = k.ids /\ s.form = k.form /\ s.step = "reject"
  <2>1. PICK i \in DOMAIN storage : storage[i].lifecycle = "pending" /\ storage[i].key = k
    BY DEF PendingKeys
  <2>2. storage[i].ids = k.ids
    BY <2>1 DEF SoundInv, Keyed
  <2>3. k = [ids |-> r.tx, form |-> r.form]
    BY <1>1, <1>4, <2>1, <2>2 DEF LeftOver
  <2>4. /\ [r EXCEPT !.step = "reject"].tx = r.tx /\ [r EXCEPT !.step = "reject"].form = r.form
        /\ [r EXCEPT !.step = "reject"].step = "reject"
    BY DEF SoundInv, TypeOK
  <2> QED BY <1>1, <2>3, <2>4
<1>5. ASSUME NEW k \in PendingKeys PROVE Tracked(k)'
  <2>1. CASE k.ids \subseteq r.tx
    BY <1>4, <2>1 DEF Tracked
  <2>2. CASE ~(k.ids \subseteq r.tx)
    <3>1. \A i \in pending : k.ids \subseteq i.tx => i \in pending'
      BY <1>1, <2>2 DEF ClearPending
    <3>2. \A s \in reverts : s.step = "reject" => s \in reverts'
      BY <1>1
    <3> QED BY <1>1, <1>2, <3>1, <3>2 DEF Tracked
  <2> QED BY <2>1, <2>2
<1> QED BY <1>1, <1>2, <1>3, <1>5 DEF Noticed, AwaitsWrite

LEMMA OpenNext == SoundInv /\ OpenInv /\ [Next]_vars => OpenInv'
<1> SUFFICES ASSUME SoundInv, OpenInv, [Next]_vars PROVE OpenInv'
  OBVIOUS
<1>1. SoundInv'
  BY SoundNext
<1>2. ASSUME NEW t \in Txs, AddPending(t)
      PROVE  \A i \in pending : \E j \in pending' : i.tx \subseteq j.tx
  <2>1. CASE pending' = pending
    BY <2>1
  <2>2. CASE pending' = (pending \ {i \in pending : i.tx \subseteq t \/ t \subseteq i.tx})
                        \cup {[tx |-> t, failed |-> FALSE]}
             /\ ~\E i \in pending : t \subseteq i.tx
    <3>1. [tx |-> t, failed |-> FALSE] \in pending' /\ [tx |-> t, failed |-> FALSE].tx = t
      BY <2>2
    <3> QED BY <2>2, <3>1
  <2> QED BY <1>2, <2>1, <2>2 DEF AddPending
<1>3. ASSUME NEW t \in Txs, Finalize(t) \/ Submit(t) PROVE OpenInv'
  <2>1. \A i \in pending : \E j \in pending' : i.tx \subseteq j.tx
    BY <1>2, <1>3 DEF Finalize, Submit
  <2>2. UNCHANGED <<storage, chain, written, todo, mishap, reverts>>
    BY <1>3 DEF Finalize, Submit
  <2> QED BY <2>1, <2>2, OpenUndisturbed
<1>4. ASSUME NEW t \in Txs, Include(t) PROVE OpenInv'
  BY <1>4, IncludeOpen
<1>5. ASSUME \/ \E t \in Txs, form \in {SubmitForm, "unproven"} : UserRevert(t, form)
             \/ \E c \in calls : Submitted(c) \/ SubmissionFails(c)
             \/ \E i \in pending : AutoRevert(i)
             \/ UNCHANGED vars
      PROVE  OpenInv'
  <2>1. UNCHANGED <<storage, chain, written, todo, mishap, pending>> /\ reverts \subseteq reverts'
    BY <1>5 DEF UserRevert, Submitted, SubmissionFails, AutoRevert, Revert, vars
  <2>2. \A i \in pending : \E j \in pending' : i.tx \subseteq j.tx
    BY <2>1
  <2> QED BY <2>1, <2>2, OpenUndisturbed
<1>6. ASSUME NEW c \in calls, Record(c) PROVE OpenInv'
  BY <1>6, RecordOpen
<1>7. ASSUME NEW i \in pending, Verdict(i) PROVE OpenInv'
  BY <1>7, VerdictOpen
<1>8. ASSUME NEW r \in reverts, ClearReverted(r) PROVE OpenInv'
  BY <1>8, ClearOpen
<1>9. ASSUME NEW r \in reverts, Reject(r) PROVE OpenInv'
  BY <1>9, RejectOpen
<1>10. ASSUME NEW w \in todo, PutShielded(w) \/ PutDust(w) \/ PutUnshielded(w) PROVE OpenInv'
  <2>1. PICK e \in Entry : Confirms(w, e)
    BY <1>10, PutConfirms
  <2> QED BY <1>1, <2>1, ConfirmationOpen
<1>11. ASSUME (\E w \in todo : GiveUp(w)) \/ Restart PROVE OpenInv'
  BY <1>11 DEF GiveUp, Restart, OpenInv
<1> QED BY <1>3, <1>4, <1>5, <1>6, <1>7, <1>8, <1>9, <1>10, <1>11 DEF Next

(* No entry of the history says pending for good: its transaction is still *)
(* waited for, or about to be rejected or confirmed, unless it was one of  *)
(* several that were confirmed together, was reverted in another form, was *)
(* recorded after its verdict, lost its write or survived a restart.       *)
THEOREM OpenEntriesAreFollowed == Spec => []OpenIsTracked
<1>1. Init => SoundInv /\ OpenInv
  <2> SUFFICES ASSUME Init PROVE OpenInv
    BY SoundInit
  <2>1. PendingKeys = {}
    BY DEF Init, PendingKeys
  <2>2. \A t \in Txs : chain[t] = None
    BY DEF Init
  <2> QED BY <2>1, <2>2 DEF OpenInv, Noticed, AwaitsWrite
<1>2. OpenInv => OpenIsTracked
  BY DEF OpenInv, OpenIsTracked, Tracked
<1> QED BY <1>1, <1>2, SoundNext, OpenNext, PTL DEF Spec

-----------------------------------------------------------------------------
(* The simulator: types and the inductive invariant                        *)

(* The types of the simulator.                                             *)
Included == [tx : Outputs, result : {"success", "failure"}]
SimBlock == [number : Nat, txs : Seq(Included)]
LedgerState == [outputs : SUBSET Outputs, claimable : SUBSET Transactions, spent : SUBSET Outputs]
Waiting == [tx : Transactions, strictness : {"none", "genesis"}]
SimState == [ledger : LedgerState, blocks : Seq(SimBlock), mempool : Seq(Waiting), time : Nat]

SimTypeOK ==
  /\ published \in Seq(SimState) /\ published # <<>>
  /\ handled \in 0..Len(published) /\ producing \in BOOLEAN
  /\ caller \in [Transactions -> {"none", "waiting", "forgotten", "distributed", "included", "discarded"}]
  /\ answer \in [Transactions -> Nat]
  /\ discarded \subseteq Transactions
  /\ stream \in [Followers -> [at : {"off", "latest", "shared"}, next : Nat, seen : Nat]]
  /\ \A w \in Followers : stream[w].at # "off" => stream[w].next # 0
  /\ appliedIndex \in Nat /\ replayed \in Seq(Included)
  /\ utxos \in [available : SUBSET Outputs, pending : SUBSET Outputs]
  /\ rewound \in BOOLEAN /\ detours \in Nat

(* What is published later: blocks are only added, an output that is gone  *)
(* was spent, and one that was spent does not come back.                   *)
LaterLedger(l1, l2) ==
  /\ l1.spent \subseteq l2.spent
  /\ l1.outputs \ l2.outputs \subseteq l2.spent
  /\ l2.outputs \cap l1.spent \subseteq l1.outputs

MoreBlocks(s1, s2) ==
  /\ Len(s1.blocks) <= Len(s2.blocks)
  /\ \A b \in DOMAIN s1.blocks : s2.blocks[b] = s1.blocks[b]

Follows(s1, s2) == LaterLedger(s1.ledger, s2.ledger) /\ MoreBlocks(s1, s2)

Numbered(s) == s.blocks # <<>> /\ \A b \in DOMAIN s.blocks : s.blocks[b].number = b - 1

Orderly ==
  /\ \A i \in DOMAIN published : Numbered(published[i])
  /\ \A i, j \in DOMAIN published : i <= j => Follows(published[i], published[j])

(* A transaction is submitted once; it waits until it is in a block or     *)
(* until the producer gave up.                                             *)
WasSubmitted(t) == caller[t] \notin {"none", "distributed"}

Leaves(i, t) ==
  i + 1 \in DOMAIN published /\ InMempool(published[i], t) /\ ~InMempool(published[i + 1], t)

CallerOf(t) ==
  /\ ~WasSubmitted(t) => /\ t \notin discarded /\ BlocksWith(Latest, t) = {}
                         /\ \A i \in DOMAIN published : ~InMempool(published[i], t)
  /\ InMempool(Latest, t) => BlocksWith(Latest, t) = {} /\ t \notin discarded
  /\ WasSubmitted(t) => InMempool(Latest, t) \/ \E i \in DOMAIN published : Leaves(i, t)
  /\ \A i \in DOMAIN published : Leaves(i, t) =>
       BlocksWith(published[i + 1], t) # {} \/ (t \in discarded /\ BlocksWith(Latest, t) = {})
  /\ t \in discarded => ~producing
  /\ caller[t] = "distributed" => t \in Rewards /\ t \in Latest.ledger.claimable
  /\ caller[t] = "included" => answer[t] + 1 \in BlocksWith(Latest, t)
  /\ caller[t] = "discarded" => t \in discarded /\ BlocksWith(Latest, t) = {}

CallerInv == \A t \in Transactions : CallerOf(t)

(* The wallet that replays events is never given fewer blocks than it has  *)
(* replayed, unless it has seen as many.                                   *)
ReplayInv ==
  /\ appliedIndex <= Len(Latest.blocks)
  /\ stream["events"].at = "off" => stream["events"].seen = 0
  /\ stream["events"].at = "latest" => stream["events"].seen = appliedIndex
  /\ stream["events"].at = "shared" =>
       \A j \in DOMAIN published :
         j >= stream["events"].next /\ stream["events"].seen < Len(published[j].blocks)
           => appliedIndex <= Len(published[j].blocks)
  /\ replayed = Flat([i \in 1..appliedIndex |-> Latest.blocks[i].txs])

(* The unshielded wallet has the outputs of the state it was given last,   *)
(* and what a submitted transaction spends is booked or spent in it.       *)
HasOutputsOf(p) ==
  /\ p = 0 => utxos.available \cup utxos.pending = {}
  /\ p # 0 => utxos.available \cup utxos.pending = published[p].ledger.outputs
  /\ stream["unshielded"].at # "off" => p <= stream["unshielded"].next
  /\ \A t \in Transactions : WasSubmitted(t) =>
       \A u \in SpendsOf[t] :
         \/ u \in utxos.pending
         \/ p # 0 /\ u \in published[p].ledger.spent \ published[p].ledger.outputs

BookedInv ==
  ~rewound =>
    /\ utxos.available \cap utxos.pending = {}
    /\ \E p \in 0..Len(published) : HasOutputsOf(p)

-----------------------------------------------------------------------------
(* Blocks and lists                                                        *)

(* A set with 0 that has the next number with every number has them all.   *)
LEMMA UpTo ==
  ASSUME NEW n \in Nat, NEW T, 0 \in T, \A k \in 1..n : k - 1 \in T => k \in T
  PROVE  \A k \in 0..n : k \in T
<1> SUFFICES ASSUME {k \in 0..n : k \notin T} # {} PROVE FALSE
  OBVIOUS
<1> DEFINE U == {k \in 0..n : k \notin T}
<1>1. PICK x \in U : \A y \in U : x <= y
  <2>1. U \subseteq Nat /\ U # {}
    OBVIOUS
  <2> HIDE DEF U
  <2> QED BY <2>1, LeastExists
<1>2. x \in 1..n /\ x - 1 \in 0..n /\ ~(x <= x - 1)
  BY <1>1
<1>3. x - 1 \in T
  BY <1>1, <1>2
<1> QED BY <1>1, <1>2, <1>3

(* Flat goes through the lists one by one.                                 *)
LEMMA FlatSteps ==
  ASSUME NEW lists, Len(lists) \in Nat
  PROVE  \E f : /\ f[0] = <<>> /\ \A k \in 1..Len(lists) : f[k] = f[k - 1] \o lists[k]
                /\ Flat(lists) = f[Len(lists)]
<1> DEFINE Steps(f, n) == f = [k \in 0..n |-> IF k = 0 THEN <<>> ELSE f[k - 1] \o lists[k]]
           T == {n \in Nat : \E f : Steps(f, n)}
<1>1. 0 \in T
  <2> DEFINE g == [k \in 0..0 |-> <<>>]
  <2>1. Steps(g, 0)
    OBVIOUS
  <2> QED BY <2>1
<1>2. ASSUME NEW n \in 1..Len(lists), n - 1 \in T
      PROVE  n \in T
  <2>1. n \in Nat /\ n - 1 \in Nat
    OBVIOUS
  <2>2. PICK f : Steps(f, n - 1)
    BY <1>2
  <2> DEFINE g == [k \in 0..n |-> IF k = n THEN f[n - 1] \o lists[n] ELSE f[k]]
  <2>3. ASSUME NEW k \in 0..n
        PROVE  g[k] = IF k = 0 THEN <<>> ELSE g[k - 1] \o lists[k]
    <3>1. CASE k = n
      <4>1. n - 1 \in 0..n /\ n - 1 # n /\ n # 0
        BY <2>1
      <4> QED BY <3>1, <4>1
    <3>2. CASE k # n
      <4>1. k \in 0..(n - 1) /\ (k # 0 => k - 1 \in 0..n /\ k - 1 # n)
        BY <2>1, <3>2
      <4>2. f[k] = IF k = 0 THEN <<>> ELSE f[k - 1] \o lists[k]
        BY <2>2, <4>1
      <4> QED BY <3>2, <4>1, <4>2
    <3> QED BY <3>1, <3>2
  <2>4. Steps(g, n)
    <3> HIDE DEF g
    <3>1. g = [k \in 0..n |-> g[k]]
      BY DEF g
    <3> QED BY <2>3, <3>1
  <2> QED BY <2>1, <2>4
<1>3. \E f : Steps(f, Len(lists))
  <2> HIDE DEF T
  <2>1. \A n \in 0..Len(lists) : n \in T
    BY <1>1, <1>2, UpTo
  <2>2. Len(lists) \in T
    BY <2>1
  <2> QED BY <2>2 DEF T
<1> DEFINE upTo == CHOOSE f : Steps(f, Len(lists))
<1>4. Steps(upTo, Len(lists))
  BY <1>3
<1>5. Flat(lists) = upTo[Len(lists)]
  BY DEF Flat
<1> HIDE DEF upTo
<1>6. upTo[0] = <<>>
  <2>1. 0 \in 0..Len(lists)
    OBVIOUS
  <2> QED BY <1>4, <2>1
<1>7. ASSUME NEW k \in 1..Len(lists)
      PROVE  upTo[k] = upTo[k - 1] \o lists[k]
  <2>1. k \in 0..Len(lists) /\ k # 0
    OBVIOUS
  <2> QED BY <1>4, <2>1
<1> QED BY <1>5, <1>6, <1>7

(* Flat has the elements of the lists and no others.                       *)
LEMMA FlatFacts ==
  ASSUME NEW S, NEW lists \in Seq(Seq(S))
  PROVE  /\ Flat(lists) \in Seq(S)
         /\ \A j \in DOMAIN Flat(lists) :
              \E i \in DOMAIN lists : \E k \in DOMAIN lists[i] : Flat(lists)[j] = lists[i][k]
         /\ \A i \in DOMAIN lists : \A k \in DOMAIN lists[i] :
              \E j \in DOMAIN Flat(lists) : Flat(lists)[j] = lists[i][k]
<1> DEFINE n == Len(lists)
<1>1. n \in Nat /\ DOMAIN lists = 1..n
  OBVIOUS
<1>2. PICK f : /\ f[0] = <<>> /\ \A m \in 1..n : f[m] = f[m - 1] \o lists[m]
               /\ Flat(lists) = f[n]
  BY <1>1, FlatSteps
<1> HIDE DEF n
<1>3. f[0] = <<>> /\ \A m \in 1..n : f[m] = f[m - 1] \o lists[m]
  BY <1>2
<1> DEFINE P(m) == /\ f[m] \in Seq(S)
                   /\ \A j \in DOMAIN f[m] : \E i \in 1..m : \E k \in DOMAIN lists[i] : f[m][j] = lists[i][k]
                   /\ \A i \in 1..m : \A k \in DOMAIN lists[i] : \E j \in DOMAIN f[m] : f[m][j] = lists[i][k]
           T == {m \in 0..n : P(m)}
<1>4. 0 \in T
  <2>1. 0 \in 0..n /\ 1..0 = {}
    BY <1>1
  <2>2. f[0] \in Seq(S) /\ DOMAIN f[0] = {}
    BY <1>3
  <2> QED BY <2>1, <2>2
<1>5. ASSUME NEW m \in 1..n, m - 1 \in T
      PROVE  m \in T
  <2>1. m \in 0..n /\ m \in DOMAIN lists /\ m - 1 \in Nat /\ 1..m = (1..(m - 1)) \cup {m}
    BY <1>1
  <2>2. P(m - 1)
    BY <1>5
  <2> DEFINE a == f[m - 1]
             b == lists[m]
  <2>3. a \in Seq(S) /\ b \in Seq(S)
    BY <2>1, <2>2
  <2>4. f[m] = a \o b
    BY <1>3
  <2>p. /\ \A j \in DOMAIN a : \E i \in 1..(m - 1) : \E k \in DOMAIN lists[i] : a[j] = lists[i][k]
        /\ \A i \in 1..(m - 1) : \A k \in DOMAIN lists[i] : \E j \in DOMAIN a : a[j] = lists[i][k]
    BY <2>2
  <2>b. b = lists[m]
    OBVIOUS
  <2> HIDE DEF a, b
  <2>5. /\ a \o b \in Seq(S) /\ Len(a \o b) = Len(a) + Len(b)
        /\ \A j \in 1..(Len(a) + Len(b)) : (a \o b)[j] = IF j <= Len(a) THEN a[j] ELSE b[j - Len(a)]
    BY <2>3, ConcatProperties
  <2>6. ASSUME NEW j \in DOMAIN f[m]
        PROVE  \E i \in 1..m : \E k \in DOMAIN lists[i] : f[m][j] = lists[i][k]
    <3>1. j \in 1..(Len(a) + Len(b))
      BY <2>4, <2>5
    <3>2. CASE j <= Len(a)
      <4>1. j \in DOMAIN a /\ f[m][j] = a[j]
        BY <2>3, <2>4, <2>5, <3>1, <3>2
      <4>2. \E i \in 1..(m - 1) : \E k \in DOMAIN lists[i] : a[j] = lists[i][k]
        BY <2>p, <4>1
      <4> QED BY <2>1, <4>1, <4>2
    <3>3. CASE ~(j <= Len(a))
      <4>1. j - Len(a) \in DOMAIN b /\ f[m][j] = b[j - Len(a)]
        BY <2>3, <2>4, <2>5, <3>1, <3>3
      <4> QED BY <2>1, <2>b, <4>1
    <3> QED BY <3>2, <3>3
  <2>7. ASSUME NEW i \in 1..m, NEW k \in DOMAIN lists[i]
        PROVE  \E j \in DOMAIN f[m] : f[m][j] = lists[i][k]
    <3>1. CASE i # m
      <4>1. i \in 1..(m - 1)
        BY <2>1, <3>1
      <4>2. PICK j \in DOMAIN a : a[j] = lists[i][k]
        BY <2>p, <4>1
      <4>3. j \in 1..(Len(a) + Len(b)) /\ j <= Len(a)
        BY <2>3, <4>2
      <4> QED BY <2>4, <2>5, <4>2, <4>3
    <3>2. CASE i = m
      <4>1. k \in 1..Len(b)
        BY <2>3, <2>b, <3>2
      <4>2. k + Len(a) \in 1..(Len(a) + Len(b)) /\ ~(k + Len(a) <= Len(a)) /\ k + Len(a) - Len(a) = k
        BY <2>3, <4>1
      <4>3. PICK c : c = k + Len(a)
        OBVIOUS
      <4>4. c \in 1..(Len(a) + Len(b)) /\ ~(c <= Len(a)) /\ c - Len(a) = k
        <5>1. Len(a) \in Nat /\ Len(b) \in Nat
          BY <2>3
        <5> QED BY <4>1, <4>3, <5>1
      <4>5. c \in DOMAIN f[m] /\ f[m][c] = b[k]
        BY <2>4, <2>5, <4>4
      <4> QED BY <2>b, <3>2, <4>5
    <3> QED BY <3>1, <3>2
  <2> QED BY <2>1, <2>4, <2>5, <2>6, <2>7
<1>6. P(n)
  <2> HIDE DEF T
  <2>1. \A m \in 0..n : m \in T
    BY <1>1, <1>4, <1>5, UpTo
  <2> QED BY <1>1, <2>1 DEF T
<1>7. Flat(lists) = f[n]
  BY <1>2
<1> HIDE DEF n
<1>8. \A j \in DOMAIN Flat(lists) :
        \E i \in DOMAIN lists : \E k \in DOMAIN lists[i] : Flat(lists)[j] = lists[i][k]
  <2>1. \A j \in DOMAIN f[n] : \E i \in 1..n : \E k \in DOMAIN lists[i] : f[n][j] = lists[i][k]
    BY <1>6
  <2>2. ASSUME NEW j \in DOMAIN Flat(lists)
        PROVE  \E i \in DOMAIN lists : \E k \in DOMAIN lists[i] : Flat(lists)[j] = lists[i][k]
    <3>1. j \in DOMAIN f[n] /\ Flat(lists)[j] = f[n][j]
      BY <1>7
    <3>2. PICK i \in 1..n : \E k \in DOMAIN lists[i] : f[n][j] = lists[i][k]
      BY <2>1, <3>1
    <3> QED BY <1>1, <3>1, <3>2
  <2> QED BY <2>2
<1>9. \A i \in DOMAIN lists : \A k \in DOMAIN lists[i] :
        \E j \in DOMAIN Flat(lists) : Flat(lists)[j] = lists[i][k]
  BY <1>1, <1>6, <1>7
<1>10. Flat(lists) \in Seq(S)
  BY <1>6, <1>7
<1> QED BY <1>8, <1>9, <1>10

Cat(x, y) == x \o y

(* The provers reason about Cat better than about \o itself.               *)
LEMMA CatFacts ==
  ASSUME NEW S
  PROVE  /\ \A x, y \in Seq(S) : Cat(x, y) \in Seq(S)
         /\ \A x \in Seq(S) : Cat(x, <<>>) = x
<1>1. ASSUME NEW x \in Seq(S), NEW y \in Seq(S)
      PROVE  Cat(x, y) \in Seq(S)
  BY ConcatProperties DEF Cat
<1>2. ASSUME NEW x \in Seq(S)
      PROVE  Cat(x, <<>>) = x
  BY ConcatEmptySeq DEF Cat
<1> QED BY <1>1, <1>2

(* Three lists after each other, whichever two are put together first.     *)
LEMMA CatAssociative ==
  \A S : \A x, y, z : x \in Seq(S) /\ y \in Seq(S) /\ z \in Seq(S)
           => Cat(Cat(x, y), z) = Cat(x, Cat(y, z))
<1> TAKE S
<1> TAKE x, y, z
<1> HAVE x \in Seq(S) /\ y \in Seq(S) /\ z \in Seq(S)
<1> QED BY ConcatAssociative DEF Cat

(* Lists of which one half has the first m, and the other the rest.        *)
Splits(whole, first, rest, m, n) ==
  /\ m <= n /\ Len(first) = m /\ Len(rest) = n /\ Len(whole) = n
  /\ \A i \in 1..m : whole[i] = first[i] /\ rest[i] = <<>>
  /\ \A i \in 1..n : i > m => rest[i] = whole[i]

(* Then the halves after each other are the whole.                         *)
LEMMA FlatSplit ==
  ASSUME NEW S, NEW m \in Nat, NEW n \in Nat,
         NEW first \in Seq(Seq(S)), NEW rest \in Seq(Seq(S)), NEW whole \in Seq(Seq(S)),
         Splits(whole, first, rest, m, n)
  PROVE  Flat(whole) = Cat(Flat(first), Flat(rest))
<1> USE DEF Splits
<1>1. PICK f : /\ f[0] = <<>> /\ \A k \in 1..m : f[k] = Cat(f[k - 1], first[k])
               /\ Flat(first) = f[m]
  BY FlatSteps DEF Cat
<1>2. PICK g : /\ g[0] = <<>> /\ \A k \in 1..n : g[k] = Cat(g[k - 1], rest[k])
               /\ Flat(rest) = g[n]
  BY FlatSteps DEF Cat
<1>3. PICK h : /\ h[0] = <<>> /\ \A k \in 1..n : h[k] = Cat(h[k - 1], whole[k])
               /\ Flat(whole) = h[n]
  BY FlatSteps DEF Cat
<1>s. /\ \A x, y \in Seq(S) : Cat(x, y) \in Seq(S)
      /\ \A x \in Seq(S) : Cat(x, <<>>) = x
  BY CatFacts, Zenon
<1>4. <<>> \in Seq(S) /\ Cat(<<>>, <<>>) = <<>>
  <2>1. <<>> \in Seq(S)
    OBVIOUS
  <2> QED BY <1>s, <2>1, Zenon
<1> DEFINE T == {k \in 0..m : f[k] \in Seq(S) /\ h[k] = f[k] /\ g[k] = <<>>}
<1>5. \A k \in 0..m : k \in T
  <2>1. 0 \in T
    <3>1. 0 \in 0..m
      OBVIOUS
    <3> QED BY <1>1, <1>2, <1>3, <1>4, <3>1
  <2>2. ASSUME NEW k \in 1..m, k - 1 \in T
        PROVE  k \in T
    <3>1. k \in 0..m /\ k \in 1..n /\ first[k] \in Seq(S) /\ rest[k] = <<>> /\ whole[k] = first[k]
      OBVIOUS
    <3>2. f[k] = Cat(f[k - 1], first[k]) /\ h[k] = Cat(h[k - 1], whole[k]) /\ g[k] = Cat(g[k - 1], rest[k])
      BY <1>1, <1>2, <1>3, <3>1
    <3>3. f[k - 1] \in Seq(S) /\ h[k - 1] = f[k - 1] /\ g[k - 1] = <<>>
      BY <2>2
    <3>4. Cat(f[k - 1], first[k]) \in Seq(S)
      <4>1. PICK x, y : x = f[k - 1] /\ y = first[k]
        OBVIOUS
      <4>2. x \in Seq(S) /\ y \in Seq(S)
        BY <3>1, <3>3, <4>1
      <4>3. Cat(x, y) \in Seq(S)
        BY <1>s, <4>2, Zenon
      <4> QED BY <4>1, <4>3
    <3> QED BY <1>4, <3>1, <3>2, <3>3, <3>4
  <2> HIDE DEF T
  <2> QED BY <2>1, <2>2, UpTo
<1>6. f[m] \in Seq(S) /\ h[m] = f[m] /\ g[m] = <<>>
  <2>1. m \in T
    BY <1>5
  <2> QED BY <2>1
<1> DEFINE U == {k \in 0..(n - m) : g[m + k] \in Seq(S) /\ h[m + k] = Cat(f[m], g[m + k])}
<1>7. \A k \in 0..(n - m) : k \in U
  <2>1. 0 \in U
    <3>1. 0 \in 0..(n - m) /\ m + 0 = m
      OBVIOUS
    <3>2. Cat(f[m], <<>>) = f[m]
      BY <1>6, <1>s
    <3> QED BY <1>4, <1>6, <3>1, <3>2
  <2>2. ASSUME NEW k \in 1..(n - m), k - 1 \in U
        PROVE  k \in U
    <3> DEFINE i == m + k
    <3>1. i \in 1..n /\ i > m /\ i - 1 = m + (k - 1) /\ k \in 0..(n - m)
      OBVIOUS
    <3>2. g[i - 1] \in Seq(S) /\ h[i - 1] = Cat(f[m], g[i - 1])
      BY <2>2, <3>1
    <3>3. rest[i] \in Seq(S) /\ whole[i] = rest[i]
      BY <3>1
    <3>4. g[i] = Cat(g[i - 1], rest[i]) /\ h[i] = Cat(h[i - 1], whole[i])
      BY <1>2, <1>3, <3>1
    <3> HIDE DEF i
    <3>5. g[i] \in Seq(S) /\ h[i] = Cat(f[m], g[i])
      <4>1. PICK x, y, z : x = f[m] /\ y = g[i - 1] /\ z = rest[i]
        OBVIOUS
      <4>2. x \in Seq(S) /\ y \in Seq(S) /\ z \in Seq(S)
        BY <1>6, <3>2, <3>3, <4>1
      <4>3. Cat(y, z) \in Seq(S)
        BY <1>s, <4>2, Zenon
      <4>4. Cat(Cat(x, y), z) = Cat(x, Cat(y, z))
        BY <4>2, CatAssociative
      <4> QED BY <3>2, <3>3, <3>4, <4>1, <4>3, <4>4
    <3> QED BY <3>1, <3>5 DEF i
  <2>3. n - m \in Nat
    OBVIOUS
  <2> HIDE DEF U
  <2> QED BY <2>1, <2>2, <2>3, UpTo
<1>8. h[n] = Cat(f[m], g[n])
  <2>1. n - m \in 0..(n - m) /\ m + (n - m) = n
    OBVIOUS
  <2>2. n - m \in U
    BY <1>7, <2>1
  <2> QED BY <2>1, <2>2
<1> QED BY <1>1, <1>2, <1>3, <1>8 DEF Cat
-----------------------------------------------------------------------------
(* The ledger                                                              *)

(* Transactions are applied one by one.                                    *)
LEMMA ProcessSteps ==
  ASSUME NEW l, NEW r, NEW time, NEW early, Len(r) \in Nat
  PROVE  \E f : /\ f[0] = [ok |-> TRUE, ledger |-> l, txs |-> <<>>]
                /\ \A k \in 1..Len(r) : f[k] = ProcessTransaction(f[k - 1], r[k], time, early)
                /\ ProcessTransactions(l, r, time, early) = f[Len(r)]
<1> DEFINE fresh == [ok |-> TRUE, ledger |-> l, txs |-> <<>>]
           Steps(f, n) == f = [k \in 0..n |-> IF k = 0 THEN fresh
                                              ELSE ProcessTransaction(f[k - 1], r[k], time, early)]
           T == {n \in Nat : \E f : Steps(f, n)}
<1> HIDE DEF fresh
<1>1. 0 \in T
  <2> DEFINE g == [k \in 0..0 |-> fresh]
  <2>1. Steps(g, 0)
    OBVIOUS
  <2> QED BY <2>1
<1>2. ASSUME NEW n \in 1..Len(r), n - 1 \in T
      PROVE  n \in T
  <2>1. n \in Nat /\ n - 1 \in Nat
    OBVIOUS
  <2>2. PICK f : Steps(f, n - 1)
    BY <1>2
  <2> DEFINE g == [k \in 0..n |-> IF k = n THEN ProcessTransaction(f[n - 1], r[n], time, early) ELSE f[k]]
  <2>3. ASSUME NEW k \in 0..n
        PROVE  g[k] = IF k = 0 THEN fresh ELSE ProcessTransaction(g[k - 1], r[k], time, early)
    <3>1. CASE k = n
      <4>1. n - 1 \in 0..n /\ n - 1 # n /\ n # 0
        BY <2>1
      <4> QED BY <3>1, <4>1
    <3>2. CASE k # n
      <4>1. k \in 0..(n - 1) /\ (k # 0 => k - 1 \in 0..n /\ k - 1 # n)
        BY <2>1, <3>2
      <4>2. f[k] = IF k = 0 THEN fresh ELSE ProcessTransaction(f[k - 1], r[k], time, early)
        BY <2>2, <4>1
      <4> QED BY <3>2, <4>1, <4>2
    <3> QED BY <3>1, <3>2
  <2>4. Steps(g, n)
    <3> HIDE DEF g
    <3>1. g = [k \in 0..n |-> g[k]]
      BY DEF g
    <3> QED BY <2>3, <3>1
  <2> QED BY <2>1, <2>4
<1>3. \E f : Steps(f, Len(r))
  <2> HIDE DEF T
  <2>1. \A n \in 0..Len(r) : n \in T
    BY <1>1, <1>2, UpTo
  <2>2. Len(r) \in T
    BY <2>1
  <2> QED BY <2>2 DEF T
<1> DEFINE upTo == CHOOSE f : Steps(f, Len(r))
<1>4. Steps(upTo, Len(r))
  BY <1>3
<1>5. ProcessTransactions(l, r, time, early) = upTo[Len(r)]
  BY DEF ProcessTransactions, fresh
<1> HIDE DEF upTo
<1>6. upTo[0] = fresh
  <2>1. 0 \in 0..Len(r)
    OBVIOUS
  <2> QED BY <1>4, <2>1
<1>7. ASSUME NEW k \in 1..Len(r)
      PROVE  upTo[k] = ProcessTransaction(upTo[k - 1], r[k], time, early)
  <2>1. k \in 0..Len(r) /\ k # 0
    OBVIOUS
  <2> QED BY <1>4, <2>1
<1> QED BY <1>5, <1>6, <1>7 DEF fresh

(* A ledger is later than itself, and than all it is later than.           *)
LEMMA LaterOrder ==
  /\ \A l : LaterLedger(l, l)
  /\ \A l1, l2, l3 : LaterLedger(l1, l2) /\ LaterLedger(l2, l3) => LaterLedger(l1, l3)
BY DEF LaterLedger

(* What was applied: the ledger spends what was not spent yet, and claims  *)
(* only what was requested.                                                *)
Accumulator == [ok : BOOLEAN, ledger : LedgerState, txs : Seq(Included)]

AppliedTo(acc, ready, next) ==
  /\ next \in Accumulator
  /\ LaterLedger(acc.ledger, next.ledger)
  /\ acc.ledger.claimable \ {ready.tx} \subseteq next.ledger.claimable
  /\ next.ok => acc.ok /\ \E res \in {"success", "failure"} :
                            next.txs = Append(acc.txs, [tx |-> ready.tx, result |-> res])

(* What is said of one transaction holds of ProcessTransaction.            *)
LEMMA ProcessOne ==
  ASSUME NEW acc \in Accumulator, NEW ready, ready.tx \in Transactions, NEW time, NEW early,
         NEW next, next = ProcessTransaction(acc, ready, time, early)
  PROVE  AppliedTo(acc, ready, next)
<1> USE DEF AppliedTo
<1> DEFINE t == ready.tx
<1>1. acc.ledger \in LedgerState /\ acc.txs \in Seq(Included)
  BY DEF Accumulator
<1>2. t \in Outputs /\ SpendsOf[t] \in SUBSET Outputs
  BY SimulatorAssumption DEF Outputs
<1>3. ASSUME NEW res \in {"success", "failure"}
      PROVE  Append(acc.txs, [tx |-> t, result |-> res]) \in Seq(Included)
  <2>1. [tx |-> t, result |-> res] \in Included
    BY <1>2 DEF Included
  <2> QED BY <1>1, <2>1
<1>4. CASE ~acc.ok \/ Malformed(acc.ledger, ready, time, early)
  <2>1. next = [acc EXCEPT !.ok = FALSE]
    BY <1>4 DEF ProcessTransaction
  <2>2. next \in Accumulator /\ next.ledger = acc.ledger /\ ~next.ok
    BY <2>1 DEF Accumulator
  <2> QED BY <2>2, LaterOrder
<1>5. CASE ~(~acc.ok \/ Malformed(acc.ledger, ready, time, early)) /\ Conflicts(acc.ledger, t)
  <2>1. next = [acc EXCEPT !.txs = Append(@, [tx |-> t, result |-> "failure"])]
    BY <1>5 DEF ProcessTransaction
  <2>2. /\ next \in Accumulator /\ next.ledger = acc.ledger
        /\ next.txs = Append(acc.txs, [tx |-> t, result |-> "failure"])
    BY <1>3, <2>1 DEF Accumulator
  <2> QED BY <1>5, <2>2, LaterOrder
<1>6. CASE ~(~acc.ok \/ Malformed(acc.ledger, ready, time, early)) /\ ~Conflicts(acc.ledger, t)
  <2>1. next = [acc EXCEPT !.txs = Append(@, [tx |-> t, result |-> "success"]),
                           !.ledger = Spend(@, t)]
    BY <1>6 DEF ProcessTransaction
  <2>2. Spend(acc.ledger, t) \in LedgerState
    BY <1>1, <1>2 DEF Spend, LedgerState
  <2>3. /\ next \in Accumulator /\ next.ledger = Spend(acc.ledger, t)
        /\ next.txs = Append(acc.txs, [tx |-> t, result |-> "success"])
    BY <1>3, <2>1, <2>2 DEF Accumulator
  <2>4. LaterLedger(acc.ledger, Spend(acc.ledger, t))
    BY <1>6 DEF LaterLedger, Spend, Conflicts
  <2>5. acc.ledger.claimable \ {t} \subseteq Spend(acc.ledger, t).claimable
    BY DEF Spend
  <2> QED BY <1>6, <2>3, <2>4, <2>5
<1> QED BY <1>4, <1>5, <1>6

AllApplied(l, r, done) ==
  /\ done \in Accumulator
  /\ LaterLedger(l, done.ledger)
  /\ \A t \in l.claimable : (\A i \in 1..Len(r) : r[i].tx # t) => t \in done.ledger.claimable
  /\ done.ok => /\ Len(done.txs) = Len(r)
                /\ \A i \in 1..Len(r) : done.txs[i].tx = r[i].tx

(* The same of a request: every transaction of it is in the block.         *)
LEMMA ProcessFacts ==
  ASSUME NEW l \in LedgerState, NEW r, Len(r) \in Nat,
         \A i \in 1..Len(r) : r[i].tx \in Transactions, NEW time, NEW early
  PROVE  AllApplied(l, r, ProcessTransactions(l, r, time, early))
<1>1. PICK f : /\ f[0] = [ok |-> TRUE, ledger |-> l, txs |-> <<>>]
               /\ \A k \in 1..Len(r) : f[k] = ProcessTransaction(f[k - 1], r[k], time, early)
               /\ ProcessTransactions(l, r, time, early) = f[Len(r)]
  BY ProcessSteps
<1> DEFINE P(k) == /\ f[k] \in Accumulator
                   /\ LaterLedger(l, f[k].ledger)
                   /\ \A t \in l.claimable : (\A i \in 1..k : r[i].tx # t) => t \in f[k].ledger.claimable
                   /\ f[k].ok => Len(f[k].txs) = k /\ \A i \in 1..k : f[k].txs[i].tx = r[i].tx
           T == {k \in 0..Len(r) : P(k)}
<1>2. 0 \in T
  <2>1. 0 \in 0..Len(r) /\ 1..0 = {} /\ <<>> \in Seq(Included) /\ Len(<<>>) = 0
    OBVIOUS
  <2>2. f[0] \in Accumulator /\ f[0].ledger = l /\ f[0].txs = <<>>
    BY <1>1, <2>1 DEF Accumulator
  <2> QED BY <2>1, <2>2, LaterOrder
<1>3. ASSUME NEW k \in 1..Len(r), k - 1 \in T
      PROVE  k \in T
  <2>1. k \in 0..Len(r) /\ k - 1 \in Nat /\ 1..k = (1..(k - 1)) \cup {k} /\ (k - 1) + 1 = k
    OBVIOUS
  <2>2. P(k - 1)
    BY <1>3
  <2>3. f[k] = ProcessTransaction(f[k - 1], r[k], time, early) /\ r[k].tx \in Transactions
    BY <1>1
  <2> PICK a \in Accumulator : a = f[k - 1]
    BY <2>2
  <2> PICK q : q = r[k]
    OBVIOUS
  <2> PICK b : b = ProcessTransaction(a, q, time, early)
    OBVIOUS
  <2>4. b = f[k] /\ q.tx \in Transactions
    BY <2>3
  <2>5. /\ b \in Accumulator /\ LaterLedger(a.ledger, b.ledger)
        /\ a.ledger.claimable \ {q.tx} \subseteq b.ledger.claimable
        /\ b.ok => a.ok /\ \E res \in {"success", "failure"} :
                             b.txs = Append(a.txs, [tx |-> q.tx, result |-> res])
    <3>1. AppliedTo(a, q, b)
      BY <2>4, ProcessOne, Zenon
    <3> QED BY <3>1 DEF AppliedTo
  <2>6. LaterLedger(l, b.ledger)
    BY <2>2, <2>5, LaterOrder
  <2>7. \A t \in l.claimable : (\A i \in 1..k : r[i].tx # t) => t \in b.ledger.claimable
    BY <2>1, <2>2, <2>5
  <2>8. ASSUME b.ok
        PROVE  Len(b.txs) = k /\ \A i \in 1..k : b.txs[i].tx = r[i].tx
    <3>1. PICK res : b.txs = Append(a.txs, [tx |-> q.tx, result |-> res])
      BY <2>5, <2>8
    <3>2. /\ a.txs \in Seq(Included) /\ Len(a.txs) = k - 1
          /\ \A i \in 1..(k - 1) : a.txs[i].tx = r[i].tx
      BY <2>2, <2>5, <2>8 DEF Accumulator
    <3>3. Len(b.txs) = k
      BY <2>1, <3>1, <3>2
    <3>4. b.txs[k] = [tx |-> q.tx, result |-> res] /\ \A i \in 1..(k - 1) : b.txs[i] = a.txs[i]
      BY <2>1, <3>1, <3>2
    <3>5. ASSUME NEW i \in 1..k
          PROVE  b.txs[i].tx = r[i].tx
      <4>1. CASE i = k
        BY <3>4, <4>1
      <4>2. CASE i # k
        <5>1. i \in 1..(k - 1)
          BY <2>1, <4>2
        <5> QED BY <3>2, <3>4, <5>1
      <4> QED BY <4>1, <4>2
    <3> QED BY <3>3, <3>5
  <2>9. P(k)
    BY <2>4, <2>5, <2>6, <2>7, <2>8
  <2> QED BY <2>1, <2>9
<1>4. P(Len(r))
  <2> HIDE DEF T
  <2>1. \A k \in 0..Len(r) : k \in T
    BY <1>2, <1>3, UpTo
  <2>2. Len(r) \in T
    BY <2>1
  <2> QED BY <2>2 DEF T
<1> QED BY <1>1, <1>4 DEF AllApplied

-----------------------------------------------------------------------------
(* The published states                                                    *)

(* Publishing a state: it is the latest, the ones before stay.             *)
LEMMA PublishFacts ==
  ASSUME published \in Seq(SimState), published # <<>>, NEW s \in SimState, Publish(s)
  PROVE  /\ published' \in Seq(SimState) /\ published' # <<>>
         /\ Len(published') = Len(published) + 1 /\ Len(published) \in Nat \ {0}
         /\ DOMAIN published' = 1..(Len(published) + 1) /\ DOMAIN published = 1..Len(published)
         /\ \A i \in DOMAIN published : published'[i] = published[i]
         /\ published'[Len(published) + 1] = s
         /\ Latest' = s
<1> USE DEF Publish
<1>1. published' = Append(published, s) /\ Len(published) \in Nat /\ Len(published) # 0
  OBVIOUS
<1>2. /\ published' \in Seq(SimState) /\ Len(published') = Len(published) + 1
      /\ \A i \in 1..Len(published) : published'[i] = published[i]
      /\ published'[Len(published) + 1] = s
  BY <1>1
<1> QED BY <1>1, <1>2 DEF Latest

(* The published states and the latest of them.                            *)
LEMMA LatestFacts ==
  ASSUME published \in Seq(SimState), published # <<>>
  PROVE  /\ Len(published) \in Nat \ {0} /\ DOMAIN published = 1..Len(published)
         /\ Len(published) \in DOMAIN published /\ Latest = published[Len(published)]
         /\ Latest \in SimState
         /\ \A i \in DOMAIN published : published[i] \in SimState /\ i <= Len(published)
<1>1. Len(published) \in Nat \ {0} /\ DOMAIN published = 1..Len(published)
  OBVIOUS
<1> QED BY <1>1 DEF Latest

(* The parts of a state.                                                   *)
LEMMA StateFacts ==
  ASSUME NEW s \in SimState
  PROVE  /\ s.ledger \in LedgerState /\ s.blocks \in Seq(SimBlock) /\ s.mempool \in Seq(Waiting)
         /\ s.time \in Nat
         /\ Len(s.blocks) \in Nat /\ DOMAIN s.blocks = 1..Len(s.blocks)
         /\ \A b \in DOMAIN s.blocks : s.blocks[b].number \in Nat /\ s.blocks[b].txs \in Seq(Included)
<1>1. s.ledger \in LedgerState /\ s.blocks \in Seq(SimBlock) /\ s.mempool \in Seq(Waiting) /\ s.time \in Nat
  BY DEF SimState
<1>2. Len(s.blocks) \in Nat /\ DOMAIN s.blocks = 1..Len(s.blocks)
  BY <1>1
<1>3. \A b \in DOMAIN s.blocks : s.blocks[b] \in SimBlock
  BY <1>1
<1> QED BY <1>1, <1>2, <1>3 DEF SimBlock

(* A state follows itself, and what the one it follows does.               *)
LEMMA FollowsOrder ==
  /\ \A s \in SimState : Follows(s, s)
  /\ \A s1, s2, s3 \in SimState : Follows(s1, s2) /\ Follows(s2, s3) => Follows(s1, s3)
<1>1. ASSUME NEW s \in SimState
      PROVE  Follows(s, s)
  BY StateFacts, LaterOrder DEF Follows, MoreBlocks
<1>2. ASSUME NEW s1 \in SimState, NEW s2 \in SimState, NEW s3 \in SimState,
             Follows(s1, s2), Follows(s2, s3)
      PROVE  Follows(s1, s3)
  <2>1. LaterLedger(s1.ledger, s3.ledger)
    BY <1>2, LaterOrder DEF Follows
  <2>2. MoreBlocks(s1, s3)
    <3>1. MoreBlocks(s1, s2) /\ MoreBlocks(s2, s3)
      BY <1>2 DEF Follows
    <3>2. /\ Len(s1.blocks) \in Nat /\ Len(s2.blocks) \in Nat /\ Len(s3.blocks) \in Nat
          /\ DOMAIN s1.blocks = 1..Len(s1.blocks) /\ DOMAIN s2.blocks = 1..Len(s2.blocks)
      BY StateFacts
    <3>3. DOMAIN s1.blocks \subseteq DOMAIN s2.blocks
      BY <3>1, <3>2 DEF MoreBlocks
    <3> QED BY <3>1, <3>2, <3>3 DEF MoreBlocks
  <2> QED BY <2>1, <2>2 DEF Follows
<1> QED BY <1>1, <1>2

(* What is published stays in order when the new state follows the latest. *)
LEMMA OrderlyPublish ==
  ASSUME published \in Seq(SimState), published # <<>>, Orderly, NEW s \in SimState, Publish(s),
         Follows(Latest, s), Numbered(s)
  PROVE  Orderly'
<1> DEFINE n == Len(published)
<1>1. /\ n \in Nat \ {0} /\ DOMAIN published' = 1..(n + 1) /\ DOMAIN published = 1..n
      /\ \A i \in 1..n : published'[i] = published[i]
      /\ published'[n + 1] = s
  BY PublishFacts
<1>2. /\ Latest = published[n] /\ Latest \in SimState /\ \A i \in 1..n : published[i] \in SimState
      /\ n \in 1..n
  BY <1>1, LatestFacts
<1> HIDE DEF n
<1>3. \A i \in 1..(n + 1) : i \in 1..n \/ i = n + 1
  BY <1>1
<1>4. \A i \in DOMAIN published' : Numbered(published'[i])
  BY <1>1, <1>3 DEF Orderly
<1>5. ASSUME NEW i \in DOMAIN published', NEW j \in DOMAIN published', i <= j
      PROVE  Follows(published'[i], published'[j])
  <2>1. CASE j \in 1..n
    <3>1. i \in 1..n
      BY <1>1, <1>5, <2>1
    <3> QED BY <1>1, <1>5, <2>1, <3>1 DEF Orderly
  <2>2. CASE j = n + 1 /\ i \in 1..n
    <3>1. Follows(published[i], Latest)
      BY <1>1, <1>2, <2>2 DEF Orderly
    <3>2. Follows(published[i], s)
      BY <1>2, <2>2, <3>1, FollowsOrder
    <3> QED BY <1>1, <2>2, <3>2
  <2>3. CASE j = n + 1 /\ i = n + 1
    BY <1>1, <2>3, FollowsOrder
  <2> QED BY <1>1, <1>3, <1>5, <2>1, <2>2, <2>3
<1> QED BY <1>4, <1>5 DEF Orderly

-----------------------------------------------------------------------------
(* Requests and blocks                                                     *)

(* A list holds a transaction.                                             *)
Holds(list, t) == \E i \in DOMAIN list : list[i].tx = t

(* The mempool without a request has what the request does not hold.       *)
LEMMA WithoutFacts ==
  ASSUME NEW m \in Seq(Waiting), NEW r
  PROVE  /\ WithoutTxs(m, r) \in Seq(Waiting)
         /\ \A t : Holds(WithoutTxs(m, r), t) <=> Holds(m, t) /\ ~Holds(r, t)
<1> USE DEF Holds
<1> DEFINE lists == [i \in DOMAIN m |-> IF \A q \in DOMAIN r : r[q].tx # m[i].tx THEN <<m[i]>> ELSE <<>>]
<1>1. lists \in Seq(Seq(Waiting))
  <2>1. \A i \in DOMAIN m : <<m[i]>> \in Seq(Waiting) /\ <<>> \in Seq(Waiting)
    OBVIOUS
  <2>2. DOMAIN m = 1..Len(m) /\ Len(m) \in Nat
    OBVIOUS
  <2>3. \A i \in 1..Len(m) : (IF \A q \in DOMAIN r : r[q].tx # m[i].tx THEN <<m[i]>> ELSE <<>>) \in Seq(Waiting)
    BY <2>1, <2>2
  <2>4. lists \in [1..Len(m) -> Seq(Waiting)]
    BY <2>2, <2>3
  <2> HIDE DEF lists
  <2> QED BY <2>2, <2>4
<1>2. WithoutTxs(m, r) = Flat(lists) /\ DOMAIN lists = DOMAIN m
  BY DEF WithoutTxs
<1>3. \A i \in DOMAIN m :
        /\ (\A q \in DOMAIN r : r[q].tx # m[i].tx) => DOMAIN lists[i] = {1} /\ lists[i][1] = m[i]
        /\ ~(\A q \in DOMAIN r : r[q].tx # m[i].tx) => DOMAIN lists[i] = {}
  OBVIOUS
<1> HIDE DEF lists
<1>4. /\ Flat(lists) \in Seq(Waiting)
      /\ \A j \in DOMAIN Flat(lists) :
           \E i \in DOMAIN lists : \E k \in DOMAIN lists[i] : Flat(lists)[j] = lists[i][k]
      /\ \A i \in DOMAIN lists : \A k \in DOMAIN lists[i] :
           \E j \in DOMAIN Flat(lists) : Flat(lists)[j] = lists[i][k]
  BY <1>1, FlatFacts, Zenon
<1>5. ASSUME NEW t, NEW j \in DOMAIN Flat(lists), Flat(lists)[j].tx = t
      PROVE  (\E i \in DOMAIN m : m[i].tx = t) /\ \A q \in DOMAIN r : r[q].tx # t
  <2>1. PICK i \in DOMAIN lists : \E k \in DOMAIN lists[i] : Flat(lists)[j] = lists[i][k]
    BY <1>4
  <2>2. i \in DOMAIN m /\ Flat(lists)[j] = m[i] /\ \A q \in DOMAIN r : r[q].tx # m[i].tx
    BY <1>2, <1>3, <2>1
  <2> QED BY <1>5, <2>2
<1>6. ASSUME NEW t, NEW i \in DOMAIN m, m[i].tx = t, \A q \in DOMAIN r : r[q].tx # t
      PROVE  \E j \in DOMAIN Flat(lists) : Flat(lists)[j].tx = t
  <2>1. 1 \in DOMAIN lists[i] /\ lists[i][1] = m[i] /\ i \in DOMAIN lists
    BY <1>2, <1>3, <1>6
  <2>2. PICK j \in DOMAIN Flat(lists) : Flat(lists)[j] = lists[i][1]
    BY <1>4, <2>1
  <2> QED BY <1>6, <2>1, <2>2
<1> QED BY <1>2, <1>4, <1>5, <1>6

(* The request for a block: the transactions of the mempool, in order.     *)
LEMMA RequestFacts ==
  ASSUME NEW m \in Seq(Waiting)
  PROVE  LET r == AssignStrictness(m) IN
           /\ Len(r) \in Nat /\ Len(r) = Len(m) /\ DOMAIN r = 1..Len(r) /\ DOMAIN r = DOMAIN m
           /\ \A i \in DOMAIN r : r[i].tx = m[i].tx /\ r[i].tx \in Transactions
<1> DEFINE r == AssignStrictness(m)
           Ready == [tx : Transactions, strictness : {"default", "genesis"}]
<1>1. DOMAIN m = 1..Len(m) /\ Len(m) \in Nat /\ \A i \in DOMAIN m : m[i] \in Waiting
  OBVIOUS
<1>2. DOMAIN r = DOMAIN m /\ \A i \in DOMAIN m : r[i].tx = m[i].tx
  BY DEF AssignStrictness
<1>3. \A i \in DOMAIN m : m[i].tx \in Transactions
  BY <1>1 DEF Waiting
<1>4. r \in Seq(Ready)
  <2>1. \A i \in 1..Len(m) : [tx |-> m[i].tx, strictness |->
           IF m[i].strictness = "none" THEN "default" ELSE m[i].strictness] \in Ready
    BY <1>1, <1>3 DEF Waiting
  <2>2. r \in [1..Len(m) -> Ready]
    BY <1>1, <2>1 DEF AssignStrictness
  <2> HIDE DEF r
  <2>3. Len(m) \in Nat
    OBVIOUS
  <2>4. PICK n \in Nat : r \in [1..n -> Ready]
    BY <2>2, <2>3
  <2> HIDE DEF Ready
  <2> QED BY <2>4
<1> HIDE DEF r
<1>5. Len(r) \in Nat /\ DOMAIN r = 1..Len(r)
  BY <1>4
<1>6. Len(r) = Len(m)
  BY <1>1, <1>2, <1>5
<1> QED BY <1>2, <1>3, <1>5, <1>6 DEF r

(* The state after a block: one block more, with the transactions of the   *)
(* request, which are no longer in the mempool.                            *)
Blocked(s, next, m, early) ==
  LET r == AssignStrictness(m)
      done == ProcessTransactions(s.ledger, r, s.time + 1, early) IN
    done.ok /\ next = CreateBlock(s, done, s.time + 1, r)

NextBlock(s, next, m) ==
  /\ next \in SimState /\ Follows(s, next) /\ Numbered(next)
  /\ Len(next.blocks) = Len(s.blocks) + 1
  /\ \A b \in DOMAIN s.blocks : next.blocks[b] = s.blocks[b]
  /\ \A t : (\E i \in DOMAIN next.blocks[Len(s.blocks) + 1].txs :
               next.blocks[Len(s.blocks) + 1].txs[i].tx = t)
              <=> \E i \in DOMAIN m : m[i].tx = t
  /\ \A t : InMempool(next, t) <=> InMempool(s, t) /\ ~\E i \in DOMAIN m : m[i].tx = t
  /\ \A t \in s.ledger.claimable : (\A i \in DOMAIN m : m[i].tx # t) => t \in next.ledger.claimable

(* A block is produced from a request that succeeded.                      *)
LEMMA BlockFacts ==
  ASSUME NEW s \in SimState, Numbered(s), NEW m \in Seq(Waiting), NEW early,
         NEW next, Blocked(s, next, m, early)
  PROVE  NextBlock(s, next, m)
<1> DEFINE r == AssignStrictness(m)
           time == s.time + 1
           done == ProcessTransactions(s.ledger, r, time, early)
           n == Len(s.blocks)
           block == [number |-> GetLastBlock(s).number + 1, txs |-> done.txs]
<1>1. /\ Len(r) \in Nat /\ Len(r) = Len(m) /\ DOMAIN r = 1..Len(r) /\ DOMAIN r = DOMAIN m
      /\ \A i \in DOMAIN r : r[i].tx = m[i].tx /\ r[i].tx \in Transactions
  BY RequestFacts
<1>2. /\ s.ledger \in LedgerState /\ s.blocks \in Seq(SimBlock) /\ s.mempool \in Seq(Waiting)
      /\ s.time \in Nat /\ n \in Nat /\ n # 0 /\ DOMAIN s.blocks = 1..n
      /\ s.blocks[n].number = n - 1
  <2>1. /\ s.ledger \in LedgerState /\ s.blocks \in Seq(SimBlock) /\ s.mempool \in Seq(Waiting)
        /\ s.time \in Nat /\ n \in Nat /\ DOMAIN s.blocks = 1..n
    BY StateFacts
  <2>2. n # 0
    BY <2>1 DEF Numbered
  <2>3. n \in DOMAIN s.blocks
    BY <2>1, <2>2
  <2> QED BY <2>1, <2>2, <2>3 DEF Numbered
<1>3. done.ok /\ next = CreateBlock(s, done, time, r)
  BY DEF Blocked
<1>4. /\ done \in Accumulator
      /\ LaterLedger(s.ledger, done.ledger)
      /\ \A t \in s.ledger.claimable : (\A i \in 1..Len(r) : r[i].tx # t) => t \in done.ledger.claimable
      /\ Len(done.txs) = Len(r)
      /\ \A i \in 1..Len(r) : done.txs[i].tx = r[i].tx
  <2> HIDE DEF r, time
  <2>1. \A i \in 1..Len(r) : r[i].tx \in Transactions
    BY <1>1
  <2>2. AllApplied(s.ledger, r, done)
    BY <1>1, <1>2, <2>1, ProcessFacts
  <2> QED BY <1>3, <2>2 DEF AllApplied
<1> HIDE DEF r, done, time
<1>5. done.ledger \in LedgerState /\ done.txs \in Seq(Included) /\ DOMAIN done.txs = 1..Len(r)
  BY <1>4 DEF Accumulator
<1>6. block \in SimBlock /\ block.number = n /\ block.txs = done.txs
  <2>1. GetLastBlock(s).number + 1 = n
    BY <1>2 DEF GetLastBlock
  <2> QED BY <1>2, <1>5, <2>1 DEF SimBlock
<1>7. /\ next = [s EXCEPT !.ledger = done.ledger, !.blocks = Append(s.blocks, block),
                          !.mempool = WithoutTxs(s.mempool, r), !.time = time]
      /\ WithoutTxs(s.mempool, r) \in Seq(Waiting)
  BY <1>2, <1>3, WithoutFacts DEF CreateBlock
<1> HIDE DEF block
<1>8. Append(s.blocks, block) \in Seq(SimBlock) /\ time \in Nat
  BY <1>2, <1>6 DEF time
<1>9. /\ next \in SimState /\ next.ledger = done.ledger /\ next.blocks = Append(s.blocks, block)
      /\ next.mempool = WithoutTxs(s.mempool, r)
  BY <1>5, <1>7, <1>8 DEF SimState
<1>10. /\ Len(next.blocks) = n + 1 /\ DOMAIN next.blocks = 1..(n + 1)
       /\ \A b \in 1..n : next.blocks[b] = s.blocks[b]
       /\ next.blocks[n + 1] = block
  BY <1>2, <1>6, <1>9
<1>11. Follows(s, next)
  BY <1>2, <1>4, <1>9, <1>10 DEF Follows, MoreBlocks
<1>12. Numbered(next)
  <2>1. ASSUME NEW b \in 1..(n + 1)
        PROVE  next.blocks[b].number = b - 1
    <3>1. CASE b \in 1..n
      BY <1>2, <1>10, <3>1 DEF Numbered
    <3>2. CASE b = n + 1
      BY <1>2, <1>6, <1>10, <3>2
    <3> QED BY <1>2, <3>1, <3>2
  <2>2. next.blocks # <<>>
    BY <1>2, <1>10
  <2> QED BY <1>10, <2>1, <2>2 DEF Numbered
<1>13. ASSUME NEW t
       PROVE  (\E i \in DOMAIN next.blocks[n + 1].txs : next.blocks[n + 1].txs[i].tx = t)
                <=> \E i \in DOMAIN m : m[i].tx = t
  BY <1>1, <1>4, <1>5, <1>6, <1>10
<1>14. ASSUME NEW t
       PROVE  InMempool(next, t) <=> InMempool(s, t) /\ ~\E i \in DOMAIN m : m[i].tx = t
  <2>1. Holds(WithoutTxs(s.mempool, r), t) <=> Holds(s.mempool, t) /\ ~Holds(r, t)
    BY <1>2, WithoutFacts
  <2>2. Holds(r, t) <=> \E i \in DOMAIN m : m[i].tx = t
    BY <1>1 DEF Holds
  <2> QED BY <1>9, <2>1, <2>2 DEF InMempool, Holds
<1>15. \A t \in s.ledger.claimable : (\A i \in DOMAIN m : m[i].tx # t) => t \in next.ledger.claimable
  BY <1>1, <1>4, <1>9
<1> QED BY <1>2, <1>9, <1>10, <1>11, <1>12, <1>13, <1>14, <1>15 DEF NextBlock

-----------------------------------------------------------------------------
(* What the steps publish                                                  *)

(* A state that is published without a block: the blocks are as they were, *)
(* and of the ledger only rewards are different.                           *)
Plain(s) ==
  /\ s \in SimState /\ s.blocks = Latest.blocks
  /\ s.ledger.outputs = Latest.ledger.outputs /\ s.ledger.spent = Latest.ledger.spent
  /\ Latest.ledger.claimable \subseteq s.ledger.claimable

(* A transaction is added to the mempool.                                  *)
LEMMA MempoolStep ==
  ASSUME published \in Seq(SimState), published # <<>>, NEW t \in Transactions,
         NEW strictness \in {"none", "genesis"}
  PROVE  LET s == AddToMempool(Latest, t, strictness) IN
           /\ Plain(s) /\ \A u : InMempool(s, u) <=> InMempool(Latest, u) \/ u = t
<1> DEFINE s == AddToMempool(Latest, t, strictness)
           w == [tx |-> t, strictness |-> strictness]
<1>1. Latest \in SimState /\ Latest.mempool \in Seq(Waiting)
  BY LatestFacts, StateFacts
<1>2. w \in Waiting
  BY DEF Waiting
<1>3. PICK m \in Seq(Waiting) : m = Latest.mempool
  BY <1>1
<1> HIDE DEF w
<1>4. Append(m, w) \in Seq(Waiting)
  BY <1>2
<1>5. s = [Latest EXCEPT !.mempool = Append(m, w)]
  BY <1>3 DEF AddToMempool, w
<1>6. /\ s \in SimState /\ s.mempool = Append(m, w) /\ s.ledger = Latest.ledger
      /\ s.blocks = Latest.blocks
  BY <1>1, <1>4, <1>5 DEF SimState
<1>7. w.tx = t
  BY DEF w
<1> HIDE DEF s
<1>8. ASSUME NEW u
      PROVE  InMempool(s, u) <=> InMempool(Latest, u) \/ u = t
  <2>1. /\ DOMAIN Append(m, w) = (DOMAIN m) \cup {Len(m) + 1}
        /\ \A i \in DOMAIN m : Append(m, w)[i] = m[i]
        /\ Append(m, w)[Len(m) + 1] = w
    BY <1>2
  <2> QED BY <1>3, <1>6, <1>7, <2>1 DEF InMempool
<1> QED BY <1>6, <1>8 DEF Plain, s

(* What the steps publish.                                                 *)
LEMMA Published ==
  ASSUME SimTypeOK, Orderly, SimulatorNext
  PROVE  \/ UNCHANGED published
         \/ \E s \in SimState : Publish(s) /\ Follows(Latest, s) /\ Numbered(s)
<1> DEFINE Goal == \E s \in SimState : Publish(s) /\ Follows(Latest, s) /\ Numbered(s)
<1>1. published \in Seq(SimState) /\ published # <<>>
  BY DEF SimTypeOK
<1>2. Latest \in SimState /\ Numbered(Latest)
  BY <1>1, LatestFacts DEF Orderly
<1>3. ASSUME NEW s, Plain(s), Publish(s)
      PROVE  Goal
  <2>1. Follows(Latest, s) /\ Numbered(s)
    BY <1>2, <1>3, StateFacts DEF Plain, Follows, LaterLedger, MoreBlocks, Numbered
  <2> QED BY <1>3, <2>1 DEF Plain
<1>4. ASSUME NEW t \in Transactions, SubmitAndWait(t) \/ SubmitAndForget(t) \/ SubmitClaim(t)
      PROVE  Goal
  <2>1. PICK strictness \in {"none", "genesis"} : Publish(AddToMempool(Latest, t, strictness))
    BY <1>4 DEF SubmitAndWait, SubmitAndForget, SubmitClaim, Enqueue
  <2> QED BY <1>1, <1>3, <2>1, MempoolStep
<1>5. ASSUME NEW t \in Transactions, DistributeNight(t)
      PROVE  Goal
  <2> DEFINE s == [Latest EXCEPT !.ledger.claimable = @ \cup {t}]
  <2>1. Latest.ledger \in LedgerState
    BY <1>2, StateFacts
  <2>2. [Latest.ledger EXCEPT !.claimable = @ \cup {t}] \in LedgerState
    BY <2>1 DEF LedgerState
  <2>3. s = [Latest EXCEPT !.ledger = [Latest.ledger EXCEPT !.claimable = @ \cup {t}]]
    BY <1>2, <2>1 DEF SimState, LedgerState
  <2>4. s \in SimState /\ s.ledger = [Latest.ledger EXCEPT !.claimable = @ \cup {t}] /\ s.blocks = Latest.blocks
    BY <1>2, <2>2, <2>3 DEF SimState
  <2>5. Plain(s)
    BY <2>1, <2>4 DEF Plain, LedgerState
  <2> QED BY <1>3, <1>5, <2>5 DEF DistributeNight
<1>6. ASSUME FastForward
      PROVE  Goal
  <2> DEFINE s == [Latest EXCEPT !.time = @ + 2]
  <2>1. Latest.time \in Nat
    BY <1>2, StateFacts
  <2>2. Latest.time + 2 \in Nat
    BY <2>1
  <2>3. s \in SimState /\ s.ledger = Latest.ledger /\ s.blocks = Latest.blocks
    BY <1>2, <2>2 DEF SimState
  <2> QED BY <1>3, <1>6, <2>3 DEF FastForward, Plain
<1>7. ASSUME ProduceBlock
      PROVE  Goal
  <2>1. handled + 1 \in DOMAIN published
    BY <1>1, <1>7 DEF ProduceBlock, SimTypeOK
  <2> DEFINE m == published[handled + 1].mempool
             r == AssignStrictness(m)
  <2>2. m \in Seq(Waiting)
    BY <1>1, <2>1, LatestFacts, StateFacts
  <2>3. PICK early \in BOOLEAN :
          \/ /\ ProcessTransactions(Latest.ledger, r, Latest.time + 1, early).ok
             /\ Publish(CreateBlock(Latest, ProcessTransactions(Latest.ledger, r, Latest.time + 1, early),
                                    Latest.time + 1, r))
          \/ DiscardRequest(r)
    BY <1>7 DEF ProduceBlock
  <2> HIDE DEF m
  <2>4. CASE /\ ProcessTransactions(Latest.ledger, r, Latest.time + 1, early).ok
             /\ Publish(CreateBlock(Latest, ProcessTransactions(Latest.ledger, r, Latest.time + 1, early),
                                    Latest.time + 1, r))
    <3>1. PICK s : s = CreateBlock(Latest, ProcessTransactions(Latest.ledger, r, Latest.time + 1, early),
                                   Latest.time + 1, r)
      OBVIOUS
    <3>2. Blocked(Latest, s, m, early)
      BY <2>4, <3>1 DEF Blocked
    <3>3. s \in SimState /\ Follows(Latest, s) /\ Numbered(s)
      BY <1>2, <2>2, <3>2, BlockFacts DEF NextBlock
    <3> QED BY <2>4, <3>1, <3>3
  <2>5. CASE DiscardRequest(r)
    <3> DEFINE s == [Latest EXCEPT !.mempool = WithoutTxs(@, r)]
    <3>1. WithoutTxs(Latest.mempool, r) \in Seq(Waiting)
      BY <1>2, StateFacts, WithoutFacts
    <3>2. s \in SimState /\ s.ledger = Latest.ledger /\ s.blocks = Latest.blocks
      BY <1>2, <3>1 DEF SimState
    <3> QED BY <1>3, <2>5, <3>2 DEF DiscardRequest, Plain
  <2> QED BY <2>3, <2>4, <2>5
<1>8. ASSUME NEW t \in Transactions, AnswerCaller(t) \/ BookInputs(t)
      PROVE  UNCHANGED published
  BY <1>8 DEF AnswerCaller, BookInputs, producerVars
<1>9. ASSUME NEW w \in Followers, TakeLatest(w) \/ Subscribe(w) \/ TakeState(w) \/ StopSync(w)
      PROVE  UNCHANGED published
  BY <1>9 DEF TakeLatest, Subscribe, TakeState, StopSync, producerVars
<1>10. SkipState => UNCHANGED published
  BY DEF SkipState
<1> HIDE DEF Goal
<1>11. Goal \/ UNCHANGED published
  BY <1>4, <1>5, <1>6, <1>7, <1>8, <1>9, <1>10 DEF SimulatorNext 
<1> QED BY <1>11 DEF Goal

(* Published states stay in order.                                         *)
LEMMA OrderlyStep ==
  ASSUME SimTypeOK, Orderly, SimulatorNext
  PROVE  Orderly'
<1>1. published \in Seq(SimState) /\ published # <<>>
  BY DEF SimTypeOK
<1>2. CASE UNCHANGED published
  BY <1>2 DEF Orderly
<1>3. CASE \E s \in SimState : Publish(s) /\ Follows(Latest, s) /\ Numbered(s)
  BY <1>1, <1>3, OrderlyPublish
<1> QED BY <1>2, <1>3, Published

-----------------------------------------------------------------------------
(* The first state                                                         *)

(* A list of lists made from a sequence.                                   *)
LEMMA ListOfLists ==
  ASSUME NEW S, NEW n \in Nat, NEW lists, lists \in [1..n -> Seq(S)]
  PROVE  lists \in Seq(Seq(S)) /\ Len(lists) = n
OBVIOUS

(* The events of blocks are transactions with their results.               *)
LEMMA EventsFacts ==
  ASSUME NEW s \in SimState, NEW position
  PROVE  BlockEventsFrom(s, position) \in Seq(Included)
<1> DEFINE lists == [i \in DOMAIN s.blocks |->
                       IF s.blocks[i].number >= position THEN s.blocks[i].txs ELSE <<>>]
           n == Len(s.blocks)
<1>1. n \in Nat /\ DOMAIN s.blocks = 1..n /\ \A b \in 1..n : s.blocks[b].txs \in Seq(Included)
  BY StateFacts
<1> HIDE DEF n
<1>2. <<>> \in Seq(Included)
  OBVIOUS
<1>3. lists \in [1..n -> Seq(Included)]
  BY <1>1, <1>2
<1>4. BlockEventsFrom(s, position) = Flat(lists)
  BY DEF BlockEventsFrom
<1> HIDE DEF lists
<1>5. lists \in Seq(Seq(Included))
  BY <1>1, <1>3, ListOfLists
<1> QED BY <1>4, <1>5, FlatFacts

(* What is minted in the genesis block.                                    *)
Given == [tx : Genesis, result : {"success"}]

(* The genesis block has nothing but what is minted.                       *)
LEMMA GenesisFacts ==
  GenesisTransactions \in Seq(Given)
<1> DEFINE lists == [i \in DOMAIN Mints |->
                       IF Mints[i].type = "night" /\ Mints[i].keyed THEN Minted(Mints[i].tx) ELSE <<>>]
           n == Len(Mints)
<1>1. ASSUME NEW t \in Genesis
      PROVE  Minted(t) \in Seq(Given)
  <2>1. PICK x : x = [tx |-> t, result |-> "success"]
    OBVIOUS
  <2>2. x \in Given
    BY <2>1 DEF Given
  <2>3. <<x>> \in Seq(Given)
    BY <2>2
  <2> QED BY <2>1, <2>3 DEF Minted
<1>2. <<>> \in Seq(Given)
  OBVIOUS
<1>3. n \in Nat /\ DOMAIN Mints = 1..n /\ \A i \in 1..n : Mints[i].tx \in Genesis
  <2>1. n \in Nat /\ DOMAIN Mints = 1..n
    BY SimulatorAssumption
  <2>2. \A i \in DOMAIN Mints : Mints[i].tx \in Genesis
    BY DEF Genesis
  <2> QED BY <2>1, <2>2
<1>4. MintTx \in Genesis
  BY DEF Genesis
<1> HIDE DEF n
<1>5. lists \in [1..n -> Seq(Given)]
  BY <1>1, <1>2, <1>3
<1> DEFINE others == IF \E i \in DOMAIN Mints : Mints[i].type # "night" THEN Minted(MintTx) ELSE <<>>
<1>6. others \in Seq(Given)
  BY <1>1, <1>2, <1>4
<1>7. GenesisTransactions = Cat(others, Flat(lists))
  BY DEF GenesisTransactions, Cat
<1> HIDE DEF lists, others
<1>8. lists \in Seq(Seq(Given))
  BY <1>3, <1>5, ListOfLists
<1>9. Flat(lists) \in Seq(Given)
  BY <1>8, FlatFacts
<1>10. \A x, y \in Seq(Given) : Cat(x, y) \in Seq(Given)
  BY CatFacts
<1> QED BY <1>6, <1>7, <1>9, <1>10

(* The first state has one block, and nothing of what is submitted.        *)
LEMMA InitialFacts ==
  /\ InitialState \in SimState /\ Numbered(InitialState)
  /\ \A t \in Transactions : ~InMempool(InitialState, t) /\ BlocksWith(InitialState, t) = {}
<1> DEFINE txs == GenesisTransactions
           ledger == [outputs |-> {txs[i].tx : i \in DOMAIN txs}, claimable |-> {}, spent |-> {}]
           block == [number |-> 0, txs |-> txs]
<1>1. txs \in Seq(Included) /\ \A i \in DOMAIN txs : txs[i].tx \in Outputs
  <2>1. Given \subseteq Included
    BY DEF Given, Included, Outputs
  <2>2. txs \in Seq(Included)
    BY <2>1, GenesisFacts
  <2>3. \A i \in DOMAIN txs : txs[i] \in Included
    BY <2>2
  <2> QED BY <2>2, <2>3 DEF Included
<1>2. /\ InitialState = [ledger |-> ledger, blocks |-> <<block>>, mempool |-> <<>>, time |-> 0]
  BY DEF InitialState
<1> HIDE DEF txs
<1>3. ledger \in LedgerState
  BY <1>1 DEF LedgerState
<1>4. block \in SimBlock /\ block.number = 0 /\ block.txs = txs
  BY <1>1 DEF SimBlock
<1> HIDE DEF ledger, block
<1>5. <<block>> \in Seq(SimBlock) /\ <<>> \in Seq(Waiting) /\ 0 \in Nat
  BY <1>4
<1>6. InitialState \in SimState /\ InitialState.blocks = <<block>> /\ InitialState.mempool = <<>>
  BY <1>2, <1>3, <1>5 DEF SimState
<1>7. Numbered(InitialState)
  BY <1>4, <1>6 DEF Numbered
<1>8. \A t \in Transactions : ~InMempool(InitialState, t)
  BY <1>6 DEF InMempool
<1>9. \A i \in DOMAIN txs : txs[i].tx \in Genesis
  <2>1. \A i \in DOMAIN txs : txs[i] \in Given
    BY GenesisFacts DEF txs
  <2> QED BY <2>1 DEF Given
<1>10. \A t \in Transactions : BlocksWith(InitialState, t) = {}
  <2>1. DOMAIN InitialState.blocks = {1} /\ InitialState.blocks[1].txs = txs
    BY <1>4, <1>6
  <2> QED BY <1>9, <2>1, SimulatorAssumption DEF BlocksWith
<1> QED BY <1>6, <1>7, <1>8, <1>10

-----------------------------------------------------------------------------
(* Types                                                                   *)

Utxos == [available : SUBSET Outputs, pending : SUBSET Outputs]
Stream == [at : {"off", "latest", "shared"}, next : Nat, seen : Nat]
Fate == {"none", "waiting", "forgotten", "distributed", "included", "discarded"}

(* The last block of a state has the number before the number of blocks.   *)
LEMMA LastBlock ==
  ASSUME NEW s \in SimState, Numbered(s)
  PROVE  GetLastBlock(s).number + 1 = Len(s.blocks) /\ Len(s.blocks) \in Nat \ {0}
<1>1. Len(s.blocks) \in Nat /\ DOMAIN s.blocks = 1..Len(s.blocks) /\ Len(s.blocks) # 0
  BY StateFacts DEF Numbered
<1>2. Len(s.blocks) \in DOMAIN s.blocks
  BY <1>1
<1> QED BY <1>1, <1>2 DEF Numbered, GetLastBlock

(* The state of a wallet that is given a published state.                  *)
LEMMA TakeTypes ==
  ASSUME appliedIndex \in Nat, replayed \in Seq(Included), utxos \in Utxos,
         NEW w, NEW s \in SimState, Numbered(s), Take(w, s)
  PROVE  appliedIndex' \in Nat /\ replayed' \in Seq(Included) /\ utxos' \in Utxos
<1>1. CASE ApplyOutputs(s)
  <2>1. s.ledger.outputs \in SUBSET Outputs
    BY StateFacts DEF LedgerState
  <2> QED BY <1>1, <2>1 DEF ApplyOutputs, Created, Utxos
<1>2. CASE ApplyBlocks(s)
  <2>1. BlockEventsFrom(s, appliedIndex) \in Seq(Included)
    BY EventsFacts
  <2>2. replayed' = Cat(replayed, BlockEventsFrom(s, appliedIndex))
    BY <1>2 DEF ApplyBlocks, Cat
  <2>3. replayed' \in Seq(Included)
    BY <2>1, <2>2, CatFacts
  <2> QED BY <1>2, <2>3, LastBlock DEF ApplyBlocks
<1>3. CASE UNCHANGED <<replayed, appliedIndex, utxos>>
  BY <1>3
<1> QED BY <1>1, <1>2, <1>3 DEF Take

(* The states stay states, and none is taken back.                         *)
LEMMA PublishedTypes ==
  ASSUME SimTypeOK, Orderly, SimulatorNext
  PROVE  /\ published' \in Seq(SimState) /\ published' # <<>>
         /\ Len(published) \in Nat /\ Len(published') \in Nat /\ Len(published) <= Len(published')
<1>1. published \in Seq(SimState) /\ published # <<>>
  BY DEF SimTypeOK
<1>2. CASE UNCHANGED published
  BY <1>1, <1>2
<1>3. CASE \E s \in SimState : Publish(s) /\ Follows(Latest, s) /\ Numbered(s)
  <2>1. PICK s \in SimState : Publish(s)
    BY <1>3
  <2> QED BY <1>1, <2>1, PublishFacts
<1> QED BY <1>2, <1>3, Published

(* What submitTransaction finds: the state in which the transaction left   *)
(* the mempool, and the first block with it there, if there is one.        *)
LEMMA AnswerFacts ==
  ASSUME SimTypeOK, Orderly, CallerInv, NEW t \in Transactions, AnswerCaller(t)
  PROVE  \E i \in DOMAIN published :
           /\ Leaves(i, t)
           /\ \/ /\ BlocksWith(published[i + 1], t) = {}
                 /\ caller' = [caller EXCEPT ![t] = "discarded"] /\ UNCHANGED answer
              \/ \E b \in BlocksWith(published[i + 1], t) :
                   /\ caller' = [caller EXCEPT ![t] = "included"]
                   /\ answer' = [answer EXCEPT ![t] = b - 1]
<1> DEFINE last == CHOOSE i \in DOMAIN published :
                     InMempool(published[i], t) /\ ~InMempool(published[i + 1], t)
           s == published[last + 1]
           found == BlocksWith(s, t)
           first == CHOOSE b \in found : \A c \in found : b <= c
<1>1. /\ Len(published) \in Nat \ {0} /\ DOMAIN published = 1..Len(published)
      /\ Latest = published[Len(published)]
      /\ \A i \in DOMAIN published : published[i] \in SimState /\ Numbered(published[i])
  BY LatestFacts DEF SimTypeOK, Orderly
<1>2. caller[t] = "waiting" /\ ~InMempool(Latest, t)
  BY DEF AnswerCaller
<1>3. \E i \in DOMAIN published : InMempool(published[i], t) /\ ~InMempool(published[i + 1], t)
  BY <1>2 DEF CallerInv, CallerOf, Leaves, WasSubmitted
<1>4. last \in DOMAIN published /\ InMempool(published[last], t) /\ ~InMempool(s, t)
  BY <1>3
<1> HIDE DEF last
<1>5. last + 1 \in DOMAIN published
  BY <1>1, <1>2, <1>4
<1>6. Leaves(last, t)
  BY <1>4, <1>5 DEF Leaves
<1>7. IF found = {} THEN caller' = [caller EXCEPT ![t] = "discarded"] /\ UNCHANGED answer
      ELSE /\ caller' = [caller EXCEPT ![t] = "included"]
           /\ answer' = [answer EXCEPT ![t] = s.blocks[first].number]
  BY DEF AnswerCaller, last
<1>8. ASSUME found # {}
      PROVE  first \in found /\ s.blocks[first].number = first - 1
  <2>1. found \subseteq DOMAIN s.blocks /\ DOMAIN s.blocks \subseteq Nat
    BY <1>1, <1>5, StateFacts DEF BlocksWith
  <2>2. \E b \in found : \A c \in found : b <= c
    <3> HIDE DEF found
    <3>1. found \subseteq Nat
      BY <2>1
    <3> QED BY <1>8, <3>1, LeastExists
  <2>3. first \in found
    BY <2>2
  <2> QED BY <1>1, <1>5, <2>1, <2>3 DEF Numbered
<1> HIDE DEF first
<1> QED BY <1>4, <1>6, <1>7, <1>8

(* Every step keeps the types.                                             *)
LEMMA SimTypeStep ==
  ASSUME SimTypeOK, Orderly, CallerInv, SimulatorNext
  PROVE  SimTypeOK'
<1> USE DEF Utxos, Stream, Fate
<1>1. /\ published' \in Seq(SimState) /\ published' # <<>>
      /\ Len(published) \in Nat /\ Len(published') \in Nat /\ Len(published) <= Len(published')
  BY PublishedTypes
<1>2. /\ published \in Seq(SimState) /\ published # <<>>
      /\ handled \in 0..Len(published) /\ producing \in BOOLEAN
      /\ caller \in [Transactions -> Fate] /\ answer \in [Transactions -> Nat]
      /\ discarded \subseteq Transactions
      /\ stream \in [Followers -> Stream]
      /\ \A w \in Followers : stream[w].at # "off" => stream[w].next # 0
      /\ appliedIndex \in Nat /\ replayed \in Seq(Included)
      /\ utxos \in Utxos /\ rewound \in BOOLEAN /\ detours \in Nat
  BY DEF SimTypeOK
<1>3. detours + 1 \in Nat
  BY <1>2
<1>4. \A i \in DOMAIN published : published[i] \in SimState /\ Numbered(published[i])
  BY <1>2, LatestFacts DEF Orderly
<1>5. Len(published) \in DOMAIN published /\ Latest \in SimState /\ Numbered(Latest)
  BY <1>2, <1>4, LatestFacts
<1>6. DOMAIN published = 1..Len(published)
  BY <1>2, LatestFacts
<1>7. handled \in 0..Len(published')
  BY <1>1, <1>2
<1> DEFINE ProducerTypes == handled' \in 0..Len(published') /\ producing' \in BOOLEAN /\ discarded' \subseteq Transactions
           CallerTypes == caller' \in [Transactions -> Fate] /\ answer' \in [Transactions -> Nat]
           StreamTypes == /\ stream' \in [Followers -> Stream] /\ rewound' \in BOOLEAN
                          /\ \A w \in Followers : stream'[w].at # "off" => stream'[w].next # 0
           WalletTypes == appliedIndex' \in Nat /\ replayed' \in Seq(Included) /\ utxos' \in Utxos
           Types == ProducerTypes /\ CallerTypes /\ StreamTypes /\ WalletTypes /\ detours' \in Nat
<1>a. (UNCHANGED <<handled, producing, discarded>>) => ProducerTypes
  BY <1>2, <1>7
<1>b. (UNCHANGED callerVars) => CallerTypes
  BY <1>2 DEF callerVars
<1>c. (UNCHANGED <<stream, rewound>>) => StreamTypes
  BY <1>2
<1>d. (UNCHANGED <<appliedIndex, replayed, utxos>>) => WalletTypes
  BY <1>2
<1>e. ASSUME NEW t \in Transactions, NEW how \in Fate, caller' = [caller EXCEPT ![t] = how], UNCHANGED answer
      PROVE  CallerTypes
  BY <1>2, <1>e
<1>f. ASSUME NEW w \in Followers, NEW r \in Stream, r.at # "off" => r.next # 0, stream' = [stream EXCEPT ![w] = r], rewound' \in BOOLEAN
      PROVE  StreamTypes
  BY <1>2, <1>f
<1> HIDE DEF ProducerTypes, CallerTypes, StreamTypes, WalletTypes
<1>11. ASSUME NEW t \in Transactions, SubmitAndWait(t) \/ SubmitAndForget(t) \/ DistributeNight(t) \/ SubmitClaim(t)
       PROVE  Types
  <2>1. \E how \in Fate : caller' = [caller EXCEPT ![t] = how]
    BY <1>11 DEF SubmitAndWait, SubmitAndForget, Enqueue, DistributeNight, SubmitClaim
  <2>2. UNCHANGED <<handled, producing, discarded, answer, followerVars, detours>>
    BY <1>11 DEF SubmitAndWait, SubmitAndForget, Enqueue, DistributeNight, SubmitClaim
  <2> QED BY <1>2, <1>a, <1>c, <1>d, <1>e, <2>1, <2>2 DEF followerVars
<1>12. ASSUME NEW t \in Transactions, AnswerCaller(t)
       PROVE  Types
  <2>1. CallerTypes
    <3>1. PICK i \in DOMAIN published :
            /\ Leaves(i, t)
            /\ \/ /\ BlocksWith(published[i + 1], t) = {}
                  /\ caller' = [caller EXCEPT ![t] = "discarded"] /\ UNCHANGED answer
               \/ \E b \in BlocksWith(published[i + 1], t) :
                    /\ caller' = [caller EXCEPT ![t] = "included"]
                    /\ answer' = [answer EXCEPT ![t] = b - 1]
      BY <1>12, AnswerFacts
    <3>2. CASE caller' = [caller EXCEPT ![t] = "discarded"] /\ UNCHANGED answer
      BY <1>e, <3>2
    <3>3. CASE \E b \in BlocksWith(published[i + 1], t) :
                 /\ caller' = [caller EXCEPT ![t] = "included"]
                 /\ answer' = [answer EXCEPT ![t] = b - 1]
      <4>1. PICK b \in BlocksWith(published[i + 1], t) :
                 /\ caller' = [caller EXCEPT ![t] = "included"]
                 /\ answer' = [answer EXCEPT ![t] = b - 1]
        BY <3>3
      <4>2. i + 1 \in DOMAIN published
        BY <3>1 DEF Leaves
      <4>3. b \in 1..Len(published[i + 1].blocks) /\ Len(published[i + 1].blocks) \in Nat
        BY <1>4, <4>1, <4>2, StateFacts DEF BlocksWith
      <4>4. b - 1 \in Nat
        BY <4>3
      <4> QED BY <1>2, <4>1, <4>4 DEF CallerTypes
    <3> QED BY <3>1, <3>2, <3>3
  <2> QED BY <1>2, <1>12, <1>a, <1>c, <1>d, <2>1 DEF AnswerCaller, producerVars, followerVars
<1>13. ASSUME NEW t \in Transactions, BookInputs(t)
       PROVE  Types
  <2>1. SpendsOf[t] \subseteq Outputs
    BY SimulatorAssumption
  <2>2. WalletTypes
    BY <1>2, <1>13, <2>1 DEF BookInputs, WalletTypes
  <2> QED BY <1>2, <1>13, <1>a, <1>b, <1>c, <2>2 DEF BookInputs, producerVars
<1>14. ASSUME FastForward
       PROVE  Types
  BY <1>3, <1>14, <1>a, <1>b, <1>c, <1>d DEF FastForward, followerVars
<1>15. ASSUME SkipState
       PROVE  Types
  <2>1. handled + 1 \in 0..Len(published')
    BY <1>1, <1>2, <1>15 DEF SkipState
  <2>2. ProducerTypes
    BY <1>2, <1>15, <2>1 DEF SkipState, ProducerTypes
  <2> QED BY <1>2, <1>15, <1>b, <1>c, <1>d, <2>2 DEF SkipState, followerVars
<1>16. ASSUME ProduceBlock
       PROVE  Types
  <2>1. handled + 1 \in 0..Len(published') /\ handled + 1 \in DOMAIN published
    BY <1>1, <1>2, <1>6, <1>16 DEF ProduceBlock
  <2> DEFINE m == published[handled + 1].mempool
             r == AssignStrictness(m)
  <2>2. m \in Seq(Waiting)
    BY <1>4, <2>1, StateFacts
  <2>3. {r[i].tx : i \in DOMAIN r} \subseteq Transactions
    BY <2>2, RequestFacts
  <2>4. ProducerTypes
    <3>1. handled' = handled + 1
      BY <1>16 DEF ProduceBlock
    <3>2. \/ UNCHANGED <<producing, discarded>>
          \/ producing' = FALSE /\ discarded' = discarded \cup {r[i].tx : i \in DOMAIN r}
      BY <1>16 DEF ProduceBlock
    <3> QED BY <1>2, <2>1, <2>3, <3>1, <3>2 DEF ProducerTypes
  <2> QED BY <1>2, <1>16, <1>b, <1>c, <1>d, <2>4 DEF ProduceBlock, followerVars
<1>17. ASSUME NEW w \in Followers, TakeLatest(w)
       PROVE  Types
  <2>1. WalletTypes
    <3>1. Take(w, Latest)
      BY <1>17 DEF TakeLatest
    <3> QED BY <1>2, <1>5, <3>1, TakeTypes DEF WalletTypes
  <2>2. StreamTypes
    <3>1. [at |-> "latest", next |-> Len(published), seen |-> Len(Latest.blocks)] \in Stream /\ Len(published) # 0
      BY <1>1, <1>2, <1>5, StateFacts
    <3> QED BY <1>2, <1>17, <1>f, <3>1 DEF TakeLatest
  <2> QED BY <1>2, <1>17, <1>a, <1>b, <2>1, <2>2 DEF TakeLatest, producerVars
<1>18. ASSUME NEW w \in Followers, Subscribe(w)
       PROVE  Types
  <2>1. PICK k \in 1..Len(published) :
          /\ Take(w, published[k])
          /\ stream' = [stream EXCEPT ![w].at = "shared", ![w].next = k + 1]
          /\ rewound' = (rewound \/ (w = "unshielded" /\ k < stream[w].next))
    BY <1>18 DEF Subscribe
  <2>2. WalletTypes
    BY <1>2, <1>4, <1>6, <2>1, TakeTypes DEF WalletTypes
  <2>3. StreamTypes
    <3>1. [stream[w] EXCEPT !.at = "shared", !.next = k + 1] \in Stream
      <4>1. stream[w] \in Stream /\ k + 1 \in Nat
        BY <1>2
      <4> QED BY <4>1
    <3>2. stream' = [stream EXCEPT ![w] = [stream[w] EXCEPT !.at = "shared", !.next = k + 1]]
      BY <1>2, <2>1
    <3>3. rewound' \in BOOLEAN
      BY <1>2, <2>1
    <3>4. k + 1 # 0
      OBVIOUS
    <3>5. [stream[w] EXCEPT !.at = "shared", !.next = k + 1].next = k + 1
      BY <1>2
    <3> QED BY <1>f, <3>1, <3>2, <3>3, <3>4, <3>5
  <2>4. UNCHANGED <<producerVars, callerVars, detours>>
    BY <1>18 DEF Subscribe
  <2> QED BY <1>2, <1>a, <1>b, <2>2, <2>3, <2>4 DEF producerVars
<1>19. ASSUME NEW w \in Followers, TakeState(w)
       PROVE  Types
  <2> DEFINE s == published[stream[w].next]
  <2>1. stream[w] \in Stream
    BY <1>2
  <2>2. s \in SimState /\ Numbered(s) /\ Len(s.blocks) \in Nat
    <3>1. stream[w].next # 0
      BY <1>19 DEF TakeState, SimTypeOK
    <3>2. stream[w].next \in DOMAIN published
      BY <1>6, <1>19, <2>1, <3>1 DEF TakeState
    <3> QED BY <1>4, <3>2, StateFacts
  <2>3. WalletTypes
    <3>1. Take(w, s)
      BY <1>19 DEF TakeState
    <3> HIDE DEF s
    <3> QED BY <1>2, <2>2, <3>1, TakeTypes DEF WalletTypes
  <2>4. StreamTypes
    <3> DEFINE seen == IF stream[w].seen < Len(s.blocks) THEN Len(s.blocks) ELSE stream[w].seen
    <3>1. stream' = [stream EXCEPT ![w] = [stream[w] EXCEPT !.next = @ + 1, !.seen = seen]]
      BY <1>2, <1>19 DEF TakeState
    <3>2. seen \in Nat /\ stream[w].next + 1 \in Nat
      BY <2>1, <2>2
    <3> HIDE DEF seen
    <3>3. [stream[w] EXCEPT !.next = @ + 1, !.seen = seen] \in Stream
      BY <2>1, <3>2
    <3>4. rewound' \in BOOLEAN
      BY <1>2, <1>19 DEF TakeState
    <3>5. [stream[w] EXCEPT !.next = @ + 1, !.seen = seen].next # 0
      BY <2>1
    <3> QED BY <1>f, <3>1, <3>3, <3>4, <3>5
  <2> QED BY <1>2, <1>19, <1>a, <1>b, <2>3, <2>4 DEF TakeState, producerVars
<1>20. ASSUME NEW w \in Followers, StopSync(w)
       PROVE  Types
  <2>1. Off \in Stream /\ Off.at = "off"
    BY DEF Off
  <2>2. StreamTypes
    BY <1>2, <1>20, <1>f, <2>1 DEF StopSync
  <2> QED BY <1>3, <1>20, <1>a, <1>b, <1>d, <2>2 DEF StopSync, producerVars
<1> HIDE DEF Types
<1>21. Types
  BY <1>11, <1>12, <1>13, <1>14, <1>15, <1>16, <1>17, <1>18, <1>19, <1>20 DEF SimulatorNext
<1> QED BY <1>1, <1>21 DEF SimTypeOK, Types, ProducerTypes, CallerTypes, StreamTypes, WalletTypes

-----------------------------------------------------------------------------
(* The callers                                                             *)

(* A transaction that is in a block stays in it.                           *)
LEMMA BlocksStay ==
  ASSUME NEW s1 \in SimState, NEW s2 \in SimState, Follows(s1, s2), NEW t
  PROVE  BlocksWith(s1, t) \subseteq BlocksWith(s2, t)
<1>1. /\ DOMAIN s1.blocks = 1..Len(s1.blocks) /\ DOMAIN s2.blocks = 1..Len(s2.blocks)
      /\ Len(s1.blocks) \in Nat /\ Len(s2.blocks) \in Nat
  BY StateFacts
<1>2. /\ Len(s1.blocks) <= Len(s2.blocks)
      /\ \A b \in DOMAIN s1.blocks : s2.blocks[b] = s1.blocks[b]
  BY DEF Follows, MoreBlocks
<1>3. DOMAIN s1.blocks \subseteq DOMAIN s2.blocks
  BY <1>1, <1>2
<1> QED BY <1>2, <1>3 DEF BlocksWith

(* Whoever left the mempool did so before the latest state.                *)
LEMMA LeavesPublish ==
  ASSUME published \in Seq(SimState), published # <<>>, NEW s \in SimState, Publish(s), NEW t
  PROVE  /\ \A i \in DOMAIN published : Leaves(i, t) => Leaves(i, t)' /\ i \in DOMAIN published'
                                                   /\ published'[i + 1] = published[i + 1]
         /\ \A i \in DOMAIN published' : Leaves(i, t)' =>
              \/ i \in DOMAIN published /\ Leaves(i, t)
              \/ i = Len(published) /\ InMempool(Latest, t) /\ ~InMempool(s, t)
         /\ InMempool(Latest, t) /\ ~InMempool(s, t) =>
              \E i \in DOMAIN published' : Leaves(i, t)'
<1> DEFINE n == Len(published)
<1>1. /\ n \in Nat \ {0} /\ DOMAIN published' = 1..(n + 1) /\ DOMAIN published = 1..n
      /\ \A i \in 1..n : published'[i] = published[i]
      /\ published'[n + 1] = s /\ Latest = published[n]
  BY PublishFacts, LatestFacts
<1> HIDE DEF n
<1>2. ASSUME NEW i
      PROVE  Leaves(i, t)' <=> i + 1 \in 1..(n + 1) /\ InMempool(published'[i], t) /\ ~InMempool(published'[i + 1], t)
  BY <1>1 DEF Leaves, InMempool
<1>3. ASSUME NEW i \in 1..n, Leaves(i, t)
      PROVE  Leaves(i, t)' /\ i \in 1..(n + 1) /\ published'[i + 1] = published[i + 1]
  <2>1. i + 1 \in 1..n /\ i \in 1..(n + 1) /\ i + 1 \in 1..(n + 1)
    BY <1>1, <1>3 DEF Leaves
  <2> QED BY <1>1, <1>2, <1>3, <2>1 DEF Leaves
<1>4. ASSUME NEW i \in 1..(n + 1), Leaves(i, t)'
      PROVE  \/ i \in 1..n /\ Leaves(i, t)
             \/ i = n /\ InMempool(Latest, t) /\ ~InMempool(s, t)
  <2>1. i \in 1..n /\ InMempool(published'[i], t) /\ ~InMempool(published'[i + 1], t)
    BY <1>1, <1>2, <1>4
  <2>2. CASE i = n
    BY <1>1, <2>1, <2>2
  <2>3. CASE i # n
    <3>1. i + 1 \in 1..n
      BY <1>1, <2>1, <2>3
    <3> QED BY <1>1, <2>1, <3>1 DEF Leaves
  <2> QED BY <2>2, <2>3
<1>5. ASSUME InMempool(Latest, t), ~InMempool(s, t)
      PROVE  \E i \in 1..(n + 1) : Leaves(i, t)'
  <2>1. n \in 1..n /\ n \in 1..(n + 1) /\ n + 1 \in 1..(n + 1)
    BY <1>1
  <2>2. InMempool(published'[n], t) /\ ~InMempool(published'[n + 1], t)
    BY <1>1, <1>5, <2>1
  <2>3. PICK i : i = n
    OBVIOUS
  <2>4. Leaves(i, t)'
    BY <1>2, <2>1, <2>2, <2>3
  <2> QED BY <2>1, <2>3, <2>4
<1> QED BY <1>1, <1>3, <1>4, <1>5 DEF n

(* A state is published: what became of a transaction stays true when its  *)
(* blocks hold more only of what then leaves the mempool.                  *)
LEMMA CallerPublish ==
  ASSUME SimTypeOK, Orderly, NEW t \in Transactions, CallerOf(t),
         NEW s \in SimState, Publish(s), Follows(Latest, s),
         discarded \subseteq discarded', t \in discarded' => ~producing',
         InMempool(s, t) => InMempool(Latest, t) \/ (WasSubmitted(t)' /\ ~WasSubmitted(t)),
         BlocksWith(s, t) # BlocksWith(Latest, t) => /\ producing /\ WasSubmitted(t)
                                                    /\ discarded' = discarded /\ ~InMempool(s, t),
         t \in discarded' \ discarded => producing /\ WasSubmitted(t) /\ ~InMempool(s, t),
         InMempool(Latest, t) /\ ~InMempool(s, t) => BlocksWith(s, t) # {} \/ t \in discarded',
         ~WasSubmitted(t) /\ WasSubmitted(t)' => InMempool(s, t),
         WasSubmitted(t) => caller'[t] = caller[t] /\ answer'[t] = answer[t],
         caller'[t] \in {"included", "discarded"} => WasSubmitted(t),
         caller'[t] = "distributed" => t \in Rewards /\ t \in s.ledger.claimable,
         producing \/ ~producing'
  PROVE  CallerOf(t)'
<1> DEFINE n == Len(published)
<1>1. published \in Seq(SimState) /\ published # <<>>
  BY DEF SimTypeOK
<1>2. /\ n \in Nat \ {0} /\ DOMAIN published' = 1..(n + 1) /\ DOMAIN published = 1..n
      /\ \A i \in 1..n : published'[i] = published[i]
      /\ published'[n + 1] = s /\ Latest' = s
  BY <1>1, PublishFacts
<1>3. Latest \in SimState /\ BlocksWith(Latest, t) \subseteq BlocksWith(s, t)
  BY <1>1, LatestFacts, BlocksStay
<1>l. /\ \A i \in DOMAIN published : Leaves(i, t) => Leaves(i, t)' /\ i \in DOMAIN published'
                                                 /\ published'[i + 1] = published[i + 1]
      /\ \A i \in DOMAIN published' : Leaves(i, t)' =>
           \/ i \in DOMAIN published /\ Leaves(i, t)
           \/ i = n /\ InMempool(Latest, t) /\ ~InMempool(s, t)
      /\ InMempool(Latest, t) /\ ~InMempool(s, t) => \E i \in DOMAIN published' : Leaves(i, t)'
  BY <1>1, LeavesPublish
<1> HIDE DEF n
<1>s. WasSubmitted(t) => WasSubmitted(t)'
  BY DEF WasSubmitted
<1>p. (BlocksWith(Latest, t))' = BlocksWith(s, t) /\ (InMempool(Latest, t))' = InMempool(s, t)
  BY <1>2 DEF BlocksWith, InMempool
<1>4. ASSUME ~WasSubmitted(t)'
      PROVE  /\ t \notin discarded' /\ BlocksWith(s, t) = {}
             /\ \A i \in DOMAIN published' : ~InMempool(published'[i], t)
  <2>1. ~WasSubmitted(t)
    BY <1>4, <1>s
  <2>2. /\ t \notin discarded /\ BlocksWith(Latest, t) = {}
        /\ \A i \in DOMAIN published : ~InMempool(published[i], t)
    BY <2>1 DEF CallerOf
  <2>3. t \notin discarded' /\ BlocksWith(s, t) = {}
    BY <2>1, <2>2
  <2>4. ~InMempool(Latest, t)
    BY <1>1, <2>2, LatestFacts
  <2>5. ~InMempool(s, t)
    BY <1>4, <2>4
  <2>6. \A i \in 1..(n + 1) : i \in 1..n \/ i = n + 1
    BY <1>2
  <2> QED BY <1>2, <2>2, <2>3, <2>5, <2>6
<1>5. ASSUME InMempool(s, t)
      PROVE  BlocksWith(s, t) = {} /\ t \notin discarded'
  <2>1. BlocksWith(s, t) = BlocksWith(Latest, t) /\ (t \in discarded' => t \in discarded)
    BY <1>5
  <2>2. BlocksWith(Latest, t) = {} /\ t \notin discarded
    BY <1>5 DEF CallerOf
  <2> QED BY <2>1, <2>2
<1>6. ASSUME WasSubmitted(t)'
      PROVE  InMempool(s, t) \/ \E i \in DOMAIN published' : Leaves(i, t)'
  <2>1. CASE ~WasSubmitted(t)
    BY <1>6, <2>1
  <2>2. CASE WasSubmitted(t)
    <3>1. InMempool(Latest, t) \/ \E i \in DOMAIN published : Leaves(i, t)
      BY <2>2 DEF CallerOf
    <3>2. CASE \E i \in DOMAIN published : Leaves(i, t)
      <4>1. PICK i \in DOMAIN published : Leaves(i, t)
        BY <3>2
      <4>2. Leaves(i, t)' /\ i \in DOMAIN published'
        BY <1>l, <4>1
      <4> QED BY <4>2
    <3>3. CASE InMempool(Latest, t) /\ ~InMempool(s, t)
      BY <1>l, <3>3
    <3> QED BY <3>1, <3>2, <3>3
  <2> QED BY <2>1, <2>2
<1>7. ASSUME NEW i \in DOMAIN published', Leaves(i, t)'
      PROVE  BlocksWith(published'[i + 1], t) # {} \/ (t \in discarded' /\ BlocksWith(s, t) = {})
  <2>1. CASE i \in DOMAIN published /\ Leaves(i, t)
    <3>1. \/ BlocksWith(published[i + 1], t) # {}
          \/ t \in discarded /\ BlocksWith(Latest, t) = {}
      BY <2>1 DEF CallerOf
    <3>2. published'[i + 1] = published[i + 1]
      BY <1>l, <2>1
    <3>3. ASSUME t \in discarded, BlocksWith(Latest, t) = {}
          PROVE  t \in discarded' /\ BlocksWith(s, t) = {}
      BY <3>3 DEF CallerOf
    <3> QED BY <3>1, <3>2, <3>3
  <2>2. CASE i = n /\ InMempool(Latest, t) /\ ~InMempool(s, t)
    <3>1. BlocksWith(Latest, t) = {} /\ t \notin discarded
      BY <2>2 DEF CallerOf
    <3>2. published'[i + 1] = s
      BY <1>2, <2>2
    <3>3. CASE BlocksWith(s, t) # {}
      BY <3>2, <3>3
    <3>4. CASE BlocksWith(s, t) = {}
      BY <2>2, <3>4
    <3> QED BY <3>3, <3>4
  <2> QED BY <1>7, <1>l, <2>1, <2>2
<1>8. caller'[t] = "included" => answer'[t] + 1 \in BlocksWith(s, t)
  BY <1>3 DEF CallerOf
<1>9. caller'[t] = "discarded" => t \in discarded' /\ BlocksWith(s, t) = {}
  <2>1. ASSUME caller'[t] = "discarded"
        PROVE  t \in discarded' /\ BlocksWith(s, t) = {}
    <3>1. caller[t] = "discarded"
      BY <2>1
    <3>2. t \in discarded /\ BlocksWith(Latest, t) = {} /\ ~producing
      BY <3>1 DEF CallerOf
    <3> QED BY <3>2
  <2> QED BY <2>1
<1>10. caller'[t] = "distributed" => t \in Rewards /\ t \in (Latest.ledger.claimable)'
  BY <1>2
<1>11. \A i \in DOMAIN published' : (InMempool(published[i], t))' = InMempool(published'[i], t)
  BY DEF InMempool
<1>12. \A i \in DOMAIN published' : (BlocksWith(published[i + 1], t))' = BlocksWith(published'[i + 1], t)
  BY DEF BlocksWith
<1> QED BY <1>4, <1>5, <1>6, <1>7, <1>8, <1>9, <1>10, <1>11, <1>12, <1>p DEF CallerOf

(* Submitting, handing out a reward, moving the clock.                     *)
LEMMA CallerPlain ==
  ASSUME SimTypeOK, Orderly, CallerInv, NEW s, Plain(s), Publish(s), NEW t0,
         UNCHANGED <<producing, discarded, answer>>,
         \A u : InMempool(s, u) => InMempool(Latest, u) \/ (u = t0 /\ WasSubmitted(u)' /\ ~WasSubmitted(u)),
         \A u : InMempool(Latest, u) => InMempool(s, u),
         \A u \in Transactions : u # t0 => caller'[u] = caller[u],
         WasSubmitted(t0) => caller'[t0] = caller[t0],
         WasSubmitted(t0)' /\ ~WasSubmitted(t0) => InMempool(s, t0),
         caller'[t0] \in {"included", "discarded"} => WasSubmitted(t0),
         caller'[t0] = "distributed" => t0 \in Rewards /\ t0 \in s.ledger.claimable
  PROVE  CallerInv'
<1>1. published \in Seq(SimState) /\ published # <<>>
  BY DEF SimTypeOK
<1>2. Latest \in SimState /\ s \in SimState /\ Follows(Latest, s)
  BY <1>1, LatestFacts, StateFacts DEF Plain, Follows, LaterLedger, MoreBlocks
<1>3. \A u : BlocksWith(s, u) = BlocksWith(Latest, u)
  BY DEF Plain, BlocksWith
<1> SUFFICES ASSUME NEW t \in Transactions PROVE CallerOf(t)'
  BY DEF CallerInv
<1>4. CallerOf(t)
  BY DEF CallerInv
<1>5. discarded \subseteq discarded' /\ t \notin discarded' \ discarded /\ (producing \/ ~producing')
  OBVIOUS
<1>6. t \in discarded' => ~producing'
  BY <1>4 DEF CallerOf
<1>7. InMempool(s, t) => InMempool(Latest, t) \/ (WasSubmitted(t)' /\ ~WasSubmitted(t))
  OBVIOUS
<1>8. ~(InMempool(Latest, t) /\ ~InMempool(s, t))
  OBVIOUS
<1>9. /\ ~WasSubmitted(t) /\ WasSubmitted(t)' => InMempool(s, t)
      /\ WasSubmitted(t) => caller'[t] = caller[t] /\ answer'[t] = answer[t]
      /\ caller'[t] \in {"included", "discarded"} => WasSubmitted(t)
      /\ caller'[t] = "distributed" => t \in Rewards /\ t \in s.ledger.claimable
  <2>1. CASE t = t0
    BY <2>1
  <2>2. CASE t # t0
    <3>1. caller'[t] = caller[t]
      BY <2>2
    <3>2. caller[t] = "distributed" => t \in Rewards /\ t \in s.ledger.claimable
      BY <1>4 DEF CallerOf, Plain
    <3> QED BY <3>1, <3>2 DEF WasSubmitted
  <2> QED BY <2>1, <2>2
<1>10. BlocksWith(s, t) # BlocksWith(Latest, t) => FALSE
  BY <1>3
<1> QED BY <1>2, <1>4, <1>5, <1>6, <1>7, <1>8, <1>9, <1>10, CallerPublish

(* Steps that concern neither callers nor producer.                        *)
LEMMA CallerSame ==
  ASSUME CallerInv, UNCHANGED <<published, producing, discarded, caller, answer>>
  PROVE  CallerInv'
<1> SUFFICES ASSUME NEW t \in Transactions
             PROVE  CallerOf(t)'
  BY DEF CallerInv
<1>1. CallerOf(t) /\ (WasSubmitted(t)' <=> WasSubmitted(t))
  BY DEF CallerInv, WasSubmitted
<1>2. Latest' = Latest /\ (BlocksWith(Latest, t))' = BlocksWith(Latest, t)
  BY DEF Latest, BlocksWith
<1>3. /\ (InMempool(Latest, t))' <=> InMempool(Latest, t)
      /\ \A i : /\ Leaves(i, t)' <=> Leaves(i, t)
                /\ (InMempool(published[i], t))' <=> InMempool(published[i], t)
                /\ (BlocksWith(published[i + 1], t))' = BlocksWith(published[i + 1], t)
  BY <1>2 DEF InMempool, Leaves, BlocksWith
<1> QED BY <1>1, <1>2, <1>3 DEF CallerOf

(* Every step keeps what callers can rely on.                              *)
LEMMA CallerStep ==
  ASSUME SimTypeOK, Orderly, CallerInv, SimulatorNext
  PROVE  CallerInv'
<1>1. published \in Seq(SimState) /\ published # <<>> /\ caller \in [Transactions -> Fate] /\ answer \in [Transactions -> Nat]
  BY DEF SimTypeOK, Fate
<1>2. Latest \in SimState /\ Numbered(Latest)
  BY <1>1, LatestFacts DEF Orderly
<1>3. ASSUME NEW t \in Transactions, SubmitAndWait(t) \/ SubmitAndForget(t) \/ SubmitClaim(t)
      PROVE  CallerInv'
  <2>1. PICK strictness \in {"none", "genesis"}, how \in {"waiting", "forgotten"} :
          /\ Publish(AddToMempool(Latest, t, strictness))
          /\ caller[t] \in {"none", "distributed"} /\ caller' = [caller EXCEPT ![t] = how]
          /\ UNCHANGED <<producing, discarded, answer>>
    BY <1>3 DEF SubmitAndWait, SubmitAndForget, SubmitClaim, Enqueue
  <2>2. PICK s : s = AddToMempool(Latest, t, strictness)
    OBVIOUS
  <2>3. Plain(s) /\ \A u : InMempool(s, u) <=> InMempool(Latest, u) \/ u = t
    BY <1>1, <2>2, MempoolStep
  <2>4. /\ ~WasSubmitted(t) /\ WasSubmitted(t)' /\ caller'[t] \notin {"included", "discarded", "distributed"}
        /\ \A u \in Transactions : u # t => caller'[u] = caller[u]
    BY <1>1, <2>1 DEF WasSubmitted
  <2> QED BY <2>1, <2>2, <2>3, <2>4, CallerPlain
<1>4. ASSUME NEW t \in Transactions, DistributeNight(t)
      PROVE  CallerInv'
  <2> DEFINE s == [Latest EXCEPT !.ledger.claimable = @ \cup {t}]
  <2>1. Latest.ledger \in LedgerState
    BY <1>2, StateFacts
  <2>2. [Latest.ledger EXCEPT !.claimable = @ \cup {t}] \in LedgerState
    BY <2>1 DEF LedgerState
  <2>3. s = [Latest EXCEPT !.ledger = [Latest.ledger EXCEPT !.claimable = @ \cup {t}]]
    BY <1>2, <2>1 DEF SimState, LedgerState
  <2>4. /\ s \in SimState /\ s.ledger = [Latest.ledger EXCEPT !.claimable = @ \cup {t}]
        /\ s.blocks = Latest.blocks /\ s.mempool = Latest.mempool
    BY <1>2, <2>2, <2>3 DEF SimState
  <2>5. Plain(s) /\ t \in s.ledger.claimable
    BY <2>1, <2>4 DEF Plain, LedgerState
  <2>6. \A u : InMempool(s, u) <=> InMempool(Latest, u)
    BY <2>4 DEF InMempool
  <2>7. /\ ~WasSubmitted(t) /\ ~WasSubmitted(t)' /\ caller'[t] = "distributed" /\ t \in Rewards
        /\ \A u \in Transactions : u # t => caller'[u] = caller[u]
    BY <1>1, <1>4 DEF WasSubmitted, DistributeNight
  <2>8. Publish(s) /\ UNCHANGED <<producing, discarded, answer>>
    BY <1>4 DEF DistributeNight
  <2> HIDE DEF s
  <2> QED BY <2>5, <2>6, <2>7, <2>8, CallerPlain
<1>5. ASSUME FastForward
      PROVE  CallerInv'
  <2> DEFINE s == [Latest EXCEPT !.time = @ + 2]
  <2>1. Latest.time + 2 \in Nat
    BY <1>2, StateFacts
  <2>2. s \in SimState /\ s.ledger = Latest.ledger /\ s.blocks = Latest.blocks /\ s.mempool = Latest.mempool
    BY <1>2, <2>1 DEF SimState
  <2>3. Plain(s)
    BY <2>2 DEF Plain
  <2>4. \A u : InMempool(s, u) <=> InMempool(Latest, u)
    BY <2>2 DEF InMempool
  <2>5. Publish(s) /\ UNCHANGED <<producing, discarded, caller, answer>>
    BY <1>5 DEF FastForward, callerVars
  <2>6. /\ \A u : WasSubmitted(u)' <=> WasSubmitted(u)
        /\ \A u \in Transactions : caller'[u] = caller[u]
    BY <2>5 DEF WasSubmitted
  <2> HIDE DEF s
  <2>8. CASE \E t \in Transactions : TRUE
    <3>1. PICK t \in Transactions : TRUE
      BY <2>8
    <3>2. /\ caller'[t] \in {"included", "discarded"} => WasSubmitted(t)
          /\ caller'[t] = "distributed" => t \in Rewards /\ t \in s.ledger.claimable
      BY <2>3, <2>6 DEF CallerInv, CallerOf, Plain, WasSubmitted
    <3> QED BY <2>3, <2>4, <2>5, <2>6, <3>2, CallerPlain
  <2>9. CASE ~\E t \in Transactions : TRUE
    BY <2>9 DEF CallerInv
  <2> QED BY <2>8, <2>9
<1>6. ASSUME ProduceBlock
      PROVE  CallerInv'
  <2>1. handled + 1 \in DOMAIN published
    BY <1>1, <1>6 DEF ProduceBlock, SimTypeOK
  <2> DEFINE m == published[handled + 1].mempool
             r == AssignStrictness(m)
             Requested(t) == \E i \in DOMAIN m : m[i].tx = t
  <2>2. m \in Seq(Waiting)
    BY <1>1, <2>1, LatestFacts, StateFacts
  <2>3. \A t : Requested(t) <=> InMempool(published[handled + 1], t)
    BY DEF InMempool
  <2>4. producing /\ UNCHANGED callerVars
    BY <1>6 DEF ProduceBlock
  <2>5. PICK early \in BOOLEAN :
          \/ /\ ProcessTransactions(Latest.ledger, r, Latest.time + 1, early).ok
             /\ Publish(CreateBlock(Latest, ProcessTransactions(Latest.ledger, r, Latest.time + 1, early),
                                    Latest.time + 1, r))
             /\ UNCHANGED <<producing, discarded>>
          \/ /\ DiscardRequest(r) /\ producing' = FALSE
             /\ discarded' = discarded \cup {r[i].tx : i \in DOMAIN r}
    BY <1>6 DEF ProduceBlock
  <2> HIDE DEF m
  <2>6. \A t : WasSubmitted(t)' <=> WasSubmitted(t)
    BY <2>4 DEF WasSubmitted, callerVars
  <2>7. \A t \in Transactions : Requested(t) => WasSubmitted(t)
    BY <2>1, <2>3 DEF CallerInv, CallerOf
  <2> HIDE DEF Requested
  <2>u. UNCHANGED <<caller, answer>>
    BY <2>4 DEF callerVars
  <2>8. CASE /\ ProcessTransactions(Latest.ledger, r, Latest.time + 1, early).ok
             /\ Publish(CreateBlock(Latest, ProcessTransactions(Latest.ledger, r, Latest.time + 1, early),
                                    Latest.time + 1, r))
             /\ UNCHANGED <<producing, discarded>>
    <3>1. PICK s : s = CreateBlock(Latest, ProcessTransactions(Latest.ledger, r, Latest.time + 1, early),
                                   Latest.time + 1, r)
      OBVIOUS
    <3>2. Blocked(Latest, s, m, early)
      BY <2>8, <3>1 DEF Blocked
    <3>3. /\ s \in SimState /\ Follows(Latest, s)
          /\ Len(s.blocks) = Len(Latest.blocks) + 1
          /\ \A b \in DOMAIN Latest.blocks : s.blocks[b] = Latest.blocks[b]
          /\ \A t : (\E i \in DOMAIN s.blocks[Len(Latest.blocks) + 1].txs :
                       s.blocks[Len(Latest.blocks) + 1].txs[i].tx = t) <=> Requested(t)
          /\ \A t : InMempool(s, t) <=> InMempool(Latest, t) /\ ~Requested(t)
          /\ \A t \in Latest.ledger.claimable : ~Requested(t) => t \in s.ledger.claimable
      <4>1. NextBlock(Latest, s, m)
        BY <1>2, <2>2, <3>2, BlockFacts
      <4> QED BY <4>1 DEF NextBlock, Requested
    <3>4. /\ DOMAIN s.blocks = (DOMAIN Latest.blocks) \cup {Len(Latest.blocks) + 1}
      BY <1>2, <3>3, StateFacts
    <3>5. \A t : /\ ~Requested(t) => BlocksWith(s, t) = BlocksWith(Latest, t)
                 /\ Requested(t) => BlocksWith(s, t) # {}
      BY <3>3, <3>4 DEF BlocksWith
    <3> SUFFICES ASSUME NEW t \in Transactions PROVE CallerOf(t)'
      BY DEF CallerInv
    <3>6. CallerOf(t)
      BY DEF CallerInv
    <3>7. Publish(s)
      BY <2>8, <3>1
    <3>8. caller'[t] = "distributed" => t \in Rewards /\ t \in s.ledger.claimable
      <4>1. caller[t] = "distributed" => t \in Rewards /\ t \in Latest.ledger.claimable /\ ~WasSubmitted(t)
        BY <3>6 DEF CallerOf, WasSubmitted
      <4> QED BY <2>7, <2>u, <3>3, <4>1
    <3>9. caller'[t] \in {"included", "discarded"} => WasSubmitted(t)
      BY <2>u DEF WasSubmitted
    <3>10. t \in discarded' => ~producing'
      BY <2>8, <3>6 DEF CallerOf
    <3>11. BlocksWith(s, t) # BlocksWith(Latest, t) =>
             producing /\ WasSubmitted(t) /\ discarded' = discarded /\ ~InMempool(s, t)
      BY <2>4, <2>7, <2>8, <3>3, <3>5
    <3>12. InMempool(s, t) => InMempool(Latest, t) \/ (WasSubmitted(t)' /\ ~WasSubmitted(t))
      BY <3>3
    <3>13. InMempool(Latest, t) /\ ~InMempool(s, t) => BlocksWith(s, t) # {} \/ t \in discarded'
      BY <3>3, <3>5
    <3> QED BY <2>4, <2>6, <2>8, <2>u, <3>3, <3>6, <3>7, <3>8, <3>9, <3>10, <3>11, <3>12, <3>13, CallerPublish
  <2>9. CASE /\ DiscardRequest(r) /\ producing' = FALSE
             /\ discarded' = discarded \cup {r[i].tx : i \in DOMAIN r}
    <3> DEFINE s == [Latest EXCEPT !.mempool = WithoutTxs(@, r)]
    <3>1. /\ WithoutTxs(Latest.mempool, r) \in Seq(Waiting)
          /\ \A t : Holds(WithoutTxs(Latest.mempool, r), t) <=> Holds(Latest.mempool, t) /\ ~Holds(r, t)
      BY <1>2, StateFacts, WithoutFacts
    <3>2. /\ s \in SimState /\ s.ledger = Latest.ledger /\ s.blocks = Latest.blocks
          /\ s.mempool = WithoutTxs(Latest.mempool, r)
      BY <1>2, <3>1 DEF SimState
    <3>3. \A t : Requested(t) <=> Holds(r, t)
      BY <2>2, RequestFacts DEF Requested, Holds
    <3>p. Publish(s)
      BY <2>9 DEF DiscardRequest
    <3> HIDE DEF s
    <3>4. \A t : InMempool(s, t) <=> InMempool(Latest, t) /\ ~Requested(t)
      BY <3>1, <3>2, <3>3 DEF InMempool, Holds
    <3>5. \A t : t \in discarded' <=> t \in discarded \/ Requested(t)
      BY <2>9, <3>3 DEF Holds
    <3>6. Follows(Latest, s) /\ \A t : BlocksWith(s, t) = BlocksWith(Latest, t)
      BY <1>2, <3>2, StateFacts, LaterOrder DEF Follows, MoreBlocks, BlocksWith
    <3> SUFFICES ASSUME NEW t \in Transactions PROVE CallerOf(t)'
      BY DEF CallerInv
    <3>7. CallerOf(t)
      BY DEF CallerInv
    <3>8. caller'[t] = "distributed" => t \in Rewards /\ t \in s.ledger.claimable
      BY <2>u, <3>2, <3>7 DEF CallerOf
    <3>9. caller'[t] \in {"included", "discarded"} => WasSubmitted(t)
      BY <2>u DEF WasSubmitted
    <3>10. discarded \subseteq discarded' /\ (t \in discarded' => ~producing')
      BY <2>9
    <3>11. t \in discarded' \ discarded => producing /\ WasSubmitted(t) /\ ~InMempool(s, t)
      BY <2>4, <2>7, <3>4, <3>5
    <3>12. InMempool(s, t) => InMempool(Latest, t) \/ (WasSubmitted(t)' /\ ~WasSubmitted(t))
      BY <3>4
    <3>13. InMempool(Latest, t) /\ ~InMempool(s, t) => BlocksWith(s, t) # {} \/ t \in discarded'
      BY <3>4, <3>5
    <3>14. BlocksWith(s, t) # BlocksWith(Latest, t) => FALSE
      BY <3>6
    <3> QED BY <2>4, <2>6, <2>9, <2>u, <3>2, <3>p, <3>6, <3>7, <3>8, <3>9, <3>10, <3>11, <3>12, <3>13, <3>14, CallerPublish
  <2> QED BY <2>5, <2>8, <2>9
<1>7. ASSUME NEW t0 \in Transactions, AnswerCaller(t0)
      PROVE  CallerInv'
  <2>1. PICK i0 \in DOMAIN published :
          /\ Leaves(i0, t0)
          /\ \/ /\ BlocksWith(published[i0 + 1], t0) = {}
                /\ caller' = [caller EXCEPT ![t0] = "discarded"] /\ UNCHANGED answer
             \/ \E b \in BlocksWith(published[i0 + 1], t0) :
                  /\ caller' = [caller EXCEPT ![t0] = "included"]
                  /\ answer' = [answer EXCEPT ![t0] = b - 1]
    BY <1>7, AnswerFacts
  <2>2. UNCHANGED <<published, producing, discarded>> /\ caller[t0] = "waiting"
    BY <1>7 DEF AnswerCaller, producerVars
  <2>3. \A t \in Transactions : t # t0 => caller'[t] = caller[t] /\ answer'[t] = answer[t]
    BY <1>1, <2>1
  <2>4. WasSubmitted(t0) /\ WasSubmitted(t0)' /\ CallerOf(t0)
    BY <1>1, <2>1, <2>2 DEF WasSubmitted, CallerInv
  <2>5. caller'[t0] = "discarded" => t0 \in discarded /\ BlocksWith(Latest, t0) = {}
    BY <1>1, <2>1, <2>4 DEF CallerOf
  <2>6. caller'[t0] = "included" => answer'[t0] + 1 \in BlocksWith(Latest, t0)
    <3>1. SUFFICES ASSUME caller'[t0] = "included" PROVE answer'[t0] + 1 \in BlocksWith(Latest, t0)
      OBVIOUS
    <3>2. PICK b \in BlocksWith(published[i0 + 1], t0) : answer' = [answer EXCEPT ![t0] = b - 1]
      BY <1>1, <2>1, <3>1
    <3>3. /\ i0 + 1 \in DOMAIN published /\ published[i0 + 1] \in SimState
          /\ Follows(published[i0 + 1], Latest)
      <4>1. i0 + 1 \in DOMAIN published
        BY <2>1 DEF Leaves
      <4> QED BY <1>1, <4>1, LatestFacts DEF Orderly
    <3>4. b \in BlocksWith(Latest, t0) /\ b \in Nat
      <4>1. BlocksWith(published[i0 + 1], t0) \subseteq BlocksWith(Latest, t0)
        BY <1>2, <3>3, BlocksStay
      <4>2. BlocksWith(Latest, t0) \subseteq Nat
        BY <1>2, StateFacts DEF BlocksWith
      <4> QED BY <4>1, <4>2
    <3>5. answer'[t0] + 1 = b
      BY <1>1, <3>2, <3>4
    <3> QED BY <3>4, <3>5
  <2>7. caller'[t0] # "distributed"
    BY <1>1, <2>1
  <2> SUFFICES ASSUME NEW t \in Transactions PROVE CallerOf(t)'
    BY DEF CallerInv
  <2>8. CallerOf(t)
    BY DEF CallerInv
  <2>9. Latest' = Latest /\ \A u : (BlocksWith(Latest, u))' = BlocksWith(Latest, u)
    BY <2>2 DEF Latest, BlocksWith
  <2>10. /\ (InMempool(Latest, t))' <=> InMempool(Latest, t)
         /\ \A i : /\ Leaves(i, t)' <=> Leaves(i, t)
                   /\ (InMempool(published[i], t))' <=> InMempool(published[i], t)
                   /\ (BlocksWith(published[i + 1], t))' = BlocksWith(published[i + 1], t)
    BY <2>2, <2>9 DEF InMempool, Leaves, BlocksWith
  <2>11. CASE t = t0
    BY <2>2, <2>4, <2>5, <2>6, <2>7, <2>8, <2>9, <2>10, <2>11 DEF CallerOf
  <2>12. CASE t # t0
    <3>1. (WasSubmitted(t)' <=> WasSubmitted(t)) /\ caller'[t] = caller[t] /\ answer'[t] = answer[t]
      BY <2>3, <2>12 DEF WasSubmitted
    <3> QED BY <2>2, <2>8, <2>9, <2>10, <3>1 DEF CallerOf
  <2> QED BY <2>11, <2>12
<1>8. (UNCHANGED <<published, producing, discarded, caller, answer>>) => CallerInv'
  BY CallerSame
<1>9. ASSUME NEW t \in Transactions, BookInputs(t)
      PROVE  CallerInv'
  BY <1>8, <1>9 DEF BookInputs, producerVars, callerVars
<1>10. ASSUME NEW w \in Followers, TakeLatest(w) \/ Subscribe(w) \/ TakeState(w) \/ StopSync(w)
       PROVE  CallerInv'
  BY <1>8, <1>10 DEF TakeLatest, Subscribe, TakeState, StopSync, producerVars, callerVars
<1>11. SkipState => CallerInv'
  BY <1>8 DEF SkipState, callerVars
<1> QED BY <1>3, <1>4, <1>5, <1>6, <1>7, <1>9, <1>10, <1>11 DEF SimulatorNext

-----------------------------------------------------------------------------
(* The event wallets                                                       *)

(* The transactions of the first blocks.                                   *)
FirstBlocks(s, n) == Flat([i \in 1..n |-> s.blocks[i].txs])

(* Later states have the same first blocks.                                *)
LEMMA SameBlocks ==
  ASSUME NEW s1 \in SimState, NEW s2 \in SimState, Follows(s1, s2), NEW n \in Nat, n <= Len(s1.blocks)
  PROVE  FirstBlocks(s1, n) = FirstBlocks(s2, n)
<1>1. Len(s1.blocks) \in Nat /\ DOMAIN s1.blocks = 1..Len(s1.blocks)
  BY StateFacts
<1>2. \A i \in 1..n : s1.blocks[i].txs = s2.blocks[i].txs
  BY <1>1 DEF Follows, MoreBlocks
<1>3. [i \in 1..n |-> s1.blocks[i].txs] = [i \in 1..n |-> s2.blocks[i].txs]
  BY <1>2
<1> QED BY <1>3 DEF FirstBlocks

(* Replaying from a position on completes what was replayed up to it.      *)
LEMMA ReplayRest ==
  ASSUME NEW s \in SimState, Numbered(s), NEW a \in Nat, a <= Len(s.blocks)
  PROVE  FirstBlocks(s, Len(s.blocks)) = FirstBlocks(s, a) \o BlockEventsFrom(s, a)
<1> DEFINE n == Len(s.blocks)
           first == [i \in 1..a |-> s.blocks[i].txs]
           whole == [i \in 1..n |-> s.blocks[i].txs]
           rest == [i \in DOMAIN s.blocks |->
                     IF s.blocks[i].number >= a THEN s.blocks[i].txs ELSE <<>>]
<1>1. n \in Nat /\ DOMAIN s.blocks = 1..n /\ a <= n
  BY StateFacts
<1>2. \A b \in 1..n : s.blocks[b].txs \in Seq(Included) /\ s.blocks[b].number = b - 1
  BY <1>1, StateFacts DEF Numbered
<1>3. BlockEventsFrom(s, a) = Flat(rest) /\ FirstBlocks(s, n) = Flat(whole) /\ FirstBlocks(s, a) = Flat(first)
  BY DEF BlockEventsFrom, FirstBlocks
<1> HIDE DEF n
<1>4. <<>> \in Seq(Included)
  OBVIOUS
<1>5. first \in [1..a -> Seq(Included)] /\ whole \in [1..n -> Seq(Included)] /\ rest \in [1..n -> Seq(Included)]
  BY <1>1, <1>2, <1>4
<1>6. \A i \in 1..a : whole[i] = first[i] /\ rest[i] = <<>>
  BY <1>1, <1>2
<1>7. \A i \in 1..n : i > a => rest[i] = whole[i]
  BY <1>1, <1>2
<1> HIDE DEF first, whole, rest
<1>8. /\ first \in Seq(Seq(Included)) /\ Len(first) = a
      /\ whole \in Seq(Seq(Included)) /\ Len(whole) = n
      /\ rest \in Seq(Seq(Included)) /\ Len(rest) = n
  BY <1>1, <1>5, ListOfLists
<1>9. Flat(whole) = Cat(Flat(first), Flat(rest))
  <2>1. Splits(whole, first, rest, a, n)
    BY <1>1, <1>6, <1>7, <1>8 DEF Splits
  <2> QED BY <1>1, <1>8, <2>1, FlatSplit
<1> QED BY <1>3, <1>9 DEF n, Cat

(* The event wallet is given a state with as many blocks as it replayed.   *)
LEMMA ApplyFacts ==
  ASSUME SimTypeOK, Orderly, ReplayInv, NEW k \in DOMAIN published,
         appliedIndex <= Len(published[k].blocks), ApplyBlocks(published[k])
  PROVE  /\ appliedIndex' = Len(published[k].blocks) /\ appliedIndex' <= Len(Latest.blocks)
         /\ replayed' = FirstBlocks(Latest, appliedIndex')
<1>1. /\ published \in Seq(SimState) /\ published # <<>> /\ appliedIndex \in Nat
  BY DEF SimTypeOK
<1>2. /\ published[k] \in SimState /\ Numbered(published[k]) /\ Follows(published[k], Latest)
      /\ Latest \in SimState
  BY <1>1, LatestFacts DEF Orderly
<1>3. PICK s \in SimState : s = published[k]
  BY <1>2
<1>4. Numbered(s) /\ Follows(s, Latest) /\ appliedIndex <= Len(s.blocks) /\ ApplyBlocks(s)
  BY <1>2, <1>3
<1>5. appliedIndex' = Len(s.blocks) /\ Len(s.blocks) \in Nat
  BY <1>4, LastBlock DEF ApplyBlocks
<1>6. Len(s.blocks) <= Len(Latest.blocks)
  BY <1>4 DEF Follows, MoreBlocks
<1>7. replayed = FirstBlocks(Latest, appliedIndex)
  BY DEF ReplayInv, FirstBlocks
<1>8. FirstBlocks(s, appliedIndex) = FirstBlocks(Latest, appliedIndex)
  BY <1>1, <1>2, <1>4, SameBlocks
<1>9. replayed' = FirstBlocks(s, appliedIndex) \o BlockEventsFrom(s, appliedIndex)
  BY <1>4, <1>7, <1>8 DEF ApplyBlocks
<1>10. replayed' = FirstBlocks(s, Len(s.blocks))
  BY <1>1, <1>4, <1>9, ReplayRest
<1>11. FirstBlocks(s, Len(s.blocks)) = FirstBlocks(Latest, Len(s.blocks))
  BY <1>2, <1>4, <1>5, SameBlocks
<1> QED BY <1>3, <1>5, <1>6, <1>10, <1>11

(* Every step keeps the position of the event wallets right.               *)
LEMMA ReplayStep ==
  ASSUME SimTypeOK, Orderly, ReplayInv, SimulatorNext
  PROVE  ReplayInv'
<1>1. /\ published \in Seq(SimState) /\ published # <<>> /\ appliedIndex \in Nat
      /\ stream \in [Followers -> Stream]
      /\ \A w \in Followers : stream[w].at # "off" => stream[w].next # 0
  BY DEF SimTypeOK, Stream
<1>2. /\ Len(published) \in DOMAIN published /\ DOMAIN published = 1..Len(published) /\ Len(published) \in Nat
      /\ Latest = published[Len(published)] /\ Latest \in SimState
      /\ \A i \in DOMAIN published : published[i] \in SimState /\ Len(published[i].blocks) \in Nat
      /\ Len(Latest.blocks) \in Nat
  BY <1>1, LatestFacts, StateFacts
<1>3. \A i, j \in DOMAIN published : i <= j => Len(published[i].blocks) <= Len(published[j].blocks)
  BY DEF Orderly, Follows, MoreBlocks
<1>4. "events" \in Followers /\ "unshielded" \in Followers /\ \A w \in Followers : w # "unshielded" => w = "events"
  BY DEF Followers
<1>5. stream["events"] \in Stream /\ stream["events"].seen \in Nat /\ stream["events"].next \in Nat
  BY <1>1, <1>4 DEF Stream
<1>6. replayed = FirstBlocks(Latest, appliedIndex) /\ appliedIndex <= Len(Latest.blocks)
  BY DEF ReplayInv, FirstBlocks
<1>7. ASSUME UNCHANGED followerVars, NEW s \in SimState, Publish(s), Follows(Latest, s)
      PROVE  ReplayInv'
  <2> DEFINE n == Len(published)
  <2>1. /\ n \in Nat \ {0} /\ DOMAIN published' = 1..(n + 1) /\ DOMAIN published = 1..n
        /\ \A i \in 1..n : published'[i] = published[i]
        /\ published'[n + 1] = s /\ Latest' = s
    BY <1>1, <1>7, PublishFacts
  <2>2. Len(Latest.blocks) <= Len(s.blocks) /\ Len(s.blocks) \in Nat
    BY <1>7, StateFacts DEF Follows, MoreBlocks
  <2>3. UNCHANGED <<stream, appliedIndex, replayed>>
    BY <1>7 DEF followerVars
  <2> HIDE DEF n
  <2>4. replayed' = FirstBlocks(s, appliedIndex')
    BY <1>1, <1>2, <1>6, <1>7, <2>3, SameBlocks
  <2>5. appliedIndex' <= Len(s.blocks)
    BY <1>1, <1>2, <1>6, <2>2, <2>3
  <2>6. ASSUME stream["events"].at = "shared", NEW j \in DOMAIN published',
               j >= stream["events"].next, stream["events"].seen < Len(published'[j].blocks)
        PROVE  appliedIndex' <= Len(published'[j].blocks)
    <3>1. CASE j \in 1..n
      BY <2>1, <2>3, <2>6, <3>1 DEF ReplayInv
    <3>2. CASE j = n + 1
      BY <2>1, <2>5, <3>2
    <3> QED BY <2>1, <2>6, <3>1, <3>2
  <2>7. replayed' = Flat([i \in 1..appliedIndex' |-> s.blocks[i].txs])
    BY <2>4 DEF FirstBlocks
  <2> QED BY <2>1, <2>3, <2>5, <2>6, <2>7 DEF ReplayInv
<1>8. ASSUME UNCHANGED <<published, stream, appliedIndex, replayed>>
      PROVE  ReplayInv'
  BY <1>8 DEF ReplayInv, Latest
<1>9. ASSUME UNCHANGED published,
             appliedIndex' <= Len(Latest.blocks), replayed' = FirstBlocks(Latest, appliedIndex'),
             stream'["events"].at = "off" => stream'["events"].seen = 0,
             stream'["events"].at = "latest" => stream'["events"].seen = appliedIndex',
             stream'["events"].at = "shared" =>
               \A j \in DOMAIN published :
                 j >= stream'["events"].next /\ stream'["events"].seen < Len(published[j].blocks)
                   => appliedIndex' <= Len(published[j].blocks)
      PROVE  ReplayInv'
  BY <1>9 DEF ReplayInv, Latest, FirstBlocks
<1>10. ASSUME NEW w \in Followers, w # "events",
              TakeLatest(w) \/ Subscribe(w) \/ TakeState(w) \/ StopSync(w)
       PROVE  ReplayInv'
  <2>1. w = "unshielded" /\ w # "events"
    BY <1>10 DEF Followers
  <2>2. UNCHANGED <<published, appliedIndex, replayed>>
    BY <1>10, <2>1 DEF TakeLatest, Subscribe, TakeState, StopSync, Take, ApplyOutputs, producerVars
  <2>3. stream'["events"] = stream["events"]
    BY <1>1, <1>4, <1>10 DEF TakeLatest, Subscribe, TakeState, StopSync
  <2> QED BY <2>2, <2>3 DEF ReplayInv, Latest
<1>11. CASE TakeLatest("events")
  <2>1. stream["events"].at = "off" /\ UNCHANGED published /\ Take("events", Latest)
    BY <1>11 DEF TakeLatest, producerVars
  <2>2. stream'["events"] = [at |-> "latest", next |-> Len(published), seen |-> Len(Latest.blocks)]
    BY <1>1, <1>4, <1>11 DEF TakeLatest
  <2>3. stream["events"].seen = 0 /\ Len(Latest.blocks) # 0
    BY <1>2, <2>1, LastBlock DEF ReplayInv, Orderly
  <2>4. ApplyBlocks(Latest)
    BY <1>2, <2>1, <2>3 DEF Take
  <2>5. PICK k \in DOMAIN published : k = Len(published)
    BY <1>2
  <2>6. /\ appliedIndex' = Len(Latest.blocks) /\ replayed' = FirstBlocks(Latest, appliedIndex')
    BY <1>2, <1>6, <2>4, <2>5, ApplyFacts
  <2> QED BY <1>2, <1>9, <2>1, <2>2, <2>6
<1>12. CASE Subscribe("events")
  <2>1. stream["events"].at = "latest" /\ UNCHANGED published
    BY <1>12 DEF Subscribe, producerVars
  <2>2. PICK k \in 1..Len(published) :
          /\ Take("events", published[k])
          /\ stream' = [stream EXCEPT !["events"].at = "shared", !["events"].next = k + 1]
    BY <1>12 DEF Subscribe
  <2>3. /\ stream'["events"].at = "shared" /\ stream'["events"].next = k + 1
        /\ stream'["events"].seen = stream["events"].seen
    BY <1>1, <1>4, <1>5, <2>2 DEF Stream
  <2>4. stream["events"].seen = appliedIndex
    BY <2>1 DEF ReplayInv
  <2>5. k \in DOMAIN published
    BY <1>2
  <2>6. CASE stream["events"].seen < Len(published[k].blocks)
    <3>1. ApplyBlocks(published[k])
      BY <2>2, <2>6 DEF Take
    <3>2. appliedIndex <= Len(published[k].blocks)
      BY <1>1, <1>2, <2>4, <2>5, <2>6
    <3>3. /\ appliedIndex' = Len(published[k].blocks) /\ appliedIndex' <= Len(Latest.blocks)
          /\ replayed' = FirstBlocks(Latest, appliedIndex')
      BY <2>5, <3>1, <3>2, ApplyFacts
    <3>4. \A j \in DOMAIN published : j >= k + 1 => appliedIndex' <= Len(published[j].blocks)
      BY <1>2, <1>3, <2>5, <3>3
    <3> QED BY <1>9, <2>1, <2>3, <3>3, <3>4
  <2>7. CASE ~(stream["events"].seen < Len(published[k].blocks))
    <3>1. UNCHANGED <<replayed, appliedIndex>>
      BY <2>2, <2>7 DEF Take
    <3>2. \A j \in DOMAIN published : stream["events"].seen < Len(published[j].blocks)
            => appliedIndex' <= Len(published[j].blocks)
      BY <1>1, <1>2, <2>4, <3>1
    <3> QED BY <1>6, <1>9, <2>1, <2>3, <3>1, <3>2
  <2> QED BY <2>6, <2>7
<1>13. CASE TakeState("events")
  <2> DEFINE k == stream["events"].next
  <2>1. stream["events"].at = "shared" /\ UNCHANGED published /\ k \in DOMAIN published
    BY <1>1, <1>2, <1>4, <1>5, <1>13 DEF TakeState, producerVars
  <2>2. Take("events", published[k])
    BY <1>13 DEF TakeState
  <2>3. /\ stream'["events"].at = "shared" /\ stream'["events"].next = k + 1
        /\ stream'["events"].seen = IF stream["events"].seen < Len(published[k].blocks)
                                      THEN Len(published[k].blocks) ELSE stream["events"].seen
    <3>1. stream' = [stream EXCEPT !["events"] = [stream["events"] EXCEPT !.next = @ + 1,
                       !.seen = IF @ < Len(published[k].blocks) THEN Len(published[k].blocks) ELSE @]]
      BY <1>1, <1>4, <1>13 DEF TakeState
    <3>2. stream'["events"] = [stream["events"] EXCEPT !.next = @ + 1,
                       !.seen = IF @ < Len(published[k].blocks) THEN Len(published[k].blocks) ELSE @]
      BY <1>1, <1>4, <3>1
    <3> QED BY <1>5, <2>1, <3>2 DEF Stream
  <2> HIDE DEF k
  <2>4. CASE stream["events"].seen < Len(published[k].blocks)
    <3>1. ApplyBlocks(published[k])
      BY <2>2, <2>4 DEF Take
    <3>2. appliedIndex <= Len(published[k].blocks)
      BY <1>2, <1>5, <2>1, <2>4 DEF ReplayInv, k
    <3>3. /\ appliedIndex' = Len(published[k].blocks) /\ appliedIndex' <= Len(Latest.blocks)
          /\ replayed' = FirstBlocks(Latest, appliedIndex')
      BY <2>1, <3>1, <3>2, ApplyFacts
    <3>4. \A j \in DOMAIN published : j >= k + 1 => appliedIndex' <= Len(published[j].blocks)
      BY <1>2, <1>3, <2>1, <3>3
    <3> QED BY <1>9, <2>1, <2>3, <3>3, <3>4
  <2>5. CASE ~(stream["events"].seen < Len(published[k].blocks))
    <3>1. UNCHANGED <<replayed, appliedIndex>>
      BY <2>2, <2>5 DEF Take
    <3>2. \A j \in DOMAIN published : j >= k + 1 /\ stream["events"].seen < Len(published[j].blocks)
            => appliedIndex' <= Len(published[j].blocks)
      <4>1. \A j \in DOMAIN published : j >= k + 1 => j >= k
        BY <1>2, <2>1
      <4> QED BY <2>1, <3>1, <4>1 DEF ReplayInv, k
    <3> QED BY <1>6, <1>9, <2>1, <2>3, <2>5, <3>1, <3>2
  <2> QED BY <2>4, <2>5
<1>14. CASE StopSync("events")
  <2>1. UNCHANGED <<published, appliedIndex, replayed>>
    BY <1>14 DEF StopSync, producerVars
  <2>2. stream'["events"] = Off
    BY <1>1, <1>4, <1>14 DEF StopSync
  <2> QED BY <1>6, <1>9, <2>1, <2>2 DEF Off
<1>15. ASSUME NEW w \in Followers, TakeLatest(w) \/ Subscribe(w) \/ TakeState(w) \/ StopSync(w)
       PROVE  ReplayInv'
  BY <1>10, <1>11, <1>12, <1>13, <1>14, <1>15
<1>16. ASSUME ~\E w \in Followers : TakeLatest(w) \/ Subscribe(w) \/ TakeState(w) \/ StopSync(w)
       PROVE  UNCHANGED <<stream, appliedIndex, replayed>> /\ (UNCHANGED published \/ UNCHANGED followerVars)
  BY <1>16 DEF SimulatorNext, SubmitAndWait, SubmitAndForget, Enqueue, DistributeNight, SubmitClaim,
     AnswerCaller, BookInputs, FastForward, SkipState, ProduceBlock, followerVars, producerVars
<1>17. CASE ~\E w \in Followers : TakeLatest(w) \/ Subscribe(w) \/ TakeState(w) \/ StopSync(w)
  BY <1>7, <1>8, <1>16, <1>17, Published
<1> QED BY <1>15, <1>17

-----------------------------------------------------------------------------
(* The unshielded wallet                                                   *)

(* The wallet has the outputs it had; more may be published and submitted. *)
LEMMA BookedKeeps ==
  ASSUME SimTypeOK, BookedInv, UNCHANGED <<utxos, rewound>>,
         stream'["unshielded"] = stream["unshielded"] \/ stream'["unshielded"].at = "off",
         Len(published) \in Nat, Len(published') \in Nat, Len(published) <= Len(published'),
         \A p \in 1..Len(published) : published'[p] = published[p],
         \A t \in Transactions : WasSubmitted(t)' => WasSubmitted(t) \/ SpendsOf[t] \subseteq utxos.pending
  PROVE  BookedInv'
<1> SUFFICES ASSUME ~rewound
             PROVE  utxos'.available \cap utxos'.pending = {} /\ \E p \in 0..Len(published') : HasOutputsOf(p)'
  BY DEF BookedInv
<1>1. PICK p \in 0..Len(published) : HasOutputsOf(p)
  BY DEF BookedInv
<1>2. p \in 0..Len(published') /\ (p # 0 => p \in 1..Len(published))
  BY <1>1
<1>3. HasOutputsOf(p)'
  BY <1>1, <1>2 DEF HasOutputsOf
<1> QED BY <1>2, <1>3 DEF BookedInv

(* The wallet takes over the outputs of a state it is not ahead of.        *)
LEMMA BookedApply ==
  ASSUME SimTypeOK, Orderly, BookedInv, UNCHANGED <<published, caller>>,
         NEW k \in 1..Len(published), ApplyOutputs(published[k]),
         ~rewound' => ~rewound /\ (stream["unshielded"].at # "off" => stream["unshielded"].next <= k),
         ~rewound' /\ stream["unshielded"].at = "off" => k = Len(published),
         stream'["unshielded"].at # "off" => k <= stream'["unshielded"].next
  PROVE  BookedInv'
<1>1. /\ published \in Seq(SimState) /\ published # <<>> /\ utxos \in Utxos /\ stream \in [Followers -> Stream]
  BY DEF SimTypeOK, Utxos, Stream
<1>2. /\ Len(published) \in Nat /\ DOMAIN published = 1..Len(published)
      /\ \A i \in DOMAIN published : published[i] \in SimState
  BY <1>1, LatestFacts
<1> DEFINE out == published[k].ledger.outputs
           gone == published[k].ledger.spent
<1>3. out \subseteq Outputs /\ gone \subseteq Outputs
  BY <1>2, StateFacts DEF LedgerState
<1> SUFFICES ASSUME ~rewound'
             PROVE  utxos'.available \cap utxos'.pending = {} /\ HasOutputsOf(k)'
  <2>1. k \in 0..Len(published)
    <3>1. PICK n \in Nat : n = Len(published)
      BY <1>2
    <3>2. k \in 0..n
      BY <3>1
    <3> QED BY <3>1, <3>2
  <2>2. k \in 0..Len(published')
    BY <2>1
  <2> QED BY <2>2 DEF BookedInv
<1>4. utxos.available \cap utxos.pending = {}
  BY DEF BookedInv
<1>5. PICK p \in 0..Len(published) : HasOutputsOf(p)
  BY DEF BookedInv
<1>d. k \in DOMAIN published /\ (p # 0 => p \in DOMAIN published)
  <2>1. PICK n \in Nat : n = Len(published)
    BY <1>2
  <2>2. k \in 1..n /\ p \in 0..n
    BY <2>1
  <2>3. p # 0 => p \in 1..n
    BY <2>2
  <2> QED BY <1>2, <2>1, <2>2, <2>3
<1>6. p <= k
  <2>1. stream["unshielded"] \in Stream
    BY <1>1 DEF Followers
  <2>2. CASE stream["unshielded"].at = "off"
    BY <1>2, <1>5, <2>2
  <2>3. CASE stream["unshielded"].at # "off"
    <3>1. p <= stream["unshielded"].next /\ stream["unshielded"].next <= k /\ stream["unshielded"].next \in Nat
      BY <1>5, <2>1, <2>3 DEF HasOutputsOf, Stream
    <3> QED BY <1>5, <3>1
  <2> QED BY <2>2, <2>3
<1>7. p # 0 => /\ published[p].ledger.spent \subseteq gone
               /\ published[p].ledger.outputs \ out \subseteq gone
               /\ out \cap published[p].ledger.spent \subseteq published[p].ledger.outputs
  <2>1. SUFFICES ASSUME p # 0
                 PROVE  LaterLedger(published[p].ledger, published[k].ledger)
    BY DEF LaterLedger
  <2>2. p \in DOMAIN published /\ k \in DOMAIN published
    BY <1>d, <2>1
  <2>3. Follows(published[p], published[k])
    BY <1>6, <2>2 DEF Orderly
  <2> QED BY <2>3 DEF Follows
<1>8. utxos' = [available |-> (utxos.available \cap out) \cup (out \ (utxos.available \cup utxos.pending)),
                pending |-> utxos.pending \cap out]
  BY DEF ApplyOutputs, Created
<1>9. /\ utxos'.available = (utxos.available \cap out) \cup (out \ (utxos.available \cup utxos.pending))
      /\ utxos'.pending = utxos.pending \cap out
  BY <1>8
<1>10. utxos'.available \cap utxos'.pending = {} /\ utxos'.available \cup utxos'.pending = out
  BY <1>4, <1>9
<1>11. ASSUME NEW t \in Transactions, WasSubmitted(t), NEW u \in SpendsOf[t]
       PROVE  u \in utxos'.pending \/ u \in gone \ out
  <2>1. u \in utxos.pending \/ (p # 0 /\ u \in published[p].ledger.spent \ published[p].ledger.outputs)
    BY <1>5, <1>11 DEF HasOutputsOf
  <2>2. CASE u \in utxos.pending
    <3>1. p # 0 /\ u \in published[p].ledger.outputs
      BY <1>5, <2>2 DEF HasOutputsOf
    <3> QED BY <1>7, <1>9, <2>2, <3>1
  <2>3. CASE p # 0 /\ u \in published[p].ledger.spent \ published[p].ledger.outputs
    BY <1>7, <2>3
  <2> QED BY <2>1, <2>2, <2>3
<1>12. \A t : WasSubmitted(t)' <=> WasSubmitted(t)
  BY DEF WasSubmitted
<1>13. k # 0 /\ published' = published
  OBVIOUS
<1>14. HasOutputsOf(k)'
  BY <1>10, <1>11, <1>12, <1>13 DEF HasOutputsOf
<1> QED BY <1>10, <1>14

(* Every step keeps the bookings of the unshielded wallet.                 *)
LEMMA BookedStep ==
  ASSUME SimTypeOK, Orderly, CallerInv, BookedInv, SimulatorNext
  PROVE  BookedInv'
<1>1. /\ published \in Seq(SimState) /\ published # <<>> /\ utxos \in Utxos /\ stream \in [Followers -> Stream]
      /\ caller \in [Transactions -> Fate]
      /\ \A w \in Followers : stream[w].at # "off" => stream[w].next # 0
  BY DEF SimTypeOK, Utxos, Stream, Fate
<1>2. /\ Len(published) \in Nat \ {0} /\ DOMAIN published = 1..Len(published)
      /\ Latest = published[Len(published)]
  BY <1>1, LatestFacts
<1>3. /\ Len(published') \in Nat /\ Len(published) <= Len(published')
      /\ \A p \in 1..Len(published) : published'[p] = published[p]
  <2>1. CASE UNCHANGED published
    BY <1>2, <2>1
  <2>2. CASE \E s \in SimState : Publish(s) /\ Follows(Latest, s) /\ Numbered(s)
    <3>1. PICK s \in SimState : Publish(s)
      BY <2>2
    <3> QED BY <1>1, <1>2, <3>1, PublishFacts
  <2> QED BY <2>1, <2>2, Published
<1>4. ASSUME NEW t \in Transactions, SubmitAndWait(t) \/ SubmitAndForget(t) \/ SubmitClaim(t)
      PROVE  BookedInv'
  <2>1. /\ UNCHANGED <<utxos, rewound, stream>>
        /\ \E how \in Fate : caller' = [caller EXCEPT ![t] = how]
    BY <1>4 DEF SubmitAndWait, SubmitAndForget, SubmitClaim, Enqueue, followerVars, Fate
  <2>2. SpendsOf[t] \subseteq utxos.pending
    <3>1. CASE SubmitClaim(t)
      <4>1. t \in Rewards
        BY <3>1 DEF SubmitClaim, CallerInv, CallerOf
      <4> QED BY <4>1, SimulatorAssumption
    <3>2. CASE SubmitAndWait(t) \/ SubmitAndForget(t)
      BY <3>2 DEF SubmitAndWait, SubmitAndForget, Enqueue
    <3> QED BY <1>4, <3>1, <3>2
  <2>3. \A u \in Transactions : WasSubmitted(u)' => WasSubmitted(u) \/ SpendsOf[u] \subseteq utxos.pending
    BY <1>1, <2>1, <2>2 DEF WasSubmitted
  <2> QED BY <1>2, <1>3, <2>1, <2>3, BookedKeeps
<1>5. ASSUME UNCHANGED <<utxos, rewound>>, stream' = stream,
             \A u \in Transactions : WasSubmitted(u)' => WasSubmitted(u)
      PROVE  BookedInv'
  BY <1>2, <1>3, <1>5, BookedKeeps
<1>6. ASSUME NEW t \in Transactions, DistributeNight(t)
      PROVE  BookedInv'
  <2>1. \A u \in Transactions : WasSubmitted(u)' => WasSubmitted(u)
    BY <1>1, <1>6 DEF DistributeNight, WasSubmitted
  <2> QED BY <1>5, <1>6, <2>1 DEF DistributeNight, followerVars
<1>7. ASSUME NEW t \in Transactions, AnswerCaller(t)
      PROVE  BookedInv'
  <2>1. caller[t] = "waiting" /\ UNCHANGED <<utxos, rewound, stream>>
    BY <1>7 DEF AnswerCaller, followerVars
  <2>2. \E how \in Fate : caller' = [caller EXCEPT ![t] = how]
    BY <1>7, AnswerFacts DEF Fate
  <2>3. \A u \in Transactions : WasSubmitted(u)' => WasSubmitted(u)
    BY <1>1, <2>1, <2>2 DEF WasSubmitted
  <2> QED BY <1>5, <2>1, <2>3
<1>8. ASSUME FastForward \/ SkipState \/ ProduceBlock
      PROVE  BookedInv'
  <2>1. UNCHANGED <<utxos, rewound, stream, caller>>
    BY <1>8 DEF FastForward, SkipState, ProduceBlock, callerVars, followerVars
  <2>2. \A u \in Transactions : WasSubmitted(u)' => WasSubmitted(u)
    BY <2>1 DEF WasSubmitted
  <2> QED BY <1>5, <2>1, <2>2
<1>9. ASSUME NEW t \in Transactions, BookInputs(t)
      PROVE  BookedInv'
  <2>1. UNCHANGED <<published, caller, stream, rewound>> /\ SpendsOf[t] \subseteq utxos.available
    BY <1>9 DEF BookInputs, producerVars, callerVars
  <2>2. /\ utxos'.available = utxos.available \ SpendsOf[t]
        /\ utxos'.pending = utxos.pending \cup SpendsOf[t]
    BY <1>9 DEF BookInputs
  <2> SUFFICES ASSUME ~rewound
               PROVE  utxos'.available \cap utxos'.pending = {} /\ \E p \in 0..Len(published') : HasOutputsOf(p)'
    BY <2>1 DEF BookedInv
  <2>3. utxos.available \cap utxos.pending = {}
    BY DEF BookedInv
  <2>4. PICK p \in 0..Len(published) : HasOutputsOf(p)
    BY DEF BookedInv
  <2>5. utxos'.available \cup utxos'.pending = utxos.available \cup utxos.pending
    BY <2>1, <2>2
  <2>6. \A u : WasSubmitted(u)' <=> WasSubmitted(u)
    BY <2>1 DEF WasSubmitted
  <2>7. HasOutputsOf(p)'
    BY <2>1, <2>2, <2>4, <2>5, <2>6 DEF HasOutputsOf
  <2> QED BY <2>1, <2>2, <2>3, <2>4, <2>7
<1>10. ASSUME NEW w \in Followers, w # "unshielded",
              TakeLatest(w) \/ Subscribe(w) \/ TakeState(w)
       PROVE  BookedInv'
  <2>1. w = "events"
    BY <1>10 DEF Followers
  <2>2. UNCHANGED <<utxos, caller>>
    BY <1>10, <2>1 DEF TakeLatest, Subscribe, TakeState, Take, ApplyBlocks, callerVars
  <2>3. stream'["unshielded"] = stream["unshielded"]
    BY <1>1, <1>10, <2>1 DEF TakeLatest, Subscribe, TakeState, Followers
  <2>4. rewound' = rewound
    BY <1>10, <2>1, SimTypeStep DEF TakeLatest, Subscribe, TakeState, SimTypeOK
  <2>5. \A u \in Transactions : WasSubmitted(u)' => WasSubmitted(u)
    BY <2>2 DEF WasSubmitted
  <2> QED BY <1>2, <1>3, <2>2, <2>3, <2>4, <2>5, BookedKeeps
<1>11. ASSUME NEW w \in Followers, StopSync(w)
       PROVE  BookedInv'
  <2>1. UNCHANGED <<utxos, rewound, caller>> /\ stream' = [stream EXCEPT ![w] = Off]
    BY <1>11 DEF StopSync, callerVars
  <2>2. stream'["unshielded"] = stream["unshielded"] \/ stream'["unshielded"].at = "off"
    BY <1>1, <2>1 DEF Off, Followers
  <2>3. \A u \in Transactions : WasSubmitted(u)' => WasSubmitted(u)
    BY <2>1 DEF WasSubmitted
  <2> QED BY <1>2, <1>3, <2>1, <2>2, <2>3, BookedKeeps
<1>s. "unshielded" \in Followers /\ stream["unshielded"] \in Stream /\ stream["unshielded"].next \in Nat
  BY <1>1 DEF Followers, Stream
<1>12. CASE TakeLatest("unshielded")
  <2>1. /\ stream["unshielded"].at = "off" /\ UNCHANGED <<published, caller, rewound>>
        /\ ApplyOutputs(Latest)
    BY <1>12 DEF TakeLatest, Take, producerVars, callerVars
  <2>2. stream'["unshielded"] = [at |-> "latest", next |-> Len(published), seen |-> Len(Latest.blocks)]
    BY <1>1, <1>s, <1>12 DEF TakeLatest
  <2>3. PICK k \in 1..Len(published) : k = Len(published)
    <3>1. Len(published) \in 1..Len(published)
      BY <1>2
    <3> QED BY <3>1
  <2>4. ~rewound' => ~rewound /\ (stream["unshielded"].at # "off" => stream["unshielded"].next <= k)
    BY <2>1
  <2>5. stream'["unshielded"].at # "off" => k <= stream'["unshielded"].next
    BY <1>2, <2>2, <2>3
  <2>6. ApplyOutputs(published[k])
    BY <1>2, <2>1, <2>3
  <2> QED BY <2>1, <2>3, <2>4, <2>5, <2>6, BookedApply
<1>13. CASE Subscribe("unshielded")
  <2>1. stream["unshielded"].at = "latest" /\ UNCHANGED <<published, caller>>
    BY <1>13 DEF Subscribe, producerVars, callerVars
  <2>2. PICK k \in 1..Len(published) :
          /\ Take("unshielded", published[k])
          /\ stream' = [stream EXCEPT !["unshielded"].at = "shared", !["unshielded"].next = k + 1]
          /\ rewound' = (rewound \/ ("unshielded" = "unshielded" /\ k < stream["unshielded"].next))
    BY <1>13 DEF Subscribe
  <2>3. stream'["unshielded"].next = k + 1
    BY <1>1, <1>s, <2>2 DEF Stream
  <2>4. ~rewound' => ~rewound /\ stream["unshielded"].next <= k
    <3> SUFFICES ASSUME ~rewound' PROVE ~rewound /\ stream["unshielded"].next <= k
      OBVIOUS
    <3>1. ~rewound /\ ~(k < stream["unshielded"].next)
      BY <2>2, Zenon
    <3> QED BY <1>s, <3>1
  <2>5. k <= stream'["unshielded"].next
    BY <2>3
  <2>6. ApplyOutputs(published[k])
    BY <2>2 DEF Take
  <2> QED BY <2>1, <2>4, <2>5, <2>6, BookedApply
<1>14. CASE TakeState("unshielded")
  <2>1. /\ stream["unshielded"].at = "shared" /\ UNCHANGED <<published, caller, rewound>>
        /\ stream["unshielded"].next <= Len(published)
    BY <1>14 DEF TakeState, producerVars, callerVars
  <2>2. PICK k : k = stream["unshielded"].next
    OBVIOUS
  <2>3. k \in 1..Len(published)
    BY <1>1, <1>2, <1>s, <2>1, <2>2
  <2>4. ApplyOutputs(published[k])
    BY <1>14, <2>2 DEF TakeState, Take
  <2>5. stream'["unshielded"].next = k + 1
    BY <1>1, <1>s, <1>14, <2>2 DEF TakeState, Stream
  <2>6. k <= stream'["unshielded"].next /\ stream["unshielded"].next <= k
    BY <2>2, <2>3, <2>5
  <2> QED BY <2>1, <2>3, <2>4, <2>6, BookedApply
<1> QED BY <1>4, <1>6, <1>7, <1>8, <1>9, <1>10, <1>11, <1>12, <1>13, <1>14 DEF SimulatorNext

-----------------------------------------------------------------------------
(* The simulator keeps its promises                                        *)

(* The inductive invariant.                                                *)

SimulatorInv == SimTypeOK /\ Orderly /\ CallerInv /\ ReplayInv /\ BookedInv

(* The invariant holds at first.                                           *)
LEMMA SimulatorStart ==
  SimulatorInit => SimulatorInv
<1> SUFFICES ASSUME SimulatorInit PROVE SimulatorInv
  OBVIOUS
<1> DEFINE s == InitialState
<1>1. /\ s \in SimState /\ Numbered(s)
      /\ \A t \in Transactions : ~InMempool(s, t) /\ BlocksWith(s, t) = {}
  BY InitialFacts
<1>2. published = <<s>>
  BY DEF SimulatorInit
<1> HIDE DEF s
<1>3. /\ published \in Seq(SimState) /\ published # <<>> /\ Len(published) = 1 /\ DOMAIN published = {1}
      /\ published[1] = s /\ Latest = s
  BY <1>1, <1>2 DEF Latest
<1>4. SimTypeOK
  <2>1. 0 \in 0..Len(published) /\ 0 \in Nat /\ <<>> \in Seq(Included)
    BY <1>3
  <2>2. stream \in [Followers -> Stream] /\ \A w \in Followers : stream[w].at = "off"
    BY DEF SimulatorInit, Off, Stream
  <2> QED BY <1>3, <2>1, <2>2 DEF SimTypeOK, SimulatorInit, Stream
<1>5. Orderly
  BY <1>1, <1>3, FollowsOrder DEF Orderly
<1>6. CallerInv
  <2>1. \A t \in Transactions : caller[t] = "none" /\ ~WasSubmitted(t) /\ t \notin discarded
    BY DEF SimulatorInit, WasSubmitted
  <2>2. \A i \in DOMAIN published : \A t : ~Leaves(i, t)
    BY <1>3 DEF Leaves
  <2> QED BY <1>1, <1>3, <2>1, <2>2 DEF CallerInv, CallerOf
<1>7. ReplayInv
  <2>1. stream["events"] = Off /\ appliedIndex = 0 /\ replayed = <<>>
    BY DEF SimulatorInit, Followers
  <2>2. Flat([i \in 1..0 |-> Latest.blocks[i].txs]) = <<>>
    <3> DEFINE lists == [i \in 1..0 |-> Latest.blocks[i].txs]
    <3>1. lists \in [1..0 -> Seq(Included)]
      OBVIOUS
    <3> HIDE DEF lists
    <3>2. Len(lists) = 0
      BY <3>1, ListOfLists
    <3>3. Flat(lists) = <<>>
      <4>1. Len(lists) \in Nat
        BY <3>2
      <4>2. PICK f : f[0] = <<>> /\ Flat(lists) = f[Len(lists)]
        BY <4>1, FlatSteps
      <4> QED BY <3>2, <4>2
    <3> QED BY <3>3 DEF lists
  <2>3. Len(Latest.blocks) \in Nat
    BY <1>1, <1>3, StateFacts
  <2> QED BY <2>1, <2>2, <2>3 DEF ReplayInv, Off
<1>8. BookedInv
  <2>1. utxos.available = {} /\ utxos.pending = {} /\ stream["unshielded"] = Off
    BY DEF SimulatorInit, Followers
  <2>2. \A t \in Transactions : ~WasSubmitted(t)
    BY DEF SimulatorInit, WasSubmitted
  <2>3. 0 \in 0..Len(published) /\ HasOutputsOf(0)
    BY <1>3, <2>1, <2>2 DEF HasOutputsOf, Off
  <2> QED BY <2>1, <2>3 DEF BookedInv
<1> QED BY <1>4, <1>5, <1>6, <1>7, <1>8 DEF SimulatorInv

(* Every step preserves the invariant.                                     *)
LEMMA SimulatorPreserved ==
  SimulatorInv /\ [SimulatorNext]_simulatorVars => SimulatorInv'
<1> SUFFICES ASSUME SimulatorInv, [SimulatorNext]_simulatorVars PROVE SimulatorInv'
  OBVIOUS
<1> USE DEF SimulatorInv
<1>1. CASE SimulatorNext
  BY <1>1, SimTypeStep, OrderlyStep, CallerStep, ReplayStep, BookedStep
<1>2. CASE UNCHANGED simulatorVars
  <2>1. UNCHANGED <<published, handled, producing, discarded, caller, answer, stream, appliedIndex, replayed, utxos, rewound, detours>>
    BY <1>2 DEF simulatorVars, producerVars, callerVars, followerVars
  <2>2. SimTypeOK'
    BY <2>1 DEF SimTypeOK
  <2>3. Orderly'
    BY <2>1 DEF Orderly
  <2>4. ReplayInv'
    BY <2>1 DEF ReplayInv, Latest
  <2>5. BookedInv'
    BY <2>1 DEF BookedInv, HasOutputsOf, WasSubmitted
  <2>6. CallerInv'
    BY <2>1, CallerSame
  <2> QED BY <2>2, <2>3, <2>4, <2>5, <2>6
<1> QED BY <1>1, <1>2

(* What submitTransaction answers holds and stays true: the block it names *)
(* has the transaction, or the request with it failed and no block ever    *)
(* gets it; and nothing is lost between callers, mempool and producer.     *)
THEOREM AnswersAreTrue == SimulatorSpec => []AnswerIsTrue
<1>1. SimulatorInv => AnswerIsTrue
  <2> SUFFICES ASSUME SimulatorInv PROVE AnswerIsTrue
    OBVIOUS
  <2>1. published \in Seq(SimState) /\ published # <<>> /\ Orderly /\ CallerInv
    BY DEF SimulatorInv, SimTypeOK
  <2>2. AnswersStand
    BY <2>1 DEF AnswersStand, CallerInv, CallerOf
  <2>3. NothingSwallowed
    <3> SUFFICES ASSUME NEW t \in Transactions
                 PROVE  /\ WasSubmitted(t) =>
                             (InMempool(Latest, t) <=> (BlocksWith(Latest, t) = {} /\ t \notin discarded))
                        /\ caller[t] = "distributed" => t \in Latest.ledger.claimable
      BY DEF NothingSwallowed, WasSubmitted
    <3>1. CallerOf(t)
      BY <2>1 DEF CallerInv
    <3>2. ASSUME WasSubmitted(t), ~InMempool(Latest, t)
          PROVE  BlocksWith(Latest, t) # {} \/ t \in discarded
      <4>1. PICK i \in DOMAIN published : Leaves(i, t)
        BY <3>1, <3>2 DEF CallerOf
      <4>2. BlocksWith(published[i + 1], t) # {} \/ t \in discarded
        BY <3>1, <4>1 DEF CallerOf
      <4>3. i + 1 \in DOMAIN published
        BY <4>1 DEF Leaves
      <4>4. Follows(published[i + 1], Latest) /\ published[i + 1] \in SimState /\ Latest \in SimState
        BY <2>1, <4>3, LatestFacts DEF Orderly
      <4>5. BlocksWith(published[i + 1], t) \subseteq BlocksWith(Latest, t)
        BY <4>4, BlocksStay
      <4> QED BY <4>2, <4>5
    <3> QED BY <3>1, <3>2 DEF CallerOf
  <2> QED BY <2>2, <2>3 DEF AnswerIsTrue
<1> QED BY <1>1, SimulatorStart, SimulatorPreserved, PTL DEF SimulatorSpec

(* The event wallets replay every block once and in order, whatever the    *)
(* shared stream gives them and however often they are started; what is    *)
(* booked for a waiting transaction is not available again unless a wallet *)
(* was given an older state.                                               *)
THEOREM WalletsFollow == SimulatorSpec => []SimulatorFollowed
<1>1. SimulatorInv => SimulatorFollowed
  <2> SUFFICES ASSUME SimulatorInv PROVE SimulatorFollowed
    OBVIOUS
  <2>1. CallerInv /\ ReplayInv /\ BookedInv /\ published \in Seq(SimState) /\ published # <<>>
    BY DEF SimulatorInv, SimTypeOK
  <2>2. ReplayedOnce
    BY <2>1 DEF ReplayInv, ReplayedOnce
  <2>3. BookingsKept
    <3> SUFFICES ASSUME ~rewound, NEW t \in Transactions, InMempool(Latest, t), NEW u \in SpendsOf[t]
                 PROVE  u \notin utxos.available
      BY DEF BookingsKept
    <3>1. WasSubmitted(t)
      BY <2>1, LatestFacts DEF CallerInv, CallerOf
    <3>2. PICK p \in 0..Len(published) : HasOutputsOf(p)
      BY <2>1 DEF BookedInv
    <3>3. utxos.available \cap utxos.pending = {}
      BY <2>1 DEF BookedInv
    <3> QED BY <3>1, <3>2, <3>3 DEF HasOutputsOf
  <2> QED BY <2>2, <2>3 DEF SimulatorFollowed
<1> QED BY <1>1, SimulatorStart, SimulatorPreserved, PTL DEF SimulatorSpec
=============================================================================
