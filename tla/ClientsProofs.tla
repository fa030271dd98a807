---------------------------- MODULE ClientsProofs ----------------------------
(***************************************************************************)
(* Theorems about the two services that speak to other processes.  About   *)
(* Submission: types, and what callers hear of their transaction is true   *)
(* and final.  About Proving: types, and no worker outlives its proof.      *)
(***************************************************************************)
EXTENDS Submission, Proving, SequenceTheorems, TLAPS

-----------------------------------------------------------------------------
(* The inductive invariant                                                 *)

\* Where a call is bounds what is under way for it.
OnTheWire(c) ==
  /\ reports[c] # <<>> => c \in link
  /\ c \in transit => chain[c] = "unknown"
  /\ c \in link => callPhase[c] \in {"sending", "watching", "ending"}
  /\ callPhase[c] \in {"idle", "awaiting", "connecting", "connected"} =>
       chain[c] = "unknown" /\ c \notin transit \cup link /\ verdict[c] = "none"
  /\ callPhase[c] \in {"sending", "watching"} => verdict[c] = "none"

\* Reports not handled yet tell of stages passed, and of ends that are final.
ToldTruly(c) ==
  /\ chain[c] \notin {"unknown", "refused"} => "Submitted" \in reached[c]
  /\ \A i \in 1..Len(reports[c]) :
       /\ Event(reports[c][i]) \in Stages => Event(reports[c][i]) \in reached[c]
       /\ reports[c][i] \in {"usurped", "invalid"} => chain[c] = reports[c][i]
       /\ reports[c][i] \in {"finalityTimeout", "dropped"} => c \in unsure

\* A request that died with its connection had not left, unless the network or
\* another call was to blame.
NeverLeft(c) ==
  callPhase[c] = "sending" /\ c \notin link \cup disturbed =>
    c \notin transit /\ chain[c] = "unknown"

\* The first n reports contain the stage the call waits for.
HeardBy(c, n) == \E j \in 1..n : Event(reports[c][j]) = waitFor[c]

\* Finality is reported after the earlier stages, so that a call that waits for
\* one of these does not miss it.
InOrder(c) ==
  callPhase[c] \in {"sending", "watching"} /\ waitFor[c] # "Finalized" =>
    /\ \A i \in 1..Len(reports[c]) : reports[c][i] = "finalized" => HeardBy(c, i - 1)
    /\ c \in link /\ (\/ chain[c] = "inBlock"
                      \/ chain[c] = "pool" /\ waitFor[c] = "Submitted") =>
         HeardBy(c, Len(reports[c]))

TrueVerdict(c) ==
  /\ verdict[c] \in Stages => verdict[c] \in reached[c]
  /\ c \notin disturbed \cup unsure /\ verdict[c] = "failed" =>
       chain[c] \in {"unknown", "refused", "usurped", "invalid"} /\ c \notin transit

CallInv(c) == OnTheWire(c) /\ ToldTruly(c) /\ NeverLeft(c) /\ InOrder(c) /\ TrueVerdict(c)

\* Links need an open socket, and calls that overlap are disturbed.
SharedInv ==
  /\ link # {} => socket = "open"
  /\ \A c, d \in Active : c # d => c \in disturbed

VerdictInv == SubmissionTypeOK /\ SharedInv /\ \A c \in Calls : CallInv(c)

-----------------------------------------------------------------------------
(* Types                                                                   *)

LEMMA DisconnectTyped ==
  ASSUME SubmissionTypeOK, Disconnect
  PROVE  /\ socket' \in {"closed", "opening", "open", "closing"}
         /\ link' \in SUBSET Calls /\ reports' \in [Calls -> Seq(Statuses)]
  BY DEF SubmissionTypeOK, Disconnect, Mute

LEMMA BecomeTyped ==
  ASSUME SubmissionTypeOK, NEW c \in Calls, NEW s \in ChainStates, NEW r \in Statuses,
         Become(c, s, r)
  PROVE  chain' \in [Calls -> ChainStates] /\ reports' \in [Calls -> Seq(Statuses)]
<1>1. Append(reports[c], r) \in Seq(Statuses)
  BY DEF SubmissionTypeOK
<1> QED BY <1>1 DEF SubmissionTypeOK, Become

LEMMA DecideTyped ==
  ASSUME SubmissionTypeOK, NEW c \in Calls, NEW v \in Stages \cup {"failed"}, Decide(c, v)
  PROVE  callPhase' \in [Calls -> Phases] /\ verdict' \in [Calls -> Stages \cup {"none", "failed"}]
  BY DEF SubmissionTypeOK, Decide, Phases

LEMMA NodeTyped ==
  ASSUME SubmissionTypeOK, NEW c \in Calls, NodeAdvances(c)
  PROVE  SubmissionTypeOK'
<1> USE SubmissionAssumption
<1>1. UNCHANGED <<client, socket, callPhase, waitFor, verdict, link, transit, disturbed, losses>>
  BY DEF NodeAdvances, callVars
<1>2. chain' \in [Calls -> ChainStates] /\ reports' \in [Calls -> Seq(Statuses)]
  <2>1. CASE Include(c) BY <2>1, BecomeTyped DEF Include, ChainStates, Statuses
  <2>2. CASE Finalize(c) BY <2>2, BecomeTyped DEF Finalize, ChainStates, Statuses
  <2>3. CASE Retract(c) BY <2>3, BecomeTyped DEF Retract, ChainStates, Statuses
  <2>4. CASE Discard(c) BY <2>4, BecomeTyped DEF Discard, ChainStates, Statuses
  <2>5. CASE GiveUp(c) BY <2>5, BecomeTyped DEF GiveUp, ChainStates, Statuses
  <2> QED BY <2>1, <2>2, <2>3, <2>4, <2>5 DEF NodeAdvances
<1>3. reached' \in [Calls -> SUBSET Stages]
  BY DEF NodeAdvances, Include, Finalize, Retract, Discard, GiveUp, SubmissionTypeOK, Stages
<1>4. unsure' \in SUBSET Calls
  BY DEF NodeAdvances, Include, Finalize, Retract, Discard, GiveUp, SubmissionTypeOK
<1>5. reorgs' \in 0..MaxReorgs
  BY DEF NodeAdvances, Include, Finalize, Retract, Discard, GiveUp, SubmissionTypeOK
<1> QED BY <1>1, <1>2, <1>3, <1>4, <1>5 DEF SubmissionTypeOK

LEMMA SubmissionTypeStep == SubmissionTypeOK /\ [SubmissionNext]_submissionVars => SubmissionTypeOK'
<1> SUFFICES ASSUME SubmissionTypeOK, [SubmissionNext]_submissionVars
             PROVE  SubmissionTypeOK'
  OBVIOUS
<1> USE SubmissionAssumption DEF callVars, wireVars, nodeVars
<1>1. CASE UNCHANGED submissionVars
  BY <1>1 DEF SubmissionTypeOK, submissionVars
<1>2. ASSUME NEW c \in Calls, NEW stage \in Waits, SubmitTransaction(c, stage)
      PROVE SubmissionTypeOK'
  BY <1>2 DEF SubmissionTypeOK, SubmitTransaction, Phases, Active
<1>3. ASSUME NEW c \in Calls, TakeClient(c) \/ Connect(c) \/ EnsureConnection(c)
      PROVE SubmissionTypeOK'
  BY <1>3 DEF SubmissionTypeOK, TakeClient, Connect, EnsureConnection, Phases
<1>4. ASSUME NEW c \in Calls, Send(c) PROVE SubmissionTypeOK'
  <2>1. callPhase' \in [Calls -> Phases] /\ verdict' \in [Calls -> Stages \cup {"none", "failed"}]
    BY <1>4, DecideTyped DEF Send, SubmissionTypeOK, Phases
  <2> QED BY <1>4, <2>1 DEF Send, SubmissionTypeOK
<1>5. ASSUME NEW c \in Calls, Reply(c) PROVE SubmissionTypeOK'
  <2>1. callPhase' \in [Calls -> Phases] /\ verdict' \in [Calls -> Stages \cup {"none", "failed"}]
    BY <1>5, DecideTyped DEF Reply, SubmissionTypeOK, Phases
  <2> QED BY <1>5, <2>1 DEF Reply, SubmissionTypeOK
<1>6. ASSUME NEW c \in Calls, HandleReport(c) PROVE SubmissionTypeOK'
  <2>1. waitFor[c] \in Stages
    BY DEF SubmissionTypeOK
  <2>2. callPhase' \in [Calls -> Phases] /\ verdict' \in [Calls -> Stages \cup {"none", "failed"}]
    BY <1>6, <2>1, DecideTyped DEF HandleReport, SubmissionTypeOK
  <2>3. Tail(reports[c]) \in Seq(Statuses)
    BY <1>6 DEF HandleReport, SubmissionTypeOK
  <2> QED BY <1>6, <2>2, <2>3 DEF HandleReport, SubmissionTypeOK
<1>7. ASSUME NEW c \in Calls, RejectReport(c) PROVE SubmissionTypeOK'
  <2>1. callPhase' \in [Calls -> Phases] /\ verdict' \in [Calls -> Stages \cup {"none", "failed"}]
    BY <1>7, DecideTyped DEF RejectReport
  <2>2. UNCHANGED <<client, socket, waitFor, wireVars, nodeVars, disturbed, losses>>
    BY <1>7 DEF RejectReport
  <2>3. unsure' \in SUBSET Calls
    BY <1>7 DEF RejectReport, SubmissionTypeOK
  <2> QED BY <2>1, <2>2, <2>3 DEF SubmissionTypeOK
<1>8. ASSUME NEW c \in Calls, FinishCall(c) PROVE SubmissionTypeOK'
  BY <1>8, DisconnectTyped DEF FinishCall, SubmissionTypeOK, Phases
<1>9. ASSUME NEW c \in Calls, NodeReceives(c) PROVE SubmissionTypeOK'
  <2>1. chain' \in [Calls -> ChainStates] /\ reports' \in [Calls -> Seq(Statuses)]
    <3>1. CASE Become(c, "pool", "ready") BY <3>1, BecomeTyped DEF ChainStates, Statuses
    <3>2. CASE chain' = [chain EXCEPT ![c] = "refused"] /\ UNCHANGED reports
      BY <3>2 DEF SubmissionTypeOK, ChainStates
    <3> QED BY <1>9, <3>1, <3>2 DEF NodeReceives
  <2>2. reached' \in [Calls -> SUBSET Stages]
    <3>1. reached[c] \cup {"Submitted"} \in SUBSET Stages
      BY DEF SubmissionTypeOK, Stages
    <3>2. reached' \in {reached, [reached EXCEPT ![c] = @ \cup {"Submitted"}]}
      BY <1>9 DEF NodeReceives
    <3> QED BY <3>1, <3>2 DEF SubmissionTypeOK
  <2>3. UNCHANGED <<client, socket, callVars, link, reorgs, disturbed, unsure, losses>>
    BY <1>9 DEF NodeReceives
  <2>4. transit' \in SUBSET Calls
    BY <1>9 DEF NodeReceives, SubmissionTypeOK
  <2> QED BY <2>1, <2>2, <2>3, <2>4 DEF SubmissionTypeOK
<1>10. ASSUME NEW c \in Calls, LoseRequest(c) PROVE SubmissionTypeOK'
  BY <1>10 DEF LoseRequest, SubmissionTypeOK
<1>11. ASSUME MakeClient \/ SocketOpens \/ SocketClosed PROVE SubmissionTypeOK'
  BY <1>11 DEF MakeClient, SocketOpens, SocketClosed, SubmissionTypeOK
<1>12. ASSUME CloseService PROVE SubmissionTypeOK'
  BY <1>12, DisconnectTyped DEF CloseService, SubmissionTypeOK, Active
<1>13. ASSUME LoseConnection PROVE SubmissionTypeOK'
  BY <1>13 DEF LoseConnection, Mute, SubmissionTypeOK, Active
<1> QED
  BY <1>1, <1>2, <1>3, <1>4, <1>5, <1>6, <1>7, <1>8, <1>9, <1>10, <1>11, <1>12, <1>13, NodeTyped
  DEF SubmissionNext, Call, Node

LEMMA SubmissionTypeInit == SubmissionInit => SubmissionTypeOK
  BY SubmissionAssumption
  DEF SubmissionInit, SubmissionTypeOK, Phases, Stages, ChainStates, Statuses

\* Every variable keeps its type, whatever the calls and bounds.
THEOREM SubmissionTypeCorrect == SubmissionSpec => []SubmissionTypeOK
  BY SubmissionTypeInit, SubmissionTypeStep, PTL DEF SubmissionSpec

-----------------------------------------------------------------------------
(* The invariant, one call at a time                                       *)

\* The facts about sequences of reports the proof needs.
LEMMA AppendAt ==
  ASSUME NEW S, NEW q \in Seq(S), NEW e \in S
  PROVE  /\ Len(Append(q, e)) = Len(q) + 1
         /\ \A i \in 1..Len(q) : Append(q, e)[i] = q[i]
         /\ Append(q, e)[Len(q) + 1] = e
  OBVIOUS

LEMMA TailAt ==
  ASSUME NEW S, NEW q \in Seq(S), q # <<>>
  PROVE  /\ Len(q) \in Nat \ {0} /\ Head(q) = q[1]
         /\ Len(Tail(q)) = Len(q) - 1
         /\ \A i \in 1..(Len(q) - 1) : Tail(q)[i] = q[i + 1]
  OBVIOUS

\* What the invariant says of a call reads only that call's state.
SameCall(d) ==
  /\ callPhase'[d] = callPhase[d] /\ waitFor'[d] = waitFor[d] /\ verdict'[d] = verdict[d]
  /\ reports'[d] = reports[d] /\ chain'[d] = chain[d] /\ reached'[d] = reached[d]
  /\ (d \in link' <=> d \in link) /\ (d \in transit' <=> d \in transit)
  /\ (d \in disturbed => d \in disturbed') /\ (d \in unsure => d \in unsure')

LEMMA Untouched ==
  ASSUME NEW d \in Calls, CallInv(d), SameCall(d)
  PROVE  CallInv(d)'
<1>1. OnTheWire(d)' BY DEF SameCall, CallInv, OnTheWire
<1>2. ToldTruly(d)' BY DEF SameCall, CallInv, ToldTruly
<1>3. NeverLeft(d)' BY DEF SameCall, CallInv, NeverLeft
<1>4. InOrder(d)' BY DEF SameCall, CallInv, InOrder, HeardBy
<1>5. TrueVerdict(d)' BY DEF SameCall, CallInv, TrueVerdict
<1> QED BY <1>1, <1>2, <1>3, <1>4, <1>5 DEF CallInv

\* The socket falls silent.  A call that loses its link must have been disturbed.
LEMMA Silenced ==
  ASSUME SubmissionTypeOK, NEW d \in Calls, CallInv(d), Mute,
         UNCHANGED <<chain, reached, transit, unsure>>, disturbed \subseteq disturbed',
         callPhase'[d] = callPhase[d], waitFor'[d] = waitFor[d], verdict'[d] = verdict[d],
         d \in link => d \in disturbed'
  PROVE  CallInv(d)'
<1>1. reports'[d] = <<>> /\ Len(reports'[d]) = 0 /\ d \notin link'
  BY DEF Mute
<1>2. OnTheWire(d)' BY <1>1 DEF CallInv, OnTheWire
<1>3. ToldTruly(d)' BY <1>1 DEF CallInv, ToldTruly
<1>4. NeverLeft(d)' BY <1>1 DEF CallInv, NeverLeft
<1>5. InOrder(d)' BY <1>1 DEF CallInv, InOrder
<1>6. TrueVerdict(d)' BY DEF CallInv, TrueVerdict
<1> QED BY <1>2, <1>3, <1>4, <1>5, <1>6 DEF CallInv

\* The node's state of a call changes and a live subscription hears of it: the
\* other calls notice nothing, and for this one, a report is appended or, with
\* no subscription, nothing is.
LEMMA BecomeEffect ==
  ASSUME SubmissionTypeOK, NEW c \in Calls, NEW s \in ChainStates, NEW r \in Statuses,
         Become(c, s, r)
  PROVE  /\ \A d \in Calls \ {c} : chain'[d] = chain[d] /\ reports'[d] = reports[d]
         /\ chain'[c] = s
         /\ c \notin link => reports'[c] = reports[c]
         /\ c \in link =>
              /\ Len(reports[c]) \in Nat /\ Len(reports'[c]) = Len(reports[c]) + 1
              /\ \A i \in 1..Len(reports[c]) : reports'[c][i] = reports[c][i]
              /\ reports'[c][Len(reports[c]) + 1] = r
<1>1. reports[c] \in Seq(Statuses) /\ Len(reports[c]) \in Nat
  BY DEF SubmissionTypeOK
<1>2. c \in link => reports'[c] = Append(reports[c], r)
  BY DEF SubmissionTypeOK, Become
<1>3. c \notin link => reports'[c] = reports[c]
  BY DEF Become
<1>4. chain'[c] = s /\ \A d \in Calls \ {c} : chain'[d] = chain[d] /\ reports'[d] = reports[d]
  BY DEF SubmissionTypeOK, Become
<1> QED BY <1>1, <1>2, <1>3, <1>4, AppendAt

\* A report that tells the truth, in order, keeps the invariant of its call.
LEMMA Reported ==
  ASSUME SubmissionTypeOK, NEW c \in Calls, NEW s \in ChainStates, NEW r \in Statuses,
         CallInv(c), Become(c, s, r), UNCHANGED <<callPhase, waitFor, verdict, link, disturbed>>,
         c \notin transit', callPhase[c] \in {"sending", "watching", "ending", "settled"},
         callPhase[c] = "sending" => c \in link \cup disturbed,
         reached[c] \subseteq reached'[c], unsure \subseteq unsure',
         \* r is true of s
         "Submitted" \in reached'[c], s # "unknown", s # "refused",
         Event(r) \in Stages => Event(r) \in reached'[c],
         r \in {"usurped", "invalid"} => s = r,
         r \in {"finalityTimeout", "dropped"} => c \in unsure',
         chain[c] \notin {"usurped", "invalid"},
         \* the failure of a call that trusts the node is not taken back
         verdict[c] = "failed" => c \in disturbed \cup unsure' \/ s \in {"usurped", "invalid"},
         \* r is in order
         r = "finalized" => chain[c] = "inBlock",
         s = "inBlock" => r = "inBlock" /\ chain[c] = "pool",
         s = "pool" => r \in {"ready", "retracted"}
  PROVE  CallInv(c)'
<1> DEFINE n == Len(reports[c])
<1>1. n \in Nat
  BY DEF SubmissionTypeOK
<1>2. /\ chain'[c] = s
      /\ c \notin link => reports'[c] = reports[c] /\ reports[c] = <<>>
      /\ c \in link => /\ Len(reports'[c]) = n + 1
                       /\ \A i \in 1..n : reports'[c][i] = reports[c][i]
                       /\ reports'[c][n + 1] = r
  BY BecomeEffect DEF CallInv, OnTheWire
<1>3. OnTheWire(c)'
  BY <1>2 DEF CallInv, OnTheWire
<1>4. ToldTruly(c)'
  <2>1. CASE c \notin link
    BY <1>2, <2>1 DEF CallInv, ToldTruly
  <2>2. ASSUME c \in link, NEW i \in 1..(n + 1)
        PROVE  /\ Event(reports'[c][i]) \in Stages => Event(reports'[c][i]) \in reached'[c]
               /\ reports'[c][i] \in {"usurped", "invalid"} => s = reports'[c][i]
               /\ reports'[c][i] \in {"finalityTimeout", "dropped"} => c \in unsure'
    <3>1. CASE i = n + 1
      BY <1>2, <2>2, <3>1
    <3>2. CASE i \in 1..n
      <4>1. reports'[c][i] = reports[c][i]
        BY <1>2, <2>2, <3>2
      <4> QED BY <3>2, <4>1 DEF CallInv, ToldTruly
    <3> QED BY <1>1, <2>2, <3>1, <3>2
  <2> QED BY <1>2, <2>1, <2>2 DEF ToldTruly
<1>5. NeverLeft(c)'
  BY DEF NeverLeft
<1>6. InOrder(c)'
  <2> SUFFICES ASSUME callPhase[c] \in {"sending", "watching"}, waitFor[c] # "Finalized"
               PROVE  InOrder(c)'
    BY DEF InOrder
  <2>1. CASE c \notin link
    BY <1>2, <2>1 DEF InOrder
  <2>2. CASE c \in link
    <3> DEFINE Heard(m) == \E j \in 1..m : Event(reports'[c][j]) = waitFor[c]
    <3>1. ASSUME NEW m \in 0..n, HeardBy(c, m) PROVE Heard(m)
      BY <1>1, <1>2, <2>2, <3>1 DEF HeardBy
    <3>2. ASSUME NEW i \in 1..(n + 1), reports'[c][i] = "finalized" PROVE Heard(i - 1)
      <4>1. CASE i \in 1..n
        <5>1. reports[c][i] = "finalized" /\ i - 1 \in 0..n
          BY <1>1, <1>2, <2>2, <3>2, <4>1
        <5> QED BY <3>1, <4>1, <5>1 DEF CallInv, InOrder
      <4>2. CASE i = n + 1
        <5>1. chain[c] = "inBlock" /\ HeardBy(c, n)
          BY <1>2, <2>2, <3>2, <4>2 DEF CallInv, InOrder
        <5> QED BY <1>1, <3>1, <4>2, <5>1
      <4> QED BY <1>1, <3>2, <4>1, <4>2
    <3>3. ASSUME s = "inBlock" \/ (s = "pool" /\ waitFor[c] = "Submitted")
          PROVE  Heard(n + 1)
      <4>1. CASE Event(r) = waitFor[c]
        BY <1>1, <1>2, <2>2, <4>1
      <4>2. CASE Event(r) # waitFor[c]
        <5>1. chain[c] = "pool" /\ waitFor[c] = "Submitted"
          <6>1. s = "inBlock"
            BY <3>3, <4>2 DEF Event
          <6>2. r = "inBlock" /\ chain[c] = "pool" /\ Event(r) = "InBlock"
            BY <6>1 DEF Event
          <6>3. waitFor[c] \in {"Submitted", "InBlock", "Finalized"}
            BY DEF SubmissionTypeOK, Stages
          <6> QED BY <4>2, <6>2, <6>3
        <5>2. HeardBy(c, n)
          BY <2>2, <5>1 DEF CallInv, InOrder
        <5>3. Heard(n)
          BY <1>1, <3>1, <5>2
        <5> QED BY <1>1, <5>3
      <4> QED BY ONLY <4>1, <4>2
    <3> HIDE DEF Heard
    <3>4. waitFor' = waitFor /\ link' = link /\ callPhase' = callPhase
      OBVIOUS
    <3>5. \A i \in 1..(n + 1) : reports'[c][i] = "finalized" => HeardBy(c, i - 1)'
      BY <3>2, <3>4 DEF HeardBy, Heard
    <3>6. s = "inBlock" \/ (s = "pool" /\ waitFor[c] = "Submitted") => HeardBy(c, Len(reports[c]))'
      BY <1>2, <2>2, <3>3, <3>4 DEF HeardBy, Heard
    <3> QED BY <1>2, <2>2, <3>4, <3>5, <3>6 DEF InOrder
  <2> QED BY <2>1, <2>2
<1>7. TrueVerdict(c)'
  BY <1>2 DEF CallInv, TrueVerdict
<1> QED BY <1>3, <1>4, <1>5, <1>6, <1>7 DEF CallInv

-----------------------------------------------------------------------------
(* The steps                                                               *)

Elsewhere(c) == \A d \in Calls \ {c} : SameCall(d)

\* Sharing the socket: only submitTransaction makes another call active.
LEMMA SharedStep == VerdictInv /\ [SubmissionNext]_submissionVars => SharedInv'
<1> SUFFICES ASSUME VerdictInv, [SubmissionNext]_submissionVars
             PROVE  SharedInv'
  OBVIOUS
<1> USE DEF VerdictInv, SharedInv, callVars, wireVars, nodeVars
<1>1. ASSUME link' \subseteq link, link # {} => socket' = socket \/ link' = {},
             Active' \subseteq Active, disturbed \subseteq disturbed'
      PROVE  SharedInv'
  BY <1>1
<1>2. ASSUME UNCHANGED <<socket, link, callPhase>>, disturbed \subseteq disturbed'
      PROVE  SharedInv'
  BY <1>1, <1>2 DEF Active
<1>3. ASSUME NEW c \in Calls, NEW stage \in Waits, SubmitTransaction(c, stage) PROVE SharedInv'
  <2>1. Active' \subseteq Active \cup {c}
    BY <1>3 DEF SubmitTransaction, Active, SubmissionTypeOK
  <2>2. CASE Active = {}
    BY <1>3, <2>1, <2>2 DEF SubmitTransaction
  <2>3. CASE Active # {}
    BY <1>3, <2>1, <2>3 DEF SubmitTransaction
  <2> QED BY <2>2, <2>3
<1>4. ASSUME NEW c \in Calls,
             TakeClient(c) \/ EnsureConnection(c) \/ Reply(c) \/ HandleReport(c) \/ RejectReport(c)
      PROVE  SharedInv'
  <2>1. Active' \subseteq Active
    BY <1>4 DEF TakeClient, EnsureConnection, Reply, HandleReport, RejectReport, Decide, Active,
                SubmissionTypeOK
  <2> QED
    BY <1>1, <1>4, <2>1 DEF TakeClient, EnsureConnection, Reply, HandleReport, RejectReport
<1>5. ASSUME NEW c \in Calls, Send(c) PROVE SharedInv'
  <2>1. Active' \subseteq Active
    BY <1>5 DEF Send, Decide, Active, SubmissionTypeOK
  <2> QED BY <1>5, <2>1 DEF Send
<1>6. ASSUME NEW c \in Calls, FinishCall(c) PROVE SharedInv'
  <2>1. Active' \subseteq Active
    BY <1>6 DEF FinishCall, Active, SubmissionTypeOK
  <2> QED BY <1>1, <1>6, <2>1 DEF FinishCall, Disconnect, Mute
<1>7. ASSUME CloseService \/ LoseConnection PROVE SharedInv'
  <2>1. link' = {} /\ callPhase' = callPhase /\ disturbed \subseteq disturbed'
    BY <1>7 DEF CloseService, LoseConnection, Disconnect, Mute
  <2> QED BY <1>1, <2>1 DEF Active
<1>8. ASSUME (\E c \in Calls : Connect(c)) \/ SocketOpens \/ SocketClosed PROVE SharedInv'
  <2>1. socket # "open" /\ UNCHANGED <<link, callPhase, disturbed>>
    BY <1>8 DEF Connect, SocketOpens, SocketClosed
  <2> QED BY <2>1 DEF Active
<1>9. ASSUME (\E c \in Calls : Node(c)) \/ MakeClient \/ UNCHANGED submissionVars PROVE SharedInv'
  BY <1>2, <1>9 DEF Node, NodeReceives, LoseRequest, NodeAdvances, MakeClient, submissionVars
<1> QED
  BY <1>3, <1>4, <1>5, <1>6, <1>7, <1>8, <1>9 DEF SubmissionNext, Call

\* A step of one call that touches no other call's state leaves it to that call.
LEMMA OneCall ==
  ASSUME VerdictInv, NEW c \in Calls, Elsewhere(c), CallInv(c)'
  PROVE  \A d \in Calls : CallInv(d)'
<1> SUFFICES ASSUME NEW d \in Calls, d # c PROVE CallInv(d)'
  OBVIOUS
<1> QED BY Untouched DEF VerdictInv, Elsewhere

LEMMA BeginStep ==
  ASSUME VerdictInv, NEW c \in Calls,
         \/ \E stage \in Waits : SubmitTransaction(c, stage)
         \/ TakeClient(c) \/ Connect(c) \/ EnsureConnection(c)
  PROVE  \A d \in Calls : CallInv(d)'
<1> USE DEF callVars, wireVars, nodeVars, SubmitTransaction, TakeClient, Connect, EnsureConnection
<1>1. Elsewhere(c)
  BY DEF Elsewhere, SameCall, VerdictInv, SubmissionTypeOK
<1>2. /\ callPhase[c] \in {"idle", "awaiting", "connecting"}
      /\ callPhase'[c] \in {"awaiting", "connecting", "connected"}
      /\ UNCHANGED <<verdict, link, transit, reports, chain, reached, unsure>>
  BY DEF VerdictInv, SubmissionTypeOK
<1>3. CallInv(c)
  BY DEF VerdictInv
<1>4. CallInv(c)'
  <2>1. OnTheWire(c)' BY <1>2, <1>3 DEF CallInv, OnTheWire
  <2>2. ToldTruly(c)' BY <1>2, <1>3 DEF CallInv, ToldTruly
  <2>3. NeverLeft(c)' /\ InOrder(c)' BY <1>2 DEF NeverLeft, InOrder
  <2>4. TrueVerdict(c)' BY <1>2, <1>3 DEF CallInv, OnTheWire, TrueVerdict, Stages
  <2> QED BY <2>1, <2>2, <2>3, <2>4 DEF CallInv
<1> QED BY <1>1, <1>4, OneCall

LEMMA SendStep ==
  ASSUME VerdictInv, NEW c \in Calls, Send(c)
  PROVE  \A d \in Calls : CallInv(d)'
<1> USE DEF callVars, wireVars, nodeVars
<1>1. CallInv(c) /\ callPhase[c] = "connected"
  BY DEF VerdictInv, Send
<1>2. UNCHANGED <<waitFor, reports, chain, reached, disturbed, unsure>>
  BY DEF Send
<1>3. /\ reports[c] = <<>> /\ Len(reports[c]) = 0
      /\ chain[c] = "unknown" /\ c \notin transit /\ c \notin link /\ verdict[c] = "none"
  BY <1>1 DEF CallInv, OnTheWire
<1>4. Elsewhere(c)
  <2>1. \A d \in Calls \ {c} : callPhase'[d] = callPhase[d] /\ verdict'[d] = verdict[d]
    BY DEF Send, Decide, VerdictInv, SubmissionTypeOK
  <2>2. \A d \in Calls \ {c} : (d \in link' <=> d \in link) /\ (d \in transit' <=> d \in transit)
    BY DEF Send
  <2> QED BY <1>2, <2>1, <2>2 DEF Elsewhere, SameCall
<1>5. \/ /\ callPhase'[c] = "sending" /\ verdict'[c] = "none"
         /\ c \in link' <=> c \in transit'
      \/ /\ callPhase'[c] = "ending" /\ verdict'[c] = "failed"
         /\ c \notin link' /\ c \notin transit'
  BY <1>3 DEF Send, Decide, IsConnected, VerdictInv, SubmissionTypeOK
<1>6. CallInv(c)'
  <2>1. OnTheWire(c)' BY <1>2, <1>3, <1>5 DEF OnTheWire
  <2>2. ToldTruly(c)' BY <1>2, <1>3 DEF ToldTruly
  <2>3. NeverLeft(c)' BY <1>2, <1>3, <1>5 DEF NeverLeft
  <2>4. InOrder(c)' BY <1>2, <1>3 DEF InOrder
  <2>5. TrueVerdict(c)' BY <1>2, <1>3, <1>5 DEF TrueVerdict, Stages
  <2> QED BY <2>1, <2>2, <2>3, <2>4, <2>5 DEF CallInv
<1> QED BY <1>4, <1>6, OneCall

LEMMA ReplyStep ==
  ASSUME VerdictInv, NEW c \in Calls, Reply(c)
  PROVE  \A d \in Calls : CallInv(d)'
<1> USE DEF callVars, wireVars, nodeVars
<1>1. CallInv(c) /\ callPhase[c] = "sending"
  BY DEF VerdictInv, Reply
<1>2. UNCHANGED <<waitFor, link, transit, reports, chain, reached, disturbed, unsure>>
  BY DEF Reply
<1>3. Elsewhere(c)
  <2>1. \A d \in Calls \ {c} : callPhase'[d] = callPhase[d] /\ verdict'[d] = verdict[d]
    BY DEF Reply, Decide, VerdictInv, SubmissionTypeOK
  <2> QED BY <1>2, <2>1 DEF Elsewhere, SameCall
<1>4. \/ /\ callPhase'[c] = "watching" /\ verdict'[c] = verdict[c]
      \/ /\ callPhase'[c] = "ending" /\ verdict'[c] = "failed"
         /\ \/ c \notin transit /\ chain[c] = "refused"
            \/ c \notin link
  BY DEF Reply, Decide, VerdictInv, SubmissionTypeOK
<1>5. CallInv(c)'
  <2>1. OnTheWire(c)' BY <1>1, <1>2, <1>4 DEF CallInv, OnTheWire
  <2>2. ToldTruly(c)' BY <1>1, <1>2 DEF CallInv, ToldTruly
  <2>3. NeverLeft(c)' BY <1>4 DEF NeverLeft
  <2>4. InOrder(c)' BY <1>1, <1>2, <1>4 DEF CallInv, InOrder, HeardBy
  <2>5. TrueVerdict(c)'
    <3>1. verdict[c] = "none"
      BY <1>1 DEF CallInv, OnTheWire
    <3>2. c \in link \cup disturbed \/ (c \notin transit /\ chain[c] = "unknown")
      BY <1>1 DEF CallInv, NeverLeft
    <3> QED BY <1>2, <1>4, <3>1, <3>2 DEF TrueVerdict, Stages
  <2> QED BY <2>1, <2>2, <2>3, <2>4, <2>5 DEF CallInv
<1> QED BY <1>3, <1>5, OneCall

\* The report at the head of the queue decides the call or is dropped; in order,
\* it is not a finality for which the call does not wait.
LEMMA HandleStep ==
  ASSUME VerdictInv, NEW c \in Calls, HandleReport(c)
  PROVE  \A d \in Calls : CallInv(d)'
<1> DEFINE q == reports[c]
           s == Head(q)
<1> USE DEF callVars, wireVars, nodeVars
<1>1. CallInv(c) /\ callPhase[c] = "watching" /\ verdict[c] = "none"
  BY DEF VerdictInv, HandleReport, CallInv, OnTheWire
<1>2. /\ UNCHANGED <<waitFor, link, transit, chain, reached, disturbed, unsure>>
      /\ reports'[c] = Tail(q)
  BY DEF HandleReport, VerdictInv, SubmissionTypeOK
<1>3. q \in Seq(Statuses) /\ q # <<>> /\ c \in link
  BY <1>1 DEF HandleReport, VerdictInv, SubmissionTypeOK, CallInv, OnTheWire
<1>4. /\ Len(q) \in Nat \ {0} /\ s = q[1]
      /\ Len(Tail(q)) = Len(q) - 1
      /\ \A i \in 1..(Len(q) - 1) : Tail(q)[i] = q[i + 1]
  BY <1>3, TailAt
<1>5. Elsewhere(c)
  <2>1. \A d \in Calls \ {c} : /\ callPhase'[d] = callPhase[d] /\ verdict'[d] = verdict[d]
                              /\ reports'[d] = reports[d]
    BY DEF HandleReport, Decide, VerdictInv, SubmissionTypeOK
  <2> QED BY <1>2, <2>1 DEF Elsewhere, SameCall
<1>6. \/ /\ callPhase'[c] = "ending" /\ verdict'[c] = waitFor[c] /\ Event(s) = waitFor[c]
      \/ /\ callPhase'[c] = "ending" /\ verdict'[c] = "failed"
         /\ Event(s) \in {"error", "Finalized"} /\ Event(s) # waitFor[c]
      \/ /\ callPhase'[c] = callPhase[c] /\ verdict'[c] = "none" /\ Event(s) # waitFor[c]
  BY <1>1 DEF HandleReport, Decide, VerdictInv, SubmissionTypeOK
<1>7. /\ Event(s) \in Stages => Event(s) \in reached[c]
      /\ s \in {"usurped", "invalid"} => chain[c] = s
      /\ s \in {"finalityTimeout", "dropped"} => c \in unsure
  BY <1>1, <1>4 DEF CallInv, ToldTruly
<1>8. waitFor[c] # "Finalized" => s # "finalized"
  <2> SUFFICES ASSUME waitFor[c] # "Finalized", s = "finalized" PROVE FALSE
    OBVIOUS
  <2>1. HeardBy(c, 1 - 1)
    BY <1>1, <1>4 DEF CallInv, InOrder
  <2> QED BY <2>1 DEF HeardBy
<1>9. OnTheWire(c)' BY <1>1, <1>2, <1>3, <1>6 DEF CallInv, OnTheWire
<1>10. ToldTruly(c)'
  <2>1. chain[c] \notin {"unknown", "refused"} => "Submitted" \in reached[c]
    BY <1>1 DEF CallInv, ToldTruly
  <2>2. ASSUME NEW i \in 1..(Len(q) - 1)
        PROVE  /\ Event(q[i + 1]) \in Stages => Event(q[i + 1]) \in reached[c]
               /\ q[i + 1] \in {"usurped", "invalid"} => chain[c] = q[i + 1]
               /\ q[i + 1] \in {"finalityTimeout", "dropped"} => c \in unsure
    <3>1. i + 1 \in 1..Len(q)
      BY <1>4
    <3> QED BY <1>1, <3>1 DEF CallInv, ToldTruly
  <2> QED BY <1>2, <1>4, <2>1, <2>2 DEF ToldTruly
<1>11. NeverLeft(c)' BY <1>1, <1>6 DEF NeverLeft
<1>12. InOrder(c)'
  <2> SUFFICES ASSUME callPhase'[c] = "watching", waitFor[c] # "Finalized"
               PROVE  InOrder(c)'
    BY <1>1, <1>2, <1>6 DEF InOrder
  <2>1. Event(q[1]) # waitFor[c]
    BY <1>4, <1>6
  <2> DEFINE Heard(m) == \E j \in 1..m : Event(reports'[c][j]) = waitFor[c]
  <2>2. ASSUME NEW m \in 0..(Len(q) - 1), HeardBy(c, m + 1) PROVE Heard(m)
    <3>1. PICK j \in 1..(m + 1) : Event(q[j]) = waitFor[c]
      BY <2>2 DEF HeardBy
    <3>2. j - 1 \in 1..m /\ j - 1 \in 1..(Len(q) - 1) /\ (j - 1) + 1 = j
      BY <1>4, <2>1, <3>1
    <3>3. reports'[c][j - 1] = q[j]
      BY <1>2, <1>4, <3>2
    <3> QED BY <3>1, <3>2, <3>3
  <2>3. ASSUME NEW i \in 1..(Len(q) - 1), q[i + 1] = "finalized" PROVE Heard(i - 1)
    <3>1. i + 1 \in 1..Len(q) /\ (i + 1) - 1 = (i - 1) + 1 /\ i - 1 \in 0..(Len(q) - 1)
      BY <1>4
    <3>2. HeardBy(c, (i + 1) - 1)
      BY <1>1, <2>3, <3>1 DEF CallInv, InOrder
    <3> QED BY <2>2, <3>1, <3>2
  <2>4. ASSUME chain[c] = "inBlock" \/ (chain[c] = "pool" /\ waitFor[c] = "Submitted")
        PROVE  Heard(Len(q) - 1)
    <3>1. HeardBy(c, Len(q)) /\ Len(q) = (Len(q) - 1) + 1 /\ Len(q) - 1 \in 0..(Len(q) - 1)
      BY <1>1, <1>3, <1>4, <2>4 DEF CallInv, InOrder
    <3> QED BY <2>2, <3>1
  <2> HIDE DEF Heard
  <2>5. \A i \in 1..(Len(q) - 1) : reports'[c][i] = "finalized" => HeardBy(c, i - 1)'
    BY <1>2, <1>4, <2>3 DEF HeardBy, Heard
  <2>6. chain[c] = "inBlock" \/ (chain[c] = "pool" /\ waitFor[c] = "Submitted") =>
          HeardBy(c, Len(reports[c]))'
    BY <1>2, <1>4, <2>4 DEF HeardBy, Heard
  <2> QED BY <1>2, <1>4, <2>5, <2>6 DEF InOrder
<1>13. TrueVerdict(c)'
  <2>1. s \in Statuses
    BY <1>3, <1>4
  <2>2. CASE verdict'[c] = "failed" /\ waitFor[c] # "failed"
    <3>1. Event(s) = "Finalized" => waitFor[c] # "Finalized" /\ s = "finalized"
      BY <1>6, <2>1, <2>2 DEF Event, Statuses
    <3>2. s \in {"usurped", "invalid", "finalityTimeout", "dropped"}
      BY <1>6, <1>8, <2>1, <2>2, <3>1 DEF Event, Statuses
    <3>3. c \notin transit \/ chain[c] = "unknown"
      BY <1>1 DEF CallInv, OnTheWire
    <3> QED BY <1>2, <1>7, <2>2, <3>2, <3>3 DEF TrueVerdict, Stages
  <2>3. CASE verdict'[c] # "failed"
    BY <1>2, <1>6, <1>7, <2>3 DEF TrueVerdict, Stages
  <2>4. waitFor[c] # "failed"
    BY DEF VerdictInv, SubmissionTypeOK, Stages
  <2> QED BY <2>2, <2>3, <2>4
<1> QED
  <2>1. CallInv(c)'
    BY <1>9, <1>10, <1>11, <1>12, <1>13 DEF CallInv
  <2> QED BY <1>5, <2>1, OneCall

LEMMA RejectStep ==
  ASSUME VerdictInv, NEW c \in Calls, RejectReport(c)
  PROVE  \A d \in Calls : CallInv(d)'
<1> USE DEF callVars, wireVars, nodeVars
<1>1. CallInv(c) /\ callPhase[c] = "watching"
  BY DEF VerdictInv, RejectReport
<1>2. /\ UNCHANGED <<waitFor, link, transit, reports, chain, reached, disturbed>>
      /\ unsure' = unsure \cup {c}
      /\ callPhase'[c] = "ending" /\ verdict'[c] = "failed"
  BY DEF RejectReport, Decide, VerdictInv, SubmissionTypeOK
<1>3. Elsewhere(c)
  <2>1. \A d \in Calls \ {c} : callPhase'[d] = callPhase[d] /\ verdict'[d] = verdict[d]
    BY DEF RejectReport, Decide, VerdictInv, SubmissionTypeOK
  <2> QED BY <1>2, <2>1 DEF Elsewhere, SameCall
<1>4. CallInv(c)'
  <2>1. OnTheWire(c)' BY <1>1, <1>2 DEF CallInv, OnTheWire
  <2>2. ToldTruly(c)' BY <1>1, <1>2 DEF CallInv, ToldTruly
  <2>3. NeverLeft(c)' /\ InOrder(c)' BY <1>2 DEF NeverLeft, InOrder
  <2>4. TrueVerdict(c)' BY <1>2 DEF TrueVerdict, Stages
  <2> QED BY <2>1, <2>2, <2>3, <2>4 DEF CallInv
<1> QED BY <1>3, <1>4, OneCall

\* Whoever ends cuts the links of the others, and they overlapped with it.
LEMMA FinishStep ==
  ASSUME VerdictInv, NEW c \in Calls, FinishCall(c)
  PROVE  \A d \in Calls : CallInv(d)'
<1> USE DEF callVars, wireVars, nodeVars
<1>1. /\ Mute /\ UNCHANGED <<waitFor, verdict, transit, chain, reached, disturbed, unsure>>
      /\ callPhase[c] = "ending" /\ callPhase'[c] = "settled"
      /\ \A d \in Calls \ {c} : callPhase'[d] = callPhase[d]
  BY DEF FinishCall, Disconnect, VerdictInv, SubmissionTypeOK
<1>2. ASSUME NEW d \in Calls, d # c PROVE CallInv(d)'
  <2>1. d \in link => d \in disturbed
    BY <1>1, <1>2 DEF VerdictInv, SharedInv, CallInv, OnTheWire, Active
  <2>2. SubmissionTypeOK /\ CallInv(d) /\ callPhase'[d] = callPhase[d]
    BY <1>1, <1>2 DEF VerdictInv
  <2> QED BY <1>1, <2>1, <2>2, Silenced
<1>3. CallInv(c)'
  <2>1. CallInv(c)
    BY DEF VerdictInv
  <2>2. reports'[c] = <<>> /\ Len(reports'[c]) = 0 /\ c \notin link'
    BY <1>1 DEF Mute
  <2>3. OnTheWire(c)' BY <1>1, <2>1, <2>2 DEF CallInv, OnTheWire
  <2>4. ToldTruly(c)' BY <1>1, <2>1, <2>2 DEF CallInv, ToldTruly
  <2>5. NeverLeft(c)' /\ InOrder(c)' BY <1>1 DEF NeverLeft, InOrder
  <2>6. TrueVerdict(c)' BY <1>1, <2>1 DEF CallInv, TrueVerdict
  <2> QED BY <2>3, <2>4, <2>5, <2>6 DEF CallInv
<1> QED BY <1>2, <1>3

LEMMA CutStep ==
  ASSUME VerdictInv, CloseService \/ LoseConnection
  PROVE  \A d \in Calls : CallInv(d)'
<1> SUFFICES ASSUME NEW d \in Calls PROVE CallInv(d)'
  OBVIOUS
<1> USE DEF callVars, wireVars, nodeVars
<1>1. /\ Mute /\ UNCHANGED <<callPhase, waitFor, verdict, transit, chain, reached, unsure>>
      /\ disturbed \subseteq disturbed'
  BY DEF CloseService, LoseConnection, Disconnect
<1>2. d \in link => d \in disturbed'
  <2>1. d \in link => socket = "open" /\ d \in Active
    BY DEF VerdictInv, SharedInv, CallInv, OnTheWire, Active
  <2> QED BY <2>1 DEF CloseService, LoseConnection
<1>3. SubmissionTypeOK /\ CallInv(d)
  BY DEF VerdictInv
<1> QED BY <1>1, <1>2, <1>3, Silenced

LEMMA ReceiveStep ==
  ASSUME VerdictInv, NEW c \in Calls, NodeReceives(c) \/ LoseRequest(c)
  PROVE  \A d \in Calls : CallInv(d)'
<1> USE DEF callVars, wireVars, nodeVars
<1>1. /\ SubmissionTypeOK /\ CallInv(c) /\ c \in transit /\ chain[c] = "unknown"
      /\ UNCHANGED <<callPhase, waitFor, verdict, link, disturbed, unsure>>
      /\ transit' = transit \ {c}
      /\ callPhase[c] \in {"sending", "watching", "ending", "settled"}
  BY DEF VerdictInv, CallInv, OnTheWire, NodeReceives, LoseRequest, SubmissionTypeOK, Phases
<1>2. CASE NodeReceives(c) /\ Become(c, "pool", "ready") /\ reached' = [reached EXCEPT ![c] = @ \cup {"Submitted"}]
  <2>1. "pool" \in ChainStates /\ "ready" \in Statuses
    BY DEF ChainStates, Statuses
  <2>2. /\ \A d \in Calls \ {c} : /\ chain'[d] = chain[d] /\ reports'[d] = reports[d]
                                 /\ reached'[d] = reached[d]
        /\ reached[c] \subseteq reached'[c] /\ "Submitted" \in reached'[c]
    BY <1>1, <1>2, <2>1, BecomeEffect DEF SubmissionTypeOK
  <2>3. Elsewhere(c)
    BY <1>1, <2>2 DEF Elsewhere, SameCall
  <2>4. Event("ready") = "Submitted"
    BY DEF Event
  <2>5. /\ callPhase[c] = "sending" => c \in link \cup disturbed
        /\ verdict[c] = "failed" => c \in disturbed \cup unsure'
    BY <1>1 DEF CallInv, NeverLeft, TrueVerdict
  <2>6. CallInv(c)'
    BY <1>1, <1>2, <2>1, <2>2, <2>4, <2>5, Reported
  <2> QED BY <2>3, <2>6, OneCall
<1>3. CASE \/ LoseRequest(c)
           \/ chain' = [chain EXCEPT ![c] = "refused"] /\ UNCHANGED <<reports, reached>>
  <2>1. /\ chain'[c] \in {"unknown", "refused"} /\ UNCHANGED <<reports, reached>>
        /\ \A d \in Calls \ {c} : chain'[d] = chain[d]
    BY <1>1, <1>3 DEF LoseRequest, SubmissionTypeOK
  <2>2. Elsewhere(c)
    BY <1>1, <2>1 DEF Elsewhere, SameCall
  <2>3. OnTheWire(c)' BY <1>1, <2>1 DEF CallInv, OnTheWire
  <2>4. ToldTruly(c)' BY <1>1, <2>1 DEF CallInv, ToldTruly
  <2>5. NeverLeft(c)' BY <1>1, <2>1 DEF CallInv, NeverLeft
  <2>6. InOrder(c)' BY <1>1, <2>1 DEF CallInv, InOrder, HeardBy
  <2>7. TrueVerdict(c)' BY <1>1, <2>1 DEF CallInv, TrueVerdict
  <2> QED BY <2>2, <2>3, <2>4, <2>5, <2>6, <2>7, OneCall DEF CallInv
<1> QED BY <1>2, <1>3 DEF NodeReceives

LEMMA AdvanceStep ==
  ASSUME VerdictInv, NEW c \in Calls, NodeAdvances(c)
  PROVE  \A d \in Calls : CallInv(d)'
<1> USE DEF callVars, wireVars, nodeVars
<1>1. /\ SubmissionTypeOK /\ CallInv(c) /\ chain[c] \in {"pool", "inBlock"}
      /\ UNCHANGED <<callPhase, waitFor, verdict, link, transit, disturbed>>
      /\ \A d \in Calls \ {c} : reached'[d] = reached[d]
      /\ reached[c] \subseteq reached'[c] /\ unsure \subseteq unsure'
  BY DEF VerdictInv, NodeAdvances, Include, Finalize, Retract, Discard, GiveUp, SubmissionTypeOK
<1>2. /\ c \notin transit /\ "Submitted" \in reached'[c]
      /\ callPhase[c] \in {"sending", "watching", "ending", "settled"}
      /\ callPhase[c] = "sending" => c \in link \cup disturbed
      /\ verdict[c] = "failed" => c \in disturbed \cup unsure
  BY <1>1 DEF CallInv, OnTheWire, ToldTruly, NeverLeft, TrueVerdict, SubmissionTypeOK, Phases
<1>3. ASSUME NEW s \in ChainStates, NEW r \in Statuses, Become(c, s, r),
             s # "unknown", s # "refused",
             Event(r) \in Stages => Event(r) \in reached'[c],
             r \in {"usurped", "invalid"} => s = r,
             r \in {"finalityTimeout", "dropped"} => c \in unsure',
             r = "finalized" => chain[c] = "inBlock",
             s = "inBlock" => r = "inBlock" /\ chain[c] = "pool",
             s = "pool" => r \in {"ready", "retracted"}
      PROVE  \A d \in Calls : CallInv(d)'
  <2>1. \A d \in Calls \ {c} : chain'[d] = chain[d] /\ reports'[d] = reports[d]
    BY <1>1, <1>3, BecomeEffect
  <2>2. Elsewhere(c)
    BY <1>1, <2>1 DEF Elsewhere, SameCall
  <2>3. CallInv(c)'
    BY <1>1, <1>2, <1>3, Reported
  <2> QED BY <2>2, <2>3, OneCall
<1> USE DEF ChainStates, Statuses, Event, Stages
<1>4. CASE Include(c)
  <2>1. "InBlock" \in reached'[c]
    BY <1>1, <1>4 DEF Include, SubmissionTypeOK
  <2> QED BY <1>3, <1>4, <2>1 DEF Include
<1>5. CASE Finalize(c)
  <2>1. "Finalized" \in reached'[c]
    BY <1>1, <1>5 DEF Finalize, SubmissionTypeOK
  <2> QED BY <1>3, <1>5, <2>1 DEF Finalize
<1>6. CASE Retract(c) BY <1>2, <1>3, <1>6 DEF Retract
<1>7. CASE Discard(c) BY <1>3, <1>7 DEF Discard
<1>8. CASE GiveUp(c) BY <1>3, <1>8 DEF GiveUp
<1> QED BY <1>4, <1>5, <1>6, <1>7, <1>8 DEF NodeAdvances

LEMMA VerdictStep == VerdictInv /\ [SubmissionNext]_submissionVars => VerdictInv'
<1> SUFFICES ASSUME VerdictInv, [SubmissionNext]_submissionVars
             PROVE  \A d \in Calls : CallInv(d)'
  BY SubmissionTypeStep, SharedStep DEF VerdictInv
<1>1. CASE UNCHANGED <<callVars, wireVars, nodeVars, disturbed, unsure>>
  <2>1. ASSUME NEW d \in Calls PROVE CallInv(d) /\ SameCall(d)
    BY <1>1 DEF VerdictInv, SameCall, callVars, wireVars, nodeVars
  <2> QED BY <2>1, Untouched
<1>2. UNCHANGED submissionVars \/ MakeClient \/ SocketOpens \/ SocketClosed =>
        UNCHANGED <<callVars, wireVars, nodeVars, disturbed, unsure>>
  BY DEF submissionVars, MakeClient, SocketOpens, SocketClosed
<1> QED
  BY <1>1, <1>2, BeginStep, SendStep, ReplyStep, HandleStep, RejectStep, FinishStep, CutStep,
     ReceiveStep, AdvanceStep
  DEF SubmissionNext, Call, Node

LEMMA VerdictBegins == SubmissionInit => VerdictInv
<1> SUFFICES ASSUME SubmissionInit PROVE SharedInv /\ \A c \in Calls : CallInv(c)
  BY SubmissionTypeInit DEF VerdictInv
<1>1. SharedInv
  BY DEF SubmissionInit, SharedInv, Active
<1>2. ASSUME NEW c \in Calls PROVE CallInv(c)
  <2>1. reports[c] = <<>> /\ Len(reports[c]) = 0
    BY DEF SubmissionInit
  <2> QED
    BY <2>1 DEF SubmissionInit, CallInv, OnTheWire, ToldTruly, NeverLeft, InOrder, TrueVerdict,
                Stages
<1> QED BY <1>1, <1>2

\* What submitTransaction tells its caller is true of the chain, and a failure it
\* reports, with the client to itself and a node that stands by its word, is one
\* the facade may act on: for any number of calls, losses and reorganizations.
THEOREM AnswersAreTrue == SubmissionSpec => []VerdictsAreTrue
<1>1. VerdictInv => VerdictsAreTrue
  BY DEF VerdictInv, CallInv, TrueVerdict, VerdictsAreTrue, StageWasReached, FailedStaysOut
<1> QED BY <1>1, VerdictBegins, VerdictStep, PTL DEF SubmissionSpec

-----------------------------------------------------------------------------
(* Proving                                                                 *)

USE DEF provingVars, workerVars, keyVars

\* A call that has not begun has neither worker nor request, and one that asks
\* the proof server has no live worker, so the server's answer orphans none.
Apart ==
  \A c \in Proofs :
    /\ promise[c] = "none" => worker[c] = "none" /\ request[c] = 0
    /\ request[c] > 0 => worker[c] \in {"none", "gone"}

WorkerInv == ProvingTypeOK /\ Apart /\ NoOrphanWorker

\* A message, the end of a worker and the settling of a promise keep the types.
LEMMA SettleTyped ==
  ASSUME ProvingTypeOK, NEW c \in Proofs, NEW r \in {"resolved", "rejected"}, Settle(c, r)
  PROVE  promise' \in [Proofs -> {"none", "pending", "resolved", "rejected"}]
  BY DEF ProvingTypeOK, Settle

LEMMA TerminateTyped ==
  ASSUME ProvingTypeOK, NEW c \in Proofs, Terminate(c)
  PROVE  /\ worker' \in [Proofs -> {"none", "running", "done", "failed", "gone"}]
         /\ outbox' \in [Proofs -> Seq(KeyFiles \cup {"result", "error"})]
         /\ asked' \in [Proofs -> SUBSET KeyFiles]
         /\ held' \in [Proofs -> SUBSET KeyFiles]
  BY DEF ProvingTypeOK, Terminate

LEMMA GiveTyped ==
  ASSUME ProvingTypeOK, NEW c \in Proofs, NEW k \in KeyFiles, Give(c, k)
  PROVE  /\ asked' \in [Proofs -> SUBSET KeyFiles]
         /\ held' \in [Proofs -> SUBSET KeyFiles]
<1>1. asked[c] \ {k} \in SUBSET KeyFiles /\ held[c] \cup {k} \in SUBSET KeyFiles
  BY DEF ProvingTypeOK
<1> QED BY <1>1 DEF ProvingTypeOK, Give

LEMMA ProvingTypeStep == ProvingTypeOK /\ [ProvingNext]_provingVars => ProvingTypeOK'
<1> SUFFICES ASSUME ProvingTypeOK, [ProvingNext]_provingVars
             PROVE  ProvingTypeOK'
  OBVIOUS
<1> USE ProvingAssumption
<1>1. CASE UNCHANGED provingVars
  BY <1>1 DEF ProvingTypeOK
<1>2. ASSUME NEW c \in Proofs, CallProverWorker(c) PROVE ProvingTypeOK'
  BY <1>2 DEF ProvingTypeOK, CallProverWorker
<1>3. ASSUME NEW c \in Proofs, OnLookup(c) PROVE ProvingTypeOK'
  <2> DEFINE k == Head(outbox[c])
  <2>1. k \in KeyFiles /\ outbox[c] \in Seq(KeyFiles \cup {"result", "error"}) /\ outbox[c] # <<>>
    BY <1>3 DEF OnLookup, ProvingTypeOK
  <2>2. outbox' \in [Proofs -> Seq(KeyFiles \cup {"result", "error"})]
    <3>1. Tail(outbox[c]) \in Seq(KeyFiles \cup {"result", "error"})
      BY <2>1
    <3> QED BY <1>3, <3>1 DEF OnLookup, ProvingTypeOK
  <2>3. lookup' \in SUBSET Lookup
    <3>1. [call |-> c, key |-> k, file |-> 1, attempt |-> 1] \in Lookup
      BY <2>1 DEF Lookup
    <3> QED BY <1>3, <3>1 DEF OnLookup, ProvingTypeOK
  <2>4. asked' \in [Proofs -> SUBSET KeyFiles] /\ held' \in [Proofs -> SUBSET KeyFiles]
    <3>1. CASE k \in cache BY <1>3, <2>1, <3>1, GiveTyped DEF OnLookup
    <3>2. CASE k \notin cache BY <1>3, <3>2 DEF OnLookup, ProvingTypeOK
    <3> QED BY <3>1, <3>2
  <2> QED BY <1>3, <2>2, <2>3, <2>4 DEF OnLookup, ProvingTypeOK
<1>4. ASSUME NEW c \in Proofs, OnResult(c) PROVE ProvingTypeOK'
  BY <1>4, SettleTyped, TerminateTyped DEF OnResult, ProvingTypeOK
<1>5. ASSUME NEW c \in Proofs, OnWorkerError(c) PROVE ProvingTypeOK'
  BY <1>5, SettleTyped, TerminateTyped DEF OnWorkerError, ProvingTypeOK
<1>6. ASSUME NEW c \in Proofs, TimeOut(c) PROVE ProvingTypeOK'
  BY <1>6, SettleTyped, TerminateTyped DEF TimeOut, ProvingTypeOK
<1>7. ASSUME NEW l \in lookup, FetchFile(l) PROVE ProvingTypeOK'
  <2>1. l \in Lookup /\ l.call \in Proofs /\ l.key \in KeyFiles
    BY DEF ProvingTypeOK, Lookup
  <2>2. CASE l.file < Files
    <3>1. l.file + 1 \in 1..Files /\ 1 \in 1..Attempts
      BY <2>1, <2>2 DEF Lookup
    <3>2. [l EXCEPT !.file = @ + 1, !.attempt = 1] \in Lookup
      BY <2>1, <3>1 DEF Lookup
    <3> QED BY <1>7, <2>2, <3>2 DEF FetchFile, ProvingTypeOK
  <2>3. CASE ~(l.file < Files)
    <3>1. asked' \in [Proofs -> SUBSET KeyFiles] /\ held' \in [Proofs -> SUBSET KeyFiles]
      BY <1>7, <2>1, <2>3, GiveTyped DEF FetchFile
    <3> QED BY <1>7, <2>1, <2>3, <3>1 DEF FetchFile, ProvingTypeOK
  <2> QED BY <2>2, <2>3
<1>8. ASSUME NEW l \in lookup, RetryFetch(l) PROVE ProvingTypeOK'
  <2>1. l \in Lookup /\ l.attempt + 1 \in 1..Attempts
    BY <1>8 DEF RetryFetch, ProvingTypeOK, Lookup
  <2>2. [l EXCEPT !.attempt = @ + 1] \in Lookup
    BY <2>1 DEF Lookup
  <2>3. UNCHANGED <<promise, worker, outbox, asked, held, cache, request>>
    BY <1>8 DEF RetryFetch
  <2>4. lookup' \in SUBSET Lookup
    BY <1>8, <2>2 DEF RetryFetch, ProvingTypeOK
  <2> QED BY <2>3, <2>4 DEF ProvingTypeOK
<1>9. ASSUME NEW l \in lookup, GiveUpLookup(l) PROVE ProvingTypeOK'
  <2>1. l.call \in Proofs
    BY DEF ProvingTypeOK, Lookup
  <2>2. Settle(l.call, "rejected") /\ Terminate(l.call)
    BY <1>9 DEF GiveUpLookup
  <2>3. promise' \in [Proofs -> {"none", "pending", "resolved", "rejected"}]
    BY <2>1, <2>2, SettleTyped
  <2>4. /\ worker' \in [Proofs -> {"none", "running", "done", "failed", "gone"}]
        /\ outbox' \in [Proofs -> Seq(KeyFiles \cup {"result", "error"})]
        /\ asked' \in [Proofs -> SUBSET KeyFiles]
        /\ held' \in [Proofs -> SUBSET KeyFiles]
    BY <2>1, <2>2, TerminateTyped
  <2>5. lookup' \in SUBSET Lookup /\ UNCHANGED <<cache, request>>
    BY <1>9 DEF GiveUpLookup, ProvingTypeOK
  <2>6. cache' \in SUBSET KeyFiles /\ request' \in [Proofs -> 0..(Retries + 1)]
    BY <2>5 DEF ProvingTypeOK
  <2> QED BY <2>3, <2>4, <2>5, <2>6 DEF ProvingTypeOK
<1>10. ASSUME NEW c \in Proofs, NEW k \in KeyFiles, AskKey(c, k) PROVE ProvingTypeOK'
  BY <1>10 DEF AskKey, ProvingTypeOK
<1>11. ASSUME NEW c \in Proofs, PostResult(c) PROVE ProvingTypeOK'
  BY <1>11 DEF PostResult, ProvingTypeOK
<1>12. ASSUME NEW c \in Proofs, Throw(c) PROVE ProvingTypeOK'
  <2>1. Append(outbox[c], "error") \in Seq(KeyFiles \cup {"result", "error"})
    BY DEF ProvingTypeOK
  <2>2. outbox' \in [Proofs -> Seq(KeyFiles \cup {"result", "error"})]
    BY <1>12, <2>1 DEF Throw, ProvingTypeOK
  <2> QED BY <1>12, <2>2 DEF Throw, ProvingTypeOK
<1>13. ASSUME NEW c \in Proofs, PostRequest(c) PROVE ProvingTypeOK'
  BY <1>13 DEF PostRequest, ProvingTypeOK
<1>14. ASSUME NEW c \in Proofs, NEW r \in {"resolved", "rejected"}, Answer(c, r)
       PROVE ProvingTypeOK'
  BY <1>14, SettleTyped DEF Answer, ProvingTypeOK
<1>15. ASSUME NEW c \in Proofs, RepeatRequest(c) PROVE ProvingTypeOK'
  BY <1>15 DEF RepeatRequest, ProvingTypeOK
<1> QED
  BY <1>1, <1>2, <1>3, <1>4, <1>5, <1>6, <1>7, <1>8, <1>9, <1>10, <1>11, <1>12, <1>13, <1>14,
     <1>15 DEF ProvingNext, OnMessage, Download, Serve

\* Every variable keeps its type, whatever the sizes of the sets and bounds.
THEOREM ProvingTypeCorrect == ProvingSpec => []ProvingTypeOK
<1>1. ProvingInit => ProvingTypeOK
  BY ProvingAssumption DEF ProvingInit, ProvingTypeOK
<1> QED BY <1>1, ProvingTypeStep, PTL DEF ProvingSpec

-----------------------------------------------------------------------------

\* The steps that end a worker leave Apart and NoOrphanWorker to the promise.
LEMMA EndsApart ==
  ASSUME WorkerInv, NEW c \in Proofs, NEW r \in {"resolved", "rejected"},
         Settle(c, r), Terminate(c), UNCHANGED request
  PROVE  Apart' /\ NoOrphanWorker'
  BY DEF WorkerInv, ProvingTypeOK, Apart, NoOrphanWorker, Settled, Settle, Terminate

LEMMA WorkerStep == WorkerInv /\ [ProvingNext]_provingVars => WorkerInv'
<1> SUFFICES ASSUME WorkerInv, [ProvingNext]_provingVars
             PROVE  Apart' /\ NoOrphanWorker'
  BY ProvingTypeStep DEF WorkerInv
<1> USE ProvingAssumption
<1>1. ASSUME UNCHANGED <<promise, worker, request>> PROVE Apart' /\ NoOrphanWorker'
  BY <1>1 DEF WorkerInv, Apart, NoOrphanWorker, Settled
<1>2. ASSUME NEW c \in Proofs, CallProverWorker(c) PROVE Apart' /\ NoOrphanWorker'
  BY <1>2 DEF WorkerInv, ProvingTypeOK, Apart, NoOrphanWorker, Settled, CallProverWorker
<1>3. ASSUME NEW c \in Proofs, OnResult(c) \/ OnWorkerError(c) \/ TimeOut(c)
      PROVE Apart' /\ NoOrphanWorker'
  BY <1>3, EndsApart DEF OnResult, OnWorkerError, TimeOut
<1>4. ASSUME NEW l \in lookup, GiveUpLookup(l) PROVE Apart' /\ NoOrphanWorker'
  <2>1. l.call \in Proofs
    BY DEF WorkerInv, ProvingTypeOK, Lookup
  <2> QED BY <1>4, <2>1, EndsApart DEF GiveUpLookup
<1>5. ASSUME NEW c \in Proofs, PostResult(c) \/ Throw(c) PROVE Apart' /\ NoOrphanWorker'
  BY <1>5 DEF WorkerInv, ProvingTypeOK, Apart, NoOrphanWorker, Settled, PostResult, Throw
<1>6. ASSUME NEW c \in Proofs, PostRequest(c) PROVE Apart' /\ NoOrphanWorker'
  BY <1>6 DEF WorkerInv, ProvingTypeOK, Apart, NoOrphanWorker, Settled, PostRequest
<1>7. ASSUME NEW c \in Proofs, NEW r \in {"resolved", "rejected"}, Answer(c, r)
      PROVE Apart' /\ NoOrphanWorker'
  BY <1>7 DEF WorkerInv, ProvingTypeOK, Apart, NoOrphanWorker, Settled, Answer, Settle
<1>8. ASSUME NEW c \in Proofs, RepeatRequest(c) PROVE Apart' /\ NoOrphanWorker'
  BY <1>8 DEF WorkerInv, ProvingTypeOK, Apart, NoOrphanWorker, Settled, RepeatRequest
<1> QED
  BY <1>1, <1>2, <1>3, <1>4, <1>5, <1>6, <1>7, <1>8
  DEF ProvingNext, OnMessage, Download, Serve, OnLookup, FetchFile, RetryFetch, AskKey

\* Whichever of the result, an error of the worker, a failed lookup and the
\* timer settles a proof, its worker is terminated: callProverWorker and
\* GiveUpLookup never leave one running behind.
THEOREM WorkersEnd == ProvingSpec => []NoOrphanWorker
<1>1. ProvingInit => WorkerInv
  BY ProvingAssumption DEF ProvingInit, WorkerInv, ProvingTypeOK, Apart, NoOrphanWorker, Settled
<1>2. WorkerInv => NoOrphanWorker
  BY DEF WorkerInv
<1> QED BY <1>1, <1>2, WorkerStep, PTL DEF ProvingSpec
=============================================================================
