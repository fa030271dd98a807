------------------------------ MODULE Submission ------------------------------
(***************************************************************************)
(* The submission service over one node client: every call to              *)
(* submitTransaction awaits the shared client, connects its socket if need *)
(* be, sends the transaction, follows the node's reports until the stage it *)
(* waits for, and disconnects the socket, which is everybody's.  A call     *)
(* stands for the transaction it submits.                                  *)
(*                                                                         *)
(* The socket (WsProvider) and the node are external: after the first       *)
(* disconnect the provider no longer reconnects on its own, and a           *)
(* subscription to a submitted transaction does not outlive its connection. *)
(***************************************************************************)
EXTENDS Naturals, Sequences

CONSTANTS
  Calls,      \* transactions, each submitted once
  Waits,      \* the stages callers wait for
  MaxLosses,  \* bound: connections lost or refused by the network
  MaxReorgs   \* bound: blocks rolled back

Stages == {"Submitted", "InBlock", "Finalized"}

ASSUME SubmissionAssumption ==
  Waits \subseteq Stages /\ MaxLosses \in Nat /\ MaxReorgs \in Nat

VARIABLES
  client,   \* scopeAndClientDeferred: being made, ready, or its scope closed
  socket,   \* the WebSocket of the shared api
  callPhase, \* per call: where it is
  waitFor,  \* per call: the stage it waits for
  verdict,  \* per call: the event it settles with, or "failed"
  link,     \* calls whose request or subscription lives on the open socket
  transit,  \* requests on their way to the node
  reports,  \* per call: status reports the client has not handled
  chain,    \* per call: what the node makes of the transaction
  reached,  \* history, per call: stages the transaction has been through
  disturbed,\* history: calls that shared the client, lost the network, or saw close()
  unsure,   \* history: calls whose answer says nothing about the transaction
  losses, reorgs

callVars == <<callPhase, waitFor, verdict>>
wireVars == <<link, transit, reports>>
nodeVars == <<chain, reached, reorgs>>
submissionVars == <<client, socket, callVars, wireVars, nodeVars, disturbed, unsure, losses>>

Phases == {"idle", "awaiting", "connecting", "connected", "sending", "watching", "ending",
           "settled"}
Statuses == {"ready", "retracted", "inBlock", "finalized", "finalityTimeout", "usurped",
             "dropped", "invalid"}
ChainStates == {"unknown", "refused", "pool", "inBlock", "stalled", "final", "usurped",
                "dropped", "invalid"}

Active == {c \in Calls : callPhase[c] \notin {"idle", "settled"}}

-----------------------------------------------------------------------------
(* The socket                                                              *)

\* api.isConnected stays true until the close of the socket is complete.
IsConnected == socket \in {"open", "closing"}

Mute == link' = {} /\ reports' = [c \in Calls |-> <<>>]

\* api.disconnect() returns before the socket is closed; frames that arrive
\* from now on are ignored.
Disconnect ==
  /\ socket' = CASE socket = "open" -> "closing"
                 [] socket = "opening" -> "closed"
                 [] OTHER -> socket
  /\ Mute

SocketOpens ==
  /\ socket = "opening"
  /\ socket' = "open"
  /\ UNCHANGED <<client, callVars, wireVars, nodeVars, disturbed, unsure, losses>>

SocketClosed ==
  /\ socket = "closing"
  /\ socket' = "closed"
  /\ UNCHANGED <<client, callVars, wireVars, nodeVars, disturbed, unsure, losses>>

\* The network fails; requests under way may still reach the node.
LoseConnection ==
  /\ socket \in {"opening", "open"}
  /\ losses < MaxLosses
  /\ losses' = losses + 1
  /\ socket' = "closed"
  /\ Mute
  /\ disturbed' = IF socket = "open" THEN disturbed \cup Active ELSE disturbed
  /\ UNCHANGED <<client, callVars, transit, nodeVars, unsure>>

-----------------------------------------------------------------------------
(* The service                                                             *)

\* PolkadotNodeClient.make: load the metadata, then disconnect.
MakeClient ==
  /\ client = "making"
  /\ client' = "ready"
  /\ UNCHANGED <<socket, callVars, wireVars, nodeVars, disturbed, unsure, losses>>

\* Calls that overlap share the socket, and may disturb each other.
SubmitTransaction(c, stage) ==
  /\ callPhase[c] = "idle"
  /\ callPhase' = [callPhase EXCEPT ![c] = "awaiting"]
  /\ waitFor' = [waitFor EXCEPT ![c] = stage]
  /\ disturbed' = IF Active = {} THEN disturbed ELSE disturbed \cup Active \cup {c}
  /\ UNCHANGED <<client, socket, verdict, wireVars, nodeVars, unsure, losses>>

\* The deferred client, once made, is handed to every call, closed or not.
TakeClient(c) ==
  /\ callPhase[c] = "awaiting"
  /\ client # "making"
  /\ callPhase' = [callPhase EXCEPT ![c] = "connecting"]
  /\ UNCHANGED <<client, socket, waitFor, verdict, wireVars, nodeVars, disturbed, unsure, losses>>

\* close() ends the scope of the client, whose release disconnects the api.
CloseService ==
  /\ client = "ready"
  /\ client' = "closed"
  /\ Disconnect
  /\ disturbed' = disturbed \cup Active
  /\ UNCHANGED <<callVars, transit, nodeVars, unsure, losses>>

-----------------------------------------------------------------------------
(* One submission                                                          *)

\* ensureConnection: connect() while a socket exists is refused and ignored,
\* and the loop looks again.
Connect(c) ==
  /\ callPhase[c] = "connecting"
  /\ socket = "closed"
  /\ socket' = "opening"
  /\ UNCHANGED <<client, callVars, wireVars, nodeVars, disturbed, unsure, losses>>

EnsureConnection(c) ==
  /\ callPhase[c] = "connecting"
  /\ IsConnected
  /\ callPhase' = [callPhase EXCEPT ![c] = "connected"]
  /\ UNCHANGED <<client, socket, waitFor, verdict, wireVars, nodeVars, disturbed, unsure, losses>>

\* Mutant: the finality timeout is taken for finality.
EventOff(s) ==
  CASE s \in {"ready", "retracted"} -> "Submitted"
    [] s = "inBlock" -> "InBlock"
    [] s \in {"finalized", "finalityTimeout"} -> "Finalized"
    [] OTHER -> "error"

\* handleSubmissionResult: the event a status report is emitted as.
Event(s) ==
  CASE s \in {"ready", "retracted"} -> "Submitted"
    [] s = "inBlock" -> "InBlock"
    [] s = "finalized" -> "Finalized"
    [] OTHER -> "error"

\* The stream has its first match, its end or its error; what is left are the
\* finalizers.
Decide(c, v) ==
  /\ callPhase' = [callPhase EXCEPT ![c] = "ending"]
  /\ verdict' = [verdict EXCEPT ![c] = v]

\* A socket that closes takes the request and drops it; one that is closed
\* again by now refuses it.
Send(c) ==
  /\ callPhase[c] = "connected"
  /\ IF IsConnected
       THEN callPhase' = [callPhase EXCEPT ![c] = "sending"] /\ UNCHANGED verdict
       ELSE Decide(c, "failed")
  /\ link' = IF socket = "open" THEN link \cup {c} ELSE link
  /\ transit' = IF socket = "open" THEN transit \cup {c} ELSE transit
  /\ UNCHANGED <<client, socket, waitFor, reports, nodeVars, disturbed, unsure, losses>>

\* The promise of send() settles: with the subscription, with the node's
\* refusal, or, when the connection closed under it, with an error.
Reply(c) ==
  /\ callPhase[c] = "sending"
  /\ \/ /\ c \in link \ transit
        /\ IF chain[c] = "refused"
             THEN Decide(c, "failed")
             ELSE callPhase' = [callPhase EXCEPT ![c] = "watching"] /\ UNCHANGED verdict
     \/ /\ c \notin link
        /\ socket # "closing"
        /\ Decide(c, "failed")
  /\ UNCHANGED <<client, socket, waitFor, wireVars, nodeVars, disturbed, unsure, losses>>

\* sendMidnightTransactionAndWait: the first event of exactly the stage waited
\* for settles the call; an error, or the end of the stream, fails it.
HandleReport(c) ==
  /\ callPhase[c] = "watching"
  /\ reports[c] # <<>>
  /\ LET s == Head(reports[c]) IN
       IF Event(s) = waitFor[c] THEN Decide(c, waitFor[c])
       ELSE IF Event(s) \in {"error", "Finalized"} THEN Decide(c, "failed")
       ELSE UNCHANGED <<callPhase, verdict>>
  /\ reports' = [reports EXCEPT ![c] = Tail(@)]
  /\ UNCHANGED <<client, socket, waitFor, link, transit, nodeVars, disturbed, unsure, losses>>

\* A report without a block number cannot be decoded.
RejectReport(c) ==
  /\ callPhase[c] = "watching"
  /\ reports[c] # <<>>
  /\ Head(reports[c]) \in {"inBlock", "finalized"}
  /\ Decide(c, "failed")
  /\ unsure' = unsure \cup {c}
  /\ UNCHANGED <<client, socket, waitFor, wireVars, nodeVars, disturbed, losses>>

\* The finalizers of the stream: unsubscribe, then disconnect the shared api.
FinishCall(c) ==
  /\ callPhase[c] = "ending"
  /\ callPhase' = [callPhase EXCEPT ![c] = "settled"]
  /\ Disconnect
  /\ UNCHANGED <<client, waitFor, verdict, transit, nodeVars, disturbed, unsure, losses>>

-----------------------------------------------------------------------------
(* The node (external)                                                     *)

\* The node's state of the transaction changes, and a live subscription hears
\* of it.
Become(c, state, status) ==
  /\ chain' = [chain EXCEPT ![c] = state]
  /\ reports' = IF c \in link THEN [reports EXCEPT ![c] = Append(@, status)] ELSE reports

NodeReceives(c) ==
  /\ c \in transit
  /\ transit' = transit \ {c}
  /\ \/ /\ Become(c, "pool", "ready")
        /\ reached' = [reached EXCEPT ![c] = @ \cup {"Submitted"}]
     \/ /\ chain' = [chain EXCEPT ![c] = "refused"]
        /\ UNCHANGED <<reports, reached>>
  /\ UNCHANGED <<client, socket, callVars, link, reorgs, disturbed, unsure, losses>>

\* A request whose connection broke may never arrive.
LoseRequest(c) ==
  /\ c \in transit \ link
  /\ transit' = transit \ {c}
  /\ UNCHANGED <<client, socket, callVars, link, reports, nodeVars, disturbed, unsure, losses>>

Include(c) ==
  /\ chain[c] = "pool"
  /\ Become(c, "inBlock", "inBlock")
  /\ reached' = [reached EXCEPT ![c] = @ \cup {"InBlock"}]
  /\ UNCHANGED <<reorgs, unsure>>

Finalize(c) ==
  /\ chain[c] = "inBlock"
  /\ Become(c, "final", "finalized")
  /\ reached' = [reached EXCEPT ![c] = @ \cup {"Finalized"}]
  /\ UNCHANGED <<reorgs, unsure>>

Retract(c) ==
  /\ chain[c] = "inBlock"
  /\ reorgs < MaxReorgs
  /\ reorgs' = reorgs + 1
  /\ Become(c, "pool", "retracted")
  /\ UNCHANGED <<reached, unsure>>

\* The pool gives the transaction up for good.
Discard(c) ==
  /\ chain[c] = "pool"
  /\ \E s \in {"usurped", "invalid"} : Become(c, s, s)
  /\ UNCHANGED <<reached, reorgs, unsure>>

\* The watch ends although the transaction is still in a block, or, dropped by
\* this node, still in the pools of others: it may be finalized any time later.
GiveUp(c) ==
  /\ \/ chain[c] = "inBlock" /\ Become(c, "stalled", "finalityTimeout")
     \/ chain[c] = "pool" /\ Become(c, "dropped", "dropped")
  /\ unsure' = unsure \cup {c}
  /\ UNCHANGED <<reached, reorgs>>

NodeAdvances(c) ==
  /\ Include(c) \/ Finalize(c) \/ Retract(c) \/ Discard(c) \/ GiveUp(c)
  /\ UNCHANGED <<client, socket, callVars, link, transit, disturbed, losses>>

-----------------------------------------------------------------------------

SubmissionInit ==
  /\ client = "making"
  /\ socket = "closed"
  /\ callPhase = [c \in Calls |-> "idle"]
  /\ waitFor = [c \in Calls |-> "InBlock"]
  /\ verdict = [c \in Calls |-> "none"]
  /\ link = {} /\ transit = {}
  /\ reports = [c \in Calls |-> <<>>]
  /\ chain = [c \in Calls |-> "unknown"]
  /\ reached = [c \in Calls |-> {}]
  /\ disturbed = {} /\ unsure = {}
  /\ losses = 0 /\ reorgs = 0

Call(c) ==
  \/ TakeClient(c) \/ Connect(c) \/ EnsureConnection(c) \/ Send(c) \/ Reply(c)
  \/ HandleReport(c) \/ RejectReport(c) \/ FinishCall(c)

Node(c) == NodeReceives(c) \/ LoseRequest(c) \/ NodeAdvances(c)

SubmissionNext ==
  \/ \E c \in Calls, stage \in Waits : SubmitTransaction(c, stage)
  \/ \E c \in Calls : Call(c) \/ Node(c)
  \/ MakeClient \/ CloseService
  \/ SocketOpens \/ SocketClosed \/ LoseConnection

SubmissionSpec == SubmissionInit /\ [][SubmissionNext]_submissionVars

-----------------------------------------------------------------------------
(* Properties                                                              *)

SubmissionTypeOK ==
  /\ client \in {"making", "ready", "closed"}
  /\ socket \in {"closed", "opening", "open", "closing"}
  /\ callPhase \in [Calls -> Phases]
  /\ waitFor \in [Calls -> Stages]
  /\ verdict \in [Calls -> Stages \cup {"none", "failed"}]
  /\ link \in SUBSET Calls /\ transit \in SUBSET Calls
  /\ reports \in [Calls -> Seq(Statuses)]
  /\ chain \in [Calls -> ChainStates]
  /\ reached \in [Calls -> SUBSET Stages]
  /\ disturbed \in SUBSET Calls /\ unsure \in SUBSET Calls
  /\ losses \in 0..MaxLosses /\ reorgs \in 0..MaxReorgs

\* What a caller is told about a stage is true: the transaction has been
\* there, through retractions, lost connections and other submissions.
StageWasReached ==
  \A c \in Calls : verdict[c] \in Stages => verdict[c] \in reached[c]

\* A failure of a submission that had the client to itself means that the
\* transaction is not, and never gets, on chain: the facade may revert it.
\* The node's own doubts (finality timeout, dropped) are excepted.
FailedStaysOut ==
  \A c \in Calls \ (disturbed \cup unsure) :
    verdict[c] = "failed" => /\ chain[c] \in {"unknown", "refused", "usurped", "invalid"}
                             /\ c \notin transit

\* What callers hear of their transaction is true and final.
VerdictsAreTrue == StageWasReached /\ FailedStaysOut

\* A call whose subscription died with a connection hears nothing any more.
Deaf(c) == callPhase[c] = "watching" /\ c \notin link /\ reports[c] = <<>>

\* Every submission settles, unless its subscription was cut by a lost
\* connection, by close(), or by the end of another submission.
EventuallySettled ==
  \A c \in Calls :
    callPhase[c] # "idle" ~> callPhase[c] = "settled" \/ (Deaf(c) /\ c \in disturbed)
=============================================================================
