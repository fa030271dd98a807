------------------------------ MODULE MCClients ------------------------------
(***************************************************************************)
(* The clients of the node and of the provers.  They share no state, so a   *)
(* behaviour moves one of them and TLC explores each by itself.             *)
(***************************************************************************)
EXTENDS Submission, Proving

CONSTANTS c1, c2, k1, k2

VARIABLE part  \* the client that moves

clientVars == <<submissionVars, provingVars, part>>

OnNode(A) == part = "node" /\ A /\ UNCHANGED <<provingVars, part>>
OnProver(A) == part = "prover" /\ A /\ UNCHANGED <<submissionVars, part>>

ClientsInit ==
  /\ SubmissionInit /\ ProvingInit
  /\ part \in {"node", "prover"}

ClientsNext ==
  \/ \E c \in Calls, stage \in Waits : OnNode(SubmitTransaction(c, stage))
  \/ \E c \in Calls : OnNode(TakeClient(c))
  \/ \E c \in Calls : OnNode(Connect(c))
  \/ \E c \in Calls : OnNode(EnsureConnection(c))
  \/ \E c \in Calls : OnNode(Send(c))
  \/ \E c \in Calls : OnNode(Reply(c))
  \/ \E c \in Calls : OnNode(HandleReport(c))
  \/ \E c \in Calls : OnNode(RejectReport(c))
  \/ \E c \in Calls : OnNode(FinishCall(c))
  \/ \E c \in Calls : OnNode(NodeReceives(c))
  \/ \E c \in Calls : OnNode(LoseRequest(c))
  \/ \E c \in Calls : OnNode(NodeAdvances(c))
  \/ OnNode(MakeClient)
  \/ OnNode(CloseService)
  \/ OnNode(SocketOpens)
  \/ OnNode(SocketClosed)
  \/ OnNode(LoseConnection)
  \/ \E c \in Proofs : OnProver(CallProverWorker(c))
  \/ \E c \in Proofs : OnProver(OnLookup(c))
  \/ \E c \in Proofs : OnProver(OnResult(c))
  \/ \E c \in Proofs : OnProver(OnWorkerError(c))
  \/ \E c \in Proofs : OnProver(TimeOut(c))
  \/ \E l \in Lookup : OnProver(FetchFile(l))
  \/ \E l \in Lookup : OnProver(RetryFetch(l))
  \/ \E l \in Lookup : OnProver(GiveUpLookup(l))
  \/ \E c \in Proofs, k \in KeyFiles : OnProver(AskKey(c, k))
  \/ \E c \in Proofs : OnProver(PostResult(c))
  \/ \E c \in Proofs : OnProver(Throw(c))
  \/ \E c \in Proofs : OnProver(PostRequest(c))
  \/ \E c \in Proofs : OnProver(Serve(c))

ClientsSpec == ClientsInit /\ [][ClientsNext]_clientVars

\* The fibers of the clients run on, the network delivers while it is up, the
\* node decides on what it has accepted, timers fire, and the proof server
\* answers or its connection breaks.  Nothing is asked of the prover.
ClientsFairSpec ==
  /\ ClientsSpec
  /\ WF_clientVars(OnNode(MakeClient))
  /\ WF_clientVars(OnNode(SocketOpens)) /\ WF_clientVars(OnNode(SocketClosed))
  /\ \A c \in Calls : /\ WF_clientVars(OnNode(Call(c)))
                      /\ WF_clientVars(OnNode(NodeReceives(c)))
                      /\ WF_clientVars(OnNode(NodeAdvances(c)))
  /\ \A c \in Proofs : WF_clientVars(OnProver(TimeOut(c))) /\ WF_clientVars(OnProver(Serve(c)))

\* Every call settles: a submission unless its subscription was cut, a proof
\* even if its worker dies without a word.
EveryCallSettles == EventuallySettled /\ EveryProofSettles
=============================================================================
