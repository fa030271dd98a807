-------------------------------- MODULE Proving --------------------------------
(***************************************************************************)
(* Proving a transaction: with a proof server over HTTP, or with a Web     *)
(* Worker that runs the prover and asks the main thread for proving keys,  *)
(* which the default key material provider downloads and caches.           *)
(*                                                                         *)
(* The worker of a call is a process of its own: its messages, the replies  *)
(* of the key provider, its errors and the timer of the main thread        *)
(* interleave.  The prover (zkir) and the network are external.            *)
(***************************************************************************)
EXTENDS Naturals, Sequences

CONSTANTS
  Proofs,    \* calls, one proof each
  KeyFiles,  \* key locations and parameter sizes the prover asks for
  Files,     \* files to download per key (3: prover, verifier, bzkir)
  Attempts,  \* downloads of a file before giving up (5)
  Retries    \* repeated requests to the proof server (3)

ASSUME ProvingAssumption ==
  /\ Files \in Nat \ {0} /\ Attempts \in Nat \ {0} /\ Retries \in Nat
  /\ KeyFiles \cap {"result", "error"} = {}

VARIABLES
  promise,  \* per call: the promise of the proof
  worker,   \* per call: its Web Worker
  outbox,   \* per call: messages of the worker not yet handled
  asked,    \* per call: keys the worker is waiting for
  held,     \* per call: keys the worker got
  lookup,   \* downloads in progress
  cache,    \* keys the key material provider has downloaded
  request   \* per call: requests to the proof server

workerVars == <<worker, outbox, asked, held>>
keyVars == <<lookup, cache>>
provingVars == <<promise, workerVars, keyVars, request>>

Lookup == [call: Proofs, key: KeyFiles, file: 1..Files, attempt: 1..Attempts]

Settled(c) == promise[c] \in {"resolved", "rejected"}

\* Settling a settled promise has no effect.
Settle(c, result) ==
  promise' = IF Settled(c) THEN promise ELSE [promise EXCEPT ![c] = result]

\* What the worker has posted is not delivered any more, and what it knew is
\* gone.
Terminate(c) ==
  /\ worker' = [worker EXCEPT ![c] = "gone"]
  /\ outbox' = [outbox EXCEPT ![c] = <<>>]
  /\ asked' = [asked EXCEPT ![c] = {}]
  /\ held' = [held EXCEPT ![c] = {}]

-----------------------------------------------------------------------------
(* The main thread                                                         *)

\* callProverWorker: start the worker, post the operation, set the timer.
CallProverWorker(c) ==
  /\ promise[c] = "none"
  /\ promise' = [promise EXCEPT ![c] = "pending"]
  /\ worker' = [worker EXCEPT ![c] = "running"]
  /\ UNCHANGED <<outbox, asked, held, keyVars, request>>

\* A reply to the worker; a terminated worker hears nothing.
Give(c, k) ==
  IF worker[c] = "running"
    THEN /\ held' = [held EXCEPT ![c] = @ \cup {k}]
         /\ asked' = [asked EXCEPT ![c] = @ \ {k}]
    ELSE UNCHANGED <<held, asked>>

\* A 'lookupKey' or 'getParams' message: from the cache, or start a download.
OnLookup(c) ==
  /\ outbox[c] # <<>>
  /\ Head(outbox[c]) \in KeyFiles
  /\ LET k == Head(outbox[c]) IN
       IF k \in cache
         THEN Give(c, k) /\ UNCHANGED lookup
         ELSE /\ lookup' = lookup \cup {[call |-> c, key |-> k, file |-> 1, attempt |-> 1]}
              /\ UNCHANGED <<held, asked>>
  /\ outbox' = [outbox EXCEPT ![c] = Tail(@)]
  /\ UNCHANGED <<promise, worker, cache, request>>

OnResult(c) ==
  /\ outbox[c] # <<>>
  /\ Head(outbox[c]) = "result"
  /\ Settle(c, "resolved")
  /\ Terminate(c)
  /\ UNCHANGED <<keyVars, request>>

OnWorkerError(c) ==
  /\ outbox[c] # <<>>
  /\ Head(outbox[c]) = "error"
  /\ Settle(c, "rejected")
  /\ Terminate(c)
  /\ UNCHANGED <<keyVars, request>>

\* Mutant: the timer is only kept while the worker has not answered.
TimeOutOff(c) ==
  /\ worker[c] = "running"
  /\ Settle(c, "rejected")
  /\ Terminate(c)
  /\ UNCHANGED <<keyVars, request>>

\* Ten minutes after the start of the worker.  The timer is never cleared; on
\* a settled call it changes nothing.
TimeOut(c) ==
  /\ worker[c] \in {"running", "done", "failed"}
  /\ Settle(c, "rejected")
  /\ Terminate(c)
  /\ UNCHANGED <<keyVars, request>>

-----------------------------------------------------------------------------
(* The default key material provider                                       *)

\* A file arrives; with the last one the key is cached and handed out.
\* fetch() does not fail on an HTTP error: its page passes for a key, with
\* which the prover fails.
FetchFile(l) ==
  /\ l \in lookup
  /\ IF l.file < Files
       THEN /\ lookup' = (lookup \ {l}) \cup {[l EXCEPT !.file = @ + 1, !.attempt = 1]}
            /\ UNCHANGED <<cache, held, asked>>
       ELSE /\ lookup' = lookup \ {l}
            /\ cache' = cache \cup {l.key}
            /\ Give(l.call, l.key)
  /\ UNCHANGED <<promise, worker, outbox, request>>

\* The network fails: wait and try again.
RetryFetch(l) ==
  /\ l \in lookup
  /\ l.attempt < Attempts
  /\ lookup' = (lookup \ {l}) \cup {[l EXCEPT !.attempt = @ + 1]}
  /\ UNCHANGED <<promise, workerVars, cache, request>>

\* Mutant: only the promise is rejected.
GiveUpLookupOff(l) ==
  /\ l \in lookup
  /\ l.attempt = Attempts \/ l.file = Files
  /\ lookup' = lookup \ {l}
  /\ Settle(l.call, "rejected")
  /\ UNCHANGED <<workerVars, cache, request>>

\* The last attempt fails, or a body cannot be read, which happens once all
\* files have answered; with it the lookup fails, and the proof.
GiveUpLookup(l) ==
  /\ l \in lookup
  /\ l.attempt = Attempts \/ l.file = Files
  /\ lookup' = lookup \ {l}
  /\ Settle(l.call, "rejected")
  /\ Terminate(l.call)
  /\ UNCHANGED <<cache, request>>

-----------------------------------------------------------------------------
(* The worker                                                              *)

\* The prover wants a key it does not have yet.
AskKey(c, k) ==
  /\ worker[c] = "running"
  /\ k \notin held[c] \cup asked[c]
  /\ asked' = [asked EXCEPT ![c] = @ \cup {k}]
  /\ outbox' = [outbox EXCEPT ![c] = Append(@, k)]
  /\ UNCHANGED <<promise, worker, held, keyVars, request>>

\* The proof is done; its result is posted.
PostResult(c) ==
  /\ worker[c] = "running"
  /\ held[c] = KeyFiles
  /\ worker' = [worker EXCEPT ![c] = "done"]
  /\ outbox' = [outbox EXCEPT ![c] = Append(@, "result")]
  /\ UNCHANGED <<promise, asked, held, keyVars, request>>

\* The prover fails.  `catch((e) => { throw e })` makes it an unhandled
\* rejection, which raises an error event in the main thread or, in a browser,
\* does not.
Throw(c) ==
  /\ worker[c] = "running"
  /\ worker' = [worker EXCEPT ![c] = "failed"]
  /\ outbox' \in {outbox, [outbox EXCEPT ![c] = Append(@, "error")]}
  /\ UNCHANGED <<promise, asked, held, keyVars, request>>

-----------------------------------------------------------------------------
(* The proof server                                                        *)

PostRequest(c) ==
  /\ promise[c] = "none"
  /\ promise' = [promise EXCEPT ![c] = "pending"]
  /\ request' = [request EXCEPT ![c] = 1]
  /\ UNCHANGED <<workerVars, keyVars>>

\* 200 with a proof; or the connection failed, or any other status, whose text
\* becomes the error.
Answer(c, result) ==
  /\ request[c] > 0
  /\ Settle(c, result)
  /\ request' = [request EXCEPT ![c] = 0]
  /\ UNCHANGED <<workerVars, keyVars>>

\* Only a gateway error (502-504) whose text cannot be read is repeated: a
\* status other than 200 is no ResponseError of its own.
RepeatRequest(c) ==
  /\ request[c] \in 1..Retries
  /\ request' = [request EXCEPT ![c] = @ + 1]
  /\ UNCHANGED <<promise, workerVars, keyVars>>

-----------------------------------------------------------------------------

ProvingInit ==
  /\ promise = [c \in Proofs |-> "none"]
  /\ worker = [c \in Proofs |-> "none"]
  /\ outbox = [c \in Proofs |-> <<>>]
  /\ asked = [c \in Proofs |-> {}]
  /\ held = [c \in Proofs |-> {}]
  /\ lookup = {}
  /\ cache = {}
  /\ request = [c \in Proofs |-> 0]

OnMessage(c) == OnLookup(c) \/ OnResult(c) \/ OnWorkerError(c)

Download(c) ==
  \E l \in lookup :
    /\ l.call = c
    /\ FetchFile(l) \/ RetryFetch(l) \/ GiveUpLookup(l)

Serve(c) == (\E r \in {"resolved", "rejected"} : Answer(c, r)) \/ RepeatRequest(c)

ProvingNext ==
  \E c \in Proofs :
    \/ CallProverWorker(c) \/ OnMessage(c) \/ TimeOut(c)
    \/ Download(c)
    \/ (\E k \in KeyFiles : AskKey(c, k)) \/ PostResult(c) \/ Throw(c)
    \/ PostRequest(c) \/ Serve(c)

ProvingSpec == ProvingInit /\ [][ProvingNext]_provingVars

-----------------------------------------------------------------------------
(* Properties                                                              *)

ProvingTypeOK ==
  /\ promise \in [Proofs -> {"none", "pending", "resolved", "rejected"}]
  /\ worker \in [Proofs -> {"none", "running", "done", "failed", "gone"}]
  /\ outbox \in [Proofs -> Seq(KeyFiles \cup {"result", "error"})]
  /\ asked \in [Proofs -> SUBSET KeyFiles]
  /\ held \in [Proofs -> SUBSET KeyFiles]
  /\ lookup \in SUBSET Lookup
  /\ cache \in SUBSET KeyFiles
  /\ request \in [Proofs -> 0..(Retries + 1)]

\* A settled proof leaves no worker behind, whichever of the result, an error,
\* a failed lookup and the timer came first.
NoOrphanWorker == \A c \in Proofs : Settled(c) => worker[c] \in {"none", "gone"}

\* Every proof settles, even if its worker dies without a word.
EveryProofSettles == \A c \in Proofs : promise[c] = "pending" ~> Settled(c)
=============================================================================
