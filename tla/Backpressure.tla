---------------------------- MODULE Backpressure ----------------------------
(***************************************************************************)
(* Bounded backpressure over a push-only source (Backpressure.ts).  When   *)
(* BufferSize emitted items wait for the consumer, the subscription is     *)
(* disposed; when the consumer has drained the queue to ResumeThreshold a  *)
(* new one is opened from the last emitted key.                            *)
(*                                                                         *)
(* Two parties interleave: the callbacks of the sessions (the current one  *)
(* and disposed ones) and the fiber that consumes the stream.  A callback  *)
(* is synchronous JavaScript, so it is one action; the consumer yields     *)
(* between its effects.  Event keys are 1, 2, ...; From = -1 ("from the    *)
(* start") behaves as 0 because no event has key 0.                        *)
(***************************************************************************)
EXTENDS Naturals, Sequences, FiniteSets

CONSTANTS
  BufferSize, ResumeThreshold, From,
  MaxPublished,  \* bound: keys the indexer publishes
  FeedFaults      \* which of AllFeedFaults this instance admits

(***************************************************************************)
(* late_callbacks  a disposed session still delivers items and errors      *)
(*                 (its completion may always arrive late)                 *)
(* open_window     callbacks, or an interruption, arrive after source()    *)
(*                 started a session and before its handle is stored:      *)
(*                 a source that calls back synchronously, or a fiber that *)
(*                 yields there                                            *)
(***************************************************************************)
AllFeedFaults == {"late_callbacks", "open_window"}

ASSUME OptionsAssumption ==
  /\ From \in Nat /\ MaxPublished \in Nat /\ From <= MaxPublished
  /\ BufferSize \in Nat \ {0}
  /\ ResumeThreshold \in Nat /\ ResumeThreshold < BufferSize
  /\ FeedFaults \subseteq AllFeedFaults

VARIABLES
  published, closed,  \* the indexer's feed
  sessions,           \* every session source() opened, in order
  bp,                 \* stateRef
  disposer,           \* disposerRef: index of a session, 0 for null
  phase,              \* where the fiber that opens and consumes stands
  queue, exit,        \* the asyncPush queue: items, then at most one exit
  consumed,           \* history: the keys that went through the tap
  outcome,            \* "open", or how the stream ended
  strained            \* history: one of the faults has happened

source == <<published, closed>>
boundedVars == <<published, closed, sessions, bp, disposer, phase, queue, exit, consumed, outcome, strained>>

Keys == 0..MaxPublished

BPState == [paused: BOOLEAN, inFlight: Nat, lastKey: Keys, generation: Nat, terminal: BOOLEAN]

\* `next` is the key the indexer sends next on the session.
Session == [generation: Nat, next: 0..MaxPublished + 1, state: {"open", "disposed", "ended"}]

InitialBPState ==
  [paused |-> FALSE, inFlight |-> 0, lastKey |-> From, generation |-> 0, terminal |-> FALSE]

-----------------------------------------------------------------------------
(* The pure state machine                                                  *)

\* Mutant: no watermark, every item of the current session is emitted.
DecideItemOff(s, k, g) ==
  IF s.terminal \/ s.generation # g
  THEN [emit |-> FALSE, pause |-> FALSE, state |-> s]
  ELSE LET pause == s.inFlight + 1 >= BufferSize /\ ~s.paused
       IN [emit |-> TRUE, pause |-> pause,
           state |-> [s EXCEPT !.inFlight = @ + 1, !.lastKey = k, !.paused = @ \/ pause]]

\* Mutant: the pause comes one item late.
DecideItemLate(s, k, g) ==
  IF s.terminal \/ s.generation # g \/ k <= s.lastKey
  THEN [emit |-> FALSE, pause |-> FALSE, state |-> s]
  ELSE LET pause == s.inFlight >= BufferSize /\ ~s.paused
       IN [emit |-> TRUE, pause |-> pause,
           state |-> [s EXCEPT !.inFlight = @ + 1, !.lastKey = k, !.paused = @ \/ pause]]

DecideItem(s, k, g) ==
  IF s.terminal \/ s.generation # g \/ k <= s.lastKey
  THEN [emit |-> FALSE, pause |-> FALSE, state |-> s]
  ELSE LET pause == s.inFlight + 1 >= BufferSize /\ ~s.paused
       IN [emit |-> TRUE, pause |-> pause,
           state |-> [s EXCEPT !.inFlight = @ + 1, !.lastKey = k, !.paused = @ \/ pause]]

\* Whether an error, or a completion, of generation g ends the stream.
DecideTerminate(s, g) == ~s.terminal /\ s.generation = g

DecideComplete(s, g) == ~s.paused /\ ~s.terminal /\ s.generation = g

\* Mutant: resuming does not clear the pause.
DecideResumeOff(s) ==
  IF s.terminal THEN [resume |-> FALSE, state |-> s]
  ELSE LET inFlight == IF s.inFlight = 0 THEN 0 ELSE s.inFlight - 1
           resume == s.paused /\ inFlight <= ResumeThreshold
       IN [resume |-> resume,
           state |-> [s EXCEPT !.inFlight = inFlight,
                               !.generation = IF resume THEN @ + 1 ELSE @]]

DecideResume(s) ==
  IF s.terminal THEN [resume |-> FALSE, state |-> s]
  ELSE LET inFlight == IF s.inFlight = 0 THEN 0 ELSE s.inFlight - 1
           resume == s.paused /\ inFlight <= ResumeThreshold
       IN [resume |-> resume,
           state |-> [s EXCEPT !.inFlight = inFlight, !.paused = @ /\ ~resume,
                               !.generation = IF resume THEN @ + 1 ELSE @]]

-----------------------------------------------------------------------------
(* The indexer                                                             *)

Publish ==
  /\ ~closed
  /\ published < MaxPublished
  /\ published' = published + 1
  /\ UNCHANGED <<closed, sessions, bp, disposer, phase, queue, exit, consumed, outcome, strained>>

Close ==
  /\ ~closed
  /\ closed' = TRUE
  /\ UNCHANGED <<published, sessions, bp, disposer, phase, queue, exit, consumed, outcome, strained>>

-----------------------------------------------------------------------------
(* Callbacks                                                               *)

\* sessions after calling the dispose handle of session d, if there is one.
Dispose(ss, d) ==
  [i \in DOMAIN ss |->
     IF i = d /\ ss[i].state = "open" THEN [ss[i] EXCEPT !.state = "disposed"] ELSE ss[i]]

Delivers(s) == s.state = "open" \/ (s.state = "disposed" /\ "late_callbacks" \in FeedFaults)

OnItem(i) ==
  LET s == sessions[i]
      decision == DecideItem(bp, s.next, s.generation)
      advanced == [sessions EXCEPT ![i].next = @ + 1]
  IN /\ Delivers(s)
     /\ s.next <= published
     /\ bp' = decision.state
     /\ queue' = IF decision.emit THEN Append(queue, s.next) ELSE queue
     /\ sessions' = IF decision.pause THEN Dispose(advanced, disposer) ELSE advanced
     /\ disposer' = IF decision.pause THEN 0 ELSE disposer
     /\ strained' = (strained \/ s.state = "disposed")
     /\ UNCHANGED <<source, phase, exit, consumed, outcome>>

\* A failed transport ends the session; a GraphQL error does not.
OnError(i) ==
  LET s == sessions[i]
      surface == DecideTerminate(bp, s.generation)
  IN /\ Delivers(s)
     /\ \E state \in {s.state, "ended"} : sessions' = [sessions EXCEPT ![i].state = state]
     /\ bp' = [bp EXCEPT !.terminal = @ \/ surface]
     /\ exit' = IF surface THEN "failed" ELSE exit
     /\ strained' = (strained \/ s.state = "disposed")
     /\ UNCHANGED <<source, disposer, phase, queue, consumed, outcome>>

\* The indexer completes a session when it has sent all of a feed it ended;
\* disposing a session makes its client complete it, some time later.
OnComplete(i) ==
  LET s == sessions[i]
      surface == DecideComplete(bp, s.generation)
  IN /\ \/ s.state = "open" /\ closed /\ s.next > published
        \/ s.state = "disposed"
     /\ sessions' = [sessions EXCEPT ![i].state = "ended"]
     /\ bp' = [bp EXCEPT !.terminal = @ \/ surface]
     /\ exit' = IF surface THEN "completed" ELSE exit
     /\ UNCHANGED <<source, disposer, phase, queue, consumed, outcome, strained>>

-----------------------------------------------------------------------------
(* The fiber that opens sessions and consumes the stream                   *)

\* openSession: the indexer serves from the cursor, which is inclusive.
OpenSession ==
  /\ phase = "opening"
  /\ IF bp.terminal
     THEN phase' = "running" /\ UNCHANGED <<sessions, disposer, strained>>
     ELSE /\ sessions' = Append(sessions, [generation |-> bp.generation,
                                           next |-> bp.lastKey, state |-> "open"])
          /\ \/ phase' = "running" /\ disposer' = Len(sessions') /\ UNCHANGED strained
             \/ /\ "open_window" \in FeedFaults
                /\ phase' = "storing" /\ strained' = TRUE /\ UNCHANGED disposer
  /\ UNCHANGED <<source, bp, queue, exit, consumed, outcome>>

StoreDisposer ==
  /\ phase = "storing"
  /\ disposer' = Len(sessions)
  /\ phase' = "running"
  /\ UNCHANGED <<source, sessions, bp, queue, exit, consumed, outcome, strained>>

\* One item goes through the tap.
Consume ==
  /\ phase = "running"
  /\ queue # <<>>
  /\ LET decision == DecideResume(bp) IN
       /\ bp' = decision.state
       /\ phase' = IF decision.resume THEN "opening" ELSE phase
  /\ consumed' = Append(consumed, Head(queue))
  /\ queue' = Tail(queue)
  /\ UNCHANGED <<source, sessions, disposer, exit, outcome, strained>>

\* Mutant: the finalizer forgets the handle without calling it.
ReleaseOff(result) ==
  /\ outcome' = result
  /\ phase' = "closed"
  /\ bp' = [bp EXCEPT !.terminal = TRUE]
  /\ disposer' = 0
  /\ UNCHANGED <<source, sessions, queue, exit, consumed, strained>>

\* The scope of the stream closes and its finalizer runs.
Release(result) ==
  /\ outcome' = result
  /\ phase' = "closed"
  /\ bp' = [bp EXCEPT !.terminal = TRUE]
  /\ sessions' = Dispose(sessions, disposer)
  /\ disposer' = 0
  /\ UNCHANGED <<source, queue, exit, consumed, strained>>

ConsumeExit ==
  /\ phase = "running"
  /\ queue = <<>>
  /\ exit # "none"
  /\ Release(exit)

\* The consumer is interrupted.  The first open is part of the acquire, which
\* cannot be.
Interrupt ==
  /\ \/ phase = "running"
     \/ phase \in {"opening", "storing"} /\ bp.generation > 0
  /\ Release("cancelled")

-----------------------------------------------------------------------------

BoundedInit ==
  /\ published \in From..MaxPublished
  /\ closed = FALSE
  /\ sessions = <<>>
  /\ bp = InitialBPState
  /\ disposer = 0
  /\ phase = "opening"
  /\ queue = <<>>
  /\ exit = "none"
  /\ consumed = <<>>
  /\ outcome = "open"
  /\ strained = FALSE

Callback(i) == OnItem(i) \/ OnError(i) \/ OnComplete(i)

BoundedNext ==
  \/ Publish \/ Close
  \/ \E i \in DOMAIN sessions : Callback(i)
  \/ OpenSession \/ StoreDisposer \/ Consume \/ ConsumeExit \/ Interrupt

BoundedSpec == BoundedInit /\ [][BoundedNext]_boundedVars

\* The current session, the one a consumer depends on.
Current(i) == sessions[i].generation = bp.generation

\* The consumer keeps pulling, and the indexer serves what it has published
\* (or says that the feed is over) to the current session while it is open.
FairBoundedSpec ==
  /\ BoundedSpec
  /\ WF_boundedVars(OpenSession) /\ WF_boundedVars(StoreDisposer)
  /\ WF_boundedVars(Consume) /\ WF_boundedVars(ConsumeExit)
  /\ WF_boundedVars(\E i \in DOMAIN sessions : Current(i) /\ OnItem(i))
  /\ WF_boundedVars(\E i \in DOMAIN sessions :
               Current(i) /\ sessions[i].state = "open" /\ OnComplete(i))

-----------------------------------------------------------------------------
(* Properties                                                              *)

BoundedTypeOK ==
  /\ published \in Keys
  /\ closed \in BOOLEAN
  /\ sessions \in Seq(Session)
  /\ bp \in BPState
  /\ disposer \in 0..Len(sessions)
  /\ phase \in {"opening", "storing", "running", "closed"}
  /\ queue \in Seq(Keys)
  /\ exit \in {"none", "completed", "failed"}
  /\ consumed \in Seq(Keys)
  /\ outcome \in {"open", "completed", "failed", "cancelled"}
  /\ strained \in BOOLEAN

\* The stream the consumer sees is the ordered feed: pausing, re-opening and
\* late callbacks lose no item, repeat none and reorder none, and a session
\* that was paused out never ends the stream.
Feed == INSTANCE OrderedFeed WITH delivered <- consumed
ImplementsOrderedFeed == Feed!Spec

\* The inductive invariant behind it.  The queue holds the keys between the
\* consumer and the watermark, the session of the current generation is never
\* ahead of the watermark, and a disposed one belongs to a paused stream.
Contiguous ==
  /\ bp.lastKey = From + Len(consumed) + Len(queue)
  /\ bp.lastKey <= published
  /\ \A n \in DOMAIN queue : queue[n] = From + Len(consumed) + n

SessionInv ==
  \A i \in DOMAIN sessions :
    /\ sessions[i].generation <= bp.generation
    /\ Current(i) /\ ~bp.terminal =>
         /\ sessions[i].next <= bp.lastKey + 1
         /\ sessions[i].state = "disposed" => bp.paused

ExitInv ==
  /\ exit # "none" => bp.terminal
  /\ exit = "completed" => closed /\ bp.lastKey = published
  /\ outcome # "open" <=> phase = "closed"
  /\ outcome # "open" => bp.terminal

\* Unless a fault has happened, the queue never holds more than BufferSize
\* items, however the drain and the callbacks interleave.
InFlightCapped == ~strained => Len(queue) <= BufferSize

\* Unless a fault has happened, no subscription is left running while the
\* stream is paused or once it is over; otherwise there is at most one.
NoLeakedSubscription ==
  LET running == {i \in DOMAIN sessions : sessions[i].state = "open"} IN
    ~strained => /\ Cardinality(running) <= 1
                 /\ bp.paused \/ phase = "closed" => running = {}

\* The inductive strengthening of InFlightCapped: outside a pause there is
\* room for one more item, and the handle of the session that could deliver
\* it is the one the pause will call.
Tight ==
  /\ Len(queue) <= BufferSize
  /\ phase # "storing"
  /\ phase = "opening" => ~bp.paused /\ \A i \in DOMAIN sessions : ~Current(i)
  /\ ~bp.terminal =>
       /\ bp.inFlight = Len(queue)
       /\ ~bp.paused => Len(queue) < BufferSize
       /\ \A i \in DOMAIN sessions :
            Current(i) /\ sessions[i].state = "open" => disposer = i /\ ~bp.paused

CapInv == ~strained => Tight

\* Progress: no pause is forever.  The consumer ends up with every published
\* event, or the stream has failed or was cancelled, and a feed that was ended
\* ends the stream.
EventuallyDelivered ==
  <>[](/\ outcome = "open" => From + Len(consumed) = published
       /\ closed => outcome # "open")

=============================================================================
