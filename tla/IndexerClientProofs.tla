------------------------ MODULE IndexerClientProofs ------------------------
(***************************************************************************)
(* What Backpressure guarantees for every buffer size, threshold, start    *)
(* and feed, and SchemaSync for all releases and command lines.            *)
(***************************************************************************)
EXTENDS Backpressure, SchemaSync, FiniteSetTheorems, SequenceTheorems, TLAPS

(* Disposing marks at most the disposed session and keeps all the rest.    *)
LEMMA DisposeFacts ==
  ASSUME NEW ss \in Seq(Session), NEW d
  PROVE  /\ Dispose(ss, d) \in Seq(Session)
         /\ Len(Dispose(ss, d)) = Len(ss)
         /\ DOMAIN Dispose(ss, d) = DOMAIN ss
         /\ \A i \in DOMAIN ss :
              /\ Dispose(ss, d)[i].generation = ss[i].generation
              /\ Dispose(ss, d)[i].next = ss[i].next
              /\ Dispose(ss, d)[i].state = IF i = d /\ ss[i].state = "open"
                                           THEN "disposed" ELSE ss[i].state
<1>1. \A i \in DOMAIN ss : ss[i] \in Session
  OBVIOUS
<1>2. \A s \in Session : /\ [s EXCEPT !.state = "disposed"] \in Session
                         /\ [s EXCEPT !.state = "disposed"].state = "disposed"
                         /\ [s EXCEPT !.state = "disposed"].generation = s.generation
                         /\ [s EXCEPT !.state = "disposed"].next = s.next
  BY DEF Session
<1>3. Dispose(ss, d) \in [1..Len(ss) -> Session]
  BY <1>1, <1>2 DEF Dispose
<1>4. \A i \in DOMAIN ss : Dispose(ss, d)[i] =
        IF i = d /\ ss[i].state = "open" THEN [ss[i] EXCEPT !.state = "disposed"] ELSE ss[i]
  BY DEF Dispose
<1>5. Dispose(ss, d) \in Seq(Session) /\ Len(Dispose(ss, d)) = Len(ss)
      /\ DOMAIN Dispose(ss, d) = DOMAIN ss
  BY <1>3
<1>6. \A i \in DOMAIN ss : ss[i] \in Session => 
              /\ Dispose(ss, d)[i].generation = ss[i].generation
              /\ Dispose(ss, d)[i].next = ss[i].next
              /\ Dispose(ss, d)[i].state = IF i = d /\ ss[i].state = "open"
                                           THEN "disposed" ELSE ss[i].state
  BY <1>2, <1>4
<1> QED  BY <1>1, <1>5, <1>6

(* An item is emitted exactly when it is above the watermark of a running  *)
(* stream and of its current generation, and it becomes the watermark.     *)
LEMMA DecideItemFacts ==
  ASSUME NEW s \in BPState, NEW k \in Keys, NEW g \in Nat
  PROVE  LET d == DecideItem(s, k, g) IN
           /\ d.state \in BPState
           /\ d.emit <=> ~s.terminal /\ s.generation = g /\ k > s.lastKey
           /\ ~d.emit => d.state = s /\ ~d.pause
           /\ d.state.terminal = s.terminal /\ d.state.generation = s.generation
           /\ d.emit => /\ d.state.lastKey = k
                        /\ d.state.inFlight = s.inFlight + 1
                        /\ d.pause <=> s.inFlight + 1 >= BufferSize /\ ~s.paused
                        /\ d.state.paused <=> s.paused \/ d.pause
<1>1. CASE s.terminal \/ s.generation # g \/ k <= s.lastKey
  BY <1>1 DEF DecideItem, BPState, Keys
<1>2. CASE ~(s.terminal \/ s.generation # g \/ k <= s.lastKey)
  <2> DEFINE p == s.inFlight + 1 >= BufferSize /\ ~s.paused
             t == [s EXCEPT !.inFlight = @ + 1, !.lastKey = k, !.paused = @ \/ p]
  <2>1. p \in BOOLEAN /\ s.paused \in BOOLEAN /\ s.inFlight + 1 \in Nat /\ (s.paused \/ p) \in BOOLEAN
    BY DEF BPState
  <2>2. DecideItem(s, k, g) = [emit |-> TRUE, pause |-> p, state |-> t]
    BY <1>2 DEF DecideItem
  <2>3. DecideItem(s, k, g).emit = TRUE /\ DecideItem(s, k, g).pause = p
        /\ DecideItem(s, k, g).state = t
    BY <2>2
  <2>4. t \in BPState /\ t.terminal = s.terminal /\ t.generation = s.generation
        /\ t.lastKey = k /\ t.inFlight = s.inFlight + 1 /\ t.paused = (s.paused \/ p)
    BY <2>1 DEF BPState
  <2>5. ~s.terminal /\ s.generation = g /\ k > s.lastKey
    BY <1>2, OptionsAssumption DEF BPState, Keys
  <2> HIDE DEF p, t
  <2>6. DecideItem(s, k, g).pause <=> s.inFlight + 1 >= BufferSize /\ ~s.paused
    BY <2>3 DEF p
  <2> QED  BY <2>3, <2>4, <2>5, <2>6
<1> QED  BY <1>1, <1>2

(* The drain never touches the watermark; a resume starts a generation.    *)
LEMMA DecideResumeFacts ==
  ASSUME NEW s \in BPState
  PROVE  LET d == DecideResume(s) IN
           /\ d.state \in BPState
           /\ d.resume \in BOOLEAN
           /\ s.terminal => d.state = s /\ ~d.resume
           /\ d.state.lastKey = s.lastKey /\ d.state.terminal = s.terminal
           /\ ~s.terminal => d.state.inFlight = IF s.inFlight = 0 THEN 0 ELSE s.inFlight - 1
           /\ d.resume <=> ~s.terminal /\ s.paused /\ d.state.inFlight <= ResumeThreshold
           /\ d.resume => d.state.generation = s.generation + 1 /\ ~d.state.paused
           /\ ~d.resume => d.state.generation = s.generation /\ d.state.paused = s.paused
<1>1. CASE s.terminal
  BY <1>1 DEF DecideResume, BPState
<1>2. CASE ~s.terminal
  <2> DEFINE n == IF s.inFlight = 0 THEN 0 ELSE s.inFlight - 1
             r == s.paused /\ n <= ResumeThreshold
  <2>1. n \in Nat /\ r \in BOOLEAN
    BY DEF BPState
  <2>2. DecideResume(s) = [resume |-> r,
                           state |-> [s EXCEPT !.inFlight = n, !.paused = @ /\ ~r,
                                               !.generation = IF r THEN @ + 1 ELSE @]]
    BY <1>2 DEF DecideResume
  <2> DEFINE t == [s EXCEPT !.inFlight = n, !.paused = @ /\ ~r,
                            !.generation = IF r THEN @ + 1 ELSE @]
  <2> HIDE DEF n, r
  <2>3. DecideResume(s).state = t /\ DecideResume(s).resume = r
    BY <2>2
  <2>4. t.inFlight = n /\ t.paused = (s.paused /\ ~r) /\ t.lastKey = s.lastKey
        /\ t.terminal = s.terminal /\ t.generation = (IF r THEN s.generation + 1 ELSE s.generation)
    BY DEF BPState
  <2>5. (s.paused /\ ~r) \in BOOLEAN /\ (IF r THEN s.generation + 1 ELSE s.generation) \in Nat
    BY <2>1 DEF BPState
  <2>6. t \in BPState
    BY <2>1, <2>5 DEF BPState
  <2> HIDE DEF t
  <2>7. r <=> ~s.terminal /\ s.paused /\ n <= ResumeThreshold
    BY <1>2 DEF r
  <2>8. n = IF s.inFlight = 0 THEN 0 ELSE s.inFlight - 1
    BY DEF n
  <2>9. DecideResume(s).state.inFlight = n
    BY <2>3, <2>4
  <2>10. r => t.generation = s.generation + 1 /\ ~t.paused
    BY <2>4
  <2>11. ~r => t.generation = s.generation /\ t.paused = s.paused
    BY <2>1, <2>4 DEF BPState
  <2> QED  BY <1>2, <2>1, <2>3, <2>4, <2>6, <2>7, <2>8, <2>9, <2>10, <2>11
<1> QED  BY <1>1, <1>2

-----------------------------------------------------------------------------
(* Type correctness                                                        *)

LEMMA TypeInit == BoundedInit => BoundedTypeOK
<1> SUFFICES ASSUME BoundedInit PROVE BoundedTypeOK
  OBVIOUS
<1>1. published \in Keys /\ From \in Keys
  BY OptionsAssumption DEF BoundedInit, Keys
<1>2. bp \in BPState
  BY <1>1 DEF BoundedInit, InitialBPState, BPState
<1>3. sessions \in Seq(Session) /\ queue \in Seq(Keys) /\ consumed \in Seq(Keys)
      /\ disposer \in 0..Len(sessions)
  BY DEF BoundedInit
<1> QED  BY <1>1, <1>2, <1>3 DEF BoundedInit, BoundedTypeOK

LEMMA TypeNext == BoundedTypeOK /\ [BoundedNext]_boundedVars => BoundedTypeOK'
<1> SUFFICES ASSUME BoundedTypeOK, [BoundedNext]_boundedVars PROVE BoundedTypeOK'
  OBVIOUS
<1> USE DEF BoundedTypeOK
<1>0. \A i \in DOMAIN sessions : sessions[i] \in Session
  OBVIOUS
<1>1. CASE Publish
  BY <1>1, OptionsAssumption DEF Publish, Keys
<1>2. CASE Close
  BY <1>2 DEF Close
<1>3. ASSUME NEW i \in DOMAIN sessions, OnItem(i) PROVE BoundedTypeOK'
  <2> DEFINE d == DecideItem(bp, sessions[i].next, sessions[i].generation)
             advanced == [sessions EXCEPT ![i].next = @ + 1]
  <2>1. sessions[i] \in Session /\ sessions[i].next \in Keys /\ sessions[i].next <= published
    <3>1. sessions[i] \in Session /\ sessions[i].next <= published
      BY <1>3, <1>0 DEF OnItem
    <3>2. sessions[i].next \in Nat
      BY <3>1 DEF Session
    <3> QED  BY <3>1, <3>2, OptionsAssumption DEF Keys
  <2>2. d.state \in BPState
    BY <2>1, DecideItemFacts DEF Session
  <2>3. [sessions[i] EXCEPT !.next = @ + 1] \in Session
    <3>1. sessions[i].next + 1 \in 0..MaxPublished + 1
      BY <2>1, OptionsAssumption DEF Keys
    <3> QED  BY <2>1, <3>1 DEF Session
  <2>4. advanced \in Seq(Session) /\ Len(advanced) = Len(sessions)
    BY <2>3
  <2>5. sessions' \in Seq(Session) /\ Len(sessions') = Len(sessions)
    BY <1>3, <2>4, DisposeFacts DEF OnItem
  <2>6. queue' \in Seq(Keys)
    BY <1>3, <2>1 DEF OnItem
  <2>7. bp' = d.state /\ disposer' \in 0..Len(sessions')
    BY <1>3, <2>5 DEF OnItem
  <2> QED  BY <1>3, <2>2, <2>5, <2>6, <2>7 DEF OnItem, source
<1>4. ASSUME NEW i \in DOMAIN sessions, OnError(i) PROVE BoundedTypeOK'
  <2>1. \A st \in {sessions[i].state, "ended"} : [sessions[i] EXCEPT !.state = st] \in Session
    BY <1>0 DEF Session
  <2>2. sessions' \in Seq(Session) /\ Len(sessions') = Len(sessions)
    <3>1. PICK st \in {sessions[i].state, "ended"} :
                 sessions' = [sessions EXCEPT ![i].state = st]
      BY <1>4 DEF OnError
    <3>2. [sessions[i] EXCEPT !.state = st] \in Session
      BY <2>1
    <3>3. sessions' = [sessions EXCEPT ![i] = [sessions[i] EXCEPT !.state = st]]
      BY <3>1
    <3> QED  BY <3>2, <3>3
  <2>3. bp' \in BPState
    BY <1>4 DEF OnError, BPState, DecideTerminate
  <2> QED  BY <1>4, <2>2, <2>3 DEF OnError, source
<1>5. ASSUME NEW i \in DOMAIN sessions, OnComplete(i) PROVE BoundedTypeOK'
  <2>1. [sessions[i] EXCEPT !.state = "ended"] \in Session
    BY <1>0 DEF Session
  <2>2. sessions' \in Seq(Session) /\ Len(sessions') = Len(sessions)
    BY <1>5, <2>1 DEF OnComplete
  <2>3. bp' \in BPState
    BY <1>5 DEF OnComplete, BPState, DecideComplete
  <2> QED  BY <1>5, <2>2, <2>3 DEF OnComplete, source
<1>6. CASE OpenSession
  <2>1. CASE bp.terminal
    BY <1>6, <2>1 DEF OpenSession, source
  <2>2. CASE ~bp.terminal
    <3> DEFINE new == [generation |-> bp.generation, next |-> bp.lastKey, state |-> "open"]
    <3>1. new \in Session
      BY OptionsAssumption DEF Session, BPState, Keys
    <3>2. sessions' = Append(sessions, new)
      BY <1>6, <2>2 DEF OpenSession
    <3>3. sessions' \in Seq(Session) /\ Len(sessions') = Len(sessions) + 1
      BY <3>1, <3>2
    <3>4. disposer' \in 0..Len(sessions') /\ phase' \in {"storing", "running"}
      BY <1>6, <2>2, <3>3 DEF OpenSession
    <3> QED  BY <1>6, <3>3, <3>4 DEF OpenSession, source
  <2> QED  BY <2>1, <2>2
<1>7. CASE StoreDisposer
  BY <1>7 DEF StoreDisposer, source
<1>8. CASE Consume
  <2>1. Head(queue) \in Keys /\ Tail(queue) \in Seq(Keys)
    BY <1>8 DEF Consume
  <2>2. consumed' \in Seq(Keys) /\ queue' \in Seq(Keys)
    BY <1>8, <2>1 DEF Consume
  <2>3. bp' \in BPState
    BY <1>8, DecideResumeFacts DEF Consume
  <2>4. phase' \in {"opening", "running"}
    BY <1>8 DEF Consume
  <2> QED  BY <1>8, <2>2, <2>3, <2>4 DEF Consume, source
<1>9. ASSUME NEW r \in {"completed", "failed", "cancelled"}, Release(r) PROVE BoundedTypeOK'
  <2>1. sessions' \in Seq(Session) /\ Len(sessions') = Len(sessions)
    BY <1>9, DisposeFacts DEF Release
  <2>2. bp' \in BPState
    BY <1>9 DEF Release, BPState
  <2> QED  BY <1>9, <2>1, <2>2 DEF Release, source
<1>10. CASE ConsumeExit
  BY <1>10, <1>9 DEF ConsumeExit
<1>11. CASE Interrupt
  BY <1>11, <1>9 DEF Interrupt
<1>12. CASE UNCHANGED boundedVars
  BY <1>12 DEF boundedVars
<1> HIDE DEF BoundedTypeOK
<1> QED  BY <1>1, <1>2, <1>3, <1>4, <1>5, <1>6, <1>7, <1>8, <1>10, <1>11, <1>12 DEF BoundedNext, Callback

(* Every variable keeps its type, and no key or cursor ever leaves the     *)
(* range the indexer published.                                            *)
THEOREM FeedTypeCorrect == BoundedSpec => []BoundedTypeOK
BY TypeInit, TypeNext, PTL DEF BoundedSpec

-----------------------------------------------------------------------------
(* The stream is the ordered feed                                          *)

StreamInv == BoundedTypeOK /\ Contiguous /\ SessionInv /\ ExitInv

LEMMA StreamInit == BoundedInit => StreamInv
<1> SUFFICES ASSUME BoundedInit PROVE StreamInv
  OBVIOUS
<1>1. BoundedTypeOK
  BY TypeInit
<1>2. Contiguous
  BY OptionsAssumption DEF BoundedInit, Contiguous, InitialBPState
<1>3. SessionInv /\ ExitInv
  BY DEF BoundedInit, SessionInv, ExitInv
<1> QED  BY <1>1, <1>2, <1>3 DEF StreamInv

(* The actions that end the stream touch neither the queue nor the         *)
(* watermark, and they only dispose.                                       *)
LEMMA ReleaseStream ==
  ASSUME StreamInv, BoundedTypeOK', NEW r \in {"completed", "failed", "cancelled"}, Release(r)
  PROVE  StreamInv'
<1> USE DEF StreamInv
<1>1. bp' \in BPState /\ bp'.terminal /\ bp'.lastKey = bp.lastKey /\ bp'.generation = bp.generation
  BY DEF Release, BoundedTypeOK, BPState
<1>2. Contiguous'
  BY <1>1 DEF Contiguous, Release, source
<1>3. SessionInv'
  <2>1. DOMAIN sessions' = DOMAIN sessions
        /\ \A i \in DOMAIN sessions : sessions'[i].generation = sessions[i].generation
    BY DisposeFacts DEF Release, BoundedTypeOK
  <2> QED  BY <1>1, <2>1 DEF SessionInv, Current
<1>4. ExitInv'
  BY <1>1 DEF ExitInv, Release, source
<1> QED  BY <1>2, <1>3, <1>4

LEMMA StreamNext == StreamInv /\ [BoundedNext]_boundedVars => StreamInv'
<1> SUFFICES ASSUME StreamInv, [BoundedNext]_boundedVars PROVE StreamInv'
  OBVIOUS
<1>t. BoundedTypeOK /\ BoundedTypeOK'
  BY TypeNext DEF StreamInv
<1>0. /\ \A i \in DOMAIN sessions : sessions[i] \in Session
      /\ bp \in BPState /\ published \in Nat /\ From \in Nat /\ MaxPublished \in Nat
      /\ bp.lastKey \in Nat /\ bp.generation \in Nat
  BY <1>t, OptionsAssumption DEF BoundedTypeOK, BPState, Keys
<1> USE DEF StreamInv
<1>1. CASE Publish
  BY <1>t, <1>1, <1>0 DEF Publish, Contiguous, SessionInv, ExitInv, Current
<1>2. CASE Close
  BY <1>t, <1>2 DEF Close, Contiguous, SessionInv, ExitInv, Current
<1>3. ASSUME NEW i \in DOMAIN sessions, OnItem(i) PROVE StreamInv'
  <2> DEFINE k == sessions[i].next
             d == DecideItem(bp, k, sessions[i].generation)
             advanced == [sessions EXCEPT ![i].next = @ + 1]
  <2>1. sessions[i] \in Session /\ k \in Keys /\ k <= published /\ sessions[i].generation \in Nat
        /\ k \in Nat
    <3>1. sessions[i] \in Session /\ k <= published
      BY <1>3, <1>0 DEF OnItem
    <3>2. k \in Nat /\ sessions[i].generation \in Nat
      BY <3>1 DEF Session
    <3>3. published <= MaxPublished
      BY <1>t, OptionsAssumption DEF BoundedTypeOK, Keys
    <3> QED  BY <3>1, <3>2, <3>3, <1>0 DEF Keys
  <2>2. /\ d.state \in BPState
        /\ d.emit <=> ~bp.terminal /\ bp.generation = sessions[i].generation /\ k > bp.lastKey
        /\ ~d.emit => d.state = bp /\ ~d.pause
        /\ d.state.terminal = bp.terminal /\ d.state.generation = bp.generation
        /\ d.emit => /\ d.state.lastKey = k
                     /\ d.state.paused <=> bp.paused \/ d.pause
    BY <2>1, <1>0, DecideItemFacts
  <2>3. bp' = d.state /\ queue' = IF d.emit THEN Append(queue, k) ELSE queue
    BY <1>3 DEF OnItem
  <2>4. /\ DOMAIN advanced = DOMAIN sessions /\ advanced \in Seq(Session)
        /\ \A j \in DOMAIN sessions :
             /\ advanced[j].generation = sessions[j].generation
             /\ advanced[j].state = sessions[j].state
             /\ advanced[j].next = IF j = i THEN k + 1 ELSE sessions[j].next
    <3>1. k + 1 \in 0..MaxPublished + 1
      BY <2>1, <1>0 DEF Keys
    <3>2. [sessions[i] EXCEPT !.next = @ + 1] \in Session
      BY <2>1, <3>1 DEF Session
    <3>3. DOMAIN advanced = DOMAIN sessions /\ advanced \in Seq(Session)
      BY <3>2, <1>t DEF BoundedTypeOK
    <3>4. \A j \in DOMAIN sessions :
            advanced[j] = IF j = i THEN [sessions[i] EXCEPT !.next = @ + 1] ELSE sessions[j]
      BY <1>t DEF BoundedTypeOK
    <3>5. /\ [sessions[i] EXCEPT !.next = @ + 1].generation = sessions[i].generation
          /\ [sessions[i] EXCEPT !.next = @ + 1].state = sessions[i].state
          /\ [sessions[i] EXCEPT !.next = @ + 1].next = k + 1
      BY <2>1 DEF Session
    <3> HIDE DEF advanced
    <3> QED  BY <3>3, <3>4, <3>5
  <2>5. /\ DOMAIN sessions' = DOMAIN sessions
        /\ \A j \in DOMAIN sessions :
             /\ sessions'[j].generation = sessions[j].generation
             /\ sessions'[j].next = IF j = i THEN k + 1 ELSE sessions[j].next
             /\ sessions'[j].state = sessions[j].state \/ d.pause
    <3>1. sessions' = IF d.pause THEN Dispose(advanced, disposer) ELSE advanced
      BY <1>3 DEF OnItem
    <3> HIDE DEF advanced, d
    <3> QED  BY <2>4, <3>1, DisposeFacts
  <2>6. d.emit => k = bp.lastKey + 1
    BY <2>1, <2>2, <1>0 DEF SessionInv, Current
  <2>7. UNCHANGED <<published, closed, phase, exit, consumed, outcome>>
    BY <1>3 DEF OnItem, source
  <2> HIDE DEF d, k, advanced
  <2>8. Contiguous'
    <3>1. CASE d.emit
      <4>1. queue' = Append(queue, k) /\ bp'.lastKey = k /\ k = bp.lastKey + 1
        BY <3>1, <2>2, <2>3, <2>6
      <4>2. Len(queue') = Len(queue) + 1 /\ DOMAIN queue' = 1..Len(queue)+1
            /\ queue'[Len(queue)+1] = k /\ \A n \in 1..Len(queue) : queue'[n] = queue[n]
        BY <4>1, <2>1, <1>t DEF BoundedTypeOK
      <4>3. Len(consumed) \in Nat /\ Len(queue) \in Nat
        BY <1>t DEF BoundedTypeOK
      <4> QED  BY <4>1, <4>2, <4>3, <2>1, <2>7, <1>0 DEF Contiguous
    <3>2. CASE ~d.emit
      BY <3>2, <2>2, <2>3, <2>7 DEF Contiguous
    <3> QED  BY <3>1, <3>2
  <2>9. SessionInv'
    <3>1. bp'.generation = bp.generation /\ bp'.terminal = bp.terminal
          /\ bp'.lastKey \in Nat /\ bp'.lastKey >= bp.lastKey
          /\ (bp.paused => bp'.paused) /\ (d.pause => bp'.paused)
      BY <2>2, <2>3, <2>1, <1>0
    <3>2. \A j \in DOMAIN sessions : sessions[j].next \in Nat
      BY <1>0 DEF Session
    <3>3. ASSUME NEW j \in DOMAIN sessions, sessions[j].generation = bp.generation, ~bp.terminal
          PROVE  sessions'[j].next <= bp'.lastKey + 1
      <4>1. CASE j # i
        BY <4>1, <3>1, <3>2, <3>3, <2>5, <1>0 DEF SessionInv, Current
      <4>2. CASE j = i /\ d.emit
        BY <4>2, <2>2, <2>3, <2>5, <2>1
      <4>3. CASE j = i /\ ~d.emit
        BY <4>3, <3>3, <2>2, <2>3, <2>5, <2>1, <1>0
      <4> QED  BY <4>1, <4>2, <4>3
    <3>4. ASSUME NEW j \in DOMAIN sessions, sessions[j].generation = bp.generation, ~bp.terminal,
                 sessions'[j].state = "disposed"
          PROVE  bp'.paused
      BY <3>1, <3>4, <2>5 DEF SessionInv, Current
    <3> QED  BY <3>1, <3>3, <3>4, <2>5 DEF SessionInv, Current
  <2>10. ExitInv'
    <3>1. bp'.terminal = bp.terminal /\ (bp.terminal => bp' = bp)
      BY <2>2, <2>3
    <3> QED  BY <3>1, <2>7 DEF ExitInv
  <2> QED  BY <1>t, <2>8, <2>9, <2>10
<1>4. ASSUME NEW i \in DOMAIN sessions, OnError(i) PROVE StreamInv'
  <2>1. PICK st \in {sessions[i].state, "ended"} : sessions' = [sessions EXCEPT ![i].state = st]
    BY <1>4 DEF OnError
  <2>2. /\ DOMAIN sessions' = DOMAIN sessions
        /\ \A j \in DOMAIN sessions :
             /\ sessions'[j].generation = sessions[j].generation
             /\ sessions'[j].next = sessions[j].next
             /\ sessions'[j].state \in {sessions[j].state, "ended"}
    BY <2>1, <1>0, <1>t DEF Session, BoundedTypeOK
  <2>3. /\ bp'.terminal <=> bp.terminal \/ DecideTerminate(bp, sessions[i].generation)
        /\ bp'.lastKey = bp.lastKey /\ bp'.generation = bp.generation /\ bp'.paused = bp.paused
    BY <1>4, <1>0 DEF OnError, BPState
  <2>4. UNCHANGED <<published, closed, phase, queue, consumed, outcome>>
        /\ exit' = IF DecideTerminate(bp, sessions[i].generation) THEN "failed" ELSE exit
    BY <1>4 DEF OnError, source
  <2>5. Contiguous'
    BY <2>3, <2>4 DEF Contiguous
  <2>6. SessionInv'
    BY <2>2, <2>3 DEF SessionInv, Current
  <2>7. ExitInv'
    BY <2>3, <2>4 DEF ExitInv
  <2> QED  BY <1>t, <2>5, <2>6, <2>7
<1>5. ASSUME NEW i \in DOMAIN sessions, OnComplete(i) PROVE StreamInv'
  <2>1. sessions' = [sessions EXCEPT ![i].state = "ended"]
    BY <1>5 DEF OnComplete
  <2>2. /\ DOMAIN sessions' = DOMAIN sessions
        /\ \A j \in DOMAIN sessions :
             /\ sessions'[j].generation = sessions[j].generation
             /\ sessions'[j].next = sessions[j].next
             /\ sessions'[j].state \in {sessions[j].state, "ended"}
    BY <2>1, <1>0, <1>t DEF Session, BoundedTypeOK
  <2>3. /\ bp'.terminal <=> bp.terminal \/ DecideComplete(bp, sessions[i].generation)
        /\ bp'.lastKey = bp.lastKey /\ bp'.generation = bp.generation /\ bp'.paused = bp.paused
    BY <1>5, <1>0 DEF OnComplete, BPState
  <2>4. UNCHANGED <<published, closed, phase, queue, consumed, outcome>>
        /\ exit' = IF DecideComplete(bp, sessions[i].generation) THEN "completed" ELSE exit
    BY <1>5 DEF OnComplete, source
  <2>5. Contiguous'
    BY <2>3, <2>4 DEF Contiguous
  <2>6. SessionInv'
    BY <2>2, <2>3 DEF SessionInv, Current
  <2>7. DecideComplete(bp, sessions[i].generation) => closed /\ bp.lastKey = published
    <3>1. SUFFICES ASSUME ~bp.paused, ~bp.terminal, bp.generation = sessions[i].generation
                   PROVE  closed /\ bp.lastKey = published
      BY DEF DecideComplete
    <3>2. sessions[i].state # "disposed" /\ sessions[i].next <= bp.lastKey + 1
      BY <3>1 DEF SessionInv, Current
    <3>3. closed /\ sessions[i].next > published
      BY <1>5, <3>2 DEF OnComplete
    <3>4. sessions[i].next \in Nat
      BY <1>0 DEF Session
    <3>5. bp.lastKey <= published
      BY DEF Contiguous
    <3> QED  BY <1>0, <3>2, <3>3, <3>4, <3>5
  <2>8. ExitInv'
    BY <2>3, <2>4, <2>7 DEF ExitInv
  <2> QED  BY <1>t, <2>5, <2>6, <2>8
<1>6. CASE OpenSession
  <2>1. CASE bp.terminal
    BY <1>t, <1>6, <2>1 DEF OpenSession, source, Contiguous, SessionInv, ExitInv, Current
  <2>2. CASE ~bp.terminal
    <3> DEFINE new == [generation |-> bp.generation, next |-> bp.lastKey, state |-> "open"]
    <3>1. sessions' = Append(sessions, new) /\ phase' \in {"storing", "running"}
          /\ phase = "opening" /\ UNCHANGED <<published, closed, bp, queue, exit, consumed, outcome>>
      BY <1>6, <2>2 DEF OpenSession, source
    <3>2. new \in Session
      BY <1>t, OptionsAssumption DEF BoundedTypeOK, Session, BPState, Keys
    <3>3. /\ DOMAIN sessions' = 1..Len(sessions)+1 /\ DOMAIN sessions = 1..Len(sessions)
          /\ sessions'[Len(sessions)+1] = new /\ Len(sessions) \in Nat
          /\ \A j \in 1..Len(sessions) : sessions'[j] = sessions[j]
      BY <3>1, <3>2, <1>t DEF BoundedTypeOK
    <3>4. new.generation = bp.generation /\ new.next = bp.lastKey /\ new.state = "open"
      OBVIOUS
    <3> HIDE DEF new
    <3>5. SessionInv'
      <4>1. ASSUME NEW j \in DOMAIN sessions'
            PROVE  j \in DOMAIN sessions \/ j = Len(sessions)+1
        BY <3>3
      <4>2. ASSUME NEW j \in DOMAIN sessions
            PROVE  /\ sessions'[j].generation <= bp'.generation
                   /\ Current(j)' /\ ~bp'.terminal =>
                        /\ sessions'[j].next <= bp'.lastKey + 1
                        /\ sessions'[j].state = "disposed" => bp'.paused
        BY <3>1, <3>3 DEF SessionInv, Current
      <4>3. /\ sessions'[Len(sessions)+1].generation <= bp'.generation
            /\ sessions'[Len(sessions)+1].next <= bp'.lastKey + 1
            /\ sessions'[Len(sessions)+1].state # "disposed"
        BY <3>1, <3>3, <3>4, <1>0
      <4> QED  BY <4>1, <4>2, <4>3 DEF SessionInv
    <3>6. Contiguous' /\ ExitInv'
      BY <3>1 DEF Contiguous, ExitInv
    <3> QED  BY <1>t, <3>5, <3>6
  <2> QED  BY <2>1, <2>2
<1>7. CASE StoreDisposer
  BY <1>t, <1>7 DEF StoreDisposer, source, Contiguous, SessionInv, ExitInv, Current
<1>8. CASE Consume
  <2> DEFINE d == DecideResume(bp)
  <2>1. /\ bp' = d.state /\ queue # <<>> /\ queue' = Tail(queue)
        /\ consumed' = Append(consumed, Head(queue))
        /\ phase = "running" /\ phase' \in {"opening", "running"}
        /\ UNCHANGED <<published, closed, sessions, exit, outcome>>
    BY <1>8 DEF Consume, source
  <2>2. /\ d.state \in BPState /\ d.resume \in BOOLEAN
        /\ d.state.lastKey = bp.lastKey /\ d.state.terminal = bp.terminal
        /\ d.resume => d.state.generation = bp.generation + 1
        /\ ~d.resume => d.state.generation = bp.generation /\ d.state.paused = bp.paused
    BY <1>0, DecideResumeFacts
  <2> HIDE DEF d
  <2>3. Contiguous'
    <3>1. /\ Len(queue) \in Nat \ {0} /\ Len(queue') = Len(queue) - 1
          /\ Len(consumed') = Len(consumed) + 1 /\ Len(consumed) \in Nat
      BY <2>1, <1>t DEF BoundedTypeOK
    <3>2. \A n \in 1..Len(queue') : queue'[n] = queue[n+1]
      BY <2>1, <1>t, HeadTailProperties DEF BoundedTypeOK
    <3>3. DOMAIN queue' = 1..Len(queue') /\ DOMAIN queue = 1..Len(queue)
      BY <1>t DEF BoundedTypeOK
    <3>4. ASSUME NEW n \in DOMAIN queue'
          PROVE  queue'[n] = From + Len(consumed') + n
      <4>1. n \in Nat /\ n+1 \in DOMAIN queue
        BY <3>1, <3>3
      <4>2. queue[n+1] = From + Len(consumed) + (n + 1)
        BY <4>1 DEF Contiguous
      <4> QED  BY <3>1, <3>2, <3>3, <4>1, <4>2, <1>0
    <3> QED  BY <2>1, <2>2, <3>1, <3>4, <1>0 DEF Contiguous
  <2>4. SessionInv'
    <3>1. CASE d.resume
      <4>1. \A i \in DOMAIN sessions : sessions[i].generation \in Nat /\ sessions[i].generation <= bp.generation
        BY <1>0 DEF Session, SessionInv
      <4>2. bp'.generation = bp.generation + 1 /\ sessions' = sessions
        BY <3>1, <2>1, <2>2
      <4> QED  BY <4>1, <4>2, <1>0 DEF SessionInv, Current
    <3>2. CASE ~d.resume
      BY <3>2, <2>1, <2>2 DEF SessionInv, Current
    <3> QED  BY <3>1, <3>2
  <2>5. ExitInv'
    BY <2>1, <2>2 DEF ExitInv
  <2> QED  BY <1>t, <2>3, <2>4, <2>5
<1>9. CASE ConsumeExit
  <2>1. exit \in {"completed", "failed", "cancelled"}
    BY <1>9, <1>t DEF ConsumeExit, BoundedTypeOK
  <2> QED  BY <1>9, <1>t, <2>1, ReleaseStream DEF ConsumeExit
<1>10. CASE Interrupt
  BY <1>10, <1>t, ReleaseStream DEF Interrupt
<1>11. CASE UNCHANGED boundedVars
  BY <1>t, <1>11 DEF boundedVars, Contiguous, SessionInv, ExitInv, Current
<1> HIDE DEF StreamInv
<1> QED  BY <1>1, <1>2, <1>3, <1>4, <1>5, <1>6, <1>7, <1>8, <1>9, <1>10, <1>11 DEF BoundedNext, Callback

LEMMA StreamInvariant == BoundedSpec => []StreamInv
BY StreamInit, StreamNext, PTL DEF BoundedSpec

(* Every step of the wrapper is a step of the ordered feed or invisible.   *)
LEMMA FeedStep == StreamInv /\ [BoundedNext]_boundedVars => [Feed!Next]_Feed!vars
<1> SUFFICES ASSUME StreamInv, [BoundedNext]_boundedVars PROVE [Feed!Next]_Feed!vars
  OBVIOUS
<1> USE DEF Feed!vars
<1>1. CASE Publish
  BY <1>1 DEF Publish, Feed!Next, Feed!Publish
<1>2. CASE Close
  BY <1>2 DEF Close, Feed!Next, Feed!Close
<1>3. ASSUME NEW i \in DOMAIN sessions, Callback(i) PROVE UNCHANGED Feed!vars
  BY <1>3 DEF Callback, OnItem, OnError, OnComplete, source
<1>4. CASE OpenSession \/ StoreDisposer
  BY <1>4 DEF OpenSession, StoreDisposer, source
<1>5. CASE Consume
  <2>1. /\ Len(queue) \in Nat \ {0} /\ DOMAIN queue = 1..Len(queue) /\ Head(queue) = queue[1]
        /\ From \in Nat /\ Len(consumed) \in Nat /\ published \in Nat
    BY <1>5, OptionsAssumption DEF Consume, StreamInv, BoundedTypeOK, Keys
  <2>2. /\ Head(queue) = From + Len(consumed) + 1
        /\ From + Len(consumed) < published
    BY <2>1 DEF StreamInv, Contiguous
  <2>3. outcome = "open"
    BY <1>5 DEF Consume, StreamInv, ExitInv
  <2> QED  BY <1>5, <2>2, <2>3 DEF Consume, source, Feed!Next, Feed!Deliver, Feed!Watermark
<1>6. CASE ConsumeExit
  <2>1. outcome = "open" /\ outcome' = exit /\ UNCHANGED <<published, closed, consumed>>
    BY <1>6 DEF ConsumeExit, Release, source, StreamInv, ExitInv
  <2>2. CASE exit = "completed"
    <3>1. closed /\ From + Len(consumed) = published
      <4>1. Len(queue) = 0 /\ Len(consumed) \in Nat /\ From \in Nat
        BY <1>6, OptionsAssumption DEF ConsumeExit, StreamInv, BoundedTypeOK
      <4> QED  BY <2>2, <4>1 DEF StreamInv, ExitInv, Contiguous
    <3> QED  BY <2>1, <2>2, <3>1 DEF Feed!Next, Feed!Complete, Feed!Watermark
  <2>3. CASE exit = "failed"
    BY <2>1, <2>3 DEF Feed!Next, Feed!Abort
  <2> QED  BY <1>6, <2>2, <2>3 DEF ConsumeExit, StreamInv, BoundedTypeOK
<1>7. CASE Interrupt
  <2>1. outcome = "open" /\ outcome' = "cancelled" /\ UNCHANGED <<published, closed, consumed>>
    BY <1>7 DEF Interrupt, Release, source, StreamInv, ExitInv
  <2> QED  BY <2>1 DEF Feed!Next, Feed!Abort
<1>8. CASE UNCHANGED boundedVars
  BY <1>8 DEF boundedVars
<1> QED  BY <1>1, <1>2, <1>3, <1>4, <1>5, <1>6, <1>7, <1>8 DEF BoundedNext

(* The stream implements the ordered feed under every admitted fault: no   *)
(* event is lost, repeated or reordered by pausing and resuming, and a     *)
(* session that was paused out never ends the stream.                      *)
THEOREM DeliversOrderedFeed == BoundedSpec => ImplementsOrderedFeed
<1>1. BoundedInit => Feed!Init
  BY DEF BoundedInit, Feed!Init
<1>2. StreamInv /\ [BoundedNext]_boundedVars => [Feed!Next]_Feed!vars
  BY FeedStep
<1> QED  BY <1>1, <1>2, StreamInvariant, PTL DEF BoundedSpec, ImplementsOrderedFeed, Feed!Spec

-----------------------------------------------------------------------------
(* The bound on in-flight items                                            *)

CapStreamInv == StreamInv /\ CapInv

LEMMA CapInit == BoundedInit => CapInv
BY OptionsAssumption DEF BoundedInit, CapInv, Tight, InitialBPState

LEMMA ReleaseCap ==
  ASSUME StreamInv, Tight, NEW r, Release(r)
  PROVE  Tight'
<1>1. bp \in BPState
  BY DEF StreamInv, BoundedTypeOK
<1>2. bp'.terminal /\ bp'.paused = bp.paused /\ phase' = "closed" /\ queue' = queue
  BY <1>1 DEF Release, BPState
<1> QED  BY <1>2 DEF Tight

(* A fault is never forgotten.                                             *)
LEMMA StrainedStays == BoundedTypeOK /\ [BoundedNext]_boundedVars /\ ~strained' => ~strained
<1> SUFFICES ASSUME BoundedTypeOK, [BoundedNext]_boundedVars, strained PROVE strained'
  BY DEF BoundedTypeOK
<1>1. ASSUME NEW i \in DOMAIN sessions, Callback(i) PROVE strained'
  BY <1>1 DEF Callback, OnItem, OnError, OnComplete
<1>2. CASE OpenSession
  BY <1>2 DEF OpenSession
<1> QED  BY <1>1, <1>2 DEF BoundedNext, Publish, Close, StoreDisposer, Consume, ConsumeExit,
                           Interrupt, Release, boundedVars

LEMMA CapNext == CapStreamInv /\ [BoundedNext]_boundedVars => CapInv'
<1> SUFFICES ASSUME CapStreamInv, [BoundedNext]_boundedVars, ~strained' PROVE Tight'
  BY DEF CapInv
<1>a. ~strained
  BY StrainedStays DEF CapStreamInv, StreamInv
<1>0. /\ StreamInv /\ Tight /\ BoundedTypeOK
      /\ \A i \in DOMAIN sessions : sessions[i] \in Session
      /\ bp \in BPState /\ Len(queue) \in Nat /\ BufferSize \in Nat /\ ResumeThreshold \in Nat
      /\ ResumeThreshold < BufferSize
  BY <1>a, OptionsAssumption DEF CapStreamInv, CapInv, StreamInv, BoundedTypeOK
<1>1. CASE Publish \/ Close
  BY <1>0, <1>1 DEF Publish, Close, Tight, Current
<1>2. ASSUME NEW i \in DOMAIN sessions, OnItem(i) PROVE Tight'
  <2> DEFINE k == sessions[i].next
             d == DecideItem(bp, k, sessions[i].generation)
             advanced == [sessions EXCEPT ![i].next = @ + 1]
  <2>1. /\ sessions[i].state = "open" /\ k \in Keys /\ sessions[i].generation \in Nat
        /\ k \in Nat
    <3>0. strained' = (strained \/ sessions[i].state = "disposed")
      BY <1>2 DEF OnItem
    <3>1. sessions[i].state = "open" /\ k <= published /\ sessions[i] \in Session
      BY <1>0, <1>2, <3>0 DEF OnItem, Delivers
    <3>2. published \in 0..MaxPublished /\ k \in Nat /\ sessions[i].generation \in Nat
      BY <1>0, <3>1 DEF BoundedTypeOK, Keys, Session
    <3> QED  BY <3>1, <3>2, OptionsAssumption DEF Keys
  <2>2. /\ d.emit <=> ~bp.terminal /\ bp.generation = sessions[i].generation /\ k > bp.lastKey
        /\ ~d.emit => d.state = bp /\ ~d.pause
        /\ d.state.terminal = bp.terminal /\ d.state.generation = bp.generation
        /\ d.emit => /\ d.state.inFlight = bp.inFlight + 1
                     /\ d.pause <=> bp.inFlight + 1 >= BufferSize /\ ~bp.paused
                     /\ d.state.paused <=> bp.paused \/ d.pause
    BY <1>0, <2>1, DecideItemFacts
  <2>3. /\ bp' = d.state /\ queue' = IF d.emit THEN Append(queue, k) ELSE queue
        /\ phase' = phase
        /\ disposer' = IF d.pause THEN 0 ELSE disposer
        /\ sessions' = IF d.pause THEN Dispose(advanced, disposer) ELSE advanced
    BY <1>2 DEF OnItem
  <2>4. /\ DOMAIN advanced = DOMAIN sessions
        /\ \A j \in DOMAIN sessions :
             /\ advanced[j].generation = sessions[j].generation
             /\ advanced[j].state = sessions[j].state
    <3>1. DOMAIN advanced = DOMAIN sessions /\ \A j \in DOMAIN sessions :
            advanced[j] = IF j = i THEN [sessions[i] EXCEPT !.next = @ + 1] ELSE sessions[j]
      BY <1>0 DEF BoundedTypeOK
    <3>2. /\ [sessions[i] EXCEPT !.next = @ + 1].generation = sessions[i].generation
          /\ [sessions[i] EXCEPT !.next = @ + 1].state = sessions[i].state
      BY <1>0 DEF Session
    <3> HIDE DEF advanced
    <3> QED  BY <3>1, <3>2
  <2>5. advanced \in Seq(Session)
    <3>1. k + 1 \in 0..MaxPublished + 1
      BY <2>1, OptionsAssumption DEF Keys
    <3>2. [sessions[i] EXCEPT !.next = @ + 1] \in Session
      BY <1>0, <3>1 DEF Session
    <3> QED  BY <3>2, <1>0 DEF BoundedTypeOK
  <2> HIDE DEF advanced, d, k
  <2>6. /\ DOMAIN sessions' = DOMAIN sessions
        /\ \A j \in DOMAIN sessions :
             /\ sessions'[j].generation = sessions[j].generation
             /\ sessions'[j].state = "open" => sessions[j].state = "open" /\ (d.pause => j # disposer)
    BY <2>3, <2>4, <2>5, DisposeFacts
  <2>7. CASE ~d.emit
    BY <1>0, <2>2, <2>3, <2>6, <2>7 DEF Tight, Current
  <2>8. CASE d.emit
    <3>1. /\ ~bp.terminal /\ bp.generation = sessions[i].generation
          /\ bp.inFlight = Len(queue) /\ ~bp.paused /\ Len(queue) < BufferSize
          /\ phase # "opening" /\ phase # "storing"
      BY <1>0, <2>1, <2>2, <2>8 DEF Tight, Current
    <3>2. Len(queue') = Len(queue) + 1 /\ queue' \in Seq(Keys)
      BY <1>0, <2>1, <2>3, <2>8 DEF BoundedTypeOK
    <3>3. Len(queue') <= BufferSize /\ bp'.inFlight = Len(queue')
          /\ (bp'.paused <=> d.pause) /\ (~d.pause => Len(queue') < BufferSize)
      BY <1>0, <2>2, <2>3, <2>8, <3>1, <3>2
    <3>4. ASSUME NEW j \in DOMAIN sessions, sessions'[j].generation = bp'.generation,
                 sessions'[j].state = "open"
          PROVE  disposer' = j /\ ~bp'.paused
      <4>1. sessions[j].state = "open" /\ Current(j) /\ (d.pause => j # disposer)
        BY <2>2, <2>3, <2>6, <3>4 DEF Current
      <4>2. disposer = j
        BY <1>0, <3>1, <4>1 DEF Tight
      <4> QED  BY <2>3, <3>3, <4>1, <4>2
    <3> QED  BY <2>3, <2>6, <3>1, <3>3, <3>4 DEF Tight, Current
  <2> QED  BY <2>7, <2>8
<1>3. ASSUME NEW i \in DOMAIN sessions, OnError(i) \/ OnComplete(i) PROVE Tight'
  <2>1. PICK st \in {sessions[i].state, "ended"} : sessions' = [sessions EXCEPT ![i].state = st]
    BY <1>3 DEF OnError, OnComplete
  <2>2. /\ DOMAIN sessions' = DOMAIN sessions
        /\ \A j \in DOMAIN sessions :
             /\ sessions'[j].generation = sessions[j].generation
             /\ sessions'[j].state \in {sessions[j].state, "ended"}
    BY <2>1, <1>0 DEF Session, BoundedTypeOK
  <2>3. /\ bp.terminal => bp'.terminal
        /\ bp'.generation = bp.generation /\ bp'.paused = bp.paused /\ bp'.inFlight = bp.inFlight
    BY <1>3, <1>0 DEF OnError, OnComplete, BPState
  <2>4. UNCHANGED <<disposer, phase, queue>>
    BY <1>3 DEF OnError, OnComplete
  <2> QED  BY <1>0, <2>2, <2>3, <2>4 DEF Tight, Current
<1>4. CASE OpenSession
  <2>1. CASE bp.terminal
    BY <1>0, <1>4, <2>1 DEF OpenSession, Tight, Current
  <2>2. CASE ~bp.terminal
    <3> DEFINE new == [generation |-> bp.generation, next |-> bp.lastKey, state |-> "open"]
    <3>1. sessions' = Append(sessions, new) /\ disposer' = Len(sessions')
          /\ phase' = "running" /\ phase = "opening" /\ UNCHANGED <<bp, queue>>
      BY <1>4, <2>2 DEF OpenSession
    <3>2. /\ DOMAIN sessions' = 1..Len(sessions)+1 /\ DOMAIN sessions = 1..Len(sessions)
          /\ Len(sessions) \in Nat /\ Len(sessions') = Len(sessions)+1
          /\ \A j \in 1..Len(sessions) : sessions'[j] = sessions[j]
      BY <3>1, <1>0 DEF BoundedTypeOK
    <3>3. ASSUME NEW j \in DOMAIN sessions', Current(j)' PROVE j = Len(sessions)+1
      BY <3>1, <3>2, <3>3, <1>0 DEF Tight, Current
    <3>4. ~bp.paused
      BY <3>1, <1>0 DEF Tight
    <3> QED  BY <1>0, <3>1, <3>2, <3>3, <3>4 DEF Tight
  <2> QED  BY <2>1, <2>2
<1>5. CASE StoreDisposer
  BY <1>0, <1>5 DEF StoreDisposer, Tight
<1>6. CASE Consume
  <2> DEFINE d == DecideResume(bp)
  <2>1. /\ bp' = d.state /\ queue # <<>> /\ queue' = Tail(queue)
        /\ phase = "running" /\ phase' = IF d.resume THEN "opening" ELSE phase
        /\ UNCHANGED <<sessions, disposer>>
    BY <1>6 DEF Consume
  <2>2. /\ d.state \in BPState /\ d.resume \in BOOLEAN
        /\ d.state.terminal = bp.terminal
        /\ ~bp.terminal => d.state.inFlight = IF bp.inFlight = 0 THEN 0 ELSE bp.inFlight - 1
        /\ d.resume <=> ~bp.terminal /\ bp.paused /\ d.state.inFlight <= ResumeThreshold
        /\ d.resume => d.state.generation = bp.generation + 1 /\ ~d.state.paused
        /\ ~d.resume => d.state.generation = bp.generation /\ d.state.paused = bp.paused
    BY <1>0, DecideResumeFacts
  <2> HIDE DEF d
  <2>3. Len(queue) \in Nat \ {0} /\ Len(queue') = Len(queue) - 1
    BY <2>1, <1>0 DEF BoundedTypeOK
  <2>4. ~bp.terminal => bp'.inFlight = Len(queue')
    BY <2>1, <2>2, <2>3, <1>0 DEF Tight
  <2>5. CASE d.resume
    <3>1. \A i \in DOMAIN sessions : sessions[i].generation # bp'.generation
      <4>1. \A i \in DOMAIN sessions : sessions[i].generation \in Nat /\ sessions[i].generation <= bp.generation
        BY <1>0 DEF Session, SessionInv, StreamInv
      <4>2. bp.generation \in Nat /\ bp'.generation = bp.generation + 1
        BY <1>0, <2>1, <2>2, <2>5 DEF BPState
      <4> QED  BY <4>1, <4>2
    <3>2. Len(queue') < BufferSize
      BY <2>1, <2>2, <2>3, <2>4, <2>5, <1>0
    <3> QED  BY <2>1, <2>2, <2>3, <2>4, <2>5, <3>1, <3>2, <1>0 DEF Tight, Current
  <2>6. CASE ~d.resume
    <3>1. Len(queue') <= BufferSize /\ (~bp'.terminal /\ ~bp'.paused => Len(queue') < BufferSize)
      BY <2>1, <2>2, <2>3, <2>6, <1>0 DEF Tight
    <3> QED  BY <2>1, <2>2, <2>4, <2>6, <3>1, <1>0 DEF Tight, Current
  <2> QED  BY <2>5, <2>6
<1>7. CASE ConsumeExit \/ Interrupt
  BY <1>0, <1>7, ReleaseCap DEF ConsumeExit, Interrupt
<1>8. CASE UNCHANGED boundedVars
  BY <1>0, <1>8 DEF boundedVars, Tight, Current
<1> QED  BY <1>1, <1>2, <1>3, <1>4, <1>5, <1>6, <1>7, <1>8 DEF BoundedNext, Callback

(* As long as no disposed session has called back and no callback came     *)
(* before the handle of its session was stored, the queue never holds more *)
(* than BufferSize items.                                                  *)
THEOREM InFlightBounded == BoundedSpec => []InFlightCapped
<1>1. BoundedInit => CapStreamInv
  BY StreamInit, CapInit DEF CapStreamInv
<1>2. CapStreamInv /\ [BoundedNext]_boundedVars => CapStreamInv'
  BY StreamNext, CapNext DEF CapStreamInv
<1>3. CapStreamInv => InFlightCapped
  BY DEF CapStreamInv, CapInv, Tight, InFlightCapped
<1> QED  BY <1>1, <1>2, <1>3, PTL DEF BoundedSpec

-----------------------------------------------------------------------------
(* No subscription is left running                                         *)

(* The one session that may be open is the one whose handle is stored.     *)
Handled ==
  /\ phase # "storing"
  /\ phase = "opening" => ~bp.paused
  /\ \A i \in DOMAIN sessions :
       sessions[i].state = "open" => disposer = i /\ ~bp.paused /\ phase = "running"

HandledInv == ~strained => Handled

(* Steps that open no session and leave pause, handle and phase alone.     *)
LEMMA HandledUndisturbed ==
  ASSUME Handled, UNCHANGED <<disposer, phase>>, bp'.paused = bp.paused,
         DOMAIN sessions' = DOMAIN sessions,
         \A i \in DOMAIN sessions : sessions'[i].state = "open" => sessions[i].state = "open"
  PROVE  Handled'
  BY DEF Handled

LEMMA ReleaseHandled ==
  ASSUME BoundedTypeOK, Handled, NEW r, Release(r) PROVE Handled'
<1>1. /\ DOMAIN sessions' = DOMAIN sessions
      /\ \A i \in DOMAIN sessions :
           sessions'[i].state = IF i = disposer /\ sessions[i].state = "open"
                                THEN "disposed" ELSE sessions[i].state
  BY DisposeFacts DEF Release, BoundedTypeOK
<1>2. \A i \in DOMAIN sessions' : sessions'[i].state # "open"
  BY <1>1 DEF Handled
<1> QED BY <1>2 DEF Handled, Release

LEMMA ItemHandled ==
  ASSUME BoundedTypeOK, Handled, NEW i \in DOMAIN sessions, OnItem(i), ~strained'
  PROVE  Handled'
<1> DEFINE k == sessions[i].next
           d == DecideItem(bp, k, sessions[i].generation)
           advanced == [sessions EXCEPT ![i].next = @ + 1]
<1>1. /\ sessions[i] \in Session /\ sessions[i].state = "open" /\ k \in Nat /\ k <= published
      /\ published \in Nat /\ published <= MaxPublished
  <2>1. sessions[i] \in Session
    BY DEF BoundedTypeOK
  <2>2. sessions[i].state = "open"
    BY DEF OnItem, Delivers
  <2> QED BY <2>1, <2>2, OptionsAssumption DEF OnItem, Session, BoundedTypeOK, Keys
<1>2. d.state.paused <=> bp.paused \/ d.pause
  <2>1. k \in Keys /\ sessions[i].generation \in Nat /\ bp \in BPState
    BY <1>1, OptionsAssumption DEF Session, Keys, BoundedTypeOK
  <2>2. /\ ~d.emit => d.state = bp /\ ~d.pause
        /\ d.emit => (d.state.paused <=> bp.paused \/ d.pause)
    BY <2>1, DecideItemFacts
  <2>3. CASE d.emit
    BY <2>2, <2>3
  <2>4. CASE ~d.emit
    BY <2>2, <2>4
  <2> QED BY <2>3, <2>4
<1>3. /\ advanced \in Seq(Session) /\ DOMAIN advanced = DOMAIN sessions
      /\ \A j \in DOMAIN sessions : advanced[j].state = sessions[j].state
  <2>1. k + 1 \in 0..MaxPublished + 1
    BY <1>1, OptionsAssumption
  <2>2. [sessions[i] EXCEPT !.next = @ + 1] \in Session
        /\ [sessions[i] EXCEPT !.next = @ + 1].state = sessions[i].state
    BY <1>1, <2>1 DEF Session
  <2>3. \A j \in DOMAIN sessions :
          advanced[j] = IF j = i THEN [sessions[i] EXCEPT !.next = @ + 1] ELSE sessions[j]
    BY DEF BoundedTypeOK
  <2>4. advanced \in Seq(Session) /\ DOMAIN advanced = DOMAIN sessions
    BY <2>2 DEF BoundedTypeOK
  <2> QED BY <2>2, <2>3, <2>4
<1>4. bp' = d.state /\ phase' = phase
      /\ sessions' = (IF d.pause THEN Dispose(advanced, disposer) ELSE advanced)
      /\ disposer' = (IF d.pause THEN 0 ELSE disposer)
  BY DEF OnItem
<1> HIDE DEF k, d, advanced
<1>5. CASE d.pause
  <2>1. \A j \in DOMAIN sessions' : sessions'[j].state # "open"
    BY <1>3, <1>4, <1>5, DisposeFacts DEF Handled
  <2>2. phase = "running"
    BY <1>1 DEF Handled
  <2> QED BY <1>4, <2>1, <2>2 DEF Handled
<1>6. CASE ~d.pause
  <2>1. bp'.paused <=> bp.paused
    BY <1>2, <1>4, <1>6
  <2> QED BY <1>3, <1>4, <1>6, <2>1 DEF Handled
<1> QED BY <1>5, <1>6

LEMMA HandledNext == BoundedTypeOK /\ HandledInv /\ [BoundedNext]_boundedVars => HandledInv'
<1> SUFFICES ASSUME BoundedTypeOK, HandledInv, [BoundedNext]_boundedVars, ~strained'
             PROVE  Handled'
  BY DEF HandledInv
<1>0. ~strained /\ Handled
  <2>1. ~strained
    BY DEF BoundedNext, Callback, Publish, Close, OnItem, OnError, OnComplete, OpenSession,
           StoreDisposer, Consume, ConsumeExit, Interrupt, Release, boundedVars
  <2> QED BY <2>1 DEF HandledInv
<1>1. CASE Publish \/ Close \/ UNCHANGED boundedVars
  BY <1>0, <1>1, HandledUndisturbed DEF Publish, Close, boundedVars
<1>2. ASSUME NEW i \in DOMAIN sessions, OnItem(i) PROVE Handled'
  BY <1>0, <1>2, ItemHandled
<1>3. ASSUME NEW i \in DOMAIN sessions, OnError(i) \/ OnComplete(i) PROVE Handled'
  <2>1. sessions[i] \in Session /\ bp \in BPState
    BY DEF BoundedTypeOK
  <2>2. UNCHANGED <<disposer, phase>> /\ bp'.paused = bp.paused
    BY <1>3, <2>1 DEF OnError, OnComplete, BPState
  <2>3. PICK s \in {sessions[i].state, "ended"} : sessions' = [sessions EXCEPT ![i].state = s]
    BY <1>3 DEF OnError, OnComplete
  <2>4. [sessions[i] EXCEPT !.state = s].state = s
    BY <2>1 DEF Session
  <2>5. /\ DOMAIN sessions' = DOMAIN sessions
        /\ \A j \in DOMAIN sessions :
             sessions'[j] = IF j = i THEN [sessions[i] EXCEPT !.state = s] ELSE sessions[j]
    BY <2>3 DEF BoundedTypeOK
  <2>6. \A j \in DOMAIN sessions : sessions'[j].state = "open" => sessions[j].state = "open"
    BY <2>3, <2>4, <2>5
  <2> QED BY <1>0, <2>2, <2>5, <2>6, HandledUndisturbed
<1>4. CASE OpenSession
  <2>1. \A j \in DOMAIN sessions : sessions[j].state # "open"
    BY <1>0, <1>4 DEF OpenSession, Handled
  <2>2. CASE bp.terminal
    BY <1>0, <1>4, <2>1, <2>2 DEF OpenSession, Handled
  <2>3. CASE ~bp.terminal
    <3> DEFINE new == [generation |-> bp.generation, next |-> bp.lastKey, state |-> "open"]
    <3>1. sessions' = Append(sessions, new) /\ phase' = "running" /\ disposer' = Len(sessions')
          /\ bp' = bp /\ ~bp.paused
      BY <1>0, <1>4, <2>3 DEF OpenSession, Handled
    <3>2. /\ DOMAIN sessions' = 1..Len(sessions) + 1 /\ Len(sessions') = Len(sessions) + 1
          /\ Len(sessions) \in Nat /\ DOMAIN sessions = 1..Len(sessions)
          /\ \A j \in 1..Len(sessions) : sessions'[j] = sessions[j]
      BY <3>1 DEF BoundedTypeOK
    <3> HIDE DEF new
    <3>3. \A j \in DOMAIN sessions' : j \in DOMAIN sessions \/ j = Len(sessions')
      BY <3>2
    <3> QED BY <2>1, <3>1, <3>2, <3>3 DEF Handled
  <2> QED BY <2>2, <2>3
<1>5. CASE StoreDisposer
  BY <1>0, <1>5 DEF StoreDisposer, Handled
<1>6. CASE Consume
  <2> DEFINE d == DecideResume(bp)
  <2>1. /\ d.resume => bp.paused /\ ~d.state.paused
        /\ ~d.resume => d.state.paused = bp.paused
    BY DecideResumeFacts DEF BoundedTypeOK
  <2>2. bp' = d.state /\ phase' = (IF d.resume THEN "opening" ELSE phase)
        /\ UNCHANGED <<sessions, disposer>>
    BY <1>6 DEF Consume
  <2> HIDE DEF d
  <2> QED BY <1>0, <2>1, <2>2 DEF Handled
<1>7. CASE ConsumeExit \/ Interrupt
  BY <1>0, <1>7, ReleaseHandled DEF ConsumeExit, Interrupt
<1> QED BY <1>1, <1>2, <1>3, <1>4, <1>5, <1>6, <1>7 DEF BoundedNext, Callback

(* Whatever pauses, resumes, errors and interruptions: at most one         *)
(* subscription runs, and none while the stream is paused or once it is    *)
(* over, until a disposed session calls back or a callback precedes the    *)
(* handle of its session.                                                  *)
THEOREM NothingLeaks == BoundedSpec => []NoLeakedSubscription
<1>1. BoundedInit => HandledInv
  BY DEF BoundedInit, HandledInv, Handled, InitialBPState
<1>2. ASSUME BoundedTypeOK, HandledInv PROVE NoLeakedSubscription
  <2> DEFINE running == {i \in DOMAIN sessions : sessions[i].state = "open"}
  <2>1. ASSUME ~strained
        PROVE  Cardinality(running) <= 1 /\ (bp.paused \/ phase = "closed" => running = {})
    <3>1. running \in SUBSET {disposer} /\ (bp.paused \/ phase = "closed" => running = {})
      BY <1>2, <2>1 DEF HandledInv, Handled
    <3>2. IsFiniteSet({disposer}) /\ Cardinality({disposer}) = 1
      BY FS_Singleton
    <3>3. Cardinality(running) <= Cardinality({disposer})
      BY <3>1, <3>2, FS_Subset
    <3> QED BY <3>1, <3>2, <3>3
  <2> QED BY <2>1 DEF NoLeakedSubscription
<1> QED BY <1>1, <1>2, HandledNext, TypeInit, TypeNext, PTL DEF BoundedSpec

-----------------------------------------------------------------------------
(* The tool that pins the schema                                           *)

(* What a running tool knows is of the kinds the files are made of.        *)
ToolKnows ==
  /\ ~At("idle") => ended = "running"
  /\ At("reading") /\ ~tool.update => tool.tag = Absent
  /\ tool.stage \notin {"idle", "reading"} => tool.tag \in Tags /\ tool.source \in Sources
  /\ At("fetching") /\ ~tool.update => tool.lock \in Lock /\ tool.lock.tag = tool.tag
  /\ tool.stage \in {"fetched", "Retarget", "Rewrite", "cleaning", "generating"} =>
       tool.body \in Contents
  /\ At("Retarget") => tool.current \in Copy /\ tool.current.body = tool.body

(* As long as nobody interferes, the files are where the steps of the tool *)
(* have left them.                                                         *)
FilesFollow ==
  quiet =>
    /\ tool.stage \notin {"idle", "reading"} => tool.source = config
    /\ At("fetching") /\ ~tool.update => tool.lock = lock /\ tool.current = schema
    /\ tool.stage \in {"fetched", "Retarget", "Rewrite", "cleaning", "generating"} =>
         tool.body = upstream[<<config, tool.tag>>]
    /\ tool.stage \in {"Retarget", "Rewrite", "cleaning", "generating"} =>
         lock = [tag |-> tool.tag, sha |-> tool.body]
    /\ tool.stage \in {"cleaning", "generating"} =>
         schema = [header |-> Provenance(tool.source, tool.tag, tool.body), body |-> tool.body]
    /\ ended = "InSync" =>
         /\ lock \in Lock /\ schema \in Copy
         /\ schema.body = lock.sha /\ lock.sha = upstream[<<config, lock.tag>>]
         /\ schema.header = Provenance(config, lock.tag, lock.sha)
    /\ ended = "updated" =>
         /\ lock \in Lock /\ lock.sha = upstream[<<config, lock.tag>>]
         /\ schema = [header |-> Provenance(config, lock.tag, lock.sha), body |-> lock.sha]

(* The types are those of a copy that a release has, also the copy that is *)
(* about to be given a new header.                                         *)
TypesFollow ==
  /\ tool.stage \in {"cleaning", "generating"} => mishap
  /\ ~mishap =>
       /\ schema # Absent /\ schema.body \in Contents =>
            types # Absent /\ types.body = schema.body
       /\ At("Retarget") => types # Absent /\ types.body = tool.body

PinInv == SchemaTypeOK /\ ToolKnows /\ FilesFollow /\ TypesFollow

LEMMA IdleTyped == Idle \in Tool
BY DEF Idle, Tool

LEMMA PinInit == SchemaInit => PinInv
<1> SUFFICES ASSUME SchemaInit PROVE PinInv
  OBVIOUS
<1> USE SchemaAssumption
<1>1. /\ upstream \in [Sources \X Tags -> Contents \cup {Absent}] /\ config \in Sources
      /\ tool = Idle /\ ended = "none" /\ mishap = FALSE /\ quiet = TRUE
  BY DEF SchemaInit
<1>2. CASE lock = Absent /\ schema = Absent /\ types = Absent
  <2>1. SchemaTypeOK
    BY <1>1, <1>2, IdleTyped DEF SchemaTypeOK, SchemaInit, Outcomes
  <2>2. ToolKnows /\ FilesFollow /\ TypesFollow
    BY <1>1, <1>2 DEF ToolKnows, FilesFollow, TypesFollow, At, Idle
  <2> QED BY <2>1, <2>2 DEF PinInv
<1>3. CASE ~(lock = Absent /\ schema = Absent /\ types = Absent)
  <2>1. PICK tag \in Tags :
          /\ upstream[<<config, tag>>] # Absent
          /\ lock = [tag |-> tag, sha |-> upstream[<<config, tag>>]]
          /\ schema = [header |-> Provenance(config, tag, upstream[<<config, tag>>]), body |-> upstream[<<config, tag>>]]
          /\ types = [body |-> upstream[<<config, tag>>], codegen |-> 0]
    BY <1>3 DEF SchemaInit
  <2>2. upstream[<<config, tag>>] \in Contents
    BY <1>1, <2>1
  <2>3. lock \in Lock /\ schema \in Copy /\ schema.body = types.body
    BY <1>1, <2>1, <2>2 DEF Lock, Copy, Headers, Provenance
  <2>4. types \in Generated /\ types # Absent
    BY <2>1, <2>2 DEF Generated
  <2>5. SchemaTypeOK
    BY <1>1, <2>3, <2>4, IdleTyped DEF SchemaTypeOK, SchemaInit, Outcomes
  <2>6. ToolKnows /\ FilesFollow
    BY <1>1 DEF ToolKnows, FilesFollow, At, Idle
  <2>7. TypesFollow
    BY <1>1, <2>3, <2>4 DEF TypesFollow, At, Idle
  <2> QED BY <2>5, <2>6, <2>7 DEF PinInv
<1> QED BY <1>2, <1>3

(* An idle tool knows nothing that could be wrong; what a run that ended   *)
(* says of the files has to be shown.                                      *)
LEMMA PinEnd ==
  ASSUME PinInv, NEW v, End(v), SchemaTypeOK',
         quiet' /\ v = "InSync" =>
           /\ lock' \in Lock /\ schema' \in Copy
           /\ schema'.body = lock'.sha /\ lock'.sha = upstream'[<<config', lock'.tag>>]
           /\ schema'.header = Provenance(config', lock'.tag, lock'.sha),
         quiet' /\ v = "updated" =>
           /\ lock' \in Lock /\ lock'.sha = upstream'[<<config', lock'.tag>>]
           /\ schema' = [header |-> Provenance(config', lock'.tag, lock'.sha), body |-> lock'.sha],
         ~mishap' => (schema' # Absent /\ schema'.body \in Contents =>
                        types' # Absent /\ types'.body = schema'.body)
  PROVE  PinInv'
<1>1. tool'.stage = "idle" /\ ended' = v
  BY DEF End, Idle
<1>2. ToolKnows' /\ FilesFollow' /\ TypesFollow'
  BY <1>1 DEF ToolKnows, FilesFollow, TypesFollow, At
<1> QED BY <1>2 DEF PinInv

LEMMA PinInvoke ==
  ASSUME PinInv, NEW argv \in Argvs, Invoke(argv)
  PROVE  PinInv'
<1> USE SchemaAssumption
<1>1. SchemaTypeOK /\ ToolKnows /\ FilesFollow /\ TypesFollow
  BY DEF PinInv
<1>2. CASE Malformed(argv)
  <2>1. End("failed") /\ UNCHANGED <<peopleVars, filesVars, mishap>> /\ runs' = runs + 1 /\ quiet' = TRUE
    BY <1>2 DEF Invoke
  <2>2. SchemaTypeOK'
    BY <1>1, <2>1, IdleTyped DEF SchemaTypeOK, Outcomes, End, peopleVars, filesVars
  <2>3. ~mishap' => (schema' # Absent /\ schema'.body \in Contents =>
                        types' # Absent /\ types'.body = schema'.body)
    BY <1>1, <2>1 DEF TypesFollow, filesVars
  <2> QED BY <2>1, <2>2, <2>3, PinEnd
<1>3. CASE ~Malformed(argv)
  <2> DEFINE c == ParseArgs(argv)
  <2>1. c.tag \in Tags \cup {Absent} /\ c.update \in BOOLEAN /\ (~c.update => c.tag = Absent)
    BY <1>3, ArgvsAssumption DEF ParseArgs, TagFlags
  <2>2. /\ tool' = [Idle EXCEPT !.stage = "reading", !.update = c.update, !.tag = c.tag]
        /\ ended' = "running" /\ UNCHANGED <<peopleVars, filesVars, mishap>>
        /\ runs' = runs + 1 /\ quiet' = TRUE
    BY <1>3 DEF Invoke
  <2> HIDE DEF c
  <2>3. tool' = [stage |-> "reading", update |-> c.update, tag |-> c.tag, source |-> Absent,
                 lock |-> Absent, current |-> Absent, body |-> Absent]
    BY <2>2 DEF Idle
  <2>4. SchemaTypeOK'
    <3>1. tool' \in Tool
      BY <2>1, <2>3 DEF Tool
    <3> QED BY <1>1, <2>1, <2>2, <2>3, <3>1 DEF SchemaTypeOK, Outcomes, peopleVars, filesVars
  <2>5. ToolKnows' /\ FilesFollow' /\ TypesFollow'
    BY <1>1, <2>1, <2>2, <2>3 DEF ToolKnows, FilesFollow, TypesFollow, At, peopleVars, filesVars
  <2> QED BY <2>4, <2>5 DEF PinInv
<1> QED BY <1>2, <1>3

LEMMA PinRead ==
  ASSUME PinInv, ReadInputs
  PROVE  PinInv'
<1> USE SchemaAssumption
<1>1. SchemaTypeOK /\ ToolKnows /\ FilesFollow /\ TypesFollow
  BY DEF PinInv
<1> DEFINE tag == IF tool.tag # Absent THEN tool.tag ELSE IF lock # Absent THEN lock.tag ELSE Absent
<1>2. At("reading") /\ UNCHANGED <<peopleVars, filesVars, runs, quiet, mishap>>
  BY DEF ReadInputs
<1>3. CASE tag = Absent
  <2>1. End("failed")
    BY <1>3 DEF ReadInputs
  <2>2. SchemaTypeOK'
    BY <1>1, <1>2, <2>1, IdleTyped DEF SchemaTypeOK, Outcomes, End, peopleVars, filesVars
  <2>3. ~mishap' => (schema' # Absent /\ schema'.body \in Contents =>
                        types' # Absent /\ types'.body = schema'.body)
    BY <1>1, <1>2 DEF TypesFollow, filesVars
  <2> QED BY <2>1, <2>2, <2>3, PinEnd
<1>4. CASE tag # Absent
  <2>1. tag \in Tags /\ (~tool.update => lock \in Lock /\ tag = lock.tag)
    BY <1>1, <1>2, <1>4 DEF SchemaTypeOK, Tool, ToolKnows, Lock, At
  <2>2. tool' = [tool EXCEPT !.stage = "fetching", !.tag = tag, !.source = config,
                             !.lock = lock, !.current = schema] /\ UNCHANGED ended
    BY <1>4 DEF ReadInputs
  <2> HIDE DEF tag
  <2>3. /\ tool'.stage = "fetching" /\ tool'.update = tool.update /\ tool'.tag = tag
        /\ tool'.source = config /\ tool'.lock = lock /\ tool'.current = schema
    BY <1>1, <2>2 DEF SchemaTypeOK, Tool
  <2>4. SchemaTypeOK'
    <3>1. tool' \in Tool
      BY <1>1, <1>2, <2>1, <2>2 DEF SchemaTypeOK, Tool
    <3> QED BY <1>1, <1>2, <2>1, <2>2, <3>1 DEF SchemaTypeOK, Outcomes, peopleVars, filesVars
  <2>5. ToolKnows'
    BY <1>1, <1>2, <2>1, <2>2, <2>3 DEF SchemaTypeOK, Tool, ToolKnows, At, peopleVars, filesVars
  <2>6. FilesFollow' /\ TypesFollow'
    BY <1>1, <1>2, <2>2, <2>3 DEF ToolKnows, FilesFollow, TypesFollow, At, peopleVars, filesVars
  <2> QED BY <2>4, <2>5, <2>6 DEF PinInv
<1> QED BY <1>3, <1>4

LEMMA PinFetch ==
  ASSUME PinInv, FetchSchema
  PROVE  PinInv'
<1> USE SchemaAssumption
<1>1. SchemaTypeOK /\ ToolKnows /\ FilesFollow /\ TypesFollow
  BY DEF PinInv
<1>2. At("fetching") /\ UNCHANGED <<peopleVars, filesVars, runs, quiet, mishap>>
  BY DEF FetchSchema
<1>3. ~mishap' => (schema' # Absent /\ schema'.body \in Contents =>
                      types' # Absent /\ types'.body = schema'.body)
  BY <1>1, <1>2 DEF TypesFollow, filesVars
<1>4. Fetched \in Contents \cup {Absent}
  BY <1>1, <1>2 DEF SchemaTypeOK, Tool, ToolKnows, Fetched, At
<1>5. CASE Fetched = Absent
  <2>1. End("failed")
    BY <1>5 DEF FetchSchema
  <2>2. SchemaTypeOK'
    BY <1>1, <1>2, <2>1, IdleTyped DEF SchemaTypeOK, Outcomes, End, peopleVars, filesVars
  <2> QED BY <1>3, <2>1, <2>2, PinEnd
<1>6. CASE Fetched # Absent /\ tool.update
  <2>1. tool' = [tool EXCEPT !.stage = "fetched", !.body = Fetched] /\ UNCHANGED ended
    BY <1>6 DEF FetchSchema
  <2>2. /\ tool'.stage = "fetched" /\ tool'.tag = tool.tag /\ tool'.source = tool.source
        /\ tool'.body = Fetched
    BY <1>1, <2>1 DEF SchemaTypeOK, Tool
  <2>3. SchemaTypeOK'
    <3>1. tool' \in Tool
      BY <1>1, <1>2, <1>4, <2>1 DEF SchemaTypeOK, Tool
    <3> QED BY <1>1, <1>2, <1>4, <2>1, <3>1 DEF SchemaTypeOK, Outcomes, peopleVars, filesVars
  <2>4. ToolKnows'
    BY <1>1, <1>2, <1>4, <1>6, <2>1, <2>2 DEF ToolKnows, At
  <2>5. FilesFollow' /\ TypesFollow'
    BY <1>1, <1>2, <2>1, <2>2 DEF ToolKnows, FilesFollow, TypesFollow, Fetched, At, peopleVars, filesVars
  <2> QED BY <2>3, <2>4, <2>5 DEF PinInv
<1>7. CASE Fetched # Absent /\ ~tool.update
  <2> DEFINE v == DecideVerify(tool.lock, Fetched, tool.current, tool.source)
  <2>1. End(v)
    BY <1>7 DEF FetchSchema
  <2>2. /\ v \in {"InSync", "LockMismatch", "Missing", "BodyDrift", "HeaderMismatch"}
        /\ v = "InSync" => /\ Fetched = tool.lock.sha /\ tool.current # Absent
                           /\ tool.current.body = tool.lock.sha
                           /\ tool.current.header = Provenance(tool.source, tool.lock.tag, tool.lock.sha)
    BY DEF DecideVerify, HeaderMatches
  <2> HIDE DEF v
  <2>3. SchemaTypeOK'
    BY <1>1, <1>2, <2>1, <2>2, IdleTyped DEF SchemaTypeOK, Outcomes, End, peopleVars, filesVars
  <2>4. quiet' /\ v = "InSync" =>
           /\ lock' \in Lock /\ schema' \in Copy
           /\ schema'.body = lock'.sha /\ lock'.sha = upstream'[<<config', lock'.tag>>]
           /\ schema'.header = Provenance(config', lock'.tag, lock'.sha)
    BY <1>1, <1>2, <1>7, <2>2 DEF SchemaTypeOK, ToolKnows, FilesFollow, Fetched, At, peopleVars, filesVars
  <2>5. v # "updated"
    BY <2>2
  <2> QED BY <1>3, <2>1, <2>3, <2>4, <2>5, PinEnd
<1> QED BY <1>5, <1>6, <1>7

LEMMA PinWriteLock ==
  ASSUME PinInv, WriteLock
  PROVE  PinInv'
<1> USE SchemaAssumption
<1>1. SchemaTypeOK /\ ToolKnows /\ FilesFollow /\ TypesFollow
  BY DEF PinInv
<1> DEFINE decided == DecideUpdate(tool.body, Provenance(tool.source, tool.tag, tool.body), schema)
<1>2. /\ At("fetched") /\ UNCHANGED <<peopleVars, schema, types, runs, quiet, mishap>>
      /\ lock' = [tag |-> tool.tag, sha |-> tool.body]
  BY DEF WriteLock
<1>3. tool.tag \in Tags /\ tool.source \in Sources /\ tool.body \in Contents
  BY <1>1, <1>2 DEF ToolKnows, At
<1>4. lock' \in Lock /\ lock'.tag = tool.tag /\ lock'.sha = tool.body
  BY <1>2, <1>3 DEF Lock
<1>5. /\ decided \in {"Rewrite", "Noop", "Retarget"}
      /\ decided # "Rewrite" => schema # Absent /\ schema.body = tool.body
      /\ decided = "Noop" => schema.header = Provenance(tool.source, tool.tag, tool.body)
  BY DEF DecideUpdate, HeaderMatches
<1>6. /\ decided = "Noop" => End("updated")
      /\ decided # "Noop" => tool' = [tool EXCEPT !.stage = decided, !.current = schema] /\ UNCHANGED ended
  BY DEF WriteLock
<1> HIDE DEF decided
<1>7. CASE decided = "Noop"
  <2>1. SchemaTypeOK'
    BY <1>1, <1>2, <1>4, <1>6, <1>7, IdleTyped DEF SchemaTypeOK, Outcomes, End, peopleVars
  <2>2. ~mishap' => (schema' # Absent /\ schema'.body \in Contents =>
                        types' # Absent /\ types'.body = schema'.body)
    BY <1>1, <1>2 DEF TypesFollow
  <2>3. schema \in Copy /\ schema = [header |-> schema.header, body |-> schema.body]
    BY <1>1, <1>5, <1>7 DEF SchemaTypeOK, Copy
  <2>4. quiet' => lock'.sha = upstream'[<<config', lock'.tag>>] /\ tool.source = config'
    BY <1>1, <1>2, <1>4 DEF FilesFollow, At, peopleVars
  <2>5. quiet' => schema' = [header |-> Provenance(config', lock'.tag, lock'.sha), body |-> lock'.sha]
    BY <1>2, <1>4, <1>5, <1>7, <2>3, <2>4
  <2> QED BY <1>4, <1>6, <1>7, <2>1, <2>2, <2>4, <2>5, PinEnd
<1>8. CASE decided # "Noop"
  <2>1. /\ tool'.stage = decided /\ tool'.tag = tool.tag /\ tool'.source = tool.source
        /\ tool'.body = tool.body /\ tool'.current = schema
    BY <1>1, <1>6, <1>8 DEF SchemaTypeOK, Tool
  <2>2. SchemaTypeOK'
    <3>1. tool' \in Tool
      BY <1>1, <1>2, <1>4, <1>5, <1>6, <1>8 DEF SchemaTypeOK, Tool
    <3> QED BY <1>1, <1>2, <1>4, <1>5, <1>6, <1>8, <3>1 DEF SchemaTypeOK, Outcomes, peopleVars
  <2>3. ToolKnows'
    BY <1>1, <1>2, <1>3, <1>5, <1>6, <1>8, <2>1 DEF SchemaTypeOK, Tool, ToolKnows, At
  <2>4. FilesFollow'
    BY <1>1, <1>2, <1>5, <1>6, <1>8, <2>1 DEF ToolKnows, FilesFollow, At, peopleVars
  <2>5. TypesFollow'
    BY <1>1, <1>2, <1>3, <1>5, <1>8, <2>1 DEF TypesFollow, At
  <2> QED BY <2>2, <2>3, <2>4, <2>5 DEF PinInv
<1> QED BY <1>7, <1>8

LEMMA PinRetarget ==
  ASSUME PinInv, Retarget
  PROVE  PinInv'
<1> USE SchemaAssumption
<1>1. SchemaTypeOK /\ ToolKnows /\ FilesFollow /\ TypesFollow
  BY DEF PinInv
<1>2. /\ At("Retarget") /\ End("updated")
      /\ schema' = [header |-> Provenance(tool.source, tool.tag, tool.body), body |-> tool.current.body]
      /\ UNCHANGED <<peopleVars, lock, types, runs, quiet, mishap>>
  BY DEF Retarget, Stamped
<1>3. /\ tool.tag \in Tags /\ tool.source \in Sources /\ tool.body \in Contents
      /\ tool.current.body = tool.body
  BY <1>1, <1>2 DEF ToolKnows, At
<1>4. schema' \in Copy /\ schema'.body = tool.body
  BY <1>2, <1>3 DEF Copy, Headers, Provenance
<1>5. SchemaTypeOK'
  BY <1>1, <1>2, <1>4, IdleTyped DEF SchemaTypeOK, Outcomes, End, peopleVars
<1>6. quiet' => /\ lock' = [tag |-> tool.tag, sha |-> tool.body] /\ lock' \in Lock
                /\ tool.body = upstream'[<<config', tool.tag>>] /\ tool.source = config'
  BY <1>1, <1>2, <1>3 DEF FilesFollow, At, Lock, peopleVars
<1>7. quiet' => /\ lock'.sha = upstream'[<<config', lock'.tag>>]
                /\ schema' = [header |-> Provenance(config', lock'.tag, lock'.sha), body |-> lock'.sha]
  BY <1>2, <1>3, <1>6
<1>8. ~mishap' => types' # Absent /\ types'.body = schema'.body
  BY <1>1, <1>2, <1>4 DEF TypesFollow, At
<1> QED BY <1>2, <1>5, <1>6, <1>7, <1>8, PinEnd

LEMMA PinRewrite ==
  ASSUME PinInv, Rewrite
  PROVE  PinInv'
<1> USE SchemaAssumption
<1>1. SchemaTypeOK /\ ToolKnows /\ FilesFollow /\ TypesFollow
  BY DEF PinInv
<1>2. /\ At("Rewrite") /\ mishap' = TRUE
      /\ tool' = [tool EXCEPT !.stage = "cleaning"] /\ UNCHANGED ended
      /\ schema' = [header |-> Provenance(tool.source, tool.tag, tool.body), body |-> tool.body]
      /\ UNCHANGED <<peopleVars, lock, types, runs, quiet>>
  BY DEF Rewrite, Stamped, Goto
<1>3. tool.tag \in Tags /\ tool.source \in Sources /\ tool.body \in Contents
  BY <1>1, <1>2 DEF ToolKnows, At
<1>4. schema' \in Copy
  BY <1>2, <1>3 DEF Copy, Headers, Provenance
<1>5. /\ tool'.stage = "cleaning" /\ tool'.tag = tool.tag /\ tool'.source = tool.source
      /\ tool'.body = tool.body
  BY <1>1, <1>2 DEF SchemaTypeOK, Tool
<1>6. SchemaTypeOK'
  <2>1. tool' \in Tool
    BY <1>1, <1>2, <1>4 DEF SchemaTypeOK, Tool
  <2> QED BY <1>1, <1>2, <1>4, <2>1 DEF SchemaTypeOK, Outcomes, peopleVars
<1>7. ToolKnows' /\ TypesFollow'
  BY <1>1, <1>2, <1>3, <1>5 DEF ToolKnows, TypesFollow, At
<1>8. FilesFollow'
  BY <1>1, <1>2, <1>5 DEF ToolKnows, FilesFollow, At, peopleVars
<1> QED BY <1>6, <1>7, <1>8 DEF PinInv

LEMMA PinRemove ==
  ASSUME PinInv, RemoveTypes
  PROVE  PinInv'
<1>1. SchemaTypeOK /\ ToolKnows /\ FilesFollow /\ TypesFollow
  BY DEF PinInv
<1>2. /\ At("cleaning") /\ types' = Absent
      /\ tool' = [tool EXCEPT !.stage = "generating"] /\ UNCHANGED ended
      /\ UNCHANGED <<peopleVars, lock, schema, runs, quiet, mishap>>
  BY DEF RemoveTypes, Goto
<1>3. /\ tool'.stage = "generating" /\ tool'.tag = tool.tag /\ tool'.source = tool.source
      /\ tool'.body = tool.body
  BY <1>1, <1>2 DEF SchemaTypeOK, Tool
<1>4. SchemaTypeOK'
  <2>1. tool' \in Tool
    BY <1>1, <1>2 DEF SchemaTypeOK, Tool
  <2> QED BY <1>1, <1>2, <2>1 DEF SchemaTypeOK, Outcomes, peopleVars
<1>5. ToolKnows' /\ TypesFollow'
  BY <1>1, <1>2, <1>3 DEF ToolKnows, TypesFollow, At
<1>6. FilesFollow'
  BY <1>1, <1>2, <1>3 DEF ToolKnows, FilesFollow, At, peopleVars
<1> QED BY <1>4, <1>5, <1>6 DEF PinInv

LEMMA PinRegenerate ==
  ASSUME PinInv, RegenerateTypes
  PROVE  PinInv'
<1> USE SchemaAssumption
<1>1. SchemaTypeOK /\ ToolKnows /\ FilesFollow /\ TypesFollow
  BY DEF PinInv
<1>2. /\ At("generating") /\ schema # Absent /\ End("updated") /\ mishap' = FALSE
      /\ types' = [body |-> schema.body, codegen |-> codegen]
      /\ UNCHANGED <<peopleVars, lock, schema, runs, quiet>>
  BY DEF RegenerateTypes
<1>3. types' \in Generated /\ types' # Absent /\ types'.body = schema.body
  BY <1>1, <1>2 DEF SchemaTypeOK, Copy, Generated
<1>4. SchemaTypeOK'
  BY <1>1, <1>2, <1>3, IdleTyped DEF SchemaTypeOK, Outcomes, End, peopleVars
<1>5. tool.tag \in Tags /\ tool.body \in Contents
  BY <1>1, <1>2 DEF ToolKnows, At
<1>6. quiet' => /\ lock' = [tag |-> tool.tag, sha |-> tool.body] /\ lock' \in Lock
                /\ tool.body = upstream'[<<config', tool.tag>>] /\ tool.source = config'
                /\ schema' = [header |-> Provenance(tool.source, tool.tag, tool.body), body |-> tool.body]
  BY <1>1, <1>2, <1>5 DEF FilesFollow, At, Lock, peopleVars
<1>7. quiet' => /\ lock'.sha = upstream'[<<config', lock'.tag>>]
                /\ schema' = [header |-> Provenance(config', lock'.tag, lock'.sha), body |-> lock'.sha]
  BY <1>6
<1> QED BY <1>2, <1>3, <1>4, <1>6, <1>7, PinEnd

LEMMA PinFail ==
  ASSUME PinInv, Fail
  PROVE  PinInv'
<1>1. SchemaTypeOK /\ ToolKnows /\ FilesFollow /\ TypesFollow
  BY DEF PinInv
<1>2. End("failed") /\ UNCHANGED <<peopleVars, filesVars, runs, quiet, mishap>>
  BY DEF Fail
<1>3. SchemaTypeOK'
  BY <1>1, <1>2, IdleTyped DEF SchemaTypeOK, Outcomes, End, peopleVars, filesVars
<1>4. ~mishap' => (schema' # Absent /\ schema'.body \in Contents =>
                      types' # Absent /\ types'.body = schema'.body)
  BY <1>1, <1>2 DEF TypesFollow, filesVars
<1> QED BY <1>2, <1>3, <1>4, PinEnd

(* What people do ends the quiet, and so all that was said of the files    *)
(* but which types belong to a copy.                                       *)
LEMMA PinEdit ==
  ASSUME PinInv, Edit, lock' = lock, types' = types, SchemaTypeOK',
         \/ UNCHANGED <<schema, mishap>>
         \/ /\ ~mishap' => ~mishap
            /\ ~mishap' => ~(schema' # Absent /\ schema'.body \in Contents)
  PROVE  PinInv'
<1>1. SchemaTypeOK /\ ToolKnows /\ FilesFollow /\ TypesFollow
  BY DEF PinInv
<1>2. UNCHANGED <<tool, ended>> /\ quiet' = FALSE
  BY DEF Edit
<1>3. ToolKnows' /\ FilesFollow'
  BY <1>1, <1>2 DEF ToolKnows, FilesFollow, At
<1>4. TypesFollow'
  BY <1>1, <1>2 DEF TypesFollow, At, SchemaTypeOK
<1> QED BY <1>3, <1>4 DEF PinInv

LEMMA PinPeople ==
  ASSUME PinInv,
         \/ \E s \in Sources, tag \in Tags, c \in Contents : MoveTag(s, tag, c)
         \/ \E s \in Sources : EditConfig(s)
         \/ EditCodegen
         \/ \E s \in Copies : EditSchema(s)
  PROVE  PinInv'
<1> USE SchemaAssumption
<1>1. SchemaTypeOK /\ ToolKnows /\ FilesFollow /\ TypesFollow
  BY DEF PinInv
<1>e. ASSUME Edit
      PROVE  /\ tool' = tool /\ ended' = ended /\ runs' = runs
             /\ edits' \in Nat /\ quiet' \in BOOLEAN
  <2>1. edits \in Nat /\ edits + 1 \in Nat /\ FALSE \in BOOLEAN
    BY <1>1 DEF SchemaTypeOK
  <2>2. edits' = edits + 1 /\ quiet' = FALSE /\ UNCHANGED <<tool, ended, runs>>
    BY <1>e DEF Edit
  <2> QED BY <2>1, <2>2
<1>2. ASSUME NEW s \in Sources, NEW tag \in Tags, NEW c \in Contents, MoveTag(s, tag, c)
      PROVE  PinInv'
  <2>1. SchemaTypeOK'
    <3>1. upstream' \in [Sources \X Tags -> Contents \cup {Absent}]
      BY <1>1, <1>2 DEF SchemaTypeOK, MoveTag
    <3>2. Edit /\ UNCHANGED <<config, codegen, filesVars, mishap>>
      BY <1>2 DEF MoveTag
    <3> QED BY <1>1, <1>e, <3>1, <3>2 DEF SchemaTypeOK, filesVars
  <2> QED BY <1>2, <2>1, PinEdit DEF MoveTag, filesVars
<1>3. ASSUME NEW s \in Sources, EditConfig(s)
      PROVE  PinInv'
  <2>1. SchemaTypeOK'
    BY <1>1, <1>e, <1>3 DEF SchemaTypeOK, EditConfig, filesVars
  <2> QED BY <1>3, <2>1, PinEdit DEF EditConfig, filesVars
<1>4. CASE EditCodegen
  <2>1. SchemaTypeOK'
    BY <1>1, <1>e, <1>4 DEF SchemaTypeOK, EditCodegen, filesVars
  <2> QED BY <1>4, <2>1, PinEdit DEF EditCodegen, filesVars
<1>5. ASSUME NEW s \in Copies, EditSchema(s)
      PROVE  PinInv'
  <2>1. s \in Copy \cup {Absent}
    BY <1>1 DEF SchemaTypeOK, Copies, Copy
  <2>2. SchemaTypeOK'
    <3>1. mishap' \in BOOLEAN
      BY <1>1, <1>5 DEF SchemaTypeOK, EditSchema
    <3>2. Edit /\ schema' = s /\ UNCHANGED <<upstream, config, codegen, lock, types>>
      BY <1>5 DEF EditSchema
    <3> QED BY <1>1, <1>e, <2>1, <3>1, <3>2 DEF SchemaTypeOK
  <2>3. /\ ~mishap' => ~mishap
        /\ ~mishap' => ~(schema' # Absent /\ schema'.body \in Contents)
    BY <1>1, <1>5 DEF EditSchema, SchemaTypeOK
  <2> QED BY <1>5, <2>2, <2>3, PinEdit DEF EditSchema
<1> QED BY <1>2, <1>3, <1>4, <1>5

LEMMA PinStep == PinInv /\ [SchemaNext]_schemaVars => PinInv'
<1> SUFFICES ASSUME PinInv, [SchemaNext]_schemaVars PROVE PinInv'
  OBVIOUS
<1>1. CASE UNCHANGED schemaVars
  BY <1>1 DEF PinInv, SchemaTypeOK, ToolKnows, FilesFollow, TypesFollow, At,
              schemaVars, peopleVars, filesVars
<1>2. CASE SchemaNext
  BY <1>2, PinInvoke, PinRead, PinFetch, PinWriteLock, PinRetarget, PinRewrite, PinRemove,
     PinRegenerate, PinFail, PinPeople DEF SchemaNext
<1> QED BY <1>1, <1>2

LEMMA PinGoal == PinInv => PinsHold
<1> SUFFICES ASSUME PinInv PROVE PinsHold
  OBVIOUS
<1> USE SchemaAssumption
<1>1. SchemaTypeOK /\ FilesFollow /\ TypesFollow
  BY DEF PinInv
<1>2. UpdateRepairs
  <2> SUFFICES ASSUME ended = "updated", quiet
               PROVE  DecideVerify(lock, upstream[<<config, lock.tag>>], schema, config) = "InSync"
    BY DEF UpdateRepairs
  <2>1. /\ lock \in Lock /\ lock.sha = upstream[<<config, lock.tag>>]
        /\ schema = [header |-> Provenance(config, lock.tag, lock.sha), body |-> lock.sha]
    BY <1>1 DEF FilesFollow
  <2>2. schema \in Copy /\ schema.header \in Headers /\ schema.body = lock.sha
        /\ schema.header = Provenance(config, lock.tag, lock.sha)
    BY <1>1, <2>1 DEF SchemaTypeOK, Copy, Headers, Lock, Provenance
  <2> QED BY <2>1, <2>2 DEF DecideVerify, HeaderMatches
<1>3. VerifiedIsPinned
  BY <1>1 DEF VerifiedIsPinned, FilesFollow, Provenance
<1>4. VerifiedTypes
  BY <1>1 DEF VerifiedTypes, FilesFollow, TypesFollow, Lock
<1> QED BY <1>2, <1>3, <1>4 DEF PinsHold

(* An undisturbed --update leaves what --verify accepts, and a copy that   *)
(* passes --verify is that of the pinned release and has the types         *)
(* generated from it, whatever died or was edited before, short of the     *)
(* named mishaps (runVerify, runUpdate).                                   *)
THEOREM PinsAgree == SchemaSpec => []PinsHold
<1>1. SchemaSpec => []PinInv
  BY PinInit, PinStep, PTL DEF SchemaSpec
<1> QED BY <1>1, PinGoal, PTL
=============================================================================
