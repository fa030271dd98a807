---------------------------- MODULE OrderedFeed ----------------------------
(***************************************************************************)
(* What a subscription to the indexer promises its consumer: the published *)
(* events after the cursor `From`, each once, in order and without a gap,  *)
(* and an end of stream only when the indexer has ended the feed and every *)
(* event of it was delivered.  Backpressure implements this.               *)
(***************************************************************************)
EXTENDS Naturals, Sequences

CONSTANTS
  From,          \* watermark: events up to this key count as already seen
  MaxPublished   \* bound: keys the indexer publishes

VARIABLES
  published,     \* greatest key the indexer has published
  closed,        \* the indexer has ended the feed
  delivered,     \* the keys handed to the consumer, in order
  outcome        \* "open", or how the stream ended

vars == <<published, closed, delivered, outcome>>

Outcomes == {"open", "completed", "failed", "cancelled"}

\* Greatest key the consumer has seen, or counts as seen.
Watermark == From + Len(delivered)

Init ==
  /\ published \in From..MaxPublished
  /\ closed = FALSE
  /\ delivered = <<>>
  /\ outcome = "open"

Publish ==
  /\ ~closed
  /\ published < MaxPublished
  /\ published' = published + 1
  /\ UNCHANGED <<closed, delivered, outcome>>

Close ==
  /\ ~closed
  /\ closed' = TRUE
  /\ UNCHANGED <<published, delivered, outcome>>

Deliver ==
  /\ outcome = "open"
  /\ Watermark < published
  /\ delivered' = Append(delivered, Watermark + 1)
  /\ UNCHANGED <<published, closed, outcome>>

Complete ==
  /\ outcome = "open"
  /\ closed
  /\ Watermark = published
  /\ outcome' = "completed"
  /\ UNCHANGED <<published, closed, delivered>>

\* Failure of the subscription, or cancellation by the consumer.
Abort ==
  /\ outcome = "open"
  /\ outcome' \in {"failed", "cancelled"}
  /\ UNCHANGED <<published, closed, delivered>>

Next == Publish \/ Close \/ Deliver \/ Complete \/ Abort

Spec == Init /\ [][Next]_vars
=============================================================================
