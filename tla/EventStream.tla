----------------------------- MODULE EventStream -----------------------------
(***************************************************************************)
(* One event stream of the Docker client (docker/client.go): the goroutine *)
(* that Events starts forwards what the Moby client's two channels carry   *)
(* to two channels of its own, until an error, an end or a cancellation;   *)
(* Close waits for it.                                                     *)
(*                                                                         *)
(* Messages are numbered in the order in which Docker sends them.  The     *)
(* reader may stop reading at any time, so that the forwarder blocks.      *)
(***************************************************************************)
EXTENDS Naturals, Sequences

CONSTANTS
  MaxPending,   \* how many messages the source's channel may hold
  MaxMessages   \* bound: messages Docker sends

ASSUME EventStreamAssumption == {MaxPending, MaxMessages} \subseteq Nat \ {0}

VARIABLES
  pc,           \* where the forwarder is
  messages, messagesClosed, sourceErr,  \* source.Messages and source.Err:
                \*   sourceErr is "open", "error" (one waits) or "closed"
  hand,         \* the message the forwarder has taken and not yet passed on
  mappedEvents, mappedErrors,   \* the forwarder's channels
  ctxDone,
  closing,      \* Client.Close: "no", "waiting", "returned"
  sent,         \* history: how many messages Docker has sent
  read,         \* history: what the reader has read of mappedEvents
  reason        \* history: "none", "given" by the source, "told" to the reader

source == <<messages, messagesClosed, sourceErr>>
vars == <<pc, source, hand, mappedEvents, mappedErrors, ctxDone, closing, sent, read, reason>>

Cap == 1        \* make(chan ..., 1), twice

Init ==
  /\ pc = "top"
  /\ messages = <<>> /\ messagesClosed = FALSE /\ sourceErr = "open"
  /\ hand = <<>> /\ mappedEvents = <<>> /\ mappedErrors = 0
  /\ ctxDone = FALSE /\ closing = "no"
  /\ sent = 0 /\ read = <<>> /\ reason = "none"

-----------------------------------------------------------------------------
(***************************************************************************)
(* The forwarder.                                                          *)
(***************************************************************************)
outside == UNCHANGED <<ctxDone, closing, sent, read>>

\* The first select of an iteration.
Top ==
  /\ pc = "top" /\ pc' = IF ctxDone THEN "closeErrors" ELSE "poll"
  /\ UNCHANGED <<source, hand, mappedEvents, mappedErrors, reason>> /\ outside

\* What sourceErrorReady finds decides where to go on; ready and nil is an end.
sourceErrorReady(otherwise) ==
  /\ pc' = CASE sourceErr = "error"  -> "sendError"
             [] sourceErr = "closed" -> "closeErrors"
             [] OTHER -> otherwise
  /\ sourceErr' = IF sourceErr = "error" THEN "closed" ELSE sourceErr
  /\ UNCHANGED <<messages, messagesClosed, hand, mappedEvents, mappedErrors, reason>>
  /\ outside

Poll == pc = "poll" /\ sourceErrorReady("select")

SelectContext ==
  /\ pc = "select" /\ ctxDone /\ pc' = "closeErrors"
  /\ UNCHANGED <<source, hand, mappedEvents, mappedErrors, reason>> /\ outside

SelectMessage ==
  /\ pc = "select" /\ messages # <<>> /\ pc' = "sendEvent"
  /\ hand' = <<Head(messages)>> /\ messages' = Tail(messages)
  /\ UNCHANGED <<messagesClosed, sourceErr, mappedEvents, mappedErrors, reason>> /\ outside

SelectMessagesClosedSilently ==
  /\ pc = "select" /\ messages = <<>> /\ messagesClosed
  /\ pc' = "closeErrors"
  /\ UNCHANGED <<source, hand, mappedEvents, mappedErrors, reason>> /\ outside

SelectMessagesClosed ==
  /\ pc = "select" /\ messages = <<>> /\ messagesClosed
  /\ sourceErrorReady("closeErrors")

SelectError == pc = "select" /\ sourceErr # "open" /\ sourceErrorReady("select")

SendEventDroppingWhenFull ==
  /\ pc = "sendEvent" /\ hand' = <<>> /\ pc' = "top"
  /\ mappedEvents' = IF Len(mappedEvents) < Cap THEN mappedEvents \o hand
                                                ELSE mappedEvents
  /\ UNCHANGED <<source, mappedErrors, reason>> /\ outside

\* mappedEvents <- mapEvent(event), unless the context ends first.
SendEvent ==
  /\ pc = "sendEvent" /\ hand' = <<>> /\ pc' = "top"
  /\ Len(mappedEvents) < Cap /\ mappedEvents' = mappedEvents \o hand
  /\ UNCHANGED <<source, mappedErrors, reason>> /\ outside

AbandonEventNever == FALSE /\ UNCHANGED vars

AbandonEvent ==
  /\ pc = "sendEvent" /\ ctxDone /\ pc' = "closeErrors"
  /\ hand' = <<>>
  /\ UNCHANGED <<source, mappedEvents, mappedErrors, reason>> /\ outside

\* forwardError.
SendError ==
  /\ pc = "sendError" /\ pc' = "closeErrors"
  /\ \/ /\ mappedErrors < Cap /\ mappedErrors' = mappedErrors + 1 /\ reason' = "told"
     \/ ctxDone /\ UNCHANGED <<mappedErrors, reason>>
  /\ UNCHANGED <<source, hand, mappedEvents>> /\ outside

CloseEventsFirst ==
  /\ pc = "closeErrors" /\ pc' = "ended"
  /\ UNCHANGED <<source, hand, mappedEvents, mappedErrors, reason>> /\ outside

\* The deferred closes run last to first.
CloseErrors ==
  /\ pc = "closeErrors" /\ pc' = "closeEvents"
  /\ UNCHANGED <<source, hand, mappedEvents, mappedErrors, reason>> /\ outside

CloseEvents ==
  /\ pc = "closeEvents" /\ pc' = "ended"
  /\ UNCHANGED <<source, hand, mappedEvents, mappedErrors, reason>> /\ outside

Forwarder == \/ Top \/ Poll \/ SelectContext \/ SelectMessage \/ SelectMessagesClosed
             \/ SelectError \/ SendEvent \/ AbandonEvent \/ SendError
             \/ CloseErrors \/ CloseEvents

-----------------------------------------------------------------------------
(***************************************************************************)
(* The Moby client.  It gives its error before it closes a channel, and    *)
(* sends nothing after that.                                               *)
(***************************************************************************)
inside == UNCHANGED <<pc, hand, mappedEvents, mappedErrors, ctxDone, closing, read>>

SourceSends ==
  /\ sourceErr = "open" /\ ~messagesClosed
  /\ Len(messages) < MaxPending /\ sent < MaxMessages
  /\ sent' = sent + 1 /\ messages' = Append(messages, sent')
  /\ UNCHANGED <<messagesClosed, sourceErr, reason>> /\ inside

\* Its error; a cancelled context ends it without one that matters.
SourceFails ==
  /\ sourceErr = "open" /\ ~messagesClosed /\ reason = "none"
  /\ sourceErr' = "error" /\ reason' = "given"
  /\ UNCHANGED <<messages, messagesClosed, sent>> /\ inside

SourceClosesErr ==
  /\ sourceErr = "open" /\ sourceErr' = "closed"
  /\ UNCHANGED <<messages, messagesClosed, sent, reason>> /\ inside

SourceClosesMessages ==
  /\ ~messagesClosed /\ messagesClosed' = TRUE
  /\ UNCHANGED <<messages, sourceErr, sent, reason>> /\ inside

(***************************************************************************)
(* The reader: the event loop, which cancels the stream before Close.      *)
(***************************************************************************)
ReadEvent ==
  /\ mappedEvents # <<>>
  /\ read' = Append(read, Head(mappedEvents)) /\ mappedEvents' = Tail(mappedEvents)
  /\ UNCHANGED <<pc, source, hand, mappedErrors, ctxDone, closing, sent, reason>>

ReadError ==
  /\ mappedErrors > 0 /\ mappedErrors' = mappedErrors - 1
  /\ UNCHANGED <<pc, source, hand, mappedEvents, ctxDone, closing, sent, read, reason>>

CancelStream ==
  /\ ~ctxDone /\ ctxDone' = TRUE
  /\ UNCHANGED <<pc, source, hand, mappedEvents, mappedErrors, closing, sent, read, reason>>

Close ==
  /\ closing = "no" /\ ctxDone /\ closing' = "waiting"
  /\ UNCHANGED <<pc, source, hand, mappedEvents, mappedErrors, ctxDone, sent, read, reason>>

\* c.streams.Wait()
CloseReturns ==
  /\ closing = "waiting" /\ pc = "ended" /\ closing' = "returned"
  /\ UNCHANGED <<pc, source, hand, mappedEvents, mappedErrors, ctxDone, sent, read, reason>>

Over == pc = "ended" /\ UNCHANGED vars

Next == \/ Forwarder
        \/ SourceSends \/ SourceFails \/ SourceClosesErr \/ SourceClosesMessages
        \/ ReadEvent \/ ReadError \/ CancelStream \/ Close \/ CloseReturns \/ Over

Spec == Init /\ [][Next]_vars

\* The forwarder and Close run; nobody has to send, to read or to cancel.
FairSpec == Spec /\ WF_vars(Forwarder) /\ WF_vars(CloseReturns)

-----------------------------------------------------------------------------
PC == {"top", "poll", "select", "sendEvent", "sendError", "closeErrors", "closeEvents",
       "ended"}

\* Types, with the capacities of the channels.
TypeOK ==
  /\ pc \in PC
  /\ messages \in Seq(Nat) /\ Len(messages) <= MaxPending /\ messagesClosed \in BOOLEAN
  /\ sourceErr \in {"open", "error", "closed"}
  /\ hand \in Seq(Nat) /\ (hand # <<>> <=> pc = "sendEvent")
  /\ mappedEvents \in Seq(Nat) /\ Len(mappedEvents) <= Cap /\ mappedErrors \in 0..Cap
  /\ ctxDone \in BOOLEAN /\ closing \in {"no", "waiting", "returned"}
  /\ sent \in 0..MaxMessages /\ read \in Seq(Nat)
  /\ reason \in {"none", "given", "told"}

(***************************************************************************)
(* What the reader has read and what waits for it are Docker's messages in *)
(* their order, none twice and none left out; while the forwarder runs,    *)
(* the one in its hand and the ones still to be taken complete them.       *)
(***************************************************************************)
EventsInOrder ==
  LET passed == read \o mappedEvents
      Sent   == [i \in 1..sent |-> i]
  IN  IF pc \in {"top", "poll", "select", "sendEvent"}
      THEN passed \o hand \o messages = Sent
      ELSE passed = SubSeq(Sent, 1, Len(passed))

(***************************************************************************)
(* When a stream ends that nobody has cancelled, the error that Docker     *)
(* gave for it has been told to the reader: the loop logs and records it   *)
(* and not a mere "stream closed".                                         *)
(***************************************************************************)
ErrorToldUnlessCancelled ==
  pc \in {"closeErrors", "closeEvents", "ended"} /\ ~ctxDone => reason # "given"

\* How far the end of the forwarder's stream can be seen by its reader, and
\* the forwarder's channels as the stream the event loop counts on.
Ended == CASE pc = "closeErrors" -> "failing"
           [] pc = "closeEvents" -> "errorsClosed"
           [] pc = "ended" -> "closed"
           [] OTHER -> "no"

ErrorWaits == mappedErrors > 0

Seen == [open |-> TRUE, events |-> Len(mappedEvents), error |-> ErrorWaits, ended |-> Ended]

Contract == INSTANCE StreamContract WITH MaxBuffered <- Cap, stream <- Seen

(***************************************************************************)
(* The forwarder keeps the contract of a stream: no event after the        *)
(* failure, one error at most, and the error channel closed first, so that *)
(* a loop that finds the event channel closed finds the error too.         *)
(***************************************************************************)
ImplementsContract == Contract!Spec

(***************************************************************************)
(* Close returns, even if nobody reads any more: a forwarder that is       *)
(* blocked on either of its channels sees the cancellation.                *)
(***************************************************************************)
CloseEnds == closing = "waiting" ~> closing = "returned"
=============================================================================
