--------------------------- MODULE StreamContract ---------------------------
(***************************************************************************)
(* An event stream as its reader, the event loop, sees it: two channels    *)
(* that carry events and at most one error.  It may fail at any time, with *)
(* or without an error to read; then the error channel closes, and after   *)
(* it the event channel.  Nothing is delivered after the failure.          *)
(*                                                                         *)
(* Loop takes its stream from here; EventStream, the forwarder goroutine   *)
(* of the Docker client, is shown to implement it.                         *)
(***************************************************************************)
EXTENDS Naturals

CONSTANT MaxBuffered   \* how many events may wait to be read

VARIABLE stream

\* NoStream stands for the two nil channels of a loop without a stream.
NoStream  == [open |-> FALSE, events |-> 0, error |-> FALSE, ended |-> "no"]
NewStream == [NoStream EXCEPT !.open = TRUE]
Stream == [open : BOOLEAN, events : 0..MaxBuffered, error : BOOLEAN,
           ended : {"no", "failing", "errorsClosed", "closed"}]

Live == stream.open /\ stream.ended = "no"

Deliver ==
  /\ Live /\ stream.events < MaxBuffered
  /\ stream' = [stream EXCEPT !.events = @ + 1]

Fail ==
  /\ Live
  /\ \E err \in BOOLEAN : stream' = [stream EXCEPT !.error = err, !.ended = "failing"]

Close ==
  /\ stream.ended \in {"failing", "errorsClosed"}
  /\ stream' = [stream EXCEPT !.ended = IF @ = "failing" THEN "errorsClosed"
                                                         ELSE "closed"]

Read ==
  /\ stream.events > 0
  /\ stream' = [stream EXCEPT !.events = @ - 1]

ReadError ==
  /\ stream.error
  /\ stream' = [stream EXCEPT !.error = FALSE]

Init == stream = NewStream
Next == Deliver \/ Fail \/ Close \/ Read \/ ReadError
Spec == Init /\ [][Next]_stream
=============================================================================
