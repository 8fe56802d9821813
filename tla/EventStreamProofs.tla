-------------------------- MODULE EventStreamProofs --------------------------
(***************************************************************************)
(* Proofs about EventStream, for channels and numbers of messages of any   *)
(* size: the forwarder implements the stream that the event loop reads,    *)
(* and it does not swallow an error.                                       *)
(***************************************************************************)
EXTENDS EventStream, SequenceTheorems, TLAPS

Closing == {"closeErrors", "closeEvents", "ended"}

\* The forwarder holds one message at a time.
HandInv == Len(hand) = IF pc = "sendEvent" THEN 1 ELSE 0

\* The source's error is in its channel or in the forwarder's hands until the
\* reader is told or the stream cancelled; a stream that ends of its own
\* accord ends because the source has, so that no error can come later.
ReasonInv ==
  /\ reason = "given" => sourceErr = "error" \/ pc = "sendError" \/ ctxDone
  /\ pc = "sendError" => sourceErr = "closed"
  /\ pc \in Closing /\ ~ctxDone => reason # "given" /\ (sourceErr = "closed" \/ messagesClosed)

IInv == TypeOK /\ HandInv /\ ReasonInv

-----------------------------------------------------------------------------
\* A stream that was just opened.
LEMMA InitEstablishes == Init => IInv
<1> SUFFICES ASSUME Init PROVE IInv
  OBVIOUS
<1>1. <<>> \in Seq(Nat) /\ Len(<<>>) = 0 /\ MaxPending \in Nat /\ MaxMessages \in Nat
  BY EventStreamAssumption
<1>2. TypeOK
  <2>1. /\ messages \in Seq(Nat) /\ Len(messages) <= MaxPending
        /\ mappedEvents \in Seq(Nat) /\ Len(mappedEvents) <= Cap
        /\ hand \in Seq(Nat) /\ read \in Seq(Nat)
    BY <1>1 DEF Init, Cap
  <2>2. hand # <<>> <=> pc = "sendEvent"
    BY DEF Init
  <2>3. /\ pc \in PC /\ messagesClosed \in BOOLEAN /\ ctxDone \in BOOLEAN
        /\ sourceErr \in {"open", "error", "closed"} /\ reason \in {"none", "given", "told"}
        /\ closing \in {"no", "waiting", "returned"}
    BY DEF Init, PC
  <2>4. mappedErrors \in 0..Cap /\ sent \in 0..MaxMessages
    BY <1>1 DEF Init, Cap
  <2> QED
    BY <2>1, <2>2, <2>3, <2>4 DEF TypeOK
<1>3. HandInv
  BY <1>1 DEF Init, HandInv
<1>4. ReasonInv
  BY DEF Init, ReasonInv, Closing
<1> QED
  BY <1>2, <1>3, <1>4 DEF IInv

\* No step puts more into a channel than it holds.
LEMMA TypeStep == TypeOK /\ HandInv /\ [Next]_vars => TypeOK' /\ HandInv'
<1> SUFFICES ASSUME TypeOK, HandInv, [Next]_vars PROVE TypeOK' /\ HandInv'
  OBVIOUS
<1> USE EventStreamAssumption DEF TypeOK, HandInv, PC, Cap
<1> USE DEF outside, inside, source
<1>1. CASE Top
  BY <1>1 DEF Top
<1>2. CASE Poll \/ SelectMessagesClosed \/ SelectError
  BY <1>2 DEF Poll, SelectMessagesClosed, SelectError, sourceErrorReady
<1>3. CASE SelectContext
  BY <1>3 DEF SelectContext
<1>4. CASE SelectMessage
  <2>1. Head(messages) \in Nat /\ Tail(messages) \in Seq(Nat)
        /\ Len(Tail(messages)) <= MaxPending
    BY <1>4 DEF SelectMessage
  <2>2. hand' \in Seq(Nat) /\ Len(hand') = 1 /\ hand' # <<>>
    BY <1>4, <2>1 DEF SelectMessage
  <2> QED
    BY <1>4, <2>1, <2>2 DEF SelectMessage
<1>5. CASE SendEvent
  <2>1. Len(hand) = 1 /\ Len(mappedEvents) = 0
    BY <1>5 DEF SendEvent
  <2>2. (mappedEvents \o hand) \in Seq(Nat) /\ Len(mappedEvents \o hand) = 1
    BY <2>1
  <2>3. hand' = <<>> /\ <<>> \in Seq(Nat) /\ Len(<<>>) = 0
    BY <1>5 DEF SendEvent
  <2> QED
    BY <1>5, <2>2, <2>3 DEF SendEvent
<1>6. CASE AbandonEvent
  <2>1. hand' = <<>> /\ <<>> \in Seq(Nat) /\ Len(<<>>) = 0
    BY <1>6 DEF AbandonEvent
  <2> QED
    BY <1>6, <2>1 DEF AbandonEvent
<1>7. CASE SendError
  BY <1>7 DEF SendError
<1>8. CASE CloseErrors \/ CloseEvents
  BY <1>8 DEF CloseErrors, CloseEvents
<1>9. CASE SourceSends
  BY <1>9 DEF SourceSends
<1>10. CASE SourceFails \/ SourceClosesErr \/ SourceClosesMessages
  <2>1. CASE SourceFails
    BY <2>1 DEF SourceFails
  <2>2. CASE SourceClosesErr
    BY <2>2 DEF SourceClosesErr
  <2>3. CASE SourceClosesMessages
    BY <2>3 DEF SourceClosesMessages
  <2> QED
    BY <1>10, <2>1, <2>2, <2>3
<1>11. CASE ReadEvent
  <2>1. Head(mappedEvents) \in Nat /\ Tail(mappedEvents) \in Seq(Nat)
        /\ Len(Tail(mappedEvents)) <= 1
    BY <1>11 DEF ReadEvent
  <2> QED
    BY <1>11, <2>1 DEF ReadEvent
<1>12. CASE ReadError
  BY <1>12 DEF ReadError
<1>14. CASE CancelStream
  BY <1>14 DEF CancelStream
<1>15. CASE Close \/ CloseReturns
  BY <1>15 DEF Close, CloseReturns
<1>13. CASE Over \/ UNCHANGED vars
  BY <1>13 DEF Over, vars
<1> QED
  BY <1>1, <1>2, <1>3, <1>4, <1>5, <1>6, <1>7, <1>8, <1>9, <1>10, <1>11, <1>12, <1>13,
     <1>14, <1>15
     DEF Next, Forwarder

\* No step loses the source's error.
LEMMA ReasonStep == IInv /\ [Next]_vars => ReasonInv'
<1> SUFFICES ASSUME IInv, [Next]_vars PROVE ReasonInv'
  OBVIOUS
<1> USE DEF IInv, TypeOK, PC, Cap, ReasonInv, Closing, outside, inside, source
<1>1. CASE Top \/ SelectContext \/ AbandonEvent
  BY <1>1 DEF Top, SelectContext, AbandonEvent
<1>2. CASE Poll \/ SelectMessagesClosed \/ SelectError
  BY <1>2 DEF Poll, SelectMessagesClosed, SelectError, sourceErrorReady
<1>3. CASE SelectMessage \/ SendEvent
  BY <1>3 DEF SelectMessage, SendEvent
<1>4. CASE SendError
  BY <1>4 DEF SendError
<1>5. CASE CloseErrors \/ CloseEvents
  BY <1>5 DEF CloseErrors, CloseEvents
<1>6. CASE SourceSends \/ SourceFails \/ SourceClosesErr \/ SourceClosesMessages
  BY <1>6 DEF SourceSends, SourceFails, SourceClosesErr, SourceClosesMessages
<1>7. CASE ReadEvent \/ ReadError \/ CancelStream \/ Close \/ CloseReturns
  BY <1>7 DEF ReadEvent, ReadError, CancelStream, Close, CloseReturns
<1>8. CASE Over \/ UNCHANGED vars
  BY <1>8 DEF Over, vars
<1> QED
  BY <1>1, <1>2, <1>3, <1>4, <1>5, <1>6, <1>7, <1>8 DEF Next, Forwarder

\* The inductive invariant.
LEMMA Invariance == Spec => []IInv
<1>1. IInv /\ [Next]_vars => IInv'
  BY TypeStep, ReasonStep DEF IInv
<1> QED
  BY InitEstablishes, <1>1, PTL DEF Spec

\* Types, with the capacities of the channels.
THEOREM TypeCorrect == Spec => []TypeOK
<1>1. IInv => TypeOK
  BY DEF IInv
<1> QED
  BY Invariance, <1>1, PTL

\* The error of a stream that ends uncancelled has been told to the reader.
THEOREM NoErrorSwallowed == Spec => []ErrorToldUnlessCancelled
<1>1. IInv => ErrorToldUnlessCancelled
  BY DEF IInv, ReasonInv, Closing, ErrorToldUnlessCancelled
<1> QED
  BY Invariance, <1>1, PTL

-----------------------------------------------------------------------------
\* Everything Docker has sent that has not been given up, from the oldest on.
Passed == read \o mappedEvents
Line == (Passed \o hand) \o messages

Running == {"top", "poll", "select", "sendEvent"}

\* The line is Docker's numbering while the forwarder runs, and what has been
\* passed on is the beginning of it at any time.
OrderInv ==
  /\ pc \in Running => Len(Line) = sent /\ \A i \in 1..sent : Line[i] = i
  /\ Len(Passed) <= sent /\ \A i \in 1..Len(Passed) : Passed[i] = i

\* Concatenation, for sequences of messages.
LEMMA ConcatType ==
  \A a, b \in Seq(Nat) : a \o b \in Seq(Nat) /\ Len(a \o b) = Len(a) + Len(b)
OBVIOUS

\* The first part of a concatenation.
LEMMA ConcatLeft == \A a, b \in Seq(Nat) : \A i \in 1..Len(a) : (a \o b)[i] = a[i]
<1> TAKE a, b \in Seq(Nat)
<1> TAKE i \in 1..Len(a)
<1> QED
  OBVIOUS

\* Its second part.
LEMMA ConcatRight == \A a, b \in Seq(Nat) : \A i \in 1..Len(b) : (a \o b)[Len(a) + i] = b[i]
<1> TAKE a, b \in Seq(Nat)
<1> TAKE i \in 1..Len(b)
<1> QED
  OBVIOUS

\* Concatenation is associative.
LEMMA Assoc == \A a, b, c \in Seq(Nat) : (a \o b) \o c = a \o (b \o c)
<1> TAKE a, b, c \in Seq(Nat)
<1> QED
  OBVIOUS

\* The position of an element in the rest of a sequence.
LEMMA Shift ==
  \A n \in Nat : \A i \in 1..n : i # 1 => i - 1 \in 1..(n - 1) /\ (i - 1) + 1 = i /\ 1 + (i - 1) = i
OBVIOUS

\* A sequence from its first element and the others.
LEMMA Cons ==
  ASSUME NEW s \in Seq(Nat), NEW h \in Seq(Nat), NEW t \in Seq(Nat),
         Len(h) = 1, h[1] = s[1], Len(t) = Len(s) - 1, \A i \in 1..Len(t) : t[i] = s[i + 1]
  PROVE  h \o t = s
<1>1. h \o t \in Seq(Nat) /\ Len(h \o t) = Len(s)
  <2>1. h \o t \in Seq(Nat) /\ Len(h \o t) = Len(h) + Len(t)
    BY ConcatType
  <2>2. Len(s) \in Nat /\ Len(h) + Len(t) = Len(s)
    BY LenProperties
  <2> QED
    BY <2>1, <2>2
<1>2. ASSUME NEW i \in 1..Len(s) PROVE (h \o t)[i] = s[i]
  <2>1. CASE i = 1
    <3>1. i \in 1..Len(h)
      BY <2>1
    <3>2. (h \o t)[i] = h[i]
      BY <3>1, ConcatLeft
    <3> QED
      BY <2>1, <3>2
  <2>2. CASE i # 1
    <3>0. Len(s) \in Nat
      BY LenProperties
    <3>1. i - 1 \in 1..Len(t) /\ (i - 1) + 1 = i /\ Len(h) + (i - 1) = i
      BY <2>2, <3>0, Shift
    <3>2. t[i - 1] = s[i]
      BY <3>1
    <3>3. (h \o t)[Len(h) + (i - 1)] = t[i - 1]
      BY <3>1, ConcatRight, Zenon
    <3> QED
      BY <3>1, <3>2, <3>3, Zenon
  <2> QED
    BY <2>1, <2>2
<1>3. \A i \in 1..Len(h \o t) : (h \o t)[i] = s[i]
  BY <1>1, <1>2
<1> QED
  BY <1>1, <1>3, SeqEqual

\* Taking the first element of a queue leaves the queue.
LEMMA HeadThenTail ==
  ASSUME NEW s \in Seq(Nat), s # <<>>
  PROVE  <<Head(s)>> \in Seq(Nat) /\ Tail(s) \in Seq(Nat) /\ <<Head(s)>> \o Tail(s) = s
<1>1. /\ Head(s) \in Nat /\ Tail(s) \in Seq(Nat) /\ Len(Tail(s)) = Len(s) - 1
      /\ \A i \in 1..Len(Tail(s)) : Tail(s)[i] = s[i + 1]
  BY HeadTailProperties
<1>2. <<Head(s)>> \in Seq(Nat) /\ Len(<<Head(s)>>) = 1 /\ <<Head(s)>>[1] = s[1]
  BY <1>1
<1>3. <<Head(s)>> \o Tail(s) = s
  BY <1>1, <1>2, Cons
<1> QED
  BY <1>1, <1>2, <1>3

\* Appending is concatenating a sequence of one.
LEMMA AppendLast ==
  \A a \in Seq(Nat) : \A n \in Nat : Append(a, n) = a \o <<n>> /\ <<n>> \in Seq(Nat)
BY AppendIsConcat

\* Appending the next number to a count keeps it a count.
LEMMA Counting ==
  ASSUME NEW a \in Seq(Nat), NEW n \in Nat, Len(a) = n, \A i \in 1..n : a[i] = i
  PROVE  /\ Len(Append(a, n + 1)) = n + 1
         /\ \A i \in 1..(n + 1) : Append(a, n + 1)[i] = i
BY AppendProperties

\* Reading the first element of one queue into another leaves their concatenation.
LEMMA MoveHead ==
  ASSUME NEW r \in Seq(Nat), NEW s \in Seq(Nat), s # <<>>
  PROVE  Append(r, Head(s)) \o Tail(s) = r \o s
<1>1. Head(s) \in Nat
  BY HeadTailProperties
<1>2. Append(r, Head(s)) = r \o <<Head(s)>>
  BY <1>1, AppendIsConcat
<1>3. <<Head(s)>> \in Seq(Nat) /\ Tail(s) \in Seq(Nat) /\ <<Head(s)>> \o Tail(s) = s
  BY HeadThenTail, Zenon
<1>4. (r \o <<Head(s)>>) \o Tail(s) = r \o (<<Head(s)>> \o Tail(s))
  BY <1>3, Assoc, Zenon
<1> QED
  BY <1>2, <1>3, <1>4, Zenon

\* No step changes the order of the line, and nothing enters it but at its end.
LEMMA OrderStep == IInv /\ OrderInv /\ [Next]_vars => OrderInv'
<1> SUFFICES ASSUME IInv, OrderInv, [Next]_vars PROVE OrderInv'
  OBVIOUS
<1>0. /\ messages \in Seq(Nat) /\ hand \in Seq(Nat) /\ mappedEvents \in Seq(Nat)
      /\ read \in Seq(Nat) /\ sent \in Nat /\ Passed \in Seq(Nat) /\ Line \in Seq(Nat)
  <2>1. messages \in Seq(Nat) /\ hand \in Seq(Nat) /\ mappedEvents \in Seq(Nat)
        /\ read \in Seq(Nat) /\ sent \in Nat
    BY EventStreamAssumption DEF IInv, TypeOK
  <2> QED
    BY <2>1, ConcatProperties DEF Passed, Line
<1> USE DEF outside, inside, source, Running
<1>1. CASE Top \/ SelectContext \/ Poll \/ SelectMessagesClosed \/ SelectError
  BY <1>1 DEF Top, SelectContext, Poll, SelectMessagesClosed, SelectError, sourceErrorReady,
              OrderInv, Passed, Line
<1>2. CASE SelectMessage
  <2>1. hand = <<>> /\ messages # <<>> /\ pc \in Running /\ Passed' = Passed /\ sent' = sent
    BY <1>2 DEF SelectMessage, IInv, TypeOK, Passed
  <2>2. hand' \in Seq(Nat) /\ messages' \in Seq(Nat) /\ hand' \o messages' = messages
    BY <1>0, <1>2, <2>1, HeadThenTail DEF SelectMessage
  <2>3. Line' = Passed \o (hand' \o messages')
    <3>1. hand' \in Seq(Nat) /\ messages' \in Seq(Nat)
      BY <2>2
    <3>2. Passed \in Seq(Nat)
      BY <1>0
    <3>3. (Passed \o hand') \o messages' = Passed \o (hand' \o messages')
      BY <3>1, <3>2, Assoc
    <3> QED
      BY <2>1, <3>3 DEF Line
  <2>4. Line = Passed \o messages
    BY <1>0, <2>1, ConcatEmptySeq DEF Line
  <2> QED
    BY <2>1, <2>2, <2>3, <2>4 DEF OrderInv
<1>3. CASE SendEvent
  <2>1. /\ hand' = <<>> /\ messages' = messages /\ read' = read /\ sent' = sent
        /\ mappedEvents' = mappedEvents \o hand /\ pc \in Running
    BY <1>3 DEF SendEvent
  <2>2. Passed' = Passed \o hand
    <3>1. (read \o mappedEvents) \o hand = read \o (mappedEvents \o hand)
      <4>1. read \in Seq(Nat) /\ mappedEvents \in Seq(Nat) /\ hand \in Seq(Nat)
        BY <1>0, Zenon
      <4> QED
        BY <4>1, Assoc, Zenon
    <3> QED
      BY <2>1, <3>1 DEF Passed
  <2>3. Line' = Line
    <3>1. (Passed \o hand) \o <<>> = Passed \o hand
      BY <1>0, ConcatType, ConcatEmptySeq
    <3> QED
      BY <2>1, <2>2, <3>1 DEF Line
  <2>4. Len(Passed') <= sent /\ \A i \in 1..Len(Passed') : Passed'[i] = i
    <3> DEFINE p == Passed'
    <3>1. p \in Seq(Nat) /\ Line = p \o messages
      BY <1>0, <2>2, ConcatProperties DEF Line
    <3>2. Len(Line) = sent /\ \A i \in 1..sent : Line[i] = i
      BY <2>1 DEF OrderInv
    <3> HIDE DEF p
    <3>3. Len(p) <= sent /\ \A i \in 1..Len(p) : p[i] = i
      BY <1>0, <3>1, <3>2, ConcatProperties, LenProperties
    <3> QED
      BY <3>3 DEF p
  <2> QED
    BY <2>1, <2>3, <2>4 DEF OrderInv
<1>4. CASE AbandonEvent \/ SendError \/ CloseErrors \/ CloseEvents
  BY <1>4 DEF AbandonEvent, SendError, CloseErrors, CloseEvents, OrderInv, Passed
<1>5. CASE SourceSends
  <2>1. /\ Passed' = Passed /\ hand' = hand /\ pc' = pc /\ sent' = sent + 1
        /\ messages' = Append(messages, sent + 1)
    BY <1>5 DEF SourceSends, Passed
  <2>2. Line' = Append(Line, sent + 1)
    <3> DEFINE n == sent + 1
    <3>1. n \in Nat /\ Passed \o hand \in Seq(Nat)
      BY <1>0, ConcatType
    <3>2. messages' = Append(messages, n)
      BY <2>1
    <3> HIDE DEF n
    <3>3. /\ Append(messages, n) = messages \o <<n>> /\ <<n>> \in Seq(Nat)
          /\ Append(Line, n) = Line \o <<n>>
      BY <1>0, <3>1, AppendLast
    <3>4. ((Passed \o hand) \o messages) \o <<n>> = (Passed \o hand) \o (messages \o <<n>>)
      <4>1. messages \in Seq(Nat) /\ Passed \o hand \in Seq(Nat) /\ <<n>> \in Seq(Nat)
        BY <1>0, <3>1, <3>3
      <4> QED
        BY <4>1, Assoc
    <3>5. Line' = Append(Line, n)
      BY <2>1, <3>2, <3>3, <3>4 DEF Line
    <3> QED
      BY <3>5 DEF n
  <2>3. pc \in Running => Len(Line') = sent + 1 /\ \A i \in 1..(sent + 1) : Line'[i] = i
    BY <1>0, <2>2, Counting, Zenon DEF OrderInv
  <2> QED
    BY <1>0, <2>1, <2>3, LenProperties DEF OrderInv
<1>6. CASE SourceFails \/ SourceClosesErr \/ SourceClosesMessages
  BY <1>6 DEF SourceFails, SourceClosesErr, SourceClosesMessages, OrderInv, Passed, Line
<1>7. CASE ReadEvent
  <2>1. Passed' = Passed /\ UNCHANGED <<pc, hand, messages, sent>>
    BY <1>0, <1>7, MoveHead DEF ReadEvent, Passed
  <2> QED
    BY <2>1 DEF OrderInv, Line
<1>8. CASE ReadError \/ CancelStream \/ Close \/ CloseReturns
  BY <1>8 DEF ReadError, CancelStream, Close, CloseReturns, OrderInv, Passed, Line
<1>9. CASE Over \/ UNCHANGED vars
  BY <1>9 DEF Over, vars, OrderInv, Passed, Line
<1> QED
  BY <1>1, <1>2, <1>3, <1>4, <1>5, <1>6, <1>7, <1>8, <1>9 DEF Next, Forwarder

\* Nothing has been sent yet.
LEMMA OrderInit == Init => OrderInv
<1> SUFFICES ASSUME Init PROVE OrderInv
  OBVIOUS
<1>1. Passed = <<>>
  BY DEF Init, Passed
<1>2. Line = <<>>
  BY <1>1 DEF Init, Line
<1>3. Len(<<>>) = 0 /\ sent = 0
  BY DEF Init
<1> QED
  BY <1>1, <1>2, <1>3 DEF OrderInv

\* The numbering, as the sequence that EventsInOrder compares with.
LEMMA OrderImplies == IInv /\ OrderInv => EventsInOrder
<1> SUFFICES ASSUME IInv, OrderInv PROVE EventsInOrder
  OBVIOUS
<1> DEFINE Sent == [i \in 1..sent |-> i]
<1>1. sent \in Nat /\ Passed \in Seq(Nat) /\ Line \in Seq(Nat)
  <2>1. messages \in Seq(Nat) /\ hand \in Seq(Nat) /\ mappedEvents \in Seq(Nat)
        /\ read \in Seq(Nat) /\ sent \in Nat
    BY EventStreamAssumption DEF IInv, TypeOK
  <2> QED
    BY <2>1, ConcatProperties DEF Passed, Line
<1>2. Sent \in Seq(Nat) /\ Len(Sent) = sent /\ \A i \in 1..sent : Sent[i] = i
  BY <1>1
<1> HIDE DEF Sent
<1>3. pc \in Running => Line = Sent
  BY <1>1, <1>2, SeqEqual DEF OrderInv
<1>4. Passed = SubSeq(Sent, 1, Len(Passed))
  <2> DEFINE n == Len(Passed)
             q == SubSeq(Sent, 1, n)
  <2>1. n \in Nat /\ n <= sent /\ \A i \in 1..n : Passed[i] = i
    BY <1>1, LenProperties DEF OrderInv
  <2>2. \A i \in 1..n : Sent[i] = i /\ Sent[i] \in Nat
    BY <1>1, <1>2, <2>1
  <2> HIDE DEF n
  <2>3. q \in Seq(Nat) /\ Len(q) = n /\ \A i \in 1..n : q[i] = i
    BY <2>1, <2>2, SubSeqProperties
  <2> HIDE DEF q
  <2>4. Passed = q
    BY <1>1, <2>1, <2>3, SeqEqual DEF n
  <2> QED
    BY <2>4 DEF q, n
<1> QED
  BY <1>3, <1>4 DEF EventsInOrder, Sent, Passed, Line, Running

\* Docker's messages reach the reader in their order, none twice, none left out.
THEOREM OrderKept == Spec => []EventsInOrder
<1>1. Init => OrderInv
  BY OrderInit
<1>2. IInv /\ OrderInv /\ [Next]_vars => OrderInv'
  BY OrderStep
<1>3. IInv /\ OrderInv => EventsInOrder
  BY OrderImplies
<1> QED
  BY <1>1, <1>2, <1>3, Invariance, PTL DEF Spec

-----------------------------------------------------------------------------
\* The fields of the stream.
LEMMA SeenFields ==
  /\ Seen.open = TRUE /\ Seen.events = Len(mappedEvents)
  /\ Seen.error = ErrorWaits /\ Seen.ended = Ended
BY DEF Seen

\* The stream as a record of known type, so that records can be compared by field.
StreamType == [open : BOOLEAN, events : Nat, error : BOOLEAN,
               ended : {"no", "failing", "errorsClosed", "closed"}]

\* What Loop sees of the stream has that type.
LEMMA SeenTyped == TypeOK => Seen \in StreamType
<1> SUFFICES ASSUME TypeOK PROVE Seen \in StreamType
  OBVIOUS
<1>1. Len(mappedEvents) \in Nat
  BY DEF TypeOK
<1>2. ErrorWaits \in BOOLEAN
  BY DEF ErrorWaits
<1>3. Ended \in {"no", "failing", "errorsClosed", "closed"}
  BY DEF Ended
<1> QED
  BY <1>1, <1>2, <1>3 DEF Seen, StreamType

\* Both hold of the next state too.
LEMMA SeenNext ==
  /\ TypeOK' => Seen' \in StreamType
  /\ Seen'.open = TRUE /\ Seen'.events = Len(mappedEvents')
  /\ Seen'.error = ErrorWaits' /\ Seen'.ended = Ended'
<1>1. TypeOK' => Seen' \in StreamType
  <2>1. ErrorWaits' \in BOOLEAN
    BY DEF ErrorWaits
  <2>2. Ended' \in {"no", "failing", "errorsClosed", "closed"}
    BY DEF Ended
  <2>3. TypeOK' => Len(mappedEvents') \in Nat
    BY DEF TypeOK
  <2> QED
    BY <2>1, <2>2, <2>3 DEF Seen, StreamType
<1>2. /\ Seen'.open = TRUE /\ Seen'.events = Len(mappedEvents')
      /\ Seen'.error = ErrorWaits' /\ Seen'.ended = Ended'
  BY DEF Seen
<1> QED
  BY <1>1, <1>2

\* A fresh forwarder shows a fresh stream.
LEMMA InitRefines == Init => Contract!Init
<1> SUFFICES ASSUME Init PROVE Contract!Init
  OBVIOUS
<1>1. Len(mappedEvents) = 0
  BY DEF Init
<1>2. ErrorWaits = FALSE
  BY DEF Init, ErrorWaits
<1>3. Ended = "no"
  BY DEF Init, Ended
<1>4. /\ Contract!NoStream \in StreamType /\ Contract!NoStream.events = 0
      /\ Contract!NoStream.error = FALSE /\ Contract!NoStream.ended = "no"
  BY DEF Contract!NoStream, StreamType
<1>5. /\ Contract!NewStream \in StreamType
      /\ Contract!NewStream.open = TRUE /\ Contract!NewStream.events = 0
      /\ Contract!NewStream.error = FALSE /\ Contract!NewStream.ended = "no"
  BY <1>4 DEF Contract!NewStream, StreamType
<1>6. Seen \in StreamType
  BY SeenTyped, InitEstablishes DEF IInv
<1> QED
  BY <1>1, <1>2, <1>3, <1>4, <1>5, <1>6, SeenFields DEF StreamType, Contract!Init

\* A step that touches neither channel of the reader, nor ends the stream.
LEMMA Invisible ==
  UNCHANGED <<mappedEvents, mappedErrors>> /\ Ended' = Ended => UNCHANGED Seen
BY DEF Seen, ErrorWaits

\* A step that ends the stream, with or without an error.
LEMMA EndRefines ==
  ASSUME TypeOK, TypeOK', UNCHANGED mappedEvents, Ended = "no", Ended' = "failing"
  PROVE  Contract!Fail
<1>1. Seen' = [Seen EXCEPT !.error = ErrorWaits', !.ended = "failing"]
  BY SeenTyped, SeenFields, SeenNext DEF StreamType
<1>2. ErrorWaits' \in BOOLEAN
  BY DEF ErrorWaits
<1> QED
  BY <1>1, <1>2, SeenFields DEF Contract!Fail, Contract!Live

\* Each step of the forwarder, the source or the reader is one of the stream's,
\* or nothing that the reader can see.
LEMMA StepRefines == IInv /\ [Next]_vars => [Contract!Next]_Seen
<1> SUFFICES ASSUME IInv, [Next]_vars PROVE [Contract!Next]_Seen
  OBVIOUS
<1>0. TypeOK /\ TypeOK' /\ Seen \in StreamType /\ Seen' \in StreamType
  BY TypeStep, SeenTyped, SeenNext DEF IInv
<1> USE DEF IInv, TypeOK, PC, Cap, outside, inside, source
<1>1. CASE Top \/ SelectContext \/ AbandonEvent
  <2>1. UNCHANGED <<mappedEvents, mappedErrors>> /\ Ended = "no" /\ Ended' \in {"no", "failing"}
    BY <1>1 DEF Top, SelectContext, AbandonEvent, Ended
  <2> QED
    BY <1>0, <2>1, Invisible, EndRefines DEF Contract!Next
<1>2. CASE Poll \/ SelectMessagesClosed \/ SelectError
  <2>1. UNCHANGED <<mappedEvents, mappedErrors>> /\ Ended = "no" /\ Ended' \in {"no", "failing"}
    BY <1>2 DEF Poll, SelectMessagesClosed, SelectError, sourceErrorReady, Ended
  <2> QED
    BY <1>0, <2>1, Invisible, EndRefines DEF Contract!Next
<1>3. CASE SelectMessage
  <2>1. UNCHANGED <<mappedEvents, mappedErrors>> /\ Ended = "no" /\ Ended' = "no"
    BY <1>3 DEF SelectMessage, Ended
  <2> QED
    BY <2>1, Invisible
<1>4. CASE SendEvent
  <2>1. Len(hand) = 1 /\ Len(mappedEvents) = 0 /\ mappedEvents' = mappedEvents \o hand
    BY <1>4 DEF SendEvent, HandInv
  <2>2. Len(mappedEvents') = Len(mappedEvents) + 1
    BY <2>1
  <2>3. Ended = "no" /\ Ended' = "no" /\ ErrorWaits' = ErrorWaits
    BY <1>4 DEF SendEvent, Ended, ErrorWaits
  <2>4. Seen' = [Seen EXCEPT !.events = @ + 1]
    BY <1>0, <2>2, <2>3, SeenFields, SeenNext DEF StreamType
  <2> QED
    BY <2>1, <2>3, <2>4, SeenFields DEF Contract!Next, Contract!Deliver, Contract!Live
<1>5. CASE SendError
  <2>1. UNCHANGED mappedEvents /\ Ended = "no" /\ Ended' = "failing"
    BY <1>5 DEF SendError, Ended
  <2> QED
    BY <1>0, <2>1, EndRefines DEF Contract!Next
<1>6. CASE CloseErrors \/ CloseEvents
  <2>1. /\ UNCHANGED <<mappedEvents, ErrorWaits>>
        /\ \/ Ended = "failing" /\ Ended' = "errorsClosed"
           \/ Ended = "errorsClosed" /\ Ended' = "closed"
    BY <1>6 DEF CloseErrors, CloseEvents, Ended, ErrorWaits
  <2>2. Seen' = [Seen EXCEPT !.ended = Ended']
    BY <1>0, <2>1, SeenFields, SeenNext DEF StreamType
  <2> QED
    BY <2>1, <2>2, SeenFields DEF Contract!Next, Contract!Close
<1>7. CASE SourceSends \/ SourceFails \/ SourceClosesErr \/ SourceClosesMessages
  <2>1. UNCHANGED <<mappedEvents, mappedErrors>> /\ Ended' = Ended
    BY <1>7 DEF SourceSends, SourceFails, SourceClosesErr, SourceClosesMessages, Ended
  <2> QED
    BY <2>1, Invisible
<1>8. CASE ReadEvent
  <2>1. Len(mappedEvents) > 0 /\ Len(mappedEvents') = Len(mappedEvents) - 1
    BY <1>8 DEF ReadEvent
  <2>2. UNCHANGED <<Ended, ErrorWaits>>
    BY <1>8 DEF ReadEvent, Ended, ErrorWaits
  <2>3. Seen' = [Seen EXCEPT !.events = @ - 1]
    BY <1>0, <2>1, <2>2, SeenFields, SeenNext DEF StreamType
  <2> QED
    BY <2>1, <2>3, SeenFields DEF Contract!Next, Contract!Read
<1>9. CASE ReadError
  <2>1. UNCHANGED <<mappedEvents, Ended>>
    BY <1>9 DEF ReadError, Ended
  <2>2. ErrorWaits = TRUE /\ ErrorWaits' = FALSE
    BY <1>9 DEF ReadError, ErrorWaits
  <2>3. Seen' = [Seen EXCEPT !.error = FALSE]
    BY <1>0, <2>1, <2>2, SeenFields, SeenNext DEF StreamType
  <2> QED
    BY <2>2, <2>3, SeenFields DEF Contract!Next, Contract!ReadError
<1>10. CASE CancelStream \/ Close \/ CloseReturns
  <2>1. UNCHANGED <<mappedEvents, mappedErrors>> /\ Ended' = Ended
    BY <1>10 DEF CancelStream, Close, CloseReturns, Ended
  <2> QED
    BY <2>1, Invisible
<1>11. CASE Over \/ UNCHANGED vars
  <2>1. UNCHANGED <<mappedEvents, mappedErrors>> /\ Ended' = Ended
    BY <1>11 DEF Over, vars, Ended
  <2> QED
    BY <2>1, Invisible
<1> QED
  BY <1>1, <1>2, <1>3, <1>4, <1>5, <1>6, <1>7, <1>8, <1>9, <1>10, <1>11 DEF Next, Forwarder

\* The forwarder implements the stream that the event loop reads.
THEOREM Refinement == Spec => ImplementsContract
BY InitRefines, StepRefines, Invariance, PTL DEF Spec, ImplementsContract, Contract!Spec
=============================================================================
