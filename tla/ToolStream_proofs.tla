------------------------- MODULE ToolStream_proofs -------------------------
(***************************************************************************)
(* Theorems about ToolStream, for any answers and any number of events:    *)
(* the callback gets the events as they were written; the second parse of  *)
(* a turn never finds a call; what a snapshot's calls are, the calls of    *)
(* the whole answer begin with; and of a text whose blocks are regular the *)
(* parser finds exactly the calls it was written with, so that the turn    *)
(* ends with them.  The second half is about the parser alone: the places  *)
(* it reads are chains of least members, which is what stands here for     *)
(* induction over the text.                                                *)
(***************************************************************************)
EXTENDS ToolStream, TLAPS, SequenceTheorems, WellFoundedInduction, FiniteSetTheorems

\* The last data line written is that of the newest snapshot.
Newest(p) == [part |-> p, upto |-> Last(written)]

\* What the buffer holds of an event that is under way.
Buffered ==
    \/ line = "none" /\ dataBuf = <<>>
    \/ line \in {"whole", "head"} /\ written # <<>> /\ dataBuf = <<Newest(line)>>
    \/ line = "tail" /\ written # <<>> /\ dataBuf = <<Newest("head"), Newest("tail")>>

\* The callback has had all events but the one in the buffer.
Delivered(done) ==
    /\ Len(written) = IF done THEN Len(seen) ELSE Len(seen) + 1
    /\ \A k \in 1..Len(seen) : seen[k] = written[k]

\* While the stream is read, the buffer is what the lines say, and the
\* snapshots before it have been given to the callback.
ReadInv ==
    status = "reading" =>
        /\ ~cut /\ Buffered /\ Delivered(dataBuf = <<>>)
        /\ final = IF seen = <<>> THEN <<>> ELSE Prefix(Last(seen))

\* Snapshots grow, and there are no more of them than were written.
GrowInv ==
    /\ \A j, k \in 1..Len(written) : j =< k => written[j] =< written[k]
    /\ EventsAsWritten

\* A turn without calls has found none in any snapshot, and its final text is
\* the last one unless something was cut.
NoCallsInv ==
    status # "calls" =>
        /\ items = <<>> /\ ItemsOf(final) = <<>>
        /\ ~cut /\ dataBuf = <<>> /\ written # <<>> => final = Prefix(Last(written))

\* The items are those of one snapshot.
ItemsInv == items = <<>> \/ \E n \in 0..Len(answer) : items = <<>> \o ItemsOf(Prefix(n))

StreamInv == TypeOK /\ ReadInv /\ GrowInv /\ NoCallsInv /\ ItemsInv

-----------------------------------------------------------------------------
LEMMA Answered ==
    ASSUME TypeOK
    PROVE  /\ answer \in Seq(ToSet(answer)) /\ Len(answer) \in Nat
           /\ Prefix(0) = <<>> /\ Prefix(Len(answer)) = answer
<1>1. answer \in Seq(ToSet(answer))
  BY StreamAssumption DEF TypeOK
<1>2. Len(answer) \in Nat
  BY <1>1, LenProperties
<1>3. Prefix(0) = <<>>
  BY SubSeqEmpty DEF Prefix
<1>4. Prefix(Len(answer)) = answer
  BY <1>1, SubSeqFull DEF Prefix
<1> QED
  BY <1>1, <1>2, <1>3, <1>4

LEMMA BlankHasNoCalls == ItemsOf(<<>>) = <<>>
  BY DEF ItemsOf, parseToolCallItems

LEMMA InitInv == Init => StreamInv
<1> SUFFICES ASSUME Init PROVE StreamInv
  OBVIOUS
<1>1. answer \in Seq(ToSet(answer)) /\ Len(answer) \in Nat
  BY StreamAssumption, LenProperties DEF Init
<1>2. final = Prefix(0) /\ 0 \in 0..Len(answer)
  BY <1>1, SubSeqEmpty DEF Init, Prefix
<1>3. TypeOK
  <2>1. answer \in Answers /\ \E n \in 0..Len(answer) : final = Prefix(n)
    BY <1>2 DEF Init
  <2>2. written \in Seq(0..Len(answer)) /\ Len(written) =< MaxEvents
    BY EmptySeq, StreamAssumption DEF Init
  <2>3. dataBuf \in Seq(Line) /\ Len(dataBuf) =< 2 /\ seen \in Seq(0..Len(answer))
    BY EmptySeq DEF Init
  <2> QED
    BY <2>1, <2>2, <2>3 DEF Init, TypeOK
<1>4. ReadInv /\ GrowInv
  BY DEF Init, ReadInv, Buffered, Delivered, GrowInv, EventsAsWritten
<1>5. NoCallsInv /\ ItemsInv
  BY BlankHasNoCalls DEF Init, NoCallsInv, ItemsInv
<1> QED
  BY <1>3, <1>4, <1>5 DEF StreamInv

-----------------------------------------------------------------------------
\* A whole event gives the newest snapshot, a cut one a part of it.
LEMMA FlushGives ==
    ASSUME TypeOK, Buffered, NEW next, flush(next)
    PROVE  /\ dataBuf' = <<>>
           /\ \/ dataBuf = <<>> /\ UNCHANGED turn /\ status' = next
              \/ /\ dataBuf # <<>> /\ written # <<>>
                 /\ \E n \in 0..Len(answer) :
                       /\ OnEvent(n, next) /\ n =< Last(written)
                       /\ line # "head" => n = Last(written)
<1>1. dataBuf' = <<>>
  BY DEF flush, Reset
<1>2. CASE dataBuf = <<>>
  BY <1>1, <1>2 DEF flush
<1>3. CASE dataBuf # <<>>
  <2>1. PICK n \in Decoded(dataBuf) : OnEvent(n, next)
    BY <1>3 DEF flush
  <2>2. /\ written # <<>> /\ line \in {"whole", "head", "tail"}
        /\ dataBuf[1].upto = Last(written)
        /\ line # "head" => dataBuf[1].part = "whole" \/ Len(dataBuf) > 1
    BY <1>3 DEF Buffered, Newest
  <2>3. Last(written) \in 0..Len(answer)
    BY <2>2, Answered DEF TypeOK, Last
  <2>4. n \in 0..Len(answer) /\ n =< Last(written) /\ (line # "head" => n = Last(written))
    BY <2>1, <2>2, <2>3, Answered DEF Decoded
  <2> QED
    BY <1>1, <1>3, <2>1, <2>2, <2>4
<1> QED
  BY <1>2, <1>3

\* What an event changes while the stream is read.
LEMMA OnEventInv ==
    ASSUME StreamInv, status = "reading", dataBuf # <<>>, dataBuf' = <<>>,
           NEW next \in {"reading", "eof"}, NEW n \in 0..Len(answer), OnEvent(n, next),
           UNCHANGED <<answer, written>>, cut' \in BOOLEAN, n =< Last(written),
           n = Last(written) \/ cut', line' \in {"none", "whole", "head", "tail"},
           next = "reading" => ~cut' /\ line' = "none"
    PROVE  StreamInv'
<1>1. /\ TypeOK /\ ReadInv /\ GrowInv /\ NoCallsInv /\ ItemsInv
      /\ items = <<>> /\ ItemsOf(final) = <<>> /\ Len(answer) \in Nat
  BY Answered DEF StreamInv, NoCallsInv
<1>2. /\ written \in Seq(0..Len(answer)) /\ seen \in Seq(0..Len(answer))
      /\ Len(written) = Len(seen) + 1 /\ Len(seen) \in Nat /\ Last(written) = written[Len(written)]
      /\ \A k \in 1..Len(seen) : seen[k] = written[k]
  BY <1>1 DEF TypeOK, ReadInv, Delivered, Last
<1>3. /\ seen' \in Seq(0..Len(answer)) /\ Len(seen') = Len(written)
      /\ seen' # <<>> /\ Last(seen') = n /\ seen'[Len(written)] = n
      /\ \A k \in 1..Len(seen) : seen'[k] = written[k]
  <2>1. seen' = Append(seen, n)
    BY DEF OnEvent
  <2>2. /\ Append(seen, n) \in Seq(0..Len(answer)) /\ Append(seen, n) # <<>>
        /\ Len(Append(seen, n)) = Len(seen) + 1
        /\ \A k \in 1..Len(seen) : Append(seen, n)[k] = seen[k]
        /\ Append(seen, n)[Len(seen) + 1] = n
    BY <1>2, AppendProperties, SMTT(30)
  <2> QED
    BY <1>2, <2>1, <2>2 DEF Last
<1>4. Prefix(n)' = Prefix(n) /\ (final' = final \/ final' = Prefix(n))
  BY DEF OnEvent, Prefix
<1>5. n = Last(written) => final' = Prefix(n)
  <2>1. CASE n # 0
    BY <1>4, <2>1 DEF OnEvent
  <2>2. CASE n = 0 /\ seen = <<>>
    BY <1>1, <2>2, Answered DEF OnEvent, ReadInv
  <2>3. CASE n = 0 /\ seen # <<>> /\ n = Last(written)
    <3>1. /\ Len(seen) \in 1..Len(written) /\ Last(seen) = written[Len(seen)]
          /\ Len(written) \in 1..Len(written)
      BY <1>2, <2>3 DEF Last
    <3>2. written[Len(seen)] \in 0..Len(answer) /\ written[Len(seen)] =< written[Len(written)]
      BY <1>1, <1>2, <3>1, ElementOfSeq DEF GrowInv
    <3>3. Last(seen) = 0
      BY <1>1, <1>2, <2>3, <3>1, <3>2
    <3> QED
      BY <1>1, <2>3, <3>3 DEF OnEvent, ReadInv
  <2> QED
    BY <2>1, <2>2, <2>3
<1>6. \/ /\ items' = items /\ final' = final /\ status' = next /\ sawCandidate' = sawCandidate
      \/ /\ items' = <<>> \o ItemsOf(Prefix(n)) /\ final' = Prefix(n) /\ sawCandidate' \in BOOLEAN
         /\ status' = IF ItemsOf(Prefix(n)) # <<>> THEN "calls" ELSE next
  BY <1>1, <1>4 DEF OnEvent, after, TypeOK
<1>7. TypeOK'
  <2>1. \E m \in 0..Len(answer) : final' = Prefix(m)
    BY <1>1, <1>4 DEF TypeOK
  <2>2. sawCandidate' \in BOOLEAN /\ status' \in {"reading", "calls", "eof"}
    BY <1>1, <1>6 DEF TypeOK
  <2> QED
    BY <1>1, <1>3, <2>1, <2>2 DEF TypeOK, Prefix, Ended, Line
<1>8. ReadInv'
  <2> SUFFICES ASSUME status' = "reading" PROVE ReadInv'
    BY DEF ReadInv
  <2>1. ~cut' /\ line' = "none" /\ n = Last(written)
    BY <1>6
  <2>2. final' = Prefix(Last(seen))'
    BY <1>3, <1>4, <1>5, <2>1 DEF Prefix
  <2>3. Buffered' /\ Delivered(dataBuf = <<>>)'
    BY <1>2, <1>3, <2>1 DEF Buffered, Delivered
  <2> QED
    BY <1>3, <2>1, <2>2, <2>3 DEF ReadInv
<1>9. GrowInv'
  <2>1. EventsAsWritten'
    <3> SUFFICES ASSUME NEW k \in 1..Len(seen')
                 PROVE  seen'[k] = written[k] \/ (k = Len(written) /\ cut' /\ seen'[k] =< written[k])
      BY <1>2, <1>3 DEF EventsAsWritten
    <3> QED
      BY <1>2, <1>3
  <2> QED
    BY <1>1, <2>1 DEF GrowInv
<1>10. NoCallsInv'
  <2> SUFFICES ASSUME status' # "calls" PROVE NoCallsInv'
    BY DEF NoCallsInv
  <2>1. items' = <<>> /\ ItemsOf(final') = <<>>
    BY <1>1, <1>6
  <2>2. ~cut' => final' = Prefix(Last(written))'
    BY <1>4, <1>5 DEF Prefix
  <2> QED
    BY <2>1, <2>2 DEF NoCallsInv, ItemsOf
<1>11. ItemsInv'
  BY <1>1, <1>4, <1>6 DEF ItemsInv, Prefix
<1> QED
  BY <1>7, <1>8, <1>9, <1>10, <1>11 DEF StreamInv

\* The end of an event, of the stream or of the connection.
LEMMA FlushInv ==
    ASSUME StreamInv, status = "reading", NEW next \in {"reading", "eof"}, flush(next),
           UNCHANGED <<answer, written>>, cut' \in BOOLEAN,
           line' \in {"none", "whole", "head", "tail"}, line = "head" => cut',
           next = "reading" => ~cut' /\ line' = "none"
    PROVE  StreamInv'
<1>1. TypeOK /\ Buffered /\ ReadInv /\ GrowInv /\ NoCallsInv /\ ItemsInv
  BY DEF StreamInv, ReadInv
<1>2. CASE dataBuf = <<>> /\ UNCHANGED turn /\ status' = next
  <2>1. dataBuf' = <<>>
    BY <1>1, FlushGives
  <2>2. TypeOK'
    BY <1>1, <1>2, <2>1 DEF TypeOK, turn, Prefix, Ended, Line
  <2>3. ReadInv'
    BY <1>1, <1>2, <2>1 DEF ReadInv, Buffered, Delivered, turn, Prefix
  <2>4. GrowInv'
    BY <1>1, <1>2 DEF GrowInv, EventsAsWritten, ReadInv, Delivered, turn
  <2>5. NoCallsInv'
    BY <1>1, <1>2, <2>1 DEF NoCallsInv, ReadInv, turn, Prefix
  <2>6. ItemsInv'
    BY <1>1, <1>2 DEF ItemsInv, turn, Prefix
  <2> QED
    BY <2>2, <2>3, <2>4, <2>5, <2>6 DEF StreamInv
<1>3. CASE dataBuf # <<>> /\ \E n \in 0..Len(answer) :
                /\ OnEvent(n, next) /\ n =< Last(written)
                /\ line # "head" => n = Last(written)
  BY <1>1, <1>3, FlushGives, OnEventInv
<1> QED
  BY <1>1, <1>2, <1>3, FlushGives

LEMMA DataLineInv == ASSUME StreamInv, DataLine PROVE StreamInv'
<1>1. /\ TypeOK /\ ReadInv /\ GrowInv /\ NoCallsInv /\ ItemsInv
      /\ status = "reading" /\ line = "none" /\ dataBuf = <<>> /\ ~cut
      /\ UNCHANGED <<answer, cut, turn, status>>
  BY DEF StreamInv, DataLine, ReadInv, Buffered
<1>2. PICK n \in 0..Len(answer), p \in {"whole", "head"} :
        /\ written # <<>> => n >= Last(written)
        /\ written' = Append(written, n) /\ line' = p
        /\ dataBuf' = Append(dataBuf, [part |-> p, upto |-> n])
  BY DEF DataLine
<1>3. /\ Len(answer) \in Nat /\ written \in Seq(0..Len(answer)) /\ Len(written) \in Nat
      /\ written' \in Seq(0..Len(answer)) /\ Len(written') = Len(written) + 1
      /\ Len(written) < MaxEvents
      /\ \A k \in 1..Len(written) : written'[k] = written[k]
      /\ written'[Len(written) + 1] = n
      /\ \A k \in 1..Len(written) : written[k] \in 0..Len(answer)
      /\ written # <<>> => Last(written) = written[Len(written)]
  BY <1>1, <1>2, Answered DEF TypeOK, Last, DataLine
<1>4. written' # <<>> /\ Last(written') = n /\ dataBuf' = <<[part |-> p, upto |-> n]>>
  BY <1>1, <1>2, <1>3 DEF Last
<1>5. TypeOK'
  <2>1. dataBuf' \in Seq(Line)' /\ Len(dataBuf') =< 2
    BY <1>1, <1>4 DEF Line
  <2> QED
    BY <1>1, <1>2, <1>3, <2>1, StreamAssumption DEF TypeOK, turn, Prefix
<1>6. ReadInv'
  <2>1. Buffered'
    BY <1>2, <1>4 DEF Buffered, Newest
  <2>2. Delivered(dataBuf = <<>>)'
    BY <1>1, <1>3, <1>4 DEF Delivered, ReadInv, turn
  <2> QED
    BY <1>1, <2>1, <2>2 DEF ReadInv, turn, Prefix
<1>7. GrowInv'
  <2>1. \A j, k \in 1..Len(written') : j =< k => written'[j] =< written'[k]
    <3> SUFFICES ASSUME NEW j \in 1..Len(written'), NEW k \in 1..Len(written'), j =< k
                 PROVE  written'[j] =< written'[k]
      OBVIOUS
    <3>1. CASE k =< Len(written)
      <4>1. j \in 1..Len(written) /\ k \in 1..Len(written)
        BY <1>3, <3>1
      <4>2. written[j] =< written[k]
        BY <1>1, <4>1 DEF GrowInv
      <4> QED
        BY <1>3, <4>1, <4>2
    <3>2. CASE k = Len(written) + 1 /\ j = k
      BY <1>2, <1>3, <3>2
    <3>3. CASE k = Len(written) + 1 /\ j =< Len(written)
      <4>1. written # <<>> /\ Len(written) \in 1..Len(written) /\ j \in 1..Len(written)
        BY <1>3, <3>3
      <4>2. written[j] =< written[Len(written)] /\ written[Len(written)] =< n
        BY <1>1, <1>2, <1>3, <3>3, <4>1 DEF GrowInv
      <4> QED
        BY <1>3, <3>3, <4>1, <4>2
    <3> QED
      BY <1>3, <3>1, <3>2, <3>3
  <2>2. EventsAsWritten'
    <3>1. Len(seen) = Len(written) /\ \A k \in 1..Len(seen) : seen[k] = written[k]
      BY <1>1, <1>3 DEF ReadInv, Delivered
    <3> QED
      BY <1>1, <1>3, <3>1 DEF EventsAsWritten, turn
  <2> QED
    BY <2>1, <2>2 DEF GrowInv
<1>8. NoCallsInv' /\ ItemsInv'
  BY <1>1, <1>4 DEF NoCallsInv, ItemsInv, turn, Prefix
<1> QED
  BY <1>5, <1>6, <1>7, <1>8 DEF StreamInv

LEMMA AppendOne == ASSUME NEW x, NEW y PROVE Append(<<x>>, y) = <<x, y>>
<1> DEFINE s == Append(<<x>>, y)
           t == <<x, y>>
<1>1. <<x>> \in Seq({x, y}) /\ Len(<<x>>) = 1 /\ <<x>>[1] = x
  OBVIOUS
<1>2. t \in Seq({x, y}) /\ Len(t) = 2 /\ t[1] = x /\ t[2] = y
  OBVIOUS
<1>3. s \in Seq({x, y}) /\ Len(s) = 2 /\ s[1] = x /\ s[2] = y
  BY <1>1, AppendProperties
<1> HIDE DEF s, t
<1>4. \A i \in 1..Len(s) : s[i] = t[i]
  BY <1>2, <1>3
<1>5. s = t
  BY <1>2, <1>3, <1>4, SeqEqual
<1> QED
  BY <1>5 DEF s, t

LEMMA SecondDataLineInv == ASSUME StreamInv, SecondDataLine PROVE StreamInv'
<1>1. /\ TypeOK /\ ReadInv /\ GrowInv /\ NoCallsInv /\ ItemsInv
      /\ status = "reading" /\ line = "head" /\ line' = "tail" /\ ~cut
      /\ written # <<>> /\ dataBuf = <<Newest("head")>>
      /\ UNCHANGED <<answer, written, cut, turn, status>>
  BY DEF StreamInv, SecondDataLine, ReadInv, Buffered
<1>2. dataBuf' = <<Newest("head"), Newest("tail")>> /\ dataBuf' # <<>> /\ dataBuf # <<>>
  <2>1. dataBuf' = Append(dataBuf, Newest("tail"))
    BY DEF SecondDataLine, Newest
  <2>2. Append(<<Newest("head")>>, Newest("tail")) = <<Newest("head"), Newest("tail")>>
    BY AppendOne
  <2>3. dataBuf' = <<Newest("head"), Newest("tail")>>
    BY <1>1, <2>1, <2>2, Zenon
  <2> QED
    BY <1>1, <2>3
<1>3. Last(written) \in 0..Len(answer)
  BY <1>1, Answered DEF TypeOK, Last
<1>4. TypeOK'
  <2>1. dataBuf' \in Seq(Line)' /\ Len(dataBuf') =< 2
    BY <1>1, <1>2, <1>3 DEF Line, Newest
  <2> QED
    BY <1>1, <2>1 DEF TypeOK, turn, Prefix
<1>5. ReadInv'
  <2>1. Buffered'
    BY <1>1, <1>2 DEF Buffered, Newest
  <2>2. Delivered(dataBuf = <<>>)'
    BY <1>1, <1>2 DEF Delivered, ReadInv, turn
  <2> QED
    BY <1>1, <2>1, <2>2 DEF ReadInv, turn, Prefix
<1>6. GrowInv' /\ NoCallsInv' /\ ItemsInv'
  BY <1>1, <1>2 DEF GrowInv, EventsAsWritten, NoCallsInv, ItemsInv, turn, Prefix
<1> QED
  BY <1>4, <1>5, <1>6 DEF StreamInv

LEMMA BrokenInv == ASSUME StreamInv, Broken PROVE StreamInv'
<1>1. /\ TypeOK /\ ReadInv /\ GrowInv /\ NoCallsInv /\ ItemsInv
      /\ status = "reading" /\ status' \in {"broken", "cancelled"}
      /\ UNCHANGED <<answer, written, line, cut, dataBuf, seen, final, sawCandidate, items>>
  BY DEF StreamInv, Broken, upstream, turn
<1>2. TypeOK'
  BY <1>1 DEF TypeOK, Prefix, Line, Ended
<1>3. ReadInv' /\ GrowInv' /\ NoCallsInv' /\ ItemsInv'
  BY <1>1 DEF ReadInv, GrowInv, EventsAsWritten, NoCallsInv, ItemsInv, Prefix
<1> QED
  BY <1>2, <1>3 DEF StreamInv

LEMMA FinishInv == ASSUME StreamInv, NEW forced \in BOOLEAN, Finish(forced) PROVE StreamInv'
<1>1. /\ TypeOK /\ ReadInv /\ GrowInv /\ NoCallsInv /\ ItemsInv /\ status \in Ended
      /\ items = <<>> /\ ItemsOf(final) = <<>>
      /\ UNCHANGED <<answer, written, line, cut, dataBuf, seen, final>>
  BY DEF StreamInv, Finish, upstream, NoCallsInv, Ended
<1>2. items' = <<>>
  BY <1>1 DEF Finish, ItemsOf
<1>3. status' \in {"repair", "message"} /\ sawCandidate' \in BOOLEAN
  BY <1>1, <1>2 DEF Finish, TypeOK, looksLikeToolCallCandidate
<1>4. TypeOK'
  BY <1>1, <1>3 DEF TypeOK, Prefix, Line
<1>5. ReadInv' /\ GrowInv' /\ NoCallsInv' /\ ItemsInv'
  BY <1>1, <1>2, <1>3 DEF ReadInv, GrowInv, EventsAsWritten, NoCallsInv, ItemsInv, Prefix, Ended
<1> QED
  BY <1>4, <1>5 DEF StreamInv

LEMMA StepInv == StreamInv /\ [Next]_vars => StreamInv'
<1> SUFFICES ASSUME StreamInv, [Next]_vars PROVE StreamInv'
  OBVIOUS
<1>1. CASE BlankLine
  <2>1. /\ status = "reading" /\ line # "head" /\ line' = "none" /\ flush("reading")
        /\ cut' = FALSE /\ UNCHANGED <<answer, written>>
    BY <1>1 DEF BlankLine, StreamInv, ReadInv
  <2> QED
    BY <2>1, FlushInv
<1>2. CASE EndOfFile \/ EndInLine
  <2>1. /\ status = "reading" /\ flush("eof") /\ UNCHANGED <<answer, written, line>>
        /\ cut' \in BOOLEAN /\ (line = "head" => cut') /\ line \in {"none", "whole", "head", "tail"}
    BY <1>2 DEF EndOfFile, EndInLine, LastEvent, StreamInv, TypeOK
  <2> QED
    BY <2>1, FlushInv
<1>3. CASE UNCHANGED vars
  <2>1. UNCHANGED <<answer, written, line, cut, dataBuf, seen, final, sawCandidate, items, status>>
    BY <1>3 DEF vars, upstream, turn
  <2> QED
    BY <2>1 DEF StreamInv, TypeOK, Prefix, Line, ReadInv, Buffered, Newest, Delivered,
                GrowInv, EventsAsWritten, NoCallsInv, ItemsInv
<1> QED
  BY <1>1, <1>2, <1>3, DataLineInv, SecondDataLineInv, BrokenInv, FinishInv DEF Next

LEMMA Invariant == Spec => []StreamInv
  BY InitInv, StepInv, PTL DEF Spec

-----------------------------------------------------------------------------
(* Every variable keeps its type; in particular the buffer never holds more *)
(* than the lines of one event (graph_client.go:163-229).                    *)
THEOREM TypeCorrect == Spec => []TypeOK
<1>1. StreamInv => TypeOK
  BY DEF StreamInv
<1> QED
  BY <1>1, Invariant, PTL

(* The callback gets every event once, whole and in order, except for one  *)
(* the connection was cut in (graph_client.go:163-229).                     *)
THEOREM EventsDelivered == Spec => []EventsAsWritten
<1>1. StreamInv => EventsAsWritten
  BY DEF StreamInv, GrowInv
<1> QED
  BY <1>1, Invariant, PTL

(* The second parse finds nothing, whatever the parser does with a text    *)
(* that is not blank (executor.go:248-257, 413-426).                        *)
THEOREM NothingLeftToParse == Spec => []SecondParseFindsNothing
<1>1. StreamInv => SecondParseFindsNothing
  BY DEF StreamInv, NoCallsInv, SecondParseFindsNothing, Ended, ItemsOf
<1> QED
  BY <1>1, Invariant, PTL

-----------------------------------------------------------------------------
(* Induction from the end of a text, and functions defined from there.     *)

Less == {p \in Nat \X Nat : p[1] < p[2]}

LEMMA LessWellFounded == IsWellFoundedOn(Less, Nat)
BY NatLessThanWellFounded, Zenon DEF Less, OpToRel

LEMMA LeastMember ==
    ASSUME NEW S \in SUBSET Nat, S # {}
    PROVE  \E n \in S : \A m \in S : n =< m
<1>1. PICK x \in S : \A y \in S : ~ (<<y, x>> \in Less)
  BY LessWellFounded, WFMin
<1>2. ASSUME NEW y \in S PROVE x =< y
  <2>1. x \in Nat /\ y \in Nat
    OBVIOUS
  <2>2. <<y, x>> \in Nat \X Nat /\ <<y, x>>[1] = y /\ <<y, x>>[2] = x
    BY <2>1
  <2>3. ~(y < x)
    BY <1>1, <2>2 DEF Less
  <2> QED
    BY <2>1, <2>3
<1> QED
  BY <1>2

LEMMA FromTheEnd ==
    ASSUME NEW n \in Nat, NEW P \in SUBSET Nat,
           \A i \in Nat : i > n => i \in P,
           \A i \in Nat : (\A j \in Nat : j > i => j \in P) => i \in P
    PROVE  P = Nat
<1> SUFFICES ASSUME Nat \ P # {} PROVE FALSE
  OBVIOUS
<1> DEFINE T == {n - i : i \in Nat \ P}
<1>1. \A i \in Nat \ P : n - i \in Nat
  OBVIOUS
<1>2. T # {} /\ T \in SUBSET Nat
  BY <1>1
<1>3. PICK x \in T : \A y \in T : x =< y
  <2> HIDE DEF T
  <2> QED
    BY <1>2, LeastMember
<1>4. PICK i \in Nat \ P : x = n - i
  OBVIOUS
<1>5. ASSUME NEW j \in Nat \ P PROVE n - i =< n - j
  <2>1. n - j \in T
    OBVIOUS
  <2> HIDE DEF T
  <2> QED
    BY <1>3, <1>4, <2>1
<1>6. ASSUME NEW j \in Nat, j > i PROVE j \in P
  BY <1>5, <1>6
<1> QED
  BY <1>4, <1>6

LEMMA Upwards ==
    ASSUME NEW P \in SUBSET Nat, 0 \in P, \A i \in P : i + 1 \in P
    PROVE  P = Nat
<1> SUFFICES ASSUME Nat \ P # {} PROVE FALSE
  OBVIOUS
<1>1. PICK x \in Nat \ P : \A y \in Nat \ P : x =< y
  BY LeastMember
<1>2. x - 1 \in Nat /\ x = (x - 1) + 1
  OBVIOUS
<1>3. x - 1 \in P
  BY <1>1, <1>2
<1> QED
  BY <1>1, <1>2, <1>3

\* A list that is put together from i on: next[i] is where it goes on, 0 where
\* it ends.
Chained(f, next, add) ==
    [i \in Nat |-> IF next[i] = 0 THEN <<>> ELSE add[i] \o f[next[i]]]

\* It goes forward, and ends behind n.
Forward(next, n) == \A i \in Nat : next[i] # 0 => next[i] \in Nat /\ next[i] > i /\ i =< n

LEMMA ChainExists ==
    ASSUME NEW n \in Nat, NEW next, NEW add, Forward(next, n)
    PROVE  \E f : f = Chained(f, next, add)
<1> DEFINE Step(f, i) == IF next[i] = 0 THEN <<>> ELSE add[i] \o f[next[i]]
           Good(f, j) == f = [i \in Nat |-> f[i]] /\ \A i \in Nat : i >= j => f[i] = Step(f, i)
           P == {j \in Nat : \E f : Good(f, j)}
<1>1. ASSUME NEW j \in Nat, j > n PROVE j \in P
  <2> DEFINE f == [i \in Nat |-> <<>>]
  <2>1. \A i \in Nat : i >= j => next[i] = 0
    BY <1>1 DEF Forward
  <2>2. Good(f, j)
    BY <2>1
  <2> QED
    BY <2>2
<1>2. ASSUME NEW j \in Nat, \A k \in Nat : k > j => k \in P PROVE j \in P
  <2>1. PICK f : Good(f, j + 1)
    <3>1. j + 1 \in P
      BY <1>2
    <3> QED
      BY <3>1
  <2> DEFINE g == [i \in Nat |-> IF i = j THEN Step(f, j) ELSE f[i]]
  <2>2. ASSUME NEW i \in Nat, i >= j PROVE g[i] = Step(g, i)
    <3>1. next[i] = 0 \/ (next[i] \in Nat /\ next[i] > j /\ g[next[i]] = f[next[i]])
      BY <2>2 DEF Forward
    <3>2. Step(g, i) = Step(f, i)
      BY <3>1
    <3>3. i = j \/ f[i] = Step(f, i)
      <4>1. i = j \/ i >= j + 1
        BY <2>2
      <4>2. \A k \in Nat : k >= j + 1 => f[k] = Step(f, k)
        BY <2>1, Zenon
      <4> HIDE DEF Step
      <4> QED
        BY <4>1, <4>2
    <3>4. g[i] = Step(f, i)
      BY <3>3, Zenon
    <3> QED
      BY <3>2, <3>4
  <2>3. Good(g, j)
    <3>1. g = [i \in Nat |-> g[i]]
      OBVIOUS
    <3> QED
      BY <2>2, <3>1
  <2> QED
    BY <2>3
<1>3. 0 \in P
  <2> HIDE DEF P
  <2>1. P \in SUBSET Nat
    BY DEF P
  <2>2. P = Nat
    BY <1>1, <1>2, <2>1, FromTheEnd
  <2> QED
    BY <2>2
<1>4. PICK f : Good(f, 0)
  BY <1>3
<1>5. f = [i \in Nat |-> Step(f, i)]
  BY <1>4
<1> QED
  BY <1>5 DEF Chained
IsChain(f, next, add) == \A i \in Nat : f[i] = Chained(f, next, add)[i]

LEMMA ChainInSeq ==
    ASSUME NEW C, NEW n \in Nat, NEW next, NEW add, NEW f, Forward(next, n),
           IsChain(f, next, add), \A i \in Nat : next[i] # 0 => add[i] \in Seq(C)
    PROVE  \A i \in Nat : f[i] \in Seq(C)
<1> DEFINE P == {i \in Nat : f[i] \in Seq(C)}
<1>1. ASSUME NEW i \in Nat, next[i] # 0 => f[next[i]] \in Seq(C) PROVE i \in P
  <2>1. CASE next[i] = 0
    <3>1. f[i] = <<>>
      BY <2>1 DEF IsChain, Chained
    <3> QED
      BY <3>1, EmptySeq
  <2>2. CASE next[i] # 0
    <3>1. f[i] = add[i] \o f[next[i]]
      BY <2>2 DEF IsChain, Chained
    <3> QED
      BY <1>1, <2>2, <3>1, ConcatProperties
  <2> QED
    BY <2>1, <2>2
<1>2. \A i \in Nat : i > n => i \in P
  BY <1>1 DEF Forward
<1>3. \A i \in Nat : (\A j \in Nat : j > i => j \in P) => i \in P
  BY <1>1 DEF Forward
<1> HIDE DEF P
<1>4. P \in SUBSET Nat
  BY DEF P
<1>5. P = Nat
  BY <1>2, <1>3, <1>4, FromTheEnd
<1> QED
  BY <1>5 DEF P

\* Two lists over C: where the first one goes on, the second one does alike.
Alike(C, n, f, next, add, g, next2, add2) ==
    /\ n \in Nat /\ Forward(next, n) /\ IsChain(f, next, add) /\ IsChain(g, next2, add2)
    /\ \A i \in Nat : f[i] \in Seq(C) /\ g[i] \in Seq(C)
    /\ \A i \in Nat \ {0} : next[i] # 0 =>
           add[i] \in Seq(C) /\ next2[i] = next[i] /\ add2[i] = add[i]

\* Then the first one is the beginning of the second one.
LEMMA ChainExtends ==
    ASSUME NEW C, NEW n, NEW f, NEW next, NEW add, NEW g, NEW next2, NEW add2,
           Alike(C, n, f, next, add, g, next2, add2)
    PROVE  \E u \in Seq(C) : g[1] = f[1] \o u
<1> USE DEF Alike
<1> DEFINE P == {i \in Nat : i = 0 \/ \E u \in Seq(C) : g[i] = f[i] \o u}
<1>1. ASSUME NEW i \in Nat, next[i] # 0 => next[i] \in P PROVE i \in P
  <2>0. CASE i = 0
    BY <2>0
  <2>1. CASE i # 0 /\ next[i] = 0
    <3>1. f[i] = <<>>
      BY <2>1 DEF IsChain, Chained
    <3>2. g[i] \in Seq(C) /\ g[i] = f[i] \o g[i]
      BY <3>1, ConcatEmptySeq
    <3> QED
      BY <3>2
  <2>2. CASE i # 0 /\ next[i] # 0
    <3>1. f[i] = add[i] \o f[next[i]] /\ g[i] = add[i] \o g[next[i]]
      BY <2>2 DEF IsChain, Chained
    <3>2. PICK u \in Seq(C) : g[next[i]] = f[next[i]] \o u
      BY <1>1, <2>2 DEF Forward
    <3>3. add[i] \in Seq(C) /\ f[next[i]] \in Seq(C)
      BY <2>2 DEF Forward
    <3>4. g[i] = f[i] \o u
      <4> DEFINE a == add[i]
                 b == f[next[i]]
      <4>0. a \in Seq(C) /\ b \in Seq(C) /\ u \in Seq(C)
        BY <3>3
      <4>1. (a \o b) \o u = a \o (b \o u)
        <5> HIDE DEF a, b
        <5> QED
          BY <4>0, ConcatAssociative
      <4> QED
        BY <3>1, <3>2, <4>1, Zenon
    <3> QED
      BY <3>4
  <2> QED
    BY <2>0, <2>1, <2>2
<1>2. \A i \in Nat : i > n => i \in P
  <2> HIDE DEF P
  <2> QED
    BY <1>1 DEF Forward
<1>3. \A i \in Nat : (\A j \in Nat : j > i => j \in P) => i \in P
  <2> HIDE DEF P
  <2> QED
    BY <1>1 DEF Forward
<1> HIDE DEF P
<1>4. P \in SUBSET Nat
  BY DEF P
<1>5. P = Nat
  BY <1>2, <1>3, <1>4, FromTheEnd
<1>6. 1 \in P /\ 1 # 0
  BY <1>5
<1> QED
  BY <1>6 DEF P

-----------------------------------------------------------------------------
(* Texts and their beginnings.                                             *)

LEMMA IndexIsLeast ==
    ASSUME NEW T, NEW t \in Seq(T), NEW M, NEW i \in Nat
    PROVE  \/ Index(t, M, i) = 0 /\ \A k \in i..Len(t) : t[k] \notin M
           \/ /\ Index(t, M, i) \in i..Len(t) /\ t[Index(t, M, i)] \in M
              /\ \A k \in i..Len(t) : t[k] \in M => Index(t, M, i) =< k
<1> DEFINE found == {j \in i..Len(t) : t[j] \in M}
<1>0. Len(t) \in Nat /\ found \in SUBSET Nat
  BY LenProperties
<1>1. CASE found = {}
  BY <1>1 DEF Index
<1>2. CASE found # {}
  <2>1. \E j \in found : \A k \in found : j =< k
    <3> HIDE DEF found
    <3> QED
      BY <1>0, <1>2, LeastMember
  <2>2. Index(t, M, i) = CHOOSE j \in found : \A k \in found : j =< k
    BY <1>2 DEF Index
  <2>3. Index(t, M, i) \in found /\ \A k \in found : Index(t, M, i) =< k
    BY <2>1, <2>2
  <2> QED
    BY <2>3
<1> QED
  BY <1>1, <1>2

LEMMA PartOfPrefix ==
    ASSUME NEW T, NEW t \in Seq(T), NEW n \in 0..Len(t), NEW a \in Nat \ {0}, NEW b \in Int, b =< n
    PROVE  SubSeq(SubSeq(t, 1, n), a, b) = SubSeq(t, a, b)
<1>0. Len(t) \in Nat
  BY LenProperties
<1>1. CASE b < a
  BY <1>1, SubSeqEmpty
<1>2. CASE b >= a
  <2>1. /\ 1 \in 1..Len(t) /\ n \in 1..Len(t) /\ a \in 1..(n - 1 + 1) /\ b \in 1..(n - 1 + 1)
        /\ 1 + a - 1 = a /\ 1 + b - 1 = b
    BY <1>0, <1>2
  <2>2. SubSeq(SubSeq(t, 1, n), a, b) = SubSeq(t, 1 + a - 1, 1 + b - 1)
    BY <2>1, SubSeqOfSubSeq
  <2> QED
    BY <2>1, <2>2
<1> QED
  BY <1>0, <1>1, <1>2

LEMMA IndexOfPrefix ==
    ASSUME NEW T, NEW t \in Seq(T), NEW n \in 0..Len(t), NEW M, NEW i \in Nat \ {0},
           Index(SubSeq(t, 1, n), M, i) # 0
    PROVE  Index(t, M, i) = Index(SubSeq(t, 1, n), M, i)
<1> DEFINE p == SubSeq(t, 1, n)
<1>1. Len(t) \in Nat /\ p \in Seq(T) /\ Len(p) = n /\ \A k \in 1..n : p[k] = t[k]
  BY LenProperties, SubSeqProperties
<1> HIDE DEF p
<1>2. /\ Index(p, M, i) \in i..n /\ p[Index(p, M, i)] \in M
      /\ \A k \in i..n : p[k] \in M => Index(p, M, i) =< k
  BY <1>1, IndexIsLeast DEF p
<1>3. /\ Index(p, M, i) \in i..Len(t) /\ t[Index(p, M, i)] \in M
      /\ \A k \in i..Len(t) : t[k] \in M => Index(p, M, i) =< k
  BY <1>1, <1>2
<1>4. \/ Index(t, M, i) = 0 /\ \A k \in i..Len(t) : t[k] \notin M
      \/ /\ Index(t, M, i) \in i..Len(t) /\ t[Index(t, M, i)] \in M
         /\ \A k \in i..Len(t) : t[k] \in M => Index(t, M, i) =< k
  BY IndexIsLeast
<1>5. Index(t, M, i) = Index(p, M, i)
  BY <1>1, <1>3, <1>4
<1> QED
  BY <1>5 DEF p
-----------------------------------------------------------------------------
(* The blocks of a text and of its beginnings.                             *)

\* The block read from i on, and the calls it adds.
BlockFrom(t, i) == Index(t, {BlockStart}, i)
EndFrom(t, i) == IF BlockFrom(t, i) = 0 THEN 0 ELSE blockEnd(t, BlockFrom(t, i) + 1)
CallFrom(t, i) == parseV2ToolCallBlock(SubSeq(t, BlockFrom(t, i) + 1, EndFrom(t, i) - 1))

V2Next(t) == [i \in Nat |-> IF EndFrom(t, i) = 0 THEN 0 ELSE resume(BlockFrom(t, i), EndFrom(t, i))]
V2Add(t) == [i \in Nat |-> IF CallFrom(t, i) = NoCall THEN <<>> ELSE <<CallFrom(t, i)>>]

\* All that a block of t may be read as.
V2Calls(t) == {parseV2ToolCallBlock(SubSeq(t, a, b)) : a \in Int, b \in Int}

LEMMA BlockFound ==
    ASSUME NEW T, NEW t \in Seq(T), NEW i \in Nat, EndFrom(t, i) # 0
    PROVE  /\ BlockFrom(t, i) \in i..Len(t) /\ BlockFrom(t, i) # 0
           /\ t[BlockFrom(t, i)] = BlockStart
           /\ \A k \in i..Len(t) : t[k] = BlockStart => BlockFrom(t, i) =< k
           /\ EndFrom(t, i) \in (BlockFrom(t, i) + 1)..Len(t)
           /\ t[EndFrom(t, i)] = BlockEnd
           /\ \A k \in (BlockFrom(t, i) + 1)..Len(t) : t[k] = BlockEnd => EndFrom(t, i) =< k
<1>0. Len(t) \in Nat
  BY LenProperties
<1>1. BlockFrom(t, i) # 0 /\ EndFrom(t, i) = Index(t, {BlockEnd}, BlockFrom(t, i) + 1)
  BY DEF EndFrom, blockEnd
<1>2. /\ BlockFrom(t, i) \in i..Len(t) /\ t[BlockFrom(t, i)] = BlockStart
      /\ \A k \in i..Len(t) : t[k] = BlockStart => BlockFrom(t, i) =< k
  <2>1. \/ Index(t, {BlockStart}, i) = 0 /\ \A k \in i..Len(t) : t[k] \notin {BlockStart}
        \/ /\ Index(t, {BlockStart}, i) \in i..Len(t) /\ t[Index(t, {BlockStart}, i)] \in {BlockStart}
           /\ \A k \in i..Len(t) : t[k] \in {BlockStart} => Index(t, {BlockStart}, i) =< k
    BY IndexIsLeast
  <2> QED
    BY <1>1, <2>1 DEF BlockFrom
<1>3. BlockFrom(t, i) + 1 \in Nat
  BY <1>0, <1>2
<1>4. /\ EndFrom(t, i) \in (BlockFrom(t, i) + 1)..Len(t)
      /\ t[EndFrom(t, i)] = BlockEnd
      /\ \A k \in (BlockFrom(t, i) + 1)..Len(t) : t[k] = BlockEnd => EndFrom(t, i) =< k
  <2> DEFINE j == BlockFrom(t, i) + 1
  <2>1. j \in Nat /\ EndFrom(t, i) = Index(t, {BlockEnd}, j)
    BY <1>1, <1>3
  <2> HIDE DEF j
  <2>2. \/ Index(t, {BlockEnd}, j) = 0 /\ \A k \in j..Len(t) : t[k] \notin {BlockEnd}
        \/ /\ Index(t, {BlockEnd}, j) \in j..Len(t) /\ t[Index(t, {BlockEnd}, j)] \in {BlockEnd}
           /\ \A k \in j..Len(t) : t[k] \in {BlockEnd} => Index(t, {BlockEnd}, j) =< k
    BY <2>1, IndexIsLeast
  <2>3. /\ EndFrom(t, i) \in j..Len(t) /\ t[EndFrom(t, i)] = BlockEnd
        /\ \A k \in j..Len(t) : t[k] = BlockEnd => EndFrom(t, i) =< k
    BY <2>1, <2>2
  <2> QED
    BY <2>3 DEF j
<1> QED
  BY <1>1, <1>2, <1>4

LEMMA V2Forward ==
    ASSUME NEW T, NEW t \in Seq(T)
    PROVE  Len(t) \in Nat /\ Forward(V2Next(t), Len(t))
<1>1. ASSUME NEW i \in Nat, V2Next(t)[i] # 0
      PROVE  V2Next(t)[i] \in Nat /\ V2Next(t)[i] > i /\ i =< Len(t)
  <2>1. EndFrom(t, i) # 0 /\ V2Next(t)[i] = EndFrom(t, i) + 1
    BY <1>1 DEF V2Next, resume
  <2>2. EndFrom(t, i) \in (BlockFrom(t, i) + 1)..Len(t) /\ BlockFrom(t, i) \in i..Len(t)
    BY <2>1, BlockFound
  <2> QED
    BY <2>1, <2>2, LenProperties
<1> QED
  BY <1>1, LenProperties DEF Forward

LEMMA V2Adds ==
    ASSUME NEW T, NEW t \in Seq(T)
    PROVE  \A i \in Nat : V2Next(t)[i] # 0 => V2Add(t)[i] \in Seq(V2Calls(t))
<1> SUFFICES ASSUME NEW i \in Nat, V2Next(t)[i] # 0 PROVE V2Add(t)[i] \in Seq(V2Calls(t))
  OBVIOUS
<1>0. EndFrom(t, i) # 0
  BY DEF V2Next
<1>1. BlockFrom(t, i) + 1 \in Int /\ EndFrom(t, i) - 1 \in Int
  <2>1. EndFrom(t, i) \in (BlockFrom(t, i) + 1)..Len(t) /\ BlockFrom(t, i) \in i..Len(t)
    BY <1>0, BlockFound
  <2> QED
    BY <2>1, LenProperties
<1>2. CallFrom(t, i) \in V2Calls(t)
  BY <1>1 DEF CallFrom, V2Calls
<1>3. <<>> \in Seq(V2Calls(t)) /\ <<CallFrom(t, i)>> \in Seq(V2Calls(t))
  BY <1>2, EmptySeq
<1> QED
  BY <1>3 DEF V2Add

\* What the loop computes is such a list.
LEMMA V2IsChain ==
    ASSUME NEW T, NEW t \in Seq(T)
    PROVE  \E f : /\ parseV2ToolCalls(t) = f[1] /\ IsChain(f, V2Next(t), V2Add(t))
                  /\ \A i \in Nat : f[i] \in Seq(V2Calls(t))
<1> DEFINE Loop(f) ==
             [i \in Nat |->
               LET start == Index(t, {BlockStart}, i)
                   end   == IF start = 0 THEN 0 ELSE blockEnd(t, start + 1)
                   call  == parseV2ToolCallBlock(SubSeq(t, start + 1, end - 1))
               IN  IF end = 0 THEN <<>>
                   ELSE (IF call = NoCall THEN <<>> ELSE <<call>>) \o f[resume(start, end)]]
           Chain(f) == Chained(f, V2Next(t), V2Add(t))
           f == CHOOSE f : f = Loop(f)
<1>1. ASSUME NEW h PROVE Loop(h) = Chain(h)
  <2>1. ASSUME NEW i \in Nat PROVE Loop(h)[i] = Chain(h)[i]
    <3>1. Loop(h)[i] = IF EndFrom(t, i) = 0 THEN <<>>
                       ELSE (IF CallFrom(t, i) = NoCall THEN <<>> ELSE <<CallFrom(t, i)>>)
                            \o h[resume(BlockFrom(t, i), EndFrom(t, i))]
      BY DEF BlockFrom, EndFrom, CallFrom
    <3>2. V2Next(t)[i] = IF EndFrom(t, i) = 0 THEN 0 ELSE resume(BlockFrom(t, i), EndFrom(t, i))
      BY DEF V2Next
    <3>3. V2Add(t)[i] = IF CallFrom(t, i) = NoCall THEN <<>> ELSE <<CallFrom(t, i)>>
      BY DEF V2Add
    <3>4. EndFrom(t, i) # 0 => resume(BlockFrom(t, i), EndFrom(t, i)) # 0
      <4>1. EndFrom(t, i) # 0 => EndFrom(t, i) \in (BlockFrom(t, i) + 1)..Len(t) /\ BlockFrom(t, i) \in i..Len(t)
        BY BlockFound
      <4> QED
        BY <4>1, LenProperties DEF resume
    <3>5. Chain(h)[i] = IF V2Next(t)[i] = 0 THEN <<>> ELSE V2Add(t)[i] \o h[V2Next(t)[i]]
      BY DEF Chained
    <3> HIDE DEF Loop, Chain
    <3> QED
      BY <3>1, <3>2, <3>3, <3>4, <3>5
  <2>2. Loop(h) = [i \in Nat |-> Loop(h)[i]] /\ Chain(h) = [i \in Nat |-> Chain(h)[i]]
    BY DEF Chained
  <2> HIDE DEF Loop, Chain
  <2> QED
    BY <2>1, <2>2
<1>2. \E h : h = Chain(h)
  <2>1. Len(t) \in Nat /\ Forward(V2Next(t), Len(t))
    BY V2Forward
  <2> QED
    BY <2>1, ChainExists, Zenon
<1>3. f = Loop(f)
  <2>1. PICK h : h = Chain(h)
    BY <1>2
  <2>2. h = Loop(h)
    BY <1>1, <2>1, Zenon
  <2> HIDE DEF Loop
  <2> QED
    BY <2>2
<1>4. f = Chain(f)
  BY <1>1, <1>3, Zenon
<1>5. parseV2ToolCalls(t) = f[1]
  BY DEF parseV2ToolCalls
<1> HIDE DEF f
<1>6. IsChain(f, V2Next(t), V2Add(t))
  BY <1>4 DEF IsChain
<1>7. \A i \in Nat : f[i] \in Seq(V2Calls(t))
  BY <1>6, V2Forward, V2Adds, ChainInSeq
<1> QED
  BY <1>5, <1>6, <1>7
\* A block of the beginning is a block of the text.
LEMMA BlockOfPrefix ==
    ASSUME NEW T, NEW t \in Seq(T), NEW n \in 0..Len(t), NEW i \in Nat \ {0},
           V2Next(SubSeq(t, 1, n))[i] # 0
    PROVE  /\ V2Next(t)[i] = V2Next(SubSeq(t, 1, n))[i]
           /\ V2Add(t)[i] = V2Add(SubSeq(t, 1, n))[i]
<1> DEFINE p == SubSeq(t, 1, n)
<1>1. p \in Seq(T) /\ Len(p) = n /\ n \in Nat
  BY LenProperties, SubSeqProperties
<1>2. V2Next(p)[i] = resume(BlockFrom(p, i), EndFrom(p, i)) /\ EndFrom(p, i) # 0
  BY DEF V2Next
<1>3. BlockFrom(p, i) \in i..n /\ BlockFrom(p, i) # 0 /\ EndFrom(p, i) \in (BlockFrom(p, i) + 1)..n
  <2> HIDE DEF p
  <2> QED
    BY <1>1, <1>2, BlockFound
<1>4. BlockFrom(t, i) = BlockFrom(p, i)
  BY <1>3, IndexOfPrefix DEF BlockFrom
<1>5. BlockFrom(p, i) + 1 \in Nat \ {0} /\ EndFrom(p, i) = Index(p, {BlockEnd}, BlockFrom(p, i) + 1)
  BY <1>2, <1>3 DEF EndFrom, blockEnd
<1>6. EndFrom(t, i) = EndFrom(p, i)
  <2>1. Index(t, {BlockEnd}, BlockFrom(p, i) + 1) = EndFrom(p, i)
    BY <1>2, <1>5, IndexOfPrefix
  <2> QED
    BY <1>3, <1>4, <2>1 DEF EndFrom, blockEnd
<1>7. CallFrom(t, i) = CallFrom(p, i)
  <2>1. EndFrom(p, i) - 1 \in Int /\ EndFrom(p, i) - 1 =< n
    BY <1>1, <1>3
  <2>2. SubSeq(p, BlockFrom(p, i) + 1, EndFrom(p, i) - 1) = SubSeq(t, BlockFrom(p, i) + 1, EndFrom(p, i) - 1)
    BY <1>5, <2>1, PartOfPrefix
  <2> QED
    BY <1>4, <1>6, <2>2 DEF CallFrom
<1> HIDE DEF p
<1>8. V2Next(t)[i] = V2Next(p)[i]
  BY <1>4, <1>6 DEF V2Next
<1>9. V2Add(t)[i] = V2Add(p)[i]
  BY <1>7 DEF V2Add
<1> QED
  BY <1>8, <1>9 DEF p

\* The calls of the beginning are the first calls of the text.
LEMMA V2OfPrefix ==
    ASSUME NEW T, NEW t \in Seq(T), NEW n \in 0..Len(t)
    PROVE  \E C : /\ parseV2ToolCalls(SubSeq(t, 1, n)) \in Seq(C)
                  /\ \E u \in Seq(C) : parseV2ToolCalls(t) = parseV2ToolCalls(SubSeq(t, 1, n)) \o u
<1> DEFINE p == SubSeq(t, 1, n)
<1>1. p \in Seq(T)
  BY LenProperties, SubSeqProperties
<1>2. \A i \in Nat \ {0} : V2Next(p)[i] # 0 => V2Next(t)[i] = V2Next(p)[i] /\ V2Add(t)[i] = V2Add(p)[i]
  BY BlockOfPrefix
<1> HIDE DEF p
<1>3. PICK f : /\ parseV2ToolCalls(p) = f[1] /\ IsChain(f, V2Next(p), V2Add(p))
               /\ \A i \in Nat : f[i] \in Seq(V2Calls(p))
  BY <1>1, V2IsChain
<1>4. PICK g : /\ parseV2ToolCalls(t) = g[1] /\ IsChain(g, V2Next(t), V2Add(t))
               /\ \A i \in Nat : g[i] \in Seq(V2Calls(t))
  BY V2IsChain
<1>5. PICK C : Seq(V2Calls(p)) \subseteq Seq(C) /\ Seq(V2Calls(t)) \subseteq Seq(C)
  <2> DEFINE C == V2Calls(p) \cup V2Calls(t)
  <2>1. Seq(V2Calls(p)) \subseteq Seq(C) /\ Seq(V2Calls(t)) \subseteq Seq(C)
    BY SeqMonotonic
  <2> QED
    BY <2>1
<1>6. Len(p) \in Nat /\ Forward(V2Next(p), Len(p))
  BY <1>1, V2Forward
<1>7. \A i \in Nat : V2Next(p)[i] # 0 => V2Add(p)[i] \in Seq(C)
  BY <1>1, <1>5, V2Adds
<1>8. \A i \in Nat : f[i] \in Seq(C) /\ g[i] \in Seq(C)
  BY <1>3, <1>4, <1>5
<1>9. \E u \in Seq(C) : g[1] = f[1] \o u
  <2>1. Alike(C, Len(p), f, V2Next(p), V2Add(p), g, V2Next(t), V2Add(t))
    BY <1>2, <1>3, <1>4, <1>6, <1>7, <1>8 DEF Alike
  <2> QED
    BY <2>1, ChainExtends, SMTT(30)
<1> QED
  BY <1>3, <1>4, <1>8, <1>9 DEF p
-----------------------------------------------------------------------------
(* The first object of a text and of its beginnings.                       *)

\* No object opens with a mark, a fence or a closing brace.
LEMMA Openings ==
    /\ Closing \notin Opening /\ Fence \notin Opening /\ Fence # Closing
    /\ \A m \in Marks : m \notin Opening \cup {Closing}
    /\ DOMAIN Bare \subseteq Opening
BY BareAssumption DEF BareAssumption, Opening, Closing, Fence, Marks,
   NameStart, NameEnd, ArgsStart, ArgsEnd, InputStart, InputEnd

Depth(s, start, i) == Count(s, start, i, Opening) - Count(s, start, i, {Closing})

LEMMA CountStep ==
    ASSUME NEW s, NEW start \in Nat, NEW i \in Nat, NEW S
    PROVE  /\ Count(s, start, i, S) \in Nat
           /\ i < start => Count(s, start, i, S) = 0
           /\ i + 1 >= start =>
                Count(s, start, i + 1, S) = Count(s, start, i, S) + (IF s[i + 1] \in S THEN 1 ELSE 0)
<1> DEFINE A == {k \in start..i : s[k] \in S}
           B == {k \in start..(i + 1) : s[k] \in S}
<1>1. IsFiniteSet(A)
  <2>1. IsFiniteSet(start..i) /\ A \in SUBSET (start..i)
    BY FS_Interval
  <2> HIDE DEF A
  <2> QED
    BY <2>1, FS_Subset
<1>2. Count(s, start, i, S) = Cardinality(A) /\ Count(s, start, i + 1, S) = Cardinality(B)
  BY DEF Count
<1>3. i < start => A = {}
  OBVIOUS
<1>4. i + 1 >= start => B = IF s[i + 1] \in S THEN A \cup {i + 1} ELSE A
  OBVIOUS
<1>5. i + 1 \notin A
  OBVIOUS
<1> HIDE DEF A, B
<1>6. Cardinality(A) \in Nat
  BY <1>1, FS_CardinalityType
<1>7. Cardinality(A \cup {i + 1}) = Cardinality(A) + 1
  BY <1>1, <1>5, FS_AddElement
<1>8. A = {} => Cardinality(A) = 0
  BY FS_EmptySet
<1> QED
  BY <1>2, <1>3, <1>4, <1>6, <1>7, <1>8

\* One brace, or another token.
Brace(x) == IF x \in Opening THEN 1 ELSE IF x = Closing THEN -1 ELSE 0

LEMMA DepthStep ==
    ASSUME NEW s, NEW start \in Nat, NEW i \in Nat
    PROVE  /\ Depth(s, start, i) \in Int
           /\ i < start => Depth(s, start, i) = 0
           /\ i + 1 >= start => Depth(s, start, i + 1) = Depth(s, start, i) + Brace(s[i + 1])
<1> DEFINE a == Count(s, start, i, Opening)
           b == Count(s, start, i, {Closing})
           c == Count(s, start, i + 1, Opening)
           d == Count(s, start, i + 1, {Closing})
<1>1. /\ a \in Nat /\ b \in Nat
      /\ i < start => a = 0 /\ b = 0
      /\ i + 1 >= start => /\ c = a + (IF s[i + 1] \in Opening THEN 1 ELSE 0)
                           /\ d = b + (IF s[i + 1] \in {Closing} THEN 1 ELSE 0)
  <2>1. \A S : /\ Count(s, start, i, S) \in Nat
               /\ i < start => Count(s, start, i, S) = 0
               /\ i + 1 >= start => Count(s, start, i + 1, S)
                                      = Count(s, start, i, S) + (IF s[i + 1] \in S THEN 1 ELSE 0)
    BY CountStep, ZenonT(60)
  <2> QED
    BY <2>1, Zenon
<1>2. Closing \notin Opening
  BY Openings
<1>3. Depth(s, start, i) = a - b /\ Depth(s, start, i + 1) = c - d
  BY DEF Depth
<1> HIDE DEF a, b, c, d
<1> QED
  BY <1>1, <1>2, <1>3 DEF Brace

\* The function the code keeps as a counter is the number of open braces.
DepthFrom(s, start, f) == [i \in Nat |-> IF i < start THEN 0 ELSE f[i - 1] + Brace(s[i])]

LEMMA DepthCounts ==
    ASSUME NEW s, NEW start \in Nat \ {0}, NEW f, f = CHOOSE g : g = DepthFrom(s, start, g)
    PROVE  \A i \in Nat : f[i] = Depth(s, start, i)
<1> DEFINE h == [i \in Nat |-> Depth(s, start, i)]
           P == {i \in Nat : f[i] = Depth(s, start, i)}
<1>1. \A i \in Nat : h[i] = IF i < start THEN 0 ELSE h[i - 1] + Brace(s[i])
  <2> SUFFICES ASSUME NEW i \in Nat PROVE h[i] = IF i < start THEN 0 ELSE h[i - 1] + Brace(s[i])
    OBVIOUS
  <2>1. CASE i < start
    BY <2>1, DepthStep
  <2>2. CASE ~(i < start)
    <3>1. i - 1 \in Nat /\ (i - 1) + 1 = i /\ (i - 1) + 1 >= start
      BY <2>2
    <3>2. Depth(s, start, (i - 1) + 1) = Depth(s, start, i - 1) + Brace(s[(i - 1) + 1])
      BY <3>1, DepthStep
    <3> QED
      BY <2>2, <3>1, <3>2
  <2> QED
    BY <2>1, <2>2
<1>2. h = DepthFrom(s, start, h)
  BY <1>1 DEF DepthFrom
<1>3. f = DepthFrom(s, start, f)
  <2> HIDE DEF h
  <2> QED
    BY <1>2
<1>4. \A i \in Nat : f[i] = IF i < start THEN 0 ELSE f[i - 1] + Brace(s[i])
  <2>1. \A i \in Nat : DepthFrom(s, start, f)[i] = IF i < start THEN 0 ELSE f[i - 1] + Brace(s[i])
    BY DEF DepthFrom
  <2> QED
    BY <1>3, <2>1
<1>5. 0 \in P
  <2>1. 0 \in Nat /\ 0 < start
    OBVIOUS
  <2>2. f[0] = 0 /\ Depth(s, start, 0) = 0
    BY <1>4, <2>1, DepthStep
  <2> QED
    BY <2>2
<1>6. ASSUME NEW i \in P PROVE i + 1 \in P
  <2>1. CASE i + 1 < start
    BY <1>4, <2>1, DepthStep
  <2>2. CASE ~(i + 1 < start)
    <3>1. f[i + 1] = f[i] + Brace(s[i + 1])
      <4>1. i + 1 \in Nat /\ (i + 1) - 1 = i
        OBVIOUS
      <4> QED
        BY <1>4, <2>2, <4>1
    <3>2. Depth(s, start, i + 1) = Depth(s, start, i) + Brace(s[i + 1])
      BY <2>2, DepthStep
    <3> QED
      BY <3>1, <3>2
  <2> QED
    BY <2>1, <2>2
<1> HIDE DEF P
<1>7. P \in SUBSET Nat
  BY DEF P
<1>8. P = Nat
  BY <1>5, <1>6, <1>7, Upwards
<1> QED
  BY <1>8 DEF P

\* Where the object that begins at start may end.
Ends(s, start) == {i \in start..Len(s) : Depth(s, start, i) = 0}

LEMMA ObjectFound ==
    ASSUME NEW T, NEW s \in Seq(T)
    PROVE  LET start == Index(s, Opening, 1)
           IN  \/ /\ start = 0 \/ Ends(s, start) = {}
                  /\ extractJSONObject(s) = <<>>
               \/ /\ start \in 1..Len(s)
                  /\ \E e \in Ends(s, start) : /\ \A k \in Ends(s, start) : e =< k
                                               /\ extractJSONObject(s) = SubSeq(s, start, e)
<1> DEFINE start == Index(s, Opening, 1)
           depth == CHOOSE f : f = DepthFrom(s, start, f)
           closed == {i \in start..Len(s) : depth[i] = 0}
<1>1. extractJSONObject(s) = IF start = 0 \/ closed = {} THEN <<>>
                             ELSE SubSeq(s, start, CHOOSE i \in closed : \A k \in closed : i =< k)
  BY DEF extractJSONObject, DepthFrom, Brace
<1>2. start = 0 \/ start \in 1..Len(s)
  BY IndexIsLeast
<1>3. Len(s) \in Nat
  BY LenProperties
<1> HIDE DEF start
<1>4. CASE start = 0
  BY <1>1, <1>4 DEF start
<1>5. CASE start # 0
  <2>1. start \in Nat \ {0}
    BY <1>2, <1>3, <1>5
  <2>2. \A i \in Nat : depth[i] = Depth(s, start, i)
    BY <2>1, DepthCounts
  <2>3. closed = Ends(s, start)
    <3> HIDE DEF depth
    <3> QED
      BY <1>3, <2>1, <2>2 DEF Ends
  <2> HIDE DEF closed
  <2>4. CASE closed = {}
    BY <1>1, <2>3, <2>4 DEF start
  <2>5. CASE closed # {}
    <3>1. closed \in SUBSET Nat
      BY <1>3, <2>1, <2>3 DEF Ends
    <3>2. \E i \in closed : \A k \in closed : i =< k
      BY <2>5, <3>1, LeastMember
    <3> DEFINE e == CHOOSE i \in closed : \A k \in closed : i =< k
    <3>3. e \in closed /\ \A k \in closed : e =< k
      BY <3>2
    <3>4. extractJSONObject(s) = SubSeq(s, start, e)
      BY <1>1, <1>5, <2>5
    <3> HIDE DEF e
    <3> QED
      BY <1>2, <1>5, <2>3, <3>3, <3>4 DEF start
  <2> QED
    BY <2>4, <2>5
<1> QED
  BY <1>4, <1>5
LEMMA DepthOfPrefix ==
    ASSUME NEW T, NEW t \in Seq(T), NEW n \in 0..Len(t), NEW start \in Nat \ {0}, NEW i \in 0..n
    PROVE  Depth(SubSeq(t, 1, n), start, i) = Depth(t, start, i)
<1> DEFINE p == SubSeq(t, 1, n)
<1>1. \A k \in start..i : p[k] = t[k]
  BY LenProperties, SubSeqProperties
<1> HIDE DEF p
<1>2. \A S : {k \in start..i : p[k] \in S} = {k \in start..i : t[k] \in S}
  BY <1>1
<1>3. \A S : Count(p, start, i, S) = Count(t, start, i, S)
  BY <1>2, Zenon DEF Count
<1>4. Depth(p, start, i) = Depth(t, start, i)
  BY <1>3 DEF Depth
<1> QED
  BY <1>4 DEF p

\* An object that is complete in the beginning is the first one of the text.
LEMMA ObjectOfPrefix ==
    ASSUME NEW T, NEW t \in Seq(T), NEW n \in 0..Len(t),
           extractJSONObject(SubSeq(t, 1, n)) # <<>>
    PROVE  extractJSONObject(t) = extractJSONObject(SubSeq(t, 1, n))
<1> DEFINE p == SubSeq(t, 1, n)
           start == Index(p, Opening, 1)
<1>1. p \in Seq(T) /\ Len(p) = n /\ n \in Nat /\ Len(t) \in Nat
  BY LenProperties, SubSeqProperties
<1>2. PICK e \in Ends(p, start) : /\ start \in 1..n
                                  /\ \A k \in Ends(p, start) : e =< k
                                  /\ extractJSONObject(p) = SubSeq(p, start, e)
  <2> HIDE DEF p
  <2> QED
    BY <1>1, ObjectFound DEF p
<1>3. start \in Nat \ {0} /\ Index(t, Opening, 1) = start
  <2>1. start # 0
    BY <1>2
  <2>2. Index(t, Opening, 1) = start
    BY <2>1, IndexOfPrefix
  <2> HIDE DEF start
  <2> QED
    BY <1>2, <2>2
<1>4. \A i \in 0..n : Depth(p, start, i) = Depth(t, start, i)
  <2> HIDE DEF start
  <2> QED
    BY <1>3, DepthOfPrefix
<1> HIDE DEF p, start
<1>5. e \in start..n /\ Depth(p, start, e) = 0
  BY <1>1, <1>2 DEF Ends
<1>6. e \in Ends(t, start)
  BY <1>1, <1>3, <1>4, <1>5 DEF Ends
<1>7. ASSUME NEW k \in Ends(t, start) PROVE e =< k
  <2>1. k \in start..Len(t) /\ Depth(t, start, k) = 0
    BY <1>7 DEF Ends
  <2>2. CASE k =< n
    <3>1. k \in Ends(p, start)
      BY <1>1, <1>3, <1>4, <2>1, <2>2 DEF Ends
    <3> QED
      BY <1>2, <3>1
  <2> QED
    BY <1>1, <1>3, <1>5, <2>1, <2>2
<1>8. PICK d \in Ends(t, start) : /\ \A k \in Ends(t, start) : d =< k
                                  /\ extractJSONObject(t) = SubSeq(t, start, d)
  BY <1>3, <1>6, ObjectFound
<1>9. d = e
  <2>1. d =< e /\ e =< d /\ d \in Int /\ e \in Int
    BY <1>1, <1>3, <1>5, <1>6, <1>7, <1>8 DEF Ends
  <2> QED
    BY <2>1
<1>10. SubSeq(p, start, e) = SubSeq(t, start, e)
  BY <1>1, <1>3, <1>5, PartOfPrefix DEF p
<1>11. extractJSONObject(t) = extractJSONObject(p)
  BY <1>2, <1>8, <1>9, <1>10
<1> QED
  BY <1>11 DEF p

LastFence(s) == SelectLastInSeq(s, LAMBDA x : x = Fence)

LEMMA LastFenceIsLast ==
    ASSUME NEW T, NEW s \in Seq(T)
    PROVE  \/ LastFence(s) = 0 /\ \A k \in 1..Len(s) : s[k] # Fence
           \/ /\ LastFence(s) \in 1..Len(s) /\ s[LastFence(s)] = Fence
              /\ \A k \in 1..Len(s) : s[k] = Fence => k =< LastFence(s)
<1> DEFINE I == {i \in 1..Len(s) : s[i] = Fence}
           B == {m \in Nat : \A i \in I : i =< m}
<1>0. Len(s) \in Nat
  BY LenProperties
<1>1. LastFence(s) = IF I # {} THEN Max(I) ELSE 0
  BY DEF LastFence, SelectLastInSeq
<1>2. CASE I = {}
  BY <1>1, <1>2
<1>3. CASE I # {}
  <2>1. PICK m \in B : \A k \in B : m =< k
    <3>1. Len(s) \in B /\ B \in SUBSET Nat
      BY <1>0
    <3> HIDE DEF B
    <3> QED
      BY <3>1, LeastMember
  <2>2. m \in I
    <3> SUFFICES ASSUME m \notin I PROVE FALSE
      OBVIOUS
    <3>1. PICK i \in I : TRUE
      BY <1>3
    <3>2. m - 1 \in Nat
      BY <1>0, <2>1, <3>1
    <3>3. \A k \in I : k =< m - 1
      BY <1>0, <2>1
    <3>4. m - 1 \in B
      BY <3>2, <3>3
    <3> QED
      BY <2>1, <3>4
  <2>3. \E x \in I : \A y \in I : x >= y
    BY <1>0, <2>1, <2>2
  <2>4. Max(I) \in I /\ \A y \in I : Max(I) >= y
    <3> HIDE DEF I
    <3> QED
      BY <2>3 DEF Max
  <2> QED
    BY <1>0, <1>1, <1>3, <2>4
<1> QED
  BY <1>2, <1>3
\* What follows the fence is a part of the text.
LEMMA Stripped ==
    ASSUME NEW T, NEW s \in Seq(T), s # <<>>
    PROVE  \/ Head(s) # Fence /\ stripMarkdownCodeFence(s) = s
           \/ /\ Head(s) = Fence
              /\ \E x \in 1..Len(s) :
                    /\ stripMarkdownCodeFence(s) = SubSeq(s, 2, x)
                    /\ x = Len(s) \/ s[x + 1] = Fence
                    /\ \A k \in 2..Len(s) : s[k] = Fence => k =< x + 1
                    /\ x = Len(s) => \A k \in 2..Len(s) : s[k] # Fence
<1> DEFINE last == LastFence(Tail(s))
<1>0. Len(s) \in Nat /\ Len(s) > 0
  BY LenProperties, EmptySeq
<1>1. CASE Head(s) # Fence
  BY <1>1 DEF stripMarkdownCodeFence
<1>2. CASE Head(s) = Fence
  <2>1. /\ Tail(s) \in Seq(T) /\ Len(Tail(s)) = Len(s) - 1
        /\ \A i \in 1..(Len(s) - 1) : Tail(s)[i] = s[i + 1]
    BY HeadTailProperties
  <2>2. \/ last = 0 /\ \A k \in 1..(Len(s) - 1) : Tail(s)[k] # Fence
        \/ /\ last \in 1..(Len(s) - 1) /\ Tail(s)[last] = Fence
           /\ \A k \in 1..(Len(s) - 1) : Tail(s)[k] = Fence => k =< last
    BY <2>1, LastFenceIsLast
  <2>3. stripMarkdownCodeFence(s) = IF last = 0 THEN SubSeq(s, 2, Len(s)) ELSE SubSeq(s, 2, last)
    BY <1>2, TailIsSubSeq DEF stripMarkdownCodeFence, LastFence
  <2>4. \A k \in 2..Len(s) : k - 1 \in 1..(Len(s) - 1) /\ Tail(s)[k - 1] = s[k]
    BY <1>0, <2>1
  <2> HIDE DEF last
  <2>5. CASE last = 0
    <3>1. \A k \in 2..Len(s) : s[k] # Fence
      BY <2>2, <2>4, <2>5
    <3>2. Len(s) \in 1..Len(s)
      BY <1>0
    <3> QED
      BY <1>2, <2>3, <2>5, <3>1, <3>2
  <2>6. CASE last # 0
    <3>1. last \in 1..(Len(s) - 1) /\ last # Len(s) /\ s[last + 1] = Fence
      BY <1>0, <2>1, <2>2, <2>6
    <3>2. \A k \in 2..Len(s) : s[k] = Fence => k =< last + 1
      BY <1>0, <2>2, <2>4, <2>6, <3>1, SMTT(30)
    <3>3. last \in 1..Len(s)
      BY <1>0, <3>1
    <3> QED
      BY <1>2, <2>3, <2>6, <3>1, <3>2, <3>3
  <2> QED
    BY <2>5, <2>6
<1> QED
  BY <1>1, <1>2

LEMMA FenceOfPrefix ==
    ASSUME NEW T, NEW t \in Seq(T), NEW n \in 1..Len(t)
    PROVE  /\ stripMarkdownCodeFence(t) \in Seq(T)
           /\ \E m \in 0..Len(stripMarkdownCodeFence(t)) :
                 stripMarkdownCodeFence(SubSeq(t, 1, n)) = SubSeq(stripMarkdownCodeFence(t), 1, m)
<1> DEFINE p == SubSeq(t, 1, n)
           u == stripMarkdownCodeFence(t)
<1>1. /\ p \in Seq(T) /\ Len(p) = n /\ n \in Nat /\ Len(t) \in Nat
      /\ \A k \in 1..n : p[k] = t[k]
  BY LenProperties, SubSeqProperties
<1>2. p # <<>> /\ t # <<>> /\ Head(p) = Head(t)
  <2>1. p # <<>> /\ t # <<>>
    BY <1>1, EmptySeq
  <2>2. Head(p) = p[1] /\ Head(t) = t[1] /\ p[1] = t[1]
    BY <1>1, <2>1
  <2> QED
    BY <2>1, <2>2
<1> HIDE DEF p
<1>3. CASE Head(t) # Fence
  <2>1. u = t /\ stripMarkdownCodeFence(p) = p
    BY <1>1, <1>2, <1>3, Stripped
  <2>2. n \in 0..Len(t)
    BY <1>1
  <2> HIDE DEF u
  <2> QED
    BY <2>1, <2>2 DEF p, u
<1>4. CASE Head(t) = Fence
  <2>1. PICK x \in 1..n :
          /\ stripMarkdownCodeFence(p) = SubSeq(p, 2, x)
          /\ x = n \/ p[x + 1] = Fence
          /\ x = n => \A k \in 2..n : p[k] # Fence
    BY <1>1, <1>2, <1>4, Stripped
  <2>2. PICK y \in 1..Len(t) :
          /\ u = SubSeq(t, 2, y)
          /\ \A k \in 2..Len(t) : t[k] = Fence => k =< y + 1
          /\ y = Len(t) \/ t[y + 1] = Fence
          /\ y = Len(t) => \A k \in 2..Len(t) : t[k] # Fence
    BY <1>2, <1>4, Stripped
  <2>3. x =< y
    <3>1. CASE x # n
      <4>1. x + 1 \in 2..n /\ x + 1 \in 2..Len(t) /\ x + 1 \in 1..n
        BY <1>1, <3>1
      <4>2. t[x + 1] = Fence
        BY <1>1, <2>1, <3>1, <4>1
      <4> QED
        BY <1>1, <2>2, <4>1, <4>2
    <3>2. CASE x = n /\ y < n
      <4>1. y + 1 \in 2..n /\ y + 1 \in 1..n /\ y # Len(t)
        BY <1>1, <3>2
      <4>2. p[y + 1] = Fence
        BY <1>1, <2>2, <4>1
      <4> QED
        BY <2>1, <3>2, <4>1, <4>2
    <3> QED
      BY <1>1, <3>1, <3>2
  <2>4. SubSeq(p, 2, x) = SubSeq(t, 2, x)
    BY <1>1, PartOfPrefix DEF p
  <2>5. u \in Seq(T) /\ Len(u) = y - 1
    BY <1>1, <2>2, SubSeqProperties
  <2>6. SubSeq(u, 1, x - 1) = SubSeq(t, 2, x)
    <3>1. CASE x = 1
      <4>1. SubSeq(u, 1, 0) = <<>> /\ SubSeq(t, 2, 1) = <<>>
        BY SubSeqEmpty
      <4> QED
        BY <3>1, <4>1
    <3>2. CASE x # 1
      <4>1. /\ 2 \in 1..Len(t) /\ y \in 1..Len(t)
            /\ 1 \in 1..(y - 2 + 1) /\ x - 1 \in 1..(y - 2 + 1)
            /\ 2 + 1 - 1 = 2 /\ 2 + (x - 1) - 1 = x
        BY <1>1, <2>3, <3>2
      <4>2. SubSeq(SubSeq(t, 2, y), 1, x - 1) = SubSeq(t, 2 + 1 - 1, 2 + (x - 1) - 1)
        BY <4>1, SubSeqOfSubSeq
      <4> QED
        BY <2>2, <4>1, <4>2
    <3> QED
      BY <3>1, <3>2
  <2>7. x - 1 \in 0..Len(u)
    BY <1>1, <2>3, <2>5
  <2> HIDE DEF u
  <2> QED
    BY <2>1, <2>4, <2>5, <2>6, <2>7 DEF p, u
<1> QED
  BY <1>1, <1>3, <1>4

\* A call without delimiters that is complete in the beginning is that of the text.
LEMMA V1OfPrefix ==
    ASSUME NEW T, NEW t \in Seq(T), NEW n \in 0..Len(t),
           parseV1ToolCall(SubSeq(t, 1, n)) # NoCall
    PROVE  parseV1ToolCall(t) = parseV1ToolCall(SubSeq(t, 1, n))
<1> DEFINE p == SubSeq(t, 1, n)
           u == stripMarkdownCodeFence(t)
           v == stripMarkdownCodeFence(p)
<1>1. Len(t) \in Nat
  BY LenProperties
<1>2. extractJSONObject(v) # <<>>
  BY DEF parseV1ToolCall, objectCall
<1>3. n # 0
  <2> SUFFICES ASSUME n = 0 PROVE FALSE
    OBVIOUS
  <2>1. p = <<>>
    BY SubSeqEmpty
  <2>2. v = <<>>
    BY <2>1 DEF stripMarkdownCodeFence
  <2>3. <<>> \in Seq(T) /\ Len(<<>>) = 0
    BY EmptySeq
  <2>4. extractJSONObject(<<>>) = <<>>
    <3> DEFINE s == <<>>
    <3>1. \/ extractJSONObject(s) = <<>>
          \/ Index(s, Opening, 1) \in 1..Len(s)
      BY <2>3, ObjectFound
    <3> QED
      BY <2>3, <3>1
  <2> QED
    BY <1>2, <2>2, <2>4
<1>4. u \in Seq(T) /\ \E m \in 0..Len(u) : v = SubSeq(u, 1, m)
  BY <1>1, <1>3, FenceOfPrefix
<1> HIDE DEF u, v
<1>5. extractJSONObject(u) = extractJSONObject(v)
  BY <1>2, <1>4, ObjectOfPrefix
<1>6. parseV1ToolCall(t) = parseV1ToolCall(p)
  BY <1>5 DEF parseV1ToolCall, u, v
<1> QED
  BY <1>6

-----------------------------------------------------------------------------
(* The items of a text and of its beginnings.                              *)

ItemNext(calls) == [k \in Nat |-> IF k \notin DOMAIN calls THEN 0 ELSE k + 1]
ItemAdd(calls) == [k \in Nat |-> IF buildToolCallItem(calls[k]) THEN <<calls[k]>> ELSE <<>>]

LEMMA ItemForward ==
    ASSUME NEW C, NEW calls \in Seq(C)
    PROVE  /\ Len(calls) \in Nat /\ Forward(ItemNext(calls), Len(calls))
           /\ \A k \in Nat : ItemNext(calls)[k] # 0 => ItemAdd(calls)[k] \in Seq(C)
<1>1. Len(calls) \in Nat /\ DOMAIN calls = 1..Len(calls) /\ \A k \in DOMAIN calls : calls[k] \in C
  BY LenProperties, ElementOfSeq
<1>2. \A k \in Nat : ItemNext(calls)[k] = IF k \notin DOMAIN calls THEN 0 ELSE k + 1
  BY DEF ItemNext
<1>3. ASSUME NEW k \in Nat, ItemNext(calls)[k] # 0 PROVE ItemAdd(calls)[k] \in Seq(C)
  <2>1. <<calls[k]>> \in Seq(C) /\ <<>> \in Seq(C)
    BY <1>1, <1>2, <1>3, EmptySeq
  <2> QED
    BY <2>1 DEF ItemAdd
<1> QED
  BY <1>1, <1>2, <1>3 DEF Forward

LEMMA ItemsAreChain ==
    ASSUME NEW C, NEW calls \in Seq(C)
    PROVE  \E f : /\ buildItems(calls) = f[1]
                  /\ IsChain(f, ItemNext(calls), ItemAdd(calls))
                  /\ \A k \in Nat : f[k] \in Seq(C)
<1> DEFINE Loop(f) ==
             [k \in Nat |-> IF k \notin DOMAIN calls THEN <<>>
                            ELSE (IF buildToolCallItem(calls[k]) THEN <<calls[k]>> ELSE <<>>) \o f[k + 1]]
           Chain(f) == Chained(f, ItemNext(calls), ItemAdd(calls))
           f == CHOOSE f : f = Loop(f)
<1>1. ASSUME NEW h PROVE Loop(h) = Chain(h)
  <2>1. \A k \in Nat : k + 1 # 0
    OBVIOUS
  <2> QED
    BY <2>1 DEF Chained, ItemNext, ItemAdd
<1>2. PICK h : h = Chain(h)
  <2>1. Len(calls) \in Nat /\ Forward(ItemNext(calls), Len(calls))
    BY ItemForward
  <2> QED
    BY <2>1, ChainExists, Zenon
<1>3. h = Loop(h)
  BY <1>1, <1>2, Zenon
<1>4. f = Loop(f)
  <2> HIDE DEF Loop
  <2> QED
    BY <1>3
<1>5. f = Chain(f)
  BY <1>1, <1>4, Zenon
<1>6. buildItems(calls) = f[1]
  BY DEF buildItems
<1> HIDE DEF f
<1>7. IsChain(f, ItemNext(calls), ItemAdd(calls))
  BY <1>5 DEF IsChain
<1>8. \A k \in Nat : f[k] \in Seq(C)
  <2> DEFINE m == Len(calls)
             x == ItemNext(calls)
             y == ItemAdd(calls)
  <2>1. m \in Nat /\ Forward(x, m) /\ IsChain(f, x, y) /\ \A k \in Nat : x[k] # 0 => y[k] \in Seq(C)
    BY <1>7, ItemForward
  <2> HIDE DEF m, x, y
  <2> QED
    BY <2>1, ChainInSeq
<1> QED
  BY <1>6, <1>7, <1>8

\* More calls add items behind those that are there.
LEMMA ItemsGrow ==
    ASSUME NEW C, NEW calls \in Seq(C), NEW more \in Seq(C)
    PROVE  /\ buildItems(calls) \in Seq(C)
           /\ \E u \in Seq(C) : buildItems(calls \o more) = buildItems(calls) \o u
<1> DEFINE all == calls \o more
<1>1. /\ all \in Seq(C) /\ Len(all) = Len(calls) + Len(more)
      /\ \A k \in 1..Len(calls) : all[k] = calls[k]
  BY ConcatProperties
<1>2. /\ Len(calls) \in Nat /\ Len(more) \in Nat
      /\ DOMAIN calls = 1..Len(calls) /\ DOMAIN all = 1..Len(all)
  BY <1>1, LenProperties
<1> HIDE DEF all
<1>3. PICK f : /\ buildItems(calls) = f[1] /\ IsChain(f, ItemNext(calls), ItemAdd(calls))
               /\ \A k \in Nat : f[k] \in Seq(C)
  BY ItemsAreChain
<1>4. PICK g : /\ buildItems(all) = g[1] /\ IsChain(g, ItemNext(all), ItemAdd(all))
               /\ \A k \in Nat : g[k] \in Seq(C)
  BY <1>1, ItemsAreChain
<1>5. /\ Forward(ItemNext(calls), Len(calls))
      /\ \A k \in Nat : ItemNext(calls)[k] # 0 => ItemAdd(calls)[k] \in Seq(C)
  BY ItemForward
<1>6. ASSUME NEW k \in Nat, ItemNext(calls)[k] # 0
      PROVE  ItemNext(all)[k] = ItemNext(calls)[k] /\ ItemAdd(all)[k] = ItemAdd(calls)[k]
  <2>1. k \in DOMAIN calls
    BY <1>6 DEF ItemNext
  <2>2. k \in DOMAIN all /\ all[k] = calls[k]
    BY <1>1, <1>2, <2>1
  <2> QED
    BY <2>1, <2>2 DEF ItemNext, ItemAdd
<1>7. \E u \in Seq(C) : g[1] = f[1] \o u
  <2>1. Alike(C, Len(calls), f, ItemNext(calls), ItemAdd(calls), g, ItemNext(all), ItemAdd(all))
    BY <1>2, <1>3, <1>4, <1>5, <1>6 DEF Alike
  <2> QED
    BY <2>1, ChainExtends
<1> QED
  BY <1>3, <1>4, <1>7 DEF all

LEMMA StartsWith ==
    ASSUME NEW C, NEW s \in Seq(C), NEW u \in Seq(C)
    PROVE  IsPrefix(s, s \o u)
<1>1. /\ Len(s) \in Nat /\ Len(u) \in Nat /\ s \o u \in Seq(C)
      /\ Len(s \o u) = Len(s) + Len(u) /\ SubSeq(s, 1, Len(s)) = s
  BY LenProperties, ConcatProperties, SubSeqFull
<1>2. CASE Len(s) = 0
  <2>1. SubSeq(s, 1, 0) = <<>> /\ SubSeq(s \o u, 1, 0) = <<>>
    BY SubSeqEmpty
  <2> QED
    BY <1>1, <1>2, <2>1 DEF IsPrefix
<1>3. CASE Len(s) # 0
  <2>1. 1 \in 1..Len(s) /\ Len(s) \in 1..Len(s)
    BY <1>1, <1>3
  <2>2. SubSeq(s \o u, 1, Len(s)) = SubSeq(s, 1, Len(s))
    BY <2>1, SubSeqOfConcat1
  <2> QED
    BY <1>1, <2>2 DEF IsPrefix
<1> QED
  BY <1>2, <1>3

LEMMA TriedCalls ==
    ASSUME NEW T, NEW t \in Seq(T)
    PROVE  /\ \E C : tryParseToolCalls(t) \in Seq(C)
           /\ tryParseToolCalls(t) = IF parseV2ToolCalls(t) # <<>> THEN parseV2ToolCalls(t)
                                     ELSE IF parseV1ToolCall(t) # NoCall THEN <<parseV1ToolCall(t)>>
                                     ELSE <<>>
<1> DEFINE v1 == parseV1ToolCall(t)
           v2 == parseV2ToolCalls(t)
<1>1. tryParseToolCalls(t) = IF v2 # <<>> THEN v2 ELSE IF v1 # NoCall THEN <<v1>> ELSE <<>>
  BY DEF tryParseToolCalls
<1>2. v2 \in Seq(V2Calls(t))
  BY V2IsChain
<1> HIDE DEF v1, v2
<1>3. <<v1>> \in Seq({v1}) /\ <<>> \in Seq({v1})
  BY EmptySeq
<1> QED
  BY <1>1, <1>2, <1>3 DEF v1, v2

\* What is found in the beginning of a text comes first in the text.
LEMMA CallsOfPrefix ==
    ASSUME NEW T, NEW t \in Seq(T), NEW n \in 0..Len(t), ~BareCallFirst(t)
    PROVE  \E C : /\ tryParseToolCalls(SubSeq(t, 1, n)) \in Seq(C)
                  /\ \E u \in Seq(C) : tryParseToolCalls(t) = tryParseToolCalls(SubSeq(t, 1, n)) \o u
<1> DEFINE p == SubSeq(t, 1, n)
           a == parseV2ToolCalls(p)
           b == parseV2ToolCalls(t)
           x == parseV1ToolCall(p)
           y == parseV1ToolCall(t)
<1>1. p \in Seq(T)
  BY LenProperties, SubSeqProperties
<1>2. /\ tryParseToolCalls(p) = IF a # <<>> THEN a ELSE IF x # NoCall THEN <<x>> ELSE <<>>
      /\ tryParseToolCalls(t) = IF b # <<>> THEN b ELSE IF y # NoCall THEN <<y>> ELSE <<>>
  <2> HIDE DEF p
  <2> QED
    BY <1>1, TriedCalls
<1>3. PICK C : tryParseToolCalls(t) \in Seq(C)
  BY TriedCalls
<1>4. PICK D : a \in Seq(D) /\ \E u \in Seq(D) : b = a \o u
  BY V2OfPrefix
<1>5. x # NoCall => y = x
  BY V1OfPrefix
<1>6. a = <<>> /\ x # NoCall => b = <<>> \/ b[1] = x
  BY DEF BareCallFirst
<1> HIDE DEF p, a, b, x, y
<1>7. CASE a # <<>>
  <2>1. b # <<>>
    BY <1>4, <1>7, ConcatEqualIffEmpty, ConcatProperties, LenProperties, EmptySeq
  <2> QED
    BY <1>2, <1>4, <1>7, <2>1 DEF p
<1>8. CASE a = <<>> /\ x # NoCall
  <2>1. tryParseToolCalls(p) = <<x>>
    BY <1>2, <1>8
  <2>2. CASE b = <<>>
    <3>1. tryParseToolCalls(t) = <<x>>
      BY <1>2, <1>5, <1>8, <2>2
    <3>2. <<x>> \in Seq({x}) /\ <<>> \in Seq({x}) /\ <<x>> = <<x>> \o <<>>
      BY EmptySeq, ConcatEmptySeq
    <3> QED
      BY <2>1, <3>1, <3>2 DEF p
  <2>3. CASE b # <<>>
    <3>1. tryParseToolCalls(t) = b /\ b[1] = x
      BY <1>2, <1>6, <1>8, <2>3
    <3>2. PICK E : b \in Seq(E)
      BY <1>3, <3>1
    <3>3. Head(b) = x /\ Tail(b) \in Seq(E) /\ x \in E
      BY <2>3, <3>1, <3>2, HeadTailProperties
    <3>4. <<x>> \in Seq(E) /\ b = <<x>> \o Tail(b)
      <4>1. Len(b) \in Nat /\ Len(b) >= 1
        BY <2>3, <3>2, LenProperties, EmptySeq
      <4>2. SubSeq(b, 1, Len(b)) = <<b[1]>> \o SubSeq(b, 2, Len(b))
        BY <3>2, <4>1, SubSeqRecursiveFirst
      <4>3. SubSeq(b, 1, Len(b)) = b /\ Tail(b) = SubSeq(b, 2, Len(b))
        BY <2>3, <3>2, SubSeqFull, TailIsSubSeq
      <4> QED
        BY <3>1, <3>3, <4>2, <4>3
    <3> QED
      BY <2>1, <3>1, <3>3, <3>4 DEF p
  <2> QED
    BY <2>2, <2>3
<1>9. CASE a = <<>> /\ x = NoCall
  <2>1. tryParseToolCalls(p) = <<>>
    BY <1>2, <1>9
  <2>2. <<>> \in Seq(C) /\ tryParseToolCalls(t) = <<>> \o tryParseToolCalls(t)
    BY <1>3, EmptySeq, ConcatEmptySeq
  <2> QED
    BY <1>3, <2>1, <2>2 DEF p
<1> QED
  BY <1>7, <1>8, <1>9

LEMMA ItemsOfPrefix ==
    ASSUME NEW T, NEW t \in Seq(T), NEW n \in 0..Len(t), ~BareCallFirst(t)
    PROVE  \E C : /\ parseToolCallItems(SubSeq(t, 1, n)) \in Seq(C)
                  /\ IsPrefix(parseToolCallItems(SubSeq(t, 1, n)), parseToolCallItems(t))
<1> DEFINE p == SubSeq(t, 1, n)
<1>1. CASE p = <<>>
  <2>1. parseToolCallItems(p) = <<>>
    BY <1>1 DEF parseToolCallItems
  <2>2. <<>> \in Seq({}) /\ IsPrefix(<<>>, parseToolCallItems(t))
    <3>1. \E C : parseToolCallItems(t) \in Seq(C)
      <4>1. PICK C : tryParseToolCalls(t) \in Seq(C)
        BY TriedCalls
      <4>2. buildItems(tryParseToolCalls(t)) \in Seq(C) /\ <<>> \in Seq(C)
        BY <4>1, EmptySeq, ItemsGrow
      <4> QED
        BY <4>2 DEF parseToolCallItems
    <3>2. PICK C : parseToolCallItems(t) \in Seq(C)
      BY <3>1
    <3>3. <<>> \in Seq(C) /\ <<>> \o parseToolCallItems(t) = parseToolCallItems(t)
      BY <3>2, EmptySeq, ConcatEmptySeq
    <3>4. IsPrefix(<<>>, <<>> \o parseToolCallItems(t))
      BY <3>2, <3>3, StartsWith
    <3> QED
      BY <3>3, <3>4, EmptySeq
  <2> QED
    BY <2>1, <2>2
<1>2. CASE p # <<>>
  <2>1. t # <<>>
    <3> SUFFICES ASSUME t = <<>> PROVE FALSE
      OBVIOUS
    <3>1. n = 0
      BY EmptySeq
    <3> QED
      BY <1>2, <3>1, SubSeqEmpty
  <2>2. /\ parseToolCallItems(p) = buildItems(tryParseToolCalls(p))
        /\ parseToolCallItems(t) = buildItems(tryParseToolCalls(t))
    BY <1>2, <2>1 DEF parseToolCallItems
  <2>3. PICK C : /\ tryParseToolCalls(p) \in Seq(C)
                 /\ \E u \in Seq(C) : tryParseToolCalls(t) = tryParseToolCalls(p) \o u
    BY CallsOfPrefix
  <2> DEFINE a == tryParseToolCalls(p)
  <2>0. PICK u \in Seq(C) : tryParseToolCalls(t) = a \o u
    BY <2>3
  <2> HIDE DEF p
  <2>4. /\ buildItems(a) \in Seq(C)
        /\ \E v \in Seq(C) : buildItems(tryParseToolCalls(t)) = buildItems(a) \o v
    <3> DEFINE b == tryParseToolCalls(t)
    <3>1. a \in Seq(C) /\ u \in Seq(C) /\ b = a \o u
      BY <2>0, <2>3
    <3> HIDE DEF a, b
    <3>2. /\ buildItems(a) \in Seq(C)
          /\ \E v \in Seq(C) : buildItems(a \o u) = buildItems(a) \o v
      BY <3>1, ItemsGrow
    <3> QED
      BY <3>1, <3>2 DEF b
  <2> QED
    BY <2>2, <2>4, StartsWith DEF p
<1> QED
  BY <1>1, <1>2

(* The items of a turn are the first ones that the parser finds in the      *)
(* whole answer, for any answer but one with a bare call in front of its    *)
(* first delimited one (executor.go:371-383, tool_call.go:49-122).          *)
THEOREM SnapshotsStand == Spec => []SnapshotCallsStand
<1>1. ASSUME StreamInv PROVE SnapshotCallsStand
  <2> SUFFICES ASSUME ~BareCallFirst(answer) PROVE IsPrefix(items, parseToolCallItems(answer))
    BY DEF SnapshotCallsStand
  <2>1. answer \in Seq(ToSet(answer)) /\ Len(answer) \in Nat
    BY <1>1, Answered DEF StreamInv
  <2>2. PICK n \in 0..Len(answer) : items = <<>> \/ items = <<>> \o ItemsOf(Prefix(n))
    BY <1>1, <2>1 DEF StreamInv, ItemsInv
  <2>3. PICK C : /\ ItemsOf(Prefix(n)) \in Seq(C)
                 /\ IsPrefix(ItemsOf(Prefix(n)), parseToolCallItems(answer))
    BY <2>1, ItemsOfPrefix DEF ItemsOf, Prefix
  <2>4. <<>> \o ItemsOf(Prefix(n)) = ItemsOf(Prefix(n))
    BY <2>3, ConcatEmptySeq
  <2>5. IsPrefix(<<>>, parseToolCallItems(answer))
    <3>1. ItemsOf(Prefix(0)) = <<>> /\ 0 \in 0..Len(answer)
      BY <1>1, <2>1, Answered, BlankHasNoCalls DEF StreamInv
    <3> QED
      BY <2>1, <3>1, ItemsOfPrefix DEF ItemsOf, Prefix
  <2> QED
    BY <2>2, <2>3, <2>4, <2>5
<1> QED
  BY <1>1, Invariant, PTL

-----------------------------------------------------------------------------
(* Blocks in the order of their starts.                                    *)

Sorted(s, B) ==
    /\ s \in Seq(B)
    /\ \A b \in B : \E k \in 1..Len(s) : s[k] = b
    /\ \A j, k \in 1..Len(s) : j < k => s[j][1] < s[k][1]

Firsts(s, n) == {s[j] : j \in 1..n}

LEMMA SortedCount ==
    ASSUME NEW B, NEW s, Sorted(s, B), \A b \in B : b[1] \in Nat, NEW n \in 0..Len(s)
    PROVE  IsFiniteSet(Firsts(s, n)) /\ Cardinality(Firsts(s, n)) = n
<1> DEFINE First(m) == {s[j] : j \in 1..m}
           P == {m \in Nat : m =< Len(s) => IsFiniteSet(First(m)) /\ Cardinality(First(m)) = m}
<1>0. Len(s) \in Nat /\ \A k \in 1..Len(s) : s[k] \in B
  BY LenProperties, ElementOfSeq DEF Sorted
<1>1. 0 \in P
  <2>1. First(0) = {}
    OBVIOUS
  <2> HIDE DEF First
  <2> QED
    BY <2>1, FS_EmptySet
<1>2. ASSUME NEW m \in P PROVE m + 1 \in P
  <2> SUFFICES ASSUME m + 1 =< Len(s)
               PROVE  IsFiniteSet(First(m + 1)) /\ Cardinality(First(m + 1)) = m + 1
    OBVIOUS
  <2>0. m \in Nat /\ m =< Len(s) /\ m + 1 \in 1..Len(s)
    BY <1>0
  <2>1. First(m + 1) = First(m) \cup {s[m + 1]}
    BY <2>0
  <2>2. s[m + 1] \notin First(m)
    <3> SUFFICES ASSUME NEW j \in 1..m, s[j] = s[m + 1] PROVE FALSE
      OBVIOUS
    <3>1. j \in 1..Len(s) /\ j < m + 1
      BY <1>0, <2>0
    <3>2. s[j][1] < s[m + 1][1]
      BY <2>0, <3>1 DEF Sorted
    <3>3. s[m + 1] \in B
      BY <1>0, <2>0
    <3>4. s[m + 1][1] \in Nat
      BY <3>3
    <3> QED
      BY <3>2, <3>4
  <2>3. IsFiniteSet(First(m)) /\ Cardinality(First(m)) = m
    <3>1. m \in Nat /\ (m =< Len(s) => IsFiniteSet(First(m)) /\ Cardinality(First(m)) = m)
      OBVIOUS
    <3> HIDE DEF First, P
    <3> QED
      BY <2>0, <3>1
  <2> DEFINE A == First(m)
  <2>4. IsFiniteSet(A) /\ Cardinality(A) = m /\ s[m + 1] \notin A
    BY <2>2, <2>3
  <2> HIDE DEF A
  <2>5. IsFiniteSet(A \cup {s[m + 1]}) /\ Cardinality(A \cup {s[m + 1]}) = m + 1
    BY <2>4, FS_AddElement
  <2>6. First(m + 1) = A \cup {s[m + 1]}
    BY <2>1 DEF A
  <2> HIDE DEF First
  <2> QED
    BY <2>5, <2>6
<1> HIDE DEF P
<1>3. P \in SUBSET Nat
  BY DEF P
<1>4. P = Nat
  BY <1>1, <1>2, <1>3, Upwards
<1>5. n \in Nat /\ n =< Len(s)
  BY <1>0
<1>6. n \in P /\ Firsts(s, n) = First(n)
  BY <1>4, <1>5 DEF Firsts
<1> HIDE DEF First
<1> QED
  BY <1>5, <1>6 DEF P

\* There is one such order, and InOrder finds it.
LEMMA SortedIsInOrder ==
    ASSUME NEW B, NEW s, Sorted(s, B), \A b \in B : b[1] \in Nat
    PROVE  InOrder(B) = s
<1> DEFINE Rank(b) == Cardinality({c \in B : c[1] < b[1]})
<1>0. /\ Len(s) \in Nat /\ s \in Seq(B) /\ s = [k \in 1..Len(s) |-> s[k]]
      /\ \A k \in 1..Len(s) : s[k] \in B
  BY LenProperties, ElementOfSeq DEF Sorted
<1>1. Cardinality(B) = Len(s)
  <2>1. B = Firsts(s, Len(s))
    BY <1>0 DEF Sorted, Firsts
  <2>2. Len(s) \in 0..Len(s)
    BY <1>0
  <2> QED
    BY <2>1, <2>2, SortedCount
<1>2. ASSUME NEW k \in 1..Len(s) PROVE Rank(s[k]) = k - 1
  <2>1. \A j \in 1..Len(s) : s[j][1] < s[k][1] <=> j < k
    <3> SUFFICES ASSUME NEW j \in 1..Len(s) PROVE s[j][1] < s[k][1] <=> j < k
      OBVIOUS
    <3>1. s[j][1] \in Nat /\ s[k][1] \in Nat
      BY <1>0
    <3>2. (j < k => s[j][1] < s[k][1]) /\ (k < j => s[k][1] < s[j][1])
      BY DEF Sorted
    <3>3. j < k \/ j = k \/ k < j
      BY <1>0
    <3> QED
      BY <1>0, <3>1, <3>2, <3>3
  <2>2. {c \in B : c[1] < s[k][1]} = Firsts(s, k - 1)
    <3>1. ASSUME NEW c \in B, c[1] < s[k][1] PROVE \E j \in 1..(k - 1) : c = s[j]
      <4>1. PICK j \in 1..Len(s) : s[j] = c
        BY DEF Sorted
      <4>2. j \in 1..(k - 1)
        BY <1>0, <2>1, <3>1, <4>1
      <4> QED
        BY <4>1, <4>2
    <3>2. ASSUME NEW j \in 1..(k - 1) PROVE s[j] \in B /\ s[j][1] < s[k][1]
      <4>1. j \in 1..Len(s) /\ j < k
        BY <1>0
      <4> QED
        BY <1>0, <2>1, <4>1
    <3> QED
      BY <3>1, <3>2 DEF Firsts
  <2>3. k - 1 \in 0..Len(s)
    BY <1>0
  <2>4. Cardinality(Firsts(s, k - 1)) = k - 1
    BY <2>3, SortedCount
  <2> QED
    BY <2>2, <2>4
<1>3. ASSUME NEW k \in 1..Len(s) PROVE s[k] = CHOOSE b \in B : Rank(b) = k - 1
  <2>1. s[k] \in B /\ Rank(s[k]) = k - 1
    BY <1>0, <1>2
  <2>2. ASSUME NEW b \in B, Rank(b) = k - 1 PROVE b = s[k]
    <3>1. PICK j \in 1..Len(s) : s[j] = b
      BY DEF Sorted
    <3>2. j - 1 = k - 1
      BY <1>2, <2>2, <3>1
    <3> QED
      BY <1>0, <3>1, <3>2
  <2> HIDE DEF Rank
  <2> QED
    BY <2>1, <2>2
<1>4. InOrder(B) = [k \in 1..Len(s) |-> CHOOSE b \in B : Rank(b) = k - 1]
  BY <1>1 DEF InOrder
<1> HIDE DEF Rank
<1> QED
  BY <1>0, <1>3, <1>4

-----------------------------------------------------------------------------
(* Lists put together from sorted members of a set.                        *)

\* The values of F at the members of r.
Values(F, r) == [k \in 1..Len(r) |-> F[r[k]]]

\* b comes before all of D, and q is b and then r.
Before(b, D) == \A d \in D : b[1] < d[1]
Puts(q, b, r, D) == q = <<b>> \o r /\ Sorted(r, D) /\ Before(b, D)

PutsValue(F, q, b, r) == Values(F, q) = <<F[b]>> \o Values(F, r)

LEMMA SortedStep ==
    ASSUME NEW D, NEW r, NEW b, NEW q, Puts(q, b, r, D), NEW F
    PROVE  Sorted(q, {b} \cup D) /\ PutsValue(F, q, b, r)
<1> USE DEF Before, Puts, PutsValue
<1> DEFINE E == {b} \cup D
<1>0. /\ r \in Seq(D) /\ Len(r) \in Nat /\ \A k \in 1..Len(r) : r[k] \in D
  BY LenProperties, ElementOfSeq DEF Sorted
<1>1. r \in Seq(E) /\ <<b>> \in Seq(E)
  <2>1. Seq(D) \subseteq Seq(E)
    BY SeqMonotonic
  <2> QED
    BY <1>0, <2>1
<1>2. /\ q \in Seq(E) /\ Len(q) = 1 + Len(r) /\ q[1] = b
      /\ \A k \in 1..Len(r) : q[k + 1] = r[k]
  <2>1. Len(<<b>>) = 1 /\ <<b>>[1] = b
    OBVIOUS
  <2>2. /\ q \in Seq(E) /\ Len(q) = Len(<<b>>) + Len(r)
        /\ \A k \in 1..Len(<<b>>) + Len(r) :
              q[k] = IF k =< Len(<<b>>) THEN <<b>>[k] ELSE r[k - Len(<<b>>)]
    BY <1>1, ConcatProperties
  <2>3. \A k \in 1..1 + Len(r) : q[k] = IF k =< 1 THEN b ELSE r[k - 1]
    BY <1>0, <2>1, <2>2
  <2>4. q[1] = b
    BY <1>0, <2>3
  <2>5. ASSUME NEW k \in 1..Len(r) PROVE q[k + 1] = r[k]
    <3>1. k + 1 \in 1..1 + Len(r) /\ ~(k + 1 =< 1) /\ (k + 1) - 1 = k
      BY <1>0
    <3> QED
      BY <2>3, <3>1
  <2> QED
    BY <2>1, <2>2, <2>4, <2>5
<1>3. ASSUME NEW k \in 1..Len(q) PROVE k = 1 \/ (k - 1 \in 1..Len(r) /\ q[k] = r[k - 1])
  <2>1. k = 1 \/ k - 1 \in 1..Len(r)
    BY <1>0, <1>2
  <2>2. k - 1 \in 1..Len(r) => q[(k - 1) + 1] = r[k - 1] /\ (k - 1) + 1 = k
    BY <1>2
  <2> QED
    BY <2>1, <2>2
<1>4. Sorted(q, E)
  <2>1. ASSUME NEW e \in E PROVE \E k \in 1..Len(q) : q[k] = e
    <3>1. CASE e = b
      <4>1. 1 \in 1..Len(q)
        BY <1>0, <1>2
      <4> QED
        BY <1>2, <3>1, <4>1
    <3>2. CASE e \in D
      <4>1. PICK k \in 1..Len(r) : r[k] = e
        BY <3>2 DEF Sorted
      <4>2. k + 1 \in 1..Len(q) /\ q[k + 1] = e
        BY <1>0, <1>2, <4>1
      <4> QED
        BY <4>2
    <3> QED
      BY <3>1, <3>2
  <2>2. ASSUME NEW j \in 1..Len(q), NEW k \in 1..Len(q), j < k PROVE q[j][1] < q[k][1]
    <3>1. k - 1 \in 1..Len(r) /\ q[k] = r[k - 1]
      BY <1>0, <1>2, <1>3, <2>2
    <3>2. CASE j = 1
      <4>1. r[k - 1] \in D
        BY <1>0, <3>1
      <4> QED
        BY <1>2, <3>1, <3>2, <4>1
    <3>3. CASE j # 1
      <4>1. j - 1 \in 1..Len(r) /\ q[j] = r[j - 1]
        BY <1>3, <3>3
      <4>2. j - 1 < k - 1
        BY <1>0, <1>2, <2>2
      <4>3. r[j - 1][1] < r[k - 1][1]
        BY <3>1, <4>1, <4>2 DEF Sorted
      <4> QED
        BY <3>1, <4>1, <4>3
    <3> QED
      BY <3>2, <3>3
  <2> HIDE DEF E
  <2> QED
    BY <1>2, <2>1, <2>2 DEF Sorted
<1>5. Values(F, q) = <<F[b]>> \o Values(F, r)
  <2> DEFINE C == {F[e] : e \in E}
             w == Values(F, r)
             x == <<F[b]>> \o w
  <2>1. w \in Seq(C) /\ Len(w) = Len(r) /\ \A k \in 1..Len(r) : w[k] = F[r[k]]
    <3>1. \A k \in 1..Len(r) : F[r[k]] \in C
      BY <1>0
    <3> HIDE DEF C
    <3>2. w \in [1..Len(r) -> C]
      BY <3>1 DEF Values
    <3>3. w \in Seq(C)
      <4>1. Len(r) \in Nat
        BY <1>0
      <4> HIDE DEF w
      <4> QED
        BY <3>2, <4>1
    <3>4. DOMAIN w = 1..Len(w) /\ Len(w) \in Nat
      BY <3>3, LenProperties
    <3>5. 1..Len(w) = 1..Len(r)
      BY <3>2, <3>4
    <3> QED
      BY <1>0, <3>3, <3>4, <3>5 DEF Values
  <2>2. <<F[b]>> \in Seq(C)
    OBVIOUS
  <2> HIDE DEF C, w
  <2>3. /\ x \in Seq(C) /\ Len(x) = 1 + Len(r)
        /\ \A k \in 1..1 + Len(r) : x[k] = IF k =< 1 THEN F[b] ELSE w[k - 1]
    <3>1. Len(<<F[b]>>) = 1 /\ <<F[b]>>[1] = F[b]
      OBVIOUS
    <3>2. /\ x \in Seq(C) /\ Len(x) = Len(<<F[b]>>) + Len(w)
          /\ \A k \in 1..Len(<<F[b]>>) + Len(w) :
                x[k] = IF k =< Len(<<F[b]>>) THEN <<F[b]>>[k] ELSE w[k - Len(<<F[b]>>)]
      BY <2>1, <2>2, ConcatProperties, SMTT(30)
    <3> HIDE DEF x
    <3>3. \A k \in 1..1 + Len(r) : k =< 1 => k = 1
      BY <1>0
    <3>4. ASSUME NEW k \in 1..1 + Len(r) PROVE x[k] = IF k =< 1 THEN F[b] ELSE w[k - 1]
      BY <1>0, <2>1, <3>1, <3>2, <3>3
    <3> QED
      BY <2>1, <3>1, <3>2, <3>4
  <2> HIDE DEF x
  <2>4. x = [k \in 1..Len(q) |-> x[k]]
    <3>1. DOMAIN x = 1..Len(x) /\ Len(x) = Len(q)
      BY <1>2, <2>3, LenProperties
    <3>2. x = [k \in DOMAIN x |-> x[k]]
      BY <2>3
    <3> QED
      BY <3>1, <3>2
  <2>5. ASSUME NEW k \in 1..Len(q) PROVE x[k] = F[q[k]]
    <3>1. k \in 1..1 + Len(r)
      BY <1>2
    <3>2. CASE k = 1
      BY <1>2, <2>3, <3>1, <3>2
    <3>3. CASE k # 1
      <4>1. k - 1 \in 1..Len(r) /\ q[k] = r[k - 1]
        BY <1>3, <3>3
      <4>2. w[k - 1] = F[q[k]]
        BY <2>1, <4>1
      <4>3. ~(k =< 1)
        BY <3>1, <3>3
      <4> QED
        BY <2>3, <3>1, <4>2, <4>3
    <3> QED
      BY <3>2, <3>3
  <2>6. Values(F, q) = [k \in 1..Len(q) |-> x[k]]
    BY <2>5 DEF Values
  <2> QED
    BY <2>4, <2>6 DEF x, w
<1> QED
  BY <1>4, <1>5

LEMMA ValuesInSeq ==
    ASSUME NEW D, NEW r, Sorted(r, D), NEW F
    PROVE  \E C : Values(F, r) \in Seq(C)
<1> DEFINE C == {F[d] : d \in D}
<1>1. Len(r) \in Nat /\ \A k \in 1..Len(r) : r[k] \in D
  BY LenProperties, ElementOfSeq DEF Sorted
<1>2. \A k \in 1..Len(r) : F[r[k]] \in C
  BY <1>1
<1> HIDE DEF C
<1>3. Values(F, r) \in [1..Len(r) -> C]
  BY <1>2 DEF Values
<1>4. Values(F, r) \in Seq(C)
  BY <1>1, <1>3
<1> QED
  BY <1>4

\* A list that goes through the sets G[i]: where it goes on it takes the first
\* member, if there is one to take.
Follows(G, F, R, n, f, next, add) ==
    /\ n \in Nat /\ Forward(next, n) /\ IsChain(f, next, add) /\ R \in SUBSET Nat
    /\ \A i \in R : next[i] = 0 => G[i] = {}
    /\ \A i \in R : next[i] # 0 =>
          /\ next[i] \in R
          /\ \/ add[i] = <<>> /\ G[i] = G[next[i]]
             \/ \E b \in G[i] : /\ G[i] = {b} \cup G[next[i]] /\ add[i] = <<F[b]>>
                                /\ Before(b, G[next[i]])

LEMMA ChainSorted ==
    ASSUME NEW G, NEW F, NEW R, NEW n, NEW f, NEW next, NEW add,
           Follows(G, F, R, n, f, next, add)
    PROVE  \A i \in R : \E r : Sorted(r, G[i]) /\ f[i] = Values(F, r)
<1> USE DEF Follows
<1> DEFINE Good(i) == \E r : Sorted(r, G[i]) /\ f[i] = Values(F, r)
           P == {i \in Nat : i \in R => Good(i)}
<1>1. ASSUME NEW i \in R, next[i] # 0 => Good(next[i]) PROVE Good(i)
  <2>0. i \in Nat
    OBVIOUS
  <2>1. CASE next[i] = 0
    <3>1. f[i] = <<>> /\ G[i] = {}
      BY <2>0, <2>1 DEF IsChain, Chained
    <3>2. <<>> \in Seq({}) /\ Len(<<>>) = 0 /\ 1..0 = {}
      BY EmptySeq
    <3>3. Sorted(<<>>, {}) /\ Values(F, <<>>) = <<>>
      BY <3>2 DEF Sorted, Values
    <3> QED
      BY <3>1, <3>3
  <2>2. CASE next[i] # 0
    <3>1. f[i] = add[i] \o f[next[i]] /\ next[i] \in R
      BY <2>0, <2>2 DEF IsChain, Chained
    <3>2. PICK r : Sorted(r, G[next[i]]) /\ f[next[i]] = Values(F, r)
      BY <1>1, <2>2
    <3>3. CASE add[i] = <<>> /\ G[i] = G[next[i]]
      <4>1. PICK C : Values(F, r) \in Seq(C)
        BY <3>2, ValuesInSeq
      <4>2. <<>> \o Values(F, r) = Values(F, r)
        BY <4>1, ConcatEmptySeq
      <4> QED
        BY <3>1, <3>2, <3>3, <4>2
    <3>4. ASSUME NEW b \in G[i], G[i] = {b} \cup G[next[i]], add[i] = <<F[b]>>,
                 Before(b, G[next[i]])
          PROVE  Good(i)
      <4>1. PICK D : D = G[next[i]]
        OBVIOUS
      <4>2. Sorted(r, D) /\ Before(b, D) /\ G[i] = {b} \cup D
        BY <3>2, <3>4, <4>1
      <4>3. PICK q : q = <<b>> \o r
        OBVIOUS
      <4>4. PICK v : v = add[i]
        OBVIOUS
      <4>5. v = <<F[b]>>
        BY <3>4, <4>4
      <4>7. Puts(q, b, r, D)
        BY <4>2, <4>3 DEF Puts
      <4>8. Sorted(q, {b} \cup D) /\ PutsValue(F, q, b, r)
        BY <4>7, SortedStep
      <4>6. Values(F, q) = v \o Values(F, r)
        BY <4>5, <4>8 DEF PutsValue
      <4> QED
        BY <3>1, <3>2, <4>2, <4>4, <4>6, <4>8
    <3> QED
      BY <2>2, <3>3, <3>4
  <2> QED
    BY <2>1, <2>2
<1> HIDE DEF Good
<1>2. \A i \in Nat : i > n => i \in P
  BY <1>1 DEF Forward
<1>3. \A i \in Nat : (\A j \in Nat : j > i => j \in P) => i \in P
  <2> SUFFICES ASSUME NEW i \in Nat, \A j \in Nat : j > i => j \in P, i \in R PROVE Good(i)
    OBVIOUS
  <2>1. ASSUME next[i] # 0 PROVE Good(next[i])
    <3>1. next[i] \in R /\ next[i] \in Nat /\ next[i] > i
      BY <2>1 DEF Forward
    <3> QED
      BY <3>1
  <2> QED
    BY <1>1, <2>1
<1> HIDE DEF P
<1>4. P \in SUBSET Nat
  BY DEF P
<1>5. P = Nat
  BY <1>2, <1>3, <1>4, FromTheEnd
<1> QED
  BY <1>5 DEF P, Good

-----------------------------------------------------------------------------
(* The V2 parser reads the blocks of a text, and nothing else.             *)

\* The places that are not inside a block.
Outside(t) ==
    {i \in Nat \ {0} : \A h \in 1..(i - 1) : t[h] = BlockStart => \E k \in h..(i - 1) : t[k] = BlockEnd}

\* The blocks that are calls, what they are, and those from i on.
CallBlocks(t) == {b \in Blocks(t) : parseV2ToolCallBlock(Body(t, b)) # NoCall}
CallOf(t) == [b \in Blocks(t) |-> parseV2ToolCallBlock(Body(t, b))]
BlocksBehind(t) == [i \in Nat |-> {b \in CallBlocks(t) : b[1] >= i}]

\* A block in terms of the places of its marks.
LEMMA BlockPlaces ==
    ASSUME NEW T, NEW t \in Seq(T), NEW b \in Blocks(t)
    PROVE  /\ b = <<b[1], b[2]>> /\ b[1] \in 1..Len(t) /\ b[2] \in (b[1] + 1)..Len(t)
           /\ t[b[1]] = BlockStart /\ t[b[2]] = BlockEnd
           /\ \A k \in b[1]..(b[2] - 1) : t[k] # BlockEnd
           /\ \A h \in 1..(b[1] - 1) : t[h] = BlockStart => \E k \in h..b[1] : t[k] = BlockEnd
<1>1. b \in Places(t, {BlockStart}) \X Places(t, {BlockEnd})
  BY DEF Blocks
<1>2. b = <<b[1], b[2]>> /\ b[1] \in Places(t, {BlockStart}) /\ b[2] \in Places(t, {BlockEnd})
  BY <1>1
<1>3. b[1] \in 1..Len(t) /\ b[2] \in 1..Len(t) /\ t[b[1]] = BlockStart /\ t[b[2]] = BlockEnd
  BY <1>2 DEF Places
<1>4. /\ b[1] < b[2]
      /\ \A k \in b[1]..(b[2] - 1) : t[k] # BlockEnd
      /\ \A h \in 1..(b[1] - 1) : t[h] = BlockStart => \E k \in h..b[1] : t[k] = BlockEnd
  BY DEF Blocks
<1>5. b[2] \in (b[1] + 1)..Len(t)
  BY <1>3, <1>4, LenProperties
<1> QED
  BY <1>2, <1>3, <1>4, <1>5

\* From a place outside of any block the parser comes to the next block.
LEMMA NextBlock ==
    ASSUME NEW T, NEW t \in Seq(T), NEW i \in Outside(t), EndFrom(t, i) # 0
    PROVE  /\ <<BlockFrom(t, i), EndFrom(t, i)>> \in Blocks(t)
           /\ BlockFrom(t, i) >= i /\ BlockFrom(t, i) < EndFrom(t, i)
           /\ EndFrom(t, i) + 1 \in Outside(t)
           /\ \A c \in Blocks(t) : c[1] >= i =>
                 c = <<BlockFrom(t, i), EndFrom(t, i)>> \/ c[1] >= EndFrom(t, i) + 1
<1> DEFINE s == BlockFrom(t, i)
           e == EndFrom(t, i)
<1>0. Len(t) \in Nat /\ i \in Nat \ {0}
  BY LenProperties DEF Outside
<1>1. /\ s \in i..Len(t) /\ s # 0 /\ t[s] = BlockStart
      /\ \A k \in i..Len(t) : t[k] = BlockStart => s =< k
      /\ e \in (s + 1)..Len(t) /\ t[e] = BlockEnd
      /\ \A k \in (s + 1)..Len(t) : t[k] = BlockEnd => e =< k
  BY <1>0, BlockFound
<1> HIDE DEF s, e
<1>2. BlockStart # BlockEnd
  BY DEF BlockStart, BlockEnd
<1>3. <<s, e>> \in Blocks(t)
  <2>1. s \in Places(t, {BlockStart}) /\ e \in Places(t, {BlockEnd})
    BY <1>0, <1>1 DEF Places
  <2>2. ASSUME NEW k \in s..(e - 1) PROVE t[k] # BlockEnd
    <3>1. k = s \/ k \in (s + 1)..Len(t)
      BY <1>0, <1>1
    <3>2. ~(e =< k)
      BY <1>0, <1>1
    <3> QED
      BY <1>1, <1>2, <3>1, <3>2
  <2>3. ASSUME NEW h \in 1..(s - 1), t[h] = BlockStart PROVE \E k \in h..s : t[k] = BlockEnd
    <3>1. h < i
      <4>1. h < s /\ h \in Nat /\ s =< Len(t) /\ s \in Nat
        BY <1>0, <1>1
      <4>2. h \in i..Len(t) => s =< h
        BY <1>1, <2>3
      <4> QED
        BY <1>0, <4>1, <4>2
    <3>2. h \in 1..(i - 1)
      BY <1>0, <3>1
    <3>3. PICK k \in h..(i - 1) : t[k] = BlockEnd
      BY <2>3, <3>2 DEF Outside
    <3>4. k \in h..s
      BY <1>0, <1>1, <3>3
    <3> QED
      BY <3>3, <3>4
  <2>4. PICK b : b = <<s, e>>
    OBVIOUS
  <2>5. b[1] = s /\ b[2] = e /\ b \in Places(t, {BlockStart}) \X Places(t, {BlockEnd})
    BY <2>1, <2>4
  <2>6. s < e
    BY <1>0, <1>1
  <2>7. b \in Blocks(t)
    BY <2>2, <2>3, <2>5, <2>6 DEF Blocks
  <2> QED
    BY <2>4, <2>7
<1>4. e + 1 \in Outside(t)
  <2>1. e + 1 \in Nat \ {0} /\ (e + 1) - 1 = e
    BY <1>0, <1>1
  <2>2. \A h \in 1..e : \E k \in h..e : t[k] = BlockEnd
    BY <1>0, <1>1
  <2> QED
    BY <2>1, <2>2 DEF Outside
<1>5. ASSUME NEW c \in Blocks(t), c[1] >= i PROVE c = <<s, e>> \/ c[1] >= e + 1
  <2>1. /\ c = <<c[1], c[2]>> /\ c[1] \in 1..Len(t) /\ c[2] \in (c[1] + 1)..Len(t)
        /\ t[c[1]] = BlockStart /\ t[c[2]] = BlockEnd
        /\ \A k \in c[1]..(c[2] - 1) : t[k] # BlockEnd
        /\ \A h \in 1..(c[1] - 1) : t[h] = BlockStart => \E k \in h..c[1] : t[k] = BlockEnd
    BY BlockPlaces
  <2>2. c[1] >= s
    BY <1>0, <1>1, <1>5, <2>1
  <2>3. CASE c[1] = s
    <3>1. c[2] \in (s + 1)..Len(t)
      BY <2>1, <2>3
    <3>2. e =< c[2]
      BY <1>1, <2>1, <3>1
    <3>3. ~(e \in s..(c[2] - 1))
      BY <1>1, <2>1, <2>3
    <3>4. c[2] = e
      BY <1>0, <1>1, <3>1, <3>2, <3>3
    <3> QED
      BY <2>1, <2>3, <3>4
  <2>4. CASE c[1] # s
    <3>1. s \in 1..(c[1] - 1)
      BY <1>0, <1>1, <2>1, <2>2, <2>4
    <3>2. PICK k \in s..c[1] : t[k] = BlockEnd
      BY <1>1, <2>1, <3>1
    <3>3. k # s /\ k # c[1]
      BY <1>1, <1>2, <2>1, <3>2
    <3>4. k \in (s + 1)..Len(t) /\ k < c[1]
      BY <1>0, <1>1, <2>1, <3>2, <3>3
    <3>5. e =< k
      BY <1>1, <3>2, <3>4
    <3> QED
      BY <1>0, <1>1, <2>1, <3>4, <3>5
  <2> QED
    BY <2>3, <2>4
<1>6. s >= i /\ s < e
  BY <1>0, <1>1
<1> QED
  BY <1>3, <1>4, <1>5, <1>6 DEF s, e

\* Where it stops there is none left.
LEMMA NoBlockLeft ==
    ASSUME NEW T, NEW t \in Seq(T), NEW i \in Outside(t), EndFrom(t, i) = 0, NEW c \in Blocks(t)
    PROVE  ~(c[1] >= i)
<1> SUFFICES ASSUME c[1] >= i PROVE FALSE
  OBVIOUS
<1>0. Len(t) \in Nat /\ i \in Nat \ {0}
  BY LenProperties DEF Outside
<1>1. /\ c[1] \in i..Len(t) /\ c[2] \in (c[1] + 1)..Len(t)
      /\ t[c[1]] = BlockStart /\ t[c[2]] = BlockEnd
  BY <1>0, BlockPlaces
<1> DEFINE s == BlockFrom(t, i)
<1>2. s \in i..Len(t) /\ s =< c[1]
  <2>1. \/ Index(t, {BlockStart}, i) = 0 /\ \A k \in i..Len(t) : t[k] \notin {BlockStart}
        \/ /\ Index(t, {BlockStart}, i) \in i..Len(t)
           /\ \A k \in i..Len(t) : t[k] \in {BlockStart} => Index(t, {BlockStart}, i) =< k
    BY <1>0, IndexIsLeast
  <2> QED
    BY <1>1, <2>1 DEF BlockFrom
<1>3. s # 0 /\ s + 1 \in Nat /\ c[2] \in (s + 1)..Len(t)
  BY <1>0, <1>1, <1>2
<1> HIDE DEF s
<1>4. Index(t, {BlockEnd}, s + 1) = 0
  BY <1>3 DEF EndFrom, blockEnd, s
<1>5. \A k \in (s + 1)..Len(t) : t[k] \notin {BlockEnd}
  <2> DEFINE j == s + 1
  <2>1. j \in Nat /\ Index(t, {BlockEnd}, j) = 0
    BY <1>3, <1>4
  <2> HIDE DEF j
  <2>2. \A k \in j..Len(t) : t[k] \notin {BlockEnd}
    <3>1. ~(0 \in j..Len(t)) \/ j = 0
      BY <2>1
    <3>2. j # 0
      BY <1>0, <1>2, <1>3 DEF j
    <3> QED
      BY <2>1, <3>1, <3>2, IndexIsLeast
  <2> QED
    BY <2>2 DEF j
<1> QED
  BY <1>1, <1>3, <1>5

LEMMA BlocksFollow ==
    ASSUME NEW T, NEW t \in Seq(T), NEW f, IsChain(f, V2Next(t), V2Add(t))
    PROVE  Follows(BlocksBehind(t), CallOf(t), Outside(t), Len(t), f, V2Next(t), V2Add(t))
<1> DEFINE G == BlocksBehind(t)
           F == CallOf(t)
           next == V2Next(t)
           add == V2Add(t)
<1>1. Len(t) \in Nat /\ Forward(next, Len(t)) /\ Outside(t) \in SUBSET Nat
  BY V2Forward DEF Outside
<1>2. \A i \in Outside(t) : G[i] = {b \in CallBlocks(t) : b[1] >= i}
  BY DEF BlocksBehind, Outside
<1>3. ASSUME NEW i \in Outside(t), next[i] = 0 PROVE G[i] = {}
  <2>1. EndFrom(t, i) = 0
    <3> SUFFICES ASSUME EndFrom(t, i) # 0 PROVE FALSE
      OBVIOUS
    <3>1. next[i] = EndFrom(t, i) + 1
      BY <1>1 DEF V2Next, resume
    <3>2. EndFrom(t, i) + 1 \in Nat \ {0}
      BY NextBlock DEF Outside
    <3> QED
      BY <1>3, <3>1, <3>2
  <2>2. \A c \in Blocks(t) : ~(c[1] >= i)
    BY <2>1, NoBlockLeft
  <2> HIDE DEF G
  <2> QED
    BY <1>2, <2>2 DEF CallBlocks
<1>4. ASSUME NEW i \in Outside(t), next[i] # 0
      PROVE  /\ next[i] \in Outside(t)
             /\ \/ add[i] = <<>> /\ G[i] = G[next[i]]
                \/ \E b \in G[i] : /\ G[i] = {b} \cup G[next[i]] /\ add[i] = <<F[b]>>
                                   /\ Before(b, G[next[i]])
  <2>0. i \in Nat
    BY <1>1
  <2>1. EndFrom(t, i) # 0 /\ next[i] = EndFrom(t, i) + 1
    BY <1>4, <2>0 DEF V2Next, resume
  <2>2. PICK b : b = <<BlockFrom(t, i), EndFrom(t, i)>>
    OBVIOUS
  <2>3. /\ b \in Blocks(t) /\ b[1] >= i /\ next[i] \in Outside(t)
        /\ \A c \in Blocks(t) : c[1] >= i => c = b \/ c[1] >= next[i]
        /\ b[1] < b[2] /\ next[i] = b[2] + 1
    BY <2>1, <2>2, NextBlock
  <2>4. b[1] \in Nat /\ b[2] \in Nat
    BY <1>1, <2>3, BlockPlaces
  <2>5. /\ G[i] = {c \in CallBlocks(t) : c[1] >= i}
        /\ G[next[i]] = {c \in CallBlocks(t) : c[1] >= next[i]}
    BY <1>2, <2>3
  <2>6. \A c \in G[next[i]] : c[1] \in Nat /\ c[1] >= next[i]
    <3>1. \A c \in Blocks(t) : c[1] \in Nat
      BY <1>1, BlockPlaces
    <3> HIDE DEF G, next
    <3> QED
      BY <2>5, <3>1 DEF CallBlocks
  <2>7. Before(b, G[next[i]])
    <3> HIDE DEF G, next
    <3> QED
      BY <2>3, <2>4, <2>6 DEF Before
  <2>8. G[i] = ({b} \cap CallBlocks(t)) \cup G[next[i]]
    <3>1. \A c \in Blocks(t) : c[1] \in Nat
      BY <1>1, BlockPlaces
    <3>2. \A c \in CallBlocks(t) : c[1] >= i <=> c = b \/ c[1] >= next[i]
      <4> SUFFICES ASSUME NEW c \in CallBlocks(t), c[1] >= next[i] PROVE c[1] >= i
        BY <2>3 DEF CallBlocks
      <4>1. c[1] \in Nat
        BY <3>1 DEF CallBlocks
      <4> HIDE DEF next
      <4> QED
        BY <2>0, <2>3, <2>4, <4>1
    <3> HIDE DEF G, next
    <3> QED
      BY <2>5, <3>2
  <2>9. F[b] = CallFrom(t, i)
    <3>1. F[b] = parseV2ToolCallBlock(SubSeq(t, b[1] + 1, b[2] - 1))
      BY <2>3 DEF CallOf, Body
    <3>2. b[1] = BlockFrom(t, i) /\ b[2] = EndFrom(t, i)
      BY <2>2
    <3> QED
      BY <3>1, <3>2 DEF CallFrom
  <2>10. b \in CallBlocks(t) <=> F[b] # NoCall
    BY <2>3 DEF CallBlocks, CallOf
  <2>11. add[i] = IF F[b] = NoCall THEN <<>> ELSE <<F[b]>>
    BY <2>0, <2>9 DEF V2Add
  <2> HIDE DEF G, F, next, add
  <2>12. CASE F[b] = NoCall
    BY <2>3, <2>8, <2>10, <2>11, <2>12
  <2>13. CASE F[b] # NoCall
    <3>1. b \in G[i] /\ G[i] = {b} \cup G[next[i]] /\ add[i] = <<F[b]>>
      BY <2>8, <2>10, <2>11, <2>13
    <3> QED
      BY <2>3, <2>7, <3>1
  <2> QED
    BY <2>12, <2>13
<1> HIDE DEF G, F, next, add
<1>5. IsChain(f, next, add)
  BY DEF next, add
<1>6. Follows(G, F, Outside(t), Len(t), f, next, add)
  BY <1>1, <1>3, <1>4, <1>5 DEF Follows
<1> QED
  BY <1>6 DEF G, F, next, add

LEMMA CallsOfBlocks ==
    ASSUME NEW T, NEW t \in Seq(T)
    PROVE  \E r : Sorted(r, CallBlocks(t)) /\ parseV2ToolCalls(t) = Values(CallOf(t), r)
<1>1. PICK f : parseV2ToolCalls(t) = f[1] /\ IsChain(f, V2Next(t), V2Add(t))
  BY V2IsChain
<1>2. 1 \in Outside(t)
  BY DEF Outside
<1>3. BlocksBehind(t)[1] = CallBlocks(t)
  <2>1. \A c \in Blocks(t) : c[1] >= 1
    BY LenProperties, BlockPlaces
  <2> QED
    BY <2>1 DEF BlocksBehind, CallBlocks
<1>4. PICK r : Sorted(r, BlocksBehind(t)[1]) /\ f[1] = Values(CallOf(t), r)
  BY <1>1, <1>2, BlocksFollow, ChainSorted
<1> QED
  BY <1>1, <1>3, <1>4

(* The V2 parser finds the calls of the closed blocks, each once and in the *)
(* order in which they are written, in every text; a block that is no call  *)
(* does not end the search (tool_call.go:82-122).                           *)
THEOREM BlocksRead ==
    ASSUME NEW T, NEW t \in Seq(T)
    PROVE  LET blocks == InOrder({b \in Blocks(t) : parseV2ToolCallBlock(Body(t, b)) # NoCall})
           IN  parseV2ToolCalls(t) = [k \in DOMAIN blocks |-> parseV2ToolCallBlock(Body(t, blocks[k]))]
<1> DEFINE blocks == InOrder({b \in Blocks(t) : parseV2ToolCallBlock(Body(t, b)) # NoCall})
<1>1. PICK r : Sorted(r, CallBlocks(t)) /\ parseV2ToolCalls(t) = Values(CallOf(t), r)
  BY CallsOfBlocks
<1>2. blocks = r
  <2>1. \A b \in CallBlocks(t) : b[1] \in Nat
    BY LenProperties, BlockPlaces DEF CallBlocks
  <2>2. InOrder(CallBlocks(t)) = r
    BY <1>1, <2>1, SortedIsInOrder
  <2> QED
    BY <2>2 DEF CallBlocks
<1> HIDE DEF blocks
<1>3. DOMAIN r = 1..Len(r) /\ \A k \in 1..Len(r) : r[k] \in Blocks(t)
  BY <1>1, LenProperties, ElementOfSeq DEF Sorted, CallBlocks
<1>4. parseV2ToolCalls(t) = [k \in DOMAIN blocks |-> parseV2ToolCallBlock(Body(t, blocks[k]))]
  BY <1>1, <1>2, <1>3 DEF Values, CallOf
<1> QED
  BY <1>4 DEF blocks

-----------------------------------------------------------------------------
(* The object of a bare call.                                              *)

\* A part of a text has the depths it has there.
LEMMA DepthOfPart ==
    ASSUME NEW T, NEW t \in Seq(T), NEW a \in Nat \ {0}, NEW x \in Nat, a =< x, x =< Len(t),
           NEW start \in Nat \ {0}, NEW i \in 0..(x - a + 1)
    PROVE  Depth(SubSeq(t, a, x), start, i) = Depth(t, start + a - 1, i + a - 1)
<1> DEFINE u == SubSeq(t, a, x)
           d == a - 1
           Same(j) == Depth(u, start, j) = Depth(t, start + d, j + d)
           P == {j \in Nat : j =< x - d => Same(j)}
<1>0. Len(t) \in Nat /\ d \in Nat /\ \A k \in 1..(x - d) : u[k] = t[k + d]
  <2>1. Len(t) \in Nat /\ d \in Nat
    BY LenProperties
  <2>2. Len(u) = x - a + 1 /\ \A k \in 1..(x - a + 1) : u[k] = t[a + k - 1]
    BY <2>1, SubSeqProperties
  <2>3. \A k \in 1..(x - d) : k \in 1..(x - a + 1) /\ a + k - 1 = k + d
    BY <2>1
  <2> HIDE DEF u
  <2> QED
    BY <2>1, <2>2, <2>3
<1> HIDE DEF u, d
<1>1. 0 \in P
  <2>0. 0 \in Nat /\ 0 < start
    OBVIOUS
  <2>1. Depth(u, start, 0) = 0
    BY <2>0, DepthStep
  <2>2. start + d \in Nat /\ 0 + d \in Nat /\ 0 + d < start + d
    BY <1>0
  <2>3. Depth(t, start + d, 0 + d) = 0
    BY <2>2, DepthStep
  <2> QED
    BY <2>1, <2>3
<1>2. ASSUME NEW j \in P PROVE j + 1 \in P
  <2> SUFFICES ASSUME j + 1 =< x - d PROVE Same(j + 1)
    OBVIOUS
  <2>1. j \in Nat /\ Same(j)
    BY <1>0
  <2>2. start + d \in Nat /\ j + d \in Nat /\ (j + 1) + d = (j + d) + 1
    BY <1>0, <2>1
  <2>3. CASE j + 1 < start
    <3>0. j + 1 \in Nat
      BY <2>1
    <3>1. Depth(u, start, j + 1) = 0
      BY <2>3, <3>0, DepthStep
    <3>2. (j + 1) + d \in Nat /\ (j + 1) + d < start + d
      BY <1>0, <2>1, <2>3
    <3>3. Depth(t, start + d, (j + 1) + d) = 0
      BY <2>2, <3>2, DepthStep
    <3> QED
      BY <3>1, <3>3
  <2>4. CASE ~(j + 1 < start)
    <3>1. Depth(u, start, j + 1) = Depth(u, start, j) + Brace(u[j + 1])
      BY <2>1, <2>4, DepthStep
    <3>2. (j + d) + 1 >= start + d
      BY <1>0, <2>1, <2>4
    <3>3. Depth(t, start + d, (j + d) + 1) = Depth(t, start + d, j + d) + Brace(t[(j + d) + 1])
      BY <2>2, <3>2, DepthStep
    <3>4. j + 1 \in 1..(x - d)
      BY <1>0, <2>1
    <3>5. u[j + 1] = t[(j + 1) + d]
      BY <1>0, <3>4
    <3> QED
      BY <2>1, <2>2, <3>1, <3>3, <3>5
  <2> QED
    BY <2>3, <2>4
<1> HIDE DEF P
<1>3. P \in SUBSET Nat
  BY DEF P
<1>4. P = Nat
  BY <1>1, <1>2, <1>3, Upwards
<1>5. i \in Nat /\ i =< x - d /\ start + a - 1 = start + d /\ i + a - 1 = i + d
  BY <1>0 DEF d
<1>6. Same(i)
  BY <1>4, <1>5 DEF P
<1> QED
  BY <1>5, <1>6 DEF u

\* Where an object that begins at a ends.
EndsAt(t, a, e) == e \in Ends(t, a) /\ \A k \in Ends(t, a) : e =< k

LEMMA ObjectIs ==
    ASSUME NEW T, NEW t \in Seq(T), NEW a \in 1..Len(t), NEW e \in a..Len(t)
    PROVE  IsObject(SubSeq(t, a, e)) <=>
               t[a] \in Opening /\ validJSON(SubSeq(t, a, e)) /\ EndsAt(t, a, e)
<1> DEFINE s == SubSeq(t, a, e)
<1>1. /\ Len(t) \in Nat /\ a \in Nat \ {0} /\ e \in Nat /\ e =< Len(t) /\ a =< e
  BY LenProperties
<1>2. /\ s \in Seq(T) /\ Len(s) = e - a + 1 /\ s[1] = t[a]
  <2>1. /\ s \in Seq(T) /\ Len(s) = e - a + 1
        /\ \A k \in 1..(e - a + 1) : s[k] = t[a + k - 1]
    BY <1>1, SubSeqProperties
  <2>2. 1 \in 1..(e - a + 1) /\ a + 1 - 1 = a
    BY <1>1
  <2> HIDE DEF s
  <2>3. s[1] = t[a + 1 - 1]
    BY <2>1, <2>2
  <2> QED
    BY <2>1, <2>2, <2>3
<1>3. s # <<>>
  <2> HIDE DEF s
  <2> QED
    BY <1>1, <1>2, EmptySeq
<1>4. \A k \in 1..Len(s) : Depth(s, 1, k) = Depth(t, a, k + a - 1)
  <2> SUFFICES ASSUME NEW k \in 1..Len(s) PROVE Depth(s, 1, k) = Depth(t, a, k + a - 1)
    OBVIOUS
  <2>1. k \in 0..(e - a + 1) /\ 1 \in Nat \ {0} /\ 1 + a - 1 = a
    BY <1>1, <1>2
  <2>2. Depth(s, 1, k) = Depth(t, 1 + a - 1, k + a - 1)
    BY <1>1, <2>1, DepthOfPart
  <2> QED
    BY <2>1, <2>2
<1>5. \A k \in 1..Len(s) :
         Count(s, 1, k, Opening) = Count(s, 1, k, {Closing}) <=> Depth(t, a, k + a - 1) = 0
  <2> SUFFICES ASSUME NEW k \in 1..Len(s)
               PROVE  Count(s, 1, k, Opening) = Count(s, 1, k, {Closing}) <=> Depth(t, a, k + a - 1) = 0
    OBVIOUS
  <2>1. k \in Nat
    BY <1>1, <1>2
  <2>2. \A S : Count(s, 1, k, S) \in Nat
    BY <2>1, CountStep
  <2>3. Depth(s, 1, k) = Count(s, 1, k, Opening) - Count(s, 1, k, {Closing})
    BY DEF Depth
  <2> QED
    BY <1>4, <2>2, <2>3
<1> HIDE DEF s
<1>6. IsObject(s) <=> /\ t[a] \in Opening /\ validJSON(s)
                      /\ \A k \in 1..Len(s) : Depth(t, a, k + a - 1) = 0 <=> k = Len(s)
  BY <1>2, <1>3, <1>5 DEF IsObject
<1>7. (\A k \in 1..Len(s) : Depth(t, a, k + a - 1) = 0 <=> k = Len(s))
        <=> \A i \in a..e : Depth(t, a, i) = 0 <=> i = e
  <2>1. ASSUME \A k \in 1..Len(s) : Depth(t, a, k + a - 1) = 0 <=> k = Len(s), NEW i \in a..e
        PROVE  Depth(t, a, i) = 0 <=> i = e
    <3>1. i - a + 1 \in 1..Len(s) /\ (i - a + 1) + a - 1 = i
      BY <1>1, <1>2
    <3>2. Depth(t, a, (i - a + 1) + a - 1) = 0 <=> i - a + 1 = Len(s)
      BY <2>1, <3>1
    <3> QED
      BY <1>1, <1>2, <3>1, <3>2
  <2>2. ASSUME \A i \in a..e : Depth(t, a, i) = 0 <=> i = e, NEW k \in 1..Len(s)
        PROVE  Depth(t, a, k + a - 1) = 0 <=> k = Len(s)
    <3>1. k + a - 1 \in a..e
      BY <1>1, <1>2
    <3>2. Depth(t, a, k + a - 1) = 0 <=> k + a - 1 = e
      BY <2>2, <3>1
    <3> QED
      BY <1>1, <1>2, <3>1, <3>2
  <2> QED
    BY <2>1, <2>2
<1>8. (\A i \in a..e : Depth(t, a, i) = 0 <=> i = e) <=> EndsAt(t, a, e)
  <2>1. ASSUME \A i \in a..e : Depth(t, a, i) = 0 <=> i = e PROVE EndsAt(t, a, e)
    <3>1. e \in Ends(t, a)
      BY <1>1, <2>1 DEF Ends
    <3>2. ASSUME NEW k \in Ends(t, a) PROVE e =< k
      <4>1. k \in a..Len(t) /\ Depth(t, a, k) = 0
        BY DEF Ends
      <4>2. k \in a..e => k = e
        BY <2>1, <4>1
      <4> QED
        BY <1>1, <4>1, <4>2
    <3> QED
      BY <3>1, <3>2 DEF EndsAt
  <2>2. ASSUME EndsAt(t, a, e), NEW i \in a..e PROVE Depth(t, a, i) = 0 <=> i = e
    <3>1. Depth(t, a, e) = 0
      BY <2>2 DEF EndsAt, Ends
    <3>2. ASSUME Depth(t, a, i) = 0 PROVE i = e
      <4>1. i \in Ends(t, a)
        BY <1>1, <3>2 DEF Ends
      <4>2. e =< i
        BY <2>2, <4>1 DEF EndsAt
      <4> QED
        BY <1>1, <4>2
    <3> QED
      BY <3>1, <3>2
  <2> QED
    BY <2>1, <2>2
<1>9. IsObject(s) <=> t[a] \in Opening /\ validJSON(s) /\ EndsAt(t, a, e)
  BY <1>6, <1>7, <1>8
<1> QED
  BY <1>9 DEF s

\* An object ends with a brace.
LEMMA EndIsBrace ==
    ASSUME NEW T, NEW t \in Seq(T), NEW a \in 1..Len(t), t[a] \in Opening, NEW e, EndsAt(t, a, e)
    PROVE  e \in (a + 1)..Len(t) /\ t[e] \in Opening \cup {Closing}
<1>1. Len(t) \in Nat /\ a \in Nat \ {0} /\ e \in a..Len(t) /\ Depth(t, a, e) = 0
  BY LenProperties DEF EndsAt, Ends
<1>2. Depth(t, a, a) = 1
  <2>1. PICK j \in Nat : j + 1 = a
    <3>1. a - 1 \in Nat /\ (a - 1) + 1 = a
      BY <1>1
    <3> QED
      BY <3>1
  <2>2. Depth(t, a, j) = 0
    BY <1>1, <2>1, DepthStep
  <2>3. j + 1 >= a => Depth(t, a, j + 1) = Depth(t, a, j) + Brace(t[j + 1])
    BY <1>1, DepthStep
  <2>4. Brace(t[a]) = 1
    BY DEF Brace
  <2> QED
    BY <1>1, <2>1, <2>2, <2>3, <2>4
<1>3. e # a
  BY <1>1, <1>2
<1>4. e - 1 \in a..Len(t) /\ e - 1 \in Nat /\ (e - 1) + 1 = e
  BY <1>1, <1>3
<1>5. Depth(t, a, e - 1) # 0
  <2> SUFFICES ASSUME Depth(t, a, e - 1) = 0 PROVE FALSE
    OBVIOUS
  <2>1. e - 1 \in Ends(t, a)
    BY <1>4 DEF Ends
  <2>2. e =< e - 1
    BY <2>1 DEF EndsAt
  <2> QED
    BY <1>1, <2>2
<1>6. Depth(t, a, e) = Depth(t, a, e - 1) + Brace(t[e]) /\ Depth(t, a, e - 1) \in Int
  <2>1. PICK j \in Nat : j = e - 1 /\ j + 1 = e /\ j + 1 >= a
    BY <1>1, <1>4
  <2>2. j + 1 >= a => Depth(t, a, j + 1) = Depth(t, a, j) + Brace(t[j + 1])
    BY <1>1, DepthStep
  <2>3. Depth(t, a, j) \in Int
    BY <1>1, DepthStep
  <2> QED
    BY <2>1, <2>2, <2>3
<1>7. Brace(t[e]) # 0
  <2> SUFFICES ASSUME Brace(t[e]) = 0 PROVE FALSE
    OBVIOUS
  <2> QED
    BY <1>1, <1>4, <1>5, <1>6
<1>8. t[e] \in Opening \cup {Closing}
  BY <1>7 DEF Brace
<1> QED
  BY <1>1, <1>3, <1>8

\* A part of a text has the objects of the text that lie in it.
LEMMA EndsInPart ==
    ASSUME NEW T, NEW t \in Seq(T), NEW d \in Nat, NEW x \in Nat, d =< x, x =< Len(t),
           NEW s \in Nat \ {0}, NEW e \in Nat
    PROVE  EndsAt(SubSeq(t, d + 1, x), s, e) <=> EndsAt(t, s + d, e + d) /\ e + d =< x
<1> DEFINE u == SubSeq(t, d + 1, x)
<1>1. Len(t) \in Nat /\ Len(u) = x - d
  <2>1. CASE d = x
    BY <2>1, LenProperties, SubSeqEmpty, EmptySeq
  <2>2. CASE d # x
    <3>1. d + 1 \in 1..Len(t) /\ x \in 1..Len(t) /\ x - (d + 1) + 1 = x - d /\ d + 1 =< x
      BY <2>2, LenProperties
    <3>2. Len(u) = x - (d + 1) + 1
      BY <3>1, LenProperties, SubSeqProperties
    <3> QED
      BY <3>1, <3>2, LenProperties
  <2> QED
    BY <2>1, <2>2
<1>2. ASSUME NEW i \in s..(x - d) PROVE Depth(u, s, i) = Depth(t, s + d, i + d)
  <2>1. d + 1 \in Nat \ {0} /\ d + 1 =< x /\ i \in 0..(x - (d + 1) + 1)
    BY <1>1
  <2>2. Depth(u, s, i) = Depth(t, s + (d + 1) - 1, i + (d + 1) - 1)
    BY <2>1, DepthOfPart
  <2>3. s + (d + 1) - 1 = s + d /\ i + (d + 1) - 1 = i + d
    OBVIOUS
  <2> QED
    BY <2>2, <2>3
<1> HIDE DEF u
<1>3. ASSUME NEW i \in Nat PROVE i \in Ends(u, s) <=> i + d \in Ends(t, s + d) /\ i + d =< x
  <2>1. i \in s..Len(u) <=> i \in s..(x - d)
    BY <1>1
  <2>2. i \in s..(x - d) <=> i + d \in (s + d)..Len(t) /\ i + d =< x
    BY <1>1
  <2> QED
    BY <1>2, <2>1, <2>2 DEF Ends
<1>4. ASSUME EndsAt(u, s, e) PROVE EndsAt(t, s + d, e + d) /\ e + d =< x
  <2>1. e + d \in Ends(t, s + d) /\ e + d =< x
    BY <1>3, <1>4 DEF EndsAt
  <2>2. ASSUME NEW k \in Ends(t, s + d) PROVE e + d =< k
    <3>1. k \in (s + d)..Len(t)
      BY DEF Ends
    <3>2. CASE k =< x
      <4>1. k - d \in Nat /\ (k - d) + d = k
        BY <1>1, <3>1
      <4>2. k - d \in Ends(u, s)
        BY <1>3, <3>2, <4>1
      <4>3. e =< k - d
        BY <1>4, <4>2 DEF EndsAt
      <4> QED
        BY <1>1, <3>1, <4>1, <4>3
    <3> QED
      BY <1>1, <2>1, <3>1, <3>2
  <2> QED
    BY <2>1, <2>2 DEF EndsAt
<1>5. ASSUME EndsAt(t, s + d, e + d), e + d =< x PROVE EndsAt(u, s, e)
  <2>1. e \in Ends(u, s)
    BY <1>3, <1>5 DEF EndsAt
  <2>2. ASSUME NEW k \in Ends(u, s) PROVE e =< k
    <3>1. k \in Nat
      BY <1>1 DEF Ends
    <3>2. k + d \in Ends(t, s + d)
      BY <1>3, <3>1
    <3>3. e + d =< k + d
      BY <1>5, <3>2 DEF EndsAt
    <3> QED
      BY <3>1, <3>3
  <2> QED
    BY <2>1, <2>2 DEF EndsAt
<1>6. EndsAt(u, s, e) <=> EndsAt(t, s + d, e + d) /\ e + d =< x
  BY <1>4, <1>5
<1> QED
  BY <1>6 DEF u

\* What is left of a text without its fences: from behind d to x.
BehindFence(t, e) ==
    t[1] = Fence /\ (\E k \in 2..Len(t) : t[k] = Fence) => \E k \in e..Len(t) : t[k] = Fence
Unfenced(t, d, x) ==
    /\ d \in Nat /\ x \in 1..Len(t) /\ d =< x
    /\ stripMarkdownCodeFence(t) = SubSeq(t, d + 1, x)
    /\ \A k \in 1..d : t[k] \notin Opening
    /\ \A e \in 1..Len(t) : t[e] # Fence => (BehindFence(t, e) <=> e =< x)

LEMMA UnfencedIs ==
    ASSUME NEW T, NEW t \in Seq(T), t # <<>>
    PROVE  \E d, x : Unfenced(t, d, x)
<1>1. Len(t) \in Nat /\ Len(t) >= 1 /\ Head(t) = t[1]
  BY LenProperties, EmptySeq, HeadTailProperties
<1>2. CASE Head(t) # Fence
  <2>1. stripMarkdownCodeFence(t) = t /\ SubSeq(t, 0 + 1, Len(t)) = t
    BY <1>2, Stripped, SubSeqFull
  <2>2. \A e \in 1..Len(t) : BehindFence(t, e) /\ e =< Len(t)
    BY <1>1, <1>2 DEF BehindFence
  <2>3. Unfenced(t, 0, Len(t))
    BY <1>1, <2>1, <2>2 DEF Unfenced
  <2> QED
    BY <2>3
<1>3. CASE Head(t) = Fence
  <2>1. PICK x \in 1..Len(t) :
          /\ stripMarkdownCodeFence(t) = SubSeq(t, 2, x)
          /\ x = Len(t) \/ t[x + 1] = Fence
          /\ \A k \in 2..Len(t) : t[k] = Fence => k =< x + 1
          /\ x = Len(t) => \A k \in 2..Len(t) : t[k] # Fence
    BY <1>3, Stripped
  <2>2. \A k \in 1..1 : t[k] \notin Opening
    <3>1. Fence \notin Opening
      BY Openings
    <3>2. \A k \in 1..1 : k = 1
      OBVIOUS
    <3> QED
      BY <1>1, <1>3, <3>1, <3>2
  <2>3. ASSUME NEW e \in 1..Len(t), t[e] # Fence PROVE BehindFence(t, e) <=> e =< x
    <3>1. CASE x = Len(t)
      BY <1>1, <2>1, <3>1 DEF BehindFence
    <3>2. CASE x # Len(t)
      <4>1. x + 1 \in 2..Len(t) /\ t[x + 1] = Fence
        BY <1>1, <2>1, <3>2
      <4>2. BehindFence(t, e) <=> \E k \in e..Len(t) : t[k] = Fence
        BY <1>1, <1>3, <4>1 DEF BehindFence
      <4>3. ASSUME NEW k \in e..Len(t), t[k] = Fence PROVE e =< x
        <5>1. k # e /\ k \in 2..Len(t) /\ k > e
          BY <1>1, <2>3, <4>3
        <5>2. k =< x + 1
          BY <2>1, <4>3, <5>1
        <5> QED
          BY <1>1, <5>1, <5>2
      <4>4. e =< x => x + 1 \in e..Len(t)
        BY <1>1, <4>1
      <4> QED
        BY <4>1, <4>2, <4>3, <4>4
    <3> QED
      BY <3>1, <3>2
  <2>4. Unfenced(t, 1, x)
    BY <1>1, <2>1, <2>2, <2>3 DEF Unfenced
  <2> QED
    BY <2>4
<1> QED
  BY <1>2, <1>3

\* An object names a tool and brings what its key says.
Brings(s) ==
    /\ s[1] \in DOMAIN Bare
    /\ Value(s) # <<>> /\ (Bare[s[1]].key = "arguments" => Value(s) # <<Null>>)

\* Of a first object the parser reads that call, or none.
LEMMA ObjectReads ==
    ASSUME NEW T, NEW obj \in Seq(T), obj # <<>>, validJSON(obj), NEW text,
           extractJSONObject(stripMarkdownCodeFence(text)) = obj
    PROVE  /\ Brings(obj) => parseV1ToolCall(text) = V1Call(obj) /\ V1Call(obj) # NoCall
           /\ ~Brings(obj) => parseV1ToolCall(text) = NoCall
<1>1. Head(obj) = obj[1]
  BY HeadTailProperties
<1>2. CASE obj[1] \notin DOMAIN Bare
  BY <1>1, <1>2 DEF Brings, parseV1ToolCall, objectCall
<1>3. CASE obj[1] \in DOMAIN Bare
  <2> DEFINE key == Bare[obj[1]].key
             arguments == IF key = "arguments" /\ Value(obj) # <<Null>> THEN Value(obj) ELSE None
             input == IF key = "input" THEN Value(obj) ELSE None
  <2>1. key \in {"arguments", "input"} /\ (key = "arguments" => key # "input")
    BY <1>3, BareAssumption DEF BareAssumption
  <2>2. parseV1ToolCall(text) =
          IF arguments = None /\ input = None THEN NoCall
          ELSE [tool |-> Bare[obj[1]].tool, arguments |-> arguments, input |-> input]
    BY <1>1, <1>3 DEF parseV1ToolCall, objectCall
  <2>3. V1Call(obj) = [tool |-> Bare[obj[1]].tool,
                       arguments |-> IF key = "arguments" THEN Value(obj) ELSE None,
                       input |-> IF key = "input" THEN Value(obj) ELSE None]
    BY DEF V1Call
  <2>4. Brings(obj) <=> Value(obj) # None /\ (key = "arguments" => Value(obj) # <<Null>>)
    BY <1>3 DEF Brings, None
  <2>5. NoCall.arguments = None /\ NoCall.input = None
    BY DEF NoCall
  <2> HIDE DEF key
  <2>6. ASSUME Brings(obj)
        PROVE  parseV1ToolCall(text) = V1Call(obj) /\ V1Call(obj) # NoCall
    <3>1. CASE key = "arguments"
      <4>1. V1Call(obj) = [tool |-> Bare[obj[1]].tool, arguments |-> Value(obj), input |-> None]
        BY <2>1, <2>3, <3>1
      <4>2. parseV1ToolCall(text) = V1Call(obj)
        BY <2>1, <2>2, <2>4, <2>6, <3>1, <4>1
      <4>3. V1Call(obj).arguments # NoCall.arguments
        BY <2>4, <2>5, <2>6, <4>1
      <4> QED
        BY <4>2, <4>3
    <3>2. CASE key = "input"
      <4>1. V1Call(obj) = [tool |-> Bare[obj[1]].tool, arguments |-> None, input |-> Value(obj)]
        BY <2>1, <2>3, <3>2
      <4>2. parseV1ToolCall(text) = V1Call(obj)
        BY <2>1, <2>2, <2>4, <2>6, <3>2, <4>1
      <4>3. V1Call(obj).input # NoCall.input
        BY <2>4, <2>5, <2>6, <4>1
      <4> QED
        BY <4>2, <4>3
    <3> QED
      BY <2>1, <3>1, <3>2
  <2>7. ASSUME ~Brings(obj) PROVE parseV1ToolCall(text) = NoCall
    BY <2>1, <2>2, <2>4, <2>7
  <2> QED
    BY <2>6, <2>7
<1> QED
  BY <1>2, <1>3

\* The call of a bare text: from a to e.
FirstCall(t, a, e) ==
    /\ a \in 1..Len(t) /\ t[a] \in DOMAIN Bare /\ \A k \in 1..(a - 1) : t[k] \notin Opening
    /\ EndsAt(t, a, e) /\ validJSON(SubSeq(t, a, e)) /\ Brings(SubSeq(t, a, e))
    /\ BehindFence(t, e)

LEMMA FirstCallIs ==
    ASSUME NEW T, NEW t \in Seq(T)
    PROVE  \A o : o \in FirstObjects(t) <=> o = <<o[1], o[2]>> /\ FirstCall(t, o[1], o[2])
<1>0. Len(t) \in Nat
  BY LenProperties
<1>o. DOMAIN Bare \subseteq Opening
  BY Openings
<1>1. ASSUME NEW a \in 1..Len(t), NEW e \in 1..Len(t), a =< e
      PROVE  t[a] \in Opening /\ IsV1Call(SubSeq(t, a, e))
               <=> /\ t[a] \in DOMAIN Bare /\ Brings(SubSeq(t, a, e))
                   /\ validJSON(SubSeq(t, a, e)) /\ EndsAt(t, a, e)
  <2>1. e \in a..Len(t)
    BY <1>0, <1>1
  <2>2. IsObject(SubSeq(t, a, e)) <=> t[a] \in Opening /\ validJSON(SubSeq(t, a, e)) /\ EndsAt(t, a, e)
    BY <2>1, ObjectIs
  <2>3. SubSeq(t, a, e)[1] = t[a]
    <3>1. a \in Nat /\ e \in Nat /\ 1 \in 1..(e - a + 1) /\ a + 1 - 1 = a
      BY <1>0, <1>1
    <3>2. \A k \in 1..(e - a + 1) : SubSeq(t, a, e)[k] = t[a + k - 1]
      BY <1>0, <1>1, <2>1, SubSeqProperties
    <3>3. SubSeq(t, a, e)[1] = t[a + 1 - 1]
      BY <3>1, <3>2
    <3> QED
      BY <3>1, <3>3
  <2> QED
    BY <1>o, <2>2, <2>3 DEF IsV1Call, Brings
<1>2. ASSUME NEW o \in FirstObjects(t) PROVE o = <<o[1], o[2]>> /\ FirstCall(t, o[1], o[2])
  <2>1. o \in Places(t, Opening) \X (1..Len(t))
    BY DEF FirstObjects
  <2>2. o = <<o[1], o[2]>> /\ o[1] \in 1..Len(t) /\ o[2] \in 1..Len(t) /\ t[o[1]] \in Opening
    BY <2>1 DEF Places
  <2>3. /\ o[1] < o[2] /\ IsV1Call(SubSeq(t, o[1], o[2]))
        /\ \A k \in 1..(o[1] - 1) : t[k] \notin Opening
        /\ BehindFence(t, o[2])
    BY DEF FirstObjects, BehindFence
  <2>4. /\ t[o[1]] \in DOMAIN Bare /\ Brings(SubSeq(t, o[1], o[2]))
        /\ validJSON(SubSeq(t, o[1], o[2])) /\ EndsAt(t, o[1], o[2])
    <3>1. o[1] =< o[2]
      BY <1>0, <2>2, <2>3
    <3> QED
      BY <1>1, <2>2, <2>3, <3>1
  <2> QED
    BY <2>2, <2>3, <2>4 DEF FirstCall
<1>3. ASSUME NEW o, o = <<o[1], o[2]>>, FirstCall(t, o[1], o[2]) PROVE o \in FirstObjects(t)
  <2>1. PICK a, e : a = o[1] /\ e = o[2] /\ FirstCall(t, a, e)
    BY <1>3
  <2>2. a \in 1..Len(t) /\ t[a] \in Opening /\ EndsAt(t, a, e)
    BY <1>o, <2>1 DEF FirstCall
  <2>3. e \in (a + 1)..Len(t)
    BY <2>2, EndIsBrace
  <2>4. e \in 1..Len(t) /\ a < e /\ a =< e
    <3>1. a \in 1..Len(t)
      BY <2>2
    <3> QED
      BY <1>0, <2>3, <3>1
  <2>5. IsV1Call(SubSeq(t, a, e)) /\ (\A k \in 1..(a - 1) : t[k] \notin Opening) /\ BehindFence(t, e)
    BY <1>1, <2>1, <2>2, <2>4 DEF FirstCall
  <2>6. o = <<a, e>> /\ <<a, e>> \in Places(t, Opening) \X (1..Len(t))
    BY <1>3, <2>1, <2>2, <2>4 DEF Places
  <2>7. o \in Places(t, Opening) \X (1..Len(t))
    BY <2>6
  <2> QED
    BY <2>1, <2>4, <2>5, <2>7 DEF FirstObjects, BehindFence
<1> QED
  BY <1>2, <1>3

\* The parser reads it.
LEMMA V1Found ==
    ASSUME NEW T, NEW t \in Seq(T), t # <<>>, NEW a, NEW e, FirstCall(t, a, e)
    PROVE  parseV1ToolCall(t) = V1Call(SubSeq(t, a, e)) /\ parseV1ToolCall(t) # NoCall
<1>0. Len(t) \in Nat
  BY LenProperties
<1>1. PICK d, x : Unfenced(t, d, x)
  BY UnfencedIs
<1>2. t[a] \in Opening /\ EndsAt(t, a, e)
  BY Openings DEF FirstCall
<1>a. a \in 1..Len(t)
  BY DEF FirstCall
<1>3. e \in (a + 1)..Len(t) /\ t[e] \in Opening \cup {Closing}
  BY <1>2, <1>a, EndIsBrace
<1>e. e \in (a + 1)..Len(t)
  BY <1>3
<1>4. a > d /\ e =< x /\ d \in Nat /\ x \in Nat /\ x =< Len(t)
  <2>0. e \in 1..Len(t)
    BY <1>0, <1>a, <1>e
  <2>1. t[e] # Fence
    BY <1>3, Openings
  <2>2. d \in Nat /\ x \in 1..Len(t) /\ e =< x
    BY <1>1, <2>0, <2>1 DEF Unfenced, FirstCall
  <2>3. ~(a \in 1..d)
    BY <1>1, <1>2 DEF Unfenced
  <2> QED
    BY <1>0, <1>a, <2>2, <2>3
<1> DEFINE u == SubSeq(t, d + 1, x)
<1>5. PICK s, f : s = a - d /\ f = e - d
  OBVIOUS
<1>6. /\ s \in Nat \ {0} /\ f \in Nat /\ s + d = a /\ f + d = e /\ f =< x - d /\ s < f
      /\ a \in Nat /\ e \in Nat /\ e =< Len(t)
  BY <1>0, <1>a, <1>e, <1>4, <1>5
<1>7. u \in Seq(T) /\ Len(u) = x - d /\ \A k \in 1..(x - d) : u[k] = t[k + d]
  <2>1. d + 1 \in 1..Len(t) /\ x \in 1..Len(t) /\ x - (d + 1) + 1 = x - d
    BY <1>0, <1>4, <1>6
  <2>2. /\ u \in Seq(T) /\ Len(u) = x - (d + 1) + 1
        /\ \A k \in 1..(x - (d + 1) + 1) : u[k] = t[(d + 1) + k - 1]
    BY <1>0, <1>4, <1>6, <2>1, SubSeqProperties
  <2> HIDE DEF u
  <2>3. \A k \in 1..(x - d) : (d + 1) + k - 1 = k + d
    BY <1>4
  <2> QED
    BY <2>1, <2>2, <2>3
<1>8. EndsAt(u, s, f)
  <2>1. EndsAt(t, s + d, f + d) /\ f + d =< x /\ d =< x
    BY <1>2, <1>4, <1>6
  <2> QED
    BY <1>4, <1>6, <2>1, EndsInPart
<1>9. SubSeq(u, s, f) = SubSeq(t, a, e)
  <2>1. PICK m : m = d + 1
    OBVIOUS
  <2>2. /\ m \in 1..Len(t) /\ x \in 1..Len(t)
        /\ s \in 1..(x - m + 1) /\ f \in 1..(x - m + 1)
        /\ m + s - 1 = a /\ m + f - 1 = e
    BY <1>0, <1>4, <1>6, <2>1
  <2>3. SubSeq(SubSeq(t, m, x), s, f) = SubSeq(t, m + s - 1, m + f - 1)
    BY <2>2, SubSeqOfSubSeq
  <2> QED
    BY <2>1, <2>2, <2>3
<1>10. stripMarkdownCodeFence(t) = u
  BY <1>1 DEF Unfenced
<1> HIDE DEF u
<1>11. Index(u, Opening, 1) = s
  <2>1. s \in 1..Len(u) /\ u[s] \in Opening
    <3>1. s \in 1..(x - d)
      BY <1>4, <1>6
    <3> QED
      BY <1>2, <1>6, <1>7, <3>1
  <2>2. \A k \in 1..(s - 1) : u[k] \notin Opening
    <3> SUFFICES ASSUME NEW k \in 1..(s - 1) PROVE u[k] \notin Opening
      OBVIOUS
    <3>1. k \in 1..(x - d) /\ k + d \in 1..(a - 1)
      BY <1>4, <1>6
    <3> QED
      BY <1>7, <3>1 DEF FirstCall
  <2>3. \/ Index(u, Opening, 1) = 0 /\ \A k \in 1..Len(u) : u[k] \notin Opening
        \/ /\ Index(u, Opening, 1) \in 1..Len(u) /\ u[Index(u, Opening, 1)] \in Opening
           /\ \A k \in 1..Len(u) : u[k] \in Opening => Index(u, Opening, 1) =< k
    BY <1>7, IndexIsLeast
  <2> QED
    BY <1>4, <1>6, <1>7, <2>1, <2>2, <2>3
<1>12. extractJSONObject(u) = SubSeq(t, a, e)
  <2>1. f \in Ends(u, s) /\ s # 0
    BY <1>6, <1>8 DEF EndsAt
  <2>2. PICK g \in Ends(u, s) : /\ \A k \in Ends(u, s) : g =< k
                                /\ extractJSONObject(u) = SubSeq(u, s, g)
    BY <1>7, <1>11, <2>1, ObjectFound
  <2>3. g =< f /\ f =< g /\ g \in Int
    BY <1>4, <1>6, <1>7, <1>8, <2>1, <2>2 DEF EndsAt, Ends
  <2>4. g = f
    BY <1>6, <2>3
  <2> QED
    BY <1>9, <2>2, <2>4
<1> DEFINE obj == SubSeq(t, a, e)
<1>13. obj \in Seq(T) /\ obj # <<>> /\ validJSON(obj) /\ Brings(obj)
  <2>1. a \in 1..Len(t) /\ e \in 1..Len(t) /\ a =< e /\ 1 \in 1..(e - a + 1) /\ a + 1 - 1 = a
    BY <1>0, <1>a, <1>e, <1>6
  <2>2. /\ obj \in Seq(T) /\ Len(obj) = e - a + 1
        /\ \A k \in 1..(e - a + 1) : obj[k] = t[a + k - 1]
    BY <1>6, <2>1, SubSeqProperties
  <2>3. validJSON(obj)
    BY DEF FirstCall
  <2> HIDE DEF obj
  <2>5. obj # <<>>
    BY <1>6, <2>1, <2>2, EmptySeq
  <2>6. Brings(obj)
    BY DEF FirstCall, obj
  <2> QED
    BY <2>2, <2>3, <2>5, <2>6
<1> HIDE DEF obj
<1>14. extractJSONObject(stripMarkdownCodeFence(t)) = obj
  BY <1>10, <1>12 DEF obj
<1>15. parseV1ToolCall(t) = V1Call(obj) /\ V1Call(obj) # NoCall
  BY <1>13, <1>14, ObjectReads
<1> QED
  BY <1>15 DEF obj

\* It reads nothing else.
LEMMA V1IsWritten ==
    ASSUME NEW T, NEW t \in Seq(T), t # <<>>, parseV1ToolCall(t) # NoCall
    PROVE  \E a, e : FirstCall(t, a, e)
<1>0. Len(t) \in Nat
  BY LenProperties
<1>1. PICK d, x : Unfenced(t, d, x)
  BY UnfencedIs
<1>2. d \in Nat /\ x \in 1..Len(t) /\ d =< x /\ x \in Nat /\ x =< Len(t)
  BY <1>0, <1>1 DEF Unfenced
<1> DEFINE u == SubSeq(t, d + 1, x)
<1>3. stripMarkdownCodeFence(t) = u
  BY <1>1 DEF Unfenced
<1>4. u \in Seq(T) /\ Len(u) = x - d /\ \A k \in 1..(x - d) : u[k] = t[k + d]
  <2>1. CASE d = x
    <3>1. u = <<>>
      BY <1>2, <2>1, SubSeqEmpty
    <3> HIDE DEF u
    <3> QED
      BY <1>2, <2>1, <3>1, EmptySeq
  <2>2. CASE d # x
    <3>1. PICK m : m = d + 1
      OBVIOUS
    <3>2. m \in 1..Len(t) /\ x \in 1..Len(t) /\ x - m + 1 = x - d /\ m \in Nat /\ m =< x
      BY <1>0, <1>2, <2>2, <3>1
    <3>3. /\ SubSeq(t, m, x) \in Seq(T) /\ Len(SubSeq(t, m, x)) = x - m + 1
          /\ \A k \in 1..(x - m + 1) : SubSeq(t, m, x)[k] = t[m + k - 1]
      BY <1>2, <3>2, SubSeqProperties
    <3>4. \A k \in 1..(x - d) : m + k - 1 = k + d
      BY <1>2, <3>1
    <3>5. u = SubSeq(t, m, x)
      BY <3>1
    <3> HIDE DEF u
    <3> QED
      BY <3>2, <3>3, <3>4, <3>5
  <2> QED
    BY <2>1, <2>2
<1> HIDE DEF u
<1> DEFINE obj == extractJSONObject(u)
<1>5. obj # <<>> /\ validJSON(obj)
  BY <1>3 DEF parseV1ToolCall, objectCall
<1>6. PICK s : s = Index(u, Opening, 1)
  OBVIOUS
<1>7. PICK f \in Ends(u, s) : /\ s \in 1..Len(u) /\ \A k \in Ends(u, s) : f =< k
                              /\ obj = SubSeq(u, s, f)
  BY <1>4, <1>5, <1>6, ObjectFound
<1>8. /\ u[s] \in Opening
      /\ \A k \in 1..Len(u) : u[k] \in Opening => s =< k
  <2>1. \/ Index(u, Opening, 1) = 0 /\ \A k \in 1..Len(u) : u[k] \notin Opening
        \/ /\ Index(u, Opening, 1) \in 1..Len(u) /\ u[Index(u, Opening, 1)] \in Opening
           /\ \A k \in 1..Len(u) : u[k] \in Opening => Index(u, Opening, 1) =< k
    BY <1>4, IndexIsLeast
  <2>2. s # 0
    BY <1>2, <1>4, <1>7
  <2> QED
    BY <1>6, <2>1, <2>2
<1>9. EndsAt(u, s, f) /\ f \in s..Len(u) /\ s \in 1..Len(u)
  BY <1>7 DEF EndsAt, Ends
<1>10. PICK a, e : a = s + d /\ e = f + d
  OBVIOUS
<1>11. /\ s \in Nat \ {0} /\ f \in Nat /\ a \in 1..Len(t) /\ e \in 1..Len(t)
       /\ a =< e /\ a \in Nat /\ e \in Nat /\ e =< x /\ a > d
  BY <1>0, <1>2, <1>4, <1>9, <1>10
<1>12. EndsAt(t, a, e)
  <2>1. EndsAt(SubSeq(t, d + 1, x), s, f) <=> EndsAt(t, s + d, f + d) /\ f + d =< x
    BY <1>2, <1>11, EndsInPart
  <2> QED
    BY <1>9, <1>10, <2>1 DEF u
<1>13. obj = SubSeq(t, a, e)
  <2>1. PICK m : m = d + 1
    OBVIOUS
  <2>2. /\ m \in 1..Len(t) /\ x \in 1..Len(t)
        /\ s \in 1..(x - m + 1) /\ f \in 1..(x - m + 1)
        /\ m + s - 1 = a /\ m + f - 1 = e
    BY <1>0, <1>2, <1>4, <1>9, <1>10, <1>11, <2>1
  <2>3. SubSeq(SubSeq(t, m, x), s, f) = SubSeq(t, m + s - 1, m + f - 1)
    BY <2>2, SubSeqOfSubSeq
  <2> QED
    BY <1>7, <2>1, <2>2, <2>3 DEF u
<1>14. t[a] \in Opening
  <2>1. s \in 1..(x - d)
    BY <1>4, <1>9
  <2> QED
    BY <1>4, <1>8, <1>10, <2>1
<1>15. ASSUME NEW k \in 1..(a - 1) PROVE t[k] \notin Opening
  <2>1. CASE k =< d
    <3>1. k \in 1..d
      BY <1>2, <1>11, <2>1
    <3> QED
      BY <1>1, <3>1 DEF Unfenced
  <2>2. CASE k > d
    <3>1. PICK j : j = k - d
      OBVIOUS
    <3>2. j \in 1..(x - d) /\ j \in 1..Len(u) /\ j + d = k /\ j < s
      BY <1>2, <1>4, <1>9, <1>10, <1>11, <2>2, <3>1
    <3>3. u[j] \notin Opening
      BY <1>8, <1>11, <3>2
    <3> QED
      BY <1>4, <3>2, <3>3
  <2> QED
    BY <1>2, <1>11, <2>1, <2>2
<1>16. t[a] \in DOMAIN Bare /\ Brings(obj)
  <2>1. PICK v : v = SubSeq(t, a, e)
    OBVIOUS
  <2>2. /\ v \in Seq(T) /\ Len(v) = e - a + 1
        /\ \A k \in 1..(e - a + 1) : v[k] = t[a + k - 1]
    BY <1>0, <1>11, <2>1, SubSeqProperties
  <2>3. 1 \in 1..(e - a + 1) /\ a + 1 - 1 = a
    BY <1>11
  <2>4. v[1] = t[a + 1 - 1]
    BY <2>2, <2>3
  <2>5. v[1] = t[a] /\ v = obj
    BY <1>13, <2>1, <2>3, <2>4
  <2>6. obj \in Seq(T) /\ extractJSONObject(stripMarkdownCodeFence(t)) = obj
    BY <1>3, <2>2, <2>5
  <2> HIDE DEF obj
  <2>7. Brings(obj)
    BY <1>5, <2>6, ObjectReads
  <2> QED
    BY <2>5, <2>7 DEF Brings
<1>17. BehindFence(t, e)
  <2>1. t[e] \in Opening \cup {Closing}
    BY <1>11, <1>12, <1>14, EndIsBrace
  <2>2. t[e] # Fence
    BY <2>1, Openings
  <2> QED
    BY <1>1, <1>11, <2>2 DEF Unfenced
<1>18. FirstCall(t, a, e)
  BY <1>5, <1>11, <1>12, <1>13, <1>15, <1>16, <1>17 DEF FirstCall
<1> QED
  BY <1>18

\* What a bare text is read as.
LEMMA V1Reads ==
    ASSUME NEW T, NEW t \in Seq(T), t # <<>>
    PROVE  \/ parseV1ToolCall(t) = NoCall /\ FirstObjects(t) = {}
           \/ /\ parseV1ToolCall(t) # NoCall
              /\ \E o : FirstObjects(t) = {o} /\ parseV1ToolCall(t) = V1Call(SubSeq(t, o[1], o[2]))
<1>1. \A o : o \in FirstObjects(t) <=> o = <<o[1], o[2]>> /\ FirstCall(t, o[1], o[2])
  BY FirstCallIs
<1>2. CASE parseV1ToolCall(t) = NoCall
  <2>1. \A o : ~FirstCall(t, o[1], o[2])
    BY <1>2, V1Found
  <2> QED
    BY <1>1, <1>2, <2>1
<1>3. CASE parseV1ToolCall(t) # NoCall
  <2>1. PICK a, e : FirstCall(t, a, e)
    BY <1>3, V1IsWritten
  <2>2. parseV1ToolCall(t) = V1Call(SubSeq(t, a, e))
    BY <2>1, V1Found
  <2>3. PICK o : o = <<a, e>>
    OBVIOUS
  <2>4. o[1] = a /\ o[2] = e /\ o \in FirstObjects(t)
    <3>1. o[1] = a /\ o[2] = e /\ o = <<o[1], o[2]>>
      BY <2>3
    <3> QED
      BY <1>1, <2>1, <3>1
  <2>5. ASSUME NEW p \in FirstObjects(t) PROVE p = o
    <3>1. PICK b, f : p = <<b, f>> /\ FirstCall(t, b, f)
      BY <1>1
    <3>2. Len(t) \in Nat /\ a \in 1..Len(t) /\ b \in 1..Len(t)
      BY <2>1, <3>1, LenProperties DEF FirstCall
    <3>3. ~(a \in 1..(b - 1)) /\ ~(b \in 1..(a - 1))
      BY <2>1, <3>1, Openings DEF FirstCall
    <3>4. a = b
      BY <3>2, <3>3
    <3>5. EndsAt(t, a, e) /\ EndsAt(t, a, f)
      BY <2>1, <3>1, <3>4 DEF FirstCall
    <3>6. e \in a..Len(t) /\ f \in a..Len(t) /\ e =< f /\ f =< e
      BY <3>5 DEF EndsAt, Ends
    <3>7. e = f
      BY <3>2, <3>6
    <3> QED
      BY <2>3, <3>1, <3>4, <3>7
  <2>6. FirstObjects(t) = {o}
    BY <2>4, <2>5
  <2> QED
    BY <1>3, <2>2, <2>4, <2>6
<1> QED
  BY <1>2, <1>3

-----------------------------------------------------------------------------
(* A well-formed block is read as what it means.                           *)

LEMMA IndexAt ==
    ASSUME NEW T, NEW t \in Seq(T), NEW M, NEW i \in Nat, NEW j \in i..Len(t), t[j] \in M,
           \A k \in i..(j - 1) : t[k] \notin M
    PROVE  Index(t, M, i) = j
<1>0. Len(t) \in Nat /\ j \in Nat /\ j >= i
  BY LenProperties
<1>1. \/ Index(t, M, i) = 0 /\ \A k \in i..Len(t) : t[k] \notin M
      \/ /\ Index(t, M, i) \in i..Len(t) /\ t[Index(t, M, i)] \in M
         /\ \A k \in i..Len(t) : t[k] \in M => Index(t, M, i) =< k
  BY IndexIsLeast
<1> QED
  BY <1>0, <1>1

LEMMA IndexNone ==
    ASSUME NEW T, NEW t \in Seq(T), NEW M, NEW i \in Nat, \A k \in i..Len(t) : t[k] \notin M
    PROVE  Index(t, M, i) = 0
BY IndexIsLeast

\* What is between the marks at p and q.
Delimited(t, start, p, end, q) ==
    /\ p \in 1..Len(t) /\ t[p] = start /\ \A k \in 1..(p - 1) : t[k] # start
    /\ q \in (p + 1)..Len(t) /\ t[q] = end /\ \A k \in (p + 1)..(q - 1) : t[k] # end

LEMMA ValueIs ==
    ASSUME NEW T, NEW t \in Seq(T), NEW start, NEW p, NEW end, NEW q, Delimited(t, start, p, end, q)
    PROVE  extractDelimitedValue(t, start, end) = [ok |-> TRUE, value |-> SubSeq(t, p + 1, q - 1)]
<1>0. Len(t) \in Nat /\ p \in 1..Len(t) /\ q \in (p + 1)..Len(t)
  BY LenProperties DEF Delimited
<1>1. Index(t, {start}, 1) = p
  <2>1. t[p] \in {start} /\ \A k \in 1..(p - 1) : t[k] \notin {start}
    BY DEF Delimited
  <2> QED
    BY <1>0, <2>1, IndexAt
<1>2. Index(t, {end}, p + 1) = q
  <2>1. PICK i : i = p + 1
    OBVIOUS
  <2>2. t[q] \in {end} /\ (\A k \in i..(q - 1) : t[k] \notin {end}) /\ i \in Nat /\ q \in i..Len(t)
    BY <1>0, <2>1 DEF Delimited
  <2>3. Index(t, {end}, i) = q
    BY <2>2, IndexAt
  <2> QED
    BY <2>1, <2>3
<1>3. p # 0 /\ q # 0
  BY <1>0
<1> QED
  BY <1>1, <1>2, <1>3 DEF extractDelimitedValue

LEMMA NoValue ==
    ASSUME NEW T, NEW t \in Seq(T), NEW start, NEW end, \A k \in 1..Len(t) : t[k] # start
    PROVE  ~extractDelimitedValue(t, start, end).ok
<1>1. Index(t, {start}, 1) = 0
  BY IndexNone
<1> QED
  BY <1>1 DEF extractDelimitedValue

LEMMA WholeObject ==
    ASSUME NEW T, NEW s \in Seq(T), IsObject(s)
    PROVE  s # <<>> /\ validJSON(s) /\ extractJSONObject(s) = s
<1>1. s # <<>> /\ s[1] \in Opening /\ validJSON(s)
  BY DEF IsObject
<1>2. Len(s) \in Nat /\ 1 \in 1..Len(s) /\ Len(s) \in 1..Len(s) /\ SubSeq(s, 1, Len(s)) = s
  BY <1>1, LenProperties, EmptySeq, SubSeqFull
<1>3. EndsAt(s, 1, Len(s))
  BY <1>2, ObjectIs
<1>4. Index(s, Opening, 1) = 1
  BY <1>1, <1>2, IndexAt
<1>5. Len(s) \in Ends(s, 1) /\ \A k \in Ends(s, 1) : Len(s) =< k
  BY <1>3 DEF EndsAt
<1>6. PICK g \in Ends(s, 1) : /\ \A k \in Ends(s, 1) : g =< k
                              /\ extractJSONObject(s) = SubSeq(s, 1, g)
  BY <1>4, <1>5, ObjectFound
<1>7. g = Len(s)
  <2>1. g =< Len(s) /\ Len(s) =< g /\ g \in Int
    BY <1>2, <1>5, <1>6 DEF Ends
  <2>2. Len(s) \in Nat
    BY <1>2
  <2> QED
    BY <2>1, <2>2
<1> QED
  BY <1>1, <1>2, <1>6, <1>7

\* A text that is its own first object is one object.
LEMMA ObjectOnly ==
    ASSUME NEW T, NEW s \in Seq(T), s # <<>>, validJSON(s), extractJSONObject(s) = s
    PROVE  IsObject(s)
<1>1. Len(s) \in Nat /\ Len(s) >= 1
  BY LenProperties, EmptySeq
<1>2. PICK start : start = Index(s, Opening, 1)
  OBVIOUS
<1>3. PICK e \in Ends(s, start) : /\ start \in 1..Len(s) /\ \A k \in Ends(s, start) : e =< k
                                  /\ s = SubSeq(s, start, e)
  BY <1>2, ObjectFound
<1>4. e \in start..Len(s) /\ start \in 1..Len(s)
  BY <1>3 DEF Ends
<1>5. Len(SubSeq(s, start, e)) = e - start + 1
  BY <1>1, <1>4, LenProperties, SubSeqProperties
<1>6. start = 1 /\ e = Len(s)
  <2>1. Len(s) = e - start + 1
    BY <1>3, <1>5
  <2> QED
    BY <1>1, <1>4, <2>1
<1>7. s[1] \in Opening
  <2>1. \/ Index(s, Opening, 1) = 0
        \/ s[Index(s, Opening, 1)] \in Opening
    BY IndexIsLeast
  <2> QED
    BY <1>2, <1>6, <2>1
<1>8. EndsAt(s, 1, Len(s))
  BY <1>3, <1>6 DEF EndsAt
<1>9. 1 \in 1..Len(s) /\ Len(s) \in 1..Len(s) /\ SubSeq(s, 1, Len(s)) = s
  BY <1>1, SubSeqFull
<1> QED
  BY <1>7, <1>8, <1>9, ObjectIs

LEMMA ArgumentsAre ==
    ASSUME NEW T, NEW v \in Seq(T)
    PROVE  IF IsObject(v) \/ v = <<Null>>
           THEN /\ blockArguments(v) = IF v = <<Null>> THEN Empty ELSE v
                /\ blockArguments(v) # None
           ELSE blockArguments(v) = None
<1>1. CASE v = <<Null>>
  BY <1>1 DEF blockArguments, Empty, None
<1>2. CASE v # <<Null>> /\ IsObject(v)
  BY <1>2, WholeObject DEF blockArguments, None
<1>3. CASE v # <<Null>> /\ ~IsObject(v)
  BY <1>3, ObjectOnly DEF blockArguments
<1> QED
  BY <1>1, <1>2, <1>3

\* The marks differ, and none is a brace or a fence.
LEMMA MarksDiffer ==
    /\ NameStart # NameEnd /\ NameStart # ArgsStart /\ NameStart # InputStart
    /\ NameEnd # ArgsStart /\ NameEnd # InputStart
    /\ ArgsStart # ArgsEnd /\ ArgsStart # InputStart /\ ArgsStart # InputEnd
    /\ InputStart # ArgsEnd /\ InputStart # InputEnd
    /\ NameStart # Fence
    /\ \A m \in Marks : m \notin Opening \cup {Closing}
    /\ {NameStart, NameEnd, ArgsStart, ArgsEnd, InputStart, InputEnd} = Marks
BY Openings DEF NameStart, NameEnd, ArgsStart, ArgsEnd, InputStart, InputEnd, Marks, Fence

\* The first four tokens of a block with a name, and the rest.
Shape(b) ==
    /\ Len(b) \in Nat /\ Len(b) > 3 /\ b[1] = NameStart /\ b[3] = NameEnd
    /\ b[2] \notin Marks /\ b[2] \notin Opening
    /\ \A k \in 5..(Len(b) - 1) : b[k] \notin Marks

LEMMA NameBetween ==
    ASSUME NEW T, NEW b \in Seq(T), Len(b) > 3, Delimited(b, NameStart, 1, NameEnd, 3)
    PROVE  extractDelimitedValue(b, NameStart, NameEnd) = [ok |-> TRUE, value |-> <<b[2]>>]
<1>1. SubSeq(b, 1 + 1, 3 - 1) = <<b[2]>>
  <2>1. 2 \in 1..Len(b) /\ 2 =< 2
    BY LenProperties
  <2>2. SubSeq(b, 2, 2) = <<b[2]>> \o SubSeq(b, 2 + 1, 2)
    BY <2>1, SubSeqRecursiveFirst
  <2>3. SubSeq(b, 2 + 1, 2) = <<>>
    BY SubSeqEmpty
  <2>4. <<b[2]>> \o <<>> = <<b[2]>>
    <3>1. b[2] \in T
      BY <2>1, ElementOfSeq
    <3>2. <<b[2]>> \in Seq(T)
      BY <3>1
    <3> QED
      BY <3>2, ConcatEmptySeq
  <2>5. SubSeq(b, 2, 2) = <<b[2]>>
    BY <2>2, <2>3, <2>4
  <2> QED
    BY <2>5
<1>2. PICK p, q : p = 1 /\ q = 3
  OBVIOUS
<1>3. /\ Delimited(b, NameStart, p, NameEnd, q)
      /\ SubSeq(b, p + 1, q - 1) = SubSeq(b, 1 + 1, 3 - 1)
  BY <1>2
<1>4. extractDelimitedValue(b, NameStart, NameEnd) = [ok |-> TRUE, value |-> SubSeq(b, p + 1, q - 1)]
  BY <1>3, ValueIs
<1> QED
  BY <1>1, <1>3, <1>4

LEMMA NameIs ==
    ASSUME NEW T, NEW b \in Seq(T), Shape(b)
    PROVE  extractDelimitedValue(b, NameStart, NameEnd) = [ok |-> TRUE, value |-> <<b[2]>>]
<1>1. Len(b) \in Nat /\ Len(b) > 3
  BY DEF Shape
<1>2. Delimited(b, NameStart, 1, NameEnd, 3)
  <2>1. 1 \in 1..Len(b) /\ 3 \in (1 + 1)..Len(b) /\ 1..(1 - 1) = {} /\ \A k \in (1 + 1)..(3 - 1) : k = 2
    BY <1>1
  <2>2. b[2] # NameEnd
    BY MarksDiffer DEF Shape
  <2> QED
    BY <2>1, <2>2 DEF Delimited, Shape
<1> QED
  BY <1>1, <1>2, NameBetween

\* The value of a block that begins at the fourth token.
LEMMA FourthIs ==
    ASSUME NEW T, NEW b \in Seq(T), Shape(b), NEW start \in Marks, NEW end \in Marks,
           start # NameStart, start # NameEnd, start # end, b[4] = start, b[Len(b)] = end
    PROVE  extractDelimitedValue(b, start, end) = [ok |-> TRUE, value |-> SubSeq(b, 5, Len(b) - 1)]
<1>1. Delimited(b, start, 4, end, Len(b))
  <2>1. Len(b) \in Nat /\ Len(b) > 3 /\ Len(b) # 4
    BY DEF Shape
  <2>2. /\ 4 \in 1..Len(b) /\ Len(b) \in (4 + 1)..Len(b)
        /\ \A k \in 1..(4 - 1) : k = 1 \/ k = 2 \/ k = 3
        /\ \A k \in (4 + 1)..(Len(b) - 1) : k \in 5..(Len(b) - 1)
    BY <2>1
  <2>3. b[1] # start /\ b[2] # start /\ b[3] # start
    BY DEF Shape
  <2>4. \A k \in 5..(Len(b) - 1) : b[k] # end
    BY DEF Shape
  <2> QED
    BY <2>2, <2>3, <2>4 DEF Delimited
<1>2. PICK p, q : p = 4 /\ q = Len(b)
  OBVIOUS
<1>3. Delimited(b, start, p, end, q) /\ p + 1 = 5
  BY <1>1, <1>2
<1>4. extractDelimitedValue(b, start, end) = [ok |-> TRUE, value |-> SubSeq(b, p + 1, q - 1)]
  BY <1>3, ValueIs
<1> QED
  BY <1>2, <1>3, <1>4

\* A mark that is neither the fourth nor the last token is not there.
LEMMA NotThere ==
    ASSUME NEW T, NEW b \in Seq(T), Shape(b), NEW start \in Marks, NEW end,
           start # NameStart, start # NameEnd, b[4] # start, b[Len(b)] # start
    PROVE  ~extractDelimitedValue(b, start, end).ok
<1>1. ASSUME NEW k \in 1..Len(b) PROVE b[k] # start
  <2>1. k = 1 \/ k = 2 \/ k = 3 \/ k = 4 \/ k = Len(b) \/ k \in 5..(Len(b) - 1)
    BY DEF Shape
  <2> QED
    BY <2>1 DEF Shape
<1> QED
  BY <1>1, NoValue

\* How a block is read, by what stands between its marks.
LEMMA BlockReads ==
    ASSUME NEW b
    PROVE  LET name  == extractDelimitedValue(b, NameStart, NameEnd)
               args  == extractDelimitedValue(b, ArgsStart, ArgsEnd)
               input == extractDelimitedValue(b, InputStart, InputEnd)
           IN  /\ ~name.ok => parseV2ToolCallBlock(b) = NoCall
               /\ name.ok /\ name.value = <<b[2]>> /\ args.ok =>
                    parseV2ToolCallBlock(b) =
                      IF blockArguments(args.value) = None THEN NoCall
                      ELSE [tool |-> b[2], arguments |-> blockArguments(args.value), input |-> None]
               /\ name.ok /\ name.value = <<b[2]>> /\ ~args.ok /\ input.ok =>
                    parseV2ToolCallBlock(b) =
                      IF input.value = <<>> THEN NoCall
                      ELSE [tool |-> b[2], arguments |-> None, input |-> input.value]
               /\ ~args.ok /\ ~input.ok =>
                    parseV2ToolCallBlock(b) \in {NoCall, parseV1ToolCall(b)}
               /\ name.ok /\ name.value = <<b[2]>> /\ ~args.ok /\ ~input.ok =>
                    parseV2ToolCallBlock(b) = parseV1ToolCall(b)
<1> DEFINE name == extractDelimitedValue(b, NameStart, NameEnd)
           args == extractDelimitedValue(b, ArgsStart, ArgsEnd)
           input == extractDelimitedValue(b, InputStart, InputEnd)
<1>1. parseV2ToolCallBlock(b) =
        IF ~name.ok \/ name.value = <<>> THEN NoCall
        ELSE IF args.ok
             THEN IF blockArguments(args.value) = None THEN NoCall
                  ELSE [tool |-> Head(name.value), arguments |-> blockArguments(args.value),
                        input |-> None]
        ELSE IF input.ok
             THEN IF input.value # <<>>
                  THEN [tool |-> Head(name.value), arguments |-> None, input |-> input.value]
                  ELSE NoCall
        ELSE parseV1ToolCall(b)
  BY DEF parseV2ToolCallBlock
<1>2. <<b[2]>> # <<>> /\ Head(<<b[2]>>) = b[2]
  OBVIOUS
<1> HIDE DEF name, args, input
<1>3. /\ ~name.ok => parseV2ToolCallBlock(b) = NoCall
      /\ name.ok /\ name.value = <<b[2]>> /\ args.ok =>
           parseV2ToolCallBlock(b) =
             IF blockArguments(args.value) = None THEN NoCall
             ELSE [tool |-> b[2], arguments |-> blockArguments(args.value), input |-> None]
      /\ name.ok /\ name.value = <<b[2]>> /\ ~args.ok /\ input.ok =>
           parseV2ToolCallBlock(b) =
             IF input.value = <<>> THEN NoCall
             ELSE [tool |-> b[2], arguments |-> None, input |-> input.value]
      /\ ~args.ok /\ ~input.ok => parseV2ToolCallBlock(b) \in {NoCall, parseV1ToolCall(b)}
      /\ name.ok /\ name.value = <<b[2]>> /\ ~args.ok /\ ~input.ok =>
           parseV2ToolCallBlock(b) = parseV1ToolCall(b)
  BY <1>1, <1>2
<1> QED
  BY <1>3 DEF name, args, input

\* What follows the name.
LEMMA RestIs ==
    ASSUME NEW T, NEW b \in Seq(T), Len(b) > 3
    PROVE  /\ IsObject(Rest(b)) <=> b[4] \in Opening /\ validJSON(Rest(b)) /\ EndsAt(b, 4, Len(b))
           /\ Rest(b)[1] = b[4]
<1>0. Len(b) \in Nat
  BY LenProperties
<1> DEFINE direct == SubSeq(b, 4, Len(b))
<1>1. 4 \in 1..Len(b) /\ Len(b) \in 4..Len(b) /\ 1 \in 1..(Len(b) - 4 + 1) /\ 4 + 1 - 1 = 4
  BY <1>0
<1>2. IsObject(direct) <=> b[4] \in Opening /\ validJSON(direct) /\ EndsAt(b, 4, Len(b))
  BY <1>1, ObjectIs
<1>3. \A k \in 1..(Len(b) - 4 + 1) : direct[k] = b[4 + k - 1]
  <2>1. \A k \in 4..Len(b) : b[k] \in T
    BY <1>0, ElementOfSeq
  <2> QED
    BY <1>0, <1>1, <2>1, SubSeqProperties
<1>4. direct[1] = b[4]
  <2> HIDE DEF direct
  <2>1. direct[1] = b[4 + 1 - 1]
    BY <1>1, <1>3
  <2> QED
    BY <1>1, <2>1
<1> QED
  BY <1>2, <1>4 DEF Rest

\* A block in one of the shapes is a call if it is well-formed.
LEMMA BlockMeans ==
    ASSUME NEW T, NEW b \in Seq(T), Shaped(b)
    PROVE  IF WellFormed(b) THEN parseV2ToolCallBlock(b) = Meaning(b) /\ Meaning(b) # NoCall
           ELSE parseV2ToolCallBlock(b) = NoCall
<1> DEFINE name == extractDelimitedValue(b, NameStart, NameEnd)
           args == extractDelimitedValue(b, ArgsStart, ArgsEnd)
           input == extractDelimitedValue(b, InputStart, InputEnd)
<1>1. Shape(b) /\ Named(b)
  <2>1. Len(b) \in Nat
    BY LenProperties
  <2> QED
    BY <2>1 DEF Shape, Shaped, Named, Plain
<1>2. Len(b) \in Nat /\ Len(b) > 3 /\ Last(b) = b[Len(b)] /\ Inner(b) = SubSeq(b, 5, Len(b) - 1)
  BY <1>1 DEF Shape, Last, Inner
<1>3. name.ok /\ name.value = <<b[2]>>
  <2>1. name = [ok |-> TRUE, value |-> <<b[2]>>]
    BY <1>1, NameIs
  <2> HIDE DEF name
  <2> QED
    BY <2>1
<1>4. /\ ArgsStart \in Marks /\ ArgsEnd \in Marks /\ InputStart \in Marks /\ InputEnd \in Marks
      /\ NameStart # ArgsStart /\ NameStart # InputStart /\ NameEnd # ArgsStart /\ NameEnd # InputStart
      /\ ArgsStart # ArgsEnd /\ ArgsStart # InputStart /\ ArgsStart # InputEnd
      /\ InputStart # ArgsEnd /\ InputStart # InputEnd /\ NameStart # Fence
      /\ \A m \in Marks : m \notin Opening \cup {Closing}
  BY MarksDiffer
<1>5. /\ args.ok => parseV2ToolCallBlock(b) =
                      IF blockArguments(args.value) = None THEN NoCall
                      ELSE [tool |-> b[2], arguments |-> blockArguments(args.value), input |-> None]
      /\ ~args.ok /\ input.ok => parseV2ToolCallBlock(b) =
                      IF input.value = <<>> THEN NoCall
                      ELSE [tool |-> b[2], arguments |-> None, input |-> input.value]
      /\ ~args.ok /\ ~input.ok => parseV2ToolCallBlock(b) = parseV1ToolCall(b)
  BY <1>3, BlockReads
<1>6. /\ IsObject(Rest(b)) <=> b[4] \in Opening /\ validJSON(Rest(b)) /\ EndsAt(b, 4, Len(b))
      /\ Rest(b)[1] = b[4]
  BY <1>2, RestIs
<1>7. DirectBlock(b) <=> IsObject(Rest(b)) /\ Brings(Rest(b))
  BY DEF DirectBlock, IsV1Call, Brings
<1> HIDE DEF name, args, input
<1>8. b[4] \in Marks => ~IsObject(Rest(b)) /\ ~DirectBlock(b)
  BY <1>4, <1>6, <1>7
<1>i. Inner(b) \in Seq(T)
  <2>1. \A k \in 5..(Len(b) - 1) : b[k] \in T
    BY <1>2, ElementOfSeq
  <2> QED
    BY <1>2, <2>1, SubSeqProperties
<1>9. CASE WithArguments(b)
  <2>1. b[4] = ArgsStart /\ b[Len(b)] = ArgsEnd
    BY <1>2, <1>9 DEF WithArguments
  <2>2. args = [ok |-> TRUE, value |-> Inner(b)]
    BY <1>1, <1>2, <1>4, <2>1, FourthIs DEF args
  <2>3. args.ok /\ args.value = Inner(b)
    BY <2>2
  <2>4. ~DirectBlock(b) /\ ~CustomBlock(b)
    BY <1>4, <1>8, <2>1 DEF CustomBlock, WithInput
  <2>5. CASE IsObject(Inner(b)) \/ Inner(b) = <<Null>>
    <3>1. FunctionBlock(b) /\ WellFormed(b)
      BY <1>1, <1>9, <2>5 DEF FunctionBlock, WellFormed
    <3>2. PICK a : a = IF Inner(b) = <<Null>> THEN Empty ELSE Inner(b)
      OBVIOUS
    <3>3. blockArguments(Inner(b)) = a /\ a # None
      BY <1>i, <2>5, <3>2, ArgumentsAre
    <3>4. parseV2ToolCallBlock(b) = [tool |-> b[2], arguments |-> a, input |-> None]
      BY <1>5, <2>3, <3>3
    <3>5. Meaning(b) = [tool |-> b[2], arguments |-> a, input |-> None]
      BY <2>4, <3>1, <3>2 DEF Meaning
    <3>6. Meaning(b).arguments # NoCall.arguments
      BY <3>3, <3>5 DEF NoCall
    <3> QED
      BY <3>1, <3>4, <3>5, <3>6
  <2>6. CASE ~(IsObject(Inner(b)) \/ Inner(b) = <<Null>>)
    <3>1. ~WellFormed(b)
      BY <2>4, <2>6 DEF FunctionBlock, WellFormed
    <3>2. blockArguments(Inner(b)) = None
      BY <1>i, <2>6, ArgumentsAre
    <3> QED
      BY <1>5, <2>3, <3>1, <3>2
  <2> QED
    BY <2>5, <2>6
<1>10. CASE WithInput(b)
  <2>1. b[4] = InputStart /\ b[Len(b)] = InputEnd
    BY <1>2, <1>10 DEF WithInput
  <2>2. input = [ok |-> TRUE, value |-> Inner(b)]
    BY <1>1, <1>2, <1>4, <2>1, FourthIs DEF input
  <2>3. ~args.ok
    BY <1>1, <1>4, <2>1, NotThere DEF args
  <2>4. input.ok /\ input.value = Inner(b)
    BY <2>2
  <2>5. ~DirectBlock(b) /\ ~FunctionBlock(b)
    BY <1>4, <1>8, <2>1 DEF FunctionBlock, WithArguments
  <2>6. WellFormed(b) <=> Inner(b) # <<>>
    BY <1>1, <1>10, <2>5 DEF WellFormed, CustomBlock
  <2>7. CASE Inner(b) # <<>>
    <3>1. parseV2ToolCallBlock(b) = [tool |-> b[2], arguments |-> None, input |-> Inner(b)]
      BY <1>5, <2>3, <2>4, <2>7
    <3>2. Meaning(b) = [tool |-> b[2], arguments |-> None, input |-> Inner(b)]
      BY <2>5 DEF Meaning
    <3>3. Meaning(b).input # NoCall.input
      BY <2>7, <3>2 DEF NoCall, None
    <3> QED
      BY <2>6, <2>7, <3>1, <3>2, <3>3
  <2>8. CASE Inner(b) = <<>>
    BY <1>5, <2>3, <2>4, <2>6, <2>8
  <2> QED
    BY <2>7, <2>8
<1>11. CASE IsObject(Rest(b))
  <2>1. b[4] \in Opening /\ validJSON(Rest(b)) /\ EndsAt(b, 4, Len(b)) /\ 4 \in 1..Len(b)
    BY <1>2, <1>6, <1>11
  <2>2. b[Len(b)] \in Opening \cup {Closing}
    BY <2>1, EndIsBrace
  <2>3. b[4] # ArgsStart /\ b[4] # InputStart /\ b[Len(b)] # ArgsStart /\ b[Len(b)] # InputStart
    BY <1>4, <2>1, <2>2
  <2>4. ~args.ok /\ ~input.ok
    BY <1>1, <1>4, <2>3, NotThere DEF args, input
  <2>5. parseV2ToolCallBlock(b) = parseV1ToolCall(b)
    BY <1>5, <2>4
  <2>6. \A k \in 1..(4 - 1) : b[k] \notin Opening
    <3>1. \A k \in 1..(4 - 1) : k = 1 \/ k = 2 \/ k = 3
      OBVIOUS
    <3>2. b[1] \notin Opening /\ b[2] \notin Opening /\ b[3] \notin Opening
      <4>1. NameStart \in Marks /\ NameEnd \in Marks
        BY DEF Marks
      <4> QED
        BY <1>1, <1>4, <4>1 DEF Shape
    <3> QED
      BY <3>1, <3>2
  <2>7. b # <<>>
    BY <1>2, EmptySeq
  <2>8. WellFormed(b) <=> Brings(Rest(b))
    <3>1. ~FunctionBlock(b) /\ ~CustomBlock(b)
      BY <2>3 DEF FunctionBlock, CustomBlock, WithArguments, WithInput
    <3> QED
      BY <1>1, <1>7, <1>11, <3>1 DEF WellFormed
  <2>9. CASE Brings(Rest(b))
    <3>1. PICK e : e = Len(b)
      OBVIOUS
    <3>2. BehindFence(b, e)
      BY <1>1, <1>4 DEF BehindFence, Shape
    <3>3. Rest(b) = SubSeq(b, 4, e) /\ b[4] \in DOMAIN Bare
      BY <1>6, <2>9, <3>1 DEF Rest, Brings
    <3>4. FirstCall(b, 4, e)
      BY <2>1, <2>6, <2>9, <3>1, <3>2, <3>3 DEF FirstCall
    <3>5. parseV1ToolCall(b) = V1Call(Rest(b)) /\ parseV1ToolCall(b) # NoCall
      BY <2>7, <3>3, <3>4, V1Found
    <3>6. Meaning(b) = V1Call(Rest(b))
      BY <1>7, <1>11, <2>9 DEF Meaning
    <3> QED
      BY <2>5, <2>8, <2>9, <3>5, <3>6
  <2>10. CASE ~Brings(Rest(b))
    <3>1. ASSUME parseV1ToolCall(b) # NoCall PROVE FALSE
      <4>1. PICK a, e : FirstCall(b, a, e)
        BY <2>7, <3>1, V1IsWritten
      <4>2. a \in 1..Len(b) /\ b[a] \in Opening /\ \A k \in 1..(a - 1) : b[k] \notin Opening
        BY <4>1, Openings DEF FirstCall
      <4>3. ~(a \in 1..(4 - 1)) /\ ~(4 \in 1..(a - 1))
        BY <2>1, <2>6, <4>2
      <4>4. a = 4
        BY <1>2, <4>2, <4>3
      <4>5. EndsAt(b, 4, e) /\ Brings(SubSeq(b, 4, e))
        BY <4>1, <4>4 DEF FirstCall
      <4>6. e \in 4..Len(b) /\ Len(b) =< e
        BY <2>1, <4>5 DEF EndsAt, Ends
      <4>7. e = Len(b)
        BY <1>2, <4>6
      <4> QED
        BY <2>10, <4>5, <4>7 DEF Rest
    <3> QED
      BY <2>5, <2>8, <2>10, <3>1
  <2> QED
    BY <2>9, <2>10
<1> QED
  BY <1>9, <1>10, <1>11 DEF Shaped

\* Without an object that names a tool nothing is read as a bare call.
LEMMA NotBare ==
    ASSUME NEW T, NEW b \in Seq(T), Range(b) \cap DOMAIN Bare = {}
    PROVE  parseV1ToolCall(b) = NoCall
<1>1. CASE b = <<>>
  <2>1. b = SubSeq(b, 1, 0)
    BY <1>1, SubSeqEmpty
  <2> SUFFICES ASSUME parseV1ToolCall(b) # NoCall PROVE FALSE
    OBVIOUS
  <2>2. stripMarkdownCodeFence(b) = b /\ Len(b) = 0
    BY <1>1, EmptySeq DEF stripMarkdownCodeFence
  <2>3. \/ extractJSONObject(b) = <<>>
        \/ Index(b, Opening, 1) \in 1..Len(b)
    BY ObjectFound
  <2>4. extractJSONObject(b) = <<>>
    BY <2>2, <2>3
  <2> QED
    BY <2>2, <2>4 DEF parseV1ToolCall, objectCall
<1>2. CASE b # <<>>
  <2> SUFFICES ASSUME parseV1ToolCall(b) # NoCall PROVE FALSE
    OBVIOUS
  <2>1. PICK a, e : FirstCall(b, a, e)
    BY <1>2, V1IsWritten
  <2>2. a \in DOMAIN b /\ b[a] \in DOMAIN Bare
    BY <2>1, LenProperties DEF FirstCall
  <2> QED
    BY <2>2 DEF Range
<1> QED
  BY <1>1, <1>2

\* A pair of marks of which one is missing.
LEMMA OneMark ==
    ASSUME NEW T, NEW b \in Seq(T), NEW start, NEW end,
           start \notin Range(b) \/ end \notin Range(b)
    PROVE  ~extractDelimitedValue(b, start, end).ok
<1>1. Len(b) \in Nat /\ DOMAIN b = 1..Len(b)
  BY LenProperties
<1>2. CASE start \notin Range(b)
  <2>1. \A k \in 1..Len(b) : b[k] # start
    BY <1>1, <1>2 DEF Range
  <2> QED
    BY <2>1, NoValue
<1>3. CASE end \notin Range(b)
  <2>1. PICK i : i = Index(b, {start}, 1)
    OBVIOUS
  <2>2. i = 0 \/ i \in 1..Len(b)
    BY <2>1, IndexIsLeast
  <2>3. PICK m \in Nat : m = i + 1
    BY <1>1, <2>2
  <2>4. \A k \in m..Len(b) : b[k] \notin {end}
    BY <1>1, <1>3, <2>2, <2>3 DEF Range
  <2>5. Index(b, {end}, m) = 0
    BY <2>4, IndexNone
  <2> QED
    BY <2>1, <2>3, <2>5 DEF extractDelimitedValue
<1> QED
  BY <1>2, <1>3

LEMMA IncompleteIsNone ==
    ASSUME NEW T, NEW b \in Seq(T), Incomplete(b)
    PROVE  ~WellFormed(b) /\ parseV2ToolCallBlock(b) = NoCall
<1>1. Len(b) \in Nat /\ \A k \in 1..Len(b) : b[k] \in Range(b)
  BY LenProperties DEF Range
<1>2. CASE NameStart \notin Range(b) \/ NameEnd \notin Range(b)
  <2>1. ~WellFormed(b)
    BY <1>1, <1>2 DEF WellFormed, Named
  <2>2. ~extractDelimitedValue(b, NameStart, NameEnd).ok
    BY <1>2, OneMark
  <2> QED
    BY <2>1, <2>2, BlockReads
<1>3. CASE Range(b) \cap ({ArgsEnd, InputEnd} \cup DOMAIN Bare) = {}
  <2>1. /\ ~extractDelimitedValue(b, ArgsStart, ArgsEnd).ok
        /\ ~extractDelimitedValue(b, InputStart, InputEnd).ok
    <3>1. ArgsEnd \notin Range(b) /\ InputEnd \notin Range(b)
      BY <1>3
    <3> QED
      BY <3>1, OneMark
  <2>2. parseV1ToolCall(b) = NoCall
    BY <1>3, NotBare
  <2>3. parseV2ToolCallBlock(b) = NoCall
    BY <2>1, <2>2, BlockReads
  <2>4. ASSUME WellFormed(b) PROVE FALSE
    <3>1. Len(b) > 3
      BY <2>4 DEF WellFormed, Named
    <3>2. Last(b) = b[Len(b)] /\ Last(b) \in Range(b) /\ b[4] \in Range(b)
      BY <1>1, <3>1 DEF Last
    <3>3. Rest(b)[1] = b[4]
      BY <3>1, RestIs
    <3>4. ~FunctionBlock(b) /\ ~CustomBlock(b)
      BY <1>3, <3>2 DEF FunctionBlock, CustomBlock, WithArguments, WithInput
    <3>5. ~DirectBlock(b)
      BY <1>3, <3>2, <3>3 DEF DirectBlock, IsV1Call
    <3> QED
      BY <2>4, <3>4, <3>5 DEF WellFormed
  <2> QED
    BY <2>3, <2>4
<1> QED
  BY <1>2, <1>3 DEF Incomplete

\* Nor is the beginning of an input a call, unless it quotes arguments: of those
\* no item is made.
LEMMA CutIsNoItem ==
    ASSUME NEW T, NEW b \in Seq(T), CutInput(b), Range(b) \cap DOMAIN Bare = {}
    PROVE  /\ ~WellFormed(b)
           /\ \/ parseV2ToolCallBlock(b) = NoCall
              \/ ~buildToolCallItem(parseV2ToolCallBlock(b))
<1>1. Len(b) \in Nat /\ Len(b) > 3 /\ \A k \in 1..Len(b) : b[k] \in Range(b)
  BY LenProperties DEF Range, CutInput, Named
<1>2. Last(b) = b[Len(b)] /\ Last(b) \in Range(b) /\ b[4] \in Range(b)
  BY <1>1 DEF Last
<1>3. ~WellFormed(b)
  <2>1. Rest(b)[1] = b[4]
    BY <1>1, RestIs
  <2>2. ~DirectBlock(b)
    BY <1>2, <2>1 DEF DirectBlock, IsV1Call
  <2>3. ~CustomBlock(b)
    BY <1>2 DEF CustomBlock, WithInput, CutInput
  <2>4. ~FunctionBlock(b)
    BY MarksDiffer DEF FunctionBlock, WithArguments, CutInput
  <2> QED
    BY <2>2, <2>3, <2>4 DEF WellFormed
<1> DEFINE name == extractDelimitedValue(b, NameStart, NameEnd)
           args == extractDelimitedValue(b, ArgsStart, ArgsEnd)
           input == extractDelimitedValue(b, InputStart, InputEnd)
<1>4. name.ok /\ name.value = <<b[2]>>
  <2>1. Delimited(b, NameStart, 1, NameEnd, 3)
    <3>1. 1 \in 1..Len(b) /\ 3 \in (1 + 1)..Len(b) /\ 1..(1 - 1) = {} /\ \A k \in (1 + 1)..(3 - 1) : k = 2
      BY <1>1
    <3>2. b[2] # NameEnd
      BY MarksDiffer DEF CutInput
    <3> QED
      BY <3>1, <3>2 DEF Delimited, CutInput, Named
  <2>2. name = [ok |-> TRUE, value |-> <<b[2]>>]
    BY <1>1, <2>1, NameBetween
  <2> HIDE DEF name
  <2> QED
    BY <2>2
<1>5. ~input.ok
  BY OneMark DEF CutInput
<1>6. parseV1ToolCall(b) = NoCall
  BY NotBare
<1> HIDE DEF name, args, input
<1>7. CASE args.ok
  <2>1. parseV2ToolCallBlock(b) = NoCall
        \/ parseV2ToolCallBlock(b) = [tool |-> b[2], arguments |-> blockArguments(args.value), input |-> None]
    BY <1>4, <1>7, BlockReads DEF name, args
  <2>2. ASSUME parseV2ToolCallBlock(b) = [tool |-> b[2], arguments |-> blockArguments(args.value), input |-> None]
        PROVE  ~buildToolCallItem(parseV2ToolCallBlock(b))
    <3>1. PICK call : call = parseV2ToolCallBlock(b)
      OBVIOUS
    <3>2. call.tool = b[2] /\ call.input = None
      BY <2>2, <3>1
    <3>3. call.tool \in DOMAIN Tools => Tools[call.tool] = "custom"
      BY <3>2 DEF CutInput
    <3>4. ~buildToolCallItem(call)
      BY <3>2, <3>3 DEF buildToolCallItem
    <3> QED
      BY <3>1, <3>4
  <2> QED
    BY <1>3, <2>1, <2>2
<1>8. CASE ~args.ok
  <2>1. parseV2ToolCallBlock(b) \in {NoCall, parseV1ToolCall(b)}
    BY <1>5, <1>8, BlockReads DEF args, input
  <2> QED
    BY <1>3, <1>6, <2>1
<1> QED
  BY <1>7, <1>8

-----------------------------------------------------------------------------
(* The items of a regular text are those that are written in it.           *)

\* The members of r from k on whose values are items.
Built(F, B) == {b \in B : buildToolCallItem(F[b])}
BuiltFrom(F, B, r) == [k \in Nat |-> {b \in Built(F, B) : \E j \in k..Len(r) : r[j] = b}]

LEMMA ItemsOfValues ==
    ASSUME NEW B, NEW r, NEW F, Sorted(r, B)
    PROVE  \E q : Sorted(q, Built(F, B)) /\ buildItems(Values(F, r)) = Values(F, q)
<1> DEFINE calls == Values(F, r)
           G == BuiltFrom(F, B, r)
           next == ItemNext(calls)
           add == ItemAdd(calls)
           R == Nat \ {0}
<1>0. /\ Len(r) \in Nat /\ \A k \in 1..Len(r) : r[k] \in B
      /\ \A b \in B : \E k \in 1..Len(r) : r[k] = b
      /\ \A j, k \in 1..Len(r) : j < k => r[j][1] < r[k][1]
  BY LenProperties, ElementOfSeq DEF Sorted
<1>1. PICK C : calls \in Seq(C)
  BY ValuesInSeq
<1>2. DOMAIN calls = 1..Len(r) /\ \A k \in 1..Len(r) : calls[k] = F[r[k]]
  BY DEF Values
<1> HIDE DEF calls
<1>3. PICK f : buildItems(calls) = f[1] /\ IsChain(f, next, add)
  BY <1>1, ItemsAreChain
<1>4. Len(calls) \in Nat /\ Forward(next, Len(calls))
  BY <1>1, ItemForward
<1>5. \A k \in Nat : G[k] = {b \in Built(F, B) : \E j \in k..Len(r) : r[j] = b}
  BY DEF BuiltFrom
<1>6. ASSUME NEW k \in R, next[k] = 0 PROVE G[k] = {}
  <2>1. k \notin 1..Len(r)
    BY <1>2, <1>6 DEF ItemNext
  <2>2. k..Len(r) = {}
    BY <1>0, <2>1
  <2> HIDE DEF G
  <2> QED
    BY <1>5, <2>2
<1>7. ASSUME NEW k \in R, next[k] # 0
      PROVE  /\ next[k] \in R
             /\ \/ add[k] = <<>> /\ G[k] = G[next[k]]
                \/ \E b \in G[k] : /\ G[k] = {b} \cup G[next[k]] /\ add[k] = <<F[b]>>
                                   /\ Before(b, G[next[k]])
  <2>1. k \in 1..Len(r) /\ next[k] = k + 1 /\ k + 1 \in R
    BY <1>2, <1>7 DEF ItemNext
  <2>2. PICK b : b = r[k]
    OBVIOUS
  <2>3. b \in B /\ calls[k] = F[b]
    BY <1>0, <1>2, <2>1, <2>2
  <2>4. add[k] = IF buildToolCallItem(F[b]) THEN <<F[b]>> ELSE <<>>
    BY <2>3 DEF ItemAdd
  <2>5. k..Len(r) = {k} \cup ((k + 1)..Len(r))
    BY <1>0, <2>1
  <2> HIDE DEF G, next, add
  <2>6. /\ G[k] = {c \in Built(F, B) : \E j \in k..Len(r) : r[j] = c}
        /\ G[k + 1] = {c \in Built(F, B) : \E j \in (k + 1)..Len(r) : r[j] = c}
    BY <1>5, <2>1
  <2>7. G[k] = ({b} \cap Built(F, B)) \cup G[k + 1]
    BY <2>2, <2>5, <2>6
  <2>8. Before(b, G[k + 1])
    <3> SUFFICES ASSUME NEW c \in G[k + 1] PROVE b[1] < c[1]
      BY DEF Before
    <3>1. PICK j \in (k + 1)..Len(r) : r[j] = c
      BY <2>6
    <3>2. j \in 1..Len(r) /\ k < j
      BY <1>0, <2>1
    <3> QED
      BY <1>0, <2>1, <2>2, <3>1, <3>2
  <2>9. b \in Built(F, B) <=> buildToolCallItem(F[b])
    BY <2>3 DEF Built
  <2>10. CASE buildToolCallItem(F[b])
    <3>1. b \in G[k] /\ G[k] = {b} \cup G[k + 1] /\ add[k] = <<F[b]>>
      BY <2>4, <2>7, <2>9, <2>10
    <3> QED
      BY <2>1, <2>8, <3>1
  <2>11. CASE ~buildToolCallItem(F[b])
    BY <2>1, <2>4, <2>7, <2>9, <2>11
  <2> QED
    BY <2>10, <2>11
<1>8. G[1] = Built(F, B)
  <2>1. G[1] = {b \in Built(F, B) : \E j \in 1..Len(r) : r[j] = b}
    BY <1>5
  <2> HIDE DEF G
  <2> QED
    BY <1>0, <2>1 DEF Built
<1> HIDE DEF G, next, add
<1>9. R \in SUBSET Nat /\ 1 \in R
  OBVIOUS
<1> HIDE DEF R
<1>10. Follows(G, F, R, Len(calls), f, next, add)
  BY <1>3, <1>4, <1>6, <1>7, <1>9 DEF Follows
<1>11. PICK q : Sorted(q, G[1]) /\ f[1] = Values(F, q)
  BY <1>9, <1>10, ChainSorted
<1> QED
  BY <1>3, <1>8, <1>11 DEF calls

\* A set of at most one, as a sequence.
LEMMA NoneToSeq == SetToSeq({}) = <<>>
<1>1. Cardinality({}) = 0
  BY FS_EmptySet
<1>2. <<>> \in [1..0 -> {}] /\ \A f \in [1..0 -> {}] : f = <<>>
  OBVIOUS
<1>3. IsInjective(<<>>)
  BY DEF IsInjective
<1> QED
  BY <1>1, <1>2, <1>3 DEF SetToSeq

LEMMA OneToSeq == ASSUME NEW c PROVE SetToSeq({c}) = <<c>>
<1>1. Cardinality({c}) = 1
  BY FS_Singleton
<1>2. <<c>> \in [1..1 -> {c}] /\ \A f \in [1..1 -> {c}] : f = <<c>>
  OBVIOUS
<1>3. IsInjective(<<c>>)
  BY DEF IsInjective
<1> QED
  BY <1>1, <1>2, <1>3 DEF SetToSeq

LEMMA ItemsOfOne ==
    ASSUME NEW c
    PROVE  buildItems(<<c>>) = IF buildToolCallItem(c) THEN <<c>> ELSE <<>>
<1> DEFINE calls == <<c>>
<1>1. calls \in Seq({c}) /\ DOMAIN calls = 1..1 /\ calls[1] = c
  OBVIOUS
<1> HIDE DEF calls
<1>2. PICK f : buildItems(calls) = f[1] /\ IsChain(f, ItemNext(calls), ItemAdd(calls))
  BY <1>1, ItemsAreChain
<1>3. ItemNext(calls)[1] = 2 /\ ItemNext(calls)[2] = 0
  BY <1>1 DEF ItemNext
<1> DEFINE next == ItemNext(calls)
           add == ItemAdd(calls)
<1>7. \A i \in Nat : f[i] = IF next[i] = 0 THEN <<>> ELSE add[i] \o f[next[i]]
  BY <1>2 DEF IsChain, Chained
<1>4. f[1] = ItemAdd(calls)[1] \o f[2] /\ f[2] = <<>>
  <2>1. next[1] = 2 /\ next[2] = 0
    BY <1>3
  <2> HIDE DEF next, add
  <2>3. 1 \in Nat /\ 2 \in Nat /\ next[1] # 0
    BY <2>1
  <2>4. f[1] = add[1] \o f[next[1]] /\ f[2] = <<>>
    BY <1>7, <2>1, <2>3, Zenon
  <2>2. f[1] = add[1] \o f[2] /\ f[2] = <<>>
    BY <2>1, <2>4, Zenon
  <2> QED
    BY <2>2 DEF add
<1>5. ItemAdd(calls)[1] = IF buildToolCallItem(c) THEN <<c>> ELSE <<>>
  BY <1>1 DEF ItemAdd
<1>6. <<c>> \o <<>> = <<c>> /\ <<>> \o <<>> = <<>>
  <2>1. <<c>> \in Seq({c}) /\ <<>> \in Seq({c})
    BY EmptySeq
  <2> QED
    BY <2>1, ConcatEmptySeq
<1> QED
  BY <1>2, <1>4, <1>5, <1>6 DEF calls

LEMMA NoValues == ASSUME NEW r, NEW F, Sorted(r, {}) PROVE Values(F, r) = <<>>
<1>1. Len(r) \in Nat /\ \A k \in 1..Len(r) : r[k] \in {}
  BY LenProperties, ElementOfSeq DEF Sorted
<1>2. 1..Len(r) = {}
  BY <1>1
<1> QED
  BY <1>2 DEF Values

LEMMA ItemsOfNone == buildItems(<<>>) = <<>>
<1> DEFINE calls == <<>>
<1>1. calls \in Seq({}) /\ DOMAIN calls = {}
  BY EmptySeq
<1> HIDE DEF calls
<1>2. PICK f : buildItems(calls) = f[1] /\ IsChain(f, ItemNext(calls), ItemAdd(calls))
  BY <1>1, ItemsAreChain
<1>3. ItemNext(calls)[1] = 0
  BY <1>1 DEF ItemNext
<1>5. \A i \in Nat : f[i] = Chained(f, ItemNext(calls), ItemAdd(calls))[i]
  BY <1>2 DEF IsChain
<1>6. Chained(f, ItemNext(calls), ItemAdd(calls))[1] = <<>>
  <2>1. PICK next : next = ItemNext(calls)
    OBVIOUS
  <2>2. next[1] = 0
    BY <1>3, <2>1
  <2>3. Chained(f, next, ItemAdd(calls))[1] = <<>>
    BY <2>2 DEF Chained
  <2> QED
    BY <2>1, <2>3
<1>4. f[1] = <<>>
  BY <1>5, <1>6
<1> QED
  BY <1>2, <1>4 DEF calls

\* The blocks that are well-formed calls, and those that become items.
Meant(t) == {b \in Blocks(t) : WellFormed(Body(t, b))}
Made(t) == {b \in Meant(t) : buildToolCallItem(Meaning(Body(t, b)))}

LEMMA MeantAreRead ==
    ASSUME NEW T, NEW t \in Seq(T), Regular(t)
    PROVE  /\ Meant(t) \subseteq CallBlocks(t)
           /\ \A b \in Meant(t) : CallOf(t)[b] = Meaning(Body(t, b))
           /\ \A b \in CallBlocks(t) \ Meant(t) :
                 ~buildToolCallItem(CallOf(t)[b]) /\ FirstObjects(t) = {}
           /\ Made(t) = Built(CallOf(t), CallBlocks(t))
<1>0. ASSUME NEW b \in Blocks(t)
      PROVE  \/ /\ WellFormed(Body(t, b))
                /\ parseV2ToolCallBlock(Body(t, b)) = Meaning(Body(t, b)) /\ Meaning(Body(t, b)) # NoCall
             \/ /\ ~WellFormed(Body(t, b))
                /\ \/ parseV2ToolCallBlock(Body(t, b)) = NoCall
                   \/ /\ ~buildToolCallItem(parseV2ToolCallBlock(Body(t, b)))
                      /\ FirstObjects(t) = {}
  <2>1. PICK body : body = Body(t, b)
    OBVIOUS
  <2>2. PICK x, y : x = b[1] + 1 /\ y = b[2] - 1
    OBVIOUS
  <2>3. x \in Int /\ y \in Int /\ \A k \in x..y : k \in 1..Len(t)
    <3>1. /\ b[1] \in 1..Len(t) /\ b[2] \in (b[1] + 1)..Len(t) /\ Len(t) \in Nat
      BY BlockPlaces, LenProperties
    <3> QED
      BY <2>2, <3>1
  <2>4. body = SubSeq(t, x, y) /\ \A k \in x..y : t[k] \in T
    BY <2>1, <2>2, <2>3, ElementOfSeq DEF Body
  <2>5. body \in Seq(T)
    BY <2>3, <2>4, SubSeqProperties
  <2>6. CASE Shaped(body)
    BY <2>1, <2>5, <2>6, BlockMeans
  <2>7. CASE Incomplete(body)
    BY <2>1, <2>5, <2>7, IncompleteIsNone
  <2>8. CASE CutInput(body) /\ Places(t, DOMAIN Bare) = {}
    <3>1. \A k \in 1..Len(t) : t[k] \notin DOMAIN Bare
      BY <2>8 DEF Places
    <3>2. FirstObjects(t) = {}
      <4> SUFFICES ASSUME NEW o \in FirstObjects(t) PROVE FALSE
        OBVIOUS
      <4>1. FirstCall(t, o[1], o[2])
        BY FirstCallIs
      <4> QED
        BY <3>1, <4>1 DEF FirstCall
    <3>3. Range(body) \cap DOMAIN Bare = {}
      <4> SUFFICES ASSUME NEW k \in DOMAIN body PROVE body[k] \notin DOMAIN Bare
        BY DEF Range
      <4>1. DOMAIN body = 1..Len(body)
        BY <2>5, LenProperties
      <4>2. /\ x =< y => Len(body) = y - x + 1
            /\ x > y => Len(body) = 0
            /\ \A j \in 1..(y - x + 1) : body[j] = t[x + j - 1]
        BY <2>3, <2>4, SubSeqProperties
      <4>3. k \in 1..(y - x + 1) /\ x + k - 1 \in x..y
        BY <2>3, <4>1, <4>2
      <4> QED
        BY <2>3, <3>1, <4>2, <4>3
    <3> QED
      BY <2>1, <2>5, <2>8, <3>2, <3>3, CutIsNoItem
  <2> QED
    BY <2>1, <2>6, <2>7, <2>8 DEF Regular
<1>1. ASSUME NEW b \in Meant(t)
      PROVE  CallOf(t)[b] = Meaning(Body(t, b)) /\ b \in CallBlocks(t)
  <2>1. b \in Blocks(t) /\ WellFormed(Body(t, b))
    BY DEF Meant
  <2>2. parseV2ToolCallBlock(Body(t, b)) = Meaning(Body(t, b)) /\ Meaning(Body(t, b)) # NoCall
    BY <1>0, <2>1
  <2> QED
    BY <2>1, <2>2 DEF CallOf, CallBlocks
<1>2. ASSUME NEW b \in CallBlocks(t) \ Meant(t)
      PROVE  ~buildToolCallItem(CallOf(t)[b]) /\ FirstObjects(t) = {}
  <2>1. b \in Blocks(t) /\ ~WellFormed(Body(t, b)) /\ parseV2ToolCallBlock(Body(t, b)) # NoCall
    BY DEF CallBlocks, Meant
  <2>2. CallOf(t)[b] = parseV2ToolCallBlock(Body(t, b))
    BY <2>1 DEF CallOf
  <2> QED
    BY <1>0, <2>1, <2>2
<1>3. Made(t) = Built(CallOf(t), CallBlocks(t))
  BY <1>1, <1>2 DEF Made, Built
<1> QED
  BY <1>1, <1>2, <1>3

\* The parser and the meaning of a text agree.
LEMMA ParsedIsWritten ==
    ASSUME NEW T, NEW t \in Seq(T), Regular(t)
    PROVE  parseToolCallItems(t) = WrittenItems(t)
<1> DEFINE B == CallBlocks(t)
           F == CallOf(t)
           made == InOrder(Made(t))
           bare == {V1Call(SubSeq(t, o[1], o[2])) : o \in FirstObjects(t)}
<1>1. WrittenItems(t) =
        IF Meant(t) # {} THEN [k \in DOMAIN made |-> Meaning(Body(t, made[k]))]
        ELSE SetToSeq({c \in bare : buildToolCallItem(c)})
  BY DEF WrittenItems, Made, Meant
<1>2. /\ Meant(t) \subseteq B /\ \A b \in Meant(t) : F[b] = Meaning(Body(t, b))
      /\ \A b \in B \ Meant(t) : FirstObjects(t) = {}
      /\ Made(t) = Built(F, B) /\ Made(t) \subseteq Meant(t)
  BY MeantAreRead DEF Made
<1>3. FirstObjects(t) = {} /\ Meant(t) = {} => WrittenItems(t) = <<>>
  BY <1>1, NoneToSeq
<1>4. CASE t = <<>>
  <2>1. Len(t) = 0
    BY <1>4
  <2>2. \A S : Places(t, S) = {}
    BY <2>1 DEF Places
  <2>3. Blocks(t) = {} /\ FirstObjects(t) = {}
    BY <2>2 DEF Blocks, FirstObjects
  <2>4. Meant(t) = {}
    BY <2>3 DEF Meant
  <2> QED
    BY <1>3, <1>4, <2>3, <2>4 DEF parseToolCallItems
<1>5. CASE t # <<>>
  <2>1. PICK r : Sorted(r, B) /\ parseV2ToolCalls(t) = Values(F, r)
    BY CallsOfBlocks
  <2>2. /\ Len(r) \in Nat /\ \A k \in 1..Len(r) : r[k] \in B
        /\ \A b \in B : \E k \in 1..Len(r) : r[k] = b
        /\ DOMAIN Values(F, r) = 1..Len(r)
    BY <2>1, LenProperties, ElementOfSeq DEF Sorted, Values
  <2>3. parseToolCallItems(t) = buildItems(tryParseToolCalls(t))
    BY <1>5 DEF parseToolCallItems
  <2> HIDE DEF B, F
  <2>4. CASE B = {}
    <3>1. parseV2ToolCalls(t) = <<>>
      <4>1. Values(F, r) = <<>>
        BY <2>1, <2>4, NoValues
      <4> QED
        BY <2>1, <4>1
    <3>2. tryParseToolCalls(t) = IF parseV1ToolCall(t) # NoCall THEN <<parseV1ToolCall(t)>> ELSE <<>>
      BY <3>1, TriedCalls
    <3>3. Meant(t) = {}
      BY <1>2, <2>4
    <3>4. CASE parseV1ToolCall(t) = NoCall /\ FirstObjects(t) = {}
      BY <1>3, <2>3, <3>2, <3>3, <3>4, ItemsOfNone
    <3>5. ASSUME parseV1ToolCall(t) # NoCall,
                 NEW o, FirstObjects(t) = {o}, parseV1ToolCall(t) = V1Call(SubSeq(t, o[1], o[2]))
          PROVE  parseToolCallItems(t) = WrittenItems(t)
      <4>1. PICK c : c = parseV1ToolCall(t)
        OBVIOUS
      <4>2. bare = {c}
        BY <3>5, <4>1
      <4> HIDE DEF bare
      <4>3. parseToolCallItems(t) = IF buildToolCallItem(c) THEN <<c>> ELSE <<>>
        BY <2>3, <3>2, <3>5, <4>1, ItemsOfOne
      <4>4. {x \in bare : buildToolCallItem(x)} = IF buildToolCallItem(c) THEN {c} ELSE {}
        BY <4>2
      <4>5. WrittenItems(t) = IF buildToolCallItem(c) THEN <<c>> ELSE <<>>
        BY <1>1, <3>3, <4>4, NoneToSeq, OneToSeq
      <4> QED
        BY <4>3, <4>5
    <3> QED
      BY <1>5, <3>4, <3>5, V1Reads
  <2>5. CASE B # {}
    <3>1. parseV2ToolCalls(t) # <<>>
      <4>1. PICK k \in 1..Len(r) : TRUE
        BY <2>2, <2>5
      <4>2. k \in DOMAIN parseV2ToolCalls(t) /\ DOMAIN <<>> = {}
        BY <2>1, <2>2, <4>1
      <4> QED
        BY <4>2
    <3>2. tryParseToolCalls(t) = Values(F, r)
      BY <2>1, <3>1, TriedCalls
    <3>3. PICK q : Sorted(q, Made(t)) /\ parseToolCallItems(t) = Values(F, q)
      BY <1>2, <2>1, <2>3, <3>2, ItemsOfValues
    <3>4. Len(q) \in Nat /\ DOMAIN q = 1..Len(q) /\ \A k \in 1..Len(q) : q[k] \in Made(t)
      BY <3>3, LenProperties, ElementOfSeq DEF Sorted
    <3>5. CASE Meant(t) # {}
      <4>1. made = q
        <5>1. \A b \in Made(t) : b[1] \in Nat
          BY LenProperties, BlockPlaces DEF Made, Meant
        <5>2. InOrder(Made(t)) = q
          BY <3>3, <5>1, SortedIsInOrder
        <5> QED
          BY <5>2
      <4> HIDE DEF made
      <4>2. WrittenItems(t) = [k \in 1..Len(q) |-> Meaning(Body(t, q[k]))]
        BY <1>1, <3>4, <3>5, <4>1
      <4>3. \A k \in 1..Len(q) : F[q[k]] = Meaning(Body(t, q[k]))
        BY <1>2, <3>4
      <4> QED
        BY <3>3, <4>2, <4>3 DEF Values
    <3>6. CASE Meant(t) = {}
      <4>1. Made(t) = {} /\ FirstObjects(t) = {}
        BY <1>2, <2>5, <3>6
      <4>3. Values(F, q) = <<>>
        BY <3>3, <4>1, NoValues
      <4> QED
        BY <1>3, <3>3, <3>6, <4>1, <4>3
    <3> QED
      BY <3>5, <3>6
  <2> QED
    BY <2>4, <2>5
<1> QED
  BY <1>4, <1>5

\* A beginning of a regular text is regular.
LEMMA RegularPrefix ==
    ASSUME NEW T, NEW t \in Seq(T), NEW n \in 0..Len(t), Regular(t)
    PROVE  Regular(SubSeq(t, 1, n))
<1> DEFINE p == SubSeq(t, 1, n)
<1>1. /\ p \in Seq(T) /\ Len(p) = n /\ n \in Nat /\ Len(t) \in Nat
      /\ \A k \in 1..n : p[k] = t[k]
  BY LenProperties, SubSeqProperties
<1>2. Places(t, DOMAIN Bare) = {} => Places(p, DOMAIN Bare) = {}
  <2> HIDE DEF p
  <2> QED
    BY <1>1 DEF Places
<1>3. ASSUME NEW b \in Blocks(p) PROVE b \in Blocks(t) /\ Body(p, b) = Body(t, b)
  <2> HIDE DEF p
  <2>1. /\ b = <<b[1], b[2]>> /\ b[1] \in 1..n /\ b[2] \in (b[1] + 1)..n
        /\ p[b[1]] = BlockStart /\ p[b[2]] = BlockEnd
        /\ \A k \in b[1]..(b[2] - 1) : p[k] # BlockEnd
        /\ \A h \in 1..(b[1] - 1) : p[h] = BlockStart => \E k \in h..b[1] : p[k] = BlockEnd
    BY <1>1, BlockPlaces
  <2>2. PICK x, y : x = b[1] /\ y = b[2]
    OBVIOUS
  <2>3. x \in 1..n /\ y \in 1..n /\ x < y /\ x \in 1..Len(t) /\ y \in 1..Len(t)
    BY <1>1, <2>1, <2>2
  <2>4. t[x] = BlockStart /\ t[y] = BlockEnd
    BY <1>1, <2>1, <2>2, <2>3
  <2>5. ASSUME NEW k \in x..(y - 1) PROVE t[k] # BlockEnd
    <3>1. k \in 1..n /\ p[k] # BlockEnd
      BY <1>1, <2>1, <2>2, <2>3
    <3> QED
      BY <1>1, <3>1
  <2>6. ASSUME NEW h \in 1..(x - 1), t[h] = BlockStart PROVE \E k \in h..x : t[k] = BlockEnd
    <3>1. h \in 1..n
      BY <1>1, <2>3
    <3>2. p[h] = BlockStart
      BY <1>1, <2>6, <3>1
    <3>3. PICK k \in h..x : p[k] = BlockEnd
      BY <2>1, <2>2, <3>2
    <3>4. k \in 1..n
      BY <1>1, <2>3, <3>1
    <3> QED
      BY <1>1, <3>3, <3>4
  <2>7. b \in Places(t, {BlockStart}) \X Places(t, {BlockEnd})
    <3>1. x \in Places(t, {BlockStart}) /\ y \in Places(t, {BlockEnd})
      BY <2>3, <2>4 DEF Places
    <3> QED
      BY <2>1, <2>2, <3>1
  <2>8. b \in Blocks(t)
    BY <2>2, <2>3, <2>5, <2>6, <2>7 DEF Blocks
  <2>9. Body(p, b) = Body(t, b)
    <3>1. PICK u, v : u = x + 1 /\ v = y - 1
      OBVIOUS
    <3>2. u \in Nat \ {0} /\ v \in Int /\ v =< n
      BY <1>1, <2>3, <3>1
    <3>3. SubSeq(p, u, v) = SubSeq(t, u, v)
      BY <3>2, PartOfPrefix DEF p
    <3> QED
      BY <2>2, <3>1, <3>3 DEF Body
  <2> QED
    BY <2>8, <2>9
<1> HIDE DEF p
<1>4. Regular(p)
  <2> SUFFICES ASSUME NEW b \in Blocks(p)
               PROVE  \/ Shaped(Body(p, b)) \/ Incomplete(Body(p, b))
                      \/ CutInput(Body(p, b)) /\ Places(p, DOMAIN Bare) = {}
    BY DEF Regular
  <2>1. b \in Blocks(t) /\ Body(p, b) = Body(t, b)
    BY <1>3
  <2>2. \/ Shaped(Body(t, b)) \/ Incomplete(Body(t, b))
        \/ CutInput(Body(t, b)) /\ Places(t, DOMAIN Bare) = {}
    BY <2>1 DEF Regular
  <2> QED
    BY <1>2, <2>1, <2>2
<1> QED
  BY <1>4 DEF p

\* Every block of an answer is written in one of the shapes of the protocol, is
\* cut short, or quotes the end of a block: a condition on the text and the
\* tools, not on what the parser makes of it.
RegularAnswers == \A a \in Answers : Regular(a)

(* The parser finds the calls that are complete in what has been written so *)
(* far, in their order, and no others, whichever tools there are: with      *)
(* arguments, null among them, with an input, or as an object that names    *)
(* its tool, in a block or in a text without calls in blocks.  The check of *)
(* the snapshot and that of the whole answer see the same                   *)
(* (tool_call.go:49-299, executor.go:642-661).                              *)
THEOREM ParsedAsWritten ==
    ASSUME RegularAnswers PROVE Spec => []ParsesAsWritten
<1>1. ASSUME TypeOK PROVE ParsesAsWritten
  <2>1. answer \in Answers /\ \E n \in 0..Len(answer) : final = Prefix(n)
    BY <1>1 DEF TypeOK
  <2>2. PICK n \in 0..Len(answer) : final = SubSeq(answer, 1, n)
    BY <2>1 DEF Prefix
  <2>3. answer \in Seq(ToSet(answer)) /\ Regular(answer)
    BY <2>1, StreamAssumption DEF StreamAssumption, RegularAnswers
  <2>4. Regular(final)
    BY <2>2, <2>3, RegularPrefix
  <2>5. final \in Seq(ToSet(answer))
    <3>1. \A k \in 1..n : answer[k] \in ToSet(answer)
      BY <2>3, LenProperties, ElementOfSeq
    <3>2. n \in Int
      BY <2>3, LenProperties
    <3> QED
      BY <2>2, <3>1, <3>2, SubSeqProperties
  <2>6. parseToolCallItems(final) = WrittenItems(final)
    <3>1. PICK t : t = final
      OBVIOUS
    <3>2. t \in Seq(ToSet(answer)) /\ Regular(t)
      BY <2>4, <2>5, <3>1
    <3> QED
      BY <3>1, <3>2, ParsedIsWritten
  <2> QED
    BY <2>6 DEF ParsesAsWritten
<1> QED
  BY <1>1, TypeCorrect, PTL

LEMMA AnswerParsed ==
    ASSUME RegularAnswers, NEW a \in Answers PROVE parseToolCallItems(a) = WrittenItems(a)
<1>1. a \in Seq(ToSet(a)) /\ Regular(a)
  BY StreamAssumption DEF StreamAssumption, RegularAnswers
<1> QED
  BY <1>1, ParsedIsWritten

(* An answer with calls that arrived to its end is neither a message nor    *)
(* sent to repair: the turn ends with its calls (executor.go:371-383,       *)
(* 428-452).                                                                *)
THEOREM AnswerServed ==
    ASSUME RegularAnswers PROVE Spec => []CompleteAnswerServed
<1>1. ASSUME StreamInv PROVE CompleteAnswerServed
  <2> SUFFICES ASSUME status \in {"message", "repair"}, ~cut, written # <<>>, dataBuf = <<>>,
                      Last(written) = Len(answer)
               PROVE  WrittenItems(answer) = <<>>
    BY DEF CompleteAnswerServed
  <2>1. answer \in Answers /\ Prefix(Len(answer)) = answer
    BY <1>1, Answered DEF StreamInv, TypeOK
  <2>2. final = answer /\ ItemsOf(final) = <<>>
    BY <1>1, <2>1 DEF StreamInv, NoCallsInv
  <2>3. parseToolCallItems(answer) = WrittenItems(answer)
    BY <2>1, AnswerParsed
  <2> QED
    BY <2>2, <2>3 DEF ItemsOf
<1> QED
  BY <1>1, Invariant, PTL
=============================================================================
