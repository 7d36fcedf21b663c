----------------------------- MODULE ToolStream -----------------------------
(***************************************************************************)
(* From the bytes of one chatOverStream response to the tool calls of the  *)
(* turn: readSSEStream (graph_client.go) and the callback that looks for   *)
(* calls in every snapshot (executor.go, Execute and ExecuteStream alike). *)
(*                                                                         *)
(* The upstream writes an answer token by token and sends snapshots: an    *)
(* event carries everything written so far, its JSON on one data line or   *)
(* split over two.  A line is handled when it is written, for nothing but  *)
(* the order of the lines and the end of the connection can be observed.   *)
(***************************************************************************)
EXTENDS ToolCalls

CONSTANTS
    Answers,        \* the texts the upstream may write
    MaxEvents       \* bound: snapshots of a response

ASSUME StreamAssumption ==
    /\ MaxEvents \in Nat
    /\ \A a \in Answers : a \in Seq(ToSet(a))

VARIABLES
    answer,         \* what the upstream is writing
    written,        \* the snapshots it began to send, as numbers of tokens
    line,           \* the last data line of the event under way, if any
    cut,            \* did the connection end inside a line or an event?
    dataBuf,        \* readSSEStream: the data lines of the event
    seen,           \* history: the snapshots the callback was given
    final,          \* finalAssistantText
    sawCandidate,   \* did a snapshot look like tool calls?
    items,          \* the items sent to the client
    status          \* where the turn is

upstream == <<answer, written, line, cut>>
turn == <<seen, final, sawCandidate, items>>
vars == <<upstream, dataBuf, turn, status>>

Prefix(n) == SubSeq(answer, 1, n)
Ended == {"eof", "broken", "cancelled"}

Line == [part : {"whole", "head", "tail"}, upto : 0..Len(answer)]

TypeOK ==
    /\ answer \in Answers
    /\ written \in Seq(0..Len(answer)) /\ Len(written) =< MaxEvents
    /\ line \in {"none", "whole", "head", "tail"}
    /\ cut \in BOOLEAN
    /\ dataBuf \in Seq(Line) /\ Len(dataBuf) =< 2
    /\ seen \in Seq(0..Len(answer))
    /\ \E n \in 0..Len(answer) : final = Prefix(n)
    /\ sawCandidate \in BOOLEAN
    /\ status \in {"reading", "calls", "message", "repair"} \cup Ended

Init ==
    /\ answer \in Answers
    /\ written = <<>> /\ line = "none" /\ cut = FALSE /\ dataBuf = <<>>
    /\ seen = <<>> /\ final = <<>> /\ sawCandidate = FALSE /\ items = <<>>
    /\ status = "reading"

-----------------------------------------------------------------------------
\* Mutant of ItemsOf: only what looks like a candidate is parsed.
ItemsOfCandidate(text) ==
    IF looksLikeToolCallCandidate(text) THEN parseToolCallItems(text) ELSE <<>>

\* The calls the callback finds in a snapshot.
ItemsOf(text) == parseToolCallItems(text)

\* Mutant of after: the calls are sent and the stream is read on.
readOn(found, next) == next

\* Whether the callback wants more events.
after(found, next) == IF found # <<>> THEN "calls" ELSE next

\* The callback on a snapshot of n tokens: a blank one changes nothing, one
\* with calls ends the stream.
OnEvent(n, next) ==
    /\ seen' = Append(seen, n)
    /\ IF n = 0
       THEN UNCHANGED <<final, sawCandidate, items>> /\ status' = next
       ELSE /\ final' = Prefix(n)
            /\ sawCandidate' = (sawCandidate \/ looksLikeToolCallCandidate(final'))
            /\ items' = items \o ItemsOf(final')
            /\ status' = after(ItemsOf(final'), next)

\* The snapshots gjson may see in the data of an event: the first JSON value,
\* and of half a value any part of its text.
Decoded(buf) ==
    IF buf[1].part = "whole" \/ Len(buf) > 1 THEN {buf[1].upto} ELSE 0..buf[1].upto

\* Mutant of Reset: the event stays in the buffer.
KeepData == UNCHANGED dataBuf

Reset == dataBuf' = <<>>

\* Without data lines there is no event.
flush(next) ==
    /\ Reset
    /\ IF dataBuf = <<>> THEN UNCHANGED turn /\ status' = next
       ELSE \E n \in Decoded(dataBuf) : OnEvent(n, next)

\* A "data:" line: a whole snapshot or its first half ...
DataLine ==
    /\ status = "reading"
    /\ line = "none" /\ Len(written) < MaxEvents
    /\ \E n \in 0..Len(answer), p \in {"whole", "head"} :
           /\ written # <<>> => n >= Last(written)
           /\ written' = Append(written, n)
           /\ line' = p
           /\ dataBuf' = Append(dataBuf, [part |-> p, upto |-> n])
    /\ UNCHANGED <<answer, cut, turn, status>>

\* ... or the second half.
SecondDataLine ==
    /\ status = "reading"
    /\ line = "head" /\ line' = "tail"
    /\ dataBuf' = Append(dataBuf, [part |-> "tail", upto |-> Last(written)])
    /\ UNCHANGED <<answer, written, cut, turn, status>>

\* A blank line ends an event; "id:", "event:" and comment lines, and blank
\* lines between events, change nothing and are left out.
BlankLine ==
    /\ status = "reading"
    /\ line \in {"whole", "tail"} /\ line' = "none"
    /\ flush("reading")
    /\ UNCHANGED <<answer, written, cut>>

\* Mutant of LastEvent: what the buffer holds is dropped.
DropLast == UNCHANGED turn /\ dataBuf' = <<>> /\ status' = "eof"

\* At the end of the stream the event under way is complete or cut.
LastEvent == flush("eof")

\* The upstream closes the connection.
EndOfFile ==
    /\ status = "reading"
    /\ LastEvent
    /\ cut' = (line = "head")
    /\ UNCHANGED <<answer, written, line>>

\* It closes it in the middle of the first data line of an event: a line
\* without a newline is dropped.
EndInLine ==
    /\ status = "reading"
    /\ line = "none" /\ Len(written) < MaxEvents
    /\ LastEvent
    /\ cut' = TRUE
    /\ UNCHANGED <<answer, written, line>>

\* The connection fails or takes too long, or the client is gone: nothing is
\* flushed.
Broken ==
    /\ status = "reading"
    /\ status' \in {"broken", "cancelled"}
    /\ UNCHANGED <<upstream, dataBuf, turn>>

\* After the stream: the last snapshot is parsed once more.  A turn whose text
\* looked like calls, or whose task calls for a tool, is repaired while the
\* client still waits; any other one is a message.
Finish(forced) ==
    /\ status \in Ended
    /\ items' = items \o parseToolCallItems(final)
    /\ sawCandidate' = (sawCandidate \/ looksLikeToolCallCandidate(final))
    /\ status' = IF items' # <<>> THEN "calls"
                 ELSE IF (sawCandidate' \/ forced) /\ status # "cancelled" THEN "repair"
                 ELSE "message"
    /\ UNCHANGED <<upstream, dataBuf, seen, final>>

Next ==
    \/ DataLine \/ SecondDataLine \/ BlankLine \/ EndOfFile \/ EndInLine \/ Broken
    \/ \E forced \in BOOLEAN : Finish(forced)   \* shouldForceToolRepair

Spec == Init /\ [][Next]_vars

-----------------------------------------------------------------------------
\* Whatever the upstream has written so far, the parser finds the calls that
\* are complete in it, and no others.  Where no block is a call that is the
\* first object of the text, be it that of a block still being written.
ParsesAsWritten == parseToolCallItems(final) = WrittenItems(final)

\* A call without delimiters is complete before the first block that is a call,
\* and is not what that block says; it may be the beginning of the block, whose
\* arguments look like a call of their own.
BareCallFirst(text) ==
    LET calls == parseV2ToolCalls(text) IN
    \E n \in 0..Len(text) :
        LET bare == parseV1ToolCall(SubSeq(text, 1, n)) IN
        /\ parseV2ToolCalls(SubSeq(text, 1, n)) = <<>> /\ bare # NoCall
        /\ calls # <<>> /\ calls[1] # bare

\* Stopping at the first snapshot with calls is safe: its items are the first
\* ones that the code would make of the whole answer, whatever that turns out
\* to be, unless a bare call was read first and delimited ones follow.
SnapshotCallsStand == IsPrefix(items, parseToolCallItems(answer)) \/ BareCallFirst(answer)

\* The callback gets every event once, whole and in order; only the last one
\* may be part of an event the connection was cut in.
EventsAsWritten ==
    /\ Len(seen) =< Len(written)
    /\ \A k \in 1..Len(seen) :
          \/ seen[k] = written[k]
          \/ k = Len(written) /\ cut /\ seen[k] =< written[k]

\* When the stream has ended without calls the last snapshot contains none:
\* the second parse of the code finds nothing, which Executor relies on.
SecondParseFindsNothing == status \in Ended => parseToolCallItems(final) = <<>>

\* An answer that arrived to its end, in a stream that was not cut, is not
\* taken for a message or sent to repair if it contains calls.
CompleteAnswerServed ==
    status \in {"message", "repair"} /\ ~cut /\ written # <<>> /\ dataBuf = <<>>
        /\ Last(written) = Len(answer)
    => WrittenItems(answer) = <<>>
=============================================================================
