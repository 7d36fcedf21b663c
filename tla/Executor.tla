------------------------------ MODULE Executor ------------------------------
(***************************************************************************)
(* internal/provider/m365/executor.go with openai_helpers.go and           *)
(* tool_retry.go: what the proxy does with the requests of ONE session key, *)
(* from the first line of Execute / ExecuteStream to the last deferred     *)
(* call, between a Codex-like client and Microsoft Graph.                  *)
(*                                                                         *)
(* The client resends its whole history with every request.  The session   *)
(* remembers how long the history was the last time and which upstream     *)
(* conversation it is bound to; a turn forwards only the tail.             *)
(* The session store is used through what SessionLease promises: an        *)
(* exclusive atomic start, a release, and the loss of idle sessions.       *)
(*                                                                         *)
(* Texts are abstracted to what decides the control flow: an upstream      *)
(* snapshot is plain text, a tool-call candidate that does not parse, or   *)
(* text whose tool calls parse.                                            *)
(***************************************************************************)
EXTENDS Integers, Sequences, FiniteSets, SequencesExt

CONSTANTS
    Reqs,           \* request slots: how many requests may be open at once
    NoReq,          \* the client waits for nothing
    Modes,          \* subset of {"stream", "sync"}: ExecuteStream, Execute
    ToolSets,       \* subset of BOOLEAN: does a request offer tools?
    ImageSets,      \* subset of BOOLEAN: does a user message carry images?
    UserKinds,      \* subset of {"user", "mute"}: the user messages written
    OutputKinds,    \* subset of {"output", "blank"}: the tool outputs written
    HandOver,       \* the client goes on at the "answer" or at "eof"
    Disconnects,    \* may the client hang up in the middle of a request?
    MaxRequests,    \* bound: requests submitted
    MaxUserItems,   \* bound: user messages written
    MaxSnapshots,   \* bound: assistant snapshots per upstream stream
    CallCounts,     \* how many tool calls one answer may hold
    MaxLosses,      \* bound: expiries of the idle session and restarts
    ChanCap         \* capacity of the chunk channel (64 in the code)

ASSUME NoReqAssumption == NoReq \notin Reqs
ASSUME ClientAssumption ==
    /\ Modes \subseteq {"stream", "sync"}
    /\ ToolSets \subseteq BOOLEAN /\ ImageSets \subseteq BOOLEAN
    /\ UserKinds \subseteq {"user", "mute"} /\ OutputKinds \subseteq {"output", "blank"}
    /\ HandOver \in {"answer", "eof"}
    /\ Disconnects \in BOOLEAN
ASSUME BoundAssumption ==
    /\ MaxRequests \in Nat /\ MaxUserItems \in Nat /\ MaxSnapshots \in Nat
    /\ CallCounts \subseteq Nat \ {0} /\ MaxLosses \in Nat /\ ChanCap \in Nat \ {0}

maxToolCallRepairAttempts == 2

VARIABLES
    client,     \* the client: its history, what it waits for, its counters
    session,    \* the sessionState of the key
    losses,     \* how often the session was lost
    req,        \* the requests: locals of Execute / ExecuteStream
    posts,      \* chatOverStream posts Graph has accepted, in order
    convs,      \* number of conversations Graph has created
    gone        \* history variable: items given up for good

vars == <<client, session, losses, req, posts, convs, gone>>

\* A mute user message has no content of which anything is read, a blank output
\* is empty or of a type that is not known.
Item == [id : Nat, kind : {"user", "mute", "output", "blank", "assistant", "text"},
         images : BOOLEAN]
Event == {"created", "delta", "call", "message", "completed", "failed", "error"}
Terminal == {"completed", "failed", "error"}
Points == {"free", "start", "upload", "token", "conversation", "chat", "stream",
           "repair", "repairStream", "cleanup", "release", "close", "done"}
NoConv == 0

\* The last two are history: the input the length was taken from, and whether
\* a history that was rewritten has passed for one that grew.
NewSession == [processedInputLen |-> 0, conversationID |-> NoConv, inFlight |-> FALSE,
               processed |-> <<>>, unnoticed |-> FALSE]

NoRequest ==
    [pc |-> "free", id |-> 0, input |-> <<>>, mode |-> "sync", tools |-> FALSE,
     turn |-> {},           \* the items this turn forwards (turnExtract)
     live |-> FALSE,        \* the context is not cancelled
     snapshots |-> 0,       \* assistant snapshots read from the stream
     saw |-> FALSE,         \* sawToolCandidate
     attempt |-> 0,         \* repair attempt
     cut |-> FALSE,         \* the main stream ended in an error, not in EOF
     uploaded |-> FALSE,    \* the turn's images are on the drive
     out |-> <<>>,          \* events computed, not yet sent or returned
     chan |-> <<>>,         \* the chunk channel
     recv |-> <<>>]         \* what the client has received

TypeOK ==
    /\ client \in [hist : Seq(Item), waiting : Reqs \cup {NoReq},
                   submitted : Nat, written : Nat, nextId : Nat]
    /\ session \in [processedInputLen : Nat, conversationID : Nat, inFlight : BOOLEAN,
                    processed : Seq(Item), unnoticed : BOOLEAN]
    /\ losses \in Nat /\ convs \in Nat
    /\ req \in [Reqs ->
          [pc : Points, id : Nat, input : Seq(Item), mode : {"stream", "sync"},
           tools : BOOLEAN, turn : SUBSET Item, live : BOOLEAN, snapshots : Nat,
           saw : BOOLEAN, attempt : 0 .. maxToolCallRepairAttempts + 1, cut : BOOLEAN, uploaded : BOOLEAN,
           out : Seq(Event), chan : Seq(Event), recv : Seq(Event)]]
    /\ \A r \in Reqs : Len(req[r].chan) <= ChanCap
    /\ posts \in Seq([id : Nat, conv : Nat, items : SUBSET Item, repair : BOOLEAN])
    /\ gone \in SUBSET Item

Init ==
    /\ client = [hist |-> <<>>, waiting |-> NoReq, submitted |-> 0, written |-> 0,
                 nextId |-> 1]
    /\ session = NewSession
    /\ losses = 0
    /\ req = [r \in Reqs |-> NoRequest]
    /\ posts = <<>>
    /\ convs = 0
    /\ gone = {}

-----------------------------------------------------------------------------
(* Which items of a history a turn forwards *)

UserItems(s) == {i \in ToSet(s) : i.kind = "user"}
Outputs(S) == {i \in S : i.kind = "output"}
Forwardable(s) == UserItems(s) \cup Outputs(ToSet(s))

\* A user message with another one after it, even one of which nothing is read.
Superseded(s) ==
    {s[n] : n \in {n \in DOMAIN s :
        s[n].kind = "user" /\ \E m \in DOMAIN s : m > n /\ s[m].kind \in {"user", "mute"}}}

\* extractTurnData reads the last user message of the new items, and no other:
\* a last message that is mute leaves the turn without one.
LastUser(s) ==
    {s[n] : n \in {n \in DOMAIN s :
        s[n].kind = "user" /\ \A m \in DOMAIN s : m > n => s[m].kind \notin {"user", "mute"}}}

\* extractPendingTurn: a history shorter than before is a new conversation.
IsText(input) == input # <<>> /\ Head(input).kind = "text"
IsReset(input) == ~IsText(input) /\ Len(input) < session.processedInputLen

\* A length is all the session knows: a history that was rewritten, or that an
\* abandoned request brings late, is taken for one that grew if it is no shorter.
Unnoticed(input) ==
    /\ ~IsReset(input)
    /\ \/ session.unnoticed
       \/ ~IsText(input) /\ ~IsPrefix(session.processed, input)

\* Mutants of NewItems: the whole history; one item too few.
NewItemsAll(input) == input
NewItemsLate(input) == SubSeq(input, session.processedInputLen + 2, Len(input))

NewItems(input) ==
    LET from == IF IsText(input) \/ IsReset(input) THEN 0 ELSE session.processedInputLen
    IN  SubSeq(input, from + 1, Len(input))

\* An input that is one string has no history: it is forwarded whole.
TurnItems(new) ==
    IF IsText(new) THEN ToSet(new) ELSE LastUser(new) \cup Outputs(ToSet(new))

-----------------------------------------------------------------------------
(* The client *)

Offered(r) == req[r].recv \o req[r].chan \o req[r].out
AtEof(r) == req[r].pc = "done" /\ req[r].chan = <<>>
HasAnswer(r) == req[r].recv # <<>> /\ Last(req[r].recv) \in Terminal

\* The user writes the next message.
WriteMessage ==
    /\ client.waiting = NoReq
    /\ client.written < MaxUserItems
    /\ \E kind \in UserKinds, img \in ImageSets :
         client' = [client EXCEPT
            !.hist = Append(@, [id |-> client.nextId, kind |-> kind, images |-> img]),
            !.written = @ + 1,
            !.nextId = @ + 1]
    /\ UNCHANGED <<session, losses, req, posts, convs, gone>>

Issue(r, input, c) ==
    /\ client.waiting = NoReq
    /\ client.submitted < MaxRequests
    /\ req[r].pc = "free"
    /\ \E m \in Modes, tl \in ToolSets :
         req' = [req EXCEPT ![r] = [NoRequest EXCEPT
            !.pc = "start", !.id = client.submitted + 1, !.input = input,
            !.mode = m, !.tools = tl, !.live = TRUE]]
    /\ client' = [c EXCEPT !.waiting = r, !.submitted = @ + 1]
    /\ UNCHANGED <<session, losses, posts, convs, gone>>

\* A first request, a follow-up, or the retry of a failed request.
Submit(r) ==
    /\ client.hist # <<>>
    /\ Last(client.hist).kind # "assistant"
    /\ Issue(r, client.hist, client)

\* A request whose input is one string, outside the history.
SubmitText(r) ==
    /\ client.written < MaxUserItems
    /\ LET text == <<[id |-> client.nextId, kind |-> "text", images |-> FALSE]>>
       IN  Issue(r, text, [client EXCEPT !.written = @ + 1, !.nextId = @ + 1])

\* The client compacts its history.  It does not know which of its requests the
\* proxy has prepared, nor whether the new history is shorter than the last of those.
SubmitCompacted(r) ==
    /\ client.written < MaxUserItems
    /\ client.hist # <<>>
    /\ LET summary == <<[id |-> client.nextId, kind |-> "user", images |-> FALSE]>>
       IN  Issue(r, summary, [client EXCEPT !.hist = summary, !.written = @ + 1, !.nextId = @ + 1])

\* The client goes on: it appends the answer, one item for each tool call or one
\* message, and an output for each call.
CallsIn(events) == Cardinality({n \in DOMAIN events : events[n] = "call"})

GoOn(r) ==
    /\ client.waiting = r
    /\ IF HandOver = "eof" THEN AtEof(r) ELSE AtEof(r) \/ HasAnswer(r)
    /\ LET completed == "completed" \in ToSet(req[r].recv) /\ ~IsText(req[r].input)
           calls == IF completed THEN CallsIn(req[r].recv) ELSE 0
           said == IF completed /\ calls = 0 THEN 1 ELSE calls
       IN  \E kinds \in [1 .. calls -> OutputKinds] :
              client' = [client EXCEPT
                 !.hist = @ \o [n \in 1 .. said + calls |->
                     [id |-> client.nextId + n - 1, images |-> FALSE,
                      kind |-> IF n <= said THEN "assistant" ELSE kinds[n - said]]],
                 !.nextId = @ + said + calls,
                 !.waiting = NoReq]
    /\ req' = IF AtEof(r) THEN [req EXCEPT ![r] = NoRequest] ELSE req
    /\ UNCHANGED <<session, losses, posts, convs, gone>>

\* The client closes the connection: the request's context is cancelled.
HangUp(r) ==
    /\ Disconnects
    /\ client.waiting = r
    /\ ~AtEof(r)
    /\ req' = [req EXCEPT ![r].live = FALSE]
    /\ client' = [client EXCEPT !.waiting = NoReq]
    /\ UNCHANGED <<session, losses, posts, convs, gone>>

\* The SDK reads the channel until it is closed, also for a client that left.
Receive(r) ==
    /\ req[r].chan # <<>>
    /\ req' = [req EXCEPT ![r].recv = Append(@, Head(req[r].chan)), ![r].chan = Tail(@)]
    /\ UNCHANGED <<client, session, losses, posts, convs, gone>>

\* A request nobody waits for any more leaves its slot.
Reclaim(r) ==
    /\ AtEof(r)
    /\ client.waiting # r
    /\ req' = [req EXCEPT ![r] = NoRequest]
    /\ UNCHANGED <<client, session, losses, posts, convs, gone>>

-----------------------------------------------------------------------------
(* The executor.  One step per call that leaves the process or publishes   *)
(* something; a step runs only once every earlier send has gone through.   *)

At(r, p) == req[r].pc = p /\ (req[r].mode = "stream" => req[r].out = <<>>)
Streams(r) == req[r].mode = "stream"
HasTask(r) == \E i \in req[r].turn : i.kind \in {"user", "text"}
NeedsUpload(items) == \E i \in items : i.images
Posted == UNION {posts[n].items : n \in DOMAIN posts}

\* Where the function goes when it returns: the deferred calls, last first.
Deferred(r) == IF req[r].uploaded THEN "cleanup" ELSE "release"

\* The finished items, one event each, and the end: a message, or the tool calls.
Answer(items) == Append(items, "completed")
Message == <<"message">>
Calls == {[n \in 1 .. k |-> "call"] : k \in CallCounts}
Failure(r) == IF Streams(r) THEN <<"failed">> ELSE <<"error">>

\* Every failing path after prepareTurnState; the items not yet posted are lost.
Fail(r) ==
    /\ req' = [req EXCEPT ![r].out = @ \o Failure(r), ![r].pc = Deferred(r)]
    /\ gone' = gone \cup (req[r].turn \ Posted)

\* prepareTurnState, tryStart refuses: the request ends at once.
Refuse(r) ==
    /\ At(r, "start")
    /\ session.inFlight
    /\ req' = [req EXCEPT ![r].recv = <<"error">>, ![r].pc = "done"]
    /\ UNCHANGED <<client, session, losses, posts, convs, gone>>

\* prepareTurnState: the session is taken and its processedInputLen advanced.
Prepare(r) ==
    /\ At(r, "start")
    /\ ~session.inFlight
    /\ LET input == req[r].input
           new   == NewItems(input)
           items == TurnItems(new)
       IN  /\ session' = [processedInputLen |-> IF IsText(input) THEN session.processedInputLen
                                                ELSE Len(input),
                          conversationID |-> IF IsReset(input) THEN NoConv
                                             ELSE session.conversationID,
                          inFlight |-> TRUE,
                          processed |-> IF IsText(input) THEN session.processed ELSE input,
                          unnoticed |-> Unnoticed(input)]
           /\ req' = [req EXCEPT ![r].turn = items,
                        ![r].pc = IF NeedsUpload(items) THEN "upload" ELSE "token"]
           /\ gone' = gone \cup Superseded(new)
    /\ UNCHANGED <<client, losses, posts, convs>>

\* response.created, once there is a token; Execute has no such event.
Created(r) == IF Streams(r) THEN <<"created">> ELSE <<>>

\* ensureImageUploadAccessToken and prepareUploadedTurnFiles succeed ...
Upload(r) ==
    /\ At(r, "upload")
    /\ req[r].live
    /\ req' = [req EXCEPT ![r].uploaded = TRUE, ![r].out = Created(r),
                          ![r].pc = "conversation"]
    /\ UNCHANGED <<client, session, losses, posts, convs, gone>>

\* Mutant of UploadFails: the early return forgets state.end().
UploadFailsHolding(r) ==
    /\ At(r, "upload")
    /\ req' = [req EXCEPT ![r].recv = <<"error">>, ![r].pc = "done"]
    /\ gone' = gone \cup (req[r].turn \ Posted)
    /\ UNCHANGED <<client, session, losses, posts, convs>>

\* ... or fail: the session is released and the call returns an error, no stream.
UploadFails(r) ==
    /\ At(r, "upload")
    /\ session' = [session EXCEPT !.inFlight = FALSE]
    /\ req' = [req EXCEPT ![r].recv = <<"error">>, ![r].pc = "done"]
    /\ gone' = gone \cup (req[r].turn \ Posted)
    /\ UNCHANGED <<client, losses, posts, convs>>

\* ensureAccessToken: a cached token needs no call, so no live context either.
Token(r) ==
    /\ At(r, "token")
    /\ req' = [req EXCEPT ![r].out = Created(r), ![r].pc = "conversation"]
    /\ UNCHANGED <<client, session, losses, posts, convs, gone>>

TokenFails(r) ==
    /\ At(r, "token")
    /\ Fail(r)
    /\ UNCHANGED <<client, session, losses, posts, convs>>

\* The session is bound to a conversation already, or gets a new one ...
Converse(r) ==
    /\ At(r, "conversation")
    /\ \/ /\ session.conversationID # NoConv
          /\ UNCHANGED <<session, convs>>
       \/ /\ session.conversationID = NoConv
          /\ req[r].live
          /\ convs' = convs + 1
          /\ session' = [session EXCEPT !.conversationID = convs + 1]
    /\ req' = [req EXCEPT ![r].pc = "chat"]
    /\ UNCHANGED <<client, losses, posts, gone>>

\* Mutant of ConverseFails: the call does not notice a cancelled context.
ConverseFailsWhileLive(r) ==
    /\ At(r, "conversation")
    /\ session.conversationID = NoConv
    /\ req[r].live
    /\ Fail(r)
    /\ UNCHANGED <<client, session, losses, posts, convs>>

\* ... or createConversation fails.
ConverseFails(r) ==
    /\ At(r, "conversation")
    /\ session.conversationID = NoConv
    /\ Fail(r)
    /\ UNCHANGED <<client, session, losses, posts, convs>>

\* Graph accepts a post.  A repair post repeats the context of the turn.
Accept(r, repair) ==
    /\ req[r].live
    /\ posts' = Append(posts,
          [id |-> req[r].id, conv |-> session.conversationID, repair |-> repair,
           items |-> IF repair THEN Outputs(req[r].turn) ELSE req[r].turn])

Chat(r) ==
    /\ At(r, "chat")
    /\ Accept(r, FALSE)
    /\ req' = [req EXCEPT ![r].pc = "stream"]
    /\ UNCHANGED <<client, session, losses, convs, gone>>

\* Mutant of ChatFails: the error is dropped, the empty text is the answer.
ChatFailsUnnoticed(r) ==
    /\ At(r, "chat")
    /\ req' = [req EXCEPT ![r].out = Answer(Message), ![r].pc = Deferred(r)]
    /\ UNCHANGED <<client, session, losses, posts, convs, gone>>

\* chatOverStream returns an error: the post was refused, or its reply lost.
ChatFails(r) ==
    /\ At(r, "chat")
    /\ \/ /\ Fail(r)
          /\ UNCHANGED posts
       \/ /\ Accept(r, FALSE)
          /\ req' = [req EXCEPT ![r].out = Failure(r), ![r].pc = Deferred(r)]
          /\ UNCHANGED gone
    /\ UNCHANGED <<client, session, losses, convs>>

\* An assistant snapshot is read: its visible part may be empty.
Snapshot(r) ==
    /\ At(r, "stream")
    /\ req[r].snapshots < MaxSnapshots
    /\ \E candidate \in (IF req[r].tools THEN BOOLEAN ELSE {FALSE}),
         delta \in (IF Streams(r) THEN {<<>>, <<"delta">>} ELSE {<<>>}) :
         req' = [req EXCEPT ![r].snapshots = @ + 1, ![r].saw = @ \/ candidate,
                            ![r].out = delta]
    /\ UNCHANGED <<client, session, losses, posts, convs, gone>>

\* Mutant of ToolCalls: the event callback asks for more events.
ToolCallsReadOn(r) ==
    /\ At(r, "stream")
    /\ req[r].tools
    /\ \E calls \in Calls : req' = [req EXCEPT ![r].out = Answer(calls)]
    /\ UNCHANGED <<client, session, losses, posts, convs, gone>>

\* The tool calls of a snapshot parse: they are the answer, the stream is dropped.
ToolCalls(r) ==
    /\ At(r, "stream")
    /\ req[r].tools
    /\ \E calls \in Calls :
         req' = [req EXCEPT ![r].out = Answer(calls), ![r].pc = Deferred(r)]
    /\ UNCHANGED <<client, session, losses, posts, convs, gone>>

\* The stream ends, in EOF or in an error that is ignored.  The tool calls of
\* the last snapshot did not parse before, so the second parse finds none
\* either; then repair (which shouldForceToolRepair asks for only when there is
\* a user task), or a message.
StreamEnds(r) ==
    /\ At(r, "stream")
    /\ \E error \in BOOLEAN, forced \in (IF HasTask(r) THEN BOOLEAN ELSE {FALSE}) :
         req' = IF req[r].tools /\ (req[r].saw \/ forced) /\ req[r].live
                THEN [req EXCEPT ![r].cut = error, ![r].pc = "repair", ![r].attempt = 1]
                ELSE [req EXCEPT ![r].cut = error, ![r].pc = Deferred(r),
                                 ![r].out = Answer(Message)]
    /\ UNCHANGED <<client, session, losses, posts, convs, gone>>

\* Mutant of Repair: one attempt too many.
RepairOnceMore(r) ==
    /\ At(r, "repair")
    /\ req[r].attempt <= maxToolCallRepairAttempts + 1
    /\ Accept(r, TRUE)
    /\ req' = [req EXCEPT ![r].pc = "repairStream"]
    /\ UNCHANGED <<client, session, losses, convs, gone>>

\* Mutant of Repair: a repair is asked in a conversation of its own.
RepairElsewhere(r) ==
    /\ At(r, "repair")
    /\ req[r].attempt <= maxToolCallRepairAttempts
    /\ req[r].live
    /\ convs' = convs + 1
    /\ posts' = Append(posts, [id |-> req[r].id, conv |-> convs + 1, repair |-> TRUE,
                              items |-> Outputs(req[r].turn)])
    /\ req' = [req EXCEPT ![r].pc = "repairStream"]
    /\ UNCHANGED <<client, session, losses, gone>>

\* repairToolCall: one attempt ...
Repair(r) ==
    /\ At(r, "repair")
    /\ req[r].attempt <= maxToolCallRepairAttempts
    /\ Accept(r, TRUE)
    /\ req' = [req EXCEPT ![r].pc = "repairStream"]
    /\ UNCHANGED <<client, session, losses, convs, gone>>

\* Mutant of RepairFails: a failed post is tried again without end.
RepairFailsForever(r) ==
    /\ At(r, "repair")
    /\ req[r].live
    /\ req' = [req EXCEPT ![r].attempt = @ + 1]
    /\ UNCHANGED <<client, session, losses, posts, convs, gone>>

\* ... whose post fails, whether or not Graph accepted it ...
RepairFails(r) ==
    /\ At(r, "repair")
    /\ req[r].attempt <= maxToolCallRepairAttempts
    /\ req[r].live
    /\ Accept(r, TRUE) \/ UNCHANGED posts
    /\ req' = [req EXCEPT ![r].attempt = @ + 1]
    /\ UNCHANGED <<client, session, losses, convs, gone>>

\* ... or whose stream ends without tool calls, or holds them.
RepairStreamEnds(r) ==
    /\ At(r, "repairStream")
    /\ req' = [req EXCEPT ![r].attempt = @ + 1, ![r].pc = "repair"]
    /\ UNCHANGED <<client, session, losses, posts, convs, gone>>

RepairSucceeds(r) ==
    /\ At(r, "repairStream")
    /\ \E calls \in Calls :
         req' = [req EXCEPT ![r].out = Answer(calls), ![r].pc = Deferred(r)]
    /\ UNCHANGED <<client, session, losses, posts, convs, gone>>

\* All attempts are used up or the context is cancelled: the text is the answer.
RepairGivesUp(r) ==
    /\ At(r, "repair")
    /\ req[r].attempt > maxToolCallRepairAttempts \/ ~req[r].live
    /\ req' = [req EXCEPT ![r].out = Answer(Message), ![r].pc = Deferred(r)]
    /\ UNCHANGED <<client, session, losses, posts, convs, gone>>

\* The deferred calls: delete the uploaded files, release the session, then
\* close the channel, or return from Execute with the response.  The locals of
\* the turn are dropped with the session.
Cleanup(r) ==
    /\ At(r, "cleanup")
    /\ req' = [req EXCEPT ![r].uploaded = FALSE, ![r].pc = "release"]
    /\ UNCHANGED <<client, session, losses, posts, convs, gone>>

Release(r) ==
    /\ At(r, "release")
    /\ session' = [session EXCEPT !.inFlight = FALSE]
    /\ req' = [req EXCEPT ![r].pc = "close", ![r].turn = {}, ![r].snapshots = 0,
                          ![r].saw = FALSE, ![r].attempt = 0, ![r].cut = FALSE]
    /\ UNCHANGED <<client, losses, posts, convs, gone>>

Close(r) ==
    /\ At(r, "close")
    /\ req' = [req EXCEPT ![r].recv = IF Streams(r) THEN @ ELSE req[r].out,
                          ![r].out = <<>>, ![r].pc = "done"]
    /\ UNCHANGED <<client, session, losses, posts, convs, gone>>

\* ch <- chunk blocks while the channel is full.
SendChunk(r) ==
    /\ Streams(r)
    /\ req[r].out # <<>>
    /\ Len(req[r].chan) < ChanCap
    /\ req' = [req EXCEPT ![r].chan = Append(@, Head(req[r].out)), ![r].out = Tail(@)]
    /\ UNCHANGED <<client, session, losses, posts, convs, gone>>

-----------------------------------------------------------------------------
(* Losing the session *)

\* SessionLease!Forget: only while no request holds it.
Expire ==
    /\ losses < MaxLosses
    /\ ~session.inFlight
    /\ session' = NewSession
    /\ losses' = losses + 1
    /\ UNCHANGED <<client, req, posts, convs, gone>>

\* The process dies and is started again: sessions and requests are gone.
Restart ==
    /\ losses < MaxLosses
    /\ session' = NewSession
    /\ req' = [r \in Reqs |-> NoRequest]
    /\ client' = [client EXCEPT !.waiting = NoReq]
    /\ losses' = losses + 1
    /\ UNCHANGED <<posts, convs, gone>>

-----------------------------------------------------------------------------
Serve(r) ==
    \/ Refuse(r) \/ Prepare(r) \/ Upload(r) \/ UploadFails(r) \/ Token(r) \/ TokenFails(r)
    \/ Converse(r) \/ ConverseFails(r) \/ Chat(r) \/ ChatFails(r)
    \/ Snapshot(r) \/ ToolCalls(r) \/ StreamEnds(r)
    \/ Repair(r) \/ RepairFails(r) \/ RepairStreamEnds(r) \/ RepairSucceeds(r)
    \/ RepairGivesUp(r)
    \/ Cleanup(r) \/ Release(r) \/ Close(r) \/ SendChunk(r)

Next ==
    \/ WriteMessage
    \/ \E r \in Reqs : \/ Submit(r) \/ SubmitText(r) \/ SubmitCompacted(r) \/ GoOn(r) \/ HangUp(r)
                       \/ Receive(r) \/ Reclaim(r)
                       \/ Serve(r)
    \/ Expire
    \/ Restart

\* Graph answers or the call times out, and the SDK drains the channel.
Fairness == \A r \in Reqs : WF_vars(Serve(r)) /\ WF_vars(Receive(r))

Spec == Init /\ [][Next]_vars /\ Fairness

-----------------------------------------------------------------------------
Holds(r) == req[r].pc \notin {"free", "start", "close", "done"}

(* The events of a stream: response.created, text deltas, then the         *)
(* finished tool calls one after another or one finished message, and      *)
(* exactly one terminal event, which is the last; a request that fails     *)
(* before its token sends response.failed alone, and a channel is closed   *)
(* only after the terminal event (executor.go:310-457).                    *)
StreamGrammar ==
    \A r \in Reqs :
        LET s == Offered(r)
        IN  /\ \A n \in DOMAIN s :
                 /\ s[n] \in Terminal => n = Len(s)
                 /\ s[n] = "created" => n = 1
                 /\ s[n] = "call" => n < Len(s) /\ s[n + 1] \in {"call", "completed"}
                 /\ s[n] = "message" => n < Len(s) /\ s[n + 1] = "completed"
                 /\ s[n] = "completed" => n > 1 /\ s[n - 1] \in {"call", "message"}
            /\ req[r].mode = "stream" /\ Len(s) > 1 => s[1] = "created"
            /\ req[r].pc = "done" => s # <<>> /\ Last(s) \in Terminal

(* No item of the history reaches the same upstream conversation in two    *)
(* turns: not by a retry, not by a history that grew or was compacted, not *)
(* after an expiry or a restart (openai_helpers.go:152-180,                *)
(* executor.go:118-124).                                                   *)
ForwardedOnce ==
    \A m, n \in DOMAIN posts :
        m < n /\ ~posts[m].repair /\ ~posts[n].repair /\ posts[m].conv = posts[n].conv
            => posts[m].items \cap posts[n].items = {}

(* Every user message and tool output of a history the session has         *)
(* processed was forwarded, is in the turn under way, was superseded by a  *)
(* later user message of the same turn, or belonged to a turn that failed: *)
(* the tail computation itself loses nothing (openai_helpers.go:158-171),  *)
(* unless it could not see that the history was rewritten.  Two kinds of   *)
(* item are never forwarded and not meant here: a user message nothing is  *)
(* read of, which still supersedes the one before it, and a tool output    *)
(* that is blank or of an unknown type (openai_helpers.go:94-97, 122-139). *)
NothingSkipped ==
    ~session.unnoticed =>
        \A r \in Reqs :
            Holds(r) => Forwardable(req[r].input) \subseteq Posted \cup gone \cup req[r].turn

(* A request posts upstream only while it holds the session, before its    *)
(* terminal event, with its images still on the drive; once for the turn   *)
(* and at most maxToolCallRepairAttempts times to repair it                *)
(* (executor.go:311-315, tool_retry.go:26).                                *)
PostsInOrder ==
    [][posts' # posts =>
          \E r \in Reqs :
              LET mine == {n \in DOMAIN posts' : posts'[n].id = req[r].id}
              IN  /\ Len(posts') \in mine
                  /\ Holds(r)
                  /\ ToSet(Offered(r)) \cap Terminal = {}
                  /\ NeedsUpload(req[r].turn) => req[r].uploaded
                  /\ Cardinality(mine) <= 1 + maxToolCallRepairAttempts
                  /\ \A n \in mine : posts'[n].repair <=> \E m \in mine : m < n]_vars

(* A completed response was asked of the upstream: every error path ends   *)
(* in response.failed or in an error, never in an empty success            *)
(* (executor.go:171-211, 319-351).                                         *)
CompletedWasPosted ==
    \A r \in Reqs :
        "completed" \in ToSet(Offered(r)) => \E n \in DOMAIN posts : posts[n].id = req[r].id

(* A client that has seen the end of its previous request is never turned  *)
(* away: when a request it waits for is refused, one it hung up on is still *)
(* winding down.  session_store.go:56-59 with the defers of executor.go:169, 311.  *)
RefusedOnlyAfterHangUp ==
    [][\A r \in Reqs :
          req[r].pc = "start" /\ req[r].live /\ req'[r].pc = "done" =>
              \E q \in Reqs : Holds(q) /\ ~req[q].live]_vars

(* What the client is told of a request, whoever holds the events just now. *)
Reply(r) ==
    LET told == ToSet(Offered(r))
    IN  IF req[r].pc = "free" THEN "none"
        ELSE IF told \cap Terminal = {} THEN "open"
        ELSE IF "completed" \in told THEN "completed" ELSE "failed"

Replies == [r \in Reqs |-> Reply(r)]
Holders == {r \in Reqs : Holds(r)}
Asks ==
    [r \in Reqs |-> IF req[r].pc = "free" THEN 0
                    ELSE Cardinality({n \in DOMAIN posts : posts[n].id = req[r].id})]

Promise == INSTANCE Turns WITH
    MaxRepairs <- maxToolCallRepairAttempts,
    reply <- Replies, holders <- Holders, asked <- Asks,
    conv <- session.conversationID, made <- convs, sent <- posts

(* The executor keeps the promise Turns: however calls fail, clients leave *)
(* and sessions are lost, each of its steps is a step of one turn as the   *)
(* client and the upstream see it, or changes nothing for them             *)
(* (executor.go:85-150, 153-308, 310-457, tool_retry.go:21-56).            *)
ImplementsTurns == Promise!Spec

(* A completed response took the user's message into account: the last     *)
(* user message of its history has been forwarded.  The plan advances      *)
(* processed_input_len once the upstream request has gone out              *)
(* (docs/2026-03-12-19-25-m365-openai-responses-proxy-plan.md:624), the    *)
(* code before it is tried (executor.go:122-124).                          *)
TaskWasForwarded ==
    \A r \in Reqs :
        "completed" \in ToSet(Offered(r)) => LastUser(req[r].input) \subseteq Posted

(* A client that waits gets no finished message out of an upstream stream  *)
(* that broke off: the plan wants response.failed (docs/2026-03-12-19-25-  *)
(* m365-openai-responses-proxy-plan.md:212-213), the code drops the error  *)
(* of readSSEStream (executor.go:219, 359).                                *)
BrokenStreamFails ==
    \A r \in Reqs : req[r].cut /\ req[r].live => "message" \notin ToSet(Offered(r))

(* The session of a request is released in the end, whichever way the      *)
(* request ends and whether or not its client waits (executor.go:169, 297, *)
(* 302, 312).                                                              *)
SessionReleased == session.inFlight ~> ~session.inFlight

(* Every request is answered or its client has left or the proxy died.     *)
EveryRequestEnds == \A r \in Reqs : req[r].pc = "start" ~> req[r].pc \in {"done", "free"}
=============================================================================
