---------------------- MODULE ExecutorForwarding_proofs ----------------------
(***************************************************************************)
(* Theorems about what Executor forwards upstream, for any number of       *)
(* request slots, items and losses, and any client: no item reaches a      *)
(* conversation twice, none is skipped unless a rewrite goes unnoticed,    *)
(* and posts are made by the holder of the session, before the terminal    *)
(* event, once for the turn and then a bounded number of times to repair.  *)
(* Taken together, Executor implements Turns.                              *)
(***************************************************************************)
EXTENDS Executor_proofs, FiniteSetTheorems

\* The histories that may still be forwarded, or extended.
Known == {client.hist} \cup {req[r].input : r \in Reqs}

Before == {"upload", "token", "conversation", "chat"}
After == {"stream", "repair", "repairStream", "cleanup", "release"}

\* An item has one place, in every history that has it; a string is the input
\* of one request.
PlaceInv ==
    /\ \A s \in Known : \A k \in DOMAIN s : s[k].id < client.nextId
    /\ \A s, t \in Known : \A k \in DOMAIN s, m \in DOMAIN t : s[k] = t[m] => k = m
    /\ \A s \in Known : \A k \in DOMAIN s : s[k].kind = "text" => Len(s) = 1
    /\ \A k \in DOMAIN client.hist : client.hist[k].kind # "text"
    /\ \A r, q \in Reqs : IsText(req[r].input) /\ req[r].input = req[q].input => r = q

\* The session is in step with the one request that holds it.
InStep(r) ==
    /\ session.inFlight
    /\ \A q \in Reqs : Holds(q) => q = r
    /\ req[r].turn \subseteq ToSet(req[r].input)
    /\ IsText(req[r].input) \/ session.processed = req[r].input
    /\ req[r].pc \in {"chat", "stream", "repair", "repairStream"} => session.conversationID # NoConv

HolderInv ==
    /\ \A r \in Reqs : Holds(r) => InStep(r)
    /\ session.processedInputLen = Len(session.processed)

\* What the session's conversation has been sent lies below the processed
\* length, outside every turn not yet posted; no string waits that was sent.
Sent(p) ==
    /\ p.conv \in 1..convs
    /\ \A i \in p.items : i.id < client.nextId
    /\ p.conv = session.conversationID =>
          /\ \A s \in Known : \A k \in DOMAIN s :
                s[k] \in p.items /\ ~IsText(s) => k <= session.processedInputLen
          /\ \A r \in Reqs : req[r].pc \in Before => p.items \cap req[r].turn = {}
    /\ \A r \in Reqs : req[r].pc = "start" /\ IsText(req[r].input) =>
          Head(req[r].input) \notin p.items

SentInv ==
    /\ session.conversationID \in 0..convs
    /\ \A n \in DOMAIN posts : Sent(posts[n])

ForwardInv == PlaceInv /\ HolderInv /\ SentInv /\ ForwardedOnce

Held == UNION {req[r].turn : r \in {q \in Reqs : Holds(q)}}

\* Nothing of the history the session has processed is missing.
CoveredInv ==
    /\ \A r \in Reqs : req[r].pc \in After => req[r].turn \subseteq Posted \cup gone
    /\ ~session.unnoticed => Forwardable(session.processed) \subseteq Posted \cup gone \cup Held

\* The repair attempt a request is at, when it has posted.
Asked(x) == IF x.pc = "stream" THEN 1 ELSE IF x.pc = "repair" THEN x.attempt ELSE x.attempt + 1

-----------------------------------------------------------------------------
(* The steps of a request, by what they do to the posts and the session *)

Same(r) ==
    /\ client' = client /\ losses' = losses
    /\ req' \in [Reqs -> Request]
    /\ \A q \in Reqs \ {r} : req'[q] = req[q]
    /\ req'[r].id = req[r].id /\ req'[r].input = req[r].input

\* It posts: for the turn, or to repair it.
Posts(r) ==
    /\ Same(r) /\ req'[r].turn = req[r].turn /\ req'[r].uploaded = req[r].uploaded
    /\ \/ /\ req[r].pc = "chat" /\ Accept(r, FALSE)
          /\ req'[r].pc \in {"stream", "cleanup", "release"}
       \/ /\ req[r].pc = "repair" /\ Accept(r, TRUE)
          /\ req[r].attempt =< maxToolCallRepairAttempts
          /\ req'[r].pc \in {"repair", "repairStream"}
          /\ Asked(req'[r]) = req[r].attempt + 1
    /\ UNCHANGED <<session, convs, gone>>

\* It gets a new conversation, ...
Opens(r) ==
    /\ Same(r) /\ req'[r].turn = req[r].turn /\ req'[r].uploaded = req[r].uploaded
    /\ req[r].pc = "conversation" /\ req'[r].pc = "chat"
    /\ session.conversationID = NoConv
    /\ convs' = convs + 1
    /\ session' = [session EXCEPT !.conversationID = convs + 1]
    /\ UNCHANGED <<posts, gone>>

\* ... gives up what it has not posted, ...
GivesUp(r) ==
    /\ Same(r) /\ req'[r].turn = req[r].turn
    /\ req[r].pc \in Before
    /\ gone' = gone \cup (req[r].turn \ Posted)
    /\ \/ session' = session /\ req'[r].pc \in {"cleanup", "release"}
       \/ session' = [session EXCEPT !.inFlight = FALSE] /\ req'[r].pc = "done"
    /\ UNCHANGED <<posts, convs>>

\* ... leaves the session, ...
Leaves(r) ==
    /\ Same(r) /\ req'[r].turn = {}
    /\ req[r].pc = "release" /\ req'[r].pc = "close"
    /\ session' = [session EXCEPT !.inFlight = FALSE]
    /\ UNCHANGED <<posts, convs, gone>>

\* ... or does none of this.
Moves(r) ==
    LET x == req[r]
        y == req'[r]
    IN  /\ Same(r) /\ y.turn = x.turn
        /\ UNCHANGED <<session, posts, convs, gone>>
        /\ \/ y.pc = x.pc
           \/ x.pc \in {"upload", "token"} /\ y.pc = "conversation"
           \/ x.pc = "conversation" /\ y.pc = "chat" /\ session.conversationID # NoConv
           \/ x.pc \in Asking /\ y.pc = "repair"
           \/ x.pc \in After /\ y.pc \in {"cleanup", "release"}
           \/ x.pc \in {"start", "close"} /\ y.pc = "done"
        /\ y.pc \in Asking => Asked(x) =< Asked(y)
        /\ y.pc \in Middle \cup {"token"} =>
              y.uploaded \/ (x.pc \in Middle \cup {"token"} /\ y.uploaded = x.uploaded)

\* It takes the session, and the tail of its input.
Takes(r) ==
    LET input == req[r].input
        new == NewItems(input)
    IN  /\ Same(r)
        /\ req[r].pc = "start" /\ ~session.inFlight
        /\ req'[r].turn = TurnItems(new)
        /\ req'[r].pc = IF NeedsUpload(TurnItems(new)) THEN "upload" ELSE "token"
        /\ session'.inFlight
        /\ session'.conversationID = IF IsReset(input) THEN NoConv ELSE session.conversationID
        /\ IF IsText(input)
             THEN /\ session'.processed = session.processed
                  /\ session'.processedInputLen = session.processedInputLen
             ELSE session'.processed = input /\ session'.processedInputLen = Len(input)
        /\ session'.unnoticed = Unnoticed(input)
        /\ gone' = gone \cup Superseded(new)
        /\ UNCHANGED <<posts, convs>>

LEMMA Kinds ==
    ASSUME TypeOK, Requests, NEW r \in Reqs, Serve(r) \/ Receive(r)
    PROVE  Takes(r) \/ Posts(r) \/ Opens(r) \/ GivesUp(r) \/ Leaves(r) \/ Moves(r)
<1> DEFINE x == req[r]
<1>0. /\ req \in [Reqs -> Request] /\ x \in Request
      /\ session \in Session /\ (x.pc = "repairStream" => x.attempt =< maxToolCallRepairAttempts)
  BY Typed DEF Requests, Phase
<1>1. /\ client' = client /\ losses' = losses /\ req' \in [Reqs -> Request]
      /\ \A q \in Reqs \ {r} : req'[q] = req[q]
      /\ req'[r].id = x.id
  <2>1. PICK y : Becomes(r, y)
    BY <1>0, ServeStep DEF Session
  <2> QED
    BY <1>0, <2>1, ServeTypes DEF Becomes
<1>2. req'[r].input = x.input
  <2>1. CASE Prepare(r)
    <3> DEFINE items == TurnItems(NewItems(x.input))
               y == [x EXCEPT !.turn = items, !.pc = IF NeedsUpload(items) THEN "upload" ELSE "token"]
    <3>1. req' = [req EXCEPT ![r] = y]
      BY <1>0, <2>1 DEF Prepare
    <3>2. y.input = x.input
      BY <1>0 DEF Request
    <3> HIDE DEF y
    <3> QED
      BY <1>0, <3>1, <3>2
  <2>2. CASE Refuse(r) \/ Upload(r) \/ UploadFails(r) \/ Token(r) \/ Converse(r) \/ Chat(r)
    <3>1. CASE Refuse(r) \/ UploadFails(r)
      BY <1>0, <3>1 DEF Refuse, UploadFails, Request
    <3>2. CASE Upload(r) \/ Token(r)
      BY <1>0, <3>2 DEF Upload, Token, Request
    <3>3. CASE Converse(r) \/ Chat(r)
      BY <1>0, <3>3 DEF Converse, Chat, Request
    <3> QED
      BY <2>2, <3>1, <3>2, <3>3
  <2>3. CASE TokenFails(r) \/ ConverseFails(r) \/ ChatFails(r)
    BY <1>0, <2>3, ZenonT(60) DEF TokenFails, ConverseFails, ChatFails, Fail, Request
  <2>4. CASE Snapshot(r)
    BY <1>0, <2>4 DEF Snapshot, Request
  <2>5. CASE StreamEnds(r)
    BY <1>0, <2>5 DEF StreamEnds, Request
  <2>6. CASE ToolCalls(r) \/ RepairSucceeds(r) \/ RepairGivesUp(r)
    BY <1>0, <2>6 DEF ToolCalls, RepairSucceeds, RepairGivesUp, Request
  <2>7. CASE Repair(r) \/ RepairFails(r) \/ RepairStreamEnds(r)
    BY <1>0, <2>7, ZenonT(60) DEF Repair, RepairFails, RepairStreamEnds, Request
  <2>8. CASE Cleanup(r) \/ Release(r) \/ Close(r) \/ SendChunk(r) \/ Receive(r)
    BY <1>0, <2>8 DEF Cleanup, Release, Close, SendChunk, Receive, Request
  <2> QED
    BY <2>1, <2>2, <2>3, <2>4, <2>5, <2>6, <2>7, <2>8 DEF Serve
<1>3. Same(r)
  BY <1>1, <1>2 DEF Same
<1>4. CASE Chat(r) \/ Repair(r)
  <2>1. CASE Chat(r)
    BY <1>0, <1>3, <2>1 DEF Chat, At, Posts, Request
  <2>2. CASE Repair(r)
    BY <1>0, <1>3, <2>2 DEF Repair, At, Posts, Request, Asked
  <2> QED
    BY <1>4, <2>1, <2>2
<1>5. CASE ChatFails(r)
  <2>1. CASE Fail(r) /\ UNCHANGED posts
    BY <1>0, <1>3, <1>5, <2>1 DEF ChatFails, Fail, At, GivesUp, Before, Request, Deferred
  <2>2. CASE /\ Accept(r, FALSE) /\ UNCHANGED gone
             /\ req' = [req EXCEPT ![r].out = Failure(r), ![r].pc = Deferred(r)]
    BY <1>0, <1>3, <1>5, <2>2 DEF ChatFails, At, Posts, Request, Deferred
  <2> QED
    BY <1>5, <2>1, <2>2 DEF ChatFails
<1>6. CASE RepairFails(r)
  <2>1. /\ x.pc = "repair" /\ x.attempt =< maxToolCallRepairAttempts
        /\ req'[r].pc = "repair" /\ req'[r].attempt = x.attempt + 1 /\ req'[r].turn = x.turn
        /\ req'[r].uploaded = x.uploaded /\ UNCHANGED <<session, convs, gone>>
    BY <1>0, <1>6 DEF RepairFails, At, Request
  <2>2. CASE Accept(r, TRUE)
    BY <1>3, <2>1, <2>2 DEF Posts, Asked
  <2>3. CASE UNCHANGED posts
    <3>1. Asked(x) =< Asked(req'[r])
      BY <1>0, <2>1 DEF Asked, Request
    <3> QED
      BY <1>3, <2>1, <2>3, <3>1 DEF Moves, Middle
  <2> QED
    BY <1>6, <2>2, <2>3 DEF RepairFails
<1>7. CASE TokenFails(r) \/ ConverseFails(r)
  BY <1>0, <1>3, <1>7 DEF TokenFails, ConverseFails, Fail, At, GivesUp, Before, Request, Deferred
<1>8. CASE UploadFails(r)
  BY <1>0, <1>3, <1>8 DEF UploadFails, At, GivesUp, Before, Request
<1>9. CASE Converse(r)
  <2>1. CASE session.conversationID # NoConv /\ UNCHANGED <<session, convs>>
    BY <1>0, <1>3, <1>9, <2>1 DEF Converse, At, Moves, Request, Asking, After, Middle
  <2>2. CASE session.conversationID = NoConv /\ convs' = convs + 1
             /\ session' = [session EXCEPT !.conversationID = convs + 1]
    BY <1>0, <1>3, <1>9, <2>2 DEF Converse, At, Opens, Request
  <2> QED
    BY <1>9, <2>1, <2>2 DEF Converse
<1>10. CASE Release(r)
  BY <1>0, <1>3, <1>10 DEF Release, At, Leaves, Request
<1>11. CASE Upload(r) \/ Token(r)
  BY <1>0, <1>3, <1>11 DEF Upload, Token, At, Moves, Request, Asking, After
<1>12. CASE Snapshot(r) \/ SendChunk(r) \/ Receive(r)
  <2>1. /\ req'[r].pc = x.pc /\ req'[r].turn = x.turn /\ req'[r].uploaded = x.uploaded
        /\ req'[r].attempt = x.attempt /\ UNCHANGED <<session, posts, convs, gone>>
    <3>1. CASE Snapshot(r)
      BY <1>0, <3>1 DEF Snapshot, Request
    <3>2. CASE SendChunk(r) \/ Receive(r)
      BY <1>0, <3>2 DEF SendChunk, Receive, Request
    <3> QED
      BY <1>12, <3>1, <3>2
  <2>2. Asked(x) =< Asked(req'[r])
    BY <1>0, <2>1 DEF Asked, Request
  <2> QED
    BY <1>3, <2>1, <2>2 DEF Moves
<1>13. CASE ToolCalls(r) \/ RepairSucceeds(r) \/ RepairGivesUp(r)
  <2>1. /\ x.pc \in {"stream", "repair", "repairStream"}
        /\ UNCHANGED <<session, posts, convs, gone>>
    BY <1>13 DEF ToolCalls, RepairSucceeds, RepairGivesUp, At
  <2>2. PICK o : req' = [req EXCEPT ![r].out = o, ![r].pc = Deferred(r)]
    BY <1>13 DEF ToolCalls, RepairSucceeds, RepairGivesUp
  <2>3. req'[r].turn = x.turn /\ req'[r].pc \in {"cleanup", "release"}
    BY <1>0, <2>2 DEF Request, Deferred
  <2> QED
    BY <1>3, <2>1, <2>3 DEF Moves, Asking, After, Middle
<1>14. CASE StreamEnds(r)
  <2>1. x.pc = "stream" /\ req'[r].turn = x.turn /\ UNCHANGED <<session, posts, convs, gone>>
        /\ req'[r].uploaded = x.uploaded
        /\ \/ req'[r].pc = "repair" /\ req'[r].attempt = 1
           \/ req'[r].pc \in {"cleanup", "release"}
    BY <1>0, <1>14 DEF StreamEnds, At, Request, Deferred
  <2>2. req'[r].pc \in Asking => Asked(x) =< Asked(req'[r])
    BY <2>1 DEF Asked, Asking
  <2> QED
    BY <1>3, <2>1, <2>2 DEF Moves, After, Asking, Middle
<1>15. CASE RepairStreamEnds(r)
  <2>1. /\ x.pc = "repairStream" /\ req'[r].turn = x.turn /\ UNCHANGED <<session, posts, convs, gone>>
        /\ req'[r].uploaded = x.uploaded
        /\ req'[r].pc = "repair" /\ req'[r].attempt = x.attempt + 1
    BY <1>0, <1>15 DEF RepairStreamEnds, At, Request
  <2>2. Asked(x) =< Asked(req'[r])
    BY <1>0, <2>1 DEF Asked, Request
  <2> QED
    BY <1>3, <2>1, <2>2 DEF Moves, Asking, Middle
<1>16. CASE Refuse(r) \/ Cleanup(r) \/ Close(r)
  BY <1>0, <1>3, <1>16 DEF Refuse, Cleanup, Close, At, Moves, Request, After, Asking, Middle
<1>17. CASE Prepare(r)
  <2> DEFINE input == x.input
             items == TurnItems(NewItems(input))
             y == [x EXCEPT !.turn = items, !.pc = IF NeedsUpload(items) THEN "upload" ELSE "token"]
  <2>1. req' = [req EXCEPT ![r] = y] /\ x.pc = "start" /\ ~session.inFlight
    BY <1>0, <1>17 DEF Prepare, At
  <2>2. y.turn = items /\ y.pc = IF NeedsUpload(items) THEN "upload" ELSE "token"
    BY <1>0 DEF Request
  <2> HIDE DEF y
  <2>3. req'[r] = y
    BY <1>0, <2>1
  <2>4. /\ session' = [processedInputLen |-> IF IsText(input) THEN session.processedInputLen
                                              ELSE Len(input),
                       conversationID |-> IF IsReset(input) THEN NoConv
                                          ELSE session.conversationID,
                       inFlight |-> TRUE,
                       processed |-> IF IsText(input) THEN session.processed ELSE input,
                       unnoticed |-> Unnoticed(input)]
        /\ gone' = gone \cup Superseded(NewItems(input))
        /\ UNCHANGED <<posts, convs>>
    BY <1>17 DEF Prepare
  <2> QED
    BY <1>3, <2>1, <2>2, <2>3, <2>4 DEF Takes
<1> QED
  BY <1>17, <1>4, <1>5, <1>6, <1>7, <1>8, <1>9, <1>10, <1>11, <1>12, <1>13, <1>14, <1>15, <1>16 DEF Serve

-----------------------------------------------------------------------------
(* The steps of the client, and the loss of the session *)

\* h is a history that goes on where the client's ended, or begins anew.
Continues(h) ==
    /\ h \in Seq(Item)
    /\ \A k \in DOMAIN h :
          /\ h[k].id < client'.nextId
          /\ h[k].id >= client.nextId \/ (k \in DOMAIN client.hist /\ h[k] = client.hist[k])
          /\ h[k].kind = "text" => Len(h) = 1
    /\ \A k, m \in DOMAIN h : h[k] = h[m] => k = m

\* As far as posts and sessions go, q is where it was.
Rests(q) ==
    /\ req'[q].pc = req[q].pc /\ req'[q].id = req[q].id /\ req'[q].input = req[q].input
    /\ req'[q].turn = req[q].turn /\ req'[q].uploaded = req[q].uploaded
    /\ req'[q].attempt = req[q].attempt

Begins(q, h) ==
    /\ req[q].pc = "free" /\ req'[q].pc = "start"
    /\ req'[q].input \in {client.hist, h} /\ req'[q].turn = {}
    /\ req'[q].id = client.submitted + 1 /\ client'.submitted = client.submitted + 1

Frees(q) == req'[q] = NoRequest /\ ~Holds(q)

\* r is the slot of a request that begins, if one does.
ClientMoves(h, r) ==
    /\ UNCHANGED <<session, posts, convs, gone>>
    /\ client' \in Client /\ client'.hist \in {client.hist, h}
    /\ client'.nextId >= client.nextId /\ client'.submitted >= client.submitted
    /\ Continues(h)
    /\ \A k \in DOMAIN client'.hist : client'.hist[k].kind # "text"
    /\ req' \in [Reqs -> Request]
    /\ \A q \in Reqs : Rests(q) \/ Frees(q) \/ (q = r /\ Begins(q, h))

Loses ==
    /\ UNCHANGED <<posts, convs, gone>>
    /\ session' = NewSession
    /\ client'.hist = client.hist /\ client'.nextId = client.nextId
    /\ client'.submitted = client.submitted
    /\ req' \in [Reqs -> Request]
    /\ \/ ~session.inFlight /\ \A q \in Reqs : Rests(q)
       \/ \A q \in Reqs : req'[q] = NoRequest

\* New items after the history of the client, or one alone.
LEMMA Continued ==
    ASSUME TypeOK, PlaceInv, NEW new \in Seq(Item), client'.nextId = client.nextId + Len(new),
           \A k \in 1..Len(new) : new[k].id = client.nextId + k - 1 /\ new[k].kind # "text"
    PROVE  /\ Continues(client.hist \o new)
           /\ \A k \in DOMAIN (client.hist \o new) : (client.hist \o new)[k].kind # "text"
<1> DEFINE l == Len(client.hist)
           h == client.hist \o new
<1>0. client.hist \in Seq(Item) /\ client.nextId \in Nat
  BY Typed
<1>1. /\ h \in Seq(Item) /\ DOMAIN h = 1..(l + Len(new)) /\ Len(new) \in Nat
      /\ DOMAIN client.hist = 1..l /\ l \in Nat
      /\ \A k \in 1..l : h[k] = client.hist[k]
      /\ \A k \in 1..Len(new) : h[l + k] = new[k]
  BY <1>0
<1>2. \A k \in 1..l :
         /\ client.hist[k].id \in Nat /\ client.hist[k].id < client.nextId
         /\ client.hist[k].kind # "text"
         /\ \A m \in 1..l : client.hist[k] = client.hist[m] => k = m
  <2>1. client.hist \in Known
    BY DEF Known
  <2>2. \A k \in 1..l : client.hist[k] \in Item
    BY <1>0
  <2> QED
    BY <1>1, <2>1, <2>2 DEF PlaceInv, Item
<1> HIDE DEF h, l
<1>3. \A k \in DOMAIN h : k \in 1..l \/ (k - l \in 1..Len(new) /\ h[k] = new[k - l])
  <2> SUFFICES ASSUME NEW k \in DOMAIN h, k \notin 1..l
               PROVE  k - l \in 1..Len(new) /\ h[k] = new[k - l]
    OBVIOUS
  <2>1. k - l \in 1..Len(new) /\ k = l + (k - l)
    BY <1>1
  <2> QED
    BY <1>1, <2>1
<1>4. ASSUME NEW k \in DOMAIN h
      PROVE  /\ h[k].id \in Nat /\ h[k].id < client'.nextId /\ h[k].kind # "text"
             /\ k \notin 1..l => h[k].id = client.nextId + (k - l) - 1
             /\ k \in 1..l => h[k].id < client.nextId /\ h[k] = client.hist[k]
  <2>1. CASE k \in 1..l
    BY <1>0, <1>1, <1>2, <2>1
  <2>2. CASE k \notin 1..l
    <3>1. k - l \in 1..Len(new) /\ h[k] = new[k - l] /\ k - l \in Int
      BY <1>1, <1>3, <2>2
    <3>2. h[k].id = client.nextId + (k - l) - 1 /\ h[k].kind # "text"
      BY <3>1
    <3>3. Len(new) \in Nat
      OBVIOUS
    <3>4. h[k].id \in Nat /\ h[k].id < client'.nextId
      BY <1>0, <3>1, <3>2, <3>3
    <3> QED
      BY <2>2, <3>2, <3>4
  <2> QED
    BY <2>1, <2>2
<1>5. \A k \in DOMAIN h : h[k].id >= client.nextId \/ (k \in DOMAIN client.hist /\ h[k] = client.hist[k])
  <2> SUFFICES ASSUME NEW k \in DOMAIN h, k \notin 1..l PROVE h[k].id >= client.nextId
    BY <1>1, <1>4
  <2> QED
    BY <1>0, <1>1, <1>4
<1>6. \A k, m \in DOMAIN h : h[k] = h[m] => k = m
  <2> SUFFICES ASSUME NEW k \in DOMAIN h, NEW m \in DOMAIN h, h[k] = h[m] PROVE k = m
    OBVIOUS
  <2>0. k \in Nat /\ m \in Nat
    BY <1>1
  <2>1. CASE k \in 1..l /\ m \in 1..l
    BY <1>1, <1>2, <2>1
  <2>2. CASE k \notin 1..l /\ m \notin 1..l
    <3>1. client.nextId + (k - l) - 1 = client.nextId + (m - l) - 1
      BY <1>4, <2>2
    <3> QED
      BY <1>0, <1>1, <2>0, <3>1
  <2>3. CASE k \in 1..l /\ m \notin 1..l
    <3>1. h[k].id < client.nextId /\ h[m].id = client.nextId + (m - l) - 1 /\ m > l
      BY <1>1, <1>4, <2>0, <2>3
    <3> QED
      BY <1>0, <1>1, <2>0, <3>1
  <2>4. CASE k \notin 1..l /\ m \in 1..l
    <3>1. h[m].id < client.nextId /\ h[k].id = client.nextId + (k - l) - 1 /\ k > l
      BY <1>1, <1>4, <2>0, <2>4
    <3> QED
      BY <1>0, <1>1, <2>0, <3>1
  <2> QED
    BY <2>1, <2>2, <2>3, <2>4
<1>7. \A k \in DOMAIN h : h[k].id < client'.nextId /\ h[k].kind # "text"
  BY <1>4
<1>8. h \in Seq(Item)
  BY <1>1
<1>9. Continues(h)
  BY <1>5, <1>6, <1>7, <1>8 DEF Continues
<1> QED
  BY <1>7, <1>9 DEF h

LEMMA Alone ==
    ASSUME TypeOK, NEW i \in Item, i.id = client.nextId, client'.nextId = client.nextId + 1
    PROVE  Continues(<<i>>)
<1>0. client.nextId \in Nat
  BY Typed
<1>1. <<i>> \in Seq(Item) /\ DOMAIN <<i>> = {1} /\ <<i>>[1] = i /\ Len(<<i>>) = 1
  OBVIOUS
<1> QED
  BY <1>0, <1>1 DEF Continues

\* The actions of the client.
LEMMA Issues ==
    ASSUME TypeOK, NEW r \in Reqs, NEW input \in Seq(Item), NEW c \in Client,
           Issue(r, input, c)
    PROVE  /\ UNCHANGED <<session, posts, convs, gone>> /\ req' \in [Reqs -> Request]
           /\ client' \in Client /\ client'.submitted = c.submitted + 1
           /\ client'.hist = c.hist /\ client'.nextId = c.nextId
           /\ \A q \in Reqs \ {r} : Rests(q)
           /\ req[r].pc = "free" /\ req'[r].pc = "start" /\ req'[r].input = input
           /\ req'[r].turn = {} /\ req'[r].id = client.submitted + 1
<1>1. PICK m \in Modes, tl \in ToolSets :
         req' = [req EXCEPT ![r] = [NoRequest EXCEPT
            !.pc = "start", !.id = client.submitted + 1, !.input = input,
            !.mode = m, !.tools = tl, !.live = TRUE]]
  BY DEF Issue
<1> DEFINE y == [NoRequest EXCEPT
            !.pc = "start", !.id = client.submitted + 1, !.input = input,
            !.mode = m, !.tools = tl, !.live = TRUE]
<1>2. client.submitted + 1 \in Nat /\ req \in [Reqs -> Request]
  BY Typed
<1>3. y \in Request /\ y.pc = "start" /\ y.input = input /\ y.turn = {}
      /\ y.id = client.submitted + 1
  <2>1. m \in {"stream", "sync"} /\ tl \in BOOLEAN
    BY ClientAssumption
  <2>2. NoRequest \in Request
    BY Empty
  <2>3. \A k \in Nat : [NoRequest EXCEPT !.pc = "start", !.id = k, !.input = input,
                                          !.mode = m, !.tools = tl, !.live = TRUE] \in Request
    BY <2>1, <2>2 DEF Request, Points
  <2>4. y \in Request
    BY <1>2, <2>3
  <2> QED
    BY <2>4 DEF NoRequest
<1> HIDE DEF y
<1>4. req' = [req EXCEPT ![r] = y]
  BY <1>1 DEF y
<1>5. req' \in [Reqs -> Request] /\ req'[r] = y /\ \A q \in Reqs \ {r} : req'[q] = req[q]
  BY <1>2, <1>3, <1>4
<1>6. /\ client' \in Client /\ client'.submitted = c.submitted + 1
      /\ client'.hist = c.hist /\ client'.nextId = c.nextId
  <2>1. c.submitted + 1 \in Nat /\ client' = [c EXCEPT !.waiting = r, !.submitted = @ + 1]
    BY DEF Issue, Client
  <2>2. \A k \in Nat : [c EXCEPT !.waiting = r, !.submitted = k] \in Client
    BY DEF Client
  <2>3. client' \in Client
    BY <2>1, <2>2
  <2> QED
    BY <2>1, <2>3 DEF Client
<1> QED
  BY <1>3, <1>5, <1>6 DEF Issue, Rests

LEMMA WriteMoves ==
    ASSUME TypeOK, PlaceInv, WriteMessage
    PROVE  \E h, r : ClientMoves(h, r)
<1>1. client \in Client /\ client.nextId \in Nat /\ req \in [Reqs -> Request]
  BY Typed DEF Client
<1>2. PICK kind \in UserKinds, img \in ImageSets :
           client' = [client EXCEPT
              !.hist = Append(@, [id |-> client.nextId, kind |-> kind, images |-> img]),
              !.written = @ + 1, !.nextId = @ + 1]
  BY DEF WriteMessage
<1> DEFINE i == [id |-> client.nextId, kind |-> kind, images |-> img]
           new == <<i>>
           h == client.hist \o new
<1>3. /\ new \in Seq(Item) /\ Len(new) = 1 /\ new[1].id = client.nextId
      /\ new[1].kind # "text" /\ h \in Seq(Item)
      /\ h = Append(client.hist, i)
  <2>1. img \in BOOLEAN /\ kind \in {"user", "mute"}
    BY ClientAssumption
  <2>2. i \in Item /\ i.id = client.nextId /\ i.kind \in {"user", "mute"}
    BY <1>1, <2>1 DEF Item
  <2> HIDE DEF i
  <2>3. client.hist \in Seq(Item)
    BY <1>1 DEF Client
  <2> QED
    BY <2>2, <2>3
<1>4. client' = [client EXCEPT !.hist = h, !.written = @ + 1, !.nextId = @ + 1]
  BY <1>2, <1>3
<1> HIDE DEF new, h
<1>5. client' \in Client /\ client'.hist = h /\ client'.nextId = client.nextId + 1
      /\ client'.submitted = client.submitted
  <2>1. client.written + 1 \in Nat /\ client.nextId + 1 \in Nat
    BY <1>1 DEF Client
  <2>2. \A j, k \in Nat : [client EXCEPT !.hist = h, !.written = j, !.nextId = k] \in Client
    BY <1>1, <1>3 DEF Client
  <2>3. client' \in Client
    BY <1>4, <2>1, <2>2
  <2> QED
    BY <1>4, <2>3 DEF Client
<1>6. Continues(h) /\ \A k \in DOMAIN h : h[k].kind # "text"
  <2>1. \A k \in 1..Len(new) : new[k].id = client.nextId + k - 1 /\ new[k].kind # "text"
    BY <1>1, <1>3
  <2> QED
    BY <1>3, <1>5, <2>1, Continued DEF h
<1>7. /\ UNCHANGED <<session, posts, convs, gone>>
      /\ req' \in [Reqs -> Request] /\ \A q \in Reqs : Rests(q)
  BY <1>1 DEF WriteMessage, Rests
<1>8. client'.nextId >= client.nextId /\ client'.submitted >= client.submitted
  BY <1>1, <1>5 DEF Client
<1>9. ClientMoves(h, NoReq)
  BY <1>5, <1>6, <1>7, <1>8 DEF ClientMoves
<1> QED
  BY <1>9

LEMMA SubmitMoves ==
    ASSUME TypeOK, PlaceInv, NEW r \in Reqs, Submit(r) \/ SubmitText(r) \/ SubmitCompacted(r)
    PROVE  \E h : ClientMoves(h, r)
<1>1. /\ client \in Client /\ client.nextId \in Nat /\ client.hist \in Seq(Item)
      /\ client.submitted \in Nat
  BY Typed DEF Client
<1>2. ASSUME NEW input \in Seq(Item), NEW c \in Client, Issue(r, input, c), NEW h,
             Continues(h), input \in {client.hist, h}, c.hist \in {client.hist, h},
             c.nextId >= client.nextId, c.submitted = client.submitted,
             \A k \in DOMAIN c.hist : c.hist[k].kind # "text"
      PROVE  ClientMoves(h, r)
  <2>1. /\ UNCHANGED <<session, posts, convs, gone>> /\ req' \in [Reqs -> Request]
        /\ client' \in Client /\ client'.submitted = c.submitted + 1
        /\ client'.hist = c.hist /\ client'.nextId = c.nextId
        /\ \A q \in Reqs \ {r} : Rests(q)
        /\ req[r].pc = "free" /\ req'[r].pc = "start" /\ req'[r].input = input
        /\ req'[r].turn = {} /\ req'[r].id = client.submitted + 1
    BY <1>2, Issues
  <2>2. client'.submitted >= client.submitted /\ client'.nextId >= client.nextId
    BY <1>1, <1>2, <2>1
  <2>3. Begins(r, h)
    BY <1>2, <2>1 DEF Begins
  <2> QED
    BY <1>2, <2>1, <2>2, <2>3 DEF ClientMoves
<1>3. \A k \in DOMAIN client.hist : client.hist[k].kind # "text"
  BY DEF PlaceInv
<1>4. CASE Submit(r)
  <2>2. Continues(<<>>)
    BY DEF Continues
  <2>3. Issue(r, client.hist, client) /\ client.nextId >= client.nextId
    BY <1>1, <1>4 DEF Submit
  <2>4. ClientMoves(<<>>, r)
    BY <1>1, <1>2, <1>3, <2>2, <2>3
  <2> QED
    BY <2>4
<1>5. ASSUME NEW kind \in {"user", "text"}
      PROVE  LET i == [id |-> client.nextId, kind |-> kind, images |-> FALSE]
             IN  i \in Item /\ i.id = client.nextId /\ i.kind = kind /\ <<i>> \in Seq(Item)
  <2> DEFINE i == [id |-> client.nextId, kind |-> kind, images |-> FALSE]
  <2>1. i \in Item /\ i.id = client.nextId /\ i.kind = kind
    BY <1>1 DEF Item
  <2> HIDE DEF i
  <2>2. <<i>> \in Seq(Item)
    BY <2>1
  <2> QED
    BY <2>1, <2>2 DEF i
<1>6. CASE SubmitText(r)
  <2> DEFINE i == [id |-> client.nextId, kind |-> "text", images |-> FALSE]
             c == [client EXCEPT !.written = @ + 1, !.nextId = @ + 1]
  <2>1. i \in Item /\ i.id = client.nextId /\ <<i>> \in Seq(Item)
    BY <1>5
  <2>2. c \in Client /\ c.hist = client.hist /\ c.nextId = client.nextId + 1
        /\ c.submitted = client.submitted
    <3>1. client.written + 1 \in Nat /\ client.nextId + 1 \in Nat
      BY <1>1 DEF Client
    <3>2. \A j, k \in Nat : [client EXCEPT !.written = j, !.nextId = k] \in Client
      BY <1>1 DEF Client
    <3>3. c \in Client
      BY <3>1, <3>2
    <3> QED
      BY <1>1, <3>3 DEF Client
  <2>3. Issue(r, <<i>>, c)
    BY <1>6 DEF SubmitText
  <2> HIDE DEF i, c
  <2>4. client'.nextId = client.nextId + 1
    BY <2>1, <2>2, <2>3, Issues, ZenonT(60)
  <2>5. Continues(<<i>>)
    BY <2>1, <2>4, Alone
  <2>6. c.nextId >= client.nextId
    BY <1>1, <2>2
  <2>7. ClientMoves(<<i>>, r)
    BY <1>2, <1>3, <2>1, <2>2, <2>3, <2>5, <2>6
  <2> QED
    BY <2>7
<1>7. CASE SubmitCompacted(r)
  <2> DEFINE i == [id |-> client.nextId, kind |-> "user", images |-> FALSE]
             c == [client EXCEPT !.hist = <<i>>, !.written = @ + 1, !.nextId = @ + 1]
  <2>1. i \in Item /\ i.id = client.nextId /\ <<i>> \in Seq(Item) /\ i.kind = "user"
    BY <1>5
  <2>2. c \in Client /\ c.hist = <<i>> /\ c.nextId = client.nextId + 1
        /\ c.submitted = client.submitted
    <3>1. client.written + 1 \in Nat /\ client.nextId + 1 \in Nat
      BY <1>1 DEF Client
    <3> HIDE DEF i
    <3>2. \A j, k \in Nat : [client EXCEPT !.hist = <<i>>, !.written = j, !.nextId = k] \in Client
      BY <1>1, <2>1 DEF Client
    <3>3. c \in Client
      BY <3>1, <3>2
    <3> QED
      BY <1>1, <3>3 DEF Client
  <2>3. Issue(r, <<i>>, c)
    BY <1>7 DEF SubmitCompacted
  <2> HIDE DEF i, c
  <2>4. client'.nextId = client.nextId + 1
    BY <2>1, <2>2, <2>3, Issues
  <2>5. Continues(<<i>>)
    BY <2>1, <2>4, Alone
  <2>6. c.nextId >= client.nextId
    BY <1>1, <2>2
  <2>7. \A k \in DOMAIN c.hist : c.hist[k].kind # "text"
    BY <2>1, <2>2
  <2>8. ClientMoves(<<i>>, r)
    BY <1>2, <2>1, <2>2, <2>3, <2>5, <2>6, <2>7
  <2> QED
    BY <2>8
<1> QED
  BY <1>4, <1>6, <1>7

LEMMA GoOnMoves ==
    ASSUME TypeOK, PlaceInv, NEW r \in Reqs, GoOn(r)
    PROVE  \E h : ClientMoves(h, r)
<1>1. client \in Client /\ client.nextId \in Nat /\ client.hist \in Seq(Item)
      /\ req \in [Reqs -> Request]
  BY Typed DEF Client
<1>2. PICK new \in Seq(Item) :
         /\ \A k \in 1..Len(new) : new[k].id = client.nextId + k - 1 /\ new[k].kind # "text"
         /\ client' = [client EXCEPT !.hist = @ \o new, !.nextId = @ + Len(new),
                                     !.waiting = NoReq]
  BY Appended
<1> DEFINE h == client.hist \o new
<1>3. /\ client' = [client EXCEPT !.hist = h, !.nextId = @ + Len(new), !.waiting = NoReq]
      /\ req' = (IF AtEof(r) THEN [req EXCEPT ![r] = NoRequest] ELSE req)
      /\ UNCHANGED <<session, posts, convs, gone>>
  BY <1>2 DEF GoOn
<1>4. h \in Seq(Item) /\ client.nextId + Len(new) \in Nat
  BY <1>1, <1>2
<1> HIDE DEF h
<1>5. client' \in Client /\ client'.hist = h /\ client'.nextId = client.nextId + Len(new)
      /\ client'.submitted = client.submitted
  <2>1. \A g \in Seq(Item), k \in Nat :
           [client EXCEPT !.hist = g, !.nextId = k, !.waiting = NoReq] \in Client
    BY <1>1 DEF Client
  <2>2. client' \in Client
    BY <1>3, <1>4, <2>1
  <2> QED
    BY <1>3, <2>2 DEF Client
<1>6. Continues(h) /\ \A k \in DOMAIN h : h[k].kind # "text"
  BY <1>2, <1>5, Continued DEF h
<1>7. client'.nextId >= client.nextId /\ client'.submitted >= client.submitted
  BY <1>1, <1>2, <1>5 DEF Client
<1>8. req' \in [Reqs -> Request] /\ \A q \in Reqs : Rests(q) \/ Frees(q)
  <2>1. CASE AtEof(r)
    BY <1>1, <1>3, <2>1, Empty DEF AtEof, Frees, Holds, Rests
  <2>2. CASE ~AtEof(r)
    BY <1>1, <1>3, <2>2 DEF Rests
  <2> QED
    BY <2>1, <2>2
<1>9. ClientMoves(h, r)
  BY <1>3, <1>5, <1>6, <1>7, <1>8 DEF ClientMoves
<1> QED
  BY <1>9

LEMMA HangUpMoves ==
    ASSUME TypeOK, PlaceInv, NEW r \in Reqs, HangUp(r) \/ Reclaim(r)
    PROVE  \E h : ClientMoves(h, r)
<1>1. client \in Client /\ req \in [Reqs -> Request]
  BY Typed DEF Client
<1>2. /\ client' \in Client /\ client'.hist = client.hist
      /\ client'.nextId = client.nextId /\ client'.submitted = client.submitted
      /\ UNCHANGED <<session, posts, convs, gone>>
  BY <1>1 DEF HangUp, Reclaim, Client
<1>3. req' \in [Reqs -> Request] /\ \A q \in Reqs : Rests(q) \/ Frees(q)
  <2>1. CASE HangUp(r)
    <3> DEFINE y == [req[r] EXCEPT !.live = FALSE]
    <3>1. req' = [req EXCEPT ![r] = y]
      BY <1>1, <2>1 DEF HangUp
    <3>2. /\ y \in Request /\ y.pc = req[r].pc /\ y.id = req[r].id /\ y.input = req[r].input
          /\ y.turn = req[r].turn /\ y.uploaded = req[r].uploaded /\ y.attempt = req[r].attempt
      BY <1>1, ZenonT(60) DEF Request
    <3> HIDE DEF y
    <3> QED
      BY <1>1, <3>1, <3>2 DEF Rests
  <2>2. CASE Reclaim(r)
    BY <1>1, <2>2, Empty DEF Reclaim, AtEof, Frees, Holds, Rests
  <2> QED
    BY <2>1, <2>2
<1>4. Continues(<<>>)
  BY DEF Continues
<1>5. \A k \in DOMAIN client.hist : client.hist[k].kind # "text"
  BY DEF PlaceInv
<1>6. client'.nextId >= client.nextId /\ client'.submitted >= client.submitted
  BY <1>1, <1>2 DEF Client
<1>7. ClientMoves(<<>>, r)
  BY <1>2, <1>3, <1>4, <1>5, <1>6 DEF ClientMoves
<1> QED
  BY <1>7

LEMMA Losing == ASSUME TypeOK, Expire \/ Restart PROVE Loses
<1>1. client \in Client /\ req \in [Reqs -> Request]
  BY Typed DEF Client
<1>2. CASE Expire
  BY <1>1, <1>2 DEF Expire, Loses, Rests
<1>3. CASE Restart
  BY <1>1, <1>3, Empty DEF Restart, Loses, Client
<1> QED
  BY <1>2, <1>3

Serves(r) == Takes(r) \/ Posts(r) \/ Opens(r) \/ GivesUp(r) \/ Leaves(r) \/ Moves(r)

\* Every step of the system is one of these.
LEMMA Steps ==
    ASSUME ExecutorInv, PlaceInv, [Next]_vars
    PROVE  \/ \E r \in Reqs : Serves(r)
           \/ \E h, r : ClientMoves(h, r)
           \/ Loses
           \/ UNCHANGED vars
<1>0. TypeOK /\ Requests
  BY Typed DEF ExecutorInv, Requests
<1>1. ASSUME NEW r \in Reqs, Serve(r) \/ Receive(r) PROVE Serves(r)
  BY <1>0, <1>1, Kinds DEF Serves
<1>2. ASSUME NEW r \in Reqs, \/ Submit(r) \/ SubmitText(r) \/ SubmitCompacted(r) \/ GoOn(r)
                             \/ HangUp(r) \/ Reclaim(r)
      PROVE  \E h : ClientMoves(h, r)
  BY <1>0, <1>2, SubmitMoves, GoOnMoves, HangUpMoves
<1>3. WriteMessage => \E h, r : ClientMoves(h, r)
  BY <1>0, WriteMoves
<1>4. Expire \/ Restart => Loses
  BY <1>0, Losing
<1> QED
  BY <1>1, <1>2, <1>3, <1>4 DEF Next

-----------------------------------------------------------------------------
(* An item keeps its place *)

LEMMA ServePlace == ASSUME PlaceInv, NEW r \in Reqs, Same(r) PROVE PlaceInv'
<1>1. client' = client /\ \A q \in Reqs : req'[q].input = req[q].input
  BY DEF Same
<1>2. Known' = Known
  BY <1>1 DEF Known
<1> QED
  BY <1>1, <1>2 DEF PlaceInv, IsText

\* What PlaceInv says of two histories.
Placed(s, t) == \A k \in DOMAIN s, m \in DOMAIN t : s[k] = t[m] => k = m

LEMMA ClientPlace ==
    ASSUME TypeOK, PlaceInv, NEW h, NEW r, ClientMoves(h, r)
    PROVE  PlaceInv'
<1>0. /\ client.nextId \in Nat /\ client'.nextId \in Nat /\ client'.nextId >= client.nextId
      /\ client.hist \in Known /\ Continues(h) /\ h \in Seq(Item)
  BY Typed DEF ClientMoves, Client, Known, Continues
<1>1. Known' \subseteq Known \cup {<<>>, h}
  <2>1. client'.hist \in Known \cup {h}
    BY DEF ClientMoves, Known
  <2>2. \A q \in Reqs : req'[q].input \in Known \cup {<<>>, h}
    <3> SUFFICES ASSUME NEW q \in Reqs PROVE req'[q].input \in Known \cup {<<>>, h}
      OBVIOUS
    <3>1. CASE Rests(q)
      BY <3>1 DEF Rests, Known
    <3>2. CASE Frees(q)
      BY <3>2 DEF Frees, NoRequest
    <3>3. CASE Begins(q, h)
      BY <3>3 DEF Begins, Known
    <3> QED
      BY <3>1, <3>2, <3>3 DEF ClientMoves
  <2> QED
    BY <2>1, <2>2 DEF Known
<1>2. \A s \in Known : s \in Seq(Item) /\ \A k \in DOMAIN s : s[k] \in Item /\ s[k].id \in Nat
  <2>1. client.hist \in Seq(Item) /\ \A q \in Reqs : req[q].input \in Seq(Item)
    BY Typed DEF Request
  <2>2. \A s \in Known : s \in Seq(Item)
    BY <2>1 DEF Known
  <2>3. \A s \in Seq(Item) : \A k \in DOMAIN s : s[k] \in Item
    OBVIOUS
  <2> QED
    BY <2>2, <2>3 DEF Item
<1>3. \A s \in Known' : \A k \in DOMAIN s : s[k].id < client'.nextId
  <2>1. \A s \in Known : \A k \in DOMAIN s : s[k].id < client'.nextId
    BY <1>0, <1>2 DEF PlaceInv
  <2>2. \A k \in DOMAIN h : h[k].id < client'.nextId
    BY <1>0 DEF Continues
  <2>3. DOMAIN <<>> = {}
    OBVIOUS
  <2> QED
    BY <1>1, <2>1, <2>2, <2>3
<1>4. \A s, t \in Known' : Placed(s, t)
  <2>1. \A s, t \in Known : Placed(s, t)
    BY DEF PlaceInv, Placed
  <2>2. Placed(h, h)
    BY <1>0 DEF Continues, Placed
  <2>3. \A s \in Known : Placed(s, h) /\ Placed(h, s)
    <3> SUFFICES ASSUME NEW s \in Known, NEW k \in DOMAIN s, NEW m \in DOMAIN h, s[k] = h[m]
                 PROVE  k = m
      BY DEF Placed
    <3>1. s[k].id < client.nextId /\ s[k].id \in Nat
      BY <1>2 DEF PlaceInv
    <3>2. m \in DOMAIN client.hist /\ h[m] = client.hist[m]
      BY <1>0, <3>1 DEF Continues
    <3> QED
      BY <1>0, <2>1, <3>2 DEF Placed
  <2>4. \A s : Placed(s, <<>>) /\ Placed(<<>>, s)
    <3>1. DOMAIN <<>> = {}
      OBVIOUS
    <3> QED
      BY <3>1 DEF Placed
  <2> QED
    BY <1>1, <2>1, <2>2, <2>3, <2>4
<1>5. \A s \in Known' : \A k \in DOMAIN s : s[k].kind = "text" => Len(s) = 1
  <2>1. DOMAIN <<>> = {}
    OBVIOUS
  <2>2. \A k \in DOMAIN h : h[k].kind = "text" => Len(h) = 1
    BY <1>0 DEF Continues
  <2>3. \A s \in Known : \A k \in DOMAIN s : s[k].kind = "text" => Len(s) = 1
    BY DEF PlaceInv
  <2> QED
    BY <1>1, <2>1, <2>2, <2>3
<1>6. \A k \in DOMAIN client'.hist : client'.hist[k].kind # "text"
  BY DEF ClientMoves
<1>7. ASSUME NEW q \in Reqs, NEW p \in Reqs, IsText(req'[q].input), req'[q].input = req'[p].input
      PROVE  q = p
  <2>0. \A s \in Seq(Item) : IsText(s) => 1 \in DOMAIN s /\ s[1].kind = "text" /\ s # <<>>
    BY DEF IsText
  <2>1. ~Frees(q) /\ ~Frees(p)
    BY <1>7 DEF Frees, NoRequest, IsText
  <2>2. CASE Rests(q) /\ Rests(p)
    <3>1. IsText(req[q].input) /\ req[q].input = req[p].input
      BY <1>7, <2>2 DEF Rests
    <3> QED
      BY <3>1 DEF PlaceInv
  <2>3. ASSUME NEW a \in Reqs, NEW b \in Reqs, Begins(a, h), Rests(b),
               IsText(req'[a].input), req'[a].input = req'[b].input
        PROVE  FALSE
    <3>1. req'[a].input = h
      <4>1. ~IsText(client.hist)
        BY <1>0, <1>2, <2>0 DEF PlaceInv
      <4> QED
        BY <2>3, <4>1 DEF Begins
    <3>2. 1 \in DOMAIN h /\ h[1].kind = "text" /\ h \in Known
      BY <1>0, <2>0, <2>3, <3>1 DEF Rests, Known
    <3>3. h[1].id < client.nextId /\ h[1].id \in Nat
      BY <1>2, <3>2 DEF PlaceInv
    <3>4. 1 \in DOMAIN client.hist /\ client.hist[1].kind = "text"
      BY <1>0, <3>2, <3>3 DEF Continues
    <3> QED
      BY <3>4 DEF PlaceInv
  <2>4. \A a \in {q, p} : Rests(a) \/ (a = r /\ Begins(a, h))
    BY <2>1 DEF ClientMoves
  <2> QED
    BY <1>7, <2>2, <2>3, <2>4
<1> QED
  BY <1>3, <1>4, <1>5, <1>6, <1>7 DEF PlaceInv, Placed, IsText

LEMMA LosesPlace == ASSUME PlaceInv, Loses PROVE PlaceInv'
<1>1. client'.hist = client.hist /\ client'.nextId = client.nextId
  BY DEF Loses
<1>2. \/ \A q \in Reqs : req'[q].input = req[q].input
      \/ \A q \in Reqs : req'[q].input = <<>>
  BY DEF Loses, Rests, NoRequest
<1>3. Known' \subseteq Known \cup {<<>>} /\ DOMAIN <<>> = {} /\ ~IsText(<<>>)
  BY <1>1, <1>2 DEF Known, IsText
<1>4. \A q, p \in Reqs : IsText(req'[q].input) /\ req'[q].input = req'[p].input => q = p
  BY <1>2, <1>3 DEF PlaceInv
<1> QED
  BY <1>1, <1>3, <1>4 DEF PlaceInv, IsText

-----------------------------------------------------------------------------
(* Who holds the session *)

\* The items of a turn are items of its input, beyond what has been processed.
LEMMA TurnOfInput ==
    ASSUME NEW input \in Seq(Item), session.processedInputLen \in Nat
    PROVE  \A i \in TurnItems(NewItems(input)) :
              \E m \in DOMAIN input :
                 /\ input[m] = i
                 /\ IsText(input) \/ IsReset(input) \/ m > session.processedInputLen
<1> DEFINE new == NewItems(input)
           from == IF IsText(input) \/ IsReset(input) THEN 0 ELSE session.processedInputLen
<1>1. from \in Nat /\ new = SubSeq(input, from + 1, Len(input))
      /\ (IsText(input) \/ IsReset(input) \/ from = session.processedInputLen)
  BY DEF NewItems
<1> HIDE DEF new, from
<1>2. \A k \in DOMAIN new :
         /\ from + k \in DOMAIN input /\ new[k] = input[from + k] /\ from + k > from
         /\ from + k \in Nat
  BY <1>1
<1>3. \A i \in TurnItems(new) : \E k \in DOMAIN new : i = new[k]
  BY DEF TurnItems, LastUser, Outputs, ToSet
<1>4. ASSUME NEW i \in TurnItems(new)
      PROVE  \E m \in DOMAIN input :
                input[m] = i /\ (IsText(input) \/ IsReset(input) \/ m > session.processedInputLen)
  <2>1. PICK k \in DOMAIN new : i = new[k]
    BY <1>3
  <2> QED
    BY <1>1, <1>2, <2>1
<1> QED
  BY <1>4 DEF new

LEMMA ServeHolder ==
    ASSUME ExecutorInv, HolderInv, NEW r \in Reqs, Serves(r)
    PROVE  HolderInv'
<1>0. /\ session \in Session /\ req \in [Reqs -> Request] /\ req[r] \in Request
      /\ session.processedInputLen = Len(session.processed)
  BY Typed DEF ExecutorInv, HolderInv
<1>1. Same(r)
  BY DEF Serves, Takes, Posts, Opens, GivesUp, Leaves, Moves
<1>2. ASSUME Holds(r)', session'.inFlight, \A q \in Reqs \ {r} : ~Holds(q),
             req'[r].turn \subseteq ToSet(req'[r].input),
             IsText(req'[r].input) \/ session'.processed = req'[r].input,
             req'[r].pc \in {"chat", "stream", "repair", "repairStream"} =>
                session'.conversationID # NoConv,
             session'.processedInputLen = Len(session'.processed)
      PROVE  HolderInv'
  <2>1. \A q \in Reqs : Holds(q)' => q = r
    BY <1>1, <1>2 DEF Same, Holds
  <2> QED
    BY <1>2, <2>1 DEF HolderInv, InStep, IsText
<1>3. ASSUME \A q \in Reqs : ~Holds(q)', session'.processedInputLen = Len(session'.processed)
      PROVE  HolderInv'
  BY <1>3 DEF HolderInv
<1>4. Holds(r) => InStep(r) /\ \A q \in Reqs \ {r} : ~Holds(q)
  BY DEF HolderInv, InStep
<1>5. CASE Takes(r)
  <2>1. \A q \in Reqs : ~Holds(q)
    BY <1>5 DEF Takes, HolderInv, InStep
  <2>2. req'[r].turn \subseteq ToSet(req'[r].input)
    <3>1. req[r].input \in Seq(Item) /\ session.processedInputLen \in Nat
      BY <1>0 DEF Session, Request
    <3>2. \A i \in TurnItems(NewItems(req[r].input)) : \E m \in DOMAIN req[r].input : req[r].input[m] = i
      BY <3>1, TurnOfInput
    <3> QED
      BY <1>1, <1>5, <3>2 DEF Takes, Same, ToSet
  <2>3. req'[r].pc \in {"upload", "token"} /\ session'.inFlight
    BY <1>5 DEF Takes
  <2>4. /\ IsText(req'[r].input) \/ session'.processed = req'[r].input
        /\ session'.processedInputLen = Len(session'.processed)
    BY <1>0, <1>1, <1>5 DEF Takes, Same
  <2>5. Holds(r)'
    BY <2>3 DEF Holds
  <2> QED
    BY <1>2, <2>1, <2>2, <2>3, <2>4, <2>5
<1>6. CASE Posts(r)
  <2>1. Holds(r) /\ Holds(r)'
    BY <1>6 DEF Posts, Holds
  <2>2. session' = session /\ req'[r].turn = req[r].turn /\ req'[r].input = req[r].input
        /\ session.conversationID # NoConv
    BY <1>1, <1>4, <1>6, <2>1 DEF Posts, Same, InStep
  <2> QED
    BY <1>0, <1>2, <1>4, <2>1, <2>2 DEF InStep
<1>7. CASE Opens(r)
  <2>1. Holds(r) /\ Holds(r)'
    BY <1>7 DEF Opens, Holds
  <2>2. /\ session'.inFlight = session.inFlight /\ session'.processed = session.processed
        /\ session'.processedInputLen = session.processedInputLen
        /\ session'.conversationID # NoConv
        /\ req'[r].turn = req[r].turn /\ req'[r].input = req[r].input
    <3>1. convs \in Nat
      BY Typed DEF ExecutorInv
    <3> QED
      BY <1>0, <1>1, <1>7, <3>1 DEF Opens, Same, Session, NoConv
  <2> QED
    BY <1>0, <1>2, <1>4, <2>1, <2>2 DEF InStep
<1>8. CASE GivesUp(r)
  <2>1. Holds(r)
    BY <1>8 DEF GivesUp, Holds, Before
  <2>2. CASE session' = session /\ req'[r].pc \in {"cleanup", "release"}
    <3>1. Holds(r)'
      BY <2>2 DEF Holds
    <3> QED
      BY <1>0, <1>1, <1>2, <1>4, <1>8, <2>1, <2>2, <3>1 DEF InStep, GivesUp, Same
  <2>3. CASE session' = [session EXCEPT !.inFlight = FALSE] /\ req'[r].pc = "done"
    <3>1. \A q \in Reqs : ~Holds(q)'
      BY <1>1, <1>4, <2>1, <2>3 DEF Holds, Same
    <3> QED
      BY <1>0, <1>3, <2>3, <3>1 DEF Session
  <2> QED
    BY <1>8, <2>2, <2>3 DEF GivesUp
<1>9. CASE Leaves(r)
  <2>1. Holds(r) /\ ~Holds(r)' /\ session' = [session EXCEPT !.inFlight = FALSE]
    BY <1>9 DEF Leaves, Holds
  <2>2. \A q \in Reqs : ~Holds(q)'
    BY <1>1, <1>4, <2>1 DEF Holds, Same
  <2> QED
    BY <1>0, <1>3, <2>1, <2>2 DEF Session
<1>10. CASE Moves(r)
  <2>1. session' = session /\ req'[r].turn = req[r].turn /\ req'[r].input = req[r].input
    BY <1>10, <1>1 DEF Moves, Same
  <2>2. Holds(r)' <=> Holds(r)
    BY <1>10 DEF Moves, Holds, Asking, After
  <2>3. CASE Holds(r)
    <3>1. req'[r].pc \in {"chat", "stream", "repair", "repairStream"} =>
             session.conversationID # NoConv
      BY <1>4, <1>10, <2>3 DEF Moves, InStep, Asking, After
    <3> QED
      BY <1>0, <1>2, <1>4, <2>1, <2>2, <2>3, <3>1 DEF InStep
  <2>4. CASE ~Holds(r)
    <3>1. \A q \in Reqs : Holds(q)' => Holds(q) /\ q # r /\ req'[q] = req[q]
      BY <1>1, <2>2, <2>4 DEF Same, Holds
    <3> QED
      BY <2>1, <3>1 DEF HolderInv, InStep, IsText
  <2> QED
    BY <2>3, <2>4
<1> QED
  BY <1>5, <1>6, <1>7, <1>8, <1>9, <1>10 DEF Serves

LEMMA ClientHolder ==
    ASSUME HolderInv, NEW h, NEW r, ClientMoves(h, r)
    PROVE  HolderInv'
<1>1. session' = session
  BY DEF ClientMoves
<1>2. \A q \in Reqs : Holds(q)' => Rests(q) /\ Holds(q)
  BY DEF ClientMoves, Frees, Begins, Rests, Holds, NoRequest
<1> QED
  BY <1>1, <1>2 DEF HolderInv, InStep, Rests, IsText, Holds

LEMMA LosesHolder == ASSUME HolderInv, Loses PROVE HolderInv'
<1>1. \A q \in Reqs : ~Holds(q)'
  BY DEF Loses, HolderInv, InStep, Rests, Holds, NoRequest
<1>2. session'.processedInputLen = Len(session'.processed)
  BY DEF Loses, NewSession
<1> QED
  BY <1>1, <1>2 DEF HolderInv

-----------------------------------------------------------------------------
(* What has been sent *)

\* What one more post changes.
LEMMA OnePost ==
    ASSUME TypeOK, NEW r \in Reqs, NEW repair \in BOOLEAN, Accept(r, repair)
    PROVE  \E p \in Post :
              /\ p.id = req[r].id /\ p.conv = session.conversationID /\ p.repair = repair
              /\ p.items = IF repair THEN Outputs(req[r].turn) ELSE req[r].turn
              /\ Len(posts) \in Nat /\ DOMAIN posts = 1..Len(posts)
              /\ Len(posts') = Len(posts) + 1 /\ DOMAIN posts' = 1..(Len(posts) + 1)
              /\ posts'[Len(posts) + 1] = p
              /\ \A n \in DOMAIN posts : posts'[n] = posts[n]
              /\ Posted' = Posted \cup p.items
<1> DEFINE items == IF repair THEN Outputs(req[r].turn) ELSE req[r].turn
           p == [id |-> req[r].id, conv |-> session.conversationID, repair |-> repair,
                 items |-> items]
<1>0. posts \in Seq(Post) /\ req[r] \in Request /\ session \in Session
  BY Typed DEF Post
<1>1. posts' = Append(posts, p)
  BY DEF Accept
<1>2. items \in SUBSET Item
  BY <1>0 DEF Request, Outputs
<1> HIDE DEF items
<1>3. p \in Post /\ p.id = req[r].id /\ p.conv = session.conversationID /\ p.repair = repair
      /\ p.items = items
  BY <1>0, <1>2 DEF Post, Request, Session
<1> HIDE DEF p
<1>4. /\ Len(posts) \in Nat /\ DOMAIN posts = 1..Len(posts)
      /\ Len(posts') = Len(posts) + 1 /\ DOMAIN posts' = 1..(Len(posts) + 1)
      /\ posts'[Len(posts) + 1] = p /\ \A n \in DOMAIN posts : posts'[n] = posts[n]
  BY <1>0, <1>1, <1>3
<1>5. Posted' = Posted \cup p.items
  <2>1. DOMAIN posts' = DOMAIN posts \cup {Len(posts) + 1}
    BY <1>4
  <2> QED
    BY <1>4, <2>1 DEF Posted
<1> QED
  BY <1>3, <1>4, <1>5 DEF items

\* An old post, in a step of a request.
LEMMA ServeSent ==
    ASSUME ExecutorInv, PlaceInv, HolderInv, session.conversationID \in 0..convs,
           NEW r \in Reqs, Serves(r), NEW p \in Post, Sent(p)
    PROVE  Sent(p)'
<1>0. /\ session \in Session /\ req \in [Reqs -> Request] /\ req[r] \in Request
      /\ convs \in Nat /\ session.processedInputLen = Len(session.processed)
      /\ session.processedInputLen \in Nat
  BY Typed DEF ExecutorInv, HolderInv, Session
<1>1. Same(r)
  BY DEF Serves, Takes, Posts, Opens, GivesUp, Leaves, Moves
<1>2. client' = client /\ Known' = Known
      /\ \A q \in Reqs : req'[q].input = req[q].input
  BY <1>1 DEF Same, Known
<1>3. p.conv \in 1..convs'
  <2>1. convs' = convs \/ convs' = convs + 1
    BY DEF Serves, Takes, Posts, Opens, GivesUp, Leaves, Moves
  <2>2. p.conv \in 1..convs
    BY DEF Sent
  <2> QED
    BY <1>0, <2>1, <2>2
<1>4. \A q \in Reqs : req'[q].pc = "start" => req[q].pc = "start"
  BY <1>1 DEF Same, Serves, Takes, Posts, Opens, GivesUp, Leaves, Moves
<1>5. ASSUME p.conv = session'.conversationID
      PROVE  /\ \A s \in Known : \A k \in DOMAIN s :
                   s[k] \in p.items /\ ~IsText(s) => k <= session'.processedInputLen
             /\ \A q \in Reqs : req'[q].pc \in Before => p.items \cap req'[q].turn = {}
  <2>1. CASE Takes(r)
    <3> DEFINE input == req[r].input
    <3>0. input \in Seq(Item) /\ input \in Known /\ Len(input) \in Nat /\ DOMAIN input = 1..Len(input)
      BY <1>0 DEF Request, Known
    <3>1. ~IsReset(input) /\ p.conv = session.conversationID
      BY <1>0, <1>5, <2>1 DEF Takes, Sent, NoConv
    <3>2. session'.processedInputLen \in Nat
          /\ session'.processedInputLen >= session.processedInputLen
      <4>1. CASE IsText(input)
        BY <1>0, <2>1, <4>1 DEF Takes
      <4>2. CASE ~IsText(input)
        BY <1>0, <2>1, <3>0, <3>1, <4>2 DEF Takes, IsReset
      <4> QED
        BY <4>1, <4>2
    <3>3. \A s \in Known : \A k \in DOMAIN s :
             s[k] \in p.items /\ ~IsText(s) => k <= session'.processedInputLen
      <4>1. \A s \in Known : s \in Seq(Item)
        <5>1. client.hist \in Seq(Item) /\ \A q \in Reqs : req[q].input \in Seq(Item)
          BY Typed DEF ExecutorInv, Request
        <5> QED
          BY <5>1 DEF Known
      <4> SUFFICES ASSUME NEW s \in Known, NEW k \in DOMAIN s, s[k] \in p.items, ~IsText(s)
                   PROVE  k <= session'.processedInputLen
        OBVIOUS
      <4>2. k \in Nat /\ k <= session.processedInputLen
        BY <3>1, <4>1 DEF Sent
      <4> QED
        BY <1>0, <3>2, <4>2
    <3>4. p.items \cap req'[r].turn = {}
      <4> SUFFICES ASSUME NEW i \in p.items, i \in TurnItems(NewItems(input)) PROVE FALSE
        BY <2>1 DEF Takes
      <4>1. PICK m \in DOMAIN input :
               input[m] = i /\ (IsText(input) \/ IsReset(input) \/ m > session.processedInputLen)
        BY <1>0, <3>0, TurnOfInput
      <4>2. CASE IsText(input)
        <5>1. 1 \in DOMAIN input /\ input[1].kind = "text" /\ Head(input) = input[1]
          BY <3>0, <4>2 DEF IsText
        <5>2. Len(input) = 1
          BY <3>0, <5>1 DEF PlaceInv
        <5>3. i = Head(input)
          BY <3>0, <4>1, <5>1, <5>2
        <5>4. req[r].pc = "start"
          BY <2>1 DEF Takes
        <5> QED
          BY <4>2, <5>3, <5>4 DEF Sent
      <4>3. CASE ~IsText(input)
        <5>1. m > session.processedInputLen /\ m \in Nat
          BY <3>0, <3>1, <4>1, <4>3
        <5>2. m <= session.processedInputLen
          BY <3>0, <3>1, <4>1, <4>3 DEF Sent
        <5> QED
          BY <1>0, <5>1, <5>2
      <4> QED
        BY <4>2, <4>3
    <3>5. \A q \in Reqs \ {r} : req'[q].pc \notin Before
      <4>1. \A q \in Reqs : ~Holds(q)
        BY <2>1 DEF Takes, HolderInv, InStep
      <4> QED
        BY <1>1, <4>1 DEF Same, Holds, Before
    <3> QED
      BY <3>3, <3>4, <3>5
  <2>2. CASE Opens(r)
    <3>1. session'.conversationID = convs + 1
      BY <1>0, <2>2 DEF Opens, Session
    <3> QED
      BY <1>0, <1>5, <3>1 DEF Sent
  <2>3. CASE Posts(r) \/ GivesUp(r) \/ Leaves(r) \/ Moves(r)
    <3>1. /\ session'.conversationID = session.conversationID
          /\ session'.processedInputLen = session.processedInputLen
      BY <1>0, <2>3 DEF Posts, GivesUp, Leaves, Moves, Session
    <3>2. req'[r].pc \in Before => req[r].pc \in Before /\ req'[r].turn = req[r].turn
      BY <2>3 DEF Posts, GivesUp, Leaves, Moves, Before, Asking, After
    <3>3. \A q \in Reqs : req'[q].pc \in Before => req[q].pc \in Before /\ req'[q].turn = req[q].turn
      BY <1>1, <3>2 DEF Same
    <3> QED
      BY <1>5, <3>1, <3>3 DEF Sent
  <2> QED
    BY <2>1, <2>2, <2>3 DEF Serves
<1>6. \A i \in p.items : i.id < client'.nextId
  BY <1>2 DEF Sent
<1>7. \A q \in Reqs : req'[q].pc = "start" /\ IsText(req'[q].input) => Head(req'[q].input) \notin p.items
  BY <1>2, <1>4 DEF Sent
<1> QED
  BY <1>2, <1>3, <1>5, <1>6, <1>7 DEF Sent, IsText

\* The new post of a request that holds the session.
LEMMA NewSent ==
    ASSUME ExecutorInv, PlaceInv, HolderInv, session.conversationID \in 0..convs,
           NEW r \in Reqs, Posts(r), NEW p \in Post,
           p.conv = session.conversationID, p.items \subseteq req[r].turn
    PROVE  Sent(p)'
<1>0. /\ req \in [Reqs -> Request] /\ client.hist \in Seq(Item)
      /\ session.conversationID \in 0..convs /\ convs \in Nat
  BY Typed DEF ExecutorInv
<1>1. /\ Same(r) /\ session' = session /\ convs' = convs
      /\ req[r].pc \in {"chat", "repair"} /\ req'[r].pc \notin Before \cup {"start"}
  BY DEF Posts, Before
<1>2. client' = client /\ Known' = Known
      /\ \A q \in Reqs : req'[q].input = req[q].input
  BY <1>1 DEF Same, Known
<1> DEFINE input == req[r].input
<1>3. InStep(r) /\ \A q \in Reqs \ {r} : ~Holds(q)
  BY <1>1 DEF HolderInv, InStep, Holds
<1>4. \A i \in p.items : \E m \in DOMAIN input : input[m] = i
  BY <1>3 DEF InStep, ToSet
<1>5. input \in Seq(Item) /\ input \in Known /\ Len(input) \in Nat /\ DOMAIN input = 1..Len(input)
  BY <1>0 DEF Request, Known
<1>6. p.conv \in 1..convs
  BY <1>0, <1>1, <1>3 DEF InStep, NoConv
<1>7. \A i \in p.items : i.id < client.nextId
  BY <1>4, <1>5 DEF PlaceInv
<1>8. ASSUME NEW s \in Known, NEW k \in DOMAIN s, s[k] \in p.items, ~IsText(s)
      PROVE  k <= session.processedInputLen
  <2>1. PICK m \in DOMAIN input : input[m] = s[k]
    BY <1>4, <1>8
  <2>2. k = m
    BY <1>5, <1>8, <2>1 DEF PlaceInv
  <2>3. CASE IsText(input)
    <3>1. input[1].kind = "text" /\ 1 \in DOMAIN input
      BY <1>5, <2>3 DEF IsText
    <3>2. Len(input) = 1 /\ m = 1
      BY <1>5, <2>1, <3>1 DEF PlaceInv
    <3>3. s \in Seq(Item) /\ s[1].kind = "text" /\ 1 \in DOMAIN s
      <4>1. \A t \in Known : t \in Seq(Item)
        BY <1>0 DEF Known, Request
      <4> QED
        BY <1>8, <2>1, <2>2, <3>1, <3>2, <4>1
    <3>4. IsText(s)
      BY <3>3 DEF IsText
    <3> QED
      BY <1>8, <3>4
  <2>4. CASE ~IsText(input)
    <3>1. session.processedInputLen = Len(input)
      BY <1>3, <2>4 DEF InStep, HolderInv
    <3> QED
      BY <1>5, <2>1, <2>2, <3>1
  <2> QED
    BY <2>3, <2>4
<1>9. \A q \in Reqs : req'[q].pc \notin Before
  BY <1>1, <1>3 DEF Same, Holds, Before
<1>10. ASSUME NEW q \in Reqs, req'[q].pc = "start", IsText(req'[q].input),
              Head(req'[q].input) \in p.items
       PROVE  FALSE
  <2> DEFINE t == req[q].input
  <2>0. q # r /\ t \in Seq(Item) /\ t \in Known /\ IsText(t) /\ Head(t) \in p.items
    BY <1>0, <1>1, <1>2, <1>10 DEF Request, Known
  <2>1. t # <<>> /\ t[1].kind = "text" /\ Head(t) = t[1] /\ t[1] \in p.items /\ 1 \in DOMAIN t
    BY <2>0 DEF IsText
  <2>2. PICK m \in DOMAIN input : input[m] = t[1]
    BY <1>4, <2>1
  <2>3. Len(t) = 1 /\ Len(input) = 1 /\ m = 1
    BY <1>5, <2>0, <2>1, <2>2 DEF PlaceInv
  <2>4. t = input
    BY <1>5, <2>0, <2>1, <2>2, <2>3
  <2> QED
    BY <2>0, <2>4 DEF PlaceInv
<1> QED
  BY <1>1, <1>2, <1>6, <1>7, <1>8, <1>9, <1>10 DEF Sent, IsText

LEMMA ServeSentInv ==
    ASSUME ExecutorInv, PlaceInv, HolderInv, SentInv, NEW r \in Reqs, Serves(r)
    PROVE  SentInv'
<1>0. session \in Session /\ convs \in Nat /\ posts \in Seq(Post) /\ req[r] \in Request
  BY Typed DEF ExecutorInv, Post
<1>1. session'.conversationID \in 0..convs'
  <2>1. session.conversationID \in 0..convs /\ NoConv = 0
    BY DEF SentInv, NoConv
  <2>2. CASE Opens(r)
    BY <1>0, <2>2 DEF Opens, Session
  <2>3. CASE ~Opens(r)
    <3>1. convs' = convs
      BY <2>3 DEF Serves, Takes, Posts, GivesUp, Leaves, Moves
    <3>2. session'.conversationID = NoConv \/ session'.conversationID = session.conversationID
      BY <1>0, <2>3 DEF Serves, Takes, Posts, GivesUp, Leaves, Moves, Session
    <3> QED
      BY <1>0, <2>1, <3>1, <3>2
  <2> QED
    BY <2>2, <2>3
<1>2. ASSUME NEW n \in DOMAIN posts, NEW p, p = posts[n] PROVE Sent(p)'
  <2>1. p \in Post /\ Sent(p) /\ session.conversationID \in 0..convs
    BY <1>0, <1>2 DEF SentInv
  <2> QED
    BY <2>1, ServeSent
<1>3. SUFFICES ASSUME NEW n \in DOMAIN posts', NEW p, p = posts'[n] PROVE Sent(p)'
  BY <1>1 DEF SentInv, Sent
<1>4. CASE posts' = posts
  BY <1>2, <1>3, <1>4
<1>5. CASE Posts(r)
  <2>1. PICK repair \in BOOLEAN : Accept(r, repair)
    BY <1>5 DEF Posts
  <2>2. PICK new \in Post :
           /\ new.conv = session.conversationID
           /\ new.items = IF repair THEN Outputs(req[r].turn) ELSE req[r].turn
           /\ Len(posts) \in Nat /\ DOMAIN posts = 1..Len(posts)
           /\ DOMAIN posts' = 1..(Len(posts) + 1)
           /\ posts'[Len(posts) + 1] = new
           /\ \A k \in DOMAIN posts : posts'[k] = posts[k]
    BY <2>1, OnePost DEF ExecutorInv
  <2>3. Sent(new)'
    BY <1>5, <2>2, NewSent DEF SentInv, Outputs
  <2>4. n \in DOMAIN posts \/ p = new
    BY <1>3, <2>2
  <2> QED
    BY <1>2, <1>3, <2>2, <2>3, <2>4
<1> QED
  BY <1>4, <1>5 DEF Serves, Takes, Opens, GivesUp, Leaves, Moves

LEMMA ClientSentInv ==
    ASSUME TypeOK, PlaceInv, SentInv, NEW h, NEW r, ClientMoves(h, r)
    PROVE  SentInv'
<1>0. /\ posts \in Seq(Post) /\ client.nextId \in Nat /\ client'.nextId \in Nat
      /\ client'.nextId >= client.nextId /\ client.hist \in Seq(Item)
      /\ \A q \in Reqs : req[q].input \in Seq(Item)
      /\ UNCHANGED <<session, posts, convs>> /\ h \in Seq(Item)
  BY Typed DEF Post, ClientMoves, Client, Continues, Request
<1>1. SUFFICES ASSUME NEW n \in DOMAIN posts, NEW p, p = posts[n] PROVE Sent(p)'
  BY <1>0 DEF SentInv, Sent
<1>2. p \in Post /\ Sent(p)
  BY <1>0, <1>1 DEF SentInv
<1>3. ASSUME NEW k \in DOMAIN h, h[k] \in p.items
      PROVE  k \in DOMAIN client.hist /\ h[k] = client.hist[k]
  <2>1. h[k].id < client.nextId /\ h[k].id \in Nat
    BY <1>0, <1>2, <1>3 DEF Sent, Item, Post
  <2> QED
    BY <1>0, <2>1 DEF ClientMoves, Continues
<1>4. ~IsText(client.hist) /\ client.hist \in Known
  BY <1>0 DEF PlaceInv, IsText, Known
<1>5. \A i \in p.items : i.id < client'.nextId
  <2>1. \A i \in p.items : i.id \in Nat
    BY <1>2 DEF Post, Item
  <2> QED
    BY <1>0, <1>2, <2>1 DEF Sent
<1>6. ASSUME p.conv = session'.conversationID
      PROVE  \A s \in Known' : \A k \in DOMAIN s :
                s[k] \in p.items /\ ~IsText(s) => k <= session.processedInputLen
  <2>1. \A s \in Known \cup {<<>>, h} : \A k \in DOMAIN s :
           s[k] \in p.items /\ ~IsText(s) => k <= session.processedInputLen
    <3>1. \A s \in Known : \A k \in DOMAIN s :
             s[k] \in p.items /\ ~IsText(s) => k <= session.processedInputLen
      BY <1>0, <1>2, <1>6 DEF Sent
    <3>2. \A k \in DOMAIN h : h[k] \in p.items => k <= session.processedInputLen
      BY <1>3, <1>4, <3>1
    <3>3. DOMAIN <<>> = {}
      OBVIOUS
    <3> QED
      BY <3>1, <3>2, <3>3
  <2>2. Known' \subseteq Known \cup {<<>>, h}
    <3>1. \A q \in Reqs : req'[q].input \in Known \cup {<<>>, h}
      BY DEF ClientMoves, Rests, Frees, Begins, NoRequest, Known
    <3>2. client'.hist \in Known \cup {h}
      BY DEF ClientMoves, Known
    <3> QED
      BY <3>1, <3>2 DEF Known
  <2> QED
    BY <2>1, <2>2
<1>7. ASSUME p.conv = session'.conversationID, NEW q \in Reqs, req'[q].pc \in Before
      PROVE  p.items \cap req'[q].turn = {}
  <2>1. Rests(q)
    BY <1>7 DEF ClientMoves, Frees, Begins, NoRequest, Before
  <2> QED
    BY <1>0, <1>2, <1>7, <2>1 DEF Rests, Sent
<1>8. ASSUME NEW q \in Reqs, req'[q].pc = "start", IsText(req'[q].input)
      PROVE  Head(req'[q].input) \notin p.items
  <2>1. CASE Rests(q)
    BY <1>2, <1>8, <2>1 DEF Rests, Sent
  <2>2. CASE Begins(q, h)
    <3>1. req'[q].input = h /\ 1 \in DOMAIN h /\ Head(h) = h[1] /\ h[1].kind = "text"
      BY <1>0, <1>4, <1>8, <2>2 DEF Begins, IsText
    <3> SUFFICES ASSUME h[1] \in p.items PROVE FALSE
      BY <3>1
    <3>2. 1 \in DOMAIN client.hist /\ client.hist[1].kind = "text"
      BY <1>3, <3>1
    <3> QED
      BY <3>2 DEF PlaceInv
  <2> QED
    BY <1>8, <2>1, <2>2 DEF ClientMoves, Frees, NoRequest
<1> QED
  BY <1>0, <1>2, <1>5, <1>6, <1>7, <1>8 DEF Sent, IsText

LEMMA LosesSentInv == ASSUME TypeOK, SentInv, Loses PROVE SentInv'
<1>0. convs \in Nat /\ UNCHANGED <<posts, convs>> /\ session'.conversationID = 0
      /\ client'.nextId = client.nextId
  BY Typed DEF Loses, NewSession, NoConv
<1>1. SUFFICES ASSUME NEW n \in DOMAIN posts, NEW p, p = posts[n] PROVE Sent(p)'
  BY <1>0 DEF SentInv, Sent
<1>2. Sent(p)
  BY <1>1 DEF SentInv
<1>3. p.conv \in 1..convs' /\ p.conv # session'.conversationID
  BY <1>0, <1>2 DEF Sent
<1>4. \A q \in Reqs : req'[q].pc = "start" => Rests(q)
  BY DEF Loses, NoRequest
<1>5. \A q \in Reqs : req'[q].pc = "start" /\ IsText(req'[q].input) => Head(req'[q].input) \notin p.items
  BY <1>2, <1>4 DEF Sent, Rests
<1> QED
  BY <1>0, <1>2, <1>3, <1>5 DEF Sent, IsText

-----------------------------------------------------------------------------
(* No item twice *)

LEMMA PostOnce ==
    ASSUME ExecutorInv, SentInv, ForwardedOnce, NEW r \in Reqs, Posts(r)
    PROVE  ForwardedOnce'
<1>1. CASE req[r].pc = "chat" /\ Accept(r, FALSE)
  <2>1. PICK new \in Post :
           /\ new.conv = session.conversationID /\ new.items = req[r].turn
           /\ Len(posts) \in Nat /\ DOMAIN posts = 1..Len(posts)
           /\ DOMAIN posts' = 1..(Len(posts) + 1)
           /\ posts'[Len(posts) + 1] = new
           /\ \A k \in DOMAIN posts : posts'[k] = posts[k]
    BY <1>1, OnePost DEF ExecutorInv
  <2>2. \A m \in DOMAIN posts : posts[m].conv = new.conv => posts[m].items \cap new.items = {}
    BY <1>1, <2>1 DEF SentInv, Sent, Before
  <2>3. \A m, n \in DOMAIN posts' : m < n => m \in DOMAIN posts /\ (n \in DOMAIN posts \/ n = Len(posts) + 1)
    BY <2>1
  <2> QED
    BY <2>1, <2>2, <2>3 DEF ForwardedOnce
<1>2. CASE Accept(r, TRUE)
  <2>1. PICK new \in Post :
           /\ new.repair = TRUE
           /\ Len(posts) \in Nat /\ DOMAIN posts = 1..Len(posts)
           /\ DOMAIN posts' = 1..(Len(posts) + 1)
           /\ posts'[Len(posts) + 1] = new
           /\ \A k \in DOMAIN posts : posts'[k] = posts[k]
    BY <1>2, OnePost DEF ExecutorInv
  <2>2. \A m, n \in DOMAIN posts' : m < n => m \in DOMAIN posts /\ (n \in DOMAIN posts \/ n = Len(posts) + 1)
    BY <2>1
  <2> QED
    BY <2>1, <2>2 DEF ForwardedOnce
<1> QED
  BY <1>1, <1>2 DEF Posts

LEMMA StepForward == ExecutorInv /\ ForwardInv /\ [Next]_vars => ForwardInv'
<1> SUFFICES ASSUME ExecutorInv, ForwardInv, [Next]_vars PROVE ForwardInv'
  OBVIOUS
<1>0. TypeOK /\ PlaceInv /\ HolderInv /\ SentInv /\ ForwardedOnce
  BY DEF ExecutorInv, ForwardInv
<1>1. ASSUME NEW r \in Reqs, Serves(r) PROVE ForwardInv'
  <2>1. Same(r)
    BY <1>1 DEF Serves, Takes, Posts, Opens, GivesUp, Leaves, Moves
  <2>2. PlaceInv' /\ HolderInv' /\ SentInv'
    BY <1>0, <1>1, <2>1, ServePlace, ServeHolder, ServeSentInv
  <2>3. ForwardedOnce'
    <3>1. CASE Posts(r)
      BY <1>0, <3>1, PostOnce
    <3>2. CASE posts' = posts
      BY <1>0, <3>2 DEF ForwardedOnce
    <3> QED
      BY <1>1, <3>1, <3>2 DEF Serves, Takes, Opens, GivesUp, Leaves, Moves
  <2> QED
    BY <2>2, <2>3 DEF ForwardInv
<1>2. ASSUME NEW h, NEW r, ClientMoves(h, r) PROVE ForwardInv'
  <2>1. PlaceInv' /\ HolderInv' /\ SentInv'
    BY <1>0, <1>2, ClientPlace, ClientHolder, ClientSentInv
  <2>2. ForwardedOnce'
    BY <1>0, <1>2 DEF ClientMoves, ForwardedOnce
  <2> QED
    BY <2>1, <2>2 DEF ForwardInv
<1>3. CASE Loses
  <2>1. PlaceInv' /\ HolderInv' /\ SentInv'
    BY <1>0, <1>3, LosesPlace, LosesHolder, LosesSentInv
  <2>2. ForwardedOnce'
    BY <1>0, <1>3 DEF Loses, ForwardedOnce
  <2> QED
    BY <2>1, <2>2 DEF ForwardInv
<1>4. CASE UNCHANGED vars
  <2>1. PlaceInv' /\ HolderInv' /\ ForwardedOnce'
    BY <1>0, <1>4 DEF vars, PlaceInv, HolderInv, InStep, ForwardedOnce, Known, Holds, IsText
  <2>2. SentInv'
    BY <1>0, <1>4 DEF vars, SentInv, Sent, Known, IsText
  <2> QED
    BY <2>1, <2>2 DEF ForwardInv
<1> QED
  BY <1>0, <1>1, <1>2, <1>3, <1>4, Steps

LEMMA InitForward == Init => ForwardInv
<1> SUFFICES ASSUME Init PROVE ForwardInv
  OBVIOUS
<1>1. \A r \in Reqs : req[r] = NoRequest
  BY DEF Init
<1>2. Known \subseteq {<<>>} /\ DOMAIN <<>> = {} /\ ~IsText(<<>>)
  BY <1>1 DEF Init, Known, NoRequest, IsText
<1>3. PlaceInv
  BY <1>1, <1>2 DEF PlaceInv, Init, NoRequest
<1>4. HolderInv
  BY <1>1 DEF HolderInv, Init, Holds, NoRequest, NewSession
<1>5. SentInv /\ ForwardedOnce
  BY DEF SentInv, ForwardedOnce, Init, NewSession, NoConv
<1> QED
  BY <1>3, <1>4, <1>5 DEF ForwardInv

LEMMA AlwaysForward == Spec => [](ExecutorInv /\ ForwardInv)
<1> QED
  BY InitExecutor, StepExecutor, InitForward, StepForward, PTL DEF Spec

\* No item of a history reaches a conversation in two turns, however the client
\* retries, hangs up, compacts its history or starts over, and however often the
\* session is lost (openai_helpers.go:152-180, executor.go:118-124).
THEOREM NeverTwice == Spec => []ForwardedOnce
<1>1. ForwardInv => ForwardedOnce
  BY DEF ForwardInv
<1> QED
  BY <1>1, AlwaysForward, PTL

-----------------------------------------------------------------------------
(* No item skipped *)

\* A turn takes all that is read of what is new, but for superseded messages.
LEMMA TurnCovers ==
    ASSUME NEW new \in Seq(Item)
    PROVE  Forwardable(new) \subseteq TurnItems(new) \cup Superseded(new)
<1>1. ASSUME NEW i \in UserItems(new) PROVE i \in LastUser(new) \cup Superseded(new)
  <2>1. PICK n \in DOMAIN new : i = new[n] /\ new[n].kind = "user"
    BY <1>1 DEF UserItems, ToSet
  <2> QED
    BY <2>1 DEF LastUser, Superseded
<1> QED
  BY <1>1 DEF Forwardable, TurnItems, UserItems, Outputs

\* A history that grew is what it was, and its tail.
LEMMA Grown ==
    ASSUME NEW old \in Seq(Item), NEW input \in Seq(Item), IsPrefix(old, input)
    PROVE  Forwardable(input) \subseteq
              Forwardable(old) \cup Forwardable(SubSeq(input, Len(old) + 1, Len(input)))
<1> DEFINE new == SubSeq(input, Len(old) + 1, Len(input))
<1>1. /\ Len(old) \in Nat /\ Len(input) \in Nat /\ DOMAIN old = 1..Len(old)
      /\ DOMAIN input = 1..Len(input) /\ Len(old) <= Len(input)
      /\ SubSeq(old, 1, Len(old)) = SubSeq(input, 1, Len(old))
  BY DEF IsPrefix
<1>2. \A k \in 1..Len(old) : input[k] = old[k]
  <2> SUFFICES ASSUME NEW k \in 1..Len(old) PROVE input[k] = old[k]
    OBVIOUS
  <2>1. SubSeq(old, 1, Len(old))[k] = old[k]
    BY <1>1
  <2>2. SubSeq(input, 1, Len(old))[k] = input[k]
    BY <1>1
  <2> QED
    BY <1>1, <2>1, <2>2
<1>3. DOMAIN new = 1..(Len(input) - Len(old))
      /\ \A k \in 1..(Len(input) - Len(old)) : new[k] = input[Len(old) + k]
  BY <1>1
<1> HIDE DEF new
<1>4. ToSet(input) \subseteq ToSet(old) \cup ToSet(new)
  <2> SUFFICES ASSUME NEW k \in DOMAIN input PROVE input[k] \in ToSet(old) \cup ToSet(new)
    BY DEF ToSet
  <2>1. CASE k <= Len(old)
    BY <1>1, <1>2, <2>1 DEF ToSet
  <2>2. CASE k > Len(old)
    <3>1. k - Len(old) \in DOMAIN new /\ Len(old) + (k - Len(old)) = k
      BY <1>1, <1>3, <2>2
    <3>2. new[k - Len(old)] = input[k]
      BY <1>3, <3>1
    <3> QED
      BY <3>1, <3>2 DEF ToSet
  <2> QED
    BY <1>1, <2>1, <2>2
<1>5. Forwardable(input) \subseteq Forwardable(old) \cup Forwardable(new)
  BY <1>4 DEF Forwardable, UserItems, Outputs
<1> QED
  BY <1>5 DEF new

LEMMA PostedGrows ==
    ASSUME TypeOK, NEW r \in Reqs, Serves(r)
    PROVE  Posted \subseteq Posted' /\ gone \subseteq gone'
<1>1. gone \subseteq gone'
  BY DEF Serves, Takes, Posts, Opens, GivesUp, Leaves, Moves
<1>2. CASE Posts(r)
  <2>1. PICK repair \in BOOLEAN : Accept(r, repair)
    BY <1>2 DEF Posts
  <2>2. \E p \in Post : Posted' = Posted \cup p.items
    BY <2>1, OnePost
  <2> QED
    BY <1>1, <2>2
<1>3. CASE posts' = posts
  BY <1>1, <1>3 DEF Posted
<1> QED
  BY <1>2, <1>3 DEF Serves, Takes, Opens, GivesUp, Leaves, Moves

\* The turn of a request that takes the session covers what it processes.
LEMMA TakesCovers ==
    ASSUME ExecutorInv, HolderInv, CoveredInv, NEW r \in Reqs, Takes(r), ~session'.unnoticed
    PROVE  Forwardable(session'.processed) \subseteq Posted \cup gone' \cup req'[r].turn
<1> DEFINE input == req[r].input
           new == NewItems(input)
<1>0. /\ session \in Session /\ input \in Seq(Item) /\ session.processed \in Seq(Item)
      /\ session.processedInputLen = Len(session.processed)
  BY Typed DEF ExecutorInv, HolderInv, Request, Session
<1>1. Held = {}
  BY DEF Takes, HolderInv, InStep, Held
<1>2. /\ ~Unnoticed(input) /\ req'[r].turn = TurnItems(new)
      /\ gone' = gone \cup Superseded(new)
      /\ IF IsText(input) THEN session'.processed = session.processed
                          ELSE session'.processed = input
  BY DEF Takes
<1>3. new \in Seq(Item)
  BY <1>0, TurnTypes DEF Session
<1>4. Forwardable(new) \subseteq gone' \cup req'[r].turn
  <2> HIDE DEF new
  <2> QED
    BY <1>2, <1>3, TurnCovers
<1>5. CASE IsReset(input)
  <2>1. new = SubSeq(input, 1, Len(input)) /\ ~IsText(input)
    BY <1>5 DEF NewItems, IsReset
  <2>2. new = input
    BY <1>0, <2>1
  <2> QED
    BY <1>2, <1>4, <2>1, <2>2
<1>6. CASE ~IsReset(input)
  <2>1. ~session.unnoticed /\ (IsText(input) \/ IsPrefix(session.processed, input))
    BY <1>2, <1>6 DEF Unnoticed
  <2>2. Forwardable(session.processed) \subseteq Posted \cup gone
    BY <1>1, <2>1 DEF CoveredInv
  <2>3. CASE IsText(input)
    BY <1>2, <2>2, <2>3
  <2>4. CASE ~IsText(input)
    <3>1. new = SubSeq(input, Len(session.processed) + 1, Len(input))
      BY <1>0, <1>6, <2>4 DEF NewItems
    <3>2. Forwardable(input) \subseteq Forwardable(session.processed) \cup Forwardable(new)
      BY <1>0, <2>1, <2>4, <3>1, Grown
    <3> HIDE DEF input, new
    <3> QED
      BY <1>2, <1>4, <2>2, <2>4, <3>2
  <2> QED
    BY <2>3, <2>4
<1> QED
  BY <1>5, <1>6

LEMMA ServeCovered ==
    ASSUME ExecutorInv, HolderInv, CoveredInv, NEW r \in Reqs, Serves(r)
    PROVE  CoveredInv'
<1>0. /\ session \in Session /\ TypeOK /\ Posted \subseteq Posted' /\ gone \subseteq gone'
  BY Typed, PostedGrows DEF ExecutorInv
<1>1. Same(r)
  BY DEF Serves, Takes, Posts, Opens, GivesUp, Leaves, Moves
<1>2. Posts(r) /\ req[r].pc = "chat" => req[r].turn \subseteq Posted'
  <2> SUFFICES ASSUME Posts(r), req[r].pc = "chat" PROVE req[r].turn \subseteq Posted'
    OBVIOUS
  <2>1. Accept(r, FALSE)
    BY DEF Posts
  <2>2. \E p \in Post : p.items = req[r].turn /\ Posted' = Posted \cup p.items
    BY <1>0, <2>1, OnePost
  <2> QED
    BY <2>2
<1>3. GivesUp(r) => req[r].turn \subseteq Posted' \cup gone'
  BY <1>0 DEF GivesUp
<1>4. req'[r].pc \in After => req'[r].turn \subseteq Posted' \cup gone'
  <2>1. CASE Posts(r) /\ req[r].pc = "chat"
    BY <1>2, <2>1 DEF Posts
  <2>2. CASE GivesUp(r)
    BY <1>3, <2>2 DEF GivesUp
  <2>3. CASE Takes(r) \/ Opens(r) \/ Leaves(r)
    BY <2>3 DEF Takes, Opens, Leaves, After
  <2>4. CASE (Posts(r) /\ req[r].pc = "repair") \/ Moves(r)
    <3>1. req'[r].turn = req[r].turn /\ (req'[r].pc \in After => req[r].pc \in After)
      BY <2>4 DEF Posts, Moves, After, Asking
    <3> QED
      BY <1>0, <3>1 DEF CoveredInv
  <2> QED
    BY <2>1, <2>2, <2>3, <2>4 DEF Serves, Posts
<1>5. \A q \in Reqs : req'[q].pc \in After => req'[q].turn \subseteq Posted' \cup gone'
  BY <1>0, <1>1, <1>4 DEF Same, CoveredInv
<1>6. ASSUME ~session'.unnoticed
      PROVE  Forwardable(session'.processed) \subseteq Posted' \cup gone' \cup Held'
  <2>1. CASE Takes(r)
    <3>1. Forwardable(session'.processed) \subseteq Posted \cup gone' \cup req'[r].turn
      BY <1>6, <2>1, TakesCovers
    <3>2. Holds(r)'
      BY <2>1 DEF Takes, Holds
    <3>3. req'[r].turn \subseteq Held'
      BY <3>2 DEF Held
    <3> QED
      BY <1>0, <3>1, <3>3
  <2>2. CASE ~Takes(r)
    <3>1. session'.processed = session.processed /\ session'.unnoticed = session.unnoticed
      BY <1>0, <2>2 DEF Serves, Posts, Opens, GivesUp, Leaves, Moves, Session
    <3>2. Held \subseteq Posted' \cup gone' \cup Held'
      <4> SUFFICES ASSUME NEW q \in Reqs, Holds(q), NEW i \in req[q].turn
                   PROVE  i \in Posted' \cup gone' \cup Held'
        BY DEF Held
      <4>1. CASE q # r
        <5>1. Holds(q)' /\ req'[q].turn = req[q].turn
          BY <1>1, <4>1 DEF Same, Holds
        <5> QED
          BY <5>1 DEF Held
      <4>2. CASE q = r /\ (Posts(r) \/ Opens(r) \/ Moves(r))
        <5>1. Holds(r)' /\ req'[r].turn = req[r].turn
          BY <4>2 DEF Posts, Opens, Moves, Holds, Asking, After
        <5> QED
          BY <4>2, <5>1 DEF Held
      <4>3. CASE q = r /\ GivesUp(r)
        BY <1>3, <4>3
      <4>4. CASE q = r /\ Leaves(r)
        <5>1. req[r].turn \subseteq Posted \cup gone
          BY <4>4 DEF Leaves, After, CoveredInv
        <5> QED
          BY <1>0, <4>4, <5>1
      <4> QED
        BY <2>2, <4>1, <4>2, <4>3, <4>4 DEF Serves
    <3> QED
      BY <1>0, <1>6, <3>1, <3>2 DEF CoveredInv
  <2> QED
    BY <2>1, <2>2
<1> QED
  BY <1>5, <1>6 DEF CoveredInv, Forwardable, UserItems, Outputs

LEMMA OtherCovered ==
    ASSUME CoveredInv, HolderInv, \/ \E h, r : ClientMoves(h, r)
                                  \/ Loses
                                  \/ UNCHANGED vars
    PROVE  CoveredInv'
<1>1. CASE \E h, r : ClientMoves(h, r)
  <2>1. UNCHANGED <<session, posts, gone>> /\ Posted' = Posted
    BY <1>1 DEF ClientMoves, Posted
  <2>2. \A q \in Reqs : req'[q].pc \in After => Rests(q)
    BY <1>1 DEF ClientMoves, Frees, Begins, NoRequest, After
  <2>3. \A q \in Reqs : Holds(q) => Rests(q) /\ Holds(q)'
    BY <1>1 DEF ClientMoves, Frees, Begins, Rests, Holds
  <2>4. Held \subseteq Held'
    BY <2>3 DEF Held, Rests
  <2>5. \A q \in Reqs : req'[q].pc \in After => req'[q].turn \subseteq Posted' \cup gone'
    BY <2>1, <2>2 DEF CoveredInv, Rests
  <2> QED
    BY <2>1, <2>4, <2>5 DEF CoveredInv, Forwardable, UserItems, Outputs
<1>2. CASE Loses
  <2>1. UNCHANGED <<posts, gone>> /\ Posted' = Posted /\ session'.processed = <<>>
    BY <1>2 DEF Loses, Posted, NewSession
  <2>2. \A q \in Reqs : req'[q].pc \in After => Rests(q)
    BY <1>2 DEF Loses, NoRequest, After
  <2>3. \A q \in Reqs : req'[q].pc \in After => req'[q].turn \subseteq Posted' \cup gone'
    BY <2>1, <2>2 DEF CoveredInv, Rests
  <2>4. Forwardable(<<>>) = {}
    BY DEF Forwardable, UserItems, Outputs, ToSet
  <2> QED
    BY <2>1, <2>3, <2>4 DEF CoveredInv, Forwardable, UserItems, Outputs
<1>3. CASE UNCHANGED vars
  BY <1>3 DEF vars, CoveredInv, Posted, Held, Holds, Forwardable, UserItems, Outputs
<1> QED
  BY <1>1, <1>2, <1>3

\* Whatever a request that holds the session was given was forwarded, is about to
\* be, was superseded, or failed: the tail skips nothing unless a rewritten history
\* passed for one that grew (openai_helpers.go:158-171).
THEOREM NoneSkipped == Spec => []NothingSkipped
<1>1. ExecutorInv /\ ForwardInv /\ CoveredInv /\ [Next]_vars => CoveredInv'
  BY Steps, ServeCovered, OtherCovered DEF ForwardInv
<1>2. Init => CoveredInv
  <2> SUFFICES ASSUME Init PROVE CoveredInv
    OBVIOUS
  <2>1. session.processed = <<>> /\ \A q \in Reqs : req[q].pc = "free"
    BY DEF Init, NewSession, NoRequest
  <2>2. Forwardable(<<>>) = {}
    BY DEF Forwardable, UserItems, Outputs, ToSet
  <2> QED
    BY <2>1, <2>2 DEF CoveredInv, After
<1>3. ExecutorInv /\ ForwardInv /\ CoveredInv => NothingSkipped
  <2> SUFFICES ASSUME ExecutorInv, ForwardInv, CoveredInv, ~session.unnoticed,
                      NEW r \in Reqs, Holds(r)
               PROVE  Forwardable(req[r].input) \subseteq Posted \cup gone \cup req[r].turn
    BY DEF NothingSkipped
  <2>1. InStep(r)
    BY DEF ForwardInv, HolderInv
  <2>2. Held = req[r].turn
    BY <2>1 DEF InStep, Held
  <2>3. CASE ~IsText(req[r].input)
    BY <2>1, <2>2, <2>3 DEF InStep, CoveredInv
  <2>4. CASE IsText(req[r].input)
    <3>1. req[r].input \in Seq(Item) /\ req[r].input \in Known
      BY Typed DEF ExecutorInv, Request, Known
    <3>2. 1 \in DOMAIN req[r].input /\ req[r].input[1].kind = "text"
      BY <2>4, <3>1 DEF IsText
    <3>3. Len(req[r].input) = 1
      BY <3>1, <3>2 DEF ForwardInv, PlaceInv
    <3>4. \A i \in ToSet(req[r].input) : i.kind = "text"
      BY <3>1, <3>2, <3>3 DEF ToSet
    <3> QED
      BY <3>4 DEF Forwardable, UserItems, Outputs
  <2> QED
    BY <2>3, <2>4
<1> QED
  BY <1>1, <1>2, <1>3, AlwaysForward, PTL DEF Spec

-----------------------------------------------------------------------------
(* Who posts, when and how often.                                          *)
Mine(r) == {n \in DOMAIN posts : posts[n].id = req[r].id}

\* The id is the request's own; its posts are one of the turn, then repairs, as
\* many as its attempts; a turn that needs its images has them uploaded.
Counted(r) ==
    /\ req[r].id \in 1..client.submitted
    /\ \A q \in Reqs : req[q].pc # "free" /\ req[q].id = req[r].id => q = r
    /\ req[r].pc \in Before \cup {"start"} => Mine(r) = {}
    /\ req[r].pc \in Asking => Cardinality(Mine(r)) <= Asked(req[r])
    /\ \A n \in Mine(r) : posts[n].repair <=> \E m \in Mine(r) : m < n
    /\ req[r].pc \in Middle \cup {"token"} /\ NeedsUpload(req[r].turn) => req[r].uploaded

CountInv ==
    /\ \A n \in DOMAIN posts : posts[n].id \in 1..client.submitted
    /\ \A r \in Reqs : req[r].pc # "free" => Counted(r)

LEMMA MineFinite ==
    ASSUME TypeOK, NEW r \in Reqs
    PROVE  IsFiniteSet(Mine(r)) /\ Cardinality(Mine(r)) \in Nat
<1>1. posts \in Seq(Post)
  BY Typed DEF Post
<1>2. Len(posts) \in Nat /\ DOMAIN posts = 1..Len(posts)
  BY <1>1
<1>3. IsFiniteSet(1..Len(posts))
  BY <1>2, FS_Interval
<1>4. Mine(r) \in SUBSET (1..Len(posts))
  BY <1>2 DEF Mine
<1>5. IsFiniteSet(Mine(r))
  BY <1>3, <1>4, FS_Subset
<1> QED
  BY <1>5, FS_CardinalityType

\* A post is the last one of its request, and of no other.
LEMMA MinePosted ==
    ASSUME TypeOK, CountInv, NEW r \in Reqs, Posts(r), NEW repair \in BOOLEAN,
           Accept(r, repair)
    PROVE  LET last == Len(posts) + 1
           IN  /\ Len(posts') = last /\ last \in DOMAIN posts'
               /\ posts'[last].id = req[r].id /\ posts'[last].repair = repair
               /\ \A n \in DOMAIN posts : n < last /\ posts'[n] = posts[n]
               /\ DOMAIN posts' = DOMAIN posts \cup {last}
               /\ Mine(r)' = Mine(r) \cup {last} /\ last \notin Mine(r)
               /\ \A n \in Mine(r) : n < last /\ n \in Nat
               /\ last \in Nat
               /\ Cardinality(Mine(r)') = Cardinality(Mine(r)) + 1
               /\ \A q \in Reqs \ {r} : req[q].pc # "free" => Mine(q)' = Mine(q)
<1> DEFINE last == Len(posts) + 1
<1>1. PICK p \in Post :
         /\ p.id = req[r].id /\ p.repair = repair
         /\ Len(posts) \in Nat /\ DOMAIN posts = 1..Len(posts)
         /\ Len(posts') = last /\ DOMAIN posts' = 1..last
         /\ posts'[last] = p /\ \A n \in DOMAIN posts : posts'[n] = posts[n]
  BY OnePost
<1>2. /\ last \in Nat /\ last \in DOMAIN posts' /\ last \notin DOMAIN posts
      /\ DOMAIN posts' = DOMAIN posts \cup {last}
      /\ \A n \in DOMAIN posts : n < last /\ n \in Nat
  BY <1>1
<1> HIDE DEF last
<1>3. req'[r].id = req[r].id /\ \A q \in Reqs \ {r} : req'[q] = req[q]
  BY DEF Posts, Same
<1>4. Mine(r)' = Mine(r) \cup {last} /\ last \notin Mine(r)
  BY <1>1, <1>2, <1>3 DEF Mine
<1>5. Cardinality(Mine(r)') = Cardinality(Mine(r)) + 1
  BY <1>4, MineFinite, FS_AddElement
<1>6. ASSUME NEW q \in Reqs \ {r}, req[q].pc # "free" PROVE Mine(q)' = Mine(q)
  <2>1. req[q].id # req[r].id /\ req'[q] = req[q]
    BY <1>3, <1>6 DEF CountInv, Counted, Posts
  <2> QED
    BY <1>1, <1>2, <2>1 DEF Mine
<1>7. \A n \in Mine(r) : n < last /\ n \in Nat
  BY <1>2 DEF Mine
<1> QED
  BY <1>1, <1>2, <1>4, <1>5, <1>6, <1>7 DEF last

LEMMA PostsCount ==
    ASSUME ExecutorInv, CountInv, NEW r \in Reqs, Posts(r)
    PROVE  /\ CountInv'
           /\ Cardinality(Mine(r)') <= 1 + maxToolCallRepairAttempts
           /\ Len(posts') \in Mine(r)'
<1> DEFINE last == Len(posts) + 1
<1>0. TypeOK /\ Same(r) /\ req[r].pc \in {"chat", "repair"} /\ Counted(r)
  BY DEF ExecutorInv, Posts, CountInv
<1>1. PICK repair \in BOOLEAN : Accept(r, repair) /\ (repair <=> req[r].pc = "repair")
  BY DEF Posts
<1>2. /\ Len(posts') = last /\ last \in DOMAIN posts'
      /\ posts'[last].id = req[r].id /\ posts'[last].repair = repair
      /\ \A n \in DOMAIN posts : n < last /\ posts'[n] = posts[n]
      /\ DOMAIN posts' = DOMAIN posts \cup {last}
      /\ Mine(r)' = Mine(r) \cup {last} /\ last \notin Mine(r)
      /\ \A n \in Mine(r) : n < last /\ n \in Nat
      /\ last \in Nat
      /\ Cardinality(Mine(r)') = Cardinality(Mine(r)) + 1
      /\ \A q \in Reqs \ {r} : req[q].pc # "free" => Mine(q)' = Mine(q)
  BY <1>0, <1>1, MinePosted
<1> HIDE DEF last
<1>3. /\ client' = client /\ req'[r].id = req[r].id
      /\ \A q \in Reqs \ {r} : req'[q] = req[q]
      /\ req'[r].pc \in {"stream", "cleanup", "release", "repair", "repairStream"}
      /\ req'[r].turn = req[r].turn /\ req'[r].uploaded = req[r].uploaded
  BY DEF Posts, Same
<1>4. \A n \in DOMAIN posts' : posts'[n].id \in 1..client'.submitted
  BY <1>0, <1>2, <1>3 DEF CountInv, Counted
<1> DEFINE Bounds == /\ Cardinality(Mine(r)') <= 1 + maxToolCallRepairAttempts
                     /\ req'[r].pc \in Asking => Cardinality(Mine(r)') <= Asked(req'[r])
           Turn == \A n \in Mine(r)' : posts'[n].repair <=> \E m \in Mine(r)' : m < n
<1>5. ASSUME req[r].pc = "chat" PROVE Bounds /\ Turn
  <2>1. Mine(r) = {}
    BY <1>0, <1>5 DEF Counted, Before
  <2>2. repair = FALSE
    BY <1>1, <1>5, Zenon
  <2>3. Cardinality(Mine(r)') = 1
    BY <1>2, <2>1, FS_EmptySet
  <2>4. req'[r].pc \in Asking => Asked(req'[r]) = 1
    BY <1>5 DEF Posts, Asked, Asking
  <2>5. Turn
    BY <1>2, <2>1, <2>2
  <2> QED
    BY <2>3, <2>4, <2>5 DEF maxToolCallRepairAttempts
<1>6. ASSUME req[r].pc = "repair" PROVE Bounds /\ Turn
  <2>1. PICK k \in DOMAIN posts : posts[k].id = req[r].id
    BY <1>6 DEF ExecutorInv, PostInv, Asking
  <2>2. k \in Mine(r)
    BY <2>1 DEF Mine
  <2>3. repair = TRUE
    BY <1>1, <1>6, Zenon
  <2>4. /\ req[r].attempt \in Nat /\ req[r].attempt <= maxToolCallRepairAttempts
        /\ Asked(req'[r]) = req[r].attempt + 1 /\ Asked(req[r]) = req[r].attempt
    BY <1>0, <1>6, Typed DEF Posts, Asked, Request
  <2>5. Cardinality(Mine(r)) \in Nat /\ Cardinality(Mine(r)) <= req[r].attempt
    BY <1>0, <1>6, <2>4, MineFinite DEF Counted, Asking
  <2>6. Bounds
    BY <1>2, <2>4, <2>5 DEF maxToolCallRepairAttempts
  <2>7. Turn
    <3>1. ASSUME NEW n \in Mine(r) PROVE posts'[n].repair <=> \E m \in Mine(r)' : m < n
      <4>1. posts'[n] = posts[n] /\ n < last /\ n \in Nat
        BY <1>2 DEF Mine
      <4>2. (\E m \in Mine(r)' : m < n) <=> \E m \in Mine(r) : m < n
        BY <1>2, <4>1
      <4>3. posts[n].repair <=> \E m \in Mine(r) : m < n
        BY <1>0 DEF Counted
      <4> QED
        BY <4>1, <4>2, <4>3, Zenon
    <3>2. \E m \in Mine(r)' : m < last
      BY <1>2, <2>2
    <3>3. posts'[last].repair
      BY <1>2, <2>3, Zenon
    <3> QED
      BY <1>2, <3>1, <3>2, <3>3
  <2> QED
    BY <2>6, <2>7
<1>7. Bounds /\ Turn
  BY <1>0, <1>5, <1>6
<1>8. Counted(r)'
  <2> HIDE DEF Bounds, Turn
  <2>1. req'[r].pc \notin Before \cup {"start"}
    BY <1>3 DEF Before
  <2>2. (NeedsUpload(req[r].turn) => req[r].uploaded)'
    BY <1>0, <1>3 DEF Counted, Middle, NeedsUpload
  <2>3. \A q \in Reqs : req'[q].pc # "free" /\ req'[q].id = req'[r].id => q = r
    BY <1>0, <1>3 DEF Counted
  <2>4. /\ req'[r].pc \in Asking => Cardinality(Mine(r)') <= Asked(req'[r])
        /\ \A n \in Mine(r)' : posts'[n].repair <=> \E m \in Mine(r)' : m < n
    BY <1>7 DEF Bounds, Turn
  <2>5. req'[r].id \in 1..client'.submitted
    BY <1>0, <1>3 DEF Counted
  <2> QED
    BY <2>1, <2>2, <2>3, <2>4, <2>5 DEF Counted
<1>9. ASSUME NEW q \in Reqs \ {r}, req[q].pc # "free" PROVE Counted(q)'
  <2>1. Counted(q) /\ Mine(q)' = Mine(q) /\ req'[q] = req[q]
    BY <1>2, <1>3, <1>9 DEF CountInv
  <2>2. \A n \in Mine(q) : posts'[n] = posts[n]
    BY <1>2 DEF Mine
  <2>3. \A p \in Reqs : req'[p].pc # "free" /\ req'[p].id = req'[q].id => p = q
    BY <1>0, <1>3, <1>9, <2>1 DEF Counted
  <2> QED
    BY <1>3, <2>1, <2>2, <2>3 DEF Counted, NeedsUpload
<1> QED
  BY <1>2, <1>3, <1>4, <1>7, <1>8, <1>9 DEF CountInv

LEMMA ServeCount ==
    ASSUME ExecutorInv, CountInv, NEW r \in Reqs, Serves(r)
    PROVE  CountInv'
<1>1. CASE Posts(r)
  BY <1>1, PostsCount
<1>2. CASE ~Posts(r)
  <2>1. Same(r) /\ posts' = posts /\ client' = client
    BY <1>2 DEF Serves, Takes, Opens, GivesUp, Leaves, Moves, Same
  <2>2. \A q \in Reqs : req'[q].id = req[q].id
    BY <2>1 DEF Same
  <2>3. \A q \in Reqs : req'[q].pc # "free" => req[q].pc # "free"
    BY <1>2, <2>1 DEF Serves, Takes, Opens, GivesUp, Leaves, Moves, Same, Before, After, Asking
  <2>4. \A q \in Reqs : Mine(q)' = Mine(q)
    BY <2>1, <2>2 DEF Mine
  <2>5. ASSUME req'[r].pc # "free" PROVE Counted(r)'
    <3>1. Counted(r)
      BY <2>3, <2>5 DEF CountInv
    <3>2. req'[r].pc \in Before \cup {"start"} => req[r].pc \in Before \cup {"start"}
      BY <1>2 DEF Serves, Takes, Opens, GivesUp, Leaves, Moves, Before, After, Asking
    <3>3. /\ req'[r].pc \in Asking => req[r].pc \in Asking /\ Asked(req[r]) <= Asked(req'[r])
          /\ Asked(req[r]) \in Int /\ (req'[r].pc \in Asking => Asked(req'[r]) \in Int)
      <4>1. req \in [Reqs -> Request] /\ req'[r] \in Request
        BY <2>1, Typed DEF ExecutorInv, Same
      <4>2. \A x \in Request : Asked(x) \in Int
        BY DEF Asked, Request, maxToolCallRepairAttempts
      <4>3. req'[r].pc \in Asking => Moves(r) /\ req[r].pc \in Asking
        BY <1>2 DEF Serves, Takes, Opens, GivesUp, Leaves, Moves, Before, After, Asking
      <4> QED
        BY <4>1, <4>2, <4>3 DEF Moves
    <3>4. (req[r].pc \in Middle \cup {"token"} /\ NeedsUpload(req[r].turn) => req[r].uploaded)'
      <4>1. CASE Takes(r)
        BY <4>1 DEF Takes, Middle
      <4>2. CASE Opens(r)
        BY <3>1, <4>2 DEF Opens, Middle, Counted, NeedsUpload
      <4>3. CASE GivesUp(r) \/ Leaves(r)
        BY <4>3 DEF GivesUp, Leaves, Middle
      <4>4. CASE Moves(r)
        BY <3>1, <4>4 DEF Moves, Counted, NeedsUpload
      <4> QED
        BY <1>2, <4>1, <4>2, <4>3, <4>4 DEF Serves
    <3>5. req'[r].pc \in Asking => Cardinality(Mine(r)') <= Asked(req'[r])
      <4>1. Cardinality(Mine(r)) \in Nat
        BY MineFinite DEF ExecutorInv
      <4> QED
        BY <2>4, <3>1, <3>3, <4>1 DEF Counted
    <3>6. /\ req'[r].id \in 1..client'.submitted
          /\ \A q \in Reqs : req'[q].pc # "free" /\ req'[q].id = req'[r].id => q = r
          /\ req'[r].pc \in Before \cup {"start"} => Mine(r)' = {}
          /\ \A n \in Mine(r)' : posts'[n].repair <=> \E m \in Mine(r)' : m < n
      BY <2>1, <2>2, <2>3, <2>4, <3>1, <3>2 DEF Counted
    <3> QED
      BY <3>4, <3>5, <3>6 DEF Counted
  <2>6. ASSUME NEW q \in Reqs \ {r}, req'[q].pc # "free" PROVE Counted(q)'
    <3>1. Counted(q) /\ req'[q] = req[q]
      BY <2>1, <2>6 DEF Same, CountInv
    <3>2. \A p \in Reqs : req'[p].pc # "free" /\ req'[p].id = req'[q].id => p = q
      BY <2>2, <2>3, <3>1 DEF Counted
    <3> QED
      BY <2>1, <2>4, <3>1, <3>2 DEF Counted, NeedsUpload
  <2> QED
    BY <2>1, <2>5, <2>6 DEF CountInv
<1> QED
  BY <1>1, <1>2

\* A request that begins has an id that nothing has had.
LEMMA ClientCount ==
    ASSUME TypeOK, CountInv, NEW h, NEW r, ClientMoves(h, r)
    PROVE  CountInv'
<1>0. /\ client \in Client /\ client' \in Client /\ posts' = posts
      /\ client.submitted \in Nat /\ client'.submitted \in Nat
      /\ client.submitted <= client'.submitted
  BY Typed DEF ClientMoves, Client
<1>1. \A n \in DOMAIN posts' : posts'[n].id \in 1..client'.submitted
  BY <1>0 DEF CountInv
<1>2. ASSUME NEW q \in Reqs, req'[q].pc # "free"
      PROVE  (req[q].pc # "free" /\ Rests(q)) \/ (q = r /\ Begins(q, h))
  <2>1. ~Frees(q)
    BY <1>2 DEF Frees, NoRequest
  <2>2. CASE Rests(q)
    BY <1>2, <2>2 DEF Rests
  <2> QED
    BY <2>1, <2>2 DEF ClientMoves
<1>3. \A q \in Reqs : req[q].pc # "free" => req[q].id \in 1..client.submitted
  BY DEF CountInv, Counted
<1>4. ASSUME NEW q \in Reqs, NEW p \in Reqs, req'[q].pc # "free", req'[p].pc # "free",
             req'[p].id = req'[q].id
      PROVE  p = q
  <2>1. CASE req[q].pc # "free" /\ Rests(q) /\ req[p].pc # "free" /\ Rests(p)
    BY <1>4, <2>1 DEF Rests, CountInv, Counted
  <2>2. CASE req[q].pc # "free" /\ Rests(q) /\ Begins(p, h)
    BY <1>0, <1>3, <1>4, <2>2 DEF Rests, Begins
  <2>3. CASE req[p].pc # "free" /\ Rests(p) /\ Begins(q, h)
    <3>1. req[p].id = client.submitted + 1
      BY <1>4, <2>3 DEF Rests, Begins
    <3> QED
      BY <1>0, <1>3, <2>3, <3>1
  <2>4. /\ (req[q].pc # "free" /\ Rests(q)) \/ (q = r /\ Begins(q, h))
        /\ (req[p].pc # "free" /\ Rests(p)) \/ (p = r /\ Begins(p, h))
    BY <1>2, <1>4
  <2> QED
    BY <2>1, <2>2, <2>3, <2>4
<1>5. ASSUME NEW q \in Reqs, req'[q].pc # "free" PROVE Counted(q)'
  <2>1. CASE Begins(q, h)
    <3>1. req'[q].pc = "start" /\ req'[q].id = client.submitted + 1
          /\ client'.submitted = client.submitted + 1
      BY <2>1 DEF Begins
    <3>2. Mine(q)' = {}
      BY <1>0, <3>1 DEF Mine, CountInv
    <3>3. req'[q].id \in 1..client'.submitted
      BY <1>0, <3>1
    <3> QED
      BY <1>4, <1>5, <3>1, <3>2, <3>3 DEF Counted, Middle, Asking
  <2>2. CASE Rests(q) /\ req[q].pc # "free"
    <3>1. Counted(q) /\ Mine(q)' = Mine(q)
      BY <1>0, <2>2 DEF CountInv, Mine, Rests
    <3>2. Asked(req'[q]) = Asked(req[q])
      BY <2>2 DEF Asked, Rests
    <3>3. req'[q].id \in 1..client'.submitted
      BY <1>0, <2>2, <3>1 DEF Counted, Rests
    <3>4. (req[q].pc \in Middle \cup {"token"} /\ NeedsUpload(req[q].turn) => req[q].uploaded)'
      BY <2>2, <3>1 DEF Counted, Rests, NeedsUpload
    <3>5. /\ req'[q].pc \in Before \cup {"start"} => Mine(q)' = {}
          /\ req'[q].pc \in Asking => Cardinality(Mine(q)') <= Asked(req'[q])
          /\ \A n \in Mine(q)' : posts'[n].repair <=> \E m \in Mine(q)' : m < n
      BY <1>0, <2>2, <3>1, <3>2 DEF Counted, Rests
    <3> QED
      BY <1>4, <1>5, <3>3, <3>4, <3>5 DEF Counted
  <2> QED
    BY <1>2, <1>5, <2>1, <2>2
<1> QED
  BY <1>1, <1>5 DEF CountInv

LEMMA LosesCount == ASSUME CountInv, Loses PROVE CountInv'
<1>1. /\ posts' = posts /\ client'.submitted = client.submitted
      /\ \A q \in Reqs : req'[q].pc # "free" => \A p \in Reqs : Rests(p)
  BY DEF Loses, NoRequest
<1>2. ASSUME NEW q \in Reqs, req'[q].pc # "free" PROVE Counted(q)'
  <2>1. Counted(q) /\ Mine(q)' = Mine(q) /\ \A p \in Reqs : Rests(p)
    BY <1>1, <1>2 DEF CountInv, Mine, Rests
  <2>2. Asked(req'[q]) = Asked(req[q])
    BY <2>1 DEF Asked, Rests
  <2>3. (req[q].pc \in Middle \cup {"token"} /\ NeedsUpload(req[q].turn) => req[q].uploaded)'
    BY <2>1 DEF Counted, Rests, NeedsUpload
  <2>4. /\ req'[q].id \in 1..client'.submitted
        /\ \A p \in Reqs : req'[p].pc # "free" /\ req'[p].id = req'[q].id => p = q
        /\ req'[q].pc \in Before \cup {"start"} => Mine(q)' = {}
        /\ req'[q].pc \in Asking => Cardinality(Mine(q)') <= Asked(req'[q])
        /\ \A n \in Mine(q)' : posts'[n].repair <=> \E m \in Mine(q)' : m < n
    BY <1>1, <2>1, <2>2 DEF Counted, Rests
  <2> QED
    BY <2>3, <2>4 DEF Counted
<1> QED
  BY <1>1, <1>2 DEF CountInv

LEMMA StepCount == ExecutorInv /\ ForwardInv /\ CountInv /\ [Next]_vars => CountInv'
<1> SUFFICES ASSUME ExecutorInv, ForwardInv, CountInv, [Next]_vars PROVE CountInv'
  OBVIOUS
<1>1. CASE UNCHANGED vars
  BY <1>1 DEF vars, CountInv, Counted, Mine, NeedsUpload, Asked
<1> QED
  BY <1>1, Steps, ServeCount, ClientCount, LosesCount DEF ExecutorInv, ForwardInv

LEMMA InitCount == Init => CountInv
BY DEF Init, CountInv, NoRequest

\* Before its last event a request has shown none of the terminal ones.
LEMMA NotEnded ==
    ASSUME NEW x \in Request, Phase(x), x.pc \in Middle
    PROVE  ToSet(Shown(x)) \cap Terminal = {}
<1>1. Shown(x) \in Seq(Event) /\ OpenTo(Shown(x), Len(Shown(x)))
  BY Cat DEF Shown, Request, Phase
<1> QED
  BY <1>1 DEF OpenTo, ToSet, Terminal

\* A request posts while it holds the session, before its terminal event, with
\* its images on the drive, once for its turn and at most
\* maxToolCallRepairAttempts times to repair it (executor.go:311-315,
\* tool_retry.go:26).
THEOREM Posting == Spec => PostsInOrder
<1> DEFINE A == posts' # posts =>
          \E r \in Reqs :
              LET mine == {n \in DOMAIN posts' : posts'[n].id = req[r].id}
              IN  /\ Len(posts') \in mine
                  /\ Holds(r)
                  /\ ToSet(Offered(r)) \cap Terminal = {}
                  /\ NeedsUpload(req[r].turn) => req[r].uploaded
                  /\ Cardinality(mine) <= 1 + maxToolCallRepairAttempts
                  /\ \A n \in mine : posts'[n].repair <=> \E m \in mine : m < n
<1>1. ExecutorInv /\ ForwardInv /\ CountInv /\ [Next]_vars => [A]_vars
  <2> SUFFICES ASSUME ExecutorInv, ForwardInv, CountInv, [Next]_vars, posts' # posts
               PROVE  A
    BY DEF vars
  <2>1. PICK r \in Reqs : Posts(r)
    BY Steps DEF ForwardInv, Serves, Takes, Opens, GivesUp, Leaves, Moves, ClientMoves, Loses, vars
  <2> DEFINE mine == {n \in DOMAIN posts' : posts'[n].id = req[r].id}
  <2>2. /\ CountInv' /\ Cardinality(Mine(r)') <= 1 + maxToolCallRepairAttempts
        /\ Len(posts') \in Mine(r)'
    BY <2>1, PostsCount
  <2>3. mine = Mine(r)'
    BY <2>1 DEF Mine, Posts, Same
  <2>4. req[r].pc \in {"chat", "repair"} /\ req'[r].pc # "free"
    BY <2>1 DEF Posts
  <2>5. Holds(r) /\ Counted(r) /\ Counted(r)'
    BY <2>2, <2>4 DEF Holds, CountInv
  <2>6. NeedsUpload(req[r].turn) => req[r].uploaded
    BY <2>4, <2>5 DEF Counted, Middle
  <2>7. \A n \in Mine(r)' : posts'[n].repair <=> \E m \in Mine(r)' : m < n
    BY <2>5 DEF Counted
  <2>8. ToSet(Offered(r)) \cap Terminal = {}
    BY <2>4, NotEnded, Typed DEF ExecutorInv, Middle, Shown, Offered
  <2> HIDE DEF mine
  <2>9. /\ Len(posts') \in mine /\ Cardinality(mine) <= 1 + maxToolCallRepairAttempts
        /\ \A n \in mine : posts'[n].repair <=> \E m \in mine : m < n
    BY <2>2, <2>3, <2>7
  <2> QED
    BY <2>5, <2>6, <2>8, <2>9 DEF mine
<1>2. Spec => [](ExecutorInv /\ ForwardInv /\ CountInv)
  BY AlwaysForward, InitCount, StepCount, PTL DEF Spec
<1> QED
  BY <1>1, <1>2, PTL DEF Spec, PostsInOrder

-----------------------------------------------------------------------------
(* The promise of Turns is kept.                                           *)

\* While it listens to the upstream, a request has told its turn to the
\* session's conversation: a repair can only repeat it.
ToldInv ==
    \A r \in Reqs : req[r].pc \in Asking =>
        \E n \in DOMAIN posts : posts[n].conv = session.conversationID
                                /\ posts[n].items = req[r].turn

LEMMA StillTold ==
    ASSUME TypeOK, NEW r \in Reqs, Serves(r), NEW c, NEW items,
           \E n \in DOMAIN posts : posts[n].conv = c /\ posts[n].items = items
    PROVE  \E n \in DOMAIN posts' : posts'[n].conv = c /\ posts'[n].items = items
<1>1. PICK n \in DOMAIN posts : posts[n].conv = c /\ posts[n].items = items
  OBVIOUS
<1>2. CASE Posts(r)
  <2>1. PICK repair \in BOOLEAN : Accept(r, repair)
    BY <1>2 DEF Posts
  <2>2. PICK p \in Post :
           /\ Len(posts) \in Nat /\ DOMAIN posts = 1..Len(posts)
           /\ Len(posts') = Len(posts) + 1 /\ DOMAIN posts' = 1..(Len(posts) + 1)
           /\ \A k \in DOMAIN posts : posts'[k] = posts[k]
    BY <2>1, OnePost
  <2> QED
    BY <1>1, <2>2
<1>3. CASE posts' = posts
  BY <1>1, <1>3
<1> QED
  BY <1>2, <1>3 DEF Serves, Takes, Posts, Opens, GivesUp, Leaves, Moves

LEMMA ServeTold ==
    ASSUME ExecutorInv, HolderInv, ToldInv, NEW r \in Reqs, Serves(r)
    PROVE  ToldInv'
<1>0. TypeOK /\ Same(r)
  BY DEF ExecutorInv, Serves, Takes, Posts, Opens, GivesUp, Leaves, Moves
<1>1. ASSUME NEW q \in Reqs \ {r}, req'[q].pc \in Asking
      PROVE  \E n \in DOMAIN posts' : posts'[n].conv = session'.conversationID
                                      /\ posts'[n].items = req'[q].turn
  <2>1. req'[q] = req[q] /\ req[q].pc \in Asking
    BY <1>0, <1>1 DEF Same
  <2>2. Holds(q) /\ InStep(q)
    BY <2>1 DEF Holds, Asking, HolderInv
  <2>3. ~Takes(r) /\ ~Opens(r)
    BY <2>2 DEF Takes, Opens, InStep, Holds
  <2>4. session'.conversationID = session.conversationID
    <3>1. session \in Session
      BY <1>0, Typed
    <3> QED
      BY <2>3, <3>1 DEF Serves, Posts, GivesUp, Leaves, Moves, Session
  <2> QED
    BY <1>0, <2>1, <2>4, StillTold DEF ToldInv
<1>2. ASSUME req'[r].pc \in Asking
      PROVE  \E n \in DOMAIN posts' : posts'[n].conv = session'.conversationID
                                      /\ posts'[n].items = req'[r].turn
  <2>1. Posts(r) \/ Moves(r)
    BY <1>2 DEF Serves, Takes, Opens, GivesUp, Leaves, Asking
  <2>2. session' = session /\ req'[r].turn = req[r].turn
    BY <2>1 DEF Posts, Moves
  <2>3. CASE req[r].pc \in Asking
    BY <1>0, <2>2, <2>3, StillTold DEF ToldInv
  <2>4. CASE req[r].pc \notin Asking
    <3>1. Posts(r) /\ Accept(r, FALSE)
      BY <1>2, <2>1, <2>4 DEF Posts, Moves, Asking, After
    <3>2. PICK p \in Post :
             /\ p.conv = session.conversationID /\ p.items = req[r].turn
             /\ Len(posts) \in Nat /\ DOMAIN posts' = 1..(Len(posts) + 1)
             /\ posts'[Len(posts) + 1] = p
      BY <1>0, <3>1, OnePost
    <3>3. Len(posts) + 1 \in DOMAIN posts'
      BY <3>2
    <3> QED
      BY <2>2, <3>2, <3>3
  <2> QED
    BY <2>3, <2>4
<1> QED
  BY <1>1, <1>2 DEF ToldInv

LEMMA StepTold == ExecutorInv /\ ForwardInv /\ ToldInv /\ [Next]_vars => ToldInv'
<1> SUFFICES ASSUME ExecutorInv, ForwardInv, ToldInv, [Next]_vars PROVE ToldInv'
  OBVIOUS
<1>1. ASSUME NEW h, NEW r, ClientMoves(h, r) PROVE ToldInv'
  <2>1. ASSUME NEW q \in Reqs, req'[q].pc \in Asking
        PROVE  req[q].pc \in Asking /\ req'[q].turn = req[q].turn
    BY <1>1, <2>1 DEF ClientMoves, Rests, Frees, Begins, NoRequest, Asking
  <2> QED
    BY <1>1, <2>1 DEF ClientMoves, ToldInv
<1>2. ASSUME Loses PROVE ToldInv'
  <2>1. ASSUME NEW q \in Reqs, req'[q].pc \in Asking PROVE FALSE
    <3>1. ~session.inFlight /\ req[q].pc \in Asking
      BY <1>2, <2>1 DEF Loses, Rests, NoRequest, Asking
    <3> QED
      BY <3>1 DEF ForwardInv, HolderInv, InStep, Holds, Asking
  <2> QED
    BY <2>1 DEF ToldInv
<1>3. CASE UNCHANGED vars
  BY <1>3 DEF vars, ToldInv
<1> QED
  BY <1>1, <1>2, <1>3, Steps, ServeTold DEF ForwardInv

LEMMA InitTold == Init => ToldInv
BY DEF Init, ToldInv, NoRequest, Asking

\* What the client is told fits the point where the request is.
ReplyTo(x) ==
    LET told == ToSet(Shown(x))
    IN  IF x.pc = "free" THEN "none"
        ELSE IF told \cap Terminal = {} THEN "open"
        ELSE IF "completed" \in told THEN "completed" ELSE "failed"

LEMMA RepliesTo == \A r \in Reqs : Reply(r) = ReplyTo(req[r]) /\ Reply(r)' = ReplyTo(req'[r])
BY DEF Reply, ReplyTo, Offered, Shown

LEMMA ReplyAt ==
    ASSUME NEW x \in Request, Phase(x)
    PROVE  /\ x.pc = "free" => ReplyTo(x) = "none"
           /\ x.pc \in (Early \ {"free"}) \cup Middle => ReplyTo(x) = "open"
           /\ x.pc \in Late => ReplyTo(x) = IF Completes(x) THEN "completed" ELSE "failed"
<1>1. CASE x.pc = "free"
  BY <1>1 DEF ReplyTo, Early, Middle, Late
<1>2. CASE x.pc \in Early \ {"free"}
  <2>1. Shown(x) = <<>> \o <<>> \o <<>>
    BY <1>2 DEF Phase, Shown
  <2>2. ToSet(Shown(x)) = {}
    BY <2>1 DEF ToSet
  <2> QED
    BY <1>2, <2>2 DEF ReplyTo, Early, Middle, Late
<1>3. CASE x.pc \in Middle
  <2>1. ToSet(Shown(x)) \cap Terminal = {}
    BY <1>3, NotEnded
  <2> QED
    BY <1>3, <2>1 DEF ReplyTo, Early, Middle, Late
<1>4. CASE x.pc \in Late
  <2>1. PICK m \in 0..Len(Shown(x)) :
           \/ Len(Shown(x)) = m + 1 /\ Shown(x)[m + 1] \in {"failed", "error"}
           \/ Len(Shown(x)) >= m + 2 /\ Shown(x)[Len(Shown(x))] = "completed"
    BY <1>4 DEF Phase, Ended
  <2>2. Shown(x) \in Seq(Event)
    BY DEF Shown, Request
  <2>3. Len(Shown(x)) \in DOMAIN Shown(x) /\ Shown(x)[Len(Shown(x))] \in Terminal
    BY <2>1, <2>2 DEF Terminal
  <2>4. ToSet(Shown(x)) \cap Terminal # {}
    BY <2>3 DEF ToSet
  <2> QED
    BY <1>4, <2>4 DEF ReplyTo, Completes, Late, Early, Middle
<1> QED
  BY <1>1, <1>2, <1>3, <1>4 DEF Request, Points, Early, Middle, Late

\* Once it has ended, the deferred calls and the channel change nothing of it.
LEMMA LateSteps ==
    ASSUME Requests, NEW r \in Reqs, req[r].pc \in Late, Serve(r) \/ Receive(r)
    PROVE  req'[r].pc \in Late /\ Shown(req'[r]) = Shown(req[r])
<1> DEFINE x == req[r]
<1>0. x \in Request /\ Phase(x) /\ req \in [Reqs -> Request]
  BY DEF Requests
<1>1. Cleanup(r) \/ Release(r) \/ Close(r) \/ SendChunk(r) \/ Receive(r)
  BY DEF Serve, Refuse, Prepare, Upload, UploadFails, Token, TokenFails, Converse, ConverseFails,
         Chat, ChatFails, Snapshot, ToolCalls, StreamEnds, Repair, RepairFails, RepairStreamEnds,
         RepairSucceeds, RepairGivesUp, At, Late
<1>2. CASE Cleanup(r) \/ Release(r)
  <2>1. /\ req'[r].recv = x.recv /\ req'[r].chan = x.chan /\ req'[r].out = x.out
        /\ req'[r].pc \in {"release", "close"}
    <3>1. CASE Cleanup(r)
      BY <1>0, <3>1 DEF Cleanup, Request
    <3>2. CASE Release(r)
      BY <1>0, <3>2 DEF Release, Request
    <3> QED
      BY <1>2, <3>1, <3>2
  <2> QED
    BY <2>1 DEF Shown, Late
<1>3. CASE Close(r)
  <2>1. /\ x.pc = "close" /\ req'[r].pc = "done" /\ req'[r].out = <<>>
        /\ req'[r].chan = x.chan
        /\ req'[r].recv = IF x.mode = "stream" THEN x.recv ELSE x.out
        /\ x.mode = "stream" => x.out = <<>>
    BY <1>0, <1>3 DEF Close, At, Streams, Request
  <2>2. CASE x.mode = "stream"
    BY <2>1, <2>2 DEF Shown, Late
  <2>3. CASE x.mode # "stream"
    <3>1. x.recv = <<>> /\ x.chan = <<>> /\ x.out \in Seq(Event)
      BY <1>0, <2>1, <2>3 DEF Phase, Request
    <3>2. \A a \in Seq(Event) : <<>> \o <<>> \o a = a /\ a \o <<>> \o <<>> = a
      OBVIOUS
    <3> QED
      BY <2>1, <2>3, <3>1, <3>2 DEF Shown, Late
  <2> QED
    BY <2>2, <2>3
<1>4. CASE SendChunk(r) \/ Receive(r)
  <2>1. PICK y \in Request :
           /\ req' = [req EXCEPT ![r] = y]
           /\ y.pc = x.pc /\ y.mode = x.mode /\ y.attempt = x.attempt
           /\ \/ /\ x.out # <<>> /\ x.mode = "stream" /\ y.recv = x.recv
                 /\ y.chan = Append(x.chan, Head(x.out)) /\ y.out = Tail(x.out)
              \/ /\ x.chan # <<>> /\ y.out = x.out
                 /\ y.recv = Append(x.recv, Head(x.chan)) /\ y.chan = Tail(x.chan)
    BY <1>4, ChannelStep
  <2>2. Shown(y) = Shown(x)
    BY <1>0, <2>1, Transport
  <2> QED
    BY <1>0, <2>1, <2>2
<1> QED
  BY <1>1, <1>2, <1>3, <1>4

\* What becomes of the reply in a step of a request.
LEMMA Outcome ==
    ASSUME ExecutorInv, NEW r \in Reqs, Serve(r) \/ Receive(r), ExecutorInv'
    PROVE  /\ req[r].pc \in Late => req'[r].pc \in Late /\ Reply(r)' = Reply(r)
           /\ req[r].pc \in Asking /\ req'[r].pc \in Late => Reply(r)' = "completed"
           /\ req[r].pc \notin Asking \cup Late /\ req'[r].pc \in Late => Reply(r)' = "failed"
           /\ req[r].pc = "start" /\ req'[r].pc = "done" => session.inFlight
<1> DEFINE x == req[r]
           z == req'[r]
<1>0. /\ Requests /\ x \in Request /\ Phase(x) /\ z \in Request /\ Phase(z)
      /\ session.processedInputLen \in Nat /\ req \in [Reqs -> Request]
  <2>1. /\ req \in [Reqs -> Request] /\ \A q \in Reqs : Phase(req[q])
        /\ session.processedInputLen \in Nat
    BY Typed DEF ExecutorInv, Session
  <2>2. req' \in [Reqs -> Request] /\ \A q \in Reqs : Phase(req'[q])
    BY DEF ExecutorInv, TypeOK, Request
  <2> QED
    BY <2>1, <2>2 DEF Requests
<1>1. ASSUME x.pc \in Late PROVE z.pc \in Late /\ Reply(r)' = Reply(r)
  <2>1. z.pc \in Late /\ Shown(z) = Shown(x)
    BY <1>0, <1>1, LateSteps
  <2>2. x.pc # "free" /\ z.pc # "free"
    BY <1>1, <2>1 DEF Late
  <2> QED
    BY <2>1, <2>2, RepliesTo DEF ReplyTo
<1>2. ASSUME x.pc \in Asking, z.pc \in Late PROVE Reply(r)' = "completed"
  <2>1. ToolCalls(r) \/ StreamEnds(r) \/ RepairSucceeds(r) \/ RepairGivesUp(r)
    <3>1. ~SendChunk(r) /\ ~Receive(r)
      BY <1>0, <1>2, ZenonT(60) DEF SendChunk, Receive, Request, Asking, Late
    <3>2. ~Snapshot(r) /\ ~RepairFails(r)
      <4>1. Snapshot(r) \/ RepairFails(r) => z.pc = x.pc
        <5>1. CASE Snapshot(r)
          <6>1. PICK c, d : req' = [req EXCEPT ![r].snapshots = @ + 1, ![r].saw = @ \/ c,
                                               ![r].out = d]
            BY <5>1 DEF Snapshot
          <6> QED
            BY <1>0, <6>1 DEF Request
        <5>2. CASE RepairFails(r)
          BY <1>0, <5>2 DEF RepairFails, Request
        <5> QED
          BY <5>1, <5>2
      <4> QED
        BY <1>2, <4>1 DEF Asking, Late
    <3>3. ~Repair(r) /\ ~RepairStreamEnds(r)
      <4>1. CASE Repair(r)
        <5>1. req' = [req EXCEPT ![r].pc = "repairStream"]
          BY <4>1 DEF Repair
        <5>2. z.pc = "repairStream"
          BY <1>0, <5>1 DEF Request
        <5> QED
          BY <1>2, <5>2 DEF Late
      <4>2. CASE RepairStreamEnds(r)
        <5>1. req' = [req EXCEPT ![r].attempt = @ + 1, ![r].pc = "repair"]
          BY <4>2 DEF RepairStreamEnds
        <5>2. z.pc = "repair"
          BY <1>0, <5>1 DEF Request
        <5> QED
          BY <1>2, <5>2 DEF Late
      <4> QED
        BY <4>1, <4>2
    <3>4. /\ ~Refuse(r) /\ ~Prepare(r) /\ ~Upload(r) /\ ~UploadFails(r) /\ ~Token(r)
          /\ ~TokenFails(r) /\ ~Converse(r) /\ ~ConverseFails(r) /\ ~Chat(r) /\ ~ChatFails(r)
          /\ ~Cleanup(r) /\ ~Release(r) /\ ~Close(r)
      BY <1>2 DEF Refuse, Prepare, Upload, UploadFails, Token, TokenFails, Converse,
                  ConverseFails, Chat, ChatFails, Cleanup, Release, Close, At, Asking
    <3> QED
      BY <3>1, <3>2, <3>3, <3>4 DEF Serve
  <2>2. z.recv = x.recv /\ z.chan = x.chan /\ IsAnswer(z.out)
    <3>1. CASE ToolCalls(r) \/ RepairSucceeds(r) \/ RepairGivesUp(r)
      <4>1. PICK items \in Calls \cup {Message} :
               req' = [req EXCEPT ![r].out = Answer(items), ![r].pc = Deferred(r)]
        BY <3>1 DEF ToolCalls, RepairSucceeds, RepairGivesUp
      <4>2. IsAnswer(Answer(items))
        BY AnswerForm
      <4> HIDE DEF z, x
      <4>3. req'[r].out = Answer(items) /\ req'[r].recv = req[r].recv /\ req'[r].chan = req[r].chan
        BY <1>0, <4>1 DEF Request, x
      <4> QED
        BY <4>2, <4>3 DEF z, x
    <3>2. CASE StreamEnds(r)
      <4>1. z.pc # "repair"
        BY <1>2 DEF Late
      <4>2. z.recv = x.recv /\ z.chan = x.chan /\ z.out = Answer(Message)
        BY <1>0, <3>2, <4>1 DEF StreamEnds, Request
      <4> QED
        BY <4>2, AnswerForm
    <3> QED
      BY <2>1, <3>1, <3>2
  <2>3. x.out = <<>>
    <3>1. x.mode \in {"stream", "sync"} /\ x.pc \in Middle
      BY <1>0, <1>2 DEF Request, Asking, Middle
    <3> QED
      BY <1>0, <2>1, <3>1
         DEF Phase, At, ToolCalls, StreamEnds, RepairSucceeds, RepairGivesUp
  <2>4. Shown(z) = Shown(x) \o z.out /\ Shown(x) \in Seq(Event) /\ z.out \in Seq(Event)
    BY <1>0, <2>2, <2>3, ShownThen DEF Request
  <2>5. "completed" \in ToSet(z.out)
    <3>1. Len(z.out) \in DOMAIN z.out /\ z.out[Len(z.out)] = "completed"
      BY <2>2, <2>4 DEF IsAnswer
    <3> QED
      BY <3>1 DEF ToSet
  <2>6. Completes(z)
    BY <2>4, <2>5, SetOfCat DEF Completes
  <2> QED
    BY <1>0, <1>2, <2>6, ReplyAt, RepliesTo
<1>3. ASSUME x.pc \notin Asking \cup Late, z.pc \in Late PROVE Reply(r)' = "failed"
  <2>1. PICK y : Becomes(r, y)
    BY <1>0, ServeStep
  <2>2. z = y
    BY <1>0, <2>1 DEF Becomes
  <2>3. x.pc \in Early \cup Middle
    BY <1>0, <1>3 DEF Request, Points, Early, Middle, Late
  <2>4. ~Completes(z)
    BY <1>0, <1>3, <2>1, <2>2, <2>3, NotCompleted DEF Becomes
  <2> QED
    BY <1>0, <1>3, <2>4, ReplyAt, RepliesTo
<1>4. ASSUME x.pc = "start", z.pc = "done" PROVE session.inFlight
  <2>1. x.out = <<>> /\ x.chan = <<>>
    BY <1>0, <1>4 DEF Phase, Early
  <2>2. Refuse(r) \/ Prepare(r)
    BY <1>4, <2>1
       DEF Serve, Refuse, Prepare, Upload, UploadFails, Token, TokenFails, Converse,
           ConverseFails, Chat, ChatFails, Snapshot, ToolCalls, StreamEnds, Repair,
           RepairFails, RepairStreamEnds, RepairSucceeds, RepairGivesUp, Cleanup, Release,
           Close, SendChunk, Receive, At
  <2>3. ~Prepare(r)
    BY <1>0, <1>4 DEF Prepare, Request
  <2> QED
    BY <2>2, <2>3 DEF Refuse
<1> QED
  BY <1>1, <1>2, <1>3, <1>4

\* What the promise sees when nothing but request r moves.
LEMMA Mapped ==
    ASSUME NEW r \in Reqs, \A q \in Reqs \ {r} : req'[q] = req[q]
    PROVE  /\ Replies' = [Replies EXCEPT ![r] = Reply(r)']
           /\ Reply(r)' = Reply(r) => Replies' = Replies
           /\ Holders' = IF Holds(r)' THEN Holders \cup {r} ELSE Holders \ {r}
           /\ posts' = posts /\ req'[r].id = req[r].id /\ (req'[r].pc = "free" <=> req[r].pc = "free")
                 => Asks' = Asks
<1>1. Replies' = [q \in Reqs |-> ReplyTo(req'[q])] /\ Reply(r)' = ReplyTo(req'[r])
  BY DEF Replies, Reply, ReplyTo, Offered, Shown
<1>2. Replies = [q \in Reqs |-> ReplyTo(req[q])]
  BY DEF Replies, Reply, ReplyTo, Offered, Shown
<1>3. /\ Replies' = [Replies EXCEPT ![r] = Reply(r)']
      /\ Reply(r)' = Reply(r) => Replies' = Replies
  <2>1. Reply(r) = ReplyTo(req[r])
    BY RepliesTo
  <2> QED
    BY <1>1, <1>2, <2>1
<1>4. Holders' = IF Holds(r)' THEN Holders \cup {r} ELSE Holders \ {r}
  BY DEF Holders, Holds
<1>5. ASSUME posts' = posts, req'[r].id = req[r].id, req'[r].pc = "free" <=> req[r].pc = "free"
      PROVE  Asks' = Asks
  <2>1. \A q \in Reqs : req'[q].id = req[q].id /\ (req'[q].pc = "free" <=> req[q].pc = "free")
    BY <1>5
  <2> QED
    BY <1>5, <2>1 DEF Asks
<1> QED
  BY <1>3, <1>4, <1>5

LEMMA ReplyNext ==
    ASSUME ExecutorInv', NEW r \in Reqs
    PROVE  /\ req'[r].pc \in (Early \ {"free"}) \cup Middle => Reply(r)' = "open"
           /\ req'[r].pc = "free" => Reply(r)' = "none"
<1>1. req'[r] \in Request /\ Phase(req'[r])
  BY DEF ExecutorInv, TypeOK, Request
<1> QED
  BY <1>1, ReplyAt, RepliesTo

TurnsInv == ExecutorInv /\ ForwardInv /\ CountInv /\ ToldInv

\* The state of the promise, as far as one request is concerned.
LEMMA Seen ==
    ASSUME TurnsInv, NEW r \in Reqs
    PROVE  /\ Replies[r] = Reply(r)
           /\ Asks[r] = IF req[r].pc = "free" THEN 0 ELSE Cardinality(Mine(r))
           /\ Holds(r) => Holders = {r} /\ session.inFlight
           /\ ~Holds(r) => r \notin Holders
           /\ session.inFlight <=> Holders # {}
           /\ req[r].pc \in (Early \ {"free"}) \cup Middle => Reply(r) = "open"
           /\ req[r].pc \in Late => Reply(r) \in {"completed", "failed"}
           /\ req[r].pc = "free" => Reply(r) = "none"
           /\ req[r].pc \in Before \cup {"start"} => Asks[r] = 0
           /\ req[r].pc \in Asking => Asks[r] \in Nat /\ Asks[r] > 0 /\ Asks[r] <= Asked(req[r])
<1>0. /\ req[r] \in Request /\ Phase(req[r]) /\ TypeOK
  BY Typed DEF TurnsInv, ExecutorInv
<1>1. Replies[r] = Reply(r) /\ Reply(r) = ReplyTo(req[r])
  BY RepliesTo DEF Replies
<1>2. Asks[r] = IF req[r].pc = "free" THEN 0 ELSE Cardinality(Mine(r))
  BY DEF Asks, Mine
<1>3. /\ Holds(r) => Holders = {r} /\ session.inFlight
      /\ ~Holds(r) => r \notin Holders
      /\ session.inFlight <=> Holders # {}
  BY DEF TurnsInv, ExecutorInv, HeldInv, ForwardInv, HolderInv, InStep, Holders
<1>4. /\ req[r].pc \in (Early \ {"free"}) \cup Middle => Reply(r) = "open"
      /\ req[r].pc \in Late => Reply(r) \in {"completed", "failed"}
      /\ req[r].pc = "free" => Reply(r) = "none"
  BY <1>0, <1>1, ReplyAt
<1>5. IsFiniteSet(Mine(r)) /\ Cardinality(Mine(r)) \in Nat
  BY <1>0, MineFinite
<1>6. ASSUME req[r].pc \in Before \cup {"start"} PROVE Asks[r] = 0
  <2>1. Mine(r) = {}
    BY <1>6 DEF TurnsInv, CountInv, Counted, Before
  <2> QED
    BY <1>2, <2>1, FS_EmptySet
<1>7. ASSUME req[r].pc \in Asking
      PROVE  Asks[r] \in Nat /\ Asks[r] > 0 /\ Asks[r] <= Asked(req[r])
  <2>1. Asks[r] = Cardinality(Mine(r)) /\ Asks[r] <= Asked(req[r])
    BY <1>2, <1>7 DEF TurnsInv, CountInv, Counted, Asking
  <2>2. Mine(r) # {}
    BY <1>7 DEF TurnsInv, ExecutorInv, PostInv, Mine
  <2>3. Cardinality(Mine(r)) # 0
    BY <1>5, <2>2, FS_EmptySet
  <2> QED
    BY <1>5, <2>1, <2>3
<1> QED
  BY <1>1, <1>2, <1>3, <1>4, <1>6, <1>7

LEMMA TakesTurn ==
    ASSUME TurnsInv, TurnsInv', NEW r \in Reqs, Takes(r)
    PROVE  Promise!Take(r)
<1>1. /\ \A q \in Reqs \ {r} : req'[q] = req[q]
      /\ posts' = posts /\ convs' = convs /\ req'[r].id = req[r].id
      /\ req[r].pc = "start" /\ ~session.inFlight /\ req'[r].pc \in {"upload", "token"}
      /\ session'.conversationID \in {session.conversationID, 0}
  BY DEF Takes, Same, NoConv
<1>2. Replies[r] = "open" /\ Reply(r) = "open" /\ Holders = {}
  BY <1>1, Seen DEF Early
<1>3. Reply(r)' = "open"
  BY <1>1, ReplyNext DEF TurnsInv, Early
<1>4. Replies' = Replies /\ Holders' = {r} /\ Asks' = Asks
  <2>1. Holds(r)'
    BY <1>1 DEF Holds
  <2> QED
    BY <1>1, <1>2, <1>3, <2>1, Mapped
<1> QED
  BY <1>1, <1>2, <1>4 DEF Promise!Take

\* One more post, as the promise sees it.
LEMMA PostAdds ==
    ASSUME TurnsInv, NEW r \in Reqs, Posts(r), NEW repair \in BOOLEAN, Accept(r, repair)
    PROVE  /\ Promise!Adds(repair)
           /\ posts'[Len(posts')].items = IF repair THEN Outputs(req[r].turn) ELSE req[r].turn
           /\ Asks' = [Asks EXCEPT ![r] = Asks[r] + 1]
<1>0. TypeOK /\ CountInv /\ req[r].pc \in {"chat", "repair"} /\ req'[r].pc # "free"
      /\ \A q \in Reqs \ {r} : req'[q] = req[q]
  BY DEF TurnsInv, ExecutorInv, Posts, Same
<1>1. PICK p \in Post :
         /\ p.conv = session.conversationID /\ p.repair = repair
         /\ p.items = IF repair THEN Outputs(req[r].turn) ELSE req[r].turn
         /\ Len(posts) \in Nat /\ Len(posts') = Len(posts) + 1
         /\ posts'[Len(posts) + 1] = p
         /\ \A n \in DOMAIN posts : posts'[n] = posts[n]
  BY <1>0, OnePost
<1>2. session.conversationID # 0
  BY <1>0 DEF TurnsInv, ForwardInv, HolderInv, InStep, Holds, NoConv
<1>3. Promise!Adds(repair)
  BY <1>1, <1>2 DEF Promise!Adds, Promise!Latest
<1>4. /\ Cardinality(Mine(r)') = Cardinality(Mine(r)) + 1
      /\ \A q \in Reqs \ {r} : req[q].pc # "free" => Mine(q)' = Mine(q)
  BY <1>0, MinePosted
<1>5. Asks = [q \in Reqs |-> IF req[q].pc = "free" THEN 0 ELSE Cardinality(Mine(q))]
  BY DEF Asks, Mine
<1>6. Asks' = [q \in Reqs |-> IF req'[q].pc = "free" THEN 0
                              ELSE Cardinality({n \in DOMAIN posts' : posts'[n].id = req'[q].id})]
  BY DEF Asks
<1>8. ASSUME NEW q \in Reqs \ {r}
      PROVE  Asks'[q] = Asks[q]
  <2>1. req'[q] = req[q] /\ (req[q].pc # "free" => Mine(q)' = Mine(q))
    BY <1>0, <1>4
  <2>2. Mine(q)' = {n \in DOMAIN posts' : posts'[n].id = req'[q].id}
    BY DEF Mine
  <2> QED
    BY <1>5, <1>6, <2>1, <2>2
<1>9. Asks'[r] = Asks[r] + 1
  <2>1. Mine(r)' = {n \in DOMAIN posts' : posts'[n].id = req'[r].id}
    BY DEF Mine
  <2> QED
    BY <1>0, <1>4, <1>5, <1>6, <2>1
<1>10. Asks' = [Asks EXCEPT ![r] = Asks[r] + 1]
  <2>1. DOMAIN Asks = Reqs /\ DOMAIN Asks' = Reqs /\ Asks' = [q \in Reqs |-> Asks'[q]]
    BY <1>5, <1>6
  <2> QED
    BY <1>5, <1>8, <1>9, <2>1
<1> QED
  BY <1>1, <1>3, <1>10

LEMMA PostsTurn ==
    ASSUME TurnsInv, TurnsInv', NEW r \in Reqs, Posts(r), Serve(r) \/ Receive(r)
    PROVE  Promise!Post(r) \/ Promise!Repair(r)
<1>0. /\ \A q \in Reqs \ {r} : req'[q] = req[q]
      /\ req[r].pc \in {"chat", "repair"}
      /\ req'[r].pc \in {"stream", "cleanup", "release", "repair", "repairStream"}
      /\ UNCHANGED <<session, convs>>
  BY DEF Posts, Same
<1>1. PICK repair \in BOOLEAN : Accept(r, repair) /\ (repair <=> req[r].pc = "repair")
  BY DEF Posts
<1>2. /\ Promise!Adds(repair)
      /\ posts'[Len(posts')].items = IF repair THEN Outputs(req[r].turn) ELSE req[r].turn
      /\ Asks' = [Asks EXCEPT ![r] = Asks[r] + 1]
  BY <1>1, PostAdds
<1>3. /\ Holders = {r} /\ Replies[r] = "open" /\ Reply(r) = "open"
  BY <1>0, Seen DEF Holds, Middle
<1>4. Promise!Speaks(r)
  BY <1>3 DEF Promise!Speaks
<1>5. Holders' = Holders
  <2>1. Holds(r)'
    BY <1>0 DEF Holds
  <2> QED
    BY <1>0, <1>3, <2>1, Mapped
<1>6. Replies' = [Replies EXCEPT ![r] = Reply(r)'] /\ (Reply(r)' = Reply(r) => Replies' = Replies)
  BY <1>0, Mapped
<1>7. CASE req[r].pc = "chat"
  <2>1. Asks[r] = 0 /\ repair = FALSE
    <3>1. Asks[r] = 0
      BY <1>7, Seen DEF Before
    <3>2. repair = FALSE
      BY <1>1, <1>7, Zenon
    <3> QED
      BY <3>1, <3>2
  <2>2. Reply(r)' \in {"open", "failed"}
    <3>1. CASE req'[r].pc \in Late
      BY <1>7, <3>1, Outcome DEF TurnsInv, Asking, Late
    <3>2. CASE req'[r].pc \notin Late
      BY <1>0, <3>2, ReplyNext DEF TurnsInv, Middle, Late
    <3> QED
      BY <3>1, <3>2
  <2>3. posts'[Len(posts')].items \cap Promise!Told = {}
    <3>1. posts'[Len(posts')].items = req[r].turn
      BY <1>2, <2>1
    <3>2. \A n \in DOMAIN posts :
             posts[n].conv = session.conversationID => posts[n].items \cap req[r].turn = {}
      BY <1>7 DEF TurnsInv, ForwardInv, SentInv, Sent, Before
    <3> QED
      BY <3>1, <3>2 DEF Promise!Told
  <2>4. Promise!Adds(FALSE) /\ Asks' = [Asks EXCEPT ![r] = 1]
    <3>1. Promise!Adds(FALSE)
      BY <1>2, <2>1, Zenon
    <3>2. Asks' = [Asks EXCEPT ![r] = 1]
      BY <1>2, <2>1
    <3> QED
      BY <3>1, <3>2
  <2>5. Promise!Post(r)
    BY <1>0, <1>4, <1>5, <1>6, <2>1, <2>2, <2>3, <2>4 DEF Promise!Post, Promise!Latest
  <2> QED
    BY <2>5
<1>8. CASE req[r].pc = "repair"
  <2>1. repair = TRUE
    BY <1>1, <1>8, Zenon
  <2>2. Asks[r] \in 1..maxToolCallRepairAttempts
    <3>1. Asks[r] \in Nat /\ Asks[r] > 0 /\ Asks[r] <= req[r].attempt
      BY <1>8, Seen DEF Asking, Asked
    <3>2. req[r].attempt \in Nat /\ req[r].attempt <= maxToolCallRepairAttempts
      BY <1>8, Typed DEF TurnsInv, ExecutorInv, Posts, Request
    <3> QED
      BY <3>1, <3>2 DEF maxToolCallRepairAttempts
  <2>3. Replies' = Replies
    <3>1. req'[r].pc \in {"repair", "repairStream"}
      BY <1>8 DEF Posts
    <3> QED
      BY <1>3, <1>6, <3>1, ReplyNext DEF TurnsInv, Middle
  <2>4. posts'[Len(posts')].items \subseteq Promise!Told
    <3>1. posts'[Len(posts')].items \subseteq req[r].turn
      BY <1>2, <2>1 DEF Outputs
    <3>2. PICK n \in DOMAIN posts :
             posts[n].conv = session.conversationID /\ posts[n].items = req[r].turn
      BY <1>8 DEF TurnsInv, ToldInv, Asking
    <3> QED
      BY <3>1, <3>2 DEF Promise!Told
  <2>5. Promise!Repair(r)
    BY <1>0, <1>2, <1>4, <1>5, <2>1, <2>2, <2>3, <2>4 DEF Promise!Repair, Promise!Latest
  <2> QED
    BY <2>5
<1> QED
  BY <1>0, <1>7, <1>8

\* The other steps of a request.
LEMMA ServesTurn ==
    ASSUME TurnsInv, TurnsInv', NEW r \in Reqs, Serves(r), Serve(r) \/ Receive(r)
    PROVE  [Promise!Next]_(Promise!vars)
<1>0. /\ \A q \in Reqs \ {r} : req'[q] = req[q]
      /\ req'[r].id = req[r].id /\ session \in Session
      /\ req[r].pc \in Points /\ req'[r].pc \in Points
      /\ ExecutorInv /\ ExecutorInv'
  <2>1. Same(r)
    BY DEF Serves, Takes, Posts, Opens, GivesUp, Leaves, Moves
  <2>2. req[r] \in Request /\ req'[r] \in Request /\ session \in Session
    BY <2>1, Typed DEF TurnsInv, ExecutorInv, Same
  <2> QED
    BY <2>1, <2>2 DEF Same, Request, TurnsInv
<1>1. CASE Takes(r)
  BY <1>1, TakesTurn DEF Promise!Next
<1>2. CASE Posts(r)
  BY <1>2, PostsTurn DEF Promise!Next
<1>3. CASE Opens(r)
  <2>1. /\ req[r].pc = "conversation" /\ req'[r].pc = "chat" /\ posts' = posts
        /\ session.conversationID = 0 /\ convs' = convs + 1
        /\ session'.conversationID = convs + 1
    BY <1>0, <1>3 DEF Opens, Session, NoConv
  <2>2. Holders = {r} /\ Replies[r] = "open" /\ Reply(r) = "open" /\ Reply(r)' = "open"
    BY <1>0, <2>1, Seen, ReplyNext DEF Holds, Middle
  <2>3. Holds(r)'
    BY <2>1 DEF Holds
  <2>4. Replies' = Replies /\ Holders' = Holders /\ Asks' = Asks
    BY <1>0, <2>1, <2>2, <2>3, Mapped
  <2> QED
    BY <2>1, <2>2, <2>4 DEF Promise!Next, Promise!Converse, Promise!Speaks
<1>4. CASE GivesUp(r)
  <2>1. /\ req[r].pc \in Before /\ posts' = posts /\ convs' = convs
        /\ req'[r].pc \in {"cleanup", "release", "done"}
        /\ session'.conversationID = session.conversationID
    BY <1>0, <1>4 DEF GivesUp, Session
  <2>2. /\ Holders = {r} /\ Replies[r] = "open" /\ Asks[r] = 0
    BY <2>1, Seen DEF Holds, Before, Early, Middle
  <2>3. Reply(r)' = "failed"
    BY <1>0, <2>1, Outcome DEF Before, Asking, Late
  <2>4. /\ Replies' = [Replies EXCEPT ![r] = "failed"] /\ Asks' = Asks
        /\ Holders' \in {Holders, Holders \ {r}}
    BY <1>0, <2>1, <2>2, <2>3, Mapped DEF Before
  <2> QED
    BY <2>1, <2>2, <2>4 DEF Promise!Next, Promise!Fail, Promise!Speaks
<1>5. CASE Leaves(r)
  <2>1. /\ req[r].pc = "release" /\ req'[r].pc = "close" /\ posts' = posts /\ convs' = convs
        /\ session'.conversationID = session.conversationID
    BY <1>0, <1>5 DEF Leaves, Session
  <2>2. /\ Holders = {r} /\ Replies[r] \in {"completed", "failed"}
        /\ Reply(r)' = Reply(r)
    BY <1>0, <2>1, Seen, Outcome DEF Holds, Late
  <2>3. ~Holds(r)'
    BY <2>1 DEF Holds
  <2>4. Replies' = Replies /\ Asks' = Asks /\ Holders' = Holders \ {r}
    BY <1>0, <2>1, <2>2, <2>3, Mapped
  <2> QED
    BY <2>1, <2>2, <2>4 DEF Promise!Next, Promise!Release, Promise!Ended
<1>6. CASE Moves(r)
  <2> DEFINE x == req[r]
             y == req'[r]
  <2>0. /\ UNCHANGED <<session, posts, convs>>
        /\ \/ y.pc = x.pc
           \/ x.pc \in {"upload", "token"} /\ y.pc = "conversation"
           \/ x.pc = "conversation" /\ y.pc = "chat"
           \/ x.pc \in Asking /\ y.pc = "repair"
           \/ x.pc \in After /\ y.pc \in {"cleanup", "release"}
           \/ x.pc \in {"start", "close"} /\ y.pc = "done"
    BY <1>6 DEF Moves
  <2>1. y.pc = "free" <=> x.pc = "free"
    BY <2>0 DEF Asking, After
  <2>2. Asks' = Asks
    BY <1>0, <2>0, <2>1, Mapped
  <2>3. ASSUME Reply(r)' = Reply(r), Holds(r)' <=> Holds(r) PROVE UNCHANGED Promise!vars
    <3>1. Replies' = Replies
      BY <1>0, <2>3, Mapped
    <3>2. Holders' = Holders
      BY <1>0, <2>3, Mapped DEF Holders
    <3> QED
      BY <2>0, <2>2, <3>1, <3>2 DEF Promise!vars
  <2>4. CASE x.pc \in Asking /\ y.pc \in {"cleanup", "release"}
    <3>1. Holders = {r} /\ Replies[r] = "open" /\ Asks[r] > 0
      BY <2>4, Seen DEF Holds, Asking, Middle
    <3>2. Reply(r)' = "completed" /\ Holds(r)'
      BY <1>0, <2>4, Outcome DEF Late, Holds
    <3>3. Replies' = [Replies EXCEPT ![r] = "completed"] /\ Holders' = Holders
      BY <1>0, <3>1, <3>2, Mapped
    <3> QED
      BY <2>0, <2>2, <3>1, <3>3 DEF Promise!Next, Promise!Complete, Promise!Speaks
  <2>5. CASE x.pc = "start" /\ y.pc = "done"
    <3>1. session.inFlight /\ Reply(r)' = "failed"
      BY <1>0, <2>5, Outcome DEF Asking, Late
    <3>2. ~Holds(r) /\ ~Holds(r)'
      BY <2>5 DEF Holds
    <3>3. Holders # {} /\ r \notin Holders /\ Replies[r] = "open"
      BY <2>5, <3>1, <3>2, Seen DEF Early
    <3>4. Replies' = [Replies EXCEPT ![r] = "failed"] /\ Holders' = Holders
      BY <1>0, <3>1, <3>2, <3>3, Mapped, SMTT(30)
    <3> QED
      BY <2>0, <2>2, <3>3, <3>4 DEF Promise!Next, Promise!TurnAway
  <2>6. CASE x.pc \in Late
    <3>1. Reply(r)' = Reply(r)
      BY <1>0, <2>6, Outcome
    <3>2. Holds(r)' <=> Holds(r)
      BY <2>0, <2>6 DEF Holds, Late, Asking, After
    <3> QED
      BY <2>3, <3>1, <3>2
  <2>7. CASE x.pc \notin Late /\ y.pc \notin Late
    <3>1. Reply(r)' = Reply(r)
      BY <1>0, <2>0, <2>1, <2>7, Seen, ReplyNext DEF Points, Early, Middle, Late
    <3>2. Holds(r)' <=> Holds(r)
      BY <2>0, <2>7 DEF Holds, Late, Asking, After
    <3> QED
      BY <2>3, <3>1, <3>2
  <2>8. \/ x.pc \in Late
        \/ x.pc \notin Late /\ y.pc \notin Late
        \/ x.pc \in Asking /\ y.pc \in {"cleanup", "release"}
        \/ x.pc = "start" /\ y.pc = "done"
    BY <2>0 DEF Late, Asking, After
  <2> QED
    BY <2>4, <2>5, <2>6, <2>7, <2>8
<1> QED
  BY <1>1, <1>2, <1>3, <1>4, <1>5, <1>6 DEF Serves

\* A request that has been answered, or was, leaves its slot.
LEMMA LeavesSlot ==
    ASSUME TurnsInv, TurnsInv', NEW r \in Reqs, AtEof(r), req' = [req EXCEPT ![r] = NoRequest],
           UNCHANGED <<session, convs, posts>>
    PROVE  Promise!Leave(r)
<1>0. /\ req \in [Reqs -> Request] /\ req[r].pc = "done"
  BY Typed DEF TurnsInv, ExecutorInv, AtEof
<1>1. req'[r] = NoRequest /\ req'[r].pc = "free" /\ \A q \in Reqs \ {r} : req'[q] = req[q]
  BY <1>0, Empty
<1>2. Replies[r] \in {"completed", "failed"} /\ r \notin Holders
  BY <1>0, Seen DEF Late, Holds
<1>3. Reply(r)' = "none"
  BY <1>1, ReplyNext DEF TurnsInv
<1>4. ~Holds(r)'
  BY <1>1 DEF Holds
<1>5. Replies' = [Replies EXCEPT ![r] = "none"] /\ Holders' = Holders
  BY <1>1, <1>2, <1>3, <1>4, Mapped
<1>6. Asks' = [Asks EXCEPT ![r] = 0]
  <2>1. \A q \in Reqs \ {r} : req'[q] = req[q] /\ posts' = posts
    BY <1>1
  <2> QED
    BY <1>1, <2>1 DEF Asks
<1> QED
  BY <1>2, <1>5, <1>6 DEF Promise!Leave, Promise!Ended

\* A request that begins is open, and has asked nothing.
LEMMA AsksFirst ==
    ASSUME TurnsInv, TurnsInv', NEW r \in Reqs, NEW input, NEW c, Issue(r, input, c)
    PROVE  Promise!Ask(r)
<1>0. req \in [Reqs -> Request] /\ req[r].pc = "free" /\ UNCHANGED <<session, convs, posts>>
  BY Typed DEF TurnsInv, ExecutorInv, Issue
<1>1. /\ \A q \in Reqs \ {r} : req'[q] = req[q]
      /\ req'[r].pc = "start"
  BY <1>0 DEF Issue, NoRequest
<1>2. Replies[r] = "none" /\ r \notin Holders /\ Asks[r] = 0
  BY <1>0, Seen DEF Holds
<1>3. Reply(r)' = "open"
  BY <1>1, ReplyNext DEF TurnsInv, Early
<1>4. ~Holds(r)'
  BY <1>1 DEF Holds
<1>5. Replies' = [Replies EXCEPT ![r] = "open"] /\ Holders' = Holders
  BY <1>1, <1>2, <1>3, <1>4, Mapped
<1>6. Asks' = Asks
  <2>1. Mine(r)' = {}
    BY <1>1 DEF TurnsInv, CountInv, Counted
  <2>2. {n \in DOMAIN posts' : posts'[n].id = req'[r].id} = {}
    BY <2>1 DEF Mine
  <2>3. Cardinality({n \in DOMAIN posts' : posts'[n].id = req'[r].id}) = 0
    BY <2>2, FS_EmptySet
  <2> QED
    BY <1>0, <1>1, <2>3 DEF Asks
<1> QED
  BY <1>0, <1>2, <1>5, <1>6 DEF Promise!Ask

LEMMA StepTurns == TurnsInv /\ TurnsInv' /\ [Next]_vars => [Promise!Next]_(Promise!vars)
<1> SUFFICES ASSUME TurnsInv, TurnsInv', [Next]_vars PROVE [Promise!Next]_(Promise!vars)
  OBVIOUS
<1>0. TypeOK /\ Requests /\ ExecutorInv /\ PlaceInv
  BY Typed DEF TurnsInv, ExecutorInv, ForwardInv, Requests
<1>1. ASSUME req' = req, UNCHANGED <<session, convs, posts>> PROVE UNCHANGED Promise!vars
  BY <1>1 DEF Promise!vars, Replies, Reply, Offered, Holders, Holds, Asks
<1>2. CASE \E r \in Reqs : Serve(r) \/ Receive(r)
  <2>1. PICK r \in Reqs : Serve(r) \/ Receive(r)
    BY <1>2
  <2>2. Serves(r)
    BY <1>0, <2>1, Kinds DEF Serves
  <2> QED
    BY <2>1, <2>2, ServesTurn
<1>3. CASE \E r \in Reqs : Submit(r) \/ SubmitText(r) \/ SubmitCompacted(r)
  <2>1. PICK r \in Reqs : \E input, c : Issue(r, input, c)
    BY <1>3 DEF Submit, SubmitText, SubmitCompacted
  <2> QED
    BY <2>1, AsksFirst DEF Promise!Next
<1>4. CASE \E r \in Reqs : GoOn(r) \/ Reclaim(r)
  <2>1. PICK r \in Reqs : GoOn(r) \/ Reclaim(r)
    BY <1>4
  <2>2. CASE AtEof(r)
    <3>1. req' = [req EXCEPT ![r] = NoRequest] /\ UNCHANGED <<session, convs, posts>>
      BY <2>1, <2>2 DEF GoOn, Reclaim
    <3> QED
      BY <2>2, <3>1, LeavesSlot DEF Promise!Next
  <2>3. CASE ~AtEof(r)
    BY <1>1, <2>1, <2>3 DEF GoOn, Reclaim
  <2> QED
    BY <2>2, <2>3
<1>5. CASE \E r \in Reqs : HangUp(r)
  <2>1. PICK r \in Reqs : HangUp(r)
    BY <1>5
  <2>2. /\ \A q \in Reqs \ {r} : req'[q] = req[q]
        /\ req'[r].pc = req[r].pc /\ req'[r].id = req[r].id /\ req'[r].recv = req[r].recv
        /\ req'[r].chan = req[r].chan /\ req'[r].out = req[r].out
        /\ UNCHANGED <<session, convs, posts>>
    BY <1>0, <2>1 DEF HangUp, Requests, Request
  <2>3. Reply(r)' = Reply(r) /\ (Holds(r)' <=> Holds(r))
    BY <2>2 DEF Reply, Offered, Holds
  <2>4. Replies' = Replies /\ Holders' = Holders /\ Asks' = Asks
    BY <2>2, <2>3, Mapped DEF Holders
  <2> QED
    BY <2>2, <2>4 DEF Promise!vars
<1>6. CASE WriteMessage \/ UNCHANGED vars
  BY <1>1, <1>6 DEF WriteMessage, vars
<1>7. CASE Expire
  <2>1. /\ session'.conversationID = 0 /\ req' = req /\ UNCHANGED <<convs, posts>>
    BY <1>7 DEF Expire, NewSession, NoConv
  <2>2. Holders = {}
    BY <1>7 DEF Expire, TurnsInv, ForwardInv, HolderInv, InStep, Holders
  <2>3. Replies' = Replies /\ Holders' = Holders /\ Asks' = Asks
    BY <2>1 DEF Replies, Reply, Offered, Holders, Holds, Asks
  <2> QED
    BY <2>1, <2>2, <2>3 DEF Promise!Next, Promise!Forget
<1>8. CASE Restart
  <2>1. /\ session'.conversationID = 0 /\ UNCHANGED <<convs, posts>>
        /\ req' = [r \in Reqs |-> NoRequest] /\ NoRequest.pc = "free"
    BY <1>8, Empty DEF Restart, NewSession, NoConv
  <2>2. Replies' = [r \in Reqs |-> "none"] /\ Holders' = {} /\ Asks' = [r \in Reqs |-> 0]
    BY <2>1 DEF Replies, Reply, Holders, Holds, Asks
  <2> QED
    BY <2>1, <2>2 DEF Promise!Next, Promise!Die
<1> QED
  BY <1>2, <1>3, <1>4, <1>5, <1>6, <1>7, <1>8 DEF Next

LEMMA InitTurns == Init => Promise!Init
<1> SUFFICES ASSUME Init PROVE Promise!Init
  OBVIOUS
<1>1. /\ session.conversationID = 0 /\ convs = 0 /\ posts = <<>>
      /\ req = [r \in Reqs |-> NoRequest] /\ NoRequest.pc = "free"
  BY Empty DEF Init, NewSession, NoConv
<1>2. Replies = [r \in Reqs |-> "none"] /\ Holders = {} /\ Asks = [r \in Reqs |-> 0]
  BY <1>1 DEF Replies, Reply, Holders, Holds, Asks
<1> QED
  BY <1>1, <1>2 DEF Promise!Init

\* The executor implements Turns, for any number of requests, messages, losses
\* and hang-ups: every request is answered once, the upstream hears only from
\* the holder of an open request, never twice the same in one conversation, and
\* a turn it was asked is completed (executor.go:85-150, 153-308, 310-457,
\* tool_retry.go:21-56).
THEOREM TurnsKept == Spec => ImplementsTurns
<1>1. Init => TurnsInv
  BY InitExecutor, InitForward, InitCount, InitTold DEF TurnsInv
<1>2. TurnsInv /\ [Next]_vars => TurnsInv'
  BY StepExecutor, StepForward, StepCount, StepTold DEF TurnsInv
<1>3. TurnsInv /\ TurnsInv' /\ [Next]_vars => [Promise!Next]_(Promise!vars)
  BY StepTurns
<1> QED
  BY <1>1, <1>2, <1>3, InitTurns, PTL DEF Spec, ImplementsTurns, Promise!Spec

=============================================================================
