-------------------------- MODULE Executor_proofs --------------------------
(***************************************************************************)
(* Theorems about Executor, for any number of request slots, items,        *)
(* snapshots and losses, and any capacity of the channel: the types, the   *)
(* events of every request, what a completed response was asked of, and    *)
(* who is turned away.                                                     *)
(***************************************************************************)
EXTENDS Executor, TLAPS, FiniteSetTheorems

Request ==
    [pc : Points, id : Nat, input : Seq(Item), mode : {"stream", "sync"},
     tools : BOOLEAN, turn : SUBSET Item, live : BOOLEAN, snapshots : Nat,
     saw : BOOLEAN, attempt : 0 .. maxToolCallRepairAttempts + 1, cut : BOOLEAN,
     uploaded : BOOLEAN, out : Seq(Event), chan : Seq(Event), recv : Seq(Event)]

Session == [processedInputLen : Nat, conversationID : Nat, inFlight : BOOLEAN,
            processed : Seq(Item), unnoticed : BOOLEAN]

\* Before the first event, while the turn is under way, and after its last.
Early == {"free", "start", "upload", "token"}
Middle == {"conversation", "chat", "stream", "repair", "repairStream"}
Late == {"cleanup", "release", "close", "done"}

Shown(x) == x.recv \o x.chan \o x.out

\* response.created and text deltas.
OpenTo(s, m) == \A k \in 1..m : s[k] = IF k = 1 THEN "created" ELSE "delta"

\* An item of the answer: the one message there is, or one of the calls.
IsItem(s, m, k) == s[k] = "call" \/ (s[k] = "message" /\ k = m + 1 /\ Len(s) = m + 2)

\* ... followed by items and response.completed, or by a failure.
Ended(s, mode) ==
    \E m \in 0..Len(s) :
        /\ OpenTo(s, m)
        /\ \/ Len(s) = m + 1 /\ s[m + 1] \in {"failed", "error"}
           \/ /\ Len(s) >= m + 2 /\ (mode = "stream" => m # 0)
              /\ s[Len(s)] = "completed"
              /\ \A k \in m + 1 .. Len(s) - 1 : IsItem(s, m, k)

\* What is published at the end of a turn that has an answer.
IsAnswer(o) ==
    /\ o \in Seq(Event) /\ Len(o) >= 2 /\ o[Len(o)] = "completed"
    /\ \A k \in 1 .. Len(o) - 1 : IsItem(o, 0, k)

\* What a request has published fits the point where it is.
Phase(x) ==
    /\ x.pc \in Early => x.recv = <<>> /\ x.chan = <<>> /\ x.out = <<>>
    /\ x.pc \in Middle =>
           /\ OpenTo(Shown(x), Len(Shown(x)))
           /\ x.mode = "stream" => Shown(x) # <<>>
           /\ x.mode = "sync" => x.recv = <<>> /\ x.out = <<>>
    /\ x.pc \in Late => Ended(Shown(x), x.mode)
    /\ x.mode = "sync" => x.chan = <<>>
    /\ x.mode = "sync" /\ x.pc \in {"cleanup", "release", "close"} => x.recv = <<>>
    /\ x.pc = "repairStream" => x.attempt =< maxToolCallRepairAttempts

-----------------------------------------------------------------------------
(* Sequences of events *)

LEMMA Cat ==
    ASSUME NEW S, NEW s \in Seq(S), NEW t \in Seq(S)
    PROVE  /\ s \o t \in Seq(S)
           /\ Len(s \o t) = Len(s) + Len(t)
           /\ \A k \in 1..Len(s) : (s \o t)[k] = s[k]
           /\ \A k \in 1..Len(t) : (s \o t)[Len(s) + k] = t[k]
           /\ s \o <<>> = s /\ <<>> \o s = s
OBVIOUS

\* Sending an event moves it from one sequence to the next.
LEMMA Shift ==
    ASSUME NEW S, NEW s \in Seq(S), NEW t \in Seq(S), t # <<>>
    PROVE  /\ Append(s, Head(t)) \in Seq(S) /\ Tail(t) \in Seq(S)
           /\ Append(s, Head(t)) \o Tail(t) = s \o t
           /\ Len(Tail(t)) = Len(t) - 1
<1>1. Append(s, Head(t)) \in Seq(S) /\ Tail(t) \in Seq(S)
  OBVIOUS
<1>2. Len(Append(s, Head(t)) \o Tail(t)) = Len(s \o t)
  OBVIOUS
<1>3. \A k \in 1..Len(s \o t) : (Append(s, Head(t)) \o Tail(t))[k] = (s \o t)[k]
  OBVIOUS
<1>4. Len(Tail(t)) = Len(t) - 1
  OBVIOUS
<1> QED
  BY <1>1, <1>2, <1>3, <1>4

LEMMA Assoc ==
    ASSUME NEW S, NEW s \in Seq(S), NEW t \in Seq(S), NEW u \in Seq(S)
    PROVE  (s \o t) \o u = s \o (t \o u)
<1>1. Len((s \o t) \o u) = Len(s \o (t \o u))
  OBVIOUS
<1>2. \A k \in 1..Len((s \o t) \o u) : ((s \o t) \o u)[k] = (s \o (t \o u))[k]
  OBVIOUS
<1>3. (s \o t) \o u \in Seq(S) /\ s \o (t \o u) \in Seq(S)
  OBVIOUS
<1> QED
  BY <1>1, <1>2, <1>3

LEMMA ShiftLast ==
    ASSUME NEW s \in Seq(Event), NEW t \in Seq(Event), NEW u \in Seq(Event), u # <<>>
    PROVE  s \o Append(t, Head(u)) \o Tail(u) = s \o t \o u
<1>1. /\ Append(t, Head(u)) \in Seq(Event) /\ Tail(u) \in Seq(Event)
      /\ Append(t, Head(u)) \o Tail(u) = t \o u
  BY Shift
<1>2. ASSUME NEW d \in Seq(Event), NEW e \in Seq(Event)
      PROVE  s \o d \o e = s \o (d \o e)
  BY Assoc
<1> DEFINE d == Append(t, Head(u))
           e == Tail(u)
<1> HIDE DEF d, e
<1>3. d \in Seq(Event) /\ e \in Seq(Event) /\ d \o e = t \o u
  BY <1>1 DEF d, e
<1>4. s \o d \o e = s \o (d \o e)
  BY <1>2, <1>3
<1>5. s \o t \o u = s \o (t \o u)
  BY Assoc
<1> QED
  BY <1>3, <1>4, <1>5 DEF d, e

LEMMA SetOfCat ==
    ASSUME NEW S, NEW s \in Seq(S), NEW t \in Seq(S)
    PROVE  ToSet(s \o t) = ToSet(s) \cup ToSet(t)
<1> DEFINE u == s \o t
<1>1. /\ u \in Seq(S) /\ Len(u) = Len(s) + Len(t)
      /\ \A k \in 1..Len(s) : u[k] = s[k]
      /\ \A k \in 1..Len(t) : u[Len(s) + k] = t[k]
  BY Cat
<1> HIDE DEF u
<1>2. DOMAIN u = 1..Len(u) /\ DOMAIN s = 1..Len(s) /\ DOMAIN t = 1..Len(t)
  BY <1>1
<1>3. ToSet(u) \subseteq ToSet(s) \cup ToSet(t)
  <2>1. ASSUME NEW k \in 1..Len(u) PROVE u[k] \in ToSet(s) \cup ToSet(t)
    <3>1. CASE k =< Len(s)
      BY <1>1, <1>2, <2>1, <3>1 DEF ToSet
    <3>2. CASE k > Len(s)
      <4>1. k - Len(s) \in 1..Len(t) /\ k = Len(s) + (k - Len(s))
        BY <1>1, <2>1, <3>2
      <4> QED
        BY <1>1, <1>2, <4>1 DEF ToSet
    <3> QED
      BY <2>1, <3>1, <3>2
  <2> QED
    BY <1>2, <2>1 DEF ToSet
<1>4. ToSet(s) \cup ToSet(t) \subseteq ToSet(u)
  <2>1. \A k \in 1..Len(s) : k \in 1..Len(u) /\ u[k] = s[k]
    BY <1>1
  <2>2. \A k \in 1..Len(t) : Len(s) + k \in 1..Len(u) /\ u[Len(s) + k] = t[k]
    BY <1>1
  <2> QED
    BY <1>2, <2>1, <2>2 DEF ToSet
<1> QED
  BY <1>3, <1>4 DEF u

\* Publishing a delta, a failure or an answer at the end of an open stream.
LEMMA Publish ==
    ASSUME NEW s \in Seq(Event), OpenTo(s, Len(s)), NEW mode
    PROVE  /\ s # <<>> => LET u == s \o <<"delta">> IN OpenTo(u, Len(u)) /\ u # <<>>
           /\ \A e \in {"failed", "error"} : Ended(s \o <<e>>, mode)
           /\ \A o : IsAnswer(o) /\ (mode = "stream" => s # <<>>) => Ended(s \o o, mode)
<1>0. Len(s) \in Nat
  OBVIOUS
<1>1. ASSUME s # <<>>
      PROVE  LET u == s \o <<"delta">> IN OpenTo(u, Len(u)) /\ u # <<>>
  <2>1. Len(s) > 0
    BY <1>1
  <2> DEFINE u == s \o <<"delta">>
  <2>2. Len(u) = Len(s) + 1 /\ u[Len(s) + 1] = "delta" /\ \A k \in 1..Len(s) : u[k] = s[k]
    BY DEF Event
  <2> HIDE DEF u
  <2>3. OpenTo(u, Len(u))
    BY <1>0, <2>1, <2>2 DEF OpenTo
  <2> QED
    BY <1>0, <2>2, <2>3 DEF u
<1>2. ASSUME NEW e \in {"failed", "error"} PROVE Ended(s \o <<e>>, mode)
  <2> DEFINE u == s \o <<e>>
  <2>1. Len(u) = Len(s) + 1 /\ u[Len(s) + 1] = e /\ \A k \in 1..Len(s) : u[k] = s[k]
    BY DEF Event
  <2> HIDE DEF u
  <2>2. OpenTo(u, Len(s))
    BY <2>1 DEF OpenTo
  <2>3. Ended(u, mode)
    BY <1>0, <2>1, <2>2 DEF Ended
  <2> QED
    BY <2>3 DEF u
<1>3. ASSUME NEW o, IsAnswer(o), mode = "stream" => s # <<>>
      PROVE  Ended(s \o o, mode)
  <2> DEFINE u == s \o o
             l == Len(s)
  <2>0. o \in Seq(Event) /\ Len(o) \in Nat
    BY <1>3 DEF IsAnswer
  <2>1. /\ Len(u) = l + Len(o) /\ l \in Nat
        /\ \A k \in 1..l : u[k] = s[k]
        /\ \A k \in 1..Len(o) : u[l + k] = o[k]
    BY <1>0, <2>0, Cat
  <2>2. OpenTo(u, l) /\ (mode = "stream" => l # 0)
    BY <2>1, <1>3 DEF OpenTo
  <2> HIDE DEF u, l
  <2>3. Len(o) >= 2 /\ o[Len(o)] = "completed" /\ \A k \in 1..Len(o) - 1 : IsItem(o, 0, k)
    BY <1>3 DEF IsAnswer
  <2>4. Len(u) >= l + 2 /\ u[Len(u)] = "completed" /\ l \in 0..Len(u)
    BY <2>0, <2>1, <2>3
  <2>5. ASSUME NEW k \in l + 1 .. Len(u) - 1 PROVE IsItem(u, l, k)
    <3>1. k - l \in 1..Len(o) - 1 /\ k - l \in 1..Len(o) /\ l + (k - l) = k
      BY <2>0, <2>1, <2>5
    <3>2. u[k] = o[k - l] /\ IsItem(o, 0, k - l)
      BY <2>1, <2>3, <3>1
    <3>3. CASE o[k - l] = "call"
      BY <3>2, <3>3 DEF IsItem
    <3>4. CASE o[k - l] = "message" /\ k - l = 0 + 1 /\ Len(o) = 0 + 2
      <4>1. k = l + 1 /\ Len(u) = l + 2
        BY <2>0, <2>1, <3>1, <3>4
      <4> QED
        BY <3>2, <3>4, <4>1 DEF IsItem
    <3> QED
      BY <3>2, <3>3, <3>4 DEF IsItem
  <2>6. Ended(u, mode)
    BY <2>2, <2>4, <2>5 DEF Ended
  <2> QED
    BY <2>6 DEF u
<1> QED
  BY <1>1, <1>2, <1>3

\* What a request shows once everything computed so far has been sent.
LEMMA ShownThen ==
    ASSUME NEW x \in Request, x.out = <<>>, NEW y \in Request,
           y.recv = x.recv, y.chan = x.chan
    PROVE  Shown(y) = Shown(x) \o y.out /\ Shown(x) \in Seq(Event)
<1>1. x.recv \o x.chan \in Seq(Event) /\ y.out \in Seq(Event)
  BY Cat DEF Request
<1>2. Shown(x) = x.recv \o x.chan
  <2>1. Shown(x) = x.recv \o (x.chan \o <<>>)
    BY DEF Shown, Request
  <2> QED
    BY <2>1 DEF Request
<1> QED
  BY <1>1, <1>2, Assoc DEF Shown, Request

Published(y) == y.out \in {<<"failed">>, <<"error">>} \/ IsAnswer(y.out)

\* The message, or the tool calls, and response.completed.
LEMMA AnswerForm == \A items \in Calls \cup {Message} : IsAnswer(Answer(items))
<1>1. ASSUME NEW k \in Nat \ {0}
      PROVE  IsAnswer(Append([n \in 1..k |-> "call"], "completed"))
  <2> DEFINE calls == [n \in 1..k |-> "call"]
             o == Append(calls, "completed")
  <2>1. calls \in Seq(Event) /\ Len(calls) = k /\ \A n \in 1..k : calls[n] = "call"
    BY <1>1 DEF Event
  <2> HIDE DEF calls
  <2>2. /\ o \in Seq(Event) /\ Len(o) = k + 1 /\ o[k + 1] = "completed"
        /\ \A n \in 1..k : o[n] = "call"
    BY <1>1, <2>1 DEF Event
  <2> HIDE DEF o
  <2>3. IsAnswer(o)
    BY <1>1, <2>2 DEF IsAnswer, IsItem
  <2> QED
    BY <2>3 DEF o, calls
<1>2. IsAnswer(Append(<<"message">>, "completed"))
  <2> DEFINE o == Append(<<"message">>, "completed")
  <2>1. o \in Seq(Event) /\ Len(o) = 2 /\ o[1] = "message" /\ o[2] = "completed"
    BY DEF Event
  <2> HIDE DEF o
  <2>2. IsAnswer(o)
    BY <2>1 DEF IsAnswer, IsItem
  <2> QED
    BY <2>2 DEF o
<1> QED
  BY <1>1, <1>2, BoundAssumption DEF Calls, Message, Answer

\* A step of the turn that publishes nothing or a delta, ...
LEMMA StayMiddle ==
    ASSUME NEW x \in Request, Phase(x), x.pc \in Middle, x.out = <<>>,
           NEW y \in Request, y.recv = x.recv, y.chan = x.chan, y.mode = x.mode,
           y.pc \in Middle, y.out \in {<<>>, <<"delta">>}, y.out # <<>> => y.mode = "stream",
           y.pc = "repairStream" => y.attempt =< maxToolCallRepairAttempts
    PROVE  Phase(y)
<1>1. Shown(y) = Shown(x) \o y.out /\ Shown(x) \in Seq(Event)
  BY ShownThen
<1>2. OpenTo(Shown(x), Len(Shown(x))) /\ (x.mode = "stream" => Shown(x) # <<>>)
  BY DEF Phase
<1>3. OpenTo(Shown(y), Len(Shown(y))) /\ (y.mode = "stream" => Shown(y) # <<>>)
  <2>1. CASE y.out = <<>>
    BY <1>1, <1>2, <2>1, Cat
  <2>2. CASE y.out = <<"delta">> /\ y.mode = "stream"
    BY <1>1, <1>2, <2>2, Publish
  <2> QED
    BY <2>1, <2>2
<1> QED
  BY <1>3 DEF Phase, Early, Middle, Late

\* ... one that ends it, ...
LEMMA EndMiddle ==
    ASSUME NEW x \in Request, Phase(x), x.pc \in Middle, x.out = <<>>,
           NEW y \in Request, y.recv = x.recv, y.chan = x.chan, y.mode = x.mode,
           y.pc \in {"cleanup", "release"}, Published(y)
    PROVE  Phase(y)
<1>1. Shown(y) = Shown(x) \o y.out /\ Shown(x) \in Seq(Event)
  BY ShownThen
<1>2. OpenTo(Shown(x), Len(Shown(x))) /\ (x.mode = "stream" => Shown(x) # <<>>)
  BY DEF Phase
<1>3. Ended(Shown(y), y.mode)
  BY <1>1, <1>2, Publish DEF Published
<1> QED
  BY <1>3 DEF Phase, Early, Middle, Late

\* ... the first event of a turn, or a failure in its place, ...
LEMMA LeaveEarly ==
    ASSUME NEW x \in Request, Phase(x), x.pc \in Early,
           NEW y \in Request, y.mode = x.mode, y.chan = x.chan,
           \/ /\ y.pc = "conversation" /\ y.recv = x.recv
              /\ y.out = IF y.mode = "stream" THEN <<"created">> ELSE <<>>
           \/ /\ y.pc \in {"cleanup", "release"} /\ y.recv = x.recv
              /\ y.out \in {<<"failed">>, <<"error">>}
           \/ y.pc = "done" /\ y.recv = <<"error">> /\ y.out = x.out
    PROVE  Phase(y)
<1>1. x.recv = <<>> /\ x.chan = <<>> /\ x.out = <<>>
  BY DEF Phase
<1>2. \A a \in Seq(Event) : <<>> \o <<>> \o a = a /\ a \o <<>> \o <<>> = a
  OBVIOUS
<1>3. <<"created">> \in Seq(Event) /\ <<"failed">> \in Seq(Event) /\ <<"error">> \in Seq(Event)
  BY DEF Event
<1>4. CASE y.pc = "conversation" /\ y.recv = x.recv
           /\ y.out = IF y.mode = "stream" THEN <<"created">> ELSE <<>>
  <2>1. Shown(y) = y.out
    BY <1>1, <1>2, <1>4 DEF Shown, Request
  <2>2. OpenTo(y.out, Len(y.out)) /\ (y.mode = "stream" => y.out # <<>>)
    BY <1>4 DEF OpenTo
  <2> QED
    BY <1>1, <1>4, <2>1, <2>2 DEF Phase, Early, Middle, Late
<1>5. CASE y.pc \in {"cleanup", "release"} /\ y.recv = x.recv
           /\ y.out \in {<<"failed">>, <<"error">>}
  <2>1. Shown(y) = y.out
    BY <1>1, <1>2, <1>5 DEF Shown, Request
  <2>2. /\ OpenTo(y.out, 0) /\ 0 \in 0..Len(y.out)
        /\ Len(y.out) = 0 + 1 /\ y.out[0 + 1] \in {"failed", "error"}
    BY <1>5 DEF OpenTo
  <2>3. Ended(y.out, y.mode)
    BY <2>2 DEF Ended
  <2> QED
    BY <1>1, <1>5, <2>1, <2>3 DEF Phase, Early, Middle, Late
<1>6. CASE y.pc = "done" /\ y.recv = <<"error">> /\ y.out = x.out
  <2>1. Shown(y) = <<"error">>
    BY <1>1, <1>2, <1>3, <1>6 DEF Shown
  <2>2. Ended(<<"error">>, y.mode)
    BY DEF Ended, OpenTo
  <2> QED
    BY <1>1, <1>6, <2>1, <2>2 DEF Phase, Early, Middle, Late
<1> QED
  BY <1>4, <1>5, <1>6

\* ... and the deferred calls, the last of which returns what Execute computed.
LEMMA StayLate ==
    ASSUME NEW x \in Request, Phase(x), x.pc \in Late,
           NEW y \in Request, y.mode = x.mode, y.chan = x.chan, y.pc \in Late,
           \/ y.recv = x.recv /\ y.out = x.out /\ (x.pc = "done" <=> y.pc = "done")
           \/ y.recv = x.recv /\ y.out = x.out /\ y.mode = "stream"
           \/ /\ x.mode = "sync" /\ x.pc = "close" /\ y.pc = "done"
              /\ y.recv = x.out /\ y.out = <<>>
    PROVE  Phase(y) /\ Shown(y) = Shown(x)
<1>1. Shown(y) = Shown(x)
  <2>1. CASE y.recv = x.recv /\ y.out = x.out
    BY <2>1 DEF Shown
  <2>2. CASE x.mode = "sync" /\ x.pc = "close" /\ y.recv = x.out /\ y.out = <<>>
    <3>1. x.recv = <<>> /\ x.chan = <<>>
      BY <2>2 DEF Phase
    <3>2. \A a \in Seq(Event) : <<>> \o <<>> \o a = a /\ a \o <<>> \o <<>> = a
      OBVIOUS
    <3> QED
      BY <2>2, <3>1, <3>2 DEF Shown, Request
  <2> QED
    BY <2>1, <2>2
<1>2. Ended(Shown(y), y.mode)
  BY <1>1 DEF Phase
<1> QED
  BY <1>1, <1>2 DEF Phase, Early, Middle, Late

\* Sending and receiving change nothing of what is shown.
LEMMA Transport ==
    ASSUME NEW x \in Request, Phase(x), NEW y \in Request,
           y.pc = x.pc, y.mode = x.mode, y.attempt = x.attempt,
           \/ /\ x.out # <<>> /\ x.mode = "stream" /\ y.recv = x.recv
              /\ y.chan = Append(x.chan, Head(x.out)) /\ y.out = Tail(x.out)
           \/ /\ x.chan # <<>> /\ y.out = x.out
              /\ y.recv = Append(x.recv, Head(x.chan)) /\ y.chan = Tail(x.chan)
    PROVE  Phase(y) /\ Shown(y) = Shown(x)
<1>0. x.recv \in Seq(Event) /\ x.chan \in Seq(Event) /\ x.out \in Seq(Event)
  BY DEF Request
<1>1. Shown(y) = Shown(x)
  <2> DEFINE a == x.recv
             b == x.chan
             c == x.out
  <2>0. a \in Seq(Event) /\ b \in Seq(Event) /\ c \in Seq(Event)
    BY <1>0
  <2>1. CASE x.out # <<>> /\ y.recv = a /\ y.chan = Append(b, Head(c)) /\ y.out = Tail(c)
    <3> HIDE DEF a, b, c
    <3>1. c # <<>>
      BY <2>1 DEF c
    <3>3. a \o Append(b, Head(c)) \o Tail(c) = a \o b \o c
      BY <2>0, <3>1, ShiftLast
    <3>4. Shown(y) = a \o Append(b, Head(c)) \o Tail(c)
      BY <2>1 DEF Shown
    <3>5. Shown(x) = a \o b \o c
      BY DEF Shown, a, b, c
    <3> QED
      BY <3>3, <3>4, <3>5
  <2>2. CASE x.chan # <<>> /\ y.out = c /\ y.recv = Append(a, Head(b)) /\ y.chan = Tail(b)
    <3> HIDE DEF a, b, c
    <3>1. b # <<>>
      BY <2>2 DEF b
    <3>2. Append(a, Head(b)) \o Tail(b) = a \o b
      BY <2>0, <3>1, Shift
    <3>3. Shown(y) = Append(a, Head(b)) \o Tail(b) \o c
      BY <2>2 DEF Shown
    <3>4. Shown(x) = a \o b \o c
      BY DEF Shown, a, b, c
    <3> QED
      BY <3>2, <3>3, <3>4
  <2> QED
    BY <2>1, <2>2
<1>2. x.mode = "stream" /\ x.pc \notin Early
  BY DEF Phase, Request
<1> QED
  BY <1>1, <1>2 DEF Phase, Early, Middle, Late


Asking == {"stream", "repair", "repairStream"}
Completes(x) == "completed" \in ToSet(Shown(x))

\* response.completed is only published as the end of an answer.
LEMMA NotCompleted ==
    ASSUME NEW x \in Request, Phase(x)
    PROVE  /\ x.pc \in Early \cup Middle => ~Completes(x)
           /\ \A y \in Request :
                 /\ x.pc \in Early \cup Middle /\ x.out = <<>>
                 /\ y.recv = x.recv /\ y.chan = x.chan
                 /\ y.out \in {<<"failed">>, <<"error">>}
                 => ~Completes(y)
<1>0. x.recv \in Seq(Event) /\ x.chan \in Seq(Event) /\ x.out \in Seq(Event)
  BY DEF Request
<1>1. Shown(x) \in Seq(Event)
  BY <1>0 DEF Shown
<1>2. ASSUME x.pc \in Early \cup Middle PROVE ~Completes(x)
  <2>1. CASE x.pc \in Early
    <3>1. Shown(x) = <<>> \o <<>> \o <<>>
      BY <2>1 DEF Phase, Shown
    <3> QED
      BY <3>1 DEF Completes, ToSet
  <2>2. CASE x.pc \in Middle
    <3>1. OpenTo(Shown(x), Len(Shown(x)))
      BY <2>2 DEF Phase
    <3> QED
      BY <1>1, <3>1 DEF Completes, ToSet, OpenTo
  <2> QED
    BY <1>2, <2>1, <2>2
<1>3. ASSUME NEW y \in Request, x.pc \in Early \cup Middle, x.out = <<>>,
             y.recv = x.recv, y.chan = x.chan, y.out \in {<<"failed">>, <<"error">>}
      PROVE  ~Completes(y)
  <2> DEFINE a == Shown(x)
             b == y.out
  <2>1. Shown(y) = a \o b /\ a \in Seq(Event)
    BY <1>3, ShownThen
  <2>2. b \in Seq(Event) /\ "completed" \notin ToSet(b)
    BY <1>3 DEF Request, ToSet
  <2>3. "completed" \notin ToSet(a)
    BY <1>2, <1>3 DEF Completes
  <2> HIDE DEF a, b
  <2> QED
    BY <2>1, <2>2, <2>3, SetOfCat DEF Completes
<1> QED
  BY <1>2, <1>3

-----------------------------------------------------------------------------
(* The steps of a request *)

Requests == req \in [Reqs -> Request] /\ \A r \in Reqs : Phase(req[r])

\* y is what request r becomes; nothing else of req changes.
Becomes(r, y) ==
    /\ y \in Request /\ Phase(y)
    /\ req' = [req EXCEPT ![r] = y]
    /\ y.id = req[r].id /\ y.live = req[r].live
    /\ Len(req[r].chan) =< ChanCap => Len(y.chan) =< ChanCap
    /\ Completes(y) => Completes(req[r]) \/ req[r].pc \in Asking

\* y differs from x in the locals of the turn and in what it has computed.
Follows(x, y) ==
    /\ y \in Request
    /\ y.recv = x.recv /\ y.chan = x.chan
    /\ y.mode = x.mode /\ y.id = x.id /\ y.live = x.live

\* The turn goes on ...
LEMMA GoesOn ==
    ASSUME Requests, NEW r \in Reqs, req[r].pc \in Middle, At(r, req[r].pc),
           NEW y, Follows(req[r], y), req' = [req EXCEPT ![r] = y],
           y.pc \in Middle, y.out \in {<<>>, <<"delta">>}, y.out # <<>> => y.mode = "stream",
           y.pc = "repairStream" => y.attempt =< maxToolCallRepairAttempts
    PROVE  Becomes(r, y)
<1>1. req[r] \in Request /\ Phase(req[r]) /\ req[r].out = <<>>
  BY DEF Requests, Phase, At, Request
<1>2. Phase(y)
  BY <1>1, StayMiddle DEF Follows
<1> QED
  BY <1>1, <1>2, NotCompleted DEF Becomes, Follows

\* ... or ends with an answer, ...
LEMMA Answers ==
    ASSUME Requests, NEW r \in Reqs, req[r].pc \in Asking, At(r, req[r].pc),
           NEW y, Follows(req[r], y), req' = [req EXCEPT ![r] = y],
           y.pc = Deferred(r), IsAnswer(y.out)
    PROVE  Becomes(r, y)
<1>1. req[r] \in Request /\ Phase(req[r]) /\ req[r].out = <<>> /\ req[r].pc \in Middle
  BY DEF Requests, Phase, At, Request, Asking, Middle
<1>2. Phase(y)
  BY <1>1, EndMiddle DEF Follows, Deferred, Published
<1> QED
  BY <1>1, <1>2 DEF Becomes, Follows

\* ... or with a failure.
LEMMA Fails ==
    ASSUME Requests, NEW r \in Reqs, req[r].pc \in Middle \cup {"token"}, At(r, req[r].pc),
           req' = [req EXCEPT ![r].out = Failure(r), ![r].pc = Deferred(r)]
    PROVE  \E y : Becomes(r, y) /\ y.pc = Deferred(r)
<1> DEFINE x == req[r]
           y == [x EXCEPT !.out = Failure(r), !.pc = Deferred(r)]
<1>1. x \in Request /\ Phase(x) /\ x.out = <<>>
  BY DEF Requests, Phase, At, Request, Early
<1>2. Failure(r) \in {<<"failed">>, <<"error">>} /\ Failure(r) \in Seq(Event)
  <2>1. <<"failed">> \in Seq(Event) /\ <<"error">> \in Seq(Event)
    BY DEF Event
  <2> QED
    BY <2>1 DEF Failure
<1>3. req' = [req EXCEPT ![r] = y]
  BY <1>1 DEF Requests
<1>4. /\ Follows(x, y) /\ y.pc \in {"cleanup", "release"} /\ y.out = Failure(r)
      /\ y.pc = Deferred(r)
  BY <1>1, <1>2 DEF Request, Deferred, Points, Follows
<1>5. Phase(y)
  <2> HIDE DEF y
  <2>1. CASE x.pc = "token"
    BY <1>1, <1>2, <1>4, <2>1, LeaveEarly DEF Early, Follows
  <2>2. CASE x.pc \in Middle
    BY <1>1, <1>2, <1>4, <2>2, EndMiddle DEF Published, Follows
  <2> QED
    BY <2>1, <2>2
<1>6. ~Completes(y)
  <2> HIDE DEF y
  <2> QED
    BY <1>1, <1>2, <1>4, NotCompleted DEF Early, Follows
<1> QED
  <2> HIDE DEF y
  <2> QED
    BY <1>3, <1>4, <1>5, <1>6 DEF Becomes, Follows

LEMMA FailStep ==
    ASSUME Requests, NEW r \in Reqs, req[r].pc \in Middle \cup {"token"}, At(r, req[r].pc),
           Fail(r)
    PROVE  \E y : Becomes(r, y) /\ y.pc = Deferred(r)
<1>1. req[r].out = <<>>
  BY DEF Requests, Phase, At, Request, Early
<1>2. Failure(r) \in Seq(Event)
  <2>1. <<"failed">> \in Seq(Event) /\ <<"error">> \in Seq(Event)
    BY DEF Event
  <2> QED
    BY <2>1 DEF Failure
<1>3. req[r].out \o Failure(r) = Failure(r)
  BY <1>1, <1>2, Cat
<1>4. req' = [req EXCEPT ![r].out = Failure(r), ![r].pc = Deferred(r)]
  BY <1>3 DEF Fail, Requests
<1> QED
  BY <1>4, Fails

\* The actions of a request between its start and its deferred calls.
LEMMA TurnSteps ==
    ASSUME Requests, NEW r \in Reqs,
           \/ Upload(r) \/ Token(r) \/ TokenFails(r) \/ Converse(r) \/ ConverseFails(r)
           \/ Chat(r) \/ ChatFails(r) \/ Snapshot(r) \/ ToolCalls(r) \/ StreamEnds(r)
           \/ Repair(r) \/ RepairFails(r) \/ RepairStreamEnds(r) \/ RepairSucceeds(r)
           \/ RepairGivesUp(r)
    PROVE  \E y : Becomes(r, y) /\ y.pc \notin {"free", "start", "close", "done"}
<1> DEFINE x == req[r]
<1>0. x \in Request /\ Phase(x) /\ (x.pc \in Early \cup Middle /\ At(r, x.pc) => x.out = <<>>)
  BY DEF Requests, Phase, At, Request
<1>a. \A y : y.pc = Deferred(r) => y.pc \notin {"free", "start", "close", "done"}
  BY DEF Deferred
<1>1. ASSUME Upload(r) \/ Token(r)
      PROVE  \E y : Becomes(r, y) /\ y.pc \notin {"free", "start", "close", "done"}
  <2> DEFINE u == IF Upload(r) THEN TRUE ELSE x.uploaded
             y == [x EXCEPT !.uploaded = u, !.out = Created(r), !.pc = "conversation"]
  <2>1. req' = [req EXCEPT ![r] = y] /\ x.pc \in Early
    BY <1>0, <1>1 DEF Upload, Token, At, Requests, Request, Early
  <2>2. Created(r) = (IF x.mode = "stream" THEN <<"created">> ELSE <<>>)
        /\ Created(r) \in Seq(Event)
    <3>1. <<"created">> \in Seq(Event)
      BY DEF Event
    <3> QED
      BY <3>1 DEF Created, Streams
  <2>3. Follows(x, y) /\ y.pc = "conversation" /\ y.out = Created(r)
    BY <1>0, <2>2 DEF Request, Points, Follows
  <2> HIDE DEF y
  <2>4. Phase(y)
    BY <1>0, <2>1, <2>2, <2>3, LeaveEarly DEF Follows
  <2>5. ~Completes(y)
    BY <2>3, <2>4, NotCompleted DEF Middle, Follows
  <2> QED
    BY <2>1, <2>3, <2>4, <2>5 DEF Becomes, Follows
<1>2. ASSUME TokenFails(r) \/ ConverseFails(r) \/ ChatFails(r)
      PROVE  \E y : Becomes(r, y) /\ y.pc \notin {"free", "start", "close", "done"}
  <2>1. x.pc \in Middle \cup {"token"} /\ At(r, x.pc)
    BY <1>2 DEF TokenFails, ConverseFails, ChatFails, At, Middle
  <2>2. Fail(r) \/ req' = [req EXCEPT ![r].out = Failure(r), ![r].pc = Deferred(r)]
    BY <1>2 DEF TokenFails, ConverseFails, ChatFails
  <2> QED
    BY <2>1, <2>2, FailStep, Fails, <1>a
<1>3. ASSUME Converse(r) \/ Chat(r)
      PROVE  \E y : Becomes(r, y) /\ y.pc \notin {"free", "start", "close", "done"}
  <2> DEFINE y == [x EXCEPT !.pc = IF x.pc = "chat" THEN "stream" ELSE "chat"]
  <2>1. req' = [req EXCEPT ![r] = y] /\ x.pc \in Middle /\ At(r, x.pc) /\ x.out = <<>>
    BY <1>0, <1>3 DEF Converse, Chat, At, Requests, Middle
  <2>2. Follows(x, y) /\ y.pc \in {"stream", "chat"} /\ y.out = <<>>
    BY <1>0, <2>1 DEF Request, Points, Follows
  <2> HIDE DEF y
  <2>3. Becomes(r, y)
    BY <2>1, <2>2, GoesOn DEF Middle
  <2> QED
    BY <2>2, <2>3
<1>4. ASSUME Snapshot(r)
      PROVE  \E y : Becomes(r, y) /\ y.pc \notin {"free", "start", "close", "done"}
  <2>1. PICK c \in BOOLEAN, d \in (IF Streams(r) THEN {<<>>, <<"delta">>} ELSE {<<>>}) :
           req' = [req EXCEPT ![r].snapshots = @ + 1, ![r].saw = @ \/ c, ![r].out = d]
    BY <1>4 DEF Snapshot
  <2> DEFINE w == x.saw \/ c
             y == [x EXCEPT !.snapshots = @ + 1, !.saw = w, !.out = d]
  <2>2. req' = [req EXCEPT ![r] = y] /\ x.pc = "stream" /\ At(r, x.pc)
    BY <1>0, <1>4, <2>1 DEF Snapshot, At, Requests
  <2>3. d \in Seq(Event) /\ d \in {<<>>, <<"delta">>} /\ (d # <<>> => x.mode = "stream")
    <3>1. <<"delta">> \in Seq(Event) /\ <<>> \in Seq(Event)
      BY DEF Event
    <3>2. CASE Streams(r)
      BY <3>1, <3>2 DEF Streams
    <3>3. CASE ~Streams(r)
      BY <3>1, <3>3
    <3> QED
      BY <3>2, <3>3
  <2>4. w \in BOOLEAN
    BY <1>0 DEF Request
  <2> HIDE DEF w
  <2>5. Follows(x, y) /\ y.pc = "stream" /\ y.out = d
    <3>1. x.snapshots + 1 \in Nat /\ x \in Request
      BY <1>0 DEF Request
    <3>2. \A k \in Nat, e \in Seq(Event) :
             [x EXCEPT !.snapshots = k, !.saw = w, !.out = e] \in Request
      BY <2>4, <3>1 DEF Request
    <3>3. y \in Request
      BY <2>3, <3>1, <3>2
    <3> QED
      BY <2>2, <3>1, <3>3 DEF Request, Follows
  <2> HIDE DEF y
  <2>6. Becomes(r, y)
    BY <2>2, <2>3, <2>5, GoesOn DEF Middle, Follows
  <2> QED
    BY <2>5, <2>6
<1>5. ASSUME ToolCalls(r) \/ RepairSucceeds(r) \/ RepairGivesUp(r)
      PROVE  \E y : Becomes(r, y) /\ y.pc \notin {"free", "start", "close", "done"}
  <2>1. \E items \in Calls \cup {Message} :
           req' = [req EXCEPT ![r].out = Answer(items), ![r].pc = Deferred(r)]
    BY <1>5 DEF ToolCalls, RepairSucceeds, RepairGivesUp
  <2>b. PICK o : IsAnswer(o) /\ req' = [req EXCEPT ![r].out = o, ![r].pc = Deferred(r)]
    BY <2>1, AnswerForm
  <2> DEFINE y == [x EXCEPT !.out = o, !.pc = Deferred(r)]
  <2>2. req' = [req EXCEPT ![r] = y] /\ x.pc \in Asking /\ At(r, x.pc)
    BY <1>0, <1>5, <2>b DEF ToolCalls, RepairSucceeds, RepairGivesUp, At, Requests, Asking
  <2>3. o \in Seq(Event)
    BY <2>b DEF IsAnswer
  <2>4. Follows(x, y) /\ y.pc = Deferred(r) /\ y.out = o
    BY <1>0, <2>3 DEF Request, Points, Follows, Deferred
  <2> HIDE DEF y
  <2> QED
    BY <2>2, <2>4, <2>b, Answers, <1>a
<1>6. ASSUME StreamEnds(r)
      PROVE  \E y : Becomes(r, y) /\ y.pc \notin {"free", "start", "close", "done"}
  <2>1. PICK e \in BOOLEAN :
           \/ req' = [req EXCEPT ![r].cut = e, ![r].pc = "repair", ![r].attempt = 1]
           \/ req' = [req EXCEPT ![r].cut = e, ![r].pc = Deferred(r),
                                 ![r].out = Answer(Message)]
    BY <1>6 DEF StreamEnds
  <2>2. x.pc = "stream" /\ At(r, x.pc) /\ x.out = <<>>
    BY <1>0, <1>6 DEF StreamEnds, At, Middle
  <2>3. CASE req' = [req EXCEPT ![r].cut = e, ![r].pc = "repair", ![r].attempt = 1]
    <3> DEFINE y == [x EXCEPT !.cut = e, !.pc = "repair", !.attempt = 1]
    <3>1. req' = [req EXCEPT ![r] = y]
      BY <2>3 DEF Requests
    <3>2. Follows(x, y) /\ y.pc = "repair" /\ y.out = <<>>
      <4>1. 1 \in 0..maxToolCallRepairAttempts + 1
        BY DEF maxToolCallRepairAttempts
      <4> QED
        BY <1>0, <2>2, <4>1 DEF Request, Points, Follows
    <3> HIDE DEF y
    <3>3. Becomes(r, y)
      BY <2>2, <3>1, <3>2, GoesOn DEF Middle
    <3> QED
      BY <3>2, <3>3
  <2>4. CASE req' = [req EXCEPT ![r].cut = e, ![r].pc = Deferred(r), ![r].out = Answer(Message)]
    <3> DEFINE y == [x EXCEPT !.cut = e, !.pc = Deferred(r), !.out = Answer(Message)]
    <3>1. req' = [req EXCEPT ![r] = y]
      BY <2>4 DEF Requests
    <3>2. IsAnswer(Answer(Message)) /\ Answer(Message) \in Seq(Event)
      BY AnswerForm DEF IsAnswer
    <3>3. Follows(x, y) /\ y.pc = Deferred(r) /\ y.out = Answer(Message)
      BY <1>0, <3>2 DEF Request, Points, Follows, Deferred
    <3> HIDE DEF y
    <3> QED
      BY <2>2, <3>1, <3>2, <3>3, Answers, <1>a DEF Asking
  <2> QED
    BY <2>1, <2>3, <2>4
<1>7. ASSUME Repair(r)
      PROVE  \E y : Becomes(r, y) /\ y.pc \notin {"free", "start", "close", "done"}
  <2> DEFINE y == [x EXCEPT !.pc = "repairStream"]
  <2>1. /\ req' = [req EXCEPT ![r] = y] /\ x.pc = "repair" /\ At(r, x.pc) /\ x.out = <<>>
        /\ x.attempt =< maxToolCallRepairAttempts
    BY <1>0, <1>7 DEF Repair, At, Requests, Middle
  <2>2. Follows(x, y) /\ y.pc = "repairStream" /\ y.out = <<>> /\ y.attempt = x.attempt
    BY <1>0, <2>1 DEF Request, Points, Follows
  <2> HIDE DEF y
  <2>3. Becomes(r, y)
    BY <2>1, <2>2, GoesOn DEF Middle
  <2> QED
    BY <2>2, <2>3
<1>8. ASSUME RepairFails(r) \/ RepairStreamEnds(r)
      PROVE  \E y : Becomes(r, y) /\ y.pc \notin {"free", "start", "close", "done"}
  <2> DEFINE y == [x EXCEPT !.attempt = @ + 1, !.pc = "repair"]
  <2>1. /\ x.pc \in {"repair", "repairStream"} /\ At(r, x.pc)
        /\ x.attempt =< maxToolCallRepairAttempts
    BY <1>0, <1>8 DEF RepairFails, RepairStreamEnds, At, Phase
  <2>2. x.out = <<>>
    BY <1>0, <2>1 DEF Middle
  <2>3. req' = [req EXCEPT ![r] = y]
    <3>1. CASE RepairFails(r)
      <4>1. x.pc = "repair" /\ req' = [req EXCEPT ![r].attempt = @ + 1]
        BY <3>1 DEF RepairFails, At
      <4>2. [x EXCEPT !.attempt = @ + 1] = y
        BY <1>0, <4>1 DEF Request
      <4> QED
        BY <4>1, <4>2 DEF Requests
    <3>2. CASE RepairStreamEnds(r)
      BY <3>2 DEF RepairStreamEnds, Requests
    <3> QED
      BY <1>8, <3>1, <3>2
  <2>4. x.attempt + 1 \in 0..maxToolCallRepairAttempts + 1
    BY <1>0, <2>1 DEF Request, maxToolCallRepairAttempts
  <2>5. Follows(x, y) /\ y.pc = "repair" /\ y.out = <<>>
    BY <1>0, <2>2, <2>4 DEF Request, Points, Follows
  <2> HIDE DEF y
  <2>6. Becomes(r, y)
    BY <2>1, <2>3, <2>5, GoesOn DEF Middle
  <2> QED
    BY <2>5, <2>6
<1> QED
  BY <1>1, <1>2, <1>3, <1>4, <1>5, <1>6, <1>7, <1>8

\* What a turn forwards are items of its input.
LEMMA TurnTypes ==
    ASSUME NEW input \in Seq(Item), session.processedInputLen \in Nat
    PROVE  NewItems(input) \in Seq(Item) /\ TurnItems(NewItems(input)) \subseteq Item
<1>1. NewItems(input) \in Seq(Item)
  BY DEF NewItems
<1>2. \A s \in Seq(Item) : ToSet(s) \subseteq Item /\ LastUser(s) \subseteq Item
  BY DEF ToSet, LastUser
<1> QED
  BY <1>1, <1>2 DEF TurnItems, Outputs

\* A chunk is sent, or read by the SDK.
LEMMA ChannelStep ==
    ASSUME Requests, NEW r \in Reqs, SendChunk(r) \/ Receive(r)
    PROVE  LET x == req[r]
           IN \E y \in Request :
              /\ req' = [req EXCEPT ![r] = y]
              /\ y.pc = x.pc /\ y.mode = x.mode /\ y.attempt = x.attempt
              /\ y.id = x.id /\ y.live = x.live
              /\ Len(x.chan) =< ChanCap => Len(y.chan) =< ChanCap
              /\ \/ /\ x.out # <<>> /\ x.mode = "stream" /\ y.recv = x.recv
                    /\ y.chan = Append(x.chan, Head(x.out)) /\ y.out = Tail(x.out)
                 \/ /\ x.chan # <<>> /\ y.out = x.out
                    /\ y.recv = Append(x.recv, Head(x.chan)) /\ y.chan = Tail(x.chan)
<1> DEFINE x == req[r]
<1>0. x \in Request
  BY DEF Requests
<1>1. CASE SendChunk(r)
  <2> DEFINE y == [x EXCEPT !.chan = Append(x.chan, Head(x.out)), !.out = Tail(x.out)]
  <2>1. req' = [req EXCEPT ![r] = y] /\ x.out # <<>> /\ Len(x.chan) < ChanCap
        /\ x.mode = "stream"
    BY <1>1 DEF SendChunk, Streams, Requests
  <2>2. Append(x.chan, Head(x.out)) \in Seq(Event) /\ Tail(x.out) \in Seq(Event)
    BY <1>0, <2>1 DEF Request
  <2>3. Len(Append(x.chan, Head(x.out))) =< ChanCap
    BY <1>0, <2>1, BoundAssumption DEF Request
  <2>4. y \in Request
    BY <1>0, <2>2 DEF Request
  <2> QED
    BY <1>0, <2>1, <2>3, <2>4 DEF Request
<1>2. CASE Receive(r)
  <2> DEFINE y == [x EXCEPT !.recv = Append(x.recv, Head(x.chan)), !.chan = Tail(x.chan)]
  <2>1. req' = [req EXCEPT ![r] = y] /\ x.chan # <<>>
    BY <1>2 DEF Receive, Requests
  <2>2. Append(x.recv, Head(x.chan)) \in Seq(Event) /\ Tail(x.chan) \in Seq(Event)
    BY <1>0, <2>1 DEF Request
  <2>3. Len(x.chan) =< ChanCap => Len(Tail(x.chan)) =< ChanCap
    BY <1>0, <2>1, BoundAssumption DEF Request
  <2>4. y \in Request
    BY <1>0, <2>2 DEF Request
  <2> QED
    BY <1>0, <2>1, <2>3, <2>4 DEF Request
<1> QED
  BY <1>1, <1>2

\* Its first and its last actions, and the channel.
LEMMA EdgeSteps ==
    ASSUME Requests, NEW r \in Reqs, session.processedInputLen \in Nat,
           \/ Refuse(r) \/ Prepare(r) \/ UploadFails(r) \/ Cleanup(r) \/ Release(r)
           \/ Close(r) \/ SendChunk(r) \/ Receive(r)
    PROVE  \E y : Becomes(r, y) /\ y.pc \notin Asking \ {req[r].pc}
<1> DEFINE x == req[r]
           Goal(y) == Becomes(r, y) /\ y.pc \notin Asking \ {x.pc}
<1>0. x \in Request /\ Phase(x)
  BY DEF Requests
<1>1. ASSUME Refuse(r) \/ UploadFails(r) PROVE \E y : Goal(y)
  <2> DEFINE y == [x EXCEPT !.recv = <<"error">>, !.pc = "done"]
  <2>1. req' = [req EXCEPT ![r] = y] /\ x.pc \in {"start", "upload"}
    BY <1>1 DEF Refuse, UploadFails, At, Requests
  <2>3. <<"error">> \in Seq(Event)
    BY DEF Event
  <2>4. /\ y \in Request /\ y.mode = x.mode /\ y.chan = x.chan /\ y.pc = "done"
        /\ y.recv = <<"error">> /\ y.out = x.out /\ y.id = x.id /\ y.live = x.live
    BY <1>0, <2>3 DEF Request, Points
  <2> HIDE DEF y
  <2>5. Phase(y)
    BY <1>0, <2>1, <2>4, LeaveEarly DEF Early
  <2>6. ~Completes(y)
    <3>1. x.chan = <<>> /\ x.out = <<>>
      BY <1>0, <2>1 DEF Phase, Early
    <3>2. Shown(y) = <<"error">>
      BY <2>3, <2>4, <3>1 DEF Shown
    <3> QED
      BY <3>2 DEF Completes, ToSet
  <2>7. Becomes(r, y)
    BY <2>1, <2>4, <2>5, <2>6 DEF Becomes
  <2> QED
    BY <2>4, <2>7 DEF Asking
<1>2. ASSUME Prepare(r) PROVE \E y : Goal(y)
  <2> DEFINE items == TurnItems(NewItems(x.input))
             y == [x EXCEPT !.turn = items, !.pc = IF NeedsUpload(items) THEN "upload" ELSE "token"]
  <2>1. req' = [req EXCEPT ![r] = y] /\ x.pc = "start"
    BY <1>2 DEF Prepare, At, Requests
  <2>2. items \subseteq Item
    BY <1>0, TurnTypes DEF Request
  <2> HIDE DEF items
  <2>3. /\ y \in Request /\ y.mode = x.mode /\ y.chan = x.chan /\ y.pc \in {"upload", "token"}
        /\ y.recv = x.recv /\ y.out = x.out /\ y.id = x.id /\ y.live = x.live
    BY <1>0, <2>2 DEF Request, Points
  <2> HIDE DEF y
  <2>4. Phase(y)
    BY <1>0, <2>1, <2>3 DEF Phase, Early, Middle, Late
  <2>5. ~Completes(y)
    BY <2>3, <2>4, NotCompleted DEF Early
  <2>6. Becomes(r, y)
    BY <2>1, <2>3, <2>4, <2>5 DEF Becomes
  <2> QED
    BY <2>3, <2>6 DEF Asking
<1>3. ASSUME Cleanup(r) \/ Release(r) PROVE \E y : Goal(y)
  <2>1. PICK y \in Request :
           /\ req' = [req EXCEPT ![r] = y] /\ y.mode = x.mode /\ y.chan = x.chan
           /\ y.recv = x.recv /\ y.out = x.out /\ y.id = x.id /\ y.live = x.live
           /\ y.pc \in {"release", "close"}
    <3>1. CASE Cleanup(r)
      <4> DEFINE y == [x EXCEPT !.uploaded = FALSE, !.pc = "release"]
      <4>1. req' = [req EXCEPT ![r] = y] /\ y \in Request
        BY <1>0, <3>1 DEF Cleanup, Requests, Request, Points
      <4> QED
        BY <1>0, <4>1 DEF Request
    <3>2. CASE Release(r)
      <4> DEFINE y == [x EXCEPT !.pc = "close", !.turn = {}, !.snapshots = 0, !.saw = FALSE,
                                !.attempt = 0, !.cut = FALSE]
      <4>1. req' = [req EXCEPT ![r] = y]
        BY <3>2 DEF Release, Requests
      <4>2. 0 \in 0..maxToolCallRepairAttempts + 1
        BY DEF maxToolCallRepairAttempts
      <4>3. y \in Request
        BY <1>0, <4>2 DEF Request, Points
      <4> QED
        BY <1>0, <4>1, <4>3 DEF Request
    <3> QED
      BY <1>3, <3>1, <3>2
  <2>2. x.pc \in {"cleanup", "release"}
    BY <1>3 DEF Cleanup, Release, At
  <2>3. Phase(y) /\ Shown(y) = Shown(x)
    BY <1>0, <2>1, <2>2, StayLate DEF Late
  <2> QED
    BY <2>1, <2>3 DEF Becomes, Asking, Completes
<1>4. ASSUME Close(r) PROVE \E y : Goal(y)
  <2> DEFINE v == IF Streams(r) THEN x.recv ELSE x.out
             y == [x EXCEPT !.recv = v, !.out = <<>>, !.pc = "done"]
  <2>1. req' = [req EXCEPT ![r] = y] /\ x.pc = "close" /\ (x.mode = "stream" => x.out = <<>>)
    BY <1>4 DEF Close, At, Requests
  <2>2. v \in Seq(Event)
    BY <1>0 DEF Request
  <2> HIDE DEF v
  <2>3. /\ y \in Request /\ y.mode = x.mode /\ y.chan = x.chan /\ y.pc = "done"
        /\ y.recv = v /\ y.out = <<>> /\ y.id = x.id /\ y.live = x.live
    <3>1. \A d, e \in Seq(Event) : [x EXCEPT !.recv = d, !.out = e, !.pc = "done"] \in Request
      BY <1>0 DEF Request, Points
    <3>2. y \in Request
      <4>1. <<>> \in Seq(Event)
        OBVIOUS
      <4> QED
        BY <2>2, <3>1, <4>1
    <3> QED
      BY <1>0, <3>2 DEF Request
  <2>4. x.mode \in {"stream", "sync"} /\ (Streams(r) <=> x.mode = "stream")
    BY <1>0 DEF Request, Streams
  <2> HIDE DEF y
  <2>5. Phase(y) /\ Shown(y) = Shown(x)
    <3>1. CASE x.mode = "stream"
      BY <1>0, <2>1, <2>3, <2>4, <3>1, StayLate DEF Late, v
    <3>2. CASE x.mode = "sync"
      BY <1>0, <2>1, <2>3, <2>4, <3>2, StayLate DEF Late, v
    <3> QED
      BY <2>4, <3>1, <3>2
  <2> QED
    BY <2>1, <2>3, <2>5 DEF Becomes, Asking, Completes
<1>5. ASSUME SendChunk(r) \/ Receive(r) PROVE \E y : Goal(y)
  <2>1. PICK y \in Request :
           /\ req' = [req EXCEPT ![r] = y]
           /\ y.pc = x.pc /\ y.mode = x.mode /\ y.attempt = x.attempt
           /\ y.id = x.id /\ y.live = x.live
           /\ Len(x.chan) =< ChanCap => Len(y.chan) =< ChanCap
           /\ \/ /\ x.out # <<>> /\ x.mode = "stream" /\ y.recv = x.recv
                 /\ y.chan = Append(x.chan, Head(x.out)) /\ y.out = Tail(x.out)
              \/ /\ x.chan # <<>> /\ y.out = x.out
                 /\ y.recv = Append(x.recv, Head(x.chan)) /\ y.chan = Tail(x.chan)
    BY <1>5, ChannelStep
  <2>2. Phase(y) /\ Shown(y) = Shown(x)
    BY <1>0, <2>1, Transport
  <2>3. Becomes(r, y)
    BY <2>1, <2>2 DEF Becomes, Completes
  <2> QED
    BY <2>1, <2>3
<1> QED
  BY <1>1, <1>2, <1>3, <1>4, <1>5

\* Every step of a request, its own or the SDK's reading for it.
LEMMA ServeStep ==
    ASSUME Requests, NEW r \in Reqs, session.processedInputLen \in Nat, Serve(r) \/ Receive(r)
    PROVE  \E y : Becomes(r, y) /\ (y.pc \in Asking => req[r].pc \in Asking \/ Chat(r))
<1>1. CASE \/ Refuse(r) \/ Prepare(r) \/ UploadFails(r) \/ Cleanup(r) \/ Release(r)
           \/ Close(r) \/ SendChunk(r) \/ Receive(r)
  BY <1>1, EdgeSteps
<1>2. CASE \/ Upload(r) \/ Token(r) \/ TokenFails(r) \/ Converse(r) \/ ConverseFails(r)
           \/ ChatFails(r)
  <2>1. PICK y : Becomes(r, y)
    BY <1>2, TurnSteps
  <2>2. req'[r] = y /\ req[r] \in Request
    BY <2>1 DEF Becomes, Requests
  <2>3. req'[r].pc \notin Asking
    <3>1. CASE Upload(r) \/ Token(r) \/ Converse(r)
      BY <2>2, <3>1 DEF Upload, Token, Converse, Asking, Requests, Request
    <3>2. CASE TokenFails(r) \/ ConverseFails(r) \/ ChatFails(r)
      <4>1. \/ req' = [req EXCEPT ![r].out = @ \o Failure(r), ![r].pc = Deferred(r)]
            \/ req' = [req EXCEPT ![r].out = Failure(r), ![r].pc = Deferred(r)]
        BY <3>2 DEF TokenFails, ConverseFails, ChatFails, Fail
      <4>2. req'[r].pc = Deferred(r)
        BY <2>2, <4>1 DEF Requests, Request
      <4> QED
        BY <4>2 DEF Deferred, Asking
    <3> QED
      BY <1>2, <3>1, <3>2
  <2> QED
    BY <2>1, <2>2, <2>3
<1>3. CASE Chat(r)
  BY <1>3, TurnSteps
<1>4. CASE \/ Snapshot(r) \/ ToolCalls(r) \/ StreamEnds(r) \/ Repair(r) \/ RepairFails(r)
           \/ RepairStreamEnds(r) \/ RepairSucceeds(r) \/ RepairGivesUp(r)
  <2>1. req[r].pc \in Asking
    BY <1>4 DEF Snapshot, ToolCalls, StreamEnds, Repair, RepairFails, RepairStreamEnds,
                RepairSucceeds, RepairGivesUp, At, Asking
  <2> QED
    BY <1>4, <2>1, TurnSteps
<1> QED
  BY <1>1, <1>2, <1>3, <1>4 DEF Serve

-----------------------------------------------------------------------------
(* The invariant *)

\* A request that listens to the upstream, or has completed, has posted.
PostInv ==
    \A r \in Reqs : req[r].pc \in Asking \/ Completes(req[r]) =>
        \E k \in DOMAIN posts : posts[k].id = req[r].id

\* A session in flight is held by a request.
HeldInv == session.inFlight => \E r \in Reqs : Holds(r)

\* A client that goes on at the end of a stream waits for every request it has
\* not hung up on.
WaitInv == HandOver = "eof" => \A r \in Reqs : req[r].live => client.waiting = r

ExecutorInv ==
    TypeOK /\ (\A r \in Reqs : Phase(req[r])) /\ PostInv /\ HeldInv /\ WaitInv

LEMMA Typed == TypeOK <=>
    /\ client \in [hist : Seq(Item), waiting : Reqs \cup {NoReq},
                   submitted : Nat, written : Nat, nextId : Nat]
    /\ session \in Session
    /\ losses \in Nat /\ convs \in Nat
    /\ req \in [Reqs -> Request]
    /\ \A r \in Reqs : Len(req[r].chan) <= ChanCap
    /\ posts \in Seq([id : Nat, conv : Nat, items : SUBSET Item, repair : BOOLEAN])
    /\ gone \in SUBSET Item
BY DEF TypeOK, Request, Session

\* An empty slot.
LEMMA Empty ==
    /\ NoRequest \in Request /\ Phase(NoRequest) /\ ~Completes(NoRequest)
    /\ Len(NoRequest.chan) =< ChanCap /\ NoRequest.live = FALSE /\ NoRequest.pc = "free"
<1>1. NoRequest \in Request
  <2>1. 0 \in 0..maxToolCallRepairAttempts + 1
    BY DEF maxToolCallRepairAttempts
  <2> QED
    BY <2>1 DEF NoRequest, Request, Points
<1>2. Phase(NoRequest)
  BY DEF NoRequest, Phase, Early, Middle, Late
<1>3. ~Completes(NoRequest)
  BY <1>1, <1>2, NotCompleted DEF NoRequest, Early
<1> QED
  BY <1>1, <1>2, <1>3, BoundAssumption DEF NoRequest

LEMMA InitExecutor == Init => ExecutorInv
<1> SUFFICES ASSUME Init PROVE ExecutorInv
  OBVIOUS
<1>1. \A r \in Reqs : req[r] = NoRequest
  BY DEF Init
<1>2. TypeOK
  <2>1. client \in [hist : Seq(Item), waiting : Reqs \cup {NoReq},
                    submitted : Nat, written : Nat, nextId : Nat]
    BY DEF Init
  <2>2. session \in Session
    BY DEF Init, NewSession, NoConv, Session
  <2>3. req \in [Reqs -> Request] /\ \A r \in Reqs : Len(req[r].chan) =< ChanCap
    BY Empty DEF Init
  <2>4. /\ posts \in Seq([id : Nat, conv : Nat, items : SUBSET Item, repair : BOOLEAN])
        /\ losses \in Nat /\ convs \in Nat /\ gone \in SUBSET Item
    BY DEF Init
  <2> QED
    BY <2>1, <2>2, <2>3, <2>4, Typed
<1>3. PostInv
  BY <1>1, Empty DEF PostInv, Asking
<1>4. HeldInv /\ WaitInv
  BY <1>1, Empty DEF Init, HeldInv, WaitInv, NewSession
<1> QED
  BY <1>1, <1>2, <1>3, <1>4, Empty DEF ExecutorInv

Post == [id : Nat, conv : Nat, items : SUBSET Item, repair : BOOLEAN]

\* The other variables, in a step of a request.
LEMMA ServeTypes ==
    ASSUME TypeOK, NEW r \in Reqs, Serve(r) \/ Receive(r)
    PROVE  /\ client' = client /\ losses' = losses
           /\ session' \in Session
           /\ convs' \in Nat /\ posts' \in Seq(Post) /\ gone' \in SUBSET Item
           /\ posts' = posts \/ \E p \in Post : posts' = Append(posts, p)
           /\ Chat(r) => \E p \in Post : posts' = Append(posts, p) /\ p.id = req[r].id
<1>0. /\ session \in Session
      /\ convs \in Nat /\ posts \in Seq(Post) /\ gone \in SUBSET Item /\ req[r] \in Request
  BY Typed DEF Post
<1>1. client' = client /\ losses' = losses
  BY DEF Serve, Refuse, Prepare, Upload, UploadFails, Token, TokenFails, Converse, ConverseFails,
         Chat, ChatFails, Snapshot, ToolCalls, StreamEnds, Repair, RepairFails, RepairStreamEnds,
         RepairSucceeds, RepairGivesUp, Cleanup, Release, Close, SendChunk, Receive
<1>2. /\ session' \in Session
      /\ convs' \in Nat
  <2>1. CASE Prepare(r)
    <3>1. req[r].input \in Seq(Item) /\ Len(req[r].input) \in Nat
      BY <1>0 DEF Request
    <3>2. Unnoticed(req[r].input) \in BOOLEAN
      BY <1>0 DEF Unnoticed, Session, IsReset, IsText
    <3> QED
      BY <1>0, <2>1, <3>1, <3>2 DEF Prepare, NoConv, Session
  <2>2. CASE UploadFails(r) \/ Release(r)
    BY <1>0, <2>2 DEF UploadFails, Release, Session
  <2>3. CASE Converse(r)
    BY <1>0, <2>3 DEF Converse, Session
  <2>4. CASE session' = session /\ convs' = convs
    BY <1>0, <2>4
  <2> QED
    BY <2>1, <2>2, <2>3, <2>4
       DEF Serve, Refuse, Upload, Token, TokenFails, ConverseFails,
           Chat, ChatFails, Snapshot, ToolCalls, StreamEnds, Repair, RepairFails, RepairStreamEnds,
           RepairSucceeds, RepairGivesUp, Cleanup, Close, SendChunk, Receive
<1>3. ASSUME NEW b \in BOOLEAN, Accept(r, b)
      PROVE  \E p \in Post : posts' = Append(posts, p) /\ p.id = req[r].id
  <2> DEFINE items == IF b THEN Outputs(req[r].turn) ELSE req[r].turn
             p == [id |-> req[r].id, conv |-> session.conversationID, repair |-> b,
                   items |-> items]
  <2>1. items \in SUBSET Item
    BY <1>0 DEF Request, Outputs
  <2>2. posts' = Append(posts, p)
    BY <1>3 DEF Accept
  <2> HIDE DEF items
  <2>3. p \in Post /\ p.id = req[r].id
    BY <1>0, <2>1 DEF Session, Post, Request
  <2> HIDE DEF p
  <2> QED
    BY <2>2, <2>3
<1>4. posts' = posts \/ \E p \in Post : posts' = Append(posts, p) /\ p.id = req[r].id
  <2>1. posts' = posts \/ Accept(r, TRUE) \/ Accept(r, FALSE)
    BY DEF Serve, Refuse, Prepare, Upload, UploadFails, Token, TokenFails, Converse,
           ConverseFails, Chat, ChatFails, Snapshot, ToolCalls, StreamEnds, Repair, RepairFails,
           RepairStreamEnds, RepairSucceeds, RepairGivesUp, Cleanup, Release, Close, SendChunk,
           Receive
  <2> QED
    BY <2>1, <1>3
<1>5. Chat(r) => \E p \in Post : posts' = Append(posts, p) /\ p.id = req[r].id
  BY <1>3 DEF Chat
<1>6. gone' \in SUBSET Item
  <2>1. req[r].turn \subseteq Item
    BY <1>0 DEF Request
  <2>2. Superseded(NewItems(req[r].input)) \subseteq Item
    <3>1. NewItems(req[r].input) \in Seq(Item)
      BY <1>0, TurnTypes DEF Session, Request
    <3> QED
      BY <3>1 DEF Superseded
  <2>3. \/ gone' = gone \/ gone' = gone \cup (req[r].turn \ Posted)
        \/ gone' = gone \cup Superseded(NewItems(req[r].input))
    BY DEF Serve, Refuse, Prepare, Upload, UploadFails, Token, TokenFails, Fail, Converse,
           ConverseFails, Chat, ChatFails, Snapshot, ToolCalls, StreamEnds, Repair, RepairFails,
           RepairStreamEnds, RepairSucceeds, RepairGivesUp, Cleanup, Release, Close, SendChunk,
           Receive
  <2> QED
    BY <1>0, <2>1, <2>2, <2>3
<1>7. posts' \in Seq(Post)
  BY <1>0, <1>4
<1> QED
  BY <1>1, <1>2, <1>4, <1>5, <1>6, <1>7

\* Posts are never taken back.
LEMMA StaysAsked ==
    ASSUME posts \in Seq(Post),
           posts' = posts \/ \E p \in Post : posts' = Append(posts, p)
    PROVE  \A i : (\E k \in DOMAIN posts : posts[k].id = i)
                      => \E k \in DOMAIN posts' : posts'[k].id = i
<1>1. \A k \in DOMAIN posts : k \in DOMAIN posts' /\ posts'[k] = posts[k]
  <2>1. CASE posts' = posts
    BY <2>1
  <2>2. ASSUME NEW p \in Post, posts' = Append(posts, p)
        PROVE  \A k \in DOMAIN posts : k \in DOMAIN posts' /\ posts'[k] = posts[k]
    <3>1. /\ DOMAIN posts = 1..Len(posts) /\ Len(posts) \in Nat
          /\ DOMAIN posts' = 1..(Len(posts) + 1)
          /\ \A k \in 1..Len(posts) : posts'[k] = posts[k]
      BY <2>2
    <3> QED
      BY <3>1
  <2> QED
    BY <2>1, <2>2
<1> QED
  BY <1>1

\* One request changes and keeps its phase: what that means for all of them.
LEMMA Replace ==
    ASSUME ExecutorInv, NEW r \in Reqs, NEW y \in Request, Phase(y), Len(y.chan) =< ChanCap,
           req' = [req EXCEPT ![r] = y]
    PROVE  /\ req' \in [Reqs -> Request] /\ req'[r] = y
           /\ \A q \in Reqs \ {r} : req'[q] = req[q]
           /\ \A q \in Reqs : Phase(req'[q]) /\ Len(req'[q].chan) =< ChanCap
<1>1. /\ req \in [Reqs -> Request]
      /\ \A q \in Reqs : Phase(req[q]) /\ Len(req[q].chan) =< ChanCap
  BY Typed DEF ExecutorInv
<1>2. req' \in [Reqs -> Request] /\ req'[r] = y /\ \A q \in Reqs \ {r} : req'[q] = req[q]
  BY <1>1
<1> QED
  BY <1>1, <1>2

LEMMA StepServe ==
    ASSUME ExecutorInv, NEW r \in Reqs, Serve(r) \/ Receive(r)
    PROVE  ExecutorInv'
<1>1. /\ TypeOK /\ Requests /\ session.processedInputLen \in Nat /\ posts \in Seq(Post)
      /\ Len(req[r].chan) =< ChanCap
  BY Typed DEF Session, ExecutorInv, Requests, Post
<1>2. PICK y : Becomes(r, y) /\ (y.pc \in Asking => req[r].pc \in Asking \/ Chat(r))
  BY <1>1, ServeStep
<1>3. /\ req' \in [Reqs -> Request] /\ req'[r] = y
      /\ \A q \in Reqs \ {r} : req'[q] = req[q]
      /\ \A q \in Reqs : Phase(req'[q]) /\ Len(req'[q].chan) =< ChanCap
      /\ y.id = req[r].id /\ y.live = req[r].live
  BY <1>1, <1>2, Replace DEF Becomes
<1>4. /\ client' = client /\ losses' = losses
      /\ session' \in Session
      /\ convs' \in Nat /\ posts' \in Seq(Post) /\ gone' \in SUBSET Item
  BY <1>1, ServeTypes
<1>5. TypeOK'
  <2>1. /\ client' \in [hist : Seq(Item), waiting : Reqs \cup {NoReq},
                        submitted : Nat, written : Nat, nextId : Nat]
        /\ losses' \in Nat
    BY <1>1, <1>4, Typed
  <2> QED
    BY <1>3, <1>4, <2>1 DEF Session, TypeOK, Request, Post
<1>6. PostInv'
  <2>1. \A i : (\E k \in DOMAIN posts : posts[k].id = i)
                 => \E k \in DOMAIN posts' : posts'[k].id = i
    BY <1>1, ServeTypes, StaysAsked
  <2>2. Chat(r) => \E k \in DOMAIN posts' : posts'[k].id = req[r].id
    <3>1. ASSUME NEW p \in Post, posts' = Append(posts, p), p.id = req[r].id
          PROVE  \E k \in DOMAIN posts' : posts'[k].id = req[r].id
      <4>1. Len(posts) + 1 \in DOMAIN posts' /\ posts'[Len(posts) + 1] = p
        BY <1>1, <3>1
      <4> QED
        BY <3>1, <4>1
    <3> QED
      BY <1>1, <3>1, ServeTypes
  <2>3. ASSUME NEW q \in Reqs, req'[q].pc \in Asking \/ Completes(req'[q])
        PROVE  \E k \in DOMAIN posts' : posts'[k].id = req'[q].id
    <3>1. CASE q # r
      <4>1. req'[q] = req[q] /\ \E k \in DOMAIN posts : posts[k].id = req[q].id
        BY <1>3, <2>3, <3>1 DEF ExecutorInv, PostInv
      <4> QED
        BY <2>1, <4>1
    <3>2. CASE q = r
      <4>1. req[r].pc \in Asking \/ Completes(req[r]) \/ Chat(r)
        BY <1>2, <1>3, <2>3, <3>2 DEF Becomes
      <4>2. (\E k \in DOMAIN posts : posts[k].id = req[r].id) \/ Chat(r)
        BY <4>1 DEF ExecutorInv, PostInv
      <4> QED
        BY <1>3, <2>1, <2>2, <3>2, <4>2
    <3> QED
      BY <3>1, <3>2
  <2>4. \A q \in Reqs : Completes(req[q])' = Completes(req'[q])
    BY DEF Completes, Shown
  <2> QED
    BY <2>3, <2>4 DEF PostInv
<1>7. HeldInv'
  <2> SUFFICES ASSUME session'.inFlight PROVE \E q \in Reqs : Holds(q)'
    BY DEF HeldInv
  <2>1. session.inFlight \/ Prepare(r)
    BY <1>1, Typed DEF Session, Serve, Refuse, Prepare, Upload, UploadFails, Token, TokenFails, Converse,
           ConverseFails, Chat, ChatFails, Snapshot, ToolCalls, StreamEnds, Repair, RepairFails,
           RepairStreamEnds, RepairSucceeds, RepairGivesUp, Cleanup, Release, Close, SendChunk,
           Receive
  <2>2. CASE Prepare(r)
    <3>1. req'[r].pc \in {"upload", "token"}
      BY <1>1, <2>2 DEF Prepare, Requests, Request
    <3> QED
      BY <3>1 DEF Holds
  <2>3. CASE session.inFlight
    <3>1. PICK q \in Reqs : Holds(q)
      BY <2>3 DEF ExecutorInv, HeldInv
    <3>2. CASE q # r
      BY <1>3, <3>1, <3>2 DEF Holds
    <3>3. CASE q = r
      <4>1. Holds(r)'
        <5>1. ~Refuse(r) /\ ~Prepare(r) /\ ~UploadFails(r) /\ ~Release(r) /\ ~Close(r)
          BY <1>1, <2>3, <3>1, <3>3, Typed
             DEF Session, Holds, Refuse, Prepare, UploadFails, Release, Close, At
        <5>2. CASE Cleanup(r) \/ SendChunk(r) \/ Receive(r)
          <6>1. req'[r].pc = "release" \/ req'[r].pc = req[r].pc
            <7>1. req \in [Reqs -> Request] /\ req[r] \in Request
              BY <1>1 DEF Requests
            <7>2. CASE Cleanup(r)
              BY <7>1, <7>2 DEF Cleanup, Request
            <7>3. CASE SendChunk(r)
              BY <7>1, <7>3 DEF SendChunk, Request
            <7>4. CASE Receive(r)
              BY <7>1, <7>4 DEF Receive, Request
            <7> QED
              BY <5>2, <7>2, <7>3, <7>4
          <6> QED
            BY <3>1, <3>3, <6>1 DEF Holds
        <5>3. CASE ~(Cleanup(r) \/ SendChunk(r) \/ Receive(r))
          <6>1. PICK z : Becomes(r, z) /\ z.pc \notin {"free", "start", "close", "done"}
            BY <1>1, <5>1, <5>3, TurnSteps DEF Serve
          <6>2. req'[r] = z
            BY <1>1, <6>1 DEF Becomes, Requests
          <6> QED
            BY <6>1, <6>2 DEF Holds
        <5> QED
          BY <5>2, <5>3
      <4> QED
        BY <4>1
    <3> QED
      BY <3>2, <3>3
  <2> QED
    BY <2>1, <2>2, <2>3
<1>8. WaitInv'
  BY <1>3, <1>4 DEF ExecutorInv, WaitInv
<1> QED
  BY <1>3, <1>5, <1>6, <1>7, <1>8 DEF ExecutorInv

\* The slot r gets a request that has done nothing yet, or becomes empty.
LEMMA Fresh ==
    ASSUME ExecutorInv, NEW r \in Reqs, NEW y \in Request, y.pc \in {"free", "start"},
           Phase(y), Len(y.chan) =< ChanCap, req' = [req EXCEPT ![r] = y],
           req[r].pc = "free" \/ req[r].pc = "done",
           UNCHANGED <<session, losses, posts, convs, gone>>
    PROVE  /\ req' \in [Reqs -> Request] /\ PostInv' /\ HeldInv'
           /\ \A q \in Reqs : Phase(req'[q]) /\ Len(req'[q].chan) =< ChanCap
           /\ req'[r] = y /\ \A q \in Reqs \ {r} : req'[q] = req[q]
<1>1. /\ req' \in [Reqs -> Request] /\ req'[r] = y
      /\ \A q \in Reqs \ {r} : req'[q] = req[q]
      /\ \A q \in Reqs : Phase(req'[q]) /\ Len(req'[q].chan) =< ChanCap
  BY Replace
<1>2. ~Completes(y) /\ y.pc \notin Asking
  BY NotCompleted DEF Early, Asking
<1>3. PostInv'
  <2>1. ASSUME NEW q \in Reqs, req'[q].pc \in Asking \/ Completes(req'[q])
        PROVE  \E k \in DOMAIN posts' : posts'[k].id = req'[q].id
    <3>1. q # r /\ req'[q] = req[q] /\ posts' = posts
      BY <1>1, <1>2, <2>1
    <3> QED
      BY <2>1, <3>1 DEF ExecutorInv, PostInv
  <2>2. \A q \in Reqs : Completes(req[q])' = Completes(req'[q])
    BY DEF Completes, Shown
  <2> QED
    BY <2>1, <2>2 DEF PostInv
<1>4. HeldInv'
  BY <1>1 DEF ExecutorInv, HeldInv, Holds
<1> QED
  BY <1>1, <1>3, <1>4

Client == [hist : Seq(Item), waiting : Reqs \cup {NoReq},
           submitted : Nat, written : Nat, nextId : Nat]

\* The client submits input.
LEMMA IssueStep ==
    ASSUME ExecutorInv, NEW r \in Reqs, NEW input \in Seq(Item), NEW c \in Client,
           Issue(r, input, c)
    PROVE  ExecutorInv'
<1>1. PICK m \in Modes, tl \in ToolSets :
         req' = [req EXCEPT ![r] = [NoRequest EXCEPT
            !.pc = "start", !.id = client.submitted + 1, !.input = input,
            !.mode = m, !.tools = tl, !.live = TRUE]]
  BY DEF Issue
<1> DEFINE y == [NoRequest EXCEPT
            !.pc = "start", !.id = client.submitted + 1, !.input = input,
            !.mode = m, !.tools = tl, !.live = TRUE]
<1>2. client \in Client /\ client.submitted + 1 \in Nat
  BY Typed DEF ExecutorInv, Client
<1>3. y \in Request /\ y.pc = "start" /\ y.live = TRUE
      /\ y.recv = <<>> /\ y.chan = <<>> /\ y.out = <<>>
  <2>1. m \in {"stream", "sync"} /\ tl \in BOOLEAN
    BY ClientAssumption
  <2>2. NoRequest \in Request
    BY Empty
  <2>3. \A k \in Nat : [NoRequest EXCEPT !.pc = "start", !.id = k, !.input = input,
                                          !.mode = m, !.tools = tl, !.live = TRUE] \in Request
    BY <2>1, <2>2 DEF Request, Points
  <2>4. y \in Request
    BY <1>2, <2>3
  <2> QED
    BY <2>4 DEF NoRequest
<1> HIDE DEF y
<1>4. Phase(y) /\ Len(y.chan) =< ChanCap
  BY <1>3, BoundAssumption DEF Phase, Early, Middle, Late
<1>5. req' = [req EXCEPT ![r] = y]
  BY <1>1 DEF y
<1>6. /\ req' \in [Reqs -> Request] /\ PostInv' /\ HeldInv'
      /\ \A q \in Reqs : Phase(req'[q]) /\ Len(req'[q].chan) =< ChanCap
      /\ req'[r] = y /\ \A q \in Reqs \ {r} : req'[q] = req[q]
  BY <1>3, <1>4, <1>5, Fresh DEF Issue
<1>7. client' \in Client /\ client'.waiting = r
  <2>1. c.submitted + 1 \in Nat /\ client' = [c EXCEPT !.waiting = r, !.submitted = @ + 1]
    BY DEF Issue, Client
  <2>2. \A k \in Nat : [c EXCEPT !.waiting = r, !.submitted = k] \in Client
    BY DEF Client
  <2>3. client' \in Client
    BY <2>1, <2>2
  <2> QED
    BY <2>1, <2>3 DEF Client
<1>8. WaitInv'
  <2>1. HandOver = "eof" => \A q \in Reqs : ~req[q].live
    BY NoReqAssumption DEF Issue, ExecutorInv, WaitInv
  <2> QED
    BY <1>6, <1>7, <2>1 DEF WaitInv
<1>9. TypeOK'
  BY <1>6, <1>7, Typed DEF TypeOK, Request, Client, Issue, ExecutorInv
<1> QED
  BY <1>6, <1>8, <1>9 DEF ExecutorInv

\* What the client writes, and how it goes on.
LEMMA ClientStep ==
    ASSUME ExecutorInv,
           \/ WriteMessage
           \/ \E r \in Reqs : Submit(r) \/ SubmitText(r) \/ SubmitCompacted(r)
    PROVE  ExecutorInv'
<1>1. client \in Client /\ client.nextId \in Nat
  BY Typed DEF ExecutorInv, Client
<1>2. \A k \in Nat, kind \in {"user", "mute", "output", "blank", "assistant", "text"}, b \in BOOLEAN :
         [id |-> k, kind |-> kind, images |-> b] \in Item
  BY DEF Item
<1>3. CASE WriteMessage
  <2>1. PICK kind \in UserKinds, img \in ImageSets :
           client' = [client EXCEPT
              !.hist = Append(@, [id |-> client.nextId, kind |-> kind, images |-> img]),
              !.written = @ + 1, !.nextId = @ + 1]
    BY <1>3 DEF WriteMessage
  <2> DEFINE h == Append(client.hist, [id |-> client.nextId, kind |-> kind, images |-> img])
  <2>2. h \in Seq(Item)
    <3>1. img \in BOOLEAN /\ kind \in {"user", "mute"}
      BY ClientAssumption
    <3>2. [id |-> client.nextId, kind |-> kind, images |-> img] \in Item
      BY <1>1, <1>2, <3>1
    <3> QED
      BY <1>1, <3>2 DEF Client
  <2>3. client' = [client EXCEPT !.hist = h, !.written = @ + 1, !.nextId = @ + 1]
    BY <2>1
  <2> HIDE DEF h
  <2>4. client.written + 1 \in Nat /\ client.nextId + 1 \in Nat
    BY <1>1 DEF Client
  <2>5. \A j, k \in Nat : [client EXCEPT !.hist = h, !.written = j, !.nextId = k] \in Client
    BY <1>1, <2>2 DEF Client
  <2>6. client' \in Client
    BY <2>3, <2>4, <2>5
  <2>7. client'.waiting = client.waiting
    BY <1>1, <2>3 DEF Client
  <2>8. UNCHANGED <<session, losses, req, posts, convs, gone>>
    BY <1>3 DEF WriteMessage
  <2>9. TypeOK'
    BY <2>6, <2>8, Typed DEF TypeOK, Client, ExecutorInv, Request
  <2> QED
    BY <2>7, <2>8, <2>9
       DEF ExecutorInv, PostInv, HeldInv, WaitInv, Holds, Completes, Shown
<1>4. ASSUME NEW r \in Reqs, Submit(r) PROVE ExecutorInv'
  <2>1. client.hist \in Seq(Item)
    BY <1>1 DEF Client
  <2> QED
    BY <1>1, <1>4, <2>1, IssueStep DEF Submit
<1>5. ASSUME NEW r \in Reqs, SubmitText(r) PROVE ExecutorInv'
  <2> DEFINE text == <<[id |-> client.nextId, kind |-> "text", images |-> FALSE]>>
             c == [client EXCEPT !.written = @ + 1, !.nextId = @ + 1]
  <2>1. text \in Seq(Item)
    <3>1. [id |-> client.nextId, kind |-> "text", images |-> FALSE] \in Item
      BY <1>1, <1>2
    <3> QED
      BY <3>1
  <2>2. c \in Client
    <3>1. client.written + 1 \in Nat /\ client.nextId + 1 \in Nat
      BY <1>1 DEF Client
    <3>2. \A j, k \in Nat : [client EXCEPT !.written = j, !.nextId = k] \in Client
      BY <1>1 DEF Client
    <3> QED
      BY <3>1, <3>2
  <2>3. Issue(r, text, c)
    BY <1>5 DEF SubmitText
  <2> HIDE DEF text, c
  <2> QED
    BY <2>1, <2>2, <2>3, IssueStep
<1>6. ASSUME NEW r \in Reqs, SubmitCompacted(r) PROVE ExecutorInv'
  <2> DEFINE summary == <<[id |-> client.nextId, kind |-> "user", images |-> FALSE]>>
             c == [client EXCEPT !.hist = summary, !.written = @ + 1, !.nextId = @ + 1]
  <2>1. summary \in Seq(Item)
    <3>1. [id |-> client.nextId, kind |-> "user", images |-> FALSE] \in Item
      BY <1>1, <1>2
    <3> QED
      BY <3>1
  <2>2. Issue(r, summary, c)
    BY <1>6 DEF SubmitCompacted
  <2> HIDE DEF summary
  <2>3. c \in Client
    <3>1. client.written + 1 \in Nat /\ client.nextId + 1 \in Nat
      BY <1>1 DEF Client
    <3>2. \A j, k \in Nat :
             [client EXCEPT !.hist = summary, !.written = j, !.nextId = k] \in Client
      BY <1>1, <2>1 DEF Client
    <3> QED
      BY <3>1, <3>2
  <2> HIDE DEF c
  <2> QED
    BY <2>1, <2>2, <2>3, IssueStep
<1> QED
  BY <1>3, <1>4, <1>5, <1>6

\* A slot is given back.
LEMMA FreeStep ==
    ASSUME ExecutorInv, NEW r \in Reqs, AtEof(r), req' = [req EXCEPT ![r] = NoRequest],
           client' \in Client, UNCHANGED <<session, losses, posts, convs, gone>>,
           client'.waiting = client.waiting \/ client.waiting = r
    PROVE  ExecutorInv'
<1>1. /\ req' \in [Reqs -> Request] /\ PostInv' /\ HeldInv'
      /\ \A q \in Reqs : Phase(req'[q]) /\ Len(req'[q].chan) =< ChanCap
      /\ req'[r] = NoRequest /\ \A q \in Reqs \ {r} : req'[q] = req[q]
  BY Empty, Fresh DEF AtEof
<1>2. TypeOK'
  BY <1>1, Typed DEF TypeOK, Client, ExecutorInv, Request
<1>3. WaitInv'
  BY <1>1, Empty DEF ExecutorInv, WaitInv
<1> QED
  BY <1>1, <1>2, <1>3 DEF ExecutorInv

\* The items a client goes on with: fresh, in order, and none of them a string.
LEMMA Appended ==
    ASSUME TypeOK, NEW r \in Reqs, GoOn(r)
    PROVE  \E new \in Seq(Item) :
              /\ \A k \in 1..Len(new) : new[k].id = client.nextId + k - 1 /\ new[k].kind # "text"
              /\ client' = [client EXCEPT !.hist = @ \o new, !.nextId = @ + Len(new),
                                          !.waiting = NoReq]
<1> DEFINE completed == "completed" \in ToSet(req[r].recv) /\ ~IsText(req[r].input)
           calls == IF completed THEN CallsIn(req[r].recv) ELSE 0
           said == IF completed /\ calls = 0 THEN 1 ELSE calls
           items(kinds) == [n \in 1 .. said + calls |->
                     [id |-> client.nextId + n - 1, images |-> FALSE,
                      kind |-> IF n <= said THEN "assistant" ELSE kinds[n - said]]]
<1>0. client.nextId \in Nat /\ req[r].recv \in Seq(Event)
  BY Typed DEF Client, Request
<1>1. calls \in Nat /\ said \in Nat
  <2>1. DOMAIN req[r].recv = 1..Len(req[r].recv) /\ Len(req[r].recv) \in Nat
    BY <1>0
  <2>2. IsFiniteSet(DOMAIN req[r].recv)
    BY <2>1, FS_Interval
  <2>3. CallsIn(req[r].recv) \in Nat
    BY <2>2, FS_Subset, FS_CardinalityType DEF CallsIn
  <2> QED
    BY <2>3
<1>2. PICK kinds \in [1 .. calls -> OutputKinds] :
         client' = [client EXCEPT !.hist = @ \o items(kinds), !.nextId = @ + said + calls,
                                  !.waiting = NoReq]
  BY DEF GoOn
<1> DEFINE new == items(kinds)
<1> HIDE DEF calls, said
<1>3. ASSUME NEW n \in 1 .. said + calls
      PROVE  new[n] \in Item /\ new[n].id = client.nextId + n - 1 /\ new[n].kind # "text"
  <2>1. new[n] = [id |-> client.nextId + n - 1, images |-> FALSE,
                  kind |-> IF n <= said THEN "assistant" ELSE kinds[n - said]]
    OBVIOUS
  <2>2. ~(n <= said) => n - said \in 1..calls
    BY <1>1
  <2>3. ~(n <= said) => kinds[n - said] \in {"output", "blank"}
    BY <1>2, <2>2, ClientAssumption
  <2>4. client.nextId + n - 1 \in Nat
    BY <1>0, <1>1
  <2> HIDE DEF new
  <2> QED
    BY <2>1, <2>3, <2>4 DEF Item
<1>4. new \in Seq(Item) /\ Len(new) = said + calls
  <2>1. said + calls \in Nat /\ DOMAIN new = 1 .. said + calls
    BY <1>1
  <2>2. new = [n \in 1 .. said + calls |-> new[n]]
    OBVIOUS
  <2> HIDE DEF new
  <2> QED
    BY <1>3, <2>1, <2>2
<1>5. client' = [client EXCEPT !.hist = @ \o new, !.nextId = @ + Len(new), !.waiting = NoReq]
  <2>1. client.nextId + said + calls = client.nextId + Len(new)
    BY <1>0, <1>1, <1>4
  <2> HIDE DEF new
  <2> QED
    BY <1>2, <2>1 DEF new
<1> HIDE DEF new
<1> QED
  BY <1>3, <1>4, <1>5

LEMMA GoOnStep == ASSUME ExecutorInv, NEW r \in Reqs, GoOn(r) PROVE ExecutorInv'
<1>1. client \in Client /\ client.nextId \in Nat
  BY Typed DEF ExecutorInv, Client
<1>2. client' \in Client /\ client'.waiting = NoReq
  <2>1. PICK new \in Seq(Item) :
           client' = [client EXCEPT !.hist = @ \o new, !.nextId = @ + Len(new), !.waiting = NoReq]
    BY Appended DEF ExecutorInv
  <2>2. client.hist \o new \in Seq(Item) /\ client.nextId + Len(new) \in Nat
    BY <1>1, <2>1 DEF Client
  <2>3. \A h \in Seq(Item), k \in Nat :
           [client EXCEPT !.hist = h, !.nextId = k, !.waiting = NoReq] \in Client
    BY <1>1 DEF Client
  <2>4. client' \in Client
    BY <2>1, <2>2, <2>3
  <2> QED
    BY <1>1, <2>1, <2>4 DEF Client
<1>3. CASE AtEof(r)
  BY <1>2, <1>3, FreeStep DEF GoOn
<1>4. CASE ~AtEof(r)
  <2>1. HandOver # "eof" /\ UNCHANGED <<session, losses, req, posts, convs, gone>>
    BY <1>4 DEF GoOn
  <2>2. TypeOK'
    BY <1>2, <2>1, Typed DEF TypeOK, Client, ExecutorInv, Request
  <2> QED
    BY <2>1, <2>2 DEF ExecutorInv, PostInv, HeldInv, WaitInv, Holds, Completes, Shown
<1> QED
  BY <1>3, <1>4

LEMMA HangUpStep == ASSUME ExecutorInv, NEW r \in Reqs, HangUp(r) PROVE ExecutorInv'
<1> DEFINE y == [req[r] EXCEPT !.live = FALSE]
<1>1. /\ req \in [Reqs -> Request] /\ req[r] \in Request /\ Phase(req[r])
      /\ Len(req[r].chan) =< ChanCap /\ client \in Client
  BY Typed DEF ExecutorInv, Client
<1>2. req' = [req EXCEPT ![r] = y] /\ client' = [client EXCEPT !.waiting = NoReq]
      /\ UNCHANGED <<session, losses, posts, convs, gone>>
  BY <1>1 DEF HangUp
<1>3. /\ y \in Request /\ y.live = FALSE /\ y.pc = req[r].pc /\ y.id = req[r].id
      /\ y.recv = req[r].recv /\ y.chan = req[r].chan /\ y.out = req[r].out
      /\ y.mode = req[r].mode /\ y.attempt = req[r].attempt
  BY <1>1 DEF Request
<1> HIDE DEF y
<1>4. Phase(y) /\ Shown(y) = Shown(req[r])
  BY <1>1, <1>3 DEF Phase, Shown
<1>5. /\ req' \in [Reqs -> Request] /\ req'[r] = y
      /\ \A q \in Reqs \ {r} : req'[q] = req[q]
      /\ \A q \in Reqs : Phase(req'[q]) /\ Len(req'[q].chan) =< ChanCap
  BY <1>1, <1>2, <1>3, <1>4, Replace
<1>6. client' \in Client
  BY <1>1, <1>2 DEF Client
<1>7. TypeOK'
  BY <1>2, <1>5, <1>6, Typed DEF TypeOK, Client, ExecutorInv, Request
<1>8. \A q \in Reqs : /\ req'[q].pc = req[q].pc /\ req'[q].id = req[q].id
                      /\ Shown(req'[q]) = Shown(req[q])
  BY <1>3, <1>4, <1>5
<1>9. PostInv'
  <2>1. \A q \in Reqs : req'[q].pc \in Asking \/ Completes(req'[q]) =>
           \E k \in DOMAIN posts : posts[k].id = req'[q].id
    BY <1>8 DEF ExecutorInv, PostInv, Completes
  <2>2. \A q \in Reqs : Completes(req[q])' = Completes(req'[q])
    BY DEF Completes, Shown
  <2> QED
    BY <1>2, <2>1, <2>2 DEF PostInv
<1>10. HeldInv'
  BY <1>2, <1>8 DEF ExecutorInv, HeldInv, Holds
<1>11. WaitInv'
  BY <1>3, <1>5 DEF ExecutorInv, WaitInv, HangUp
<1> QED
  BY <1>5, <1>7, <1>9, <1>10, <1>11 DEF ExecutorInv

LEMMA LossStep == ASSUME ExecutorInv, Expire \/ Restart PROVE ExecutorInv'
<1>1. NewSession \in Session
      /\ NewSession.inFlight = FALSE
  BY DEF NewSession, NoConv, Session
<1>2. losses + 1 \in Nat
  BY Typed DEF ExecutorInv
<1>3. CASE Expire
  <2>1. UNCHANGED <<client, req, posts, convs, gone>> /\ session' = NewSession
        /\ losses' \in Nat
    BY <1>2, <1>3 DEF Expire
  <2>2. TypeOK'
    BY <1>1, <2>1 DEF Session, TypeOK, ExecutorInv
  <2> QED
    BY <1>1, <2>1, <2>2
       DEF ExecutorInv, PostInv, HeldInv, WaitInv, Holds, Completes, Shown
<1>4. CASE Restart
  <2>1. /\ UNCHANGED <<posts, convs, gone>> /\ session' = NewSession /\ losses' \in Nat
        /\ req' = [r \in Reqs |-> NoRequest] /\ client' = [client EXCEPT !.waiting = NoReq]
    BY <1>2, <1>4 DEF Restart
  <2>2. /\ req' \in [Reqs -> Request]
        /\ \A r \in Reqs : req'[r] = NoRequest
    BY <2>1, Empty
  <2>3. client' \in Client
    BY <2>1, Typed DEF Client, ExecutorInv
  <2>4. TypeOK'
    BY <1>1, <2>1, <2>2, <2>3, Typed, Empty DEF Session, TypeOK, Client, ExecutorInv, Request
  <2>5. PostInv' /\ HeldInv' /\ WaitInv'
    BY <1>1, <2>1, <2>2, Empty DEF PostInv, HeldInv, WaitInv, Asking, Completes, Shown
  <2> QED
    BY <2>2, <2>4, <2>5, Empty DEF ExecutorInv
<1> QED
  BY <1>3, <1>4

LEMMA StepExecutor == ExecutorInv /\ [Next]_vars => ExecutorInv'
<1> SUFFICES ASSUME ExecutorInv, [Next]_vars PROVE ExecutorInv'
  OBVIOUS
<1>1. CASE WriteMessage \/ \E r \in Reqs : Submit(r) \/ SubmitText(r) \/ SubmitCompacted(r)
  BY <1>1, ClientStep
<1>2. CASE \E r \in Reqs : GoOn(r)
  BY <1>2, GoOnStep
<1>3. CASE \E r \in Reqs : HangUp(r)
  BY <1>3, HangUpStep
<1>4. CASE \E r \in Reqs : Reclaim(r)
  <2>1. client \in Client
    BY Typed DEF ExecutorInv, Client
  <2> QED
    BY <1>4, <2>1, FreeStep DEF Reclaim
<1>5. CASE \E r \in Reqs : Serve(r) \/ Receive(r)
  BY <1>5, StepServe
<1>6. CASE Expire \/ Restart
  BY <1>6, LossStep
<1>7. CASE UNCHANGED vars
  BY <1>7 DEF vars, ExecutorInv, TypeOK, PostInv, HeldInv, WaitInv, Holds, Completes, Shown
<1> QED
  BY <1>1, <1>2, <1>3, <1>4, <1>5, <1>6, <1>7 DEF Next

LEMMA Always == Spec => []ExecutorInv
<1> QED
  BY InitExecutor, StepExecutor, PTL DEF Spec

-----------------------------------------------------------------------------
\* The variables keep their types; the channel never holds more than its
\* capacity, and no repair is attempted once too often.
THEOREM TypeCorrect == Spec => []TypeOK
<1>1. ExecutorInv => TypeOK
  BY DEF ExecutorInv
<1> QED
  BY <1>1, Always, PTL

\* The events of every request, whichever way it ends: response.created first,
\* one finished item, exactly one terminal event, last, and never a closed
\* channel without one (executor.go:310-457).
THEOREM EventsInOrder == Spec => []StreamGrammar
<1>1. ASSUME ExecutorInv PROVE StreamGrammar
  <2> SUFFICES ASSUME NEW r \in Reqs, NEW s, s = Shown(req[r])
               PROVE  /\ \A n \in DOMAIN s :
                           /\ s[n] \in Terminal => n = Len(s)
                           /\ s[n] = "created" => n = 1
                           /\ s[n] = "call" => n < Len(s) /\ s[n + 1] \in {"call", "completed"}
                           /\ s[n] = "message" => n < Len(s) /\ s[n + 1] = "completed"
                           /\ s[n] = "completed" => n > 1 /\ s[n - 1] \in {"call", "message"}
                      /\ req[r].mode = "stream" /\ Len(s) > 1 => s[1] = "created"
                      /\ req[r].pc = "done" => s # <<>> /\ Last(s) \in Terminal
    BY DEF StreamGrammar, Offered, Shown
  <2>1. req[r] \in Request /\ Phase(req[r])
    BY <1>1, Typed DEF ExecutorInv
  <2>2. s \in Seq(Event) /\ Len(s) \in Nat /\ DOMAIN s = 1..Len(s)
    <3>1. /\ req[r].recv \in Seq(Event) /\ req[r].chan \in Seq(Event)
          /\ req[r].out \in Seq(Event)
      BY <2>1 DEF Request
    <3>2. s \in Seq(Event)
      BY <3>1 DEF Shown
    <3> QED
      BY <3>2
  <2>3. CASE req[r].pc \in Early
    <3>1. s = <<>> \o <<>> \o <<>>
      BY <2>1, <2>3 DEF Phase, Shown
    <3>2. s = <<>>
      BY <3>1
    <3> QED
      BY <2>3, <3>2 DEF Early
  <2>4. CASE req[r].pc \in Middle
    <3>1. \A k \in 1..Len(s) : s[k] = IF k = 1 THEN "created" ELSE "delta"
      BY <2>1, <2>4 DEF Phase, OpenTo
    <3> QED
      BY <2>2, <2>4, <3>1 DEF Middle, Terminal
  <2>5. CASE req[r].pc \in Late
    <3>1. PICK m \in 0..Len(s) :
             /\ \A k \in 1..m : s[k] = IF k = 1 THEN "created" ELSE "delta"
             /\ \/ Len(s) = m + 1 /\ s[m + 1] \in {"failed", "error"}
                \/ /\ Len(s) >= m + 2 /\ (req[r].mode = "stream" => m # 0)
                   /\ s[Len(s)] = "completed"
                   /\ \A k \in m + 1 .. Len(s) - 1 :
                         \/ s[k] = "call"
                         \/ s[k] = "message" /\ k = m + 1 /\ Len(s) = m + 2
      BY <2>1, <2>5 DEF Phase, Ended, IsItem, OpenTo
    <3>2. CASE Len(s) = m + 1 /\ s[m + 1] \in {"failed", "error"}
      <4>1. \A n \in 1..Len(s) : n = Len(s) \/ n \in 1..m
        BY <2>2, <3>2
      <4> QED
        BY <2>2, <3>1, <3>2, <4>1 DEF Terminal, Last
    <3>3. CASE /\ Len(s) >= m + 2 /\ (req[r].mode = "stream" => m # 0)
               /\ s[Len(s)] = "completed"
               /\ \A k \in m + 1 .. Len(s) - 1 :
                     \/ s[k] = "call"
                     \/ s[k] = "message" /\ k = m + 1 /\ Len(s) = m + 2
      <4>1. \A n \in 1..m : s[n] \in {"created", "delta"} /\ (s[n] = "created" => n = 1)
        BY <3>1
      <4>2. ASSUME NEW n \in 1..Len(s)
            PROVE  n = Len(s) \/ n \in m + 1 .. Len(s) - 1 \/ n \in 1..m
        BY <2>2, <3>1
      <4>3. ASSUME NEW n \in m + 1 .. Len(s) - 1
            PROVE  /\ s[n] \in {"call", "message"} /\ n < Len(s)
                   /\ s[n] = "call" => s[n + 1] \in {"call", "completed"}
                   /\ s[n] = "message" => s[n + 1] = "completed"
        <5>1. n < Len(s) /\ (n + 1 \in m + 1 .. Len(s) - 1 \/ n + 1 = Len(s))
          BY <2>2, <3>1, <4>3
        <5>2. CASE s[n] = "call"
          <6>1. CASE n + 1 = Len(s)
            BY <3>3, <5>1, <5>2, <6>1
          <6>2. CASE n + 1 \in m + 1 .. Len(s) - 1
            <7>1. n + 1 # m + 1
              BY <2>2, <3>1, <4>3
            <7>2. s[n + 1] = "call"
              BY <3>3, <6>2, <7>1
            <7> QED
              BY <5>1, <5>2, <7>2
          <6> QED
            BY <5>1, <6>1, <6>2
        <5>3. CASE s[n] = "message" /\ n = m + 1 /\ Len(s) = m + 2
          <6>1. n + 1 = Len(s)
            BY <2>2, <3>1, <5>3
          <6> QED
            BY <3>3, <5>1, <5>3, <6>1
        <5> QED
          BY <3>3, <4>3, <5>2, <5>3
      <4>4. /\ Len(s) - 1 \in m + 1 .. Len(s) - 1 /\ Len(s) > 1
            /\ s[Len(s) - 1] \in {"call", "message"}
        <5>1. Len(s) - 1 \in m + 1 .. Len(s) - 1 /\ Len(s) > 1
          BY <2>2, <3>1, <3>3
        <5> QED
          BY <4>3, <5>1
      <4>5. req[r].mode = "stream" => s[1] = "created"
        BY <2>2, <3>1, <3>3
      <4>6. Last(s) = "completed" /\ s # <<>>
        BY <2>2, <3>1, <3>3 DEF Last
      <4> QED
        BY <2>2, <3>3, <4>1, <4>2, <4>3, <4>4, <4>5, <4>6 DEF Terminal
    <3> QED
      BY <3>1, <3>2, <3>3
  <2> QED
    BY <2>1, <2>3, <2>4, <2>5 DEF Request, Points, Early, Middle, Late
<1> QED
  BY <1>1, Always, PTL

\* A completed response was asked of the upstream (executor.go:171-211, 319-351).
THEOREM NoEmptySuccess == Spec => []CompletedWasPosted
<1>1. ExecutorInv => CompletedWasPosted
  BY DEF ExecutorInv, PostInv, Completes, Shown, CompletedWasPosted, Offered
<1> QED
  BY <1>1, Always, PTL

\* A client that waits for the end of every stream is turned away only while a
\* request it hung up on is winding down (session_store.go:56-59, executor.go:169, 311).
THEOREM TurnedAway ==
    ASSUME HandOver = "eof"
    PROVE  Spec => RefusedOnlyAfterHangUp
<1>1. ASSUME ExecutorInv, [Next]_vars, NEW r \in Reqs,
             req[r].pc = "start", req[r].live, req'[r].pc = "done"
      PROVE  \E q \in Reqs : Holds(q) /\ ~req[q].live
  <2>1. client.waiting = r
    BY <1>1 DEF ExecutorInv, WaitInv
  <2>2. session.inFlight
    <3>1. req \in [Reqs -> Request] /\ req[r].out = <<>> /\ req[r].chan = <<>>
      BY <1>1, Typed DEF ExecutorInv, Phase, Early
    <3>2. CASE Serve(r) \/ Receive(r)
      <4>1. Refuse(r) \/ Prepare(r)
        BY <1>1, <3>1, <3>2
           DEF Serve, Refuse, Prepare, Upload, UploadFails, Token, TokenFails, Converse,
               ConverseFails, Chat, ChatFails, Snapshot, ToolCalls, StreamEnds, Repair,
               RepairFails, RepairStreamEnds, RepairSucceeds, RepairGivesUp, Cleanup, Release,
               Close, SendChunk, Receive, At
      <4>2. ~Prepare(r)
        BY <1>1, <3>1 DEF Prepare, Request
      <4> QED
        BY <4>1, <4>2 DEF Refuse
    <3>3. CASE \E q \in Reqs \ {r} : Serve(q) \/ Receive(q)
      <4>1. PICK q \in Reqs \ {r} : Serve(q) \/ Receive(q)
        BY <3>3
      <4>2. Requests /\ session.processedInputLen \in Nat
        BY <1>1, Typed DEF Session, ExecutorInv, Requests
      <4>3. PICK y : Becomes(q, y)
        BY <4>1, <4>2, ServeStep
      <4> QED
        BY <1>1, <3>1, <4>1, <4>3 DEF Becomes
    <3>4. CASE \E q \in Reqs : Submit(q) \/ SubmitText(q) \/ SubmitCompacted(q)
      <4>1. PICK q \in Reqs : \E input, c : Issue(q, input, c)
        BY <3>4 DEF Submit, SubmitText, SubmitCompacted
      <4>2. q # r
        BY <1>1, <4>1 DEF Issue
      <4> QED
        BY <1>1, <3>1, <4>1, <4>2 DEF Issue
    <3>5. CASE \E q \in Reqs : GoOn(q) \/ HangUp(q) \/ Reclaim(q)
      <4>1. PICK q \in Reqs : GoOn(q) \/ HangUp(q) \/ Reclaim(q)
        BY <3>5
      <4>2. CASE q # r
        BY <1>1, <3>1, <4>1, <4>2 DEF GoOn, HangUp, Reclaim
      <4>3. CASE q = r
        <5>1. ~AtEof(r)
          BY <1>1 DEF AtEof
        <5>2. req' = req \/ req' = [req EXCEPT ![r].live = FALSE]
          BY <4>1, <4>3, <5>1 DEF GoOn, HangUp, Reclaim
        <5> QED
          BY <1>1, <3>1, <5>2 DEF Request
      <4> QED
        BY <4>2, <4>3
    <3>6. CASE Restart
      BY <1>1, <3>6, Empty DEF Restart
    <3>7. CASE req' = req
      BY <1>1, <3>7
    <3> QED
      BY <1>1, <3>2, <3>3, <3>4, <3>5, <3>6, <3>7 DEF Next, WriteMessage, Expire, vars
  <2>3. PICK q \in Reqs : Holds(q)
    BY <1>1, <2>2 DEF ExecutorInv, HeldInv
  <2>4. q # r
    BY <1>1, <2>3 DEF Holds
  <2>5. ~req[q].live
    BY <1>1, <2>1, <2>4 DEF ExecutorInv, WaitInv
  <2> QED
    BY <2>3, <2>5
<1>2. ExecutorInv /\ [Next]_vars =>
         [\A r \in Reqs :
            req[r].pc = "start" /\ req[r].live /\ req'[r].pc = "done" =>
              \E q \in Reqs : Holds(q) /\ ~req[q].live]_vars
  BY <1>1
<1> QED
  BY <1>2, Always, PTL DEF Spec, RefusedOnlyAfterHangUp
=============================================================================
