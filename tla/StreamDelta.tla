---------------------------- MODULE StreamDelta ----------------------------
(***************************************************************************)
(* internal/provider/m365/executor.go, the event callback of ExecuteStream: *)
(* every upstream event carries the whole conversation as it stands        *)
(* (messages that grow, appear, or are rewritten); the proxy selects the    *)
(* assistant's message, hides tool-call text, and sends the client the     *)
(* difference to what it sent before.                                      *)
(*                                                                         *)
(* A text is a sequence of tokens.  Words are numbered as the upstream     *)
(* writes them, so a word that is lost, repeated or moved can be seen; two *)
(* words may read alike, and how they read is all that the code compares.  *)
(* Tool calls that parse end the stream (Executor!ToolCalls); here they    *)
(* never do.                                                               *)
(***************************************************************************)
EXTENDS Integers, Sequences, FiniteSets, SequencesExt

Blank   == 0        \* white space inside a line
NewLine == -1
Open    == -2       \* the first runes of the start marker of a tool call ...
Shut    == -3       \* ... and its last rune
Brace   == -4       \* "{" or "```"
Ask     == -5       \* the text of the user's task

CONSTANTS
    Tools,          \* does the request offer tools?
    Spellings,      \* the different words there are
    MaxMessages,    \* bound: answer messages of a turn
    MaxTokens       \* bound: tokens the upstream writes

ASSUME StreamAssumption ==
    /\ Tools \in BOOLEAN
    /\ MaxMessages \in Nat /\ MaxTokens \in Nat

VARIABLES
    ids, roles, \* do messages have ids, and roles?  Graph may omit either
    msgs,       \* the messages of the conversation; the first is the echo
    written,    \* number of words written so far
    spelled,    \* how each of them reads
    tokens,     \* number of tokens written so far
    last,       \* lastTextByMsgID
    shown,      \* the deltas the client has received, joined
    final,      \* finalAssistantText
    seen,       \* history: the visible text of each message when last selected
    grew,       \* history: no visible text has been anything but extended
    swallowed   \* history: words taken for those of a text shown before

vars == <<ids, roles, msgs, written, spelled, tokens, last, shown, final, seen, grew, swallowed>>

-----------------------------------------------------------------------------
Space == {Blank, NewLine}

Trim(t) ==
    LET ink == {n \in DOMAIN t : t[n] \notin Space}
    IN  IF ink = {} THEN <<>> ELSE SubSeq(t, Min(ink), Max(ink))

Markers(t) == {n \in 1 .. Len(t) - 1 : t[n] = Open /\ t[n + 1] = Shut}

\* Mutant of Sanitize: only a text that begins with a marker is cut.
SanitizeStart(t) ==
    IF 1 \in Markers(t) \/ (Trim(t) # <<>> /\ Head(Trim(t)) = Brace) THEN <<>> ELSE t

\* sanitizeAssistantTextForDisplay
Sanitize(t) ==
    CASE Markers(t) # {} -> Trim(SubSeq(t, 1, Min(Markers(t)) - 1))
      [] Markers(t) = {} /\ Trim(t) # <<>> /\ Head(Trim(t)) = Brace -> <<>>
      [] OTHER -> t

Visible(t) == IF Tools THEN Sanitize(t) ELSE t

\* selectAssistantMessage: the last usable message, assistants first.
Usable == {n \in DOMAIN msgs : Trim(msgs[n].text) \notin {<<>>, <<Ask>>}}
Assistants == {n \in Usable : msgs[n].assistant}
Selected == Max(IF Assistants # {} THEN Assistants ELSE Usable)

\* Mutant of Delta: nothing is remembered, each snapshot is sent whole.
DeltaWhole(visible, before) == Trim(visible)

\* strings.HasPrefix: the text u begins with one that reads like t.
Reads(x) == IF x > 0 THEN spelled[x] ELSE x
BeginsWith(u, t) == Len(t) <= Len(u) /\ \A k \in DOMAIN t : Reads(u[k]) = Reads(t[k])

\* The delta the callback sends: a rewritten text starts on a new line, but
\* then every delta is trimmed.
Delta(visible, before) ==
    Trim(CASE BeginsWith(visible, before) -> SubSeq(visible, Len(before) + 1, Len(visible))
           [] ~BeginsWith(visible, before) /\ before # <<>> -> <<NewLine>> \o visible
           [] OTHER -> visible)

Words(t) == {x \in ToSet(t) : x > 0}

\* The words with which a text begins like the one before, and is not that one.
Swallows(visible, before) ==
    IF BeginsWith(visible, before)
    THEN Words(SubSeq(visible, 1, Len(before))) \ Words(before) ELSE {}

-----------------------------------------------------------------------------
\* The key of message n in lastTextByMsgID; messages without an id share one.
Unknown == 0

\* Mutant of IdOf: ids are ignored.
IdOfAny(n) == Unknown

IdOf(n) == IF ids THEN n ELSE Unknown

Init ==
    /\ ids \in BOOLEAN /\ roles \in BOOLEAN
    /\ msgs = <<[text |-> <<Ask>>, assistant |-> FALSE]>>
    /\ written = 0 /\ spelled = <<>> /\ tokens = 0
    /\ last = [i \in 0 .. MaxMessages + 1 |-> <<>>]
    /\ shown = <<>> /\ final = <<>>
    /\ seen = [n \in 1 .. MaxMessages + 1 |-> <<>>]
    /\ grew = TRUE /\ swallowed = {}

\* The upstream begins another message, adds a token to the newest one ...
NewMessage ==
    /\ Len(msgs) <= MaxMessages
    /\ \E a \in (IF roles THEN BOOLEAN ELSE {FALSE}) :
         msgs' = Append(msgs, [text |-> <<>>, assistant |-> a])
    /\ UNCHANGED <<ids, roles, written, spelled, tokens, last, shown, final, seen, grew, swallowed>>

Write(text, x) ==
    /\ Len(msgs) > 1
    /\ tokens < MaxTokens
    /\ tokens' = tokens + 1
    /\ IF x = written + 1
       THEN written' = x /\ \E y \in Spellings : spelled' = Append(spelled, y)
       ELSE UNCHANGED <<written, spelled>>
    /\ msgs' = [msgs EXCEPT ![Len(msgs)].text = Append(text, x)]
    /\ UNCHANGED <<ids, roles, last, shown, final, seen, grew, swallowed>>

Ink == {Open, Shut, Brace, written + 1}
Extend == \E x \in Ink \cup {Blank} : Write(Last(msgs).text, x)

\* ... or writes it anew.
Rewrite == \E x \in Ink : Write(<<>>, x)

\* One event of the stream.
Snapshot ==
    /\ Usable # {}
    /\ LET current == Trim(msgs[Selected].text)
           visible == Visible(current)
           id == IdOf(Selected)
       IN  /\ final' = current
           /\ last' = [last EXCEPT ![id] = visible]
           /\ shown' = shown \o Delta(visible, last[id])
           /\ seen' = [seen EXCEPT ![Selected] = visible]
           /\ grew' = (grew /\ IsPrefix(seen[Selected], visible))
           /\ swallowed' = swallowed \cup Swallows(visible, last[id])
    /\ UNCHANGED <<ids, roles, msgs, written, spelled, tokens>>

Next == NewMessage \/ Extend \/ Rewrite \/ Snapshot

Spec == Init /\ [][Next]_vars

-----------------------------------------------------------------------------
\* No word comes twice or late.
InOrder(t) == \A j, k \in DOMAIN t : j < k /\ t[k] > 0 => t[j] < t[k]

Token == {Blank, NewLine, Open, Shut, Brace, Ask} \cup 1 .. written

TypeOK ==
    /\ ids \in BOOLEAN /\ roles \in BOOLEAN
    /\ written \in 0 .. tokens /\ tokens \in 0 .. MaxTokens
    /\ msgs \in Seq([text : Seq(Token), assistant : BOOLEAN])
    /\ Len(msgs) \in 1 .. MaxMessages + 1
    /\ last \in [0 .. MaxMessages + 1 -> Seq(Token)]
    /\ {i \in DOMAIN last : last[i] # <<>>} \subseteq (IF ids THEN DOMAIN msgs ELSE {Unknown})
    /\ seen \in [1 .. MaxMessages + 1 -> Seq(Token)]
    /\ shown \in Seq(Token) /\ final \in Seq(Token) /\ grew \in BOOLEAN
    /\ spelled \in Seq(Spellings) /\ Len(spelled) = written
    /\ swallowed \subseteq 1 .. written

WordsSeen == UNION {Words(seen[n]) : n \in DOMAIN seen}

(* While what is visible of a message only grows, the deltas give the       *)
(* client no word twice and none out of order, and every visible word of   *)
(* every selected message, with one exception: where Graph gives messages  *)
(* no id, the words by which a message begins like the one before it are   *)
(* taken for those shown already and never sent (executor.go:387-402).     *)
WordsDelivered ==
    grew => /\ Words(shown) = WordsSeen \ swallowed
            /\ InOrder(shown)
            /\ ids => swallowed = {}

\* The words of a text that the client must not see.
HiddenWords(t) ==
    LET hidden == CASE Markers(t) # {} -> SubSeq(t, Min(Markers(t)), Len(t))
                    [] Markers(t) = {} /\ t # <<>> /\ Head(t) = Brace -> t
                    [] OTHER -> <<>>
    IN  Words(hidden)

(* No word behind a start marker, or of a text that begins like JSON or a  *)
(* code fence, reaches a client that offered tools, in a delta or in the   *)
(* final message, even when an event cuts the marker in two or the         *)
(* upstream rewrites its message (executor.go:384, 450, 663-675).          *)
ToolTextHidden ==
    Tools => \A n \in DOMAIN msgs :
        HiddenWords(Trim(msgs[n].text)) \cap ToSet(shown \o Sanitize(final)) = {}

PlannedDelta(visible, before) ==
    IF BeginsWith(visible, before) THEN SubSeq(visible, Len(before) + 1, Len(visible))
    ELSE <<NewLine>> \o visible

(* A delta is the one of the plan, blanks and line breaks included: the    *)
(* new suffix of a text that grew, a line break and the whole text of one  *)
(* that was rewritten (docs/2026-03-12-19-25-m365-openai-responses-proxy-  *)
(* plan.md:431, 446).                                                      *)
DeltasAsPlanned ==
    [][\A i \in DOMAIN last :
          last'[i] # last[i] => shown' = shown \o PlannedDelta(last'[i], last[i])]_vars
=============================================================================
