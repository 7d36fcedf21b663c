----------------------------- MODULE ToolCalls -----------------------------
(***************************************************************************)
(* internal/provider/m365/tool_call.go and the second half of executor.go: *)
(* the tool calls a text of the assistant contains, in the delimiter       *)
(* protocol (V2) or as a bare JSON object (V1), and the output items they  *)
(* become.                                                                 *)
(*                                                                         *)
(* A text is a sequence of tokens: the delimiters, names of tools, braces  *)
(* and words.  "{" opens an object that names no tool, "{cmd" one with a   *)
(* command, and each member of DOMAIN Bare one that names a tool and, if   *)
(* anything is in it, has one more key: its arguments or its input.  "null" *)
(* is JSON's null, "quoted" a string that holds no JSON; "junk" in an      *)
(* object makes it invalid.  White space, quoted braces, objects with both *)
(* keys, the case of names and the length limits are left out; a code      *)
(* fence is one token.                                                     *)
(***************************************************************************)
EXTENDS Integers, Sequences, FiniteSets, SequencesExt

CONSTANTS
    Tools,      \* the tools of the request: name -> type
    Bare        \* the objects that name a tool: opening -> [tool, key]

BlockStart == "[["
BlockEnd == "]]"
NameStart == "<n"
NameEnd == "n>"
ArgsStart == "<a"
ArgsEnd == "a>"
InputStart == "<i"
InputEnd == "i>"
Fence == "fence"
Opening == {"{", "{cmd"} \cup DOMAIN Bare
Closing == "}"
Null == "null"
Quoted == "quoted"

Marks == {NameStart, NameEnd, ArgsStart, ArgsEnd, InputStart, InputEnd}

ASSUME BareAssumption ==
    \A open \in DOMAIN Bare :
        /\ open \notin Marks \cup {BlockStart, BlockEnd, Fence, Closing}
        /\ Bare[open].key \in {"arguments", "input"}

None == <<>>            \* no arguments, no input
Empty == <<"{", Closing>>
NoCall == [tool |-> "none", arguments |-> None, input |-> None]

\* strings.Index from position i on; 0 when there is none.
Index(t, S, i) ==
    LET found == {j \in i..Len(t) : t[j] \in S} IN
    IF found = {} THEN 0 ELSE CHOOSE j \in found : \A k \in found : j =< k

looksLikeToolCallCandidate(t) ==
    t # <<>> /\ (BlockStart \in Range(t) \/ Head(t) \in Opening \cup {Fence})

\* The text between two marks, if both are there.
extractDelimitedValue(s, start, end) ==
    LET i == Index(s, {start}, 1)
        j == IF i = 0 THEN 0 ELSE Index(s, {end}, i + 1)
    IN  [ok |-> j # 0, value |-> SubSeq(s, i + 1, j - 1)]

\* The first balanced object: braces are counted from the first one on.
extractJSONObject(s) ==
    LET start == Index(s, Opening, 1)
        depth[i \in Nat] ==
            IF i < start THEN 0
            ELSE depth[i - 1] + (IF s[i] \in Opening THEN 1 ELSE IF s[i] = Closing THEN -1 ELSE 0)
        closed == {i \in start..Len(s) : depth[i] = 0}
    IN  IF start = 0 \/ closed = {} THEN <<>>
        ELSE SubSeq(s, start, CHOOSE i \in closed : \A k \in closed : i =< k)

validJSON(s) == "junk" \notin Range(s)

stripMarkdownCodeFence(s) ==
    IF s = <<>> \/ Head(s) # Fence THEN s
    ELSE LET last == SelectLastInSeq(Tail(s), LAMBDA x : x = Fence)
         IN  IF last = 0 THEN Tail(s) ELSE SubSeq(s, 2, last)

\* What an object has under its key.
Value(obj) == SubSeq(obj, 2, Len(obj) - 1)

\* A JSON object that names a tool and brings arguments, of any type but null,
\* or input that is not blank; input that is no string is taken as its text.
objectCall(obj) ==
    LET key       == Bare[Head(obj)].key
        arguments == IF key = "arguments" /\ Value(obj) # <<Null>> THEN Value(obj) ELSE None
        input     == IF key = "input" THEN Value(obj) ELSE None
    IN  IF \/ obj = <<>> \/ ~validJSON(obj) \/ Head(obj) \notin DOMAIN Bare
           \/ arguments = None /\ input = None
        THEN NoCall
        ELSE [tool |-> Bare[Head(obj)].tool, arguments |-> arguments, input |-> input]

\* The first object of the text, also in a code fence.
parseV1ToolCall(text) == objectCall(extractJSONObject(stripMarkdownCodeFence(text)))

\* The arguments of a block must be one JSON object or null, which counts as an
\* empty one.
blockArguments(v) ==
    IF v = <<Null>> THEN Empty
    ELSE IF v # <<>> /\ validJSON(v) /\ extractJSONObject(v) = v THEN v ELSE None

\* A block whose arguments are broken is not looked at for an input.
parseV2ToolCallBlock(block) ==
    LET name  == extractDelimitedValue(block, NameStart, NameEnd)
        args  == extractDelimitedValue(block, ArgsStart, ArgsEnd)
        input == extractDelimitedValue(block, InputStart, InputEnd)
    IN  IF ~name.ok \/ name.value = <<>> THEN NoCall
        ELSE IF args.ok
             THEN IF blockArguments(args.value) = None THEN NoCall
                  ELSE [tool |-> Head(name.value), arguments |-> blockArguments(args.value),
                        input |-> None]
        ELSE IF input.ok
             THEN IF input.value # <<>>
                  THEN [tool |-> Head(name.value), arguments |-> None, input |-> input.value]
                  ELSE NoCall
        ELSE parseV1ToolCall(block)

\* Where the block that begins before i ends, 0 if it is still open.
blockEnd(t, i) == Index(t, {BlockEnd}, i)

\* Mutant of resume: the search goes on inside the block just read.
resumeInside(start, end) == start + 1

\* Where the search goes on after a block.
resume(start, end) == end + 1

\* The calls of the closed blocks, in order; other blocks are plain text.
parseV2ToolCalls(raw) ==
    LET calls[i \in Nat] ==
            LET start == Index(raw, {BlockStart}, i)
                end   == IF start = 0 THEN 0 ELSE blockEnd(raw, start + 1)
                call  == parseV2ToolCallBlock(SubSeq(raw, start + 1, end - 1))
            IN  IF end = 0 THEN <<>>
                ELSE (IF call = NoCall THEN <<>> ELSE <<call>>) \o calls[resume(start, end)]
    IN  calls[1]

\* V1 counts only for a text without any V2 call.
tryParseToolCalls(text) ==
    LET v2 == parseV2ToolCalls(text)
        v1 == parseV1ToolCall(text)
    IN  IF v2 # <<>> THEN v2 ELSE IF v1 # NoCall THEN <<v1>> ELSE <<>>

\* A local_shell call names a command.
parseLocalShellArgs(v) == v # None /\ Head(v) = "{cmd"

\* Arguments given as a string must hold JSON.
normalizeFunctionArguments(v) == v \notin {None, <<Quoted>>}

\* A call becomes an item if its tool is offered and it brings what a tool of
\* that type takes.
buildToolCallItem(call) ==
    call.tool \in DOMAIN Tools /\
    CASE Tools[call.tool] = "function"    -> normalizeFunctionArguments(call.arguments)
      [] Tools[call.tool] = "custom"      -> call.input # None
      [] Tools[call.tool] = "local_shell" -> parseLocalShellArgs(call.arguments)

\* The items of a list of calls, in order.
buildItems(calls) ==
    LET items[k \in Nat] ==
            IF k \notin DOMAIN calls THEN <<>>
            ELSE (IF buildToolCallItem(calls[k]) THEN <<calls[k]>> ELSE <<>>) \o items[k + 1]
    IN  items[1]

\* For a blank text tryParseToolCalls returns before it looks for any call.
parseToolCallItems(text) ==
    IF text = <<>> THEN <<>> ELSE buildItems(tryParseToolCalls(text))

-----------------------------------------------------------------------------
(* What a text means, without an algorithm.                                *)

Places(t, S) == {k \in 1..Len(t) : t[k] \in S}

\* The closed blocks: from a start outside any block to the next end.
Blocks(t) ==
    {b \in Places(t, {BlockStart}) \X Places(t, {BlockEnd}) :
        /\ b[1] < b[2]
        /\ \A k \in b[1]..(b[2] - 1) : t[k] # BlockEnd
        /\ \A h \in 1..(b[1] - 1) : t[h] = BlockStart =>
               \E k \in h..b[1] : t[k] = BlockEnd}

Count(t, i, j, S) == Cardinality({k \in i..j : t[k] \in S})

\* s is one well-formed JSON object.
IsObject(s) ==
    /\ s # <<>> /\ s[1] \in Opening /\ validJSON(s)
    /\ \A k \in 1..Len(s) :
           (Count(s, 1, k, Opening) = Count(s, 1, k, {Closing})) <=> k = Len(s)

\* s names a tool and brings what its key says.
IsV1Call(s) ==
    /\ IsObject(s) /\ s[1] \in DOMAIN Bare
    /\ Value(s) # <<>> /\ (Bare[s[1]].key = "arguments" => Value(s) # <<Null>>)
V1Call(s) ==
    [tool |-> Bare[s[1]].tool,
     arguments |-> IF Bare[s[1]].key = "arguments" THEN Value(s) ELSE None,
     input |-> IF Bare[s[1]].key = "input" THEN Value(s) ELSE None]

\* The shapes of a block: a name, then arguments, an input, or an object.
Named(b) == Len(b) > 3 /\ b[1] = NameStart /\ b[3] = NameEnd
Inner(b) == SubSeq(b, 5, Len(b) - 1)
Rest(b) == SubSeq(b, 4, Len(b))
WithArguments(b) == b[4] = ArgsStart /\ Last(b) = ArgsEnd
WithInput(b) == b[4] = InputStart /\ Last(b) = InputEnd

\* The blocks that are calls: the third form is a V1 call between delimiters.
FunctionBlock(b) == WithArguments(b) /\ (IsObject(Inner(b)) \/ Inner(b) = <<Null>>)
CustomBlock(b) == WithInput(b) /\ Inner(b) # <<>>
DirectBlock(b) == IsV1Call(Rest(b))
WellFormed(b) == Named(b) /\ (FunctionBlock(b) \/ CustomBlock(b) \/ DirectBlock(b))

Meaning(b) ==
    IF DirectBlock(b) THEN V1Call(Rest(b))
    ELSE [tool |-> b[2],
          arguments |-> IF ~FunctionBlock(b) THEN None
                        ELSE IF Inner(b) = <<Null>> THEN Empty ELSE Inner(b),
          input |-> IF FunctionBlock(b) THEN None ELSE Inner(b)]

\* The call a bare text makes: its first object, before the closing fence if
\* it opens with one.
FirstObjects(t) ==
    {o \in Places(t, Opening) \X (1..Len(t)) :
        /\ o[1] < o[2] /\ IsV1Call(SubSeq(t, o[1], o[2]))
        /\ \A k \in 1..(o[1] - 1) : t[k] \notin Opening
        /\ t[1] = Fence /\ (\E k \in 2..Len(t) : t[k] = Fence) =>
               \E k \in o[2]..Len(t) : t[k] = Fence}

Body(t, b) == SubSeq(t, b[1] + 1, b[2] - 1)

\* Blocks by their starts: the k-th has k - 1 before it.
InOrder(B) ==
    [k \in 1..Cardinality(B) |->
        CHOOSE b \in B : Cardinality({c \in B : c[1] < b[1]}) = k - 1]

\* A bare text counts where no block is a call.
WrittenItems(t) ==
    LET meant == {b \in Blocks(t) : WellFormed(Body(t, b))}
        made  == InOrder({b \in meant : buildToolCallItem(Meaning(Body(t, b)))})
        bare  == {V1Call(SubSeq(t, o[1], o[2])) : o \in FirstObjects(t)}
    IN  IF meant # {} THEN [k \in DOMAIN made |-> Meaning(Body(t, made[k]))]
        ELSE SetToSeq({c \in bare : buildToolCallItem(c)})

-----------------------------------------------------------------------------
(* The parser takes the marks of a block in any order and passes over text *)
(* around them.  In a regular text it has nothing to pass over: each block *)
(* is in one of the shapes, lacks what any call has, or is the beginning   *)
(* of an input that quotes the end of a block.                             *)

Plain(b) == b[2] \notin Marks \cup Opening /\ \A k \in 5..(Len(b) - 1) : b[k] \notin Marks
Shaped(b) == Named(b) /\ Plain(b) /\ (WithArguments(b) \/ WithInput(b) \/ IsObject(Rest(b)))

Incomplete(b) ==
    \/ NameStart \notin Range(b) \/ NameEnd \notin Range(b)
    \/ Range(b) \cap ({ArgsEnd, InputEnd} \cup DOMAIN Bare) = {}

\* No argument it quotes makes an item: the tool takes none.
CutInput(b) ==
    /\ Named(b) /\ b[2] \notin Marks \cup Opening /\ b[4] = InputStart
    /\ InputEnd \notin Range(b)
    /\ b[2] \in DOMAIN Tools => Tools[b[2]] = "custom"

Regular(t) ==
    \A b \in Blocks(t) :
        \/ Shaped(Body(t, b)) \/ Incomplete(Body(t, b))
        \/ CutInput(Body(t, b)) /\ Places(t, DOMAIN Bare) = {}
=============================================================================
