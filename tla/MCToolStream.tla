---------------------------- MODULE MCToolStream ----------------------------
(* ToolStream on answers of one or two segments.                           *)
EXTENDS ToolStream, TLC

MCTools == "fn" :> "function" @@ "cu" :> "custom" @@ "sh" :> "local_shell"
MCBare ==
    "{fn" :> [tool |-> "fn", key |-> "arguments"] @@
    "{cu" :> [tool |-> "cu", key |-> "input"] @@
    "{sh" :> [tool |-> "sh", key |-> "arguments"] @@
    "{zz" :> [tool |-> "zz", key |-> "input"]

\* A block with the given name and payload.
Block(name, payload) == <<"[[", "<n", name, "n>">> \o payload \o <<"]]">>
Arguments(obj) == <<"<a">> \o obj \o <<"a>">>
Input(text) == <<"<i">> \o text \o <<"i>">>

V2Segments ==
    { Block("fn", Arguments(<<"{", "x", "}">>)),
      Block("fn", Arguments(<<"{", "{", "}", "}">>)),
      Block("cu", Input(<<"x", "y">>)),
      Block("sh", Arguments(<<"{cmd", "}">>)),
      Block("fn", Arguments(<<"null">>)),
      Block("sh", Arguments(<<"{", "}">>)),         \* no command
      Block("sh", Arguments(<<"null">>)),           \* no command
      Block("cu", Arguments(<<"{", "}">>)),         \* the wrong payload
      Block("zz", Input(<<"x">>)),                  \* a tool that is not offered
      Block("fn", Arguments(<<"{", "junk", "}">>)), \* broken arguments
      Block("fn", Arguments(<<"x">>)),              \* no object
      Block("cu", Input(<<>>)),                     \* a blank input
      Block("cu", <<"{cu", "x", "}">>),             \* JSON between the delimiters
      Block("cu", <<"{cu", "}">>),                  \* a blank one
      \* the input quotes a call
      Block("cu", Input(Block("fn", Arguments(<<"{", "z", "}">>)))),
      \* the arguments look like a call without delimiters
      Block("sh", Arguments(<<"{fn", "x", "}">>)),
      <<"[[", "<n">>, <<"]]">>, <<"w">> }

V1Texts ==
    { <<"{fn", "x", "}">>, <<"{cu", "{", "}", "}">>, <<"{sh", "{cmd", "}", "}">>,
      <<"w", "{fn", "{", "}", "}", "w">>, <<"w", "{", "x", "}", "{fn", "x", "}">>,
      <<"fence", "{cu", "x", "}", "fence", "w">>, <<"fence", "w", "fence", "{fn", "x", "}">>,
      <<"{fn", "junk", "}">>, <<"{fn", "x">>,
      \* nothing, null, a string, no command, a tool that is not offered
      <<"{fn", "}">>, <<"{fn", "null", "}">>, <<"{fn", "quoted", "}">>, <<"{cu", "}">>,
      <<"{cu", "null", "}">>, <<"{sh", "{", "}", "}">>, <<"{zz", "x", "}">>,
      \* delimited calls after one without delimiters
      <<"{fn", "x", "}">> \o Block("cu", Input(<<"x", "y">>)) }

\* Segments worth a second one: a call, a broken one, a quoted one, plain text.
Repeated ==
    { Block("fn", Arguments(<<"{", "x", "}">>)), Block("fn", Arguments(<<"{", "junk", "}">>)),
      Block("cu", Input(<<"x", "y">>)), <<"w">> }

MCAnswers == V2Segments \cup {a \o b : a, b \in Repeated} \cup V1Texts

\* What the theorems about the parser assume of the answers.
ASSUME AnswersAssumption == \A a \in MCAnswers : Regular(a)
=============================================================================
