---------------------------- MODULE MCGenaiStream ----------------------------
(* A small instance of GenaiStream for TLC: streams of different lengths,   *)
(* and conversations of one response at most that take every branch of the  *)
(* conversions.                                                             *)
EXTENDS GenaiStream

Texts(values) == [i \in DOMAIN values |-> NewPartFromText(values[i])]
User(parts) == [role |-> "user", parts |-> parts]
Part(holds) == [Blank EXCEPT !.holds = holds]
Call == [Part([call |-> "args"]) EXCEPT !.function = "fn", !.id = "1"]
Response(values) == [Part([response |-> values]) EXCEPT !.name = "fn"]

(* Schemas. *)
Node(type, enum, items, properties, anyOf) ==
    [type |-> type, settings |-> <<>>, enum |-> enum, items |-> items,
     properties |-> properties, anyOf |-> anyOf]
Empty == [k \in {} |-> NoSchema]
Leaf == [Node("STRING", <<[type |-> "int", text |-> "1"]>>, NoSchema, Empty, <<>>)
            EXCEPT !.settings = <<"pattern">>]
Odd == Node("date", <<>>, NoSchema, Empty, <<>>)
List == Node("array", <<>>, Leaf, Empty, <<>>)
Tree == Node("Object", <<>>, NoSchema, [a |-> List, b |-> NoSchema], <<Leaf, Odd>>)
MCSchemas == {NoSchema, Leaf, Odd, List, Tree}

(* What callers say. *)
Messages ==
    {NoMessage, User(<<>>), User(<<Blank>>),
     User(<<[Part([file |-> "f"]) EXCEPT !.mime = "pdf"],
            Part([bin |-> "b", text |-> "t", file |-> "g"]),
            Part([bin |-> "c", text |-> ""]),
            Response([text |-> "r", data |-> "d"])>>),
     [role |-> "assistant", parts |-> <<Call, Blank, NewPartFromText("x")>>],
     [role |-> "system", parts |-> Texts(<<"s1", "s2">>)]}

OptionSets ==
    {<<>>,
     [max_tokens |-> HalfInt32, top_k |-> ExactFloat + 1, stop_words |-> <<>>,
      system_instructions |-> "be kind"],
     [max_tokens |-> 3, seed |-> -HalfInt32, temperature |-> 1,
      top_k |-> ExactFloat, presence_penalty |-> -ExactFloat - 2,
      stop_words |-> <<"stop">>, schema |-> NoSchema, system_instructions |-> ""],
     [schema |-> Tree, output_mime |-> "json", top_k |-> 4 * ExactFloat - 1,
      frequency_penalty |-> -ExactFloat - 1]}

(* What the model answers. *)
Candidate(finish, content) ==
    [index |-> 0, reason |-> finish, content |-> content, grounding |-> <<>>]
Chunk(candidates) == [usage |-> NoUsage, candidates |-> candidates]
Delta(text) ==
    Chunk(<<Candidate("", [role |-> "model", parts |-> Texts(<<text>>)])>>)
Names == <<"a", "b", "c", "d", "e">>

Answers ==
    {Chunk(<<Candidate("STOP",
        [role |-> "model", parts |->
            <<[NewPartFromText("hm") EXCEPT !.thought = TRUE], NewPartFromText(""),
              Call, [Part([bin |-> "b"]) EXCEPT !.mime = "png"]>>])>>),
     Chunk(<<Candidate("SPII", NoMessage),
             [Candidate("OTHER", [role |-> "user", parts |->
                <<NoPart, Response([text |-> "r"]), Response([data |-> "d"]),
                  [Part([file |-> "f"]) EXCEPT !.mime = "pdf"]>>])
                EXCEPT !.grounding = <<{"web"}, {"web", "retrieved"}>>]>>),
     Chunk(<<Candidate("MALFORMED_FUNCTION_CALL", NoMessage),
             Candidate("MAX_TOKENS", NoMessage)>>)}

Session(message, options, responses) ==
    [message |-> message, options |-> options, responses |-> responses]

Streams == {[i \in 1..n |-> Delta(Names[i])] : n \in 0..5}
           \union {<<NilResponse, Delta("a"), NilResponse, Delta("b")>>}

MCSessions ==
    {Session(User(Texts(<<"hi">>)), <<>>, responses) : responses \in Streams}
    \union {Session(message, options, <<answer>>) :
               message \in Messages, options \in OptionSets, answer \in Answers}
=============================================================================
