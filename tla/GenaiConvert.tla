---------------------------- MODULE GenaiConvert -----------------------------
(***************************************************************************)
(* The conversions of src/genai/utils.go between golly's messages, options *)
(* and responses and those of the GenAI client.                            *)
(*                                                                         *)
(* A part, on either side, holds a value for each content it has (the       *)
(* switches take the first in their order) and what goes with them; on the *)
(* client's side an empty text is no text, and a function response is a    *)
(* function from its keys.  Values, arguments and counts are abstract;     *)
(* options are a function from the names that are set, nil options the     *)
(* empty one.  int32() keeps its wrap-around and float32() its rounding,   *)
(* at widths that are constants; a number that may be a fraction is        *)
(* counted in a unit small enough to make it an integer.                   *)
(***************************************************************************)
EXTENDS GenaiSchema, Integers, FiniteSetsExt, SequencesExt

CONSTANTS HalfInt32,   \* 2^31 in the code: an int32 is below it
          ExactFloat,  \* 2^24 in the code: a float32 is that many spacings at most
          Spacings     \* of neighbouring float32s, powers of two in the code

ASSUME HalfInt32Assumption == HalfInt32 \in Nat \ {0}
ASSUME FloatAssumption ==
    /\ ExactFloat \in Nat \ {0}
    /\ Spacings \subseteq Nat \ {0}
    /\ \A s, t \in Spacings : s <= t => t % s = 0

NoPart == [holds |-> <<>>, name |-> "", function |-> "", mime |-> "", id |-> "",
           thought |-> FALSE, nil |-> TRUE]
Blank == [NoPart EXCEPT !.nil = FALSE]
NoMessage == [role |-> "nil", parts |-> <<>>]

Contents == {"text", "file", "bin", "call", "response"}
Holding(content, value) == [c \in {content} |-> value]
Only(key, response) == [k \in DOMAIN response \intersect {key} |-> response[k]]

(* The options that are numbers of their own width. *)
Narrowed == {"max_tokens", "candidate_count", "seed"}
Rounded == {"top_k", "presence_penalty", "frequency_penalty"}
PassedOn == {"temperature", "top_p", "output_mime"}

(* What callers pass: a message is a role and parts that may have several   *)
(* contents, and the numbers among the options are in a float32's range.    *)
IsMessage(m) ==
    /\ m.parts \in Seq(ToSet(m.parts))
    /\ \A p \in ToSet(m.parts) : DOMAIN p.holds \subseteq Contents

AreOptions(options) ==
    /\ \A name \in DOMAIN options \intersect Narrowed : options[name] \in Int
    /\ \A name \in DOMAIN options \intersect Rounded : \E u \in Spacings :
          options[name] \in -(ExactFloat * u)..(ExactFloat * u)

(* What the client answers: a part has one content, and of the other values *)
(* those that go with it; an empty text is no content.                      *)
IsClientPart(p) ==
    \/ p.holds = <<>>
    \/ \E case \in Contents \intersect DOMAIN p.holds :
          /\ case = "text" => p.holds[case] # ""
          /\ case = "response" =>
                p.holds[case] = [k \in DOMAIN p.holds[case] |-> p.holds[case][k]]
          /\ p.thought \in BOOLEAN
          /\ p = [Blank EXCEPT
                    !.holds = Holding(case, p.holds[case]),
                    !.name = IF case = "response" THEN p.name ELSE "",
                    !.function = IF case = "call" THEN p.function ELSE "",
                    !.mime = IF case \in {"file", "bin"} THEN p.mime ELSE "",
                    !.id = IF case = "call" THEN p.id ELSE "",
                    !.thought = p.thought]

IsContent(content) ==
    /\ content.role \in {"user", "model"}
    /\ content.parts \in Seq(ToSet(content.parts))
    /\ \A p \in ToSet(content.parts) : IsClientPart(p)

(* The case a switch takes: the first in its order. *)
SendOrder == <<"text", "file", "bin", "call", "response">>
AnswerOrder == <<"text", "bin", "file", "call", "response">>

Switch(order, has) ==
    IF has = {} THEN "none" ELSE order[Min({i \in DOMAIN order : order[i] \in has})]

(* The loops append what they do not drop, one after the other. *)
Without(seq, dropped) ==
    LET kept[i \in 0..Len(seq)] ==
            IF i = 0 THEN <<>>
            ELSE IF seq[i] \in dropped THEN kept[i - 1]
            ELSE Append(kept[i - 1], seq[i])
    IN kept[Len(seq)]

(* A part that converts to nil is left out. *)
WithoutNil(parts) == Without(parts, {NoPart})
-----------------------------------------------------------------------------
(* The request. *)

Spoken(text) == IF text = "" THEN <<>> ELSE Holding("text", text)
NewPartFromText(text) == [Blank EXCEPT !.holds = Spoken(text)]

(* The case's own value is sent, and the part's other contents are not. *)
convertPart(p) ==
    LET case == Switch(SendOrder, DOMAIN p.holds)
        taken == Holding(case, p.holds[case])
    IN
    CASE case = "text" -> NewPartFromText(p.holds[case])
      [] case \in {"file", "bin"} -> [Blank EXCEPT !.holds = taken, !.mime = p.mime]
      [] case = "call" ->
            [Blank EXCEPT !.holds = taken, !.function = p.function, !.id = p.id]
      [] case = "response" -> [Blank EXCEPT !.holds = taken, !.name = p.name]
      [] case = "none" -> NoPart

convertParts(parts) == WithoutNil([i \in DOMAIN parts |-> convertPart(parts[i])])

convertRole(role) == IF role = "assistant" THEN "model" ELSE "user"

convertMessage(m) ==
    LET parts == convertParts(m.parts) IN
    [role |-> convertRole(m.role),
     parts |-> IF parts = <<>> THEN <<NewPartFromText("")>> ELSE parts]

GetSystemInstructions(options) ==
    IF "system_instructions" \in DOMAIN options
    THEN options["system_instructions"] ELSE ""

extractSystemParts(m, options) ==
    (IF GetSystemInstructions(options) = "" THEN <<>>
     ELSE <<NewPartFromText(GetSystemInstructions(options))>>)
    \o (IF m.role = "system" THEN convertParts(m.parts) ELSE <<>>)

(* Mutant: a system message is an ordinary turn as well. *)
MutantBuildContents(m, options) ==
    [contents |-> IF m = NoMessage THEN <<>> ELSE <<convertMessage(m)>>,
     system |-> extractSystemParts(m, options)]

(* A system instruction without parts is nil. *)
buildContents(m, options) ==
    [contents |-> IF m = NoMessage \/ m.role = "system" THEN <<>>
                  ELSE <<convertMessage(m)>>,
     system |-> extractSystemParts(m, options)]

Int32(v) == ((v + HalfInt32) % (2 * HalfInt32)) - HalfInt32

(* The nearest float32, the even one of two: the floats around v are u apart. *)
Float32(v) ==
    LET u == Min({s \in Spacings : v \in -(ExactFloat * s)..(ExactFloat * s)})
        below == v \div u
        up == 2 * (v % u) > u \/ (2 * (v % u) = u /\ below % 2 = 1)
    IN  u * (IF up THEN below + 1 ELSE below)

(* Which options reach the configuration, and as what. *)
Reaches(name, v) ==
    \/ name \in Narrowed \union Rounded \union PassedOn
    \/ name = "stop_words" /\ v # <<>>
    \/ name = "schema" /\ v # NoSchema

AsSent(name, v) ==
    CASE name \in Narrowed -> Int32(v)
      [] name \in Rounded -> Float32(v)
      [] name = "schema" -> convertSchema[v]
      [] OTHER -> v

buildGenerateConfig(options) ==
    [name \in {n \in DOMAIN options : Reaches(n, options[n])} |->
        AsSent(name, options[name])]

(* What the client is called with. *)
Request(m, options) ==
    LET built == buildContents(m, options) IN
    [contents |-> built.contents, system |-> built.system,
     config |-> buildGenerateConfig(options)]
-----------------------------------------------------------------------------
(* The response. *)

NilResponse == [candidates |-> "nil"]
NoUsage == [input |-> 0, output |-> 0]

(* Mutant: the id of a function call is forgotten. *)
MutantConvertFromGooglePart(p) ==
    LET case == Switch(AnswerOrder, DOMAIN p.holds) IN
    IF p = NoPart \/ case = "none" THEN NoPart
    ELSE [Blank EXCEPT !.holds = Holding(case, p.holds[case]), !.name = p.name,
                       !.function = p.function, !.mime = p.mime,
                       !.thought = p.thought /\ case = "text"]

(* A function response keeps its text alone. *)
convertFromGooglePart(p) ==
    LET case == Switch(AnswerOrder, DOMAIN p.holds)
        taken == Holding(case, p.holds[case])
    IN
    CASE case = "text" -> [Blank EXCEPT !.holds = taken, !.thought = p.thought]
      [] case \in {"bin", "file"} -> [Blank EXCEPT !.holds = taken, !.mime = p.mime]
      [] case = "call" ->
            [Blank EXCEPT !.holds = taken, !.name = p.function,
                          !.function = p.function, !.id = p.id]
      [] case = "response" ->
            [Blank EXCEPT !.holds = Holding(case, Only("text", p.holds[case])),
                          !.name = p.name]
      [] case = "none" -> NoPart

convertFromGoogleRole(role) == IF role = "user" THEN "user" ELSE "assistant"

convertFromGoogleContent(content) ==
    [role |-> convertFromGoogleRole(content.role),
     parts |-> WithoutNil([i \in DOMAIN content.parts |->
                             convertFromGooglePart(content.parts[i])])]

mapFinishReason(reason) ==
    CASE reason = "STOP" -> "stop"
      [] reason = "MAX_TOKENS" -> "length"
      [] reason \in {"SAFETY", "RECITATION", "BLOCKLIST", "PROHIBITED_CONTENT", "SPII"} ->
            "content_filter"
      [] reason = "MALFORMED_FUNCTION_CALL" -> "function_call"
      [] reason = "" -> "in_progress"
      [] OTHER -> "unknown"

(* A chunk may name a page of the web, a retrieved document, or both. *)
convertGroundingMetadata(chunks) ==
    FlattenSeq([i \in DOMAIN chunks |->
        SelectSeq(<<"web", "retrieved">>, LAMBDA source : source \in chunks[i])])

(* Content and metadata may be nil: NoMessage, <<>>. *)
convertCandidate(c) ==
    [index |-> c.index, finish |-> mapFinishReason(c.reason),
     message |-> IF c.content = NoMessage THEN NoMessage
                 ELSE convertFromGoogleContent(c.content),
     groundings |-> convertGroundingMetadata(c.grounding)]

toGenResponse(r) ==
    IF r = NilResponse THEN NilResponse
    ELSE [meta |-> r.usage,
          candidates |-> [i \in DOMAIN r.candidates |-> convertCandidate(r.candidates[i])]]
=============================================================================
