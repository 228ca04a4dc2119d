----------------------------- MODULE GenaiStream -----------------------------
(***************************************************************************)
(* Generate and GenerateStream of src/genai/genai.go.  GenerateStream is    *)
(* the goroutine that builds the request, turns the responses of the GenAI *)
(* client's iterator into values on responseChan (buffered) and at most    *)
(* one error on errorChan (buffer of one), and the caller at the other end *)
(* of the two channels; Generate is one request and one response.  The     *)
(* conversions are those of GenaiConvert.                                  *)
(*                                                                         *)
(* The client is external: its iterator yields responses, which may be     *)
(* nil, and ends, or yields an error at any time.  The caller is external: *)
(* the package's README reads responseChan to its end and then errorChan   *)
(* ("drain"); another caller asks for the error first; either may cancel   *)
(* the context, and either may go away.                                    *)
(***************************************************************************)
EXTENDS GenaiConvert

CONSTANTS Capacity,     \* the buffer of responseChan: 10 in the code
          Sessions      \* what callers ask and the model answers:
                        \* [message, options, responses]

ASSUME CapacityAssumption == Capacity \in Nat \ {0}
ASSUME SessionsAssumption ==
    \A s \in Sessions :
        /\ "schema" \in DOMAIN s.options => s.options["schema"] \in Schemas
        /\ Len(s.responses) \in Nat /\ DOMAIN s.responses = 1..Len(s.responses)
        /\ IsMessage(s.message) /\ AreOptions(s.options)
        /\ \A r \in ToSet(s.responses) \ {NilResponse} : \A i \in DOMAIN r.candidates :
              LET content == r.candidates[i].content IN
              content = NoMessage \/ IsContent(content)

VARIABLES
    plan,       \* Generate, or how the caller reads the channels
    session,    \* what is asked and what would be answered
    sent,       \* the request, once the client has it
    pc,         \* where the goroutine, or Generate, is
    pulled,     \* the chunks taken from the iterator
    reason,     \* the error about to be sent
    responseChan, responseOpen,
    errorChan, errorOpen,
    ctxDone,    \* ctx.Done() is closed
    caller,     \* what the caller is doing
    received,   \* history: the responses the caller has received
    verdict     \* what the caller has read from errorChan

channels == <<responseChan, responseOpen, errorChan, errorOpen>>
goroutineVars == <<sent, pc, pulled, reason>>
callerVars == <<caller, received, verdict>>
inputs == <<plan, session>>
vars == <<inputs, goroutineVars, channels, ctxDone, callerVars>>

Plans == {"drain", "errorFirst", "generate"}
Total == Len(session.responses)
NotSent == [contents |-> "nothing"]

Init ==
    /\ plan \in Plans
    /\ session \in Sessions
    /\ plan = "generate" => Total = 1 /\ session.responses[1] # NilResponse
    /\ sent = NotSent
    /\ pc = "building" /\ pulled = 0 /\ reason = "none"
    /\ responseChan = <<>> /\ responseOpen = TRUE
    /\ errorChan = <<>> /\ errorOpen = TRUE
    /\ ctxDone = FALSE
    /\ caller = CASE plan = "drain" -> "ranging"
                  [] plan = "errorFirst" -> "asking"
                  [] plan = "generate" -> "calling"
    /\ received = <<>> /\ verdict = "unread"

Goto(from, to) == pc = from /\ pc' = to

(* buildContents, buildGenerateConfig and the call of the client. *)
BuildRequest ==
    /\ Goto("building", "pulling")
    /\ sent' = Request(session.message, session.options)
    /\ UNCHANGED <<inputs, pulled, reason, channels, ctxDone, callerVars>>
-----------------------------------------------------------------------------
(* Generate. *)

GenerateAnswers ==
    /\ plan = "generate"
    /\ Goto("pulling", "ended")
    /\ pulled' = 1
    /\ received' = <<toGenResponse(session.responses[1])>>
    /\ caller' = "finished" /\ verdict' = "nil"
    /\ UNCHANGED <<inputs, sent, reason, channels, ctxDone>>

GenerateFails ==
    /\ plan = "generate"
    /\ Goto("pulling", "ended")
    /\ caller' = "finished" /\ verdict' = "stream"
    /\ UNCHANGED <<inputs, sent, pulled, reason, channels, ctxDone, received>>
-----------------------------------------------------------------------------
(* The goroutine of GenerateStream. *)

Streaming == plan # "generate"

PullChunk ==
    /\ Streaming /\ pulled < Total
    /\ Goto("pulling", "pulled")
    /\ pulled' = pulled + 1
    /\ UNCHANGED <<inputs, sent, reason, channels, ctxDone, callerVars>>

(* The iterator yields an error: the API's, the network's, the context's. *)
PullError ==
    /\ Streaming
    /\ Goto("pulling", "failing")
    /\ reason' = "stream"
    /\ UNCHANGED <<inputs, sent, pulled, channels, ctxDone, callerVars>>

IteratorEnds ==
    /\ Streaming /\ pulled = Total
    /\ Goto("pulling", "closingErr")
    /\ UNCHANGED <<inputs, sent, pulled, reason, channels, ctxDone, callerVars>>

(* Mutant: a context that is done just ends the stream. *)
MutantQuietCancel ==
    /\ Goto("pulled", IF ctxDone THEN "closingErr" ELSE "sending")
    /\ UNCHANGED <<inputs, sent, pulled, reason, channels, ctxDone, callerVars>>

(* The select with a default: the chunk in hand is dropped if the context  *)
(* is done, and it is not looked at again while the goroutine sends.       *)
CheckContext ==
    /\ Goto("pulled", IF ctxDone THEN "failing" ELSE "sending")
    /\ reason' = IF ctxDone THEN "ctx" ELSE reason
    /\ UNCHANGED <<inputs, sent, pulled, channels, ctxDone, callerVars>>

Converted == toGenResponse(session.responses[pulled])

(* A response that converts to nil is not sent. *)
SkipNil ==
    /\ Goto("sending", "pulling") /\ Converted = NilResponse
    /\ UNCHANGED <<inputs, sent, pulled, reason, channels, ctxDone, callerVars>>

(* Mutant: the goroutine does not wait for room in the buffer. *)
MutantSendOrDrop ==
    /\ Goto("sending", "pulling") /\ Converted # NilResponse
    /\ responseChan' = IF Len(responseChan) < Capacity
                       THEN Append(responseChan, Converted) ELSE responseChan
    /\ UNCHANGED <<inputs, sent, pulled, reason, responseOpen, errorChan, errorOpen,
                   ctxDone, callerVars>>

(* Mutant: the buffer of responseChan is one short. *)
MutantSmallBuffer ==
    /\ Len(responseChan) < Capacity - 1
    /\ Goto("sending", "pulling") /\ Converted # NilResponse
    /\ responseChan' = Append(responseChan, Converted)
    /\ UNCHANGED <<inputs, sent, pulled, reason, responseOpen, errorChan, errorOpen,
                   ctxDone, callerVars>>

SendResponse ==
    /\ Len(responseChan) < Capacity
    /\ Goto("sending", "pulling") /\ Converted # NilResponse
    /\ responseChan' = Append(responseChan, Converted)
    /\ UNCHANGED <<inputs, sent, pulled, reason, responseOpen, errorChan, errorOpen,
                   ctxDone, callerVars>>

(* Mutant: an error does not end the loop, and errorChan has a larger      *)
(* buffer.                                                                 *)
MutantSendManyErrors ==
    /\ Goto("failing", "pulling")
    /\ errorChan' = Append(errorChan, reason)
    /\ UNCHANGED <<inputs, sent, pulled, reason, responseChan, responseOpen,
                   errorOpen, ctxDone, callerVars>>

SendError ==
    /\ Len(errorChan) < 1
    /\ Goto("failing", "closingErr")
    /\ errorChan' = Append(errorChan, reason)
    /\ UNCHANGED <<inputs, sent, pulled, reason, responseChan, responseOpen,
                   errorOpen, ctxDone, callerVars>>

(* Mutant: the deferred calls in the other order, responseChan closed first *)
(* and errorChan not at all.                                                *)
MutantCloseResponsesOnly ==
    /\ Goto("closingErr", "ended")
    /\ responseOpen' = FALSE
    /\ UNCHANGED <<inputs, sent, pulled, reason, responseChan, errorChan, errorOpen,
                   ctxDone, callerVars>>

(* The deferred calls, last in first out: errorChan, then responseChan. *)
CloseErrorChan ==
    /\ Goto("closingErr", "closingResponses")
    /\ errorOpen' = FALSE
    /\ UNCHANGED <<inputs, sent, pulled, reason, responseChan, responseOpen,
                   errorChan, ctxDone, callerVars>>

CloseResponseChan ==
    /\ Goto("closingResponses", "ended")
    /\ responseOpen' = FALSE
    /\ UNCHANGED <<inputs, sent, pulled, reason, responseChan, errorChan, errorOpen,
                   ctxDone, callerVars>>
-----------------------------------------------------------------------------
(* The caller. *)

CancelContext ==
    /\ ~ctxDone /\ ctxDone' = TRUE
    /\ UNCHANGED <<inputs, goroutineVars, channels, callerVars>>

ReceiveResponse ==
    /\ caller = "ranging" /\ responseChan # <<>>
    /\ received' = Append(received, Head(responseChan))
    /\ responseChan' = Tail(responseChan)
    /\ UNCHANGED <<inputs, goroutineVars, responseOpen, errorChan, errorOpen,
                   ctxDone, caller, verdict>>

RangeEnds ==
    /\ caller = "ranging" /\ responseChan = <<>> /\ ~responseOpen
    /\ caller' = IF plan = "drain" THEN "asking" ELSE "finished"
    /\ UNCHANGED <<inputs, goroutineVars, channels, ctxDone, received, verdict>>

(* <-errorChan: an error, or nil from the closed and empty channel. *)
ReceiveError ==
    /\ caller = "asking"
    /\ \/ /\ errorChan # <<>>
          /\ verdict' = Head(errorChan) /\ errorChan' = Tail(errorChan)
       \/ /\ errorChan = <<>> /\ ~errorOpen
          /\ verdict' = "nil" /\ UNCHANGED errorChan
    /\ caller' = IF plan = "drain" THEN "finished" ELSE "ranging"
    /\ UNCHANGED <<inputs, goroutineVars, responseChan, responseOpen, errorOpen,
                   ctxDone, received>>

GoAway ==
    /\ caller \in {"ranging", "asking"}
    /\ caller' = "gone"
    /\ UNCHANGED <<inputs, goroutineVars, channels, ctxDone, received, verdict>>
-----------------------------------------------------------------------------
(* Where the system may stop: the goroutine has ended, or its send waits   *)
(* for a caller that is gone or that waits for the error first.            *)
SendBlocks ==
    pc = "sending" /\ Converted # NilResponse /\ Len(responseChan) = Capacity
Stopped ==
    /\ pc = "ended" \/ SendBlocks
    /\ \/ caller \in {"finished", "gone"}
       \/ SendBlocks /\ plan = "errorFirst" /\ caller = "asking"
    /\ UNCHANGED vars

Goroutine ==
    \/ BuildRequest \/ GenerateAnswers \/ GenerateFails
    \/ PullChunk \/ PullError \/ IteratorEnds \/ CheckContext \/ SkipNil
    \/ SendResponse \/ SendError \/ CloseErrorChan \/ CloseResponseChan
Reading == ReceiveResponse \/ RangeEnds \/ ReceiveError

Next == Goroutine \/ Reading \/ CancelContext \/ GoAway \/ Stopped

Spec == Init /\ [][Next]_vars

(* The iterator yields or ends, the goroutine is scheduled, and a caller   *)
(* that has not gone away reads on.                                        *)
FairSpec == Spec /\ WF_vars(Goroutine) /\ WF_vars(Reading)
-----------------------------------------------------------------------------
(* What the caller should see: of the first n responses of the session     *)
(* those that do not convert to nil, converted, one after the other.       *)
Kept(n) == {i \in 1..n : toGenResponse(session.responses[i]) # NilResponse}
Shown == {toGenResponse(session.responses[i]) : i \in Kept(Total)}

IsAnswer(seq, n) ==
    /\ Len(seq) = Cardinality(Kept(n))
    /\ \A i \in Kept(n) :
          seq[Cardinality(Kept(i))] = toGenResponse(session.responses[i])

TypeOK ==
    /\ plan \in Plans /\ session \in Sessions
    /\ sent \in {NotSent, Request(session.message, session.options)}
    /\ sent = NotSent <=> pc = "building"
    /\ pc \in {"building", "pulling", "pulled", "sending", "failing", "closingErr",
               "closingResponses", "ended"}
    /\ pulled \in 0..Total
    /\ reason \in {"none", "stream", "ctx"}
    /\ received \in Seq(Shown)
    /\ responseChan \in Seq(Shown) /\ Len(responseChan) <= Capacity
    /\ errorChan \in Seq({"stream", "ctx"}) /\ Len(errorChan) <= 1
    /\ responseOpen \in BOOLEAN /\ errorOpen \in BOOLEAN /\ ctxDone \in BOOLEAN
    /\ caller \in {"calling", "ranging", "asking", "finished", "gone"}
    /\ verdict \in {"unread", "nil", "stream", "ctx"}

(* What the caller has and what waits in the buffer is the beginning of    *)
(* the converted stream, in order, without a gap: at most the response in  *)
(* the goroutine's hand is missing.                                        *)
NoGap ==
    \/ IsAnswer(received \o responseChan, pulled)
    \/ pulled > 0 /\ IsAnswer(received \o responseChan, pulled - 1)

(* A caller that has read both channels to the end, in either order, and   *)
(* was given no error has the whole stream: a stream cut short by the API  *)
(* or by the context always says so (l.169-177).                           *)
NoSilentTruncation ==
    caller = "finished" /\ verdict = "nil" => IsAnswer(received, Total)

(* The whole answer: the responses, converted, those that are nil left out. *)
WholeAnswer ==
    Without([i \in 1..Total |-> toGenResponse(session.responses[i])], {NilResponse})

(* Generate and GenerateStream implement ResponseStream: whatever is on its *)
(* way through the goroutine and the two channels, in whichever order the  *)
(* caller reads them and whenever the context is done, each step is one of *)
(* that stream or none (l.144-189).                                        *)
Stream == INSTANCE ResponseStream
             WITH answer <- WholeAnswer, delivered <- received,
                  word <- verdict, over <- (caller = "finished")
ImplementsStream == Stream!Spec

(* A caller that drains the responses and then asks for the error always   *)
(* gets through, and the goroutine ends behind it: when the range over     *)
(* responseChan ends, errorChan has its error or is closed (l.162-163).    *)
DrainingCallerFinishes ==
    plan = "drain" ~> (caller = "finished" /\ pc = "ended") \/ caller = "gone"

(* A caller that asks for the error first gets through as long as the      *)
(* stream fits the buffer of responseChan (l.158); with a longer stream    *)
(* the two wait for each other.                                            *)
ErrorFirstFinishesWithinCapacity ==
    plan = "errorFirst" /\ Cardinality(Kept(Total)) <= Capacity
        ~> (caller = "finished" /\ pc = "ended") \/ caller = "gone"

PartsOf(m) == Without(m.parts, {p \in ToSet(m.parts) : DOMAIN p.holds = {}})
Turn == IF sent.contents = <<>> THEN <<>> ELSE sent.contents[1].parts

(* What a part says: its first content, with its value. *)
Said(p) ==
    LET first == Switch(SendOrder, DOMAIN p.holds) IN
    CASE first = "none" -> <<>>
      [] first = "text" -> Spoken(p.holds["text"])
      [] OTHER -> Holding(first, p.holds[first])
Values(parts) == [i \in DOMAIN parts |-> Said(parts[i])]

(* Which numbers their field of the request can hold. *)
Floats == {m * u : m \in -ExactFloat..ExactFloat, u \in Spacings}
Fits(name, v) ==
    /\ name \in Narrowed => v \in -HalfInt32..(HalfInt32 - 1)
    /\ name \in Rounded => v \in Floats

(* What the request says of what the caller said, and that it says it once. *)
(* Every part of the message that has something in it is there, in order,  *)
(* behind the system instruction where it belongs to it and in the one     *)
(* turn otherwise; of a part with several contents it says the first of    *)
(* text, file, bytes, call and response, be it an empty text, and the      *)
(* others are lost (l.69-99).  Every option that is set is there, and no   *)
(* other; a number arrives as it is if its field can hold it, and as       *)
(* another one if not: the int32s wrap (l.125, 144, 162), the float32s are *)
(* rounded (l.139, 152, 157).  A schema keeps what stands at each place of *)
(* its tree.                                                               *)
RequestSaysItAll ==
    sent # NotSent =>
        LET given == session.options
            text == GetSystemInstructions(given)
            instruction == IF text = "" THEN <<>> ELSE <<Spoken(text)>>
            system == session.message.role = "system"
            said == Values(PartsOf(session.message))
        IN
        /\ Values(sent.system) = instruction \o (IF system THEN said ELSE <<>>)
        /\ ~system => Without(Values(Turn), {<<>>}) = Without(said, {<<>>})
        /\ system => sent.contents = <<>>
        /\ \A name \in DOMAIN given \intersect (Narrowed \union Rounded \union PassedOn) :
              /\ name \in DOMAIN sent.config
              /\ sent.config[name] = given[name] <=> Fits(name, given[name])
        /\ DOMAIN sent.config \subseteq DOMAIN given
        /\ "stop_words" \in DOMAIN given /\ given["stop_words"] # <<>>
              => sent.config["stop_words"] = given["stop_words"]
        /\ "schema" \in DOMAIN given /\ given["schema"] # NoSchema =>
              convertedOutline[sent.config["schema"]] = outline[given["schema"]]

(* What does not survive the way to the caller and back: the mark of a     *)
(* thought, and what a function response holds besides its text.           *)
Portable(p) ==
    /\ ~p.thought
    /\ "response" \in DOMAIN p.holds => DOMAIN p.holds["response"] = {"text"}

(* A conversation can go on: the message of a response, sent as the next   *)
(* turn, reaches the model with the role and the portable parts it came    *)
(* with, the ids that tie a function call to its response among them.      *)
HistorySurvives ==
    \A r \in ToSet(received) : \A i \in DOMAIN r.candidates :
        LET came == session.responses[1].candidates[i].content
            again == convertMessage(r.candidates[i].message)
        IN  Len(session.responses) = 1 /\ came # NoMessage =>
                /\ again.role = came.role
                /\ \A p \in ToSet(came.parts) :
                      DOMAIN p.holds # {} /\ Portable(p) => p \in ToSet(again.parts)
=============================================================================
