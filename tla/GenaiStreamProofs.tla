------------------------- MODULE GenaiStreamProofs --------------------------
(***************************************************************************)
(* Proofs about GenaiStream: for any sessions and any size of the buffer   *)
(* the caller of GenerateStream has, at any time, the beginning of the     *)
(* model's answer without a gap, and a caller that read both channels to   *)
(* the end and was given no error has all of it.  The argument follows one *)
(* response from the iterator through the goroutine's hand and the buffer, *)
(* and the goroutine's one verdict from errorChan to the caller.  And for   *)
(* any message, options, schema and answer, the conversions lose on the way *)
(* to the model what stands behind a part's first content, change just the  *)
(* numbers their fields cannot hold, and lose on the way to the caller and  *)
(* back the rest of what is not Portable.                                   *)
(***************************************************************************)
EXTENDS GenaiStream, OrderLemmas, SequenceTheorems, FiniteSetTheorems, TLAPS

Closing == {"closingErr", "closingResponses", "ended"}
Complete(n) == IsAnswer(received \o responseChan, n)

(* What became of the responses pulled so far. *)
FlowInv ==
    /\ pc \in {"building", "pulling"} => Complete(pulled)
    /\ pc \in {"pulled", "sending"} => pulled > 0 /\ Complete(pulled - 1)
    /\ pc = "failing" => reason # "none"
    /\ pc \in {"failing"} \union Closing =>
          Complete(pulled) \/ (pulled > 0 /\ Complete(pulled - 1))

(* An error is on its way to a caller whose stream was cut short, and a    *)
(* caller that read nil has a complete one ahead.                          *)
VerdictInv ==
    Streaming =>
      /\ pc \notin Closing => errorChan = <<>> /\ verdict = "unread"
      /\ pc \in Closing =>
            errorChan # <<>> \/ verdict \in {"stream", "ctx"} \/ Complete(Total)
      /\ verdict = "nil" => Complete(Total)

(* The channels are closed in their order, and what the caller has found    *)
(* at the end of its range stays so.                                       *)
ChannelInv ==
    Streaming =>
      /\ errorOpen <=> pc \notin {"closingResponses", "ended"}
      /\ responseOpen <=> pc # "ended"
      /\ caller = "finished" \/ (caller = "asking" /\ plan = "drain") =>
            responseChan = <<>> /\ ~responseOpen
      /\ caller # "calling"
      /\ caller = "asking" \/ (caller = "ranging" /\ plan = "drain") =>
            verdict = "unread"

(* Generate is one request, and one response that is not nil. *)
GenerateInv ==
    plan = "generate" =>
      /\ Total = 1 /\ session.responses[1] # NilResponse
      /\ responseChan = <<>>
      /\ pc \in {"building", "pulling", "ended"}
      /\ caller \in {"calling", "finished"}
      /\ caller = "calling" => received = <<>> /\ pulled = 0 /\ pc # "ended"
      /\ caller = "finished" => pc = "ended"
      /\ caller = "finished" /\ verdict = "nil" => Complete(1)

IInv == TypeOK /\ FlowInv /\ VerdictInv /\ ChannelInv /\ GenerateInv
-----------------------------------------------------------------------------
(***************************************************************************)
(* What the caller should see.                                             *)
(***************************************************************************)

LEMMA TotalIsNat == ASSUME session \in Sessions PROVE Total \in Nat
  BY SessionsAssumption DEF Total

(* The responses kept are finitely many, and the i-th of them has its place *)
(* among those.                                                             *)
LEMMA KeptCount ==
    ASSUME NEW n \in Nat
    PROVE  IsFiniteSet(Kept(n)) /\ Cardinality(Kept(n)) \in Nat
<1>1. IsFiniteSet(1..n)
  BY FS_Interval
<1>2. Kept(n) \in SUBSET (1..n)
  BY DEF Kept
<1>3. IsFiniteSet(Kept(n))
  BY <1>1, <1>2, FS_Subset
<1>4. QED BY <1>3, FS_CardinalityType

LEMMA KeptPlace ==
    ASSUME NEW n \in Nat, NEW i \in Kept(n)
    PROVE  Cardinality(Kept(i)) \in 1..Cardinality(Kept(n))
<1>1. i \in Nat /\ i \in Kept(i) /\ Kept(i) \in SUBSET Kept(n)
  BY DEF Kept
<1>2. Cardinality(Kept(i)) \in Nat /\ Cardinality(Kept(n)) \in Nat
  BY <1>1, KeptCount
<1>3. Cardinality(Kept(i)) <= Cardinality(Kept(n))
  BY <1>1, KeptCount, FS_Subset
<1>4. Cardinality(Kept(i)) # 0
  BY <1>1, KeptCount, FS_EmptySet
<1>5. QED BY <1>2, <1>3, <1>4

LEMMA KeptNext ==
    ASSUME NEW n \in Nat
    PROVE  LET r == toGenResponse(session.responses[n + 1]) IN
           /\ r = NilResponse => Kept(n + 1) = Kept(n)
           /\ r # NilResponse => /\ Kept(n + 1) = Kept(n) \union {n + 1}
                                 /\ Cardinality(Kept(n + 1)) = Cardinality(Kept(n)) + 1
<1> DEFINE r == toGenResponse(session.responses[n + 1])
<1>1. ASSUME r = NilResponse PROVE Kept(n + 1) = Kept(n)
  BY <1>1 DEF Kept
<1>2. ASSUME r # NilResponse PROVE Kept(n + 1) = Kept(n) \union {n + 1}
  BY <1>2 DEF Kept
<1>3. n + 1 \notin Kept(n)
  BY DEF Kept
<1>4. ASSUME r # NilResponse
      PROVE  Cardinality(Kept(n + 1)) = Cardinality(Kept(n)) + 1
  BY <1>2, <1>3, <1>4, KeptCount, FS_AddElement
<1>5. QED BY <1>1, <1>2, <1>4

(* Nothing is the answer to nothing. *)
LEMMA AnswerBegins == IsAnswer(<<>> \o <<>>, 0)
<1>1. Kept(0) = {}
  BY DEF Kept
<1>2. QED BY <1>1, FS_EmptySet DEF IsAnswer

(* A response that converts to nil adds nothing; any other comes last. *)
LEMMA AnswerSkips ==
    ASSUME NEW n \in Nat, NEW seq, IsAnswer(seq, n),
           toGenResponse(session.responses[n + 1]) = NilResponse
    PROVE  IsAnswer(seq, n + 1)
  BY KeptNext DEF IsAnswer

LEMMA AnswerGrows ==
    ASSUME NEW n \in Nat, NEW S, NEW seq \in Seq(S), IsAnswer(seq, n),
           toGenResponse(session.responses[n + 1]) # NilResponse,
           toGenResponse(session.responses[n + 1]) \in S
    PROVE  IsAnswer(Append(seq, toGenResponse(session.responses[n + 1])), n + 1)
<1> DEFINE r == toGenResponse(session.responses[n + 1])
           longer == Append(seq, r)
<1>1. /\ Kept(n + 1) = Kept(n) \union {n + 1}
      /\ Cardinality(Kept(n + 1)) = Cardinality(Kept(n)) + 1
  BY KeptNext
<1>2. /\ Len(longer) = Len(seq) + 1
      /\ \A i \in 1..Len(seq) : longer[i] = seq[i]
      /\ longer[Len(seq) + 1] = r
  BY AppendProperties
<1>3. Len(seq) = Cardinality(Kept(n))
  BY DEF IsAnswer
<1>4. ASSUME NEW i \in Kept(n)
      PROVE  longer[Cardinality(Kept(i))] = toGenResponse(session.responses[i])
  BY <1>2, <1>3, KeptPlace DEF IsAnswer
<1> HIDE DEF r, longer
<1>5. Len(longer) = Cardinality(Kept(n + 1))
  BY <1>1, <1>2, <1>3, KeptCount
<1>6. longer[Cardinality(Kept(n + 1))] = r
  BY <1>1, <1>2, <1>3
<1>7. QED BY <1>1, <1>4, <1>5, <1>6 DEF IsAnswer, r, longer

(* No place among the kept is empty. *)
LEMMA KeptOnto ==
    ASSUME NEW n \in Nat
    PROVE  \A k \in 1..Cardinality(Kept(n)) : \E i \in Kept(n) : Cardinality(Kept(i)) = k
<1> DEFINE Onto(m) == \A k \in 1..Cardinality(Kept(m)) :
                         \E i \in Kept(m) : Cardinality(Kept(i)) = k
           S == {m \in Nat : Onto(m)}
<1>1. Onto(0)
  <2>1. Kept(0) = {}
    BY DEF Kept
  <2>2. Cardinality(Kept(0)) = 0
    BY <2>1, FS_EmptySet
  <2>3. QED BY <2>2
<1>2. ASSUME NEW m \in Nat, Onto(m) PROVE Onto(m + 1)
  <2>1. CASE toGenResponse(session.responses[m + 1]) = NilResponse
    BY <1>2, <2>1, KeptNext
  <2>2. CASE toGenResponse(session.responses[m + 1]) # NilResponse
    <3>1. /\ Kept(m + 1) = Kept(m) \union {m + 1}
          /\ Cardinality(Kept(m + 1)) = Cardinality(Kept(m)) + 1
          /\ Cardinality(Kept(m)) \in Nat
      BY <2>2, KeptNext, KeptCount
    <3>2. ASSUME NEW k \in 1..Cardinality(Kept(m + 1))
          PROVE  \E i \in Kept(m + 1) : Cardinality(Kept(i)) = k
      <4>1. CASE k = Cardinality(Kept(m + 1))
        BY <3>1, <4>1
      <4>2. CASE k # Cardinality(Kept(m + 1))
        <5>1. k \in 1..Cardinality(Kept(m))
          BY <3>1, <4>2
        <5>2. PICK i \in Kept(m) : Cardinality(Kept(i)) = k
          BY <1>2, <5>1
        <5>3. QED BY <3>1, <5>2
      <4>3. QED BY <4>1, <4>2
    <3>3. QED BY <3>2
  <2>3. QED BY <2>1, <2>2
<1> HIDE DEF Onto
<1>3. S = Nat
  <2>1. S \in SUBSET Nat /\ 0 \in S /\ \A m \in S : m + 1 \in S
    BY <1>1, <1>2
  <2> HIDE DEF S
  <2>2. QED BY <2>1, NatSetInduction
<1>4. Onto(n)
  BY <1>3
<1>5. QED BY <1>4 DEF Onto

(* The answer to the first responses begins the answer to more of them. *)
LEMMA AnswersAgree ==
    ASSUME NEW m \in Nat, NEW n \in Nat, m <= n,
           NEW s, IsAnswer(s, m), NEW t, IsAnswer(t, n)
    PROVE  /\ Len(s) \in Nat /\ Len(t) \in Nat /\ Len(s) <= Len(t)
           /\ \A k \in 1..Len(s) : s[k] = t[k]
<1>1. Kept(m) \in SUBSET Kept(n)
  BY DEF Kept
<1>2. /\ Len(s) = Cardinality(Kept(m)) /\ Len(t) = Cardinality(Kept(n))
      /\ Len(s) \in Nat /\ Len(t) \in Nat
  BY KeptCount DEF IsAnswer
<1>3. Len(s) <= Len(t)
  BY <1>1, <1>2, KeptCount, FS_Subset
<1>4. ASSUME NEW k \in 1..Len(s) PROVE s[k] = t[k]
  <2>1. PICK i \in Kept(m) : Cardinality(Kept(i)) = k
    BY <1>2, KeptOnto
  <2>2. /\ s[k] = toGenResponse(session.responses[i])
        /\ t[k] = toGenResponse(session.responses[i])
    BY <1>1, <2>1 DEF IsAnswer
  <2>3. QED BY <2>2
<1>5. QED BY <1>2, <1>3, <1>4

(* The session, and what is to be seen of it, stays. *)
LEMMA InputsStay ==
    ASSUME UNCHANGED inputs
    PROVE  /\ plan' = plan /\ session' = session
           /\ Total' = Total /\ Shown' = Shown /\ Streaming' = Streaming
           /\ Request(session.message, session.options)'
                = Request(session.message, session.options)
           /\ \A s, n : IsAnswer(s, n)' <=> IsAnswer(s, n)
  BY DEF inputs, Total, Shown, Kept, Streaming, IsAnswer

(* What goes from the buffer to the caller, or from the goroutine into the  *)
(* buffer, keeps its place.                                                *)
LEMMA HeadMoves ==
    ASSUME NEW S, NEW s \in Seq(S), NEW t \in Seq(S), t # <<>>
    PROVE  /\ Append(s, Head(t)) \o Tail(t) = s \o t
           /\ Append(s, Head(t)) \in Seq(S) /\ Tail(t) \in Seq(S)
           /\ Len(Tail(t)) = Len(t) - 1
<1>1. Head(t) \in S /\ Tail(t) \in Seq(S) /\ Len(Tail(t)) = Len(t) - 1
  BY HeadTailProperties
<1>2. t = <<Head(t)>> \o Tail(t)
  BY <1>1
<1>3. Append(s, Head(t)) = s \o <<Head(t)>>
  BY <1>1, AppendIsConcat
<1>4. QED BY <1>1, <1>2, <1>3, ConcatAssociative

LEMMA LastMoves ==
    ASSUME NEW S, NEW s \in Seq(S), NEW t \in Seq(S), NEW x \in S
    PROVE  /\ s \o Append(t, x) = Append(s \o t, x)
           /\ Append(t, x) \in Seq(S) /\ Len(Append(t, x)) = Len(t) + 1
           /\ s \o t \in Seq(S)
<1>1. Append(t, x) = t \o <<x>> /\ Append(s \o t, x) = (s \o t) \o <<x>>
  BY AppendIsConcat, ConcatProperties
<1>2. QED BY <1>1, ConcatAssociative, ConcatProperties, AppendProperties
-----------------------------------------------------------------------------
(***************************************************************************)
(* The invariant, action by action.                                        *)
(***************************************************************************)

LEMMA InitIInv == Init => IInv
<1> SUFFICES ASSUME Init PROVE IInv
  OBVIOUS
<1>1. Total \in Nat
  BY TotalIsNat DEF Init
<1>2. received \o responseChan = <<>> \o <<>> /\ Complete(0)
  BY AnswerBegins DEF Init, Complete
<1>3. TypeOK
  <2>1. caller \in {"calling", "ranging", "asking", "finished", "gone"}
    BY DEF Init, Plans
  <2>2. pulled \in 0..Total /\ Len(responseChan) <= Capacity /\ Len(errorChan) <= 1
    BY <1>1, CapacityAssumption DEF Init
  <2>3. /\ received \in Seq(Shown) /\ responseChan \in Seq(Shown)
        /\ errorChan \in Seq({"stream", "ctx"})
    BY DEF Init
  <2>4. responseOpen \in BOOLEAN /\ errorOpen \in BOOLEAN /\ ctxDone \in BOOLEAN
    BY DEF Init
  <2>5. sent \in {NotSent, Request(session.message, session.options)}
    BY DEF Init
  <2>6. /\ sent = NotSent <=> pc = "building"
        /\ pc \in {"building", "pulling", "pulled", "sending", "failing",
                   "closingErr", "closingResponses", "ended"}
        /\ reason \in {"none", "stream", "ctx"}
        /\ verdict \in {"unread", "nil", "stream", "ctx"}
        /\ plan \in Plans /\ session \in Sessions
    BY DEF Init
  <2>7. QED BY <2>1, <2>2, <2>3, <2>4, <2>5, <2>6 DEF TypeOK
<1>4. FlowInv /\ VerdictInv
  BY <1>2 DEF Init, FlowInv, VerdictInv, Closing
<1>5. ChannelInv /\ GenerateInv
  BY DEF Init, ChannelInv, GenerateInv, Streaming, Plans
<1>6. QED BY <1>3, <1>4, <1>5 DEF IInv

(* A step that moves nothing between the goroutine, the buffer and the      *)
(* caller leaves what is complete complete.                                *)
LEMMA CompleteStays ==
    ASSUME UNCHANGED inputs, received' \o responseChan' = received \o responseChan
    PROVE  \A n : Complete(n)' <=> Complete(n)
  BY InputsStay DEF Complete

LEMMA BuildRequestStep == ASSUME IInv, BuildRequest PROVE IInv'
<1> USE DEF IInv, BuildRequest, Goto, channels, callerVars
<1>1. \A n : Complete(n)' <=> Complete(n)
  BY CompleteStays
<1>2. Request(session.message, session.options) # NotSent
  BY DEF Request, NotSent
<1>3. TypeOK'
  <2>1. sent' \in {NotSent, Request(session.message, session.options)}'
    BY DEF inputs, TypeOK
  <2>2. (sent = NotSent <=> pc = "building")'
    BY <1>2, NotSent' = NotSent DEF TypeOK, NotSent
  <2>3. QED BY <2>1, <2>2, InputsStay DEF TypeOK
<1>4. FlowInv'
  BY <1>1 DEF FlowInv, Closing
<1>5. VerdictInv'
  BY <1>1, InputsStay DEF VerdictInv, Closing
<1>6. ChannelInv' /\ GenerateInv'
  BY InputsStay DEF ChannelInv, GenerateInv
<1>7. QED BY <1>3, <1>4, <1>5, <1>6

LEMMA PullChunkStep == ASSUME IInv, PullChunk PROVE IInv'
<1> USE DEF IInv, PullChunk, Goto, channels, callerVars
<1>1. \A n : Complete(n)' <=> Complete(n)
  BY CompleteStays
<1>2. TypeOK'
  BY InputsStay, TotalIsNat DEF TypeOK
<1>3. FlowInv'
  BY <1>1 DEF FlowInv, Closing, TypeOK
<1>4. VerdictInv'
  BY <1>1, InputsStay DEF VerdictInv, FlowInv, Closing, TypeOK
<1>5. ChannelInv'
  BY InputsStay DEF ChannelInv, Streaming, TypeOK
<1>6. GenerateInv'
  BY <1>1, InputsStay DEF GenerateInv, Streaming, TypeOK
<1>7. QED BY <1>2, <1>3, <1>4, <1>5, <1>6

LEMMA PullErrorStep == ASSUME IInv, PullError PROVE IInv'
<1> USE DEF IInv, PullError, Goto, channels, callerVars
<1>1. \A n : Complete(n)' <=> Complete(n)
  BY CompleteStays
<1>2. TypeOK'
  BY InputsStay DEF TypeOK
<1>3. FlowInv'
  BY <1>1 DEF FlowInv, Closing, TypeOK
<1>4. VerdictInv'
  BY <1>1, InputsStay DEF VerdictInv, FlowInv, Closing, TypeOK
<1>5. ChannelInv'
  BY InputsStay DEF ChannelInv, Streaming, TypeOK
<1>6. GenerateInv'
  BY <1>1, InputsStay DEF GenerateInv, Streaming, TypeOK
<1>7. QED BY <1>2, <1>3, <1>4, <1>5, <1>6

LEMMA IteratorEndsStep == ASSUME IInv, IteratorEnds PROVE IInv'
<1> USE DEF IInv, IteratorEnds, Goto, channels, callerVars
<1>1. \A n : Complete(n)' <=> Complete(n)
  BY CompleteStays
<1>2. TypeOK'
  BY InputsStay DEF TypeOK
<1>3. FlowInv'
  BY <1>1 DEF FlowInv, Closing, TypeOK
<1>4. VerdictInv'
  BY <1>1, InputsStay DEF VerdictInv, FlowInv, Closing, TypeOK
<1>5. ChannelInv'
  BY InputsStay DEF ChannelInv, Streaming, TypeOK
<1>6. GenerateInv'
  BY <1>1, InputsStay DEF GenerateInv, Streaming, TypeOK
<1>7. QED BY <1>2, <1>3, <1>4, <1>5, <1>6

LEMMA CheckContextStep == ASSUME IInv, CheckContext PROVE IInv'
<1> USE DEF IInv, CheckContext, Goto, channels, callerVars
<1>1. \A n : Complete(n)' <=> Complete(n)
  BY CompleteStays
<1>2. TypeOK'
  BY InputsStay DEF TypeOK
<1>3. FlowInv'
  BY <1>1 DEF FlowInv, Closing, TypeOK
<1>4. VerdictInv'
  BY <1>1, InputsStay DEF VerdictInv, FlowInv, Closing, TypeOK
<1>5. ChannelInv'
  BY InputsStay DEF ChannelInv, Streaming, TypeOK
<1>6. GenerateInv'
  BY <1>1, InputsStay DEF GenerateInv, Streaming, TypeOK
<1>7. QED BY <1>2, <1>3, <1>4, <1>5, <1>6

LEMMA SendErrorStep == ASSUME IInv, SendError PROVE IInv'
<1> USE DEF IInv, SendError, Goto, callerVars
<1>1. \A n : Complete(n)' <=> Complete(n)
  BY CompleteStays
<1>2. /\ errorChan' \in Seq({"stream", "ctx"}) /\ Len(errorChan') = 1
      /\ errorChan' # <<>>
  <2>1. reason \in {"stream", "ctx"}
    BY DEF TypeOK, FlowInv
  <2>2. errorChan \in Seq({"stream", "ctx"}) /\ Len(errorChan) = 0
    BY DEF TypeOK
  <2>3. QED BY <2>1, <2>2, AppendProperties
<1>3. TypeOK'
  BY <1>2, InputsStay DEF TypeOK
<1>4. FlowInv'
  BY <1>1 DEF FlowInv, Closing, TypeOK
<1>5. VerdictInv'
  BY <1>1, <1>2, InputsStay DEF VerdictInv, FlowInv, Closing, TypeOK
<1>6. ChannelInv'
  BY InputsStay DEF ChannelInv, Streaming, TypeOK
<1>7. GenerateInv'
  BY <1>1, InputsStay DEF GenerateInv, Streaming, TypeOK
<1>8. QED BY <1>3, <1>4, <1>5, <1>6, <1>7

LEMMA CloseErrorChanStep == ASSUME IInv, CloseErrorChan PROVE IInv'
<1> USE DEF IInv, CloseErrorChan, Goto, callerVars
<1>1. \A n : Complete(n)' <=> Complete(n)
  BY CompleteStays
<1>2. TypeOK'
  BY InputsStay DEF TypeOK
<1>3. FlowInv'
  BY <1>1 DEF FlowInv, Closing, TypeOK
<1>4. VerdictInv'
  BY <1>1, InputsStay DEF VerdictInv, FlowInv, Closing, TypeOK
<1>5. ChannelInv'
  BY InputsStay DEF ChannelInv, Streaming, TypeOK
<1>6. GenerateInv'
  BY <1>1, InputsStay DEF GenerateInv, Streaming, TypeOK
<1>7. QED BY <1>2, <1>3, <1>4, <1>5, <1>6

LEMMA CloseResponseChanStep == ASSUME IInv, CloseResponseChan PROVE IInv'
<1> USE DEF IInv, CloseResponseChan, Goto, callerVars
<1>1. \A n : Complete(n)' <=> Complete(n)
  BY CompleteStays
<1>2. TypeOK'
  BY InputsStay DEF TypeOK
<1>3. FlowInv'
  BY <1>1 DEF FlowInv, Closing, TypeOK
<1>4. VerdictInv'
  BY <1>1, InputsStay DEF VerdictInv, FlowInv, Closing, TypeOK
<1>5. ChannelInv'
  BY InputsStay DEF ChannelInv, Streaming, TypeOK
<1>6. GenerateInv'
  BY <1>1, InputsStay DEF GenerateInv, Streaming, TypeOK
<1>7. QED BY <1>2, <1>3, <1>4, <1>5, <1>6

LEMMA CancelContextStep == ASSUME IInv, CancelContext PROVE IInv'
<1> USE DEF IInv, CancelContext, goroutineVars, channels, callerVars
<1>1. \A n : Complete(n)' <=> Complete(n)
  BY CompleteStays
<1>2. TypeOK'
  BY InputsStay DEF TypeOK
<1>3. FlowInv'
  BY <1>1 DEF FlowInv, Closing, TypeOK
<1>4. VerdictInv'
  BY <1>1, InputsStay DEF VerdictInv, FlowInv, Closing, TypeOK
<1>5. ChannelInv'
  BY InputsStay DEF ChannelInv, Streaming, TypeOK
<1>6. GenerateInv'
  BY <1>1, InputsStay DEF GenerateInv, Streaming, TypeOK
<1>7. QED BY <1>2, <1>3, <1>4, <1>5, <1>6

LEMMA RangeEndsStep == ASSUME IInv, RangeEnds PROVE IInv'
<1> USE DEF IInv, RangeEnds, goroutineVars, channels, callerVars
<1>1. \A n : Complete(n)' <=> Complete(n)
  BY CompleteStays
<1>2. TypeOK'
  BY InputsStay DEF TypeOK
<1>3. FlowInv'
  BY <1>1 DEF FlowInv, Closing, TypeOK
<1>4. VerdictInv'
  BY <1>1, InputsStay DEF VerdictInv, FlowInv, Closing, TypeOK
<1>5. ChannelInv'
  BY InputsStay DEF ChannelInv, Streaming, TypeOK
<1>6. GenerateInv'
  BY <1>1, InputsStay DEF GenerateInv, Streaming, TypeOK
<1>7. QED BY <1>2, <1>3, <1>4, <1>5, <1>6

LEMMA GoAwayStep == ASSUME IInv, GoAway PROVE IInv'
<1> USE DEF IInv, GoAway, goroutineVars, channels, callerVars
<1>1. \A n : Complete(n)' <=> Complete(n)
  BY CompleteStays
<1>2. TypeOK'
  BY InputsStay DEF TypeOK
<1>3. FlowInv'
  BY <1>1 DEF FlowInv, Closing, TypeOK
<1>4. VerdictInv'
  BY <1>1, InputsStay DEF VerdictInv, FlowInv, Closing, TypeOK
<1>5. ChannelInv'
  BY InputsStay DEF ChannelInv, Streaming, TypeOK
<1>6. GenerateInv'
  BY <1>1, InputsStay DEF GenerateInv, Streaming, TypeOK
<1>7. QED BY <1>2, <1>3, <1>4, <1>5, <1>6

LEMMA ReceiveErrorStep == ASSUME IInv, ReceiveError PROVE IInv'
<1> USE DEF IInv, ReceiveError, goroutineVars
<1>1. \A n : Complete(n)' <=> Complete(n)
  BY CompleteStays
<1>2. TypeOK'
  BY InputsStay DEF TypeOK
<1>3. FlowInv'
  BY <1>1 DEF FlowInv, Closing, TypeOK
<1>4. VerdictInv'
  <2>1. Streaming /\ verdict = "unread"
    BY DEF ChannelInv, GenerateInv, Streaming
  <2>2. CASE /\ errorChan # <<>>
             /\ verdict' = Head(errorChan) /\ errorChan' = Tail(errorChan)
    <3>1. verdict' \in {"stream", "ctx"}
      BY <2>2, HeadTailProperties DEF TypeOK
    <3>2. pc \in Closing
      BY <2>1, <2>2 DEF VerdictInv
    <3>3. QED BY <3>1, <3>2 DEF VerdictInv
  <2>3. CASE errorChan = <<>> /\ ~errorOpen /\ verdict' = "nil" /\ UNCHANGED errorChan
    <3>1. pc \in Closing /\ Complete(Total)
      BY <2>1, <2>3 DEF ChannelInv, VerdictInv, Closing
    <3>2. QED BY <1>1, <2>3, <3>1, InputsStay DEF VerdictInv
  <2>4. QED BY <2>2, <2>3
<1>5. ChannelInv'
  BY InputsStay DEF ChannelInv, Streaming, TypeOK
<1>6. GenerateInv'
  BY <1>1, InputsStay DEF GenerateInv, Streaming, TypeOK
<1>7. QED BY <1>2, <1>3, <1>4, <1>5, <1>6

LEMMA SkipNilStep == ASSUME IInv, SkipNil PROVE IInv'
<1> USE DEF IInv, SkipNil, Goto, channels, callerVars
<1>1. \A n : Complete(n)' <=> Complete(n)
  BY CompleteStays
<1>2. TypeOK'
  BY InputsStay DEF TypeOK
<1>3. Complete(pulled)
  <2>1. pulled - 1 \in Nat /\ (pulled - 1) + 1 = pulled /\ Complete(pulled - 1)
    BY TotalIsNat DEF TypeOK, FlowInv
  <2> DEFINE n == pulled - 1
  <2>2. n \in Nat /\ n + 1 = pulled /\ IsAnswer(received \o responseChan, n)
    BY <2>1 DEF Complete
  <2> HIDE DEF n
  <2>3. IsAnswer(received \o responseChan, n + 1)
    BY <2>2, AnswerSkips DEF Converted
  <2>4. QED BY <2>2, <2>3 DEF Complete
<1>4. FlowInv'
  BY <1>1, <1>3 DEF FlowInv, Closing
<1>5. VerdictInv' /\ ChannelInv' /\ GenerateInv'
  BY <1>1, InputsStay DEF VerdictInv, ChannelInv, GenerateInv, Closing
<1>6. QED BY <1>2, <1>4, <1>5

LEMMA SendResponseStep == ASSUME IInv, SendResponse PROVE IInv'
<1> USE DEF IInv, SendResponse, Goto, callerVars
<1> DEFINE n == pulled - 1
<1>1. /\ n \in Nat /\ n + 1 = pulled /\ pulled \in Kept(Total)
      /\ IsAnswer(received \o responseChan, n)
  BY TotalIsNat DEF TypeOK, FlowInv, Complete, Kept, Converted
<1> HIDE DEF n
<1>2. Converted \in Shown /\ Converted = toGenResponse(session.responses[n + 1])
  BY <1>1 DEF Shown, Converted
<1>3. /\ received \o responseChan' = Append(received \o responseChan, Converted)
      /\ responseChan' \in Seq(Shown) /\ Len(responseChan') = Len(responseChan) + 1
      /\ received \o responseChan \in Seq(Shown)
  BY <1>2, LastMoves DEF TypeOK
<1>4. TypeOK'
  <2>1. Len(responseChan') <= Capacity
    BY <1>3, CapacityAssumption DEF TypeOK
  <2>2. QED BY <1>3, <2>1, InputsStay DEF TypeOK
<1>5. Complete(pulled)'
  <2>1. IsAnswer(received \o responseChan', n + 1)
    BY <1>1, <1>2, <1>3, AnswerGrows
  <2>2. QED BY <1>1, <2>1, InputsStay DEF Complete
<1>6. FlowInv'
  BY <1>5 DEF FlowInv, Closing
<1>7. VerdictInv' /\ ChannelInv' /\ GenerateInv'
  BY InputsStay DEF VerdictInv, ChannelInv, GenerateInv, Closing
<1>8. QED BY <1>4, <1>6, <1>7

LEMMA ReceiveResponseStep == ASSUME IInv, ReceiveResponse PROVE IInv'
<1> USE DEF IInv, ReceiveResponse, goroutineVars
<1>1. /\ received' \o responseChan' = received \o responseChan
      /\ received' \in Seq(Shown) /\ responseChan' \in Seq(Shown)
      /\ Len(responseChan') = Len(responseChan) - 1
  BY HeadMoves DEF TypeOK
<1>2. \A n : Complete(n)' <=> Complete(n)
  <2>1. UNCHANGED inputs
    BY InputsStay
  <2>2. QED BY ONLY <1>1, <2>1, CompleteStays
<1>3. TypeOK'
  <2>1. Len(responseChan') <= Capacity
    BY <1>1, CapacityAssumption DEF TypeOK
  <2>2. QED BY <1>1, <2>1, InputsStay DEF TypeOK
<1>4. FlowInv'
  BY <1>2 DEF FlowInv, Closing
<1>5. VerdictInv'
  BY <1>2, InputsStay DEF VerdictInv, Closing
<1>6. ChannelInv' /\ GenerateInv'
  BY InputsStay DEF ChannelInv, GenerateInv
<1>7. QED BY <1>3, <1>4, <1>5, <1>6

LEMMA GenerateAnswersStep == ASSUME IInv, GenerateAnswers PROVE IInv'
<1> USE DEF IInv, GenerateAnswers, Goto, channels
<1> DEFINE r == toGenResponse(session.responses[0 + 1])
<1>1. /\ Total = 1 /\ 1 \in Kept(1) /\ r # NilResponse /\ r \in Shown
      /\ received = <<>> /\ responseChan = <<>> /\ pulled = 0 /\ pc = "pulling"
      /\ received' = <<r>>
  <2>1. Total = 1 /\ session.responses[1] # NilResponse
    BY DEF GenerateInv
  <2>2. r # NilResponse
    BY <2>1 DEF toGenResponse, NilResponse
  <2>3. r \in Shown /\ 1 \in Kept(1)
    BY <2>1, <2>2 DEF Shown, Kept
  <2>4. QED BY <2>1, <2>2, <2>3 DEF GenerateInv
<1>2. IsAnswer(received \o responseChan, 0) /\ received \o responseChan = <<>>
  BY <1>1 DEF FlowInv, Complete
<1> HIDE DEF r
<1>3. IsAnswer(<<r>>, 1)
  <2>1. IsAnswer(Append(<<>>, r), 0 + 1)
    BY <1>1, <1>2, AnswerGrows, <<>> \in Seq(Shown) DEF r
  <2>2. QED BY <2>1
<1>4. received' \o responseChan' = <<r>> /\ received' \in Seq(Shown)
  BY <1>1
<1>5. Complete(1)' /\ pulled' = Total'
  BY <1>1, <1>3, <1>4, InputsStay DEF Complete
<1>6. TypeOK'
  BY <1>1, <1>4, InputsStay DEF TypeOK
<1>7. FlowInv'
  BY <1>1, <1>5, InputsStay DEF FlowInv, Closing
<1>8. VerdictInv' /\ ChannelInv' /\ GenerateInv'
  BY <1>1, <1>5, InputsStay DEF VerdictInv, ChannelInv, GenerateInv, Streaming
<1>9. QED BY <1>6, <1>7, <1>8

LEMMA GenerateFailsStep == ASSUME IInv, GenerateFails PROVE IInv'
<1> USE DEF IInv, GenerateFails, Goto, channels
<1>1. \A n : Complete(n)' <=> Complete(n)
  BY CompleteStays
<1>2. TypeOK'
  BY InputsStay DEF TypeOK
<1>3. FlowInv'
  BY <1>1 DEF FlowInv, Closing
<1>4. VerdictInv' /\ ChannelInv' /\ GenerateInv'
  BY InputsStay DEF VerdictInv, ChannelInv, GenerateInv, Streaming
<1>5. QED BY <1>2, <1>3, <1>4

LEMMA StutterStep == ASSUME IInv, UNCHANGED vars PROVE IInv'
<1> USE DEF IInv, vars, goroutineVars, channels, callerVars
<1>1. \A n : Complete(n)' <=> Complete(n)
  BY CompleteStays
<1>2. TypeOK'
  BY InputsStay DEF TypeOK
<1>3. FlowInv' /\ VerdictInv' /\ ChannelInv' /\ GenerateInv'
  BY <1>1, InputsStay DEF FlowInv, VerdictInv, ChannelInv, GenerateInv, Closing
<1>4. QED BY <1>2, <1>3

LEMMA NextIInv == IInv /\ [Next]_vars => IInv'
<1> SUFFICES ASSUME IInv, [Next]_vars PROVE IInv'
  OBVIOUS
<1>1. CASE Goroutine
  BY <1>1, BuildRequestStep, GenerateAnswersStep, GenerateFailsStep, PullChunkStep,
     PullErrorStep, IteratorEndsStep, CheckContextStep, SkipNilStep, SendResponseStep,
     SendErrorStep, CloseErrorChanStep, CloseResponseChanStep
     DEF Goroutine
<1>2. CASE Reading
  BY <1>2, ReceiveResponseStep, RangeEndsStep, ReceiveErrorStep DEF Reading
<1>3. CASE CancelContext \/ GoAway
  BY <1>3, CancelContextStep, GoAwayStep
<1>4. CASE Stopped \/ UNCHANGED vars
  BY <1>4, StutterStep DEF Stopped
<1>5. QED BY <1>1, <1>2, <1>3, <1>4 DEF Next
-----------------------------------------------------------------------------
(***************************************************************************)
(* Without keeps the rest, in order.  A loop has, after each element, what *)
(* it kept of those before.                                                *)
(***************************************************************************)

Keeps(kept, seq, dropped, n) ==
    /\ kept[0] = <<>>
    /\ \A i \in 1..n :
          kept[i] = IF seq[i] \in dropped THEN kept[i - 1]
                    ELSE Append(kept[i - 1], seq[i])

Loop(kept, seq, dropped, n) ==
    [i \in 0..n |->
        IF i = 0 THEN <<>>
        ELSE IF seq[i] \in dropped THEN kept[i - 1]
        ELSE Append(kept[i - 1], seq[i])]

LEMMA LoopRuns ==
    ASSUME NEW seq, NEW dropped, NEW n \in Nat
    PROVE  \E kept : kept = Loop(kept, seq, dropped, n)
<1> DEFINE Runs(m) == \E kept : kept = Loop(kept, seq, dropped, m)
           S == {m \in Nat : Runs(m)}
<1>1. Runs(0)
  <2> DEFINE kept == [i \in 0..0 |-> <<>>]
  <2>1. kept = Loop(kept, seq, dropped, 0)
    BY DEF Loop
  <2> HIDE DEF kept
  <2>2. QED BY <2>1
<1>2. ASSUME NEW m \in Nat, Runs(m) PROVE Runs(m + 1)
  <2>1. PICK k : k = Loop(k, seq, dropped, m)
    BY <1>2
  <2>2. k = [i \in 0..m |->
                IF i = 0 THEN <<>>
                ELSE IF seq[i] \in dropped THEN k[i - 1]
                ELSE Append(k[i - 1], seq[i])]
    BY <2>1 DEF Loop
  <2> DEFINE next == IF seq[m + 1] \in dropped THEN k[m] ELSE Append(k[m], seq[m + 1])
             more == [i \in 0..(m + 1) |-> IF i = m + 1 THEN next ELSE k[i]]
  <2>3. ASSUME NEW i \in 0..(m + 1)
        PROVE  more[i] = IF i = 0 THEN <<>>
                         ELSE IF seq[i] \in dropped THEN more[i - 1]
                         ELSE Append(more[i - 1], seq[i])
    <3>1. CASE i = m + 1
      <4>1. i # 0 /\ i - 1 = m /\ m \in 0..(m + 1) /\ m # m + 1
        BY <3>1
      <4>2. more[i] = next /\ more[i - 1] = k[m]
        BY <3>1, <4>1
      <4>3. QED BY <3>1, <4>1, <4>2
    <3>2. CASE i # m + 1 /\ i # 0
      <4>1. i \in 0..m /\ i - 1 \in 0..m /\ i - 1 \in 0..(m + 1) /\ i - 1 # m + 1
        BY <3>2
      <4>2. more[i] = k[i] /\ more[i - 1] = k[i - 1]
        BY <3>2, <4>1
      <4> HIDE DEF more
      <4>3. k[i] = IF seq[i] \in dropped THEN k[i - 1] ELSE Append(k[i - 1], seq[i])
        BY <2>2, <3>2, <4>1
      <4>4. QED BY <3>2, <4>2, <4>3
    <3>3. CASE i = 0
      <4>1. more[i] = k[0] /\ 0 \in 0..m
        BY <3>3
      <4> HIDE DEF more
      <4>2. QED BY <2>2, <3>3, <4>1
    <3>4. QED BY <3>1, <3>2, <3>3
  <2>4. more = [i \in 0..(m + 1) |-> more[i]]
    OBVIOUS
  <2> HIDE DEF more
  <2>5. more = Loop(more, seq, dropped, m + 1)
    BY <2>3, <2>4 DEF Loop
  <2>6. QED BY <2>5
<1> HIDE DEF Runs
<1>3. S = Nat
  <2>1. S \in SUBSET Nat /\ 0 \in S /\ \A m \in S : m + 1 \in S
    BY <1>1, <1>2
  <2> HIDE DEF S
  <2>2. QED BY <2>1, NatSetInduction
<1>4. Runs(n)
  BY <1>3
<1>5. QED BY <1>4 DEF Runs

LEMMA WithoutKeeps ==
    ASSUME NEW seq, NEW dropped, Len(seq) \in Nat
    PROVE  \E kept : /\ Without(seq, dropped) = kept[Len(seq)]
                     /\ Keeps(kept, seq, dropped, Len(seq))
<1> DEFINE n == Len(seq)
           kept == CHOOSE k : k = Loop(k, seq, dropped, n)
<1>1. n \in Nat /\ Without(seq, dropped) = kept[n]
  BY DEF Without, Loop
<1> HIDE DEF n
<1>2. \E k : k = Loop(k, seq, dropped, n)
  BY <1>1, LoopRuns
<1>3. kept = [i \in 0..n |->
                                IF i = 0 THEN <<>>
                                ELSE IF seq[i] \in dropped THEN kept[i - 1]
                                ELSE Append(kept[i - 1], seq[i])]
  BY <1>2 DEF Loop
<1> HIDE DEF kept
<1>4. kept[0] = <<>>
  BY <1>1, <1>3
<1>5. ASSUME NEW i \in 1..n
      PROVE  kept[i] = IF seq[i] \in dropped THEN kept[i - 1]
                       ELSE Append(kept[i - 1], seq[i])
  <2>1. i \in 0..n /\ i # 0
    BY <1>1
  <2>2. QED BY <1>3, <2>1
<1>6. QED BY <1>1, <1>4, <1>5 DEF Keeps, n

LEMMA AppendGrows ==
    ASSUME NEW E, NEW s \in Seq(E), NEW x \in E
    PROVE  Append(s, x) \in Seq(E) /\ ToSet(Append(s, x)) = ToSet(s) \union {x}
<1> DEFINE n == Len(s)
           t == Append(s, x)
<1>1. /\ t \in Seq(E) /\ Len(t) = n + 1
      /\ \A i \in 1..n : t[i] = s[i]
      /\ t[n + 1] = x
  BY AppendProperties
<1>2. n \in Nat /\ DOMAIN s = 1..n
  BY LenProperties
<1>3. DOMAIN t = 1..(n + 1)
  BY <1>1, LenProperties
<1> HIDE DEF t, n
<1>4. 1..(n + 1) = 1..n \union {n + 1}
  BY <1>2
<1>5. QED BY <1>1, <1>2, <1>3, <1>4 DEF ToSet, t

(* One more element at a time: what holds of the kept elements of the        *)
(* beginnings of a sequence.                                               *)
LEMMA UpTo ==
    ASSUME NEW n \in Nat, NEW S \in SUBSET (0..n), 0 \in S,
           \A i \in 1..n : i - 1 \in S => i \in S
    PROVE  n \in S
<1> DEFINE T == {i \in Nat : i <= n => i \in S}
<1>1. T \in SUBSET Nat /\ 0 \in T
  OBVIOUS
<1>2. ASSUME NEW i \in T PROVE i + 1 \in T
  <2>1. CASE i + 1 <= n
    <3>1. i \in S /\ i + 1 \in 1..n /\ (i + 1) - 1 = i
      BY <2>1
    <3>2. QED BY <3>1
  <2>2. CASE ~(i + 1 <= n)
    BY <2>2
  <2>3. QED BY <2>1, <2>2
<1> HIDE DEF T
<1>3. T = Nat
  BY <1>1, <1>2, NatSetInduction
<1>4. QED BY <1>3 DEF T

LEMMA WithoutIsTheRest ==
    ASSUME NEW seq, NEW dropped, seq \in Seq(ToSet(seq))
    PROVE  /\ Without(seq, dropped) \in Seq(ToSet(seq))
           /\ ToSet(Without(seq, dropped)) = ToSet(seq) \ dropped
<1> DEFINE n == Len(seq)
           E == ToSet(seq)
<1>1. n \in Nat /\ seq \in [1..n -> E] /\ \A i \in 1..n : seq[i] \in E
  BY LenProperties
<1>2. PICK kept : Without(seq, dropped) = kept[n] /\ Keeps(kept, seq, dropped, n)
  BY <1>1, WithoutKeeps
<1>3. E = {seq[i] : i \in 1..n}
  BY <1>1 DEF ToSet
<1> HIDE DEF n, E
<1> DEFINE Rest(i) == {seq[j] : j \in 1..i} \ dropped
           Good(i) == kept[i] \in Seq(E) /\ ToSet(kept[i]) = Rest(i)
           S == {i \in 0..n : Good(i)}
<1>4. 0 \in S
  <2>1. kept[0] = <<>> /\ <<>> \in Seq(E) /\ ToSet(<<>>) = {}
    BY <1>2 DEF Keeps, ToSet
  <2>2. Rest(0) = {}
    OBVIOUS
  <2>3. Good(0) /\ 0 \in 0..n
    <3>1. kept[0] \in Seq(E) /\ ToSet(kept[0]) = {}
      BY <2>1
    <3>2. QED BY <1>1, <2>2, <3>1
  <2>4. QED BY <2>3
<1>5. ASSUME NEW i \in 1..n, i - 1 \in S PROVE i \in S
  <2>1. /\ i \in 0..n /\ i - 1 \in 0..n /\ seq[i] \in E
        /\ 1..i = 1..(i - 1) \union {i}
    BY <1>1
  <2>2. /\ kept[i - 1] \in Seq(E) /\ ToSet(kept[i - 1]) = Rest(i - 1)
        /\ kept[i] = IF seq[i] \in dropped THEN kept[i - 1]
                     ELSE Append(kept[i - 1], seq[i])
    BY <1>2, <1>5 DEF Keeps
  <2>3. Rest(i) = Rest(i - 1) \union ({seq[i]} \ dropped)
    BY <2>1
  <2>4. CASE seq[i] \in dropped
    BY <2>1, <2>2, <2>3, <2>4
  <2>5. CASE seq[i] \notin dropped
    <3>1. kept[i] = Append(kept[i - 1], seq[i])
      BY <2>2, <2>5
    <3>2. kept[i] \in Seq(E) /\ ToSet(kept[i]) = ToSet(kept[i - 1]) \union {seq[i]}
      BY <2>1, <2>2, <3>1, AppendGrows
    <3>3. QED BY <2>1, <2>2, <2>3, <2>5, <3>2
  <2>6. QED BY <2>4, <2>5
<1> HIDE DEF Good
<1>6. n \in S
  <2>1. S \in SUBSET (0..n)
    OBVIOUS
  <2> HIDE DEF S
  <2>2. QED BY <1>1, <1>4, <1>5, <2>1, UpTo
<1>7. kept[n] \in Seq(E) /\ ToSet(kept[n]) = {seq[j] : j \in 1..n} \ dropped
  BY <1>6 DEF Good
<1>8. QED BY <1>2, <1>3, <1>7 DEF n, E

(***************************************************************************)
(* The whole answer is what the responses of the whole session come to, and *)
(* what the caller has seen is its beginning.                              *)
(***************************************************************************)

LEMMA WholeIsAnswer ==
    ASSUME TypeOK
    PROVE  WholeAnswer \in Seq(Shown) /\ IsAnswer(WholeAnswer, Total)
<1> DEFINE n == Total
           seq == [i \in 1..n |-> toGenResponse(session.responses[i])]
<1>1. n \in Nat
  BY TotalIsNat DEF TypeOK
<1>2. Len(seq) = n /\ WholeAnswer = Without(seq, {NilResponse})
  BY <1>1 DEF WholeAnswer
<1>3. \A i \in 1..n : seq[i] = toGenResponse(session.responses[i])
  OBVIOUS
<1>4. \A i \in 1..n : seq[i] \in Shown \union {NilResponse}
  BY DEF Shown, Kept
<1> HIDE DEF n, seq
<1>5. PICK kept : WholeAnswer = kept[n] /\ Keeps(kept, seq, {NilResponse}, n)
  BY <1>1, <1>2, WithoutKeeps
<1> DEFINE Good(i) == kept[i] \in Seq(Shown) /\ IsAnswer(kept[i], i)
           S == {i \in 0..n : Good(i)}
<1>6. 0 \in S
  <2>1. kept[0] = <<>> /\ <<>> \in Seq(Shown)
    BY <1>5 DEF Keeps
  <2>2. IsAnswer(kept[0], 0)
    <3>1. <<>> \o <<>> = <<>>
      BY <<>> \in Seq({}), ConcatEmptySeq
    <3>2. QED BY <2>1, <3>1, AnswerBegins
  <2>3. Good(0)
    BY <2>1, <2>2
  <2>4. 0 \in 0..n
    BY <1>1
  <2> HIDE DEF Good
  <2>5. QED BY <2>3, <2>4
<1>7. ASSUME NEW i \in 1..n, i - 1 \in S PROVE i \in S
  <2> DEFINE m == i - 1
  <2>1. m \in Nat /\ m + 1 = i /\ i \in 0..n
    BY <1>1
  <2>2. kept[m] \in Seq(Shown) /\ IsAnswer(kept[m], m)
    BY <1>7
  <2>3. kept[i] = IF seq[i] = NilResponse THEN kept[m] ELSE Append(kept[m], seq[i])
    BY <1>5 DEF Keeps
  <2> HIDE DEF m
  <2>4. seq[i] = toGenResponse(session.responses[m + 1])
    BY <1>3, <2>1
  <2>5. CASE seq[i] = NilResponse
    <3>1. IsAnswer(kept[m], m + 1)
      BY <2>1, <2>2, <2>4, <2>5, AnswerSkips
    <3>2. QED BY <2>1, <2>2, <2>3, <2>5, <3>1
  <2>6. CASE seq[i] # NilResponse
    <3>1. seq[i] \in Shown
      BY <1>4, <2>6
    <3>2. IsAnswer(Append(kept[m], seq[i]), m + 1)
      BY <2>1, <2>2, <2>4, <2>6, <3>1, AnswerGrows
    <3>3. Append(kept[m], seq[i]) \in Seq(Shown)
      BY <2>2, <3>1, AppendProperties
    <3>4. QED BY <2>1, <2>3, <2>6, <3>2, <3>3
  <2>7. QED BY <2>5, <2>6
<1> HIDE DEF Good
<1>8. n \in S
  <2>1. S \in SUBSET (0..n)
    OBVIOUS
  <2> HIDE DEF S
  <2>2. QED BY <1>1, <1>6, <1>7, <2>1, UpTo
<1>9. QED BY <1>5, <1>8 DEF Good, n

LEMMA SeenBeginsAnswer ==
    ASSUME TypeOK, NEW n \in 0..Total, NEW seq, IsAnswer(seq, n)
    PROVE  /\ Len(seq) \in Nat /\ Len(WholeAnswer) \in Nat
           /\ Len(seq) <= Len(WholeAnswer)
           /\ \A k \in 1..Len(seq) : seq[k] = WholeAnswer[k]
<1>1. Total \in Nat /\ n \in Nat /\ n <= Total
  BY TotalIsNat DEF TypeOK
<1>2. IsAnswer(WholeAnswer, Total)
  BY WholeIsAnswer
<1>3. QED BY ONLY <1>1, <1>2, IsAnswer(seq, n), AnswersAgree

(* Who has the answer to all the responses has the whole one. *)
LEMMA AllIsWhole ==
    ASSUME TypeOK, NEW seq \in Seq(Shown), IsAnswer(seq, Total)
    PROVE  seq = WholeAnswer
<1>1. Total \in Nat /\ WholeAnswer \in Seq(Shown) /\ IsAnswer(WholeAnswer, Total)
  BY WholeIsAnswer, TotalIsNat DEF TypeOK
<1>2. Len(seq) = Len(WholeAnswer)
  BY <1>1 DEF IsAnswer
<1>3. \A k \in 1..Len(seq) : seq[k] = WholeAnswer[k]
  BY <1>1, AnswersAgree
<1>4. QED BY <1>1, <1>2, <1>3, SeqEqual

(***************************************************************************)
(* Parts.                                                                  *)
(***************************************************************************)

LEMMA SwitchTakesOne ==
    ASSUME NEW order, DOMAIN order \subseteq Nat, NEW has, has # {},
           has \subseteq {order[i] : i \in DOMAIN order}
    PROVE  Switch(order, has) \in has
<1> DEFINE D == {i \in DOMAIN order : order[i] \in has}
<1>1. D # {} /\ D \in SUBSET Nat
  OBVIOUS
<1>2. \E i \in D : \A j \in D : i <= j
  BY <1>1, LeastNat
<1>3. Min(D) \in D
  BY <1>2 DEF Min
<1>4. QED BY <1>3 DEF Switch

LEMMA SwitchSent ==
    /\ \A has \in SUBSET Contents : has # {} => Switch(SendOrder, has) \in has
    /\ \A c \in Contents : Switch(SendOrder, {c}) = c
<1>1. /\ DOMAIN SendOrder = 1..5
      /\ SendOrder[1] = "text" /\ SendOrder[2] = "file" /\ SendOrder[3] = "bin"
      /\ SendOrder[4] = "call" /\ SendOrder[5] = "response"
  BY DEF SendOrder
<1>2. /\ Contents \subseteq {SendOrder[i] : i \in DOMAIN SendOrder}
      /\ DOMAIN SendOrder \subseteq Nat
  BY <1>1 DEF Contents
<1>3. ASSUME NEW has \in SUBSET Contents, has # {} PROVE Switch(SendOrder, has) \in has
  BY <1>2, <1>3, SwitchTakesOne
<1>4. ASSUME NEW c \in Contents PROVE Switch(SendOrder, {c}) = c
  <2>1. Switch(SendOrder, {c}) \in {c}
    BY <1>3
  <2>2. QED BY <2>1
<1>5. QED BY <1>3, <1>4

LEMMA SwitchAnswered ==
    ASSUME NEW c \in Contents
    PROVE  Switch(AnswerOrder, {c}) = c
<1>1. /\ DOMAIN AnswerOrder = 1..5
      /\ AnswerOrder[1] = "text" /\ AnswerOrder[2] = "bin" /\ AnswerOrder[3] = "file"
      /\ AnswerOrder[4] = "call" /\ AnswerOrder[5] = "response"
  BY DEF AnswerOrder
<1>2. /\ {c} \subseteq {AnswerOrder[i] : i \in DOMAIN AnswerOrder}
      /\ DOMAIN AnswerOrder \subseteq Nat
  BY <1>1 DEF Contents
<1>3. Switch(AnswerOrder, {c}) \in {c}
  BY <1>2, SwitchTakesOne
<1>4. QED BY <1>3

LEMMA NoCase == Switch(SendOrder, {}) = "none" /\ DOMAIN NoPart.holds = {}
  BY DEF Switch, NoPart

LEMMA HoldingIs ==
    ASSUME NEW c, NEW v
    PROVE  DOMAIN Holding(c, v) = {c} /\ Holding(c, v)[c] = v
  BY DEF Holding

(* A part that holds one content says it. *)
LEMMA SaidOfOne ==
    ASSUME NEW p, NEW c \in Contents \ {"text"}, NEW v, p.holds = Holding(c, v)
    PROVE  Said(p) = Holding(c, v)
<1>1. Switch(SendOrder, DOMAIN p.holds) = c /\ p.holds[c] = v
  BY HoldingIs, SwitchSent
<1>2. c # "none" /\ c # "text"
  BY DEF Contents
<1>3. QED BY <1>1, <1>2 DEF Said

LEMMA SaidOfText ==
    ASSUME NEW p, NEW text, p.holds = Spoken(text)
    PROVE  Said(p) = Spoken(text)
<1>1. CASE text = ""
  <2>1. p.holds = <<>>
    BY <1>1 DEF Spoken
  <2>2. DOMAIN p.holds = {}
    BY ONLY <2>1
  <2>3. Said(p) = <<>>
    BY <2>2, NoCase DEF Said
  <2>4. QED BY <1>1, <2>3 DEF Spoken
<1>2. CASE text # ""
  <2>1. p.holds = Holding("text", text)
    BY <1>2 DEF Spoken
  <2>2. DOMAIN p.holds = {"text"} /\ p.holds["text"] = text
    BY <2>1, HoldingIs
  <2>3. "text" \in Contents
    BY DEF Contents
  <2>4. Switch(SendOrder, DOMAIN p.holds) = "text"
    BY ONLY <2>2, <2>3, SwitchSent
  <2>5. QED BY <2>2, <2>4 DEF Said
<1>3. QED BY <1>1, <1>2

LEMMA TextIsSaid ==
    ASSUME NEW text
    PROVE  Said(NewPartFromText(text)) = Spoken(text)
<1>1. NewPartFromText(text).holds = Spoken(text)
  BY DEF NewPartFromText, Blank, NoPart
<1>2. QED BY <1>1, SaidOfText

(* A part with something in it is sent, and says what it said. *)
LEMMA PartIsSent ==
    ASSUME NEW p, DOMAIN p.holds \subseteq Contents
    PROVE  /\ convertPart(p) = NoPart <=> DOMAIN p.holds = {}
           /\ Said(convertPart(p)) = Said(p)
<1> DEFINE case == Switch(SendOrder, DOMAIN p.holds)
           taken == Holding(case, p.holds[case])
           q == convertPart(p)
<1>1. ASSUME DOMAIN p.holds = {} PROVE q = NoPart /\ Said(q) = Said(p)
  <2>1. case = "none"
    BY <1>1, NoCase
  <2>2. Said(p) = <<>>
    BY <2>1 DEF Said
  <2> HIDE DEF case
  <2>3. q = NoPart
    BY <2>1 DEF convertPart, case
  <2> HIDE DEF q
  <2>4. Said(q) = <<>>
    BY <2>3, NoCase DEF Said
  <2>5. QED BY <2>2, <2>3, <2>4
<1>2. ASSUME DOMAIN p.holds # {} PROVE q.nil = FALSE /\ Said(q) = Said(p)
  <2>1. case \in Contents
    BY <1>2, SwitchSent
  <2> HIDE DEF case
  <2>2. CASE case = "text"
    <3>1. q = NewPartFromText(p.holds["text"])
      BY <2>2 DEF convertPart, case
    <3>2. Said(p) = Spoken(p.holds["text"])
      BY <2>2 DEF Said, case
    <3> HIDE DEF q
    <3>3. q.nil = FALSE
      BY <3>1 DEF NewPartFromText, Blank, NoPart
    <3>4. QED BY <3>1, <3>2, <3>3, TextIsSaid
  <2>3. CASE case # "text"
    <3>1. case \in Contents \ {"text"} /\ case # "none"
      BY <2>1, <2>3 DEF Contents
    <3>2. Said(p) = taken
      BY <3>1 DEF Said, case
    <3>3. q.holds = taken /\ q.nil = FALSE
      <4>1. CASE case \in {"file", "bin"}
        <5>1. q = [Blank EXCEPT !.holds = taken, !.mime = p.mime]
          BY <4>1 DEF convertPart, case
        <5> HIDE DEF q, taken
        <5>2. QED BY <5>1 DEF Blank, NoPart
      <4>2. CASE case = "call"
        <5>1. q = [Blank EXCEPT !.holds = taken, !.function = p.function, !.id = p.id]
          BY <4>2 DEF convertPart, case
        <5> HIDE DEF q, taken
        <5>2. QED BY <5>1 DEF Blank, NoPart
      <4>3. CASE case = "response"
        <5>1. q = [Blank EXCEPT !.holds = taken, !.name = p.name]
          BY <4>3 DEF convertPart, case
        <5> HIDE DEF q, taken
        <5>2. QED BY <5>1 DEF Blank, NoPart
      <4>4. QED BY <3>1, <4>1, <4>2, <4>3 DEF Contents
    <3> HIDE DEF q
    <3>4. Said(q) = taken
      BY <3>1, <3>3, SaidOfOne
    <3>5. QED BY <3>2, <3>3, <3>4
  <2>4. QED BY <2>2, <2>3
<1>3. NoPart.nil = TRUE
  BY DEF NoPart
<1>4. QED BY <1>1, <1>2, <1>3

(* A part of an answer that can come back does. *)
LEMMA PartReturns ==
    ASSUME NEW p, IsClientPart(p), DOMAIN p.holds # {}, Portable(p)
    PROVE  /\ convertFromGooglePart(p) # NoPart
           /\ convertPart(convertFromGooglePart(p)) = p
<1>1. PICK c \in Contents \intersect DOMAIN p.holds :
          /\ c = "text" => p.holds[c] # ""
          /\ c = "response" => p.holds[c] = [k \in DOMAIN p.holds[c] |-> p.holds[c][k]]
          /\ p.thought \in BOOLEAN
          /\ p = [Blank EXCEPT
                    !.holds = Holding(c, p.holds[c]),
                    !.name = IF c = "response" THEN p.name ELSE "",
                    !.function = IF c = "call" THEN p.function ELSE "",
                    !.mime = IF c \in {"file", "bin"} THEN p.mime ELSE "",
                    !.id = IF c = "call" THEN p.id ELSE "",
                    !.thought = p.thought]
  <2>1. p.holds # <<>>
    OBVIOUS
  <2>2. QED BY <2>1 DEF IsClientPart
<1> DEFINE v == p.holds[c]
           taken == Holding(c, v)
           q == convertFromGooglePart(p)
<1>2. p.holds = taken /\ p.thought = FALSE /\ c \in Contents /\ c # "none"
  <2>1. p.holds = taken
    BY <1>1 DEF Blank, NoPart
  <2>2. QED BY <1>1, <2>1 DEF Portable, Contents
<1>3. DOMAIN taken = {c} /\ taken[c] = v /\ Switch(AnswerOrder, DOMAIN p.holds) = c
  <2>1. DOMAIN taken = {c} /\ taken[c] = v
    BY HoldingIs
  <2> HIDE DEF taken
  <2>2. QED BY ONLY <1>2, <2>1, SwitchAnswered
<1>4. NoPart.nil = TRUE
  BY DEF NoPart
<1>5. PICK w, name, function, mime, id :
          /\ w = taken /\ name = p.name /\ function = p.function /\ mime = p.mime
          /\ id = p.id
          /\ p = [holds |-> w,
                  name |-> IF c = "response" THEN name ELSE "",
                  function |-> IF c = "call" THEN function ELSE "",
                  mime |-> IF c \in {"file", "bin"} THEN mime ELSE "",
                  id |-> IF c = "call" THEN id ELSE "",
                  thought |-> FALSE, nil |-> FALSE]
  <2>1. \A w, name, function, mime, id :
          /\ w = taken /\ name = p.name /\ function = p.function /\ mime = p.mime
          /\ id = p.id
          => p = [holds |-> w,
                  name |-> IF c = "response" THEN name ELSE "",
                  function |-> IF c = "call" THEN function ELSE "",
                  mime |-> IF c \in {"file", "bin"} THEN mime ELSE "",
                  id |-> IF c = "call" THEN id ELSE "",
                  thought |-> FALSE, nil |-> FALSE]
    <3> HIDE DEF taken
    <3>1. QED BY <1>1, <1>2 DEF Blank, NoPart, taken
  <2>2. WITNESS taken, p.name, p.function, p.mime, p.id
  <2>3. QED BY <2>1
(* What comes back from a part of the caller that holds the same. *)
<1>6. q.holds = taken => Switch(SendOrder, DOMAIN q.holds) = c /\ q.holds[c] = v
  <2> HIDE DEF taken, v, q
  <2>1. QED BY ONLY <1>2, <1>3, SwitchSent
<1>7. CASE c = "text"
  <2>1. q = [Blank EXCEPT !.holds = taken, !.thought = p.thought]
    BY <1>3, <1>7 DEF convertFromGooglePart
  <2> HIDE DEF q, taken
  <2>2. q.holds = taken /\ q.nil = FALSE
    BY <2>1 DEF Blank, NoPart
  <2>3. convertPart(q) = NewPartFromText(v)
    BY <1>6, <1>7, <2>2 DEF convertPart
  <2>4. Spoken(v) = taken
    BY <1>1, <1>7 DEF Spoken, taken
  <2>5. convertPart(q) = [Blank EXCEPT !.holds = taken]
    BY <2>3, <2>4 DEF NewPartFromText
  <2>6. convertPart(q) = p
    BY <1>7, <1>5, <2>5 DEF Blank, NoPart
  <2>7. q # NoPart
    BY <1>4, <2>2
  <2>8. QED BY <2>6, <2>7 DEF q
<1>8. CASE c \in {"bin", "file"}
  <2>1. q = [Blank EXCEPT !.holds = taken, !.mime = p.mime]
    BY <1>3, <1>8 DEF convertFromGooglePart
  <2> HIDE DEF q, taken
  <2>2. q.holds = taken /\ q.nil = FALSE /\ q.mime = p.mime
    BY <2>1 DEF Blank, NoPart
  <2>3. convertPart(q) = [Blank EXCEPT !.holds = taken, !.mime = p.mime]
    BY <1>6, <1>8, <2>2 DEF convertPart, taken
  <2>4. convertPart(q) = p
    BY <1>8, <1>5, <2>3 DEF Blank, NoPart
  <2>5. q # NoPart
    BY <1>4, <2>2
  <2>6. QED BY <2>4, <2>5 DEF q
<1>9. CASE c = "call"
  <2>1. q = [Blank EXCEPT !.holds = taken, !.name = p.function,
                          !.function = p.function, !.id = p.id]
    BY <1>3, <1>9 DEF convertFromGooglePart
  <2> HIDE DEF q, taken
  <2>2. q.holds = taken /\ q.nil = FALSE /\ q.function = p.function /\ q.id = p.id
    BY <2>1 DEF Blank, NoPart
  <2>3. convertPart(q)
          = [Blank EXCEPT !.holds = taken, !.function = p.function, !.id = p.id]
    BY <1>6, <1>9, <2>2 DEF convertPart, taken
  <2>4. convertPart(q) = p
    BY <1>9, <1>5, <2>3 DEF Blank, NoPart
  <2>5. q # NoPart
    BY <1>4, <2>2
  <2>6. QED BY <2>4, <2>5 DEF q
<1>10. CASE c = "response"
  <2>1. DOMAIN v = {"text"} /\ v = [k \in DOMAIN v |-> v[k]]
    BY <1>1, <1>2, <1>10 DEF Portable
  <2>2. Only("text", v) = v
    <3>1. DOMAIN v \intersect {"text"} = DOMAIN v
      BY <2>1
    <3> HIDE DEF v
    <3>2. QED BY <2>1, <3>1 DEF Only
  <2>3. q = [Blank EXCEPT !.holds = taken, !.name = p.name]
    BY <1>3, <1>10, <2>2 DEF convertFromGooglePart
  <2> HIDE DEF q, taken
  <2>4. q.holds = taken /\ q.nil = FALSE /\ q.name = p.name
    BY <2>3 DEF Blank, NoPart
  <2>5. convertPart(q) = [Blank EXCEPT !.holds = taken, !.name = p.name]
    BY <1>6, <1>10, <2>4 DEF convertPart, taken
  <2>6. convertPart(q) = p
    BY <1>10, <1>5, <2>5 DEF Blank, NoPart
  <2>7. q # NoPart
    BY <1>4, <2>4
  <2>8. QED BY <2>6, <2>7 DEF q
<1>11. QED BY <1>2, <1>7, <1>8, <1>9, <1>10 DEF Contents
-----------------------------------------------------------------------------
(***************************************************************************)
(* Messages.                                                               *)
(***************************************************************************)

LEMMA OwnElements ==
    ASSUME NEW E, NEW s \in Seq(E)
    PROVE  s \in Seq(ToSet(s)) /\ DOMAIN s = 1..Len(s) /\ Len(s) \in Nat
<1>1. Len(s) \in Nat /\ DOMAIN s = 1..Len(s) /\ s = [i \in 1..Len(s) |-> s[i]]
  BY LenProperties
<1>2. \A i \in 1..Len(s) : s[i] \in ToSet(s)
  BY <1>1 DEF ToSet
<1> DEFINE n == Len(s)
<1>3. n \in Nat /\ s \in [1..n -> ToSet(s)] /\ DOMAIN s = 1..n
  BY <1>1, <1>2
<1> HIDE DEF n
<1>4. s \in Seq(ToSet(s))
  BY <1>3, SeqDef
<1>5. QED BY <1>3, <1>4 DEF n

LEMMA MapIsSeq ==
    ASSUME NEW E, NEW s \in Seq(E), NEW t,
           DOMAIN t = DOMAIN s, t = [i \in DOMAIN s |-> t[i]]
    PROVE  t \in Seq(ToSet(t)) /\ Len(t) = Len(s)
<1> DEFINE n == Len(s)
<1>1. n \in Nat /\ DOMAIN s = 1..n
  BY LenProperties
<1> HIDE DEF n
<1>2. DOMAIN t = 1..n /\ t = [i \in 1..n |-> t[i]]
  BY <1>1
<1>3. \A i \in 1..n : t[i] \in ToSet(t)
  BY <1>2 DEF ToSet
<1>4. t \in [1..n -> ToSet(t)]
  BY <1>2, <1>3
<1>5. t \in Seq(ToSet(t))
  BY <1>1, <1>4, SeqDef
<1>6. Len(t) = n
  BY <1>1, <1>2, <1>5, LenProperties
<1>7. QED BY <1>5, <1>6 DEF n

LEMMA ValuesAre ==
    ASSUME NEW E, NEW s \in Seq(E)
    PROVE  /\ Values(s) \in Seq(ToSet(Values(s))) /\ Len(Values(s)) = Len(s)
           /\ \A i \in 1..Len(s) : Values(s)[i] = Said(s[i])
           /\ DOMAIN Values(s) = 1..Len(s) /\ Len(s) \in Nat
<1>1. DOMAIN s = 1..Len(s) /\ Len(s) \in Nat
  BY LenProperties
<1>2. /\ DOMAIN Values(s) = DOMAIN s
      /\ Values(s) = [i \in DOMAIN s |-> Values(s)[i]]
      /\ \A i \in DOMAIN s : Values(s)[i] = Said(s[i])
  BY DEF Values
<1>3. Values(s) \in Seq(ToSet(Values(s))) /\ Len(Values(s)) = Len(s)
  BY <1>2, MapIsSeq
<1>4. QED BY <1>1, <1>2, <1>3

LEMMA ValuesAppend ==
    ASSUME NEW E, NEW s \in Seq(E), NEW x \in E
    PROVE  Values(Append(s, x)) = Append(Values(s), Said(x))
<1> DEFINE n == Len(s)
           t == Append(s, x)
           v == Values(s)
           V == ToSet(v) \union {Said(x)}
<1>1. /\ t \in Seq(E) /\ Len(t) = n + 1
      /\ \A i \in 1..n : t[i] = s[i]
      /\ t[n + 1] = x
  BY AppendProperties
<1>2. /\ v \in Seq(ToSet(v)) /\ Len(v) = n /\ \A i \in 1..n : v[i] = Said(s[i])
      /\ n \in Nat
  BY ValuesAre
<1>3. v \in Seq(V) /\ Said(x) \in V
  <2> HIDE DEF v, n, t
  <2>1. ToSet(v) \subseteq V
    OBVIOUS
  <2> HIDE DEF V
  <2>2. v \in Seq(V)
    BY <1>2, <2>1, SeqMonotonic
  <2>3. QED BY <2>2 DEF V
<1> DEFINE a == Append(v, Said(x))
<1>4. /\ a \in Seq(V) /\ Len(a) = n + 1
      /\ \A i \in 1..n : a[i] = v[i]
      /\ a[n + 1] = Said(x)
  <2> HIDE DEF v, n, t, V
  <2>1. QED BY <1>2, <1>3, AppendProperties
<1> DEFINE w == Values(t)
<1>5. /\ Len(w) = n + 1 /\ \A i \in 1..(n + 1) : w[i] = Said(t[i])
      /\ w \in Seq(ToSet(w))
  <2> HIDE DEF v, n, t, V
  <2>1. QED BY <1>1, ValuesAre
<1> HIDE DEF n, t, v, V, a, w
<1>6. \A i \in 1..(n + 1) : w[i] = a[i]
  <2>1. \A i \in 1..(n + 1) : i \in 1..n \/ i = n + 1
    BY <1>2
  <2>2. QED BY <1>1, <1>2, <1>4, <1>5, <2>1
<1>7. w = a
  BY <1>4, <1>5, <1>6, SeqEqual
<1>8. QED BY <1>7 DEF w, a, t, v

LEMMA ValuesConcat ==
    ASSUME NEW E, NEW s \in Seq(E), NEW t \in Seq(E)
    PROVE  Values(s \o t) = Values(s) \o Values(t)
<1> DEFINE m == Len(s)
           n == Len(t)
           v == Values(s)
           w == Values(t)
           V == ToSet(v) \union ToSet(w)
           u == s \o t
           l == Values(u)
           r == v \o w
<1>1. /\ v \in Seq(ToSet(v)) /\ Len(v) = m /\ \A i \in 1..m : v[i] = Said(s[i])
      /\ w \in Seq(ToSet(w)) /\ Len(w) = n /\ \A i \in 1..n : w[i] = Said(t[i])
      /\ m \in Nat /\ n \in Nat
  BY ValuesAre
<1>2. /\ u \in Seq(E) /\ Len(u) = m + n
      /\ \A i \in 1..(m + n) : u[i] = IF i <= m THEN s[i] ELSE t[i - m]
  BY ConcatProperties
<1>3. l \in Seq(ToSet(l)) /\ Len(l) = m + n /\ \A i \in 1..(m + n) : l[i] = Said(u[i])
  <2> HIDE DEF m, n, u
  <2>1. QED BY <1>2, ValuesAre
<1> HIDE DEF m, n, v, w, u, l
<1>4. v \in Seq(V) /\ w \in Seq(V)
  <2>1. ToSet(v) \subseteq V /\ ToSet(w) \subseteq V
    OBVIOUS
  <2> HIDE DEF V
  <2>2. QED BY <1>1, <2>1, SeqMonotonic
<1> HIDE DEF V
<1>5. /\ r \in Seq(V) /\ Len(r) = m + n
      /\ \A i \in 1..(m + n) : r[i] = IF i <= m THEN v[i] ELSE w[i - m]
  BY <1>1, <1>4, ConcatProperties
<1> HIDE DEF r
<1>6. ASSUME NEW i \in 1..(m + n) PROVE l[i] = r[i]
  <2>1. CASE i <= m
    <3>1. i \in 1..m /\ i \in 1..(m + n)
      BY <1>1, <2>1
    <3>2. u[i] = s[i] /\ r[i] = v[i]
      BY <1>2, <1>5, <2>1, <3>1
    <3>3. l[i] = Said(u[i]) /\ v[i] = Said(s[i])
      BY <1>1, <1>3, <3>1
    <3>4. QED BY ONLY <3>2, <3>3
  <2>2. CASE ~(i <= m)
    <3>1. i - m \in 1..n /\ i \in 1..(m + n)
      BY <1>1, <2>2
    <3>2. u[i] = t[i - m] /\ r[i] = w[i - m]
      BY <1>2, <1>5, <2>2, <3>1
    <3>3. l[i] = Said(u[i]) /\ w[i - m] = Said(t[i - m])
      BY <1>1, <1>3, <3>1
    <3>4. QED BY ONLY <3>2, <3>3
  <2>3. QED BY <2>1, <2>2
<1>7. l = r
  BY <1>3, <1>5, <1>6, SeqEqual
<1>8. QED BY <1>7 DEF l, r, u, v, w

(* A message's parts are sent with their values, those without content left *)
(* out.                                                                    *)
LEMMA ValuesAreSent ==
    ASSUME NEW m, IsMessage(m)
    PROVE  /\ Values(convertParts(m.parts)) = Values(PartsOf(m))
           /\ \E E : convertParts(m.parts) \in Seq(E) /\ PartsOf(m) \in Seq(E)
<1> DEFINE parts == m.parts
           sends == [i \in DOMAIN parts |-> convertPart(parts[i])]
           empty == {p \in ToSet(parts) : DOMAIN p.holds = {}}
           P == ToSet(parts)
           Q == ToSet(sends)
           n == Len(parts)
<1>1. /\ parts \in Seq(P) /\ n \in Nat /\ DOMAIN parts = 1..n
      /\ \A i \in 1..n : parts[i] \in P
      /\ \A p \in P : DOMAIN p.holds \subseteq Contents
  <2>1. parts \in Seq(P)
    BY DEF IsMessage
  <2>2. n \in Nat /\ DOMAIN parts = 1..n
    BY <2>1, LenProperties
  <2>3. QED BY <2>1, <2>2 DEF IsMessage, ToSet
<1>2. /\ sends \in Seq(Q) /\ Len(sends) = n
      /\ \A i \in 1..n : sends[i] = convertPart(parts[i])
      /\ \A i \in 1..n : sends[i] \in Q
  <2>1. DOMAIN sends = DOMAIN parts /\ sends = [i \in DOMAIN parts |-> sends[i]]
    OBVIOUS
  <2>2. \A i \in 1..n : sends[i] = convertPart(parts[i])
    BY <1>1
  <2> HIDE DEF sends, n, parts, P
  <2>3. sends \in Seq(Q) /\ Len(sends) = n
    BY <1>1, <2>1, MapIsSeq DEF n
  <2>4. \A i \in 1..n : sends[i] \in Q
    BY <1>1, <2>1 DEF ToSet
  <2>5. QED BY <2>2, <2>3, <2>4
<1>3. /\ \A i \in 1..n : parts[i] \in empty <=> DOMAIN parts[i].holds = {}
      /\ \A i \in 1..n : /\ sends[i] \in {NoPart} <=> DOMAIN parts[i].holds = {}
                         /\ Said(sends[i]) = Said(parts[i])
  BY <1>1, <1>2, PartIsSent
<1>4. convertParts(m.parts) = Without(sends, {NoPart}) /\ PartsOf(m) = Without(parts, empty)
  BY DEF convertParts, WithoutNil, PartsOf
<1> HIDE DEF sends, empty, parts, P, Q, n
<1>5. PICK k : Without(sends, {NoPart}) = k[n] /\ Keeps(k, sends, {NoPart}, n)
  BY <1>1, <1>2, WithoutKeeps
<1>6. PICK l : Without(parts, empty) = l[n] /\ Keeps(l, parts, empty, n)
  BY <1>1, WithoutKeeps DEF n
<1> DEFINE Good(i) == k[i] \in Seq(Q) /\ l[i] \in Seq(P) /\ Values(k[i]) = Values(l[i])
           S == {i \in 0..n : Good(i)}
<1>7. 0 \in S
  <2>1. k[0] = <<>> /\ l[0] = <<>> /\ <<>> \in Seq(Q) /\ <<>> \in Seq(P) /\ 0 \in 0..n
    BY <1>1, <1>5, <1>6 DEF Keeps
  <2>2. QED BY <2>1
<1>8. ASSUME NEW i \in 1..n, i - 1 \in S PROVE i \in S
  <2>1. i \in 0..n /\ i - 1 \in 0..n /\ Good(i - 1)
    BY <1>1, <1>8
  <2>2. /\ k[i] = IF sends[i] \in {NoPart} THEN k[i - 1] ELSE Append(k[i - 1], sends[i])
        /\ l[i] = IF parts[i] \in empty THEN l[i - 1] ELSE Append(l[i - 1], parts[i])
    BY <1>5, <1>6 DEF Keeps
  <2>3. CASE DOMAIN parts[i].holds = {}
    <3>1. k[i] = k[i - 1] /\ l[i] = l[i - 1]
      BY <1>3, <2>2, <2>3
    <3>2. QED BY <2>1, <3>1
  <2>4. CASE DOMAIN parts[i].holds # {}
    <3>1. /\ k[i] = Append(k[i - 1], sends[i]) /\ l[i] = Append(l[i - 1], parts[i])
          /\ Said(sends[i]) = Said(parts[i])
      BY <1>3, <2>2, <2>4
    <3>2. sends[i] \in Q /\ parts[i] \in P
      BY <1>1, <1>2
    <3>3. k[i] \in Seq(Q) /\ l[i] \in Seq(P)
      BY <2>1, <3>1, <3>2, AppendProperties
    <3>4. /\ Values(k[i]) = Append(Values(k[i - 1]), Said(sends[i]))
          /\ Values(l[i]) = Append(Values(l[i - 1]), Said(parts[i]))
      BY <2>1, <3>1, <3>2, ValuesAppend
    <3>5. QED BY <2>1, <3>1, <3>3, <3>4
  <2>5. QED BY <2>3, <2>4
<1> HIDE DEF Good
<1>9. n \in S
  <2>1. S \in SUBSET (0..n)
    OBVIOUS
  <2> HIDE DEF S
  <2>2. QED BY <1>1, <1>7, <1>8, <2>1, UpTo
<1>10. k[n] \in Seq(Q) /\ l[n] \in Seq(P) /\ Values(k[n]) = Values(l[n])
  BY <1>9 DEF Good
<1>11. k[n] \in Seq(P \union Q) /\ l[n] \in Seq(P \union Q)
  <2> DEFINE E == P \union Q
  <2>1. P \subseteq E /\ Q \subseteq E
    OBVIOUS
  <2> HIDE DEF E
  <2>2. k[n] \in Seq(E) /\ l[n] \in Seq(E)
    BY <1>10, <2>1, SeqMonotonic
  <2>3. QED BY <2>2 DEF E
<1>12. QED BY <1>4, <1>5, <1>6, <1>10, <1>11
-----------------------------------------------------------------------------
(***************************************************************************)
(* Schemas.  The recursion through a schema ends: what a node becomes is   *)
(* determined by what its children become, and the schemas are trees.      *)
(***************************************************************************)

Kids(s) == IF s = NoSchema THEN {} ELSE {c[3] : c \in Children(s)}
AreTrees(nodes) ==
    /\ \A s \in nodes : Kids(s) \subseteq nodes
    /\ \A T \in SUBSET nodes : T # {} => \E s \in T : Kids(s) \intersect T = {}

(* The two recursions: converting a node, and reading it. *)
Visit(what, node, f, s) ==
    IF what = "convert"
    THEN IF s = NoSchema THEN NoSchema
         ELSE [type |-> convertSchemaType(s.type), settings |-> s.settings,
               enum |-> [i \in DOMAIN s.enum |-> Text(s.enum[i])],
               items |-> f[s.items],
               properties |-> [k \in DOMAIN s.properties |-> f[s.properties[k]]],
               anyOf |-> [i \in DOMAIN s.anyOf |-> f[s.anyOf[i]]]]
    ELSE IF s = NoSchema THEN {}
         ELSE {<< <<>>, node[s]>>} \union UNION {Under(c, f[c[3]]) : c \in Children(s)}

VisitAll(what, node, f, nodes) == [s \in nodes |-> Visit(what, node, f, s)]

Solves(what, node, f, D) ==
    \A s \in D : Kids(s) \subseteq D /\ f[s] = Visit(what, node, f, s)

LEMMA KidsAre ==
    ASSUME NEW s, s # NoSchema
    PROVE  /\ s.items \in Kids(s)
           /\ \A k \in DOMAIN s.properties : s.properties[k] \in Kids(s)
           /\ \A i \in DOMAIN s.anyOf : s.anyOf[i] \in Kids(s)
           /\ \A c \in Children(s) : c[3] \in Kids(s)
<1>1. \A c \in Children(s) : c[3] \in Kids(s)
  BY DEF Kids
<1>2. <<"items", 0, s.items>> \in Children(s)
  BY DEF Children
<1>3. ASSUME NEW k \in DOMAIN s.properties PROVE s.properties[k] \in Kids(s)
  <2>1. <<"property", k, s.properties[k]>> \in Children(s)
    BY DEF Children
  <2>2. QED BY <1>1, <2>1
<1>4. ASSUME NEW i \in DOMAIN s.anyOf PROVE s.anyOf[i] \in Kids(s)
  <2>1. <<"anyOf", i, s.anyOf[i]>> \in Children(s)
    BY DEF Children
  <2>2. QED BY <1>1, <2>1
<1>5. QED BY <1>1, <1>2, <1>3, <1>4

LEMMA VisitSeesKids ==
    ASSUME NEW what, NEW node, NEW f, NEW g, NEW s,
           \A k \in Kids(s) : f[k] = g[k]
    PROVE  Visit(what, node, f, s) = Visit(what, node, g, s)
<1>1. CASE s = NoSchema
  BY <1>1 DEF Visit
<1>2. CASE s # NoSchema
  <2>1. /\ f[s.items] = g[s.items]
        /\ [k \in DOMAIN s.properties |-> f[s.properties[k]]]
             = [k \in DOMAIN s.properties |-> g[s.properties[k]]]
        /\ [i \in DOMAIN s.anyOf |-> f[s.anyOf[i]]]
             = [i \in DOMAIN s.anyOf |-> g[s.anyOf[i]]]
    BY <1>2, KidsAre
  <2>2. \A c \in Children(s) : Under(c, f[c[3]]) = Under(c, g[c[3]])
    BY <1>2, KidsAre
  <2>3. {Under(c, f[c[3]]) : c \in Children(s)} = {Under(c, g[c[3]]) : c \in Children(s)}
    BY <2>2
  <2>4. QED BY <1>2, <2>1, <2>3 DEF Visit
<1>3. QED BY <1>1, <1>2

(* Two ways to visit the nodes find the same. *)
LEMMA VisitsAgree ==
    ASSUME NEW what, NEW node, NEW nodes, AreTrees(nodes),
           NEW D \in SUBSET nodes, NEW E \in SUBSET nodes, NEW f, NEW g,
           Solves(what, node, f, D), Solves(what, node, g, E)
    PROVE  \A s \in D \intersect E : f[s] = g[s]
<1> DEFINE T == {s \in D \intersect E : f[s] # g[s]}
<1> SUFFICES ASSUME T # {} PROVE FALSE
  OBVIOUS
<1>1. PICK s \in T : Kids(s) \intersect T = {}
  BY DEF AreTrees
<1>2. /\ Kids(s) \subseteq D \intersect E
      /\ f[s] = Visit(what, node, f, s) /\ g[s] = Visit(what, node, g, s)
  BY <1>1 DEF Solves
<1>3. \A k \in Kids(s) : f[k] = g[k]
  BY <1>1, <1>2
<1>4. f[s] = g[s]
  BY <1>2, <1>3, VisitSeesKids
<1>5. QED BY <1>1, <1>4

(* So there is one way to visit them all. *)
LEMMA AllAreVisited ==
    ASSUME NEW what, NEW node, NEW nodes, AreTrees(nodes)
    PROVE  \E f : f = VisitAll(what, node, f, nodes)
<1> DEFINE Found(s, v) == \E D \in SUBSET nodes : \E g :
                              s \in D /\ Solves(what, node, g, D) /\ v = g[s]
           Good == {s \in nodes : \E v : Found(s, v)}
           F == [s \in nodes |-> CHOOSE v : Found(s, v)]
<1>1. ASSUME NEW D \in SUBSET nodes, NEW g, Solves(what, node, g, D), NEW s \in D
      PROVE  s \in Good /\ F[s] = g[s]
  <2>1. Found(s, g[s])
    BY <1>1
  <2>2. \A v : Found(s, v) => v = g[s]
    BY <1>1, VisitsAgree
  <2>3. s \in nodes
    OBVIOUS
  <2> HIDE DEF Found
  <2>4. (CHOOSE v : Found(s, v)) = g[s]
    BY <2>1, <2>2
  <2>5. QED BY <2>1, <2>3, <2>4
<1>2. ASSUME NEW s \in Good PROVE Kids(s) \subseteq Good /\ F[s] = Visit(what, node, F, s)
  <2>1. PICK D, g : D \in SUBSET nodes /\ s \in D /\ Solves(what, node, g, D)
    OBVIOUS
  <2>2. Kids(s) \subseteq D /\ g[s] = Visit(what, node, g, s)
    BY <2>1 DEF Solves
  <2>3. \A k \in D : k \in Good /\ F[k] = g[k]
    BY <1>1, <2>1
  <2> HIDE DEF F, Good
  <2>4. Visit(what, node, F, s) = Visit(what, node, g, s)
    BY <2>2, <2>3, VisitSeesKids
  <2>5. QED BY <2>1, <2>2, <2>3, <2>4
<1>3. Good = nodes
  <2> DEFINE T == nodes \ Good
  <2> SUFFICES ASSUME T # {} PROVE FALSE
    OBVIOUS
  <2>1. PICK s \in T : Kids(s) \intersect T = {}
    BY DEF AreTrees
  <2>2. Kids(s) \subseteq Good /\ s \in nodes /\ s \notin Good /\ Good \subseteq nodes
    BY <2>1 DEF AreTrees
  <2> DEFINE D == Good \union {s}
             G == [t \in D |-> IF t = s THEN Visit(what, node, F, s) ELSE F[t]]
  <2>3. \A k \in Good : G[k] = F[k]
    BY <2>2
  <2>4. G[s] = Visit(what, node, F, s)
    OBVIOUS
  <2> HIDE DEF F, G, Good
  <2>5. ASSUME NEW t \in D PROVE Kids(t) \subseteq D /\ G[t] = Visit(what, node, G, t)
    <3>1. Kids(t) \subseteq Good /\ G[t] = Visit(what, node, F, t)
      BY <1>2, <2>2, <2>3, <2>4
    <3>2. Visit(what, node, F, t) = Visit(what, node, G, t)
      BY <2>3, <3>1, VisitSeesKids
    <3>3. QED BY <3>1, <3>2
  <2>6. Solves(what, node, G, D) /\ D \in SUBSET nodes /\ s \in D
    BY <2>2, <2>5 DEF Solves
  <2>7. s \in Good
    BY <1>1, <2>6
  <2>8. QED BY <2>2, <2>7
<1> HIDE DEF Good, Found
<1>4. F = [s \in nodes |-> F[s]]
  OBVIOUS
<1> HIDE DEF F
<1>5. F = VisitAll(what, node, F, nodes)
  BY <1>2, <1>3, <1>4 DEF VisitAll
<1>6. QED BY <1>5

LEMMA SchemaTrees == AreTrees(Schemas)
<1>1. ASSUME NEW s \in Schemas PROVE Kids(s) \subseteq Schemas
  BY SchemasAssumption DEF Kids, Children
<1>2. ASSUME NEW T \in SUBSET Schemas, T # {}
      PROVE  \E s \in T : Kids(s) \intersect T = {}
  <2>1. PICK s \in T : s = NoSchema \/ \A c \in Children(s) : c[3] \notin T
    BY <1>2, SchemasAreTrees
  <2>2. QED BY <2>1 DEF Kids
<1>3. QED BY <1>1, <1>2 DEF AreTrees

LEMMA ConvertsAll ==
    convertSchema = [s \in Schemas |-> Visit("convert", <<>>, convertSchema, s)]
<1> DEFINE f == CHOOSE f : f = VisitAll("convert", <<>>, f, Schemas)
<1>1. convertSchema = f
  BY DEF convertSchema, VisitAll, Visit
<1>2. \E g : g = VisitAll("convert", <<>>, g, Schemas)
  BY SchemaTrees, AllAreVisited
<1>3. f = VisitAll("convert", <<>>, f, Schemas)
  BY <1>2
<1> HIDE DEF f
<1>4. QED BY <1>1, <1>3 DEF VisitAll

LEMMA ReadsAll ==
    ASSUME NEW nodes, AreTrees(nodes), NEW node
    PROVE  LET f == Outline(nodes, node)
           IN  f = [s \in nodes |-> Visit("read", node, f, s)]
<1> DEFINE f == CHOOSE f : f = VisitAll("read", node, f, nodes)
<1>1. Outline(nodes, node) = f
  BY DEF Outline, VisitAll, Visit
<1>2. \E g : g = VisitAll("read", node, g, nodes)
  BY AllAreVisited
<1>3. f = VisitAll("read", node, f, nodes)
  BY <1>2
<1> HIDE DEF f
<1>4. QED BY <1>1, <1>3 DEF VisitAll

(* The converted schema has the children of the schema, converted, at their *)
(* places.                                                                 *)
LEMMA ConvertedNode ==
    ASSUME NEW s \in Schemas, s # NoSchema
    PROVE  LET t == convertSchema[s] IN
           /\ t # NoSchema
           /\ t.type = convertSchemaType(s.type) /\ t.settings = s.settings
           /\ t.enum = [i \in DOMAIN s.enum |-> Text(s.enum[i])]
           /\ Children(t) = {<<c[1], c[2], convertSchema[c[3]]>> : c \in Children(s)}
<1> DEFINE t == convertSchema[s]
<1>1. t = [type |-> convertSchemaType(s.type), settings |-> s.settings,
           enum |-> [i \in DOMAIN s.enum |-> Text(s.enum[i])],
           items |-> convertSchema[s.items],
           properties |-> [k \in DOMAIN s.properties |-> convertSchema[s.properties[k]]],
           anyOf |-> [i \in DOMAIN s.anyOf |-> convertSchema[s.anyOf[i]]]]
  BY ConvertsAll DEF Visit
<1> HIDE DEF t
<1>2. t # NoSchema
  BY <1>1 DEF NoSchema
<1>3. /\ t.items = convertSchema[s.items]
      /\ DOMAIN t.properties = DOMAIN s.properties
      /\ \A k \in DOMAIN s.properties : t.properties[k] = convertSchema[s.properties[k]]
      /\ DOMAIN t.anyOf = DOMAIN s.anyOf
      /\ \A i \in DOMAIN s.anyOf : t.anyOf[i] = convertSchema[s.anyOf[i]]
  BY <1>1
<1> DEFINE moved == {<<c[1], c[2], convertSchema[c[3]]>> : c \in Children(s)}
<1> DEFINE Moved(c) == <<c[1], c[2], convertSchema[c[3]]>>
           placed == {<<"items", 0, convertSchema[s.items]>>}
              \union {<<"property", k, convertSchema[s.properties[k]]>> :
                         k \in DOMAIN s.properties}
              \union {<<"anyOf", i, convertSchema[s.anyOf[i]]>> : i \in DOMAIN s.anyOf}
<1>4. moved = placed
  <2>1. ASSUME NEW c \in Children(s) PROVE Moved(c) \in placed
    <3>1. CASE c = <<"items", 0, s.items>>
      BY <3>1
    <3>2. ASSUME NEW k \in DOMAIN s.properties, c = <<"property", k, s.properties[k]>>
          PROVE  Moved(c) \in placed
      BY <3>2
    <3>3. ASSUME NEW i \in DOMAIN s.anyOf, c = <<"anyOf", i, s.anyOf[i]>>
          PROVE  Moved(c) \in placed
      BY <3>3
    <3>4. QED BY <3>1, <3>2, <3>3 DEF Children
  <2>2. ASSUME NEW d \in placed PROVE d \in moved
    <3>1. \E c \in Children(s) : d = Moved(c)
      <4>1. CASE d = <<"items", 0, convertSchema[s.items]>>
        <5>1. <<"items", 0, s.items>> \in Children(s) /\ d = Moved(<<"items", 0, s.items>>)
          BY <4>1 DEF Children
        <5>2. QED BY <5>1
      <4>2. ASSUME NEW k \in DOMAIN s.properties,
                   d = <<"property", k, convertSchema[s.properties[k]]>>
            PROVE  \E c \in Children(s) : d = Moved(c)
        <5> DEFINE c == <<"property", k, s.properties[k]>>
        <5>1. c \in Children(s) /\ d = Moved(c)
          BY <4>2 DEF Children
        <5>2. QED BY <5>1
      <4>3. ASSUME NEW i \in DOMAIN s.anyOf,
                   d = <<"anyOf", i, convertSchema[s.anyOf[i]]>>
            PROVE  \E c \in Children(s) : d = Moved(c)
        <5> DEFINE c == <<"anyOf", i, s.anyOf[i]>>
        <5>1. c \in Children(s) /\ d = Moved(c)
          BY <4>3 DEF Children
        <5>2. QED BY <5>1
      <4>4. QED BY <4>1, <4>2, <4>3
    <3>2. QED BY <3>1
  <2>3. moved \subseteq placed
    BY <2>1
  <2> HIDE DEF moved, placed
  <2>4. QED BY <2>2, <2>3
<1>5. Children(t) = moved
  BY <1>3, <1>4 DEF Children
<1>6. QED BY <1>1, <1>2, <1>5 DEF t

LEMMA NothingConverts == convertSchema[NoSchema] = NoSchema
  BY ConvertsAll, SchemasAssumption DEF Visit

LEMMA ConvertedKids ==
    ASSUME NEW s \in Schemas
    PROVE  Kids(convertSchema[s]) = {convertSchema[k] : k \in Kids(s)}
<1>1. CASE s = NoSchema
  BY <1>1, NothingConverts DEF Kids
<1>2. CASE s # NoSchema
  <2>1. /\ convertSchema[s] # NoSchema
        /\ Children(convertSchema[s])
             = {<<c[1], c[2], convertSchema[c[3]]>> : c \in Children(s)}
    BY <1>2, ConvertedNode
  <2> DEFINE Moved(c) == <<c[1], c[2], convertSchema[c[3]]>>
  <2>2. \A c \in Children(s) : Moved(c)[3] = convertSchema[c[3]]
    OBVIOUS
  <2>3. Children(convertSchema[s]) = {Moved(c) : c \in Children(s)}
    BY <2>1
  <2> HIDE DEF Moved
  <2>4. {d[3] : d \in Children(convertSchema[s])} = {convertSchema[c[3]] : c \in Children(s)}
    BY <2>2, <2>3
  <2>5. {convertSchema[c[3]] : c \in Children(s)} = {convertSchema[k] : k \in Kids(s)}
    BY <1>2 DEF Kids
  <2>6. QED BY <2>1, <2>4, <2>5 DEF Kids
<1>3. QED BY <1>1, <1>2

LEMMA ConvertedTrees == AreTrees(ConvertedSchemas)
<1>1. ASSUME NEW t \in ConvertedSchemas PROVE Kids(t) \subseteq ConvertedSchemas
  <2>1. PICK s \in Schemas : t = convertSchema[s]
    BY DEF ConvertedSchemas
  <2>2. Kids(s) \subseteq Schemas
    BY SchemaTrees DEF AreTrees
  <2>3. QED BY <2>1, <2>2, ConvertedKids DEF ConvertedSchemas
<1>2. ASSUME NEW T \in SUBSET ConvertedSchemas, T # {}
      PROVE  \E t \in T : Kids(t) \intersect T = {}
  <2> DEFINE S == {s \in Schemas : convertSchema[s] \in T}
  <2>1. S # {} /\ S \in SUBSET Schemas
    BY <1>2 DEF ConvertedSchemas
  <2>2. PICK s \in S : Kids(s) \intersect S = {}
    BY <2>1, SchemaTrees DEF AreTrees
  <2>3. Kids(s) \subseteq Schemas
    BY <2>2, SchemaTrees DEF AreTrees
  <2>4. \A k \in Kids(s) : convertSchema[k] \notin T
    BY <2>2, <2>3
  <2>5. Kids(convertSchema[s]) \intersect T = {}
    BY <2>2, <2>4, ConvertedKids
  <2>6. QED BY <2>2, <2>5
<1>3. QED BY <1>1, <1>2 DEF AreTrees

(* What stands at each place of the tree is kept. *)
LEMMA OutlineIsKept ==
    ASSUME NEW schema \in Schemas
    PROVE  convertedOutline[convertSchema[schema]] = outline[schema]
<1> DEFINE before == [s \in Schemas \ {NoSchema} |->
                        <<convertSchemaType(s.type), s.settings,
                          [i \in DOMAIN s.enum |-> s.enum[i].text]>>]
           after == [s \in ConvertedSchemas \ {NoSchema} |-> <<s.type, s.settings, s.enum>>]
<1>1. /\ outline = [s \in Schemas |-> Visit("read", before, outline, s)]
      /\ convertedOutline
           = [s \in ConvertedSchemas |-> Visit("read", after, convertedOutline, s)]
  <2>1. outline = Outline(Schemas, before) /\ convertedOutline = Outline(ConvertedSchemas, after)
    BY DEF outline, convertedOutline
  <2> HIDE DEF before, after
  <2>2. AreTrees(Schemas) /\ AreTrees(ConvertedSchemas)
    BY SchemaTrees, ConvertedTrees
  <2>3. LET f == Outline(Schemas, before)
        IN  f = [s \in Schemas |-> Visit("read", before, f, s)]
    BY ONLY <2>2, ReadsAll
  <2>4. LET f == Outline(ConvertedSchemas, after)
        IN  f = [s \in ConvertedSchemas |-> Visit("read", after, f, s)]
    BY ONLY <2>2, ReadsAll
  <2>5. QED BY ONLY <2>1, <2>3, <2>4
<1> DEFINE T == {s \in Schemas : convertedOutline[convertSchema[s]] # outline[s]}
<1> SUFFICES ASSUME T # {} PROVE FALSE
  OBVIOUS
<1>2. PICK s \in T : Kids(s) \intersect T = {}
  BY SchemaTrees DEF AreTrees
<1>3. s \in Schemas /\ convertSchema[s] \in ConvertedSchemas
  BY <1>2 DEF ConvertedSchemas
<1>4. /\ outline[s] = Visit("read", before, outline, s)
      /\ convertedOutline[convertSchema[s]]
           = Visit("read", after, convertedOutline, convertSchema[s])
  BY <1>1, <1>3
<1>5. CASE s = NoSchema
  <2>1. outline[s] = {} /\ convertedOutline[convertSchema[s]] = {}
    BY <1>4, <1>5, NothingConverts DEF Visit
  <2>2. QED BY <1>2, <2>1
<1>6. CASE s # NoSchema
  <2> DEFINE t == convertSchema[s]
  <2>1. /\ t # NoSchema
        /\ t.type = convertSchemaType(s.type) /\ t.settings = s.settings
        /\ t.enum = [i \in DOMAIN s.enum |-> Text(s.enum[i])]
        /\ Children(t) = {<<c[1], c[2], convertSchema[c[3]]>> : c \in Children(s)}
    BY <1>3, <1>6, ConvertedNode
  <2>2. before[s] = after[t]
    BY <1>3, <1>6, <2>1 DEF Text
  <2>3. ASSUME NEW c \in Children(s)
        PROVE  Under(<<c[1], c[2], convertSchema[c[3]]>>, convertedOutline[convertSchema[c[3]]])
                 = Under(c, outline[c[3]])
    <3>1. c[3] \in Kids(s) /\ c[3] \in Schemas
      BY <1>3, <1>6, SchemaTrees DEF Kids, AreTrees
    <3>2. convertedOutline[convertSchema[c[3]]] = outline[c[3]]
      BY <1>2, <3>1
    <3>3. QED BY <3>2 DEF Under
  <2> DEFINE Moved(c) == <<c[1], c[2], convertSchema[c[3]]>>
  <2>4. \A c \in Children(s) : Moved(c)[3] = convertSchema[c[3]]
    OBVIOUS
  <2>5. Children(t) = {Moved(c) : c \in Children(s)}
    BY <2>1
  <2>6. \A c \in Children(s) :
            Under(Moved(c), convertedOutline[Moved(c)[3]]) = Under(c, outline[c[3]])
    BY <2>3, <2>4
  <2> HIDE DEF Moved
  <2>7. {Under(d, convertedOutline[d[3]]) : d \in Children(t)}
          = {Under(c, outline[c[3]]) : c \in Children(s)}
    BY <2>5, <2>6
  <2> HIDE DEF t
  <2>8. /\ outline[s] = {<< <<>>, before[s]>>}
                         \union UNION {Under(c, outline[c[3]]) : c \in Children(s)}
        /\ convertedOutline[t] = {<< <<>>, after[t]>>}
                         \union UNION {Under(d, convertedOutline[d[3]]) : d \in Children(t)}
    BY <1>4, <1>6, <2>1 DEF Visit, t
  <2>9. outline[s] = convertedOutline[t]
    BY <2>2, <2>7, <2>8
  <2>10. QED BY <1>2, <2>9 DEF t
<1>7. QED BY <1>5, <1>6
-----------------------------------------------------------------------------
(***************************************************************************)
(* The request.                                                            *)
(***************************************************************************)

LEMMA NothingLeft ==
    ASSUME NEW dropped
    PROVE  /\ Without(<<>>, dropped) = <<>>
           /\ \A x \in dropped : Without(<<x>>, dropped) = <<>>
<1>1. Without(<<>>, dropped) = <<>>
  <2>1. Len(<<>>) = 0
    BY EmptySeq
  <2>2. PICK k : Without(<<>>, dropped) = k[0] /\ Keeps(k, <<>>, dropped, 0)
    BY <2>1, WithoutKeeps
  <2>3. QED BY <2>2 DEF Keeps
<1>2. ASSUME NEW x \in dropped PROVE Without(<<x>>, dropped) = <<>>
  <2> DEFINE s == <<x>>
  <2>1. Len(s) = 1 /\ s[1] = x
    OBVIOUS
  <2> HIDE DEF s
  <2>2. Len(s) \in Nat
    BY <2>1
  <2>3. PICK k : Without(s, dropped) = k[Len(s)] /\ Keeps(k, s, dropped, Len(s))
    BY <2>2, WithoutKeeps
  <2>4. k[0] = <<>> /\ k[1] = IF s[1] \in dropped THEN k[1 - 1] ELSE Append(k[1 - 1], s[1])
    BY <2>1, <2>3 DEF Keeps
  <2>5. k[1] = <<>>
    BY <2>1, <2>4
  <2>6. QED BY <2>1, <2>3, <2>5 DEF s
<1>3. QED BY <1>1, <1>2

LEMMA FewValues ==
    /\ Values(<<>>) = <<>>
    /\ \A x : Values(<<x>>) = <<Said(x)>>
  BY DEF Values

LEMMA SystemSaysItAll ==
    ASSUME NEW m, IsMessage(m), NEW options
    PROVE  LET text == GetSystemInstructions(options) IN
           Values(extractSystemParts(m, options))
             = (IF text = "" THEN <<>> ELSE <<Spoken(text)>>)
               \o (IF m.role = "system" THEN Values(PartsOf(m)) ELSE <<>>)
<1> DEFINE text == GetSystemInstructions(options)
           first == IF text = "" THEN <<>> ELSE <<NewPartFromText(text)>>
           rest == IF m.role = "system" THEN convertParts(m.parts) ELSE <<>>
<1>1. extractSystemParts(m, options) = first \o rest
  BY DEF extractSystemParts
<1>2. PICK E : convertParts(m.parts) \in Seq(E)
  BY ValuesAreSent
<1> DEFINE F == E \union {NewPartFromText(text)}
<1>3. convertParts(m.parts) \in Seq(F) /\ NewPartFromText(text) \in F
  <2>1. E \subseteq F /\ NewPartFromText(text) \in F
    OBVIOUS
  <2> HIDE DEF F
  <2>2. QED BY <1>2, <2>1, SeqMonotonic
<1> HIDE DEF F
<1>4. first \in Seq(F) /\ rest \in Seq(F)
  <2>1. <<>> \in Seq(F) /\ <<NewPartFromText(text)>> \in Seq(F)
    BY <1>3
  <2>2. QED BY <1>3, <2>1
<1>5. Values(first) = IF text = "" THEN <<>> ELSE <<Spoken(text)>>
  <2>1. Values(<<NewPartFromText(text)>>) = <<Spoken(text)>>
    BY TextIsSaid, FewValues
  <2>2. QED BY <2>1, FewValues
<1>6. Values(rest) = IF m.role = "system" THEN Values(PartsOf(m)) ELSE <<>>
  BY ValuesAreSent, FewValues
<1> HIDE DEF first, rest, text
<1>7. Values(first \o rest) = Values(first) \o Values(rest)
  BY <1>4, ValuesConcat
<1>8. QED BY <1>1, <1>5, <1>6, <1>7 DEF text

LEMMA TurnSaysItAll ==
    ASSUME NEW m, IsMessage(m), m # NoMessage
    PROVE  Without(Values(convertMessage(m).parts), {<<>>})
             = Without(Values(PartsOf(m)), {<<>>})
<1> DEFINE parts == convertParts(m.parts)
<1>1. convertMessage(m).parts = IF parts = <<>> THEN <<NewPartFromText("")>> ELSE parts
  BY DEF convertMessage
<1>2. Values(parts) = Values(PartsOf(m))
  BY ValuesAreSent
<1> HIDE DEF parts
<1>3. CASE parts = <<>>
  <2>1. Said(NewPartFromText("")) = <<>>
    BY TextIsSaid DEF Spoken
  <2>2. Values(convertMessage(m).parts) = << <<>> >>
    BY <1>1, <1>3, <2>1, FewValues
  <2>3. Values(PartsOf(m)) = <<>>
    BY <1>2, <1>3, FewValues
  <2>4. QED BY <2>2, <2>3, NothingLeft
<1>4. CASE parts # <<>>
  BY <1>1, <1>2, <1>4
<1>5. QED BY <1>3, <1>4

(* An int32 is unchanged if it fits, and something else if it does not. *)
LEMMA Int32Fits ==
    ASSUME NEW v \in Int
    PROVE  Int32(v) = v <=> v \in -HalfInt32..(HalfInt32 - 1)
<1> DEFINE n == 2 * HalfInt32
           x == v + HalfInt32
<1>1. n \in Nat \ {0} /\ x \in Int /\ HalfInt32 \in Nat
  BY HalfInt32Assumption
<1>2. Int32(v) = (x % n) - HalfInt32
  BY DEF Int32
<1> HIDE DEF n, x
<1>3. x % n \in 0..(n - 1) /\ (x \in 0..(n - 1) => x % n = x)
  BY <1>1
<1>4. v \in -HalfInt32..(HalfInt32 - 1) <=> x \in 0..(n - 1)
  BY <1>1 DEF n, x
<1>5. Int32(v) = v <=> x % n = x
  BY <1>1, <1>2, <1>3 DEF x
<1>6. QED BY <1>3, <1>4, <1>5

LEMMA Divided ==
    ASSUME NEW a \in Int, NEW u \in Nat \ {0}
    PROVE  /\ a \div u \in Int /\ a % u \in 0..(u - 1)
           /\ a = u * (a \div u) + (a % u)
  OBVIOUS

LEMMA ProductsGrow ==
    ASSUME NEW a \in Int, NEW b \in Int, NEW u \in Nat \ {0}, u * a <= u * b
    PROVE  a <= b
  OBVIOUS

LEMMA FactorsGrow ==
    ASSUME NEW a \in Int, NEW b \in Int, NEW u \in Nat, a <= b
    PROVE  a * u <= b * u
  OBVIOUS

(* Only a multiple of the spacing is at the beginning of a step. *)
LEMMA OneQuotient ==
    ASSUME NEW m \in Int, NEW u \in Nat \ {0}, NEW q \in Int, NEW r \in 0..(u - 1),
           u * m = u * q + r
    PROVE  r = 0 /\ q = m
<1>1. q <= m
  <2>1. u * q <= u * m
    OBVIOUS
  <2>2. QED BY <2>1, ProductsGrow
<1>2. m <= q
  <2>1. SUFFICES ASSUME q + 1 <= m PROVE FALSE
    OBVIOUS
  <2>2. (q + 1) * u <= m * u
    BY <2>1, FactorsGrow
  <2>3. (q + 1) * u = u * q + u /\ m * u = u * m
    OBVIOUS
  <2>4. u * q \in Int /\ u * m \in Int
    OBVIOUS
  <2>5. QED BY <2>2, <2>3, <2>4
<1>3. q = m
  BY <1>1, <1>2
<1>4. QED BY <1>3

(* A number in the range of the float32s is rounded to one of them, and is  *)
(* unchanged if it is one.                                                  *)
LEMMA Float32Fits ==
    ASSUME NEW v, \E u \in Spacings : v \in -(ExactFloat * u)..(ExactFloat * u)
    PROVE  Float32(v) = v <=> v \in Floats
<1> DEFINE Wide == {s \in Spacings : v \in -(ExactFloat * s)..(ExactFloat * s)}
           u == Min(Wide)
           q == v \div u
           r == v % u
           up == 2 * r > u \/ (2 * r = u /\ q % 2 = 1)
           E == ExactFloat
<1>1. u \in Wide /\ \A s \in Wide : u <= s
  <2>1. Wide # {} /\ Wide \in SUBSET Nat
    BY FloatAssumption
  <2> HIDE DEF Wide
  <2>2. \E w \in Wide : \A s \in Wide : w <= s
    BY <2>1, LeastNat
  <2>3. QED BY <2>2 DEF Min
<1>2. /\ u \in Spacings /\ u \in Nat \ {0} /\ E \in Nat \ {0}
      /\ v \in Int /\ -(E * u) <= v /\ v <= E * u
  <2>1. u \in Spacings /\ v \in -(E * u)..(E * u)
    BY <1>1
  <2> HIDE DEF u, Wide
  <2>2. u \in Nat \ {0} /\ E \in Nat \ {0}
    BY <2>1, FloatAssumption
  <2>3. E * u \in Int
    BY <2>2
  <2> HIDE DEF E
  <2>4. QED BY <2>1, <2>2, <2>3
<1>3. Float32(v) = u * (IF up THEN q + 1 ELSE q)
  BY DEF Float32
<1> HIDE DEF u, Wide, E
<1>4. q \in Int /\ r \in 0..(u - 1) /\ v = u * q + r
  BY <1>2, Divided
<1> HIDE DEF q, r
(* A float32 is a multiple of a spacing its size allows, and so of u. *)
<1>5. ASSUME NEW m \in -E..E, NEW s \in Spacings, v = m * s PROVE r = 0
  <2>1. s \in Nat \ {0} /\ m \in Int /\ E \in Int /\ -E <= m /\ m <= E
    BY <1>2, <1>5, FloatAssumption
  <2>2. m * s <= E * s /\ (-E) * s <= m * s
    BY <2>1, FactorsGrow
  <2>3. E * s \in Int /\ (-E) * s = -(E * s)
    BY <2>1
  <2>4. v \in -(E * s)..(E * s)
    BY ONLY <1>2, <1>5, <2>2, <2>3
  <2>5. u <= s
    BY <1>1, <2>4 DEF Wide, E
  <2>6. s % u = 0
    BY <1>2, <2>5, FloatAssumption
  <2>7. PICK k \in Int : s = u * k
    <3>1. s \div u \in Int /\ s = u * (s \div u) + (s % u)
      BY <1>2, <2>1, Divided
    <3>2. s = u * (s \div u)
      BY <2>6, <3>1, <1>2
    <3>3. QED BY <3>1, <3>2
  <2>8. m * k \in Int /\ v = u * (m * k)
    BY <1>2, <1>5, <2>1, <2>7
  <2>9. QED BY <1>2, <1>4, <2>8, OneQuotient
<1>6. r = 0 => Float32(v) = v
  <2> SUFFICES ASSUME r = 0 PROVE Float32(v) = v
    OBVIOUS
  <2>1. ~up
    BY <1>2
  <2>2. Float32(v) = u * q
    BY <1>3, <2>1
  <2>3. v = u * q
    BY <1>4, <1>2
  <2>4. QED BY <2>2, <2>3
(* What it is rounded to is a multiple of u, and not out of reach. *)
<1>7. Float32(v) \in Floats
  <2> DEFINE m == IF up THEN q + 1 ELSE q
  <2>1. m \in Int
    BY <1>4
  <2>2. u * q <= v /\ v < u * q + u
    BY <1>2, <1>4
  <2>3. -E <= q
    <3>1. SUFFICES ASSUME q + 1 <= -E PROVE FALSE
      BY <1>2, <1>4
    <3>2. (q + 1) * u <= (-E) * u
      BY <1>2, <1>4, <3>1, FactorsGrow
    <3>3. (q + 1) * u = u * q + u /\ (-E) * u = -(E * u)
      BY <1>2, <1>4
    <3>4. u * q \in Int /\ E * u \in Int
      BY <1>2, <1>4
    <3>5. QED BY ONLY <1>2, <2>2, <3>2, <3>3, <3>4
  <2>4. q <= E /\ (r > 0 => q + 1 <= E)
    <3>1. u * q <= u * E
      BY <1>2, <1>4, <2>2
    <3>2. q <= E
      BY <1>2, <1>4, <3>1, ProductsGrow
    <3>3. q = E => v = u * E + r
      BY <1>4
    <3>4. q = E => r = 0
      BY <1>2, <1>4, <3>3
    <3>5. QED BY <1>2, <1>4, <3>2, <3>4
  <2>5. up => r > 0
    BY <1>2, <1>4
  <2>6. m \in -E..E
    BY <1>2, <1>4, <2>3, <2>4, <2>5
  <2> HIDE DEF m
  <2>7. Float32(v) = m * u
    <3>1. Float32(v) = u * m
      BY <1>3 DEF m
    <3>2. QED BY <1>2, <2>1, <3>1
  <2>8. QED BY <1>2, <2>6, <2>7 DEF Floats, E
<1>8. v \in Floats => r = 0
  BY <1>5 DEF Floats, E
<1>9. QED BY <1>6, <1>7, <1>8

(* The numbers of the request are those of the options that fit. *)
LEMMA NumbersAreSent ==
    ASSUME NEW options, AreOptions(options),
           NEW name \in DOMAIN options \intersect (Narrowed \union Rounded \union PassedOn)
    PROVE  AsSent(name, options[name]) = options[name] <=> Fits(name, options[name])
<1> DEFINE v == options[name]
<1>1. CASE name \in Narrowed
  <2>1. v \in Int
    BY <1>1 DEF AreOptions
  <2>2. name \notin Rounded
    BY <1>1 DEF Narrowed, Rounded
  <2> HIDE DEF v
  <2>3. AsSent(name, v) = Int32(v)
    BY <1>1 DEF AsSent, Narrowed, Rounded
  <2>4. QED BY <1>1, <2>1, <2>2, <2>3, Int32Fits DEF Fits, v
<1>2. CASE name \in Rounded
  <2>1. \E u \in Spacings : v \in -(ExactFloat * u)..(ExactFloat * u)
    BY <1>2 DEF AreOptions
  <2>2. name \notin Narrowed
    BY <1>2 DEF Narrowed, Rounded
  <2> HIDE DEF v
  <2>3. AsSent(name, v) = Float32(v)
    BY <1>2 DEF AsSent, Narrowed, Rounded
  <2>4. QED BY <1>2, <2>1, <2>2, <2>3, Float32Fits DEF Fits, v
<1>3. CASE name \in PassedOn
  <2>1. name \notin Narrowed /\ name \notin Rounded /\ name # "schema"
    BY <1>3 DEF Narrowed, Rounded, PassedOn
  <2>2. AsSent(name, v) = v
    BY <2>1 DEF AsSent
  <2>3. QED BY <2>1, <2>2 DEF Fits
<1>4. QED BY <1>1, <1>2, <1>3

LEMMA ConfigSaysItAll ==
    ASSUME NEW given, AreOptions(given),
           "schema" \in DOMAIN given => given["schema"] \in Schemas
    PROVE  LET config == buildGenerateConfig(given) IN
           /\ \A name \in DOMAIN given \intersect (Narrowed \union Rounded \union PassedOn) :
                 /\ name \in DOMAIN config
                 /\ config[name] = given[name] <=> Fits(name, given[name])
           /\ DOMAIN config \subseteq DOMAIN given
           /\ "stop_words" \in DOMAIN given /\ given["stop_words"] # <<>>
                 => config["stop_words"] = given["stop_words"]
           /\ "schema" \in DOMAIN given /\ given["schema"] # NoSchema =>
                 convertedOutline[config["schema"]] = outline[given["schema"]]
<1> DEFINE config == buildGenerateConfig(given)
<1>1. /\ DOMAIN config = {n \in DOMAIN given : Reaches(n, given[n])}
      /\ \A n \in DOMAIN config : config[n] = AsSent(n, given[n])
  BY DEF buildGenerateConfig
<1> HIDE DEF config
<1>2. ASSUME NEW name \in DOMAIN given \intersect (Narrowed \union Rounded \union PassedOn)
      PROVE  /\ name \in DOMAIN config
             /\ config[name] = given[name] <=> Fits(name, given[name])
  <2>1. name \in DOMAIN config /\ config[name] = AsSent(name, given[name])
    BY <1>1 DEF Reaches
  <2>2. QED BY <2>1, NumbersAreSent
<1>3. ASSUME "stop_words" \in DOMAIN given, given["stop_words"] # <<>>
      PROVE  config["stop_words"] = given["stop_words"]
  <2>1. "stop_words" \in DOMAIN config
    BY <1>1, <1>3 DEF Reaches
  <2>2. QED BY <1>1, <2>1 DEF AsSent, Narrowed, Rounded
<1>4. ASSUME "schema" \in DOMAIN given, given["schema"] # NoSchema
      PROVE  convertedOutline[config["schema"]] = outline[given["schema"]]
  <2>1. "schema" \in DOMAIN config
    BY <1>1, <1>4 DEF Reaches
  <2>2. config["schema"] = convertSchema[given["schema"]]
    BY <1>1, <2>1 DEF AsSent, Narrowed, Rounded
  <2>3. QED BY <1>4, <2>2, OutlineIsKept
<1>5. QED BY <1>1, <1>2, <1>3, <1>4 DEF config

LEMMA TheRequestSaysItAll == ASSUME TypeOK PROVE RequestSaysItAll
<1> SUFFICES ASSUME sent # NotSent PROVE RequestSaysItAll
  BY DEF RequestSaysItAll
<1> DEFINE m == session.message
           given == session.options
           text == GetSystemInstructions(given)
           said == Values(PartsOf(m))
<1>1. /\ sent = Request(m, given) /\ IsMessage(m) /\ AreOptions(given)
      /\ "schema" \in DOMAIN given => given["schema"] \in Schemas
  BY SessionsAssumption DEF TypeOK
<1>2. /\ sent.system = extractSystemParts(m, given)
      /\ sent.contents = IF m = NoMessage \/ m.role = "system" THEN <<>>
                         ELSE <<convertMessage(m)>>
      /\ sent.config = buildGenerateConfig(given)
  BY <1>1 DEF Request, buildContents
<1> HIDE DEF m, given
<1>3. Values(sent.system) = (IF text = "" THEN <<>> ELSE <<Spoken(text)>>)
                            \o (IF m.role = "system" THEN said ELSE <<>>)
  BY <1>1, <1>2, SystemSaysItAll
<1>4. ASSUME m.role # "system"
      PROVE  Without(Values(Turn), {<<>>}) = Without(said, {<<>>})
  <2>1. CASE m = NoMessage
    <3>1. Turn = <<>>
      BY <1>2, <2>1 DEF Turn
    <3>2. PartsOf(m) = <<>>
      BY <2>1, NothingLeft DEF PartsOf, NoMessage
    <3>3. QED BY <3>1, <3>2
  <2>2. CASE m # NoMessage
    <3>1. sent.contents = <<convertMessage(m)>>
      BY <1>2, <1>4, <2>2
    <3>2. Turn = convertMessage(m).parts
      BY <3>1 DEF Turn
    <3>3. QED BY <1>1, <2>2, <3>2, TurnSaysItAll
  <2>3. QED BY <2>1, <2>2
<1>5. m.role = "system" => sent.contents = <<>>
  BY <1>2
<1>6. /\ \A name \in DOMAIN given \intersect (Narrowed \union Rounded \union PassedOn) :
            /\ name \in DOMAIN sent.config
            /\ sent.config[name] = given[name] <=> Fits(name, given[name])
      /\ DOMAIN sent.config \subseteq DOMAIN given
      /\ "stop_words" \in DOMAIN given /\ given["stop_words"] # <<>>
            => sent.config["stop_words"] = given["stop_words"]
      /\ "schema" \in DOMAIN given /\ given["schema"] # NoSchema =>
            convertedOutline[sent.config["schema"]] = outline[given["schema"]]
  BY <1>1, <1>2, ConfigSaysItAll
<1>7. QED BY <1>3, <1>4, <1>5, <1>6 DEF RequestSaysItAll, m, given
-----------------------------------------------------------------------------
(***************************************************************************)
(* The answer, sent back as history.                                       *)
(***************************************************************************)

LEMMA ContentReturns ==
    ASSUME NEW came, IsContent(came)
    PROVE  LET again == convertMessage(convertFromGoogleContent(came)) IN
           /\ again.role = came.role
           /\ \A p \in ToSet(came.parts) :
                 DOMAIN p.holds # {} /\ Portable(p) => p \in ToSet(again.parts)
<1> DEFINE given == convertFromGoogleContent(came)
           again == convertMessage(given)
           there == [i \in DOMAIN came.parts |-> convertFromGooglePart(came.parts[i])]
           back == [i \in DOMAIN given.parts |-> convertPart(given.parts[i])]
<1>1. given.parts = WithoutNil(there) /\ given.role = convertFromGoogleRole(came.role)
  BY DEF convertFromGoogleContent
<1>2. /\ again.role = convertRole(given.role)
      /\ again.parts = IF WithoutNil(back) = <<>> THEN <<NewPartFromText("")>>
                       ELSE WithoutNil(back)
  BY DEF convertMessage, convertParts
<1>3. again.role = came.role
  <2>1. came.role \in {"user", "model"}
    BY DEF IsContent
  <2>2. again.role = convertRole(convertFromGoogleRole(came.role))
    BY <1>1, <1>2
  <2> HIDE DEF again
  <2>3. QED BY <2>1, <2>2 DEF convertRole, convertFromGoogleRole
<1>4. there \in Seq(ToSet(there))
  <2>1. came.parts \in Seq(ToSet(came.parts))
    BY DEF IsContent
  <2>2. DOMAIN there = DOMAIN came.parts /\ there = [i \in DOMAIN came.parts |-> there[i]]
    OBVIOUS
  <2> HIDE DEF there
  <2>3. QED BY <2>1, <2>2, MapIsSeq
<1>5. /\ given.parts \in Seq(ToSet(there))
      /\ ToSet(given.parts) = ToSet(there) \ {NoPart}
  <2> HIDE DEF there, given
  <2>1. QED BY <1>1, <1>4, WithoutIsTheRest DEF WithoutNil
<1>6. back \in Seq(ToSet(back))
  <2>1. DOMAIN back = DOMAIN given.parts /\ back = [i \in DOMAIN given.parts |-> back[i]]
    OBVIOUS
  <2> HIDE DEF there, given, back
  <2>2. QED BY <1>5, <2>1, MapIsSeq
<1>7. ToSet(WithoutNil(back)) = ToSet(back) \ {NoPart}
  <2> HIDE DEF there, given, back
  <2>1. QED BY <1>6, WithoutIsTheRest DEF WithoutNil
<1>8. ASSUME NEW p \in ToSet(came.parts), DOMAIN p.holds # {}, Portable(p)
      PROVE  p \in ToSet(again.parts)
  <2>1. /\ convertFromGooglePart(p) # NoPart
        /\ convertPart(convertFromGooglePart(p)) = p
    BY <1>8, PartReturns DEF IsContent
  <2>2. convertFromGooglePart(p) \in ToSet(there)
    BY <1>8 DEF ToSet
  <2>3. convertFromGooglePart(p) \in ToSet(given.parts)
    <3> HIDE DEF there, given
    <3>1. QED BY <1>5, <2>1, <2>2
  <2>4. p \in ToSet(back)
    <3> HIDE DEF there, given
    <3>1. PICK i \in DOMAIN given.parts : given.parts[i] = convertFromGooglePart(p)
      BY <2>3 DEF ToSet
    <3>2. back[i] = p /\ i \in DOMAIN back
      BY <2>1, <3>1
    <3> HIDE DEF back
    <3>3. QED BY <3>2 DEF ToSet
  <2>5. p # NoPart
    <3>1. DOMAIN NoPart.holds = {}
      BY DEF NoPart
    <3>2. QED BY <1>8, <3>1
  <2>6. p \in ToSet(WithoutNil(back))
    BY <1>7, <2>4, <2>5
  <2>7. WithoutNil(back) # <<>>
    <3> HIDE DEF back
    <3>1. ToSet(<<>>) = {}
      BY DEF ToSet
    <3>2. QED BY <2>6, <3>1
  <2> HIDE DEF there, given, back, again
  <2>8. QED BY <1>2, <2>6, <2>7
<1>9. QED BY <1>3, <1>8

LEMMA TheHistorySurvives == ASSUME TypeOK PROVE HistorySurvives
<1> SUFFICES ASSUME NEW r \in ToSet(received), NEW i \in DOMAIN r.candidates,
                    Len(session.responses) = 1,
                    session.responses[1].candidates[i].content # NoMessage
             PROVE  LET came == session.responses[1].candidates[i].content
                        again == convertMessage(r.candidates[i].message)
                    IN  /\ again.role = came.role
                        /\ \A p \in ToSet(came.parts) :
                              DOMAIN p.holds # {} /\ Portable(p) => p \in ToSet(again.parts)
  BY DEF HistorySurvives
<1> DEFINE answer == session.responses[1]
           came == answer.candidates[i].content
<1>1. r \in Shown
  <2>1. received \in Seq(Shown)
    BY DEF TypeOK
  <2>2. \A j \in DOMAIN received : received[j] \in Shown
    BY <2>1, LenProperties
  <2>3. QED BY <2>2 DEF ToSet
<1>2. r = toGenResponse(answer) /\ r # NilResponse
  BY <1>1 DEF Shown, Kept, Total
<1>3. answer # NilResponse /\ answer \in ToSet(session.responses)
  <2>1. answer # NilResponse
    BY <1>2 DEF toGenResponse
  <2>2. DOMAIN session.responses = 1..1
    BY SessionsAssumption DEF TypeOK
  <2>3. QED BY <2>1, <2>2 DEF ToSet
<1>4. r.candidates = [j \in DOMAIN answer.candidates |-> convertCandidate(answer.candidates[j])]
  BY <1>2, <1>3 DEF toGenResponse
<1>5. i \in DOMAIN answer.candidates /\ r.candidates[i] = convertCandidate(answer.candidates[i])
  BY <1>4
<1>6. r.candidates[i].message = convertFromGoogleContent(came)
  BY <1>5 DEF convertCandidate
<1>7. IsContent(came)
  BY <1>3, <1>5, SessionsAssumption DEF TypeOK
<1> HIDE DEF came, answer
<1>8. /\ convertMessage(convertFromGoogleContent(came)).role = came.role
      /\ \A p \in ToSet(came.parts) : DOMAIN p.holds # {} /\ Portable(p) =>
            p \in ToSet(convertMessage(convertFromGoogleContent(came)).parts)
  BY <1>7, ContentReturns
<1>9. QED BY <1>6, <1>8 DEF came, answer
-----------------------------------------------------------------------------
(***************************************************************************)
(* Generate and GenerateStream implement ResponseStream: a response is      *)
(* delivered when the caller takes it from the buffer, and the caller is    *)
(* told when it reads errorChan; what the goroutine does is no step.        *)
(***************************************************************************)

(* A caller that is done, or that asked first, was told; one that waits for *)
(* Generate was not.                                                       *)
ToldInv ==
    /\ caller = "finished" \/ (caller = "ranging" /\ plan = "errorFirst")
          => verdict # "unread"
    /\ caller = "calling" => verdict = "unread"

LEMMA WholeStays == ASSUME UNCHANGED inputs PROVE WholeAnswer' = WholeAnswer
  BY DEF inputs, WholeAnswer, Total

LEMMA StreamStutters ==
    ASSUME UNCHANGED inputs, received' = received, verdict' = verdict,
           caller' = caller
    PROVE  UNCHANGED Stream!streamVars
  BY WholeStays DEF Stream!streamVars

(* Who is done has an empty buffer before it. *)
LEMMA DoneIsHonest == IInv /\ ToldInv => Stream!Honest
<1> SUFFICES ASSUME IInv, ToldInv, caller = "finished"
             PROVE  verdict # "unread" /\ (verdict = "nil" => received = WholeAnswer)
  BY DEF Stream!Honest
<1>1. verdict # "unread"
  BY DEF ToldInv
<1>2. ASSUME verdict = "nil" PROVE received = WholeAnswer
  <2>1. responseChan = <<>> /\ Complete(Total)
    BY <1>2 DEF IInv, VerdictInv, ChannelInv, GenerateInv, Streaming
  <2>2. received \in Seq(Shown) /\ received \o responseChan = received
    BY <2>1, ConcatEmptySeq DEF IInv, TypeOK
  <2>3. IsAnswer(received, Total)
    BY <2>1, <2>2 DEF Complete
  <2>4. QED BY <2>2, <2>3, AllIsWhole DEF IInv
<1>3. QED BY <1>1, <1>2

LEMMA DoneStaysHonest == IInv' /\ ToldInv' => Stream!Honest'
  BY DoneIsHonest, PTL

(* What is in the buffer is what the caller is owed next. *)
LEMMA NextIsOwed ==
    ASSUME IInv, responseChan # <<>>
    PROVE  /\ Len(received) < Len(WholeAnswer)
           /\ Head(responseChan) = WholeAnswer[Len(received) + 1]
<1> DEFINE seq == received \o responseChan
           k == Len(received) + 1
<1>1. received \in Seq(Shown) /\ responseChan \in Seq(Shown)
  BY DEF IInv, TypeOK
<1>2. PICK n \in 0..Total : IsAnswer(seq, n)
  <2>1. Total \in Nat /\ pulled \in 0..Total
    BY TotalIsNat DEF IInv, TypeOK
  <2>2. Complete(pulled) \/ (pulled > 0 /\ Complete(pulled - 1))
    BY DEF IInv, TypeOK, FlowInv, Closing
  <2>3. pulled > 0 => pulled - 1 \in 0..Total
    BY <2>1
  <2> HIDE DEF seq
  <2>4. QED BY <2>1, <2>2, <2>3 DEF Complete, seq
<1>3. /\ Len(received) \in Nat /\ Len(responseChan) \in Nat \ {0}
      /\ Len(seq) = Len(received) + Len(responseChan)
  BY <1>1, LenProperties, EmptySeq, ConcatProperties
<1>4. seq[k] = Head(responseChan)
  <2>1. k \in Len(received) + 1 .. Len(received) + Len(responseChan)
    BY <1>3
  <2>2. seq[k] = responseChan[k - Len(received)]
    BY <1>1, <2>1, ConcatProperties
  <2>3. k - Len(received) = 1
    BY <1>3
  <2>4. Head(responseChan) = responseChan[1]
    BY <1>1, HeadTailProperties
  <2> HIDE DEF seq, k
  <2>5. QED BY <2>2, <2>3, <2>4
<1>5. /\ Len(seq) <= Len(WholeAnswer) /\ Len(WholeAnswer) \in Nat
      /\ \A j \in 1..Len(seq) : seq[j] = WholeAnswer[j]
  <2> HIDE DEF seq
  <2>1. QED BY <1>2, SeenBeginsAnswer DEF IInv
<1> HIDE DEF seq
<1>6. k \in 1..Len(seq) /\ Len(received) < Len(WholeAnswer)
  BY <1>3, <1>5
<1>7. QED BY <1>4, <1>5, <1>6

LEMMA InitRefines == Init => Stream!Init /\ ToldInv
  BY DEF Init, Stream!Init, ToldInv, Plans

LEMMA StreamStep ==
    ASSUME IInv, ToldInv, [Next]_vars
    PROVE  ToldInv' /\ [Stream!Next]_(Stream!streamVars)
<1>0. IInv'
  BY NextIInv
<1>1. CASE BuildRequest \/ PullChunk \/ PullError \/ IteratorEnds \/ CheckContext
           \/ SkipNil \/ SendResponse \/ SendError \/ CloseErrorChan
           \/ CloseResponseChan \/ CancelContext \/ Stopped \/ UNCHANGED vars
  <2>1. UNCHANGED <<plan, session, received, verdict, caller>>
    BY <1>1 DEF BuildRequest, PullChunk, PullError, IteratorEnds, CheckContext,
         SkipNil, SendResponse, SendError, CloseErrorChan, CloseResponseChan,
         CancelContext, Stopped, vars, inputs, callerVars
  <2>2. UNCHANGED inputs
    BY <2>1 DEF inputs
  <2>3. QED BY <2>1, <2>2, StreamStutters DEF ToldInv
<1>2. CASE GoAway
  <2>1. UNCHANGED inputs /\ received' = received /\ verdict' = verdict
    BY <1>2 DEF GoAway
  <2>2. caller # "finished" /\ caller' = "gone"
    BY <1>2 DEF GoAway
  <2>3. UNCHANGED Stream!streamVars
    BY <2>1, <2>2, WholeStays DEF Stream!streamVars
  <2>4. QED BY <2>2, <2>3 DEF ToldInv
<1>3. CASE ReceiveResponse
  <2>1. /\ caller = "ranging" /\ responseChan # <<>>
        /\ UNCHANGED <<inputs, caller, verdict>>
        /\ received' = Append(received, Head(responseChan))
    BY <1>3 DEF ReceiveResponse
  <2>2. /\ Len(received) < Len(WholeAnswer)
        /\ received' = Append(received, WholeAnswer[Len(received) + 1])
    BY <2>1, NextIsOwed
  <2>3. Stream!Deliver
    BY <2>1, <2>2, WholeStays DEF Stream!Deliver
  <2>4. ToldInv'
    BY <2>1 DEF ToldInv, inputs
  <2>5. QED BY <2>3, <2>4 DEF Stream!Next
<1>4. CASE RangeEnds
  <2>1. /\ caller = "ranging" /\ UNCHANGED <<plan, session, received, verdict>>
        /\ caller' = IF plan = "drain" THEN "asking" ELSE "finished"
    BY <1>4 DEF RangeEnds, inputs
  <2>2. plan # "drain" => plan = "errorFirst"
    BY <2>1 DEF IInv, TypeOK, Plans, GenerateInv
  <2>3. ToldInv'
    BY <2>1, <2>2 DEF ToldInv
  <2>4. UNCHANGED inputs /\ WholeAnswer' = WholeAnswer
    BY <2>1, WholeStays DEF inputs
  <2>5. CASE plan = "drain"
    <3>1. UNCHANGED Stream!streamVars
      BY <2>1, <2>4, <2>5 DEF Stream!streamVars
    <3>2. QED BY <2>3, <3>1
  <2>6. CASE plan # "drain"
    <3>1. caller # "finished" /\ caller' = "finished"
      BY <2>1, <2>6
    <3>2. Stream!Honest'
      BY <1>0, <2>3, DoneStaysHonest
    <3>3. Stream!End
      BY <2>1, <2>4, <3>1, <3>2 DEF Stream!End
    <3>4. QED BY <2>3, <3>3 DEF Stream!Next
  <2>7. QED BY <2>5, <2>6
<1>5. CASE ReceiveError
  <2>1. /\ caller = "asking" /\ UNCHANGED inputs /\ received' = received
        /\ caller' = IF plan = "drain" THEN "finished" ELSE "ranging"
    BY <1>5 DEF ReceiveError
  <2>2. verdict = "unread"
    BY <2>1 DEF IInv, ChannelInv, GenerateInv, Streaming
  <2>3. verdict' \in {"nil", "stream", "ctx"}
    <3>1. errorChan # <<>> => Head(errorChan) \in {"stream", "ctx"}
      BY HeadTailProperties DEF IInv, TypeOK
    <3>2. QED BY <1>5, <3>1 DEF ReceiveError
  <2>4. ToldInv'
    <3>1. caller' # "calling" /\ verdict' # "unread"
      BY <2>1, <2>3
    <3>2. QED BY <3>1 DEF ToldInv
  <2>5. WholeAnswer' = WholeAnswer
    BY <2>1, WholeStays
  <2>6. Stream!Honest'
    BY <1>0, <2>4, DoneStaysHonest
  <2>7. Stream!Tell
    BY <2>1, <2>2, <2>3, <2>5, <2>6 DEF Stream!Tell
  <2>8. QED BY <2>4, <2>7 DEF Stream!Next
<1>6. CASE GenerateAnswers \/ GenerateFails
  <2>1. /\ UNCHANGED inputs /\ plan = "generate" /\ pc = "pulling"
        /\ caller' = "finished" /\ verdict' \in {"nil", "stream"}
        /\ (verdict' = "stream" => received' = received)
    BY <1>6 DEF GenerateAnswers, GenerateFails, Goto
  <2>2. caller = "calling" /\ received = <<>> /\ verdict = "unread"
    <3>1. caller = "calling"
      BY <2>1 DEF IInv, GenerateInv
    <3>2. received = <<>>
      BY <2>1, <3>1 DEF IInv, GenerateInv
    <3>3. QED BY <3>1, <3>2 DEF ToldInv
  <2>3. ToldInv'
    BY <2>1 DEF ToldInv
  <2>4. verdict' = "nil" => received' = WholeAnswer'
    BY <1>0, <2>1, <2>3, DoneStaysHonest DEF Stream!Honest
  <2>5. WholeAnswer' = WholeAnswer
    BY <2>1, WholeStays
  <2>6. Stream!Reply
    BY <2>1, <2>2, <2>4, <2>5 DEF Stream!Reply
  <2>7. QED BY <2>3, <2>6 DEF Stream!Next
<1>7. QED BY <1>1, <1>2, <1>3, <1>4, <1>5, <1>6 DEF Next, Goroutine, Reading
-----------------------------------------------------------------------------
(***************************************************************************)
(* The theorems.                                                           *)
(***************************************************************************)

(* The invariant holds in every state Generate and GenerateStream reach.   *)
THEOREM StreamInvariant == Spec => []IInv
<1>1. QED BY InitIInv, NextIInv, PTL DEF Spec

(* The variables have their types, the buffers of the two channels their   *)
(* bounds, and a request is with the client once it is built (l.149-160).  *)
THEOREM StreamTypes == Spec => []TypeOK
<1>1. IInv => TypeOK
  BY DEF IInv
<1>2. QED BY <1>1, StreamInvariant, PTL

(* What the caller of GenerateStream has and what waits in the buffer is   *)
(* the beginning of the converted stream, in order and without a gap, for  *)
(* streams of any length and a buffer of any size (l.165-190).             *)
THEOREM StreamHasNoGap == Spec => []NoGap
<1>1. IInv => NoGap
  <2> SUFFICES ASSUME IInv PROVE NoGap
    OBVIOUS
  <2>1. Complete(pulled) \/ (pulled > 0 /\ Complete(pulled - 1))
    BY DEF IInv, TypeOK, FlowInv, Closing
  <2>2. QED BY <2>1 DEF NoGap, Complete
<1>2. QED BY <1>1, StreamInvariant, PTL

(* Who read both channels to the end and was given no error has the whole  *)
(* stream: a stream cut short by the API or by the context says so         *)
(* (l.162-177).                                                            *)
THEOREM StreamIsNotSilentlyCut == Spec => []NoSilentTruncation
<1>1. IInv => NoSilentTruncation
  <2> SUFFICES ASSUME IInv, caller = "finished", verdict = "nil"
               PROVE  IsAnswer(received, Total)
    BY DEF NoSilentTruncation
  <2>1. responseChan = <<>> /\ Complete(Total)
    BY DEF IInv, VerdictInv, ChannelInv, GenerateInv, Streaming
  <2>2. received \o responseChan = received
    BY <2>1, ConcatEmptySeq DEF IInv, TypeOK
  <2>3. QED BY <2>1, <2>2 DEF Complete
<1>2. QED BY <1>1, StreamInvariant, PTL

(* Generate and GenerateStream implement ResponseStream, for any sessions   *)
(* and any size of the buffer: each step delivers the next response, tells  *)
(* the caller how the answer ended, or changes nothing the caller sees, and *)
(* a caller that is done was told the truth (genai.go l.144-189).           *)
THEOREM StreamIsImplemented == Spec => ImplementsStream
<1>1. Init => Stream!Init /\ ToldInv
  BY InitRefines
<1>2. IInv /\ ToldInv /\ [Next]_vars
        => ToldInv' /\ [Stream!Next]_(Stream!streamVars)
  BY StreamStep
<1>3. QED BY <1>1, <1>2, StreamInvariant, PTL DEF Spec, ImplementsStream, Stream!Spec

(* The request that Generate and GenerateStream send, for any message, any  *)
(* options, any widths of the numbers and a schema that is any tree: it     *)
(* says the first content of every part that has one, in order and once,    *)
(* every option that is set, a number unchanged just if its int32 or its    *)
(* float32 can hold it, and what stands at each place of the schema         *)
(* (utils.go l.14-175, l.335-439).                                          *)
THEOREM RequestIsFaithful == Spec => []RequestSaysItAll
  BY StreamTypes, TheRequestSaysItAll, PTL

(* A conversation can go on: the message of a response, sent as the next    *)
(* turn, reaches the model with its role and its portable parts, whatever  *)
(* the model answered (utils.go l.55-110, l.213-290).                      *)
THEOREM HistoryComesBack == Spec => []HistorySurvives
  BY StreamTypes, TheHistorySurvives, PTL
=============================================================================
