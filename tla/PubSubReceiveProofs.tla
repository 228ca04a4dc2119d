------------------------- MODULE PubSubReceiveProofs -------------------------
(***************************************************************************)
(* Proofs about PubSubReceive, for any number of calls, of messages and    *)
(* any batch size: a Receive takes one message from the subscription at    *)
(* most, and its callback never waits on the message channel.              *)
(*                                                                         *)
(* Both rest on the same fact.  The client counts a message as outstanding *)
(* until it is answered; a Receive asks for one outstanding message, and   *)
(* what could answer or lose it, the caller's Rsvp and the end of its      *)
(* lease, comes after the callback has ended the context.                  *)
(***************************************************************************)
EXTENDS PubSubReceive, SequenceTheorems, FiniteSetTheorems, TLAPS

OneAtMost(S) == \A m, n \in S : m = n

(* The context of a call ends when the call returns, at the latest. *)
LifeInv(c) ==
    /\ Live(c) => main[c] \in {"select", "parked", "inside"}
    /\ outcome[c] # "none" => main[c] = "returned"
    /\ main[c] = "idle" => taken[c] = {}

(* A message of a Receive is in its callback as long as the context lives. *)
HoldInv(c) ==
    /\ OneAtMost(taken[c])
    /\ \A m \in Messages : cb[c][m] # "none" => m \in taken[c]
    /\ Live(c) => \A m \in taken[c] : cb[c][m] \in {"called", "sent"}
    /\ \A i \in DOMAIN msgChan[c] :
          msgChan[c][i] \in taken[c] /\ cb[c][msgChan[c][i]] # "called"

IInv ==
    /\ TypeOK
    /\ \A c \in Callers : LifeInv(c)
    /\ \A c \in Singles : HoldInv(c)
-----------------------------------------------------------------------------
LEMMA OneAtMostIsFinite ==
    ASSUME NEW S, OneAtMost(S)
    PROVE  IsFiniteSet(S) /\ Cardinality(S) <= 1
<1>1. CASE S = {}
  BY <1>1, FS_EmptySet
<1>2. CASE S # {}
  <2>1. PICK x : x \in S
    BY <1>2
  <2>2. S = {x}
    BY <2>1 DEF OneAtMost
  <2>3. IsFiniteSet({x}) /\ Cardinality({x}) = 1
    BY FS_Singleton
  <2>4. QED BY <2>2, <2>3
<1>3. QED BY <1>1, <1>2

(* A channel with a buffer of one takes a value when it is empty. *)
LEMMA BufferOfOne ==
    ASSUME NEW S, NEW chan \in [Callers -> Seq(S)], NEW c \in Callers, NEW x \in S,
           \A d \in Callers : Len(chan[d]) <= 1, Len(chan[c]) < 1
    PROVE  LET after == [chan EXCEPT ![c] = Append(@, x)] IN
           after \in [Callers -> Seq(S)] /\ \A d \in Callers : Len(after[d]) <= 1
<1> DEFINE y == Append(chan[c], x)
<1>1. y \in Seq(S) /\ Len(y) <= 1
  BY AppendProperties
<1> HIDE DEF y
<1>2. LET after == [chan EXCEPT ![c] = y] IN
      after \in [Callers -> Seq(S)] /\ \A d \in Callers : Len(after[d]) <= 1
  BY <1>1
<1>3. QED BY <1>2 DEF y

(* When the client may deliver to a Receive, it has not delivered yet. *)
LEMMA NothingTaken ==
    ASSUME IInv, NEW c \in Singles, Live(c), Cardinality(Outstanding(c)) < 1
    PROVE  taken[c] = {}
<1>1. HoldInv(c) /\ taken[c] \in SUBSET Messages
  BY DEF IInv, TypeOK, Callers
<1>2. Outstanding(c) \in SUBSET taken[c]
  BY <1>1 DEF HoldInv, Outstanding
<1>3. IsFiniteSet(Outstanding(c))
  BY <1>1, <1>2, OneAtMostIsFinite, FS_Subset DEF HoldInv
<1>4. Outstanding(c) = {}
  BY <1>3, FS_EmptySet, FS_CardinalityType
<1>5. QED BY <1>1, <1>4 DEF HoldInv, Outstanding
-----------------------------------------------------------------------------
LEMMA InitIInv == Init => IInv
<1> SUFFICES ASSUME Init PROVE IInv
  OBVIOUS
<1>1. TypeOK
  BY DEF Init, TypeOK
<1>2. ASSUME NEW c \in Callers PROVE LifeInv(c)
  BY DEF Init, LifeInv, Live
<1>3. ASSUME NEW c \in Singles PROVE HoldInv(c)
  BY DEF Init, HoldInv, OneAtMost, Live, Callers
<1>4. QED BY <1>1, <1>2, <1>3 DEF IInv

LEMMA StartFailsStep ==
    ASSUME IInv, NEW c \in Callers, StartFails(c)
    PROVE  IInv'
<1> USE DEF StartFails, Return, Cancelled, serviceVars, historyVars
<1>1. TypeOK'
  BY DEF IInv, TypeOK
<1>2. ASSUME NEW d \in Callers PROVE LifeInv(d)'
  BY DEF IInv, TypeOK, LifeInv, Live
<1>3. ASSUME NEW d \in Singles PROVE HoldInv(d)'
  BY DEF IInv, TypeOK, LifeInv, HoldInv, Live, Callers
<1>4. QED BY <1>1, <1>2, <1>3 DEF IInv

LEMMA SelectErrorStep ==
    ASSUME IInv, NEW c \in Callers, SelectError(c)
    PROVE  IInv'
<1> USE DEF SelectError, Return, Cancelled, serviceVars, historyVars
<1>1. TypeOK'
  BY DEF IInv, TypeOK
<1>2. ASSUME NEW d \in Callers PROVE LifeInv(d)'
  BY DEF IInv, TypeOK, LifeInv, Live
<1>3. ASSUME NEW d \in Singles PROVE HoldInv(d)'
  BY DEF IInv, TypeOK, LifeInv, HoldInv, Live, Callers
<1>4. QED BY <1>1, <1>2, <1>3 DEF IInv

LEMMA SelectDoneStep ==
    ASSUME IInv, NEW c \in Callers, SelectDone(c)
    PROVE  IInv'
<1> USE DEF SelectDone, Return, Cancelled, serviceVars, historyVars
<1>1. TypeOK'
  BY DEF IInv, TypeOK
<1>2. ASSUME NEW d \in Callers PROVE LifeInv(d)'
  BY DEF IInv, TypeOK, LifeInv, Live
<1>3. ASSUME NEW d \in Singles PROVE HoldInv(d)'
  BY DEF IInv, TypeOK, LifeInv, HoldInv, Live, Callers
<1>4. QED BY <1>1, <1>2, <1>3 DEF IInv

LEMMA StartStep ==
    ASSUME IInv, NEW c \in Callers, Start(c)
    PROVE  IInv'
<1> USE DEF Start, serviceVars, historyVars
<1>1. TypeOK'
  BY DEF IInv, TypeOK
<1>2. ASSUME NEW d \in Callers PROVE LifeInv(d)'
  BY DEF IInv, TypeOK, LifeInv, Live
<1>3. ASSUME NEW d \in Singles PROVE HoldInv(d)'
  BY DEF IInv, TypeOK, LifeInv, HoldInv, Live, Callers
<1>4. QED BY <1>1, <1>2, <1>3 DEF IInv

LEMMA ParkStep ==
    ASSUME IInv, NEW c \in Callers, Park(c)
    PROVE  IInv'
<1> USE DEF Park, serviceVars, historyVars
<1>1. TypeOK'
  BY DEF IInv, TypeOK
<1>2. ASSUME NEW d \in Callers PROVE LifeInv(d)'
  BY DEF IInv, TypeOK, LifeInv, Live
<1>3. ASSUME NEW d \in Singles PROVE HoldInv(d)'
  BY DEF IInv, TypeOK, LifeInv, HoldInv, Live, Callers
<1>4. QED BY <1>1, <1>2, <1>3 DEF IInv

LEMMA SelectMessageStep ==
    ASSUME IInv, NEW c \in Callers, SelectMessage(c)
    PROVE  IInv'
<1> USE DEF SelectMessage, Return, Cancelled, serviceVars, historyVars
<1>1. TypeOK'
  BY DEF IInv, TypeOK
<1>2. ASSUME NEW d \in Callers PROVE LifeInv(d)'
  BY DEF IInv, TypeOK, LifeInv, Live
<1>3. ASSUME NEW d \in Singles PROVE HoldInv(d)'
  BY DEF IInv, TypeOK, LifeInv, HoldInv, Live, Callers
<1>4. QED BY <1>1, <1>2, <1>3 DEF IInv

LEMMA SendMessageStep ==
    ASSUME IInv, NEW c \in Callers, NEW m \in Messages, SendMessage(c, m)
    PROVE  IInv'
<1> USE DEF SendMessage, Return, Cancelled, serviceVars, historyVars
<1>1. TypeOK'
  <2>1. /\ msgChan' \in [Callers -> Seq(Messages)]
        /\ \A d \in Callers : Len(msgChan'[d]) <= 1
    <3>1. msgChan \in [Callers -> Seq(Messages)] /\ \A d \in Callers : Len(msgChan[d]) <= 1
      BY DEF IInv, TypeOK
    <3>2. CASE UNCHANGED msgChan
      BY <3>1, <3>2
    <3>3. CASE msgChan' = [msgChan EXCEPT ![c] = Append(@, m)] /\ Len(msgChan[c]) < 1
      <4>1. LET after == [msgChan EXCEPT ![c] = Append(@, m)] IN
            after \in [Callers -> Seq(Messages)] /\ \A d \in Callers : Len(after[d]) <= 1
        <5> DEFINE S == Seq(Messages)
        <5>1. /\ msgChan \in [Callers -> S] /\ \A d \in Callers : Len(msgChan[d]) <= 1
              /\ c \in Callers /\ m \in Messages /\ Len(msgChan[c]) < 1
          BY <3>1, <3>3
        <5>2. QED BY ONLY <5>1, BufferOfOne
      <4>2. QED BY ONLY <3>3, <4>1
    <3>4. QED BY <3>2, <3>3
  <2>2. /\ msgs' \in [Callers -> Seq(Messages)]
        /\ \A d \in Callers :
              /\ (outcome'[d] = "ok" => msgs'[d] # <<>>)
              /\ (d \in Singles => Len(msgs'[d]) <= 1)
    <3>1. CASE UNCHANGED <<msgs, outcome>>
      BY <3>1 DEF IInv, TypeOK
    <3>2. CASE msgs' = [msgs EXCEPT ![c] = <<m>>] /\ outcome' = [outcome EXCEPT ![c] = "ok"]
      BY <3>2 DEF IInv, TypeOK
    <3>3. QED BY <3>1, <3>2
  <2>3. /\ main' \in [Callers -> {"idle", "select", "parked", "inside", "returned"}]
        /\ outcome' \in [Callers -> {"none", "ok", "error", "timeout"}]
    BY DEF IInv, TypeOK
  <2>4. /\ worker' \in [Callers -> {"none", "receiving", "reporting", "ended"}]
        /\ ctx' \in [Callers -> {"none", "live", "cancelled", "expired"}]
        /\ client' \in [Callers -> {"none", "open", "closed"}]
    BY DEF IInv, TypeOK
  <2>5. /\ cb' \in [Callers -> [Messages -> {"none", "called", "sent", "unanswered"}]]
        /\ lease' \in [Messages -> Callers \union {NoOne}] /\ acked' \in SUBSET Messages
        /\ taken' \in [Callers -> SUBSET Messages]
        /\ answered' \in [Callers -> SUBSET Messages]
    BY DEF IInv, TypeOK
  <2>6. errChan' \in [Callers -> Seq({"error"})] /\ \A d \in Callers : Len(errChan'[d]) <= 1
    BY DEF IInv, TypeOK
  <2>7. QED BY ONLY <2>1, <2>2, <2>3, <2>4, <2>5, <2>6 DEF TypeOK
<1>2. ASSUME NEW d \in Callers PROVE LifeInv(d)'
  BY DEF IInv, TypeOK, LifeInv, Live
<1>3. ASSUME NEW d \in Singles PROVE HoldInv(d)'
  BY DEF IInv, TypeOK, LifeInv, HoldInv, Live, Callers
<1>4. QED BY <1>1, <1>2, <1>3 DEF IInv

LEMMA CancelAfterMessageStep ==
    ASSUME IInv, NEW c \in Callers, NEW m \in Messages, CancelAfterMessage(c, m)
    PROVE  IInv'
<1> USE DEF CancelAfterMessage, Cancelled, serviceVars, historyVars
<1>1. TypeOK'
  BY DEF IInv, TypeOK
<1>2. ASSUME NEW d \in Callers PROVE LifeInv(d)'
  BY DEF IInv, TypeOK, LifeInv, Live
<1>3. ASSUME NEW d \in Singles PROVE HoldInv(d)'
  BY DEF IInv, TypeOK, LifeInv, HoldInv, Live, Callers
<1>4. QED BY <1>1, <1>2, <1>3 DEF IInv

LEMMA WorkerEndsStep ==
    ASSUME IInv, NEW c \in Callers, WorkerEnds(c)
    PROVE  IInv'
<1> USE DEF WorkerEnds, serviceVars, historyVars
<1>1. TypeOK'
  BY DEF IInv, TypeOK
<1>2. ASSUME NEW d \in Callers PROVE LifeInv(d)'
  BY DEF IInv, TypeOK, LifeInv, Live
<1>3. ASSUME NEW d \in Singles PROVE HoldInv(d)'
  BY DEF IInv, TypeOK, LifeInv, HoldInv, Live, Callers
<1>4. QED BY <1>1, <1>2, <1>3 DEF IInv

LEMMA WorkerFailsStep ==
    ASSUME IInv, NEW c \in Callers, WorkerFails(c)
    PROVE  IInv'
<1> USE DEF WorkerFails, serviceVars, historyVars
<1>1. TypeOK'
  BY DEF IInv, TypeOK
<1>2. ASSUME NEW d \in Callers PROVE LifeInv(d)'
  BY DEF IInv, TypeOK, LifeInv, Live
<1>3. ASSUME NEW d \in Singles PROVE HoldInv(d)'
  BY DEF IInv, TypeOK, LifeInv, HoldInv, Live, Callers
<1>4. QED BY <1>1, <1>2, <1>3 DEF IInv

LEMMA ReportErrorStep ==
    ASSUME IInv, NEW c \in Callers, ReportError(c)
    PROVE  IInv'
<1> USE DEF ReportError, Return, Cancelled, serviceVars, historyVars
<1>1. TypeOK'
  <2>1. /\ errChan' \in [Callers -> Seq({"error"})]
        /\ \A d \in Callers : Len(errChan'[d]) <= 1
    <3>1. errChan \in [Callers -> Seq({"error"})] /\ \A d \in Callers : Len(errChan[d]) <= 1
      BY DEF IInv, TypeOK
    <3>2. CASE UNCHANGED errChan
      BY <3>1, <3>2
    <3>3. CASE errChan' = [errChan EXCEPT ![c] = Append(@, "error")] /\ Len(errChan[c]) < 1
      <4>1. LET after == [errChan EXCEPT ![c] = Append(@, "error")] IN
            after \in [Callers -> Seq({"error"})] /\ \A d \in Callers : Len(after[d]) <= 1
        <5>1. c \in Callers /\ Len(errChan[c]) < 1
          BY <3>3
        <5>2. QED BY ONLY <3>1, <5>1, BufferOfOne
      <4>2. QED BY ONLY <3>3, <4>1
    <3>4. QED BY <3>2, <3>3
  <2>2. /\ msgChan' \in [Callers -> Seq(Messages)] /\ msgs' \in [Callers -> Seq(Messages)]
        /\ \A d \in Callers :
              /\ Len(msgChan'[d]) <= 1
              /\ (outcome'[d] = "ok" => msgs'[d] # <<>>)
              /\ (d \in Singles => Len(msgs'[d]) <= 1)
    BY DEF IInv, TypeOK
  <2>3. /\ main' \in [Callers -> {"idle", "select", "parked", "inside", "returned"}]
        /\ outcome' \in [Callers -> {"none", "ok", "error", "timeout"}]
    BY DEF IInv, TypeOK
  <2>4. /\ worker' \in [Callers -> {"none", "receiving", "reporting", "ended"}]
        /\ ctx' \in [Callers -> {"none", "live", "cancelled", "expired"}]
        /\ client' \in [Callers -> {"none", "open", "closed"}]
    BY DEF IInv, TypeOK
  <2>5. /\ cb' \in [Callers -> [Messages -> {"none", "called", "sent", "unanswered"}]]
        /\ lease' \in [Messages -> Callers \union {NoOne}] /\ acked' \in SUBSET Messages
        /\ taken' \in [Callers -> SUBSET Messages]
        /\ answered' \in [Callers -> SUBSET Messages]
    BY DEF IInv, TypeOK
  <2>6. QED BY ONLY <2>1, <2>2, <2>3, <2>4, <2>5 DEF TypeOK
<1>2. ASSUME NEW d \in Callers PROVE LifeInv(d)'
  BY DEF IInv, TypeOK, LifeInv, Live
<1>3. ASSUME NEW d \in Singles PROVE HoldInv(d)'
  BY DEF IInv, TypeOK, LifeInv, HoldInv, Live, Callers
<1>4. QED BY <1>1, <1>2, <1>3 DEF IInv

LEMMA CollectStep ==
    ASSUME IInv, NEW c \in Callers, NEW m \in Messages, Collect(c, m)
    PROVE  IInv'
<1> USE DEF Collect, Cancelled, serviceVars, historyVars
<1>1. TypeOK'
  <2>1. c \notin Singles /\ msgs[c] \in Seq(Messages)
    BY CallersAssumption DEF IInv, TypeOK
  <2>2. Append(msgs[c], m) \in Seq(Messages) /\ Append(msgs[c], m) # <<>>
    BY <2>1, AppendProperties
  <2>3. /\ msgs' \in [Callers -> Seq(Messages)]
        /\ \A d \in Callers :
              /\ outcome'[d] = "ok" => msgs'[d] # <<>>
              /\ d \in Singles => Len(msgs'[d]) <= 1
    BY <2>1, <2>2 DEF IInv, TypeOK
  <2>4. QED BY <2>3 DEF IInv, TypeOK
<1>2. ASSUME NEW d \in Callers PROVE LifeInv(d)'
  BY DEF IInv, TypeOK, LifeInv, Live
<1>3. ASSUME NEW d \in Singles PROVE HoldInv(d)'
  <2>1. d # c
    BY CallersAssumption
  <2>2. QED BY <2>1 DEF IInv, TypeOK, HoldInv, Live, Callers
<1>4. QED BY <1>1, <1>2, <1>3 DEF IInv

LEMMA BatchReturnsStep ==
    ASSUME IInv, NEW c \in Callers, BatchReturns(c)
    PROVE  IInv'
<1> USE DEF BatchReturns, Return, Cancelled, serviceVars, historyVars
<1>1. TypeOK'
  BY DEF IInv, TypeOK
<1>2. ASSUME NEW d \in Callers PROVE LifeInv(d)'
  BY DEF IInv, TypeOK, LifeInv, Live
<1>3. ASSUME NEW d \in Singles PROVE HoldInv(d)'
  BY DEF IInv, TypeOK, LifeInv, HoldInv, Live, Callers
<1>4. QED BY <1>1, <1>2, <1>3 DEF IInv

LEMMA BatchFailsStep ==
    ASSUME IInv, NEW c \in Callers, BatchFails(c)
    PROVE  IInv'
<1> USE DEF BatchFails, Return, Cancelled, serviceVars, historyVars
<1>1. TypeOK'
  BY DEF IInv, TypeOK
<1>2. ASSUME NEW d \in Callers PROVE LifeInv(d)'
  BY DEF IInv, TypeOK, LifeInv, Live
<1>3. ASSUME NEW d \in Singles PROVE HoldInv(d)'
  BY DEF IInv, TypeOK, LifeInv, HoldInv, Live, Callers
<1>4. QED BY <1>1, <1>2, <1>3 DEF IInv

LEMMA DeliverStep ==
    ASSUME IInv, NEW c \in Callers, NEW m \in Messages, Deliver(c, m)
    PROVE  IInv'
<1> USE DEF Deliver, callVars, serviceVars, historyVars
<1>1. TypeOK'
  BY DEF IInv, TypeOK
<1>2. ASSUME NEW d \in Callers PROVE LifeInv(d)'
  BY DEF IInv, TypeOK, LifeInv, Live
<1>3. ASSUME NEW d \in Singles PROVE HoldInv(d)'
  <2>1. CASE d = c
    <3>1. Live(d) /\ taken[d] = {}
      BY <2>1, NothingTaken DEF MaxOutstanding
    <3>2. msgChan[d] = <<>>
      BY <3>1 DEF IInv, TypeOK, HoldInv, Callers
    <3>3. taken'[d] = {m}
      BY <2>1, <3>1 DEF IInv, TypeOK
    <3>4. QED
      BY <2>1, <3>1, <3>2, <3>3 DEF IInv, TypeOK, HoldInv, OneAtMost, Live, Callers
  <2>2. CASE d # c
    BY <2>2 DEF IInv, TypeOK, HoldInv, Live, Callers
  <2>3. QED BY <2>1, <2>2
<1>4. QED BY <1>1, <1>2, <1>3 DEF IInv

LEMMA DeadlinePassesStep ==
    ASSUME IInv, NEW c \in Callers, DeadlinePasses(c)
    PROVE  IInv'
<1> USE DEF DeadlinePasses, serviceVars, historyVars
<1>1. TypeOK'
  BY DEF IInv, TypeOK
<1>2. ASSUME NEW d \in Callers PROVE LifeInv(d)'
  BY DEF IInv, TypeOK, LifeInv, Live
<1>3. ASSUME NEW d \in Singles PROVE HoldInv(d)'
  BY DEF IInv, TypeOK, LifeInv, HoldInv, Live, Callers
<1>4. QED BY <1>1, <1>2, <1>3 DEF IInv

LEMMA LeaseExpiresStep ==
    ASSUME IInv, NEW c \in Callers, NEW m \in Messages, LeaseExpires(c, m)
    PROVE  IInv'
<1> USE DEF LeaseExpires, callVars, serviceVars, historyVars
<1>1. TypeOK'
  BY DEF IInv, TypeOK
<1>2. ASSUME NEW d \in Callers PROVE LifeInv(d)'
  BY DEF IInv, TypeOK, LifeInv, Live
<1>3. ASSUME NEW d \in Singles PROVE HoldInv(d)'
  BY DEF IInv, TypeOK, LifeInv, HoldInv, Live, Callers
<1>4. QED BY <1>1, <1>2, <1>3 DEF IInv

LEMMA RsvpAckStep ==
    ASSUME IInv, NEW c \in Callers, NEW m \in Messages, RsvpAck(c, m)
    PROVE  IInv'
<1> USE DEF RsvpAck, callVars, serviceVars, historyVars
<1>1. TypeOK'
  <2>1. /\ acked' = acked \/ acked' = acked \union {m}
        /\ lease' = lease \/ lease' = [lease EXCEPT ![m] = NoOne]
    OBVIOUS
  <2>2. cb' \in [Callers -> [Messages -> {"none", "called", "sent", "unanswered"}]]
    BY DEF IInv, TypeOK
  <2>3. answered' \in [Callers -> SUBSET Messages]
    BY DEF IInv, TypeOK
  <2>4. QED BY <2>1, <2>2, <2>3 DEF IInv, TypeOK
<1>2. ASSUME NEW d \in Callers PROVE LifeInv(d)'
  BY DEF IInv, TypeOK, LifeInv, Live
<1>3. ASSUME NEW d \in Singles PROVE HoldInv(d)'
  BY DEF IInv, TypeOK, LifeInv, HoldInv, Live, Callers
<1>4. QED BY <1>1, <1>2, <1>3 DEF IInv

LEMMA RsvpNackStep ==
    ASSUME IInv, NEW c \in Callers, NEW m \in Messages, RsvpNack(c, m)
    PROVE  IInv'
<1> USE DEF RsvpNack, callVars, serviceVars, historyVars
<1>1. TypeOK'
  BY DEF IInv, TypeOK
<1>2. ASSUME NEW d \in Callers PROVE LifeInv(d)'
  BY DEF IInv, TypeOK, LifeInv, Live
<1>3. ASSUME NEW d \in Singles PROVE HoldInv(d)'
  BY DEF IInv, TypeOK, LifeInv, HoldInv, Live, Callers
<1>4. QED BY <1>1, <1>2, <1>3 DEF IInv

LEMMA StutterStep == ASSUME IInv, UNCHANGED vars PROVE IInv'
<1> USE DEF vars, callVars, serviceVars, historyVars
<1>1. TypeOK'
  BY DEF IInv, TypeOK
<1>2. ASSUME NEW d \in Callers PROVE LifeInv(d)'
  BY DEF IInv, LifeInv, Live
<1>3. ASSUME NEW d \in Singles PROVE HoldInv(d)'
  BY DEF IInv, HoldInv, OneAtMost, Live
<1>4. QED BY <1>1, <1>2, <1>3 DEF IInv

LEMMA NextIInv == IInv /\ [Next]_vars => IInv'
<1> SUFFICES ASSUME IInv, [Next]_vars PROVE IInv'
  OBVIOUS
<1>1. ASSUME NEW c \in Callers,
             \/ Start(c) \/ StartFails(c) \/ SelectStep(c) \/ WorkerStep(c)
             \/ WorkerFails(c) \/ BatchFails(c) \/ DeadlinePasses(c)
      PROVE  IInv'
  BY <1>1, StartStep, StartFailsStep, ParkStep, SelectMessageStep, SelectErrorStep,
     SelectDoneStep, WorkerEndsStep, ReportErrorStep, BatchReturnsStep, WorkerFailsStep,
     BatchFailsStep, DeadlinePassesStep
     DEF SelectStep, WorkerStep
<1>2. ASSUME NEW c \in Callers, NEW m \in Messages,
             \/ CallbackStep(c, m) \/ Deliver(c, m) \/ LeaseExpires(c, m)
             \/ RsvpAck(c, m) \/ RsvpNack(c, m)
      PROVE  IInv'
  BY <1>2, SendMessageStep, CancelAfterMessageStep, CollectStep, DeliverStep,
     LeaseExpiresStep, RsvpAckStep, RsvpNackStep
     DEF CallbackStep
<1>3. CASE Finished \/ UNCHANGED vars
  BY <1>3, StutterStep DEF Finished
<1>4. QED BY <1>1, <1>2, <1>3 DEF Next
-----------------------------------------------------------------------------
(***************************************************************************)
(* The theorems.                                                           *)
(***************************************************************************)

(* The invariant holds in every state the calls reach. *)
THEOREM ReceiveInvariant == Spec => []IInv
<1>1. QED BY InitIInv, NextIInv, PTL DEF Spec

(* The variables have their types; no channel of Receive holds more than   *)
(* its buffer of one, a call that reports success has a message to return, *)
(* and Receive returns one at most (l.195-226).                            *)
THEOREM ReceiveTypes == Spec => []TypeOK
<1>1. IInv => TypeOK
  BY DEF IInv
<1>2. QED BY <1>1, ReceiveInvariant, PTL

(* The callback of a Receive never waits on the message channel, however    *)
(* many calls compete for however many messages (l.202-213).               *)
THEOREM CallbacksNeverBlock == Spec => []CallbackNeverBlocks
<1>1. IInv => CallbackNeverBlocks
  <2> SUFFICES ASSUME IInv, NEW c \in Singles, NEW m \in Messages,
                      cb[c][m] = "called", msgChan[c] # <<>>
               PROVE  FALSE
    BY DEF CallbackNeverBlocks
  <2>1. HoldInv(c) /\ msgChan[c] \in Seq(Messages)
    BY DEF IInv, TypeOK, Callers
  <2>2. 1 \in DOMAIN msgChan[c]
    BY <2>1
  <2>3. m \in taken[c] /\ msgChan[c][1] \in taken[c] /\ cb[c][msgChan[c][1]] # "called"
    BY <2>1, <2>2 DEF HoldInv
  <2>4. QED BY <2>1, <2>3 DEF HoldInv, OneAtMost
<1>2. QED BY <1>1, ReceiveInvariant, PTL

(* A Receive takes one message from the subscription at most, whatever it   *)
(* returns (l.198-218).                                                    *)
THEOREM ReceivesTakeOne == Spec => []ReceiveTakesOne
<1>1. IInv => ReceiveTakesOne
  BY OneAtMostIsFinite DEF IInv, HoldInv, ReceiveTakesOne
<1>2. QED BY <1>1, ReceiveInvariant, PTL
=============================================================================
