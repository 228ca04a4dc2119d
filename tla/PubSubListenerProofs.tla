------------------------ MODULE PubSubListenerProofs ------------------------
(***************************************************************************)
(* Proofs about PubSubListener for any sets of AddListener calls, Close    *)
(* calls and messages: its invariants, its action properties and that it   *)
(* implements ListenerGroup (safety part).                                 *)
(***************************************************************************)
EXTENDS PubSubListener, TLAPS

(* The initial state is well typed. *)
LEMMA InitTyped == Init => TypeOK
<1> SUFFICES ASSUME Init PROVE TypeOK
  OBVIOUS
<1>1. ProviderTypeOK
  BY DEF Init, ProviderTypeOK, CloserStates
<1>2. ListenerTypeOK
  BY DEF Init, ListenerTypeOK, ListenerStates
<1>3. MessageTypeOK
  BY DEF Init, MessageTypeOK, CallbackStates
<1>4. QED BY <1>1, <1>2, <1>3 DEF TypeOK

(* Steps of AddListener and of the goroutine keep the types. *)
LEMMA ListenerStepTyped ==
    ASSUME TypeOK, NEW l \in Listeners, ListenerNext(l)
    PROVE  TypeOK'
<1> USE DEF Step, Live
<1>1. ProviderTypeOK'
  BY DEF TypeOK, ProviderTypeOK, providerVars, ListenerNext, AddListenerStep,
         OpenClient, ResolveFails, CreateContext, Register, GoroutineStep,
         StartReceive, ReceiveReturns, CloseClient, CancelOwn, DeadlinePasses,
         ReceiveFails
<1>2. ListenerTypeOK'
  <2> USE DEF TypeOK, ListenerTypeOK, ListenerStates
  <2>1. CASE OpenClient(l) \/ ResolveFails(l)
    BY <2>1 DEF OpenClient, ResolveFails
  <2>2. CASE CreateContext(l)
    BY <2>2 DEF CreateContext
  <2>3. CASE Register(l)
    BY <2>3 DEF Register
  <2>4. CASE GoroutineStep(l)
    BY <2>4 DEF GoroutineStep, StartReceive, ReceiveReturns, CloseClient, CancelOwn
  <2>5. CASE DeadlinePasses(l) \/ ReceiveFails(l)
    BY <2>5 DEF DeadlinePasses, ReceiveFails
  <2>6. QED BY <2>1, <2>2, <2>3, <2>4, <2>5 DEF ListenerNext, AddListenerStep
<1>3. MessageTypeOK'
  BY DEF TypeOK, MessageTypeOK, messageVars, ListenerNext, AddListenerStep,
         OpenClient, ResolveFails, CreateContext, Register, GoroutineStep,
         StartReceive, ReceiveReturns, CloseClient, CancelOwn, DeadlinePasses,
         ReceiveFails
<1>4. QED BY <1>1, <1>2, <1>3 DEF TypeOK

(* Steps of a callback, of Rsvp and of the subscription keep the types. *)
LEMMA MessageStepTyped ==
    ASSUME TypeOK, NEW l \in Listeners, NEW m \in Messages, MessageNext(l, m)
    PROVE  TypeOK'
<1> USE DEF MessageNext, Deliver, CallbackStep, NackWhenClosed, CallHandler,
            ReturnUnanswered, RsvpStep, RsvpAck, RsvpNack, LeaseExpires
<1>1. ProviderTypeOK' /\ ListenerTypeOK'
  BY DEF TypeOK, ProviderTypeOK, ListenerTypeOK, providerVars, listenerVars
<1>2. MessageTypeOK'
  <2> USE DEF TypeOK, MessageTypeOK
  <2>1. lease' \in [Messages -> Listeners \union {NoOne}]
    BY DEF Release
  <2>2. acked' \in SUBSET Messages /\ handled' \in SUBSET Messages
    OBVIOUS
  <2>3. PICK v \in CallbackStates : cb' = [cb EXCEPT ![l][m] = v]
    BY DEF CallbackStates
  <2>4. cb' \in [Listeners -> [Messages -> CallbackStates]]
    BY <2>3
  <2>5. QED BY <2>1, <2>2, <2>4
<1>3. QED BY <1>1, <1>2 DEF TypeOK

(* Steps of Close keep the types. *)
LEMMA CloserStepTyped ==
    ASSUME TypeOK, NEW c \in Closers, CloserNext(c)
    PROVE  TypeOK'
<1> USE DEF CloserNext, SetClosed, CloseStep, LockForClose, CancelNext, FinishClose
<1>1. ProviderTypeOK'
  BY DEF TypeOK, ProviderTypeOK, CloserStates
<1>2. ListenerTypeOK'
  BY DEF TypeOK, ListenerTypeOK, listenerVars, Live
<1>3. MessageTypeOK'
  BY DEF TypeOK, MessageTypeOK, messageVars
<1>4. QED BY <1>1, <1>2, <1>3 DEF TypeOK

LEMMA TypedStep == TypeOK /\ [Next]_vars => TypeOK'
<1> SUFFICES ASSUME TypeOK, [Next]_vars PROVE TypeOK'
  OBVIOUS
<1>1. CASE Finished \/ UNCHANGED vars
  BY <1>1 DEF Finished, vars, providerVars, listenerVars, messageVars, TypeOK,
              ProviderTypeOK, ListenerTypeOK, MessageTypeOK
<1>2. QED BY <1>1, ListenerStepTyped, MessageStepTyped, CloserStepTyped DEF Next

(* The values of every variable stay in their types. *)
THEOREM TypeCorrect == Spec => []TypeOK
<1>1. TypeOK /\ [Next]_vars => TypeOK'
  BY TypedStep
<1>2. QED BY <1>1, InitTyped, PTL DEF Spec
-----------------------------------------------------------------------------
(***************************************************************************)
(* The inductive invariant.  EveryLiveListenerIsStoppable is not inductive *)
(* alone: that a Register cannot fall into a sweep needs the mutex to be   *)
(* held during the whole of it, that FinishClose loses no live listener    *)
(* needs the sweep to be over, and that no callback is left behind when    *)
(* the client is closed needs callbacks to run inside Receive only.        *)
(***************************************************************************)
MutexInv ==
    /\ \A c \in Closers : closer[c] = "sweeping" <=> mu = c
    /\ mu = NoOne => sweep = {}

FlagInv ==
    /\ \A c \in Closers : closer[c] # "idle" => closed
    /\ \A l \in Listeners : ctx[l] = "cancelled" => closed \/ pc[l] = "stopped"

ClientInv ==
    \A l \in Listeners :
        /\ pc[l] = "idle" => client[l] = "none"
        /\ pc[l] \in {"resolving", "registering", "spawned", "receiving", "closing"}
              => client[l] = "open"
        /\ pc[l] \in {"cancelling", "stopped", "failed"} => client[l] # "open"

CallbackInv ==
    \A l \in Listeners, m \in Messages :
        /\ cb[l][m] # "none" => pc[l] = "receiving"
        /\ cb[l][m] \in {"handling", "unanswered"} => m \in handled

IInv ==
    /\ TypeOK /\ MutexInv /\ EveryLiveListenerIsStoppable /\ FlagInv
    /\ ClientInv /\ CallbackInv /\ NothingLostUnhandled

LEMMA InitInv == Init => IInv
<1> SUFFICES ASSUME Init PROVE IInv
  OBVIOUS
<1>1. MutexInv /\ FlagInv
  BY NoOneAssumption DEF Init, MutexInv, FlagInv
<1>2. EveryLiveListenerIsStoppable
  BY DEF Init, EveryLiveListenerIsStoppable, Registered, Live
<1>3. ClientInv /\ CallbackInv /\ NothingLostUnhandled
  BY DEF Init, ClientInv, CallbackInv, NothingLostUnhandled
<1>4. QED BY <1>1, <1>2, <1>3, InitTyped DEF IInv

(* Mutual exclusion of Close calls, and the sweep inside it. *)
LEMMA MutexStep == IInv /\ [Next]_vars => MutexInv'
<1> SUFFICES ASSUME IInv, [Next]_vars PROVE MutexInv'
  OBVIOUS
<1> USE DEF IInv, MutexInv, TypeOK, ProviderTypeOK
<1>1. ASSUME NEW c \in Closers, SetClosed(c) PROVE MutexInv'
  BY <1>1 DEF SetClosed
<1>2. ASSUME NEW c \in Closers, LockForClose(c) PROVE MutexInv'
  BY <1>2, NoOneAssumption DEF LockForClose
<1>3. ASSUME NEW c \in Closers, NEW l \in Listeners, CancelNext(c, l)
      PROVE  MutexInv'
  BY <1>3 DEF CancelNext
<1>4. ASSUME NEW c \in Closers, FinishClose(c) PROVE MutexInv'
  BY <1>4, NoOneAssumption DEF FinishClose
<1>5. ASSUME NEW l \in Listeners, Register(l) PROVE MutexInv'
  BY <1>5 DEF Register
<1>6. ASSUME NEW l \in Listeners, ListenerNext(l), ~Register(l) PROVE MutexInv'
  BY <1>6 DEF ListenerNext, AddListenerStep, GoroutineStep, OpenClient,
       ResolveFails, CreateContext, StartReceive, ReceiveReturns, CloseClient,
       CancelOwn, DeadlinePasses, ReceiveFails, providerVars
<1>7. ASSUME NEW l \in Listeners, NEW m \in Messages, MessageNext(l, m)
      PROVE  MutexInv'
  BY <1>7 DEF MessageNext, Deliver, CallbackStep, NackWhenClosed, CallHandler,
       ReturnUnanswered, RsvpStep, RsvpAck, RsvpNack, LeaseExpires, providerVars
<1>8. CASE Finished \/ UNCHANGED vars
  BY <1>8 DEF Finished, vars, providerVars
<1>9. QED BY <1>1, <1>2, <1>3, <1>4, <1>5, <1>6, <1>7, <1>8
          DEF Next, CloserNext, CloseStep

(* No listener escapes: the heart of the argument. *)
LEMMA StoppableStep == IInv /\ [Next]_vars => EveryLiveListenerIsStoppable'
<1> SUFFICES ASSUME IInv, [Next]_vars PROVE EveryLiveListenerIsStoppable'
  OBVIOUS
<1> USE DEF IInv, EveryLiveListenerIsStoppable, Registered, Live, TypeOK,
            ProviderTypeOK, ListenerTypeOK
<1>1. ASSUME NEW c \in Closers, SetClosed(c) PROVE EveryLiveListenerIsStoppable'
  BY <1>1 DEF SetClosed, listenerVars
<1>2. ASSUME NEW c \in Closers, LockForClose(c)
      PROVE  EveryLiveListenerIsStoppable'
  \* The sweep starts with the whole of stopFns.
  BY <1>2 DEF LockForClose, listenerVars
<1>3. ASSUME NEW c \in Closers, NEW l \in Listeners, CancelNext(c, l)
      PROVE  EveryLiveListenerIsStoppable'
  \* The one that leaves the sweep is live no longer.
  BY <1>3 DEF CancelNext
<1>4. ASSUME NEW c \in Closers, FinishClose(c)
      PROVE  EveryLiveListenerIsStoppable'
  \* The mutex is held and the sweep is over, so no live listener is left.
  <2>1. mu # NoOne
    BY <1>4, NoOneAssumption DEF FinishClose, MutexInv
  <2>2. \A l \in Registered : ~Live(l)
    BY <1>4, <2>1 DEF FinishClose
  <2>3. QED BY <1>4, <2>2 DEF FinishClose, listenerVars
<1>5. ASSUME NEW l \in Listeners, Register(l) PROVE EveryLiveListenerIsStoppable'
  \* The mutex is free: no sweep is going on that could miss l.
  BY <1>5 DEF Register, Step
<1>6. ASSUME NEW l \in Listeners, CreateContext(l)
      PROVE  EveryLiveListenerIsStoppable'
  BY <1>6 DEF CreateContext, Step, providerVars
<1>7. ASSUME NEW l \in Listeners, OpenClient(l) \/ ResolveFails(l)
      PROVE  EveryLiveListenerIsStoppable'
  BY <1>7 DEF OpenClient, ResolveFails, Step, providerVars
<1>8. ASSUME NEW l \in Listeners,
             GoroutineStep(l) \/ DeadlinePasses(l) \/ ReceiveFails(l)
      PROVE  EveryLiveListenerIsStoppable'
  BY <1>8 DEF GoroutineStep, StartReceive, ReceiveReturns, CloseClient,
       CancelOwn, DeadlinePasses, ReceiveFails, Step, providerVars
<1>9. ASSUME NEW l \in Listeners, NEW m \in Messages, MessageNext(l, m)
      PROVE  EveryLiveListenerIsStoppable'
  BY <1>9 DEF MessageNext, Deliver, CallbackStep, NackWhenClosed, CallHandler,
       ReturnUnanswered, RsvpStep, RsvpAck, RsvpNack, LeaseExpires,
       providerVars, listenerVars
<1>10. CASE Finished \/ UNCHANGED vars
  BY <1>10 DEF Finished, vars, providerVars, listenerVars
<1>11. QED BY <1>1, <1>2, <1>3, <1>4, <1>5, <1>6, <1>7, <1>8, <1>9, <1>10
           DEF Next, ListenerNext, AddListenerStep, CloserNext, CloseStep

(* closed is stored before any cancel is called. *)
LEMMA FlagStep == IInv /\ [Next]_vars => FlagInv'
<1> SUFFICES ASSUME IInv, [Next]_vars PROVE FlagInv'
  OBVIOUS
<1> USE DEF IInv, FlagInv, TypeOK, ProviderTypeOK, ListenerTypeOK
<1>1. ASSUME NEW c \in Closers, CloserNext(c) PROVE FlagInv'
  BY <1>1 DEF CloserNext, SetClosed, CloseStep, LockForClose, CancelNext,
       FinishClose, listenerVars, Live
<1>2. ASSUME NEW l \in Listeners, AddListenerStep(l) PROVE FlagInv'
  BY <1>2 DEF AddListenerStep, OpenClient, ResolveFails, CreateContext, Register,
       Step, providerVars
<1>3. ASSUME NEW l \in Listeners,
             GoroutineStep(l) \/ DeadlinePasses(l) \/ ReceiveFails(l)
      PROVE  FlagInv'
  BY <1>3 DEF GoroutineStep, StartReceive, ReceiveReturns, CloseClient,
       CancelOwn, DeadlinePasses, ReceiveFails, Step, Live, providerVars
<1>4. ASSUME NEW l \in Listeners, NEW m \in Messages, MessageNext(l, m)
      PROVE  FlagInv'
  BY <1>4 DEF MessageNext, Deliver, CallbackStep, NackWhenClosed, CallHandler,
       ReturnUnanswered, RsvpStep, RsvpAck, RsvpNack, LeaseExpires,
       providerVars, listenerVars
<1>5. CASE Finished \/ UNCHANGED vars
  BY <1>5 DEF Finished, vars, providerVars, listenerVars
<1>6. QED BY <1>1, <1>2, <1>3, <1>4, <1>5 DEF Next, ListenerNext

(* The client is open exactly as long as somebody may still use it. *)
LEMMA ClientStep == IInv /\ [Next]_vars => ClientInv'
<1> SUFFICES ASSUME IInv, [Next]_vars PROVE ClientInv'
  OBVIOUS
<1> USE DEF IInv, ClientInv, TypeOK, ListenerTypeOK
<1>1. ASSUME NEW l \in Listeners, ListenerNext(l) PROVE ClientInv'
  <2>1. CASE OpenClient(l) \/ ResolveFails(l)
    BY <2>1 DEF OpenClient, ResolveFails, Step
  <2>2. CASE CreateContext(l) \/ Register(l) \/ StartReceive(l)
    BY <2>2 DEF CreateContext, Register, StartReceive, Step
  <2>3. CASE ReceiveReturns(l) \/ ReceiveFails(l) \/ DeadlinePasses(l)
    BY <2>3 DEF ReceiveReturns, ReceiveFails, DeadlinePasses, Step
  <2>4. CASE CloseClient(l) \/ CancelOwn(l)
    BY <2>4 DEF CloseClient, CancelOwn, Step
  <2>5. QED BY <1>1, <2>1, <2>2, <2>3, <2>4
            DEF ListenerNext, AddListenerStep, GoroutineStep
<1>2. ASSUME NEW l \in Listeners, NEW m \in Messages, MessageNext(l, m)
      PROVE  ClientInv'
  BY <1>2 DEF MessageNext, Deliver, CallbackStep, NackWhenClosed, CallHandler,
       ReturnUnanswered, RsvpStep, RsvpAck, RsvpNack, LeaseExpires, listenerVars
<1>3. ASSUME NEW c \in Closers, CloserNext(c) PROVE ClientInv'
  BY <1>3 DEF CloserNext, SetClosed, CloseStep, LockForClose, CancelNext,
       FinishClose, listenerVars
<1>4. CASE Finished \/ UNCHANGED vars
  BY <1>4 DEF Finished, vars, listenerVars
<1>5. QED BY <1>1, <1>2, <1>3, <1>4 DEF Next

(* What a step of one callback does to the table of callbacks. *)
LEMMA CallbackUpdate ==
    ASSUME MessageTypeOK, NEW l \in Listeners, NEW m \in Messages, NEW v,
           cb' = [cb EXCEPT ![l][m] = v]
    PROVE  \A k \in Listeners, n \in Messages :
              cb'[k][n] = IF k = l /\ n = m THEN v ELSE cb[k][n]
BY DEF MessageTypeOK

(* Callbacks run inside Receive, and only a handler can acknowledge. *)
LEMMA CallbackStepInv == IInv /\ [Next]_vars => (CallbackInv /\ NothingLostUnhandled)'
<1> SUFFICES ASSUME IInv, [Next]_vars
             PROVE  CallbackInv' /\ NothingLostUnhandled'
  OBVIOUS
<1> USE DEF IInv, CallbackInv, NothingLostUnhandled, TypeOK, ListenerTypeOK,
            MessageTypeOK
<1>1. ASSUME NEW l \in Listeners, ListenerNext(l)
      PROVE  CallbackInv' /\ NothingLostUnhandled'
  BY <1>1 DEF ListenerNext, AddListenerStep, OpenClient, ResolveFails,
       CreateContext, Register, GoroutineStep, StartReceive, ReceiveReturns,
       CloseClient, CancelOwn, DeadlinePasses, ReceiveFails, Step, Outstanding,
       messageVars
<1>2. ASSUME NEW l \in Listeners, NEW m \in Messages, MessageNext(l, m)
      PROVE  CallbackInv' /\ NothingLostUnhandled'
  <2> USE CallbackUpdate DEF listenerVars
  <2>1. CASE Deliver(l, m)
    BY <2>1 DEF Deliver
  <2>2. CASE CallHandler(l, m)
    BY <2>2 DEF CallHandler
  <2>3. CASE ReturnUnanswered(l, m)
    BY <2>3 DEF ReturnUnanswered
  <2>4. CASE NackWhenClosed(l, m)
    BY <2>4 DEF NackWhenClosed
  <2>5. CASE RsvpNack(l, m)
    BY <2>5 DEF RsvpNack
  <2>6. CASE RsvpAck(l, m)
    BY <2>6 DEF RsvpAck
  <2>7. CASE LeaseExpires(l, m)
    BY <2>7 DEF LeaseExpires
  <2>8. QED BY <1>2, <2>1, <2>2, <2>3, <2>4, <2>5, <2>6, <2>7
            DEF MessageNext, CallbackStep, RsvpStep
<1>3. ASSUME NEW c \in Closers, CloserNext(c)
      PROVE  CallbackInv' /\ NothingLostUnhandled'
  BY <1>3 DEF CloserNext, SetClosed, CloseStep, LockForClose, CancelNext,
       FinishClose, listenerVars, messageVars
<1>4. CASE Finished \/ UNCHANGED vars
  BY <1>4 DEF Finished, vars, listenerVars, messageVars
<1>5. QED BY <1>1, <1>2, <1>3, <1>4 DEF Next

LEMMA Invariant == Spec => []IInv
<1>1. TypeOK /\ [Next]_vars => TypeOK'
  BY TypedStep
<1>2. IInv /\ [Next]_vars => IInv'
  BY <1>1, MutexStep, StoppableStep, FlagStep, ClientStep, CallbackStepInv DEF IInv
<1>3. QED BY <1>2, InitInv, PTL DEF Spec
-----------------------------------------------------------------------------
(***************************************************************************)
(* The theorems.                                                           *)
(***************************************************************************)

(* A listener that may still receive is always within reach of Close. *)
THEOREM NoListenerEscapes == Spec => []EveryLiveListenerIsStoppable
BY Invariant, PTL DEF IInv

(* Callbacks and Rsvp find an open client; nothing that ended leaks one. *)
THEOREM ClientsReleased == Spec => []ClientLifecycle
<1>1. IInv => ClientLifecycle
  BY DEF IInv, ClientInv, CallbackInv, ClientLifecycle, Outstanding
<1>2. QED BY <1>1, Invariant, PTL

(* No message is acknowledged that no handler was given. *)
THEOREM AckedWereHandled == Spec => []NothingLostUnhandled
BY Invariant, PTL DEF IInv

(* A context that Close has cancelled implies closed, so the callback nacks. *)
THEOREM AcceptanceStopsAtCancel == Spec => NothingAcceptedAfterCancel
<1> DEFINE A == \A l \in Listeners, m \in Messages :
                   cb[l][m] = "called" /\ cb'[l][m] = "handling"
                       => ctx[l] # "cancelled"
<1>1. IInv /\ [Next]_vars => A
  <2> SUFFICES ASSUME IInv, [Next]_vars,
                      NEW l \in Listeners, NEW m \in Messages,
                      cb[l][m] = "called", cb'[l][m] = "handling"
               PROVE  ctx[l] # "cancelled"
    OBVIOUS
  <2>1. pc[l] = "receiving"
    BY DEF IInv, CallbackInv
  <2>2. ~closed
    <3> USE DEF IInv, TypeOK, MessageTypeOK
    <3>1. ASSUME NEW k \in Listeners, ListenerNext(k) PROVE cb' = cb
      BY <3>1 DEF ListenerNext, AddListenerStep, OpenClient, ResolveFails,
           CreateContext, Register, GoroutineStep, StartReceive, ReceiveReturns,
           CloseClient, CancelOwn, DeadlinePasses, ReceiveFails, messageVars
    <3>2. ASSUME NEW c \in Closers, CloserNext(c) PROVE cb' = cb
      BY <3>2 DEF CloserNext, SetClosed, CloseStep, LockForClose, CancelNext,
           FinishClose, messageVars
    <3>3. CASE Finished \/ UNCHANGED vars
      BY <3>3 DEF Finished, vars, messageVars
    <3>4. ASSUME NEW k \in Listeners, NEW n \in Messages, MessageNext(k, n)
          PROVE  CallHandler(k, n)
      BY <3>4 DEF MessageNext, Deliver, CallbackStep, NackWhenClosed,
           ReturnUnanswered, RsvpStep, RsvpAck, RsvpNack, LeaseExpires
    <3>5. QED BY <3>1, <3>2, <3>3, <3>4 DEF Next, CallHandler
  <2>3. QED BY <2>1, <2>2 DEF IInv, FlagInv
<1>2. IInv /\ [Next]_vars => [A]_vars
  BY <1>1
<1>3. QED BY <1>2, Invariant, PTL DEF Spec, NothingAcceptedAfterCancel

(* When Close returns, the contexts of all registered listeners are done. *)
THEOREM CloseCancelsEveryListener == Spec => CloseCancelsAll
<1> DEFINE A == \A c \in Closers :
                   closer[c] = "sweeping" /\ closer'[c] = "done"
                       => \A l \in Registered : ~Live(l)
<1>1. IInv /\ [Next]_vars => A
  <2> SUFFICES ASSUME IInv, [Next]_vars, NEW c \in Closers,
                      closer[c] = "sweeping", closer'[c] = "done"
               PROVE  \A l \in Registered : ~Live(l)
    OBVIOUS
  <2> USE DEF IInv, TypeOK, ProviderTypeOK
  <2>1. mu = c /\ mu # NoOne
    BY NoOneAssumption DEF MutexInv
  <2>2. sweep = {}
    <3>1. ASSUME NEW k \in Listeners, ListenerNext(k) PROVE closer' = closer
      BY <3>1 DEF ListenerNext, AddListenerStep, OpenClient, ResolveFails,
           CreateContext, Register, GoroutineStep, StartReceive, ReceiveReturns,
           CloseClient, CancelOwn, DeadlinePasses, ReceiveFails, providerVars
    <3>2. ASSUME NEW k \in Listeners, NEW m \in Messages, MessageNext(k, m)
          PROVE  closer' = closer
      BY <3>2 DEF MessageNext, Deliver, CallbackStep, NackWhenClosed, CallHandler,
           ReturnUnanswered, RsvpStep, RsvpAck, RsvpNack, LeaseExpires, providerVars
    <3>3. CASE Finished \/ UNCHANGED vars
      BY <3>3 DEF Finished, vars, providerVars
    <3>4. ASSUME NEW d \in Closers, CloserNext(d) PROVE FinishClose(d)
      BY <3>4 DEF CloserNext, SetClosed, CloseStep, LockForClose, CancelNext
    <3>5. QED BY <3>1, <3>2, <3>3, <3>4 DEF Next, FinishClose
  <2>3. QED BY <2>1, <2>2 DEF EveryLiveListenerIsStoppable
<1>2. IInv /\ [Next]_vars => [A]_vars
  BY <1>1
<1>3. QED BY <1>2, Invariant, PTL DEF Spec, CloseCancelsAll
-----------------------------------------------------------------------------
(***************************************************************************)
(* The provider implements ListenerGroup: Close, which cancels one         *)
(* listener after another while goroutines end, deadlines pass and other   *)
(* calls of AddListener and Close wait, is the single step CloseAll at the *)
(* moment it takes the mutex.                                              *)
(***************************************************************************)

(* A step that leaves registration, contexts, sweep and ends alone. *)
LEMMA GroupStutter ==
    ASSUME pc' = pc, ctx' = ctx, sweep' = sweep
    PROVE  UNCHANGED Group!groupVars
BY DEF Group!groupVars, Registered, Over, Released, Live

LEMMA AddListenerStepRefines ==
    ASSUME IInv, NEW l \in Listeners, AddListenerStep(l)
    PROVE  [Group!Next]_(Group!groupVars)
<1> USE DEF IInv, TypeOK, ProviderTypeOK, ListenerTypeOK, Step,
            Registered, Over, Released, Live
<1>1. CASE OpenClient(l) \/ ResolveFails(l)
  <2>1. UNCHANGED <<Registered, Over, Released>>
    BY <1>1 DEF OpenClient, ResolveFails, providerVars
  <2>2. QED BY <2>1 DEF Group!groupVars
<1>2. CASE CreateContext(l)
  <2>1. UNCHANGED <<Registered, Over, Released>>
    BY <1>2 DEF CreateContext, providerVars
  <2>2. QED BY <2>1 DEF Group!groupVars
<1>3. CASE Register(l)
  <2>1. l \notin Registered /\ Registered' = Registered \union {l}
    BY <1>3 DEF Register
  <2>2. Over' = Over \/ Over' = Over \union {l}
    BY <1>3 DEF Register
  <2>3. Released' = Released
    BY <1>3 DEF Register
  <2>4. Group!Join(l)
    BY <2>1, <2>2, <2>3 DEF Group!Join
  <2>5. QED BY <2>4 DEF Group!Next
<1>4. QED BY <1>1, <1>2, <1>3 DEF AddListenerStep

LEMMA GoroutineStepRefines ==
    ASSUME IInv, NEW l \in Listeners,
           GoroutineStep(l) \/ DeadlinePasses(l) \/ ReceiveFails(l)
    PROVE  [Group!Next]_(Group!groupVars)
<1> USE DEF IInv, TypeOK, ProviderTypeOK, ListenerTypeOK, Step,
            Registered, Over, Released, Live
<1>1. CASE StartReceive(l) \/ CancelOwn(l) \/ ReceiveReturns(l)
  <2>1. UNCHANGED <<Registered, Over, Released>>
    BY <1>1 DEF StartReceive, CancelOwn, ReceiveReturns, providerVars
  <2>2. QED BY <2>1 DEF Group!groupVars
<1>2. CASE DeadlinePasses(l) \/ ReceiveFails(l)
  <2>1. UNCHANGED <<Registered, Released>>
    BY <1>2 DEF DeadlinePasses, ReceiveFails, providerVars
  <2>2. \/ Over' = Over
        \/ l \in Registered \ Over /\ Over' = Over \union {l}
    <3>1. CASE l \in Registered \ Over
      BY <1>2, <3>1 DEF DeadlinePasses, ReceiveFails, providerVars
    <3>2. CASE l \notin Registered \ Over
      BY <1>2, <3>2 DEF DeadlinePasses, ReceiveFails, providerVars
    <3>3. QED BY <3>1, <3>2
  <2> HIDE DEF Registered, Over, Released
  <2>3. UNCHANGED <<Registered, Over, Released>> \/ Group!Leave(l)
    BY <2>1, <2>2 DEF Group!Leave
  <2>4. QED BY <2>3 DEF Group!Next, Group!groupVars
<1>3. CASE CloseClient(l)
  <2>1. UNCHANGED <<Registered, Over>>
    BY <1>3 DEF CloseClient, providerVars
  <2>2. l \in Over \ Released /\ Released' = Released \union {l}
    <3>1. pc[l] = "closing" /\ pc' = [pc EXCEPT ![l] = "cancelling"]
      BY <1>3 DEF CloseClient
    <3>2. l \in Over /\ l \notin Released
      BY <3>1
    <3>3. Released' = Released \union {l}
      BY <3>1
    <3>4. QED BY <3>2, <3>3
  <2>3. Group!Release(l)
    BY <2>1, <2>2 DEF Group!Release
  <2>4. QED BY <2>3 DEF Group!Next
<1>4. QED BY <1>1, <1>2, <1>3 DEF GoroutineStep

LEMMA CloserStepRefines ==
    ASSUME IInv, NEW c \in Closers, CloserNext(c)
    PROVE  [Group!Next]_(Group!groupVars)
<1>1. CASE SetClosed(c)
  BY <1>1, GroupStutter DEF SetClosed, listenerVars
<1>2. CASE LockForClose(c)
  <2>1. UNCHANGED <<Registered, Released>>
    BY <1>2 DEF LockForClose, listenerVars, Registered, Released
  <2>2. Over' = Registered
    BY <1>2 DEF LockForClose, listenerVars, Registered, Over, Live, IInv,
                EveryLiveListenerIsStoppable
  <2>3. Group!CloseAll
    BY <2>1, <2>2 DEF Group!CloseAll
  <2>4. QED BY <2>3 DEF Group!Next
<1>3. ASSUME NEW l \in Listeners, CancelNext(c, l)
      PROVE  [Group!Next]_(Group!groupVars)
  <2>1. UNCHANGED <<Registered, Over, Released>>
    BY <1>3 DEF CancelNext, Registered, Over, Released, Live, IInv, TypeOK,
                ListenerTypeOK
  <2>2. QED BY <2>1 DEF Group!groupVars
<1>4. CASE FinishClose(c)
  BY <1>4, GroupStutter DEF FinishClose, listenerVars
<1>5. QED BY <1>1, <1>2, <1>3, <1>4 DEF CloserNext, CloseStep

THEOREM ProviderImplementsGroup == Spec => Group!Spec
<1>1. Init => Group!Init
  BY DEF Init, Group!Init, Registered, Over, Released
<1>2. IInv /\ [Next]_vars => [Group!Next]_(Group!groupVars)
  <2> SUFFICES ASSUME IInv, [Next]_vars PROVE [Group!Next]_(Group!groupVars)
    OBVIOUS
  <2>1. ASSUME NEW l \in Listeners, NEW m \in Messages, MessageNext(l, m)
        PROVE  [Group!Next]_(Group!groupVars)
    <3>1. UNCHANGED <<pc, ctx, sweep>>
      BY <2>1 DEF MessageNext, Deliver, CallbackStep, NackWhenClosed, CallHandler,
           ReturnUnanswered, RsvpStep, RsvpAck, RsvpNack, LeaseExpires,
           providerVars, listenerVars
    <3>2. QED BY <3>1, GroupStutter
  <2>2. ASSUME NEW l \in Listeners, ListenerNext(l)
        PROVE  [Group!Next]_(Group!groupVars)
    BY <2>2, AddListenerStepRefines, GoroutineStepRefines DEF ListenerNext
  <2>3. CASE Finished \/ UNCHANGED vars
    BY <2>3, GroupStutter DEF Finished, vars, providerVars, listenerVars
  <2>4. QED BY <2>1, <2>2, <2>3, CloserStepRefines DEF Next
<1>3. QED BY <1>1, <1>2, Invariant, PTL DEF Spec, Group!Spec
=============================================================================
