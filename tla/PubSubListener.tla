--------------------------- MODULE PubSubListener ---------------------------
(***************************************************************************)
(* The listeners of a Pub/Sub provider: Provider.AddListener, the          *)
(* goroutine each call starts, the callback sub.Receive runs for each      *)
(* message, Rsvp, and Provider.Close (src/pubsub/pubsub.go,                *)
(* src/pubsub/pubsub_message.go).  All listeners pull from one             *)
(* subscription.  Each element of Listeners stands for one call of         *)
(* AddListener, each element of Closers for one call of Close.             *)
(*                                                                         *)
(* External, modelled from how the code uses it: the context package and   *)
(* its timers, sync.Mutex, and the client's Receive, which runs the        *)
(* callback for each message leased to it, and which returns when its      *)
(* context is done (or on an error it cannot retry) once no message is     *)
(* outstanding.                                                            *)
(***************************************************************************)
EXTENDS Naturals, FiniteSets

CONSTANTS Listeners, Closers, Messages,
          MaxOutstanding,   \* OptMaxOutstandingMessages, sub.ReceiveSettings
          NoOne             \* the holder of a free mutex, of an unleased message

ASSUME NoOneAssumption == NoOne \notin Closers /\ NoOne \notin Listeners
ASSUME MaxOutstandingAssumption == MaxOutstanding \in Nat \ {0}

VARIABLES
    closed,    \* Provider.closed
    mu,        \* the Close call that holds Provider.mu, or NoOne
    stopFns,   \* Provider.stopFns: the listeners whose cancel is in it
    sweep,     \* the cancels the loop of Close has still to call
    closer,    \* where each call of Close is
    pc,        \* where each AddListener call, then its goroutine, is
    timeout,   \* OptTimeout of each listener
    ctx,       \* the context of each listener
    client,    \* the Pub/Sub client of each listener
    cb,        \* what the listener's callback does with each message
    lease,     \* the listener a message is leased to, or NoOne
    acked,     \* the messages acknowledged for good
    handled    \* history: the messages accepted for some handler

providerVars == <<closed, mu, stopFns, sweep, closer>>
listenerVars == <<pc, timeout, ctx, client>>
messageVars  == <<cb, lease, acked, handled>>
vars == <<providerVars, listenerVars, messageVars>>
-----------------------------------------------------------------------------
CloserStates == {"idle", "flagged", "sweeping", "done"}
ListenerStates == {"idle", "resolving", "registering", "spawned", "receiving",
                   "closing", "cancelling", "stopped", "failed"}
CallbackStates == {"none", "called", "handling", "unanswered"}

(* The call of AddListener has appended its cancel function. *)
Registered == {l \in Listeners : pc[l] \in {"spawned", "receiving", "closing",
                                            "cancelling", "stopped"}}
Outstanding(l) == {m \in Messages : cb[l][m] # "none"}
Live(l) == ctx[l] = "live"

Init ==
    /\ closed = FALSE /\ mu = NoOne /\ stopFns = {} /\ sweep = {}
    /\ closer = [c \in Closers |-> "idle"]
    /\ pc = [l \in Listeners |-> "idle"]
    /\ timeout = [l \in Listeners |-> "unset"]
    /\ ctx = [l \in Listeners |-> "none"]
    /\ client = [l \in Listeners |-> "none"]
    /\ cb = [l \in Listeners |-> [m \in Messages |-> "none"]]
    /\ lease = [m \in Messages |-> NoOne]
    /\ acked = {} /\ handled = {}

Step(l, from, to) == pc[l] = from /\ pc' = [pc EXCEPT ![l] = to]
-----------------------------------------------------------------------------
(* AddListener, up to the go statement. *)

(* getPubSubClient: an open client, or an error and nothing to release. *)
OpenClient(l) ==
    /\ \/ /\ Step(l, "idle", "resolving")
          /\ client' = [client EXCEPT ![l] = "open"]
       \/ /\ Step(l, "idle", "failed")
          /\ UNCHANGED client
    /\ UNCHANGED <<providerVars, timeout, ctx, messageVars>>

(* Mutant: the error path forgets to close the client. *)
MutantResolveFailsLeaks(l) ==
    /\ Step(l, "resolving", "failed")
    /\ UNCHANGED <<providerVars, timeout, ctx, client, messageVars>>

(* resolveSubscriber fails: the client is closed before the error returns. *)
ResolveFails(l) ==
    /\ Step(l, "resolving", "failed")
    /\ client' = [client EXCEPT ![l] = "closed"]
    /\ UNCHANGED <<providerVars, timeout, ctx, messageVars>>

(* A context without deadline, or one whose deadline is OptTimeout seconds *)
(* away: with 0 seconds it is over the moment it is made.                  *)
CreateContext(l) ==
    /\ Step(l, "resolving", "registering")
    /\ \E t \in {"unset", "zero", "positive"} :
         /\ timeout' = [timeout EXCEPT ![l] = t]
         /\ ctx' = [ctx EXCEPT ![l] = IF t = "zero" THEN "expired" ELSE "live"]
    /\ UNCHANGED <<providerVars, client, messageVars>>

(* Mutant: the append is not guarded by the mutex. *)
MutantRegisterUnlocked(l) ==
    /\ Step(l, "registering", "spawned")
    /\ stopFns' = stopFns \union {l}
    /\ UNCHANGED <<closed, mu, sweep, closer, timeout, ctx, client, messageVars>>

(* Lock, append, Unlock.  AddListener never looks at closed. *)
Register(l) ==
    /\ mu = NoOne
    /\ Step(l, "registering", "spawned")
    /\ stopFns' = stopFns \union {l}
    /\ UNCHANGED <<closed, mu, sweep, closer, timeout, ctx, client, messageVars>>
-----------------------------------------------------------------------------
(* The listener's goroutine. *)

StartReceive(l) ==
    /\ Step(l, "spawned", "receiving")
    /\ UNCHANGED <<providerVars, timeout, ctx, client, messageVars>>

(* The timer of a context made with a positive timeout fires. *)
DeadlinePasses(l) ==
    /\ timeout[l] = "positive" /\ Live(l)
    /\ ctx' = [ctx EXCEPT ![l] = "expired"]
    /\ UNCHANGED <<providerVars, pc, timeout, client, messageVars>>

(* Mutant: Receive is given a context that nobody cancels. *)
MutantReceiveUncancelled(l) == pc[l] = "receiving" /\ UNCHANGED vars

(* Receive returns nil once its context is done and nothing is outstanding. *)
ReceiveReturns(l) ==
    /\ ~Live(l) /\ Outstanding(l) = {}
    /\ Step(l, "receiving", "closing")
    /\ UNCHANGED <<providerVars, timeout, ctx, client, messageVars>>

(* Receive gives up on an error it cannot retry; the error is only logged. *)
ReceiveFails(l) ==
    /\ Live(l) /\ Outstanding(l) = {}
    /\ Step(l, "receiving", "closing")
    /\ UNCHANGED <<providerVars, timeout, ctx, client, messageVars>>

(* The deferred calls, last in first out: the client, then cancel. *)
CloseClient(l) ==
    /\ Step(l, "closing", "cancelling")
    /\ client' = [client EXCEPT ![l] = "closed"]
    /\ UNCHANGED <<providerVars, timeout, ctx, messageVars>>

CancelOwn(l) ==
    /\ Step(l, "cancelling", "stopped")
    /\ ctx' = [ctx EXCEPT ![l] = IF Live(l) THEN "cancelled" ELSE @]
    /\ UNCHANGED <<providerVars, timeout, client, messageVars>>
-----------------------------------------------------------------------------
(* The callback of Receive, and the subscription behind it. *)

Deliver(l, m) ==
    /\ pc[l] = "receiving" /\ Live(l)
    /\ m \notin acked /\ lease[m] = NoOne /\ cb[l][m] = "none"
    /\ Cardinality(Outstanding(l)) < MaxOutstanding
    /\ cb' = [cb EXCEPT ![l][m] = "called"]
    /\ lease' = [lease EXCEPT ![m] = l]
    /\ UNCHANGED <<providerVars, listenerVars, acked, handled>>

(* Giving a lease up has an effect only while l still holds it. *)
Release(l, m) == lease' = [lease EXCEPT ![m] = IF @ = l THEN NoOne ELSE @]

(* Mutant: the callback acks what it does not hand to the handler. *)
MutantAckWhenClosed(l, m) ==
    /\ cb[l][m] = "called" /\ closed
    /\ cb' = [cb EXCEPT ![l][m] = "none"]
    /\ acked' = acked \union {m}
    /\ Release(l, m)
    /\ UNCHANGED <<providerVars, listenerVars, handled>>

(* p.closed.Load() is true: Nack, and the handler is not called. *)
NackWhenClosed(l, m) ==
    /\ cb[l][m] = "called" /\ closed
    /\ cb' = [cb EXCEPT ![l][m] = "none"]
    /\ Release(l, m)
    /\ UNCHANGED <<providerVars, listenerVars, acked, handled>>

(* p.closed.Load() is false: the callback is bound to call                 *)
(* listener(p.toMessage(m)), now or once it is scheduled again; "handling" *)
(* says that it has passed the check, not that the handler has begun.      *)
CallHandler(l, m) ==
    /\ cb[l][m] = "called" /\ ~closed
    /\ cb' = [cb EXCEPT ![l][m] = "handling"]
    /\ handled' = handled \union {m}
    /\ UNCHANGED <<providerVars, listenerVars, lease, acked>>

(* Rsvp(true), by the handler or by whoever kept the message after it. *)
RsvpAck(l, m) ==
    /\ cb[l][m] \in {"handling", "unanswered"}
    /\ cb' = [cb EXCEPT ![l][m] = "none"]
    /\ acked' = IF lease[m] = l THEN acked \union {m} ELSE acked
    /\ Release(l, m)
    /\ UNCHANGED <<providerVars, listenerVars, handled>>

(* Rsvp(false). *)
RsvpNack(l, m) ==
    /\ cb[l][m] \in {"handling", "unanswered"}
    /\ cb' = [cb EXCEPT ![l][m] = "none"]
    /\ Release(l, m)
    /\ UNCHANGED <<providerVars, listenerVars, acked, handled>>

(* The handler returns without an answer: nothing acks on its behalf. *)
ReturnUnanswered(l, m) ==
    /\ cb[l][m] = "handling"
    /\ cb' = [cb EXCEPT ![l][m] = "unanswered"]
    /\ UNCHANGED <<providerVars, listenerVars, lease, acked, handled>>

(* MaxExtension is over: the message goes back to the subscription, and    *)
(* Receive waits for it no longer unless its callback still runs.          *)
LeaseExpires(l, m) ==
    /\ lease[m] = l \/ cb[l][m] = "unanswered"
    /\ Release(l, m)
    /\ cb' = [cb EXCEPT ![l][m] = IF @ = "unanswered" THEN "none" ELSE @]
    /\ UNCHANGED <<providerVars, listenerVars, acked, handled>>
-----------------------------------------------------------------------------
(* Close. *)

(* Mutant: closed is set only after the cancels. *)
MutantLockBeforeFlag(c) ==
    /\ closer[c] = "idle"
    /\ closer' = [closer EXCEPT ![c] = "flagged"]
    /\ UNCHANGED <<closed, mu, stopFns, sweep, listenerVars, messageVars>>

SetClosed(c) ==
    /\ closer[c] = "idle"
    /\ closer' = [closer EXCEPT ![c] = "flagged"]
    /\ closed' = TRUE
    /\ UNCHANGED <<mu, stopFns, sweep, listenerVars, messageVars>>

(* Mutant: Close forgets stopFns before its loop has called them. *)
MutantForgetFirst(c) ==
    /\ closer[c] = "flagged" /\ mu = NoOne
    /\ closer' = [closer EXCEPT ![c] = "sweeping"]
    /\ mu' = c
    /\ sweep' = stopFns /\ stopFns' = {}
    /\ UNCHANGED <<closed, listenerVars, messageVars>>

LockForClose(c) ==
    /\ closer[c] = "flagged" /\ mu = NoOne
    /\ closer' = [closer EXCEPT ![c] = "sweeping"]
    /\ mu' = c
    /\ sweep' = stopFns
    /\ UNCHANGED <<closed, stopFns, listenerVars, messageVars>>

(* One iteration of the loop; the order of the cancels is left open. *)
CancelNext(c, l) ==
    /\ closer[c] = "sweeping" /\ l \in sweep
    /\ sweep' = sweep \ {l}
    /\ ctx' = [ctx EXCEPT ![l] = IF Live(l) THEN "cancelled" ELSE @]
    /\ UNCHANGED <<closed, mu, stopFns, closer, pc, timeout, client, messageVars>>

(* Mutant: Close drops the list after the first cancels it happens to call. *)
MutantFinishEarly(c) ==
    /\ closer[c] = "sweeping"
    /\ closer' = [closer EXCEPT ![c] = "done"]
    /\ stopFns' = {} /\ sweep' = {}
    /\ mu' = NoOne
    /\ UNCHANGED <<closed, listenerVars, messageVars>>

(* Mutant: the deferred Unlock is missing. *)
MutantNoUnlock(c) ==
    /\ closer[c] = "sweeping" /\ sweep = {}
    /\ closer' = [closer EXCEPT ![c] = "done"]
    /\ stopFns' = {}
    /\ UNCHANGED <<closed, mu, sweep, listenerVars, messageVars>>

(* p.stopFns = nil, the deferred Unlock, and the return. *)
FinishClose(c) ==
    /\ closer[c] = "sweeping" /\ sweep = {}
    /\ closer' = [closer EXCEPT ![c] = "done"]
    /\ stopFns' = {}
    /\ mu' = NoOne
    /\ UNCHANGED <<closed, sweep, listenerVars, messageVars>>
-----------------------------------------------------------------------------
(* Every call has returned and every goroutine has ended. *)
Finished ==
    /\ \A l \in Listeners : pc[l] \in {"stopped", "failed"}
    /\ \A c \in Closers : closer[c] = "done"
    /\ UNCHANGED vars

AddListenerStep(l) ==
    OpenClient(l) \/ ResolveFails(l) \/ CreateContext(l) \/ Register(l)
GoroutineStep(l) ==
    StartReceive(l) \/ ReceiveReturns(l) \/ CloseClient(l) \/ CancelOwn(l)
CallbackStep(l, m) ==
    NackWhenClosed(l, m) \/ CallHandler(l, m) \/ ReturnUnanswered(l, m)
RsvpStep(l, m) == RsvpAck(l, m) \/ RsvpNack(l, m)
CloseStep(c) ==
    LockForClose(c) \/ FinishClose(c) \/ \E l \in Listeners : CancelNext(c, l)

ListenerNext(l) ==
    \/ AddListenerStep(l) \/ GoroutineStep(l)
    \/ DeadlinePasses(l) \/ ReceiveFails(l)
MessageNext(l, m) ==
    Deliver(l, m) \/ CallbackStep(l, m) \/ RsvpStep(l, m) \/ LeaseExpires(l, m)
CloserNext(c) == SetClosed(c) \/ CloseStep(c)

Next ==
    \/ \E l \in Listeners : ListenerNext(l)
    \/ \E l \in Listeners, m \in Messages : MessageNext(l, m)
    \/ \E c \in Closers : CloserNext(c)
    \/ Finished

Spec == Init /\ [][Next]_vars

(* Goroutines are scheduled, timers fire, leases run out and handlers      *)
(* return.  Nobody has to call AddListener or Close, no message has to     *)
(* arrive, and no handler has to answer.                                   *)
Fairness ==
    /\ \A l \in Listeners :
         /\ WF_vars(Register(l)) /\ WF_vars(GoroutineStep(l))
         /\ WF_vars(DeadlinePasses(l))
         /\ \A m \in Messages :
              /\ WF_vars(CallbackStep(l, m))
              /\ WF_vars(LeaseExpires(l, m) /\ cb[l][m] = "unanswered")
    /\ \A c \in Closers : WF_vars(CloseStep(c))

FairSpec == Spec /\ Fairness
-----------------------------------------------------------------------------
(* Type invariant. *)
ProviderTypeOK ==
    /\ closed \in BOOLEAN
    /\ mu \in Closers \union {NoOne}
    /\ stopFns \in SUBSET Listeners
    /\ sweep \in SUBSET stopFns
    /\ closer \in [Closers -> CloserStates]

ListenerTypeOK ==
    /\ pc \in [Listeners -> ListenerStates]
    /\ timeout \in [Listeners -> {"unset", "zero", "positive"}]
    /\ ctx \in [Listeners -> {"none", "live", "cancelled", "expired"}]
    /\ client \in [Listeners -> {"none", "open", "closed"}]

MessageTypeOK ==
    /\ cb \in [Listeners -> [Messages -> CallbackStates]]
    /\ lease \in [Messages -> Listeners \union {NoOne}]
    /\ acked \in SUBSET Messages
    /\ handled \in SUBSET Messages

TypeOK == ProviderTypeOK /\ ListenerTypeOK /\ MessageTypeOK

(* No listener escapes Close (l.324-326, 353-358): while a registered      *)
(* listener may still receive, its cancel is in stopFns, where the next    *)
(* Close finds it, and a sweep in progress has not passed it by.  It       *)
(* breaks when the append of AddListener slips between the loop and the    *)
(* reset of stopFns.                                                       *)
EveryLiveListenerIsStoppable ==
    \A l \in Registered :
        Live(l) => /\ l \in stopFns
                   /\ mu # NoOne => l \in sweep

(* While a callback runs or an answer is owed, the client Rsvp goes        *)
(* through is open, and a call or goroutine that has ended has released    *)
(* its client, on the error paths too (l.304, 330).                        *)
ClientLifecycle ==
    \A l \in Listeners :
        /\ Outstanding(l) # {} => client[l] = "open"
        /\ pc[l] \in {"stopped", "failed"} => client[l] # "open"

(* No message is acknowledged unless a handler was given it: the callback  *)
(* of a closed provider hands its messages back (l.334-337).               *)
NothingLostUnhandled == acked \subseteq handled

(* After Close has cancelled a listener's context, no callback of that     *)
(* listener decides for its handler any more, although callbacks of        *)
(* messages pulled before may still begin: closed is stored before the     *)
(* first cancel (l.352, 356).  A callback that passed the check before may *)
(* still enter the handler afterwards (l.334-338).                         *)
NothingAcceptedAfterCancel ==
    [][\A l \in Listeners, m \in Messages :
          cb[l][m] = "called" /\ cb'[l][m] = "handling" => ctx[l] # "cancelled"]_vars

(* When Close returns, every listener registered by then has its context   *)
(* done, whatever AddListener and other Close calls do meanwhile (comment  *)
(* l.350).                                                                 *)
CloseCancelsAll ==
    [][\A c \in Closers :
          closer[c] = "sweeping" /\ closer'[c] = "done"
              => \A l \in Registered : ~Live(l)]_vars

(* The provider implements ListenerGroup.  A listener is over once its     *)
(* context is done, once the loop of a Close is bound to reach it, or once *)
(* its Receive has returned: the moment a Close takes the mutex is the     *)
(* moment it reaches all of them.                                          *)
Over == {l \in Registered : \/ ~Live(l)
                            \/ l \in sweep
                            \/ pc[l] \in {"closing", "cancelling", "stopped"}}
Released == {l \in Registered : pc[l] \in {"cancelling", "stopped"}}

Group == INSTANCE ListenerGroup
            WITH joined <- Registered, over <- Over, released <- Released

(* Every step of the provider is a step of the group or none, and a        *)
(* listener that is over releases its client in the end.                   *)
ImplementsGroup == Group!FairSpec

(* A listener that is over - closed, out of time or failed - ends its      *)
(* goroutine, provided handlers return (the README of pubsub, "Graceful    *)
(* Shutdown", l.456-470; pubsub.go l.328-345).                             *)
OverListenersStop == \A l \in Listeners : l \in Over ~> pc[l] = "stopped"

(* Close always comes back: it waits for the mutex only, never for a       *)
(* listener or its handlers (l.351-360).                                   *)
CloseReturns == \A c \in Closers : closer[c] = "flagged" ~> closer[c] = "done"

(* What the comments at l.291 and l.350 and the README (Graceful Shutdown) *)
(* promise: Close stops the provider's listeners, one whose AddListener    *)
(* call runs at the same time included.                                    *)
CloseStopsListeners ==
    \A l \in Listeners, c \in Closers :
        closer[c] = "flagged" /\ pc[l] = "registering" ~> pc[l] = "stopped"

(* What the comment at l.293 promises of OptTimeout: 0 is indefinite.      *)
ZeroTimeoutIsIndefinite ==
    \A l \in Listeners : timeout[l] = "zero" => ctx[l] # "expired"
=============================================================================
