---------------------------- MODULE PubSubReceive ----------------------------
(***************************************************************************)
(* Provider.Receive and Provider.ReceiveBatch (src/pubsub/pubsub.go) on    *)
(* one subscription.  Receive runs the client's Receive in a goroutine and *)
(* waits in a select for a message, an error or the end of its context;    *)
(* ReceiveBatch calls the client's Receive itself and collects messages in *)
(* the callback.  Each element of Singles and of Batchers is one call.     *)
(*                                                                         *)
(* External, modelled from how the code uses it: contexts, Go's select,    *)
(* and the client's Receive.  It runs the callback for at most             *)
(* MaxOutstandingMessages messages at a time, counting those not answered  *)
(* yet, and returns once its context is done, or an error came, and no     *)
(* message is outstanding.  Answers travel through the client: once it is  *)
(* closed they do not reach the service.                                   *)
(***************************************************************************)
EXTENDS Naturals, Sequences, FiniteSets

CONSTANTS Singles,      \* calls of Receive
          Batchers,     \* calls of ReceiveBatch
          Messages,
          BatchSize,    \* OptBatchSize, at least 1 after the clamp
          NoOne         \* the holder of a message that is not leased

Callers == Singles \union Batchers

ASSUME CallersAssumption == Singles \intersect Batchers = {} /\ NoOne \notin Callers
ASSUME BatchSizeAssumption == BatchSize \in Nat \ {0}

VARIABLES
    main,      \* where the calling goroutine is
    worker,    \* where the client's Receive of the call is
    ctx, client,
    msgChan,   \* Receive: the message channel, buffer of one
    errChan,   \* Receive: the error channel, buffer of one
    msgs,      \* what the call returns or has collected
    outcome,   \* how the call returned
    cb,        \* what the callback does with each message
    lease,     \* the call a message is leased to, or NoOne
    acked,     \* the messages acknowledged at the service
    taken,     \* history: the messages a call was given
    answered   \* history: the messages Rsvp(true) was called on, per call

callVars == <<main, worker, ctx, client, msgChan, errChan, msgs, outcome>>
serviceVars == <<cb, lease, acked>>
historyVars == <<taken, answered>>
vars == <<callVars, serviceVars, historyVars>>

Init ==
    /\ main = [c \in Callers |-> "idle"]
    /\ worker = [c \in Callers |-> "none"]
    /\ ctx = [c \in Callers |-> "none"]
    /\ client = [c \in Callers |-> "none"]
    /\ msgChan = [c \in Callers |-> <<>>]
    /\ errChan = [c \in Callers |-> <<>>]
    /\ msgs = [c \in Callers |-> <<>>]
    /\ outcome = [c \in Callers |-> "none"]
    /\ cb = [c \in Callers |-> [m \in Messages |-> "none"]]
    /\ lease = [m \in Messages |-> NoOne]
    /\ acked = {}
    /\ taken = [c \in Callers |-> {}]
    /\ answered = [c \in Callers |-> {}]

Live(c) == ctx[c] = "live"
Outstanding(c) == {m \in Messages : cb[c][m] # "none"}
MaxOutstanding(c) == IF c \in Singles THEN 1 ELSE BatchSize
Cancelled(c) == [ctx EXCEPT ![c] = IF @ = "live" THEN "cancelled" ELSE @]

(* The call returns; the deferred cancel and client.Close run. *)
Return(c, how) ==
    /\ main' = [main EXCEPT ![c] = "returned"]
    /\ outcome' = [outcome EXCEPT ![c] = how]
    /\ ctx' = Cancelled(c)
    /\ client' = [client EXCEPT ![c] = IF @ = "open" THEN "closed" ELSE @]
-----------------------------------------------------------------------------
(* Both calls: the client, the subscription and the context. *)

StartFails(c) ==
    /\ main[c] = "idle"
    /\ Return(c, "error")
    /\ UNCHANGED <<worker, msgChan, errChan, msgs, serviceVars, historyVars>>

(* Receive starts its goroutine and goes on to the select; ReceiveBatch is  *)
(* inside the client's Receive until that returns.                          *)
Start(c) ==
    /\ main[c] = "idle"
    /\ main' = [main EXCEPT ![c] = IF c \in Singles THEN "select" ELSE "inside"]
    /\ worker' = [worker EXCEPT ![c] = "receiving"]
    /\ ctx' = [ctx EXCEPT ![c] = "live"]
    /\ client' = [client EXCEPT ![c] = "open"]
    /\ UNCHANGED <<msgChan, errChan, msgs, outcome, serviceVars, historyVars>>
-----------------------------------------------------------------------------
(* Receive: the select. *)

(* Nothing is ready: the goroutine is parked until the first event. *)
Park(c) ==
    /\ main[c] = "select"
    /\ msgChan[c] = <<>> /\ errChan[c] = <<>> /\ Live(c)
    /\ main' = [main EXCEPT ![c] = "parked"]
    /\ UNCHANGED <<worker, ctx, client, msgChan, errChan, msgs, outcome,
                   serviceVars, historyVars>>

(* Of several ready cases any is taken. *)
SelectMessage(c) ==
    /\ main[c] = "select" /\ msgChan[c] # <<>>
    /\ msgs' = [msgs EXCEPT ![c] = <<Head(msgChan[c])>>]
    /\ msgChan' = [msgChan EXCEPT ![c] = Tail(@)]
    /\ Return(c, "ok")
    /\ UNCHANGED <<worker, errChan, serviceVars, historyVars>>

SelectError(c) ==
    /\ main[c] = "select" /\ errChan[c] # <<>>
    /\ errChan' = [errChan EXCEPT ![c] = Tail(@)]
    /\ Return(c, "error")
    /\ UNCHANGED <<worker, msgChan, msgs, serviceVars, historyVars>>

(* Mutant: the select does not look at the context. *)
MutantNoDoneCase(c) == main[c] = "select" /\ UNCHANGED vars

SelectDone(c) ==
    /\ main[c] \in {"select", "parked"} /\ ~Live(c)
    /\ Return(c, "timeout")
    /\ UNCHANGED <<worker, msgChan, errChan, msgs, serviceVars, historyVars>>
-----------------------------------------------------------------------------
(* The callback of Receive. *)

(* msgChan <- m: to a parked select directly, else into the buffer. *)
SendMessage(c, m) ==
    /\ c \in Singles /\ cb[c][m] = "called"
    /\ cb' = [cb EXCEPT ![c][m] = "sent"]
    /\ \/ /\ main[c] = "parked" /\ Live(c)
          /\ msgs' = [msgs EXCEPT ![c] = <<m>>]
          /\ Return(c, "ok")
          /\ UNCHANGED msgChan
       \/ /\ main[c] # "parked" \/ ~Live(c)
          /\ Len(msgChan[c]) < 1
          /\ msgChan' = [msgChan EXCEPT ![c] = Append(@, m)]
          /\ UNCHANGED <<main, ctx, client, msgs, outcome>>
    /\ UNCHANGED <<worker, errChan, lease, acked, historyVars>>

(* Mutant: the callback does not stop the Receive it runs in. *)
MutantNoCancel(c, m) ==
    /\ c \in Singles /\ cb[c][m] = "sent"
    /\ cb' = [cb EXCEPT ![c][m] = "unanswered"]
    /\ UNCHANGED <<callVars, lease, acked, historyVars>>

(* cancel(), and the callback returns with the message unanswered. *)
CancelAfterMessage(c, m) ==
    /\ c \in Singles /\ cb[c][m] = "sent"
    /\ ctx' = Cancelled(c)
    /\ cb' = [cb EXCEPT ![c][m] = "unanswered"]
    /\ UNCHANGED <<main, worker, client, msgChan, errChan, msgs, outcome, lease,
                   acked, historyVars>>

(* The goroutine behind Receive: nil ends it, an error goes to errChan. *)
WorkerEnds(c) ==
    /\ c \in Singles /\ worker[c] = "receiving"
    /\ ~Live(c) /\ Outstanding(c) = {}
    /\ worker' = [worker EXCEPT ![c] = "ended"]
    /\ UNCHANGED <<main, ctx, client, msgChan, errChan, msgs, outcome, serviceVars,
                   historyVars>>

WorkerFails(c) ==
    /\ c \in Singles /\ worker[c] = "receiving"
    /\ Outstanding(c) = {}
    /\ worker' = [worker EXCEPT ![c] = "reporting"]
    /\ UNCHANGED <<main, ctx, client, msgChan, errChan, msgs, outcome, serviceVars,
                   historyVars>>

(* Mutant: errChan has no buffer. *)
MutantUnbufferedError(c) ==
    /\ worker[c] = "reporting" /\ main[c] = "parked" /\ Live(c)
    /\ worker' = [worker EXCEPT ![c] = "ended"]
    /\ Return(c, "error")
    /\ UNCHANGED <<errChan, msgChan, msgs, serviceVars, historyVars>>

ReportError(c) ==
    /\ worker[c] = "reporting"
    /\ worker' = [worker EXCEPT ![c] = "ended"]
    /\ \/ /\ main[c] = "parked" /\ Live(c)
          /\ Return(c, "error")
          /\ UNCHANGED errChan
       \/ /\ main[c] # "parked" \/ ~Live(c)
          /\ Len(errChan[c]) < 1
          /\ errChan' = [errChan EXCEPT ![c] = Append(@, "error")]
          /\ UNCHANGED <<main, ctx, client, outcome>>
    /\ UNCHANGED <<msgChan, msgs, serviceVars, historyVars>>
-----------------------------------------------------------------------------
(* ReceiveBatch. *)

(* The callback, under its own mutex: append, and cancel when full. *)
Collect(c, m) ==
    /\ c \in Batchers /\ cb[c][m] = "called"
    /\ msgs' = [msgs EXCEPT ![c] = Append(@, m)]
    /\ ctx' = IF Len(msgs'[c]) >= BatchSize THEN Cancelled(c) ELSE ctx
    /\ cb' = [cb EXCEPT ![c][m] = "unanswered"]
    /\ UNCHANGED <<main, worker, client, msgChan, errChan, outcome, lease, acked,
                   historyVars>>

(* Mutant: the check for an empty batch is missing. *)
MutantReturnEmptyBatch(c) ==
    /\ c \in Batchers /\ main[c] = "inside"
    /\ ~Live(c) /\ Outstanding(c) = {}
    /\ worker' = [worker EXCEPT ![c] = "ended"]
    /\ Return(c, "ok")
    /\ UNCHANGED <<msgChan, errChan, msgs, serviceVars, historyVars>>

(* The client's Receive returns: nil, or an error with the context done.   *)
BatchReturns(c) ==
    /\ c \in Batchers /\ main[c] = "inside"
    /\ ~Live(c) /\ Outstanding(c) = {}
    /\ worker' = [worker EXCEPT ![c] = "ended"]
    /\ Return(c, IF msgs[c] = <<>> THEN "timeout" ELSE "ok")
    /\ UNCHANGED <<msgChan, errChan, msgs, serviceVars, historyVars>>

(* An error while the context is live: what was collected is dropped. *)
BatchFails(c) ==
    /\ c \in Batchers /\ main[c] = "inside"
    /\ Live(c) /\ Outstanding(c) = {}
    /\ worker' = [worker EXCEPT ![c] = "ended"]
    /\ msgs' = [msgs EXCEPT ![c] = <<>>]
    /\ Return(c, "error")
    /\ UNCHANGED <<msgChan, errChan, serviceVars, historyVars>>
-----------------------------------------------------------------------------
(* The subscription, the timer of context.WithTimeout, and the answers. *)

(* Mutant: MaxOutstandingMessages is left at the client's default. *)
MutantDeliverUnlimited(c, m) ==
    /\ worker[c] = "receiving" /\ Live(c)
    /\ m \notin acked /\ lease[m] = NoOne /\ cb[c][m] = "none"
    /\ cb' = [cb EXCEPT ![c][m] = "called"]
    /\ lease' = [lease EXCEPT ![m] = c]
    /\ taken' = [taken EXCEPT ![c] = @ \union {m}]
    /\ UNCHANGED <<callVars, acked, answered>>

Deliver(c, m) ==
    /\ worker[c] = "receiving" /\ Live(c)
    /\ m \notin acked /\ lease[m] = NoOne /\ cb[c][m] = "none"
    /\ Cardinality(Outstanding(c)) < MaxOutstanding(c)
    /\ cb' = [cb EXCEPT ![c][m] = "called"]
    /\ lease' = [lease EXCEPT ![m] = c]
    /\ taken' = [taken EXCEPT ![c] = @ \union {m}]
    /\ UNCHANGED <<callVars, acked, answered>>

DeadlinePasses(c) ==
    /\ Live(c)
    /\ ctx' = [ctx EXCEPT ![c] = "expired"]
    /\ UNCHANGED <<main, worker, client, msgChan, errChan, msgs, outcome,
                   serviceVars, historyVars>>

(* MaxExtension is over, or the service has heard nothing of the client. *)
LeaseExpires(c, m) ==
    /\ lease[m] = c
    /\ cb[c][m] \in {"none", "unanswered"}
    /\ lease' = [lease EXCEPT ![m] = NoOne]
    /\ cb' = [cb EXCEPT ![c][m] = "none"]
    /\ UNCHANGED <<callVars, acked, taken, answered>>

(* The caller has the message and calls Rsvp(true): the client counts it   *)
(* as answered; the service hears of it if the client is still open.       *)
RsvpAck(c, m) ==
    /\ outcome[c] = "ok" /\ m \notin answered[c]
    /\ \E i \in 1..Len(msgs[c]) : msgs[c][i] = m
    /\ answered' = [answered EXCEPT ![c] = @ \union {m}]
    /\ cb' = [cb EXCEPT ![c][m] = IF @ = "unanswered" THEN "none" ELSE @]
    /\ IF client[c] = "open" /\ lease[m] = c
       THEN /\ acked' = acked \union {m}
            /\ lease' = [lease EXCEPT ![m] = NoOne]
       ELSE UNCHANGED <<acked, lease>>
    /\ UNCHANGED <<callVars, taken>>

(* Rsvp(false), in the same way. *)
RsvpNack(c, m) ==
    /\ outcome[c] = "ok" /\ cb[c][m] = "unanswered"
    /\ \E i \in 1..Len(msgs[c]) : msgs[c][i] = m
    /\ cb' = [cb EXCEPT ![c][m] = "none"]
    /\ lease' = [lease EXCEPT ![m] = IF client[c] = "open" /\ @ = c THEN NoOne ELSE @]
    /\ UNCHANGED <<callVars, acked, historyVars>>
-----------------------------------------------------------------------------
SelectStep(c) == Park(c) \/ SelectMessage(c) \/ SelectError(c) \/ SelectDone(c)
WorkerStep(c) == WorkerEnds(c) \/ ReportError(c) \/ BatchReturns(c)
CallbackStep(c, m) == SendMessage(c, m) \/ CancelAfterMessage(c, m) \/ Collect(c, m)

Finished ==
    /\ \A c \in Callers : main[c] = "returned" /\ worker[c] # "receiving"
    /\ UNCHANGED vars

Next ==
    \/ \E c \in Callers :
          \/ Start(c) \/ StartFails(c) \/ SelectStep(c) \/ WorkerStep(c)
          \/ WorkerFails(c) \/ BatchFails(c) \/ DeadlinePasses(c)
    \/ \E c \in Callers, m \in Messages :
          CallbackStep(c, m) \/ Deliver(c, m) \/ LeaseExpires(c, m)
          \/ RsvpAck(c, m) \/ RsvpNack(c, m)
    \/ Finished

Spec == Init /\ [][Next]_vars

(* Goroutines are scheduled, timers fire and leases run out; no message    *)
(* has to come, and nobody has to call or to answer.                       *)
Fairness ==
    \A c \in Callers :
      /\ WF_vars(SelectStep(c)) /\ WF_vars(WorkerStep(c)) /\ WF_vars(DeadlinePasses(c))
      /\ \A m \in Messages : /\ WF_vars(CallbackStep(c, m))
                             /\ WF_vars(LeaseExpires(c, m))

FairSpec == Spec /\ Fairness
-----------------------------------------------------------------------------
TypeOK ==
    /\ main \in [Callers -> {"idle", "select", "parked", "inside", "returned"}]
    /\ worker \in [Callers -> {"none", "receiving", "reporting", "ended"}]
    /\ ctx \in [Callers -> {"none", "live", "cancelled", "expired"}]
    /\ client \in [Callers -> {"none", "open", "closed"}]
    /\ msgChan \in [Callers -> Seq(Messages)] /\ msgs \in [Callers -> Seq(Messages)]
    /\ errChan \in [Callers -> Seq({"error"})]
    /\ \A c \in Callers :
         /\ Len(msgChan[c]) <= 1 /\ Len(errChan[c]) <= 1
         /\ outcome[c] = "ok" => msgs[c] # <<>>
         /\ c \in Singles => Len(msgs[c]) <= 1
    /\ outcome \in [Callers -> {"none", "ok", "error", "timeout"}]
    /\ cb \in [Callers -> [Messages -> {"none", "called", "sent", "unanswered"}]]
    /\ lease \in [Messages -> Callers \union {NoOne}]
    /\ acked \in SUBSET Messages
    /\ taken \in [Callers -> SUBSET Messages]
    /\ answered \in [Callers -> SUBSET Messages]

(* The callback of Receive never waits on msgChan (l.202-213): there is    *)
(* one callback at a time, and the context is done before it returns.  A   *)
(* callback that waits would keep the goroutine and the client for ever.   *)
CallbackNeverBlocks ==
    \A c \in Singles, m \in Messages : cb[c][m] = "called" => msgChan[c] = <<>>

(* Receive takes one message from the subscription at most, whether it     *)
(* returns it or a timeout or an error: what it takes and does not return  *)
(* is out of everybody's reach until its lease runs out.                   *)
ReceiveTakesOne == \A c \in Singles : Cardinality(taken[c]) <= 1

(* Each call returns, with a message, an error or a timeout. *)
CallsReturn == \A c \in Callers : main[c] # "idle" ~> main[c] = "returned"

(* The goroutine of Receive ends too, also when the call returned first.   *)
WorkersEnd == \A c \in Callers : worker[c] = "receiving" ~> worker[c] = "ended"

(* What the comments of Receive and ReceiveBatch promise (l.180, 233): the *)
(* caller acknowledges a message by Rsvp(true), if its lease still runs.   *)
RsvpAcknowledges ==
    [][\A c \in Callers : \A m \in answered'[c] \ answered[c] :
          lease[m] = c => m \in acked']_vars
=============================================================================
