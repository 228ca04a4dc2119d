---------------------------- MODULE PubSubPublish ----------------------------
(***************************************************************************)
(* Publishing with src/pubsub: Send and SendBatch of a Provider, from the  *)
(* lookup of the configuration (GcpConfig) to the return of the call, the  *)
(* messages with the headers they carry, and the topics behind it.         *)
(*                                                                         *)
(* Publish only queues a message; the client library sends the queue in    *)
(* bundles, whose results may come in any order, fail, or be lost after    *)
(* the messages were stored.  With an ordering key the library sends one   *)
(* bundle after the other and fails everything behind a failed one.        *)
(*                                                                         *)
(* A topic is abstracted to the sequence of all stored messages; the id    *)
(* the service assigns is the place in it.  Bodies are left out.  Tracking *)
(* a header as text is the conversion Text.                                *)
(*                                                                         *)
(* External: the client library with its publisher, the service, and       *)
(* messages of other providers.                                            *)
(***************************************************************************)
EXTENDS GcpConfig, FiniteSetsExt

CONSTANTS HeaderKeys, HeaderValues,  \* typed values: [type, text]
          MaxMessages                \* bound: messages of one goroutine

ASSUME PublishBounds == MaxMessages \in Nat
ASSUME PublishRequests ==
    \A r \in Requests : r.service = "pubsub" =>
        /\ r.fn \in {"Send", "SendBatch"} /\ r.ordered \in BOOLEAN
        /\ r.url \in [scheme : STRING, host : STRING, path : STRING]

VARIABLES
    batch,    \* the messages a goroutine has at hand, in order
    result,   \* the PublishResults of its call
    waited,   \* how many of them it has waited for
    firstErr, \* the index of the first error it has met; 0 is none
    calls,    \* the number of calls it has begun
    topic     \* the service: all stored messages

publishVars == <<batch, result, waited, firstErr, calls, topic>>
vars == <<configVars, pc, openVars, publishVars>>

Absent == "absent"
NoHeaders == [k \in HeaderKeys |-> Absent]
Pending == [state |-> "pending", id |-> 0]
Failed == [state |-> "failed", id |-> 0]
Published(id) == [state |-> "published", id |-> id]
NoId == 0

Init ==
    /\ ConfigInit
    /\ batch = [c \in Callers |-> <<>>]
    /\ result = [c \in Callers |-> <<>>]
    /\ waited = [c \in Callers |-> 0]
    /\ firstErr = [c \in Callers |-> 0]
    /\ calls = [c \in Callers |-> 0]
    /\ topic = <<>>
-----------------------------------------------------------------------------
(* Messages. *)

HasRoom(c) == pc[c] = "idle" /\ Len(batch[c]) < MaxMessages

Collect(c, m) ==
    /\ HasRoom(c) /\ Event
    /\ batch' = [batch EXCEPT ![c] = Append(@, m)]
    /\ UNCHANGED <<registry, draft, pc, openVars, result, waited, firstErr, calls, topic>>

(* given: history, what the headers of the message should read. *)
NewMessage(c) ==
    Collect(c, [kind |-> "outbound", headers |-> NoHeaders, id |-> NoId,
                arrived |-> NoId, given |-> NoHeaders])

(* Mutant: the attributes are copied to the base message alone. *)
MutantToMessage(n) ==
    [kind |-> "received", headers |-> NoHeaders, id |-> n,
     arrived |-> n, given |-> topic[n].attributes]

toMessage(n) ==
    [kind |-> "received", headers |-> topic[n].attributes, id |-> n,
     arrived |-> n, given |-> topic[n].attributes]

ReceiveOne(c) == \E n \in DOMAIN topic : Collect(c, toMessage(n))

(* A messaging.Message that is not a MessagePubSub. *)
ForeignMessage(c) ==
    Collect(c, [kind |-> "foreign", headers |-> NoHeaders, id |-> NoId,
                arrived |-> NoId, given |-> NoHeaders])

(* string(value), %v, %d and %g: what the attribute reads. *)
Text(v) == v.text

trackHeader(m, k, text) == [m EXCEPT !.headers[k] = text]

(* The ten Set*Header methods. *)
SetHeader(c, i, k, v) ==
    /\ pc[c] = "idle" /\ batch[c][i].kind # "foreign"
    /\ batch' = [batch EXCEPT ![c][i] =
                    [trackHeader(@, k, Text(v)) EXCEPT !.given[k] = Text(v)]]
    /\ UNCHANGED <<configVars, pc, openVars, result, waited, firstErr, calls, topic>>

buildAttributes(m) == IF m.kind = "foreign" THEN NoHeaders ELSE m.headers
-----------------------------------------------------------------------------
(* Send and SendBatch. *)

(* A call of another service only resolves and opens. *)
Begin(c) ==
    /\ calls' = [calls EXCEPT ![c] = @ + 1]
    /\ \E r \in Requests :
          /\ r.service = "pubsub" => (IF r.fn = "Send" THEN Len(batch[c]) = 1
                                                       ELSE Len(batch[c]) > 0)
          /\ Ask(c, r)
    /\ UNCHANGED <<batch, result, waited, firstErr, topic>>

(* SendBatch of nothing returns nil before it looks for a configuration.    *)
EmptyBatch(c) ==
    /\ batch[c] = <<>> /\ Event
    /\ Goto(c, "idle", "returned")
    /\ UNCHANGED <<registry, draft, openVars, publishVars>>

Resolve(c) == ResolveStep(c) /\ UNCHANGED publishVars

(* Mutant: the client is not closed. *)
MutantReturnLeaks(c) ==
    /\ pc' = [pc EXCEPT ![c] = "returned"]
    /\ UNCHANGED <<configVars, openVars, calls, topic>>

(* The deferred Stop and Close, and the return. *)
Return(c) ==
    /\ pc' = [pc EXCEPT ![c] = "returned"]
    /\ client' = [client EXCEPT ![c].state = "closed"]
    /\ UNCHANGED <<configVars, request, found, seen, calls, topic>>

Publishing(c) == pc[c] = "opened" /\ request[c].service = "pubsub"

(* resolvePublisher wants a host ... *)
ResolvePublisher(c) ==
    /\ Publishing(c) /\ request[c].url.host # ""
    /\ Goto(c, "opened", "publishing")
    /\ UNCHANGED <<configVars, openVars, publishVars>>

(* ... and a URL without one is an error. *)
NoTopicName(c) ==
    /\ Publishing(c) /\ request[c].url.host = ""
    /\ Return(c)
    /\ UNCHANGED <<batch, result, waited, firstErr>>

Queue(c, next) ==
    /\ Goto(c, "publishing", next)
    /\ result' = [result EXCEPT ![c] = Append(@, Pending)]
    /\ UNCHANGED <<configVars, openVars, batch, waited, firstErr, calls, topic>>

SendPublishes(c) ==
    /\ pc[c] = "publishing" /\ request[c].fn = "Send"
    /\ Queue(c, "waiting")

BatchPublishes(c) ==
    /\ pc[c] = "publishing" /\ request[c].fn = "SendBatch"
    /\ Queue(c, IF Len(result[c]) + 1 < Len(batch[c]) THEN "publishing" ELSE "waiting")

(* The result at hand. *)
AtHand(c) == waited[c] + 1
Settled(c, i) == i \in DOMAIN result[c] /\ result[c][i] # Pending
WithId(m, id) == IF m.kind = "foreign" THEN m ELSE [m EXCEPT !.id = id]

SendReturns(c) ==
    LET r == result[c][1] IN
    /\ pc[c] = "waiting" /\ request[c].fn = "Send"
    /\ Settled(c, 1)
    /\ IF r = Failed
       THEN firstErr' = [firstErr EXCEPT ![c] = 1] /\ UNCHANGED batch
       ELSE batch' = [batch EXCEPT ![c][1] = WithId(@, r.id)] /\ UNCHANGED firstErr
    /\ waited' = [waited EXCEPT ![c] = 1]
    /\ Return(c)
    /\ UNCHANGED result

InBatchWait(c) == pc[c] = "waiting" /\ request[c].fn = "SendBatch"

(* Mutant: the last error is kept, not the first. *)
MutantLastError(c) ==
    /\ InBatchWait(c) /\ Settled(c, AtHand(c)) /\ result[c][AtHand(c)] = Failed
    /\ waited' = [waited EXCEPT ![c] = @ + 1]
    /\ firstErr' = [firstErr EXCEPT ![c] = AtHand(c)]
    /\ UNCHANGED <<configVars, pc, openVars, batch, result, calls, topic>>

BatchMeetsError(c) ==
    /\ InBatchWait(c) /\ Settled(c, AtHand(c)) /\ result[c][AtHand(c)] = Failed
    /\ waited' = [waited EXCEPT ![c] = @ + 1]
    /\ firstErr' = [firstErr EXCEPT ![c] = IF @ = 0 THEN AtHand(c) ELSE @]
    /\ UNCHANGED <<configVars, pc, openVars, batch, result, calls, topic>>

(* Mutant: after an error the ids of the others are not stored. *)
MutantIdsUntilError(c) ==
    LET r == result[c][AtHand(c)] IN
    /\ InBatchWait(c) /\ Settled(c, AtHand(c)) /\ r # Failed
    /\ batch' = [batch EXCEPT ![c][AtHand(c)] =
                    IF firstErr[c] = 0 THEN WithId(@, r.id) ELSE @]
    /\ waited' = [waited EXCEPT ![c] = @ + 1]
    /\ UNCHANGED <<configVars, pc, openVars, result, firstErr, calls, topic>>

BatchStoresId(c) ==
    LET r == result[c][AtHand(c)] IN
    /\ InBatchWait(c) /\ Settled(c, AtHand(c)) /\ r # Failed
    /\ batch' = [batch EXCEPT ![c][AtHand(c)] = WithId(@, r.id)]
    /\ waited' = [waited EXCEPT ![c] = @ + 1]
    /\ UNCHANGED <<configVars, pc, openVars, result, firstErr, calls, topic>>

BatchReturns(c) ==
    /\ InBatchWait(c) /\ waited[c] = Len(result[c])
    /\ Return(c)
    /\ UNCHANGED <<batch, result, waited, firstErr>>

(* The goroutine is done with its call, and keeps its messages. *)
CallOver(c) ==
    /\ pc[c] \in {"returned", "failed"} \/ (pc[c] = "opened" /\ ~Publishing(c))
    /\ Forget(c)
    /\ result' = [result EXCEPT ![c] = <<>>]
    /\ waited' = [waited EXCEPT ![c] = 0]
    /\ firstErr' = [firstErr EXCEPT ![c] = 0]
    /\ UNCHANGED <<batch, calls, topic>>
-----------------------------------------------------------------------------
(* The client library and the service. *)

PendingOf(c) == {i \in DOMAIN result[c] : result[c][i] = Pending}
Paused(c) == \E i \in DOMAIN result[c] : result[c][i] = Failed

(* Mutant: the messages are queued without the ordering key. *)
MutantUnorderedBundles(c) == {I \in SUBSET PendingOf(c) : I # {}}

(* The messages that may go out in one bundle: with an ordering key, the    *)
(* first ones of those waiting.                                             *)
Bundles(c) ==
    {I \in SUBSET PendingOf(c) :
        /\ I # {}
        /\ request[c].ordered => \A i \in I, j \in PendingOf(c) \ I : i < j}

Rank(i, I) == Cardinality({j \in I : j <= i})
ByRank(n, I) == CHOOSE i \in I : Rank(i, I) = n

Stored(c, i, confirmed) ==
    [project |-> client[c].project, name |-> request[c].url.host,
     attributes |-> buildAttributes(batch[c][i]), sender |-> c, index |-> i,
     call |-> calls[c], confirmed |-> confirmed]

StoreBundle(c, I, confirmed) ==
    topic' = topic \o [n \in 1..Cardinality(I) |-> Stored(c, ByRank(n, I), confirmed)]

Settle(c, outcome) ==
    /\ result' = [result EXCEPT ![c] =
                     [i \in DOMAIN @ |-> IF i \in DOMAIN outcome THEN outcome[i] ELSE @[i]]]
    /\ UNCHANGED <<configVars, pc, openVars, batch, waited, firstErr, calls>>

BundlePublished(c) ==
    \E I \in Bundles(c) :
        /\ ~(request[c].ordered /\ Paused(c))
        /\ StoreBundle(c, I, TRUE)
        /\ Settle(c, [i \in I |-> Published(Len(topic) + Rank(i, I))])

(* Not stored, or stored and the answer lost. *)
BundleFails(c) ==
    \E I \in Bundles(c) :
        /\ \/ UNCHANGED topic
           \/ ~(request[c].ordered /\ Paused(c)) /\ StoreBundle(c, I, FALSE)
        /\ Settle(c, [i \in I |-> Failed])
-----------------------------------------------------------------------------
CallerNext(c) ==
    \/ NewMessage(c) \/ ReceiveOne(c) \/ ForeignMessage(c)
    \/ \E i \in DOMAIN batch[c], k \in HeaderKeys, v \in HeaderValues :
          SetHeader(c, i, k, v)
    \/ Begin(c) \/ EmptyBatch(c) \/ Resolve(c)
    \/ ResolvePublisher(c) \/ NoTopicName(c)
    \/ SendPublishes(c) \/ BatchPublishes(c)
    \/ SendReturns(c) \/ BatchMeetsError(c) \/ BatchStoresId(c) \/ BatchReturns(c)
    \/ CallOver(c)
    \/ BundlePublished(c) \/ BundleFails(c)

Configure == ProgramConfigures /\ UNCHANGED publishVars

Next == Configure \/ \E c \in Callers : CallerNext(c)

Spec == Init /\ [][Next]_vars
-----------------------------------------------------------------------------
Headers == [HeaderKeys -> {Text(v) : v \in HeaderValues} \union {Absent}]
Messages == [kind : {"outbound", "received", "foreign"}, headers : Headers,
             id : Nat, arrived : Nat, given : Headers]
Results == {Pending, Failed} \union [state : {"published"}, id : Nat]
Entries == [project : Projects, name : STRING, attributes : Headers, sender : Callers,
            index : Nat, call : Nat, confirmed : BOOLEAN]

(* Type invariant; a client is open exactly while a Pub/Sub call is under   *)
(* way with it.                                                             *)
TypeOK ==
    /\ ConfigTypeOK
    /\ pc \in [Callers -> ResolveLocations \union {"publishing", "waiting", "returned"}]
    /\ batch \in [Callers -> Seq(Messages)]
    /\ result \in [Callers -> Seq(Results)]
    /\ waited \in [Callers -> Nat] /\ firstErr \in [Callers -> Nat]
    /\ calls \in [Callers -> 0..MaxEvents]
    /\ topic \in Seq(Entries)
    /\ \A c \in Callers :
          /\ \A i \in DOMAIN batch[c] :
                {batch[c][i].id, batch[c][i].arrived} \subseteq 0..Len(topic)
          /\ Len(result[c]) <= Len(batch[c])
          /\ waited[c] <= Len(result[c]) /\ firstErr[c] <= waited[c]
          /\ pc[c] \in {"publishing", "waiting"} => client[c] \in PubSubClients("open")
          /\ pc[c] = "returned" => client[c].state # "open"

Returned(c) == pc[c] = "returned" /\ result[c] # <<>>
StoredIn(c, call) == {n \in DOMAIN topic : topic[n].sender = c /\ topic[n].call = call}

(* The caller learns enough: when Send or SendBatch comes back, no publish  *)
(* is under way any more; without an error every message is in the topic,   *)
(* and with one the index it names is the first whose publish failed,       *)
(* whatever the order in which the results came.                            *)
ErrorNamesFirstFailure ==
    \A c \in Callers : Returned(c) =>
        LET failed == {i \in DOMAIN result[c] : result[c][i] = Failed} IN
        /\ PendingOf(c) = {}
        /\ firstErr[c] = IF failed = {} THEN 0 ELSE Min(failed)
        /\ \A i \in DOMAIN batch[c] \ failed :
              \E n \in StoredIn(c, calls[c]) : topic[n].index = i

ConfirmedOf(c, i) ==
    {n \in DOMAIN topic : topic[n].sender = c /\ topic[n].index = i /\ topic[n].confirmed}

(* SendBatch reports one error only; the ids tell the rest: when the call   *)
(* is back, the id of each message is that of its last publish known to     *)
(* have worked, also behind a message that failed and after a retry, and    *)
(* the id it arrived with, or none, if there is none.                       *)
IdsTellWhatWasPublished ==
    \A c \in Callers : Returned(c) =>
        \A i \in DOMAIN batch[c] :
            batch[c][i].kind # "foreign" =>
                batch[c][i].id = Max(ConfirmedOf(c, i) \union {batch[c][i].arrived})

(* With an ordering key, what one call stored is a prefix of its batch in   *)
(* the batch's order: no message gets in behind one that failed.            *)
OrderedBatchIsPrefix ==
    \A c \in Callers : request[c].service = "pubsub" /\ request[c].ordered =>
        LET stored == StoredIn(c, calls[c]) IN
        /\ \A n \in stored : topic[n].index = Rank(n, stored)
        /\ \A i \in DOMAIN result[c] :
              result[c][i].state = "published" => result[c][i].id \in stored

(* Every header set on a message, and every attribute a message arrived     *)
(* with, is an attribute of each stored copy: also when a received message  *)
(* is sent on and when a batch is sent again with other headers.            *)
HeadersArrive ==
    [][\A n \in DOMAIN topic' \ DOMAIN topic :
          LET m == batch[topic'[n].sender][topic'[n].index]
          IN  m.kind # "foreign" => topic'[n].attributes = m.given]_vars
=============================================================================
