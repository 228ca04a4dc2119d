# golly-gcp: specification, model checking and proofs

This directory specifies golly-gcp: the Pub/Sub provider (listeners, receiving
and publishing), the secret store, the GenAI provider with its conversions, the
Cloud Storage file system with its file handles, and the configuration registry
they share. The modules are translated from the
Go source; lines below are lines of that source.

## 1. The system

golly-gcp adapts Google Cloud services to the interfaces of the `golly`
library. Its packages do not call each other, except that all of them look up
client options in `gcpsvc`.

| Component | State | Operations | Where |
| --- | --- | --- | --- |
| Pub/Sub listeners | `closed` (atomic), `mu`, `stopFns`; per listener a client, a context, a goroutine | `AddListener`, its goroutine and callback, `Rsvp`, `Close` | `pubsub/pubsub.go` 296-360, `pubsub_message.go` 86-96 |
| Pub/Sub receive | per call a client, a context, two channels or a slice | `Receive`, `ReceiveBatch` | `pubsub/pubsub.go` 181-288 |
| Pub/Sub publish | headers and id of a message; per call a client, a publisher, its results | `NewMessage`, `Send`, `SendBatch`, header setters, `toMessage` | `pubsub/pubsub.go` 57-175, 363-399, `pubsub_message.go` |
| Secret store | `mutex` (RW), `cache`, `lastSync`, `cacheTTL` | `Get`, `Write`, `Delete`, `List`, `ClearCache`, `Close` | `secrets/gcpsecretstore.go` |
| GenAI streaming | two channels, a goroutine, the caller's context | `GenerateStream` | `genai/genai.go` 157-189 |
| GenAI requests | none | `Generate`, the conversions of messages, options, schemas and responses | `genai/genai.go`, `genai/utils.go` |
| Storage trees | the objects of a bucket, in the service | `Copy`, `Move`, `Delete`, `DeleteMatching`, `Walk`, `List`, `Create`, `MkdirAll`; `ListAll`, `DeleteAll`, `Info` | `gs/storagefs.go`, `gs/storagefile.go` |
| Storage file handles | reader, write buffer, offset; an object's metadata | `Open`, `Read`, `Write`, `Seek`, `Close`, `AddProperty`, `GetProperty` | `gs/storagefile.go` |
| Configuration | a registry of `Config` | `GetConfig`, option setters; the constructors that use it | `gcpsvc/`, `pubsub/pubsub_utils.go`, `gs/utils.go` |

**How the parts interact, and what is hard.**

* *Listeners.* `AddListener` runs in the caller's goroutine, then starts one of
  its own; the Pub/Sub client calls back from goroutines of its own; `Close`
  runs in any goroutine. They share `closed`, `stopFns` and the contexts. Hard:
  the race between the append and the loop and reset of `Close`, callbacks that
  start after the cancel, clients that must be closed once and not too early.
* *Receive.* The call waits in a `select` while another goroutine runs the
  client's `Receive`. Hard: message, error and timeout arriving together,
  either side outliving the other, a message taken and not returned, the client
  closed before the message is answered.
* *Secret store.* Goroutines share two maps under a RWMutex, and `Get` fills the
  maps under the *read* lock, across a remote call. Hard: fills racing writes
  and deletes, requests that fail after they took effect, error paths.
* *GenAI stream.* One producer, one consumer, two channels with small buffers.
  Hard: blocking forever, streams cut short without an error, the order of the
  deferred closes.
* *Storage trees.* Recursive operations made of many requests, without any
  transaction: other programs, and failed requests, come in between any two.
  Hard: what a partial failure leaves, listings that are stale when used,
  prefixes compared as text.
* *File handles.* A reader stays with one version of an object, a buffer waits
  for `Close`, and `AddProperty` is two requests. Hard: what is left in the handle
  after each way `Close` can fail, other programs between any two calls, and what
  of the properties of an object outlives which call.
* *Publishing.* `SendBatch` queues all messages and then waits for results that
  come in any order; a message keeps its headers twice. Hard: which message
  failed, which ids are known, what a message that is sent again carries.
* *GenAI conversions.* Pure, but with many cases, and applied both ways. Hard:
  what is dropped on the way, numbers their field cannot hold, system messages.
* *Configuration.* Up to three lookups that are not atomic.

**What makes each part correct**: no listener escapes `Close` and all of them
stop; `Receive` always returns and leaves nothing behind; the store never
returns a credential older than what the caller may rely on and always lets go
of its lock; a stream is a prefix of the model's answer and says when it is cut
short, and the request behind it says what the caller said, as far as its fields
can hold it, and once; a `Move` never
loses a file, and an operation that reports success has done all of its work and
nothing outside its tree; a `Close` that returns nil has saved what was written;
after `SendBatch` the caller knows which message failed first and, by the ids,
which ones are in the topic; and `GetConfig` never passes over a Config that was
registered all the while.

## 2. Modules

| Module | Models | Role |
| --- | --- | --- |
| `ListenerGroup` | what a provider promises about listeners | abstract specification |
| `ResponseStream` | what `Generate` and `GenerateStream` promise their caller | abstract specification |
| `PubSubListener` | `AddListener`, goroutine, callback, `Rsvp`, `Close` | implements `ListenerGroup` |
| `PubSubListenerProofs` | | theorems |
| `PubSubReceive` | `Receive`, `ReceiveBatch` | |
| `PubSubReceiveProofs` | | theorems |
| `SecretStore` | the store, the RWMutex, Secret Manager | |
| `SecretStoreProofs` | | theorems |
| `GenaiSchema` | `convertSchema` | recursive function |
| `GenaiConvert` | the other conversions of `genai/utils.go` | operators; extends `GenaiSchema` |
| `GenaiStream` | `Generate`, `GenerateStream` and the caller | extends `GenaiConvert`, implements `ResponseStream` |
| `GenaiStreamProofs` | | theorems |
| `StorageTree` | operations on trees of objects | |
| `StorageFile` | calls on open files, among those operations | extends `StorageTree` |
| `OrderLemmas` | | lemmas on the naturals and on finite ordered sets |
| `StorageTreeProofs` | | theorems; the lemmas on keys, listings and frames |
| `StorageFileProofs` | | theorems; extends `StorageTreeProofs` |
| `GcpConfig` | the registry, `GetConfig`, the client constructors of four packages | |
| `PubSubPublish` | messages, `Send`, `SendBatch`, the topics | extends `GcpConfig` |
| `PubSubPublishProofs` | | theorems, also on the lookup of `GcpConfig` |
| `MC*` | | instances for TLC |

Operators named `Mutant...` are not part of the specifications: each is the
form an action would take with a plausible bug, and `PROJECT.json` says which
property it breaks.

### PubSubListener

One element of `Listeners` is one call of `AddListener` followed by its
goroutine; `pc` follows it through the function. `OpenClient`, `ResolveFails`,
`CreateContext` and `Register` are l.297-326, `StartReceive` the `go`
statement, `ReceiveReturns`/`ReceiveFails` the two ways out of `sub.Receive`,
`CloseClient` and `CancelOwn` the deferred calls in their order. The callback is
`NackWhenClosed` or `CallHandler` (the check of `closed`), then
`ReturnUnanswered` or `RsvpAck`/`RsvpNack`. `"handling"` means that the check
was passed; the handler may begin any time after. `Close` is four actions:
`SetClosed` outside the mutex, `LockForClose`, one `CancelNext` per cancel
function, and `FinishClose`. `Register` takes and gives back the mutex in one
step, as nothing else happens inside.

External: `sub.Receive` runs at most `MaxOutstanding` callbacks, counting
messages not answered, and returns when its context is done and none is
outstanding; a lease ends after MaxExtension.

`ListenerGroup` says what this is for: listeners join, are over, are released,
and `CloseAll` reaches all that have joined *in one step*. The refinement maps
`over` to "context done, or in front of a `Close` that holds the mutex, or its
`Receive` has returned": a `Close` takes effect at the moment it takes the mutex.

### PubSubReceive

One element of `Singles`/`Batchers` is one call. For `Receive`, `main` is the
calling goroutine, `worker` the one that runs `sub.Receive`; the select is
entered (`Park` when nothing is ready), takes any ready case, and a send to a
parked select hands over directly, as Go does. For `ReceiveBatch` the calling
goroutine is inside `sub.Receive` and the callback appends under its mutex
(`Collect`, one step). `Return` carries the deferred `cancel` and the close of
the client.

### SecretStore

`pc` follows each goroutine through `Get`, `Write`, `Delete`, `List` or
`ClearCache`. The RWMutex is modelled as Go's: a writer that has announced
itself keeps new readers out, waits for those inside, and lets the waiting ones
in when it is done. A credential is the number of its version. `Write` asks
for the secret (any error counts as absence, l.154), creates it or not, adds a
version, and only then updates the cache; each request may fail, also after it
took effect. The failure of `json.Marshal` (l.140-143) has the effect of a
`CreateFails` without one and has no action of its own. Assigning to the maps in `Get` is two steps, `BeginStore` and
`EndStore`, since other readers may be at the maps; when they are, the Go
runtime may stop the program (`Crash`).

`floor`, `high` and `start` are history: what calls that have ended well
established, what has been returned, and both as of the start of each `Get`.
`outside` and `doubtful` name the keys other programs changed and the keys
with a request that worked but was reported as failed.

### GenaiSchema and GenaiConvert

A part is a function from the contents it holds to their values: on the caller's
side it may hold several. `Switch` takes the first case in the order of the Go
`switch` (`SendOrder`, `AnswerOrder`), which is not the same on the two ways, and
`convertPart` sends that content alone: what else the part held is lost. A
function response is itself a function from its keys, of which the way back keeps
the text (`Only`). A nil part is `NoPart` and is dropped by `WithoutNil`, as the
loops of the code do; `Without` is the loop that leaves parts out.

Options are a function from the names that are set; `Reaches` and `AsSent` say
which of them end up in the configuration and as what. `Int32` wraps as the
conversion of the code does (token limit, candidate count, seed), at the width
`HalfInt32`. `Float32` rounds to the nearest (`top_k` from an int, the penalties
from a float64; to the even one of two): a float32 is a multiple, of at most
`ExactFloat`, of one of the `Spacings`. Temperature and top_p are float32s already
and are passed on. `convertSchema` is a recursive function on a set of schemas
closed under its own children.

What is checked, against what: `outline` reads a schema as a set of (path, node)
pairs and `convertedOutline` its result; a message and its request are compared by
what each part *says* (`Said`: its first content with its value), so that
`RequestSaysItAll` states what is sent of a part that holds several; a number is
the same in the request exactly when its field can hold it (`Fits`); and a response
is compared with what it becomes when it is sent back as history.

### GenaiStream

A session is what a caller asks for (message, options) and what the model would
answer. `BuildRequest` computes the request from it; `GenerateAnswers` and
`GenerateFails` are `Generate`. `pc` follows the goroutine through the loop body; the two deferred closes are
separate steps in their order. The check of the context and the send are
separate, as in the code: a context that ends while the goroutine sends is not
noticed until the next chunk. A response that converts to nil is skipped.
Callers of the stream come in two plans, draining the responses
and then asking for the error (`genai/README.md`), or the reverse, and either
may leave.

`ResponseStream` says what this is for, without goroutine, channels or context:
there is one answer (`WholeAnswer`: the responses converted, without the nil
ones), which is delivered from its beginning without a gap; the caller is told
once how it ended, and one that is done and was told of no error has all of it.
The refinement maps `delivered` to what the caller has received, `word` to what it
has read from `errorChan`: all the goroutine does is no step of that stream.

### StorageTree

A key is a sequence of names and `/`; the operations work on a bucket that maps
keys to objects, an object being its data and its properties. Every request to
the service is a step. A call is a stack of frames, a frame one activation of
`Copy`, `Delete` (which goes on as `DeleteAll`), or of an operation on one
object; `pc` says what the frame does next with its `Subject`: ask for
attributes (`Attrs`), look for anything under the key (`Probe`), list
(`ListChildren`), copy or delete. `Fail` unwinds the whole stack, as every
caller returns the error; `Return` of the `Copy` of a `Move` goes on with its
`Delete`. `ListAll` lists at every depth and skips the prefix itself; `DstKey`
trims and concatenates text as the code does, so that from `a/` to `d` the file
`a/f` goes to `df`. `MkdirAll` writes a marker, whose key ends in a slash also when
the key is empty (`MarkerKey`): on the root of the bucket it writes the object `/`.
`OnlyInside` says for each operation which keys it may delete (`MayDelete`), to which
it may copy what (`IsCopy`: an object of the tree as it is at that moment, at its
own image) and which it may write otherwise (`MayMake`). `Faults` requests may fail, writes
and deletes with or without effect. `Open` makes no request, so it succeeds also
when there is no such object.

### StorageFile

Once `Create` or `Open` has returned a file, its program calls `Read`, `Write`,
`SeekStart`, the ways `Close` can go, and `AddProperty` (`ReadMetadata`, then
`UpdateMetadata`), while the other program runs any operation of `StorageTree`
or calls on a file of its own, on the same bucket. `Close` is `CloseReader`
(nothing to flush), `Flush`, `CopyBreaksOff` (l.83-86: the error of `io.Copy`
returns at once, with the reader open and the buffer drained as far as it went)
or `WriterFails` (l.87: the buffer is dropped whatever `Close` of the writer
says, and the object may have been stored). `past` is history: what was written
and not yet uploaded, what a `Close` that returned nil has left behind, what was
read since the reader was last dropped, and the properties the object had when a
running `AddProperty` read them. `versions` is history too: the data each key ever
had. So is `added`: the properties, of any object and by any program, that an
`AddProperty` has confirmed. One leaves the set in two ways only. The object is
deleted or written anew (`Stands`): every flush does so, also that of the file the
property was added through, as the writer replaces the metadata (l.79-87). Or an
addition is written back that had read the object before the property was there
(`Seen`): two that overlap may undo each other, as the update has no
precondition. `PropertiesAccumulate` says that all others are found.

### GcpConfig

`draft` is the Config a program is filling in; `Register` puts it into the
registry and `Unregister` removes one. A goroutine asks (`Ask`) for a client of
a service (a storage URL without the scheme `gs` or a bucket is refused at once,
`ValidURL`), looks up `host`, `host/path` and the service's name one after the
other (`LookUpHost`, `LookUpPath`, `LookUpName`, l.24-32 of `gcpsvc/utils.go`),
and opens the client (`OpenPubSub`, `OpenStorage`, `OpenGenai`, `OpenSecrets`),
each with the precedence of its constructor. The key of the path holds two
slashes, as the code joins it (l.26): a key is the tuple of its parts. `seen` is
history: what each key has held since the goroutine asked.

### PubSubPublish

A goroutine has a `batch` of messages: new ones, messages received from a topic
(`toMessage`), or messages of another provider. The setters change a header;
`headers` is what the code tracks as text, `given` is history: what the message
should read. `Begin` asks `GcpConfig` for a client, then `SendPublishes` or one
`BatchPublishes` per message queues, `BundlePublished` and `BundleFails` are the
client library answering for any bundle of those queued, in any order unless
there is an ordering key, and `SendReturns`, `BatchStoresId`, `BatchMeetsError`
and `BatchReturns` are the loop over the results. `BundleFails` may leave the
messages stored. The topics are one sequence; the id of a message is its place.

## 3. Runs

| Run | Instance | Properties |
| --- | --- | --- |
| `PubSubListener` | 2 `AddListener`, 2 `Close`, 1 message | `TypeOK`, `EveryLiveListenerIsStoppable`, `ClientLifecycle`, `NothingLostUnhandled`, `NothingAcceptedAfterCancel`, `CloseCancelsAll`, `ImplementsGroup`, `OverListenersStop`, `CloseReturns` |
| `SecretStore` | 2 goroutines (`g1`, `g2`), 1 key, 3 versions, entries expire | `TypeOK`, `NoStaleRead`, `NoGoingBack`, `CacheCoherent`, `CallsReturn` |
| `GenaiStream` | up to 5 responses, buffer of 2; 6 messages, 4 option sets, 3 answers in all combinations; an int32 of 4 bits, floats with 8 steps to each of the spacings 1, 2 and 4 | `TypeOK`, `NoSilentTruncation`, `RequestSaysItAll`, `HistorySurvives`, `ImplementsStream`, `DrainingCallerFinishes`, `ErrorFirstFinishesWithinCapacity` |
| `PubSubPublish` | 1 goroutine, 6 events, batches of up to 2, 11 kinds of requests | `TypeOK`, `LookupIsJustified`, `ErrorNamesFirstFailure`, `IdsTellWhatWasPublished`, `OrderedBatchIsPrefix`, `HeadersArrive` |
| `PubSubReceive` | 1 `Receive`, 1 `ReceiveBatch` of 2, 3 messages | `TypeOK`, `CallbackNeverBlocks`, `ReceiveTakesOne`, `CallsReturn`, `WorkersEnd` |
| `StorageTree` | 2 programs (symmetric), 12 calls, 3 buckets, 1 fault, 4 calls on files, 2 property names (symmetric) | `FileTypeOK`, `NothingLost`, `CopyIsComplete`, `DeletedIsGone`, `CloseSavesWrites`, `ReadsOneVersion`, `PropertiesAccumulate`, `OnlyInside` |

Each property's comment in its module says what it states. All of them hold.

Six more runs check what the repository's comments and documentation say and
the code does not do. TLC finds each of them violated:

| Run | What is said | What the code does |
| --- | --- | --- |
| `CloseStopsListeners` | `Close` stops all listeners (`pubsub.go` 291, 350) | `AddListener` does not look at `closed`: one that registers after `Close` took the list is never cancelled |
| `ZeroTimeoutIsIndefinite` | `Timeout` 0 is indefinite (`pubsub.go` 293) | the listener's context is over at once |
| `SafeForConcurrentUse` | all operations are safe for concurrent use (`secrets/doc.go` 72) | `Get` writes the maps under the read lock |
| `ZeroTTLMeansNoCaching` | `CacheTTL` 0 means no caching (`gcpsecretstore.go` 35) | entries never expire |
| `RsvpAcknowledges` | `Rsvp(true)` acknowledges a received message (`pubsub.go` 180) | the client is closed before the message is returned |
| `DeleteAllDeletesAll` | `DeleteAll` deletes everything (`gs/README.md` 417, 476) | with a marked subdirectory it meets its own deletions and stops with an error |

The last but one rests on an assumption about the client library: that an
answer given after the client is closed does not reach the service.

Other places where text and code differ, met while modelling and too plain for a
run of their own: `pubsub_utils.go` 20 says that without a registered Config the
client falls back to Application Default Credentials, l.23-25 return an error;
`gs/README.md` 535 says that after an error from `Close` the data was not
persisted, but a writer whose last reply was lost has stored it, a second `Close`
then returns nil (l.88), and after an error of `io.Copy` a second `Close` uploads
only what was still in the buffer (l.82-86).

**Bounds, and why they are enough.** Listeners: the race needs one registering
call and one sweeping `Close`; two of each add a listener in front of and
behind the sweep and a second `Close` on an emptied list; one message exercises
every state of a callback, and moves between the two listeners. Secret store:
a stale fill needs a reader and a writer, and a return to an older credential a
third version; more goroutines are covered by the proofs, which hold for any
number, and keys do not interact but through the lock. Receive: a single call
takes one message and a batch two, so with three messages each call can be
offered one too many, and they compete for the last. Stream: five responses
through two buffer places fill the buffer, block, and go on, also with nil
responses among them; the messages, options, schemas and answers take every
branch of the conversions; parts hold one, several or no contents, also an empty
text in front of bytes; the integers lie on both sides of the limit, and the
numbers that become floats are exact, at the boundary, rounded to the nearest and,
half-way, to the even one, with both signs.
Publishing: the calls share nothing but the registry, and registrations by others
interleave with every lookup, so one goroutine is enough for what the properties
say; six events leave room for a batch that is changed and sent again, and for a
registration and a removal during a lookup; two messages give an order, a first
and a later failure, and a bundle of two. Trees and files: markers at two depths,
a neighbour `ab` of `a/`, destinations with and without a slash, a `Move` into
the moved tree, a marker for the root; all pairs of the twelve calls, with one
failed request anywhere;
four calls on files are enough to write, fail, write again and close, to read on
both sides of an overwrite, and to add two properties; objects of two pieces have
a middle at which a reader can change versions.

Bounds in guards or initial states: `MaxVersion` (versions of a secret),
`Faults` (requests that fail), `MaxCalls` (calls on files), `MaxEvents` (what
goroutines and registering programs do), `MaxOptions` (options of a Config) and
`MaxMessages` (messages of a goroutine). The other constants are parameters of
the code or sets of actors and inputs.

**Fairness.** Goroutines that can run do, timers fire, requests are answered or
fail, leases end, and handlers return: weak fairness of the steps of calls that
have begun. The writer's `Announce` has strong fairness, since Go's mutex hands
itself to a goroutine that has waited long. Nobody is obliged to call an
operation, to answer a message, to cancel a context or to stay: those actions
have none. A caller of `GenerateStream` that has not left is assumed to read on.

**Deadlock** is checked in every run but `PubSubPublish`, whose goroutine stops
when its events are used up. Where another system may stop, an explicit action
says so (`Finished`, `Halted`, `Stopped`); any other state without a successor
would be reported.

## 4. Proofs

The theorems hold for every value of the constants that satisfies the named
assumptions: any number of goroutines, messages, keys, versions and requests
that fail, buffers and batches of any length, any contents of a bucket. Each
inductive invariant was model-checked as an invariant of the component's run
before it was proved.

| Module | Proves of every behaviour | Assumes |
| --- | --- | --- |
| `PubSubListenerProofs` | `TypeOK`, `EveryLiveListenerIsStoppable`, `ClientLifecycle`, `NothingLostUnhandled`, `NothingAcceptedAfterCancel`, `CloseCancelsAll`, `ListenerGroup!Spec` | `NoOneAssumption`, `MaxOutstandingAssumption` |
| `PubSubReceiveProofs` | `TypeOK`, `CallbackNeverBlocks`, `ReceiveTakesOne` | `CallersAssumption`, `BatchSizeAssumption` |
| `SecretStoreProofs` | `TypeOK`, `NoStaleRead`, `NoGoingBack`, `CacheCoherent` | `CacheTTLAssumption`, `MaxVersionAssumption`, `NoOneAssumption`, `KeysAssumption` |
| `GenaiStreamProofs` | `TypeOK`, `NoGap`, `NoSilentTruncation`, `ImplementsStream`, `RequestSaysItAll`, `HistorySurvives` | `CapacityAssumption`, `SessionsAssumption`, `SchemasAssumption`, `SchemasAreTrees`, `HalfInt32Assumption`, `FloatAssumption` |
| `StorageTreeProofs` | `TypeOK`, that every frame works inside its call's tree, and that each step keeps `FateInv` | `SlashAssumption`, `OrderAssumption`, `BucketsAssumption`, `TasksAssumption`, `FaultsAssumption` |
| `StorageFileProofs` | `FileTypeOK`, `NothingLost`, `CopyIsComplete`, `DeletedIsGone`, `CloseSavesWrites`, `ReadsOneVersion`, `PropertiesAccumulate`, `OnlyInside` | those, `WrittenAssumption`, `MaxCallsAssumption` |
| `PubSubPublishProofs` | `TypeOK`, `LookupIsJustified`, `ErrorNamesFirstFailure`, `IdsTellWhatWasPublished`, `OrderedBatchIsPrefix`, `HeadersArrive` | `ConfigAssumption`, `StringsAssumption`, `RequestsAssumption`, `BoundsAssumption`, `PublishBounds`, `PublishRequests` |

The assumptions say of the constants what they are: bounds and capacities are
numbers, actors of two kinds differ, the order of the keys' text names every
token, the bucket is at first a finite map from keys to contents. Four say what comes
from outside: `RequestsAssumption`, that a client is asked for one of the five
services, with texts for project and location where the constructor takes them;
`PublishRequests`, that the calls of Pub/Sub are `Send` and `SendBatch` with a
URL; `SchemasAreTrees`, that no way down a schema's children goes on for ever
(`convertSchema` would not end either); and `SessionsAssumption`, that a part of
the model's answer has one content, as the GenAI API says of its parts, while a
part of the caller's message may have several, and that `top_k` and the penalties
are within the range of a float32 (`AreOptions`). `FloatAssumption` says of the
floats that each spacing is a multiple of the smaller ones, as powers of two are.
`OrderLemmas` assumes nothing.

**Listeners.** The inductive invariant adds to the properties: the mutex is held
exactly by the `Close` that sweeps, and the list of cancels to call is empty
otherwise (`MutexInv`); a `Close` that has begun has set `closed`, and a context
is `cancelled` only if `closed` is set or its goroutine has ended (`FlagInv`);
where each client and callback stands for each `pc` (`ClientInv`, `CallbackInv`).
Without `MutexInv` two sweeps could reset each other's list, and nothing would
tie a live listener to `stopFns`.

**Secret store.** A writer inside the lock is alone (`LockInv`), so from the
request of a `Get` to its store neither `Write` nor `Delete` ends, and what the
`Get` holds is at least as new as everything established when it began
(`GetInv`, `StartInv`); versions only grow (`CountInv`); and the cached and the
latest version of a key are bounded below by what ended calls established
(`FloorInv`, and `OwnInv` for keys only this store changes). On those keys, as
long as no reply is lost, the last two say more: what is cached, and what a `Get`
carries from its request to its return, is what Secret Manager holds at that
moment (`CacheCoherent`).

**Receive.** A context that lives has its goroutine still waiting, and a call
that has an outcome has returned (`LifeInv`). A `Receive` has at most one message
and, as long as the context lives, that message is in its callback, not
answered (`HoldInv`): so a second callback cannot begin before the cancel, and the
buffer of one, which only that message enters, never makes a callback wait.

**Stream.** What was pulled is received, buffered, in hand or skipped as nil,
and nothing else is (`FlowInv`): `Complete(n)` says that the caller and the
buffer hold the converted beginning of length n. Once the goroutine closes,
either the stream is complete or an error is in its channel or read
(`VerdictInv`); the two channels are closed in their order, and a caller that has
found the end of its range has seen an empty, closed channel (`ChannelInv`).
`Generate` is the case of one response (`GenerateInv`). That the caller sees
a `ResponseStream` needs two more facts. Every place among the kept responses is
taken (`KeptOnto`, by induction over a set), so two answers to beginnings of the
session agree as far as both go (`AnswersAgree`), and `WholeAnswer` is the answer to
all of it (`WholeIsAnswer`): the head of the buffer is what the stream delivers
next (`NextIsOwed`). And a caller that is done, or that asked for the error first
and now reads the responses, was told (`ToldInv`). `NoGap`, which also speaks of
the buffer and the goroutine's hand, is proved and has no run of its own: what a
caller sees of it is part of `ImplementsStream`.

**Conversions.** The request is computed once, so `RequestSaysItAll` and
`HistorySurvives` follow from `TypeOK` and facts about the operators, by two
inductions. Over the length of a sequence (`UpTo`): a loop that drops what
converts to nil keeps what the others say, in order (`ValuesAreSent`), and no
element is lost (`WithoutIsTheRest`). Over a schema, from its leaves: there is
exactly one way to visit all nodes of a tree (`VisitsAgree`, `AllAreVisited`), so
the recursive functions are what their definitions say, and what stands at each
path before and after is equal (`OutlineIsKept`). The induction theorems of the
library take operators as parameters, which the provers cannot instantiate; both
inductions are over a set instead, from the least element it has. That a number
which is no float32 does not come back as itself, and one that is does, is
`Float32Fits`, from the definition of the rounding alone.

**Trees.** `StackOK` says of every frame that it is of a kind the call may use,
that it has a child at hand until it ends (`FrameOK`), and which keys it works on
(`FrameInside`): a frame of `Copy` is on a key of the call's tree and its
destination is exactly the image of that key under the call, however deep it is
(`ChildIsPut` carries that from a frame to its child), a frame of `Delete` is in the
tree, one of `DeleteMatching` on the source, one of `MkdirAll` on the marker.
`OnlyInside` follows, as a step changes only the key its frame works on
(`CopyPuts` for what a copy writes). The proof
also needs that a listing is one: `Precedes` is a strict total order of the keys
(`KeysAreOrdered`), so the CHOOSE in `InOrder` picks each object exactly once
(`ListingIsExact`, from `PositionsAreTaken` in `OrderLemmas`).

**What becomes of the objects.** `NothingLost`, `CopyIsComplete` and
`DeletedIsGone` speak of ended calls; `FateInv` says how far a call has come.
While a `Copy` runs, the source stays as it was (`SourceStays`), every frame puts
its keys where they belong (`AllPut`), the outermost takes for a directory only
what is one (`DirIsFound`), and each file is copied or still ahead of the
outermost frame (`CopyIsDue`). So all are copied when the stack is empty, and only
then a `Move` starts to delete: a `Move` that fails before has its source, one
that fails after has its copies. While a `Delete` runs, what is left of the tree is
ahead of the outermost frame, or the key of some frame (`DeleteIsDue`). Nothing
enters the tree unrecorded (`NoStranger`), and all frames are of one function, the
outermost on the source (`Shape`).

Only the outermost frame's list is needed: a child is removed from it when its
own frame ends, and by then `CopyStep` and `DeleteStep` have done that
subtree. A copy cannot be overwritten by another file of the tree
(`ImagesDiffer`), nor land in the tree (`ImagesAreOutside`, from `Apart`). Steps of
other callers, and of programs at their files, change only keys they record in
`touched`, which the properties leave out (`OthersStep`).

**Files.** The buffer holds what was written and not yet uploaded, unless a
`Close` has failed (`BufferOK`); what was read is the beginning of the data the
reader was opened on, which was the data of that key (`ReaderOK`, with the data of
every object in `versions`); a running addition carries the properties it has read
and its own (`PropertiesOK`), and all in `added` are in their objects (`AllFound`).
The second needs the first: an update, merged or not, keeps what its addition had
seen, and what it had not seen leaves `added` (`UpdateIsAdded`). A program without a
file has none of this (`NoFileYet`).

**Publishing.** `LookupInv` says that what a search has found was held by one of
its keys, and that each key it passed over was empty at some moment since it
asked. `PhaseInv` ties the results and the client to `pc`; `WaitedInv` says that no
result waited for is pending, and which one failed first; `ResultInv` and `CopyInv`
are the two directions between results and stored copies: a published result
names a confirmed copy of this call, and a confirmed copy of this call is in its
result. `CopyInv` also says that later calls store later, from which `IdInv`, that
an id is that of the last confirmed copy, is inductive. With an ordering key the
results that are in form a beginning of the batch and so do the copies
(`OrderInv`). The argument is one lemma per part for a step of one call, and one
for what `BundlePublished` and `BundleFails` do to all of them.

What proving changed in the models: the type invariants of all six modules now
also say what their steps rely on (which goroutine may be in which section, that
a frame with nothing left to visit is at its end, which clients a `pc` may
hold), and assumptions that had been left to the instances are stated and
named. Three things were wrong and are mended. `Apart`, the precondition of the
properties of `Copy` and `Move`, compared the two keys and let through a `Move` of
`df/` to `d`, which copies `df/f/x` to `df/x`, into its own source: it now compares
the two trees. `Undisputed` did not count the marker `a/` as disputing the file `a`,
where `Delete("a")` leaves the marker. And `TypeOK` did not say what `started`
is a function of. `convertSchema` and the loops that leave nil parts out are
written as recursive functions within an operator, and the two outlines of a
schema as one reader (`Outline`), so that the provers can expand them.

**What stays with TLC, and why.** Liveness (`OverListenersStop`, `CloseReturns`,
`CallsReturn`, `WorkersEnd`, `DrainingCallerFinishes`,
`ErrorFirstFinishesWithinCapacity`, and the fairness part of `ImplementsGroup`): the
prover handles neither `ENABLED` nor fairness. All safety properties the passing
runs check are proved.

## 5. Not modelled

* The bodies of messages, and how a path becomes the full name of a topic or
  subscription beyond the host it needs.
* The payload of a credential: JSON and what parsing falls back to. Pointers:
  that the secret store hands the same credential to every caller. `Close` of the
  secret store, which closes its client.
* Getters that only read fields (`Name`, `Models` and the like), and logging.
* A setter called on a `Config` that is registered already: the struct has no
  lock, so this is a data race with every lookup; the READMEs fill a Config in
  first.
* `List` with a delimiter and `Walk` with a callback that fails, which change
  nothing; the `Raw` variants, which parse a URL and call the modelled operation;
  `Parent`; the offset of a file, which `Seek` returns and nothing reads; the
  content type; an error from closing a reader.
* The client libraries beyond how they are used.
* Two files of one name, and moves into the moved tree, are in the model of
  `StorageTree` but left out of three of its properties (`Undisputed`,
  `Apart`): the documentation does not say what should happen. What does: with
  two such names a failed request can make `Move` copy the one and delete the
  other; a move into its own tree deletes the copy with the source.
* Modelled, but without a property, as nothing is promised: two additions to one
  object that overlap can lose a property where the update replaces the metadata
  (`Updated`), and every flush drops the properties of its object; `ReceiveBatch`
  waits for leases beyond its `Timeout`; after a `Close` that failed in `io.Copy`
  the reader stays open; of a message's part with several contents all but the
  first are dropped; markers and empty
  directories are not copied; `DeleteAll` of a directory without a marker ends
  in an error; from `a/` to `d` the copies are named `db`, not `d/b`; a batch
  that fails drops what it collected; a secret without a version stays when
  `AddSecretVersion` fails after `CreateSecret`.

## 6. Plan

1. Done: `ListenerGroup`, `PubSubListener` and its proofs, `SecretStore` and its
   proofs, `PubSubReceive`, `GenaiSchema`, `GenaiConvert`, `GenaiStream`,
   `GcpConfig`, `PubSubPublish`, `StorageTree`, `StorageFile`.
2. Done: proofs of every safety property the passing runs check.
3. Done: `ResponseStream`, which `GenaiStream` implements. `CacheCoherent` says
   of every `Get` what a linearizable register would.
4. Left: `SecretStore` as an implementation of such a register, which needs a
   history of the answers given (an abstract state that keeps only the newest
   does not see an older one returned); liveness beyond the small instances.

Each proof module needs the components' `TypeOK` first. New runs replace or
extend those above where one instance can answer two questions.

## 7. Running

```
tlc -workers 2 -config PubSubListener.cfg MCPubSubListener.tla
tlapm PubSubListenerProofs.tla
```

The longest run, `StorageTree`, takes about two minutes, each proof module a few minutes.
