----------------------------- MODULE SecretStore -----------------------------
(***************************************************************************)
(* The credential store of src/secrets/gcpsecretstore.go: Get, Write,      *)
(* Delete, List and ClearCache of a GCPSecretStore called by several       *)
(* goroutines, its sync.RWMutex, its cache with a time to live, and        *)
(* Secret Manager behind it, where other programs may write and delete     *)
(* too and where a reply may be lost after the request took effect.        *)
(*                                                                         *)
(* A credential is abstracted to the number Secret Manager's versions get  *)
(* here: unique and growing over all secrets.  What happens under the      *)
(* write lock to the maps of the store is one step with the reply it       *)
(* follows; what happens under the read lock is not.                       *)
(*                                                                         *)
(* External: sync.RWMutex, Secret Manager, the clock, and the Go runtime,  *)
(* which may stop the program when it sees a map written by one goroutine  *)
(* while another reads or writes it.                                       *)
(***************************************************************************)
EXTENDS Naturals, FiniteSets

CONSTANTS Clients, Keys,
          CacheTTL,      \* GCPSecretStoreConfig.CacheTTL: 0 or not
          MaxVersion,    \* bound: the versions ever added
          NoOne          \* the owner of a free lock

ASSUME CacheTTLAssumption == CacheTTL \in Nat
ASSUME MaxVersionAssumption == MaxVersion \in Nat
ASSUME NoOneAssumption == NoOne \notin Clients
ASSUME KeysAssumption == Keys # {}

VARIABLES
    w,         \* RWMutex: the writer that holds it or waits for the readers
    readers,   \* RWMutex: the goroutines inside the read lock
    pc, op,    \* where each goroutine is, in which call, on which key
    got,       \* the version Get has read from Secret Manager
    cache,     \* GCPSecretStore.cache; 0 is an absent entry
    fresh,     \* the keys whose lastSync is less than CacheTTL ago
    secret,    \* Secret Manager: the secrets that exist
    latest,    \* Secret Manager: the latest version of each; 0 is none
    versions,  \* the number of versions added so far
    floor,     \* history: what the calls that ended without error established
    high,      \* history: the newest version any ended call returned or wrote
    start,     \* history: floor and high of the key when the Get began
    outside,   \* history: the keys other programs have changed
    doubtful   \* history: the keys with a request that worked and was lost

lockVars  == <<w, readers>>
callVars  == <<pc, op, got, start>>
cacheVars == <<cache, fresh>>
remoteVars == <<secret, latest, versions, doubtful>>
historyVars == <<floor, high>>
vars == <<lockVars, callVars, cacheVars, remoteVars, historyVars, outside>>

None == 0
Newer(a, b) == IF a > b THEN a ELSE b
Locations == {"idle", "rblocked", "looking", "accessing", "filling", "storing",
              "listing", "queued", "announced", "checking", "creating",
              "adding", "deleting", "clearing", "dead"}
ReadSections == {"looking", "accessing", "filling", "storing", "listing"}
Calls == {"Get", "List", "Write", "Delete", "ClearCache"}
ReadCalls == {"Get", "List"}
NoCall == [call |-> "None", key |-> CHOOSE k \in Keys : TRUE]
Nothing == [floor |-> 0, high |-> 0]

Init ==
    /\ w = NoOne /\ readers = {}
    /\ pc = [c \in Clients |-> "idle"]
    /\ op = [c \in Clients |-> NoCall]
    /\ got = [c \in Clients |-> None]
    /\ start = [c \in Clients |-> Nothing]
    /\ cache = [k \in Keys |-> None] /\ fresh = {}
    /\ secret = {} /\ latest = [k \in Keys |-> None] /\ versions = 0
    /\ doubtful = {} /\ outside = {}
    /\ floor = [k \in Keys |-> 0] /\ high = [k \in Keys |-> 0]

Goto(c, from, to) == pc[c] = from /\ pc' = [pc EXCEPT ![c] = to]
-----------------------------------------------------------------------------
(* The lock. *)

FirstLine(call) == IF call = "Get" THEN "looking" ELSE "listing"

(* RLock: inside at once, unless a writer holds the lock or has asked. *)
CallReader(c, call, k) ==
    /\ IF w = NoOne
       THEN /\ Goto(c, "idle", FirstLine(call))
            /\ readers' = readers \union {c}
       ELSE /\ Goto(c, "idle", "rblocked")
            /\ UNCHANGED readers
    /\ op' = [op EXCEPT ![c] = [call |-> call, key |-> k]]
    /\ start' = [start EXCEPT ![c] = IF call = "Get"
                                     THEN [floor |-> floor[k], high |-> high[k]]
                                     ELSE Nothing]
    /\ UNCHANGED <<w, got, cacheVars, remoteVars, historyVars, outside>>

CallWriter(c, call, k) ==
    /\ Goto(c, "idle", "queued")
    /\ op' = [op EXCEPT ![c] = [call |-> call, key |-> k]]
    /\ UNCHANGED <<lockVars, got, start, cacheVars, remoteVars, historyVars,
                   outside>>

(* Lock, first half: one writer at a time, and no new reader from here on. *)
Announce(c) ==
    /\ w = NoOne
    /\ Goto(c, "queued", "announced")
    /\ w' = c
    /\ UNCHANGED <<readers, op, got, start, cacheVars, remoteVars, historyVars,
                   outside>>

(* Lock, second half: the readers that were inside have left. *)
Acquire(c) ==
    /\ readers = {}
    /\ pc[c] = "announced"
    /\ pc' = [pc EXCEPT ![c] = CASE op[c].call = "Write"  -> "checking"
                                 [] op[c].call = "Delete" -> "deleting"
                                 [] OTHER                 -> "clearing"]
    /\ UNCHANGED <<lockVars, op, got, start, cacheVars, remoteVars, historyVars,
                   outside>>

(* The deferred RUnlock and the return. *)
ReturnReader(c) ==
    /\ pc' = [pc EXCEPT ![c] = "idle"]
    /\ readers' = readers \ {c}
    /\ op' = [op EXCEPT ![c] = NoCall]
    /\ got' = [got EXCEPT ![c] = None]
    /\ start' = [start EXCEPT ![c] = Nothing]
    /\ UNCHANGED w

(* The deferred Unlock, which lets all waiting readers in, and the return. *)
ReturnWriter(c) ==
    /\ pc' = [d \in Clients |-> IF d = c THEN "idle"
                                ELSE IF pc[d] = "rblocked" THEN FirstLine(op[d].call)
                                ELSE pc[d]]
    /\ readers' = {d \in Clients : pc[d] = "rblocked"}
    /\ w' = NoOne
    /\ op' = [op EXCEPT ![c] = NoCall]
    /\ UNCHANGED <<got, start>>
-----------------------------------------------------------------------------
(* Get. *)

Hit(k) == cache[k] # None /\ (CacheTTL = 0 \/ k \in fresh)

Answered(c, v) ==
    /\ high' = [high EXCEPT ![op[c].key] = Newer(@, v)]
    /\ UNCHANGED floor

GetHit(c) ==
    /\ pc[c] = "looking" /\ Hit(op[c].key)
    /\ ReturnReader(c)
    /\ Answered(c, cache[op[c].key])
    /\ UNCHANGED <<cacheVars, remoteVars, outside>>

(* Mutant: Get lets go of the lock before it asks Secret Manager. *)
MutantGetMissUnlocks(c) ==
    /\ ~Hit(op[c].key)
    /\ Goto(c, "looking", "accessing")
    /\ readers' = readers \ {c}
    /\ UNCHANGED <<w, op, got, start, cacheVars, remoteVars, historyVars, outside>>

GetMiss(c) ==
    /\ ~Hit(op[c].key)
    /\ Goto(c, "looking", "accessing")
    /\ UNCHANGED <<lockVars, op, got, start, cacheVars, remoteVars, historyVars,
                   outside>>

(* AccessSecretVersion of versions/latest answers with a payload. *)
AccessSecretVersion(c) ==
    /\ latest[op[c].key] # None
    /\ Goto(c, "accessing", "filling")
    /\ got' = [got EXCEPT ![c] = latest[op[c].key]]
    /\ UNCHANGED <<lockVars, op, start, cacheVars, remoteVars, historyVars,
                   outside>>

(* Mutant: the error path returns without RUnlock. *)
MutantAccessFailsLocked(c) ==
    /\ Goto(c, "accessing", "idle")
    /\ UNCHANGED <<lockVars, op, got, start, cacheVars, remoteVars, historyVars,
                   outside>>

(* It fails: no such secret, no version, or any other error. *)
AccessFails(c) ==
    /\ pc[c] = "accessing"
    /\ ReturnReader(c)
    /\ UNCHANGED <<cacheVars, remoteVars, historyVars, outside>>

(* The assignment to the maps begins, under the read lock only ... *)
BeginStore(c) ==
    /\ Goto(c, "filling", "storing")
    /\ UNCHANGED <<lockVars, op, got, start, cacheVars, remoteVars, historyVars,
                   outside>>

(* ... and ends, and Get returns. *)
EndStore(c) ==
    /\ pc[c] = "storing"
    /\ cache' = [cache EXCEPT ![op[c].key] = got[c]]
    /\ fresh' = fresh \union {op[c].key}
    /\ ReturnReader(c)
    /\ Answered(c, got[c])
    /\ UNCHANGED <<remoteVars, outside>>

(* fatal error: concurrent map writes / concurrent map read and map write.  *)
(* The whole program stops, and its cache is gone with it.                  *)
ConcurrentMapAccess ==
    \E c, d \in Clients :
        c # d /\ pc[c] = "storing" /\ pc[d] \in {"storing", "looking"}

Crash ==
    /\ ConcurrentMapAccess
    /\ pc' = [c \in Clients |-> "dead"]
    /\ w' = NoOne /\ readers' = {}
    /\ op' = [c \in Clients |-> NoCall]
    /\ got' = [c \in Clients |-> None]
    /\ start' = [c \in Clients |-> Nothing]
    /\ cache' = [k \in Keys |-> None] /\ fresh' = {}
    /\ UNCHANGED <<remoteVars, historyVars, outside>>
-----------------------------------------------------------------------------
(* List: the pages of the iterator, read under the read lock. *)
ListReturns(c) ==
    /\ pc[c] = "listing"
    /\ ReturnReader(c)
    /\ UNCHANGED <<cacheVars, remoteVars, historyVars, outside>>
-----------------------------------------------------------------------------
(* Write. *)

AddsVersion(k) ==
    /\ versions < MaxVersion
    /\ versions' = versions + 1
    /\ latest' = [latest EXCEPT ![k] = versions + 1]

(* GetSecret finds the secret ... *)
SecretFound(c) ==
    /\ op[c].key \in secret
    /\ Goto(c, "checking", "adding")
    /\ UNCHANGED <<lockVars, op, got, start, cacheVars, remoteVars, historyVars,
                   outside>>

(* ... or any error is taken for its absence. *)
SecretNotFound(c) ==
    /\ Goto(c, "checking", "creating")
    /\ UNCHANGED <<lockVars, op, got, start, cacheVars, remoteVars, historyVars,
                   outside>>

CreateSecret(c) ==
    /\ op[c].key \notin secret
    /\ Goto(c, "creating", "adding")
    /\ secret' = secret \union {op[c].key}
    /\ UNCHANGED <<lockVars, op, got, start, cacheVars, latest, versions, doubtful,
                   historyVars, outside>>

(* An error, AlreadyExists or another; the secret may exist all the same. *)
CreateFails(c) ==
    /\ pc[c] = "creating"
    /\ secret' \in {secret, secret \union {op[c].key}}
    /\ ReturnWriter(c)
    /\ UNCHANGED <<cacheVars, latest, versions, doubtful, historyVars, outside>>

(* AddSecretVersion succeeds, and the cache takes the credential over. *)
AddSecretVersion(c) ==
    LET k == op[c].key IN
    /\ pc[c] = "adding" /\ k \in secret
    /\ AddsVersion(k)
    /\ cache' = [cache EXCEPT ![k] = versions + 1]
    /\ fresh' = fresh \union {k}
    /\ floor' = [floor EXCEPT ![k] = versions + 1]
    /\ high' = [high EXCEPT ![k] = versions + 1]
    /\ ReturnWriter(c)
    /\ UNCHANGED <<secret, doubtful, outside>>

(* Mutant: the cache takes the credential over whether it was stored or not. *)
MutantCacheWhateverHappens(c) ==
    LET k == op[c].key IN
    /\ pc[c] = "adding"
    /\ versions < MaxVersion /\ versions' = versions + 1
    /\ cache' = [cache EXCEPT ![k] = versions + 1]
    /\ fresh' = fresh \union {k}
    /\ ReturnWriter(c)
    /\ UNCHANGED <<secret, latest, doubtful, historyVars, outside>>

(* It fails: the cache keeps what it has, with or without the new version   *)
(* in Secret Manager.                                                       *)
AddVersionFails(c) ==
    LET k == op[c].key IN
    /\ pc[c] = "adding"
    /\ \/ UNCHANGED <<latest, versions, doubtful>>
       \/ /\ k \in secret
          /\ AddsVersion(k)
          /\ doubtful' = doubtful \union {k}
    /\ ReturnWriter(c)
    /\ UNCHANGED <<secret, cacheVars, historyVars, outside>>
-----------------------------------------------------------------------------
(* Delete and ClearCache. *)

(* Mutant: the cache entry survives the secret. *)
MutantDeleteKeepsCache(c) ==
    LET k == op[c].key IN
    /\ pc[c] = "deleting" /\ k \in secret
    /\ secret' = secret \ {k}
    /\ latest' = [latest EXCEPT ![k] = None]
    /\ floor' = [floor EXCEPT ![k] = versions + 1]
    /\ ReturnWriter(c)
    /\ UNCHANGED <<versions, doubtful, cacheVars, high, outside>>

DeleteSecret(c) ==
    LET k == op[c].key IN
    /\ pc[c] = "deleting" /\ k \in secret
    /\ secret' = secret \ {k}
    /\ latest' = [latest EXCEPT ![k] = None]
    /\ cache' = [cache EXCEPT ![k] = None]
    /\ fresh' = fresh \ {k}
    /\ floor' = [floor EXCEPT ![k] = versions + 1]
    /\ ReturnWriter(c)
    /\ UNCHANGED <<versions, doubtful, high, outside>>

(* An error, NotFound or another: the cache is not touched. *)
DeleteFails(c) ==
    LET k == op[c].key IN
    /\ pc[c] = "deleting"
    /\ \/ UNCHANGED <<secret, latest, doubtful>>
       \/ /\ k \in secret
          /\ secret' = secret \ {k}
          /\ latest' = [latest EXCEPT ![k] = None]
          /\ doubtful' = doubtful \union {k}
    /\ ReturnWriter(c)
    /\ UNCHANGED <<versions, cacheVars, historyVars, outside>>

ClearCache(c) ==
    /\ pc[c] = "clearing"
    /\ cache' = [k \in Keys |-> None] /\ fresh' = {}
    /\ ReturnWriter(c)
    /\ UNCHANGED <<remoteVars, historyVars, outside>>
-----------------------------------------------------------------------------
(* The clock and the other programs. *)

(* lastSync grows older than CacheTTL; with a CacheTTL of 0 nobody looks. *)
EntryExpires(k) ==
    /\ CacheTTL > 0
    /\ k \in fresh
    /\ fresh' = fresh \ {k}
    /\ UNCHANGED <<lockVars, callVars, cache, remoteVars, historyVars, outside>>

OutsideWrite(k) ==
    /\ secret' = secret \union {k}
    /\ AddsVersion(k)
    /\ outside' = outside \union {k}
    /\ UNCHANGED <<lockVars, callVars, cacheVars, doubtful, historyVars>>

OutsideDelete(k) ==
    /\ k \in secret
    /\ secret' = secret \ {k}
    /\ latest' = [latest EXCEPT ![k] = None]
    /\ outside' = outside \union {k}
    /\ UNCHANGED <<lockVars, callVars, cacheVars, versions, doubtful, historyVars>>
-----------------------------------------------------------------------------
GetStep(c) ==
    \/ GetHit(c) \/ GetMiss(c) \/ AccessSecretVersion(c) \/ AccessFails(c)
    \/ BeginStore(c) \/ EndStore(c)
WriteStep(c) ==
    \/ SecretFound(c) \/ SecretNotFound(c) \/ CreateSecret(c) \/ CreateFails(c)
    \/ AddSecretVersion(c) \/ AddVersionFails(c)
DeleteStep(c) == DeleteSecret(c) \/ DeleteFails(c)
Proceed(c) ==
    \/ Acquire(c) \/ GetStep(c) \/ WriteStep(c) \/ DeleteStep(c)
    \/ ClearCache(c) \/ ListReturns(c)

ClientNext(c) ==
    \/ \E k \in Keys :
          \/ \E call \in ReadCalls : CallReader(c, call, k)
          \/ \E call \in Calls \ ReadCalls : CallWriter(c, call, k)
    \/ Announce(c) \/ Proceed(c)
Environment == \E k \in Keys : EntryExpires(k) \/ OutsideWrite(k) \/ OutsideDelete(k)

Crashed == \E c \in Clients : pc[c] = "dead"
Halted == Crashed /\ UNCHANGED vars

Next == Crash \/ Environment \/ Halted \/ \E c \in Clients : ClientNext(c)

Spec == Init /\ [][Next]_vars

(* A call that has begun goes on: requests are answered or fail, a writer   *)
(* that waits for the lock gets it in its turn (sync.Mutex is fair to those *)
(* that wait long).  Nobody has to call, and no entry has to expire.        *)
Fairness ==
    \A c \in Clients : /\ WF_vars(Proceed(c))
                       /\ SF_vars(Announce(c))

FairSpec == Spec /\ Fairness
-----------------------------------------------------------------------------
LockTypeOK ==
    /\ w \in Clients \union {NoOne}
    /\ readers = {c \in Clients : pc[c] \in ReadSections}

CallTypeOK ==
    /\ pc \in [Clients -> Locations]
    /\ op \in [Clients -> [call : Calls \union {"None"}, key : Keys]]
    /\ got \in [Clients -> 0..MaxVersion]
    /\ start \in [Clients -> [floor : 0..(MaxVersion + 1), high : 0..MaxVersion]]

CacheTypeOK ==
    /\ cache \in [Keys -> 0..MaxVersion]
    /\ fresh \in SUBSET Keys

RemoteTypeOK ==
    /\ secret \in SUBSET Keys
    /\ latest \in [Keys -> 0..MaxVersion]
    /\ versions \in 0..MaxVersion
    /\ doubtful \in SUBSET Keys

HistoryTypeOK ==
    /\ floor \in [Keys -> 0..(MaxVersion + 1)]
    /\ high \in [Keys -> 0..MaxVersion]
    /\ outside \in SUBSET Keys

(* Type invariant; the readers inside the lock are those in a read section. *)
TypeOK ==
    /\ LockTypeOK /\ CallTypeOK /\ CacheTypeOK /\ RemoteTypeOK
    /\ HistoryTypeOK

(* The version a Get is about to return, if it is. *)
Returns(c, v) ==
    /\ op[c].call = "Get"
    /\ \/ pc[c] = "looking" /\ Hit(op[c].key) /\ v = cache[op[c].key]
       \/ pc[c] \in {"filling", "storing"} /\ v = got[c]

(* A Get never returns a credential older than the last Write of the key    *)
(* that ended well before the Get began, nor one from before a Delete that  *)
(* ended well, whatever fails, expires or is changed by others: Write and   *)
(* Delete hold the lock over request and cache, and a fill holds it too.    *)
NoStaleRead ==
    \A c \in Clients : \A v \in 1..MaxVersion :
        Returns(c, v) => v >= start[c].floor

(* As long as no other program changes the key, no Get returns a version    *)
(* older than one another call returned before: of two fills the later      *)
(* cannot put back what the earlier replaced.  Lost replies do not matter.  *)
NoGoingBack ==
    \A c \in Clients : \A v \in 1..MaxVersion :
        Returns(c, v) /\ op[c].key \notin outside => v >= start[c].high

(* On the keys only this store changes, and for which no reply was lost,    *)
(* the cache agrees with Secret Manager, and at the moment a Get returns,   *)
(* from the cache or from a request, its credential is the one stored: it   *)
(* is as if it had asked Secret Manager just then (l.64-122).               *)
CacheCoherent ==
    LET Undisputed == Keys \ (outside \union doubtful) IN
    /\ \A k \in Undisputed : cache[k] \in {None, latest[k]}
    /\ \A c \in Clients : \A v \in 1..MaxVersion :
          Returns(c, v) /\ op[c].key \in Undisputed => v = latest[op[c].key]

(* Every call that has begun comes back: no error path keeps the lock, and  *)
(* readers and writers cannot starve each other.                            *)
CallsReturn == \A c \in Clients : pc[c] # "idle" ~> pc[c] \in {"idle", "dead"}

(* The package says that all operations are safe for concurrent use.        *)
SafeForConcurrentUse == ~Crashed

(* The configuration says that a CacheTTL of 0 means no caching.            *)
ZeroTTLMeansNoCaching ==
    CacheTTL = 0 =>
        \A c \in Clients : pc[c] = "looking" => ~Hit(op[c].key)
=============================================================================
