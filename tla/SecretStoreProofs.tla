-------------------------- MODULE SecretStoreProofs --------------------------
(***************************************************************************)
(* Proofs about SecretStore: for any goroutines, keys and bounds, a Get    *)
(* never returns a credential older than the last Write or Delete that     *)
(* ended well before it began, nor, for keys no other program changes, one *)
(* older than another call has returned.  The argument: a call that has    *)
(* the write lock is alone, so the version a Get carries from Secret       *)
(* Manager to the cache cannot be overtaken on the way.                    *)
(***************************************************************************)
EXTENDS SecretStore, TLAPS

(* A writer inside the lock is the only one, and no reader is inside. *)
Held == {"checking", "creating", "adding", "deleting", "clearing"}
LockInv ==
    \A c \in Clients :
        /\ pc[c] \in Held \union {"announced"} => w = c
        /\ pc[c] \in Held => readers = {}

(* What is counted: nothing is newer than the last version. *)
CountInv ==
    /\ \A k \in Keys : /\ floor[k] <= versions + 1
                       /\ high[k] <= versions
                       /\ latest[k] <= versions
                       /\ cache[k] <= versions
    /\ \A c \in Clients : got[c] <= versions

(* What Secret Manager and the cache hold is not below the floor. *)
FloorInv ==
    \A k \in Keys : /\ latest[k] # None => floor[k] <= latest[k]
                    /\ cache[k] # None => floor[k] <= cache[k]

(* The keys no other program has changed: what was returned is not newer    *)
(* than the cache, nor the cache than Secret Manager.                       *)
OwnInv ==
    \A k \in Keys \ outside :
        /\ latest[k] # None => high[k] <= latest[k]
        /\ cache[k] # None => high[k] <= cache[k]
        /\ cache[k] # None /\ latest[k] # None => cache[k] <= latest[k]
        /\ k \notin doubtful => cache[k] \in {None, latest[k]}

(* The version a Get carries to the cache. *)
GetInv ==
    \A c \in Clients : pc[c] \in {"filling", "storing"} =>
        /\ got[c] # None
        /\ floor[op[c].key] <= got[c]
        /\ op[c].key \notin outside => got[c] = latest[op[c].key]

(* Floors and highs only grow while a Get runs. *)
StartInv ==
    \A c \in Clients : op[c].call = "Get" =>
        /\ start[c].floor <= floor[op[c].key]
        /\ start[c].high <= high[op[c].key]

IInv == TypeOK /\ LockInv /\ CountInv /\ FloorInv /\ OwnInv /\ GetInv /\ StartInv
-----------------------------------------------------------------------------
(***************************************************************************)
(* Types.                                                                  *)
(***************************************************************************)

LEMMA InitTyped == Init => TypeOK
<1> SUFFICES ASSUME Init PROVE TypeOK
  OBVIOUS
<1> USE MaxVersionAssumption DEF Init
<1>1. LockTypeOK
  BY DEF LockTypeOK, ReadSections
<1>2. CallTypeOK
  <2>1. NoCall \in [call : Calls \union {"None"}, key : Keys]
    BY KeysAssumption DEF NoCall
  <2>2. QED BY <2>1 DEF CallTypeOK, Locations, Nothing, None
<1>3. CacheTypeOK /\ RemoteTypeOK /\ HistoryTypeOK
  BY DEF CacheTypeOK, RemoteTypeOK, HistoryTypeOK, None
<1>4. QED BY <1>1, <1>2, <1>3 DEF TypeOK

(* The deferred RUnlock. *)
LEMMA ReturnReaderTyped ==
    ASSUME TypeOK, NEW c \in Clients, ReturnReader(c)
    PROVE  LockTypeOK' /\ CallTypeOK'
<1> USE DEF TypeOK, LockTypeOK, CallTypeOK, ReturnReader
<1>1. LockTypeOK'
  BY DEF ReadSections
<1>2. NoCall \in [call : Calls \union {"None"}, key : Keys]
  BY KeysAssumption DEF NoCall
<1>3. CallTypeOK'
  BY <1>2, MaxVersionAssumption DEF Locations, Nothing, None
<1>4. QED BY <1>1, <1>3

(* The deferred Unlock: the readers it lets in are the only ones. *)
LEMMA ReturnWriterTyped ==
    ASSUME TypeOK, LockInv, NEW c \in Clients, pc[c] \in Held, ReturnWriter(c)
    PROVE  LockTypeOK' /\ CallTypeOK'
<1> USE DEF TypeOK, LockTypeOK, CallTypeOK, ReturnWriter
<1>1. \A d \in Clients : pc[d] \notin ReadSections
  BY DEF LockInv
<1>2. LockTypeOK'
  BY <1>1 DEF ReadSections, FirstLine, Held
<1>3. NoCall \in [call : Calls \union {"None"}, key : Keys]
  BY KeysAssumption DEF NoCall
<1>4. CallTypeOK'
  BY <1>3 DEF Locations, FirstLine
<1>5. QED BY <1>2, <1>4

(* The calls of the four operations, and the lock of the writers. *)
LEMMA CallTyped ==
    ASSUME TypeOK, NEW c \in Clients, NEW k \in Keys,
           \/ \E call \in ReadCalls : CallReader(c, call, k)
           \/ \E call \in Calls \ ReadCalls : CallWriter(c, call, k)
           \/ Announce(c) \/ Acquire(c)
    PROVE  TypeOK'
<1> USE DEF TypeOK, LockTypeOK, CallTypeOK, Goto, lockVars
<1>1. CacheTypeOK' /\ RemoteTypeOK' /\ HistoryTypeOK'
  BY DEF CallReader, CallWriter, Announce, Acquire, cacheVars, remoteVars,
         historyVars, CacheTypeOK, RemoteTypeOK, HistoryTypeOK
<1>2. CASE \E call \in ReadCalls : CallReader(c, call, k)
  <2>1. PICK call \in ReadCalls : CallReader(c, call, k)
    BY <1>2
  <2>2. LockTypeOK'
    BY <2>1 DEF CallReader, ReadCalls, FirstLine, ReadSections
  <2>3. start' \in [Clients -> [floor : 0..(MaxVersion + 1), high : 0..MaxVersion]]
    BY <2>1, MaxVersionAssumption DEF CallReader, HistoryTypeOK, Nothing
  <2>4. CallTypeOK'
    BY <2>1, <2>3 DEF CallReader, ReadCalls, Calls, FirstLine, Locations
  <2>5. QED BY <1>1, <2>2, <2>4
<1>3. CASE \E call \in Calls \ ReadCalls : CallWriter(c, call, k)
  <2>1. PICK call \in Calls \ ReadCalls : CallWriter(c, call, k)
    BY <1>3
  <2>2. LockTypeOK'
    BY <2>1 DEF CallWriter, ReadSections
  <2>3. CallTypeOK'
    BY <2>1 DEF CallWriter, Locations
  <2>4. QED BY <1>1, <2>2, <2>3
<1>4. CASE Announce(c)
  BY <1>1, <1>4 DEF Announce, ReadSections, Locations
<1>5. CASE Acquire(c)
  BY <1>1, <1>5 DEF Acquire, ReadSections, Locations
<1>6. QED BY <1>2, <1>3, <1>4, <1>5

(* Get and List. *)
LEMMA ReaderTyped ==
    ASSUME TypeOK, NEW c \in Clients, GetStep(c) \/ ListReturns(c)
    PROVE  TypeOK'
<1> USE DEF TypeOK, Goto, lockVars
<1>1. op[c].key \in Keys
  BY DEF CallTypeOK
<1>2. RemoteTypeOK'
  BY DEF GetStep, GetHit, GetMiss, AccessSecretVersion, AccessFails, BeginStore,
         EndStore, ListReturns, remoteVars, RemoteTypeOK
<1>3. CASE GetMiss(c) \/ AccessSecretVersion(c) \/ BeginStore(c)
  <2>1. LockTypeOK'
    BY <1>3 DEF GetMiss, AccessSecretVersion, BeginStore, LockTypeOK, CallTypeOK,
                ReadSections
  <2>2. CallTypeOK'
    BY <1>1, <1>3 DEF GetMiss, AccessSecretVersion, BeginStore, CallTypeOK,
                      Locations, RemoteTypeOK
  <2>3. QED BY <1>2, <1>3, <2>1, <2>2
             DEF GetMiss, AccessSecretVersion, BeginStore, cacheVars, historyVars,
                 CacheTypeOK, HistoryTypeOK
<1>4. CASE GetHit(c) \/ AccessFails(c) \/ EndStore(c) \/ ListReturns(c)
  <2>1. LockTypeOK' /\ CallTypeOK'
    BY <1>4, ReturnReaderTyped DEF GetHit, AccessFails, EndStore, ListReturns
  <2>2. CacheTypeOK'
    BY <1>1, <1>4 DEF GetHit, AccessFails, EndStore, ListReturns, cacheVars,
                      CacheTypeOK, CallTypeOK
  <2>3. HistoryTypeOK'
    BY <1>1, <1>4 DEF GetHit, AccessFails, EndStore, ListReturns, Answered, Newer,
                      historyVars, HistoryTypeOK, CacheTypeOK, CallTypeOK
  <2>4. QED BY <1>2, <2>1, <2>2, <2>3
<1>5. QED BY <1>3, <1>4 DEF GetStep

(* Write, Delete and ClearCache, inside the lock. *)
WriterStep(c) == WriteStep(c) \/ DeleteStep(c) \/ ClearCache(c)

LEMMA WriterTyped ==
    ASSUME TypeOK, LockInv, NEW c \in Clients, WriterStep(c)
    PROVE  TypeOK'
<1> USE DEF TypeOK, Goto, lockVars
<1>1. op[c].key \in Keys
  BY DEF CallTypeOK
<1>2. CASE SecretFound(c) \/ SecretNotFound(c) \/ CreateSecret(c)
  <2>1. LockTypeOK'
    BY <1>2 DEF SecretFound, SecretNotFound, CreateSecret, LockTypeOK, CallTypeOK,
                ReadSections
  <2>2. CallTypeOK' /\ RemoteTypeOK'
    BY <1>1, <1>2 DEF SecretFound, SecretNotFound, CreateSecret, CallTypeOK,
                      Locations, RemoteTypeOK, remoteVars
  <2>3. QED BY <1>2, <2>1, <2>2
             DEF SecretFound, SecretNotFound, CreateSecret, cacheVars, historyVars,
                 CacheTypeOK, HistoryTypeOK
<1>3. CASE \/ CreateFails(c) \/ AddSecretVersion(c) \/ AddVersionFails(c)
           \/ DeleteSecret(c) \/ DeleteFails(c) \/ ClearCache(c)
  <2>1. pc[c] \in Held /\ ReturnWriter(c)
    BY <1>3 DEF CreateFails, AddSecretVersion, AddVersionFails, DeleteSecret,
                DeleteFails, ClearCache, Held
  <2>2. LockTypeOK' /\ CallTypeOK'
    BY <2>1, ReturnWriterTyped
  <2>3. CacheTypeOK'
    BY <1>1, <1>3, MaxVersionAssumption
       DEF CreateFails, AddSecretVersion, AddVersionFails, DeleteSecret,
           DeleteFails, ClearCache, AddsVersion, None, cacheVars, CacheTypeOK,
           RemoteTypeOK
  <2>4. RemoteTypeOK'
    BY <1>1, <1>3, MaxVersionAssumption
       DEF CreateFails, AddSecretVersion, AddVersionFails, DeleteSecret,
           DeleteFails, ClearCache, AddsVersion, None, remoteVars, RemoteTypeOK
  <2>5. HistoryTypeOK'
    BY <1>1, <1>3, MaxVersionAssumption
       DEF CreateFails, AddSecretVersion, AddVersionFails, DeleteSecret,
           DeleteFails, ClearCache, AddsVersion, historyVars, HistoryTypeOK,
           RemoteTypeOK
  <2>6. QED BY <2>2, <2>3, <2>4, <2>5
<1>4. QED BY <1>2, <1>3 DEF WriterStep, WriteStep, DeleteStep

(* The other programs, the clock, and the end of the program. *)
LEMMA EnvironmentTyped ==
    ASSUME TypeOK, Environment \/ Crash
    PROVE  TypeOK'
<1> USE DEF TypeOK
<1>1. CASE Crash
  <2>1. NoCall \in [call : Calls \union {"None"}, key : Keys]
    BY KeysAssumption DEF NoCall
  <2>2. LockTypeOK'
    BY <1>1 DEF Crash, LockTypeOK, ReadSections
  <2>3. CallTypeOK'
    BY <1>1, <2>1, MaxVersionAssumption DEF Crash, CallTypeOK, Locations, Nothing, None
  <2>4. QED BY <1>1, <2>2, <2>3, MaxVersionAssumption
             DEF Crash, CacheTypeOK, RemoteTypeOK, HistoryTypeOK, remoteVars,
                 historyVars, None
<1>2. CASE Environment
  BY <1>2, MaxVersionAssumption
     DEF Environment, EntryExpires, OutsideWrite, OutsideDelete, AddsVersion,
         LockTypeOK, CallTypeOK, CacheTypeOK, RemoteTypeOK, HistoryTypeOK, None,
         lockVars, callVars, cacheVars, remoteVars, historyVars
<1>3. QED BY <1>1, <1>2

LEMMA TypedStep == TypeOK /\ LockInv /\ [Next]_vars => TypeOK'
<1> SUFFICES ASSUME TypeOK, LockInv, [Next]_vars PROVE TypeOK'
  OBVIOUS
<1>1. CASE Halted \/ UNCHANGED vars
  BY <1>1 DEF Halted, vars, lockVars, callVars, cacheVars, remoteVars, historyVars,
              TypeOK, LockTypeOK, CallTypeOK, CacheTypeOK, RemoteTypeOK,
              HistoryTypeOK
<1>2. CASE \E c \in Clients : ClientNext(c)
  BY <1>2, KeysAssumption, CallTyped, ReaderTyped, WriterTyped
     DEF ClientNext, Proceed, WriterStep
<1>3. QED BY <1>1, <1>2, EnvironmentTyped DEF Next
-----------------------------------------------------------------------------
(***************************************************************************)
(* Exclusion.                                                              *)
(***************************************************************************)

(* While a call is inside the write lock no Get carries anything. *)
LEMMA WriterAlone ==
    ASSUME TypeOK, LockInv, NEW c \in Clients, pc[c] \in Held
    PROVE  \A d \in Clients : pc[d] \notin ReadSections
BY DEF TypeOK, LockTypeOK, LockInv

LEMMA WriterReturns ==
    ASSUME NEW c \in Clients,
           \/ CreateFails(c) \/ AddSecretVersion(c) \/ AddVersionFails(c)
           \/ DeleteSecret(c) \/ DeleteFails(c) \/ ClearCache(c)
    PROVE  pc[c] \in Held /\ ReturnWriter(c)
BY DEF CreateFails, AddSecretVersion, AddVersionFails, DeleteSecret, DeleteFails,
       ClearCache, Held

LEMMA LockStep == TypeOK /\ LockInv /\ [Next]_vars => LockInv'
<1> SUFFICES ASSUME TypeOK, LockInv, [Next]_vars PROVE LockInv'
  OBVIOUS
<1> USE NoOneAssumption DEF LockInv, TypeOK, LockTypeOK, CallTypeOK, Goto, lockVars
<1>1. CASE Halted \/ UNCHANGED vars
  BY <1>1 DEF Halted, vars, callVars
<1>2. CASE Crash
  BY <1>2 DEF Crash, Held
<1>3. CASE Environment
  BY <1>3 DEF Environment, EntryExpires, OutsideWrite, OutsideDelete, callVars
<1>4. ASSUME NEW c \in Clients, ClientNext(c) PROVE LockInv'
  <2>1. CASE \E k \in Keys, call \in ReadCalls : CallReader(c, call, k)
    <3>1. PICK k \in Keys, call \in ReadCalls : CallReader(c, call, k)
      BY <2>1
    <3>2. QED BY <3>1 DEF CallReader, ReadCalls, FirstLine, Held
  <2>2. CASE \E k \in Keys, call \in Calls \ ReadCalls : CallWriter(c, call, k)
    BY <2>2 DEF CallWriter, Held
  <2>3. CASE Announce(c) \/ Acquire(c)
    BY <2>3 DEF Announce, Acquire, Held
  <2>4. CASE GetMiss(c) \/ AccessSecretVersion(c) \/ BeginStore(c)
    BY <2>4 DEF GetMiss, AccessSecretVersion, BeginStore, Held
  <2>5. CASE GetHit(c) \/ AccessFails(c) \/ EndStore(c) \/ ListReturns(c)
    BY <2>5 DEF GetHit, AccessFails, EndStore, ListReturns, ReturnReader, Held
  <2>6. CASE SecretFound(c) \/ SecretNotFound(c) \/ CreateSecret(c)
    BY <2>6 DEF SecretFound, SecretNotFound, CreateSecret, Held
  <2>7. CASE \/ CreateFails(c) \/ AddSecretVersion(c) \/ AddVersionFails(c)
             \/ DeleteSecret(c) \/ DeleteFails(c) \/ ClearCache(c)
    <3>1. pc[c] \in Held /\ ReturnWriter(c)
      BY <2>7, WriterReturns
    <3>2. \A d \in Clients : pc'[d] \notin Held \union {"announced"}
      BY <3>1 DEF ReturnWriter, FirstLine, Held
    <3>3. QED BY <3>2
  <2>8. QED BY <1>4, <2>1, <2>2, <2>3, <2>4, <2>5, <2>6, <2>7
             DEF ClientNext, Proceed, GetStep, WriteStep, DeleteStep
<1>5. QED BY <1>1, <1>2, <1>3, <1>4 DEF Next
-----------------------------------------------------------------------------
(***************************************************************************)
(* The versions.  DataInv is what IInv says of them; the four kinds of     *)
(* steps that keep it have a lemma each.                                   *)
(***************************************************************************)
DataInv == CountInv /\ FloorInv /\ OwnInv /\ GetInv /\ StartInv

(* Steps that move goroutines only, and neither into the middle of a Get.   *)
LEMMA MoveStep ==
    ASSUME TypeOK, DataInv, NEW c \in Clients,
           \/ \E k \in Keys, call \in ReadCalls : CallReader(c, call, k)
           \/ \E k \in Keys, call \in Calls \ ReadCalls : CallWriter(c, call, k)
           \/ Announce(c) \/ Acquire(c) \/ GetMiss(c) \/ BeginStore(c)
           \/ AccessFails(c) \/ ListReturns(c)
           \/ SecretFound(c) \/ SecretNotFound(c) \/ CreateSecret(c)
    PROVE  DataInv'
<1> USE DEF DataInv, TypeOK, CallTypeOK, Goto
<1>1. /\ UNCHANGED <<cacheVars, latest, versions, doubtful, historyVars, outside>>
      /\ \A d \in Clients : got'[d] = got[d] \/ got'[d] = None
      /\ \A d \in Clients : pc'[d] \in {"filling", "storing"} =>
            pc[d] \in {"filling", "storing"} /\ got'[d] = got[d] /\ op'[d] = op[d]
      /\ \A d \in Clients : op'[d].call = "Get" =>
            \/ op'[d] = op[d] /\ start'[d] = start[d]
            \/ /\ op'[d].key \in Keys
               /\ start'[d] = [floor |-> floor[op'[d].key], high |-> high[op'[d].key]]
  <2>1. CASE \E k \in Keys, call \in ReadCalls : CallReader(c, call, k)
    BY <2>1 DEF CallReader, ReadCalls, FirstLine, cacheVars, remoteVars, historyVars
  <2>2. CASE \E k \in Keys, call \in Calls \ ReadCalls : CallWriter(c, call, k)
    BY <2>2 DEF CallWriter, ReadCalls, cacheVars, remoteVars, historyVars
  <2>3. CASE Announce(c) \/ Acquire(c) \/ GetMiss(c) \/ BeginStore(c)
    BY <2>3 DEF Announce, Acquire, GetMiss, BeginStore, cacheVars, remoteVars,
                historyVars
  <2>4. CASE AccessFails(c) \/ ListReturns(c)
    BY <2>4 DEF AccessFails, ListReturns, ReturnReader, NoCall, cacheVars,
                remoteVars, historyVars
  <2>5. CASE SecretFound(c) \/ SecretNotFound(c) \/ CreateSecret(c)
    BY <2>5 DEF SecretFound, SecretNotFound, CreateSecret, cacheVars, remoteVars,
                historyVars
  <2>6. QED BY <2>1, <2>2, <2>3, <2>4, <2>5
<1> USE <1>1 DEF cacheVars, historyVars
<1>2. CountInv' /\ FloorInv' /\ OwnInv'
  BY DEF CountInv, FloorInv, OwnInv, RemoteTypeOK, None
<1>3. GetInv'
  BY DEF GetInv
<1>4. StartInv'
  <2> SUFFICES ASSUME NEW d \in Clients, op'[d].call = "Get"
               PROVE  /\ start'[d].floor <= floor[op'[d].key]
                      /\ start'[d].high <= high[op'[d].key]
    BY DEF StartInv
  <2>1. CASE op'[d] = op[d] /\ start'[d] = start[d]
    BY <2>1 DEF StartInv
  <2>2. CASE /\ op'[d].key \in Keys
             /\ start'[d] = [floor |-> floor[op'[d].key], high |-> high[op'[d].key]]
    BY <2>2 DEF HistoryTypeOK
  <2>3. QED BY <1>1, <2>1, <2>2
<1>5. QED BY <1>2, <1>3, <1>4

(* The steps of a Get that read or write a version. *)
LEMMA GetDataStep ==
    ASSUME TypeOK, DataInv, NEW c \in Clients,
           GetHit(c) \/ AccessSecretVersion(c) \/ EndStore(c)
    PROVE  DataInv'
<1> DEFINE k == op[c].key
<1> USE DEF DataInv, TypeOK, CallTypeOK, CacheTypeOK, RemoteTypeOK, HistoryTypeOK,
            None
<1>1. k \in Keys
  OBVIOUS
<1>2. CASE AccessSecretVersion(c)
  <2> USE <1>2 DEF AccessSecretVersion, Goto, lockVars, cacheVars, remoteVars,
                   historyVars
  <2>1. latest[k] # 0 /\ floor[k] <= latest[k] /\ latest[k] <= versions
    BY <1>1 DEF FloorInv, CountInv
  <2>2. CountInv' /\ GetInv'
    BY <1>1, <2>1 DEF CountInv, GetInv
  <2>3. FloorInv' /\ OwnInv' /\ StartInv'
    BY DEF FloorInv, OwnInv, StartInv
  <2>4. QED BY <2>2, <2>3
<1>3. CASE GetHit(c) \/ EndStore(c)
  <2> DEFINE v == IF pc[c] = "looking" THEN cache[k] ELSE got[c]
  <2>1. /\ GetHit(c) => v = cache[k] /\ v # 0 /\ UNCHANGED cache
        /\ EndStore(c) => v = got[c] /\ cache' = [cache EXCEPT ![k] = v]
        /\ high' = [high EXCEPT ![k] = Newer(@, v)]
    BY <1>3 DEF GetHit, Hit, cacheVars, EndStore, Answered
  <2> HIDE DEF v
  <2>2. v \in Nat /\ v # 0 /\ v <= versions /\ floor[k] <= v
    BY <1>1, <1>3, <2>1 DEF EndStore, CountInv, FloorInv, GetInv
  <2>3. cache' = [cache EXCEPT ![k] = v]
    BY <1>1, <1>3, <2>1
  <2>4. k \notin outside =>
          /\ high[k] <= v
          /\ latest[k] # 0 => v <= latest[k]
          /\ k \notin doubtful => v = latest[k]
    <3>1. CASE GetHit(c)
      BY <1>1, <2>1, <3>1 DEF OwnInv
    <3>2. CASE EndStore(c)
      <4>1. v # 0 /\ (k \notin outside => v = latest[k])
        BY <2>1, <2>2, <3>2 DEF EndStore, GetInv
      <4>2. QED BY <1>1, <2>2, <4>1 DEF OwnInv
    <3>3. QED BY <1>3, <3>1, <3>2
  <2>5. /\ UNCHANGED <<remoteVars, floor, outside>>
        /\ \A d \in Clients \ {c} : UNCHANGED <<pc[d], op[d], got[d], start[d]>>
        /\ pc'[c] = "idle" /\ op'[c] = NoCall /\ got'[c] = 0
    BY <1>3 DEF GetHit, EndStore, ReturnReader, Answered
  <2> USE DEF remoteVars
  <2>6. Newer(high[k], v) \in {high[k], v} /\ Newer(high[k], v) >= high[k]
        /\ Newer(high[k], v) >= v
    BY <1>1, <2>2 DEF Newer
  <2>7. CountInv' /\ FloorInv'
    <3>1. /\ \A j \in Keys : /\ cache'[j] \in {cache[j], v} /\ high'[j] \in {high[j], v}
                            /\ (j # k => cache'[j] = cache[j])
          /\ cache'[k] = v
      BY <1>1, <2>1, <2>3, <2>6
    <3>2. \A d \in Clients : got'[d] \in {0, got[d]}
      BY <2>5
    <3>3. versions \in Nat /\ versions' = versions /\ floor' = floor /\ latest' = latest
      BY <2>5
    <3>8. /\ \A j \in Keys : /\ floor[j] \in Nat /\ latest[j] \in Nat
                            /\ high[j] \in Nat /\ cache[j] \in Nat
          /\ \A d \in Clients : got[d] \in Nat
      OBVIOUS
    <3>4. CountInv /\ FloorInv /\ v \in Nat /\ v <= versions /\ floor[k] <= v
      BY <2>2
    <3> HIDE DEF TypeOK, CallTypeOK, CacheTypeOK, RemoteTypeOK, HistoryTypeOK, DataInv,
                 remoteVars, k
    <3>5. CountInv'
      BY ONLY <3>1, <3>2, <3>3, <3>4, <3>8 DEF CountInv
    <3>6. FloorInv'
      BY ONLY <3>1, <3>3, <3>4, <3>8 DEF FloorInv
    <3>7. QED BY <3>5, <3>6
  <2>8. OwnInv'
    <3> SUFFICES ASSUME NEW j \in Keys, j \notin outside
                 PROVE  /\ latest[j] # 0 => high'[j] <= latest[j]
                        /\ cache'[j] # 0 => high'[j] <= cache'[j]
                        /\ cache'[j] # 0 /\ latest[j] # 0 => cache'[j] <= latest[j]
                        /\ j \notin doubtful => cache'[j] \in {0, latest[j]}
      BY <2>5 DEF OwnInv
    <3>1. CASE j = k
      <4>1. cache'[j] = v /\ high'[j] \in {high[k], v}
        BY <2>1, <2>3, <2>6, <3>1
      <4>2. latest[j] \in Nat /\ high[j] \in Nat
        OBVIOUS
      <4>3. high'[j] <= v
        BY <2>2, <2>4, <3>1, <4>1
      <4>4. latest[j] # 0 => v <= latest[j]
        BY <2>4, <3>1
      <4>5. j \notin doubtful => v = latest[j]
        BY <2>4, <3>1
      <4>6. QED BY <2>2, <4>1, <4>2, <4>3, <4>4, <4>5
    <3>2. CASE j # k
      <4>1. cache'[j] = cache[j] /\ high'[j] = high[j]
        BY <2>1, <2>3, <3>2
      <4>2. QED BY <4>1 DEF OwnInv
    <3>3. QED BY <3>1, <3>2
  <2>9. GetInv'
    BY <2>5 DEF GetInv
  <2>10. StartInv'
    BY <1>1, <2>1, <2>2, <2>5, <2>6 DEF StartInv, NoCall
  <2>11. QED BY <2>7, <2>8, <2>9, <2>10
<1>4. QED BY <1>2, <1>3

(* The steps that end a Write, a Delete or a ClearCache. *)
LEMMA WriterDataStep ==
    ASSUME TypeOK, LockInv, DataInv, NEW c \in Clients,
           \/ CreateFails(c) \/ AddSecretVersion(c) \/ AddVersionFails(c)
           \/ DeleteSecret(c) \/ DeleteFails(c) \/ ClearCache(c)
    PROVE  DataInv'
<1> DEFINE k == op[c].key
<1> USE DEF DataInv, TypeOK, CallTypeOK, CacheTypeOK, RemoteTypeOK, HistoryTypeOK,
            None
<1>1. k \in Keys
  OBVIOUS
<1>2. pc[c] \in Held /\ ReturnWriter(c)
  BY WriterReturns
<1>3. GetInv'
  <2>1. \A d \in Clients : pc'[d] \notin {"filling", "storing"}
    BY <1>2, WriterAlone DEF ReturnWriter, FirstLine, ReadSections
  <2>2. QED BY <2>1 DEF GetInv
<1>4. /\ \A j \in Keys : floor'[j] >= floor[j] /\ high'[j] >= high[j]
      /\ floor' \in [Keys -> Nat] /\ high' \in [Keys -> Nat]
  <2>1. CASE CreateFails(c) \/ AddVersionFails(c) \/ DeleteFails(c) \/ ClearCache(c)
    BY <2>1 DEF CreateFails, AddVersionFails, DeleteFails, ClearCache, historyVars
  <2>2. CASE AddSecretVersion(c)
    BY <1>1, <2>2 DEF AddSecretVersion, CountInv
  <2>3. CASE DeleteSecret(c)
    BY <1>1, <2>3 DEF DeleteSecret, CountInv
  <2>4. QED BY <2>1, <2>2, <2>3
<1>5. StartInv'
  <2> SUFFICES ASSUME NEW d \in Clients, op'[d].call = "Get"
               PROVE  /\ start'[d].floor <= floor'[op'[d].key]
                      /\ start'[d].high <= high'[op'[d].key]
    BY DEF StartInv
  <2>1. op'[d] = op[d] /\ start'[d] = start[d]
    BY <1>2 DEF ReturnWriter, NoCall
  <2>2. QED BY <1>4, <2>1 DEF StartInv
<1>6. CountInv' /\ FloorInv' /\ OwnInv'
  <2>1. CASE CreateFails(c)
    BY <1>1, <1>2, <2>1 DEF CreateFails, cacheVars, historyVars, ReturnWriter,
                            CountInv, FloorInv, OwnInv
  <2>2. CASE AddSecretVersion(c)
    BY <1>1, <1>2, <2>2 DEF AddSecretVersion, AddsVersion, ReturnWriter, CountInv,
                            FloorInv, OwnInv
  <2>3. CASE AddVersionFails(c)
    <3> USE <1>1, <1>2, <2>3 DEF AddVersionFails, cacheVars, historyVars, ReturnWriter
    <3>1. CASE UNCHANGED <<latest, versions, doubtful>>
      BY <3>1 DEF CountInv, FloorInv, OwnInv
    <3>2. CASE AddsVersion(k) /\ doubtful' = doubtful \union {k}
      BY <3>2 DEF AddsVersion, CountInv, FloorInv, OwnInv
    <3>3. QED BY <3>1, <3>2
  <2>4. CASE DeleteSecret(c)
    BY <1>1, <1>2, <2>4 DEF DeleteSecret, ReturnWriter, CountInv, FloorInv, OwnInv
  <2>5. CASE DeleteFails(c)
    <3>1. /\ UNCHANGED <<versions, cache, floor, high, outside>>
          /\ \A j \in Keys : /\ latest'[j] \in {0, latest[j]}
                            /\ (j \notin doubtful' => latest'[j] = latest[j])
          /\ doubtful \subseteq doubtful'
          /\ \A d \in Clients : got'[d] \in {0, got[d]}
      BY <1>1, <2>5 DEF DeleteFails, cacheVars, historyVars, ReturnWriter
    <3>2. /\ CountInv /\ FloorInv /\ OwnInv /\ versions \in Nat
          /\ \A j \in Keys : /\ floor[j] \in Nat /\ latest[j] \in Nat
                            /\ high[j] \in Nat /\ cache[j] \in Nat
          /\ \A d \in Clients : got[d] \in Nat
      OBVIOUS
    <3> HIDE DEF TypeOK, CallTypeOK, CacheTypeOK, RemoteTypeOK, HistoryTypeOK, DataInv, k
    <3>3. CountInv'
      BY ONLY <3>1, <3>2 DEF CountInv
    <3>4. FloorInv'
      BY ONLY <3>1, <3>2 DEF FloorInv
    <3>5. OwnInv'
      BY ONLY <3>1, <3>2 DEF OwnInv
    <3>6. QED BY <3>3, <3>4, <3>5
  <2>6. CASE ClearCache(c)
    BY <1>1, <1>2, <2>6 DEF ClearCache, remoteVars, historyVars, ReturnWriter,
                            CountInv, FloorInv, OwnInv
  <2>7. QED BY <2>1, <2>2, <2>3, <2>4, <2>5, <2>6
<1>7. QED BY <1>3, <1>5, <1>6

(* The other programs, the clock, and the end of the program. *)
LEMMA EnvironmentDataStep ==
    ASSUME TypeOK, DataInv, Environment \/ Crash
    PROVE  DataInv'
<1> USE DEF DataInv, TypeOK, CallTypeOK, CacheTypeOK, RemoteTypeOK, HistoryTypeOK,
            None
<1>1. CASE Crash
  BY <1>1 DEF Crash, remoteVars, historyVars, NoCall, CountInv, FloorInv, OwnInv,
              GetInv, StartInv
<1>2. ASSUME NEW k \in Keys, EntryExpires(k) PROVE DataInv'
  BY <1>2 DEF EntryExpires, callVars, remoteVars, historyVars, CountInv, FloorInv,
              OwnInv, GetInv, StartInv
<1>3. ASSUME NEW k \in Keys, OutsideWrite(k) \/ OutsideDelete(k) PROVE DataInv'
  <2> USE <1>3 DEF OutsideWrite, OutsideDelete, AddsVersion, callVars, cacheVars,
                   historyVars
  <2>1. CountInv'
    BY DEF CountInv
  <2>2. FloorInv' /\ OwnInv'
    BY DEF CountInv, FloorInv, OwnInv
  <2>3. GetInv' /\ StartInv'
    BY DEF GetInv, StartInv
  <2>4. QED BY <2>1, <2>2, <2>3
<1>4. QED BY <1>1, <1>2, <1>3 DEF Environment

LEMMA DataStep == TypeOK /\ LockInv /\ DataInv /\ [Next]_vars => DataInv'
<1> SUFFICES ASSUME TypeOK, LockInv, DataInv, [Next]_vars PROVE DataInv'
  OBVIOUS
<1>1. CASE Halted \/ UNCHANGED vars
  BY <1>1 DEF Halted, vars, callVars, cacheVars, remoteVars, historyVars, DataInv,
              CountInv, FloorInv, OwnInv, GetInv, StartInv
<1>2. ASSUME NEW c \in Clients, ClientNext(c) PROVE DataInv'
  BY <1>2, MoveStep, GetDataStep, WriterDataStep
     DEF ClientNext, Proceed, GetStep, WriteStep, DeleteStep
<1>3. QED BY <1>1, <1>2, EnvironmentDataStep DEF Next

LEMMA Invariant == Spec => []IInv
<1>1. Init => IInv
  <2> SUFFICES ASSUME Init PROVE IInv
    OBVIOUS
  <2>1. LockInv /\ GetInv /\ StartInv
    BY DEF Init, LockInv, GetInv, StartInv, NoCall, Held
  <2>2. CountInv /\ FloorInv /\ OwnInv
    BY DEF Init, CountInv, FloorInv, OwnInv, None
  <2>3. QED BY <2>1, <2>2, InitTyped DEF IInv
<1>2. IInv /\ [Next]_vars => IInv'
  BY TypedStep, LockStep, DataStep DEF IInv, DataInv
<1>3. QED BY <1>1, <1>2, PTL DEF Spec
-----------------------------------------------------------------------------
(***************************************************************************)
(* The theorems.                                                           *)
(***************************************************************************)

(* The values of every variable stay in their types. *)
THEOREM TypeCorrect == Spec => []TypeOK
BY Invariant, PTL DEF IInv

(* No Get returns less than what had been written when it began. *)
THEOREM GetIsNotStale == Spec => []NoStaleRead
<1>1. IInv => NoStaleRead
  <2> SUFFICES ASSUME IInv, NEW c \in Clients, NEW v \in 1..MaxVersion, Returns(c, v)
               PROVE  v >= start[c].floor
    BY DEF NoStaleRead
  <2> USE DEF IInv, TypeOK, CallTypeOK, CacheTypeOK, HistoryTypeOK
  <2>1. floor[op[c].key] <= v
    BY DEF Returns, Hit, FloorInv, GetInv
  <2>2. start[c].floor <= floor[op[c].key]
    BY DEF Returns, StartInv
  <2>3. QED BY <2>1, <2>2
<1>2. QED BY <1>1, Invariant, PTL

(* The versions returned for a key of this store never go back. *)
THEOREM GetNeverGoesBack == Spec => []NoGoingBack
<1>1. IInv => NoGoingBack
  <2> SUFFICES ASSUME IInv, NEW c \in Clients, NEW v \in 1..MaxVersion,
                      Returns(c, v), op[c].key \notin outside
               PROVE  v >= start[c].high
    BY DEF NoGoingBack
  <2> USE DEF IInv, TypeOK, CallTypeOK, CacheTypeOK, RemoteTypeOK, HistoryTypeOK
  <2>1. high[op[c].key] <= v
    BY DEF Returns, Hit, OwnInv, GetInv, None
  <2>2. start[c].high <= high[op[c].key]
    BY DEF Returns, StartInv
  <2>3. QED BY <2>1, <2>2
<1>2. QED BY <1>1, Invariant, PTL

(* The cache, and what a Get returns, agree with Secret Manager on keys     *)
(* nobody else changes, as long as no reply is lost.                       *)
THEOREM CacheAgrees == Spec => []CacheCoherent
<1>1. IInv => CacheCoherent
  <2> SUFFICES ASSUME IInv PROVE CacheCoherent
    OBVIOUS
  <2>1. ASSUME NEW k \in Keys \ (outside \union doubtful)
        PROVE  cache[k] \in {None, latest[k]}
    BY DEF IInv, OwnInv
  <2>2. ASSUME NEW c \in Clients, NEW v \in 1..MaxVersion, Returns(c, v),
               op[c].key \in Keys \ (outside \union doubtful)
        PROVE  v = latest[op[c].key]
    <3>1. CASE pc[c] = "looking" /\ Hit(op[c].key) /\ v = cache[op[c].key]
      BY <2>1, <2>2, <3>1 DEF Hit
    <3>2. CASE pc[c] \in {"filling", "storing"} /\ v = got[c]
      BY <2>2, <3>2 DEF IInv, GetInv
    <3>3. QED BY <2>2, <3>1, <3>2 DEF Returns
  <2>3. QED BY <2>1, <2>2 DEF CacheCoherent
<1>2. QED BY <1>1, Invariant, PTL
=============================================================================
