-------------------------- MODULE PubSubPublishProofs --------------------------
(***************************************************************************)
(* Proofs about PubSubPublish and the lookup of GcpConfig, for any number   *)
(* of goroutines, any configurations that come and go, and batches of any   *)
(* length whose bundles succeed, fail or are lost in any order.            *)
(***************************************************************************)
EXTENDS PubSubPublish, OrderLemmas, SequenceTheorems

-----------------------------------------------------------------------------
(***************************************************************************)
(* The lookup.                                                             *)
(***************************************************************************)

IsSearch(r) == r.service \in {"pubsub", "gs", "own"}
Searching(c) == IsSearch(request[c])
Keys(c) == KeysOf(request[c])

(* None of the first n keys held a Config all the while. *)
PassedOver(c, n) == \A i \in 1..n : NoConfig \in Held(c, i)

LookupInv(c) ==
    /\ pc[c] = "idle" <=> request[c] = NoRequest /\ pc[c] # "returned"
    /\ pc[c] \in {"host", "path", "name", "opening", "opened"} => request[c] \in Requests
    /\ pc[c] # "idle" /\ request[c] # NoRequest =>
          \A k \in RegistryKeys : registry[k] \in seen[c][k]
    /\ pc[c] \in {"host", "path"} => Searching(c) /\ request[c].url # NilURL
    /\ pc[c] = "path" => request[c].url.path # "" /\ PassedOver(c, 1)
    /\ pc[c] = "name" /\ Searching(c) => PassedOver(c, Len(Keys(c)) - 1)
    /\ SearchEnded(c) =>
          /\ found[c] # NoConfig => \E i \in DOMAIN Keys(c) : found[c] \in Held(c, i)
          /\ \A i \in DOMAIN Keys(c) : NoConfig \notin Held(c, i) =>
                \E j \in 1..i : found[c] \in Held(c, j) \ {NoConfig}
-----------------------------------------------------------------------------
(***************************************************************************)
(* The call.                                                               *)
(***************************************************************************)

InCall(c) == pc[c] \in {"publishing", "waiting"}

(* Where a call is, and what it has at hand there. *)
PhaseInv(c) ==
    /\ calls[c] <= events
    /\ pc[c] = "idle" => client[c] = NoClient
    /\ pc[c] \notin {"publishing", "waiting", "returned"} => result[c] = <<>>
    /\ InCall(c) => request[c] \in Requests /\ request[c].service = "pubsub"
    /\ pc[c] # "idle" /\ request[c].service = "pubsub" =>
          Len(batch[c]) > 0 /\ (request[c].fn = "Send" => Len(batch[c]) = 1)
    /\ pc[c] = "returned" /\ request[c] = NoRequest => batch[c] = <<>>
    /\ Publishing(c) => client[c] \in PubSubClients("open")
    /\ pc[c] = "publishing" => Len(result[c]) < Len(batch[c])
    /\ pc[c] = "waiting" =>
          Len(result[c]) = Len(batch[c]) /\ (request[c].fn = "Send" => waited[c] = 0)
    /\ Returned(c) => Len(result[c]) = Len(batch[c]) /\ waited[c] = Len(result[c])

(* The results a call has waited for stay as they are; the first of them    *)
(* that is an error is the one it remembers.                               *)
WaitedInv(c) ==
    /\ \A i \in 1..waited[c] : result[c][i] # Pending
    /\ firstErr[c] = 0 => \A i \in 1..waited[c] : result[c][i] # Failed
    /\ firstErr[c] # 0 =>
          /\ result[c][firstErr[c]] = Failed
          /\ \A i \in 1..(firstErr[c] - 1) : result[c][i] # Failed

IsPublished(r) == r \notin {Pending, Failed}

LEMMA ResultsStay ==
    /\ Pending' = Pending /\ Failed' = Failed
    /\ \A r : IsPublished(r)' <=> IsPublished(r)
  BY DEF Pending, Failed, IsPublished

(* A result that names an id names the copy the call stored. *)
ResultInv(c) ==
    \A i \in DOMAIN result[c] : IsPublished(result[c][i]) =>
        LET n == result[c][i].id IN
        /\ n \in DOMAIN topic
        /\ topic[n].sender = c /\ topic[n].call = calls[c]
        /\ topic[n].index = i /\ topic[n].confirmed

Mine(c) == {n \in DOMAIN topic : topic[n].sender = c}

(* Every stored copy is of a message of its sender, stored after it came to *)
(* hand; of the call that is under way its result is known.                *)
CopyInv(c) ==
    \A n \in Mine(c) :
        /\ topic[n].index \in 1..Len(batch[c]) /\ topic[n].call <= calls[c]
        /\ batch[c][topic[n].index].arrived < n
        /\ pc[c] # "idle" /\ topic[n].call = calls[c] =>
              /\ topic[n].index \in DOMAIN result[c]
              /\ result[c][topic[n].index] # Pending
              /\ topic[n].confirmed =>
                    /\ IsPublished(result[c][topic[n].index])
                    /\ result[c][topic[n].index].id = n
        /\ \A m \in Mine(c) : m < n => topic[m].call <= topic[n].call

(* The publishes of a message the call has seen the end of. *)
Known(c, i) ==
    {n \in ConfirmedOf(c, i) :
        topic[n].call < calls[c] \/ i <= waited[c] \/ pc[c] = "idle"}

IdInv(c) ==
    \A i \in DOMAIN batch[c] : batch[c][i].kind # "foreign" =>
        LET ids == Known(c, i) \union {batch[c][i].arrived} IN
        /\ batch[c][i].id \in ids
        /\ \A n \in ids : n <= batch[c][i].id

(* With an ordering key: the results come in the order of the batch, and    *)
(* the copies of the call are those of its first messages, in order.       *)
OrderInv(c) ==
    request[c].service = "pubsub" /\ request[c].ordered =>
        /\ \A i, j \in DOMAIN result[c] :
              i < j /\ result[c][j] # Pending => result[c][i] # Pending
        /\ \A m, n \in StoredIn(c, calls[c]) : m < n => topic[m].index < topic[n].index
        /\ \A n \in StoredIn(c, calls[c]) : \A i \in 1..(topic[n].index - 1) :
              \E m \in StoredIn(c, calls[c]) : topic[m].index = i

HeaderInv(c) ==
    \A i \in DOMAIN batch[c] : batch[c][i].kind # "foreign" =>
        batch[c][i].headers = batch[c][i].given

CallInv(c) ==
    /\ LookupInv(c)
    /\ PhaseInv(c) /\ WaitedInv(c) /\ ResultInv(c) /\ CopyInv(c)
    /\ IdInv(c) /\ OrderInv(c) /\ HeaderInv(c)

PublishInv == TypeOK /\ \A c \in Callers : CallInv(c)
-----------------------------------------------------------------------------
(***************************************************************************)
(* Types.                                                                  *)
(***************************************************************************)

Locations_ == ResolveLocations \union {"publishing", "waiting", "returned"}

LEMMA Types ==
    ASSUME PublishInv
    PROVE  /\ registry \in [RegistryKeys -> Configs \union {NoConfig}]
           /\ draft \in Configs /\ events \in 0..MaxEvents
           /\ request \in [Callers -> Requests \union {NoRequest}]
           /\ found \in [Callers -> Configs \union {NoConfig}]
           /\ client \in [Callers -> Clients]
           /\ seen \in [Callers -> [RegistryKeys -> SUBSET (Configs \union {NoConfig})]]
           /\ pc \in [Callers -> Locations_]
           /\ batch \in [Callers -> Seq(Messages)]
           /\ result \in [Callers -> Seq(Results)]
           /\ waited \in [Callers -> Nat] /\ firstErr \in [Callers -> Nat]
           /\ calls \in [Callers -> 0..MaxEvents]
           /\ topic \in Seq(Entries)
  BY DEF PublishInv, TypeOK, ConfigTypeOK, Locations_

LEMMA RequestMeans ==
    /\ NoRequest.service = "none" /\ NoRequest \notin Requests
    /\ \A r \in Requests : r.service \in {"pubsub", "gs", "own", "genai", "secrets"}
<1>1. NoRequest.service = "none"
  BY DEF NoRequest
<1>2. \A r \in Requests : r.service \in {"pubsub", "gs", "own", "genai", "secrets"}
  BY RequestsAssumption
<1>3. NoRequest \notin Requests
  BY <1>1, <1>2
<1>4. QED BY <1>1, <1>2, <1>3
-----------------------------------------------------------------------------
(***************************************************************************)
(* The lookups.                                                            *)
(***************************************************************************)

(* The keys of a request, and which comes when. *)
LEMMA KeysOfMeans ==
    ASSUME NEW r, IsSearch(r)
    PROVE  /\ r.url # NilURL /\ r.url.path = "" =>
                 /\ DOMAIN KeysOf(r) = 1..2 /\ Len(KeysOf(r)) = 2
                 /\ KeysOf(r)[1] = HostKey(r.url) /\ KeysOf(r)[2] = NameKey(r)
           /\ r.url # NilURL /\ r.url.path # "" =>
                 /\ DOMAIN KeysOf(r) = 1..3 /\ Len(KeysOf(r)) = 3
                 /\ KeysOf(r)[1] = HostKey(r.url) /\ KeysOf(r)[2] = PathKey(r.url)
                 /\ KeysOf(r)[3] = NameKey(r)
           /\ r.url = NilURL =>
                 /\ DOMAIN KeysOf(r) = 1..1 /\ Len(KeysOf(r)) = 1
                 /\ KeysOf(r)[1] = NameKey(r)
<1> DEFINE host == HostKey(r.url)
           path == PathKey(r.url)
           name == NameKey(r)
<1> HIDE DEF host, path, name
<1>1. /\ DOMAIN <<host, name>> = 1..2 /\ Len(<<host, name>>) = 2
      /\ DOMAIN <<host, path, name>> = 1..3 /\ Len(<<host, path, name>>) = 3
      /\ DOMAIN <<name>> = 1..1 /\ Len(<<name>>) = 1
  OBVIOUS
<1>2. /\ <<host, name>>[1] = host /\ <<host, name>>[2] = name
      /\ <<host, path, name>>[1] = host /\ <<host, path, name>>[2] = path
      /\ <<host, path, name>>[3] = name /\ <<name>>[1] = name
  OBVIOUS
<1>3. CASE r.url # NilURL /\ r.url.path = ""
  <2>1. KeysOf(r) = <<host, name>>
    BY <1>3 DEF IsSearch, KeysOf, host, name
  <2>2. QED BY <1>1, <1>2, <1>3, <2>1 DEF host, name
<1>4. CASE r.url # NilURL /\ r.url.path # ""
  <2>1. KeysOf(r) = <<host, path, name>>
    BY <1>4 DEF IsSearch, KeysOf, host, path, name
  <2>2. QED BY <1>1, <1>2, <1>4, <2>1 DEF host, path, name
<1>5. CASE r.url = NilURL
  <2>1. KeysOf(r) = <<name>>
    BY <1>5 DEF KeysOf, name
  <2>2. QED BY <1>1, <1>2, <1>5, <2>1 DEF name
<1>6. QED BY <1>3, <1>4, <1>5

(* What is found was there: a lookup returns what its key holds. *)
LEMMA FoundWasHeld ==
    ASSUME PublishInv, NEW c \in Callers, pc[c] \in {"host", "path", "name"}, NEW i
    PROVE  Get(KeysOf(request[c])[i]) \in Held(c, i)
<1>1. \A k \in RegistryKeys : registry[k] \in seen[c][k]
  BY RequestMeans DEF PublishInv, CallInv, LookupInv
<1>2. QED BY <1>1 DEF Get, Held

(* The n-th lookup ends the search with what the n-th key held, or has      *)
(* passed over n keys.                                                     *)
LEMMA OneLookup ==
    ASSUME PublishInv, NEW c \in Callers, pc[c] \in {"host", "path", "name"},
           NEW len \in Nat, DOMAIN Keys(c) = 1..len,
           NEW n \in 1..len, PassedOver(c, n - 1),
           NEW next, LookUp(c, pc[c], Keys(c)[n], next)
    PROVE  /\ pc' = [pc EXCEPT ![c] = IF found'[c] # NoConfig THEN "opening" ELSE next]
           /\ UNCHANGED <<registry, request, seen>>
           /\ found'[c] # NoConfig =>
                 /\ \E i \in DOMAIN Keys(c) : found'[c] \in Held(c, i)
                 /\ \A i \in DOMAIN Keys(c) : NoConfig \notin Held(c, i) =>
                       \E j \in 1..i : found'[c] \in Held(c, j) \ {NoConfig}
           /\ found'[c] = NoConfig => PassedOver(c, n)
<1> DEFINE keys == Keys(c)
<1>0. keys = KeysOf(request[c])
  BY DEF Keys
<1> HIDE DEF keys
<1>1. /\ found' = [found EXCEPT ![c] = Get(keys[n])]
      /\ pc' = [pc EXCEPT ![c] = IF Get(keys[n]) # NoConfig THEN "opening" ELSE next]
      /\ UNCHANGED <<registry, request, seen>>
  BY DEF LookUp, Goto, configVars, keys
<1>2. found'[c] = Get(keys[n])
  BY <1>1, Types
<1>3. Get(keys[n]) \in Held(c, n)
  BY <1>0, FoundWasHeld
<1>4. \A i \in 1..n : i \in 1..(n - 1) \/ i = n
  OBVIOUS
<1>5. ASSUME found'[c] # NoConfig, NEW i \in DOMAIN keys, NoConfig \notin Held(c, i)
      PROVE  \E j \in 1..i : found'[c] \in Held(c, j) \ {NoConfig}
  <2>1. i \in 1..len /\ i \notin 1..(n - 1)
    BY <1>5 DEF PassedOver, keys
  <2>2. n \in 1..i
    BY <2>1
  <2>3. QED BY <1>2, <1>3, <1>5, <2>2
<1>7. ASSUME found'[c] = NoConfig PROVE PassedOver(c, n)
  BY <1>2, <1>3, <1>4, <1>7 DEF PassedOver
<1>8. QED
  <2>1. pc' = [pc EXCEPT ![c] = IF found'[c] # NoConfig THEN "opening" ELSE next]
    BY <1>1, <1>2
  <2>2. found'[c] # NoConfig => \E i \in DOMAIN keys : found'[c] \in Held(c, i)
    BY <1>2, <1>3 DEF keys
  <2>3. QED BY <1>1, <1>5, <1>7, <2>1, <2>2 DEF keys

(* What the next look-up has to find out, after one that may have ended the *)
(* search.                                                                 *)
LEMMA SearchGoesOn ==
    ASSUME PublishInv, NEW c \in Callers, pc[c] \in {"host", "path", "name"},
           Searching(c), NEW next \in {"path", "name", "opening"},
           UNCHANGED <<registry, request, seen>>,
           pc' = [pc EXCEPT ![c] = IF found'[c] # NoConfig THEN "opening" ELSE next],
           found'[c] # NoConfig =>
              /\ \E i \in DOMAIN Keys(c) : found'[c] \in Held(c, i)
              /\ \A i \in DOMAIN Keys(c) : NoConfig \notin Held(c, i) =>
                    \E j \in 1..i : found'[c] \in Held(c, j) \ {NoConfig},
           found'[c] = NoConfig =>
              /\ next = "path" =>
                    /\ request[c].url # NilURL /\ request[c].url.path # ""
                    /\ PassedOver(c, 1)
              /\ next = "name" => PassedOver(c, Len(Keys(c)) - 1)
              /\ next = "opening" =>
                    \A i \in DOMAIN Keys(c) : NoConfig \in Held(c, i)
    PROVE  LookupInv(c)'
<1>1. LookupInv(c)
  BY DEF PublishInv, CallInv
<1>2. /\ request[c] \in Requests /\ request[c] # NoRequest
      /\ \A k \in RegistryKeys : registry[k] \in seen[c][k]
  BY <1>1, RequestMeans DEF LookupInv
<1>3. pc'[c] = IF found'[c] # NoConfig THEN "opening" ELSE next
  BY Types
<1>4. /\ \A i : Held(c, i)' = Held(c, i)
      /\ Keys(c)' = Keys(c) /\ Searching(c)' = Searching(c)
  BY DEF Held, Keys, KeysOf, NameKey, HostKey, PathKey, Searching, IsSearch
<1>5. \A i : PassedOver(c, i)' = PassedOver(c, i)
  BY <1>4 DEF PassedOver
<1>6. /\ (pc[c] = "idle" <=> request[c] = NoRequest /\ pc[c] # "returned")'
      /\ (pc[c] \in {"host", "path", "name", "opening", "opened"} => request[c] \in Requests)'
      /\ (pc[c] # "idle" /\ request[c] # NoRequest =>
            \A k \in RegistryKeys : registry[k] \in seen[c][k])'
      /\ (pc[c] \in {"host", "path"} => Searching(c) /\ request[c].url # NilURL)'
  <2>1. pc'[c] \in {"path", "name", "opening"}
    BY <1>3
  <2>2. pc'[c] = "path" => next = "path" /\ found'[c] = NoConfig
    BY ONLY <1>3, Zenon
  <2>3. QED BY <1>2, <1>4, <2>1, <2>2
<1>7. (pc[c] = "path" => request[c].url.path # "" /\ PassedOver(c, 1))'
  <2>1. pc'[c] = "path" => next = "path" /\ found'[c] = NoConfig
    BY ONLY <1>3, Zenon
  <2>2. QED BY <1>5, <2>1
<1>8. (pc[c] = "name" /\ Searching(c) => PassedOver(c, Len(Keys(c)) - 1))'
  <2>1. pc'[c] = "name" => next = "name" /\ found'[c] = NoConfig
    BY ONLY <1>3, Zenon
  <2>2. QED BY <1>4, <1>5, <2>1
<1>9. (SearchEnded(c) =>
          /\ found[c] # NoConfig =>
                \E i \in DOMAIN Keys(c) : found[c] \in Held(c, i)
          /\ \A i \in DOMAIN Keys(c) : NoConfig \notin Held(c, i) =>
                \E j \in 1..i : found[c] \in Held(c, j) \ {NoConfig})'
  <2>1. CASE found'[c] # NoConfig
    BY <1>4, <2>1
  <2>2. CASE found'[c] = NoConfig
    <3>1. pc'[c] = "opening" =>
             \A i \in DOMAIN Keys(c) : NoConfig \in Held(c, i)
      BY <1>3, <2>2
    <3>2. QED BY <1>4, <2>2, <3>1 DEF SearchEnded
  <2>3. QED BY <2>1, <2>2
<1>10. QED BY <1>6, <1>7, <1>8, <1>9 DEF LookupInv

(* The lookup that is next asks for the first key not passed over, and knows *)
(* what to do when it finds nothing.                                       *)
LEMMA WhichLookup ==
    ASSUME PublishInv, NEW c \in Callers, Searching(c),
           LookUpHost(c) \/ LookUpPath(c) \/ LookUpName(c)
    PROVE  \E len \in Nat : \E n \in 1..len, next \in {"path", "name", "opening"} :
              /\ DOMAIN Keys(c) = 1..len /\ Len(Keys(c)) = len
              /\ PassedOver(c, n - 1) /\ LookUp(c, pc[c], Keys(c)[n], next)
              /\ next = "path" =>
                    n = 1 /\ request[c].url # NilURL /\ request[c].url.path # ""
              /\ next = "name" => n = len - 1
              /\ next = "opening" => n = len
<1> DEFINE r == request[c]
           keys == Keys(c)
<1>1. LookupInv(c) /\ IsSearch(r)
  BY DEF PublishInv, CallInv, Searching
<1>2. keys = KeysOf(r)
  BY DEF Keys
<1> HIDE DEF keys
<1>3. /\ r.url # NilURL /\ r.url.path = "" =>
            /\ DOMAIN keys = 1..2 /\ Len(keys) = 2
            /\ keys[1] = HostKey(r.url) /\ keys[2] = NameKey(r)
      /\ r.url # NilURL /\ r.url.path # "" =>
            /\ DOMAIN keys = 1..3 /\ Len(keys) = 3
            /\ keys[1] = HostKey(r.url) /\ keys[2] = PathKey(r.url)
            /\ keys[3] = NameKey(r)
      /\ r.url = NilURL =>
            /\ DOMAIN keys = 1..1 /\ Len(keys) = 1
            /\ keys[1] = NameKey(r)
  <2> HIDE DEF r
  <2>1. QED BY <1>1, <1>2, KeysOfMeans, Zenon
<1>4. PassedOver(c, 1 - 1)
  BY DEF PassedOver
<1>5. CASE LookUpHost(c)
  <2>1. /\ pc[c] = "host" /\ r.url # NilURL
        /\ LookUp(c, pc[c], HostKey(r.url), IF r.url.path # "" THEN "path" ELSE "name")
    BY <1>1, <1>5 DEF LookUpHost, LookUp, Goto, LookupInv
  <2>2. CASE r.url.path = ""
    <3>0. (IF r.url.path # "" THEN "path" ELSE "name") = "name" /\ keys[1] = HostKey(r.url)
      BY <1>3, <2>1, <2>2
    <3>4. LookUp(c, pc[c], keys[1], "name")
      BY <2>1, <3>0, Zenon
    <3>1. LookUp(c, pc[c], keys[1], "name") /\ 1 \in 1..2 /\ 1 = 2 - 1 /\ 2 \in Nat
      BY <3>4
    <3>2. DOMAIN keys = 1..2 /\ Len(keys) = 2
      BY <1>3, <2>1, <2>2
    <3>3. QED BY <1>4, <3>1, <3>2, Zenon DEF keys
  <2>3. CASE r.url.path # ""
    <3>0. (IF r.url.path # "" THEN "path" ELSE "name") = "path" /\ keys[1] = HostKey(r.url)
      BY <1>3, <2>1, <2>3
    <3>4. LookUp(c, pc[c], keys[1], "path")
      BY <2>1, <3>0, Zenon
    <3>1. LookUp(c, pc[c], keys[1], "path") /\ 1 \in 1..3 /\ 3 \in Nat
      BY <3>4
    <3>2. DOMAIN keys = 1..3 /\ Len(keys) = 3
      BY <1>3, <2>1, <2>3
    <3>3. QED BY <1>4, <2>1, <2>3, <3>1, <3>2, Zenon DEF keys
  <2>4. QED BY <2>2, <2>3
<1>6. CASE LookUpPath(c)
  <2>1. /\ pc[c] = "path" /\ r.url # NilURL /\ r.url.path # ""
        /\ LookUp(c, pc[c], PathKey(r.url), "name") /\ PassedOver(c, 1)
    BY <1>1, <1>6 DEF LookUpPath, LookUp, Goto, LookupInv
  <2>2. /\ LookUp(c, pc[c], keys[2], "name") /\ DOMAIN keys = 1..3 /\ Len(keys) = 3
    BY <1>3, <2>1
  <2>3. 2 \in 1..3 /\ 2 = 3 - 1 /\ 3 \in Nat /\ 1 = 2 - 1
    OBVIOUS
  <2>4. PassedOver(c, 2 - 1)
    BY <2>1, <2>3
  <2>5. QED BY <2>2, <2>3, <2>4, Zenon DEF keys
<1>7. CASE LookUpName(c)
  <2>1. /\ pc[c] = "name" /\ PassedOver(c, Len(keys) - 1)
        /\ LookUp(c, pc[c], NameKey(r), "opening")
    BY <1>1, <1>2, <1>7 DEF LookUpName, LookUp, Goto, LookupInv, Searching, keys
  <2>2. PICK len \in {1, 2, 3} : /\ DOMAIN keys = 1..len /\ Len(keys) = len
                                 /\ keys[len] = NameKey(r)
    BY <1>3
  <2>3. len \in Nat /\ len \in 1..len
    OBVIOUS
  <2>4. LookUp(c, pc[c], keys[len], "opening") /\ PassedOver(c, len - 1)
    BY <2>1, <2>2
  <2>5. QED BY <2>2, <2>3, <2>4, Zenon DEF keys
<1>8. QED BY <1>5, <1>6, <1>7

LEMMA LookupStep ==
    ASSUME PublishInv, NEW c \in Callers,
           LookUpHost(c) \/ LookUpPath(c) \/ LookUpName(c)
    PROVE  LookupInv(c)'
<1>1. /\ LookupInv(c) /\ request[c] \in Requests
      /\ UNCHANGED <<registry, request, seen>> /\ pc[c] \in {"host", "path", "name"}
  BY DEF PublishInv, CallInv, LookupInv, LookUpHost, LookUpPath, LookUpName, LookUp,
         Goto, configVars
<1>2. CASE ~Searching(c)
  <2>1. LookUpName(c)
    BY <1>1, <1>2 DEF LookupInv, LookUpHost, LookUpPath, LookUp, Goto
  <2>2. pc'[c] = "opening"
    BY <2>1, Types DEF LookUpName, LookUp, Goto
  <2>3. /\ Searching(c)' = Searching(c) /\ request[c] # NoRequest
        /\ \A k \in RegistryKeys : registry[k] \in seen[c][k]
    BY <1>1, RequestMeans DEF LookupInv, Searching, IsSearch
  <2>4. QED BY <1>1, <1>2, <2>2, <2>3 DEF LookupInv, SearchEnded, Searching, IsSearch
<1>3. CASE Searching(c)
  <2>1. PICK len \in Nat : \E n \in 1..len, next \in {"path", "name", "opening"} :
              /\ DOMAIN Keys(c) = 1..len /\ Len(Keys(c)) = len
              /\ PassedOver(c, n - 1) /\ LookUp(c, pc[c], Keys(c)[n], next)
              /\ next = "path" =>
                    n = 1 /\ request[c].url # NilURL /\ request[c].url.path # ""
              /\ next = "name" => n = len - 1
              /\ next = "opening" => n = len
    BY <1>3, WhichLookup
  <2>2. PICK n \in 1..len, next \in {"path", "name", "opening"} :
              /\ DOMAIN Keys(c) = 1..len /\ Len(Keys(c)) = len
              /\ PassedOver(c, n - 1) /\ LookUp(c, pc[c], Keys(c)[n], next)
              /\ next = "path" =>
                    n = 1 /\ request[c].url # NilURL /\ request[c].url.path # ""
              /\ next = "name" => n = len - 1
              /\ next = "opening" => n = len
    BY <2>1
  <2>3. /\ pc' = [pc EXCEPT ![c] = IF found'[c] # NoConfig THEN "opening" ELSE next]
        /\ found'[c] # NoConfig =>
              /\ \E i \in DOMAIN Keys(c) : found'[c] \in Held(c, i)
              /\ \A i \in DOMAIN Keys(c) : NoConfig \notin Held(c, i) =>
                    \E j \in 1..i : found'[c] \in Held(c, j) \ {NoConfig}
        /\ found'[c] = NoConfig => PassedOver(c, n)
    BY <1>1, <2>2, OneLookup
  <2>4. found'[c] = NoConfig =>
              /\ next = "path" =>
                    /\ request[c].url # NilURL /\ request[c].url.path # ""
                    /\ PassedOver(c, 1)
              /\ next = "name" => PassedOver(c, Len(Keys(c)) - 1)
              /\ next = "opening" => \A i \in DOMAIN Keys(c) : NoConfig \in Held(c, i)
    <3>1. next = "opening" /\ PassedOver(c, n) =>
             \A i \in DOMAIN Keys(c) : NoConfig \in Held(c, i)
      BY <2>2 DEF PassedOver
    <3>2. QED BY <2>2, <2>3, <3>1
  <2>5. QED BY <1>1, <1>3, <2>3, <2>4, SearchGoesOn
<1>4. QED BY <1>2, <1>3
-----------------------------------------------------------------------------
(***************************************************************************)
(* Ranks, least and greatest numbers, and sequences.                       *)
(***************************************************************************)

LEMMA RankIsPosition ==
    ASSUME NEW I, I \in SUBSET Nat, IsFiniteSet(I), NEW R,
           R = {p \in Nat \X Nat : p[1] < p[2]}
    PROVE  /\ Orders(R, I)
           /\ \A i \in I : Rank(i, I) = Position(R, I, i) + 1
<1>1. \A x, y \in Nat : <<x, y>> \in R <=> x < y
  OBVIOUS
<1>2. Orders(R, I)
  <2>1. /\ \A x \in I : <<x, x>> \notin R
        /\ \A x, y \in I : x = y \/ <<x, y>> \in R \/ <<y, x>> \in R
    BY <1>1
  <2>2. \A x, y, z \in I : <<x, y>> \in R /\ <<y, z>> \in R => <<x, z>> \in R
    <3> TAKE x, y, z \in I
    <3>1. x \in Nat /\ y \in Nat /\ z \in Nat
      OBVIOUS
    <3>2. x < y /\ y < z => x < z
      BY <3>1
    <3>3. QED BY <1>1, <3>1, <3>2
  <2>3. QED BY <2>1, <2>2 DEF Orders
<1>3. ASSUME NEW i \in I PROVE Rank(i, I) = Position(R, I, i) + 1
  <2>1. Below(R, I, i) = {j \in I : j < i}
    BY <1>1 DEF Below
  <2>2. /\ {j \in I : j <= i} = Below(R, I, i) \union {i}
        /\ i \notin Below(R, I, i) /\ Below(R, I, i) \in SUBSET I
    <3>1. i \in Nat /\ \A j \in I : j <= i <=> j < i \/ j = i
      OBVIOUS
    <3>2. {j \in I : j <= i} = {j \in I : j < i} \union {i}
      BY <3>1
    <3>3. QED BY <2>1, <3>2
  <2>3. QED BY <2>2, FS_Subset, FS_AddElement DEF Rank, Position
<1>4. QED BY <1>2, <1>3

(* Ranks number the elements from 1 on, in their order. *)
LEMMA RankMeans ==
    ASSUME NEW I, I \in SUBSET Nat, IsFiniteSet(I)
    PROVE  /\ Cardinality(I) \in Nat
           /\ \A i \in I : Rank(i, I) \in 1..Cardinality(I) /\ ByRank(Rank(i, I), I) = i
           /\ \A n \in 1..Cardinality(I) :
                 ByRank(n, I) \in I /\ Rank(ByRank(n, I), I) = n
           /\ \A m, n \in 1..Cardinality(I) : m < n => ByRank(m, I) < ByRank(n, I)
<1> DEFINE R == {p \in Nat \X Nat : p[1] < p[2]}
           n == Cardinality(I)
<1>1. /\ Orders(R, I) /\ \A i \in I : Rank(i, I) = Position(R, I, i) + 1
      /\ \A x, y \in Nat : <<x, y>> \in R <=> x < y
  <2>1. \A x, y \in Nat : <<x, y>> \in R <=> x < y
    OBVIOUS
  <2>2. R = {p \in Nat \X Nat : p[1] < p[2]}
    OBVIOUS
  <2> HIDE DEF R
  <2>3. Orders(R, I) /\ \A i \in I : Rank(i, I) = Position(R, I, i) + 1
    BY ONLY I \in SUBSET Nat, IsFiniteSet(I), <2>2, RankIsPosition
  <2>4. QED BY <2>1, <2>3
<1> HIDE DEF R, n
<1>2. n \in Nat
  BY FS_CardinalityType DEF n
<1>3. /\ \A x, y \in I : Position(R, I, x) = Position(R, I, y) => x = y
      /\ \A x \in I : Position(R, I, x) \in 0..(n - 1)
      /\ \A i \in 0..(n - 1) : \E x \in I : Position(R, I, x) = i
  <2>1. /\ \A x, y \in I : Position(R, I, x) = Position(R, I, y) => x = y
        /\ \A x \in I : Position(R, I, x) \in 0..(Cardinality(I) - 1)
        /\ \A i \in 0..(Cardinality(I) - 1) : \E x \in I : Position(R, I, x) = i
    <3>1. IsFiniteSet(I) /\ Orders(R, I)
      BY <1>1
    <3>2. QED BY ONLY <3>1, PositionsAreTaken
  <2>2. QED BY <2>1, Zenon DEF n
<1>4. /\ \A x, y \in I : Rank(x, I) = Rank(y, I) => x = y
      /\ \A x \in I : Rank(x, I) \in 1..n
      /\ \A i \in 1..n : \E x \in I : Rank(x, I) = i
  <2>1. ASSUME NEW x \in I, NEW y \in I, Rank(x, I) = Rank(y, I) PROVE x = y
    <3>1. Position(R, I, x) \in Nat /\ Position(R, I, y) \in Nat
      BY <1>2, <1>3
    <3>2. QED BY <1>1, <1>3, <2>1, <3>1
  <2>2. ASSUME NEW x \in I PROVE Rank(x, I) \in 1..n
    BY <1>1, <1>2, <1>3
  <2>3. ASSUME NEW i \in 1..n PROVE \E x \in I : Rank(x, I) = i
    <3>1. i - 1 \in 0..(n - 1)
      BY <1>2
    <3>2. PICK x \in I : Position(R, I, x) = i - 1
      BY <1>3, <3>1
    <3>3. QED BY <1>1, <1>2, <3>2
  <2>4. QED BY <2>1, <2>2, <2>3
<1>5. \A i \in 1..n : ByRank(i, I) \in I /\ Rank(ByRank(i, I), I) = i
  BY <1>4 DEF ByRank
<1>6. ASSUME NEW i \in I PROVE ByRank(Rank(i, I), I) = i
  <2>1. Rank(i, I) \in 1..n
    BY <1>4
  <2>2. ByRank(Rank(i, I), I) \in I /\ Rank(ByRank(Rank(i, I), I), I) = Rank(i, I)
    BY <1>5, <2>1
  <2>3. QED BY <1>4, <2>2
<1>7. ASSUME NEW k \in 1..n, NEW m \in 1..n, k < m
      PROVE  ByRank(k, I) < ByRank(m, I)
  <2> DEFINE x == ByRank(k, I)
             y == ByRank(m, I)
  <2>1. x \in I /\ y \in I /\ Rank(x, I) = k /\ Rank(y, I) = m
    BY <1>5
  <2> HIDE DEF x, y
  <2>2. x \in Nat /\ y \in Nat /\ x # y
    BY <1>2, <1>7, <2>1
  <2>3. ASSUME y < x PROVE FALSE
    <3>1. Position(R, I, y) < Position(R, I, x)
      BY <1>1, <2>1, <2>2, <2>3, PositionsGrow
    <3>2. QED BY <1>1, <1>2, <1>3, <1>7, <2>1, <3>1
  <2>4. x < y
    BY <2>2, <2>3
  <2>5. QED BY <2>4 DEF x, y
<1>8. QED BY <1>2, <1>4, <1>5, <1>6, <1>7 DEF n

(* Numbers given out in order, none left out, are ranks. *)
LEMMA NumberedByRank ==
    ASSUME NEW S \in SUBSET Nat, IsFiniteSet(S), NEW f \in [S -> Nat \ {0}],
           \A m, n \in S : m < n => f[m] < f[n],
           \A n \in S : \A i \in 1..(f[n] - 1) : \E m \in S : f[m] = i
    PROVE  \A n \in S : f[n] = Rank(n, S)
<1> TAKE n \in S
<1> DEFINE T == {m \in S : m <= n}
           g == [m \in T |-> f[m]]
<1>1. \A m \in S : f[m] \in Nat /\ f[m] >= 1
  OBVIOUS
<1>2. \A m \in T : g[m] \in 1..f[n]
  <2>1. \A m \in T : m \in S /\ (m < n \/ m = n)
    OBVIOUS
  <2>2. QED BY <1>1, <2>1
<1>3. \A m, k \in T : g[m] = g[k] => m = k
  <2>1. \A m, k \in S : m < k \/ k < m \/ m = k
    OBVIOUS
  <2>2. QED BY <1>1, <2>1
<1>4. \A i \in 1..f[n] : \E m \in T : g[m] = i
  <2> TAKE i \in 1..f[n]
  <2>1. CASE i = f[n]
    BY <2>1
  <2>2. CASE i # f[n]
    <3>1. i \in 1..(f[n] - 1)
      BY <1>1, <2>2
    <3>2. PICK m \in S : f[m] = i
      BY <3>1
    <3>3. ~(n < m)
      BY <1>1, <3>1, <3>2
    <3>4. QED BY <3>2, <3>3
  <2>3. QED BY <2>1, <2>2
<1> HIDE DEF g
<1>5. g \in Bijection(T, 1..f[n])
  <2>1. g \in [T -> 1..f[n]]
    BY <1>2 DEF g
  <2>2. QED BY <2>1, <1>3, <1>4 DEF Bijection, Injection, IsInjective, Surjection
<1> HIDE DEF T
<1>6. IsFiniteSet(T)
  BY FS_Subset DEF T
<1>7. Cardinality(1..f[n]) = Cardinality(T)
  BY <1>5, <1>6, FS_Bijection DEF ExistsBijection
<1>8. Cardinality(1..f[n]) = f[n]
  BY <1>1, FS_Interval
<1>9. QED BY <1>7, <1>8 DEF Rank, T

LEMMA MinMeans ==
    ASSUME NEW S \in SUBSET Nat, NEW x \in S, \A y \in S : x <= y
    PROVE  Min(S) = x
<1> DEFINE m == Min(S)
<1>1. m \in S /\ \A y \in S : m <= y
  BY DEF Min
<1> HIDE DEF m
<1>2. m <= x /\ x <= m /\ m \in Nat /\ x \in Nat
  BY <1>1
<1>3. QED BY <1>2 DEF m

LEMMA MaxMeans ==
    ASSUME NEW S \in SUBSET Nat, NEW x \in S, \A y \in S : y <= x
    PROVE  Max(S) = x
<1> DEFINE m == Max(S)
<1>1. m \in S /\ \A y \in S : m >= y
  BY DEF Max
<1> HIDE DEF m
<1>2. m >= x /\ x >= m /\ m \in Nat /\ x \in Nat
  BY <1>1
<1>3. QED BY <1>2 DEF m

LEMMA Places ==
    ASSUME NEW T, NEW s \in Seq(T)
    PROVE  /\ Len(s) \in Nat /\ DOMAIN s = 1..Len(s)
           /\ \A i \in 1..Len(s) : s[i] \in T
           /\ s = <<>> <=> Len(s) = 0
  BY LenProperties, EmptySeq

LEMMA AppendMeans ==
    ASSUME NEW T, NEW s \in Seq(T), NEW e \in T
    PROVE  /\ Append(s, e) \in Seq(T) /\ Len(Append(s, e)) = Len(s) + 1
           /\ DOMAIN Append(s, e) = 1..(Len(s) + 1)
           /\ Append(s, e)[Len(s) + 1] = e
           /\ \A i \in 1..Len(s) : Append(s, e)[i] = s[i]
<1>1. /\ Append(s, e) \in Seq(T) /\ Len(Append(s, e)) = Len(s) + 1
  OBVIOUS
<1>2. DOMAIN Append(s, e) = 1..(Len(s) + 1)
  BY <1>1, LenProperties
<1>3. Append(s, e)[Len(s) + 1] = e /\ \A i \in 1..Len(s) : Append(s, e)[i] = s[i]
  OBVIOUS
<1>4. QED BY <1>1, <1>2, <1>3
-----------------------------------------------------------------------------
(***************************************************************************)
(* What a step leaves alone.                                               *)
(***************************************************************************)

(* The topic keeps what it has, and gets nothing new of d. *)
TopicKeeps(d) ==
    /\ DOMAIN topic \subseteq DOMAIN topic'
    /\ \A n \in DOMAIN topic : topic'[n] = topic[n]
    /\ \A n \in DOMAIN topic' \ DOMAIN topic : topic'[n].sender # d

SameCall(d) ==
    /\ batch'[d] = batch[d] /\ result'[d] = result[d] /\ waited'[d] = waited[d]
    /\ firstErr'[d] = firstErr[d] /\ calls'[d] = calls[d] /\ request'[d] = request[d]
    /\ TopicKeeps(d)
    /\ pc'[d] = "idle" <=> pc[d] = "idle"

LEMMA CopiesKept ==
    ASSUME NEW d, TopicKeeps(d)
    PROVE  /\ Mine(d)' = Mine(d)
           /\ \A n \in Mine(d) : n \in DOMAIN topic /\ topic'[n] = topic[n]
           /\ \A i : ConfirmedOf(d, i)' = ConfirmedOf(d, i)
           /\ \A k : StoredIn(d, k)' = StoredIn(d, k)
<1>1. /\ Mine(d)' = Mine(d) /\ \A n \in Mine(d) : n \in DOMAIN topic /\ topic'[n] = topic[n]
  BY DEF Mine, TopicKeeps
<1>2. ASSUME NEW i PROVE ConfirmedOf(d, i)' = ConfirmedOf(d, i)
  BY DEF ConfirmedOf, TopicKeeps
<1>3. ASSUME NEW k PROVE StoredIn(d, k)' = StoredIn(d, k)
  BY DEF StoredIn, TopicKeeps
<1>4. QED BY <1>1, <1>2, <1>3

LEMMA CallKept ==
    ASSUME PublishInv, NEW d \in Callers, SameCall(d)
    PROVE  /\ WaitedInv(d)' /\ ResultInv(d)' /\ CopyInv(d)'
           /\ IdInv(d)' /\ OrderInv(d)' /\ HeaderInv(d)'
<1>1. /\ WaitedInv(d) /\ ResultInv(d) /\ CopyInv(d)
      /\ IdInv(d) /\ OrderInv(d) /\ HeaderInv(d)
  BY DEF PublishInv, CallInv
<1>2. /\ batch'[d] = batch[d] /\ result'[d] = result[d] /\ waited'[d] = waited[d]
      /\ firstErr'[d] = firstErr[d] /\ calls'[d] = calls[d] /\ request'[d] = request[d]
      /\ TopicKeeps(d) /\ (pc'[d] = "idle" <=> pc[d] = "idle")
  BY DEF SameCall
<1>3. /\ Mine(d)' = Mine(d)
      /\ \A n \in Mine(d) : n \in DOMAIN topic /\ topic'[n] = topic[n]
      /\ \A i : ConfirmedOf(d, i)' = ConfirmedOf(d, i)
      /\ \A k : StoredIn(d, k)' = StoredIn(d, k)
  BY <1>2, CopiesKept
<1>4. WaitedInv(d)' /\ HeaderInv(d)'
  BY <1>1, <1>2 DEF WaitedInv, HeaderInv
<1>5. ResultInv(d)'
  BY <1>1, <1>2 DEF ResultInv, IsPublished, Pending, Failed, TopicKeeps
<1>6. CopyInv(d)'
  BY <1>1, <1>2, <1>3 DEF CopyInv, IsPublished, Pending, Failed
<1>7. IdInv(d)'
  <2>1. ASSUME NEW i PROVE Known(d, i)' = Known(d, i)
    <3>1. \A n \in ConfirmedOf(d, i) : topic'[n] = topic[n]
      BY <1>2 DEF ConfirmedOf, TopicKeeps
    <3>2. QED BY <1>2, <1>3, <3>1 DEF Known
  <2>2. QED BY <1>1, <1>2, <2>1 DEF IdInv
<1>8. OrderInv(d)'
  <2>1. StoredIn(d, calls[d])' = StoredIn(d, calls[d])
    <3>1. \A k : StoredIn(d, k)' = StoredIn(d, k)
      BY <1>3
    <3>2. QED BY <1>2, <3>1
  <2>2. \A n \in StoredIn(d, calls[d]) : topic'[n] = topic[n]
    BY <1>2 DEF StoredIn, TopicKeeps
  <2>3. QED BY <1>1, <1>2, <2>1, <2>2 DEF OrderInv, Pending
<1>9. QED BY <1>4, <1>5, <1>6, <1>7, <1>8

(* Nothing of d changes but what its keys have held. *)
Untouched(d) ==
    /\ SameCall(d) /\ pc'[d] = pc[d]
    /\ found'[d] = found[d] /\ client'[d] = client[d]
    /\ events \in Nat /\ events' \in Nat /\ events <= events'

LEMMA PhaseKept ==
    ASSUME PublishInv, NEW d \in Callers, Untouched(d)
    PROVE  PhaseInv(d)'
<1>1. PhaseInv(d) /\ calls[d] \in Nat
  BY Types, BoundsAssumption DEF PublishInv, CallInv
<1>2. QED BY <1>1 DEF Untouched, SameCall, PhaseInv, InCall, Publishing, Returned

(* Whatever is registered or removed meanwhile. *)
LEMMA LookupKept ==
    ASSUME PublishInv, NEW d \in Callers, Untouched(d),
           \A k \in RegistryKeys :
              /\ seen[d][k] \subseteq seen'[d][k]
              /\ pc[d] # "idle" /\ request[d] # NoRequest => registry'[k] \in seen'[d][k]
    PROVE  LookupInv(d)'
<1>1. LookupInv(d)
  BY DEF PublishInv, CallInv
<1>2. pc'[d] = pc[d] /\ request'[d] = request[d] /\ found'[d] = found[d]
  BY DEF Untouched, SameCall
<1>3. Keys(d)' = Keys(d) /\ Searching(d)' = Searching(d) /\ SearchEnded(d)' = SearchEnded(d)
  BY <1>2 DEF Keys, KeysOf, NameKey, HostKey, PathKey, Searching, IsSearch, SearchEnded
<1>4. ASSUME NEW i PROVE Held(d, i) \subseteq Held(d, i)'
  BY <1>2 DEF Held, KeysOf, NameKey, HostKey, PathKey
<1>5. ASSUME NEW n PROVE PassedOver(d, n) => PassedOver(d, n)'
  BY <1>4 DEF PassedOver
<1>6. /\ (pc[d] = "idle" <=> request[d] = NoRequest /\ pc[d] # "returned")'
      /\ (pc[d] \in {"host", "path", "name", "opening", "opened"} => request[d] \in Requests)'
      /\ (pc[d] # "idle" /\ request[d] # NoRequest =>
            \A k \in RegistryKeys : registry[k] \in seen[d][k])'
      /\ (pc[d] \in {"host", "path"} => Searching(d) /\ request[d].url # NilURL)'
  BY <1>1, <1>2, <1>3 DEF LookupInv, NoRequest, NilURL
<1>7. (pc[d] = "path" => request[d].url.path # "" /\ PassedOver(d, 1))'
  BY <1>1, <1>2, <1>5 DEF LookupInv
<1>8. (pc[d] = "name" /\ Searching(d) => PassedOver(d, Len(Keys(d)) - 1))'
  BY <1>1, <1>2, <1>3, <1>5 DEF LookupInv
<1>9. (SearchEnded(d) =>
          /\ found[d] # NoConfig => \E i \in DOMAIN Keys(d) : found[d] \in Held(d, i)
          /\ \A i \in DOMAIN Keys(d) : NoConfig \notin Held(d, i) =>
                \E j \in 1..i : found[d] \in Held(d, j) \ {NoConfig})'
  BY <1>1, <1>2, <1>3, <1>4 DEF LookupInv, NoConfig
<1>10. QED BY <1>6, <1>7, <1>8, <1>9 DEF LookupInv

LEMMA CallInvKept ==
    ASSUME PublishInv, NEW d \in Callers, Untouched(d),
           UNCHANGED registry, seen'[d] = seen[d]
    PROVE  CallInv(d)'
<1>1. WaitedInv(d)' /\ ResultInv(d)' /\ CopyInv(d)' /\ IdInv(d)' /\ OrderInv(d)' /\ HeaderInv(d)'
  BY CallKept DEF Untouched
<1>2. LookupInv(d)
  BY DEF PublishInv, CallInv
<1>3. QED BY <1>1, <1>2, PhaseKept, LookupKept DEF CallInv, LookupInv
-----------------------------------------------------------------------------
(***************************************************************************)
(* Steps of one goroutine, and of the program.                             *)
(***************************************************************************)

VarTypes ==
    /\ ConfigTypeOK
    /\ pc \in [Callers -> Locations_]
    /\ batch \in [Callers -> Seq(Messages)]
    /\ result \in [Callers -> Seq(Results)]
    /\ waited \in [Callers -> Nat] /\ firstErr \in [Callers -> Nat]
    /\ calls \in [Callers -> 0..MaxEvents]
    /\ topic \in Seq(Entries)

CallTypes(c) ==
    /\ \A i \in DOMAIN batch[c] :
          {batch[c][i].id, batch[c][i].arrived} \subseteq 0..Len(topic)
    /\ Len(result[c]) <= Len(batch[c])
    /\ waited[c] <= Len(result[c]) /\ firstErr[c] <= waited[c]
    /\ pc[c] \in {"publishing", "waiting"} => client[c] \in PubSubClients("open")
    /\ pc[c] = "returned" => client[c].state # "open"

LEMMA TypeOKParts ==
    /\ TypeOK <=> VarTypes /\ \A c \in Callers : CallTypes(c)
    /\ TypeOK' <=> VarTypes' /\ \A c \in Callers : CallTypes(c)'
  BY DEF TypeOK, VarTypes, CallTypes, Locations_

LEMMA CallTypesKept ==
    ASSUME PublishInv, NEW d \in Callers, Untouched(d),
           Len(topic') \in Nat, Len(topic) <= Len(topic')
    PROVE  CallTypes(d)'
<1>1. CallTypes(d) /\ Len(topic) \in Nat
  BY TypeOKParts, Types, LenProperties DEF PublishInv
<1>2. /\ batch'[d] = batch[d] /\ result'[d] = result[d] /\ waited'[d] = waited[d]
      /\ firstErr'[d] = firstErr[d] /\ pc'[d] = pc[d] /\ client'[d] = client[d]
  BY DEF Untouched, SameCall
<1>3. 0..Len(topic) \subseteq 0..Len(topic')
  BY <1>1
<1>4. QED BY <1>1, <1>2, <1>3 DEF CallTypes, PubSubClients

(* What the step of one goroutine leaves alone. *)
OnlyOf(c) ==
    /\ UNCHANGED registry
    /\ \A d \in Callers \ {c} : Untouched(d) /\ seen'[d] = seen[d]
    /\ Len(topic) <= Len(topic')

LEMMA StepOfOne ==
    ASSUME PublishInv, NEW c \in Callers, OnlyOf(c),
           VarTypes', CallTypes(c)', CallInv(c)'
    PROVE  PublishInv'
<1>1. Len(topic') \in Nat
  BY LenProperties DEF VarTypes
<1>2. ASSUME NEW d \in Callers \ {c} PROVE CallTypes(d)' /\ CallInv(d)'
  BY <1>1, CallTypesKept, CallInvKept DEF OnlyOf
<1>3. \A d \in Callers : CallTypes(d)' /\ CallInv(d)'
  BY <1>2
<1>4. QED BY <1>3, TypeOKParts DEF PublishInv

(* Where the lookup is over, all it needs is what it asked for. *)
LEMMA LookupOver ==
    ASSUME PublishInv, NEW c \in Callers, UNCHANGED registry,
           request'[c] = request[c], seen'[c] = seen[c],
           pc'[c] \in {"opened", "failed", "publishing", "waiting", "returned"},
           pc[c] # "idle" \/ request[c] = NoRequest,
           request[c] = NoRequest => pc'[c] = "returned",
           pc'[c] = "opened" => request[c] \in Requests
    PROVE  LookupInv(c)'
<1>1. LookupInv(c)
  BY DEF PublishInv, CallInv
<1>2. (NoRequest)' = NoRequest
  BY DEF NoRequest
<1>3. /\ (pc[c] = "idle" <=> request[c] = NoRequest /\ pc[c] # "returned")'
      /\ (pc[c] \in {"host", "path", "name", "opening", "opened"} => request[c] \in Requests)'
      /\ (pc[c] # "idle" /\ request[c] # NoRequest =>
            \A k \in RegistryKeys : registry[k] \in seen[c][k])'
  BY <1>1, <1>2 DEF LookupInv
<1>4. pc'[c] \notin {"host", "path", "name", "opening"}
  OBVIOUS
<1>5. QED BY <1>3, <1>4 DEF LookupInv, SearchEnded

LEMMA NoOptions == <<>> \in OptionLists
<1>1. <<>> \in [1..0 -> Options] /\ 0 \in 0..MaxOptions
  BY BoundsAssumption
<1>2. QED BY <1>1 DEF OptionLists

(* What is registered is seen; what was seen is kept. *)
RegistryChanges ==
    /\ registry' \in [RegistryKeys -> Configs \union {NoConfig}]
    /\ draft' \in Configs
    /\ seen' \in [Callers -> [RegistryKeys -> SUBSET (Configs \union {NoConfig})]]
    /\ \A d \in Callers : \A k \in RegistryKeys :
          /\ seen[d][k] \subseteq seen'[d][k]
          /\ registry'[k] = registry[k] \/ registry'[k] \in seen'[d][k]

LEMMA ConfigureStep ==
    ASSUME PublishInv, Configure
    PROVE  PublishInv'
<1>1. /\ UNCHANGED <<pc, request, found, client>> /\ UNCHANGED publishVars
      /\ events \in Nat /\ events' = events + 1 /\ events < MaxEvents
      /\ topic \in Seq(Entries) /\ Len(topic) \in Nat
  BY Types, BoundsAssumption, LenProperties
     DEF Configure, ProgramConfigures, SetProjectId, SetRegion, AddOption, Register,
         Unregister, Store, Event
<1>2. RegistryChanges
  <2>1. CASE \E p \in Projects : SetProjectId(p)
    <3>1. draft' \in Configs
      BY <2>1, Types DEF SetProjectId, Configs
    <3>2. QED BY <2>1, <3>1, Types DEF SetProjectId, RegistryChanges
  <2>2. CASE \E l \in Locations : SetRegion(l)
    <3>1. draft' \in Configs
      BY <2>2, Types DEF SetRegion, Configs
    <3>2. QED BY <2>2, <3>1, Types DEF SetRegion, RegistryChanges
  <2>3. CASE \E o \in Options : AddOption(o)
    <3>1. PICK o \in Options : AddOption(o)
      BY <2>3
    <3> DEFINE old == draft.options
               new == Append(old, o)
    <3>2. old \in OptionLists /\ draft \in Configs
      BY Types DEF Configs
    <3>3. PICK n \in 0..MaxOptions : old \in [1..n -> Options]
      BY <3>2 DEF OptionLists
    <3>4. n \in Nat /\ old \in Seq(Options) /\ Len(old) = n /\ n < MaxOptions
      BY <3>1, <3>3, BoundsAssumption DEF AddOption
    <3>5. new \in Seq(Options) /\ Len(new) = n + 1
      BY <3>4
    <3> HIDE DEF new, old
    <3>11. new \in [1..Len(new) -> Options]
      BY <3>5, LenProperties
    <3>6. new \in [1..(n + 1) -> Options] /\ n + 1 \in 0..MaxOptions
      BY <3>4, <3>5, <3>11, BoundsAssumption
    <3>7. new \in OptionLists
      BY <3>6 DEF OptionLists
    <3>8. draft' = [draft EXCEPT !.options = new]
      BY <3>1 DEF AddOption, new, old
    <3>9. draft' \in Configs
      BY <3>2, <3>7, <3>8 DEF Configs
    <3>10. QED BY <3>1, <3>9, Types DEF AddOption, RegistryChanges
  <2>4. ASSUME NEW k \in RegistryKeys, NEW cfg \in Configs \union {NoConfig}, Store(k, cfg),
               draft' \in Configs
        PROVE  RegistryChanges
    BY <2>4, Types DEF Store, RegistryChanges
  <2>5. CASE \E k \in RegistryKeys : Register(k)
    <3>1. EmptyConfig \in Configs
      BY NoOptions, ConfigAssumption DEF EmptyConfig, Configs
    <3>2. PICK k \in RegistryKeys : Register(k)
      BY <2>5
    <3>3. Store(k, draft) /\ draft \in Configs \union {NoConfig} /\ draft' \in Configs
      BY <3>1, <3>2, Types DEF Register
    <3>4. QED BY <2>4, <3>3
  <2>6. CASE \E k \in RegistryKeys : Unregister(k)
    <3>1. PICK k \in RegistryKeys : Unregister(k)
      BY <2>6
    <3>2. Store(k, NoConfig) /\ NoConfig \in Configs \union {NoConfig} /\ draft' \in Configs
      BY <3>1, Types DEF Unregister
    <3>3. QED BY <2>4, <3>2
  <2>7. QED BY <2>1, <2>2, <2>3, <2>5, <2>6 DEF Configure, ProgramConfigures
<1>3. ASSUME NEW d \in Callers PROVE CallTypes(d)' /\ CallInv(d)'
  <2>1. Untouched(d)
    BY <1>1 DEF Untouched, SameCall, publishVars, TopicKeeps
  <2>2. \A k \in RegistryKeys :
              /\ seen[d][k] \subseteq seen'[d][k]
              /\ pc[d] # "idle" /\ request[d] # NoRequest => registry'[k] \in seen'[d][k]
    <3>1. LookupInv(d)
      BY DEF PublishInv, CallInv
    <3>2. QED BY <1>2, <3>1 DEF LookupInv, RegistryChanges
  <2>3. LookupInv(d)'
    BY <2>1, <2>2, LookupKept
  <2>4. WaitedInv(d)' /\ ResultInv(d)' /\ CopyInv(d)' /\ IdInv(d)' /\ OrderInv(d)'
        /\ HeaderInv(d)'
    BY <2>1, CallKept DEF Untouched
  <2>5. CallTypes(d)'
    BY <1>1, <2>1, CallTypesKept DEF publishVars
  <2>6. QED BY <2>1, <2>3, <2>4, <2>5, PhaseKept DEF CallInv
<1>4. VarTypes'
  <2>1. ConfigTypeOK'
    BY <1>1, <1>2, Types, BoundsAssumption DEF ConfigTypeOK, RegistryChanges
  <2>2. QED BY <1>1, <2>1, Types DEF VarTypes, publishVars
<1>5. QED BY <1>3, <1>4, TypeOKParts DEF PublishInv

(* A step within a call that only moves on, and may open or close a client. *)
LEMMA MovesOn ==
    ASSUME PublishInv, NEW c \in Callers,
           UNCHANGED <<registry, draft, events, request, seen>>, UNCHANGED publishVars,
           found' \in [Callers -> Configs \union {NoConfig}],
           client' \in [Callers -> Clients],
           NEW to \in Locations_ \ {"idle"}, pc' = [pc EXCEPT ![c] = to],
           \A d \in Callers \ {c} : found'[d] = found[d] /\ client'[d] = client[d],
           pc[c] # "idle", LookupInv(c)', PhaseInv(c)',
           to \in {"publishing", "waiting"} => client'[c] \in PubSubClients("open"),
           to = "returned" => client'[c].state # "open"
    PROVE  PublishInv'
<1>1. /\ pc' \in [Callers -> Locations_] /\ pc'[c] = to
      /\ \A d \in Callers \ {c} : pc'[d] = pc[d]
  BY Types
<1>2. \A d \in Callers : SameCall(d)
  BY <1>1 DEF SameCall, publishVars, TopicKeeps
<1>3. OnlyOf(c)
  <2>1. Len(topic) \in Nat /\ events \in Nat
    BY Types, LenProperties, BoundsAssumption
  <2>2. QED BY <1>1, <1>2, <2>1 DEF OnlyOf, Untouched, publishVars
<1>4. VarTypes'
  BY <1>1, Types DEF VarTypes, ConfigTypeOK, publishVars
<1>5. CallTypes(c)
  BY TypeOKParts DEF PublishInv
<1>6. CallTypes(c)'
  BY <1>1, <1>5 DEF CallTypes, publishVars, PubSubClients
<1>7. CallInv(c)'
  BY <1>2, CallKept DEF CallInv
<1>8. QED BY <1>3, <1>4, <1>6, <1>7, StepOfOne

LEMMA OpensAreClients ==
    ASSUME PublishInv, NEW c \in Callers, pc[c] = "opening"
    PROVE  /\ found[c] # NoConfig =>
                 [state |-> "open", project |-> found[c].project,
                  options |-> found[c].options] \in PubSubClients("open")
           /\ request[c].service = "gs" =>
                 [state |-> "open",
                  options |-> IF found[c] = NoConfig THEN <<>> ELSE found[c].options]
                    \in StorageClients
           /\ request[c].service = "genai" =>
                 LET r == request[c]
                     cfg == IF found[c] = NoConfig THEN EmptyConfig ELSE found[c]
                 IN  [state |-> "open",
                      project |-> Either(r.project, cfg.project),
                      location |-> Either(r.location, cfg.location),
                      backend |-> IF r.backend # "" THEN r.backend
                                  ELSE IF r.apiKey # "" THEN "GeminiAPI" ELSE "VertexAI"]
                        \in GenaiClients
           /\ request[c].service = "secrets" =>
                 [state |-> "open", project |-> request[c].project] \in SecretClients
<1>1. /\ found[c] \in Configs \union {NoConfig} /\ request[c] \in Requests
      /\ <<>> \in OptionLists
  BY Types, NoOptions DEF PublishInv, CallInv, LookupInv
<1>2. found[c] # NoConfig =>
         /\ found[c].project \in Projects /\ found[c].location \in Locations
         /\ found[c].options \in OptionLists
  BY <1>1 DEF Configs
<1>3. EmptyConfig.project \in STRING /\ EmptyConfig.location \in STRING
  <2>1. EmptyConfig.project = "" /\ EmptyConfig.location = ""
    BY DEF EmptyConfig
  <2>2. QED BY <2>1, ConfigAssumption, StringsAssumption
<1>4. ASSUME request[c].service = "genai"
      PROVE  LET r == request[c]
                 cfg == IF found[c] = NoConfig THEN EmptyConfig ELSE found[c]
             IN  [state |-> "open",
                  project |-> Either(r.project, cfg.project),
                  location |-> Either(r.location, cfg.location),
                  backend |-> IF r.backend # "" THEN r.backend
                              ELSE IF r.apiKey # "" THEN "GeminiAPI" ELSE "VertexAI"]
                    \in GenaiClients
  <2> DEFINE r == request[c]
             cfg == IF found[c] = NoConfig THEN EmptyConfig ELSE found[c]
  <2>1. cfg.project \in STRING /\ cfg.location \in STRING
    BY <1>2, <1>3, StringsAssumption
  <2>2. r.project \in STRING /\ r.location \in STRING
    BY <1>1, <1>4, RequestsAssumption
  <2>5. (IF r.backend # "" THEN r.backend
         ELSE IF r.apiKey # "" THEN "GeminiAPI" ELSE "VertexAI") \in Backends
    BY <1>1, <1>4 DEF Backends
  <2> HIDE DEF r, cfg
  <2>3. /\ Either(r.project, cfg.project) \in STRING
        /\ Either(r.location, cfg.location) \in STRING
    BY <2>1, <2>2 DEF Either
  <2>4. QED BY <2>3, <2>5 DEF GenaiClients, r, cfg
<1>5. request[c].service = "secrets" => request[c].project \in STRING
  BY <1>1, RequestsAssumption
<1>6. (IF found[c] = NoConfig THEN <<>> ELSE found[c].options) \in OptionLists
  BY <1>1, <1>2
<1>7. found[c] # NoConfig =>
         [state |-> "open", project |-> found[c].project, options |-> found[c].options]
            \in PubSubClients("open")
  BY <1>2 DEF PubSubClients
<1>8. [state |-> "open",
       options |-> IF found[c] = NoConfig THEN <<>> ELSE found[c].options]
          \in StorageClients
  BY <1>6 DEF StorageClients
<1>9. request[c].service = "secrets" =>
         [state |-> "open", project |-> request[c].project] \in SecretClients
  BY <1>5 DEF SecretClients
<1>10. QED BY <1>4, <1>7, <1>8, <1>9

LEMMA ResolveKeeps ==
    ASSUME PublishInv, NEW c \in Callers, Resolve(c)
    PROVE  PublishInv'
<1>1. UNCHANGED publishVars /\ PhaseInv(c) /\ LookupInv(c)
  BY DEF Resolve, PublishInv, CallInv
<1>2. CASE LookUpHost(c) \/ LookUpPath(c) \/ LookUpName(c)
  <2>1. LookupInv(c)'
    BY <1>2, LookupStep
  <2>2. PICK k : \/ LookUp(c, "host", k, "path") \/ LookUp(c, "host", k, "name")
                 \/ LookUp(c, "path", k, "name") \/ LookUp(c, "name", k, "opening")
    BY <1>2 DEF LookUpHost, LookUpPath, LookUpName
  <2>3. /\ UNCHANGED <<registry, draft, events, request, seen, client>>
        /\ pc[c] \in {"host", "path", "name"} /\ found' = [found EXCEPT ![c] = Get(k)]
    BY <2>2 DEF LookUp, Goto, configVars
  <2>4. \E to \in {"path", "name", "opening"} : pc' = [pc EXCEPT ![c] = to]
    BY <2>2 DEF LookUp, Goto
  <2>5. PICK to \in {"path", "name", "opening"} : pc' = [pc EXCEPT ![c] = to]
    BY <2>4
  <2>6. Get(k) \in Configs \union {NoConfig}
    BY Types DEF Get
  <2>7. /\ found' \in [Callers -> Configs \union {NoConfig}]
        /\ client' \in [Callers -> Clients] /\ pc'[c] = to /\ to \in Locations_ \ {"idle"}
        /\ \A d \in Callers \ {c} : found'[d] = found[d] /\ client'[d] = client[d]
    BY <2>3, <2>5, <2>6, Types DEF Locations_, ResolveLocations
  <2>8. PhaseInv(c)'
    BY <1>1, <2>3, <2>7 DEF PhaseInv, InCall, Publishing, Returned, publishVars
  <2>9. QED BY <1>1, <2>1, <2>3, <2>5, <2>7, <2>8, MovesOn
<1>3. CASE \E cl \in Clients : Opened(c, cl) /\
              (request[c].service = "pubsub" => cl \in PubSubClients("open"))
  <2>1. PICK cl \in Clients : Opened(c, cl) /\
              (request[c].service = "pubsub" => cl \in PubSubClients("open"))
    BY <1>3
  <2>2. /\ UNCHANGED <<registry, draft, events, request, seen, found>>
        /\ pc[c] = "opening" /\ pc' = [pc EXCEPT ![c] = "opened"]
        /\ client' = [client EXCEPT ![c] = cl]
    BY <2>1 DEF Opened, Goto, configVars
  <2>3. /\ found' \in [Callers -> Configs \union {NoConfig}]
        /\ client' \in [Callers -> Clients] /\ pc'[c] = "opened" /\ client'[c] = cl
        /\ \A d \in Callers \ {c} : found'[d] = found[d] /\ client'[d] = client[d]
    BY <2>2, Types
  <2>4. LookupInv(c)'
    BY <1>1, <2>2, <2>3, RequestMeans, LookupOver DEF LookupInv
  <2>5. PhaseInv(c)'
    BY <1>1, <2>1, <2>2, <2>3
       DEF PhaseInv, InCall, Publishing, Returned, publishVars, PubSubClients
  <2>6. "opened" \in Locations_ \ {"idle"}
    BY DEF Locations_, ResolveLocations
  <2>7. QED BY <1>1, <2>2, <2>3, <2>4, <2>5, <2>6, MovesOn
<1>4. CASE OpenFails(c)
  <2>1. /\ UNCHANGED <<registry, draft, events, request, seen, found, client>>
        /\ pc[c] = "opening" /\ pc' = [pc EXCEPT ![c] = "failed"]
    BY <1>4 DEF OpenFails, Goto, configVars, openVars
  <2>2. /\ found' \in [Callers -> Configs \union {NoConfig}]
        /\ client' \in [Callers -> Clients] /\ pc'[c] = "failed"
        /\ \A d \in Callers \ {c} : found'[d] = found[d] /\ client'[d] = client[d]
    BY <2>1, Types
  <2>3. LookupInv(c)'
    BY <1>1, <2>1, <2>2, RequestMeans, LookupOver DEF LookupInv
  <2>4. PhaseInv(c)'
    BY <1>1, <2>1, <2>2 DEF PhaseInv, InCall, Publishing, Returned, publishVars
  <2>5. "failed" \in Locations_ \ {"idle"}
    BY DEF Locations_, ResolveLocations
  <2>6. QED BY <1>1, <2>1, <2>2, <2>3, <2>4, <2>5, MovesOn
<1>5. CASE OpenPubSub(c) \/ OpenStorage(c) \/ OpenGenai(c) \/ OpenSecrets(c) \/ UseConfig(c)
  <2>1. pc[c] = "opening"
    BY <1>5 DEF OpenPubSub, OpenStorage, OpenGenai, OpenSecrets, UseConfig, Opened, Goto
  <2>2. /\ PubSubClients("open") \subseteq Clients /\ StorageClients \subseteq Clients
        /\ GenaiClients \subseteq Clients /\ SecretClients \subseteq Clients
        /\ NoClient \in Clients
    BY DEF Clients
  <2>3. QED
    BY <1>3, <1>5, <2>1, <2>2, OpensAreClients
       DEF OpenPubSub, OpenStorage, OpenGenai, OpenSecrets, UseConfig
<1>6. QED BY <1>2, <1>4, <1>5 DEF Resolve, ResolveStep

LEMMA ClosedClient ==
    ASSUME NEW cl \in PubSubClients("open")
    PROVE  /\ [cl EXCEPT !.state = "closed"] \in PubSubClients("closed")
           /\ [cl EXCEPT !.state = "closed"].state = "closed"
  BY DEF PubSubClients

(* Return closes the client that is open. *)
LEMMA ReturnMeans ==
    ASSUME PublishInv, NEW c \in Callers, Return(c), client[c] \in PubSubClients("open")
    PROVE  /\ UNCHANGED <<registry, draft, events, request, found, seen>>
           /\ pc' = [pc EXCEPT ![c] = "returned"]
           /\ pc' \in [Callers -> Locations_] /\ pc'[c] = "returned"
           /\ client' \in [Callers -> Clients] /\ client'[c].state = "closed"
           /\ \A d \in Callers \ {c} :
                 pc'[d] = pc[d] /\ found'[d] = found[d] /\ client'[d] = client[d]
<1> DEFINE closed == [client[c] EXCEPT !.state = "closed"]
<1>1. closed \in PubSubClients("closed") /\ closed.state = "closed"
  BY ClosedClient
<1> HIDE DEF closed
<1>2. client' = [client EXCEPT ![c] = closed]
  BY DEF Return, closed
<1>3. closed \in Clients
  BY <1>1 DEF Clients
<1>4. "returned" \in Locations_
  BY DEF Locations_
<1>5. QED BY <1>1, <1>2, <1>3, <1>4, Types DEF Return, configVars

LEMMA ResolvePublisherKeeps ==
    ASSUME PublishInv, NEW c \in Callers, ResolvePublisher(c)
    PROVE  PublishInv'
<1>1. PhaseInv(c) /\ LookupInv(c)
  BY DEF PublishInv, CallInv
<1>2. /\ pc[c] = "opened" /\ request[c].service = "pubsub"
      /\ pc' = [pc EXCEPT ![c] = "publishing"]
      /\ UNCHANGED <<registry, draft, events, request, seen, found, client>>
      /\ UNCHANGED publishVars
  BY DEF ResolvePublisher, Publishing, Goto, configVars, openVars
<1>3. client[c] \in PubSubClients("open") /\ result[c] = <<>> /\ Len(batch[c]) > 0
  BY <1>1, <1>2 DEF PhaseInv, Publishing
<1>4. /\ found' \in [Callers -> Configs \union {NoConfig}]
      /\ client' \in [Callers -> Clients] /\ pc'[c] = "publishing"
      /\ \A d \in Callers \ {c} : found'[d] = found[d] /\ client'[d] = client[d]
  BY <1>2, Types
<1>5. LookupInv(c)'
  BY <1>1, <1>2, <1>4, RequestMeans, LookupOver
<1>6. PhaseInv(c)'
  <2>1. Len(result[c]) = 0
    BY <1>3, EmptySeq
  <2>2. request[c] \in Requests
    BY <1>1, <1>2 DEF LookupInv
  <2>3. QED
    BY <1>1, <1>2, <1>3, <1>4, <2>1, <2>2
       DEF PhaseInv, InCall, Publishing, Returned, publishVars, PubSubClients
<1>7. "publishing" \in Locations_ \ {"idle"} /\ client'[c] \in PubSubClients("open")
  BY <1>2, <1>3 DEF Locations_, PubSubClients
<1>8. QED BY <1>2, <1>4, <1>5, <1>6, <1>7, MovesOn

LEMMA NoTopicNameKeeps ==
    ASSUME PublishInv, NEW c \in Callers, NoTopicName(c)
    PROVE  PublishInv'
<1>1. PhaseInv(c) /\ LookupInv(c)
  BY DEF PublishInv, CallInv
<1>2. /\ pc[c] = "opened" /\ request[c].service = "pubsub" /\ Return(c)
      /\ UNCHANGED publishVars
  BY DEF NoTopicName, Publishing, Return, publishVars
<1>3. client[c] \in PubSubClients("open") /\ result[c] = <<>>
  BY <1>1, <1>2 DEF PhaseInv, Publishing
<1>4. /\ UNCHANGED <<registry, draft, events, request, found, seen>>
      /\ pc' = [pc EXCEPT ![c] = "returned"] /\ pc'[c] = "returned"
      /\ client' \in [Callers -> Clients] /\ client'[c].state = "closed"
      /\ \A d \in Callers \ {c} : found'[d] = found[d] /\ client'[d] = client[d]
  BY <1>2, <1>3, ReturnMeans
<1>5. LookupInv(c)'
  BY <1>1, <1>2, <1>4, RequestMeans, LookupOver
<1>6. PhaseInv(c)'
  BY <1>1, <1>2, <1>3, <1>4, RequestMeans
     DEF PhaseInv, InCall, Publishing, Returned, publishVars
<1>7. "returned" \in Locations_ \ {"idle"} /\ found' \in [Callers -> Configs \union {NoConfig}]
  BY <1>4, Types DEF Locations_
<1>8. QED BY <1>2, <1>4, <1>5, <1>6, <1>7, MovesOn

LEMMA BatchReturnsKeeps ==
    ASSUME PublishInv, NEW c \in Callers, BatchReturns(c)
    PROVE  PublishInv'
<1>1. PhaseInv(c) /\ LookupInv(c) /\ CallTypes(c)
  BY TypeOKParts DEF PublishInv, CallInv
<1>2. /\ pc[c] = "waiting" /\ waited[c] = Len(result[c]) /\ Return(c)
      /\ UNCHANGED publishVars
  BY DEF BatchReturns, InBatchWait, Return, publishVars
<1>3. client[c] \in PubSubClients("open") /\ request[c] \in Requests
  BY <1>1, <1>2 DEF CallTypes, PhaseInv, InCall
<1>4. /\ UNCHANGED <<registry, draft, events, request, found, seen>>
      /\ pc' = [pc EXCEPT ![c] = "returned"] /\ pc'[c] = "returned"
      /\ client' \in [Callers -> Clients] /\ client'[c].state = "closed"
      /\ \A d \in Callers \ {c} : found'[d] = found[d] /\ client'[d] = client[d]
  BY <1>2, <1>3, ReturnMeans
<1>5. LookupInv(c)'
  BY <1>1, <1>2, <1>3, <1>4, RequestMeans, LookupOver
<1>6. PhaseInv(c)'
  BY <1>1, <1>2, <1>3, <1>4, RequestMeans
     DEF PhaseInv, InCall, Publishing, Returned, publishVars
<1>7. "returned" \in Locations_ \ {"idle"} /\ found' \in [Callers -> Configs \union {NoConfig}]
  BY <1>4, Types DEF Locations_
<1>8. QED BY <1>2, <1>4, <1>5, <1>6, <1>7, MovesOn

LEMMA EmptyBatchKeeps ==
    ASSUME PublishInv, NEW c \in Callers, EmptyBatch(c)
    PROVE  PublishInv'
<1>1. LookupInv(c) /\ PhaseInv(c) /\ CopyInv(c) /\ CallTypes(c)
  BY TypeOKParts DEF PublishInv, CallInv
<1>2. /\ batch[c] = <<>> /\ pc[c] = "idle" /\ pc' = [pc EXCEPT ![c] = "returned"]
      /\ events < MaxEvents /\ events' = events + 1
      /\ UNCHANGED <<registry, draft, request, found, client, seen>>
      /\ UNCHANGED publishVars
  BY DEF EmptyBatch, Goto, Event, openVars
<1>3. /\ pc' \in [Callers -> Locations_] /\ pc'[c] = "returned"
      /\ \A d \in Callers \ {c} : pc'[d] = pc[d]
  BY <1>2, Types DEF Locations_
<1>4. events \in Nat /\ events' \in 0..MaxEvents /\ Len(topic) \in Nat /\ calls[c] \in Nat
  BY <1>2, Types, LenProperties, BoundsAssumption
<1>5. OnlyOf(c)
  BY <1>2, <1>3, <1>4 DEF OnlyOf, Untouched, SameCall, TopicKeeps, publishVars
<1>6. VarTypes'
  BY <1>2, <1>3, <1>4, Types DEF VarTypes, ConfigTypeOK, publishVars
<1>7. request[c] = NoRequest /\ result[c] = <<>> /\ Len(batch[c]) = 0 /\ DOMAIN batch[c] = {}
  BY <1>1, <1>2, EmptySeq DEF LookupInv, PhaseInv
<1>8. /\ Len(result[c]) = 0 /\ DOMAIN result[c] = {} /\ waited[c] = 0 /\ firstErr[c] = 0
      /\ Mine(c) = {}
  <2>1. Len(result[c]) = 0 /\ DOMAIN result[c] = {}
    BY <1>7, EmptySeq
  <2>2. waited[c] = 0 /\ firstErr[c] = 0
    BY <1>1, <2>1, Types DEF CallTypes
  <2>3. Mine(c) = {}
    BY <1>1, <1>7 DEF CopyInv
  <2>4. QED BY <2>1, <2>2, <2>3
<1>9. LookupInv(c)'
  BY <1>2, <1>3, <1>7, LookupOver
<1>10. PhaseInv(c)'
  BY <1>1, <1>2, <1>3, <1>4, <1>7, RequestMeans
     DEF PhaseInv, InCall, Publishing, Returned, publishVars
<1>11. CallTypes(c)'
  <2>1. client[c].state # "open"
    <3>1. client[c] = NoClient
      BY <1>1, <1>2 DEF PhaseInv
    <3>2. QED BY <3>1 DEF NoClient
  <2>2. QED BY <1>1, <1>2, <1>3, <2>1 DEF CallTypes, publishVars
<1>12. /\ WaitedInv(c)' /\ ResultInv(c)' /\ CopyInv(c)' /\ IdInv(c)' /\ OrderInv(c)'
       /\ HeaderInv(c)'
  <2>1. WaitedInv(c)' /\ ResultInv(c)' /\ IdInv(c)' /\ HeaderInv(c)'
    BY <1>2, <1>7, <1>8 DEF WaitedInv, ResultInv, IdInv, HeaderInv, publishVars
  <2>2. CopyInv(c)'
    BY <1>2, <1>8 DEF CopyInv, Mine, publishVars
  <2>3. OrderInv(c)'
    BY <1>2, <1>7, RequestMeans DEF OrderInv
  <2>4. QED BY <2>1, <2>2, <2>3
<1>13. QED BY <1>5, <1>6, <1>9, <1>10, <1>11, <1>12, StepOfOne DEF CallInv

LEMMA EntryTypes ==
    ASSUME PublishInv, NEW n \in DOMAIN topic
    PROVE  /\ n \in Nat /\ n \in 1..Len(topic)
           /\ topic[n].call \in Nat /\ topic[n].index \in Nat
<1>1. topic \in Seq(Entries)
  BY Types
<1>2. n \in 1..Len(topic) /\ Len(topic) \in Nat
  BY <1>1, LenProperties
<1>3. topic[n] \in Entries
  BY <1>1, <1>2, ElementOfSeq
<1>4. QED BY <1>2, <1>3 DEF Entries

LEMMA FirstLineMeans ==
    ASSUME NEW r \in Requests
    PROVE  /\ FirstLine(r) \in {"host", "name", "opening"}
           /\ FirstLine(r) = "host" => IsSearch(r) /\ r.url # NilURL
           /\ FirstLine(r) = "name" /\ IsSearch(r) => r.url = NilURL
           /\ FirstLine(r) = "opening" => ~IsSearch(r)
<1>1. r.service \in {"pubsub", "gs", "own", "genai", "secrets"}
  BY RequestMeans
<1>2. CASE r.service \in {"pubsub", "gs", "own"}
  BY <1>2 DEF FirstLine, IsSearch
<1>3. CASE r.service = "genai"
  BY <1>3 DEF FirstLine, IsSearch
<1>4. CASE r.service = "secrets"
  BY <1>4 DEF FirstLine, IsSearch
<1>5. QED BY <1>1, <1>2, <1>3, <1>4

LEMMA BeginKeeps ==
    ASSUME PublishInv, NEW c \in Callers, Begin(c)
    PROVE  PublishInv'
<1>1. PICK r \in Requests :
         /\ r.service = "pubsub" => (IF r.fn = "Send" THEN Len(batch[c]) = 1
                                                      ELSE Len(batch[c]) > 0)
         /\ Ask(c, r)
  BY DEF Begin
<1>2. PICK to \in {"host", "name", "opening", "failed"} :
         /\ to = FirstLine(r) \/ to = "failed"
         /\ pc[c] = "idle" /\ pc' = [pc EXCEPT ![c] = to]
  BY <1>1, FirstLineMeans DEF Ask, Goto
<1>3. /\ events < MaxEvents /\ events' = events + 1
      /\ request' = [request EXCEPT ![c] = r]
      /\ seen' = [seen EXCEPT ![c] = [k \in RegistryKeys |-> {registry[k]}]]
      /\ calls' = [calls EXCEPT ![c] = @ + 1]
      /\ UNCHANGED <<registry, draft, found, client>>
      /\ UNCHANGED <<batch, result, waited, firstErr, topic>>
  BY <1>1 DEF Begin, Ask, Event
<1>4. /\ LookupInv(c) /\ PhaseInv(c) /\ WaitedInv(c) /\ ResultInv(c) /\ CopyInv(c)
      /\ IdInv(c) /\ HeaderInv(c) /\ CallTypes(c)
  BY TypeOKParts DEF PublishInv, CallInv
<1>5. /\ events \in Nat /\ events' \in 0..MaxEvents /\ calls[c] \in Nat
      /\ calls[c] <= events /\ Len(topic) \in Nat
  BY <1>3, <1>4, Types, LenProperties, BoundsAssumption DEF PhaseInv
<1>6. /\ pc' \in [Callers -> Locations_] /\ pc'[c] = to
      /\ request' \in [Callers -> Requests \union {NoRequest}] /\ request'[c] = r
      /\ calls' \in [Callers -> 0..MaxEvents] /\ calls'[c] = calls[c] + 1
      /\ seen' \in [Callers -> [RegistryKeys -> SUBSET (Configs \union {NoConfig})]]
      /\ \A k \in RegistryKeys : registry[k] \in seen'[c][k]
  <2>1. to \in Locations_
    BY DEF Locations_, ResolveLocations
  <2>2. calls[c] + 1 \in 0..MaxEvents
    BY <1>3, <1>5, BoundsAssumption
  <2>3. [k \in RegistryKeys |-> {registry[k]}]
           \in [RegistryKeys -> SUBSET (Configs \union {NoConfig})]
    BY Types
  <2>4. QED BY <1>2, <1>3, <2>1, <2>2, <2>3, Types
<1>7. OnlyOf(c)
  BY <1>2, <1>3, <1>5, Types DEF OnlyOf, Untouched, SameCall, TopicKeeps
<1>8. VarTypes'
  BY <1>3, <1>5, <1>6, Types DEF VarTypes, ConfigTypeOK
<1>9. result[c] = <<>> /\ Len(result[c]) = 0 /\ DOMAIN result[c] = {}
  BY <1>2, <1>4, EmptySeq DEF PhaseInv
<1>10. CallTypes(c)'
  BY <1>2, <1>3, <1>4, <1>6 DEF CallTypes
<1>11. LookupInv(c)'
  <2>1. r # NoRequest /\ to # "idle" /\ to # "returned"
    BY RequestMeans
  <2>2. /\ (pc[c] = "idle" <=> request[c] = NoRequest /\ pc[c] # "returned")'
        /\ (pc[c] \in {"host", "path", "name", "opening", "opened"} => request[c] \in Requests)'
        /\ (pc[c] # "idle" /\ request[c] # NoRequest =>
              \A k \in RegistryKeys : registry[k] \in seen[c][k])'
    BY <1>3, <1>6, <2>1
  <2>3. /\ (pc[c] \in {"host", "path"} => Searching(c) /\ request[c].url # NilURL)'
        /\ (pc[c] = "path" => request[c].url.path # "" /\ PassedOver(c, 1))'
    BY <1>2, <1>6, FirstLineMeans DEF Searching
  <2>4. (pc[c] = "name" /\ Searching(c) => PassedOver(c, Len(Keys(c)) - 1))'
    <3>1. SUFFICES ASSUME to = "name", IsSearch(r) PROVE PassedOver(c, Len(Keys(c)) - 1)'
      BY <1>6 DEF Searching
    <3>2. r.url = NilURL
      BY <1>2, <3>1, FirstLineMeans
    <3>3. Len(KeysOf(r)) = 1
      BY <3>1, <3>2, KeysOfMeans
    <3>4. (Len(Keys(c)) - 1)' = 0
      BY <1>6, <3>3 DEF Keys
    <3>5. PassedOver(c, 0)'
      BY DEF PassedOver
    <3>6. QED BY <3>4, <3>5, Zenon DEF PassedOver
  <2>5. ~SearchEnded(c)'
    BY <1>2, <1>6, FirstLineMeans DEF SearchEnded, IsSearch
  <2>6. QED BY <2>2, <2>3, <2>4, <2>5 DEF LookupInv
<1>12. PhaseInv(c)'
  <2>1. to \notin {"idle", "publishing", "waiting", "returned", "opened"}
    OBVIOUS
  <2>2. r.service = "pubsub" => r.fn \in {"Send", "SendBatch"}
    BY PublishRequests
  <2>3. r # NoRequest
    BY RequestMeans
  <2>4. r.service = "pubsub" => Len(batch[c]) > 0 /\ (r.fn = "Send" => Len(batch[c]) = 1)
    <3>1. r.service = "pubsub" => (IF r.fn = "Send" THEN Len(batch[c]) = 1
                                                    ELSE Len(batch[c]) > 0)
      BY <1>1
    <3>2. 1 > 0 /\ (Len(batch[c]) = 1 => Len(batch[c]) > 0)
      OBVIOUS
    <3>3. QED BY <3>1, <3>2, Zenon
  <2>5. QED
    BY <1>3, <1>5, <1>6, <1>9, <2>1, <2>3, <2>4
       DEF PhaseInv, InCall, Publishing, Returned
<1>13. WaitedInv(c)' /\ ResultInv(c)' /\ HeaderInv(c)'
  BY <1>3, <1>4, <1>9 DEF WaitedInv, ResultInv, HeaderInv
<1>14. ASSUME NEW n \in Mine(c)
       PROVE  /\ n \in DOMAIN topic /\ topic[n].call \in Nat
              /\ topic[n].call <= calls[c] /\ topic[n].call < calls'[c]
  <2>1. n \in DOMAIN topic /\ topic[n].call \in Nat
    BY EntryTypes DEF Mine
  <2>2. topic[n].call <= calls[c]
    BY <1>4 DEF CopyInv
  <2>3. QED BY <1>5, <1>6, <2>1, <2>2
<1>15. CopyInv(c)'
  <2>1. Mine(c)' = Mine(c)
    BY <1>3 DEF Mine
  <2>2. QED BY <1>3, <1>4, <1>5, <1>6, <1>14, <2>1 DEF CopyInv
<1>16. IdInv(c)'
  <2>1. ASSUME NEW i PROVE Known(c, i)' = Known(c, i)
    <3>1. ConfirmedOf(c, i)' = ConfirmedOf(c, i) /\ ConfirmedOf(c, i) \subseteq Mine(c)
      BY <1>3 DEF ConfirmedOf, Mine
    <3>2. QED BY <1>2, <1>3, <1>14, <3>1 DEF Known
  <2>2. QED BY <1>3, <1>4, <2>1 DEF IdInv
<1>17. OrderInv(c)'
  <2>1. StoredIn(c, calls[c])' = {}
    BY <1>3, <1>14 DEF StoredIn, Mine
  <2>2. QED BY <1>3, <1>9, <2>1 DEF OrderInv
<1>18. QED
  BY <1>7, <1>8, <1>10, <1>11, <1>12, <1>13, <1>15, <1>16, <1>17, StepOfOne DEF CallInv

LEMMA CallOverKeeps ==
    ASSUME PublishInv, NEW c \in Callers, CallOver(c)
    PROVE  PublishInv'
<1>1. /\ LookupInv(c) /\ PhaseInv(c) /\ CopyInv(c) /\ IdInv(c) /\ HeaderInv(c) /\ CallTypes(c)
  BY TypeOKParts DEF PublishInv, CallInv
<1>2. /\ pc[c] \in {"returned", "failed", "opened"}
      /\ pc' = [pc EXCEPT ![c] = "idle"]
      /\ request' = [request EXCEPT ![c] = NoRequest]
      /\ found' = [found EXCEPT ![c] = NoConfig]
      /\ client' = [client EXCEPT ![c] = NoClient]
      /\ seen' = [seen EXCEPT ![c] = [k \in RegistryKeys |-> {}]]
      /\ result' = [result EXCEPT ![c] = <<>>]
      /\ waited' = [waited EXCEPT ![c] = 0] /\ firstErr' = [firstErr EXCEPT ![c] = 0]
      /\ UNCHANGED <<registry, draft, events>> /\ UNCHANGED <<batch, calls, topic>>
  BY DEF CallOver, Forget, configVars
<1>3. /\ pc' \in [Callers -> Locations_] /\ pc'[c] = "idle"
      /\ request' \in [Callers -> Requests \union {NoRequest}] /\ request'[c] = NoRequest
      /\ found' \in [Callers -> Configs \union {NoConfig}]
      /\ client' \in [Callers -> Clients] /\ client'[c] = NoClient
      /\ seen' \in [Callers -> [RegistryKeys -> SUBSET (Configs \union {NoConfig})]]
      /\ result' \in [Callers -> Seq(Results)] /\ result'[c] = <<>>
      /\ waited' \in [Callers -> Nat] /\ waited'[c] = 0
      /\ firstErr' \in [Callers -> Nat] /\ firstErr'[c] = 0
  <2>1. "idle" \in Locations_ /\ NoClient \in Clients /\ <<>> \in Seq(Results)
    BY EmptySeq DEF Locations_, ResolveLocations, Clients
  <2>2. [k \in RegistryKeys |-> {}] \in [RegistryKeys -> SUBSET (Configs \union {NoConfig})]
    OBVIOUS
  <2>3. QED BY <1>2, <2>1, <2>2, Types
<1>4. /\ events \in Nat /\ calls[c] \in Nat /\ Len(topic) \in Nat /\ Len(batch[c]) \in Nat
      /\ calls[c] <= events
  BY <1>1, Types, LenProperties, BoundsAssumption DEF PhaseInv
<1>5. OnlyOf(c)
  BY <1>2, <1>4, Types DEF OnlyOf, Untouched, SameCall, TopicKeeps
<1>6. VarTypes'
  BY <1>2, <1>3, Types DEF VarTypes, ConfigTypeOK
<1>7. Len(result'[c]) = 0 /\ DOMAIN result'[c] = {}
  BY <1>3, EmptySeq
<1>8. CallTypes(c)'
  BY <1>1, <1>2, <1>3, <1>4, <1>7 DEF CallTypes
<1>9. LookupInv(c)'
  BY <1>3, RequestMeans DEF LookupInv, SearchEnded
<1>10. PhaseInv(c)'
  BY <1>2, <1>3, <1>4, <1>7 DEF PhaseInv, InCall, Publishing, Returned
<1>11. WaitedInv(c)' /\ ResultInv(c)' /\ HeaderInv(c)'
  BY <1>1, <1>2, <1>3, <1>7 DEF WaitedInv, ResultInv, HeaderInv
<1>12. CopyInv(c)'
  BY <1>1, <1>2, <1>3 DEF CopyInv, Mine
<1>13. IdInv(c)'
  <2>1. ASSUME NEW i PROVE Known(c, i)' = Known(c, i)
    <3>1. ConfirmedOf(c, i)' = ConfirmedOf(c, i)
      BY <1>2 DEF ConfirmedOf
    <3>2. ASSUME NEW n \in ConfirmedOf(c, i) PROVE topic[n].call < calls[c] \/ i <= waited[c]
      <4>1. n \in Mine(c) /\ topic[n].index = i
        BY DEF ConfirmedOf, Mine
      <4>2. topic[n].call \in Nat
        BY <4>1, EntryTypes DEF Mine
      <4>3. topic[n].call <= calls[c]
            /\ (topic[n].call = calls[c] => i \in DOMAIN result[c])
        BY <1>1, <1>2, <4>1 DEF CopyInv
      <4>4. ASSUME i \in DOMAIN result[c] PROVE i <= waited[c]
        <5>1. result[c] # <<>> /\ i \in 1..Len(result[c])
          BY <4>4, Types, Places
        <5>2. pc[c] = "returned"
          BY <1>1, <1>2, <5>1 DEF PhaseInv
        <5>3. waited[c] = Len(result[c])
          BY <1>1, <5>1, <5>2 DEF PhaseInv, Returned
        <5>4. QED BY <5>1, <5>3
      <4>5. QED BY <1>4, <4>2, <4>3, <4>4
    <3>3. Known(c, i) = ConfirmedOf(c, i)
      BY <3>2 DEF Known
    <3>4. Known(c, i)' = ConfirmedOf(c, i)'
      BY <1>3 DEF Known
    <3>5. QED BY <3>1, <3>3, <3>4
  <2>2. QED BY <1>1, <1>2, <2>1 DEF IdInv
<1>14. OrderInv(c)'
  BY <1>3, RequestMeans DEF OrderInv
<1>15. QED
  BY <1>5, <1>6, <1>8, <1>9, <1>10, <1>11, <1>12, <1>13, <1>14, StepOfOne DEF CallInv
-----------------------------------------------------------------------------
(***************************************************************************)
(* Messages come to hand and get headers.                                  *)
(***************************************************************************)

(* While a goroutine is between its calls, only its messages change.       *)
LEMMA MessagesChange ==
    ASSUME PublishInv, NEW c \in Callers, pc[c] = "idle",
           UNCHANGED <<registry, draft, pc, openVars, result, waited, firstErr, calls, topic>>,
           events' \in 0..MaxEvents, events <= events',
           NEW msgs \in Seq(Messages), batch' = [batch EXCEPT ![c] = msgs],
           Len(batch[c]) <= Len(msgs),
           \A i \in 1..Len(batch[c]) :
              /\ msgs[i].id = batch[c][i].id /\ msgs[i].arrived = batch[c][i].arrived
              /\ msgs[i].kind = batch[c][i].kind,
           \A i \in 1..Len(msgs) :
              /\ msgs[i].kind # "foreign" => msgs[i].headers = msgs[i].given
              /\ i > Len(batch[c]) =>
                    msgs[i].id = msgs[i].arrived /\ msgs[i].arrived \in 0..Len(topic)
    PROVE  PublishInv'
<1>1. /\ LookupInv(c) /\ PhaseInv(c) /\ WaitedInv(c) /\ ResultInv(c) /\ CopyInv(c)
      /\ IdInv(c) /\ CallTypes(c)
  BY TypeOKParts DEF PublishInv, CallInv
<1>2. /\ UNCHANGED <<registry, draft, pc, request, found, client, seen>>
      /\ UNCHANGED <<result, waited, firstErr, calls, topic>>
      /\ batch'[c] = msgs /\ batch' \in [Callers -> Seq(Messages)]
      /\ \A d \in Callers \ {c} : batch'[d] = batch[d]
  BY Types DEF openVars
<1>3. /\ events \in Nat /\ events' \in Nat /\ calls[c] \in Nat /\ Len(topic) \in Nat
      /\ Len(batch[c]) \in Nat /\ DOMAIN batch[c] = 1..Len(batch[c])
      /\ Len(msgs) \in Nat /\ DOMAIN msgs = 1..Len(msgs) /\ calls[c] <= events
  BY <1>1, Types, LenProperties, BoundsAssumption DEF PhaseInv
<1>4. OnlyOf(c)
  BY <1>2, <1>3, Types DEF OnlyOf, Untouched, SameCall, TopicKeeps
<1>5. VarTypes'
  BY <1>2, Types DEF VarTypes, ConfigTypeOK
<1>6. request[c] = NoRequest /\ result[c] = <<>> /\ Len(result[c]) = 0
  BY <1>1, EmptySeq DEF LookupInv, PhaseInv
<1>7. CallTypes(c)'
  <2>1. ASSUME NEW i \in 1..Len(msgs)
        PROVE  {msgs[i].id, msgs[i].arrived} \subseteq 0..Len(topic)
    <3>1. CASE i <= Len(batch[c])
      <4>1. i \in DOMAIN batch[c] /\ i \in 1..Len(batch[c])
        BY <1>3, <3>1
      <4>2. {batch[c][i].id, batch[c][i].arrived} \subseteq 0..Len(topic)
        BY <1>1, <4>1 DEF CallTypes
      <4>3. QED BY <4>1, <4>2
    <3>2. CASE i > Len(batch[c])
      BY <3>2
    <3>3. QED BY <1>3, <3>1, <3>2
  <2>2. QED BY <1>1, <1>2, <1>3, <2>1 DEF CallTypes, PubSubClients
<1>8. LookupInv(c)'
  <2>1. UNCHANGED <<registry, pc, request, seen>>
    BY <1>2
  <2>2. QED BY <1>1, <1>6, <2>1, RequestMeans DEF LookupInv, SearchEnded
<1>9. PhaseInv(c)'
  BY <1>1, <1>2, <1>3, <1>6 DEF PhaseInv, InCall, Publishing, Returned
<1>10. WaitedInv(c)' /\ ResultInv(c)'
  BY <1>1, <1>2 DEF WaitedInv, ResultInv
<1>11. HeaderInv(c)'
  BY <1>2, <1>3 DEF HeaderInv
<1>12. CopyInv(c)'
  <2>1. Mine(c)' = Mine(c)
    BY <1>2 DEF Mine
  <2>2. ASSUME NEW n \in Mine(c)
        PROVE  /\ topic[n].index \in 1..Len(msgs)
               /\ msgs[topic[n].index].arrived < n
    <3>1. /\ topic[n].index \in 1..Len(batch[c])
          /\ batch[c][topic[n].index].arrived < n
      BY <1>1 DEF CopyInv
    <3>2. QED BY <1>3, <3>1
  <2>3. QED BY <1>1, <1>2, <2>1, <2>2 DEF CopyInv
<1>13. IdInv(c)'
  <2>1. ASSUME NEW i PROVE Known(c, i)' = Known(c, i)
    BY <1>2 DEF Known, ConfirmedOf
  <2>2. ASSUME NEW i \in 1..Len(msgs), msgs[i].kind # "foreign"
        PROVE  LET ids == Known(c, i) \union {msgs[i].arrived} IN
               msgs[i].id \in ids /\ \A n \in ids : n <= msgs[i].id
    <3>1. CASE i <= Len(batch[c])
      <4>1. i \in DOMAIN batch[c] /\ i \in 1..Len(batch[c])
        BY <1>3, <3>1
      <4>2. QED BY <1>1, <2>2, <4>1 DEF IdInv
    <3>2. CASE i > Len(batch[c])
      <4>1. Known(c, i) = {}
        <5>1. \A n \in Mine(c) : topic[n].index \in 1..Len(batch[c])
          BY <1>1 DEF CopyInv
        <5>2. \A n \in Mine(c) : topic[n].index # i
          BY <1>3, <3>2, <5>1
        <5>3. QED BY <5>2 DEF Known, ConfirmedOf, Mine
      <4>2. msgs[i].id = msgs[i].arrived /\ msgs[i].id \in Nat
        BY <1>3, <3>2
      <4>3. QED BY <4>1, <4>2
    <3>3. QED BY <1>3, <3>1, <3>2
  <2>3. QED BY <1>2, <1>3, <2>1, <2>2 DEF IdInv
<1>14. OrderInv(c)'
  BY <1>2, <1>6, RequestMeans DEF OrderInv
<1>15. QED
  BY <1>4, <1>5, <1>7, <1>8, <1>9, <1>10, <1>11, <1>12, <1>13, <1>14, StepOfOne DEF CallInv

LEMMA CollectKeeps ==
    ASSUME PublishInv, NEW c \in Callers, NEW m \in Messages, Collect(c, m),
           m.id = m.arrived, m.arrived \in 0..Len(topic), m.headers = m.given
    PROVE  PublishInv'
<1> DEFINE msgs == Append(batch[c], m)
<1>1. /\ pc[c] = "idle" /\ batch' = [batch EXCEPT ![c] = msgs]
      /\ events' = events + 1 /\ events < MaxEvents
      /\ UNCHANGED <<registry, draft, pc, openVars, result, waited, firstErr, calls, topic>>
  BY DEF Collect, HasRoom, Event
<1>2. events' \in 0..MaxEvents /\ events <= events'
  BY <1>1, Types, BoundsAssumption
<1>3. batch[c] \in Seq(Messages)
  BY Types
<1>4. /\ msgs \in Seq(Messages) /\ Len(msgs) = Len(batch[c]) + 1
      /\ msgs[Len(batch[c]) + 1] = m /\ \A i \in 1..Len(batch[c]) : msgs[i] = batch[c][i]
      /\ Len(batch[c]) \in Nat /\ DOMAIN batch[c] = 1..Len(batch[c])
  BY <1>3, AppendMeans, LenProperties
<1> HIDE DEF msgs
<1>5. HeaderInv(c)
  BY DEF PublishInv, CallInv
<1>6. \A i \in 1..Len(msgs) : i \in 1..Len(batch[c]) \/ i = Len(batch[c]) + 1
  BY <1>4
<1>7. \A i \in 1..Len(msgs) :
         /\ msgs[i].kind # "foreign" => msgs[i].headers = msgs[i].given
         /\ i > Len(batch[c]) =>
               msgs[i].id = msgs[i].arrived /\ msgs[i].arrived \in 0..Len(topic)
  <2> TAKE i \in 1..Len(msgs)
  <2>1. CASE i \in 1..Len(batch[c])
    <3>1. msgs[i] = batch[c][i] /\ ~(i > Len(batch[c]))
      BY <1>4, <2>1
    <3>2. QED BY <1>4, <1>5, <2>1, <3>1 DEF HeaderInv
  <2>2. CASE i = Len(batch[c]) + 1
    BY <1>4, <2>2
  <2>3. QED BY <1>6, <2>1, <2>2
<1>8. Len(batch[c]) <= Len(msgs)
  BY <1>4
<1>9. \A i \in 1..Len(batch[c]) :
         /\ msgs[i].id = batch[c][i].id /\ msgs[i].arrived = batch[c][i].arrived
         /\ msgs[i].kind = batch[c][i].kind
  BY <1>4
<1>10. QED BY <1>1, <1>2, <1>4, <1>7, <1>8, <1>9, MessagesChange

LEMMA MessagesAreCollected ==
    ASSUME PublishInv, NEW c \in Callers,
           NewMessage(c) \/ ReceiveOne(c) \/ ForeignMessage(c)
    PROVE  PublishInv'
<1>1. NoHeaders \in Headers
  BY DEF NoHeaders, Headers
<1>2. Len(topic) \in Nat
  BY Types, LenProperties
<1>3. ASSUME NEW kind \in {"outbound", "foreign"},
             Collect(c, [kind |-> kind, headers |-> NoHeaders, id |-> NoId,
                         arrived |-> NoId, given |-> NoHeaders])
      PROVE  PublishInv'
  <2> DEFINE m == [kind |-> kind, headers |-> NoHeaders, id |-> NoId,
                   arrived |-> NoId, given |-> NoHeaders]
  <2>1. m \in Messages /\ m.id = m.arrived /\ m.arrived = 0 /\ m.headers = m.given
    BY <1>1 DEF Messages, NoId
  <2>2. m.arrived \in 0..Len(topic) /\ Collect(c, m)
    BY <1>2, <1>3, <2>1
  <2> HIDE DEF m
  <2>3. QED BY <2>1, <2>2, CollectKeeps
<1>4. CASE ReceiveOne(c)
  <2>1. PICK n \in DOMAIN topic : Collect(c, toMessage(n))
    BY <1>4 DEF ReceiveOne
  <2>2. topic[n] \in Entries /\ n \in 1..Len(topic)
    BY Types, ElementOfSeq, LenProperties
  <2>3. topic[n].attributes \in Headers /\ n \in Nat /\ n \in 0..Len(topic)
    BY <1>2, <2>2 DEF Entries
  <2>4. /\ toMessage(n) \in Messages /\ toMessage(n).id = toMessage(n).arrived
        /\ toMessage(n).arrived = n /\ toMessage(n).headers = toMessage(n).given
    BY <2>3 DEF toMessage, Messages
  <2>5. QED BY <2>1, <2>3, <2>4, CollectKeeps
<1>5. QED BY <1>3, <1>4 DEF NewMessage, ForeignMessage

WithHeader(m, k, t) == [trackHeader(m, k, t) EXCEPT !.given[k] = t]

LEMMA HeaderIsSet ==
    ASSUME NEW m, m \in Messages, m.headers = m.given, NEW k, NEW t,
           k \in HeaderKeys, t \in {Text(v) : v \in HeaderValues}
    PROVE  LET new == WithHeader(m, k, t) IN
           /\ new \in Messages /\ new.headers = new.given
           /\ new.id = m.id /\ new.arrived = m.arrived /\ new.kind = m.kind
<1> DEFINE new == WithHeader(m, k, t)
<1> DEFINE h == [m.headers EXCEPT ![k] = t]
           g == [m.given EXCEPT ![k] = t]
           first == [m EXCEPT !.headers = h]
<1>1. /\ first \in Messages /\ first.headers = h /\ first.given = m.given
      /\ first.id = m.id /\ first.arrived = m.arrived /\ first.kind = m.kind
  <2> HIDE DEF h
  <2>1. h \in Headers
    <3>1. m.headers \in Headers
      BY DEF Messages
    <3>2. QED BY <3>1 DEF Headers, h
  <2>2. QED BY <2>1 DEF Messages
<1>2. new = [first EXCEPT !.given = g]
  <2>1. trackHeader(m, k, t) = first
    BY DEF trackHeader
  <2>2. new = [first EXCEPT !.given[k] = t]
    BY <2>1 DEF WithHeader
  <2> HIDE DEF first
  <2>3. QED BY <1>1, <2>2
<1>3. g \in Headers /\ g = h
  <2>1. m.headers \in Headers
    BY DEF Messages
  <2>2. QED BY <2>1 DEF Headers
<1> HIDE DEF first, h, g, new
<1>4. /\ new \in Messages /\ new.given = g /\ new.headers = first.headers
      /\ new.id = first.id /\ new.arrived = first.arrived /\ new.kind = first.kind
  BY <1>1, <1>2, <1>3 DEF Messages
<1>5. QED BY <1>1, <1>3, <1>4 DEF new

LEMMA SetHeaderKeeps ==
    ASSUME PublishInv, NEW c \in Callers, NEW i \in DOMAIN batch[c],
           NEW k \in HeaderKeys, NEW v \in HeaderValues, SetHeader(c, i, k, v)
    PROVE  PublishInv'
<1> DEFINE m == batch[c][i]
           new == WithHeader(m, k, Text(v))
           msgs == [batch[c] EXCEPT ![i] = new]
<1>1. /\ batch[c] \in Seq(Messages) /\ i \in 1..Len(batch[c]) /\ Len(batch[c]) \in Nat
      /\ DOMAIN batch[c] = 1..Len(batch[c])
  BY Types, LenProperties
<1>2. m \in Messages /\ m.kind # "foreign" /\ HeaderInv(c)
  BY <1>1, ElementOfSeq DEF SetHeader, PublishInv, CallInv
<1>3. m.headers = m.given
  BY <1>2 DEF HeaderInv
<1>4. Text(v) \in {Text(w) : w \in HeaderValues}
  OBVIOUS
<1>5. /\ new \in Messages /\ new.headers = new.given
      /\ new.id = m.id /\ new.arrived = m.arrived /\ new.kind = m.kind
  <2> HIDE DEF m
  <2>1. QED BY <1>2, <1>3, <1>4, HeaderIsSet
<1>7. batch' = [batch EXCEPT ![c] = msgs]
  BY DEF SetHeader, WithHeader
<1> HIDE DEF new
<1>8. /\ msgs \in Seq(Messages) /\ Len(msgs) = Len(batch[c])
      /\ \A j \in 1..Len(batch[c]) : msgs[j] = IF j = i THEN new ELSE batch[c][j]
  BY <1>1, <1>5, ExceptSeq
<1> HIDE DEF msgs
<1>9. \A j \in 1..Len(batch[c]) :
         /\ msgs[j].id = batch[c][j].id /\ msgs[j].arrived = batch[c][j].arrived
         /\ msgs[j].kind = batch[c][j].kind
  BY <1>5, <1>8
<1>10. \A j \in 1..Len(msgs) :
         /\ msgs[j].kind # "foreign" => msgs[j].headers = msgs[j].given
         /\ j > Len(batch[c]) =>
               msgs[j].id = msgs[j].arrived /\ msgs[j].arrived \in 0..Len(topic)
  <2> TAKE j \in 1..Len(msgs)
  <2>1. ~(j > Len(batch[c])) /\ j \in 1..Len(batch[c])
    BY <1>1, <1>8
  <2>2. CASE j = i
    BY <1>3, <1>5, <1>8, <2>1, <2>2
  <2>3. CASE j # i
    BY <1>1, <1>2, <1>8, <2>1, <2>3 DEF HeaderInv
  <2>4. QED BY <2>2, <2>3
<1>11. /\ pc[c] = "idle" /\ events' = events
       /\ UNCHANGED <<registry, draft, pc, openVars, result, waited, firstErr, calls, topic>>
  BY DEF SetHeader, configVars
<1>12. events' \in 0..MaxEvents /\ events <= events' /\ Len(batch[c]) <= Len(msgs)
  BY <1>1, <1>8, <1>11, Types, BoundsAssumption
<1>13. QED BY <1>7, <1>8, <1>9, <1>10, <1>11, <1>12, MessagesChange
-----------------------------------------------------------------------------
(***************************************************************************)
(* A call queues its messages and waits for their results.                 *)
(***************************************************************************)

LEMMA ResultsAre ==
    /\ Pending \in Results /\ Failed \in Results /\ Pending # Failed
    /\ \A r \in Results : r \notin {Pending, Failed} => r.id \in Nat /\ r.state = "published"
    /\ Pending.state # "published" /\ Failed.state # "published"
  BY DEF Results, Pending, Failed

LEMMA QueueKeeps ==
    ASSUME PublishInv, NEW c \in Callers, NEW next \in {"publishing", "waiting"},
           Queue(c, next),
           next = "publishing" => Len(result[c]) + 1 < Len(batch[c]),
           next = "waiting" => Len(result[c]) + 1 = Len(batch[c])
    PROVE  PublishInv'
<1> DEFINE res == Append(result[c], Pending)
           len == Len(result[c])
<1>1. /\ LookupInv(c) /\ PhaseInv(c) /\ WaitedInv(c) /\ ResultInv(c) /\ CopyInv(c)
      /\ IdInv(c) /\ OrderInv(c) /\ HeaderInv(c) /\ CallTypes(c)
  BY TypeOKParts DEF PublishInv, CallInv
<1>2. /\ pc[c] = "publishing" /\ pc' = [pc EXCEPT ![c] = next]
      /\ result' = [result EXCEPT ![c] = res]
      /\ UNCHANGED <<registry, draft, events, request, found, client, seen>>
      /\ UNCHANGED <<batch, waited, firstErr, calls, topic>>
  BY DEF Queue, Goto, configVars, openVars
<1>3. result[c] \in Seq(Results)
  BY Types
<1>4. /\ res \in Seq(Results) /\ Len(res) = len + 1 /\ DOMAIN res = 1..(len + 1)
      /\ res[len + 1] = Pending /\ \A i \in 1..len : res[i] = result[c][i]
      /\ len \in Nat /\ DOMAIN result[c] = 1..len
  BY <1>3, ResultsAre, AppendMeans, LenProperties
<1> HIDE DEF res, len
<1>5. /\ pc' \in [Callers -> Locations_] /\ pc'[c] = next
      /\ result' \in [Callers -> Seq(Results)] /\ result'[c] = res
  BY <1>2, <1>4, Types DEF Locations_
<1>6. /\ events \in Nat /\ Len(topic) \in Nat /\ Len(batch[c]) \in Nat
      /\ waited[c] \in Nat /\ firstErr[c] \in Nat
      /\ waited[c] <= len /\ firstErr[c] <= waited[c]
  BY <1>1, Types, LenProperties, BoundsAssumption DEF CallTypes, len
<1>7. OnlyOf(c)
  BY <1>2, <1>6, Types DEF OnlyOf, Untouched, SameCall, TopicKeeps
<1>8. VarTypes'
  BY <1>2, <1>5, Types DEF VarTypes, ConfigTypeOK
<1>9. len + 1 <= Len(batch[c]) /\ waited[c] <= len + 1
  BY <1>4, <1>6 DEF len
<1>10. CallTypes(c)'
  BY <1>1, <1>2, <1>4, <1>5, <1>6, <1>9 DEF CallTypes, PubSubClients
<1>11. request[c] \in Requests /\ request[c].service = "pubsub" /\ request[c] # NoRequest
  BY <1>1, <1>2, RequestMeans DEF PhaseInv, InCall
<1>12. LookupInv(c)'
  BY <1>1, <1>2, <1>5, <1>11, LookupOver
<1>13. PhaseInv(c)'
  <2>1. next = "waiting" => Len(res) = Len(batch[c])
    BY <1>4 DEF len
  <2>2. next = "publishing" => Len(res) < Len(batch[c])
    BY <1>4 DEF len
  <2>3. request[c].fn = "Send" => waited[c] = 0
    <3>1. ASSUME request[c].fn = "Send" PROVE waited[c] = 0
      <4>1. Len(batch[c]) = 1
        BY <1>1, <1>2, <1>11, <3>1 DEF PhaseInv
      <4>2. len \in Nat /\ len + 1 <= 1
        BY <1>4, <1>9, <4>1
      <4>3. QED BY <1>6, <4>2
    <3>2. QED BY <3>1
  <2>4. QED
    BY <1>1, <1>2, <1>5, <1>11, <2>1, <2>2, <2>3 DEF PhaseInv, InCall, Publishing, Returned
<1>14. WaitedInv(c)'
  <2>1. \A i \in 1..waited[c] : i \in 1..len
    BY <1>4, <1>6
  <2>2. firstErr[c] # 0 => firstErr[c] \in 1..len
    BY <1>4, <1>6
  <2>3. \A i \in 1..(firstErr[c] - 1) : i \in 1..len
    BY <1>4, <1>6
  <2>4. QED BY <1>1, <1>2, <1>4, <1>5, <2>1, <2>2, <2>3 DEF WaitedInv, Pending, Failed
<1>15. \A i \in 1..(len + 1) : i \in 1..len \/ i = len + 1
  BY <1>4
<1>16. ResultInv(c)'
  <2>1. ASSUME NEW i \in 1..(len + 1), IsPublished(res[i])
        PROVE  i \in DOMAIN result[c] /\ res[i] = result[c][i]
    BY <1>4, <1>15, <2>1 DEF IsPublished
  <2>2. QED BY <1>1, <1>2, <1>4, <1>5, <2>1 DEF ResultInv, IsPublished, Pending, Failed
<1>17. CopyInv(c)'
  <2>1. Mine(c)' = Mine(c)
    BY <1>2 DEF Mine
  <2>2. \A i \in DOMAIN result[c] : i \in DOMAIN res /\ res[i] = result[c][i]
    BY <1>4
  <2>3. pc[c] # "idle" /\ pc'[c] # "idle"
    BY <1>2, <1>5
  <2>4. QED BY <1>1, <1>2, <1>5, <2>1, <2>2, <2>3 DEF CopyInv, IsPublished, Pending, Failed
<1>18. IdInv(c)'
  <2>1. ASSUME NEW i PROVE Known(c, i)' = Known(c, i)
    BY <1>2, <1>5 DEF Known, ConfirmedOf
  <2>2. QED BY <1>1, <1>2, <2>1 DEF IdInv
<1>19. OrderInv(c)'
  <2>1. StoredIn(c, calls[c])' = StoredIn(c, calls[c])
    BY <1>2 DEF StoredIn
  <2>2. SUFFICES ASSUME request[c].ordered
        PROVE  \A i, j \in DOMAIN res : i < j /\ res[j] # Pending => res[i] # Pending
    BY <1>1, <1>2, <1>5, <1>11, <2>1 DEF OrderInv, Pending
  <2>3. ASSUME NEW i \in 1..(len + 1), NEW j \in 1..(len + 1), i < j, res[j] # Pending
        PROVE  res[i] # Pending
    <3>1. j \in 1..len
      BY <1>4, <1>15, <2>3
    <3>2. i \in 1..len
      BY <1>4, <2>3, <3>1
    <3>3. QED BY <1>1, <1>4, <1>11, <2>2, <2>3, <3>1, <3>2 DEF OrderInv
  <2>4. QED BY <1>4, <2>3
<1>20. HeaderInv(c)'
  BY <1>1, <1>2 DEF HeaderInv
<1>21. QED
  BY <1>7, <1>8, <1>10, <1>12, <1>13, <1>14, <1>16, <1>17, <1>18, <1>19, <1>20, StepOfOne
     DEF CallInv

LEMMA PublishesKeep ==
    ASSUME PublishInv, NEW c \in Callers, SendPublishes(c) \/ BatchPublishes(c)
    PROVE  PublishInv'
<1>1. PhaseInv(c) /\ Len(result[c]) \in Nat /\ Len(batch[c]) \in Nat
  BY Types, LenProperties DEF PublishInv, CallInv
<1>2. pc[c] = "publishing"
  BY DEF SendPublishes, BatchPublishes
<1>3. Len(result[c]) < Len(batch[c]) /\ (request[c].fn = "Send" => Len(batch[c]) = 1)
  BY <1>1, <1>2 DEF PhaseInv, InCall
<1>4. CASE SendPublishes(c)
  <2>1. Queue(c, "waiting") /\ Len(batch[c]) = 1 /\ Len(result[c]) < 1
    BY <1>3, <1>4 DEF SendPublishes
  <2>3. Len(result[c]) + 1 = Len(batch[c])
    BY <1>1, <2>1
  <2>2. QED BY <2>1, <2>3, QueueKeeps
<1>5. CASE BatchPublishes(c)
  <2>1. CASE Len(result[c]) + 1 < Len(batch[c])
    <3>1. Queue(c, "publishing")
      BY <1>5, <2>1 DEF BatchPublishes
    <3>2. QED BY <2>1, <3>1, QueueKeeps
  <2>2. CASE ~(Len(result[c]) + 1 < Len(batch[c]))
    <3>1. Queue(c, "waiting") /\ Len(result[c]) + 1 = Len(batch[c])
      BY <1>1, <1>3, <1>5, <2>2 DEF BatchPublishes
    <3>2. QED BY <3>1, QueueKeeps
  <2>3. QED BY <2>1, <2>2
<1>6. QED BY <1>4, <1>5

(* The last copy of a message that the service confirmed is the one the     *)
(* result at hand names, if it names one.                                  *)
LEMMA LastConfirmed ==
    ASSUME PublishInv, NEW c \in Callers, pc[c] # "idle", NEW i \in DOMAIN result[c]
    PROVE  /\ result[c][i] = Failed =>
                 \A n \in ConfirmedOf(c, i) : topic[n].call < calls[c]
           /\ IsPublished(result[c][i]) =>
                 LET p == result[c][i].id IN
                 /\ p \in ConfirmedOf(c, i) /\ p \in Nat /\ p \in 1..Len(topic)
                 /\ batch[c][i].arrived < p
                 /\ \A n \in ConfirmedOf(c, i) : n <= p
<1>1. CopyInv(c) /\ ResultInv(c) /\ calls[c] \in Nat
  BY Types, BoundsAssumption DEF PublishInv, CallInv
<1>2. ASSUME NEW n \in ConfirmedOf(c, i)
      PROVE  /\ n \in Mine(c) /\ n \in Nat /\ topic[n].call \in Nat
             /\ topic[n].index = i /\ topic[n].confirmed /\ topic[n].call <= calls[c]
             /\ topic[n].call = calls[c] =>
                   IsPublished(result[c][i]) /\ result[c][i].id = n
  <2>1. n \in Mine(c) /\ n \in DOMAIN topic /\ topic[n].index = i /\ topic[n].confirmed
    BY DEF ConfirmedOf, Mine
  <2>2. QED BY <1>1, <2>1, EntryTypes DEF CopyInv
<1>3. result[c][i] = Failed => \A n \in ConfirmedOf(c, i) : topic[n].call < calls[c]
  <2>1. ASSUME result[c][i] = Failed, NEW n \in ConfirmedOf(c, i)
        PROVE  topic[n].call < calls[c]
    <3>1. topic[n].call # calls[c]
      BY <1>2, <2>1 DEF IsPublished
    <3>2. QED BY <1>1, <1>2, <3>1
  <2>2. QED BY <2>1
<1>4. ASSUME IsPublished(result[c][i])
      PROVE  LET p == result[c][i].id IN
             /\ p \in ConfirmedOf(c, i) /\ p \in Nat /\ p \in 1..Len(topic)
             /\ batch[c][i].arrived < p
             /\ \A n \in ConfirmedOf(c, i) : n <= p
  <2> DEFINE p == result[c][i].id
  <2>1. /\ p \in DOMAIN topic /\ topic[p].sender = c /\ topic[p].call = calls[c]
        /\ topic[p].index = i /\ topic[p].confirmed
    BY <1>1, <1>4 DEF ResultInv
  <2> HIDE DEF p
  <2>2. p \in ConfirmedOf(c, i) /\ p \in Mine(c) /\ p \in Nat /\ p \in 1..Len(topic)
    BY <2>1, EntryTypes DEF ConfirmedOf, Mine
  <2>3. batch[c][i].arrived < p
    BY <1>1, <2>1, <2>2 DEF CopyInv
  <2>4. ASSUME NEW n \in ConfirmedOf(c, i) PROVE n <= p
    <3>1. CASE topic[n].call = calls[c]
      <4>1. p = n
        BY <1>2, <3>1 DEF p
      <4>2. QED BY <2>2, <4>1
    <3>2. CASE topic[n].call # calls[c]
      <4>1. topic[n].call < topic[p].call /\ n \in Mine(c) /\ n \in Nat /\ topic[n].call \in Nat
        BY <1>1, <1>2, <2>1, <3>2
      <4>2. p < n => topic[p].call <= topic[n].call
        BY <1>1, <2>2, <4>1 DEF CopyInv
      <4>3. QED BY <1>1, <2>1, <2>2, <4>1, <4>2
    <3>3. QED BY <3>1, <3>2
  <2>5. QED BY <2>2, <2>3, <2>4 DEF p
<1>5. QED BY <1>3, <1>4

(* The call takes up its next result. *)
LEMMA AwaitKeeps ==
    ASSUME PublishInv, NEW c \in Callers, pc[c] = "waiting",
           NEW i, i = waited[c] + 1, i \in DOMAIN result[c], result[c][i] # Pending,
           NEW msgs, batch' = [batch EXCEPT ![c] = msgs],
           result[c][i] = Failed => msgs = batch[c],
           result[c][i] # Failed =>
              msgs = [batch[c] EXCEPT ![i] = WithId(batch[c][i], result[c][i].id)],
           NEW err, firstErr' = [firstErr EXCEPT ![c] = err],
           err = IF result[c][i] = Failed /\ firstErr[c] = 0 THEN i ELSE firstErr[c],
           waited' = [waited EXCEPT ![c] = i],
           UNCHANGED <<registry, draft, events, request, found, seen>>,
           UNCHANGED <<result, calls, topic>>,
           NEW to, pc' = [pc EXCEPT ![c] = to],
           client' \in [Callers -> Clients],
           \A d \in Callers \ {c} : client'[d] = client[d],
           \/ to = "waiting" /\ client' = client /\ request[c].fn # "Send"
           \/ to = "returned" /\ client'[c].state # "open" /\ i = Len(result[c])
    PROVE  PublishInv'
<1> DEFINE len == Len(result[c])
           size == Len(batch[c])
           r == result[c][i]
<1>1. /\ LookupInv(c) /\ PhaseInv(c) /\ WaitedInv(c) /\ ResultInv(c) /\ CopyInv(c)
      /\ IdInv(c) /\ OrderInv(c) /\ HeaderInv(c) /\ CallTypes(c)
  BY TypeOKParts DEF PublishInv, CallInv
<1>2. /\ result[c] \in Seq(Results) /\ batch[c] \in Seq(Messages)
      /\ len \in Nat /\ DOMAIN result[c] = 1..len
      /\ size \in Nat /\ DOMAIN batch[c] = 1..size
      /\ events \in Nat /\ Len(topic) \in Nat /\ calls[c] \in Nat /\ calls[c] <= events
      /\ waited[c] \in Nat /\ firstErr[c] \in Nat
  BY <1>1, Types, LenProperties, BoundsAssumption DEF PhaseInv
<1>3. waited[c] <= len /\ firstErr[c] <= waited[c] /\ len = size
  BY <1>1 DEF CallTypes, PhaseInv
<1> HIDE DEF len, size
<1>4. i \in 1..len /\ i \in 1..size /\ i \in Nat
  BY <1>2, <1>3
<1>5. /\ r \in Results /\ (r # Failed => IsPublished(r) /\ r.id \in Nat)
      /\ batch[c][i] \in Messages
  <2>1. r \in Results /\ batch[c][i] \in Messages
    BY <1>2, <1>4, ElementOfSeq DEF len, size
  <2>2. QED BY <2>1, ResultsAre DEF IsPublished
<1>6. ASSUME r # Failed
      PROVE  LET p == r.id IN
             /\ p \in ConfirmedOf(c, i) /\ p \in Nat /\ p \in 1..Len(topic)
             /\ batch[c][i].arrived < p
             /\ \A n \in ConfirmedOf(c, i) : n <= p
  BY <1>5, <1>6, LastConfirmed
<1>7. r = Failed => \A n \in ConfirmedOf(c, i) : topic[n].call < calls[c]
  BY LastConfirmed
<1> HIDE DEF r
<1> DEFINE new == WithId(batch[c][i], r.id)
<1>8. ASSUME r # Failed
      PROVE  /\ new \in Messages /\ new.arrived = batch[c][i].arrived
             /\ new.kind = batch[c][i].kind /\ new.headers = batch[c][i].headers
             /\ new.given = batch[c][i].given
             /\ new.id = IF batch[c][i].kind = "foreign" THEN batch[c][i].id ELSE r.id
  <2>1. r.id \in Nat
    BY <1>5, <1>8
  <2>2. QED BY <1>5, <2>1 DEF WithId, Messages
<1> HIDE DEF new
<1>9. /\ msgs \in Seq(Messages) /\ Len(msgs) = size /\ DOMAIN msgs = 1..size
      /\ \A j \in 1..size : j # i => msgs[j] = batch[c][j]
      /\ r = Failed => msgs = batch[c]
      /\ r # Failed => msgs[i] = new
  <2>1. CASE r = Failed
    BY <1>2, <2>1 DEF r, size
  <2>2. CASE r # Failed
    <3>1. msgs = [batch[c] EXCEPT ![i] = new]
      BY <2>2 DEF r, new
    <3>2. new \in Messages /\ i \in 1..Len(batch[c])
      BY <1>4, <1>8, <2>2 DEF size
    <3>3. /\ msgs \in Seq(Messages) /\ Len(msgs) = Len(batch[c])
          /\ \A j \in 1..Len(batch[c]) : msgs[j] = IF j = i THEN new ELSE batch[c][j]
      BY <1>2, <3>1, <3>2, ExceptSeq
    <3>4. DOMAIN msgs = 1..Len(msgs)
      BY <3>3, LenProperties
    <3>5. QED BY <1>4, <2>2, <3>3, <3>4 DEF size
  <2>3. QED BY <2>1, <2>2
<1>10. /\ batch' \in [Callers -> Seq(Messages)] /\ batch'[c] = msgs
       /\ waited' \in [Callers -> Nat] /\ waited'[c] = i
       /\ firstErr' \in [Callers -> Nat] /\ firstErr'[c] = err /\ err \in Nat /\ err <= i
       /\ pc' \in [Callers -> Locations_] /\ pc'[c] = to /\ to \in {"waiting", "returned"}
  BY <1>2, <1>3, <1>4, <1>9, Types DEF Locations_
<1>11. OnlyOf(c)
  BY <1>2, Types DEF OnlyOf, Untouched, SameCall, TopicKeeps
<1>12. VarTypes'
  BY <1>10, Types DEF VarTypes, ConfigTypeOK
<1>13. \A j \in 1..size :
          /\ msgs[j].arrived = batch[c][j].arrived /\ msgs[j].kind = batch[c][j].kind
          /\ msgs[j].headers = batch[c][j].headers /\ msgs[j].given = batch[c][j].given
  <2> TAKE j \in 1..size
  <2>1. CASE r = Failed
    BY <1>9, <2>1
  <2>2. CASE r # Failed /\ j = i
    BY <1>8, <1>9, <2>2
  <2>3. CASE j # i
    BY <1>9, <2>3
  <2>4. QED BY <2>1, <2>2, <2>3
<1>14. CallTypes(c)'
  <2>1. ASSUME NEW j \in 1..size
        PROVE  {msgs[j].id, msgs[j].arrived} \subseteq 0..Len(topic)
    <3>1. {batch[c][j].id, batch[c][j].arrived} \subseteq 0..Len(topic)
      BY <1>1, <1>2 DEF CallTypes
    <3>2. CASE r # Failed /\ j = i
      <4>1. r.id \in 0..Len(topic)
        BY <1>2, <1>6, <3>2
      <4>2. QED BY <1>8, <1>9, <1>13, <3>1, <3>2, <4>1
    <3>3. CASE r = Failed \/ j # i
      BY <1>9, <3>1, <3>3
    <3>4. QED BY <3>2, <3>3
  <2>2. client[c] \in PubSubClients("open")
    BY <1>1 DEF CallTypes
  <2>3. to = "waiting" => client'[c] \in PubSubClients("open")'
    BY <2>2 DEF PubSubClients
  <2>4. to = "returned" => client'[c].state # "open"
    OBVIOUS
  <2>5. Len(result'[c]) = len /\ Len(batch'[c]) = size /\ DOMAIN batch'[c] = 1..size
        /\ topic' = topic /\ i <= len
    BY <1>4, <1>9, <1>10 DEF len
  <2>6. QED BY <1>3, <1>10, <2>1, <2>3, <2>4, <2>5 DEF CallTypes
<1>15. request[c] \in Requests /\ request[c].service = "pubsub" /\ request[c] # NoRequest
  BY <1>1, RequestMeans DEF PhaseInv, InCall
<1>16. LookupInv(c)'
  BY <1>1, <1>10, <1>15, LookupOver
<1>17. PhaseInv(c)'
  <2>1. Len(result[c]) = Len(msgs) /\ Len(msgs) = Len(batch[c])
    BY <1>3, <1>9 DEF len, size
  <2>2. QED
    BY <1>1, <1>2, <1>10, <1>15, <2>1 DEF PhaseInv, InCall, Publishing, Returned
<1>18. WaitedInv(c)'
  <2>1. \A j \in 1..i : j \in 1..waited[c] \/ j = i
    BY <1>2
  <2>2. \A j \in 1..i : result[c][j] # Pending
    BY <1>1, <2>1 DEF WaitedInv
  <2>3. err = 0 => \A j \in 1..i : result[c][j] # Failed
    BY <1>1, <1>4, <2>1 DEF WaitedInv
  <2>4. err # 0 => result[c][err] = Failed /\ \A j \in 1..(err - 1) : result[c][j] # Failed
    <3>1. CASE firstErr[c] = 0 /\ r = Failed
      <4>1. err = i /\ i - 1 = waited[c]
        BY <1>2, <3>1 DEF r
      <4>2. QED BY <1>1, <3>1, <4>1 DEF WaitedInv, r
    <3>2. CASE ~(firstErr[c] = 0 /\ r = Failed)
      <4>1. err = firstErr[c]
        BY <3>2 DEF r
      <4>2. QED BY <1>1, <4>1 DEF WaitedInv
    <3>3. QED BY <3>1, <3>2
  <2>5. QED BY <1>10, <2>2, <2>3, <2>4 DEF WaitedInv, Pending, Failed
<1>19. ResultInv(c)'
  BY <1>1 DEF ResultInv, IsPublished, Pending, Failed
<1>20. CopyInv(c)'
  <2>1. Mine(c)' = Mine(c)
    BY DEF Mine
  <2>2. pc[c] # "idle" /\ pc'[c] # "idle"
    BY <1>10
  <2>3. \A n \in Mine(c) :
           /\ topic[n].index \in 1..Len(msgs)
           /\ msgs[topic[n].index].arrived < n
    BY <1>1, <1>9, <1>13 DEF CopyInv, size
  <2>4. /\ calls' = calls /\ topic' = topic /\ result' = result /\ batch'[c] = msgs
        /\ Len(msgs) = Len(batch[c])
    BY <1>9, <1>10 DEF size
  <2>5. QED BY <1>1, <2>1, <2>2, <2>3, <2>4, ResultsStay DEF CopyInv
<1>21. IdInv(c)'
  <2>1. ASSUME NEW j \in 1..size, j # i PROVE Known(c, j)' = Known(c, j)
    <3>1. j <= i <=> j <= waited[c]
      BY <1>2, <2>1
    <3>2. QED BY <1>10, <3>1 DEF Known, ConfirmedOf
  <2>2. Known(c, i)' = ConfirmedOf(c, i)
    BY <1>4, <1>10 DEF Known, ConfirmedOf
  <2>3. ASSUME NEW j \in 1..size, msgs[j].kind # "foreign"
        PROVE  LET ids == Known(c, j)' \union {msgs[j].arrived} IN
               msgs[j].id \in ids /\ \A n \in ids : n <= msgs[j].id
    <3>1. batch[c][j].kind # "foreign" /\ j \in DOMAIN batch[c]
      BY <1>2, <1>13, <2>3
    <3>2. CASE j # i
      BY <1>1, <1>9, <2>1, <3>1, <3>2 DEF IdInv
    <3>3. CASE j = i /\ r = Failed
      <4>1. Known(c, i) = ConfirmedOf(c, i)
        BY <1>7, <3>3 DEF Known
      <4>2. QED BY <1>1, <1>9, <2>2, <3>1, <3>3, <4>1 DEF IdInv
    <3>4. CASE j = i /\ r # Failed
      <4>1. msgs[i].id = r.id /\ msgs[i].arrived = batch[c][i].arrived
        BY <1>8, <1>9, <3>1, <3>4
      <4>2. /\ r.id \in ConfirmedOf(c, i) /\ r.id \in Nat /\ batch[c][i].arrived < r.id
            /\ \A n \in ConfirmedOf(c, i) : n <= r.id
        BY <1>6, <3>4
      <4>3. batch[c][i].arrived \in Nat
        BY <1>5 DEF Messages
      <4>4. batch[c][i].arrived <= r.id
        BY <4>2, <4>3
      <4>5. QED BY <2>2, <3>4, <4>1, <4>2, <4>4
    <3>5. QED BY <3>2, <3>3, <3>4
  <2>4. QED BY <1>9, <1>10, <2>3 DEF IdInv
<1>22. OrderInv(c)'
  BY <1>1 DEF OrderInv, StoredIn, Pending
<1>23. HeaderInv(c)'
  BY <1>1, <1>2, <1>9, <1>10, <1>13 DEF HeaderInv
<1>24. QED
  BY <1>11, <1>12, <1>14, <1>16, <1>17, <1>18, <1>19, <1>20, <1>21, <1>22, <1>23, StepOfOne
     DEF CallInv

LEMMA WaitsKeep ==
    ASSUME PublishInv, NEW c \in Callers,
           SendReturns(c) \/ BatchMeetsError(c) \/ BatchStoresId(c)
    PROVE  PublishInv'
<1> DEFINE i == waited[c] + 1
           r == result[c][i]
           stored == [batch[c] EXCEPT ![i] = WithId(batch[c][i], r.id)]
           msgs == IF r = Failed THEN batch[c] ELSE stored
           err == IF r = Failed /\ firstErr[c] = 0 THEN i ELSE firstErr[c]
<1>1. /\ PhaseInv(c) /\ CallTypes(c) /\ pc[c] = "waiting"
      /\ waited[c] \in Nat /\ firstErr[c] \in Nat
  BY TypeOKParts, Types
     DEF PublishInv, CallInv, SendReturns, BatchMeetsError, BatchStoresId, InBatchWait
<1>2. /\ client[c] \in PubSubClients("open") /\ request[c].service = "pubsub"
      /\ request[c].fn = "Send" => Len(batch[c]) = 1 /\ waited[c] = 0
      /\ Len(result[c]) = Len(batch[c]) /\ firstErr[c] <= waited[c]
  BY <1>1 DEF PhaseInv, CallTypes, InCall
<1>3. batch[c] = [batch[c] EXCEPT ![i] = @] /\ batch = [batch EXCEPT ![c] = batch[c]]
      /\ firstErr = [firstErr EXCEPT ![c] = firstErr[c]] /\ pc = [pc EXCEPT ![c] = pc[c]]
  BY Types, LenProperties
<1>4. ASSUME SendReturns(c)
      PROVE  /\ i = 1 /\ i = Len(result[c]) /\ i \in DOMAIN result[c] /\ r # Pending
             /\ batch' = [batch EXCEPT ![c] = msgs] /\ firstErr' = [firstErr EXCEPT ![c] = err]
             /\ waited' = [waited EXCEPT ![c] = i] /\ Return(c)
             /\ UNCHANGED result
  <2>1. request[c].fn = "Send" /\ waited[c] = 0 /\ firstErr[c] = 0 /\ i = 1
    BY <1>1, <1>2, <1>4 DEF SendReturns
  <2>2. /\ i \in DOMAIN result[c] /\ r # Pending /\ Return(c) /\ UNCHANGED result
        /\ waited' = [waited EXCEPT ![c] = i]
        /\ i = Len(result[c])
    BY <1>2, <1>4, <2>1 DEF SendReturns, Settled
  <2>3. CASE r = Failed
    <3>1. firstErr' = [firstErr EXCEPT ![c] = 1] /\ UNCHANGED batch
      BY <1>4, <2>1, <2>3 DEF SendReturns
    <3>2. msgs = batch[c] /\ err = 1
      BY <2>1, <2>3
    <3>3. firstErr' = [firstErr EXCEPT ![c] = err]
      BY <3>1, <3>2
    <3> HIDE DEF msgs, err
    <3>4. batch' = [batch EXCEPT ![c] = msgs]
      BY <1>3, <3>1, <3>2
    <3>5. QED BY <2>1, <2>2, <3>3, <3>4
  <2>4. CASE r # Failed
    <3>1. batch' = [batch EXCEPT ![c][1] = WithId(@, r.id)] /\ UNCHANGED firstErr
      BY <1>4, <2>1, <2>4 DEF SendReturns
    <3>2. msgs = stored /\ err = firstErr[c]
      BY <2>1, <2>4
    <3>3. batch' = [batch EXCEPT ![c] = stored]
      BY <2>1, <3>1
    <3> HIDE DEF msgs, err, stored
    <3>4. firstErr' = [firstErr EXCEPT ![c] = err]
      BY <1>3, <3>1, <3>2
    <3>5. batch' = [batch EXCEPT ![c] = msgs]
      BY <3>2, <3>3
    <3>6. QED BY <2>1, <2>2, <3>4, <3>5
  <2>5. QED BY <2>3, <2>4
<1>5. ASSUME BatchMeetsError(c) \/ BatchStoresId(c)
      PROVE  /\ i \in DOMAIN result[c] /\ r # Pending /\ request[c].fn # "Send"
             /\ batch' = [batch EXCEPT ![c] = msgs] /\ firstErr' = [firstErr EXCEPT ![c] = err]
             /\ waited' = [waited EXCEPT ![c] = i]
             /\ UNCHANGED <<registry, draft, events, pc, request, found, client, seen>>
             /\ UNCHANGED <<result, calls, topic>>
  <2>1. /\ i \in DOMAIN result[c] /\ r # Pending /\ request[c].fn # "Send"
        /\ waited' = [waited EXCEPT ![c] = i]
        /\ UNCHANGED <<registry, draft, events, pc, request, found, client, seen>>
        /\ UNCHANGED <<result, calls, topic>>
    BY <1>5 DEF BatchMeetsError, BatchStoresId, InBatchWait, Settled, AtHand, configVars,
                openVars
  <2>2. CASE BatchMeetsError(c)
    <3>1. r = Failed /\ UNCHANGED batch
          /\ firstErr' = [firstErr EXCEPT ![c] = IF @ = 0 THEN i ELSE @]
      BY <2>2 DEF BatchMeetsError, AtHand
    <3>2. QED BY <1>3, <2>1, <3>1
  <2>3. CASE BatchStoresId(c)
    <3>1. r # Failed /\ UNCHANGED firstErr
          /\ batch' = [batch EXCEPT ![c][i] = WithId(@, r.id)]
      BY <2>3 DEF BatchStoresId, AtHand
    <3>2. batch' = [batch EXCEPT ![c] = stored]
      BY <3>1
    <3>3. QED BY <1>3, <2>1, <3>1, <3>2
  <2>4. QED BY <1>5, <2>2, <2>3
<1>6. /\ r = Failed => msgs = batch[c]
      /\ r # Failed => msgs = [batch[c] EXCEPT ![i] = WithId(batch[c][i], r.id)]
      /\ err = IF r = Failed /\ firstErr[c] = 0 THEN i ELSE firstErr[c]
  OBVIOUS
<1>7. CASE SendReturns(c)
  <2>1. /\ UNCHANGED <<registry, draft, events, request, found, seen>>
        /\ pc' = [pc EXCEPT ![c] = "returned"]
        /\ client' \in [Callers -> Clients] /\ client'[c].state = "closed"
        /\ \A d \in Callers \ {c} : client'[d] = client[d]
    BY <1>2, <1>4, <1>7, ReturnMeans
  <2>2. UNCHANGED <<result, calls, topic>>
    BY <1>4, <1>7 DEF Return
  <2>3. /\ i \in DOMAIN result[c] /\ r # Pending
        /\ batch' = [batch EXCEPT ![c] = msgs] /\ firstErr' = [firstErr EXCEPT ![c] = err]
        /\ waited' = [waited EXCEPT ![c] = i]
    BY <1>4, <1>7
  <2>4. pc[c] = "waiting" /\ i = waited[c] + 1
    BY <1>1
  <2>5. /\ result[c][i] = Failed => msgs = batch[c]
        /\ result[c][i] # Failed =>
              msgs = [batch[c] EXCEPT ![i] = WithId(batch[c][i], result[c][i].id)]
        /\ err = IF result[c][i] = Failed /\ firstErr[c] = 0 THEN i ELSE firstErr[c]
        /\ result[c][i] # Pending
    BY <1>6, <2>3
  <2>6. i = Len(result[c])
    BY <1>4, <1>7
  <2> HIDE DEF msgs, err, r, i
  <2>7. \/ "returned" = "waiting" /\ client' = client /\ request[c].fn # "Send"
        \/ "returned" = "returned" /\ client'[c].state # "open" /\ i = Len(result[c])
    BY <2>1, <2>6
  <2>8. QED BY ONLY PublishInv, c \in Callers, <2>1, <2>2, <2>3, <2>4, <2>5, <2>7, AwaitKeeps
<1>8. CASE BatchMeetsError(c) \/ BatchStoresId(c)
  <2>1. pc' = [pc EXCEPT ![c] = "waiting"] /\ client' \in [Callers -> Clients]
    BY <1>1, <1>3, <1>5, <1>8, Types
  <2>2. /\ client' = client /\ \A d \in Callers \ {c} : client'[d] = client[d]
        /\ request[c].fn # "Send"
    BY <1>5, <1>8
  <2>3. /\ UNCHANGED <<registry, draft, events, request, found, seen>>
        /\ UNCHANGED <<result, calls, topic>>
    BY <1>5, <1>8
  <2>4. /\ i \in DOMAIN result[c] /\ r # Pending
        /\ batch' = [batch EXCEPT ![c] = msgs] /\ firstErr' = [firstErr EXCEPT ![c] = err]
        /\ waited' = [waited EXCEPT ![c] = i]
    BY <1>5, <1>8
  <2>5. pc[c] = "waiting"
    BY <1>1
  <2>6. i = waited[c] + 1
    OBVIOUS
  <2>7. /\ result[c][i] = Failed => msgs = batch[c]
        /\ result[c][i] # Failed =>
              msgs = [batch[c] EXCEPT ![i] = WithId(batch[c][i], result[c][i].id)]
        /\ err = IF result[c][i] = Failed /\ firstErr[c] = 0 THEN i ELSE firstErr[c]
        /\ result[c][i] # Pending
    BY <1>6, <2>4
  <2> HIDE DEF msgs, err, r, i
  <2>8. \/ "waiting" = "waiting" /\ client' = client /\ request[c].fn # "Send"
        \/ "waiting" = "returned" /\ client'[c].state # "open" /\ i = Len(result[c])
    BY <2>2
  <2>9. QED BY ONLY PublishInv, c \in Callers, <2>1, <2>2, <2>3, <2>4, <2>5, <2>6, <2>7, <2>8,
                    AwaitKeeps
<1>9. QED BY <1>7, <1>8
-----------------------------------------------------------------------------
(***************************************************************************)
(* The client library and the service.                                     *)
(***************************************************************************)

(* Bundles go out while the call waits, and of messages it has not waited    *)
(* for.                                                                    *)
LEMMA BundleMeans ==
    ASSUME PublishInv, NEW c \in Callers, NEW I, I \in Bundles(c)
    PROVE  /\ InCall(c) /\ pc[c] # "idle" /\ client[c] \in PubSubClients("open")
           /\ request[c] \in Requests /\ request[c].service = "pubsub"
           /\ I \in SUBSET Nat /\ IsFiniteSet(I) /\ I # {}
           /\ \A i \in I : i \in DOMAIN result[c] /\ i \in DOMAIN batch[c]
                           /\ result[c][i] = Pending /\ i > waited[c]
           /\ request[c].ordered => \A i \in I, j \in PendingOf(c) \ I : i < j
<1>1. /\ LookupInv(c) /\ PhaseInv(c) /\ WaitedInv(c) /\ CallTypes(c)
  BY TypeOKParts DEF PublishInv, CallInv
<1>2. /\ result[c] \in Seq(Results) /\ batch[c] \in Seq(Messages) /\ waited[c] \in Nat
      /\ pc[c] \in Locations_
  BY Types
<1>3. /\ Len(result[c]) \in Nat /\ DOMAIN result[c] = 1..Len(result[c])
      /\ Len(batch[c]) \in Nat /\ DOMAIN batch[c] = 1..Len(batch[c])
      /\ (result[c] = <<>> => Len(result[c]) = 0)
  BY <1>2, Places
<1>4. /\ I # {} /\ I \subseteq PendingOf(c)
      /\ request[c].ordered => \A i \in I, j \in PendingOf(c) \ I : i < j
  BY DEF Bundles
<1>5. ASSUME NEW i \in I
      PROVE  /\ i \in 1..Len(result[c]) /\ i \in 1..Len(batch[c])
             /\ result[c][i] = Pending /\ i > waited[c] /\ i \in Nat
  <2>1. i \in 1..Len(result[c]) /\ result[c][i] = Pending
    BY <1>3, <1>4 DEF PendingOf
  <2>2. i \notin 1..waited[c]
    BY <1>1, <2>1 DEF WaitedInv
  <2>3. Len(result[c]) <= Len(batch[c])
    BY <1>1 DEF CallTypes
  <2>4. QED BY <1>2, <1>3, <2>1, <2>2, <2>3
<1>6. /\ I \in SUBSET Nat /\ I \subseteq 1..Len(result[c])
  BY <1>5
<1>7. IsFiniteSet(I)
  <2>1. 0 \in Int /\ 1 \in Int /\ Len(result[c]) \in Int
    BY <1>3
  <2>2. IsFiniteSet(1..Len(result[c]))
    BY <2>1, FS_Interval
  <2>3. QED BY ONLY <1>6, <2>2, FS_Subset
<1>8. InCall(c)
  <2>1. result[c] # <<>>
    BY <1>3, <1>4, <1>5
  <2>2. pc[c] \in {"publishing", "waiting", "returned"}
    BY <1>1, <2>1 DEF PhaseInv
  <2>3. pc[c] # "returned"
    <3>1. pc[c] = "returned" => waited[c] = Len(result[c])
      BY <1>1, <2>1 DEF PhaseInv, Returned
    <3>2. QED BY <1>3, <1>4, <1>5, <3>1
  <2>4. QED BY <2>2, <2>3 DEF InCall
<1>9. /\ pc[c] # "idle" /\ client[c] \in PubSubClients("open")
      /\ request[c] \in Requests /\ request[c].service = "pubsub"
  BY <1>1, <1>8 DEF InCall, PhaseInv, CallTypes
<1>10. QED BY <1>3, <1>4, <1>5, <1>6, <1>7, <1>8, <1>9

LEMMA SettleMeans ==
    ASSUME PublishInv, NEW c \in Callers, NEW outcome, Settle(c, outcome),
           \A i \in DOMAIN outcome : outcome[i] \in Results
    PROVE  /\ UNCHANGED <<registry, draft, events, pc, request, found, client, seen>>
           /\ UNCHANGED <<batch, waited, firstErr, calls>>
           /\ result' \in [Callers -> Seq(Results)]
           /\ Len(result'[c]) = Len(result[c]) /\ DOMAIN result'[c] = DOMAIN result[c]
           /\ \A i \in DOMAIN result[c] :
                 result'[c][i] = IF i \in DOMAIN outcome THEN outcome[i] ELSE result[c][i]
           /\ \A d \in Callers \ {c} : result'[d] = result[d]
<1> DEFINE res == [i \in DOMAIN result[c] |->
                      IF i \in DOMAIN outcome THEN outcome[i] ELSE result[c][i]]
<1>1. result' = [result EXCEPT ![c] = res]
  BY DEF Settle
<1>2. result[c] \in Seq(Results)
  BY Types
<1>3. /\ Len(result[c]) \in Nat /\ DOMAIN result[c] = 1..Len(result[c])
      /\ \A i \in 1..Len(result[c]) : result[c][i] \in Results
  BY <1>2, Places
<1>4. res \in [1..Len(result[c]) -> Results]
  BY <1>3
<1>5. res \in Seq(Results) /\ Len(res) = Len(result[c]) /\ DOMAIN res = DOMAIN result[c]
  <2>1. res \in Seq(Results)
    BY <1>3, <1>4, IsASeq
  <2>2. DOMAIN res = 1..Len(result[c])
    BY <1>4
  <2> HIDE DEF res
  <2>3. DOMAIN res = 1..Len(res) /\ Len(res) \in Nat
    BY <2>1, Places
  <2>4. QED BY <1>3, <2>1, <2>2, <2>3
<1>6. \A i \in DOMAIN result[c] :
         res[i] = IF i \in DOMAIN outcome THEN outcome[i] ELSE result[c][i]
  OBVIOUS
<1> HIDE DEF res
<1>7. result \in [Callers -> Seq(Results)]
  BY Types
<1>8. /\ result'[c] = res /\ result' \in [Callers -> Seq(Results)]
      /\ \A d \in Callers \ {c} : result'[d] = result[d]
  BY <1>1, <1>5, <1>7
<1>9. /\ UNCHANGED <<registry, draft, events, pc, request, found, client, seen>>
      /\ UNCHANGED <<batch, waited, firstErr, calls>>
  BY DEF Settle, configVars, openVars
<1>10. QED BY <1>5, <1>6, <1>8, <1>9

(* A bundle that is stored follows all that was stored before it, in the    *)
(* order of its messages.                                                  *)
LEMMA StoreMeans ==
    ASSUME PublishInv, NEW c \in Callers, NEW I, I \in Bundles(c),
           NEW confirmed \in BOOLEAN, StoreBundle(c, I, confirmed)
    PROVE  /\ topic' \in Seq(Entries) /\ Cardinality(I) \in Nat
           /\ Len(topic') = Len(topic) + Cardinality(I)
           /\ \A n \in 1..Len(topic) : topic'[n] = topic[n]
           /\ \A k \in 1..Cardinality(I) :
                 topic'[Len(topic) + k] = Stored(c, ByRank(k, I), confirmed)
<1> DEFINE size == Cardinality(I)
           new == [k \in 1..size |-> Stored(c, ByRank(k, I), confirmed)]
<1>1. /\ I \in SUBSET Nat /\ IsFiniteSet(I)
      /\ client[c] \in PubSubClients("open") /\ request[c] \in Requests
      /\ request[c].service = "pubsub" /\ \A i \in I : i \in DOMAIN batch[c]
  BY BundleMeans
<1>2. size \in Nat /\ \A k \in 1..size : ByRank(k, I) \in I
  BY <1>1, RankMeans
<1>3. ASSUME NEW i \in I PROVE Stored(c, i, confirmed) \in Entries
  <2>1. client[c].project \in Projects
    BY <1>1 DEF PubSubClients
  <2>2. request[c].url.host \in STRING
    BY <1>1, PublishRequests
  <2>3. batch[c][i] \in Messages /\ i \in Nat
    BY <1>1, Types, ElementOfSeq, LenProperties
  <2>4. buildAttributes(batch[c][i]) \in Headers
    BY <2>3 DEF buildAttributes, Messages, Headers, NoHeaders
  <2>5. calls[c] \in Nat
    BY Types, BoundsAssumption
  <2> HIDE DEF size, new
  <2>6. QED BY <2>1, <2>2, <2>3, <2>4, <2>5 DEF Stored, Entries
<1>4. new \in [1..size -> Entries]
  BY <1>2, <1>3
<1>5. /\ new \in Seq(Entries) /\ Len(new) = size
      /\ \A k \in 1..size : new[k] = Stored(c, ByRank(k, I), confirmed)
  <2>1. new \in Seq(Entries)
    BY <1>2, <1>4, IsASeq
  <2>2. DOMAIN new = 1..size
    BY <1>4
  <2>3. \A k \in 1..size : new[k] = Stored(c, ByRank(k, I), confirmed)
    OBVIOUS
  <2> HIDE DEF new
  <2>4. DOMAIN new = 1..Len(new) /\ Len(new) \in Nat
    BY <2>1, Places
  <2> HIDE DEF size
  <2>5. QED BY <1>2, <2>1, <2>2, <2>3, <2>4
<1>6. topic' = topic \o new
  BY DEF StoreBundle
<1> HIDE DEF new, size
<1>7. topic \in Seq(Entries) /\ Len(topic) \in Nat
  BY Types, LenProperties
<1>8. /\ topic' \in Seq(Entries) /\ Len(topic') = Len(topic) + size
      /\ \A n \in 1..(Len(topic) + size) :
            topic'[n] = IF n <= Len(topic) THEN topic[n] ELSE new[n - Len(topic)]
  BY <1>5, <1>6, <1>7, ConcatProperties
<1>9. \A n \in 1..Len(topic) : topic'[n] = topic[n]
  BY <1>2, <1>7, <1>8
<1>10. ASSUME NEW k \in 1..size PROVE topic'[Len(topic) + k] = new[k]
  <2>1. /\ Len(topic) + k \in 1..(Len(topic) + size) /\ ~(Len(topic) + k <= Len(topic))
        /\ Len(topic) + k - Len(topic) = k
    BY <1>2, <1>7
  <2>2. QED BY <1>8, <2>1
<1>11. QED BY <1>2, <1>5, <1>8, <1>9, <1>10 DEF size

(* What a bundle brings to the topic, if anything. *)
NewCopies == (Len(topic) + 1)..Len(topic')

LEMMA BundleKeeps ==
    ASSUME PublishInv, NEW c \in Callers, NEW I, I \in Bundles(c),
           NEW outcome, DOMAIN outcome = I, Settle(c, outcome),
           topic' \in Seq(Entries), Len(topic) <= Len(topic'),
           \A n \in 1..Len(topic) : topic'[n] = topic[n],
           \A n \in NewCopies :
              /\ topic'[n].sender = c /\ topic'[n].call = calls[c] /\ topic'[n].index \in I
              /\ topic'[n].confirmed => outcome[topic'[n].index] = Published(n),
           \A m, n \in NewCopies : m < n => topic'[m].index < topic'[n].index,
           \A i \in I :
              \/ outcome[i] = Failed
              \/ \E n \in NewCopies :
                    outcome[i] = Published(n) /\ topic'[n].index = i /\ topic'[n].confirmed,
           request[c].ordered /\ NewCopies # {} =>
              ~Paused(c) /\ \A i \in I : \E n \in NewCopies : topic'[n].index = i
    PROVE  PublishInv'
<1> DEFINE len == Len(result[c])
           old == Len(topic)
<1>1. /\ LookupInv(c) /\ PhaseInv(c) /\ WaitedInv(c) /\ ResultInv(c) /\ CopyInv(c)
      /\ IdInv(c) /\ OrderInv(c) /\ HeaderInv(c) /\ CallTypes(c)
  BY TypeOKParts DEF PublishInv, CallInv
<1>2. /\ InCall(c) /\ pc[c] # "idle" /\ client[c] \in PubSubClients("open")
      /\ request[c] \in Requests /\ request[c].service = "pubsub" /\ I # {}
      /\ \A i \in I : i \in DOMAIN result[c] /\ i \in DOMAIN batch[c]
                      /\ result[c][i] = Pending /\ i > waited[c] /\ i \in Nat
      /\ request[c].ordered => \A i \in I, j \in PendingOf(c) \ I : i < j
  BY BundleMeans
<1>3. /\ result[c] \in Seq(Results) /\ batch[c] \in Seq(Messages)
      /\ waited[c] \in Nat /\ firstErr[c] \in Nat /\ events \in Nat /\ calls[c] \in Nat
      /\ topic \in Seq(Entries) /\ len \in Nat /\ DOMAIN result[c] = 1..len
      /\ Len(batch[c]) \in Nat /\ DOMAIN batch[c] = 1..Len(batch[c])
      /\ old \in Nat /\ DOMAIN topic = 1..old
      /\ Len(topic') \in Nat /\ DOMAIN topic' = 1..Len(topic')
  BY Types, LenProperties, BoundsAssumption
<1>4. ASSUME NEW n \in NewCopies
      PROVE  /\ n \in Nat /\ n > old /\ n \in DOMAIN topic' /\ n \notin DOMAIN topic
  BY <1>3 DEF NewCopies
<1>5. \A n \in DOMAIN topic' : n \in DOMAIN topic \/ n \in NewCopies
  BY <1>3 DEF NewCopies
<1>6. DOMAIN topic \subseteq DOMAIN topic'
  BY <1>3
<1>7. \A n \in DOMAIN topic : topic'[n] = topic[n] /\ n \in Nat /\ n <= old
  BY <1>3
<1>8. ASSUME NEW i \in I
      PROVE  /\ outcome[i] # Pending /\ outcome[i] \in Results
             /\ outcome[i] # Failed =>
                   \E n \in NewCopies :
                      /\ outcome[i].id = n /\ topic'[n].index = i
                      /\ topic'[n].confirmed
  <2>1. CASE outcome[i] = Failed
    BY <2>1, ResultsAre
  <2>2. CASE outcome[i] # Failed
    <3>1. PICK n \in NewCopies :
             outcome[i] = Published(n) /\ topic'[n].index = i /\ topic'[n].confirmed
      BY <2>2
    <3>2. outcome[i].id = n /\ outcome[i].state = "published" /\ n \in Nat
      BY <1>4, <3>1 DEF Published
    <3>3. outcome[i] \in Results /\ outcome[i] # Pending
      BY <3>1, <3>2 DEF Results, Published, Pending
    <3>4. QED BY <3>1, <3>2, <3>3
  <2>3. QED BY <2>1, <2>2
<1>9. ASSUME NEW n \in NewCopies, topic'[n].confirmed
      PROVE  /\ outcome[topic'[n].index].id = n /\ IsPublished(outcome[topic'[n].index])
  <2>1. outcome[topic'[n].index] = Published(n)
    BY <1>9
  <2>2. Published(n) \notin {Pending, Failed} /\ Published(n).id = n
    BY DEF Published, Pending, Failed
  <2>3. QED BY <2>1, <2>2 DEF IsPublished
<1>10. /\ UNCHANGED <<registry, draft, events, pc, request, found, client, seen>>
       /\ UNCHANGED <<batch, waited, firstErr, calls>>
       /\ result' \in [Callers -> Seq(Results)]
       /\ Len(result'[c]) = len /\ DOMAIN result'[c] = 1..len
       /\ \A i \in 1..len :
             result'[c][i] = IF i \in I THEN outcome[i] ELSE result[c][i]
       /\ \A d \in Callers \ {c} : result'[d] = result[d]
  BY <1>3, <1>8, SettleMeans
<1> HIDE DEF len, old
<1>11. OnlyOf(c)
  <2>1. ASSUME NEW d \in Callers \ {c} PROVE TopicKeeps(d)
    BY <1>5, <1>6, <1>7, <2>1 DEF TopicKeeps
  <2>2. QED BY <1>3, <1>10, <2>1 DEF OnlyOf, Untouched, SameCall, old
<1>12. VarTypes'
  BY <1>10, Types DEF VarTypes, ConfigTypeOK, Locations_
<1>13. CallTypes(c)'
  <2>1. 0..Len(topic) \subseteq 0..Len(topic')
    BY <1>3 DEF old
  <2>2. QED BY <1>1, <1>10, <2>1 DEF CallTypes, PubSubClients, len
<1>14. LookupInv(c)'
  BY <1>2, <1>10, RequestMeans, LookupOver DEF InCall
<1>15. PhaseInv(c)'
  <2>1. result[c] # <<>> /\ result'[c] # <<>>
    <3>1. len # 0
      BY <1>2, <1>3
    <3>2. result'[c] \in Seq(Results)
      BY <1>10
    <3>3. QED BY <1>3, <1>10, <3>1, <3>2, Places DEF len
  <2>2. QED BY <1>1, <1>2, <1>10, <2>1 DEF PhaseInv, InCall, Publishing, Returned, len
<1>16. WaitedInv(c)'
  <2>1. \A i \in 1..waited[c] : i \in 1..len /\ i \notin I
    BY <1>1, <1>2, <1>3 DEF CallTypes, len
  <2>2. firstErr[c] # 0 => firstErr[c] \in 1..waited[c]
    BY <1>1, <1>3 DEF CallTypes
  <2>3. \A i \in 1..(firstErr[c] - 1) : i \in 1..waited[c]
    BY <1>1, <1>3 DEF CallTypes
  <2>4. \A i \in 1..waited[c] : result'[c][i] = result[c][i]
    BY <1>10, <2>1
  <2>5. QED BY <1>1, <1>10, <2>2, <2>3, <2>4, ResultsStay DEF WaitedInv
<1>17. ResultInv(c)'
  <2>1. ASSUME NEW i \in 1..len, IsPublished(result'[c][i])
        PROVE  LET n == result'[c][i].id IN
               /\ n \in DOMAIN topic'
               /\ topic'[n].sender = c /\ topic'[n].call = calls[c]
               /\ topic'[n].index = i /\ topic'[n].confirmed
    <3>1. CASE i \in I
      <4>1. outcome[i] # Failed /\ result'[c][i] = outcome[i]
        BY <1>10, <2>1, <3>1 DEF IsPublished
      <4>2. PICK n \in NewCopies :
               outcome[i].id = n /\ topic'[n].index = i /\ topic'[n].confirmed
        BY <1>8, <3>1, <4>1
      <4>3. QED BY <1>4, <4>1, <4>2
    <3>2. CASE i \notin I
      <4>1. result'[c][i] = result[c][i]
        BY <1>10, <3>2
      <4> DEFINE n == result[c][i].id
      <4>2. /\ n \in DOMAIN topic /\ topic[n].sender = c /\ topic[n].call = calls[c]
            /\ topic[n].index = i /\ topic[n].confirmed
        BY <1>1, <1>3, <2>1, <4>1 DEF ResultInv
      <4> HIDE DEF n
      <4>3. n \in DOMAIN topic' /\ topic'[n] = topic[n]
        BY <1>6, <1>7, <4>2
      <4>4. QED BY <4>1, <4>2, <4>3 DEF n
    <3>3. QED BY <3>1, <3>2
  <2>2. QED BY <1>10, <2>1 DEF ResultInv, IsPublished, Pending, Failed
<1>18. /\ Mine(c)' = Mine(c) \union NewCopies
       /\ \A n \in Mine(c) : n \in DOMAIN topic
  BY <1>4, <1>5, <1>6, <1>7 DEF Mine
<1>19. ASSUME NEW n \in Mine(c)
       PROVE  /\ topic'[n] = topic[n] /\ n \in Nat /\ n <= old
              /\ topic[n].index \in Nat /\ topic[n].call \in Nat
              /\ topic[n].call = calls[c] =>
                    /\ topic[n].index \in 1..len /\ topic[n].index \notin I
                    /\ result[c][topic[n].index] # Pending
                    /\ result'[c][topic[n].index] = result[c][topic[n].index]
  <2>1. topic'[n] = topic[n] /\ n \in Nat /\ n <= old /\ n \in DOMAIN topic
    BY <1>7, <1>18
  <2>2. topic[n].call = calls[c] =>
           topic[n].index \in 1..len /\ result[c][topic[n].index] # Pending
    BY <1>1, <1>2, <1>3 DEF CopyInv
  <2>3. topic[n].call = calls[c] => topic[n].index \notin I
    BY <1>2, <2>2
  <2>4. QED BY <1>10, <2>1, <2>2, <2>3, EntryTypes
<1>20. CopyInv(c)'
  <2>1. ASSUME NEW n \in Mine(c) \union NewCopies
        PROVE  /\ topic'[n].index \in 1..Len(batch[c]) /\ topic'[n].call <= calls[c]
               /\ batch[c][topic'[n].index].arrived < n
               /\ topic'[n].call = calls[c] =>
                     /\ topic'[n].index \in 1..len
                     /\ result'[c][topic'[n].index] # Pending
                     /\ topic'[n].confirmed =>
                           /\ IsPublished(result'[c][topic'[n].index])
                           /\ result'[c][topic'[n].index].id = n
    <3>1. CASE n \in Mine(c)
      <4>1. /\ topic[n].index \in 1..Len(batch[c]) /\ topic[n].call <= calls[c]
            /\ batch[c][topic[n].index].arrived < n
            /\ (topic[n].call = calls[c] /\ topic[n].confirmed =>
                   /\ IsPublished(result[c][topic[n].index])
                   /\ result[c][topic[n].index].id = n)
        BY <1>1, <1>2, <3>1 DEF CopyInv
      <4>2. QED BY <1>19, <3>1, <4>1
    <3>2. CASE n \in NewCopies
      <4> DEFINE i == topic'[n].index
      <4>1. /\ i \in I /\ i \in 1..len /\ i \in 1..Len(batch[c])
            /\ topic'[n].call = calls[c] /\ result'[c][i] = outcome[i]
        BY <1>2, <1>3, <1>10, <3>2
      <4>2. outcome[i] # Pending
        BY <1>8, <4>1
      <4>3. topic'[n].confirmed => IsPublished(outcome[i]) /\ outcome[i].id = n
        BY <1>9, <3>2
      <4> HIDE DEF i
      <4>4. batch[c][i].arrived \in 0..old
        BY <1>1, <1>3, <4>1 DEF CallTypes, old
      <4>5. batch[c][i].arrived < n /\ calls[c] <= calls[c]
        BY <1>3, <1>4, <3>2, <4>4
      <4>6. QED BY <4>1, <4>2, <4>3, <4>5 DEF i
    <3>3. QED BY <3>1, <3>2
  <2>2. ASSUME NEW n \in Mine(c) \union NewCopies, NEW m \in Mine(c) \union NewCopies, m < n
        PROVE  topic'[m].call <= topic'[n].call
    <3>1. CASE n \in NewCopies
      BY <2>1, <3>1
    <3>2. CASE n \in Mine(c)
      <4>1. m \in Mine(c)
        BY <1>3, <1>4, <1>19, <2>2, <3>2
      <4>2. QED BY <1>1, <1>19, <2>2, <3>2, <4>1 DEF CopyInv
    <3>3. QED BY <3>1, <3>2
  <2>3. QED BY <1>2, <1>10, <1>18, <2>1, <2>2 DEF CopyInv, IsPublished, Pending, Failed
<1>21. IdInv(c)'
  <2>1. ASSUME NEW i \in DOMAIN batch[c] PROVE Known(c, i)' = Known(c, i)
    <3>1. \A n \in Known(c, i) : n \in DOMAIN topic
      BY DEF Known, ConfirmedOf
    <3>2. ASSUME NEW n \in NewCopies PROVE n \notin Known(c, i)'
      <4>1. topic'[n].call = calls'[c] /\ pc'[c] # "idle" /\ waited'[c] = waited[c]
        BY <1>2, <1>10
      <4>2. topic'[n].index = i => i > waited[c] /\ i \in Nat
        BY <1>2
      <4>3. ~(calls'[c] < calls'[c])
        BY <1>3, <1>10
      <4>4. QED BY <1>3, <4>1, <4>2, <4>3 DEF Known, ConfirmedOf
    <3>3. ASSUME NEW n \in DOMAIN topic PROVE n \in Known(c, i)' <=> n \in Known(c, i)
      BY <1>6, <1>7, <1>10 DEF Known, ConfirmedOf
    <3>4. \A n \in Known(c, i)' : n \in DOMAIN topic'
      BY DEF Known, ConfirmedOf
    <3>5. QED BY <1>5, <3>1, <3>2, <3>3, <3>4
  <2>2. QED BY <1>1, <1>10, <2>1 DEF IdInv
<1>22. StoredIn(c, calls[c])' = StoredIn(c, calls[c]) \union NewCopies
       /\ \A n \in StoredIn(c, calls[c]) : n \in Mine(c) /\ topic[n].call = calls[c]
  BY <1>4, <1>5, <1>6, <1>7, <1>10 DEF StoredIn, Mine
<1>23. OrderInv(c)'
  <2> SUFFICES ASSUME request[c].ordered
      PROVE  /\ \A i, j \in 1..len :
                   i < j /\ result'[c][j] # Pending => result'[c][i] # Pending
             /\ \A m, n \in StoredIn(c, calls[c]) \union NewCopies :
                   m < n => topic'[m].index < topic'[n].index
             /\ \A n \in StoredIn(c, calls[c]) \union NewCopies :
                   \A i \in 1..(topic'[n].index - 1) :
                      \E m \in StoredIn(c, calls[c]) \union NewCopies : topic'[m].index = i
    <3>1. request' = request /\ DOMAIN result'[c] = 1..len /\ calls' = calls
      BY <1>10
    <3>2. QED BY <1>22, <3>1, ResultsStay DEF OrderInv
  <2>1. /\ \A i, j \in 1..len : i < j /\ result[c][j] # Pending => result[c][i] # Pending
        /\ \A m, n \in StoredIn(c, calls[c]) : m < n => topic[m].index < topic[n].index
        /\ \A n \in StoredIn(c, calls[c]) : \A i \in 1..(topic[n].index - 1) :
              \E m \in StoredIn(c, calls[c]) : topic[m].index = i
    BY <1>1, <1>2, <1>3 DEF OrderInv
  <2>2. ASSUME NEW i \in 1..len, i \notin I, result[c][i] = Pending, NEW j \in I
        PROVE  j < i
    BY <1>2, <1>3, <2>2 DEF PendingOf
  <2>3. ASSUME NEW i \in 1..len, NEW j \in 1..len, i < j, result'[c][j] # Pending,
               result'[c][i] = Pending
        PROVE  FALSE
    <3>1. i \notin I /\ result[c][i] = Pending
      BY <1>8, <1>10, <2>3
    <3>2. j \notin I
      <4>1. j \in I => j < i
        BY <2>2, <3>1
      <4>2. QED BY <1>3, <2>3, <4>1
    <3>3. result[c][j] # Pending
      BY <1>10, <2>3, <3>2
    <3>4. QED BY <2>1, <2>3, <3>1, <3>3
  <2>4. ASSUME NEW m \in StoredIn(c, calls[c]) \union NewCopies,
               NEW n \in StoredIn(c, calls[c]) \union NewCopies, m < n
        PROVE  topic'[m].index < topic'[n].index
    <3>1. CASE n \in NewCopies /\ m \in NewCopies
      BY <2>4, <3>1
    <3>2. CASE n \in StoredIn(c, calls[c])
      <4>1. m \in StoredIn(c, calls[c])
        BY <1>3, <1>4, <1>19, <1>22, <2>4, <3>2
      <4>2. QED BY <1>19, <1>22, <2>1, <2>4, <3>2, <4>1
    <3>3. CASE n \in NewCopies /\ m \in StoredIn(c, calls[c])
      <4> DEFINE i == topic'[n].index
                 j == topic'[m].index
      <4>1. i \in I /\ i \in 1..len /\ result[c][i] = Pending
        BY <1>2, <1>3, <3>3
      <4>2. j \in 1..len /\ j \notin I /\ result[c][j] # Pending
        BY <1>19, <1>22, <3>3
      <4> HIDE DEF i, j
      <4>3. i # j /\ ~(i < j)
        BY <2>1, <4>1, <4>2
      <4>4. j < i
        BY <1>3, <4>1, <4>2, <4>3
      <4>5. QED BY <4>4 DEF i, j
    <3>4. QED BY <3>1, <3>2, <3>3
  <2>5. ASSUME NEW n \in StoredIn(c, calls[c]) \union NewCopies,
               NEW i \in 1..(topic'[n].index - 1)
        PROVE  \E m \in StoredIn(c, calls[c]) \union NewCopies : topic'[m].index = i
    <3>1. CASE n \in StoredIn(c, calls[c])
      <4>1. topic'[n] = topic[n]
        BY <1>19, <1>22, <3>1
      <4>2. PICK m \in StoredIn(c, calls[c]) : topic[m].index = i
        BY <2>1, <3>1, <4>1
      <4>3. topic'[m] = topic[m]
        BY <1>19, <1>22
      <4>4. QED BY <4>2, <4>3
    <3>2. CASE n \in NewCopies
      <4> DEFINE j == topic'[n].index
      <4>1. j \in I /\ j \in 1..len /\ j \in Nat
        BY <1>2, <1>3, <3>2
      <4>2. i \in 1..(j - 1)
        OBVIOUS
      <4>3. ~Paused(c) /\ \A x \in I : \E m \in NewCopies : topic'[m].index = x
        BY <3>2
      <4> HIDE DEF j
      <4>4. i \in 1..len /\ i < j /\ i \in Nat
        BY <1>3, <4>1, <4>2
      <4>5. CASE i \in I
        BY <4>3, <4>5
      <4>6. CASE i \notin I
        <5>1. result[c][i] # Pending
          <6>1. result[c][i] = Pending => j < i
            BY <2>2, <4>1, <4>4, <4>6
          <6>2. QED BY <4>1, <4>4, <6>1
        <5>2. IsPublished(result[c][i])
          BY <1>3, <4>3, <4>4, <5>1 DEF Paused, IsPublished
        <5>3. PICK m \in DOMAIN topic :
                 topic[m].sender = c /\ topic[m].call = calls[c] /\ topic[m].index = i
          BY <1>1, <1>3, <4>4, <5>2 DEF ResultInv
        <5>4. m \in StoredIn(c, calls[c]) /\ topic'[m] = topic[m]
          BY <1>7, <5>3 DEF StoredIn
        <5>5. QED BY <5>3, <5>4
      <4>7. QED BY <4>5, <4>6
    <3>3. QED BY <3>1, <3>2
  <2>6. QED BY <2>3, <2>4, <2>5
<1>24. HeaderInv(c)'
  BY <1>1, <1>10 DEF HeaderInv
<1>25. QED
  BY <1>11, <1>12, <1>13, <1>14, <1>15, <1>16, <1>17, <1>20, <1>21, <1>23, <1>24, StepOfOne
     DEF CallInv

LEMMA BundlesKeep ==
    ASSUME PublishInv, NEW c \in Callers, BundlePublished(c) \/ BundleFails(c)
    PROVE  PublishInv'
<1>1. topic \in Seq(Entries) /\ Len(topic) \in Nat
  BY Types, LenProperties
(* What a stored bundle brings, message by message. *)
<1>2. ASSUME NEW I, I \in Bundles(c), NEW confirmed \in BOOLEAN, StoreBundle(c, I, confirmed)
      PROVE  /\ topic' \in Seq(Entries) /\ Len(topic) <= Len(topic')
             /\ \A n \in 1..Len(topic) : topic'[n] = topic[n]
             /\ \A n \in NewCopies :
                   /\ topic'[n].sender = c /\ topic'[n].call = calls[c]
                   /\ topic'[n].index \in I /\ topic'[n].confirmed = confirmed
                   /\ n = Len(topic) + Rank(topic'[n].index, I)
             /\ \A m, n \in NewCopies : m < n => topic'[m].index < topic'[n].index
             /\ \A i \in I : \E n \in NewCopies :
                   n = Len(topic) + Rank(i, I) /\ topic'[n].index = i
  <2> DEFINE size == Cardinality(I)
             old == Len(topic)
  <2>1. I \in SUBSET Nat /\ IsFiniteSet(I)
    BY <1>2, BundleMeans
  <2>2. /\ \A i \in I : Rank(i, I) \in 1..size /\ ByRank(Rank(i, I), I) = i
        /\ \A n \in 1..size : ByRank(n, I) \in I /\ Rank(ByRank(n, I), I) = n
        /\ \A m, n \in 1..size : m < n => ByRank(m, I) < ByRank(n, I)
    BY <2>1, RankMeans
  <2>3. /\ topic' \in Seq(Entries) /\ size \in Nat /\ Len(topic') = old + size
        /\ \A n \in 1..old : topic'[n] = topic[n]
        /\ \A k \in 1..size : topic'[old + k] = Stored(c, ByRank(k, I), confirmed)
    BY <1>2, StoreMeans
  <2> HIDE DEF size, old
  <2>4. old \in Nat
    BY <1>1 DEF old
  <2>5. ASSUME NEW k \in 1..size
        PROVE  /\ topic'[old + k].sender = c /\ topic'[old + k].call = calls[c]
               /\ topic'[old + k].index = ByRank(k, I)
               /\ topic'[old + k].confirmed = confirmed
    <3>1. \A i : /\ Stored(c, i, confirmed).sender = c
                 /\ Stored(c, i, confirmed).call = calls[c]
                 /\ Stored(c, i, confirmed).index = i
                 /\ Stored(c, i, confirmed).confirmed = confirmed
      BY DEF Stored
    <3>2. topic'[old + k] = Stored(c, ByRank(k, I), confirmed)
      BY <2>3
    <3>3. QED BY <3>1, <3>2
  <2>6. ASSUME NEW n \in NewCopies PROVE n - old \in 1..size /\ n = old + (n - old)
    BY <2>3, <2>4 DEF NewCopies, old
  <2>7. ASSUME NEW n \in NewCopies
        PROVE  /\ topic'[n].sender = c /\ topic'[n].call = calls[c]
               /\ topic'[n].index = ByRank(n - old, I) /\ topic'[n].index \in I
               /\ topic'[n].confirmed = confirmed
               /\ n = old + Rank(topic'[n].index, I)
    <3>1. PICK k \in 1..size : k = n - old /\ n = old + k
      BY <2>6
    <3>2. QED BY <2>2, <2>5, <3>1
  <2>8. ASSUME NEW m \in NewCopies, NEW n \in NewCopies, m < n
        PROVE  topic'[m].index < topic'[n].index
    <3>1. m - old \in 1..size /\ n - old \in 1..size /\ m - old < n - old
      BY <2>3, <2>4, <2>8 DEF NewCopies, old
    <3>2. ByRank(m - old, I) < ByRank(n - old, I)
      BY <2>2, <3>1
    <3>3. QED BY <2>7, <3>2
  <2>9. ASSUME NEW i \in I
        PROVE  \E n \in NewCopies : n = old + Rank(i, I) /\ topic'[n].index = i
    <3>1. Rank(i, I) \in 1..size /\ ByRank(Rank(i, I), I) = i
      BY <2>2
    <3>2. old + Rank(i, I) \in NewCopies
      BY <2>3, <2>4, <3>1 DEF NewCopies, old
    <3>3. topic'[old + Rank(i, I)].index = i
      BY <2>5, <3>1
    <3>4. QED BY <3>2, <3>3
  <2>10. old <= old + size
    BY <2>3, <2>4
  <2>11. QED BY <2>3, <2>7, <2>8, <2>9, <2>10 DEF old
<1>3. CASE BundlePublished(c)
  <2>1. PICK I \in Bundles(c) :
           /\ ~(request[c].ordered /\ Paused(c))
           /\ StoreBundle(c, I, TRUE)
           /\ Settle(c, [i \in I |-> Published(Len(topic) + Rank(i, I))])
    BY <1>3 DEF BundlePublished
  <2> DEFINE outcome == [i \in I |-> Published(Len(topic) + Rank(i, I))]
  <2>2. /\ topic' \in Seq(Entries) /\ Len(topic) <= Len(topic')
        /\ \A n \in 1..Len(topic) : topic'[n] = topic[n]
        /\ \A n \in NewCopies :
              /\ topic'[n].sender = c /\ topic'[n].call = calls[c]
              /\ topic'[n].index \in I /\ topic'[n].confirmed = TRUE
              /\ n = Len(topic) + Rank(topic'[n].index, I)
        /\ \A m, n \in NewCopies : m < n => topic'[m].index < topic'[n].index
        /\ \A i \in I : \E n \in NewCopies :
              n = Len(topic) + Rank(i, I) /\ topic'[n].index = i
    BY <1>2, <2>1
  <2>3. DOMAIN outcome = I /\ \A i \in I : outcome[i] = Published(Len(topic) + Rank(i, I))
    OBVIOUS
  <2>4. Settle(c, outcome)
    BY <2>1
  <2> HIDE DEF outcome
  <2>5. \A n \in NewCopies :
           /\ topic'[n].sender = c /\ topic'[n].call = calls[c] /\ topic'[n].index \in I
           /\ topic'[n].confirmed => outcome[topic'[n].index] = Published(n)
    BY <2>2, <2>3
  <2>6. \A i \in I :
           \/ outcome[i] = Failed
           \/ \E n \in NewCopies :
                 outcome[i] = Published(n) /\ topic'[n].index = i /\ topic'[n].confirmed
    BY <2>2, <2>3
  <2>7. request[c].ordered /\ NewCopies # {} =>
           ~Paused(c) /\ \A i \in I : \E n \in NewCopies : topic'[n].index = i
    BY <2>1, <2>2
  <2>8. QED BY <2>1, <2>2, <2>3, <2>4, <2>5, <2>6, <2>7, BundleKeeps
<1>4. CASE BundleFails(c)
  <2>1. PICK I \in Bundles(c) :
           /\ \/ UNCHANGED topic
              \/ ~(request[c].ordered /\ Paused(c)) /\ StoreBundle(c, I, FALSE)
           /\ Settle(c, [i \in I |-> Failed])
    BY <1>4 DEF BundleFails
  <2> DEFINE outcome == [i \in I |-> Failed]
  <2>2. DOMAIN outcome = I /\ (\A i \in I : outcome[i] = Failed) /\ Settle(c, outcome)
    BY <2>1
  <2> HIDE DEF outcome
  <2>3. \A i \in I :
           \/ outcome[i] = Failed
           \/ \E n \in NewCopies :
                 outcome[i] = Published(n) /\ topic'[n].index = i /\ topic'[n].confirmed
    BY <2>2
  <2>4. CASE UNCHANGED topic
    <3>1. NewCopies = {} /\ topic' \in Seq(Entries) /\ Len(topic) <= Len(topic')
      BY <1>1, <2>4 DEF NewCopies
    <3>2. \A n \in 1..Len(topic) : topic'[n] = topic[n]
      BY <2>4
    <3>3. \A n \in NewCopies :
             /\ topic'[n].sender = c /\ topic'[n].call = calls[c] /\ topic'[n].index \in I
             /\ topic'[n].confirmed => outcome[topic'[n].index] = Published(n)
      BY <3>1
    <3>4. \A m, n \in NewCopies : m < n => topic'[m].index < topic'[n].index
      BY <3>1
    <3>5. request[c].ordered /\ NewCopies # {} =>
             ~Paused(c) /\ \A i \in I : \E n \in NewCopies : topic'[n].index = i
      BY <3>1
    <3>6. QED BY <2>1, <2>2, <2>3, <3>1, <3>2, <3>3, <3>4, <3>5, BundleKeeps
  <2>5. CASE ~(request[c].ordered /\ Paused(c)) /\ StoreBundle(c, I, FALSE)
    <3>1. /\ topic' \in Seq(Entries) /\ Len(topic) <= Len(topic')
          /\ \A n \in 1..Len(topic) : topic'[n] = topic[n]
          /\ \A n \in NewCopies :
                /\ topic'[n].sender = c /\ topic'[n].call = calls[c]
                /\ topic'[n].index \in I /\ topic'[n].confirmed = FALSE
                /\ n = Len(topic) + Rank(topic'[n].index, I)
          /\ \A m, n \in NewCopies : m < n => topic'[m].index < topic'[n].index
          /\ \A i \in I : \E n \in NewCopies :
                n = Len(topic) + Rank(i, I) /\ topic'[n].index = i
      BY <1>2, <2>1, <2>5
    <3>2. \A n \in NewCopies :
             /\ topic'[n].sender = c /\ topic'[n].call = calls[c] /\ topic'[n].index \in I
             /\ topic'[n].confirmed => outcome[topic'[n].index] = Published(n)
      BY <3>1
    <3>3. request[c].ordered /\ NewCopies # {} =>
             ~Paused(c) /\ \A i \in I : \E n \in NewCopies : topic'[n].index = i
      BY <2>5, <3>1
    <3>4. QED BY <2>1, <2>2, <2>3, <3>1, <3>2, <3>3, BundleKeeps
  <2>6. QED BY <2>1, <2>4, <2>5
<1>5. QED BY <1>3, <1>4
-----------------------------------------------------------------------------
(***************************************************************************)
(* The theorems.                                                           *)
(***************************************************************************)

LEMMA InitMeans == Init => PublishInv
<1> SUFFICES ASSUME Init PROVE PublishInv
  OBVIOUS
<1>1. VarTypes
  <2>1. ConfigTypeOK
    <3>1. EmptyConfig \in Configs
      BY NoOptions, ConfigAssumption DEF EmptyConfig, Configs
    <3>2. 0 \in 0..MaxEvents
      BY BoundsAssumption
    <3>3. NoClient \in Clients
      BY DEF Clients
    <3>4. QED BY <3>1, <3>2, <3>3 DEF Init, ConfigInit, ConfigTypeOK
  <2>2. 0 \in 0..MaxEvents
    BY BoundsAssumption
  <2>3. QED BY <2>1, <2>2 DEF Init, ConfigInit, VarTypes, Locations_, ResolveLocations
<1>2. ASSUME NEW c \in Callers PROVE CallTypes(c) /\ CallInv(c)
  <2>1. /\ pc[c] = "idle" /\ request[c] = NoRequest /\ client[c] = NoClient
        /\ batch[c] = <<>> /\ result[c] = <<>> /\ waited[c] = 0 /\ firstErr[c] = 0
        /\ calls[c] = 0 /\ topic = <<>> /\ events = 0
    BY DEF Init, ConfigInit
  <2>2. DOMAIN batch[c] = {} /\ DOMAIN result[c] = {} /\ DOMAIN topic = {}
        /\ Len(batch[c]) = 0 /\ Len(result[c]) = 0
    BY <2>1
  <2>3. CallTypes(c)
    BY <2>1, <2>2 DEF CallTypes
  <2>4. LookupInv(c)
    BY <2>1 DEF LookupInv, SearchEnded
  <2>5. NoRequest.service # "pubsub"
    BY RequestMeans
  <2>6. PhaseInv(c)
    BY <2>1, <2>2, <2>5 DEF PhaseInv, InCall, Publishing, Returned
  <2>7. WaitedInv(c) /\ ResultInv(c) /\ CopyInv(c) /\ IdInv(c) /\ OrderInv(c) /\ HeaderInv(c)
    BY <2>1, <2>2, <2>5 DEF WaitedInv, ResultInv, CopyInv, Mine, IdInv, OrderInv, HeaderInv
  <2>8. QED BY <2>3, <2>4, <2>6, <2>7 DEF CallInv
<1>3. QED BY <1>1, <1>2, TypeOKParts DEF PublishInv

LEMMA StepMeans == PublishInv /\ [Next]_vars => PublishInv'
<1> SUFFICES ASSUME PublishInv, [Next]_vars PROVE PublishInv'
  OBVIOUS
<1>1. CASE Configure
  BY <1>1, ConfigureStep
<1>2. ASSUME NEW c \in Callers, CallerNext(c) PROVE PublishInv'
  <2>1. CASE NewMessage(c) \/ ReceiveOne(c) \/ ForeignMessage(c)
    BY <2>1, MessagesAreCollected
  <2>2. CASE \E i \in DOMAIN batch[c], k \in HeaderKeys, v \in HeaderValues :
                SetHeader(c, i, k, v)
    BY <2>2, SetHeaderKeeps
  <2>3. CASE Begin(c)
    BY <2>3, BeginKeeps
  <2>4. CASE EmptyBatch(c)
    BY <2>4, EmptyBatchKeeps
  <2>5. CASE Resolve(c)
    BY <2>5, ResolveKeeps
  <2>6. CASE ResolvePublisher(c)
    BY <2>6, ResolvePublisherKeeps
  <2>7. CASE NoTopicName(c)
    BY <2>7, NoTopicNameKeeps
  <2>8. CASE SendPublishes(c) \/ BatchPublishes(c)
    BY <2>8, PublishesKeep
  <2>9. CASE SendReturns(c) \/ BatchMeetsError(c) \/ BatchStoresId(c)
    BY <2>9, WaitsKeep
  <2>10. CASE BatchReturns(c)
    BY <2>10, BatchReturnsKeeps
  <2>11. CASE CallOver(c)
    BY <2>11, CallOverKeeps
  <2>12. CASE BundlePublished(c) \/ BundleFails(c)
    BY <2>12, BundlesKeep
  <2>13. QED
    BY <1>2, <2>1, <2>2, <2>3, <2>4, <2>5, <2>6, <2>7, <2>8, <2>9, <2>10, <2>11, <2>12
       DEF CallerNext
<1>3. CASE UNCHANGED vars
  <2>1. /\ UNCHANGED <<registry, draft, events, pc, request, found, client, seen>>
        /\ UNCHANGED <<batch, result, waited, firstErr, calls, topic>>
    BY <1>3 DEF vars, configVars, openVars, publishVars
  <2>2. events \in Nat /\ Len(topic) \in Nat
    BY Types, LenProperties, BoundsAssumption
  <2>3. ASSUME NEW c \in Callers PROVE CallTypes(c)' /\ CallInv(c)'
    <3>1. Untouched(c) /\ seen'[c] = seen[c] /\ Len(topic) <= Len(topic')
      BY <2>1, <2>2 DEF Untouched, SameCall, TopicKeeps
    <3>2. QED BY <2>1, <2>2, <3>1, CallTypesKept, CallInvKept
  <2>4. VarTypes'
    BY <2>1, Types DEF VarTypes, ConfigTypeOK
  <2>5. QED BY <2>3, <2>4, TypeOKParts DEF PublishInv
<1>4. QED BY <1>1, <1>2, <1>3 DEF Next

(* The inductive invariant of publishing. *)
THEOREM PublishInvariant == Spec => []PublishInv
  BY InitMeans, StepMeans, PTL DEF Spec

(* Types: in particular a client is open exactly while a Pub/Sub call is     *)
(* under way with it, however the call comes to its end.                    *)
THEOREM PublishTypes == Spec => []TypeOK
<1>1. PublishInv => TypeOK
  BY DEF PublishInv
<1>2. QED BY <1>1, PublishInvariant, PTL

(* What GetConfig returns was registered under one of the URL's keys during *)
(* the call, and no key that held a Config all the while is passed over.    *)
THEOREM LookupsAreJustified == Spec => []LookupIsJustified
<1>1. PublishInv => LookupIsJustified
  BY DEF PublishInv, CallInv, LookupInv, LookupIsJustified, Keys
<1>2. QED BY <1>1, PublishInvariant, PTL

(* What is known of a call that is back. *)
LEMMA ReturnedMeans ==
    ASSUME PublishInv, NEW c \in Callers, Returned(c)
    PROVE  /\ pc[c] # "idle" /\ waited[c] \in Nat /\ DOMAIN result[c] = 1..waited[c]
           /\ DOMAIN batch[c] = 1..waited[c] /\ firstErr[c] \in 0..waited[c]
           /\ \A i \in 1..waited[c] : result[c][i] # Pending
<1>1. PhaseInv(c) /\ WaitedInv(c) /\ CallTypes(c)
  BY TypeOKParts DEF PublishInv, CallInv
<1>2. /\ result[c] \in Seq(Results) /\ batch[c] \in Seq(Messages)
      /\ waited[c] \in Nat /\ firstErr[c] \in Nat
  BY Types
<1>3. Len(result[c]) = Len(batch[c]) /\ waited[c] = Len(result[c]) /\ pc[c] # "idle"
  BY <1>1 DEF PhaseInv, Returned
<1>4. DOMAIN result[c] = 1..waited[c] /\ DOMAIN batch[c] = 1..waited[c]
  BY <1>2, <1>3, LenProperties
<1>5. QED BY <1>1, <1>2, <1>3, <1>4 DEF WaitedInv, CallTypes

(* When Send or SendBatch is back, no publish is under way, the error names *)
(* the first message whose publish failed, and all others are stored.       *)
THEOREM FirstFailureIsNamed == Spec => []ErrorNamesFirstFailure
<1>1. ASSUME PublishInv, NEW c \in Callers, Returned(c),
             NEW failed, failed = {i \in DOMAIN result[c] : result[c][i] = Failed}
      PROVE  /\ PendingOf(c) = {}
             /\ firstErr[c] = IF failed = {} THEN 0 ELSE Min(failed)
             /\ \A i \in DOMAIN batch[c] \ failed :
                   \E n \in StoredIn(c, calls[c]) : topic[n].index = i
  <2>1. WaitedInv(c) /\ ResultInv(c)
    BY <1>1 DEF PublishInv, CallInv
  <2>2. /\ waited[c] \in Nat /\ DOMAIN result[c] = 1..waited[c]
        /\ DOMAIN batch[c] = 1..waited[c] /\ firstErr[c] \in 0..waited[c]
        /\ \A i \in 1..waited[c] : result[c][i] # Pending
    BY <1>1, ReturnedMeans
  <2>3. PendingOf(c) = {}
    BY <2>2 DEF PendingOf
  <2>4. firstErr[c] = 0 => failed = {}
    BY <1>1, <2>1, <2>2 DEF WaitedInv
  <2>5. ASSUME firstErr[c] # 0 PROVE failed # {} /\ Min(failed) = firstErr[c]
    <3>1. failed \in SUBSET Nat /\ firstErr[c] \in failed
      BY <1>1, <2>1, <2>2, <2>5 DEF WaitedInv
    <3>2. ASSUME NEW i \in failed PROVE firstErr[c] <= i
      <4>1. i \in 1..waited[c] /\ result[c][i] = Failed
        BY <1>1, <2>2
      <4>2. i \notin 1..(firstErr[c] - 1)
        BY <2>1, <2>5, <4>1 DEF WaitedInv
      <4>3. QED BY <2>2, <4>1, <4>2
    <3>3. QED BY <3>1, <3>2, MinMeans
  <2>6. ASSUME NEW i \in DOMAIN batch[c] \ failed
        PROVE  \E n \in StoredIn(c, calls[c]) : topic[n].index = i
    <3>1. i \in DOMAIN result[c] /\ IsPublished(result[c][i])
      BY <1>1, <2>2 DEF IsPublished
    <3>2. QED BY <2>1, <3>1 DEF ResultInv, StoredIn
  <2>7. firstErr[c] = IF failed = {} THEN 0 ELSE Min(failed)
    BY <2>4, <2>5
  <2>8. QED BY <2>3, <2>6, <2>7
<1>2. PublishInv => ErrorNamesFirstFailure
  BY <1>1 DEF ErrorNamesFirstFailure
<1>3. QED BY <1>2, PublishInvariant, PTL

(* When the call is back, the id of each message is that of its last        *)
(* confirmed publish, or the one it arrived with.                           *)
THEOREM IdsTellAll == Spec => []IdsTellWhatWasPublished
<1>1. ASSUME PublishInv, NEW c \in Callers, Returned(c), NEW i \in DOMAIN batch[c],
             batch[c][i].kind # "foreign"
      PROVE  batch[c][i].id = Max(ConfirmedOf(c, i) \union {batch[c][i].arrived})
  <2> DEFINE ids == ConfirmedOf(c, i) \union {batch[c][i].arrived}
  <2>1. IdInv(c)
    BY <1>1 DEF PublishInv, CallInv
  <2>2. i <= waited[c]
    BY <1>1, ReturnedMeans
  <2>3. Known(c, i) = ConfirmedOf(c, i)
    BY <2>2 DEF Known
  <2>4. batch[c][i].id \in ids /\ \A n \in ids : n <= batch[c][i].id
    BY <1>1, <2>1, <2>3 DEF IdInv
  <2>5. batch[c][i].arrived \in Nat
    <3>1. batch[c] \in Seq(Messages)
      BY <1>1, Types
    <3>2. batch[c][i] \in Messages
      BY <1>1, <3>1, Places
    <3>3. QED BY <3>2 DEF Messages
  <2>6. ids \in SUBSET Nat
    BY <1>1, <2>5, EntryTypes DEF ConfirmedOf
  <2> HIDE DEF ids
  <2>7. Max(ids) = batch[c][i].id
    BY <2>4, <2>6, MaxMeans
  <2>8. QED BY <2>7 DEF ids
<1>2. PublishInv => IdsTellWhatWasPublished
  BY <1>1 DEF IdsTellWhatWasPublished
<1>3. QED BY <1>2, PublishInvariant, PTL

(* With an ordering key, what a call stored is a prefix of its batch. *)
THEOREM OrderIsKept == Spec => []OrderedBatchIsPrefix
<1>1. ASSUME PublishInv, NEW c \in Callers,
             request[c].service = "pubsub", request[c].ordered
      PROVE  /\ \A n \in StoredIn(c, calls[c]) :
                   topic[n].index = Rank(n, StoredIn(c, calls[c]))
             /\ \A i \in DOMAIN result[c] :
                   result[c][i].state = "published" =>
                      result[c][i].id \in StoredIn(c, calls[c])
  <2> DEFINE S == StoredIn(c, calls[c])
             f == [n \in S |-> topic[n].index]
  <2>1. ResultInv(c) /\ CopyInv(c) /\ OrderInv(c)
    BY <1>1 DEF PublishInv, CallInv
  <2>2. Len(topic) \in Nat /\ DOMAIN topic = 1..Len(topic) /\ Len(batch[c]) \in Nat
    BY <1>1, Types, LenProperties
  <2>3. S \in SUBSET (1..Len(topic)) /\ \A n \in S : n \in Mine(c)
    BY <2>2 DEF StoredIn, Mine
  <2>4. IsFiniteSet(S)
    <3>1. 1 \in Int /\ Len(topic) \in Int
      BY <2>2
    <3>2. IsFiniteSet(1..Len(topic))
      BY <3>1, FS_Interval
    <3>3. QED BY ONLY <2>3, <3>2, FS_Subset
  <2>5. \A n \in S : topic[n].index \in Nat \ {0}
    BY <2>1, <2>2, <2>3 DEF CopyInv
  <2>6. /\ \A m, n \in S : m < n => topic[m].index < topic[n].index
        /\ \A n \in S : \A i \in 1..(topic[n].index - 1) : \E m \in S : topic[m].index = i
    BY <1>1, <2>1 DEF OrderInv
  <2> HIDE DEF S
  <2>7. /\ f \in [S -> Nat \ {0}] /\ \A n \in S : f[n] = topic[n].index
    BY <2>5
  <2> HIDE DEF f
  <2>8. /\ \A m, n \in S : m < n => f[m] < f[n]
        /\ \A n \in S : \A i \in 1..(f[n] - 1) : \E m \in S : f[m] = i
    BY <2>6, <2>7
  <2>9. S \in SUBSET Nat
    BY <2>2, <2>3
  <2>10. \A n \in S : f[n] = Rank(n, S)
    BY <2>4, <2>7, <2>8, <2>9, NumberedByRank
  <2>11. ASSUME NEW i \in DOMAIN result[c], result[c][i].state = "published"
         PROVE  result[c][i].id \in S
    <3>1. IsPublished(result[c][i])
      BY <2>11, ResultsAre DEF IsPublished
    <3>2. QED BY <2>1, <3>1 DEF ResultInv, StoredIn, S
  <2>12. QED BY <2>7, <2>10, <2>11 DEF S
<1>2. PublishInv => OrderedBatchIsPrefix
  BY <1>1 DEF OrderedBatchIsPrefix
<1>3. QED BY <1>2, PublishInvariant, PTL

(* Every header set on a message, and every attribute it arrived with, is   *)
(* an attribute of each stored copy.                                       *)
THEOREM HeadersAreStored == Spec => HeadersArrive
<1> DEFINE Arrive ==
             \A n \in DOMAIN topic' \ DOMAIN topic :
                LET m == batch[topic'[n].sender][topic'[n].index]
                IN  m.kind # "foreign" => topic'[n].attributes = m.given
<1>1. ASSUME UNCHANGED topic PROVE Arrive
  BY <1>1
<1>2. ASSUME PublishInv, NEW c \in Callers, NEW I, I \in Bundles(c),
             NEW confirmed \in BOOLEAN, StoreBundle(c, I, confirmed)
      PROVE  Arrive
  <2>1. /\ I \in SUBSET Nat /\ IsFiniteSet(I) /\ \A i \in I : i \in DOMAIN batch[c]
    BY <1>2, BundleMeans
  <2>2. \A k \in 1..Cardinality(I) : ByRank(k, I) \in I
    BY <2>1, RankMeans
  <2>3. /\ topic' \in Seq(Entries) /\ Cardinality(I) \in Nat
        /\ Len(topic') = Len(topic) + Cardinality(I)
        /\ \A k \in 1..Cardinality(I) :
              topic'[Len(topic) + k] = Stored(c, ByRank(k, I), confirmed)
    BY <1>2, StoreMeans
  <2>4. topic \in Seq(Entries)
    BY <1>2, Types
  <2>5. /\ Len(topic) \in Nat /\ DOMAIN topic = 1..Len(topic)
        /\ DOMAIN topic' = 1..(Len(topic) + Cardinality(I))
    BY <2>3, <2>4, LenProperties
  <2>6. HeaderInv(c)
    BY <1>2 DEF PublishInv, CallInv
  <2>7. ASSUME NEW n \in DOMAIN topic' \ DOMAIN topic
        PROVE  LET m == batch[topic'[n].sender][topic'[n].index]
               IN  m.kind # "foreign" => topic'[n].attributes = m.given
    <3>1. PICK k \in 1..Cardinality(I) : n = Len(topic) + k
      <4>1. n - Len(topic) \in 1..Cardinality(I) /\ n = Len(topic) + (n - Len(topic))
        BY <2>3, <2>5
      <4>2. QED BY <4>1
    <3>2. PICK i \in I : topic'[n] = Stored(c, i, confirmed)
      BY <2>2, <2>3, <3>1
    <3>3. /\ topic'[n].sender = c /\ topic'[n].index = i
          /\ topic'[n].attributes = buildAttributes(batch[c][i])
      BY <3>2 DEF Stored
    <3>4. i \in DOMAIN batch[c]
      BY <2>1
    <3>5. batch[c][i].kind # "foreign" => buildAttributes(batch[c][i]) = batch[c][i].given
      BY <2>6, <3>4 DEF HeaderInv, buildAttributes
    <3>6. QED BY <3>3, <3>5
  <2>8. QED BY <2>7
<1>3. ASSUME PublishInv, [Next]_vars PROVE Arrive
  <2>1. CASE UNCHANGED topic
    BY <1>1, <2>1
  <2>2. CASE \E c \in Callers : BundlePublished(c) \/ BundleFails(c)
    <3>1. PICK c \in Callers : BundlePublished(c) \/ BundleFails(c)
      BY <2>2
    <3>2. PICK I \in Bundles(c) :
             UNCHANGED topic \/ StoreBundle(c, I, TRUE) \/ StoreBundle(c, I, FALSE)
      BY <3>1 DEF BundlePublished, BundleFails
    <3> HIDE DEF Arrive
    <3>3. StoreBundle(c, I, TRUE) => Arrive
      BY <1>2, <1>3
    <3>4. StoreBundle(c, I, FALSE) => Arrive
      BY <1>2, <1>3
    <3>5. UNCHANGED topic => Arrive
      BY <1>1
    <3>6. QED BY <3>2, <3>3, <3>4, <3>5
  <2>3. QED
    <3>1. ASSUME NEW c \in Callers, CallerNext(c)
          PROVE  UNCHANGED topic \/ BundlePublished(c) \/ BundleFails(c)
      BY <3>1 DEF CallerNext, NewMessage, ReceiveOne, ForeignMessage, Collect, SetHeader,
                  Begin, EmptyBatch, Resolve, ResolvePublisher, NoTopicName, SendPublishes,
                  BatchPublishes, Queue, SendReturns, BatchMeetsError, BatchStoresId,
                  BatchReturns, CallOver, Return, publishVars
    <3>2. Configure \/ UNCHANGED vars => UNCHANGED topic
      BY DEF Configure, vars, publishVars
    <3> HIDE DEF Arrive
    <3>3. QED BY <1>3, <2>1, <2>2, <3>1, <3>2 DEF Next
<1>4. PublishInv /\ [Next]_vars => [Arrive]_vars
  BY <1>3
<1>5. QED BY <1>4, PublishInvariant, PTL DEF Spec, HeadersArrive
=============================================================================
