------------------------------ MODULE GcpConfig ------------------------------
(***************************************************************************)
(* The configuration registry of src/gcpsvc and the clients opened from    *)
(* it: a program fills in Configs and registers them under names while its *)
(* goroutines resolve a URL to a Config (GetConfig, up to three lookups in *)
(* the registry, one after the other) and open clients for Pub/Sub, Cloud  *)
(* Storage, GenAI and Secret Manager with what they found.                 *)
(*                                                                         *)
(* A registry key is a tuple of its parts: <<host>>, <<host, path>> or     *)
(* <<name>>; the path of a URL begins with its slash, as in the key         *)
(* "host//path".  A Config is filled in before it is registered, as the    *)
(* READMEs do: it has no lock of its own.                                  *)
(*                                                                         *)
(* External: managers.ItemManager, whose Get, Register and Unregister are  *)
(* one step each, and the constructors of the client libraries, which may  *)
(* fail.                                                                   *)
(***************************************************************************)
EXTENDS Naturals, Sequences

CONSTANTS Callers,       \* the goroutines that open clients
          Requests,      \* what they ask for
          RegistryKeys,  \* the keys the program registers under
          Projects, Locations, Options,
          MaxEvents,     \* bound: what the program does, all told
          MaxOptions     \* bound: options of one Config

(* Config{}: a Config nothing was set in. *)
EmptyConfig == [project |-> "", location |-> "", options |-> <<>>]
OptionLists == UNION {[1..n -> Options] : n \in 0..MaxOptions}
Configs == [project : Projects, location : Locations, options : OptionLists]
NoConfig == [project |-> "nil", location |-> "nil", options |-> <<>>]

ASSUME ConfigAssumption ==
    "" \in Projects /\ "" \in Locations /\ NoConfig \notin Configs
ASSUME StringsAssumption == Projects \subseteq STRING /\ Locations \subseteq STRING
ASSUME RequestsAssumption ==
    \A r \in Requests :
        /\ r.service \in {"pubsub", "gs", "own", "genai", "secrets"}
        /\ r.service = "genai" =>
              {r.project, r.location} \subseteq STRING
        /\ r.service = "secrets" => r.project \in STRING
ASSUME BoundsAssumption == MaxEvents \in Nat /\ MaxOptions \in Nat

VARIABLES
    registry,  \* gcpsvc.Manager: key -> the Config registered under it
    draft,     \* the Config the program is filling in
    events,    \* what the program has done so far
    pc,        \* where each goroutine is
    request,   \* what it asks for
    found,     \* the local config
    client,    \* the client it opened, or what came of it
    seen       \* history: what each key held since the request began

configVars == <<registry, draft, events>>
openVars == <<request, found, client, seen>>

NoRequest == [service |-> "none"]
NoClient == [state |-> "none"]
(* A nil *url.URL. *)
NilURL == [scheme |-> "nil", host |-> "nil", path |-> "nil"]

ConfigInit ==
    /\ registry = [k \in RegistryKeys |-> NoConfig]
    /\ draft = EmptyConfig /\ events = 0
    /\ pc = [c \in Callers |-> "idle"]
    /\ request = [c \in Callers |-> NoRequest]
    /\ found = [c \in Callers |-> NoConfig]
    /\ client = [c \in Callers |-> NoClient]
    /\ seen = [c \in Callers |-> [k \in RegistryKeys |-> {}]]

Event == events < MaxEvents /\ events' = events + 1
Goto(c, from, to) == pc[c] = from /\ pc' = [pc EXCEPT ![c] = to]
-----------------------------------------------------------------------------
(* The program fills in a Config and registers it, or removes one. *)

SetProjectId(p) ==
    /\ Event
    /\ draft' = [draft EXCEPT !.project = p]
    /\ UNCHANGED <<registry, seen>>

SetRegion(l) ==
    /\ Event
    /\ draft' = [draft EXCEPT !.location = l]
    /\ UNCHANGED <<registry, seen>>

(* AddOption, and the setters for credentials, endpoint, agent, quota       *)
(* project and scopes, which append the option they build.                  *)
AddOption(o) ==
    /\ Event /\ Len(draft.options) < MaxOptions
    /\ draft' = [draft EXCEPT !.options = Append(@, o)]
    /\ UNCHANGED <<registry, seen>>

Store(k, cfg) ==
    /\ Event
    /\ registry' = [registry EXCEPT ![k] = cfg]
    /\ seen' = [c \in Callers |-> [seen[c] EXCEPT ![k] = @ \union {cfg}]]

Register(k) == Store(k, draft) /\ draft' = EmptyConfig

Unregister(k) ==
    /\ registry[k] # NoConfig
    /\ Store(k, NoConfig)
    /\ UNCHANGED draft

ProgramConfigures ==
    /\ \/ \E p \in Projects : SetProjectId(p)
       \/ \E l \in Locations : SetRegion(l)
       \/ \E o \in Options : AddOption(o)
       \/ \E k \in RegistryKeys : Register(k) \/ Unregister(k)
    /\ UNCHANGED <<pc, request, found, client>>
-----------------------------------------------------------------------------
(* GetConfig. *)

Get(k) == IF k \in RegistryKeys THEN registry[k] ELSE NoConfig

HostKey(u) == <<u.host>>
PathKey(u) == <<u.host, u.path>>
NameKey(r) == <<r.name>>

(* Where the client constructor of each service goes first: to GetConfig,   *)
(* to one lookup by name, or to no lookup at all.                           *)
FirstLine(r) ==
    CASE r.service \in {"pubsub", "gs", "own"} ->
            IF r.url = NilURL THEN "name" ELSE "host"
      [] r.service = "genai" ->
            IF (r.project = "" \/ r.location = "") /\ r.apiKey = ""
            THEN "name" ELSE "opening"
      [] r.service = "secrets" -> "opening"

(* parseURL lets only URLs with a bucket through. *)
ValidURL(r) ==
    r.service = "gs" => r.url # NilURL /\ r.url.scheme = "gs" /\ r.url.host # ""

Ask(c, r) ==
    /\ Event
    /\ IF ValidURL(r) THEN Goto(c, "idle", FirstLine(r))
                      ELSE Goto(c, "idle", "failed")
    /\ request' = [request EXCEPT ![c] = r]
    /\ seen' = [seen EXCEPT ![c] = [k \in RegistryKeys |-> {registry[k]}]]
    /\ UNCHANGED <<registry, draft, found, client>>

(* The goroutine has done with what it asked for. *)
Forget(c) ==
    /\ pc' = [pc EXCEPT ![c] = "idle"]
    /\ request' = [request EXCEPT ![c] = NoRequest]
    /\ found' = [found EXCEPT ![c] = NoConfig]
    /\ client' = [client EXCEPT ![c] = NoClient]
    /\ seen' = [seen EXCEPT ![c] = [k \in RegistryKeys |-> {}]]
    /\ UNCHANGED configVars

(* One lookup: a Config ends the search, nil leads to the next key. *)
LookUp(c, here, k, next) ==
    /\ Goto(c, here, IF Get(k) # NoConfig THEN "opening" ELSE next)
    /\ found' = [found EXCEPT ![c] = Get(k)]
    /\ UNCHANGED <<configVars, request, client, seen>>

(* Mutant: a URL without a path is not looked up by the service's name. *)
MutantLookUpHost(c) ==
    LET u == request[c].url IN
    LookUp(c, "host", HostKey(u), IF u.path # "" THEN "path" ELSE "opening")

LookUpHost(c) ==
    LET u == request[c].url IN
    LookUp(c, "host", HostKey(u), IF u.path # "" THEN "path" ELSE "name")

LookUpPath(c) == LookUp(c, "path", PathKey(request[c].url), "name")

LookUpName(c) == LookUp(c, "name", NameKey(request[c]), "opening")
-----------------------------------------------------------------------------
(* The clients. *)

Opened(c, cl) ==
    /\ Goto(c, "opening", "opened")
    /\ client' = [client EXCEPT ![c] = cl]
    /\ UNCHANGED <<configVars, request, found, seen>>

(* getPubSubClient: a Config with a project is required. *)
OpenPubSub(c) ==
    /\ request[c].service = "pubsub"
    /\ found[c] # NoConfig /\ found[c].project # ""
    /\ Opened(c, [state |-> "open", project |-> found[c].project,
                  options |-> found[c].options])

(* getStorageClient: without a Config, the default credentials. *)
OpenStorage(c) ==
    /\ request[c].service = "gs"
    /\ Opened(c, [state |-> "open",
                  options |-> IF found[c] = NoConfig THEN <<>> ELSE found[c].options])

Either(explicit, registered) == IF explicit # "" THEN explicit ELSE registered

(* NewGCPProvider: what the caller set explicitly comes before the Config,  *)
(* and the options of a Config are not used.                                *)
OpenGenai(c) ==
    LET r == request[c]
        cfg == IF found[c] = NoConfig THEN EmptyConfig ELSE found[c]
    IN
    /\ r.service = "genai"
    /\ Opened(c, [state |-> "open",
                  project |-> Either(r.project, cfg.project),
                  location |-> Either(r.location, cfg.location),
                  backend |-> IF r.backend # "" THEN r.backend
                              ELSE IF r.apiKey # "" THEN "GeminiAPI" ELSE "VertexAI"])

(* NewGCPSecretStore: the project comes from the caller alone. *)
OpenSecrets(c) ==
    /\ request[c].service = "secrets" /\ request[c].project # ""
    /\ Opened(c, [state |-> "open", project |-> request[c].project])

(* A program that calls GetConfig for itself. *)
UseConfig(c) ==
    /\ request[c].service = "own"
    /\ Opened(c, NoClient)

(* No project where one is required, or the client library says no. *)
OpenFails(c) ==
    /\ request[c].service # "own"
    /\ Goto(c, "opening", "failed")
    /\ UNCHANGED <<configVars, openVars>>

ResolveStep(c) ==
    \/ LookUpHost(c) \/ LookUpPath(c) \/ LookUpName(c)
    \/ OpenPubSub(c) \/ OpenStorage(c) \/ OpenGenai(c) \/ OpenSecrets(c)
    \/ UseConfig(c) \/ OpenFails(c)
-----------------------------------------------------------------------------
ResolveLocations == {"idle", "host", "path", "name", "opening", "opened", "failed"}

PubSubClients(state) == [state : {state}, project : Projects, options : OptionLists]
StorageClients == [state : {"open"}, options : OptionLists]
Backends ==
    {"GeminiAPI", "VertexAI"}
        \union {r.backend : r \in {q \in Requests : q.service = "genai"}}
GenaiClients ==
    [state : {"open"}, project : STRING, location : STRING, backend : Backends]
SecretClients == [state : {"open"}, project : STRING]
Clients ==
    {NoClient} \union PubSubClients("open") \union PubSubClients("closed")
        \union StorageClients \union GenaiClients \union SecretClients

ConfigTypeOK ==
    /\ registry \in [RegistryKeys -> Configs \union {NoConfig}]
    /\ draft \in Configs
    /\ events \in 0..MaxEvents
    /\ request \in [Callers -> Requests \union {NoRequest}]
    /\ found \in [Callers -> Configs \union {NoConfig}]
    /\ client \in [Callers -> Clients]
    /\ seen \in [Callers -> [RegistryKeys -> SUBSET (Configs \union {NoConfig})]]

(* The keys GetConfig looks up for a request, in the order it prefers them. *)
KeysOf(r) ==
    CASE r.service \in {"pubsub", "gs", "own"} /\ r.url # NilURL ->
            IF r.url.path = "" THEN <<HostKey(r.url), NameKey(r)>>
            ELSE <<HostKey(r.url), PathKey(r.url), NameKey(r)>>
      [] OTHER -> <<NameKey(r)>>

SearchEnded(c) ==
    /\ request[c].service \in {"pubsub", "gs", "own"}
    /\ pc[c] = "opening"

(* What was registered under the i-th key of the request since it began. *)
Held(c, i) ==
    LET k == KeysOf(request[c])[i]
    IN  IF k \in RegistryKeys THEN seen[c][k] ELSE {NoConfig}

(* GetConfig does its lookups one by one while Configs come and go.  Still  *)
(* what it returns was registered under one of the URL's keys during the    *)
(* call, and a key that held a Config all the while is never passed over    *)
(* for nothing or for a key of lower priority.                              *)
LookupIsJustified ==
    \A c \in Callers : SearchEnded(c) =>
        LET keys == DOMAIN KeysOf(request[c]) IN
        /\ found[c] # NoConfig => \E i \in keys : found[c] \in Held(c, i)
        /\ \A i \in keys : NoConfig \notin Held(c, i) =>
              \E j \in 1..i : found[c] \in Held(c, j) \ {NoConfig}
=============================================================================
