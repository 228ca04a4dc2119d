----------------------------- MODULE StorageTree -----------------------------
(***************************************************************************)
(* The operations of src/gs on trees of objects: Copy, Move, Delete and    *)
(* DeleteMatching of StorageFS, DeleteAll, ListAll and Info of             *)
(* StorageFile, and the operations that make one object, Create and        *)
(* MkdirAll, called by several programs on one bucket.  Open makes no      *)
(* request; StorageFile.tla adds the calls on open files.                  *)
(*                                                                         *)
(* Every request to Cloud Storage is one step, so calls interleave between *)
(* their requests.  A recursive call is a frame on the caller's stack.  A  *)
(* key is the sequence of its names and slashes; names may stand next to   *)
(* each other, as prefixes are compared and trimmed as text.               *)
(*                                                                         *)
(* External: Cloud Storage, a map from keys to objects that lists keys in  *)
(* order, whose requests may fail, with or without effect (Faults times).  *)
(***************************************************************************)
EXTENDS Naturals, FiniteSets, SequencesExt

CONSTANTS Callers,
          Tokens,     \* the names keys are made of, and "/"
          Order,      \* the tokens, in the order of their text
          Buckets,    \* the possible contents of the bucket at first
          Tasks,      \* the calls: [op, src, dst]
          Matching,   \* the keys the filter of DeleteMatching lets pass
          Pieces,     \* what the data of an object is made of
          Names,      \* the names of the properties an object may have
          Faults      \* bound: the requests that fail without a reason

ASSUME SlashAssumption == "/" \in Tokens
ASSUME OrderAssumption ==
    Order \in Seq(Tokens) /\ \A t \in Tokens : \E i \in DOMAIN Order : Order[i] = t
ASSUME FaultsAssumption == Faults \in Nat

Keys == Seq(Tokens)
Contents == [data : Seq(Pieces), props : SUBSET Names]
IsBucket(b) ==
    /\ DOMAIN b \in SUBSET Keys /\ IsFiniteSet(DOMAIN b)
    /\ b \in [DOMAIN b -> Contents]
Operations == {"Copy", "Move", "Delete", "DeleteAll", "DeleteMatching", "Create",
               "MkdirAll", "Open"}

ASSUME BucketsAssumption == \A b \in Buckets : IsBucket(b)
ASSUME TasksAssumption == Tasks \subseteq [op : Operations, src : Keys, dst : Keys]

VARIABLES
    objects,   \* Cloud Storage: every object's data and properties, by key
    task,      \* the call each program makes, NoTask before it begins
    stack,     \* its frames, the innermost last
    result,    \* how it ended: "none" as long as it has not
    faults,    \* the requests that have failed without a reason
    started,   \* history: the objects when the call began
    touched    \* history: the keys others have changed since then

callVars == <<task, started>>
vars == <<objects, task, stack, result, faults, started, touched>>

NoTask == [op |-> "None", src |-> <<>>, dst |-> <<>>]
Empty == [data |-> <<>>, props |-> {}]   \* an object just created
Init ==
    /\ objects \in Buckets
    /\ task = [c \in Callers |-> NoTask]
    /\ stack = [c \in Callers |-> <<>>]
    /\ result = [c \in Callers |-> "none"]
    /\ faults = 0
    /\ started = [c \in Callers |-> [k \in {} |-> Empty]]
    /\ touched = [c \in Callers |-> {}]
-----------------------------------------------------------------------------
(* Keys. *)

IsDirKey(k) == k = <<>> \/ Last(k) = "/"
WithSlash(k) == IF IsDirKey(k) THEN k ELSE Append(k, "/")

(* MkdirAll gives the root of the bucket a slash as well. *)
MarkerKey(k) == IF k = <<>> THEN <<"/">> ELSE WithSlash(k)

(* The objects of a bucket a query for the prefix of k finds. *)
Under(bucket, k) == {j \in DOMAIN bucket : IsPrefix(WithSlash(k), j)}

Rank(t) == CHOOSE i \in DOMAIN Order : Order[i] = t
Precedes(j, k) ==
    \/ IsStrictPrefix(j, k)
    \/ \E i \in DOMAIN j \intersect DOMAIN k :
          /\ SubSeq(j, 1, i - 1) = SubSeq(k, 1, i - 1)
          /\ Rank(j[i]) < Rank(k[i])
InOrder(keys) ==
    [i \in 1..Cardinality(keys) |->
        CHOOSE k \in keys : Cardinality({j \in keys : Precedes(j, k)}) = i - 1]

(* Mutant: the prefix is taken as it stands. *)
MutantListPrefix(k) ==
    InOrder({j \in DOMAIN objects : IsPrefix(k, j)} \ {k})

(* Everything under the prefix, at every depth, but not itself; ListAll, and *)
(* the Walk of DeleteMatching, which passes on what its filter lets pass.   *)
Children(k) == Under(objects, k) \ {k, WithSlash(k)}
ListAll(k) == InOrder(Children(k))
Walk(k) == InOrder(Children(k) \intersect Matching)

(* Mutant: a child is copied under its last name alone. *)
MutantBaseName(f, k) == Append(f.to, Last(k))

(* Where Copy puts a key of the tree of f: the key of the source is trimmed *)
(* from it as a text, and what remains is appended to the destination.      *)
DstKey(f, k) == f.to \o SubSeq(k, Len(f.key) + 1, Len(k))
-----------------------------------------------------------------------------
(* Frames. *)

(* Info answers at once for a key that ends in a slash. *)
AskInfo(k) == IF IsDirKey(k) THEN "dir" ELSE "attrs"

CallCopy(src, dst) ==
    [fn |-> "Copy", pc |-> AskInfo(src), key |-> src, to |-> dst,
     todo |-> <<>>, listed |-> FALSE]
CallDelete(k) == [CallCopy(k, <<>>) EXCEPT !.fn = "Delete"]
CallDeleteAll(k) == [CallDelete(k) EXCEPT !.pc = "dir"]
CallOne(fn, pc, k) == [CallCopy(k, <<>>) EXCEPT !.fn = fn, !.pc = pc]

(* The key Info is asked about: the child at hand once ListAll has answered. *)
Subject(f) == IF f.listed THEN Head(f.todo) ELSE f.key

(* The head of the loop over the children. *)
Loop(f) ==
    [f EXCEPT !.pc = IF f.todo = <<>> THEN "end"
                     ELSE IF f.fn = "DeleteMatching" THEN "file"
                     ELSE AskInfo(Head(f.todo))]

(* Mutant: what Info said of a child is taken to hold for the next. *)
MutantKeepAnswer(f) == [f EXCEPT !.todo = Tail(@)]

NextChild(f) == Loop([f EXCEPT !.todo = Tail(@)])

Running(c) == stack[c] # <<>>
Top(c) == Last(stack[c])
At(c, fns, pcs) == Running(c) /\ Top(c).fn \in fns /\ Top(c).pc \in pcs

(* The innermost frame goes on as f. *)
GoOn(c, f) ==
    /\ stack' = [stack EXCEPT ![c] = Append(Front(@), f)]
    /\ UNCHANGED result

(* Mutant: Move deletes its source whether Copy ended well or not. *)
MutantFinishMove(c) ==
    IF task[c].op = "Move" /\ Top(c).fn = "Copy"
    THEN /\ stack' = [stack EXCEPT ![c] = <<CallDelete(task[c].src)>>]
         /\ UNCHANGED result
    ELSE /\ stack' = [stack EXCEPT ![c] = <<>>]
         /\ result' = [result EXCEPT ![c] = "error"]

(* An error ends every call of the stack. *)
Fail(c) ==
    /\ stack' = [stack EXCEPT ![c] = <<>>]
    /\ result' = [result EXCEPT ![c] = "error"]

(* The innermost call returns nil: to the loop that made it, to Move, which *)
(* goes on with Delete, or to the caller.                                   *)
Return(c) ==
    IF Len(stack[c]) > 1
    THEN stack' = [stack EXCEPT ![c] = Front(@)] /\ UNCHANGED result
    ELSE IF task[c].op = "Move" /\ Top(c).fn = "Copy"
    THEN /\ stack' = [stack EXCEPT ![c] = <<CallDelete(task[c].src)>>]
         /\ UNCHANGED result
    ELSE /\ stack' = [stack EXCEPT ![c] = <<>>]
         /\ result' = [result EXCEPT ![c] = "ok"]
-----------------------------------------------------------------------------
(* Requests. *)

Touch(c, k) ==
    touched' = [d \in Callers |->
                  IF d # c /\ task[d] # NoTask THEN touched[d] \union {k}
                  ELSE touched[d]]

Store(c, k, content) ==
    /\ objects' = [j \in DOMAIN objects \union {k} |->
                      IF j = k THEN content ELSE objects[j]]
    /\ Touch(c, k)

Put(c, k, content) == Store(c, k, content) /\ UNCHANGED <<faults, callVars>>

Erase(c, k) ==
    /\ k \in DOMAIN objects
    /\ objects' = [j \in DOMAIN objects \ {k} |-> objects[j]]
    /\ Touch(c, k)
    /\ UNCHANGED <<faults, callVars>>

Reads == UNCHANGED <<objects, faults, touched, callVars>>

(* A request that would have worked fails all the same. *)
Fault == faults < Faults /\ faults' = faults + 1

FaultyRead == Fault /\ UNCHANGED <<objects, touched, callVars>>

(* The reply is an error, whether the object was stored or not. *)
FaultyPut(c, k, content) ==
    /\ Fault
    /\ Store(c, k, content) \/ UNCHANGED <<objects, touched>>
    /\ UNCHANGED callVars
-----------------------------------------------------------------------------
(* Info: the attributes of the object, and if there is any error, whether   *)
(* something lies under the key.                                            *)

Attrs(c) ==
    /\ At(c, {"Copy", "Delete"}, {"attrs"})
    /\ \/ /\ Subject(Top(c)) \in DOMAIN objects
          /\ GoOn(c, [Top(c) EXCEPT !.pc = "file"])
          /\ Reads
       \/ /\ Subject(Top(c)) \notin DOMAIN objects
          /\ GoOn(c, [Top(c) EXCEPT !.pc = "probe"])
          /\ Reads
       \/ GoOn(c, [Top(c) EXCEPT !.pc = "probe"]) /\ FaultyRead

Probe(c) ==
    /\ At(c, {"Copy", "Delete"}, {"probe"})
    /\ \/ /\ Under(objects, Subject(Top(c))) # {}
          /\ GoOn(c, [Top(c) EXCEPT !.pc = "dir"])
          /\ Reads
       \/ /\ Under(objects, Subject(Top(c))) = {}
          /\ GoOn(c, [Top(c) EXCEPT !.pc = "none"])
          /\ Reads
       \/ GoOn(c, [Top(c) EXCEPT !.pc = "none"]) /\ FaultyRead

(* ListAll, or the Walk of DeleteMatching, at the start of a loop. *)
ListChildren(c) ==
    LET f == Top(c)
        found == IF f.fn = "DeleteMatching" THEN Walk(f.key) ELSE ListAll(f.key)
    IN
    /\ At(c, {"Copy", "Delete", "DeleteMatching"}, {"dir"}) /\ ~f.listed
    /\ \/ GoOn(c, Loop([f EXCEPT !.todo = found, !.listed = TRUE])) /\ Reads
       \/ Fail(c) /\ FaultyRead
-----------------------------------------------------------------------------
(* Copy. *)

(* copySingleObject, of a file or of what Info could not tell. *)
CopySingleObject(c) ==
    LET f == Top(c)
        k == Subject(f)
        to == IF f.listed THEN DstKey(f, k) ELSE f.to
    IN
    /\ At(c, {"Copy"}, {"file", "none"})
    /\ f.pc = "none" => ~f.listed
    /\ \/ /\ k \in DOMAIN objects
          /\ Put(c, to, objects[k])
          /\ IF f.listed THEN GoOn(c, NextChild(f)) ELSE Return(c)
       \/ k \notin DOMAIN objects /\ Fail(c) /\ Reads
       \/ /\ k \in DOMAIN objects
          /\ FaultyPut(c, to, objects[k]) /\ Fail(c)

(* A child that Info reports as a directory: Copy calls itself. *)
CopyChildDir(c) ==
    LET f == Top(c) IN
    /\ At(c, {"Copy"}, {"dir"}) /\ f.listed
    /\ stack' = [stack EXCEPT ![c] =
          Front(@) \o <<NextChild(f),
                        CallCopy(Head(f.todo), DstKey(f, Head(f.todo)))>>]
    /\ Reads /\ UNCHANGED result

(* A child that Info reports an error for. *)
CopyChildFails(c) ==
    At(c, {"Copy"}, {"none"}) /\ Top(c).listed /\ Fail(c) /\ Reads

LoopEnds(c) == At(c, {"Copy", "DeleteMatching"}, {"end"}) /\ Return(c) /\ Reads
-----------------------------------------------------------------------------
(* Delete and DeleteAll. *)

DeleteFails(c, k) ==
    \/ k \notin DOMAIN objects /\ Fail(c) /\ Reads
    \/ /\ k \in DOMAIN objects /\ Fault /\ Fail(c)
       /\ \/ UNCHANGED <<objects, touched>>
          \/ /\ objects' = [j \in DOMAIN objects \ {k} |-> objects[j]]
             /\ Touch(c, k)
       /\ UNCHANGED callVars

(* The file itself, or a child that is no directory. *)
DeleteObject(c) ==
    LET f == Top(c)
        k == Subject(f)
    IN
    /\ At(c, {"Delete", "DeleteMatching"}, {"file", "none"})
    /\ \/ /\ Erase(c, k)
          /\ IF f.listed THEN GoOn(c, NextChild(f)) ELSE Return(c)
       \/ DeleteFails(c, k)

(* Mutant: DeleteAll skips the children that are directories. *)
MutantSkipDirs(c) ==
    LET f == Top(c) IN
    /\ At(c, {"Delete"}, {"dir"}) /\ f.listed
    /\ GoOn(c, NextChild(f))
    /\ Reads

(* A child that is a directory: DeleteAll calls itself. *)
DeleteChildDir(c) ==
    LET f == Top(c) IN
    /\ At(c, {"Delete"}, {"dir"}) /\ f.listed
    /\ stack' = [stack EXCEPT ![c] =
          Front(@) \o <<NextChild(f), CallDeleteAll(Head(f.todo))>>]
    /\ Reads /\ UNCHANGED result

(* The marker of the prefix, after its children. *)
DeleteSelf(c) ==
    /\ At(c, {"Delete"}, {"end"})
    /\ \/ Erase(c, Top(c).key) /\ Return(c)
       \/ DeleteFails(c, Top(c).key)
-----------------------------------------------------------------------------
(* The operations on one object. *)

CreateChecks(c) ==
    LET f == Top(c) IN
    /\ At(c, {"Create"}, {"attrs"})
    /\ \/ f.key \in DOMAIN objects /\ Fail(c) /\ Reads
       \/ f.key \notin DOMAIN objects /\ GoOn(c, [f EXCEPT !.pc = "put"]) /\ Reads
       \/ GoOn(c, [f EXCEPT !.pc = "put"]) /\ FaultyRead

(* The writer is closed: the object is there, whatever was there before. *)
WriteObject(c) ==
    LET f == Top(c) IN
    /\ At(c, {"Create", "MkdirAll"}, {"put"})
    /\ \/ Put(c, f.key, Empty) /\ Return(c)
       \/ FaultyPut(c, f.key, Empty) /\ Fail(c)
-----------------------------------------------------------------------------
FirstFrame(t) ==
    CASE t.op \in {"Copy", "Move"}  -> CallCopy(t.src, t.dst)
      [] t.op = "Delete"            -> CallDelete(t.src)
      [] t.op = "DeleteAll"         -> CallDeleteAll(t.src)
      [] t.op = "DeleteMatching"    -> CallOne("DeleteMatching", "dir", t.src)
      [] t.op = "Create"            -> CallOne("Create", "attrs", t.src)
      [] t.op = "MkdirAll"          -> CallOne("MkdirAll", "put", MarkerKey(t.src))

Begin(c, t) ==
    /\ task[c] = NoTask
    /\ task' = [task EXCEPT ![c] = t]
    /\ IF t.op = "Open"
       THEN result' = [result EXCEPT ![c] = "ok"] /\ UNCHANGED stack
       ELSE stack' = [stack EXCEPT ![c] = <<FirstFrame(t)>>] /\ UNCHANGED result
    /\ started' = [started EXCEPT ![c] = objects]
    /\ UNCHANGED <<objects, faults, touched>>

Finished == (\A c \in Callers : result[c] # "none") /\ UNCHANGED vars

InfoStep(c) == Attrs(c) \/ Probe(c) \/ ListChildren(c)
CopyStep(c) ==
    CopySingleObject(c) \/ CopyChildDir(c) \/ CopyChildFails(c) \/ LoopEnds(c)
DeleteStep(c) == DeleteObject(c) \/ DeleteChildDir(c) \/ DeleteSelf(c)
WriteStep(c) == CreateChecks(c) \/ WriteObject(c)

CallerNext(c) ==
    \/ \E t \in Tasks : Begin(c, t)
    \/ InfoStep(c) \/ CopyStep(c) \/ DeleteStep(c) \/ WriteStep(c)

Next == Finished \/ \E c \in Callers : CallerNext(c)

Spec == Init /\ [][Next]_vars
-----------------------------------------------------------------------------
Frames == [fn : {"Copy", "Delete", "DeleteMatching", "Create", "MkdirAll"},
           pc : {"attrs", "probe", "file", "dir", "none", "end", "put"},
           key : Keys, to : Keys, todo : Seq(Keys), listed : BOOLEAN]

TypeOK ==
    /\ IsBucket(objects)
    /\ task \in [Callers -> Tasks \union {NoTask}]
    /\ stack \in [Callers -> Seq(Frames)]
    /\ \A c \in Callers : \A i \in DOMAIN stack[c] :
          stack[c][i].listed /\ stack[c][i].todo = <<>> => stack[c][i].pc = "end"
    /\ result \in [Callers -> {"none", "ok", "error"}]
    /\ faults \in 0..Faults
    /\ DOMAIN started = Callers /\ \A c \in Callers : IsBucket(started[c])
    /\ touched \in [Callers -> SUBSET Keys]

(* The tree of a key when the call began. *)
Tree(c, k) == Under(started[c], k) \union ({k} \intersect DOMAIN started[c])
Files(c, k) == {j \in Tree(c, k) : ~IsDirKey(j)}

(* The keys that hold an object when the call begins, or for others later. *)
Known(c) == DOMAIN started[c] \union touched[c]

(* No name is that of a file and of a directory, neither when the call     *)
(* began nor by what others do: Cloud Storage allows it, and Info then      *)
(* tells the one or the other, depending on which of its requests fail.     *)
Undisputed(c) ==
    \A j, k \in Known(c) : ~IsDirKey(j) => ~IsPrefix(WithSlash(j), k)

Image(t, k) == t.dst \o SubSeq(k, Len(t.src) + 1, Len(k))

(* Neither place lies in the other. *)
Apart(t) ==
    LET from == WithSlash(t.src)
        to == Image(t, from)
    IN ~IsPrefix(from, to) /\ ~IsPrefix(to, from)

Unchanged(c, k) == k \in DOMAIN objects /\ objects[k] = started[c][k]
Copied(c, k) ==
    LET to == Image(task[c], k) IN
    to \in DOMAIN objects /\ objects[to] = started[c][k]
LeftAlone(c, k) == {k, Image(task[c], k)} \intersect touched[c] = {}

(* A Move never loses a file: at every moment, wherever it is interrupted   *)
(* by an error and whatever others do to other keys, each file of its       *)
(* source is where it was or where it belongs (storagefs.go l.338-343).     *)
NothingLost ==
    \A c \in Callers :
        task[c].op = "Move" /\ Apart(task[c]) /\ Undisputed(c) =>
            \A k \in Files(c, task[c].src) :
                LeftAlone(c, k) => Unchanged(c, k) \/ Copied(c, k)

(* A Copy that reports success has copied every file of the tree, also      *)
(* where the listing shows nested markers, whose files Copy visits twice    *)
(* (l.129-192).                                                             *)
CopyIsComplete ==
    \A c \in Callers :
        /\ task[c].op = "Copy" /\ result[c] = "ok"
        /\ Apart(task[c]) /\ Undisputed(c)
        => \A k \in Files(c, task[c].src) : LeftAlone(c, k) => Copied(c, k)

(* A Delete or DeleteAll that reports success leaves nothing of the tree:   *)
(* a child it overlooks, or takes for something else after a failed         *)
(* request, makes it report an error (storagefile.go l.154-180).            *)
DeletedIsGone ==
    \A c \in Callers :
        /\ task[c].op \in {"Delete", "DeleteAll", "Move"} /\ result[c] = "ok"
        /\ Apart(task[c]) \/ task[c].op # "Move"
        /\ Undisputed(c)
        => \A k \in Tree(c, task[c].src) \ touched[c] : k \notin DOMAIN objects

(* What a call may delete, copy to k, and write at k otherwise. *)
Inside(t, k) == k = t.src \/ IsPrefix(WithSlash(t.src), k)
MayDelete(t, k) ==
    \/ t.op \in {"Delete", "DeleteAll", "Move"} /\ Inside(t, k)
    \/ t.op = "DeleteMatching" /\ IsPrefix(WithSlash(t.src), k) /\ k \in Matching
IsCopy(t, k) ==
    /\ t.op \in {"Copy", "Move"}
    /\ \E j \in DOMAIN objects :
          Inside(t, j) /\ k = Image(t, j) /\ objects'[k] = objects[j]
MayMake(t, k) ==
    \/ t.op \in {"Create", "Open"} /\ k = t.src
    \/ t.op = "MkdirAll" /\ k = MarkerKey(t.src)

Differs(k) ==
    \/ (k \in DOMAIN objects) # (k \in DOMAIN objects')
    \/ k \in DOMAIN objects /\ objects'[k] # objects[k]

(* Deleting a directory deletes all its contents, says the documentation.   *)
DeleteAllDeletesAll ==
    \A c \in Callers :
        /\ task[c].op \in {"Delete", "DeleteAll"} /\ result[c] # "none"
        /\ IsDirKey(task[c].src) /\ task[c].src \in DOMAIN started[c]
        /\ faults = 0 /\ touched[c] = {}
        => Under(objects, task[c].src) = {}
=============================================================================
