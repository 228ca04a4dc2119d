---------------------------- MODULE StorageFile ----------------------------
(***************************************************************************)
(* Open files of src/gs/storagefile.go, used while other programs work on  *)
(* the same bucket (StorageTree): Read, Write, Seek, Close and             *)
(* AddProperty.                                                            *)
(*                                                                         *)
(* A program has a file once Create or Open has returned it.  The programs *)
(* make MaxCalls calls on their files that change something: a call that   *)
(* changes nothing, as it fails or is at the end, is no step.  The data of *)
(* an object is a sequence of pieces, a piece being what one Read returns  *)
(* or one Write takes.  The offset and the content type decide nothing and *)
(* are left out; closing a reader is taken to succeed.                     *)
(*                                                                         *)
(* External: a reader stays with the version of the object it was opened   *)
(* for; a writer's object is there when the writer is closed, and what it  *)
(* replaces is gone with its properties; an update merges the properties   *)
(* it is given into the object's or replaces them, as the transport has it.*)
(***************************************************************************)
EXTENDS StorageTree

CONSTANTS Written,   \* the pieces that are written
          MaxCalls   \* bound: the calls on files that change something

ASSUME WrittenAssumption == Written \subseteq Pieces
ASSUME MaxCallsAssumption == MaxCalls \in Nat

VARIABLES
    handle,     \* the file of each program: its reader, the bytes it buffers
    metadata,   \* the properties AddProperty has read, while it is running
    calls,      \* the calls made on files
    past,       \* history: what became of the data, see NoPast
    added,      \* history: the properties added that should still be there
    versions    \* history: the data every object ever had

handleVars == <<handle, metadata, calls, past>>
fileVars == <<vars, handleVars, added, versions>>

NoReader == [open |-> FALSE, data |-> <<>>, at |-> 0]
NewHandle == [reader |-> NoReader, buffer |-> <<>>]
NoMetadata == [busy |-> "", props |-> {}]

(* The pieces written that have not been uploaded, and those of them that  *)
(* a Close which returned nil has left behind; the pieces read since the   *)
(* reader was last dropped; the properties the object had when AddProperty *)
(* read it; and whether a Close has returned an error.                     *)
NoPast == [unsaved |-> <<>>, lost |-> <<>>, got |-> <<>>, seen |-> {},
           failed |-> FALSE]

Version(k, data) == [key |-> k, data |-> data]
DataIn(bucket) == {Version(k, bucket[k].data) : k \in DOMAIN bucket}

FileInit ==
    /\ Init
    /\ handle = [c \in Callers |-> NewHandle]
    /\ metadata = [c \in Callers |-> NoMetadata]
    /\ calls = 0
    /\ past = [c \in Callers |-> NoPast]
    /\ added = {}
    /\ versions = DataIn(objects)
-----------------------------------------------------------------------------
FileKey(c) == task[c].src
HasFile(c) == task[c].op \in {"Create", "Open"} /\ result[c] = "ok"

(* The file is used by one goroutine, as it has no lock. *)
Calls(c) ==
    /\ HasFile(c) /\ metadata[c].busy = ""
    /\ calls < MaxCalls /\ calls' = calls + 1
    /\ UNCHANGED <<stack, result>>

Remember(c, changes) == past' = [past EXCEPT ![c] = changes]
-----------------------------------------------------------------------------
(* The reader there is, or a new one for what the object is now. *)
ReaderOf(c) ==
    LET r == handle[c].reader IN
    IF r.open THEN r
    ELSE [NoReader EXCEPT !.open = TRUE, !.data = objects[FileKey(c)].data]

Read(c) ==
    LET r == ReaderOf(c)
        n == IF r.at < Len(r.data) THEN 1 ELSE 0
    IN
    /\ handle[c].reader.open \/ FileKey(c) \in DOMAIN objects
    /\ n = 1 \/ ~handle[c].reader.open
    /\ Calls(c)
    /\ handle' = [handle EXCEPT ![c].reader = [r EXCEPT !.at = @ + n]]
    /\ Remember(c, [past[c] EXCEPT
           !.got = @ \o SubSeq(r.data, r.at + 1, r.at + n)])
    /\ Reads /\ UNCHANGED metadata

Write(c, piece) ==
    /\ Calls(c)
    /\ handle' = [handle EXCEPT ![c].buffer = Append(@, piece)]
    /\ Remember(c, [past[c] EXCEPT !.unsaved = Append(@, piece)])
    /\ Reads /\ UNCHANGED metadata

(* Mutant: Seek resets the offset and keeps the reader. *)
MutantSeekStart(c) ==
    /\ handle[c].reader.open
    /\ Calls(c)
    /\ Remember(c, [past[c] EXCEPT !.got = <<>>])
    /\ Reads /\ UNCHANGED <<handle, metadata>>

(* Seek(0, io.SeekStart); every other Seek is refused. *)
SeekStart(c) ==
    /\ handle[c].reader.open
    /\ Calls(c)
    /\ handle' = [handle EXCEPT ![c].reader = NoReader]
    /\ Remember(c, [past[c] EXCEPT !.got = <<>>])
    /\ Reads /\ UNCHANGED metadata
-----------------------------------------------------------------------------
(* Close. *)

Flushed(c) == [data |-> handle[c].buffer, props |-> {}]

(* Nothing to flush. *)
CloseReader(c) ==
    /\ handle[c].buffer = <<>> /\ handle[c].reader.open
    /\ Calls(c)
    /\ handle' = [handle EXCEPT ![c].reader = NoReader]
    /\ Remember(c, [past[c] EXCEPT !.got = <<>>, !.lost = past[c].unsaved])
    /\ Reads /\ UNCHANGED metadata

(* The buffer is uploaded, and the reader closed. *)
Flush(c) ==
    /\ handle[c].buffer # <<>>
    /\ Calls(c)
    /\ Put(c, FileKey(c), Flushed(c))
    /\ handle' = [handle EXCEPT ![c] = NewHandle]
    /\ LET left == IF handle[c].buffer = past[c].unsaved THEN <<>>
                   ELSE past[c].unsaved
       IN Remember(c, [past[c] EXCEPT !.unsaved = left, !.lost = left, !.got = <<>>])
    /\ UNCHANGED metadata

(* io.Copy ends early: nothing is stored.  The buffer keeps what has not    *)
(* been drained from it, and the reader stays open.                         *)
CopyBreaksOff(c) ==
    /\ handle[c].buffer # <<>>
    /\ Calls(c)
    /\ \E n \in 1..Len(handle[c].buffer) :
          handle' = [handle EXCEPT ![c].buffer = SubSeq(@, n, Len(@))]
    /\ Remember(c, [past[c] EXCEPT !.failed = TRUE])
    /\ FaultyRead /\ UNCHANGED metadata

(* Mutant: the error of closing the writer is dropped. *)
MutantWriterFails(c) ==
    /\ handle[c].buffer # <<>>
    /\ Calls(c)
    /\ FaultyPut(c, FileKey(c), Flushed(c))
    /\ handle' = [handle EXCEPT ![c] = NewHandle]
    /\ Remember(c, [past[c] EXCEPT !.lost = past[c].unsaved, !.got = <<>>])
    /\ UNCHANGED metadata

(* Closing the writer fails.  The buffer and the reader are dropped. *)
WriterFails(c) ==
    /\ handle[c].buffer # <<>>
    /\ Calls(c)
    /\ FaultyPut(c, FileKey(c), Flushed(c))
    /\ handle' = [handle EXCEPT ![c] = NewHandle]
    /\ Remember(c, [past[c] EXCEPT !.failed = TRUE, !.got = <<>>])
    /\ UNCHANGED metadata
-----------------------------------------------------------------------------
(* AddProperty, two requests. *)

(* Mutant: the object gets the new property alone. *)
MutantWithProperty(k, name) == {name}

(* The map AddProperty makes of the properties it has read. *)
WithProperty(k, name) == objects[k].props \union {name}

ReadMetadata(c, name) ==
    /\ FileKey(c) \in DOMAIN objects
    /\ Calls(c)
    /\ metadata' = [metadata EXCEPT ![c] =
                      [busy |-> name, props |-> WithProperty(FileKey(c), name)]]
    /\ Remember(c, [past[c] EXCEPT !.seen = objects[FileKey(c)].props])
    /\ Reads /\ UNCHANGED handle

(* The object with the properties of an update, merged or in their place. *)
Updated(k, props) ==
    {[objects[k] EXCEPT !.props = p] : p \in {props, objects[k].props \union props}}

(* An update may undo the additions its AddProperty had not seen. *)
Seen(c) == {a \in added : a.key = FileKey(c) => a.name \in past[c].seen}
Addition(c) == [key |-> FileKey(c), name |-> metadata[c].busy]

UpdateMetadata(c) ==
    LET k == FileKey(c) IN
    /\ metadata[c].busy # ""
    /\ metadata' = [metadata EXCEPT ![c] = NoMetadata]
    /\ Remember(c, [past[c] EXCEPT !.seen = {}])
    /\ \/ /\ k \in DOMAIN objects
          /\ \E o \in Updated(k, metadata[c].props) : Put(c, k, o)
          /\ added' = Seen(c) \union {Addition(c)}
       \/ /\ k \in DOMAIN objects
          /\ \E o \in Updated(k, metadata[c].props) : FaultyPut(c, k, o)
          /\ added' = Seen(c)
       \/ k \notin DOMAIN objects /\ Reads /\ UNCHANGED added
    /\ UNCHANGED <<stack, result, handle, calls>>

GetProperty(k, name) ==
    IF k \notin DOMAIN objects THEN "no object"
    ELSE IF name \in objects[k].props THEN "found" ELSE "not found"
-----------------------------------------------------------------------------
FileStep(c) ==
    \/ Read(c) \/ SeekStart(c) \/ (\E piece \in Written : Write(c, piece))
    \/ CloseReader(c) \/ Flush(c) \/ CopyBreaksOff(c) \/ WriterFails(c)
    \/ \E name \in Names : ReadMetadata(c, name)

TreeStep(c) == CallerNext(c) /\ UNCHANGED handleVars

(* An object that is deleted or written anew has its properties no more. *)
Stands == added' = {a \in added : ~Differs(a.key)}

FileNext ==
    \/ Finished /\ UNCHANGED <<handleVars, added, versions>>
    \/ /\ \E c \in Callers :
             ((TreeStep(c) \/ FileStep(c)) /\ Stands) \/ UpdateMetadata(c)
       /\ versions' = versions \union DataIn(objects')

FileSpec == FileInit /\ [][FileNext]_fileVars
-----------------------------------------------------------------------------
Readers == [open : BOOLEAN, data : Seq(Pieces), at : Nat]
Pasts == [unsaved : Seq(Pieces), lost : Seq(Pieces), got : Seq(Pieces),
          seen : SUBSET Names, failed : BOOLEAN]

FileTypeOK ==
    /\ TypeOK
    /\ handle \in [Callers -> [reader : Readers, buffer : Seq(Pieces)]]
    /\ metadata \in [Callers -> [busy : Names \union {""}, props : SUBSET Names]]
    /\ past \in [Callers -> Pasts]
    /\ calls \in 0..MaxCalls
    /\ \A c \in Callers :
          ~HasFile(c) => handle[c] = NewHandle /\ metadata[c] = NoMetadata
    /\ \A c \in Callers : handle[c].reader.at <= Len(handle[c].reader.data)
    /\ added \subseteq [key : Keys, name : Names]
    /\ versions \subseteq [key : Keys, data : Seq(Pieces)]

(* As long as no Close of a file has returned an error, each Close that     *)
(* returned nil has uploaded all that was written since the one before, in  *)
(* order, and nothing else (l.70-99).  After an error a second Close may    *)
(* return nil with the data lost (l.88), or with only the end of it         *)
(* uploaded (l.82-86).                                                      *)
CloseSavesWrites ==
    \A c \in Callers : past[c].failed \/ past[c].lost = <<>>

(* What a program reads from a file, since it last sought to the start or   *)
(* closed it, is the beginning of one version of the object, while others   *)
(* overwrite, move and delete it, and when the program itself flushes its   *)
(* writes in between (l.31-44, l.57-68, l.91-97).                           *)
ReadsOneVersion ==
    \A c \in Callers :
        past[c].got # <<>> => \E v \in versions :
            v.key = FileKey(c) /\ IsPrefix(past[c].got, v.data)

(* A property that AddProperty has reported stored is found, whichever      *)
(* program added it and whatever any of them adds to the object afterwards, *)
(* through whichever file, also when such an addition fails: an addition   *)
(* never cancels one that had ended before it began (l.251-276).  It does  *)
(* not outlive the object: a file closed with writes in its buffer, an     *)
(* overwrite or a copy makes the object anew, without it (l.79-87); and of *)
(* two additions that overlap, the later update may undo the earlier one,  *)
(* as it makes no condition on what it has read (l.257-269).               *)
PropertiesAccumulate ==
    \A a \in added : GetProperty(a.key, a.name) = "found"

Steps(c) ==
    <<stack[c], handle[c], metadata[c]>>' # <<stack[c], handle[c], metadata[c]>>

(* No call reaches outside its tree, however deep the recursion, whatever   *)
(* fails, and whatever others do meanwhile.  What it deletes is the source  *)
(* or lies under it: a neighbour whose name merely begins like the          *)
(* directory's stays.  What a Copy or Move writes is the copy of an object  *)
(* of the source's tree, at that object's own place: the destination, with  *)
(* what remains of the key when the source's is trimmed from it - as text,  *)
(* so that from a/ to d the file a/f goes to df (storagefile.go l.103-106,  *)
(* l.154-180, storagefs.go l.75-78, l.163-187, l.362-372).                  *)
OnlyInside ==
    [][\A k \in DOMAIN objects \union DOMAIN objects' :
          Differs(k) => \E c \in Callers :
              /\ Steps(c)
              /\ IF k \in DOMAIN objects'
                 THEN IsCopy(task[c], k) \/ MayMake(task[c], k)
                 ELSE MayDelete(task[c], k)]_fileVars
==============================================================================
