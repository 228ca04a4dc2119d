--------------------------- MODULE StorageFileProofs ---------------------------
(***************************************************************************)
(* Proofs about StorageFile, for any contents of the bucket, any programs   *)
(* and any number of failing requests: what a file has read is a beginning  *)
(* of one version of its object; a Close that returned nil has left nothing *)
(* behind as long as none has failed; a property that was added is found as *)
(* long as its object stands, unless an addition that overlapped it undid   *)
(* it; and no call, on trees or on files, reaches outside its tree.        *)
(***************************************************************************)
EXTENDS StorageFile, StorageTreeProofs

Handles == [reader : Readers, buffer : Seq(Pieces)]
Updates == [busy : Names \union {""}, props : SUBSET Names]

(* What was written and is not uploaded is what the buffer holds. *)
BufferOK(c) ==
    past[c].failed \/ (past[c].lost = <<>> /\ past[c].unsaved = handle[c].buffer)

(* An open reader stays with one version, and has handed out the pieces up *)
(* to its position.                                                        *)
ReaderOK(c) ==
    /\ handle[c].reader.at <= Len(handle[c].reader.data)
    /\ handle[c].reader.open =>
          /\ Version(FileKey(c), handle[c].reader.data) \in versions
          /\ past[c].got = SubSeq(handle[c].reader.data, 1, handle[c].reader.at)
    /\ ~handle[c].reader.open => past[c].got = <<>>

(* An addition that is running carries the properties it has read and the  *)
(* new one.                                                                *)
PropertiesOK(c) ==
    metadata[c].busy # "" =>
        past[c].seen \union {metadata[c].busy} \subseteq metadata[c].props

AllFound(adds, bucket) ==
    \A a \in adds : a.key \in DOMAIN bucket /\ a.name \in bucket[a.key].props

NoFileYet(c) ==
    handle[c] = NewHandle /\ metadata[c] = NoMetadata /\ past[c] = NoPast

FileOK(c) ==
    /\ BufferOK(c) /\ ReaderOK(c) /\ PropertiesOK(c)
    /\ ~HasFile(c) => NoFileYet(c)

FileInv ==
    /\ TreeInv
    /\ FileTypeOK
    /\ DataIn(objects) \subseteq versions
    /\ AllFound(added, objects)
    /\ \A c \in Callers : FileOK(c)
-----------------------------------------------------------------------------
(***************************************************************************)
(* What the steps on one file have in common.                              *)
(***************************************************************************)

FileTypes ==
    /\ handle' \in [Callers -> Handles]
    /\ metadata' \in [Callers -> Updates]
    /\ past' \in [Callers -> Pasts]
    /\ calls' \in 0..MaxCalls

(* A step on the file of one program: the bucket at most at its own key. *)
OwnStep(c) ==
    /\ HasFile(c)
    /\ BucketStep(c)
    /\ UNCHANGED <<stack, result>>
    /\ FileTypes
    /\ \A d \in Callers \ {c} :
          handle'[d] = handle[d] /\ metadata'[d] = metadata[d] /\ past'[d] = past[d]

VersionsStep == versions' = versions \union DataIn(objects')

Additions == [key : Keys, name : Names]
AddedStep == added' \subseteq Additions /\ AllFound(added', objects')

(* The steps on files. *)
HandleStep(c) == FileStep(c) \/ UpdateMetadata(c)

LEMMA FileIsTyped ==
    ASSUME FileInv, NEW c \in Callers
    PROVE  /\ handle[c] \in Handles /\ handle[c].reader \in Readers
           /\ handle[c].buffer \in Seq(Pieces)
           /\ metadata[c] \in Updates /\ past[c] \in Pasts
           /\ HasFile(c) =>
                 Begun(c) /\ FileKey(c) \in Keys /\ MayMake(task[c], FileKey(c))
           /\ \A k \in DOMAIN objects : objects[k] \in Contents
<1>1. /\ handle[c] \in Handles /\ metadata[c] \in Updates /\ past[c] \in Pasts
  BY DEF FileInv, FileTypeOK, Handles, Updates
<1>2. handle[c].reader \in Readers /\ handle[c].buffer \in Seq(Pieces)
  BY <1>1 DEF Handles
<1>3. ASSUME HasFile(c)
      PROVE  Begun(c) /\ FileKey(c) \in Keys /\ MayMake(task[c], FileKey(c))
  <2>1. Begun(c)
    BY <1>3, TasksAssumption DEF FileInv, TreeInv, TypeOK, HasFile, Begun
  <2>2. QED BY <1>3, <2>1 DEF Begun, FileKey, HasFile, MayMake
<1>4. \A k \in DOMAIN objects : objects[k] \in Contents
  BY DEF FileInv, TreeInv, TypeOK, IsBucket
<1>5. QED BY <1>1, <1>2, <1>3, <1>4

LEMMA TypesAreKept ==
    ASSUME FileInv
    PROVE  /\ handle \in [Callers -> Handles]
           /\ metadata \in [Callers -> Updates]
           /\ past \in [Callers -> Pasts]
           /\ calls \in 0..MaxCalls
  BY DEF FileInv, FileTypeOK, Handles, Updates

LEMMA CallsStep ==
    ASSUME FileInv, NEW c \in Callers, Calls(c)
    PROVE  /\ HasFile(c) /\ metadata[c].busy = ""
           /\ calls' \in 0..MaxCalls /\ UNCHANGED <<stack, result>>
<1>1. calls \in 0..MaxCalls /\ MaxCalls \in Nat
  BY TypesAreKept, MaxCallsAssumption
<1>2. calls < MaxCalls /\ calls' = calls + 1
  BY DEF Calls
<1>3. calls' \in 0..MaxCalls
  BY <1>1, <1>2
<1>4. QED BY <1>3 DEF Calls

LEMMA NoFileMeans ==
    ASSUME NEW c, NoFileYet(c)
    PROVE  /\ handle[c].buffer = <<>> /\ ~handle[c].reader.open
           /\ metadata[c].busy = "" /\ past[c].got = <<>>
<1>1. /\ NewHandle.buffer = <<>> /\ ~NewHandle.reader.open
      /\ NoMetadata.busy = "" /\ NoPast.got = <<>>
  BY DEF NewHandle, NoReader, NoMetadata, NoPast
<1>2. QED BY <1>1 DEF NoFileYet

LEMMA NoReaderMeans == ~NoReader.open /\ NoReader.at <= Len(NoReader.data)
<1>1. ~NoReader.open /\ NoReader.at = 0
  BY DEF NoReader
<1>2. NoReader.data = <<>>
  BY DEF NoReader
<1>3. Len(<<>>) = 0 /\ 0 <= 0
  BY EmptySeq
<1>4. NoReader.at <= Len(NoReader.data)
  BY <1>1, <1>2, <1>3, Zenon
<1>5. QED BY <1>1, <1>4

(* A file whose program makes no step keeps its invariant. *)
LEMMA OtherFilesAreOK ==
    ASSUME FileInv, NEW c \in Callers, BucketStep(c), VersionsStep,
           NEW d \in Callers, d # c, UNCHANGED <<handle[d], metadata[d], past[d]>>,
           UNCHANGED result[d]
    PROVE  FileOK(d)'
<1>1. UNCHANGED task[d] /\ HasFile(d)' = HasFile(d) /\ FileKey(d)' = FileKey(d)
  BY DEF BucketStep, callVars, HasFile, FileKey
<1>2. BufferOK(d)' /\ ReaderOK(d)'
  BY <1>1 DEF FileInv, FileOK, BufferOK, ReaderOK, VersionsStep
<1>3. (~HasFile(d))' => NoFileYet(d)'
  BY <1>1 DEF FileInv, FileOK, NoFileYet
<1>4. PropertiesOK(d)'
  BY DEF FileInv, FileOK, PropertiesOK
<1>5. QED BY <1>2, <1>3, <1>4 DEF FileOK

(* The data of the objects, whatever a step has done to them. *)
LEMMA VersionsAreTyped ==
    ASSUME FileInv, TypeOK', VersionsStep
    PROVE  /\ versions' \subseteq [key : Keys, data : Seq(Pieces)]
           /\ DataIn(objects') \subseteq versions'
<1>1. DOMAIN objects' \in SUBSET Keys /\ \A k \in DOMAIN objects' : objects'[k] \in Contents
  BY DEF TypeOK, IsBucket
<1>2. DataIn(objects') \subseteq [key : Keys, data : Seq(Pieces)]
  BY <1>1 DEF DataIn, Contents, Version
<1>3. QED BY <1>2 DEF FileInv, FileTypeOK, VersionsStep

(* What is left of the additions, when those of the objects that change go. *)
LEMMA StandsIsOK ==
    ASSUME FileInv, Stands
    PROVE  AddedStep
<1>1. added \subseteq Additions /\ AllFound(added, objects) /\ added' \subseteq added
  BY DEF FileInv, FileTypeOK, Additions, Stands
<1>2. ASSUME NEW a \in added'
      PROVE  a.key \in DOMAIN objects' /\ a.name \in objects'[a.key].props
  <2>1. a \in added /\ ~Differs(a.key)
    BY DEF Stands
  <2>2. a.key \in DOMAIN objects /\ a.name \in objects[a.key].props
    BY <1>1, <2>1 DEF AllFound
  <2>3. a.key \in DOMAIN objects' /\ objects'[a.key] = objects[a.key]
    BY <2>1, <2>2 DEF Differs
  <2>4. QED BY <2>2, <2>3
<1>3. QED BY <1>1, <1>2 DEF AddedStep, AllFound

(* The invariant after a step on one file. *)
LEMMA OwnStepIsOK ==
    ASSUME FileInv, NEW c \in Callers, OwnStep(c), VersionsStep, AddedStep, FileOK(c)'
    PROVE  FileInv'
<1>1. TreeInv /\ BucketStep(c) /\ UNCHANGED <<stack, result, task, started>>
  BY DEF FileInv, OwnStep, BucketStep, callVars
<1>2. TypeOK'
  <2>1. /\ IsBucket(objects') /\ faults' \in 0..Faults
        /\ touched' \in [Callers -> SUBSET Keys]
    BY <1>1 DEF BucketStep
  <2>2. QED BY <1>1, <2>1 DEF TreeInv, TypeOK, IsBucket
<1>3. TreeInv'
  <2>1. ASSUME NEW d \in Callers
        PROVE  /\ StackOK(task'[d], stack'[d])
               /\ task'[d] = NoTask => stack'[d] = <<>> /\ result'[d] = "none"
               /\ result'[d] # "none" => stack'[d] = <<>>
    BY <1>1 DEF TreeInv
  <2>2. QED BY <1>2, <2>1 DEF TreeInv, StackOK, FrameOK, FrameInside, ChildOf,
        Inside, Image, MarkerKey
<1>4. ASSUME NEW d \in Callers PROVE FileOK(d)'
  <2>1. CASE d = c
    BY <2>1
  <2>2. CASE d # c
    BY <1>1, <2>2, OtherFilesAreOK DEF OwnStep
  <2>3. QED BY <2>1, <2>2
<1>5. FileTypeOK'
  <2>1. /\ handle' \in [Callers -> [reader : Readers, buffer : Seq(Pieces)]]
        /\ metadata' \in [Callers -> [busy : Names \union {""}, props : SUBSET Names]]
        /\ past' \in [Callers -> Pasts] /\ calls' \in 0..MaxCalls
    BY DEF OwnStep, FileTypes, Handles, Updates
  <2>2. versions' \subseteq [key : Keys, data : Seq(Pieces)]
    BY <1>2, VersionsAreTyped
  <2>3. \A d \in Callers :
           /\ (~HasFile(d))' => handle'[d] = NewHandle /\ metadata'[d] = NoMetadata
           /\ handle'[d].reader.at <= Len(handle'[d].reader.data)
    BY <1>4 DEF FileOK, NoFileYet, ReaderOK
  <2>4. added' \subseteq [key : Keys, name : Names]
    BY DEF AddedStep, Additions
  <2>5. QED BY <1>2, <2>1, <2>2, <2>3, <2>4 DEF FileTypeOK
<1>6. DataIn(objects') \subseteq versions'
  BY DEF VersionsStep
<1>7. AllFound(added', objects')
  BY DEF AddedStep
<1>8. QED BY <1>3, <1>4, <1>5, <1>6, <1>7 DEF FileInv, AllFound
-----------------------------------------------------------------------------
(***************************************************************************)
(* The steps on one file, one lemma for each.                              *)
(***************************************************************************)

(* The handle, the buffered properties and the past of file c become h, m and p. *)
FileBecomes(c, h, m, p) ==
    /\ handle' = [handle EXCEPT ![c] = h] \/ (h = handle[c] /\ UNCHANGED handle)
    /\ metadata' = [metadata EXCEPT ![c] = m] \/ (m = metadata[c] /\ UNCHANGED metadata)
    /\ past' = [past EXCEPT ![c] = p] \/ (p = past[c] /\ UNCHANGED past)

LEMMA OneFileChanges ==
    ASSUME FileInv, NEW c \in Callers, HasFile(c), BucketStep(c),
           UNCHANGED <<stack, result>>, calls' \in 0..MaxCalls,
           NEW h \in Handles, NEW m \in Updates, NEW p \in Pasts,
           FileBecomes(c, h, m, p)
    PROVE  /\ OwnStep(c)
           /\ handle'[c] = h /\ metadata'[c] = m /\ past'[c] = p
           /\ HasFile(c)' /\ FileKey(c)' = FileKey(c)
<1>1. /\ handle \in [Callers -> Handles] /\ metadata \in [Callers -> Updates]
      /\ past \in [Callers -> Pasts]
  BY TypesAreKept
<1>2. /\ handle' \in [Callers -> Handles] /\ handle'[c] = h
      /\ \A d \in Callers \ {c} : handle'[d] = handle[d]
  BY <1>1 DEF FileBecomes
<1>3. /\ metadata' \in [Callers -> Updates] /\ metadata'[c] = m
      /\ \A d \in Callers \ {c} : metadata'[d] = metadata[d]
  BY <1>1 DEF FileBecomes
<1>4. /\ past' \in [Callers -> Pasts] /\ past'[c] = p
      /\ \A d \in Callers \ {c} : past'[d] = past[d]
  BY <1>1 DEF FileBecomes
<1>5. OwnStep(c)
  BY <1>2, <1>3, <1>4 DEF OwnStep, FileTypes
<1>6. HasFile(c)' /\ FileKey(c)' = FileKey(c)
  BY DEF HasFile, FileKey, BucketStep, callVars
<1>7. QED BY <1>2, <1>3, <1>4, <1>5, <1>6

LEMMA ReaderOfIsOK ==
    ASSUME FileInv, NEW c \in Callers,
           handle[c].reader.open \/ FileKey(c) \in DOMAIN objects
    PROVE  /\ ReaderOf(c) \in Readers /\ ReaderOf(c).open
           /\ ReaderOf(c).data \in Seq(Pieces)
           /\ Version(FileKey(c), ReaderOf(c).data) \in versions
           /\ ReaderOf(c).at \in 0..Len(ReaderOf(c).data)
           /\ past[c].got = SubSeq(ReaderOf(c).data, 1, ReaderOf(c).at)
<1>1. handle[c].reader \in Readers /\ ReaderOK(c)
  BY FileIsTyped DEF FileInv, FileOK
<1>2. CASE handle[c].reader.open
  <2>1. ReaderOf(c) = handle[c].reader
    BY <1>2 DEF ReaderOf
  <2>2. /\ handle[c].reader.data \in Seq(Pieces) /\ handle[c].reader.at \in Nat
        /\ Len(handle[c].reader.data) \in Nat
    BY <1>1 DEF Readers
  <2>3. QED BY <1>1, <1>2, <2>1, <2>2 DEF ReaderOK
<1>3. CASE ~handle[c].reader.open
  <2> DEFINE data == objects[FileKey(c)].data
  <2>1. FileKey(c) \in DOMAIN objects /\ objects[FileKey(c)] \in Contents
    BY <1>3, FileIsTyped
  <2>2. data \in Seq(Pieces) /\ Version(FileKey(c), data) \in versions
    BY <2>1 DEF Contents, FileInv, DataIn
  <2> HIDE DEF data
  <2>3. ReaderOf(c) = [NoReader EXCEPT !.open = TRUE, !.data = data]
    BY <1>3 DEF ReaderOf, data
  <2>4. /\ ReaderOf(c) \in Readers /\ ReaderOf(c).open
        /\ ReaderOf(c).data = data /\ ReaderOf(c).at = 0
    <3>1. NoReader \in Readers /\ NoReader.at = 0
      BY DEF NoReader, Readers
    <3>2. QED BY <2>2, <2>3, <3>1 DEF Readers
  <2>5. past[c].got = <<>>
    BY <1>1, <1>3 DEF ReaderOK
  <2>6. SubSeq(data, 1, 0) = <<>>
    BY SubSeqEmpty
  <2>7. QED BY <2>2, <2>4, <2>5, <2>6
<1>4. QED BY <1>2, <1>3

LEMMA ReadStep ==
    ASSUME FileInv, NEW c \in Callers, Read(c), VersionsStep
    PROVE  OwnStep(c) /\ FileOK(c)'
<1> DEFINE r == ReaderOf(c)
           n == IF r.at < Len(r.data) THEN 1 ELSE 0
           more == SubSeq(r.data, r.at + 1, r.at + n)
           r2 == [r EXCEPT !.at = @ + n]
           h == [handle[c] EXCEPT !.reader = r2]
           p == [past[c] EXCEPT !.got = @ \o more]
<1>1. handle[c].reader.open \/ FileKey(c) \in DOMAIN objects
  BY DEF Read
<1>2. /\ r \in Readers /\ r.open /\ r.data \in Seq(Pieces)
      /\ Version(FileKey(c), r.data) \in versions
      /\ r.at \in 0..Len(r.data) /\ past[c].got = SubSeq(r.data, 1, r.at)
      /\ Len(r.data) \in Nat
  BY <1>1, ReaderOfIsOK
<1>3. /\ HasFile(c) /\ metadata[c].busy = "" /\ calls' \in 0..MaxCalls
      /\ UNCHANGED <<stack, result>> /\ BucketStep(c) /\ UNCHANGED metadata
  BY CallsStep, ReadsStep DEF Read, FileInv
<1>4. /\ handle' = [handle EXCEPT ![c].reader = r2]
      /\ past' = [past EXCEPT ![c] = p]
  BY DEF Read, Remember
<1>5. /\ handle[c] \in Handles /\ past[c] \in Pasts /\ metadata[c] \in Updates
      /\ BufferOK(c) /\ PropertiesOK(c)
  BY FileIsTyped DEF FileInv, FileOK
<1> HIDE DEF r
<1>6. /\ n \in {0, 1} /\ r.at + n \in r.at..Len(r.data) /\ r.at + n \in Nat
      /\ r.at \in 0..Len(r.data)
  BY <1>2
<1> HIDE DEF n
<1>7. past[c].got \o more = SubSeq(r.data, 1, r.at + n)
  <2>1. /\ 1 \in 1..Len(r.data) + 1 /\ r.at \in 1 - 1..Len(r.data)
        /\ r.at + n \in r.at..Len(r.data)
    BY <1>2, <1>6
  <2>2. SubSeq(r.data, 1, r.at) \o SubSeq(r.data, r.at + 1, r.at + n)
           = SubSeq(r.data, 1, r.at + n)
    BY <1>2, <2>1, ConcatAdjacentSubSeq
  <2>3. QED BY <1>2, <2>2
<1>8. SubSeq(r.data, 1, r.at + n) \in Seq(Pieces)
  <2>1. \A i \in 1..(r.at + n) : r.data[i] \in Pieces
    BY <1>2, <1>6
  <2>2. QED BY <1>6, <2>1, SubSeqProperties
<1> HIDE DEF more
<1>9. r2 \in Readers /\ r2.open /\ r2.data = r.data /\ r2.at = r.at + n
  BY <1>2, <1>6 DEF Readers
<1> HIDE DEF r2
<1>10. h \in Handles /\ h.reader = r2 /\ h.buffer = handle[c].buffer
  BY <1>5, <1>9 DEF Handles
<1>11. /\ p \in Pasts /\ p.got = SubSeq(r.data, 1, r.at + n)
       /\ p.failed = past[c].failed /\ p.lost = past[c].lost
       /\ p.unsaved = past[c].unsaved
  BY <1>5, <1>7, <1>8 DEF Pasts
<1>12. handle' = [handle EXCEPT ![c] = h]
  BY <1>4
<1> HIDE DEF h, p
<1>13. /\ OwnStep(c) /\ handle'[c] = h /\ past'[c] = p /\ metadata'[c] = metadata[c]
       /\ HasFile(c)' /\ FileKey(c)' = FileKey(c)
  <2>1. FileBecomes(c, h, metadata[c], p)
    BY <1>3, <1>4, <1>12 DEF FileBecomes, p
  <2>2. /\ FileInv /\ c \in Callers /\ HasFile(c) /\ BucketStep(c)
        /\ UNCHANGED <<stack, result>> /\ calls' \in 0..MaxCalls
        /\ h \in Handles /\ metadata[c] \in Updates /\ p \in Pasts
    BY <1>3, <1>5, <1>10, <1>11
  <2>3. QED BY ONLY <2>1, <2>2, OneFileChanges
<1>14. BufferOK(c)'
  BY <1>5, <1>10, <1>11, <1>13 DEF BufferOK
<1>15. ReaderOK(c)'
  <2>1. handle'[c].reader = r2 /\ past'[c].got = SubSeq(r2.data, 1, r2.at)
    BY <1>9, <1>10, <1>11, <1>13
  <2>2. /\ Version(FileKey(c), r2.data) \in versions'
        /\ r2.at <= Len(r2.data) /\ r2.open
    BY <1>2, <1>6, <1>9 DEF VersionsStep
  <2>3. QED BY <1>13, <2>1, <2>2 DEF ReaderOK
<1>16. PropertiesOK(c)'
  BY <1>3, <1>13 DEF PropertiesOK
<1>17. QED BY <1>13, <1>14, <1>15, <1>16 DEF FileOK

(* The steps that leave the reader as it is or drop it. *)
LEMMA OneFileIsOK ==
    ASSUME FileInv, NEW c \in Callers, HasFile(c), BucketStep(c), VersionsStep,
           UNCHANGED <<stack, result>>, calls' \in 0..MaxCalls,
           NEW h \in Handles, NEW m \in Updates, NEW p \in Pasts,
           handle' = [handle EXCEPT ![c] = h] \/ (h = handle[c] /\ UNCHANGED handle),
           metadata' = [metadata EXCEPT ![c] = m]
              \/ (m = metadata[c] /\ UNCHANGED metadata),
           past' = [past EXCEPT ![c] = p] \/ (p = past[c] /\ UNCHANGED past),
           p.failed \/ (p.lost = <<>> /\ p.unsaved = h.buffer),
           \/ h.reader = handle[c].reader /\ p.got = past[c].got
           \/ h.reader = NoReader /\ p.got = <<>>,
           m.busy # "" => p.seen \union {m.busy} \subseteq m.props
    PROVE  OwnStep(c) /\ FileOK(c)'
<1>1. /\ OwnStep(c)
      /\ handle'[c] = h /\ metadata'[c] = m /\ past'[c] = p
      /\ HasFile(c)' /\ FileKey(c)' = FileKey(c)
  <2>1. FileBecomes(c, h, m, p)
    BY DEF FileBecomes
  <2>2. /\ FileInv /\ c \in Callers /\ HasFile(c) /\ BucketStep(c)
        /\ UNCHANGED <<stack, result>> /\ calls' \in 0..MaxCalls
        /\ h \in Handles /\ m \in Updates /\ p \in Pasts
    OBVIOUS
  <2>3. QED BY ONLY <2>1, <2>2, OneFileChanges
<1>2. BufferOK(c)'
  BY <1>1 DEF BufferOK
<1>3. ReaderOK(c)'
  <2>1. CASE h.reader = handle[c].reader /\ p.got = past[c].got
    <3>1. ReaderOK(c) /\ versions \subseteq versions'
      BY DEF FileInv, FileOK, VersionsStep
    <3>2. QED BY <1>1, <2>1, <3>1 DEF ReaderOK
  <2>2. CASE h.reader = NoReader /\ p.got = <<>>
    <3>1. ~NoReader.open /\ NoReader.at <= Len(NoReader.data)
      BY NoReaderMeans
    <3>2. handle'[c].reader = NoReader /\ past'[c].got = <<>>
      BY <1>1, <2>2, Zenon
    <3>3. ~handle'[c].reader.open /\ handle'[c].reader.at <= Len(handle'[c].reader.data)
      BY <3>1, <3>2, Zenon
    <3>4. QED BY <3>2, <3>3 DEF ReaderOK
  <2>3. QED BY <2>1, <2>2
<1>4. PropertiesOK(c)'
  BY <1>1 DEF PropertiesOK
<1>5. QED BY <1>1, <1>2, <1>3, <1>4 DEF FileOK

LEMMA WriteStepOnFile ==
    ASSUME FileInv, NEW c \in Callers, NEW piece \in Written, Write(c, piece),
           VersionsStep
    PROVE  OwnStep(c) /\ FileOK(c)'
<1> DEFINE h == [handle[c] EXCEPT !.buffer = Append(@, piece)]
           p == [past[c] EXCEPT !.unsaved = Append(@, piece)]
<1>1. /\ HasFile(c) /\ metadata[c].busy = "" /\ calls' \in 0..MaxCalls
      /\ UNCHANGED <<stack, result>> /\ BucketStep(c) /\ UNCHANGED <<objects, touched>>
  BY CallsStep, ReadsStep DEF Write, FileInv, Reads
<1>2. /\ handle[c] \in Handles /\ past[c] \in Pasts /\ metadata[c] \in Updates
      /\ BufferOK(c) /\ PropertiesOK(c) /\ piece \in Pieces
  BY FileIsTyped, WrittenAssumption DEF FileInv, FileOK
<1>3. /\ h \in Handles /\ h.reader = handle[c].reader
      /\ h.buffer = Append(handle[c].buffer, piece)
  BY <1>2 DEF Handles
<1>4. /\ p \in Pasts /\ p.unsaved = Append(past[c].unsaved, piece)
      /\ p.failed = past[c].failed /\ p.lost = past[c].lost
      /\ p.got = past[c].got
  <2>1. past[c] \in Pasts /\ Append(past[c].unsaved, piece) \in Seq(Pieces)
    BY <1>2 DEF Pasts
  <2>2. QED BY <2>1 DEF Pasts
<1>5. handle' = [handle EXCEPT ![c] = h] \/ (h = handle[c] /\ UNCHANGED handle)
  BY DEF Write
<1>6. metadata' = [metadata EXCEPT ![c] = metadata[c]]
         \/ (metadata[c] = metadata[c] /\ UNCHANGED metadata)
  BY DEF Write
<1>7. past' = [past EXCEPT ![c] = p] \/ (p = past[c] /\ UNCHANGED past)
  BY DEF Write, Remember
<1> HIDE DEF h, p
<1>8. p.failed \/ (p.lost = <<>> /\ p.unsaved = h.buffer)
  BY <1>2, <1>3, <1>4 DEF BufferOK
<1>9. metadata[c].busy # "" =>
         p.seen \union {metadata[c].busy} \subseteq metadata[c].props
  BY <1>1
<1>10. QED BY <1>1, <1>2, <1>3, <1>4, <1>5, <1>6, <1>7, <1>8, <1>9, OneFileIsOK, ZenonT(60)

(* Seek to the start, and a Close that has nothing to flush. *)
LEMMA ReaderIsDropped ==
    ASSUME FileInv, NEW c \in Callers, SeekStart(c) \/ CloseReader(c), VersionsStep
    PROVE  OwnStep(c) /\ FileOK(c)'
<1> DEFINE h == [handle[c] EXCEPT !.reader = NoReader]
<1>1. /\ HasFile(c) /\ metadata[c].busy = "" /\ calls' \in 0..MaxCalls
      /\ UNCHANGED <<stack, result>> /\ BucketStep(c) /\ UNCHANGED <<objects, touched>>
  BY CallsStep, ReadsStep DEF SeekStart, CloseReader, FileInv, Reads
<1>2. /\ handle[c] \in Handles /\ past[c] \in Pasts /\ metadata[c] \in Updates
      /\ BufferOK(c) /\ PropertiesOK(c)
  BY FileIsTyped DEF FileInv, FileOK
<1>3. h \in Handles /\ h.reader = NoReader /\ h.buffer = handle[c].buffer
  <2>1. NoReader \in Readers
    BY DEF NoReader, Readers
  <2>2. QED BY <1>2, <2>1 DEF Handles
<1>4. PICK p \in Pasts :
         /\ p.unsaved = past[c].unsaved /\ p.failed = past[c].failed
         /\ p.got = <<>>
         /\ p.lost = past[c].lost
               \/ (p.lost = past[c].unsaved /\ handle[c].buffer = <<>>)
         /\ past' = [past EXCEPT ![c] = p]
  <2>1. CASE SeekStart(c)
    <3> DEFINE q == [past[c] EXCEPT !.got = <<>>]
    <3>1. /\ q \in Pasts /\ q.unsaved = past[c].unsaved /\ q.failed = past[c].failed
          /\ q.got = <<>> /\ q.lost = past[c].lost
      <4>1. past[c] \in Pasts /\ <<>> \in Seq(Pieces)
        BY <1>2
      <4>2. QED BY <4>1 DEF Pasts
    <3>2. past' = [past EXCEPT ![c] = q]
      BY <2>1 DEF SeekStart, Remember
    <3>3. QED BY <3>1, <3>2
  <2>2. CASE CloseReader(c)
    <3> DEFINE q == [past[c] EXCEPT !.got = <<>>, !.lost = past[c].unsaved]
    <3>1. /\ q \in Pasts /\ q.unsaved = past[c].unsaved /\ q.failed = past[c].failed
          /\ q.got = <<>> /\ q.lost = past[c].unsaved
      <4>1. past[c] \in Pasts /\ <<>> \in Seq(Pieces)
        BY <1>2
      <4>2. QED BY <4>1 DEF Pasts
    <3>2. past' = [past EXCEPT ![c] = q] /\ handle[c].buffer = <<>>
      BY <2>2 DEF CloseReader, Remember
    <3>3. QED BY <3>1, <3>2
  <2>3. QED BY <2>1, <2>2
<1>5. handle' = [handle EXCEPT ![c] = h] \/ (h = handle[c] /\ UNCHANGED handle)
  BY DEF SeekStart, CloseReader
<1>6. metadata' = [metadata EXCEPT ![c] = metadata[c]]
         \/ (metadata[c] = metadata[c] /\ UNCHANGED metadata)
  BY DEF SeekStart, CloseReader
<1>7. past' = [past EXCEPT ![c] = p] \/ (p = past[c] /\ UNCHANGED past)
  BY <1>4
<1> HIDE DEF h
<1>8. p.failed \/ (p.lost = <<>> /\ p.unsaved = h.buffer)
  BY <1>2, <1>3, <1>4 DEF BufferOK
<1>9. metadata[c].busy # "" =>
         p.seen \union {metadata[c].busy} \subseteq metadata[c].props
  BY <1>1
<1>10. QED BY <1>1, <1>2, <1>3, <1>4, <1>5, <1>6, <1>7, <1>8, <1>9, OneFileIsOK, ZenonT(60)

(* The object after an upload by the program of the file. *)
LEMMA OwnPut ==
    ASSUME FileInv, NEW c \in Callers, HasFile(c), NEW content \in Contents,
           Put(c, FileKey(c), content) \/ FaultyPut(c, FileKey(c), content)
    PROVE  /\ BucketStep(c)
           /\ \/ UNCHANGED objects
              \/ /\ FileKey(c) \in DOMAIN objects' /\ objects'[FileKey(c)] = content
                 /\ \A j \in DOMAIN objects \ {FileKey(c)} :
                       j \in DOMAIN objects' /\ objects'[j] = objects[j]
           /\ Put(c, FileKey(c), content) =>
                 /\ FileKey(c) \in DOMAIN objects' /\ objects'[FileKey(c)] = content
                 /\ \A j \in DOMAIN objects \ {FileKey(c)} :
                       j \in DOMAIN objects' /\ objects'[j] = objects[j]
<1>1. FileKey(c) \in Keys /\ MayMake(task[c], FileKey(c)) /\ TreeInv
  BY FileIsTyped DEF FileInv
<1>2. BucketStep(c)
  BY <1>1, PutStep DEF MayStore
<1>3. CASE Store(c, FileKey(c), content)
  BY <1>1, <1>2, <1>3, StoreStep
<1>4. CASE ~Store(c, FileKey(c), content)
  BY <1>2, <1>4 DEF Put, FaultyPut
<1>5. QED BY <1>2, <1>3, <1>4

LEMMA FlushedIsContent ==
    ASSUME FileInv, NEW c \in Callers
    PROVE  Flushed(c) \in Contents
  BY FileIsTyped DEF Flushed, Contents

LEMMA FlushStep ==
    ASSUME FileInv, NEW c \in Callers, Flush(c), VersionsStep
    PROVE  OwnStep(c) /\ FileOK(c)'
<1> DEFINE left == IF handle[c].buffer = past[c].unsaved THEN <<>> ELSE past[c].unsaved
           p == [past[c] EXCEPT !.unsaved = left, !.lost = left, !.got = <<>>]
<1>1. /\ HasFile(c) /\ metadata[c].busy = "" /\ calls' \in 0..MaxCalls
      /\ UNCHANGED <<stack, result>>
  BY CallsStep DEF Flush
<1>2. BucketStep(c)
  BY <1>1, OwnPut, FlushedIsContent DEF Flush
<1>3. past[c] \in Pasts /\ metadata[c] \in Updates /\ BufferOK(c)
  BY FileIsTyped DEF FileInv, FileOK
<1>4. /\ NewHandle \in Handles /\ NewHandle.reader = NoReader /\ NewHandle.buffer = <<>>
  BY DEF NewHandle, NoReader, Handles, Readers
<1>5. left \in Seq(Pieces) /\ (past[c].failed \/ left = <<>>)
  BY <1>3 DEF BufferOK, Pasts
<1> HIDE DEF left
<1>6. /\ p \in Pasts /\ p.unsaved = left /\ p.lost = left /\ p.got = <<>>
      /\ p.failed = past[c].failed
  <2>1. past[c] \in Pasts /\ left \in Seq(Pieces) /\ <<>> \in Seq(Pieces)
    BY <1>3, <1>5
  <2>2. QED BY <2>1 DEF Pasts
<1>7. handle' = [handle EXCEPT ![c] = NewHandle]
         \/ (NewHandle = handle[c] /\ UNCHANGED handle)
  BY DEF Flush
<1>8. metadata' = [metadata EXCEPT ![c] = metadata[c]]
         \/ (metadata[c] = metadata[c] /\ UNCHANGED metadata)
  BY DEF Flush
<1>9. past' = [past EXCEPT ![c] = p] \/ (p = past[c] /\ UNCHANGED past)
  BY DEF Flush, Remember, left
<1> HIDE DEF p
<1>10. p.failed \/ (p.lost = <<>> /\ p.unsaved = NewHandle.buffer)
  BY <1>4, <1>5, <1>6
<1>11. metadata[c].busy # "" =>
         p.seen \union {metadata[c].busy} \subseteq metadata[c].props
  BY <1>1
<1>12. QED
  BY <1>1, <1>2, <1>3, <1>4, <1>6, <1>7, <1>8, <1>9, <1>10, <1>11, OneFileIsOK,
     ZenonT(60)

LEMMA WriterFailsStep ==
    ASSUME FileInv, NEW c \in Callers, WriterFails(c), VersionsStep
    PROVE  OwnStep(c) /\ FileOK(c)'
<1> DEFINE p == [past[c] EXCEPT !.failed = TRUE, !.got = <<>>]
<1>1. /\ HasFile(c) /\ metadata[c].busy = "" /\ calls' \in 0..MaxCalls
      /\ UNCHANGED <<stack, result>>
  BY CallsStep DEF WriterFails
<1>2. BucketStep(c)
  BY <1>1, OwnPut, FlushedIsContent DEF WriterFails
<1>3. past[c] \in Pasts /\ metadata[c] \in Updates
  BY FileIsTyped
<1>4. /\ NewHandle \in Handles /\ NewHandle.reader = NoReader /\ NewHandle.buffer = <<>>
  BY DEF NewHandle, NoReader, Handles, Readers
<1>5. p \in Pasts /\ p.failed /\ p.got = <<>>
  <2>1. past[c] \in Pasts /\ <<>> \in Seq(Pieces)
    BY <1>3
  <2>2. QED BY <2>1 DEF Pasts
<1>6. handle' = [handle EXCEPT ![c] = NewHandle]
         \/ (NewHandle = handle[c] /\ UNCHANGED handle)
  BY DEF WriterFails
<1>7. metadata' = [metadata EXCEPT ![c] = metadata[c]]
         \/ (metadata[c] = metadata[c] /\ UNCHANGED metadata)
  BY DEF WriterFails
<1>8. past' = [past EXCEPT ![c] = p] \/ (p = past[c] /\ UNCHANGED past)
  BY DEF WriterFails, Remember
<1> HIDE DEF p
<1>9. metadata[c].busy # "" =>
         p.seen \union {metadata[c].busy} \subseteq metadata[c].props
  BY <1>1
<1>10. QED
  BY <1>1, <1>2, <1>3, <1>4, <1>5, <1>6, <1>7, <1>8, <1>9, OneFileIsOK, ZenonT(60)

LEMMA CopyBreaksOffStep ==
    ASSUME FileInv, NEW c \in Callers, CopyBreaksOff(c), VersionsStep
    PROVE  OwnStep(c) /\ FileOK(c)'
<1> DEFINE p == [past[c] EXCEPT !.failed = TRUE]
<1>1. /\ HasFile(c) /\ metadata[c].busy = "" /\ calls' \in 0..MaxCalls
      /\ UNCHANGED <<stack, result>> /\ BucketStep(c) /\ UNCHANGED <<objects, touched>>
  BY CallsStep, FaultyReadStep DEF CopyBreaksOff, FileInv, FaultyRead
<1>2. /\ handle[c] \in Handles /\ handle[c].buffer \in Seq(Pieces) /\ past[c] \in Pasts
      /\ metadata[c] \in Updates /\ PropertiesOK(c)
  BY FileIsTyped DEF FileInv, FileOK
<1>3. PICK n \in 1..Len(handle[c].buffer) :
         handle' = [handle EXCEPT ![c].buffer = SubSeq(@, n, Len(@))]
  BY DEF CopyBreaksOff
<1> DEFINE rest == SubSeq(handle[c].buffer, n, Len(handle[c].buffer))
           h == [handle[c] EXCEPT !.buffer = rest]
<1>4. rest \in Seq(Pieces)
  <2>1. \A i \in n..Len(handle[c].buffer) : handle[c].buffer[i] \in Pieces
    BY <1>2
  <2>2. QED BY <1>2, <2>1, SubSeqProperties
<1>5. handle' = [handle EXCEPT ![c] = h] \/ (h = handle[c] /\ UNCHANGED handle)
  BY <1>3
<1> HIDE DEF rest
<1>6. h \in Handles /\ h.reader = handle[c].reader
  BY <1>2, <1>4 DEF Handles
<1> HIDE DEF h
<1>7. p \in Pasts /\ p.failed /\ p.got = past[c].got
  BY <1>2 DEF Pasts
<1>8. metadata' = [metadata EXCEPT ![c] = metadata[c]]
         \/ (metadata[c] = metadata[c] /\ UNCHANGED metadata)
  BY DEF CopyBreaksOff
<1>9. past' = [past EXCEPT ![c] = p] \/ (p = past[c] /\ UNCHANGED past)
  BY DEF CopyBreaksOff, Remember
<1> HIDE DEF p
<1>10. metadata[c].busy # "" =>
         p.seen \union {metadata[c].busy} \subseteq metadata[c].props
  BY <1>1
<1>11. QED
  BY <1>1, <1>2, <1>5, <1>6, <1>7, <1>8, <1>9, <1>10, OneFileIsOK, ZenonT(60)

LEMMA ReadMetadataStep ==
    ASSUME FileInv, NEW c \in Callers, NEW name \in Names, ReadMetadata(c, name),
           VersionsStep
    PROVE  OwnStep(c) /\ FileOK(c)'
<1> DEFINE k == FileKey(c)
           m == [busy |-> name, props |-> objects[k].props \union {name}]
           p == [past[c] EXCEPT !.seen = objects[k].props]
<1>1. /\ HasFile(c) /\ calls' \in 0..MaxCalls
      /\ UNCHANGED <<stack, result>> /\ BucketStep(c) /\ k \in DOMAIN objects
  BY CallsStep, ReadsStep DEF ReadMetadata, FileInv, Reads
<1>2. /\ handle[c] \in Handles /\ past[c] \in Pasts
      /\ BufferOK(c) /\ objects[k] \in Contents
  BY <1>1, FileIsTyped DEF FileInv, FileOK
<1>3. m \in Updates /\ m.busy = name /\ m.props = objects[k].props \union {name}
  BY <1>2 DEF Updates, Contents
<1>4. /\ p \in Pasts /\ p.seen = objects[k].props /\ p.got = past[c].got
      /\ p.failed = past[c].failed /\ p.lost = past[c].lost
      /\ p.unsaved = past[c].unsaved
  BY <1>2 DEF Pasts, Contents
<1>5. handle' = [handle EXCEPT ![c] = handle[c]]
         \/ (handle[c] = handle[c] /\ UNCHANGED handle)
  BY DEF ReadMetadata
<1>6. metadata' = [metadata EXCEPT ![c] = m] \/ (m = metadata[c] /\ UNCHANGED metadata)
  BY DEF ReadMetadata, WithProperty
<1>7. past' = [past EXCEPT ![c] = p] \/ (p = past[c] /\ UNCHANGED past)
  BY DEF ReadMetadata, Remember
<1> HIDE DEF m, p
<1>8. p.failed \/ (p.lost = <<>> /\ p.unsaved = handle[c].buffer)
  BY <1>2, <1>4 DEF BufferOK
<1>9. m.busy # "" => p.seen \union {m.busy} \subseteq m.props
  BY <1>3, <1>4
<1>10. QED
  BY <1>1, <1>2, <1>3, <1>4, <1>5, <1>6, <1>7, <1>8, <1>9, OneFileIsOK, ZenonT(60)

(* An update puts all the properties it carries into the object, whether it *)
(* merges them with the object's or replaces those.                        *)
LEMMA UpdatedMeans ==
    ASSUME FileInv, NEW c \in Callers, FileKey(c) \in DOMAIN objects,
           NEW o \in Updated(FileKey(c), metadata[c].props)
    PROVE  o \in Contents /\ metadata[c].props \subseteq o.props
<1>1. /\ objects[FileKey(c)] \in Contents /\ metadata[c] \in Updates
      /\ metadata[c].props \in SUBSET Names
  BY FileIsTyped DEF Updates
<1>2. PICK p \in {metadata[c].props, objects[FileKey(c)].props \union metadata[c].props} :
         o = [objects[FileKey(c)] EXCEPT !.props = p]
  BY DEF Updated
<1>3. p \in SUBSET Names /\ metadata[c].props \subseteq p
  BY <1>1, <1>2 DEF Contents
<1>4. QED BY <1>1, <1>2, <1>3 DEF Contents

LEMMA UpdateMetadataStep ==
    ASSUME FileInv, NEW c \in Callers, UpdateMetadata(c), VersionsStep
    PROVE  OwnStep(c) /\ FileOK(c)'
<1> DEFINE k == FileKey(c)
           p == [past[c] EXCEPT !.seen = {}]
<1>1. /\ handle[c] \in Handles /\ past[c] \in Pasts /\ BufferOK(c)
      /\ metadata[c].busy # "" /\ UNCHANGED <<stack, result>> /\ calls' \in 0..MaxCalls
  BY FileIsTyped, TypesAreKept DEF FileInv, FileOK, UpdateMetadata
<1>2. HasFile(c)
  BY <1>1, NoFileMeans DEF FileInv, FileOK
<1>3. NoMetadata \in Updates /\ NoMetadata.busy = ""
  BY DEF NoMetadata, Updates
<1>4. handle' = [handle EXCEPT ![c] = handle[c]]
         \/ (handle[c] = handle[c] /\ UNCHANGED handle)
  BY DEF UpdateMetadata
<1>5. metadata' = [metadata EXCEPT ![c] = NoMetadata]
         \/ (NoMetadata = metadata[c] /\ UNCHANGED metadata)
  BY DEF UpdateMetadata
<1>6. past' = [past EXCEPT ![c] = p] \/ (p = past[c] /\ UNCHANGED past)
  BY DEF UpdateMetadata, Remember
<1>7. /\ p \in Pasts /\ p.got = past[c].got
      /\ p.failed = past[c].failed /\ p.lost = past[c].lost
      /\ p.unsaved = past[c].unsaved
  BY <1>1 DEF Pasts
<1> HIDE DEF p
<1>8. p.failed \/ (p.lost = <<>> /\ p.unsaved = handle[c].buffer)
  BY <1>1, <1>7 DEF BufferOK
<1>9. BucketStep(c)
  <2>1. CASE Reads
    BY <2>1, ReadsStep DEF FileInv
  <2>2. CASE /\ k \in DOMAIN objects
             /\ \E o \in Updated(k, metadata[c].props) : Put(c, k, o) \/ FaultyPut(c, k, o)
    <3>1. PICK o \in Updated(k, metadata[c].props) : Put(c, k, o) \/ FaultyPut(c, k, o)
      BY <2>2
    <3>2. o \in Contents
      BY <2>2, <3>1, UpdatedMeans
    <3>3. QED BY <1>2, <3>1, <3>2, OwnPut
  <2>3. QED BY <2>1, <2>2 DEF UpdateMetadata
<1>10. NoMetadata.busy # "" => p.seen \union {NoMetadata.busy} \subseteq NoMetadata.props
  BY <1>3
<1>11. QED
  BY <1>1, <1>2, <1>3, <1>4, <1>5, <1>6, <1>7, <1>8, <1>9, <1>10, OneFileIsOK, ZenonT(60)

(* An update undoes no addition its AddProperty had seen, and none to       *)
(* another object.                                                         *)
LEMMA UpdateIsAdded ==
    ASSUME FileInv, NEW c \in Callers, UpdateMetadata(c)
    PROVE  AddedStep
<1> DEFINE k == FileKey(c)
           m == metadata[c]
<1>1. /\ m \in Updates /\ m.busy # "" /\ m.busy \in Names
      /\ past[c].seen \union {m.busy} \subseteq m.props
  BY FileIsTyped DEF FileInv, FileOK, PropertiesOK, UpdateMetadata, Updates
<1>2. HasFile(c) /\ k \in Keys
  BY <1>1, NoFileMeans, FileIsTyped DEF FileInv, FileOK
<1>3. added \subseteq Additions /\ AllFound(added, objects)
  BY DEF FileInv, FileTypeOK, Additions
<1>4. /\ Addition(c) \in Additions /\ Addition(c).key = k /\ Addition(c).name = m.busy
  BY <1>1, <1>2 DEF Addition, Additions
<1>5. /\ Seen(c) \subseteq added
      /\ \A a \in Seen(c) : a.key = k => a.name \in past[c].seen
  BY DEF Seen
<1>6. added' \subseteq Additions /\ added' \subseteq added \union {Addition(c)}
  BY <1>3, <1>4, <1>5 DEF UpdateMetadata
<1>7. CASE UNCHANGED objects /\ added' \subseteq added
  BY <1>3, <1>6, <1>7 DEF AddedStep, AllFound
<1>8. ASSUME NEW o \in Contents, m.props \subseteq o.props,
             k \in DOMAIN objects', objects'[k] = o,
             \A j \in DOMAIN objects \ {k} :
                j \in DOMAIN objects' /\ objects'[j] = objects[j],
             added' \subseteq Seen(c) \union {Addition(c)}
      PROVE  AddedStep
  <2>1. ASSUME NEW a \in added'
        PROVE  a.key \in DOMAIN objects' /\ a.name \in objects'[a.key].props
    <3>1. a = Addition(c) \/ (a \in Seen(c) /\ a \in added)
      BY <1>5, <1>8
    <3>2. CASE a.key = k
      <4>1. a.name \in m.props
        BY <1>1, <1>4, <1>5, <3>1, <3>2
      <4>2. QED BY <1>8, <3>2, <4>1
    <3>3. CASE a.key # k
      <4>1. a \in added
        BY <1>4, <3>1, <3>3
      <4>2. a.key \in DOMAIN objects /\ a.name \in objects[a.key].props
        BY <1>3, <4>1 DEF AllFound
      <4>3. QED BY <1>8, <3>3, <4>2
    <3>4. QED BY <3>2, <3>3
  <2>2. QED BY <1>6, <2>1 DEF AddedStep, AllFound
<1>9. CASE /\ k \in DOMAIN objects
           /\ \E o \in Updated(k, m.props) : Put(c, k, o)
           /\ added' = Seen(c) \union {Addition(c)}
  <2>1. PICK o \in Contents : Put(c, k, o) /\ m.props \subseteq o.props
    BY <1>9, UpdatedMeans
  <2>2. /\ k \in DOMAIN objects' /\ objects'[k] = o
        /\ \A j \in DOMAIN objects \ {k} :
              j \in DOMAIN objects' /\ objects'[j] = objects[j]
    BY <1>2, <2>1, OwnPut
  <2>3. QED BY <1>8, <1>9, <2>1, <2>2
<1>10. CASE /\ k \in DOMAIN objects
            /\ \E o \in Updated(k, m.props) : FaultyPut(c, k, o)
            /\ added' = Seen(c)
  <2>1. PICK o \in Contents : FaultyPut(c, k, o) /\ m.props \subseteq o.props
    BY <1>10, UpdatedMeans
  <2>2. \/ UNCHANGED objects
        \/ /\ k \in DOMAIN objects' /\ objects'[k] = o
           /\ \A j \in DOMAIN objects \ {k} :
                 j \in DOMAIN objects' /\ objects'[j] = objects[j]
    BY <1>2, <2>1, OwnPut
  <2>3. QED BY <1>5, <1>7, <1>8, <1>10, <2>1, <2>2
<1>11. QED BY <1>7, <1>9, <1>10 DEF UpdateMetadata, Reads

(* A step on a file that changes the object changes the file too. *)
LEMMA FileChangesShow ==
    ASSUME FileInv, NEW c \in Callers, HandleStep(c)
    PROVE  UNCHANGED objects \/ Steps(c)
<1>1. /\ handle \in [Callers -> Handles] /\ metadata \in [Callers -> Updates]
      /\ NewHandle.buffer = <<>> /\ NoMetadata.busy = ""
  BY TypesAreKept DEF NewHandle, NoMetadata
<1>2. CASE Flush(c) \/ WriterFails(c)
  <2>1. handle[c].buffer # <<>> /\ handle'[c] = NewHandle
    BY <1>1, <1>2 DEF Flush, WriterFails
  <2>2. handle'[c] # handle[c]
    BY <1>1, <2>1
  <2>3. QED BY <2>2 DEF Steps
<1>3. CASE UpdateMetadata(c)
  <2>1. metadata[c].busy # "" /\ metadata'[c] = NoMetadata
    BY <1>1, <1>3 DEF UpdateMetadata
  <2>2. metadata'[c] # metadata[c]
    BY <1>1, <2>1
  <2>3. QED BY <2>2 DEF Steps
<1>4. CASE \/ Read(c) \/ SeekStart(c) \/ CloseReader(c) \/ CopyBreaksOff(c)
           \/ (\E piece \in Written : Write(c, piece))
           \/ (\E name \in Names : ReadMetadata(c, name))
  BY <1>4 DEF Read, SeekStart, CloseReader, CopyBreaksOff, Write, ReadMetadata,
              Reads, FaultyRead
<1>5. QED BY <1>2, <1>3, <1>4 DEF HandleStep, FileStep

LEMMA HandleStepIsOK ==
    ASSUME FileInv, NEW c \in Callers, HandleStep(c), VersionsStep
    PROVE  OwnStep(c) /\ FileOK(c)'
<1>1. ASSUME NEW piece \in Written, Write(c, piece) PROVE OwnStep(c) /\ FileOK(c)'
  BY <1>1, WriteStepOnFile
<1>2. ASSUME NEW name \in Names, ReadMetadata(c, name) PROVE OwnStep(c) /\ FileOK(c)'
  BY <1>2, ReadMetadataStep
<1>3. CASE Read(c)
  BY <1>3, ReadStep
<1>4. CASE SeekStart(c) \/ CloseReader(c)
  BY <1>4, ReaderIsDropped
<1>5. CASE Flush(c)
  BY <1>5, FlushStep
<1>6. CASE CopyBreaksOff(c)
  BY <1>6, CopyBreaksOffStep
<1>7. CASE WriterFails(c)
  BY <1>7, WriterFailsStep
<1>8. CASE UpdateMetadata(c)
  BY <1>8, UpdateMetadataStep
<1>9. QED BY <1>1, <1>2, <1>3, <1>4, <1>5, <1>6, <1>7, <1>8 DEF HandleStep, FileStep
-----------------------------------------------------------------------------
(***************************************************************************)
(* The steps on trees: they leave every file alone.                        *)
(***************************************************************************)

(* What a step on trees does to the bucket and to the other programs. *)
LEMMA TreeStepMeans ==
    ASSUME FileInv, NEW c \in Callers, CallerNext(c)
    PROVE  /\ TreeInv' /\ ~HasFile(c)
           /\ \A d \in Callers \ {c} : UNCHANGED <<task[d], result[d]>>
           /\ \A d \in Callers : touched[d] \subseteq touched'[d]
           /\ \A k \in DOMAIN objects \union DOMAIN objects' :
                 Differs(k) =>
                     /\ stack'[c] # stack[c] /\ Licensed(task[c], k)
                     /\ \A d \in Callers \ {c} : task[d] # NoTask => k \in touched'[d]
<1>1. TreeInv
  BY DEF FileInv
<1>2. ASSUME NEW t \in Tasks, Begin(c, t)
      PROVE  /\ TreeInv' /\ ~HasFile(c) /\ UNCHANGED <<objects, touched>>
             /\ \A d \in Callers \ {c} : UNCHANGED <<task[d], result[d]>>
  <2>1. TreeInv'
    BY <1>1, <1>2, BeginStep
  <2>2. task[c] = NoTask
    BY <1>2 DEF Begin
  <2>3. ~HasFile(c)
    BY <2>2 DEF HasFile, NoTask
  <2>4. \A d \in Callers \ {c} : UNCHANGED <<task[d], result[d]>>
    BY <1>1, <1>2 DEF Begin, TreeInv, TypeOK
  <2>5. QED BY <1>2, <2>1, <2>3, <2>4 DEF Begin
<1>3. ASSUME RunStep(c)
      PROVE  /\ TreeInv' /\ ~HasFile(c) /\ StackStep(c) /\ BucketStep(c)
             /\ \A d \in Callers \ {c} : UNCHANGED <<task[d], result[d]>>
  <2>1. StackStep(c) /\ BucketStep(c)
    BY <1>1, <1>3, RunStepIsOK
  <2>2. TreeInv'
    BY <1>1, <2>1, RunStepKeepsTreeInv
  <2>3. ~HasFile(c)
    BY <1>1, <2>1, TopIsOK DEF HasFile, StackStep
  <2>4. QED BY <2>1, <2>2, <2>3 DEF StackStep, BucketStep, callVars
<1>4. CASE \E t \in Tasks : Begin(c, t)
  BY <1>2, <1>4 DEF Differs
<1>5. CASE RunStep(c)
  BY <1>3, <1>5 DEF StackStep, BucketStep
<1>6. QED BY <1>4, <1>5 DEF CallerNext, RunStep

(* The invariant after a step on trees. *)
LEMMA TreeStepIsOK ==
    ASSUME FileInv, NEW c \in Callers, TreeStep(c), VersionsStep, AddedStep
    PROVE  FileInv'
<1>1. /\ TreeInv' /\ ~HasFile(c) /\ UNCHANGED <<handle, metadata, calls, past>>
      /\ \A d \in Callers \ {c} : UNCHANGED <<task[d], result[d]>>
  BY TreeStepMeans DEF TreeStep, handleVars
<1>2. ASSUME NEW d \in Callers, HasFile(d)
      PROVE  HasFile(d)' /\ ReaderOK(d)'
  <2>1. d # c /\ UNCHANGED <<task[d], result[d]>>
    BY <1>1, <1>2
  <2>2. HasFile(d)' /\ FileKey(d)' = FileKey(d)
    BY <1>2, <2>1 DEF HasFile, FileKey
  <2>3. QED BY <1>1, <2>2 DEF FileInv, FileOK, ReaderOK, VersionsStep
<1>3. ASSUME NEW d \in Callers, ~HasFile(d)
      PROVE  NoFileYet(d)' /\ ReaderOK(d)'
  <2>1. NoFileYet(d) /\ ReaderOK(d)
    BY <1>3 DEF FileInv, FileOK
  <2>2. NoFileYet(d)' /\ ~handle[d].reader.open
    BY <1>1, <2>1, NoFileMeans DEF NoFileYet
  <2>3. QED BY <1>1, <2>1, <2>2 DEF ReaderOK
<1>4. ASSUME NEW d \in Callers PROVE FileOK(d)'
  <2>1. BufferOK(d)' /\ PropertiesOK(d)'
    BY <1>1 DEF FileInv, FileOK, BufferOK, PropertiesOK
  <2>2. QED BY <1>2, <1>3, <2>1 DEF FileOK
<1>5. /\ versions' \subseteq [key : Keys, data : Seq(Pieces)]
      /\ DataIn(objects') \subseteq versions'
  BY <1>1, VersionsAreTyped DEF TreeInv
<1>6. FileTypeOK'
  <2>1. /\ handle' \in [Callers -> [reader : Readers, buffer : Seq(Pieces)]]
        /\ metadata' \in [Callers -> [busy : Names \union {""}, props : SUBSET Names]]
        /\ past' \in [Callers -> Pasts] /\ calls' \in 0..MaxCalls
    BY <1>1 DEF FileInv, FileTypeOK
  <2>2. \A d \in Callers :
           /\ (~HasFile(d))' => handle'[d] = NewHandle /\ metadata'[d] = NoMetadata
           /\ handle'[d].reader.at <= Len(handle'[d].reader.data)
    BY <1>4 DEF FileOK, NoFileYet, ReaderOK
  <2>3. TypeOK'
    BY <1>1 DEF TreeInv
  <2>4. added' \subseteq [key : Keys, name : Names]
    BY DEF AddedStep, Additions
  <2>5. QED BY <1>5, <2>1, <2>2, <2>3, <2>4 DEF FileTypeOK
<1>7. AllFound(added', objects')
  BY DEF AddedStep
<1>8. QED BY <1>1, <1>4, <1>5, <1>6, <1>7 DEF FileInv, AllFound
-----------------------------------------------------------------------------
(***************************************************************************)
(* The theorems.                                                           *)
(***************************************************************************)

LEMMA FileInvInit == FileInit => FileInv
<1> SUFFICES ASSUME FileInit PROVE FileInv
  OBVIOUS
<1>1. TreeInv
  BY TreeStart DEF FileInit
<1>2. NewHandle \in Handles /\ NoMetadata \in Updates /\ NoPast \in Pasts
  BY DEF NewHandle, NoReader, Handles, Readers, NoMetadata, Updates, NoPast, Pasts
<1>3. /\ handle \in [Callers -> Handles] /\ metadata \in [Callers -> Updates]
      /\ past \in [Callers -> Pasts] /\ calls \in 0..MaxCalls
  BY <1>2, MaxCallsAssumption DEF FileInit
<1>4. ASSUME NEW c \in Callers PROVE NoFileYet(c)
  BY DEF FileInit, NoFileYet
<1>5. ASSUME NEW c \in Callers PROVE FileOK(c)
  <2>1. /\ past[c].lost = <<>> /\ past[c].unsaved = <<>> /\ past[c].got = <<>>
    BY <1>4 DEF NoFileYet, NoPast
  <2>2. BufferOK(c)
    BY <1>4, <2>1, NoFileMeans DEF BufferOK
  <2>3. ReaderOK(c)
    <3>1. handle[c].reader = NoReader
      BY <1>4 DEF NoFileYet, NewHandle
    <3>2. NoReader.at <= Len(NoReader.data)
      BY NoReaderMeans
    <3>3. handle[c].reader.at <= Len(handle[c].reader.data)
      BY <3>1, <3>2, Zenon
    <3>4. QED BY <1>4, <2>1, <3>3, NoFileMeans DEF ReaderOK
  <2>4. PropertiesOK(c)
    BY <1>4, NoFileMeans DEF PropertiesOK
  <2>5. QED BY <1>4, <2>2, <2>3, <2>4 DEF FileOK
<1>6. /\ versions \subseteq [key : Keys, data : Seq(Pieces)]
      /\ DataIn(objects) \subseteq versions
      /\ added = {}
  <2>1. \A k \in DOMAIN objects : objects[k] \in Contents
    BY <1>1 DEF TreeInv, TypeOK, IsBucket
  <2>2. DOMAIN objects \subseteq Keys
    BY <1>1 DEF TreeInv, TypeOK, IsBucket
  <2>3. QED BY <2>1, <2>2 DEF FileInit, DataIn, Contents, Version
<1>7. FileTypeOK
  BY <1>1, <1>3, <1>4, <1>5, <1>6
     DEF FileTypeOK, TreeInv, Handles, Updates, NoFileYet, FileOK, ReaderOK
<1>8. QED BY <1>1, <1>5, <1>6, <1>7 DEF FileInv, AllFound

LEMMA FileInvKept == FileInv /\ [FileNext]_fileVars => FileInv'
<1> SUFFICES ASSUME FileInv, [FileNext]_fileVars PROVE FileInv'
  OBVIOUS
<1>1. CASE UNCHANGED fileVars
  <2>1. UNCHANGED vars /\ UNCHANGED <<handle, metadata, calls, past, added, versions>>
    BY <1>1 DEF fileVars, handleVars
  <2>2. TreeInv'
    BY <2>1, TreeNext DEF FileInv
  <2>3. UNCHANGED <<objects, task, stack, result, faults, started, touched>>
    BY <2>1 DEF vars
  <2>4. FileTypeOK'
    BY <2>1, <2>2, <2>3 DEF FileInv, TreeInv, FileTypeOK, HasFile
  <2>5. DataIn(objects') \subseteq versions' /\ AllFound(added', objects')
    BY <2>1, <2>3 DEF FileInv
  <2>6. ASSUME NEW c \in Callers PROVE FileOK(c)'
    BY <2>1, <2>3 DEF FileInv, FileOK, BufferOK, ReaderOK, PropertiesOK, HasFile,
                      FileKey, NoFileYet
  <2>7. QED BY <2>2, <2>4, <2>5, <2>6 DEF FileInv, AllFound
<1>2. CASE Finished /\ UNCHANGED <<handleVars, added, versions>>
  <2>1. UNCHANGED fileVars
    BY <1>2 DEF Finished, fileVars
  <2>2. QED BY <1>1, <2>1
<1>3. ASSUME NEW c \in Callers, TreeStep(c) \/ FileStep(c), Stands, VersionsStep
      PROVE  FileInv'
  <2>1. AddedStep
    BY <1>3, StandsIsOK
  <2>2. CASE TreeStep(c)
    BY <1>3, <2>1, <2>2, TreeStepIsOK
  <2>3. CASE FileStep(c)
    BY <1>3, <2>1, <2>3, HandleStepIsOK, OwnStepIsOK DEF HandleStep
  <2>4. QED BY <1>3, <2>2, <2>3
<1>4. ASSUME NEW c \in Callers, UpdateMetadata(c), VersionsStep
      PROVE  FileInv'
  BY <1>4, UpdateIsAdded, HandleStepIsOK, OwnStepIsOK DEF HandleStep
<1>5. QED BY <1>1, <1>2, <1>3, <1>4 DEF FileNext, VersionsStep

(* The inductive invariant of the calls on trees and on files. *)
THEOREM FileInvariant == FileSpec => []FileInv
  BY FileInvInit, FileInvKept, PTL DEF FileSpec

(* The variables of the open files keep their types, also while the object *)
(* of a file is moved, deleted or overwritten by other programs.            *)
THEOREM FilesKeepTypes == FileSpec => []FileTypeOK
<1>1. FileInv => FileTypeOK
  BY DEF FileInv
<1>2. QED BY <1>1, FileInvariant, PTL

(* A Close that returned nil has uploaded all that was written since the    *)
(* Close before, in order, unless a Close of this file has failed.         *)
THEOREM CloseUploadsWrites == FileSpec => []CloseSavesWrites
<1>1. FileInv => CloseSavesWrites
  BY DEF FileInv, FileOK, BufferOK, CloseSavesWrites
<1>2. QED BY <1>1, FileInvariant, PTL

(* What is read from a file is the beginning of one version of the object   *)
(* of its key.                                                             *)
THEOREM OneVersionIsRead == FileSpec => []ReadsOneVersion
<1>1. ASSUME FileInv, NEW c \in Callers, past[c].got # <<>>
      PROVE  \E v \in versions : v.key = FileKey(c) /\ IsPrefix(past[c].got, v.data)
  <2> DEFINE r == handle[c].reader
  <2>1. /\ ReaderOK(c) /\ r \in Readers /\ r.data \in Seq(Pieces) /\ r.at \in Nat
    BY <1>1, FileIsTyped DEF FileInv, FileOK, Readers
  <2>2. /\ Version(FileKey(c), r.data) \in versions
        /\ past[c].got = SubSeq(r.data, 1, r.at)
        /\ r.at <= Len(r.data)
    BY <1>1, <2>1 DEF ReaderOK
  <2> HIDE DEF r
  <2>3. \A i \in 1..r.at : r.data[i] \in Pieces
    BY <2>1, <2>2
  <2>4. /\ past[c].got \in Seq(Pieces) /\ Len(past[c].got) = r.at
        /\ \A i \in 1..r.at : past[c].got[i] = r.data[i]
    BY <2>1, <2>2, <2>3, SubSeqProperties
  <2>5. IsPrefix(past[c].got, r.data)
    BY <2>1, <2>2, <2>4, PrefixMeans
  <2>6. /\ Version(FileKey(c), r.data).key = FileKey(c)
        /\ Version(FileKey(c), r.data).data = r.data
    BY DEF Version
  <2>7. QED BY <2>2, <2>5, <2>6
<1>2. FileInv => ReadsOneVersion
  BY <1>1 DEF ReadsOneVersion
<1>3. QED BY <1>2, FileInvariant, PTL

(* A property that was added is found as long as its object stands: it is   *)
(* undone at most by an addition that had read the object before.          *)
THEOREM AddedPropertiesStay == FileSpec => []PropertiesAccumulate
<1>1. FileInv => PropertiesAccumulate
  BY DEF FileInv, AllFound, PropertiesAccumulate, GetProperty
<1>2. QED BY <1>1, FileInvariant, PTL

(* No call, however deep its recursion, reaches outside its tree: it deletes *)
(* the source and what lies under it, and what it writes is the copy of an  *)
(* object of the source at that object's own place, or the one object it is *)
(* asked to make.                                                          *)
THEOREM CallsStayInside == FileSpec => OnlyInside
<1> DEFINE Guarded ==
             \A k \in DOMAIN objects \union DOMAIN objects' :
                 Differs(k) => \E c \in Callers :
                     /\ Steps(c)
                     /\ IF k \in DOMAIN objects'
                        THEN IsCopy(task[c], k) \/ MayMake(task[c], k)
                        ELSE MayDelete(task[c], k)
<1>1. ASSUME FileInv, NEW c \in Callers, TreeStep(c)
      PROVE  Guarded
  <2>1. ASSUME NEW k \in DOMAIN objects \union DOMAIN objects', Differs(k)
        PROVE  stack'[c] # stack[c] /\ Licensed(task[c], k)
    BY <1>1, <2>1, TreeStepMeans DEF TreeStep
  <2>2. stack'[c] # stack[c] => Steps(c)
    BY DEF Steps
  <2>3. QED BY <2>1, <2>2 DEF Licensed
<1>2. ASSUME FileInv, NEW c \in Callers, HandleStep(c), VersionsStep
      PROVE  Guarded
  <2>1. BucketStep(c)
    BY <1>2, HandleStepIsOK DEF OwnStep
  <2>2. UNCHANGED objects \/ Steps(c)
    BY <1>2, FileChangesShow
  <2>3. QED BY <2>1, <2>2 DEF BucketStep, Licensed, Differs
<1>3. FileInv /\ [FileNext]_fileVars => [Guarded]_fileVars
  BY <1>1, <1>2 DEF FileNext, HandleStep, VersionsStep, Finished, vars, Differs
<1>4. QED BY <1>3, FileInvariant, PTL DEF FileSpec, OnlyInside
-----------------------------------------------------------------------------
(***************************************************************************)
(* What becomes of the objects of a tree that is copied, moved or deleted,  *)
(* while other programs work on trees and on files.                        *)
(***************************************************************************)

LEMMA FateInit == FileInit => FateInv
  BY FateStart DEF FileInit

LEMMA HandleStepKeepsFate ==
    ASSUME FileInv, FateInv, NEW c \in Callers, HandleStep(c), VersionsStep
    PROVE  FateInv'
<1>1. HasFile(c) /\ BucketStep(c) /\ UNCHANGED <<stack, result>> /\ TreeInv
  BY HandleStepIsOK DEF OwnStep, FileInv
<1>2. FateOK(c)'
  <2>1. SameCall(c) /\ touched[c] \subseteq touched'[c]
    BY <1>1 DEF BucketStep, callVars, SameCall
  <2>2. ~Transfers(c) /\ ~Deletes(c)
    BY <1>1 DEF HasFile, Transfers, Deletes
  <2>3. Shape(task[c], stack'[c])
    BY <1>1 DEF FateInv, FateOK
  <2>4. QED BY <2>1, <2>2, <2>3, NoClaimIsOK
<1>3. ASSUME NEW d \in Callers \ {c} PROVE FateOK(d)'
  <2>1. SamePlace(d) /\ FateOK(d)
    BY <1>1 DEF SamePlace, FateInv
  <2>2. QED BY <1>1, <2>1, OthersKeepFate
<1>4. QED BY <1>2, <1>3 DEF FateInv

LEMMA FateKept == FileInv /\ FateInv /\ [FileNext]_fileVars => FateInv'
<1> SUFFICES ASSUME FileInv, FateInv, [FileNext]_fileVars PROVE FateInv'
  OBVIOUS
<1>1. TreeInv
  BY DEF FileInv
<1>2. CASE UNCHANGED vars
  BY <1>1, <1>2, FateRests
<1>3. ASSUME NEW c \in Callers, TreeStep(c) PROVE FateInv'
  BY <1>1, <1>3, FateNext DEF TreeStep
<1>4. ASSUME NEW c \in Callers, HandleStep(c), VersionsStep PROVE FateInv'
  BY <1>4, HandleStepKeepsFate
<1>5. QED BY <1>2, <1>3, <1>4 DEF FileNext, HandleStep, Finished, VersionsStep, fileVars

(* The inductive invariant of the calls on trees: what the frames of a call *)
(* have still ahead makes up for what is not copied, or not deleted, yet.   *)
THEOREM FateInvariant == FileSpec => []FateInv
  BY FateInit, FateKept, FileInvariant, PTL DEF FileSpec

(* A call that moves runs its Copy, then its Delete, and then has a result. *)
LEMMA MoveMeans ==
    ASSUME TreeInv, NEW c \in Callers, FateOK(c), Transfers(c), task[c].op = "Move",
           NEW k \in Files(c, task[c].src), LeftAlone(c, k)
    PROVE  Unchanged(c, k) \/ Copied(c, k)
<1>1. CASE Copying(c)
  BY <1>1, FilesMean DEF FateOK, CopyInv, SourceStays
<1>2. CASE Deleting(c) \/ result[c] = "ok"
  BY <1>2 DEF FateOK, CopyInv, AllCopied
<1>3. CASE result[c] = "error"
  BY <1>3 DEF FateOK, CopyInv, NoneLost
<1>4. CASE result[c] = "none" /\ ~Copying(c) /\ ~Deleting(c)
  <2>1. stack[c] # <<>>
    BY <1>4 DEF FateOK, CopyInv
  <2>2. FrameOK(task[c], stack[c][1])
    <3>1. Len(stack[c]) \in Nat \ {0} /\ StackOK(task[c], stack[c])
      BY <2>1, TopIsOK DEF TreeInv, Running
    <3>2. 1 \in 1..Len(stack[c])
      BY <3>1
    <3>3. QED BY <3>1, <3>2 DEF StackOK
  <2>3. stack[c][1].fn \in {"Copy", "Delete"}
    BY <2>2 DEF FrameOK, FrameInside, Frames
  <2>4. QED BY <1>4, <2>1, <2>3 DEF Copying, Deleting
<1>5. result[c] \in {"none", "ok", "error"}
  BY DEF TreeInv, TypeOK
<1>6. QED BY <1>1, <1>2, <1>3, <1>4, <1>5

(* A Move never loses a file that others leave alone, wherever it is when   *)
(* a request fails and whatever others do elsewhere.                       *)
THEOREM MoveLosesNothing == FileSpec => []NothingLost
<1>1. FileInv /\ FateInv => NothingLost
  BY MoveMeans DEF FileInv, FateInv, NothingLost, Transfers
<1>2. QED BY <1>1, FileInvariant, FateInvariant, PTL

(* A Copy that reports success has copied every file of the tree.          *)
THEOREM CopiesAreComplete == FileSpec => []CopyIsComplete
<1>1. FateInv => CopyIsComplete
  BY DEF FateInv, FateOK, CopyInv, AllCopied, CopyIsComplete, Transfers
<1>2. QED BY <1>1, FateInvariant, PTL

(* A Delete, DeleteAll or Move that reports success leaves nothing of the   *)
(* tree where it was.                                                      *)
THEOREM DeletesAreComplete == FileSpec => []DeletedIsGone
<1>1. FateInv => DeletedIsGone
  BY DEF FateInv, FateOK, DeleteInv, AllGone, DeletedIsGone, Deletes
<1>2. QED BY <1>1, FateInvariant, PTL
=============================================================================
