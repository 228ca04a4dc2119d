---------------------------- MODULE MCStorageTree ----------------------------
(* Small instances of StorageTree and StorageFile for TLC. *)
EXTENDS StorageFile

MCOrder == <<"/", "a", "b", "d", "f">>
MCTokens == {"/", "a", "b", "d", "f"}

Af == <<"a", "/", "f">>
Abf == <<"a", "/", "b", "/", "f">>
Ab == <<"a", "b">>                     \* the file ab, a neighbour of a/
Marker == <<"a", "/">>
NestedMarker == <<"a", "/", "b", "/">>

(* Every object holds two pieces that begin with its own key. *)
First(k) == Append(k, 1)
Second(k) == Append(k, 2)
Holding(keys) ==
    [k \in keys |-> [data |-> <<First(k), Second(k)>>, props |-> {}]]

(* Directories with and without markers, and a plain file. *)
MCBuckets == {Holding({Marker, Af, Abf, Ab}),
              Holding({Marker, NestedMarker, Abf, Af}),
              Holding({<<"a">>, Ab})}

Task(op, src, dst) == [op |-> op, src |-> src, dst |-> dst]
MCTasks == {Task("Copy", Marker, <<"d", "/">>),
            Task("Copy", Marker, <<"d">>),
            Task("Move", Marker, <<"d", "/">>),
            Task("Move", <<"a">>, <<"d">>),
            Task("Move", Marker, NestedMarker),
            Task("Delete", <<"a">>, <<>>),
            Task("DeleteAll", Marker, <<>>),
            Task("DeleteMatching", <<>>, <<>>),
            Task("Create", Af, <<>>),
            Task("MkdirAll", <<"a", "/", "b">>, <<>>),
            Task("MkdirAll", <<>>, <<>>),
            Task("Open", Abf, <<>>)}
MCWritten == {<<3>>}
MCPieces ==
    MCWritten \union UNION {UNION {{First(k), Second(k)} : k \in DOMAIN b} : b \in MCBuckets}

MCMatching == {Af, Ab}

Symmetry == Permutations(Callers) \union Permutations(Names)
=============================================================================
