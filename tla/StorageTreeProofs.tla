--------------------------- MODULE StorageTreeProofs ---------------------------
(***************************************************************************)
(* Proofs about StorageTree, for any keys, any contents of the bucket, any  *)
(* programs and any number of failing requests: the order in which Cloud   *)
(* Storage lists keys is one, so that a listing names every object once;    *)
(* the frames of the recursive calls stay inside the tree of the call that  *)
(* made them; and so no call changes an object outside its tree.           *)
(***************************************************************************)
EXTENDS StorageTree, OrderLemmas, SequenceTheorems

-----------------------------------------------------------------------------
(***************************************************************************)
(* Prefixes and keys.                                                      *)
(***************************************************************************)

LEMMA PrefixMeans ==
    ASSUME NEW S, NEW s \in Seq(S), NEW t \in Seq(S)
    PROVE  IsPrefix(s, t) <=> Len(s) <= Len(t) /\ \A i \in 1..Len(s) : s[i] = t[i]
<1>1. SubSeq(s, 1, Len(s)) = s
  BY SubSeqFull
<1>2. ASSUME Len(s) <= Len(t)
      PROVE  /\ SubSeq(t, 1, Len(s)) \in Seq(S) /\ Len(SubSeq(t, 1, Len(s))) = Len(s)
             /\ \A i \in 1..Len(s) : SubSeq(t, 1, Len(s))[i] = t[i]
  <2>1. \A i \in 1..Len(s) : t[i] \in S
    BY <1>2, ElementOfSeq
  <2>2. QED BY <2>1, SubSeqProperties
<1>3. ASSUME IsPrefix(s, t) PROVE Len(s) <= Len(t) /\ \A i \in 1..Len(s) : s[i] = t[i]
  BY <1>1, <1>2, <1>3 DEF IsPrefix
<1>4. ASSUME Len(s) <= Len(t), \A i \in 1..Len(s) : s[i] = t[i] PROVE IsPrefix(s, t)
  BY <1>1, <1>2, <1>4, SeqEqual DEF IsPrefix
<1>5. QED BY <1>3, <1>4

LEMMA PrefixTransitive ==
    ASSUME NEW S, NEW s \in Seq(S), NEW t \in Seq(S), NEW u \in Seq(S),
           IsPrefix(s, t), IsPrefix(t, u)
    PROVE  IsPrefix(s, u)
<1>1. /\ Len(s) <= Len(t) /\ \A i \in 1..Len(s) : s[i] = t[i]
      /\ Len(t) <= Len(u) /\ \A i \in 1..Len(t) : t[i] = u[i]
  BY PrefixMeans
<1>2. Len(s) <= Len(u) /\ \A i \in 1..Len(s) : s[i] = u[i]
  BY <1>1
<1>3. QED BY <1>2, PrefixMeans

LEMMA PrefixOfConcat ==
    ASSUME NEW S, NEW s \in Seq(S), NEW t \in Seq(S)
    PROVE  s \o t \in Seq(S) /\ IsPrefix(s, s \o t)
<1>1. /\ s \o t \in Seq(S) /\ Len(s \o t) = Len(s) + Len(t)
      /\ \A i \in 1..Len(s) + Len(t) :
            (s \o t)[i] = IF i <= Len(s) THEN s[i] ELSE t[i - Len(s)]
  BY ConcatProperties
<1>2. Len(s) <= Len(s \o t) /\ \A i \in 1..Len(s) : s[i] = (s \o t)[i]
  BY <1>1
<1>3. QED BY <1>1, <1>2, PrefixMeans

LEMMA SlashIsKept ==
    ASSUME NEW k \in Keys
    PROVE  WithSlash(k) \in Keys /\ IsPrefix(k, WithSlash(k)) /\ IsPrefix(k, k)
<1>1. "/" \in Tokens
  BY SlashAssumption
<1>2. Append(k, "/") = k \o <<"/">> /\ <<"/">> \in Keys
  BY <1>1, AppendIsConcat DEF Keys
<1>3. Append(k, "/") \in Keys /\ IsPrefix(k, Append(k, "/"))
  BY <1>2, PrefixOfConcat DEF Keys
<1>4. IsPrefix(k, k)
  BY PrefixMeans DEF Keys
<1>5. QED BY <1>3, <1>4 DEF WithSlash
-----------------------------------------------------------------------------
(***************************************************************************)
(* The order of the keys.                                                  *)
(***************************************************************************)

Begins(j, k) == Len(j) < Len(k) /\ \A m \in 1..Len(j) : j[m] = k[m]
PartAt(j, k, i) ==
    /\ i \in 1..Len(j) /\ i \in 1..Len(k)
    /\ \A m \in 1..(i - 1) : j[m] = k[m]
    /\ Rank(j[i]) < Rank(k[i])
KeyOrder(keys) == {p \in keys \X keys : Precedes(p[1], p[2])}

(* No two tokens have the same rank. *)
LEMMA RanksDiffer ==
    /\ \A t \in Tokens : Rank(t) \in Nat
    /\ \A s, t \in Tokens : Rank(s) = Rank(t) => s = t
<1>1. DOMAIN Order \subseteq Nat
  BY OrderAssumption
<1>2. ASSUME NEW t \in Tokens PROVE Rank(t) \in DOMAIN Order /\ Order[Rank(t)] = t
  BY OrderAssumption DEF Rank
<1>3. QED BY <1>1, <1>2

LEMMA BeginningsAgree ==
    ASSUME NEW j \in Keys, NEW k \in Keys, NEW i \in 1..Len(j), i \in 1..Len(k)
    PROVE  SubSeq(j, 1, i - 1) = SubSeq(k, 1, i - 1)
              <=> \A m \in 1..(i - 1) : j[m] = k[m]
<1>1. /\ \A m \in 1..(i - 1) : j[m] \in Tokens /\ k[m] \in Tokens
      /\ i \in Int
  BY DEF Keys
<1>2. /\ SubSeq(j, 1, i - 1) \in Seq(Tokens) /\ Len(SubSeq(j, 1, i - 1)) = i - 1
      /\ \A m \in 1..(i - 1) : SubSeq(j, 1, i - 1)[m] = j[m]
  BY <1>1, SubSeqProperties
<1>3. /\ SubSeq(k, 1, i - 1) \in Seq(Tokens) /\ Len(SubSeq(k, 1, i - 1)) = i - 1
      /\ \A m \in 1..(i - 1) : SubSeq(k, 1, i - 1)[m] = k[m]
  BY <1>1, SubSeqProperties
<1>4. QED BY <1>2, <1>3, SeqEqual

LEMMA PrecedesMeans ==
    ASSUME NEW j \in Keys, NEW k \in Keys
    PROVE  Precedes(j, k) <=> Begins(j, k) \/ \E i \in Nat : PartAt(j, k, i)
<1>1. IsStrictPrefix(j, k) <=> Begins(j, k)
  <2>1. IsPrefix(j, k) <=> Len(j) <= Len(k) /\ \A i \in 1..Len(j) : j[i] = k[i]
    BY PrefixMeans DEF Keys
  <2>2. ASSUME Len(j) = Len(k), \A i \in 1..Len(j) : j[i] = k[i] PROVE j = k
    BY <2>2, SeqEqual DEF Keys
  <2>3. QED BY <2>1, <2>2 DEF IsStrictPrefix, Begins, Keys
<1>2. DOMAIN j \intersect DOMAIN k = {i \in Nat : i \in 1..Len(j) /\ i \in 1..Len(k)}
  BY DEF Keys
<1>3. QED BY <1>1, <1>2, BeginningsAgree DEF Precedes, PartAt

LEMMA PrecedesTransitive ==
    ASSUME NEW j \in Keys, NEW k \in Keys, NEW l \in Keys,
           Precedes(j, k), Precedes(k, l)
    PROVE  Precedes(j, l)
<1>1. /\ Len(j) \in Nat /\ Len(k) \in Nat /\ Len(l) \in Nat
      /\ \A i \in 1..Len(j) : Rank(j[i]) \in Nat
      /\ \A i \in 1..Len(k) : Rank(k[i]) \in Nat
      /\ \A i \in 1..Len(l) : Rank(l[i]) \in Nat
  BY RanksDiffer DEF Keys
<1>2. CASE Begins(j, k) /\ Begins(k, l)
  <2>1. Begins(j, l)
    BY <1>1, <1>2 DEF Begins
  <2>2. QED BY <2>1, PrecedesMeans
<1>3. ASSUME NEW i \in Nat, Begins(j, k), PartAt(k, l, i)
      PROVE  Precedes(j, l)
  <2>1. CASE i <= Len(j)
    <3>1. PartAt(j, l, i)
      BY <1>1, <1>3, <2>1 DEF Begins, PartAt
    <3>2. QED BY <3>1, PrecedesMeans
  <2>2. CASE i > Len(j)
    <3>1. Begins(j, l)
      BY <1>1, <1>3, <2>2 DEF Begins, PartAt
    <3>2. QED BY <3>1, PrecedesMeans
  <2>3. QED BY <1>1, <2>1, <2>2
<1>4. ASSUME NEW i \in Nat, PartAt(j, k, i), Begins(k, l)
      PROVE  Precedes(j, l)
  <2>1. PartAt(j, l, i)
    BY <1>1, <1>4 DEF Begins, PartAt
  <2>2. QED BY <2>1, PrecedesMeans
<1>5. ASSUME NEW i \in Nat, NEW n \in Nat, PartAt(j, k, i), PartAt(k, l, n)
      PROVE  Precedes(j, l)
  <2>1. CASE i < n
    <3>1. PartAt(j, l, i)
      BY <1>1, <1>5, <2>1 DEF PartAt
    <3>2. QED BY <3>1, PrecedesMeans
  <2>2. CASE i = n
    <3>1. PartAt(j, l, i)
      BY <1>1, <1>5, <2>2 DEF PartAt
    <3>2. QED BY <3>1, PrecedesMeans
  <2>3. CASE i > n
    <3>1. PartAt(j, l, n)
      BY <1>1, <1>5, <2>3 DEF PartAt
    <3>2. QED BY <3>1, PrecedesMeans
  <2>4. QED BY <2>1, <2>2, <2>3
<1>6. QED BY <1>2, <1>3, <1>4, <1>5, PrecedesMeans

(* Of two keys one precedes the other: where they first differ, or where    *)
(* the shorter one ends.                                                   *)
LEMMA PrecedesTotal ==
    ASSUME NEW j \in Keys, NEW k \in Keys
    PROVE  j = k \/ Precedes(j, k) \/ Precedes(k, j)
<1> DEFINE D == {i \in Nat : i \in 1..Len(j) /\ i \in 1..Len(k) /\ j[i] # k[i]}
<1>1. Len(j) \in Nat /\ Len(k) \in Nat
  BY DEF Keys
<1>2. CASE D = {}
  <2>1. \A i \in 1..Len(j) : i <= Len(k) => j[i] = k[i]
    BY <1>1, <1>2
  <2>2. CASE Len(j) = Len(k)
    BY <1>1, <2>1, <2>2, SeqEqual DEF Keys
  <2>3. CASE Len(j) < Len(k)
    BY <1>1, <2>1, <2>3, PrecedesMeans DEF Begins
  <2>4. CASE Len(j) > Len(k)
    <3>1. Begins(k, j)
      BY <1>1, <2>1, <2>4 DEF Begins
    <3>2. QED BY <3>1, PrecedesMeans
  <2>5. QED BY <1>1, <2>2, <2>3, <2>4
<1>3. CASE D # {}
  <2>1. PICK i \in D : \A m \in D : i <= m
    BY <1>3, LeastNat
  <2>2. /\ i \in Nat /\ i \in 1..Len(j) /\ i \in 1..Len(k) /\ j[i] # k[i]
        /\ \A m \in 1..(i - 1) : j[m] = k[m]
    BY <1>1, <2>1
  <2>3. /\ j[i] \in Tokens /\ k[i] \in Tokens
    BY <2>2 DEF Keys
  <2>4. Rank(j[i]) < Rank(k[i]) \/ Rank(k[i]) < Rank(j[i])
    BY <2>2, <2>3, RanksDiffer
  <2>5. PartAt(j, k, i) \/ PartAt(k, j, i)
    BY <2>2, <2>4 DEF PartAt
  <2>6. QED BY <2>2, <2>5, PrecedesMeans
<1>4. QED BY <1>2, <1>3

LEMMA KeysAreOrdered ==
    ASSUME NEW keys \in SUBSET Keys
    PROVE  Orders(KeyOrder(keys), keys)
<1>1. ASSUME NEW k \in keys PROVE ~Precedes(k, k)
  <2>1. ~Begins(k, k) /\ \A i \in Nat : ~PartAt(k, k, i)
    BY RanksDiffer DEF Begins, PartAt, Keys
  <2>2. QED BY <2>1, PrecedesMeans
<1>2. QED BY <1>1, PrecedesTransitive, PrecedesTotal DEF Orders, KeyOrder

(* A listing has each key exactly once. *)
LEMMA ListingIsExact ==
    ASSUME NEW keys \in SUBSET Keys, IsFiniteSet(keys)
    PROVE  /\ InOrder(keys) \in Seq(keys)
           /\ Len(InOrder(keys)) = Cardinality(keys)
           /\ \A k \in keys : \E i \in 1..Cardinality(keys) : InOrder(keys)[i] = k
           /\ \A h, i \in 1..Cardinality(keys) :
                 InOrder(keys)[h] = InOrder(keys)[i] => h = i
<1> DEFINE n == Cardinality(keys)
           R == KeyOrder(keys)
<1>1. n \in Nat
  BY FS_CardinalityType
<1>2. ASSUME NEW k \in keys
      PROVE  {j \in keys : Precedes(j, k)} = Below(R, keys, k)
  BY DEF Below, KeyOrder
<1>3. /\ \A x, y \in keys : Position(R, keys, x) = Position(R, keys, y) => x = y
      /\ \A x \in keys : Position(R, keys, x) \in 0..(n - 1)
      /\ \A i \in 0..(n - 1) : \E x \in keys : Position(R, keys, x) = i
  BY KeysAreOrdered, PositionsAreTaken
<1> HIDE DEF R, n
<1>4. ASSUME NEW k \in keys
      PROVE  Cardinality({j \in keys : Precedes(j, k)}) = Position(R, keys, k)
  BY <1>2 DEF Position
<1> DEFINE at(i) == CHOOSE k \in keys : Cardinality({j \in keys : Precedes(j, k)}) = i - 1
<1>5. ASSUME NEW i \in 1..n
      PROVE  at(i) \in keys /\ Position(R, keys, at(i)) = i - 1
  <2>1. i - 1 \in 0..(n - 1)
    BY <1>1
  <2>2. PICK x \in keys : Cardinality({j \in keys : Precedes(j, x)}) = i - 1
    BY <1>3, <1>4, <2>1
  <2>3. at(i) \in keys /\ Cardinality({j \in keys : Precedes(j, at(i))}) = i - 1
    BY <2>2
  <2>4. QED BY <1>4, <2>3
<1>6. InOrder(keys) = [i \in 1..n |-> at(i)]
  BY DEF InOrder, n
<1> HIDE DEF at
<1>7. InOrder(keys) \in Seq(keys) /\ Len(InOrder(keys)) = n
  BY <1>1, <1>5, <1>6
<1>8. ASSUME NEW k \in keys PROVE \E i \in 1..n : InOrder(keys)[i] = k
  <2>1. Position(R, keys, k) \in 0..(n - 1) /\ Position(R, keys, k) + 1 \in 1..n
    BY <1>1, <1>3
  <2>2. at(Position(R, keys, k) + 1) = k
    BY <1>3, <1>5, <2>1
  <2>3. QED BY <1>6, <2>1, <2>2
<1>9. ASSUME NEW h \in 1..n, NEW i \in 1..n, InOrder(keys)[h] = InOrder(keys)[i]
      PROVE  h = i
  BY <1>5, <1>6, <1>9
<1>10. QED BY <1>7, <1>8, <1>9 DEF n
-----------------------------------------------------------------------------
(***************************************************************************)
(* What a key has after a prefix, and where Copy puts it.                  *)
(***************************************************************************)

Rest(s, k) == SubSeq(k, Len(s) + 1, Len(k))

LEMMA KeysAssociate ==
    ASSUME NEW k \in Keys, NEW l \in Keys, NEW m \in Keys
    PROVE  (k \o l) \o m = k \o (l \o m)
<1>1. k \in Seq(Tokens) /\ l \in Seq(Tokens) /\ m \in Seq(Tokens)
  BY DEF Keys
<1>2. QED BY ONLY <1>1, ConcatAssociative

LEMMA RestOfConcat ==
    ASSUME NEW s \in Keys, NEW r \in Keys
    PROVE  s \o r \in Keys /\ IsPrefix(s, s \o r) /\ Rest(s, s \o r) = r
<1> DEFINE k == s \o r
<1>1. /\ k \in Keys /\ IsPrefix(s, k) /\ Len(k) = Len(s) + Len(r)
      /\ \A i \in 1..Len(s) + Len(r) :
            k[i] = IF i <= Len(s) THEN s[i] ELSE r[i - Len(s)]
      /\ Len(s) \in Nat /\ Len(r) \in Nat
  BY PrefixOfConcat, ConcatProperties DEF Keys
<1> HIDE DEF k
<1>2. \A i \in Len(s) + 1 .. Len(k) : k[i] \in Tokens
  BY <1>1 DEF Keys
<1>3. Len(k) \in Int /\ Len(s) + 1 \in Int
  BY <1>1
<1>4. /\ Rest(s, k) \in Keys
      /\ Len(Rest(s, k)) = IF Len(s) + 1 <= Len(k) THEN Len(k) - (Len(s) + 1) + 1 ELSE 0
      /\ \A i \in 1 .. Len(k) - (Len(s) + 1) + 1 : Rest(s, k)[i] = k[Len(s) + 1 + i - 1]
  BY <1>2, <1>3, SubSeqProperties DEF Keys, Rest
<1>5. Len(Rest(s, k)) = Len(r) /\ \A i \in 1..Len(r) : Rest(s, k)[i] = r[i]
  <2> DEFINE u == Rest(s, k)
  <2> HIDE DEF u
  <2>1. Len(u) = Len(r)
    BY <1>1, <1>4 DEF u
  <2>2. ASSUME NEW i \in 1..Len(r) PROVE u[i] = r[i]
    <3>1. i \in 1 .. Len(k) - (Len(s) + 1) + 1 /\ Len(s) + 1 + i - 1 = Len(s) + i
      BY <1>1
    <3>2. u[i] = k[Len(s) + i]
      BY <1>4, <3>1 DEF u
    <3>3. Len(s) + i \in 1..Len(s) + Len(r) /\ ~(Len(s) + i <= Len(s)) /\ Len(s) + i - Len(s) = i
      BY <1>1
    <3>4. k[Len(s) + i] = r[i]
      BY <1>1, <3>3
    <3>5. QED BY <3>2, <3>4
  <2>3. QED BY <2>1, <2>2 DEF u
<1>6. Rest(s, k) = r
  BY <1>4, <1>5, SeqEqual DEF Keys
<1>7. QED BY <1>1, <1>6 DEF k

LEMMA PrefixAndRest ==
    ASSUME NEW s \in Keys, NEW k \in Keys, IsPrefix(s, k)
    PROVE  Rest(s, k) \in Keys /\ k = s \o Rest(s, k)
<1> DEFINE r == Rest(s, k)
<1>1. /\ Len(s) <= Len(k) /\ \A i \in 1..Len(s) : s[i] = k[i]
      /\ Len(s) \in Nat /\ Len(k) \in Nat
  BY PrefixMeans DEF Keys
<1>2. \A i \in Len(s) + 1 .. Len(k) : k[i] \in Tokens
  BY <1>1 DEF Keys
<1>3. Len(k) \in Int /\ Len(s) + 1 \in Int
  BY <1>1
<1>4. /\ r \in Keys
      /\ Len(r) = IF Len(s) + 1 <= Len(k) THEN Len(k) - (Len(s) + 1) + 1 ELSE 0
      /\ \A i \in 1 .. Len(k) - (Len(s) + 1) + 1 : r[i] = k[Len(s) + 1 + i - 1]
  BY <1>2, <1>3, SubSeqProperties DEF Keys, Rest
<1>5. Len(r) = Len(k) - Len(s)
  BY <1>1, <1>4
<1> HIDE DEF r
<1>6. /\ s \o r \in Keys /\ Len(s \o r) = Len(s) + Len(r)
      /\ \A i \in 1..Len(s) + Len(r) :
            (s \o r)[i] = IF i <= Len(s) THEN s[i] ELSE r[i - Len(s)]
  BY <1>4, ConcatProperties DEF Keys
<1>7. ASSUME NEW i \in 1..Len(k) PROVE (s \o r)[i] = k[i]
  <2>1. CASE i <= Len(s)
    BY <1>1, <1>5, <1>6, <2>1
  <2>2. CASE ~(i <= Len(s))
    <3>1. i - Len(s) \in 1..Len(k) - (Len(s) + 1) + 1 /\ Len(s) + 1 + (i - Len(s)) - 1 = i
      BY <1>1, <2>2
    <3>2. r[i - Len(s)] = k[i]
      BY <1>4, <3>1
    <3>3. i \in 1..Len(s) + Len(r) /\ ~(i <= Len(s))
      BY <1>1, <1>5, <2>2
    <3>4. (s \o r)[i] = r[i - Len(s)]
      BY <1>6, <3>3
    <3>5. QED BY <3>2, <3>4
  <2>3. QED BY ONLY <2>1, <2>2
<1>8. Len(s \o r) = Len(k)
  BY <1>1, <1>5, <1>6
<1>9. s \o r = k
  BY <1>6, <1>7, <1>8, SeqEqual DEF Keys
<1>10. QED BY <1>4, <1>9 DEF r

(* Two prefixes of one key: one of them is a prefix of the other. *)
LEMMA PrefixesCompare ==
    ASSUME NEW s \in Keys, NEW u \in Keys, NEW k \in Keys, IsPrefix(s, k), IsPrefix(u, k)
    PROVE  IsPrefix(s, u) \/ IsPrefix(u, s)
<1>1. /\ Len(s) <= Len(k) /\ \A i \in 1..Len(s) : s[i] = k[i]
      /\ Len(u) <= Len(k) /\ \A i \in 1..Len(u) : u[i] = k[i]
      /\ Len(s) \in Nat /\ Len(u) \in Nat
  BY PrefixMeans DEF Keys
<1>2. CASE Len(s) <= Len(u)
  <2>1. \A i \in 1..Len(s) : s[i] = u[i]
    BY <1>1, <1>2
  <2>2. QED BY <1>2, <2>1, PrefixMeans DEF Keys
<1>3. CASE Len(u) <= Len(s)
  <2>1. \A i \in 1..Len(u) : u[i] = s[i]
    BY <1>1, <1>3
  <2>2. QED BY <1>3, <2>1, PrefixMeans DEF Keys
<1>4. QED BY <1>1, <1>2, <1>3

CallTasks == [op : Operations, src : Keys, dst : Keys]

LEMMA InsideMeans ==
    ASSUME NEW t \in CallTasks, NEW k \in Keys, Inside(t, k)
    PROVE  IsPrefix(t.src, k)
<1>1. t.src \in Keys /\ WithSlash(t.src) \in Keys /\ IsPrefix(t.src, WithSlash(t.src))
  BY SlashIsKept DEF CallTasks
<1>2. CASE k = t.src
  BY <1>1, <1>2, SlashIsKept
<1>3. CASE IsPrefix(WithSlash(t.src), k)
  BY <1>1, <1>3, PrefixTransitive DEF Keys
<1>4. QED BY <1>2, <1>3 DEF Inside

LEMMA InsideIsKept ==
    ASSUME NEW t \in CallTasks, NEW k \in Keys, NEW j \in Keys,
           Inside(t, k), IsPrefix(WithSlash(k), j)
    PROVE  Inside(t, j)
<1>1. t.src \in Keys /\ WithSlash(t.src) \in Keys
  BY SlashIsKept DEF CallTasks
<1>2. WithSlash(k) \in Keys /\ IsPrefix(k, WithSlash(k))
  BY SlashIsKept
<1>3. IsPrefix(k, j)
  BY <1>2, PrefixTransitive DEF Keys
<1>4. CASE k = t.src
  BY <1>4 DEF Inside
<1>5. CASE IsPrefix(WithSlash(t.src), k)
  <2>1. IsPrefix(WithSlash(t.src), j)
    BY <1>1, <1>3, <1>5, PrefixTransitive DEF Keys
  <2>2. QED BY <2>1 DEF Inside
<1>6. QED BY <1>4, <1>5 DEF Inside

(* The place of a key is the destination and what the key has after the     *)
(* source.                                                                 *)
LEMMA ImageMeans ==
    ASSUME NEW t \in CallTasks, NEW k \in Keys, IsPrefix(t.src, k)
    PROVE  /\ Rest(t.src, k) \in Keys /\ k = t.src \o Rest(t.src, k)
           /\ Image(t, k) = t.dst \o Rest(t.src, k) /\ Image(t, k) \in Keys
           /\ \A r \in Keys : k \o r \in Keys /\ Image(t, k \o r) = Image(t, k) \o r
<1> DEFINE x == Rest(t.src, k)
<1>1. t.src \in Keys /\ t.dst \in Keys
  BY DEF CallTasks
<1>2. x \in Keys /\ k = t.src \o x
  BY <1>1, PrefixAndRest
<1>3. Image(t, k) = t.dst \o x
  BY DEF Image, Rest
<1> HIDE DEF x
<1>4. t.dst \o x \in Keys
  BY <1>1, <1>2, RestOfConcat
<1>5. ASSUME NEW r \in Keys PROVE k \o r \in Keys /\ Image(t, k \o r) = Image(t, k) \o r
  <2>1. k \o r \in Keys
    BY RestOfConcat
  <2>2. x \o r \in Keys
    BY <1>2, RestOfConcat
  <2>3. k \o r = t.src \o (x \o r)
    <3>1. t.src \in Keys /\ x \in Keys /\ r \in Keys
      BY <1>1, <1>2
    <3>2. (t.src \o x) \o r = t.src \o (x \o r)
      BY ONLY <3>1, KeysAssociate
    <3>3. QED BY ONLY <1>2, <3>2
  <2>4. Rest(t.src, t.src \o (x \o r)) = x \o r
    BY <1>1, <2>2, RestOfConcat
  <2>5. Image(t, k \o r) = t.dst \o (x \o r)
    BY <2>3, <2>4 DEF Image, Rest
  <2>6. t.dst \o (x \o r) = (t.dst \o x) \o r
    <3>1. t.dst \in Keys /\ x \in Keys /\ r \in Keys
      BY <1>1, <1>2
    <3>2. QED BY ONLY <3>1, KeysAssociate
  <2>7. QED BY <1>3, <2>1, <2>5, <2>6
<1>6. QED BY <1>2, <1>3, <1>4, <1>5 DEF x

(* A frame of Copy puts the keys of the source where they belong. *)
Puts(t, f) ==
    /\ Inside(t, f.key) /\ f.to = Image(t, f.key)
    /\ \A i \in 1..Len(f.todo) : IsPrefix(WithSlash(f.key), f.todo[i])

LEMMA MarkerIsKey ==
    ASSUME NEW k \in Keys
    PROVE  MarkerKey(k) \in Keys
<1>1. <<"/">> \in Keys
  BY SlashAssumption DEF Keys
<1>2. QED BY <1>1, SlashIsKept DEF MarkerKey

(* The source itself is put at the destination. *)
LEMMA SourceIsPut ==
    ASSUME NEW t \in CallTasks
    PROVE  Inside(t, t.src) /\ Image(t, t.src) = t.dst
<1>1. t.src \in Keys /\ t.dst \in Keys /\ <<>> \in Keys
  BY DEF CallTasks, Keys
<1>2. t.src \o <<>> = t.src /\ t.dst \o <<>> = t.dst
  BY <1>1, ConcatEmptySeq DEF Keys
<1>3. Rest(t.src, t.src) = <<>>
  BY <1>1, <1>2, RestOfConcat
<1>4. QED BY <1>2, <1>3 DEF Inside, Image, Rest

(* Where Copy puts a child is where it belongs. *)
LEMMA ChildIsPut ==
    ASSUME NEW t \in CallTasks, NEW f \in Frames, Puts(t, f), NEW k \in Keys,
           IsPrefix(WithSlash(f.key), k)
    PROVE  Inside(t, k) /\ DstKey(f, k) = Image(t, k) /\ Image(t, k) \in Keys
<1>1. f.key \in Keys /\ Inside(t, f.key) /\ f.to = Image(t, f.key)
  BY DEF Frames, Puts
<1>2. Inside(t, k)
  BY <1>1, InsideIsKept
<1>3. IsPrefix(f.key, k)
  <2>1. WithSlash(f.key) \in Keys /\ IsPrefix(f.key, WithSlash(f.key))
    BY <1>1, SlashIsKept
  <2>2. QED BY <1>1, <2>1, PrefixTransitive DEF Keys
<1> DEFINE r == Rest(f.key, k)
<1>4. r \in Keys /\ k = f.key \o r
  BY <1>1, <1>3, PrefixAndRest
<1>5. DstKey(f, k) = f.to \o r
  BY DEF DstKey, Rest
<1> HIDE DEF r
<1>6. IsPrefix(t.src, f.key)
  BY <1>1, InsideMeans
<1>7. Image(t, f.key) \in Keys /\ Image(t, f.key \o r) = Image(t, f.key) \o r
  BY <1>1, <1>4, <1>6, ImageMeans
<1>8. Image(t, k) = Image(t, f.key) \o r /\ Image(t, f.key) \o r \in Keys
  BY <1>4, <1>7, RestOfConcat
<1>9. QED BY <1>1, <1>2, <1>5, <1>8

-----------------------------------------------------------------------------
(***************************************************************************)
(* Frames.  Every frame on the stack of a call works inside the tree of     *)
(* the call, and a frame in its loop has a child at hand until it ends.     *)
(***************************************************************************)

(* What a child may be for the loop of f. *)
ChildOf(t, f, k) ==
    /\ f.fn = "Copy" => IsPrefix(WithSlash(f.key), k)
    /\ f.fn = "Delete" => Inside(t, k)
    /\ f.fn = "DeleteMatching" => IsPrefix(WithSlash(t.src), k) /\ k \in Matching

FrameInside(t, f) ==
    /\ f.fn = "Copy" =>
          t.op \in {"Copy", "Move"} /\ Inside(t, f.key) /\ f.to = Image(t, f.key)
    /\ f.fn = "Delete" => t.op \in {"Delete", "DeleteAll", "Move"} /\ Inside(t, f.key)
    /\ f.fn = "DeleteMatching" =>
          t.op = "DeleteMatching" /\ f.key = t.src /\ (f.listed \/ f.pc = "dir")
    /\ f.fn = "Create" => t.op = "Create" /\ f.key = t.src
    /\ f.fn = "MkdirAll" => t.op = "MkdirAll" /\ f.key = MarkerKey(t.src)
    /\ \A i \in 1..Len(f.todo) : ChildOf(t, f, f.todo[i])

FrameOK(t, f) ==
    /\ f \in Frames
    /\ f.listed /\ f.todo = <<>> => f.pc = "end"
    /\ FrameInside(t, f)

StackOK(t, s) == s \in Seq(Frames) /\ \A i \in 1..Len(s) : FrameOK(t, s[i])

TreeInv ==
    /\ TypeOK
    /\ \A c \in Callers :
          /\ StackOK(task[c], stack[c])
          /\ task[c] = NoTask => stack[c] = <<>> /\ result[c] = "none"
          /\ result[c] # "none" => stack[c] = <<>>

Begun(c) == task[c] \in [op : Operations, src : Keys, dst : Keys]

(* A call that runs has begun, and its innermost frame is in order. *)
LEMMA TopIsOK ==
    ASSUME TreeInv, NEW c \in Callers, Running(c)
    PROVE  /\ Begun(c) /\ result[c] = "none"
           /\ stack[c] \in Seq(Frames) /\ FrameOK(task[c], Top(c)) /\ Top(c) \in Frames
           /\ Front(stack[c]) \in Seq(Frames) /\ Len(Front(stack[c])) = Len(stack[c]) - 1
           /\ \A i \in 1..(Len(stack[c]) - 1) : Front(stack[c])[i] = stack[c][i]
           /\ Len(stack[c]) \in Nat \ {0}
<1>1. Begun(c) /\ result[c] = "none"
  BY TasksAssumption DEF TreeInv, TypeOK, Running, Begun
<1>2. stack[c] \in Seq(Frames) /\ stack[c] # <<>> /\ StackOK(task[c], stack[c])
  BY DEF TreeInv, TypeOK, Running
<1>3. Len(stack[c]) \in Nat \ {0}
  BY <1>2, EmptySeq
<1>4. FrameOK(task[c], Top(c)) /\ Top(c) \in Frames
  BY <1>2, <1>3 DEF StackOK, FrameOK, Top, Last
<1>5. /\ Front(stack[c]) \in Seq(Frames) /\ Len(Front(stack[c])) = Len(stack[c]) - 1
      /\ \A i \in 1..(Len(stack[c]) - 1) : Front(stack[c])[i] = stack[c][i]
  <2>1. \A i \in 1..(Len(stack[c]) - 1) : stack[c][i] \in Frames
    BY <1>2, <1>3
  <2>2. QED BY <1>3, <2>1, SubSeqProperties DEF Front
<1>6. QED BY <1>1, <1>2, <1>3, <1>4, <1>5

(* The children of a listing lie under the key, and under what the key lies *)
(* under.                                                                  *)
LEMMA ChildrenAreInside ==
    ASSUME TreeInv, NEW k \in Keys
    PROVE  /\ Children(k) \in SUBSET Keys /\ IsFiniteSet(Children(k))
           /\ \A j \in Children(k) : IsPrefix(WithSlash(k), j)
           /\ \A t \in [op : Operations, src : Keys, dst : Keys] :
                 Inside(t, k) => \A j \in Children(k) : Inside(t, j)
<1>1. DOMAIN objects \in SUBSET Keys /\ IsFiniteSet(DOMAIN objects)
  BY DEF TreeInv, TypeOK, IsBucket
<1>2. Children(k) \in SUBSET DOMAIN objects
  BY DEF Children, Under
<1>3. \A j \in Children(k) : IsPrefix(WithSlash(k), j)
  BY DEF Children, Under
<1>4. ASSUME NEW t \in [op : Operations, src : Keys, dst : Keys], Inside(t, k),
             NEW j \in Children(k)
      PROVE  Inside(t, j)
  <2>1. t \in CallTasks /\ j \in Keys /\ IsPrefix(WithSlash(k), j)
    BY <1>1, <1>2, <1>3 DEF CallTasks
  <2>2. QED BY <1>4, <2>1, InsideIsKept
<1>5. QED BY <1>1, <1>2, <1>3, <1>4, FS_Subset

(* The loop over the children. *)
LEMMA LoopIsOK ==
    ASSUME NEW t, NEW f \in Frames, f.listed, FrameInside(t, f)
    PROVE  FrameOK(t, Loop(f))
<1>1. AskInfo(Head(f.todo)) \in {"dir", "attrs"}
  BY DEF AskInfo
<1>2. Loop(f) \in Frames /\ (Loop(f).todo = <<>> => Loop(f).pc = "end")
  BY <1>1 DEF Loop, Frames
<1>3. /\ Loop(f).fn = f.fn /\ Loop(f).key = f.key /\ Loop(f).to = f.to
      /\ Loop(f).todo = f.todo
  BY DEF Loop, Frames
<1>4. FrameInside(t, Loop(f))
  <2>1. Loop(f).listed
    BY DEF Loop, Frames
  <2> DEFINE g == Loop(f)
  <2> HIDE DEF g
  <2>2. QED BY <1>3, <2>1 DEF FrameInside, ChildOf, g
<1>5. QED BY <1>2, <1>4 DEF FrameOK

LEMMA NextChildIsOK ==
    ASSUME NEW t, NEW f, FrameOK(t, f), f.listed, f.pc # "end"
    PROVE  /\ FrameOK(t, NextChild(f)) /\ NextChild(f) # f
           /\ Head(f.todo) \in Keys
           /\ ChildOf(t, f, Head(f.todo))
<1>1. f \in Frames /\ f.todo \in Seq(Keys) /\ f.todo # <<>>
  BY DEF FrameOK, Frames
<1>2. /\ Head(f.todo) \in Keys /\ Head(f.todo) = f.todo[1]
      /\ Tail(f.todo) \in Seq(Keys) /\ Len(Tail(f.todo)) = Len(f.todo) - 1
      /\ \A i \in 1..Len(Tail(f.todo)) : Tail(f.todo)[i] = f.todo[i + 1]
      /\ Len(f.todo) \in Nat \ {0}
  BY <1>1, HeadTailProperties, EmptySeq
<1> DEFINE g == [f EXCEPT !.todo = Tail(@)]
<1>3. /\ g \in Frames /\ g.listed /\ g.todo = Tail(f.todo)
      /\ g.fn = f.fn /\ g.key = f.key /\ g.to = f.to
  BY <1>1, <1>2 DEF Frames
<1> HIDE DEF g
<1>4. FrameInside(t, g)
  BY <1>2, <1>3 DEF FrameOK, FrameInside, ChildOf
<1>5. FrameOK(t, Loop(g))
  BY <1>3, <1>4, LoopIsOK
<1>6. Loop(g).todo = Tail(f.todo)
  BY <1>3 DEF Loop, Frames
<1>7. Loop(g) # f
  <2>1. Len(Loop(g).todo) # Len(f.todo)
    BY <1>2, <1>6
  <2>2. QED BY <2>1, Zenon
<1>8. NextChild(f) = Loop(g)
  BY DEF NextChild, g
<1>9. ChildOf(t, f, Head(f.todo))
  BY <1>2 DEF FrameOK, FrameInside
<1>10. QED BY <1>2, <1>5, <1>7, <1>8, <1>9

(* The frames of the calls. *)
LEMMA CalledFramesAreOK ==
    ASSUME NEW t \in [op : Operations, src : Keys, dst : Keys], NEW k \in Keys
    PROVE  /\ t.op \in {"Copy", "Move"} /\ Inside(t, k) =>
                 FrameOK(t, CallCopy(k, Image(t, k)))
           /\ t.op \in {"Delete", "DeleteAll", "Move"} /\ Inside(t, k) =>
                 FrameOK(t, CallDelete(k)) /\ FrameOK(t, CallDeleteAll(k))
           /\ t.op = "DeleteMatching" /\ k = t.src =>
                 FrameOK(t, CallOne("DeleteMatching", "dir", k))
           /\ t.op = "Create" /\ k = t.src => FrameOK(t, CallOne("Create", "attrs", k))
           /\ t.op = "MkdirAll" /\ k = MarkerKey(t.src) =>
                 FrameOK(t, CallOne("MkdirAll", "put", k))
<1>1. AskInfo(k) \in {"dir", "attrs"} /\ <<>> \in Keys /\ <<>> \in Seq(Keys)
  BY DEF AskInfo, Keys
<1> DEFINE First(f, fn, to) ==
             /\ f \in Frames /\ ~f.listed /\ Len(f.todo) = 0
             /\ f.fn = fn /\ f.key = k /\ f.to = to
<1>2. ASSUME NEW to \in Keys PROVE First(CallCopy(k, to), "Copy", to)
  BY <1>1 DEF CallCopy, Frames
<1>3. /\ First(CallDelete(k), "Delete", <<>>)
      /\ First(CallDeleteAll(k), "Delete", <<>>)
      /\ First(CallOne("DeleteMatching", "dir", k), "DeleteMatching", <<>>)
      /\ First(CallOne("Create", "attrs", k), "Create", <<>>)
      /\ First(CallOne("MkdirAll", "put", k), "MkdirAll", <<>>)
  <2> DEFINE f == CallCopy(k, <<>>)
  <2>1. First(f, "Copy", <<>>)
    BY <1>1, <1>2
  <2> HIDE DEF f
  <2>2. First(CallDelete(k), "Delete", <<>>)
    BY <2>1 DEF CallDelete, Frames, f
  <2>3. First(CallDeleteAll(k), "Delete", <<>>)
    BY <2>2 DEF CallDeleteAll, Frames
  <2>4. /\ First(CallOne("DeleteMatching", "dir", k), "DeleteMatching", <<>>)
        /\ First(CallOne("Create", "attrs", k), "Create", <<>>)
        /\ First(CallOne("MkdirAll", "put", k), "MkdirAll", <<>>)
    BY <2>1 DEF CallOne, Frames, f
  <2>5. QED BY <2>2, <2>3, <2>4
<1>4. ASSUME t.op \in {"Copy", "Move"}, Inside(t, k)
      PROVE  FrameOK(t, CallCopy(k, Image(t, k)))
  <2>1. Image(t, k) \in Keys
    BY <1>4, InsideMeans, ImageMeans DEF CallTasks
  <2>2. First(CallCopy(k, Image(t, k)), "Copy", Image(t, k))
    BY <1>2, <2>1
  <2>3. QED BY <1>4, <2>2 DEF FrameOK, FrameInside
<1>5. ASSUME t.op \in {"Delete", "DeleteAll", "Move"}, Inside(t, k)
      PROVE  FrameOK(t, CallDelete(k)) /\ FrameOK(t, CallDeleteAll(k))
  BY <1>1, <1>2, <1>3, <1>5 DEF FrameOK, FrameInside
<1>6. ASSUME t.op = "DeleteMatching", k = t.src
      PROVE  FrameOK(t, CallOne("DeleteMatching", "dir", k))
  <2>1. CallOne("DeleteMatching", "dir", k).pc = "dir"
    BY DEF CallOne, CallCopy
  <2>2. QED BY <1>3, <1>6, <2>1 DEF FrameOK, FrameInside
<1>7. ASSUME t.op = "Create", k = t.src
      PROVE  FrameOK(t, CallOne("Create", "attrs", k))
  BY <1>1, <1>2, <1>3, <1>7 DEF FrameOK, FrameInside
<1>8. ASSUME t.op = "MkdirAll", k = MarkerKey(t.src)
      PROVE  FrameOK(t, CallOne("MkdirAll", "put", k))
  BY <1>1, <1>2, <1>3, <1>8 DEF FrameOK, FrameInside
<1>9. QED BY <1>4, <1>5, <1>6, <1>7, <1>8
-----------------------------------------------------------------------------
(***************************************************************************)
(* What the steps of a running call have in common: what they do to the     *)
(* stack, and what they do to the bucket.                                  *)
(***************************************************************************)

StackStep(c) ==
    /\ Running(c)
    /\ stack' \in [Callers -> Seq(Frames)]
    /\ \A d \in Callers \ {c} : stack'[d] = stack[d] /\ result'[d] = result[d]
    /\ StackOK(task[c], stack'[c]) /\ stack'[c] # stack[c]
    /\ result' \in [Callers -> {"none", "ok", "error"}]
    /\ result'[c] = result[c] \/ stack'[c] = <<>>

(* Whatever a step changes it may change. *)
Licensed(t, k) ==
    IF k \in DOMAIN objects' THEN IsCopy(t, k) \/ MayMake(t, k) ELSE MayDelete(t, k)

BucketStep(c) ==
    /\ UNCHANGED callVars
    /\ faults' \in 0..Faults
    /\ IsBucket(objects')
    /\ touched' \in [Callers -> SUBSET Keys]
    /\ \A d \in Callers : touched[d] \subseteq touched'[d]
    /\ \A k \in DOMAIN objects \union DOMAIN objects' :
          Differs(k) =>
              /\ Licensed(task[c], k)
              /\ \A d \in Callers \ {c} : task[d] # NoTask => k \in touched'[d]

LEMMA StackReplaced ==
    ASSUME TreeInv, NEW c \in Callers, Running(c), NEW s, StackOK(task[c], s),
           s # stack[c], stack' = [stack EXCEPT ![c] = s],
           \/ UNCHANGED result
           \/ s = <<>> /\ \E r \in {"ok", "error"} : result' = [result EXCEPT ![c] = r]
    PROVE  StackStep(c)
  BY DEF StackStep, StackOK, TreeInv, TypeOK

LEMMA EmptyStackIsOK == \A t : StackOK(t, <<>>)
  BY DEF StackOK

LEMMA OneFrameIsOK ==
    ASSUME NEW t, NEW f, FrameOK(t, f)
    PROVE  StackOK(t, <<f>>)
  BY DEF StackOK, FrameOK

(* The innermost frame goes on as another. *)
LEMMA GoOnStep ==
    ASSUME TreeInv, NEW c \in Callers, Running(c), NEW f, FrameOK(task[c], f),
           f # Top(c), GoOn(c, f)
    PROVE  StackStep(c)
<1> DEFINE s == Append(Front(stack[c]), f)
<1>1. f \in Frames
  BY DEF FrameOK
<1>2. /\ s \in Seq(Frames) /\ Len(s) = Len(stack[c]) /\ Len(s) \in Nat \ {0}
      /\ \A i \in 1..(Len(s) - 1) : s[i] = stack[c][i]
      /\ s[Len(s)] = f
  BY <1>1, TopIsOK, AppendProperties
<1>3. stack' = [stack EXCEPT ![c] = s] /\ UNCHANGED result
  BY DEF GoOn
<1>4. \A i \in 1..Len(stack[c]) : FrameOK(task[c], stack[c][i])
  BY DEF TreeInv, StackOK
<1> HIDE DEF s
<1>5. StackOK(task[c], s)
  <2>1. ASSUME NEW i \in 1..Len(s) PROVE FrameOK(task[c], s[i])
    <3>1. CASE i = Len(s)
      BY <1>2, <3>1
    <3>2. CASE i # Len(s)
      <4>1. i \in 1..(Len(s) - 1) /\ i \in 1..Len(stack[c])
        BY <1>2, <3>2
      <4>2. QED BY <1>2, <1>4, <4>1
    <3>3. QED BY <3>1, <3>2
  <2>2. QED BY <1>2, <2>1 DEF StackOK
<1>6. s # stack[c]
  BY <1>2 DEF Top, Last
<1>7. QED BY <1>3, <1>5, <1>6, StackReplaced

LEMMA FailStep ==
    ASSUME TreeInv, NEW c \in Callers, Running(c), Fail(c)
    PROVE  StackStep(c)
  BY EmptyStackIsOK, StackReplaced DEF Fail, Running

LEMMA ReturnStep ==
    ASSUME TreeInv, NEW c \in Callers, Running(c), Return(c)
    PROVE  StackStep(c)
<1>1. CASE Len(stack[c]) > 1
  <2>1. stack' = [stack EXCEPT ![c] = Front(stack[c])] /\ UNCHANGED result
    BY <1>1 DEF Return
  <2>2. /\ Front(stack[c]) \in Seq(Frames) /\ Len(Front(stack[c])) = Len(stack[c]) - 1
        /\ \A i \in 1..(Len(stack[c]) - 1) : Front(stack[c])[i] = stack[c][i]
        /\ Len(stack[c]) \in Nat \ {0}
    BY TopIsOK
  <2>3. \A i \in 1..Len(stack[c]) : FrameOK(task[c], stack[c][i])
    BY DEF TreeInv, StackOK
  <2>4. StackOK(task[c], Front(stack[c]))
    BY <2>2, <2>3 DEF StackOK
  <2>5. Front(stack[c]) # stack[c]
    <3>1. Len(Front(stack[c])) # Len(stack[c])
      BY <2>2
    <3>2. QED BY <3>1, Zenon
  <2>6. QED BY <2>1, <2>4, <2>5, StackReplaced
<1>2. CASE Len(stack[c]) <= 1 /\ task[c].op = "Move" /\ Top(c).fn = "Copy"
  <2> DEFINE f == CallDelete(task[c].src)
  <2>1. stack' = [stack EXCEPT ![c] = <<f>>] /\ UNCHANGED result
    BY <1>2, TopIsOK DEF Return
  <2>2. FrameOK(task[c], f)
    <3>1. task[c] \in [op : Operations, src : Keys, dst : Keys]
      BY TopIsOK DEF Begun
    <3>2. Inside(task[c], task[c].src)
      BY DEF Inside
    <3>3. QED BY <1>2, <3>1, <3>2, CalledFramesAreOK
  <2>3. f.fn = "Delete"
    BY DEF CallDelete, CallCopy
  <2> HIDE DEF f
  <2>4. <<f>> # stack[c]
    BY <1>2, <2>3 DEF Top, Last
  <2>5. QED BY <2>1, <2>2, <2>4, OneFrameIsOK, StackReplaced
<1>3. CASE Len(stack[c]) <= 1 /\ ~(task[c].op = "Move" /\ Top(c).fn = "Copy")
  <2>1. /\ stack' = [stack EXCEPT ![c] = <<>>]
        /\ result' = [result EXCEPT ![c] = "ok"]
    BY <1>3, TopIsOK DEF Return
  <2>2. QED BY <2>1, EmptyStackIsOK, StackReplaced DEF Running
<1>4. QED BY <1>1, <1>2, <1>3, TopIsOK

(* A loop calls itself for a child. *)
LEMMA CallStep ==
    ASSUME TreeInv, NEW c \in Callers, Running(c), NEW f, NEW g,
           FrameOK(task[c], f), FrameOK(task[c], g),
           stack' = [stack EXCEPT ![c] = Front(@) \o <<f, g>>], UNCHANGED result
    PROVE  StackStep(c)
<1> DEFINE s == Front(stack[c]) \o <<f, g>>
<1>1. f \in Frames /\ g \in Frames /\ <<f, g>> \in Seq(Frames) /\ Len(<<f, g>>) = 2
  BY DEF FrameOK
<1>2. Front(stack[c]) \in Seq(Frames) /\ Len(Front(stack[c])) = Len(stack[c]) - 1
  BY TopIsOK
<1> DEFINE n == Len(stack[c])
<1>3. n \in Nat \ {0} /\ \A i \in 1..(n - 1) : Front(stack[c])[i] = stack[c][i]
  BY TopIsOK
<1>4. \A i \in 1..n : FrameOK(task[c], stack[c][i])
  BY DEF TreeInv, StackOK
<1>5. /\ s \in Seq(Frames) /\ Len(s) = n + 1
      /\ \A i \in 1..(n - 1) : s[i] = stack[c][i]
      /\ s[n] = f /\ s[n + 1] = g
  <2> DEFINE front == Front(stack[c])
             two == <<f, g>>
  <2>1. two[1] = f /\ two[2] = g
    OBVIOUS
  <2>2. front \in Seq(Frames) /\ two \in Seq(Frames) /\ Len(front) = n - 1 /\ Len(two) = 2
    BY <1>1, <1>2
  <2> HIDE DEF front, two
  <2> HIDE DEF n
  <2>8. /\ front \o two \in Seq(Frames) /\ Len(front \o two) = Len(front) + Len(two)
        /\ \A i \in 1..(Len(front) + Len(two)) :
              (front \o two)[i] = IF i <= Len(front) THEN front[i] ELSE two[i - Len(front)]
    BY <2>2, ConcatProperties
  <2>3. /\ front \o two \in Seq(Frames) /\ Len(front \o two) = (n - 1) + 2
        /\ \A i \in 1..((n - 1) + 2) :
              (front \o two)[i] = IF i <= n - 1 THEN front[i] ELSE two[i - (n - 1)]
    BY <2>2, <2>8
  <2>4. \A i \in 1..(n - 1) : (front \o two)[i] = stack[c][i]
    BY <1>3, <2>3 DEF front
  <2>5. (front \o two)[n] = f /\ (front \o two)[n + 1] = g
    BY <1>3, <2>1, <2>3
  <2>6. (n - 1) + 2 = n + 1
    BY <1>3
  <2>7. QED BY <2>3, <2>4, <2>5, <2>6 DEF front, two
<1> HIDE DEF s
<1>6. StackOK(task[c], s)
  <2> HIDE DEF n
  <2>1. ASSUME NEW i \in 1..Len(s) PROVE FrameOK(task[c], s[i])
    <3>1. i \in 1..(n - 1) \/ i = n \/ i = n + 1
      BY <1>3, <1>5
    <3>2. CASE i \in 1..(n - 1)
      BY <1>3, <1>4, <1>5, <3>2
    <3>3. CASE i = n \/ i = n + 1
      BY <1>5, <3>3
    <3>4. QED BY <3>1, <3>2, <3>3
  <2>2. QED BY <1>5, <2>1 DEF StackOK
<1>7. s # stack[c]
  BY <1>3, <1>5
<1>8. QED BY <1>6, <1>7, StackReplaced DEF s
-----------------------------------------------------------------------------
LEMMA ReadsStep ==
    ASSUME TreeInv, NEW c \in Callers, Reads
    PROVE  BucketStep(c)
  BY DEF TreeInv, TypeOK, Reads, BucketStep, Differs, IsBucket

LEMMA FaultStep ==
    ASSUME TreeInv, Fault
    PROVE  faults' \in 0..Faults
  BY FaultsAssumption DEF TreeInv, TypeOK, Fault

LEMMA FaultyReadStep ==
    ASSUME TreeInv, NEW c \in Callers, FaultyRead
    PROVE  BucketStep(c)
  BY FaultStep DEF TreeInv, TypeOK, FaultyRead, BucketStep, Differs, IsBucket

LEMMA TouchStep ==
    ASSUME TreeInv, NEW c \in Callers, NEW k \in Keys, Touch(c, k)
    PROVE  /\ touched' \in [Callers -> SUBSET Keys]
           /\ \A d \in Callers : touched[d] \subseteq touched'[d]
           /\ \A d \in Callers \ {c} : task[d] # NoTask => k \in touched'[d]
  BY DEF TreeInv, TypeOK, Touch

LEMMA StoreStep ==
    ASSUME TreeInv, NEW c \in Callers, NEW k \in Keys, NEW content \in Contents,
           Store(c, k, content)
    PROVE  /\ IsBucket(objects')
           /\ DOMAIN objects' = DOMAIN objects \union {k} /\ objects'[k] = content
           /\ \A j \in DOMAIN objects \ {k} : objects'[j] = objects[j]
           /\ \A j \in DOMAIN objects \union DOMAIN objects' : Differs(j) => j = k
<1>1. /\ DOMAIN objects \in SUBSET Keys /\ IsFiniteSet(DOMAIN objects)
      /\ objects \in [DOMAIN objects -> Contents]
  BY DEF TreeInv, TypeOK, IsBucket
<1>2. objects' = [j \in DOMAIN objects \union {k} |-> IF j = k THEN content ELSE objects[j]]
  BY DEF Store
<1>3. /\ DOMAIN objects' = DOMAIN objects \union {k} /\ objects'[k] = content
      /\ \A j \in DOMAIN objects \ {k} : objects'[j] = objects[j]
      /\ objects' \in [DOMAIN objects \union {k} -> Contents]
  BY <1>1, <1>2
<1>4. IsFiniteSet(DOMAIN objects \union {k})
  BY <1>1, FS_AddElement
<1>5. IsBucket(objects')
  BY <1>1, <1>3, <1>4 DEF IsBucket
<1>6. \A j \in DOMAIN objects \union DOMAIN objects' : Differs(j) => j = k
  BY <1>3 DEF Differs
<1>7. QED BY <1>3, <1>5, <1>6

(* What a call may store at k. *)
MayStore(t, k, content) ==
    \/ MayMake(t, k)
    \/ /\ t.op \in {"Copy", "Move"}
       /\ \E j \in DOMAIN objects :
             Inside(t, j) /\ k = Image(t, j) /\ content = objects[j]

LEMMA PutStep ==
    ASSUME TreeInv, NEW c \in Callers, NEW k \in Keys, NEW content \in Contents,
           MayStore(task[c], k, content), Put(c, k, content) \/ FaultyPut(c, k, content)
    PROVE  BucketStep(c)
<1>1. CASE Store(c, k, content)
  <2>1. Touch(c, k) /\ UNCHANGED callVars /\ faults' \in 0..Faults
    BY <1>1, FaultStep DEF Store, Put, FaultyPut, TreeInv, TypeOK
  <2>2. /\ IsBucket(objects')
        /\ k \in DOMAIN objects' /\ objects'[k] = content
        /\ \A j \in DOMAIN objects \union DOMAIN objects' : Differs(j) => j = k
    BY <1>1, StoreStep
  <2>3. /\ touched' \in [Callers -> SUBSET Keys]
        /\ \A d \in Callers : touched[d] \subseteq touched'[d]
        /\ \A d \in Callers \ {c} : task[d] # NoTask => k \in touched'[d]
    BY <2>1, TouchStep
  <2>4. Licensed(task[c], k)
    BY <2>2 DEF MayStore, Licensed, IsCopy
  <2>5. QED BY <2>1, <2>2, <2>3, <2>4 DEF BucketStep
<1>2. CASE ~Store(c, k, content)
  <2>1. UNCHANGED <<objects, touched, callVars>> /\ Fault
    BY <1>2 DEF Put, FaultyPut
  <2>2. QED BY <2>1, FaultyReadStep DEF FaultyRead
<1>3. QED BY <1>1, <1>2

LEMMA EraseStep ==
    ASSUME TreeInv, NEW c \in Callers, NEW k \in Keys, MayDelete(task[c], k),
           objects' = [j \in DOMAIN objects \ {k} |-> objects[j]], Touch(c, k),
           UNCHANGED callVars, faults' \in 0..Faults
    PROVE  BucketStep(c)
<1>1. /\ DOMAIN objects \in SUBSET Keys /\ IsFiniteSet(DOMAIN objects)
      /\ objects \in [DOMAIN objects -> Contents]
  BY DEF TreeInv, TypeOK, IsBucket
<1>2. /\ DOMAIN objects' = DOMAIN objects \ {k}
      /\ \A j \in DOMAIN objects \ {k} : objects'[j] = objects[j]
      /\ objects' \in [DOMAIN objects \ {k} -> Contents]
  BY <1>1
<1>3. IsFiniteSet(DOMAIN objects \ {k})
  BY <1>1, FS_RemoveElement
<1>4. IsBucket(objects')
  BY <1>1, <1>2, <1>3 DEF IsBucket
<1>5. \A j \in DOMAIN objects \union DOMAIN objects' : Differs(j) => j = k
  BY <1>2 DEF Differs
<1>6. Licensed(task[c], k)
  BY <1>2 DEF Licensed
<1>7. QED BY <1>4, <1>5, <1>6, TouchStep DEF BucketStep

LEMMA DeleteStepOK ==
    ASSUME TreeInv, NEW c \in Callers, NEW k \in Keys, MayDelete(task[c], k),
           Erase(c, k) \/ DeleteFails(c, k)
    PROVE  BucketStep(c)
<1>1. CASE Erase(c, k)
  BY <1>1, EraseStep DEF Erase, TreeInv, TypeOK
<1>2. CASE DeleteFails(c, k)
  <2>1. CASE Reads
    BY <2>1, ReadsStep
  <2>2. CASE Fault /\ UNCHANGED <<objects, touched>> /\ UNCHANGED callVars
    BY <2>2, FaultyReadStep DEF FaultyRead
  <2>3. CASE /\ Fault /\ UNCHANGED callVars /\ Touch(c, k)
             /\ objects' = [j \in DOMAIN objects \ {k} |-> objects[j]]
    BY <2>3, FaultStep, EraseStep
  <2>4. QED BY <1>2, <2>1, <2>2, <2>3 DEF DeleteFails
<1>3. QED BY <1>1, <1>2
-----------------------------------------------------------------------------
(***************************************************************************)
(* The steps of a running call, one lemma for each action.                 *)
(***************************************************************************)

LEMMA AnswerIsKept ==
    ASSUME NEW t, NEW f, FrameOK(t, f), f.pc # "end", f.fn # "DeleteMatching",
           NEW p \in {"attrs", "probe", "file", "dir", "none", "put"}, p # f.pc
    PROVE  FrameOK(t, [f EXCEPT !.pc = p]) /\ [f EXCEPT !.pc = p] # f
<1> DEFINE g == [f EXCEPT !.pc = p]
<1>1. f \in Frames
  BY DEF FrameOK
<1>2. /\ g \in Frames /\ g.pc = p /\ g.listed = f.listed /\ g.todo = f.todo
      /\ g.fn = f.fn /\ g.key = f.key /\ g.to = f.to
  BY <1>1 DEF Frames
<1> HIDE DEF g
<1>3. FrameOK(t, g)
  BY <1>2 DEF FrameOK, FrameInside, ChildOf
<1>4. g # f
  BY <1>2
<1>5. QED BY <1>3, <1>4 DEF g

LEMMA AttrsStep ==
    ASSUME TreeInv, NEW c \in Callers, Attrs(c)
    PROVE  StackStep(c) /\ BucketStep(c)
<1>1. /\ Running(c) /\ Top(c).pc = "attrs" /\ FrameOK(task[c], Top(c))
      /\ Top(c).fn # "DeleteMatching"
  BY TopIsOK DEF Attrs, At
<1>2. \/ GoOn(c, [Top(c) EXCEPT !.pc = "file"])
      \/ GoOn(c, [Top(c) EXCEPT !.pc = "probe"])
  BY DEF Attrs
<1>3. StackStep(c)
  BY <1>1, <1>2, AnswerIsKept, GoOnStep
<1>4. BucketStep(c)
  BY ReadsStep, FaultyReadStep DEF Attrs
<1>5. QED BY <1>3, <1>4

LEMMA ProbeStep ==
    ASSUME TreeInv, NEW c \in Callers, Probe(c)
    PROVE  StackStep(c) /\ BucketStep(c)
<1>1. /\ Running(c) /\ Top(c).pc = "probe" /\ FrameOK(task[c], Top(c))
      /\ Top(c).fn # "DeleteMatching"
  BY TopIsOK DEF Probe, At
<1>2. \/ GoOn(c, [Top(c) EXCEPT !.pc = "dir"])
      \/ GoOn(c, [Top(c) EXCEPT !.pc = "none"])
  BY DEF Probe
<1>3. StackStep(c)
  BY <1>1, <1>2, AnswerIsKept, GoOnStep
<1>4. BucketStep(c)
  BY ReadsStep, FaultyReadStep DEF Probe
<1>5. QED BY <1>3, <1>4

LEMMA ListChildrenStep ==
    ASSUME TreeInv, NEW c \in Callers, ListChildren(c)
    PROVE  StackStep(c) /\ BucketStep(c)
<1> DEFINE f == Top(c)
           found == IF f.fn = "DeleteMatching" THEN Walk(f.key) ELSE ListAll(f.key)
           g == [f EXCEPT !.todo = found, !.listed = TRUE]
<1>1. /\ Running(c) /\ ~f.listed /\ FrameOK(task[c], f) /\ f \in Frames
      /\ f.fn \in {"Copy", "Delete", "DeleteMatching"} /\ Begun(c)
  BY TopIsOK DEF ListChildren, At
<1>2. f.key \in Keys
  BY <1>1 DEF Frames
<1>3. /\ Children(f.key) \in SUBSET Keys /\ IsFiniteSet(Children(f.key))
      /\ \A j \in Children(f.key) : IsPrefix(WithSlash(f.key), j)
      /\ Inside(task[c], f.key) => \A j \in Children(f.key) : Inside(task[c], j)
  BY <1>1, <1>2, ChildrenAreInside DEF Begun
<1>4. /\ found \in Seq(Children(f.key))
      /\ f.fn = "DeleteMatching" => found \in Seq(Children(f.key) \intersect Matching)
  <2>1. ListAll(f.key) \in Seq(Children(f.key))
    BY <1>3, ListingIsExact DEF ListAll
  <2>2. /\ Children(f.key) \intersect Matching \in SUBSET Keys
        /\ Children(f.key) \intersect Matching \subseteq Children(f.key)
        /\ IsFiniteSet(Children(f.key) \intersect Matching)
    BY <1>3, FS_Subset
  <2>3. Walk(f.key) \in Seq(Children(f.key) \intersect Matching)
    BY <2>2, ListingIsExact DEF Walk
  <2> HIDE DEF f
  <2>4. Walk(f.key) \in Seq(Children(f.key))
    BY <2>2, <2>3
  <2>5. QED BY <2>1, <2>3, <2>4
<1> HIDE DEF found
<1>5. /\ found \in Seq(Keys) /\ \A i \in 1..Len(found) : found[i] \in Children(f.key)
      /\ f.fn = "DeleteMatching" => \A i \in 1..Len(found) : found[i] \in Matching
  BY <1>3, <1>4
<1> HIDE DEF f
<1>6. /\ g \in Frames /\ g.listed /\ g.todo = found
      /\ g.fn = f.fn /\ g.key = f.key /\ g.to = f.to
  BY <1>1, <1>5 DEF Frames
<1> HIDE DEF g
<1>7. FrameInside(task[c], g)
  BY <1>1, <1>3, <1>5, <1>6 DEF FrameOK, FrameInside, ChildOf
<1>8. FrameOK(task[c], Loop(g))
  BY <1>6, <1>7, LoopIsOK
<1>9. Loop(g) # f
  <2>1. Loop(g).listed
    BY <1>6 DEF Loop, Frames
  <2>2. QED BY <1>1, <2>1
<1>10. GoOn(c, Loop(g)) \/ Fail(c)
  BY DEF ListChildren, f, found, g
<1>11. StackStep(c)
  BY <1>1, <1>8, <1>9, <1>10, GoOnStep, FailStep DEF f
<1>12. BucketStep(c)
  BY ReadsStep, FaultyReadStep DEF ListChildren
<1>13. QED BY <1>11, <1>12

(* What the frame at hand works on. *)
LEMMA SubjectIsOK ==
    ASSUME TreeInv, NEW c \in Callers, Running(c), Top(c).pc # "end"
    PROVE  /\ Subject(Top(c)) \in Keys
           /\ Top(c).fn \in {"Copy", "Delete"} => Inside(task[c], Subject(Top(c)))
           /\ Top(c).listed =>
                 /\ Subject(Top(c)) = Head(Top(c).todo)
                 /\ ChildOf(task[c], Top(c), Subject(Top(c)))
                 /\ FrameOK(task[c], NextChild(Top(c))) /\ NextChild(Top(c)) # Top(c)
<1> DEFINE f == Top(c)
<1>1. FrameOK(task[c], f) /\ f \in Frames /\ task[c] \in CallTasks
  BY TopIsOK DEF Begun, CallTasks
<1>2. CASE f.listed
  <2>1. /\ Head(f.todo) \in Keys /\ ChildOf(task[c], f, Head(f.todo))
        /\ FrameOK(task[c], NextChild(f)) /\ NextChild(f) # f
    BY <1>1, <1>2, NextChildIsOK
  <2>2. Subject(f) = Head(f.todo)
    BY <1>2 DEF Subject
  <2> HIDE DEF f
  <2>3. f.fn = "Copy" => Inside(task[c], Head(f.todo))
    BY <1>1, <2>1, InsideIsKept DEF FrameOK, FrameInside, ChildOf, Frames
  <2>4. QED BY <2>1, <2>2, <2>3 DEF ChildOf, f
<1>3. CASE ~f.listed
  BY <1>1, <1>3 DEF Subject, FrameOK, FrameInside, Frames
<1>4. QED BY <1>1, <1>2, <1>3

(* Where a frame of Copy puts its key and its children is where they belong. *)
LEMMA CopyPuts ==
    ASSUME TreeInv, NEW c \in Callers, Running(c), Top(c).fn = "Copy",
           Top(c).pc # "end"
    PROVE  /\ Image(task[c], Subject(Top(c))) \in Keys
           /\ Image(task[c], Subject(Top(c))) =
                 IF Top(c).listed THEN DstKey(Top(c), Subject(Top(c))) ELSE Top(c).to
<1> DEFINE f == Top(c)
           t == task[c]
<1>1. FrameOK(t, f) /\ f \in Frames /\ t \in CallTasks
  BY TopIsOK DEF Begun, CallTasks
<1>2. Subject(f) \in Keys /\ (f.listed => ChildOf(t, f, Subject(f)))
  BY SubjectIsOK
<1>3. f.fn = "Copy"
  OBVIOUS
<1>4. ~f.listed => Subject(f) = f.key
  BY DEF Subject
<1> HIDE DEF f, t
<1>5. Puts(t, f) /\ f.key \in Keys /\ f.to \in Keys
  BY <1>1, <1>3 DEF FrameOK, FrameInside, ChildOf, Puts, Frames
<1>6. CASE f.listed
  BY <1>1, <1>2, <1>3, <1>5, <1>6, ChildIsPut DEF ChildOf, f, t
<1>7. CASE ~f.listed
  BY <1>4, <1>5, <1>7 DEF Puts, f, t
<1>8. QED BY <1>6, <1>7

LEMMA CopySingleObjectStep ==
    ASSUME TreeInv, NEW c \in Callers, CopySingleObject(c)
    PROVE  StackStep(c) /\ BucketStep(c)
<1> DEFINE f == Top(c)
           k == Subject(f)
           to == IF f.listed THEN DstKey(f, k) ELSE f.to
<1>1. /\ Running(c) /\ f.fn = "Copy" /\ f.pc # "end" /\ FrameOK(task[c], f)
  BY TopIsOK DEF CopySingleObject, At
<1>2. /\ k \in Keys /\ Inside(task[c], k)
      /\ f.listed => FrameOK(task[c], NextChild(f)) /\ NextChild(f) # f
  BY <1>1, SubjectIsOK
<1>3. to \in Keys /\ to = Image(task[c], k)
  BY <1>1, CopyPuts
<1>4. k \in DOMAIN objects => objects[k] \in Contents
  BY DEF TreeInv, TypeOK, IsBucket
<1>5. \/ /\ k \in DOMAIN objects
         /\ Put(c, to, objects[k])
         /\ IF f.listed THEN GoOn(c, NextChild(f)) ELSE Return(c)
      \/ Fail(c) /\ Reads
      \/ k \in DOMAIN objects /\ FaultyPut(c, to, objects[k]) /\ Fail(c)
  BY DEF CopySingleObject
<1> HIDE DEF to, k
<1>6. k \in DOMAIN objects => MayStore(task[c], to, objects[k])
  BY <1>1, <1>2, <1>3 DEF FrameOK, FrameInside, MayStore
<1>7. StackStep(c)
  <2>1. CASE f.listed /\ GoOn(c, NextChild(f))
    BY <1>1, <1>2, <2>1, GoOnStep
  <2>2. CASE Return(c)
    BY <1>1, <2>2, ReturnStep
  <2>3. CASE Fail(c)
    BY <1>1, <2>3, FailStep
  <2>4. QED BY <1>5, <2>1, <2>2, <2>3
<1>8. BucketStep(c)
  BY <1>3, <1>4, <1>5, <1>6, PutStep, ReadsStep
<1>9. QED BY <1>7, <1>8

LEMMA CopyChildDirStep ==
    ASSUME TreeInv, NEW c \in Callers, CopyChildDir(c)
    PROVE  StackStep(c) /\ BucketStep(c)
<1> DEFINE f == Top(c)
           h == Head(f.todo)
           g == CallCopy(h, DstKey(f, h))
<1>1. /\ Running(c) /\ f.fn = "Copy" /\ f.pc # "end" /\ f.listed
      /\ FrameOK(task[c], f) /\ Begun(c)
  BY TopIsOK DEF CopyChildDir, At
<1>2. h \in Keys /\ FrameOK(task[c], NextChild(f)) /\ Inside(task[c], h)
  BY <1>1, SubjectIsOK
<1>3. DstKey(f, h) = Image(task[c], h)
  BY <1>1, CopyPuts, SubjectIsOK
<1>4. task[c].op \in {"Copy", "Move"}
  BY <1>1 DEF FrameOK, FrameInside
<1>5. FrameOK(task[c], g)
  BY <1>1, <1>2, <1>3, <1>4, CalledFramesAreOK DEF Begun
<1>6. /\ stack' = [stack EXCEPT ![c] = Front(@) \o <<NextChild(f), g>>]
      /\ Reads /\ UNCHANGED result
  BY DEF CopyChildDir
<1> HIDE DEF f, g
<1>7. QED BY <1>1, <1>2, <1>5, <1>6, CallStep, ReadsStep

LEMMA DeleteChildDirStep ==
    ASSUME TreeInv, NEW c \in Callers, DeleteChildDir(c)
    PROVE  StackStep(c) /\ BucketStep(c)
<1> DEFINE f == Top(c)
           h == Head(f.todo)
           g == CallDeleteAll(h)
<1>1. /\ Running(c) /\ f.fn = "Delete" /\ f.pc # "end" /\ f.listed
      /\ FrameOK(task[c], f) /\ Begun(c)
  BY TopIsOK DEF DeleteChildDir, At
<1>2. h \in Keys /\ FrameOK(task[c], NextChild(f)) /\ Inside(task[c], h)
  BY <1>1, SubjectIsOK
<1>3. FrameOK(task[c], g)
  <2>1. task[c].op \in {"Delete", "DeleteAll", "Move"}
    BY <1>1 DEF FrameOK, FrameInside
  <2>2. QED BY <1>1, <1>2, <2>1, CalledFramesAreOK DEF Begun
<1>4. /\ stack' = [stack EXCEPT ![c] = Front(@) \o <<NextChild(f), g>>]
      /\ Reads /\ UNCHANGED result
  BY DEF DeleteChildDir
<1> HIDE DEF f, g
<1>5. QED BY <1>1, <1>2, <1>3, <1>4, CallStep, ReadsStep

LEMMA DeleteObjectStep ==
    ASSUME TreeInv, NEW c \in Callers, DeleteObject(c)
    PROVE  StackStep(c) /\ BucketStep(c)
<1> DEFINE f == Top(c)
           k == Subject(f)
<1>1. /\ Running(c) /\ f.fn \in {"Delete", "DeleteMatching"} /\ f.pc # "end"
      /\ FrameOK(task[c], f)
  BY TopIsOK DEF DeleteObject, At
<1>2. /\ k \in Keys /\ (f.listed => ChildOf(task[c], f, k))
      /\ f.fn = "Delete" => Inside(task[c], k)
      /\ f.listed => FrameOK(task[c], NextChild(f)) /\ NextChild(f) # f
  BY <1>1, SubjectIsOK
<1>3. MayDelete(task[c], k)
  <2>1. f.fn = "DeleteMatching" => f.listed
    BY <1>1 DEF FrameOK, FrameInside, DeleteObject, At
  <2> HIDE DEF f, k
  <2>2. QED BY <1>1, <1>2, <2>1 DEF FrameOK, FrameInside, ChildOf, MayDelete
<1>4. \/ /\ Erase(c, k)
         /\ IF f.listed THEN GoOn(c, NextChild(f)) ELSE Return(c)
      \/ DeleteFails(c, k) /\ Fail(c)
  BY DEF DeleteObject, DeleteFails
<1> HIDE DEF k
<1>5. StackStep(c)
  <2>1. CASE f.listed /\ GoOn(c, NextChild(f))
    BY <1>1, <1>2, <2>1, GoOnStep
  <2>2. CASE Return(c)
    BY <1>1, <2>2, ReturnStep
  <2>3. CASE Fail(c)
    BY <1>1, <2>3, FailStep
  <2>4. QED BY <1>4, <2>1, <2>2, <2>3
<1>6. BucketStep(c)
  BY <1>2, <1>3, <1>4, DeleteStepOK
<1>7. QED BY <1>5, <1>6

LEMMA DeleteSelfStep ==
    ASSUME TreeInv, NEW c \in Callers, DeleteSelf(c)
    PROVE  StackStep(c) /\ BucketStep(c)
<1> DEFINE k == Top(c).key
<1>1. /\ Running(c) /\ Top(c).fn = "Delete" /\ FrameOK(task[c], Top(c))
      /\ Top(c) \in Frames
  BY TopIsOK DEF DeleteSelf, At
<1>2. k \in Keys /\ Inside(task[c], k)
  BY <1>1 DEF FrameOK, FrameInside, Frames
<1>3. MayDelete(task[c], k)
  BY <1>1, <1>2 DEF FrameOK, FrameInside, MayDelete
<1>4. (Erase(c, k) /\ Return(c)) \/ (DeleteFails(c, k) /\ Fail(c))
  BY DEF DeleteSelf, DeleteFails
<1> HIDE DEF k
<1>5. QED BY <1>1, <1>2, <1>3, <1>4, ReturnStep, FailStep, DeleteStepOK

LEMMA CreateChecksStep ==
    ASSUME TreeInv, NEW c \in Callers, CreateChecks(c)
    PROVE  StackStep(c) /\ BucketStep(c)
<1>1. /\ Running(c) /\ Top(c).pc = "attrs" /\ FrameOK(task[c], Top(c))
      /\ Top(c).fn # "DeleteMatching"
  BY TopIsOK DEF CreateChecks, At
<1>2. Fail(c) \/ GoOn(c, [Top(c) EXCEPT !.pc = "put"])
  BY DEF CreateChecks
<1>3. StackStep(c)
  BY <1>1, <1>2, AnswerIsKept, GoOnStep, FailStep
<1>4. BucketStep(c)
  BY ReadsStep, FaultyReadStep DEF CreateChecks
<1>5. QED BY <1>3, <1>4

LEMMA WriteObjectStep ==
    ASSUME TreeInv, NEW c \in Callers, WriteObject(c)
    PROVE  StackStep(c) /\ BucketStep(c)
<1> DEFINE k == Top(c).key
<1>1. /\ Running(c) /\ Top(c).fn \in {"Create", "MkdirAll"}
      /\ FrameOK(task[c], Top(c)) /\ Top(c) \in Frames
  BY TopIsOK DEF WriteObject, At
<1>2. k \in Keys /\ MayStore(task[c], k, Empty)
  BY <1>1 DEF Frames, FrameOK, FrameInside, MayStore, MayMake
<1>3. Empty \in Contents
  BY DEF Empty, Contents
<1>4. (Put(c, k, Empty) /\ Return(c)) \/ (FaultyPut(c, k, Empty) /\ Fail(c))
  BY DEF WriteObject
<1> HIDE DEF k
<1>5. QED BY <1>1, <1>2, <1>3, <1>4, ReturnStep, FailStep, PutStep

(* A step of a call that runs. *)
RunStep(c) == InfoStep(c) \/ CopyStep(c) \/ DeleteStep(c) \/ WriteStep(c)

LEMMA RunStepIsOK ==
    ASSUME TreeInv, NEW c \in Callers, RunStep(c)
    PROVE  StackStep(c) /\ BucketStep(c)
<1>1. CASE InfoStep(c)
  BY <1>1, AttrsStep, ProbeStep, ListChildrenStep DEF InfoStep
<1>2. CASE CopyStep(c)
  <2>1. CASE CopyChildFails(c)
    BY <2>1, FailStep, ReadsStep DEF CopyChildFails, At
  <2>2. CASE LoopEnds(c)
    BY <2>2, ReturnStep, ReadsStep DEF LoopEnds, At
  <2>3. QED BY <1>2, <2>1, <2>2, CopySingleObjectStep, CopyChildDirStep DEF CopyStep
<1>3. CASE DeleteStep(c)
  BY <1>3, DeleteObjectStep, DeleteChildDirStep, DeleteSelfStep DEF DeleteStep
<1>4. CASE WriteStep(c)
  BY <1>4, CreateChecksStep, WriteObjectStep DEF WriteStep
<1>5. QED BY <1>1, <1>2, <1>3, <1>4 DEF RunStep
-----------------------------------------------------------------------------
(***************************************************************************)
(* The invariant.                                                          *)
(***************************************************************************)

LEMMA FirstFrameIsOK ==
    ASSUME NEW t \in Tasks, t.op # "Open"
    PROVE  FrameOK(t, FirstFrame(t))
<1>1. t \in [op : Operations, src : Keys, dst : Keys] /\ t.src \in Keys /\ t.dst \in Keys
  BY TasksAssumption
<1>2. MarkerKey(t.src) \in Keys /\ Inside(t, t.src) /\ Image(t, t.src) = t.dst
  BY <1>1, MarkerIsKey, SourceIsPut DEF CallTasks
<1>3. CASE t.op \in {"Copy", "Move"}
  BY <1>1, <1>2, <1>3, CalledFramesAreOK DEF FirstFrame
<1>4. CASE t.op = "Delete"
  BY <1>1, <1>2, <1>4, CalledFramesAreOK DEF FirstFrame
<1>5. CASE t.op = "DeleteAll"
  BY <1>1, <1>2, <1>5, CalledFramesAreOK DEF FirstFrame
<1>6. CASE t.op = "DeleteMatching"
  BY <1>1, <1>2, <1>6, CalledFramesAreOK DEF FirstFrame
<1>7. CASE t.op = "Create"
  BY <1>1, <1>2, <1>7, CalledFramesAreOK DEF FirstFrame
<1>8. CASE t.op = "MkdirAll"
  BY <1>1, <1>2, <1>8, CalledFramesAreOK DEF FirstFrame
<1>9. QED BY <1>1, <1>3, <1>4, <1>5, <1>6, <1>7, <1>8 DEF Operations

LEMMA TreeStart == Init => TreeInv
<1> SUFFICES ASSUME Init PROVE TreeInv
  OBVIOUS
<1>1. IsBucket(objects) /\ IsBucket([k \in {} |-> Empty])
  BY BucketsAssumption, FS_EmptySet DEF Init, IsBucket
<1>2. TypeOK
  BY <1>1, FaultsAssumption DEF Init, TypeOK
<1>3. QED BY <1>2, EmptyStackIsOK DEF Init, TreeInv

LEMMA BeginStep ==
    ASSUME TreeInv, NEW c \in Callers, NEW t \in Tasks, Begin(c, t)
    PROVE  TreeInv' /\ stack[c] = <<>>
<1>1. stack[c] = <<>> /\ result[c] = "none" /\ task[c] = NoTask
  BY DEF TreeInv, Begin
<1>2. /\ task' = [task EXCEPT ![c] = t] /\ started' = [started EXCEPT ![c] = objects]
      /\ UNCHANGED <<objects, faults, touched>>
  BY DEF Begin
<1>3. PICK s : /\ StackOK(t, s) /\ stack' = [stack EXCEPT ![c] = s]
               /\ \/ UNCHANGED result
                  \/ s = <<>> /\ result' = [result EXCEPT ![c] = "ok"]
  <2>1. CASE t.op = "Open"
    <3>1. stack' = [stack EXCEPT ![c] = <<>>]
      BY <1>1, <2>1 DEF Begin, TreeInv, TypeOK
    <3>2. QED BY <2>1, <3>1, EmptyStackIsOK DEF Begin
  <2>2. CASE t.op # "Open"
    BY <2>2, FirstFrameIsOK, OneFrameIsOK DEF Begin
  <2>3. QED BY <2>1, <2>2
<1>4. t # NoTask
  BY TasksAssumption DEF NoTask, Operations
<1>5. ASSUME NEW d \in Callers
      PROVE  /\ StackOK(task'[d], stack'[d])
             /\ task'[d] = NoTask => stack'[d] = <<>> /\ result'[d] = "none"
             /\ result'[d] # "none" => stack'[d] = <<>>
  BY <1>1, <1>2, <1>3, <1>4 DEF TreeInv, TypeOK
<1>6. TypeOK'
  <2>1. /\ IsBucket(objects) /\ faults' \in 0..Faults
        /\ touched' \in [Callers -> SUBSET Keys]
    BY <1>2 DEF TreeInv, TypeOK
  <2>2. /\ stack' \in [Callers -> Seq(Frames)]
        /\ result' \in [Callers -> {"none", "ok", "error"}]
    BY <1>3 DEF TreeInv, TypeOK, StackOK
  <2>3. /\ task' \in [Callers -> Tasks \union {NoTask}]
        /\ \A d \in Callers : started'[d] = started[d] \/ started'[d] = objects
        /\ DOMAIN started' = Callers
    BY <1>2 DEF TreeInv, TypeOK
  <2>4. \A d \in Callers : IsBucket(started'[d])
    BY <2>1, <2>3 DEF TreeInv, TypeOK
  <2>5. ASSUME NEW d \in Callers, NEW i \in DOMAIN stack'[d],
               stack'[d][i].listed, stack'[d][i].todo = <<>>
        PROVE  stack'[d][i].pc = "end"
    <3>1. i \in 1..Len(stack'[d])
      BY <2>2
    <3>2. FrameOK(task'[d], stack'[d][i])
      BY <1>5, <3>1 DEF StackOK
    <3>3. QED BY <2>5, <3>2 DEF FrameOK
  <2>6. UNCHANGED objects
    BY <1>2
  <2>7. QED BY <2>1, <2>2, <2>3, <2>4, <2>5, <2>6 DEF TypeOK, IsBucket
<1>7. QED BY <1>1, <1>5, <1>6 DEF TreeInv, StackOK, FrameOK, FrameInside, ChildOf,
      Inside, Image, MarkerKey

LEMMA RunStepKeepsTreeInv ==
    ASSUME TreeInv, NEW c \in Callers, StackStep(c), BucketStep(c)
    PROVE  TreeInv'
<1>1. UNCHANGED <<task, started>> /\ Begun(c) /\ result[c] = "none"
  BY TopIsOK DEF BucketStep, StackStep, callVars
<1>2. task[c] # NoTask
  BY <1>1 DEF Begun, NoTask, Operations
<1>3. ASSUME NEW d \in Callers
      PROVE  /\ StackOK(task'[d], stack'[d])
             /\ task'[d] = NoTask => stack'[d] = <<>> /\ result'[d] = "none"
             /\ result'[d] # "none" => stack'[d] = <<>>
  BY <1>1, <1>2 DEF TreeInv, StackStep
<1>4. TypeOK'
  <2>1. /\ IsBucket(objects') /\ faults' \in 0..Faults
        /\ touched' \in [Callers -> SUBSET Keys]
    BY DEF BucketStep
  <2>2. /\ stack' \in [Callers -> Seq(Frames)]
        /\ result' \in [Callers -> {"none", "ok", "error"}]
    BY DEF StackStep
  <2>3. /\ task' \in [Callers -> Tasks \union {NoTask}]
        /\ DOMAIN started' = Callers /\ \A d \in Callers : IsBucket(started'[d])
    BY <1>1 DEF TreeInv, TypeOK
  <2>4. ASSUME NEW d \in Callers, NEW i \in DOMAIN stack'[d],
               stack'[d][i].listed, stack'[d][i].todo = <<>>
        PROVE  stack'[d][i].pc = "end"
    <3>1. i \in 1..Len(stack'[d])
      BY <2>2
    <3>2. FrameOK(task'[d], stack'[d][i])
      BY <1>3, <3>1 DEF StackOK
    <3>3. QED BY <2>4, <3>2 DEF FrameOK
  <2>5. QED BY <2>1, <2>2, <2>3, <2>4 DEF TypeOK, IsBucket
<1>5. QED BY <1>3, <1>4 DEF TreeInv, StackOK, FrameOK, FrameInside, ChildOf,
      Inside, Image, MarkerKey

LEMMA TreeNext == TreeInv /\ [Next]_vars => TreeInv'
<1> SUFFICES ASSUME TreeInv, [Next]_vars PROVE TreeInv'
  OBVIOUS
<1>1. ASSUME UNCHANGED vars PROVE TreeInv'
  <2>1. TypeOK'
    BY <1>1 DEF TreeInv, TypeOK, vars, IsBucket
  <2>2. ASSUME NEW d \in Callers
        PROVE  /\ StackOK(task'[d], stack'[d])
               /\ task'[d] = NoTask => stack'[d] = <<>> /\ result'[d] = "none"
               /\ result'[d] # "none" => stack'[d] = <<>>
    BY <1>1 DEF TreeInv, vars
  <2>3. QED BY <2>1, <2>2 DEF TreeInv, StackOK, FrameOK, FrameInside, ChildOf,
        Inside, Image, MarkerKey
<1>2. CASE Finished
  BY <1>1, <1>2 DEF Finished
<1>3. ASSUME NEW c \in Callers, CallerNext(c)
      PROVE  TreeInv'
  <2>1. ASSUME NEW t \in Tasks, Begin(c, t) PROVE TreeInv'
    BY <2>1, BeginStep
  <2>2. CASE RunStep(c)
    BY <2>2, RunStepIsOK, RunStepKeepsTreeInv
  <2>3. QED BY <1>3, <2>1, <2>2 DEF CallerNext, RunStep
<1>4. QED BY <1>1, <1>2, <1>3 DEF Next

(* Every call works inside its tree, at every moment. *)
THEOREM TreeInvariant == Spec => []TreeInv
  BY TreeStart, TreeNext, PTL DEF Spec

(* The variables keep their types: the bucket is a finite map from keys to  *)
(* objects, however many programs copy, move and delete at once, and a      *)
(* frame whose children are all visited is at its end.                     *)
THEOREM TreeTypes == Spec => []TypeOK
<1>1. TreeInv => TypeOK
  BY DEF TreeInv
<1>2. QED BY <1>1, TreeInvariant, PTL
-----------------------------------------------------------------------------
(***************************************************************************)
(* The places of two keys.                                                 *)
(***************************************************************************)

(* Two keys of a tree are copied to two places. *)
LEMMA ImagesDiffer ==
    ASSUME NEW t \in CallTasks, NEW j \in Keys, NEW k \in Keys,
           Inside(t, j), Inside(t, k), Image(t, j) = Image(t, k)
    PROVE  j = k
<1>1. t.dst \in Keys /\ IsPrefix(t.src, j) /\ IsPrefix(t.src, k)
  BY InsideMeans DEF CallTasks
<1>2. /\ Rest(t.src, j) \in Keys /\ j = t.src \o Rest(t.src, j)
      /\ Image(t, j) = t.dst \o Rest(t.src, j)
      /\ Rest(t.src, k) \in Keys /\ k = t.src \o Rest(t.src, k)
      /\ Image(t, k) = t.dst \o Rest(t.src, k)
  BY <1>1, ImageMeans
<1>3. Rest(t.src, j) = Rest(t.src, k)
  <2>1. /\ Rest(t.dst, t.dst \o Rest(t.src, j)) = Rest(t.src, j)
        /\ Rest(t.dst, t.dst \o Rest(t.src, k)) = Rest(t.src, k)
    BY <1>1, <1>2, RestOfConcat
  <2>2. QED BY <1>2, <2>1
<1>4. QED BY <1>2, <1>3

(* No key of a tree is copied into the tree. *)
LEMMA ImagesAreOutside ==
    ASSUME NEW t \in CallTasks, Apart(t), NEW k \in Keys, Inside(t, k)
    PROVE  Image(t, k) \in Keys /\ ~Inside(t, Image(t, k))
<1> DEFINE from == WithSlash(t.src)
           to == Image(t, from)
<1>1. t.src \in Keys /\ from \in Keys /\ IsPrefix(t.src, from) /\ IsPrefix(from, from)
  BY SlashIsKept DEF CallTasks
<1>2. ~IsPrefix(from, to) /\ ~IsPrefix(to, from)
  BY DEF Apart
<1>3. to \in Keys /\ \A r \in Keys : Image(t, from \o r) = to \o r
  <2>1. t \in CallTasks /\ from \in Keys /\ IsPrefix(t.src, from)
    BY <1>1
  <2> HIDE DEF from
  <2>2. QED BY ONLY <2>1, ImageMeans DEF to
<1>4. to = t.dst \o Rest(t.src, from) /\ Rest(t.src, from) \in Keys
      /\ from = t.src \o Rest(t.src, from) /\ t.dst \in Keys
  BY <1>1, ImageMeans DEF CallTasks
<1> HIDE DEF from, to
<1>5. ASSUME IsPrefix(from, k) PROVE Image(t, k) \in Keys /\ ~Inside(t, Image(t, k))
  <2> DEFINE r == Rest(from, k)
  <2>1. r \in Keys /\ k = from \o r
    BY <1>1, <1>5, PrefixAndRest
  <2> HIDE DEF r
  <2>2. Image(t, k) = to \o r /\ to \o r \in Keys /\ IsPrefix(to, to \o r)
    BY <1>3, <2>1, RestOfConcat
  <2>3. ASSUME to \o r = t.src PROVE FALSE
    <3>1. IsPrefix(to, from)
      BY <1>1, <1>3, <2>2, <2>3, PrefixTransitive DEF Keys
    <3>2. QED BY <1>2, <3>1
  <2>4. ASSUME IsPrefix(from, to \o r) PROVE FALSE
    BY <1>1, <1>2, <1>3, <2>2, <2>4, PrefixesCompare
  <2>5. QED BY <2>2, <2>3, <2>4 DEF Inside, from
<1>6. ASSUME k = t.src PROVE Image(t, k) \in Keys /\ ~Inside(t, Image(t, k))
  <2>1. Rest(t.src, t.src) = <<>> /\ Image(t, t.src) = t.dst
    <3>1. t.src \o <<>> = t.src /\ <<>> \in Keys /\ t.dst \o <<>> = t.dst
      BY <1>1, <1>4, ConcatEmptySeq DEF Keys
    <3>2. Rest(t.src, t.src \o <<>>) = <<>>
      BY <1>1, <3>1, RestOfConcat
    <3>3. QED BY <3>1, <3>2 DEF Image, Rest
  <2>2. IsPrefix(t.dst, to)
    BY <1>4, RestOfConcat
  <2>3. ASSUME t.dst = t.src PROVE FALSE
    BY <1>1, <1>2, <1>4, <2>3
  <2>4. ASSUME IsPrefix(from, t.dst) PROVE FALSE
    <3>1. IsPrefix(from, to)
      BY <1>1, <1>3, <1>4, <2>2, <2>4, PrefixTransitive DEF Keys
    <3>2. QED BY <1>2, <3>1
  <2>5. QED BY <1>4, <1>6, <2>1, <2>3, <2>4 DEF Inside, from
<1>7. QED BY <1>5, <1>6 DEF Inside, from

LEMMA WithSlashIsDirKey ==
    ASSUME NEW k \in Keys
    PROVE  IsDirKey(WithSlash(k))
<1>1. CASE IsDirKey(k)
  BY <1>1 DEF WithSlash
<1>2. CASE ~IsDirKey(k)
  <2>1. WithSlash(k) = Append(k, "/") /\ k \in Seq(Tokens) /\ "/" \in Tokens
    BY <1>2, SlashAssumption DEF WithSlash, Keys
  <2>2. /\ Len(Append(k, "/")) = Len(k) + 1
        /\ Append(k, "/")[Len(k) + 1] = "/"
    BY <2>1, AppendProperties
  <2>3. QED BY <2>1, <2>2 DEF IsDirKey, Last
<1>3. QED BY <1>1, <1>2
-----------------------------------------------------------------------------
(***************************************************************************)
(* What becomes of the objects of a tree.                                  *)
(***************************************************************************)

Transfers(c) == task[c].op \in {"Copy", "Move"} /\ Apart(task[c]) /\ Undisputed(c)
Deletes(c) ==
    /\ task[c].op \in {"Delete", "DeleteAll", "Move"} /\ Undisputed(c)
    /\ task[c].op = "Move" => Apart(task[c])

Copying(c) == stack[c] # <<>> /\ stack[c][1].fn = "Copy"
Deleting(c) == stack[c] # <<>> /\ stack[c][1].fn = "Delete"

(* A frame at its end has no child left, and one that asks about its own    *)
(* key asks about a file.                                                  *)
FrameShape(f) ==
    /\ f.pc = "end" => f.listed /\ f.todo = <<>>
    /\ /\ ~f.listed /\ f.fn \in {"Copy", "Delete"}
       /\ f.pc \in {"attrs", "probe", "file", "none"}
       => ~IsDirKey(f.key)

(* The frames of a call are of one function, and the outermost works on the *)
(* source.                                                                 *)
Shape(t, s) ==
    /\ s # <<>> /\ s[1].fn \in {"Copy", "Delete"} => s[1].key = t.src
    /\ \A i \in 1..Len(s) : s[i].fn = s[1].fn /\ FrameShape(s[i])

IsDirectory(c, k) == IsDirKey(k) \/ \E j \in Known(c) : IsPrefix(WithSlash(k), j)
Awaits(f, k) == ~f.listed \/ \E i \in 1..Len(f.todo) : f.todo[i] = k

(* Every object of the tree was there before, or another program put it     *)
(* there.                                                                  *)
NoStranger(c) == \A k \in DOMAIN objects : Inside(task[c], k) => k \in Known(c)

(* While a Copy runs: the source stays as it was; the frames put keys where *)
(* they belong; what the outermost frame takes for a directory is one; and  *)
(* each file is copied, or the outermost frame has it ahead.                *)
SourceStays(c) ==
    \A k \in DOMAIN started[c] \ touched[c] : Inside(task[c], k) => Unchanged(c, k)
AllPut(c) == \A i \in 1..Len(stack[c]) : Puts(task[c], stack[c][i])
DirIsFound(c) == stack[c][1].pc = "dir" => IsDirectory(c, Subject(stack[c][1]))
CopyIsDue(c) ==
    \A k \in Files(c, task[c].src) :
        LeftAlone(c, k) => Awaits(stack[c][1], k) \/ Copied(c, k)

AllCopied(c) == \A k \in Files(c, task[c].src) : LeftAlone(c, k) => Copied(c, k)
NoneLost(c) ==
    \A k \in Files(c, task[c].src) :
        LeftAlone(c, k) => Unchanged(c, k) \/ Copied(c, k)

CopyInv(c) ==
    Transfers(c) =>
        /\ Copying(c) => SourceStays(c) /\ AllPut(c) /\ DirIsFound(c) /\ CopyIsDue(c)
        /\ Deleting(c) \/ result[c] = "ok" => AllCopied(c)
        /\ result[c] = "error" /\ task[c].op = "Move" => NoneLost(c)
        /\ result[c] = "none" => stack[c] # <<>>

(* While a Delete runs: what is left of the tree some frame has ahead, the  *)
(* outermost as a child, or any as the key it deletes in the end.           *)
DeleteIsDue(c) ==
    \A k \in Tree(c, task[c].src) \ touched[c] : k \in DOMAIN objects =>
        \/ Awaits(stack[c][1], k)
        \/ k = WithSlash(task[c].src)
        \/ \E i \in 1..Len(stack[c]) : stack[c][i].key = k
AllGone(c) == \A k \in Tree(c, task[c].src) \ touched[c] : k \notin DOMAIN objects

DeleteInv(c) ==
    Deletes(c) =>
        /\ Deleting(c) => DeleteIsDue(c)
        /\ result[c] = "ok" => AllGone(c)

FateOK(c) ==
    /\ Shape(task[c], stack[c])
    /\ Transfers(c) \/ Deletes(c) => NoStranger(c)
    /\ CopyInv(c) /\ DeleteInv(c)

FateInv == \A c \in Callers : FateOK(c)
-----------------------------------------------------------------------------
(***************************************************************************)
(* The steps of other callers.                                             *)
(***************************************************************************)

SameCall(c) == task'[c] = task[c] /\ started'[c] = started[c]
SamePlace(c) == stack'[c] = stack[c] /\ result'[c] = result[c]
ByOthers(c) ==
    /\ touched[c] \subseteq touched'[c]
    /\ \A k \in DOMAIN objects \union DOMAIN objects' : Differs(k) => k \in touched'[c]

LEMMA NoTaskIsOK ==
    ASSUME NEW c, task[c] = NoTask, stack[c] = <<>>
    PROVE  FateOK(c)
<1>1. task[c].op = "None"
  BY DEF NoTask
<1>2. ~Transfers(c) /\ ~Deletes(c)
  BY <1>1 DEF Transfers, Deletes
<1>3. Shape(task[c], stack[c])
  BY DEF Shape
<1>4. QED BY <1>2, <1>3 DEF FateOK, CopyInv, DeleteInv

(* The tree and its files are those of the objects when the call began. *)
LEMMA TreeMeans ==
    ASSUME TreeInv, NEW c \in Callers, NEW k \in Tree(c, task[c].src)
    PROVE  /\ k \in Keys /\ k \in DOMAIN started[c] /\ k \in Known(c)
           /\ Inside(task[c], k)
  BY DEF TreeInv, TypeOK, IsBucket, Tree, Under, Known, Inside

LEMMA OthersStep ==
    ASSUME TreeInv, NEW c \in Callers, FateOK(c), SameCall(c), SamePlace(c), ByOthers(c)
    PROVE  FateOK(c)'
<1> USE DEF SameCall, SamePlace
<1>1. /\ Known(c) \subseteq Known(c)'
      /\ Undisputed(c)' => Undisputed(c)
      /\ Tree(c, task[c].src)' = Tree(c, task[c].src)
      /\ Files(c, task[c].src)' = Files(c, task[c].src)
      /\ \A k : LeftAlone(c, k)' => LeftAlone(c, k)
  BY DEF ByOthers, Known, Undisputed, Tree, Files, Under, LeftAlone, Image
<1>2. /\ Transfers(c)' => Transfers(c)
      /\ Deletes(c)' => Deletes(c)
      /\ Copying(c)' <=> Copying(c)
      /\ Deleting(c)' <=> Deleting(c)
  BY <1>1 DEF Transfers, Deletes, Apart, Image, Copying, Deleting
<1>3. ASSUME NEW k, k \notin touched'[c]
      PROVE  /\ k \in DOMAIN objects' <=> k \in DOMAIN objects
             /\ k \in DOMAIN objects => objects'[k] = objects[k]
  BY <1>3 DEF ByOthers, Differs
<1>4. ASSUME NEW k, LeftAlone(c, k)'
      PROVE  /\ Unchanged(c, k)' <=> Unchanged(c, k)
             /\ Copied(c, k)' <=> Copied(c, k)
  BY <1>3, <1>4 DEF LeftAlone, Unchanged, Copied, Image
<1>5. Shape(task[c], stack[c])'
  BY DEF FateOK, Shape, FrameShape, IsDirKey
<1>6. ASSUME NoStranger(c) PROVE NoStranger(c)'
  <2>1. ASSUME NEW k \in DOMAIN objects', Inside(task[c], k) PROVE k \in Known(c)'
    <3>1. CASE k \in DOMAIN objects
      BY <1>1, <1>6, <2>1, <3>1 DEF NoStranger
    <3>2. CASE k \notin DOMAIN objects
      BY <1>3, <2>1, <3>2 DEF Known
    <3>3. QED BY <3>1, <3>2
  <2>2. QED BY <2>1 DEF NoStranger, Inside
<1>7. CopyInv(c)'
  <2>1. SourceStays(c) => SourceStays(c)'
    BY <1>3 DEF SourceStays, Unchanged, Inside, ByOthers
  <2>2. AllPut(c) => AllPut(c)'
    BY DEF AllPut, Puts, Inside, Image
  <2>3. DirIsFound(c) => DirIsFound(c)'
    BY <1>1 DEF DirIsFound, IsDirectory, Subject
  <2>4. CopyIsDue(c) => CopyIsDue(c)'
    BY <1>1, <1>4 DEF CopyIsDue, Awaits
  <2>5. (AllCopied(c) => AllCopied(c)') /\ (NoneLost(c) => NoneLost(c)')
    BY <1>1, <1>4 DEF AllCopied, NoneLost
  <2>6. CopyInv(c)
    BY DEF FateOK
  <2>7. QED BY ONLY <1>2, <2>1, <2>2, <2>3, <2>4, <2>5, <2>6, SameCall(c), SamePlace(c)
            DEF CopyInv, SameCall, SamePlace
<1>8. DeleteInv(c)'
  <2>1. DeleteIsDue(c) => DeleteIsDue(c)'
    BY <1>1, <1>3 DEF DeleteIsDue, Awaits, ByOthers
  <2>2. AllGone(c) => AllGone(c)'
    BY <1>1, <1>3 DEF AllGone, ByOthers
  <2>3. QED BY <1>2, <2>1, <2>2 DEF FateOK, DeleteInv
<1>9. QED BY <1>2, <1>5, <1>6, <1>7, <1>8 DEF FateOK
-----------------------------------------------------------------------------
(***************************************************************************)
(* The stack, frame by frame.                                              *)
(***************************************************************************)

LEMMA GoOnMeans ==
    ASSUME TreeInv, NEW c \in Callers, Running(c), NEW f \in Frames, GoOn(c, f)
    PROVE  /\ Len(stack'[c]) = Len(stack[c]) /\ stack'[c][Len(stack[c])] = f
           /\ \A i \in 1..(Len(stack[c]) - 1) : stack'[c][i] = stack[c][i]
           /\ result'[c] = result[c]
<1> DEFINE s == Append(Front(stack[c]), f)
<1>1. /\ Len(s) = Len(stack[c]) /\ s[Len(stack[c])] = f
      /\ \A i \in 1..(Len(stack[c]) - 1) : s[i] = stack[c][i]
  BY TopIsOK, AppendProperties
<1> HIDE DEF s
<1>2. stack'[c] = s /\ result' = result
  BY DEF GoOn, TreeInv, TypeOK, s
<1>3. QED BY <1>1, <1>2

(* The loop of frame f calls itself: g is the frame of the call. *)
CallsItself(c, f, g) ==
    stack' = [stack EXCEPT ![c] = Front(@) \o <<f, g>>] /\ UNCHANGED result

LEMMA CallMeans ==
    ASSUME TreeInv, NEW c \in Callers, Running(c), NEW f \in Frames, NEW g \in Frames,
           CallsItself(c, f, g)
    PROVE  /\ Len(stack'[c]) = Len(stack[c]) + 1
           /\ stack'[c][Len(stack[c])] = f /\ stack'[c][Len(stack[c]) + 1] = g
           /\ \A i \in 1..(Len(stack[c]) - 1) : stack'[c][i] = stack[c][i]
           /\ result'[c] = result[c]
<1> DEFINE front == Front(stack[c])
           two == <<f, g>>
           n == Len(stack[c])
<1>1. two \in Seq(Frames) /\ Len(two) = 2 /\ two[1] = f /\ two[2] = g
  OBVIOUS
<1>2. /\ front \in Seq(Frames) /\ Len(front) = n - 1 /\ n \in Nat \ {0}
      /\ \A i \in 1..(n - 1) : front[i] = stack[c][i]
  BY TopIsOK
<1> HIDE DEF front, two, n
<1>3. /\ Len(front \o two) = Len(front) + Len(two)
      /\ \A i \in 1..(Len(front) + Len(two)) :
            (front \o two)[i] = IF i <= Len(front) THEN front[i] ELSE two[i - Len(front)]
  BY <1>1, <1>2, ConcatProperties
<1>4. /\ Len(front \o two) = n + 1
      /\ \A i \in 1..(n + 1) :
            (front \o two)[i] = IF i <= n - 1 THEN front[i] ELSE two[i - (n - 1)]
  BY <1>1, <1>2, <1>3
<1>5. \A i \in 1..(n - 1) : (front \o two)[i] = stack[c][i]
  BY <1>2, <1>4
<1>6. (front \o two)[n] = f /\ (front \o two)[n + 1] = g
  BY <1>1, <1>2, <1>4
<1>7. stack'[c] = front \o two /\ result' = result
  BY DEF TreeInv, TypeOK, CallsItself, front, two
<1>8. QED BY <1>4, <1>5, <1>6, <1>7 DEF n

LEMMA FailMeans ==
    ASSUME TreeInv, NEW c \in Callers, Fail(c)
    PROVE  stack'[c] = <<>> /\ result'[c] = "error"
  BY DEF TreeInv, TypeOK, Fail

(* The outermost call returns, or another does. *)
EndsCall(c) ==
    /\ Len(stack[c]) = 1
    /\ IF task[c].op = "Move" /\ Top(c).fn = "Copy"
       THEN stack'[c] = <<CallDelete(task[c].src)>> /\ result'[c] = result[c]
       ELSE stack'[c] = <<>> /\ result'[c] = "ok"
PopsFrame(c) ==
    /\ Len(stack[c]) > 1 /\ Len(stack'[c]) = Len(stack[c]) - 1
    /\ \A i \in 1..(Len(stack[c]) - 1) : stack'[c][i] = stack[c][i]
    /\ result'[c] = result[c]

LEMMA ReturnMeans ==
    ASSUME TreeInv, NEW c \in Callers, Running(c), Return(c)
    PROVE  EndsCall(c) \/ PopsFrame(c)
<1>1. Len(stack[c]) \in Nat \ {0}
  BY TopIsOK
<1>2. CASE Len(stack[c]) > 1
  <2>1. stack'[c] = Front(stack[c]) /\ result' = result
    BY <1>2 DEF Return, TreeInv, TypeOK
  <2>2. /\ Len(Front(stack[c])) = Len(stack[c]) - 1
        /\ \A i \in 1..(Len(stack[c]) - 1) : Front(stack[c])[i] = stack[c][i]
    BY TopIsOK
  <2>3. QED BY <1>2, <2>1, <2>2 DEF PopsFrame
<1>3. CASE Len(stack[c]) = 1
  BY <1>3 DEF Return, TreeInv, TypeOK, EndsCall
<1>4. Len(stack[c]) > 1 \/ Len(stack[c]) = 1
  <2> DEFINE n == Len(stack[c])
  <2>1. n \in Nat \ {0}
    BY <1>1
  <2> HIDE DEF n
  <2>2. n > 1 \/ n = 1
    BY <2>1
  <2>3. QED BY <2>2 DEF n
<1>5. QED BY ONLY <1>2, <1>3, <1>4

LEMMA ShapeGoesOn ==
    ASSUME TreeInv, NEW c \in Callers, FateOK(c), Running(c), NEW f \in Frames, GoOn(c, f),
           f.fn = Top(c).fn, f.key = Top(c).key, FrameShape(f)
    PROVE  Shape(task[c], stack'[c])
<1>1. /\ Len(stack'[c]) = Len(stack[c]) /\ stack'[c][Len(stack[c])] = f
      /\ \A i \in 1..(Len(stack[c]) - 1) : stack'[c][i] = stack[c][i]
      /\ Len(stack[c]) \in Nat \ {0} /\ stack[c] # <<>>
  BY GoOnMeans, TopIsOK DEF Running
<1>2. Shape(task[c], stack[c]) /\ Top(c) = stack[c][Len(stack[c])]
  BY DEF FateOK, Top, Last
<1>3. ASSUME NEW i \in 1..Len(stack[c])
      PROVE  stack'[c][i].fn = stack[c][i].fn /\ stack'[c][i].key = stack[c][i].key
             /\ FrameShape(stack'[c][i])
  <2>1. CASE i = Len(stack[c])
    BY <1>1, <1>2, <2>1
  <2>2. CASE i # Len(stack[c])
    BY <1>1, <1>2, <2>2 DEF Shape
  <2>3. QED BY <2>1, <2>2
<1>4. 1 \in 1..Len(stack[c])
  BY <1>1
<1>5. QED BY <1>1, <1>2, <1>3, <1>4 DEF Shape

LEMMA ShapeCalls ==
    ASSUME TreeInv, NEW c \in Callers, FateOK(c), Running(c),
           NEW f \in Frames, NEW g \in Frames,
           CallsItself(c, f, g),
           f.fn = Top(c).fn, f.key = Top(c).key, FrameShape(f),
           g.fn = Top(c).fn, FrameShape(g)
    PROVE  Shape(task[c], stack'[c])
<1> DEFINE n == Len(stack[c])
<1>1. /\ Len(stack'[c]) = n + 1 /\ stack'[c][n] = f /\ stack'[c][n + 1] = g
      /\ \A i \in 1..(n - 1) : stack'[c][i] = stack[c][i]
      /\ n \in Nat \ {0} /\ stack[c] # <<>>
  <2>1. /\ Len(stack'[c]) = n + 1 /\ stack'[c][n] = f /\ stack'[c][n + 1] = g
        /\ \A i \in 1..(n - 1) : stack'[c][i] = stack[c][i]
    <3> HIDE DEF n
    <3>1. QED BY CallMeans DEF n
  <2>2. n \in Nat \ {0} /\ stack[c] # <<>>
    BY TopIsOK DEF Running
  <2>3. QED BY <2>1, <2>2
<1>2. Shape(task[c], stack[c]) /\ Top(c) = stack[c][n]
  BY DEF FateOK, Top, Last
<1> HIDE DEF n
<1>3. \A i \in 1..n : stack[c][i].fn = stack[c][1].fn /\ FrameShape(stack[c][i])
  BY <1>2 DEF Shape, n
<1>4. 1 \in 1..n /\ n \in 1..n
  BY <1>1
<1>5. ASSUME NEW i \in 1..(n + 1)
      PROVE  stack'[c][i].fn = stack[c][1].fn /\ FrameShape(stack'[c][i])
  <2>1. CASE i \in 1..(n - 1)
    <3>1. i \in 1..n /\ stack'[c][i] = stack[c][i]
      BY <1>1, <2>1
    <3>2. QED BY <1>3, <3>1
  <2>2. CASE i = n
    <3>1. stack'[c][i] = f
      BY <1>1, <2>2
    <3>2. f.fn = stack[c][1].fn
      BY <1>2, <1>3, <1>4
    <3>3. QED BY <3>1, <3>2
  <2>3. CASE i = n + 1
    <3>1. stack'[c][i] = g
      BY <1>1, <2>3
    <3>2. g.fn = stack[c][1].fn
      BY <1>2, <1>3, <1>4
    <3>3. QED BY <3>1, <3>2
  <2>4. i \in 1..(n - 1) \/ i = n \/ i = n + 1
    BY <1>1
  <2>5. QED BY <2>1, <2>2, <2>3, <2>4
<1>6. stack'[c][1].fn = stack[c][1].fn /\ stack'[c][1].key = stack[c][1].key
  <2>1. CASE n = 1
    BY <1>1, <1>2, <2>1
  <2>2. CASE n # 1
    BY <1>1, <2>2
  <2>3. QED BY <2>1, <2>2
<1>7. QED BY <1>1, <1>2, <1>5, <1>6 DEF Shape

LEMMA FirstFrameShape ==
    ASSUME NEW k, NEW to
    PROVE  /\ LET f == CallCopy(k, to) IN
              /\ f.fn = "Copy" /\ f.key = k /\ f.to = to /\ ~f.listed /\ f.todo = <<>>
              /\ f.pc = AskInfo(k) /\ FrameShape(f)
           /\ LET f == CallDelete(k) IN
              f.fn = "Delete" /\ f.key = k /\ ~f.listed /\ FrameShape(f)
           /\ LET f == CallDeleteAll(k) IN
              f.fn = "Delete" /\ f.key = k /\ ~f.listed /\ FrameShape(f)
  BY DEF CallCopy, CallDelete, CallDeleteAll, AskInfo, FrameShape

LEMMA ShapeReturns ==
    ASSUME TreeInv, NEW c \in Callers, FateOK(c), Running(c), Return(c)
    PROVE  Shape(task[c], stack'[c])
<1>1. Shape(task[c], stack[c]) /\ Len(stack[c]) \in Nat \ {0} /\ stack[c] # <<>>
  BY TopIsOK DEF FateOK, Running
<1>2. CASE PopsFrame(c)
  <2> DEFINE n == Len(stack[c])
             t == task[c]
             s == stack[c]
             r == stack'[c]
  <2>1. n \in Nat /\ n > 1 /\ Len(r) = n - 1 /\ \A i \in 1..(n - 1) : r[i] = s[i]
    BY <1>1, <1>2 DEF PopsFrame
  <2>2. /\ s[1].fn \in {"Copy", "Delete"} => s[1].key = t.src
        /\ \A i \in 1..n : s[i].fn = s[1].fn /\ FrameShape(s[i])
    BY <1>1 DEF Shape
  <2> HIDE DEF n, t, s, r
  <2>3. r[1] = s[1] /\ \A i \in 1..(n - 1) : i \in 1..n
    BY <2>1
  <2>4. \A i \in 1..(n - 1) : r[i].fn = r[1].fn /\ FrameShape(r[i])
    BY <2>1, <2>2, <2>3
  <2>5. Shape(t, r)
    BY <2>1, <2>2, <2>3, <2>4 DEF Shape
  <2>6. QED BY <2>5 DEF t, r
<1>3. CASE EndsCall(c) /\ stack'[c] = <<>>
  BY <1>3 DEF Shape
<1>4. CASE EndsCall(c) /\ stack'[c] = <<CallDelete(task[c].src)>>
  <2> DEFINE f == CallDelete(task[c].src)
  <2>1. f.fn = "Delete" /\ f.key = task[c].src /\ FrameShape(f)
    BY FirstFrameShape
  <2> HIDE DEF f
  <2>2. stack'[c] = <<f>>
    BY <1>4 DEF f
  <2>3. QED BY <2>1, <2>2 DEF Shape
<1>5. QED BY <1>2, <1>3, <1>4, ReturnMeans DEF EndsCall

(* The loop, and the answers of Info. *)
LEMMA LoopShape ==
    ASSUME NEW f \in Frames, f.listed
    PROVE  /\ Loop(f).fn = f.fn /\ Loop(f).key = f.key /\ Loop(f).to = f.to
           /\ Loop(f).todo = f.todo /\ Loop(f).listed /\ FrameShape(Loop(f))
           /\ Loop(f) \in Frames
           /\ f.fn = "Copy" /\ Loop(f).pc = "dir" => IsDirKey(Subject(Loop(f)))
<1>1. AskInfo(Head(f.todo)) \in {"dir", "attrs"}
  BY DEF AskInfo
<1>2. /\ Loop(f) \in Frames /\ Loop(f).fn = f.fn /\ Loop(f).key = f.key
      /\ Loop(f).to = f.to /\ Loop(f).todo = f.todo /\ Loop(f).listed
  BY <1>1 DEF Loop, Frames
<1>3. Loop(f).pc = IF f.todo = <<>> THEN "end"
                   ELSE IF f.fn = "DeleteMatching" THEN "file"
                   ELSE AskInfo(Head(f.todo))
  BY DEF Loop, Frames
<1>4. FrameShape(Loop(f))
  BY <1>1, <1>2, <1>3 DEF FrameShape
<1>5. ASSUME f.fn = "Copy", Loop(f).pc = "dir" PROVE IsDirKey(Subject(Loop(f)))
  BY <1>2, <1>3, <1>5 DEF Subject, AskInfo
<1>6. QED BY <1>2, <1>4, <1>5

LEMMA NextChildShape ==
    ASSUME NEW t, NEW f, FrameOK(t, f), f.listed, f.pc # "end"
    PROVE  LET g == NextChild(f) IN
           /\ g \in Frames /\ g.fn = f.fn /\ g.key = f.key /\ g.to = f.to /\ g.listed
           /\ f.todo \in Seq(Keys) /\ f.todo # <<>> /\ Head(f.todo) = f.todo[1]
           /\ g.todo = Tail(f.todo) /\ Len(g.todo) = Len(f.todo) - 1
           /\ \A i \in 1..Len(g.todo) : g.todo[i] = f.todo[i + 1]
           /\ FrameShape(g)
           /\ f.fn = "Copy" /\ g.pc = "dir" => IsDirKey(Subject(g))
<1>1. f \in Frames /\ f.todo \in Seq(Keys) /\ f.todo # <<>>
  BY DEF FrameOK, Frames
<1>2. /\ Head(f.todo) = f.todo[1] /\ Tail(f.todo) \in Seq(Keys)
      /\ Len(Tail(f.todo)) = Len(f.todo) - 1
      /\ \A i \in 1..Len(Tail(f.todo)) : Tail(f.todo)[i] = f.todo[i + 1]
  BY <1>1, HeadTailProperties
<1> DEFINE h == [f EXCEPT !.todo = Tail(@)]
<1>3. /\ h \in Frames /\ h.listed /\ h.todo = Tail(f.todo)
      /\ h.fn = f.fn /\ h.key = f.key /\ h.to = f.to
  BY <1>1, <1>2 DEF Frames
<1>4. NextChild(f) = Loop(h)
  BY DEF NextChild
<1> HIDE DEF h
<1> DEFINE g == NextChild(f)
<1>5. /\ g \in Frames /\ g.fn = f.fn /\ g.key = f.key /\ g.to = f.to /\ g.listed
      /\ g.todo = Tail(f.todo) /\ FrameShape(g)
      /\ f.fn = "Copy" /\ g.pc = "dir" => IsDirKey(Subject(g))
  BY <1>3, <1>4, LoopShape
<1> HIDE DEF g
<1>6. QED BY <1>1, <1>2, <1>5 DEF g

(* Info has answered. *)
LEMMA AnswerShape ==
    ASSUME NEW f \in Frames, FrameShape(f), f.pc \in {"attrs", "probe"},
           NEW p \in {"file", "probe", "dir", "none"}
    PROVE  LET g == [f EXCEPT !.pc = p] IN
           /\ g \in Frames /\ g.fn = f.fn /\ g.key = f.key /\ g.to = f.to
           /\ g.listed = f.listed /\ g.todo = f.todo /\ g.pc = p
           /\ Subject(g) = Subject(f) /\ FrameShape(g)
  BY DEF Frames, FrameShape, Subject
-----------------------------------------------------------------------------
(***************************************************************************)
(* What a call does to the objects of its own tree.                        *)
(***************************************************************************)

Own(c) == SameCall(c) /\ touched'[c] = touched[c]
Without(k) == [j \in DOMAIN objects \ {k} |-> objects[j]]

LEMMA OwnMeans ==
    ASSUME NEW c, Own(c)
    PROVE  /\ Known(c)' = Known(c)
           /\ Tree(c, task[c].src)' = Tree(c, task[c].src)
           /\ Files(c, task[c].src)' = Files(c, task[c].src)
           /\ \A k : LeftAlone(c, k)' <=> LeftAlone(c, k)
           /\ Transfers(c)' <=> Transfers(c)
           /\ Deletes(c)' <=> Deletes(c)
<1> USE DEF Own, SameCall
<1>1. Known(c)' = Known(c) /\ (Undisputed(c)' <=> Undisputed(c))
  BY DEF Known, Undisputed
<1>2. Tree(c, task[c].src)' = Tree(c, task[c].src)
  BY DEF Tree, Under
<1>3. Files(c, task[c].src)' = Files(c, task[c].src)
  BY <1>2 DEF Files
<1>4. \A k : LeftAlone(c, k)' <=> LeftAlone(c, k)
  BY DEF LeftAlone, Image
<1>5. (Transfers(c)' <=> Transfers(c)) /\ (Deletes(c)' <=> Deletes(c))
  BY <1>1 DEF Transfers, Deletes, Apart, Image
<1>6. QED BY <1>1, <1>2, <1>3, <1>4, <1>5

LEMMA ReadIsOwn ==
    ASSUME NEW c \in Callers, Reads \/ FaultyRead
    PROVE  Own(c) /\ objects' = objects
  BY DEF Reads, FaultyRead, callVars, Own, SameCall

LEMMA PutIsOwn ==
    ASSUME TreeInv, NEW c \in Callers, NEW k, NEW content,
           Put(c, k, content) \/ FaultyPut(c, k, content)
    PROVE  /\ Own(c) /\ (objects' = objects \/ Store(c, k, content))
           /\ Put(c, k, content) => Store(c, k, content)
  BY DEF Put, FaultyPut, Store, Touch, callVars, Own, SameCall

LEMMA EraseIsOwn ==
    ASSUME TreeInv, NEW c \in Callers, NEW k, Erase(c, k) \/ DeleteFails(c, k)
    PROVE  /\ Own(c) /\ (objects' = objects \/ objects' = Without(k))
           /\ Erase(c, k) => k \in DOMAIN objects /\ objects' = Without(k)
  BY DEF Erase, DeleteFails, Reads, Touch, callVars, Own, SameCall, Without

(* Files that are left alone were there when the call began. *)
LEMMA FilesMean ==
    ASSUME TreeInv, NEW c \in Callers, NEW k \in Files(c, task[c].src)
    PROVE  /\ k \in Keys /\ k \in DOMAIN started[c] /\ k \in Known(c)
           /\ Inside(task[c], k) /\ ~IsDirKey(k)
           /\ LeftAlone(c, k) => k \notin touched[c]
<1>1. k \in Tree(c, task[c].src) /\ ~IsDirKey(k)
  BY DEF Files
<1>2. QED BY <1>1, TreeMeans DEF LeftAlone

(* A step that reads leaves everything as it was. *)
LEMMA ReadEffect ==
    ASSUME TreeInv, NEW c \in Callers, Own(c), objects' = objects
    PROVE  /\ NoStranger(c)' <=> NoStranger(c)
           /\ SourceStays(c)' <=> SourceStays(c)
           /\ \A k : Copied(c, k)' <=> Copied(c, k)
<1>1. Known(c)' = Known(c)
  BY OwnMeans
<1>2. QED BY <1>1 DEF NoStranger, SourceStays, Unchanged, Copied, Inside, Image, Own, SameCall

(* A step of Copy puts one key of the source in its place. *)
LEMMA CopyEffect ==
    ASSUME TreeInv, NEW c \in Callers, Begun(c), Transfers(c), NoStranger(c), SourceStays(c),
           NEW h \in DOMAIN objects, Inside(task[c], h),
           Store(c, Image(task[c], h), objects[h]), Own(c)
    PROVE  /\ NoStranger(c)' /\ SourceStays(c)'
           /\ \A k \in Files(c, task[c].src) :
                 LeftAlone(c, k) /\ (k = h \/ Copied(c, k)) => Copied(c, k)'
<1> DEFINE t == task[c]
           to == Image(t, h)
<1>1. t \in CallTasks /\ Apart(t) /\ h \in Keys
  BY DEF Begun, CallTasks, Transfers, TreeInv, TypeOK, IsBucket
<1>2. to \in Keys /\ ~Inside(t, to)
  BY <1>1, ImagesAreOutside
<1>3. /\ DOMAIN objects' = DOMAIN objects \union {to}
      /\ objects'[to] = objects[h]
      /\ \A k \in DOMAIN objects : k # to => objects'[k] = objects[k]
  BY DEF Store
<1>4. task'[c] = t /\ started'[c] = started[c] /\ touched'[c] = touched[c]
  BY DEF Own, SameCall
<1>5. Known(c)' = Known(c)
  BY OwnMeans
<1> HIDE DEF t, to
<1>6. NoStranger(c)'
  <2>1. ASSUME NEW k \in DOMAIN objects', Inside(t, k) PROVE k \in Known(c)
    <3>1. k \in DOMAIN objects
      BY <1>2, <1>3, <2>1
    <3>2. QED BY <2>1, <3>1 DEF NoStranger, t
  <2>2. QED BY <1>4, <1>5, <2>1 DEF NoStranger, Inside
<1>7. SourceStays(c)'
  <2>1. ASSUME NEW k \in DOMAIN started[c] \ touched[c], Inside(t, k)
        PROVE  k \in DOMAIN objects' /\ objects'[k] = started[c][k]
    <3>1. k \in DOMAIN objects /\ objects[k] = started[c][k]
      BY <2>1 DEF SourceStays, Unchanged, t
    <3>2. k # to
      BY <1>2, <2>1
    <3>3. QED BY <1>3, <3>1, <3>2
  <2>2. QED BY <1>4, <2>1 DEF SourceStays, Unchanged, Inside
<1>8. ASSUME NEW k \in Files(c, task[c].src), LeftAlone(c, k), k = h \/ Copied(c, k)
      PROVE  Copied(c, k)'
  <2>1. /\ k \in Keys /\ k \in DOMAIN started[c] \ touched[c] /\ Inside(t, k)
    BY <1>8, FilesMean DEF t
  <2>2. Image(t, k) \in DOMAIN objects' /\ objects'[Image(t, k)] = started[c][k]
    <3>1. CASE k = h
      <4>1. objects[k] = started[c][k]
        BY <2>1 DEF SourceStays, Unchanged, t
      <4>2. Image(t, k) = to
        BY <3>1 DEF to
      <4>3. QED BY <1>3, <3>1, <4>1, <4>2
    <3>2. CASE k # h
      <4>1. Image(t, k) \in DOMAIN objects /\ objects[Image(t, k)] = started[c][k]
        BY <1>8, <3>2 DEF Copied, t
      <4>2. Inside(t, h)
        BY DEF t
      <4>3. Image(t, k) # to
        BY <1>1, <2>1, <3>2, <4>2, ImagesDiffer DEF to
      <4>4. QED BY <1>3, <4>1, <4>3
    <3>3. QED BY <3>1, <3>2
  <2>3. Copied(c, k)' <=> Image(t, k) \in DOMAIN objects'
                          /\ objects'[Image(t, k)] = started[c][k]
    BY <1>4 DEF Copied, Image
  <2>4. QED BY <2>2, <2>3
<1>9. QED BY <1>6, <1>7, <1>8

(* A step of Delete removes one key of the source at most. *)
LEMMA DeleteEffect ==
    ASSUME TreeInv, NEW c \in Callers, Begun(c), NoStranger(c),
           NEW h \in Keys, Inside(task[c], h), objects' = Without(h), Own(c)
    PROVE  /\ NoStranger(c)' /\ DOMAIN objects' = DOMAIN objects \ {h}
           /\ Apart(task[c]) =>
                 \A k \in Files(c, task[c].src) : Copied(c, k) => Copied(c, k)'
<1> DEFINE t == task[c]
<1>1. /\ DOMAIN objects' = DOMAIN objects \ {h}
      /\ \A k \in DOMAIN objects' : objects'[k] = objects[k]
  BY DEF Without
<1>2. task'[c] = t /\ started'[c] = started[c] /\ Known(c)' = Known(c)
  BY OwnMeans DEF Own, SameCall
<1> HIDE DEF t
<1>3. NoStranger(c)'
  BY <1>1, <1>2 DEF NoStranger, Inside, t
<1>4. ASSUME Apart(t), NEW k \in Files(c, task[c].src), Copied(c, k)
      PROVE  Copied(c, k)'
  <2>1. k \in Keys /\ Inside(t, k) /\ t \in CallTasks /\ Inside(t, h)
    BY FilesMean DEF t, Begun, CallTasks
  <2>2. Image(t, k) # h
    BY <1>4, <2>1, ImagesAreOutside
  <2>3. Image(t, k) \in DOMAIN objects /\ objects[Image(t, k)] = started[c][k]
    BY <1>4 DEF Copied, t
  <2>4. Image(t, k) \in DOMAIN objects' /\ objects'[Image(t, k)] = started[c][k]
    BY <1>1, <2>2, <2>3
  <2>5. Copied(c, k)' <=> Image(t, k) \in DOMAIN objects'
                          /\ objects'[Image(t, k)] = started[c][k]
    BY <1>2 DEF Copied, Image
  <2>6. QED BY <2>4, <2>5
<1>5. QED BY <1>1, <1>3, <1>4 DEF t
-----------------------------------------------------------------------------
(***************************************************************************)
(* The steps of Copy.                                                      *)
(***************************************************************************)

LEMMA CopyingMeans ==
    ASSUME TreeInv, NEW c \in Callers, FateOK(c), Transfers(c), Copying(c)
    PROVE  /\ Running(c) /\ Begun(c) /\ result[c] = "none"
           /\ Top(c) \in Frames /\ FrameOK(task[c], Top(c)) /\ FrameShape(Top(c))
           /\ Top(c).fn = "Copy" /\ Puts(task[c], Top(c))
           /\ Len(stack[c]) \in Nat \ {0} /\ Top(c) = stack[c][Len(stack[c])]
           /\ NoStranger(c) /\ SourceStays(c) /\ AllPut(c) /\ DirIsFound(c) /\ CopyIsDue(c)
           /\ stack[c][1].key = task[c].src
<1>1. Running(c)
  BY DEF Copying, Running
<1>2. /\ Begun(c) /\ result[c] = "none" /\ Top(c) \in Frames /\ FrameOK(task[c], Top(c))
      /\ Len(stack[c]) \in Nat \ {0} /\ Top(c) = stack[c][Len(stack[c])]
  BY <1>1, TopIsOK DEF Top, Last
<1>3. /\ NoStranger(c) /\ SourceStays(c) /\ AllPut(c) /\ DirIsFound(c) /\ CopyIsDue(c)
  BY DEF FateOK, CopyInv
<1>4. Len(stack[c]) \in 1..Len(stack[c])
  BY <1>2
<1>5. Puts(task[c], Top(c))
  BY <1>2, <1>3, <1>4 DEF AllPut
<1>6. FrameShape(Top(c)) /\ Top(c).fn = "Copy" /\ stack[c][1].key = task[c].src
  BY <1>2, <1>4 DEF FateOK, Shape, Copying
<1>7. QED BY <1>1, <1>2, <1>3, <1>5, <1>6

LEMMA CopyGoesOn ==
    ASSUME NEW c, Transfers(c), Own(c), Shape(task[c], stack'[c]),
           NoStranger(c)', SourceStays(c)', Copying(c)', AllPut(c)', DirIsFound(c)',
           CopyIsDue(c)', result'[c] = "none"
    PROVE  FateOK(c)'
<1>1. ~Deleting(c)' /\ Shape(task[c], stack[c])'
  BY DEF Copying, Deleting, Own, SameCall, Shape
<1>2. CopyInv(c)' /\ DeleteInv(c)'
  BY <1>1 DEF Copying, CopyInv, DeleteInv
<1>3. QED BY <1>1, <1>2 DEF FateOK

LEMMA CopyEnds ==
    ASSUME TreeInv, NEW c \in Callers, FateOK(c), Transfers(c), Copying(c), Own(c),
           NoStranger(c)', AllCopied(c)', Return(c), Len(stack[c]) = 1
    PROVE  FateOK(c)'
<1>1. Running(c) /\ Top(c).fn = "Copy" /\ result[c] = "none"
  BY CopyingMeans
<1>2. Shape(task[c], stack[c])'
  BY <1>1, ShapeReturns DEF Own, SameCall, Shape
<1>3. EndsCall(c)
  <2>1. EndsCall(c) \/ PopsFrame(c)
    BY <1>1, ReturnMeans
  <2>2. ~PopsFrame(c)
    BY DEF PopsFrame
  <2>3. QED BY <2>1, <2>2
<1>4. task[c].op \in {"Copy", "Move"} /\ task'[c] = task[c]
  BY DEF Transfers, Own, SameCall
<1>5. CASE task[c].op = "Copy"
  <2>1. stack'[c] = <<>> /\ result'[c] = "ok" /\ task'[c].op = "Copy"
    BY <1>3, <1>4, <1>5 DEF EndsCall
  <2>2. ~Copying(c)' /\ ~Deleting(c)' /\ ~Deletes(c)'
    BY <2>1 DEF Copying, Deleting, Deletes
  <2>3. QED BY <1>2, <2>1, <2>2 DEF FateOK, CopyInv, DeleteInv
<1>6. CASE task[c].op = "Move"
  <2> DEFINE f == CallDelete(task[c].src)
  <2>1. f.fn = "Delete" /\ ~f.listed
    BY FirstFrameShape
  <2> HIDE DEF f
  <2>2. stack'[c] = <<f>> /\ result'[c] = "none"
    BY <1>1, <1>3, <1>6 DEF EndsCall, f
  <2>3. ~Copying(c)' /\ DeleteIsDue(c)'
    BY <2>1, <2>2 DEF Copying, DeleteIsDue, Awaits
  <2>4. QED BY <1>2, <2>2, <2>3 DEF FateOK, CopyInv, DeleteInv
<1>7. QED BY <1>4, <1>5, <1>6

LEMMA CopyFails ==
    ASSUME TreeInv, NEW c \in Callers, FateOK(c), Transfers(c), Copying(c), Own(c),
           NoStranger(c)', SourceStays(c)', Fail(c)
    PROVE  FateOK(c)'
<1>1. stack'[c] = <<>> /\ result'[c] = "error"
  BY FailMeans
<1>2. ~Copying(c)' /\ ~Deleting(c)' /\ Shape(task[c], stack[c])'
  BY <1>1 DEF Copying, Deleting, Shape
<1>3. NoneLost(c)'
  <2>1. ASSUME NEW k \in Files(c, task[c].src), LeftAlone(c, k)
        PROVE  Unchanged(c, k)'
    BY <2>1, FilesMean DEF SourceStays, Own, SameCall, Inside
  <2>2. QED BY <2>1, OwnMeans DEF NoneLost
<1>4. QED BY <1>1, <1>2, <1>3 DEF FateOK, CopyInv, DeleteInv

(* The innermost frame goes on. *)
LEMMA CopyFrameGoesOn ==
    ASSUME TreeInv, NEW c \in Callers, FateOK(c), Transfers(c), Copying(c), Own(c),
           NoStranger(c)', SourceStays(c)',
           NEW f \in Frames, GoOn(c, f), f.fn = "Copy", f.key = Top(c).key,
           FrameShape(f), Puts(task[c], f),
           Len(stack[c]) = 1 /\ f.pc = "dir" => IsDirectory(c, Subject(f)),
           \A k \in Files(c, task[c].src) : LeftAlone(c, k) =>
               /\ Copied(c, k) => Copied(c, k)'
               /\ Len(stack[c]) = 1 /\ Awaits(Top(c), k) => Awaits(f, k) \/ Copied(c, k)'
    PROVE  FateOK(c)'
<1> DEFINE n == Len(stack[c])
<1>1. /\ Running(c) /\ result[c] = "none" /\ Top(c).fn = "Copy"
      /\ n \in Nat \ {0} /\ Top(c) = stack[c][n]
      /\ AllPut(c) /\ DirIsFound(c) /\ CopyIsDue(c)
  BY CopyingMeans
<1>2. /\ Len(stack'[c]) = n /\ stack'[c][n] = f /\ result'[c] = result[c]
      /\ \A i \in 1..(n - 1) : stack'[c][i] = stack[c][i]
  BY <1>1, GoOnMeans
<1>3. Shape(task[c], stack'[c])
  BY <1>1, ShapeGoesOn
<1>4. stack'[c] # <<>>
  BY <1>1, <1>2
<1>5. task'[c] = task[c] /\ Known(c)' = Known(c)
      /\ Files(c, task[c].src)' = Files(c, task[c].src)
      /\ \A k : LeftAlone(c, k)' <=> LeftAlone(c, k)
  BY OwnMeans DEF Own, SameCall
<1> HIDE DEF n
<1>6. n = 1 \/ (n # 1 /\ stack'[c][1] = stack[c][1])
  BY <1>1, <1>2
<1>7. Copying(c)'
  <2>1. stack'[c][1].fn = "Copy"
    BY <1>2, <1>6 DEF Copying
  <2>2. QED BY <1>4, <2>1 DEF Copying
<1>8. AllPut(c)'
  <2>1. ASSUME NEW i \in 1..n PROVE Puts(task[c], stack'[c][i])
    <3>1. CASE i = n
      BY <1>2, <3>1
    <3>2. CASE i # n
      <4>1. i \in 1..(n - 1)
        BY <1>1, <3>2
      <4>2. QED BY <1>1, <1>2, <4>1 DEF AllPut, n
    <3>3. QED BY <3>1, <3>2
  <2>2. QED BY <1>2, <1>5, <2>1 DEF AllPut, Puts, Inside, Image
<1>9. DirIsFound(c)'
  <2>1. CASE n = 1
    BY <1>2, <1>5, <2>1 DEF DirIsFound, IsDirectory, Subject, n
  <2>2. CASE n # 1
    BY <1>1, <1>5, <1>6, <2>2 DEF DirIsFound, IsDirectory, Subject
  <2>3. QED BY <2>1, <2>2
<1>10. CopyIsDue(c)'
  <2>1. ASSUME NEW k \in Files(c, task[c].src), LeftAlone(c, k)
        PROVE  Awaits(stack'[c][1], k) \/ Copied(c, k)'
    <3>1. Awaits(stack[c][1], k) \/ Copied(c, k)
      BY <1>1, <2>1 DEF CopyIsDue
    <3>2. CASE n = 1
      BY <1>1, <1>2, <2>1, <3>1, <3>2 DEF n
    <3>3. CASE n # 1
      BY <1>6, <2>1, <3>1, <3>3
    <3>4. QED BY <3>2, <3>3
  <2>2. QED BY <1>5, <2>1 DEF CopyIsDue, Awaits
<1>11. QED BY <1>1, <1>2, <1>3, <1>7, <1>8, <1>9, <1>10, CopyGoesOn

LEMMA CopyAsks ==
    ASSUME TreeInv, NEW c \in Callers, FateOK(c), Transfers(c), Copying(c),
           Attrs(c) \/ Probe(c)
    PROVE  FateOK(c)'
<1> DEFINE f == Top(c)
<1>1. /\ f \in Frames /\ FrameOK(task[c], f) /\ FrameShape(f) /\ f.fn = "Copy"
      /\ Puts(task[c], f) /\ NoStranger(c) /\ SourceStays(c) /\ Begun(c)
      /\ Len(stack[c]) \in Nat \ {0} /\ f = stack[c][Len(stack[c])]
      /\ stack[c][1].key = task[c].src
  BY CopyingMeans
<1>2. Own(c) /\ objects' = objects /\ f.pc \in {"attrs", "probe"}
  BY ReadIsOwn DEF Attrs, Probe, At
<1>3. PICK p \in {"file", "probe", "dir", "none"} :
         /\ GoOn(c, [f EXCEPT !.pc = p])
         /\ p = "dir" => Under(objects, Subject(f)) # {}
  <2>1. CASE Attrs(c)
    BY <2>1 DEF Attrs
  <2>2. CASE Probe(c)
    BY <2>2 DEF Probe
  <2>3. QED BY <2>1, <2>2
<1> DEFINE g == [f EXCEPT !.pc = p]
<1>4. /\ g \in Frames /\ g.fn = f.fn /\ g.key = f.key /\ g.to = f.to
      /\ g.listed = f.listed /\ g.todo = f.todo /\ g.pc = p
      /\ Subject(g) = Subject(f) /\ FrameShape(g)
  BY <1>1, <1>2, AnswerShape
<1>5. GoOn(c, g)
  BY <1>3
<1> HIDE DEF g
<1>6. Puts(task[c], g) /\ \A k : Awaits(f, k) => Awaits(g, k)
  BY <1>1, <1>4 DEF Puts, Awaits
<1>7. ASSUME g.pc = "dir" PROVE IsDirectory(c, Subject(g))
  <2>1. PICK j \in DOMAIN objects : IsPrefix(WithSlash(Subject(f)), j)
    BY <1>3, <1>4, <1>7 DEF Under
  <2>2. Subject(f) \in Keys /\ Inside(task[c], Subject(f)) /\ j \in Keys
    <3>1. j \in Keys
      BY <2>1 DEF TreeInv, TypeOK, IsBucket
    <3>2. CASE f.listed
      <4>1. f.todo \in Seq(Keys) /\ f.todo # <<>> /\ Head(f.todo) = f.todo[1]
        BY <1>1, <1>2, <3>2, NextChildShape
      <4>2. 1 \in 1..Len(f.todo) /\ f.todo[1] \in Keys
        BY <4>1, EmptySeq
      <4>3. IsPrefix(WithSlash(f.key), f.todo[1]) /\ Inside(task[c], f.key) /\ f.key \in Keys
        BY <1>1, <4>2 DEF Puts, Frames
      <4>4. Inside(task[c], f.todo[1])
        BY <1>1, <4>2, <4>3, InsideIsKept DEF Begun, CallTasks
      <4>5. QED BY <3>1, <3>2, <4>1, <4>2, <4>4 DEF Subject
    <3>3. CASE ~f.listed
      BY <1>1, <3>1, <3>3 DEF Puts, Subject, Frames
    <3>4. QED BY <3>2, <3>3
  <2>3. Inside(task[c], j)
    BY <1>1, <2>1, <2>2, InsideIsKept DEF Begun, CallTasks
  <2>4. j \in Known(c)
    BY <1>1, <2>1, <2>3 DEF NoStranger
  <2>5. QED BY <1>4, <2>1, <2>4 DEF IsDirectory
<1>8. NoStranger(c)' /\ SourceStays(c)' /\ \A k : Copied(c, k) => Copied(c, k)'
  BY <1>1, <1>2, ReadEffect
<1>9. QED BY <1>1, <1>2, <1>4, <1>5, <1>6, <1>7, <1>8, CopyFrameGoesOn

(* A listing has every object that lies under the key. *)
LEMMA ListingHasAll ==
    ASSUME TreeInv, NEW k \in Keys
    PROVE  /\ ListAll(k) \in Seq(Keys)
           /\ \A i \in 1..Len(ListAll(k)) : ListAll(k)[i] \in Children(k)
           /\ \A j \in Children(k) : \E i \in 1..Len(ListAll(k)) : ListAll(k)[i] = j
<1>1. Children(k) \in SUBSET Keys /\ IsFiniteSet(Children(k))
  BY ChildrenAreInside
<1>2. /\ ListAll(k) \in Seq(Children(k))
      /\ Len(ListAll(k)) = Cardinality(Children(k))
      /\ \A j \in Children(k) : \E i \in 1..Cardinality(Children(k)) : ListAll(k)[i] = j
  BY <1>1, ListingIsExact DEF ListAll
<1>3. QED BY <1>1, <1>2

LEMMA CopyLists ==
    ASSUME TreeInv, NEW c \in Callers, FateOK(c), Transfers(c), Copying(c), ListChildren(c)
    PROVE  FateOK(c)'
<1> DEFINE f == Top(c)
           found == ListAll(f.key)
           g == [f EXCEPT !.todo = found, !.listed = TRUE]
           h == Loop(g)
<1>1. /\ f \in Frames /\ f.key \in Keys /\ f.fn = "Copy"
      /\ Puts(task[c], f) /\ NoStranger(c) /\ SourceStays(c) /\ Begun(c) /\ DirIsFound(c)
      /\ Len(stack[c]) \in Nat \ {0} /\ f = stack[c][Len(stack[c])]
      /\ stack[c][1].key = task[c].src
  BY CopyingMeans DEF Frames
<1>2. Own(c) /\ objects' = objects /\ f.pc = "dir" /\ ~f.listed
  BY ReadIsOwn DEF ListChildren, At
<1>3. GoOn(c, h) \/ Fail(c)
  BY <1>1 DEF ListChildren
<1>4. NoStranger(c)' /\ SourceStays(c)' /\ \A k : Copied(c, k) => Copied(c, k)'
  BY <1>1, <1>2, ReadEffect
<1>5. /\ found \in Seq(Keys) /\ \A i \in 1..Len(found) : found[i] \in Children(f.key)
      /\ \A j \in Children(f.key) : \E i \in 1..Len(found) : found[i] = j
  BY <1>1, ListingHasAll
<1> HIDE DEF found, f
<1>6. /\ g \in Frames /\ g.listed /\ g.todo = found
      /\ g.fn = "Copy" /\ g.key = f.key /\ g.to = f.to
  BY <1>1, <1>5 DEF Frames
<1> HIDE DEF g
<1>7. /\ h \in Frames /\ h.fn = "Copy" /\ h.key = f.key /\ h.to = f.to
      /\ h.todo = found /\ h.listed /\ FrameShape(h)
      /\ h.pc = "dir" => IsDirKey(Subject(h))
  BY <1>6, LoopShape
<1> HIDE DEF h
<1>8. Puts(task[c], h)
  BY <1>1, <1>5, <1>7 DEF Puts, Children, Under
<1>9. ASSUME NEW k \in Files(c, task[c].src), LeftAlone(c, k), Len(stack[c]) = 1
      PROVE  Awaits(h, k)
  <2>1. /\ k \in Keys /\ k \in DOMAIN started[c] /\ k \in Known(c) /\ ~IsDirKey(k)
        /\ k \notin touched[c] /\ Inside(task[c], k)
    BY <1>9, FilesMean
  <2>2. k \in DOMAIN objects
    BY <1>1, <2>1 DEF SourceStays, Unchanged
  <2>3. f.key = task[c].src
    BY <1>1, <1>9
  <2>4. k # task[c].src
    <3>1. SUFFICES ASSUME k = task[c].src PROVE FALSE
      OBVIOUS
    <3>2. IsDirectory(c, f.key)
      BY <1>1, <1>2, <1>9 DEF DirIsFound, Subject
    <3>3. PICK j \in Known(c) : IsPrefix(WithSlash(k), j)
      BY <2>1, <2>3, <3>1, <3>2 DEF IsDirectory
    <3>4. QED BY <2>1, <3>3 DEF Transfers, Undisputed
  <2>5. IsPrefix(WithSlash(f.key), k)
    BY <2>1, <2>3, <2>4 DEF Inside
  <2>6. k # WithSlash(f.key)
    <3>1. IsDirKey(WithSlash(f.key))
      BY <1>1, WithSlashIsDirKey
    <3>2. QED BY <2>1, <3>1
  <2>7. k \in Children(f.key)
    BY <2>2, <2>3, <2>4, <2>5, <2>6 DEF Children, Under
  <2>8. QED BY <1>5, <1>7, <2>7 DEF Awaits
<1>10. CASE GoOn(c, h)
  <2>1. h.pc = "dir" => IsDirectory(c, Subject(h))
    BY <1>7 DEF IsDirectory
  <2>2. h.key = Top(c).key
    BY <1>7 DEF f
  <2>3. QED BY <1>2, <1>4, <1>7, <1>8, <1>9, <1>10, <2>1, <2>2, CopyFrameGoesOn
<1>11. CASE Fail(c)
  BY <1>2, <1>4, <1>11, CopyFails
<1>12. QED BY <1>3, <1>10, <1>11

(* What a frame awaits is the child at hand, or it awaits it after that. *)
LEMMA AwaitsNext ==
    ASSUME NEW t, NEW f, FrameOK(t, f), f.listed, f.pc # "end", NEW k, Awaits(f, k)
    PROVE  k = Head(f.todo) \/ Awaits(NextChild(f), k)
<1> DEFINE g == NextChild(f)
           n == Len(f.todo)
<1>1. /\ f.todo \in Seq(Keys) /\ Head(f.todo) = f.todo[1]
      /\ \A i \in 1..Len(g.todo) : g.todo[i] = f.todo[i + 1]
  BY NextChildShape
<1>2. Len(g.todo) = n - 1 /\ n \in Nat
  BY <1>1, NextChildShape
<1>3. PICK i \in 1..n : f.todo[i] = k
  BY DEF Awaits
<1> HIDE DEF n, g
<1>4. CASE i = 1
  BY <1>1, <1>3, <1>4
<1>5. CASE i # 1
  <2>1. i - 1 \in 1..(n - 1) /\ (i - 1) + 1 = i
    BY <1>2, <1>5
  <2>2. g.todo[i - 1] = k
    BY <1>1, <1>2, <1>3, <2>1
  <2>3. QED BY <1>2, <2>1, <2>2 DEF Awaits, g
<1>6. QED BY <1>4, <1>5

(* The child at hand. *)
LEMMA ChildAtHand ==
    ASSUME NEW t \in CallTasks, NEW f, FrameOK(t, f), f.listed, f.pc # "end", Puts(t, f)
    PROVE  LET h == Head(f.todo)
               g == NextChild(f)
           IN
           /\ h \in Keys /\ Inside(t, h) /\ DstKey(f, h) = Image(t, h)
           /\ Image(t, h) \in Keys /\ Subject(f) = h
           /\ g \in Frames /\ g.fn = f.fn /\ g.key = f.key /\ FrameShape(g) /\ Puts(t, g)
           /\ f.fn = "Copy" /\ g.pc = "dir" => IsDirKey(Subject(g))
           /\ \A k : Awaits(f, k) => k = h \/ Awaits(g, k)
<1> DEFINE h == Head(f.todo)
           g == NextChild(f)
<1>1. /\ g \in Frames /\ g.fn = f.fn /\ g.key = f.key /\ g.to = f.to /\ g.listed
      /\ f.todo \in Seq(Keys) /\ f.todo # <<>> /\ h = f.todo[1]
      /\ g.todo = Tail(f.todo) /\ Len(g.todo) = Len(f.todo) - 1
      /\ \A i \in 1..Len(g.todo) : g.todo[i] = f.todo[i + 1]
      /\ FrameShape(g)
      /\ f.fn = "Copy" /\ g.pc = "dir" => IsDirKey(Subject(g))
  BY NextChildShape
<1> HIDE DEF g, h
<1> DEFINE n == Len(f.todo)
<1>2. n \in Nat \ {0} /\ 1 \in 1..n /\ f.todo[1] \in Keys
  BY <1>1, EmptySeq
<1>3. f \in Frames
  BY DEF FrameOK
<1>4. h \in Keys /\ IsPrefix(WithSlash(f.key), h)
  BY <1>1, <1>2 DEF Puts
<1>5. Inside(t, h) /\ DstKey(f, h) = Image(t, h) /\ Image(t, h) \in Keys
  BY <1>3, <1>4, ChildIsPut
<1>6. Len(g.todo) = n - 1
  BY <1>1
<1>7. \A i \in 1..n : IsPrefix(WithSlash(f.key), f.todo[i])
  BY DEF Puts
<1> HIDE DEF n
<1>8. Puts(t, g)
  <2>1. ASSUME NEW i \in 1..(n - 1) PROVE IsPrefix(WithSlash(g.key), g.todo[i])
    <3>1. i + 1 \in 1..n
      BY <1>2
    <3>2. QED BY <1>1, <1>6, <1>7, <3>1
  <2>2. QED BY <1>1, <1>6, <2>1 DEF Puts
<1>9. \A k : Awaits(f, k) => k = h \/ Awaits(g, k)
  BY AwaitsNext DEF g, h
<1>10. Subject(f) = h
  BY DEF Subject, h
<1>11. QED BY <1>1, <1>4, <1>5, <1>8, <1>9, <1>10 DEF g, h

LEMMA OneOrMore ==
    ASSUME NEW n \in Nat \ {0}
    PROVE  (n = 1 \/ n > 1) /\ ~(n = 1 /\ n > 1)
  OBVIOUS

(* A nested call returns: the frame below goes on where it was. *)
LEMMA CopyPops ==
    ASSUME TreeInv, NEW c \in Callers, FateOK(c), Transfers(c), Copying(c), Own(c),
           NoStranger(c)', SourceStays(c)', Return(c), Len(stack[c]) > 1,
           \A k \in Files(c, task[c].src) : LeftAlone(c, k) => (Copied(c, k) => Copied(c, k)')
    PROVE  FateOK(c)'
<1> DEFINE n == Len(stack[c])
<1>1. /\ Running(c) /\ result[c] = "none" /\ n \in Nat \ {0}
      /\ AllPut(c) /\ DirIsFound(c) /\ CopyIsDue(c)
  BY CopyingMeans
<1>2. Shape(task[c], stack'[c])
  BY <1>1, ShapeReturns
<1>3. PopsFrame(c)
  <2>1. EndsCall(c) \/ PopsFrame(c)
    BY <1>1, ReturnMeans
  <2>2. ~EndsCall(c)
    BY <1>1, OneOrMore DEF EndsCall
  <2>3. QED BY <2>1, <2>2
<1>4. /\ n > 1 /\ Len(stack'[c]) = n - 1 /\ result'[c] = "none"
      /\ \A i \in 1..(n - 1) : stack'[c][i] = stack[c][i]
  BY <1>1, <1>3 DEF PopsFrame
<1>5. task'[c] = task[c] /\ Known(c)' = Known(c)
      /\ Files(c, task[c].src)' = Files(c, task[c].src)
      /\ \A k : LeftAlone(c, k)' <=> LeftAlone(c, k)
  BY OwnMeans DEF Own, SameCall
<1>6. \A i \in 1..n : Puts(task[c], stack[c][i])
  BY <1>1 DEF AllPut
<1> HIDE DEF n
<1>7. stack'[c][1] = stack[c][1] /\ stack'[c] # <<>>
  BY <1>1, <1>4
<1>8. Copying(c)'
  BY <1>7 DEF Copying
<1>9. AllPut(c)'
  <2>1. ASSUME NEW i \in 1..(n - 1) PROVE Puts(task[c], stack'[c][i])
    BY <1>1, <1>4, <1>6
  <2>2. QED BY <1>4, <1>5, <2>1 DEF AllPut, Puts, Inside, Image
<1>10. DirIsFound(c)'
  BY <1>1, <1>5, <1>7 DEF DirIsFound, IsDirectory, Subject
<1>11. CopyIsDue(c)'
  BY <1>1, <1>5, <1>7 DEF CopyIsDue, Awaits
<1>12. QED BY <1>2, <1>4, <1>8, <1>9, <1>10, <1>11, CopyGoesOn

(* When nothing is left to await, all is copied. *)
LEMMA NothingDue ==
    ASSUME NEW c, Own(c), CopyIsDue(c), \A k : ~Awaits(stack[c][1], k),
           \A k : Copied(c, k)' <=> Copied(c, k)
    PROVE  AllCopied(c)'
  BY OwnMeans DEF CopyIsDue, AllCopied

LEMMA CopyLoopEnds ==
    ASSUME TreeInv, NEW c \in Callers, FateOK(c), Transfers(c), Copying(c), LoopEnds(c)
    PROVE  FateOK(c)'
<1>1. /\ FrameShape(Top(c)) /\ Top(c).pc = "end" /\ NoStranger(c) /\ SourceStays(c)
      /\ CopyIsDue(c) /\ Top(c) = stack[c][Len(stack[c])] /\ Len(stack[c]) \in Nat \ {0}
  BY CopyingMeans DEF LoopEnds, At
<1>2. Own(c) /\ objects' = objects /\ Return(c)
  BY ReadIsOwn DEF LoopEnds
<1>3. NoStranger(c)' /\ SourceStays(c)' /\ \A k : Copied(c, k)' <=> Copied(c, k)
  BY <1>1, <1>2, ReadEffect
<1>4. CASE Len(stack[c]) = 1
  <2>1. ASSUME NEW k PROVE ~Awaits(stack[c][1], k)
    <3>1. stack[c][1].listed /\ Len(stack[c][1].todo) = 0
      BY <1>1, <1>4, EmptySeq DEF FrameShape
    <3>2. QED BY <3>1 DEF Awaits
  <2>2. AllCopied(c)'
    BY <1>1, <1>2, <1>3, <2>1, NothingDue
  <2>3. QED BY <1>2, <1>3, <1>4, <2>2, CopyEnds
<1>5. CASE Len(stack[c]) > 1
  BY <1>2, <1>3, <1>5, CopyPops
<1>6. Len(stack[c]) = 1 \/ Len(stack[c]) > 1
  BY <1>1, OneOrMore
<1>7. QED BY <1>4, <1>5, <1>6

LEMMA CopyChildFailed ==
    ASSUME TreeInv, NEW c \in Callers, FateOK(c), Transfers(c), Copying(c),
           CopyChildFails(c)
    PROVE  FateOK(c)'
<1>1. NoStranger(c) /\ SourceStays(c)
  BY CopyingMeans
<1>2. Own(c) /\ objects' = objects /\ Fail(c)
  BY ReadIsOwn DEF CopyChildFails
<1>3. NoStranger(c)' /\ SourceStays(c)'
  BY <1>1, <1>2, ReadEffect
<1>4. QED BY <1>2, <1>3, CopyFails

LEMMA CopyCallsItself ==
    ASSUME TreeInv, NEW c \in Callers, FateOK(c), Transfers(c), Copying(c),
           CopyChildDir(c)
    PROVE  FateOK(c)'
<1> DEFINE f == Top(c)
           h == Head(f.todo)
           g == NextChild(f)
           q == CallCopy(h, DstKey(f, h))
           n == Len(stack[c])
<1>1. /\ Running(c) /\ result[c] = "none" /\ f.fn = "Copy" /\ f.listed /\ f.pc = "dir"
      /\ n \in Nat \ {0} /\ f = stack[c][n] /\ Puts(task[c], f) /\ FrameOK(task[c], f)
      /\ NoStranger(c) /\ SourceStays(c) /\ AllPut(c) /\ DirIsFound(c) /\ CopyIsDue(c)
      /\ task[c] \in CallTasks
  BY CopyingMeans DEF CopyChildDir, At, Begun, CallTasks
<1>2. Own(c) /\ objects' = objects
  BY ReadIsOwn DEF CopyChildDir
<1>3. NoStranger(c)' /\ SourceStays(c)' /\ \A k : Copied(c, k)' <=> Copied(c, k)
  BY <1>1, <1>2, ReadEffect
<1>4. CallsItself(c, g, q)
  BY DEF CopyChildDir, CallsItself
<1>5. /\ h \in Keys /\ Inside(task[c], h) /\ DstKey(f, h) = Image(task[c], h)
      /\ Image(task[c], h) \in Keys /\ Subject(f) = h
      /\ g \in Frames /\ g.fn = f.fn /\ g.key = f.key /\ FrameShape(g) /\ Puts(task[c], g)
      /\ f.fn = "Copy" /\ g.pc = "dir" => IsDirKey(Subject(g))
      /\ \A k : Awaits(f, k) => k = h \/ Awaits(g, k)
  <2>1. f.pc # "end"
    BY <1>1
  <2>2. QED BY <1>1, <2>1, ChildAtHand
<1>6. /\ q.fn = "Copy" /\ q.key = h /\ q.to = DstKey(f, h) /\ ~q.listed /\ q.todo = <<>>
      /\ FrameShape(q) /\ q \in Frames
  <2>1. q \in Frames
    <3>1. AskInfo(h) \in {"dir", "attrs"} /\ <<>> \in Seq(Keys)
      BY DEF AskInfo
    <3>2. QED BY <1>5, <3>1 DEF CallCopy, Frames
  <2>2. QED BY <2>1, FirstFrameShape
<1>7. Puts(task[c], q)
  BY <1>5, <1>6, EmptySeq DEF Puts
<1> HIDE DEF g, q
<1>8. Shape(task[c], stack'[c])
  <2>1. /\ g \in Frames /\ q \in Frames /\ g.fn = Top(c).fn /\ g.key = Top(c).key
        /\ FrameShape(g) /\ q.fn = Top(c).fn /\ FrameShape(q)
    BY <1>1, <1>5, <1>6
  <2>2. QED BY <1>1, <1>4, <2>1, ShapeCalls
<1>9. /\ Len(stack'[c]) = n + 1 /\ stack'[c][n] = g /\ stack'[c][n + 1] = q
      /\ \A i \in 1..(n - 1) : stack'[c][i] = stack[c][i]
      /\ result'[c] = "none"
  BY <1>1, <1>4, <1>5, <1>6, CallMeans
<1>10. task'[c] = task[c] /\ Known(c)' = Known(c)
       /\ Files(c, task[c].src)' = Files(c, task[c].src)
       /\ \A k : LeftAlone(c, k)' <=> LeftAlone(c, k)
  BY <1>2, OwnMeans DEF Own, SameCall
<1>11. \A i \in 1..n : Puts(task[c], stack[c][i])
  BY <1>1 DEF AllPut
<1> HIDE DEF n, f, h
<1>12. (n = 1 /\ f = stack[c][1] /\ stack'[c][1] = g) \/ (n # 1 /\ stack'[c][1] = stack[c][1])
  BY <1>1, <1>9
<1>13. stack'[c] # <<>>
  BY <1>1, <1>9
<1>14. Copying(c)'
  BY <1>1, <1>5, <1>12, <1>13 DEF Copying
<1>15. AllPut(c)'
  <2>1. ASSUME NEW i \in 1..(n + 1) PROVE Puts(task[c], stack'[c][i])
    <3>1. i \in 1..(n - 1) \/ i = n \/ i = n + 1
      BY <1>1
    <3>2. CASE i \in 1..(n - 1)
      BY <1>1, <1>9, <1>11, <3>2
    <3>3. CASE i = n \/ i = n + 1
      BY <1>5, <1>7, <1>9, <3>3
    <3>4. QED BY <3>1, <3>2, <3>3
  <2>2. QED BY <1>9, <1>10, <2>1 DEF AllPut, Puts, Inside, Image
<1>16. DirIsFound(c)'
  BY <1>1, <1>5, <1>10, <1>12 DEF DirIsFound, IsDirectory, Subject
<1>17. CopyIsDue(c)'
  <2>1. ASSUME NEW k \in Files(c, task[c].src), LeftAlone(c, k)
        PROVE  Awaits(stack'[c][1], k) \/ Copied(c, k)
    <3>1. Awaits(stack[c][1], k) \/ Copied(c, k)
      BY <1>1, <2>1 DEF CopyIsDue
    <3>2. CASE n = 1
      <4>1. k \in Keys /\ k \in Known(c) /\ ~IsDirKey(k)
        BY <2>1, FilesMean
      <4>2. IsDirectory(c, h)
        BY <1>1, <1>5, <1>12, <3>2 DEF DirIsFound
      <4>3. k # h
        BY <4>1, <4>2 DEF IsDirectory, Transfers, Undisputed
      <4>4. QED BY <1>5, <1>12, <3>1, <3>2, <4>3
    <3>3. CASE n # 1
      BY <1>12, <3>1, <3>3
    <3>4. QED BY <3>2, <3>3
  <2>2. QED BY <1>3, <1>10, <2>1 DEF CopyIsDue, Awaits
<1>18. QED BY <1>2, <1>3, <1>8, <1>9, <1>14, <1>15, <1>16, <1>17, CopyGoesOn

(* A file is copied, or what Info could not tell of is taken for one. *)
LEMMA CopyPutsOne ==
    ASSUME TreeInv, NEW c \in Callers, FateOK(c), Transfers(c), Copying(c),
           CopySingleObject(c)
    PROVE  FateOK(c)'
<1> DEFINE f == Top(c)
           h == Subject(f)
           g == NextChild(f)
           t == task[c]
           to == IF f.listed THEN DstKey(f, h) ELSE f.to
<1>1. /\ Running(c) /\ Begun(c) /\ f.fn = "Copy" /\ f.pc \in {"file", "none"}
      /\ f \in Frames /\ FrameShape(f) /\ Puts(t, f) /\ FrameOK(t, f)
      /\ Len(stack[c]) \in Nat \ {0} /\ f = stack[c][Len(stack[c])]
      /\ NoStranger(c) /\ SourceStays(c) /\ AllPut(c) /\ DirIsFound(c) /\ CopyIsDue(c)
      /\ stack[c][1].key = t.src /\ t \in CallTasks
  BY CopyingMeans DEF CopySingleObject, At, Begun, CallTasks
<1>2. f.pc # "end"
  BY <1>1
<1>3. f.listed =>
      /\ h \in Keys /\ Inside(t, h) /\ DstKey(f, h) = Image(t, h)
      /\ g \in Frames /\ g.fn = f.fn /\ g.key = f.key /\ FrameShape(g) /\ Puts(t, g)
      /\ f.fn = "Copy" /\ g.pc = "dir" => IsDirKey(Subject(g))
      /\ \A k : Awaits(f, k) => k = h \/ Awaits(g, k)
  BY <1>1, <1>2, ChildAtHand
<1>4. Inside(t, h) /\ to = Image(t, h)
  BY <1>1, <1>3 DEF Puts, Subject
<1>5. \/ /\ h \in DOMAIN objects /\ Put(c, to, objects[h])
         /\ IF f.listed THEN GoOn(c, g) ELSE Return(c)
      \/ h \notin DOMAIN objects /\ Fail(c) /\ Reads
      \/ h \in DOMAIN objects /\ FaultyPut(c, to, objects[h]) /\ Fail(c)
  BY DEF CopySingleObject
<1>6. Own(c)
  BY <1>5, ReadIsOwn, PutIsOwn
<1>7. /\ NoStranger(c)' /\ SourceStays(c)'
      /\ \A k \in Files(c, t.src) : LeftAlone(c, k) /\ Copied(c, k) => Copied(c, k)'
      /\ h \in DOMAIN objects /\ Put(c, to, objects[h]) =>
            \A k \in Files(c, t.src) : LeftAlone(c, k) /\ k = h => Copied(c, k)'
  <2>1. CASE objects' = objects
    <3>1. NoStranger(c)' /\ SourceStays(c)' /\ \A k : Copied(c, k)' <=> Copied(c, k)
      BY <1>1, <1>6, <2>1, ReadEffect
    <3>2. ASSUME h \in DOMAIN objects, Put(c, to, objects[h]),
                 NEW k \in Files(c, t.src), LeftAlone(c, k), k = h
          PROVE  Copied(c, k)'
      <4>1. Store(c, Image(t, h), objects[h])
        BY <1>4, <3>2, PutIsOwn
      <4>2. QED BY <1>1, <1>4, <1>6, <3>2, <4>1, CopyEffect
    <3>3. QED BY <3>1, <3>2
  <2>2. CASE h \in DOMAIN objects /\ Store(c, to, objects[h])
    BY <1>1, <1>4, <1>6, <2>2, CopyEffect
  <2>3. objects' = objects \/ (h \in DOMAIN objects /\ Store(c, to, objects[h]))
    BY <1>5, PutIsOwn, ReadIsOwn
  <2>4. QED BY <2>1, <2>2, <2>3
<1> HIDE DEF g, to
<1>8. CASE Fail(c)
  BY <1>6, <1>7, <1>8, CopyFails
<1>9. CASE f.listed /\ GoOn(c, g) /\ h \in DOMAIN objects /\ Put(c, to, objects[h])
  <2>1. \A k \in Files(c, task[c].src) : LeftAlone(c, k) =>
            /\ Copied(c, k) => Copied(c, k)'
            /\ Len(stack[c]) = 1 /\ Awaits(Top(c), k) => Awaits(g, k) \/ Copied(c, k)'
    BY <1>3, <1>7, <1>9
  <2>2. Len(stack[c]) = 1 /\ g.pc = "dir" => IsDirectory(c, Subject(g))
    BY <1>1, <1>3, <1>9 DEF IsDirectory
  <2>3. g \in Frames /\ g.fn = "Copy" /\ g.key = Top(c).key /\ FrameShape(g)
        /\ Puts(task[c], g)
    BY <1>1, <1>3, <1>9
  <2>4. NoStranger(c)' /\ SourceStays(c)' /\ GoOn(c, g)
    BY <1>7, <1>9
  <2>5. QED BY <1>6, <2>1, <2>2, <2>3, <2>4, CopyFrameGoesOn
<1>10. CASE ~f.listed /\ Return(c) /\ h \in DOMAIN objects /\ Put(c, to, objects[h])
  <2>1. CASE Len(stack[c]) > 1
    <3>1. \A k \in Files(c, task[c].src) :
             LeftAlone(c, k) => (Copied(c, k) => Copied(c, k)')
      BY <1>7
    <3>2. NoStranger(c)' /\ SourceStays(c)' /\ Return(c)
      BY <1>7, <1>10
    <3>3. QED BY <1>6, <2>1, <3>1, <3>2, CopyPops
  <2>2. CASE Len(stack[c]) = 1
    <3>1. h = t.src /\ ~IsDirKey(h) /\ h \in Known(c)
      <4>1. h = f.key /\ f.key = t.src
        BY <1>1, <1>10, <2>2 DEF Subject
      <4>2. ~IsDirKey(f.key)
        BY <1>1, <1>10 DEF FrameShape
      <4>3. h \in Known(c)
        BY <1>1, <1>4, <1>10 DEF NoStranger
      <4>4. QED BY <4>1, <4>2, <4>3
    <3>2. ASSUME NEW k \in Files(c, t.src), LeftAlone(c, k) PROVE Copied(c, k)'
      <4>1. k \in Known(c) /\ Inside(t, k)
        BY <3>2, FilesMean
      <4>2. k = h
        BY <3>1, <4>1 DEF Inside, Transfers, Undisputed
      <4>3. QED BY <1>7, <1>10, <3>2, <4>2
    <3>3. AllCopied(c)'
      BY <1>6, <3>2, OwnMeans DEF AllCopied, Own, SameCall
    <3>4. QED BY <1>6, <1>7, <1>10, <2>2, <3>3, CopyEnds
  <2>3. QED BY <1>1, <2>1, <2>2, OneOrMore
<1>11. QED BY <1>5, <1>8, <1>9, <1>10

(* A step of a call that copies. *)
LEMMA CopyingStep ==
    ASSUME TreeInv, NEW c \in Callers, FateOK(c), Transfers(c), Copying(c), RunStep(c)
    PROVE  FateOK(c)'
<1>1. Top(c).fn = "Copy"
  BY CopyingMeans
<1>2. ~DeleteStep(c) /\ ~WriteStep(c)
  BY <1>1 DEF DeleteStep, WriteStep, DeleteObject, DeleteChildDir, DeleteSelf,
              CreateChecks, WriteObject, At
<1>3. QED BY <1>2, CopyAsks, CopyLists, CopyPutsOne, CopyCallsItself, CopyChildFailed,
             CopyLoopEnds DEF RunStep, InfoStep, CopyStep
-----------------------------------------------------------------------------
(***************************************************************************)
(* The steps of Delete.                                                    *)
(***************************************************************************)

LEMMA DeletingMeans ==
    ASSUME TreeInv, NEW c \in Callers, FateOK(c), Deletes(c), Deleting(c)
    PROVE  /\ Running(c) /\ Begun(c) /\ result[c] = "none"
           /\ Top(c) \in Frames /\ FrameOK(task[c], Top(c)) /\ FrameShape(Top(c))
           /\ Top(c).fn = "Delete" /\ Top(c).key \in Keys /\ Inside(task[c], Top(c).key)
           /\ Len(stack[c]) \in Nat \ {0} /\ Top(c) = stack[c][Len(stack[c])]
           /\ NoStranger(c) /\ DeleteIsDue(c) /\ (Transfers(c) => AllCopied(c))
           /\ stack[c][1].key = task[c].src /\ stack[c][1].fn = "Delete"
<1>1. Running(c)
  BY DEF Deleting, Running
<1>2. /\ Begun(c) /\ result[c] = "none" /\ Top(c) \in Frames /\ FrameOK(task[c], Top(c))
      /\ Len(stack[c]) \in Nat \ {0} /\ Top(c) = stack[c][Len(stack[c])]
  BY <1>1, TopIsOK DEF Top, Last
<1>3. NoStranger(c) /\ DeleteIsDue(c) /\ (Transfers(c) => AllCopied(c))
  BY DEF FateOK, CopyInv, DeleteInv
<1>4. Len(stack[c]) \in 1..Len(stack[c])
  BY <1>2
<1>5. /\ FrameShape(Top(c)) /\ Top(c).fn = "Delete"
      /\ stack[c][1].key = task[c].src /\ stack[c][1].fn = "Delete"
  BY <1>2, <1>4 DEF FateOK, Shape, Deleting
<1>6. Top(c).key \in Keys /\ Inside(task[c], Top(c).key)
  BY <1>2, <1>5 DEF FrameOK, FrameInside, Frames
<1>7. QED BY <1>1, <1>2, <1>3, <1>5, <1>6

(* What a step of Delete does to the bucket. *)
OwnErase(c) ==
    /\ Own(c)
    /\ objects' = objects \/ \E h \in Keys : Inside(task[c], h) /\ objects' = Without(h)

LEMMA DeleteGoesOn ==
    ASSUME TreeInv, NEW c \in Callers, FateOK(c), Deletes(c), Deleting(c), OwnErase(c),
           Shape(task[c], stack'[c]), ~Copying(c)', DeleteInv(c)',
           result'[c] = "none" => stack'[c] # <<>>
    PROVE  FateOK(c)'
<1>1. Begun(c) /\ NoStranger(c) /\ (Transfers(c) => AllCopied(c)) /\ Own(c)
  BY DeletingMeans DEF OwnErase
<1>2. NoStranger(c)'
      /\ (Transfers(c) => \A k \in Files(c, task[c].src) : Copied(c, k) => Copied(c, k)')
  <2>1. CASE objects' = objects
    BY <1>1, <2>1, ReadEffect
  <2>2. CASE \E h \in Keys : Inside(task[c], h) /\ objects' = Without(h)
    BY <1>1, <2>2, DeleteEffect DEF Transfers
  <2>3. QED BY <2>1, <2>2 DEF OwnErase
<1>3. Transfers(c) => AllCopied(c)'
  BY <1>1, <1>2, OwnMeans DEF AllCopied, Own, SameCall
<1>4. CopyInv(c)'
  <2>1. Transfers(c)' <=> Transfers(c)
    BY <1>1, OwnMeans
  <2>2. AllCopied(c)' => NoneLost(c)'
    BY DEF AllCopied, NoneLost
  <2>3. QED BY <1>3, <2>1, <2>2 DEF CopyInv
<1>5. Shape(task[c], stack[c])'
  BY <1>1 DEF Own, SameCall, Shape
<1>6. QED BY <1>2, <1>4, <1>5 DEF FateOK

LEMMA ErasesInside ==
    ASSUME TreeInv, NEW c \in Callers, NEW k \in Keys, Inside(task[c], k),
           Erase(c, k) \/ DeleteFails(c, k) \/ Reads \/ FaultyRead
    PROVE  OwnErase(c)
<1>1. CASE Erase(c, k) \/ DeleteFails(c, k)
  BY <1>1, EraseIsOwn DEF OwnErase
<1>2. CASE Reads \/ FaultyRead
  BY <1>2, ReadIsOwn DEF OwnErase
<1>3. QED BY <1>1, <1>2

LEMMA DeleteFailsOnce ==
    ASSUME TreeInv, NEW c \in Callers, FateOK(c), Deletes(c), Deleting(c), OwnErase(c),
           Fail(c)
    PROVE  FateOK(c)'
<1>1. stack'[c] = <<>> /\ result'[c] = "error"
  BY FailMeans
<1>2. ~Copying(c)' /\ ~Deleting(c)' /\ Shape(task[c], stack'[c])
  BY <1>1 DEF Copying, Deleting, Shape
<1>3. DeleteInv(c)'
  BY <1>1, <1>2 DEF DeleteInv
<1>4. QED BY <1>1, <1>2, <1>3, DeleteGoesOn

(* No object of the tree comes back. *)
LEMMA NoneComesBack ==
    ASSUME TreeInv, NEW c \in Callers, OwnErase(c)
    PROVE  /\ DOMAIN objects' \subseteq DOMAIN objects
           /\ Tree(c, task[c].src)' = Tree(c, task[c].src)
           /\ touched'[c] = touched[c] /\ task'[c] = task[c]
  BY OwnMeans DEF OwnErase, Own, SameCall, Without

LEMMA DeleteFrameGoesOn ==
    ASSUME TreeInv, NEW c \in Callers, FateOK(c), Deletes(c), Deleting(c), OwnErase(c),
           NEW f \in Frames, GoOn(c, f), f.fn = "Delete", f.key = Top(c).key,
           FrameShape(f),
           \A k \in Tree(c, task[c].src) \ touched[c] :
               k \in DOMAIN objects' /\ Len(stack[c]) = 1 /\ Awaits(Top(c), k) =>
                   Awaits(f, k) \/ k = WithSlash(task[c].src) \/ k = Top(c).key
    PROVE  FateOK(c)'
<1> DEFINE n == Len(stack[c])
<1>1. /\ Running(c) /\ result[c] = "none" /\ Top(c).fn = "Delete"
      /\ n \in Nat \ {0} /\ Top(c) = stack[c][n] /\ DeleteIsDue(c)
      /\ stack[c][1].fn = "Delete"
  BY DeletingMeans
<1>2. /\ Len(stack'[c]) = n /\ stack'[c][n] = f /\ result'[c] = result[c]
      /\ \A i \in 1..(n - 1) : stack'[c][i] = stack[c][i]
  BY <1>1, GoOnMeans
<1>3. Shape(task[c], stack'[c])
  BY <1>1, ShapeGoesOn
<1>4. /\ DOMAIN objects' \subseteq DOMAIN objects
      /\ Tree(c, task[c].src)' = Tree(c, task[c].src)
      /\ touched'[c] = touched[c] /\ task'[c] = task[c]
  BY NoneComesBack
<1> HIDE DEF n
<1>5. n = 1 \/ (n # 1 /\ stack'[c][1] = stack[c][1])
  BY <1>1, <1>2
<1>6. stack'[c][1].fn = "Delete" /\ stack'[c] # <<>>
  BY <1>1, <1>2, <1>5
<1>7. ~Copying(c)'
  BY <1>6 DEF Copying
<1>8. \A i \in 1..n : stack'[c][i].key = stack[c][i].key
  <2>1. ASSUME NEW i \in 1..n PROVE stack'[c][i].key = stack[c][i].key
    <3>1. CASE i = n
      BY <1>1, <1>2, <3>1
    <3>2. CASE i # n
      <4>1. i \in 1..(n - 1)
        BY <1>1, <3>2
      <4>2. QED BY <1>2, <4>1
    <3>3. QED BY <3>1, <3>2
  <2>2. QED BY <2>1
<1>9. DeleteIsDue(c)'
  <2>1. ASSUME NEW k \in Tree(c, task[c].src) \ touched[c], k \in DOMAIN objects'
        PROVE  \/ Awaits(stack'[c][1], k)
               \/ k = WithSlash(task[c].src)
               \/ \E i \in 1..n : stack'[c][i].key = k
    <3>1. \/ Awaits(stack[c][1], k)
          \/ k = WithSlash(task[c].src)
          \/ \E i \in 1..n : stack[c][i].key = k
      BY <1>1, <1>4, <2>1 DEF DeleteIsDue, n
    <3>2. CASE \E i \in 1..n : stack[c][i].key = k
      BY <1>8, <3>2
    <3>3. CASE Awaits(stack[c][1], k) /\ n = 1
      <4>1. Awaits(f, k) \/ k = WithSlash(task[c].src) \/ k = Top(c).key
        BY <1>1, <2>1, <3>3 DEF n
      <4>2. 1 \in 1..n /\ stack'[c][1].key = Top(c).key
        BY <1>1, <1>2, <3>3
      <4>3. QED BY <1>2, <3>3, <4>1, <4>2
    <3>4. CASE Awaits(stack[c][1], k) /\ n # 1
      BY <1>5, <3>4
    <3>5. QED BY <3>1, <3>2, <3>3, <3>4
  <2>2. QED BY <1>2, <1>4, <2>1 DEF DeleteIsDue, Awaits, WithSlash, IsDirKey
<1>10. DeleteInv(c)'
  BY <1>1, <1>2, <1>9 DEF DeleteInv
<1>11. QED BY <1>3, <1>6, <1>7, <1>10, DeleteGoesOn

LEMMA DeleteAsks ==
    ASSUME TreeInv, NEW c \in Callers, FateOK(c), Deletes(c), Deleting(c),
           Attrs(c) \/ Probe(c)
    PROVE  FateOK(c)'
<1> DEFINE f == Top(c)
<1>1. /\ f \in Frames /\ FrameShape(f) /\ f.fn = "Delete" /\ f.key \in Keys
      /\ Inside(task[c], f.key)
  BY DeletingMeans
<1>2. Reads \/ FaultyRead
  BY DEF Attrs, Probe
<1>3. OwnErase(c) /\ f.pc \in {"attrs", "probe"}
  BY <1>1, <1>2, ErasesInside DEF Attrs, Probe, At
<1>4. PICK p \in {"file", "probe", "dir", "none"} : GoOn(c, [f EXCEPT !.pc = p])
  BY DEF Attrs, Probe
<1> DEFINE g == [f EXCEPT !.pc = p]
<1>5. /\ g \in Frames /\ g.fn = f.fn /\ g.key = f.key
      /\ g.listed = f.listed /\ g.todo = f.todo /\ FrameShape(g)
  BY <1>1, <1>3, AnswerShape
<1>6. GoOn(c, g)
  BY <1>4
<1> HIDE DEF g
<1>7. \A k : Awaits(f, k) => Awaits(g, k)
  BY <1>5 DEF Awaits
<1>8. QED BY <1>1, <1>3, <1>5, <1>6, <1>7, DeleteFrameGoesOn

LEMMA DeleteLists ==
    ASSUME TreeInv, NEW c \in Callers, FateOK(c), Deletes(c), Deleting(c), ListChildren(c)
    PROVE  FateOK(c)'
<1> DEFINE f == Top(c)
           found == ListAll(f.key)
           g == [f EXCEPT !.todo = found, !.listed = TRUE]
           h == Loop(g)
<1>1. /\ f \in Frames /\ f.key \in Keys /\ f.fn = "Delete" /\ Inside(task[c], f.key)
      /\ Len(stack[c]) \in Nat \ {0} /\ f = stack[c][Len(stack[c])]
      /\ stack[c][1].key = task[c].src
  BY DeletingMeans
<1>2. Reads \/ FaultyRead
  BY DEF ListChildren
<1>3. OwnErase(c) /\ objects' = objects
  BY <1>1, <1>2, ErasesInside, ReadIsOwn
<1>4. GoOn(c, h) \/ Fail(c)
  BY <1>1 DEF ListChildren
<1>5. /\ found \in Seq(Keys)
      /\ \A j \in Children(f.key) : \E i \in 1..Len(found) : found[i] = j
  BY <1>1, ListingHasAll
<1> HIDE DEF found, f
<1>6. /\ g \in Frames /\ g.listed /\ g.todo = found /\ g.fn = "Delete" /\ g.key = f.key
  BY <1>1, <1>5 DEF Frames
<1> HIDE DEF g
<1>7. /\ h \in Frames /\ h.fn = "Delete" /\ h.key = f.key /\ h.todo = found /\ h.listed
      /\ FrameShape(h)
  BY <1>6, LoopShape
<1> HIDE DEF h
<1>8. ASSUME NEW k \in Tree(c, task[c].src) \ touched[c], k \in DOMAIN objects',
             Len(stack[c]) = 1
      PROVE  Awaits(h, k) \/ k = WithSlash(task[c].src) \/ k = f.key
  <2>1. k \in DOMAIN objects /\ Inside(task[c], k) /\ f.key = task[c].src
    BY <1>1, <1>3, <1>8, TreeMeans
  <2>2. CASE k \in Children(f.key)
    BY <1>5, <1>7, <2>2 DEF Awaits
  <2>3. CASE k \notin Children(f.key)
    BY <2>1, <2>3 DEF Children, Under, Inside
  <2>4. QED BY <2>2, <2>3
<1>9. CASE GoOn(c, h)
  <2>1. h.key = Top(c).key
    BY <1>7 DEF f
  <2>2. QED BY <1>3, <1>7, <1>8, <1>9, <2>1, DeleteFrameGoesOn
<1>10. CASE Fail(c)
  BY <1>3, <1>10, DeleteFailsOnce
<1>11. QED BY <1>4, <1>9, <1>10

LEMMA DeleteCallsItself ==
    ASSUME TreeInv, NEW c \in Callers, FateOK(c), Deletes(c), Deleting(c),
           DeleteChildDir(c)
    PROVE  FateOK(c)'
<1> DEFINE f == Top(c)
           h == Head(f.todo)
           g == NextChild(f)
           q == CallDeleteAll(h)
           n == Len(stack[c])
<1>1. /\ Running(c) /\ result[c] = "none" /\ f.fn = "Delete" /\ f.listed /\ f.pc = "dir"
      /\ n \in Nat \ {0} /\ f = stack[c][n] /\ FrameOK(task[c], f) /\ f.key \in Keys
      /\ Inside(task[c], f.key) /\ DeleteIsDue(c) /\ stack[c][1].fn = "Delete" /\ Begun(c)
  BY DeletingMeans DEF DeleteChildDir, At
<1>2. OwnErase(c)
  BY <1>1, ErasesInside DEF DeleteChildDir
<1>3. CallsItself(c, g, q)
  BY DEF DeleteChildDir, CallsItself
<1>4. /\ g \in Frames /\ g.fn = f.fn /\ g.key = f.key /\ FrameShape(g)
      /\ h \in Keys /\ Inside(task[c], h)
      /\ \A k : Awaits(f, k) => k = h \/ Awaits(g, k)
  <2>1. f.pc # "end" /\ f.fn = "Delete"
    BY <1>1
  <2>2. /\ g \in Frames /\ g.fn = f.fn /\ g.key = f.key /\ FrameShape(g)
    BY <1>1, <2>1, NextChildShape
  <2>3. h \in Keys /\ Inside(task[c], h)
    BY <1>1, <2>1, NextChildIsOK DEF ChildOf
  <2>4. \A k : Awaits(f, k) => k = h \/ Awaits(g, k)
    BY <1>1, <2>1, AwaitsNext
  <2>5. QED BY <2>2, <2>3, <2>4
<1>5. q.fn = "Delete" /\ q.key = h /\ FrameShape(q) /\ q \in Frames
  <2>1. task[c].op \in {"Delete", "DeleteAll", "Move"}
    BY DEF Deletes
  <2>2. q \in Frames
    BY <1>1, <1>4, <2>1, CalledFramesAreOK DEF Begun, FrameOK
  <2>3. QED BY <2>2, FirstFrameShape
<1> HIDE DEF g, q, h
<1>6. Shape(task[c], stack'[c])
  <2>1. /\ g.fn = Top(c).fn /\ g.key = Top(c).key /\ q.fn = Top(c).fn
    BY <1>1, <1>4, <1>5
  <2>2. QED BY <1>1, <1>3, <1>4, <1>5, <2>1, ShapeCalls
<1>7. /\ Len(stack'[c]) = n + 1 /\ stack'[c][n] = g /\ stack'[c][n + 1] = q
      /\ \A i \in 1..(n - 1) : stack'[c][i] = stack[c][i]
      /\ result'[c] = "none"
  BY <1>1, <1>3, <1>4, <1>5, CallMeans
<1>8. /\ DOMAIN objects' \subseteq DOMAIN objects
      /\ Tree(c, task[c].src)' = Tree(c, task[c].src)
      /\ touched'[c] = touched[c] /\ task'[c] = task[c]
  BY <1>2, NoneComesBack
<1> HIDE DEF n, f
<1>9. (n = 1 /\ f = stack[c][1] /\ stack'[c][1] = g) \/ (n # 1 /\ stack'[c][1] = stack[c][1])
  BY <1>1, <1>7
<1>10. ~Copying(c)'
  BY <1>1, <1>4, <1>9 DEF Copying
<1>11. \A i \in 1..n : stack'[c][i].key = stack[c][i].key
  <2>1. ASSUME NEW i \in 1..n PROVE stack'[c][i].key = stack[c][i].key
    <3>1. CASE i = n
      BY <1>1, <1>4, <1>7, <3>1
    <3>2. CASE i # n
      <4>1. i \in 1..(n - 1)
        BY <1>1, <3>2
      <4>2. QED BY <1>7, <4>1
    <3>3. QED BY <3>1, <3>2
  <2>2. QED BY <2>1
<1>12. DeleteIsDue(c)'
  <2>1. ASSUME NEW k \in Tree(c, task[c].src) \ touched[c], k \in DOMAIN objects'
        PROVE  \/ Awaits(stack'[c][1], k)
               \/ k = WithSlash(task[c].src)
               \/ \E i \in 1..(n + 1) : stack'[c][i].key = k
    <3>1. \/ Awaits(stack[c][1], k)
          \/ k = WithSlash(task[c].src)
          \/ \E i \in 1..n : stack[c][i].key = k
      BY <1>1, <1>8, <2>1 DEF DeleteIsDue, n
    <3>2. 1..n \subseteq 1..(n + 1) /\ n + 1 \in 1..(n + 1)
      BY <1>1
    <3>3. k = h => \E i \in 1..(n + 1) : stack'[c][i].key = k
      BY <1>5, <1>7, <3>2
    <3>4. Awaits(stack[c][1], k) => k = h \/ Awaits(stack'[c][1], k)
      BY <1>4, <1>9
    <3>5. (\E i \in 1..n : stack[c][i].key = k) => \E i \in 1..(n + 1) : stack'[c][i].key = k
      BY <1>11, <3>2
    <3>6. QED BY <3>1, <3>3, <3>4, <3>5
  <2>2. QED BY <1>7, <1>8, <2>1 DEF DeleteIsDue, Awaits, WithSlash, IsDirKey
<1>13. DeleteInv(c)'
  BY <1>7, <1>12 DEF DeleteInv
<1>14. result'[c] = "none" /\ stack'[c] # <<>>
  <2>1. stack'[c] = <<>> => Len(stack'[c]) = 0
    BY EmptySeq
  <2>2. QED BY <1>1, <1>7, <2>1
<1>15. QED BY <1>2, <1>6, <1>10, <1>13, <1>14, DeleteGoesOn

(* A call of Delete or DeleteAll has erased its own key, and returns. *)
LEMMA DeleteReturns ==
    ASSUME TreeInv, NEW c \in Callers, FateOK(c), Deletes(c), Deleting(c),
           Erase(c, Top(c).key), Return(c),
           ~IsDirKey(Top(c).key) \/ (Top(c).listed /\ Top(c).todo = <<>>)
    PROVE  FateOK(c)'
<1> DEFINE n == Len(stack[c])
           f == Top(c)
           t == task[c]
<1>1. /\ Running(c) /\ result[c] = "none" /\ f.fn = "Delete" /\ f.key \in Keys
      /\ Inside(t, f.key) /\ n \in Nat \ {0} /\ f = stack[c][n] /\ DeleteIsDue(c)
      /\ NoStranger(c) /\ stack[c][1].key = t.src /\ stack[c][1].fn = "Delete"
  BY DeletingMeans
<1>2. OwnErase(c)
  BY <1>1, ErasesInside
<1>3. f.key \in DOMAIN objects /\ DOMAIN objects' = DOMAIN objects \ {f.key}
  BY DEF Erase
<1>4. /\ Tree(c, t.src)' = Tree(c, t.src)
      /\ touched'[c] = touched[c] /\ task'[c] = t
  BY <1>2, NoneComesBack
<1>5. Shape(t, stack'[c])
  BY <1>1, ShapeReturns
<1>6. EndsCall(c) \/ PopsFrame(c)
  BY <1>1, ReturnMeans
<1>7. CASE PopsFrame(c)
  <2>1. /\ n > 1 /\ Len(stack'[c]) = n - 1 /\ result'[c] = "none"
        /\ \A i \in 1..(n - 1) : stack'[c][i] = stack[c][i]
    BY <1>1, <1>7 DEF PopsFrame
  <2> HIDE DEF n, t, f
  <2>2. /\ stack'[c][1] = stack[c][1] /\ stack'[c] # <<>>
        /\ 1..n = 1..(n - 1) \union {n}
    BY <1>1, <2>1
  <2>3. ~Copying(c)'
    BY <1>1, <2>2 DEF Copying
  <2>4. DeleteIsDue(c)'
    <3>1. ASSUME NEW k \in Tree(c, t.src) \ touched[c], k \in DOMAIN objects'
          PROVE  \/ Awaits(stack'[c][1], k)
                 \/ k = WithSlash(t.src)
                 \/ \E i \in 1..(n - 1) : stack'[c][i].key = k
      <4>1. k \in DOMAIN objects /\ k # f.key
        BY <1>3, <3>1
      <4>2. \/ Awaits(stack[c][1], k)
            \/ k = WithSlash(t.src)
            \/ \E i \in 1..n : stack[c][i].key = k
        BY <1>1, <3>1, <4>1 DEF DeleteIsDue, n, t
      <4>3. (\E i \in 1..n : stack[c][i].key = k) =>
                \E i \in 1..(n - 1) : stack'[c][i].key = k
        BY <1>1, <2>1, <2>2, <4>1
      <4>4. QED BY <2>2, <4>2, <4>3
    <3>2. QED BY <1>4, <2>1, <3>1 DEF DeleteIsDue, Awaits, WithSlash, IsDirKey, t
  <2>5. DeleteInv(c)'
    BY <2>1, <2>4 DEF DeleteInv
  <2>6. QED BY <1>2, <1>5, <2>2, <2>3, <2>5, DeleteGoesOn DEF t
<1>8. CASE EndsCall(c)
  <2>1. stack'[c] = <<>> /\ result'[c] = "ok" /\ n = 1
    BY <1>1, <1>8 DEF EndsCall
  <2>2. ~Copying(c)' /\ ~Deleting(c)'
    BY <2>1 DEF Copying, Deleting
  <2>3. f.key = t.src /\ f = stack[c][1]
    BY <1>1, <2>1
  <2>4. t.src \in Known(c)
    BY <1>1, <1>3, <2>3 DEF NoStranger
  <2>5. ASSUME NEW k \in Tree(c, t.src) \ touched[c], k \in DOMAIN objects' PROVE FALSE
    <3>1. k \in DOMAIN objects /\ k # t.src /\ k \in Known(c) /\ Inside(t, k)
      BY <1>3, <2>3, <2>5, TreeMeans
    <3>2. IsDirKey(t.src)
      BY <2>4, <3>1 DEF Inside, Deletes, Undisputed
    <3>3. f.listed /\ f.todo = <<>> /\ WithSlash(t.src) = t.src
      BY <2>3, <3>2 DEF WithSlash
    <3>4. ~Awaits(f, k)
      BY <3>3, EmptySeq DEF Awaits
    <3>5. \/ Awaits(stack[c][1], k)
          \/ k = WithSlash(t.src)
          \/ \E i \in 1..n : stack[c][i].key = k
      BY <1>1, <2>5, <3>1 DEF DeleteIsDue
    <3>6. ASSUME NEW i \in 1..n, stack[c][i].key = k PROVE FALSE
      <4>1. i = 1
        BY <2>1
      <4>2. QED BY <2>3, <3>1, <3>6, <4>1
    <3>7. QED BY <2>3, <3>1, <3>3, <3>4, <3>5, <3>6
  <2>6. AllGone(c)'
    BY <1>4, <2>5 DEF AllGone
  <2>7. DeleteInv(c)'
    BY <2>1, <2>2, <2>6 DEF DeleteInv
  <2>8. QED BY <1>2, <1>5, <2>1, <2>2, <2>7, DeleteGoesOn
<1>9. QED BY <1>6, <1>7, <1>8

LEMMA DeleteErasesOne ==
    ASSUME TreeInv, NEW c \in Callers, FateOK(c), Deletes(c), Deleting(c),
           DeleteObject(c)
    PROVE  FateOK(c)'
<1> DEFINE f == Top(c)
           h == Subject(f)
           g == NextChild(f)
<1>1. /\ Running(c) /\ f.fn = "Delete" /\ f.pc \in {"file", "none"}
      /\ FrameShape(f) /\ FrameOK(task[c], f)
  BY DeletingMeans DEF DeleteObject, At
<1>2. f.pc # "end"
  BY <1>1
<1>3. h \in Keys /\ Inside(task[c], h)
  BY <1>1, <1>2, SubjectIsOK
<1>4. \/ /\ Erase(c, h)
         /\ IF f.listed THEN GoOn(c, g) ELSE Return(c)
      \/ DeleteFails(c, h) /\ Fail(c)
  BY DEF DeleteObject, DeleteFails
<1>5. OwnErase(c)
  BY <1>3, <1>4, ErasesInside
<1>6. CASE Fail(c)
  BY <1>5, <1>6, DeleteFailsOnce
<1>7. CASE f.listed /\ Erase(c, h) /\ GoOn(c, g)
  <2>1. g \in Frames /\ g.fn = f.fn /\ g.key = f.key /\ FrameShape(g)
    BY <1>1, <1>2, <1>7, NextChildShape
  <2>2. h = Head(f.todo)
    BY <1>7 DEF Subject
  <2>3. h \notin DOMAIN objects'
    BY <1>7 DEF Erase
  <2>4. \A k : Awaits(f, k) => k = h \/ Awaits(g, k)
    BY <1>1, <1>2, <1>7, <2>2, AwaitsNext
  <2> HIDE DEF g, h
  <2>5. \A k : k \in DOMAIN objects' /\ Awaits(Top(c), k) => Awaits(g, k)
    BY <2>3, <2>4
  <2>6. g.fn = "Delete" /\ g.key = Top(c).key /\ GoOn(c, g)
    BY <1>1, <1>7, <2>1
  <2>7. QED BY <1>5, <2>1, <2>5, <2>6, DeleteFrameGoesOn
<1>8. CASE ~f.listed /\ Erase(c, h) /\ Return(c)
  <2>1. h = f.key
    BY <1>8 DEF Subject
  <2>2. ~IsDirKey(f.key)
    BY <1>1, <1>8 DEF FrameShape
  <2>3. QED BY <1>8, <2>1, <2>2, DeleteReturns
<1>9. QED BY <1>4, <1>6, <1>7, <1>8

LEMMA DeleteErasesSelf ==
    ASSUME TreeInv, NEW c \in Callers, FateOK(c), Deletes(c), Deleting(c), DeleteSelf(c)
    PROVE  FateOK(c)'
<1>1. /\ Top(c).pc = "end" /\ FrameShape(Top(c)) /\ Top(c).key \in Keys
      /\ Inside(task[c], Top(c).key)
  BY DeletingMeans DEF DeleteSelf, At
<1>2. Top(c).listed /\ Top(c).todo = <<>>
  BY <1>1 DEF FrameShape
<1>3. CASE Erase(c, Top(c).key) /\ Return(c)
  BY <1>2, <1>3, DeleteReturns
<1>4. CASE DeleteFails(c, Top(c).key) /\ Fail(c)
  BY <1>1, <1>4, ErasesInside, DeleteFailsOnce
<1>5. (Erase(c, Top(c).key) /\ Return(c)) \/ (DeleteFails(c, Top(c).key) /\ Fail(c))
  BY DEF DeleteSelf, DeleteFails
<1>6. QED BY <1>3, <1>4, <1>5

(* A step of a call that deletes. *)
LEMMA DeletingStep ==
    ASSUME TreeInv, NEW c \in Callers, FateOK(c), Deletes(c), Deleting(c), RunStep(c)
    PROVE  FateOK(c)'
<1>1. Top(c).fn = "Delete"
  BY DeletingMeans
<1>2. ~CopyStep(c) /\ ~WriteStep(c)
  BY <1>1 DEF CopyStep, WriteStep, CopySingleObject, CopyChildDir, CopyChildFails,
              LoopEnds, CreateChecks, WriteObject, At
<1>3. QED BY <1>2, DeleteAsks, DeleteLists, DeleteErasesOne, DeleteCallsItself,
             DeleteErasesSelf DEF RunStep, InfoStep, DeleteStep
-----------------------------------------------------------------------------
(***************************************************************************)
(* Every step.                                                             *)
(***************************************************************************)

LEMMA InfoShape ==
    ASSUME TreeInv, NEW c \in Callers, FateOK(c), InfoStep(c)
    PROVE  Shape(task[c], stack'[c])
<1> DEFINE f == Top(c)
<1>1. /\ Running(c) /\ f \in Frames /\ FrameShape(f) /\ f.key \in Keys
  <2>1. Running(c)
    BY DEF InfoStep, Attrs, Probe, ListChildren, At
  <2>2. f \in Frames /\ f = stack[c][Len(stack[c])] /\ Len(stack[c]) \in 1..Len(stack[c])
    BY <2>1, TopIsOK DEF Top, Last
  <2>3. QED BY <2>1, <2>2 DEF FateOK, Shape, Frames
<1>2. CASE Attrs(c) \/ Probe(c)
  <2>1. PICK p \in {"file", "probe", "dir", "none"} : GoOn(c, [f EXCEPT !.pc = p])
    BY <1>2 DEF Attrs, Probe
  <2>2. f.pc \in {"attrs", "probe"}
    BY <1>2 DEF Attrs, Probe, At
  <2> DEFINE g == [f EXCEPT !.pc = p]
  <2>3. g \in Frames /\ g.fn = f.fn /\ g.key = f.key /\ FrameShape(g)
    BY <1>1, <2>2, AnswerShape
  <2>4. GoOn(c, g)
    BY <2>1
  <2> HIDE DEF g
  <2>5. QED BY <1>1, <2>3, <2>4, ShapeGoesOn
<1>3. CASE ListChildren(c)
  <2> DEFINE found == IF f.fn = "DeleteMatching" THEN Walk(f.key) ELSE ListAll(f.key)
             g == [f EXCEPT !.todo = found, !.listed = TRUE]
             h == Loop(g)
  <2>1. found \in Seq(Keys)
    <3>1. Children(f.key) \in SUBSET Keys /\ IsFiniteSet(Children(f.key))
      BY <1>1, ChildrenAreInside
    <3>2. /\ Children(f.key) \intersect Matching \in SUBSET Keys
          /\ IsFiniteSet(Children(f.key) \intersect Matching)
      BY <3>1, FS_Subset
    <3>3. Walk(f.key) \in Seq(Children(f.key) \intersect Matching)
      BY <3>2, ListingIsExact DEF Walk
    <3>4. Walk(f.key) \in Seq(Keys)
      BY <3>2, <3>3
    <3>5. ListAll(f.key) \in Seq(Keys)
      BY <1>1, ListingHasAll
    <3>6. QED BY <3>4, <3>5
  <2>2. GoOn(c, h) \/ Fail(c)
    BY <1>3 DEF ListChildren
  <2> HIDE DEF found
  <2>3. g \in Frames /\ g.listed /\ g.fn = f.fn /\ g.key = f.key
    BY <1>1, <2>1 DEF Frames
  <2> HIDE DEF g
  <2>4. h \in Frames /\ h.fn = f.fn /\ h.key = f.key /\ FrameShape(h)
    BY <2>3, LoopShape
  <2> HIDE DEF h
  <2>5. CASE GoOn(c, h)
    BY <1>1, <2>4, <2>5, ShapeGoesOn
  <2>6. CASE Fail(c)
    BY <2>6, FailMeans DEF Shape
  <2>7. QED BY <2>2, <2>5, <2>6
<1>4. QED BY <1>2, <1>3 DEF InfoStep

LEMMA RunShape ==
    ASSUME TreeInv, NEW c \in Callers, FateOK(c), RunStep(c)
    PROVE  Shape(task[c], stack'[c])
<1> DEFINE f == Top(c)
           g == NextChild(f)
<1>1. CASE Running(c) /\ Fail(c)
  BY <1>1, FailMeans DEF Shape
<1>2. CASE Running(c) /\ Return(c)
  BY <1>2, ShapeReturns
<1>3. ASSUME Running(c), f.listed, f.pc # "end"
      PROVE  g \in Frames /\ g.fn = f.fn /\ g.key = f.key /\ FrameShape(g)
             /\ Head(f.todo) \in Keys
  <2>1. FrameOK(task[c], f)
    BY <1>3, TopIsOK
  <2>2. QED BY <1>3, <2>1, NextChildShape, NextChildIsOK
<1>4. CASE Running(c) /\ f.listed /\ f.pc # "end" /\ GoOn(c, g)
  <2> HIDE DEF g
  <2>1. QED BY <1>3, <1>4, ShapeGoesOn
<1>5. CASE CopyChildDir(c)
  <2> DEFINE q == CallCopy(Head(f.todo), DstKey(f, Head(f.todo)))
  <2>1. /\ Running(c) /\ f.listed /\ f.pc # "end" /\ f.fn = "Copy"
        /\ CallsItself(c, g, q)
    BY <1>5 DEF CopyChildDir, At, CallsItself
  <2>2. q.fn = "Copy" /\ FrameShape(q)
    BY FirstFrameShape
  <2>3. q \in Frames
    <3>1. AskInfo(Head(f.todo)) \in {"dir", "attrs"} /\ <<>> \in Seq(Keys)
      BY DEF AskInfo
    <3>2. DstKey(f, Head(f.todo)) \in Keys
      BY <1>3, <2>1, CopyPuts, SubjectIsOK
    <3>3. QED BY <1>3, <2>1, <3>1, <3>2 DEF CallCopy, Frames
  <2> HIDE DEF q, g
  <2>4. QED BY <1>3, <2>1, <2>2, <2>3, ShapeCalls
<1>6. CASE DeleteChildDir(c)
  <2> DEFINE q == CallDeleteAll(Head(f.todo))
  <2>1. /\ Running(c) /\ f.listed /\ f.pc # "end" /\ f.fn = "Delete"
        /\ CallsItself(c, g, q)
    BY <1>6 DEF DeleteChildDir, At, CallsItself
  <2>2. q.fn = "Delete" /\ FrameShape(q)
    BY FirstFrameShape
  <2>3. q \in Frames
    <3>1. AskInfo(Head(f.todo)) \in {"dir", "attrs"} /\ <<>> \in Seq(Keys) /\ <<>> \in Keys
      BY DEF AskInfo, Keys
    <3>2. QED BY <1>3, <2>1, <3>1 DEF CallDeleteAll, CallDelete, CallCopy, Frames
  <2> HIDE DEF q, g
  <2>4. QED BY <1>3, <2>1, <2>2, <2>3, ShapeCalls
<1>7. CASE CreateChecks(c)
  <2>1. Running(c) /\ f.fn = "Create" /\ f \in Frames
    BY <1>7, TopIsOK DEF CreateChecks, At
  <2> DEFINE p == [f EXCEPT !.pc = "put"]
  <2>2. p \in Frames /\ p.fn = f.fn /\ p.key = f.key /\ p.pc = "put"
    BY <2>1 DEF Frames
  <2>3. FrameShape(p)
    BY <2>1, <2>2 DEF FrameShape
  <2>4. GoOn(c, p) \/ Fail(c)
    BY <1>7 DEF CreateChecks
  <2> HIDE DEF p
  <2>5. QED BY <1>1, <2>1, <2>2, <2>3, <2>4, ShapeGoesOn
<1>8. CASE CopySingleObject(c) \/ DeleteObject(c)
  <2>1. Running(c) /\ f.pc \in {"file", "none"}
    BY <1>8 DEF CopySingleObject, DeleteObject, At
  <2>2. (f.listed /\ GoOn(c, g)) \/ Return(c) \/ Fail(c)
    BY <1>8 DEF CopySingleObject, DeleteObject, DeleteFails
  <2>3. f.pc # "end"
    BY <2>1
  <2>4. QED BY <1>1, <1>2, <1>4, <2>1, <2>2, <2>3
<1>9. CASE CopyChildFails(c) \/ LoopEnds(c) \/ DeleteSelf(c) \/ WriteObject(c)
  <2>1. Running(c) /\ (Return(c) \/ Fail(c))
    BY <1>9 DEF CopyChildFails, LoopEnds, DeleteSelf, DeleteFails, WriteObject, At
  <2>2. QED BY <1>1, <1>2, <2>1
<1>10. QED BY <1>5, <1>6, <1>7, <1>8, <1>9, InfoShape
           DEF RunStep, CopyStep, DeleteStep, WriteStep

(* A call that is neither to copy nor to delete a tree, or has no claim. *)
LEMMA NoClaimIsOK ==
    ASSUME NEW c, SameCall(c), touched[c] \subseteq touched'[c],
           Shape(task[c], stack'[c]), ~Transfers(c), ~Deletes(c)
    PROVE  FateOK(c)'
<1>1. Undisputed(c)' => Undisputed(c)
  BY DEF Undisputed, Known, SameCall
<1>2. ~Transfers(c)' /\ ~Deletes(c)'
  BY <1>1 DEF Transfers, Deletes, Apart, Image, SameCall
<1>3. Shape(task[c], stack[c])'
  BY DEF SameCall, Shape
<1>4. QED BY <1>2, <1>3 DEF FateOK, CopyInv, DeleteInv

LEMMA OwnStepKeepsFate ==
    ASSUME TreeInv, NEW c \in Callers, FateOK(c), RunStep(c)
    PROVE  FateOK(c)'
<1>1. StackStep(c) /\ BucketStep(c)
  BY RunStepIsOK
<1>2. SameCall(c) /\ touched[c] \subseteq touched'[c] /\ Running(c)
  BY <1>1 DEF StackStep, BucketStep, callVars, SameCall
<1>3. Shape(task[c], stack'[c])
  BY RunShape
<1>4. CASE ~Transfers(c) /\ ~Deletes(c)
  BY <1>2, <1>3, <1>4, NoClaimIsOK
<1>5. CASE Transfers(c) /\ Copying(c)
  BY <1>5, CopyingStep
<1>6. CASE Deletes(c) /\ Deleting(c)
  BY <1>6, DeletingStep
<1>7. Transfers(c) \/ Deletes(c) => (Transfers(c) /\ Copying(c)) \/ (Deletes(c) /\ Deleting(c))
  <2>1. FrameOK(task[c], stack[c][1]) /\ stack[c] # <<>>
    <3>1. Len(stack[c]) \in Nat \ {0} /\ StackOK(task[c], stack[c])
      BY <1>2, TopIsOK DEF TreeInv
    <3>2. 1 \in 1..Len(stack[c])
      BY <3>1
    <3>3. QED BY <1>2, <3>1, <3>2 DEF StackOK, Running
  <2>2. /\ stack[c][1].fn = "Copy" => task[c].op \in {"Copy", "Move"}
        /\ stack[c][1].fn = "Delete" => task[c].op \in {"Delete", "DeleteAll", "Move"}
        /\ stack[c][1].fn = "DeleteMatching" => task[c].op = "DeleteMatching"
        /\ stack[c][1].fn = "Create" => task[c].op = "Create"
        /\ stack[c][1].fn = "MkdirAll" => task[c].op = "MkdirAll"
        /\ stack[c][1].fn \in {"Copy", "Delete", "DeleteMatching", "Create", "MkdirAll"}
    BY <2>1 DEF FrameOK, FrameInside, Frames
  <2>3. QED BY <2>1, <2>2 DEF Transfers, Deletes, Copying, Deleting
<1>8. QED BY <1>4, <1>5, <1>6, <1>7

LEMMA NoTaskStaysOK ==
    ASSUME NEW c, task'[c] = NoTask, stack'[c] = <<>>
    PROVE  FateOK(c)'
<1>1. task'[c].op = "None"
  BY DEF NoTask
<1>2. ~Transfers(c)' /\ ~Deletes(c)'
  BY <1>1 DEF Transfers, Deletes
<1>3. Shape(task[c], stack[c])'
  BY DEF Shape
<1>4. QED BY <1>2, <1>3 DEF FateOK, CopyInv, DeleteInv

(* The calls of others, when one makes a step. *)
LEMMA OthersKeepFate ==
    ASSUME TreeInv, NEW c \in Callers, BucketStep(c), NEW d \in Callers \ {c},
           SamePlace(d), FateOK(d)
    PROVE  FateOK(d)'
<1>1. SameCall(d)
  BY DEF BucketStep, callVars, SameCall
<1>2. CASE task[d] = NoTask
  BY <1>1, <1>2, NoTaskStaysOK DEF TreeInv, SamePlace, SameCall
<1>3. CASE task[d] # NoTask
  <2>1. ByOthers(d)
    BY <1>3 DEF BucketStep, ByOthers
  <2>2. QED BY <1>1, <2>1, OthersStep
<1>4. QED BY <1>2, <1>3

LEMMA BeginIsOK ==
    ASSUME TreeInv, NEW c \in Callers, NEW t \in Tasks, Begin(c, t)
    PROVE  FateOK(c)'
<1>1. /\ task'[c] = t /\ started'[c] = objects /\ objects' = objects
      /\ result[c] = "none" /\ t \in CallTasks
  <2>1. t \in CallTasks
    BY TasksAssumption DEF CallTasks
  <2>2. task[c] = NoTask /\ result[c] = "none"
    BY DEF Begin, TreeInv
  <2>3. task'[c] = t /\ started'[c] = objects /\ objects' = objects
    <3>1. /\ task' = [task EXCEPT ![c] = t] /\ started' = [started EXCEPT ![c] = objects]
          /\ UNCHANGED <<objects, faults, touched>>
      BY DEF Begin
    <3>2. QED BY <3>1 DEF TreeInv, TypeOK
  <2>4. QED BY <2>1, <2>2, <2>3
<1>2. NoStranger(c)'
  BY <1>1 DEF NoStranger, Known
<1>3. CASE t.op = "Open"
  <2>1. stack'[c] = <<>>
    BY <1>3 DEF Begin, TreeInv
  <2>2. ~Transfers(c)' /\ ~Deletes(c)' /\ Shape(task[c], stack[c])'
    BY <1>1, <1>3, <2>1 DEF Transfers, Deletes, Shape
  <2>3. QED BY <2>2 DEF FateOK, CopyInv, DeleteInv
<1>4. CASE t.op # "Open"
  <2> DEFINE f == FirstFrame(t)
  <2>1. stack'[c] = <<f>> /\ result'[c] = "none"
    BY <1>1, <1>4 DEF Begin, TreeInv, TypeOK
  <2> HIDE DEF f
  <2>2. stack'[c] # <<>> /\ Len(stack'[c]) = 1 /\ stack'[c][1] = f
    BY <2>1
  <2>3. CASE t.op \in {"Copy", "Move"}
    <3>1. /\ f.fn = "Copy" /\ f.key = t.src /\ f.to = t.dst /\ ~f.listed /\ f.todo = <<>>
          /\ f.pc = AskInfo(t.src) /\ FrameShape(f)
      BY <2>3, FirstFrameShape DEF FirstFrame, f
    <3>2. Shape(task[c], stack[c])'
      BY <1>1, <2>2, <3>1 DEF Shape
    <3>3. Image(t, t.src) = t.dst
      <4>1. t.src \in Keys /\ t.dst \in Keys /\ IsPrefix(t.src, t.src)
        BY <1>1, SlashIsKept DEF CallTasks
      <4>2. t.src \o <<>> = t.src /\ <<>> \in Keys /\ t.dst \o <<>> = t.dst
        BY <4>1, ConcatEmptySeq DEF Keys
      <4>3. Rest(t.src, t.src \o <<>>) = <<>>
        BY <4>1, <4>2, RestOfConcat
      <4>4. QED BY <4>2, <4>3 DEF Image, Rest
    <3>4. Puts(t, f)
      BY <3>1, <3>3, EmptySeq DEF Puts, Inside
    <3>5. AllPut(c)'
      <4>1. \A i \in 1..Len(stack'[c]) : Puts(t, stack'[c][i])
        BY <2>2, <3>4
      <4>2. QED BY <1>1, <4>1 DEF AllPut, Puts, Inside, Image
    <3>6. SourceStays(c)'
      BY <1>1 DEF SourceStays, Unchanged
    <3>7. DirIsFound(c)'
      BY <2>2, <3>1 DEF DirIsFound, IsDirectory, Subject, AskInfo
    <3>8. CopyIsDue(c)'
      BY <2>2, <3>1 DEF CopyIsDue, Awaits
    <3>9. ~Deleting(c)'
      BY <2>2, <3>1 DEF Deleting
    <3>10. CopyInv(c)' /\ DeleteInv(c)'
      BY <2>1, <3>5, <3>6, <3>7, <3>8, <3>9 DEF CopyInv, DeleteInv
    <3>11. QED BY <1>2, <3>2, <3>10 DEF FateOK
  <2>4. CASE t.op \in {"Delete", "DeleteAll"}
    <3>1. f.fn = "Delete" /\ f.key = t.src /\ ~f.listed /\ FrameShape(f)
      BY <2>4, FirstFrameShape DEF FirstFrame, f
    <3>2. Shape(task[c], stack[c])'
      BY <1>1, <2>2, <3>1 DEF Shape
    <3>3. ~Transfers(c)'
      BY <1>1, <2>4 DEF Transfers
    <3>4. DeleteIsDue(c)'
      BY <2>2, <3>1 DEF DeleteIsDue, Awaits
    <3>5. CopyInv(c)' /\ DeleteInv(c)'
      BY <2>1, <3>3, <3>4 DEF CopyInv, DeleteInv
    <3>6. QED BY <1>2, <3>2, <3>5 DEF FateOK
  <2>5. CASE t.op \in {"DeleteMatching", "Create", "MkdirAll"}
    <3>1. ~Transfers(c)' /\ ~Deletes(c)'
      BY <1>1, <2>5 DEF Transfers, Deletes
    <3>2. f.fn \in {"DeleteMatching", "Create", "MkdirAll"} /\ FrameShape(f)
      <4>1. t.op = "DeleteMatching" => f = CallOne("DeleteMatching", "dir", t.src)
        BY DEF FirstFrame, f
      <4>2. t.op = "Create" => f = CallOne("Create", "attrs", t.src)
        BY DEF FirstFrame, f
      <4>3. t.op = "MkdirAll" => f = CallOne("MkdirAll", "put", MarkerKey(t.src))
        BY DEF FirstFrame, f
      <4>4. \A fn, pc, k :
               /\ CallOne(fn, pc, k).fn = fn /\ CallOne(fn, pc, k).pc = pc
               /\ ~CallOne(fn, pc, k).listed
        BY DEF CallOne, CallCopy
      <4>5. QED BY <2>5, <4>1, <4>2, <4>3, <4>4 DEF FrameShape
    <3>3. Shape(task[c], stack[c])'
      BY <1>1, <2>2, <3>2 DEF Shape
    <3>4. QED BY <3>1, <3>3 DEF FateOK, CopyInv, DeleteInv
  <2>6. QED BY <1>1, <1>4, <2>3, <2>4, <2>5 DEF CallTasks, Operations
<1>5. QED BY <1>3, <1>4

LEMMA FateNext ==
    ASSUME TreeInv, FateInv, NEW c \in Callers, CallerNext(c)
    PROVE  FateInv'
<1>1. CASE RunStep(c)
  <2>1. StackStep(c) /\ BucketStep(c)
    BY <1>1, RunStepIsOK
  <2>2. FateOK(c)'
    BY <1>1, OwnStepKeepsFate DEF FateInv
  <2>3. ASSUME NEW d \in Callers \ {c} PROVE FateOK(d)'
    <3>1. SamePlace(d) /\ FateOK(d)
      BY <2>1 DEF StackStep, SamePlace, FateInv
    <3>2. QED BY <2>1, <3>1, OthersKeepFate
  <2>4. QED BY <2>2, <2>3 DEF FateInv
<1>2. ASSUME NEW t \in Tasks, Begin(c, t) PROVE FateInv'
  <2>1. FateOK(c)'
    BY <1>2, BeginIsOK
  <2>2. ASSUME NEW d \in Callers \ {c} PROVE FateOK(d)'
    <3>1. /\ SameCall(d) /\ SamePlace(d) /\ FateOK(d)
          /\ objects' = objects /\ touched' = touched
      BY <1>2 DEF Begin, SameCall, SamePlace, FateInv, TreeInv, TypeOK
    <3>2. ByOthers(d)
      BY <3>1 DEF ByOthers, Differs
    <3>3. QED BY <3>1, <3>2, OthersStep
  <2>3. QED BY <2>1, <2>2 DEF FateInv
<1>3. QED BY <1>1, <1>2 DEF CallerNext, RunStep

LEMMA FateRests ==
    ASSUME TreeInv, FateInv, UNCHANGED vars
    PROVE  FateInv'
<1>1. ASSUME NEW c \in Callers PROVE FateOK(c)'
  <2>1. SameCall(c) /\ SamePlace(c) /\ ByOthers(c) /\ FateOK(c)
    BY DEF vars, SameCall, SamePlace, ByOthers, Differs, FateInv
  <2>2. QED BY <2>1, OthersStep
<1>2. QED BY <1>1 DEF FateInv

LEMMA FateStart == Init => FateInv
  BY NoTaskIsOK DEF Init, FateInv
=============================================================================
