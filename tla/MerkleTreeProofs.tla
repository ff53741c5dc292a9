--------------------------- MODULE MerkleTreeProofs ---------------------------
(***************************************************************************)
(* Proofs about MerkleTree, for every set of leaf data and every size of   *)
(* tree: a root commits to its leaves, the proofs handed out verify, and   *)
(* no proof that verifies lies, whatever siblings it is put together from. *)
(*                                                                         *)
(* The functions of the tree are recursive, so each proof starts with the  *)
(* equation its function satisfies.  A recursive function is the choice of *)
(* a solution of its equation; that there is one follows from the sizes:   *)
(* the equation for one argument asks only for values at smaller ones.     *)
(***************************************************************************)
EXTENDS MerkleTree, SequenceTheorems, SetLemmas, TLAPS

-----------------------------------------------------------------------------
(* The split of a tree leaves two trees, both smaller.                       *)

LEMMA SplitWithin ==
  ASSUME NEW n \in Nat, n > 1
  PROVE  Split(n) \in 1..(n - 1)
<1> DEFINE P == PowersUpTo(n - 1)
<1>1. 1 \in P
  <2>1. 1 = 2^0 /\ 0 \in 0..(n - 1) /\ 1 \in 1..(n - 1)
    OBVIOUS
  <2> QED  BY <2>1 DEF PowersUpTo
<1>2. P \subseteq 1..(n - 1)
  BY DEF PowersUpTo
<1>3. IsFiniteSet(1..(n - 1))
  BY FS_Interval
<1>4. IsFiniteSet(P) /\ P \in SUBSET Nat
  BY <1>2, <1>3, FS_Subset
<1> HIDE DEF P
<1>5. \E k \in P : \A j \in P : j <= k
  BY <1>1, <1>4, GreatestExists
<1>6. Max(P) \in P
  BY <1>5 DEF Max
<1> QED  BY <1>2, <1>6 DEF Split, P

LEMMA Halves ==
  ASSUME NEW s \in Seq(Data), Len(s) > 1
  PROVE  LET k == Split(Len(s)) IN
         /\ k \in 1..(Len(s) - 1)
         /\ Left(s) \in Seq(Data) /\ Len(Left(s)) = k
         /\ Right(s) \in Seq(Data) /\ Len(Right(s)) = Len(s) - k
         /\ \A i \in 1..k : Left(s)[i] = s[i]
         /\ \A i \in 1..(Len(s) - k) : Right(s)[i] = s[k + i]
<1>1. PICK k : k = Split(Len(s))
  OBVIOUS
<1>2. Len(s) \in Nat /\ k \in 1..(Len(s) - 1)
  BY <1>1, SplitWithin
<1>3. \A i \in 1..k : s[i] \in Data
  BY <1>2
<1>4. \A i \in (k + 1)..Len(s) : s[i] \in Data
  BY <1>2
<1>5. /\ SubSeq(s, 1, k) \in Seq(Data) /\ Len(SubSeq(s, 1, k)) = k
      /\ \A i \in 1..k : SubSeq(s, 1, k)[i] = s[i]
  BY <1>2, <1>3, SubSeqProperties
<1>6. /\ SubSeq(s, k + 1, Len(s)) \in Seq(Data) /\ Len(SubSeq(s, k + 1, Len(s))) = Len(s) - k
      /\ \A i \in 1..(Len(s) - k) : SubSeq(s, k + 1, Len(s))[i] = s[k + i]
  BY <1>2, <1>4, SubSeqProperties
<1> QED  BY <1>1, <1>2, <1>5, <1>6 DEF Left, Right

-----------------------------------------------------------------------------
(* The hash of a tree.                                                       *)

MthEquation(f, s) ==
  IF s = <<>> THEN EmptyHash
  ELSE IF Len(s) = 1 THEN leaf_hash(s[1])
  ELSE node_hash(f[Left(s)], f[Right(s)])

LEMMA MthLocal ==
  ASSUME NEW f, NEW g, NEW s \in Seq(Data),
         \A t \in Seq(Data) : Len(t) < Len(s) => f[t] = g[t]
  PROVE  MthEquation(f, s) = MthEquation(g, s)
<1>1. CASE Len(s) <= 1
  <2>1. s = <<>> \/ Len(s) = 1
    BY <1>1
  <2> QED  BY <2>1 DEF MthEquation
<1>2. CASE Len(s) > 1
  <2>1. /\ Left(s) \in Seq(Data) /\ Len(Left(s)) < Len(s)
        /\ Right(s) \in Seq(Data) /\ Len(Right(s)) < Len(s)
    BY <1>2, Halves
  <2>2. f[Left(s)] = g[Left(s)] /\ f[Right(s)] = g[Right(s)]
    BY <2>1
  <2> QED  BY <2>2 DEF MthEquation
<1> QED  BY <1>1, <1>2

LEMMA MthUnfolds ==
  ASSUME NEW s \in Seq(Data)
  PROVE  Mth[s] = MthEquation(Mth, s)
<1> DEFINE Solves(f, n) == \A t \in Seq(Data) : Len(t) < n => f[t] = MthEquation(f, t)
<1> HIDE DEF Solves
<1>1. \A n \in Nat : \E f : Solves(f, n)
  <2> SUFFICES ASSUME {n \in Nat : ~\E f : Solves(f, n)} # {} PROVE FALSE
    OBVIOUS
  <2>1. PICK n \in Nat : (~\E f : Solves(f, n)) /\ \A m \in Nat : m < n => \E f : Solves(f, m)
    <3> DEFINE Bad == {n \in Nat : ~\E f : Solves(f, n)}
    <3>1. PICK n \in Bad : \A m \in Bad : n <= m
      BY LeastExists
    <3>2. \A m \in Nat : m < n => m \notin Bad
      BY <3>1
    <3> QED  BY <3>1, <3>2, Zenon
  <2>2. n # 0
    <3>1. \A f, t : t \in Seq(Data) => ~(Len(t) < 0)
      OBVIOUS
    <3> QED  BY <2>1, <3>1 DEF Solves
  <2>3. PICK f : Solves(f, n - 1)
    BY <2>1, <2>2
  <2> DEFINE g == [t \in Seq(Data) |-> MthEquation(f, t)]
  <2>4. ASSUME NEW t \in Seq(Data), Len(t) < n PROVE g[t] = MthEquation(g, t)
    <3>1. \A u \in Seq(Data) : Len(u) < Len(t) => f[u] = g[u]
      BY <2>3, <2>4 DEF Solves
    <3> QED  BY <3>1, MthLocal
  <2> QED  BY <2>1, <2>4 DEF Solves
<1>2. ASSUME NEW f, NEW g, NEW n \in Nat, NEW m \in Nat, Solves(f, n), Solves(g, m),
             NEW t \in Seq(Data), Len(t) < n, Len(t) < m
      PROVE  f[t] = g[t]
  <2> DEFINE Bad == {l \in Nat : \E u \in Seq(Data) :
                                   Len(u) = l /\ l < n /\ l < m /\ f[u] # g[u]}
  <2> SUFFICES ASSUME Bad # {} PROVE FALSE
    BY <1>2
  <2>1. PICK l \in Bad : \A k \in Bad : l <= k
    BY LeastExists
  <2>2. PICK u \in Seq(Data) : Len(u) = l /\ l < n /\ l < m /\ f[u] # g[u]
    BY <2>1
  <2>3. ASSUME NEW v \in Seq(Data), Len(v) < Len(u) PROVE f[v] = g[v]
    BY <2>1, <2>2, <2>3
  <2>4. MthEquation(f, u) = MthEquation(g, u)
    BY <2>3, MthLocal
  <2> QED  BY <1>2, <2>2, <2>4 DEF Solves
<1> DEFINE G == [n \in Nat |-> CHOOSE f : Solves(f, n)]
           F == [t \in Seq(Data) |-> G[Len(t) + 1][t]]
<1>3. \A n \in Nat : Solves(G[n], n)
  BY <1>1
<1>4. ASSUME NEW t \in Seq(Data) PROVE F[t] = MthEquation(F, t)
  <2>1. Len(t) \in Nat /\ Len(t) + 1 \in Nat /\ Solves(G[Len(t) + 1], Len(t) + 1)
    BY <1>3
  <2>2. ASSUME NEW u \in Seq(Data), Len(u) < Len(t) PROVE F[u] = G[Len(t) + 1][u]
    <3>1. Len(u) + 1 \in Nat /\ Solves(G[Len(u) + 1], Len(u) + 1)
      BY <1>3
    <3> QED  BY <1>2, <2>1, <2>2, <3>1
  <2>3. PICK g : g = G[Len(t) + 1]
    OBVIOUS
  <2>4. F[t] = g[t] /\ g[t] = MthEquation(g, t)
    BY <2>1, <2>3 DEF Solves
  <2> HIDE DEF F
  <2>5. MthEquation(F, t) = MthEquation(g, t)
    BY <2>2, <2>3, MthLocal
  <2> QED  BY <2>4, <2>5
<1> HIDE DEF F
<1>5. F = [t \in Seq(Data) |-> F[t]]
  BY DEF F
<1>6. F = [t \in Seq(Data) |-> MthEquation(F, t)]
  BY <1>4, <1>5
<1>7. Mth = CHOOSE f : f = [t \in Seq(Data) |-> MthEquation(f, t)]
  BY DEF Mth, MthEquation
<1>8. Mth = [t \in Seq(Data) |-> MthEquation(Mth, t)]
  BY <1>6, <1>7
<1> QED  BY <1>8

-----------------------------------------------------------------------------
(* The audit paths.                                                          *)

AuditEquation(f, s) ==
  [index \in 0..(Len(s) - 1) |->
     LET k == Split(Len(s)) IN
     IF Len(s) <= 1 THEN <<>>
     ELSE IF index < k THEN Append(f[Left(s)][index], Mth[Right(s)])
     ELSE Append(f[Right(s)][index - k], Mth[Left(s)])]

LEMMA AuditLocal ==
  ASSUME NEW f, NEW g, NEW s \in Seq(Data),
         \A t \in Seq(Data) : Len(t) < Len(s) => f[t] = g[t]
  PROVE  AuditEquation(f, s) = AuditEquation(g, s)
<1>1. CASE Len(s) <= 1
  BY <1>1 DEF AuditEquation
<1>2. CASE Len(s) > 1
  <2>1. /\ Left(s) \in Seq(Data) /\ Len(Left(s)) < Len(s)
        /\ Right(s) \in Seq(Data) /\ Len(Right(s)) < Len(s)
    BY <1>2, Halves
  <2>2. f[Left(s)] = g[Left(s)] /\ f[Right(s)] = g[Right(s)]
    BY <2>1
  <2> QED  BY <2>2 DEF AuditEquation
<1> QED  BY <1>1, <1>2

LEMMA AuditUnfolds ==
  ASSUME NEW s \in Seq(Data)
  PROVE  AuditPath[s] = AuditEquation(AuditPath, s)
<1> DEFINE Solves(f, n) == \A t \in Seq(Data) : Len(t) < n => f[t] = AuditEquation(f, t)
<1> HIDE DEF Solves
<1>1. \A n \in Nat : \E f : Solves(f, n)
  <2> SUFFICES ASSUME {n \in Nat : ~\E f : Solves(f, n)} # {} PROVE FALSE
    OBVIOUS
  <2>1. PICK n \in Nat : (~\E f : Solves(f, n)) /\ \A m \in Nat : m < n => \E f : Solves(f, m)
    <3> DEFINE Bad == {n \in Nat : ~\E f : Solves(f, n)}
    <3>1. PICK n \in Bad : \A m \in Bad : n <= m
      BY LeastExists
    <3>2. \A m \in Nat : m < n => m \notin Bad
      BY <3>1
    <3> QED  BY <3>1, <3>2, Zenon
  <2>2. n # 0
    <3>1. \A f, t : t \in Seq(Data) => ~(Len(t) < 0)
      OBVIOUS
    <3> QED  BY <2>1, <3>1 DEF Solves
  <2>3. PICK f : Solves(f, n - 1)
    BY <2>1, <2>2
  <2> DEFINE g == [t \in Seq(Data) |-> AuditEquation(f, t)]
  <2>4. ASSUME NEW t \in Seq(Data), Len(t) < n PROVE g[t] = AuditEquation(g, t)
    <3>1. \A u \in Seq(Data) : Len(u) < Len(t) => f[u] = g[u]
      BY <2>3, <2>4 DEF Solves
    <3> QED  BY <3>1, AuditLocal
  <2> QED  BY <2>1, <2>4 DEF Solves
<1>2. ASSUME NEW f, NEW g, NEW n \in Nat, NEW m \in Nat, Solves(f, n), Solves(g, m),
             NEW t \in Seq(Data), Len(t) < n, Len(t) < m
      PROVE  f[t] = g[t]
  <2> DEFINE Bad == {l \in Nat : \E u \in Seq(Data) :
                                   Len(u) = l /\ l < n /\ l < m /\ f[u] # g[u]}
  <2> SUFFICES ASSUME Bad # {} PROVE FALSE
    BY <1>2
  <2>1. PICK l \in Bad : \A k \in Bad : l <= k
    BY LeastExists
  <2>2. PICK u \in Seq(Data) : Len(u) = l /\ l < n /\ l < m /\ f[u] # g[u]
    BY <2>1
  <2>3. ASSUME NEW v \in Seq(Data), Len(v) < Len(u) PROVE f[v] = g[v]
    BY <2>1, <2>2, <2>3
  <2>4. AuditEquation(f, u) = AuditEquation(g, u)
    BY <2>3, AuditLocal
  <2> QED  BY <1>2, <2>2, <2>4 DEF Solves
<1> DEFINE G == [n \in Nat |-> CHOOSE f : Solves(f, n)]
           F == [t \in Seq(Data) |-> G[Len(t) + 1][t]]
<1>3. \A n \in Nat : Solves(G[n], n)
  BY <1>1
<1>4. ASSUME NEW t \in Seq(Data) PROVE F[t] = AuditEquation(F, t)
  <2>1. Len(t) \in Nat /\ Len(t) + 1 \in Nat /\ Solves(G[Len(t) + 1], Len(t) + 1)
    BY <1>3
  <2>2. ASSUME NEW u \in Seq(Data), Len(u) < Len(t) PROVE F[u] = G[Len(t) + 1][u]
    <3>1. Len(u) + 1 \in Nat /\ Solves(G[Len(u) + 1], Len(u) + 1)
      BY <1>3
    <3> QED  BY <1>2, <2>1, <2>2, <3>1
  <2>3. PICK g : g = G[Len(t) + 1]
    OBVIOUS
  <2>4. F[t] = g[t] /\ g[t] = AuditEquation(g, t)
    BY <2>1, <2>3 DEF Solves
  <2> HIDE DEF F
  <2>5. AuditEquation(F, t) = AuditEquation(g, t)
    BY <2>2, <2>3, AuditLocal
  <2> QED  BY <2>4, <2>5
<1> HIDE DEF F
<1>5. F = [t \in Seq(Data) |-> F[t]]
  BY DEF F
<1>6. F = [t \in Seq(Data) |-> AuditEquation(F, t)]
  BY <1>4, <1>5
<1>7. AuditPath = CHOOSE f : f = [t \in Seq(Data) |-> AuditEquation(f, t)]
  BY DEF AuditPath, AuditEquation
<1>8. AuditPath = [t \in Seq(Data) |-> AuditEquation(AuditPath, t)]
  BY <1>6, <1>7
<1> QED  BY <1>8

-----------------------------------------------------------------------------
(* How many siblings a verifier expects.                                     *)

LengthEquation(f, n) ==
  [index \in 0..(n - 1) |->
     LET k == Split(n) IN
     IF n <= 1 THEN 0
     ELSE 1 + (IF index < k THEN f[k][index] ELSE f[n - k][index - k])]

LEMMA LengthLocal ==
  ASSUME NEW f, NEW g, NEW n \in Nat, \A m \in Nat : m < n => f[m] = g[m]
  PROVE  LengthEquation(f, n) = LengthEquation(g, n)
<1>1. CASE n <= 1
  BY <1>1 DEF LengthEquation
<1>2. CASE n > 1
  <2>1. Split(n) \in 1..(n - 1)
    BY <1>2, SplitWithin
  <2>2. f[Split(n)] = g[Split(n)] /\ f[n - Split(n)] = g[n - Split(n)]
    BY <2>1
  <2> QED  BY <2>2 DEF LengthEquation
<1> QED  BY <1>1, <1>2

LEMMA LengthUnfolds ==
  ASSUME NEW s \in Nat
  PROVE  PathLength[s] = LengthEquation(PathLength, s)
<1> DEFINE Solves(f, n) == \A t \in Nat : t < n => f[t] = LengthEquation(f, t)
<1> HIDE DEF Solves
<1>1. \A n \in Nat : \E f : Solves(f, n)
  <2> SUFFICES ASSUME {n \in Nat : ~\E f : Solves(f, n)} # {} PROVE FALSE
    OBVIOUS
  <2>1. PICK n \in Nat : (~\E f : Solves(f, n)) /\ \A m \in Nat : m < n => \E f : Solves(f, m)
    <3> DEFINE Bad == {n \in Nat : ~\E f : Solves(f, n)}
    <3>1. PICK n \in Bad : \A m \in Bad : n <= m
      BY LeastExists
    <3>2. \A m \in Nat : m < n => m \notin Bad
      BY <3>1
    <3> QED  BY <3>1, <3>2, Zenon
  <2>2. n # 0
    <3>1. \A f, t : t \in Nat => ~(t < 0)
      OBVIOUS
    <3> QED  BY <2>1, <3>1 DEF Solves
  <2>3. PICK f : Solves(f, n - 1)
    BY <2>1, <2>2
  <2> DEFINE g == [t \in Nat |-> LengthEquation(f, t)]
  <2>4. ASSUME NEW t \in Nat, t < n PROVE g[t] = LengthEquation(g, t)
    <3>1. \A u \in Nat : u < t => f[u] = g[u]
      BY <2>3, <2>4 DEF Solves
    <3> QED  BY <3>1, LengthLocal
  <2> QED  BY <2>1, <2>4 DEF Solves
<1>2. ASSUME NEW f, NEW g, NEW n \in Nat, NEW m \in Nat, Solves(f, n), Solves(g, m),
             NEW t \in Nat, t < n, t < m
      PROVE  f[t] = g[t]
  <2> DEFINE Bad == {l \in Nat : \E u \in Nat :
                                   u = l /\ l < n /\ l < m /\ f[u] # g[u]}
  <2> SUFFICES ASSUME Bad # {} PROVE FALSE
    BY <1>2
  <2>1. PICK l \in Bad : \A k \in Bad : l <= k
    BY LeastExists
  <2>2. PICK u \in Nat : u = l /\ l < n /\ l < m /\ f[u] # g[u]
    BY <2>1
  <2>3. ASSUME NEW v \in Nat, v < u PROVE f[v] = g[v]
    BY <2>1, <2>2, <2>3
  <2>4. LengthEquation(f, u) = LengthEquation(g, u)
    BY <2>3, LengthLocal
  <2> QED  BY <1>2, <2>2, <2>4 DEF Solves
<1> DEFINE G == [n \in Nat |-> CHOOSE f : Solves(f, n)]
           F == [t \in Nat |-> G[t + 1][t]]
<1>3. \A n \in Nat : Solves(G[n], n)
  BY <1>1
<1>4. ASSUME NEW t \in Nat PROVE F[t] = LengthEquation(F, t)
  <2>1. t \in Nat /\ t + 1 \in Nat /\ Solves(G[t + 1], t + 1)
    BY <1>3
  <2>2. ASSUME NEW u \in Nat, u < t PROVE F[u] = G[t + 1][u]
    <3>1. u + 1 \in Nat /\ Solves(G[u + 1], u + 1)
      BY <1>3
    <3> QED  BY <1>2, <2>1, <2>2, <3>1
  <2>3. PICK g : g = G[t + 1]
    OBVIOUS
  <2>4. F[t] = g[t] /\ g[t] = LengthEquation(g, t)
    BY <2>1, <2>3 DEF Solves
  <2> HIDE DEF F
  <2>5. LengthEquation(F, t) = LengthEquation(g, t)
    BY <2>2, <2>3, LengthLocal
  <2> QED  BY <2>4, <2>5
<1> HIDE DEF F
<1>5. F = [t \in Nat |-> F[t]]
  BY DEF F
<1>6. F = [t \in Nat |-> LengthEquation(F, t)]
  BY <1>4, <1>5
<1>7. PathLength = CHOOSE f : f = [t \in Nat |-> LengthEquation(f, t)]
  BY DEF PathLength, LengthEquation
<1>8. PathLength = [t \in Nat |-> LengthEquation(PathLength, t)]
  BY <1>6, <1>7
<1> QED  BY <1>8

-----------------------------------------------------------------------------
(* The root a verifier rebuilds.                                             *)

RebuildEquation(hash, path, f, n) ==
  [index \in 0..(n - 1) |-> [position \in Int |->
     LET k == Split(n) IN
     IF n <= 1 THEN hash
     ELSE IF index < k
     THEN node_hash(f[k][index][position - 1], path[position])
     ELSE node_hash(path[position], f[n - k][index - k][position - 1])]]

LEMMA RebuildLocal ==
  ASSUME NEW hash, NEW path, NEW f, NEW g, NEW n \in Nat, \A m \in Nat : m < n => f[m] = g[m]
  PROVE  RebuildEquation(hash, path, f, n) = RebuildEquation(hash, path, g, n)
<1>1. CASE n <= 1
  BY <1>1 DEF RebuildEquation
<1>2. CASE n > 1
  <2>1. Split(n) \in 1..(n - 1)
    BY <1>2, SplitWithin
  <2>2. f[Split(n)] = g[Split(n)] /\ f[n - Split(n)] = g[n - Split(n)]
    BY <2>1
  <2> QED  BY <2>2 DEF RebuildEquation
<1> QED  BY <1>1, <1>2

LEMMA RebuildUnfolds ==
  ASSUME NEW hash, NEW path, NEW s \in Nat
  PROVE  RebuildRoot(hash, path)[s] = RebuildEquation(hash, path, RebuildRoot(hash, path), s)
<1> DEFINE Solves(f, n) == \A t \in Nat : t < n => f[t] = RebuildEquation(hash, path, f, t)
<1> HIDE DEF Solves
<1>1. \A n \in Nat : \E f : Solves(f, n)
  <2> SUFFICES ASSUME {n \in Nat : ~\E f : Solves(f, n)} # {} PROVE FALSE
    OBVIOUS
  <2>1. PICK n \in Nat : (~\E f : Solves(f, n)) /\ \A m \in Nat : m < n => \E f : Solves(f, m)
    <3> DEFINE Bad == {n \in Nat : ~\E f : Solves(f, n)}
    <3>1. PICK n \in Bad : \A m \in Bad : n <= m
      BY LeastExists
    <3>2. \A m \in Nat : m < n => m \notin Bad
      BY <3>1
    <3> QED  BY <3>1, <3>2, Zenon
  <2>2. n # 0
    <3>1. \A f, t : t \in Nat => ~(t < 0)
      OBVIOUS
    <3> QED  BY <2>1, <3>1 DEF Solves
  <2>3. PICK f : Solves(f, n - 1)
    BY <2>1, <2>2
  <2> DEFINE g == [t \in Nat |-> RebuildEquation(hash, path, f, t)]
  <2>4. ASSUME NEW t \in Nat, t < n PROVE g[t] = RebuildEquation(hash, path, g, t)
    <3>1. \A u \in Nat : u < t => f[u] = g[u]
      BY <2>3, <2>4 DEF Solves
    <3> QED  BY <3>1, RebuildLocal
  <2> QED  BY <2>1, <2>4 DEF Solves
<1>2. ASSUME NEW f, NEW g, NEW n \in Nat, NEW m \in Nat, Solves(f, n), Solves(g, m),
             NEW t \in Nat, t < n, t < m
      PROVE  f[t] = g[t]
  <2> DEFINE Bad == {l \in Nat : \E u \in Nat :
                                   u = l /\ l < n /\ l < m /\ f[u] # g[u]}
  <2> SUFFICES ASSUME Bad # {} PROVE FALSE
    BY <1>2
  <2>1. PICK l \in Bad : \A k \in Bad : l <= k
    BY LeastExists
  <2>2. PICK u \in Nat : u = l /\ l < n /\ l < m /\ f[u] # g[u]
    BY <2>1
  <2>3. ASSUME NEW v \in Nat, v < u PROVE f[v] = g[v]
    BY <2>1, <2>2, <2>3
  <2>4. RebuildEquation(hash, path, f, u) = RebuildEquation(hash, path, g, u)
    BY <2>3, RebuildLocal
  <2> QED  BY <1>2, <2>2, <2>4 DEF Solves
<1> DEFINE G == [n \in Nat |-> CHOOSE f : Solves(f, n)]
           F == [t \in Nat |-> G[t + 1][t]]
<1>3. \A n \in Nat : Solves(G[n], n)
  BY <1>1
<1>4. ASSUME NEW t \in Nat PROVE F[t] = RebuildEquation(hash, path, F, t)
  <2>1. t \in Nat /\ t + 1 \in Nat /\ Solves(G[t + 1], t + 1)
    BY <1>3
  <2>2. ASSUME NEW u \in Nat, u < t PROVE F[u] = G[t + 1][u]
    <3>1. u + 1 \in Nat /\ Solves(G[u + 1], u + 1)
      BY <1>3
    <3> QED  BY <1>2, <2>1, <2>2, <3>1
  <2>3. PICK g : g = G[t + 1]
    OBVIOUS
  <2>4. F[t] = g[t] /\ g[t] = RebuildEquation(hash, path, g, t)
    BY <2>1, <2>3 DEF Solves
  <2> HIDE DEF F
  <2>5. RebuildEquation(hash, path, F, t) = RebuildEquation(hash, path, g, t)
    BY <2>2, <2>3, RebuildLocal
  <2> QED  BY <2>4, <2>5
<1> HIDE DEF F
<1>5. F = [t \in Nat |-> F[t]]
  BY DEF F
<1>6. F = [t \in Nat |-> RebuildEquation(hash, path, F, t)]
  BY <1>4, <1>5
<1>7. RebuildRoot(hash, path) = CHOOSE f : f = [t \in Nat |-> RebuildEquation(hash, path, f, t)]
  BY DEF RebuildRoot, RebuildEquation
<1>8. RebuildRoot(hash, path) = [t \in Nat |-> RebuildEquation(hash, path, RebuildRoot(hash, path), t)]
  BY <1>6, <1>7
<1> QED  BY <1>8

-----------------------------------------------------------------------------
(* The same equations, argument by argument.                                 *)

LEMMA RebuildLeaf ==
  ASSUME NEW hash, NEW path, NEW index \in 0..0, NEW position \in Int
  PROVE  RebuildRoot(hash, path)[1][index][position] = hash
<1>1. PICK f : f = RebuildRoot(hash, path)
  OBVIOUS
<1>2. f[1] = RebuildEquation(hash, path, f, 1)
  BY <1>1, RebuildUnfolds
<1> QED  BY <1>1, <1>2 DEF RebuildEquation

LEMMA RebuildLeft ==
  ASSUME NEW hash, NEW path, NEW n \in Nat, n > 1, NEW index \in 0..(n - 1), NEW position \in Int,
         index < Split(n)
  PROVE  RebuildRoot(hash, path)[n][index][position]
           = node_hash(RebuildRoot(hash, path)[Split(n)][index][position - 1], path[position])
<1>1. PICK f : f = RebuildRoot(hash, path)
  OBVIOUS
<1>2. f[n] = RebuildEquation(hash, path, f, n)
  BY <1>1, RebuildUnfolds
<1>3. ~(n <= 1)
  OBVIOUS
<1> QED  BY <1>1, <1>2, <1>3 DEF RebuildEquation

LEMMA RebuildRight ==
  ASSUME NEW hash, NEW path, NEW n \in Nat, n > 1, NEW index \in 0..(n - 1), NEW position \in Int,
         ~(index < Split(n))
  PROVE  RebuildRoot(hash, path)[n][index][position]
           = node_hash(path[position],
                       RebuildRoot(hash, path)[n - Split(n)][index - Split(n)][position - 1])
<1>1. PICK f : f = RebuildRoot(hash, path)
  OBVIOUS
<1>2. f[n] = RebuildEquation(hash, path, f, n)
  BY <1>1, RebuildUnfolds
<1>3. ~(n <= 1)
  OBVIOUS
<1> QED  BY <1>1, <1>2, <1>3 DEF RebuildEquation

LEMMA AuditSteps ==
  ASSUME NEW s \in Seq(Data), NEW index \in 0..(Len(s) - 1)
  PROVE  LET k == Split(Len(s)) IN
         /\ Len(s) <= 1 => AuditPath[s][index] = <<>>
         /\ (Len(s) > 1 /\ index < k) =>
              AuditPath[s][index] = Append(AuditPath[Left(s)][index], Mth[Right(s)])
         /\ (Len(s) > 1 /\ ~(index < k)) =>
              AuditPath[s][index] = Append(AuditPath[Right(s)][index - k], Mth[Left(s)])
<1>1. Len(s) \in Nat /\ (Len(s) > 1 => ~(Len(s) <= 1))
  OBVIOUS
<1> QED  BY <1>1, AuditUnfolds DEF AuditEquation

LEMMA LengthSteps ==
  ASSUME NEW n \in Nat, NEW index \in 0..(n - 1)
  PROVE  /\ n <= 1 => PathLength[n][index] = 0
         /\ (n > 1 /\ index < Split(n)) => PathLength[n][index] = 1 + PathLength[Split(n)][index]
         /\ (n > 1 /\ ~(index < Split(n))) =>
              PathLength[n][index] = 1 + PathLength[n - Split(n)][index - Split(n)]
<1>1. PICK f : f = PathLength
  OBVIOUS
<1>2. f[n] = LengthEquation(f, n)
  BY <1>1, LengthUnfolds
<1>3. CASE n <= 1
  BY <1>1, <1>2, <1>3 DEF LengthEquation
<1>4. CASE n > 1
  BY <1>1, <1>2, <1>4 DEF LengthEquation
<1> QED  BY <1>3, <1>4

LEMMA Sizes ==
  ASSUME NEW s \in Seq(Data)
  PROVE  /\ Len(s) \in Nat
         /\ s = <<>> <=> Len(s) = 0
         /\ s = <<>> \/ Len(s) = 1 \/ Len(s) > 1
<1>1. Len(s) \in Nat
  BY LenProperties
<1>2. s = <<>> <=> Len(s) = 0
  BY EmptySeq
<1>3. PICK n \in Nat : n = Len(s)
  BY <1>1
<1>4. n = 0 \/ n = 1 \/ n > 1
  OBVIOUS
<1> QED  BY <1>2, <1>3, <1>4

LEMMA MthEmpty ==
  ASSUME NEW s \in Seq(Data), s = <<>>
  PROVE  Mth[s] = EmptyHash
<1>1. PICK f : f = Mth
  OBVIOUS
<1>2. f[s] = MthEquation(f, s)
  BY <1>1, MthUnfolds
<1> QED  BY <1>1, <1>2 DEF MthEquation

LEMMA MthLeaf ==
  ASSUME NEW s \in Seq(Data), Len(s) = 1
  PROVE  Mth[s] = leaf_hash(s[1])
<1>1. PICK f : f = Mth
  OBVIOUS
<1>2. f[s] = MthEquation(f, s)
  BY <1>1, MthUnfolds
<1>3. s # <<>>
  BY EmptySeq
<1> QED  BY <1>1, <1>2, <1>3 DEF MthEquation

LEMMA MthNode ==
  ASSUME NEW s \in Seq(Data), Len(s) > 1
  PROVE  Mth[s] = node_hash(Mth[Left(s)], Mth[Right(s)])
<1>1. PICK f : f = Mth
  OBVIOUS
<1>2. f[s] = MthEquation(f, s)
  BY <1>1, MthUnfolds
<1>3. s # <<>> /\ Len(s) # 1
  <2>1. PICK n \in Nat : n = Len(s)
    BY Sizes
  <2>2. n # 0 /\ n # 1
    BY <2>1
  <2> QED  BY <2>1, <2>2, EmptySeq
<1> QED  BY <1>1, <1>2, <1>3 DEF MthEquation

\* The three kinds of hashes are told apart, and each tells what it hashes.
LEMMA NodesDiffer ==
  ASSUME NEW a, NEW b, NEW c, NEW d, node_hash(a, b) = node_hash(c, d)
  PROVE  a = c /\ b = d
BY DEF node_hash

LEMMA LeavesDiffer ==
  ASSUME NEW a, NEW b, leaf_hash(a) = leaf_hash(b)
  PROVE  a = b
BY DEF leaf_hash

LEMMA KindsDiffer ==
  /\ \A a, b, c : node_hash(a, b) # leaf_hash(c)
  /\ \A a, b : node_hash(a, b) # EmptyHash
  /\ \A a : leaf_hash(a) # EmptyHash
BY DEF node_hash, leaf_hash, EmptyHash

-----------------------------------------------------------------------------
(* A root commits to its leaves.                                             *)

LEMMA HalvesDetermine ==
  ASSUME NEW s \in Seq(Data), NEW t \in Seq(Data), Len(s) > 1, Len(t) > 1,
         Left(s) = Left(t), Right(s) = Right(t)
  PROVE  s = t
<1>1. PICK k : k = Split(Len(s))
  OBVIOUS
<1>2. /\ k \in 1..(Len(s) - 1) /\ Len(Left(s)) = k /\ Len(Right(s)) = Len(s) - k
      /\ \A i \in 1..k : Left(s)[i] = s[i]
      /\ \A i \in 1..(Len(s) - k) : Right(s)[i] = s[k + i]
  BY <1>1, Halves
<1>3. PICK l : l = Split(Len(t))
  OBVIOUS
<1>4. /\ l \in 1..(Len(t) - 1) /\ Len(Left(t)) = l /\ Len(Right(t)) = Len(t) - l
      /\ \A i \in 1..l : Left(t)[i] = t[i]
      /\ \A i \in 1..(Len(t) - l) : Right(t)[i] = t[l + i]
  BY <1>3, Halves
<1>5. k = l /\ Len(s) = Len(t) /\ Len(s) \in Nat
  <2>1. k = l /\ Len(s) - k = Len(t) - l
    BY <1>2, <1>4
  <2>2. Len(s) \in Nat /\ Len(t) \in Nat
    OBVIOUS
  <2> QED  BY <1>2, <2>1, <2>2
<1>6. ASSUME NEW i \in 1..Len(s) PROVE s[i] = t[i]
  <2>1. CASE i <= k
    <3>1. i \in 1..k
      BY <1>2, <2>1
    <3> QED  BY <1>2, <1>4, <1>5, <3>1
  <2>2. CASE i > k
    <3>1. i - k \in 1..(Len(s) - k) /\ k + (i - k) = i
      BY <1>2, <1>5, <2>2
    <3>2. Right(s)[i - k] = s[i] /\ Right(t)[i - k] = t[i]
      BY <1>2, <1>4, <1>5, <3>1
    <3> QED  BY <3>2
  <2> QED  BY <1>2, <2>1, <2>2
<1> QED  BY <1>5, <1>6, SeqEqual

\* The kind of its root tells how many leaves a tree has: none, one or more.
LEMMA KindOfRoot ==
  ASSUME NEW s \in Seq(Data)
  PROVE  /\ Mth[s] = EmptyHash => s = <<>>
         /\ (\E a : Mth[s] = leaf_hash(a)) => Len(s) = 1
         /\ (\E a, b : Mth[s] = node_hash(a, b)) => Len(s) > 1
<1>1. s = <<>> \/ Len(s) = 1 \/ Len(s) > 1
  BY Sizes
<1>2. CASE s = <<>>
  <2>1. Mth[s] = EmptyHash
    BY <1>2, MthEmpty
  <2> QED  BY <1>2, <2>1, KindsDiffer
<1>3. CASE Len(s) = 1
  <2>1. Mth[s] = leaf_hash(s[1])
    BY <1>3, MthLeaf
  <2> QED  BY <1>3, <2>1, KindsDiffer
<1>4. CASE Len(s) > 1
  <2>1. PICK l, r : l = Mth[Left(s)] /\ r = Mth[Right(s)]
    OBVIOUS
  <2>2. Mth[s] = node_hash(l, r)
    BY <1>4, <2>1, MthNode
  <2> QED  BY <1>4, <2>2, KindsDiffer
<1> QED  BY <1>1, <1>2, <1>3, <1>4

LEMMA SameRoot ==
  ASSUME NEW s \in Seq(Data), NEW t \in Seq(Data), Mth[s] = Mth[t],
         \A u \in Seq(Data), v \in Seq(Data) : (Len(u) < Len(s) /\ Mth[u] = Mth[v]) => u = v
  PROVE  s = t
<1>1. s = <<>> \/ Len(s) = 1 \/ Len(s) > 1
  BY Sizes
<1>2. CASE s = <<>>
  <2>1. Mth[t] = EmptyHash
    BY <1>2, MthEmpty
  <2> QED  BY <1>2, <2>1, KindOfRoot
<1>3. CASE Len(s) = 1
  <2>1. Mth[s] = leaf_hash(s[1])
    BY <1>3, MthLeaf
  <2>2. Len(t) = 1
    BY <2>1, KindOfRoot
  <2>3. Mth[t] = leaf_hash(t[1])
    BY <2>2, MthLeaf
  <2>4. s[1] = t[1]
    BY <2>1, <2>3, LeavesDiffer
  <2> QED  BY <1>3, <2>2, <2>4, SeqEqual
<1>4. CASE Len(s) > 1
  <2>1. PICK l, r : l = Mth[Left(s)] /\ r = Mth[Right(s)]
    OBVIOUS
  <2>2. Mth[s] = node_hash(l, r)
    BY <1>4, <2>1, MthNode
  <2>3. Len(t) > 1
    BY <2>2, KindOfRoot
  <2>4. PICK m, q : m = Mth[Left(t)] /\ q = Mth[Right(t)]
    OBVIOUS
  <2>5. Mth[t] = node_hash(m, q)
    BY <2>3, <2>4, MthNode
  <2>6. l = m /\ r = q
    BY <2>2, <2>5, NodesDiffer
  <2>7. /\ Left(s) \in Seq(Data) /\ Right(s) \in Seq(Data)
        /\ Len(Left(s)) < Len(s) /\ Len(Right(s)) < Len(s)
    <3>1. PICK k : k = Split(Len(s))
      OBVIOUS
    <3>2. /\ Left(s) \in Seq(Data) /\ Len(Left(s)) = k
          /\ Right(s) \in Seq(Data) /\ Len(Right(s)) = Len(s) - k
          /\ k \in 1..(Len(s) - 1)
      BY <1>4, <3>1, Halves
    <3> QED  BY <3>2, Sizes
  <2>8. Left(t) \in Seq(Data) /\ Right(t) \in Seq(Data)
    BY <2>3, Halves
  <2>9. Left(s) = Left(t) /\ Right(s) = Right(t)
    BY <2>1, <2>4, <2>6, <2>7, <2>8
  <2> QED  BY <1>4, <2>3, <2>9, HalvesDetermine
<1> QED  BY <1>1, <1>2, <1>3, <1>4

LEMMA RootsDiffer ==
  ASSUME NEW s \in Seq(Data), NEW t \in Seq(Data), Mth[s] = Mth[t]
  PROVE  s = t
<1> DEFINE Bad == {n \in Nat : \E u \in Seq(Data), v \in Seq(Data) :
                                 Len(u) = n /\ Mth[u] = Mth[v] /\ u # v}
<1> SUFFICES ASSUME Bad # {} PROVE FALSE
  OBVIOUS
<1>1. PICK n \in Bad : \A m \in Bad : n <= m
  BY LeastExists
<1>2. PICK u \in Seq(Data), v \in Seq(Data) : Len(u) = n /\ Mth[u] = Mth[v] /\ u # v
  BY <1>1
<1>3. \A x \in Seq(Data), y \in Seq(Data) : (Len(x) < Len(u) /\ Mth[x] = Mth[y]) => x = y
  <2> SUFFICES ASSUME NEW x \in Seq(Data), NEW y \in Seq(Data), Len(x) < Len(u),
                      Mth[x] = Mth[y], x # y
               PROVE  FALSE
    OBVIOUS
  <2>1. Len(x) \in Nat /\ n \in Nat
    BY Sizes
  <2>2. Len(x) \in Bad
    BY <2>1
  <2> QED  BY <1>1, <1>2, <2>1, <2>2
<1> QED  BY <1>2, <1>3, SameRoot

-----------------------------------------------------------------------------
(* A proof that verifies is true.                                            *)

Shows(data, path, s) ==
  \A index \in 0..(Len(s) - 1), position \in Int :
    RebuildRoot(leaf_hash(data), path)[Len(s)][index][position] = Mth[s] => s[index + 1] = data

LEMMA ShowsOn ==
  ASSUME NEW data, NEW path, NEW s \in Seq(Data),
         \A t \in Seq(Data) : Len(t) < Len(s) => Shows(data, path, t)
  PROVE  Shows(data, path, s)
<1> SUFFICES ASSUME NEW index \in 0..(Len(s) - 1), NEW position \in Int,
                    RebuildRoot(leaf_hash(data), path)[Len(s)][index][position] = Mth[s]
             PROVE  s[index + 1] = data
  BY DEF Shows
<1>1. PICK f : f = RebuildRoot(leaf_hash(data), path)
  OBVIOUS
<1>2. PICK k : k = Split(Len(s))
  OBVIOUS
<1>3. PICK n \in Nat : n = Len(s)
  BY Sizes
<1>4. index \in 0..(n - 1) /\ f[n][index][position] = Mth[s] /\ (n = 1 \/ n > 1)
  BY <1>1, <1>3
<1>5. CASE n = 1
  <2>1. f[n][index][position] = leaf_hash(data)
    BY <1>1, <1>4, <1>5, RebuildLeaf
  <2>2. Mth[s] = leaf_hash(s[1])
    BY <1>3, <1>5, MthLeaf
  <2>3. s[1] = data
    BY <1>4, <2>1, <2>2, LeavesDiffer
  <2>4. index + 1 = 1
    BY <1>4, <1>5
  <2> QED  BY <2>3, <2>4
<1>6. CASE n > 1
  <2>1. PICK l, r : l = Mth[Left(s)] /\ r = Mth[Right(s)]
    OBVIOUS
  <2>2. Mth[s] = node_hash(l, r)
    BY <1>3, <1>6, <2>1, MthNode
  <2>3. /\ k \in 1..(n - 1)
        /\ Left(s) \in Seq(Data) /\ Len(Left(s)) = k
        /\ Right(s) \in Seq(Data) /\ Len(Right(s)) = n - k
        /\ \A i \in 1..k : Left(s)[i] = s[i]
        /\ \A i \in 1..(n - k) : Right(s)[i] = s[k + i]
    BY <1>2, <1>3, <1>6, Halves
  <2>4. position - 1 \in Int /\ k < n /\ n - k < n
    BY <2>3
  <2>5. Shows(data, path, Left(s)) /\ Shows(data, path, Right(s))
    BY <1>3, <2>3, <2>4
  <2>6. k = Split(n)
    BY <1>2, <1>3
  <2>7. CASE index < k
    <3>1. PICK below : below = f[k][index][position - 1]
      OBVIOUS
    <3>2. f[n][index][position] = node_hash(below, path[position])
      <4>1. index < Split(n)
        BY <2>7, <2>6
      <4>2. RebuildRoot(leaf_hash(data), path)[n][index][position]
              = node_hash(RebuildRoot(leaf_hash(data), path)[Split(n)][index][position - 1],
                          path[position])
        BY <1>4, <1>6, <4>1, RebuildLeft
      <4> QED  BY <1>1, <2>6, <3>1, <4>2
    <3>3. below = Mth[Left(s)]
      BY <1>4, <2>1, <2>2, <3>2, NodesDiffer
    <3>4. index \in 0..(k - 1) /\ index + 1 \in 1..k
      BY <1>4, <2>3, <2>7
    <3>5. Left(s)[index + 1] = data
      BY <1>1, <2>3, <2>4, <2>5, <3>1, <3>3, <3>4 DEF Shows
    <3> QED  BY <2>3, <3>4, <3>5
  <2>8. CASE ~(index < k)
    <3>1. PICK below : below = f[n - k][index - k][position - 1]
      OBVIOUS
    <3>2. f[n][index][position] = node_hash(path[position], below)
      <4>1. ~(index < Split(n))
        BY <2>8, <2>6
      <4>2. RebuildRoot(leaf_hash(data), path)[n][index][position]
              = node_hash(path[position],
                          RebuildRoot(leaf_hash(data), path)[n - Split(n)][index - Split(n)][position - 1])
        BY <1>4, <1>6, <4>1, RebuildRight
      <4> QED  BY <1>1, <2>6, <3>1, <4>2
    <3>3. below = Mth[Right(s)]
      BY <1>4, <2>1, <2>2, <3>2, NodesDiffer
    <3>4. PICK i : i = index - k
      OBVIOUS
    <3>5. i \in 0..(n - k - 1) /\ i + 1 \in 1..(n - k) /\ k + (i + 1) = index + 1
      BY <1>4, <2>3, <2>8, <3>4
    <3>6. Right(s)[i + 1] = data
      <4>1. RebuildRoot(leaf_hash(data), path)[Len(Right(s))][i][position - 1] = Mth[Right(s)]
        BY <1>1, <2>3, <3>1, <3>3, <3>4
      <4>2. i \in 0..(Len(Right(s)) - 1)
        BY <2>3, <3>5
      <4> QED  BY <2>4, <2>5, <4>1, <4>2 DEF Shows
    <3> QED  BY <2>3, <3>5, <3>6
  <2> QED  BY <2>7, <2>8
<1> QED  BY <1>4, <1>5, <1>6

LEMMA RebuiltShows ==
  ASSUME NEW data, NEW path, NEW s \in Seq(Data)
  PROVE  Shows(data, path, s)
<1> DEFINE Bad == {n \in Nat : \E t \in Seq(Data) : Len(t) = n /\ ~Shows(data, path, t)}
<1> SUFFICES ASSUME Bad # {} PROVE FALSE
  OBVIOUS
<1>1. PICK n \in Bad : \A m \in Bad : n <= m
  BY LeastExists
<1>2. PICK t \in Seq(Data) : Len(t) = n /\ ~Shows(data, path, t)
  BY <1>1
<1>3. ASSUME NEW u \in Seq(Data), Len(u) < Len(t) PROVE Shows(data, path, u)
  <2>1. Len(u) \in Nat /\ n \in Nat
    BY Sizes
  <2>2. Len(u) \notin Bad
    BY <1>1, <1>2, <1>3, <2>1
  <2> QED  BY <2>1, <2>2
<1> QED  BY <1>2, <1>3, ShowsOn

-----------------------------------------------------------------------------
(* The path handed out for a leaf leads back to the root.                    *)

Siblings == {Mth[t] : t \in Seq(Data)}

\* path holds, from the leaf up, the siblings P; what it holds beyond them does
\* not matter.
Leads(P, s, index) ==
  \A path : (\A j \in 1..Len(P) : path[j] = P[j]) =>
    RebuildRoot(leaf_hash(s[index + 1]), path)[Len(s)][index][Len(P)] = Mth[s]

GoodPath(P, s, index) ==
  /\ P \in Seq(Siblings)
  /\ Len(P) = PathLength[Len(s)][index]
  /\ Leads(P, s, index)

LEMMA GoodPathOfLeaf ==
  ASSUME NEW s \in Seq(Data), Len(s) = 1, NEW index \in 0..(Len(s) - 1)
  PROVE  GoodPath(AuditPath[s][index], s, index)
<1>1. index = 0 /\ index \in 0..0
  OBVIOUS
<1>2. AuditPath[s][index] = <<>>
  <2>1. Len(s) <= 1
    OBVIOUS
  <2> QED  BY <2>1, AuditSteps
<1>3. PathLength[1][index] = 0
  BY <1>1, LengthSteps
<1>4. Mth[s] = leaf_hash(s[1])
  BY MthLeaf
<1>5. ASSUME NEW path
      PROVE  RebuildRoot(leaf_hash(s[1]), path)[1][index][0] = leaf_hash(s[1])
  BY <1>1, RebuildLeaf
<1>6. Leads(<<>>, s, index)
  BY <1>1, <1>4, <1>5 DEF Leads
<1> QED  BY <1>2, <1>3, <1>6 DEF GoodPath

\* One sibling more, for a subtree that is its parent's left half.
LEMMA GoodPathOnLeft ==
  ASSUME NEW s \in Seq(Data), Len(s) > 1, NEW index \in 0..(Len(s) - 1), index < Split(Len(s)),
         GoodPath(AuditPath[Left(s)][index], Left(s), index)
  PROVE  GoodPath(AuditPath[s][index], s, index)
<1>1. PICK k : k = Split(Len(s))
  OBVIOUS
<1>2. PICK n \in Nat : n = Len(s)
  BY Sizes
<1>3. PICK l, r : l = Left(s) /\ r = Right(s)
  OBVIOUS
<1>4. /\ k \in 1..(n - 1) /\ l \in Seq(Data) /\ Len(l) = k /\ r \in Seq(Data)
      /\ \A i \in 1..k : l[i] = s[i]
  BY <1>1, <1>2, <1>3, Halves
<1>5. index \in 0..(k - 1) /\ index + 1 \in 1..k
  BY <1>1, <1>2, <1>4
<1>6. PICK Q, P : Q = AuditPath[l][index] /\ P = AuditPath[s][index]
  OBVIOUS
<1>7. P = Append(Q, Mth[r])
  BY <1>3, <1>6, AuditSteps
<1>8. Q \in Seq(Siblings) /\ Len(Q) = PathLength[k][index] /\ Leads(Q, l, index)
  BY <1>3, <1>4, <1>6 DEF GoodPath
<1>9. PICK m \in Nat : m = Len(Q)
  BY <1>8, LenProperties
<1>10. Mth[r] \in Siblings
  BY <1>4 DEF Siblings
<1>11. /\ P \in Seq(Siblings) /\ Len(P) = m + 1 /\ P[m + 1] = Mth[r]
       /\ \A j \in 1..m : P[j] = Q[j]
  BY <1>7, <1>8, <1>9, <1>10, AppendProperties
<1>12. PathLength[n][index] = m + 1
  <2>1. PathLength[n][index] = 1 + PathLength[k][index]
    BY <1>1, <1>2, LengthSteps
  <2> QED  BY <1>8, <1>9, <2>1
<1>13. ASSUME NEW path, \A j \in 1..Len(P) : path[j] = P[j]
       PROVE  RebuildRoot(leaf_hash(s[index + 1]), path)[n][index][m + 1] = Mth[s]
  <2>1. PICK h : h = leaf_hash(s[index + 1])
    OBVIOUS
  <2>2. h = leaf_hash(l[index + 1])
    BY <1>4, <1>5, <2>1
  <2>3. \A j \in 1..m : path[j] = Q[j]
    BY <1>11, <1>13
  <2>4. RebuildRoot(h, path)[k][index][m] = Mth[l]
    BY <1>4, <1>8, <1>9, <2>2, <2>3 DEF Leads
  <2>5. path[m + 1] = Mth[r]
    BY <1>11, <1>13
  <2>6. RebuildRoot(h, path)[n][index][m + 1]
          = node_hash(RebuildRoot(h, path)[Split(n)][index][m + 1 - 1], path[m + 1])
    BY <1>2, RebuildLeft
  <2>7. m + 1 - 1 = m /\ Split(n) = k
    BY <1>1, <1>2
  <2>8. Mth[s] = node_hash(Mth[l], Mth[r])
    BY <1>3, MthNode
  <2> QED  BY <2>1, <2>4, <2>5, <2>6, <2>7, <2>8
<1>14. Leads(P, s, index)
  BY <1>2, <1>11, <1>13 DEF Leads
<1> QED  BY <1>2, <1>6, <1>11, <1>12, <1>14 DEF GoodPath

\* The same for its right half.
LEMMA GoodPathOnRight ==
  ASSUME NEW s \in Seq(Data), Len(s) > 1, NEW index \in 0..(Len(s) - 1), ~(index < Split(Len(s))),
         GoodPath(AuditPath[Right(s)][index - Split(Len(s))], Right(s), index - Split(Len(s)))
  PROVE  GoodPath(AuditPath[s][index], s, index)
<1>1. PICK k : k = Split(Len(s))
  OBVIOUS
<1>2. PICK n \in Nat : n = Len(s)
  BY Sizes
<1>3. PICK l, r : l = Left(s) /\ r = Right(s)
  OBVIOUS
<1>4. /\ k \in 1..(n - 1) /\ l \in Seq(Data) /\ r \in Seq(Data) /\ Len(r) = n - k
      /\ \A i \in 1..(n - k) : r[i] = s[k + i]
  BY <1>1, <1>2, <1>3, Halves
<1>5. PICK x : x = index - k
  OBVIOUS
<1>6. x \in 0..(n - k - 1) /\ x + 1 \in 1..(n - k) /\ k + (x + 1) = index + 1
  <2>1. index \in 0..(n - 1) /\ ~(index < k)
    BY <1>1, <1>2
  <2> QED  BY <1>4, <1>5, <2>1
<1>7. PICK Q, P : Q = AuditPath[r][x] /\ P = AuditPath[s][index]
  OBVIOUS
<1>8. P = Append(Q, Mth[l])
  BY <1>1, <1>3, <1>5, <1>7, AuditSteps
<1>9. Q \in Seq(Siblings) /\ Len(Q) = PathLength[n - k][x] /\ Leads(Q, r, x)
  BY <1>1, <1>3, <1>4, <1>5, <1>7 DEF GoodPath
<1>10. PICK m \in Nat : m = Len(Q)
  BY <1>9, LenProperties
<1>11. Mth[l] \in Siblings
  BY <1>4 DEF Siblings
<1>12. /\ P \in Seq(Siblings) /\ Len(P) = m + 1 /\ P[m + 1] = Mth[l]
       /\ \A j \in 1..m : P[j] = Q[j]
  BY <1>8, <1>9, <1>10, <1>11, AppendProperties
<1>13. PathLength[n][index] = m + 1
  <2>1. PathLength[n][index] = 1 + PathLength[n - k][x]
    BY <1>1, <1>2, <1>5, LengthSteps
  <2> QED  BY <1>9, <1>10, <2>1
<1>14. ASSUME NEW path, \A j \in 1..Len(P) : path[j] = P[j]
       PROVE  RebuildRoot(leaf_hash(s[index + 1]), path)[n][index][m + 1] = Mth[s]
  <2>1. PICK h : h = leaf_hash(s[index + 1])
    OBVIOUS
  <2>2. h = leaf_hash(r[x + 1])
    <3>1. r[x + 1] = s[k + (x + 1)]
      BY <1>4, <1>6
    <3> QED  BY <1>6, <2>1, <3>1
  <2>3. \A j \in 1..m : path[j] = Q[j]
    BY <1>12, <1>14
  <2>4. RebuildRoot(h, path)[n - k][x][m] = Mth[r]
    BY <1>4, <1>9, <1>10, <2>2, <2>3 DEF Leads
  <2>5. path[m + 1] = Mth[l]
    BY <1>12, <1>14
  <2>6. RebuildRoot(h, path)[n][index][m + 1]
          = node_hash(path[m + 1],
                      RebuildRoot(h, path)[n - Split(n)][index - Split(n)][m + 1 - 1])
    BY <1>2, RebuildRight
  <2>7. m + 1 - 1 = m /\ Split(n) = k
    BY <1>1, <1>2
  <2>8. Mth[s] = node_hash(Mth[l], Mth[r])
    BY <1>3, MthNode
  <2> QED  BY <1>5, <2>1, <2>4, <2>5, <2>6, <2>7, <2>8
<1>15. Leads(P, s, index)
  BY <1>2, <1>12, <1>14 DEF Leads
<1> QED  BY <1>2, <1>7, <1>12, <1>13, <1>15 DEF GoodPath

PathsGood(s) == \A index \in 0..(Len(s) - 1) : GoodPath(AuditPath[s][index], s, index)

LEMMA PathsGoodStep ==
  ASSUME NEW s \in Seq(Data), \A t \in Seq(Data) : Len(t) < Len(s) => PathsGood(t)
  PROVE  PathsGood(s)
<1> SUFFICES ASSUME NEW index \in 0..(Len(s) - 1)
             PROVE  GoodPath(AuditPath[s][index], s, index)
  BY DEF PathsGood
<1>1. PICK k : k = Split(Len(s))
  OBVIOUS
<1>2. PICK n \in Nat : n = Len(s)
  BY Sizes
<1>3. n = 1 \/ n > 1
  BY <1>2
<1>4. CASE n = 1
  BY <1>2, <1>4, GoodPathOfLeaf
<1>5. CASE n > 1
  <2>1. PICK l, r : l = Left(s) /\ r = Right(s)
    OBVIOUS
  <2>2. /\ k \in 1..(n - 1) /\ l \in Seq(Data) /\ Len(l) = k
        /\ r \in Seq(Data) /\ Len(r) = n - k
    BY <1>1, <1>2, <1>5, <2>1, Halves
  <2>3. k < n /\ n - k < n
    BY <2>2
  <2>4. PathsGood(l) /\ PathsGood(r)
    BY <1>2, <2>2, <2>3
  <2>5. CASE index < k
    <3>1. index \in 0..(k - 1)
      BY <1>2, <2>2, <2>5
    <3>2. GoodPath(AuditPath[l][index], l, index)
      BY <2>2, <2>4, <3>1 DEF PathsGood
    <3> QED  BY <1>1, <1>2, <1>5, <2>1, <2>5, <3>2, GoodPathOnLeft
  <2>6. CASE ~(index < k)
    <3>1. index - k \in 0..(n - k - 1)
      BY <1>2, <2>2, <2>6
    <3>2. GoodPath(AuditPath[r][index - k], r, index - k)
      BY <2>2, <2>4, <3>1 DEF PathsGood
    <3> QED  BY <1>1, <1>2, <1>5, <2>1, <2>6, <3>2, GoodPathOnRight
  <2> QED  BY <2>5, <2>6
<1> QED  BY <1>3, <1>4, <1>5

LEMMA AllPathsGood ==
  ASSUME NEW s \in Seq(Data)
  PROVE  PathsGood(s)
<1> DEFINE Bad == {n \in Nat : \E t \in Seq(Data) : Len(t) = n /\ ~PathsGood(t)}
<1> SUFFICES ASSUME Bad # {} PROVE FALSE
  <2>1. Len(s) \in Nat
    BY Sizes
  <2> QED  BY <2>1
<1>1. PICK n \in Bad : \A m \in Bad : n <= m
  BY LeastExists
<1>2. PICK t \in Seq(Data) : Len(t) = n /\ ~PathsGood(t)
  BY <1>1
<1>3. ASSUME NEW u \in Seq(Data), Len(u) < Len(t) PROVE PathsGood(u)
  <2>1. Len(u) \in Nat /\ n \in Nat
    BY Sizes
  <2>2. Len(u) \notin Bad
    BY <1>1, <1>2, <1>3, <2>1
  <2> QED  BY <2>1, <2>2
<1> QED  BY <1>2, <1>3, PathsGoodStep

-----------------------------------------------------------------------------
(* The theorems.  The leaves of the checkpoint are a sequence of leaf data;  *)
(* nothing else of the states is needed.                                     *)

Typed == leaves \in Seq(Data)

LEMMA LeavesTyped == Spec => []Typed
<1>1. Init => Typed
  BY EmptySeq DEF Init, Typed
<1>2. Typed /\ [Next]_vars => Typed'
  <2> SUFFICES ASSUME leaves \in Seq(Data), [Next]_vars PROVE leaves' \in Seq(Data)
    BY DEF Typed
  <2>1. ASSUME NEW data \in Data, AddLeaf(data) PROVE leaves' \in Seq(Data)
    BY <2>1, AppendProperties DEF AddLeaf
  <2>2. CASE UNCHANGED vars
    BY <2>2 DEF vars
  <2> QED  BY <2>1, <2>2 DEF Next
<1> QED  BY <1>1, <1>2, PTL DEF Spec

\* The schema of a checkpoint is one of the three there are.
SchemaKnown == schema \in Schemas

LEMMA SchemaTyped == Spec => []SchemaKnown
<1>1. Init => SchemaKnown
  BY DEF Init, SchemaKnown
<1>2. SchemaKnown /\ [Next]_vars => SchemaKnown'
  BY DEF SchemaKnown, Next, AddLeaf, vars
<1> QED  BY <1>1, <1>2, PTL DEF Spec

\* A root commits to its leaves: no two different sequences of leaves, of
\* whatever length, have the same root (_mth, merkle_tree.py:64-75).
THEOREM RootCommitsToLeaves == Spec => []RootCommits
<1>1. Typed => RootCommits
  <2> SUFFICES ASSUME leaves \in Seq(Data), NEW n \in 0..MaxLeaves, NEW other \in [1..n -> Data],
                      Root(other) = Root(leaves)
               PROVE  other = leaves
    BY DEF RootCommits, Typed
  <2>1. other \in Seq(Data)
    <3>1. n \in Nat
      BY TreeAssumption
    <3> QED  BY <3>1, SeqDef
  <2>2. Mth[other] = Mth[leaves]
    BY DEF Root
  <2> QED  BY <2>1, <2>2, RootsDiffer
<1> QED  BY <1>1, LeavesTyped, PTL

\* What a header has in its fields.
LEMMA HeaderFields ==
  /\ Header.schema_version = schema /\ Header.kind = "merkle_checkpoint"
  /\ Header.start_seq = StartSeq /\ Header.end_seq = StartSeq + Len(leaves) - 1
  /\ Header.events_included = Len(leaves) /\ Header.merkle_root = Mth[leaves]
  /\ Header.leaves = {leaves}
BY DEF Header, HeaderOf, Root

LEMMA HandedOutFields ==
  /\ HandedOut.schema_version = schema /\ HandedOut.kind = "merkle_checkpoint"
  /\ HandedOut.start_seq = StartSeq /\ HandedOut.end_seq = StartSeq + Len(leaves) - 1
  /\ HandedOut.events_included = Len(leaves) /\ HandedOut.merkle_root = Mth[leaves]
  /\ HandedOut.leaves = IF schema = 3 THEN {} ELSE {leaves}
BY DEF HandedOut, Header, HeaderOf, Root

\* What get_proof hands out carries the signature of its header.
LEMMA HandedOutSigned ==
  schema # 0 => verify_signature(HandedOut, Signature)
<1> SUFFICES ASSUME schema # 0 PROVE Signature = signed_body(HandedOut)
  BY DEF verify_signature
<1> QED  BY HeaderFields, HandedOutFields DEF Signature, signed_body

\* Every proof get_proof hands out passes verify_proof, except for a header
\* without a schema: the path it takes is as long as the verifier expects and
\* leads back to the signed root (audit_logger.py:675-743).
THEOREM ProofsVerify == Spec => []ProofsVerifyUnlessLegacy
<1>1. Typed /\ SchemaKnown => ProofsVerifyUnlessLegacy
  <2> SUFFICES ASSUME leaves \in Seq(Data), schema \in {0, 2, 3}, NEW index \in Positions
               PROVE  VerifyProof(GetProof(StartSeq + index)) <=> schema # 0
    BY DEF ProofsVerifyUnlessLegacy, Typed, SchemaKnown, Schemas
  <2>1. PICK n \in Nat : n = Len(leaves)
    BY Sizes
  <2>2. index \in 0..(n - 1) /\ index \in Nat /\ StartSeq \in Nat
    BY <2>1, TreeAssumption DEF Positions
  <2>3. PICK P : P = AuditPath[leaves][index]
    OBVIOUS
  <2>4. GoodPath(P, leaves, index)
    BY <2>1, <2>2, <2>3, AllPathsGood DEF PathsGood
  <2>5. Len(P) = PathLength[n][index]
    BY <2>1, <2>4 DEF GoodPath
  <2>6. RebuildRoot(leaf_hash(leaves[index + 1]), P)[n][index][Len(P)] = Mth[leaves]
    BY <2>1, <2>4 DEF GoodPath, Leads
  <2>7. PICK cp, signature : cp = HandedOut /\ signature = Signature
    OBVIOUS
  <2>8. PICK payload : payload = GetProof(StartSeq + index)
    OBVIOUS
  <2>9. /\ payload.seq = StartSeq + index /\ payload.leaf_data = leaves[index + 1]
        /\ payload.leaf_index = index /\ payload.tree_size = n /\ payload.audit_path = P
        /\ payload.checkpoint = cp /\ payload.signature = signature
    <3>1. PICK seq : seq = StartSeq + index
      OBVIOUS
    <3>2. seq - StartSeq = index
      BY <2>2, <3>1
    <3> QED  BY <2>1, <2>3, <2>7, <2>8, <3>1, <3>2 DEF GetProof
  <2>10. /\ cp.schema_version = schema /\ cp.kind = "merkle_checkpoint"
         /\ cp.start_seq = StartSeq /\ cp.end_seq = StartSeq + n - 1
         /\ cp.events_included = n /\ cp.merkle_root = Mth[leaves]
         /\ cp.leaves = IF schema = 3 THEN {} ELSE {leaves}
    BY <2>1, <2>7, HandedOutFields
  <2>11. CASE schema = 0
    BY <2>8, <2>9, <2>10, <2>11 DEF VerifyProof, MetadataOK
  <2>12. CASE schema # 0
    <3>1. payload.seq = cp.start_seq + payload.leaf_index /\ payload.tree_size = cp.events_included
      BY <2>9, <2>10
    <3>2. cp.end_seq = cp.start_seq + cp.events_included - 1
      BY <2>10
    <3>3. 0 <= payload.leaf_index /\ payload.leaf_index < cp.events_included
      BY <2>2, <2>9, <2>10
    <3>4. ASSUME schema = 3 PROVE MetadataOK(payload, cp)
      BY <2>10, <3>1, <3>2, <3>3, <3>4 DEF MetadataOK
    <3>5. ASSUME schema = 2 PROVE MetadataOK(payload, cp)
      <4>1. payload.tree_size = Len(leaves) /\ payload.leaf_data = leaves[payload.leaf_index + 1]
        BY <2>1, <2>9
      <4> QED  BY <2>10, <3>1, <3>2, <3>3, <3>5, <4>1 DEF MetadataOK
    <3>6. MetadataOK(payload, cp)
      BY <2>12, <3>4, <3>5
    <3>7. VerifyInclusion(leaves[index + 1], index, n, P, Mth[leaves])
      BY <2>2, <2>5, <2>6 DEF VerifyInclusion, LengthOK
    <3>8. verify_signature(cp, signature)
      BY <2>7, <2>12, HandedOutSigned
    <3>9. VerifyProof(payload)
      BY <2>9, <2>10, <3>6, <3>7, <3>8 DEF VerifyProof
    <3> QED  BY <2>8, <2>12, <3>9
  <2> QED  BY <2>11, <2>12
<1> QED  BY <1>1, LeavesTyped, SchemaTyped, PTL

\* A header that verifies under the signature of this checkpoint is its header,
\* but for the list of leaves.
LEMMA SignatureBinds ==
  ASSUME NEW cp, cp.schema_version \in {2, 3}, verify_signature(cp, Signature)
  PROVE  /\ cp.start_seq = StartSeq /\ cp.events_included = Len(leaves)
         /\ cp.merkle_root = Mth[leaves]
<1>1. Signature = signed_body(cp)
  BY DEF verify_signature
<1>2. PICK rest, kept : rest = cp.leaves /\ kept = Header.leaves
  OBVIOUS
<1>3. CASE schema = 0
  <2>1. <<Root(leaves)>> = signed_body(cp)
    BY <1>1, <1>3 DEF Signature
  <2> QED  BY <2>1 DEF signed_body
<1>4. CASE schema # 0
  <2>1. signed_body(Header) = signed_body(cp)
    BY <1>1, <1>4 DEF Signature
  <2>2. /\ Header.start_seq = cp.start_seq /\ Header.events_included = cp.events_included
        /\ Header.merkle_root = cp.merkle_root
    BY <2>1 DEF signed_body
  <2> QED  BY <2>2, HeaderFields
<1> QED  BY <1>3, <1>4

\* Whatever a proof claims, one verify_proof accepts shows the entry that is at
\* its place.
LEMMA AcceptedIsTrue ==
  ASSUME leaves \in Seq(Data), NEW payload, VerifyProof(payload), payload.signature = Signature,
         payload.leaf_index \in Int, payload.seq \in Int, Len(payload.audit_path) \in Int
  PROVE  /\ payload.seq - StartSeq \in Positions
         /\ leaves[payload.seq - StartSeq + 1] = payload.leaf_data
<1>1. PICK n \in Nat : n = Len(leaves)
  BY Sizes
<1>2. PICK cp : cp = payload.checkpoint
  OBVIOUS
<1>3. PICK index, path, data : index = payload.leaf_index /\ path = payload.audit_path
                               /\ data = payload.leaf_data
  OBVIOUS
<1>4. /\ cp.schema_version \in {2, 3} /\ verify_signature(cp, Signature)
      /\ payload.seq = cp.start_seq + index /\ payload.tree_size = cp.events_included
      /\ 0 <= index /\ index < cp.events_included
      /\ VerifyInclusion(data, index, payload.tree_size, path, cp.merkle_root)
  BY <1>2, <1>3 DEF VerifyProof, MetadataOK
<1>5. cp.start_seq = StartSeq /\ cp.events_included = n /\ cp.merkle_root = Mth[leaves]
  BY <1>1, <1>4, SignatureBinds
<1>6. RebuildRoot(leaf_hash(data), path)[n][index][Len(path)] = Mth[leaves]
  BY <1>4, <1>5 DEF VerifyInclusion
<1>7. index \in 0..(n - 1)
  BY <1>3, <1>4, <1>5
<1>8. leaves[index + 1] = data
  BY <1>1, <1>3, <1>6, <1>7, RebuiltShows DEF Shows
<1>9. payload.seq - StartSeq = index
  BY <1>3, <1>4, <1>5, TreeAssumption
<1> QED  BY <1>1, <1>3, <1>7, <1>8, <1>9 DEF Positions

\* A proof verify_proof accepts under the signature of this checkpoint is true,
\* for any claimed header, siblings that are any values at all, in any number,
\* and any claimed leaf, position and size (audit_logger.py:699-743).
THEOREM NoAcceptedProofLies ==
  Spec => [](\A payload : (/\ VerifyProof(payload) /\ payload.signature = Signature
                           /\ payload.leaf_index \in Int /\ payload.seq \in Int
                           /\ Len(payload.audit_path) \in Int)
                => /\ payload.seq - StartSeq \in Positions
                   /\ leaves[payload.seq - StartSeq + 1] = payload.leaf_data)
<1> DEFINE Truth ==
             \A payload : (/\ VerifyProof(payload) /\ payload.signature = Signature
                           /\ payload.leaf_index \in Int /\ payload.seq \in Int
                           /\ Len(payload.audit_path) \in Int)
                => /\ payload.seq - StartSeq \in Positions
                   /\ leaves[payload.seq - StartSeq + 1] = payload.leaf_data
<1>1. Typed => Truth
  BY AcceptedIsTrue DEF Typed
<1> QED  BY <1>1, LeavesTyped, PTL

\* The same of the proofs the run puts together (audit_logger.py:699-743).
THEOREM AcceptedAreTrue == Spec => []AcceptedProofsAreTrue
<1>1. Typed => AcceptedProofsAreTrue
  <2> DEFINE known == Hashes[leaves] \cup {leaf_hash(d) : d \in Data}
             paths == UNION {[1..n -> known] : n \in 0..MaxPath}
  <2> HIDE DEF known
  <2> SUFFICES ASSUME leaves \in Seq(Data), NEW cp \in ClaimedCheckpoints, NEW data \in Data,
                      NEW index \in 0..Len(leaves),
                      NEW seq \in StartSeq..(StartSeq + Len(leaves)),
                      NEW size \in 1..(Len(leaves) + 1), NEW path \in paths,
                      VerifyProof([seq |-> seq, checkpoint |-> cp, signature |-> Signature,
                                   leaf_data |-> data, leaf_index |-> index,
                                   tree_size |-> size, audit_path |-> path])
               PROVE  /\ seq - StartSeq \in Positions
                      /\ leaves[seq - StartSeq + 1] = data
    BY DEF AcceptedProofsAreTrue, known, Typed
  <2>1. PICK n \in 0..MaxPath : path \in [1..n -> known]
    OBVIOUS
  <2>2. n \in Nat /\ StartSeq \in Nat
    BY TreeAssumption
  <2>3. path \in Seq(known) /\ Len(path) \in Int
    BY <2>1, <2>2, SeqDef, LenProperties
  <2>4. Len(leaves) \in Nat
    BY Sizes
  <2>5. index \in Int /\ seq \in Int
    BY <2>2, <2>4
  <2>6. PICK payload : payload = [seq |-> seq, checkpoint |-> cp, signature |-> Signature,
                                  leaf_data |-> data, leaf_index |-> index,
                                  tree_size |-> size, audit_path |-> path]
    OBVIOUS
  <2>7. /\ payload.seq = seq /\ payload.leaf_data = data /\ payload.leaf_index = index
        /\ payload.audit_path = path /\ payload.signature = Signature
    BY <2>6
  <2>8. VerifyProof(payload)
    BY <2>6
  <2>9. /\ payload.seq - StartSeq \in Positions
        /\ leaves[payload.seq - StartSeq + 1] = payload.leaf_data
    BY <2>3, <2>5, <2>7, <2>8, AcceptedIsTrue
  <2> QED  BY <2>7, <2>9
<1> QED  BY <1>1, LeavesTyped, PTL

===============================================================================
