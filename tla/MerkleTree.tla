------------------------------ MODULE MerkleTree ------------------------------
(***************************************************************************)
(* The Merkle tree of agent/forensics/merkle_tree.py over the leaves of    *)
(* one checkpoint, the proof get_proof hands out for one of them and the   *)
(* check verify_proof makes of a proof (audit_logger.py:675-743).          *)
(*                                                                         *)
(* Hashes are terms: SHA-256 is taken to be injective, and a leaf, a node  *)
(* and the empty tree are told apart as their prefixes tell them apart.    *)
(* A signature is a term too, what the agent signed with it: nobody else   *)
(* can make one, and a verifier compares it with what it should cover.     *)
(***************************************************************************)
EXTENDS Integers, Sequences, FiniteSetsExt

CONSTANTS
  Data,           \* what a leaf may hold
  MaxLeaves,      \* bound: the size up to which trees are grown
  MaxPath,        \* bound: the length up to which a claimed audit path is put together
  StartSeq        \* start_seq of the checkpoint

ASSUME TreeAssumption == MaxLeaves \in Nat /\ MaxPath \in Nat /\ StartSeq \in Nat

VARIABLES
  leaves,         \* _leaves
  schema          \* schema_version of the checkpoint, 0 when it has none

vars == <<leaves, schema>>

-----------------------------------------------------------------------------
(* Hashes and the split of a tree.                                           *)

\* Mutant: a node forgets the order of its children.
NodeHashUnordered(left, right) == <<"node", {left, right}>>
leaf_hash(data) == <<"leaf", data>>
node_hash(left, right) == <<"node", left, right>>
EmptyHash == <<"empty">>

\* 1 << ((n - 1).bit_length() - 1), the highest bit of n - 1, and 1 for n <= 1.
PowersUpTo(m) == {k \in 1..m : \E b \in 0..m : k = 2^b}
Split(n) == IF n > 1 THEN Max(PowersUpTo(n - 1)) ELSE 1

Left(s) == SubSeq(s, 1, Split(Len(s)))
Right(s) == SubSeq(s, Split(Len(s)) + 1, Len(s))

Mth[s \in Seq(Data)] ==
  IF s = <<>> THEN EmptyHash
  ELSE IF Len(s) = 1 THEN leaf_hash(s[1])
  ELSE node_hash(Mth[Left(s)], Mth[Right(s)])

Root(s) == Mth[s]

\* For each leaf the siblings from the leaf up to the root; index counts from 0.
AuditPath[s \in Seq(Data)] ==
  [index \in 0..(Len(s) - 1) |->
     LET k == Split(Len(s)) IN
     IF Len(s) <= 1 THEN <<>>
     ELSE IF index < k THEN Append(AuditPath[Left(s)][index], Mth[Right(s)])
     ELSE Append(AuditPath[Right(s)][index - k], Mth[Left(s)])]

-----------------------------------------------------------------------------
(* verify_inclusion_proof.                                                   *)

\* How many siblings lie between a position and the root.
PathLength[size \in Nat] ==
  [index \in 0..(size - 1) |->
     LET k == Split(size) IN
     IF size <= 1 THEN 0
     ELSE 1 + (IF index < k THEN PathLength[k][index] ELSE PathLength[size - k][index - k])]

\* _rebuild_root takes the siblings from the end of the path, the top of the
\* tree, inwards.
RebuildRoot(hash, path) ==
  LET rebuild[size \in Nat] ==
        [index \in 0..(size - 1) |-> [position \in Int |->
           LET k == Split(size) IN
           IF size <= 1 THEN hash
           ELSE IF index < k
           THEN node_hash(rebuild[k][index][position - 1], path[position])
           ELSE node_hash(path[position], rebuild[size - k][index - k][position - 1])]]
  IN rebuild

\* Mutant: every path is as long as the tree is deep.
DepthOfTree(index, size, path) == Len(path) = PathLength[size][0]
LengthOK(index, size, path) == Len(path) = PathLength[size][index]

VerifyInclusion(data, index, size, path, root) ==
  /\ 0 <= index /\ index < size
  /\ LengthOK(index, size, path)
  /\ RebuildRoot(leaf_hash(data), path)[size][index][Len(path)] = root

-----------------------------------------------------------------------------
(* The checkpoint over the leaves, get_proof and verify_proof.               *)

\* Checkpoints of version 2.0 do not say their schema, those of the releases
\* after it say 2, those written now say 3.
Schemas == {0, 2, 3}

\* The fields of a header that its signature covers: all of them from schema 2
\* on, except that schema 3 leaves the list of leaves to the root.
signed_body(cp) ==
  <<cp.schema_version, cp.kind, cp.start_seq, cp.end_seq, cp.events_included, cp.merkle_root,
    IF cp.schema_version = 3 /\ cp.kind = "merkle_checkpoint" THEN {} ELSE cp.leaves>>

\* A header over count leaves from start on; list holds their list, or nothing.
HeaderOf(version, start, count, list) ==
  [schema_version |-> version, kind |-> "merkle_checkpoint",
   start_seq |-> start, end_seq |-> start + count - 1, events_included |-> count,
   merkle_root |-> Root(leaves), leaves |-> list]

Header == HeaderOf(schema, StartSeq, Len(leaves), {leaves})

\* Version 2.0 signed the root alone.
Signature == IF schema = 0 THEN <<Root(leaves)>> ELSE signed_body(Header)

\* Mutant: the leaves are handed out with every header.
HandedOutWhole == Header
HandedOut == IF schema = 3 THEN [Header EXCEPT !.leaves = {}] ELSE Header

GetProof(seq) ==
  LET index == seq - StartSeq IN
  [seq |-> seq, checkpoint |-> HandedOut, signature |-> Signature,
   leaf_data |-> leaves[index + 1], leaf_index |-> index,
   tree_size |-> Len(leaves), audit_path |-> AuditPath[leaves][index]]

\* Mutant: the proof's own position and size are trusted.
MetadataTrusted(payload, cp) == 0 <= payload.leaf_index
MetadataOK(payload, cp) ==
  /\ cp.schema_version \in {2, 3}
  /\ payload.seq = cp.start_seq + payload.leaf_index
  /\ payload.tree_size = cp.events_included
  /\ cp.end_seq = cp.start_seq + cp.events_included - 1
  /\ 0 <= payload.leaf_index /\ payload.leaf_index < cp.events_included
  /\ IF cp.schema_version = 3
     THEN cp.kind = "merkle_checkpoint" /\ cp.leaves = {}
     ELSE \E list \in cp.leaves :
            payload.tree_size = Len(list) /\ payload.leaf_data = list[payload.leaf_index + 1]

verify_signature(cp, signature) == signature = signed_body(cp)

VerifyProof(payload) ==
  LET cp == payload.checkpoint IN
  /\ MetadataOK(payload, cp)
  /\ VerifyInclusion(payload.leaf_data, payload.leaf_index, payload.tree_size,
                     payload.audit_path, cp.merkle_root)
  /\ verify_signature(cp, payload.signature)

-----------------------------------------------------------------------------

Init == leaves = <<>> /\ schema \in Schemas

AddLeaf(data) ==
  /\ Len(leaves) < MaxLeaves
  /\ leaves' = Append(leaves, data)
  /\ UNCHANGED schema

Next == \E data \in Data : AddLeaf(data)

Spec == Init /\ [][Next]_vars

-----------------------------------------------------------------------------

Positions == 0..(Len(leaves) - 1)

\* Every proof the agent hands out is accepted by a verifier that has nothing
\* but the proof and the key, except those of checkpoints imported from version
\* 2.0: get_proof hands them out and verify_proof refuses every one of them
\* (audit_logger.py:675-706; dashboard.js:736 prepares the user for it).
ProofsVerifyUnlessLegacy ==
  \A index \in Positions : VerifyProof(GetProof(StartSeq + index)) <=> schema # 0

\* Every hash that occurs in a tree over s.
Hashes[s \in Seq(Data)] ==
  {Mth[s]} \cup IF Len(s) <= 1 THEN {} ELSE Hashes[Left(s)] \cup Hashes[Right(s)]

\* Headers somebody may put under the signature of this checkpoint.
ClaimedCheckpoints ==
  {HeaderOf(version, start, count, list) :
     version \in Schemas, start \in StartSeq..(StartSeq + 1), count \in 1..(Len(leaves) + 1),
     list \in {{}, {leaves}}}

\* An accepted proof is true: whatever its header claims under the signature of
\* this checkpoint, whatever siblings it is put together from, in whatever order
\* and number, with whatever position and size, the entry at its seq is the one
\* it shows (audit_logger.py:699-743).
AcceptedProofsAreTrue ==
  LET known == Hashes[leaves] \cup {leaf_hash(d) : d \in Data}
      paths == UNION {[1..n -> known] : n \in 0..MaxPath}
  IN \A cp \in ClaimedCheckpoints, signature \in {Signature} : verify_signature(cp, signature) =>
     \A data \in Data, index \in 0..Len(leaves), seq \in StartSeq..(StartSeq + Len(leaves)),
        size \in 1..(Len(leaves) + 1) :
       \A path \in paths :
         LET payload == [seq |-> seq, checkpoint |-> cp, signature |-> signature,
                         leaf_data |-> data, leaf_index |-> index, tree_size |-> size,
                         audit_path |-> path]
         IN VerifyProof(payload) =>
              /\ seq - StartSeq \in Positions
              /\ leaves[seq - StartSeq + 1] = data

\* A root commits to its leaves: no other sequence of at most MaxLeaves leaves
\* has it (this is what lets EvidenceLedger model a root by its leaves).
RootCommits ==
  \A n \in 0..MaxLeaves : \A other \in [1..n -> Data] :
    Root(other) = Root(leaves) => other = leaves

=============================================================================
