----------------------------- MODULE MCMerkleTree -----------------------------
(***************************************************************************)
(* Instances of MerkleTree for TLC.                                        *)
(***************************************************************************)
EXTENDS MerkleTree

CONSTANTS d1, d2

=============================================================================
