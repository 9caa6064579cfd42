--------------------------- MODULE MCMerkleBuilder ---------------------------
(* Trees of up to five permissions, for TLC: five leaves make levels of 5, 3,   *)
(* 2 and 1 nodes, two of them odd.                                            *)
EXTENDS MerkleBuilder
=============================================================================
