---------------------------- MODULE MCChunkUpload ----------------------------
(* Instances of ChunkUpload for TLC. *)
EXTENDS ChunkUpload, TLC

Symmetry == Permutations(Chunks) \cup Permutations(Workers)
=============================================================================
