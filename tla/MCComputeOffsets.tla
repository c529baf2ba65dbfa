-------------------------- MODULE MCComputeOffsets --------------------------
(* Instance of ComputeOffsets for TLC: words of four bits. *)
EXTENDS ComputeOffsets
=============================================================================
