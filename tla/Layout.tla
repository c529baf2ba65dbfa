------------------------------- MODULE Layout -------------------------------
(***************************************************************************)
(* The two places of the library that lay sections out in a file,          *)
(* OutputBuilder::build and compute_offsets. They share align_up and       *)
(* nothing else; a behaviour is that of one of them.                       *)
(***************************************************************************)
EXTENDS OutputBuilder, ComputeOffsets

VARIABLE layouter  \* "OutputBuilder" or "compute_offsets"

layoutVars == <<vars, offsetsVars, layouter>>

LayoutInit == Init /\ OffsetsInit /\ layouter \in {"OutputBuilder", "compute_offsets"}

LayoutNext ==
  \/ layouter = "OutputBuilder" /\ Next /\ UNCHANGED <<offsetsVars, layouter>>
  \/ layouter = "compute_offsets" /\ OffsetsNext /\ UNCHANGED <<vars, layouter>>

LayoutSpec == LayoutInit /\ [][LayoutNext]_layoutVars
=============================================================================
