---------------------------- MODULE MCFileAccess ----------------------------
(* Instance of FileAccess for TLC. *)
EXTENDS FileAccess

MCPayloads == {<<1>>, <<2, 3>>}
=============================================================================
