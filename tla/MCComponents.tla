---------------------------- MODULE MCComponents ----------------------------
(* Sections, plugin directories and command lines for TLC: layout with words *)
(* of three bits.                                                            *)
EXTENDS Components, MCCli

S(k, n, o, z, a) == [kind |-> k, name |-> n, ordinal |-> o, size |-> z, align |-> a]

\* Equal keys with different contents, keys that differ in one field each,
\* a missing alignment, one that is no power of two and one that makes the
\* padding wrap.
MCSections == {S(1, 1, 0, 1, 0), S(1, 1, 0, 3, 2), S(1, 2, 0, 2, 4),
               S(1, 1, 1, 1, 3), S(3, 1, 0, 0, 6), S(3, 1, 0, 4, 1)}

\* Three of the six names, the first with a marker and a body.
ThreeNames == <<"append-stub.so", "dump-symtbl.so", "visualization.so">>

\* The middle file is fine, missing or turned down for a reason of each kind;
\* the last one may leave out callbacks.
MCDirectories ==
  {[m \in ToSet(ThreeNames) |-> IF m = "dump-symtbl.so" THEN {d} ELSE {}] :
     d \in {"absent", "no_entry_point", "query_abi", "unknown_kind", "no_destroy"}}
  \cup {[m \in ToSet(ThreeNames) |->
          IF m = "visualization.so" THEN {"set_option", "after_link"} ELSE {}]}
=============================================================================
