---------------------------- MODULE MCLinkSession ----------------------------
(* Instances of LinkSession for TLC. *)
EXTENDS LinkSession, TLC

CONSTANTS elf, pe, nElf, nPe, nLua

\* "OLNK\nformat=PE\n" is shorter than "OLNK\nformat=ELF\n"
MCPayloadSize == [f \in Formats |-> IF f = elf /\ pe \in Formats THEN 2 ELSE 1]

MCDefOf == [n \in BuiltinNames \cup LuaNames |-> IF n = nPe THEN pe ELSE elf]

C(i, p, f, m) == [inputs |-> i, path |-> p, format |-> f, machine |-> m]

\* Configs a run rejects at once.
Incomplete == {C(i, Empty, Empty, Empty) : i \in 0..1}

\* A format that only the Lua profiles know.
ReentryConfigs ==
  Incomplete \cup {C(1, p, f, Empty) : p \in Paths \cup {Empty}, f \in LuaNames}

\* Two formats written to the same path.
SharedConfigs ==
  Incomplete \cup {C(1, p, f, Empty) : p \in Paths, f \in {Empty, nPe}}

\* A good config, an unknown format and an unknown machine.
LiveConfigs ==
  Incomplete \cup {C(1, p, f, m) : p \in Paths, f \in OtherNames \cup {Empty},
                                   m \in OtherNames \cup {Empty}}

\* The handles are interchangeable.
ResultSymmetry == Permutations(Results)
HandleSymmetry == Permutations(Results) \cup Permutations(Sessions)
=============================================================================
