----------------------------- MODULE MCRegistry -----------------------------
(* Registries with one thread and two profiles for TLC. *)
EXTENDS Registry

\* Two builtins a and b; x, y and z are names only profiles know.
MCFold == [s \in {"a", "b", "x", "y", "z"} |-> s]
MCBuiltins == <<[names |-> {"a"}, kind |-> 1], [names |-> {"b"}, kind |-> 2]>>
MCKindOf == [s \in DOMAIN MCFold |-> CASE s = "a" -> 1 [] s = "b" -> 2 [] OTHER -> NoKind]
LuaSpec(n, t, as) == [name |-> n, target |-> t, aliases |-> as]

\* A spec, and one followed by an error
BrokenContents == {<<LuaSpec("x", "a", {})>>, <<LuaSpec("y", "b", {}), BadSpec>>}

\* Two specs of different kinds that share the alias z
AliasContents == {<<LuaSpec("x", "a", {"z"})>>, <<LuaSpec("y", "b", {"z"})>>}
=============================================================================
