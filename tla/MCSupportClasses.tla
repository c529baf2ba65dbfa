-------------------------- MODULE MCSupportClasses --------------------------
(* Records, files, tasks and profiles for TLC. *)
EXTENDS SupportClasses

Symbols == [name: {1, 2}, scope: {0, 2}, ordinal: {0}, value: {0, 1}, size: {0}]
             \cup {[name |-> 1, scope |-> 2, ordinal |-> 1, value |-> 0, size |-> s] :
                     s \in {0, 1}}
SectionRecords == [name: {1, 2}, kind: {1}, ordinal: {0, 1}, alignment: {0, 2}, size: {0}]
              \cup {[name |-> 1, kind |-> 0, ordinal |-> 0, alignment |-> 0, size |-> 1]}
IrSymbols == [name: {1}, value: {0, 1}, ordinal: {0, 1}, size: {0}]
IrSections == [name: {1}, kind: {0, 1}, ordinal: {0}, alignment: {0, 1}, size: {0}]

\* Kinds of relocations with their number in the enum
RelocationKinds == {<<"kNone", 0>>, <<"kAbsolute", 1>>, <<"kPcRelative", 2>>}
Relocations ==
  {[kind |-> k[1], rank |-> k[2], offset |-> o, addend |-> a, target_value |-> t,
    ordinal |-> 0] :
     k \in RelocationKinds, o \in {0, 3, 7}, a \in {-4, -1, 0, 3}, t \in {0, 3, 4, 7}}
  \cup {[kind |-> "kGot", rank |-> 3, offset |-> 3, addend |-> 3, target_value |-> t,
          ordinal |-> 0] : t \in {3, 7}}

MCOffered == [p \in AllParts |->
  CASE p = "symbol"     -> Symbols
    [] p = "section"    -> SectionRecords
    [] p = "relocation" -> Relocations
    [] p = "ir_section" -> IrSections
    [] p = "ir_symbol"  -> IrSymbols]

MCMaxRecords == [c \in Classes |-> IF c = "RelocationPlanner" THEN 2 ELSE 3]

MCChunks == {<<7>>, <<8, 9>>}
MCPayloads == {<<1>>, <<2, 3>>}
MCTaskDoes == [t \in Tasks |-> t]
MCCountOf == [i \in Images |-> [k \in IrKinds |-> IF k = "files" THEN 1 ELSE 2]]

\* Two builtins a and b; x and y are names only profiles know. The first
\* profile has two specs that both answer to y, one of them of no known kind,
\* and an error in front of one that would shadow b; the second declares A
\* twice and shares x with the first.
MCFold == [s \in {"a", "A", "b", "x", "X", "y"} |->
             CASE s = "A" -> "a" [] s = "X" -> "x" [] OTHER -> s]
MCBuiltins == <<[names |-> {"a"}, kind |-> 1], [names |-> {"b"}, kind |-> 2]>>
MCKindOf == [s \in DOMAIN MCFold |-> CASE s = "a" -> 1 [] s = "b" -> 2 [] OTHER -> NoKind]
LuaSpec(n, t, as) == [name |-> n, target |-> t, aliases |-> as]
MCContents ==
  {Unreadable,
   <<LuaSpec("X", "a", {"y"}), LuaSpec("y", "x", {}), BadSpec, LuaSpec("b", "a", {})>>,
   <<LuaSpec("A", "y", {"x"}), LuaSpec("A", "b", {"x"})>>}
=============================================================================
