------------------------------ MODULE Registry ------------------------------
(***************************************************************************)
(* The registries of formats and of machines (src/olnk/format.cpp,         *)
(* machine.cpp) with the Lua profiles behind them (lua_bindings.cpp):      *)
(* a name that no builtin carries is looked up in the specs the profile    *)
(* scripts declared, which are read once, at the first such lookup. The    *)
(* machines are a table whose self-referential pointers every entry point  *)
(* writes first, row by row, from any number of threads.                   *)
(* A behaviour is that of one of the two registries. The Lua part of a     *)
(* lookup is one step: two threads in it at once race on plain statics.    *)
(* A null or empty name is answered with nullptr and touches nothing.      *)
(***************************************************************************)
EXTENDS Naturals, Sequences, FiniteSets, FiniteSetsExt, SequencesExt

CONSTANTS
  Callers,     \* threads
  Spellings,   \* bound: names callers look up
  Fold,        \* each string in lower case
  Builtins,    \* the table: the names of each row and its kind
  KindOf,      \* the kind a spec's kind or arch stands for, or NoKind
  NoKind,
  NoDef,       \* nullptr
  Unreadable,  \* a profile that is missing or does not parse
  BadSpec,     \* a spec without a required field
  Contents,    \* bound: what profile files hold, the specs they declare
  Profiles     \* number of profile files

Rows == DOMAIN Builtins
LookedUp == {Fold[s] : s \in Spellings}
LuaSpecs == [name: DOMAIN Fold, target: DOMAIN Fold, aliases: SUBSET DOMAIN Fold]

ASSUME RegistryAssumption ==
  /\ Fold \in [DOMAIN Fold -> DOMAIN Fold] /\ Spellings \subseteq DOMAIN Fold
  /\ \A s \in DOMAIN Fold : Fold[Fold[s]] = Fold[s]
  /\ DOMAIN KindOf = DOMAIN Fold
  /\ Builtins \in Seq(ToSet(Builtins))
  /\ NoDef \notin Rows /\ \A i \in Rows : Builtins[i].kind # NoKind
  /\ \A content \in Contents \ {Unreadable} : content \in Seq(LuaSpecs \cup {BadSpec})
  /\ Profiles \in Nat

VARIABLES
  side,        \* which registry
  profile,     \* the profile files
  luaLoaded,   \* static bool loaded
  registered,  \* olnk.registry.formats or .machines: specs by name
  luaOrder,    \* the order in which Lua walks over it
  patched,     \* rows with their pointers written
  call,        \* for each thread 0, or the row its call writes next
  handed,      \* history: rows of the definitions and instances given out
  answers,     \* history: the answers to each name, lookups that threw aside
  read         \* history: the profiles as the last load found them

registryVars == <<side, profile, luaLoaded, registered, luaOrder, patched, call,
                  handed, answers, read>>

RegistryInit ==
  /\ side \in {"format", "machine"}
  /\ profile \in [1..Profiles -> Contents]
  /\ luaLoaded = FALSE
  /\ registered = << >> /\ luaOrder = << >>
  /\ patched = IF side = "format" THEN Rows ELSE {}
  /\ call = [c \in Callers |-> 0]
  /\ handed = {}
  /\ answers = [s \in LookedUp |-> {}]
  /\ read = << >>

\* Somebody edits, adds or removes a profile while the library is in use.
EditProfile(p, content) ==
  /\ content # profile[p]
  /\ profile' = [profile EXCEPT ![p] = content]
  /\ UNCHANGED <<side, luaLoaded, registered, luaOrder, patched, call, handed, answers, read>>

-----------------------------------------------------------------------------
Enter(c) ==
  /\ call[c] = 0
  /\ call' = [call EXCEPT ![c] = IF side = "machine" THEN 1 ELSE Len(Builtins) + 1]
  /\ UNCHANGED <<side, profile, luaLoaded, registered, luaOrder, patched, handed, answers, read>>

\* Mutant: a call that finds the first row written takes the table as written.
initialize_builtin_registry_Flag(c) ==
  /\ call[c] \in Rows
  /\ call' = [call EXCEPT ![c] = IF 1 \in patched /\ @ = 1 THEN Len(Builtins) + 1 ELSE @ + 1]
  /\ patched' = patched \cup {call[c]}
  /\ UNCHANGED <<side, profile, luaLoaded, registered, luaOrder, handed, answers, read>>

\* One row of the loop
initialize_builtin_registry(c) ==
  /\ call[c] \in Rows
  /\ call' = [call EXCEPT ![c] = @ + 1]
  /\ patched' = patched \cup {call[c]}
  /\ UNCHANGED <<side, profile, luaLoaded, registered, luaOrder, handed, answers, read>>

Initialized(c) == call[c] > Len(Builtins)

HandOut(c, def) ==
  /\ call' = [call EXCEPT ![c] = 0]
  /\ handed' = handed \cup ({def} \ {NoDef})
  /\ UNCHANGED <<side, profile, patched>>

FirstRow(S) == IF S = {} THEN NoDef ELSE Min(S)

ByKind(k) == FirstRow({i \in Rows : Builtins[i].kind = k})

\* olnk_format_count, olnk_machine_count
count(c) ==
  /\ Initialized(c)
  /\ HandOut(c, NoDef)
  /\ UNCHANGED <<luaLoaded, registered, luaOrder, answers, read>>

olnk_find_machine_by_kind(c, k) ==
  /\ side = "machine"
  /\ Initialized(c)
  /\ HandOut(c, ByKind(k))
  /\ UNCHANGED <<luaLoaded, registered, luaOrder, answers, read>>

\* create of a definition's vtable runs the loop as well and gives out the
\* one static instance of the row; destroy and set_option change nothing.
builtin_machine_create(c, i) ==
  /\ side = "machine"
  /\ Initialized(c)
  /\ i \in handed
  /\ HandOut(c, i)
  /\ UNCHANGED <<luaLoaded, registered, luaOrder, answers, read>>

\* olnk_format_at, olnk_machine_at
at(c, i) ==
  /\ Initialized(c)
  /\ HandOut(c, IF i \in Rows THEN i ELSE NoDef)
  /\ UNCHANGED <<luaLoaded, registered, luaOrder, answers, read>>

-----------------------------------------------------------------------------
\* The specs a profile script declares before it ends or raises an error
Declared(content) ==
  IF content = Unreadable THEN << >>
  ELSE LET bad == {i \in DOMAIN content : content[i] = BadSpec}
       IN IF bad = {} THEN content ELSE SubSeq(content, 1, Min(bad) - 1)

\* define_format, define_machine: a later spec of a name replaces the earlier
define(specs, s) ==
  [n \in DOMAIN specs \cup {s.name} |-> IF n = s.name THEN s ELSE specs[n]]

\* The specs of a sequence, defined one after the other
DefineAll(specs, decl) ==
  LET after[i \in 0..Len(decl)] ==
        IF i = 0 THEN specs ELSE define(after[i-1], decl[i])
  IN after[Len(decl)]

\* Mutant: a profile that cannot be loaded ends the loop.
DeclaredBy_Break(n) ==
  LET readable(k) == \A p \in 1..k : profile[p] # Unreadable
      m == Max({k \in 0..n : readable(k)})
  IN FlattenSeq([p \in 1..m |-> Declared(profile[p])])

\* What the first n profiles declare
DeclaredBy(n) == FlattenSeq([p \in 1..n |-> Declared(profile[p])])

\* Runs the first n profiles. Lua's order over the names is not determined.
RunProfiles(n) ==
  /\ registered' = DefineAll(registered, DeclaredBy(n))
  /\ luaOrder' \in IF DOMAIN registered' = DOMAIN registered THEN {luaOrder}
                  ELSE SetToSeqs(DOMAIN registered')
  /\ read' = SubSeq(profile, 1, n)

\* Mutant: the profiles are read for every lookup.
LoadProfiles_Again == RunProfiles(Profiles) /\ luaLoaded' = luaLoaded

LoadProfiles ==
  IF luaLoaded THEN UNCHANGED <<luaLoaded, registered, luaOrder, read>>
  ELSE RunProfiles(Profiles) /\ luaLoaded' = TRUE

Named(names, s) == \E n \in names : Fold[n] = Fold[s]

\* Machines are also found by their arch.
Matches(spec, s) ==
  Named({spec.name} \cup spec.aliases \cup (IF side = "machine" THEN {spec.target} ELSE {}), s)

\* The first spec that matches decides, also with a kind nobody knows.
LuaDefinition(specs, order, s) ==
  LET hits == {i \in DOMAIN order : Matches(specs[order[i]], s)}
  IN IF hits = {} THEN NoDef ELSE ByKind(KindOf[Fold[specs[order[Min(hits)]].target]])

BuiltinDefinition(s) == FirstRow({i \in Rows : Named(Builtins[i].names, s)})

\* Mutant: the profiles are asked before the table.
find_LuaFirst(c, s) ==
  /\ Initialized(c)
  /\ LoadProfiles
  /\ LET lua == LuaDefinition(registered', luaOrder', s)
         def == IF lua # NoDef THEN lua ELSE BuiltinDefinition(s)
     IN HandOut(c, def) /\ answers' = [answers EXCEPT ![Fold[s]] = @ \cup {def}]

\* olnk_find_format, olnk_find_machine
find(c, s) ==
  /\ Initialized(c)
  /\ \/ /\ BuiltinDefinition(s) # NoDef
        /\ HandOut(c, BuiltinDefinition(s))
        /\ answers' = [answers EXCEPT ![Fold[s]] = @ \cup {BuiltinDefinition(s)}]
        /\ UNCHANGED <<luaLoaded, registered, luaOrder, read>>
     \/ /\ BuiltinDefinition(s) = NoDef
        /\ LoadProfiles
        /\ LET def == LuaDefinition(registered', luaOrder', s)
           IN HandOut(c, def) /\ answers' = [answers EXCEPT ![Fold[s]] = @ \cup {def}]

\* The load throws behind n profiles, out of memory. The lookup misses, what
\* was declared stays, and the next lookup loads again.
LoadThrows(c, s, n) ==
  /\ Initialized(c)
  /\ BuiltinDefinition(s) = NoDef
  /\ ~luaLoaded
  /\ RunProfiles(n)
  /\ HandOut(c, NoDef)
  /\ UNCHANGED <<luaLoaded, answers>>

\* The walk over the specs throws, out of memory: this lookup misses, but the
\* profiles are loaded.
WalkThrows(c, s) ==
  /\ Initialized(c)
  /\ BuiltinDefinition(s) = NoDef
  /\ LoadProfiles
  /\ HandOut(c, NoDef)
  /\ UNCHANGED answers

RegistryNext ==
  \/ \E p \in 1..Profiles, content \in Contents : EditProfile(p, content)
  \/ \E c \in Callers :
       \/ Enter(c)
       \/ initialize_builtin_registry(c)
       \/ count(c)
       \/ \E k \in {KindOf[t] : t \in DOMAIN KindOf} : olnk_find_machine_by_kind(c, k)
       \/ \E i \in Rows : builtin_machine_create(c, i)
       \/ \E i \in Rows \cup {Len(Builtins) + 1} : at(c, i)
       \/ \E s \in Spellings : find(c, s)
       \/ \E s \in Spellings, n \in 0..Profiles-1 : LoadThrows(c, s, n)
       \/ \E s \in Spellings : WalkThrows(c, s)

RegistrySpec == RegistryInit /\ [][RegistryNext]_registryVars

-----------------------------------------------------------------------------
\* A machine definition a caller holds has its descriptor and its vtable, and
\* an instance its definition, through which get_properties and validate_config
\* find the record, also while another thread still writes the table for the
\* first time.
HandedOutComplete == handed \subseteq patched

\* The spellings of one name mean one definition for as long as the process
\* lives, although profiles are edited, loads fail half way and are repeated,
\* and Lua's order over the specs is arbitrary.
OneMeaning == \A s \in LookedUp : Cardinality(answers[s]) <= 1

\* What the registered specs that answer to a name make of it
SaidBySpecs(s) ==
  {ByKind(KindOf[Fold[registered[n].target]]) :
     n \in {m \in DOMAIN registered : Matches(registered[m], s)}}

\* A builtin's name always means that builtin, whatever the profiles declare;
\* any other name means what a registered spec makes of it, and nothing if no
\* spec answers to it. Where several answer to it the meaning is one of theirs;
\* whether it is always the same is the question of AliasDeterministic.
AnswersJustified ==
  \A s \in LookedUp : \A def \in answers[s] :
    IF BuiltinDefinition(s) # NoDef THEN def = BuiltinDefinition(s)
    ELSE IF SaidBySpecs(s) = {} THEN def = NoDef
    ELSE def \in SaidBySpecs(s)

\* A profile that runs to its end
Intact(content) == content # Unreadable /\ BadSpec \notin ToSet(content)

\* Once a load went through, every spec of an intact profile is registered
\* unless its name is declared again further on: a profile that is missing or
\* broken does not keep the others from being read. What becomes of the specs
\* of a broken one is the question of BrokenNotRegistered.
ProfilesTakeEffect ==
  luaLoaded =>
    \A p \in {q \in DOMAIN read : Intact(read[q])} :
      \A i \in DOMAIN read[p] :
        LET s == read[p][i]
        IN \/ s.name \in DOMAIN registered /\ registered[s.name] = s
           \/ \E q \in p..Profiles : \E j \in DOMAIN Declared(read[q]) :
                /\ q = p => j > i
                /\ Declared(read[q])[j].name = s.name

\* The names a registry knows are those of its builtins and of its registered
\* specs, no more and no fewer, and the specs of intact profiles are registered.
AnswersCorrect == AnswersJustified /\ ProfilesTakeEffect

\* A broken profile registers nothing (docs/manual/chapter05.md:62, "A broken
\* Lua machine module should fail registration, not destabilize global
\* registry."): each machine registered by a load is a spec of an intact
\* profile.
BrokenNotRegistered ==
  side = "machine" /\ luaLoaded =>
    \A n \in DOMAIN registered :
      \E p \in DOMAIN read : Intact(read[p]) /\ registered[n] \in ToSet(read[p])

\* What a name means does not depend on the order in which Lua happens to walk
\* over the specs, which differs from process to process
\* (docs/manual/chapter04.md:85, "deterministic alias resolution precedence;",
\* and chapter05.md:21, "Alias sets and lookup behavior must be deterministic.").
AliasDeterministic ==
  \A s \in LookedUp : \A def \in answers[s] :
    BuiltinDefinition(s) = NoDef =>
      \A order \in SetToSeqs(DOMAIN registered) : LuaDefinition(registered, order, s) = def
=============================================================================
