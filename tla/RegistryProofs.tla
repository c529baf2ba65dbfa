--------------------------- MODULE RegistryProofs ---------------------------
(***************************************************************************)
(* What the registries of formats and machines promise, proved for any     *)
(* table, any profiles and any number of threads.                          *)
(***************************************************************************)
EXTENDS Registry, Induction, FiniteSetTheorems, SequenceTheorems, TLAPS

\* The table has its rows in front of every row a call has still to write.
TableOK ==
  /\ side \in {"format", "machine"}
  /\ patched \subseteq Rows
  /\ side = "format" => patched = Rows
  /\ call \in [Callers -> Nat]
  /\ \A c \in Callers, i \in Rows : i < call[c] => i \in patched
  /\ handed \subseteq patched

\* What the rows are.
LEMMA RowsAre == Len(Builtins) \in Nat /\ Rows = 1..Len(Builtins) /\ NoDef \notin Rows
BY RegistryAssumption DEF Rows

\* Min of a set of numbers is its least.
LEMMA LeastIs ==
  ASSUME NEW S, S \subseteq Nat, S # {}
  PROVE  Min(S) \in S /\ \A y \in S : Min(S) <= y
<1>1. \E x \in S : \A y \in S : x <= y
  BY LeastElement
<1> QED BY <1>1 DEF Min

\* The first of a set of rows is one of them, or nullptr if there is none.
LEMMA FirstRowIs ==
  ASSUME NEW S, S \subseteq Rows
  PROVE  FirstRow(S) \in S \cup {NoDef}
<1>1. S \subseteq Nat
  BY RowsAre
<1> QED BY <1>1, LeastIs DEF FirstRow

\* Every lookup ends with a row of the table or nullptr.
LEMMA DefinitionsAreRows ==
  /\ \A k : ByKind(k) \in Rows \cup {NoDef}
  /\ \A s : BuiltinDefinition(s) \in Rows \cup {NoDef}
  /\ \A specs, order, s : LuaDefinition(specs, order, s) \in Rows \cup {NoDef}
<1>1. \A k : ByKind(k) \in Rows \cup {NoDef}
  BY FirstRowIs DEF ByKind
<1>2. \A s : BuiltinDefinition(s) \in Rows \cup {NoDef}
  BY FirstRowIs DEF BuiltinDefinition
<1>3. \A specs, order, s : LuaDefinition(specs, order, s) \in Rows \cup {NoDef}
  BY <1>1 DEF LuaDefinition
<1> QED BY <1>1, <1>2, <1>3

\* A call that has been through the whole table may hand out any row of it.
LEMMA HandOutKeeps ==
  ASSUME TableOK, NEW c \in Callers, NEW def \in Rows \cup {NoDef},
         Initialized(c), HandOut(c, def)
  PROVE  TableOK'
<1>1. Rows \subseteq patched
  BY RowsAre DEF TableOK, Initialized
<1>2. /\ call' = [call EXCEPT ![c] = 0] /\ handed' = handed \cup ({def} \ {NoDef})
      /\ patched' = patched /\ side' = side
  BY DEF HandOut
<1>3. call' \in [Callers -> Nat]
  BY <1>2 DEF TableOK
<1>4. \A d \in Callers, i \in Rows : i < call'[d] => i \in patched'
  BY <1>1, <1>2
<1> QED BY <1>1, <1>2, <1>3, <1>4 DEF TableOK

\* Every step keeps the table written in front of every call.
LEMMA TableStep ==
  ASSUME TableOK, [RegistryNext]_registryVars
  PROVE  TableOK'
<1>1. ASSUME NEW p \in 1..Profiles, NEW content \in Contents, EditProfile(p, content)
      PROVE  TableOK'
  BY <1>1 DEF EditProfile, TableOK
<1>2. ASSUME NEW c \in Callers, Enter(c) PROVE TableOK'
  <2>1. CASE side = "machine"
    <3>1. call' = [call EXCEPT ![c] = 1] /\ patched' = patched /\ handed' = handed /\ side' = side
      BY <1>2, <2>1 DEF Enter
    <3>2. \A d \in Callers, i \in Rows : i < call'[d] => i \in patched'
      BY <3>1, RowsAre DEF TableOK
    <3> QED BY <3>1, <3>2 DEF TableOK
  <2>2. CASE side # "machine"
    <3>1. /\ call' = [call EXCEPT ![c] = Len(Builtins) + 1] /\ patched' = patched
          /\ handed' = handed /\ side' = side /\ patched = Rows
      BY <1>2, <2>2 DEF Enter, TableOK
    <3> QED BY <3>1, RowsAre DEF TableOK
  <2> QED BY <2>1, <2>2
<1>3. ASSUME NEW c \in Callers, initialize_builtin_registry(c) PROVE TableOK'
  <2>1. /\ call[c] \in Rows /\ call' = [call EXCEPT ![c] = call[c] + 1]
        /\ patched' = patched \cup {call[c]} /\ handed' = handed /\ side' = side
    BY <1>3 DEF initialize_builtin_registry
  <2>2. \A d \in Callers, i \in Rows : i < call'[d] => i \in patched'
    BY <2>1, RowsAre DEF TableOK
  <2> QED BY <2>1, <2>2, RowsAre DEF TableOK
<1>4. ASSUME NEW c \in Callers, count(c) PROVE TableOK'
  BY <1>4, HandOutKeeps DEF count
<1>5. ASSUME NEW c \in Callers, NEW k, olnk_find_machine_by_kind(c, k) PROVE TableOK'
  BY <1>5, HandOutKeeps, DefinitionsAreRows DEF olnk_find_machine_by_kind
<1>6. ASSUME NEW c \in Callers, NEW i \in Rows, builtin_machine_create(c, i) PROVE TableOK'
  BY <1>6, HandOutKeeps DEF builtin_machine_create
<1>7. ASSUME NEW c \in Callers, NEW i, at(c, i) PROVE TableOK'
  <2>1. (IF i \in Rows THEN i ELSE NoDef) \in Rows \cup {NoDef}
    OBVIOUS
  <2> QED BY <1>7, <2>1, HandOutKeeps DEF at
<1>8. ASSUME NEW c \in Callers, NEW s \in Spellings, find(c, s) PROVE TableOK'
  <2>1. PICK def \in Rows \cup {NoDef} : Initialized(c) /\ HandOut(c, def)
    <3>1. CASE BuiltinDefinition(s) # NoDef
      BY <1>8, <3>1, DefinitionsAreRows DEF find
    <3>2. CASE BuiltinDefinition(s) = NoDef
      <4>1. Initialized(c) /\ HandOut(c, LuaDefinition(registered', luaOrder', s))
        BY <1>8, <3>2 DEF find
      <4> QED BY <4>1, DefinitionsAreRows
    <3> QED BY <3>1, <3>2
  <2> QED BY <2>1, HandOutKeeps
<1>9. ASSUME NEW c \in Callers, NEW s \in Spellings, NEW n, LoadThrows(c, s, n)
      PROVE  TableOK'
  BY <1>9, HandOutKeeps DEF LoadThrows
<1>10. ASSUME NEW c \in Callers, NEW s \in Spellings, WalkThrows(c, s) PROVE TableOK'
  BY <1>10, HandOutKeeps DEF WalkThrows
<1>11. CASE UNCHANGED registryVars
  BY <1>11 DEF registryVars, TableOK
<1> QED
  BY <1>1, <1>2, <1>3, <1>4, <1>5, <1>6, <1>7, <1>8, <1>9, <1>10, <1>11 DEF RegistryNext

\* In every reachable state the rows in front of a call are written.
LEMMA TableInvariant == RegistrySpec => []TableOK
<1>1. RegistryInit => TableOK
  BY RowsAre DEF RegistryInit, TableOK
<1>2. TableOK /\ [RegistryNext]_registryVars => TableOK'
  BY TableStep
<1> QED BY <1>1, <1>2, PTL DEF RegistrySpec

\* Whatever a machine lookup, olnk_machine_at or create hands out has its
\* pointers written, for any number of threads and rows, although each call
\* writes the table again.
THEOREM HandedOutCorrect == RegistrySpec => []HandedOutComplete
<1>1. TableOK => HandedOutComplete
  BY DEF TableOK, HandedOutComplete
<1> QED BY <1>1, TableInvariant, PTL

-----------------------------------------------------------------------------
\* Registries of specs: finitely many names
Registries == {f \in UNION {[D -> LuaSpecs] : D \in SUBSET DOMAIN Fold} : IsFiniteSet(DOMAIN f)}

\* r is specs with the first i of decl defined.
Defined(r, specs, decl, i) ==
  /\ r \in Registries
  /\ \A n \in DOMAIN r : \/ n \in DOMAIN specs /\ r[n] = specs[n]
                         \/ \E k \in 1..i : r[n] = decl[k]
  /\ \A k \in 1..i : /\ decl[k].name \in DOMAIN r
                     /\ \/ r[decl[k].name] = decl[k]
                        \/ \E j \in k+1..i : decl[j].name = decl[k].name

\* What the members of Registries are.
LEMMA RegistryIs ==
  /\ \A r \in Registries : /\ DOMAIN r \subseteq DOMAIN Fold /\ IsFiniteSet(DOMAIN r)
                           /\ r \in [DOMAIN r -> LuaSpecs]
  /\ \A D \in SUBSET DOMAIN Fold : IsFiniteSet(D) => \A r \in [D -> LuaSpecs] : r \in Registries
<1>1. ASSUME NEW r \in Registries
      PROVE  DOMAIN r \subseteq DOMAIN Fold /\ IsFiniteSet(DOMAIN r) /\ r \in [DOMAIN r -> LuaSpecs]
  <2>1. PICK D \in SUBSET DOMAIN Fold : r \in [D -> LuaSpecs]
    BY DEF Registries
  <2> QED BY <2>1 DEF Registries
<1>2. ASSUME NEW D \in SUBSET DOMAIN Fold, IsFiniteSet(D), NEW r \in [D -> LuaSpecs]
      PROVE  r \in Registries
  <2>1. DOMAIN r = D
    OBVIOUS
  <2> QED BY <1>2, <2>1 DEF Registries
<1> QED BY <1>1, <1>2

\* define registers a spec under its name and changes no other name.
LEMMA DefineIs ==
  ASSUME NEW r \in Registries, NEW s \in LuaSpecs
  PROVE  /\ define(r, s) \in Registries
         /\ DOMAIN define(r, s) = DOMAIN r \cup {s.name}
         /\ define(r, s)[s.name] = s
         /\ \A n \in DOMAIN r : n # s.name => define(r, s)[n] = r[n]
<1> DEFINE D == DOMAIN r \cup {s.name}
           q == [n \in D |-> IF n = s.name THEN s ELSE r[n]]
<1>1. define(r, s) = q
  BY DEF define
<1>2. D \in SUBSET DOMAIN Fold /\ IsFiniteSet(D)
  <2>1. s.name \in DOMAIN Fold
    BY DEF LuaSpecs
  <2> QED BY <2>1, RegistryIs, FS_AddElement
<1>3. q \in [D -> LuaSpecs]
  BY RegistryIs
<1>4. q \in Registries
  <2> HIDE DEF q, D
  <2> QED BY <1>2, <1>3, RegistryIs
<1> QED BY <1>1, <1>4

\* Defining the specs of a sequence leaves under each name the last spec of that
\* name, or what was there before, and nothing else.
LEMMA DefineAllIs ==
  ASSUME NEW specs \in Registries, NEW decl \in Seq(LuaSpecs)
  PROVE  Defined(DefineAll(specs, decl), specs, decl, Len(decl))
<1>0. PICK n \in Nat : n = Len(decl)
  OBVIOUS
<1>1. \A i \in 1..n : decl[i] \in LuaSpecs
  BY <1>0
<1> DEFINE Eq(f) == f = [i \in 0..n |-> IF i = 0 THEN specs ELSE define(f[i-1], decl[i])]
           after == CHOOSE f : Eq(f)
<1>2. DefineAll(specs, decl) = after[n]
  BY <1>0, Zenon DEF DefineAll
<1>3. PICK F \in [0..n -> Registries] : F[0] = specs /\ \A i \in 1..n : F[i] = define(F[i-1], decl[i])
  <2> DEFINE g == [i \in 1..n |-> [r \in Registries |-> define(r, decl[i])]]
  <2>1. g \in [1..n -> [Registries -> Registries]]
    BY <1>1, DefineIs
  <2>2. \A i \in 1..n : \A r \in Registries : g[i][r] = define(r, decl[i])
    OBVIOUS
  <2> HIDE DEF g
  <2>3. PICK F \in [0..n -> Registries] : Follows(F, n, specs, g)
    BY <2>1, RecursionTo
  <2>4. \A i \in 1..n : i - 1 \in 0..n /\ F[i-1] \in Registries
    BY <2>3
  <2> QED BY <2>2, <2>3, <2>4 DEF Follows
<1>4. Eq(F)
  <2>1. \A i \in 0..n : i # 0 => i \in 1..n
    OBVIOUS
  <2>2. \A i \in 0..n : F[i] = IF i = 0 THEN specs ELSE define(F[i-1], decl[i])
    BY <1>3, <2>1
  <2> QED BY <2>2
<1>5. Eq(after)
  <2> HIDE DEF Eq
  <2> QED BY <1>4
<1> HIDE DEF after
<1>6. after[0] = specs /\ \A i \in 1..n : after[i] = define(after[i-1], decl[i])
  BY <1>5
<1> HIDE DEF Eq
<1> DEFINE T == {i \in 0..n : Defined(after[i], specs, decl, i)}
<1>7. 0 \in T
  BY <1>6 DEF Defined
<1>8. ASSUME NEW i \in 0..n-1, i \in T PROVE i + 1 \in T
  <2>1. i + 1 \in 1..n /\ (i + 1) - 1 = i /\ i \in Nat /\ i + 1 \in 0..n
    OBVIOUS
  <2>a. Defined(after[i], specs, decl, i) /\ decl[i+1] \in LuaSpecs /\ after[i+1] = define(after[i], decl[i+1])
    BY <1>1, <1>6, <1>8, <2>1
  <2>b. after[i] \in Registries
    BY <2>a DEF Defined
  <2>c. PICK r \in Registries : r = after[i]
    BY <2>b
  <2>d. PICK s \in LuaSpecs : s = decl[i+1]
    BY <2>a
  <2>e. PICK q : q = define(r, s)
    OBVIOUS
  <2>2. Defined(r, specs, decl, i) /\ s = decl[i+1] /\ q = after[i+1]
    BY <2>a, <2>c, <2>d, <2>e
  <2>3. /\ q \in Registries /\ DOMAIN q = DOMAIN r \cup {s.name} /\ q[s.name] = s
        /\ \A m \in DOMAIN r : m # s.name => q[m] = r[m]
    BY <2>e, DefineIs
  <2>4. ASSUME NEW m \in DOMAIN q
        PROVE  (m \in DOMAIN specs /\ q[m] = specs[m]) \/ \E k \in 1..i+1 : q[m] = decl[k]
    <3>1. CASE m = s.name
      BY <2>1, <2>2, <2>3, <3>1
    <3>2. CASE m # s.name
      <4>1. m \in DOMAIN r /\ q[m] = r[m]
        BY <2>3, <3>2
      <4>2. (m \in DOMAIN specs /\ r[m] = specs[m]) \/ \E k \in 1..i : r[m] = decl[k]
        BY <2>2, <4>1 DEF Defined
      <4>3. \A k \in 1..i : k \in 1..i+1
        BY <2>1
      <4> QED BY <4>1, <4>2, <4>3
    <3> QED BY <3>1, <3>2
  <2>5. ASSUME NEW k \in 1..i+1
        PROVE  /\ decl[k].name \in DOMAIN q
               /\ q[decl[k].name] = decl[k] \/ \E j \in k+1..i+1 : decl[j].name = decl[k].name
    <3>1. CASE k = i + 1
      BY <2>2, <2>3, <3>1
    <3>2. CASE k # i + 1
      <4>1. k \in 1..i /\ i + 1 \in k+1..i+1 /\ \A j \in k+1..i : j \in k+1..i+1
        BY <2>1, <3>2
      <4>2. /\ decl[k].name \in DOMAIN r
            /\ r[decl[k].name] = decl[k] \/ \E j \in k+1..i : decl[j].name = decl[k].name
        BY <2>2, <4>1 DEF Defined
      <4>3. CASE s.name = decl[k].name
        BY <2>2, <2>3, <4>1, <4>2, <4>3
      <4>4. CASE s.name # decl[k].name
        BY <2>2, <2>3, <4>1, <4>2, <4>4
      <4> QED BY <4>3, <4>4
    <3> QED BY <3>1, <3>2
  <2>6. Defined(q, specs, decl, i + 1)
    BY <2>3, <2>4, <2>5 DEF Defined
  <2> QED BY <2>1, <2>2, <2>6
<1> HIDE DEF T
<1>9. 0..n \subseteq T
  BY <1>7, <1>8, InductionTo
<1>10. Defined(after[n], specs, decl, n)
  BY <1>9 DEF T
<1> QED BY <1>0, <1>2, <1>10

-----------------------------------------------------------------------------
\* What a name means: its builtin, or else what the specs say.
Meaning(s) == IF BuiltinDefinition(s) # NoDef THEN BuiltinDefinition(s)
              ELSE LuaDefinition(registered, luaOrder, s)

\* A name was answered with its meaning, and one that the specs give a meaning
\* to only after they were read.
MeaningOK ==
  /\ answers \in [LookedUp -> SUBSET (Rows \cup {NoDef})]
  /\ \A s \in LookedUp : \A def \in answers[s] :
       def = Meaning(s) /\ (BuiltinDefinition(s) # NoDef \/ luaLoaded)

\* Two spellings of one name mean the same, to the table and to the specs.
LEMMA SameMeaning ==
  ASSUME NEW s \in Spellings
  PROVE  /\ Fold[s] \in LookedUp
         /\ BuiltinDefinition(Fold[s]) = BuiltinDefinition(s)
         /\ \A specs, order : LuaDefinition(specs, order, Fold[s]) = LuaDefinition(specs, order, s)
<1>1. Fold[Fold[s]] = Fold[s] /\ Fold[s] \in LookedUp
  BY RegistryAssumption DEF LookedUp
<1>2. \A names : Named(names, Fold[s]) = Named(names, s)
  BY <1>1 DEF Named
<1>3. \A spec : Matches(spec, Fold[s]) = Matches(spec, s)
  BY <1>2 DEF Matches
<1>4. BuiltinDefinition(Fold[s]) = BuiltinDefinition(s)
  BY <1>2 DEF BuiltinDefinition
<1>5. ASSUME NEW specs, NEW order
      PROVE  LuaDefinition(specs, order, Fold[s]) = LuaDefinition(specs, order, s)
  BY <1>3, Zenon DEF LuaDefinition
<1> QED BY <1>1, <1>4, <1>5

\* A step that answers nothing leaves every answer the meaning of its name, as
\* specs are read only while no name depends on them.
LEMMA MeaningKept ==
  ASSUME MeaningOK, answers' = answers, side' = side, luaLoaded => luaLoaded',
         ~luaLoaded \/ (registered' = registered /\ luaOrder' = luaOrder)
  PROVE  MeaningOK'
<1>1. ASSUME NEW s \in LookedUp, NEW def \in answers[s]
      PROVE  def = Meaning(s)' /\ (BuiltinDefinition(s) # NoDef \/ luaLoaded')
  <2>1. def = Meaning(s) /\ (BuiltinDefinition(s) # NoDef \/ luaLoaded)
    BY DEF MeaningOK
  <2>2. CASE BuiltinDefinition(s) # NoDef
    BY <2>1, <2>2 DEF Meaning
  <2>3. CASE BuiltinDefinition(s) = NoDef
    <3>1. luaLoaded /\ registered' = registered /\ luaOrder' = luaOrder
      BY <2>1, <2>3
    <3>2. LuaDefinition(registered, luaOrder, s)' = LuaDefinition(registered, luaOrder, s)
      BY <3>1 DEF LuaDefinition, Matches
    <3> QED BY <2>1, <2>3, <3>1, <3>2 DEF Meaning
  <2> QED BY <2>2, <2>3
<1>2. LookedUp' = LookedUp
  BY DEF LookedUp
<1> QED BY <1>1 DEF MeaningOK

\* Every step keeps the answers given the meanings of their names.
LEMMA MeaningStep ==
  ASSUME MeaningOK, luaLoaded \in BOOLEAN, [RegistryNext]_registryVars
  PROVE  MeaningOK' /\ luaLoaded' \in BOOLEAN
<1>1. ASSUME NEW c \in Callers, NEW s \in Spellings, find(c, s)
      PROVE  MeaningOK' /\ luaLoaded' \in BOOLEAN
  <2>0. side' = side /\ Fold[s] \in LookedUp
    BY <1>1, SameMeaning DEF find, HandOut
  <2>1. CASE BuiltinDefinition(s) # NoDef
    <3>1. /\ answers' = [answers EXCEPT ![Fold[s]] = @ \cup {BuiltinDefinition(s)}]
          /\ luaLoaded' = luaLoaded /\ registered' = registered /\ luaOrder' = luaOrder
      BY <1>1, <2>1 DEF find
    <3>2. \A t : LuaDefinition(registered, luaOrder, t)' = LuaDefinition(registered, luaOrder, t)
      BY <2>0, <3>1 DEF LuaDefinition, Matches
    <3>3. \A t : Meaning(t)' = Meaning(t)
      BY <3>2 DEF Meaning
    <3>4. answers' \in [LookedUp -> SUBSET (Rows \cup {NoDef})]
      BY <2>0, <3>1, DefinitionsAreRows DEF MeaningOK
    <3>5. ASSUME NEW t \in LookedUp, NEW def \in answers'[t]
          PROVE  def = Meaning(t)' /\ (BuiltinDefinition(t) # NoDef \/ luaLoaded')
      <4>1. CASE def \in answers[t]
        BY <3>1, <3>3, <4>1 DEF MeaningOK
      <4>2. CASE def \notin answers[t]
        <5>1. t = Fold[s] /\ def = BuiltinDefinition(s)
          BY <2>0, <3>1, <4>2 DEF MeaningOK
        <5>2. BuiltinDefinition(t) = BuiltinDefinition(s)
          BY <5>1, SameMeaning
        <5> QED BY <2>1, <3>3, <5>1, <5>2 DEF Meaning
      <4> QED BY <4>1, <4>2
    <3> QED BY <3>1, <3>4, <3>5 DEF MeaningOK
  <2>2. CASE BuiltinDefinition(s) = NoDef
    <3> DEFINE lua == LuaDefinition(registered', luaOrder', s)
    <3>1. /\ answers' = [answers EXCEPT ![Fold[s]] = @ \cup {lua}] /\ LoadProfiles
      BY <1>1, <2>2 DEF find
    <3>2. luaLoaded' = TRUE /\ (luaLoaded => registered' = registered /\ luaOrder' = luaOrder)
      BY <3>1 DEF LoadProfiles
    <3>3. lua = LuaDefinition(registered, luaOrder, s)'
      BY <2>0 DEF LuaDefinition, Matches
    <3>4. lua \in Rows \cup {NoDef}
      BY DefinitionsAreRows
    <3> HIDE DEF lua
    <3>5. answers' \in [LookedUp -> SUBSET (Rows \cup {NoDef})]
      BY <2>0, <3>1, <3>4 DEF MeaningOK
    <3>6. ASSUME NEW t \in LookedUp, NEW def \in answers'[t]
          PROVE  def = Meaning(t)'
      <4>1. CASE def \in answers[t]
        <5>1. def = Meaning(t) /\ (BuiltinDefinition(t) # NoDef \/ luaLoaded)
          BY <4>1 DEF MeaningOK
        <5>2. CASE BuiltinDefinition(t) # NoDef
          BY <5>1, <5>2 DEF Meaning
        <5>3. CASE BuiltinDefinition(t) = NoDef
          <6>1. registered' = registered /\ luaOrder' = luaOrder
            BY <3>2, <5>1, <5>3
          <6>2. LuaDefinition(registered, luaOrder, t)' = LuaDefinition(registered, luaOrder, t)
            BY <2>0, <6>1 DEF LuaDefinition, Matches
          <6> QED BY <5>1, <5>3, <6>2 DEF Meaning
        <5> QED BY <5>2, <5>3
      <4>2. CASE def \notin answers[t]
        <5>1. t = Fold[s] /\ def = lua
          BY <2>0, <3>1, <4>2 DEF MeaningOK
        <5>2. BuiltinDefinition(t) = NoDef /\ LuaDefinition(registered, luaOrder, t)' = LuaDefinition(registered, luaOrder, s)'
          <6>1. BuiltinDefinition(t) = NoDef
            BY <2>2, <5>1, SameMeaning
          <6>2. LuaDefinition(registered', luaOrder', t) = LuaDefinition(registered', luaOrder', s)
            BY <5>1, SameMeaning
          <6>3. LuaDefinition(registered', luaOrder', t) = LuaDefinition(registered, luaOrder, t)'
            BY <2>0 DEF LuaDefinition, Matches
          <6> QED BY <3>3, <6>1, <6>2, <6>3 DEF lua
        <5> QED BY <3>3, <5>1, <5>2 DEF Meaning
      <4> QED BY <4>1, <4>2
    <3> QED BY <3>2, <3>5, <3>6 DEF MeaningOK
  <2> QED BY <2>1, <2>2
<1>2. ASSUME NEW c \in Callers, NEW s \in Spellings, NEW n, LoadThrows(c, s, n)
      PROVE  MeaningOK' /\ luaLoaded' \in BOOLEAN
  BY <1>2, MeaningKept DEF LoadThrows, HandOut
<1>3. ASSUME NEW p \in 1..Profiles, NEW content \in Contents, EditProfile(p, content)
      PROVE  MeaningOK' /\ luaLoaded' \in BOOLEAN
  BY <1>3, MeaningKept DEF EditProfile
<1>4. ASSUME NEW c \in Callers,
             \/ Enter(c) \/ initialize_builtin_registry(c) \/ count(c)
             \/ \E k \in {KindOf[t] : t \in DOMAIN KindOf} : olnk_find_machine_by_kind(c, k)
             \/ \E i \in Rows : builtin_machine_create(c, i)
             \/ \E i \in Rows \cup {Len(Builtins) + 1} : at(c, i)
      PROVE  MeaningOK' /\ luaLoaded' \in BOOLEAN
  <2>1. UNCHANGED <<answers, side, luaLoaded, registered, luaOrder>>
    BY <1>4 DEF Enter, initialize_builtin_registry, count, olnk_find_machine_by_kind,
                builtin_machine_create, at, HandOut
  <2> QED BY <2>1, MeaningKept
<1>5. ASSUME NEW c \in Callers, NEW s \in Spellings, WalkThrows(c, s)
      PROVE  MeaningOK' /\ luaLoaded' \in BOOLEAN
  <2>1. answers' = answers /\ side' = side /\ LoadProfiles
    BY <1>5 DEF WalkThrows, HandOut
  <2>2. luaLoaded' = TRUE /\ (~luaLoaded \/ (registered' = registered /\ luaOrder' = luaOrder))
    BY <2>1 DEF LoadProfiles
  <2> QED BY <2>1, <2>2, MeaningKept
<1>6. CASE UNCHANGED registryVars
  BY <1>6, MeaningKept DEF registryVars
<1> QED BY <1>1, <1>2, <1>3, <1>4, <1>5, <1>6 DEF RegistryNext

\* In every reachable state the answers given are the meanings of the names.
LEMMA MeaningInvariant == RegistrySpec => [](MeaningOK /\ luaLoaded \in BOOLEAN)
<1>1. RegistryInit => MeaningOK /\ luaLoaded \in BOOLEAN
  BY DEF RegistryInit, MeaningOK
<1>2. (MeaningOK /\ luaLoaded \in BOOLEAN) /\ [RegistryNext]_registryVars
        => (MeaningOK /\ luaLoaded \in BOOLEAN)'
  BY MeaningStep
<1> QED BY <1>1, <1>2, PTL DEF RegistrySpec

\* A name has one meaning for the life of the process, whatever profiles are
\* edited, loads fail half way and order Lua walks in.
THEOREM OneMeaningCorrect == RegistrySpec => []OneMeaning
<1>1. MeaningOK => OneMeaning
  <2> SUFFICES ASSUME MeaningOK, NEW s \in LookedUp PROVE Cardinality(answers[s]) <= 1
    BY DEF OneMeaning
  <2>1. answers[s] \subseteq {Meaning(s)}
    BY DEF MeaningOK
  <2>2. IsFiniteSet({Meaning(s)}) /\ Cardinality({Meaning(s)}) = 1
    BY FS_Singleton
  <2> QED BY <2>1, <2>2, FS_Subset
<1> QED BY <1>1, MeaningInvariant, PTL

-----------------------------------------------------------------------------
\* The places at which the parts of a flattened sequence begin do not decrease.
LEMMA LaterStandsLater ==
  ASSUME NEW n \in Nat, NEW off \in [0..n -> Nat], NEW len \in [1..n -> Nat],
         \A p \in 1..n : off[p] = off[p-1] + len[p]
  PROVE  \A a, b \in 0..n : a <= b => off[a] <= off[b]
<1> DEFINE T == {b \in 0..n : \A a \in 0..n : a <= b => off[a] <= off[b]}
<1>1. 0 \in T
  OBVIOUS
<1>2. ASSUME NEW i \in 0..n-1, i \in T PROVE i + 1 \in T
  <2>1. i + 1 \in 1..n /\ (i + 1) - 1 = i /\ i \in 0..n /\ i + 1 \in 0..n
    OBVIOUS
  <2>2. off[i+1] = off[i] + len[i+1] /\ len[i+1] \in Nat /\ off[i] \in Nat
    BY <2>1
  <2>3. ASSUME NEW a \in 0..n, a <= i + 1 PROVE off[a] <= off[i+1]
    <3>1. CASE a = i + 1
      BY <2>1, <2>2, <3>1
    <3>2. CASE a <= i
      BY <1>2, <2>2, <3>2
    <3> QED BY <2>3, <3>1, <3>2
  <2> QED BY <2>1, <2>3
<1> HIDE DEF T
<1>3. 0..n \subseteq T
  BY <1>1, <1>2, InductionTo
<1> QED BY <1>3 DEF T

\* Of two elements of a flattened sequence the later is in a later part, or
\* further on in the same.
LEMMA LaterComesLater ==
  ASSUME NEW n \in Nat, NEW off \in [0..n -> Nat], NEW len \in [1..n -> Nat],
         \A p \in 1..n : off[p] = off[p-1] + len[p],
         NEW p \in 1..n, NEW q \in 1..n, NEW i \in 1..len[p], NEW j \in 1..len[q],
         off[q-1] + j > off[p-1] + i
  PROVE  q >= p /\ (q = p => j > i)
<1>1. /\ q - 1 \in 0..n /\ q \in 0..n /\ p - 1 \in 0..n
  OBVIOUS
<1>2. /\ off[q-1] \in Nat /\ off[q] \in Nat /\ off[p-1] \in Nat /\ off[q] = off[q-1] + len[q]
      /\ len[q] \in Nat /\ len[p] \in Nat
  BY <1>1
<1>3. i \in Nat /\ j \in Nat /\ j <= len[q]
  BY <1>2
<1>4. \A a, b \in 0..n : a <= b => off[a] <= off[b]
  BY LaterStandsLater
<1>5. SUFFICES ASSUME q < p PROVE FALSE
  BY <1>2, <1>3
<1>6. q <= p - 1
  BY <1>5
<1>7. off[q] <= off[p-1]
  BY <1>1, <1>4, <1>6
<1>8. PICK a \in Nat, b \in Nat, d \in Nat, x \in Nat, y \in Nat :
        a = off[q-1] /\ b = off[p-1] /\ d = len[q] /\ x = i /\ y = j
  BY <1>2, <1>3
<1>9. a + y > b + x /\ y <= d /\ a + d <= b
  BY <1>2, <1>3, <1>7, <1>8
<1> QED BY <1>9

\* Spec i of part p is registered, or a later spec of its name is declared.
Effective(r, ss, p, i) ==
  \/ ss[p][i].name \in DOMAIN r /\ r[ss[p][i].name] = ss[p][i]
  \/ \E q \in p..Len(ss) : \E j \in 1..Len(ss[q]) :
       (q = p => j > i) /\ ss[q][j].name = ss[p][i].name

\* Specs defined part by part: each is registered at the end unless a later one
\* has its name.
LEMMA TakesEffect ==
  ASSUME NEW specs \in Registries, NEW ss \in Seq(Seq(LuaSpecs)),
         NEW p \in 1..Len(ss), NEW i \in 1..Len(ss[p])
  PROVE  Effective(DefineAll(specs, FlattenSeq(ss)), ss, p, i)
<1> DEFINE L == LuaSpecs
<1>1. FlattenSeq(ss) \in Seq(L) /\ \E off \in [0..Len(ss) -> Nat] : StandsAt(FlattenSeq(ss), ss, off)
  <2>1. ss \in Seq(Seq(L))
    OBVIOUS
  <2> HIDE DEF L
  <2> QED BY <2>1, FlattenIs
<1>2. PICK flat \in Seq(LuaSpecs) : flat = FlattenSeq(ss)
  BY <1>1
<1>3. PICK off \in [0..Len(ss) -> Nat] : StandsAt(flat, ss, off)
  BY <1>1, <1>2
<1>4. PICK r : r = DefineAll(specs, flat)
  OBVIOUS
<1>5. Defined(r, specs, flat, Len(flat))
  BY <1>4, DefineAllIs
<1>6. PICK n \in Nat : n = Len(ss)
  OBVIOUS
<1> DEFINE len == [q \in 1..n |-> Len(ss[q])]
<1>7. len \in [1..n -> Nat] /\ \A q \in 1..n : len[q] = Len(ss[q])
  BY <1>6
<1> HIDE DEF len
<1>8. /\ off \in [0..n -> Nat] /\ \A q \in 1..n : off[q] = off[q-1] + len[q]
  BY <1>3, <1>6, <1>7 DEF StandsAt
<1>10. /\ p \in 1..n /\ p - 1 \in 0..n /\ off[p-1] \in Nat /\ i \in Nat
       /\ i \in 1..len[p] /\ off[p-1] + i <= off[n] /\ off[n] = Len(flat)
       /\ flat[off[p-1] + i] = ss[p][i]
  <2>1. p \in 1..n /\ p - 1 \in 0..n /\ n \in 0..n /\ off[p-1] \in Nat /\ off[n] \in Nat
    <3>1. p \in 1..n /\ p - 1 \in 0..n /\ n \in 0..n
      BY <1>6
    <3> QED BY <1>8, <3>1
  <2>2. Len(ss[p]) = len[p] /\ len[p] \in Nat
    BY <1>7, <2>1
  <2>3. i \in 1..len[p] /\ i \in Nat
    BY <2>2
  <2>4. /\ off[p-1] + i <= off[Len(ss)] /\ Len(flat) = off[Len(ss)]
        /\ flat[off[p-1] + i] = ss[p][i]
    BY <1>3 DEF StandsAt
  <2> QED BY <1>6, <2>1, <2>3, <2>4
<1>11. PICK k \in 1..Len(flat) : k = off[p-1] + i
  BY <1>10
<1>12. flat[k].name \in DOMAIN r /\ (r[flat[k].name] = flat[k] \/ \E j \in k+1..Len(flat) : flat[j].name = flat[k].name)
  BY <1>5 DEF Defined
<1>13. flat[k] = ss[p][i]
  BY <1>10, <1>11
<1>14. ASSUME r[flat[k].name] = flat[k]
       PROVE  ss[p][i].name \in DOMAIN r /\ r[ss[p][i].name] = ss[p][i]
  BY <1>12, <1>13, <1>14
<1>15. ASSUME NEW x \in k+1..Len(flat), flat[x].name = flat[k].name
       PROVE  \E q \in p..Len(ss) : \E j \in 1..Len(ss[q]) :
                  (q = p => j > i) /\ ss[q][j].name = ss[p][i].name
  <2>1. x \in 1..off[n]
    BY <1>10
  <2>2. PICK q \in 1..n : \E j \in 1..Len(ss[q]) : x = off[q-1] + j
    BY <1>3, <1>6, <2>1 DEF StandsAt
  <2>3. PICK j \in 1..Len(ss[q]) : x = off[q-1] + j
    BY <2>2
  <2>4. flat[x] = ss[q][j]
    BY <1>3, <1>6, <2>3 DEF StandsAt
  <2>5. /\ j \in 1..len[q] /\ q - 1 \in 0..n /\ q \in 0..n /\ off[q] = off[q-1] + len[q]
        /\ off[q-1] \in Nat /\ off[q] \in Nat /\ len[q] \in Nat
    <3>1. q - 1 \in 0..n /\ q \in 0..n /\ off[q] = off[q-1] + len[q]
      BY <1>8
    <3>2. off[q-1] \in Nat /\ off[q] \in Nat
      BY <1>8, <3>1
    <3>3. len[q] \in Nat /\ Len(ss[q]) = len[q]
      BY <1>7
    <3>4. j \in 1..len[q]
      BY <3>3
    <3> QED BY <3>1, <3>2, <3>3, <3>4
  <2>6. off[q-1] + j > off[p-1] + i
    <3>1. k \in Nat /\ x \in Nat /\ x > k
      OBVIOUS
    <3> QED BY <1>11, <2>3, <3>1
  <2>7. q >= p /\ (q = p => j > i)
    BY <1>7, <1>8, <1>10, <2>5, <2>6, LaterComesLater
  <2>9. q \in p..Len(ss)
    BY <1>6, <2>7
  <2> QED BY <1>13, <1>15, <2>4, <2>7, <2>9
<1>17. Effective(r, ss, p, i)
  BY <1>12, <1>14, <1>15 DEF Effective
<1> QED BY <1>2, <1>4, <1>17

\* A profile declares specs, those in front of its first bad one.
LEMMA DeclaredIs ==
  ASSUME NEW content \in Contents
  PROVE  Declared(content) \in Seq(LuaSpecs)
<1>1. CASE content = Unreadable
  BY <1>1 DEF Declared
<1>2. CASE content # Unreadable
  <2>1. content \in Seq(LuaSpecs \cup {BadSpec})
    BY <1>2, RegistryAssumption
  <2>2. PICK n \in Nat : n = Len(content) /\ DOMAIN content = 1..n
    BY <2>1
  <2> DEFINE bad == {i \in DOMAIN content : content[i] = BadSpec}
  <2>3. \A i \in 1..n : content[i] = BadSpec \/ content[i] \in LuaSpecs
    BY <2>1, <2>2
  <2>4. CASE bad = {}
    <3>1. \A i \in 1..n : content[i] \in LuaSpecs
      BY <2>2, <2>3, <2>4
    <3>2. content = [i \in 1..n |-> content[i]]
      BY <2>1, <2>2
    <3>3. content \in Seq(LuaSpecs)
      BY <3>1, <3>2
    <3> QED BY <1>2, <2>4, <3>3 DEF Declared
  <2>5. CASE bad # {}
    <3>1. bad \subseteq Nat
      BY <2>2
    <3>2. PICK m \in bad : m = Min(bad) /\ \A y \in bad : m <= y
      <4> HIDE DEF bad
      <4> QED BY <2>5, <3>1, LeastIs
    <3>3. m \in 1..n /\ m - 1 \in 0..n
      BY <2>2
    <3>4. \A i \in 1..m-1 : content[i] \in LuaSpecs
      <4> SUFFICES ASSUME NEW i \in 1..m-1 PROVE content[i] \in LuaSpecs
        OBVIOUS
      <4>1. i \in 1..n /\ ~(m <= i)
        BY <3>3
      <4>2. i \notin bad
        BY <3>2, <4>1
      <4> QED BY <2>2, <2>3, <4>1, <4>2
    <3>5. SubSeq(content, 1, m - 1) \in Seq(LuaSpecs)
      <4>1. SubSeq(content, 1, m - 1) = [i \in 1..m-1 |-> content[i]]
        BY <2>1, <2>2, <3>3
      <4> QED BY <3>3, <3>4, <4>1
    <3>6. Declared(content) = SubSeq(content, 1, m - 1)
      BY <1>2, <2>5, <3>2 DEF Declared
    <3> QED BY <3>5, <3>6
  <2> QED BY <2>4, <2>5
<1> QED BY <1>1, <1>2

\* Lua walks over the names of the registered specs, each once.
SpecsOK ==
  /\ profile \in [1..Profiles -> Contents]
  /\ registered \in Registries
  /\ DOMAIN luaOrder \subseteq Nat
  /\ \A i \in DOMAIN luaOrder : luaOrder[i] \in DOMAIN registered
  /\ \A n \in DOMAIN registered : \E i \in DOMAIN luaOrder : luaOrder[i] = n

\* A sequence of a finite set's elements without repetition has them all.
LEMMA OrderIsWhole ==
  ASSUME NEW S, IsFiniteSet(S), NEW order \in SetToSeqs(S)
  PROVE  /\ DOMAIN order \subseteq Nat /\ \A i \in DOMAIN order : order[i] \in S
         /\ \A n \in S : \E i \in DOMAIN order : order[i] = n
<1>1. PICK c \in Nat : c = Cardinality(S)
  BY FS_CardinalityType
<1>2. order \in [1..c -> S] /\ \A i, j \in 1..c : i # j => order[i] # order[j]
  BY <1>1 DEF SetToSeqs
<1>3. order \in Injection(1..c, S)
  BY <1>2 DEF Injection, IsInjective
<1>4. Cardinality(1..c) = c
  BY FS_Interval
<1>5. order \in Surjection(1..c, S)
  BY <1>1, <1>3, <1>4, FS_Injection
<1> QED BY <1>2, <1>5 DEF Surjection

\* Running profiles leaves specs registered and Lua an order of their names.
LEMMA RunProfilesIs ==
  ASSUME SpecsOK, NEW n \in 0..Profiles, RunProfiles(n), profile' = profile
  PROVE  /\ SpecsOK'
         /\ [p \in 1..n |-> Declared(profile[p])] \in Seq(Seq(LuaSpecs))
<1> DEFINE ss == [p \in 1..n |-> Declared(profile[p])]
           L == LuaSpecs
<1>1. n \in Nat /\ 1..n \subseteq 1..Profiles
  BY RegistryAssumption
<1>2. \A p \in 1..n : Declared(profile[p]) \in Seq(L)
  BY <1>1, DeclaredIs DEF SpecsOK
<1>3. ss \in Seq(Seq(L))
  <2> HIDE DEF L
  <2> QED BY <1>1, <1>2
<1>4. FlattenSeq(ss) \in Seq(L)
  <2> HIDE DEF L, ss
  <2> QED BY <1>3, FlattenIs
<1>5. PICK decl \in Seq(LuaSpecs) : decl = DeclaredBy(n)
  BY <1>4 DEF DeclaredBy
<1>6. PICK r : r = DefineAll(registered, decl)
  OBVIOUS
<1>7. Defined(r, registered, decl, Len(decl))
  BY <1>6, DefineAllIs DEF SpecsOK
<1>8. registered' = r
  BY <1>5, <1>6 DEF RunProfiles
<1>9. r \in Registries
  BY <1>7 DEF Defined
<1>11. /\ DOMAIN luaOrder' \subseteq Nat /\ \A i \in DOMAIN luaOrder' : luaOrder'[i] \in DOMAIN r
       /\ \A m \in DOMAIN r : \E i \in DOMAIN luaOrder' : luaOrder'[i] = m
  <2>1. CASE DOMAIN r = DOMAIN registered
    <3>1. luaOrder' = luaOrder
      BY <1>8, <2>1 DEF RunProfiles
    <3> QED BY <2>1, <3>1 DEF SpecsOK
  <2>2. CASE DOMAIN r # DOMAIN registered
    <3>1. luaOrder' \in SetToSeqs(DOMAIN r)
      BY <1>8, <2>2 DEF RunProfiles
    <3>2. IsFiniteSet(DOMAIN r)
      BY <1>9, RegistryIs
    <3> QED BY <3>1, <3>2, OrderIsWhole
  <2> QED BY <2>1, <2>2
<1>12. SpecsOK'
  BY <1>8, <1>9, <1>11 DEF SpecsOK
<1> QED BY <1>3, <1>12

\* Every spec that the profiles of a load declare is registered or replaced by
\* a later one, those of broken profiles too.
SpecsTakeEffect ==
  luaLoaded =>
    /\ DOMAIN read = 1..Profiles /\ \A p \in 1..Profiles : read[p] \in Contents
    /\ \A p \in DOMAIN read : \A i \in DOMAIN Declared(read[p]) :
         LET s == Declared(read[p])[i]
         IN \/ s.name \in DOMAIN registered /\ registered[s.name] = s
            \/ \E q \in p..Profiles : \E j \in DOMAIN Declared(read[q]) :
                 (q = p => j > i) /\ Declared(read[q])[j].name = s.name

\* A load that goes through all profiles leaves each spec of theirs registered
\* or replaced by a later one.
LEMMA LoadTakesEffect ==
  ASSUME SpecsOK, RunProfiles(Profiles), profile' = profile
  PROVE  SpecsTakeEffect'
<1> DEFINE ss == [p \in 1..Profiles |-> Declared(profile[p])]
<1>1. Profiles \in Nat /\ Profiles \in 0..Profiles
  BY RegistryAssumption
<1>2. ss \in Seq(Seq(LuaSpecs)) /\ Len(ss) = Profiles
  BY <1>1, RunProfilesIs
<1>3. \A p \in 1..Profiles : ss[p] = Declared(profile[p]) /\ ss[p] \in Seq(LuaSpecs)
  BY <1>1, DeclaredIs DEF SpecsOK
<1>4. registered' = DefineAll(registered, FlattenSeq(ss)) /\ read' = SubSeq(profile, 1, Profiles)
  BY DEF RunProfiles, DeclaredBy
<1> HIDE DEF ss
<1>5. PICK loaded : loaded = read'
  OBVIOUS
<1>6. DOMAIN loaded = 1..Profiles /\ \A p \in 1..Profiles : loaded[p] = profile[p]
  <2>1. profile \in Seq(Contents) /\ Len(profile) = Profiles
    BY <1>1 DEF SpecsOK
  <2> QED BY <1>1, <1>4, <1>5, <2>1
<1>7. PICK r : r = registered'
  OBVIOUS
<1>8. ASSUME NEW p \in 1..Len(ss), NEW i \in 1..Len(ss[p])
      PROVE  Effective(r, ss, p, i)
  <2>1. PICK reg \in Registries : reg = registered
    BY DEF SpecsOK
  <2>2. r = DefineAll(reg, FlattenSeq(ss))
    BY <1>4, <1>7, <2>1
  <2>3. Effective(DefineAll(reg, FlattenSeq(ss)), ss, p, i)
    BY <1>2, TakesEffect
  <2> QED BY <2>2, <2>3
<1>9. \A p \in 1..Profiles : DOMAIN ss[p] = 1..Len(ss[p]) /\ Declared(loaded[p]) = ss[p]
  BY <1>3, <1>6
<1>10. ASSUME NEW p \in DOMAIN loaded, NEW i \in DOMAIN Declared(loaded[p]), NEW s, s = Declared(loaded[p])[i]
       PROVE  \/ s.name \in DOMAIN r /\ r[s.name] = s
              \/ \E q \in p..Profiles : \E j \in DOMAIN Declared(loaded[q]) :
                   (q = p => j > i) /\ Declared(loaded[q])[j].name = s.name
  <2>1. p \in 1..Profiles /\ i \in 1..Len(ss[p]) /\ s = ss[p][i]
    BY <1>6, <1>9, <1>10
  <2>2. ASSUME NEW q \in p..Profiles, NEW j \in 1..Len(ss[q]), q = p => j > i, ss[q][j].name = s.name
        PROVE  /\ q \in 1..Profiles /\ j \in DOMAIN Declared(loaded[q])
               /\ Declared(loaded[q])[j].name = s.name
    <3>1. q \in 1..Profiles
      BY <1>1, <2>1
    <3>2. Declared(loaded[q]) = ss[q] /\ DOMAIN ss[q] = 1..Len(ss[q])
      BY <1>9, <3>1
    <3> QED BY <2>2, <3>1, <3>2
  <2>3. Effective(r, ss, p, i)
    BY <1>2, <1>8, <2>1
  <2> QED BY <1>2, <2>1, <2>2, <2>3 DEF Effective
<1>11. \A p \in 1..Profiles : loaded[p] \in Contents
  BY <1>6 DEF SpecsOK
<1> QED BY <1>5, <1>6, <1>7, <1>10, <1>11 DEF SpecsTakeEffect

\* Every step keeps the registered specs those that were read, and what a load
\* registered.
LEMMA SpecsStep ==
  ASSUME SpecsOK, SpecsTakeEffect, luaLoaded \in BOOLEAN, [RegistryNext]_registryVars
  PROVE  SpecsOK' /\ SpecsTakeEffect'
<1>1. ASSUME registered' = registered, luaOrder' = luaOrder, read' = read, luaLoaded' = luaLoaded,
             profile' \in [1..Profiles -> Contents]
      PROVE  SpecsOK' /\ SpecsTakeEffect'
  BY <1>1 DEF SpecsOK, SpecsTakeEffect
<1>2. ASSUME NEW c \in Callers, NEW s \in Spellings, find(c, s)
      PROVE  SpecsOK' /\ SpecsTakeEffect'
  <2>1. profile' = profile
    BY <1>2 DEF find, HandOut
  <2>2. CASE BuiltinDefinition(s) # NoDef \/ luaLoaded
    <3>1. UNCHANGED <<registered, luaOrder, read, luaLoaded>>
      BY <1>2, <2>2 DEF find, LoadProfiles
    <3> QED BY <1>1, <2>1, <3>1 DEF SpecsOK
  <2>3. CASE BuiltinDefinition(s) = NoDef /\ ~luaLoaded
    <3>1. RunProfiles(Profiles)
      BY <1>2, <2>3 DEF find, LoadProfiles
    <3>2. Profiles \in 0..Profiles
      BY RegistryAssumption
    <3> QED BY <2>1, <3>1, <3>2, RunProfilesIs, LoadTakesEffect
  <2> QED BY <2>2, <2>3
<1>3. ASSUME NEW c \in Callers, NEW s \in Spellings, NEW n \in 0..Profiles-1, LoadThrows(c, s, n)
      PROVE  SpecsOK' /\ SpecsTakeEffect'
  <2>1. profile' = profile /\ RunProfiles(n) /\ ~luaLoaded'
    BY <1>3 DEF LoadThrows, HandOut
  <2>2. n \in 0..Profiles
    BY RegistryAssumption
  <2>3. SpecsOK'
    BY <2>1, <2>2, RunProfilesIs
  <2> QED BY <2>1, <2>3 DEF SpecsTakeEffect
<1>4. ASSUME NEW p \in 1..Profiles, NEW content \in Contents, EditProfile(p, content)
      PROVE  SpecsOK' /\ SpecsTakeEffect'
  <2>1. profile' \in [1..Profiles -> Contents]
    BY <1>4 DEF EditProfile, SpecsOK
  <2> QED BY <1>1, <1>4, <2>1 DEF EditProfile
<1>5. ASSUME NEW c \in Callers,
             \/ Enter(c) \/ initialize_builtin_registry(c) \/ count(c)
             \/ \E k \in {KindOf[t] : t \in DOMAIN KindOf} : olnk_find_machine_by_kind(c, k)
             \/ \E i \in Rows : builtin_machine_create(c, i)
             \/ \E i \in Rows \cup {Len(Builtins) + 1} : at(c, i)
      PROVE  SpecsOK' /\ SpecsTakeEffect'
  <2>1. UNCHANGED <<profile, read, luaLoaded, registered, luaOrder>>
    BY <1>5 DEF Enter, initialize_builtin_registry, count, olnk_find_machine_by_kind,
                builtin_machine_create, at, HandOut
  <2> QED BY <1>1, <2>1 DEF SpecsOK
<1>6. ASSUME NEW c \in Callers, NEW s \in Spellings, WalkThrows(c, s)
      PROVE  SpecsOK' /\ SpecsTakeEffect'
  <2>1. profile' = profile /\ LoadProfiles
    BY <1>6 DEF WalkThrows, HandOut
  <2>2. CASE luaLoaded
    <3>1. UNCHANGED <<registered, luaOrder, read, luaLoaded>>
      BY <2>1, <2>2 DEF LoadProfiles
    <3> QED BY <1>1, <2>1, <3>1 DEF SpecsOK
  <2>3. CASE ~luaLoaded
    <3>1. RunProfiles(Profiles)
      BY <2>1, <2>3 DEF LoadProfiles
    <3>2. Profiles \in 0..Profiles
      BY RegistryAssumption
    <3> QED BY <2>1, <3>1, <3>2, RunProfilesIs, LoadTakesEffect
  <2> QED BY <2>2, <2>3
<1>7. CASE UNCHANGED registryVars
  BY <1>1, <1>7 DEF registryVars, SpecsOK
<1> QED BY <1>2, <1>3, <1>4, <1>5, <1>6, <1>7 DEF RegistryNext

\* In every reachable state the registered specs were read from profiles, and a
\* load that went through took effect.
LEMMA SpecsInvariant == RegistrySpec => [](SpecsOK /\ SpecsTakeEffect)
<1>1. RegistryInit => SpecsOK /\ SpecsTakeEffect
  <2> SUFFICES ASSUME RegistryInit PROVE SpecsOK /\ SpecsTakeEffect
    OBVIOUS
  <2> DEFINE none == [x \in {} |-> x]
  <2>1. none \in Registries
    <3>1. IsFiniteSet({})
      BY FS_EmptySet
    <3>2. none \in [{} -> LuaSpecs] /\ {} \in SUBSET DOMAIN Fold
      OBVIOUS
    <3> QED BY <3>1, <3>2, RegistryIs
  <2>2. registered = none
    BY DEF RegistryInit
  <2>3. luaOrder = << >> /\ profile \in [1..Profiles -> Contents] /\ luaLoaded = FALSE
    BY DEF RegistryInit
  <2> QED BY <2>1, <2>2, <2>3 DEF SpecsOK, SpecsTakeEffect
<1>2. (SpecsOK /\ SpecsTakeEffect) /\ luaLoaded \in BOOLEAN /\ [RegistryNext]_registryVars
        => (SpecsOK /\ SpecsTakeEffect)'
  BY SpecsStep
<1> QED BY <1>1, <1>2, MeaningInvariant, PTL DEF RegistrySpec

\* An intact profile declares all it holds.
LEMMA IntactDeclaresAll ==
  ASSUME NEW content \in Contents, Intact(content)
  PROVE  Declared(content) = content
<1>1. content \in Seq(LuaSpecs \cup {BadSpec})
  BY RegistryAssumption DEF Intact
<1>2. {i \in DOMAIN content : content[i] = BadSpec} = {}
  BY <1>1 DEF Intact, ToSet
<1> QED BY <1>2, Zenon DEF Intact, Declared

\* The names a registry knows are those of its builtins and of its registered
\* specs, with the meaning declared there, and the specs of intact profiles are
\* registered, for any profiles and any order.
THEOREM AnswersAreCorrect == RegistrySpec => []AnswersCorrect
<1>1. MeaningOK /\ SpecsOK => AnswersJustified
  <2> SUFFICES ASSUME MeaningOK, SpecsOK, NEW s \in LookedUp, NEW def \in answers[s]
               PROVE  IF BuiltinDefinition(s) # NoDef THEN def = BuiltinDefinition(s)
                      ELSE IF SaidBySpecs(s) = {} THEN def = NoDef
                      ELSE def \in SaidBySpecs(s)
    BY DEF AnswersJustified
  <2>1. def = Meaning(s)
    BY DEF MeaningOK
  <2>2. CASE BuiltinDefinition(s) # NoDef
    BY <2>1, <2>2 DEF Meaning
  <2>3. CASE BuiltinDefinition(s) = NoDef
    <3> DEFINE hits == {i \in DOMAIN luaOrder : Matches(registered[luaOrder[i]], s)}
    <3>1. def = IF hits = {} THEN NoDef ELSE ByKind(KindOf[Fold[registered[luaOrder[Min(hits)]].target]])
      BY <2>1, <2>3, Zenon DEF Meaning, LuaDefinition
    <3>2. CASE hits = {}
      <4>1. ~\E m \in DOMAIN registered : Matches(registered[m], s)
        BY <3>2 DEF SpecsOK
      <4>2. SaidBySpecs(s) = {}
        BY <4>1 DEF SaidBySpecs
      <4> QED BY <2>3, <3>1, <3>2, <4>2
    <3>3. CASE hits # {}
      <4>1. hits \subseteq Nat
        BY DEF SpecsOK
      <4>2. Min(hits) \in hits
        <5> HIDE DEF hits
        <5> QED BY <3>3, <4>1, LeastIs
      <4>3. PICK m : m = Min(hits)
        OBVIOUS
      <4>4. m \in DOMAIN luaOrder /\ Matches(registered[luaOrder[m]], s)
        BY <4>2, <4>3
      <4>5. luaOrder[m] \in DOMAIN registered
        BY <4>4 DEF SpecsOK
      <4>6. def = ByKind(KindOf[Fold[registered[luaOrder[m]].target]])
        BY <3>1, <3>3, <4>3
      <4>7. def \in SaidBySpecs(s)
        BY <4>4, <4>5, <4>6 DEF SaidBySpecs
      <4> QED BY <2>3, <4>7
    <3> QED BY <3>2, <3>3
  <2> QED BY <2>2, <2>3
<1>2. SpecsTakeEffect => ProfilesTakeEffect
  <2> SUFFICES ASSUME SpecsTakeEffect, luaLoaded,
                      NEW p \in DOMAIN read, Intact(read[p]), NEW i \in DOMAIN read[p],
                      NEW s, s = read[p][i]
               PROVE  \/ s.name \in DOMAIN registered /\ registered[s.name] = s
                      \/ \E q \in p..Profiles : \E j \in DOMAIN Declared(read[q]) :
                           /\ q = p => j > i
                           /\ Declared(read[q])[j].name = s.name
    BY Zenon DEF ProfilesTakeEffect
  <2>1. read[p] \in Contents
    BY DEF SpecsTakeEffect
  <2>2. Declared(read[p]) = read[p]
    BY <2>1, IntactDeclaresAll
  <2> QED BY <2>2 DEF SpecsTakeEffect
<1>3. MeaningOK /\ SpecsOK /\ SpecsTakeEffect => AnswersCorrect
  BY <1>1, <1>2 DEF AnswersCorrect
<1> QED BY <1>3, MeaningInvariant, SpecsInvariant, PTL
=============================================================================
