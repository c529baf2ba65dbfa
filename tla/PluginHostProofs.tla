-------------------------- MODULE PluginHostProofs --------------------------
(***************************************************************************)
(* The handles, instances and options of the plugin host, for any number   *)
(* of users, instances and module names.                                   *)
(***************************************************************************)
EXTENDS PluginHost, FiniteSetTheorems, TLAPS

USE PluginAssumption

\* What a plugin keeps, and what a user holds of it
States == UNION {[Keys(m) -> OptionTexts \cup {Empty, "default"}] : m \in Modules}
Instance == [module: Modules \cup {None}, state: States \cup {None}]

TypeOK ==
  /\ dir \in Directories
  /\ refs \in [Modules -> Int]
  /\ loaded \in [Users -> Seq(Modules)]
  /\ doing \in [Users -> HostPlaces]
  /\ pos \in [Users -> Nat \ {0}]
  /\ slot \in [Users -> [Slots -> Instance]]
  /\ searched \in [Users -> BOOLEAN]

\* While a load is under way, the vector holds what the names tried so far
\* have brought.
Searched(u) ==
  doing[u] \in {"open", "examine"} =>
    /\ pos[u] <= Len(kNames) + 1
    /\ doing[u] = "examine" =>
         pos[u] <= Len(kNames) /\ dir[kNames[pos[u]]] \cap OpenDefects = {}
    /\ \A m \in Modules : m \in ToSet(loaded[u]) <=>
         \E k \in 1..pos[u]-1 : kNames[k] = m /\ PassesValidation(m)

Complete(u) ==
  doing[u] = "idle" /\ searched[u] =>
    \A m \in Modules : m \in ToSet(loaded[u]) <=> PassesValidation(m)

\* A user with instances is not in a loop, and has their modules loaded.
InstancesLoaded(u) ==
  \A i \in Slots : slot[u][i] # NoInstance =>
    doing[u] = "idle" /\ slot[u][i].module \in ToSet(loaded[u])

UserOK(u) == Searched(u) /\ Complete(u) /\ InOrder(u) /\ InstancesLoaded(u)

Base == TypeOK /\ \A u \in Users : UserOK(u)

\* The inductive invariant
IInv == Base /\ HandlesBalanced /\ want = slot /\ EmitsOwnOptions

-----------------------------------------------------------------------------
\* The names are a sequence without repetition.
LEMMA NamesFacts ==
  /\ Len(kNames) \in Nat /\ DOMAIN kNames = 1..Len(kNames)
  /\ \A k \in 1..Len(kNames) : kNames[k] \in Modules
  /\ \A m \in Modules : \E k \in 1..Len(kNames) : kNames[k] = m
  /\ \A j, k \in 1..Len(kNames) : kNames[j] = kNames[k] => j = k
BY DEF Modules, ToSet, IsInjective

\* No vector holds a module twice.
LEMMA LoadedOnce ==
  ASSUME TypeOK, NEW u \in Users, InOrder(u),
         NEW i \in DOMAIN loaded[u], NEW j \in DOMAIN loaded[u],
         loaded[u][i] = loaded[u][j]
  PROVE  i = j
<1>1. i \in Nat /\ j \in Nat
  BY DEF TypeOK
<1>2. ASSUME NEW a \in DOMAIN loaded[u], NEW b \in DOMAIN loaded[u],
             a < b, loaded[u][a] = loaded[u][b]
      PROVE  FALSE
  BY <1>2, NamesFacts DEF InOrder
<1> QED BY <1>1, <1>2

\* The members of a vector are names.
LEMMA LoadedNames ==
  ASSUME TypeOK, NEW u \in Users
  PROVE  /\ Len(loaded[u]) \in Nat /\ DOMAIN loaded[u] = 1..Len(loaded[u])
         /\ \A j \in DOMAIN loaded[u] : loaded[u][j] \in Modules
         /\ ToSet(loaded[u]) \subseteq Modules
         /\ loaded[u] = << >> <=> ToSet(loaded[u]) = {}
<1>1. loaded[u] \in Seq(Modules)
  BY DEF TypeOK
<1>2. /\ Len(loaded[u]) \in Nat /\ DOMAIN loaded[u] = 1..Len(loaded[u])
      /\ \A j \in DOMAIN loaded[u] : loaded[u][j] \in Modules
  BY <1>1
<1>3. ToSet(loaded[u]) \subseteq Modules
  BY <1>2 DEF ToSet
<1>4. ASSUME loaded[u] # << >>  PROVE ToSet(loaded[u]) # {}
  <2>1. 1 \in DOMAIN loaded[u]
    BY <1>1, <1>2, <1>4
  <2>2. loaded[u][1] \in ToSet(loaded[u])
    BY <2>1 DEF ToSet
  <2> QED BY <2>2
<1>5. ASSUME loaded[u] = << >>  PROVE ToSet(loaded[u]) = {}
  BY <1>5 DEF ToSet
<1> QED BY <1>2, <1>3, <1>4, <1>5

\* A new instance starts from texts the plugin knows.
LEMMA InitialTyped ==
  ASSUME NEW m \in Modules
  PROVE  InitialState(m) \in States
<1>1. InitialState(m) \in [Keys(m) -> OptionTexts \cup {Empty, "default"}]
  BY DEF InitialState
<1> QED BY <1>1 DEF States

\* Setting an option leaves the set of options as it is.
LEMMA StoreTyped ==
  ASSUME NEW s \in States, NEW key, NEW value \in OptionTexts \cup {Empty}
  PROVE  [s EXCEPT ![key] = value] \in States
<1>1. PICK m \in Modules : s \in [Keys(m) -> OptionTexts \cup {Empty, "default"}]
  BY DEF States
<1>2. [s EXCEPT ![key] = value] \in [Keys(m) -> OptionTexts \cup {Empty, "default"}]
  BY <1>1
<1> QED BY <1>2 DEF States

\* Every step keeps the types.
LEMMA TypeStep == Base /\ [HostNext]_hostVars => TypeOK'
<1> SUFFICES ASSUME Base, [HostNext]_hostVars PROVE TypeOK'
  OBVIOUS
<1> USE DEF Base, HostPlaces
<1>1. CASE UNCHANGED hostVars
  BY <1>1 DEF TypeOK, hostVars
<1>2. ASSUME NEW u \in Users, Load(u)  PROVE TypeOK'
  <2>1. CASE load_builtin_modules_from_env(u)
    BY <2>1 DEF TypeOK, load_builtin_modules_from_env
  <2>2. CASE OpenModule(u)
    <3>1. refs' \in [Modules -> Int]
      BY <2>2 DEF TypeOK, OpenModule
    <3>2. pos' \in [Users -> Nat \ {0}] /\ doing' \in [Users -> HostPlaces]
      <4>1. pos' = [pos EXCEPT ![u] = pos[u] + 1] \/ pos' = pos
        BY <2>2 DEF OpenModule, SkipTo
      <4>2. pos' \in [Users -> Nat \ {0}]
        <5>1. CASE pos' = pos
          BY <5>1 DEF TypeOK
        <5>2. CASE pos' = [pos EXCEPT ![u] = pos[u] + 1]
          BY <5>2 DEF TypeOK
        <5> QED BY <4>1, <5>1, <5>2
      <4>3. doing' \in [Users -> HostPlaces]
        BY <2>2 DEF TypeOK, OpenModule
      <4> QED BY <4>2, <4>3
    <3> QED BY <2>2, <3>1, <3>2 DEF TypeOK, OpenModule
  <2>3. CASE ExamineModule(u)
    <3> DEFINE m == kNames[pos[u]]
    <3>1. m \in Modules
      BY <2>3, NamesFacts DEF TypeOK, UserOK, Searched, ExamineModule
    <3> HIDE DEF m
    <3>2. refs' \in [Modules -> Int] /\ loaded' \in [Users -> Seq(Modules)]
      <4>1. \/ refs' = refs /\ loaded' = [loaded EXCEPT ![u] = Append(@, m)]
            \/ refs' = [refs EXCEPT ![m] = @ - 1] /\ loaded' = loaded
        BY <2>3 DEF ExamineModule, Rejected, m
      <4>2. CASE refs' = refs /\ loaded' = [loaded EXCEPT ![u] = Append(@, m)]
        BY <3>1, <4>2 DEF TypeOK
      <4>3. CASE refs' = [refs EXCEPT ![m] = @ - 1] /\ loaded' = loaded
        BY <3>1, <4>3 DEF TypeOK
      <4> QED BY <4>1, <4>2, <4>3
    <3>3. pos' \in [Users -> Nat \ {0}] /\ doing' \in [Users -> HostPlaces]
      BY <2>3 DEF TypeOK, ExamineModule
    <3> QED BY <2>3, <3>2, <3>3 DEF TypeOK, ExamineModule
  <2>4. CASE LoadReturns(u)
    BY <2>4 DEF TypeOK, LoadReturns
  <2> QED BY <1>2, <2>1, <2>2, <2>3, <2>4 DEF Load
<1>3. ASSUME NEW u \in Users, Unload(u)  PROVE TypeOK'
  <2>1. CASE unload_modules(u)
    BY <2>1 DEF TypeOK, unload_modules
  <2>2. CASE CloseModule(u)
    BY <2>2, LoadedNames DEF TypeOK, CloseModule
  <2>3. CASE UnloadReturns(u)
    BY <2>3 DEF TypeOK, UnloadReturns, Cleared
  <2> QED BY <1>3, <2>1, <2>2, <2>3 DEF Unload
<1>4. ASSUME NEW u \in Users, NEW i \in Slots, Call(u, i)  PROVE TypeOK'
  <2>1. ASSUME NEW m \in Modules, create_instance(u, i, m)  PROVE TypeOK'
    <3>1. \E x \in Instance : slot' = [slot EXCEPT ![u][i] = x]
      BY <2>1, InitialTyped DEF create_instance, Instance
    <3>2. slot' \in [Users -> [Slots -> Instance]]
      BY <3>1 DEF TypeOK
    <3> QED BY <2>1, <3>2 DEF TypeOK, create_instance
  <2>2. CASE destroy_instance(u, i)
    BY <2>2 DEF TypeOK, destroy_instance, Instance, NoInstance
  <2>3. ASSUME NEW key, NEW value \in OptionTexts \cup {Empty, None}, set_option(u, i, key, value)
        PROVE  TypeOK'
    <3> DEFINE s == slot[u][i]
    <3>1. s \in Instance
      BY DEF TypeOK
    <3>2. slot' = slot \/ /\ s.state # None /\ value # None
                          /\ slot' = [slot EXCEPT ![u][i] = WithOption(@, key, value)]
      BY <2>3 DEF set_option, Store
    <3>3. ASSUME s.state # None, value # None
          PROVE  WithOption(s, key, value) \in Instance
      <4>1. s.state \in States /\ value \in OptionTexts \cup {Empty}
        BY <3>1, <3>3 DEF Instance
      <4> QED BY <3>1, <4>1, StoreTyped DEF Instance, WithOption
    <3>4. slot' = slot \/ \E x \in Instance : slot' = [slot EXCEPT ![u][i] = x]
      BY <3>2, <3>3
    <3>5. slot' \in [Users -> [Slots -> Instance]]
      <4>1. CASE slot' = slot
        BY <4>1 DEF TypeOK
      <4>2. CASE \E x \in Instance : slot' = [slot EXCEPT ![u][i] = x]
        BY <4>2 DEF TypeOK
      <4> QED BY <3>4, <4>1, <4>2
    <3> QED BY <2>3, <3>5 DEF TypeOK, set_option
  <2>4. ASSUME NEW callback, NEW event, hook(u, i, callback, event)  PROVE TypeOK'
    BY <2>4 DEF TypeOK, hook
  <2>5. ASSUME NEW emits, after_link(u, i, emits)  PROVE TypeOK'
    BY <2>5 DEF TypeOK, after_link
  <2> QED BY <1>4, <2>1, <2>2, <2>3, <2>4, <2>5 DEF Call
<1>5. ASSUME NEW u \in Users, Terminates(u)  PROVE TypeOK'
  BY <1>5 DEF TypeOK, Terminates
<1> QED BY <1>1, <1>2, <1>3, <1>4, <1>5 DEF HostNext, Act

-----------------------------------------------------------------------------
(* Steps of one user, seen from the others *)

\* A step that leaves every other user's loops, vector and instances alone.
OnlyUser(u) ==
  /\ dir' = dir
  /\ \A v \in Users \ {u} :
       /\ doing'[v] = doing[v] /\ pos'[v] = pos[v] /\ loaded'[v] = loaded[v] /\ slot'[v] = slot[v]
       /\ searched'[v] = searched[v]

\* How the count of a module follows whether u holds it.
CountFollows(u) ==
  \A m \in Modules : refs'[m] = refs[m] + (IF Holds(u, m)' THEN 1 ELSE 0)
                                       - (IF Holds(u, m) THEN 1 ELSE 0)

\* Nothing changes for a user whose own state stays as it is.
LEMMA Untouched ==
  ASSUME NEW v \in Users, dir' = dir,
         doing'[v] = doing[v], pos'[v] = pos[v], loaded'[v] = loaded[v], slot'[v] = slot[v],
         searched'[v] = searched[v]
  PROVE  /\ UserOK(v) => UserOK(v)'
         /\ \A m \in Modules : Holds(v, m)' <=> Holds(v, m)
<1>1. \A m \in Modules : PassesValidation(m)' <=> PassesValidation(m)
  BY DEF PassesValidation, validate_query_result, validate_descriptor, validate_vtable
<1>2. UserOK(v) => Searched(v)' /\ Complete(v)'
  BY <1>1 DEF UserOK, Searched, Complete
<1>3. UserOK(v) => InOrder(v)' /\ InstancesLoaded(v)'
  BY DEF UserOK, InOrder, InstancesLoaded
<1>4. \A m \in Modules : Holds(v, m)' <=> Holds(v, m)
  BY DEF Holds
<1> QED BY <1>2, <1>3, <1>4 DEF UserOK

\* If the count follows what the acting user holds, the handles stay balanced.
LEMMA CountStep ==
  ASSUME TypeOK, HandlesBalanced, NEW u \in Users, OnlyUser(u), CountFollows(u)
  PROVE  HandlesBalanced'
<1> SUFFICES ASSUME NEW m \in Modules
             PROVE  refs'[m] = Cardinality({v \in Users : Holds(v, m)'})
  BY DEF HandlesBalanced, Quantify
<1> DEFINE Now == {v \in Users : Holds(v, m)}
           Then == {v \in Users : Holds(v, m)'}
<1>1. refs[m] = Cardinality(Now)
  BY DEF HandlesBalanced, Quantify
<1>2. IsFiniteSet(Now) /\ IsFiniteSet(Then) /\ Cardinality(Now) \in Nat
  <2>1. Now \in SUBSET Users /\ Then \in SUBSET Users
    OBVIOUS
  <2> QED BY <2>1, FS_Subset, FS_CardinalityType
<1>3. \A v \in Users \ {u} : Holds(v, m)' <=> Holds(v, m)
  BY Untouched DEF OnlyUser
<1>4. Then = IF Holds(u, m)' THEN Now \cup {u} ELSE Now \ {u}
  BY <1>3
<1>5. u \in Now <=> Holds(u, m)
  OBVIOUS
<1>6. Cardinality(Then) = Cardinality(Now) + (IF Holds(u, m)' THEN 1 ELSE 0)
                                           - (IF Holds(u, m) THEN 1 ELSE 0)
  <2> HIDE DEF Now, Then
  <2>1. CASE Holds(u, m)'
    BY <1>2, <1>4, <1>5, <2>1, FS_AddElement
  <2>2. CASE ~Holds(u, m)'
    BY <1>2, <1>4, <1>5, <2>2, FS_RemoveElement
  <2> QED BY <2>1, <2>2
<1> QED BY <1>1, <1>6 DEF CountFollows

-----------------------------------------------------------------------------
(* What each step of the loops does to its user *)

\* The directory does not change, so neither does what passes validation.
LEMMA SameValidation ==
  dir' = dir => \A m \in Modules : PassesValidation(m)' <=> PassesValidation(m)
BY DEF PassesValidation, validate_query_result, validate_descriptor, validate_vtable

\* A load starts from an empty vector: no handles, no instances.
LEMMA StartStep ==
  ASSUME Base, NEW u \in Users, load_builtin_modules_from_env(u)
  PROVE  OnlyUser(u) /\ UserOK(u)' /\ CountFollows(u)
<1> USE DEF load_builtin_modules_from_env, Base
<1>1. OnlyUser(u)
  BY DEF OnlyUser, TypeOK
<1>2. doing'[u] = "open" /\ pos'[u] = 1 /\ loaded'[u] = << >> /\ slot'[u] = slot[u]
  BY DEF TypeOK
<1>3. ToSet(<< >>) = {}
  BY DEF ToSet
<1>4. UserOK(u)'
  BY <1>2, <1>3, NamesFacts DEF UserOK, Searched, Complete, InOrder, InstancesLoaded
<1>5. CountFollows(u)
  BY <1>2 DEF CountFollows, Holds, TypeOK
<1> QED BY <1>1, <1>4, <1>5

\* The name under the index is not in the vector yet.
LEMMA CurrentIsNew ==
  ASSUME TypeOK, NEW u \in Users, UserOK(u), doing[u] \in {"open", "examine"},
         pos[u] <= Len(kNames)
  PROVE  kNames[pos[u]] \in Modules /\ kNames[pos[u]] \notin ToSet(loaded[u])
<1>1. pos[u] \in 1..Len(kNames)
  BY NamesFacts DEF TypeOK
<1>2. \A k \in 1..pos[u]-1 : kNames[k] # kNames[pos[u]]
  BY <1>1, NamesFacts
<1> QED BY <1>1, <1>2, NamesFacts DEF UserOK, Searched

\* Behind a name that brings nothing, what was found stays what was found.
LEMMA NothingFound ==
  ASSUME TypeOK, NEW u \in Users, UserOK(u), doing[u] \in {"open", "examine"},
         pos[u] <= Len(kNames), ~PassesValidation(kNames[pos[u]]),
         dir' = dir, pos'[u] = pos[u] + 1, doing'[u] = "open",
         loaded'[u] = loaded[u], slot'[u] = slot[u]
  PROVE  UserOK(u)'
<1>1. pos[u] \in 1..Len(kNames)
  BY NamesFacts DEF TypeOK
<1>2. ASSUME NEW m \in Modules
      PROVE  (\E k \in 1..pos[u] : kNames[k] = m /\ PassesValidation(m))
               <=> \E k \in 1..pos[u]-1 : kNames[k] = m /\ PassesValidation(m)
  BY <1>1
<1>3. \A m \in Modules : m \in ToSet(loaded[u]) <=>
         \E k \in 1..pos[u]-1 : kNames[k] = m /\ PassesValidation(m)
  BY DEF UserOK, Searched
<1>4. \A m \in Modules : m \in ToSet(loaded'[u]) <=>
         \E k \in 1..pos'[u]-1 : kNames[k] = m /\ PassesValidation(m)'
  <2>1. pos'[u] - 1 = pos[u]
    BY <1>1
  <2> QED BY <1>2, <1>3, <2>1, SameValidation
<1>5. pos'[u] <= Len(kNames) + 1
  BY <1>1, NamesFacts
<1>6. Searched(u)'
  BY <1>4, <1>5 DEF Searched
<1> QED BY <1>6 DEF UserOK, Complete, InOrder, InstancesLoaded

\* dlopen: the handle is held from here on, unless there is none.
LEMMA OpenStep ==
  ASSUME Base, NEW u \in Users, OpenModule(u)
  PROVE  OnlyUser(u) /\ UserOK(u)' /\ CountFollows(u)
<1> DEFINE m == kNames[pos[u]]
<1>1. OnlyUser(u)
  BY DEF OnlyUser, OpenModule, Base, TypeOK
<1>2. /\ doing[u] = "open" /\ pos[u] \in 1..Len(kNames)
      /\ dir' = dir /\ loaded'[u] = loaded[u] /\ slot'[u] = slot[u]
  BY NamesFacts DEF OpenModule, Base, TypeOK
<1>3. m \in Modules /\ m \notin ToSet(loaded[u]) /\ UserOK(u)
  BY <1>2, CurrentIsNew DEF Base
<1>4. CASE dir[m] \cap OpenDefects # {}
  <2>1. pos'[u] = pos[u] + 1 /\ doing'[u] = "open" /\ refs' = refs
    BY <1>2, <1>4 DEF OpenModule, SkipTo, Base, TypeOK
  <2>2. ~PassesValidation(m)
    BY <1>4 DEF PassesValidation
  <2>3. UserOK(u)'
    BY <1>2, <1>3, <2>1, <2>2, NothingFound DEF Base
  <2>4. CountFollows(u)
    BY <1>2, <2>1 DEF CountFollows, Holds, Base, TypeOK
  <2> QED BY <1>1, <2>3, <2>4
<1>5. CASE dir[m] \cap OpenDefects = {}
  <2>1. pos'[u] = pos[u] /\ doing'[u] = "examine" /\ refs' = [refs EXCEPT ![m] = @ + 1]
    BY <1>2, <1>5 DEF OpenModule, Base, TypeOK
  <2>2. UserOK(u)'
    BY <1>2, <1>3, <1>5, <2>1, SameValidation DEF UserOK, Searched, Complete, InOrder,
       InstancesLoaded
  <2>3. CountFollows(u)
    BY <1>2, <1>3, <2>1 DEF CountFollows, Holds, Base, TypeOK, ToSet
  <2> QED BY <1>1, <2>2, <2>3
<1> QED BY <1>4, <1>5

\* A module that passes takes its handle into the vector, any other is closed.
LEMMA ExamineStep ==
  ASSUME Base, NEW u \in Users, ExamineModule(u)
  PROVE  OnlyUser(u) /\ UserOK(u)' /\ CountFollows(u)
<1> DEFINE m == kNames[pos[u]]
<1>1. OnlyUser(u)
  BY DEF OnlyUser, ExamineModule, Base, TypeOK
<1>2. /\ doing[u] = "examine" /\ pos[u] \in 1..Len(kNames) /\ dir[m] \cap OpenDefects = {}
      /\ dir' = dir /\ slot'[u] = slot[u] /\ pos'[u] = pos[u] + 1 /\ doing'[u] = "open"
  BY NamesFacts DEF ExamineModule, Base, TypeOK, UserOK, Searched
<1>3. m \in Modules /\ m \notin ToSet(loaded[u]) /\ UserOK(u)
  BY <1>2, CurrentIsNew DEF Base
<1>4. PassesValidation(m) <=> dir[m] \cap EntryDefects = {} /\ validate_query_result(m)
  BY <1>2 DEF PassesValidation
<1>5. CASE ~PassesValidation(m)
  <2>1. loaded' = loaded /\ refs' = [refs EXCEPT ![m] = @ - 1]
    BY <1>4, <1>5 DEF ExamineModule, Rejected
  <2>2. UserOK(u)'
    BY <1>2, <1>3, <1>5, <2>1, NothingFound DEF Base
  <2>3. CountFollows(u)
    BY <1>2, <1>3, <2>1 DEF CountFollows, Holds, Base, TypeOK, ToSet
  <2> QED BY <1>1, <2>2, <2>3
<1>6. CASE PassesValidation(m)
  <2>1. loaded'[u] = Append(loaded[u], m) /\ refs' = refs
    BY <1>4, <1>6 DEF ExamineModule, Base, TypeOK
  <2>2. /\ Len(loaded[u]) \in Nat /\ DOMAIN loaded[u] = 1..Len(loaded[u])
        /\ DOMAIN loaded'[u] = 1..Len(loaded[u])+1
        /\ \A j \in 1..Len(loaded[u]) : loaded'[u][j] = loaded[u][j]
        /\ loaded'[u][Len(loaded[u])+1] = m
    BY <1>3, <2>1 DEF Base, TypeOK
  <2>3. ToSet(loaded'[u]) = ToSet(loaded[u]) \cup {m}
    BY SMTT(40), <2>2 DEF ToSet
  <2>4. Searched(u)'
    <3>1. ASSUME NEW n \in Modules
          PROVE  n \in ToSet(loaded'[u]) <=>
                   \E k \in 1..pos[u] : kNames[k] = n /\ PassesValidation(n)
      BY <1>2, <1>3, <1>6, <2>3 DEF UserOK, Searched
    <3> QED BY <1>2, <3>1, SameValidation, NamesFacts DEF Searched
  <2>5. InOrder(u)'
    <3>1. ASSUME NEW i \in 1..Len(loaded[u])
          PROVE  \E a \in DOMAIN kNames : a < pos[u] /\ kNames[a] = loaded[u][i]
      <4>1. loaded[u][i] \in ToSet(loaded[u]) /\ loaded[u][i] \in Modules
        BY <2>2, LoadedNames DEF ToSet, Base
      <4>2. PICK k \in 1..pos[u]-1 : kNames[k] = loaded[u][i]
        BY <1>2, <1>3, <4>1 DEF UserOK, Searched
      <4>3. k \in DOMAIN kNames /\ k < pos[u]
        BY <1>2, NamesFacts
      <4> QED BY <4>2, <4>3
    <3>2. ASSUME NEW i \in DOMAIN loaded'[u], NEW j \in DOMAIN loaded'[u], i < j
          PROVE  \E a, b \in DOMAIN kNames :
                   a < b /\ kNames[a] = loaded'[u][i] /\ kNames[b] = loaded'[u][j]
      <4>1. CASE j = Len(loaded[u]) + 1
        <5>1. PICK a \in DOMAIN kNames : a < pos[u] /\ kNames[a] = loaded[u][i]
          BY <2>2, <3>1, <3>2, <4>1
        <5> QED BY <1>2, <2>2, <3>2, <4>1, <5>1, NamesFacts
      <4>2. CASE j # Len(loaded[u]) + 1
        <5>1. i \in DOMAIN loaded[u] /\ j \in DOMAIN loaded[u]
          BY <2>2, <3>2, <4>2
        <5>2. loaded'[u][i] = loaded[u][i] /\ loaded'[u][j] = loaded[u][j]
          BY <2>2, <5>1
        <5> QED BY <1>3, <3>2, <5>1, <5>2 DEF UserOK, InOrder
      <4> QED BY <4>1, <4>2
    <3> QED BY <3>2 DEF InOrder
  <2>6. Complete(u)' /\ InstancesLoaded(u)'
    BY <1>2, <1>3 DEF UserOK, Complete, InstancesLoaded
  <2>7. CountFollows(u)
    <3>1. ASSUME NEW n \in Modules  PROVE Holds(u, n)' <=> Holds(u, n)
      <4>1. Holds(u, n) <=> m = n \/ n \in ToSet(loaded[u])
        BY <1>2 DEF Holds, ToSet
      <4>2. Holds(u, n)' <=> n \in ToSet(loaded'[u])
        BY <1>2 DEF Holds, ToSet
      <4> QED BY <2>3, <4>1, <4>2
    <3> QED BY <2>1, <3>1 DEF CountFollows, Base, TypeOK
  <2> QED BY <1>1, <2>4, <2>5, <2>6, <2>7 DEF UserOK
<1> QED BY <1>5, <1>6

\* The end of a load: all names have been tried.
LEMMA LoadReturnsStep ==
  ASSUME Base, NEW u \in Users, LoadReturns(u)
  PROVE  OnlyUser(u) /\ UserOK(u)' /\ CountFollows(u)
<1>1. OnlyUser(u)
  BY DEF OnlyUser, LoadReturns, Base, TypeOK
<1>2. /\ doing[u] = "open" /\ pos[u] = Len(kNames) + 1 /\ doing'[u] = "idle" /\ UserOK(u)
      /\ dir' = dir /\ refs' = refs /\ loaded' = loaded /\ slot' = slot
  BY NamesFacts DEF LoadReturns, Base, TypeOK, UserOK, Searched
<1>3. ASSUME NEW m \in Modules  PROVE m \in ToSet(loaded[u]) <=> PassesValidation(m)
  BY <1>2, NamesFacts DEF UserOK, Searched
<1>4. UserOK(u)'
  BY <1>2, <1>3, SameValidation DEF UserOK, Searched, Complete, InOrder, InstancesLoaded
<1>5. CountFollows(u)
  BY <1>2 DEF CountFollows, Holds, Base, TypeOK
<1> QED BY <1>1, <1>4, <1>5

\* An unload starts with all handles still open.
LEMMA UnloadStep ==
  ASSUME Base, NEW u \in Users, unload_modules(u)
  PROVE  OnlyUser(u) /\ UserOK(u)' /\ CountFollows(u)
<1>1. OnlyUser(u)
  BY DEF OnlyUser, unload_modules, Base, TypeOK
<1>2. /\ doing[u] = "idle" /\ doing'[u] = "close" /\ pos'[u] = 1 /\ UserOK(u)
      /\ dir' = dir /\ refs' = refs /\ loaded' = loaded /\ slot' = slot
      /\ \A i \in Slots : slot[u][i] = NoInstance
  BY DEF unload_modules, Base, TypeOK
<1>3. UserOK(u)'
  BY <1>2, SameValidation DEF UserOK, Searched, Complete, InOrder, InstancesLoaded
<1>4. CountFollows(u)
  <2>1. \A j \in DOMAIN loaded[u] : j >= 1
    BY LoadedNames DEF Base
  <2> QED BY <1>2, <2>1 DEF CountFollows, Holds, Base, TypeOK
<1> QED BY <1>1, <1>3, <1>4

\* dlclose gives one handle back, and the user holds no other of that module.
LEMMA CloseStep ==
  ASSUME Base, NEW u \in Users, CloseModule(u)
  PROVE  OnlyUser(u) /\ UserOK(u)' /\ CountFollows(u)
<1>0. PICK p \in Nat, m \in Modules :
        p = pos[u] /\ p \in DOMAIN loaded[u] /\ m = loaded[u][p]
  <2>1. pos[u] \in Nat /\ pos[u] \in DOMAIN loaded[u]
    BY LoadedNames DEF CloseModule, Base, TypeOK
  <2>2. loaded[u][pos[u]] \in Modules
    BY <2>1, LoadedNames DEF Base
  <2> QED BY <2>1, <2>2
<1>1. OnlyUser(u)
  BY DEF OnlyUser, CloseModule, Base, TypeOK
<1>2. /\ doing[u] = "close" /\ doing' = doing /\ pos'[u] = p + 1 /\ UserOK(u)
      /\ dir' = dir /\ loaded' = loaded /\ slot' = slot
      /\ refs' = [refs EXCEPT ![m] = @ - 1]
  BY <1>0 DEF CloseModule, Base, TypeOK
<1>3. DOMAIN loaded[u] \subseteq Nat
  BY LoadedNames DEF Base
<1>4. UserOK(u)'
  BY <1>2, SameValidation DEF UserOK, Searched, Complete, InOrder, InstancesLoaded
<1>5. Holds(u, m) /\ ~Holds(u, m)'
  <2>1. \A j \in DOMAIN loaded[u] : loaded[u][j] = m => j = p
    BY <1>0, <1>2, LoadedOnce DEF Base, UserOK
  <2>2. Holds(u, m)
    BY <1>0, <1>2 DEF Holds
  <2>3. ASSUME NEW j \in DOMAIN loaded[u], loaded[u][j] = m  PROVE ~(j >= p + 1)
    BY <1>3, <2>1, <2>3
  <2>4. ~Holds(u, m)'
    BY <1>2, <2>3 DEF Holds
  <2> QED BY <2>2, <2>4
<1>6. ASSUME NEW n \in Modules, n # m  PROVE Holds(u, n)' <=> Holds(u, n)
  BY <1>0, <1>2, <1>3, <1>6 DEF Holds
<1>7. CountFollows(u)
  <2>1. refs'[m] = refs[m] - 1 /\ \A n \in Modules : n # m => refs'[n] = refs[n]
    BY <1>2 DEF Base, TypeOK
  <2>2. refs \in [Modules -> Int]
    BY DEF Base, TypeOK
  <2> QED BY <1>5, <1>6, <2>1, <2>2 DEF CountFollows
<1> QED BY <1>1, <1>4, <1>7

\* The end of an unload: no handle is left in the vector.
LEMMA UnloadReturnsStep ==
  ASSUME Base, NEW u \in Users, UnloadReturns(u)
  PROVE  OnlyUser(u) /\ UserOK(u)' /\ CountFollows(u)
<1>1. OnlyUser(u)
  BY DEF OnlyUser, UnloadReturns, Base, TypeOK
<1>2. /\ doing[u] = "close" /\ doing'[u] = "idle" /\ UserOK(u) /\ pos[u] > Len(loaded[u])
      /\ dir' = dir /\ refs' = refs /\ loaded'[u] = << >> /\ slot' = slot /\ ~searched'[u]
  BY DEF UnloadReturns, Cleared, Base, TypeOK
<1>3. UserOK(u)'
  BY <1>2 DEF UserOK, Searched, Complete, InOrder, InstancesLoaded
<1>4. \A m \in Modules : ~Holds(u, m) /\ ~Holds(u, m)'
  BY <1>2, LoadedNames DEF Holds, Base, TypeOK
<1>5. CountFollows(u)
  BY <1>2, <1>4 DEF CountFollows, Base, TypeOK
<1> QED BY <1>1, <1>3, <1>5

\* A call through a vtable leaves handles and vectors alone and makes an
\* instance only of a module that is loaded.
LEMMA CallStep ==
  ASSUME Base, NEW u \in Users, doing[u] = "idle",
         UNCHANGED <<dir, refs, loaded, doing, pos, searched>>,
         \/ slot' = slot
         \/ \E i \in Slots, x \in Instance :
              /\ slot' = [slot EXCEPT ![u][i] = x]
              /\ x = NoInstance \/ x.module \in ToSet(loaded[u])
  PROVE  OnlyUser(u) /\ UserOK(u)' /\ CountFollows(u)
<1>1. \A v \in Users \ {u} : slot'[v] = slot[v]
  BY DEF Base, TypeOK
<1>2. OnlyUser(u)
  BY <1>1 DEF OnlyUser
<1>3. InstancesLoaded(u)'
  <2>1. CASE slot' = slot
    BY <2>1 DEF Base, UserOK, InstancesLoaded
  <2>2. ASSUME NEW i \in Slots, NEW x \in Instance, slot' = [slot EXCEPT ![u][i] = x],
               x = NoInstance \/ x.module \in ToSet(loaded[u])
        PROVE  InstancesLoaded(u)'
    <3>1. \A j \in Slots : slot'[u][j] = IF j = i THEN x ELSE slot[u][j]
      BY <2>2 DEF Base, TypeOK
    <3> QED BY <2>2, <3>1 DEF Base, UserOK, InstancesLoaded
  <2> QED BY <2>1, <2>2
<1>4. UserOK(u)'
  BY <1>3, SameValidation DEF Base, UserOK, Searched, Complete, InOrder
<1>5. CountFollows(u)
  BY DEF CountFollows, Holds, Base, TypeOK
<1> QED BY <1>2, <1>4, <1>5

\* A callee's instance keeps its module when an option is set.
LEMMA OptionKeepsModule ==
  ASSUME NEW x \in Instance, NEW key, NEW value
  PROVE  WithOption(x, key, value).module = x.module
BY DEF WithOption, Instance

\* Whatever a user does keeps the users in order and the handles balanced.
LEMMA UserStep ==
  ASSUME IInv, NEW u \in Users, Act(u)
  PROVE  OnlyUser(u) /\ UserOK(u)' /\ CountFollows(u)
<1> USE DEF IInv
<1>1. CASE Load(u)
  BY <1>1, StartStep, OpenStep, ExamineStep, LoadReturnsStep DEF Load
<1>2. CASE Unload(u)
  BY <1>2, UnloadStep, CloseStep, UnloadReturnsStep DEF Unload
<1>3. ASSUME NEW i \in Slots, Call(u, i)
      PROVE  OnlyUser(u) /\ UserOK(u)' /\ CountFollows(u)
  <2>0. slot[u][i] \in Instance /\ UserOK(u)
    BY DEF Base, TypeOK
  <2>1. ASSUME NEW m \in Modules, create_instance(u, i, m)
        PROVE  OnlyUser(u) /\ UserOK(u)' /\ CountFollows(u)
    <3>1. \E x \in Instance : slot' = [slot EXCEPT ![u][i] = x] /\ x.module \in ToSet(loaded[u])
      <4>1. PICK t \in States \cup {None} : slot' = [slot EXCEPT ![u][i] = [module |-> m, state |-> t]]
        BY <2>1, InitialTyped DEF create_instance
      <4>2. [module |-> m, state |-> t] \in Instance
        BY DEF Instance
      <4>3. m \in ToSet(loaded[u])
        BY <2>1 DEF create_instance
      <4> QED BY <4>1, <4>2, <4>3
    <3>2. doing[u] = "idle" /\ UNCHANGED <<dir, refs, loaded, doing, pos, searched>>
      BY <2>1 DEF create_instance
    <3> QED BY <3>1, <3>2, CallStep
  <2>2. CASE destroy_instance(u, i)
    <3>1. NoInstance \in Instance /\ slot' = [slot EXCEPT ![u][i] = NoInstance]
      BY <2>2 DEF destroy_instance, NoInstance, Instance
    <3>2. doing[u] = "idle" /\ UNCHANGED <<dir, refs, loaded, doing, pos, searched>>
      BY <2>2 DEF destroy_instance
    <3> QED BY <3>1, <3>2, CallStep
  <2>3. ASSUME NEW key, NEW value \in OptionTexts \cup {Empty, None}, set_option(u, i, key, value)
        PROVE  OnlyUser(u) /\ UserOK(u)' /\ CountFollows(u)
    <3>1. doing[u] = "idle" /\ slot[u][i] # NoInstance /\ UNCHANGED <<dir, refs, loaded, doing, pos, searched>>
      BY <2>3 DEF set_option
    <3>2. slot' = slot \/ slot' = [slot EXCEPT ![u][i] = WithOption(slot[u][i], key, value)]
      BY <2>3 DEF set_option, Store
    <3>3. slot[u][i].module \in ToSet(loaded[u])
      BY <2>0, <3>1 DEF UserOK, InstancesLoaded
    <3>4. ASSUME slot' = [slot EXCEPT ![u][i] = WithOption(slot[u][i], key, value)], slot' # slot
          PROVE  WithOption(slot[u][i], key, value) \in Instance
      <4>1. slot[u][i].state # None /\ value # None
        BY <2>3, <3>4 DEF set_option
      <4>2. slot[u][i].state \in States /\ value \in OptionTexts \cup {Empty}
        BY <2>0, <4>1 DEF Instance
      <4> QED BY <2>0, <4>2, StoreTyped DEF Instance, WithOption
    <3>5. CASE slot' = slot
      BY <3>1, <3>5, CallStep
    <3>6. CASE slot' # slot
      <4> DEFINE x == WithOption(slot[u][i], key, value)
      <4>1. x \in Instance /\ x.module \in ToSet(loaded[u]) /\ slot' = [slot EXCEPT ![u][i] = x]
        BY <2>0, <3>2, <3>3, <3>4, <3>6, OptionKeepsModule
      <4> HIDE DEF x
      <4> QED BY <3>1, <4>1, CallStep
    <3> QED BY <3>5, <3>6
  <2>4. ASSUME NEW callback, NEW event, hook(u, i, callback, event)
        PROVE  OnlyUser(u) /\ UserOK(u)' /\ CountFollows(u)
    BY <2>4, CallStep DEF hook
  <2>5. ASSUME NEW emits, after_link(u, i, emits)
        PROVE  OnlyUser(u) /\ UserOK(u)' /\ CountFollows(u)
    BY <2>5, CallStep DEF after_link
  <2> QED BY <1>3, <2>1, <2>2, <2>3, <2>4, <2>5 DEF Call
<1> QED BY <1>1, <1>2, <1>3 DEF Act

\* The history of options set stays what the instances hold, and what
\* after_link emits comes from there.
LEMMA OptionsStep ==
  ASSUME IInv, [HostNext]_hostVars
  PROVE  want' = slot' /\ EmitsOwnOptions'
<1> USE DEF IInv
<1>1. CASE UNCHANGED hostVars
  BY <1>1 DEF hostVars, EmitsOwnOptions
<1>2. ASSUME NEW u \in Users, Load(u) \/ Unload(u)  PROVE want' = slot' /\ EmitsOwnOptions'
  BY <1>2 DEF Load, Unload, EmitsOwnOptions, Quiet, load_builtin_modules_from_env, OpenModule,
     ExamineModule, LoadReturns, unload_modules, CloseModule, UnloadReturns
<1>3. ASSUME NEW u \in Users, NEW i \in Slots, Call(u, i)
      PROVE  want' = slot' /\ EmitsOwnOptions'
  <2>1. ASSUME NEW m \in Modules, create_instance(u, i, m)
        PROVE  want' = slot' /\ EmitsOwnOptions'
    <3>1. PICK x : slot' = [slot EXCEPT ![u][i] = x] /\ want' = [want EXCEPT ![u][i] = slot'[u][i]]
      BY <2>1 DEF create_instance
    <3>2. slot'[u][i] = x
      BY <3>1 DEF Base, TypeOK
    <3> QED BY <2>1, <3>1, <3>2 DEF create_instance, EmitsOwnOptions
  <2>2. CASE destroy_instance(u, i)
    BY <2>2 DEF destroy_instance, EmitsOwnOptions, Quiet
  <2>3. ASSUME NEW key, NEW value, set_option(u, i, key, value)
        PROVE  want' = slot' /\ EmitsOwnOptions'
    BY <2>3 DEF set_option, Store, EmitsOwnOptions
  <2>4. ASSUME NEW callback, NEW event, hook(u, i, callback, event)
        PROVE  want' = slot' /\ EmitsOwnOptions'
    BY <2>4 DEF hook, EmitsOwnOptions
  <2>5. ASSUME NEW emits, after_link(u, i, emits)
        PROVE  want' = slot' /\ EmitsOwnOptions'
    BY <2>5 DEF after_link, EmitsOwnOptions
  <2> QED BY <1>3, <2>1, <2>2, <2>3, <2>4, <2>5 DEF Call
<1>4. ASSUME NEW u \in Users, Terminates(u)  PROVE want' = slot' /\ EmitsOwnOptions'
  BY <1>4 DEF Terminates, EmitsOwnOptions
<1> QED BY <1>1, <1>2, <1>3, <1>4 DEF HostNext, Act

\* The invariant holds before the first load.
LEMMA InitOK == HostInit => IInv
<1> SUFFICES ASSUME HostInit PROVE IInv
  OBVIOUS
<1>1. TypeOK
  BY DEF HostInit, TypeOK, HostPlaces, Instance, NoInstance
<1>2. \A u \in Users : UserOK(u)
  BY DEF HostInit, UserOK, Searched, Complete, InOrder, InstancesLoaded
<1>3. HandlesBalanced
  <2>1. ASSUME NEW m \in Modules  PROVE {u \in Users : Holds(u, m)} = {}
    BY DEF HostInit, Holds
  <2> QED BY <2>1, FS_EmptySet DEF HostInit, HandlesBalanced, Quantify
<1>4. want = slot /\ EmitsOwnOptions
  BY DEF HostInit, EmitsOwnOptions
<1> QED BY <1>1, <1>2, <1>3, <1>4 DEF IInv, Base

\* Every step keeps the invariant.
LEMMA StepOK == IInv /\ [HostNext]_hostVars => IInv'
<1> SUFFICES ASSUME IInv, [HostNext]_hostVars PROVE IInv'
  OBVIOUS
<1>1. TypeOK' /\ want' = slot' /\ EmitsOwnOptions'
  BY TypeStep, OptionsStep DEF IInv
<1>2. CASE \/ UNCHANGED hostVars
           \/ \E u \in Users : Terminates(u)
  <2>0. UNCHANGED <<dir, refs, loaded, doing, pos, slot, searched>>
    BY <1>2 DEF hostVars, Terminates
  <2>1. \A u \in Users : UserOK(u)' /\ \A m \in Modules : Holds(u, m)' <=> Holds(u, m)
    BY <2>0, Untouched DEF IInv, Base
  <2>2. HandlesBalanced'
    BY <2>0, <2>1 DEF IInv, HandlesBalanced, Quantify
  <2> QED BY <1>1, <2>1, <2>2 DEF IInv, Base
<1>3. ASSUME NEW u \in Users, Act(u)
      PROVE  IInv'
  <2>1. OnlyUser(u) /\ UserOK(u)' /\ CountFollows(u)
    BY <1>3, UserStep
  <2>2. \A v \in Users : UserOK(v)'
    BY <2>1, Untouched DEF OnlyUser, IInv, Base
  <2>3. HandlesBalanced'
    BY <2>1, CountStep DEF IInv, Base
  <2> QED BY <1>1, <2>2, <2>3 DEF IInv, Base
<1> QED BY <1>2, <1>3 DEF HostNext

\* The invariant holds throughout.
LEMMA Invariance == HostSpec => []IInv
BY InitOK, StepOK, PTL DEF HostSpec

-----------------------------------------------------------------------------
\* However many users load and unload at once and whatever is wrong with the
\* files: a module is open exactly as often as users hold a handle of it.
THEOREM HandlesCorrect == HostSpec => []HandlesBalanced
<1>1. IInv => HandlesBalanced
  BY DEF IInv
<1> QED BY <1>1, Invariance, PTL

\* No unload_modules of one user unmaps the code of another one's instance.
THEOREM InstancesMapped == HostSpec => []LiveInstanceMapped
<1>1. IInv => LiveInstanceMapped
  <2> SUFFICES ASSUME IInv, NEW u \in Users, NEW i \in Slots, slot[u][i] # NoInstance
               PROVE  refs[slot[u][i].module] > 0
    BY DEF LiveInstanceMapped
  <2> DEFINE m == slot[u][i].module
             H == {v \in Users : Holds(v, m)}
  <2>1. m \in ToSet(loaded[u]) /\ doing[u] = "idle"
    BY DEF IInv, Base, UserOK, InstancesLoaded
  <2>2. m \in Modules
    BY <2>1, LoadedNames DEF IInv, Base
  <2>3. u \in H
    BY <2>1 DEF Holds, ToSet
  <2>4. refs[m] = Cardinality(H)
    BY <2>2 DEF IInv, HandlesBalanced, Quantify
  <2>5. IsFiniteSet(H)
    <3>1. H \in SUBSET Users
      OBVIOUS
    <3> QED BY <3>1, FS_Subset
  <2> HIDE DEF H
  <2> QED BY <2>3, <2>4, <2>5, FS_EmptySet, FS_CardinalityType
<1> QED BY <1>1, Invariance, PTL

\* A load finds every module that passes validation, for every list of names
\* and every combination of bad files.
THEOREM LoadCorrect == HostSpec => []LoadFindsAll
<1>1. IInv => LoadFindsAll
  <2> SUFFICES ASSUME IInv, NEW u \in Users, doing[u] = "idle", searched[u]
               PROVE  ToSet(loaded[u]) = {m \in Modules : PassesValidation(m)} /\ InOrder(u)
    BY DEF LoadFindsAll
  <2>1. ToSet(loaded[u]) \subseteq Modules
    BY LoadedNames DEF IInv, Base
  <2> QED BY <2>1 DEF IInv, Base, UserOK, Complete
<1> QED BY <1>1, Invariance, PTL

\* Instances of one module do not share options, however many there are.
THEOREM OptionsCorrect == HostSpec => []EmitsOwnOptions
<1>1. IInv => EmitsOwnOptions
  BY DEF IInv
<1> QED BY <1>1, Invariance, PTL
=============================================================================
