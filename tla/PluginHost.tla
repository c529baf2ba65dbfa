----------------------------- MODULE PluginHost -----------------------------
(***************************************************************************)
(* The plugin helpers of src/olnk/plugin.cpp and the six plugins of        *)
(* plugins/: several users of the host load the builtin modules, create    *)
(* instances, configure and call them, and unload. The dynamic loader is   *)
(* external: it counts how often a module is open and unmaps it at zero.   *)
(* One action per iteration of the loops and per call through a vtable.    *)
(***************************************************************************)
EXTENDS Integers, Sequences, FiniteSets, SequencesExt, FiniteSetsExt

CONSTANTS
  Users,     \* callers of the host helpers, each with a vector of its own
  kNames,    \* bound: the module names tried (six in the code), a sequence
  Directories, \* bound: for each name, what is wrong with its file
  Slots,     \* bound: instances a user holds at a time
  OptionTexts,    \* option values
  Empty,     \* the empty string
  None

\* What keeps dlopen, dlsym and validate_query_result from succeeding.
OpenDefects == {"absent"}
EntryDefects == {"no_entry_point"}
DescriptorDefects == {"no_descriptor", "descriptor_abi", "descriptor_size",
                      "no_name", "unknown_kind"}
VtableDefects == {"no_vtable", "vtable_abi", "vtable_size", "no_create", "no_destroy"}
QueryDefects == {"no_query", "query_abi", "query_size"}

\* Callbacks a module may leave out.
Optional == {"set_option", "initialize", "before_link", "after_link",
             "finalize", "on_event"}

ASSUME PluginAssumption ==
  /\ IsFiniteSet(Users)
  /\ kNames \in Seq(STRING) /\ IsInjective(kNames)
  /\ Directories \subseteq [ToSet(kNames) -> SUBSET (OpenDefects \cup EntryDefects
                    \cup QueryDefects \cup DescriptorDefects \cup VtableDefects
                    \cup Optional)]
  /\ Empty \notin OptionTexts /\ None \notin OptionTexts \cup {Empty}

VARIABLES
  dir,     \* the plugin directory, one of Directories
  refs,    \* how often each module is open (dynamic loader)
  loaded,  \* each user's vector of loaded modules
  doing,      \* idle, or the place in a loop
  pos,     \* the loop's index
  slot,    \* each user's instances: the module, and the plugin's own state
  want,    \* history: the options each user has set with success
  searched, \* history: whether each user's vector is the result of a load
  ret,     \* what the last call returned
  out,     \* the file the last call handed to emit_file, or None
  terminated \* whether std::terminate has ended the process

hostVars == <<dir, refs, loaded, doing, pos, slot, want, searched, ret, out, terminated>>

HostPlaces == {"idle", "open", "examine", "close"}
Modules == ToSet(kNames)

validate_descriptor(m) == dir[m] \cap DescriptorDefects = {}
validate_vtable(m) == dir[m] \cap VtableDefects = {}
validate_query_result(m) ==
  /\ dir[m] \cap QueryDefects = {}
  /\ validate_descriptor(m)
  /\ validate_vtable(m)

\* The options a plugin knows. append-stub prepends a marker to its body.
Keys(m) == IF m = "append-stub.so" THEN {"logical_name", "marker", "body"}
                                   ELSE {"logical_name", "content"}

\* What create leaves in a new instance: texts that are not empty, but for
\* the body of append-stub.
InitialState(m) ==
  [k \in Keys(m) |-> IF k = "body" THEN Empty ELSE "default"]

NoInstance == [module |-> None, state |-> None]

HostInit ==
  /\ dir \in Directories
  /\ refs = [m \in Modules |-> 0]
  /\ loaded = [u \in Users |-> << >>]
  /\ doing = [u \in Users |-> "idle"]
  /\ pos = [u \in Users |-> 1]
  /\ slot = [u \in Users |-> [i \in Slots |-> NoInstance]]
  /\ want = slot
  /\ searched = [u \in Users |-> FALSE]
  /\ ret = "none"
  /\ out = None
  /\ terminated = FALSE

Quiet == ret' = "none" /\ out' = None

-----------------------------------------------------------------------------
(* load_builtin_modules_from_env and unload_modules *)

\* Its result replaces a vector that holds no module.
load_builtin_modules_from_env(u) ==
  /\ doing[u] = "idle" /\ loaded[u] = << >>
  /\ doing' = [doing EXCEPT ![u] = "open"]
  /\ pos' = [pos EXCEPT ![u] = 1]
  /\ Quiet
  /\ searched' = [searched EXCEPT ![u] = FALSE]
  /\ UNCHANGED <<dir, refs, loaded, slot, want>>

\* Mutant: a file that cannot be opened ends the search.
SkipTo_Last(u) == Len(kNames) + 1

\* continue
SkipTo(u) == pos[u] + 1

OpenModule(u) ==
  /\ doing[u] = "open" /\ pos[u] <= Len(kNames)
  /\ LET m == kNames[pos[u]]
     IN IF dir[m] \cap OpenDefects # {}
          THEN /\ pos' = [pos EXCEPT ![u] = SkipTo(u)]
               /\ UNCHANGED <<refs, doing>>
          ELSE /\ refs' = [refs EXCEPT ![m] = @ + 1]
               /\ doing' = [doing EXCEPT ![u] = "examine"]
               /\ UNCHANGED pos
  /\ Quiet
  /\ UNCHANGED <<dir, loaded, slot, want, searched>>

\* Mutant: a module that is turned down stays open.
Rejected_Kept(m) == refs' = refs

\* dlclose(h); continue
Rejected(m) == refs' = [refs EXCEPT ![m] = @ - 1]

ExamineModule(u) ==
  /\ doing[u] = "examine"
  /\ LET m == kNames[pos[u]]
     IN IF dir[m] \cap EntryDefects = {} /\ validate_query_result(m)
          THEN /\ loaded' = [loaded EXCEPT ![u] = Append(@, m)]
               /\ UNCHANGED refs
          ELSE /\ Rejected(m)
               /\ UNCHANGED loaded
  /\ pos' = [pos EXCEPT ![u] = @ + 1]
  /\ doing' = [doing EXCEPT ![u] = "open"]
  /\ Quiet
  /\ UNCHANGED <<dir, slot, want, searched>>

LoadReturns(u) ==
  /\ doing[u] = "open" /\ pos[u] > Len(kNames)
  /\ doing' = [doing EXCEPT ![u] = "idle"]
  /\ Quiet
  /\ searched' = [searched EXCEPT ![u] = TRUE]
  /\ UNCHANGED <<dir, refs, loaded, pos, slot, want>>

\* A user unloads once it has destroyed its instances.
unload_modules(u) ==
  /\ doing[u] = "idle" /\ loaded[u] # << >>
  /\ \A i \in Slots : slot[u][i] = NoInstance
  /\ doing' = [doing EXCEPT ![u] = "close"]
  /\ pos' = [pos EXCEPT ![u] = 1]
  /\ Quiet
  /\ UNCHANGED <<dir, refs, loaded, slot, want, searched>>

CloseModule(u) ==
  /\ doing[u] = "close" /\ pos[u] <= Len(loaded[u])
  /\ refs' = [refs EXCEPT ![loaded[u][pos[u]]] = @ - 1]
  /\ pos' = [pos EXCEPT ![u] = @ + 1]
  /\ Quiet
  /\ UNCHANGED <<dir, loaded, doing, slot, want, searched>>

\* Mutant: the vector keeps its closed handles.
Cleared_Kept(u) == loaded[u]

\* loaded.clear()
Cleared(u) == << >>

UnloadReturns(u) ==
  /\ doing[u] = "close" /\ pos[u] > Len(loaded[u])
  /\ loaded' = [loaded EXCEPT ![u] = Cleared(u)]
  /\ doing' = [doing EXCEPT ![u] = "idle"]
  /\ Quiet
  /\ searched' = [searched EXCEPT ![u] = FALSE]
  /\ UNCHANGED <<dir, refs, pos, slot, want>>

-----------------------------------------------------------------------------
(* Calls through the vtable *)

\* out_instance is set to null first, and stays so when create fails.
create_instance(u, i, m) ==
  /\ doing[u] = "idle" /\ m \in ToSet(loaded[u])
  /\ slot[u][i] = NoInstance
  /\ validate_query_result(m)
  /\ \/ /\ ret' = "OK"
        /\ slot' = [slot EXCEPT ![u][i] = [module |-> m, state |-> InitialState(m)]]
     \/ /\ ret' = "OUT_OF_MEMORY"
        /\ slot' = [slot EXCEPT ![u][i] = [module |-> m, state |-> None]]
  /\ want' = [want EXCEPT ![u][i] = slot'[u][i]]
  /\ out' = None
  /\ UNCHANGED <<dir, refs, loaded, doing, pos, searched>>

\* destroy_instance, also with the null of a failed create
destroy_instance(u, i) ==
  /\ doing[u] = "idle" /\ slot[u][i] # NoInstance
  /\ slot' = [slot EXCEPT ![u][i] = NoInstance]
  /\ want' = [want EXCEPT ![u][i] = NoInstance]
  /\ Quiet
  /\ UNCHANGED <<dir, refs, loaded, doing, pos, searched>>

\* A callback the module leaves out counts as a success.
Provides(m, callback) == callback \notin dir[m]

WithOption(instance, key, value) == [instance EXCEPT !.state[key] = value]

\* Mutant: the options live in a static object of the module.
Store_Static(u, i, key, value) ==
  slot' = [v \in Users |-> [j \in Slots |->
            IF slot[v][j].module = slot[u][i].module /\ slot[v][j].state # None
              THEN WithOption(slot[v][j], key, value)
              ELSE slot[v][j]]]

Store(u, i, key, value) == slot' = [slot EXCEPT ![u][i] = WithOption(@, key, value)]

\* A null key is turned down here, a null value by the plugin.
set_option(u, i, key, value) ==
  /\ doing[u] = "idle" /\ slot[u][i] # NoInstance
  /\ LET m == slot[u][i].module
         known == slot[u][i].state # None /\ key \in Keys(m) /\ value # None
     IN IF key # None /\ Provides(m, "set_option") /\ known
          THEN /\ Store(u, i, key, value)
               /\ want' = [want EXCEPT ![u][i] = WithOption(@, key, value)]
               /\ ret' = "OK"
          ELSE /\ ret' = IF key = None THEN "REJECTED"
                         ELSE IF ~Provides(m, "set_option") THEN "OK"
                         ELSE IF slot[u][i].state = None \/ value = None
                                THEN "INVALID_ARGUMENT" ELSE "NOT_IMPLEMENTED"
               /\ UNCHANGED <<slot, want>>
  /\ out' = None
  /\ UNCHANGED <<dir, refs, loaded, doing, pos, searched>>

\* initialize, before_link, finalize and on_event with an event the host
\* knows: the plugins' hooks do nothing. An unknown event is turned down.
hook(u, i, callback, event) ==
  /\ doing[u] = "idle" /\ slot[u][i] # NoInstance
  /\ ret' = IF callback = "on_event" /\ event = "unknown" THEN "REJECTED" ELSE "OK"
  /\ out' = None
  /\ UNCHANGED <<dir, refs, loaded, doing, pos, slot, want, searched>>

\* Every plugin but append-stub wants a name for its file.
NameIsFine(m, state) == m = "append-stub.so" \/ state["logical_name"] # Empty

\* The host may come without emit_file, and emit_file may fail.
after_link(u, i, emits) ==
  /\ doing[u] = "idle" /\ slot[u][i] # NoInstance
  /\ LET m == slot[u][i].module
         state == slot[u][i].state
     IN IF Provides(m, "after_link") /\ state # None /\ emits # "missing"
             /\ NameIsFine(m, state)
          THEN /\ out' = [user |-> u, slot |-> i, payload |-> state]
               /\ ret' = emits
          ELSE /\ ret' = IF Provides(m, "after_link") THEN "INVALID_ARGUMENT" ELSE "OK"
               /\ out' = None
  /\ UNCHANGED <<dir, refs, loaded, doing, pos, slot, want, searched>>

Load(u) == load_builtin_modules_from_env(u) \/ OpenModule(u) \/ ExamineModule(u)
             \/ LoadReturns(u)
Unload(u) == unload_modules(u) \/ CloseModule(u) \/ UnloadReturns(u)

Call(u, i) ==
  \/ \E m \in Modules : create_instance(u, i, m)
  \/ destroy_instance(u, i)
  \/ \E key \in {"logical_name", "marker", "body", "content", "other", None},
        value \in OptionTexts \cup {Empty, None} : set_option(u, i, key, value)
  \/ \E callback \in {"initialize", "before_link", "finalize", "on_event"},
        event \in {"known", "unknown"} : hook(u, i, callback, event)
  \/ \E emits \in {"missing", "OK", "IO_ERROR"} : after_link(u, i, emits)

Act(u) == Load(u) \/ Unload(u) \/ \E i \in Slots : Call(u, i)

\* The helpers are noexcept: when memory for the path or the vector runs out
\* in a load, or for the texts of a plugin in create, set_option or after_link,
\* the process ends. What create's own nothrow new says is OUT_OF_MEMORY.
Terminates(u) ==
  /\ \/ doing[u] \in {"open", "examine"}
     \/ /\ doing[u] = "idle" /\ loaded[u] # << >>
        /\ \E i \in Slots : slot[u][i] = NoInstance \/ slot[u][i].state # None
  /\ terminated' = TRUE
  /\ UNCHANGED <<dir, refs, loaded, doing, pos, slot, want, searched, ret, out>>

HostNext ==
  \/ ~terminated /\ UNCHANGED terminated /\ \E u \in Users : Act(u)
  \/ ~terminated /\ \E u \in Users : Terminates(u)
  \/ terminated /\ UNCHANGED hostVars

HostSpec == HostInit /\ [][HostNext]_hostVars

-----------------------------------------------------------------------------
\* Where a user stands with a module: it holds a handle it has not closed yet,
\* from a finished load or from the iteration under way.
Holds(u, m) ==
  \/ /\ doing[u] = "examine" /\ kNames[pos[u]] = m
  \/ \E j \in DOMAIN loaded[u] :
       loaded[u][j] = m /\ (doing[u] = "close" => j >= pos[u])

\* Whoever loads and unloads in between, and whatever is wrong with a file:
\* a module is open exactly as often as users hold a handle of it. Nothing
\* stays open for a rejected module and nothing is closed twice.
HandlesBalanced ==
  \A m \in Modules : refs[m] = Quantify(Users, LAMBDA u : Holds(u, m))

\* The code of a live instance is mapped: no user's unload_modules takes a
\* module away from another one.
LiveInstanceMapped ==
  \A u \in Users, i \in Slots :
    slot[u][i] # NoInstance => refs[slot[u][i].module] > 0

PassesValidation(m) ==
  dir[m] \cap (OpenDefects \cup EntryDefects) = {} /\ validate_query_result(m)

\* The modules of a vector stand in the order of the names.
InOrder(u) ==
  \A i, j \in DOMAIN loaded[u] : i < j =>
    \E a, b \in DOMAIN kNames :
      a < b /\ kNames[a] = loaded[u][i] /\ kNames[b] = loaded[u][j]

\* One bad file does not hide the others: a load that has returned found
\* every module that passes validation and no other, each once, in the order
\* of the names, until its result is unloaded.
LoadFindsAll ==
  \A u \in Users :
    doing[u] = "idle" /\ searched[u] =>
      ToSet(loaded[u]) = {m \in Modules : PassesValidation(m)} /\ InOrder(u)

\* What after_link hands to the host is what this user set on this instance,
\* whatever other users did to their instances of the same module meanwhile.
EmitsOwnOptions ==
  out # None => out.payload = want[out.user][out.slot].state
=============================================================================
