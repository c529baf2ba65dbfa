----------------------------- MODULE LinkSession -----------------------------
(***************************************************************************)
(* The public linking API of src/olnk/api.cpp: a context with its          *)
(* callbacks, a mutable config, sessions that snapshot the config, and     *)
(* olnk_session_run with the format serializer of format_serializer.cpp,   *)
(* the builtin formats of format.cpp and write_output_file below it.       *)
(*                                                                         *)
(* olnk_session_run is cut where control leaves the library (the log and   *)
(* diagnostic callbacks) and where the output file is opened and flushed.  *)
(* In a callback the embedder may call the API again, also on the session  *)
(* that is running: a session has a stack of at most MaxDepth run frames.  *)
(* Different sessions may be driven by different threads.                  *)
(*                                                                         *)
(* Contract of the caller that the code relies on and does not check: one  *)
(* thread at a time drives a session, a session is not destroyed while one *)
(* of its runs is on the stack, the context outlives its sessions, and two *)
(* threads are not both inside a Lua lookup.                               *)
(***************************************************************************)
EXTENDS Integers, Sequences, FiniteSets

CONSTANTS
  Sessions,      \* olnk_session handles
  Results,       \* olnk_result handles
  Paths,         \* non-empty output paths
  Formats,       \* builtin format definitions (g_elf_def, g_pe_def, ...)
  PayloadSize,   \* bytes builtin_serialize emits for a definition
  BuiltinNames,  \* names the static registries of formats and machines match
  LuaNames,      \* names only the Lua profiles declare ("gnu-elf", "x86-64")
  OtherNames,    \* names nobody declares
  DefOf,         \* the definition a known name stands for
  DefaultName,   \* "ELF" as a format name, "x86_64" as a machine name
  LogLevels,     \* the log levels the embedder sets
  CallbackModes, \* bound: callbacks the embedder sets (TRUE) or clears
  LookupsThrow,  \* bound: whether Lua lookups may run into an exception
  Configs,       \* bound: the configurations the embedder builds
  Empty,         \* the empty string of an unset config field
  NoDef, NoResult,
  MaxInputs,     \* bound: input files a config lists
  MaxOptions,    \* bound: options stored in a session
  MaxDepth       \* bound: nested runs of one session

Names == BuiltinNames \cup LuaNames \cup OtherNames

\* olnk_log_level_t
Levels == 0..6
LogDebug == 1
LogInfo  == 2
LogError == 4
LogOff   == 6

ASSUME ConstantsAssumption ==
  /\ PayloadSize \in [Formats -> Nat \ {0}]
  /\ DefOf \in [BuiltinNames \cup LuaNames -> Formats]
  /\ DefaultName \in BuiltinNames
  /\ BuiltinNames \cap LuaNames = {}
  /\ OtherNames \cap (BuiltinNames \cup LuaNames) = {}
  /\ Empty \notin Names /\ Empty \notin Paths
  /\ NoDef \notin Formats /\ NoResult \notin Results
  /\ LogLevels \subseteq Levels /\ CallbackModes \subseteq BOOLEAN
  /\ LookupsThrow \in BOOLEAN
  /\ MaxInputs \in Nat /\ MaxOptions \in Nat
  /\ MaxDepth \in Nat \ {0}

VARIABLES
  ctx,        \* olnk_context: log level and which callbacks are set
  config,     \* the embedder's olnk_config
  live,       \* sessions whose handle the caller (or olnk_link) has
  lost,       \* sessions allocated by a failed olnk_session_create
  oneshot,    \* sessions owned by a running olnk_link
  snapshot,   \* session->snapshot_config
  created,    \* history: the config at olnk_session_create
  diags,      \* session->diagnostics: the causes, oldest first
  opts,       \* number of session->options
  depth,      \* number of run frames on a session's stack
  frame,      \* the run frames
  allocated,  \* olnk_result objects on the heap
  held,       \* results delivered to a caller and not yet destroyed
  data,       \* contents of the results
  instances,  \* sessions whose run owns an olnk_format_instance
  lua,        \* the two process-wide Lua registries; threw is history
  file,       \* what the output paths hold
  terminated  \* std::terminate was called: the process is gone

ctxVars == <<ctx, config>>
objVars == <<live, lost, oneshot, snapshot, created>>
resVars == <<allocated, held, data>>
vars == <<ctx, config, live, lost, oneshot, snapshot, created, diags, opts,
          depth, frame, allocated, held, data, instances, lua, file,
          terminated>>

Config == [inputs: 0..MaxInputs, path: Paths \cup {Empty},
           format: Names \cup {Empty}, machine: Names \cup {Empty}]

Causes   == {"no_input", "no_output", "unknown_format", "unknown_machine"}
Statuses == {"OK", "UNKNOWN", "INVALID_ARGUMENT", "OUT_OF_MEMORY", "IO_ERROR"}
Kinds    == {"format", "machine"}

Callbacks == {"cb_start", "cb_format", "cb_diag", "cb_done"}
Pcs == Callbacks \cup {"enter", "begin", "check", "format", "machine",
                       "create", "serialize", "flush", "finish", "return"}

\* The locals of one olnk_session_run. quiet and sole are history: nobody
\* re-entered the session since the frame began, nobody else opened the
\* output path since this frame opened it.
Frame == [pc: Pcs, res: Results \cup {NoResult}, status: Statuses,
          size: Nat, def: Formats \cup {NoDef}, quiet: BOOLEAN, sole: BOOLEAN]

NewFrame == [pc |-> "enter", res |-> NoResult, status |-> "OK", size |-> 0,
             def |-> NoDef, quiet |-> TRUE, sole |-> TRUE]

\* What a path holds: the format of the last payload written over it and the
\* length; the first bytes are that payload. An empty and an absent file are
\* not told apart.
Files == [by: Formats \cup {NoDef}, len: Nat]
EmptyFile == [by |-> NoDef, len |-> 0]

\* ResultStorage; quiet is history, copied from the frame.
ResultData == [status: Statuses, size: Nat, inputs: 0..MaxInputs, errors: Nat,
               path: Paths \cup {Empty}, quiet: BOOLEAN]

NoData == [status |-> "UNKNOWN", size |-> 0, inputs |-> 0,
           errors |-> 0, path |-> Empty, quiet |-> TRUE]

DefaultConfig == [inputs |-> 0, path |-> Empty, format |-> Empty,
                  machine |-> Empty]

Init ==
  /\ ctx = [level |-> LogInfo, log_cb |-> FALSE, diag_cb |-> FALSE]
  /\ config = DefaultConfig
  /\ live = {} /\ lost = {} /\ oneshot = {}
  /\ snapshot = [s \in Sessions |-> DefaultConfig]
  /\ created = [s \in Sessions |-> DefaultConfig]
  /\ diags = [s \in Sessions |-> << >>]
  /\ opts = [s \in Sessions |-> 0]
  /\ depth = [s \in Sessions |-> 0]
  /\ frame = [s \in Sessions |-> [d \in 1..MaxDepth |-> NewFrame]]
  /\ allocated = {} /\ held = {}
  /\ data = [r \in Results |-> NoData]
  /\ instances = {}
  /\ lua = [k \in Kinds |-> [loaded |-> FALSE, names |-> {}, threw |-> FALSE]]
  /\ file = [p \in Paths |-> EmptyFile]
  /\ terminated = FALSE

-----------------------------------------------------------------------------
(* Helpers *)

Top(s) == frame[s][depth[s]]
At(s, pc) == depth[s] > 0 /\ Top(s).pc = pc
InCallback(s) == depth[s] > 0 /\ Top(s).pc \in Callbacks

\* The caller has the handle and is not inside library code of this session.
CallerMayUse(s) == s \in live \ oneshot /\ (depth[s] = 0 \/ InCallback(s))

SetTop(s, f) == frame' = [frame EXCEPT ![s][depth[s]] = f]

\* safe_emit_log calls out only then
EmitsLog(level) == ctx.log_cb /\ ctx.level # LogOff /\ level >= ctx.level

\* History: the runs on the stack of s have been re-entered.
Disturbed(s) ==
  [d \in 1..MaxDepth |-> [frame[s][d] EXCEPT !.quiet = @ /\ d > depth[s]]]

-----------------------------------------------------------------------------
(* Context and config *)

olnk_context_set_log_level(level) ==
  /\ ctx' = [ctx EXCEPT !.level = level]
  /\ UNCHANGED <<config, objVars, diags, opts, depth, frame, resVars,
                 instances, lua, file>>

olnk_context_set_log_callback(on) ==
  /\ ctx' = [ctx EXCEPT !.log_cb = on]
  /\ UNCHANGED <<config, objVars, diags, opts, depth, frame, resVars,
                 instances, lua, file>>

olnk_context_set_diagnostic_callback(on) ==
  /\ ctx' = [ctx EXCEPT !.diag_cb = on]
  /\ UNCHANGED <<config, objVars, diags, opts, depth, frame, resVars,
                 instances, lua, file>>

\* The setters a run depends on: output path, format, machine (set_string) and
\* input files (push_back_string). A setter that runs out of memory leaves the
\* config as it was.
PathEdits == {[config EXCEPT !.path = p] : p \in Paths \cup {Empty}}
NameEdits == {[config EXCEPT !.format = n] : n \in Names \cup {Empty}}
               \cup {[config EXCEPT !.machine = n] : n \in Names \cup {Empty}}
InputEdits == IF config.inputs < MaxInputs
                THEN {[config EXCEPT !.inputs = @ + 1]} ELSE {}
ConfigEdits == PathEdits \cup NameEdits \cup InputEdits

\* Mutant: the session keeps a borrowed pointer to the config.
EditConfig_Borrowed ==
  /\ config' \in ConfigEdits \cap Configs
  /\ snapshot' = [s \in Sessions |->
                    IF s \in live THEN config' ELSE snapshot[s]]
  /\ UNCHANGED <<ctx, live, lost, oneshot, created, diags, opts, depth, frame,
                 resVars, instances, lua, file>>

EditConfig ==
  /\ config' \in ConfigEdits \cap Configs
  /\ UNCHANGED <<ctx, objVars, diags, opts, depth, frame, resVars,
                 instances, lua, file>>

-----------------------------------------------------------------------------
(* Session objects *)

Unused(s) == s \notin live \cup lost

NewSession(s) ==
  /\ Unused(s)
  /\ live' = live \cup {s}
  /\ snapshot' = [snapshot EXCEPT ![s] = config]
  /\ created' = [created EXCEPT ![s] = config]
  /\ diags' = [diags EXCEPT ![s] = << >>]
  /\ opts' = [opts EXCEPT ![s] = 0]
  /\ UNCHANGED <<ctx, config, lost, resVars, instances, lua, file>>

\* The "created" log goes out before the handle is returned: a callback
\* cannot use the session.
olnk_session_create(s) ==
  /\ NewSession(s)
  /\ UNCHANGED <<oneshot, depth, frame>>

\* Copying the config throws: the catch returns nullptr, nobody deletes the
\* session object.
SessionCopyFails(s) ==
  /\ Unused(s)
  /\ lost' = lost \cup {s}
  /\ UNCHANGED <<ctx, config, live, oneshot, snapshot, created, diags, opts,
                 depth, frame, resVars, instances, lua, file>>

\* olnk_link: create a session, run it, destroy it (in RunReturn).
olnk_link(s) ==
  /\ NewSession(s)
  /\ oneshot' = oneshot \cup {s}
  /\ depth' = [depth EXCEPT ![s] = 1]
  /\ frame' = [frame EXCEPT ![s][1] = NewFrame]

\* clear_diagnostics and delete: a freed session holds nothing.
FreeSession(s) ==
  /\ live' = live \ {s}
  /\ snapshot' = [snapshot EXCEPT ![s] = DefaultConfig]
  /\ created' = [created EXCEPT ![s] = DefaultConfig]
  /\ diags' = [diags EXCEPT ![s] = << >>]
  /\ opts' = [opts EXCEPT ![s] = 0]

olnk_session_destroy(s) ==
  /\ s \in live \ oneshot /\ depth[s] = 0
  /\ FreeSession(s)
  /\ UNCHANGED <<ctx, config, lost, oneshot, depth, frame, resVars,
                 instances, lua, file>>

olnk_session_reset(s) ==
  /\ CallerMayUse(s)
  /\ diags' = [diags EXCEPT ![s] = << >>]
  /\ opts' = [opts EXCEPT ![s] = 0]
  /\ frame' = [frame EXCEPT ![s] = Disturbed(s)]
  /\ UNCHANGED <<ctx, config, objVars, depth, resVars, instances, lua, file>>

olnk_session_set_option(s) ==
  /\ CallerMayUse(s)
  /\ opts[s] < MaxOptions
  /\ opts' = [opts EXCEPT ![s] = @ + 1]
  /\ UNCHANGED <<ctx, config, objVars, diags, depth, frame, resVars,
                 instances, lua, file>>

olnk_result_destroy(r) ==
  /\ r \in held
  /\ held' = held \ {r}
  /\ allocated' = allocated \ {r}
  /\ data' = [data EXCEPT ![r] = NoData]
  /\ UNCHANGED <<ctx, config, objVars, diags, opts, depth, frame, instances,
                 lua, file>>

-----------------------------------------------------------------------------
(* olnk_session_run *)

\* The call itself, from outside or from a callback of an outer run.
olnk_session_run(s) ==
  /\ CallerMayUse(s)
  /\ depth[s] < MaxDepth
  /\ depth' = [depth EXCEPT ![s] = @ + 1]
  /\ frame' = [frame EXCEPT ![s] =
                 [Disturbed(s) EXCEPT ![depth[s] + 1] = NewFrame]]
  /\ UNCHANGED <<ctx, config, objVars, diags, opts, resVars, instances, lua,
                 file>>

\* Mutant: diagnostics of the previous run are kept.
RunEnter_NoClear(s) ==
  /\ At(s, "enter")
  /\ SetTop(s, [Top(s) EXCEPT
                  !.pc = IF EmitsLog(LogInfo) THEN "cb_start" ELSE "begin"])
  /\ UNCHANGED <<ctx, config, objVars, diags, opts, depth, resVars, instances,
                 lua, file>>

\* *out_result = nullptr, clear_diagnostics, the "starting" log.
RunEnter(s) ==
  /\ At(s, "enter")
  /\ diags' = [diags EXCEPT ![s] = << >>]
  /\ SetTop(s, [Top(s) EXCEPT
                  !.pc = IF EmitsLog(LogInfo) THEN "cb_start" ELSE "begin"])
  /\ UNCHANGED <<ctx, config, objVars, opts, depth, resVars, instances, lua,
                 file>>

AfterCallback(pc) ==
  CASE pc = "cb_start"  -> "begin"
    [] pc = "cb_format" -> "machine"
    [] pc = "cb_diag"   -> "finish"
    [] pc = "cb_done"   -> "return"

CallbackReturn(s) ==
  /\ InCallback(s)
  /\ SetTop(s, [Top(s) EXCEPT !.pc = AfterCallback(Top(s).pc)])
  /\ UNCHANGED <<ctx, config, objVars, diags, opts, depth, resVars,
                 instances, lua, file>>

\* Mutant: the early return forgets `delete result`.
Abandon_NoDelete(s, f) ==
  /\ SetTop(s, [f EXCEPT !.pc = "return", !.res = NoResult,
                         !.status = "OUT_OF_MEMORY"])
  /\ UNCHANGED <<allocated, held, data, diags>>

\* delete result; return the status with *out_result still null.
Abandon(s, f) ==
  /\ allocated' = allocated \ {f.res}
  /\ SetTop(s, [f EXCEPT !.pc = "return", !.res = NoResult,
                         !.status = "OUT_OF_MEMORY"])
  /\ UNCHANGED <<held, data, diags>>

\* add_diagnostic with the status the run then has, and its callback.
Diagnose(s, f, cause, cb, next) ==
  \/ /\ diags' = [diags EXCEPT ![s] = Append(@, cause)]
     /\ SetTop(s, [f EXCEPT !.pc = IF ctx.diag_cb THEN cb ELSE next,
                            !.status = "INVALID_ARGUMENT"])
     /\ UNCHANGED <<allocated, held, data>>
  \/ Abandon(s, f)

RunMakeResult(s) ==
  /\ At(s, "begin")
  /\ \E r \in Results \ allocated :
       /\ allocated' = allocated \cup {r}
       /\ data' = [data EXCEPT ![r] = NoData]
       /\ SetTop(s, [Top(s) EXCEPT !.pc = "check", !.res = r])
  /\ UNCHANGED <<ctx, config, objVars, diags, opts, depth, held, instances,
                 lua, file>>

\* Mutant: make_result is tried again until memory is there.
RunMakeResultFails_Retry(s) ==
  /\ At(s, "begin")
  /\ UNCHANGED vars

\* make_result returned nullptr
RunMakeResultFails(s) ==
  /\ At(s, "begin")
  /\ SetTop(s, [Top(s) EXCEPT !.pc = "return", !.status = "OUT_OF_MEMORY"])
  /\ UNCHANGED <<ctx, config, objVars, diags, opts, depth, resVars,
                 instances, lua, file>>

\* Its five phases are placeholders that succeed.
run_link_pipeline == "OK"

\* The checks of the snapshot; the pipeline of linker.cpp that follows them
\* runs five empty phases and always succeeds.
RunCheck(s) ==
  /\ At(s, "check")
  /\ \/ /\ snapshot[s].inputs = 0
        /\ Diagnose(s, Top(s), "no_input", "cb_diag", "finish")
     \/ /\ snapshot[s].inputs > 0 /\ snapshot[s].path = Empty
        /\ Diagnose(s, Top(s), "no_output", "cb_diag", "finish")
     \/ /\ snapshot[s].inputs > 0 /\ snapshot[s].path # Empty
        /\ run_link_pipeline = "OK"
        /\ SetTop(s, [Top(s) EXCEPT !.pc = "format"])
        /\ UNCHANGED <<diags, resVars>>
  /\ UNCHANGED <<ctx, config, objVars, opts, depth, instances, lua, file>>

\* The Lua registry after its profiles were read: it keeps what it had and
\* adds what is readable now.
Loads(reg) ==
  {[reg EXCEPT !.loaded = TRUE, !.names = @ \cup readable] :
     readable \in SUBSET LuaNames}

\* Mutant: the profiles are read again at every miss.
AfterLoad_Reload(reg) == Loads(reg)

\* The profiles are read on the first use of the registry only, from files
\* below the working directory: what was readable then is what it knows.
AfterLoad(reg) == IF reg.loaded THEN {reg} ELSE Loads(reg)

\* An exception on the way (Lua or the allocator out of memory) is a miss. The
\* profiles read so far stay registered; `loaded` is set if the exception came
\* from the walk through the registry and not from the load before it.
Throws(reg) ==
  {[r EXCEPT !.loaded = reg.loaded, !.threw = TRUE] : r \in AfterLoad(reg)}
    \cup {[r EXCEPT !.threw = TRUE] : r \in AfterLoad(reg)}

\* The search of the static registry; names are compared ignoring case.
matches_name(n) == n \in BuiltinNames

\* olnk_find_format and olnk_find_machine: the static registry first; only a
\* miss goes to the Lua registry. The registry afterwards and the answer.
Lookups(kind, n) ==
  LET reg == lua[kind] IN
  IF matches_name(n)
    THEN {[reg |-> reg, found |-> TRUE]}
    ELSE {[reg |-> r, found |-> n \in r.names] : r \in AfterLoad(reg)}
           \cup {[reg |-> r, found |-> FALSE] :
                   r \in IF LookupsThrow THEN Throws(reg) ELSE {}}

OrDefault(n) == IF n = Empty THEN DefaultName ELSE n

RunFindFormat(s) ==
  /\ At(s, "format")
  /\ LET n == OrDefault(snapshot[s].format) IN
     \E look \in Lookups("format", n) :
       /\ lua' = [lua EXCEPT !["format"] = look.reg]
       /\ \/ /\ look.found
             /\ SetTop(s, [Top(s) EXCEPT !.pc = "machine", !.def = DefOf[n]])
             /\ UNCHANGED <<diags, resVars>>
          \/ /\ ~look.found
             /\ Diagnose(s, Top(s), "unknown_format", "cb_format", "machine")
  /\ UNCHANGED <<ctx, config, objVars, opts, depth, instances, file>>

\* The machine is looked up even after an unknown format; only the first of
\* the two misses is reported.
RunFindMachine(s) ==
  /\ At(s, "machine")
  /\ LET n == OrDefault(snapshot[s].machine)
         f == Top(s)
     IN \E look \in Lookups("machine", n) :
          /\ lua' = [lua EXCEPT !["machine"] = look.reg]
          /\ \/ /\ f.status = "OK" /\ ~look.found
                /\ Diagnose(s, f, "unknown_machine", "cb_diag", "finish")
             \/ /\ f.status = "OK" => look.found
                /\ SetTop(s, [f EXCEPT !.pc = IF f.status = "OK"
                                                THEN "create" ELSE "finish"])
                /\ UNCHANGED <<diags, resVars>>
  /\ UNCHANGED <<ctx, config, objVars, opts, depth, instances, file>>

\* run_format_serializer up to the serialize hook: builtin_create allocates
\* the instance; there is no apply_defaults, builtin_validate_config accepts.
RunCreateInstance(s) ==
  /\ At(s, "create")
  /\ \/ /\ instances' = instances \cup {s}
        /\ SetTop(s, [Top(s) EXCEPT !.pc = "serialize"])
     \/ /\ instances' = instances
        /\ SetTop(s, [Top(s) EXCEPT !.pc = "finish",
                                    !.status = "OUT_OF_MEMORY"])
  /\ UNCHANGED <<ctx, config, objVars, diags, opts, depth, resVars, lua, file>>

\* Mutant: a path out of run_format_serializer forgets the destroy hook.
DestroyInstance_Forgotten(s) == instances' = instances

\* vtable->destroy, builtin_destroy
DestroyInstance(s) == instances' = instances \ {s}

\* Mutant: the output is opened for update.
Opened_Update(old) == old

\* What ofstream(path, binary | trunc) leaves of the file.
Opened(old) == EmptyFile

\* builtin_serialize calls api_format_emit_output, write_output_file: opening
\* truncates the file. On failure the instance is destroyed and the run ends;
\* for an allocation that fails here see RunTerminates.
RunOpenOutput(s) ==
  /\ At(s, "serialize")
  /\ LET p == snapshot[s].path
         Writing(t) == t # s /\ At(t, "flush") /\ snapshot[t].path = p
     IN \/ /\ file' = [file EXCEPT ![p] = Opened(@)]
           /\ frame' = [t \in Sessions |->
                [d \in 1..MaxDepth |->
                   IF t = s /\ d = depth[s]
                     THEN [Top(s) EXCEPT !.pc = "flush",
                                         !.sole = \A u \in Sessions : ~Writing(u)]
                     ELSE IF Writing(t) /\ d = depth[t]
                            THEN [Top(t) EXCEPT !.sole = FALSE]
                            ELSE frame[t][d]]]
           /\ UNCHANGED instances
        \/ /\ SetTop(s, [Top(s) EXCEPT !.pc = "finish", !.status = "IO_ERROR"])
           /\ DestroyInstance(s)
           /\ UNCHANGED file
  /\ UNCHANGED <<ctx, config, objVars, diags, opts, depth, resVars, lua>>

\* The payload goes to the stream's buffer, which always succeeds at its size
\* (15 to 19 bytes); the good() check passes; the bytes reach the file when
\* the stream is destroyed, at offset 0 of whatever the file holds by then.
\* Only k of them get there; k less than n goes unnoticed.
RunFlushOutput(s) ==
  /\ At(s, "flush")
  /\ LET p == snapshot[s].path
         n == PayloadSize[Top(s).def]
     IN /\ \E k \in 0..n :
             file' = [file EXCEPT ![p] =
                        [by  |-> IF k = 0 THEN @.by ELSE Top(s).def,
                         len |-> IF @.len > k THEN @.len ELSE k]]
        /\ SetTop(s, [Top(s) EXCEPT !.pc = "finish", !.size = n])
        /\ DestroyInstance(s)
  /\ UNCHANGED <<ctx, config, objVars, diags, opts, depth, resVars, lua>>

\* populate_result_from_session, the output size, *out_result = result and
\* the final log. An OK run always has a size, so file_size_or_zero is not
\* reached; for an allocation that fails here see RunTerminates.
RunFinish(s) ==
  /\ At(s, "finish")
  /\ LET f == Top(s) IN
       /\ data' = [data EXCEPT ![f.res] =
            [status |-> f.status,
             size   |-> IF f.status = "OK" THEN f.size ELSE 0,
             inputs |-> snapshot[s].inputs,
             errors |-> Len(diags[s]),
             path   |-> snapshot[s].path,
             quiet  |-> f.quiet]]
       /\ held' = held \cup {f.res}
       /\ SetTop(s, [f EXCEPT !.res = NoResult,
            !.pc = IF EmitsLog(IF f.status = "OK" THEN LogInfo ELSE LogError)
                     THEN "cb_done" ELSE "return"])
  /\ UNCHANGED <<ctx, config, objVars, diags, opts, depth, allocated,
                 instances, lua, file>>

\* Mutant: olnk_link goes on using the session it destroyed.
RunReturn_KeepsOneshot(s) ==
  /\ At(s, "return")
  /\ depth' = [depth EXCEPT ![s] = @ - 1]
  /\ SetTop(s, NewFrame)
  /\ \/ s \in oneshot /\ FreeSession(s)
     \/ s \notin oneshot /\ UNCHANGED <<live, snapshot, created, diags, opts>>
  /\ UNCHANGED <<ctx, config, lost, oneshot, resVars, instances, lua, file>>

\* The call returns; olnk_link then destroys its session.
RunReturn(s) ==
  /\ At(s, "return")
  /\ depth' = [depth EXCEPT ![s] = @ - 1]
  /\ SetTop(s, NewFrame)
  /\ \/ s \in oneshot /\ FreeSession(s) /\ oneshot' = oneshot \ {s}
     \/ s \notin oneshot /\ UNCHANGED <<live, snapshot, created, diags, opts,
                                       oneshot>>
  /\ UNCHANGED <<ctx, config, lost, resVars, instances, lua, file>>

\* An allocation fails inside a noexcept function, which ends the process: the
\* payload string of builtin_serialize or the stream in write_output_file (its
\* buffer is allocated once the file is open and truncated), and the output
\* path copied by populate_result_from_session.
RunTerminates(s) ==
  /\ \/ At(s, "serialize") /\ LET p == snapshot[s].path IN
                                file' \in {file, [file EXCEPT ![p] = Opened(@)]}
     \/ At(s, "finish") /\ UNCHANGED file
  /\ terminated' = TRUE
  /\ UNCHANGED <<ctx, config, objVars, diags, opts, depth, frame, resVars,
                 instances, lua>>

-----------------------------------------------------------------------------
RunStep(s) ==
  \/ RunEnter(s)
  \/ RunMakeResult(s)
  \/ RunMakeResultFails(s)
  \/ RunCheck(s)
  \/ RunFindFormat(s)
  \/ RunFindMachine(s)
  \/ RunCreateInstance(s)
  \/ RunOpenOutput(s)
  \/ RunFlushOutput(s)
  \/ RunFinish(s)
  \/ RunReturn(s)

CallerStep(s) ==
  \/ olnk_session_create(s)
  \/ SessionCopyFails(s)
  \/ olnk_link(s)
  \/ olnk_session_destroy(s)
  \/ olnk_session_reset(s)
  \/ olnk_session_set_option(s)
  \/ olnk_session_run(s)

Step ==
  \/ \E l \in LogLevels : olnk_context_set_log_level(l)
  \/ \E on \in CallbackModes : olnk_context_set_log_callback(on)
  \/ \E on \in CallbackModes : olnk_context_set_diagnostic_callback(on)
  \/ EditConfig
  \/ \E s \in Sessions : CallerStep(s) \/ RunStep(s) \/ CallbackReturn(s)
  \/ \E r \in Results : olnk_result_destroy(r)

Alive == ~terminated /\ UNCHANGED terminated

Next ==
  \/ Alive /\ Step
  \/ ~terminated /\ \E s \in Sessions : RunTerminates(s)
  \/ terminated /\ UNCHANGED vars

Spec == Init /\ [][Next]_vars

\* The library's own steps go on once a call is made; every callback returns,
\* even if it makes any number of nested calls first.
FairSpec ==
  /\ Spec
  /\ \A s \in Sessions : WF_vars(Alive /\ RunStep(s))
  /\ \A s \in Sessions, d \in 1..MaxDepth :
       SF_vars(depth[s] = d /\ Alive /\ CallbackReturn(s))
-----------------------------------------------------------------------------
(* Properties *)

\* The kinds of values the objects, frames and files of the API hold.
TypeOK ==
  /\ ctx \in [level: Levels, log_cb: BOOLEAN, diag_cb: BOOLEAN]
  /\ config \in Config
  /\ live \subseteq Sessions /\ lost \subseteq Sessions /\ oneshot \subseteq live
  /\ snapshot \in [Sessions -> Config]
  /\ created \in [Sessions -> Config]
  /\ diags \in [Sessions -> Seq(Causes)]
  /\ opts \in [Sessions -> 0..MaxOptions]
  /\ depth \in [Sessions -> 0..MaxDepth]
  /\ frame \in [Sessions -> [1..MaxDepth -> Frame]]
  /\ allocated \subseteq Results
  /\ held \subseteq Results
  /\ data \in [Results -> ResultData]
  /\ instances \subseteq Sessions
  /\ lua \in [Kinds -> [loaded: BOOLEAN, names: SUBSET LuaNames, threw: BOOLEAN]]
  /\ file \in [Paths -> Files]
  /\ terminated \in BOOLEAN

\* A frame (s, d) is on the stack and has result r as its local `result`.
Holds(s, d, r) == d <= depth[s] /\ frame[s][d].res = r

\* Every result object has exactly one owner at any time: the run that made
\* it until it is stored through out_result, the caller from then on. So no
\* error path of olnk_session_run leaks a result, none is freed while the
\* caller has it, and nested runs never share one.
ResultOwnership ==
  /\ held \subseteq allocated
  /\ \A s \in Sessions, d \in 1..MaxDepth, r \in Results :
       Holds(s, d, r) => r \in allocated \ held
  /\ \A r \in allocated \ held : \E s \in Sessions, d \in 1..MaxDepth :
       Holds(s, d, r)
  /\ \A s, t \in Sessions, d, e \in 1..MaxDepth, r \in Results :
       Holds(s, d, r) /\ Holds(t, e, r) => s = t /\ d = e

\* The format instance of run_format_serializer lives exactly while its run
\* is between the create and the destroy hook: every path out destroys it.
InstancesBalanced ==
  instances = {s \in Sessions : At(s, "serialize") \/ At(s, "flush")}

\* As long as no lookup threw, an OK result never counts errors, even when
\* callbacks re-entered the session: a nested run that failed left its
\* diagnostics behind only if the outer run fails the same way, because both
\* see one snapshot and one registry state.
OkMeansNoErrors ==
  (\A k \in Kinds : ~lua[k].threw) =>
    \A r \in held : data[r].status = "OK" => data[r].errors = 0

\* If no callback re-entered the session, a run that rejects its
\* configuration reports exactly one error, the first cause it meets, and a
\* run that links reports none, also after a lookup that threw.
RejectionReportedOnce ==
  \A r \in held : data[r].quiet =>
    /\ data[r].status = "INVALID_ARGUMENT" => data[r].errors = 1
    /\ data[r].status = "OK" => data[r].errors = 0

\* A file is only changed by a run, past all its checks, of a session that
\* was created with that output path: later edits of the config and rejected
\* runs never touch an output.
OutputOnlyByOwner ==
  [][\A p \in Paths : file'[p] # file[p] =>
       \E s \in live : /\ created[s].path = p
                       /\ created[s].inputs > 0
                       /\ instances \cap {s} # {}]_vars

\* When a run that nobody raced on its path closes the output, the file holds
\* its own payload or a prefix of it: nothing of an earlier output is left.
SoleWriterOwnsContent ==
  [][\A s \in Sessions :
       LET f == Top(s)
           p == snapshot[s].path
       IN At(s, "flush") /\ ~At(s, "flush")' /\ f.sole =>
            /\ file'[p].len <= PayloadSize[f.def]
            /\ file'[p].by \in {f.def, NoDef}]_vars

\* Every call of olnk_session_run and olnk_link comes back to its caller,
\* whichever allocation fails, unless a failed allocation inside a noexcept
\* function ends the process.
RunReturns == \A s \in Sessions : depth[s] > 0 ~> depth[s] = 0 \/ terminated

(* What the documentation says and the code does not do *)

\* Chapter 4.8 of the manual: serialize should "return actionable status codes
\* on failure": a run about to report OK has its whole payload in the file.
OkMeansWritten ==
  \A s \in Sessions : At(s, "finish") /\ Top(s).status = "OK" =>
    file[snapshot[s].path].len = Top(s).size

\* Chapter 4.8 of the manual: serialize should "emit diagnostics that identify
\* failing stage/sub-record": a result that says the output could not be written
\* counts at least one error.
FailureDiagnosed ==
  \A r \in held : data[r].quiet /\ data[r].status = "IO_ERROR" => data[r].errors > 0
=============================================================================
