# A verification project for OcarinaLNK

OcarinaLNK (`olnk`) is a deterministic linker core in C++ behind a C API: a
library with contexts, configs, sessions and results, an executable that drives
it, plugins it loads, and the data structures of a link (symbols, sections,
relocations, offsets, output image). This directory holds TLA+ modules that
model those parts from the sources, TLC configurations that check them on small
instances, and TLAPS proofs of the safety results for every instance.

Paths below are relative to the repository root, so `src/olnk/api.cpp` is the
file of that name; `PROJECT.json` has the line ranges of every definition.

1. [The system](#1-the-system)
2. [The modules](#2-the-modules)
3. [What the runs check](#3-what-the-runs-check)
4. [Fairness](#4-fairness)
5. [What is proved](#5-what-is-proved)
6. [Where the code and its documentation disagree](#6-where-the-code-and-its-documentation-disagree)
7. [What is not modelled](#7-what-is-not-modelled)
8. [Plan](#8-plan)

## 1. The system

| Component | State it keeps | Operations | What makes it correct |
|---|---|---|---|
| Linking API (`api.cpp`) | context (log level, callbacks), config, sessions with a config snapshot and diagnostics, results | setters, create/run/reset/destroy, `olnk_link` | a result has one owner; a rejected run reports its cause; outputs are touched by their owner only; every run returns or the process ends |
| Library lifecycle (`api.cpp`) | one atomic counter | `olnk_initialize`, `olnk_shutdown` | counts the users, saturates at zero, no call gets stuck |
| Formats and serializer (`format.cpp`, `format_serializer.cpp`) | static tables, a lazily loaded Lua registry, a format instance per run | lookup, create, validate, serialize, destroy | every instance that is created is destroyed |
| Machines (`machine.cpp`) | table whose pointers are written on use, Lua registry | count, at, find, by kind, create | nobody gets a half-written record; a name has one meaning, builtins first |
| Lua profiles (`lua_bindings.cpp`) | registry read on first use | load, define, lookup | a failing profile takes nothing from the others and never crashes the host |
| Pipeline (`linker.cpp`) | none | five placeholder phases | — |
| Command line (`main.cpp`, `cli.cpp`) | `ProcessState` with API handles | parse, apply profile, apply options, run, unwind | everything is released on every early return; options beat the profile; the exit code tells the truth |
| Output builder (`output_builder.cpp`) | inputs, image | `add_section`, `build` | no overlap, alignment, stable order, also near the end of a word |
| Offsets (`compute_offsets.cpp`) | a vector in place | `compute_offsets` | as above |
| Symbol, section tables and IR builder | vectors of records | add, finalize or normalize or build, look up | the order is a function of the contents; ties keep their order |
| Relocations (`relocation.cpp`) | vector of records | plan, order, apply | exact value or an overflow status |
| Plugin host and plugins (`plugin.cpp`, `plugins/*.cpp`) | module handles, plugin instances | load, validate, call, unload | handles balanced, no code unmapped under an instance, instances apart |
| Hash builder (`hash.cpp`) | one XXH3 state on the heap | construct, move, update, digest, reset, destroy | a state has one owner; no byte is lost by a move |
| File access (`file_io.cpp`, `memory_map.cpp`) | locals of a call, the buffer of a mapped file | read, write, open, view, close | no invented bytes, no bytes of an earlier file |
| Task runner (`threading.cpp`) | vector of tasks | add, run, clear | every task once, in order |
| Incremental cache (`incremental.cpp`) | schema version, map of metadata | try_load, store | no hit across schema versions |
| IR iterators (`ir.cpp`) | image, kind, index and count per iterator | create, next, destroy | every record once, none out of range |
| IR visitor, diagnostics buffer, header prefix, Lua schema helpers | none worth the name | | see section 7 |

How they interact. The executable and embedders call the API. A session copies
the config when it is created, so later edits of the config do not reach it. A
run calls the log and diagnostic callbacks of the context, in which the embedder
may call the API again, also on the same session; it looks up a format and a
machine (static table first, Lua registry on a miss), creates a format instance,
lets it serialize through an emit callback that writes the output file, and
stores a result. The registries and the lifecycle counter are process-wide;
everything else hangs off a handle. The layout structures, the relocation code
and the plugin host are not called by the pipeline yet; they are used through
their own interfaces.

What is hard here, and hard to test:

- **Re-entry.** Diagnostics belong to the session and not to the run. A callback
  that resets or re-runs the session changes the state an outer run counts at
  its end.
- **Error paths.** `olnk_session_run` has an early return behind every allocation;
  each must delete its result, and the serializer must destroy its instance.
- **Buffered output.** Opening truncates, the payload sits in a stream buffer, the
  bytes reach the file when the stream is destroyed, after the last check.
- **Shared resources.** Two sessions may write one path; two users of the host may
  load and unload the same module; any thread may initialize or shut down.
- **Words that wrap.** Alignment, offsets, relocation sums, places and the thread
  count are computed in fixed-width unsigned integers.
- **Determinism.** The tables promise an order that does not depend on arrival,
  over any interleaving of adding and normalizing.
- **State loaded once.** What the Lua registry knows is what was readable at its
  first use; an exception in the middle leaves part of it registered, and the
  next lookup reads on top of it profiles that may have changed.
- **Tables written on use.** Every entry point of the machine registry writes all
  pointers of the table, from any thread, without a lock.
- **Check, then use.** A file's size is asked before it is read; an iterator's count
  is taken when it is created; a task may change the vector it is called from.

`PROJECT.json` lists each of these as a hazard at its line with the property
that would notice it.

## 2. The modules

| Module | Models |
|---|---|
| `LinkSession` | contexts, configs, sessions, runs, results, serializer, Lua registries, output files |
| `LinkSessionProofs` | proofs about it |
| `LibraryLifecycle`, `SaturatingCounter` | the lifecycle counter, and what it promises |
| `Alignment` | `align_up` in words of a given modulus, shared by the next two |
| `OutputBuilder`, `ComputeOffsets` | the output builder; `compute_offsets` |
| `Layout`, `LayoutProofs` | the two of them side by side, and proofs about them |
| `LinkTables`, `Relocation` | symbol and section table, relocation planner, IR builder; applying relocations |
| `Cli`, `ApiContract`, `CliProofs` | the executable, what the API header expects of a client, and proofs about both |
| `PluginHost`, `PluginHostProofs` | the plugin helpers and the bundled plugins, and proofs about them |
| `Registry`, `RegistryProofs` | the registries of formats and machines with the Lua profiles behind them, and proofs about them |
| `HashBuilder`, `FileAccess`, `TaskRunner`, `IncrementalCache`, `IrIterator` | the stand-alone helpers of these names |
| `SupportClasses`, `SupportProofs` | `LinkTables`, `Registry` and the helpers side by side; proofs about the tables and the helpers |
| `Components`, `ComponentsProofs` | `Layout`, `PluginHost`, `Cli` and `LibraryLifecycle` side by side; proofs about the lifecycle, and that the composition behaves as each part |
| `Induction` | lemmas about numbers and sequences for the proofs |
| `MC*` | instances for TLC; they define constants and bounds and nothing else |

A name in the code is kept where TLA+ allows it (`olnk_session_run`,
`align_up`, `apply_single`). A definition called `X_Y` with the comment *Mutant*
is a plausible bug in `X`: replacing `X` by it must make TLC report the property
that `PROJECT.json` names beside it. Mutants are used by no specification.

**LinkSession.** A session has a stack of run frames; a frame holds the locals of
`olnk_session_run` (`pc`, the result, the status, the size, the definition). The
function is cut where control leaves the library, at the four callback points
(`cb_start`, `cb_format`, `cb_diag`, `cb_done`), and where the file system is touched
(open, flush). While the top frame is in a callback the embedder may use the session;
`RunReturn` pops the frame and, for `olnk_link`, destroys the one-shot session. Every
allocation of a run may fail. Most are caught and become a status; those inside
noexcept functions (the payload of `builtin_serialize`, the stream of
`write_output_file`, the path that `populate_result_from_session` copies) end the
process: `RunTerminates`, after which nothing moves (`terminated`). `lost` holds the
sessions that a failing copy in `olnk_session_create` leaves behind. Callers keep to
what the header asks and the code does not check: one thread at a time per session, no
destroy during a run, the context outlives its sessions, Lua lookups are not
concurrent. `created`, `quiet`, `sole` and `lua[k].threw` are history variables. Files
are abstracted to which payload was written last over them, and their length; a log
message or a diagnostic is its cause.

**LibraryLifecycle.** One action per atomic operation: the `fetch_add`, the load,
and the weak compare-and-swap with its three outcomes (success, the value
changed, spurious failure). Threads in `Rogue` may shut down what they never
initialized, which the code answers by leaving zero alone; `strays` records who
did. `SaturatingCounter` is the specification with atomic calls; a thread between
load and exchange is mapped to a pending call.

**OutputBuilder, ComputeOffsets.** One action per loop iteration, all sums modulo
`Modulus` (2^64 in the code), so a wrapped sum is visible where the code sees it.
`build` first normalizes the inputs in place, in the same action. A builder or
vector may be used again, with more entries or another base.

**LinkTables, Relocation.** The four classes share one shape, so a behaviour picks a
class and then adds records, normalizes, looks up and applies in any order. `build` of
the IR builder does nothing for a null graph. The comparators are sequences of
components (`SymbolKey`, `SectionKey`, `RelocationKey`, `IrSectionKey`,
`IrSymbolKey`); names are numbers in the order of their strings. `Relocation` computes
in words whose sign bit is `SignBit`, with two's complement addends; negating the
least addend is undefined in C++ and wraps in the builds of this code.

**Cli.** One action per API call. Argument and profile parser are external and
appear as a request: what they deliver. `objs` is the set of live handles, which
is also the state of `ApiContract`, so refinement is by the identity. Every early
return of `run_cli` leads to `unwind`, the destructor of `ProcessState`; an
exception nobody catches leads to `aborted`. `step` is the place in `run_cli`. A
subcommand ends `run_cli` with what `dispatch` returns, the code of its own
`execute`, or 127 for a name nobody registered (the four words that get there are
all registered). `ApplyOutputKind` maps the text to the kind the config keeps.
Only allocations of the API fail in this model; memory for the strings of the
executable itself does not.

**PluginHost.** One action per loop iteration of `load_builtin_modules_from_env`
and `unload_modules` and per call through a vtable. A file in the plugin
directory is described by what is wrong with it, which covers every check of
`validate_query_result`, `validate_descriptor` and `validate_vtable`. The dynamic
loader is external: it counts openings. The helpers are noexcept while strings and
vectors inside them allocate: `Terminates` ends the process there, whereas the
`new (nothrow)` of a plugin's create is answered with OUT_OF_MEMORY. `doing` is the
place of a user, `searched` says that its last load has returned.

**Registry.** A string is a spelling with its lower-case form in `Fold`, a row of the
table is the set of its names and its kind, a profile is the sequence of specs it
declares (`BadSpec`: a required field is missing, the script ends there with an
error). Threads enter, write the table row by row and then answer; formats have
nothing to write. Profiles are edited at any time. A load runs all profiles or throws
behind some of them (`LoadThrows`, read again by the next lookup), and the walk over
the specs behind a load may throw as well (`WalkThrows`); Lua's order over the names
is any order, chosen when names are added. `LinkSession` contains the same registries
at the grain of a run: known or unknown, loaded or not, threw or not. `handed`,
`answers` and `read` are history. Two threads inside the Lua part at once are a data
race and left out.

**HashBuilder.** Builders hold a cell of a heap of XXH3 states or none; a hash is the
seed and the bytes that determine it. Of the vendored xxHash only the allocation and
release of a state and the bytes fed to it are kept. `told` is what the user of a builder has
given to it, against which the digest is compared.

**FileAccess.** `read_file_all` and `MemoryMappedFile::open` are the same three steps:
open, ask for the size, read byte by byte, with other clients writing in between
and any read able to fail.
A write truncates, buffers what fits the stream's buffer and flushes behind the
last check. `quiet` says that nobody interfered, `lost` that the flush failed.

**TaskRunner.** The loop holds an index and the end it computed at its start, and
`capacity` is that of the vector: a task that adds within it goes unnoticed, one
that adds beyond it or clears breaks the iterators. `broken` is that undefined
behaviour; it ends the behaviour.

**IncrementalCache, IrIterator.** One action per function. The cache may be
constructed again for another schema version. `Next_Of` stands for the six next
functions, `GetInfo` for the six accessors; an iterator may be driven through the
function of another kind. Images stand for what `olnk_ir_get_image` will return
one day: today it is nullptr.

**Layout, SupportClasses, Components.** The parts they join share no state, so a
behaviour is that of one part, chosen in the initial state, and the others stay as
they are: the states of a run are the sum of the parts' and not their product.

## 3. What the runs check

Every run explores its state space completely. `MayFail`, `LookupsThrow` and the
like switch failures on; names in capitals in section 2 are constants.

| Run | Instance | Distinct states | Shows |
|---|---|---|---|
| `session_reentry` | 1 session, 2 results, nesting 2, a format only Lua knows, throwing lookups | 1.9 M | `TypeOK`; `ResultOwnership`: no path leaks, shares or double-frees a result; `OkMeansNoErrors`: an OK result counts no errors even after re-entry, unless a lookup threw; `RejectionReportedOnce`: a rejected run counts one error and a linked one none, unless it was re-entered |
| `session_shared` | 2 sessions, 2 formats of different length, 1 path, config edits | 760 k | `InstancesBalanced`; `OutputOnlyByOwner`: an edit of the config never redirects a session, a rejected run never touches a file; `SoleWriterOwnsContent`: nothing of an earlier, longer output is left by a run nobody raced |
| `session_live` | 1 session, nesting 2, unknown names, failing allocations | 370 k | `RunReturns`: a run returns unless the process was terminated |
| `session_lost_write` | as before | violation | `OkMeansWritten`, see section 6 |
| `session_undiagnosed` | 1 session, 1 result, no callbacks | violation | `FailureDiagnosed`, see section 6 |
| `components` | see below | 340 k | all that is said about `Layout`, `PluginHost`, `Cli` and `LibraryLifecycle` |
| `compute_offsets_wrap` | up to 3 entries, words of 4 bits | violation | `TrueMeansDisjoint`, see section 6 |
| `cli_aborted` | a malformed profile | violation | `NeverAborted`, see section 6 |
| `support` | see below | 820 k | all that is said about `LinkTables`, `Registry`, `HashBuilder`, `FileAccess`, `TaskRunner`, `IncrementalCache` and `IrIterator` |
| `file_lost_write` | 2 clients, 1 file | violation | `OkMeansStored`, see section 6 |
| `registry_broken` | 1 thread, 2 profiles, one with an error behind a spec | violation | `BrokenNotRegistered`, see section 6 |
| `registry_alias` | 1 thread, 2 profiles with one alias | violation | `AliasDeterministic`, see section 6 |

The parts of `components`:

| Part | Instance | Distinct states | Shows |
|---|---|---|---|
| lifecycle | 3 threads, 1 of them careless, 2 initializations each | 41 k | `TypeOK`, `CountIsOwners`, `ShutdownReturns`, `RefinesCounter` |
| layout | up to 3 sections or 3 entries, words of 3 bits | 160 k | `LayoutSound`, also for what a failed build leaves; `StableOrder`; `RebuildRepeats`; `TrueMeansEndsFit`; `RoomMeansSound` |
| plugin_host | 2 users, 3 modules, one of them missing, invalid or partial | 138 k | `HandlesBalanced`, `LiveInstanceMapped`, `LoadFindsAll`: a load that has returned, also an empty-handed one, found the valid modules; `EmitsOwnOptions` |
| cli | 60-odd command lines and profiles, any allocation of the API failing | 5.0 k | `AllReleased` (of processes that were not aborted), `SessionAsRequested` with the output kind, and with thread counts that fit, are cut, and are clamped by strtol; `ZeroMeansLinked`; `RefinesContract` |

The parts of `support`:

| Part | Instance | Distinct states | Shows |
|---|---|---|---|
| tables | up to 3 records (2 relocations of 146), words of 3 bits | 184 k | `OrderIndependent`, `TiesInArrivalOrder`, `NoZeroAlignment`, `FindsLeast`, `AppliedIsExact` |
| registry | 2 threads, 2 builtins, 2 profiles with 3 contents, 4 spellings of 3 names | 271 k | `HandedOutComplete`: no definition or instance without its pointers; `OneMeaning`: a name never means two definitions in one process; `AnswersCorrect`: builtins are not shadowed, other answers are those of a registered spec (`AnswersJustified`), and a bad profile takes nothing from the intact ones (`ProfilesTakeEffect`) |
| files | 2 clients, 1 file, payloads of 1 and 2 bytes on both sides of the buffer limit | 320 k | `ReadsHonest`: no bytes nobody wrote (`NoInventedBytes`) and none of an earlier file (`FailedOpenShowsNothing`); `QuietCallsKept`: undisturbed reads are exact, undisturbed writes leave their bytes or, where a check or the last flush failed, a prefix, and nothing of the old content |
| tasks | up to 3 tasks of 5 sorts, runs nested twice | 36 k | `RunsInOrder`: a run that ends has called the tasks it found, once and in order, for as long as no iterator broke |
| hash | 2 builders, 2 states, up to 3 bytes | 2.1 k | `StatesOwned`: no state is leaked, shared or freed twice; `DigestOfAllBytes` |
| ir | 2 iterators, 2 kinds with 1 and 2 records | 1.7 k | `DeliversExactly`: no record out of range (`DeliveredInRange`), every record once (`EnumeratesAll`) |
| cache | 2 keys, 2 schema versions | 64 | `HitIsCompatible` |

Why these bounds are enough for what they are used for:

- A nesting of two has an outer run, a run inside it and the outer run going on;
  deeper frames repeat the relation between neighbours. Two results are one
  delivered and one in the making. Two sessions race; two payloads of different
  length are needed to see a remainder.
- Three threads are two that race on the exchange and one that disturbs the
  counter in between, up and down (ABA included). The modulus is larger than the
  number of threads, as the code's is; the proofs cover every number.
- Three sections are a tie, a third that sorts between or behind, and room for a
  wrap before, at and behind the middle one. Words of three and four bits let
  every sum wrap, with sizes and bases at both ends.
- Relocations use 0, 3, 4 and 7 and the addends -4, -1, 0 and 3: both signs, the
  extremes of both types, and sums on each side of each boundary.
- Two rows and two threads have one thread in the middle of writing the table
  while the other answers. The contents of the profiles hold a spec that shares a
  name with another of a different kind, one of an unknown kind, one that is
  declared twice, one that names a builtin, and one behind an error; with two
  files each may be read first, last or not at all.
- Two clients are one that reads and one that shrinks or replaces the file in
  between; a file of two bytes can shrink to one.
- Two builders are what a move needs, with itself and with a builder that is
  empty, moved from or out of memory. Two kinds with different counts show an
  iterator that mixes them up in both directions.
- Three modules let one fail between two that must still be found.
- Symmetry is used on result and session handles in the runs of invariants and
  step properties; the liveness runs use none.

Deadlock is checked except where stopping is normal: a task runner whose iterators
broke has no next step (`support` and the runs of single parts). In `components` the
executable that has ended and a process that was terminated stutter explicitly.

## 4. Fairness

- `LinkSession!FairSpec`: weak fairness of the run steps of each session, since
  they are straight-line code of a running thread; strong fairness of the return
  from a callback, per depth, since a callback that always returns eventually may
  make nested calls (and disable its own return meanwhile) as often as it likes
  before it does. Nothing is assumed of callers: they need not call anything, nor
  destroy their results. A run for which there is no memory takes the failure
  branch, so no fairness of allocations is needed; where the failure branch is the
  end of the process, `RunReturns` asks for no more.
- `FairComponentsSpec`, the fairness of `LibraryLifecycle!FairLifecycleSpec`: weak
  fairness of load and exchange per thread. It says that the thread keeps running and
  that not every attempt of the weak exchange fails spuriously. That other threads do
  not change the counter between load and exchange for ever is not assumed: it follows
  from the bounded number of calls.

## 5. What is proved

The proofs use no bound: constants are arbitrary values that satisfy the named
assumptions of the module that declares them (TLC evaluates these assumptions on
the instances of section 3). Of the forty properties that the passing runs check,
thirty-eight are stated by a theorem; the other two are liveness.

**`ComponentsProofs`**, from `LifecycleAssumption` (a finite set of threads,
fewer than the counter can count; any subset of them careless):

- `TypeCorrect`: `LifecycleSpec => []TypeOK`.
- `CountCorrect`: `LifecycleSpec => []CountIsOwners`. As long as calls are paired, the
  counter is the number of threads that own a reference. The invariant is not
  inductive alone: a successful exchange writes `current - 1`, so the proof also
  carries `NonZeroAtCas` (a thread about to exchange has read a value that is not
  zero), and `OwnersFit` (the owners are fewer than the modulus, so neither sum
  wraps). Each action changes the owners by at most the acting thread.
- `Refinement`: `LifecycleSpec => RefinesCounter`. Load, failed exchange and spurious failure
  stutter or complete a call at zero; the successful exchange is the atomic
  decrement.
- `ComponentsCompose`: `ComponentsSpec => LayoutSpec /\ HostSpec /\ CliSpec /\
  LifecycleSpec`, so that what is proved of each part holds of the specification the
  run `components` checks.

**`LinkSessionProofs`**, from `ConstantsAssumption` (any sessions, results, paths,
formats, names and configs, any depth of nesting):

- `TypeCorrect`: `Spec => []TypeOK`.
- `OwnershipCorrect`: `Spec => []ResultOwnership`. Every result has one owner.
- `InstancesCorrect`: `Spec => []InstancesBalanced`. Every format instance is
  destroyed.

  One inductive invariant `IInv` carries the three. It adds to them what a place
  in `olnk_session_run` says about the other locals (`FramesOK`: the result is set
  exactly between make_result and the delivery, a definition is known from the
  lookup on), and the shape of the stack (`StackOK`: only live sessions run, the
  session of `olnk_link` runs once, every frame below the top one waits in a
  callback). Without the first a return could drop a result; without the second,
  popping a frame could uncover one in the middle of serializing. All steps of a
  run but its return are reduced to one form, `TopStep`: a frame in order on top,
  the other frames as they were up to history, and one of four effects on the
  result (none, give up, make, deliver). Calls, returns, `olnk_link` and reset are
  treated one by one.
- `ErrorsCorrect`: `Spec => []OkMeansNoErrors`, and `RejectionCorrect`:
  `Spec => []RejectionReportedOnce`. The invariant `ReportInv` says of every frame
  which checks it has passed (`Checked`), that every diagnostic of the session has
  a cause the session's snapshot really has (`Grounded`), and how many there are as
  long as the run is quiet (`Counted`). Why a nested run that failed cannot leave
  errors in an outer run that succeeds is an argument about time: both look at one
  snapshot, and as long as no lookup threw, a registry that is loaded stays as it
  is (`Grows`), so what one of them finds the other finds too. `LookupGrows` and
  `MovesReport` carry it through the steps of other sessions.
- The end of the process (`RunTerminates`) is a step of its own in each of these
  proofs: it may leave a truncated file behind and changes nothing else.
- `OutputOwned`: `Spec => OutputOnlyByOwner`, an action property. `FilesChange`
  names the two steps that touch a file, opening and flushing; `ReportInv` says that
  a frame there has passed the checks on inputs and path.
- `ContentCorrect`: `Spec => SoleWriterOwnsContent`, an action property. `SoleInv`:
  while a run that nobody raced is between opening and flushing, its file is empty
  and no other run is at that place with the same path.

**`LayoutProofs`**, from `ModulusAssumption`, `BuilderAssumption` and
`OffsetsAssumption` (any word size, any sections, entries and bases that fit a word,
any number of them):

- `LayoutCorrect`: `Spec => []LayoutSound`. The inductive invariant adds to
  `LayoutSound` that the inputs being placed have no zero alignment and that every
  section of the image ends at or before the cursor while placing. The lemma
  `AlignUpSound` carries the arithmetic: a padded value that has not wrapped is a
  multiple of the alignment. `NormalizeStep` shows that the sort keeps the types
  and alignments, and `PlaceStep` that the check behind `align_up` is what keeps
  sections apart.
- `StableCorrect`: `Spec => []StableOrder`, and `RebuildCorrect`:
  `Spec => RebuildRepeats`, an action property. `RepeatInv` says what the loop has
  computed from the sections so far, and that the last image is explained by the
  sections as they are now for as long as none was added. The inputs are normalized
  in place, so the proof shows that normalizing what is normal changes nothing.
- `EndsCorrect`: `OffsetsSpec => []TrueMeansEndsFit`, and `RoomCorrect`:
  `OffsetsSpec => []RoomMeansSound`. `OffsetsInv` bounds the cursor by the room that
  the entries so far need at most, and says that a call that failed met an entry for
  which there was none.
- `LayoutersCompose`: `LayoutSpec => Spec /\ OffsetsSpec`, so that all five hold of
  the specification the run checks.

**`CliProofs`**, from `CliAssumption` (any command lines and profiles) and, for the
thread count alone, `LongAssumption` (`long` is wider than the count, as on LP64):

- `ReleasedCorrect`, `ExitCorrect`: `CliSpec => []AllReleased`, `CliSpec => []ZeroMeansLinked`.
  The invariant lists the objects alive at every place of `run_cli` and what is
  known of status and exit code there.
- `ContractRefined`: `CliSpec => RefinesContract`. Every step of the executable is one of
  `ApiContract` on the same set of objects, or leaves the set alone.
- `RequestCorrect`: `CliSpec => []SessionAsRequested`. `StringsAt` says which strings
  have been set at which place; for a profile it relates each entry already read to
  the config, so the order of the map does not matter; `OptionsAt` does it for the kind of
  output. `ListsAt` says how many items of each list are among the first `done`, from
  what flattening the five lists gives (`ItemsInOrder`).

**`PluginHostProofs`**, from `PluginAssumption` (a finite set of users, any modules,
defects and slots): `HandlesCorrect` (`HandlesBalanced`), `InstancesMapped`
(`LiveInstanceMapped`), `LoadCorrect` (`LoadFindsAll`), `OptionsCorrect`
(`EmitsOwnOptions`). The invariant says for a user inside a load which names are
behind it and that exactly the valid ones of them are held, and that an instance's
user holds its module; each step changes the number of holders of one module by at
most one user.

**`RegistryProofs`**, from `RegistryAssumption` (any number of threads, rows, profiles
and names): `HandedOutCorrect` (`HandedOutComplete`) from the rows each thread has
already written; `OneMeaningCorrect` (`OneMeaning`) from the meaning of a name being
fixed by the table or, once loaded, by the specs; `AnswersAreCorrect`
(`AnswersCorrect`) from where the registered specs were read and from the answers
given so far being those of specs that are still registered.

**`SupportProofs`**, each from the assumption of the part's module:

| Theorem | States | Rests on |
|---|---|---|
| `StatesCorrect`, `DigestCorrect` | `StatesOwned`, `DigestOfAllBytes` | a state has the seed and the bytes its owner was told |
| `CacheCorrect` | `HitIsCompatible` | every entry has the schema of the object and lies under its key |
| `IterationCorrect` | `DeliversExactly` | the count of an iterator is that of its image and kind |
| `RunsCorrect` | `RunsInOrder` | what a run has still to call stands in the vector, unless an iterator broke; all runs but the last are inside a call |
| `ReadsCorrect`, `QuietCallsCorrect` | `ReadsHonest`, `QuietCallsKept` | what each place of a call knows of the file it opened, by cases of what another client's step does to it |
| `OrderCorrect`, `TiesCorrect` | `OrderIndependent`, `TiesInArrivalOrder` | the rows are a rearrangement of the arrivals, and a sorted rearrangement is unique up to equal keys |
| `AlignmentsCorrect`, `FindCorrect` | `NoZeroAlignment`, `FindsLeast` | the first of a name in an ordered table is the least |
| `AppliedCorrect` | `AppliedIsExact` | a case analysis of `apply_single` in words of any size |
| `PartsCompose` | `SupportSpec` implies the specification of each part | the parts share no variable |

**`Induction`** has the lemmas the others need about numbers and sequences, derived
from the library's well-founded minimum since its induction theorems take operators:
induction and recursion up to a number, and what `FlattenSeq` computes.

Only model-checked: the liveness properties `RunReturns` and `ShutdownReturns` (the
prover has no rules for fairness or `ENABLED`). The seven violations of section 6
are counterexamples and have nothing to prove.

## 6. Where the code and its documentation disagree

Seven runs end in a counterexample; `PROJECT.json` quotes the sentences.

- `session_lost_write`: `write_output_file` checks the stream before its
  destructor flushes it. A payload that is lost at that moment (a full disk) is
  reported as OK with its full size.
- `compute_offsets_wrap`: `compute_offsets` checks the end of an entry and not the
  padding in front of it; when `align_up` wraps, it returns true with an entry in
  front of the base or over an earlier one. `OutputBuilder::build` has the check,
  and `LayoutCorrect` rests on it.
- `cli_aborted`: the profile parser throws on malformed text, nobody catches the
  exception, and the process is aborted without `olnk_shutdown`.
- `session_undiagnosed`: an output that cannot be opened or written ends a run with
  IO_ERROR, a result that counts no error and no diagnostic to query. The manual asks
  `serialize` for diagnostics that identify the failing stage (chapter 4.8), and the
  API header refers to diagnostics for details.
- `file_lost_write`: `write_file_all` has the flaw of `write_output_file`: bytes lost
  at the close are answered with `kOk`. The file's own header asks its helpers to
  report partial failure, and a status for it exists.
- `registry_broken`: what a profile declares before it raises an error stays
  registered, where the manual says that a broken machine module should fail
  registration (chapter 5.8).
- `registry_alias`: when two specs share an alias, the order of a Lua table decides
  between them, process by process. The manual asks for deterministic precedence
  (chapters 4.9 and 5.3). Within one process the answer does not change
  (`OneMeaning`).

Two more disagreements show in a single call and have no run. The next functions of
the IR ABI answer an error with a positive status where `olnk-ir.h:506` announces a
negative one, and test the status of a wrong kind for being negative, so that an
iterator of another kind is never rejected (`ir.cpp:296`; `KindMatches` and `Next_Of`
do the same). A null iterator passes the same test and is dereferenced
(`ir.cpp:293`).

Seen while modelling and kept as notes, since no document speaks of them: a session
is leaked when copying the config throws (`api.cpp:901`, the action
`SessionCopyFails`); a profile setter that fails ends the executable without a message
(`cli.cpp:278`); a thread count beyond 32 bits is cut (`cli.cpp:329`); specs that a
throwing load registered stay registered although their profile has changed by the
next load (`format.cpp:275`); an allocation that fails in a noexcept helper of a run
or of the plugin host ends the process (`api.cpp:393`, `plugin.cpp:568`).

## 7. What is not modelled

- **Logging, messages, help texts, wording**: only the place where a callback is
  called matters to the properties.
- **Context and session options nobody reads**, and config fields that only getters
  return; the number of session options is kept because reset clears it.
- **The Lua engine and its value conversions, Klyspec, sol2 and xxHash (vendored), the
  dynamic loader and the file system**: not modelled themselves; the models contain
  the outcomes the code must handle.
- **The tables of builtin formats and machines**: data, 720 lines of it for machines.
  The hooks of the machine vtable other than create keep no state.
- **IR visitor, diagnostics buffer, header prefix, Lua schema helpers** (`ir_visitor.cpp`,
  `diagnostics.cpp`, `handle_header.cpp`, `lua_format.cpp`, `lua_machine.cpp`,
  `lua_linker_script.cpp`, `lua_global_utils.cpp`): pure functions of a few lines,
  or a vector that is only appended to; a property would restate them.
- **The texts of the subcommands, and the probes of the executable**, which only print
  or log.
- **`tooling/bfd-scrape/bfd`**: a verbatim copy of GNU BFD, about 612 000 of the
  620 000 lines of C and C++ in the repository. It is third-party code; the files
  around it that would read it (`ast.cc`, `parse.cc`, `serialize.cc`, ...) are
  empty, no build file mentions it and nothing of the linker calls it. Of the
  7 500 lines that are this project's own, the definitions here stand for 43 %;
  most of the rest is the machine table, declarations, comments, messages,
  getters and texts of the command line.
- **Concurrent Lua lookups and data races**: the header leaves serialization to the
  caller, and the models keep to that.

## 8. Plan

Done, in this order: LinkSession with its runs and proofs; LibraryLifecycle, its
abstraction and proofs; Alignment, OutputBuilder and its proof, ComputeOffsets; Cli
against ApiContract; PluginHost; LinkTables and Relocation; HashBuilder, FileAccess,
TaskRunner, IncrementalCache and IrIterator; Registry; Layout, SupportClasses and Components.

Nothing with state of its own is left to model. What would be next, when the code
gets there: the pipeline's phases once they do more than return, images behind
`olnk_ir_get_image`, and callers of the stand-alone helpers.

Proofs: every invariant, every action property and both refinements of the passing
runs are proved (section 5). What is left is a matter of the prover: `RunReturns` and
`ShutdownReturns` under their fairness. Their safety side, that a run has a next step
at every place and that a failed exchange has read a new value, could be stated as
invariants and proved.
