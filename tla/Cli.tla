-------------------------------- MODULE Cli --------------------------------
(***************************************************************************)
(* The olnk executable: main of src/main.cpp and run_cli of                *)
(* src/olnk/cli.cpp with apply_profile, apply_config, the dry-run plugin   *)
(* and the destructor of ProcessState. One action per call of the linking  *)
(* API; run_cli's early returns all lead to "unwind", the destructor.      *)
(*                                                                         *)
(* The argument parser and the profile parser (Klyspec) are external: a    *)
(* request says what they deliver.                                         *)
(***************************************************************************)
EXTENDS Integers, Sequences, SequencesExt

CONSTANTS
  Requests,     \* bound: the command lines and the profiles they name
  Values,       \* option values
  Unset,        \* the initial value of a config string
  Malformed,    \* a --define that is not of the form key=value
  CountModulus, \* 2^32, the width of the thread count
  LongMax,      \* where strtol saturates
  MayFail       \* bound: whether allocations fail

\* Config strings in the order in which apply_config sets them, and the
\* options that may be repeated.
Scalars == <<"output", "map", "entry", "format", "machine", "script">>
ProfileScalars == {"output", "format", "machine", "script"}
Lists == <<"define", "library", "library_path", "plugin", "input">>
Flags == {"incremental", "debug_info"}

\* The words --output-kind takes and what they are mapped to
OutputKinds == [executable |-> "EXECUTABLE", shared |-> "SHARED_LIBRARY",
                static |-> "STATIC_IMAGE", relocatable |-> "RELOCATABLE",
                binary |-> "BINARY"]

\* The subcommands run_cli registers, and the first arguments it takes for one
Subcommands == {[name |-> "inspect", id |-> "olnk.native.inspect"],
                [name |-> "profiles", id |-> "olnk.native.profiles"]}
SubcommandWords == {"inspect", "profiles", "olnk.native.inspect", "olnk.native.profiles"}

\* What the parsers deliver. opts are the strings given; kind is the option
\* --output-kind, threads what follows --threads. profile says how far reading
\* it gets, entries what it maps to what: an entry is <<key, value>> with a
\* key of ProfileScalars, "define" (which stands for all keys of the form
\* define.NAME) or any other.
ProfileOutcomes ==
  {"none", "unreadable", "bad_format", "throws", "no_object", "loaded"}

ASSUME CliAssumption ==
  /\ CountModulus \in Nat \ {0} /\ LongMax \in Nat
  /\ MayFail \in BOOLEAN
  /\ Unset \notin Values /\ Malformed \notin Values
  /\ \A r \in Requests :
       /\ r.command \in {"quick_help", "bad_arguments", "help", "link"} \cup SubcommandWords
       /\ r.dry_run \in BOOLEAN
       /\ r.profile \in ProfileOutcomes
       /\ r.entries \subseteq STRING \X Values
       /\ \A e, f \in r.entries : e[1] = f[1] /\ e[1] \in ProfileScalars => e = f
       /\ DOMAIN r.opts \subseteq ToSet(Scalars)
       /\ \A k \in DOMAIN r.opts : r.opts[k] \in Values
       /\ r.kind \in DOMAIN OutputKinds \cup {"absent", "invalid"}
       /\ r.threads.text \in {"absent", "number", "other"}
       /\ r.threads.value \in Int
       /\ r.flags \subseteq Flags
       /\ r.lists \in [ToSet(Lists) -> Seq(Values \cup {Malformed})]

\* long is wider than the thread count, as on the LP64 systems that have the
\* dlopen of the plugin host.
ASSUME LongAssumption == CountModulus <= LongMax + 1

VARIABLES
  req,     \* the command line
  step,
  objs,    \* API objects alive, as in ApiContract
  config,  \* *state.config
  unapplied, \* profile entries still to be applied
  done,    \* settings and list items already applied
  status,  \* what olnk_session_run returned
  exit     \* the exit code

cliVars == <<req, step, objs, config, unapplied, done, status, exit>>

NoConfig == [str     |-> [k \in ToSet(Scalars) |-> Unset],
             kind    |-> "EXECUTABLE",
             threads |-> 0,
             flags   |-> {},
             list    |-> [k \in ToSet(Lists) |-> << >>]]

CliInit ==
  /\ req \in Requests
  /\ step = "main"
  /\ objs = {}
  /\ config = NoConfig
  /\ unapplied = {}
  /\ done = 0
  /\ status = "none"
  /\ exit = -1

-----------------------------------------------------------------------------
\* return code from run_cli, after an error message or without one
Leave(code) == exit' = code /\ step' = "unwind"

Goto(place) == step' = place /\ UNCHANGED exit

main ==
  /\ step = "main"
  /\ objs' = {"library"}
  /\ Goto("arguments")
  /\ UNCHANGED <<req, config, unapplied, done, status>>

\* SubcommandRegistry::dispatch; both subcommands execute with 0.
dispatch(word) == IF \E c \in Subcommands : word \in {c.name, c.id} THEN 0 ELSE 127

\* run_cli up to the ProcessState: help, version and subcommands end here, and
\* so does a command line the parser rejects.
Arguments ==
  /\ step = "arguments"
  /\ \/ req.command \in {"quick_help", "help"} /\ Leave(0)
     \/ req.command \in SubcommandWords /\ Leave(dispatch(req.command))
     \/ req.command = "bad_arguments" /\ Leave(2)
     \/ req.command = "link" /\ Goto("context")
  /\ UNCHANGED <<req, objs, config, unapplied, done, status>>

\* A constructor of the API that may return nullptr.
CreateObject(place, o, onward) ==
  /\ step = place
  /\ \/ objs' = objs \cup {o} /\ Goto(onward)
     \/ MayFail /\ UNCHANGED objs /\ Leave(1)
  /\ UNCHANGED <<req, config, unapplied, done, status>>

CreateContext == CreateObject("context", "context", "config")
CreateConfig  == CreateObject("config", "config", "profile")

\* Opening, reading and parsing the profile. The parser throws on malformed
\* text, nobody catches it and the process is aborted without unwinding.
apply_profile ==
  /\ step = "profile"
  /\ \/ req.profile = "none" /\ Goto("strings") /\ UNCHANGED unapplied
     \/ /\ req.profile \in {"unreadable", "bad_format", "no_object"}
        /\ Leave(2)
        /\ UNCHANGED unapplied
     \/ req.profile = "throws" /\ Goto("aborted") /\ UNCHANGED unapplied
     \/ /\ req.profile = "loaded"
        /\ unapplied' = req.entries
        /\ Goto("entries")
  /\ UNCHANGED <<req, objs, config, done, status>>

\* One entry, in the order of an unordered_map. A setter that fails ends
\* run_cli; the status of a define is not looked at.
ApplyEntry ==
  /\ step = "entries"
  /\ \E e \in unapplied :
       /\ unapplied' = unapplied \ {e}
       /\ LET key == e[1]
          IN \/ /\ key \in ProfileScalars
                /\ config' = [config EXCEPT !.str[key] = e[2]]
                /\ Goto("entries")
             \/ /\ key \in ProfileScalars /\ MayFail
                /\ UNCHANGED config
                /\ Leave(2)
             \/ /\ key = "define"
                /\ config' = [config EXCEPT !.list["define"] = Append(@, e[2])]
                /\ Goto("entries")
             \/ /\ key \notin ProfileScalars /\ (key = "define" => MayFail)
                /\ UNCHANGED config
                /\ Goto("entries")
  /\ UNCHANGED <<req, objs, done, status>>

\* Mutant: a profile takes the place of the command line's strings.
AfterProfile_Exclusive == "output_kind"

AfterProfile == "strings"

EntriesDone ==
  /\ step = "entries" /\ unapplied = {}
  /\ Goto(AfterProfile)
  /\ UNCHANGED <<req, objs, config, unapplied, done, status>>

\* apply_string_setter for the next string
ApplyString ==
  /\ step = "strings" /\ done < Len(Scalars)
  /\ LET k == Scalars[done + 1]
     IN \/ /\ k \in DOMAIN req.opts
           /\ config' = [config EXCEPT !.str[k] = req.opts[k]]
           /\ done' = done + 1 /\ Goto("strings")
        \/ /\ k \in DOMAIN req.opts /\ MayFail
           /\ UNCHANGED <<config, done>> /\ Leave(2)
        \/ /\ k \notin DOMAIN req.opts
           /\ done' = done + 1 /\ Goto("strings") /\ UNCHANGED config
  /\ UNCHANGED <<req, objs, unapplied, status>>

StringsDone ==
  /\ step = "strings" /\ done = Len(Scalars)
  /\ done' = 0
  /\ Goto("output_kind")
  /\ UNCHANGED <<req, objs, config, unapplied, status>>

\* The setter takes every kind the words are mapped to.
ApplyOutputKind ==
  /\ step = "output_kind"
  /\ \/ /\ req.kind \in DOMAIN OutputKinds
        /\ config' = [config EXCEPT !.kind = OutputKinds[req.kind]]
        /\ Goto("threads")
     \/ req.kind = "absent" /\ UNCHANGED config /\ Goto("threads")
     \/ req.kind = "invalid" /\ UNCHANGED config /\ Leave(2)
  /\ UNCHANGED <<req, objs, unapplied, done, status>>

\* strtol: the number, saturated at the ends of long
Strtol(n) == IF n > LongMax THEN LongMax
             ELSE IF n < -LongMax - 1 THEN -LongMax - 1 ELSE n

ApplyThreads ==
  /\ step = "threads"
  /\ LET number == Strtol(req.threads.value)
         bad == req.threads.text = "other"
                  \/ (req.threads.text = "number" /\ number < 0)
     IN \/ bad /\ UNCHANGED config /\ Leave(2)
        \/ /\ ~bad /\ req.threads.text = "number"
           /\ config' = [config EXCEPT !.threads = number % CountModulus]
           /\ Goto("flags")
        \/ req.threads.text = "absent" /\ UNCHANGED config /\ Goto("flags")
  /\ UNCHANGED <<req, objs, unapplied, done, status>>

\* Both flags are written, given or not.
ApplyFlags ==
  /\ step = "flags"
  /\ config' = [config EXCEPT !.flags = req.flags]
  /\ Goto("lists")
  /\ UNCHANGED <<req, objs, unapplied, done, status>>

\* The repeatable options and the inputs, one list after the other.
Items ==
  FlattenSeq([i \in DOMAIN Lists |->
    [j \in DOMAIN req.lists[Lists[i]] |-> <<Lists[i], req.lists[Lists[i]][j]>>]])

\* Only the form of a define is checked; any item may fail to be stored.
ApplyItem ==
  /\ step = "lists" /\ done < Len(Items)
  /\ LET list == Items[done + 1][1]
         item == Items[done + 1][2]
     IN \/ /\ list = "define" /\ item = Malformed
           /\ UNCHANGED <<config, done>> /\ Leave(2)
        \/ /\ item # Malformed
           /\ config' = [config EXCEPT !.list[list] = Append(@, item)]
           /\ done' = done + 1 /\ Goto("lists")
        \/ /\ item # Malformed /\ MayFail
           /\ UNCHANGED <<config, done>> /\ Leave(2)
  /\ UNCHANGED <<req, objs, unapplied, status>>

\* CliBehaviorPlugin::intercept_dispatch
Intercepts == req.dry_run

Dispatch ==
  /\ step = "lists" /\ done = Len(Items)
  /\ IF Intercepts THEN Leave(0) ELSE Goto("session")
  /\ UNCHANGED <<req, objs, config, unapplied, done, status>>

CreateSession == CreateObject("session", "session", "run")

\* olnk_session_run; only when out of memory it may leave the result null.
RunSession ==
  /\ step = "run"
  /\ \/ /\ status' \in {"OK", "INVALID_ARGUMENT", "IO_ERROR", "OUT_OF_MEMORY"}
        /\ objs' = objs \cup {"result"}
     \/ status' = "OUT_OF_MEMORY" /\ MayFail /\ UNCHANGED objs
  /\ Goto("report")
  /\ UNCHANGED <<req, config, unapplied, done>>

\* Mutant: the exit code stays 0 whatever the link did.
ExitCode_Zero(s) == 0

ExitCode(s) == IF s = "OK" THEN 0 ELSE 1

\* Messages, olnk_result_destroy (a null result is fine) and the exit code.
Report ==
  /\ step = "report"
  /\ objs' = objs \ {"result"}
  /\ Leave(ExitCode(status))
  /\ UNCHANGED <<req, config, unapplied, done, status>>

\* Mutant: the members are released in the order of their declaration.
UnwindOrder_Declared == <<"context", "config", "session">>

\* Mutant: the config is forgotten.
UnwindOrder_NoConfig == <<"session", "context">>

\* ~ProcessState, one destroy after the other
UnwindOrder == <<"session", "config", "context">>

Unwind ==
  /\ step = "unwind"
  /\ \E i \in DOMAIN UnwindOrder :
       /\ UnwindOrder[i] \in objs
       /\ \A j \in 1..i-1 : UnwindOrder[j] \notin objs
       /\ objs' = objs \ {UnwindOrder[i]}
  /\ UNCHANGED <<req, step, config, unapplied, done, status, exit>>

Shutdown ==
  /\ step = "unwind" /\ \A i \in DOMAIN UnwindOrder : UnwindOrder[i] \notin objs
  /\ objs' = objs \ {"library"}
  /\ Goto("exited")
  /\ UNCHANGED <<req, config, unapplied, done, status>>

CliNext ==
  \/ main \/ Arguments
  \/ CreateContext \/ CreateConfig
  \/ apply_profile \/ ApplyEntry \/ EntriesDone
  \/ ApplyString \/ StringsDone \/ ApplyOutputKind \/ ApplyThreads
  \/ ApplyFlags \/ ApplyItem
  \/ Dispatch \/ CreateSession \/ RunSession \/ Report
  \/ Unwind \/ Shutdown

CliSpec == CliInit /\ [][CliNext]_cliVars

-----------------------------------------------------------------------------
\* Every way out of main has released every API object and balanced
\* olnk_initialize, whichever allocation or argument failed.
AllReleased == step = "exited" => objs = {}

\* The executable is a correct client of the API: it never creates a session
\* without its context and never destroys what another object still needs,
\* on any of run_cli's early returns.
Contract == INSTANCE ApiContract
RefinesContract == Contract!Spec

\* A string of the config: from the command line, else from the profile.
Wanted(k) ==
  IF k \in DOMAIN req.opts THEN req.opts[k]
  ELSE LET given == {e \in req.entries : e[1] = k}
       IN IF req.profile = "loaded" /\ k \in ProfileScalars /\ given # {}
            THEN (CHOOSE e \in given : TRUE)[2]
            ELSE Unset

WantedKind == IF req.kind = "absent" THEN "EXECUTABLE" ELSE OutputKinds[req.kind]

\* The session is created from the command line and the profile as one reads
\* them: an option beats the profile whatever the order of its entries, the
\* output kind is the one asked for or an executable, a thread count that fits
\* is kept (one that does not is cut off to its low bits), and the repeated
\* options keep their order, behind the profile's defines.
SessionAsRequested ==
  step = "run" =>
    /\ \A k \in ToSet(Scalars) : config.str[k] = Wanted(k)
    /\ config.kind = WantedKind
    /\ config.flags = req.flags
    /\ req.threads.text = "number" /\ req.threads.value < CountModulus =>
         config.threads = req.threads.value
    /\ \A k \in ToSet(Lists) : IsSuffix(req.lists[k], config.list[k])
    /\ \A k \in ToSet(Lists) \ {"define"} : config.list[k] = req.lists[k]

\* Exit code 0 of a link command means that the link succeeded, or that it was
\* a dry run; a dry run never gets as far as a session.
ZeroMeansLinked ==
  /\ step = "exited" /\ exit = 0 /\ req.command = "link" =>
       status = "OK" \/ req.dry_run
  /\ req.dry_run => "session" \notin objs /\ status = "none"

(* What the sources say and the code does not do *)

\* main.cpp: "must stay deterministic and exception-free": main comes back.
NeverAborted == step # "aborted"

=============================================================================
