------------------------------ MODULE CliProofs ------------------------------
(***************************************************************************)
(* main and run_cli, for every set of command lines and profiles.          *)
(***************************************************************************)
EXTENDS Cli, Induction, TLAPS

USE CliAssumption

\* The places of run_cli between the creation of the config and that of the
\* session.
Configuring == {"profile", "entries", "strings", "output_kind", "threads", "flags",
                "lists", "session"}

\* The objects alive at each place
ObjectsAt ==
  \/ step = "main" /\ objs = {}
  \/ step \in {"arguments", "context"} /\ objs = {"library"}
  \/ step = "config" /\ objs = {"library", "context"}
  \/ step \in Configuring \cup {"aborted"} /\ objs = {"library", "context", "config"}
  \/ step = "run" /\ objs = {"library", "context", "config", "session"}
  \/ step = "report" /\ objs \in {{"library", "context", "config", "session"},
                                {"library", "context", "config", "session", "result"}}
  \/ /\ step = "unwind"
     /\ objs \subseteq {"library", "context", "config", "session"}
     /\ "library" \in objs
     /\ "session" \in objs => "context" \in objs
  \/ step = "exited" /\ objs = {}

\* How far a command line gets, and what the exit code then says
ExitCodes ==
  /\ req \in Requests
  /\ step \notin {"unwind", "exited"} => exit = -1
  /\ step \notin {"report", "unwind", "exited"} => status = "none"
  /\ step \in {"session", "run", "report"} => ~req.dry_run
  /\ req.dry_run => "session" \notin objs /\ status = "none"
  /\ step \in {"unwind", "exited"} /\ exit = 0 /\ req.command = "link" =>
       status = "OK" \/ req.dry_run

IInv == ObjectsAt /\ ExitCodes

\* The invariant holds when main starts.
LEMMA InitOK == CliInit => IInv
BY DEF CliInit, IInv, ObjectsAt, ExitCodes

\* Every call of the API, and every early return, keeps the objects as the
\* place in the code says.
LEMMA ObjectsStep == IInv /\ [CliNext]_cliVars => ObjectsAt'
<1> SUFFICES ASSUME IInv, [CliNext]_cliVars PROVE ObjectsAt'
  OBVIOUS
<1> USE DEF IInv, ObjectsAt, Goto, Leave, Configuring
<1>1. CASE UNCHANGED cliVars
  BY <1>1 DEF cliVars
<1>2. CASE main \/ Arguments \/ CreateContext \/ CreateConfig
  BY <1>2 DEF main, Arguments, SubcommandWords, CreateContext, CreateConfig, CreateObject
<1>3. CASE apply_profile \/ ApplyEntry \/ EntriesDone
  BY <1>3 DEF apply_profile, ApplyEntry, EntriesDone, AfterProfile
<1>4. CASE ApplyString \/ StringsDone \/ ApplyOutputKind
  BY <1>4 DEF ApplyString, StringsDone, ApplyOutputKind
<1>5. CASE ApplyThreads \/ ApplyFlags \/ ApplyItem \/ Dispatch
  BY <1>5 DEF ApplyThreads, ApplyFlags, ApplyItem, Dispatch
<1>6. CASE CreateSession \/ RunSession \/ Report
  BY <1>6 DEF CreateSession, CreateObject, RunSession, Report
<1>7. CASE Unwind
  BY <1>7 DEF Unwind, UnwindOrder
<1>8. CASE Shutdown
  <2>1. "session" \notin objs /\ "config" \notin objs /\ "context" \notin objs
    BY <1>8 DEF Shutdown, UnwindOrder
  <2> QED BY <1>8, <2>1 DEF Shutdown
<1> QED BY <1>1, <1>2, <1>3, <1>4, <1>5, <1>6, <1>7, <1>8 DEF CliNext

\* Every step keeps the exit code honest.
LEMMA ExitStep == IInv /\ [CliNext]_cliVars => ExitCodes'
<1> SUFFICES ASSUME IInv, [CliNext]_cliVars PROVE ExitCodes'
  OBVIOUS
<1> USE DEF IInv, ExitCodes, Goto, Leave
<1>1. CASE UNCHANGED cliVars
  BY <1>1 DEF cliVars
<1>2. CASE main \/ Arguments \/ CreateContext \/ CreateConfig
  BY <1>2 DEF main, Arguments, SubcommandWords, CreateContext, CreateConfig, CreateObject
<1>3. CASE apply_profile \/ ApplyEntry \/ EntriesDone
  BY <1>3 DEF apply_profile, ApplyEntry, EntriesDone, AfterProfile
<1>4. CASE ApplyString \/ StringsDone \/ ApplyOutputKind
  BY <1>4 DEF ApplyString, StringsDone, ApplyOutputKind
<1>5. CASE ApplyThreads \/ ApplyFlags \/ ApplyItem \/ Dispatch
  BY <1>5 DEF ApplyThreads, ApplyFlags, ApplyItem, Dispatch, Intercepts
<1>6. CASE CreateSession \/ RunSession \/ Report
  BY <1>6 DEF CreateSession, CreateObject, RunSession, Report, ExitCode
<1>7. CASE Unwind \/ Shutdown
  BY <1>7 DEF Unwind, Shutdown
<1> QED BY <1>1, <1>2, <1>3, <1>4, <1>5, <1>6, <1>7 DEF CliNext

\* The invariant holds throughout.
LEMMA Invariance == CliSpec => []IInv
<1>1. IInv /\ [CliNext]_cliVars => IInv'
  BY ObjectsStep, ExitStep DEF IInv
<1> QED BY <1>1, InitOK, PTL DEF CliSpec

-----------------------------------------------------------------------------
\* Whichever call fails: when main returns, every object is released and
\* olnk_initialize is balanced.
THEOREM ReleasedCorrect == CliSpec => []AllReleased
<1>1. IInv => AllReleased
  BY DEF IInv, ObjectsAt, AllReleased, Configuring
<1> QED BY <1>1, Invariance, PTL

\* Exit code 0 of a link command tells of a link that succeeded, or of a dry
\* run, for every command line and profile.
THEOREM ExitCorrect == CliSpec => []ZeroMeansLinked
<1>1. IInv => ZeroMeansLinked
  BY DEF IInv, ExitCodes, ZeroMeansLinked
<1> QED BY <1>1, Invariance, PTL

\* Every step of the executable is a call the API allows in that state, or
\* none: run_cli implements ApiContract on all of its paths.
THEOREM ContractRefined == CliSpec => RefinesContract
<1>1. CliInit => Contract!Init
  BY DEF CliInit, Contract!Init
<1>2. IInv /\ [CliNext]_cliVars => [Contract!Next]_objs
  <2> SUFFICES ASSUME IInv, [CliNext]_cliVars, objs' # objs PROVE Contract!Next
    OBVIOUS
  <2> USE DEF IInv, ObjectsAt, Configuring, Contract!Next, Contract!Objects, Contract!Create,
              Contract!Destroy, Contract!Needs
  <2>1. CASE main
    BY <2>1 DEF main
  <2>2. CASE CreateContext
    BY <2>2 DEF CreateContext, CreateObject
  <2>3. CASE CreateConfig
    BY <2>3 DEF CreateConfig, CreateObject
  <2>4. CASE CreateSession
    BY <2>4 DEF CreateSession, CreateObject
  <2>5. CASE RunSession
    BY <2>5 DEF RunSession
  <2>6. CASE Report
    BY <2>6 DEF Report
  <2>7. CASE Unwind
    BY <2>7 DEF Unwind, UnwindOrder
  <2>8. CASE Shutdown
    <3>1. objs = {"library"} /\ objs' = {}
      <4>1. "session" \notin objs /\ "config" \notin objs /\ "context" \notin objs
        BY <2>8 DEF Shutdown, UnwindOrder
      <4> QED BY <2>8, <4>1 DEF Shutdown
    <3> QED BY <3>1
  <2>9. CASE UNCHANGED cliVars
    BY <2>9 DEF cliVars
  <2> QED BY <2>1, <2>2, <2>3, <2>4, <2>5, <2>6, <2>7, <2>8, <2>9
    DEF CliNext, Arguments, apply_profile, ApplyEntry, EntriesDone, ApplyString, StringsDone,
        ApplyOutputKind, ApplyThreads, ApplyFlags, ApplyItem, Dispatch
<1> QED BY <1>1, <1>2, Invariance, PTL DEF CliSpec, RefinesContract, Contract!Spec

-----------------------------------------------------------------------------
(* What the session is created from *)

Texts == Values \cup {Malformed}

\* The output kinds of the API
Kinds == {"EXECUTABLE", "SHARED_LIBRARY", "STATIC_IMAGE", "RELOCATABLE", "BINARY"}

\* The kinds of values that the config holds
Conf == [str: [ToSet(Scalars) -> Values \cup {Unset}], kind: Kinds, threads: Int,
         flags: SUBSET Flags, list: [ToSet(Lists) -> Seq(Texts)]]

\* The value of a string before the command line is looked at
FromProfile(r, k) ==
  LET given == {e \in r.entries : e[1] = k}
  IN IF r.profile = "loaded" /\ k \in ProfileScalars /\ given # {}
       THEN (CHOOSE e \in given : TRUE)[2]
       ELSE Unset

\* and behind it
Asked(r, k) == IF k \in DOMAIN r.opts THEN r.opts[k] ELSE FromProfile(r, k)

\* The strings set so far
StringsAt ==
  /\ step \in {"main", "arguments", "context", "config", "profile"} =>
       done = 0 /\ \A k \in ToSet(Scalars) : config.str[k] = Unset
  /\ step = "entries" =>
       /\ done = 0 /\ req.profile = "loaded"
       /\ \A e \in req.entries \ unapplied :
            e[1] \in ProfileScalars => config.str[e[1]] = e[2]
       /\ \A k \in ToSet(Scalars) :
            (k \in ProfileScalars => \A e \in req.entries \ unapplied : e[1] # k) =>
              config.str[k] = Unset
  /\ step = "strings" =>
       /\ done \in 0..6
       /\ \A j \in 1..6 : config.str[Scalars[j]] =
            IF j <= done THEN Asked(req, Scalars[j])
                            ELSE FromProfile(req, Scalars[j])
  /\ step \in {"output_kind", "threads", "flags", "lists", "session", "run"} =>
       \A k \in ToSet(Scalars) : config.str[k] = Asked(req, k)

\* The output kind, the thread count and the flags
OptionsAt ==
  /\ step \in {"main", "arguments", "context", "config", "profile", "entries",
               "strings", "output_kind"} => config.kind = "EXECUTABLE"
  /\ step \in {"threads", "flags", "lists", "session", "run"} => config.kind = WantedKind
  /\ step \in {"flags", "lists", "session", "run"} =>
       (req.threads.text = "number" /\ req.threads.value < CountModulus =>
          config.threads = req.threads.value)
  /\ step \in {"lists", "session", "run"} => config.flags = req.flags

ConfigTyped ==
  req \in Requests /\ config \in Conf /\ unapplied \subseteq req.entries /\ done \in Nat

\* Every word is mapped to an output kind.
LEMMA KindsAre ==
  \A w \in DOMAIN OutputKinds : OutputKinds[w] \in Kinds /\ w # "absent" /\ w # "invalid"
BY DEF OutputKinds, Kinds

\* The names of the config strings and of the lists
LEMMA NamesAre ==
  /\ ToSet(Scalars) = {"output", "map", "entry", "format", "machine", "script"}
  /\ ToSet(Lists) = {"define", "library", "library_path", "plugin", "input"}
  /\ Len(Scalars) = 6 /\ Len(Lists) = 5 /\ DOMAIN Lists = 1..5
  /\ \A j \in 1..6 : Scalars[j] \in ToSet(Scalars)
  /\ \A k \in ToSet(Scalars) : \E j \in 1..6 : k = Scalars[j]
  /\ \A i, j \in 1..6 : Scalars[i] = Scalars[j] => i = j
  /\ \A j \in 1..5 : Lists[j] \in ToSet(Lists)
  /\ \A k \in ToSet(Lists) : \E j \in 1..5 : k = Lists[j]
  /\ \A i, j \in 1..5 : Lists[i] = Lists[j] => i = j
<1>1. DOMAIN Scalars = 1..6 /\ DOMAIN Lists = 1..5 /\ Len(Scalars) = 6 /\ Len(Lists) = 5
  BY DEF Scalars, Lists
<1>2. \A j \in 1..6 : j \in {1, 2, 3, 4, 5, 6}
  OBVIOUS
<1>3. \A j \in 1..5 : j \in {1, 2, 3, 4, 5}
  OBVIOUS
<1>4. /\ Scalars[1] = "output" /\ Scalars[2] = "map" /\ Scalars[3] = "entry"
      /\ Scalars[4] = "format" /\ Scalars[5] = "machine" /\ Scalars[6] = "script"
  BY DEF Scalars
<1>5. /\ Lists[1] = "define" /\ Lists[2] = "library" /\ Lists[3] = "library_path"
      /\ Lists[4] = "plugin" /\ Lists[5] = "input"
  BY DEF Lists
<1>6. ToSet(Scalars) = {Scalars[j] : j \in 1..6} /\ ToSet(Lists) = {Lists[j] : j \in 1..5}
  BY <1>1 DEF ToSet
<1>7. ToSet(Scalars) = {"output", "map", "entry", "format", "machine", "script"}
  BY <1>2, <1>4, <1>6
<1>8. ToSet(Lists) = {"define", "library", "library_path", "plugin", "input"}
  BY <1>3, <1>5, <1>6
<1>9. \A i, j \in 1..6 : Scalars[i] = Scalars[j] => i = j
  BY <1>2, <1>4
<1>10. \A i, j \in 1..5 : Lists[i] = Lists[j] => i = j
  BY <1>3, <1>5
<1> QED BY <1>1, <1>6, <1>7, <1>8, <1>9, <1>10

\* How many items a list of the command line has, and how many stand before it
CountOf(r, p) == Len(r.lists[Lists[p]])
BeforeOf(r, p) ==
  (IF p > 1 THEN CountOf(r, 1) ELSE 0) + (IF p > 2 THEN CountOf(r, 2) ELSE 0)
    + (IF p > 3 THEN CountOf(r, 3) ELSE 0) + (IF p > 4 THEN CountOf(r, 4) ELSE 0)

\* The items are those of the first list, then those of the second, and so on.
ItemsAre ==
  /\ Len(Items) = BeforeOf(req, 5) + CountOf(req, 5)
  /\ \A n \in 1..Len(Items) : \E p \in 1..5 : \E i \in 1..CountOf(req, p) :
       n = BeforeOf(req, p) + i /\ Items[n] = <<Lists[p], req.lists[Lists[p]][i]>>

\* What FlattenSeq makes of the lists
LEMMA ItemsInOrder ==
  ASSUME req \in Requests
  PROVE  ItemsAre /\ \A p \in 1..5 : CountOf(req, p) \in Nat
<1> DEFINE T == ToSet(Lists) \X Texts
           one(i) == [j \in DOMAIN req.lists[Lists[i]] |->
                        <<Lists[i], req.lists[Lists[i]][j]>>]
           ss == [i \in DOMAIN Lists |-> one(i)]
<1>1. \A p \in 1..5 : Lists[p] \in ToSet(Lists)
  BY NamesAre
<1>2. \A p \in 1..5 : req.lists[Lists[p]] \in Seq(Texts)
  BY <1>1 DEF Texts
<1>3. ASSUME NEW p \in 1..5
      PROVE  /\ one(p) \in Seq(T) /\ Len(one(p)) = CountOf(req, p) /\ CountOf(req, p) \in Nat
             /\ \A j \in 1..CountOf(req, p) : one(p)[j] = <<Lists[p], req.lists[Lists[p]][j]>>
  <2>1. PICK q \in Seq(Texts) : q = req.lists[Lists[p]]
    BY <1>2
  <2>2. DOMAIN q = 1..Len(q) /\ Len(q) \in Nat /\ \A j \in 1..Len(q) : q[j] \in Texts
    BY ElementOfSeq, LenProperties
  <2>3. PICK name \in ToSet(Lists) : name = Lists[p]
    BY <1>1
  <2>4. one(p) = [j \in 1..Len(q) |-> <<name, q[j]>>]
    BY <2>1, <2>2, <2>3
  <2>5. \A j \in 1..Len(q) : <<name, q[j]>> \in T
    BY <2>2
  <2>6. one(p) \in [1..Len(q) -> T]
    BY <2>4, <2>5
  <2>7. one(p) \in Seq(T) /\ Len(one(p)) = Len(q)
    <3> HIDE DEF one, T
    <3> QED BY <2>2, <2>6
  <2> QED BY <2>1, <2>2, <2>3, <2>4, <2>7 DEF CountOf
<1>4. ss \in Seq(Seq(T)) /\ Len(ss) = 5 /\ \A p \in 1..5 : ss[p] = one(p)
  <2>1. DOMAIN Lists = 1..5
    BY NamesAre
  <2> HIDE DEF one, T
  <2>2. ss = [i \in 1..5 |-> one(i)]
    BY <2>1
  <2>3. \A i \in 1..5 : one(i) \in Seq(T)
    BY <1>3
  <2> HIDE DEF ss
  <2>4. ss \in [1..5 -> Seq(T)]
    BY <2>2, <2>3
  <2>5. ss \in Seq(Seq(T)) /\ Len(ss) = 5
    <3> DEFINE S == Seq(T)
    <3>0. PICK n \in Nat : n = 5
      OBVIOUS
    <3>1. ss \in [1..n -> S]
      BY <2>4, <3>0
    <3> HIDE DEF S
    <3>2. ss \in Seq(S) /\ Len(ss) = n
      BY ONLY <3>1, n \in Nat
    <3>3. ss \in Seq(S) /\ Len(ss) = 5
      BY <3>0, <3>2
    <3> QED BY <3>3 DEF S
  <2>6. \A p \in 1..5 : ss[p] = one(p)
    BY <2>2
  <2> QED BY <2>5, <2>6
<1>5. Items = FlattenSeq(ss)
  BY DEF Items
<1> HIDE DEF one, ss, T
<1>6. PICK off \in [0..5 -> Nat] : StandsAt(Items, ss, off)
  BY <1>4, <1>5, FlattenIs
<1>7. off[0] = 0 /\ \A p \in 1..5 : off[p] = off[p-1] + CountOf(req, p)
  <2>1. off[0] = 0 /\ \A p \in 1..Len(ss) : off[p] = off[p-1] + Len(ss[p])
    BY <1>6 DEF StandsAt
  <2>2. \A p \in 1..5 : Len(ss[p]) = CountOf(req, p)
    BY <1>3, <1>4
  <2> QED BY <1>4, <2>1, <2>2
<1>8. /\ off[1] = off[0] + CountOf(req, 1) /\ off[2] = off[1] + CountOf(req, 2)
      /\ off[3] = off[2] + CountOf(req, 3) /\ off[4] = off[3] + CountOf(req, 4)
      /\ off[5] = off[4] + CountOf(req, 5)
  <2>1. 1 - 1 = 0 /\ 2 - 1 = 1 /\ 3 - 1 = 2 /\ 4 - 1 = 3 /\ 5 - 1 = 4
    OBVIOUS
  <2> QED BY <1>7, <2>1
<1>9. /\ CountOf(req, 1) \in Nat /\ CountOf(req, 2) \in Nat /\ CountOf(req, 3) \in Nat
      /\ CountOf(req, 4) \in Nat /\ CountOf(req, 5) \in Nat
  BY <1>3
<1>10. \A p \in 1..5 : off[p-1] = BeforeOf(req, p)
  <2>1. off[0] = BeforeOf(req, 1) /\ off[1] = BeforeOf(req, 2)
    BY <1>7, <1>8, <1>9 DEF BeforeOf
  <2>2. off[2] = BeforeOf(req, 3)
    BY <1>7, <1>8, <1>9 DEF BeforeOf
  <2>3. off[3] = BeforeOf(req, 4)
    BY <1>7, <1>8, <1>9 DEF BeforeOf
  <2>4. off[4] = BeforeOf(req, 5)
    BY <1>7, <1>8, <1>9 DEF BeforeOf
  <2>5. /\ off[1-1] = BeforeOf(req, 1) /\ off[2-1] = BeforeOf(req, 2) /\ off[3-1] = BeforeOf(req, 3)
        /\ off[4-1] = BeforeOf(req, 4) /\ off[5-1] = BeforeOf(req, 5)
    <3>1. 1 - 1 = 0 /\ 2 - 1 = 1 /\ 3 - 1 = 2 /\ 4 - 1 = 3 /\ 5 - 1 = 4
      OBVIOUS
    <3> QED BY <2>1, <2>2, <2>3, <2>4, <3>1
  <2> HIDE DEF BeforeOf
  <2>6. \A p \in 1..5 : p \in {1, 2, 3, 4, 5}
    OBVIOUS
  <2> QED BY <2>5, <2>6
<1>11. Len(Items) = BeforeOf(req, 5) + CountOf(req, 5)
  <2>1. off[4] = BeforeOf(req, 5)
    BY <1>10
  <2> QED BY <1>4, <1>6, <1>8, <2>1 DEF StandsAt
<1>12. ASSUME NEW n \in 1..Len(Items)
       PROVE  \E p \in 1..5 : \E i \in 1..CountOf(req, p) :
                n = BeforeOf(req, p) + i /\ Items[n] = <<Lists[p], req.lists[Lists[p]][i]>>
  <2>0. /\ Len(Items) = off[Len(ss)]
        /\ \A q \in 1..off[Len(ss)] : \E p \in 1..Len(ss) : \E i \in 1..Len(ss[p]) :
             q = off[p-1] + i
        /\ \A p \in 1..Len(ss) : \A i \in 1..Len(ss[p]) : Items[off[p-1] + i] = ss[p][i]
    BY <1>6 DEF StandsAt
  <2>a. Len(ss) = 5 /\ n \in 1..off[Len(ss)]
    BY <1>4, <2>0
  <2>b. \E p \in 1..Len(ss) : \E i \in 1..Len(ss[p]) : n = off[p-1] + i
    BY <2>0, <2>a
  <2>1. PICK p \in 1..5 : \E i \in 1..Len(ss[p]) : n = off[p-1] + i
    BY <2>a, <2>b
  <2>2. PICK i \in 1..Len(ss[p]) : n = off[p-1] + i
    BY <2>1
  <2>3. i \in 1..CountOf(req, p) /\ n = BeforeOf(req, p) + i
    BY <1>3, <1>4, <1>10, <2>2
  <2>4. Items[n] = ss[p][i]
    BY <1>4, <2>0, <2>2
  <2>5. Items[n] = <<Lists[p], req.lists[Lists[p]][i]>>
    BY <1>3, <1>4, <2>3, <2>4
  <2> QED BY <2>3, <2>5
<1> QED BY <1>3, <1>11, <1>12 DEF ItemsAre

\* The config keeps its types.
LEMMA TypedStep == ConfigTyped /\ [CliNext]_cliVars => ConfigTyped'
<1> SUFFICES ASSUME ConfigTyped, [CliNext]_cliVars PROVE ConfigTyped'
  OBVIOUS
<1> USE DEF ConfigTyped
<1>r. req' = req
  BY DEF CliNext, main, Arguments, CreateContext, CreateConfig, CreateObject, apply_profile,
         ApplyEntry, EntriesDone, ApplyString, StringsDone, ApplyOutputKind, ApplyThreads,
         ApplyFlags, ApplyItem, Dispatch, CreateSession, RunSession, Report, Unwind,
         Shutdown, cliVars
<1>e. unapplied' \subseteq unapplied \/ unapplied' = req.entries
  BY DEF CliNext, main, Arguments, CreateContext, CreateConfig, CreateObject, apply_profile,
         ApplyEntry, EntriesDone, ApplyString, StringsDone, ApplyOutputKind, ApplyThreads,
         ApplyFlags, ApplyItem, Dispatch, CreateSession, RunSession, Report, Unwind,
         Shutdown, cliVars
<1>d. done' = done \/ done' = done + 1 \/ done' = 0
  BY DEF CliNext, main, Arguments, CreateContext, CreateConfig, CreateObject, apply_profile,
         ApplyEntry, EntriesDone, ApplyString, StringsDone, ApplyOutputKind, ApplyThreads,
         ApplyFlags, ApplyItem, Dispatch, CreateSession, RunSession, Report, Unwind,
         Shutdown, cliVars
<1>s. SUFFICES config' \in Conf
  BY <1>r, <1>e, <1>d
<1>1. CASE config' = config
  BY <1>1
<1>2. ASSUME NEW k \in ToSet(Scalars), NEW v \in Values,
             config' = [config EXCEPT !.str[k] = v]
      PROVE  config' \in Conf
  BY <1>2 DEF Conf
<1>3. ASSUME NEW k \in ToSet(Lists), NEW v \in Texts,
             config' = [config EXCEPT !.list[k] = Append(@, v)]
      PROVE  config' \in Conf
  <2>1. Append(config.list[k], v) \in Seq(Texts)
    <3>1. config.list[k] \in Seq(Texts)
      BY DEF Conf
    <3> QED BY <3>1, AppendProperties
  <2> QED BY <1>3, <2>1 DEF Conf
<1>4. CASE ApplyEntry
  <2>1. PICK e \in unapplied :
          \/ config' = config
          \/ e[1] \in ProfileScalars /\ config' = [config EXCEPT !.str[e[1]] = e[2]]
          \/ config' = [config EXCEPT !.list["define"] = Append(@, e[2])]
    BY <1>4 DEF ApplyEntry
  <2>2. e[2] \in Values /\ e[2] \in Texts
    BY DEF Texts
  <2>3. ProfileScalars \subseteq ToSet(Scalars) /\ "define" \in ToSet(Lists)
    BY NamesAre DEF ProfileScalars
  <2> QED BY <1>1, <1>2, <1>3, <2>1, <2>2, <2>3
<1>5. CASE ApplyString
  <2> DEFINE k == Scalars[done + 1]
  <2>1. config' = config \/ (k \in DOMAIN req.opts
                               /\ config' = [config EXCEPT !.str[k] = req.opts[k]])
    BY <1>5 DEF ApplyString
  <2>2. k \in DOMAIN req.opts => k \in ToSet(Scalars) /\ req.opts[k] \in Values
    OBVIOUS
  <2> HIDE DEF k
  <2> QED BY <1>1, <1>2, <2>1, <2>2
<1>6. CASE ApplyThreads
  <2> DEFINE n == Strtol(req.threads.value) % CountModulus
  <2>1. config' = config \/ config' = [config EXCEPT !.threads = n]
    BY <1>6 DEF ApplyThreads
  <2>2. Strtol(req.threads.value) \in Int
    BY DEF Strtol
  <2>3. n \in Int
    BY <2>2
  <2> HIDE DEF n
  <2> QED BY <2>1, <2>3 DEF Conf
<1>7. CASE ApplyFlags
  BY <1>7 DEF ApplyFlags, Conf
<1>9. CASE ApplyOutputKind
  <2> DEFINE kind == OutputKinds[req.kind]
  <2>1. config' = config \/ (kind \in Kinds /\ config' = [config EXCEPT !.kind = kind])
    BY <1>9, KindsAre DEF ApplyOutputKind
  <2> HIDE DEF kind
  <2> QED BY <2>1 DEF Conf
<1>8. CASE ApplyItem
  <2> DEFINE k == Items[done + 1][1]
             v == Items[done + 1][2]
  <2>1. /\ config' = config \/ config' = [config EXCEPT !.list[k] = Append(@, v)]
        /\ done < Len(Items)
    BY <1>8 DEF ApplyItem
  <2>2. k \in ToSet(Lists) /\ v \in Texts
    <3>1. done + 1 \in 1..Len(Items)
      BY <2>1
    <3>0. ItemsAre
      BY ItemsInOrder
    <3>a. \E p \in 1..5 : \E i \in 1..CountOf(req, p) :
             /\ done + 1 = BeforeOf(req, p) + i
             /\ Items[done + 1] = <<Lists[p], req.lists[Lists[p]][i]>>
      BY <3>0, <3>1 DEF ItemsAre
    <3>b. PICK p \in 1..5 : \E i \in 1..CountOf(req, p) :
             Items[done + 1] = <<Lists[p], req.lists[Lists[p]][i]>>
      BY <3>a
    <3>2. PICK i \in 1..CountOf(req, p) : Items[done + 1] = <<Lists[p], req.lists[Lists[p]][i]>>
      BY <3>b
    <3>3. Lists[p] \in ToSet(Lists) /\ req.lists[Lists[p]] \in Seq(Texts)
      BY SMTT(40), NamesAre DEF Texts
    <3>4. req.lists[Lists[p]][i] \in Texts
      BY <3>2, <3>3, ElementOfSeq DEF CountOf
    <3> QED BY <3>2, <3>3, <3>4
  <2> HIDE DEF k, v
  <2> QED BY <1>1, <1>3, <2>1, <2>2
<1> QED BY <1>1, <1>4, <1>5, <1>6, <1>7, <1>8, <1>9
        DEF CliNext, main, Arguments, CreateContext, CreateConfig, CreateObject, apply_profile,
            EntriesDone, StringsDone, Dispatch, CreateSession, RunSession,
            Report, Unwind, Shutdown, cliVars

\* A step leaves the command line alone.
LEMMA SameRequest == [CliNext]_cliVars => req' = req
BY DEF CliNext, main, Arguments, CreateContext, CreateConfig, CreateObject, apply_profile,
       ApplyEntry, EntriesDone, ApplyString, StringsDone, ApplyOutputKind, ApplyThreads,
       ApplyFlags, ApplyItem, Dispatch, CreateSession, RunSession, Report, Unwind,
       Shutdown, cliVars

\* Before the setters of the command line a string is the profile's.
LEMMA ProfileRead ==
  ASSUME ConfigTyped, StringsAt, step = "entries", unapplied = {}, NEW k \in ToSet(Scalars)
  PROVE  config.str[k] = FromProfile(req, k)
<1>1. /\ req.profile = "loaded"
      /\ \A e \in req.entries : e[1] \in ProfileScalars => config.str[e[1]] = e[2]
      /\ (k \in ProfileScalars => \A e \in req.entries : e[1] # k) => config.str[k] = Unset
  BY DEF StringsAt
<1> DEFINE given == {e \in req.entries : e[1] = k}
<1>2. CASE k \in ProfileScalars /\ given # {}
  <2>1. PICK e \in given : e = CHOOSE f \in given : TRUE
    BY <1>2
  <2>2. e[1] = k /\ e \in req.entries
    BY <2>1
  <2>3. config.str[k] = e[2]
    BY <1>1, <1>2, <2>2
  <2>4. FromProfile(req, k) = (CHOOSE f \in given : TRUE)[2]
    BY <1>1, <1>2 DEF FromProfile
  <2> QED BY <2>1, <2>3, <2>4
<1>3. CASE ~(k \in ProfileScalars /\ given # {})
  <2>1. FromProfile(req, k) = Unset
    BY <1>3 DEF FromProfile
  <2> QED BY <1>1, <1>3, <2>1
<1> QED BY <1>2, <1>3

\* Every step keeps the strings as requested so far.
LEMMA StringsStep == ConfigTyped /\ StringsAt /\ [CliNext]_cliVars => StringsAt'
<1> SUFFICES ASSUME ConfigTyped, StringsAt, [CliNext]_cliVars PROVE StringsAt'
  OBVIOUS
<1>r. req' = req
  BY SameRequest
<1>c. config \in Conf /\ req \in Requests /\ unapplied \subseteq req.entries /\ done \in Nat
  BY DEF ConfigTyped
<1>u. ASSUME config'.str = config.str, step' = step, unapplied' = unapplied, done' = done
      PROVE  StringsAt'
  BY <1>r, <1>u DEF StringsAt
<1>x. ASSUME step' \in {"report", "unwind", "exited", "aborted"}
      PROVE  StringsAt'
  BY <1>x DEF StringsAt
<1>1. CASE ApplyEntry
  <2>1. PICK e \in unapplied :
          /\ unapplied' = unapplied \ {e} /\ done' = done /\ step = "entries"
          /\ \/ step' = "unwind"
             \/ /\ step' = "entries" /\ e[1] \in ProfileScalars
                /\ config' = [config EXCEPT !.str[e[1]] = e[2]]
             \/ /\ step' = "entries" /\ e[1] \notin ProfileScalars
                /\ \/ config' = config
                   \/ config' = [config EXCEPT !.list["define"] = Append(@, e[2])]
    BY <1>1 DEF ApplyEntry, Goto, Leave, ProfileScalars
  <2>2. /\ done = 0 /\ req.profile = "loaded"
        /\ \A f \in req.entries \ unapplied :
             f[1] \in ProfileScalars => config.str[f[1]] = f[2]
        /\ \A k \in ToSet(Scalars) :
             (k \in ProfileScalars => \A f \in req.entries \ unapplied : f[1] # k) =>
               config.str[k] = Unset
    BY <2>1 DEF StringsAt
  <2>3. req.entries' \ unapplied' = (req.entries \ unapplied) \cup {e}
    BY <1>c, <1>r, <2>1
  <2>4. \A f, g \in req.entries : f[1] = g[1] /\ f[1] \in ProfileScalars => f = g
    BY <1>c
  <2>5. ProfileScalars \subseteq ToSet(Scalars) /\ "define" \in ToSet(Lists)
    BY NamesAre DEF ProfileScalars
  <2>6. CASE step' = "entries" /\ e[1] \in ProfileScalars
               /\ config' = [config EXCEPT !.str[e[1]] = e[2]]
    <3>1. PICK k \in ToSet(Scalars) : k = e[1]
      BY <2>5, <2>6
    <3>2. \A l \in ToSet(Scalars) : config'.str[l] = IF l = k THEN e[2] ELSE config.str[l]
      BY <1>c, <2>6, <3>1 DEF Conf
    <3>3. \A f \in req.entries' \ unapplied' :
            f[1] \in ProfileScalars => config'.str[f[1]] = f[2]
      <4> SUFFICES ASSUME NEW f \in req.entries' \ unapplied', f[1] \in ProfileScalars
                   PROVE  config'.str[f[1]] = f[2]
        OBVIOUS
      <4>1. CASE f = e
        BY <3>1, <3>2, <4>1
      <4>2. CASE f # e
        <5>1. f \in req.entries \ unapplied /\ f \in req.entries /\ e \in req.entries
          BY <1>c, <2>1, <2>3, <4>2
        <5>2. f[1] # k
          BY <2>4, <3>1, <4>2, <5>1
        <5>3. config.str[f[1]] = f[2] /\ f[1] \in ToSet(Scalars)
          BY <2>2, <2>5, <5>1
        <5> QED BY <3>2, <5>2, <5>3
      <4> QED BY <4>1, <4>2
    <3>4. \A l \in ToSet(Scalars) :
            (l \in ProfileScalars => \A f \in req.entries' \ unapplied' : f[1] # l) =>
              config'.str[l] = Unset
      BY <2>2, <2>3, <2>6, <3>1, <3>2
    <3> QED BY <1>r, <2>1, <2>2, <2>6, <3>3, <3>4 DEF StringsAt
  <2>7. CASE step' = "entries" /\ e[1] \notin ProfileScalars
               /\ \/ config' = config
                  \/ config' = [config EXCEPT !.list["define"] = Append(@, e[2])]
    <3>1. config'.str = config.str
      BY <1>c, <2>7 DEF Conf
    <3>2. \A f \in req.entries' \ unapplied' :
            f[1] \in ProfileScalars => config'.str[f[1]] = f[2]
      BY <2>2, <2>3, <2>7, <3>1
    <3>3. \A l \in ToSet(Scalars) :
            (l \in ProfileScalars => \A f \in req.entries' \ unapplied' : f[1] # l) =>
              config'.str[l] = Unset
      BY <2>2, <2>3, <2>7, <3>1
    <3> QED BY <1>r, <2>1, <2>2, <2>7, <3>2, <3>3 DEF StringsAt
  <2> QED BY <1>x, <2>1, <2>6, <2>7
<1>2. CASE EntriesDone
  <2>1. /\ step = "entries" /\ unapplied = {} /\ step' = "strings" /\ config' = config
        /\ done' = done /\ done = 0
    BY <1>2 DEF EntriesDone, Goto, AfterProfile, StringsAt
  <2>2. \A j \in 1..6 : config.str[Scalars[j]] = FromProfile(req, Scalars[j])
    BY <2>1, ProfileRead, NamesAre
  <2>3. \A j \in 1..6 : ~(j <= 0)
    OBVIOUS
  <2> QED BY <1>r, <2>1, <2>2, <2>3 DEF StringsAt
<1>3. CASE ApplyString
  <2> DEFINE k == Scalars[done + 1]
  <2>1. /\ step = "strings" /\ done < 6
        /\ \/ step' = "unwind"
           \/ /\ step' = "strings" /\ done' = done + 1
              /\ \/ k \in DOMAIN req.opts /\ config' = [config EXCEPT !.str[k] = req.opts[k]]
                 \/ k \notin DOMAIN req.opts /\ config' = config
    BY <1>3, NamesAre DEF ApplyString, Goto, Leave
  <2>2. /\ done \in 0..6
        /\ \A j \in 1..6 : config.str[Scalars[j]] =
             IF j <= done THEN Asked(req, Scalars[j]) ELSE FromProfile(req, Scalars[j])
    BY <2>1 DEF StringsAt
  <2>3. done + 1 \in 1..6 /\ k \in ToSet(Scalars)
    BY <2>1, <2>2, NamesAre
  <2>4. config.str[k] = FromProfile(req, k)
    BY <2>2, <2>3
  <2>5. CASE step' = "strings" /\ done' = done + 1
              /\ \/ k \in DOMAIN req.opts /\ config' = [config EXCEPT !.str[k] = req.opts[k]]
                 \/ k \notin DOMAIN req.opts /\ config' = config
    <3>1. config'.str[k] = Asked(req, k)
      BY <1>c, <2>3, <2>4, <2>5 DEF Conf, Asked
    <3>2. \A l \in ToSet(Scalars) : l # k => config'.str[l] = config.str[l]
      <4> HIDE DEF k
      <4> QED BY <1>c, <2>3, <2>5 DEF Conf
    <3>3. ASSUME NEW j \in 1..6
          PROVE  config'.str[Scalars[j]] =
                   IF j <= done + 1 THEN Asked(req, Scalars[j]) ELSE FromProfile(req, Scalars[j])
      <4>1. CASE j = done + 1
        BY <2>2, <3>1, <4>1
      <4>2. CASE j # done + 1
        <5>1. Scalars[j] # k /\ Scalars[j] \in ToSet(Scalars)
          BY <2>3, <4>2, NamesAre
        <5>2. j <= done + 1 <=> j <= done
          BY <2>2, <4>2
        <5> QED BY <2>2, <3>2, <5>1, <5>2
      <4> QED BY <4>1, <4>2
    <3>4. done' \in 0..6
      BY <2>1, <2>2, <2>5
    <3> HIDE DEF k
    <3> QED BY <1>r, <2>5, <3>3, <3>4 DEF StringsAt
  <2> HIDE DEF k
  <2> QED BY <1>x, <2>1, <2>5
<1>4. CASE StringsDone
  <2>1. step = "strings" /\ done = 6 /\ config' = config /\ step' = "output_kind"
    BY <1>4, NamesAre DEF StringsDone, Goto
  <2>2. \A j \in 1..6 : config.str[Scalars[j]] = Asked(req, Scalars[j])
    <3>1. \A j \in 1..6 : j <= 6
      OBVIOUS
    <3> QED BY <2>1, <3>1 DEF StringsAt
  <2>3. \A k \in ToSet(Scalars) : config.str[k] = Asked(req, k)
    BY <2>2, NamesAre
  <2> QED BY <1>r, <2>1, <2>3 DEF StringsAt
<1>5. CASE apply_profile
  <2>1. /\ step = "profile" /\ config' = config /\ done' = done
        /\ done = 0 /\ \A k \in ToSet(Scalars) : config.str[k] = Unset
    BY <1>5 DEF apply_profile, StringsAt
  <2>2. CASE req.profile = "none" /\ step' = "strings"
    <3>1. \A k : FromProfile(req, k) = Unset
      BY <2>2 DEF FromProfile
    <3>2. \A j \in 1..6 : config.str[Scalars[j]] = FromProfile(req, Scalars[j])
      BY <2>1, <3>1, NamesAre
    <3>3. \A j \in 1..6 : ~(j <= 0)
      OBVIOUS
    <3> QED BY <1>r, <2>1, <2>2, <3>2, <3>3 DEF StringsAt
  <2>3. CASE req.profile = "loaded" /\ step' = "entries" /\ unapplied' = req.entries
    <3>1. req'.entries \ unapplied' = {}
      BY <1>r, <2>3
    <3> QED BY <1>r, <2>1, <2>3, <3>1 DEF StringsAt
  <2> QED BY <1>5, <1>x, <2>2, <2>3 DEF apply_profile, Goto, Leave
<1>6. CASE main \/ Arguments \/ CreateContext \/ CreateConfig
  BY <1>6, <1>r DEF main, Arguments, CreateContext, CreateConfig, CreateObject, Goto, Leave,
                    StringsAt
<1>7. CASE Dispatch \/ CreateSession
  BY <1>7, <1>r DEF Dispatch, CreateSession, CreateObject, Goto, Leave, StringsAt
<1>13. CASE ApplyOutputKind
  <2> DEFINE kind == OutputKinds[req.kind]
  <2>1. /\ step = "output_kind" /\ step' \in {"threads", "unwind"}
        /\ config' = config \/ config' = [config EXCEPT !.kind = kind]
    BY <1>13 DEF ApplyOutputKind, Goto, Leave
  <2> HIDE DEF kind
  <2>2. config'.str = config.str
    BY <1>c, <2>1 DEF Conf
  <2> QED BY <1>r, <2>1, <2>2 DEF StringsAt
<1>8. CASE ApplyThreads
  <2>1. config'.str = config.str
    <3> DEFINE n == Strtol(req.threads.value) % CountModulus
    <3>1. config' = config \/ config' = [config EXCEPT !.threads = n]
      BY <1>8 DEF ApplyThreads
    <3> HIDE DEF n
    <3> QED BY <1>c, <3>1 DEF Conf
  <2>2. step = "threads" /\ step' \in {"flags", "unwind"}
    BY <1>8 DEF ApplyThreads, Goto, Leave
  <2> QED BY <1>r, <2>1, <2>2 DEF StringsAt
<1>9. CASE ApplyFlags
  <2>1. config'.str = config.str /\ step = "flags" /\ step' = "lists"
    BY <1>9, <1>c DEF ApplyFlags, Goto, Conf
  <2> QED BY <1>r, <2>1 DEF StringsAt
<1>10. CASE ApplyItem
  <2> DEFINE k == Items[done + 1][1]
             v == Items[done + 1][2]
  <2>1. /\ config' = config \/ config' = [config EXCEPT !.list[k] = Append(@, v)]
        /\ step = "lists" /\ step' \in {"lists", "unwind"}
    BY <1>10 DEF ApplyItem, Goto, Leave
  <2> HIDE DEF k, v
  <2>2. config'.str = config.str
    BY <1>c, <2>1 DEF Conf
  <2> QED BY <1>r, <2>1, <2>2 DEF StringsAt
<1>11. CASE RunSession \/ Report \/ Shutdown \/ Unwind
  BY <1>11, <1>x DEF RunSession, Report, Shutdown, Unwind, Goto, Leave
<1>12. CASE UNCHANGED cliVars
  BY <1>12, <1>u DEF cliVars
<1> QED BY <1>1, <1>2, <1>3, <1>4, <1>5, <1>6, <1>7, <1>8, <1>9, <1>10, <1>11, <1>12, <1>13
        DEF CliNext

\* Every step keeps the output kind, the thread count and the flags as requested.
LEMMA OptionsStep == ConfigTyped /\ OptionsAt /\ [CliNext]_cliVars => OptionsAt'
<1> SUFFICES ASSUME ConfigTyped, OptionsAt, [CliNext]_cliVars PROVE OptionsAt'
  OBVIOUS
<1>r. req' = req
  BY SameRequest
<1>w. WantedKind' = WantedKind
  BY <1>r DEF WantedKind
<1>c. config \in Conf /\ req \in Requests
  BY DEF ConfigTyped
<1>1. CASE ApplyThreads
  <2> DEFINE n == Strtol(req.threads.value) % CountModulus
  <2>1. /\ step = "threads" /\ step' \in {"flags", "unwind"}
        /\ step' = "flags" =>
             \/ req.threads.text = "absent" /\ config' = config
             \/ /\ req.threads.text = "number" /\ ~(Strtol(req.threads.value) < 0)
                /\ config' = [config EXCEPT !.threads = n]
    BY <1>1 DEF ApplyThreads, Goto, Leave
  <2>2. ASSUME req.threads.text = "number", ~(Strtol(req.threads.value) < 0),
               req.threads.value < CountModulus
        PROVE  n = req.threads.value
    <3>1. PICK v \in Int : v = req.threads.value
      BY <1>c
    <3>2. Strtol(v) = v /\ 0 <= v
      BY <2>2, <3>1, LongAssumption DEF Strtol
    <3>a. CountModulus \in Nat \ {0} /\ v < CountModulus
      BY <2>2, <3>1, CliAssumption
    <3>3. v % CountModulus = v
      BY ONLY v \in Int, <3>2, <3>a
    <3> QED BY <3>1, <3>2, <3>3
  <2> HIDE DEF n
  <2>3. req.threads.text = "number" /\ ~(Strtol(req.threads.value) < 0)
          /\ config' = [config EXCEPT !.threads = n] => config'.threads = n
    BY <1>c DEF Conf
  <2>4. step' = "flags" => (req.threads.text = "number" /\ req.threads.value < CountModulus =>
          config'.threads = req.threads.value)
    BY <2>1, <2>2, <2>3
  <2>5. step' = "flags" => config'.kind = WantedKind
    <3>1. config.kind = WantedKind
      BY <2>1 DEF OptionsAt
    <3> QED BY <1>c, <2>1, <3>1 DEF Conf
  <2> QED BY <1>r, <1>w, <2>1, <2>4, <2>5 DEF OptionsAt
<1>2. CASE ApplyFlags
  <2>1. /\ step = "flags" /\ step' = "lists" /\ config'.kind = config.kind
        /\ config'.threads = config.threads /\ config'.flags = req.flags
    BY <1>2, <1>c DEF ApplyFlags, Goto, Conf
  <2> QED BY <1>r, <1>w, <2>1 DEF OptionsAt
<1>3. CASE ApplyItem
  <2> DEFINE k == Items[done + 1][1]
             v == Items[done + 1][2]
  <2>1. /\ config' = config \/ config' = [config EXCEPT !.list[k] = Append(@, v)]
        /\ step = "lists" /\ step' \in {"lists", "unwind"}
    BY <1>3 DEF ApplyItem, Goto, Leave
  <2> HIDE DEF k, v
  <2>2. /\ config'.threads = config.threads /\ config'.flags = config.flags
        /\ config'.kind = config.kind
    BY <1>c, <2>1 DEF Conf
  <2> QED BY <1>r, <1>w, <2>1, <2>2 DEF OptionsAt
<1>4. CASE ApplyOutputKind
  <2> DEFINE kind == OutputKinds[req.kind]
  <2>1. /\ step = "output_kind" /\ step' \in {"threads", "unwind"}
        /\ step' = "threads" =>
             \/ req.kind = "absent" /\ config' = config
             \/ req.kind \in DOMAIN OutputKinds /\ config' = [config EXCEPT !.kind = kind]
    BY <1>4 DEF ApplyOutputKind, Goto, Leave
  <2>2. config.kind = "EXECUTABLE"
    BY <2>1 DEF OptionsAt
  <2>3. req.kind = "absent" => WantedKind = "EXECUTABLE"
    BY DEF WantedKind
  <2>4. req.kind \in DOMAIN OutputKinds => WantedKind = kind
    BY KindsAre DEF WantedKind
  <2> HIDE DEF kind
  <2>5. step' = "threads" => config'.kind = WantedKind
    BY <1>c, <2>1, <2>2, <2>3, <2>4 DEF Conf
  <2> QED BY <1>w, <2>1, <2>5 DEF OptionsAt
<1>5. CASE \/ main \/ Arguments \/ CreateContext \/ CreateConfig
           \/ apply_profile \/ EntriesDone \/ StringsDone
  <2>1. /\ step' \notin {"threads", "flags", "lists", "session", "run"} /\ config' = config
        /\ step \in {"main", "arguments", "context", "config", "profile", "entries", "strings"}
    BY <1>5 DEF main, Arguments, CreateContext, CreateConfig, CreateObject, apply_profile,
                EntriesDone, AfterProfile, StringsDone, Goto, Leave
  <2> QED BY <2>1 DEF OptionsAt
<1>6. CASE ApplyEntry
  <2>1. PICK e \in unapplied :
          \/ config' = config
          \/ config' = [config EXCEPT !.str[e[1]] = e[2]]
          \/ config' = [config EXCEPT !.list["define"] = Append(@, e[2])]
    BY <1>6 DEF ApplyEntry
  <2>2. config'.kind = config.kind
    BY <1>c, <2>1 DEF Conf
  <2>3. step = "entries" /\ step' \in {"entries", "unwind"}
    BY <1>6 DEF ApplyEntry, Goto, Leave
  <2> QED BY <2>2, <2>3 DEF OptionsAt
<1>7. CASE ApplyString
  <2> DEFINE k == Scalars[done + 1]
             v == req.opts[k]
  <2>1. /\ step = "strings" /\ step' \in {"strings", "unwind"}
        /\ config' = config \/ config' = [config EXCEPT !.str[k] = v]
    BY <1>7 DEF ApplyString, Goto, Leave
  <2> HIDE DEF k, v
  <2>2. config'.kind = config.kind
    BY <1>c, <2>1 DEF Conf
  <2> QED BY <2>1, <2>2 DEF OptionsAt
<1>8. CASE RunSession \/ Report \/ Unwind \/ Shutdown
  <2>1. step' \in {"report", "unwind", "exited"}
    BY <1>8 DEF RunSession, Report, Unwind, Shutdown, Goto, Leave
  <2> QED BY <2>1 DEF OptionsAt
<1>9. CASE Dispatch \/ CreateSession \/ UNCHANGED cliVars
  BY <1>9, <1>r, <1>w DEF Dispatch, CreateSession, CreateObject, Goto, Leave, OptionsAt, cliVars
<1> QED BY <1>1, <1>2, <1>3, <1>4, <1>5, <1>6, <1>7, <1>8, <1>9 DEF CliNext

\* The end of s is the first m items of q.
Ends(s, q, m) == m <= Len(s) /\ \A i \in 1..m : s[Len(s) - m + i] = q[i]

\* The first m items of list p have been applied, and only the profile's
\* defines stand before them.
Applied(r, c, p, m) ==
  /\ Ends(c.list[Lists[p]], r.lists[Lists[p]], m)
  /\ p # 1 => Len(c.list[Lists[p]]) = m

\* How many items of list p are among the first d items
Taken(r, d, p) ==
  IF d <= BeforeOf(r, p) THEN 0
  ELSE IF d >= BeforeOf(r, p) + CountOf(r, p) THEN CountOf(r, p)
  ELSE d - BeforeOf(r, p)

\* The items applied so far
ListsAt ==
  /\ step \in {"main", "arguments", "context", "config", "profile", "entries", "strings",
             "output_kind", "threads", "flags"} =>
       \A p \in 1..5 : Applied(req, config, p, 0)
  /\ step \in {"output_kind", "threads", "flags"} => done = 0
  /\ step = "lists" =>
       done <= Len(Items) /\ \A p \in 1..5 : Applied(req, config, p, Taken(req, done, p))
  /\ step \in {"session", "run"} => \A p \in 1..5 : Applied(req, config, p, CountOf(req, p))

\* A list stands behind all those before it.
LEMMA BeforeGrows ==
  ASSUME req \in Requests
  PROVE  /\ \A p \in 1..5 : BeforeOf(req, p) \in Nat /\ CountOf(req, p) \in Nat
         /\ \A p \in 1..5 : BeforeOf(req, p) + CountOf(req, p) <= Len(Items)
         /\ \A p, q \in 1..5 : p < q => BeforeOf(req, p) + CountOf(req, p) <= BeforeOf(req, q)
<1>1. ItemsAre /\ \A p \in 1..5 : CountOf(req, p) \in Nat
  BY ItemsInOrder
<1>2. PICK a, b, c, d, e \in Nat :
        /\ CountOf(req, 1) = a /\ CountOf(req, 2) = b /\ CountOf(req, 3) = c
        /\ CountOf(req, 4) = d /\ CountOf(req, 5) = e
  BY <1>1
<1>3. BeforeOf(req, 1) = 0 /\ BeforeOf(req, 2) = a
  BY <1>2 DEF BeforeOf
<1>4. BeforeOf(req, 3) = a + b
  BY <1>2 DEF BeforeOf
<1>5. BeforeOf(req, 4) = a + b + c
  BY <1>2 DEF BeforeOf
<1>6. BeforeOf(req, 5) = a + b + c + d
  BY <1>2 DEF BeforeOf
<1>7. Len(Items) = a + b + c + d + e
  BY <1>1, <1>2, <1>6 DEF ItemsAre
<1>8. \A p \in 1..5 : p \in {1, 2, 3, 4, 5}
  OBVIOUS
<1>9. \A p \in 1..5 : BeforeOf(req, p) \in Nat /\ CountOf(req, p) \in Nat
  BY SMTT(40), <1>1, <1>2, <1>3, <1>4, <1>5, <1>6, <1>8
<1>10. \A p \in 1..5 : BeforeOf(req, p) + CountOf(req, p) <= Len(Items)
  BY <1>2, <1>3, <1>4, <1>5, <1>6, <1>7, <1>8
<1>11. ASSUME NEW p \in {1, 2, 3, 4, 5}, NEW q \in {1, 2, 3, 4, 5}, p < q
       PROVE  BeforeOf(req, p) + CountOf(req, p) <= BeforeOf(req, q)
  <2>1. CASE p = 1
    BY <1>2, <1>3, <1>4, <1>5, <1>6, <1>11, <2>1
  <2>2. CASE p = 2
    BY <1>2, <1>3, <1>4, <1>5, <1>6, <1>11, <2>2
  <2>3. CASE p = 3
    BY <1>2, <1>3, <1>4, <1>5, <1>6, <1>11, <2>3
  <2>4. CASE p = 4
    BY <1>2, <1>3, <1>4, <1>5, <1>6, <1>11, <2>4
  <2>5. CASE p = 5
    BY <1>11, <2>5
  <2> QED BY <2>1, <2>2, <2>3, <2>4, <2>5
<1> QED BY <1>8, <1>9, <1>10, <1>11

\* The next item belongs to one list; what is taken of the others stays.
LEMMA NextItem ==
  ASSUME req \in Requests, done \in Nat, done < Len(Items)
  PROVE  \E p \in 1..5 : \E i \in 1..CountOf(req, p) :
           /\ Items[done + 1] = <<Lists[p], req.lists[Lists[p]][i]>>
           /\ Taken(req, done, p) = i - 1 /\ Taken(req, done + 1, p) = i
           /\ \A q \in 1..5 : q # p => Taken(req, done + 1, q) = Taken(req, done, q)
<1>1. done + 1 \in 1..Len(Items)
  OBVIOUS
<1>2. \E p \in 1..5 : \E i \in 1..CountOf(req, p) :
        /\ done + 1 = BeforeOf(req, p) + i
        /\ Items[done + 1] = <<Lists[p], req.lists[Lists[p]][i]>>
  <2>1. ItemsAre
    BY ItemsInOrder
  <2> QED BY <1>1, <2>1 DEF ItemsAre
<1>3. PICK p \in 1..5 : \E i \in 1..CountOf(req, p) :
        /\ done + 1 = BeforeOf(req, p) + i
        /\ Items[done + 1] = <<Lists[p], req.lists[Lists[p]][i]>>
  BY <1>2
<1>4. PICK i \in 1..CountOf(req, p) :
        /\ done + 1 = BeforeOf(req, p) + i
        /\ Items[done + 1] = <<Lists[p], req.lists[Lists[p]][i]>>
  BY <1>3
<1>5. PICK b, c \in Nat : b = BeforeOf(req, p) /\ c = CountOf(req, p)
  BY BeforeGrows
<1>6. i \in 1..c /\ done + 1 = b + i
  BY <1>4, <1>5
<1>7. Taken(req, done, p) = i - 1 /\ Taken(req, done + 1, p) = i
  BY <1>5, <1>6 DEF Taken
<1>8. ASSUME NEW q \in 1..5, q # p
      PROVE  Taken(req, done + 1, q) = Taken(req, done, q)
  <2>1. PICK b2, c2 \in Nat : b2 = BeforeOf(req, q) /\ c2 = CountOf(req, q)
    BY BeforeGrows
  <2>2. CASE q < p
    <3>1. b2 + c2 <= b
      BY <1>5, <2>1, <2>2, BeforeGrows
    <3> QED BY <1>6, <2>1, <3>1 DEF Taken
  <2>3. CASE p < q
    <3>1. b + c <= b2
      BY <1>5, <2>1, <2>3, BeforeGrows
    <3> QED BY <1>6, <2>1, <3>1 DEF Taken
  <2> QED BY <1>8, <2>2, <2>3
<1> QED BY <1>4, <1>7, <1>8

\* Appending the next item
LEMMA AppendEnds ==
  ASSUME NEW s \in Seq(Texts), NEW q, NEW i \in Nat \ {0}, Ends(s, q, i - 1)
  PROVE  Ends(Append(s, q[i]), q, i)
<1>1. PICK v : v = q[i]
  OBVIOUS
<1>2. PICK t : t = Append(s, v)
  OBVIOUS
<1>3. /\ Len(s) \in Nat /\ Len(t) = Len(s) + 1 /\ t[Len(s) + 1] = v
      /\ \A j \in 1..Len(s) : t[j] = s[j]
  BY <1>2
<1>4. i - 1 <= Len(s) /\ \A j \in 1..i-1 : s[Len(s) - (i - 1) + j] = q[j]
  BY DEF Ends
<1>5. ASSUME NEW j \in 1..i  PROVE t[Len(t) - i + j] = q[j]
  <2>1. CASE j = i
    BY <1>1, <1>3, <2>1
  <2>2. CASE j # i
    <3>1. j \in 1..i-1
      BY <2>2
    <3>2. Len(t) - i + j = Len(s) - (i - 1) + j /\ Len(t) - i + j \in 1..Len(s)
      BY <1>3, <1>4, <3>1
    <3> QED BY <1>3, <1>4, <3>1, <3>2
  <2> QED BY <2>1, <2>2
<1>6. i <= Len(t)
  BY <1>3, <1>4
<1> QED BY <1>1, <1>2, <1>5, <1>6 DEF Ends

\* Every step keeps the lists as requested so far.
LEMMA ListsStep == ConfigTyped /\ StringsAt /\ ListsAt /\ [CliNext]_cliVars => ListsAt'
<1> SUFFICES ASSUME ConfigTyped, StringsAt, ListsAt, [CliNext]_cliVars PROVE ListsAt'
  OBVIOUS
<1>r. req' = req
  BY SameRequest
<1>i. Items' = Items
  BY <1>r DEF Items
<1>c. config \in Conf /\ req \in Requests /\ unapplied \subseteq req.entries /\ done \in Nat
  BY DEF ConfigTyped
<1>x. ASSUME step' \in {"report", "unwind", "exited", "aborted"}
      PROVE  ListsAt'
  BY <1>x DEF ListsAt
<1>a. ASSUME config'.list = config.list, NEW p \in 1..5, NEW m, Applied(req, config, p, m)
      PROVE  Applied(req, config', p, m)
  BY <1>a DEF Applied
<1> DEFINE Early == {"main", "arguments", "context", "config", "profile", "entries", "strings"}
<1>e. ASSUME config'.list = config.list, step \in Early, step' \in Early
      PROVE  ListsAt'
  <2>1. \A p \in 1..5 : Applied(req', config', p, 0)
    BY <1>a, <1>e, <1>r DEF ListsAt
  <2> QED BY <1>e, <2>1 DEF ListsAt
<1>1. CASE ApplyEntry
  <2>1. PICK e \in unapplied :
          /\ step = "entries"
          /\ \/ step' = "unwind"
             \/ /\ step' = "entries" /\ e[1] \in ProfileScalars
                /\ config' = [config EXCEPT !.str[e[1]] = e[2]]
             \/ step' = "entries" /\ config' = config
             \/ /\ step' = "entries"
                /\ config' = [config EXCEPT !.list["define"] = Append(@, e[2])]
    BY <1>1 DEF ApplyEntry, Goto, Leave
  <2>2. CASE /\ step' = "entries"
             /\ config' = [config EXCEPT !.list["define"] = Append(@, e[2])]
    <3>1. /\ "define" \in ToSet(Lists) /\ \A p \in 1..5 : Lists[p] \in ToSet(Lists)
          /\ \A p \in 1..5 : p # 1 => Lists[p] # "define"
      <4>1. Lists[1] = "define"
        BY DEF Lists
      <4> QED BY <4>1, NamesAre
    <3>2. \A l \in ToSet(Lists) : l # "define" => config'.list[l] = config.list[l]
      BY <1>c, <2>2, <3>1 DEF Conf
    <3>3. config'.list["define"] \in Seq(Texts)
      <4>1. config.list["define"] \in Seq(Texts) /\ e[2] \in Texts
        BY <1>c, <3>1 DEF Conf, Texts
      <4>2. Append(config.list["define"], e[2]) \in Seq(Texts)
        BY <4>1
      <4>3. config'.list["define"] = Append(config.list["define"], e[2])
        BY <1>c, <2>2, <3>1 DEF Conf
      <4> QED BY <4>2, <4>3
    <3>4. ASSUME NEW p \in 1..5 PROVE Applied(req, config', p, 0)
      <4>1. CASE p # 1
        <5>1. Applied(req, config, p, 0)
          BY <2>1 DEF ListsAt
        <5>2. config'.list[Lists[p]] = config.list[Lists[p]]
          BY <3>1, <3>2, <4>1
        <5> QED BY <5>1, <5>2 DEF Applied
      <4>2. CASE p = 1
        <5>1. Lists[p] = "define" /\ Len(config'.list["define"]) \in Nat
          BY <3>3, <4>2 DEF Lists
        <5> QED BY <4>2, <5>1 DEF Applied, Ends
      <4> QED BY <4>1, <4>2
    <3> QED BY <1>r, <2>2, <3>4 DEF ListsAt
  <2>3. CASE step' = "entries" /\ (config' = config \/ config' = [config EXCEPT !.str[e[1]] = e[2]])
    <3>1. config'.list = config.list
      BY <1>c, <2>3 DEF Conf
    <3> QED BY <1>e, <2>1, <2>3, <3>1
  <2> QED BY <1>x, <2>1, <2>2, <2>3
<1>2. CASE ApplyString
  <2> DEFINE k == Scalars[done + 1]
             v == req.opts[k]
  <2>1. /\ step = "strings" /\ step' \in {"strings", "unwind"}
        /\ config' = config \/ config' = [config EXCEPT !.str[k] = v]
    BY <1>2 DEF ApplyString, Goto, Leave
  <2> HIDE DEF k, v
  <2>2. config'.list = config.list
    BY <1>c, <2>1 DEF Conf
  <2> QED BY <1>e, <1>x, <2>1, <2>2
<1>3. CASE StringsDone \/ ApplyOutputKind \/ ApplyThreads
  <2> DEFINE n == Strtol(req.threads.value) % CountModulus
             kind == OutputKinds[req.kind]
  <2>1. /\ step' \in {"output_kind", "threads", "flags", "unwind"}
        /\ step \in {"strings", "output_kind", "threads"}
        /\ \/ config' = config
           \/ config' = [config EXCEPT !.threads = n]
           \/ config' = [config EXCEPT !.kind = kind]
        /\ step' # "unwind" => done' = 0
    BY <1>3 DEF StringsDone, ApplyOutputKind, ApplyThreads, Goto, Leave, ListsAt
  <2> HIDE DEF n, kind
  <2>2. config'.list = config.list
    BY <1>c, <2>1 DEF Conf
  <2>3. \A p \in 1..5 : Applied(req', config', p, 0)
    BY <1>a, <1>r, <2>1, <2>2 DEF ListsAt
  <2> QED BY <1>x, <2>1, <2>3 DEF ListsAt
<1>4. CASE ApplyFlags
  <2>1. step = "flags" /\ step' = "lists" /\ config'.list = config.list /\ done' = 0
    BY <1>4, <1>c DEF ApplyFlags, Goto, Conf, ListsAt
  <2>2. ASSUME NEW p \in 1..5 PROVE Taken(req, 0, p) = 0
    <3>1. PICK b \in Nat : b = BeforeOf(req, p)
      BY <1>c, BeforeGrows
    <3>2. 0 <= b
      OBVIOUS
    <3> QED BY <3>1, <3>2 DEF Taken
  <2>3. \A p \in 1..5 : Applied(req', config', p, Taken(req', done', p))
    BY <1>a, <1>r, <2>1, <2>2 DEF ListsAt
  <2>4. 0 <= Len(Items)
    <3>1. BeforeOf(req, 1) \in Nat /\ CountOf(req, 1) \in Nat
            /\ BeforeOf(req, 1) + CountOf(req, 1) <= Len(Items)
      BY <1>c, BeforeGrows
    <3>2. Len(Items) \in Nat
      <4>1. ItemsAre /\ BeforeOf(req, 5) \in Nat /\ CountOf(req, 5) \in Nat
        BY <1>c, ItemsInOrder, BeforeGrows
      <4> QED BY <4>1 DEF ItemsAre
    <3> QED BY <3>2
  <2> QED BY <1>i, <2>1, <2>3, <2>4 DEF ListsAt
<1>5. CASE ApplyItem
  <2> DEFINE k == Items[done + 1][1]
             v == Items[done + 1][2]
  <2>1. /\ done < Len(Items) /\ step = "lists"
        /\ \/ step' = "unwind"
           \/ /\ step' = "lists" /\ done' = done + 1
              /\ config' = [config EXCEPT !.list[k] = Append(@, v)]
    BY <1>5 DEF ApplyItem, Goto, Leave
  <2>2. \E p \in 1..5 : \E i \in 1..CountOf(req, p) :
           /\ Items[done + 1] = <<Lists[p], req.lists[Lists[p]][i]>>
           /\ Taken(req, done, p) = i - 1 /\ Taken(req, done + 1, p) = i
           /\ \A q \in 1..5 : q # p => Taken(req, done + 1, q) = Taken(req, done, q)
    BY <1>c, <2>1, NextItem
  <2>3. PICK p \in 1..5 : \E i \in 1..CountOf(req, p) :
           /\ Items[done + 1] = <<Lists[p], req.lists[Lists[p]][i]>>
           /\ Taken(req, done, p) = i - 1 /\ Taken(req, done + 1, p) = i
           /\ \A q \in 1..5 : q # p => Taken(req, done + 1, q) = Taken(req, done, q)
    BY <2>2
  <2>4. PICK i \in 1..CountOf(req, p) :
           /\ Items[done + 1] = <<Lists[p], req.lists[Lists[p]][i]>>
           /\ Taken(req, done, p) = i - 1 /\ Taken(req, done + 1, p) = i
           /\ \A q \in 1..5 : q # p => Taken(req, done + 1, q) = Taken(req, done, q)
    BY <2>3
  <2>5. k = Lists[p] /\ v = req.lists[Lists[p]][i]
    BY <2>4
  <2> HIDE DEF k, v
  <2>6. CASE /\ step' = "lists" /\ done' = done + 1
             /\ config' = [config EXCEPT !.list[k] = Append(@, v)]
    <3>1. k \in ToSet(Lists) /\ \A q \in 1..5 : Lists[q] \in ToSet(Lists)
            /\ (Lists[q] = Lists[p] => q = p)
      BY <2>5, NamesAre
    <3>2. config'.list[k] = Append(config.list[k], v) /\ config.list[k] \in Seq(Texts)
      BY <1>c, <2>6, <3>1 DEF Conf
    <3>3. \A l \in ToSet(Lists) : l # k => config'.list[l] = config.list[l]
      BY <1>c, <2>6, <3>1 DEF Conf
    <3>4. Applied(req, config, p, i - 1)
      BY <2>1, <2>4 DEF ListsAt
    <3>5. CountOf(req, p) \in Nat
      BY <1>c, BeforeGrows
    <3>6. i \in Nat \ {0}
      BY <3>5
    <3>7. Ends(config'.list[k], req.lists[k], i)
      <4>1. Ends(config.list[k], req.lists[k], i - 1)
        BY <2>5, <3>4 DEF Applied
      <4>2. Ends(Append(config.list[k], req.lists[k][i]), req.lists[k], i)
        BY <3>2, <3>6, <4>1, AppendEnds
      <4> QED BY <2>5, <3>2, <4>2
    <3>8. p # 1 => Len(config'.list[k]) = i
      <4>1. p # 1 => Len(config.list[k]) = i - 1
        BY <2>5, <3>4 DEF Applied
      <4>2. Len(config'.list[k]) = Len(config.list[k]) + 1
        BY <3>2
      <4> QED BY <3>6, <4>1, <4>2
    <3>9. Applied(req, config', p, i)
      BY <2>5, <3>7, <3>8 DEF Applied
    <3>10. ASSUME NEW q \in 1..5 PROVE Applied(req, config', q, Taken(req, done + 1, q))
      <4>1. CASE q = p
        BY <2>4, <3>9, <4>1
      <4>2. CASE q # p
        <5>1. /\ Applied(req, config, q, Taken(req, done, q))
              /\ Taken(req, done + 1, q) = Taken(req, done, q)
          BY <2>1, <2>4, <4>2 DEF ListsAt
        <5>2. config'.list[Lists[q]] = config.list[Lists[q]]
          BY <2>5, <3>1, <3>3, <4>2
        <5> QED BY <5>1, <5>2 DEF Applied
      <4> QED BY <4>1, <4>2
    <3>11. done + 1 <= Len(Items)
      <4>1. Len(Items) \in Nat
        <5>1. ItemsAre /\ BeforeOf(req, 5) \in Nat /\ CountOf(req, 5) \in Nat
          BY <1>c, ItemsInOrder, BeforeGrows
        <5> QED BY <5>1 DEF ItemsAre
      <4> QED BY <1>c, <2>1, <4>1
    <3> QED BY <1>i, <1>r, <2>6, <3>10, <3>11 DEF ListsAt
  <2> QED BY <1>x, <2>1, <2>6
<1>6. CASE Dispatch
  <2>1. step = "lists" /\ done = Len(Items) /\ step' \in {"unwind", "session"} /\ config' = config
    BY <1>6 DEF Dispatch, Goto, Leave
  <2>2. ASSUME NEW p \in 1..5 PROVE Taken(req, done, p) = CountOf(req, p)
    <3>1. PICK b, c \in Nat : b = BeforeOf(req, p) /\ c = CountOf(req, p) /\ b + c <= Len(Items)
      BY <1>c, BeforeGrows
    <3> QED BY <1>c, <2>1, <3>1 DEF Taken
  <2>3. \A p \in 1..5 : Applied(req', config', p, CountOf(req', p))
    BY <1>r, <2>1, <2>2 DEF ListsAt
  <2> QED BY <1>x, <2>1, <2>3 DEF ListsAt
<1>7. CASE CreateSession
  BY <1>7, <1>r DEF CreateSession, CreateObject, Goto, Leave, ListsAt
<1>8. CASE main \/ Arguments \/ CreateContext \/ CreateConfig \/ apply_profile \/ EntriesDone
  <2>1. step \in Early /\ config' = config
          /\ (step' \in Early \/ step' \in {"unwind", "aborted"})
    BY <1>8 DEF main, Arguments, CreateContext, CreateConfig, CreateObject, apply_profile,
                EntriesDone, AfterProfile, Goto, Leave
  <2> HIDE DEF Early
  <2> QED BY <1>e, <1>x, <2>1
<1>9. CASE RunSession \/ Report \/ Shutdown \/ Unwind
  BY <1>9, <1>x DEF RunSession, Report, Shutdown, Unwind, Goto, Leave
<1>10. CASE UNCHANGED cliVars
  BY <1>10, <1>i, <1>r DEF cliVars, ListsAt
<1> QED BY <1>1, <1>2, <1>3, <1>4, <1>5, <1>6, <1>7, <1>8, <1>9, <1>10 DEF CliNext

\* What ends with all of a sequence has it as a suffix.
LEMMA EndsIsSuffix ==
  ASSUME NEW s \in Seq(Texts), NEW q \in Seq(Texts), Ends(s, q, Len(q))
  PROVE  IsSuffix(q, s) /\ (Len(s) = Len(q) => s = q)
<1>1. PICK m, n \in Nat : m = Len(q) /\ n = Len(s) /\ m <= n
  BY DEF Ends
<1>2. /\ q \in [1..m -> Texts] /\ s \in [1..n -> Texts]
      /\ \A i \in 1..m : s[n - m + i] = q[i]
  BY <1>1 DEF Ends
<1>3. PICK a : a = Reverse(q)
  OBVIOUS
<1>4. PICK b : b = Reverse(s)
  OBVIOUS
<1>5. a = [i \in 1..m |-> q[m - i + 1]] /\ b = [i \in 1..n |-> s[n - i + 1]]
  BY <1>1, <1>3, <1>4 DEF Reverse
<1>6. a \in [1..m -> Texts]
  <2>1. \A i \in 1..m : m - i + 1 \in 1..m
    OBVIOUS
  <2> QED BY <1>2, <1>5, <2>1
<1>7. b \in [1..n -> Texts]
  <2>1. \A i \in 1..n : n - i + 1 \in 1..n
    OBVIOUS
  <2> QED BY <1>2, <1>5, <2>1
<1>8. a \in Seq(Texts) /\ Len(a) = m
  BY <1>6
<1>9. b \in Seq(Texts) /\ Len(b) = n
  BY <1>7
<1>10. \A i \in 1..m : a[i] = b[i]
  <2> SUFFICES ASSUME NEW i \in 1..m PROVE a[i] = b[i]
    OBVIOUS
  <2>1. m - i + 1 \in 1..m /\ n - m + (m - i + 1) = n - i + 1 /\ i \in 1..n
    BY <1>1
  <2>2. s[n - m + (m - i + 1)] = q[m - i + 1]
    BY <1>2, <2>1
  <2> QED BY <1>5, <2>1, <2>2
<1>11. SubSeq(a, 1, m) = SubSeq(b, 1, m)
  <2>1. /\ SubSeq(a, 1, m) = [i \in 1..m |-> a[i]]
        /\ SubSeq(b, 1, m) = [i \in 1..m |-> b[i]]
    BY <1>1, <1>8, <1>9
  <2> QED BY <1>10, <2>1
<1>12. IsSuffix(q, s)
  BY <1>1, <1>3, <1>4, <1>8, <1>9, <1>11 DEF IsSuffix, IsPrefix
<1>13. ASSUME m = n PROVE s = q
  <2>1. \A i \in 1..m : s[i] = q[i]
    BY <1>2, <1>13
  <2> QED BY <1>2, <1>13, <2>1
<1> QED BY <1>1, <1>12, <1>13

RequestInv == ConfigTyped /\ StringsAt /\ OptionsAt /\ ListsAt

\* Nothing is set when main starts.
LEMMA RequestInit == CliInit => RequestInv
<1> SUFFICES ASSUME CliInit PROVE RequestInv
  OBVIOUS
<1>1. /\ req \in Requests /\ step = "main" /\ config = NoConfig /\ unapplied = {} /\ done = 0
  BY DEF CliInit
<1>2. config.str = [k \in ToSet(Scalars) |-> Unset] /\ config.list = [k \in ToSet(Lists) |-> << >>]
        /\ config.kind = "EXECUTABLE"
  BY <1>1 DEF NoConfig
<1>3. config \in Conf
  <2>1. << >> \in Seq(Texts)
    OBVIOUS
  <2> QED BY <1>1, <2>1 DEF NoConfig, Conf, Kinds
<1>4. \A p \in 1..5 : Applied(req, config, p, 0)
  <2> SUFFICES ASSUME NEW p \in 1..5 PROVE Applied(req, config, p, 0)
    OBVIOUS
  <2>1. config.list[Lists[p]] = << >>
    BY <1>2, NamesAre
  <2> QED BY <2>1 DEF Applied, Ends
<1>5. ConfigTyped
  BY <1>1, <1>3 DEF ConfigTyped
<1>6. StringsAt
  BY <1>1, <1>2 DEF StringsAt
<1>7. OptionsAt
  BY <1>1, <1>2 DEF OptionsAt
<1>8. ListsAt
  BY <1>1, <1>4 DEF ListsAt
<1> QED BY <1>5, <1>6, <1>7, <1>8 DEF RequestInv

\* For every command line and profile, whatever the order of its entries: the
\* session is created from what was asked for, the options before the
\* profile, with every list complete and in order.
THEOREM RequestCorrect == CliSpec => []SessionAsRequested
<1>1. RequestInv /\ [CliNext]_cliVars => RequestInv'
  BY TypedStep, StringsStep, OptionsStep, ListsStep DEF RequestInv
<1>2. RequestInv => SessionAsRequested
  <2> SUFFICES ASSUME RequestInv, step = "run" PROVE SessionAsRequested
    BY DEF SessionAsRequested
  <2>1. \A k \in ToSet(Scalars) : config.str[k] = Wanted(k)
    <3>1. \A k \in ToSet(Scalars) : config.str[k] = Asked(req, k)
      BY DEF RequestInv, StringsAt
    <3>2. \A k : Asked(req, k) = Wanted(k)
      BY DEF Asked, FromProfile, Wanted
    <3> QED BY <3>1, <3>2
  <2>2. config.flags = req.flags /\ config.kind = WantedKind
    BY DEF RequestInv, OptionsAt
  <2>3. req.threads.text = "number" /\ req.threads.value < CountModulus =>
          config.threads = req.threads.value
    BY DEF RequestInv, OptionsAt
  <2>4. ASSUME NEW k \in ToSet(Lists)
        PROVE  /\ IsSuffix(req.lists[k], config.list[k])
               /\ k # "define" => config.list[k] = req.lists[k]
    <3>1. PICK p \in 1..5 : k = Lists[p]
      BY NamesAre
    <3>2. Applied(req, config, p, Len(req.lists[k]))
      BY <3>1 DEF RequestInv, ListsAt, CountOf
    <3>3. config.list[k] \in Seq(Texts) /\ req.lists[k] \in Seq(Texts)
      BY DEF RequestInv, ConfigTyped, Conf, Texts
    <3>4. k # "define" => p # 1
      BY <3>1 DEF Lists
    <3>5. Ends(config.list[k], req.lists[k], Len(req.lists[k]))
            /\ (k # "define" => Len(config.list[k]) = Len(req.lists[k]))
      BY <3>1, <3>2, <3>4 DEF Applied
    <3> QED BY <3>3, <3>5, EndsIsSuffix
  <2> QED BY <2>1, <2>2, <2>3, <2>4 DEF SessionAsRequested
<1> QED BY <1>1, <1>2, RequestInit, PTL DEF CliSpec
==============================================================================
