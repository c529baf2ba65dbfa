----------------------------- MODULE TaskRunner -----------------------------
(***************************************************************************)
(* DeterministicTaskRunner of src/olnk/threading.cpp. A task is described  *)
(* by what it does to the runner when it is called: nothing, add a task,   *)
(* clear the runner, run it again, or throw. run_all_serial walks the      *)
(* vector with iterators; what makes them invalid (a reallocation, clear)  *)
(* also destroys the std::function being called and is undefined           *)
(* behaviour: nothing more is said about the object then (broken).         *)
(***************************************************************************)
EXTENDS Naturals, Sequences, SequencesExt

CONSTANTS
  Tasks,        \* the tasks callers have
  TaskDoes,     \* what each does when it is called
  NoTask,       \* an empty std::function
  MaxTasks,     \* bound: tasks in the vector
  MaxRuns       \* bound: nesting of run_all_serial

ASSUME TasksAssumption ==
  /\ TaskDoes \in [Tasks -> {"work", "add", "clear", "run", "throw"}]
  /\ NoTask \notin Tasks
  /\ MaxTasks \in Nat /\ MaxRuns \in Nat

VARIABLES
  tasks, capacity,  \* tasks_
  added,            \* history: tasks added since the last clear
  runs,             \* the calls of run_all_serial on the stack
  last,             \* history: the run that ended last
  broken

taskVars == <<tasks, capacity, added, runs, last, broken>>

NoRun == [due |-> << >>, ran |-> << >>, threw |-> FALSE]

TaskInit ==
  /\ tasks = << >> /\ capacity = 0
  /\ added = << >>
  /\ runs = << >>
  /\ last = NoRun
  /\ broken = FALSE

TopRun == runs[Len(runs)]
Calling == runs # << >> /\ TopRun.calling

\* Callers use the runner when it is not running; tasks while they are called.
push_back(t) ==
  /\ tasks' = Append(tasks, t)
  /\ added' = Append(added, t)
  /\ capacity' = IF Len(tasks) < capacity THEN capacity
                 ELSE IF capacity = 0 THEN 1 ELSE 2 * capacity
  /\ broken' = (runs # << >> /\ Len(tasks) = capacity)

add_task(t) ==
  /\ ~broken /\ runs = << >>
  /\ Len(tasks) < MaxTasks
  /\ IF t = NoTask THEN UNCHANGED <<tasks, capacity, added, broken>> ELSE push_back(t)
  /\ UNCHANGED <<runs, last>>

\* The capacity stays.
clear ==
  /\ ~broken /\ runs = << >>
  /\ tasks' = << >> /\ added' = << >>
  /\ UNCHANGED <<capacity, runs, last, broken>>

\* begin() and end() are taken once. due and ran are history.
NewRun == [at |-> 1, end |-> Len(tasks), calling |-> FALSE, due |-> added, ran |-> << >>]

run_all_serial ==
  /\ ~broken /\ runs = << >>
  /\ runs' = <<NewRun>>
  /\ UNCHANGED <<tasks, capacity, added, last, broken>>

SetTopRun(r) == runs' = [runs EXCEPT ![Len(runs)] = r]
Returned == [TopRun EXCEPT !.calling = FALSE, !.at = @ + 1]

\* Mutant: a loop over indices that looks at the size again.
CallNext_Size ==
  /\ ~broken /\ runs # << >> /\ ~TopRun.calling /\ TopRun.at <= Len(tasks)
  /\ SetTopRun([TopRun EXCEPT !.calling = TRUE, !.ran = Append(@, tasks[TopRun.at])])
  /\ UNCHANGED <<tasks, capacity, added, last, broken>>

CallNext ==
  /\ ~broken /\ runs # << >> /\ ~TopRun.calling /\ TopRun.at <= TopRun.end
  /\ SetTopRun([TopRun EXCEPT !.calling = TRUE, !.ran = Append(@, tasks[TopRun.at])])
  /\ UNCHANGED <<tasks, capacity, added, last, broken>>

\* The loop ends; a nested run returns into the task that called it.
EndRun ==
  /\ ~broken /\ runs # << >> /\ ~TopRun.calling /\ TopRun.at > TopRun.end
  /\ last' = [due |-> TopRun.due, ran |-> TopRun.ran, threw |-> FALSE]
  /\ runs' = [i \in 1..Len(runs) - 1 |->
                IF i = Len(runs) - 1
                  THEN [runs[i] EXCEPT !.calling = FALSE, !.at = @ + 1] ELSE runs[i]]
  /\ UNCHANGED <<tasks, capacity, added, broken>>

Does(what) == ~broken /\ Calling /\ TaskDoes[tasks[TopRun.at]] = what

TaskWorks ==
  /\ Does("work")
  /\ SetTopRun(Returned)
  /\ UNCHANGED <<tasks, capacity, added, last, broken>>

TaskAdds(t) ==
  /\ Does("add")
  /\ Len(tasks) < MaxTasks
  /\ push_back(t)
  /\ SetTopRun(Returned)
  /\ UNCHANGED last

TaskClears ==
  /\ Does("clear")
  /\ tasks' = << >> /\ added' = << >>
  /\ broken' = TRUE
  /\ UNCHANGED <<capacity, runs, last>>

TaskRuns ==
  /\ Does("run")
  /\ Len(runs) < MaxRuns
  /\ runs' = Append(runs, NewRun)
  /\ UNCHANGED <<tasks, capacity, added, last, broken>>

\* Nobody catches the exception on its way out of every run.
TaskThrows ==
  /\ Does("throw")
  /\ last' = [due |-> runs[1].due, ran |-> runs[1].ran, threw |-> TRUE]
  /\ runs' = << >>
  /\ UNCHANGED <<tasks, capacity, added, broken>>

TaskNext ==
  \/ \E t \in Tasks \cup {NoTask} : add_task(t)
  \/ clear \/ run_all_serial
  \/ CallNext \/ EndRun
  \/ TaskWorks \/ TaskClears \/ TaskRuns \/ TaskThrows
  \/ \E t \in Tasks : TaskAdds(t)

TaskSpec == TaskInit /\ [][TaskNext]_taskVars

-----------------------------------------------------------------------------
\* "Executes tasks in insertion order": every run, the nested ones too, calls
\* each task that was in the runner when it started once and in the order of
\* insertion, and no other, also when tasks add tasks on the way; a run that a
\* task ends by throwing has called a prefix of them.
RunsInOrder ==
  /\ \A i \in DOMAIN runs : IsPrefix(runs[i].ran, runs[i].due)
  /\ IsPrefix(last.ran, last.due)
  /\ ~last.threw => last.ran = last.due
=============================================================================
