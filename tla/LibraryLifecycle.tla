-------------------------- MODULE LibraryLifecycle --------------------------
(***************************************************************************)
(* olnk_initialize and olnk_shutdown of src/olnk/api.cpp, called by any    *)
(* number of threads: an atomic uint32 incremented with fetch_add and      *)
(* decremented by a loop around compare_exchange_weak that leaves zero     *)
(* alone. One action per atomic operation.                                 *)
(***************************************************************************)
EXTENDS Integers, FiniteSets

CONSTANTS Threads,
          Rogue,     \* threads that may shut down what they never initialized
          CounterModulus,   \* 2^32
          MaxCalls   \* bound: calls of olnk_initialize a thread makes

ASSUME LifecycleAssumption ==
  /\ IsFiniteSet(Threads) /\ Rogue \subseteq Threads
  /\ CounterModulus \in Nat \ {0}
  /\ MaxCalls \in Nat
  /\ Cardinality(Threads) < CounterModulus

VARIABLES count,    \* g_initialize_count
          stage,       \* where each thread is
          current,  \* the local `current` of olnk_shutdown
          calls,    \* calls of olnk_initialize made so far
          strays    \* history: threads that shut down what they never initialized

lifecycleVars == <<count, stage, current, calls, strays>>

\* out: not initialized by this thread; in: between its initialize and its
\* shutdown; load, cas: inside olnk_shutdown.
Pcs == {"out", "in", "load", "cas"}

LifecycleInit ==
  /\ count = 0
  /\ stage = [t \in Threads |-> "out"]
  /\ current = [t \in Threads |-> 0]
  /\ calls = [t \in Threads |-> 0]
  /\ strays = {}

\* fetch_add(1)
olnk_initialize(t) ==
  /\ stage[t] = "out"
  /\ calls[t] < MaxCalls
  /\ calls' = [calls EXCEPT ![t] = @ + 1]
  /\ count' = (count + 1) % CounterModulus
  /\ stage' = [stage EXCEPT ![t] = "in"]
  /\ UNCHANGED <<current, strays>>

olnk_shutdown(t) ==
  /\ stage[t] = "in" \/ (stage[t] = "out" /\ t \in Rogue)
  /\ stage' = [stage EXCEPT ![t] = "load"]
  /\ strays' = IF stage[t] = "out" THEN strays \cup {t} ELSE strays
  /\ UNCHANGED <<count, current, calls>>

\* Mutant: the loop keeps the value it wants to store.
Reload_Decremented(t) ==
  /\ current' = [current EXCEPT ![t] = count - 1]
  /\ stage' = [stage EXCEPT ![t] = IF count = 0 THEN "out" ELSE "cas"]
  /\ UNCHANGED <<count, calls, strays>>

\* Mutant: zero is decremented like any other value.
Reload_NoZeroCheck(t) ==
  /\ current' = [current EXCEPT ![t] = count]
  /\ stage' = [stage EXCEPT ![t] = "cas"]
  /\ UNCHANGED <<count, calls, strays>>

\* Read the counter into `current`: by the load before the loop, and by every
\* failed compare_exchange_weak. The loop ends at zero.
Reload(t) ==
  /\ current' = [current EXCEPT ![t] = count]
  /\ stage' = [stage EXCEPT ![t] = IF count = 0 THEN "out" ELSE "cas"]
  /\ UNCHANGED <<count, calls, strays>>

ShutdownLoad(t) ==
  /\ stage[t] = "load"
  /\ Reload(t)

\* Mutant: the exchange does not compare.
CasSucceeds_Blind(t) ==
  /\ stage[t] = "cas"
  /\ count' = (current[t] - 1) % CounterModulus
  /\ stage' = [stage EXCEPT ![t] = "out"]
  /\ UNCHANGED <<current, calls, strays>>

CasSucceeds(t) ==
  /\ stage[t] = "cas"
  /\ count = current[t]
  /\ count' = (current[t] - 1) % CounterModulus
  /\ stage' = [stage EXCEPT ![t] = "out"]
  /\ UNCHANGED <<current, calls, strays>>

\* Mutant: the expected value is not refreshed, as with a copy of `current`.
CasFails_Stale(t) ==
  /\ stage[t] = "cas"
  /\ count # current[t]
  /\ UNCHANGED lifecycleVars

CasFails(t) ==
  /\ stage[t] = "cas"
  /\ count # current[t]
  /\ Reload(t)

\* compare_exchange_weak may fail although the values are equal; it then
\* stores the value it read, which `current` has already.
CasFailsSpuriously(t) ==
  /\ stage[t] = "cas"
  /\ count = current[t]
  /\ Reload(t)

Progress(t) == ShutdownLoad(t) \/ CasSucceeds(t) \/ CasFails(t)

LifecycleNext == \E t \in Threads :
  \/ olnk_initialize(t)
  \/ olnk_shutdown(t)
  \/ Progress(t)
  \/ CasFailsSpuriously(t)

LifecycleSpec == LifecycleInit /\ [][LifecycleNext]_lifecycleVars

\* A thread inside olnk_shutdown keeps running and not every attempt fails
\* spuriously. Callers owe nothing.
FairLifecycleSpec == LifecycleSpec /\ \A t \in Threads : WF_lifecycleVars(Progress(t))

-----------------------------------------------------------------------------
\* The counter, the locals and the places of the threads.
TypeOK ==
  /\ count \in 0..CounterModulus-1
  /\ stage \in [Threads -> Pcs]
  /\ current \in [Threads -> 0..CounterModulus-1]
  /\ calls \in [Threads -> 0..MaxCalls]
  /\ strays \subseteq Rogue

\* Threads whose initialize has taken effect and whose shutdown has not.
Owners == {t \in Threads : stage[t] # "out"}

\* As long as callers have paired their calls the counter is the number of threads
\* that still own a reference, whatever the interleaving of the
\* compare-and-swap loops: no reference is lost or dropped twice, and the
\* count is zero only when nobody uses the library.
CountIsOwners == strays = {} => count = Cardinality(Owners)

\* Every olnk_shutdown returns: its loop is left although other threads keep
\* changing the counter.
ShutdownReturns == \A t \in Threads : stage[t] \in {"load", "cas"} ~> stage[t] = "out"

\* The loop implements the atomic saturating counter: a call takes effect
\* when the exchange succeeds or when it reads zero.
Abstract == INSTANCE SaturatingCounter
              WITH pending <- {t \in Threads : stage[t] \in {"load", "cas"}}

RefinesCounter == Abstract!Spec
=============================================================================
