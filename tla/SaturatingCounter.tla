-------------------------- MODULE SaturatingCounter --------------------------
(***************************************************************************)
(* What olnk_initialize and olnk_shutdown promise together: one counter,   *)
(* incremented by a call of the first and decremented, never below zero,   *)
(* by a call of the second, each call taking effect at one instant between *)
(* its invocation and its return.                                          *)
(***************************************************************************)
EXTENDS Integers

CONSTANTS Threads, CounterModulus

VARIABLES count,   \* the value of g_initialize_count
          pending  \* threads inside olnk_shutdown whose effect is still due

vars == <<count, pending>>

Init == count = 0 /\ pending = {}

Increment ==
  /\ count' = (count + 1) % CounterModulus
  /\ UNCHANGED pending

Invoke(t) ==
  /\ t \notin pending
  /\ pending' = pending \cup {t}
  /\ UNCHANGED count

Decrement(t) ==
  /\ t \in pending
  /\ pending' = pending \ {t}
  /\ count' = IF count = 0 THEN 0 ELSE count - 1

Next == Increment \/ \E t \in Threads : Invoke(t) \/ Decrement(t)

Spec == Init /\ [][Next]_vars
=============================================================================
