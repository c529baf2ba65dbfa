-------------------------- MODULE ComponentsProofs --------------------------
(***************************************************************************)
(* About the counter of the lifecycle, for every set of threads and every  *)
(* width of the counter: the types, the refinement of the saturating       *)
(* counter, and, as long as callers pair their calls, that the counter is  *)
(* the number of owners. The proofs about the other components are in      *)
(* modules of their own; that the composition behaves as each of its       *)
(* components comes last.                                                  *)
(***************************************************************************)
EXTENDS Components, FiniteSetTheorems, TLAPS

USE LifecycleAssumption

\* Every step of olnk_initialize and of the loop of olnk_shutdown keeps the
\* counter within its width and the threads where the code has a place.
THEOREM TypeCorrect == LifecycleSpec => []TypeOK
<1>1. LifecycleInit => TypeOK
  BY DEF LifecycleInit, TypeOK, Pcs
<1>2. TypeOK /\ [LifecycleNext]_lifecycleVars => TypeOK'
  <2> SUFFICES ASSUME TypeOK, [LifecycleNext]_lifecycleVars PROVE TypeOK'
    OBVIOUS
  <2> USE DEF TypeOK, Pcs
  <2>1. ASSUME NEW t \in Threads, olnk_initialize(t) PROVE TypeOK'
    <3>1. (count + 1) % CounterModulus \in 0..CounterModulus-1
      BY SMT
    <3>2. calls'[t] \in 0..MaxCalls
      BY <2>1 DEF olnk_initialize
    <3> QED BY <2>1, <3>1, <3>2 DEF olnk_initialize
  <2>2. ASSUME NEW t \in Threads, olnk_shutdown(t) PROVE TypeOK'
    BY <2>2 DEF olnk_shutdown
  <2>3. ASSUME NEW t \in Threads, ShutdownLoad(t) PROVE TypeOK'
    BY <2>3 DEF ShutdownLoad, Reload
  <2>4. ASSUME NEW t \in Threads, CasSucceeds(t) PROVE TypeOK'
    <3>1. (current[t] - 1) % CounterModulus \in 0..CounterModulus-1
      BY SMT
    <3> QED BY <2>4, <3>1 DEF CasSucceeds
  <2>5. ASSUME NEW t \in Threads, CasFails(t) PROVE TypeOK'
    BY <2>5 DEF CasFails, Reload
  <2>6. ASSUME NEW t \in Threads, CasFailsSpuriously(t) PROVE TypeOK'
    BY <2>6 DEF CasFailsSpuriously, Reload
  <2>7. CASE UNCHANGED lifecycleVars
    BY <2>7 DEF lifecycleVars
  <2> QED BY <2>1, <2>2, <2>3, <2>4, <2>5, <2>6, <2>7 DEF LifecycleNext, Progress
<1> QED BY <1>1, <1>2, PTL DEF LifecycleSpec

-----------------------------------------------------------------------------
\* A value below the width is its own remainder.
LEMMA SmallMod ==
  ASSUME NEW n \in 0..CounterModulus-1 PROVE n % CounterModulus = n
BY SMT

\* A thread at the exchange has read a counter that was not zero.
NonZeroAtCas == \A t \in Threads : stage[t] = "cas" => current[t] # 0

\* Only threads own references, so there are fewer of them than the counter
\* can hold.
LEMMA OwnersFit ==
  /\ IsFiniteSet(Owners)
  /\ Cardinality(Owners) \in 0..CounterModulus-1
<1>1. Owners \subseteq Threads
  BY DEF Owners
<1> QED BY <1>1, FS_Subset, FS_CardinalityType

\* The same after a step
LEMMA OwnersFitNext ==
  /\ IsFiniteSet(Owners')
  /\ Cardinality(Owners') \in 0..CounterModulus-1
<1>1. Owners' \subseteq Threads
  BY DEF Owners
<1> QED BY <1>1, FS_Subset, FS_CardinalityType

\* The loop of olnk_shutdown never reaches the exchange with zero.
LEMMA NonZeroStep == TypeOK /\ NonZeroAtCas /\ [LifecycleNext]_lifecycleVars => NonZeroAtCas'
<1> SUFFICES ASSUME TypeOK, NonZeroAtCas, [LifecycleNext]_lifecycleVars PROVE NonZeroAtCas'
  OBVIOUS
<1> USE DEF TypeOK, NonZeroAtCas
<1>1. ASSUME NEW t \in Threads, olnk_initialize(t) PROVE NonZeroAtCas'
  BY <1>1 DEF olnk_initialize
<1>2. ASSUME NEW t \in Threads, olnk_shutdown(t) PROVE NonZeroAtCas'
  BY <1>2 DEF olnk_shutdown
<1>3. ASSUME NEW t \in Threads, Reload(t) PROVE NonZeroAtCas'
  BY <1>3 DEF Reload
<1>4. ASSUME NEW t \in Threads, CasSucceeds(t) PROVE NonZeroAtCas'
  BY <1>4 DEF CasSucceeds
<1>5. CASE UNCHANGED lifecycleVars
  BY <1>5 DEF lifecycleVars
<1> QED
  BY <1>1, <1>2, <1>3, <1>4, <1>5
  DEF LifecycleNext, Progress, ShutdownLoad, CasFails, CasFailsSpuriously

\* An increment adds an owner, a successful exchange removes one, and a thread
\* that is told zero would be an owner the counter does not know.
LEMMA OwnersStep ==
  TypeOK /\ NonZeroAtCas /\ CountIsOwners /\ [LifecycleNext]_lifecycleVars => CountIsOwners'
<1> SUFFICES ASSUME TypeOK, NonZeroAtCas, CountIsOwners, [LifecycleNext]_lifecycleVars, strays' = {}
             PROVE  count' = Cardinality(Owners)'
  BY DEF CountIsOwners
<1>a. strays = {}
  BY DEF LifecycleNext, Progress, olnk_initialize, olnk_shutdown, ShutdownLoad, CasFails,
         CasFailsSpuriously, CasSucceeds, Reload, lifecycleVars
<1>0. count = Cardinality(Owners)
  BY <1>a DEF CountIsOwners
<1>1. ASSUME NEW t \in Threads, olnk_initialize(t)
      PROVE  count' = Cardinality(Owners')
  <2>1. Owners' = Owners \cup {t} /\ t \notin Owners
    BY <1>1 DEF olnk_initialize, Owners, TypeOK, Pcs
  <2>2. Cardinality(Owners') = count + 1
    BY <1>0, <2>1, OwnersFit, FS_AddElement
  <2>3. (count + 1) % CounterModulus = count + 1
    BY <2>2, OwnersFitNext, SmallMod DEF TypeOK
  <2> QED BY <1>1, <2>2, <2>3 DEF olnk_initialize
<1>2. ASSUME NEW t \in Threads, olnk_shutdown(t)
      PROVE  count' = Cardinality(Owners')
  <2>1. Owners' = Owners
    BY <1>2 DEF olnk_shutdown, Owners, TypeOK, Pcs
  <2> QED BY <1>0, <1>2, <2>1 DEF olnk_shutdown
<1>3. ASSUME NEW t \in Threads, Reload(t), stage[t] # "out"
      PROVE  count' = Cardinality(Owners')
  <2>1. t \in Owners
    BY <1>3 DEF Owners
  <2>2. count # 0
    BY <1>0, <2>1, OwnersFit, FS_EmptySet
  <2>3. Owners' = Owners
    BY <1>3, <2>2 DEF Reload, Owners, TypeOK
  <2> QED BY <1>0, <1>3, <2>3 DEF Reload
<1>4. ASSUME NEW t \in Threads, CasSucceeds(t)
      PROVE  count' = Cardinality(Owners')
  <2>1. Owners' = Owners \ {t} /\ t \in Owners
    BY <1>4 DEF CasSucceeds, Owners, TypeOK, Pcs
  <2>2. Cardinality(Owners') = count - 1
    BY <1>0, <2>1, OwnersFit, FS_RemoveElement
  <2>3. (count - 1) % CounterModulus = count - 1
    BY <2>2, OwnersFitNext, SmallMod DEF TypeOK
  <2> QED BY <1>4, <2>2, <2>3 DEF CasSucceeds
<1>5. CASE UNCHANGED lifecycleVars
  BY <1>0, <1>5 DEF lifecycleVars, Owners
<1> QED
  BY <1>1, <1>2, <1>3, <1>4, <1>5
  DEF LifecycleNext, Progress, ShutdownLoad, CasFails, CasFailsSpuriously

\* As long as callers have paired their calls, g_initialize_count is at all times the
\* number of threads that initialized the library and did not shut it down.
THEOREM CountCorrect == LifecycleSpec => []CountIsOwners
<1>1. LifecycleInit => NonZeroAtCas /\ CountIsOwners
  <2> SUFFICES ASSUME LifecycleInit PROVE NonZeroAtCas /\ CountIsOwners
    OBVIOUS
  <2>1. Owners = {}
    BY DEF LifecycleInit, Owners
  <2> QED BY <2>1, FS_EmptySet DEF LifecycleInit, NonZeroAtCas, CountIsOwners
<1>2. TypeOK /\ NonZeroAtCas /\ CountIsOwners /\ [LifecycleNext]_lifecycleVars
        => (NonZeroAtCas /\ CountIsOwners)'
  BY NonZeroStep, OwnersStep
<1> QED BY <1>1, <1>2, TypeCorrect, PTL DEF LifecycleSpec

-----------------------------------------------------------------------------
\* The compare-and-swap loop implements the atomic saturating counter, also
\* when some callers shut down what they never initialized: the successful
\* exchange, or the read of zero, is the instant a shutdown takes effect.
THEOREM Refinement == LifecycleSpec => RefinesCounter
<1> DEFINE Pending == {t \in Threads : stage[t] \in {"load", "cas"}}
<1>1. LifecycleInit => Abstract!Init
  BY DEF LifecycleInit, Abstract!Init
<1>2. TypeOK /\ NonZeroAtCas /\ [LifecycleNext]_lifecycleVars => [Abstract!Next]_(Abstract!vars)
  <2> SUFFICES ASSUME TypeOK, NonZeroAtCas, [LifecycleNext]_lifecycleVars
               PROVE  [Abstract!Next]_(Abstract!vars)
    OBVIOUS
  <2>1. ASSUME NEW t \in Threads, olnk_initialize(t) PROVE Abstract!Increment
    <3>1. Pending' = Pending
      BY <2>1 DEF olnk_initialize, TypeOK
    <3> QED BY <2>1, <3>1 DEF olnk_initialize, Abstract!Increment
  <2>2. ASSUME NEW t \in Threads, olnk_shutdown(t) PROVE Abstract!Invoke(t)
    <3>1. Pending' = Pending \cup {t} /\ t \notin Pending
      BY <2>2 DEF olnk_shutdown, TypeOK
    <3> QED BY <2>2, <3>1 DEF olnk_shutdown, Abstract!Invoke
  <2>3. ASSUME NEW t \in Threads, Reload(t), t \in Pending, count = 0
        PROVE  Abstract!Decrement(t)
    <3>1. Pending' = Pending \ {t}
      BY <2>3 DEF Reload, TypeOK
    <3> QED BY <2>3, <3>1 DEF Reload, Abstract!Decrement
  <2>4. ASSUME NEW t \in Threads, Reload(t), t \in Pending, count # 0
        PROVE  UNCHANGED Abstract!vars
    <3>1. Pending' = Pending
      BY <2>4 DEF Reload, TypeOK
    <3> QED BY <2>4, <3>1 DEF Reload, Abstract!vars
  <2>5. ASSUME NEW t \in Threads, CasSucceeds(t) PROVE Abstract!Decrement(t)
    <3>1. Pending' = Pending \ {t} /\ t \in Pending
      BY <2>5 DEF CasSucceeds, TypeOK
    <3>2. count # 0 /\ count - 1 \in 0..CounterModulus-1
      BY <2>5 DEF CasSucceeds, NonZeroAtCas, TypeOK
    <3>3. (current[t] - 1) % CounterModulus = count - 1
      BY <2>5, <3>2, SmallMod DEF CasSucceeds
    <3> QED BY <2>5, <3>1, <3>2, <3>3 DEF CasSucceeds, Abstract!Decrement
  <2>6. CASE UNCHANGED lifecycleVars
    BY <2>6 DEF lifecycleVars, Abstract!vars
  <2>7. ASSUME NEW t \in Threads, Reload(t), t \in Pending
        PROVE  [Abstract!Next]_(Abstract!vars)
    BY <2>3, <2>4, <2>7 DEF Abstract!Next
  <2> QED
    BY <2>1, <2>2, <2>5, <2>6, <2>7
    DEF LifecycleNext, Progress, ShutdownLoad, CasFails, CasFailsSpuriously, Abstract!Next
<1>3. LifecycleInit => NonZeroAtCas
  BY DEF LifecycleInit, NonZeroAtCas
<1> QED
  BY <1>1, <1>2, <1>3, TypeCorrect, NonZeroStep, PTL
  DEF LifecycleSpec, RefinesCounter, Abstract!Spec

-----------------------------------------------------------------------------
\* A behaviour of the components side by side is one of each, so that what is
\* proved of the layout classes, of the plugin helpers, of the executable and of
\* the counter alone holds of what Components describes.
THEOREM ComponentsCompose ==
  ComponentsSpec => LayoutSpec /\ HostSpec /\ CliSpec /\ LifecycleSpec
<1>1. ComponentsInit => LayoutInit /\ HostInit /\ CliInit /\ LifecycleInit
  BY DEF ComponentsInit
<1>2. [ComponentsNext]_componentsVars =>
        /\ [LayoutNext]_layoutVars /\ [HostNext]_hostVars
        /\ [CliNext]_cliVars /\ [LifecycleNext]_lifecycleVars
  <2>1. CASE UNCHANGED componentsVars
    BY <2>1 DEF componentsVars
  <2>2. CASE ComponentsNext
    BY <2>2 DEF ComponentsNext, CliEnded
  <2> QED BY <2>1, <2>2
<1> QED
  BY <1>1, <1>2, PTL DEF ComponentsSpec, LayoutSpec, HostSpec, CliSpec, LifecycleSpec
=============================================================================
