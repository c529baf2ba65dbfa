-------------------------- MODULE LinkSessionProofs --------------------------
(***************************************************************************)
(* Proofs about LinkSession, for any sessions, results, formats, names and *)
(* any depth of nested runs.                                               *)
(***************************************************************************)
EXTENDS LinkSession, TLAPS

\* The places of olnk_session_run at which the local `result` is set.
HoldsResult == {"check", "format", "cb_format", "machine", "create",
                "serialize", "flush", "cb_diag", "finish"}

\* What a frame's place says about its other locals.
FrameOK(f) ==
  /\ f.res # NoResult <=> f.pc \in HoldsResult
  /\ f.pc \in {"create", "serialize", "flush"} => f.def \in Formats
  /\ f.pc = "machine" /\ f.status = "OK" => f.def \in Formats
  /\ f.pc = "cb_format" => f.status # "OK"

FramesOK == \A s \in Sessions, d \in 1..MaxDepth : FrameOK(frame[s][d])

\* Only live sessions run, olnk_link runs its session once, and every frame
\* below the top one waits for a callback.
StackOK ==
  \A s \in Sessions :
    /\ depth[s] > 0 => s \in live
    /\ s \in oneshot => depth[s] = 1
    /\ \A d \in 1..MaxDepth : d < depth[s] => frame[s][d].pc \in Callbacks

Base == TypeOK /\ FramesOK /\ StackOK

\* Two frames that differ in their history at most
Agree(f, g) ==
  f.pc = g.pc /\ f.res = g.res /\ f.def = g.def /\ f.status = g.status

OtherFramesAgree(s) ==
  \A t \in Sessions, e \in 1..MaxDepth :
    t # s \/ e # depth[s] => Agree(frame'[t][e], frame[t][e])

\* What a step of the running code does with its result: nothing, give it up,
\* make it, or deliver it.
ResultEffect(s, f) ==
  \/ f.res = Top(s).res /\ allocated' = allocated /\ held' = held
  \/ /\ Top(s).res \in Results /\ f.res = NoResult
     /\ allocated' = allocated \ {Top(s).res} /\ held' = held
  \/ /\ Top(s).res = NoResult /\ f.res \in Results \ allocated
     /\ allocated' = allocated \cup {f.res} /\ held' = held
  \/ /\ Top(s).res \in Results /\ f.res = NoResult
     /\ allocated' = allocated /\ held' = held \cup {Top(s).res}

InstanceEffect(s, f) ==
  instances' = IF f.pc \in {"serialize", "flush"} THEN instances \cup {s}
                                                  ELSE instances \ {s}

\* A step of s other than the return from its run leaves f on top.
TopStep(s, f) ==
  /\ depth[s] \in 1..MaxDepth
  /\ f \in Frame /\ FrameOK(f)
  /\ frame' \in [Sessions -> [1..MaxDepth -> Frame]]
  /\ frame'[s][depth[s]] = f
  /\ OtherFramesAgree(s)
  /\ depth' = depth
  /\ ResultEffect(s, f)
  /\ InstanceEffect(s, f)

USE ConstantsAssumption

\* The frame on top of a running session
LEMMA TopFrame ==
  ASSUME Base, NEW s \in Sessions, depth[s] > 0
  PROVE  depth[s] \in 1..MaxDepth /\ Top(s) \in Frame /\ FrameOK(Top(s))
BY DEF Base, TypeOK, FramesOK, Top

\* SetTop changes the top frame and no other.
LEMMA SetTopStep ==
  ASSUME Base, NEW s \in Sessions, depth[s] > 0, NEW f \in Frame, SetTop(s, f)
  PROVE  /\ frame' \in [Sessions -> [1..MaxDepth -> Frame]]
         /\ frame'[s][depth[s]] = f
         /\ OtherFramesAgree(s)
<1>1. /\ frame \in [Sessions -> [1..MaxDepth -> Frame]]
      /\ depth[s] \in 1..MaxDepth
  BY DEF Base, TypeOK
<1>2. frame' = [frame EXCEPT ![s][depth[s]] = f]
  BY DEF SetTop
<1>3. /\ frame' \in [Sessions -> [1..MaxDepth -> Frame]]
      /\ frame'[s][depth[s]] = f
      /\ \A t \in Sessions, e \in 1..MaxDepth :
           t # s \/ e # depth[s] => frame'[t][e] = frame[t][e]
  <2> HIDE DEF Frame
  <2> QED BY <1>1, <1>2
<1> QED BY <1>3 DEF OtherFramesAgree, Agree

\* A step that moves the top frame to f and leaves the instances as they are,
\* where neither place is between the create and the destroy hook.
LEMMA PlainMove ==
  ASSUME Base, InstancesBalanced, NEW s \in Sessions, depth[s] > 0,
         NEW f \in Frame, SetTop(s, f), FrameOK(f), depth' = depth,
         instances' = instances,
         f.pc \notin {"serialize", "flush"},
         Top(s).pc \notin {"serialize", "flush"},
         ResultEffect(s, f)
  PROVE  TopStep(s, f)
<1>1. s \notin instances
  BY DEF InstancesBalanced, At
<1>2. InstanceEffect(s, f)
  BY <1>1 DEF InstanceEffect
<1> QED BY <1>2, TopFrame, SetTopStep DEF TopStep

\* Diagnose reports the cause or, out of memory, gives the result up.
LEMMA DiagnoseMove ==
  ASSUME Base, InstancesBalanced, NEW s \in Sessions, depth[s] > 0,
         NEW cause, NEW cb \in {"cb_format", "cb_diag"},
         NEW next \in {"machine", "finish"},
         Top(s).pc \in {"check", "format", "machine"},
         Diagnose(s, Top(s), cause, cb, next), depth' = depth,
         instances' = instances
  PROVE  \E f \in Frame : TopStep(s, f)
<1>1. Top(s) \in Frame /\ FrameOK(Top(s)) /\ Top(s).res \in Results
  BY TopFrame DEF FrameOK, HoldsResult, Frame
<1>2. CASE Abandon(s, Top(s))
  <2> DEFINE f == [Top(s) EXCEPT !.pc = "return", !.res = NoResult,
                                 !.status = "OUT_OF_MEMORY"]
  <2>1. f \in Frame /\ f.pc = "return" /\ f.res = NoResult
    BY <1>1 DEF Frame, Pcs, Statuses
  <2>2. FrameOK(f)
    BY <2>1 DEF FrameOK, HoldsResult
  <2>3. SetTop(s, f) /\ ResultEffect(s, f)
    BY <1>1, <1>2, <2>1 DEF Abandon, ResultEffect
  <2> QED BY <2>1, <2>2, <2>3, PlainMove
<1>3. CASE ~Abandon(s, Top(s))
  <2> DEFINE f == [Top(s) EXCEPT !.pc = IF ctx.diag_cb THEN cb ELSE next,
                                 !.status = "INVALID_ARGUMENT"]
  <2>1. f \in Frame /\ f.pc \in {cb, next} /\ f.res = Top(s).res
          /\ f.status = "INVALID_ARGUMENT"
    BY <1>1 DEF Frame, Pcs, Statuses, Callbacks
  <2>2. FrameOK(f)
    BY <1>1, <2>1 DEF FrameOK, HoldsResult
  <2>3. SetTop(s, f) /\ ResultEffect(s, f)
    BY <1>3, <2>1 DEF Diagnose, ResultEffect
  <2> QED BY <2>1, <2>2, <2>3, PlainMove
<1> QED BY <1>2, <1>3

\* Every step of a run but its return moves the top frame; so does the return
\* of a callback.
RunMove(s) ==
  \/ RunEnter(s) \/ RunMakeResult(s) \/ RunMakeResultFails(s) \/ RunCheck(s)
  \/ RunFindFormat(s) \/ RunFindMachine(s) \/ RunCreateInstance(s)
  \/ RunOpenOutput(s) \/ RunFlushOutput(s) \/ RunFinish(s)
  \/ CallbackReturn(s)

Registry == [loaded: BOOLEAN, names: SUBSET LuaNames, threw: BOOLEAN]

\* Reading the profiles leaves a registry.
LEMMA AfterLoadTyped ==
  ASSUME NEW reg \in Registry, NEW r \in AfterLoad(reg)
  PROVE  r \in Registry
<1>1. CASE reg.loaded
  BY <1>1 DEF AfterLoad
<1>2. CASE ~reg.loaded
  <2>1. PICK readable \in SUBSET LuaNames :
          r = [reg EXCEPT !.loaded = TRUE, !.names = reg.names \cup readable]
    BY <1>2 DEF AfterLoad, Loads
  <2> QED BY <2>1 DEF Registry
<1> QED BY <1>1, <1>2

\* A lookup leaves a registry, and what it finds has a definition.
LEMMA LookupSound ==
  ASSUME TypeOK, NEW k \in Kinds, NEW n, NEW look \in Lookups(k, n)
  PROVE  /\ look.reg \in Registry
         /\ look.found => n \in BuiltinNames \cup LuaNames
<1>1. lua[k] \in Registry
  BY DEF TypeOK, Registry
<1>2. CASE matches_name(n)
  BY <1>1, <1>2 DEF Lookups, matches_name
<1>3. CASE ~matches_name(n)
  <2>1. CASE look \in {[reg |-> r, found |-> n \in r.names] : r \in AfterLoad(lua[k])}
    <3>1. PICK r \in AfterLoad(lua[k]) : look = [reg |-> r, found |-> n \in r.names]
      BY <2>1
    <3>2. r \in Registry
      BY <1>1, AfterLoadTyped
    <3> QED BY <3>1, <3>2 DEF Registry
  <2>2. CASE look \in {[reg |-> r, found |-> FALSE] : r \in Throws(lua[k])}
    <3>1. PICK r \in Throws(lua[k]) : look = [reg |-> r, found |-> FALSE]
      BY <2>2
    <3>2. PICK q \in AfterLoad(lua[k]) :
            \/ r = [q EXCEPT !.loaded = lua[k].loaded, !.threw = TRUE]
            \/ r = [q EXCEPT !.threw = TRUE]
      BY DEF Throws
    <3>3. q \in Registry
      BY <1>1, AfterLoadTyped
    <3>4. r \in Registry
      BY <1>1, <3>2, <3>3 DEF Registry
    <3> QED BY <3>1, <3>4
  <2> QED BY <1>3, <2>1, <2>2 DEF Lookups
<1> QED BY <1>2, <1>3

\* Each of these steps leaves a frame in order on top, and has one of the four
\* effects on its result.
LEMMA MoveSteps ==
  ASSUME Base, InstancesBalanced, NEW s \in Sessions, RunMove(s)
  PROVE  \E f \in Frame : TopStep(s, f)
<1> USE DEF At
<1>0. depth[s] > 0
  BY DEF RunMove, RunEnter, RunMakeResult, RunMakeResultFails, RunCheck,
         RunFindFormat, RunFindMachine, RunCreateInstance, RunOpenOutput,
         RunFlushOutput, RunFinish, CallbackReturn, InCallback
<1>t. depth[s] \in 1..MaxDepth /\ Top(s) \in Frame /\ FrameOK(Top(s))
  BY <1>0, TopFrame
<1>r. Top(s).pc \in HoldsResult => Top(s).res \in Results
  BY <1>t DEF FrameOK, Frame
<1>1. CASE RunEnter(s)
  <2> DEFINE f == [Top(s) EXCEPT
                     !.pc = IF EmitsLog(LogInfo) THEN "cb_start" ELSE "begin"]
  <2>1. f \in Frame /\ f.pc \in {"cb_start", "begin"} /\ f.res = Top(s).res
    BY <1>t DEF Frame, Pcs, Callbacks
  <2>2. FrameOK(f)
    BY <1>1, <1>t, <2>1 DEF RunEnter, FrameOK, HoldsResult
  <2>3. SetTop(s, f) /\ ResultEffect(s, f) /\ depth' = depth
          /\ instances' = instances /\ Top(s).pc = "enter"
    BY <1>1, <2>1 DEF RunEnter, ResultEffect, resVars
  <2> QED BY <1>0, <2>1, <2>2, <2>3, PlainMove
<1>2. CASE RunMakeResult(s)
  <2>1. PICK r \in Results \ allocated :
          /\ allocated' = allocated \cup {r}
          /\ SetTop(s, [Top(s) EXCEPT !.pc = "check", !.res = r])
    BY <1>2 DEF RunMakeResult
  <2> DEFINE f == [Top(s) EXCEPT !.pc = "check", !.res = r]
  <2>2. f \in Frame /\ f.pc = "check" /\ f.res = r /\ r # NoResult
    BY <1>t DEF Frame, Pcs
  <2>3. FrameOK(f)
    BY <2>2 DEF FrameOK, HoldsResult
  <2>4. Top(s).pc = "begin" /\ Top(s).res = NoResult
    BY <1>2, <1>t DEF RunMakeResult, FrameOK, HoldsResult
  <2>5. ResultEffect(s, f) /\ depth' = depth /\ instances' = instances
    BY <1>2, <2>1, <2>2, <2>4 DEF RunMakeResult, ResultEffect
  <2> QED BY <1>0, <2>1, <2>2, <2>3, <2>4, <2>5, PlainMove
<1>3. CASE RunMakeResultFails(s)
  <2> DEFINE f == [Top(s) EXCEPT !.pc = "return", !.status = "OUT_OF_MEMORY"]
  <2>1. f \in Frame /\ f.pc = "return" /\ f.res = Top(s).res
    BY <1>t DEF Frame, Pcs, Statuses
  <2>2. FrameOK(f)
    BY <1>3, <1>t, <2>1 DEF RunMakeResultFails, FrameOK, HoldsResult
  <2>3. SetTop(s, f) /\ ResultEffect(s, f) /\ depth' = depth
          /\ instances' = instances /\ Top(s).pc = "begin"
    BY <1>3, <2>1 DEF RunMakeResultFails, ResultEffect, resVars
  <2> QED BY <1>0, <2>1, <2>2, <2>3, PlainMove
<1>4. CASE RunCheck(s)
  <2>1. depth' = depth /\ instances' = instances /\ Top(s).pc = "check"
    BY <1>4 DEF RunCheck
  <2>2. CASE \E c \in Causes : Diagnose(s, Top(s), c, "cb_diag", "finish")
    BY <1>0, <2>1, <2>2, DiagnoseMove
  <2>3. CASE ~\E c \in Causes : Diagnose(s, Top(s), c, "cb_diag", "finish")
    <3> DEFINE f == [Top(s) EXCEPT !.pc = "format"]
    <3>1. f \in Frame /\ f.pc = "format" /\ f.res = Top(s).res
      BY <1>t DEF Frame, Pcs
    <3>2. FrameOK(f)
      BY <1>t, <2>1, <3>1 DEF FrameOK, HoldsResult
    <3>3. SetTop(s, f) /\ ResultEffect(s, f)
      BY <1>4, <2>3, <3>1 DEF RunCheck, ResultEffect, resVars, Causes
    <3> QED BY <1>0, <2>1, <3>1, <3>2, <3>3, PlainMove
  <2> QED BY <2>2, <2>3
<1>5. CASE RunFindFormat(s)
  <2> DEFINE n == OrDefault(snapshot[s].format)
  <2>1. depth' = depth /\ instances' = instances /\ Top(s).pc = "format"
    BY <1>5 DEF RunFindFormat
  <2>2. CASE Diagnose(s, Top(s), "unknown_format", "cb_format", "machine")
    BY <1>0, <2>1, <2>2, DiagnoseMove
  <2>3. CASE ~Diagnose(s, Top(s), "unknown_format", "cb_format", "machine")
    <3> DEFINE f == [Top(s) EXCEPT !.pc = "machine", !.def = DefOf[n]]
    <3>1. PICK look \in Lookups("format", n) :
            look.found /\ SetTop(s, f) /\ UNCHANGED <<diags, resVars>>
      BY <1>5, <2>3 DEF RunFindFormat
    <3>2. DefOf[n] \in Formats
      BY <3>1, LookupSound DEF Kinds, Base
    <3>3. f \in Frame /\ f.pc = "machine" /\ f.res = Top(s).res
            /\ f.def \in Formats
      BY <1>t, <3>2 DEF Frame, Pcs
    <3>4. FrameOK(f)
      BY <1>t, <2>1, <3>3 DEF FrameOK, HoldsResult
    <3>5. ResultEffect(s, f)
      BY <3>1, <3>3 DEF ResultEffect, resVars
    <3> QED BY <1>0, <2>1, <3>1, <3>3, <3>4, <3>5, PlainMove
  <2> QED BY <2>2, <2>3
<1>6. CASE RunFindMachine(s)
  <2>1. depth' = depth /\ instances' = instances /\ Top(s).pc = "machine"
    BY <1>6 DEF RunFindMachine
  <2>2. CASE Diagnose(s, Top(s), "unknown_machine", "cb_diag", "finish")
    BY <1>0, <2>1, <2>2, DiagnoseMove
  <2>3. CASE ~Diagnose(s, Top(s), "unknown_machine", "cb_diag", "finish")
    <3> DEFINE f == [Top(s) EXCEPT !.pc = IF Top(s).status = "OK"
                                            THEN "create" ELSE "finish"]
    <3>1. f \in Frame /\ f.pc = (IF Top(s).status = "OK" THEN "create" ELSE "finish")
            /\ f.res = Top(s).res /\ f.def = Top(s).def
      BY <1>t DEF Frame, Pcs
    <3>2. FrameOK(f)
      BY <1>t, <2>1, <3>1 DEF FrameOK, HoldsResult
    <3>3. SetTop(s, f) /\ ResultEffect(s, f)
      BY <1>6, <2>3, <3>1 DEF RunFindMachine, ResultEffect, resVars
    <3> HIDE DEF f
    <3> QED BY <1>0, <2>1, <3>1, <3>2, <3>3, PlainMove
  <2> QED BY <2>2, <2>3
<1>7. CASE RunCreateInstance(s)
  <2>1. depth' = depth /\ Top(s).pc = "create" /\ UNCHANGED resVars
    BY <1>7 DEF RunCreateInstance
  <2>2. CASE instances' = instances \cup {s}
                /\ SetTop(s, [Top(s) EXCEPT !.pc = "serialize"])
    <3> DEFINE f == [Top(s) EXCEPT !.pc = "serialize"]
    <3>1. f \in Frame /\ f.pc = "serialize" /\ f.res = Top(s).res
            /\ f.def = Top(s).def
      BY <1>t DEF Frame, Pcs
    <3>2. FrameOK(f)
      BY <1>t, <2>1, <3>1 DEF FrameOK, HoldsResult
    <3>3. ResultEffect(s, f) /\ InstanceEffect(s, f)
      BY <2>1, <2>2, <3>1 DEF ResultEffect, InstanceEffect, resVars
    <3> QED BY <1>0, <1>t, <2>1, <2>2, <3>1, <3>2, <3>3, SetTopStep DEF TopStep
  <2>3. CASE instances' = instances
                /\ SetTop(s, [Top(s) EXCEPT !.pc = "finish",
                                            !.status = "OUT_OF_MEMORY"])
    <3> DEFINE f == [Top(s) EXCEPT !.pc = "finish", !.status = "OUT_OF_MEMORY"]
    <3>1. f \in Frame /\ f.pc = "finish" /\ f.res = Top(s).res
      BY <1>t DEF Frame, Pcs, Statuses
    <3>2. FrameOK(f)
      BY <1>t, <2>1, <3>1 DEF FrameOK, HoldsResult
    <3>3. ResultEffect(s, f)
      BY <2>1, <3>1 DEF ResultEffect, resVars
    <3> QED BY <1>0, <2>1, <2>3, <3>1, <3>2, <3>3, PlainMove
  <2> QED BY <1>7, <2>2, <2>3 DEF RunCreateInstance
<1>8. CASE RunOpenOutput(s)
  <2> DEFINE p == snapshot[s].path
             Writing(t) == t # s /\ At(t, "flush") /\ snapshot[t].path = p
  <2>1. depth' = depth /\ Top(s).pc = "serialize" /\ UNCHANGED resVars
    BY <1>8 DEF RunOpenOutput
  <2>2. CASE SetTop(s, [Top(s) EXCEPT !.pc = "finish", !.status = "IO_ERROR"])
               /\ DestroyInstance(s)
    <3> DEFINE f == [Top(s) EXCEPT !.pc = "finish", !.status = "IO_ERROR"]
    <3>1. f \in Frame /\ f.pc = "finish" /\ f.res = Top(s).res
      BY <1>t DEF Frame, Pcs, Statuses
    <3>2. FrameOK(f)
      BY <1>t, <2>1, <3>1 DEF FrameOK, HoldsResult
    <3>3. ResultEffect(s, f) /\ InstanceEffect(s, f)
      BY <2>1, <2>2, <3>1 DEF ResultEffect, InstanceEffect, resVars, DestroyInstance
    <3> QED BY <1>0, <1>t, <2>1, <2>2, <3>1, <3>2, <3>3, SetTopStep DEF TopStep
  <2>3. CASE ~(SetTop(s, [Top(s) EXCEPT !.pc = "finish", !.status = "IO_ERROR"])
                 /\ DestroyInstance(s))
    <3> DEFINE f == [Top(s) EXCEPT !.pc = "flush",
                                   !.sole = \A u \in Sessions : ~Writing(u)]
               F(t, d) == IF t = s /\ d = depth[s] THEN f
                          ELSE IF Writing(t) /\ d = depth[t]
                                 THEN [Top(t) EXCEPT !.sole = FALSE]
                                 ELSE frame[t][d]
    <3>1. /\ frame' = [t \in Sessions |-> [d \in 1..MaxDepth |-> F(t, d)]]
          /\ instances' = instances
      BY <1>8, <2>3 DEF RunOpenOutput
    <3>2. f \in Frame /\ f.pc = "flush" /\ f.res = Top(s).res
            /\ f.def = Top(s).def
      BY <1>t DEF Frame, Pcs
    <3>3. FrameOK(f)
      BY <1>t, <2>1, <3>2 DEF FrameOK, HoldsResult
    <3>4. \A t \in Sessions, d \in 1..MaxDepth :
            t # s \/ d # depth[s] => F(t, d) \in Frame /\ Agree(F(t, d), frame[t][d])
      <4> SUFFICES ASSUME NEW t \in Sessions, NEW d \in 1..MaxDepth,
                          t # s \/ d # depth[s]
                   PROVE  F(t, d) \in Frame /\ Agree(F(t, d), frame[t][d])
        OBVIOUS
      <4>1. frame[t][d] \in Frame
        BY DEF Base, TypeOK
      <4>2. CASE Writing(t) /\ d = depth[t]
        <5>1. F(t, d) = [frame[t][d] EXCEPT !.sole = FALSE]
          BY <4>2 DEF Top
        <5>2. /\ [frame[t][d] EXCEPT !.sole = FALSE] \in Frame
              /\ Agree([frame[t][d] EXCEPT !.sole = FALSE], frame[t][d])
          BY <4>1 DEF Frame, Agree
        <5> HIDE DEF F
        <5> QED BY <5>1, <5>2
      <4>3. CASE ~(Writing(t) /\ d = depth[t])
        <5>1. F(t, d) = frame[t][d]
          BY <4>3
        <5> QED BY <4>1, <5>1 DEF Agree
      <4> QED BY <4>2, <4>3
    <3>5. \A t \in Sessions, d \in 1..MaxDepth : F(t, d) \in Frame
      BY <3>2, <3>4
    <3>s. F(s, depth[s]) = f
      OBVIOUS
    <3> HIDE DEF F, f
    <3>6. /\ frame' \in [Sessions -> [1..MaxDepth -> Frame]]
          /\ \A t \in Sessions, d \in 1..MaxDepth : frame'[t][d] = F(t, d)
      <4> HIDE DEF Frame
      <4> QED BY <3>1, <3>5
    <3>7. frame'[s][depth[s]] = f
      BY <1>t, <3>6, <3>s
    <3>8. OtherFramesAgree(s)
      <4> SUFFICES ASSUME NEW t \in Sessions, NEW d \in 1..MaxDepth,
                          t # s \/ d # depth[s]
                   PROVE  Agree(frame'[t][d], frame[t][d])
        BY DEF OtherFramesAgree
      <4>1. frame'[t][d] = F(t, d)
        BY <3>6
      <4> QED BY <3>4, <4>1
    <3>9. s \in instances
      BY <1>0, <2>1 DEF InstancesBalanced
    <3>10. ResultEffect(s, f) /\ InstanceEffect(s, f)
      BY <2>1, <3>1, <3>2, <3>9 DEF ResultEffect, InstanceEffect, resVars
    <3> QED BY <1>t, <2>1, <3>2, <3>3, <3>6, <3>7, <3>8, <3>10 DEF TopStep
  <2> QED BY <2>2, <2>3
<1>9. CASE RunFlushOutput(s)
  <2> DEFINE f == [Top(s) EXCEPT !.pc = "finish",
                                 !.size = PayloadSize[Top(s).def]]
  <2>1. depth' = depth /\ Top(s).pc = "flush" /\ UNCHANGED resVars
          /\ SetTop(s, f) /\ instances' = instances \ {s}
    BY <1>9 DEF RunFlushOutput, DestroyInstance
  <2>2. PayloadSize[Top(s).def] \in Nat
    BY <1>t, <2>1 DEF FrameOK
  <2>3. f \in Frame /\ f.pc = "finish" /\ f.res = Top(s).res
    BY <1>t, <2>2 DEF Frame, Pcs
  <2>4. FrameOK(f)
    BY <1>t, <2>1, <2>3 DEF FrameOK, HoldsResult
  <2>5. ResultEffect(s, f) /\ InstanceEffect(s, f)
    BY <2>1, <2>3 DEF ResultEffect, InstanceEffect, resVars
  <2> QED BY <1>0, <1>t, <2>1, <2>3, <2>4, <2>5, SetTopStep DEF TopStep
<1>10. CASE RunFinish(s)
  <2> DEFINE f == [Top(s) EXCEPT !.res = NoResult,
                     !.pc = IF EmitsLog(IF Top(s).status = "OK" THEN LogInfo
                                                               ELSE LogError)
                              THEN "cb_done" ELSE "return"]
  <2>1. depth' = depth /\ Top(s).pc = "finish" /\ instances' = instances
          /\ SetTop(s, f) /\ allocated' = allocated
          /\ held' = held \cup {Top(s).res}
    BY <1>10 DEF RunFinish
  <2>2. f \in Frame /\ f.pc \in {"cb_done", "return"} /\ f.res = NoResult
    BY <1>t DEF Frame, Pcs, Callbacks
  <2>3. FrameOK(f)
    BY <2>2 DEF FrameOK, HoldsResult
  <2>4. ResultEffect(s, f)
    BY <1>r, <2>1, <2>2 DEF ResultEffect, HoldsResult
  <2> QED BY <1>0, <2>1, <2>2, <2>3, <2>4, PlainMove
<1>11. CASE CallbackReturn(s)
  <2> DEFINE f == [Top(s) EXCEPT !.pc = AfterCallback(Top(s).pc)]
  <2>1. depth' = depth /\ Top(s).pc \in Callbacks /\ instances' = instances
          /\ SetTop(s, f) /\ UNCHANGED resVars
    BY <1>11 DEF CallbackReturn, InCallback
  <2>2. AfterCallback(Top(s).pc) \in {"begin", "machine", "finish", "return"}
          /\ (AfterCallback(Top(s).pc) \in HoldsResult <=> Top(s).pc \in HoldsResult)
          /\ (AfterCallback(Top(s).pc) = "machine" => Top(s).pc = "cb_format")
    BY <2>1 DEF AfterCallback, Callbacks, HoldsResult
  <2>3. f \in Frame /\ f.pc = AfterCallback(Top(s).pc) /\ f.res = Top(s).res
          /\ f.status = Top(s).status
    BY <1>t, <2>2 DEF Frame, Pcs
  <2>4. FrameOK(f)
    BY <1>t, <2>2, <2>3 DEF FrameOK
  <2>5. ResultEffect(s, f)
    BY <2>1, <2>3 DEF ResultEffect, resVars
  <2>6. f.pc \notin {"serialize", "flush"} /\ Top(s).pc \notin {"serialize", "flush"}
    BY <2>1, <2>2, <2>3 DEF Callbacks
  <2> HIDE DEF f
  <2> QED BY <1>0, <2>1, <2>3, <2>4, <2>5, <2>6, PlainMove
<1> QED BY <1>1, <1>2, <1>3, <1>4, <1>5, <1>6, <1>7, <1>8, <1>9, <1>10, <1>11
        DEF RunMove

-----------------------------------------------------------------------------
(* The steps that push, pop or mark frames *)

\* History marks change nothing that matters.
LEMMA DisturbedAgrees ==
  ASSUME Base, NEW s \in Sessions
  PROVE  /\ Disturbed(s) \in [1..MaxDepth -> Frame]
         /\ \A d \in 1..MaxDepth : Agree(Disturbed(s)[d], frame[s][d])
<1> SUFFICES ASSUME NEW d \in 1..MaxDepth
             PROVE  Disturbed(s)[d] \in Frame /\ Agree(Disturbed(s)[d], frame[s][d])
  BY DEF Disturbed
<1>1. frame[s][d] \in Frame /\ depth[s] \in Nat
  BY DEF Base, TypeOK
<1> DEFINE f == [frame[s][d] EXCEPT !.quiet = frame[s][d].quiet /\ d > depth[s]]
<1>2. Disturbed(s)[d] = f
  BY DEF Disturbed
<1>3. f \in Frame /\ Agree(f, frame[s][d])
  BY <1>1 DEF Frame, Agree
<1> HIDE DEF f
<1> QED BY <1>2, <1>3

\* A new frame is in order.
LEMMA NewFrameOK == NewFrame \in Frame /\ FrameOK(NewFrame)
BY DEF NewFrame, Frame, Pcs, Statuses, FrameOK, HoldsResult

\* Every frame agrees with what it was, but perhaps frame d of session s, which
\* is new. The marks of reset, the call of a run, olnk_link and the return.
Renewed(s, d) ==
  /\ frame' \in [Sessions -> [1..MaxDepth -> Frame]]
  /\ \A t \in Sessions, e \in 1..MaxDepth :
       IF t = s /\ e = d THEN frame'[t][e] = NewFrame
                        ELSE Agree(frame'[t][e], frame[t][e])

\* olnk_session_reset marks the frames of its session.
LEMMA ResetFrames ==
  ASSUME Base, NEW s \in Sessions, olnk_session_reset(s)
  PROVE  Renewed(s, 0)
<1>1. frame' = [frame EXCEPT ![s] = Disturbed(s)]
  BY DEF olnk_session_reset
<1>2. frame \in [Sessions -> [1..MaxDepth -> Frame]]
  BY DEF Base, TypeOK
<1>3. /\ frame' \in [Sessions -> [1..MaxDepth -> Frame]]
      /\ frame'[s] = Disturbed(s)
      /\ \A t \in Sessions : t # s => frame'[t] = frame[t]
  <2> HIDE DEF Frame
  <2> QED BY <1>1, <1>2, DisturbedAgrees
<1> QED BY <1>3, DisturbedAgrees DEF Renewed, Agree

\* A call of olnk_session_run marks the frames below and puts a new one on top.
LEMMA CallFrames ==
  ASSUME Base, NEW s \in Sessions, olnk_session_run(s)
  PROVE  Renewed(s, depth[s] + 1)
<1> DEFINE g == [Disturbed(s) EXCEPT ![depth[s] + 1] = NewFrame]
<1>1. frame' = [frame EXCEPT ![s] = g] /\ depth[s] + 1 \in 1..MaxDepth
  BY DEF olnk_session_run, Base, TypeOK
<1>2. frame \in [Sessions -> [1..MaxDepth -> Frame]]
  BY DEF Base, TypeOK
<1>3. /\ g \in [1..MaxDepth -> Frame]
      /\ g[depth[s] + 1] = NewFrame
      /\ \A e \in 1..MaxDepth : e # depth[s] + 1 => g[e] = Disturbed(s)[e]
  <2> HIDE DEF Frame
  <2> QED BY <1>1, DisturbedAgrees, NewFrameOK
<1> HIDE DEF g
<1>4. /\ frame' \in [Sessions -> [1..MaxDepth -> Frame]]
      /\ frame'[s] = g
      /\ \A t \in Sessions : t # s => frame'[t] = frame[t]
  <2> HIDE DEF Frame
  <2> QED BY <1>1, <1>2, <1>3
<1> QED BY <1>3, <1>4, DisturbedAgrees DEF Renewed, Agree

\* olnk_link and the return of a run replace one frame by a new one.
LEMMA OneFrame ==
  ASSUME Base, NEW s \in Sessions, NEW d \in 1..MaxDepth,
         frame' = [frame EXCEPT ![s][d] = NewFrame]
  PROVE  Renewed(s, d)
<1>1. frame \in [Sessions -> [1..MaxDepth -> Frame]]
  BY DEF Base, TypeOK
<1>2. /\ frame' \in [Sessions -> [1..MaxDepth -> Frame]]
      /\ frame'[s][d] = NewFrame
      /\ \A t \in Sessions, e \in 1..MaxDepth :
           t # s \/ e # d => frame'[t][e] = frame[t][e]
  <2> HIDE DEF Frame
  <2> QED BY <1>1, NewFrameOK
<1> QED BY <1>2 DEF Renewed, Agree

-----------------------------------------------------------------------------
(* What each sort of step preserves *)

\* The inductive invariant
IInv == Base /\ InstancesBalanced /\ ResultOwnership

\* Whether a frame is in order does not depend on its history.
LEMMA AgreeOK ==
  ASSUME NEW f, NEW g, Agree(g, f), FrameOK(f)
  PROVE  FrameOK(g)
BY DEF Agree, FrameOK

\* A move of the top frame leaves the frames and stacks in order.
LEMMA MoveKeepsStack ==
  ASSUME Base, NEW s \in Sessions, NEW f \in Frame, TopStep(s, f),
         live' = live, oneshot' = oneshot
  PROVE  FramesOK' /\ StackOK'
<1>1. FramesOK'
  <2> SUFFICES ASSUME NEW t \in Sessions, NEW e \in 1..MaxDepth
               PROVE  FrameOK(frame'[t][e])
    BY DEF FramesOK
  <2>1. CASE t = s /\ e = depth[s]
    BY <2>1 DEF TopStep
  <2>2. CASE t # s \/ e # depth[s]
    <3>1. Agree(frame'[t][e], frame[t][e])
      BY <2>2 DEF TopStep, OtherFramesAgree
    <3>2. FrameOK(frame[t][e])
      BY DEF Base, FramesOK
    <3> QED BY <3>1, <3>2, AgreeOK
  <2> QED BY <2>1, <2>2
<1>2. StackOK'
  <2> SUFFICES ASSUME NEW t \in Sessions
               PROVE  /\ depth[t] > 0 => t \in live
                      /\ t \in oneshot => depth[t] = 1
                      /\ \A d \in 1..MaxDepth :
                           d < depth[t] => frame'[t][d].pc \in Callbacks
    BY DEF StackOK, TopStep
  <2>1. \A d \in 1..MaxDepth : d < depth[t] =>
          Agree(frame'[t][d], frame[t][d]) /\ frame[t][d].pc \in Callbacks
    BY DEF TopStep, OtherFramesAgree, Base, StackOK, TypeOK
  <2> QED BY <2>1 DEF Base, StackOK, Agree
<1> QED BY <1>1, <1>2

\* A move of the top frame keeps the instances balanced.
LEMMA MoveKeepsInstances ==
  ASSUME Base, InstancesBalanced, NEW s \in Sessions, NEW f \in Frame, TopStep(s, f)
  PROVE  InstancesBalanced'
<1>1. \A t \in Sessions \ {s} : depth[t] > 0 => frame'[t][depth[t]].pc = Top(t).pc
  BY TopFrame DEF TopStep, OtherFramesAgree, Agree, Top
<1>2. frame'[s][depth[s]].pc = f.pc /\ depth[s] > 0 /\ depth' = depth
  BY DEF TopStep
<1>3. \A t \in Sessions : t \in instances' <=>
        IF t = s THEN f.pc \in {"serialize", "flush"} ELSE t \in instances
  BY DEF TopStep, InstanceEffect
<1>4. instances' \subseteq Sessions
  BY DEF TopStep, InstanceEffect, Base, TypeOK
<1> QED BY <1>1, <1>2, <1>3, <1>4 DEF InstancesBalanced, At, Top

\* Which frame has which result after a move of s
LEMMA MoveHolds ==
  ASSUME Base, NEW s \in Sessions, NEW f \in Frame, TopStep(s, f),
         NEW t \in Sessions, NEW d \in 1..MaxDepth, NEW r \in Results
  PROVE  Holds(t, d, r)' <=> IF t = s /\ d = depth[s] THEN f.res = r ELSE Holds(t, d, r)
<1>1. depth' = depth /\ frame'[s][depth[s]] = f /\ depth[s] \in 1..MaxDepth
  BY DEF TopStep
<1>2. CASE t = s /\ d = depth[s]
  BY <1>1, <1>2 DEF Holds
<1>3. CASE ~(t = s /\ d = depth[s])
  <2>1. frame'[t][d].res = frame[t][d].res
    BY <1>3 DEF TopStep, OtherFramesAgree, Agree
  <2> QED BY <1>1, <1>3, <2>1 DEF Holds
<1> QED BY <1>2, <1>3

\* If every result stays where it is, nothing happens to its ownership.
LEMMA SameHolders ==
  ASSUME TypeOK, ResultOwnership, allocated' = allocated, held' = held,
         \A t \in Sessions, d \in 1..MaxDepth, r \in Results :
           Holds(t, d, r)' <=> Holds(t, d, r)
  PROVE  ResultOwnership'
<1>1. (held \subseteq allocated)'
  BY DEF ResultOwnership
<1>2. \A t \in Sessions, d \in 1..MaxDepth, r \in Results :
        Holds(t, d, r)' => r \in allocated' \ held'
  BY DEF ResultOwnership
<1>3. \A r \in allocated' \ held' : \E t \in Sessions, d \in 1..MaxDepth :
        Holds(t, d, r)'
  <2> SUFFICES ASSUME NEW r \in allocated \ held
               PROVE  \E t \in Sessions, d \in 1..MaxDepth : Holds(t, d, r)'
    OBVIOUS
  <2>1. PICK t \in Sessions, d \in 1..MaxDepth : Holds(t, d, r)
    BY DEF ResultOwnership
  <2>2. r \in Results
    BY DEF TypeOK
  <2> QED BY <2>1, <2>2
<1>4. \A t, u \in Sessions, d, e \in 1..MaxDepth, r \in Results :
        Holds(t, d, r)' /\ Holds(u, e, r)' => t = u /\ d = e
  <2> SUFFICES ASSUME NEW t \in Sessions, NEW u \in Sessions,
                      NEW d \in 1..MaxDepth, NEW e \in 1..MaxDepth,
                      NEW r \in Results, Holds(t, d, r)', Holds(u, e, r)'
               PROVE  t = u /\ d = e
    OBVIOUS
  <2>1. Holds(t, d, r) /\ Holds(u, e, r)
    OBVIOUS
  <2> QED BY <2>1 DEF ResultOwnership
<1> QED BY <1>1, <1>2, <1>3, <1>4 DEF ResultOwnership

\* Each of the four effects on a result keeps every result owned once.
LEMMA MoveKeepsOwnership ==
  ASSUME Base, ResultOwnership, NEW s \in Sessions, NEW f \in Frame, TopStep(s, f)
  PROVE  ResultOwnership'
<1>1. depth[s] \in 1..MaxDepth
  BY DEF TopStep
<1>2. \A r \in Results : Holds(s, depth[s], r) <=> Top(s).res = r
  BY <1>1 DEF Holds, Top
<1>3. \A t \in Sessions, d \in 1..MaxDepth, r \in Results :
        Holds(t, d, r)' <=> IF t = s /\ d = depth[s] THEN f.res = r ELSE Holds(t, d, r)
  BY MoveHolds
<1>4. allocated \subseteq Results /\ held \subseteq Results /\ NoResult \notin Results
  BY DEF Base, TypeOK
<1>5. CASE f.res = Top(s).res /\ allocated' = allocated /\ held' = held
  <2>1. \A t \in Sessions, d \in 1..MaxDepth, r \in Results :
          Holds(t, d, r)' <=> Holds(t, d, r)
    BY <1>2, <1>3, <1>5
  <2> QED BY <1>5, <2>1, SameHolders DEF Base
<1>6. CASE /\ Top(s).res \in Results /\ f.res = NoResult
           /\ allocated' = allocated \ {Top(s).res} /\ held' = held
  BY <1>1, <1>2, <1>3, <1>4, <1>6 DEF ResultOwnership
<1>7. CASE /\ Top(s).res = NoResult /\ f.res \in Results \ allocated
           /\ allocated' = allocated \cup {f.res} /\ held' = held
  BY <1>1, <1>2, <1>3, <1>4, <1>7 DEF ResultOwnership
<1>8. CASE /\ Top(s).res \in Results /\ f.res = NoResult
           /\ allocated' = allocated /\ held' = held \cup {Top(s).res}
  BY <1>1, <1>2, <1>3, <1>4, <1>8 DEF ResultOwnership
<1> QED BY <1>5, <1>6, <1>7, <1>8 DEF TopStep, ResultEffect

\* The same for frames that are renewed: the top of the stack is a frame that
\* agrees with one that was waiting for a callback, or a new one.
LEMMA RenewedOK ==
  ASSUME Base, NEW s \in Sessions, NEW d \in Int, Renewed(s, d)
  PROVE  FramesOK'
<1> SUFFICES ASSUME NEW t \in Sessions, NEW e \in 1..MaxDepth
             PROVE  FrameOK(frame'[t][e])
  BY DEF FramesOK
<1>1. FrameOK(frame[t][e])
  BY DEF Base, FramesOK
<1> QED BY <1>1, AgreeOK, NewFrameOK DEF Renewed

\* A call of olnk_session_run, from outside or from a callback
LEMMA CallStep ==
  ASSUME IInv, NEW s \in Sessions, olnk_session_run(s)
  PROVE  FramesOK' /\ StackOK' /\ InstancesBalanced' /\ ResultOwnership'
<1>1. /\ s \in live \ oneshot /\ (depth[s] = 0 \/ InCallback(s))
      /\ depth' = [depth EXCEPT ![s] = @ + 1]
      /\ UNCHANGED <<live, oneshot, allocated, held, instances>>
  BY DEF olnk_session_run, CallerMayUse, objVars, resVars
<1>2. Renewed(s, depth[s] + 1)
  BY CallFrames DEF IInv
<1>3. /\ depth \in [Sessions -> 0..MaxDepth]
      /\ depth'[s] = depth[s] + 1 /\ depth[s] + 1 \in 1..MaxDepth
      /\ \A t \in Sessions : t # s => depth'[t] = depth[t]
  BY <1>1 DEF IInv, Base, TypeOK, olnk_session_run
<1>4. FramesOK'
  BY <1>2, <1>3, RenewedOK DEF IInv
<1>5. StackOK'
  <2> SUFFICES ASSUME NEW t \in Sessions
               PROVE  /\ depth'[t] > 0 => t \in live
                      /\ t \in oneshot => depth'[t] = 1
                      /\ \A d \in 1..MaxDepth :
                           d < depth'[t] => frame'[t][d].pc \in Callbacks
    BY <1>1 DEF StackOK
  <2>1. CASE t # s
    <3>1. \A d \in 1..MaxDepth : frame'[t][d].pc = frame[t][d].pc
      BY <1>2, <2>1 DEF Renewed, Agree
    <3>2. depth'[t] = depth[t]
      BY <1>3, <2>1
    <3> QED BY <3>1, <3>2 DEF IInv, Base, StackOK
  <2>2. CASE t = s
    <3>1. \A d \in 1..MaxDepth : d < depth[s] + 1 => frame[s][d].pc \in Callbacks
      <4>1. \A d \in 1..MaxDepth : d < depth[s] => frame[s][d].pc \in Callbacks
        BY DEF IInv, Base, StackOK
      <4>2. depth[s] > 0 => frame[s][depth[s]].pc \in Callbacks
        BY <1>1 DEF InCallback, Top
      <4> QED BY <1>3, <4>1, <4>2
    <3>2. \A d \in 1..MaxDepth : d # depth[s] + 1 => frame'[s][d].pc = frame[s][d].pc
      BY <1>2 DEF Renewed, Agree
    <3>3. \A d \in 1..MaxDepth : d < depth'[s] => frame'[s][d].pc \in Callbacks
      BY <1>3, <3>1, <3>2
    <3> QED BY <1>1, <1>3, <2>2, <3>3
  <2> QED BY <2>1, <2>2
<1>6. InstancesBalanced'
  <2>1. \A t \in Sessions \ {s} : depth[t] > 0 => frame'[t][depth[t]].pc = Top(t).pc
    BY <1>2, <1>3 DEF Renewed, Agree, Top
  <2>2. s \notin instances
    BY <1>1, <1>3 DEF IInv, InstancesBalanced, At, InCallback, Callbacks
  <2>3. frame'[s][depth'[s]].pc = "enter"
    <3>1. frame'[s][depth'[s]] = NewFrame
      BY <1>2, <1>3 DEF Renewed
    <3> QED BY <3>1 DEF NewFrame
  <2> QED BY <1>1, <1>3, <2>1, <2>2, <2>3 DEF IInv, InstancesBalanced, At, Top
<1>7. ResultOwnership'
  <2>1. \A t \in Sessions, d \in 1..MaxDepth, r \in Results :
          Holds(t, d, r)' <=> Holds(t, d, r)
    <3> SUFFICES ASSUME NEW t \in Sessions, NEW d \in 1..MaxDepth, NEW r \in Results
                 PROVE  Holds(t, d, r)' <=> Holds(t, d, r)
      OBVIOUS
    <3>1. CASE t = s /\ d = depth[s] + 1
      <4>1. frame'[t][d].res = NoResult
        BY <1>2, <3>1 DEF Renewed, NewFrame
      <4> QED BY <1>3, <3>1, <4>1 DEF Holds
    <3>2. CASE t # s \/ d # depth[s] + 1
      <4>1. frame'[t][d].res = frame[t][d].res
        BY <1>2, <3>2 DEF Renewed, Agree
      <4>2. d <= depth'[t] <=> d <= depth[t]
        BY <1>3, <3>2
      <4> QED BY <4>1, <4>2 DEF Holds
    <3> QED BY <3>1, <3>2
  <2> QED BY <1>1, <2>1, SameHolders DEF IInv, Base
<1> QED BY <1>4, <1>5, <1>6, <1>7

\* The return of olnk_session_run or olnk_link
LEMMA ReturnStep ==
  ASSUME IInv, NEW s \in Sessions, RunReturn(s)
  PROVE  FramesOK' /\ StackOK' /\ InstancesBalanced' /\ ResultOwnership'
<1>1. /\ depth[s] > 0 /\ Top(s).pc = "return"
      /\ depth' = [depth EXCEPT ![s] = @ - 1]
      /\ UNCHANGED <<allocated, held, instances>>
      /\ \/ s \in oneshot /\ live' = live \ {s} /\ oneshot' = oneshot \ {s}
         \/ s \notin oneshot /\ live' = live /\ oneshot' = oneshot
  BY DEF RunReturn, At, FreeSession, resVars
<1>2. Renewed(s, depth[s])
  BY <1>1, TopFrame, OneFrame DEF RunReturn, SetTop, IInv
<1>3. /\ depth \in [Sessions -> 0..MaxDepth]
      /\ depth'[s] = depth[s] - 1 /\ depth[s] \in 1..MaxDepth
      /\ \A t \in Sessions : t # s => depth'[t] = depth[t]
  BY <1>1 DEF IInv, Base, TypeOK
<1>4. FramesOK'
  BY <1>2, <1>3, RenewedOK DEF IInv
<1>5. StackOK'
  <2> SUFFICES ASSUME NEW t \in Sessions
               PROVE  /\ depth'[t] > 0 => t \in live'
                      /\ t \in oneshot' => depth'[t] = 1
                      /\ \A d \in 1..MaxDepth :
                           d < depth'[t] => frame'[t][d].pc \in Callbacks
    BY DEF StackOK
  <2>1. \A d \in 1..MaxDepth : d < depth'[t] => frame'[t][d].pc \in Callbacks
    BY SMTT(40), <1>2, <1>3 DEF IInv, Base, StackOK, Renewed, Agree
  <2>2. (depth'[t] > 0 => t \in live') /\ (t \in oneshot' => depth'[t] = 1)
    BY <1>1, <1>3 DEF IInv, Base, StackOK
  <2> QED BY <2>1, <2>2
<1>6. InstancesBalanced'
  <2>1. \A t \in Sessions \ {s} : depth[t] > 0 => frame'[t][depth[t]].pc = Top(t).pc
    BY <1>2, <1>3 DEF Renewed, Agree, Top
  <2>2. s \notin instances
    BY <1>1 DEF IInv, InstancesBalanced, At
  <2>3. depth'[s] > 0 => frame'[s][depth'[s]].pc \in Callbacks
    BY <1>2, <1>3 DEF Renewed, Agree, IInv, Base, StackOK
  <2> QED BY <1>1, <1>3, <2>1, <2>2, <2>3
          DEF IInv, InstancesBalanced, At, Top, Callbacks
<1>7. ResultOwnership'
  <2>1. Top(s).res = NoResult
    BY <1>1, TopFrame DEF IInv, FrameOK, HoldsResult
  <2>2. \A t \in Sessions, d \in 1..MaxDepth, r \in Results :
          Holds(t, d, r)' <=> Holds(t, d, r)
    <3> SUFFICES ASSUME NEW t \in Sessions, NEW d \in 1..MaxDepth, NEW r \in Results
                 PROVE  Holds(t, d, r)' <=> Holds(t, d, r)
      OBVIOUS
    <3>1. CASE t = s /\ d = depth[s]
      BY <1>3, <2>1, <3>1 DEF Holds, Top
    <3>2. CASE t # s \/ d # depth[s]
      <4>1. frame'[t][d].res = frame[t][d].res
        BY <1>2, <3>2 DEF Renewed, Agree
      <4>2. d <= depth'[t] <=> d <= depth[t]
        BY <1>3, <3>2
      <4> QED BY <4>1, <4>2 DEF Holds
    <3> QED BY <3>1, <3>2
  <2> QED BY <1>1, <2>2, SameHolders DEF IInv, Base
<1> QED BY <1>4, <1>5, <1>6, <1>7

\* olnk_link creates a session and calls its run.
LEMMA LinkStep ==
  ASSUME IInv, NEW s \in Sessions, olnk_link(s)
  PROVE  FramesOK' /\ StackOK' /\ InstancesBalanced' /\ ResultOwnership'
<1>1. /\ s \notin live
      /\ depth' = [depth EXCEPT ![s] = 1]
      /\ UNCHANGED <<allocated, held, instances>>
      /\ live' = live \cup {s} /\ oneshot' = oneshot \cup {s}
  BY DEF olnk_link, NewSession, Unused, resVars
<1>2. Renewed(s, 1)
  <2>1. frame' = [frame EXCEPT ![s][1] = NewFrame] /\ 1 \in 1..MaxDepth
    BY DEF olnk_link
  <2> QED BY <2>1, OneFrame DEF IInv
<1>3. /\ depth \in [Sessions -> 0..MaxDepth]
      /\ depth'[s] = 1 /\ depth[s] = 0
      /\ \A t \in Sessions : t # s => depth'[t] = depth[t]
  BY <1>1 DEF IInv, Base, TypeOK, StackOK
<1>4. FramesOK'
  BY <1>2, RenewedOK DEF IInv
<1>5. StackOK'
  <2> SUFFICES ASSUME NEW t \in Sessions
               PROVE  /\ depth'[t] > 0 => t \in live'
                      /\ t \in oneshot' => depth'[t] = 1
                      /\ \A d \in 1..MaxDepth :
                           d < depth'[t] => frame'[t][d].pc \in Callbacks
    BY DEF StackOK
  <2> QED BY <1>1, <1>2, <1>3 DEF IInv, Base, StackOK, Renewed, Agree
<1>6. InstancesBalanced'
  <2>1. \A t \in Sessions \ {s} : depth[t] > 0 => frame'[t][depth[t]].pc = Top(t).pc
    BY <1>2, <1>3 DEF Renewed, Agree, Top
  <2>2. s \notin instances
    BY <1>3 DEF IInv, InstancesBalanced, At
  <2>3. frame'[s][depth'[s]].pc = "enter"
    <3>1. frame'[s][depth'[s]] = NewFrame
      BY <1>2, <1>3 DEF Renewed
    <3> QED BY <3>1 DEF NewFrame
  <2> QED BY <1>1, <1>3, <2>1, <2>2, <2>3 DEF IInv, InstancesBalanced, At, Top
<1>7. ResultOwnership'
  <2>1. \A t \in Sessions, d \in 1..MaxDepth, r \in Results :
          Holds(t, d, r)' <=> Holds(t, d, r)
    BY <1>2, <1>3 DEF Renewed, Agree, NewFrame, Holds
  <2> QED BY <1>1, <2>1, SameHolders DEF IInv, Base
<1> QED BY <1>4, <1>5, <1>6, <1>7

\* olnk_session_reset, from outside or from a callback
LEMMA ResetStep ==
  ASSUME IInv, NEW s \in Sessions, olnk_session_reset(s)
  PROVE  FramesOK' /\ StackOK' /\ InstancesBalanced' /\ ResultOwnership'
<1>1. UNCHANGED <<depth, live, oneshot, allocated, held, instances>>
  BY DEF olnk_session_reset, objVars, resVars
<1>2. Renewed(s, 0)
  BY ResetFrames DEF IInv
<1>3. \A t \in Sessions, e \in 1..MaxDepth : Agree(frame'[t][e], frame[t][e])
  BY <1>2 DEF Renewed
<1>4. FramesOK'
  BY <1>2, RenewedOK DEF IInv
<1>5. StackOK'
  BY <1>1, <1>3 DEF IInv, Base, StackOK, Agree
<1>6. InstancesBalanced'
  <2>1. \A t \in Sessions : depth[t] > 0 => frame'[t][depth[t]].pc = Top(t).pc
    BY <1>3, TopFrame DEF Agree, Top, IInv
  <2> QED BY <1>1, <2>1 DEF IInv, InstancesBalanced, At, Top
<1>7. ResultOwnership'
  <2>1. \A t \in Sessions, d \in 1..MaxDepth, r \in Results :
          Holds(t, d, r)' <=> Holds(t, d, r)
    BY <1>1, <1>3 DEF Agree, Holds
  <2> QED BY <1>1, <2>1, SameHolders DEF IInv, Base
<1> QED BY <1>4, <1>5, <1>6, <1>7

\* A step that touches no frame; sessions may come, or go when they do not run.
LEMMA QuietStep ==
  ASSUME IInv, UNCHANGED <<depth, frame, oneshot, instances>>,
         \A s \in Sessions : depth[s] > 0 /\ s \in live => s \in live'
  PROVE  FramesOK' /\ StackOK' /\ InstancesBalanced'
BY DEF IInv, Base, FramesOK, StackOK, InstancesBalanced, At, Top

\* Such a step keeps the ownership of results, unless it frees one.
LEMMA QuietKeepsOwnership ==
  ASSUME IInv, UNCHANGED <<depth, frame, allocated, held>>
  PROVE  ResultOwnership'
<1>1. \A t \in Sessions, d \in 1..MaxDepth, r \in Results :
        Holds(t, d, r)' <=> Holds(t, d, r)
  BY DEF Holds
<1> QED BY <1>1, SameHolders DEF IInv, Base

\* The caller may free what was delivered to it.
LEMMA DestroyKeepsOwnership ==
  ASSUME IInv, NEW r \in Results, olnk_result_destroy(r)
  PROVE  ResultOwnership'
<1>1. /\ r \in held /\ held' = held \ {r} /\ allocated' = allocated \ {r}
      /\ UNCHANGED <<depth, frame>>
  BY DEF olnk_result_destroy
<1>2. \A t \in Sessions, d \in 1..MaxDepth, q \in Results :
        Holds(t, d, q)' <=> Holds(t, d, q)
  BY <1>1 DEF Holds
<1>3. allocated \subseteq Results
  BY DEF IInv, Base, TypeOK
<1> QED BY <1>1, <1>2, <1>3 DEF IInv, ResultOwnership

\* The types of everything but the frames
RestTyped ==
  /\ ctx \in [level: Levels, log_cb: BOOLEAN, diag_cb: BOOLEAN]
  /\ config \in Config
  /\ live \subseteq Sessions /\ lost \subseteq Sessions /\ oneshot \subseteq live
  /\ snapshot \in [Sessions -> Config]
  /\ created \in [Sessions -> Config]
  /\ diags \in [Sessions -> Seq(Causes)]
  /\ opts \in [Sessions -> 0..MaxOptions]
  /\ depth \in [Sessions -> 0..MaxDepth]
  /\ allocated \subseteq Results
  /\ held \subseteq Results
  /\ data \in [Results -> ResultData]
  /\ instances \subseteq Sessions
  /\ lua \in [Kinds -> Registry]
  /\ file \in [Paths -> Files]

\* The type invariant: the frames, and the rest.
LEMMA TypeSplit ==
  TypeOK <=> /\ RestTyped /\ frame \in [Sessions -> [1..MaxDepth -> Frame]]
             /\ terminated \in BOOLEAN
BY DEF TypeOK, RestTyped, Registry

\* The same after a step
LEMMA TypeSplitNext ==
  TypeOK' <=> /\ RestTyped' /\ frame' \in [Sessions -> [1..MaxDepth -> Frame]]
              /\ terminated' \in BOOLEAN
BY DEF TypeOK, RestTyped, Registry

\* The contents of a new config and of a new result
LEMMA DefaultsTyped == DefaultConfig \in Config /\ NoData \in ResultData
BY DEF DefaultConfig, Config, NoData, ResultData, Statuses

\* Calls on a session keep the types.
LEMMA CallerTypes ==
  ASSUME RestTyped, NEW s \in Sessions, CallerStep(s)
  PROVE  RestTyped'
<1> HIDE DEF Config
<1>1. CASE olnk_session_create(s)
  BY <1>1 DEF RestTyped, olnk_session_create, NewSession, Unused, resVars
<1>2. CASE SessionCopyFails(s)
  BY <1>2 DEF RestTyped, SessionCopyFails, resVars
<1>3. CASE olnk_link(s)
  BY <1>3 DEF RestTyped, olnk_link, NewSession, Unused, resVars
<1>4. CASE olnk_session_destroy(s)
  BY <1>4, DefaultsTyped DEF RestTyped, olnk_session_destroy, FreeSession, resVars
<1>5. CASE olnk_session_reset(s)
  BY <1>5 DEF RestTyped, olnk_session_reset, objVars, resVars
<1>6. CASE olnk_session_set_option(s)
  BY <1>6 DEF RestTyped, olnk_session_set_option, objVars, resVars
<1>7. CASE olnk_session_run(s)
  BY <1>7 DEF RestTyped, olnk_session_run, objVars, resVars
<1> QED BY <1>1, <1>2, <1>3, <1>4, <1>5, <1>6, <1>7 DEF CallerStep

\* Calls on the context, the config and results keep the types.
LEMMA ContextTypes ==
  ASSUME RestTyped,
         \/ \E l \in LogLevels : olnk_context_set_log_level(l)
         \/ \E on \in CallbackModes : olnk_context_set_log_callback(on)
         \/ \E on \in CallbackModes : olnk_context_set_diagnostic_callback(on)
         \/ EditConfig
         \/ \E r \in Results : olnk_result_destroy(r)
  PROVE  RestTyped'
<1>1. CASE \E l \in LogLevels : olnk_context_set_log_level(l)
  BY <1>1 DEF RestTyped, olnk_context_set_log_level, objVars, resVars
<1>2. CASE \E on \in CallbackModes : olnk_context_set_log_callback(on)
  BY <1>2 DEF RestTyped, olnk_context_set_log_callback, objVars, resVars
<1>3. CASE \E on \in CallbackModes : olnk_context_set_diagnostic_callback(on)
  BY <1>3 DEF RestTyped, olnk_context_set_diagnostic_callback, objVars, resVars
<1>4. CASE EditConfig
  <2>1. config \in Config /\ config' \in ConfigEdits
    BY <1>4 DEF RestTyped, EditConfig
  <2>2. config' \in Config
    <3>1. CASE \E p \in Paths \cup {Empty} : config' = [config EXCEPT !.path = p]
      BY <2>1, <3>1 DEF Config
    <3>2. CASE \E n \in Names \cup {Empty} : config' = [config EXCEPT !.format = n]
      BY <2>1, <3>2 DEF Config
    <3>3. CASE \E n \in Names \cup {Empty} : config' = [config EXCEPT !.machine = n]
      BY <2>1, <3>3 DEF Config
    <3>4. CASE config.inputs < MaxInputs
                 /\ config' = [config EXCEPT !.inputs = @ + 1]
      BY <2>1, <3>4 DEF Config
    <3> QED BY <2>1, <3>1, <3>2, <3>3, <3>4 DEF ConfigEdits, PathEdits, NameEdits, InputEdits
  <2> QED BY <1>4, <2>2 DEF RestTyped, EditConfig, objVars, resVars
<1>5. CASE \E r \in Results : olnk_result_destroy(r)
  BY <1>5, DefaultsTyped DEF RestTyped, olnk_result_destroy, objVars
<1> QED BY <1>1, <1>2, <1>3, <1>4, <1>5

\* Diagnose stores a cause or frees a result.
LEMMA DiagnoseTypes ==
  ASSUME RestTyped, NEW s \in Sessions, NEW f, NEW c \in Causes, NEW cb, NEW next,
         Diagnose(s, f, c, cb, next)
  PROVE  /\ diags' \in [Sessions -> Seq(Causes)]
         /\ allocated' \subseteq Results
         /\ held' = held /\ data' = data
<1>1. CASE diags' = [diags EXCEPT ![s] = Append(@, c)]
             /\ UNCHANGED <<allocated, held, data>>
  <2>1. Append(diags[s], c) \in Seq(Causes)
    BY DEF RestTyped
  <2> HIDE DEF Causes
  <2> QED BY <1>1, <2>1 DEF RestTyped
<1>2. CASE Abandon(s, f)
  BY <1>2 DEF RestTyped, Abandon
<1> QED BY <1>1, <1>2 DEF Diagnose

\* The steps of a run keep the types.
LEMMA RunTypes ==
  ASSUME Base, NEW s \in Sessions, RunStep(s) \/ CallbackReturn(s)
  PROVE  RestTyped'
<1>0. RestTyped
  BY TypeSplit DEF Base
<1> HIDE DEF Config, Files, ResultData, Registry, Causes, Frame
<1>1. CASE RunEnter(s)
  BY <1>0, <1>1 DEF RestTyped, RunEnter, objVars, resVars
<1>2. CASE RunMakeResult(s)
  BY <1>0, <1>2, DefaultsTyped DEF RestTyped, RunMakeResult, objVars
<1>3. CASE RunMakeResultFails(s)
  BY <1>0, <1>3 DEF RestTyped, RunMakeResultFails, objVars, resVars
<1>4. CASE RunCheck(s)
  <2>1. UNCHANGED <<ctx, config, live, lost, oneshot, snapshot, created, opts,
                    depth, instances, lua, file>>
    BY <1>4 DEF RunCheck, objVars
  <2>2. CASE \E c \in Causes : Diagnose(s, Top(s), c, "cb_diag", "finish")
    BY <1>0, <2>1, <2>2, DiagnoseTypes DEF RestTyped
  <2>3. CASE UNCHANGED <<diags, resVars>>
    BY <1>0, <2>1, <2>3 DEF RestTyped, resVars
  <2>4. "no_input" \in Causes /\ "no_output" \in Causes
    BY DEF Causes
  <2> QED BY <1>4, <2>2, <2>3, <2>4 DEF RunCheck
<1>5. CASE RunFindFormat(s)
  <2>1. UNCHANGED <<ctx, config, live, lost, oneshot, snapshot, created, opts,
                    depth, instances, file>>
    BY <1>5 DEF RunFindFormat, objVars
  <2>2. PICK look \in Lookups("format", OrDefault(snapshot[s].format)) :
          /\ lua' = [lua EXCEPT !["format"] = look.reg]
          /\ \/ UNCHANGED <<diags, resVars>>
             \/ Diagnose(s, Top(s), "unknown_format", "cb_format", "machine")
    BY <1>5 DEF RunFindFormat
  <2>3. look.reg \in Registry
    BY LookupSound DEF Base, Kinds
  <2>4. lua' \in [Kinds -> Registry]
    BY <1>0, <2>2, <2>3 DEF RestTyped
  <2>5. "unknown_format" \in Causes
    BY DEF Causes
  <2>6. /\ diags' \in [Sessions -> Seq(Causes)] /\ allocated' \subseteq Results
        /\ held' = held /\ data' = data
    BY <1>0, <2>2, <2>5, DiagnoseTypes DEF RestTyped, resVars
  <2> QED BY <1>0, <2>1, <2>4, <2>6 DEF RestTyped
<1>6. CASE RunFindMachine(s)
  <2>1. UNCHANGED <<ctx, config, live, lost, oneshot, snapshot, created, opts,
                    depth, instances, file>>
    BY <1>6 DEF RunFindMachine, objVars
  <2>2. PICK look \in Lookups("machine", OrDefault(snapshot[s].machine)) :
          /\ lua' = [lua EXCEPT !["machine"] = look.reg]
          /\ \/ UNCHANGED <<diags, resVars>>
             \/ Diagnose(s, Top(s), "unknown_machine", "cb_diag", "finish")
    BY <1>6 DEF RunFindMachine
  <2>3. look.reg \in Registry
    BY LookupSound DEF Base, Kinds
  <2>4. lua' \in [Kinds -> Registry]
    BY <1>0, <2>2, <2>3 DEF RestTyped
  <2>5. "unknown_machine" \in Causes
    BY DEF Causes
  <2>6. /\ diags' \in [Sessions -> Seq(Causes)] /\ allocated' \subseteq Results
        /\ held' = held /\ data' = data
    BY <1>0, <2>2, <2>5, DiagnoseTypes DEF RestTyped, resVars
  <2> QED BY <1>0, <2>1, <2>4, <2>6 DEF RestTyped
<1>7. CASE RunCreateInstance(s)
  BY <1>0, <1>7 DEF RestTyped, RunCreateInstance, objVars, resVars
<1>8. CASE RunOpenOutput(s)
  <2>1. EmptyFile \in Files
    BY DEF EmptyFile, Files
  <2>2. file' \in [Paths -> Files]
    <3>1. file' = file \/ file' = [file EXCEPT ![snapshot[s].path] = EmptyFile]
      BY <1>8 DEF RunOpenOutput, Opened
    <3>2. file \in [Paths -> Files]
      BY <1>0 DEF RestTyped
    <3> QED BY <2>1, <3>1, <3>2
  <2> QED BY <1>0, <1>8, <2>2
          DEF RestTyped, RunOpenOutput, DestroyInstance, objVars, resVars
<1>9. CASE RunFlushOutput(s)
  <2> DEFINE p == snapshot[s].path
             n == PayloadSize[Top(s).def]
             After(k, old) == [by  |-> IF k = 0 THEN old.by ELSE Top(s).def,
                               len |-> IF old.len > k THEN old.len ELSE k]
  <2>1. PICK k \in 0..n : file' = [file EXCEPT ![p] = After(k, @)]
    BY <1>9 DEF RunFlushOutput
  <2>2. depth[s] > 0 /\ Top(s).pc = "flush"
    BY <1>9 DEF RunFlushOutput, At
  <2>3. Top(s).def \in Formats /\ n \in Nat /\ k \in Nat
    BY <2>2, TopFrame DEF FrameOK
  <2>4. \A old \in Files : After(k, old) \in Files
    BY <2>3 DEF Files
  <2>5. file' \in [Paths -> Files]
    <3> HIDE DEF After
    <3> QED BY <1>0, <2>1, <2>4 DEF RestTyped
  <2> QED BY <1>0, <1>9, <2>5
          DEF RestTyped, RunFlushOutput, DestroyInstance, objVars, resVars
<1>10. CASE RunFinish(s)
  <2> DEFINE f == Top(s)
             new == [status |-> f.status,
                     size   |-> IF f.status = "OK" THEN f.size ELSE 0,
                     inputs |-> snapshot[s].inputs,
                     errors |-> Len(diags[s]),
                     path   |-> snapshot[s].path,
                     quiet  |-> f.quiet]
  <2>1. depth[s] > 0 /\ f.pc = "finish" /\ data' = [data EXCEPT ![f.res] = new]
          /\ held' = held \cup {f.res}
    BY <1>10 DEF RunFinish, At
  <2>2. f \in Frame /\ f.res \in Results
    BY <2>1, TopFrame DEF FrameOK, HoldsResult, Frame
  <2>3. Len(diags[s]) \in Nat /\ snapshot[s] \in Config
    BY <1>0 DEF RestTyped
  <2>4. new \in ResultData
    BY <2>2, <2>3 DEF ResultData, Frame, Config
  <2> HIDE DEF new
  <2>5. data' \in [Results -> ResultData] /\ held' \subseteq Results
    BY <1>0, <2>1, <2>2, <2>4 DEF RestTyped
  <2> QED BY <1>0, <1>10, <2>5 DEF RestTyped, RunFinish, objVars
<1>11. CASE RunReturn(s)
  <2>1. depth' \in [Sessions -> 0..MaxDepth]
    BY <1>0, <1>11 DEF RestTyped, RunReturn, At
  <2>2. /\ live' \subseteq Sessions /\ oneshot' \subseteq live'
        /\ snapshot' \in [Sessions -> Config] /\ created' \in [Sessions -> Config]
        /\ diags' \in [Sessions -> Seq(Causes)]
        /\ opts' \in [Sessions -> 0..MaxOptions]
    <3>1. CASE s \in oneshot /\ FreeSession(s) /\ oneshot' = oneshot \ {s}
      <4>1. live' = live \ {s}
        BY <3>1 DEF FreeSession
      <4>2. live' \subseteq Sessions /\ oneshot' \subseteq live'
        BY <1>0, <3>1, <4>1 DEF RestTyped
      <4>3. snapshot' \in [Sessions -> Config] /\ created' \in [Sessions -> Config]
        BY <1>0, <3>1, DefaultsTyped DEF RestTyped, FreeSession
      <4>4. diags' \in [Sessions -> Seq(Causes)] /\ opts' \in [Sessions -> 0..MaxOptions]
        BY <1>0, <3>1 DEF RestTyped, FreeSession
      <4> QED BY <4>2, <4>3, <4>4
    <3>2. CASE UNCHANGED <<live, snapshot, created, diags, opts, oneshot>>
      BY <1>0, <3>2 DEF RestTyped
    <3> QED BY <1>11, <3>1, <3>2 DEF RunReturn
  <2> QED BY <1>0, <1>11, <2>1, <2>2 DEF RestTyped, RunReturn, resVars
<1>12. CASE CallbackReturn(s)
  BY <1>0, <1>12 DEF RestTyped, CallbackReturn, objVars, resVars
<1> QED BY <1>1, <1>2, <1>3, <1>4, <1>5, <1>6, <1>7, <1>8, <1>9, <1>10, <1>11,
           <1>12 DEF RunStep

-----------------------------------------------------------------------------
(* The invariant *)

\* The invariant holds before the first call.
LEMMA InitOK == Init => IInv
<1> SUFFICES ASSUME Init PROVE IInv
  OBVIOUS
<1> USE DEF Init
<1>1. frame \in [Sessions -> [1..MaxDepth -> Frame]]
        /\ \A s \in Sessions, d \in 1..MaxDepth : frame[s][d] = NewFrame
  <2> HIDE DEF Frame, NewFrame
  <2> QED BY NewFrameOK
<1>2. RestTyped
  <2>1. config \in Config /\ snapshot \in [Sessions -> Config]
          /\ created \in [Sessions -> Config] /\ data \in [Results -> ResultData]
    BY DefaultsTyped
  <2>2. lua \in [Kinds -> Registry]
    BY DEF Registry
  <2>3. file \in [Paths -> Files]
    BY DEF Files, EmptyFile
  <2>4. ctx \in [level: Levels, log_cb: BOOLEAN, diag_cb: BOOLEAN]
    BY DEF Levels, LogInfo
  <2>5. depth \in [Sessions -> 0..MaxDepth] /\ opts \in [Sessions -> 0..MaxOptions]
          /\ diags \in [Sessions -> Seq(Causes)]
    OBVIOUS
  <2> QED BY <2>1, <2>2, <2>3, <2>4, <2>5 DEF RestTyped
<1>3. FramesOK
  BY <1>1, NewFrameOK DEF FramesOK
<1>4. StackOK
  BY DEF StackOK
<1>5. InstancesBalanced
  BY DEF InstancesBalanced, At
<1>6. ResultOwnership
  BY DEF ResultOwnership, Holds
<1> QED BY <1>1, <1>2, <1>3, <1>4, <1>5, <1>6, TypeSplit DEF IInv, Base

\* Every step keeps the invariant, one case per sort of step.
LEMMA StepOK == IInv /\ [Next]_vars => IInv'
<1> SUFFICES ASSUME IInv, [Next]_vars PROVE IInv'
  OBVIOUS
<1>0. RestTyped /\ frame \in [Sessions -> [1..MaxDepth -> Frame]]
  BY TypeSplit DEF IInv, Base
<1>t. terminated' \in BOOLEAN
  <2>1. terminated \in BOOLEAN
    BY DEF IInv, Base, TypeOK
  <2> QED BY <2>1 DEF Next, Alive, RunTerminates, vars
<1>1. ASSUME NEW s \in Sessions, RunMove(s) PROVE IInv'
  <2>1. PICK f \in Frame : TopStep(s, f)
    BY <1>1, MoveSteps DEF IInv
  <2>2. live' = live /\ oneshot' = oneshot
    <3>1. CASE RunEnter(s) \/ RunMakeResult(s) \/ RunMakeResultFails(s) \/ RunCheck(s)
      BY <3>1 DEF RunEnter, RunMakeResult, RunMakeResultFails, RunCheck, objVars
    <3>2. CASE RunFindFormat(s)
      BY <3>2 DEF RunFindFormat, objVars
    <3>3. CASE RunFindMachine(s)
      BY <3>3 DEF RunFindMachine, objVars
    <3>4. CASE RunCreateInstance(s)
      BY <3>4 DEF RunCreateInstance, objVars
    <3>5. CASE RunOpenOutput(s)
      BY <3>5 DEF RunOpenOutput, objVars
    <3>6. CASE RunFlushOutput(s) \/ RunFinish(s) \/ CallbackReturn(s)
      BY <3>6 DEF RunFlushOutput, RunFinish, CallbackReturn, objVars
    <3> QED BY <1>1, <3>1, <3>2, <3>3, <3>4, <3>5, <3>6 DEF RunMove
  <2>3. FramesOK' /\ StackOK' /\ InstancesBalanced' /\ ResultOwnership'
    BY <2>1, <2>2, MoveKeepsStack, MoveKeepsInstances, MoveKeepsOwnership DEF IInv
  <2>4. RestTyped'
    BY <1>1, RunTypes DEF RunMove, RunStep, IInv
  <2>5. frame' \in [Sessions -> [1..MaxDepth -> Frame]]
    BY <2>1 DEF TopStep
  <2> QED BY <2>3, <2>4, <2>5, <1>t, TypeSplitNext DEF IInv, Base
<1>2. ASSUME NEW s \in Sessions, RunReturn(s) PROVE IInv'
  <2>1. RestTyped'
    BY <1>2, RunTypes DEF RunStep, IInv
  <2>2. frame' = [frame EXCEPT ![s][depth[s]] = NewFrame] /\ depth[s] > 0
    BY <1>2 DEF RunReturn, SetTop, At
  <2>3. frame' \in [Sessions -> [1..MaxDepth -> Frame]]
    BY <2>2, TopFrame, OneFrame DEF Renewed, IInv
  <2> QED BY <1>2, <2>1, <2>3, ReturnStep, <1>t, TypeSplitNext DEF IInv, Base
<1>3. ASSUME NEW s \in Sessions, CallerStep(s) PROVE IInv'
  <2>1. RestTyped'
    BY <1>0, <1>3, CallerTypes
  <2>2. CASE olnk_session_run(s)
    <3>1. frame' \in [Sessions -> [1..MaxDepth -> Frame]]
      BY <2>2, CallFrames DEF Renewed, IInv
    <3> QED BY <2>1, <2>2, <3>1, CallStep, <1>t, TypeSplitNext DEF IInv, Base
  <2>3. CASE olnk_link(s)
    <3>1. frame' = [frame EXCEPT ![s][1] = NewFrame] /\ 1 \in 1..MaxDepth
      BY <2>3 DEF olnk_link
    <3>2. frame' \in [Sessions -> [1..MaxDepth -> Frame]]
      BY <3>1, OneFrame DEF Renewed, IInv
    <3> QED BY <2>1, <2>3, <3>2, LinkStep, <1>t, TypeSplitNext DEF IInv, Base
  <2>4. CASE olnk_session_reset(s)
    <3>1. frame' \in [Sessions -> [1..MaxDepth -> Frame]]
      BY <2>4, ResetFrames DEF Renewed, IInv
    <3> QED BY <2>1, <2>4, <3>1, ResetStep, <1>t, TypeSplitNext DEF IInv, Base
  <2>5. CASE olnk_session_create(s) \/ SessionCopyFails(s)
               \/ olnk_session_destroy(s) \/ olnk_session_set_option(s)
    <3>1. UNCHANGED <<depth, frame, oneshot, instances, allocated, held>>
      BY <2>5 DEF olnk_session_create, SessionCopyFails, olnk_session_destroy,
                  olnk_session_set_option, NewSession, objVars, resVars
    <3>2. \A t \in Sessions : depth[t] > 0 /\ t \in live => t \in live'
      BY <2>5 DEF olnk_session_create, SessionCopyFails, olnk_session_destroy,
                  olnk_session_set_option, NewSession, FreeSession, objVars
    <3> QED BY <1>0, <2>1, <3>1, <3>2, QuietStep, QuietKeepsOwnership, <1>t, TypeSplitNext
            DEF IInv, Base
  <2> QED BY <1>3, <2>2, <2>3, <2>4, <2>5 DEF CallerStep
<1>4. ASSUME NEW r \in Results, olnk_result_destroy(r) PROVE IInv'
  <2>1. UNCHANGED <<depth, frame, oneshot, instances, live>>
    BY <1>4 DEF olnk_result_destroy, objVars
  <2>2. RestTyped'
    BY <1>0, <1>4, ContextTypes
  <2>3. ResultOwnership'
    BY <1>4, DestroyKeepsOwnership
  <2> QED BY <1>0, <2>1, <2>2, <2>3, QuietStep, <1>t, TypeSplitNext DEF IInv, Base
<1>5. CASE \/ \E l \in LogLevels : olnk_context_set_log_level(l)
           \/ \E on \in CallbackModes : olnk_context_set_log_callback(on)
           \/ \E on \in CallbackModes : olnk_context_set_diagnostic_callback(on)
           \/ EditConfig
  <2>1. UNCHANGED <<depth, frame, oneshot, instances, live, allocated, held>>
    BY <1>5 DEF olnk_context_set_log_level, olnk_context_set_log_callback,
                olnk_context_set_diagnostic_callback, EditConfig, objVars, resVars
  <2>2. RestTyped'
    BY <1>0, <1>5, ContextTypes
  <2> QED BY <1>0, <2>1, <2>2, QuietStep, QuietKeepsOwnership, <1>t, TypeSplitNext
          DEF IInv, Base
<1>6. CASE UNCHANGED vars
  <2>1. UNCHANGED <<depth, frame, oneshot, instances, live, allocated, held>>
    BY <1>6 DEF vars
  <2>2. RestTyped'
    BY <1>0, <1>6 DEF vars, RestTyped
  <2> QED BY <1>0, <2>1, <2>2, QuietStep, QuietKeepsOwnership, <1>t, TypeSplitNext
          DEF IInv, Base
<1>7. ASSUME NEW s \in Sessions, RunStep(s) \/ CallbackReturn(s)
      PROVE  RunMove(s) \/ RunReturn(s)
  BY <1>7 DEF RunStep, RunMove
<1>8. ASSUME NEW s \in Sessions, RunTerminates(s) PROVE IInv'
  <2>1. UNCHANGED <<depth, frame, oneshot, instances, live, allocated, held>>
    BY <1>8 DEF RunTerminates, objVars, resVars
  <2>2. file' \in [Paths -> Files]
    <3>1. file \in [Paths -> Files]
      BY <1>0 DEF RestTyped
    <3>2. file' \in {file, [file EXCEPT ![snapshot[s].path] = EmptyFile]}
      BY <1>8 DEF RunTerminates, Opened
    <3>3. EmptyFile \in Files
      BY DEF EmptyFile, Files
    <3> HIDE DEF Files, EmptyFile
    <3> QED BY <3>1, <3>2, <3>3
  <2>3. UNCHANGED <<ctx, config, live, lost, oneshot, snapshot, created, diags, opts,
                    depth, allocated, held, data, instances, lua>>
    BY <1>8 DEF RunTerminates, objVars, resVars
  <2>4. RestTyped'
    BY <1>0, <2>2, <2>3 DEF RestTyped
  <2> QED BY <1>0, <2>1, <2>4, QuietStep, QuietKeepsOwnership, <1>t, TypeSplitNext
          DEF IInv, Base
<1> QED BY <1>1, <1>2, <1>3, <1>4, <1>5, <1>6, <1>7, <1>8 DEF Next, Step

\* The invariant holds throughout.
LEMMA Invariance == Spec => []IInv
BY InitOK, StepOK, PTL DEF Spec

\* The objects, frames and files of the API always have their types: however
\* deep runs are nested and whichever allocation, lookup or write fails, no
\* step of api.cpp leaves a result, a definition or a size undefined.
THEOREM TypeCorrect == Spec => []TypeOK
<1>1. IInv => TypeOK
  BY DEF IInv, Base
<1> QED BY <1>1, Invariance, PTL

\* Every result of olnk_session_run has exactly one owner, for any number of
\* sessions and results and any depth of re-entry from callbacks: no early
\* return leaks a result and no result is delivered twice.
THEOREM OwnershipCorrect == Spec => []ResultOwnership
<1>1. IInv => ResultOwnership
  BY DEF IInv
<1> QED BY <1>1, Invariance, PTL

\* Every format instance that run_format_serializer creates is destroyed on
\* every way out of it, whatever other sessions and nested runs do.
THEOREM InstancesCorrect == Spec => []InstancesBalanced
<1>1. IInv => InstancesBalanced
  BY DEF IInv
<1> QED BY <1>1, Invariance, PTL

-----------------------------------------------------------------------------
(* What a run reports *)

\* No lookup in the registries L has run into an exception so far.
NoThrow(L) == \A k \in Kinds : ~L[k].threw

\* The name that a run with config c looks up in the registry k; whether
\* lookups find it or miss it from now on
NameOf(k, c) == OrDefault(IF k = "format" THEN c.format ELSE c.machine)
Found(L, k, c) ==
  matches_name(NameOf(k, c)) \/ (L[k].loaded /\ NameOf(k, c) \in L[k].names)
Missed(L, k, c) ==
  ~matches_name(NameOf(k, c)) /\ L[k].loaded /\ NameOf(k, c) \notin L[k].names

\* The cause x of a diagnostic rejects the config c now and later.
Fatal(L, x, c) ==
  \/ x = "no_input" /\ c.inputs = 0
  \/ x = "no_output" /\ c.path = Empty
  \/ x = "unknown_format" /\ Missed(L, "format", c)
  \/ x = "unknown_machine" /\ Missed(L, "machine", c)

\* What the place of a run says of its status
StatusOK(f) ==
  /\ f.pc \in {"enter", "cb_start", "begin", "check", "format", "create",
               "serialize", "flush"} => f.status = "OK"
  /\ f.pc = "machine" => f.status \in {"OK", "INVALID_ARGUMENT"}
  /\ f.pc \in {"cb_format", "cb_diag"} => f.status = "INVALID_ARGUMENT"

\* The checks that a run has behind it
PassedCheck(f) ==
  \/ f.pc \in {"format", "cb_format", "machine", "create", "serialize", "flush"}
  \/ f.pc = "finish" /\ f.status = "OK"
PassedFormat(f) ==
  f.status = "OK" /\ f.pc \in {"machine", "create", "serialize", "flush", "finish"}
PassedMachine(f) ==
  f.status = "OK" /\ f.pc \in {"create", "serialize", "flush", "finish"}

\* A run with the locals f has checked its config c as far as it got.
Checked(L, f, c) ==
  /\ StatusOK(f)
  /\ PassedCheck(f) => c.inputs > 0 /\ c.path # Empty
  /\ NoThrow(L) => /\ PassedFormat(f) => Found(L, "format", c)
                   /\ PassedMachine(f) => Found(L, "machine", c)

\* The diagnostics ds hold of the config c, those of nested runs too.
Grounded(L, ds, c) == NoThrow(L) => \A i \in 1..Len(ds) : Fatal(L, ds[i], c)

\* A run that nobody disturbed has reported one error if it rejects, else none.
Errors(status) == IF status = "INVALID_ARGUMENT" THEN 1 ELSE 0
Counted(f, ds) ==
  f.quiet /\ f.pc \in Pcs \ {"enter", "cb_done", "return"} => Len(ds) = Errors(f.status)

\* A session with a stack fr of n frames, the config c and the diagnostics ds
StackReports(L, n, fr, c, ds) ==
  /\ \A d \in 1..MaxDepth : d <= n => Checked(L, fr[d], c)
  /\ \A d \in 1..MaxDepth : d < n => ~fr[d].quiet
  /\ Grounded(L, ds, c)
  /\ n > 0 => Counted(fr[n], ds)

SessionReports(s) ==
  /\ s \in live => snapshot[s] = created[s]
  /\ StackReports(lua, depth[s], frame[s], snapshot[s], diags[s])

\* What a delivered result x says of its errors
ResultReports(L, x) ==
  /\ NoThrow(L) /\ x.status = "OK" => x.errors = 0
  /\ x.quiet => x.errors = Errors(x.status)

\* The second inductive invariant: what was checked and what was reported
ReportInv ==
  /\ \A s \in Sessions : SessionReports(s)
  /\ \A r \in held : ResultReports(lua, data[r])

\* The registries M come after L: what was loaded is never loaded again, and
\* exceptions are not forgotten.
Grows(L, M) ==
  NoThrow(M) => NoThrow(L) /\ \A k \in Kinds : L[k].loaded => M[k] = L[k]

\* Frames that say the same of a run
Alike(f, g) == f.pc = g.pc /\ f.status = g.status /\ f.quiet = g.quiet

\* What a run has checked stays checked as the registries grow.
LEMMA CheckedGrows ==
  ASSUME NEW L, NEW M, Grows(L, M), NEW f, NEW g, NEW c, Checked(L, f, c),
         g.pc = f.pc, g.status = f.status
  PROVE  Checked(M, g, c)
<1>1. NoThrow(M) => \A k \in Kinds : Found(L, k, c) => Found(M, k, c)
  BY DEF Grows, Found
<1>2. /\ StatusOK(g) <=> StatusOK(f)
      /\ PassedCheck(g) <=> PassedCheck(f)
      /\ PassedFormat(g) <=> PassedFormat(f)
      /\ PassedMachine(g) <=> PassedMachine(f)
  BY DEF StatusOK, PassedCheck, PassedFormat, PassedMachine
<1>3. "format" \in Kinds /\ "machine" \in Kinds
  BY DEF Kinds
<1>4. NoThrow(M) => NoThrow(L)
  BY DEF Grows
<1> QED BY <1>1, <1>2, <1>3, <1>4 DEF Checked

\* What was reported stays true as the registries grow.
LEMMA GroundedGrows ==
  ASSUME NEW L, NEW M, Grows(L, M), NEW ds, NEW c, Grounded(L, ds, c)
  PROVE  Grounded(M, ds, c)
<1> SUFFICES ASSUME NoThrow(M), NEW i \in 1..Len(ds) PROVE Fatal(M, ds[i], c)
  BY DEF Grounded
<1>1. Fatal(L, ds[i], c)
  BY DEF Grounded, Grows
<1>2. \A k \in Kinds : Missed(L, k, c) => Missed(M, k, c)
  BY DEF Grows, Missed
<1>3. "format" \in Kinds /\ "machine" \in Kinds
  BY DEF Kinds
<1> QED BY <1>1, <1>2, <1>3 DEF Fatal

\* A delivered result stays true.
LEMMA ResultGrows ==
  ASSUME NEW L, NEW M, Grows(L, M), NEW x, ResultReports(L, x)
  PROVE  ResultReports(M, x)
BY DEF ResultReports, Grows

\* A session that does not step
LEMMA StackRests ==
  ASSUME NEW L, NEW M, Grows(L, M), NEW n, NEW fr, NEW gr, NEW c, NEW ds,
         n \in 0..MaxDepth, StackReports(L, n, fr, c, ds),
         \A d \in 1..MaxDepth : Alike(gr[d], fr[d])
  PROVE  StackReports(M, n, gr, c, ds)
<1>1. \A d \in 1..MaxDepth : d <= n => Checked(M, gr[d], c)
  BY CheckedGrows DEF StackReports, Alike
<1>2. \A d \in 1..MaxDepth : d < n => ~gr[d].quiet
  BY DEF StackReports, Alike
<1>3. Grounded(M, ds, c)
  BY GroundedGrows DEF StackReports
<1>4. n > 0 => Counted(gr[n], ds)
  <2>1. n > 0 => n \in 1..MaxDepth
    OBVIOUS
  <2> QED BY <2>1 DEF StackReports, Alike, Counted
<1> QED BY <1>1, <1>2, <1>3, <1>4 DEF StackReports

\* The top frame of a session moves to f, and its diagnostics to es.
LEMMA StackMoves ==
  ASSUME NEW L, NEW M, Grows(L, M), NEW n, NEW fr, NEW gr, NEW c, NEW ds, NEW es,
         n \in 1..MaxDepth, StackReports(L, n, fr, c, ds),
         \A d \in 1..MaxDepth : d # n => Alike(gr[d], fr[d]),
         Checked(M, gr[n], c), Grounded(M, es, c), Counted(gr[n], es)
  PROVE  StackReports(M, n, gr, c, es)
<1>1. \A d \in 1..MaxDepth : d <= n => Checked(M, gr[d], c)
  BY CheckedGrows DEF StackReports, Alike
<1>2. \A d \in 1..MaxDepth : d < n => ~gr[d].quiet
  BY DEF StackReports, Alike
<1> QED BY <1>1, <1>2 DEF StackReports

\* A run is called: the frames below it are disturbed, the new one is at its
\* beginning.
LEMMA StackPushed ==
  ASSUME NEW L, NEW n, NEW fr, NEW gr, NEW c, NEW ds,
         n \in 0..MaxDepth, n + 1 \in 1..MaxDepth, StackReports(L, n, fr, c, ds),
         \A d \in 1..MaxDepth :
           d <= n => Agree(gr[d], fr[d]) /\ ~gr[d].quiet,
         gr[n + 1] = NewFrame
  PROVE  StackReports(L, n + 1, gr, c, ds)
<1>0. Grows(L, L)
  BY DEF Grows
<1>1. Checked(L, NewFrame, c) /\ Counted(NewFrame, ds)
  BY DEF Checked, Counted, NewFrame, StatusOK, PassedCheck, PassedFormat,
         PassedMachine
<1>2. \A d \in 1..MaxDepth : d <= n => Checked(L, gr[d], c)
  BY <1>0, CheckedGrows DEF StackReports, Agree
<1>3. \A d \in 1..MaxDepth : d <= n + 1 => d <= n \/ d = n + 1
  OBVIOUS
<1>4. \A d \in 1..MaxDepth : d < n + 1 => d <= n
  OBVIOUS
<1> QED BY <1>1, <1>2, <1>3, <1>4 DEF StackReports

\* The frames are marked as disturbed and the diagnostics cleared.
LEMMA StackCleared ==
  ASSUME NEW L, NEW n, NEW fr, NEW gr, NEW c, NEW ds,
         n \in 0..MaxDepth, StackReports(L, n, fr, c, ds),
         \A d \in 1..MaxDepth :
           d <= n => Agree(gr[d], fr[d]) /\ ~gr[d].quiet
  PROVE  StackReports(L, n, gr, c, << >>)
<1>0. Grows(L, L)
  BY DEF Grows
<1>1. \A d \in 1..MaxDepth : d <= n => Checked(L, gr[d], c)
  BY <1>0, CheckedGrows DEF StackReports, Agree
<1>2. \A d \in 1..MaxDepth : d < n => ~gr[d].quiet
  OBVIOUS
<1>3. Grounded(L, << >>, c)
  BY DEF Grounded
<1>4. n > 0 => Counted(gr[n], << >>)
  <2>1. n > 0 => n \in 1..MaxDepth /\ n <= n
    OBVIOUS
  <2> QED BY <2>1 DEF Counted
<1> QED BY <1>1, <1>2, <1>3, <1>4 DEF StackReports

\* A run returns: the frame below was disturbed by it.
LEMMA StackPopped ==
  ASSUME NEW L, NEW n, NEW fr, NEW gr, NEW c, NEW ds,
         n \in 1..MaxDepth, StackReports(L, n, fr, c, ds),
         \A d \in 1..MaxDepth : d < n => gr[d] = fr[d]
  PROVE  StackReports(L, n - 1, gr, c, ds)
<1>1. \A d \in 1..MaxDepth : d <= n - 1 => d < n /\ d <= n
  OBVIOUS
<1>2. \A d \in 1..MaxDepth : d < n - 1 => d < n
  OBVIOUS
<1>3. n - 1 > 0 => n - 1 \in 1..MaxDepth /\ n - 1 < n
  OBVIOUS
<1>4. n - 1 > 0 => Counted(gr[n - 1], ds)
  BY <1>3 DEF StackReports, Counted
<1> QED BY <1>1, <1>2, <1>4 DEF StackReports

\* A session without runs and diagnostics
LEMMA StackEmpty ==
  ASSUME NEW L, NEW gr, NEW c
  PROVE  StackReports(L, 0, gr, c, << >>)
BY DEF StackReports, Grounded

\* The session of olnk_link at its beginning
LEMMA StackFirst ==
  ASSUME NEW L, NEW gr, NEW c, gr[1] = NewFrame
  PROVE  StackReports(L, 1, gr, c, << >>)
<1>1. Checked(L, NewFrame, c) /\ Counted(NewFrame, << >>)
  BY DEF Checked, Counted, NewFrame, StatusOK, PassedCheck, PassedFormat,
         PassedMachine
<1>2. \A d \in 1..MaxDepth : (d <= 1 => d = 1) /\ ~(d < 1)
  OBVIOUS
<1> QED BY <1>1, <1>2 DEF StackReports, Grounded

-----------------------------------------------------------------------------
(* The registries grow *)

\* A lookup of n in the registry k: unless it threw, what was loaded stays as it
\* was, and the answer is the one every later lookup gives.
LEMMA LookupGrows ==
  ASSUME TypeOK, NEW k \in Kinds, NEW n, NEW look \in Lookups(k, n),
         lua' = [lua EXCEPT ![k] = look.reg]
  PROVE  /\ Grows(lua, lua')
         /\ NoThrow(lua') => IF look.found
              THEN matches_name(n) \/ (lua'[k].loaded /\ n \in lua'[k].names)
              ELSE ~matches_name(n) /\ lua'[k].loaded /\ n \notin lua'[k].names
<1>1. lua \in [Kinds -> Registry]
  BY DEF TypeOK, Registry
<1>2. /\ lua'[k] = look.reg
      /\ \A j \in Kinds : j # k => lua'[j] = lua[j]
  BY <1>1
<1>3. CASE matches_name(n)
  <2>1. look = [reg |-> lua[k], found |-> TRUE]
    BY <1>3 DEF Lookups
  <2>2. \A j \in Kinds : lua'[j] = lua[j]
    BY <1>2, <2>1
  <2> QED BY <1>3, <2>1, <2>2 DEF Grows, NoThrow
<1>4. CASE ~matches_name(n) /\ look \in {[reg |-> r, found |-> n \in r.names] :
                                            r \in AfterLoad(lua[k])}
  <2>1. PICK r \in AfterLoad(lua[k]) : look = [reg |-> r, found |-> n \in r.names]
    BY <1>4
  <2>2. look.reg = r /\ look.found = (n \in r.names)
    BY <2>1
  <2>3. r.loaded /\ r.threw = lua[k].threw /\ (lua[k].loaded => r = lua[k])
    <3>1. CASE lua[k].loaded
      BY <3>1 DEF AfterLoad
    <3>2. CASE ~lua[k].loaded
      <4>1. PICK reg \in Registry : reg = lua[k]
        BY <1>1
      <4>2. PICK readable \in SUBSET LuaNames :
              r = [reg EXCEPT !.loaded = TRUE, !.names = reg.names \cup readable]
        BY <3>2, <4>1 DEF AfterLoad, Loads
      <4>3. r.loaded = TRUE /\ r.threw = reg.threw
        BY <4>2 DEF Registry
      <4> QED BY <3>2, <4>1, <4>3
    <3> QED BY <3>1, <3>2
  <2>4. Grows(lua, lua')
    <3> SUFFICES ASSUME NoThrow(lua')
                 PROVE  NoThrow(lua) /\ \A j \in Kinds : lua[j].loaded => lua'[j] = lua[j]
      BY DEF Grows
    <3>1. \A j \in Kinds : ~lua[j].threw
      BY <1>2, <2>2, <2>3 DEF NoThrow
    <3>2. \A j \in Kinds : lua[j].loaded => lua'[j] = lua[j]
      BY <1>2, <2>2, <2>3
    <3> QED BY <3>1, <3>2 DEF NoThrow
  <2> QED BY <1>2, <1>4, <2>2, <2>3, <2>4
<1>5. CASE look \in {[reg |-> r, found |-> FALSE] : r \in Throws(lua[k])}
  <2>1. PICK r \in Throws(lua[k]) : look = [reg |-> r, found |-> FALSE]
    BY <1>5
  <2>2. PICK q \in AfterLoad(lua[k]) :
          \/ r = [q EXCEPT !.loaded = lua[k].loaded, !.threw = TRUE]
          \/ r = [q EXCEPT !.threw = TRUE]
    BY DEF Throws
  <2>3. q \in Registry
    BY <1>1, AfterLoadTyped
  <2>4. r.threw = TRUE
    BY <2>2, <2>3 DEF Registry
  <2>5. ~NoThrow(lua')
    BY <1>2, <2>1, <2>4 DEF NoThrow
  <2> QED BY <2>5 DEF Grows
<1> QED BY <1>3, <1>4, <1>5 DEF Lookups

\* The registries stay as they are.
LEMMA GrowsSame == lua' = lua => Grows(lua, lua')
BY DEF Grows

-----------------------------------------------------------------------------
(* What a move of a run reports *)

\* The top frame of s moves to f, with everything the invariant asks of it.
ReportsMove(s, f) ==
  /\ depth[s] \in 1..MaxDepth
  /\ frame'[s][depth[s]] = f
  /\ \A t \in Sessions, e \in 1..MaxDepth :
       t # s \/ e # depth[s] => Alike(frame'[t][e], frame[t][e])
  /\ UNCHANGED <<depth, live, snapshot, created>>
  /\ \A t \in Sessions : t # s => diags'[t] = diags[t]
  /\ Grows(lua, lua')
  /\ Checked(lua', f, snapshot[s])
  /\ Grounded(lua', diags'[s], snapshot[s])
  /\ Counted(f, diags'[s])
  /\ \A r \in held' : (r \in held /\ data'[r] = data[r]) \/ ResultReports(lua', data'[r])

\* Such a move keeps the invariant.
LEMMA MoveKeepsReports ==
  ASSUME Base, ReportInv, NEW s \in Sessions, NEW f, ReportsMove(s, f)
  PROVE  ReportInv'
<1>1. ASSUME NEW t \in Sessions PROVE SessionReports(t)'
  <2>1. SessionReports(t) /\ depth[t] \in 0..MaxDepth
    BY DEF ReportInv, Base, TypeOK
  <2>2. (t \in live => snapshot[t] = created[t])'
    BY <2>1 DEF SessionReports, ReportsMove
  <2>3. Grows(lua, lua')
    BY DEF ReportsMove
  <2>4. StackReports(lua, depth[t], frame[t], snapshot[t], diags[t])
    BY <2>1 DEF SessionReports
  <2>5. CASE t # s
    <3>1. \A d \in 1..MaxDepth : Alike(frame'[t][d], frame[t][d])
      BY <2>5 DEF ReportsMove
    <3>2. StackReports(lua', depth[t], frame'[t], snapshot[t], diags[t])
      BY <2>1, <2>3, <2>4, <3>1, StackRests
    <3>3. depth'[t] = depth[t] /\ snapshot'[t] = snapshot[t] /\ diags'[t] = diags[t]
      BY <2>5 DEF ReportsMove
    <3> QED BY <2>2, <3>2, <3>3 DEF SessionReports
  <2>6. CASE t = s
    <3>1. \A d \in 1..MaxDepth : d # depth[s] => Alike(frame'[s][d], frame[s][d])
      BY DEF ReportsMove
    <3>2. /\ depth[s] \in 1..MaxDepth
          /\ Checked(lua', frame'[s][depth[s]], snapshot[s])
          /\ Grounded(lua', diags'[s], snapshot[s])
          /\ Counted(frame'[s][depth[s]], diags'[s])
      BY DEF ReportsMove
    <3>3. StackReports(lua', depth[s], frame'[s], snapshot[s], diags'[s])
      BY <2>3, <2>4, <2>6, <3>1, <3>2, StackMoves
    <3>4. depth'[s] = depth[s] /\ snapshot'[s] = snapshot[s]
      BY DEF ReportsMove
    <3> QED BY <2>2, <2>6, <3>3, <3>4 DEF SessionReports
  <2> QED BY <2>5, <2>6
<1>2. ASSUME NEW r \in held' PROVE ResultReports(lua, data[r])'
  <2>1. CASE r \in held /\ data'[r] = data[r]
    <3>1. ResultReports(lua, data[r]) /\ Grows(lua, lua')
      BY <2>1 DEF ReportInv, ReportsMove
    <3>2. ResultReports(lua', data[r])
      BY <3>1, ResultGrows
    <3> QED BY <2>1, <3>2
  <2>2. CASE ResultReports(lua', data'[r])
    BY <2>2
  <2> QED BY <2>1, <2>2 DEF ReportsMove
<1> QED BY <1>1, <1>2 DEF ReportInv

\* SetTop leaves every other frame untouched.
LEMMA SetTopExact ==
  ASSUME Base, NEW s \in Sessions, depth[s] > 0, NEW f \in Frame, SetTop(s, f)
  PROVE  /\ depth[s] \in 1..MaxDepth
         /\ frame'[s][depth[s]] = f
         /\ \A t \in Sessions, e \in 1..MaxDepth :
              t # s \/ e # depth[s] => frame'[t][e] = frame[t][e]
<1>1. /\ frame \in [Sessions -> [1..MaxDepth -> Frame]]
      /\ depth[s] \in 1..MaxDepth
  BY DEF Base, TypeOK
<1>2. frame' = [frame EXCEPT ![s][depth[s]] = f]
  BY DEF SetTop
<1> HIDE DEF Frame
<1> QED BY <1>1, <1>2

\* What the invariant says of the top frame of a running session
LEMMA TopReports ==
  ASSUME Base, ReportInv, NEW s \in Sessions, depth[s] > 0
  PROVE  /\ Top(s) \in Frame /\ depth[s] \in 1..MaxDepth
         /\ Checked(lua, Top(s), snapshot[s])
         /\ Grounded(lua, diags[s], snapshot[s])
         /\ Counted(Top(s), diags[s])
         /\ snapshot[s] \in Config /\ diags[s] \in Seq(Causes)
<1>1. depth[s] \in 1..MaxDepth /\ Top(s) \in Frame
  BY TopFrame
<1>2. StackReports(lua, depth[s], frame[s], snapshot[s], diags[s])
  BY DEF ReportInv, SessionReports
<1>3. snapshot[s] \in Config /\ diags[s] \in Seq(Causes)
  BY DEF Base, TypeOK
<1>4. depth[s] <= depth[s]
  BY <1>1
<1>5. Checked(lua, frame[s][depth[s]], snapshot[s])
  BY <1>1, <1>2, <1>4 DEF StackReports
<1>6. Grounded(lua, diags[s], snapshot[s]) /\ Counted(frame[s][depth[s]], diags[s])
  BY <1>2 DEF StackReports
<1> QED BY <1>1, <1>3, <1>5, <1>6 DEF Top

\* A move by SetTop
LEMMA SetTopReports ==
  ASSUME Base, NEW s \in Sessions, depth[s] > 0, NEW f \in Frame, SetTop(s, f),
         UNCHANGED <<depth, live, snapshot, created>>,
         \A t \in Sessions : t # s => diags'[t] = diags[t],
         Grows(lua, lua'), Checked(lua', f, snapshot[s]),
         Grounded(lua', diags'[s], snapshot[s]), Counted(f, diags'[s]),
         \A r \in held' : (r \in held /\ data'[r] = data[r])
                            \/ ResultReports(lua', data'[r])
  PROVE  ReportsMove(s, f)
BY SetTopExact DEF ReportsMove, Alike

\* A move that neither looks anything up nor reports anything
LEMMA SilentReports ==
  ASSUME Base, ReportInv, NEW s \in Sessions, depth[s] > 0, NEW f \in Frame,
         SetTop(s, f), UNCHANGED <<depth, live, snapshot, created, diags, lua>>,
         Checked(lua, f, snapshot[s]), Counted(f, diags[s]),
         \A r \in held' : (r \in held /\ data'[r] = data[r])
                            \/ ResultReports(lua, data'[r])
  PROVE  ReportsMove(s, f)
<1>1. Grounded(lua, diags[s], snapshot[s])
  BY TopReports
<1> QED BY <1>1, GrowsSame, SetTopReports

\* Diagnose of a cause that rejects the config: the run had reported nothing.
LEMMA DiagnoseReports ==
  ASSUME Base, ReportInv, NEW s \in Sessions, depth[s] > 0,
         NEW cause \in Causes, NEW cb \in {"cb_format", "cb_diag"},
         NEW next \in {"machine", "finish"},
         cb = "cb_format" <=> next = "machine",
         Top(s).pc \in {"check", "format", "machine"}, Top(s).status = "OK",
         Diagnose(s, Top(s), cause, cb, next),
         UNCHANGED <<depth, live, snapshot, created>>, Grows(lua, lua'),
         NoThrow(lua') => Fatal(lua', cause, snapshot[s]),
         cb = "cb_format" => Top(s).pc = "format"
  PROVE  \E f \in Frame : ReportsMove(s, f)
<1>t. /\ Top(s) \in Frame /\ depth[s] \in 1..MaxDepth
      /\ Checked(lua, Top(s), snapshot[s])
      /\ Grounded(lua, diags[s], snapshot[s])
      /\ Counted(Top(s), diags[s])
      /\ diags[s] \in Seq(Causes)
  BY TopReports
<1>d. diags \in [Sessions -> Seq(Causes)]
  BY DEF Base, TypeOK
<1>1. CASE Abandon(s, Top(s))
  <2> DEFINE f == [Top(s) EXCEPT !.pc = "return", !.res = NoResult,
                                 !.status = "OUT_OF_MEMORY"]
  <2>1. f \in Frame /\ f.pc = "return" /\ f.status = "OUT_OF_MEMORY"
    BY <1>t DEF Frame, Pcs, Statuses
  <2>2. SetTop(s, f) /\ UNCHANGED <<held, data, diags>>
    BY <1>1 DEF Abandon
  <2> HIDE DEF f
  <2>3. Checked(lua', f, snapshot[s]) /\ Counted(f, diags[s])
    BY <2>1 DEF Checked, Counted, StatusOK, PassedCheck, PassedFormat, PassedMachine
  <2>4. Grounded(lua', diags[s], snapshot[s])
    BY <1>t, GroundedGrows
  <2> QED BY <2>1, <2>2, <2>3, <2>4, SetTopReports
<1>2. CASE ~Abandon(s, Top(s))
  <2> DEFINE f == [Top(s) EXCEPT !.pc = IF ctx.diag_cb THEN cb ELSE next,
                                 !.status = "INVALID_ARGUMENT"]
             es == Append(diags[s], cause)
  <2>1. f \in Frame /\ f.pc \in {cb, next} /\ f.quiet = Top(s).quiet
          /\ f.status = "INVALID_ARGUMENT"
    BY <1>t DEF Frame, Pcs, Statuses, Callbacks
  <2>2. SetTop(s, f) /\ UNCHANGED <<held, data>>
          /\ diags' = [diags EXCEPT ![s] = es]
    BY <1>2 DEF Diagnose
  <2>3. es \in Seq(Causes) /\ Len(es) = Len(diags[s]) + 1 /\ es[Len(es)] = cause
          /\ \A i \in 1..Len(diags[s]) : es[i] = diags[s][i]
    <3> HIDE DEF Causes
    <3> QED BY <1>t
  <2> HIDE DEF es, f
  <2>4. diags'[s] = es /\ \A t \in Sessions : t # s => diags'[t] = diags[t]
    <3> HIDE DEF Causes
    <3> QED BY <1>d, <2>2
  <2>5. Checked(lua', f, snapshot[s])
    <3>1. PassedCheck(f) => PassedCheck(Top(s))
      BY <2>1 DEF PassedCheck
    <3>2. StatusOK(f) /\ ~PassedFormat(f) /\ ~PassedMachine(f)
      BY <2>1 DEF StatusOK, PassedFormat, PassedMachine
    <3> QED BY <1>t, <3>1, <3>2 DEF Checked
  <2>6. Grounded(lua', es, snapshot[s])
    <3>1. Grounded(lua', diags[s], snapshot[s])
      BY <1>t, GroundedGrows
    <3>2. Len(diags[s]) \in Nat
      BY <1>t
    <3>3. \A i \in 1..Len(es) : i \in 1..Len(diags[s]) \/ i = Len(es)
      BY <2>3, <3>2
    <3> QED BY <2>3, <3>1, <3>3 DEF Grounded
  <2>7. Counted(f, es)
    <3>1. Counted(Top(s), diags[s]) /\ Top(s).pc \in Pcs \ {"enter", "cb_done", "return"}
      BY <1>t DEF Pcs
    <3>2. Top(s).quiet => Len(diags[s]) = 0
      BY <3>1 DEF Counted, Errors
    <3> QED BY <2>1, <2>3, <3>2 DEF Counted, Errors
  <2> QED BY <2>1, <2>2, <2>4, <2>5, <2>6, <2>7, SetTopReports
<1> QED BY <1>1, <1>2

\* Session t is between opening and closing the path of s.
WritesPathOf(s, t) == t # s /\ At(t, "flush") /\ snapshot[t].path = snapshot[s].path

\* s has opened its output: f is its frame, and the runs that write the same
\* path are no longer alone with it.
OpensOutput(s, f) ==
  /\ f.pc = "flush" /\ f.status = Top(s).status /\ f.quiet = Top(s).quiet
  /\ f.sole <=> \A u \in Sessions : ~WritesPathOf(s, u)
  /\ frame'[s][depth[s]] = f
  /\ \A t \in Sessions, e \in 1..MaxDepth :
       t # s \/ e # depth[s] =>
         /\ Alike(frame'[t][e], frame[t][e])
         /\ IF WritesPathOf(s, t) /\ e = depth[t] THEN ~frame'[t][e].sole
                                                  ELSE frame'[t][e] = frame[t][e]
  /\ file' = [file EXCEPT ![snapshot[s].path] = EmptyFile]

\* RunOpenOutput fails or does that.
LEMMA OpenFrames ==
  ASSUME Base, NEW s \in Sessions, RunOpenOutput(s),
         ~SetTop(s, [Top(s) EXCEPT !.pc = "finish", !.status = "IO_ERROR"])
  PROVE  \E f \in Frame : OpensOutput(s, f)
<1>t. Top(s) \in Frame /\ depth[s] \in 1..MaxDepth /\ depth[s] > 0
  BY TopFrame DEF RunOpenOutput, At
<1> DEFINE f == [Top(s) EXCEPT !.pc = "flush",
                               !.sole = \A u \in Sessions : ~WritesPathOf(s, u)]
           F(t, d) == IF t = s /\ d = depth[s] THEN f
                      ELSE IF WritesPathOf(s, t) /\ d = depth[t]
                             THEN [Top(t) EXCEPT !.sole = FALSE]
                             ELSE frame[t][d]
<1>1. frame' = [t \in Sessions |-> [d \in 1..MaxDepth |-> F(t, d)]]
        /\ file' = [file EXCEPT ![snapshot[s].path] = EmptyFile]
  BY DEF RunOpenOutput, WritesPathOf, Opened
<1>2. f \in Frame /\ f.pc = "flush" /\ f.status = Top(s).status
        /\ f.quiet = Top(s).quiet /\ f.sole = (\A u \in Sessions : ~WritesPathOf(s, u))
  BY <1>t DEF Frame, Pcs
<1>3. ASSUME NEW t \in Sessions, NEW d \in 1..MaxDepth, t # s \/ d # depth[s]
      PROVE  /\ Alike(F(t, d), frame[t][d])
             /\ IF WritesPathOf(s, t) /\ d = depth[t] THEN ~F(t, d).sole
                                                      ELSE F(t, d) = frame[t][d]
  <2>1. frame[t][d] \in Frame
    BY DEF Base, TypeOK
  <2>2. CASE WritesPathOf(s, t) /\ d = depth[t]
    <3>1. F(t, d) = [frame[t][d] EXCEPT !.sole = FALSE]
      BY <1>3, <2>2 DEF Top
    <3>2. /\ Alike([frame[t][d] EXCEPT !.sole = FALSE], frame[t][d])
          /\ ~[frame[t][d] EXCEPT !.sole = FALSE].sole
      BY <2>1 DEF Frame, Alike
    <3> HIDE DEF F
    <3> QED BY <2>2, <3>1, <3>2
  <2>3. CASE ~(WritesPathOf(s, t) /\ d = depth[t])
    <3>1. F(t, d) = frame[t][d]
      BY <1>3, <2>3
    <3> QED BY <2>3, <3>1 DEF Alike
  <2> QED BY <2>2, <2>3
<1>4. F(s, depth[s]) = f
  OBVIOUS
<1> HIDE DEF F, f
<1>5. \A t \in Sessions, d \in 1..MaxDepth : frame'[t][d] = F(t, d)
  BY <1>1
<1>6. frame'[s][depth[s]] = f
  BY <1>t, <1>4, <1>5
<1>7. \A t \in Sessions, e \in 1..MaxDepth :
        t # s \/ e # depth[s] =>
          /\ Alike(frame'[t][e], frame[t][e])
          /\ IF WritesPathOf(s, t) /\ e = depth[t] THEN ~frame'[t][e].sole
                                                   ELSE frame'[t][e] = frame[t][e]
  BY <1>3, <1>5
<1>8. f.sole <=> \A u \in Sessions : ~WritesPathOf(s, u)
  BY <1>2
<1>9. OpensOutput(s, f)
  BY <1>1, <1>2, <1>6, <1>7, <1>8, Zenon DEF OpensOutput
<1> QED BY <1>2, <1>9

\* Every step of a run before its return, and the return of a callback, is such
\* a move.
LEMMA MovesReport ==
  ASSUME IInv, ReportInv, NEW s \in Sessions, RunMove(s)
  PROVE  \E f \in Frame : ReportsMove(s, f)
<1> USE DEF At
<1>b. Base /\ held \subseteq allocated
  BY DEF IInv, ResultOwnership
<1>0. depth[s] > 0
  BY DEF RunMove, RunEnter, RunMakeResult, RunMakeResultFails, RunCheck,
         RunFindFormat, RunFindMachine, RunCreateInstance, RunOpenOutput,
         RunFlushOutput, RunFinish, CallbackReturn, InCallback
<1>t. /\ Top(s) \in Frame /\ depth[s] \in 1..MaxDepth
      /\ Checked(lua, Top(s), snapshot[s])
      /\ Grounded(lua, diags[s], snapshot[s])
      /\ Counted(Top(s), diags[s])
      /\ snapshot[s] \in Config /\ diags[s] \in Seq(Causes)
  BY <1>b, <1>0, TopReports
<1>s. StatusOK(Top(s)) /\ (PassedCheck(Top(s)) =>
                             snapshot[s].inputs > 0 /\ snapshot[s].path # Empty)
  BY <1>t DEF Checked
<1>d. diags \in [Sessions -> Seq(Causes)]
  BY <1>b DEF Base, TypeOK
<1>1. CASE RunEnter(s)
  <2> DEFINE f == [Top(s) EXCEPT
                     !.pc = IF EmitsLog(LogInfo) THEN "cb_start" ELSE "begin"]
  <2>1. f \in Frame /\ f.pc \in {"cb_start", "begin"} /\ f.status = Top(s).status
    BY <1>t DEF Frame, Pcs, Callbacks
  <2>2. Top(s).pc = "enter" /\ SetTop(s, f) /\ diags' = [diags EXCEPT ![s] = << >>]
          /\ UNCHANGED <<depth, live, snapshot, created, held, data, lua>>
    BY <1>1 DEF RunEnter, objVars, resVars
  <2>3. f.status = "OK"
    BY <1>s, <2>1, <2>2 DEF StatusOK
  <2> HIDE DEF f
  <2>4. diags'[s] = << >> /\ \A t \in Sessions : t # s => diags'[t] = diags[t]
    <3> HIDE DEF Causes
    <3> QED BY <1>d, <2>2
  <2>5. Checked(lua, f, snapshot[s])
    BY <2>1, <2>3 DEF Checked, StatusOK, PassedCheck, PassedFormat, PassedMachine
  <2>6. Grounded(lua, << >>, snapshot[s]) /\ Counted(f, << >>)
    BY <2>3 DEF Grounded, Counted, Errors
  <2>7. ReportsMove(s, f)
    BY <1>b, <1>0, <2>1, <2>2, <2>4, <2>5, <2>6, GrowsSame, SetTopReports
  <2> QED BY <2>1, <2>7
<1>2. CASE RunMakeResult(s)
  <2>1. PICK r \in Results \ allocated :
          /\ data' = [data EXCEPT ![r] = NoData]
          /\ SetTop(s, [Top(s) EXCEPT !.pc = "check", !.res = r])
    BY <1>2 DEF RunMakeResult
  <2> DEFINE f == [Top(s) EXCEPT !.pc = "check", !.res = r]
  <2>2. f \in Frame /\ f.pc = "check" /\ f.status = Top(s).status
          /\ f.quiet = Top(s).quiet
    BY <1>t DEF Frame, Pcs
  <2>3. Top(s).pc = "begin" /\ held' = held
          /\ UNCHANGED <<depth, live, snapshot, created, diags, lua>>
    BY <1>2 DEF RunMakeResult, objVars
  <2>4. SetTop(s, f)
    BY <2>1
  <2> HIDE DEF f
  <2>5. f.status = "OK"
    BY <1>s, <2>2, <2>3 DEF StatusOK
  <2>6. Checked(lua, f, snapshot[s])
    BY <2>2, <2>5 DEF Checked, StatusOK, PassedCheck, PassedFormat, PassedMachine
  <2>7. Counted(f, diags[s])
    BY <1>t, <2>2, <2>3 DEF Counted, Pcs
  <2>8. data \in [Results -> ResultData]
    BY <1>b DEF Base, TypeOK
  <2>9. \A q \in held' : q \in held /\ data'[q] = data[q]
    <3> SUFFICES ASSUME NEW q \in held PROVE data'[q] = data[q]
      BY <2>3
    <3>1. q # r /\ q \in Results
      BY <1>b DEF Base, TypeOK
    <3> HIDE DEF ResultData
    <3> QED BY <2>1, <2>8, <3>1
  <2>10. ReportsMove(s, f)
    BY <1>b, <1>0, <2>2, <2>3, <2>4, <2>6, <2>7, <2>9, SilentReports
  <2> QED BY <2>2, <2>10
<1>3. CASE RunMakeResultFails(s)
  <2> DEFINE f == [Top(s) EXCEPT !.pc = "return", !.status = "OUT_OF_MEMORY"]
  <2>1. f \in Frame /\ f.pc = "return" /\ f.status = "OUT_OF_MEMORY"
    BY <1>t DEF Frame, Pcs, Statuses
  <2>2. SetTop(s, f)
          /\ UNCHANGED <<depth, live, snapshot, created, diags, lua, held, data>>
    BY <1>3 DEF RunMakeResultFails, objVars, resVars
  <2> HIDE DEF f
  <2>3. Checked(lua, f, snapshot[s]) /\ Counted(f, diags[s])
    BY <2>1 DEF Checked, Counted, StatusOK, PassedCheck, PassedFormat, PassedMachine
  <2>4. ReportsMove(s, f)
    BY <1>b, <1>0, <2>1, <2>2, <2>3, SilentReports
  <2> QED BY <2>1, <2>4
<1>4. CASE RunCheck(s)
  <2>1. UNCHANGED <<depth, live, snapshot, created, lua>> /\ Top(s).pc = "check"
    BY <1>4 DEF RunCheck, objVars
  <2>2. Top(s).status = "OK" /\ Grows(lua, lua')
    BY <1>s, <2>1, GrowsSame DEF StatusOK
  <2>3. ASSUME NEW c \in Causes, Fatal(lua, c, snapshot[s]),
               Diagnose(s, Top(s), c, "cb_diag", "finish")
        PROVE  \E f \in Frame : ReportsMove(s, f)
    BY <1>b, <1>0, <2>1, <2>2, <2>3, DiagnoseReports
  <2>4. CASE snapshot[s].inputs = 0 /\ Diagnose(s, Top(s), "no_input", "cb_diag", "finish")
    BY <2>3, <2>4 DEF Fatal, Causes
  <2>5. CASE snapshot[s].path = Empty
               /\ Diagnose(s, Top(s), "no_output", "cb_diag", "finish")
    BY <2>3, <2>5 DEF Fatal, Causes
  <2>6. CASE /\ snapshot[s].inputs > 0 /\ snapshot[s].path # Empty
             /\ SetTop(s, [Top(s) EXCEPT !.pc = "format"])
             /\ UNCHANGED <<diags, resVars>>
    <3> DEFINE f == [Top(s) EXCEPT !.pc = "format"]
    <3>1. f \in Frame /\ f.pc = "format" /\ f.status = Top(s).status
            /\ f.quiet = Top(s).quiet
      BY <1>t DEF Frame, Pcs
    <3>2. SetTop(s, f) /\ UNCHANGED <<diags, held, data>>
      BY <2>6 DEF resVars
    <3> HIDE DEF f
    <3>3. Checked(lua, f, snapshot[s])
      BY <2>2, <2>6, <3>1 DEF Checked, StatusOK, PassedCheck, PassedFormat, PassedMachine
    <3>4. Counted(f, diags[s])
      BY <1>t, <2>1, <3>1 DEF Counted, Pcs
    <3>5. ReportsMove(s, f)
      BY <1>b, <1>0, <2>1, <3>1, <3>2, <3>3, <3>4, SilentReports
    <3> QED BY <3>1, <3>5
  <2> QED BY <1>4, <2>4, <2>5, <2>6 DEF RunCheck
<1>5. CASE RunFindFormat(s)
  <2> DEFINE n == OrDefault(snapshot[s].format)
  <2>1. UNCHANGED <<depth, live, snapshot, created>> /\ Top(s).pc = "format"
    BY <1>5 DEF RunFindFormat, objVars
  <2>2. PICK look \in Lookups("format", n) :
          /\ lua' = [lua EXCEPT !["format"] = look.reg]
          /\ \/ /\ look.found
                /\ SetTop(s, [Top(s) EXCEPT !.pc = "machine", !.def = DefOf[n]])
                /\ UNCHANGED <<diags, resVars>>
             \/ /\ ~look.found
                /\ Diagnose(s, Top(s), "unknown_format", "cb_format", "machine")
    BY <1>5 DEF RunFindFormat
  <2>3. n = NameOf("format", snapshot[s]) /\ "format" \in Kinds
    BY DEF NameOf, Kinds
  <2>4. /\ Grows(lua, lua')
        /\ NoThrow(lua') => IF look.found THEN Found(lua', "format", snapshot[s])
                                          ELSE Missed(lua', "format", snapshot[s])
    <3> HIDE DEF n
    <3>1. TypeOK
      BY <1>b DEF Base
    <3> QED BY <2>2, <2>3, <3>1, LookupGrows DEF Found, Missed
  <2>5. Top(s).status = "OK"
    BY <1>s, <2>1 DEF StatusOK
  <2>6. CASE ~look.found /\ Diagnose(s, Top(s), "unknown_format", "cb_format", "machine")
    <3>1. NoThrow(lua') => Fatal(lua', "unknown_format", snapshot[s])
      BY <2>4, <2>6 DEF Fatal
    <3>2. "unknown_format" \in Causes
      BY DEF Causes
    <3> QED BY <1>b, <1>0, <2>1, <2>4, <2>5, <2>6, <3>1, <3>2, DiagnoseReports
  <2>7. CASE look.found /\ SetTop(s, [Top(s) EXCEPT !.pc = "machine", !.def = DefOf[n]])
               /\ UNCHANGED <<diags, resVars>>
    <3> DEFINE f == [Top(s) EXCEPT !.pc = "machine", !.def = DefOf[n]]
    <3>0. DefOf[n] \in Formats
      BY <1>b, <2>3, <2>7, LookupSound DEF Base
    <3>1. f \in Frame /\ f.pc = "machine" /\ f.status = Top(s).status
            /\ f.quiet = Top(s).quiet
      BY <1>t, <3>0 DEF Frame, Pcs
    <3>2. SetTop(s, f) /\ UNCHANGED <<diags, held, data>>
      BY <2>7 DEF resVars
    <3> HIDE DEF f, n
    <3>3. snapshot[s].inputs > 0 /\ snapshot[s].path # Empty
      BY <1>s, <2>1 DEF PassedCheck
    <3>4. Checked(lua', f, snapshot[s])
      BY <2>4, <2>5, <2>7, <3>1, <3>3
         DEF Checked, StatusOK, PassedCheck, PassedFormat, PassedMachine
    <3>5. Counted(f, diags[s])
      BY <1>t, <2>1, <3>1 DEF Counted, Pcs
    <3>6. Grounded(lua', diags[s], snapshot[s])
      BY <1>t, <2>4, GroundedGrows
    <3>7. ReportsMove(s, f)
      BY <1>b, <1>0, <2>1, <2>4, <3>1, <3>2, <3>4, <3>5, <3>6, SetTopReports
    <3> QED BY <3>1, <3>7
  <2> QED BY <2>2, <2>6, <2>7
<1>6. CASE RunFindMachine(s)
  <2> DEFINE n == OrDefault(snapshot[s].machine)
             f == [Top(s) EXCEPT !.pc = IF Top(s).status = "OK"
                                          THEN "create" ELSE "finish"]
  <2>1. UNCHANGED <<depth, live, snapshot, created>> /\ Top(s).pc = "machine"
    BY <1>6 DEF RunFindMachine, objVars
  <2>2. PICK look \in Lookups("machine", n) :
          /\ lua' = [lua EXCEPT !["machine"] = look.reg]
          /\ \/ /\ Top(s).status = "OK" /\ ~look.found
                /\ Diagnose(s, Top(s), "unknown_machine", "cb_diag", "finish")
             \/ /\ Top(s).status = "OK" => look.found
                /\ SetTop(s, f)
                /\ UNCHANGED <<diags, resVars>>
    BY <1>6 DEF RunFindMachine
  <2>3. n = NameOf("machine", snapshot[s]) /\ "machine" \in Kinds
    BY DEF NameOf, Kinds
  <2>f. f \in Frame /\ f.pc = (IF Top(s).status = "OK" THEN "create" ELSE "finish")
          /\ f.status = Top(s).status /\ f.quiet = Top(s).quiet
    BY <1>t DEF Frame, Pcs
  <2> HIDE DEF f, n
  <2>4. /\ Grows(lua, lua')
        /\ NoThrow(lua') => IF look.found THEN Found(lua', "machine", snapshot[s])
                                          ELSE Missed(lua', "machine", snapshot[s])
    <3>1. TypeOK
      BY <1>b DEF Base
    <3> QED BY <2>2, <2>3, <3>1, LookupGrows DEF Found, Missed
  <2>5. Top(s).status \in {"OK", "INVALID_ARGUMENT"}
    BY <1>s, <2>1 DEF StatusOK
  <2>6. CASE Top(s).status = "OK" /\ ~look.found
               /\ Diagnose(s, Top(s), "unknown_machine", "cb_diag", "finish")
    <3>1. NoThrow(lua') => Fatal(lua', "unknown_machine", snapshot[s])
      BY <2>4, <2>6 DEF Fatal
    <3>2. "unknown_machine" \in Causes
      BY DEF Causes
    <3> QED BY <1>b, <1>0, <2>1, <2>4, <2>6, <3>1, <3>2, DiagnoseReports
  <2>7. CASE (Top(s).status = "OK" => look.found) /\ SetTop(s, f)
               /\ UNCHANGED <<diags, resVars>>
    <3>2. SetTop(s, f) /\ UNCHANGED <<diags, held, data>>
      BY <2>7 DEF resVars
    <3>3. snapshot[s].inputs > 0 /\ snapshot[s].path # Empty
      BY <1>s, <2>1 DEF PassedCheck
    <3>4. Checked(lua', f, snapshot[s])
      <4>1. Checked(lua', Top(s), snapshot[s])
        BY <1>t, <2>4, CheckedGrows
      <4>2. NoThrow(lua') /\ Top(s).status = "OK" =>
              Found(lua', "format", snapshot[s]) /\ Found(lua', "machine", snapshot[s])
        BY <2>1, <2>4, <2>7, <4>1 DEF Checked, PassedFormat
      <4>3. StatusOK(f)
        BY <2>5, <2>f DEF StatusOK
      <4>4. (PassedFormat(f) \/ PassedMachine(f)) => Top(s).status = "OK"
        BY <2>f DEF PassedFormat, PassedMachine
      <4> QED BY <3>3, <4>2, <4>3, <4>4 DEF Checked
    <3>5. Counted(f, diags[s])
      BY <1>t, <2>1, <2>f DEF Counted, Pcs
    <3>6. Grounded(lua', diags[s], snapshot[s])
      BY <1>t, <2>4, GroundedGrows
    <3>7. ReportsMove(s, f)
      BY <1>b, <1>0, <2>1, <2>4, <2>f, <3>2, <3>4, <3>5, <3>6, SetTopReports
    <3> QED BY <2>f, <3>7
  <2> QED BY <2>2, <2>6, <2>7
<1>7. CASE RunCreateInstance(s)
  <2>1. Top(s).pc = "create"
          /\ UNCHANGED <<depth, live, snapshot, created, diags, lua, held, data>>
    BY <1>7 DEF RunCreateInstance, objVars, resVars
  <2>2. CASE SetTop(s, [Top(s) EXCEPT !.pc = "serialize"])
    <3> DEFINE f == [Top(s) EXCEPT !.pc = "serialize"]
    <3>1. f \in Frame /\ f.pc = "serialize" /\ f.status = Top(s).status
            /\ f.quiet = Top(s).quiet
      BY <1>t DEF Frame, Pcs
    <3>2. SetTop(s, f)
      BY <2>2
    <3> HIDE DEF f
    <3>3. Checked(lua, f, snapshot[s]) /\ Counted(f, diags[s])
      BY <1>t, <2>1, <3>1 DEF Checked, Counted, Pcs, StatusOK, PassedCheck,
                              PassedFormat, PassedMachine
    <3>4. ReportsMove(s, f)
      BY <1>b, <1>0, <2>1, <3>1, <3>2, <3>3, SilentReports
    <3> QED BY <3>1, <3>4
  <2>3. CASE SetTop(s, [Top(s) EXCEPT !.pc = "finish", !.status = "OUT_OF_MEMORY"])
    <3> DEFINE f == [Top(s) EXCEPT !.pc = "finish", !.status = "OUT_OF_MEMORY"]
    <3>1. f \in Frame /\ f.pc = "finish" /\ f.status = "OUT_OF_MEMORY"
            /\ f.quiet = Top(s).quiet
      BY <1>t DEF Frame, Pcs, Statuses
    <3>2. SetTop(s, f)
      BY <2>3
    <3> HIDE DEF f
    <3>3. Checked(lua, f, snapshot[s])
      BY <3>1 DEF Checked, StatusOK, PassedCheck, PassedFormat, PassedMachine
    <3>4. Counted(f, diags[s])
      BY <1>s, <1>t, <2>1, <3>1 DEF Counted, Pcs, StatusOK, Errors
    <3>5. ReportsMove(s, f)
      BY <1>b, <1>0, <2>1, <3>1, <3>2, <3>3, <3>4, SilentReports
    <3> QED BY <3>1, <3>5
  <2> QED BY <1>7, <2>2, <2>3 DEF RunCreateInstance
<1>8. CASE RunOpenOutput(s)
  <2>1. Top(s).pc = "serialize"
          /\ UNCHANGED <<depth, live, snapshot, created, diags, lua, held, data>>
    BY <1>8 DEF RunOpenOutput, objVars, resVars
  <2>2. CASE SetTop(s, [Top(s) EXCEPT !.pc = "finish", !.status = "IO_ERROR"])
    <3> DEFINE f == [Top(s) EXCEPT !.pc = "finish", !.status = "IO_ERROR"]
    <3>1. f \in Frame /\ f.pc = "finish" /\ f.status = "IO_ERROR"
            /\ f.quiet = Top(s).quiet
      BY <1>t DEF Frame, Pcs, Statuses
    <3>2. SetTop(s, f)
      BY <2>2
    <3> HIDE DEF f
    <3>3. Checked(lua, f, snapshot[s])
      BY <3>1 DEF Checked, StatusOK, PassedCheck, PassedFormat, PassedMachine
    <3>4. Counted(f, diags[s])
      BY <1>s, <1>t, <2>1, <3>1 DEF Counted, Pcs, StatusOK, Errors
    <3>5. ReportsMove(s, f)
      BY <1>b, <1>0, <2>1, <3>1, <3>2, <3>3, <3>4, SilentReports
    <3> QED BY <3>1, <3>5
  <2>3. CASE ~SetTop(s, [Top(s) EXCEPT !.pc = "finish", !.status = "IO_ERROR"])
    <3>1. PICK f \in Frame : OpensOutput(s, f)
      BY <1>b, <1>8, <2>3, OpenFrames
    <3>2. f.pc = "flush" /\ f.status = Top(s).status /\ f.quiet = Top(s).quiet
      BY <3>1 DEF OpensOutput
    <3>3. Checked(lua, f, snapshot[s]) /\ Counted(f, diags[s])
      BY <1>t, <2>1, <3>2 DEF Checked, Counted, Pcs, StatusOK, PassedCheck,
                              PassedFormat, PassedMachine
    <3>4. ReportsMove(s, f)
      BY <1>t, <2>1, <3>1, <3>3, GrowsSame DEF ReportsMove, OpensOutput
    <3> QED BY <3>4
  <2> QED BY <2>2, <2>3
<1>9. CASE RunFlushOutput(s)
  <2> DEFINE f == [Top(s) EXCEPT !.pc = "finish",
                                 !.size = PayloadSize[Top(s).def]]
  <2>1. Top(s).pc = "flush" /\ SetTop(s, f)
          /\ UNCHANGED <<depth, live, snapshot, created, diags, lua, held, data>>
    BY <1>9 DEF RunFlushOutput, objVars, resVars
  <2>2. PayloadSize[Top(s).def] \in Nat
    BY <1>b, <1>0, <2>1, TopFrame DEF FrameOK
  <2>3. f \in Frame /\ f.pc = "finish" /\ f.status = Top(s).status
          /\ f.quiet = Top(s).quiet
    BY <1>t, <2>2 DEF Frame, Pcs
  <2> HIDE DEF f
  <2>4. Checked(lua, f, snapshot[s]) /\ Counted(f, diags[s])
    BY <1>t, <2>1, <2>3 DEF Checked, Counted, Pcs, StatusOK, PassedCheck,
                            PassedFormat, PassedMachine
  <2>5. ReportsMove(s, f)
    BY <1>b, <1>0, <2>1, <2>3, <2>4, SilentReports
  <2> QED BY <2>3, <2>5
<1>10. CASE RunFinish(s)
  <2> DEFINE f == [Top(s) EXCEPT !.res = NoResult,
                     !.pc = IF EmitsLog(IF Top(s).status = "OK" THEN LogInfo
                                                               ELSE LogError)
                              THEN "cb_done" ELSE "return"]
             new == [status |-> Top(s).status,
                     size   |-> IF Top(s).status = "OK" THEN Top(s).size ELSE 0,
                     inputs |-> snapshot[s].inputs,
                     errors |-> Len(diags[s]),
                     path   |-> snapshot[s].path,
                     quiet  |-> Top(s).quiet]
  <2>1. Top(s).pc = "finish" /\ SetTop(s, f) /\ held' = held \cup {Top(s).res}
          /\ data' = [data EXCEPT ![Top(s).res] = new]
          /\ UNCHANGED <<depth, live, snapshot, created, diags, lua>>
    BY <1>10 DEF RunFinish, objVars
  <2>2. f \in Frame /\ f.pc \in {"cb_done", "return"}
    BY <1>t DEF Frame, Pcs, Callbacks
  <2>3. new.status = Top(s).status /\ new.errors = Len(diags[s])
          /\ new.quiet = Top(s).quiet
    OBVIOUS
  <2> HIDE DEF f, new
  <2>4. Checked(lua, f, snapshot[s]) /\ Counted(f, diags[s])
    BY <2>2 DEF Checked, Counted, StatusOK, PassedCheck, PassedFormat, PassedMachine
  <2>5. ResultReports(lua, new)
    <3>1. ASSUME NoThrow(lua), Top(s).status = "OK" PROVE Len(diags[s]) = 0
      <4>1. /\ snapshot[s].inputs > 0 /\ snapshot[s].path # Empty
            /\ Found(lua, "format", snapshot[s]) /\ Found(lua, "machine", snapshot[s])
        BY <1>t, <2>1, <3>1 DEF Checked, PassedCheck, PassedFormat, PassedMachine
      <4>2. \A x : ~Fatal(lua, x, snapshot[s])
        BY <1>t, <4>1 DEF Fatal, Found, Missed, Config
      <4>3. \A i \in 1..Len(diags[s]) : FALSE
        BY <1>t, <3>1, <4>2 DEF Grounded
      <4>4. Len(diags[s]) \in Nat
        BY <1>t
      <4> QED BY <4>3, <4>4
    <3>2. Top(s).quiet => Len(diags[s]) = Errors(Top(s).status)
      BY <1>t, <2>1 DEF Counted, Pcs
    <3> QED BY <2>3, <3>1, <3>2 DEF ResultReports
  <2>6. \A r \in held' : (r \in held /\ data'[r] = data[r]) \/ ResultReports(lua, data'[r])
    <3>1. data \in [Results -> ResultData] /\ held \subseteq Results
      BY <1>b DEF Base, TypeOK
    <3>2. Top(s).res \in Results
      BY <1>b, <1>0, <1>t, <2>1, TopFrame DEF FrameOK, HoldsResult, Frame
    <3> HIDE DEF ResultData
    <3>3. data'[Top(s).res] = new /\ \A r \in Results : r # Top(s).res => data'[r] = data[r]
      BY <2>1, <3>1, <3>2
    <3> QED BY <2>1, <2>5, <3>1, <3>3
  <2>7. ReportsMove(s, f)
    BY <1>b, <1>0, <2>1, <2>2, <2>4, <2>6, SilentReports
  <2> QED BY <2>2, <2>7
<1>11. CASE CallbackReturn(s)
  <2> DEFINE f == [Top(s) EXCEPT !.pc = AfterCallback(Top(s).pc)]
  <2>1. Top(s).pc \in Callbacks /\ SetTop(s, f)
          /\ UNCHANGED <<depth, live, snapshot, created, diags, lua, held, data>>
    BY <1>11 DEF CallbackReturn, InCallback, objVars, resVars
  <2>2. /\ Top(s).pc = "cb_start" => AfterCallback(Top(s).pc) = "begin"
        /\ Top(s).pc = "cb_format" => AfterCallback(Top(s).pc) = "machine"
        /\ Top(s).pc = "cb_diag" => AfterCallback(Top(s).pc) = "finish"
        /\ Top(s).pc = "cb_done" => AfterCallback(Top(s).pc) = "return"
    BY DEF AfterCallback
  <2>3. f \in Frame /\ f.pc = AfterCallback(Top(s).pc) /\ f.status = Top(s).status
          /\ f.quiet = Top(s).quiet
    BY <1>t, <2>1, <2>2 DEF Frame, Pcs, Callbacks
  <2> HIDE DEF f
  <2>4. Checked(lua, f, snapshot[s])
    <3>1. StatusOK(f) /\ ~PassedFormat(f) /\ ~PassedMachine(f)
      BY <1>s, <2>1, <2>2, <2>3 DEF StatusOK, PassedFormat, PassedMachine, Callbacks
    <3>2. PassedCheck(f) => PassedCheck(Top(s))
      BY <1>s, <2>1, <2>2, <2>3 DEF PassedCheck, StatusOK, Callbacks
    <3> QED BY <1>s, <3>1, <3>2 DEF Checked
  <2>5. Counted(f, diags[s])
    <3>1. CASE Top(s).pc = "cb_done"
      BY <2>2, <2>3, <3>1 DEF Counted
    <3>2. CASE Top(s).pc # "cb_done"
      <4>1. Top(s).pc \in Pcs \ {"enter", "cb_done", "return"}
        BY <2>1, <3>2 DEF Callbacks, Pcs
      <4> QED BY <1>t, <2>3, <4>1 DEF Counted
    <3> QED BY <3>1, <3>2
  <2>6. ReportsMove(s, f)
    BY <1>b, <1>0, <2>1, <2>3, <2>4, <2>5, SilentReports
  <2> QED BY <2>3, <2>6
<1> QED BY <1>1, <1>2, <1>3, <1>4, <1>5, <1>6, <1>7, <1>8, <1>9, <1>10, <1>11
        DEF RunMove

-----------------------------------------------------------------------------
(* The other steps *)

\* A session whose objects and frames a step leaves alone
Rests(t) ==
  /\ depth'[t] = depth[t] /\ snapshot'[t] = snapshot[t] /\ created'[t] = created[t]
  /\ diags'[t] = diags[t] /\ frame'[t] = frame[t] /\ (t \in live' => t \in live)

\* The calls of the API and the return of a run touch only their own session.
LEMMA LocalStep ==
  ASSUME Base, NEW s \in Sessions, CallerStep(s) \/ RunReturn(s)
  PROVE  \A t \in Sessions \ {s} : Rests(t)
<1>t. /\ snapshot \in [Sessions -> Config] /\ created \in [Sessions -> Config]
      /\ diags \in [Sessions -> Seq(Causes)]
      /\ depth \in [Sessions -> 0..MaxDepth]
      /\ frame \in [Sessions -> [1..MaxDepth -> Frame]]
  BY DEF Base, TypeOK
<1> HIDE DEF Config, Causes, Frame
<1>1. \A t \in Sessions \ {s} :
        /\ snapshot'[t] = snapshot[t] /\ created'[t] = created[t]
        /\ diags'[t] = diags[t] /\ (t \in live' => t \in live)
  <2>1. CASE olnk_session_create(s) \/ olnk_link(s)
    BY <1>t, <2>1 DEF olnk_session_create, olnk_link, NewSession
  <2>2. CASE SessionCopyFails(s) \/ olnk_session_set_option(s) \/ olnk_session_run(s)
    BY <2>2 DEF SessionCopyFails, olnk_session_set_option, olnk_session_run, objVars
  <2>3. CASE olnk_session_reset(s)
    BY <1>t, <2>3 DEF olnk_session_reset, objVars
  <2>4. CASE olnk_session_destroy(s) \/ RunReturn(s)
    BY <1>t, <2>4 DEF olnk_session_destroy, RunReturn, FreeSession
  <2> QED BY <2>1, <2>2, <2>3, <2>4 DEF CallerStep
<1>2. \A t \in Sessions \ {s} : depth'[t] = depth[t] /\ frame'[t] = frame[t]
  <2> HIDE DEF NewFrame, Disturbed
  <2>1. CASE olnk_session_create(s) \/ SessionCopyFails(s) \/ olnk_session_destroy(s)
               \/ olnk_session_set_option(s)
    BY <2>1 DEF olnk_session_create, SessionCopyFails, olnk_session_destroy,
                olnk_session_set_option
  <2>2. CASE olnk_link(s)
    BY <1>t, <2>2 DEF olnk_link
  <2>3. CASE olnk_session_reset(s)
    BY <1>t, <2>3 DEF olnk_session_reset
  <2>4. CASE olnk_session_run(s)
    BY <1>t, <2>4 DEF olnk_session_run
  <2>5. CASE RunReturn(s)
    BY <1>t, <2>5 DEF RunReturn, SetTop
  <2> QED BY <2>1, <2>2, <2>3, <2>4, <2>5 DEF CallerStep
<1> QED BY <1>1, <1>2 DEF Rests

\* If every session but s rests, s is as the invariant says and the results and
\* registries stay, the invariant is kept.
LEMMA OthersRest ==
  ASSUME Base, ReportInv, NEW s \in Sessions, \A t \in Sessions \ {s} : Rests(t),
         SessionReports(s)', lua' = lua,
         \A r \in held' : r \in held /\ data'[r] = data[r]
  PROVE  ReportInv'
<1>1. ASSUME NEW t \in Sessions PROVE SessionReports(t)'
  <2>1. SessionReports(t)
    BY DEF ReportInv
  <2> QED BY <2>1 DEF SessionReports, Rests
<1>2. ASSUME NEW r \in held' PROVE ResultReports(lua, data[r])'
  <2>1. ResultReports(lua, data[r]) /\ data'[r] = data[r]
    BY DEF ReportInv
  <2> QED BY <2>1
<1> QED BY <1>1, <1>2 DEF ReportInv

\* The frames of a session after Disturbed: none is quiet any more.
LEMMA DisturbedQuiet ==
  ASSUME Base, NEW s \in Sessions, NEW d \in 1..MaxDepth, d <= depth[s]
  PROVE  Agree(Disturbed(s)[d], frame[s][d]) /\ ~Disturbed(s)[d].quiet
<1>1. frame[s][d] \in Frame /\ depth[s] \in Nat
  BY DEF Base, TypeOK
<1> DEFINE f == [frame[s][d] EXCEPT !.quiet = frame[s][d].quiet /\ d > depth[s]]
<1>2. Disturbed(s)[d] = f
  BY DEF Disturbed
<1>3. f.quiet = (frame[s][d].quiet /\ d > depth[s])
  BY <1>1 DEF Frame
<1>4. ~(d > depth[s])
  BY <1>1
<1> HIDE DEF f
<1>5. ~f.quiet
  BY <1>3, <1>4
<1> QED BY <1>2, <1>5, DisturbedAgrees

\* The return of a run; olnk_link frees its session.
LEMMA ReturnReports ==
  ASSUME IInv, ReportInv, NEW s \in Sessions, RunReturn(s)
  PROVE  ReportInv'
<1>1. depth[s] > 0 /\ SetTop(s, NewFrame) /\ lua' = lua /\ held' = held
        /\ data' = data /\ depth' = [depth EXCEPT ![s] = @ - 1]
  BY DEF RunReturn, At, resVars
<1>2. depth[s] \in 1..MaxDepth /\ depth'[s] = depth[s] - 1
  BY <1>1 DEF IInv, Base, TypeOK
<1>3. frame' = [frame EXCEPT ![s][depth[s]] = NewFrame]
        /\ frame \in [Sessions -> [1..MaxDepth -> Frame]]
  BY <1>1 DEF SetTop, IInv, Base, TypeOK
<1>4. \A d \in 1..MaxDepth : d < depth[s] => frame'[s][d] = frame[s][d]
  <2> HIDE DEF Frame, NewFrame
  <2> QED BY <1>2, <1>3
<1>5. diags \in [Sessions -> Seq(Causes)]
  BY DEF IInv, Base, TypeOK
<1>s. SUFFICES SessionReports(s)'
  BY <1>1, LocalStep, OthersRest DEF IInv
<1> HIDE DEF Config, Causes, Frame, NewFrame
<1>6. CASE s \in oneshot /\ FreeSession(s)
  <2>1. /\ live' = live \ {s}
        /\ diags' = [diags EXCEPT ![s] = << >>]
    BY <1>6 DEF FreeSession
  <2>3. depth'[s] = 0 /\ diags'[s] = << >> /\ s \notin live'
    BY <1>2, <1>5, <1>6, <2>1 DEF IInv, Base, StackOK
  <2>4. SessionReports(s)'
    BY <2>3, StackEmpty DEF SessionReports
  <2> QED BY <2>4
<1>7. CASE UNCHANGED <<live, snapshot, created, diags>>
  <2>2. SessionReports(s)
    BY DEF ReportInv
  <2>3. StackReports(lua, depth[s] - 1, frame'[s], snapshot[s], diags[s])
    BY <1>2, <1>4, <2>2, StackPopped DEF SessionReports
  <2>4. SessionReports(s)'
    BY <1>1, <1>2, <1>7, <2>2, <2>3 DEF SessionReports
  <2> QED BY <2>4
<1> QED BY <1>6, <1>7 DEF RunReturn

\* The calls of the API other than the steps inside a run
LEMMA CallerReports ==
  ASSUME IInv, ReportInv, NEW s \in Sessions, CallerStep(s)
  PROVE  ReportInv'
<1>t. /\ snapshot \in [Sessions -> Config] /\ created \in [Sessions -> Config]
      /\ diags \in [Sessions -> Seq(Causes)] /\ live \subseteq Sessions
      /\ depth \in [Sessions -> 0..MaxDepth]
      /\ frame \in [Sessions -> [1..MaxDepth -> Frame]]
  BY DEF IInv, Base, TypeOK
<1>b. Base /\ SessionReports(s)
  BY DEF IInv, ReportInv
<1>l. lua' = lua /\ held' = held /\ data' = data
  <2>1. CASE olnk_session_create(s) \/ SessionCopyFails(s) \/ olnk_link(s)
               \/ olnk_session_destroy(s)
    BY <2>1 DEF olnk_session_create, SessionCopyFails, olnk_link,
                olnk_session_destroy, NewSession, resVars
  <2>2. CASE olnk_session_reset(s) \/ olnk_session_set_option(s)
               \/ olnk_session_run(s)
    BY <2>2 DEF olnk_session_reset, olnk_session_set_option, olnk_session_run, resVars
  <2> QED BY <2>1, <2>2 DEF CallerStep
<1>s. SUFFICES SessionReports(s)'
  BY <1>b, <1>l, LocalStep, OthersRest
<1>n. ASSUME NewSession(s)
      PROVE  diags'[s] = << >> /\ snapshot'[s] = created'[s] /\ depth[s] = 0
  <2>1. /\ s \notin live /\ live' = live \cup {s}
        /\ snapshot' = [snapshot EXCEPT ![s] = config]
        /\ created' = [created EXCEPT ![s] = config]
        /\ diags' = [diags EXCEPT ![s] = << >>]
    BY <1>n DEF NewSession, Unused
  <2>2. depth[s] = 0
    BY <1>t, <2>1 DEF IInv, Base, StackOK
  <2> HIDE DEF Config, Causes
  <2> QED BY <1>t, <2>1, <2>2
<1>1. CASE olnk_session_create(s)
  <2>1. NewSession(s) /\ depth' = depth /\ frame' = frame
    BY <1>1 DEF olnk_session_create
  <2>3. SessionReports(s)'
    BY <1>n, <2>1, StackEmpty DEF SessionReports
  <2> QED BY <2>3
<1>2. CASE olnk_link(s)
  <2>1. NewSession(s) /\ depth' = [depth EXCEPT ![s] = 1]
          /\ frame' = [frame EXCEPT ![s][1] = NewFrame] /\ 1 \in 1..MaxDepth
    BY <1>2 DEF olnk_link
  <2>2. depth'[s] = 1 /\ frame'[s][1] = NewFrame
    <3> HIDE DEF Frame, NewFrame
    <3> QED BY <1>t, <2>1
  <2>4. StackReports(lua', 1, frame'[s], snapshot'[s], << >>)
    BY <2>2, StackFirst
  <2>5. SessionReports(s)'
    BY <1>n, <2>1, <2>2, <2>4 DEF SessionReports
  <2> QED BY <2>5
<1>3. CASE olnk_session_destroy(s)
  <2>1. /\ live' = live \ {s}
        /\ diags' = [diags EXCEPT ![s] = << >>]
        /\ depth[s] = 0 /\ depth' = depth /\ frame' = frame
    BY <1>3 DEF olnk_session_destroy, FreeSession
  <2> HIDE DEF Config, Causes
  <2>3. diags'[s] = << >> /\ s \notin live' /\ depth'[s] = 0
    BY <1>t, <2>1
  <2>4. SessionReports(s)'
    BY <2>3, StackEmpty DEF SessionReports
  <2> QED BY <2>4
<1>4. CASE olnk_session_reset(s)
  <2>1. /\ diags' = [diags EXCEPT ![s] = << >>]
        /\ frame' = [frame EXCEPT ![s] = Disturbed(s)]
        /\ UNCHANGED <<depth, live, snapshot, created>>
    BY <1>4 DEF olnk_session_reset, objVars
  <2>2. diags'[s] = << >> /\ frame'[s] = Disturbed(s)
    <3> HIDE DEF Frame, Causes, Disturbed
    <3> QED BY <1>t, <2>1
  <2>4. \A d \in 1..MaxDepth : d <= depth[s] =>
          Agree(frame'[s][d], frame[s][d]) /\ ~frame'[s][d].quiet
    BY <1>b, <2>2, DisturbedQuiet
  <2>5. depth[s] \in 0..MaxDepth
          /\ StackReports(lua, depth[s], frame[s], snapshot[s], diags[s])
    BY <1>b, <1>t DEF SessionReports
  <2>6. StackReports(lua, depth[s], frame'[s], snapshot[s], << >>)
    BY <2>4, <2>5, StackCleared
  <2>7. SessionReports(s)'
    BY <1>b, <1>l, <2>1, <2>2, <2>6 DEF SessionReports
  <2> QED BY <2>7
<1>5. CASE olnk_session_run(s)
  <2> DEFINE g == [Disturbed(s) EXCEPT ![depth[s] + 1] = NewFrame]
  <2>1. /\ frame' = [frame EXCEPT ![s] = g] /\ depth[s] < MaxDepth
        /\ depth' = [depth EXCEPT ![s] = @ + 1]
        /\ UNCHANGED <<live, snapshot, created, diags>>
    BY <1>5 DEF olnk_session_run, objVars
  <2>2. depth[s] \in 0..MaxDepth /\ depth[s] + 1 \in 1..MaxDepth
          /\ depth'[s] = depth[s] + 1
    BY <1>t, <2>1
  <2>3. /\ g[depth[s] + 1] = NewFrame
        /\ \A e \in 1..MaxDepth : e # depth[s] + 1 => g[e] = Disturbed(s)[e]
    <3> HIDE DEF Frame
    <3> QED BY <1>b, <2>2, DisturbedAgrees, NewFrameOK
  <2> HIDE DEF g
  <2>4. frame'[s] = g
    <3> HIDE DEF Frame
    <3> QED BY <1>t, <2>1
  <2>6. ASSUME NEW d \in 1..MaxDepth, d <= depth[s]
        PROVE  Agree(frame'[s][d], frame[s][d]) /\ ~frame'[s][d].quiet
    <3>1. d # depth[s] + 1
      BY <2>2, <2>6
    <3>2. frame'[s][d] = Disturbed(s)[d]
      BY <2>3, <2>4, <3>1
    <3> QED BY <1>b, <2>6, <3>2, DisturbedQuiet
  <2>7. frame'[s][depth[s] + 1] = NewFrame
    BY <2>3, <2>4
  <2>8. StackReports(lua, depth[s] + 1, frame'[s], snapshot[s], diags[s])
    <3>1. StackReports(lua, depth[s], frame[s], snapshot[s], diags[s])
      BY <1>b DEF SessionReports
    <3> QED BY <2>2, <2>6, <2>7, <3>1, StackPushed
  <2>9. SessionReports(s)'
    BY <1>b, <1>l, <2>1, <2>2, <2>8 DEF SessionReports
  <2> QED BY <2>9
<1>6. CASE SessionCopyFails(s) \/ olnk_session_set_option(s)
  <2>1. UNCHANGED <<depth, frame, snapshot, created, diags, live>>
    BY <1>6 DEF SessionCopyFails, olnk_session_set_option, objVars
  <2>3. SessionReports(s)'
    BY <1>b, <1>l, <2>1 DEF SessionReports
  <2> QED BY <2>3
<1> QED BY <1>1, <1>2, <1>3, <1>4, <1>5, <1>6 DEF CallerStep

\* Every step keeps what is reported true.
LEMMA StepReports == IInv /\ ReportInv /\ [Next]_vars => ReportInv'
<1> SUFFICES ASSUME IInv, ReportInv, [Next]_vars PROVE ReportInv'
  OBVIOUS
<1>b. Base
  BY DEF IInv
<1>1. ASSUME NEW s \in Sessions, RunMove(s) PROVE ReportInv'
  BY <1>1, <1>b, MovesReport, MoveKeepsReports
<1>2. ASSUME NEW s \in Sessions, RunReturn(s) PROVE ReportInv'
  BY <1>2, ReturnReports
<1>3. ASSUME NEW s \in Sessions, CallerStep(s) PROVE ReportInv'
  BY <1>3, CallerReports
<1>4. ASSUME UNCHANGED <<depth, frame, snapshot, created, diags, live, lua>>,
             \A r \in held' : r \in held /\ data'[r] = data[r]
      PROVE  ReportInv'
  <2>2. ASSUME NEW t \in Sessions PROVE SessionReports(t)'
    <3>1. SessionReports(t)
      BY DEF ReportInv
    <3> QED BY <1>4, <3>1 DEF SessionReports
  <2>3. ASSUME NEW r \in held' PROVE ResultReports(lua, data[r])'
    <3>1. ResultReports(lua, data[r]) /\ data'[r] = data[r]
      BY <1>4 DEF ReportInv
    <3> QED BY <1>4, <3>1
  <2> QED BY <2>2, <2>3 DEF ReportInv
<1>5. ASSUME NEW r \in Results, olnk_result_destroy(r) PROVE ReportInv'
  <2>1. UNCHANGED <<depth, frame, snapshot, created, diags, live, lua>>
          /\ held' = held \ {r} /\ data' = [data EXCEPT ![r] = NoData]
    BY <1>5 DEF olnk_result_destroy, objVars
  <2>2. data \in [Results -> ResultData] /\ held \subseteq Results
    BY <1>b DEF Base, TypeOK
  <2>3. \A q \in held' : q \in held /\ data'[q] = data[q]
    <3> HIDE DEF ResultData, NoData
    <3> QED BY <2>1, <2>2
  <2> QED BY <1>4, <2>1, <2>3
<1>6. CASE \/ \E l \in LogLevels : olnk_context_set_log_level(l)
           \/ \E on \in CallbackModes : olnk_context_set_log_callback(on)
           \/ \E on \in CallbackModes : olnk_context_set_diagnostic_callback(on)
           \/ EditConfig \/ UNCHANGED vars
  <2>1. UNCHANGED <<depth, frame, snapshot, created, diags, live, lua, held, data>>
    BY <1>6 DEF olnk_context_set_log_level, olnk_context_set_log_callback,
                olnk_context_set_diagnostic_callback, EditConfig, objVars, resVars, vars
  <2> QED BY <1>4, <2>1
<1>7. ASSUME NEW s \in Sessions, RunStep(s) \/ CallbackReturn(s)
      PROVE  RunMove(s) \/ RunReturn(s)
  BY <1>7 DEF RunStep, RunMove
<1>8. ASSUME NEW s \in Sessions, RunTerminates(s) PROVE ReportInv'
  <2>1. UNCHANGED <<depth, frame, snapshot, created, diags, live, lua, held, data>>
    BY <1>8 DEF RunTerminates, objVars, resVars
  <2> QED BY <1>4, <2>1
<1> QED BY <1>1, <1>2, <1>3, <1>5, <1>6, <1>7, <1>8 DEF Next, Step

\* Nothing is reported before the first call.
LEMMA InitReports == Init => ReportInv
<1> SUFFICES ASSUME Init PROVE ReportInv
  OBVIOUS
<1>1. ASSUME NEW s \in Sessions PROVE SessionReports(s)
  <2>1. depth[s] = 0 /\ diags[s] = << >> /\ s \notin live
    BY DEF Init
  <2> QED BY <2>1, StackEmpty DEF SessionReports
<1>2. held = {}
  BY DEF Init
<1> QED BY <1>1, <1>2 DEF ReportInv

\* What is reported is true throughout.
LEMMA ReportsInvariance == Spec => []ReportInv
BY InitReports, StepReports, Invariance, PTL DEF Spec

\* As long as no Lua lookup threw, a result that olnk_session_run delivers with
\* status OK counts no errors, however deep callbacks re-enter the session and
\* whatever other sessions load into the registries meanwhile.
THEOREM ErrorsCorrect == Spec => []OkMeansNoErrors
<1>1. ReportInv => OkMeansNoErrors
  BY DEF ReportInv, ResultReports, NoThrow, OkMeansNoErrors
<1> QED BY <1>1, ReportsInvariance, PTL

\* A run that no callback re-entered reports exactly one error when it rejects
\* its configuration and none when it links, on every path of olnk_session_run.
THEOREM RejectionCorrect == Spec => []RejectionReportedOnce
<1>1. ReportInv => RejectionReportedOnce
  BY DEF ReportInv, ResultReports, Errors, RejectionReportedOnce
<1> QED BY <1>1, ReportsInvariance, PTL

-----------------------------------------------------------------------------
(* Who writes the output files *)

\* The steps that open or close an output; every other step leaves the files
\* alone.
LEMMA FilesChange ==
  ASSUME [Next]_vars, file' # file
  PROVE  \E s \in Sessions : RunOpenOutput(s) \/ RunFlushOutput(s) \/ RunTerminates(s)
<1>1. ASSUME NEW s \in Sessions, CallerStep(s) PROVE file' = file
  <2>1. CASE olnk_session_create(s) \/ SessionCopyFails(s) \/ olnk_link(s)
               \/ olnk_session_destroy(s)
    BY <2>1 DEF olnk_session_create, SessionCopyFails, olnk_link,
                olnk_session_destroy, NewSession
  <2>2. CASE olnk_session_reset(s) \/ olnk_session_set_option(s)
               \/ olnk_session_run(s)
    BY <2>2 DEF olnk_session_reset, olnk_session_set_option, olnk_session_run
  <2> QED BY <1>1, <2>1, <2>2 DEF CallerStep
<1>2. ASSUME NEW s \in Sessions, RunStep(s) \/ CallbackReturn(s),
             ~RunOpenOutput(s), ~RunFlushOutput(s)
      PROVE  file' = file
  <2>1. CASE RunEnter(s) \/ RunMakeResult(s) \/ RunMakeResultFails(s)
               \/ RunCheck(s) \/ RunCreateInstance(s)
    BY <2>1 DEF RunEnter, RunMakeResult, RunMakeResultFails, RunCheck,
                RunCreateInstance
  <2>2. CASE RunFindFormat(s) \/ RunFindMachine(s)
    BY <2>2 DEF RunFindFormat, RunFindMachine
  <2>3. CASE RunFinish(s) \/ RunReturn(s) \/ CallbackReturn(s)
    BY <2>3 DEF RunFinish, RunReturn, CallbackReturn
  <2> QED BY <1>2, <2>1, <2>2, <2>3 DEF RunStep
<1>3. ASSUME NEW r \in Results, olnk_result_destroy(r) PROVE file' = file
  BY <1>3 DEF olnk_result_destroy
<1>4. CASE \/ \E l \in LogLevels : olnk_context_set_log_level(l)
           \/ \E on \in CallbackModes : olnk_context_set_log_callback(on)
           \/ \E on \in CallbackModes : olnk_context_set_diagnostic_callback(on)
           \/ EditConfig \/ UNCHANGED vars
  BY <1>4 DEF olnk_context_set_log_level, olnk_context_set_log_callback,
              olnk_context_set_diagnostic_callback, EditConfig, vars
<1> QED BY <1>1, <1>2, <1>3, <1>4 DEF Next, Step

\* A file changes only by a run of a session created with that path, past its
\* checks and with its instance alive.
LEMMA StepOwned ==
  ASSUME IInv, ReportInv, [Next]_vars, NEW p \in Paths, file'[p] # file[p]
  PROVE  \E s \in live : /\ created[s].path = p
                         /\ created[s].inputs > 0
                         /\ instances \cap {s} # {}
<1>1. PICK s \in Sessions : RunOpenOutput(s) \/ RunFlushOutput(s) \/ RunTerminates(s)
  BY FilesChange
<1>2. depth[s] > 0 /\ Top(s).pc \in {"serialize", "flush"}
  BY <1>1 DEF RunOpenOutput, RunFlushOutput, RunTerminates, At
<1>3. file \in [Paths -> Files]
  BY DEF IInv, Base, TypeOK
<1>4. snapshot[s].path = p
  <2>1. CASE RunOpenOutput(s)
    <3>1. file' = file \/ file' = [file EXCEPT ![snapshot[s].path] = Opened(@)]
      BY <2>1 DEF RunOpenOutput
    <3> HIDE DEF Files, Opened
    <3> QED BY <1>3, <3>1
  <2>2. CASE RunFlushOutput(s)
    <3> DEFINE New(k, old) == [by  |-> IF k = 0 THEN old.by ELSE Top(s).def,
                               len |-> IF old.len > k THEN old.len ELSE k]
    <3>1. PICK k \in 0..PayloadSize[Top(s).def] :
            file' = [file EXCEPT ![snapshot[s].path] = New(k, @)]
      BY <2>2 DEF RunFlushOutput
    <3> HIDE DEF Files, New
    <3> QED BY <1>3, <3>1
  <2>3. CASE RunTerminates(s)
    <3>1. file' = file \/ file' = [file EXCEPT ![snapshot[s].path] = Opened(@)]
      BY <2>3 DEF RunTerminates
    <3> HIDE DEF Files, Opened
    <3> QED BY <1>3, <3>1
  <2> QED BY <1>1, <2>1, <2>2, <2>3
<1>5. s \in live /\ s \in instances
  BY <1>2 DEF IInv, Base, StackOK, InstancesBalanced, At
<1>6. snapshot[s].inputs > 0
  <2>1. Checked(lua, Top(s), snapshot[s])
    BY <1>2, TopReports DEF IInv
  <2> QED BY <1>2, <2>1 DEF Checked, PassedCheck
<1>7. snapshot[s] = created[s]
  BY <1>5 DEF ReportInv, SessionReports
<1> QED BY <1>4, <1>5, <1>6, <1>7

\* An output file is only ever changed by a run, past all its checks, of a
\* session created with that path: no edit of the config, rejected run or other
\* session touches it, for any number of sessions and paths.
THEOREM OutputOwned == Spec => OutputOnlyByOwner
<1>1. IInv /\ ReportInv /\ [Next]_vars =>
        [\A p \in Paths : file'[p] # file[p] =>
           \E s \in live : /\ created[s].path = p
                           /\ created[s].inputs > 0
                           /\ instances \cap {s} # {}]_vars
  BY StepOwned
<1> QED BY <1>1, Invariance, ReportsInvariance, PTL DEF Spec, OutputOnlyByOwner

-----------------------------------------------------------------------------
(* What a run that is alone with its file leaves there *)

\* Between opening and closing, a run that is sole has the file to itself and
\* finds it empty.
SoleFact(s) ==
  At(s, "flush") /\ Top(s).sole =>
    /\ file[snapshot[s].path] = EmptyFile
    /\ \A t \in Sessions \ {s} : At(t, "flush") => snapshot[t].path # snapshot[s].path

SoleInv == \A s \in Sessions : SoleFact(s)

\* After the step t is not writing, or it was and nothing about that changed.
Writes(t) == At(t, "flush")
SameWriter(t) ==
  Writes(t)' => /\ Writes(t) /\ Top(t)'.sole = Top(t).sole
                /\ snapshot'[t] = snapshot[t]

\* Steps that open no file keep the invariant as long as the files stay.
LEMMA SameWriters ==
  ASSUME SoleInv, \A t \in Sessions : SameWriter(t), file' = file
  PROVE  SoleInv'
<1> SUFFICES ASSUME NEW s \in Sessions, Writes(s)', Top(s)'.sole
             PROVE  /\ file'[snapshot'[s].path] = EmptyFile
                    /\ \A t \in Sessions \ {s} :
                         Writes(t)' => snapshot'[t].path # snapshot'[s].path
  BY DEF SoleInv, SoleFact, Writes
<1>1. Writes(s) /\ Top(s).sole /\ snapshot'[s] = snapshot[s]
  BY DEF SameWriter
<1>2. /\ file[snapshot[s].path] = EmptyFile
      /\ \A t \in Sessions \ {s} : Writes(t) => snapshot[t].path # snapshot[s].path
  BY <1>1 DEF SoleInv, SoleFact, Writes
<1> QED BY <1>1, <1>2 DEF SameWriter

\* A move of s by SetTop out of any place to one that is not writing
LEMMA MoveWriters ==
  ASSUME Base, NEW s \in Sessions, depth[s] > 0, NEW f \in Frame, SetTop(s, f),
         f.pc # "flush", depth' = depth, snapshot' = snapshot
  PROVE  \A t \in Sessions : SameWriter(t) /\ (t # s => (Writes(t)' <=> Writes(t)))
<1>1. /\ frame'[s][depth[s]] = f
      /\ \A t \in Sessions, e \in 1..MaxDepth :
           t # s \/ e # depth[s] => frame'[t][e] = frame[t][e]
  BY SetTopExact
<1>2. \A t \in Sessions : depth[t] > 0 => depth[t] \in 1..MaxDepth
  BY DEF Base, TypeOK
<1>3. ~Writes(s)'
  BY <1>1 DEF Writes, At, Top
<1>4. ASSUME NEW t \in Sessions, t # s
      PROVE  (Writes(t)' <=> Writes(t)) /\ (Writes(t)' => Top(t)' = Top(t))
  BY <1>1, <1>2, <1>4 DEF Writes, At, Top
<1> QED BY <1>3, <1>4 DEF SameWriter

\* The frame a step of a run other than opening its output leaves on top is not
\* at "flush".
LEMMA MovesElsewhere ==
  ASSUME IInv, NEW s \in Sessions, RunMove(s),
         RunOpenOutput(s) => SetTop(s, [Top(s) EXCEPT !.pc = "finish",
                                                      !.status = "IO_ERROR"])
  PROVE  /\ depth[s] > 0 /\ depth' = depth /\ snapshot' = snapshot
         /\ \E f \in Frame : SetTop(s, f) /\ f.pc # "flush"
<1> USE DEF At
<1>b. Base
  BY DEF IInv
<1>0. depth[s] > 0
  BY DEF RunMove, RunEnter, RunMakeResult, RunMakeResultFails, RunCheck,
         RunFindFormat, RunFindMachine, RunCreateInstance, RunOpenOutput,
         RunFlushOutput, RunFinish, CallbackReturn, InCallback
<1>t. Top(s) \in Frame /\ FrameOK(Top(s))
  BY <1>b, <1>0, TopFrame
<1>d. depth' = depth /\ snapshot' = snapshot
  <2>1. CASE RunEnter(s) \/ RunMakeResult(s) \/ RunMakeResultFails(s)
               \/ RunCheck(s) \/ RunCreateInstance(s)
    BY <2>1 DEF RunEnter, RunMakeResult, RunMakeResultFails, RunCheck,
                RunCreateInstance, objVars
  <2>2. CASE RunFindFormat(s) \/ RunFindMachine(s)
    BY <2>2 DEF RunFindFormat, RunFindMachine, objVars
  <2>3. CASE RunFinish(s) \/ RunOpenOutput(s) \/ RunFlushOutput(s) \/ CallbackReturn(s)
    BY <2>3 DEF RunFinish, RunOpenOutput, RunFlushOutput, CallbackReturn, objVars
  <2> QED BY <2>1, <2>2, <2>3 DEF RunMove
<1>p. ASSUME NEW pc \in Pcs \ {"flush"}, SetTop(s, [Top(s) EXCEPT !.pc = pc])
      PROVE  \E f \in Frame : SetTop(s, f) /\ f.pc # "flush"
  <2> DEFINE f == [Top(s) EXCEPT !.pc = pc]
  <2>1. f \in Frame /\ f.pc = pc
    BY <1>t DEF Frame
  <2>2. SetTop(s, f)
    BY <1>p
  <2> HIDE DEF f
  <2> QED BY <2>1, <2>2
<1>q. ASSUME NEW pc \in Pcs \ {"flush"}, NEW st \in Statuses,
             SetTop(s, [Top(s) EXCEPT !.pc = pc, !.status = st])
      PROVE  \E f \in Frame : SetTop(s, f) /\ f.pc # "flush"
  <2> DEFINE f == [Top(s) EXCEPT !.pc = pc, !.status = st]
  <2>1. f \in Frame /\ f.pc = pc
    BY <1>t DEF Frame
  <2>2. SetTop(s, f)
    BY <1>q
  <2> HIDE DEF f
  <2> QED BY <2>1, <2>2
<1>g. ASSUME NEW c, NEW cb \in Pcs \ {"flush"}, NEW next \in Pcs \ {"flush"},
             Diagnose(s, Top(s), c, cb, next)
      PROVE  \E f \in Frame : SetTop(s, f) /\ f.pc # "flush"
  <2>1. CASE Abandon(s, Top(s))
    <3> DEFINE f == [Top(s) EXCEPT !.pc = "return", !.res = NoResult,
                                   !.status = "OUT_OF_MEMORY"]
    <3>1. f \in Frame /\ f.pc = "return"
      BY <1>t DEF Frame, Pcs, Statuses
    <3>2. SetTop(s, f)
      BY <2>1 DEF Abandon
    <3> HIDE DEF f
    <3> QED BY <3>1, <3>2
  <2>2. CASE ~Abandon(s, Top(s))
    <3>1. SetTop(s, [Top(s) EXCEPT !.pc = IF ctx.diag_cb THEN cb ELSE next,
                                   !.status = "INVALID_ARGUMENT"])
      BY <1>g, <2>2 DEF Diagnose
    <3>2. (IF ctx.diag_cb THEN cb ELSE next) \in Pcs \ {"flush"}
      OBVIOUS
    <3>3. "INVALID_ARGUMENT" \in Statuses
      BY DEF Statuses
    <3> QED BY <1>q, <3>1, <3>2, <3>3
  <2> QED BY <2>1, <2>2
<1>c. {"cb_start", "begin", "check", "return", "cb_format", "cb_diag", "machine",
       "finish", "format", "create", "serialize", "cb_done"} \subseteq Pcs \ {"flush"}
  BY DEF Pcs, Callbacks
<1>1. CASE RunEnter(s)
  <2>1. SetTop(s, [Top(s) EXCEPT !.pc = IF EmitsLog(LogInfo) THEN "cb_start" ELSE "begin"])
    BY <1>1 DEF RunEnter
  <2>2. (IF EmitsLog(LogInfo) THEN "cb_start" ELSE "begin") \in Pcs \ {"flush"}
    BY <1>c
  <2>3. \E f \in Frame : SetTop(s, f) /\ f.pc # "flush"
    BY <1>p, <2>1, <2>2
  <2> QED BY <1>0, <1>d, <2>3
<1>2. CASE RunMakeResult(s)
  <2>1. PICK r \in Results : SetTop(s, [Top(s) EXCEPT !.pc = "check", !.res = r])
    BY <1>2 DEF RunMakeResult
  <2> DEFINE f == [Top(s) EXCEPT !.pc = "check", !.res = r]
  <2>2. f \in Frame /\ f.pc = "check"
    BY <1>t DEF Frame, Pcs
  <2>3. SetTop(s, f)
    BY <2>1
  <2> HIDE DEF f
  <2> QED BY <1>0, <1>d, <2>2, <2>3
<1>3. CASE RunMakeResultFails(s)
  <2>1. SetTop(s, [Top(s) EXCEPT !.pc = "return", !.status = "OUT_OF_MEMORY"])
    BY <1>3 DEF RunMakeResultFails
  <2>2. \E f \in Frame : SetTop(s, f) /\ f.pc # "flush"
    BY <1>c, <1>q, <2>1 DEF Statuses
  <2> QED BY <1>0, <1>d, <2>2
<1>4. CASE RunCheck(s)
  <2>1. \/ \E c \in Causes : Diagnose(s, Top(s), c, "cb_diag", "finish")
        \/ SetTop(s, [Top(s) EXCEPT !.pc = "format"])
    BY <1>4 DEF RunCheck, Causes
  <2>2. \E f \in Frame : SetTop(s, f) /\ f.pc # "flush"
    BY <1>c, <1>g, <1>p, <2>1
  <2> QED BY <1>0, <1>d, <2>2
<1>5. CASE RunFindFormat(s)
  <2> DEFINE n == OrDefault(snapshot[s].format)
  <2>1. CASE Diagnose(s, Top(s), "unknown_format", "cb_format", "machine")
    <3>1. \E f \in Frame : SetTop(s, f) /\ f.pc # "flush"
      BY <1>c, <1>g, <2>1
    <3> QED BY <1>0, <1>d, <3>1
  <2>2. CASE ~Diagnose(s, Top(s), "unknown_format", "cb_format", "machine")
    <3> DEFINE f == [Top(s) EXCEPT !.pc = "machine", !.def = DefOf[n]]
    <3>1. PICK look \in Lookups("format", n) : look.found /\ SetTop(s, f)
      BY <1>5, <2>2 DEF RunFindFormat
    <3>2. DefOf[n] \in Formats
      BY <1>b, <3>1, LookupSound DEF Kinds, Base
    <3>3. f \in Frame /\ f.pc = "machine"
      BY <1>t, <3>2 DEF Frame, Pcs
    <3> HIDE DEF f
    <3> QED BY <1>0, <1>d, <3>1, <3>3
  <2> QED BY <2>1, <2>2
<1>6. CASE RunFindMachine(s)
  <2>1. \/ Diagnose(s, Top(s), "unknown_machine", "cb_diag", "finish")
        \/ SetTop(s, [Top(s) EXCEPT !.pc = IF Top(s).status = "OK"
                                             THEN "create" ELSE "finish"])
    BY <1>6 DEF RunFindMachine
  <2>2. (IF Top(s).status = "OK" THEN "create" ELSE "finish") \in Pcs \ {"flush"}
    BY <1>c
  <2>3. \E f \in Frame : SetTop(s, f) /\ f.pc # "flush"
    BY <1>c, <1>g, <1>p, <2>1, <2>2
  <2> QED BY <1>0, <1>d, <2>3
<1>7. CASE RunCreateInstance(s)
  <2>1. \/ SetTop(s, [Top(s) EXCEPT !.pc = "serialize"])
        \/ SetTop(s, [Top(s) EXCEPT !.pc = "finish", !.status = "OUT_OF_MEMORY"])
    BY <1>7 DEF RunCreateInstance
  <2>2. "OUT_OF_MEMORY" \in Statuses
    BY DEF Statuses
  <2>3. \E f \in Frame : SetTop(s, f) /\ f.pc # "flush"
    BY <1>c, <1>p, <1>q, <2>1, <2>2
  <2> QED BY <1>0, <1>d, <2>3
<1>8. CASE RunOpenOutput(s)
  <2>1. "IO_ERROR" \in Statuses
    BY DEF Statuses
  <2>2. \E f \in Frame : SetTop(s, f) /\ f.pc # "flush"
    BY <1>8, <1>c, <1>q, <2>1
  <2> QED BY <1>0, <1>d, <2>2
<1>9. CASE RunFlushOutput(s)
  <2> DEFINE f == [Top(s) EXCEPT !.pc = "finish", !.size = PayloadSize[Top(s).def]]
  <2>1. Top(s).pc = "flush" /\ SetTop(s, f)
    BY <1>9 DEF RunFlushOutput
  <2>2. PayloadSize[Top(s).def] \in Nat
    BY <1>t, <2>1 DEF FrameOK
  <2>3. f \in Frame /\ f.pc = "finish"
    BY <1>t, <2>2 DEF Frame, Pcs
  <2> HIDE DEF f
  <2> QED BY <1>0, <1>d, <2>1, <2>3
<1>10. CASE RunFinish(s)
  <2> DEFINE f == [Top(s) EXCEPT !.res = NoResult,
                     !.pc = IF EmitsLog(IF Top(s).status = "OK" THEN LogInfo
                                                               ELSE LogError)
                              THEN "cb_done" ELSE "return"]
  <2>1. SetTop(s, f)
    BY <1>10 DEF RunFinish
  <2>2. f \in Frame /\ f.pc \in {"cb_done", "return"}
    BY <1>t DEF Frame, Pcs, Callbacks
  <2> HIDE DEF f
  <2> QED BY <1>0, <1>d, <2>1, <2>2
<1>11. CASE CallbackReturn(s)
  <2>1. SetTop(s, [Top(s) EXCEPT !.pc = AfterCallback(Top(s).pc)])
          /\ Top(s).pc \in Callbacks
    BY <1>11 DEF CallbackReturn, InCallback
  <2>2. AfterCallback(Top(s).pc) \in {"begin", "machine", "finish", "return"}
    BY <2>1 DEF AfterCallback, Callbacks
  <2>3. \E f \in Frame : SetTop(s, f) /\ f.pc # "flush"
    BY <1>c, <1>p, <2>1, <2>2
  <2> QED BY <1>0, <1>d, <2>3
<1> QED BY <1>1, <1>2, <1>3, <1>4, <1>5, <1>6, <1>7, <1>8, <1>9, <1>10, <1>11
        DEF RunMove

\* A run that is writing can only close its output.
LEMMA WriterCloses ==
  ASSUME IInv, NEW s \in Sessions, Writes(s)
  PROVE  /\ RunMove(s) => RunFlushOutput(s)
         /\ ~RunReturn(s)
         /\ ~CallerStep(s)
<1>1. depth[s] > 0 /\ Top(s).pc = "flush" /\ s \in live
  BY DEF Writes, At, IInv, Base, StackOK
<1>2. RunMove(s) => RunFlushOutput(s)
  BY <1>1 DEF At, RunMove, RunEnter, RunMakeResult, RunMakeResultFails, RunCheck,
              RunFindFormat, RunFindMachine, RunCreateInstance, RunOpenOutput,
              RunFinish, CallbackReturn, InCallback, Callbacks
<1>3. ~RunReturn(s)
  BY <1>1 DEF RunReturn, At
<1>4. ~CallerStep(s)
  <2>1. ~CallerMayUse(s) /\ ~Unused(s) /\ depth[s] # 0
    BY <1>1 DEF CallerMayUse, InCallback, Callbacks, Unused
  <2> QED BY <2>1 DEF CallerStep, olnk_session_create, SessionCopyFails, olnk_link,
              olnk_session_destroy, olnk_session_reset, olnk_session_set_option,
              olnk_session_run, NewSession
<1> QED BY <1>2, <1>3, <1>4

\* Every step opens an output, closes one, or leaves the writers and the files
\* as they are.
WritersRest ==
  file' = file /\ \A t \in Sessions : SameWriter(t) /\ (Writes(t) => Writes(t)')

LEMMA WriterSteps ==
  ASSUME IInv, IInv', [Next]_vars
  PROVE  \/ WritersRest
         \/ \E s \in Sessions : RunOpenOutput(s) /\ \E f \in Frame : OpensOutput(s, f)
         \/ \E s \in Sessions : RunFlushOutput(s)
         \/ \E s \in Sessions : RunTerminates(s)
<1>b. Base
  BY DEF IInv
<1>1. ASSUME NEW s \in Sessions, CallerStep(s) \/ RunReturn(s) PROVE WritersRest
  <2>1. \A t \in Sessions \ {s} : Rests(t)
    BY <1>1, <1>b, LocalStep
  <2>2. ~Writes(s)
    BY <1>1, WriterCloses
  <2>3. ~Writes(s)'
    <3>1. s \notin instances
      <4>1. CASE RunReturn(s)
        BY <4>1 DEF RunReturn, At, IInv, InstancesBalanced
      <4>2. CASE CallerStep(s)
        <5>1. CallerMayUse(s) \/ Unused(s) \/ depth[s] = 0
          BY <4>2 DEF CallerStep, olnk_session_create, SessionCopyFails, olnk_link,
                 olnk_session_destroy, olnk_session_reset, olnk_session_set_option,
                 olnk_session_run, NewSession
        <5>2. depth[s] > 0 => s \in live
          BY DEF IInv, Base, StackOK
        <5>3. depth[s] = 0 \/ InCallback(s)
          <6>1. depth[s] \in 0..MaxDepth
            BY DEF IInv, Base, TypeOK
          <6> QED BY <5>1, <5>2, <6>1 DEF CallerMayUse, Unused
        <5> QED BY <5>3 DEF IInv, InstancesBalanced, At, InCallback, Callbacks
      <4> QED BY <1>1, <4>1, <4>2
    <3>2. instances' = instances
      <4>1. CASE RunReturn(s)
        BY <4>1 DEF RunReturn
      <4>2. CASE CallerStep(s)
        BY <4>2 DEF CallerStep, olnk_session_create, SessionCopyFails, olnk_link,
               olnk_session_destroy, olnk_session_reset, olnk_session_set_option,
               olnk_session_run, NewSession
      <4> QED BY <1>1, <4>1, <4>2
    <3> QED BY <3>1, <3>2 DEF IInv, InstancesBalanced, Writes
  <2>4. \A t \in Sessions \ {s} : SameWriter(t) /\ (Writes(t) => Writes(t)')
    BY <2>1 DEF Rests, SameWriter, Writes, At, Top
  <2>5. file' = file
    <3>1. CASE RunReturn(s)
      BY <3>1 DEF RunReturn
    <3>2. CASE CallerStep(s)
      BY <3>2 DEF CallerStep, olnk_session_create, SessionCopyFails, olnk_link,
             olnk_session_destroy, olnk_session_reset, olnk_session_set_option,
             olnk_session_run, NewSession
    <3> QED BY <1>1, <3>1, <3>2
  <2> QED BY <2>2, <2>3, <2>4, <2>5 DEF WritersRest, SameWriter
<1>2. ASSUME NEW s \in Sessions, RunMove(s), ~RunFlushOutput(s),
             RunOpenOutput(s) => SetTop(s, [Top(s) EXCEPT !.pc = "finish",
                                                          !.status = "IO_ERROR"])
      PROVE  WritersRest
  <2>1. /\ depth[s] > 0 /\ depth' = depth /\ snapshot' = snapshot
        /\ \E f \in Frame : SetTop(s, f) /\ f.pc # "flush"
    BY <1>2, MovesElsewhere
  <2>2. PICK f \in Frame : SetTop(s, f) /\ f.pc # "flush"
    BY <2>1
  <2>3. \A t \in Sessions : SameWriter(t) /\ (t # s => (Writes(t)' <=> Writes(t)))
    BY <1>b, <2>1, <2>2, MoveWriters
  <2>4. ~Writes(s)
    BY <1>2, WriterCloses
  <2>5. file' = file
    <3>1. CASE RunOpenOutput(s)
      <4>1. frame'[s][depth[s]].pc # "flush"
        BY <1>b, <2>1, <2>2, SetTopExact
      <4>2. depth[s] \in 1..MaxDepth /\ Top(s) \in Frame
        BY <1>b, <2>1, TopFrame
      <4>3. CASE file' # file
        <5> DEFINE g == [Top(s) EXCEPT !.pc = "flush",
                                       !.sole = \A u \in Sessions : ~WritesPathOf(s, u)]
                   F(t, d) == IF t = s /\ d = depth[s] THEN g
                              ELSE IF WritesPathOf(s, t) /\ d = depth[t]
                                     THEN [Top(t) EXCEPT !.sole = FALSE]
                                     ELSE frame[t][d]
        <5>1. frame' = [t \in Sessions |-> [d \in 1..MaxDepth |-> F(t, d)]]
          BY <3>1, <4>3 DEF RunOpenOutput, WritesPathOf
        <5>2. g.pc = "flush" /\ F(s, depth[s]) = g
          BY <4>2 DEF Frame
        <5> HIDE DEF F, g
        <5>3. frame'[s][depth[s]] = F(s, depth[s])
          BY <4>2, <5>1
        <5> QED BY <4>1, <5>2, <5>3
      <4> QED BY <4>3
    <3>2. CASE ~RunOpenOutput(s)
      BY <1>2, <3>2 DEF RunMove, RunEnter, RunMakeResult, RunMakeResultFails, RunCheck,
             RunFindFormat, RunFindMachine, RunCreateInstance, RunFinish, CallbackReturn
    <3> QED BY <3>1, <3>2
  <2> QED BY <2>3, <2>4, <2>5 DEF WritersRest
<1>3. ASSUME NEW s \in Sessions, RunOpenOutput(s),
             ~SetTop(s, [Top(s) EXCEPT !.pc = "finish", !.status = "IO_ERROR"])
      PROVE  RunOpenOutput(s) /\ \E f \in Frame : OpensOutput(s, f)
  BY <1>3, <1>b, OpenFrames
<1>4. ASSUME UNCHANGED <<depth, frame, snapshot, file>> PROVE WritersRest
  BY <1>4 DEF WritersRest, SameWriter, Writes, At, Top
<1>5. CASE \/ \E l \in LogLevels : olnk_context_set_log_level(l)
           \/ \E on \in CallbackModes : olnk_context_set_log_callback(on)
           \/ \E on \in CallbackModes : olnk_context_set_diagnostic_callback(on)
           \/ EditConfig \/ UNCHANGED vars \/ \E r \in Results : olnk_result_destroy(r)
  <2>1. UNCHANGED <<depth, frame, snapshot, file>>
    BY <1>5 DEF olnk_context_set_log_level, olnk_context_set_log_callback,
                olnk_context_set_diagnostic_callback, EditConfig,
                olnk_result_destroy, objVars, vars
  <2> QED BY <1>4, <2>1
<1>6. ASSUME NEW s \in Sessions, RunStep(s) \/ CallbackReturn(s)
      PROVE  RunMove(s) \/ RunReturn(s)
  BY <1>6 DEF RunStep, RunMove
<1> QED BY <1>1, <1>2, <1>3, <1>5, <1>6 DEF Next, Step

\* Opening makes a file empty, and the run that opens it sole only if nobody
\* else is writing it; those who are lose that.
LEMMA OpenKeepsSole ==
  ASSUME IInv, SoleInv, ReportInv, NEW s \in Sessions, RunOpenOutput(s), NEW f \in Frame,
         OpensOutput(s, f)
  PROVE  SoleInv'
<1>1. depth' = depth /\ snapshot' = snapshot /\ depth[s] > 0
  BY DEF RunOpenOutput, objVars, At
<1>2. file \in [Paths -> Files] /\ snapshot[s].path \in Paths
  <2>1. Checked(lua, Top(s), snapshot[s]) /\ snapshot[s] \in Config
    BY <1>1, TopReports DEF IInv
  <2>2. Top(s).pc = "serialize"
    BY DEF RunOpenOutput, At
  <2> QED BY <2>1, <2>2 DEF Checked, PassedCheck, Config, IInv, Base, TypeOK
<1>3. /\ file'[snapshot[s].path] = EmptyFile
      /\ \A p \in Paths : p # snapshot[s].path => file'[p] = file[p]
  <2> HIDE DEF Files, EmptyFile
  <2> QED BY <1>2 DEF OpensOutput
<1>4. \A t \in Sessions : depth[t] > 0 => depth[t] \in 1..MaxDepth
  BY DEF IInv, Base, TypeOK
<1>5. \A t \in Sessions \ {s} : Writes(t)' <=> Writes(t)
  BY <1>1, <1>4 DEF OpensOutput, Alike, Writes, At, Top
<1>6. Top(s)' = f /\ Writes(s)'
  BY <1>1 DEF OpensOutput, Writes, At, Top
<1>7. \A t \in Sessions \ {s} : Writes(t) =>
        IF snapshot[t].path = snapshot[s].path THEN ~Top(t)'.sole
                                               ELSE Top(t)' = Top(t)
  BY <1>1, <1>4 DEF OpensOutput, WritesPathOf, Writes, At, Top
<1> SUFFICES ASSUME NEW u \in Sessions, Writes(u)', Top(u)'.sole
             PROVE  /\ file'[snapshot[u].path] = EmptyFile
                    /\ \A t \in Sessions \ {u} :
                         Writes(t)' => snapshot[t].path # snapshot[u].path
  BY <1>1 DEF SoleInv, SoleFact, Writes
<1>8. CASE u = s
  <2>1. \A t \in Sessions : ~WritesPathOf(s, t)
    BY <1>6, <1>8 DEF OpensOutput
  <2> QED BY <1>3, <1>5, <1>8, <2>1 DEF WritesPathOf, Writes
<1>9. CASE u # s
  <2>1. Writes(u) /\ snapshot[u].path # snapshot[s].path /\ Top(u).sole
    BY <1>5, <1>7, <1>9
  <2>2. /\ file[snapshot[u].path] = EmptyFile
        /\ \A t \in Sessions \ {u} : Writes(t) => snapshot[t].path # snapshot[u].path
    BY <2>1 DEF SoleInv, SoleFact, Writes
  <2>3. snapshot[u].path \in Paths
    <3>1. Checked(lua, Top(u), snapshot[u]) /\ snapshot[u] \in Config
      BY <2>1, TopReports DEF IInv, Writes, At
    <3> QED BY <2>1, <3>1 DEF Checked, PassedCheck, Config, Writes, At
  <2>4. file'[snapshot[u].path] = EmptyFile
    BY <1>3, <2>1, <2>2, <2>3
  <2>5. \A t \in Sessions \ {u} : Writes(t)' => snapshot[t].path # snapshot[u].path
    BY <1>5, <2>1, <2>2
  <2> QED BY <2>4, <2>5
<1> QED BY <1>8, <1>9

\* Closing changes a file that nobody else has alone.
LEMMA FlushKeepsSole ==
  ASSUME IInv, SoleInv, ReportInv, NEW s \in Sessions, RunFlushOutput(s)
  PROVE  /\ SoleInv'
         /\ \A t \in Sessions \ {s} : Writes(t)' <=> Writes(t)
         /\ Top(s).sole =>
              /\ file'[snapshot[s].path].len <= PayloadSize[Top(s).def]
              /\ file'[snapshot[s].path].by \in {Top(s).def, NoDef}
<1> DEFINE New(k, old) == [by  |-> IF k = 0 THEN old.by ELSE Top(s).def,
                           len |-> IF old.len > k THEN old.len ELSE k]
<1>1. /\ depth[s] > 0 /\ Top(s).pc = "flush" /\ Writes(s)
      /\ \E k \in 0..PayloadSize[Top(s).def] :
           file' = [file EXCEPT ![snapshot[s].path] = New(k, @)]
  BY DEF RunFlushOutput, At, Writes
<1>2. PICK k \in 0..PayloadSize[Top(s).def] :
        file' = [file EXCEPT ![snapshot[s].path] = New(k, @)]
  BY <1>1
<1>3. RunMove(s) /\ ~RunOpenOutput(s)
  BY <1>1 DEF RunMove, RunOpenOutput, At
<1>4. /\ depth' = depth /\ snapshot' = snapshot
      /\ \E f \in Frame : SetTop(s, f) /\ f.pc # "flush"
  BY <1>3, MovesElsewhere
<1>5. \A t \in Sessions : SameWriter(t) /\ (t # s => (Writes(t)' <=> Writes(t)))
  BY <1>1, <1>4, MoveWriters DEF IInv
<1>6. ~Writes(s)'
  BY <1>1, <1>4, SetTopExact DEF IInv, Writes, At, Top
<1>7. \A t \in Sessions : Writes(t) => snapshot[t].path \in Paths
  <2> SUFFICES ASSUME NEW t \in Sessions, Writes(t) PROVE snapshot[t].path \in Paths
    OBVIOUS
  <2>1. Checked(lua, Top(t), snapshot[t]) /\ snapshot[t] \in Config
    BY TopReports DEF IInv, Writes, At
  <2> QED BY <2>1 DEF Checked, PassedCheck, Config, Writes, At
<1>8. file \in [Paths -> Files]
  BY DEF IInv, Base, TypeOK
<1>9. /\ file'[snapshot[s].path] = New(k, file[snapshot[s].path])
      /\ \A p \in Paths : p # snapshot[s].path => file'[p] = file[p]
  <2> HIDE DEF Files, New
  <2> QED BY <1>1, <1>2, <1>7, <1>8
<1>10. SoleInv'
  <2> SUFFICES ASSUME NEW u \in Sessions, Writes(u)', Top(u)'.sole
               PROVE  /\ file'[snapshot[u].path] = EmptyFile
                      /\ \A t \in Sessions \ {u} :
                           Writes(t)' => snapshot[t].path # snapshot[u].path
    BY <1>4 DEF SoleInv, SoleFact, Writes
  <2>1. u # s /\ Writes(u) /\ Top(u).sole
    BY <1>5, <1>6 DEF SameWriter
  <2>2. /\ file[snapshot[u].path] = EmptyFile
        /\ \A t \in Sessions \ {u} : Writes(t) => snapshot[t].path # snapshot[u].path
    BY <2>1 DEF SoleInv, SoleFact, Writes
  <2>3. snapshot[u].path # snapshot[s].path /\ snapshot[u].path \in Paths
    BY <1>1, <1>7, <2>1, <2>2
  <2>4. \A t \in Sessions : Writes(t)' => Writes(t)
    BY <1>5 DEF SameWriter
  <2> QED BY <1>9, <2>2, <2>3, <2>4
<1>11. ASSUME Top(s).sole
       PROVE  /\ file'[snapshot[s].path].len <= PayloadSize[Top(s).def]
              /\ file'[snapshot[s].path].by \in {Top(s).def, NoDef}
  <2>1. file[snapshot[s].path] = EmptyFile
    BY <1>1, <1>11 DEF SoleInv, SoleFact, Writes
  <2>2. Top(s).def \in Formats /\ PayloadSize[Top(s).def] \in Nat
    BY <1>1, TopFrame DEF IInv, FrameOK
  <2>3. New(k, EmptyFile).len = (IF 0 > k THEN 0 ELSE k)
          /\ New(k, EmptyFile).by \in {Top(s).def, NoDef}
    BY DEF EmptyFile
  <2>4. (IF 0 > k THEN 0 ELSE k) <= PayloadSize[Top(s).def]
    BY <2>2
  <2> HIDE DEF New
  <2> QED BY <1>9, <2>1, <2>3, <2>4
<1> QED BY <1>5, <1>10, <1>11

\* Every step keeps SoleInv, and the one that closes a sole run's output leaves
\* its own bytes.
LEMMA StepSole ==
  ASSUME IInv, IInv', ReportInv, SoleInv, [Next]_vars
  PROVE  /\ SoleInv'
         /\ \A s \in Sessions :
              Writes(s) /\ ~Writes(s)' /\ Top(s).sole =>
                /\ file'[snapshot[s].path].len <= PayloadSize[Top(s).def]
                /\ file'[snapshot[s].path].by \in {Top(s).def, NoDef}
<1>1. CASE WritersRest
  BY <1>1, SameWriters DEF WritersRest
<1>2. ASSUME NEW s \in Sessions, RunOpenOutput(s), NEW f \in Frame, OpensOutput(s, f)
      PROVE  /\ SoleInv'
             /\ \A t \in Sessions : Writes(t) => Writes(t)'
  <2>1. SoleInv'
    BY <1>2, OpenKeepsSole
  <2>2. depth' = depth /\ depth[s] > 0 /\ Top(s).pc = "serialize"
    BY <1>2 DEF RunOpenOutput, At
  <2>3. \A t \in Sessions : depth[t] > 0 => depth[t] \in 1..MaxDepth
    BY DEF IInv, Base, TypeOK
  <2>4. \A t \in Sessions : Writes(t) => Writes(t)'
    BY <1>2, <2>2, <2>3 DEF OpensOutput, Alike, Writes, At, Top
  <2> QED BY <2>1, <2>4
<1>3. ASSUME NEW s \in Sessions, RunFlushOutput(s)
      PROVE  /\ SoleInv'
             /\ \A t \in Sessions : Writes(t) /\ ~Writes(t)' /\ Top(t).sole =>
                  /\ file'[snapshot[t].path].len <= PayloadSize[Top(t).def]
                  /\ file'[snapshot[t].path].by \in {Top(t).def, NoDef}
  BY <1>3, FlushKeepsSole
<1>4. ASSUME NEW s \in Sessions, RunTerminates(s)
      PROVE  SoleInv' /\ \A t \in Sessions : Writes(t)' <=> Writes(t)
  <2>1. /\ depth' = depth /\ frame' = frame /\ snapshot' = snapshot
        /\ file' \in {file, [file EXCEPT ![snapshot[s].path] = EmptyFile]}
    BY <1>4 DEF RunTerminates, Opened, objVars
  <2>2. file \in [Paths -> Files]
    BY DEF IInv, Base, TypeOK
  <2>3. \A p \in Paths : file[p] = EmptyFile => file'[p] = EmptyFile
    <3> HIDE DEF Files, EmptyFile
    <3> QED BY <2>1, <2>2
  <2>4. \A t \in Sessions : Writes(t) => snapshot[t].path \in Paths
    <3> SUFFICES ASSUME NEW t \in Sessions, Writes(t) PROVE snapshot[t].path \in Paths
      OBVIOUS
    <3>1. Checked(lua, Top(t), snapshot[t]) /\ snapshot[t] \in Config
      BY TopReports DEF IInv, Writes, At
    <3> QED BY <3>1 DEF Checked, PassedCheck, Config, Writes, At
  <2>5. \A t \in Sessions : (Writes(t)' <=> Writes(t)) /\ Top(t)' = Top(t)
    BY <2>1 DEF Writes, At, Top
  <2> SUFFICES ASSUME NEW u \in Sessions, Writes(u)', Top(u)'.sole
               PROVE  /\ file'[snapshot[u].path] = EmptyFile
                      /\ \A t \in Sessions \ {u} :
                           Writes(t)' => snapshot[t].path # snapshot[u].path
    BY <2>1, <2>5 DEF SoleInv, SoleFact, Writes
  <2>6. /\ file[snapshot[u].path] = EmptyFile
        /\ \A t \in Sessions \ {u} : Writes(t) => snapshot[t].path # snapshot[u].path
    BY <2>5 DEF SoleInv, SoleFact, Writes
  <2> QED BY <2>3, <2>4, <2>5, <2>6
<1> QED BY <1>1, <1>2, <1>3, <1>4, WriterSteps

\* A sole run has its file to itself throughout.
LEMMA SoleInvariance == Spec => []SoleInv
<1>1. Init => SoleInv
  BY DEF Init, SoleInv, SoleFact, At
<1>2. IInv /\ IInv' /\ ReportInv /\ SoleInv /\ [Next]_vars => SoleInv'
  BY StepSole
<1> QED BY <1>1, <1>2, Invariance, ReportsInvariance, PTL DEF Spec

\* When a run that no other session raced on its path closes the output, the
\* file holds its payload or a prefix of it and nothing of an earlier output:
\* write_output_file truncates, for any payload sizes and any order of runs.
THEOREM ContentCorrect == Spec => SoleWriterOwnsContent
<1>1. ASSUME IInv, IInv', ReportInv, SoleInv, [Next]_vars
      PROVE  [\A s \in Sessions :
                LET f == Top(s)
                    p == snapshot[s].path
                IN At(s, "flush") /\ ~At(s, "flush")' /\ f.sole =>
                     /\ file'[p].len <= PayloadSize[f.def]
                     /\ file'[p].by \in {f.def, NoDef}]_vars
  BY <1>1, StepSole DEF Writes
<1>2. IInv /\ IInv' /\ ReportInv /\ SoleInv /\ [Next]_vars =>
        [\A s \in Sessions :
           LET f == Top(s)
               p == snapshot[s].path
           IN At(s, "flush") /\ ~At(s, "flush")' /\ f.sole =>
                /\ file'[p].len <= PayloadSize[f.def]
                /\ file'[p].by \in {f.def, NoDef}]_vars
  BY <1>1
<1> QED BY <1>2, Invariance, ReportsInvariance, SoleInvariance, PTL
        DEF Spec, SoleWriterOwnsContent
=============================================================================
