---------------------------- MODULE ApiContract ----------------------------
(***************************************************************************)
(* What include/olnk/olnk-api.h expects of a client: an object is created  *)
(* only while the objects it refers to are alive, is destroyed once, and   *)
(* outlives every object that refers to it. "library" stands for a call    *)
(* of olnk_initialize that is not yet balanced by olnk_shutdown.           *)
(***************************************************************************)
VARIABLE objs   \* the client's live handles

Objects == {"library", "context", "config", "session", "result"}

\* A session keeps a pointer to its context; the config is copied into it.
Needs(o) ==
  CASE o = "library" -> {}
    [] o = "session" -> {"library", "context"}
    [] OTHER         -> {"library"}

Init == objs = {}

Create(o) ==
  /\ o \notin objs
  /\ Needs(o) \subseteq objs
  /\ objs' = objs \cup {o}

Destroy(o) ==
  /\ o \in objs
  /\ \A p \in objs : o \notin Needs(p)
  /\ objs' = objs \ {o}

Next == \E o \in Objects : Create(o) \/ Destroy(o)

Spec == Init /\ [][Next]_objs
=============================================================================
