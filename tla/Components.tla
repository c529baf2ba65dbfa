----------------------------- MODULE Components -----------------------------
(***************************************************************************)
(* Four components of the program side by side: the layout classes, the    *)
(* plugin host, the executable and the counter behind olnk_initialize and  *)
(* olnk_shutdown. What the executable does to the counter is in its own    *)
(* module; beyond that they share no state, and a behaviour is that of one *)
(* component.                                                              *)
(***************************************************************************)
EXTENDS Layout, PluginHost, Cli, LibraryLifecycle

VARIABLE component  \* the component at work

AllComponents == {"layout", "plugin_host", "cli", "lifecycle"}

componentsVars == <<component, layoutVars, hostVars, cliVars, lifecycleVars>>

\* A component that is not at work has one initial state only.
ComponentsInit ==
  /\ component \in AllComponents
  /\ LayoutInit /\ HostInit /\ CliInit /\ LifecycleInit
  /\ component # "layout" => layouter = "OutputBuilder"
  /\ component # "plugin_host" => dir = CHOOSE d \in Directories : TRUE
  /\ component # "cli" => req = CHOOSE r \in Requests : TRUE

\* The process has exited, or has been aborted.
CliEnded == step \in {"exited", "aborted"} /\ UNCHANGED cliVars

ComponentsNext ==
  /\ UNCHANGED component
  /\ \/ component = "layout" /\ LayoutNext
           /\ UNCHANGED <<hostVars, cliVars, lifecycleVars>>
     \/ component = "plugin_host" /\ HostNext
           /\ UNCHANGED <<layoutVars, cliVars, lifecycleVars>>
     \/ component = "cli" /\ (CliNext \/ CliEnded)
           /\ UNCHANGED <<layoutVars, hostVars, lifecycleVars>>
     \/ component = "lifecycle" /\ LifecycleNext
           /\ UNCHANGED <<layoutVars, hostVars, cliVars>>

ComponentsSpec == ComponentsInit /\ [][ComponentsNext]_componentsVars

\* The fairness of FairLifecycleSpec, and none for the other components.
FairComponentsSpec == ComponentsSpec /\ \A t \in Threads : WF_lifecycleVars(Progress(t))
=============================================================================
