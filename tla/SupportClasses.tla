--------------------------- MODULE SupportClasses ---------------------------
(***************************************************************************)
(* The stand-alone parts of the library side by side: the tables of the    *)
(* link core, the hash builder, file access, the task runner, the          *)
(* incremental cache, the IR iterators and the registries. They share no   *)
(* state; a behaviour is that of the objects of one part.                  *)
(***************************************************************************)
EXTENDS LinkTables, HashBuilder, FileAccess, TaskRunner, IncrementalCache, IrIterator,
        Registry

VARIABLE part  \* the part at work

SupportParts == {"tables", "hash", "files", "tasks", "cache", "ir", "registry"}

supportVars == <<part, vars, hashVars, fileVars, taskVars, cacheVars, irVars, registryVars>>

SupportInit ==
  /\ part \in SupportParts
  /\ Init /\ HashInit /\ FileInit /\ TaskInit /\ CacheInit /\ IrInit /\ RegistryInit
  /\ part # "tables" => class = "SymbolTable"
  /\ part # "registry" => side = "format" /\ profile = [p \in 1..Profiles |-> Unreadable]

SupportNext ==
  /\ UNCHANGED part
  /\ \/ part = "tables" /\ Next
           /\ UNCHANGED <<hashVars, fileVars, taskVars, cacheVars, irVars, registryVars>>
     \/ part = "hash" /\ HashNext
           /\ UNCHANGED <<vars, fileVars, taskVars, cacheVars, irVars, registryVars>>
     \/ part = "files" /\ FileNext
           /\ UNCHANGED <<vars, hashVars, taskVars, cacheVars, irVars, registryVars>>
     \/ part = "tasks" /\ TaskNext
           /\ UNCHANGED <<vars, hashVars, fileVars, cacheVars, irVars, registryVars>>
     \/ part = "cache" /\ CacheNext
           /\ UNCHANGED <<vars, hashVars, fileVars, taskVars, irVars, registryVars>>
     \/ part = "ir" /\ IrNext
           /\ UNCHANGED <<vars, hashVars, fileVars, taskVars, cacheVars, registryVars>>
     \/ part = "registry" /\ RegistryNext
           /\ UNCHANGED <<vars, hashVars, fileVars, taskVars, cacheVars, irVars>>

SupportSpec == SupportInit /\ [][SupportNext]_supportVars
=============================================================================
