-------------------------- MODULE IncrementalCache --------------------------
(***************************************************************************)
(* IncrementalCache of src/olnk/incremental.cpp: metadata by cache key,    *)
(* for one supported schema version.                                       *)
(***************************************************************************)
EXTENDS Naturals

CONSTANTS CacheKeys, EmptyKey,
          Schemas      \* bound: schema versions callers come with

ASSUME CacheAssumption == EmptyKey \notin CacheKeys /\ 1 \in Schemas

VARIABLES supported,   \* supported_schema_version_
          cached,      \* entries_
          loaded       \* the last answer of try_load and what was asked

cacheVars == <<supported, cached, loaded>>

Metadata == [schema: Schemas, key: CacheKeys \cup {EmptyKey}]

\* What a default-constructed IncrementalMetadata says
NoMetadata == [schema |-> 1, key |-> EmptyKey]
NotAsked == [key |-> EmptyKey, on_disk |-> 1, status |-> "kDisabled", metadata |-> NoMetadata]

CacheInit ==
  /\ supported = 1
  /\ cached = [k \in {} |-> NoMetadata]
  /\ loaded = NotAsked

\* A new cache object, of another version of the program
Construct_Cache(v) ==
  /\ supported' = v
  /\ cached' = [k \in {} |-> NoMetadata]
  /\ loaded' = NotAsked

\* Mutant: the schema of the metadata is taken as it comes.
store_AnySchema(m) ==
  /\ m.key # EmptyKey
  /\ cached' = [k \in DOMAIN cached \cup {m.key} |-> IF k = m.key THEN m ELSE cached[k]]
  /\ UNCHANGED <<supported, loaded>>

\* kInvalidArgument and kIncompatible leave the entries alone.
store(m) ==
  /\ m.key # EmptyKey
  /\ m.schema = supported
  /\ cached' = [k \in DOMAIN cached \cup {m.key} |-> IF k = m.key THEN m ELSE cached[k]]
  /\ UNCHANGED <<supported, loaded>>

try_load(key, on_disk) ==
  LET Answer(status, m) ==
        loaded' = [key |-> key, on_disk |-> on_disk, status |-> status, metadata |-> m]
  IN /\ \/ key = EmptyKey /\ Answer("kInvalidArgument", NoMetadata)
        \/ /\ key # EmptyKey /\ on_disk # supported
           /\ Answer("kIncompatible", NoMetadata)
        \/ /\ key # EmptyKey /\ on_disk = supported /\ key \notin DOMAIN cached
           /\ Answer("kCacheMiss", NoMetadata)
        \/ /\ key # EmptyKey /\ on_disk = supported /\ key \in DOMAIN cached
           /\ Answer("kOk", cached[key])
     /\ UNCHANGED <<supported, cached>>

CacheNext ==
  \/ \E v \in Schemas : Construct_Cache(v)
  \/ \E m \in Metadata : store(m)
  \/ \E k \in CacheKeys \cup {EmptyKey}, v \in Schemas : try_load(k, v)

CacheSpec == CacheInit /\ [][CacheNext]_cacheVars

-----------------------------------------------------------------------------
\* "Never let stale cache state corrupt current link decisions": a hit is
\* metadata of the key that was asked for, and its schema, that of the caller's
\* file and the supported one are the same.
HitIsCompatible ==
  loaded.status = "kOk" =>
    loaded.metadata = [schema |-> supported, key |-> loaded.key] /\ loaded.on_disk = supported
=============================================================================
