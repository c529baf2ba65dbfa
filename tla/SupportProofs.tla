--------------------------- MODULE SupportProofs ----------------------------
(***************************************************************************)
(* What the stand-alone parts of the library promise, each proved from the *)
(* specification of that part alone and for every value of its constants.  *)
(***************************************************************************)
EXTENDS SupportClasses, Induction, FiniteSetTheorems, SequenceTheorems, TLAPS

\* Hash builder

HashCell == [seed: Nat, bytes: Seq(Nat)]

HashType ==
  /\ built \subseteq Builders
  /\ builder \in [Builders -> [state: XxhStates \cup {NoState}, seed: Nat]]
  /\ DOMAIN xxh \subseteq XxhStates /\ xxh \in [DOMAIN xxh -> HashCell]
  /\ told \in [Builders -> [seed: Nat, bytes: Seq(Nat), lossy: BOOLEAN]]

\* A builder with a state has fed it all it was told, one without is lossy.
Agrees(b) ==
  /\ builder[b].seed = told[b].seed
  /\ IF builder[b].state = NoState THEN told[b].lossy
     ELSE /\ ~told[b].lossy
          /\ xxh[builder[b].state] = [seed |-> told[b].seed, bytes |-> told[b].bytes]

HashInv ==
  /\ HashType
  /\ StatesOwned
  /\ \A b \in Builders : Agrees(b) /\ (b \notin built => builder[b].state = NoState)

\* A builder that is constructed owns a state of its own or, if none could be
\* allocated, nothing.
LEMMA ConstructKeeps ==
  ASSUME NEW b \in Builders, NEW seed \in Seeds, HashInv, Construct(b, seed)
  PROVE  HashInv'
<1>1. CASE \E x \in XxhStates \ DOMAIN xxh :
          /\ xxh' = Alloc(x, seed)
          /\ builder' = [builder EXCEPT ![b] = [state |-> x, seed |-> seed]]
          /\ told' = [told EXCEPT ![b] = [seed |-> seed, bytes |-> << >>, lossy |-> FALSE]]
  <2>1. PICK x \in XxhStates \ DOMAIN xxh :
          /\ xxh' = Alloc(x, seed)
          /\ builder' = [builder EXCEPT ![b] = [state |-> x, seed |-> seed]]
          /\ told' = [told EXCEPT ![b] = [seed |-> seed, bytes |-> << >>, lossy |-> FALSE]]
    BY <1>1
  <2>2. /\ DOMAIN xxh' = DOMAIN xxh \cup {x}
        /\ xxh'[x] = [seed |-> seed, bytes |-> << >>]
        /\ \A y \in DOMAIN xxh : xxh'[y] = xxh[y]
    BY <2>1 DEF Alloc
  <2>3. HashType'
    <3>1. xxh' \in [DOMAIN xxh' -> HashCell]
      BY <2>1, HashAssumption DEF HashInv, HashType, Alloc, HashCell
    <3>2. told' \in [Builders -> [seed: Nat, bytes: Seq(Nat), lossy: BOOLEAN]]
      BY <2>1, HashAssumption DEF HashInv, HashType
    <3> QED BY <2>1, <2>2, <3>1, <3>2, HashAssumption DEF HashInv, HashType, Construct
  <2>4. StatesOwned'
    BY <2>1, <2>2, HashAssumption DEF HashInv, HashType, StatesOwned, Construct
  <2>5. ASSUME NEW c \in Builders PROVE Agrees(c)' /\ (c \notin built' => builder'[c].state = NoState)
    <3>1. CASE c = b
      BY <2>1, <2>2, <3>1, HashAssumption DEF HashInv, HashType, Agrees, Construct
    <3>2. CASE c # b
      BY <2>1, <2>2, <3>2, HashAssumption DEF HashInv, HashType, StatesOwned, Agrees, Construct
    <3> QED BY <3>1, <3>2
  <2> QED BY <2>3, <2>4, <2>5 DEF HashInv
<1>2. CASE /\ builder' = [builder EXCEPT ![b] = [state |-> NoState, seed |-> seed]]
           /\ told' = [told EXCEPT ![b] = [seed |-> seed, bytes |-> << >>, lossy |-> TRUE]]
           /\ UNCHANGED xxh
  <2>1. HashType'
    BY <1>2, HashAssumption DEF HashInv, HashType, Construct
  <2>2. StatesOwned'
    BY <1>2, HashAssumption DEF HashInv, HashType, StatesOwned, Construct
  <2>3. ASSUME NEW c \in Builders PROVE Agrees(c)' /\ (c \notin built' => builder'[c].state = NoState)
    BY <1>2, HashAssumption DEF HashInv, HashType, Agrees, Construct
  <2> QED BY <2>1, <2>2, <2>3 DEF HashInv
<1> QED BY <1>1, <1>2 DEF Construct

\* XXH64_freeState takes away one state and leaves the others as they are.
LEMMA FreeIs ==
  ASSUME HashInv, NEW b \in Builders, xxh' = Free(builder[b].state)
  PROVE  /\ DOMAIN xxh' = DOMAIN xxh \ {builder[b].state}
         /\ \A y \in DOMAIN xxh' : xxh'[y] = xxh[y]
         /\ xxh' \in [DOMAIN xxh' -> HashCell]
BY DEF Free, HashInv, HashType

\* The destructor frees the state nobody else owns.
LEMMA DestroyKeeps ==
  ASSUME NEW b \in Builders, HashInv, Destroy(b)
  PROVE  HashInv'
<1>1. /\ DOMAIN xxh' = DOMAIN xxh \ {builder[b].state}
      /\ \A y \in DOMAIN xxh' : xxh'[y] = xxh[y]
      /\ xxh' \in [DOMAIN xxh' -> HashCell]
  BY FreeIs DEF Destroy
<1>2. HashType'
  BY <1>1 DEF HashInv, HashType, Destroy, Gone, Nothing
<1>3. StatesOwned'
  BY <1>1, HashAssumption DEF HashInv, HashType, StatesOwned, Destroy, Gone
<1>4. ASSUME NEW c \in Builders PROVE Agrees(c)' /\ (c \notin built' => builder'[c].state = NoState)
  <2>1. CASE c = b
    BY <1>1, <2>1 DEF HashInv, HashType, Agrees, Destroy, Gone, Nothing
  <2>2. CASE c # b
    BY <1>1, <2>2 DEF HashInv, HashType, StatesOwned, Agrees, Destroy
  <2> QED BY <2>1, <2>2
<1> QED BY <1>2, <1>3, <1>4 DEF HashInv

\* A move hands over the state: who owned what stays told apart.
LEMMA MoveIs ==
  ASSUME HashInv, NEW b \in Builders, NEW o \in Builders, b # o,
         builder' = [builder EXCEPT ![b] = builder[o], ![o] = Gone],
         told' = [told EXCEPT ![b] = told[o], ![o] = Nothing]
  PROVE  /\ \A c \in Builders : builder'[c] = IF c = o THEN Gone
                                  ELSE IF c = b THEN builder[o] ELSE builder[c]
         /\ \A c \in Builders : told'[c] = IF c = o THEN Nothing
                                  ELSE IF c = b THEN told[o] ELSE told[c]
         /\ builder' \in [Builders -> [state: XxhStates \cup {NoState}, seed: Nat]]
         /\ told' \in [Builders -> [seed: Nat, bytes: Seq(Nat), lossy: BOOLEAN]]
         /\ \A c, d \in Builders :
              builder'[c].state = builder'[d].state /\ builder'[c].state # NoState => c = d
<1>1. Gone \in [state: XxhStates \cup {NoState}, seed: Nat] /\ Gone.state = NoState
  BY DEF Gone
<1>2. Nothing \in [seed: Nat, bytes: Seq(Nat), lossy: BOOLEAN]
  BY DEF Nothing
<1>3. /\ \A c \in Builders : builder'[c] = IF c = o THEN Gone
                                  ELSE IF c = b THEN builder[o] ELSE builder[c]
      /\ builder' \in [Builders -> [state: XxhStates \cup {NoState}, seed: Nat]]
  BY <1>1 DEF HashInv, HashType
<1>4. /\ \A c \in Builders : told'[c] = IF c = o THEN Nothing
                                  ELSE IF c = b THEN told[o] ELSE told[c]
      /\ told' \in [Builders -> [seed: Nat, bytes: Seq(Nat), lossy: BOOLEAN]]
  BY <1>2 DEF HashInv, HashType
<1>5. ASSUME NEW c \in Builders, NEW d \in Builders,
             builder'[c].state = builder'[d].state, builder'[c].state # NoState
      PROVE  c = d
  <2>1. c # o /\ d # o
    BY <1>1, <1>3, <1>5
  <2> DEFINE src(e) == IF e = b THEN o ELSE e
  <2>2. builder[src(c)].state = builder[src(d)].state /\ builder[src(c)].state # NoState
    BY <1>3, <1>5, <2>1
  <2>3. src(c) = src(d)
    BY <2>2 DEF HashInv, StatesOwned
  <2> QED BY <2>1, <2>3
<1> QED BY <1>3, <1>4, <1>5

\* The move constructor passes the state on and leaves the other builder none.
LEMMA MoveConstructKeeps ==
  ASSUME NEW b \in Builders, NEW o \in Builders, HashInv, MoveConstruct(b, o)
  PROVE  HashInv'
<1>1. b # o /\ b \notin built /\ o \in built /\ built' = built \cup {b} /\ xxh' = xxh
  BY DEF MoveConstruct
<1>2. /\ \A c \in Builders : builder'[c] = IF c = o THEN Gone
                                  ELSE IF c = b THEN builder[o] ELSE builder[c]
      /\ \A c \in Builders : told'[c] = IF c = o THEN Nothing
                                  ELSE IF c = b THEN told[o] ELSE told[c]
      /\ builder' \in [Builders -> [state: XxhStates \cup {NoState}, seed: Nat]]
      /\ told' \in [Builders -> [seed: Nat, bytes: Seq(Nat), lossy: BOOLEAN]]
      /\ \A c, d \in Builders :
           builder'[c].state = builder'[d].state /\ builder'[c].state # NoState => c = d
  BY <1>1, MoveIs DEF MoveConstruct
<1>3. HashType'
  BY <1>1, <1>2 DEF HashInv, HashType
<1>4. StatesOwned'
  <2>1. Gone.state = NoState
    BY DEF Gone
  <2>2. \A c \in Builders : builder'[c].state \in {NoState} \cup DOMAIN xxh'
    BY <1>1, <1>2, <2>1 DEF HashInv, StatesOwned
  <2>3. ASSUME NEW x \in DOMAIN xxh' PROVE \E c \in built' : builder'[c].state = x
    <3>1. PICK c \in built : builder[c].state = x
      BY <1>1 DEF HashInv, StatesOwned
    <3>2. c \in Builders /\ c # b
      BY <1>1 DEF HashInv, HashType
    <3>3. CASE c = o
      BY <1>1, <1>2, <3>1, <3>3
    <3>4. CASE c # o
      BY <1>1, <1>2, <3>1, <3>2, <3>4
    <3> QED BY <3>3, <3>4
  <2> QED BY <1>2, <2>2, <2>3 DEF StatesOwned
<1>5. ASSUME NEW c \in Builders PROVE Agrees(c)' /\ (c \notin built' => builder'[c].state = NoState)
  <2>1. CASE c = o
    BY <1>2, <2>1 DEF Agrees, Gone, Nothing
  <2>2. CASE c # o
    <3>1. PICK d \in Builders : builder'[c] = builder[d] /\ told'[c] = told[d]
      BY <1>2, <2>2
    <3>2. Agrees(d)
      BY DEF HashInv
    <3>3. Agrees(c)'
      BY <1>1, <3>1, <3>2 DEF Agrees
    <3>4. c \notin built' => builder'[c].state = NoState
      BY <1>1, <1>2, <2>2 DEF HashInv
    <3> QED BY <3>3, <3>4
  <2> QED BY <2>1, <2>2
<1> QED BY <1>3, <1>4, <1>5 DEF HashInv

\* Move assignment frees the state it had before it takes over the other one;
\* assigning a builder to itself changes nothing.
LEMMA MoveAssignKeeps ==
  ASSUME NEW b \in Builders, NEW o \in Builders, HashInv, MoveAssign(b, o)
  PROVE  HashInv'
<1>0. CASE b = o
  BY <1>0 DEF MoveAssign, hashVars, HashInv, HashType, StatesOwned, Agrees
<1>1. CASE b # o
  <2>1. /\ DOMAIN xxh' = DOMAIN xxh \ {builder[b].state}
        /\ \A y \in DOMAIN xxh' : xxh'[y] = xxh[y]
        /\ xxh' \in [DOMAIN xxh' -> HashCell]
    BY <1>1, FreeIs DEF MoveAssign
  <2>2. /\ \A c \in Builders : builder'[c] = IF c = o THEN Gone
                                    ELSE IF c = b THEN builder[o] ELSE builder[c]
        /\ \A c \in Builders : told'[c] = IF c = o THEN Nothing
                                    ELSE IF c = b THEN told[o] ELSE told[c]
        /\ builder' \in [Builders -> [state: XxhStates \cup {NoState}, seed: Nat]]
        /\ told' \in [Builders -> [seed: Nat, bytes: Seq(Nat), lossy: BOOLEAN]]
        /\ \A c, d \in Builders :
             builder'[c].state = builder'[d].state /\ builder'[c].state # NoState => c = d
    BY <1>1, MoveIs DEF MoveAssign
  <2>3. HashType'
    BY <1>1, <2>1, <2>2 DEF HashInv, HashType, MoveAssign
  <2>4. Gone.state = NoState /\ built' = built /\ {b, o} \subseteq built
    BY <1>1 DEF Gone, MoveAssign
  <2>5. \A c \in Builders \ {b} : builder[c].state \in {NoState} \cup DOMAIN xxh'
    <3> SUFFICES ASSUME NEW c \in Builders \ {b}, builder[c].state # NoState
                 PROVE  builder[c].state \in DOMAIN xxh'
      OBVIOUS
    <3>1. builder[c].state # builder[b].state
      BY DEF HashInv, StatesOwned
    <3>2. builder[c].state \in DOMAIN xxh
      BY DEF HashInv, StatesOwned
    <3> QED BY <2>1, <3>1, <3>2
  <2>6. StatesOwned'
    <3>1. \A c \in Builders : builder'[c].state \in {NoState} \cup DOMAIN xxh'
      BY <1>1, <2>2, <2>4, <2>5
    <3>2. ASSUME NEW x \in DOMAIN xxh' PROVE \E c \in built' : builder'[c].state = x
      <4>1. PICK c \in built : builder[c].state = x
        BY <2>1 DEF HashInv, StatesOwned
      <4>2. c # b /\ c \in Builders
        BY <2>1, <4>1 DEF HashInv, HashType
      <4>3. CASE c = o
        BY <1>1, <2>2, <2>4, <4>1, <4>3
      <4>4. CASE c # o
        BY <2>2, <2>4, <4>1, <4>2, <4>4
      <4> QED BY <4>3, <4>4
    <3> QED BY <2>2, <3>1, <3>2 DEF StatesOwned
  <2>7. ASSUME NEW c \in Builders
        PROVE Agrees(c)' /\ (c \notin built' => builder'[c].state = NoState)
    <3>1. CASE c = o
      BY <2>2, <2>4, <3>1 DEF Agrees, Gone, Nothing
    <3>2. CASE c # o
      <4>1. PICK d \in Builders \ {b} : builder'[c] = builder[d] /\ told'[c] = told[d]
        BY <1>1, <2>2, <3>2
      <4>2. xxh'[builder[d].state] = xxh[builder[d].state] \/ builder[d].state = NoState
        BY <2>1, <2>5
      <4>3. Agrees(d) /\ (c \notin built => c # b)
        BY <2>4 DEF HashInv
      <4>4. Agrees(c)'
        BY <4>1, <4>2, <4>3 DEF Agrees
      <4>5. c \notin built' => builder'[c].state = NoState
        BY <2>2, <2>4, <3>2 DEF HashInv
      <4> QED BY <4>4, <4>5
    <3> QED BY <3>1, <3>2
  <2> QED BY <2>3, <2>6, <2>7 DEF HashInv
<1> QED BY <1>0, <1>1

\* Feeding a state replaces its bytes and keeps its seed.
LEMMA FedCell ==
  ASSUME NEW cell \in HashCell, NEW bytes \in Seq(Nat)
  PROVE  [cell EXCEPT !.bytes = bytes] = [seed |-> cell.seed, bytes |-> bytes]
BY DEF HashCell

\* update feeds the state of its builder, and a builder without one stays lossy.
LEMMA UpdateKeeps ==
  ASSUME NEW b \in Builders, NEW chunk \in Chunks, HashInv, update(b, chunk)
  PROVE  HashInv'
<1>1. chunk \in Seq(Nat)
  BY HashAssumption
<1>2. told[b].bytes \in Seq(Nat) /\ told[b].bytes \o chunk \in Seq(Nat)
  BY <1>1 DEF HashInv, HashType
<1>3. /\ told'[b] = [told[b] EXCEPT !.bytes = @ \o chunk]
      /\ \A c \in Builders \ {b} : told'[c] = told[c]
      /\ told' \in [Builders -> [seed: Nat, bytes: Seq(Nat), lossy: BOOLEAN]]
  BY <1>2 DEF HashInv, HashType, update
<1>4. /\ DOMAIN xxh' = DOMAIN xxh
      /\ \A x \in DOMAIN xxh :
           xxh'[x] = IF x = builder[b].state THEN [xxh[x] EXCEPT !.bytes = @ \o chunk] ELSE xxh[x]
  BY DEF update
<1>5. ASSUME NEW x \in DOMAIN xxh PROVE xxh'[x] \in HashCell
  <2>1. xxh[x] \in HashCell /\ xxh[x].bytes \in Seq(Nat) /\ xxh[x].bytes \o chunk \in Seq(Nat)
    BY <1>1 DEF HashInv, HashType, HashCell
  <2>2. [xxh[x] EXCEPT !.bytes = @ \o chunk] \in HashCell
    BY <2>1 DEF HashCell
  <2> QED BY <1>4, <2>1, <2>2
<1>6. xxh' \in [DOMAIN xxh' -> HashCell]
  BY <1>4, <1>5 DEF update
<1>7. HashType'
  BY <1>3, <1>4, <1>6 DEF HashInv, HashType, update
<1>8. StatesOwned'
  BY <1>4 DEF HashInv, StatesOwned, update
<1>9. ASSUME NEW c \in Builders PROVE Agrees(c)' /\ (c \notin built' => builder'[c].state = NoState)
  <2>1. CASE c = b
    <3>1. CASE builder[b].state = NoState
      <4>1. /\ told'[b].seed = told[b].seed /\ told'[b].lossy = told[b].lossy
            /\ builder' = builder /\ built' = built
        BY <1>3 DEF HashInv, HashType, update
      <4> QED BY <2>1, <3>1, <4>1 DEF HashInv, Agrees
    <3>2. CASE builder[b].state # NoState
      <4>1. builder[b].state \in DOMAIN xxh /\ builder' = builder /\ built' = built
        BY <3>2 DEF HashInv, StatesOwned, update
      <4>2. xxh[builder[b].state] = [seed |-> told[b].seed, bytes |-> told[b].bytes]
            /\ ~told[b].lossy /\ builder[b].seed = told[b].seed
        BY <3>2 DEF HashInv, Agrees
      <4>3. xxh'[builder[b].state] = [seed |-> told[b].seed, bytes |-> told[b].bytes \o chunk]
        <5> DEFINE x == builder[b].state
                   v == xxh[x].bytes \o chunk
        <5>1. xxh[x] \in HashCell /\ v \in Seq(Nat) /\ v = told[b].bytes \o chunk
          BY SMTT(40), <1>1, <4>1, <4>2 DEF HashInv, HashType, HashCell
        <5>2. xxh'[x] = [xxh[x] EXCEPT !.bytes = v]
          BY <1>4, <4>1
        <5> HIDE DEF v
        <5>3. xxh'[x] = [seed |-> xxh[x].seed, bytes |-> v]
          BY <5>1, <5>2, FedCell
        <5> QED BY <4>2, <5>1, <5>3
      <4>4. /\ told'[b].seed = told[b].seed /\ told'[b].bytes = told[b].bytes \o chunk
            /\ told'[b].lossy = told[b].lossy
        BY <1>3 DEF HashInv, HashType
      <4> QED BY <2>1, <3>2, <4>1, <4>2, <4>3, <4>4 DEF Agrees, HashInv
    <3> QED BY <3>1, <3>2
  <2>2. CASE c # b
    BY <1>3, <1>4, <2>2 DEF HashInv, HashType, StatesOwned, Agrees, update
  <2> QED BY <2>1, <2>2
<1> QED BY <1>7, <1>8, <1>9 DEF HashInv

\* reset starts the state again with the seed of the builder.
LEMMA ResetKeeps ==
  ASSUME NEW b \in Builders, HashInv, reset(b)
  PROVE  HashInv'
<1>1. /\ told'[b] = [told[b] EXCEPT !.bytes = << >>]
      /\ \A c \in Builders \ {b} : told'[c] = told[c]
      /\ told' \in [Builders -> [seed: Nat, bytes: Seq(Nat), lossy: BOOLEAN]]
  <2>1. << >> \in Seq(Nat)
    OBVIOUS
  <2> QED BY <2>1 DEF HashInv, HashType, reset
<1>2. /\ DOMAIN xxh' = DOMAIN xxh
      /\ \A x \in DOMAIN xxh :
           xxh'[x] = IF x = builder[b].state THEN [seed |-> builder[b].seed, bytes |-> << >>] ELSE xxh[x]
  BY DEF reset
<1>3. xxh' \in [DOMAIN xxh' -> HashCell]
  BY <1>2 DEF reset, HashInv, HashType, HashCell
<1>4. HashType'
  BY <1>1, <1>2, <1>3 DEF HashInv, HashType, reset
<1>5. StatesOwned'
  BY <1>2 DEF HashInv, StatesOwned, reset
<1>6. ASSUME NEW c \in Builders PROVE Agrees(c)' /\ (c \notin built' => builder'[c].state = NoState)
  <2>1. CASE c = b
    <3>1. /\ told'[b].seed = told[b].seed /\ told'[b].bytes = << >>
          /\ told'[b].lossy = told[b].lossy
      BY <1>1 DEF HashInv, HashType
    <3> QED BY <1>2, <2>1, <3>1 DEF HashInv, StatesOwned, Agrees, reset
  <2>2. CASE c # b
    BY <1>1, <1>2, <2>2 DEF HashInv, HashType, StatesOwned, Agrees, reset
  <2> QED BY <2>1, <2>2
<1> QED BY <1>4, <1>5, <1>6 DEF HashInv

\* The inductive invariant of the hash builders: owned states are disjoint, and
\* each holds the seed and the bytes its builder was told.
LEMMA HashInvariant == HashSpec => []HashInv
<1>1. HashInit => HashInv
  BY DEF HashInit, HashInv, HashType, StatesOwned, Agrees, Gone, Nothing
<1>2. HashInv /\ [HashNext]_hashVars => HashInv'
  <2> SUFFICES ASSUME HashInv, [HashNext]_hashVars PROVE HashInv'
    OBVIOUS
  <2>1. CASE UNCHANGED hashVars
    BY <2>1 DEF hashVars, HashInv, HashType, StatesOwned, Agrees
  <2> QED
    BY <2>1, ConstructKeeps, DestroyKeeps, MoveConstructKeeps, MoveAssignKeeps,
       UpdateKeeps, ResetKeeps DEF HashNext
<1> QED BY <1>1, <1>2, PTL DEF HashSpec

\* No XXH64 state is leaked, freed while in use or owned twice, through every
\* construction, move, assignment and destruction.
THEOREM StatesCorrect == HashSpec => []StatesOwned
<1>1. HashInv => StatesOwned
  BY DEF HashInv
<1> QED BY <1>1, HashInvariant, PTL

\* A digest is that of all bytes fed since the seed was set, or the builder
\* reports that it has no state.
THEOREM DigestCorrect == HashSpec => []DigestOfAllBytes
<1>1. HashInv => DigestOfAllBytes
  <2> SUFFICES ASSUME HashInv, NEW b \in built
               PROVE  digest(b) = hash_bytes64(IF told[b].lossy THEN << >> ELSE told[b].bytes,
                                               told[b].seed)
    BY DEF DigestOfAllBytes
  <2>1. Agrees(b)
    BY DEF HashInv, HashType
  <2>2. CASE builder[b].state = NoState
    BY <2>1, <2>2 DEF Agrees, digest
  <2>3. CASE builder[b].state # NoState
    BY <2>1, <2>3 DEF Agrees, digest
  <2> QED BY <2>2, <2>3
<1> QED BY <1>1, HashInvariant, PTL

-----------------------------------------------------------------------------
\* Incremental cache

\* The inductive invariant: every entry is of the supported schema and lies
\* under its own key.
CacheInv ==
  /\ \A k \in DOMAIN cached : cached[k] = [schema |-> supported, key |-> k]
  /\ HitIsCompatible

\* A lookup of the incremental cache that hits gives back an entry of the
\* schema the library supports, stored under the key asked for.
THEOREM CacheCorrect == CacheSpec => []HitIsCompatible
<1>1. CacheInit => CacheInv
  BY DEF CacheInit, CacheInv, HitIsCompatible, NotAsked
<1>2. CacheInv /\ [CacheNext]_cacheVars => CacheInv'
  <2> SUFFICES ASSUME CacheInv, [CacheNext]_cacheVars PROVE CacheInv'
    OBVIOUS
  <2>1. ASSUME NEW v \in Schemas, Construct_Cache(v) PROVE CacheInv'
    BY <2>1 DEF Construct_Cache, CacheInv, HitIsCompatible, NotAsked
  <2>2. ASSUME NEW m \in Metadata, store(m) PROVE CacheInv'
    <3>1. m = [schema |-> supported, key |-> m.key]
      BY <2>2 DEF store, Metadata
    <3>2. \A k \in DOMAIN cached' : cached'[k] = [schema |-> supported', key |-> k]
      BY <2>2, <3>1 DEF store, CacheInv
    <3> QED BY <2>2, <3>2 DEF store, CacheInv, HitIsCompatible
  <2>3. ASSUME NEW k \in CacheKeys \cup {EmptyKey}, NEW v \in Schemas, try_load(k, v)
        PROVE CacheInv'
    <3>1. HitIsCompatible'
      BY <2>3 DEF try_load, CacheInv, HitIsCompatible
    <3> QED BY <2>3, <3>1 DEF try_load, CacheInv
  <2>4. CASE UNCHANGED cacheVars
    BY <2>4 DEF cacheVars, CacheInv, HitIsCompatible
  <2> QED BY <2>1, <2>2, <2>3, <2>4 DEF CacheNext
<1>3. CacheInv => HitIsCompatible
  BY DEF CacheInv
<1> QED BY <1>1, <1>2, <1>3, PTL DEF CacheSpec

-----------------------------------------------------------------------------
\* IR iterators

IrCounter == [image: Images \cup {NoImage}, kind: IrKinds, index: Nat, count: Nat,
            seen: Seq(Nat), mixed: BOOLEAN]

\* What an iterator is at any time; count is fixed at its creation.
IrSound(me) ==
  /\ me \in IrCounter
  /\ me.count = ImageCount(me.image, me.kind)
  /\ ~me.mixed => me.seen = [i \in 1..me.index |-> i - 1] /\ me.index <= me.count

IrInv == DeliveredInRange /\ \A it \in DOMAIN iters : IrSound(iters[it])

\* Every image has a number of items of every kind, a missing image none.
LEMMA CountIsNat ==
  ASSUME NEW image \in Images \cup {NoImage}, NEW kind \in IrKinds
  PROVE  ImageCount(image, kind) \in Nat
BY IrAssumption DEF ImageCount

\* What a next call does: it delivers the item at the index and moves on by one,
\* or it changes no iterator.
LEMMA NextIs ==
  ASSUME NEW it, NEW kind, NEW out, IrInv, Next_Of(it, kind, out)
  PROVE  /\ it \in DOMAIN iters
         /\ \/ /\ answer'.ret # 1 /\ iters' = iters
            \/ /\ answer'.ret = 1
               /\ iters[it].index < iters[it].count
               /\ GetInfo(iters[it].image, kind, iters[it].index) = 0
               /\ answer'.kind = kind /\ answer'.index = iters[it].index
               /\ answer'.image = iters[it].image
               /\ iters' = [iters EXCEPT ![it].index = @ + 1,
                                         ![it].seen = Append(@, iters[it].index),
                                         ![it].mixed = @ \/ iters[it].kind # kind]
<1> DEFINE me == iters[it]
           match == KindMatches(it, kind)
           st    == GetInfo(me.image, kind, me.index)
           ret   == IF match < 0 THEN match
                    ELSE IF ~out THEN INVALID_ARGUMENT
                    ELSE IF me.index >= me.count THEN 0
                    ELSE IF st # 0 THEN st
                    ELSE 1
<1>1. /\ it \in DOMAIN iters
      /\ answer' = [kind |-> kind, index |-> me.index, image |-> me.image, ret |-> ret]
      /\ iters' = IF ret # 1 THEN iters
                  ELSE [iters EXCEPT ![it].index = @ + 1,
                                     ![it].seen = Append(@, me.index),
                                     ![it].mixed = @ \/ me.kind # kind]
  BY DEF Next_Of
<1>2. match \in {1, 2}
  BY DEF KindMatches, INVALID_ARGUMENT
<1>3. st \in {0, 2}
  BY DEF GetInfo, INVALID_ARGUMENT
<1>4. me.index \in Nat /\ me.count \in Nat
  BY <1>1 DEF IrInv, IrSound, IrCounter
<1>5. ret = 1 => me.index < me.count /\ st = 0
  <2> HIDE DEF match, st, me
  <2> QED BY <1>2, <1>3, <1>4 DEF INVALID_ARGUMENT
<1>6. answer'.ret = ret /\ answer'.kind = kind /\ answer'.index = me.index /\ answer'.image = me.image
  BY <1>1
<1> HIDE DEF ret
<1> QED BY <1>1, <1>5, <1>6

\* An iterator that delivered one more item of its own kind has delivered every
\* item in front of its index, once.
LEMMA StepSound ==
  ASSUME NEW me, NEW k, IrSound(me), me.index < me.count
  PROVE  IrSound([me EXCEPT !.index = @ + 1, !.seen = Append(@, me.index), !.mixed = @ \/ k])
<1> DEFINE m == [me EXCEPT !.index = @ + 1, !.seen = Append(@, me.index), !.mixed = @ \/ k]
<1>1. me \in IrCounter /\ me.index \in Nat /\ me.seen \in Seq(Nat) /\ me.count \in Nat
  BY DEF IrSound, IrCounter
<1>2. /\ m.index = me.index + 1 /\ m.seen = Append(me.seen, me.index)
      /\ m.image = me.image /\ m.kind = me.kind /\ m.count = me.count
      /\ m.mixed = (me.mixed \/ k)
  BY <1>1 DEF IrCounter
<1>3. m \in IrCounter
  <2>1. Append(me.seen, me.index) \in Seq(Nat) /\ me.index + 1 \in Nat
    BY <1>1
  <2> QED BY <1>1, <2>1 DEF IrCounter
<1> HIDE DEF m
<1>4. ASSUME ~m.mixed PROVE m.seen = [i \in 1..m.index |-> i - 1] /\ m.index <= m.count
  <2>1. ~me.mixed
    BY <1>2, <1>4
  <2>2. me.seen = [i \in 1..me.index |-> i - 1]
    BY <2>1 DEF IrSound
  <2>3. Len(me.seen) = me.index
    BY <1>1, <2>2
  <2> QED BY <1>1, <1>2, <2>2, <2>3
<1>5. m.count = ImageCount(m.image, m.kind)
  BY <1>2 DEF IrSound
<1> QED BY <1>3, <1>4, <1>5 DEF IrSound, m

\* An iterator used with one kind delivers exactly the items of the image in
\* order, each once, and reports the end only behind the last.
THEOREM IterationCorrect == IrSpec => []DeliversExactly
<1>1. IrInit => IrInv
  BY DEF IrInit, IrInv, DeliveredInRange, NoCall
<1>2. IrInv /\ [IrNext]_irVars => IrInv'
  <2> SUFFICES ASSUME IrInv, [IrNext]_irVars PROVE IrInv'
    OBVIOUS
  <2>1. ASSUME NEW it \in Iterators, NEW image \in Images \cup {NoImage}, NEW kind \in IrKinds,
               olnk_ir_iterator_create(it, image, kind)
        PROVE  IrInv'
    <3>1. IrSound(NewIterator(image, kind))
      BY CountIsNat DEF IrSound, NewIterator, IrCounter
    <3>2. \A i \in DOMAIN iters' : IrSound(iters'[i])
      BY <2>1, <3>1 DEF olnk_ir_iterator_create, IrInv
    <3> QED BY <2>1, <3>2 DEF olnk_ir_iterator_create, IrInv, DeliveredInRange
  <2>2. ASSUME NEW it \in Iterators, olnk_ir_iterator_destroy(it) PROVE IrInv'
    BY <2>2 DEF olnk_ir_iterator_destroy, IrInv, DeliveredInRange
  <2>3. ASSUME NEW it \in Iterators, NEW kind \in IrKinds, NEW out \in BOOLEAN,
               Next_Of(it, kind, out)
        PROVE  IrInv'
    <3> DEFINE me == iters[it]
    <3>1. CASE answer'.ret # 1 /\ iters' = iters
      BY <3>1 DEF IrInv, DeliveredInRange
    <3>2. CASE /\ answer'.ret = 1
               /\ iters[it].index < iters[it].count
               /\ GetInfo(iters[it].image, kind, iters[it].index) = 0
               /\ answer'.kind = kind /\ answer'.index = iters[it].index
               /\ answer'.image = iters[it].image
               /\ iters' = [iters EXCEPT ![it].index = @ + 1,
                                         ![it].seen = Append(@, iters[it].index),
                                         ![it].mixed = @ \/ iters[it].kind # kind]
      <4>1. it \in DOMAIN iters /\ IrSound(me)
        BY <2>3, NextIs DEF IrInv
      <4>2. DeliveredInRange'
        <5>1. me.index \in Nat /\ me.image \in Images \cup {NoImage}
          BY <4>1 DEF IrSound, IrCounter
        <5>2. me.image # NoImage /\ me.index < CountOf[me.image][kind]
          BY <3>2, <5>1, IrAssumption DEF GetInfo, INVALID_ARGUMENT
        <5> QED BY <3>2, <5>2 DEF DeliveredInRange
      <4>3. \A i \in DOMAIN iters' : IrSound(iters'[i])
        <5>1. /\ DOMAIN iters' = DOMAIN iters
              /\ \A i \in DOMAIN iters : i # it => iters'[i] = iters[i]
          BY <3>2
        <5>2. iters'[it] = [me EXCEPT !.index = @ + 1, !.seen = Append(@, me.index),
                                      !.mixed = @ \/ me.kind # kind]
          BY <3>2, <4>1
        <5>3. IrSound(iters'[it])
          BY <3>2, <4>1, <5>2, StepSound
        <5> QED BY <5>1, <5>3 DEF IrInv
      <4> QED BY <4>2, <4>3 DEF IrInv
    <3> QED BY <2>3, <3>1, <3>2, NextIs
  <2>4. CASE UNCHANGED irVars
    BY <2>4 DEF irVars, IrInv, DeliveredInRange
  <2> QED BY <2>1, <2>2, <2>3, <2>4 DEF IrNext
<1>3. IrInv => DeliversExactly
  <2> SUFFICES ASSUME IrInv, NEW it \in DOMAIN iters, ~iters[it].mixed
               PROVE  /\ iters[it].seen = [i \in 1..iters[it].index |-> i - 1]
                      /\ iters[it].index <= ImageCount(iters[it].image, iters[it].kind)
                      /\ iters[it].index >= iters[it].count =>
                           Len(iters[it].seen) = ImageCount(iters[it].image, iters[it].kind)
    BY DEF IrInv, DeliversExactly, EnumeratesAll
  <2> DEFINE me == iters[it]
  <2>1. /\ me.seen = [i \in 1..me.index |-> i - 1]
        /\ me.index <= me.count /\ me.count = ImageCount(me.image, me.kind)
        /\ me.index \in Nat /\ me.count \in Nat
    BY DEF IrInv, IrSound, IrCounter
  <2>2. Len(me.seen) = me.index
    BY <2>1
  <2> QED BY <2>1, <2>2
<1> QED BY <1>1, <1>2, <1>3, PTL DEF IrSpec

-----------------------------------------------------------------------------
\* Task runner

TaskRun == [at: Nat \ {0}, end: Nat, calling: BOOLEAN, due: Seq(Tasks), ran: Seq(Tasks)]

\* Where the loop of a run stands: it has called the tasks in front of its
\* iterator, and the one it stands on while that is being called.
RunOK(r) ==
  /\ r \in TaskRun
  /\ r.end = Len(r.due) /\ r.at <= r.end + 1
  /\ r.calling => r.at <= r.end
  /\ Len(r.ran) = IF r.calling THEN r.at ELSE r.at - 1
  /\ \A i \in 1..Len(r.ran) : r.ran[i] = r.due[i]

\* What a run is to call is still in front in the vector.
StillDue(r) == Len(r.due) <= Len(added) /\ \A i \in 1..Len(r.due) : added[i] = r.due[i]

TaskInv ==
  /\ added \in Seq(Tasks) /\ tasks = added
  /\ runs \in Seq(TaskRun)
  /\ \A i \in 1..Len(runs) : /\ RunOK(runs[i])
                             /\ i < Len(runs) => runs[i].calling
                             /\ ~broken => StillDue(runs[i])
  /\ IsPrefix(last.ran, last.due) /\ (~last.threw => last.ran = last.due)

\* A sound run has called a prefix of what was due, and all of it at its end.
LEMMA RunPrefix ==
  ASSUME NEW r, RunOK(r)
  PROVE  /\ IsPrefix(r.ran, r.due)
         /\ ~r.calling /\ r.at > r.end => r.ran = r.due
<1>1. /\ r.ran \in Seq(Tasks) /\ r.due \in Seq(Tasks) /\ r.at \in Nat /\ r.end \in Nat
      /\ Len(r.ran) \in Nat /\ Len(r.due) \in Nat
  BY DEF RunOK, TaskRun
<1>2. Len(r.ran) <= Len(r.due)
  BY <1>1 DEF RunOK
<1>3. \A i \in 1..Len(r.ran) : r.ran[i] = r.due[i]
  BY DEF RunOK
<1>4. SubSeq(r.ran, 1, Len(r.ran)) = SubSeq(r.due, 1, Len(r.ran))
  BY <1>1, <1>2, <1>3
<1>5. ASSUME ~r.calling, r.at > r.end PROVE r.ran = r.due
  <2>1. Len(r.ran) = Len(r.due)
    BY <1>1, <1>5 DEF RunOK
  <2> QED BY <1>1, <1>3, <2>1
<1> QED BY <1>2, <1>4, <1>5 DEF IsPrefix

\* A run whose task returned is sound with the next task to come.
LEMMA ReturnedOK ==
  ASSUME NEW r, RunOK(r), r.calling
  PROVE  LET q == [r EXCEPT !.calling = FALSE, !.at = @ + 1]
         IN RunOK(q) /\ q.due = r.due
<1> DEFINE q == [r EXCEPT !.calling = FALSE, !.at = @ + 1]
<1>1. /\ r \in TaskRun /\ r.at \in Nat \ {0} /\ r.end \in Nat
      /\ Len(r.ran) = r.at /\ r.at <= r.end
  BY DEF RunOK, TaskRun
<1>2. /\ q.calling = FALSE /\ q.at = r.at + 1 /\ q.end = r.end
      /\ q.due = r.due /\ q.ran = r.ran
  BY <1>1 DEF TaskRun
<1>3. q \in TaskRun
  <2>1. r.at + 1 \in Nat \ {0}
    BY <1>1
  <2> QED BY <1>1, <2>1 DEF TaskRun
<1> HIDE DEF q
<1>4. r.end = Len(r.due) /\ \A i \in 1..Len(r.ran) : r.ran[i] = r.due[i]
  BY DEF RunOK
<1>5. q.end = Len(q.due) /\ \A i \in 1..Len(q.ran) : q.ran[i] = q.due[i]
  BY <1>2, <1>4
<1>6. q.at <= q.end + 1 /\ ~q.calling /\ Len(q.ran) = q.at - 1
  BY <1>1, <1>2
<1>7. RunOK(q)
  BY <1>3, <1>5, <1>6 DEF RunOK
<1> QED BY <1>2, <1>7 DEF q

\* A run that calls the task that is due is sound.
LEMMA CalledOK ==
  ASSUME NEW r, NEW t \in Tasks, RunOK(r), ~r.calling, r.at <= r.end, t = r.due[r.at]
  PROVE  LET q == [r EXCEPT !.calling = TRUE, !.ran = Append(@, t)]
         IN RunOK(q) /\ q.due = r.due
<1> DEFINE q == [r EXCEPT !.calling = TRUE, !.ran = Append(@, t)]
<1>1. /\ r \in TaskRun /\ r.at \in Nat \ {0} /\ r.end \in Nat /\ r.ran \in Seq(Tasks)
      /\ Len(r.ran) = r.at - 1 /\ Append(r.ran, t) \in Seq(Tasks)
  BY DEF RunOK, TaskRun
<1>2. /\ q.calling = TRUE /\ q.at = r.at /\ q.end = r.end
      /\ q.due = r.due /\ q.ran = Append(r.ran, t)
  BY <1>1 DEF TaskRun
<1>3. q \in TaskRun
  BY <1>1 DEF TaskRun
<1> HIDE DEF q
<1>4. Len(q.ran) = q.at /\ \A i \in 1..Len(q.ran) : q.ran[i] = q.due[i]
  BY <1>1, <1>2 DEF RunOK
<1>5. RunOK(q)
  BY <1>1, <1>2, <1>3, <1>4 DEF RunOK
<1> QED BY <1>2, <1>5 DEF q
\* A step of the innermost run that keeps it sound keeps the invariant.
LEMMA TopStep ==
  ASSUME TaskInv, ~broken, runs # << >>, NEW q, SetTopRun(q),
         RunOK(q), q.due = TopRun.due, UNCHANGED <<tasks, added, last, broken>>
  PROVE  TaskInv'
<1>1. runs \in Seq(TaskRun) /\ Len(runs) \in Nat \ {0} /\ q \in TaskRun
  BY DEF TaskInv, RunOK
<1>2. /\ runs' \in Seq(TaskRun) /\ Len(runs') = Len(runs) /\ runs'[Len(runs)] = q
      /\ \A i \in 1..Len(runs) : i # Len(runs) => runs'[i] = runs[i]
  BY <1>1 DEF SetTopRun
<1>3. StillDue(q)
  BY <1>1 DEF TaskInv, StillDue, TopRun
<1>4. ASSUME NEW i \in 1..Len(runs')
      PROVE  RunOK(runs'[i]) /\ (i < Len(runs') => runs'[i].calling) /\ StillDue(runs[i])'
  <2>1. CASE i = Len(runs)
    BY <1>1, <1>2, <1>3, <2>1 DEF StillDue
  <2>2. CASE i # Len(runs)
    BY <1>1, <1>2, <2>2 DEF TaskInv, StillDue
  <2> QED BY <2>1, <2>2
<1> QED BY <1>2, <1>4 DEF TaskInv

\* A task that is added comes behind everything that is due.
LEMMA PushKept ==
  ASSUME TaskInv, NEW t \in Tasks, push_back(t), NEW r, RunOK(r), StillDue(r)
  PROVE  /\ added' \in Seq(Tasks) /\ tasks' = added'
         /\ StillDue(r)'
<1>1. added \in Seq(Tasks) /\ added' = Append(added, t) /\ tasks' = added'
  BY DEF TaskInv, push_back
<1>2. Len(r.due) \in Nat
  BY DEF RunOK, TaskRun
<1> QED BY <1>1, <1>2 DEF StillDue

\* add_task from outside a run keeps the invariant.
LEMMA AddKeeps ==
  ASSUME NEW t \in Tasks \cup {NoTask}, TaskInv, add_task(t)
  PROVE  TaskInv'
<1>1. CASE t = NoTask
  BY <1>1 DEF add_task, TaskInv, StillDue
<1>2. CASE t # NoTask
  <2>1. t \in Tasks /\ push_back(t) /\ runs = << >> /\ runs' = runs /\ last' = last
    BY <1>2 DEF add_task
  <2>2. added' \in Seq(Tasks) /\ tasks' = added'
    BY <2>1 DEF TaskInv, push_back
  <2> QED BY <2>1, <2>2 DEF TaskInv
<1> QED BY <1>1, <1>2

\* A run starts with everything due and nothing called.
LEMMA NewRunOK ==
  ASSUME TaskInv
  PROVE  RunOK(NewRun) /\ StillDue(NewRun)
<1>1. added \in Seq(Tasks) /\ tasks = added /\ Len(added) \in Nat
  BY DEF TaskInv
<1>2. /\ NewRun.at = 1 /\ NewRun.end = Len(added) /\ NewRun.calling = FALSE
      /\ NewRun.due = added /\ NewRun.ran = << >> /\ NewRun \in TaskRun
  BY <1>1 DEF NewRun, TaskRun
<1>3. Len(NewRun.ran) = 0
  BY <1>2
<1> QED BY <1>1, <1>2, <1>3 DEF RunOK, StillDue

\* A run may start on its own or out of a task of another run.
LEMMA RunKeeps ==
  ASSUME TaskInv, run_all_serial \/ TaskRuns
  PROVE  TaskInv'
<1>1. /\ runs' = Append(runs, NewRun) /\ ~broken
      /\ runs # << >> => runs[Len(runs)].calling
      /\ UNCHANGED <<tasks, added, last, broken>>
  <2>1. CASE run_all_serial
    <3>1. Append(<< >>, NewRun) = <<NewRun>>
      OBVIOUS
    <3> QED BY <2>1, <3>1 DEF run_all_serial
  <2>2. CASE TaskRuns
    BY <2>2 DEF TaskRuns, Does, Calling, TopRun
  <2> QED BY <2>1, <2>2
<1>2. RunOK(NewRun) /\ StillDue(NewRun) /\ NewRun \in TaskRun /\ runs \in Seq(TaskRun)
  BY NewRunOK DEF RunOK, TaskInv
<1>3. /\ runs' \in Seq(TaskRun) /\ Len(runs') = Len(runs) + 1 /\ Len(runs) \in Nat
      /\ runs'[Len(runs) + 1] = NewRun /\ \A i \in 1..Len(runs) : runs'[i] = runs[i]
  BY <1>1, <1>2
<1> DEFINE new == NewRun
<1> HIDE DEF new
<1>4. ASSUME NEW i \in 1..Len(runs')
      PROVE  RunOK(runs'[i]) /\ (i < Len(runs') => runs'[i].calling) /\ StillDue(runs[i])'
  <2>1. CASE i = Len(runs) + 1
    BY <1>1, <1>2, <1>3, <2>1 DEF StillDue
  <2>2. CASE i # Len(runs) + 1
    <3>1. i \in 1..Len(runs) /\ runs # << >>
      BY <1>3, <2>2
    <3>2. runs[i].calling
      BY <1>1, <1>3, <3>1 DEF TaskInv
    <3> QED BY <1>1, <1>3, <3>1, <3>2 DEF TaskInv, StillDue
  <2> QED BY <2>1, <2>2
<1> QED BY <1>1, <1>3, <1>4 DEF TaskInv

\* The loop calls the next task of the vector, which is the one that is due.
LEMMA CallKeeps ==
  ASSUME TaskInv, CallNext
  PROVE  TaskInv'
<1> DEFINE t == tasks[TopRun.at]
           q == [TopRun EXCEPT !.calling = TRUE, !.ran = Append(@, t)]
<1>1. RunOK(TopRun) /\ StillDue(TopRun) /\ ~TopRun.calling /\ TopRun.at <= TopRun.end
  BY DEF TaskInv, CallNext, TopRun
<1>2. t = TopRun.due[TopRun.at] /\ t \in Tasks
  <2>1. TopRun.at \in 1..Len(TopRun.due)
    BY <1>1 DEF RunOK, TaskRun
  <2>2. tasks = added /\ added \in Seq(Tasks)
    BY DEF TaskInv
  <2>3. TopRun.due \in Seq(Tasks)
    BY <1>1 DEF RunOK, TaskRun
  <2> QED BY <1>1, <2>1, <2>2, <2>3 DEF StillDue
<1>3. SetTopRun(q) /\ ~broken /\ runs # << >> /\ UNCHANGED <<tasks, added, last, broken>>
  BY DEF CallNext
<1> HIDE DEF t
<1>4. RunOK(q) /\ q.due = TopRun.due
  BY <1>1, <1>2, CalledOK
<1> HIDE DEF q
<1> QED BY <1>3, <1>4, TopStep

\* A run ends with everything called, or with an exception behind some of it.
LEMMA EndKeeps ==
  ASSUME TaskInv, EndRun
  PROVE  TaskInv'
<1> DEFINE n == Len(runs) - 1
<1>1. /\ runs \in Seq(TaskRun) /\ Len(runs) \in Nat \ {0} /\ n \in Nat
      /\ RunOK(TopRun) /\ ~broken
  <2>1. runs \in Seq(TaskRun) /\ runs # << >> /\ ~broken
    BY DEF TaskInv, EndRun
  <2>2. Len(runs) \in Nat \ {0} /\ n \in Nat /\ Len(runs) \in 1..Len(runs)
    BY <2>1
  <2> QED BY <2>1, <2>2 DEF TaskInv, TopRun
<1>2. /\ last' = [due |-> TopRun.due, ran |-> TopRun.ran, threw |-> FALSE]
      /\ ~TopRun.calling /\ TopRun.at > TopRun.end
      /\ UNCHANGED <<tasks, added, broken>>
  BY DEF EndRun
<1>3. IsPrefix(last'.ran, last'.due) /\ last'.ran = last'.due
  BY <1>1, <1>2, RunPrefix
<1>4. runs' = [i \in 1..n |-> IF i = n THEN [runs[i] EXCEPT !.calling = FALSE, !.at = @ + 1]
                              ELSE runs[i]]
  BY DEF EndRun
<1>5. ASSUME NEW i \in 1..n
      PROVE  RunOK(runs'[i]) /\ (i < n => runs'[i].calling) /\ StillDue(runs[i])'
  <2>1. RunOK(runs[i]) /\ runs[i].calling /\ StillDue(runs[i])
    BY <1>1 DEF TaskInv
  <2>2. CASE i = n
    <3> DEFINE q == [runs[i] EXCEPT !.calling = FALSE, !.at = @ + 1]
    <3>1. runs'[i] = q
      BY <1>4, <2>2
    <3>2. RunOK(q) /\ q.due = runs[i].due
      BY <2>1, ReturnedOK
    <3> HIDE DEF q
    <3> QED BY <1>2, <2>1, <2>2, <3>1, <3>2, <1>1 DEF StillDue
  <2>3. CASE i # n
    BY <1>2, <1>4, <2>1, <2>3 DEF StillDue
  <2> QED BY <2>2, <2>3
<1>6. runs' \in Seq(TaskRun) /\ Len(runs') = n
  <2>1. DOMAIN runs' = 1..n /\ \A i \in 1..n : runs'[i] \in TaskRun
    BY <1>4, <1>5 DEF RunOK
  <2> DEFINE f == [i \in 1..n |-> IF i = n THEN [runs[i] EXCEPT !.calling = FALSE, !.at = @ + 1]
                              ELSE runs[i]]
  <2>2. f \in [1..n -> TaskRun] /\ runs' = f
    BY <1>4, <2>1
  <2> HIDE DEF f
  <2> QED BY <1>1, <2>2
<1> HIDE DEF n
<1> QED BY <1>2, <1>3, <1>5, <1>6 DEF TaskInv

\* A task that only works returns to its run.
LEMMA WorkKeeps ==
  ASSUME TaskInv, TaskWorks
  PROVE  TaskInv'
<1>1. RunOK(TopRun) /\ TopRun.calling
  BY DEF TaskInv, TaskWorks, Does, Calling, TopRun
<1>2. RunOK(Returned) /\ Returned.due = TopRun.due
  BY <1>1, ReturnedOK DEF Returned
<1> QED BY <1>2, TopStep DEF TaskWorks, Does, Calling

\* A task that adds another one leaves a vector that may have moved under the
\* loop; only what broke nothing goes on.
LEMMA TaskAddsKeeps ==
  ASSUME NEW t \in Tasks, TaskInv, TaskAdds(t)
  PROVE  TaskInv'
<1>1. RunOK(TopRun) /\ TopRun.calling /\ runs # << >> /\ ~broken /\ push_back(t) /\ last' = last
  BY DEF TaskInv, TaskAdds, Does, Calling, TopRun
<1>2. RunOK(Returned) /\ Returned.due = TopRun.due
  BY <1>1, ReturnedOK DEF Returned
<1>3. runs \in Seq(TaskRun) /\ Len(runs) \in Nat \ {0} /\ Returned \in TaskRun
  BY <1>1, <1>2 DEF TaskInv, RunOK
<1>4. /\ runs' \in Seq(TaskRun) /\ Len(runs') = Len(runs) /\ runs'[Len(runs)] = Returned
      /\ \A i \in 1..Len(runs) : i # Len(runs) => runs'[i] = runs[i]
  BY <1>3 DEF SetTopRun, TaskAdds
<1>5. added' \in Seq(Tasks) /\ tasks' = added'
  BY <1>1 DEF push_back, TaskInv
<1>6. ASSUME NEW i \in 1..Len(runs')
      PROVE  RunOK(runs'[i]) /\ (i < Len(runs') => runs'[i].calling) /\ StillDue(runs[i])'
  <2>1. RunOK(runs[i]) /\ StillDue(runs[i]) /\ (i < Len(runs) => runs[i].calling)
    BY <1>1, <1>4 DEF TaskInv
  <2>2. PICK r : r = runs[i]
    OBVIOUS
  <2>3. StillDue(r)'
    BY <1>1, <2>1, <2>2, PushKept
  <2>4. CASE i = Len(runs)
    <3>1. runs'[i].due = r.due
      BY <1>2, <1>4, <2>2, <2>4 DEF TopRun
    <3> QED BY <1>2, <1>4, <2>3, <2>4, <3>1, <1>3 DEF StillDue
  <2>5. CASE i # Len(runs)
    BY <1>4, <2>1, <2>2, <2>3, <2>5
  <2> QED BY <2>4, <2>5
<1> QED BY <1>1, <1>4, <1>5, <1>6 DEF TaskInv

\* A run calls the tasks that were added in front of it, each once and in order,
\* up to the first that throws, also when tasks start runs of their own.
THEOREM RunsCorrect == TaskSpec => []RunsInOrder
<1>1. TaskInit => TaskInv
  <2> SUFFICES ASSUME TaskInit PROVE TaskInv
    OBVIOUS
  <2>1. IsPrefix(last.ran, last.due) /\ last.ran = last.due
    BY DEF TaskInit, NoRun, IsPrefix
  <2> QED BY <2>1 DEF TaskInit, TaskInv
<1>2. TaskInv /\ [TaskNext]_taskVars => TaskInv'
  <2> SUFFICES ASSUME TaskInv, [TaskNext]_taskVars PROVE TaskInv'
    OBVIOUS
  <2>1. CASE clear
    BY <2>1 DEF clear, TaskInv
  <2>2. CASE TaskClears
    BY <2>2 DEF TaskClears, TaskInv
  <2>3. CASE TaskThrows
    <3>1. RunOK(runs[1])
      BY <2>3 DEF TaskThrows, Does, Calling, TaskInv
    <3>2. /\ last' = [due |-> runs[1].due, ran |-> runs[1].ran, threw |-> TRUE]
          /\ runs' = << >> /\ UNCHANGED <<tasks, added, broken>>
      BY <2>3 DEF TaskThrows
    <3>3. IsPrefix(last'.ran, last'.due) /\ last'.threw
      BY <3>1, <3>2, RunPrefix
    <3> QED BY <3>2, <3>3 DEF TaskInv
  <2>4. CASE UNCHANGED taskVars
    BY <2>4 DEF taskVars, TaskInv, StillDue
  <2> QED
    BY <2>1, <2>2, <2>3, <2>4, AddKeeps, RunKeeps, CallKeeps, EndKeeps, WorkKeeps,
       TaskAddsKeeps DEF TaskNext
<1>3. TaskInv => RunsInOrder
  <2> SUFFICES ASSUME TaskInv, NEW i \in DOMAIN runs PROVE IsPrefix(runs[i].ran, runs[i].due)
    BY DEF TaskInv, RunsInOrder
  <2>1. i \in 1..Len(runs)
    BY DEF TaskInv
  <2> QED BY <2>1, RunPrefix DEF TaskInv
<1> QED BY <1>1, <1>2, <1>3, PTL DEF TaskSpec

-----------------------------------------------------------------------------
\* Tables of the link core

\* A one-to-one map of a finite set into itself reaches every element.
LEMMA TurnIsOnto ==
  ASSUME NEW n \in Nat, NEW f \in Injection(1..n, 1..n)
  PROVE  /\ f \in [1..n -> 1..n]
         /\ \A i, j \in 1..n : f[i] = f[j] => i = j
         /\ \A k \in 1..n : \E i \in 1..n : f[i] = k
<1>1. IsFiniteSet(1..n)
  BY FS_Interval
<1>2. f \in Surjection(1..n, 1..n)
  BY <1>1, FS_Injection
<1> QED BY <1>2 DEF Injection, Surjection, IsInjective

\* A one-to-one map of 1..n into itself is one of its rearrangements.
LEMMA TurnIs ==
  ASSUME NEW n \in Nat, NEW f \in [1..n -> 1..n],
         \A i, j \in 1..n : f[i] = f[j] => i = j
  PROVE  f \in Injection(1..n, 1..n)
BY DEF Injection, IsInjective

\* How many come before i, and i
Rank(n, B) == [i \in 1..n |-> 1 + Cardinality({j \in 1..n : <<j, i>> \in B})]

\* Under a strict total order the number of elements in front of one, plus one,
\* is its place: the ranks are 1..n, each once, and grow with the order.
LEMMA RankIs ==
  ASSUME NEW n \in Nat, NEW B,
         \A i \in 1..n : <<i, i>> \notin B,
         \A i, j, k \in 1..n : <<i, j>> \in B /\ <<j, k>> \in B => <<i, k>> \in B,
         \A i, j \in 1..n : i # j => <<i, j>> \in B \/ <<j, i>> \in B
  PROVE  /\ Rank(n, B) \in Injection(1..n, 1..n)
         /\ \A i, j \in 1..n : <<i, j>> \in B <=> Rank(n, B)[i] < Rank(n, B)[j]
<1> DEFINE D == 1..n
           Low(i) == {j \in D : <<j, i>> \in B}
           R == Rank(n, B)
<1>1. IsFiniteSet(D) /\ Cardinality(D) = n
  BY FS_Interval
<1>2. ASSUME NEW i \in D
      PROVE  /\ IsFiniteSet(Low(i)) /\ Cardinality(Low(i)) \in Nat /\ Cardinality(Low(i)) < n
             /\ R[i] = 1 + Cardinality(Low(i)) /\ R[i] \in D
  <2>1. Low(i) \in SUBSET D /\ Low(i) # D
    OBVIOUS
  <2>2. PICK L : L = Low(i)
    OBVIOUS
  <2>3. IsFiniteSet(L) /\ Cardinality(L) <= n /\ Cardinality(L) # n
    <3>1. L \in SUBSET D /\ L # D
      BY <2>1, <2>2
    <3> HIDE DEF D, Low
    <3>2. IsFiniteSet(L) /\ Cardinality(L) <= Cardinality(D) /\ (Cardinality(D) = Cardinality(L) => D = L)
      BY <1>1, <3>1, FS_Subset
    <3> QED BY <1>1, <3>1, <3>2
  <2>4. Cardinality(L) \in Nat
    BY <2>3, FS_CardinalityType
  <2>5. R[i] = 1 + Cardinality(Low(i))
    BY DEF Rank
  <2> QED BY <2>2, <2>3, <2>4, <2>5
<1>3. ASSUME NEW i \in D, NEW j \in D, <<i, j>> \in B
      PROVE  R[i] < R[j]
  <2>1. Low(i) \in SUBSET Low(j) /\ Low(i) # Low(j)
    <3>1. i \in Low(j) /\ i \notin Low(i)
      BY <1>3
    <3> QED BY <1>3, <3>1
  <2>2. PICK K, L : K = Low(i) /\ L = Low(j)
    OBVIOUS
  <2>3. IsFiniteSet(L) /\ Cardinality(L) \in Nat /\ Cardinality(K) \in Nat /\ K \in SUBSET L /\ K # L
    BY <1>2, <2>1, <2>2
  <2>4. Cardinality(K) <= Cardinality(L) /\ Cardinality(K) # Cardinality(L)
    BY <2>3, FS_Subset
  <2>5. R[i] = 1 + Cardinality(K) /\ R[j] = 1 + Cardinality(L)
    BY <1>2, <2>2
  <2> QED BY <2>3, <2>4, <2>5
<1>4. \A i \in D : R[i] \in D
  BY <1>2
<1>5. R \in [D -> D]
  BY <1>4 DEF Rank
<1> HIDE DEF R
<1>6. ASSUME NEW i \in D, NEW j \in D, R[i] < R[j] PROVE <<i, j>> \in B
  <2>1. R[i] \in Nat /\ R[j] \in Nat
    BY <1>4
  <2>2. i # j /\ ~(<<j, i>> \in B)
    BY <1>3, <1>6, <2>1
  <2> QED BY <2>2
<1>7. ASSUME NEW i \in D, NEW j \in D, R[i] = R[j] PROVE i = j
  <2>1. R[i] \in Nat /\ R[j] \in Nat
    BY <1>4
  <2>2. ~(<<i, j>> \in B) /\ ~(<<j, i>> \in B)
    BY <1>3, <1>7, <2>1
  <2> QED BY <2>2
<1>8. R \in Injection(1..n, 1..n)
  BY <1>5, <1>7, TurnIs
<1> QED BY <1>3, <1>6, <1>8 DEF R

\* The comparator of the tables is a strict weak order on keys, and keys that it
\* does not tell apart are equal.
LEMMA LessIs ==
  ASSUME NEW m \in Nat, NEW a \in [1..m -> Nat], NEW b \in [1..m -> Nat], NEW c \in [1..m -> Nat]
  PROVE  /\ ~Less(a, a)
         /\ Less(a, b) /\ Less(b, c) => Less(a, c)
         /\ a # b => Less(a, b) \/ Less(b, a)
<1>1. ~Less(a, a)
  BY DEF Less
<1>2. ASSUME Less(a, b), Less(b, c) PROVE Less(a, c)
  <2>1. PICK i \in 1..m : a[i] < b[i] /\ \A k \in 1..i-1 : a[k] = b[k]
    BY <1>2 DEF Less
  <2>2. PICK j \in 1..m : b[j] < c[j] /\ \A k \in 1..j-1 : b[k] = c[k]
    BY <1>2 DEF Less
  <2>3. CASE i < j
    <3>1. i \in 1..j-1 /\ \A k \in 1..i-1 : k \in 1..j-1
      BY <2>3
    <3>2. a[i] < c[i] /\ \A k \in 1..i-1 : a[k] = c[k]
      BY <2>1, <2>2, <3>1
    <3> QED BY <3>2 DEF Less
  <2>4. CASE i = j
    <3>1. a[i] < c[i] /\ \A k \in 1..i-1 : a[k] = c[k]
      BY <2>1, <2>2, <2>4
    <3> QED BY <3>1 DEF Less
  <2>5. CASE i > j
    <3>1. j \in 1..i-1 /\ \A k \in 1..j-1 : k \in 1..i-1
      BY <2>5
    <3>2. a[j] < c[j] /\ \A k \in 1..j-1 : a[k] = c[k]
      BY <2>1, <2>2, <3>1
    <3> QED BY <3>2 DEF Less
  <2> QED BY <2>3, <2>4, <2>5
<1>3. ASSUME a # b PROVE Less(a, b) \/ Less(b, a)
  <2> DEFINE diff == {i \in 1..m : a[i] # b[i]}
  <2>1. diff # {} /\ diff \subseteq Nat
    BY SMTT(40), <1>3
  <2>2. PICK i \in diff : \A k \in diff : i <= k
    <3> HIDE DEF diff
    <3> QED BY <2>1, LeastElement
  <2>3. \A k \in 1..i-1 : a[k] = b[k]
    BY <2>2
  <2>4. a[i] < b[i] \/ b[i] < a[i]
    OBVIOUS
  <2> QED BY <2>3, <2>4 DEF Less
<1> QED BY <1>1, <1>2, <1>3

-----------------------------------------------------------------------------
\* The records of each vector, and how many numbers its comparator looks at
Records(p) ==
  IF p = "symbol" THEN [name: Nat, scope: Nat, ordinal: Nat, value: Nat, size: Nat]
  ELSE IF p \in {"section", "ir_section"} THEN SectionRecord
  ELSE IF p = "relocation" THEN RelocationRecord
  ELSE [name: Nat, value: Nat, ordinal: Nat, size: Nat]

KeyLength(p) == IF p = "symbol" THEN 5 ELSE 3

\* A record as it is after Canonical
CanonicalRecord(p, r) ==
  IF p \in {"section", "ir_section"}
    THEN [r EXCEPT !.alignment = IF @ = 0 THEN 1 ELSE @] ELSE r

\* The key of a record is a tuple of numbers, of the length of its vector.
LEMMA KeyIs ==
  ASSUME NEW p \in AllParts, NEW r \in Records(p)
  PROVE  Key(p, r) \in [1..KeyLength(p) -> Nat] /\ KeyLength(p) \in Nat
<1>1. CASE p = "symbol"
  <2>1. Key(p, r) = <<r.name, r.scope, r.ordinal, r.value, r.size>>
    BY <1>1 DEF Key, SymbolKey
  <2>2. r.name \in Nat /\ r.scope \in Nat /\ r.ordinal \in Nat /\ r.value \in Nat /\ r.size \in Nat
    BY <1>1 DEF Records
  <2> QED BY <1>1, <2>1, <2>2 DEF KeyLength
<1>2. CASE p = "section"
  <2>1. Key(p, r) = <<r.kind, r.name, r.ordinal>>
    BY <1>2 DEF Key, SectionKey
  <2>2. r.kind \in Nat /\ r.name \in Nat /\ r.ordinal \in Nat
    BY <1>2 DEF Records, SectionRecord
  <2> QED BY <1>2, <2>1, <2>2 DEF KeyLength
<1>3. CASE p = "relocation"
  <2>1. Key(p, r) = <<r.offset, r.rank, r.ordinal>>
    BY <1>3 DEF Key, RelocationKey
  <2>2. r.offset \in Nat /\ r.rank \in Nat /\ r.ordinal \in Nat
    BY <1>3 DEF Records, RelocationRecord
  <2> QED BY <1>3, <2>1, <2>2 DEF KeyLength
<1>4. CASE p = "ir_section"
  <2>1. Key(p, r) = <<r.kind, r.name, r.ordinal>>
    BY <1>4 DEF Key, IrSectionKey
  <2>2. r.kind \in Nat /\ r.name \in Nat /\ r.ordinal \in Nat
    BY <1>4 DEF Records, SectionRecord
  <2> QED BY <1>4, <2>1, <2>2 DEF KeyLength
<1>5. CASE p = "ir_symbol"
  <2>1. Key(p, r) = <<r.name, r.value, r.ordinal>>
    BY <1>5 DEF Key, IrSymbolKey
  <2>2. r.name \in Nat /\ r.value \in Nat /\ r.ordinal \in Nat
    BY <1>5 DEF Records
  <2> QED BY <1>5, <2>1, <2>2 DEF KeyLength
<1> QED BY <1>1, <1>2, <1>3, <1>4, <1>5 DEF AllParts

\* normalize_sections leaves a record of the same vector, with the same key, whose
\* alignment is not zero; doing it again changes nothing.
LEMMA CanonicalIs ==
  ASSUME NEW p \in AllParts, NEW r \in Records(p)
  PROVE  /\ CanonicalRecord(p, r) \in Records(p)
         /\ Key(p, CanonicalRecord(p, r)) = Key(p, r)
         /\ CanonicalRecord(p, CanonicalRecord(p, r)) = CanonicalRecord(p, r)
         /\ p \in {"section", "ir_section"} => CanonicalRecord(p, r).alignment # 0
<1>1. CASE p \notin {"section", "ir_section"}
  BY <1>1 DEF CanonicalRecord
<1>2. CASE p \in {"section", "ir_section"}
  <2> DEFINE c == [r EXCEPT !.alignment = IF @ = 0 THEN 1 ELSE @]
  <2>1. r \in SectionRecord
    BY <1>2 DEF Records
  <2>2. CanonicalRecord(p, r) = c
    BY <1>2 DEF CanonicalRecord
  <2>3. /\ c \in SectionRecord /\ c.kind = r.kind /\ c.name = r.name /\ c.ordinal = r.ordinal
        /\ c.alignment # 0 /\ c.alignment \in Nat
    BY <2>1 DEF SectionRecord
  <2> HIDE DEF c
  <2>4. Key(p, c) = Key(p, r)
    BY <1>2, <2>3 DEF Key, SectionKey, IrSectionKey
  <2>5. CanonicalRecord(p, c) = c
    <3>1. [c EXCEPT !.alignment = IF @ = 0 THEN 1 ELSE @] = c
      BY <2>3 DEF SectionRecord
    <3> QED BY <1>2, <3>1 DEF CanonicalRecord
  <2> QED BY <1>2, <2>2, <2>3, <2>4, <2>5 DEF Records
<1> QED BY <1>1, <1>2

\* Canonical keeps a vector one of the same records and treats each alone.
LEMMA CanonicalSeq ==
  ASSUME NEW p \in AllParts, NEW s \in Seq(Records(p))
  PROVE  /\ Canonical(p, s) \in Seq(Records(p)) /\ Len(Canonical(p, s)) = Len(s)
         /\ \A i \in 1..Len(s) : Canonical(p, s)[i] = CanonicalRecord(p, s[i])
<1> DEFINE R == Records(p)
<1>1. PICK n \in Nat : n = Len(s) /\ DOMAIN s = 1..n /\ s = [i \in 1..n |-> s[i]]
  BY DEF R
<1>2. \A i \in 1..n : s[i] \in R /\ CanonicalRecord(p, s[i]) \in R
  BY <1>1, CanonicalIs
<1>3. Canonical(p, s) = [i \in 1..n |-> CanonicalRecord(p, s[i])]
  BY <1>1, Zenon DEF Canonical, CanonicalRecord
<1> HIDE DEF R
<1>4. [i \in 1..n |-> CanonicalRecord(p, s[i])] \in Seq(R)
  BY <1>2
<1>5. PICK c \in Seq(R) : c = [i \in 1..n |-> CanonicalRecord(p, s[i])] /\ c = Canonical(p, s)
  BY <1>3, <1>4
<1>6. Len(c) = n /\ \A i \in 1..n : c[i] = CanonicalRecord(p, s[i])
  BY <1>5
<1> QED BY <1>1, <1>5, <1>6 DEF R

\* t is s with its records in another order, i coming from q[i], sorted.
SortedBy(p, s, t, q) ==
  /\ t = [i \in 1..Len(s) |-> s[q[i]]]
  /\ \A i, j \in 1..Len(s) : i < j => Before(p, s, q[i], q[j])

\* std::stable_sort rearranges: the result is in the order of Before, for some
\* one-to-one map of places.
LEMMA StableSortIs ==
  ASSUME NEW p \in AllParts, NEW s \in Seq(Records(p))
  PROVE  \E q \in Injection(1..Len(s), 1..Len(s)) : SortedBy(p, s, stable_sort(p, s), q)
<1>1. PICK n \in Nat : n = Len(s) /\ DOMAIN s = 1..n
  OBVIOUS
<1> DEFINE K == [i \in 1..n |-> Key(p, s[i])]
           B == {x \in (1..n) \X (1..n) : Before(p, s, x[1], x[2])}
<1>2. \A i \in 1..n : K[i] \in [1..KeyLength(p) -> Nat] /\ K[i] = Key(p, s[i])
  BY <1>1, KeyIs
<1>3. KeyLength(p) \in Nat
  BY DEF KeyLength
<1>4. \A i, j \in 1..n : <<i, j>> \in B <=> Less(K[i], K[j]) \/ (K[i] = K[j] /\ i < j)
  BY DEF Before
<1> HIDE DEF K
<1>5. /\ \A i \in 1..n : <<i, i>> \notin B
      /\ \A i, j \in 1..n : i # j => <<i, j>> \in B \/ <<j, i>> \in B
      /\ \A i, j, k \in 1..n : <<i, j>> \in B /\ <<j, k>> \in B => <<i, k>> \in B
  <2> HIDE DEF B
  <2>1. \A i \in 1..n : <<i, i>> \notin B
    <3> SUFFICES ASSUME NEW i \in 1..n PROVE <<i, i>> \notin B
      OBVIOUS
    <3>1. ~Less(K[i], K[i])
      BY <1>2, <1>3, LessIs
    <3>2. ~(i < i)
      OBVIOUS
    <3> QED BY <1>4, <3>1, <3>2
  <2>2. ASSUME NEW i \in 1..n, NEW j \in 1..n, i # j PROVE <<i, j>> \in B \/ <<j, i>> \in B
    <3>1. CASE K[i] = K[j]
      BY <1>4, <2>2, <3>1
    <3>2. CASE K[i] # K[j]
      BY <1>2, <1>3, <1>4, <3>2, LessIs
    <3> QED BY <3>1, <3>2
  <2>3. ASSUME NEW i \in 1..n, NEW j \in 1..n, NEW k \in 1..n, <<i, j>> \in B, <<j, k>> \in B
        PROVE  <<i, k>> \in B
    <3>1. /\ Less(K[i], K[j]) \/ (K[i] = K[j] /\ i < j)
          /\ Less(K[j], K[k]) \/ (K[j] = K[k] /\ j < k)
      BY <1>4, <2>3
    <3>2. Less(K[i], K[j]) /\ Less(K[j], K[k]) => Less(K[i], K[k])
      BY <1>2, <1>3, LessIs
    <3>3. i < j /\ j < k => i < k
      OBVIOUS
    <3> QED BY <1>4, <3>1, <3>2, <3>3
  <2> QED BY <2>1, <2>2, <2>3
<1> DEFINE R == Rank(n, B)
<1>6. R \in Injection(1..n, 1..n) /\ \A i, j \in 1..n : <<i, j>> \in B <=> R[i] < R[j]
  <2> HIDE DEF B
  <2> QED BY <1>5, RankIs
<1>7. \A i \in 1..n : R[i] = 1 + Cardinality({j \in 1..n : Before(p, s, j, i)})
  <2> SUFFICES ASSUME NEW i \in 1..n PROVE R[i] = 1 + Cardinality({j \in 1..n : Before(p, s, j, i)})
    OBVIOUS
  <2>1. {j \in 1..n : <<j, i>> \in B} = {j \in 1..n : Before(p, s, j, i)}
    OBVIOUS
  <2> QED BY <2>1 DEF Rank
<1> DEFINE q == [m \in 1..n |-> CHOOSE i \in 1..n : R[i] = m]
<1> HIDE DEF B, R
<1>8. \A m \in 1..n : q[m] \in 1..n /\ R[q[m]] = m
  BY <1>6, TurnIsOnto
<1>9. stable_sort(p, s) = [m \in 1..n |-> s[q[m]]]
  <2>1. stable_sort(p, s) = [m \in 1..n |-> s[CHOOSE i \in 1..n : 1 + Cardinality({j \in 1..n : Before(p, s, j, i)}) = m]]
    BY <1>1 DEF stable_sort
  <2>2. \A m \in 1..n : (CHOOSE i \in 1..n : 1 + Cardinality({j \in 1..n : Before(p, s, j, i)}) = m) = q[m]
    BY <1>7
  <2> QED BY <2>1, <2>2
<1> HIDE DEF q
<1>10. q \in Injection(1..n, 1..n)
  <2>1. q \in [1..n -> 1..n]
    BY <1>8 DEF q
  <2> QED BY <1>8, <2>1, TurnIs
<1>11. ASSUME NEW i \in 1..n, NEW j \in 1..n, i < j PROVE Before(p, s, q[i], q[j])
  <2>1. <<q[i], q[j]>> \in B
    BY <1>6, <1>8, <1>11
  <2> QED BY <2>1 DEF B
<1> QED BY <1>1, <1>9, <1>10, <1>11 DEF SortedBy

-----------------------------------------------------------------------------
\* Record i of R is the record q[i] of A, and equal keys come in the order of A.
Traced(p, R, A, q) ==
  /\ \A i \in 1..Len(A) : CanonicalRecord(p, R[i]) = CanonicalRecord(p, A[q[i]])
  /\ \A i, j \in 1..Len(A) : i < j /\ Key(p, R[i]) = Key(p, R[j]) => q[i] < q[j]

\* The vector R holds the records A that were added.
TableOf(p, R, A) ==
  /\ R \in Seq(Records(p)) /\ A \in Seq(Records(p)) /\ Len(R) = Len(A)
  /\ \E q \in Injection(1..Len(A), 1..Len(A)) : Traced(p, R, A, q)

InOrder(p, R) ==
  /\ \A i \in 1..Len(R) : CanonicalRecord(p, R[i]) = R[i]
  /\ \A i, j \in 1..Len(R) : i < j => ~Less(Key(p, R[j]), Key(p, R[i]))

\* An empty vector holds the records that were added, and is in order.
LEMMA EmptyTable ==
  ASSUME NEW p
  PROVE  TableOf(p, << >>, << >>) /\ InOrder(p, << >>)
<1>1. << >> \in Seq(Records(p)) /\ Len(<< >>) = 0 /\ 1..0 = {}
  OBVIOUS
<1> DEFINE q == [i \in 1..0 |-> i]
<1>2. q \in [1..0 -> 1..0] /\ \A i, j \in 1..0 : q[i] = q[j] => i = j
  OBVIOUS
<1>3. q \in Injection(1..0, 1..0)
  <2> HIDE DEF q
  <2> QED BY <1>2, TurnIs
<1>4. Traced(p, << >>, << >>, q)
  BY <1>1 DEF Traced
<1> HIDE DEF q
<1> QED BY <1>1, <1>3, <1>4 DEF TableOf, InOrder

\* A record added at the end keeps a vector one of what was added.
LEMMA AppendTable ==
  ASSUME NEW p \in AllParts, NEW R, NEW A, TableOf(p, R, A), NEW r \in Records(p)
  PROVE  TableOf(p, Append(R, r), Append(A, r))
<1>1. R \in Seq(Records(p)) /\ A \in Seq(Records(p))
  BY DEF TableOf
<1>2. PICK n \in Nat : n = Len(R) /\ n = Len(A)
  BY <1>1 DEF TableOf
<1>3. PICK q \in Injection(1..n, 1..n) : Traced(p, R, A, q)
  BY <1>2 DEF TableOf
<1>4. /\ q \in [1..n -> 1..n] /\ \A i, j \in 1..n : q[i] = q[j] => i = j
  BY TurnIsOnto
<1> DEFINE R2 == Append(R, r)
           A2 == Append(A, r)
           q2 == [i \in 1..n+1 |-> IF i = n + 1 THEN n + 1 ELSE q[i]]
<1>5. /\ R2 \in Seq(Records(p)) /\ A2 \in Seq(Records(p)) /\ Len(R2) = n + 1 /\ Len(A2) = n + 1
      /\ R2[n+1] = r /\ A2[n+1] = r
      /\ \A i \in 1..n : R2[i] = R[i] /\ A2[i] = A[i]
  <2> DEFINE X == Records(p)
  <2>1. R \in Seq(X) /\ A \in Seq(X) /\ r \in X
    BY <1>1
  <2> HIDE DEF X
  <2>2. R2 \in Seq(X) /\ Len(R2) = n + 1 /\ R2[n+1] = r /\ \A i \in 1..n : R2[i] = R[i]
    <3>1. /\ R2 \in Seq(X) /\ Len(R2) = Len(R) + 1 /\ R2[Len(R) + 1] = r
          /\ \A i \in 1..Len(R) : R2[i] = R[i]
      BY <2>1, AppendProperties
    <3> QED BY <1>2, <3>1
  <2>3. A2 \in Seq(X) /\ Len(A2) = n + 1 /\ A2[n+1] = r /\ \A i \in 1..n : A2[i] = A[i]
    BY <1>2, <2>1, AppendProperties
  <2> HIDE DEF R2, A2
  <2> QED BY <2>2, <2>3 DEF X
<1>6. \A i \in 1..n+1 : i # n + 1 => i \in 1..n
  OBVIOUS
<1>7. /\ q2[n+1] = n + 1 /\ \A i \in 1..n : q2[i] = q[i] /\ q[i] \in 1..n
  BY <1>4
<1>8. q2 \in Injection(1..n+1, 1..n+1)
  <2>1. q2 \in [1..n+1 -> 1..n+1]
    BY <1>4, <1>6
  <2>2. \A i, j \in 1..n+1 : q2[i] = q2[j] => i = j
    BY <1>4, <1>6, <1>7
  <2> HIDE DEF q2
  <2>3. n + 1 \in Nat
    OBVIOUS
  <2> QED BY <2>1, <2>2, <2>3, TurnIs
<1> HIDE DEF R2, A2, q2
<1>9. \A i \in 1..n+1 : CanonicalRecord(p, R2[i]) = CanonicalRecord(p, A2[q2[i]])
  <2> SUFFICES ASSUME NEW i \in 1..n+1 PROVE CanonicalRecord(p, R2[i]) = CanonicalRecord(p, A2[q2[i]])
    OBVIOUS
  <2>1. CASE i = n + 1
    BY <1>5, <1>7, <2>1
  <2>2. CASE i \in 1..n
    <3>1. CanonicalRecord(p, R[i]) = CanonicalRecord(p, A[q[i]])
      BY <1>2, <1>3, <2>2 DEF Traced
    <3> QED BY <1>5, <1>7, <2>2, <3>1
  <2> QED BY <1>6, <2>1, <2>2
<1>10. ASSUME NEW i \in 1..n+1, NEW j \in 1..n+1, i < j, Key(p, R2[i]) = Key(p, R2[j])
       PROVE  q2[i] < q2[j]
  <2>0. i \in 1..n
    BY <1>10
  <2>1. CASE j = n + 1
    BY <1>7, <2>0, <2>1
  <2>2. CASE j \in 1..n
    <3>1. Key(p, R[i]) = Key(p, R[j])
      BY <1>5, <1>10, <2>0, <2>2
    <3>2. q[i] < q[j]
      BY <1>2, <1>3, <1>10, <2>0, <2>2, <3>1 DEF Traced
    <3> QED BY <1>7, <2>0, <2>2, <3>2
  <2> QED BY <1>6, <2>1, <2>2
<1>11. Traced(p, R2, A2, q2)
  BY <1>5, <1>9, <1>10 DEF Traced
<1>12. TableOf(p, R2, A2)
  BY <1>5, <1>8, <1>11 DEF TableOf
<1> QED BY <1>12 DEF R2, A2

\* Before is a strict total order on the places of a vector.
LEMMA BeforeIs ==
  ASSUME NEW p \in AllParts, NEW s \in Seq(Records(p)), NEW i \in 1..Len(s), NEW j \in 1..Len(s),
         Before(p, s, i, j)
  PROVE  /\ ~Less(Key(p, s[j]), Key(p, s[i]))
         /\ Key(p, s[i]) = Key(p, s[j]) => i < j
<1>1. PICK a, b : a = Key(p, s[i]) /\ b = Key(p, s[j])
  OBVIOUS
<1>2. a \in [1..KeyLength(p) -> Nat] /\ b \in [1..KeyLength(p) -> Nat] /\ KeyLength(p) \in Nat
  BY <1>1, KeyIs
<1>3. Less(a, b) \/ (a = b /\ i < j)
  BY <1>1 DEF Before
<1>4. ~Less(a, a) /\ (Less(a, b) /\ Less(b, a) => Less(a, a))
  BY <1>2, LessIs
<1> QED BY <1>1, <1>3, <1>4

\* normalize leaves a vector in order that still holds what was added, equal
\* keys in the order of arrival, although it may have been sorted before.
LEMMA SortTable ==
  ASSUME NEW p \in AllParts, NEW R, NEW A, TableOf(p, R, A)
  PROVE  TableOf(p, stable_sort(p, Canonical(p, R)), A) /\ InOrder(p, stable_sort(p, Canonical(p, R)))
<1>1. R \in Seq(Records(p)) /\ A \in Seq(Records(p))
  BY DEF TableOf
<1>2. PICK n \in Nat : n = Len(R) /\ n = Len(A)
  BY <1>1 DEF TableOf
<1>3. PICK q \in Injection(1..n, 1..n) : Traced(p, R, A, q)
  BY <1>2 DEF TableOf
<1>4. /\ q \in [1..n -> 1..n] /\ \A i, j \in 1..n : q[i] = q[j] => i = j
  BY TurnIsOnto
<1>5. PICK s \in Seq(Records(p)) : s = Canonical(p, R) /\ Len(s) = n /\ \A i \in 1..n : s[i] = CanonicalRecord(p, R[i])
  BY <1>1, <1>2, CanonicalSeq, ZenonT(40)
<1>6. PICK t : t = stable_sort(p, s)
  OBVIOUS
<1>7. PICK u \in Injection(1..n, 1..n) : SortedBy(p, s, t, u)
  BY <1>5, <1>6, StableSortIs
<1>8. /\ u \in [1..n -> 1..n] /\ \A i, j \in 1..n : u[i] = u[j] => i = j
  BY TurnIsOnto
<1>9. t = [i \in 1..n |-> s[u[i]]] /\ \A i, j \in 1..n : i < j => Before(p, s, u[i], u[j])
  BY <1>5, <1>7 DEF SortedBy
<1>10. \A i \in 1..n : s[i] \in Records(p) /\ R[i] \in Records(p)
  <2>1. \A i \in 1..n : R[i] \in Records(p)
    BY <1>1, <1>2, ElementOfSeq
  <2>2. \A i \in 1..n : s[i] \in Records(p)
    BY <1>5, ElementOfSeq
  <2> QED BY <2>1, <2>2
<1>11. t \in Seq(Records(p)) /\ Len(t) = n /\ \A i \in 1..n : t[i] = s[u[i]] /\ u[i] \in 1..n
  <2> DEFINE X == Records(p)
  <2>1. \A i \in 1..n : s[u[i]] \in X
    BY <1>8, <1>10
  <2> HIDE DEF X
  <2>2. t \in Seq(X) /\ Len(t) = n
    BY <1>9, <2>1
  <2> QED BY <1>8, <1>9, <2>2 DEF X
<1> DEFINE q2 == [i \in 1..n |-> q[u[i]]]
<1>12. q2 \in Injection(1..n, 1..n)
  <2>1. q2 \in [1..n -> 1..n] /\ \A i, j \in 1..n : q2[i] = q2[j] => i = j
    BY <1>4, <1>8
  <2> HIDE DEF q2
  <2> QED BY <2>1, TurnIs
<1>13. ASSUME NEW i \in 1..n
       PROVE  /\ CanonicalRecord(p, t[i]) = t[i]
              /\ CanonicalRecord(p, t[i]) = CanonicalRecord(p, A[q2[i]])
  <2>1. PICK k \in 1..n : k = u[i] /\ t[i] = CanonicalRecord(p, R[k]) /\ q2[i] = q[k]
    BY <1>5, <1>11
  <2>2. CanonicalRecord(p, t[i]) = t[i]
    BY <1>10, <2>1, CanonicalIs
  <2>3. CanonicalRecord(p, R[k]) = CanonicalRecord(p, A[q[k]])
    BY <1>2, <1>3 DEF Traced
  <2> QED BY <2>1, <2>2, <2>3
<1>14. ASSUME NEW i \in 1..n, NEW j \in 1..n, i < j
       PROVE  /\ ~Less(Key(p, t[j]), Key(p, t[i]))
              /\ Key(p, t[i]) = Key(p, t[j]) => q2[i] < q2[j]
  <2>1. PICK k \in 1..n, l \in 1..n : k = u[i] /\ l = u[j] /\ t[i] = s[k] /\ t[j] = s[l] /\ q2[i] = q[k] /\ q2[j] = q[l]
    BY <1>11
  <2>2. Before(p, s, k, l)
    BY <1>9, <1>14, <2>1
  <2>3. ~Less(Key(p, s[l]), Key(p, s[k])) /\ (Key(p, s[k]) = Key(p, s[l]) => k < l)
    BY <1>5, <2>2, BeforeIs
  <2>4. Key(p, s[k]) = Key(p, R[k]) /\ Key(p, s[l]) = Key(p, R[l])
    BY <1>5, <1>10, CanonicalIs
  <2>5. k < l /\ Key(p, R[k]) = Key(p, R[l]) => q[k] < q[l]
    BY <1>2, <1>3 DEF Traced
  <2> QED BY <2>1, <2>3, <2>4, <2>5
<1> HIDE DEF q2
<1>15. Traced(p, t, A, q2) /\ InOrder(p, t)
  BY <1>2, <1>11, <1>13, <1>14 DEF Traced, InOrder
<1>16. TableOf(p, t, A)
  BY <1>1, <1>2, <1>11, <1>12, <1>15 DEF TableOf
<1> QED BY <1>5, <1>6, <1>15, <1>16

-----------------------------------------------------------------------------
\* Every vector holds what was added to it, in order if nothing was added
\* since; the last answers are those for the vectors as they are.
TablesInv ==
  /\ class \in Classes
  /\ rows = [p \in Parts(class) |-> rows[p]] /\ arrived = [p \in Parts(class) |-> arrived[p]]
  /\ \A p \in Parts(class) :
       TableOf(p, rows[p], arrived[p]) /\ (ordered => InOrder(p, rows[p]))
  /\ class = "IrBuilder" => \A r \in ToSet(graph["ir_section"]) : r.alignment # 0
  /\ found # NoAnswer =>
       class = "SymbolTable" /\ found.answer = FirstNamed(rows["symbol"], found.asked)
  /\ results # NoAnswer =>
       /\ class = "RelocationPlanner" /\ results.asked \in Bases
       /\ results.answer = apply_relocations(rows["relocation"], results.asked)

\* The vectors of each class.
LEMMA PartsAre ==
  ASSUME NEW c \in Classes
  PROVE  /\ Parts(c) \subseteq AllParts
         /\ c = "SymbolTable" => Parts(c) = {"symbol"}
         /\ c = "SectionTable" => Parts(c) = {"section"}
         /\ c = "RelocationPlanner" => Parts(c) = {"relocation"}
         /\ c = "IrBuilder" => Parts(c) = {"ir_section", "ir_symbol"}
BY DEF Classes, Parts, AllParts

\* What callers add are records of the vector they add to.
LEMMA OfferedAre ==
  ASSUME NEW p \in AllParts
  PROVE  Offered[p] \subseteq Records(p)
BY TablesAssumption DEF AllParts, Records

\* A vector of sections in order has no zero alignment.
LEMMA SectionsAligned ==
  ASSUME NEW p \in {"section", "ir_section"}, NEW R \in Seq(Records(p)), InOrder(p, R)
  PROVE  \A r \in ToSet(R) : r.alignment # 0
<1> SUFFICES ASSUME NEW r \in ToSet(R) PROVE r.alignment # 0
  OBVIOUS
<1>1. PICK i \in 1..Len(R) : r = R[i]
  BY DEF ToSet
<1>2. p \in AllParts /\ R[i] \in Records(p)
  BY ElementOfSeq DEF AllParts
<1>3. CanonicalRecord(p, R[i]).alignment # 0
  BY <1>2, CanonicalIs
<1> QED BY <1>1, <1>3 DEF InOrder

\* add_symbol, add_section, add_relocation and their like keep the invariant.
LEMMA AddStep ==
  ASSUME TablesInv, NEW p \in Parts(class), NEW r \in Offered[p], add(p, r)
  PROVE  TablesInv'
<1>1. class \in Classes /\ p \in AllParts /\ Parts(class) \subseteq AllParts
  BY PartsAre DEF TablesInv
<1>2. /\ class' = class /\ graph' = graph /\ ordered' = FALSE /\ found' = NoAnswer /\ results' = NoAnswer
      /\ rows' = [rows EXCEPT ![p] = Append(rows[p], r)]
      /\ arrived' = [arrived EXCEPT ![p] = Append(arrived[p], r)]
  BY DEF add
<1>3. PICK P : P = Parts(class)
  OBVIOUS
<1>4. rows = [x \in P |-> rows[x]] /\ arrived = [x \in P |-> arrived[x]] /\ p \in P
  BY <1>3 DEF TablesInv
<1>5. /\ rows' = [x \in P |-> rows'[x]] /\ arrived' = [x \in P |-> arrived'[x]]
      /\ \A x \in P : rows'[x] = IF x = p THEN Append(rows[p], r) ELSE rows[x]
      /\ \A x \in P : arrived'[x] = IF x = p THEN Append(arrived[p], r) ELSE arrived[x]
  BY <1>2, <1>4
<1>6. ASSUME NEW x \in P PROVE TableOf(x, rows[x]', arrived[x]')
  <2>1. TableOf(x, rows[x], arrived[x])
    BY <1>3 DEF TablesInv
  <2>2. CASE x = p
    <3>1. TableOf(p, Append(rows[p], r), Append(arrived[p], r))
      BY <1>1, <2>1, <2>2, OfferedAre, AppendTable
    <3> QED BY <1>5, <2>2, <3>1
  <2>3. CASE x # p
    BY <1>5, <2>1, <2>3
  <2> QED BY <2>2, <2>3
<1>7. Parts(class)' = P
  BY <1>2, <1>3 DEF Parts
<1> QED BY <1>2, <1>5, <1>6, <1>7 DEF TablesInv

\* A normalization keeps the invariant and brings every vector in order.
LEMMA NormalizeStep ==
  ASSUME TablesInv, rows' = Normalized, class' = class, arrived' = arrived,
         graph' = graph \/ (class = "IrBuilder" /\ graph' = Normalized),
         (class = "IrBuilder" /\ UNCHANGED <<found, results>>) \/ (found' = NoAnswer /\ results' = NoAnswer)
  PROVE  TablesInv'
<1>1. PICK P : P = Parts(class) /\ P \subseteq AllParts
  BY PartsAre DEF TablesInv
<1>2. rows' = [p \in P |-> stable_sort(p, Canonical(p, rows[p]))]
  BY <1>1 DEF Normalized
<1>3. arrived' = [p \in P |-> arrived'[p]] /\ rows' = [p \in P |-> rows'[p]]
  BY <1>1, <1>2 DEF TablesInv
<1>4. ASSUME NEW p \in P PROVE TableOf(p, rows[p]', arrived[p]') /\ InOrder(p, rows[p]')
  <2>1. TableOf(p, rows[p], arrived[p]) /\ p \in AllParts
    BY <1>1 DEF TablesInv
  <2>2. rows[p]' = stable_sort(p, Canonical(p, rows[p])) /\ arrived[p]' = arrived[p]
    BY <1>2
  <2> QED BY <2>1, <2>2, SortTable
<1>5. class = "IrBuilder" => \A r \in ToSet(graph["ir_section"])' : r.alignment # 0
  <2> SUFFICES ASSUME class = "IrBuilder" PROVE \A r \in ToSet(graph'["ir_section"]) : r.alignment # 0
    OBVIOUS
  <2>1. CASE graph' = graph
    BY <2>1 DEF TablesInv
  <2>2. CASE graph' = Normalized
    <3>1. graph' = rows' /\ "ir_section" \in P
      BY <1>1, <2>2, PartsAre DEF TablesInv
    <3>2. rows'["ir_section"] \in Seq(Records("ir_section")) /\ InOrder("ir_section", rows'["ir_section"])
      BY <1>4, <3>1 DEF TableOf
    <3> QED BY <3>1, <3>2, SectionsAligned
  <2> QED BY <2>1, <2>2
<1>6. Parts(class)' = P
  BY <1>1 DEF Parts
<1>7. (found # NoAnswer => class # "IrBuilder") /\ (results # NoAnswer => class # "IrBuilder")
  BY DEF TablesInv
<1>8. found' = NoAnswer /\ results' = NoAnswer
  BY <1>7
<1> QED BY <1>3, <1>4, <1>5, <1>6, <1>8 DEF TablesInv

\* Every step keeps the invariant of the tables.
LEMMA TablesStep ==
  ASSUME TablesInv, [Next]_vars
  PROVE  TablesInv'
<1>0. UNCHANGED vars => TablesInv'
  BY DEF TablesInv, vars
<1>1. ASSUME NEW p \in Parts(class), NEW r \in Offered[p], add(p, r) PROVE TablesInv'
  BY <1>1, AddStep
<1>2. CASE finalize
  BY <1>2, NormalizeStep DEF finalize
<1>3. ASSUME NEW out \in BOOLEAN, build(out) PROVE TablesInv'
  <2>1. CASE out
    BY <1>3, <2>1, NormalizeStep DEF build
  <2>2. CASE ~out
    <3>1. UNCHANGED vars
      BY <1>3, <2>2 DEF build, vars
    <3> QED BY <3>1, <1>0
  <2> QED BY <2>1, <2>2
<1>4. ASSUME NEW n \in Names, find_by_name(n) PROVE TablesInv'
  <2>1. /\ class = "SymbolTable" /\ UNCHANGED <<class, rows, arrived, ordered, graph, results>>
        /\ found'.answer = FirstNamed(rows["symbol"], n) /\ found'.asked = n
    BY <1>4 DEF find_by_name
  <2>2. FirstNamed(rows["symbol"], found.asked)' = FirstNamed(rows["symbol"], n)
    BY <2>1
  <2> QED BY <2>1, <2>2 DEF TablesInv
<1>5. ASSUME NEW b \in Bases, apply(b) PROVE TablesInv'
  <2>1. /\ class = "RelocationPlanner" /\ UNCHANGED <<class, rows, arrived, ordered, graph, found>>
        /\ results'.answer = apply_relocations(rows["relocation"], b) /\ results'.asked = b
    BY <1>5 DEF apply
  <2>2. apply_relocations(rows["relocation"], results.asked)' = apply_relocations(rows["relocation"], b)
    BY <2>1
  <2> QED BY <2>1, <2>2 DEF TablesInv
<1> QED BY <1>1, <1>2, <1>3, <1>4, <1>5, <1>0 DEF Next

\* In every reachable state each vector is a rearrangement of what was added.
LEMMA TablesInvariant == Spec => []TablesInv
<1>1. Init => TablesInv
  <2> SUFFICES ASSUME Init PROVE TablesInv
    OBVIOUS
  <2>1. class \in Classes /\ rows = [p \in Parts(class) |-> << >>] /\ arrived = rows /\ graph = rows
    BY DEF Init
  <2>2. found = NoAnswer /\ results = NoAnswer
    BY DEF Init
  <2>3. \A p \in Parts(class) : TableOf(p, rows[p], arrived[p]) /\ InOrder(p, rows[p])
    BY <2>1, EmptyTable
  <2>4. class = "IrBuilder" => graph["ir_section"] = << >>
    BY <2>1, PartsAre
  <2>5. class = "IrBuilder" => \A r \in ToSet(graph["ir_section"]) : r.alignment # 0
    BY <2>4 DEF ToSet
  <2> QED BY <2>1, <2>2, <2>3, <2>5 DEF TablesInv
<1>2. TablesInv /\ [Next]_vars => TablesInv'
  BY TablesStep
<1> QED BY <1>1, <1>2, PTL DEF Spec

\* No section of a normalized table or a graph that was built has alignment zero,
\* for any records callers add.
THEOREM AlignmentsCorrect == Spec => []NoZeroAlignment
<1>1. TablesInv => NoZeroAlignment
  <2> SUFFICES ASSUME TablesInv PROVE NoZeroAlignment
    OBVIOUS
  <2>1. ASSUME ordered, class = "SectionTable" PROVE \A r \in ToSet(rows["section"]) : r.alignment # 0
    <3>1. "section" \in Parts(class)
      BY <2>1, PartsAre DEF TablesInv
    <3>2. rows["section"] \in Seq(Records("section")) /\ InOrder("section", rows["section"])
      BY <2>1, <3>1 DEF TablesInv, TableOf
    <3> QED BY <3>2, SectionsAligned
  <2> QED BY <2>1 DEF NoZeroAlignment, TablesInv
<1> QED BY <1>1, TablesInvariant, PTL

-----------------------------------------------------------------------------
\* What conversion to uint64_t does to a number at most one modulus away.
LEMMA UnsignedIs ==
  ASSUME NEW x \in Int
  PROVE  /\ UMax \in Nat /\ UMax + 1 = 2 * SignBit
         /\ 0 <= x /\ x <= UMax => Unsigned(x) = x
         /\ UMax < x /\ x <= 2 * UMax + 1 => Unsigned(x) = x - (UMax + 1)
         /\ -UMax <= x /\ x < 0 => Unsigned(x) = x + (UMax + 1)
<1>1. PICK M \in Nat \ {0} : M = 2 * SignBit /\ UMax = M - 1
  BY WordAssumption DEF UMax
<1>2. /\ 0 <= x /\ x < M => x % M = x
      /\ M <= x /\ x < 2 * M => x % M = x - M
      /\ -M < x /\ x < 0 => x % M = x + M
  <2>1. 0 <= x /\ x < M => x % M = x
    OBVIOUS
  <2>2. M <= x /\ x < 2 * M => x % M = x - M
    OBVIOUS
  <2>3. -M < x /\ x < 0 => x % M = x + M
    OBVIOUS
  <2> QED BY <2>1, <2>2, <2>3
<1>3. Unsigned(x) = x % M
  BY <1>1 DEF Unsigned
<1> QED BY <1>1, <1>2, <1>3

\* The result of one relocation is exact.
ExactFor(r, b, res) ==
  LET fits == Fits(ExactPlace(r, b)) /\ Fits(ExactSum(r)) /\ Fits(ExactValue(r, b))
  IN /\ res.offset = r.offset
     /\ r.kind # "kNone" /\ fits => res.status = "kApplied" /\ res.resolved_value = ExactValue(r, b)
     /\ ~Fits(ExactPlace(r, b)) \/ (r.kind # "kNone" /\ ~fits) => res.status = "kOverflow"

\* apply_single, at a place that fits, gives the value of the formula, or an
\* overflow if one of its sums leaves the word.
LEMMA SingleIs ==
  ASSUME NEW r \in RelocationRecord, NEW b \in 0..UMax, Fits(ExactPlace(r, b))
  PROVE  ExactFor(r, b, apply_single(r, ExactPlace(r, b)))
<1>1. PICK U \in Nat, t \in Nat, d \in Int, o \in Nat :
        /\ U = UMax /\ t = r.target_value /\ d = r.addend /\ o = r.offset
        /\ U + 1 = 2 * SignBit /\ t <= U /\ -SignBit <= d /\ d < SignBit
  BY UnsignedIs, WordAssumption DEF RelocationRecord, SignedWord
<1>2. PICK place \in Nat : place = ExactPlace(r, b) /\ place <= U
  BY <1>1 DEF Fits
<1> DEFINE uadd == Unsigned(d)
           usub == Unsigned(Negated(d))
           fails == IF d >= 0 THEN AddOverflows(t, uadd) ELSE t < usub
           sum == Unsigned(IF d >= 0 THEN t + uadd ELSE t - usub)
<1>3. /\ fails <=> ~Fits(t + d)
      /\ ~fails => sum = t + d
  <2>1. CASE d >= 0
    <3>1. uadd = d
      <4>1. 0 <= d /\ d <= UMax
        BY <1>1, <2>1, WordAssumption
      <4> QED BY <4>1, UnsignedIs
    <3>2. fails <=> t + d > U
      BY <1>1, <2>1, <3>1 DEF AddOverflows
    <3>3. t + d <= U => Unsigned(t + d) = t + d
      BY <1>1, <2>1, UnsignedIs
    <3>4. sum = Unsigned(t + d)
      BY <2>1, <3>1
    <3>5. Fits(t + d) <=> t + d <= U
      BY <1>1, <2>1 DEF Fits
    <3> QED BY <3>2, <3>3, <3>4, <3>5
  <2>2. CASE d < 0
    <3>1. usub = -d
      <4>1. CASE d = -SignBit
        <5>1. -SignBit \in Int /\ -UMax <= -SignBit /\ -SignBit < 0
          BY <1>1, WordAssumption
        <5>2. Unsigned(-SignBit) = -SignBit + (UMax + 1)
          BY <5>1, UnsignedIs
        <5> QED BY <1>1, <4>1, <5>2, WordAssumption DEF Negated
      <4>2. CASE d # -SignBit
        <5>1. -d \in Int /\ 0 <= -d /\ -d <= UMax
          BY <1>1, <2>2, WordAssumption
        <5> QED BY <4>2, <5>1, UnsignedIs DEF Negated
      <4> QED BY <4>1, <4>2
    <3>2. fails <=> t + d < 0
      BY <1>1, <2>2, <3>1
    <3>3. t + d \in Int /\ (t + d >= 0 => 0 <= t + d /\ t + d <= UMax)
      BY <1>1, <2>2
    <3>4. t + d >= 0 => Unsigned(t + d) = t + d
      BY <3>3, UnsignedIs
    <3>5. sum = Unsigned(t + d)
      <4>1. t - (-d) = t + d /\ ~(d >= 0)
        BY <1>1, <2>2
      <4> QED BY <3>1, <4>1
    <3>6. Fits(t + d) <=> t + d >= 0
      BY <1>1, <2>2 DEF Fits
    <3> QED BY <1>1, <3>2, <3>4, <3>5, <3>6
  <2> QED BY <1>1, <2>1, <2>2
<1>4. apply_single(r, place) =
        IF r.kind = "kNone" THEN Outcome(r, "kSkippedUnsupported", 0)
        ELSE IF fails THEN Overflow(r, 0)
        ELSE IF r.kind # "kPcRelative" THEN Outcome(r, "kApplied", sum)
        ELSE IF sum < place THEN Overflow(r, sum)
        ELSE Outcome(r, "kApplied", sum - place)
  BY <1>1, Zenon DEF apply_single
<1> HIDE DEF uadd, usub, fails, sum
<1>5. PICK res : res = apply_single(r, place)
  OBVIOUS
<1>6. ExactSum(r) = t + d /\ ExactValue(r, b) = IF r.kind = "kPcRelative" THEN (t + d) - place ELSE t + d
  BY <1>1, <1>2 DEF ExactSum, ExactValue
<1>7. /\ res.offset = r.offset
      /\ r.kind # "kNone" /\ fails => res.status = "kOverflow"
      /\ r.kind # "kNone" /\ ~fails /\ r.kind # "kPcRelative" => res.status = "kApplied" /\ res.resolved_value = sum
      /\ ~fails /\ r.kind = "kPcRelative" /\ sum < place => res.status = "kOverflow"
      /\ ~fails /\ r.kind = "kPcRelative" /\ ~(sum < place) => res.status = "kApplied" /\ res.resolved_value = sum - place
  BY <1>4, <1>5 DEF Outcome, Overflow
<1>8. Fits((t + d) - place) <=> (t + d) - place >= 0 /\ (t + d) - place <= U
  BY <1>1 DEF Fits
<1>9. Fits(t + d) => t + d <= U /\ t + d >= 0
  BY <1>1 DEF Fits
<1>10. ExactFor(r, b, res)
  <2>1. CASE r.kind = "kNone"
    BY <1>2, <1>7, <2>1 DEF ExactFor
  <2>2. CASE r.kind # "kNone" /\ r.kind # "kPcRelative"
    BY <1>2, <1>3, <1>6, <1>7, <2>2 DEF ExactFor
  <2>3. CASE r.kind = "kPcRelative"
    <3>1. CASE fails
      BY <1>2, <1>3, <1>6, <1>7, <2>3, <3>1 DEF ExactFor
    <3>2. CASE ~fails
      <4>1. sum = t + d /\ Fits(t + d) /\ (sum < place <=> ~Fits((t + d) - place))
        BY <1>1, <1>2, <1>3, <1>8, <1>9, <3>2
      <4> QED BY <1>2, <1>6, <1>7, <2>3, <3>2, <4>1 DEF ExactFor
    <3> QED BY <3>1, <3>2
  <2> QED BY <2>1, <2>2, <2>3
<1> QED BY <1>2, <1>5, <1>10

\* apply_relocations treats each relocation exactly, an overflowing place too.
LEMMA ApplyIs ==
  ASSUME NEW s \in Seq(RelocationRecord), NEW b \in 0..UMax, NEW i \in 1..Len(s)
  PROVE  ExactFor(s[i], b, apply_relocations(s, b)[i])
<1>1. PICK r \in RelocationRecord : r = s[i]
  BY ElementOfSeq
<1>2. PICK o \in Nat, U \in Nat, c \in Nat : o = r.offset /\ U = UMax /\ o <= U /\ c = b /\ c <= U
  BY UnsignedIs DEF RelocationRecord
<1> DEFINE place == Unsigned(b + r.offset)
<1>3. apply_relocations(s, b)[i] = IF place < b THEN Overflow(r, 0) ELSE apply_single(r, place)
  BY <1>1 DEF apply_relocations
<1>4. ExactPlace(r, b) = c + o /\ place = Unsigned(c + o)
  BY <1>2 DEF ExactPlace
<1>5. CASE c + o <= U
  <2>1. place = c + o
    <3>1. c + o \in Int /\ 0 <= c + o /\ c + o <= UMax
      BY <1>2, <1>5
    <3> QED BY <1>4, <3>1, UnsignedIs
  <2>2. Fits(ExactPlace(r, b)) /\ ~(place < b) /\ place = ExactPlace(r, b)
    BY <1>2, <1>4, <1>5, <2>1 DEF Fits
  <2> QED BY <1>1, <1>3, <2>2, SingleIs
<1>6. CASE c + o > U
  <2>1. place = (c + o) - (U + 1)
    <3>1. c + o \in Int /\ UMax < c + o /\ c + o <= 2 * UMax + 1
      BY <1>2, <1>6
    <3> QED BY <1>2, <1>4, <3>1, UnsignedIs
  <2>2. place < b /\ ~Fits(ExactPlace(r, b))
    BY <1>2, <1>4, <1>6, <2>1 DEF Fits
  <2>3. apply_relocations(s, b)[i] = Overflow(r, 0)
    BY <1>3, <2>2
  <2> QED BY <1>1, <2>2, <2>3 DEF Overflow, Outcome, ExactFor
<1> QED BY <1>2, <1>5, <1>6

\* Every relocation that is reported as applied has the value of the formula in
\* the integers, and one that leaves the word is reported, for any word width.
THEOREM AppliedCorrect == Spec => []AppliedIsExact
<1>1. TablesInv => AppliedIsExact
  <2> SUFFICES ASSUME TablesInv, results # NoAnswer, NEW i \in DOMAIN results.answer
               PROVE  ExactFor(rows["relocation"][i], results.asked, results.answer[i])
    BY DEF AppliedIsExact, ExactFor
  <2>1. /\ class = "RelocationPlanner" /\ results.asked \in Bases
        /\ results.answer = apply_relocations(rows["relocation"], results.asked)
    BY DEF TablesInv
  <2>2. "relocation" \in Parts(class)
    BY <2>1, PartsAre DEF TablesInv
  <2>3. rows["relocation"] \in Seq(Records("relocation"))
    BY <2>2 DEF TablesInv, TableOf
  <2>4. Records("relocation") = RelocationRecord
    BY DEF Records
  <2>5. PICK s \in Seq(RelocationRecord) : s = rows["relocation"]
    BY <2>3, <2>4
  <2>6. PICK b \in 0..UMax : b = results.asked
    BY <2>1, TablesAssumption
  <2>7. results.answer = apply_relocations(s, b)
    BY <2>1, <2>5, <2>6
  <2>8. DOMAIN apply_relocations(s, b) = 1..Len(s)
    BY DEF apply_relocations
  <2>9. i \in 1..Len(s)
    BY <2>7, <2>8
  <2> QED BY <2>5, <2>6, <2>7, <2>9, ApplyIs
<1> QED BY <1>1, TablesInvariant, PTL

-----------------------------------------------------------------------------
\* What the records of a table in order are: R[i] is C[q[i]], C being the
\* canonical form of what arrived.
Ordered(p, R, C, q) ==
  /\ R = [i \in 1..Len(C) |-> C[q[i]]]
  /\ \A i, j \in 1..Len(C) : i < j =>
       /\ ~Less(Key(p, R[j]), Key(p, R[i]))
       /\ Key(p, R[i]) = Key(p, R[j]) => q[i] < q[j]

\* A table in order is the canonical form of what arrived, rearranged; equal keys
\* stay in the order of arrival.
LEMMA OrderedTable ==
  ASSUME NEW p \in AllParts, NEW R, NEW A, TableOf(p, R, A), InOrder(p, R)
  PROVE  /\ Canonical(p, A) \in Seq(Records(p)) /\ Len(Canonical(p, A)) = Len(A) /\ Len(R) = Len(A)
         /\ \E q \in Injection(1..Len(A), 1..Len(A)) : Ordered(p, R, Canonical(p, A), q)
<1>1. R \in Seq(Records(p)) /\ A \in Seq(Records(p))
  BY DEF TableOf
<1>2. PICK n \in Nat : n = Len(R) /\ n = Len(A)
  BY <1>1 DEF TableOf
<1>3. PICK q \in Injection(1..n, 1..n) : Traced(p, R, A, q)
  BY <1>2 DEF TableOf
<1>4. q \in [1..n -> 1..n]
  BY TurnIsOnto
<1>5. PICK C \in Seq(Records(p)) : /\ C = Canonical(p, A) /\ Len(C) = n
                                  /\ \A i \in 1..n : C[i] = CanonicalRecord(p, A[i])
  BY <1>1, <1>2, CanonicalSeq
<1>6. \A i \in 1..n : R[i] = C[q[i]]
  <2> SUFFICES ASSUME NEW i \in 1..n PROVE R[i] = C[q[i]]
    OBVIOUS
  <2>1. R[i] = CanonicalRecord(p, R[i])
    BY <1>2 DEF InOrder
  <2>2. CanonicalRecord(p, R[i]) = CanonicalRecord(p, A[q[i]])
    BY <1>2, <1>3 DEF Traced
  <2>3. q[i] \in 1..n
    BY <1>4
  <2> QED BY <1>5, <2>1, <2>2, <2>3
<1>7. R = [i \in 1..n |-> C[q[i]]]
  <2>1. R = [i \in 1..n |-> R[i]]
    <3> DEFINE X == Records(p)
    <3>1. R \in Seq(X)
      BY <1>1
    <3> HIDE DEF X
    <3>2. R \in [1..Len(R) -> X]
      BY <3>1, LenProperties
    <3> QED BY <1>2, <3>2
  <2> QED BY <1>6, <2>1
<1>8. Ordered(p, R, C, q)
  BY <1>2, <1>3, <1>5, <1>7 DEF Ordered, InOrder, Traced
<1> QED BY <1>2, <1>5, <1>8

\* After a normalization, records the comparator does not tell apart are in the
\* order in which they arrived, over any number of normalizations.
THEOREM TiesCorrect == Spec => []TiesInArrivalOrder
<1>1. TablesInv => TiesInArrivalOrder
  <2> SUFFICES ASSUME TablesInv, ordered, NEW p \in Parts(class)
               PROVE  \E q \in Injection(DOMAIN arrived[p], DOMAIN arrived[p]) :
                        /\ rows[p] = [i \in DOMAIN arrived[p] |-> Canonical(p, arrived[p])[q[i]]]
                        /\ \A i, j \in DOMAIN rows[p] : i < j =>
                             /\ ~Less(Key(p, rows[p][j]), Key(p, rows[p][i]))
                             /\ Key(p, rows[p][i]) = Key(p, rows[p][j]) => q[i] < q[j]
    BY DEF TiesInArrivalOrder
  <2>1. TableOf(p, rows[p], arrived[p]) /\ InOrder(p, rows[p]) /\ p \in AllParts
    BY PartsAre DEF TablesInv
  <2>2. PICK R, A, C : R = rows[p] /\ A = arrived[p] /\ C = Canonical(p, A)
    OBVIOUS
  <2>3. A \in Seq(Records(p)) /\ R \in Seq(Records(p))
    BY <2>1, <2>2 DEF TableOf
  <2>4. /\ Len(C) = Len(A) /\ Len(R) = Len(A)
        /\ \E q \in Injection(1..Len(A), 1..Len(A)) : Ordered(p, R, C, q)
    BY <2>1, <2>2, OrderedTable
  <2>5. DOMAIN A = 1..Len(A) /\ DOMAIN R = 1..Len(A)
    BY <2>3, <2>4
  <2>6. PICK q \in Injection(1..Len(A), 1..Len(A)) : Ordered(p, R, C, q)
    BY <2>4
  <2>7. /\ q \in Injection(DOMAIN A, DOMAIN A) /\ R = [i \in DOMAIN A |-> C[q[i]]]
        /\ \A i, j \in DOMAIN R : i < j => /\ ~Less(Key(p, R[j]), Key(p, R[i]))
                                           /\ Key(p, R[i]) = Key(p, R[j]) => q[i] < q[j]
    BY <2>4, <2>5, <2>6 DEF Ordered
  <2>8. C = Canonical(p, arrived[p])
    BY <2>2
  <2> QED BY <2>2, <2>7, <2>8, ZenonT(40)
<1> QED BY <1>1, TablesInvariant, PTL

\* Every rearrangement of 1..n has an inverse, which is one too.
LEMMA InverseIs ==
  ASSUME NEW n \in Nat, NEW f \in Injection(1..n, 1..n)
  PROVE  \E g \in Injection(1..n, 1..n) : \A k \in 1..n : f[g[k]] = k /\ g[f[k]] = k
<1> DEFINE g == [k \in 1..n |-> CHOOSE i \in 1..n : f[i] = k]
<1>1. /\ f \in [1..n -> 1..n] /\ \A i, j \in 1..n : f[i] = f[j] => i = j
      /\ \A k \in 1..n : \E i \in 1..n : f[i] = k
  BY TurnIsOnto
<1>2. \A k \in 1..n : g[k] \in 1..n /\ f[g[k]] = k
  BY <1>1
<1>3. g \in [1..n -> 1..n]
  BY <1>2
<1> HIDE DEF g
<1>4. \A k \in 1..n : g[f[k]] = k
  BY SMTT(40), <1>1, <1>2
<1>5. \A i, j \in 1..n : g[i] = g[j] => i = j
  BY <1>2
<1>6. g \in Injection(1..n, 1..n)
  BY <1>3, <1>5, TurnIs
<1> QED BY <1>2, <1>4, <1>6

\* Two sorted vectors, one a rearrangement of the other: at no place is the key of
\* the first less than that of the second.
LEMMA NotLess ==
  ASSUME NEW p \in AllParts, NEW n \in Nat, NEW u \in [1..n -> Records(p)], NEW v \in [1..n -> Records(p)],
         \A i, j \in 1..n : i < j => ~Less(Key(p, u[j]), Key(p, u[i])),
         \A i, j \in 1..n : i < j => ~Less(Key(p, v[j]), Key(p, v[i])),
         NEW f \in Injection(1..n, 1..n), \A j \in 1..n : u[j] = v[f[j]],
         NEW m \in 1..n
  PROVE  ~Less(Key(p, u[m]), Key(p, v[m]))
<1> SUFFICES ASSUME Less(Key(p, u[m]), Key(p, v[m])) PROVE FALSE
  OBVIOUS
<1>1. f \in [1..n -> 1..n] /\ \A i, j \in 1..n : f[i] = f[j] => i = j
  BY TurnIsOnto, ZenonT(40)
<1> DEFINE K == KeyLength(p)
           ku == [i \in 1..n |-> Key(p, u[i])]
           kv == [i \in 1..n |-> Key(p, v[i])]
<1>2. /\ K \in Nat /\ \A i \in 1..n : ku[i] \in [1..K -> Nat] /\ kv[i] \in [1..K -> Nat]
  BY KeyIs DEF KeyLength
<1>3. /\ \A i, j \in 1..n : i < j => ~Less(ku[j], ku[i]) /\ ~Less(kv[j], kv[i])
      /\ \A j \in 1..n : ku[j] = kv[f[j]]
      /\ Less(ku[m], kv[m])
  BY <1>1
<1> HIDE DEF ku, kv, K
<1>4. ASSUME NEW j \in 1..m PROVE f[j] \in 1..m-1
  <2>1. j \in 1..n /\ f[j] \in 1..n
    BY <1>1
  <2>2. Less(ku[j], kv[m])
    <3>1. CASE j = m
      BY <1>3, <3>1
    <3>2. CASE j < m
      <4>1. ~Less(ku[m], ku[j])
        BY <1>3, <2>1, <3>2
      <4>2. ku[j] = ku[m] \/ Less(ku[j], ku[m])
        BY <1>2, <2>1, <4>1, LessIs
      <4>3. Less(ku[j], ku[m]) /\ Less(ku[m], kv[m]) => Less(ku[j], kv[m])
        BY <1>2, <2>1, LessIs
      <4> QED BY <1>3, <4>2, <4>3
    <3> QED BY <3>1, <3>2
  <2>3. Less(kv[f[j]], kv[m])
    BY <1>3, <2>1, <2>2
  <2>4. f[j] # m
    BY <1>2, <2>3, LessIs
  <2>5. ~(m < f[j])
    BY <1>3, <2>1, <2>3
  <2> QED BY <2>1, <2>4, <2>5
<1> DEFINE h == [j \in 1..m |-> f[j]]
<1>5. h \in [1..m -> 1..m-1]
  BY <1>4
<1>6. IsFiniteSet(1..m) /\ IsFiniteSet(1..m-1) /\ Cardinality(1..m) = m /\ Cardinality(1..m-1) = m - 1
  <2>1. m - 1 \in Int /\ m \in Int /\ 1 \in Int
    OBVIOUS
  <2>2. IsFiniteSet(1..m) /\ Cardinality(1..m) = IF 1 > m THEN 0 ELSE m - 1 + 1
    BY <2>1, FS_Interval
  <2>3. IsFiniteSet(1..m-1) /\ Cardinality(1..m-1) = IF 1 > m - 1 THEN 0 ELSE (m - 1) - 1 + 1
    BY <2>1, FS_Interval
  <2> QED BY <2>2, <2>3
<1>7. PICK x \in 1..m, y \in 1..m : x # y /\ h[x] = h[y]
  <2>1. m - 1 < m
    OBVIOUS
  <2>2. PICK S, T : S = 1..m /\ T = 1..m-1
    OBVIOUS
  <2> HIDE DEF h
  <2>3. IsFiniteSet(S) /\ IsFiniteSet(T) /\ Cardinality(T) < Cardinality(S) /\ h \in [S -> T]
    BY <1>5, <1>6, <2>1, <2>2
  <2>4. \E x, y \in S : x # y /\ h[x] = h[y]
    BY <2>3, FS_PigeonHole
  <2> QED BY <2>2, <2>4
<1> QED BY <1>1, <1>7

\* The key of a symbol holds all its fields.
LEMMA SymbolByKey ==
  ASSUME NEW r \in Records("symbol"), NEW s \in Records("symbol"), Key("symbol", r) = Key("symbol", s)
  PROVE  r = s
<1>1. <<r.name, r.scope, r.ordinal, r.value, r.size>> = <<s.name, s.scope, s.ordinal, s.value, s.size>>
  BY DEF Key, SymbolKey
<1>2. r.name = s.name /\ r.scope = s.scope /\ r.ordinal = s.ordinal /\ r.value = s.value /\ r.size = s.size
  BY <1>1
<1> QED BY <1>2 DEF Records

\* Sorting any rearrangement of the records gives the same vector, if records of
\* equal keys are equal.
LEMMA SameOrder ==
  ASSUME NEW p \in AllParts, NEW C \in Seq(Records(p)), NEW R,
         NEW q \in Injection(1..Len(C), 1..Len(C)), Ordered(p, R, C, q),
         p = "symbol" \/ \A i, j \in DOMAIN R : Key(p, R[i]) = Key(p, R[j]) => R[i] = R[j],
         NEW a \in Injection(1..Len(C), 1..Len(C)), NEW s, s = [i \in 1..Len(C) |-> C[a[i]]]
  PROVE  stable_sort(p, s) = R
<1>1. PICK n \in Nat : n = Len(C)
  BY LenProperties
<1> DEFINE X == Records(p)
<1>2. C \in [1..n -> X]
  BY <1>1, LenProperties
<1>3. /\ q \in [1..n -> 1..n] /\ \A i, j \in 1..n : q[i] = q[j] => i = j
      /\ a \in [1..n -> 1..n] /\ \A i, j \in 1..n : a[i] = a[j] => i = j
  BY <1>1, TurnIsOnto
<1>4. R = [i \in 1..n |-> C[q[i]]] /\ \A i, j \in 1..n : i < j => ~Less(Key(p, R[j]), Key(p, R[i]))
  BY <1>1 DEF Ordered
<1>5. R \in [1..n -> X] /\ \A i \in 1..n : R[i] = C[q[i]]
  <2> HIDE DEF X
  <2> QED BY <1>2, <1>3, <1>4
<1>6. s \in Seq(X) /\ Len(s) = n /\ \A i \in 1..n : s[i] = C[a[i]]
  <2> HIDE DEF X
  <2>1. s = [i \in 1..n |-> C[a[i]]] /\ \A i \in 1..n : C[a[i]] \in X
    BY <1>1, <1>2, <1>3
  <2> QED BY <2>1
<1>7. PICK t : t = stable_sort(p, s)
  OBVIOUS
<1>8. PICK u \in Injection(1..n, 1..n) : SortedBy(p, s, t, u)
  BY <1>6, <1>7, StableSortIs
<1>9. u \in [1..n -> 1..n] /\ \A i, j \in 1..n : u[i] = u[j] => i = j
  BY TurnIsOnto
<1>10. t = [i \in 1..n |-> s[u[i]]] /\ \A i, j \in 1..n : i < j => Before(p, s, u[i], u[j])
  BY <1>6, <1>8 DEF SortedBy
<1>11. t \in [1..n -> X] /\ \A i \in 1..n : t[i] = C[a[u[i]]] /\ t[i] = s[u[i]]
  <2> HIDE DEF X
  <2>1. \A i \in 1..n : u[i] \in 1..n
    BY <1>9
  <2>2. \A i \in 1..n : s[i] = C[a[i]] /\ C[a[i]] \in X
    BY <1>2, <1>3, <1>6
  <2>3. \A i \in 1..n : t[i] = s[u[i]]
    BY <1>10
  <2>4. \A i \in 1..n : s[u[i]] = C[a[u[i]]] /\ s[u[i]] \in X
    BY <2>1, <2>2
  <2> QED BY <1>10, <2>3, <2>4
<1>12. ASSUME NEW i \in 1..n, NEW j \in 1..n, i < j PROVE ~Less(Key(p, t[j]), Key(p, t[i]))
  <2>1. PICK k \in 1..n, l \in 1..n : k = u[i] /\ l = u[j] /\ t[i] = s[k] /\ t[j] = s[l]
    <3>1. u[i] \in 1..n /\ u[j] \in 1..n
      BY <1>9
    <3>2. t[i] = s[u[i]] /\ t[j] = s[u[j]]
      BY <1>11
    <3> QED BY <3>1, <3>2
  <2>2. Before(p, s, k, l)
    BY <1>10, <1>12, <2>1
  <2>3. s \in Seq(Records(p)) /\ k \in 1..Len(s) /\ l \in 1..Len(s)
    BY <1>6
  <2>4. ~Less(Key(p, s[l]), Key(p, s[k]))
    BY <2>2, <2>3, BeforeIs
  <2> QED BY <2>1, <2>4
<1> DEFINE w == [i \in 1..n |-> a[u[i]]]
<1>13. w \in Injection(1..n, 1..n) /\ \A i \in 1..n : t[i] = C[w[i]]
  <2>1. w \in [1..n -> 1..n] /\ \A i, j \in 1..n : w[i] = w[j] => i = j
    BY <1>3, <1>9
  <2>2. \A i \in 1..n : t[i] = C[w[i]]
    BY <1>11
  <2> HIDE DEF w
  <2> QED BY <2>1, <2>2, TurnIs
<1> HIDE DEF w
<1>14. w \in [1..n -> 1..n] /\ \A i, j \in 1..n : w[i] = w[j] => i = j
  BY <1>13, TurnIsOnto
<1>15. PICK v \in Injection(1..n, 1..n) : \A k \in 1..n : w[v[k]] = k /\ v[w[k]] = k
  BY <1>13, InverseIs
<1>16. PICK g \in Injection(1..n, 1..n) : \A k \in 1..n : q[g[k]] = k /\ g[q[k]] = k
  BY <1>1, InverseIs
<1>17. /\ v \in [1..n -> 1..n] /\ \A i, j \in 1..n : v[i] = v[j] => i = j
       /\ g \in [1..n -> 1..n] /\ \A i, j \in 1..n : g[i] = g[j] => i = j
  BY TurnIsOnto
<1> DEFINE f == [j \in 1..n |-> v[q[j]]]
           e == [j \in 1..n |-> g[w[j]]]
<1>18. f \in Injection(1..n, 1..n) /\ \A j \in 1..n : R[j] = t[f[j]]
  <2>1. f \in [1..n -> 1..n] /\ \A i, j \in 1..n : f[i] = f[j] => i = j
    <3>1. \A j \in 1..n : q[j] \in 1..n /\ v[q[j]] \in 1..n /\ f[j] = v[q[j]]
      BY <1>3, <1>17
    <3>2. f \in [1..n -> 1..n]
      BY <3>1
    <3>3. ASSUME NEW i \in 1..n, NEW j \in 1..n, f[i] = f[j] PROVE i = j
      <4>1. PICK x \in 1..n : x = q[i] /\ f[i] = v[x]
        BY <3>1
      <4>2. PICK y \in 1..n : y = q[j] /\ f[j] = v[y]
        BY <3>1
      <4>3. x = y
        BY <1>17, <3>3, <4>1, <4>2
      <4>4. q[i] = q[j]
        BY <4>1, <4>2, <4>3
      <4> HIDE DEF f
      <4> QED BY <1>3, <4>4
    <3> QED BY <3>2, <3>3
  <2>2. \A j \in 1..n : R[j] = t[f[j]]
    <3> SUFFICES ASSUME NEW j \in 1..n PROVE R[j] = t[f[j]]
      OBVIOUS
    <3>1. PICK k \in 1..n : k = q[j]
      BY <1>3
    <3>2. PICK l \in 1..n : l = v[k]
      BY <1>17
    <3>3. f[j] = l /\ w[l] = k
      BY <1>15, <3>1, <3>2
    <3>4. t[l] = C[w[l]] /\ R[j] = C[q[j]]
      BY <1>5, <1>13
    <3> QED BY <3>1, <3>3, <3>4
  <2> HIDE DEF f
  <2> QED BY <2>1, <2>2, TurnIs
<1>19. e \in Injection(1..n, 1..n) /\ \A j \in 1..n : t[j] = R[e[j]] /\ e[j] \in 1..n
  <2>1. e \in [1..n -> 1..n] /\ \A i, j \in 1..n : e[i] = e[j] => i = j
    <3>1. \A j \in 1..n : w[j] \in 1..n /\ g[w[j]] \in 1..n /\ e[j] = g[w[j]]
      BY <1>14, <1>17
    <3>2. e \in [1..n -> 1..n]
      BY <3>1
    <3>3. ASSUME NEW i \in 1..n, NEW j \in 1..n, e[i] = e[j] PROVE i = j
      <4>1. PICK x \in 1..n : x = w[i] /\ e[i] = g[x]
        BY <3>1
      <4>2. PICK y \in 1..n : y = w[j] /\ e[j] = g[y]
        BY <3>1
      <4>3. x = y
        BY <1>17, <3>3, <4>1, <4>2
      <4>4. w[i] = w[j]
        BY <4>1, <4>2, <4>3
      <4> HIDE DEF e
      <4> QED BY <1>14, <4>4
    <3> QED BY <3>2, <3>3
  <2>2. \A j \in 1..n : t[j] = R[e[j]]
    <3> SUFFICES ASSUME NEW j \in 1..n PROVE t[j] = R[e[j]]
      OBVIOUS
    <3>1. PICK k \in 1..n : k = w[j]
      BY <1>14
    <3>2. PICK l \in 1..n : l = g[k]
      BY <1>17
    <3>3. e[j] = l /\ q[l] = k
      BY <1>16, <3>1, <3>2
    <3>4. t[j] = C[w[j]] /\ R[l] = C[q[l]]
      BY <1>5, <1>13
    <3> QED BY <3>1, <3>3, <3>4
  <2> HIDE DEF e
  <2> QED BY <2>1, <2>2, TurnIs
<1> HIDE DEF f, e
<1>20. ASSUME NEW m \in 1..n PROVE t[m] = R[m]
  <2>a. R \in [1..n -> Records(p)] /\ t \in [1..n -> Records(p)]
    BY <1>5, <1>11
  <2>b. /\ \A i, j \in 1..n : i < j => ~Less(Key(p, R[j]), Key(p, R[i]))
        /\ \A i, j \in 1..n : i < j => ~Less(Key(p, t[j]), Key(p, t[i]))
    BY <1>4, <1>12
  <2>1. ~Less(Key(p, R[m]), Key(p, t[m]))
    BY <2>a, <2>b, <1>18, NotLess
  <2>2. ~Less(Key(p, t[m]), Key(p, R[m]))
    <3>1. /\ e \in Injection(1..n, 1..n)
          /\ \A j \in 1..n : t[j] = R[e[j]]
      BY <1>19
    <3>2. /\ \A i, j \in 1..n : i < j => ~Less(Key(p, t[j]), Key(p, t[i]))
          /\ \A i, j \in 1..n : i < j => ~Less(Key(p, R[j]), Key(p, R[i]))
      BY <2>b
    <3> HIDE <2>b
    <3> QED BY <2>a, <3>1, <3>2, NotLess
  <2>3. t[m] \in Records(p) /\ R[m] \in Records(p)
    BY <1>5, <1>11
  <2>4. Key(p, R[m]) = Key(p, t[m])
    <3>1. PICK x, y : x = Key(p, R[m]) /\ y = Key(p, t[m])
      OBVIOUS
    <3>2. x \in [1..KeyLength(p) -> Nat] /\ y \in [1..KeyLength(p) -> Nat] /\ KeyLength(p) \in Nat
      BY <2>3, <3>1, KeyIs
    <3> QED BY <2>1, <2>2, <3>1, <3>2, LessIs
  <2>5. CASE p = "symbol"
    BY <2>3, <2>4, <2>5, SymbolByKey
  <2>6. CASE p # "symbol"
    <3>1. PICK k \in 1..n : t[m] = R[k]
      BY <1>19
    <3>2. DOMAIN R = 1..n
      BY <1>5
    <3> QED BY <2>4, <2>6, <3>1, <3>2
  <2> QED BY <2>5, <2>6
<1>21. t = R
  <2> HIDE DEF X
  <2> QED BY <1>5, <1>11, <1>20
<1> QED BY <1>7, <1>21

\* The vectors of a normalized table do not depend on the order in which the
\* records were added, unless two different records have one key.
THEOREM OrderCorrect == Spec => []OrderIndependent
<1>1. TablesInv => OrderIndependent
  <2> SUFFICES ASSUME TablesInv, ordered, NEW p \in Parts(class),
                      p = "symbol" \/ \A i, j \in DOMAIN rows[p] :
                        Key(p, rows[p][i]) = Key(p, rows[p][j]) => rows[p][i] = rows[p][j],
                      NEW s \in Rearrangements(Canonical(p, arrived[p]))
               PROVE  stable_sort(p, s) = rows[p]
    BY DEF OrderIndependent
  <2>1. TableOf(p, rows[p], arrived[p]) /\ InOrder(p, rows[p]) /\ p \in AllParts
    BY PartsAre DEF TablesInv
  <2>2. PICK R, A : R = rows[p] /\ A = arrived[p]
    OBVIOUS
  <2>3. PICK C : C = Canonical(p, A)
    OBVIOUS
  <2>4. /\ C \in Seq(Records(p)) /\ Len(C) = Len(A)
        /\ \E q \in Injection(1..Len(A), 1..Len(A)) : Ordered(p, R, C, q)
    BY <2>1, <2>2, <2>3, OrderedTable
  <2>5. PICK q \in Injection(1..Len(C), 1..Len(C)) : Ordered(p, R, C, q)
    BY <2>4
  <2>6. DOMAIN C = 1..Len(C)
    BY <2>4, LenProperties
  <2>7. PICK a \in Injection(1..Len(C), 1..Len(C)) : s = [i \in 1..Len(C) |-> C[a[i]]]
    BY <2>2, <2>3, <2>6 DEF Rearrangements
  <2>8. p = "symbol" \/ \A i, j \in DOMAIN R : Key(p, R[i]) = Key(p, R[j]) => R[i] = R[j]
    BY <2>2
  <2> QED BY <2>1, <2>2, <2>4, <2>5, <2>7, <2>8, SameOrder
<1> QED BY <1>1, TablesInvariant, PTL

\* find_by_name on a normalized symbol table gives the least of the symbols of
\* that name, and nothing only if none was added.
THEOREM FindCorrect == Spec => []FindsLeast
<1>1. TablesInv => FindsLeast
  <2> SUFFICES ASSUME TablesInv, ordered, found # NoAnswer PROVE FindsLeast
    BY DEF FindsLeast
  <2>1. class = "SymbolTable" /\ "symbol" \in Parts(class) /\ "symbol" \in AllParts
    BY PartsAre DEF TablesInv, AllParts
  <2>2. PICK R, A, x : R = rows["symbol"] /\ A = arrived["symbol"] /\ x = found.asked
    OBVIOUS
  <2>3. TableOf("symbol", R, A) /\ InOrder("symbol", R) /\ found.answer = FirstNamed(R, x)
    BY <2>1, <2>2 DEF TablesInv
  <2>4. R \in Seq(Records("symbol")) /\ A \in Seq(Records("symbol")) /\ Len(R) = Len(A)
    BY <2>3 DEF TableOf
  <2>5. PICK n \in Nat : n = Len(R) /\ n = Len(A) /\ DOMAIN R = 1..n /\ DOMAIN A = 1..n
    BY <2>4, LenProperties
  <2>6. PICK q \in Injection(1..n, 1..n) : \A i \in 1..n : R[i] = A[q[i]]
    BY <2>3, <2>5 DEF TableOf, Traced, CanonicalRecord
  <2>7. /\ q \in [1..n -> 1..n] /\ \A k \in 1..n : \E i \in 1..n : q[i] = k
    BY TurnIsOnto
  <2>8. ToSet(A) = ToSet(R)
    <3>1. ASSUME NEW k \in 1..n PROVE \E i \in 1..n : R[i] = A[k]
      <4>1. PICK i \in 1..n : q[i] = k
        BY <2>7
      <4>2. R[i] = A[q[i]]
        BY <2>6
      <4> QED BY <4>1, <4>2
    <3>2. ASSUME NEW i \in 1..n PROVE \E k \in 1..n : R[i] = A[k]
      BY <2>6, <2>7
    <3>3. ToSet(A) = {A[k] : k \in 1..n} /\ ToSet(R) = {R[i] : i \in 1..n}
      BY <2>5 DEF ToSet
    <3>4. {A[k] : k \in 1..n} \subseteq {R[i] : i \in 1..n}
      BY <3>1
    <3>5. {R[i] : i \in 1..n} \subseteq {A[k] : k \in 1..n}
      BY <3>2
    <3> QED BY <3>3, <3>4, <3>5
  <2> DEFINE hits == {i \in 1..n : R[i].name = x}
             same == {r \in ToSet(A) : r.name = x}
  <2>9. found.answer = IF hits = {} THEN << >> ELSE <<R[Min(hits)]>>
    BY <2>3, <2>5 DEF FirstNamed
  <2>10. same = {} <=> hits = {}
    BY <2>5, <2>8 DEF ToSet
  <2>11. ASSUME same # {}
         PROVE  /\ ToSet(found.answer) \subseteq same /\ found.answer # << >>
                /\ \A r \in same : ~Less(<<r.scope, r.ordinal, r.value, r.size>>,
                     <<found.answer[1].scope, found.answer[1].ordinal,
                       found.answer[1].value, found.answer[1].size>>)
    <3>1. hits # {} /\ hits \subseteq Nat
      BY <2>10, <2>11
    <3>2. PICK m \in hits : m = Min(hits) /\ \A y \in hits : m <= y
      <4>1. PICK m \in hits : \A y \in hits : m <= y
        <5> HIDE DEF hits
        <5> QED BY <3>1, LeastElement
      <4>2. Min(hits) \in hits /\ \A y \in hits : Min(hits) <= y
        <5> HIDE DEF hits
        <5> QED BY <4>1 DEF Min
      <4> QED BY <4>2
    <3>3. PICK ans : ans = R[m]
      OBVIOUS
    <3>4. found.answer = <<ans>> /\ ans \in same
      BY <2>5, <2>8, <2>9, <3>1, <3>2, <3>3 DEF ToSet
    <3>5. ASSUME NEW r \in same
          PROVE  ~Less(<<r.scope, r.ordinal, r.value, r.size>>,
                       <<ans.scope, ans.ordinal, ans.value, ans.size>>)
      <4>1. PICK k \in hits : r = R[k]
        BY <2>5, <2>8 DEF ToSet
      <4>2. k \in 1..n /\ m \in 1..n /\ m <= k /\ r.name = x /\ ans.name = x
        BY <3>2, <3>3, <4>1
      <4>3. r \in Records("symbol") /\ ans \in Records("symbol")
        BY <2>4, <2>5, <3>3, <4>1, <4>2, ElementOfSeq
      <4>4. ~Less(SymbolKey(r), SymbolKey(ans))
        <5>1. Key("symbol", r) = SymbolKey(r) /\ Key("symbol", ans) = SymbolKey(ans)
          BY DEF Key
        <5>2. CASE m = k
          BY <2>1, <3>3, <4>1, <4>3, <5>1, <5>2, KeyIs, LessIs
        <5>3. CASE m < k
          BY <2>3, <2>5, <3>3, <4>1, <4>2, <5>1, <5>3 DEF InOrder
        <5> QED BY <4>2, <5>2, <5>3
      <4>5. PICK a, b : a = <<r.scope, r.ordinal, r.value, r.size>> /\ b = <<ans.scope, ans.ordinal, ans.value, ans.size>>
        OBVIOUS
      <4>6. DOMAIN a = 1..4 /\ DOMAIN SymbolKey(r) = 1..5
        BY <4>5 DEF SymbolKey
      <4>7. /\ SymbolKey(r)[1] = x /\ SymbolKey(ans)[1] = x
            /\ \A i \in 1..4 : SymbolKey(r)[i+1] = a[i] /\ SymbolKey(ans)[i+1] = b[i]
        BY <4>2, <4>5 DEF SymbolKey
      <4>8. SUFFICES ASSUME NEW i \in 1..4, a[i] < b[i], \A j \in 1..i-1 : a[j] = b[j] PROVE FALSE
        BY <4>5, <4>6 DEF Less
      <4>9. i + 1 \in 1..5 /\ SymbolKey(r)[i+1] < SymbolKey(ans)[i+1]
        BY <4>7, <4>8
      <4>10. ASSUME NEW j \in 1..(i+1)-1 PROVE SymbolKey(r)[j] = SymbolKey(ans)[j]
        <5>1. CASE j = 1
          BY <4>7, <5>1
        <5>2. CASE j # 1
          <6>1. j - 1 \in 1..4 /\ j - 1 \in 1..i-1 /\ (j - 1) + 1 = j
            BY <5>2
          <6> QED BY <4>7, <4>8, <6>1
        <5> QED BY <5>1, <5>2
      <4> QED BY <4>4, <4>6, <4>9, <4>10 DEF Less
    <3> QED BY <3>4, <3>5 DEF ToSet
  <2>12. found.asked = x /\ arrived["symbol"] = A
    BY <2>2
  <2> QED BY <2>9, <2>10, <2>11, <2>12 DEF FindsLeast
<1> QED BY <1>1, TablesInvariant, PTL

-----------------------------------------------------------------------------
\* File access

FileBytes == Seq(Nat \ {0})
FileStatuses == {"kOk", "kInvalidArgument", "kOpenFailed", "kReadFailed", "kWriteFailed", "threw", "no"}
FileCall == [op: {"none", "read", "map", "write"}, path: FilePaths \cup {EmptyPath},
         pc: {"done", "size", "fill", "write", "close"}, status: FileStatuses,
         at: Nat, bytes: Seq(Nat)]

\* A call on its way, for a file that holds content; q: nobody interfered.
CallGoing(r, q, content) ==
  /\ r.pc # "done" => r.path \in FilePaths /\ content \in FileBytes
  /\ r.pc \in {"size", "fill"} => r.op \in {"read", "map"}
  /\ r.pc \in {"write", "close"} => r.op = "write" /\ r.bytes \in FileBytes /\ (q => content = << >>)
  /\ r.pc = "size" => r.at = 0
  /\ r.pc = "fill" =>
       /\ r.at <= Len(r.bytes)
       /\ \A i \in 1..r.at : r.bytes[i] # 0
       /\ q => Len(r.bytes) = Len(content) /\ \A i \in 1..r.at : r.bytes[i] = content[i]

\* A call that is over; l: its flush failed.
CallOver(r, q, l, content) ==
  r.pc = "done" =>
    /\ r.bytes \in FileBytes
    /\ r.op \in {"read", "map"} /\ r.status = "kOk" /\ q => r.bytes = content
    /\ r.op = "write" /\ q =>
         /\ r.status = "kOk" /\ ~l => content = r.bytes
         /\ r.status \in {"kOk", "kWriteFailed"} => content \in Prefixes(r.bytes)

CallOK(r, q, l, content) ==
  /\ r \in FileCall
  /\ r.path \notin FilePaths => ~q
  /\ CallGoing(r, q, content)
  /\ CallOver(r, q, l, content)

MapOK(m) == m \in [buffer: FileBytes, opened: FileStatuses] /\ (m.opened # "kOk" => m.buffer = << >>)

FileType ==
  /\ disk \in [FilePaths -> FileBytes \cup {Missing}]
  /\ io \in [Clients -> FileCall]
  /\ map \in [Clients -> [buffer: FileBytes, opened: FileStatuses]]
  /\ quiet \in [Clients -> BOOLEAN]
  /\ lost \in [Clients -> BOOLEAN]

ClientOK(c) == CallOK(io[c], quiet[c], lost[c], disk[io[c].path]) /\ MapOK(map[c])

FileInv == FileType /\ \A c \in Clients : ClientOK(c)

\* What a call knows still holds after another call wrote to its file, with the
\* claim of having been alone dropped.
LEMMA Interference ==
  ASSUME NEW r, NEW q, NEW l, NEW content, CallOK(r, q, l, content), NEW other,
         r.path \in FilePaths => other \in FileBytes
  PROVE  CallOK(r, FALSE, l, other)
BY DEF CallOK, CallGoing, CallOver

\* Writing over an empty file leaves what was written.
LEMMA OverlayIs ==
  ASSUME NEW data \in FileBytes, NEW content \in FileBytes
  PROVE  /\ Overlay(data, content) \in FileBytes
         /\ content = << >> => Overlay(data, content) = data
<1>1. Len(data) \in Nat /\ Len(content) \in Nat
  BY DEF FileBytes
<1>2. SubSeq(content, Len(data) + 1, Len(content)) \in FileBytes
  BY <1>1 DEF FileBytes
<1>3. Overlay(data, content) \in FileBytes
  BY <1>2 DEF Overlay, FileBytes
<1>4. ASSUME content = << >> PROVE Overlay(data, content) = data
  <2>1. SubSeq(content, Len(data) + 1, Len(content)) = << >>
    BY <1>1, <1>4
  <2> QED BY <2>1, ConcatEmptySeq DEF Overlay, FileBytes
<1> QED BY <1>3, <1>4

\* The parts of a payload that may reach the disk are sequences of bytes.
LEMMA PrefixIs ==
  ASSUME NEW data \in FileBytes
  PROVE  data \in Prefixes(data) /\ \A piece \in Prefixes(data) : piece \in FileBytes
<1>1. data = SubSeq(data, 1, Len(data)) /\ Len(data) \in Nat
  BY DEF FileBytes
<1>2. data \in Prefixes(data)
  <2>1. Len(data) \in 0..Len(data)
    BY <1>1
  <2> QED BY <1>1, <2>1, Zenon DEF Prefixes
<1>3. \A l \in 0..Len(data) : SubSeq(data, 1, l) \in FileBytes
  BY <1>1 DEF FileBytes
<1> QED BY <1>2, <1>3 DEF Prefixes

\* A write to a file leaves sound every other call, which is no longer alone with
\* that file.
LEMMA StoreIs ==
  ASSUME FileInv, NEW c \in Clients, NEW content \in FileBytes, io[c].path \in FilePaths,
         Store(c, content), NEW d \in Clients, d # c, io'[d] = io[d], lost'[d] = lost[d],
         map'[d] = map[d]
  PROVE  ClientOK(d)'
<1>1. ClientOK(d)
  BY DEF FileInv
<1>2. /\ disk' = [disk EXCEPT ![io[c].path] = content]
      /\ quiet'[d] = (quiet[d] /\ io[d].path # io[c].path)
  BY DEF Store
<1>3. CASE io[d].path = io[c].path
  <2>1. quiet'[d] = FALSE /\ disk'[io[d].path] = content
    BY <1>2, <1>3 DEF FileInv, FileType
  <2>2. CallOK(io[d], FALSE, lost[d], content)
    BY <1>1, Interference DEF ClientOK
  <2> QED BY <1>1, <2>1, <2>2 DEF ClientOK
<1>4. CASE io[d].path # io[c].path /\ io[d].path \in FilePaths
  <2>1. quiet'[d] = quiet[d] /\ disk'[io[d].path] = disk[io[d].path]
    BY <1>2, <1>4 DEF FileInv, FileType
  <2> QED BY <1>1, <2>1 DEF ClientOK
<1>5. CASE io[d].path \notin FilePaths
  <2>1. ~quiet'[d] /\ quiet'[d] \in BOOLEAN
    BY <1>1, <1>2, <1>5 DEF ClientOK, CallOK
  <2>2. CallOK(io[d], FALSE, lost[d], disk'[io[d].path])
    BY <1>1, <1>5, Interference DEF ClientOK
  <2> QED BY <1>1, <2>1, <2>2 DEF ClientOK
<1> QED BY <1>3, <1>4, <1>5
\* A step that changes the record of one call and not the disk keeps the
\* invariant if it keeps that record sound.
LEMMA OwnStep ==
  ASSUME FileInv, NEW c \in Clients, disk' = disk,
         NEW r \in FileCall, NEW q \in BOOLEAN, NEW l \in BOOLEAN, NEW m,
         io' = [io EXCEPT ![c] = r], quiet' = [quiet EXCEPT ![c] = q],
         lost' = [lost EXCEPT ![c] = l], map' = [map EXCEPT ![c] = m],
         CallOK(r, q, l, disk[r.path]), MapOK(m)
  PROVE  FileInv'
<1>1. FileType'
  BY DEF FileInv, FileType, MapOK
<1>2. /\ io'[c] = r /\ quiet'[c] = q /\ lost'[c] = l /\ map'[c] = m
      /\ \A d \in Clients : d # c => /\ io'[d] = io[d] /\ quiet'[d] = quiet[d]
                                     /\ lost'[d] = lost[d] /\ map'[d] = map[d]
  BY DEF FileInv, FileType
<1>3. \A d \in Clients : ClientOK(d)'
  BY <1>2 DEF FileInv, ClientOK
<1> QED BY <1>1, <1>3 DEF FileInv

\* A step that writes to a file keeps the invariant if it keeps its own record
\* sound.
LEMMA StoreStep ==
  ASSUME FileInv, NEW c \in Clients, NEW content \in FileBytes, io[c].path \in FilePaths,
         NEW r \in FileCall, NEW l \in BOOLEAN, r.path = io[c].path,
         Store(c, content), io' = [io EXCEPT ![c] = r],
         lost' = [lost EXCEPT ![c] = l], map' = map,
         CallOK(r, quiet[c], l, content)
  PROVE  FileInv'
<1>1. /\ disk' = [disk EXCEPT ![io[c].path] = content]
      /\ quiet' = [d \in Clients |-> quiet[d] /\ (d = c \/ io[d].path # io[c].path)]
  BY DEF Store
<1>2. FileType'
  BY <1>1 DEF FileInv, FileType
<1>3. /\ io'[c] = r /\ lost'[c] = l /\ quiet'[c] = quiet[c] /\ disk'[r.path] = content
      /\ \A d \in Clients : d # c => io'[d] = io[d] /\ lost'[d] = lost[d]
  BY <1>1 DEF FileInv, FileType
<1>4. ClientOK(c)'
  BY <1>3 DEF FileInv, ClientOK
<1>5. \A d \in Clients : d # c => ClientOK(d)'
  BY <1>3, StoreIs
<1> QED BY <1>2, <1>4, <1>5 DEF FileInv

\* Opening a file to read starts a sound call, or ends it with the error.
LEMMA OpenKeeps ==
  ASSUME NEW c \in Clients, NEW op \in {"read", "map"}, NEW p \in FilePaths \cup {EmptyPath},
         FileInv, OpenForRead(c, op, p), NEW m, map' = [map EXCEPT ![c] = m], MapOK(m)
  PROVE  FileInv'
<1>1. << >> \in FileBytes
  BY DEF FileBytes
<1>2. lost' = [lost EXCEPT ![c] = FALSE] /\ disk' = disk
  BY DEF OpenForRead
<1>3. ASSUME NEW status \in {"kInvalidArgument", "kOpenFailed"},
             io' = [io EXCEPT ![c] = Entered(op, p, "done", status, << >>)],
             quiet' = [quiet EXCEPT ![c] = FALSE]
      PROVE  FileInv'
  <2> DEFINE r == Entered(op, p, "done", status, << >>)
  <2>1. /\ r \in FileCall /\ r.op = op /\ r.path = p /\ r.pc = "done" /\ r.status = status
        /\ r.bytes = << >>
    <3>1. << >> \in Seq(Nat) /\ op \in {"none", "read", "map", "write"}
      OBVIOUS
    <3>2. status \in FileStatuses
      BY <1>3 DEF FileStatuses
    <3> QED BY <3>1, <3>2 DEF Entered, FileCall
  <2> HIDE DEF r
  <2>2. CallOK(r, FALSE, FALSE, disk[r.path])
    BY <1>1, <2>1 DEF CallOK, CallGoing, CallOver
  <2>3. io' = [io EXCEPT ![c] = r]
    BY <1>3 DEF r
  <2> QED BY <1>2, <1>3, <2>1, <2>2, <2>3, OwnStep
<1>4. ASSUME p # EmptyPath, disk[p] # Missing,
             io' = [io EXCEPT ![c] = Entered(op, p, "size", "kOk", << >>)],
             quiet' = [quiet EXCEPT ![c] = TRUE]
      PROVE  FileInv'
  <2> DEFINE r == Entered(op, p, "size", "kOk", << >>)
  <2>1. /\ r \in FileCall /\ r.op = op /\ r.path = p /\ r.pc = "size" /\ r.status = "kOk"
        /\ r.at = 0 /\ r.bytes = << >>
    <3>1. << >> \in Seq(Nat) /\ op \in {"none", "read", "map", "write"}
      OBVIOUS
    <3> QED BY <3>1 DEF Entered, FileCall, FileStatuses
  <2> HIDE DEF r
  <2>2. disk[p] \in FileBytes /\ p \in FilePaths
    BY <1>4 DEF FileInv, FileType
  <2>3. CallOK(r, TRUE, FALSE, disk[r.path])
    BY <1>1, <2>1, <2>2 DEF CallOK, CallGoing, CallOver
  <2>4. io' = [io EXCEPT ![c] = r]
    BY <1>4 DEF r
  <2> QED BY <1>2, <1>4, <2>1, <2>3, <2>4, OwnStep
<1> QED BY <1>3, <1>4 DEF OpenForRead

\* A call that returns keeps its operation and its path.
LEMMA ReturnedCall ==
  ASSUME NEW e \in FileCall, NEW status \in FileStatuses, NEW bytes \in FileBytes
  PROVE  LET r == [e EXCEPT !.pc = "done", !.status = status, !.bytes = bytes]
         IN /\ r \in FileCall /\ r.op = e.op /\ r.path = e.path /\ r.pc = "done"
            /\ r.status = status /\ r.bytes = bytes
<1>1. bytes \in Seq(Nat)
  BY DEF FileBytes
<1> QED BY <1>1 DEF FileCall

\* What Return does to the record of a call.
LEMMA ReturnIs ==
  ASSUME FileInv, NEW c \in Clients, NEW status \in FileStatuses, NEW bytes \in FileBytes,
         Return(c, status, bytes)
  PROVE  \E r \in FileCall :
           /\ io' = [io EXCEPT ![c] = r]
           /\ r.op = io[c].op /\ r.path = io[c].path /\ r.pc = "done"
           /\ r.status = status /\ r.bytes = bytes
<1>1. PICK e \in FileCall : e = io[c]
  BY DEF FileInv, FileType
<1> DEFINE r == [e EXCEPT !.pc = "done", !.status = status, !.bytes = bytes]
<1>2. /\ r \in FileCall /\ r.op = e.op /\ r.path = e.path /\ r.pc = "done"
      /\ r.status = status /\ r.bytes = bytes
  <2>1. bytes \in Seq(Nat)
    BY DEF FileBytes
  <2> QED BY <2>1 DEF FileCall
<1>3. io' = [io EXCEPT ![c] = r]
  BY <1>1 DEF Return
<1> HIDE DEF r
<1> QED BY <1>1, <1>2, <1>3
\* A read that returns leaves the buffer empty on an error, and on success what
\* the file holds if nobody wrote to it meanwhile.
LEMMA ReadReturns ==
  ASSUME FileInv, NEW c \in Clients, io[c].pc \in {"size", "fill"},
         NEW status \in FileStatuses, NEW bytes \in FileBytes, Return(c, status, bytes),
         status # "kOk" => bytes = << >>,
         status = "kOk" /\ quiet[c] => bytes = disk[io[c].path],
         UNCHANGED <<disk, quiet, lost>>
  PROVE  FileInv'
<1>1. PICK r \in FileCall :
        /\ io' = [io EXCEPT ![c] = r]
        /\ r.op = io[c].op /\ r.path = io[c].path /\ r.pc = "done"
        /\ r.status = status /\ r.bytes = bytes
  BY ReturnIs
<1>2. ClientOK(c) /\ io[c].path \in FilePaths /\ io[c].op \in {"read", "map"}
  BY DEF FileInv, ClientOK, CallOK, CallGoing
<1>3. CallOK(r, quiet[c], lost[c], disk[r.path])
  BY <1>1, <1>2 DEF CallOK, CallGoing, CallOver
<1>4. PICK m : map' = [map EXCEPT ![c] = m] /\ MapOK(m)
  <2>1. CASE io[c].op = "map"
    <3> DEFINE m == [buffer |-> bytes, opened |-> status]
    <3>1. MapOK(m)
      BY DEF MapOK
    <3>2. map' = [map EXCEPT ![c] = m]
      BY <2>1 DEF Return
    <3> QED BY <3>1, <3>2
  <2>2. CASE io[c].op # "map"
    <3>1. map' = [map EXCEPT ![c] = map[c]]
      BY <2>2 DEF Return, FileInv, FileType
    <3>2. MapOK(map[c])
      BY <1>2 DEF ClientOK
    <3> QED BY <3>1, <3>2
  <2> QED BY <2>1, <2>2
<1>5. /\ quiet' = [quiet EXCEPT ![c] = quiet[c]] /\ quiet[c] \in BOOLEAN
      /\ lost' = [lost EXCEPT ![c] = lost[c]] /\ lost[c] \in BOOLEAN
  BY DEF FileInv, FileType
<1> QED BY <1>1, <1>3, <1>4, <1>5, OwnStep

\* The size is taken and the buffer made, empty files returning at once.
LEMMA SizeKeeps ==
  ASSUME NEW c \in Clients, FileInv, QuerySize(c)
  PROVE  FileInv'
<1> DEFINE content == disk[io[c].path]
<1>1. /\ ClientOK(c) /\ io[c].pc = "size" /\ UNCHANGED <<disk, quiet, lost>>
      /\ content \in FileBytes /\ io[c] \in FileCall /\ io[c].path \in FilePaths
      /\ io[c].op \in {"read", "map"} /\ io[c].at = 0
  BY DEF FileInv, FileType, ClientOK, CallOK, CallGoing, QuerySize
<1>2. << >> \in FileBytes /\ {"kReadFailed", "threw", "kOk"} \subseteq FileStatuses
  BY DEF FileBytes, FileStatuses
<1>3. CASE Return(c, "kReadFailed", << >>) \/ Return(c, "threw", << >>)
  BY <1>1, <1>2, <1>3, ReadReturns
<1>4. CASE Len(content) = 0 /\ Return(c, "kOk", << >>)
  <2>1. content = << >>
    BY <1>1, <1>4 DEF FileBytes
  <2> QED BY <1>1, <1>2, <1>4, <2>1, ReadReturns
<1>5. CASE /\ io' = [io EXCEPT ![c].pc = "fill", ![c].bytes = SizedTo(content)]
           /\ map' = map
  <2> DEFINE b == SizedTo(content)
  <2>1. b \in Seq(Nat) /\ Len(b) = Len(content) /\ Len(content) \in Nat
    BY <1>1 DEF SizedTo, Zeros, FileBytes
  <2> HIDE DEF b
  <2>2. PICK e \in FileCall : e = io[c]
    BY <1>1
  <2> DEFINE r == [e EXCEPT !.pc = "fill", !.bytes = b]
  <2>3. /\ r \in FileCall /\ r.op = e.op /\ r.path = e.path /\ r.pc = "fill"
        /\ r.at = e.at /\ r.bytes = b
    BY <2>1 DEF FileCall
  <2>4. io' = [io EXCEPT ![c] = r]
    BY <1>5, <2>2 DEF b
  <2> HIDE DEF r
  <2>5. CallOK(r, quiet[c], lost[c], disk[r.path])
    BY <1>1, <2>1, <2>2, <2>3 DEF CallOK, CallGoing, CallOver
  <2>6. /\ quiet' = [quiet EXCEPT ![c] = quiet[c]] /\ quiet[c] \in BOOLEAN
        /\ lost' = [lost EXCEPT ![c] = lost[c]] /\ lost[c] \in BOOLEAN
        /\ map' = [map EXCEPT ![c] = map[c]] /\ MapOK(map[c])
    BY <1>1, <1>5 DEF FileInv, FileType, ClientOK
  <2> QED BY <1>1, <2>3, <2>4, <2>5, <2>6, OwnStep
<1> QED BY <1>3, <1>4, <1>5 DEF QuerySize

\* One byte of the file reaches the buffer, or the file turned out shorter.
LEMMA FillKeeps ==
  ASSUME NEW c \in Clients, FileInv, FillByte(c)
  PROVE  FileInv'
<1> DEFINE content == disk[io[c].path]
           b == io[c].bytes
           reached == io[c].at + 1
<1>1. /\ ClientOK(c) /\ io[c].pc = "fill" /\ UNCHANGED <<disk, quiet, lost>>
      /\ content \in FileBytes /\ io[c] \in FileCall /\ io[c].path \in FilePaths
      /\ io[c].op \in {"read", "map"} /\ io[c].at <= Len(b)
      /\ \A i \in 1..io[c].at : b[i] # 0
      /\ quiet[c] => Len(b) = Len(content) /\ \A i \in 1..io[c].at : b[i] = content[i]
  BY DEF FileInv, FileType, ClientOK, CallOK, CallGoing, FillByte
<1>2. b \in Seq(Nat) /\ io[c].at \in Nat /\ Len(b) \in Nat /\ Len(content) \in Nat
  BY <1>1 DEF FileCall, FileBytes
<1>3. CASE reached > Len(b) /\ Return(c, "kOk", b)
  <2>1. io[c].at = Len(b)
    BY <1>1, <1>2, <1>3
  <2>2. b \in FileBytes
    <3>1. \A i \in 1..Len(b) : b[i] \in Nat \ {0}
      BY <1>1, <1>2, <2>1
    <3>2. b \in [1..Len(b) -> Nat \ {0}]
      BY <1>2, <3>1
    <3> HIDE DEF b
    <3> QED BY <1>2, <3>2 DEF FileBytes
  <2>3. ASSUME quiet[c] PROVE b = content
    <3>1. Len(b) = Len(content) /\ \A i \in 1..Len(b) : b[i] = content[i]
      BY <1>1, <2>1, <2>3
    <3>2. content \in FileBytes /\ b \in FileBytes
      BY <1>1, <2>2
    <3> HIDE DEF b, content
    <3> QED BY <3>1, <3>2 DEF FileBytes
  <2>4. "kOk" \in FileStatuses
    BY DEF FileStatuses
  <2> QED BY <1>1, <1>3, <2>2, <2>3, <2>4, ReadReturns
<1>4. CASE Return(c, "kReadFailed", << >>)
  <2>1. << >> \in FileBytes /\ "kReadFailed" \in FileStatuses
    BY DEF FileBytes, FileStatuses
  <2> QED BY <1>1, <1>4, <2>1, ReadReturns
<1>5. CASE /\ reached <= Len(b) /\ reached <= Len(content)
           /\ io' = [io EXCEPT ![c].at = reached, ![c].bytes[reached] = content[reached]]
           /\ map' = map
  <2>1. PICK e \in FileCall : e = io[c]
    BY <1>1
  <2> DEFINE bb == [b EXCEPT ![reached] = content[reached]]
  <2>2. content[reached] \in Nat \ {0} /\ reached \in 1..Len(b)
    BY SMTT(40), <1>1, <1>2, <1>5 DEF FileBytes
  <2>3. bb \in Seq(Nat) /\ Len(bb) = Len(b)
    BY <1>2, <2>2
  <2>4. ASSUME NEW i \in 1..reached PROVE bb[i] # 0
    <3>1. CASE i = reached
      BY <1>2, <2>2, <3>1
    <3>2. CASE i # reached
      <4>1. i \in 1..io[c].at /\ bb[i] = b[i]
        BY <1>2, <2>2, <3>2
      <4> QED BY <1>1, <4>1
    <3> QED BY <3>1, <3>2
  <2>5. ASSUME quiet[c], NEW i \in 1..reached PROVE bb[i] = content[i]
    <3>1. CASE i = reached
      BY <1>2, <2>2, <3>1
    <3>2. CASE i # reached
      <4>1. i \in 1..io[c].at /\ bb[i] = b[i]
        BY <1>2, <2>2, <3>2
      <4> QED BY <1>1, <2>5, <4>1
    <3> QED BY <3>1, <3>2
  <2> DEFINE r == [e EXCEPT !.at = reached, !.bytes = bb]
  <2>6. io' = [io EXCEPT ![c] = r]
    BY <1>5, <2>1
  <2> HIDE DEF bb
  <2>7. PICK n \in Nat : n = reached
    BY <1>2
  <2>8. /\ r \in FileCall /\ r.op = e.op /\ r.path = e.path /\ r.pc = e.pc
        /\ r.at = n /\ r.bytes = bb
    BY <2>3, <2>7 DEF FileCall
  <2> HIDE DEF r
  <2>9. CallOK(r, quiet[c], lost[c], disk[r.path])
    <3>1. r.pc = "fill" /\ r.path = io[c].path /\ r.op \in {"read", "map"}
      BY <1>1, <2>1, <2>8
    <3>2. r.at <= Len(r.bytes) /\ \A i \in 1..r.at : r.bytes[i] # 0
      BY <2>2, <2>3, <2>4, <2>7, <2>8
    <3>3. quiet[c] => Len(r.bytes) = Len(content) /\ \A i \in 1..r.at : r.bytes[i] = content[i]
      BY <1>1, <2>3, <2>5, <2>7, <2>8
    <3> QED BY <1>1, <2>8, <3>1, <3>2, <3>3 DEF CallOK, CallGoing, CallOver
  <2>10. /\ quiet' = [quiet EXCEPT ![c] = quiet[c]] /\ quiet[c] \in BOOLEAN
         /\ lost' = [lost EXCEPT ![c] = lost[c]] /\ lost[c] \in BOOLEAN
         /\ map' = [map EXCEPT ![c] = map[c]] /\ MapOK(map[c])
    BY <1>1, <1>5 DEF FileInv, FileType, ClientOK
  <2> QED BY <1>1, <2>6, <2>8, <2>9, <2>10, OwnStep, ZenonT(40)
<1> QED BY SMTT(40), <1>2, <1>3, <1>4, <1>5 DEF FillByte
\* Opening a file to write empties it, or the call ends with the error.
LEMMA WriteOpenKeeps ==
  ASSUME NEW c \in Clients, NEW p \in FilePaths \cup {EmptyPath},
         NEW data \in Payloads \cup {NullData}, FileInv, write_file_all(c, p, data)
  PROVE  FileInv'
<1>1. /\ << >> \in FileBytes /\ (data # NullData => data \in FileBytes /\ data \in Seq(Nat))
      /\ {"kInvalidArgument", "kOpenFailed", "kOk"} \subseteq FileStatuses
  BY FileAssumption DEF FileBytes, FileStatuses
<1>2. /\ lost' = [lost EXCEPT ![c] = FALSE] /\ map' = map
      /\ map' = [map EXCEPT ![c] = map[c]] /\ MapOK(map[c])
  BY DEF write_file_all, FileInv, FileType, ClientOK
<1>3. ASSUME NEW status \in {"kInvalidArgument", "kOpenFailed"}, disk' = disk,
             io' = [io EXCEPT ![c] = Entered("write", p, "done", status, << >>)],
             quiet' = [quiet EXCEPT ![c] = FALSE]
      PROVE  FileInv'
  <2> DEFINE r == Entered("write", p, "done", status, << >>)
  <2>1. /\ r \in FileCall /\ r.op = "write" /\ r.path = p /\ r.pc = "done" /\ r.status = status
        /\ r.bytes = << >>
    <3>1. << >> \in Seq(Nat) /\ status \in FileStatuses
      BY <1>1
    <3> QED BY <3>1 DEF Entered, FileCall
  <2>2. io' = [io EXCEPT ![c] = r]
    BY <1>3
  <2> HIDE DEF r
  <2>3. CallOK(r, FALSE, FALSE, disk[r.path])
    BY <1>1, <2>1 DEF CallOK, CallGoing, CallOver
  <2> QED BY <1>2, <1>3, <2>1, <2>2, <2>3, OwnStep
<1>4. ASSUME p # EmptyPath, data # NullData,
             io' = [io EXCEPT ![c] = Entered("write", p, "write", "kOk", data)],
             disk' = [disk EXCEPT ![p] = OpenedFile(@)],
             quiet' = [d \in Clients |-> d = c \/ (quiet[d] /\ io[d].path # p)]
      PROVE  FileInv'
  <2> DEFINE r == Entered("write", p, "write", "kOk", data)
  <2>1. /\ r \in FileCall /\ r.op = "write" /\ r.path = p /\ r.pc = "write" /\ r.bytes = data
    BY <1>1, <1>4 DEF Entered, FileCall
  <2>2. io' = [io EXCEPT ![c] = r]
    BY <1>4
  <2> HIDE DEF r
  <2>3. p \in FilePaths /\ disk' = [disk EXCEPT ![p] = << >>]
    BY <1>4 DEF OpenedFile
  <2>4. /\ disk'[p] = << >> /\ io'[c] = r /\ quiet'[c] = TRUE /\ lost'[c] = FALSE
        /\ \A d \in Clients : d # c => io'[d] = io[d] /\ lost'[d] = lost[d]
        /\ \A f \in FilePaths : f # p => disk'[f] = disk[f]
    BY <1>2, <1>4, <2>2, <2>3 DEF FileInv, FileType
  <2>5. FileType'
    BY <1>1, <1>2, <1>4, <2>1, <2>2, <2>3 DEF FileInv, FileType
  <2>6. ClientOK(c)'
    <3>1. CallOK(r, TRUE, FALSE, << >>)
      BY <1>1, <1>4, <2>1, <2>3 DEF CallOK, CallGoing, CallOver
    <3> QED BY <1>2, <2>1, <2>4, <3>1 DEF ClientOK
  <2>7. ASSUME NEW d \in Clients, d # c PROVE ClientOK(d)'
    <3>1. ClientOK(d) /\ quiet'[d] = (quiet[d] /\ io[d].path # p) /\ quiet[d] \in BOOLEAN
      BY <1>4, <2>7 DEF FileInv, FileType
    <3>2. CASE io[d].path = p
      <4>1. quiet'[d] = FALSE
        BY <3>1, <3>2
      <4>2. CallOK(io[d], FALSE, lost[d], << >>)
        BY <1>1, <3>1, Interference DEF ClientOK
      <4> QED BY <1>2, <2>4, <2>7, <3>1, <3>2, <4>1, <4>2 DEF ClientOK
    <3>3. CASE io[d].path # p /\ io[d].path \in FilePaths
      <4>1. quiet'[d] = quiet[d]
        BY <3>1, <3>3
      <4> QED BY <1>2, <2>4, <2>7, <3>1, <3>3, <4>1 DEF ClientOK
    <3>4. CASE io[d].path \notin FilePaths
      <4>1. quiet'[d] = FALSE
        BY <3>1, <3>4 DEF ClientOK, CallOK
      <4>2. CallOK(io[d], FALSE, lost[d], disk'[io[d].path])
        BY <3>1, <3>4, Interference DEF ClientOK
      <4> QED BY <1>2, <2>4, <2>7, <3>1, <4>1, <4>2 DEF ClientOK
    <3> QED BY <3>2, <3>3, <3>4
  <2> QED BY <2>5, <2>6, <2>7 DEF FileInv
<1> QED BY <1>3, <1>4 DEF write_file_all

\* A write that returns kOk without a loss at close left the whole payload in the
\* file, any other a part of it.
LEMMA WriteReturns ==
  ASSUME FileInv, NEW c \in Clients, io[c].pc \in {"write", "close"},
         NEW status \in {"kOk", "kWriteFailed"}, Return(c, status, io[c].bytes),
         NEW piece \in Prefixes(io[c].bytes), Store(c, Overlay(piece, disk[io[c].path])),
         NEW l \in BOOLEAN, lost' = [lost EXCEPT ![c] = l],
         status = "kOk" /\ ~l => piece = io[c].bytes
  PROVE  FileInv'
<1> DEFINE old == disk[io[c].path]
           data == io[c].bytes
<1>1. /\ ClientOK(c) /\ io[c].path \in FilePaths /\ io[c].op = "write"
      /\ data \in FileBytes /\ old \in FileBytes /\ (quiet[c] => old = << >>)
  BY DEF FileInv, ClientOK, CallOK, CallGoing
<1>2. piece \in FileBytes
  BY <1>1, PrefixIs
<1>3. Overlay(piece, old) \in FileBytes /\ (quiet[c] => Overlay(piece, old) = piece)
  BY <1>1, <1>2, OverlayIs
<1>4. PICK r \in FileCall :
        /\ io' = [io EXCEPT ![c] = r]
        /\ r.op = io[c].op /\ r.path = io[c].path /\ r.pc = "done"
        /\ r.status = status /\ r.bytes = data
  <2>1. status \in FileStatuses
    BY DEF FileStatuses
  <2> QED BY <1>1, <2>1, ReturnIs
<1>5. map' = map
  BY <1>1 DEF Return
<1>6. CallOK(r, quiet[c], l, Overlay(piece, old))
  BY <1>1, <1>3, <1>4 DEF CallOK, CallGoing, CallOver
<1> QED BY <1>1, <1>3, <1>4, <1>5, <1>6, StoreStep

\* The payload, or with an error a part of it, goes to the file or its buffer.
LEMMA WriteKeeps ==
  ASSUME NEW c \in Clients, FileInv, WriteBytes(c)
  PROVE  FileInv'
<1> DEFINE data == io[c].bytes
           old == disk[io[c].path]
<1>1. /\ ClientOK(c) /\ io[c].pc = "write" /\ lost' = lost /\ lost[c] \in BOOLEAN
      /\ lost' = [lost EXCEPT ![c] = lost[c]] /\ data \in FileBytes /\ io[c] \in FileCall
  BY DEF FileInv, FileType, ClientOK, CallOK, CallGoing, WriteBytes
<1>2. CASE io' = [io EXCEPT ![c].pc = "close"] /\ UNCHANGED <<disk, map, quiet>>
  <2>1. PICK e \in FileCall : e = io[c]
    BY <1>1
  <2> DEFINE r == [e EXCEPT !.pc = "close"]
  <2>2. /\ r \in FileCall /\ r.op = e.op /\ r.path = e.path /\ r.pc = "close"
        /\ r.bytes = e.bytes
    BY DEF FileCall
  <2>3. io' = [io EXCEPT ![c] = r]
    BY <1>2, <2>1
  <2> HIDE DEF r
  <2>4. CallOK(r, quiet[c], lost[c], disk[r.path])
    BY <1>1, <2>1, <2>2 DEF ClientOK, CallOK, CallGoing, CallOver
  <2>5. /\ quiet' = [quiet EXCEPT ![c] = quiet[c]] /\ quiet[c] \in BOOLEAN
        /\ map' = [map EXCEPT ![c] = map[c]] /\ MapOK(map[c]) /\ disk' = disk
    BY <1>1, <1>2 DEF FileInv, FileType, ClientOK
  <2> QED BY <1>1, <2>2, <2>3, <2>4, <2>5, OwnStep, ZenonT(40)
<1>3. CASE Store(c, Overlay(data, old)) /\ Return(c, "kOk", data)
  BY <1>1, <1>3, PrefixIs, WriteReturns
<1>4. CASE /\ \E piece \in Prefixes(data) : Store(c, Overlay(piece, old))
           /\ Return(c, "kWriteFailed", data)
  <2>1. PICK piece \in Prefixes(data) : Store(c, Overlay(piece, old))
    BY <1>4
  <2> QED BY <1>1, <1>4, <2>1, WriteReturns
<1> QED BY <1>2, <1>3, <1>4 DEF WriteBytes

\* Closing the stream writes what was buffered; its failure is not reported.
LEMMA FlushKeeps ==
  ASSUME NEW c \in Clients, FileInv, FlushAtClose(c)
  PROVE  FileInv'
<1>1. PICK piece \in Prefixes(io[c].bytes) :
        /\ Store(c, Overlay(piece, disk[io[c].path]))
        /\ lost' = [lost EXCEPT ![c] = piece # io[c].bytes]
  BY DEF FlushAtClose
<1>2. PICK l \in BOOLEAN :
        lost' = [lost EXCEPT ![c] = l] /\ (~l => piece = io[c].bytes)
  <2>1. CASE piece = io[c].bytes
    <3>1. lost' = [lost EXCEPT ![c] = FALSE]
      BY <1>1, <2>1
    <3> QED BY <2>1, <3>1
  <2>2. CASE piece # io[c].bytes
    <3>1. lost' = [lost EXCEPT ![c] = TRUE]
      BY <1>1, <2>2
    <3> QED BY <2>2, <3>1
  <2> QED BY <2>1, <2>2
<1>3. io[c].pc = "close" /\ Return(c, "kOk", io[c].bytes)
  BY DEF FlushAtClose
<1> QED BY <1>1, <1>2, <1>3, WriteReturns

\* The inductive invariant of file access: every call, running or over, agrees
\* with the disk as long as nobody else wrote to its file.
LEMMA FileInvariant == FileSpec => []FileInv
<1>1. FileInit => FileInv
  <2> SUFFICES ASSUME FileInit PROVE FileInv
    OBVIOUS
  <2>1. << >> \in FileBytes /\ << >> \in Seq(Nat) /\ "kOk" \in FileStatuses /\ "no" \in FileStatuses
    BY DEF FileBytes, FileStatuses
  <2>2. Idle \in FileCall /\ Idle.pc = "done" /\ Idle.op = "none" /\ Idle.bytes = << >>
    BY <2>1 DEF Idle, FileCall
  <2>3. FileType
    BY <2>1, <2>2 DEF FileInit, FileType
  <2>4. ASSUME NEW c \in Clients PROVE ClientOK(c)
    <3>1. /\ io[c] = Idle /\ quiet[c] = FALSE /\ lost[c] = FALSE
          /\ map[c] = [buffer |-> << >>, opened |-> "no"]
      BY DEF FileInit
    <3>2. MapOK(map[c])
      BY <2>1, <3>1 DEF MapOK
    <3>3. CallOK(Idle, FALSE, FALSE, disk[Idle.path])
      BY <2>1, <2>2 DEF CallOK, CallGoing, CallOver
    <3> QED BY <3>1, <3>2, <3>3 DEF ClientOK
  <2> QED BY <2>3, <2>4 DEF FileInv
<1>2. FileInv /\ [FileNext]_fileVars => FileInv'
  <2> SUFFICES ASSUME FileInv, [FileNext]_fileVars PROVE FileInv'
    OBVIOUS
  <2>0. MapOK([buffer |-> << >>, opened |-> "no"])
    <3>1. << >> \in FileBytes /\ "no" \in FileStatuses
      BY DEF FileBytes, FileStatuses
    <3> QED BY <3>1 DEF MapOK
  <2>1. ASSUME NEW c \in Clients, NEW p \in FilePaths \cup {EmptyPath}, read_file_all(c, p)
        PROVE  FileInv'
    <3>1. map' = [map EXCEPT ![c] = map[c]] /\ MapOK(map[c])
      BY <2>1 DEF read_file_all, FileInv, FileType, ClientOK
    <3> QED BY <2>1, <3>1, OpenKeeps DEF read_file_all
  <2>2. ASSUME NEW c \in Clients, NEW p \in FilePaths \cup {EmptyPath}, MapOpen(c, p)
        PROVE  FileInv'
    BY <2>0, <2>2, OpenKeeps DEF MapOpen
  <2>3. ASSUME NEW c \in Clients, MapClose(c) PROVE FileInv'
    <3>1. /\ io' = [io EXCEPT ![c] = io[c]] /\ io[c] \in FileCall /\ disk' = disk
          /\ quiet' = [quiet EXCEPT ![c] = quiet[c]] /\ quiet[c] \in BOOLEAN
          /\ lost' = [lost EXCEPT ![c] = lost[c]] /\ lost[c] \in BOOLEAN
          /\ CallOK(io[c], quiet[c], lost[c], disk[io[c].path])
          /\ map' = [map EXCEPT ![c] = [buffer |-> << >>, opened |-> "no"]]
      BY <2>3 DEF MapClose, FileInv, FileType, ClientOK
    <3> QED BY <2>0, <3>1, OwnStep
  <2>4. CASE UNCHANGED fileVars
    BY <2>4 DEF fileVars, FileInv, FileType, ClientOK
  <2> QED
    BY <2>1, <2>2, <2>3, <2>4, WriteOpenKeeps, SizeKeeps, FillKeeps, WriteKeeps, FlushKeeps
    DEF FileNext
<1> QED BY <1>1, <1>2, PTL DEF FileSpec

\* A read or a mapping that reports success delivers bytes of the file and no
\* byte of an unfilled buffer, and one that fails delivers none, whoever else
\* writes to the file meanwhile.
THEOREM ReadsCorrect == FileSpec => []ReadsHonest
<1>1. FileInv => ReadsHonest
  <2> SUFFICES ASSUME FileInv PROVE ReadsHonest
    OBVIOUS
  <2>1. FailedOpenShowsNothing
    BY DEF FileInv, ClientOK, MapOK, FailedOpenShowsNothing
  <2>2. ASSUME NEW bytes \in Delivered PROVE bytes \in FileBytes
    BY DEF Delivered, Ready, FileInv, FileType, ClientOK, CallOK, CallOver
  <2>3. NoInventedBytes
    BY <2>2 DEF NoInventedBytes, FileBytes
  <2> QED BY <2>1, <2>3 DEF ReadsHonest
<1> QED BY <1>1, FileInvariant, PTL

\* A call of file_io.cpp that nobody disturbed: a read gives the content, a write
\* leaves a prefix of its payload and nothing else, and kOk for less than the
\* payload comes only from the flush in the destructor.
THEOREM QuietCallsCorrect == FileSpec => []QuietCallsKept
<1>1. FileInv => QuietCallsKept
  BY DEF FileInv, ClientOK, CallOK, CallOver, QuietCallsKept, QuietReadExact, QuietWriteKept, Ready
<1> QED BY <1>1, FileInvariant, PTL

-----------------------------------------------------------------------------
\* The parts together

\* A behaviour of the parts side by side is one of each of them, so that what is
\* proved of a part alone holds of it among the others.
THEOREM PartsCompose ==
  SupportSpec => Spec /\ HashSpec /\ FileSpec /\ TaskSpec /\ CacheSpec /\ IrSpec /\ RegistrySpec
<1>1. SupportInit => Init /\ HashInit /\ FileInit /\ TaskInit /\ CacheInit /\ IrInit /\ RegistryInit
  BY DEF SupportInit
<1>2. [SupportNext]_supportVars =>
        /\ [Next]_vars /\ [HashNext]_hashVars /\ [FileNext]_fileVars /\ [TaskNext]_taskVars
        /\ [CacheNext]_cacheVars /\ [IrNext]_irVars /\ [RegistryNext]_registryVars
  <2>1. CASE UNCHANGED supportVars
    BY <2>1 DEF supportVars
  <2>2. CASE SupportNext
    BY <2>2 DEF SupportNext
  <2> QED BY <2>1, <2>2
<1> QED BY <1>1, <1>2, PTL DEF SupportSpec, Spec, HashSpec, FileSpec, TaskSpec, CacheSpec, IrSpec, RegistrySpec
=============================================================================
