---------------------------- MODULE HashBuilder ----------------------------
(***************************************************************************)
(* hash64_builder of src/olnk/hash.cpp: a move-only object that owns one   *)
(* XXH3 state on the heap, or none when the allocation failed or the       *)
(* builder was moved from. A hash is abstracted to what determines it, the *)
(* seed and the bytes; XXH3 itself is external.                            *)
(***************************************************************************)
EXTENDS Naturals, Sequences

CONSTANTS
  Builders,   \* builder objects of the program
  XxhStates,  \* heap cells XXH3_createState can return
  NoState,    \* nullptr
  Seeds,      \* bound: seeds callers choose
  Chunks,     \* bound: byte sequences callers feed
  MaxFed      \* bound: bytes fed to one builder

ASSUME HashAssumption ==
  /\ NoState \notin XxhStates
  /\ Seeds \subseteq Nat \ {0}
  /\ \A c \in Chunks : c \in Seq(Nat) /\ c # << >>
  /\ MaxFed \in Nat

VARIABLES
  built,    \* the builders that exist
  builder,  \* state_ and seed_ of each builder
  xxh,      \* heap: contents of the allocated XXH3 states
  told      \* history: seed and bytes its user has given to each builder

hashVars == <<built, builder, xxh, told>>

Gone == [state |-> NoState, seed |-> 0]
Nothing == [seed |-> 0, bytes |-> << >>, lossy |-> TRUE]

HashInit ==
  /\ built = {}
  /\ builder = [b \in Builders |-> Gone]
  /\ xxh = [x \in {} |-> Nothing]
  /\ told = [b \in Builders |-> Nothing]

\* XXH3_64bits_withSeed
hash_bytes64(bytes, seed) == <<seed, bytes>>

\* XXH3_createState with XXH3_64bits_reset_withSeed, and XXH3_freeState, of
\* third_party/xxHash: a state is its seed and the bytes fed to it.
Alloc(x, seed) == [y \in DOMAIN xxh \cup {x} |->
                     IF y = x THEN [seed |-> seed, bytes |-> << >>] ELSE xxh[y]]
Free(x) == [y \in DOMAIN xxh \ {x} |-> xxh[y]]

\* The constructor; without memory state_ stays nullptr.
Construct(b, seed) ==
  /\ b \notin built
  /\ built' = built \cup {b}
  /\ \/ \E x \in XxhStates \ DOMAIN xxh :
          /\ xxh' = Alloc(x, seed)
          /\ builder' = [builder EXCEPT ![b] = [state |-> x, seed |-> seed]]
          /\ told' = [told EXCEPT ![b] = [seed |-> seed, bytes |-> << >>, lossy |-> FALSE]]
     \/ /\ builder' = [builder EXCEPT ![b] = [state |-> NoState, seed |-> seed]]
        /\ told' = [told EXCEPT ![b] = [seed |-> seed, bytes |-> << >>, lossy |-> TRUE]]
        /\ UNCHANGED xxh

Destroy(b) ==
  /\ b \in built
  /\ built' = built \ {b}
  /\ builder' = [builder EXCEPT ![b] = Gone]
  /\ xxh' = Free(builder[b].state)
  /\ told' = [told EXCEPT ![b] = Nothing]

\* The moved-from builder is left without a state and with seed 0.
MoveConstruct(b, o) ==
  /\ b \notin built /\ o \in built
  /\ built' = built \cup {b}
  /\ builder' = [builder EXCEPT ![b] = builder[o], ![o] = Gone]
  /\ told' = [told EXCEPT ![b] = told[o], ![o] = Nothing]
  /\ UNCHANGED xxh

\* Mutant: the old state is overwritten without being freed.
MoveAssign_Leaks(b, o) ==
  /\ {b, o} \subseteq built
  /\ IF b = o THEN UNCHANGED hashVars
     ELSE /\ builder' = [builder EXCEPT ![b] = builder[o], ![o] = Gone]
          /\ told' = [told EXCEPT ![b] = told[o], ![o] = Nothing]
          /\ UNCHANGED <<built, xxh>>

\* Mutant: no test for an assignment to itself.
MoveAssign_Self(b, o) ==
  /\ {b, o} \subseteq built
  /\ xxh' = Free(builder[b].state)
  /\ builder' = [builder EXCEPT ![b] = builder[o], ![o] = Gone]
  /\ told' = IF b = o THEN told
             ELSE [told EXCEPT ![b] = told[o], ![o] = Nothing]
  /\ UNCHANGED built

MoveAssign(b, o) ==
  /\ {b, o} \subseteq built
  /\ IF b = o THEN UNCHANGED hashVars
     ELSE /\ xxh' = Free(builder[b].state)
          /\ builder' = [builder EXCEPT ![b] = builder[o], ![o] = Gone]
          /\ told' = [told EXCEPT ![b] = told[o], ![o] = Nothing]
          /\ UNCHANGED built

\* Feeding a builder without a state does nothing.
update(b, chunk) ==
  /\ b \in built
  /\ Len(told[b].bytes) + Len(chunk) <= MaxFed
  /\ told' = [told EXCEPT ![b].bytes = @ \o chunk]
  /\ xxh' = [x \in DOMAIN xxh |->
               IF x = builder[b].state THEN [xxh[x] EXCEPT !.bytes = @ \o chunk]
               ELSE xxh[x]]
  /\ UNCHANGED <<built, builder>>

\* Back to the seed of the construction.
reset(b) ==
  /\ b \in built
  /\ told' = [told EXCEPT ![b].bytes = << >>]
  /\ xxh' = [x \in DOMAIN xxh |->
               IF x = builder[b].state THEN [seed |-> builder[b].seed, bytes |-> << >>]
               ELSE xxh[x]]
  /\ UNCHANGED <<built, builder>>

digest(b) ==
  IF builder[b].state = NoState THEN hash_bytes64(<< >>, builder[b].seed)
  ELSE hash_bytes64(xxh[builder[b].state].bytes, xxh[builder[b].state].seed)

HashNext ==
  \E b \in Builders :
    \/ \E seed \in Seeds : Construct(b, seed)
    \/ Destroy(b)
    \/ \E o \in Builders : MoveConstruct(b, o) \/ MoveAssign(b, o)
    \/ \E chunk \in Chunks : update(b, chunk)
    \/ reset(b)

HashSpec == HashInit /\ [][HashNext]_hashVars

-----------------------------------------------------------------------------
\* Every allocated XXH3 state belongs to exactly one existing builder and no
\* builder points to a freed one, through any sequence of moves: nothing
\* leaks and nothing is freed twice.
StatesOwned ==
  /\ \A b \in Builders : builder[b].state \in {NoState} \cup DOMAIN xxh
  /\ \A x \in DOMAIN xxh : \E b \in built : builder[b].state = x
  /\ \A b, c \in Builders :
       builder[b].state = builder[c].state /\ builder[b].state # NoState => b = c

\* digest() is the one-shot hash of everything fed since the last reset, with
\* the seed of the construction, wherever the builder was moved to and however
\* the bytes were cut into chunks. A builder without a state answers the hash
\* of nothing under its seed.
DigestOfAllBytes ==
  \A b \in built :
    digest(b) = hash_bytes64(IF told[b].lossy THEN << >> ELSE told[b].bytes, told[b].seed)
=============================================================================
