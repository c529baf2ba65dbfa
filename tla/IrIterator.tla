----------------------------- MODULE IrIterator -----------------------------
(***************************************************************************)
(* The query ABI of src/olnk/ir.cpp: iterators over the files, sections,   *)
(* symbols, ... of an image. An image is the counts it reports. Today      *)
(* olnk_ir_get_image answers nullptr for every session, and an iterator of *)
(* no image counts zero; the rest of the file is written for images to     *)
(* come, which Images stands for.                                          *)
(***************************************************************************)
EXTENDS Integers, Sequences

CONSTANTS
  Iterators,  \* iterator objects
  IrKinds,    \* OLNK_IR_ITERATOR_KIND_FILES, ...
  Unknown,    \* OLNK_IR_ITERATOR_KIND_UNKNOWN
  Images,     \* images behind a non-null handle
  NoImage,    \* nullptr
  CountOf     \* info.*_count of each image

ASSUME IrAssumption ==
  /\ Unknown \notin IrKinds /\ NoImage \notin Images
  /\ CountOf \in [Images -> [IrKinds -> Nat]]

VARIABLES
  iters,  \* the iterators that exist; seen is history: what next has delivered
  answer  \* the last call of a next function

irVars == <<iters, answer>>

NoCall == [kind |-> Unknown, index |-> 0, image |-> NoImage, ret |-> 0]

IrInit ==
  /\ iters = [it \in {} |-> NoCall]
  /\ answer = NoCall

INVALID_ARGUMENT == 2

\* olnk_ir_image_count_for_kind
ImageCount(image, kind) == IF image = NoImage THEN 0 ELSE CountOf[image][kind]

\* Mutant: indexes start at one.
NewIterator_FromOne(image, kind) ==
  [image |-> image, kind |-> kind, index |-> 1, count |-> ImageCount(image, kind),
   seen |-> << >>, mixed |-> FALSE]

NewIterator(image, kind) ==
  [image |-> image, kind |-> kind, index |-> 0, count |-> ImageCount(image, kind),
   seen |-> << >>, mixed |-> FALSE]

\* An unknown kind and a failing allocation leave *out_it null and make nothing.
olnk_ir_iterator_create(it, image, kind) ==
  /\ it \notin DOMAIN iters
  /\ iters' = [i \in DOMAIN iters \cup {it} |->
                 IF i = it THEN NewIterator(image, kind) ELSE iters[i]]
  /\ UNCHANGED answer

olnk_ir_iterator_destroy(it) ==
  /\ it \in DOMAIN iters
  /\ iters' = [i \in DOMAIN iters \ {it} |-> iters[i]]
  /\ UNCHANGED answer

\* Mutant: the accessor trusts the index.
GetInfo_Unchecked(image, kind, index) == IF image = NoImage THEN INVALID_ARGUMENT ELSE 0

\* olnk_ir_get_file_info and its siblings
GetInfo(image, kind, index) ==
  IF image = NoImage \/ index >= CountOf[image][kind] THEN INVALID_ARGUMENT ELSE 0

\* olnk_ir_iterator_kind_matches
KindMatches(it, kind) == IF iters[it].kind # kind THEN INVALID_ARGUMENT ELSE 1

\* olnk_ir_iterator_next_file and its siblings, called for a kind; out is
\* whether the caller passes a record to fill. The test behind KindMatches is
\* for negative values, which the statuses are not.
Next_Of(it, kind, out) ==
  /\ it \in DOMAIN iters
  /\ LET me    == iters[it]
         match == KindMatches(it, kind)
         st    == GetInfo(me.image, kind, me.index)
         ret   == IF match < 0 THEN match
                  ELSE IF ~out THEN INVALID_ARGUMENT
                  ELSE IF me.index >= me.count THEN 0
                  ELSE IF st # 0 THEN st
                  ELSE 1
     IN /\ answer' = [kind |-> kind, index |-> me.index, image |-> me.image, ret |-> ret]
        /\ iters' = IF ret # 1 THEN iters
                    ELSE [iters EXCEPT ![it].index = @ + 1,
                                       ![it].seen = Append(@, me.index),
                                       ![it].mixed = @ \/ me.kind # kind]

IrNext ==
  \E it \in Iterators :
    \/ \E image \in Images \cup {NoImage}, kind \in IrKinds :
         olnk_ir_iterator_create(it, image, kind)
    \/ olnk_ir_iterator_destroy(it)
    \/ \E kind \in IrKinds, out \in BOOLEAN : Next_Of(it, kind, out)

IrSpec == IrInit /\ [][IrNext]_irVars

-----------------------------------------------------------------------------
\* Indexes are 0 .. count-1: next delivers a record only for an index the image
\* has for the kind of the function called, and nothing of no image, also when
\* an iterator is driven through the function of another kind.
DeliveredInRange ==
  answer.ret = 1 =>
    answer.image # NoImage /\ answer.index < CountOf[answer.image][answer.kind]

\* An iterator used with the function of its kind delivers every index from 0
\* on once and in order, whatever failing calls come in between, and says that
\* it is at the end only behind the last one.
EnumeratesAll ==
  \A it \in DOMAIN iters :
    LET me == iters[it] IN
    ~me.mixed => /\ me.seen = [i \in 1..me.index |-> i - 1]
                 /\ me.index <= ImageCount(me.image, me.kind)
                 /\ me.index >= me.count => Len(me.seen) = ImageCount(me.image, me.kind)

\* The next functions deliver what the image has, all of it and nothing else.
DeliversExactly == DeliveredInRange /\ EnumeratesAll
=============================================================================
