---------------------------- MODULE OutputBuilder ----------------------------
(***************************************************************************)
(* The class OutputBuilder of src/olnk/output_builder.cpp: sections are    *)
(* added, build() normalizes them in place (alignment, stable sort) and    *)
(* lays them out behind a base offset. One action per loop iteration. A    *)
(* builder may be built again, with more sections or another base.         *)
(***************************************************************************)
EXTENDS Alignment, Sequences

CONSTANTS Sections,    \* bound: what callers add, [kind, name, ordinal, size, align]
          Bases,       \* bound: base offsets callers ask for
          MaxSections  \* bound: sections added to one builder

\* kind is the value of the enum; name is the place of the string in the
\* order of std::string's operator<.
Section == [kind: 0..6, name: Nat, ordinal: Nat, size: Word, align: Word]

ASSUME BuilderAssumption ==
  Sections \subseteq Section /\ Bases \subseteq Word /\ MaxSections \in Nat

VARIABLES inputs,  \* inputs_; id is history: the number of the add_section
          image,   \* *out_image
          cursor, next, pc, ok,  \* locals of build and what it returned
          last     \* history: the previous build

vars == <<inputs, image, cursor, next, pc, ok, last>>

Input == [kind: 0..6, name: Nat, ordinal: Nat, size: Word, align: Word, id: Nat]
Entry == [kind: 0..6, name: Nat, size: Word, align: Word, offset: Word]
NoImage == [base |-> 0, sections |-> << >>]

Init ==
  /\ inputs = << >>
  /\ image = NoImage
  /\ cursor = 0 /\ next = 1
  /\ pc = "idle"
  /\ ok = FALSE
  /\ last = [count |-> 0, ok |-> FALSE, image |-> NoImage]

add_section(s) ==
  /\ pc = "idle"
  /\ Len(inputs) < MaxSections
  /\ inputs' = Append(inputs, [kind |-> s.kind, name |-> s.name,
                               ordinal |-> s.ordinal, size |-> s.size,
                               align |-> s.align, id |-> Len(inputs)])
  /\ UNCHANGED <<image, cursor, next, pc, ok, last>>

\* The comparator of normalize_inputs.
Less(a, b) ==
  \/ a.kind < b.kind
  \/ a.kind = b.kind /\ a.name < b.name
  \/ a.kind = b.kind /\ a.name = b.name /\ a.ordinal < b.ordinal

\* Mutant: std::sort, which may turn equal elements round.
Before_Unstable(s, i, j) ==
  Less(s[i], s[j]) \/ (~Less(s[j], s[i]) /\ i > j)

\* i comes before j in the stable sort of s.
Before(s, i, j) == Less(s[i], s[j]) \/ (~Less(s[j], s[i]) /\ i < j)

\* The rearrangements std::stable_sort may make (there is exactly one).
Orders(s) ==
  {p \in [DOMAIN s -> DOMAIN s] :
     \A i, j \in DOMAIN s : i < j => Before(s, p[i], p[j])}

Aligned(s) ==
  [i \in DOMAIN s |-> [s[i] EXCEPT !.align = IF @ = 0 THEN 1 ELSE @]]

\* Mutant: the sections of an earlier build stay in the image.
StartImage_Kept(base) == [image EXCEPT !.base = base]

StartImage(base) == [base |-> base, sections |-> << >>]

build(base) ==
  /\ pc = "idle"
  /\ image' = StartImage(base)
  /\ LET s == Aligned(inputs) IN
       \E p \in Orders(s) : inputs' = [i \in DOMAIN s |-> s[p[i]]]
  /\ cursor' = base /\ next' = 1
  /\ pc' = "placing"
  /\ UNCHANGED <<ok, last>>

Return(result) ==
  /\ pc' = "idle"
  /\ ok' = result
  /\ last' = [count |-> Len(inputs), ok |-> result, image |-> image']

\* Mutant: only the end of the section is checked, as in compute_offsets.
Wraps_Unchecked(a) == FALSE

\* The check behind align_up
Wraps(a) == a < cursor

PlaceSection ==
  /\ pc = "placing"
  /\ next <= Len(inputs)
  /\ LET s == inputs[next]
         a == align_up(cursor, s.align)
         end == (a + s.size) % Modulus
     IN \/ /\ Wraps(a)
           /\ UNCHANGED <<image, cursor, next>>
           /\ Return(FALSE)
        \/ /\ ~Wraps(a)
           /\ image' = [image EXCEPT !.sections =
                          Append(@, [kind |-> s.kind, name |-> s.name,
                                     size |-> s.size, align |-> s.align,
                                     offset |-> a])]
           /\ cursor' = end
           /\ \/ end < a /\ Return(FALSE) /\ UNCHANGED next
              \/ end >= a /\ next' = next + 1 /\ UNCHANGED <<pc, ok, last>>
  /\ UNCHANGED inputs

FinishBuild ==
  /\ pc = "placing"
  /\ next > Len(inputs)
  /\ image' = image
  /\ Return(TRUE)
  /\ UNCHANGED <<inputs, cursor, next>>

Next ==
  \/ \E s \in Sections : add_section(s)
  \/ \E b \in Bases : build(b)
  \/ PlaceSection
  \/ FinishBuild

Spec == Init /\ [][Next]_vars

-----------------------------------------------------------------------------
\* What the members of the builder and of the image hold.
BuilderTypeOK ==
  /\ inputs \in Seq(Input)
  /\ image \in [base: Word, sections: Seq(Entry)]
  /\ cursor \in Word
  /\ next \in Nat \ {0}
  /\ pc \in {"idle", "placing"}
  /\ ok \in BOOLEAN

\* At any time, and also in what a failed build leaves behind, the sections of
\* the image lie behind the base, on multiples of their alignments, and one
\* behind the other without overlap, although every sum in build() may wrap.
LayoutSound ==
  LET secs == image.sections IN
    /\ \A i \in DOMAIN secs :
         /\ secs[i].offset >= image.base
         /\ secs[i].align > 0 /\ secs[i].offset % secs[i].align = 0
    /\ \A i, j \in DOMAIN secs :
         i < j => secs[i].offset + secs[i].size <= secs[j].offset

\* The order of the sections is that of kind, name and ordinal, and of two
\* sections with equal keys the one added first comes first, however often
\* the builder was built and added to in between.
StableOrder ==
  pc = "placing" =>
    \A i, j \in DOMAIN inputs : i < j =>
      LET a == inputs[i]
          b == inputs[j]
      IN \/ a.kind < b.kind
         \/ a.kind = b.kind /\ a.name < b.name
         \/ <<a.kind, a.name>> = <<b.kind, b.name>> /\ a.ordinal < b.ordinal
         \/ /\ <<a.kind, a.name, a.ordinal>> = <<b.kind, b.name, b.ordinal>>
            /\ a.id < b.id

\* A build repeated with the same base and no new section ends as the one
\* before did, failed builds included.
RebuildRepeats ==
  [][pc = "placing" /\ pc' = "idle" /\ last.count = Len(inputs)
       /\ last.count > 0 /\ last.image.base = image.base =>
         image' = last.image /\ ok' = last.ok]_vars
=============================================================================
