--------------------------- MODULE ComputeOffsets ---------------------------
(***************************************************************************)
(* compute_offsets of src/olnk/compute_offsets.cpp: offsets for a vector   *)
(* of entries, in place, behind a base offset. One action per iteration of *)
(* its loop.                                                               *)
(***************************************************************************)
EXTENDS Alignment, Sequences

CONSTANTS Sizes, Alignments, OffsetBases,  \* bound: what callers pass in
          MaxEntries                       \* bound: entries of the vector

ASSUME OffsetsAssumption ==
  Sizes \cup Alignments \cup OffsetBases \subseteq Word /\ MaxEntries \in Nat

VARIABLES entries,                             \* the vector the caller passes
          offsetBase, entryCursor, nextEntry,  \* the argument and the locals
          computing                            \* idle, in the loop, or the value returned

offsetsVars == <<entries, offsetBase, entryCursor, nextEntry, computing>>

OffsetsInit ==
  /\ entries = << >>
  /\ offsetBase = 0 /\ entryCursor = 0 /\ nextEntry = 1
  /\ computing = "idle"

\* The caller fills its vector.
PushEntry(size, alignment) ==
  /\ computing # "loop"
  /\ Len(entries) < MaxEntries
  /\ entries' = Append(entries, [size |-> size, align |-> alignment, offset |-> 0])
  /\ computing' = "idle"
  /\ UNCHANGED <<offsetBase, entryCursor, nextEntry>>

compute_offsets(b) ==
  /\ computing # "loop"
  /\ offsetBase' = b /\ entryCursor' = b /\ nextEntry' = 1
  /\ computing' = "loop"
  /\ UNCHANGED entries

\* Mutant: the end of an entry is not checked.
Overflows_Unchecked(end, offset) == FALSE

\* cursor < entry.file_offset
Overflows(end, offset) == end < offset

PlaceEntry ==
  /\ computing = "loop"
  /\ nextEntry <= Len(entries)
  /\ LET a   == IF entries[nextEntry].align = 0 THEN 1 ELSE entries[nextEntry].align
         off == align_up(entryCursor, a)
         end == (off + entries[nextEntry].size) % Modulus
     IN /\ entries' = [entries EXCEPT ![nextEntry].align = a, ![nextEntry].offset = off]
        /\ entryCursor' = end
        /\ \/ Overflows(end, off) /\ computing' = "false" /\ UNCHANGED nextEntry
           \/ ~Overflows(end, off) /\ nextEntry' = nextEntry + 1 /\ UNCHANGED computing
  /\ UNCHANGED offsetBase

FinishLoop ==
  /\ computing = "loop"
  /\ nextEntry > Len(entries)
  /\ computing' = "true"
  /\ UNCHANGED <<entries, offsetBase, entryCursor, nextEntry>>

OffsetsNext ==
  \/ \E size \in Sizes, alignment \in Alignments : PushEntry(size, alignment)
  \/ \E b \in OffsetBases : compute_offsets(b)
  \/ PlaceEntry
  \/ FinishLoop

OffsetsSpec == OffsetsInit /\ [][OffsetsNext]_offsetsVars

-----------------------------------------------------------------------------
\* The entries lie behind the base and behind each other.
Disjoint ==
  /\ \A i \in DOMAIN entries : entries[i].offset >= offsetBase
  /\ \A i, j \in DOMAIN entries : i < j =>
       entries[i].offset + entries[i].size <= entries[j].offset

\* What the first n entries can take at most, padding included.
Room(n) ==
  LET room[i \in 0..n] ==
        IF i = 0 THEN 0 ELSE room[i-1] + entries[i].size + entries[i].align
  IN room[n]

\* A call that comes back with true has placed every entry without wrapping
\* its end: no entry reaches past the last offset a word can hold.
TrueMeansEndsFit ==
  computing = "true" =>
    \A i \in DOMAIN entries : entries[i].offset + entries[i].size < Modulus

\* If base, sizes and alignments leave enough room in a word, the call comes
\* back with true and every entry is aligned and overlaps no other, also
\* when the vector was laid out before, behind another base.
RoomMeansSound ==
  computing \in {"true", "false"} /\ offsetBase + Room(Len(entries)) <= Modulus =>
    /\ computing = "true"
    /\ Disjoint
    /\ \A i \in DOMAIN entries : entries[i].offset % entries[i].align = 0

\* Chapter 3.4 of the manual: "egress structures are normalized and
\* self-consistent": entries of a call that returned true do not overlap.
TrueMeansDisjoint == computing = "true" => Disjoint
=============================================================================
