----------------------------- MODULE Relocation -----------------------------
(***************************************************************************)
(* apply_single and apply_relocations of src/olnk/relocation.cpp: the      *)
(* value of a relocation in unsigned and signed words, with the checks     *)
(* the code makes before each operation.                                   *)
(***************************************************************************)
EXTENDS Integers, Sequences

CONSTANT SignBit  \* 2^63, the weight of the sign bit of int64_t

ASSUME WordAssumption == SignBit \in Nat \ {0}

UMax == 2 * SignBit - 1
SignedWord == -SignBit .. SignBit - 1

RelocationRecord ==
  [kind: {"kNone", "kAbsolute", "kPcRelative", "kGot", "kPlt"}, rank: Nat,
   offset: 0..UMax, addend: SignedWord, target_value: 0..UMax, ordinal: Nat]

\* static_cast<uint64_t>
Unsigned(n) == n % (2 * SignBit)

\* The unary minus of int64_t. Negating the least value is undefined; the
\* builds of this code wrap around to the same value.
Negated(n) == IF n = -SignBit THEN n ELSE -n

Outcome(record, status, value) ==
  [offset |-> record.offset, status |-> status, resolved_value |-> value]

Overflow(record, value) == Outcome(record, "kOverflow", value)

\* Mutant: the sum is taken without a look at what is left of the word.
AddOverflows_Never(base, uadd) == FALSE

AddOverflows(base, uadd) == base > UMax - uadd

\* kGot and kPlt are resolved as kAbsolute is.
apply_single(record, place) ==
  LET base == record.target_value
      uadd == Unsigned(record.addend)
      usub == Unsigned(Negated(record.addend))
      fails == IF record.addend >= 0 THEN AddOverflows(base, uadd) ELSE base < usub
      sum == Unsigned(IF record.addend >= 0 THEN base + uadd ELSE base - usub)
  IN IF record.kind = "kNone" THEN Outcome(record, "kSkippedUnsupported", 0)
     ELSE IF fails THEN Overflow(record, 0)
     ELSE IF record.kind # "kPcRelative" THEN Outcome(record, "kApplied", sum)
     ELSE IF sum < place THEN Overflow(record, sum)
     ELSE Outcome(record, "kApplied", sum - place)

apply_relocations(records, place_base) ==
  [i \in DOMAIN records |->
     LET place == Unsigned(place_base + records[i].offset)
     IN IF place < place_base THEN Overflow(records[i], 0)
                              ELSE apply_single(records[i], place)]

-----------------------------------------------------------------------------
\* Reference: the exact value, and the exact numbers on the way to it that
\* have to fit a word.
ExactPlace(record, place_base) == place_base + record.offset
ExactSum(record) == record.target_value + record.addend
ExactValue(record, place_base) ==
  IF record.kind = "kPcRelative" THEN ExactSum(record) - ExactPlace(record, place_base)
                                 ELSE ExactSum(record)
Fits(n) == n \in 0..UMax
=============================================================================
