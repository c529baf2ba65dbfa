----------------------------- MODULE Alignment -----------------------------
(***************************************************************************)
(* align_up of src/olnk/compute_offsets.cpp and, word for word, of         *)
(* src/olnk/output_builder.cpp, on unsigned integers below Modulus.        *)
(***************************************************************************)
EXTENDS Integers

CONSTANT Modulus   \* 2^64

ASSUME ModulusAssumption == Modulus \in Nat \ {0, 1}

Word == 0..Modulus-1

\* Mutant: adds a whole alignment unit instead of the padding.
align_up_Whole(value, alignment) ==
  IF alignment <= 1 \/ value % alignment = 0
    THEN value
    ELSE (value + alignment) % Modulus

\* The next multiple of alignment; the addition wraps around.
align_up(value, alignment) ==
  IF alignment <= 1 \/ value % alignment = 0
    THEN value
    ELSE (value + (alignment - (value % alignment))) % Modulus
=============================================================================
