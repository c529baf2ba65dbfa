SPECIFICATION OffsetsSpec
CONSTANTS
  Modulus = 16
  Sizes = {0, 1, 5, 12}
  Alignments = {0, 1, 3, 4}
  OffsetBases = {0, 2, 13}
  MaxEntries = 3
INVARIANTS
  TrueMeansDisjoint
