\* Every body of up to three lines, cut into pieces in every way.
SPECIFICATION ChatSpec
CONSTANTS
  MaxLines <- ThreeLines
INVARIANTS
  ChatTypeOK
  PiecesDoNotMatter
CHECK_DEADLOCK FALSE
