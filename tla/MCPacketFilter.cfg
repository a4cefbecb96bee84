CONSTANTS
  Programs = {p1, p2}
  Traffic = {s}
  Bytes = {0, 1}
  Width = 2
SPECIFICATION Spec
SYMMETRY Symmetry
INVARIANTS
  TypeOK
  ExactWhenQuiet
  ProgramSees
  UnloadedClean
