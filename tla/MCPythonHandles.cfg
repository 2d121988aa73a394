SPECIFICATION PySpec
CONSTANTS
  Blocks = {b1, b2, b3}
  NULL = NULL
  Types = {ner, dets}
  Raw = Raw
  NotAMitieObject = NotAMitieObject
  Callers = {c, p}
  PythonThreads = {p}
  Temporaries = {dets}
SYMMETRY BlockSymmetry
INVARIANTS
  OneOwner
  FreesAreRight
