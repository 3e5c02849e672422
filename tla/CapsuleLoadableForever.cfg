SPECIFICATION Spec
CONSTANTS
  p1 = p1  p2 = p2  v1 = v1  v2 = v2
  Procs = {p1, p2}
  Versions = {v1, v2}
  StrictOK = {v1}
  StateInTree = FALSE
  NoVersion = NoVersion
  NoCapsule = NoCapsule
  MaxEvents = 1
SYMMETRY Symmetry
PROPERTY LoadableForever
