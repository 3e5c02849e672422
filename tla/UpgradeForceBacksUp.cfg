SPECIFICATION Spec
CONSTANTS
  f1 = f1  f2 = f2  a = a  b = b  c = c
  Files = {f1, f2}
  Contents = {a, b, c}
  Missing = Missing
  NoFile = NoFile
  MaxEvents = 4
SYMMETRY Symmetry
PROPERTY ForceBacksUp
CHECK_DEADLOCK FALSE
