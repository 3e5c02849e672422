SPECIFICATION Spec
CONSTANTS
  p1 = p1  p2 = p2  v1 = v1  v2 = v2  mine = mine
  Commands = {p1, p2}
  Files = {"f"}
  Versions = {v1, v2}
  Mine = {mine}
  Missing = Missing
  Empty = Empty
  Torn = Torn
  NoPath = NoPath
  MaxSeconds = 2
  MaxEvents = 2
SYMMETRY Symmetry
INVARIANTS TypeOK NothingTorn SuccessConverges
PROPERTY EditsSurvive
