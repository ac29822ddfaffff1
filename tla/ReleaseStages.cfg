SPECIFICATION Spec
CONSTANTS
  Releases = {r1, r2}
  Operators = {o1, o2}
  MaxBuilds = 2
  MaxScripts = 5
  NoOne = NoOne
SYMMETRY Symmetry
INVARIANTS
  NothingSkipsAStage
  RuntimeIsTrue
  AdviceIsSound
CHECK_DEADLOCK FALSE
