SPECIFICATION Spec
CONSTANTS
  Txns = {p1, p2, q1}
  Threads = {p1, p2}
  Original = o1
  Reversals = {r1, r2}
  Subjects <- MCSubjects
  NoOne = NoOne
SYMMETRY Symmetry
INVARIANTS
  LinearChain
  ChainTellsTheLedger
  PairFlipsTogether
  ReversalIsTrue
CHECK_DEADLOCK FALSE
