SPECIFICATION Spec
CONSTANTS
  s1 = s1
  s2 = s2
  m1 = m1
  m2 = m2
  r1 = r1
  r2 = r2
  a = a
  b = b
  c = c
  d = d
  Source = {s1, s2}
  Model = {m1, m2}
  Resolver = {r1, r2}
  Row = {a, b, c, d}
  Judge = {"j"}
  Inputs <- MCInputs
  Lineage <- MCLineage
  Left <- MCLeft
  Right <- MCRight
  Feed <- MCFeed
  MaxEdges = 2
  MaxGen = 2
  MaxEmpty = 1
  MaxUploads = 6
  MaxDeletes = 1
  MaxPrunes = 1
  MaxJudgements = 1
SYMMETRY RowSymmetry
CHECK_DEADLOCK FALSE
INVARIANTS TypeOK NothingLost OneClusterPerKey
PROPERTIES AnswersAreStable LeavesKeepTheirRoots
