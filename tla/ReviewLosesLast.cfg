SPECIFICATION Spec
CONSTANTS
  p1 = p1
  p2 = p2
  p3 = p3
  f1 = f1
  f2 = f2
  f3 = f3
  f4 = f4
  f5 = f5
  ann = ann
  Nil = Nil
  PeopleIds <- MCIds
  Faces = {f1, f2, f3, f4, f5}
  Names = {ann}
  PageSize = 1
  s1 = s1
  s2 = s2
  s3 = s3
  Slots = {s1, s2, s3}
  Databases <- MCDatabases
  Filters = {"all", "named"}
  MaxActs = 4
SYMMETRY MCSymmetry
INVARIANT LastVerdictSent
CHECK_DEADLOCK FALSE
