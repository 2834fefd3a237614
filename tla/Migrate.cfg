\* Four releases with faulty or different files start, stop and start again,
\* on a new database or one that has the baseline.
SPECIFICATION FairSpec
CONSTANTS
  p1 = p1
  p2 = p2
  p3 = p3
  p4 = p4
  a = a
  b = b
  blank = blank
  Pods = {p1, p2, p3, p4}
  Files <- AllFiles
  FilesOf <- GapFailingOtherOld
  Blank = blank
  Failing <- LastFile
  BaselineVersion = 1
  MayStop = TRUE
INVARIANTS
  OneFilePerVersion
  ReadyHasSchema
  SchemaInOrder
  BaselineNotExecuted
PROPERTIES
  PodsEnd
CHECK_DEADLOCK FALSE
