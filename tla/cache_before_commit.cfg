SPECIFICATION Spec
CONSTANTS
  i1 = i1  i2 = i2  q1 = q1  q2 = q2
  Instances = {i1}
  Readers = {q1}
  Home <- AllOnOne
  MaxVersion = 2
  Faults = {}
  Absent = Absent
  Nowhere = Nowhere
PROPERTY DeletedAfterCommit
