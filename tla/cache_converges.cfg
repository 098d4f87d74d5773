SPECIFICATION FairSpec
CONSTANTS
  i1 = i1  i2 = i2  q1 = q1  q2 = q2
  Instances = {i1, i2}
  Readers = {q1, q2}
  Home <- OneEach
  MaxVersion = 3
  Faults = {"query", "delete", "send", "abort"}
  Absent = Absent
  Nowhere = Nowhere
INVARIANTS TypeOK CommittedOnly
PROPERTIES CachesConverge OnlyCommitsStale
