CONSTANTS
  c1 = c1
  p1 = p1
  p2 = p2
  Empty = Empty
  Commands = {c1}
  Payloads = {p1, p2}
  Capacities = {1, 2, 3}
  MaxSeq = 5
SPECIFICATION Spec
INVARIANTS TypeOK ReadsAgree
PROPERTIES NoGapWhileRegistered ImplementsSampleLog
