SPECIFICATION Spec
CONSTANTS
  k1 = k1
  k2 = k2
  k3 = k3
  k4 = k4
  Keys = {k1, k2, k3, k4}
  Vals = {v1, v2}
  HT_NUM_BUCKETS = 2
  hash <- TwoBuckets
  Blocks = {1, 2, 3, 4, 5, 6, 7, 8, 9, 10, 11, 12, 13}
  NULL = NULL
  NodeBytes = NodeBytes
  Garbage = Garbage
  Done = Done
  Failed = Failed
  Missing = Missing
VIEW Shape
INVARIANTS
  TypeOK
  HeapExact
  ChainsSound
  CountExact
PROPERTIES
  ImplementsMap
