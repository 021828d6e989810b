SPECIFICATION Spec
CONSTANTS
  ThreadsN = 2
  Nodes = {n1, n2, n3, n4, n5}
  NoNode = NoNode
  Reserved = Reserved
  Srcs = {s1}
SYMMETRY Symmetry
INVARIANTS TypeOK ProtectedIsLive OwnedOnce BoundedGarbage
