SPECIFICATION Spec
CONSTANTS
  t1 = t1
  t2 = t2
  f1 = f1
  f2 = f2
  p1 = p1
  p2 = p2
  w1 = w1
  w2 = w2
  None = None
  Torrent <- TwoTorrents
  File <- TwoFiles
  Slot <- OneSlot
  WebSlot = {}
  NumPieces = 2
  PieceLength = 4
  TotalSize = 7
  AssemblyLimit = 3
  BlockSize = 2
  EventBudget = 1
  WebParallel = 1
  WebBatch = 1
  MaxGeneration = 3
  AddOnce = TRUE
SYMMETRY Symmetry
INVARIANTS
  BlocksFitBuffer
  CountersExact
