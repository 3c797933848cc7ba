SPECIFICATION Spec
CONSTANTS
  t1 = t1
  t2 = t2
  f1 = f1
  f2 = f2
  p1 = p1
  p2 = p2
  w1 = w1
  w2 = w2
  None = None
  Torrent <- OneTorrent
  File <- OneFile
  Slot <- TwoSlots
  WebSlot <- OneWebSlot
  NumPieces = 2
  PieceLength = 3
  TotalSize = 4
  AssemblyLimit = 4
  BlockSize = 2
  EventBudget = 1
  WebParallel = 1
  WebBatch = 2
  MaxGeneration = 3
  AddOnce = TRUE
SYMMETRY Symmetry
INVARIANTS
  TypeOK
  ExclusiveOwner
  NoOrphan
  CompleteIsSaved
  DoneIsSaved
  CountersExact
PROPERTIES
  RestIsFrozen
  BlocksAreKept
  ImplementsDownload
