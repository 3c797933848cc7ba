SPECIFICATION Spec
CONSTANTS
  t1 = t1
  t2 = t2
  f1 = f1
  f2 = f2
  p1 = p1
  p2 = p2
  w1 = w1
  w2 = w2
  None = None
  Torrent <- TwoTorrents
  File <- OneFile
  Slot = {}
  WebSlot <- OneWebSlot
  NumPieces = 2
  PieceLength = 1
  TotalSize = 2
  AssemblyLimit = 1
  BlockSize = 1
  EventBudget = 1
  WebParallel = 1
  WebBatch = 1
  MaxGeneration = 4
  AddOnce = FALSE
PROPERTY SavedWhenDeclared
