SPECIFICATION SeededSpec
CONSTANTS
  t1 = t1
  t2 = t2
  f1 = f1
  f2 = f2
  p1 = p1
  p2 = p2
  w1 = w1
  w2 = w2
  None = None
  Torrent <- OneTorrent
  File <- OneFile
  Slot <- OneSlot
  WebSlot <- OneWebSlot
  NumPieces = 2
  PieceLength = 1
  TotalSize = 2
  AssemblyLimit = 2
  BlockSize = 1
  EventBudget = 1
  WebParallel = 1
  WebBatch = 2
  MaxGeneration = 3
  AddOnce = TRUE
PROPERTIES
  TickReturns
  JobsDrain
  DownloadsEnd
