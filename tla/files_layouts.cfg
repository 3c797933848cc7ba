SPECIFICATION Spec
CONSTANTS
  NumFiles = 4
  NumPieces = 2
  PieceLength = 3
  TotalSize = 5
INVARIANTS
  FilesComplete
  SeedBytesMatch
PROPERTY ImplementsFlatFile
