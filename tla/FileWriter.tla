----------------------------- MODULE FileWriter -----------------------------
(***************************************************************************)
(* The file writer (file_io.c): pieces, which arrive in any order, are cut   *)
(* at the borders of the files of the torrent.                              *)
(*                                                                          *)
(* A file on disk is the sequence of its bytes.  The right content of the    *)
(* torrent is the sequence of its places 0, 1, 2 ...: a byte on disk is the  *)
(* place it is the right content of, or one of Old (there before) and Hole  *)
(* (the zeros that a write behind the end of the file leaves).              *)
(*                                                                          *)
(* One call of file_writer_write_piece is a step per file it looks at, so   *)
(* that each of its failures can come at each of its files.  Mode and files *)
(* do not change during the life of a writer: they are variables so that a  *)
(* run covers every way of cutting the content into files.                  *)
(*                                                                          *)
(* Abstractions.  Whether an empty file exists is not told apart from its   *)
(* absence.  No two files of a torrent have the same path.                  *)
(***************************************************************************)
EXTENDS Pieces, Sequences, FiniteSetsExt

CONSTANTS NumFiles  \* bound: files of a torrent, 1024 in the code

ASSUME FilesAssumption == NumFiles \in Nat \ {0}

VARIABLES
  multi,    \* multi_file
  lengths,  \* length of each file
  disk,     \* content of each file
  call,     \* the call of file_writer_write_piece that is under way
  saved     \* pieces whose call returned 0 since file_writer_init

vars == <<multi, lengths, disk, call, saved>>

-----------------------------------------------------------------------------
NoPiece == -1
Old == -1
Hole == -2

Byte == 0 .. TotalSize - 1

File == 1 .. NumFiles

(* piece: its argument; file: the loop's variable; start: file_offset, where *)
(* that file begins; data: data_offset, what has been written of the piece. *)
NoCall == [piece |-> NoPiece, file |-> 1, start |-> 0, data |-> 0]

(* The files may hold anything before: nothing, too little, or too much.    *)
Leftover(length) == {[k \in 1 .. n |-> Old] : n \in {0, 1, length + 1}}

(* Where a file ends in the content, and where it begins, for files of       *)
(* these lengths.                                                           *)
EndIn(ls, file) ==
  LET end[f \in 0 .. NumFiles] == IF f = 0 THEN 0 ELSE end[f - 1] + ls[f]
  IN  end[file]
StartOf(file) == EndIn(lengths, file - 1)

(* The writer has just been opened.  The files of a torrent add up to its   *)
(* content, and empty ones are legal.                                       *)
Init ==
  /\ multi \in BOOLEAN
  /\ lengths \in {ls \in [File -> 0 .. TotalSize] :
                    /\ EndIn(ls, NumFiles) = TotalSize
                    /\ ~multi => ls[1] = TotalSize}
  /\ disk \in {d \in [File -> UNION {Leftover(n) : n \in 0 .. TotalSize}] :
                 \A f \in File :
                   d[f] \in IF multi THEN Leftover(lengths[f]) ELSE {<<>>}}
  /\ call = NoCall
  /\ saved = {}

(* file_writer_init, after a stop or an error: a single file is emptied.    *)
Open ==
  /\ call = NoCall
  /\ saved' = {}
  /\ disk' = IF multi THEN disk ELSE [disk EXCEPT ![1] = <<>>]
  /\ UNCHANGED <<multi, lengths, call>>

(* A piece is written that has not been yet.                                *)
Begin(p) ==
  /\ call = NoCall /\ p \notin saved
  /\ call' = [NoCall EXCEPT !.piece = p]
  /\ UNCHANGED <<multi, lengths, disk, saved>>

-----------------------------------------------------------------------------
PieceStart == call.piece * PieceLength
PieceEnd == PieceStart + PieceSize(call.piece)

FileEnd == call.start + lengths[call.file]

(* write_start and write_end, within the current file.                      *)
WriteStart == IF PieceStart > call.start THEN PieceStart - call.start ELSE 0

WriteEnd ==
  IF PieceEnd < FileEnd THEN PieceEnd - call.start ELSE lengths[call.file]

(* The piece has bytes in the current file.                                 *)
Overlaps ==
  /\ PieceStart < FileEnd /\ PieceEnd > call.start
  /\ WriteEnd > WriteStart

(* The n bytes of the piece from offset from on.                            *)
Data(from, n) == [i \in 1 .. n |-> PieceStart + from + i - 1]

(* lseek and write: the bytes land at offset at.                            *)
Put(content, at, bytes) ==
  [k \in 1 .. (IF bytes = <<>> THEN Len(content)
                              ELSE Max({Len(content), at + Len(bytes)})) |->
     IF k - at \in DOMAIN bytes THEN bytes[k - at]
     ELSE IF k \in DOMAIN content THEN content[k]
     ELSE Hole]

(* The call returns 0; it returns -1.  Mutated: a failure goes unnoticed.   *)
Succeed == call' = NoCall /\ saved' = saved \cup {call.piece}
FailUnnoticed == Succeed
Fail == call' = NoCall /\ UNCHANGED saved

(* A single file is written at the piece's place, or cut short.             *)
WriteSingle(n) ==
  /\ ~multi /\ call.piece # NoPiece
  /\ n <= PieceSize(call.piece)
  /\ disk' = [disk EXCEPT ![1] = Put(@, PieceStart, Data(0, n))]
  /\ IF n = PieceSize(call.piece) THEN Succeed ELSE Fail
  /\ UNCHANGED <<multi, lengths>>

(* The loop over the files goes on while there is something to write.       *)
InLoop ==
  /\ multi /\ call.piece # NoPiece
  /\ call.file <= NumFiles /\ call.data < PieceSize(call.piece)

(* data_offset after a file took n bytes.  Mutated: the part before it is   *)
(* forgotten.                                                               *)
TakenHere(n) == n
Taken(n) == call.data + n

SkipFile ==
  /\ InLoop /\ ~Overlaps
  /\ call' = [call EXCEPT !.file = @ + 1, !.start = FileEnd]
  /\ UNCHANGED <<multi, lengths, disk, saved>>

WriteFile ==
  LET n == WriteEnd - WriteStart
  IN /\ InLoop /\ Overlaps
     /\ disk' = [disk EXCEPT ![call.file] = Put(@, WriteStart, Data(call.data, n))]
     /\ call' = [call EXCEPT !.file = @ + 1, !.start = FileEnd, !.data = Taken(n)]
     /\ UNCHANGED <<multi, lengths, saved>>

(* Only n bytes are written: the disk is full or the write interrupted, or, *)
(* for none at all, the path is refused, or the directory, open, lseek or   *)
(* write fails.                                                             *)
CutShort(n) ==
  /\ InLoop /\ Overlaps
  /\ n < WriteEnd - WriteStart
  /\ disk' = [disk EXCEPT ![call.file] = Put(@, WriteStart, Data(call.data, n))]
  /\ Fail
  /\ UNCHANGED <<multi, lengths>>

(* After the loop, whatever it wrote, the call returns 0.                   *)
Return ==
  /\ multi /\ call.piece # NoPiece /\ ~InLoop
  /\ Succeed
  /\ UNCHANGED <<multi, lengths, disk>>

Next ==
  \/ Open \/ SkipFile \/ WriteFile \/ Return
  \/ \E p \in Piece : Begin(p)
  \/ \E n \in 0 .. PieceLength : WriteSingle(n) \/ CutShort(n)

Spec == Init /\ [][Next]_vars

-----------------------------------------------------------------------------
(* Properties.                                                              *)

(* Once every piece is reported as written, every file holds its content in *)
(* full; only what was too long before is still too long.                   *)
FilesComplete ==
  saved = Piece =>
    \A f \in File :
      /\ Len(disk[f]) >= lengths[f]
      /\ \A k \in DOMAIN disk[f] :
           disk[f][k] = IF k <= lengths[f] THEN StartOf(f) + k - 1 ELSE Old

(* The content as it can be read back from the files.                       *)
Image ==
  [b \in Byte |->
     \E f \in File : \E k \in DOMAIN disk[f] :
       StartOf(f) + k - 1 = b /\ k <= lengths[f] /\ disk[f][k] = b]

(* The writer implements a flat file: a call stores a growing prefix of its *)
(* piece and nothing else, and reports success with all of it stored.       *)
Flat == INSTANCE FlatFile WITH image <- Image, writing <- call.piece
ImplementsFlatFile == Flat!Spec
=============================================================================
