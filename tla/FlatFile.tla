------------------------------ MODULE FlatFile ------------------------------
(***************************************************************************)
(* What the file writer promises (file_io.h): the content of a torrent can  *)
(* be written piece by piece, in any order, as if it were one flat file.    *)
(* A write that is cut short leaves a part of its piece behind and says so; *)
(* one that reports success has stored the whole piece, and nothing else    *)
(* changes in the meantime.                                                 *)
(***************************************************************************)
EXTENDS Pieces

CONSTANT NoPiece

VARIABLES
  image,    \* is the byte at this place of the content the right one?
  saved,    \* pieces reported as written since the writer was opened
  writing   \* the piece being written

vars == <<image, saved, writing>>

Byte == 0 .. TotalSize - 1

(* The first n bytes of piece p.                                            *)
FirstBytes(p, n) == {b \in Byte : p * PieceLength <= b /\ b < p * PieceLength + n}

Init ==
  /\ image = [b \in Byte |-> FALSE]
  /\ saved = {}
  /\ writing = NoPiece

(* The writer is opened: what is there stays, or is thrown away.            *)
Open ==
  /\ writing = NoPiece
  /\ saved' = {}
  /\ image' \in {image, [b \in Byte |-> FALSE]}
  /\ UNCHANGED writing

Begin(p) ==
  /\ writing = NoPiece /\ p \notin saved
  /\ writing' = p
  /\ UNCHANGED <<image, saved>>

(* More of the piece is stored, and the writer may give up at once.         *)
Store(n) ==
  /\ writing \in Piece
  /\ image' = [b \in Byte |-> image[b] \/ b \in FirstBytes(writing, n)]
  /\ writing' \in {writing, NoPiece}
  /\ UNCHANGED saved

(* The piece is reported as written: all of it is there.                    *)
Report ==
  /\ writing \in Piece
  /\ image' = [b \in Byte |-> image[b] \/ b \in FirstBytes(writing, PieceSize(writing))]
  /\ saved' = saved \cup {writing}
  /\ writing' = NoPiece

Next ==
  \/ Open \/ Report
  \/ \E p \in Piece : Begin(p)
  \/ \E n \in 0 .. PieceLength : Store(n)

Spec == Init /\ [][Next]_vars
=============================================================================
