------------------------------- MODULE Pieces -------------------------------
(***************************************************************************)
(* The pieces of one torrent and the piece manager that tracks them        *)
(* (piece_mgr.c, and torrent_piece_size of torrent_mgr.c).                  *)
(*                                                                          *)
(* A torrent of TotalSize bytes is cut into NumPieces pieces of PieceLength *)
(* bytes, the last one shorter.  A piece map pm says what is known of each  *)
(* piece:                                                                   *)
(*   "free"       nobody is fetching it (PIECE_FREE)                        *)
(*   "requested"  a peer or a web seed job is (PIECE_REQUESTED)             *)
(*   "complete"   verified and written (PIECE_COMPLETE)                     *)
(* PIECE_FAILED is left out: it is assigned by piece_mgr_failed, which      *)
(* nobody calls, and by piece_mgr_complete when the hash differs, which its *)
(* two callers exclude by comparing the same hash just before.              *)
(***************************************************************************)
EXTENDS Integers, FiniteSets

CONSTANTS NumPieces, PieceLength, TotalSize

(* What torrent_parse checks of a torrent's numbers before it is accepted.  *)
ASSUME PiecesAssumption ==
  /\ NumPieces \in Nat \ {0}
  /\ PieceLength \in Nat \ {0}
  /\ TotalSize \in Nat
  /\ TotalSize - (NumPieces - 1) * PieceLength \in 1 .. PieceLength

Piece == 0 .. NumPieces - 1

PieceState == {"free", "requested", "complete"}

PieceMap == [Piece -> PieceState]

(* Bytes of piece i: PieceLength, or what is left for the last piece.       *)
PieceSize(i) ==
  IF i = NumPieces - 1 THEN TotalSize - i * PieceLength ELSE PieceLength

(* Bytes of the contiguous pieces a .. b.                                   *)
SpanSize(a, b) ==
  IF b = NumPieces - 1 THEN TotalSize - a * PieceLength
                       ELSE (b - a + 1) * PieceLength

(* The bytes of the pieces in S, each named by its piece and its position.  *)
BytesOf(S) == {b \in S \X (1 .. PieceLength) : b[2] <= PieceSize(b[1])}

(* The state every piece has after piece_mgr_init, and after                *)
(* piece_mgr_destroy, when there is no array at all.                        *)
AllFree == [i \in Piece |-> "free"]

(* The pieces that may be asked for.  Mutated: those that are not complete. *)
IncompleteIn(pm) == {i \in Piece : pm[i] # "complete"}
FreeIn(pm) == {i \in Piece : pm[i] = "free"}

CompleteIn(pm) == {i \in Piece : pm[i] = "complete"}

(* piece_mgr_get_next: the first free piece the peer has, pieces tried in   *)
(* order.  A web seed has every piece (bitfield NULL).                      *)
IsNext(pm, i, has) ==
  /\ i \in FreeIn(pm) \cap has
  /\ \A k \in FreeIn(pm) \cap has : i <= k

(* piece_mgr_request of every piece in S.                                   *)
Requested(pm, S) == [i \in Piece |-> IF i \in S THEN "requested" ELSE pm[i]]

(* The state change of piece_mgr_complete for every piece in S.             *)
Completed(pm, S) == [i \in Piece |-> IF i \in S THEN "complete" ELSE pm[i]]

(* A piece given back: PIECE_FREE, unless it is complete.  Mutated: without *)
(* that check.                                                              *)
FreedAlways(pm, S) == [i \in Piece |-> IF i \in S THEN "free" ELSE pm[i]]
Freed(pm, S) ==
  [i \in Piece |-> IF i \in S /\ pm[i] # "complete" THEN "free" ELSE pm[i]]

(* piece_mgr_is_done: decided by the counter, not by the pieces.  Mutated:  *)
(* one piece early.                                                         *)
IsDoneEarly(count) == count >= NumPieces - 1
IsDone(count) == count >= NumPieces
=============================================================================
