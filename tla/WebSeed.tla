------------------------------ MODULE WebSeed ------------------------------
(***************************************************************************)
(* What a web seed worker fetches (web_seed.c): the ranges of the files of   *)
(* a torrent that make up a batch of pieces.  The layouts are those of the   *)
(* file writer, which cuts the pieces into files again by code of its own.   *)
(*                                                                          *)
(* A server either honours ranges or sends whole files.  That a request      *)
(* fails, or that its answer is cut short, makes the fetch fail whatever the *)
(* layout; TorrentEngine has that, and it is left out here.                  *)
(***************************************************************************)
EXTENDS FileWriter

Failed == <<Hole>>

(* The file on the server, and the n bytes of it from offset from on.        *)
OnServer(f) == [k \in 1 .. lengths[f] |-> StartOf(f) + k - 1]
BytesFrom(content, from, n) == SubSeq(content, from + 1, from + n)

(* http_fetch_range.  An answer with status 200 begins at the first byte.    *)
(* Mutated: it is taken for the range that was asked for.                    *)
RefusesNothing(server, from) == FALSE
Refuses(server, from) == server = "whole" /\ from # 0

FetchRange(server, f, from, n) ==
  IF n = 0 \/ Refuses(server, from) THEN Failed
  ELSE BytesFrom(OnServer(f), IF server = "whole" THEN 0 ELSE from, n)

-----------------------------------------------------------------------------
(* fetch_multi_file_piece: one file after the other, from where the piece    *)
(* begins in it to where the piece, or the file, ends.                       *)
FromIn(p, start) ==
  IF p * PieceLength > start THEN p * PieceLength - start ELSE 0
ToIn(p, start, end) ==
  LET pieceEnd == p * PieceLength + PieceSize(p)
  IN  IF pieceEnd < end THEN pieceEnd - start ELSE end - start

AfterFile(server, p, so_far, f) ==
  LET start == so_far.start
      end == start + lengths[f]
      from == FromIn(p, start)
      part == FetchRange(server, f, from, ToIn(p, start, end) - from)
  IN  IF so_far.out = Failed \/ Len(so_far.out) >= PieceSize(p) THEN so_far
      ELSE IF p * PieceLength < end /\ p * PieceLength + PieceSize(p) > start
      THEN [start |-> end,
            out |-> IF part = Failed THEN Failed ELSE so_far.out \o part]
      ELSE [so_far EXCEPT !.start = end]

FetchPiece(server, p) ==
  LET after[f \in 0 .. NumFiles] ==
        IF f = 0 THEN [start |-> 0, out |-> <<>>]
                 ELSE AfterFile(server, p, after[f - 1], f)
      out == after[NumFiles].out
  IN  IF Len(out) = PieceSize(p) THEN out ELSE Failed

(* web_seed_fetch_pieces, of the count pieces from first on: a single file   *)
(* in one request, several files piece by piece ...                         *)
AfterPiece(server, so_far, p) ==
  LET piece == FetchPiece(server, p)
  IN  IF Failed \in {so_far, piece} THEN Failed ELSE so_far \o piece

FetchBatch(server, first, count) ==
  LET out[n \in 0 .. count] ==
        IF n = 0 THEN <<>> ELSE AfterPiece(server, out[n - 1], first + n - 1)
  IN  IF multi THEN out[count]
      ELSE FetchRange(server, 1, first * PieceLength,
                      SpanSize(first, first + count - 1))

(* ... and from the next seed if any of it fails.                           *)
Fetch(servers, first, count) ==
  LET good == {i \in DOMAIN servers : FetchBatch(servers[i], first, count) # Failed}
  IN  IF good = {} THEN Failed ELSE FetchBatch(servers[Min(good)], first, count)

-----------------------------------------------------------------------------
(* Where the pieces are in the content, and what makes a piece impossible to *)
(* fetch: an empty file between two of its bytes, of which no range can be   *)
(* asked.                                                                   *)
Content(first, count) ==
  [k \in 1 .. SpanSize(first, first + count - 1) |-> first * PieceLength + k - 1]

HoldsEmptyFile(p) ==
  \E f \in File : LET at == StartOf(f)
                  IN  /\ multi /\ lengths[f] = 0
                      /\ p * PieceLength < at /\ at < p * PieceLength + PieceSize(p)

(* A fetch brings the right bytes, in their order, or fails: for every way   *)
(* of cutting the content into files, every batch, and servers that ignore   *)
(* ranges.  It fails only where nobody honours them or at an empty file.  The *)
(* layouts never change: they are looked at where a writer begins.           *)
SeedBytesMatch ==
  call = NoCall /\ saved = {} =>
    \A first \in Piece : \A count \in 1 .. NumPieces - first :
      /\ \A servers \in {<<"ranges">>, <<"whole">>, <<"whole", "ranges">>} :
           Fetch(servers, first, count) \in {Failed, Content(first, count)}
      /\ Fetch(<<"whole", "ranges">>, first, count) = Failed =>
           \E p \in first .. first + count - 1 : HoldsEmptyFile(p)
=============================================================================
