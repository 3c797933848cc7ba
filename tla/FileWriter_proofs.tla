-------------------------- MODULE FileWriter_proofs --------------------------
(***************************************************************************)
(* The file writer keeps its promise for every way of cutting the content    *)
(* into files, and every way for its calls to fail; the web seeds, which cut *)
(* it again by code of their own, bring the bytes that belong there.        *)
(*                                                                          *)
(* All writes are of one form: bytes of the content go to the place in a     *)
(* file where they belong.  Stored says what such a write does to the        *)
(* image; what is left is the arithmetic of file_offset and data_offset.    *)
(***************************************************************************)
EXTENDS WebSeed, WellFoundedInduction, TLAPS

-----------------------------------------------------------------------------
(* Induction over a number.                                                 *)

LEMMA LeastNatural ==
  ASSUME NEW S, S \subseteq Nat, S # {}
  PROVE  \E n \in S : \A k \in S : n <= k
<1>1. PICK n \in S : \A k \in S : <<k, n>> \notin OpToRel(<, Nat)
  BY NatLessThanWellFounded, WFMin
<1>2. \A k \in S : ~(k < n)
  BY <1>1 DEF OpToRel
<1> QED  BY <1>2

LEMMA UpTo ==
  ASSUME NEW n \in Nat, NEW Good, 0 \in Good,
         \A k \in 1 .. n : k - 1 \in Good => k \in Good
  PROVE  \A k \in 0 .. n : k \in Good
<1> DEFINE Bad == {k \in 0 .. n : k \notin Good}
<1> SUFFICES ASSUME Bad # {}  PROVE FALSE
  OBVIOUS
<1>1. Bad \subseteq Nat
  OBVIOUS
<1> HIDE DEF Bad
<1>2. PICK l \in Bad : \A k \in Bad : l <= k
  BY <1>1, LeastNatural
<1>3. l \in 0 .. n /\ l \notin Good
  BY <1>2 DEF Bad
<1>4. l \in 1 .. n /\ l - 1 \in 0 .. n /\ ~(l <= l - 1)
  BY <1>3
<1>5. l - 1 \in Good
  BY <1>2, <1>4 DEF Bad
<1> QED  BY <1>3, <1>4, <1>5

-----------------------------------------------------------------------------
(* Where the files are.                                                     *)

(* The recursion of EndIn has a solution: the sums so far.                   *)
LEMMA SumsExist ==
  ASSUME NEW ls \in [File -> Nat]
  PROVE  \E e \in [0 .. NumFiles -> Nat] :
           /\ e[0] = 0
           /\ \A f \in File : e[f] = e[f - 1] + ls[f]
<1> DEFINE Is(e, l) == e[0] = 0 /\ \A f \in 1 .. l : e[f] = e[f - 1] + ls[f]
           Good == {l \in 0 .. NumFiles : \E e \in [0 .. l -> Nat] : Is(e, l)}
<1>0. NumFiles \in Nat
  BY FilesAssumption
<1>1. 0 \in Good
  <2> DEFINE e == [f \in 0 .. 0 |-> 0]
  <2>1. e \in [0 .. 0 -> Nat] /\ e[0] = 0
    OBVIOUS
  <2>2. 1 .. 0 = {} /\ 0 \in 0 .. NumFiles
    BY <1>0
  <2> HIDE DEF e
  <2> QED  BY <2>1, <2>2
<1>2. ASSUME NEW l \in 1 .. NumFiles, l - 1 \in Good  PROVE l \in Good
  <2>1. PICK e \in [0 .. l - 1 -> Nat] : Is(e, l - 1)
    BY <1>2
  <2>2. l - 1 \in 0 .. l - 1 /\ 0 \in 0 .. l - 1 /\ l \in Nat
    BY <1>0
  <2>3. e[l - 1] + ls[l] \in Nat
    BY <2>2 DEF File
  <2> DEFINE g == [f \in 0 .. l |-> IF f = l THEN e[l - 1] + ls[l] ELSE e[f]]
  <2>4. g \in [0 .. l -> Nat] /\ g[0] = 0
    BY <2>1, <2>2, <2>3
  <2>5. ASSUME NEW f \in 1 .. l  PROVE g[f] = g[f - 1] + ls[f]
    <3>1. f - 1 \in 0 .. l - 1 /\ g[f - 1] = e[f - 1]
      BY <2>2
    <3>2. CASE f = l
      BY <3>1, <3>2
    <3>3. CASE f # l
      <4>1. f \in 1 .. l - 1 /\ g[f] = e[f]
        BY <2>2, <3>3
      <4> QED  BY <2>1, <3>1, <4>1
    <3> QED  BY <3>2, <3>3
  <2> HIDE DEF g
  <2>6. Is(g, l)
    BY <2>4, <2>5
  <2>7. l \in 0 .. NumFiles
    BY <1>0
  <2> QED  BY <2>4, <2>6, <2>7
<1> HIDE DEF Good
<1>3. NumFiles \in Good
  BY <1>0, <1>1, <1>2, UpTo
<1> QED  BY <1>3 DEF Good, File

LEMMA Ends ==
  ASSUME NEW ls \in [File -> Nat]
  PROVE  /\ EndIn(ls, 0) = 0
         /\ \A f \in 0 .. NumFiles : EndIn(ls, f) \in Nat
         /\ \A f \in File : EndIn(ls, f) = EndIn(ls, f - 1) + ls[f]
<1> DEFINE Is(e) == e = [f \in 0 .. NumFiles |-> IF f = 0 THEN 0 ELSE e[f - 1] + ls[f]]
           end == CHOOSE e : Is(e)
<1>0. NumFiles \in Nat
  BY FilesAssumption
<1>1. \E e : Is(e)
  <2>1. PICK e \in [0 .. NumFiles -> Nat] :
          e[0] = 0 /\ \A f \in File : e[f] = e[f - 1] + ls[f]
    BY SumsExist
  <2>2. \A f \in 0 .. NumFiles : e[f] = IF f = 0 THEN 0 ELSE e[f - 1] + ls[f]
    <3> SUFFICES ASSUME NEW f \in 0 .. NumFiles, f # 0
                 PROVE  e[f] = e[f - 1] + ls[f]
      BY <2>1
    <3>1. f \in File
      BY <1>0 DEF File
    <3> QED  BY <2>1, <3>1
  <2> QED  BY <2>1, <2>2
<1>2. Is(end)
  BY <1>1
<1>3. \A f : EndIn(ls, f) = end[f]
  BY DEF EndIn
<1> HIDE DEF end
<1>4. \A f \in 0 .. NumFiles : end[f] = IF f = 0 THEN 0 ELSE end[f - 1] + ls[f]
  BY <1>2
<1>5. end[0] = 0 /\ \A f \in File : end[f] = end[f - 1] + ls[f]
  BY <1>0, <1>4 DEF File
<1>6. \A f \in 0 .. NumFiles : end[f] \in Nat
  <2> DEFINE Good == {f \in 0 .. NumFiles : end[f] \in Nat}
  <2>1. 0 \in Good
    BY <1>0, <1>5
  <2>2. ASSUME NEW f \in 1 .. NumFiles, f - 1 \in Good  PROVE f \in Good
    <3>1. end[f] = end[f - 1] + ls[f] /\ ls[f] \in Nat
      BY <1>5 DEF File
    <3> QED  BY <2>2, <3>1, <1>0
  <2> HIDE DEF Good
  <2>3. \A f \in 0 .. NumFiles : f \in Good
    BY <1>0, <2>1, <2>2, UpTo
  <2> QED  BY <2>3 DEF Good
<1> QED  BY <1>3, <1>5, <1>6

(* Files follow one another.                                                *)
LEMMA EndsGrow ==
  ASSUME NEW ls \in [File -> Nat],
         NEW f \in 0 .. NumFiles, NEW g \in 0 .. NumFiles, f <= g
  PROVE  EndIn(ls, f) <= EndIn(ls, g)
<1> DEFINE Good == {d \in 0 .. NumFiles :
                      f + d <= NumFiles => EndIn(ls, f) <= EndIn(ls, f + d)}
<1>0. NumFiles \in Nat /\ f \in Nat /\ g \in Nat
  BY FilesAssumption
<1>1. \A h \in 0 .. NumFiles : EndIn(ls, h) \in Nat
  BY Ends
<1>2. 0 \in Good
  BY <1>0, <1>1
<1>3. ASSUME NEW d \in 1 .. NumFiles, d - 1 \in Good  PROVE d \in Good
  <2> SUFFICES ASSUME f + d <= NumFiles  PROVE EndIn(ls, f) <= EndIn(ls, f + d)
    BY <1>0
  <2>1. f + d \in File /\ f + (d - 1) = (f + d) - 1 /\ (f + d) - 1 \in 0 .. NumFiles
        /\ f + d \in 0 .. NumFiles
    BY <1>0 DEF File
  <2>2. EndIn(ls, f + d) = EndIn(ls, (f + d) - 1) + ls[f + d] /\ ls[f + d] \in Nat
    BY <2>1, Ends
  <2>3. EndIn(ls, f) <= EndIn(ls, (f + d) - 1)
    BY <1>0, <1>3, <2>1
  <2> QED  BY <1>1, <2>1, <2>2, <2>3
<1> HIDE DEF Good
<1>4. g - f \in 0 .. NumFiles
  BY <1>0
<1>5. g - f \in Good
  BY <1>0, <1>2, <1>3, <1>4, UpTo
<1>6. f + (g - f) = g
  BY <1>0
<1> QED  BY <1>0, <1>5, <1>6 DEF Good

(* The bytes of piece p are places of the content.                          *)
LEMMA PiecesFit ==
  ASSUME NEW p \in Piece
  PROVE  /\ PieceSize(p) \in 1 .. PieceLength
         /\ p * PieceLength \in Nat
         /\ p * PieceLength + PieceSize(p) <= TotalSize
<1> DEFINE last == NumPieces - 1
<1>1. /\ p \in Nat /\ last \in Nat /\ p <= last
      /\ PieceLength \in Nat /\ PieceLength > 0 /\ TotalSize \in Nat
      /\ TotalSize - last * PieceLength \in 1 .. PieceLength
  BY PiecesAssumption DEF Piece
<1>2. p * PieceLength \in Nat /\ last * PieceLength \in Nat
  BY <1>1
<1>3. CASE p = last
  BY <1>1, <1>2, <1>3 DEF PieceSize
<1>4. CASE p # last
  <2>1. PieceSize(p) = PieceLength
    BY <1>4 DEF PieceSize
  <2>2. PICK d \in Nat : last = p + 1 + d
    <3>1. last - p - 1 \in Nat /\ last = p + 1 + (last - p - 1)
      BY <1>1, <1>4
    <3> QED  BY <3>1
  <2> HIDE DEF last
  <2>3. last * PieceLength = p * PieceLength + PieceLength + d * PieceLength
        /\ d * PieceLength \in Nat
    BY <1>1, <2>2
  <2> QED  BY <1>1, <1>2, <2>1, <2>3
<1> QED  BY <1>3, <1>4

(* Every place of the content belongs to a piece.                           *)
LEMMA PiecesCover ==
  ASSUME NEW b \in Byte
  PROVE  \E p \in Piece : p * PieceLength <= b /\ b < p * PieceLength + PieceSize(p)
<1> DEFINE S == {p \in Nat : b < (p + 1) * PieceLength}
<1>1. /\ NumPieces \in Nat /\ NumPieces > 0
      /\ PieceLength \in Nat /\ PieceLength > 0 /\ TotalSize \in Nat
      /\ TotalSize - (NumPieces - 1) * PieceLength \in 1 .. PieceLength
      /\ b \in Nat /\ b < TotalSize
  BY PiecesAssumption DEF Byte
<1>2. NumPieces - 1 \in S
  <2>1. NumPieces - 1 + 1 = NumPieces /\ NumPieces - 1 \in Nat
    BY <1>1
  <2>2. (NumPieces - 1) * PieceLength + PieceLength = NumPieces * PieceLength
    BY <1>1
  <2>3. (NumPieces - 1) * PieceLength \in Int /\ NumPieces * PieceLength \in Int
    BY <1>1
  <2> QED  BY <1>1, <2>1, <2>2, <2>3
<1>3. PICK p \in S : \A k \in S : p <= k
  <2>1. S \subseteq Nat
    OBVIOUS
  <2> HIDE DEF S
  <2> QED  BY <1>2, <2>1, LeastNatural
<1>4. p \in Piece
  BY <1>1, <1>2, <1>3 DEF Piece
<1>5. p * PieceLength <= b
  <2>1. CASE p = 0
    BY <1>1, <2>1
  <2>2. CASE p # 0
    <3>1. p - 1 \in Nat /\ ~(p <= p - 1) /\ p - 1 + 1 = p
      BY <1>3, <2>2
    <3>2. p - 1 \notin S
      BY <1>3, <3>1
    <3>3. ~(b < p * PieceLength)
      BY <3>1, <3>2
    <3>4. p * PieceLength \in Nat
      BY <1>1, <1>3
    <3> QED  BY <1>1, <3>3, <3>4
  <2> QED  BY <2>1, <2>2
<1>6. b < p * PieceLength + PieceSize(p)
  <2>1. p * PieceLength + PieceLength = (p + 1) * PieceLength
    BY <1>1, <1>3
  <2>2. CASE p = NumPieces - 1
    BY <1>1, <2>2 DEF PieceSize
  <2>3. CASE p # NumPieces - 1
    BY <1>3, <2>1, <2>3 DEF PieceSize
  <2> QED  BY <2>2, <2>3
<1> QED  BY <1>4, <1>5, <1>6

-----------------------------------------------------------------------------
(* What a write does to a file, and to the image.                           *)

LEMMA LargerOf ==
  ASSUME NEW a \in Int, NEW b \in Int
  PROVE  Max({a, b}) = IF b > a THEN b ELSE a
<1> DEFINE m == CHOOSE x \in {a, b} : \A y \in {a, b} : x >= y
<1>1. \E x \in {a, b} : \A y \in {a, b} : x >= y
  BY a >= b \/ b >= a, a >= a, b >= b
<1>2. m \in {a, b} /\ \A y \in {a, b} : m >= y
  BY <1>1
<1>3. Max({a, b}) = m
  BY DEF Max
<1> HIDE DEF m
<1>4. m \in {a, b} /\ m >= a /\ m >= b
  BY <1>2
<1> QED  BY <1>3, <1>4

LEMMA PutBytes ==
  ASSUME NEW c \in Seq(Int), NEW at \in Nat, NEW n \in Nat, NEW v \in [1 .. n -> Int]
  PROVE  /\ Put(c, at, v) \in Seq(Int)
         /\ Len(Put(c, at, v)) \in Nat
         /\ n > 0 => at + n <= Len(Put(c, at, v))
         /\ Len(c) <= Len(Put(c, at, v))
         /\ \A k \in 1 .. Len(Put(c, at, v)) :
              /\ k - at \in 1 .. n => Put(c, at, v)[k] = v[k - at]
              /\ k - at \notin 1 .. n =>
                   IF k <= Len(c) THEN Put(c, at, v)[k] = c[k]
                   ELSE Put(c, at, v)[k] = Hole /\ k <= at
<1> DEFINE m == IF n = 0 THEN Len(c)
                ELSE IF at + n > Len(c) THEN at + n ELSE Len(c)
           w == [k \in 1 .. m |-> IF k - at \in 1 .. n THEN v[k - at]
                                  ELSE IF k \in 1 .. Len(c) THEN c[k] ELSE Hole]
<1>1. Len(c) \in Nat /\ DOMAIN c = 1 .. Len(c) /\ \A k \in 1 .. Len(c) : c[k] \in Int
  OBVIOUS
<1>2. m \in Nat /\ Len(c) <= m /\ (n > 0 => at + n <= m)
      /\ \A k \in 1 .. m : k > Len(c) => k <= at + n
  BY <1>1
<1>3. v \in Seq(Int) /\ Len(v) = n /\ DOMAIN v = 1 .. n
  OBVIOUS
<1>4. (IF v = <<>> THEN Len(c) ELSE Max({Len(c), at + Len(v)})) = m
  <2>1. CASE n = 0
    BY <1>3, <2>1
  <2>2. CASE n # 0
    <3>1. v # <<>>
      <4>1. Len(v) # 0
        BY <1>3, <2>2
      <4> HIDE DEF m, w
      <4> QED  BY <4>1
    <3>2. Max({Len(c), at + n}) = IF at + n > Len(c) THEN at + n ELSE Len(c)
      <4>1. Len(c) \in Int /\ at + n \in Int
        BY <1>1
      <4> QED  BY <4>1, LargerOf
    <3> QED  BY <1>3, <2>2, <3>1, <3>2
  <2> QED  BY <2>1, <2>2
<1>5. Put(c, at, v) = w
  BY <1>1, <1>3, <1>4 DEF Put
<1> HIDE DEF m
<1>6. \A k \in 1 .. m : w[k] \in Int
  BY <1>1, <1>2 DEF Hole
<1>7. w \in Seq(Int) /\ Len(w) = m
  <2>1. w = [k \in 1 .. m |-> w[k]]
    OBVIOUS
  <2> HIDE DEF w
  <2>2. w \in [1 .. m -> Int]
    BY <1>6, <2>1
  <2> QED  BY <1>2, <2>2
<1>8. \A k \in 1 .. m :
        /\ k - at \in 1 .. n => w[k] = v[k - at]
        /\ k - at \notin 1 .. n =>
             IF k <= Len(c) THEN w[k] = c[k] ELSE w[k] = Hole /\ k <= at
  BY <1>1, <1>2
<1> HIDE DEF w
<1> QED  BY <1>2, <1>5, <1>7, <1>8

(* What Init fixes for good; and what is stored at place b.                 *)
Layout(ls) == ls \in [File -> Nat] /\ EndIn(ls, NumFiles) = TotalSize

StoredAt(ls, d, b) ==
  \E f \in File : \E k \in DOMAIN d[f] :
    EndIn(ls, f - 1) + k - 1 = b /\ k <= ls[f] /\ d[f][k] = b

(* Behind its part of the content, a file holds what was there before.      *)
TailsAreOld(ls, d) ==
  \A f \in File : \A k \in DOMAIN d[f] : k > ls[f] => d[f][k] = Old

LEMMA FileSpan ==
  ASSUME NEW ls, Layout(ls), NEW f \in File
  PROVE  /\ f \in Nat /\ f - 1 \in 0 .. NumFiles /\ f \in 0 .. NumFiles
         /\ EndIn(ls, f - 1) \in Nat /\ ls[f] \in Nat
         /\ EndIn(ls, f) = EndIn(ls, f - 1) + ls[f]
         /\ EndIn(ls, f) <= TotalSize
<1>1. /\ f \in Nat /\ f - 1 \in 0 .. NumFiles /\ f \in 0 .. NumFiles
      /\ NumFiles \in 0 .. NumFiles /\ f <= NumFiles
  BY FilesAssumption DEF File
<1>2. ls \in [File -> Nat] /\ EndIn(ls, NumFiles) = TotalSize
  BY DEF Layout
<1>3. EndIn(ls, f - 1) \in Nat /\ EndIn(ls, f) = EndIn(ls, f - 1) + ls[f]
  BY <1>1, <1>2, Ends
<1>4. EndIn(ls, f) <= EndIn(ls, NumFiles)
  BY <1>1, <1>2, EndsGrow
<1> QED  BY <1>1, <1>2, <1>3, <1>4

(* A place of the content is in one file only.                              *)
LEMMA OneFile ==
  ASSUME NEW ls, Layout(ls), NEW f \in File, NEW g \in File,
         NEW k \in Nat, NEW l \in Nat, 1 <= k, k <= ls[f], 1 <= l, l <= ls[g],
         EndIn(ls, f - 1) + k - 1 = EndIn(ls, g - 1) + l - 1
  PROVE  f = g /\ k = l
<1>1. ASSUME NEW x \in File, NEW y \in File, x < y
      PROVE  EndIn(ls, x - 1) + ls[x] <= EndIn(ls, y - 1)
  <2>1. x \in 0 .. NumFiles /\ y - 1 \in 0 .. NumFiles /\ x <= y - 1
    BY <1>1, FileSpan
  <2>2. EndIn(ls, x) <= EndIn(ls, y - 1)
    BY <2>1, EndsGrow DEF Layout
  <2> QED  BY <2>2, FileSpan
<1>2. /\ EndIn(ls, f - 1) \in Nat /\ ls[f] \in Nat
      /\ EndIn(ls, g - 1) \in Nat /\ ls[g] \in Nat /\ f \in Nat /\ g \in Nat
  BY FileSpan
<1>3. CASE f < g
  BY <1>1, <1>2, <1>3
<1>4. CASE g < f
  BY <1>1, <1>2, <1>4
<1>5. CASE f = g
  BY <1>2, <1>5
<1> QED  BY <1>2, <1>3, <1>4, <1>5

(* The files after a write of the n bytes of the content from place from on, *)
(* at offset at of file f.                                                  *)
Written(d, f, at, from, n) ==
  [d EXCEPT ![f] = Put(d[f], at, [i \in 1 .. n |-> from + i - 1])]

(* If that is where they belong, they are stored, and nothing else changes.  *)
LEMMA Stored ==
  ASSUME NEW ls, Layout(ls), NEW d \in [File -> Seq(Int)], NEW f \in File,
         NEW at \in Nat, NEW n \in Nat, at + n <= ls[f], TailsAreOld(ls, d),
         NEW from \in Int, from = EndIn(ls, f - 1) + at
  PROVE  /\ Written(d, f, at, from, n) \in [File -> Seq(Int)]
         /\ TailsAreOld(ls, Written(d, f, at, from, n))
         /\ \A b \in Byte : StoredAt(ls, Written(d, f, at, from, n), b) <=>
                              StoredAt(ls, d, b) \/ (from <= b /\ b < from + n)
<1> DEFINE c == d[f]
           v == [i \in 1 .. n |-> from + i - 1]
           w == Put(c, at, v)
           e == Written(d, f, at, from, n)
           start == EndIn(ls, f - 1)
<1> HIDE DEF c, w, start, v, e
<1>0. /\ start \in Nat /\ ls[f] \in Nat /\ c \in Seq(Int)
      /\ Len(c) \in Nat /\ DOMAIN c = 1 .. Len(c) /\ from = start + at
  BY FileSpan DEF c, start
<1>1. v \in [1 .. n -> Int] /\ \A i \in 1 .. n : v[i] = from + i - 1
  BY DEF v
<1>2. /\ w \in Seq(Int) /\ Len(w) \in Nat /\ DOMAIN w = 1 .. Len(w)
      /\ n > 0 => at + n <= Len(w)
      /\ Len(c) <= Len(w)
      /\ \A k \in 1 .. Len(w) :
           /\ k - at \in 1 .. n => w[k] = v[k - at]
           /\ k - at \notin 1 .. n =>
                IF k <= Len(c) THEN w[k] = c[k] ELSE w[k] = Hole /\ k <= at
  <2>1. c \in Seq(Int)
    BY <1>0
  <2>2. /\ w \in Seq(Int) /\ Len(w) \in Nat
        /\ n > 0 => at + n <= Len(w)
        /\ Len(c) <= Len(w)
    BY ONLY <1>1, <2>1, at \in Nat, n \in Nat, PutBytes DEF w
  <2>3. \A k \in 1 .. Len(w) :
          /\ k - at \in 1 .. n => w[k] = v[k - at]
          /\ k - at \notin 1 .. n =>
               IF k <= Len(c) THEN w[k] = c[k] ELSE w[k] = Hole /\ k <= at
    BY ONLY <1>1, <2>1, at \in Nat, n \in Nat, PutBytes DEF w
  <2> QED  BY <2>2, <2>3
<1>3. e[f] = w /\ \A g \in File : g # f => e[g] = d[g]
  BY DEF w, c, e, v, Written
<1>4. e \in [File -> Seq(Int)]
  BY <1>2 DEF w, c, e, v, Written
<1>5. \A k \in 1 .. Len(w) : k - at \in 1 .. n => w[k] = start + k - 1 /\ k <= ls[f]
  <2> SUFFICES ASSUME NEW k \in 1 .. Len(w), k - at \in 1 .. n
               PROVE  w[k] = start + k - 1 /\ k <= ls[f]
    OBVIOUS
  <2>1. w[k] = v[k - at]
    BY <1>2
  <2>2. v[k - at] = from + (k - at) - 1
    BY <1>1
  <2>3. k \in Int /\ k - at <= n
    BY <1>2
  <2>4. from + (k - at) - 1 = start + k - 1
    <3>1. start \in Nat /\ from = start + at
      BY ONLY <1>0
    <3> QED  BY ONLY at \in Nat, <2>3, <3>1
  <2>5. k <= ls[f]
    BY <1>0, <2>3
  <2> QED  BY <2>1, <2>2, <2>4, <2>5
<1>6. TailsAreOld(ls, e)
  <2> SUFFICES ASSUME NEW k \in DOMAIN w, k > ls[f]  PROVE w[k] = Old
    BY <1>3 DEF TailsAreOld
  <2>1. k - at \notin 1 .. n /\ ~(k <= at)
    BY <1>0, <1>2
  <2>2. k \in DOMAIN c /\ w[k] = c[k]
    BY <1>0, <1>2, <2>1
  <2> QED  BY <2>2 DEF TailsAreOld, c
<1>7. ASSUME NEW b \in Byte, StoredAt(ls, d, b)  PROVE StoredAt(ls, e, b)
  <2>0. PICK g \in File :
          \E k \in DOMAIN d[g] :
            EndIn(ls, g - 1) + k - 1 = b /\ k <= ls[g] /\ d[g][k] = b
    BY <1>7 DEF StoredAt
  <2>1. PICK k \in DOMAIN d[g] :
          EndIn(ls, g - 1) + k - 1 = b /\ k <= ls[g] /\ d[g][k] = b
    BY <2>0
  <2>2. CASE g # f
    BY <1>3, <2>1, <2>2 DEF StoredAt
  <2>3. CASE g = f
    <3>1. /\ k \in 1 .. Len(c) /\ k \in 1 .. Len(w) /\ c[k] = b
          /\ start + k - 1 = b /\ k <= ls[f]
      BY <1>0, <1>2, <2>1, <2>3 DEF c, start
    <3>2. w[k] = b
      <4>1. CASE k - at \in 1 .. n
        BY <1>5, <3>1, <4>1
      <4>2. CASE k - at \notin 1 .. n
        <5>1. k <= Len(c)
          BY <1>0, <3>1
        <5> QED  BY <1>2, <3>1, <4>2, <5>1
      <4> QED  BY <4>1, <4>2
    <3> QED  BY <1>2, <1>3, <3>1, <3>2 DEF StoredAt, start
  <2> QED  BY <2>2, <2>3
<1>8. ASSUME NEW b \in Byte, from <= b, b < from + n  PROVE StoredAt(ls, e, b)
  <2> DEFINE k == b - start + 1
  <2>1. b \in Int
    BY PiecesAssumption DEF Byte
  <2>2. k \in 1 .. Len(w) /\ k - at \in 1 .. n /\ start + k - 1 = b
    <3>1. start \in Nat /\ from = start + at /\ from <= b /\ b < from + n
      BY <1>0, <1>8
    <3>2. Len(w) \in Nat /\ (n > 0 => at + n <= Len(w))
      BY <1>2
    <3> QED  BY ONLY at \in Nat, n \in Nat, <2>1, <3>1, <3>2 DEF k
  <2>3. w[k] = b /\ k <= ls[f]
    BY <1>5, <2>2
  <2> HIDE DEF k
  <2> QED  BY <1>2, <1>3, <2>2, <2>3 DEF StoredAt, start
<1>9. ASSUME NEW b \in Byte, StoredAt(ls, e, b), ~(from <= b /\ b < from + n)
      PROVE  StoredAt(ls, d, b)
  <2>0. PICK g \in File :
          \E k \in DOMAIN e[g] :
            EndIn(ls, g - 1) + k - 1 = b /\ k <= ls[g] /\ e[g][k] = b
    BY <1>9 DEF StoredAt
  <2>1. PICK k \in DOMAIN e[g] :
          EndIn(ls, g - 1) + k - 1 = b /\ k <= ls[g] /\ e[g][k] = b
    BY <2>0
  <2>2. CASE g # f
    BY <1>3, <2>1, <2>2 DEF StoredAt
  <2>3. CASE g = f
    <3>1. k \in 1 .. Len(w) /\ w[k] = b /\ start + k - 1 = b /\ k <= ls[f]
      BY <1>2, <1>3, <2>1, <2>3 DEF start
    <3>2. k - at \notin 1 .. n
      <4>1. b \in Int
        BY PiecesAssumption DEF Byte
      <4>2. start \in Int /\ k \in Int /\ from = start + at /\ start + k - 1 = b
        <5>1. start \in Int /\ from = start + at
          BY ONLY <1>0
        <5>2. k \in Int /\ start + k - 1 = b
          BY <1>2, <3>1
        <5> QED  BY <5>1, <5>2
      <4>3. ~(from <= b /\ b < from + n)
        BY <1>9
      <4> QED  BY ONLY at \in Nat, n \in Nat, <4>1, <4>2, <4>3
    <3>3. b # Hole
      BY PiecesAssumption DEF Byte, Hole
    <3>4. IF k <= Len(c) THEN w[k] = c[k] ELSE w[k] = Hole /\ k <= at
      BY <1>2, <3>1, <3>2
    <3>5. k <= Len(c) /\ c[k] = b
      BY <3>1, <3>3, <3>4
    <3>6. k \in DOMAIN c
      <4>1. k \in Int /\ k >= 1 /\ DOMAIN c = 1 .. Len(c) /\ Len(c) \in Nat
        BY <1>0, <1>2, <3>1
      <4> QED  BY <3>5, <4>1
    <3> QED  BY <3>1, <3>5, <3>6 DEF StoredAt, start, c
  <2> QED  BY <2>2, <2>3
<1> QED  BY <1>4, <1>6, <1>7, <1>8, <1>9 DEF e

-----------------------------------------------------------------------------
(* The invariant.                                                           *)

Typing ==
  /\ Layout(lengths) /\ multi \in BOOLEAN
  /\ ~multi => lengths[1] = TotalSize
  /\ disk \in [File -> Seq(Int)] /\ TailsAreOld(lengths, disk)
  /\ saved \subseteq Piece
  /\ call \in [piece : Piece \cup {NoPiece}, file : 1 .. NumFiles + 1,
               start : Nat, data : Nat]
  /\ call.piece = NoPiece => call = NoCall

(* The first n bytes of piece p are stored.                                 *)
Kept(p, n) ==
  \A b \in Byte : p * PieceLength <= b /\ b < p * PieceLength + n
                    => StoredAt(lengths, disk, b)

SavedIsKept == \A p \in saved : Kept(p, PieceSize(p))

(* file_offset is where the file of the loop begins, and data_offset what    *)
(* the files before it hold of the piece: nothing, a part, or all of it.     *)
Offsets ==
  /\ call.start = StartOf(call.file)
  /\ call.data = IF call.start <= PieceStart THEN 0
                 ELSE IF call.start < PieceEnd THEN call.start - PieceStart
                 ELSE PieceSize(call.piece)

WriterInvariant ==
  /\ Typing
  /\ SavedIsKept
  /\ multi /\ call.piece \in Piece => Offsets /\ Kept(call.piece, call.data)

(* A step stores the first n bytes of piece p, and nothing else.            *)
Grown(p, n) ==
  \A b \in Byte :
    StoredAt(lengths', disk', b) <=>
      \/ StoredAt(lengths, disk, b)
      \/ p * PieceLength <= b /\ b < p * PieceLength + n

(* What no step changes, and no write breaks.                               *)
Laid ==
  /\ lengths' = lengths /\ multi' = multi
  /\ disk' \in [File -> Seq(Int)] /\ TailsAreOld(lengths, disk')

LEMMA ImageIsStored ==
  /\ Image = [b \in Byte |-> StoredAt(lengths, disk, b)]
  /\ Image' = [b \in Byte |-> StoredAt(lengths', disk', b)]
<1>1. Image = [b \in Byte |-> StoredAt(lengths, disk, b)]
  BY DEF Image, StoredAt, StartOf
<1>2. Image' = [b \in Byte |-> StoredAt(lengths', disk', b)]
  BY DEF Image, StoredAt, StartOf
<1> QED  BY <1>1, <1>2

(* What a growing image means for the flat file and for what is kept.       *)
LEMMA GrownImage ==
  ASSUME NEW p, NEW n, Grown(p, n), Laid
  PROVE  /\ Image' = [b \in Byte |-> Image[b] \/ b \in Flat!FirstBytes(p, n)]
         /\ Kept(p, n)'
         /\ \A q, m : Kept(q, m) => Kept(q, m)'
<1>1. Image' = [b \in Byte |-> Image[b] \/ b \in Flat!FirstBytes(p, n)]
  <2>1. \A b \in Byte : b \in Flat!FirstBytes(p, n) <=>
                          p * PieceLength <= b /\ b < p * PieceLength + n
    BY DEF Flat!FirstBytes, Flat!Byte, Byte
  <2>2. \A b \in Byte : Image[b] = StoredAt(lengths, disk, b)
    BY ImageIsStored
  <2>3. \A b \in Byte : StoredAt(lengths', disk', b)
                          = (Image[b] \/ b \in Flat!FirstBytes(p, n))
    BY <2>1, <2>2 DEF Grown, StoredAt
  <2> QED  BY <2>3, ImageIsStored
<1>2. Kept(p, n)'
  BY DEF Grown, Kept
<1>3. ASSUME NEW q, NEW m, Kept(q, m)  PROVE Kept(q, m)'
  BY <1>3 DEF Grown, Kept
<1> QED  BY <1>1, <1>2, <1>3

(* The image stays as it is.                                                *)
LEMMA SameImage ==
  ASSUME UNCHANGED <<lengths, disk>>
  PROVE  /\ Image' = Image
         /\ \A q, m : Kept(q, m) => Kept(q, m)'
<1>1. Image' = Image
  BY ImageIsStored
<1>2. ASSUME NEW q, NEW m, Kept(q, m)  PROVE Kept(q, m)'
  BY <1>2 DEF Kept
<1> QED  BY <1>1, <1>2

LEMMA InitWriter == Init => WriterInvariant /\ Flat!Init
<1> SUFFICES ASSUME Init  PROVE WriterInvariant /\ Flat!Init
  OBVIOUS
<1>1. Layout(lengths) /\ (~multi => lengths[1] = TotalSize)
  BY PiecesAssumption DEF Init, Layout
<1>2. \A l \in Nat : \A c \in Leftover(l) :
        /\ c \in Seq(Int) /\ \A k \in DOMAIN c : c[k] = Old
  <2> SUFFICES ASSUME NEW l \in Nat, NEW n \in {0, 1, l + 1}
               PROVE  [k \in 1 .. n |-> Old] \in Seq(Int)
    BY DEF Leftover
  <2>1. n \in Nat
    OBVIOUS
  <2> QED  BY <2>1 DEF Old
<1>3. \A f \in File : /\ disk[f] \in Seq(Int)
                      /\ \A k \in DOMAIN disk[f] : disk[f][k] = Old
  <2> SUFFICES ASSUME NEW f \in File
               PROVE  \E l \in Nat : disk[f] \in Leftover(l) \/ disk[f] = <<>>
    <3>1. <<>> \in Seq(Int) /\ DOMAIN <<>> = {}
      OBVIOUS
    <3> QED  BY <1>2, <3>1
  <2>1. disk[f] \in IF multi THEN Leftover(lengths[f]) ELSE {<<>>}
    BY DEF Init
  <2>2. lengths[f] \in Nat
    BY <1>1 DEF Layout
  <2> QED  BY <2>1, <2>2
<1>4. disk \in [File -> Seq(Int)]
  <2>1. disk = [f \in File |-> disk[f]]
    BY DEF Init
  <2> QED  BY <1>3, <2>1
<1>5. TailsAreOld(lengths, disk)
  BY <1>3 DEF TailsAreOld
<1>6. call = NoCall /\ saved = {} /\ multi \in BOOLEAN
  BY DEF Init
<1>7. call \in [piece : Piece \cup {NoPiece}, file : 1 .. NumFiles + 1,
                start : Nat, data : Nat] /\ call.piece = NoPiece
  BY <1>6, FilesAssumption DEF NoCall
<1>8. NoPiece \notin Piece
  BY PiecesAssumption DEF NoPiece, Piece
<1>9. WriterInvariant
  BY <1>1, <1>4, <1>5, <1>6, <1>7, <1>8 DEF WriterInvariant, Typing, SavedIsKept
<1>10. \A b \in Byte : ~StoredAt(lengths, disk, b)
  <2>1. \A b \in Byte : b # Old
    BY PiecesAssumption DEF Byte, Old
  <2> QED  BY <1>3, <2>1 DEF StoredAt
<1>11. Image = [b \in Byte |-> FALSE]
  <2>1. \A b \in Byte : StoredAt(lengths, disk, b) = FALSE
    BY <1>10 DEF StoredAt
  <2> QED  BY <2>1, ImageIsStored
<1> QED  BY <1>6, <1>7, <1>9, <1>11 DEF Flat!Init, Flat!Byte, Byte

-----------------------------------------------------------------------------
(* The steps: each keeps the invariant, and is a step of the flat file.      *)

LEMMA OpenKeeps ==
  ASSUME WriterInvariant, Open
  PROVE  WriterInvariant' /\ Flat!Open
<1>1. /\ call = NoCall /\ call' = NoCall /\ saved' = {} /\ lengths' = lengths
      /\ multi' = multi /\ call.piece = NoPiece /\ call'.piece = NoPiece
  BY DEF Open, NoCall
<1>2. NoPiece \notin Piece
  BY PiecesAssumption DEF NoPiece, Piece
<1>3. CASE multi
  <2>1. disk' = disk
    BY <1>3 DEF Open
  <2>2. Image' = Image
    BY <1>1, <2>1, SameImage
  <2>3. WriterInvariant'
    BY <1>1, <1>2, <2>1 DEF WriterInvariant, Typing, SavedIsKept
  <2> QED  BY <1>1, <2>2, <2>3 DEF Flat!Open
<1>4. CASE ~multi
  <2>1. disk' = [disk EXCEPT ![1] = <<>>] /\ disk \in [File -> Seq(Int)] /\ 1 \in File
    BY <1>4, FilesAssumption DEF Open, WriterInvariant, Typing, File
  <2>2. <<>> \in Seq(Int) /\ DOMAIN <<>> = {}
    OBVIOUS
  <2>3. disk' \in [File -> Seq(Int)]
    BY <2>1, <2>2
  <2>4. disk'[1] = <<>> /\ \A f \in File : f # 1 => disk'[f] = disk[f]
    BY <2>1
  <2>5. TailsAreOld(lengths, disk')
    BY <2>2, <2>4 DEF WriterInvariant, Typing, TailsAreOld
  <2>6. WriterInvariant'
    BY <1>1, <1>2, <2>3, <2>5 DEF WriterInvariant, Typing, SavedIsKept
  <2>7. ASSUME NEW f \in File, f # 1  PROVE lengths[f] = 0
    <3>1. Layout(lengths) /\ lengths[1] = TotalSize
      BY <1>4 DEF WriterInvariant, Typing
    <3>2. /\ EndIn(lengths, 1) = EndIn(lengths, 1 - 1) + TotalSize
          /\ EndIn(lengths, 1 - 1) \in Nat /\ 1 \in 0 .. NumFiles
      BY <2>1, <3>1, FileSpan
    <3>3. /\ f \in Nat /\ f - 1 \in 0 .. NumFiles
          /\ EndIn(lengths, f - 1) \in Nat /\ lengths[f] \in Nat
          /\ EndIn(lengths, f) = EndIn(lengths, f - 1) + lengths[f]
          /\ EndIn(lengths, f) <= TotalSize
      BY <3>1, FileSpan
    <3>4. 1 <= f - 1
      BY <2>7, <3>3 DEF File
    <3>5. EndIn(lengths, 1) <= EndIn(lengths, f - 1)
      BY <3>1, <3>2, <3>3, <3>4, EndsGrow DEF Layout
    <3> QED  BY <3>2, <3>3, <3>5, PiecesAssumption
  <2>8. \A b \in Byte : StoredAt(lengths', disk', b) = FALSE
    <3> SUFFICES ASSUME NEW f \in File, NEW k \in DOMAIN disk'[f], k <= lengths[f]
                 PROVE  FALSE
      BY <1>1 DEF StoredAt
    <3>1. f # 1
      BY <2>2, <2>4
    <3>2. lengths[f] = 0
      BY <2>7, <3>1
    <3>3. k \in 1 .. Len(disk'[f]) /\ Len(disk'[f]) \in Nat
      <4>1. disk'[f] \in Seq(Int)
        BY <2>3
      <4> QED  BY <4>1
    <3> QED  BY <3>2, <3>3
  <2>9. Image' = [b \in Byte |-> FALSE]
    BY <2>8, ImageIsStored
  <2> QED  BY <1>1, <2>6, <2>9 DEF Flat!Open, Flat!Byte, Byte
<1> QED  BY <1>3, <1>4

LEMMA BeginKeeps ==
  ASSUME WriterInvariant, NEW p \in Piece, Begin(p)
  PROVE  WriterInvariant' /\ Flat!Begin(p)
<1>1. /\ call = NoCall /\ call.piece = NoPiece /\ p \notin saved
      /\ call' = [piece |-> p, file |-> 1, start |-> 0, data |-> 0]
      /\ UNCHANGED <<multi, lengths, disk, saved>>
  BY DEF Begin, NoCall
<1>2. NoPiece \notin Piece
  BY PiecesAssumption DEF NoPiece, Piece
<1>3. Image' = Image /\ \A q, m : Kept(q, m) => Kept(q, m)'
  BY <1>1, SameImage
<1>4. Typing'
  <2>1. call' \in [piece : Piece \cup {NoPiece}, file : 1 .. NumFiles + 1,
                   start : Nat, data : Nat]
    BY <1>1, FilesAssumption
  <2>2. call'.piece # NoPiece
    BY <1>1, <1>2
  <2> QED  BY <1>1, <2>1, <2>2 DEF WriterInvariant, Typing
<1>5. SavedIsKept'
  BY <1>1, <1>3 DEF WriterInvariant, SavedIsKept
<1>6. /\ p * PieceLength \in Nat
      /\ call'.piece = p /\ call'.file = 1 /\ call'.start = 0 /\ call'.data = 0
  BY <1>1, PiecesFit
<1>7. Offsets'
  <2>1. EndIn(lengths, 1 - 1) = 0
    BY Ends DEF WriterInvariant, Typing, Layout
  <2>2. call'.start <= call'.piece * PieceLength
    BY <1>6
  <2> QED  BY <1>1, <1>6, <2>1, <2>2 DEF Offsets, StartOf, PieceStart
<1>8. Kept(call.piece, call.data)'
  <2>1. \A b \in Byte : ~(p * PieceLength <= b /\ b < p * PieceLength + 0)
    BY <1>6, PiecesAssumption DEF Byte
  <2> QED  BY <1>6, <2>1 DEF Kept
<1> QED
  BY <1>1, <1>3, <1>4, <1>5, <1>6, <1>7, <1>8 DEF WriterInvariant, Flat!Begin

(* A write ends the call: what it stored is kept, and only if that is all of  *)
(* the piece does the call say so.                                          *)
LEMMA EndKeeps ==
  ASSUME WriterInvariant, NEW p \in Piece, NEW n,
         Grown(p, n), Laid, call' = NoCall,
         saved' = saved \/ (saved' = saved \cup {p} /\ n = PieceSize(p))
  PROVE  WriterInvariant'
<1>1. /\ Kept(p, n)'
      /\ \A q, m : Kept(q, m) => Kept(q, m)'
  BY GrownImage
<1>2. ASSUME NEW q \in saved'  PROVE Kept(q, PieceSize(q))'
  <2>1. CASE q \in saved
    BY <1>1, <2>1 DEF WriterInvariant, SavedIsKept
  <2>2. CASE q \notin saved
    <3>1. q = p /\ n = PieceSize(q)
      BY <1>2, <2>2
    <3> QED  BY <1>1, <3>1
  <2> QED  BY <2>1, <2>2
<1>3. call'.piece = NoPiece /\ NoPiece \notin Piece
  BY PiecesAssumption DEF NoCall, NoPiece, Piece
<1>4. Typing'
  <2>1. NoCall \in [piece : Piece \cup {NoPiece}, file : 1 .. NumFiles + 1,
                    start : Nat, data : Nat]
    BY FilesAssumption DEF NoCall
  <2> QED  BY <2>1 DEF WriterInvariant, Typing, Laid
<1> QED  BY <1>2, <1>3, <1>4 DEF WriterInvariant, SavedIsKept

LEMMA WriteSingleKeeps ==
  ASSUME WriterInvariant, NEW n \in 0 .. PieceLength, WriteSingle(n)
  PROVE  WriterInvariant' /\ (Flat!Report \/ Flat!Store(n))
<1>0. PICK p \in Piece : p = call.piece
  BY DEF WriteSingle, WriterInvariant, Typing
<1>1. /\ ~multi /\ call.piece = p /\ n \in Nat
      /\ n <= PieceSize(p) /\ lengths' = lengths /\ multi' = multi
  BY <1>0, PiecesAssumption DEF WriteSingle
<1>2. /\ PieceSize(p) \in 1 .. PieceLength
      /\ p * PieceLength \in Nat
      /\ p * PieceLength + PieceSize(p) <= TotalSize
  BY PiecesFit
<1>3. /\ Layout(lengths) /\ disk \in [File -> Seq(Int)] /\ TailsAreOld(lengths, disk)
      /\ lengths[1] = TotalSize /\ 1 \in File /\ EndIn(lengths, 1 - 1) = 0
  <2>1. 1 \in File /\ 1 - 1 = 0
    BY FilesAssumption DEF File
  <2>2. EndIn(lengths, 0) = 0
    BY Ends DEF WriterInvariant, Typing, Layout
  <2> QED  BY <1>1, <2>1, <2>2 DEF WriterInvariant, Typing
<1> DEFINE from == p * PieceLength
           v == [i \in 1 .. n |-> from + i - 1]
<1>4. disk' = [disk EXCEPT ![1] = Put(disk[1], from, v)]
  <2>1. PieceStart = from /\ Data(0, n) = v
    BY <1>1, <1>2 DEF Data, PieceStart
  <2> HIDE DEF from, v
  <2> QED  BY <2>1 DEF WriteSingle
<1>5. /\ from \in Nat /\ from \in Int /\ from + n <= lengths[1]
      /\ from = EndIn(lengths, 1 - 1) + from /\ v = [i \in 1 .. n |-> from + i - 1]
  BY <1>1, <1>2, <1>3, PiecesAssumption
<1>6. /\ disk' \in [File -> Seq(Int)] /\ TailsAreOld(lengths, disk')
      /\ \A b \in Byte : StoredAt(lengths, disk', b) <=>
           StoredAt(lengths, disk, b) \/ (from <= b /\ b < from + n)
  <2>1. disk' = Written(disk, 1, from, from, n)
    BY <1>4 DEF Written
  <2> HIDE DEF from, v
  <2> QED  BY <1>1, <1>3, <1>5, <2>1, Stored
<1>7. Laid /\ Grown(p, n)
  BY <1>1, <1>6 DEF Laid, Grown
<1>8. /\ call' = NoCall
      /\ \/ n = PieceSize(p) /\ saved' = saved \cup {p}
         \/ saved' = saved
  BY <1>1 DEF WriteSingle, Succeed, Fail
<1>9. WriterInvariant'
  BY <1>1, <1>7, <1>8, EndKeeps
<1>10. Image' = [b \in Byte |-> Image[b] \/ b \in Flat!FirstBytes(p, n)]
  BY <1>7, GrownImage
<1>11. p \in Flat!Piece /\ PieceSize(p) = Flat!PieceSize(p) /\ call'.piece = NoPiece
  BY <1>8 DEF Flat!Piece, Piece, Flat!PieceSize, PieceSize, NoCall
<1> QED  BY <1>1, <1>8, <1>9, <1>10, <1>11 DEF Flat!Report, Flat!Store, Flat!Byte, Byte

(* The cut of a piece of z bytes from s on by a file of l bytes from b on.    *)
FirstOf(s, b) == IF s > b THEN s - b ELSE 0
LastOf(s, z, b, l) == IF s + z < b + l THEN s + z - b ELSE l
Before(s, z, b) == IF b <= s THEN 0 ELSE IF b < s + z THEN b - s ELSE z
Meets(s, z, b, l) ==
  s < b + l /\ s + z > b /\ LastOf(s, z, b, l) > FirstOf(s, b)

LEMMA CutOfPiece ==
  ASSUME NEW s \in Nat, NEW z \in Nat, z > 0, NEW b \in Nat, NEW l \in Nat
  PROVE  /\ Meets(s, z, b, l) =>
              /\ FirstOf(s, b) \in Nat /\ LastOf(s, z, b, l) \in Nat
              /\ LastOf(s, z, b, l) <= l
              /\ Before(s, z, b) \in Nat
              /\ s + Before(s, z, b) = b + FirstOf(s, b)
              /\ Before(s, z, b + l)
                   = Before(s, z, b) + (LastOf(s, z, b, l) - FirstOf(s, b))
         /\ ~Meets(s, z, b, l) /\ Before(s, z, b) < z =>
              Before(s, z, b + l) = Before(s, z, b)
         /\ Before(s, z, b) \in Nat /\ Before(s, z, b) <= z
  BY DEF FirstOf, LastOf, Before, Meets

(* Where the loop is.                                                       *)
LEMMA LoopState ==
  ASSUME WriterInvariant, InLoop, NEW p \in Piece, p = call.piece
  PROVE  LET s == p * PieceLength
             z == PieceSize(p)
             b == call.start
             f == call.file
         IN  /\ multi /\ f \in File /\ s \in Nat /\ z \in 1 .. PieceLength
             /\ s + z <= TotalSize
             /\ b \in Nat /\ lengths[f] \in Nat /\ Layout(lengths)
             /\ b = EndIn(lengths, f - 1)
             /\ FileEnd = b + lengths[f] /\ FileEnd = EndIn(lengths, f)
             /\ call.data = Before(s, z, b) /\ Kept(p, call.data)
             /\ PieceStart = s /\ PieceEnd = s + z
             /\ WriteStart = FirstOf(s, b)
             /\ WriteEnd = LastOf(s, z, b, lengths[f])
             /\ Overlaps <=> Meets(s, z, b, lengths[f])
             /\ call.data < z
<1>1. /\ multi /\ Layout(lengths) /\ Offsets /\ Kept(p, call.data)
      /\ call.start \in Nat /\ call.file \in 1 .. NumFiles + 1
      /\ call.file <= NumFiles /\ call.data < PieceSize(p)
  BY DEF InLoop, WriterInvariant, Typing
<1>2. call.file \in File
  BY <1>1, FilesAssumption DEF File
<1>3. /\ lengths[call.file] \in Nat
      /\ EndIn(lengths, call.file)
           = EndIn(lengths, call.file - 1) + lengths[call.file]
  BY <1>1, <1>2, FileSpan
<1>4. PieceStart = p * PieceLength /\ PieceEnd = p * PieceLength + PieceSize(p)
  BY DEF PieceStart, PieceEnd
<1>5. /\ PieceSize(p) \in 1 .. PieceLength
      /\ p * PieceLength \in Nat
      /\ p * PieceLength + PieceSize(p) <= TotalSize
  BY PiecesFit
<1>6. call.start = EndIn(lengths, call.file - 1)
  BY <1>1 DEF Offsets, StartOf
<1>7. call.data = Before(p * PieceLength, PieceSize(p), call.start)
  BY <1>1, <1>4 DEF Offsets, Before
<1>8. /\ WriteStart = FirstOf(p * PieceLength, call.start)
      /\ WriteEnd = LastOf(p * PieceLength, PieceSize(p), call.start, lengths[call.file])
      /\ FileEnd = call.start + lengths[call.file]
  <2>1. FileEnd = call.start + lengths[call.file]
    BY DEF FileEnd
  <2>2. WriteStart = FirstOf(p * PieceLength, call.start)
    BY <1>4 DEF WriteStart, FirstOf
  <2> DEFINE s == p * PieceLength
             z == PieceSize(p)
             l == lengths[call.file]
  <2>3. /\ PieceEnd = s + z /\ FileEnd = call.start + l
        /\ WriteEnd = IF PieceEnd < FileEnd THEN PieceEnd - call.start ELSE l
        /\ s \in Nat /\ z \in Nat /\ l \in Nat /\ call.start \in Nat
    BY <1>1, <1>3, <1>4, <1>5, <2>1 DEF WriteEnd
  <2> HIDE DEF s, z, l
  <2>4. WriteEnd = LastOf(s, z, call.start, l)
    BY <2>3 DEF LastOf
  <2> QED  BY <2>1, <2>2, <2>4 DEF s, z, l
<1>9. Overlaps <=> Meets(p * PieceLength, PieceSize(p), call.start, lengths[call.file])
  BY <1>4, <1>5, <1>8, <1>3, <1>1 DEF Overlaps, Meets
<1> QED  BY <1>1, <1>2, <1>3, <1>4, <1>5, <1>6, <1>7, <1>8, <1>9

(* The loop goes to the next file, data bytes of the piece behind it.        *)
LEMMA LoopGoesOn ==
  ASSUME WriterInvariant, InLoop, NEW p \in Piece, p = call.piece, Laid,
         NEW data \in Nat, Kept(p, data)', \A q, m : Kept(q, m) => Kept(q, m)',
         data = Before(p * PieceLength, PieceSize(p), FileEnd),
         call' = [call EXCEPT !.file = @ + 1, !.start = FileEnd, !.data = data],
         saved' = saved
  PROVE  WriterInvariant'
<1>1. /\ multi /\ call.file \in File /\ FileEnd \in Nat /\ Layout(lengths)
      /\ FileEnd = EndIn(lengths, call.file)
  BY LoopState
<1>2. call \in [piece : Piece \cup {NoPiece}, file : 1 .. NumFiles + 1,
                start : Nat, data : Nat]
  BY DEF WriterInvariant, Typing
<1>3. /\ call' \in [piece : Piece \cup {NoPiece}, file : 1 .. NumFiles + 1,
                    start : Nat, data : Nat]
      /\ call'.piece = p /\ call'.file = call.file + 1
      /\ call'.start = FileEnd /\ call'.data = data
  <2>1. call.file + 1 \in 1 .. NumFiles + 1 /\ call.file \in Nat
    BY <1>1, FilesAssumption DEF File
  <2> QED  BY <1>1, <1>2, <2>1
<1>4. p # NoPiece
  BY PiecesAssumption DEF NoPiece, Piece
<1>5. Typing'
  BY <1>3, <1>4 DEF WriterInvariant, Typing, Laid
<1>6. SavedIsKept'
  BY DEF WriterInvariant, SavedIsKept
<1>7. Offsets'
  <2>1. (call.file + 1) - 1 = call.file
    BY <1>1, FilesAssumption DEF File
  <2>2. call'.start = EndIn(lengths', call'.file - 1)
    BY <1>1, <1>3, <2>1 DEF Laid
  <2>3. call'.data = Before(call'.piece * PieceLength, PieceSize(call'.piece), call'.start)
    BY <1>3
  <2> QED  BY <2>2, <2>3 DEF Offsets, StartOf, PieceStart, PieceEnd, Before
<1>8. Kept(call.piece, call.data)'
  BY <1>3 DEF Kept
<1> QED  BY <1>5, <1>6, <1>7, <1>8 DEF WriterInvariant

LEMMA SkipFileKeeps ==
  ASSUME WriterInvariant, SkipFile
  PROVE  WriterInvariant' /\ UNCHANGED <<Image, saved, call.piece>>
<1>1. PICK p \in Piece : p = call.piece
  BY DEF SkipFile, InLoop, WriterInvariant, Typing
<1>2. PICK data : data = call.data
  OBVIOUS
<1>3. /\ InLoop /\ ~Overlaps /\ UNCHANGED <<multi, lengths, disk, saved>>
      /\ call' = [call EXCEPT !.file = @ + 1, !.start = FileEnd]
  BY DEF SkipFile
<1> DEFINE s == p * PieceLength
           z == PieceSize(p)
           l == lengths[call.file]
<1>4. /\ s \in Nat /\ z \in Nat /\ z > 0 /\ call.start \in Nat /\ l \in Nat
      /\ FileEnd = call.start + l
      /\ data = Before(s, z, call.start) /\ ~Meets(s, z, call.start, l)
      /\ data < z /\ Kept(p, call.data)
  BY <1>1, <1>2, <1>3, LoopState, PiecesAssumption
<1>5. Image' = Image /\ \A q, m : Kept(q, m) => Kept(q, m)'
  BY <1>3, SameImage
<1>6. Laid
  BY <1>3 DEF Laid, WriterInvariant, Typing
<1>7. data \in Nat /\ data = Before(s, z, FileEnd)
  <2> HIDE DEF s, z, l
  <2> QED  BY <1>4, CutOfPiece
<1>8. Kept(p, data)'
  <2>1. Kept(p, data)
    BY <1>2, <1>4 DEF Kept
  <2> QED  BY <1>5, <2>1
<1>9. /\ call' = [call EXCEPT !.file = @ + 1, !.start = FileEnd, !.data = data]
      /\ call'.piece = call.piece
  BY <1>2, <1>3 DEF WriterInvariant, Typing
<1>10. WriterInvariant'
  BY <1>1, <1>3, <1>5, <1>6, <1>7, <1>8, <1>9, LoopGoesOn
<1> QED  BY <1>3, <1>5, <1>9, <1>10

(* Both kinds of write in the loop: n bytes of what the file has of the piece *)
(* come behind the data bytes that are there.                               *)
LEMMA LoopWrite ==
  ASSUME WriterInvariant, InLoop, Overlaps, NEW p \in Piece, p = call.piece,
         NEW data, data = call.data,
         NEW n \in Nat, n <= WriteEnd - WriteStart,
         disk' = [disk EXCEPT ![call.file] = Put(@, WriteStart, Data(data, n))],
         UNCHANGED <<multi, lengths>>
  PROVE  /\ data \in Nat /\ data + n \in 0 .. PieceLength
         /\ data + (WriteEnd - WriteStart)
              = Before(p * PieceLength, PieceSize(p), FileEnd)
         /\ Laid /\ Grown(p, data + n)
<1> DEFINE s == p * PieceLength
           z == PieceSize(p)
           b == call.start
           l == lengths[call.file]
           at == FirstOf(s, b)
           from == s + data
<1>1. /\ s \in Nat /\ z \in Nat /\ z > 0 /\ z <= PieceLength
      /\ b \in Nat /\ l \in Nat
      /\ Layout(lengths) /\ call.file \in File /\ b = EndIn(lengths, call.file - 1)
      /\ FileEnd = b + l /\ data = Before(s, z, b) /\ Meets(s, z, b, l)
      /\ PieceStart = s /\ Kept(p, call.data)
      /\ WriteStart = at /\ WriteEnd = LastOf(s, z, b, l)
  BY LoopState, PiecesAssumption
<1>2. Kept(p, data)
  BY <1>1 DEF Kept
<1>3. disk \in [File -> Seq(Int)] /\ TailsAreOld(lengths, disk)
  BY DEF WriterInvariant, Typing
<1> HIDE DEF s, z, b, l, at
<1>4. /\ at \in Nat /\ LastOf(s, z, b, l) \in Nat /\ LastOf(s, z, b, l) <= l
      /\ data \in Nat /\ s + data = b + at
      /\ Before(s, z, b + l) = data + (LastOf(s, z, b, l) - at)
      /\ Before(s, z, b + l) <= z
  BY <1>1, CutOfPiece DEF at
<1>5. /\ at + n <= l /\ data + n <= z /\ from \in Int
      /\ from = EndIn(lengths, call.file - 1) + at
  BY <1>1, <1>4
<1>6. data + n \in 0 .. PieceLength
  BY <1>1, <1>4, <1>5, PiecesAssumption
<1>7. disk' = Written(disk, call.file, at, from, n)
  <2>1. Data(data, n) = [i \in 1 .. n |-> from + i - 1]
    BY <1>1 DEF Data
  <2> QED  BY <1>1, <2>1 DEF Written
<1>8. /\ disk' \in [File -> Seq(Int)] /\ TailsAreOld(lengths, disk')
      /\ \A x \in Byte : StoredAt(lengths, disk', x) <=>
           StoredAt(lengths, disk, x) \/ (from <= x /\ x < from + n)
  <2>1. at + n <= lengths[call.file]
    BY <1>5 DEF l
  <2>2. Layout(lengths) /\ call.file \in File
    BY <1>1
  <2>3. at \in Nat
    BY <1>4
  <2>4. from \in Int /\ from = EndIn(lengths, call.file - 1) + at
    BY <1>5
  <2> HIDE DEF from
  <2> QED  BY ONLY n \in Nat, <1>3, <1>7, <2>1, <2>2, <2>3, <2>4, Stored
<1>9. Grown(p, data + n)
  <2> SUFFICES ASSUME NEW x \in Byte
               PROVE  StoredAt(lengths, disk', x) <=>
                        StoredAt(lengths, disk, x) \/ (s <= x /\ x < s + (data + n))
    BY DEF Grown, s
  <2>1. x \in Int
    BY PiecesAssumption DEF Byte
  <2>2. s <= x /\ x < s + data => StoredAt(lengths, disk, x)
    BY <1>2 DEF Kept, s
  <2>3. (s <= x /\ x < s + (data + n)) <=>
          (s <= x /\ x < s + data) \/ (from <= x /\ x < from + n)
    BY <1>1, <1>4, <2>1
  <2> QED  BY <1>8, <2>2, <2>3
<1> QED  BY <1>1, <1>3, <1>4, <1>6, <1>8, <1>9 DEF Laid, s, z

LEMMA WriteFileKeeps ==
  ASSUME WriterInvariant, WriteFile
  PROVE  WriterInvariant' /\ \E n \in 0 .. PieceLength : Flat!Store(n)
<1>1. PICK p \in Piece : p = call.piece
  BY DEF WriteFile, InLoop, WriterInvariant, Typing
<1>2. PICK data : data = call.data
  OBVIOUS
<1>3. PICK n : n = WriteEnd - WriteStart
  OBVIOUS
<1>4. /\ InLoop /\ Overlaps /\ UNCHANGED <<multi, lengths, saved>>
      /\ disk' = [disk EXCEPT ![call.file] = Put(@, WriteStart, Data(data, n))]
      /\ call' = [call EXCEPT !.file = @ + 1, !.start = FileEnd, !.data = data + n]
  BY <1>2, <1>3 DEF WriteFile, Taken
<1>5. n \in Nat
  <2>1. /\ WriteStart \in Nat /\ WriteEnd \in Nat
    <3> DEFINE s == p * PieceLength
               z == PieceSize(p)
               l == lengths[call.file]
    <3>1. /\ s \in Nat /\ z \in Nat /\ z > 0 /\ call.start \in Nat /\ l \in Nat
          /\ Meets(s, z, call.start, l)
          /\ WriteStart = FirstOf(s, call.start)
          /\ WriteEnd = LastOf(s, z, call.start, l)
      BY <1>1, <1>4, LoopState, PiecesAssumption
    <3> HIDE DEF s, z, l
    <3> QED  BY <3>1, CutOfPiece
  <2> QED  BY <1>3, <1>4, <2>1 DEF Overlaps
<1>6. /\ data \in Nat /\ data + n \in 0 .. PieceLength
      /\ data + (WriteEnd - WriteStart)
           = Before(p * PieceLength, PieceSize(p), FileEnd)
      /\ Laid /\ Grown(p, data + n)
  <2>1. n <= WriteEnd - WriteStart
    BY <1>3, <1>5
  <2> QED  BY <1>1, <1>2, <1>4, <1>5, <2>1, LoopWrite
<1>7. /\ Image' = [x \in Byte |-> Image[x] \/ x \in Flat!FirstBytes(p, data + n)]
      /\ Kept(p, data + n)'
      /\ \A q, m : Kept(q, m) => Kept(q, m)'
  BY <1>6, GrownImage
<1>8. WriterInvariant'
  <2> DEFINE m == data + n
  <2>1. m \in Nat /\ Kept(p, m)' /\ m = Before(p * PieceLength, PieceSize(p), FileEnd)
        /\ call' = [call EXCEPT !.file = @ + 1, !.start = FileEnd, !.data = m]
    BY <1>3, <1>4, <1>5, <1>6, <1>7
  <2> HIDE DEF m
  <2> QED  BY <1>1, <1>4, <1>6, <1>7, <2>1, LoopGoesOn
<1>9. call'.piece = p
  BY <1>1, <1>4 DEF WriterInvariant, Typing
<1>10. Flat!Store(data + n)
  BY <1>1, <1>4, <1>7, <1>9 DEF Flat!Store, Flat!Byte, Byte, Flat!Piece, Piece
<1> QED  BY <1>6, <1>8, <1>10

LEMMA CutShortKeeps ==
  ASSUME WriterInvariant, NEW n \in 0 .. PieceLength, CutShort(n)
  PROVE  WriterInvariant' /\ \E m \in 0 .. PieceLength : Flat!Store(m)
<1>1. PICK p \in Piece : p = call.piece
  BY DEF CutShort, InLoop, WriterInvariant, Typing
<1>2. PICK data : data = call.data
  OBVIOUS
<1>3. /\ InLoop /\ Overlaps /\ UNCHANGED <<multi, lengths, saved>>
      /\ disk' = [disk EXCEPT ![call.file] = Put(@, WriteStart, Data(data, n))]
      /\ call' = NoCall /\ n \in Nat /\ n < WriteEnd - WriteStart
  BY <1>2, PiecesAssumption DEF CutShort, Fail
<1>4. n <= WriteEnd - WriteStart
  <2>1. WriteStart \in Nat /\ WriteEnd \in Nat
    <3> DEFINE s == p * PieceLength
               z == PieceSize(p)
               l == lengths[call.file]
    <3>1. /\ s \in Nat /\ z \in Nat /\ z > 0 /\ call.start \in Nat /\ l \in Nat
          /\ Meets(s, z, call.start, l)
          /\ WriteStart = FirstOf(s, call.start)
          /\ WriteEnd = LastOf(s, z, call.start, l)
      BY <1>1, <1>3, LoopState, PiecesAssumption
    <3> HIDE DEF s, z, l
    <3> QED  BY <3>1, CutOfPiece
  <2> QED  BY <1>3, <2>1
<1>5. data + n \in 0 .. PieceLength /\ Laid /\ Grown(p, data + n)
  BY <1>1, <1>2, <1>3, <1>4, LoopWrite
<1>6. WriterInvariant'
  BY <1>3, <1>5, EndKeeps
<1>7. Image' = [x \in Byte |-> Image[x] \/ x \in Flat!FirstBytes(p, data + n)]
  BY <1>5, GrownImage
<1>8. Flat!Store(data + n)
  <2>1. call'.piece = NoPiece
    BY <1>3 DEF NoCall
  <2> QED  BY <1>1, <1>3, <1>7, <2>1 DEF Flat!Store, Flat!Byte, Byte, Flat!Piece, Piece
<1> QED  BY <1>5, <1>6, <1>8

(* When the loop is over, no byte of the piece is missing.                  *)
LEMMA ReturnKeeps ==
  ASSUME WriterInvariant, Return
  PROVE  WriterInvariant' /\ Flat!Report
<1>1. PICK p \in Piece : p = call.piece
  BY DEF Return, WriterInvariant, Typing
<1>2. /\ multi /\ ~InLoop /\ call' = NoCall /\ saved' = saved \cup {p}
      /\ UNCHANGED <<multi, lengths, disk>>
  BY <1>1 DEF Return, Succeed
<1> DEFINE s == p * PieceLength
           z == PieceSize(p)
           b == call.start
<1>3. /\ s \in Nat /\ z \in Nat /\ z > 0 /\ s + z <= TotalSize
      /\ z = PieceSize(p)
  BY PiecesFit, PiecesAssumption
<1>4. /\ Offsets /\ Kept(p, call.data) /\ b \in Nat /\ Layout(lengths)
      /\ call.file \in 1 .. NumFiles + 1
  BY <1>1, <1>2 DEF WriterInvariant, Typing
<1>5. b = EndIn(lengths, call.file - 1) /\ call.data = Before(s, z, b)
  BY <1>1, <1>4 DEF Offsets, StartOf, PieceStart, PieceEnd, Before
<1> HIDE DEF s, z
<1>6. call.data = z
  <2>1. call.data \in Nat /\ call.data <= z
    BY <1>3, <1>4, <1>5, CutOfPiece
  <2>2. CASE call.file <= NumFiles
    <3>1. ~(call.data < z)
      BY <1>1, <1>2, <1>3, <2>2 DEF InLoop, Return
    <3> QED  BY <1>3, <2>1, <3>1
  <2>3. CASE ~(call.file <= NumFiles)
    <3>1. call.file - 1 = NumFiles
      BY <1>4, <2>3, FilesAssumption
    <3>2. b = TotalSize
      BY <1>4, <1>5, <3>1 DEF Layout
    <3> QED  BY <1>3, <1>4, <1>5, <3>2 DEF Before
  <2> QED  BY <2>2, <2>3
<1>7. Kept(p, PieceSize(p))
  BY <1>3, <1>4, <1>6 DEF Kept
<1>8. Grown(p, PieceSize(p))
  BY <1>2, <1>7 DEF Grown, Kept
<1>9. Laid
  BY <1>2 DEF Laid, WriterInvariant, Typing
<1>10. WriterInvariant'
  BY <1>2, <1>8, <1>9, EndKeeps
<1>11. Image' = [x \in Byte |-> Image[x] \/ x \in Flat!FirstBytes(p, PieceSize(p))]
  BY <1>8, <1>9, GrownImage
<1>12. p \in Flat!Piece /\ PieceSize(p) = Flat!PieceSize(p) /\ call'.piece = NoPiece
  BY <1>2 DEF Flat!Piece, Piece, Flat!PieceSize, PieceSize, NoCall
<1> QED  BY <1>1, <1>2, <1>10, <1>11, <1>12 DEF Flat!Report, Flat!Byte, Byte

LEMMA StepKeeps ==
  WriterInvariant /\ [Next]_vars => WriterInvariant' /\ [Flat!Next]_(Flat!vars)
<1> SUFFICES ASSUME WriterInvariant, [Next]_vars
             PROVE  WriterInvariant' /\ (Flat!Next \/ UNCHANGED Flat!vars)
  OBVIOUS
<1>1. CASE Open
  BY <1>1, OpenKeeps DEF Flat!Next
<1>2. CASE SkipFile
  BY <1>2, SkipFileKeeps DEF Flat!vars
<1>3. CASE WriteFile
  BY <1>3, WriteFileKeeps DEF Flat!Next
<1>4. CASE Return
  BY <1>4, ReturnKeeps DEF Flat!Next
<1>5. ASSUME NEW p \in Piece, Begin(p)
      PROVE  WriterInvariant' /\ Flat!Next
  <2>1. p \in Flat!Piece
    BY DEF Flat!Piece, Piece
  <2> QED  BY <1>5, <2>1, BeginKeeps DEF Flat!Next
<1>6. ASSUME NEW n \in 0 .. PieceLength, WriteSingle(n)
      PROVE  WriterInvariant' /\ Flat!Next
  BY <1>6, WriteSingleKeeps DEF Flat!Next
<1>7. ASSUME NEW n \in 0 .. PieceLength, CutShort(n)
      PROVE  WriterInvariant' /\ Flat!Next
  BY <1>7, CutShortKeeps DEF Flat!Next
<1>8. CASE UNCHANGED vars
  <2>1. UNCHANGED <<multi, lengths, disk, call, saved>>
    BY <1>8 DEF vars
  <2>2. Image' = Image /\ \A q, m : Kept(q, m) => Kept(q, m)'
    BY <2>1, SameImage
  <2>3. Typing'
    BY <2>1 DEF WriterInvariant, Typing
  <2>4. SavedIsKept'
    BY <2>1, <2>2 DEF WriterInvariant, SavedIsKept
  <2>5. (multi /\ call.piece \in Piece => Offsets /\ Kept(call.piece, call.data))'
    BY <2>1 DEF WriterInvariant, Offsets, Kept, StartOf, PieceStart, PieceEnd
  <2> QED  BY <2>1, <2>2, <2>3, <2>4, <2>5 DEF WriterInvariant, Flat!vars
<1> QED
  BY <1>1, <1>2, <1>3, <1>4, <1>5, <1>6, <1>7, <1>8 DEF Next

LEMMA WriterInvariantHolds == Spec => []WriterInvariant
<1>1. Init => WriterInvariant
  BY InitWriter
<1>2. WriterInvariant /\ [Next]_vars => WriterInvariant'
  BY StepKeeps
<1> QED  BY <1>1, <1>2, PTL DEF Spec

-----------------------------------------------------------------------------
(* Once all calls of file_writer_write_piece have returned 0, the files hold *)
(* the content, however many there are and wherever they cut the pieces.     *)
THEOREM FilesAreComplete == Spec => []FilesComplete
<1>1. WriterInvariant => FilesComplete
  <2> SUFFICES ASSUME WriterInvariant, saved = Piece, NEW f \in File
               PROVE  /\ Len(disk[f]) >= lengths[f]
                      /\ \A k \in DOMAIN disk[f] :
                           disk[f][k] = IF k <= lengths[f]
                                        THEN EndIn(lengths, f - 1) + k - 1 ELSE Old
    BY DEF FilesComplete, StartOf
  <2> DEFINE start == EndIn(lengths, f - 1)
  <2>1. /\ Layout(lengths) /\ TailsAreOld(lengths, disk)
        /\ disk \in [File -> Seq(Int)]
    BY DEF WriterInvariant, Typing
  <2>2. /\ start \in Nat /\ lengths[f] \in Nat /\ start + lengths[f] <= TotalSize
        /\ TotalSize \in Nat
    BY <2>1, FileSpan, PiecesAssumption
  <2>3. \A g \in File : /\ Len(disk[g]) \in Nat /\ DOMAIN disk[g] = 1 .. Len(disk[g])
    <3> SUFFICES ASSUME NEW g \in File
                 PROVE  Len(disk[g]) \in Nat /\ DOMAIN disk[g] = 1 .. Len(disk[g])
      OBVIOUS
    <3>1. disk[g] \in Seq(Int)
      BY <2>1
    <3> QED  BY <3>1
  <2>4. ASSUME NEW k \in 1 .. lengths[f]
        PROVE  k \in DOMAIN disk[f] /\ disk[f][k] = start + k - 1
    <3> DEFINE b == start + k - 1
    <3>1. b \in Byte /\ k \in Nat /\ 1 <= k /\ k <= lengths[f]
      BY <2>2 DEF Byte
    <3>2. PICK p \in Piece : p * PieceLength <= b /\ b < p * PieceLength + PieceSize(p)
      BY <3>1, PiecesCover
    <3>3. StoredAt(lengths, disk, b)
      BY <3>1, <3>2 DEF WriterInvariant, SavedIsKept, Kept
    <3>4. PICK g \in File :
            \E l \in DOMAIN disk[g] :
              EndIn(lengths, g - 1) + l - 1 = b /\ l <= lengths[g] /\ disk[g][l] = b
      BY <3>3 DEF StoredAt
    <3>5. PICK l \in DOMAIN disk[g] :
            EndIn(lengths, g - 1) + l - 1 = b /\ l <= lengths[g] /\ disk[g][l] = b
      BY <3>4
    <3>6. l \in Nat /\ 1 <= l
      BY <2>3
    <3>7. EndIn(lengths, f - 1) + k - 1 = EndIn(lengths, g - 1) + l - 1
      BY <3>5
    <3>8. f = g /\ k = l
      BY ONLY f \in File, g \in File, <2>1, <3>1, <3>5, <3>6, <3>7, OneFile
    <3> QED  BY <3>5, <3>8
  <2> HIDE DEF start
  <2>5. Len(disk[f]) >= lengths[f]
    <3>1. CASE lengths[f] = 0
      BY <2>3, <3>1
    <3>2. CASE lengths[f] # 0
      <4>1. lengths[f] \in 1 .. lengths[f]
        BY <2>2, <3>2
      <4>2. lengths[f] \in 1 .. Len(disk[f])
        BY <2>3, <2>4, <4>1
      <4> QED  BY <2>2, <2>3, <4>2
    <3> QED  BY <3>1, <3>2
  <2>6. ASSUME NEW k \in DOMAIN disk[f]
        PROVE  disk[f][k] = IF k <= lengths[f] THEN start + k - 1 ELSE Old
    <3>1. k \in Int /\ 1 <= k
      BY <2>3
    <3>2. CASE k <= lengths[f]
      <4>1. k \in 1 .. lengths[f]
        BY <2>2, <3>1, <3>2
      <4> QED  BY <2>4, <3>2, <4>1
    <3>3. CASE ~(k <= lengths[f])
      <4>1. k > lengths[f]
        BY <2>2, <3>1, <3>3
      <4> QED  BY <2>1, <3>3, <4>1 DEF TailsAreOld
    <3> QED  BY <3>2, <3>3
  <2> QED  BY <2>5, <2>6 DEF start
<1> QED  BY <1>1, WriterInvariantHolds, PTL

(* To its caller the writer is one flat file: wherever a call fails, what it *)
(* stored is the beginning of its piece, nothing else on disk changes, and   *)
(* it returns 0 only if all of the piece is there.                          *)
THEOREM WriterImplementsFlatFile == Spec => ImplementsFlatFile
<1>1. Init => Flat!Init
  BY InitWriter
<1>2. WriterInvariant /\ [Next]_vars => [Flat!Next]_(Flat!vars)
  BY StepKeeps
<1> QED
  BY <1>1, <1>2, WriterInvariantHolds, PTL DEF Spec, ImplementsFlatFile, Flat!Spec
-----------------------------------------------------------------------------
(* Web seeds.                                                               *)

(* The n bytes of the content from place from on; the first m of piece p.    *)
Stretch(from, n) == [k \in 1 .. n |-> from + k - 1]
Part(p, m) == Stretch(p * PieceLength, m)

LEMMA StretchBytes ==
  ASSUME NEW from \in Nat, NEW n \in Nat
  PROVE  /\ Stretch(from, n) \in Seq(Int) /\ Len(Stretch(from, n)) = n
         /\ \A k \in 1 .. n : Stretch(from, n)[k] = from + k - 1
         /\ Stretch(from, n) # Failed
<1>1. Stretch(from, n) \in [1 .. n -> Int] /\ \A k \in 1 .. n : Stretch(from, n)[k] >= 0
  BY DEF Stretch
<1>2. Stretch(from, n) \in Seq(Int) /\ Len(Stretch(from, n)) = n
  BY <1>1
<1>3. Stretch(from, n) # Failed
  <2> SUFFICES ASSUME Stretch(from, n) = <<Hole>>  PROVE FALSE
    BY DEF Failed
  <2>1. Len(<<Hole>>) = 1 /\ <<Hole>>[1] = Hole
    OBVIOUS
  <2>2. 1 \in 1 .. n
    BY <1>2, <2>1
  <2>3. Stretch(from, n)[1] >= 0
    BY <1>1, <2>2
  <2> QED  BY <2>1, <2>3 DEF Hole
<1> QED  BY <1>1, <1>2, <1>3 DEF Stretch

LEMMA PartBytes ==
  ASSUME NEW p \in Piece, NEW m \in Nat
  PROVE  /\ Part(p, m) \in Seq(Int) /\ Len(Part(p, m)) = m
         /\ Part(p, m) # Failed
<1>1. p * PieceLength \in Nat
  BY PiecesFit
<1> QED  BY <1>1, StretchBytes DEF Part

LEMMA BytesJoined ==
  ASSUME NEW x \in Seq(Int), NEW y \in Seq(Int)
  PROVE  /\ x \o y \in Seq(Int) /\ Len(x \o y) = Len(x) + Len(y)
         /\ \A k \in 1 .. Len(x) + Len(y) :
              (x \o y)[k] = IF k <= Len(x) THEN x[k] ELSE y[k - Len(x)]
OBVIOUS

(* One stretch and the next are one.                                        *)
LEMMA StretchesJoin ==
  ASSUME NEW from \in Nat, NEW n \in Nat, NEW m \in Nat
  PROVE  Stretch(from, n) \o Stretch(from + n, m) = Stretch(from, n + m)
<1> DEFINE x == Stretch(from, n)
           y == Stretch(from + n, m)
           z == Stretch(from, n + m)
           c == x \o y
<1>1. x \in Seq(Int) /\ Len(x) = n /\ \A k \in 1 .. n : x[k] = from + k - 1
  BY StretchBytes
<1>2. y \in Seq(Int) /\ Len(y) = m /\ \A k \in 1 .. m : y[k] = from + n + k - 1
  <2>1. from + n \in Nat
    OBVIOUS
  <2> QED  BY <2>1, StretchBytes
<1>3. z \in Seq(Int) /\ Len(z) = n + m /\ \A k \in 1 .. n + m : z[k] = from + k - 1
  <2>1. n + m \in Nat
    OBVIOUS
  <2> QED  BY <2>1, StretchBytes
<1> HIDE DEF x, y, z
<1>4. /\ c \in Seq(Int) /\ Len(c) = n + m
      /\ \A k \in 1 .. n + m : c[k] = IF k <= n THEN x[k] ELSE y[k - n]
  <2>1. x \in Seq(Int) /\ y \in Seq(Int)
    BY <1>1, <1>2
  <2> QED  BY <1>1, <1>2, <2>1, BytesJoined
<1> HIDE DEF c
<1>5. ASSUME NEW k \in 1 .. n + m  PROVE c[k] = z[k]
  <2>1. CASE k <= n
    BY <1>1, <1>3, <1>4, <2>1
  <2>2. CASE ~(k <= n)
    <3>1. k - n \in 1 .. m
      BY <2>2
    <3>2. c[k] = from + n + (k - n) - 1
      BY <1>2, <1>4, <2>2, <3>1
    <3> QED  BY <1>3, <3>2
  <2> QED  BY <2>1, <2>2
<1>6. c = z
  BY <1>3, <1>4, <1>5
<1> QED  BY <1>6 DEF c, x, y, z

(* A range that lies in a file and is not refused brings its bytes.          *)
LEMMA RangeBytes ==
  ASSUME Layout(lengths), NEW f \in File, NEW server,
         NEW from \in Nat, NEW n \in Nat, from + n <= lengths[f]
  PROVE  /\ FetchRange(server, f, from, n) \in
              {Failed, Stretch(EndIn(lengths, f - 1) + from, n)}
         /\ server # "whole" /\ n # 0 => FetchRange(server, f, from, n) # Failed
<1> DEFINE start == EndIn(lengths, f - 1)
           l == lengths[f]
           file == Stretch(start, l)
           part == Stretch(start + from, n)
           sub == SubSeq(file, from + 1, from + n)
<1>1. start \in Nat /\ l \in Nat /\ from + n <= l
  BY FileSpan
<1>2. file = OnServer(f)
  BY DEF OnServer, StartOf, Stretch
<1> HIDE DEF start, l
<1>3. file \in Seq(Int) /\ Len(file) = l /\ \A k \in 1 .. l : file[k] = start + k - 1
  BY <1>1, StretchBytes
<1>4. /\ part \in Seq(Int) /\ Len(part) = n /\ part # Failed
      /\ \A k \in 1 .. n : part[k] = start + from + k - 1
  <2>1. start + from \in Nat
    BY <1>1
  <2> QED  BY <2>1, StretchBytes
<1> HIDE DEF file, part
<1>5. sub = part
  <2>1. /\ sub \in Seq(Int) /\ Len(sub) = n
        /\ \A k \in 1 .. n : sub[k] = file[from + k]
    BY <1>1, <1>3
  <2> HIDE DEF sub
  <2>2. ASSUME NEW k \in 1 .. n  PROVE sub[k] = part[k]
    <3>1. from + k \in 1 .. l
      BY <1>1
    <3>2. file[from + k] = start + (from + k) - 1
      BY <1>3, <3>1
    <3> QED  BY <1>1, <1>4, <2>1, <3>2
  <2> QED  BY <1>4, <2>1, <2>2
<1>6. CASE n = 0 \/ Refuses(server, from)
  BY <1>6 DEF FetchRange, Refuses
<1>7. CASE ~(n = 0 \/ Refuses(server, from))
  <2>1. FetchRange(server, f, from, n)
          = BytesFrom(file, IF server = "whole" THEN 0 ELSE from, n)
    BY <1>2, <1>7 DEF FetchRange
  <2>2. (IF server = "whole" THEN 0 ELSE from) = from
    BY <1>7 DEF Refuses
  <2>3. FetchRange(server, f, from, n) = part
    BY <1>5, <2>1, <2>2 DEF BytesFrom
  <2> QED  BY <1>4, <2>3 DEF part, start
<1> QED  BY <1>6, <1>7

(* What the loop over the files knows after file f: it has failed, has the    *)
(* piece, or has of it what is in the files so far.                         *)
FetchedTo(server, p, f, r) ==
  /\ r = [start |-> r.start, out |-> r.out]
  /\ \/ r.out = Failed /\ (server # "whole" => HoldsEmptyFile(p))
     \/ r.out = Part(p, PieceSize(p))
     \/ /\ r.start = EndIn(lengths, f)
        /\ r.out = Part(p, Before(p * PieceLength, PieceSize(p), EndIn(lengths, f)))

LEMMA WhereItEnds ==
  ASSUME NEW p \in Piece, NEW b \in Nat, NEW l \in Nat
  PROVE  ToIn(p, b, b + l) = LastOf(p * PieceLength, PieceSize(p), b, l)
<1>1. p * PieceLength \in Nat /\ PieceSize(p) \in Nat
  BY PiecesFit, PiecesAssumption
<1> QED  BY <1>1 DEF ToIn, LastOf

LEMMA NextFile ==
  ASSUME multi, Layout(lengths), NEW p \in Piece, NEW server, NEW f \in File, NEW r,
         FetchedTo(server, p, f - 1, r)
  PROVE  FetchedTo(server, p, f, AfterFile(server, p, r, f))
<1> DEFINE s == p * PieceLength
           z == PieceSize(p)
           b == EndIn(lengths, f - 1)
           l == lengths[f]
           from == FirstOf(s, b)
           to == LastOf(s, z, b, l)
           data == Before(s, z, b)
           part == FetchRange(server, f, from, to - from)
           a == AfterFile(server, p, r, f)
<1>1. /\ s \in Nat /\ z \in Nat /\ z > 0 /\ s + z <= TotalSize
      /\ b \in Nat /\ l \in Nat /\ EndIn(lengths, f) = b + l
  BY PiecesFit, FileSpan, PiecesAssumption
<1>2. /\ data \in Nat /\ data <= z
      /\ Meets(s, z, b, l) => /\ from \in Nat /\ to \in Nat /\ to <= l
                              /\ s + data = b + from
                              /\ Before(s, z, b + l) = data + (to - from)
      /\ ~Meets(s, z, b, l) /\ data < z => Before(s, z, b + l) = data
  <2> HIDE DEF s, z, b, l
  <2> QED  BY <1>1, CutOfPiece
<1>3. Len(Part(p, z)) = z /\ Part(p, z) # Failed
      /\ Len(Part(p, data)) = data /\ Part(p, data) # Failed
  BY <1>1, <1>2, PartBytes
<1>4. r = [start |-> r.start, out |-> r.out]
  BY DEF FetchedTo
<1>5. CASE r.out = Failed \/ r.out = Part(p, z)
  <2>1. r.out = Failed \/ Len(r.out) >= z
    BY <1>1, <1>3, <1>5
  <2>2. a = r
    BY <2>1 DEF AfterFile
  <2>3. r.out = Failed => (server # "whole" => HoldsEmptyFile(p))
    BY <1>3 DEF FetchedTo
  <2> QED  BY <1>5, <2>2, <2>3 DEF FetchedTo
<1>6. CASE r.out # Failed /\ r.out # Part(p, z)
  <2>1. r.start = b /\ r.out = Part(p, data)
    BY <1>6 DEF FetchedTo
  <2>2. data < z
    BY <1>1, <1>2, <1>6, <2>1
  <2>3. ~(r.out = Failed \/ Len(r.out) >= z)
    BY <1>1, <1>2, <1>3, <1>6, <2>1, <2>2
  <2>4. FromIn(p, b) = from
    BY DEF FromIn, FirstOf
  <2>5. ToIn(p, b, b + l) = to
    BY <1>1, WhereItEnds
  <2>6. a = IF s < b + l /\ s + z > b
            THEN [start |-> b + l,
                  out |-> IF part = Failed THEN Failed ELSE r.out \o part]
            ELSE [r EXCEPT !.start = b + l]
    BY <2>1, <2>3, <2>4, <2>5 DEF AfterFile
  <2> HIDE DEF s, z, b, l, from, to, data, part, a
  <2>7. CASE s < b + l /\ s + z > b
    <3>1. a = [start |-> b + l,
               out |-> IF part = Failed THEN Failed ELSE r.out \o part]
      BY <2>6, <2>7
    <3>2. CASE Meets(s, z, b, l)
      <4>1. to - from \in Nat /\ to - from # 0 /\ from + (to - from) <= l
        BY <1>1, <1>2, <3>2 DEF Meets, from, to
      <4>2. /\ part \in {Failed, Stretch(b + from, to - from)}
            /\ server # "whole" => part # Failed
        <5>1. from \in Nat /\ from + (to - from) <= lengths[f]
          BY <1>2, <3>2, <4>1 DEF l
        <5> QED  BY <4>1, <5>1, RangeBytes DEF part, b
      <4>3. CASE part = Failed
        BY <3>1, <4>2, <4>3 DEF FetchedTo, a
      <4>4. CASE part # Failed
        <5>1. part = Stretch(s + data, to - from)
          BY <1>2, <3>2, <4>2, <4>4
        <5>2. Part(p, data) \o part = Part(p, data + (to - from))
          BY <1>1, <1>2, <4>1, <5>1, StretchesJoin DEF Part, s
        <5>3. a.start = b + l /\ a.out = Part(p, Before(s, z, b + l))
          BY <1>2, <2>1, <3>1, <3>2, <4>4, <5>2
        <5>4. a = [start |-> a.start, out |-> a.out]
          BY <3>1
        <5> QED  BY <1>1, <5>3, <5>4 DEF FetchedTo, a, s, z
      <4> QED  BY <4>3, <4>4
    <3>3. CASE ~Meets(s, z, b, l)
      <4>1. l = 0 /\ s < b /\ b < s + z /\ to - from = 0
        BY <1>1, <2>7, <3>3 DEF Meets, from, to, FirstOf, LastOf
      <4>2. part = Failed
        BY <4>1 DEF part, FetchRange
      <4>3. HoldsEmptyFile(p)
        <5>1. /\ lengths[f] = 0 /\ p * PieceLength < StartOf(f)
              /\ StartOf(f) < p * PieceLength + PieceSize(p)
          BY <4>1 DEF StartOf, s, z, b, l
        <5> QED  BY <5>1 DEF HoldsEmptyFile
      <4> QED  BY <3>1, <4>2, <4>3 DEF FetchedTo, a
    <3> QED  BY <3>2, <3>3
  <2>8. CASE ~(s < b + l /\ s + z > b)
    <3>1. a = [start |-> b + l, out |-> r.out]
      BY <1>4, <2>6, <2>8
    <3>2. ~Meets(s, z, b, l)
      BY <2>8 DEF Meets
    <3>3. Before(s, z, b + l) = data
      BY <1>2, <2>2, <3>2
    <3> QED  BY <1>1, <2>1, <3>1, <3>3 DEF FetchedTo, a, s, z
  <2> QED  BY <2>7, <2>8
<1> QED  BY <1>5, <1>6

(* The two recursions of a fetch have a solution.                           *)
LEMMA FilesExist ==
  ASSUME NEW server, NEW p
  PROVE  \E a : a = [f \in 0 .. NumFiles |->
                       IF f = 0 THEN [start |-> 0, out |-> <<>>]
                                ELSE AfterFile(server, p, a[f - 1], f)]
<1> DEFINE none == [start |-> 0, out |-> <<>>]
           Is(a, l) == a = [f \in 0 .. l |->
                              IF f = 0 THEN none ELSE AfterFile(server, p, a[f - 1], f)]
           Good == {l \in 0 .. NumFiles : \E a : Is(a, l)}
<1>0. NumFiles \in Nat
  BY FilesAssumption
<1>1. 0 \in Good
  <2> DEFINE a == [f \in 0 .. 0 |-> none]
  <2>1. \A f \in 0 .. 0 : f = 0
    OBVIOUS
  <2>2. Is(a, 0)
    BY <2>1
  <2> HIDE DEF Is, a
  <2> QED  BY <1>0, <2>2
<1>2. ASSUME NEW l \in 1 .. NumFiles, l - 1 \in Good  PROVE l \in Good
  <2>1. PICK a : Is(a, l - 1)
    BY <1>2
  <2> HIDE DEF none
  <2> DEFINE g == [f \in 0 .. l |-> IF f = l THEN AfterFile(server, p, a[l - 1], l)
                                             ELSE a[f]]
  <2>2. ASSUME NEW f \in 0 .. l
        PROVE  g[f] = IF f = 0 THEN none ELSE AfterFile(server, p, g[f - 1], f)
    <3>1. CASE f = l
      <4>1. f # 0 /\ l - 1 \in 0 .. l /\ l - 1 # l
        BY <1>0, <3>1
      <4>2. g[f - 1] = a[l - 1] /\ g[f] = AfterFile(server, p, a[l - 1], l)
        BY <3>1, <4>1
      <4> HIDE DEF g
      <4> QED  BY <3>1, <4>1, <4>2
    <3>2. CASE f # l
      <4>1. f \in 0 .. l - 1 /\ g[f] = a[f]
        BY <1>0, <3>2
      <4>2. a[f] = IF f = 0 THEN none ELSE AfterFile(server, p, a[f - 1], f)
        BY <2>1, <4>1
      <4>3. f # 0 => f - 1 \in 0 .. l /\ f - 1 # l
        BY <1>0, <4>1
      <4>4. f # 0 => g[f - 1] = a[f - 1]
        BY <4>3
      <4> HIDE DEF g, Is
      <4> QED  BY <4>1, <4>2, <4>4
    <3> QED  BY <3>1, <3>2
  <2>3. g = [f \in 0 .. l |-> g[f]]
    OBVIOUS
  <2> HIDE DEF g
  <2>4. Is(g, l)
    BY <2>2, <2>3
  <2> HIDE DEF Is
  <2> QED  BY <1>0, <2>4
<1> HIDE DEF Good
<1>3. NumFiles \in Good
  BY <1>0, <1>1, <1>2, UpTo
<1> QED  BY <1>3 DEF Good

Batches(server, first, count, o) ==
  o = [n \in 0 .. count |->
         IF n = 0 THEN <<>> ELSE AfterPiece(server, o[n - 1], first + n - 1)]

LEMMA BatchesExist ==
  ASSUME NEW server, NEW first, NEW count \in Nat
  PROVE  \E o : Batches(server, first, count, o)
<1> DEFINE Is(o, l) == o = [n \in 0 .. l |->
                              IF n = 0 THEN <<>>
                              ELSE AfterPiece(server, o[n - 1], first + n - 1)]
           Good == {l \in 0 .. count : \E o : Is(o, l)}
<1>1. 0 \in Good
  <2> DEFINE o == [n \in 0 .. 0 |-> <<>>]
  <2>1. \A n \in 0 .. 0 : n = 0
    OBVIOUS
  <2>2. Is(o, 0)
    BY <2>1
  <2> HIDE DEF Is, o
  <2> QED  BY <2>2
<1>2. ASSUME NEW l \in 1 .. count, l - 1 \in Good  PROVE l \in Good
  <2>1. PICK o : Is(o, l - 1)
    BY <1>2
  <2> DEFINE g == [n \in 0 .. l |->
                     IF n = l THEN AfterPiece(server, o[l - 1], first + l - 1) ELSE o[n]]
  <2>2. ASSUME NEW n \in 0 .. l
        PROVE  g[n] = IF n = 0 THEN <<>> ELSE AfterPiece(server, g[n - 1], first + n - 1)
    <3>1. CASE n = l
      <4>1. n # 0 /\ l - 1 \in 0 .. l /\ l - 1 # l
        BY <3>1
      <4>2. g[n - 1] = o[l - 1] /\ g[n] = AfterPiece(server, o[l - 1], first + l - 1)
        BY <3>1, <4>1
      <4> HIDE DEF g
      <4> QED  BY <3>1, <4>1, <4>2
    <3>2. CASE n # l
      <4>1. n \in 0 .. l - 1 /\ g[n] = o[n]
        BY <3>2
      <4>2. o[n] = IF n = 0 THEN <<>> ELSE AfterPiece(server, o[n - 1], first + n - 1)
        BY <2>1, <4>1
      <4>3. n # 0 => n - 1 \in 0 .. l /\ n - 1 # l
        BY <4>1
      <4>4. n # 0 => g[n - 1] = o[n - 1]
        BY <4>3
      <4> HIDE DEF g, Is
      <4> QED  BY <4>1, <4>2, <4>4
    <3> QED  BY <3>1, <3>2
  <2>3. g = [n \in 0 .. l |-> g[n]]
    OBVIOUS
  <2> HIDE DEF g
  <2>4. Is(g, l)
    BY <2>2, <2>3
  <2> HIDE DEF Is
  <2> QED  BY <2>4
<1> HIDE DEF Good
<1>3. count \in Good
  BY <1>1, <1>2, UpTo
<1> QED  BY <1>3 DEF Good, Batches

(* A piece is brought whole or not at all, and not at all only because an    *)
(* empty file is in it or the server ignores ranges.                        *)
LEMMA PieceFetched ==
  ASSUME multi, Layout(lengths), NEW p \in Piece, NEW server
  PROVE  /\ FetchPiece(server, p) \in {Failed, Part(p, PieceSize(p))}
         /\ server # "whole" /\ FetchPiece(server, p) = Failed => HoldsEmptyFile(p)
<1> DEFINE Is(a) == a = [f \in 0 .. NumFiles |->
                           IF f = 0 THEN [start |-> 0, out |-> <<>>]
                                    ELSE AfterFile(server, p, a[f - 1], f)]
           after == CHOOSE a : Is(a)
           r == after[NumFiles]
           z == PieceSize(p)
<1>0. NumFiles \in Nat
  BY FilesAssumption
<1>1. Is(after)
  <2>1. \E a : Is(a)
    BY FilesExist
  <2> HIDE DEF Is
  <2> QED  BY <2>1
<1>2. FetchPiece(server, p) = IF Len(r.out) = z THEN r.out ELSE Failed
  BY DEF FetchPiece
<1> HIDE DEF after
<1>3. /\ after[0] = [start |-> 0, out |-> <<>>]
      /\ \A f \in File : after[f] = AfterFile(server, p, after[f - 1], f)
  BY <1>0, <1>1 DEF File
<1> HIDE DEF Is
<1>4. /\ p * PieceLength \in Nat /\ z \in Nat /\ z > 0
      /\ p * PieceLength + z <= TotalSize /\ TotalSize \in Nat
  BY PiecesFit, PiecesAssumption
<1> DEFINE Good == {f \in 0 .. NumFiles : FetchedTo(server, p, f, after[f])}
<1>5. 0 \in Good
  <2>1. EndIn(lengths, 0) = 0
    BY Ends DEF Layout
  <2>2. Before(p * PieceLength, z, 0) = 0
    BY <1>4 DEF Before
  <2>3. Part(p, 0) = <<>>
    <3>1. Part(p, 0) \in Seq(Int) /\ Len(Part(p, 0)) = 0
      BY PartBytes
    <3> QED  BY <3>1
  <2>4. FetchedTo(server, p, 0, after[0])
    BY <1>3, <2>1, <2>2, <2>3 DEF FetchedTo
  <2> QED  BY <1>0, <2>4
<1>6. ASSUME NEW f \in 1 .. NumFiles, f - 1 \in Good  PROVE f \in Good
  <2>1. f \in File /\ f \in 0 .. NumFiles
    BY <1>0 DEF File
  <2>2. FetchedTo(server, p, f - 1, after[f - 1])
    BY <1>6
  <2>3. FetchedTo(server, p, f, AfterFile(server, p, after[f - 1], f))
    BY <2>1, <2>2, NextFile
  <2> QED  BY <1>3, <2>1, <2>3
<1> HIDE DEF Good
<1>7. NumFiles \in Good
  BY <1>0, <1>5, <1>6, UpTo
<1>8. \/ r.out = Failed /\ (server # "whole" => HoldsEmptyFile(p))
      \/ r.out = Part(p, z)
  <2>1. FetchedTo(server, p, NumFiles, r)
    BY <1>7 DEF Good
  <2>2. EndIn(lengths, NumFiles) = TotalSize
    BY DEF Layout
  <2>3. Before(p * PieceLength, z, TotalSize) = z
    <3> HIDE DEF z
    <3> QED  BY <1>4 DEF Before
  <2> QED  BY <2>1, <2>2, <2>3 DEF FetchedTo
<1>9. Len(Part(p, z)) = z /\ Part(p, z) # Failed
  BY <1>4, PartBytes
<1> HIDE DEF r, z
<1>10. CASE r.out = Part(p, z)
  BY <1>2, <1>9, <1>10 DEF z
<1>11. CASE r.out = Failed /\ (server # "whole" => HoldsEmptyFile(p))
  <2>1. FetchPiece(server, p) = Failed
    BY <1>2, <1>11
  <2> QED  BY <1>11, <2>1
<1> QED  BY <1>8, <1>10, <1>11

(* The bytes of the first n pieces of a batch end where the next one begins. *)
Span(first, n) == SpanSize(first, first + n - 1)

LEMMA SpanGrows ==
  ASSUME NEW first \in Piece, NEW n \in 1 .. NumPieces - first
  PROVE  /\ Span(first, n - 1) \in Nat
         /\ first * PieceLength + Span(first, n - 1) = (first + n - 1) * PieceLength
         /\ Span(first, n) = Span(first, n - 1) + PieceSize(first + n - 1)
<1> DEFINE p == first + n - 1
<1>1. /\ first \in Nat /\ n \in Nat /\ n >= 1 /\ p \in Nat /\ p <= NumPieces - 1
      /\ NumPieces \in Nat /\ PieceLength \in Nat /\ TotalSize \in Nat
      /\ first + (n - 1) - 1 # NumPieces - 1
  BY PiecesAssumption DEF Piece
<1>2. Span(first, n - 1) = (n - 1) * PieceLength
  <2>1. (first + (n - 1) - 1) - first + 1 = n - 1
    BY <1>1
  <2> QED  BY <1>1, <2>1 DEF Span, SpanSize
<1>3. (n - 1) * PieceLength \in Nat /\ first * PieceLength \in Nat
  BY <1>1
<1>4. p * PieceLength = first * PieceLength + (n - 1) * PieceLength
  BY <1>1
<1>5. Span(first, n) = Span(first, n - 1) + PieceSize(p)
  <2>1. CASE p = NumPieces - 1
    <3>1. Span(first, n) = TotalSize - first * PieceLength
      BY <2>1 DEF Span, SpanSize
    <3>2. PieceSize(p) = TotalSize - p * PieceLength
      BY <2>1 DEF PieceSize
    <3> QED  BY <1>1, <1>2, <1>3, <1>4, <3>1, <3>2
  <2>2. CASE p # NumPieces - 1
    <3>1. Span(first, n) = (p - first + 1) * PieceLength
      BY <2>2 DEF Span, SpanSize
    <3>2. PieceSize(p) = PieceLength
      BY <2>2 DEF PieceSize
    <3>3. p - first + 1 = n
      BY <1>1
    <3>4. n * PieceLength = (n - 1) * PieceLength + PieceLength
      BY <1>1
    <3> QED  BY <1>2, <3>1, <3>2, <3>3, <3>4
  <2> QED  BY <2>1, <2>2
<1> QED  BY <1>2, <1>3, <1>4, <1>5

(* So is a batch, with one request where there is a single file.            *)
LEMMA BatchFetched ==
  ASSUME Layout(lengths), ~multi => lengths[1] = TotalSize, NEW server,
         NEW first \in Piece, NEW count \in 1 .. NumPieces - first
  PROVE  /\ FetchBatch(server, first, count) \in {Failed, Content(first, count)}
         /\ server # "whole" /\ FetchBatch(server, first, count) = Failed =>
              \E p \in first .. first + count - 1 : HoldsEmptyFile(p)
<1> DEFINE s == first * PieceLength
           whole == Stretch(s, Span(first, count))
<1>1. first \in Nat /\ count \in Nat /\ count >= 1 /\ s \in Nat
  BY PiecesFit, PiecesAssumption DEF Piece
<1>2. Content(first, count) = whole
  BY DEF Content, Stretch, Span
<1>3. CASE ~multi
  <2>1. /\ s + Span(first, count) <= TotalSize
        /\ Span(first, count) \in Nat /\ Span(first, count) # 0
    <3>1. first + count - 1 \in Piece
      BY <1>1, PiecesAssumption DEF Piece
    <3>2. /\ PieceSize(first + count - 1) \in Nat /\ PieceSize(first + count - 1) > 0
          /\ (first + count - 1) * PieceLength + PieceSize(first + count - 1) <= TotalSize
          /\ (first + count - 1) * PieceLength \in Nat
      BY <3>1, PiecesFit, PiecesAssumption
    <3>3. /\ Span(first, count - 1) \in Nat
          /\ s + Span(first, count - 1) = (first + count - 1) * PieceLength
          /\ Span(first, count) = Span(first, count - 1) + PieceSize(first + count - 1)
      BY SpanGrows
    <3> HIDE DEF s
    <3> QED  BY <1>1, <3>2, <3>3, PiecesAssumption
  <2>2. 1 \in File /\ EndIn(lengths, 1 - 1) = 0 /\ 0 + s = s /\ lengths[1] = TotalSize
    <3>1. EndIn(lengths, 0) = 0
      BY Ends DEF Layout
    <3> QED  BY <1>1, <1>3, <3>1, FilesAssumption DEF File
  <2>3. FetchBatch(server, first, count) = FetchRange(server, 1, s, Span(first, count))
    BY <1>3 DEF FetchBatch, Span
  <2> HIDE DEF s
  <2>4. /\ FetchRange(server, 1, s, Span(first, count)) \in
             {Failed, Stretch(EndIn(lengths, 1 - 1) + s, Span(first, count))}
        /\ server # "whole" => FetchRange(server, 1, s, Span(first, count)) # Failed
    BY <1>1, <2>1, <2>2, RangeBytes
  <2> QED  BY <1>2, <2>2, <2>3, <2>4
<1>4. CASE multi
  <2> DEFINE out == CHOOSE o : Batches(server, first, count, o)
             Brought(n) == \/ out[n] = Stretch(s, Span(first, n))
                           \/ /\ out[n] = Failed
                              /\ server # "whole" =>
                                   \E p \in first .. first + count - 1 : HoldsEmptyFile(p)
             Good == {n \in 0 .. count : Brought(n)}
  <2>1. Batches(server, first, count, out)
    <3>1. count \in Nat
      BY <1>1
    <3> QED  BY <3>1, BatchesExist
  <2>2. FetchBatch(server, first, count) = out[count]
    BY <1>4 DEF FetchBatch, Batches
  <2> HIDE DEF out
  <2>3. out[0] = <<>>
    BY <1>1, <2>1 DEF Batches
  <2>4. ASSUME NEW n \in 1 .. count
        PROVE  out[n] = IF Failed \in {out[n - 1], FetchPiece(server, first + n - 1)}
                        THEN Failed ELSE out[n - 1] \o FetchPiece(server, first + n - 1)
    <3>1. n \in 0 .. count /\ n # 0
      BY <1>1
    <3>2. out[n] = AfterPiece(server, out[n - 1], first + n - 1)
      BY <2>1, <3>1 DEF Batches
    <3> QED  BY <3>2 DEF AfterPiece
  <2> HIDE DEF s
  <2>5. 0 \in Good
    <3>1. Span(first, 0) = 0
      <4>1. first + 0 - 1 # NumPieces - 1 /\ (first + 0 - 1) - first + 1 = 0
        BY <1>1, PiecesAssumption DEF Piece
      <4> QED  BY <4>1, PiecesAssumption DEF Span, SpanSize
    <3>2. Stretch(s, 0) = <<>>
      <4>1. Stretch(s, 0) \in Seq(Int) /\ Len(Stretch(s, 0)) = 0
        BY <1>1, StretchBytes
      <4> QED  BY <4>1
    <3> QED  BY <1>1, <2>3, <3>1, <3>2
  <2>6. ASSUME NEW n \in 1 .. count, n - 1 \in Good  PROVE n \in Good
    <3> DEFINE p == first + n - 1
               piece == FetchPiece(server, p)
    <3>1. /\ p \in Piece /\ p \in first .. first + count - 1
          /\ n \in 1 .. NumPieces - first /\ n \in 0 .. count
      BY <1>1, PiecesAssumption DEF Piece
    <3>2. /\ piece \in {Failed, Part(p, PieceSize(p))}
          /\ server # "whole" /\ piece = Failed => HoldsEmptyFile(p)
      BY <1>4, <3>1, PieceFetched
    <3>3. out[n] = IF Failed \in {out[n - 1], piece} THEN Failed ELSE out[n - 1] \o piece
      BY <2>4
    <3>4. Brought(n - 1)
      BY <2>6
    <3> HIDE DEF Good, p, piece
    <3>5. CASE out[n - 1] = Failed /\
               (server # "whole" => \E q \in first .. first + count - 1 : HoldsEmptyFile(q))
      BY <3>1, <3>3, <3>5 DEF Good
    <3>6. CASE out[n - 1] = Stretch(s, Span(first, n - 1))
      <4>1. CASE piece = Failed
        BY <3>1, <3>2, <3>3, <4>1 DEF Good
      <4>2. CASE piece = Part(p, PieceSize(p))
        <5>1. /\ Span(first, n - 1) \in Nat
              /\ s + Span(first, n - 1) = p * PieceLength
              /\ Span(first, n) = Span(first, n - 1) + PieceSize(p)
              /\ PieceSize(p) \in Nat
          <6>1. PieceSize(p) \in Nat
            BY <3>1, PiecesFit, PiecesAssumption
          <6> QED  BY <3>1, <6>1, SpanGrows DEF p, s
        <5>2. Stretch(s, Span(first, n - 1)) \o Part(p, PieceSize(p))
                = Stretch(s, Span(first, n))
          <6>1. Part(p, PieceSize(p)) = Stretch(s + Span(first, n - 1), PieceSize(p))
            BY <5>1 DEF Part
          <6>2. Stretch(s, Span(first, n - 1))
                    \o Stretch(s + Span(first, n - 1), PieceSize(p))
                  = Stretch(s, Span(first, n - 1) + PieceSize(p))
            <7>1. s \in Nat /\ Span(first, n - 1) \in Nat /\ PieceSize(p) \in Nat
              BY <1>1, <5>1
            <7> QED  BY ONLY <7>1, StretchesJoin
          <6> QED  BY <5>1, <6>1, <6>2
        <5>3. out[n - 1] # Failed /\ piece # Failed
          BY <1>1, <3>1, <3>6, <4>2, <5>1, StretchBytes, PartBytes
        <5>4. out[n] = Stretch(s, Span(first, n))
          BY <3>3, <3>6, <4>2, <5>2, <5>3
        <5> QED  BY <3>1, <5>4 DEF Good
      <4> QED  BY <3>2, <4>1, <4>2
    <3> QED  BY <3>4, <3>5, <3>6
  <2> HIDE DEF Brought
  <2>7. count \in Good
    <3>1. count \in 0 .. count
      BY <1>1
    <3> HIDE DEF Good
    <3> QED  BY <1>1, <2>5, <2>6, <3>1, UpTo
  <2>8. Brought(count)
    BY <2>7
  <2>9. Content(first, count) = Stretch(s, Span(first, count))
    BY <1>2 DEF s
  <2> HIDE DEF whole
  <2>10. CASE out[count] = Stretch(s, Span(first, count))
    <3>1. Stretch(s, Span(first, count)) # Failed
      <4>1. count \in 1 .. NumPieces - first /\ first + count - 1 \in Piece
        BY <1>1, PiecesAssumption DEF Piece
      <4>2. PieceSize(first + count - 1) \in Nat
        BY <4>1, PiecesFit, PiecesAssumption
      <4>3. Span(first, count) \in Nat
        BY <4>1, <4>2, SpanGrows
      <4> QED  BY <1>1, <4>3, StretchBytes
    <3> QED  BY <2>2, <2>9, <2>10, <3>1
  <2>11. CASE out[count] = Failed /\
              (server # "whole" => \E p \in first .. first + count - 1 : HoldsEmptyFile(p))
    BY <2>2, <2>11
  <2> QED  BY <2>8, <2>10, <2>11 DEF Brought
<1> QED  BY <1>3, <1>4

(* What the web seeds bring is what the content holds there, however it is   *)
(* cut into files, and they fail only for the reasons named.                *)
THEOREM SeedsBringTheRightBytes == Spec => []SeedBytesMatch
<1>1. WriterInvariant => SeedBytesMatch
  <2> SUFFICES ASSUME WriterInvariant, NEW first \in Piece,
                      NEW count \in 1 .. NumPieces - first
               PROVE  /\ \A servers \in {<<"ranges">>, <<"whole">>, <<"whole", "ranges">>} :
                           Fetch(servers, first, count) \in {Failed, Content(first, count)}
                      /\ Fetch(<<"whole", "ranges">>, first, count) = Failed =>
                           \E p \in first .. first + count - 1 : HoldsEmptyFile(p)
    BY DEF SeedBytesMatch
  <2>1. Layout(lengths) /\ (~multi => lengths[1] = TotalSize)
    BY DEF WriterInvariant, Typing
  <2>2. \A server :
          /\ FetchBatch(server, first, count) \in {Failed, Content(first, count)}
          /\ server # "whole" /\ FetchBatch(server, first, count) = Failed =>
               \E p \in first .. first + count - 1 : HoldsEmptyFile(p)
    BY <2>1, BatchFetched
  <2>3. ASSUME NEW servers, DOMAIN servers \subseteq Nat
        PROVE  /\ Fetch(servers, first, count) \in {Failed, Content(first, count)}
               /\ Fetch(servers, first, count) = Failed =>
                    \A i \in DOMAIN servers : FetchBatch(servers[i], first, count) = Failed
    <3> DEFINE good == {i \in DOMAIN servers : FetchBatch(servers[i], first, count) # Failed}
    <3>1. CASE good = {}
      BY <3>1 DEF Fetch
    <3>2. CASE good # {}
      <4>1. Fetch(servers, first, count) = FetchBatch(servers[Min(good)], first, count)
        BY <3>2 DEF Fetch
      <4>2. Min(good) \in good
        <5>1. good \subseteq Nat
          BY <2>3
        <5> HIDE DEF good
        <5>2. \E n \in good : \A k \in good : n <= k
          BY <3>2, <5>1, LeastNatural
        <5> QED  BY <5>2 DEF Min
      <4> QED  BY <2>2, <4>1, <4>2
    <3> QED  BY <3>1, <3>2
  <2>4. \A servers \in {<<"ranges">>, <<"whole">>, <<"whole", "ranges">>} :
          DOMAIN servers \subseteq Nat
    OBVIOUS
  <2>5. Fetch(<<"whole", "ranges">>, first, count) = Failed =>
          \E p \in first .. first + count - 1 : HoldsEmptyFile(p)
    <3>1. 2 \in DOMAIN <<"whole", "ranges">> /\ <<"whole", "ranges">>[2] = "ranges"
          /\ "ranges" # "whole"
      OBVIOUS
    <3>2. Fetch(<<"whole", "ranges">>, first, count) = Failed =>
            FetchBatch("ranges", first, count) = Failed
      BY <2>3, <2>4, <3>1
    <3> QED  BY <2>2, <3>1, <3>2
  <2> QED  BY <2>3, <2>4, <2>5
<1>2. Spec => []WriterInvariant
  BY WriterInvariantHolds
<1> QED  BY <1>1, <1>2, PTL
=============================================================================
