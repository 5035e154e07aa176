---------------------------- MODULE ArithmeticProofs ---------------------------
(***************************************************************************)
(* Theorems about the modules whose matter is arithmetic.                  *)
(*                                                                         *)
(* Of StoreLine (Tema3's spu/paralel_spu.c), for lines of every size       *)
(* 16 * x + 4, every number of lines and any SPUs at work: the pieces a    *)
(* line is cut into make up the line, each of them is one the MFC can      *)
(* transfer, and a line left behind is in the big image for good.  Of      *)
(* Scale, for squares of any bytes: the types, and that the vector code    *)
(* differs by at most one from the serial program.  Of FloatCompare        *)
(* (Tema2's main.c), for exponents and mantissas of any width, arrays of   *)
(* any length and any max_ulps the code's assertion lets pass: the results *)
(* are judged equal exactly if they are near.                              *)
(***************************************************************************)
EXTENDS StoreLine, Scale, FloatCompare, FiniteSetTheorems, WellFoundedInduction,
        TLAPS

------------------------------------------------------------------------------
(* StoreLine and Scale.                                                    *)
(* Everything but the thumbnail's place in its row is a multiple of 16.    *)
LEMMA BaseAddress ==
  ASSUME NEW k \in 0 .. 15, NEW c \in Nat
  PROVE  /\ k % 4 \in 0 .. 3
         /\ \E m \in Nat : base_dma_addr(k, c) = 16 * m + (k % 4) * LineSize
<1>1. x \in Nat /\ Chunks \in Nat
  BY LineAssumption
<1>2. k \div 4 \in Nat /\ k % 4 \in 0 .. 3
  OBVIOUS
<1>3. RowSize = 16 * (4 * x + 1) /\ 4 * x + 1 \in Nat
  BY <1>1 DEF RowSize, LineSize
<1> DEFINE a == (k \div 4) * Chunks
           r == 4 * x + 1
<1>4. a \in Nat /\ r \in Nat /\ RowSize = 16 * r
  BY <1>1, <1>2, <1>3, Z3
<1> HIDE DEF a, r
<1>5. a * r + c * r \in Nat
  BY <1>4, Z3
<1>6. a * (16 * r) + c * (16 * r) = 16 * (a * r + c * r)
  BY <1>4, Z3
<1>7. base_dma_addr(k, c) = a * (16 * r) + c * (16 * r) + (k % 4) * LineSize
  BY <1>4 DEF base_dma_addr, a
<1> QED BY <1>2, <1>5, <1>6, <1>7

LEMMA Divisions == LineSize \div 16 = x /\ LineSize % 16 = 4 /\ LineSize \in Nat
BY LineAssumption DEF LineSize

(* The pieces, spelt out.                                                  *)
LEMMA PiecesAre ==
  ASSUME NEW k \in 0 .. 15
  PROVE  Pieces(k) =
           CASE k % 4 = 0 -> {[from |-> 0, size |-> x * 16],
                              [from |-> x * 16, size |-> 4]}
             [] k % 4 = 1 -> {[from |-> 0, size |-> 4], [from |-> 4, size |-> 8],
                              [from |-> 12, size |-> (x - 1) * 16],
                              [from |-> 12 + (x - 1) * 16, size |-> 8]}
             [] k % 4 = 2 -> {[from |-> 0, size |-> 8],
                              [from |-> 8, size |-> (x - 1) * 16],
                              [from |-> 8 + (x - 1) * 16, size |-> 8],
                              [from |-> 16 + (x - 1) * 16, size |-> 4]}
             [] k % 4 = 3 -> {[from |-> 0, size |-> 4],
                              [from |-> 4, size |-> x * 16]}
<1>1. k % 4 \in 0 .. 3 /\ x \in Nat
  BY LineAssumption
<1>2. CASE k % 4 = 0
  <2>1. Sizes(k % 4) = <<x * 16, 4>>
    BY <1>2, Divisions DEF Sizes
  <2>2. Pieces(k) = {PieceOf(k, 1), PieceOf(k, 2)}
    BY <2>1 DEF Pieces
  <2> QED BY <1>1, <1>2, <2>1, <2>2 DEF PieceOf, Start
<1>3. CASE k % 4 = 1
  <2>1. Sizes(k % 4) = <<4, 8, (x - 1) * 16, 8>>
    BY <1>3, Divisions DEF Sizes
  <2>2. Pieces(k) = {PieceOf(k, 1), PieceOf(k, 2), PieceOf(k, 3), PieceOf(k, 4)}
    BY <2>1 DEF Pieces
  <2> QED BY <1>1, <1>3, <2>1, <2>2 DEF PieceOf, Start
<1>4. CASE k % 4 = 2
  <2>1. Sizes(k % 4) = <<8, (x - 1) * 16, 8, 4>>
    BY <1>4, Divisions DEF Sizes
  <2>2. Pieces(k) = {PieceOf(k, 1), PieceOf(k, 2), PieceOf(k, 3), PieceOf(k, 4)}
    BY <2>1 DEF Pieces
  <2> QED BY <1>1, <1>4, <2>1, <2>2 DEF PieceOf, Start
<1>5. CASE k % 4 = 3
  <2>1. Sizes(k % 4) = <<4, x * 16>>
    BY <1>5, Divisions DEF Sizes
  <2>2. Pieces(k) = {PieceOf(k, 1), PieceOf(k, 2)}
    BY <2>1 DEF Pieces
  <2> QED BY <1>1, <1>5, <2>1, <2>2 DEF PieceOf, Start
<1> QED BY <1>1, <1>2, <1>3, <1>4, <1>5

(* The pieces of a line tile it: each byte of the line is in one piece,    *)
(* and in one only (paralel_spu.c:110-139).                                *)
THEOREM PiecesTileTheLine ==
  ASSUME NEW k \in 0 .. 15, NEW b \in 0 .. LineSize - 1
  PROVE  /\ \E p \in Pieces(k) : b \in p.from .. p.from + p.size - 1
         /\ \A p, q \in Pieces(k) :
              /\ b \in p.from .. p.from + p.size - 1
              /\ b \in q.from .. q.from + q.size - 1
              => p = q
<1>1. k % 4 \in 0 .. 3 /\ x \in Nat \ {0} /\ b \in 0 .. 16 * x + 3
  BY LineAssumption DEF LineSize
<1>2. CASE k % 4 = 0
  <2> DEFINE p1 == [from |-> 0, size |-> x * 16]
             p2 == [from |-> x * 16, size |-> 4]
  <2>1. Pieces(k) = {p1, p2}
    BY <1>2, PiecesAre
  <2>2. /\ p1.from = 0 /\ p1.size = x * 16
        /\ p2.from = x * 16 /\ p2.size = 4
    OBVIOUS
  <2> HIDE DEF p1, p2
  <2>3. \E p \in Pieces(k) : b \in p.from .. p.from + p.size - 1
    BY <1>1, <2>1, <2>2
  <2>4. \A p, q \in Pieces(k) :
          /\ b \in p.from .. p.from + p.size - 1
          /\ b \in q.from .. q.from + q.size - 1
          => p = q
    BY <1>1, <2>1, <2>2
  <2> QED BY <2>3, <2>4
<1>3. CASE k % 4 = 1
  <2> DEFINE p1 == [from |-> 0, size |-> 4]
             p2 == [from |-> 4, size |-> 8]
             p3 == [from |-> 12, size |-> (x - 1) * 16]
             p4 == [from |-> 12 + (x - 1) * 16, size |-> 8]
  <2>1. Pieces(k) = {p1, p2, p3, p4}
    BY <1>3, PiecesAre
  <2>2. /\ p1.from = 0 /\ p1.size = 4
        /\ p2.from = 4 /\ p2.size = 8
        /\ p3.from = 12 /\ p3.size = (x - 1) * 16
        /\ p4.from = 12 + (x - 1) * 16 /\ p4.size = 8
    OBVIOUS
  <2> HIDE DEF p1, p2, p3, p4
  <2>3. \E p \in Pieces(k) : b \in p.from .. p.from + p.size - 1
    BY <1>1, <2>1, <2>2
  <2>4. \A p, q \in Pieces(k) :
          /\ b \in p.from .. p.from + p.size - 1
          /\ b \in q.from .. q.from + q.size - 1
          => p = q
    BY <1>1, <2>1, <2>2
  <2> QED BY <2>3, <2>4
<1>4. CASE k % 4 = 2
  <2> DEFINE p1 == [from |-> 0, size |-> 8]
             p2 == [from |-> 8, size |-> (x - 1) * 16]
             p3 == [from |-> 8 + (x - 1) * 16, size |-> 8]
             p4 == [from |-> 16 + (x - 1) * 16, size |-> 4]
  <2>1. Pieces(k) = {p1, p2, p3, p4}
    BY <1>4, PiecesAre
  <2>2. /\ p1.from = 0 /\ p1.size = 8
        /\ p2.from = 8 /\ p2.size = (x - 1) * 16
        /\ p3.from = 8 + (x - 1) * 16 /\ p3.size = 8
        /\ p4.from = 16 + (x - 1) * 16 /\ p4.size = 4
    OBVIOUS
  <2> HIDE DEF p1, p2, p3, p4
  <2>3. \E p \in Pieces(k) : b \in p.from .. p.from + p.size - 1
    BY <1>1, <2>1, <2>2
  <2>4. \A p, q \in Pieces(k) :
          /\ b \in p.from .. p.from + p.size - 1
          /\ b \in q.from .. q.from + q.size - 1
          => p = q
    BY <1>1, <2>1, <2>2
  <2> QED BY <2>3, <2>4
<1>5. CASE k % 4 = 3
  <2> DEFINE p1 == [from |-> 0, size |-> 4]
             p2 == [from |-> 4, size |-> x * 16]
  <2>1. Pieces(k) = {p1, p2}
    BY <1>5, PiecesAre
  <2>2. /\ p1.from = 0 /\ p1.size = 4
        /\ p2.from = 4 /\ p2.size = x * 16
    OBVIOUS
  <2> HIDE DEF p1, p2
  <2>3. \E p \in Pieces(k) : b \in p.from .. p.from + p.size - 1
    BY <1>1, <2>1, <2>2
  <2>4. \A p, q \in Pieces(k) :
          /\ b \in p.from .. p.from + p.size - 1
          /\ b \in q.from .. q.from + q.size - 1
          => p = q
    BY <1>1, <2>1, <2>2
  <2> QED BY <2>3, <2>4
<1> QED BY <1>1, <1>2, <1>3, <1>4, <1>5

LEMMA PieceLegal ==
  ASSUME NEW k \in 0 .. 15, NEW c \in Nat, NEW p \in Pieces(k)
  PROVE  LegalTransfer(left_padding(k) + p.from, base_dma_addr(k, c) + p.from, p.size)
<1>1. PICK m \in Nat : base_dma_addr(k, c) = 16 * m + (k % 4) * (16 * x + 4)
  BY BaseAddress DEF LineSize
<1>2. k % 4 \in 0 .. 3 /\ x \in Nat \ {0}
  BY LineAssumption
<1>3. CASE k % 4 = 0
  BY <1>1, <1>2, <1>3, PiecesAre DEF LegalTransfer, left_padding
<1>4. CASE k % 4 = 1
  BY <1>1, <1>2, <1>4, PiecesAre DEF LegalTransfer, left_padding
<1>5. CASE k % 4 = 2
  BY <1>1, <1>2, <1>5, PiecesAre DEF LegalTransfer, left_padding
<1>6. CASE k % 4 = 3
  BY <1>1, <1>2, <1>6, PiecesAre DEF LegalTransfer, left_padding
<1> QED BY <1>2, <1>3, <1>4, <1>5, <1>6

(* The puts under way are pieces of lines of SPUs at work.                 *)
PutsFromLines ==
  /\ chunk \in [SPUs -> Nat]
  /\ \A p \in mfc : p.spu \in SPUs /\ p.line \in Nat /\ p.piece \in Pieces(p.spu)

LEMMA PutsInit == LineInit => PutsFromLines
BY DEF LineInit, PutsFromLines

LEMMA PutsStep == PutsFromLines /\ [LineNext]_lineVars => PutsFromLines'
<1> SUFFICES ASSUME PutsFromLines, [LineNext]_lineVars PROVE PutsFromLines'
  OBVIOUS
<1>1. ASSUME NEW k \in SPUs, ScaleChunk(k) PROVE PutsFromLines'
  BY <1>1 DEF ScaleChunk, PutsFromLines, Pieces, PieceOf
<1>2. ASSUME NEW k \in SPUs, store_line(k) PROVE PutsFromLines'
  <2>1. \A p \in mfc' : p \in mfc
          \/ p \in {[spu |-> k, line |-> chunk[k], piece |-> q] : q \in Pieces(k)}
    BY <1>2 DEF store_line
  <2>2. \A p \in mfc' : p.spu \in SPUs /\ p.line \in Nat /\ p.piece \in Pieces(p.spu)
    BY <2>1 DEF PutsFromLines
  <2>3. UNCHANGED chunk
    BY <1>2 DEF store_line
  <2> QED BY <2>2, <2>3 DEF PutsFromLines
<1>3. ASSUME NEW k \in SPUs, WaitLine(k) PROVE PutsFromLines'
  BY <1>3 DEF WaitLine, PutsFromLines
<1>4. ASSUME NEW p \in mfc, ExecutePut(p) PROVE PutsFromLines'
  BY <1>4 DEF ExecutePut, PutsFromLines
<1>5. CASE UNCHANGED lineVars
  BY <1>5 DEF lineVars, PutsFromLines
<1> QED BY <1>1, <1>2, <1>3, <1>4, <1>5 DEF LineNext

(* For lines of every such size, every put of every SPU is one the MFC can *)
(* execute (paralel_spu.c:83-139, 222-229).                                *)
THEOREM AllPutsLegal == LineSpec => []PutsLegal
<1>1. PutsFromLines => PutsLegal
  <2> SUFFICES ASSUME PutsFromLines, NEW p \in mfc
               PROVE  LegalTransfer(left_padding(p.spu) + p.piece.from,
                        base_dma_addr(p.spu, p.line) + p.piece.from, p.piece.size)
    BY DEF PutsLegal
  <2>1. p.spu \in 0 .. 15 /\ p.line \in Nat /\ p.piece \in Pieces(p.spu)
    BY LineAssumption DEF PutsFromLines
  <2> QED BY <2>1, PieceLegal
<1> QED BY <1>1, PutsInit, PutsStep, PTL DEF LineSpec

------------------------------------------------------------------------------
(* The layout of the big image: its lines follow each other, and no two    *)
(* bytes of the thumbnails share an address.                               *)
LEMMA DivUnique ==
  ASSUME NEW q \in Nat, NEW g \in Nat \ {0}, NEW j \in 0 .. g - 1
  PROVE  (q * g + j) \div g = q /\ (q * g + j) % g = j
BY Z3

LEMMA RowMajor ==
  ASSUME NEW q \in Nat, NEW g \in Nat, NEW m \in Nat, NEW j \in 0 .. g - 1, q < m
  PROVE  q * g + j \in 0 .. m * g - 1
<1>1. q * g \in Nat /\ m * g \in Nat
  BY Z3
<1>2. (q + 1) * g <= m * g
  BY Z3
<1>3. (q + 1) * g = q * g + g
  BY Z3
<1> QED BY <1>1, <1>2, <1>3

(* The lines of the big image that lie before line c of thumbnail k.       *)
LinesBefore(k, c) == ((k \div 4) * Chunks + c) * 4 + (k % 4)

LEMMA LinesNumbered ==
  ASSUME NEW k \in 0 .. 15, NEW c \in 0 .. Chunks - 1
  PROVE  /\ LinesBefore(k, c) \in 0 .. (4 * Chunks) * 4 - 1
         /\ base_dma_addr(k, c) = LinesBefore(k, c) * LineSize
<1>1. k \div 4 \in 0 .. 3 /\ k % 4 \in 0 .. 3
  OBVIOUS
<1>2. Chunks \in Nat \ {0} /\ LineSize \in Nat
  BY LineAssumption, Divisions
<1> DEFINE r == k \div 4
           n == r * Chunks + c
<1>3. n \in 0 .. 4 * Chunks - 1
  BY <1>1, <1>2, RowMajor
<1>4. LinesBefore(k, c) = n * 4 + (k % 4)
  BY DEF LinesBefore
<1>5. r \in Nat /\ c \in Nat /\ r * Chunks \in Nat
  BY <1>1, <1>2, Z3
<1>6. base_dma_addr(k, c) = r * Chunks * (4 * LineSize) + c * (4 * LineSize)
                              + (k % 4) * LineSize
  BY DEF base_dma_addr, RowSize
<1> HIDE DEF r
<1>7. r * Chunks * (4 * LineSize) + c * (4 * LineSize) = n * (4 * LineSize)
  <2> DEFINE q == r * Chunks
             w == 4 * LineSize
  <2>1. q \in Nat /\ w \in Nat
    BY <1>2, <1>5
  <2> HIDE DEF q, w
  <2>2. q * w + c * w = (q + c) * w
    BY <1>5, <2>1, Z3
  <2> QED BY <2>2 DEF q, w
<1> HIDE DEF n
<1>8. n * (4 * LineSize) = (n * 4) * LineSize
  BY <1>2, <1>3, Z3
<1>9. (n * 4) * LineSize + (k % 4) * LineSize = (n * 4 + (k % 4)) * LineSize
  <2> DEFINE q == n * 4
             p == k % 4
  <2>1. q \in Nat /\ p \in Nat
    BY <1>1, <1>3
  <2> HIDE DEF q, p
  <2>2. q * LineSize + p * LineSize = (q + p) * LineSize
    BY <1>2, <2>1, Z3
  <2> QED BY <2>2 DEF q, p
<1>10. n * 4 + (k % 4) \in 0 .. (4 * Chunks) * 4 - 1
  BY <1>1, <1>2, <1>3
<1> QED BY <1>4, <1>6, <1>7, <1>8, <1>9, <1>10

(* A byte of a line is in the big image.                                   *)
LEMMA ByteInImage ==
  ASSUME NEW k \in 0 .. 15, NEW c \in 0 .. Chunks - 1, NEW b \in 0 .. LineSize - 1
  PROVE  base_dma_addr(k, c) + b \in ImageBytes
<1> DEFINE n == LinesBefore(k, c)
<1>1. n \in 0 .. (4 * Chunks) * 4 - 1 /\ base_dma_addr(k, c) = n * LineSize
  BY LinesNumbered
<1>2. Chunks \in Nat \ {0} /\ LineSize \in Nat
  BY LineAssumption, Divisions
<1> HIDE DEF n
<1>3. n * LineSize + b \in 0 .. ((4 * Chunks) * 4) * LineSize - 1
  BY <1>1, <1>2, RowMajor
<1>4. ((4 * Chunks) * 4) * LineSize = 4 * Chunks * (4 * LineSize)
  BY <1>2, Z3
<1> QED BY <1>1, <1>3, <1>4 DEF ImageBytes, RowSize

(* Bytes at one address are the same byte of the same line.                *)
LEMMA BytesApart ==
  ASSUME NEW k \in 0 .. 15, NEW c \in 0 .. Chunks - 1, NEW b \in 0 .. LineSize - 1,
         NEW l \in 0 .. 15, NEW d \in 0 .. Chunks - 1, NEW e \in 0 .. LineSize - 1,
         base_dma_addr(k, c) + b = base_dma_addr(l, d) + e
  PROVE  k = l /\ c = d /\ b = e
<1>1. Chunks \in Nat \ {0} /\ LineSize \in Nat \ {0}
  BY LineAssumption, Divisions
<1>2. /\ LinesBefore(k, c) \in Nat /\ LinesBefore(l, d) \in Nat
      /\ base_dma_addr(k, c) = LinesBefore(k, c) * LineSize
      /\ base_dma_addr(l, d) = LinesBefore(l, d) * LineSize
  BY LinesNumbered
<1>3. LinesBefore(k, c) = LinesBefore(l, d) /\ b = e
  <2> DEFINE n == LinesBefore(k, c)
             m == LinesBefore(l, d)
  <2> HIDE DEF n, m
  <2>1. n \in Nat /\ m \in Nat /\ n * LineSize + b = m * LineSize + e
    BY <1>2 DEF n, m
  <2>2. /\ (n * LineSize + b) \div LineSize = n /\ (n * LineSize + b) % LineSize = b
        /\ (m * LineSize + e) \div LineSize = m /\ (m * LineSize + e) % LineSize = e
    BY <1>1, <2>1, DivUnique
  <2>3. n = m /\ b = e
    BY <2>1, <2>2
  <2> QED BY <2>3 DEF n, m
<1>4. /\ k \div 4 \in Nat /\ k % 4 \in 0 .. 3 /\ k = 4 * (k \div 4) + (k % 4)
      /\ l \div 4 \in Nat /\ l % 4 \in 0 .. 3 /\ l = 4 * (l \div 4) + (l % 4)
  OBVIOUS
<1> DEFINE r == k \div 4
           s == l \div 4
           n == r * Chunks + c
           m == s * Chunks + d
<1>5. n \in Nat /\ m \in Nat
  <2> HIDE DEF r, s
  <2>1. r \in Nat /\ s \in Nat
    BY <1>4 DEF r, s
  <2>2. r * Chunks \in Nat /\ s * Chunks \in Nat
    BY <1>1, <2>1, Z3
  <2> QED BY <1>1, <2>2
<1>6. n * 4 + (k % 4) = m * 4 + (l % 4)
  BY <1>3 DEF LinesBefore
<1>7. n = m /\ k % 4 = l % 4
  <2> HIDE DEF n, m
  <2> QED BY <1>4, <1>5, <1>6
<1>8. r = s /\ c = d
  <2> HIDE DEF r, s
  <2>1. r \in Nat /\ s \in Nat
    BY <1>4 DEF r, s
  <2>2. /\ n \div Chunks = r /\ n % Chunks = c
        /\ m \div Chunks = s /\ m % Chunks = d
    BY <1>1, <2>1, DivUnique
  <2> QED BY <1>7, <2>2
<1> QED BY <1>3, <1>4, <1>7, <1>8

LEMMA PieceInLine ==
  ASSUME NEW k \in 0 .. 15, NEW p \in Pieces(k)
  PROVE  p.from \in Nat /\ p.size \in Nat /\ p.from + p.size <= LineSize
<1>1. k % 4 \in 0 .. 3 /\ x \in Nat \ {0} /\ LineSize = 16 * x + 4
  BY LineAssumption DEF LineSize
<1>2. CASE k % 4 = 0
  BY <1>1, <1>2, PiecesAre
<1>3. CASE k % 4 = 1
  BY <1>1, <1>3, PiecesAre
<1>4. CASE k % 4 = 2
  BY <1>1, <1>4, PiecesAre
<1>5. CASE k % 4 = 3
  BY <1>1, <1>5, PiecesAre
<1> QED BY <1>1, <1>2, <1>3, <1>4, <1>5

------------------------------------------------------------------------------
(* Where each SPU is.                                                      *)
LinePlace ==
  /\ pc \in [SPUs -> {"scale", "store", "wait", "done"}]
  /\ chunk \in [SPUs -> 0 .. Chunks]
  /\ scaled_line \in [SPUs -> Int]
  /\ \A k \in SPUs :
       /\ pc[k] # "done" => chunk[k] < Chunks
       /\ pc[k] \in {"store", "wait"} => scaled_line[k] = chunk[k]

(* Only a line whose puts are awaited has any under way.                   *)
PutsAwaited ==
  \A p \in mfc :
    /\ p.spu \in SPUs
    /\ pc[p.spu] = "wait"
    /\ p.line = chunk[p.spu]
    /\ p.piece \in Pieces(p.spu)

(* A byte of a line whose puts are awaited is stored or in one of them.    *)
HalfStored ==
  \A k \in SPUs : pc[k] = "wait" =>
    \A b \in 0 .. LineSize - 1 :
      \/ big_image[base_dma_addr(k, chunk[k]) + b] = <<k, chunk[k], b>>
      \/ \E p \in mfc :
           p.spu = k /\ b \in p.piece.from .. p.piece.from + p.piece.size - 1

StoreInv == LinePlace /\ PutsAwaited /\ HalfStored /\ LinesStored

LEMMA StoreInit == LineInit => StoreInv
<1> SUFFICES ASSUME LineInit PROVE StoreInv
  OBVIOUS
<1>1. Chunks \in Nat \ {0}
  BY LineAssumption
<1>2. LinePlace /\ PutsAwaited /\ HalfStored
  BY <1>1 DEF LineInit, LinePlace, PutsAwaited, HalfStored
<1>3. LinesStored
  BY DEF LineInit, LinesStored
<1> QED BY <1>2, <1>3 DEF StoreInv

LEMMA ScaleKeeps ==
  ASSUME StoreInv, NEW k \in SPUs, ScaleChunk(k)
  PROVE  StoreInv'
<1>1. LinePlace'
  BY DEF StoreInv, LinePlace, ScaleChunk
<1>2. \A l \in SPUs : pc'[l] = "wait" <=> pc[l] = "wait"
  BY DEF StoreInv, LinePlace, ScaleChunk
<1>3. UNCHANGED <<chunk, mfc, big_image>>
  BY DEF ScaleChunk
<1>4. PutsAwaited'
  BY <1>2, <1>3 DEF StoreInv, PutsAwaited, Pieces, PieceOf
<1>5. HalfStored'
  BY <1>2, <1>3 DEF StoreInv, HalfStored
<1>6. LinesStored'
  BY <1>3 DEF StoreInv, LinesStored
<1> QED BY <1>1, <1>4, <1>5, <1>6 DEF StoreInv

LEMMA StoreKeeps ==
  ASSUME StoreInv, NEW k \in SPUs, store_line(k)
  PROVE  StoreInv'
<1> DEFINE new == {[spu |-> k, line |-> chunk[k], piece |-> p] : p \in Pieces(k)}
<1>1. /\ pc[k] = "store" /\ pc' = [pc EXCEPT ![k] = "wait"]
      /\ mfc' = mfc \cup new
      /\ UNCHANGED <<chunk, scaled_line, big_image>>
  BY DEF store_line
<1>2. LinePlace'
  BY <1>1 DEF StoreInv, LinePlace
<1>3. pc'[k] = "wait" /\ \A l \in SPUs \ {k} : pc'[l] = pc[l]
  BY <1>1 DEF StoreInv, LinePlace
<1>4. PutsAwaited'
  <2> SUFFICES ASSUME NEW p \in mfc'
               PROVE  /\ p.spu \in SPUs /\ pc'[p.spu] = "wait"
                      /\ p.line = chunk'[p.spu] /\ p.piece \in Pieces(p.spu)
    BY DEF PutsAwaited, Pieces, PieceOf
  <2>1. CASE p \in new
    BY <1>1, <1>3, <2>1
  <2>2. CASE p \in mfc
    BY <1>1, <1>3, <2>2 DEF StoreInv, PutsAwaited
  <2> QED BY <1>1, <2>1, <2>2
<1>5. HalfStored'
  <2> SUFFICES ASSUME NEW l \in SPUs, pc'[l] = "wait", NEW b \in 0 .. LineSize - 1
               PROVE  \/ big_image[base_dma_addr(l, chunk[l]) + b] = <<l, chunk[l], b>>
                      \/ \E p \in mfc' : /\ p.spu = l
                           /\ b \in p.piece.from .. p.piece.from + p.piece.size - 1
    BY <1>1 DEF HalfStored
  <2>1. CASE l = k
    <3>1. k \in 0 .. 15
      BY LineAssumption
    <3>2. PICK p \in Pieces(k) : b \in p.from .. p.from + p.size - 1
      BY <3>1, PiecesTileTheLine
    <3>3. [spu |-> k, line |-> chunk[k], piece |-> p] \in mfc'
      BY <1>1
    <3> QED BY <2>1, <3>2, <3>3
  <2>2. CASE l # k
    BY <1>1, <1>3, <2>2 DEF StoreInv, HalfStored
  <2> QED BY <2>1, <2>2
<1>6. LinesStored'
  BY <1>1 DEF StoreInv, LinesStored
<1> QED BY <1>2, <1>4, <1>5, <1>6 DEF StoreInv

LEMMA WaitKeeps ==
  ASSUME StoreInv, NEW k \in SPUs, WaitLine(k)
  PROVE  StoreInv'
<1> DEFINE next == IF chunk[k] + 1 < Chunks THEN "scale" ELSE "done"
<1>1. /\ pc[k] = "wait" /\ \A p \in mfc : p.spu # k
      /\ chunk' = [chunk EXCEPT ![k] = chunk[k] + 1]
      /\ UNCHANGED <<scaled_line, mfc, big_image>>
  BY DEF WaitLine
<1>2. chunk[k] \in 0 .. Chunks - 1 /\ Chunks \in Nat
  BY <1>1, LineAssumption DEF StoreInv, LinePlace
<1>3. chunk'[k] = chunk[k] + 1 /\ \A l \in SPUs \ {k} : chunk'[l] = chunk[l]
  BY <1>1 DEF StoreInv, LinePlace
<1>4. pc' = [pc EXCEPT ![k] = next]
  BY <1>3 DEF WaitLine
<1>5. pc'[k] = next /\ next # "wait" /\ \A l \in SPUs \ {k} : pc'[l] = pc[l]
  BY <1>4 DEF StoreInv, LinePlace
<1>6. LinePlace'
  <2>1. pc' \in [SPUs -> {"scale", "store", "wait", "done"}]
    BY <1>4 DEF StoreInv, LinePlace
  <2>2. chunk' \in [SPUs -> 0 .. Chunks]
    BY <1>1, <1>2 DEF StoreInv, LinePlace
  <2>3. scaled_line' \in [SPUs -> Int]
    BY <1>1 DEF StoreInv, LinePlace
  <2>4. ASSUME NEW l \in SPUs
        PROVE  /\ pc'[l] # "done" => chunk'[l] < Chunks
               /\ pc'[l] \in {"store", "wait"} => scaled_line'[l] = chunk'[l]
    BY <1>1, <1>3, <1>5 DEF StoreInv, LinePlace
  <2> QED BY <2>1, <2>2, <2>3, <2>4 DEF LinePlace
<1>7. PutsAwaited'
  BY <1>1, <1>3, <1>5 DEF StoreInv, PutsAwaited, Pieces, PieceOf
<1>8. HalfStored'
  BY <1>1, <1>3, <1>5 DEF StoreInv, HalfStored
<1>9. LinesStored'
  <2> SUFFICES ASSUME NEW l \in SPUs, NEW c \in 0 .. chunk'[l] - 1,
                      NEW b \in 0 .. LineSize - 1
               PROVE  big_image[base_dma_addr(l, c) + b] = <<l, c, b>>
    BY <1>1 DEF LinesStored
  <2>1. CASE l = k /\ c = chunk[k]
    BY <1>1, <2>1 DEF StoreInv, HalfStored
  <2>2. CASE ~(l = k /\ c = chunk[k])
    <3>1. chunk[l] \in Nat /\ c \in 0 .. chunk[l] - 1
      BY <1>2, <1>3, <2>2 DEF StoreInv, LinePlace
    <3> QED BY <3>1 DEF StoreInv, LinesStored
  <2> QED BY <2>1, <2>2
<1> QED BY <1>6, <1>7, <1>8, <1>9 DEF StoreInv

(* A put writes the bytes of its piece, each to its own address, and       *)
(* nothing else.                                                           *)
LEMMA PutWrites ==
  ASSUME StoreInv, NEW p \in mfc, ExecutePut(p),
         NEW k \in SPUs, NEW c \in 0 .. Chunks - 1, NEW b \in 0 .. LineSize - 1
  PROVE  LET a == base_dma_addr(k, c) + b
         IN  IF /\ k = p.spu /\ c = p.line
                /\ b \in p.piece.from .. p.piece.from + p.piece.size - 1
             THEN big_image'[a] = <<k, c, b>>
             ELSE big_image'[a] = big_image[a]
<1> DEFINE a == base_dma_addr(k, c) + b
           base == base_dma_addr(p.spu, p.line)
           from == p.piece.from
           len == p.piece.size
<1>1. /\ p.spu \in SPUs /\ p.line = chunk[p.spu] /\ p.line \in 0 .. Chunks - 1
      /\ scaled_line[p.spu] = p.line /\ p.piece \in Pieces(p.spu)
  <2>1. /\ p.spu \in SPUs /\ p.line = chunk[p.spu] /\ pc[p.spu] = "wait"
        /\ p.piece \in Pieces(p.spu)
    BY DEF StoreInv, PutsAwaited
  <2>2. /\ chunk[p.spu] \in 0 .. Chunks /\ chunk[p.spu] < Chunks
        /\ scaled_line[p.spu] = chunk[p.spu]
    BY <2>1 DEF StoreInv, LinePlace
  <2> QED BY <2>1, <2>2, LineAssumption
<1>2. k \in 0 .. 15 /\ p.spu \in 0 .. 15 /\ Chunks \in Nat /\ LineSize \in Nat
  BY <1>1, LineAssumption, Divisions
<1>3. from \in Nat /\ len \in Nat /\ from + len <= LineSize
  BY <1>1, <1>2, PieceInLine
<1>4. base_dma_addr(k, c) \in Nat /\ base \in Nat
  <2>1. \A l \in 0 .. 15, d \in 0 .. Chunks - 1 : base_dma_addr(l, d) \in Nat
    <3> SUFFICES ASSUME NEW l \in 0 .. 15, NEW d \in 0 .. Chunks - 1
                 PROVE  base_dma_addr(l, d) \in Nat
      OBVIOUS
    <3> DEFINE n == LinesBefore(l, d)
    <3>1. n \in Nat /\ base_dma_addr(l, d) = n * LineSize
      BY LinesNumbered
    <3> HIDE DEF n
    <3>2. n * LineSize \in Nat
      BY <1>2, <3>1, Z3
    <3> QED BY <3>1, <3>2
  <2> QED BY <1>1, <1>2, <2>1
<1>5. a \in ImageBytes
  BY <1>2, ByteInImage
<1>6. big_image'[a] = IF a \in base + from .. base + from + len - 1
                      THEN <<p.spu, p.line, from + a - (base + from)>>
                      ELSE big_image[a]
  BY <1>1, <1>5 DEF ExecutePut
<1> HIDE DEF base, from, len
<1>7. CASE a \in base + from .. base + from + len - 1
  <2> DEFINE e == a - base
  <2>1. e \in 0 .. LineSize - 1 /\ e \in from .. from + len - 1
        /\ from + a - (base + from) = e /\ base_dma_addr(k, c) + b = base + e
    BY <1>2, <1>3, <1>4, <1>7
  <2> HIDE DEF e
  <2>2. k = p.spu /\ c = p.line /\ b = e
    <3>1. base_dma_addr(k, c) + b = base_dma_addr(p.spu, p.line) + e
      BY <2>1 DEF base
    <3>2. p.spu \in 0 .. 15 /\ p.line \in 0 .. Chunks - 1 /\ e \in 0 .. LineSize - 1
      BY <1>1, <1>2, <2>1
    <3>3. \A l \in 0 .. 15, d \in 0 .. Chunks - 1, f \in 0 .. LineSize - 1 :
            base_dma_addr(k, c) + b = base_dma_addr(l, d) + f => k = l /\ c = d /\ b = f
      BY <1>2, BytesApart, Zenon
    <3> QED BY <3>1, <3>2, <3>3, Zenon
  <2> QED BY <1>6, <1>7, <2>1, <2>2 DEF from, len
<1>8. CASE ~(a \in base + from .. base + from + len - 1)
  <2>1. ~(k = p.spu /\ c = p.line /\ b \in from .. from + len - 1)
    <3> SUFFICES ASSUME k = p.spu, c = p.line, b \in from .. from + len - 1
                 PROVE  FALSE
      OBVIOUS
    <3>1. a = base + b
      BY DEF base
    <3> HIDE DEF a
    <3> QED BY <1>3, <1>4, <1>8, <3>1
  <2> QED BY <1>6, <1>8, <2>1 DEF from, len
<1> QED BY <1>7, <1>8

LEMMA PutKeeps ==
  ASSUME StoreInv, NEW p \in mfc, ExecutePut(p)
  PROVE  StoreInv'
<1>1. UNCHANGED <<pc, chunk, scaled_line>> /\ mfc' = mfc \ {p}
  BY DEF ExecutePut
<1>2. LinePlace' /\ PutsAwaited'
  BY <1>1 DEF StoreInv, LinePlace, PutsAwaited, Pieces, PieceOf
<1>3. Chunks \in Nat /\ chunk \in [SPUs -> 0 .. Chunks]
  BY LineAssumption DEF StoreInv, LinePlace
<1>4. HalfStored'
  <2> SUFFICES ASSUME NEW k \in SPUs, pc[k] = "wait", NEW b \in 0 .. LineSize - 1
               PROVE  \/ big_image'[base_dma_addr(k, chunk[k]) + b] = <<k, chunk[k], b>>
                      \/ \E q \in mfc' : /\ q.spu = k
                           /\ b \in q.piece.from .. q.piece.from + q.piece.size - 1
    BY <1>1 DEF HalfStored
  <2>1. chunk[k] \in 0 .. Chunks - 1
    BY <1>3 DEF StoreInv, LinePlace
  <2>2. CASE /\ k = p.spu /\ chunk[k] = p.line
             /\ b \in p.piece.from .. p.piece.from + p.piece.size - 1
    BY <2>1, <2>2, PutWrites
  <2>3. CASE ~(/\ k = p.spu /\ chunk[k] = p.line
               /\ b \in p.piece.from .. p.piece.from + p.piece.size - 1)
    <3>1. big_image'[base_dma_addr(k, chunk[k]) + b] = big_image[base_dma_addr(k, chunk[k]) + b]
      BY <2>1, <2>3, PutWrites
    <3>2. \/ big_image[base_dma_addr(k, chunk[k]) + b] = <<k, chunk[k], b>>
          \/ \E q \in mfc :
               q.spu = k /\ b \in q.piece.from .. q.piece.from + q.piece.size - 1
      BY DEF StoreInv, HalfStored
    <3>3. \A q \in mfc : /\ q.spu = k
            /\ b \in q.piece.from .. q.piece.from + q.piece.size - 1 => q # p
      BY <2>3 DEF StoreInv, PutsAwaited
    <3> QED BY <1>1, <3>1, <3>2, <3>3
  <2> QED BY <2>2, <2>3
<1>5. LinesStored'
  <2> SUFFICES ASSUME NEW k \in SPUs, NEW c \in 0 .. chunk[k] - 1,
                      NEW b \in 0 .. LineSize - 1
               PROVE  big_image'[base_dma_addr(k, c) + b] = <<k, c, b>>
    BY <1>1 DEF LinesStored
  <2>1. c \in 0 .. Chunks - 1
    BY <1>3
  <2>2. big_image[base_dma_addr(k, c) + b] = <<k, c, b>>
    BY DEF StoreInv, LinesStored
  <2> QED BY <2>1, <2>2, PutWrites
<1> QED BY <1>2, <1>4, <1>5 DEF StoreInv

LEMMA StoreStep == StoreInv /\ [LineNext]_lineVars => StoreInv'
<1> SUFFICES ASSUME StoreInv, [LineNext]_lineVars PROVE StoreInv'
  OBVIOUS
<1>1. CASE UNCHANGED lineVars
  BY <1>1 DEF lineVars, StoreInv, LinePlace, PutsAwaited, Pieces, PieceOf, HalfStored,
              LinesStored
<1> QED BY <1>1, ScaleKeeps, StoreKeeps, WaitKeeps, PutKeeps DEF LineNext

(* However fast the SPUs are, and in whatever order the MFC executes their *)
(* puts, a line an SPU has left behind is in the big image to its last     *)
(* byte, and stays there (paralel_spu.c:147-181).                          *)
THEOREM LinesStayStored == LineSpec => []LinesStored
<1>1. StoreInv => LinesStored
  BY DEF StoreInv
<1> QED BY <1>1, StoreInit, StoreStep, PTL DEF LineSpec

------------------------------------------------------------------------------
(* The averages.                                                           *)
LEMMA Average ==
  ASSUME NEW a \in 0 .. 255, NEW b \in 0 .. 255
  PROVE  /\ spu_avg(a, b) \in 0 .. 255
         /\ 2 * spu_avg(a, b) \in {a + b, a + b + 1}
BY DEF spu_avg

LEMMA AverageCommutes ==
  ASSUME NEW a \in 0 .. 255, NEW b \in 0 .. 255
  PROVE  spu_avg(a, b) = spu_avg(b, a)
<1>1. a + b = b + a
  OBVIOUS
<1> QED BY <1>1 DEF spu_avg

(* Three averages of four bytes: four times the result exceeds their sum   *)
(* by four at most.                                                        *)
LEMMA AverageOfFour ==
  ASSUME NEW a \in 0 .. 255, NEW b \in 0 .. 255, NEW c \in 0 .. 255,
         NEW d \in 0 .. 255
  PROVE  /\ a \in Nat /\ b \in Nat /\ c \in Nat /\ d \in Nat
         /\ a + b + c + d \in Nat
         /\ 4 * spu_avg(spu_avg(a, b), spu_avg(c, d))
              \in (a + b + c + d) .. (a + b + c + d + 4)
<1> DEFINE p == spu_avg(a, b)
           q == spu_avg(c, d)
           r == spu_avg(p, q)
<1>1. p \in 0 .. 255 /\ 2 * p \in {a + b, a + b + 1}
  BY Average, Zenon
<1>2. q \in 0 .. 255 /\ 2 * q \in {c + d, c + d + 1}
  BY Average, Zenon
<1> HIDE DEF p, q
<1>3. r \in 0 .. 255 /\ 2 * r \in {p + q, p + q + 1}
  BY <1>1, <1>2, Average, Zenon
<1> HIDE DEF r
<1>4. 4 * r \in (a + b + c + d) .. (a + b + c + d + 4)
  BY <1>1, <1>2, <1>3
<1> QED BY <1>4 DEF p, q, r

(* The two ways of rounding, for four column sums and four column bytes.   *)
LEMMA Rounding ==
  ASSUME NEW s \in Nat, NEW v \in Nat, 4 * v \in s .. s + 16
  PROVE  (v \div 4) - ((s \div 4) \div 4) \in {0, 1}
BY Z3

(* What the lines of data hold after each step.                            *)
Upper(c) == spu_avg(source[0][c], source[1][c])
Lower(c) == spu_avg(source[2][c], source[3][c])

ScaleInv ==
  /\ ScaleTypeOK
  /\ step \in {"upper", "lower", "both"} => data \in [Four -> [Four -> 0 .. 255]]
  /\ step = "upper" => data = source
  /\ step \in {"lower", "both"} => \A c \in Four : data[0][c] = Upper(c)
  /\ step = "lower" => data[2] = source[2] /\ data[3] = source[3]
  /\ step = "both" => \A c \in Four : data[2][c] = Lower(c)
  /\ step = "columns" => \A c \in Four : data[0][c] = spu_avg(Upper(c), Lower(c))
  /\ CloseToSerial

LEMMA ScaleInvInit == ScaleInit => ScaleInv
<1> SUFFICES ASSUME ScaleInit PROVE ScaleInv
  OBVIOUS
<1>1. [Four -> Levels] \subseteq [Four -> 0 .. 255]
  BY LevelsAssumption
<1>2. source \in [Four -> [Four -> 0 .. 255]]
  BY <1>1 DEF ScaleInit
<1> QED BY <1>2 DEF ScaleInit, ScaleInv, ScaleTypeOK, CloseToSerial

LEMMA AverageLinesType ==
  ASSUME data \in [Four -> [Four -> 0 .. 255]], NEW l \in Four, NEW m \in Four,
         AverageLines(l, m)
  PROVE  /\ data' \in [Four -> [Four -> 0 .. 255]]
         /\ \A c \in Four : data'[l][c] = spu_avg(data[l][c], data[m][c])
         /\ \A k \in Four \ {l} : data'[k] = data[k]
<1>1. ASSUME NEW c \in Four PROVE spu_avg(data[l][c], data[m][c]) \in 0 .. 255
  <2>1. data[l][c] \in 0 .. 255 /\ data[m][c] \in 0 .. 255
    OBVIOUS
  <2> QED BY <2>1, Average, Zenon
<1> QED BY <1>1 DEF AverageLines

LEMMA LinesInv == ScaleInv /\ compute_lines_average => ScaleInv'
<1> SUFFICES ASSUME ScaleInv, compute_lines_average PROVE ScaleInv'
  OBVIOUS
<1>0. 0 \in Four /\ 1 \in Four /\ 2 \in Four /\ 3 \in Four
  BY DEF Four
<1>1. source' = source /\ scaled' = scaled /\ source \in [Four -> [Four -> 0 .. 255]]
        /\ data \in [Four -> [Four -> 0 .. 255]] /\ scaled \in 0 .. 255
        /\ [Four -> [Four -> 0 .. 255]] \subseteq
             [Four -> [Four -> {Unknown} \cup 0 .. 255]]
  BY DEF compute_lines_average, ScaleInv, ScaleTypeOK
<1>2. ASSUME NEW l \in Four, NEW m \in Four, AverageLines(l, m)
      PROVE  /\ data' \in [Four -> [Four -> 0 .. 255]]
             /\ \A c \in Four : data'[l][c] = spu_avg(data[l][c], data[m][c])
             /\ \A k \in Four \ {l} : data'[k] = data[k]
  BY <1>1, <1>2, AverageLinesType
<1>3. CASE step = "upper" /\ AverageLines(0, 1) /\ step' = "lower"
  <2>1. /\ data' \in [Four -> [Four -> 0 .. 255]]
        /\ \A c \in Four : data'[0][c] = spu_avg(data[0][c], data[1][c])
        /\ data'[2] = data[2] /\ data'[3] = data[3]
    BY <1>0, <1>2, <1>3
  <2>2. data = source
    BY <1>3 DEF ScaleInv
  <2>3. \A c \in Four : data'[0][c] = Upper(c)'
    BY <1>1, <2>1, <2>2 DEF Upper
  <2> QED BY <1>1, <1>3, <2>1, <2>2, <2>3 DEF ScaleInv, ScaleTypeOK, CloseToSerial
<1>4. CASE step = "lower" /\ AverageLines(2, 3) /\ step' = "both"
  <2>1. /\ data' \in [Four -> [Four -> 0 .. 255]]
        /\ \A c \in Four : data'[2][c] = spu_avg(data[2][c], data[3][c])
        /\ data'[0] = data[0]
    BY <1>0, <1>2, <1>4
  <2>2. /\ data[2] = source[2] /\ data[3] = source[3]
        /\ \A c \in Four : data[0][c] = Upper(c)
    BY <1>4 DEF ScaleInv
  <2>3. \A c \in Four : data'[0][c] = Upper(c)' /\ data'[2][c] = Lower(c)'
    BY <1>1, <2>1, <2>2 DEF Upper, Lower
  <2> QED BY <1>1, <1>4, <2>1, <2>3 DEF ScaleInv, ScaleTypeOK, CloseToSerial
<1>5. CASE step = "both" /\ AverageBoth /\ step' = "columns"
  <2>1. \A c \in Four : data[0][c] = Upper(c) /\ data[2][c] = Lower(c)
    BY <1>5 DEF ScaleInv
  <2>2. ASSUME NEW line \in Four, NEW c \in Four
        PROVE  (IF line < 2 THEN spu_avg(data[line + 2][c], data[line][c])
                ELSE Unknown) \in {Unknown} \cup 0 .. 255
    <3>1. CASE line < 2
      <4>1. line + 2 \in Four
        BY <3>1 DEF Four
      <4>2. data[line + 2][c] \in 0 .. 255 /\ data[line][c] \in 0 .. 255
        BY <1>1, <4>1
      <4> QED BY <3>1, <4>2, Average, Zenon
    <3> QED BY <3>1
  <2>3. data' \in [Four -> [Four -> {Unknown} \cup 0 .. 255]]
    <3> DEFINE T == {Unknown} \cup 0 .. 255
               A(line, c) == IF line < 2 THEN spu_avg(data[line + 2][c], data[line][c])
                             ELSE Unknown
    <3>1. \A line, c \in Four : A(line, c) \in T
      BY <2>2
    <3>2. data' = [line \in Four |-> [c \in Four |-> A(line, c)]]
      BY <1>5 DEF AverageBoth
    <3> HIDE DEF T, A
    <3>3. data' \in [Four -> [Four -> T]]
      BY <3>1, <3>2
    <3> QED BY <3>3 DEF T
  <2>4. \A c \in Four : data'[0][c] = spu_avg(data[2][c], data[0][c])
    <3> DEFINE A(line, c) == IF line < 2 THEN spu_avg(data[line + 2][c], data[line][c])
                             ELSE Unknown
    <3>1. data' = [line \in Four |-> [c \in Four |-> A(line, c)]]
      BY <1>5 DEF AverageBoth
    <3>2. \A c \in Four : A(0, c) = spu_avg(data[2][c], data[0][c])
      OBVIOUS
    <3> HIDE DEF A
    <3>3. \A c \in Four : data'[0][c] = A(0, c)
      BY <1>0, <3>1, Zenon
    <3> QED BY <3>2, <3>3
  <2>5. ASSUME NEW c \in Four
        PROVE  spu_avg(Lower(c), Upper(c)) = spu_avg(Upper(c), Lower(c))
    <3>1. /\ source[0][c] \in 0 .. 255 /\ source[1][c] \in 0 .. 255
          /\ source[2][c] \in 0 .. 255 /\ source[3][c] \in 0 .. 255
      BY <1>0, <1>1
    <3>2. Upper(c) \in 0 .. 255
      BY <3>1, Average, Zenon DEF Upper
    <3>3. Lower(c) \in 0 .. 255
      BY <3>1, Average, Zenon DEF Lower
    <3> QED BY <3>2, <3>3, AverageCommutes
  <2>6. \A c \in Four : Upper(c)' = Upper(c) /\ Lower(c)' = Lower(c)
    BY <1>1 DEF Upper, Lower
  <2>7. \A c \in Four : data'[0][c] = spu_avg(Upper(c)', Lower(c)')
    BY <2>1, <2>4, <2>5, <2>6
  <2> QED BY <1>1, <1>5, <2>3, <2>7 DEF ScaleInv, ScaleTypeOK, CloseToSerial
<1> QED BY <1>3, <1>4, <1>5 DEF compute_lines_average

LEMMA ColumnsInv == ScaleInv /\ compute_columns_average => ScaleInv'
<1> SUFFICES ASSUME ScaleInv, compute_columns_average PROVE ScaleInv'
  OBVIOUS
<1> DEFINE S(c) == source[0][c] + source[1][c] + source[2][c] + source[3][c]
<1>1. ASSUME NEW c \in Four
      PROVE  /\ source[0][c] \in Nat /\ source[1][c] \in Nat
             /\ source[2][c] \in Nat /\ source[3][c] \in Nat
             /\ data[0][c] \in 0 .. 255
             /\ S(c) \in Nat /\ 4 * data[0][c] \in S(c) .. S(c) + 4
  <2>1. /\ source[0][c] \in 0 .. 255 /\ source[1][c] \in 0 .. 255
        /\ source[2][c] \in 0 .. 255 /\ source[3][c] \in 0 .. 255
    BY DEF ScaleInv, ScaleTypeOK, Four
  <2>2. data[0][c] = spu_avg(spu_avg(source[0][c], source[1][c]),
                             spu_avg(source[2][c], source[3][c]))
    <3>1. data[0][c] = spu_avg(Upper(c), Lower(c))
      BY DEF ScaleInv, compute_columns_average
    <3> QED BY <3>1 DEF Upper, Lower
  <2>3. /\ source[0][c] \in Nat /\ source[1][c] \in Nat
        /\ source[2][c] \in Nat /\ source[3][c] \in Nat
        /\ S(c) \in Nat /\ 4 * data[0][c] \in S(c) .. S(c) + 4
    <3> DEFINE a == source[0][c]
               b == source[1][c]
               e == source[2][c]
               d == source[3][c]
    <3>1. a \in 0 .. 255 /\ b \in 0 .. 255 /\ e \in 0 .. 255 /\ d \in 0 .. 255
      BY <2>1
    <3>2. data[0][c] = spu_avg(spu_avg(a, b), spu_avg(e, d))
      BY <2>2
    <3> HIDE DEF a, b, e, d
    <3>3. /\ a \in Nat /\ b \in Nat /\ e \in Nat /\ d \in Nat
          /\ a + b + e + d \in Nat
          /\ 4 * spu_avg(spu_avg(a, b), spu_avg(e, d))
               \in (a + b + e + d) .. (a + b + e + d + 4)
      BY <3>1, AverageOfFour, Zenon
    <3> QED BY <3>2, <3>3 DEF a, b, e, d
  <2>4. data[0][c] \in 0 .. 255
    <3>1. /\ spu_avg(source[0][c], source[1][c]) \in 0 .. 255
          /\ spu_avg(source[2][c], source[3][c]) \in 0 .. 255
      BY <2>1, Average, Zenon
    <3>2. spu_avg(spu_avg(source[0][c], source[1][c]),
                  spu_avg(source[2][c], source[3][c])) \in 0 .. 255
      BY <3>1, Average, Zenon
    <3> QED BY <2>2, <3>2
  <2> QED BY <2>1, <2>3, <2>4
<1> DEFINE Close(c) == /\ S(c) \in Nat /\ data[0][c] \in 0 .. 255
                      /\ 4 * data[0][c] \in S(c) .. S(c) + 4
<1>2. \A c \in Four : Close(c)
  <2>1. ASSUME NEW c \in Four PROVE Close(c)
    <3> HIDE DEF S
    <3> QED BY <1>1
  <2> HIDE DEF Close
  <2> QED BY <2>1
<1> DEFINE s == S(0) + S(1) + S(2) + S(3)
           v == data[0][0] + data[0][1] + data[0][2] + data[0][3]
<1>3. s \in Nat /\ v \in 0 .. 1020 /\ 4 * v \in s .. s + 16
  <2> HIDE DEF S
  <2>1. /\ S(0) \in Nat /\ data[0][0] \in 0 .. 255 /\ 4 * data[0][0] \in S(0) .. S(0) + 4
        /\ S(1) \in Nat /\ data[0][1] \in 0 .. 255 /\ 4 * data[0][1] \in S(1) .. S(1) + 4
        /\ S(2) \in Nat /\ data[0][2] \in 0 .. 255 /\ 4 * data[0][2] \in S(2) .. S(2) + 4
        /\ S(3) \in Nat /\ data[0][3] \in 0 .. 255 /\ 4 * data[0][3] \in S(3) .. S(3) + 4
    <3>1. Close(0) /\ Close(1) /\ Close(2) /\ Close(3)
      <4> HIDE DEF Close
      <4> QED BY <1>2 DEF Four
    <3> QED BY <3>1
  <2> DEFINE s0 == S(0)
             s1 == S(1)
             s2 == S(2)
             s3 == S(3)
             v0 == data[0][0]
             v1 == data[0][1]
             v2 == data[0][2]
             v3 == data[0][3]
  <2>2. /\ s0 \in Nat /\ v0 \in 0 .. 255 /\ 4 * v0 \in s0 .. s0 + 4
        /\ s1 \in Nat /\ v1 \in 0 .. 255 /\ 4 * v1 \in s1 .. s1 + 4
        /\ s2 \in Nat /\ v2 \in 0 .. 255 /\ 4 * v2 \in s2 .. s2 + 4
        /\ s3 \in Nat /\ v3 \in 0 .. 255 /\ 4 * v3 \in s3 .. s3 + 4
    BY <2>1
  <2> HIDE DEF s0, s1, s2, s3, v0, v1, v2, v3
  <2>3. /\ s0 + s1 + s2 + s3 \in Nat
        /\ v0 + v1 + v2 + v3 \in 0 .. 1020
        /\ 4 * (v0 + v1 + v2 + v3)
             \in (s0 + s1 + s2 + s3) .. (s0 + s1 + s2 + s3 + 16)
    BY <2>2
  <2> QED BY <2>3 DEF s0, s1, s2, s3, v0, v1, v2, v3
<1>4. scaled' = v \div 4
  BY DEF compute_columns_average, Sum
<1>5. scale_area_avg(source) = (s \div 4) \div 4
  <2>1. Sum(source[0]) + Sum(source[1]) + Sum(source[2]) + Sum(source[3]) = s
    <3>1. \A c \in Four : /\ source[0][c] \in Nat /\ source[1][c] \in Nat
                          /\ source[2][c] \in Nat /\ source[3][c] \in Nat
      <4> HIDE DEF S
      <4> QED BY <1>1
    <3>2. 0 \in Four /\ 1 \in Four /\ 2 \in Four /\ 3 \in Four
      BY DEF Four
    <3> QED BY <3>1, <3>2 DEF Sum
  <2> QED BY <2>1 DEF scale_area_avg
<1> HIDE DEF s, v
<1>6. scaled' - scale_area_avg(source) \in {0, 1} /\ scaled' \in 0 .. 255
  <2>1. v \div 4 \in 0 .. 255
    BY <1>3
  <2> QED BY <1>3, <1>4, <1>5, <2>1, Rounding
<1>7. scale_area_avg(source)' = scale_area_avg(source)
  BY DEF compute_columns_average, scale_area_avg, Sum
<1>8. CloseToSerial'
  BY <1>6, <1>7 DEF CloseToSerial
<1> QED BY <1>6, <1>8 DEF compute_columns_average, ScaleInv, ScaleTypeOK

LEMMA ScaleInvariance == ScaleSpec => []ScaleInv
<1>1. ScaleInv /\ UNCHANGED scaleVars => ScaleInv'
  BY DEF ScaleInv, ScaleTypeOK, CloseToSerial, scaleVars, Upper, Lower
<1>2. ScaleInv /\ [ScaleNext]_scaleVars => ScaleInv'
  BY <1>1, LinesInv, ColumnsInv DEF ScaleNext
<1> QED BY <1>2, ScaleInvInit, PTL DEF ScaleSpec

(* The averages of bytes are bytes: nothing overflows on the way.          *)
THEOREM ScaleTypeCorrect == ScaleSpec => []ScaleTypeOK
<1>1. ScaleInv => ScaleTypeOK
  BY DEF ScaleInv
<1> QED BY <1>1, ScaleInvariance, PTL

(* For any sixteen bytes the vector code's result is the serial program's  *)
(* or one more (paralel_spu.c:40-78, serial.c:201-219).                    *)
THEOREM AlwaysCloseToSerial == ScaleSpec => []CloseToSerial
<1>1. ScaleInv => CloseToSerial
  BY DEF ScaleInv
<1> QED BY <1>1, ScaleInvariance, PTL

------------------------------------------------------------------------------
(* FloatCompare.                                                           *)

(* Induction over a set of natural numbers: a number outside it would have *)
(* a least one beside it.                                                  *)
LEMMA NatLessWellFounded == IsWellFoundedOn({p \in Nat \X Nat : p[1] < p[2]}, Nat)
BY NatLessThanWellFounded DEF OpToRel

LEMMA SetInduction ==
  ASSUME NEW T \in SUBSET Nat, 0 \in T, \A n \in T : n + 1 \in T
  PROVE  T = Nat
<1> DEFINE Less == {p \in Nat \X Nat : p[1] < p[2]}
           Others == Nat \ T
<1> SUFFICES ASSUME Others # {} PROVE FALSE
  OBVIOUS
<1>1. PICK l \in Others : \A m \in Others : ~ (<<m, l>> \in Less)
  <2>1. IsWellFoundedOn(Less, Nat) /\ Others \subseteq Nat
    BY NatLessWellFounded
  <2> HIDE DEF Less, Others
  <2> QED BY <2>1, WFMin
<1>2. l # 0 /\ l - 1 \in Nat /\ (l - 1) + 1 = l
  OBVIOUS
<1>3. l - 1 \notin T
  BY <1>2
<1>4. <<l - 1, l>> \in Less
  BY <1>2
<1> QED BY <1>1, <1>2, <1>3, <1>4

------------------------------------------------------------------------------
(* The powers of two, up to the n-th.                                      *)
Powers(s, n) ==
  /\ s \in [0 .. n -> Nat \ {0}] /\ s[0] = 1
  /\ \A m \in 1 .. n : s[m] = 2 * s[m - 1]

LEMMA PowersExist == \A n \in Nat : \E s : Powers(s, n)
<1> DEFINE T == {n \in Nat : \E s : Powers(s, n)}
<1>1. 0 \in T
  <2>1. Powers([m \in 0 .. 0 |-> 1], 0)
    BY DEF Powers
  <2> QED BY <2>1
<1>2. ASSUME NEW n \in T PROVE n + 1 \in T
  <2>1. PICK s : Powers(s, n)
    OBVIOUS
  <2> DEFINE t == [m \in 0 .. n + 1 |-> IF m <= n THEN s[m] ELSE 2 * s[n]]
  <2>2. n \in Nat /\ s[n] \in Nat \ {0}
    BY <2>1 DEF Powers
  <2>3. t \in [0 .. n + 1 -> Nat \ {0}] /\ t[0] = 1
    BY <2>1, <2>2 DEF Powers
  <2>4. ASSUME NEW m \in 1 .. n + 1 PROVE t[m] = 2 * t[m - 1]
    <3>1. CASE m <= n
      <4>1. t[m] = s[m] /\ t[m - 1] = s[m - 1] /\ m \in 1 .. n
        BY <2>2, <3>1
      <4>2. s[m] = 2 * s[m - 1]
        BY <2>1, <4>1 DEF Powers
      <4> QED BY <4>1, <4>2
    <3>2. CASE ~(m <= n)
      <4>1. m = n + 1 /\ m - 1 = n
        BY <2>2, <3>2
      <4>2. t[m] = 2 * s[n] /\ t[n] = s[n]
        BY <2>2, <4>1
      <4> HIDE DEF t
      <4> QED BY <4>1, <4>2
    <3> QED BY <3>1, <3>2
  <2> HIDE DEF t
  <2>5. Powers(t, n + 1)
    BY <2>3, <2>4 DEF Powers
  <2> QED BY <2>2, <2>5
<1>3. T = Nat
  <2> HIDE DEF T
  <2>1. T \in SUBSET Nat
    BY DEF T
  <2> QED BY <1>1, <1>2, <2>1, SetInduction
<1> QED BY <1>3

LEMMA PowersUnique ==
  ASSUME NEW n \in Nat, NEW l \in Nat, NEW s, NEW t, Powers(s, n), Powers(t, l)
  PROVE  \A m \in Nat : m <= n /\ m <= l => s[m] = t[m]
<1> DEFINE T == {m \in Nat : m <= n /\ m <= l => s[m] = t[m]}
<1>1. 0 \in T
  BY DEF Powers
<1>2. ASSUME NEW m \in T PROVE m + 1 \in T
  <2> SUFFICES ASSUME m + 1 <= n, m + 1 <= l PROVE s[m + 1] = t[m + 1]
    OBVIOUS
  <2>1. m \in Nat /\ s[m] = t[m]
    OBVIOUS
  <2>2. m + 1 \in 1 .. n /\ m + 1 \in 1 .. l /\ (m + 1) - 1 = m
    BY <2>1
  <2>3. s[m + 1] = 2 * s[m] /\ t[m + 1] = 2 * t[m]
    BY <2>2 DEF Powers
  <2> QED BY <2>1, <2>3
<1>3. T = Nat
  <2> HIDE DEF T
  <2>1. T \in SUBSET Nat
    BY DEF T
  <2> QED BY <1>1, <1>2, <2>1, SetInduction
<1> QED BY <1>3

(* So Pow2 is what its definition says.                                    *)
LEMMA Pow2Is ==
  /\ Pow2 \in [Nat -> Nat \ {0}] /\ Pow2[0] = 1
  /\ \A n \in Nat : Pow2[n + 1] = 2 * Pow2[n]
<1> DEFINE S(n) == CHOOSE s : Powers(s, n)
           P == [n \in Nat |-> S(n)[n]]
           F(s) == [n \in Nat |-> IF n = 0 THEN 1 ELSE 2 * s[n - 1]]
<1>1. \A n \in Nat : Powers(S(n), n)
  BY PowersExist
<1> HIDE DEF S
<1>2. ASSUME NEW n \in Nat \ {0} PROVE P[n] = 2 * P[n - 1]
  <2>1. n - 1 \in Nat /\ n \in 1 .. n /\ n - 1 <= n /\ n - 1 <= n - 1
    OBVIOUS
  <2>2. S(n)[n] = 2 * S(n)[n - 1]
    BY <1>1, <2>1 DEF Powers
  <2>3. S(n)[n - 1] = S(n - 1)[n - 1]
    BY <1>1, <2>1, PowersUnique
  <2>4. P[n] = S(n)[n] /\ P[n - 1] = S(n - 1)[n - 1]
    BY <2>1
  <2> QED BY <2>2, <2>3, <2>4
<1>3. P[0] = 1
  BY <1>1 DEF Powers
<1>4. P = F(P)
  <2>1. ASSUME NEW n \in Nat
        PROVE  P[n] = IF n = 0 THEN 1 ELSE 2 * P[n - 1]
    BY <1>2, <1>3
  <2>2. P = [n \in Nat |-> P[n]]
    OBVIOUS
  <2> HIDE DEF P
  <2> QED BY <2>1, <2>2
<1>5. Pow2 = F(Pow2)
  <2>1. Pow2 = CHOOSE s : s = F(s)
    BY DEF Pow2
  <2>2. \E s : s = F(s)
    BY <1>4
  <2> HIDE DEF F, P
  <2> QED BY <2>1, <2>2
<1>6. \A n \in Nat : Pow2[n] = IF n = 0 THEN 1 ELSE 2 * Pow2[n - 1]
  BY <1>5
<1>7. Pow2[0] = 1 /\ \A n \in Nat : Pow2[n + 1] = 2 * Pow2[n]
  <2>1. Pow2[0] = 1
    BY <1>6
  <2>2. ASSUME NEW n \in Nat PROVE Pow2[n + 1] = 2 * Pow2[n]
    <3>1. n + 1 \in Nat /\ n + 1 # 0 /\ (n + 1) - 1 = n
      OBVIOUS
    <3> QED BY <1>6, <3>1
  <2> QED BY <2>1, <2>2
<1> DEFINE T == {n \in Nat : Pow2[n] \in Nat \ {0}}
<1>8. T = Nat
  <2>1. 0 \in T /\ \A n \in T : n + 1 \in T
    BY <1>7
  <2> HIDE DEF T
  <2>2. T \in SUBSET Nat
    BY DEF T
  <2> QED BY <2>1, <2>2, SetInduction
<1>9. Pow2 \in [Nat -> Nat \ {0}]
  <2>1. Pow2 = [n \in Nat |-> Pow2[n]]
    BY <1>5
  <2>2. \A n \in Nat : Pow2[n] \in Nat \ {0}
    BY <1>8
  <2> QED BY <2>1, <2>2
<1> QED BY <1>7, <1>9

LEMMA Pow2Grows ==
  ASSUME NEW m \in Nat, NEW n \in Nat, m <= n
  PROVE  Pow2[m] <= Pow2[n]
<1> DEFINE T == {d \in Nat : Pow2[m] <= Pow2[m + d]}
<1>1. 0 \in T
  BY Pow2Is
<1>2. ASSUME NEW d \in T PROVE d + 1 \in T
  <2>1. d \in Nat /\ m + d \in Nat /\ (m + d) + 1 = m + (d + 1)
    OBVIOUS
  <2>2. Pow2[m + (d + 1)] = 2 * Pow2[m + d]
    BY <2>1, Pow2Is
  <2>3. Pow2[m] \in Nat /\ Pow2[m + d] \in Nat /\ Pow2[m] <= Pow2[m + d]
    BY <2>1, Pow2Is
  <2> QED BY <2>1, <2>2, <2>3
<1>3. T = Nat
  <2> HIDE DEF T
  <2>1. T \in SUBSET Nat
    BY DEF T
  <2> QED BY <1>1, <1>2, <2>1, SetInduction
<1>4. n - m \in Nat /\ m + (n - m) = n
  OBVIOUS
<1>5. \A d \in Nat : Pow2[m] <= Pow2[m + d]
  BY <1>3
<1> QED BY <1>4, <1>5

LEMMA Pow2Adds ==
  ASSUME NEW m \in Nat, NEW n \in Nat
  PROVE  Pow2[m + n] = Pow2[m] * Pow2[n]
<1> DEFINE T == {d \in Nat : Pow2[m + d] = Pow2[m] * Pow2[d]}
<1>1. 0 \in T
  BY Pow2Is
<1>2. ASSUME NEW d \in T PROVE d + 1 \in T
  <2>1. d \in Nat /\ m + d \in Nat /\ (m + d) + 1 = m + (d + 1)
    OBVIOUS
  <2>2. Pow2[m + (d + 1)] = 2 * Pow2[m + d] /\ Pow2[d + 1] = 2 * Pow2[d]
    BY <2>1, Pow2Is
  <2>3. Pow2[m] \in Nat /\ Pow2[d] \in Nat /\ Pow2[m + d] = Pow2[m] * Pow2[d]
    BY <2>1, Pow2Is
  <2>4. 2 * (Pow2[m] * Pow2[d]) = Pow2[m] * (2 * Pow2[d])
    BY <2>3
  <2> QED BY <2>1, <2>2, <2>3, <2>4
<1>3. T = Nat
  <2> HIDE DEF T
  <2>1. T \in SUBSET Nat
    BY DEF T
  <2> QED BY <1>1, <1>2, <2>1, SetInduction
<1> QED BY <1>3

------------------------------------------------------------------------------
(* The order of the patterns and of the numbers.                           *)
LEMMA Widths ==
  /\ Pow2[ManBits] \in Nat /\ Pow2[ManBits] >= 2
  /\ Half \in Nat /\ Half >= 2 * Pow2[ManBits]
  /\ Infinity \in Nat /\ Infinity = Half - Pow2[ManBits]
  /\ max_ulps \in Nat /\ max_ulps < Pow2[ManBits]
<1>1. ManBits - 1 \in Nat /\ ManBits = (ManBits - 1) + 1 /\ ManBits \in Nat
  BY CompareAssumption
<1>2. Pow2[ManBits] = 2 * Pow2[ManBits - 1] /\ Pow2[ManBits - 1] \in Nat \ {0}
  BY <1>1, Pow2Is
<1>3. ManBits + 1 \in Nat /\ ExpBits + ManBits \in Nat /\ ManBits + 1 <= ExpBits + ManBits
  BY CompareAssumption
<1>4. Pow2[ManBits + 1] = 2 * Pow2[ManBits] /\ Pow2[ManBits + 1] <= Half /\ Half \in Nat
  BY <1>1, <1>3, Pow2Is, Pow2Grows DEF Half
<1> QED BY <1>2, <1>4, CompareAssumption DEF Infinity

LEMMA ExponentAndMantissa ==
  ASSUME NEW m \in Nat, NEW b \in Nat \ {0}
  PROVE  /\ m \div b \in Nat /\ m % b \in 0 .. b - 1
         /\ m = b * (m \div b) + (m % b)
BY Z3

LEMMA LaterExponent ==
  ASSUME NEW m \in Nat, NEW n \in Nat, NEW b \in Nat \ {0}, m < n
  PROVE  m \div b < n \div b \/ (m \div b = n \div b /\ m % b < n % b)
<1> DEFINE e == m \div b  f == n \div b
<1>1. e \in Nat /\ f \in Nat /\ m % b \in 0 .. b - 1 /\ n % b \in 0 .. b - 1
      /\ m = b * e + (m % b) /\ n = b * f + (n % b)
  BY ExponentAndMantissa
<1> HIDE DEF e, f
<1>2. f + 1 <= e => b * f + b <= b * e
  BY <1>1, Z3
<1>3. ~(f < e)
  BY <1>1, <1>2
<1>4. e = f => m % b < n % b
  BY <1>1
<1> QED BY <1>1, <1>3, <1>4 DEF e, f

(* A magnitude lies between the power of its exponent and the next one.    *)
LEMMA SizeBounds ==
  ASSUME NEW m \in Nat
  PROVE  LET b == Pow2[ManBits]  e == m \div b
         IN  /\ Size(m) \in Nat
             /\ Size(m) < b * Pow2[e]
             /\ e # 0 => e - 1 \in Nat /\ Size(m) >= b * Pow2[e - 1]
<1> DEFINE b == Pow2[ManBits]  e == m \div b  r == m % b
<1>1. b \in Nat \ {0}
  BY Widths
<1>2. e \in Nat /\ r \in 0 .. b - 1
  BY <1>1, ExponentAndMantissa
<1>3. Size(m) = IF e = 0 THEN r ELSE (b + r) * Pow2[e - 1]
  BY DEF Size
<1> HIDE DEF b, e, r
<1>4. CASE e = 0
  <2>1. b * Pow2[e] = b
    BY <1>1, <1>4, Pow2Is
  <2> QED BY <1>1, <1>2, <1>3, <1>4, <2>1 DEF b, e
<1>5. CASE e # 0
  <2> DEFINE w == Pow2[e - 1]
  <2>1. e - 1 \in Nat /\ (e - 1) + 1 = e
    BY <1>2, <1>5
  <2>2. w \in Nat \ {0} /\ Pow2[e] = 2 * w
    BY <2>1, Pow2Is
  <2>3. Size(m) = (b + r) * w
    BY <1>3, <1>5
  <2> HIDE DEF w
  <2>4. (b + r) * w \in Nat /\ (b + r) * w < b * (2 * w) /\ (b + r) * w >= b * w
    <3>1. (b + r) * w = b * w + r * w /\ b * (2 * w) = b * w + b * w
      BY <1>1, <1>2, <2>2, Z3
    <3>2. r * w >= 0 /\ r * w < b * w /\ b * w \in Nat /\ r * w \in Nat
      BY <1>1, <1>2, <2>2, Z3
    <3> QED BY <3>1, <3>2
  <2> QED BY <1>5, <2>1, <2>2, <2>3, <2>4 DEF b, e, w
<1> QED BY <1>4, <1>5

LEMMA SizeZero == Size(0) = 0
<1> DEFINE b == Pow2[ManBits]
<1>1. b \in Nat \ {0}
  BY Widths
<1>2. Size(0) = IF 0 \div b = 0 THEN 0 % b ELSE (b + (0 % b)) * Pow2[(0 \div b) - 1]
  BY DEF Size
<1> HIDE DEF b
<1>3. 0 \div b = 0 /\ 0 % b = 0
  BY <1>1, Z3
<1> QED BY <1>2, <1>3

LEMMA SizeGrows ==
  ASSUME NEW m \in Nat, NEW n \in Nat, m < n
  PROVE  Size(m) < Size(n)
<1> DEFINE b == Pow2[ManBits]  e == m \div b  f == n \div b  r == m % b  s == n % b
<1>1. b \in Nat \ {0}
  BY Widths
<1>2. e \in Nat /\ f \in Nat /\ r \in 0 .. b - 1 /\ s \in 0 .. b - 1
  BY <1>1, ExponentAndMantissa
<1>3. CASE e < f
  <2>1. Size(m) \in Nat /\ Size(m) < b * Pow2[e]
    BY SizeBounds
  <2>2. f - 1 \in Nat /\ Size(n) \in Nat /\ Size(n) >= b * Pow2[f - 1]
    <3>1. f # 0
      BY <1>2, <1>3
    <3> QED BY <3>1, SizeBounds
  <2> HIDE DEF b, e, f
  <2>3. Pow2[e] <= Pow2[f - 1] /\ Pow2[e] \in Nat /\ Pow2[f - 1] \in Nat
    <3>1. e \in Nat /\ f - 1 \in Nat /\ e <= f - 1
      BY <1>2, <1>3, <2>2
    <3> QED BY <3>1, Pow2Is, Pow2Grows
  <2>4. b * Pow2[e] <= b * Pow2[f - 1] /\ b * Pow2[e] \in Nat /\ b * Pow2[f - 1] \in Nat
    BY <1>1, <2>3, Z3
  <2> QED BY <2>1, <2>2, <2>4
<1>4. CASE e = f /\ r < s
  <2>1. /\ Size(m) = IF e = 0 THEN r ELSE (b + r) * Pow2[e - 1]
        /\ Size(n) = IF f = 0 THEN s ELSE (b + s) * Pow2[f - 1]
    BY DEF Size
  <2> HIDE DEF b, e, f, r, s
  <2>2. CASE e = 0
    BY <1>4, <2>1, <2>2
  <2>3. CASE e # 0
    <3> DEFINE w == Pow2[e - 1]
    <3>1. w \in Nat \ {0}
      BY <1>2, <2>3, Pow2Is
    <3>2. Size(m) = (b + r) * w /\ Size(n) = (b + s) * w
      BY <1>4, <2>1, <2>3
    <3> HIDE DEF w
    <3>3. (b + r) * w < (b + s) * w
      BY <1>1, <1>2, <1>4, <3>1, Z3
    <3> QED BY <3>2, <3>3
  <2> QED BY <2>2, <2>3
<1> QED BY <1>1, <1>3, <1>4, LaterExponent

(* The number at place o of their order.                                   *)
NumberAt(o) == IF o >= 0 THEN Size(o) ELSE -Size(-o)

LEMMA NumbersGrow ==
  ASSUME NEW o \in Int, NEW u \in Int
  PROVE  /\ NumberAt(o) \in Int
         /\ o < u <=> NumberAt(o) < NumberAt(u)
         /\ NumberAt(o) = NumberAt(u) => o = u
<1>1. \A m \in Nat : Size(m) \in Nat
  BY SizeBounds
<1>2. Size(0) = 0
  BY SizeZero
<1>3. \A m \in Nat : NumberAt(m) = Size(m) /\ NumberAt(-m) = -Size(m)
  BY <1>1, <1>2 DEF NumberAt
<1>4. ASSUME NEW v \in Int, NEW t \in Int, v < t PROVE NumberAt(v) < NumberAt(t)
  <2>1. CASE v >= 0
    BY <1>1, <1>3, <1>4, <2>1, SizeGrows
  <2>2. CASE v < 0 /\ t <= 0
    <3>1. -v \in Nat /\ -t \in Nat /\ -t < -v /\ v = -(-v) /\ t = -(-t)
      BY <1>4, <2>2
    <3>2. Size(-t) < Size(-v)
      BY <3>1, SizeGrows
    <3>3. NumberAt(v) = -Size(-v) /\ NumberAt(t) = -Size(-t)
      BY <1>3, <3>1
    <3> QED BY <1>1, <3>1, <3>2, <3>3
  <2>3. CASE v < 0 /\ t > 0
    <3>1. -v \in Nat /\ 0 < -v /\ t \in Nat
      BY <2>3
    <3>2. Size(0) < Size(-v) /\ Size(0) < Size(t)
      BY <2>3, <3>1, SizeGrows
    <3> QED BY <1>1, <1>2, <2>3, <3>1, <3>2 DEF NumberAt
  <2> QED BY <2>1, <2>2, <2>3
<1>5. NumberAt(o) \in Int /\ NumberAt(u) \in Int
  BY <1>1 DEF NumberAt
<1> HIDE DEF NumberAt
<1>6. o < u \/ o = u \/ u < o
  OBVIOUS
<1> QED BY <1>4, <1>5, <1>6

(* The code's order of the patterns is the order of the numbers.           *)
LEMMA OrderedIs ==
  ASSUME NEW p \in Patterns
  PROVE  /\ Magnitude(p) \in 0 .. Half - 1
         /\ Ordered(p) = IF p < Half THEN Magnitude(p) ELSE -Magnitude(p)
         /\ Number(p) = NumberAt(Ordered(p))
<1>1. Half \in Nat \ {0} /\ p \in 0 .. 2 * Half - 1
  BY Widths DEF Patterns
<1>2. Magnitude(p) = IF p < Half THEN p ELSE p - Half
  <2> HIDE DEF Half
  <2>1. CASE p < Half
    <3>1. p % Half = p
      BY <1>1, <2>1, Z3
    <3> QED BY <2>1, <3>1 DEF Magnitude
  <2>2. CASE ~(p < Half)
    <3>1. p % Half = p - Half
      BY <1>1, <2>2, Z3
    <3> QED BY <2>2, <3>1 DEF Magnitude
  <2> QED BY <2>1, <2>2
<1>3. Magnitude(p) \in 0 .. Half - 1
  BY <1>1, <1>2
<1>4. Ordered(p) = IF p < Half THEN Magnitude(p) ELSE -Magnitude(p)
  BY <1>1, <1>2 DEF Ordered, Signed
<1>5. \A m \in Nat : NumberAt(m) = Size(m) /\ NumberAt(-m) = -Size(m)
  <2>1. NumberAt(0) = Size(0) /\ Size(0) \in Nat /\ \A m \in Nat : Size(m) \in Nat
    BY SizeBounds DEF NumberAt
  <2>2. Size(0) = 0
    BY SizeZero
  <2> QED BY <2>1, <2>2 DEF NumberAt
<1>6. Number(p) = NumberAt(Ordered(p))
  BY <1>3, <1>4, <1>5 DEF Number
<1> QED BY <1>3, <1>4, <1>6

------------------------------------------------------------------------------
(* Counting the numbers from one to another.                               *)
LEMMA NumbersAre == Numbers = {NumberAt(o) : o \in -Infinity .. Infinity}
<1>1. Half \in Nat /\ Infinity \in Nat /\ Infinity < Half
  BY Widths
<1>2. ASSUME NEW p \in Patterns, ~IsNaN(p)
      PROVE  \E o \in -Infinity .. Infinity : Number(p) = NumberAt(o)
  <2>1. Magnitude(p) \in Nat /\ Magnitude(p) <= Infinity
    BY <1>1, <1>2, OrderedIs DEF IsNaN
  <2>2. Ordered(p) \in -Infinity .. Infinity
    BY <1>1, <2>1, OrderedIs
  <2> QED BY <2>2, OrderedIs
<1>3. ASSUME NEW o \in -Infinity .. Infinity
      PROVE  \E p \in Patterns : ~IsNaN(p) /\ Number(p) = NumberAt(o)
  <2> DEFINE p == IF o >= 0 THEN o ELSE Half - o
  <2>1. p \in Patterns /\ (p < Half <=> o >= 0)
    BY <1>1 DEF Patterns
  <2>2. Magnitude(p) = IF o >= 0 THEN o ELSE -o
    <3>1. CASE o >= 0
      <4>1. o % Half = o
        <5> HIDE DEF Half
        <5> QED BY <1>1, <3>1, Z3
      <4> QED BY <3>1, <4>1 DEF Magnitude
    <3>2. CASE ~(o >= 0)
      <4>1. (Half - o) % Half = -o
        <5> HIDE DEF Half
        <5> QED BY <1>1, <3>2, Z3
      <4> QED BY <3>2, <4>1 DEF Magnitude
    <3> QED BY <3>1, <3>2
  <2> HIDE DEF p
  <2>3. Ordered(p) = o
    BY <2>1, <2>2, OrderedIs
  <2>4. ~IsNaN(p)
    BY <1>1, <2>2 DEF IsNaN
  <2> QED BY <2>1, <2>3, <2>4, OrderedIs
<1> QED BY <1>2, <1>3 DEF Numbers

LEMMA CountBetween ==
  ASSUME NEW o \in -Infinity .. Infinity, NEW u \in -Infinity .. Infinity, o <= u
  PROVE  Cardinality({n \in Numbers : NumberAt(o) < n /\ n <= NumberAt(u)}) = u - o
<1> DEFINE S == {n \in Numbers : NumberAt(o) < n /\ n <= NumberAt(u)}
           B == [v \in o + 1 .. u |-> NumberAt(v)]
<1>1. Infinity \in Nat
  BY Widths
<1>2. ASSUME NEW v \in o + 1 .. u PROVE B[v] \in S
  <2>1. v \in Int /\ o \in Int /\ u \in Int /\ v \in -Infinity .. Infinity /\ o < v
    BY <1>1
  <2>2. NumberAt(o) < NumberAt(v)
    BY <2>1, NumbersGrow
  <2>3. NumberAt(v) <= NumberAt(u)
    <3>1. v = u \/ v < u
      BY <2>1
    <3> QED BY <2>1, <3>1, NumbersGrow
  <2> QED BY <2>1, <2>2, <2>3, NumbersAre
<1>3. ASSUME NEW n \in S PROVE \E v \in o + 1 .. u : B[v] = n
  <2>1. PICK v \in -Infinity .. Infinity : n = NumberAt(v)
    BY NumbersAre
  <2>2. v \in Int /\ o \in Int /\ u \in Int
    BY <1>1
  <2>3. NumberAt(o) < NumberAt(v) /\ ~(NumberAt(u) < NumberAt(v))
    BY <2>1, <2>2, NumbersGrow
  <2>4. o < v /\ ~(u < v)
    BY <2>2, <2>3, NumbersGrow
  <2> QED BY <2>1, <2>2, <2>4
<1>4. ASSUME NEW v \in o + 1 .. u, NEW w \in o + 1 .. u, B[v] = B[w] PROVE v = w
  BY <1>1, <1>4, NumbersGrow
<1>5. B \in Bijection(o + 1 .. u, S)
  <2> HIDE DEF S
  <2>1. B \in [o + 1 .. u -> S]
    BY <1>2
  <2> HIDE DEF B
  <2> QED BY <1>3, <1>4, <2>1 DEF Bijection, Injection, Surjection, IsInjective
<1>6. IsFiniteSet(o + 1 .. u) /\ Cardinality(o + 1 .. u) = u - o
  <2>1. o + 1 \in Int /\ u \in Int /\ o \in Int
    BY <1>1
  <2>2. /\ IsFiniteSet(o + 1 .. u)
        /\ Cardinality(o + 1 .. u) = IF o + 1 > u THEN 0 ELSE u - (o + 1) + 1
    BY <2>1, FS_Interval
  <2> QED BY <2>1, <2>2
<1> QED
  <2> HIDE DEF S, B
  <2>1. Cardinality(S) = u - o
    BY <1>5, <1>6, FS_Bijection DEF ExistsBijection
  <2> QED BY <2>1 DEF S

(* Near is a matter of the difference in the order.                        *)
LEMMA NearIs ==
  ASSUME NEW p \in Patterns, NEW q \in Patterns, ~IsNaN(p), ~IsNaN(q)
  PROVE  /\ Ordered(p) \in -Infinity .. Infinity /\ Ordered(q) \in -Infinity .. Infinity
         /\ Near(p, q) <=> Abs(Ordered(p) - Ordered(q)) <= max_ulps
<1> DEFINE o == Ordered(p)  u == Ordered(q)
<1>1. Infinity \in Nat /\ Half \in Nat
  BY Widths
<1>2. o \in -Infinity .. Infinity /\ u \in -Infinity .. Infinity
  <2>1. ASSUME NEW t \in Patterns, ~IsNaN(t) PROVE Ordered(t) \in -Infinity .. Infinity
    <3>1. Magnitude(t) \in Nat /\ Magnitude(t) <= Infinity
      BY <1>1, <2>1, OrderedIs DEF IsNaN
    <3> QED BY <1>1, <3>1, OrderedIs
  <2> QED BY <2>1
<1>3. Number(p) = NumberAt(o) /\ Number(q) = NumberAt(u)
  BY OrderedIs
<1> DEFINE S == {n \in Numbers : \/ NumberAt(o) < n /\ n <= NumberAt(u)
                                 \/ NumberAt(u) < n /\ n <= NumberAt(o)}
<1>4. Near(p, q) <=> Cardinality(S) <= max_ulps
  <2> DEFINE R == {n \in Numbers : \/ Number(p) < n /\ n <= Number(q)
                                   \/ Number(q) < n /\ n <= Number(p)}
  <2>1. R = S
    <3> HIDE DEF o, u
    <3> QED BY <1>3
  <2>2. Near(p, q) <=> Cardinality(R) <= max_ulps
    BY DEF Near
  <2> HIDE DEF R, S
  <2> QED BY <2>1, <2>2
<1> HIDE DEF o, u
<1>5. ASSUME NEW v \in -Infinity .. Infinity, NEW w \in -Infinity .. Infinity, v <= w,
             NEW n \in Numbers, NumberAt(w) < n, n <= NumberAt(v)
      PROVE  FALSE
  <2>1. PICK t \in -Infinity .. Infinity : n = NumberAt(t)
    BY NumbersAre
  <2>2. t \in Int /\ v \in Int /\ w \in Int
    BY <1>1
  <2>3. w < t /\ ~(v < t)
    BY <1>5, <2>1, <2>2, NumbersGrow
  <2> QED BY <1>5, <2>2, <2>3
<1>6. CASE o <= u
  <2>1. S = {n \in Numbers : NumberAt(o) < n /\ n <= NumberAt(u)}
    <3>1. \A n \in Numbers : ~(NumberAt(u) < n /\ n <= NumberAt(o))
      BY <1>2, <1>5, <1>6
    <3> QED BY <3>1
  <2>2. Cardinality(S) = u - o
    BY <1>2, <1>6, <2>1, CountBetween
  <2> HIDE DEF S
  <2> QED BY <1>1, <1>2, <1>4, <1>6, <2>2 DEF Abs, o, u
<1>7. CASE ~(o <= u)
  <2>1. u <= o
    BY <1>1, <1>2, <1>7
  <2>2. S = {n \in Numbers : NumberAt(u) < n /\ n <= NumberAt(o)}
    <3>1. \A n \in Numbers : ~(NumberAt(o) < n /\ n <= NumberAt(u))
      BY <1>2, <1>5, <2>1
    <3> QED BY <3>1
  <2>3. Cardinality(S) = o - u
    BY <1>2, <2>1, <2>2, CountBetween
  <2> HIDE DEF S
  <2> QED BY <1>1, <1>2, <1>4, <1>7, <2>3 DEF Abs, o, u
<1> QED BY <1>6, <1>7

------------------------------------------------------------------------------
(* What the code computes of two comparable numbers, overflow or not.      *)
LEMMA ComparisonIs ==
  ASSUME NEW p \in Patterns, NEW q \in Patterns, Comparable(p, q)
  PROVE  \A d \in IntDiffs(p, q) : d <= max_ulps <=> Near(p, q)
<1> DEFINE diff == Ordered(p) - Ordered(q)
           wrapped == IF diff >= Half THEN diff - 2 * Half
                      ELSE IF diff < -Half THEN diff + 2 * Half ELSE diff
<1>1. /\ Half \in Nat /\ Infinity \in Nat /\ Infinity = Half - Pow2[ManBits]
      /\ Pow2[ManBits] \in Nat /\ Half >= 2 * Pow2[ManBits]
      /\ max_ulps \in Nat /\ max_ulps < Pow2[ManBits]
  BY Widths
<1>2. ~IsNaN(p) /\ ~IsNaN(q)
  BY DEF Comparable
<1>3. /\ Ordered(p) \in -Infinity .. Infinity /\ Ordered(q) \in -Infinity .. Infinity
      /\ Near(p, q) <=> Abs(diff) <= max_ulps
  BY <1>2, NearIs
<1>4. diff \in Int /\ diff # Half /\ diff # -Half
  <2>1. /\ Magnitude(p) \in 0 .. Half - 1 /\ Magnitude(q) \in 0 .. Half - 1
        /\ Ordered(p) = IF p < Half THEN Magnitude(p) ELSE -Magnitude(p)
        /\ Ordered(q) = IF q < Half THEN Magnitude(q) ELSE -Magnitude(q)
    BY OrderedIs
  <2> HIDE DEF Half, Ordered, Magnitude
  <2>2. (p < Half <=> q < Half) \/ Magnitude(p) + Magnitude(q) # Half
    BY DEF Comparable
  <2>3. diff = (IF p < Half THEN Magnitude(p) ELSE -Magnitude(p))
                 - (IF q < Half THEN Magnitude(q) ELSE -Magnitude(q))
    BY <2>1
  <2> QED BY <1>1, <2>1, <2>2, <2>3
<1>5. IntDiffs(p, q) = IF wrapped = -Half THEN {-Half, Half} ELSE {Abs(wrapped)}
  BY DEF IntDiffs
<1>6. /\ wrapped \in Int /\ wrapped # -Half
      /\ Abs(wrapped) <= max_ulps <=> Abs(diff) <= max_ulps
  <2>1. diff \in Int /\ diff <= 2 * Infinity /\ -(2 * Infinity) <= diff
    BY <1>1, <1>3
  <2> HIDE DEF diff
  <2> QED BY <1>1, <1>4, <2>1 DEF Abs
<1> HIDE DEF wrapped, diff
<1>7. IntDiffs(p, q) = {Abs(wrapped)}
  BY <1>5, <1>6
<1> QED BY <1>3, <1>6, <1>7

CompareInv ==
  /\ arr1 \in [Index -> Patterns] /\ arr2 \in [Index -> Patterns]
  /\ i \in 0 .. size
  /\ result \in {"running", "TRUE", "FALSE"}
  /\ \A k \in 0 .. i - 1 : \E d \in IntDiffs(arr1[k], arr2[k]) : d <= max_ulps
  /\ result = "TRUE" => i = size
  /\ result = "FALSE" =>
       i < size /\ \E d \in IntDiffs(arr1[i], arr2[i]) : ~(d <= max_ulps)

LEMMA CompareInvInit == CompareInit => CompareInv
BY CompareAssumption DEF CompareInit, CompareInv

LEMMA CompareInvStep == CompareInv /\ [CompareNext]_compareVars => CompareInv'
<1> SUFFICES ASSUME CompareInv, [CompareNext]_compareVars PROVE CompareInv'
  OBVIOUS
<1> USE DEF CompareInv
<1>1. CASE CompareElement
  <2>1. UNCHANGED <<arr1, arr2>> /\ result = "running" /\ i \in Nat /\ i < size /\ size \in Nat
    BY <1>1, CompareAssumption DEF CompareElement
  <2>2. PICK d \in IntDiffs(arr1[i], arr2[i]) :
          IF d <= max_ulps THEN i' = i + 1 /\ UNCHANGED result
          ELSE result' = "FALSE" /\ UNCHANGED i
    BY <1>1, Zenon DEF CompareElement, almost_equal_2s_complement
  <2>3. CASE d <= max_ulps
    <3>1. i' = i + 1 /\ result' = "running"
      BY <2>1, <2>2, <2>3
    <3>2. ASSUME NEW k \in 0 .. i' - 1
          PROVE  \E e \in IntDiffs(arr1'[k], arr2'[k]) : e <= max_ulps
      <4>1. k \in 0 .. i - 1 \/ k = i
        BY <2>1, <3>1
      <4> QED BY <2>1, <2>2, <2>3, <4>1
    <3>3. i' \in 0 .. size
      BY <2>1, <3>1
    <3> QED BY <2>1, <3>1, <3>2, <3>3
  <2>4. CASE ~(d <= max_ulps)
    <3>1. i' = i /\ result' = "FALSE"
      BY <2>1, <2>2, <2>4
    <3> QED BY <2>1, <2>2, <2>4, <3>1
  <2> QED BY <2>3, <2>4
<1>2. CASE CompareDone
  BY <1>2, CompareAssumption DEF CompareDone
<1>3. CASE UNCHANGED compareVars
  BY <1>3 DEF compareVars
<1> QED BY <1>1, <1>2, <1>3 DEF CompareNext

(* On arrays of numbers that the comparison's integers can tell apart, the *)
(* result is TRUE exactly if every pair is near in the order of the        *)
(* numbers there are, for doubles as for any format (main.c:184-217).      *)
THEOREM EqualMeansNear == CompareSpec => []EqualIffNear
<1>1. CompareInv => EqualIffNear
  <2> SUFFICES ASSUME CompareInv, result # "running",
                      \A k \in Index : Comparable(arr1[k], arr2[k])
               PROVE  result = "TRUE" <=> \A k \in Index : Near(arr1[k], arr2[k])
    BY DEF EqualIffNear
  <2>1. \A k \in Index :
          \A d \in IntDiffs(arr1[k], arr2[k]) : d <= max_ulps <=> Near(arr1[k], arr2[k])
    BY ComparisonIs DEF CompareInv
  <2>2. CASE result = "TRUE"
    <3>1. \A k \in Index : \E d \in IntDiffs(arr1[k], arr2[k]) : d <= max_ulps
      BY <2>2 DEF CompareInv, Index
    <3> QED BY <2>1, <2>2, <3>1
  <2>3. CASE result = "FALSE"
    <3>1. i \in Index
      BY <2>3, CompareAssumption DEF CompareInv, Index
    <3>2. \E d \in IntDiffs(arr1[i], arr2[i]) : ~(d <= max_ulps)
      BY <2>3 DEF CompareInv
    <3>3. ~Near(arr1[i], arr2[i])
      BY <2>1, <3>1, <3>2
    <3> QED BY <2>3, <3>1, <3>3
  <2> QED BY <2>2, <2>3 DEF CompareInv
<1> QED BY <1>1, CompareInvInit, CompareInvStep, PTL DEF CompareSpec
==============================================================================
