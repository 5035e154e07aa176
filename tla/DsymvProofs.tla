----------------------------- MODULE DsymvProofs -----------------------------
(***************************************************************************)
(* Theorems about Dsymv and the LoadMatrix under it, for matrices of any   *)
(* size with any integers, files that list any number of elements and any  *)
(* scalars: the matrix is what the file lists, and reading its lower half  *)
(* computes the whole product.                                             *)
(***************************************************************************)
EXTENDS Dsymv, NaturalsInduction, WellFoundedInduction, TLAPS

(* The linearized matrix: each index is the place of one element.          *)
LEMMA IndexDivides ==
  ASSUME NEW s \in Nat \ {0}, NEW p \in Nat, NEW q \in 0 .. s - 1
  PROVE  (s * p + q) \div s = p /\ (s * p + q) % s = q
BY Z3

LEMMA IndexUnique ==
  ASSUME NEW s \in Nat \ {0}, NEW p \in Nat, NEW q \in 0 .. s - 1,
         NEW r \in Nat, NEW c \in 0 .. s - 1, s * p + q = s * r + c
  PROVE  p = r /\ q = c
<1>1. (s * p + q) \div s = p /\ (s * p + q) % s = q
  BY IndexDivides
<1>2. (s * r + c) \div s = r /\ (s * r + c) % s = c
  BY IndexDivides
<1> QED BY <1>1, <1>2

LEMMA IndexInMatrix ==
  ASSUME NEW s \in Nat \ {0}, NEW p \in 0 .. s - 1, NEW q \in 0 .. s - 1
  PROVE  s * p + q \in 0 .. s * s - 1
<1>1. s * p \in Nat /\ s * s \in Nat
  BY Z3
<1>2. s * (p + 1) <= s * s
  BY Z3
<1>3. s * (p + 1) = s * p + s
  BY Z3
<1> QED BY <1>1, <1>2, <1>3

(* If the place of an element and its mirror image both have an index in   *)
(* the matrix, it is a place of the matrix, or its indices are the first   *)
(* and the last.                                                           *)
LEMMA NaturalsIndexed ==
  ASSUME NEW s \in Nat, NEW p \in Nat, NEW q \in Nat,
         s * p + q \in 0 .. s * s - 1, s * q + p \in 0 .. s * s - 1
  PROVE  p \in 0 .. s - 1 /\ q \in 0 .. s - 1
<1>1. s * s \in Nat /\ s * p \in Nat /\ s * q \in Nat
  BY Z3
<1>2. p < s
  <2> SUFFICES ASSUME s <= p PROVE FALSE
    OBVIOUS
  <2>1. s * s <= s * p
    BY Z3
  <2> QED BY <1>1, <2>1
<1>3. q < s
  <2> SUFFICES ASSUME s <= q PROVE FALSE
    OBVIOUS
  <2>1. s * s <= s * q
    BY Z3
  <2> QED BY <1>1, <2>1
<1> QED BY <1>2, <1>3

LEMMA NegativeIndexed ==
  ASSUME NEW s \in Nat \ {0, 1}, NEW p \in Int, NEW q \in Int, p < 0,
         s * p + q \in 0 .. s * s - 1, s * q + p \in 0 .. s * s - 1
  PROVE  p = -1 /\ q = s
<1> DEFINE k == -p
<1>1. k \in Nat \ {0} /\ p = -k
  OBVIOUS
<1> HIDE DEF k
<1>2. /\ s * p = -(s * k) /\ s * k \in Nat /\ s * q \in Int /\ s * s \in Nat
      /\ s * s > 1
  BY <1>1, Z3
<1>3. q >= s * k
  BY <1>2
<1>4. s * q >= s * (s * k)
  BY <1>2, <1>3, Z3
<1>5. s * (s * k) = (s * s) * k
  BY <1>1, Z3
<1>6. (s * s) * k <= s * s - 1 + k
  <2> DEFINE t == s * (s * k)
  <2>1. s * q + p <= s * s - 1 /\ p = -k /\ k \in Nat
    BY <1>1
  <2>2. t \in Int /\ s * q >= t
    BY <1>2, <1>4
  <2> HIDE DEF t
  <2>3. t <= s * s - 1 + k
    BY <1>2, <2>1, <2>2
  <2> QED BY <1>5, <2>3 DEF t
<1>7. k = 1
  <2> DEFINE w == s * s
  <2>1. w \in Nat /\ w > 1 /\ w * k <= w - 1 + k
    BY <1>2, <1>6
  <2> HIDE DEF w
  <2> SUFFICES ASSUME k >= 2 PROVE FALSE
    BY <1>1
  <2>2. w * k = (w - 1) * (k - 1) + w + k - 1
    BY <1>1, <2>1, Z3
  <2>3. (w - 1) * (k - 1) > 0
    BY <1>1, <2>1, Z3
  <2>4. (w - 1) * (k - 1) \in Int /\ w * k \in Int
    BY <1>1, <2>1
  <2> QED BY <1>1, <2>1, <2>2, <2>3, <2>4
<1>8. q >= s
  BY <1>3, <1>7
<1>9. s * q <= s * s
  BY <1>1, <1>2, <1>7
<1>10. q <= s
  <2> SUFFICES ASSUME q > s PROVE FALSE
    OBVIOUS
  <2>1. s * q > s * s
    BY Z3
  <2> QED BY <1>2, <1>9, <2>1
<1> QED BY <1>1, <1>7, <1>8, <1>10

LEMMA BothIndexed ==
  ASSUME NEW s \in Nat, NEW p \in Int, NEW q \in Int,
         s * p + q \in 0 .. s * s - 1, s * q + p \in 0 .. s * s - 1
  PROVE  /\ s # 0
         /\ \/ p \in 0 .. s - 1 /\ q \in 0 .. s - 1
            \/ s = 1
            \/ p = -1 /\ q = s
            \/ q = -1 /\ p = s
<1>1. s # 0
  <2> SUFFICES ASSUME s = 0 PROVE FALSE
    OBVIOUS
  <2>1. s * s = 0
    OBVIOUS
  <2> QED BY <2>1
<1>2. CASE p < 0 /\ s # 1
  BY <1>1, <1>2, NegativeIndexed
<1>3. CASE q < 0 /\ s # 1
  BY <1>1, <1>3, NegativeIndexed
<1>4. CASE p \in Nat /\ q \in Nat
  BY <1>1, <1>4, NaturalsIndexed
<1> QED BY <1>1, <1>2, <1>3, <1>4

------------------------------------------------------------------------------
Element == [row : Int, column : Int, value : Values]

LoadTypes ==
  /\ load \in {"start", "size", "rescan", "elements", "enter"} \cup Ended
  /\ nr_nonzero \in Nat /\ size \in Nat
  /\ elements \in Seq(Element) /\ file \in Seq(Element)
  /\ entered \in Nat
  /\ mat \in [0 .. size * size - 1 -> Int]

(* Nothing is entered before all elements are read.                        *)
ReadFirst ==
  /\ load \notin {"enter", "undefined"} => entered = 0
  /\ load \in {"start", "size", "rescan"} => elements = <<>> /\ file = <<>>
  /\ load = "elements" => Len(elements) <= nr_nonzero /\ mat = Empty(size)
  /\ load = "enter" => Len(elements) = nr_nonzero /\ entered <= nr_nonzero
  /\ load \in {"elements", "enter"} => size # 0

(* The arrays hold what the file lists, counted from zero, as far as it    *)
(* goes.                                                                   *)
FileRead ==
  load \in {"elements", "enter"} =>
    /\ Len(file) <= Len(elements)
    /\ \A n \in 1 .. Len(file) :
         elements[n] = [row |-> file[n].row - 1, column |-> file[n].column - 1,
                        value |-> file[n].value]

(* What dsymv needs.                                                       *)
Symmetric ==
  load = "loaded" =>
    /\ size # 0
    /\ \A p, q \in 0 .. size - 1 : mat[get_index(p, q)] = mat[get_index(q, p)]

LoadInv == LoadTypes /\ ReadFirst /\ FileRead /\ Symmetric /\ LoadedAsListed

LEMMA EmptyMatrix ==
  ASSUME NEW s \in Nat
  PROVE  /\ Empty(s) \in [0 .. s * s - 1 -> Int]
         /\ \A n \in 0 .. s * s - 1 : Empty(s)[n] = 0
BY DEF Empty

LEMMA LoadInvInit == LoadInit => LoadInv
<1> SUFFICES ASSUME LoadInit PROVE LoadInv
  OBVIOUS
<1>1. LoadTypes
  BY EmptyMatrix DEF LoadInit, LoadTypes
<1> QED BY <1>1 DEF LoadInit, LoadInv, ReadFirst, FileRead, Symmetric,
                    LoadedAsListed

LEMMA GenerateKeeps == LoadInv /\ generate_matrix => LoadInv'
<1> SUFFICES ASSUME LoadInv, generate_matrix PROVE LoadInv'
  OBVIOUS
<1>1. PICK s \in Sizes :
        /\ size' = s
        /\ \E num \in [LowerHalf(s) -> Values] :
             mat' = [index \in 0 .. s * s - 1 |->
                       LET p == index \div s
                           q == index % s
                       IN  IF q <= p THEN num[<<p, q>>] ELSE num[<<q, p>>]]
  BY DEF generate_matrix
<1>2. PICK num \in [LowerHalf(s) -> Values] :
        mat' = [index \in 0 .. s * s - 1 |->
                  LET p == index \div s
                      q == index % s
                  IN  IF q <= p THEN num[<<p, q>>] ELSE num[<<q, p>>]]
  BY <1>1
<1>3. s \in Nat \ {0} /\ Values \subseteq Int
  BY LoadAssumption
<1>4. load = "start" /\ load' = "loaded" /\ entered = 0
        /\ UNCHANGED <<nr_nonzero, elements, file, entered>>
  BY DEF generate_matrix, LoadInv, ReadFirst
<1>5. ASSUME NEW p \in 0 .. s - 1, NEW q \in 0 .. s - 1
      PROVE  mat'[s * p + q] = IF q <= p THEN num[<<p, q>>] ELSE num[<<q, p>>]
  <2>1. s * p + q \in 0 .. s * s - 1
    BY <1>3, IndexInMatrix
  <2>2. (s * p + q) \div s = p /\ (s * p + q) % s = q
    BY <1>3, IndexDivides
  <2> QED BY <1>2, <2>1, <2>2
<1>6. Symmetric'
  <2> SUFFICES ASSUME NEW p \in 0 .. s - 1, NEW q \in 0 .. s - 1
               PROVE  mat'[s * p + q] = mat'[s * q + p]
    BY <1>1, <1>3 DEF Symmetric, get_index
  <2>1. mat'[s * p + q] = IF q <= p THEN num[<<p, q>>] ELSE num[<<q, p>>]
    BY <1>5
  <2>2. mat'[s * q + p] = IF p <= q THEN num[<<q, p>>] ELSE num[<<p, q>>]
    BY <1>5
  <2>3. p <= q /\ q <= p => p = q
    OBVIOUS
  <2>4. p <= q \/ q <= p
    OBVIOUS
  <2>5. CASE p = q
    BY <2>5
  <2>6. CASE p # q
    BY <2>1, <2>2, <2>3, <2>4, <2>6
  <2> QED BY <2>5, <2>6
<1>7. mat' \in [0 .. s * s - 1 -> Int]
  <2> SUFFICES ASSUME NEW index \in 0 .. s * s - 1
               PROVE  (LET p == index \div s
                           q == index % s
                       IN  IF q <= p THEN num[<<p, q>>] ELSE num[<<q, p>>]) \in Int
    BY <1>2
  <2> DEFINE p == index \div s
             q == index % s
  <2>1. p \in 0 .. s - 1 /\ q \in 0 .. s - 1
    <3>1. p \in Nat /\ q \in 0 .. s - 1 /\ index = s * p + q
      BY <1>3
    <3> HIDE DEF p, q
    <3>2. p < s
      <4> SUFFICES ASSUME s <= p PROVE FALSE
        BY <1>3, <3>1
      <4>1. p \in Nat /\ s \in Nat /\ s <= p
        BY <1>3, <3>1
      <4>2. s * s <= s * p /\ s * s \in Nat /\ s * p \in Nat
        BY <4>1, Z3
      <4>3. index = s * p + q /\ index \in 0 .. s * s - 1 /\ q \in Nat
        BY <3>1
      <4> QED BY <4>2, <4>3
    <3> QED BY <1>3, <3>1, <3>2
  <2> HIDE DEF p, q
  <2>2. CASE q <= p
    <3>1. <<p, q>> \in LowerHalf(s)
      BY <2>1, <2>2 DEF LowerHalf
    <3>2. num[<<p, q>>] \in Int
      BY <1>3, <3>1
    <3> QED BY <2>2, <3>2 DEF p, q
  <2>3. CASE ~(q <= p)
    <3>1. <<q, p>> \in LowerHalf(s)
      BY <2>1, <2>3 DEF LowerHalf
    <3>2. num[<<q, p>>] \in Int
      BY <1>3, <3>1
    <3> QED BY <2>3, <3>2 DEF p, q
  <2> QED BY <2>2, <2>3
<1>8. LoadTypes'
  BY <1>1, <1>3, <1>4, <1>7 DEF LoadInv, LoadTypes, Ended
<1>9. ReadFirst' /\ FileRead' /\ LoadedAsListed'
  BY <1>4, <1>6 DEF ReadFirst, FileRead, LoadedAsListed, Symmetric
<1> QED BY <1>6, <1>8, <1>9 DEF LoadInv

LEMMA BannerKeeps == LoadInv /\ ReadBanner => LoadInv'
<1> SUFFICES ASSUME LoadInv, ReadBanner PROVE LoadInv'
  OBVIOUS
<1>1. load = "start" /\ load' \in {"size", "undefined"}
        /\ UNCHANGED <<nr_nonzero, size, elements, file, entered, mat>>
  BY DEF ReadBanner
<1>2. LoadTypes'
  BY <1>1 DEF LoadInv, LoadTypes, Ended
<1>3. entered' = 0
  BY <1>1 DEF LoadInv, ReadFirst
<1> QED BY <1>1, <1>2, <1>3 DEF LoadInv, ReadFirst, FileRead, Symmetric,
                                LoadedAsListed

(* Once the sizes are known: an empty matrix of that size.                 *)
LEMMA ScanKeeps ==
  ASSUME LoadInv, load \in {"size", "rescan"}, ScanSizes,
         UNCHANGED <<elements, file, entered>>
  PROVE  LoadInv'
<1>1. size' \in Nat \ {0} /\ nr_nonzero' \in Nat
  BY LoadAssumption DEF ScanSizes
<1>2. mat' = Empty(size') /\ load' = "elements"
  BY DEF ScanSizes
<1>3. mat' \in [0 .. size' * size' - 1 -> Int]
  BY <1>1, <1>2, EmptyMatrix
<1>4. LoadTypes'
  BY <1>1, <1>2, <1>3 DEF LoadInv, LoadTypes
<1>5. entered' = 0 /\ Len(elements') = 0 /\ Len(file') = 0
  BY DEF LoadInv, ReadFirst, ScanSizes
<1>6. ReadFirst'
  BY <1>1, <1>2, <1>5 DEF ReadFirst, Empty
<1>7. FileRead' /\ Symmetric' /\ LoadedAsListed'
  BY <1>2, <1>5 DEF FileRead, Symmetric, LoadedAsListed
<1> QED BY <1>4, <1>6, <1>7 DEF LoadInv

LEMMA SizesKeep == LoadInv /\ (ReadSizes \/ RescanSizes) => LoadInv'
<1> SUFFICES ASSUME LoadInv, ReadSizes \/ RescanSizes PROVE LoadInv'
  OBVIOUS
<1>1. load \in {"size", "rescan"} /\ UNCHANGED <<elements, file, entered>>
  BY DEF ReadSizes, RescanSizes
<1>2. CASE ScanSizes
  BY <1>1, <1>2, ScanKeeps
<1>3. CASE /\ load' \in {"rescan", "undefined", "forever"}
           /\ UNCHANGED <<nr_nonzero, size, mat>>
  <2>1. LoadTypes'
    BY <1>1, <1>3 DEF LoadInv, LoadTypes, Ended
  <2>2. entered' = 0 /\ elements' = <<>> /\ file' = <<>>
    BY <1>1 DEF LoadInv, ReadFirst
  <2> QED BY <1>3, <2>1, <2>2 DEF LoadInv, ReadFirst, FileRead, Symmetric,
                                  LoadedAsListed
<1> QED BY <1>2, <1>3 DEF ReadSizes, RescanSizes

LEMMA ElementKeeps == LoadInv /\ ReadElement => LoadInv'
<1> SUFFICES ASSUME LoadInv, ReadElement PROVE LoadInv'
  OBVIOUS
<1> DEFINE len == Len(elements)
<1>1. /\ load = "elements" /\ len < nr_nonzero
      /\ UNCHANGED <<load, nr_nonzero, size, entered, mat>>
      /\ elements \in Seq(Element) /\ file \in Seq(Element) /\ size \in Nat \ {0}
      /\ nr_nonzero \in Nat /\ len \in Nat /\ Len(file) \in Nat /\ Len(file) <= len
  BY DEF ReadElement, LoadInv, LoadTypes, ReadFirst, FileRead
<1>2. PICK row \in Numbers, column \in Numbers, value \in Values :
        /\ elements' = Append(elements, [row |-> row - 1, column |-> column - 1,
                                         value |-> value])
        /\ \/ UNCHANGED file
           \/ /\ Len(file) = len
              /\ file' = Append(file, [row |-> row, column |-> column, value |-> value])
  BY DEF ReadElement
<1> DEFINE f == [row |-> row, column |-> column, value |-> value]
           e == [row |-> row - 1, column |-> column - 1, value |-> value]
<1>3. f \in Element /\ e \in Element
  BY LoadAssumption DEF Element
<1>4. /\ elements' \in Seq(Element) /\ Len(elements') = len + 1
      /\ elements'[len + 1] = e
      /\ \A n \in 1 .. len : elements'[n] = elements[n]
  BY <1>1, <1>2, <1>3
<1>5. LoadTypes'
  <2>1. CASE UNCHANGED file
    BY <1>1, <1>4, <2>1 DEF LoadInv, LoadTypes
  <2>2. CASE file' = Append(file, f)
    <3>1. file' \in Seq(Element)
      <4> HIDE DEF f
      <4> QED BY <1>1, <1>3, <2>2
    <3> QED BY <1>1, <1>4, <3>1 DEF LoadInv, LoadTypes
  <2> QED BY <1>2, <2>1, <2>2
<1>6. ReadFirst'
  <2> HIDE DEF len
  <2>1. Len(elements') <= nr_nonzero
    BY <1>1, <1>4
  <2> QED BY <1>1, <2>1 DEF LoadInv, ReadFirst, Empty
<1>7. \A n \in 1 .. Len(file) :
        elements[n] = [row |-> file[n].row - 1, column |-> file[n].column - 1,
                       value |-> file[n].value]
  BY <1>1 DEF LoadInv, FileRead
<1>8. FileRead'
  <2>1. CASE UNCHANGED file
    <3> HIDE DEF len
    <3>1. Len(file) <= Len(elements') /\ \A n \in 1 .. Len(file) : n \in 1 .. len
      BY <1>1, <1>4
    <3> QED BY <1>4, <1>7, <2>1, <3>1 DEF FileRead
  <2>2. CASE Len(file) = len /\ file' = Append(file, f)
    <3>1. /\ Len(file') = len + 1 /\ file'[len + 1] = f
          /\ \A n \in 1 .. len : file'[n] = file[n]
      BY <1>1, <1>3, <2>2
    <3>2. ASSUME NEW n \in 1 .. len + 1
          PROVE  elements'[n] = [row |-> file'[n].row - 1, column |-> file'[n].column - 1,
                                 value |-> file'[n].value]
      <4>1. CASE n = len + 1
        BY <1>4, <3>1, <4>1
      <4>2. CASE n # len + 1
        <5> HIDE DEF len
        <5>1. n \in 1 .. len
          BY <1>1, <4>2
        <5> QED BY <1>4, <1>7, <2>2, <3>1, <5>1
      <4> QED BY <4>1, <4>2
    <3> QED BY <1>1, <1>4, <3>1, <3>2 DEF FileRead
  <2> QED BY <1>2, <2>1, <2>2
<1>9. Symmetric' /\ LoadedAsListed'
  BY <1>1 DEF Symmetric, LoadedAsListed
<1> QED BY <1>5, <1>6, <1>8, <1>9 DEF LoadInv

LEMMA ReadDoneKeeps == LoadInv /\ ReadDone => LoadInv'
<1> SUFFICES ASSUME LoadInv, ReadDone PROVE LoadInv'
  OBVIOUS
<1>1. /\ load = "elements" /\ Len(elements) = nr_nonzero /\ load' = "enter"
      /\ UNCHANGED <<nr_nonzero, size, elements, file, entered, mat>>
      /\ entered = 0 /\ mat = Empty(size) /\ size \in Nat \ {0} /\ nr_nonzero \in Nat
  BY DEF ReadDone, LoadInv, LoadTypes, ReadFirst
<1>2. LoadTypes' /\ ReadFirst' /\ FileRead' /\ Symmetric'
  BY <1>1 DEF LoadInv, LoadTypes, ReadFirst, FileRead, Symmetric
<1>3. LoadedAsListed'
  <2>1. ASSUME NEW p \in 0 .. size - 1, NEW q \in 0 .. size - 1
        PROVE  mat[size * p + q] = 0
    BY <1>1, IndexInMatrix, EmptyMatrix
  <2>2. \A p, q \in 1 .. size : p - 1 \in 0 .. size - 1 /\ q - 1 \in 0 .. size - 1
    BY <1>1
  <2>3. \A p, q : Listed(p, q)' = {}
    BY <1>1 DEF Listed
  <2> QED BY <1>1, <2>1, <2>2, <2>3 DEF LoadedAsListed, get_index
<1> QED BY <1>2, <1>3 DEF LoadInv

(* The element entered last is the last one listed for its place and its   *)
(* mirror image; for every other place nothing changes.  An element for a  *)
(* place outside the matrix is entered in its first and last places.       *)
LEMMA EnterKeeps == LoadInv /\ Enter => LoadInv'
<1> SUFFICES ASSUME LoadInv, Enter PROVE LoadInv'
  OBVIOUS
<1> DEFINE m == entered + 1
           e == elements[m]
           r == e.row
           c == e.column
           place == get_index(r, c)
           mirror == get_index(c, r)
<1>1. /\ load = "enter" /\ entered < nr_nonzero /\ entered' = m
      /\ UNCHANGED <<nr_nonzero, size, elements, file>>
      /\ entered \in Nat /\ nr_nonzero \in Nat /\ Len(elements) = nr_nonzero
      /\ size \in Nat \ {0} /\ elements \in Seq(Element)
      /\ file \in Seq(Element) /\ Len(file) \in Nat /\ mat \in [0 .. size * size - 1 -> Int]
  BY DEF Enter, LoadInv, LoadTypes, ReadFirst
<1>2. m \in 1 .. Len(elements) /\ m <= nr_nonzero
  BY <1>1
<1>3. r \in Int /\ c \in Int /\ e.value \in Int
  <2>1. e \in Element
    BY <1>1, <1>2
  <2> HIDE DEF e
  <2> QED BY <2>1, LoadAssumption DEF Element
<1>4. WellListed' => /\ WellListed
                     /\ r + 1 = file[m].row /\ c + 1 = file[m].column
                     /\ e.value = file[m].value
                     /\ r \in 0 .. size - 1 /\ c \in 0 .. size - 1
  <2> SUFFICES ASSUME WellListed'
               PROVE  /\ WellListed
                      /\ r + 1 = file[m].row /\ c + 1 = file[m].column
                      /\ e.value = file[m].value
                      /\ r \in 0 .. size - 1 /\ c \in 0 .. size - 1
    OBVIOUS
  <2>1. m <= Len(file) /\ \A n \in 1 .. m : {file[n].row, file[n].column} \subseteq 1 .. size
    BY <1>1 DEF WellListed
  <2>2. m \in 1 .. m /\ m \in 1 .. Len(file) /\ \A n \in 1 .. entered : n \in 1 .. m
    BY <1>1, <2>1
  <2>3. WellListed
    BY <1>1, <2>1, <2>2 DEF WellListed
  <2>4. e = [row |-> file[m].row - 1, column |-> file[m].column - 1,
             value |-> file[m].value]
    BY <1>1, <2>2 DEF LoadInv, FileRead
  <2>5. file[m].row \in 1 .. size /\ file[m].column \in 1 .. size
    BY <2>1, <2>2
  <2>6. r = file[m].row - 1 /\ c = file[m].column - 1 /\ e.value = file[m].value
    BY <2>4
  <2>7. r + 1 = file[m].row /\ c + 1 = file[m].column
        /\ r \in 0 .. size - 1 /\ c \in 0 .. size - 1
    <3> DEFINE row == file[m].row
               column == file[m].column
    <3>1. row \in 1 .. size /\ column \in 1 .. size /\ r = row - 1 /\ c = column - 1
          /\ size \in Nat
      BY <1>1, <2>5, <2>6
    <3> HIDE DEF r, c, row, column
    <3>2. r + 1 = row /\ c + 1 = column /\ r \in 0 .. size - 1 /\ c \in 0 .. size - 1
      BY <3>1
    <3> QED BY <3>2 DEF row, column
  <2> QED BY <2>3, <2>6, <2>7
<1>5. CASE ~({place, mirror} \subseteq DOMAIN mat)
  <2>1. load' = "undefined" /\ UNCHANGED mat
    BY <1>5 DEF Enter
  <2>2. ~WellListed'
    <3> SUFFICES ASSUME WellListed' PROVE FALSE
      OBVIOUS
    <3>1. r \in 0 .. size - 1 /\ c \in 0 .. size - 1
      BY <1>4
    <3>2. place \in DOMAIN mat /\ mirror \in DOMAIN mat
      BY <1>1, <3>1, IndexInMatrix DEF get_index
    <3> QED BY <1>5, <3>2
  <2>3. LoadTypes'
    BY <1>1, <2>1 DEF LoadInv, LoadTypes, Ended
  <2> QED BY <1>1, <2>1, <2>2, <2>3 DEF LoadInv, ReadFirst, FileRead, Symmetric,
                                        LoadedAsListed
<1>6. CASE {place, mirror} \subseteq DOMAIN mat
  <2>1. load' = "enter" /\ mat' = [mat EXCEPT ![place] = e.value, ![mirror] = e.value]
    BY <1>6 DEF Enter
  <2>2. \/ r \in 0 .. size - 1 /\ c \in 0 .. size - 1
        \/ size = 1
        \/ r = -1 /\ c = size
        \/ c = -1 /\ r = size
    <3>1. size * r + c \in 0 .. size * size - 1 /\ size * c + r \in 0 .. size * size - 1
      BY <1>1, <1>6 DEF get_index
    <3> HIDE DEF r, c
    <3> QED BY <1>1, <1>3, <3>1, BothIndexed
  <2>3. /\ mat' \in [0 .. size * size - 1 -> Int]
        /\ \A n \in 0 .. size * size - 1 :
             mat'[n] = IF n \in {place, mirror} THEN e.value ELSE mat[n]
    <3> DEFINE v == e.value
    <3>1. mat' = [mat EXCEPT ![place] = v, ![mirror] = v] /\ v \in Int
      BY <1>3, <2>1
    <3> HIDE DEF v, place, mirror
    <3>2. /\ mat' \in [0 .. size * size - 1 -> Int]
          /\ \A n \in 0 .. size * size - 1 :
               mat'[n] = IF n \in {place, mirror} THEN v ELSE mat[n]
      BY <1>1, <3>1
    <3> QED BY <3>2 DEF v
  <2>4. LoadTypes' /\ ReadFirst' /\ FileRead' /\ Symmetric'
    BY <1>1, <2>1, <2>3 DEF LoadInv, LoadTypes, ReadFirst, FileRead, Symmetric
  <2>5. ASSUME NEW p \in 0 .. size - 1, NEW q \in 0 .. size - 1,
               r \in 0 .. size - 1, c \in 0 .. size - 1
        PROVE  size * p + q \in {place, mirror} <=> {r, c} = {p, q}
    <3>0. r \in Nat /\ c \in Nat /\ p \in Nat /\ q \in Nat /\ size \in Nat \ {0}
      BY <1>1, <2>5
    <3>1. size * p + q = place <=> p = r /\ q = c
      <4>1. place = size * r + c
        BY DEF get_index
      <4> HIDE DEF r, c, place
      <4> QED BY <2>5, <3>0, <4>1, IndexUnique
    <3>2. size * p + q = mirror <=> p = c /\ q = r
      <4>1. mirror = size * c + r
        BY DEF get_index
      <4> HIDE DEF r, c, mirror
      <4> QED BY <2>5, <3>0, <4>1, IndexUnique
    <3> HIDE DEF place, mirror, r, c
    <3> QED BY <3>1, <3>2
  <2>6. ASSUME NEW p \in 0 .. size - 1, NEW q \in 0 .. size - 1
        PROVE  mat'[size * p + q] = mat'[size * q + p]
    <3>1. size * p + q \in 0 .. size * size - 1 /\ size * q + p \in 0 .. size * size - 1
      BY <1>1, IndexInMatrix
    <3>2. mat[size * p + q] = mat[size * q + p]
      BY <1>1 DEF LoadInv, LoadedAsListed, get_index
    <3>3. ASSUME size * p + q \in {place, mirror} <=> size * q + p \in {place, mirror}
          PROVE  mat'[size * p + q] = mat'[size * q + p]
      BY <2>3, <3>1, <3>2, <3>3
    <3>4. CASE r \in 0 .. size - 1 /\ c \in 0 .. size - 1
      <4>1. {p, q} = {q, p}
        OBVIOUS
      <4> HIDE DEF r, c, place, mirror
      <4> QED BY <2>5, <3>3, <3>4, <4>1
    <3>5. CASE p = q
      BY <3>5
    <3>6. CASE {place, mirror} = {0, size * size - 1} /\ p # q
      <4>1. 0 = size * 0 + 0 /\ size * size - 1 = size * (size - 1) + (size - 1)
        BY <1>1, Z3
      <4>2. ASSUME NEW a \in 0 .. size - 1, NEW b \in 0 .. size - 1, a # b
            PROVE  size * a + b \notin {0, size * size - 1}
        <5>1. 0 \in 0 .. size - 1 /\ size - 1 \in 0 .. size - 1
          BY <1>1
        <5>2. size * a + b # size * 0 + 0
          BY <1>1, <4>2, <5>1, IndexUnique
        <5>3. size * a + b # size * (size - 1) + (size - 1)
          BY <1>1, <4>2, <5>1, IndexUnique
        <5> QED BY <4>1, <5>2, <5>3
      <4> HIDE DEF place, mirror
      <4> QED BY <3>3, <3>6, <4>2
    <3>7. CASE (r = -1 /\ c = size) \/ (c = -1 /\ r = size)
      <4>1. size * (-1) + size = 0 /\ size * size + (-1) = size * size - 1
        BY <1>1, Z3
      <4>2. {place, mirror} = {0, size * size - 1}
        BY <3>7, <4>1 DEF get_index
      <4> QED BY <3>5, <3>6, <4>2
    <3>8. CASE size = 1
      BY <3>5, <3>8
    <3>9. \/ r \in 0 .. size - 1 /\ c \in 0 .. size - 1
          \/ (r = -1 /\ c = size) \/ (c = -1 /\ r = size)
          \/ size = 1
      BY <2>2
    <3> HIDE DEF r, c, place, mirror
    <3> QED BY <3>4, <3>7, <3>8, <3>9
  <2>7. ASSUME WellListed', NEW a \in 1 .. size, NEW b \in 1 .. size
        PROVE  mat'[get_index(a - 1, b - 1)'] =
                 IF Listed(a, b)' = {} THEN 0 ELSE file[Max(Listed(a, b)')].value
    <3> DEFINE p == a - 1
               q == b - 1
    <3>1. p \in 0 .. size - 1 /\ q \in 0 .. size - 1 /\ a = p + 1 /\ b = q + 1
      BY <1>1
    <3>2. /\ WellListed /\ r \in 0 .. size - 1 /\ c \in 0 .. size - 1
          /\ r + 1 = file[m].row /\ c + 1 = file[m].column /\ e.value = file[m].value
      BY <1>4, <2>7
    <3>3. size * p + q \in 0 .. size * size - 1
      BY <1>1, <3>1, IndexInMatrix
    <3>4. size * p + q \in {place, mirror} <=> {file[m].row, file[m].column} = {a, b}
      <4>1. size * p + q \in {place, mirror} <=> {r, c} = {p, q}
        <5> HIDE DEF p, q, r, c, place, mirror
        <5> QED BY <2>5, <3>1, <3>2
      <4> DEFINE x1 == file[m].row
                 x2 == file[m].column
      <4>2. x1 = r + 1 /\ x2 = c + 1
        BY <3>2
      <4> HIDE DEF x1, x2, r, c, p, q
      <4>3. {r, c} = {p, q} <=> {x1, x2} = {a, b}
        <5>1. r \in Nat /\ c \in Nat /\ p \in Nat /\ q \in Nat
          BY <1>1, <3>1, <3>2
        <5>2. /\ r = p <=> x1 = a /\ TRUE
              /\ r = q <=> x1 = b
              /\ c = p <=> x2 = a
              /\ c = q <=> x2 = b
          BY <3>1, <4>2, <5>1
        <5> QED BY <5>2
      <4> QED BY <4>1, <4>3 DEF x1, x2
    <3> HIDE DEF p, q
    <3>5. mat'[get_index(a - 1, b - 1)'] = mat'[size * p + q]
      BY <1>1 DEF get_index, p, q
    <3>6. 1 .. m = (1 .. entered) \cup {m}
      BY <1>1
    <3>7. Listed(a, b)' = Listed(a, b) \cup
            (IF {file[m].row, file[m].column} = {a, b} THEN {m} ELSE {})
      <4>1. Listed(a, b)' = {n \in 1 .. m : {file[n].row, file[n].column} = {a, b}}
        BY <1>1 DEF Listed
      <4> HIDE DEF m
      <4> QED BY <3>6, <4>1 DEF Listed
    <3>8. CASE {file[m].row, file[m].column} = {a, b}
      <4>1. m \in Listed(a, b)' /\ \A n \in Listed(a, b)' : n \in Nat /\ n <= m
        <5>1. Listed(a, b)' = Listed(a, b) \cup {m}
          BY <3>7, <3>8
        <5>2. \A n \in Listed(a, b) : n \in 1 .. entered
          BY DEF Listed
        <5>3. \A n \in 1 .. entered : n \in Nat /\ n <= m
          BY <1>1
        <5>4. m \in Nat /\ m <= m
          BY <1>1
        <5> HIDE DEF m
        <5> QED BY <5>1, <5>2, <5>3, <5>4
      <4>2. Max(Listed(a, b)') = m
        <5> DEFINE L == Listed(a, b)'
        <5>1. m \in Nat /\ m \in L /\ \A n \in L : n \in Nat /\ n <= m
          BY <4>1
        <5> HIDE DEF L, m
        <5>2. Max(L) \in L /\ \A n \in L : Max(L) >= n
          <6>1. \E k \in L : \A n \in L : k >= n
            BY <5>1
          <6> QED BY <6>1 DEF Max
        <5> DEFINE top == Max(L)
        <5>3. top \in Nat /\ top <= m /\ top >= m
          BY <5>1, <5>2
        <5> HIDE DEF top
        <5>4. top = m
          BY <5>1, <5>3
        <5> QED BY <5>4 DEF top, L
      <4>3. mat'[size * p + q] = file[m].value
        BY <2>3, <3>2, <3>3, <3>4, <3>8
      <4> QED BY <3>5, <4>1, <4>2, <4>3
    <3>9. CASE {file[m].row, file[m].column} # {a, b}
      <4>1. Listed(a, b)' = Listed(a, b)
        BY <3>7, <3>9
      <4>2. mat'[size * p + q] = mat[size * p + q]
        BY <2>3, <3>3, <3>4, <3>9
      <4>3. mat[size * p + q] = IF Listed(a, b) = {} THEN 0
                                ELSE file[Max(Listed(a, b))].value
        BY <1>1, <3>2 DEF LoadInv, LoadedAsListed, get_index, p, q
      <4> QED BY <3>5, <4>1, <4>2, <4>3, Zenon
    <3> QED BY <3>8, <3>9
  <2>8. LoadedAsListed'
    <3>1. size' = size /\ file' = file
      BY <1>1
    <3>2. ASSUME NEW p \in 0 .. size' - 1, NEW q \in 0 .. size' - 1
          PROVE  mat'[get_index(p, q)'] = mat'[get_index(q, p)']
      BY <2>6, <3>1 DEF get_index
    <3>3. ASSUME WellListed', NEW p \in 1 .. size', NEW q \in 1 .. size'
          PROVE  mat'[get_index(p - 1, q - 1)'] =
                   IF Listed(p, q)' = {} THEN 0 ELSE file'[Max(Listed(p, q)')].value
      BY <2>7, <3>1, <3>3
    <3> QED BY <2>1, <3>2, <3>3 DEF LoadedAsListed
  <2> QED BY <2>4, <2>8 DEF LoadInv
<1> QED BY <1>5, <1>6

(* When all are entered the matrix is as symmetric as it was.              *)
LEMMA EnterDoneKeeps == LoadInv /\ EnterDone => LoadInv'
<1> SUFFICES ASSUME LoadInv, EnterDone PROVE LoadInv'
  OBVIOUS
<1>1. /\ load = "enter" /\ load' = "loaded"
      /\ nr_nonzero' = 0 /\ elements' = <<>> /\ file' = <<>>
      /\ entered' = 0 /\ UNCHANGED <<size, mat>>
  BY DEF EnterDone
<1>2. LoadTypes'
  <2>1. elements' \in Seq(Element) /\ file' \in Seq(Element)
    BY <1>1
  <2>2. mat' \in [0 .. size' * size' - 1 -> Int] /\ size' \in Nat
    BY <1>1 DEF LoadInv, LoadTypes
  <2> QED BY <1>1, <2>1, <2>2 DEF LoadTypes, Ended
<1>3. \A p, q \in 0 .. size - 1 : mat[get_index(p, q)] = mat[get_index(q, p)]
  BY <1>1 DEF LoadInv, LoadedAsListed
<1>4. Symmetric' /\ LoadedAsListed'
  BY <1>1, <1>3 DEF LoadInv, ReadFirst, Symmetric, LoadedAsListed, get_index
<1> QED BY <1>1, <1>2, <1>4 DEF LoadInv, ReadFirst, FileRead

LEMMA LoadStep == LoadInv /\ [LoadNext]_loadVars => LoadInv'
<1> SUFFICES ASSUME LoadInv, [LoadNext]_loadVars PROVE LoadInv'
  OBVIOUS
<1>1. CASE UNCHANGED loadVars
  <2>1. UNCHANGED <<load, nr_nonzero, size, elements, file, entered, mat>>
    BY <1>1 DEF loadVars
  <2>2. LoadTypes' /\ ReadFirst' /\ FileRead' /\ Symmetric'
    BY <2>1 DEF LoadInv, LoadTypes, ReadFirst, FileRead, Symmetric, get_index, Empty
  <2>3. (\A p, q : Listed(p, q)' = Listed(p, q)) /\ WellListed' = WellListed
    BY <2>1 DEF Listed, WellListed
  <2>4. LoadedAsListed'
    BY <2>1, <2>3, Zenon DEF LoadInv, LoadedAsListed, get_index
  <2> QED BY <2>2, <2>4 DEF LoadInv
<1> QED BY <1>1, GenerateKeeps, BannerKeeps, SizesKeep, ElementKeeps, ReadDoneKeeps,
           EnterKeeps, EnterDoneKeeps DEF LoadNext

------------------------------------------------------------------------------
(* Induction on sets of natural numbers, from the order's well-foundedness.*)
LEMMA NatLessWellFounded == IsWellFoundedOn({p \in Nat \X Nat : p[1] < p[2]}, Nat)
BY NatLessThanWellFounded, Zenon DEF OpToRel

LEMMA SetInduction ==
  ASSUME NEW T \in SUBSET Nat, 0 \in T, \A n \in T : n + 1 \in T
  PROVE  T = Nat
<1> DEFINE Less == {p \in Nat \X Nat : p[1] < p[2]}
           Others == Nat \ T
<1> SUFFICES ASSUME Others # {} PROVE FALSE
  OBVIOUS
<1>1. PICK l \in Others : \A m \in Others : ~ (<<m, l>> \in Less)
  <2>1. IsWellFoundedOn(Less, Nat) /\ Others \subseteq Nat
    BY NatLessWellFounded
  <2> HIDE DEF Less, Others
  <2> QED BY <2>1, WFMin
<1>2. l # 0 /\ l - 1 \in Nat /\ (l - 1) + 1 = l
  OBVIOUS
<1>3. l - 1 \notin T
  BY <1>2
<1>4. <<l - 1, l>> \in Less
  BY <1>2
<1> QED BY <1>1, <1>2, <1>3, <1>4

(* Running sums: there is one function of them, and its values are         *)
(* integers.                                                               *)
LEMMA RunningSumExists ==
  ASSUME NEW N \in Nat, NEW f \in [0 .. N - 1 -> Int]
  PROVE  \E s : s = [n \in 0 .. N |-> IF n = 0 THEN 0 ELSE s[n - 1] + f[n - 1]]
<1> DEFINE Sums(s, n) == /\ s \in [0 .. n -> Int] /\ s[0] = 0
                         /\ \A m \in 1 .. n : s[m] = s[m - 1] + f[m - 1]
           T == {n \in Nat : n <= N => \E s : Sums(s, n)}
<1>1. 0 \in T
  <2>1. Sums([m \in 0 .. 0 |-> 0], 0)
    OBVIOUS
  <2> HIDE DEF Sums
  <2> QED BY <2>1
<1>2. ASSUME NEW n \in T PROVE n + 1 \in T
  <2> HIDE DEF Sums
  <2> SUFFICES ASSUME n + 1 <= N PROVE \E s : Sums(s, n + 1)
    OBVIOUS
  <2>1. PICK s : Sums(s, n)
    OBVIOUS
  <2> USE DEF Sums
  <2> DEFINE t == [m \in 0 .. n + 1 |-> IF m <= n THEN s[m] ELSE s[n] + f[n]]
  <2>2. n \in Nat /\ f[n] \in Int /\ s[n] \in Int
    BY <2>1
  <2>3. t \in [0 .. n + 1 -> Int] /\ t[0] = 0
    BY <2>1, <2>2
  <2>4. ASSUME NEW m \in 1 .. n + 1 PROVE t[m] = t[m - 1] + f[m - 1]
    <3>1. CASE m <= n
      <4>1. t[m] = s[m] /\ t[m - 1] = s[m - 1]
        BY <2>2, <3>1
      <4> QED BY <2>1, <2>2, <3>1, <4>1
    <3>2. CASE ~(m <= n)
      <4>1. m = n + 1 /\ m - 1 = n
        BY <2>2, <3>2
      <4>2. t[m] = s[n] + f[n] /\ t[n] = s[n]
        BY <2>2, <4>1
      <4> HIDE DEF t
      <4> QED BY <4>1, <4>2
    <3> QED BY <3>1, <3>2
  <2> HIDE DEF t
  <2>5. Sums(t, n + 1)
    BY <2>3, <2>4
  <2> HIDE DEF Sums
  <2> QED BY <2>5
<1>3. T = Nat
  <2> HIDE DEF T
  <2>1. T \in SUBSET Nat
    BY DEF T
  <2> QED BY <1>1, <1>2, <2>1, SetInduction
<1>4. PICK s : Sums(s, N)
  <2>1. N \in T
    BY <1>3
  <2> HIDE DEF Sums
  <2> QED BY <2>1
<1>5. s = [n \in 0 .. N |-> IF n = 0 THEN 0 ELSE s[n - 1] + f[n - 1]]
  BY <1>4
<1> QED BY <1>5

LEMMA RunningSumTyped ==
  ASSUME NEW N \in Nat, NEW f \in [0 .. N - 1 -> Int], NEW s,
         s = [n \in 0 .. N |-> IF n = 0 THEN 0 ELSE s[n - 1] + f[n - 1]]
  PROVE  /\ \A n \in 0 .. N : s[n] \in Int
         /\ s[0] = 0
         /\ \A n \in 0 .. N - 1 : s[n + 1] = s[n] + f[n]
<1> DEFINE T == {n \in Nat : n <= N => s[n] \in Int}
<1>1. \A n \in 0 .. N : s[n] = IF n = 0 THEN 0 ELSE s[n - 1] + f[n - 1]
  OBVIOUS
<1>2. 0 \in T
  BY <1>1
<1>3. ASSUME NEW n \in T PROVE n + 1 \in T
  <2> SUFFICES ASSUME n + 1 <= N PROVE s[n + 1] \in Int
    OBVIOUS
  <2>1. n \in Nat /\ s[n] \in Int /\ f[n] \in Int /\ n + 1 \in 0 .. N
    OBVIOUS
  <2>2. s[n + 1] = s[n] + f[n]
    <3>1. n + 1 # 0 /\ (n + 1) - 1 = n
      BY <2>1
    <3> QED BY <1>1, <2>1, <3>1
  <2> QED BY <2>1, <2>2
<1>4. T = Nat
  <2> HIDE DEF T
  <2>1. T \in SUBSET Nat
    BY DEF T
  <2> QED BY <1>2, <1>3, <2>1, SetInduction
<1>5. \A n \in 0 .. N : s[n] \in Int
  <2>1. \A n \in 0 .. N : n \in Nat /\ n <= N
    OBVIOUS
  <2>2. \A n \in Nat : n <= N => s[n] \in Int
    BY <1>4, Zenon
  <2> QED BY <2>1, <2>2
<1>6. ASSUME NEW n \in 0 .. N - 1 PROVE s[n + 1] = s[n] + f[n]
  <2>1. n + 1 \in 0 .. N /\ n + 1 # 0 /\ (n + 1) - 1 = n
    OBVIOUS
  <2> QED BY <1>1, <2>1
<1> QED BY <1>1, <1>5, <1>6

------------------------------------------------------------------------------
(* Line k times x, column by column.                                       *)
LEMMA DotAddsUp ==
  ASSUME size \in Nat, NEW k,
         \A m \in 0 .. size - 1 : A(k, m) * x[m] \in Int
  PROVE  /\ \A n \in 0 .. size : Dot(k)[n] \in Int
         /\ Dot(k)[0] = 0
         /\ \A n \in 0 .. size - 1 : Dot(k)[n + 1] = Dot(k)[n] + A(k, n) * x[n]
<1> DEFINE f == [m \in 0 .. size - 1 |-> A(k, m) * x[m]]
           F(s) == [n \in 0 .. size |-> IF n = 0 THEN 0 ELSE s[n - 1] + f[n - 1]]
           G(s) == [n \in 0 .. size |->
                      IF n = 0 THEN 0 ELSE s[n - 1] + A(k, n - 1) * x[n - 1]]
<1>1. f \in [0 .. size - 1 -> Int] /\ \A m \in 0 .. size - 1 : f[m] = A(k, m) * x[m]
  OBVIOUS
<1>2. ASSUME NEW s PROVE F(s) = G(s)
  <2>1. ASSUME NEW n \in 0 .. size
        PROVE  (IF n = 0 THEN 0 ELSE s[n - 1] + f[n - 1])
                 = (IF n = 0 THEN 0 ELSE s[n - 1] + A(k, n - 1) * x[n - 1])
    <3>1. CASE n # 0
      <4>1. n - 1 \in 0 .. size - 1
        BY <3>1
      <4>2. f[n - 1] = A(k, n - 1) * x[n - 1]
        BY <1>1, <4>1
      <4> QED BY <4>2
    <3> QED BY <3>1
  <2> HIDE DEF f
  <2> QED BY <2>1
<1>3. \E s : s = F(s)
  <2> HIDE DEF f
  <2> QED BY <1>1, RunningSumExists
<1>4. Dot(k) = CHOOSE s : s = G(s)
  BY DEF Dot
<1>5. Dot(k) = G(Dot(k))
  <2> HIDE DEF F, G
  <2>1. \E s : s = G(s)
    BY <1>2, <1>3
  <2> QED BY <1>4, <2>1
<1>6. Dot(k) = F(Dot(k))
  <2> HIDE DEF F, G
  <2> QED BY <1>2, <1>5
<1>7. /\ \A n \in 0 .. size : Dot(k)[n] \in Int
      /\ Dot(k)[0] = 0
      /\ \A n \in 0 .. size - 1 : Dot(k)[n + 1] = Dot(k)[n] + f[n]
  <2> DEFINE d == Dot(k)
  <2>1. d = F(d)
    BY <1>6
  <2> HIDE DEF d, f
  <2>2. /\ \A n \in 0 .. size : d[n] \in Int
        /\ d[0] = 0
        /\ \A n \in 0 .. size - 1 : d[n + 1] = d[n] + f[n]
    BY <1>1, <2>1, RunningSumTyped
  <2> QED BY <2>2 DEF d
<1> QED BY <1>1, <1>7

DsymvPlace ==
  /\ pc \in {"load", "scale", "line", "done"}
  /\ pc # "load" => /\ load = "loaded"
                    /\ x \in [Index -> Int] /\ y0 \in [Index -> Int]
                    /\ y \in [Index -> Int] /\ accum \in Int
  /\ pc \in {"load", "scale"} => j = 0 /\ accum = 0 /\ i \in Nat
  /\ pc = "load" => i = 0
  /\ pc = "scale" => i <= size
  /\ pc = "line" => j \in 0 .. size - 1 /\ i \in 0 .. j
  /\ pc = "done" => j = size

(* The elements of y before i are scaled, the others are not.              *)
HalfScaled ==
  pc = "scale" =>
    \A k \in Index : y[k] = IF k < i THEN (1 + beta) * y0[k] ELSE y0[k]

DsymvInv == LoadInv /\ DsymvPlace /\ HalfScaled /\ PartialProduct

LEMMA DsymvInvInit == DsymvInit => DsymvInv
BY LoadInvInit DEF DsymvInit, DsymvInv, DsymvPlace, HalfScaled, PartialProduct

(* The functions do nothing before a matrix is loaded, and the loader      *)
(* nothing after.                                                          *)
LEMMA LoadKeepsDsymv == DsymvInv /\ LoadNext /\ UNCHANGED dsymvVars => DsymvInv'
<1> SUFFICES ASSUME DsymvInv, LoadNext, UNCHANGED dsymvVars PROVE DsymvInv'
  OBVIOUS
<1>1. LoadInv'
  BY LoadStep DEF DsymvInv
<1>2. load # "loaded"
  BY DEF LoadNext, generate_matrix, ReadBanner, ReadSizes, RescanSizes, ReadElement,
         ReadDone, Enter, EnterDone
<1>3. pc = "load"
  BY <1>2 DEF DsymvInv, DsymvPlace
<1> QED BY <1>1, <1>3 DEF DsymvInv, DsymvPlace, HalfScaled, PartialProduct, dsymvVars

LEMMA ArraysKeep == DsymvInv /\ Arrays /\ UNCHANGED loadVars => DsymvInv'
<1> SUFFICES ASSUME DsymvInv, Arrays, UNCHANGED loadVars PROVE DsymvInv'
  OBVIOUS
<1>1. LoadInv' /\ UNCHANGED <<load, size>>
  BY LoadStep DEF DsymvInv, loadVars
<1>2. /\ pc = "load" /\ load = "loaded" /\ pc' = "scale" /\ UNCHANGED <<j, i, accum>>
      /\ i = 0 /\ j = 0 /\ accum = 0
      /\ x' \in [Index -> Int] /\ y0' \in [Index -> Int] /\ y' = y0'
  BY LoadAssumption DEF Arrays, DsymvInv, DsymvPlace
<1>3. size \in Nat /\ Index' = Index
  BY <1>1 DEF DsymvInv, LoadInv, LoadTypes, Index
<1>4. DsymvPlace'
  BY <1>1, <1>2, <1>3 DEF DsymvPlace
<1>5. HalfScaled'
  BY <1>2, <1>3 DEF HalfScaled, Index
<1> QED BY <1>1, <1>2, <1>4, <1>5 DEF DsymvInv, PartialProduct

LEMMA OnePlus == ASSUME NEW a \in Int, NEW b \in Int PROVE a + b * a = (1 + b) * a
BY Z3

LEMMA ScaleYKeeps == DsymvInv /\ ScaleY /\ UNCHANGED loadVars => DsymvInv'
<1> SUFFICES ASSUME DsymvInv, ScaleY, UNCHANGED loadVars PROVE DsymvInv'
  OBVIOUS
<1>1. LoadInv' /\ UNCHANGED <<load, size>> /\ size \in Nat
  BY LoadStep DEF DsymvInv, loadVars, LoadInv, LoadTypes
<1>2. /\ pc = "scale" /\ i < size /\ i' = i + 1 /\ i \in Nat
      /\ UNCHANGED <<x, y0, pc, j, accum>> /\ load = "loaded"
      /\ y' = [y EXCEPT ![i] = y[i] + beta * y[i]]
      /\ y \in [Index -> Int] /\ y0 \in [Index -> Int] /\ beta \in Int
  BY DsymvAssumption DEF ScaleY, DsymvInv, DsymvPlace
<1>3. i \in Index /\ Index' = Index
  BY <1>1, <1>2 DEF Index
<1>4. y[i] = y0[i] /\ y[i] + beta * y[i] = (1 + beta) * y0[i]
  <2>1. y[i] = y0[i]
    BY <1>2, <1>3 DEF DsymvInv, HalfScaled
  <2> QED BY <1>2, <1>3, <2>1, OnePlus
<1>5. (1 + beta) * y0[i] \in Int
  <2> DEFINE a == y0[i]
  <2>1. a \in Int
    BY <1>2, <1>3
  <2> HIDE DEF a
  <2>2. (1 + beta) * a \in Int
    BY <1>2, <2>1
  <2> QED BY <2>2 DEF a
<1>6. y' = [y EXCEPT ![i] = (1 + beta) * y0[i]] /\ y' \in [Index -> Int]
  <2> DEFINE v == (1 + beta) * y0[i]
  <2>1. y' = [y EXCEPT ![i] = v] /\ v \in Int
    BY <1>2, <1>4, <1>5
  <2> HIDE DEF v
  <2>2. y' \in [Index -> Int]
    BY <1>2, <2>1
  <2> QED BY <2>1, <2>2 DEF v
<1>7. DsymvPlace'
  BY <1>1, <1>2, <1>3, <1>6 DEF DsymvInv, DsymvPlace
<1>8. HalfScaled'
  <2> SUFFICES ASSUME NEW k \in Index
               PROVE  y'[k] = IF k < i + 1 THEN (1 + beta) * y0[k] ELSE y0[k]
    BY <1>2, <1>3 DEF HalfScaled
  <2>1. CASE k = i
    BY <1>2, <1>3, <1>6, <2>1
  <2>2. CASE k # i
    <3>1. y'[k] = y[k]
      BY <1>2, <1>6, <2>2
    <3>2. k < i + 1 <=> k < i
      BY <1>2, <2>2 DEF Index
    <3>3. y[k] = IF k < i THEN (1 + beta) * y0[k] ELSE y0[k]
      BY <1>2 DEF DsymvInv, HalfScaled
    <3> QED BY <3>1, <3>2, <3>3, Zenon
  <2> QED BY <2>1, <2>2
<1> QED BY <1>1, <1>2, <1>7, <1>8 DEF DsymvInv, PartialProduct

(* What the steps of a line start from.                                    *)
LEMMA LineFacts ==
  ASSUME DsymvInv, pc \in {"scale", "line"}
  PROVE  /\ size \in Nat \ {0} /\ alpha \in Int /\ beta \in Int
         /\ x \in [Index -> Int] /\ y0 \in [Index -> Int] /\ y \in [Index -> Int]
         /\ accum \in Int /\ load = "loaded"
         /\ \A p, q \in Index : A(p, q) \in Int /\ A(p, q) = A(q, p)
         /\ \A p, q \in Index : A(p, q) * x[q] \in Int
         /\ \A k \in Index : /\ \A n \in 0 .. size : Dot(k)[n] \in Int
                             /\ Dot(k)[0] = 0
                             /\ \A n \in Index : Dot(k)[n + 1] = Dot(k)[n] + A(k, n) * x[n]
<1>1. /\ load = "loaded" /\ accum \in Int /\ x \in [Index -> Int]
      /\ y0 \in [Index -> Int] /\ y \in [Index -> Int]
  BY DEF DsymvInv, DsymvPlace
<1>2. size \in Nat \ {0}
  BY <1>1 DEF DsymvInv, LoadInv, LoadTypes, Symmetric
<1>3. \A p, q \in Index : A(p, q) \in Int /\ A(p, q) = A(q, p)
  <2> SUFFICES ASSUME NEW p \in Index, NEW q \in Index
               PROVE  A(p, q) \in Int /\ A(p, q) = A(q, p)
    OBVIOUS
  <2>1. A(p, q) = A(q, p)
    BY <1>1 DEF A, Index, DsymvInv, LoadInv, Symmetric
  <2>2. size * p + q \in 0 .. size * size - 1
    BY <1>2, IndexInMatrix DEF Index
  <2>3. A(p, q) \in Int
    BY <2>2 DEF A, get_index, DsymvInv, LoadInv, LoadTypes
  <2> QED BY <2>1, <2>3
<1>4. ASSUME NEW p \in Index, NEW q \in Index PROVE A(p, q) * x[q] \in Int
  <2> DEFINE a == A(p, q)
             b == x[q]
  <2>1. a \in Int /\ b \in Int
    BY <1>1, <1>3
  <2> HIDE DEF a, b
  <2>2. a * b \in Int
    BY <2>1
  <2> QED BY <2>2 DEF a, b
<1>5. ASSUME NEW k \in Index
      PROVE  /\ \A n \in 0 .. size : Dot(k)[n] \in Int
             /\ Dot(k)[0] = 0
             /\ \A n \in Index : Dot(k)[n + 1] = Dot(k)[n] + A(k, n) * x[n]
  BY <1>2, <1>4, DotAddsUp, Zenon DEF Index
<1> QED BY <1>1, <1>2, <1>3, <1>4, <1>5, DsymvAssumption

LEMMA DotStays ==
  ASSUME UNCHANGED <<mat, size, x>>, NEW k
  PROVE  Dot(k)' = Dot(k)
BY DEF Dot, A, get_index

LEMMA ScaleDoneKeeps == DsymvInv /\ ScaleDone /\ UNCHANGED loadVars => DsymvInv'
<1> SUFFICES ASSUME DsymvInv, ScaleDone, UNCHANGED loadVars PROVE DsymvInv'
  OBVIOUS
<1>1. LoadInv' /\ UNCHANGED <<load, size, mat>>
  BY LoadStep DEF DsymvInv, loadVars
<1>2. /\ pc = "scale" /\ i = size /\ pc' = "line" /\ i' = 0 /\ j = 0 /\ accum = 0
      /\ UNCHANGED <<x, y0, y, j, accum>>
  BY DEF ScaleDone, DsymvInv, DsymvPlace
<1>3. /\ size \in Nat \ {0} /\ alpha \in Int /\ y \in [Index -> Int]
      /\ Index' = Index /\ load = "loaded"
      /\ x \in [Index -> Int] /\ y0 \in [Index -> Int]
      /\ \A k \in Index : Dot(k)[0] = 0
  BY <1>1, <1>2, LineFacts DEF Index
<1>4. DsymvPlace'
  BY <1>1, <1>2, <1>3 DEF DsymvPlace
<1>5. \A k \in Index : Dot(k)'[0] = 0
  BY <1>1, <1>2, <1>3, DotStays
<1>6. ASSUME NEW k \in Index
      PROVE  y'[k] = (1 + beta) * y0'[k] + alpha * Dot(k)'[Used(k)']
  <2>1. k < i /\ k \in Nat
    BY <1>2, <1>3 DEF Index
  <2>2. y[k] = (1 + beta) * y0[k] /\ y[k] \in Int
    BY <1>2, <1>3, <2>1 DEF DsymvInv, HalfScaled
  <2>3. Used(k)' = 0
    BY <1>2, <2>1 DEF Used
  <2>4. alpha * 0 = 0
    BY <1>3
  <2>5. y'[k] = (1 + beta) * y0'[k] /\ y'[k] \in Int
    BY <1>2, <2>2
  <2>6. y'[k] + 0 = y'[k]
    BY <2>5
  <2>7. Dot(k)'[Used(k)'] = 0
    BY <1>5, <2>3
  <2> QED BY <2>4, <2>5, <2>6, <2>7, Zenon
<1>7. accum' = Dot(j)'[0]
  <2>1. j \in Index
    BY <1>2, <1>3 DEF Index
  <2> QED BY <1>2, <1>5, <2>1
<1>8. PartialProduct'
  <2>1. j' = j /\ i' = 0
    BY <1>2
  <2> QED BY <1>2, <1>3, <1>6, <1>7, <2>1 DEF PartialProduct, Index
<1> QED BY <1>1, <1>2, <1>4, <1>8 DEF DsymvInv, HalfScaled

LEMMA OneMoreProduct ==
  ASSUME NEW a \in Int, NEW b \in Int, NEW d \in Int, NEW p \in Int, NEW q \in Int
  PROVE  /\ (b + a * d) + a * q * p = b + a * (d + p * q)
         /\ b + a * q * p + a * d = b + a * (d + p * q)
<1>1. a * (d + p * q) = a * d + a * (p * q)
  BY Z3
<1>2. a * (p * q) = a * q * p
  BY Z3
<1>3. a * d \in Int /\ a * q * p \in Int
  BY Z3
<1> QED BY <1>1, <1>2, <1>3

LEMMA LeftKeeps == DsymvInv /\ LeftOfDiagonal /\ UNCHANGED loadVars => DsymvInv'
<1> SUFFICES ASSUME DsymvInv, LeftOfDiagonal, UNCHANGED loadVars PROVE DsymvInv'
  OBVIOUS
<1>1. LoadInv' /\ UNCHANGED <<load, size, mat>>
  BY LoadStep DEF DsymvInv, loadVars
<1>2. /\ pc = "line" /\ i # j /\ i' = i + 1 /\ UNCHANGED <<x, y0, pc, j>>
      /\ y' = [y EXCEPT ![i] = y[i] + alpha * x[j] * A(j, i)]
      /\ accum' = accum + A(j, i) * x[i]
  BY DEF LeftOfDiagonal
<1>3. /\ size \in Nat \ {0} /\ alpha \in Int /\ beta \in Int
      /\ x \in [Index -> Int] /\ y0 \in [Index -> Int] /\ y \in [Index -> Int]
      /\ accum \in Int /\ load = "loaded"
      /\ \A p, q \in Index : A(p, q) \in Int /\ A(p, q) = A(q, p)
      /\ \A p, q \in Index : A(p, q) * x[q] \in Int
      /\ \A k \in Index : /\ \A n \in 0 .. size : Dot(k)[n] \in Int
                          /\ Dot(k)[0] = 0
                          /\ \A n \in Index : Dot(k)[n + 1] = Dot(k)[n] + A(k, n) * x[n]
  BY <1>2, LineFacts
<1>4. /\ j \in Index /\ i \in Index /\ i < j /\ i \in Nat /\ j \in Nat /\ Index' = Index
      /\ j \in 0 .. size /\ i' \in 0 .. j
  <2>1. j \in 0 .. size - 1 /\ i \in 0 .. j
    BY <1>2 DEF DsymvInv, DsymvPlace
  <2>2. Index = 0 .. size - 1 /\ Index' = Index
    BY <1>1 DEF Index
  <2> QED BY <1>2, <1>3, <2>1, <2>2
<1>5. ASSUME NEW k \in Index PROVE Dot(k)' = Dot(k)
  BY <1>1, <1>2, DotStays
<1>6. \A k \in Index : y[k] = (1 + beta) * y0[k] + alpha * Dot(k)[Used(k)]
  BY <1>2 DEF DsymvInv, PartialProduct
<1>7. accum = Dot(j)[i]
  BY <1>2 DEF DsymvInv, PartialProduct
<1>8. accum' = Dot(j)[i + 1] /\ accum' \in Int
  <2>1. Dot(j)[i + 1] = Dot(j)[i] + A(j, i) * x[i]
    BY <1>3, <1>4
  <2>2. i + 1 \in 0 .. size
    BY <1>3, <1>4 DEF Index
  <2>3. Dot(j)[i + 1] \in Int
    BY <1>3, <1>4, <2>2
  <2> QED BY <1>2, <1>7, <2>1, <2>3
<1> DEFINE v == (1 + beta) * y0[i] + alpha * Dot(i)[j + 1]
<1>9. y[i] + alpha * x[j] * A(j, i) = v /\ v \in Int
  <2> DEFINE b == (1 + beta) * y0[i]
             d == Dot(i)[j]
             p == A(i, j)
             q == x[j]
  <2>1. b \in Int
    <3> DEFINE w == y0[i]
    <3>1. w \in Int /\ beta \in Int
      BY <1>3, <1>4
    <3> HIDE DEF w
    <3>2. (1 + beta) * w \in Int
      BY <3>1
    <3> QED BY <3>2 DEF w
  <2>2. d \in Int /\ p \in Int /\ q \in Int /\ A(j, i) = p
    BY <1>3, <1>4
  <2>3. Used(i) = j
    BY <1>2, <1>4 DEF Used
  <2>4. y[i] = b + alpha * d
    BY <1>4, <1>6, <2>3
  <2>5. Dot(i)[j + 1] = d + p * q
    BY <1>3, <1>4
  <2> HIDE DEF b, d, p, q
  <2>6. (b + alpha * d) + alpha * q * p = b + alpha * (d + p * q)
    BY <1>3, <2>1, <2>2, OneMoreProduct
  <2>7. b + alpha * (d + p * q) \in Int
    BY <1>3, <2>1, <2>2
  <2>8. v = b + alpha * (d + p * q)
    BY <2>5 DEF b
  <2>9. y[i] + alpha * x[j] * A(j, i) = (b + alpha * d) + alpha * q * p
    BY <2>2, <2>4 DEF q
  <2> QED BY <2>6, <2>7, <2>8, <2>9
<1> HIDE DEF v
<1>10. y' = [y EXCEPT ![i] = v] /\ y' \in [Index -> Int]
  <2>1. y' = [y EXCEPT ![i] = v]
    BY <1>2, <1>9
  <2> QED BY <1>3, <1>9, <2>1
<1>11. DsymvPlace'
  BY <1>1, <1>2, <1>3, <1>4, <1>8, <1>10 DEF DsymvPlace, Index
<1>12. ASSUME NEW k \in Index
       PROVE  y'[k] = (1 + beta) * y0'[k] + alpha * Dot(k)'[Used(k)']
  <2>1. CASE k = i
    <3>1. Used(k)' = j + 1
      BY <1>2, <1>4, <2>1 DEF Used
    <3>2. y'[k] = v
      BY <1>3, <1>4, <1>10, <2>1
    <3> QED BY <1>2, <1>4, <1>5, <2>1, <3>1, <3>2 DEF v
  <2>2. CASE k # i
    <3>1. k \in Nat
      BY DEF Index
    <3>2. (k < i + 1) = (k < i)
      BY <1>4, <2>2, <3>1
    <3>3. Used(k)' = Used(k)
      BY <1>2, <3>2, Zenon DEF Used
    <3>4. y'[k] = y[k]
      BY <1>3, <1>10, <2>2
    <3>5. y[k] = (1 + beta) * y0[k] + alpha * Dot(k)[Used(k)]
      BY <1>6
    <3>6. Dot(k)' = Dot(k) /\ y0' = y0
      BY <1>2, <1>5
    <3> QED BY <3>3, <3>4, <3>5, <3>6, Zenon
  <2> QED BY <2>1, <2>2
<1>13. PartialProduct'
  <2>1. accum' = Dot(j)'[i']
    BY <1>2, <1>4, <1>5, <1>8
  <2> QED BY <1>2, <1>4, <1>12, <2>1 DEF PartialProduct
<1> QED BY <1>1, <1>2, <1>11, <1>13 DEF DsymvInv, HalfScaled

LEMMA DiagonalKeeps == DsymvInv /\ Diagonal /\ UNCHANGED loadVars => DsymvInv'
<1> SUFFICES ASSUME DsymvInv, Diagonal, UNCHANGED loadVars PROVE DsymvInv'
  OBVIOUS
<1>1. LoadInv' /\ UNCHANGED <<load, size, mat>>
  BY LoadStep DEF DsymvInv, loadVars
<1>2. /\ pc = "line" /\ i = j /\ i' = 0 /\ j' = j + 1 /\ accum' = 0
      /\ UNCHANGED <<x, y0>>
      /\ y' = [y EXCEPT ![j] = y[j] + alpha * x[j] * A(j, j) + alpha * accum]
      /\ pc' = IF j + 1 = size THEN "done" ELSE "line"
  BY DEF Diagonal
<1>3. /\ size \in Nat \ {0} /\ alpha \in Int /\ beta \in Int
      /\ x \in [Index -> Int] /\ y0 \in [Index -> Int] /\ y \in [Index -> Int]
      /\ accum \in Int /\ load = "loaded"
      /\ \A p, q \in Index : A(p, q) \in Int /\ A(p, q) = A(q, p)
      /\ \A k \in Index : /\ \A n \in 0 .. size : Dot(k)[n] \in Int
                          /\ Dot(k)[0] = 0
                          /\ \A n \in Index : Dot(k)[n + 1] = Dot(k)[n] + A(k, n) * x[n]
  BY <1>2, LineFacts
<1>4. /\ j \in Index /\ j \in Nat /\ Index' = Index /\ j + 1 \in 0 .. size
      /\ j + 1 # size => j + 1 \in Index
  <2>1. j \in 0 .. size - 1 /\ i \in 0 .. j
    BY <1>2 DEF DsymvInv, DsymvPlace
  <2>2. Index = 0 .. size - 1 /\ Index' = Index
    BY <1>1 DEF Index
  <2> QED BY <1>2, <1>3, <2>1, <2>2
<1>5. ASSUME NEW k \in Index PROVE Dot(k)' = Dot(k)
  BY <1>1, <1>2, DotStays
<1>6. \A k \in Index : y[k] = (1 + beta) * y0[k] + alpha * Dot(k)[Used(k)]
  BY <1>2 DEF DsymvInv, PartialProduct
<1>7. accum = Dot(j)[j]
  BY <1>2 DEF DsymvInv, PartialProduct
<1> DEFINE v == (1 + beta) * y0[j] + alpha * Dot(j)[j + 1]
<1>9. y[j] + alpha * x[j] * A(j, j) + alpha * accum = v /\ v \in Int
  <2> DEFINE b == (1 + beta) * y0[j]
             d == Dot(j)[j]
             p == A(j, j)
             q == x[j]
  <2>1. b \in Int
    <3> DEFINE w == y0[j]
    <3>1. w \in Int /\ beta \in Int
      BY <1>3, <1>4
    <3> HIDE DEF w
    <3>2. (1 + beta) * w \in Int
      BY <3>1
    <3> QED BY <3>2 DEF w
  <2>2. d \in Int /\ p \in Int /\ q \in Int /\ accum = d
    BY <1>3, <1>4, <1>7
  <2>3. Used(j) = 0
    BY <1>4 DEF Used
  <2>4. y[j] = b
    <3>1. y[j] = b + alpha * Dot(j)[0] /\ Dot(j)[0] = 0
      BY <1>3, <1>4, <1>6, <2>3
    <3> HIDE DEF b
    <3> QED BY <1>3, <2>1, <3>1
  <2>5. Dot(j)[j + 1] = d + p * q
    BY <1>3, <1>4
  <2> HIDE DEF b, d, p, q
  <2>6. b + alpha * q * p + alpha * d = b + alpha * (d + p * q)
    BY <1>3, <2>1, <2>2, OneMoreProduct
  <2>7. b + alpha * (d + p * q) \in Int
    BY <1>3, <2>1, <2>2
  <2>8. v = b + alpha * (d + p * q)
    BY <2>5 DEF b
  <2>9. y[j] + alpha * x[j] * A(j, j) + alpha * accum = b + alpha * q * p + alpha * d
    BY <2>2, <2>4 DEF p, q
  <2> QED BY <2>6, <2>7, <2>8, <2>9
<1> HIDE DEF v
<1>10. y' = [y EXCEPT ![j] = v] /\ y' \in [Index -> Int]
  <2>1. y' = [y EXCEPT ![j] = v]
    BY <1>2, <1>9
  <2> QED BY <1>3, <1>9, <2>1
<1>11. DsymvPlace'
  <2>1. pc' = "done" => j' = size
    BY <1>2
  <2>2. pc' = "line" => j' \in 0 .. size - 1 /\ i' \in 0 .. j'
    BY <1>2, <1>4 DEF Index
  <2>3. pc' \in {"line", "done"}
    BY <1>2
  <2> QED BY <1>1, <1>2, <1>3, <1>4, <1>10, <2>1, <2>2, <2>3 DEF DsymvPlace
<1>12. ASSUME NEW k \in Index
       PROVE  y'[k] = (1 + beta) * y0'[k] + alpha * Dot(k)'[Used(k)']
  <2>0. k \in Nat /\ ~(k < 0) /\ j + 1 + 0 = j + 1
    BY <1>4 DEF Index
  <2>1. CASE k = j
    <3>1. Used(k)' = j + 1
      BY <1>2, <1>4, <2>0, <2>1 DEF Used
    <3>2. y'[k] = v
      BY <1>3, <1>4, <1>10, <2>1
    <3> QED BY <1>2, <1>4, <1>5, <2>1, <3>1, <3>2 DEF v
  <2>2. CASE k # j
    <3>3. Used(k)' = Used(k)
      <4>1. Used(k)' = IF k < j + 1 THEN j + 1 ELSE 0
        BY <1>2, <1>4, <2>0 DEF Used
      <4>2. Used(k) = IF k < j THEN j + 1 ELSE 0
        BY <1>2, <1>4, <2>0 DEF Used
      <4>3. k < j + 1 <=> k < j
        BY <1>4, <2>0, <2>2
      <4> QED BY <4>1, <4>2, <4>3
    <3>4. y'[k] = y[k]
      BY <1>3, <1>10, <2>2
    <3>5. y[k] = (1 + beta) * y0[k] + alpha * Dot(k)[Used(k)]
      BY <1>6
    <3>6. Dot(k)' = Dot(k) /\ y0' = y0
      BY <1>2, <1>5
    <3> QED BY <3>3, <3>4, <3>5, <3>6, Zenon
  <2> QED BY <2>1, <2>2
<1>13. PartialProduct'
  <2>1. ASSUME pc' = "line" PROVE accum' = Dot(j)'[i']
    <3>1. j' \in Index /\ j' = j + 1 /\ i' = 0 /\ accum' = 0
      BY <1>2, <1>4, <2>1
    <3>2. ASSUME NEW k \in Index, k = j' PROVE Dot(k)'[0] = 0
      BY <1>3, <1>5
    <3>3. Dot(j)'[0] = 0
      BY <3>1, <3>2
    <3> QED BY <3>1, <3>3
  <2> QED BY <1>4, <1>12, <2>1 DEF PartialProduct
<1>14. pc' # "scale"
  BY <1>2
<1> QED BY <1>1, <1>11, <1>13, <1>14 DEF DsymvInv, HalfScaled

LEMMA DsymvStep == DsymvInv /\ [DsymvNext]_<<loadVars, dsymvVars>> => DsymvInv'
<1> SUFFICES ASSUME DsymvInv, [DsymvNext]_<<loadVars, dsymvVars>> PROVE DsymvInv'
  OBVIOUS
<1>1. CASE UNCHANGED <<loadVars, dsymvVars>>
  <2>1. LoadInv'
    BY <1>1, LoadStep DEF DsymvInv
  <2>2. UNCHANGED <<x, y0, y, pc, j, i, accum, load, size, mat>>
    BY <1>1 DEF loadVars, dsymvVars
  <2>3. DsymvPlace' /\ HalfScaled'
    BY <2>2 DEF DsymvInv, DsymvPlace, HalfScaled, Index
  <2>4. \A k : Dot(k)' = Dot(k) /\ Used(k)' = Used(k)
    BY <2>2 DEF Dot, A, get_index, Used
  <2>5. Index' = Index
    BY <2>2 DEF Index
  <2>6. PartialProduct'
    <3> SUFFICES ASSUME pc \in {"line", "done"}
                 PROVE  /\ \A k \in Index :
                             y[k] = (1 + beta) * y0[k] + alpha * Dot(k)'[Used(k)']
                        /\ pc = "line" => accum = Dot(j)'[i]
      BY <2>2, <2>5 DEF PartialProduct
    <3>1. /\ \A k \in Index : y[k] = (1 + beta) * y0[k] + alpha * Dot(k)[Used(k)]
          /\ pc = "line" => accum = Dot(j)[i]
      BY DEF DsymvInv, PartialProduct
    <3>2. Dot(j)' = Dot(j)
      BY <2>2 DEF Dot, A, get_index
    <3> QED BY <2>4, <3>1, <3>2
  <2> QED BY <2>1, <2>3, <2>6 DEF DsymvInv
<1> QED BY <1>1, LoadKeepsDsymv, ArraysKeep, ScaleYKeeps, ScaleDoneKeeps, LeftKeeps,
           DiagonalKeeps DEF DsymvNext

(* Whatever a file lists, in whatever numbers, the matrix made of it is    *)
(* symmetric at every step; it is the one the file lists, and nothing is   *)
(* written outside it, as long as the elements read are in the file and    *)
(* for places that the matrix has (main.c:101-108, mmio.c:75-80).          *)
THEOREM MatrixAlwaysAsListed == DsymvSpec => []LoadedAsListed
<1>1. DsymvInv => LoadedAsListed
  BY DEF DsymvInv, LoadInv
<1> QED BY <1>1, DsymvInvInit, DsymvStep, PTL DEF DsymvSpec

(* For any symmetric matrix, vectors and scalars the pass over the lower   *)
(* half accumulates each product of the whole matrix with x exactly once   *)
(* (main.c:290-314).                                                       *)
THEOREM HalfIsEnough == DsymvSpec => []PartialProduct
<1>1. DsymvInv => PartialProduct
  BY DEF DsymvInv
<1> QED BY <1>1, DsymvInvInit, DsymvStep, PTL DEF DsymvSpec
==============================================================================
