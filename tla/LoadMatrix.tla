------------------------------ MODULE LoadMatrix ------------------------------
(***************************************************************************)
(* Tema2: where the matrix comes from.  load_matrix (main.c) has           *)
(* mm_read_unsymmetric_sparse (mmio.c) read the elements a Matrix Market   *)
(* file lists and enters each of them twice; generate_matrix draws one.    *)
(*                                                                         *)
(* What the next read from the file brings is chosen when it is read.  A   *)
(* type word the reader knows is itself, any other is "other"; the words'  *)
(* case and comment lines, which the reader skips, are left out.           *)
(***************************************************************************)
EXTENDS Integers, Sequences, SequencesExt

CONSTANTS
  Sizes,       (* the sizes a matrix may have                              *)
  MaxNonzero,  (* the most elements a file lists                           *)
  Numbers,     (* the rows and columns it may list, right or wrong, as     *)
               (* long as get_index keeps within an int                    *)
  Values       (* the values of elements                                   *)

ASSUME LoadAssumption ==
  /\ Sizes \subseteq Nat \ {0}
  /\ MaxNonzero \in Nat
  /\ Numbers \subseteq Int
  /\ Values \subseteq Int

VARIABLES
  load,        (* the step of the loader                                   *)
  nr_nonzero,  (* how many elements the file says it has                   *)
  size,        (* the size of the matrix: the number of rows               *)
  elements,    (* I, J and val: the elements read so far                   *)
  file,        (* what the file lists for them, until it ends              *)
  entered,     (* how many of them are in the matrix                       *)
  mat          (* index -> element of the linearized matrix                *)

loadVars == <<load, nr_nonzero, size, elements, file, entered, mat>>

(* The ends of the loader: "undefined" where the program reads or writes   *)
(* memory that is not its own, "forever" where it does not get on.         *)
Ended == {"loaded", "undefined", "forever"}

get_index(p, q) == size * p + q

Empty(s) == [index \in 0 .. s * s - 1 |-> 0]

LoadInit ==
  /\ load = "start" /\ nr_nonzero = 0 /\ size = 0
  /\ elements = <<>> /\ file = <<>> /\ entered = 0 /\ mat = Empty(0)

------------------------------------------------------------------------------
LowerHalf(s) == {place \in (0 .. s - 1) \X (0 .. s - 1) : place[2] <= place[1]}

(* A random symmetric matrix: each element of the lower half, twice.       *)
generate_matrix ==
  /\ load = "start"
  /\ \E s \in Sizes :
       /\ size' = s
       /\ \E num \in [LowerHalf(s) -> Values] :
            mat' = [index \in 0 .. s * s - 1 |->
                      LET p == index \div s
                          q == index % s
                      IN  IF q <= p THEN num[<<p, q>>] ELSE num[<<q, p>>]]
  /\ load' = "loaded"
  /\ UNCHANGED <<nr_nonzero, elements, file, entered>>

(* mm_read_banner: what it says of the five words of the first line.       *)
mm_read_banner(object, format, field, symmetry) ==
  IF /\ object = "matrix"
     /\ format \in {"coordinate", "array"}
     /\ field \in {"real", "complex", "pattern", "integer"}
     /\ symmetry \in {"general", "symmetric", "hermitian", "skew-symmetric"}
  THEN "ok" ELSE "MM_UNSUPPORTED_TYPE"

(* mm_is_real, mm_is_matrix and mm_is_sparse; symmetry is not asked about. *)
Supported(object, format, field, symmetry) ==
  /\ mm_read_banner(object, format, field, symmetry) = "ok"
  /\ field = "real" /\ object = "matrix" /\ format = "coordinate"

(* No file, no banner, or a type that is not supported: load_matrix says   *)
(* so, main does not listen and goes on with neither size nor matrix.      *)
ReadBanner ==
  /\ load = "start"
  /\ \/ load' = "undefined"
     \/ \E object \in {"matrix", "other"},
           format \in {"coordinate", "array", "other"},
           field \in {"real", "complex", "pattern", "integer", "other"},
           symmetry \in {"general", "symmetric", "hermitian", "skew-symmetric",
                         "other"} :
          load' = IF Supported(object, format, field, symmetry)
                  THEN "size" ELSE "undefined"
  /\ UNCHANGED <<nr_nonzero, size, elements, file, entered, mat>>

(* Three numbers: the arrays for that many elements are allocated.  The    *)
(* number of columns, the second, is not looked at again.                  *)
ScanSizes ==
  /\ size' \in Sizes /\ nr_nonzero' \in 0 .. MaxNonzero
  /\ mat' = Empty(size')
  /\ load' = "elements"

(* The first line that is no comment: three numbers, another line, or the  *)
(* end of the file.                                                        *)
ReadSizes ==
  /\ load = "size"
  /\ \/ ScanSizes
     \/ load' \in {"rescan", "undefined"}
        /\ UNCHANGED <<nr_nonzero, size, mat>>
  /\ UNCHANGED <<elements, file, entered>>

(* The loop of fscanf: three numbers or the end of the file end it; at a   *)
(* word it stays where it is.                                              *)
RescanSizes ==
  /\ load = "rescan"
  /\ \/ ScanSizes
     \/ load' \in {"undefined", "forever"}
        /\ UNCHANGED <<nr_nonzero, size, mat>>
  /\ UNCHANGED <<elements, file, entered>>

(* Mutant: the places stay counted from one.                               *)
ReadElementFromOne ==
  /\ load = "elements" /\ Len(elements) < nr_nonzero
  /\ \E row, column \in Numbers, value \in Values :
       LET e == [row |-> row, column |-> column, value |-> value]
       IN  /\ elements' = Append(elements, e)
           /\ file' = IF Len(file) = Len(elements) THEN Append(file, e) ELSE file
  /\ UNCHANGED <<load, nr_nonzero, size, entered, mat>>

(* An element, counted from zero.  Nobody looks whether its place is in    *)
(* the matrix, or whether fscanf found one: from the end of the file, or a *)
(* word in it, on nothing more is read and the arrays keep what malloc     *)
(* found in them.                                                          *)
ReadElement ==
  /\ load = "elements" /\ Len(elements) < nr_nonzero
  /\ \E row, column \in Numbers, value \in Values :
       /\ elements' = Append(elements, [row |-> row - 1, column |-> column - 1,
                                        value |-> value])
       /\ \/ UNCHANGED file
          \/ /\ Len(file) = Len(elements)
             /\ file' = Append(file, [row |-> row, column |-> column,
                                      value |-> value])
  /\ UNCHANGED <<load, nr_nonzero, size, entered, mat>>

ReadDone ==
  /\ load = "elements" /\ Len(elements) = nr_nonzero
  /\ load' = "enter"
  /\ UNCHANGED <<nr_nonzero, size, elements, file, entered, mat>>

(* Mutant: the element is entered once.                                    *)
EnterOnce ==
  /\ load = "enter" /\ entered < nr_nonzero
  /\ LET e == elements[entered + 1]
         place == get_index(e.row, e.column)
     IN  IF place \in DOMAIN mat
         THEN mat' = [mat EXCEPT ![place] = e.value] /\ load' = "enter"
         ELSE load' = "undefined" /\ UNCHANGED mat
  /\ entered' = entered + 1
  /\ UNCHANGED <<nr_nonzero, size, elements, file>>

(* The element and its mirror image, wherever their indices lead.          *)
Enter ==
  /\ load = "enter" /\ entered < nr_nonzero
  /\ LET e == elements[entered + 1]
         place == get_index(e.row, e.column)
         mirror == get_index(e.column, e.row)
     IN  IF {place, mirror} \subseteq DOMAIN mat
         THEN mat' = [mat EXCEPT ![place] = e.value, ![mirror] = e.value]
              /\ load' = "enter"
         ELSE load' = "undefined" /\ UNCHANGED mat
  /\ entered' = entered + 1
  /\ UNCHANGED <<nr_nonzero, size, elements, file>>

(* free, and the return from load_matrix.                                  *)
EnterDone ==
  /\ load = "enter" /\ entered = nr_nonzero
  /\ load' = "loaded"
  /\ nr_nonzero' = 0
  /\ elements' = <<>> /\ file' = <<>> /\ entered' = 0
  /\ UNCHANGED <<size, mat>>

LoadNext ==
  \/ generate_matrix \/ ReadBanner \/ ReadSizes \/ RescanSizes
  \/ ReadElement \/ ReadDone \/ Enter \/ EnterDone
------------------------------------------------------------------------------
(* The elements entered so far are all from the file, and for places that  *)
(* the matrix has.                                                         *)
WellListed ==
  /\ entered <= Len(file)
  /\ \A n \in 1 .. entered : {file[n].row, file[n].column} \subseteq 1 .. size

(* Those of them that are listed for p, q or for q, p.                     *)
Listed(p, q) == {n \in 1 .. entered : {file[n].row, file[n].column} = {p, q}}

(* Whatever a file lists, the matrix is symmetric at every step, as dsymv  *)
(* needs it: an element whose place is not in the matrix either leads      *)
(* outside its memory, or hits two places of the diagonal.  As long as all *)
(* are well listed the matrix holds, of those for a pair of places, the    *)
(* last one, and zero where none is, and no write leads outside            *)
(* (main.c:101-108, mmio.c:75-80).                                         *)
LoadedAsListed ==
  /\ load \in {"enter", "loaded"} =>
       \A p, q \in 0 .. size - 1 : mat[get_index(p, q)] = mat[get_index(q, p)]
  /\ load = "enter" /\ WellListed =>
       \A p, q \in 1 .. size :
         mat[get_index(p - 1, q - 1)] =
           IF Listed(p, q) = {} THEN 0 ELSE file[Max(Listed(p, q))].value
  /\ load = "undefined" /\ entered > 0 => ~WellListed
==============================================================================
