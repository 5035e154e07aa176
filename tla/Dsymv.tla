-------------------------------- MODULE Dsymv --------------------------------
(***************************************************************************)
(* Tema2: the symmetric matrix-vector product.  dsymv_optimized_pointers   *)
(* (main.c) reads only the lower half of the matrix and uses every element *)
(* off the diagonal twice, whether the matrix was drawn or loaded; main    *)
(* compares its result with that of a library and runs dsymv_brute beside  *)
(* it; dsymv_optimized, which main does not call, takes the same steps     *)
(* with indices.                                                           *)
(*                                                                         *)
(* The doubles of the code are integers here, so sums are exact: rounding  *)
(* is not modelled.  A pointer is the index it points at.                  *)
(***************************************************************************)
EXTENDS LoadMatrix

CONSTANTS alpha, beta  (* the scalars                                      *)

ASSUME DsymvAssumption == alpha \in Int /\ beta \in Int

VARIABLES
  x,      (* the vector, never changed                                     *)
  y0,     (* what y held when the function was called                      *)
  y,      (* the vector the function updates in place                      *)
  pc,     (* the loop the function is in                                   *)
  j, i,   (* the line of the matrix, and the place in it                   *)
  accum   (* the dot product of the line's first i elements with x         *)

dsymvVars == <<x, y0, y, pc, j, i, accum>>

Index == 0 .. size - 1

A(p, q) == mat[get_index(p, q)]

DsymvInit ==
  /\ LoadInit
  /\ x = <<>> /\ y0 = <<>> /\ y = <<>>
  /\ pc = "load" /\ j = 0 /\ i = 0 /\ accum = 0

------------------------------------------------------------------------------
(* The vectors are drawn once the matrix is there.                         *)
Arrays ==
  /\ pc = "load" /\ load = "loaded"
  /\ x' \in [Index -> Values] /\ y0' \in [Index -> Values] /\ y' = y0'
  /\ pc' = "scale"
  /\ UNCHANGED <<j, i, accum>>

(* *pyi += beta * *pyi                                                     *)
ScaleY ==
  /\ pc = "scale" /\ i < size
  /\ y' = [y EXCEPT ![i] = @ + beta * @]
  /\ i' = i + 1
  /\ UNCHANGED <<x, y0, pc, j, accum>>

ScaleDone ==
  /\ pc = "scale" /\ i = size
  /\ pc' = "line" /\ i' = 0
  /\ UNCHANGED <<x, y0, y, j, accum>>

(* An element left of the diagonal counts for y[i] and for y[j].           *)
LeftOfDiagonal ==
  /\ pc = "line" /\ i # j
  /\ y' = [y EXCEPT ![i] = @ + alpha * x[j] * A(j, i)]
  /\ accum' = accum + A(j, i) * x[i]
  /\ i' = i + 1
  /\ UNCHANGED <<x, y0, pc, j>>

(* Mutant: accum is not reset.                                             *)
DiagonalNoReset ==
  /\ pc = "line" /\ i = j
  /\ y' = [y EXCEPT ![j] = @ + alpha * x[j] * A(j, j) + alpha * accum]
  /\ i' = 0 /\ j' = j + 1
  /\ pc' = IF j + 1 = size THEN "done" ELSE "line"
  /\ UNCHANGED <<x, y0, accum>>

Diagonal ==
  /\ pc = "line" /\ i = j
  /\ y' = [y EXCEPT ![j] = @ + alpha * x[j] * A(j, j) + alpha * accum]
  /\ accum' = 0 /\ i' = 0 /\ j' = j + 1
  /\ pc' = IF j + 1 = size THEN "done" ELSE "line"
  /\ UNCHANGED <<x, y0>>

DsymvNext ==
  \/ LoadNext /\ UNCHANGED dsymvVars
  \/ /\ Arrays \/ ScaleY \/ ScaleDone \/ LeftOfDiagonal \/ Diagonal
     /\ UNCHANGED loadVars
  \/ /\ pc = "done" \/ load \in Ended \ {"loaded"}
     /\ UNCHANGED <<loadVars, dsymvVars>>

DsymvSpec == DsymvInit /\ [][DsymvNext]_<<loadVars, dsymvVars>>

(* y := alpha * A * x + beta * y, on a copy of y; main calls it too.       *)
dsymv_brute ==
  [k \in Index |->
     MapThenSumSet(LAMBDA m : alpha * A(k, m) * x[m], Index) + beta * y0[k]]
------------------------------------------------------------------------------
(* Line k of the matrix times x, over the first n columns.                 *)
Dot(k) ==
  LET sum[n \in 0 .. size] ==
        IF n = 0 THEN 0 ELSE sum[n - 1] + A(k, n - 1) * x[n - 1]
  IN  sum

(* How many columns of line k have been added into y[k] so far: it is      *)
(* always the first ones.                                                  *)
Used(k) == IF k < j THEN j + (IF pc = "line" /\ k < i THEN 1 ELSE 0) ELSE 0

(* Reading half of the matrix is enough: at every step y[k] holds its      *)
(* scaled start and each product of row k and x met so far exactly once,   *)
(* and accum those that wait for the line's end; so that y ends as         *)
(* (1 + beta) * y + alpha * A * x, the mirrored half included              *)
(* (main.c:290-314).                                                       *)
PartialProduct ==
  pc \in {"line", "done"} =>
    /\ \A k \in Index : y[k] = (1 + beta) * y0[k] + alpha * Dot(k)[Used(k)]
    /\ pc = "line" => accum = Dot(j)[i]

(* The optimised function "executes the DSYMV operation" (main.c:241, 277),*)
(* which is y := alpha * A * x + beta * y (main.c:221), as dsymv_brute.    *)
ComputesDsymv == pc = "done" => y = dsymv_brute
==============================================================================
