--------------------------------- MODULE Scale ---------------------------------
(***************************************************************************)
(* How the Cell programs scale: one channel of one square of SCALE_FACTOR  *)
(* by SCALE_FACTOR pixels becomes one byte.  The SPUs of Tema3 average the *)
(* four lines in place, two at a time, with an instruction that rounds up, *)
(* and then the four columns (spu/paralel_spu.c); the serial program adds  *)
(* up all sixteen pixels and divides (serial.c).  The SPUs of Tema4 take   *)
(* the same averages in one expression (spu.c).                            *)
(***************************************************************************)
EXTENDS Integers

CONSTANT Levels  (* the bytes an image may have; all of 0 .. 255 in truth  *)

ASSUME LevelsAssumption == Levels \subseteq 0 .. 255

Four == 0 .. 3

(* A byte made of what lies behind the chunk in the SPU's memory.          *)
Unknown == -1

VARIABLES
  source,  (* line -> column -> byte, as read                              *)
  data,    (* the same in img_chunk, being overwritten                     *)
  scaled,  (* the byte of img_scaled_line                                  *)
  step     (* the loop the program is in                                   *)

scaleVars == <<source, data, scaled, step>>

ScaleTypeOK ==
  /\ source \in [Four -> [Four -> 0 .. 255]]
  /\ data \in [Four -> [Four -> {Unknown} \cup 0 .. 255]]
  /\ scaled \in 0 .. 255
  /\ step \in {"upper", "lower", "both", "columns", "done"}

ScaleInit ==
  /\ source \in [Four -> [Four -> Levels]]
  /\ data = source
  /\ scaled = 0
  /\ step = "upper"

------------------------------------------------------------------------------
(* The instruction avgb: the average of two bytes, rounded up.             *)
spu_avg(a, b) == (a + b + 1) \div 2

(* v_line1[k] = spu_avg(v_line1[k], v_line2[k])                            *)
AverageLines(line, other) ==
  data' = [data EXCEPT ![line] = [c \in Four |-> spu_avg(@[c], data[other][c])]]

(* The last loop runs over four times as many vectors as a line has: after *)
(* line 0 it averages line 1 with line 3, and lines 2 and 3 with whatever  *)
(* lies behind the chunk.                                                  *)
AverageBoth ==
  data' = [line \in Four |-> [c \in Four |->
             IF line < 2 THEN spu_avg(data[line + 2][c], data[line][c])
             ELSE Unknown]]

(* compute_lines_average: lines 0 and 1, lines 2 and 3, then both results. *)
compute_lines_average ==
  /\ \/ step = "upper" /\ AverageLines(0, 1) /\ step' = "lower"
     \/ step = "lower" /\ AverageLines(2, 3) /\ step' = "both"
     \/ step = "both" /\ AverageBoth /\ step' = "columns"
  /\ UNCHANGED <<source, scaled>>

Sum(f) == f[0] + f[1] + f[2] + f[3]

(* Mutant: the columns of a line that is not the accumulated one.          *)
compute_columns_of_second ==
  /\ step = "columns"
  /\ scaled' = Sum(data[1]) \div 4
  /\ step' = "done"
  /\ UNCHANGED <<source, data>>

compute_columns_average ==
  /\ step = "columns"
  /\ scaled' = Sum(data[0]) \div 4
  /\ step' = "done"
  /\ UNCHANGED <<source, data>>

ScaleNext ==
  compute_lines_average \/ compute_columns_average
    \/ (step = "done" /\ UNCHANGED scaleVars)

ScaleSpec == ScaleInit /\ [][ScaleNext]_scaleVars

(* The serial program's byte.                                              *)
scale_area_avg(pixels) ==
  ((Sum(pixels[0]) + Sum(pixels[1]) + Sum(pixels[2]) + Sum(pixels[3])) \div 4) \div 4
------------------------------------------------------------------------------
(* The vector code rounds up three times, once in each of two stages of    *)
(* the lines and down once in the columns; all told its byte is never      *)
(* darker than the serial program's and never brighter by more than one    *)
(* (paralel_spu.c:40-78, serial.c:201-219).                                *)
CloseToSerial ==
  step = "done" => scaled - scale_area_avg(source) \in {0, 1}
==============================================================================
