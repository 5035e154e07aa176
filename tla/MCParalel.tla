------------------------------ MODULE MCParalel ------------------------------
(***************************************************************************)
(* Either program of Tema3, over any files: what the two write is held     *)
(* against the same promise, place by place.                               *)
(***************************************************************************)
EXTENDS Paralel, Serial

VARIABLE program  (* the program that is run                               *)

bothVars == <<paralelVars, scaled, program>>

BothInit ==
  /\ program \in {"serial", "paralel"}
  /\ ParalelInit /\ SerialInit

RunSerial == program = "serial" /\ UNCHANGED <<spuVars, program>>
RunParalel == program = "paralel" /\ UNCHANGED <<scaled, program>>

BothNext == (RunSerial /\ SerialNext) \/ (RunParalel /\ ParalelNext)

(* The PPU and the SPUs are processors of their own, and never stop; the   *)
(* serial program is a process the system runs.                            *)
BothSpec ==
  /\ BothInit /\ [][BothNext]_bothVars
  /\ WF_bothVars(RunSerial /\ SerialStep)
  /\ WF_bothVars(RunParalel /\ PPUStep)
  /\ \A k \in Streams : WF_bothVars(RunParalel /\ SPUStep(k))
------------------------------------------------------------------------------
(* The big image has 4 small images on the width and 4 on the height       *)
(* (paralel.h:37-38): a result file for every frame, in order, with the    *)
(* thumbnail of that frame of every stream in its place - of every stream  *)
(* that has an SPU, where there are fewer - up to the last frame or the    *)
(* first error, and nothing else ends the program.                         *)
Served == IF program = "serial" THEN Streams ELSE SPUs

Abstract == INSTANCE Preview WITH
  Frames <- NumFrames,
  served <- Served,
  failed <- main = "exited",
  written <- [f \in 1 .. frame - 1 |-> [s \in Served |-> Shown(f, s)]]
WritesPreview == Abstract!PreviewSpec
==============================================================================
