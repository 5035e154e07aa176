------------------------------- MODULE Paralel -------------------------------
(***************************************************************************)
(* Tema3/paralel: the PPU program (ppu/paralel.c) reads a frame of every   *)
(* stream, tells each SPU to begin through its mailbox, counts one event   *)
(* per SPU, and writes the big image; each SPU (spu/paralel_spu.c) makes   *)
(* one stream's thumbnail per frame.                                       *)
(*                                                                         *)
(* The lines of a thumbnail are stored one by one in the code and awaited  *)
(* each (module StoreLine); here they are one step.                        *)
(***************************************************************************)
EXTENDS Pnm, Integers, FiniteSets

CONSTANTS
  UsableSPEs,   (* how many SPEs the program may be given                  *)
  InMboxDepth   (* what an SPU's inbound mailbox holds: 4 on the Cell      *)

ASSUME ParalelAssumption ==
  /\ UsableSPEs \subseteq Nat
  /\ InMboxDepth \in Nat \ {0}

VARIABLES
  spu_threads, (* the SPEs at work                                         *)
  in_mbox,   (* SPU -> BEGIN messages in its inbound mailbox               *)
  out_intr,  (* SPU -> messages in its one-entry outbound mailbox          *)
  spu,       (* SPU -> the step of its program                             *)
  spu_frame, (* SPU -> i of its loop: the frames it has done               *)
  picture    (* SPU -> its thumbnail                                       *)

spuVars == <<spu_threads, in_mbox, out_intr, spu, spu_frame, picture>>
paralelVars == <<pnmVars, spuVars>>

(* SPU k works on stream k, and its spe_id is k.                           *)
SPUs == 0 .. spu_threads - 1

ParalelTypeOK ==
  /\ PnmTypeOK
  /\ spu_threads \in 0 .. NumStreams
  /\ i \in 0 .. NumStreams
  /\ main \in {"begin", "wait"} => i <= spu_threads
  /\ in_mbox \in [SPUs -> 0 .. InMboxDepth]
  /\ out_intr \in [SPUs -> 0 .. 1]
  /\ spu \in [SPUs -> {"wait", "get", "store", "send", "ended"}]
  /\ spu_frame \in [SPUs -> 0 .. NumFrames]
  /\ DOMAIN picture = SPUs

(* As many SPE threads as there are usable SPEs, at most one for each      *)
(* stream (MAX_SPU_THREADS); they run from the start of main on.           *)
ParalelInit ==
  /\ PnmInit
  /\ \E usable \in UsableSPEs :
       spu_threads = IF usable > NumStreams THEN NumStreams ELSE usable
  /\ in_mbox = [k \in SPUs |-> 0] /\ out_intr = [k \in SPUs |-> 0]
  /\ spu = [k \in SPUs |-> "wait"]
  /\ spu_frame = [k \in SPUs |-> 0]
  /\ picture = [k \in SPUs |-> NoImage]

------------------------------------------------------------------------------
(* The PPU: process_frame, called for each frame by do_work.               *)

(* There may be no memory for the big image.                               *)
ImagesRead ==
  /\ main = "read" /\ io = "closed" /\ i = NumStreams
  /\ \/ /\ big_image' = alloc_image(input[0].width, input[0].height)
        /\ main' = "begin" /\ i' = 0
        /\ UNCHANGED <<frame, io, bytes_left, input, results>>
     \/ Exit
  /\ UNCHANGED <<file, spuVars>>

(* Mutant: one SPU too many.                                               *)
SendBeginPastEnd ==
  /\ main = "begin" /\ i <= spu_threads
  /\ in_mbox' = [k \in SPUs |-> IF k = i /\ in_mbox[k] < InMboxDepth
                                THEN in_mbox[k] + 1 ELSE in_mbox[k]]
  /\ i' = i + 1
  /\ UNCHANGED <<main, frame, ioVars, input, big_image, results, spu_threads,
                 out_intr, spu, spu_frame, picture>>

(* spe_in_mbox_write, non-blocking: a full mailbox drops the message, and  *)
(* nobody looks at the result.                                             *)
SendBegin ==
  /\ main = "begin" /\ i < spu_threads
  /\ in_mbox' = [in_mbox EXCEPT ![i] = IF @ < InMboxDepth THEN @ + 1 ELSE @]
  /\ i' = i + 1
  /\ UNCHANGED <<main, frame, ioVars, input, big_image, results, spu_threads,
                 out_intr, spu, spu_frame, picture>>

AllBegun ==
  /\ main = "begin" /\ i = spu_threads
  /\ main' = "wait" /\ i' = 0
  /\ UNCHANGED <<frame, ioVars, input, big_image, results, spuVars>>

(* Mutant: all messages there are are read, and counted as one event.      *)
wait_spu_frame_of_all ==
  /\ main = "wait" /\ i < spu_threads
  /\ \/ /\ \E k \in SPUs : out_intr[k] = 1
        /\ out_intr' = [k \in SPUs |-> 0]
        /\ i' = i + 1
        /\ UNCHANGED <<main, frame, io, bytes_left, input, big_image, results>>
     \/ Exit /\ UNCHANGED out_intr
  /\ UNCHANGED <<file, spu_threads, in_mbox, spu, spu_frame, picture>>

(* wait_spu_frame takes the event of any SPU that has sent a message; if   *)
(* spe_event_wait itself fails, the program exits.                         *)
wait_spu_frame ==
  /\ main = "wait" /\ i < spu_threads
  /\ \/ /\ \E k \in SPUs :
             /\ out_intr[k] = 1
             /\ out_intr' = [out_intr EXCEPT ![k] = 0]
        /\ i' = i + 1
        /\ UNCHANGED <<main, frame, io, bytes_left, input, big_image, results>>
     \/ Exit /\ UNCHANGED out_intr
  /\ UNCHANGED <<file, spu_threads, in_mbox, spu, spu_frame, picture>>

(* Mutant: one event too few.                                              *)
FrameDoneEarly ==
  /\ main = "wait" /\ i >= spu_threads - 1
  /\ main' = "write"
  /\ UNCHANGED <<frame, i, ioVars, input, big_image, results, spuVars>>

FrameDone ==
  /\ main = "wait" /\ i = spu_threads
  /\ main' = "write"
  /\ UNCHANGED <<frame, i, ioVars, input, big_image, results, spuVars>>

------------------------------------------------------------------------------
(* SPU k: main, process_frame and do_work.                                 *)

wait_for_begin(k) ==
  /\ spu[k] = "wait" /\ spu_frame[k] < NumFrames
  /\ in_mbox[k] > 0
  /\ in_mbox' = [in_mbox EXCEPT ![k] = @ - 1]
  /\ spu' = [spu EXCEPT ![k] = "get"]
  /\ UNCHANGED <<pnmVars, spu_threads, out_intr, spu_frame, picture>>

(* The image is fetched from the address that ppu_data gave for input[k],  *)
(* and scaled.                                                             *)
GetImage(k) ==
  /\ spu[k] = "get"
  /\ picture' = [picture EXCEPT ![k] = Thumbnail(input[k])]
  /\ spu' = [spu EXCEPT ![k] = "store"]
  /\ UNCHANGED <<pnmVars, spu_threads, in_mbox, out_intr, spu_frame>>

(* Where line c of the thumbnail starts in the big image.                  *)
base_dma_addr(k, c, thumbnail) ==
  LET row == big_image.width * NUM_CHANNELS
      tile_row_sz == row * (big_image.height \div NUM_IMAGES_HEIGHT)
  IN  (k \div NUM_IMAGES_WIDTH) * tile_row_sz + row * c
        + (k % NUM_IMAGES_WIDTH) * thumbnail.width * NUM_CHANNELS

StoreThumbnail(k) ==
  LET thumbnail == picture[k]
      line == thumbnail.width * NUM_CHANNELS
      Lines(a) == {c \in 0 .. thumbnail.height - 1 :
                     a - base_dma_addr(k, c, thumbnail) \in 0 .. line - 1}
  IN  /\ spu[k] = "store"
      /\ big_image' = [big_image EXCEPT !.data =
           [a \in DOMAIN @ |->
              IF Lines(a) = {} THEN @[a]
              ELSE LET c == CHOOSE c \in Lines(a) : TRUE
                   IN  thumbnail.data[c * line + a - base_dma_addr(k, c, thumbnail)]]]
      /\ picture' = [picture EXCEPT ![k] = NoImage]
      /\ spu' = [spu EXCEPT ![k] = "send"]
      /\ UNCHANGED <<main, frame, i, ioVars, input, results, spu_threads,
                     in_mbox, out_intr, spu_frame>>

(* Waits until its outbound mailbox is empty.                              *)
send_frame_done(k) ==
  /\ spu[k] = "send" /\ out_intr[k] = 0
  /\ out_intr' = [out_intr EXCEPT ![k] = 1]
  /\ spu_frame' = [spu_frame EXCEPT ![k] = @ + 1]
  /\ spu' = [spu EXCEPT ![k] = IF spu_frame'[k] < NumFrames THEN "wait" ELSE "ended"]
  /\ UNCHANGED <<pnmVars, spu_threads, in_mbox, picture>>

------------------------------------------------------------------------------
PPUStep ==
  \/ (FileStep \/ EndFrame("join")) /\ UNCHANGED spuVars
  \/ ImagesRead \/ SendBegin \/ AllBegun \/ wait_spu_frame \/ FrameDone

(* exit ends the SPE threads with the process.                             *)
SPUStep(k) ==
  /\ k \in SPUs /\ main # "exited"
  /\ wait_for_begin(k) \/ GetImage(k) \/ StoreThumbnail(k) \/ send_frame_done(k)

(* pthread_join of every SPE thread, and the program is over.              *)
ParalelEnded ==
  /\ main = "exited" \/ (main = "join" /\ \A k \in SPUs : spu[k] = "ended")
  /\ UNCHANGED paralelVars

ParalelNext == PPUStep \/ (\E k \in Streams : SPUStep(k)) \/ ParalelEnded
------------------------------------------------------------------------------
(* The unchecked non-blocking write never drops a BEGIN, because the PPU   *)
(* waits for every SPU before it sends again: the mailbox it writes to is  *)
(* empty, whatever its depth (paralel.c:90-101).                           *)
BeginNeverDropped == main = "begin" => \A k \in i .. spu_threads - 1 : in_mbox[k] = 0

(* The PPU counts events without looking whose they are or which frame     *)
(* they are of, yet while it lives an SPU only ever touches the images of  *)
(* the frame it is at, between their allocation and their release          *)
(* (paralel.c:75-114).                                                     *)
SPUsInsideFrame ==
  \A k \in SPUs :
    spu[k] \in {"get", "store", "send"} /\ main # "exited" =>
      /\ main \in {"begin", "wait"}
      /\ input[k] # NoImage
      /\ spu_frame[k] = frame - 1

(* The guards of an SPU's steps.                                           *)
SPUCanStep(k) ==
  \/ spu[k] = "wait" /\ spu_frame[k] < NumFrames /\ in_mbox[k] > 0
  \/ spu[k] \in {"get", "store"}
  \/ spu[k] = "send" /\ out_intr[k] = 0

(* While the PPU waits, with no timeout, there are as many SPUs whose      *)
(* event has come, or that are at work and will send it, as events are     *)
(* missing from its count: it never waits in vain, nor leaves an event for *)
(* the next frame (paralel.c:39-66, 98-101).                               *)
EventsOwed ==
  main = "wait" =>
    Cardinality({k \in SPUs : out_intr[k] = 1 \/ SPUCanStep(k)}) = spu_threads - i
==============================================================================
