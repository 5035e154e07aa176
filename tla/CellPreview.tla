----------------------------- MODULE CellPreview -----------------------------
(***************************************************************************)
(* Tema4: the PPU program (ppu.c) deals each frame's images to the SPUs    *)
(* round robin, as addresses in their inbound mailboxes; an SPU (spu.c)    *)
(* takes its share, scales the images one after the other and sends one    *)
(* message, which the PPU gets as an event.  An address of zero ends it.   *)
(*                                                                         *)
(* Scaling one image is one step here, which module SpuImage takes apart.  *)
(* It shows what they leave to come: in mode double the put of one line of *)
(* an image may still be pending when the SPU is done with it, which goes  *)
(* on to its next image, or its message, all the same.  That line, "late", *)
(* is told from the other lines of a thumbnail.                            *)
(***************************************************************************)
EXTENDS Integers, Sequences, FiniteSets

CONSTANTS
  NumStreams,       (* NUM_STREAMS                                         *)
  num_spu_threads,  (* the SPUs, by the command line                       *)
  NumFrames,        (* num_frames                                          *)
  InMboxDepth       (* what an SPU's inbound mailbox holds: 4 on the Cell  *)

(* main refuses a number of SPUs that does not divide NUM_STREAMS.         *)
ASSUME CellAssumption ==
  /\ NumStreams \in Nat \ {0}
  /\ num_spu_threads \in 1 .. NumStreams
  /\ NumStreams % num_spu_threads = 0
  /\ NumFrames \in Nat \ {0}
  /\ InMboxDepth \in Nat \ {0}

Streams == 0 .. NumStreams - 1
SPUs == 0 .. num_spu_threads - 1
Share == NumStreams \div num_spu_threads

(* What a big image has of each stream: the line mode double does not wait *)
(* for, the last but one, and the other lines.                             *)
Places == Streams \X {"late", "others"}

(* The message that is no address.                                         *)
Die == NumStreams

Modes == {"simple", "2lines", "double", "dmalist"}

VARIABLES
  ppu,       (* the step of the PPU program                                *)
  frame,     (* the frame it is at; the first is 1                         *)
  j,         (* the stream, or the SPU, its loop is at                     *)
  total_ev,  (* the events counted in this frame                           *)
  input,     (* the frame in the input images; 0: none is read             *)
  big_image, (* stream -> frame of the thumbnail put in its place, or 0    *)
  written,   (* the big images written: place -> frame, or 0               *)
  in_mbox,   (* SPU -> its inbound mailbox                                 *)
  out_intr,  (* SPU -> messages in its one-entry outbound mailbox          *)
  spu,       (* SPU -> the step of its program                             *)
  data,      (* SPU -> the images of its share not yet scaled              *)
  pending,   (* SPU -> the stream whose last line but one the MFC still    *)
             (* has to put, if any                                         *)
  wait_failed, (* a call of spe_event_wait has failed                      *)
  mode       (* the mode of the command line, the same for all SPUs        *)

ppuVars == <<ppu, frame, j, total_ev, input, written, wait_failed, mode>>
cellVars == <<ppuVars, big_image, in_mbox, out_intr, spu, data, pending>>

CellTypeOK ==
  /\ ppu \in {"read", "send", "wait", "write", "die", "join", "exited"}
  /\ frame \in 1 .. NumFrames + 1
  /\ j \in 0 .. NumStreams
  /\ total_ev \in -1 .. num_spu_threads
  /\ wait_failed \in BOOLEAN
  /\ input \in 0 .. NumFrames
  /\ big_image \in [Streams -> 0 .. NumFrames]
  /\ written \in Seq([Places -> 0 .. NumFrames])
  /\ in_mbox \in [SPUs -> Seq(Streams \cup {Die})]
  /\ out_intr \in [SPUs -> 0 .. 1]
  /\ spu \in [SPUs -> {"collect", "process", "notify", "ended"}]
  /\ data \in [SPUs -> Seq(Streams)]
  /\ pending \in [SPUs -> SUBSET Streams]
  /\ mode \in Modes
  /\ \A k \in SPUs : Len(in_mbox[k]) <= InMboxDepth /\ Len(data[k]) <= Share

CellInit ==
  /\ ppu = "read" /\ frame = 1 /\ j = 0 /\ total_ev = 0
  /\ wait_failed = FALSE
  /\ input = 0 /\ big_image = [s \in Streams |-> 0] /\ written = <<>>
  /\ in_mbox = [k \in SPUs |-> <<>>] /\ out_intr = [k \in SPUs |-> 0]
  /\ spu = [k \in SPUs |-> "collect"]
  /\ data = [k \in SPUs |-> <<>>]
  /\ pending = [k \in SPUs |-> {}]
  /\ mode \in Modes

(* The streams whose late line the MFC still has to put.                   *)
Late == UNION {pending[k] : k \in SPUs}

------------------------------------------------------------------------------
(* The PPU's main.                                                         *)

(* read_pnm of every stream's image, whole or not at all: what is no       *)
(* picture it can read ends the program, as in module Pnm.                 *)
read_pnm ==
  \/ input' = frame /\ ppu' = "send"
  \/ ppu' = "exited" /\ UNCHANGED input

ReadImages ==
  /\ ppu = "read"
  /\ read_pnm
  /\ big_image' = [s \in Streams |-> 0]
  /\ j' = 0
  /\ UNCHANGED <<frame, total_ev, written, in_mbox, out_intr, spu, data,
                 wait_failed, pending, mode>>

(* Mutant: a write that does not wait for room.                            *)
InMboxWriteAnyway(k, message) ==
  in_mbox' = [in_mbox EXCEPT ![k] = Append(@, message)]

(* SPE_MBOX_ALL_BLOCKING: the write waits for room in the mailbox.         *)
InMboxWrite(k, message) ==
  /\ Len(in_mbox[k]) < InMboxDepth
  /\ in_mbox' = [in_mbox EXCEPT ![k] = Append(@, message)]

(* Mutant: the quotient in place of the remainder.                         *)
SendAddressByQuotient ==
  /\ ppu = "send"
  /\ InMboxWrite(j \div num_spu_threads, j)
  /\ IF j + 1 < NumStreams
     THEN j' = j + 1 /\ UNCHANGED <<ppu, total_ev>>
     ELSE ppu' = "wait" /\ j' = 0 /\ total_ev' = 0
  /\ UNCHANGED <<frame, input, written, big_image, out_intr, spu, data,
                 wait_failed, pending, mode>>

SendAddress ==
  /\ ppu = "send"
  /\ InMboxWrite(j % num_spu_threads, j)
  /\ IF j + 1 < NumStreams
     THEN j' = j + 1 /\ UNCHANGED <<ppu, total_ev>>
     ELSE ppu' = "wait" /\ j' = 0 /\ total_ev' = 0
  /\ UNCHANGED <<frame, input, written, big_image, out_intr, spu, data,
                 wait_failed, pending, mode>>

(* Mutant: the events are counted, but the messages not read.              *)
EventWaitUnread ==
  /\ ppu = "wait" /\ total_ev < num_spu_threads
  /\ \E events \in (SUBSET {k \in SPUs : out_intr[k] = 1}) \ {{}} :
       total_ev' = IF total_ev + Cardinality(events) <= num_spu_threads
                   THEN total_ev + Cardinality(events) ELSE num_spu_threads
  /\ UNCHANGED <<ppu, frame, j, input, written, big_image, in_mbox, out_intr,
                 spu, data, wait_failed, pending, mode>>

(* spe_event_wait returns some of the events there are, at least one, and  *)
(* the message of each is read.                                            *)
EventWait ==
  /\ ppu = "wait" /\ total_ev < num_spu_threads
  /\ \E events \in (SUBSET {k \in SPUs : out_intr[k] = 1}) \ {{}} :
       /\ total_ev' = total_ev + Cardinality(events)
       /\ out_intr' = [k \in SPUs |-> IF k \in events THEN 0 ELSE out_intr[k]]
  /\ UNCHANGED <<ppu, frame, j, input, written, big_image, in_mbox, spu,
                 data, wait_failed, pending, mode>>

(* A call that fails returns -1, which counts like any number of events.   *)
(* Bound: one failure in a run.                                            *)
EventWaitFails ==
  /\ ppu = "wait" /\ total_ev < num_spu_threads
  /\ ~wait_failed
  /\ total_ev' = total_ev - 1
  /\ wait_failed' = TRUE
  /\ UNCHANGED <<ppu, frame, j, input, written, big_image, in_mbox, out_intr,
                 spu, data, pending, mode>>

(* Mutant: one event too few.                                              *)
FrameDoneEarly ==
  /\ ppu = "wait" /\ total_ev >= num_spu_threads - 1
  /\ ppu' = "write"
  /\ UNCHANGED <<frame, j, total_ev, input, written, big_image, in_mbox,
                 out_intr, spu, data, wait_failed, pending, mode>>

FrameDone ==
  /\ ppu = "wait" /\ total_ev >= num_spu_threads
  /\ ppu' = "write"
  /\ UNCHANGED <<frame, j, total_ev, input, written, big_image, in_mbox,
                 out_intr, spu, data, wait_failed, pending, mode>>

(* The big image as it is in memory, or the end of the program.  In mode   *)
(* double a late line is nobody's: it may not be there yet, or come from a *)
(* buffer that was freed before it was put.                                *)
write_pnm ==
  \/ /\ written' = Append(written,
           [p \in Places |-> IF mode = "double" /\ p[2] = "late"
                             THEN 0 ELSE big_image[p[1]]])
     /\ ppu' = IF frame < NumFrames THEN "read" ELSE "die"
  \/ ppu' = "exited" /\ UNCHANGED written

(* write_pnm, then free_image of every image.  Bound: a put is over when   *)
(* its memory is freed, which is after a whole file has been written; what *)
(* a slower one would do to freed memory is left out.                      *)
WriteBigImage ==
  /\ ppu = "write"
  /\ write_pnm
  /\ input' = 0
  /\ big_image' = [s \in Streams |-> 0]
  /\ frame' = frame + 1
  /\ pending' = [k \in SPUs |-> {}]
  /\ UNCHANGED <<j, total_ev, in_mbox, out_intr, spu, data, wait_failed, mode>>

(* "let them die"                                                          *)
SendDie ==
  /\ ppu = "die"
  /\ InMboxWrite(j, Die)
  /\ IF j + 1 < num_spu_threads
     THEN j' = j + 1 /\ UNCHANGED ppu
     ELSE j' = 0 /\ ppu' = "join"
  /\ UNCHANGED <<frame, total_ev, input, written, big_image, out_intr, spu,
                 data, wait_failed, pending, mode>>

------------------------------------------------------------------------------
(* SPU k's main.                                                           *)

ReadInMbox(k) ==
  LET message == Head(in_mbox[k])
  IN  /\ spu[k] = "collect"
      /\ in_mbox[k] # <<>>
      /\ in_mbox' = [in_mbox EXCEPT ![k] = Tail(@)]
      /\ IF message = Die
         THEN spu' = [spu EXCEPT ![k] = "ended"] /\ UNCHANGED data
         ELSE /\ data' = [data EXCEPT ![k] = Append(@, message)]
              /\ spu' = [spu EXCEPT
                           ![k] = IF Len(data'[k]) < Share THEN @ ELSE "process"]
      /\ UNCHANGED <<ppuVars, big_image, out_intr, pending>>

(* Mutant: the place is the number of the SPU.                             *)
ProcessImageAtSPU(k) ==
  /\ spu[k] = "process"
  /\ big_image' = [big_image EXCEPT ![k] = input]
  /\ pending' = [pending EXCEPT
                   ![k] = IF mode = "double" THEN {Head(data[k])} ELSE {}]
  /\ data' = [data EXCEPT ![k] = Tail(@)]
  /\ spu' = [spu EXCEPT ![k] = IF Len(data[k]) > 1 THEN @ ELSE "notify"]
  /\ UNCHANGED <<ppuVars, in_mbox, out_intr>>

(* Mutant: the waits for the lines of an image do not include the one that *)
(* the image before it has left pending.                                   *)
ProcessImageUnwaited(k) ==
  /\ spu[k] = "process"
  /\ big_image' = [big_image EXCEPT ![Head(data[k])] = input]
  /\ pending' = [pending EXCEPT
                   ![k] = IF mode = "double" THEN @ \cup {Head(data[k])} ELSE {}]
  /\ data' = [data EXCEPT ![k] = Tail(@)]
  /\ spu' = [spu EXCEPT ![k] = IF Len(data[k]) > 1 THEN @ ELSE "notify"]
  /\ UNCHANGED <<ppuVars, in_mbox, out_intr>>

(* The image's struct is fetched, scaled and stored at its block_nr.  Mode *)
(* double waits for a tag before it computes a line, and with it for the   *)
(* put of the image before; its own last put but one it leaves pending (of *)
(* images with at least two lines to put, all of one height).              *)
ProcessImage(k) ==
  /\ spu[k] = "process"
  /\ big_image' = [big_image EXCEPT ![Head(data[k])] = input]
  /\ pending' = [pending EXCEPT
                   ![k] = IF mode = "double" THEN {Head(data[k])} ELSE {}]
  /\ data' = [data EXCEPT ![k] = Tail(@)]
  /\ spu' = [spu EXCEPT ![k] = IF Len(data[k]) > 1 THEN @ ELSE "notify"]
  /\ UNCHANGED <<ppuVars, in_mbox, out_intr>>

(* SPU k's MFC does the put that is pending, at a time of its own, with    *)
(* what the buffer holds by then.                                          *)
Transfer(k) ==
  /\ ppu # "exited" /\ pending[k] # {}
  /\ pending' = [pending EXCEPT ![k] = {}]
  /\ UNCHANGED <<ppuVars, big_image, in_mbox, out_intr, spu, data>>

(* spu_write_out_intr_mbox stalls while the mailbox is full.               *)
WriteOutIntr(k) ==
  /\ spu[k] = "notify" /\ out_intr[k] = 0
  /\ out_intr' = [out_intr EXCEPT ![k] = 1]
  /\ spu' = [spu EXCEPT ![k] = "collect"]
  /\ UNCHANGED <<ppuVars, big_image, in_mbox, data, pending>>

------------------------------------------------------------------------------
PPUStep ==
  ReadImages \/ SendAddress \/ EventWait \/ FrameDone \/ WriteBigImage \/ SendDie

(* exit ends the SPE threads with the process.                             *)
SPUStep(k) ==
  /\ ppu # "exited"
  /\ ReadInMbox(k) \/ ProcessImage(k) \/ WriteOutIntr(k)

(* pthread_join of every thread, and the program is over.                  *)
Joined ==
  /\ ppu = "exited" \/ (ppu = "join" /\ \A k \in SPUs : spu[k] = "ended")
  /\ UNCHANGED cellVars

(* spe_event_wait has no timeout: without an SPU left to send a message it *)
(* waits for ever.                                                         *)
WaitsForever ==
  /\ ppu = "wait" /\ total_ev < num_spu_threads
  /\ \A k \in SPUs : spu[k] = "collect" /\ in_mbox[k] = <<>> /\ out_intr[k] = 0
  /\ wait_failed /\ UNCHANGED cellVars

CellNext ==
  \/ PPUStep \/ EventWaitFails
  \/ \E k \in SPUs : SPUStep(k) \/ Transfer(k)
  \/ Joined \/ WaitsForever

(* The PPU and the SPUs are processors of their own, and never stop.  No   *)
(* step waits for Transfer, of which nothing is assumed.                   *)
CellSpec ==
  /\ CellInit /\ [][CellNext]_cellVars
  /\ WF_cellVars(PPUStep)
  /\ \A k \in SPUs : WF_cellVars(SPUStep(k))
------------------------------------------------------------------------------
Elements(s) == {s[n] : n \in DOMAIN s}

(* An SPU takes the images it was dealt and no others, and is told to die  *)
(* only between two frames: the zero never comes in the middle of a share, *)
(* where it would be taken before the share is scaled (spu.c:465-472).     *)
SharesKept ==
  \A k \in SPUs :
    /\ \A s \in Elements(in_mbox[k]) \cup Elements(data[k]) :
         s # Die => s % num_spu_threads = k
    /\ (spu[k] = "ended" \/ Die \in Elements(in_mbox[k])) =>
         ppu \in {"die", "join"} /\ data[k] = <<>>

(* While an SPU holds images of a frame, the PPU has neither written nor   *)
(* freed that frame, whichever events it counted (ppu.c:278-311).          *)
ImagesAlive ==
  \A k \in SPUs :
    spu[k] # "ended" /\ (data[k] # <<>> \/ spu[k] = "notify") =>
      ppu \in {"send", "wait"} /\ input = frame

(* The last image of an SPU's share, whichever SPU it is.                  *)
LastOfShare(s) == s >= NumStreams - num_spu_threads

(* When the PPU has its events, every image of the frame is scaled into    *)
(* its place and all mailboxes are empty: nothing is left over that the    *)
(* next frame could mistake for its own (ppu.c:282-299).  A put is still   *)
(* pending in mode double at most, and there only one of the image an SPU  *)
(* scaled last (spu.c:207-282, 496).                                       *)
FrameQuiescent ==
  ppu = "write" =>
    /\ \A s \in Streams : big_image[s] = frame
    /\ \A s \in Late : mode = "double" /\ LastOfShare(s)
    /\ \A k \in SPUs : in_mbox[k] = <<>> /\ out_intr[k] = 0 /\ spu[k] = "collect"

(* What the mode answers for.                                              *)
Sure == {p \in Places : mode = "double" => p[2] # "late"}

(* The frames' big images are written in order and with the thumbnails of  *)
(* all the streams, in mode double but for the late line of each, and all  *)
(* of them in the end, however shallow the mailboxes are; if a call of     *)
(* spe_event_wait fails, the frame it is of is not written, and none after *)
(* it: the loop waits for one more event than there are (ppu.c:254-312).   *)
(* An image that cannot be read or written ends the program instead.       *)
Abstract == INSTANCE Preview WITH
  Frames <- NumFrames, served <- Sure,
  written <- [n \in DOMAIN written |-> [p \in Sure |-> written[n][p]]],
  failed <- wait_failed \/ ppu = "exited"
WritesPreview == Abstract!PreviewSpec
==============================================================================
