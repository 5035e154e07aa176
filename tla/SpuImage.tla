------------------------------- MODULE SpuImage -------------------------------
(***************************************************************************)
(* One SPU scales its images (Tema4/spu/spu.c) in the mode it is told:     *)
(* process_image_simple makes one scaled line of one get, _2lines two,     *)
(* _dmalist as many as a DMA list fetches; _double makes one, and fetches  *)
(* the next meanwhile.  The memory flow controller (MFC) executes the DMA  *)
(* commands it is given in any order and at any time; the program knows of *)
(* a command's end only by waiting for its tag.                            *)
(*                                                                         *)
(* What a buffer holds is the number of the scaled line it was, or will    *)
(* be, made into; scaling itself is a matter of arithmetic (see README).   *)
(***************************************************************************)
EXTENDS Integers, FiniteSets

CONSTANTS
  Images,          (* the images an SPU gets in a frame: NUM_STREAMS / num_spus *)
  Lines,           (* scaled lines of an image: height / SCALE_FACTOR      *)
  NUM_LIST_ELEMS,  (* the elements of the DMA list, two scaled lines each  *)
  Modes            (* the modes it may be started in                       *)

ASSUME ImageAssumption ==
  /\ Images \in Nat \ {0}
  /\ Lines \in Nat \ {0}
  /\ NUM_LIST_ELEMS \in Nat \ {0}
  /\ Modes \subseteq {"simple", "2lines", "double", "dmalist"}

VARIABLES
  mode,     (* the PPU program's argument                                  *)
  pc,       (* the step of the program                                     *)
  image,    (* the image being scaled                                      *)
  i,        (* the scaled line being made, the first is 1                  *)
  cur_buf,  (* the buffer in use: cur_buf in mode double, else out_line    *)
  in_list,  (* the scaled line the DMA list's first element starts at      *)
  input,    (* buffer -> the four lines in it                              *)
  output,   (* buffer -> the scaled line in it                             *)
  mfc,      (* the DMA commands issued and not yet executed                *)
  dst       (* image -> scaled line -> what main memory holds              *)

imageVars == <<mode, pc, image, i, cur_buf, in_list, input, output, mfc, dst>>

(* How many scaled lines one get brings the lines of.                      *)
Batch ==
  CASE mode = "2lines"  -> 2
    [] mode = "dmalist" -> 2 * NUM_LIST_ELEMS
    [] OTHER            -> 1

(* The loops run height / 32, 8 or 4 times: the lines past a last whole    *)
(* batch are never made.                                                   *)
Made == Batch * (Lines \div Batch)

(* Buffers stand FOUR_LINES apart; input, output and temp have as many.    *)
Buffers == IF mode = "double" THEN {0, 1} ELSE 0 .. Batch - 1

(* What a buffer or a line of the result holds otherwise: nothing that     *)
(* matters, or the remains of memory that was given away.                  *)
Blank == 0
Garbage == -1
Content == {Blank, Garbage} \cup 1 .. Lines

(* Double buffering has a tag for each of its buffers (tags[2]).           *)
tags(b) == IF mode = "double" THEN b ELSE 0

Commands == [op : {"get", "getl", "put"}, buf : Buffers, image : 1 .. Images,
             line : 1 .. Lines]

ImageTypeOK ==
  /\ mode \in Modes
  /\ pc \in {"first", "next", "wait", "scale", "put", "drain", "notify", "done"}
  /\ image \in 1 .. Images
  /\ i \in 1 .. Lines + 1
  /\ cur_buf \in Buffers
  /\ in_list \in 1 .. Made + 1
  /\ input \in [Buffers -> Content]
  /\ output \in [Buffers -> Content]
  /\ mfc \subseteq Commands
  /\ dst \in [1 .. Images -> [1 .. Lines -> Content]]

ImageInit ==
  /\ mode \in Modes
  /\ pc = "first" /\ image = 1 /\ i = 1 /\ cur_buf = 0 /\ in_list = 1
  /\ input = [b \in Buffers |-> Blank]
  /\ output = [b \in Buffers |-> Blank]
  /\ mfc = {}
  /\ dst = [m \in 1 .. Images |-> [l \in 1 .. Lines |-> Blank]]

------------------------------------------------------------------------------
Issue(op, b, l) ==
  mfc' = mfc \cup {[op |-> op, buf |-> b, image |-> image, line |-> l]}

Pending(ops, tag) == {c \in mfc : c.op \in ops /\ tags(c.buf) = tag}

(* Mutant: only the gets are waited for.                                   *)
WaitTagOfGets(tag) == Pending({"get", "getl"}, tag) = {}

(* waittag(t): every command given with the tag has been executed.         *)
WaitTag(tag) == Pending({"get", "getl", "put"}, tag) = {}

(* Get the next batch: a line of the result, or two.                       *)
Get ==
  /\ pc = "first" /\ i <= Made
  /\ Issue("get", 0, i)
  /\ pc' = "wait"
  /\ UNCHANGED <<image, i, cur_buf, in_list, input, output, dst>>

(* Get the lines the list names, when the MFC comes to read the list.      *)
GetList ==
  /\ pc = "first" /\ i <= Made
  /\ Issue("getl", 0, i)
  /\ pc' = "wait"
  /\ UNCHANGED <<image, i, cur_buf, in_list, input, output, dst>>

(* Double buffering: the first lines, for which nothing can be done yet.   *)
GetFirst ==
  /\ pc = "first" /\ i <= Made
  /\ Issue("get", cur_buf, i)
  /\ pc' = "next"
  /\ UNCHANGED <<image, i, cur_buf, in_list, input, output, dst>>

(* Mutant: one more get after the last lines.                              *)
GetNextAlways ==
  /\ pc = "next"
  /\ Issue("get", 1 - cur_buf, i + 1)
  /\ pc' = "wait"
  /\ UNCHANGED <<image, i, cur_buf, in_list, input, output, dst>>

(* Double buffering: the lines after these, if any, into the other buffer. *)
GetNext ==
  /\ pc = "next"
  /\ IF i < Lines THEN Issue("get", 1 - cur_buf, i + 1) ELSE UNCHANGED mfc
  /\ pc' = "wait"
  /\ UNCHANGED <<image, i, cur_buf, in_list, input, output, dst>>

Wait ==
  /\ pc = "wait"
  /\ WaitTag(tags(cur_buf))
  /\ pc' = "scale"
  /\ UNCHANGED <<image, i, cur_buf, in_list, input, output, mfc, dst>>

(* The elements go on to the next lines, once the MFC has read them.       *)
WaitList ==
  /\ pc = "wait"
  /\ WaitTag(tags(cur_buf))
  /\ in_list' = in_list + Batch
  /\ pc' = "scale"
  /\ UNCHANGED <<image, i, cur_buf, input, output, mfc, dst>>

Scale ==
  /\ pc = "scale"
  /\ output' = [output EXCEPT ![cur_buf] = input[cur_buf]]
  /\ pc' = "put"
  /\ UNCHANGED <<image, i, cur_buf, in_list, input, mfc, dst>>

(* After a put: another line of the batch, or the wait for its puts.       *)
NextOfBatch ==
  IF cur_buf + 1 < Batch
  THEN pc' = "scale" /\ i' = i + 1 /\ cur_buf' = cur_buf + 1
  ELSE pc' = "drain" /\ UNCHANGED <<i, cur_buf>>

(* Mutant: the destination does not move on within a batch.                *)
PutBehind ==
  /\ pc = "put"
  /\ Issue("put", cur_buf, i - cur_buf)
  /\ NextOfBatch
  /\ UNCHANGED <<image, in_list, input, output, dst>>

Put ==
  /\ pc = "put"
  /\ Issue("put", cur_buf, i)
  /\ NextOfBatch
  /\ UNCHANGED <<image, in_list, input, output, dst>>

(* Double buffering waits for the put of the image's last line only.       *)
PutSwap ==
  /\ pc = "put"
  /\ Issue("put", cur_buf, i)
  /\ IF i < Lines
     THEN pc' = "next" /\ i' = i + 1 /\ cur_buf' = 1 - cur_buf
     ELSE pc' = "drain" /\ UNCHANGED <<i, cur_buf>>
  /\ UNCHANGED <<image, in_list, input, output, dst>>

Drain ==
  /\ pc = "drain"
  /\ WaitTag(tags(cur_buf))
  /\ pc' = "first" /\ i' = i + 1 /\ cur_buf' = 0
  /\ UNCHANGED <<image, in_list, input, output, mfc, dst>>

(* free_align gives the buffers back, and the next image's malloc_align    *)
(* may hand their memory out under any name, so what a late put finds      *)
(* there is anybody's guess.                                               *)
FreeBuffers ==
  /\ input' = [b \in Buffers |-> Garbage]
  /\ IF mode = "double"
     THEN \E late \in Buffers :
            output' \in [Buffers -> {Garbage, output[late]}]
     ELSE output' = [b \in Buffers |-> Garbage]

(* Mutant: the same image over and over.                                   *)
EndSameImage ==
  /\ pc = "first" /\ i > Made
  /\ pc' = IF image < Images THEN "first" ELSE "notify"
  /\ i' = 1 /\ in_list' = 1
  /\ FreeBuffers
  /\ UNCHANGED <<image, cur_buf, mfc, dst>>

EndImage ==
  /\ pc = "first" /\ i > Made
  /\ IF image < Images
     THEN pc' = "first" /\ image' = image + 1
     ELSE pc' = "notify" /\ UNCHANGED image
  /\ i' = 1 /\ in_list' = 1
  /\ FreeBuffers
  /\ UNCHANGED <<cur_buf, mfc, dst>>

process_image_simple ==
  mode = "simple" /\ (Get \/ Wait \/ Scale \/ Put \/ Drain \/ EndImage)

process_image_2lines ==
  mode = "2lines" /\ (Get \/ Wait \/ Scale \/ Put \/ Drain \/ EndImage)

process_image_double ==
  mode = "double" /\ (\/ GetFirst \/ GetNext \/ Wait \/ Scale
                      \/ PutSwap \/ Drain \/ EndImage)

process_image_dmalist ==
  mode = "dmalist" /\ (\/ GetList \/ WaitList \/ Scale
                       \/ Put \/ Drain \/ EndImage)

(* spu_write_out_intr_mbox: the message that the frame's images are done.  *)
Notify ==
  /\ pc = "notify"
  /\ pc' = "done"
  /\ UNCHANGED <<image, i, cur_buf, in_list, input, output, mfc, dst>>

(* The MFC executes one of its commands; a get fills as many buffers as it *)
(* has lines for.                                                          *)
Transfer ==
  \E c \in mfc :
    /\ mfc' = mfc \ {c}
    /\ CASE c.op = "get" ->
              /\ input' = [b \in Buffers |-> IF b \in c.buf .. c.buf + Batch - 1
                                             THEN c.line + b - c.buf ELSE input[b]]
              /\ UNCHANGED dst
         [] c.op = "getl" ->
              /\ input' = [b \in Buffers |-> in_list + b]
              /\ UNCHANGED dst
         [] c.op = "put" ->
              /\ dst' = [dst EXCEPT ![c.image][c.line] = output[c.buf]]
              /\ UNCHANGED input
    /\ UNCHANGED <<mode, pc, image, i, cur_buf, in_list, output>>

(* The switch over the mode, for each of the frame's images.               *)
Program ==
  /\ \/ process_image_simple \/ process_image_2lines
     \/ process_image_double \/ process_image_dmalist
     \/ Notify
  /\ UNCHANGED mode

ImageNext ==
  \/ Program
  \/ Transfer
  \/ pc = "done" /\ mfc = {} /\ UNCHANGED imageVars

(* The SPU runs, and the MFC executes what it is given.                    *)
ImageSpec ==
  /\ ImageInit /\ [][ImageNext]_imageVars
  /\ WF_imageVars(Program) /\ WF_imageVars(Transfer)
------------------------------------------------------------------------------
(* The program never reads lines that are still on their way into the      *)
(* buffer, nor overwrites a scaled line a put has yet to read: one wait on *)
(* the buffer's tag covers both the get of these lines and the put that    *)
(* used the buffer last (spu.c:92, 136, 207, 218, 246, 348, 381).          *)
NoDataRace ==
  pc \in {"scale", "put"} =>
    /\ Pending({"get", "getl"}, tags(cur_buf)) = {}
    /\ \A c \in Pending({"put"}, tags(cur_buf)) : c.buf # cur_buf
    /\ input[cur_buf] = i

(* When the PPU is told that the images are done, every line of every      *)
(* image is in main memory: it "wait[s] for all SPUs to finish", and then  *)
(* writes the big image to a file (ppu.c:282, 303).                        *)
DoneMeansStored ==
  pc = "done" =>
    \A m \in 1 .. Images, l \in 1 .. Lines : dst[m][l] = l

(* The scaled lines the last wait of an image does not cover.              *)
MayBeLate(l) == mode = "double" /\ l = Lines - 1

(* Whatever the mode and the order in which the MFC works, every line but  *)
(* the one before the last of mode double is in its place by the end of    *)
(* its image, and none is ever in a wrong one; the lines past the last     *)
(* whole batch stay blank (spu.c:85, 204, 344, 414).                       *)
OthersStored ==
  \A m \in 1 .. Images, l \in 1 .. Lines :
    ~MayBeLate(l) =>
      /\ dst[m][l] \in {Blank, l}
      /\ (m < image \/ pc \in {"notify", "done"}) =>
           dst[m][l] = IF l <= Made THEN l ELSE Blank

(* The transfers end, those the program does not wait for included.        *)
AllTransferred == <>[](pc = "done" /\ mfc = {})
==============================================================================
