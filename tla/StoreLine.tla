------------------------------- MODULE StoreLine -------------------------------
(***************************************************************************)
(* Tema3/paralel: how the SPUs store the lines of their thumbnails side by *)
(* side in the one big image (spu/paralel_spu.c, do_work and store_line).  *)
(* A line is 16 * x + 4 bytes long, so only the first line of four starts  *)
(* at a multiple of 16, where the memory flow controller (MFC) could take  *)
(* it whole: each is cut into two or four pieces, by the place of its      *)
(* thumbnail, and the buffer it is cut from is shifted by as many bytes.   *)
(*                                                                         *)
(* Addresses count bytes from the start of the buffer and of the image,    *)
(* both allocated at a multiple of 16.  A byte is known by its line and    *)
(* its place in the line.                                                  *)
(***************************************************************************)
EXTENDS Integers

CONSTANTS
  x,      (* the line's size is 16 * x + 4                                 *)
  SPUs,   (* the spe_ids at work                                           *)
  Chunks  (* input.height / 4: the lines of a thumbnail                    *)

ASSUME LineAssumption ==
  /\ x \in Nat \ {0}
  /\ SPUs \subseteq 0 .. 15
  /\ Chunks \in Nat \ {0}

LineSize == 16 * x + 4
RowSize == 4 * LineSize

VARIABLES
  pc,           (* SPU -> the step of do_work                              *)
  chunk,        (* SPU -> i, the line it is at                             *)
  scaled_line,  (* SPU -> the line in its img_scaled_line; -1 before any   *)
  mfc,          (* the puts issued and not yet executed                    *)
  big_image     (* address -> the byte there: <<spe_id, line, place>>      *)

lineVars == <<pc, chunk, scaled_line, mfc, big_image>>

Blank == <<>>
ImageBytes == 0 .. 4 * Chunks * RowSize - 1

(* Where a line goes: the rows of thumbnails above it, the lines above it  *)
(* in its row, and the thumbnails to its left.                             *)
base_dma_addr(k, c) ==
  (k \div 4) * Chunks * RowSize + c * RowSize + (k % 4) * LineSize

(* Mutant: the buffer is not shifted.                                      *)
no_padding(k) == 0

left_padding(k) == (k % 4) * 4

(* The sizes of the pieces, by the place of the thumbnail.                 *)
Sizes(place) ==
  CASE place = 0 -> <<(LineSize \div 16) * 16, LineSize % 16>>
    [] place = 1 -> <<4, 8, (LineSize \div 16 - 1) * 16, 8>>
    [] place = 2 -> <<8, (LineSize \div 16 - 1) * 16, 8, 4>>
    [] place = 3 -> <<LineSize % 16, (LineSize \div 16) * 16>>

(* Where piece n starts in the line, after those before it.                *)
Start(sizes, n) ==
  CASE n = 1 -> 0
    [] n = 2 -> sizes[1]
    [] n = 3 -> sizes[1] + sizes[2]
    [] n = 4 -> sizes[1] + sizes[2] + sizes[3]

PieceOf(k, n) ==
  LET sizes == Sizes(k % 4)
  IN  [from |-> Start(sizes, n), size |-> sizes[n]]

Pieces(k) == {PieceOf(k, n) : n \in DOMAIN Sizes(k % 4)}

LineInit ==
  /\ pc = [k \in SPUs |-> "scale"] /\ chunk = [k \in SPUs |-> 0]
  /\ scaled_line = [k \in SPUs |-> -1]
  /\ mfc = {}
  /\ big_image = [a \in ImageBytes |-> Blank]

------------------------------------------------------------------------------
(* The chunk is fetched, awaited and averaged into img_scaled_line.        *)
ScaleChunk(k) ==
  /\ pc[k] = "scale"
  /\ scaled_line' = [scaled_line EXCEPT ![k] = chunk[k]]
  /\ pc' = [pc EXCEPT ![k] = "store"]
  /\ UNCHANGED <<chunk, mfc, big_image>>

(* All the line's puts, one after the other and none awaited.              *)
store_line(k) ==
  /\ pc[k] = "store"
  /\ mfc' = mfc \cup {[spu |-> k, line |-> chunk[k], piece |-> p] : p \in Pieces(k)}
  /\ pc' = [pc EXCEPT ![k] = "wait"]
  /\ UNCHANGED <<chunk, scaled_line, big_image>>

(* Mutant: the puts are not waited for.                                    *)
WaitLineNot(k) ==
  /\ pc[k] = "wait"
  /\ chunk' = [chunk EXCEPT ![k] = @ + 1]
  /\ pc' = [pc EXCEPT ![k] = IF chunk'[k] < Chunks THEN "scale" ELSE "done"]
  /\ UNCHANGED <<scaled_line, mfc, big_image>>

(* waittag: none of the SPU's puts is left.                                *)
WaitLine(k) ==
  /\ pc[k] = "wait"
  /\ \A p \in mfc : p.spu # k
  /\ chunk' = [chunk EXCEPT ![k] = @ + 1]
  /\ pc' = [pc EXCEPT ![k] = IF chunk'[k] < Chunks THEN "scale" ELSE "done"]
  /\ UNCHANGED <<scaled_line, mfc, big_image>>

(* The MFC executes a put, with what the buffer holds by then.             *)
ExecutePut(p) ==
  LET remote == base_dma_addr(p.spu, p.line) + p.piece.from
  IN  /\ mfc' = mfc \ {p}
      /\ big_image' = [a \in ImageBytes |->
           IF a \in remote .. remote + p.piece.size - 1
           THEN <<p.spu, scaled_line[p.spu], p.piece.from + a - remote>>
           ELSE big_image[a]]
      /\ UNCHANGED <<pc, chunk, scaled_line>>

LineNext ==
  \/ \E k \in SPUs : ScaleChunk(k) \/ store_line(k) \/ WaitLine(k)
  \/ \E p \in mfc : ExecutePut(p)
  \/ (\A k \in SPUs : pc[k] = "done") /\ UNCHANGED lineVars

LineSpec == LineInit /\ [][LineNext]_lineVars
------------------------------------------------------------------------------
(* What the MFC can transfer: 1, 2, 4 or 8 bytes, at a multiple of their   *)
(* number, or a multiple of 16 bytes at a multiple of 16; and from and to  *)
(* addresses that agree in their last four bits.                           *)
LegalTransfer(local, remote, size) ==
  /\ local % 16 = remote % 16
  /\ \/ size \in {1, 2, 4, 8} /\ local % size = 0
     \/ size % 16 = 0 /\ local % 16 = 0

(* Every put is one the MFC can execute: the shift of the buffer, the      *)
(* sizes of the pieces and the layout of the big image fit each other      *)
(* (paralel_spu.c:83-139, 222-229).                                        *)
PutsLegal ==
  \A p \in mfc :
    LegalTransfer(left_padding(p.spu) + p.piece.from,
                  base_dma_addr(p.spu, p.line) + p.piece.from, p.piece.size)

(* A line the SPU has left behind is in the big image to the last byte,    *)
(* and no neighbour, working at its own pace, writes over it               *)
(* (paralel_spu.c:147-181).                                                *)
LinesStored ==
  \A k \in SPUs : \A c \in 0 .. chunk[k] - 1 : \A b \in 0 .. LineSize - 1 :
    big_image[base_dma_addr(k, c) + b] = <<k, c, b>>
==============================================================================
