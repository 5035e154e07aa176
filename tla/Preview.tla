------------------------------- MODULE Preview -------------------------------
(***************************************************************************)
(* What the serial program and both Cell programs promise, Tema3 and Tema4 *)
(* alike: for each frame, in order, one big image is written, and in it    *)
(* the thumbnail of each stream served is made from that stream's image of *)
(* that very frame.  Only an error ends this before the last frame.        *)
(***************************************************************************)
EXTENDS Naturals, Sequences

CONSTANT
  Frames    (* the number of frames                                        *)

VARIABLES
  served,   (* the streams that somebody makes the thumbnails of, or what  *)
            (* of their thumbnails is answered for                         *)
  written,  (* the big images written: stream, or part -> its frame        *)
  failed    (* an error has ended the program's work                       *)

previewVars == <<served, written, failed>>

PreviewInit == written = <<>> /\ failed = FALSE

WriteFrame ==
  /\ ~failed
  /\ LET frame == Len(written) + 1
     IN  frame <= Frames /\ written' = Append(written, [s \in served |-> frame])
  /\ UNCHANGED <<served, failed>>

Fail ==
  /\ ~failed /\ Len(written) < Frames
  /\ failed' = TRUE
  /\ UNCHANGED <<served, written>>

PreviewSpec ==
  /\ PreviewInit /\ [][WriteFrame \/ Fail]_previewVars
  /\ WF_previewVars(WriteFrame)
==============================================================================
