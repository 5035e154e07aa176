------------------------------- MODULE Serial --------------------------------
(***************************************************************************)
(* Tema3/serial/serial.c: one thread reads a frame, scales its images one  *)
(* after the other, copies the thumbnails line by line into the big image  *)
(* and writes it.                                                          *)
(***************************************************************************)
EXTENDS Pnm

VARIABLE scaled  (* stream -> its thumbnail                                *)

serialVars == <<pnmVars, scaled>>

SerialInit == PnmInit /\ scaled = [s \in Streams |-> NoImage]

InputRead ==
  /\ main = "read" /\ io = "closed" /\ i = NumStreams
  /\ main' = "scale" /\ i' = 0
  /\ UNCHANGED <<frame, ioVars, input, big_image, results, scaled>>

(* There may be no memory for the thumbnail.                               *)
ScaleImage ==
  /\ main = "scale" /\ i < NumStreams
  /\ \/ /\ scaled' = [scaled EXCEPT ![i] = Thumbnail(input[i])]
        /\ i' = i + 1
        /\ UNCHANGED <<main, frame, io, bytes_left, input, big_image, results>>
     \/ Exit /\ UNCHANGED scaled
  /\ UNCHANGED file

(* Mutant: the thumbnails one after the other, not side by side.           *)
create_big_image_stacked ==
  LET size == Size(scaled[0].width, scaled[0].height)
  IN  [b \in 0 .. NumStreams * size - 1 |-> scaled[b \div size].data[b % size]]

(* The bytes that ptr goes over, in the order of the loops; the size of    *)
(* the first thumbnail is taken for that of all.                           *)
create_big_image ==
  LET height == scaled[0].height
      line == scaled[0].width * NUM_CHANNELS
  IN  [b \in 0 .. NumStreams * height * line - 1 |->
         LET j == (b \div line) % NUM_IMAGES_WIDTH
             k == (b \div (line * NUM_IMAGES_WIDTH)) % height
             row == b \div (line * NUM_IMAGES_WIDTH * height)
         IN  scaled[row * NUM_IMAGES_WIDTH + j].data[k * line + (b % line)]]

AllScaled ==
  /\ main = "scale" /\ i = NumStreams
  /\ \/ /\ big_image' = [width |-> scaled[0].width * NUM_IMAGES_WIDTH,
                         height |-> scaled[0].height * NUM_IMAGES_HEIGHT,
                         data |-> create_big_image]
        /\ main' = "write"
        /\ UNCHANGED <<frame, i, io, bytes_left, input, results>>
     \/ Exit
  /\ UNCHANGED <<file, scaled>>

SerialStep ==
  \/ FileStep /\ UNCHANGED scaled
  \/ InputRead \/ ScaleImage \/ AllScaled
  \/ EndFrame("done") /\ scaled' = [s \in Streams |-> NoImage]

SerialEnded == main \in {"done", "exited"} /\ UNCHANGED serialVars

SerialNext == SerialStep \/ SerialEnded
==============================================================================
