--------------------------------- MODULE Pnm ---------------------------------
(***************************************************************************)
(* Tema3: the images of a frame and the files they come from and go to     *)
(* (paralel/ppu/pnm.c; serial/serial.c has the same functions), called by  *)
(* the loop over frames of a main program that Serial and Paralel complete.*)
(*                                                                         *)
(* An image file is known by what its reader looks at, and every file may  *)
(* be flawed.  A read or a write may take any part of what is asked for.   *)
(* A byte is known by its stream, frame and place.                         *)
(***************************************************************************)
EXTENDS Naturals, Sequences

CONSTANTS
  NUM_IMAGES_WIDTH, NUM_IMAGES_HEIGHT,  (* thumbnails across and down      *)
  SCALE_FACTOR, NUM_CHANNELS,
  NumFrames,        (* num_frames                                          *)
  Width, Height,    (* the size of every image read                        *)
  HeaderSize        (* the bytes of a header as write_pnm prints it        *)

ASSUME PnmAssumption ==
  /\ {NUM_IMAGES_WIDTH, NUM_IMAGES_HEIGHT, SCALE_FACTOR, NUM_CHANNELS,
      NumFrames, Width, Height, HeaderSize} \subseteq Nat \ {0}
  /\ Width % SCALE_FACTOR = 0 /\ Height % SCALE_FACTOR = 0
  /\ SCALE_FACTOR = NUM_IMAGES_WIDTH /\ SCALE_FACTOR = NUM_IMAGES_HEIGHT

NumStreams == NUM_IMAGES_WIDTH * NUM_IMAGES_HEIGHT
Streams == 0 .. NumStreams - 1

SMALL_BUF_SIZE == 16
MAX_COLOR == 255

VARIABLES
  main,        (* the step of the main program                             *)
  frame,       (* the frame it is at; the first is 1                       *)
  i,           (* the counter of its loop                                  *)
  io,          (* the step of read_pnm or write_pnm, or "closed"           *)
  file,        (* the file that read_pnm reads                             *)
  bytes_left,  (* of the loop over the bytes to read or to write           *)
  input,       (* stream -> its image in memory                            *)
  big_image,   (* the image to write                                       *)
  results      (* frame -> the bytes of its result file                    *)

pnmVars == <<main, frame, i, io, file, bytes_left, input, big_image, results>>
ioVars == <<io, file, bytes_left>>

Blank == <<>>
NoImage == [width |-> 0, height |-> 0, data |-> Blank]

Size(width, height) == width * height * NUM_CHANNELS

alloc_image(width, height) ==
  [width |-> width, height |-> height,
   data |-> [b \in 0 .. Size(width, height) - 1 |-> Blank]]

(* A number in a header: its characters with the one that ends it, 0 of    *)
(* them if the file ends first, and what atoi makes of them.               *)
Number(chars, value) == [chars |-> chars, value |-> value]

Good ==
  [opens |-> TRUE, type |-> "P6", width |-> Number(4, Width),
   height |-> Number(4, Height), max_color |-> Number(4, MAX_COLOR),
   bytes |-> Size(Width, Height)]
NoFile == [Good EXCEPT !.opens = FALSE]

(* A comment where the width belongs, for one, is the number 0.            *)
Files ==
  {Good, NoFile,
   [Good EXCEPT !.type = "P5"],
   [Good EXCEPT !.width = Number(10, 0)],
   [Good EXCEPT !.height = Number(0, 0)],
   [Good EXCEPT !.height = Number(SMALL_BUF_SIZE, Height)],
   [Good EXCEPT !.height = Number(SMALL_BUF_SIZE + 1, Height)],
   [Good EXCEPT !.max_color = Number(6, 65535)],
   [Good EXCEPT !.bytes = @ - 1],
   [Good EXCEPT !.bytes = @ + 1]}

PnmTypeOK ==
  /\ frame \in 1 .. NumFrames + 1
  /\ io \in {"closed", "type", "width", "height", "max_color", "data",
             "header", "pixels"}
  /\ file \in Files
  /\ bytes_left \in 0 .. HeaderSize + Size(Width, Height)
  /\ DOMAIN input = Streams
  /\ \A image \in {input[s] : s \in Streams} \cup {big_image} :
       image.data = Blank \/ DOMAIN image.data = 0 .. Size(image.width, image.height) - 1
  /\ DOMAIN results = 1 .. NumFrames

PnmInit ==
  /\ main = "read" /\ frame = 1 /\ i = 0
  /\ io = "closed" /\ file = NoFile /\ bytes_left = 0
  /\ input = [s \in Streams |-> NoImage] /\ big_image = NoImage
  /\ results = [f \in 1 .. NumFrames |-> <<>>]

(* PRINT_ERR_MSG_AND_EXIT                                                  *)
Exit ==
  /\ main' = "exited"
  /\ UNCHANGED <<frame, i, io, bytes_left, input, big_image, results>>

------------------------------------------------------------------------------
(* read_pnm, of the file of stream i and this frame.                       *)

OpenInput ==
  /\ main = "read" /\ io = "closed" /\ i < NumStreams
  /\ file' \in Files
  /\ IF file'.opens
     THEN io' = "type"
          /\ UNCHANGED <<main, frame, i, bytes_left, input, big_image, results>>
     ELSE Exit

ReadType ==
  /\ main = "read" /\ io = "type"
  /\ IF file.type = "P6"
     THEN io' = "width"
          /\ UNCHANGED <<main, frame, i, bytes_left, input, big_image, results>>
     ELSE Exit
  /\ UNCHANGED file

(* 0 stands for the exit: at the end of the file, at the end of buf before *)
(* the character that ends the number, and for what is no number.          *)
read_until(number) ==
  IF number.chars \in 1 .. SMALL_BUF_SIZE THEN number.value ELSE 0

ReadSize(side, next) ==
  /\ main = "read" /\ io = side
  /\ IF read_until(file[side]) > 0
     THEN /\ input' = [input EXCEPT ![i][side] = read_until(file[side])]
          /\ io' = next
          /\ UNCHANGED <<main, frame, i, bytes_left, big_image, results>>
     ELSE Exit
  /\ UNCHANGED file

(* There may be no memory for the image.                                   *)
ReadMaxColor ==
  /\ main = "read" /\ io = "max_color"
  /\ \/ /\ read_until(file.max_color) = MAX_COLOR
        /\ input' = [input EXCEPT ![i] = alloc_image(@.width, @.height)]
        /\ bytes_left' = Size(input[i].width, input[i].height)
        /\ io' = "data"
        /\ UNCHANGED <<main, frame, i, big_image, results>>
     \/ Exit
  /\ UNCHANGED file

(* Mutant: a read that returns less than was asked for is the last.        *)
ReadDataOnce ==
  /\ main = "read" /\ io = "data" /\ bytes_left > 0
  /\ LET at == Size(input[i].width, input[i].height) - bytes_left
         there == IF file.bytes < at + bytes_left THEN file.bytes - at ELSE bytes_left
     IN  \/ there = 0 /\ Exit
         \/ \E n \in 1 .. there :
              /\ input' = [input EXCEPT ![i].data =
                             [b \in DOMAIN @ |-> IF b \in at .. at + n - 1
                                                 THEN <<i, frame, b>> ELSE @[b]]]
              /\ bytes_left' = 0
              /\ UNCHANGED <<main, frame, i, io, big_image, results>>
  /\ UNCHANGED file

(* Mutant: a read that returns less than was asked for is an error.        *)
ReadDataWhole ==
  /\ main = "read" /\ io = "data" /\ bytes_left > 0
  /\ \/ Exit
     \/ /\ file.bytes >= bytes_left
        /\ input' = [input EXCEPT ![i].data =
                       [b \in DOMAIN @ |-> <<i, frame, b>>]]
        /\ bytes_left' = 0
        /\ UNCHANGED <<main, frame, i, io, big_image, results>>
  /\ UNCHANGED file

(* One call of read: at the end of the file it returns 0, and else some of *)
(* the bytes that are there.  (An error has the exit of the file's end.)   *)
ReadData ==
  /\ main = "read" /\ io = "data" /\ bytes_left > 0
  /\ LET at == Size(input[i].width, input[i].height) - bytes_left
         there == IF file.bytes < at + bytes_left THEN file.bytes - at ELSE bytes_left
     IN  \/ there = 0 /\ Exit
         \/ \E n \in 1 .. there :
              /\ input' = [input EXCEPT ![i].data =
                             [b \in DOMAIN @ |-> IF b \in at .. at + n - 1
                                                 THEN <<i, frame, b>> ELSE @[b]]]
              /\ bytes_left' = bytes_left - n
              /\ UNCHANGED <<main, frame, i, io, big_image, results>>
  /\ UNCHANGED file

CloseInput ==
  /\ main = "read" /\ io = "data" /\ bytes_left = 0
  /\ io' = "closed" /\ file' = NoFile
  /\ i' = i + 1
  /\ UNCHANGED <<main, frame, bytes_left, input, big_image, results>>

------------------------------------------------------------------------------
(* write_pnm, of the big image.                                            *)

CreateResult ==
  /\ main = "write" /\ io = "closed"
  /\ \/ /\ results' = [results EXCEPT ![frame] = <<>>]
        /\ io' = "header" /\ bytes_left' = HeaderSize
        /\ UNCHANGED <<main, frame, i, input, big_image>>
     \/ Exit
  /\ UNCHANGED file

Header(image) ==
  [n \in 1 .. HeaderSize |-> <<image.width, image.height, MAX_COLOR, n>>]
Pixels(image) ==
  [n \in 1 .. Size(image.width, image.height) |-> image.data[n - 1]]

(* Mutant: a write that fails ends the loop and not the program.           *)
WriteOrGiveUp(bytes) ==
  LET at == Len(bytes) - bytes_left
  IN  /\ bytes_left > 0
      /\ \/ \E n \in 1 .. bytes_left :
              /\ results' = [results EXCEPT
                               ![frame] = @ \o SubSeq(bytes, at + 1, at + n)]
              /\ bytes_left' = bytes_left - n
         \/ bytes_left' = 0 /\ UNCHANGED results
      /\ UNCHANGED <<main, frame, i, io, file, input, big_image>>

(* One call of write, which may fail.                                      *)
Write(bytes) ==
  LET at == Len(bytes) - bytes_left
  IN  /\ bytes_left > 0
      /\ \/ \E n \in 1 .. bytes_left :
              /\ results' = [results EXCEPT
                               ![frame] = @ \o SubSeq(bytes, at + 1, at + n)]
              /\ bytes_left' = bytes_left - n
              /\ UNCHANGED <<main, frame, i, io, input, big_image>>
         \/ Exit
      /\ UNCHANGED file

WriteHeader == main = "write" /\ io = "header" /\ Write(Header(big_image))

HeaderWritten ==
  /\ main = "write" /\ io = "header" /\ bytes_left = 0
  /\ io' = "pixels" /\ bytes_left' = Size(big_image.width, big_image.height)
  /\ UNCHANGED <<main, frame, i, file, input, big_image, results>>

WritePixels == main = "write" /\ io = "pixels" /\ Write(Pixels(big_image))

(* The file is closed, every image freed, and the next frame begins.       *)
EndFrame(last) ==
  /\ main = "write" /\ io = "pixels" /\ bytes_left = 0
  /\ io' = "closed"
  /\ input' = [s \in Streams |-> NoImage] /\ big_image' = NoImage
  /\ frame' = frame + 1 /\ i' = 0
  /\ main' = IF frame < NumFrames THEN "read" ELSE last
  /\ UNCHANGED <<file, bytes_left, results>>

FileStep ==
  \/ OpenInput \/ ReadType
  \/ ReadSize("width", "height") \/ ReadSize("height", "max_color")
  \/ ReadMaxColor \/ ReadData \/ CloseInput
  \/ CreateResult \/ WriteHeader \/ HeaderWritten \/ WritePixels

------------------------------------------------------------------------------
(* Averages of the squares of an image, known by the place they are for:   *)
(* they are what they should be only if the image is there, and whole.     *)
Thumbnail(image) ==
  LET first == IF image.data = Blank THEN Blank ELSE image.data[0]
      whole == /\ first # Blank
               /\ \A b \in DOMAIN image.data : image.data[b] = <<first[1], first[2], b>>
      width == image.width \div SCALE_FACTOR
      height == image.height \div SCALE_FACTOR
  IN  [width |-> width, height |-> height,
       data |-> [b \in 0 .. Size(width, height) - 1 |->
                   IF whole THEN <<first[1], first[2], b>> ELSE Blank]]

------------------------------------------------------------------------------
(* An image goes to the thumbnails only whole, in whatever pieces the      *)
(* reads returned it, and never a byte of another file; and a read that    *)
(* returns less than was asked for is no error (pnm.c:109-119).            *)
ReadWhole ==
  /\ main \in {"begin", "scale"} =>
       \A s \in Streams :
         input[s].data = [b \in 0 .. Size(Width, Height) - 1 |-> <<s, frame, b>>]
  /\ main = "exited" /\ io = "data" => file.bytes < Size(Width, Height)

(* The one result file that may be cut short is the last, and the program  *)
(* is still writing it or has exited with an error (pnm.c:139-146).        *)
OnlyLastTorn ==
  \A f \in 1 .. NumFrames :
    results[f] # <<>> /\ Len(results[f]) < HeaderSize + Size(Width, Height) =>
      f = frame /\ main \in {"write", "exited"}

(* Where byte b of a stream's thumbnail belongs in the result file, by     *)
(* rows and columns of the big image.                                      *)
PlaceInFile(s, b) ==
  LET line == (Width \div SCALE_FACTOR) * NUM_CHANNELS
      row == (s \div NUM_IMAGES_WIDTH) * (Height \div SCALE_FACTOR) + (b \div line)
      column == (s % NUM_IMAGES_WIDTH) * line + (b % line)
  IN  HeaderSize + row * Width * NUM_CHANNELS + column + 1

(* The frame whose thumbnail of stream s is in frame f's result file, 0 if *)
(* it is not the one that belongs there, whole and in its place.           *)
Shown(f, s) ==
  IF /\ Len(results[f]) = HeaderSize + Size(Width, Height)
     /\ SubSeq(results[f], 1, HeaderSize) = Header([width |-> Width, height |-> Height])
     /\ \A b \in 0 .. Size(Width \div SCALE_FACTOR, Height \div SCALE_FACTOR) - 1 :
          results[f][PlaceInFile(s, b)] = <<s, f, b>>
  THEN f ELSE 0
==============================================================================
