---------------------------- MODULE ParalelProofs ----------------------------
(***************************************************************************)
(* Theorems about both programs of Tema3, for images of any size, any      *)
(* number of frames, of usable SPEs and of mailbox entries, and any flaws  *)
(* of the files: what is read is whole, only the last result file can be   *)
(* torn, the SPUs stay inside the frame the PPU is at, and every result    *)
(* file has the thumbnails of its frame in their places.                   *)
(***************************************************************************)
EXTENDS MCParalel, FiniteSetTheorems, SequenceTheorems, TLAPS

ImageSize == Size(Width, Height)
FileSize == HeaderSize + ImageSize

(* The image of a stream when it is read, and the one that is being read.  *)
Whole(s) ==
  [width |-> Width, height |-> Height,
   data |-> [b \in 0 .. ImageSize - 1 |-> <<s, frame, b>>]]

Half ==
  [width |-> IF io \in {"height", "max_color", "data"} THEN Width ELSE 0,
   height |-> IF io \in {"max_color", "data"} THEN Height ELSE 0,
   data |-> IF io = "data"
            THEN [b \in 0 .. ImageSize - 1 |->
                    IF b < ImageSize - bytes_left THEN <<i, frame, b>> ELSE Blank]
            ELSE Blank]

(* The reader has found good what it has looked at, and has not read past  *)
(* the end of the file.                                                    *)
ReadPlace ==
  main = "read" =>
    /\ i \in 0 .. NumStreams /\ (io # "closed" => i < NumStreams)
    /\ io \in {"closed", "type", "width", "height", "max_color", "data"}
    /\ io = "data" => bytes_left <= ImageSize /\ ImageSize - bytes_left <= file.bytes
    /\ input = [s \in Streams |-> IF s < i THEN Whole(s)
                                  ELSE IF s = i THEN Half ELSE NoImage]

(* From then on the images are whole, until they are freed.                *)
ImagesPlace ==
  /\ main \in {"begin", "wait", "scale", "write"} => input = [s \in Streams |-> Whole(s)]
  /\ main \in {"join", "done"} => input = [s \in Streams |-> NoImage]
  /\ main \in {"begin", "wait", "write"} =>
       \E data : /\ big_image = [width |-> Width, height |-> Height, data |-> data]
                 /\ DOMAIN data = 0 .. ImageSize - 1
  /\ main \in {"read", "scale", "join", "done"} => big_image = NoImage
  /\ main \in {"begin", "wait", "scale", "join", "done"} => io = "closed"
  /\ main = "write" => io \in {"closed", "header", "pixels"}

(* What is written of the result file of frame f.                          *)
Written(f) ==
  CASE f < frame -> FileSize
    [] f = frame /\ main = "write" /\ io = "header" -> HeaderSize - bytes_left
    [] f = frame /\ main = "write" /\ io = "pixels" -> FileSize - bytes_left
    [] OTHER -> 0

ResultsPlace ==
  /\ \E S : results \in [1 .. NumFrames -> Seq(S)]
  /\ main \notin {"join", "done"} => frame <= NumFrames
  /\ main \in {"join", "done"} => frame = NumFrames + 1
  /\ \A f \in 1 .. NumFrames :
       (main = "exited" /\ f = frame) \/ Len(results[f]) = Written(f)
  /\ main = "write" /\ io = "header" => bytes_left <= HeaderSize
  /\ main = "write" /\ io = "pixels" => bytes_left <= ImageSize

ExitPlace == main = "exited" /\ io = "data" => file.bytes < ImageSize

(* The serial program's thumbnails.                                        *)
ScaledPlace ==
  main = "scale" =>
    /\ program = "serial" /\ i \in 0 .. NumStreams /\ DOMAIN scaled = Streams
    /\ \A s \in Streams : s < i => /\ scaled[s].width = Width \div SCALE_FACTOR
                                   /\ scaled[s].height = Height \div SCALE_FACTOR

FileInv ==
  /\ PnmTypeOK /\ ReadPlace /\ ImagesPlace /\ ResultsPlace /\ ExitPlace /\ ScaledPlace
  /\ main \in {"read", "begin", "wait", "scale", "write", "join", "done", "exited"}

(* Where an SPU is in a frame, and between two frames.                     *)
Idle(k, done) ==
  /\ in_mbox[k] = 0 /\ out_intr[k] = 0 /\ spu_frame[k] = done
  /\ spu[k] = IF done < NumFrames THEN "wait" ELSE "ended"

AtWork(k) ==
  /\ spu_frame[k] = frame - 1 /\ out_intr[k] = 0
  /\ \/ spu[k] = "wait" /\ in_mbox[k] = 1
     \/ spu[k] \in {"get", "store", "send"} /\ in_mbox[k] = 0

HasSent(k) ==
  /\ spu_frame[k] = frame /\ out_intr[k] = 1 /\ in_mbox[k] = 0
  /\ spu[k] = IF frame < NumFrames THEN "wait" ELSE "ended"

(* The PPU's count of events is the number of SPUs whose message it has    *)
(* read, though it never looks whose they are.                             *)
Counted == {k \in SPUs : spu_frame[k] = frame /\ out_intr[k] = 0}

SPUPlace(k) ==
  CASE main = "read"  -> Idle(k, frame - 1)
    [] main = "begin" -> IF k < i THEN AtWork(k) \/ HasSent(k) ELSE Idle(k, frame - 1)
    [] main = "wait"  -> AtWork(k) \/ HasSent(k) \/ Idle(k, frame)
    [] main = "write" -> Idle(k, frame)
    [] main = "join"  -> Idle(k, NumFrames)
    [] OTHER -> TRUE

ParalelPlace ==
  /\ program \in {"serial", "paralel"}
  /\ main \in {"begin", "wait", "join"} => program = "paralel"
  /\ main = "done" => program = "serial"
  /\ DOMAIN scaled = Streams
  /\ \A k \in SPUs :
       IF program = "serial" THEN spu[k] = "wait" ELSE SPUPlace(k)
  /\ main = "wait" => i = Cardinality(Counted)

ParalelInv == FileInv /\ ParalelTypeOK /\ ParalelPlace

------------------------------------------------------------------------------
(* The constants, and what any file may hold.                              *)
LEMMA Constants ==
  /\ NUM_IMAGES_WIDTH \in Nat \ {0} /\ NUM_IMAGES_HEIGHT \in Nat \ {0}
  /\ SCALE_FACTOR \in Nat \ {0} /\ NUM_CHANNELS \in Nat \ {0}
  /\ NumFrames \in Nat \ {0} /\ Width \in Nat \ {0} /\ Height \in Nat \ {0}
  /\ HeaderSize \in Nat \ {0}
  /\ (Width \div SCALE_FACTOR) * NUM_IMAGES_WIDTH = Width
  /\ (Height \div SCALE_FACTOR) * NUM_IMAGES_HEIGHT = Height
  /\ NumStreams \in Nat \ {0} /\ ImageSize \in Nat \ {0}
<1>1. /\ NUM_IMAGES_WIDTH \in Nat \ {0} /\ NUM_IMAGES_HEIGHT \in Nat \ {0}
      /\ SCALE_FACTOR \in Nat \ {0} /\ NUM_CHANNELS \in Nat \ {0}
      /\ NumFrames \in Nat \ {0} /\ Width \in Nat \ {0} /\ Height \in Nat \ {0}
      /\ HeaderSize \in Nat \ {0}
      /\ Width % SCALE_FACTOR = 0 /\ Height % SCALE_FACTOR = 0
      /\ SCALE_FACTOR = NUM_IMAGES_WIDTH /\ SCALE_FACTOR = NUM_IMAGES_HEIGHT
  BY PnmAssumption
<1>2. \A a, b \in Nat \ {0} : a * b \in Nat \ {0}
  OBVIOUS
<1>3. NumStreams \in Nat \ {0} /\ ImageSize \in Nat \ {0}
  BY <1>1, <1>2 DEF NumStreams, ImageSize, Size
<1>4. /\ Width = SCALE_FACTOR * (Width \div SCALE_FACTOR) + 0
      /\ Height = SCALE_FACTOR * (Height \div SCALE_FACTOR) + 0
      /\ Width \div SCALE_FACTOR \in Nat /\ Height \div SCALE_FACTOR \in Nat
  BY <1>1
<1>5. /\ (Width \div SCALE_FACTOR) * SCALE_FACTOR = Width
      /\ (Height \div SCALE_FACTOR) * SCALE_FACTOR = Height
  BY <1>1, <1>4
<1> QED BY <1>1, <1>3, <1>5

LEMMA FilesAre ==
  ASSUME NEW f \in Files
  PROVE  /\ read_until(f.width) \in {0, Width} /\ read_until(f.height) \in {0, Height}
         /\ f.bytes \in {ImageSize - 1, ImageSize, ImageSize + 1}
BY Constants DEF Files, Good, NoFile, Number, read_until, SMALL_BUF_SIZE, ImageSize

LEMMA NoFileIs == NoFile \in Files
BY DEF Files

(* The types of the images follow from where the program is.               *)
LEMMA ImagesTyped ==
  ASSUME ReadPlace', ImagesPlace',
         main' \in {"read", "begin", "wait", "scale", "write", "join", "done"},
         frame' \in 1 .. NumFrames + 1, file' \in Files,
         bytes_left' \in 0 .. HeaderSize + ImageSize, DOMAIN results' = 1 .. NumFrames
  PROVE  PnmTypeOK'
<1>1. /\ DOMAIN input' = Streams
      /\ \A s \in Streams : \/ input'[s].data = Blank
                            \/ DOMAIN input'[s].data
                                 = 0 .. Size(input'[s].width, input'[s].height) - 1
  <2>1. CASE main' = "read"
    <3>1. input' = [s \in Streams |-> IF s < i' THEN Whole(s)' ELSE IF s = i' THEN Half'
                                      ELSE NoImage]
      BY <2>1 DEF ReadPlace
    <3>2. \A s : /\ Whole(s)'.width = Width /\ Whole(s)'.height = Height
                 /\ DOMAIN Whole(s)'.data = 0 .. ImageSize - 1
      BY DEF Whole
    <3>3. \/ Half'.data = Blank
          \/ /\ Half'.width = Width /\ Half'.height = Height
             /\ DOMAIN Half'.data = 0 .. ImageSize - 1
      BY DEF Half
    <3> QED BY <3>1, <3>2, <3>3 DEF NoImage, ImageSize
  <2>2. CASE main' # "read"
    BY <2>2 DEF ImagesPlace, Whole, NoImage, ImageSize
  <2> QED BY <2>1, <2>2
<1>2. \/ big_image'.data = Blank
      \/ DOMAIN big_image'.data = 0 .. Size(big_image'.width, big_image'.height) - 1
  BY DEF ImagesPlace, NoImage, ImageSize
<1>3. io' \in {"closed", "type", "width", "height", "max_color", "data", "header", "pixels"}
  BY DEF ReadPlace, ImagesPlace
<1> QED BY <1>1, <1>2, <1>3 DEF PnmTypeOK, ImageSize

LEMMA FileInvInit ==
  ASSUME PnmInit
  PROVE  FileInv
<1>1. /\ main = "read" /\ frame = 1 /\ i = 0 /\ io = "closed" /\ file = NoFile
      /\ bytes_left = 0 /\ big_image = NoImage /\ input = [s \in Streams |-> NoImage]
      /\ results = [f \in 1 .. NumFrames |-> <<>>]
  BY DEF PnmInit
<1>2. PnmTypeOK
  <2>1. \A image \in {input[s] : s \in Streams} \cup {big_image} : image.data = Blank
    BY <1>1 DEF NoImage
  <2> QED BY <1>1, <2>1, NoFileIs, Constants DEF PnmTypeOK, ImageSize, Size
<1>3. ReadPlace
  <2>1. Half = NoImage
    BY <1>1 DEF Half, NoImage
  <2>2. \A s \in Streams : ~(s < i)
    BY <1>1 DEF Streams
  <2>3. [s \in Streams |-> IF s < i THEN Whole(s) ELSE IF s = i THEN Half ELSE NoImage]
          = [s \in Streams |-> NoImage]
    BY <2>1, <2>2
  <2> QED BY <1>1, <2>3, Constants DEF ReadPlace
<1>4. ResultsPlace
  <2>1. results \in [1 .. NumFrames -> Seq({})] /\ Len(<<>>) = 0
    BY <1>1, EmptySeq
  <2>2. \A f \in 1 .. NumFrames : Written(f) = 0
    BY <1>1 DEF Written
  <2> QED BY <1>1, <2>1, <2>2, Constants DEF ResultsPlace
<1> QED BY <1>1, <1>2, <1>3, <1>4 DEF FileInv, ImagesPlace, ExitPlace, ScaledPlace

------------------------------------------------------------------------------
(* The steps of read_pnm and write_pnm.                                    *)
LEMMA ExitStep ==
  ASSUME FileInv, Exit, UNCHANGED <<scaled, program>>, main \notin {"join", "done", "exited"},
         file' \in Files, io = "data" => file'.bytes < ImageSize
  PROVE  FileInv'
<1>1. /\ main' = "exited"
      /\ UNCHANGED <<frame, i, io, bytes_left, input, big_image, results>>
  BY DEF Exit
<1>2. PnmTypeOK'
  BY <1>1 DEF FileInv, PnmTypeOK
<1>3. ResultsPlace'
  <2>1. \A f \in 1 .. NumFrames : f # frame => Written(f)' = Written(f)
    BY <1>1 DEF Written
  <2> QED BY <1>1, <2>1 DEF FileInv, ResultsPlace
<1> QED BY <1>1, <1>2, <1>3 DEF FileInv, ReadPlace, ImagesPlace, ExitPlace, ScaledPlace

(* A step of the reader that does not leave it.                            *)
LEMMA ReadingStep ==
  ASSUME FileInv, main = "read", UNCHANGED <<main, frame, big_image, results>>,
         ReadPlace', file' \in Files, bytes_left' \in 0 .. HeaderSize + ImageSize
  PROVE  FileInv'
<1>1. ImagesPlace' /\ ExitPlace' /\ ScaledPlace'
  BY DEF FileInv, ImagesPlace, ExitPlace, ScaledPlace
<1>2. ResultsPlace'
  BY DEF FileInv, ResultsPlace, Written
<1>3. PnmTypeOK'
  BY <1>1, ImagesTyped DEF FileInv, PnmTypeOK
<1> QED BY <1>1, <1>2, <1>3 DEF FileInv

(* What a step of the reader may change of the images: stream i's.         *)
LEMMA HalfRead ==
  ASSUME ReadPlace, main = "read", i \in Streams, UNCHANGED <<frame, i>>,
         NEW R, input' = [input EXCEPT ![i] = R], R = Half'
  PROVE  input' = [s \in Streams |-> IF s < i' THEN Whole(s)' ELSE IF s = i' THEN Half'
                                     ELSE NoImage]
<1>1. input = [s \in Streams |-> IF s < i THEN Whole(s) ELSE IF s = i THEN Half ELSE NoImage]
  BY DEF ReadPlace
<1>2. \A s : Whole(s)' = Whole(s)
  BY DEF Whole
<1>3. ~(i < i)
  BY DEF Streams
<1> HIDE DEF Half
<1>4. input' = [s \in Streams |-> IF s = i THEN R ELSE input[s]]
  BY <1>1
<1>5. \A s \in Streams : s = i => ~(s < i)
  BY <1>3
<1>6. \A s \in Streams : input[s] = IF s < i THEN Whole(s) ELSE IF s = i THEN Half ELSE NoImage
  BY <1>1
<1>7. \A s \in Streams : (IF s = i THEN R ELSE input[s])
        = (IF s < i' THEN Whole(s)' ELSE IF s = i' THEN Half' ELSE NoImage)
  BY <1>2, <1>5, <1>6
<1> QED BY <1>4, <1>7

LEMMA OpenInputStep ==
  ASSUME FileInv, OpenInput, UNCHANGED <<scaled, program>>
  PROVE  FileInv'
<1>1. /\ main = "read" /\ io = "closed" /\ i < NumStreams /\ file' \in Files
      /\ \/ io' = "type" /\ UNCHANGED <<main, frame, i, bytes_left, input, big_image, results>>
         \/ Exit
  BY DEF OpenInput
<1>2. CASE Exit
  BY <1>1, <1>2, ExitStep DEF Exit
<1>3. CASE io' = "type" /\ UNCHANGED <<main, frame, i, bytes_left, input, big_image, results>>
  <2>1. Half' = Half /\ \A s : Whole(s)' = Whole(s)
    BY <1>1, <1>3 DEF Half, Whole
  <2>2. ReadPlace'
    BY <1>1, <1>3, <2>1 DEF FileInv, ReadPlace
  <2> QED BY <1>1, <1>3, <2>2, ReadingStep DEF FileInv, PnmTypeOK, ImageSize
<1> QED BY <1>1, <1>2, <1>3

LEMMA ReadTypeStep ==
  ASSUME FileInv, ReadType, UNCHANGED <<scaled, program>>
  PROVE  FileInv'
<1>1. /\ main = "read" /\ io = "type" /\ UNCHANGED file
      /\ \/ io' = "width" /\ UNCHANGED <<main, frame, i, bytes_left, input, big_image, results>>
         \/ Exit
  BY DEF ReadType
<1>2. CASE Exit
  BY <1>1, <1>2, ExitStep DEF FileInv, PnmTypeOK
<1>3. CASE io' = "width" /\ UNCHANGED <<main, frame, i, bytes_left, input, big_image, results>>
  <2>1. Half' = Half /\ \A s : Whole(s)' = Whole(s)
    BY <1>1, <1>3 DEF Half, Whole
  <2>2. ReadPlace'
    BY <1>1, <1>3, <2>1 DEF FileInv, ReadPlace
  <2> QED BY <1>1, <1>3, <2>2, ReadingStep DEF FileInv, PnmTypeOK, ImageSize
<1> QED BY <1>1, <1>2, <1>3

LEMMA ReadWidthStep ==
  ASSUME FileInv, ReadSize("width", "height"), UNCHANGED <<scaled, program>>
  PROVE  FileInv'
<1>1. /\ main = "read" /\ io = "width" /\ UNCHANGED file
      /\ \/ /\ read_until(file["width"]) > 0
            /\ input' = [input EXCEPT ![i]["width"] = read_until(file["width"])]
            /\ io' = "height" /\ UNCHANGED <<main, frame, i, bytes_left, big_image, results>>
         \/ Exit
  BY DEF ReadSize
<1>2. CASE Exit
  BY <1>1, <1>2, ExitStep DEF FileInv, PnmTypeOK
<1>3. CASE /\ read_until(file["width"]) > 0
           /\ input' = [input EXCEPT ![i]["width"] = read_until(file["width"])]
           /\ io' = "height" /\ UNCHANGED <<main, frame, i, bytes_left, big_image, results>>
  <2>1. i \in Streams /\ read_until(file["width"]) = Width
    <3>1. i \in Streams
      BY <1>1, Constants DEF FileInv, ReadPlace, Streams
    <3>2. file["width"] = file.width
      OBVIOUS
    <3> QED BY <1>1, <1>3, <3>1, <3>2, FilesAre DEF FileInv, PnmTypeOK
  <2>2. input[i] = [width |-> 0, height |-> 0, data |-> Blank]
    BY <1>1, <2>1 DEF FileInv, ReadPlace, Half, Streams
  <2> DEFINE R == [width |-> Width, height |-> 0, data |-> Blank]
  <2>3. input' = [input EXCEPT ![i] = R]
    <3>1. input' = [input EXCEPT ![i]["width"] = Width]
      BY <1>3, <2>1
    <3>2. input' = [input EXCEPT ![i] = [input[i] EXCEPT !["width"] = Width]]
      BY <3>1
    <3>3. [input[i] EXCEPT !["width"] = Width] = R
      BY <2>2
    <3> QED BY <3>2, <3>3, Zenon
  <2>4. R = Half'
    BY <1>3 DEF Half
  <2> HIDE DEF R
  <2>5. ReadPlace'
    BY <1>1, <1>3, <2>1, <2>3, <2>4, HalfRead DEF FileInv, ReadPlace
  <2> QED BY <1>1, <1>3, <2>5, ReadingStep DEF FileInv, PnmTypeOK, ImageSize
<1> QED BY <1>1, <1>2, <1>3

LEMMA ReadHeightStep ==
  ASSUME FileInv, ReadSize("height", "max_color"), UNCHANGED <<scaled, program>>
  PROVE  FileInv'
<1>1. /\ main = "read" /\ io = "height" /\ UNCHANGED file
      /\ \/ /\ read_until(file["height"]) > 0
            /\ input' = [input EXCEPT ![i]["height"] = read_until(file["height"])]
            /\ io' = "max_color"
            /\ UNCHANGED <<main, frame, i, bytes_left, big_image, results>>
         \/ Exit
  BY DEF ReadSize
<1>2. CASE Exit
  BY <1>1, <1>2, ExitStep DEF FileInv, PnmTypeOK
<1>3. CASE /\ read_until(file["height"]) > 0
           /\ input' = [input EXCEPT ![i]["height"] = read_until(file["height"])]
           /\ io' = "max_color"
           /\ UNCHANGED <<main, frame, i, bytes_left, big_image, results>>
  <2>1. i \in Streams /\ read_until(file["height"]) = Height
    <3>1. i \in Streams
      BY <1>1, Constants DEF FileInv, ReadPlace, Streams
    <3>2. file["height"] = file.height
      OBVIOUS
    <3> QED BY <1>1, <1>3, <3>1, <3>2, FilesAre DEF FileInv, PnmTypeOK
  <2>2. input[i] = [width |-> Width, height |-> 0, data |-> Blank]
    BY <1>1, <2>1 DEF FileInv, ReadPlace, Half, Streams
  <2> DEFINE R == [width |-> Width, height |-> Height, data |-> Blank]
  <2>3. input' = [input EXCEPT ![i] = R]
    <3>1. input' = [input EXCEPT ![i]["height"] = Height]
      BY <1>3, <2>1
    <3>2. input' = [input EXCEPT ![i] = [input[i] EXCEPT !["height"] = Height]]
      BY <3>1
    <3>3. [input[i] EXCEPT !["height"] = Height] = R
      BY <2>2
    <3> QED BY <3>2, <3>3, Zenon
  <2>4. R = Half'
    BY <1>3 DEF Half
  <2> HIDE DEF R
  <2>5. ReadPlace'
    BY <1>1, <1>3, <2>1, <2>3, <2>4, HalfRead DEF FileInv, ReadPlace
  <2> QED BY <1>1, <1>3, <2>5, ReadingStep DEF FileInv, PnmTypeOK, ImageSize
<1> QED BY <1>1, <1>2, <1>3

LEMMA ReadMaxColorStep ==
  ASSUME FileInv, ReadMaxColor, UNCHANGED <<scaled, program>>
  PROVE  FileInv'
<1>1. /\ main = "read" /\ io = "max_color" /\ UNCHANGED file
      /\ \/ /\ input' = [input EXCEPT ![i] = alloc_image(@.width, @.height)]
            /\ bytes_left' = Size(input[i].width, input[i].height)
            /\ io' = "data" /\ UNCHANGED <<main, frame, i, big_image, results>>
         \/ Exit
  BY DEF ReadMaxColor
<1>2. CASE Exit
  BY <1>1, <1>2, ExitStep DEF FileInv, PnmTypeOK
<1>3. CASE /\ input' = [input EXCEPT ![i] = alloc_image(@.width, @.height)]
           /\ bytes_left' = Size(input[i].width, input[i].height)
           /\ io' = "data" /\ UNCHANGED <<main, frame, i, big_image, results>>
  <2>1. i \in Streams
    BY <1>1, Constants DEF FileInv, ReadPlace, Streams
  <2>2. input[i] = [width |-> Width, height |-> Height, data |-> Blank]
    BY <1>1, <2>1 DEF FileInv, ReadPlace, Half, Streams
  <2> DEFINE R == [width |-> Width, height |-> Height,
                   data |-> [b \in 0 .. ImageSize - 1 |-> Blank]]
  <2>3. input' = [input EXCEPT ![i] = R] /\ bytes_left' = ImageSize
    <3>1. alloc_image(input[i].width, input[i].height) = R
      BY <2>2 DEF alloc_image, ImageSize
    <3>2. input' = [input EXCEPT ![i] = alloc_image(input[i].width, input[i].height)]
      BY <1>3
    <3>3. bytes_left' = ImageSize
      BY <1>3, <2>2 DEF ImageSize
    <3> QED BY <3>1, <3>2, <3>3, Zenon
  <2>4. R = Half'
    <3>1. \A b \in 0 .. ImageSize - 1 : ~(b < ImageSize - bytes_left')
      BY <2>3, Constants
    <3>2. [b \in 0 .. ImageSize - 1 |->
             IF b < ImageSize - bytes_left' THEN <<i', frame', b>> ELSE Blank]
            = [b \in 0 .. ImageSize - 1 |-> Blank]
      BY <3>1
    <3> QED BY <1>3, <3>2 DEF Half
  <2> HIDE DEF R
  <2>5. bytes_left' <= ImageSize /\ ImageSize - bytes_left' <= file'.bytes
        /\ bytes_left' \in 0 .. HeaderSize + ImageSize
    BY <1>1, <2>3, Constants, FilesAre DEF FileInv, PnmTypeOK
  <2>6. ReadPlace'
    BY <1>1, <1>3, <2>1, <2>3, <2>4, <2>5, HalfRead DEF FileInv, ReadPlace
  <2> QED BY <1>1, <1>3, <2>5, <2>6, ReadingStep DEF FileInv, PnmTypeOK
<1> QED BY <1>1, <1>2, <1>3

LEMMA ReadDataStep ==
  ASSUME FileInv, ReadData, UNCHANGED <<scaled, program>>
  PROVE  FileInv'
<1> DEFINE at == ImageSize - bytes_left
           there == IF file.bytes < at + bytes_left THEN file.bytes - at ELSE bytes_left
<1>1. /\ main = "read" /\ io = "data" /\ bytes_left > 0 /\ UNCHANGED file
      /\ file \in Files /\ i \in Streams
  BY Constants DEF ReadData, FileInv, PnmTypeOK, ReadPlace, Streams
<1>2. input[i] = [width |-> Width, height |-> Height,
                  data |-> [b \in 0 .. ImageSize - 1 |->
                              IF b < at THEN <<i, frame, b>> ELSE Blank]]
  BY <1>1 DEF FileInv, ReadPlace, Half, Streams
<1>3. \/ there = 0 /\ Exit
      \/ \E n \in 1 .. there :
           /\ input' = [input EXCEPT ![i].data =
                          [b \in DOMAIN @ |-> IF b \in at .. at + n - 1
                                              THEN <<i, frame, b>> ELSE @[b]]]
           /\ bytes_left' = bytes_left - n
           /\ UNCHANGED <<main, frame, i, io, big_image, results>>
  BY <1>2 DEF ReadData, ImageSize
<1>4. /\ bytes_left \in 1 .. ImageSize /\ at \in 0 .. ImageSize - 1 /\ at <= file.bytes
      /\ file.bytes \in Nat /\ at + bytes_left = ImageSize /\ ImageSize \in Nat \ {0}
  <2>1. bytes_left \in 0 .. HeaderSize + Size(Width, Height) /\ bytes_left <= ImageSize
        /\ at <= file.bytes
    BY <1>1 DEF FileInv, PnmTypeOK, ReadPlace
  <2>2. bytes_left \in Nat
    BY <2>1, Constants DEF ImageSize
  <2>3. file.bytes \in Nat
    BY <1>1, FilesAre, Constants
  <2> QED BY <1>1, <2>1, <2>2, <2>3, Constants
<1>5. CASE there = 0 /\ Exit
  <2>1. file.bytes < ImageSize
    BY <1>4, <1>5
  <2> QED BY <1>1, <1>5, <2>1, ExitStep
<1>6. CASE \E n \in 1 .. there :
             /\ input' = [input EXCEPT ![i].data =
                            [b \in DOMAIN @ |-> IF b \in at .. at + n - 1
                                                THEN <<i, frame, b>> ELSE @[b]]]
             /\ bytes_left' = bytes_left - n
             /\ UNCHANGED <<main, frame, i, io, big_image, results>>
  <2>1. PICK n \in 1 .. there :
             /\ input' = [input EXCEPT ![i].data =
                            [b \in DOMAIN @ |-> IF b \in at .. at + n - 1
                                                THEN <<i, frame, b>> ELSE @[b]]]
             /\ bytes_left' = bytes_left - n
             /\ UNCHANGED <<main, frame, i, io, big_image, results>>
    BY <1>6
  <2>2. /\ n \in Nat \ {0} /\ n <= bytes_left /\ at + n <= file.bytes
        /\ bytes_left' \in 0 .. ImageSize /\ ImageSize - bytes_left' = at + n
        /\ ImageSize - bytes_left' <= file.bytes /\ bytes_left' <= ImageSize
    BY <1>4, <2>1
  <2> DEFINE d == input[i].data
             e == [b \in DOMAIN d |-> IF b \in at .. at + n - 1
                                      THEN <<i, frame, b>> ELSE d[b]]
             R == [width |-> Width, height |-> Height, data |-> e]
  <2>3. d = [b \in 0 .. ImageSize - 1 |-> IF b < at THEN <<i, frame, b>> ELSE Blank]
    BY <1>2
  <2>4. e = [b \in 0 .. ImageSize - 1 |->
               IF b < ImageSize - bytes_left' THEN <<i', frame', b>> ELSE Blank]
    <3>1. \A b \in 0 .. ImageSize - 1 : b < at + n <=> b \in at .. at + n - 1 \/ b < at
      BY <1>4, <2>2
    <3> HIDE DEF d, at
    <3> QED BY <2>1, <2>2, <2>3, <3>1
  <2>5. input' = [input EXCEPT ![i] = R]
    <3>1. input' = [input EXCEPT ![i].data = e]
      BY <2>1
    <3> HIDE DEF e
    <3>2. input' = [input EXCEPT ![i] = [input[i] EXCEPT !.data = e]]
      BY <3>1
    <3>3. [input[i] EXCEPT !.data = e] = R
      BY <1>2
    <3> QED BY <3>2, <3>3, Zenon
  <2> HIDE DEF e
  <2>6. R = Half'
    BY <1>1, <2>1, <2>4 DEF Half
  <2> HIDE DEF R, at
  <2>7. ReadPlace'
    <3>1. input' = [s \in Streams |-> IF s < i' THEN Whole(s)' ELSE IF s = i' THEN Half'
                                      ELSE NoImage]
      BY <1>1, <2>1, <2>5, <2>6, HalfRead DEF FileInv
    <3>2. bytes_left' <= ImageSize /\ ImageSize - bytes_left' <= file'.bytes
      <4>1. bytes_left' <= ImageSize /\ ImageSize - bytes_left' <= file.bytes
        BY <2>2
      <4>2. file' = file
        BY <1>1
      <4> QED BY <4>1, <4>2
    <3> QED BY <1>1, <2>1, <3>1, <3>2 DEF FileInv, ReadPlace
  <2>8. bytes_left' \in 0 .. HeaderSize + ImageSize
    BY <2>2, Constants
  <2> QED BY <1>1, <2>1, <2>7, <2>8, ReadingStep
<1> QED BY <1>3, <1>5, <1>6

LEMMA CloseInputStep ==
  ASSUME FileInv, CloseInput, UNCHANGED <<scaled, program>>
  PROVE  FileInv'
<1>1. /\ main = "read" /\ io = "data" /\ bytes_left = 0 /\ io' = "closed" /\ file' = NoFile
      /\ i' = i + 1 /\ UNCHANGED <<main, frame, bytes_left, input, big_image, results>>
      /\ i \in Nat /\ i < NumStreams
  BY Constants DEF CloseInput, FileInv, ReadPlace
<1>2. \A s : Whole(s)' = Whole(s)
  BY <1>1 DEF Whole
<1>3. Half = Whole(i)
  <2>1. \A b \in 0 .. ImageSize - 1 : b < ImageSize - bytes_left
    BY <1>1, Constants
  <2>2. [b \in 0 .. ImageSize - 1 |->
           IF b < ImageSize - bytes_left THEN <<i, frame, b>> ELSE Blank]
          = [b \in 0 .. ImageSize - 1 |-> <<i, frame, b>>]
    BY <2>1
  <2> QED BY <1>1, <2>2 DEF Half, Whole
<1>4. Half' = NoImage
  BY <1>1 DEF Half, NoImage
<1>5. ReadPlace'
  <2>1. \A s \in Streams : s < i' <=> s < i \/ s = i
    BY <1>1 DEF Streams
  <2>2. \A s \in Streams : s = i' => ~(s < i) /\ s # i
    BY <1>1 DEF Streams
  <2>3. input' = [s \in Streams |-> IF s < i' THEN Whole(s)' ELSE IF s = i' THEN Half'
                                    ELSE NoImage]
    BY <1>1, <1>2, <1>3, <1>4, <2>1, <2>2 DEF FileInv, ReadPlace
  <2> QED BY <1>1, <2>3, Constants DEF ReadPlace
<1> QED BY <1>1, <1>5, NoFileIs, ReadingStep DEF FileInv, PnmTypeOK, ImageSize

LEMMA CreateResultStep ==
  ASSUME FileInv, CreateResult, UNCHANGED <<scaled, program>>
  PROVE  FileInv'
<1>1. /\ main = "write" /\ io = "closed" /\ UNCHANGED file
      /\ \/ /\ results' = [results EXCEPT ![frame] = <<>>]
            /\ io' = "header" /\ bytes_left' = HeaderSize
            /\ UNCHANGED <<main, frame, i, input, big_image>>
         \/ Exit
  BY DEF CreateResult
<1>2. CASE Exit
  BY <1>1, <1>2, ExitStep DEF FileInv, PnmTypeOK
<1>3. CASE /\ results' = [results EXCEPT ![frame] = <<>>]
           /\ io' = "header" /\ bytes_left' = HeaderSize
           /\ UNCHANGED <<main, frame, i, input, big_image>>
  <2>1. ReadPlace' /\ ExitPlace' /\ ScaledPlace'
    BY <1>1, <1>3 DEF ReadPlace, ExitPlace, ScaledPlace
  <2>2. ImagesPlace'
    BY <1>1, <1>3 DEF FileInv, ImagesPlace, Whole
  <2>3. ResultsPlace'
    <3>1. PICK S : results \in [1 .. NumFrames -> Seq(S)]
      BY DEF FileInv, ResultsPlace
    <3>2. <<>> \in Seq(S) /\ Len(<<>>) = 0
      BY EmptySeq
    <3>3. /\ results' \in [1 .. NumFrames -> Seq(S)]
          /\ \A f \in 1 .. NumFrames :
               results'[f] = IF f = frame THEN <<>> ELSE results[f]
      BY <1>3, <3>1, <3>2
    <3>4. ASSUME NEW f \in 1 .. NumFrames PROVE Len(results'[f]) = Written(f)'
      <4>1. CASE f = frame
        <5>1. Written(f)' = 0
          BY <1>1, <1>3, <4>1, Constants DEF Written
        <5> QED BY <3>2, <3>3, <4>1, <5>1
      <4>2. CASE f # frame
        <5>1. Written(f)' = Written(f)
          BY <1>1, <1>3, <4>2 DEF Written
        <5> QED BY <1>1, <3>3, <4>2, <5>1 DEF FileInv, ResultsPlace
      <4> QED BY <4>1, <4>2
    <3> QED BY <1>1, <1>3, <3>3, <3>4, Constants DEF FileInv, ResultsPlace
  <2>4. bytes_left' \in 0 .. HeaderSize + ImageSize
    BY <1>3, Constants
  <2> QED BY <1>1, <1>3, <2>1, <2>2, <2>3, <2>4, ImagesTyped DEF FileInv, PnmTypeOK
<1> QED BY <1>1, <1>2, <1>3

(* A call of write puts as many bytes in the file as it says.              *)
LEMMA WritesSome ==
  ASSUME NEW B, NEW S, NEW m \in Nat, NEW bytes \in [1 .. m -> B], NEW r \in Seq(S),
         NEW at \in 0 .. m, NEW k \in 1 .. m - at
  PROVE  /\ Len(bytes) = m
         /\ r \o SubSeq(bytes, at + 1, at + k) \in Seq(S \cup B)
         /\ Len(r \o SubSeq(bytes, at + 1, at + k)) = Len(r) + k
<1>1. bytes \in Seq(B)
  BY SeqDef
<1>2. Len(bytes) = m
  BY LenProperties, <1>1
<1> DEFINE part == SubSeq(bytes, at + 1, at + k)
<1>3. part \in Seq(B) /\ Len(part) = k
  <2>1. at + 1 \in Int /\ at + k \in Int /\ at + 1 <= at + k
        /\ (at + k) - (at + 1) + 1 = k
    OBVIOUS
  <2>2. \A l \in at + 1 .. at + k : bytes[l] \in B
    OBVIOUS
  <2> QED BY <2>1, <2>2, SubSeqProperties
<1>4. r \in Seq(S \cup B) /\ part \in Seq(S \cup B)
  BY <1>3, SeqMonotonic
<1> HIDE DEF part
<1>5. r \o part \in Seq(S \cup B) /\ Len(r \o part) = Len(r) + Len(part)
  BY <1>4, ConcatProperties
<1> QED BY <1>2, <1>3, <1>5 DEF part

LEMMA WriteStep ==
  ASSUME FileInv, UNCHANGED <<scaled, program>>, main = "write", io \in {"header", "pixels"},
         NEW m \in Nat, m = IF io = "header" THEN HeaderSize ELSE ImageSize,
         NEW B, NEW bytes \in [1 .. m -> B], Write(bytes)
  PROVE  FileInv'
<1> DEFINE at == Len(bytes) - bytes_left
<1>1. /\ bytes_left > 0 /\ UNCHANGED file
      /\ \/ \E n \in 1 .. bytes_left :
              /\ results' = [results EXCEPT ![frame] = @ \o SubSeq(bytes, at + 1, at + n)]
              /\ bytes_left' = bytes_left - n
              /\ UNCHANGED <<main, frame, i, io, input, big_image>>
         \/ Exit
  BY DEF Write
<1>2. bytes_left \in 1 .. m /\ bytes_left \in 0 .. HeaderSize + ImageSize
  BY <1>1, Constants DEF FileInv, PnmTypeOK, ResultsPlace, ImageSize
<1>3. CASE Exit
  BY <1>1, <1>3, ExitStep DEF FileInv, PnmTypeOK
<1>4. ASSUME NEW n \in 1 .. bytes_left,
             results' = [results EXCEPT ![frame] = @ \o SubSeq(bytes, at + 1, at + n)],
             bytes_left' = bytes_left - n,
             UNCHANGED <<main, frame, i, io, input, big_image>>
      PROVE  FileInv'
  <2>1. ReadPlace' /\ ExitPlace' /\ ScaledPlace'
    BY <1>4 DEF ReadPlace, ExitPlace, ScaledPlace
  <2>2. ImagesPlace'
    BY <1>4 DEF FileInv, ImagesPlace, Whole
  <2>3. PICK S : results \in [1 .. NumFrames -> Seq(S)]
    BY DEF FileInv, ResultsPlace
  <2>4. frame \in 1 .. NumFrames
    BY Constants DEF FileInv, PnmTypeOK, ResultsPlace
  <2> DEFINE r == results[frame]
             r2 == r \o SubSeq(bytes, at + 1, at + n)
  <2>5. r2 \in Seq(S \cup B) /\ Len(r2) = Len(r) + n /\ Len(r) \in Nat
    <3>1. Len(bytes) = m
      BY <1>2, WritesSome, SeqDef, LenProperties
    <3>2. at \in 0 .. m /\ n \in 1 .. m - at
      BY <1>2, <3>1
    <3>3. r \in Seq(S) /\ Len(r) \in Nat
      BY <2>3, <2>4, LenProperties
    <3> HIDE DEF r, at
    <3> QED BY <3>2, <3>3, WritesSome
  <2>6. /\ results' \in [1 .. NumFrames -> Seq(S \cup B)]
        /\ \A f \in 1 .. NumFrames : results'[f] = IF f = frame THEN r2 ELSE results[f]
    <3>1. \A f \in 1 .. NumFrames : results[f] \in Seq(S \cup B)
      BY <2>3, SeqMonotonic
    <3>2. results' = [results EXCEPT ![frame] = r2]
      BY <1>4
    <3> HIDE DEF r2
    <3> QED BY <2>3, <2>4, <2>5, <3>1, <3>2
  <2>7. ASSUME NEW f \in 1 .. NumFrames PROVE Len(results'[f]) = Written(f)'
    <3>1. CASE f = frame
      <4>1. Written(f)' = Written(f) + n
        BY <1>2, <1>4, <2>4, <3>1, Constants DEF Written, FileSize
      <4>2. Len(results[f]) = Written(f)
        BY DEF FileInv, ResultsPlace
      <4> HIDE DEF r2
      <4> QED BY <2>5, <2>6, <3>1, <4>1, <4>2
    <3>2. CASE f # frame
      <4>1. Written(f)' = Written(f)
        BY <1>4, <3>2 DEF Written
      <4> QED BY <2>6, <3>2, <4>1 DEF FileInv, ResultsPlace
    <3> QED BY <3>1, <3>2
  <2>8. bytes_left' <= m /\ bytes_left' \in 0 .. HeaderSize + ImageSize
    BY <1>2, <1>4, Constants
  <2>9. ResultsPlace'
    BY <1>4, <2>6, <2>7, <2>8 DEF FileInv, ResultsPlace
  <2>10. DOMAIN results' = 1 .. NumFrames
    BY <2>6
  <2> QED BY <1>1, <1>4, <2>1, <2>2, <2>8, <2>9, <2>10, ImagesTyped DEF FileInv, PnmTypeOK
<1> QED BY <1>1, <1>3, <1>4

LEMMA WriteHeaderStep ==
  ASSUME FileInv, WriteHeader, UNCHANGED <<scaled, program>>
  PROVE  FileInv'
<1> DEFINE bytes == Header(big_image)
           B == {bytes[n] : n \in 1 .. HeaderSize}
<1>1. bytes \in [1 .. HeaderSize -> B]
  BY DEF Header
<1>2. main = "write" /\ io = "header" /\ Write(bytes)
  BY DEF WriteHeader
<1> HIDE DEF bytes, B
<1> QED BY <1>1, <1>2, Constants, WriteStep

LEMMA WritePixelsStep ==
  ASSUME FileInv, WritePixels, UNCHANGED <<scaled, program>>
  PROVE  FileInv'
<1> DEFINE bytes == Pixels(big_image)
           B == {bytes[n] : n \in 1 .. ImageSize}
<1>1. main = "write" /\ io = "pixels" /\ Write(bytes)
  BY DEF WritePixels
<1>2. big_image.width = Width /\ big_image.height = Height
  BY <1>1 DEF FileInv, ImagesPlace
<1>3. bytes \in [1 .. ImageSize -> B]
  BY <1>2 DEF Pixels, ImageSize
<1> HIDE DEF bytes, B
<1> QED BY <1>1, <1>3, Constants, WriteStep

LEMMA HeaderWrittenStep ==
  ASSUME FileInv, HeaderWritten, UNCHANGED <<scaled, program>>
  PROVE  FileInv'
<1>1. /\ main = "write" /\ io = "header" /\ bytes_left = 0 /\ io' = "pixels"
      /\ bytes_left' = Size(big_image.width, big_image.height)
      /\ UNCHANGED <<main, frame, i, file, input, big_image, results>>
  BY DEF HeaderWritten
<1>2. bytes_left' = ImageSize
  BY <1>1 DEF FileInv, ImagesPlace, ImageSize
<1>3. ReadPlace' /\ ExitPlace' /\ ScaledPlace'
  BY <1>1 DEF ReadPlace, ExitPlace, ScaledPlace
<1>4. ImagesPlace'
  BY <1>1 DEF FileInv, ImagesPlace, Whole
<1>5. ResultsPlace'
  <2>1. \A f \in 1 .. NumFrames : Written(f)' = Written(f)
    BY <1>1, <1>2, Constants DEF Written, FileSize
  <2> QED BY <1>1, <1>2, <2>1, Constants DEF FileInv, ResultsPlace
<1>6. bytes_left' \in 0 .. HeaderSize + ImageSize
  BY <1>2, Constants
<1> QED BY <1>1, <1>3, <1>4, <1>5, <1>6, ImagesTyped DEF FileInv, PnmTypeOK

LEMMA EndFrameStep ==
  ASSUME FileInv, UNCHANGED program, NEW last \in {"join", "done"}, EndFrame(last)
  PROVE  FileInv'
<1>1. /\ main = "write" /\ io = "pixels" /\ bytes_left = 0 /\ io' = "closed"
      /\ input' = [s \in Streams |-> NoImage] /\ big_image' = NoImage
      /\ frame' = frame + 1 /\ i' = 0
      /\ main' = IF frame < NumFrames THEN "read" ELSE last
      /\ UNCHANGED <<file, bytes_left, results>>
      /\ frame \in 1 .. NumFrames
  BY Constants DEF EndFrame, FileInv, PnmTypeOK, ResultsPlace
<1>2. ReadPlace'
  <2>1. Half' = NoImage
    BY <1>1 DEF Half, NoImage
  <2>2. \A s \in Streams : ~(s < i')
    BY <1>1 DEF Streams
  <2>3. [s \in Streams |-> IF s < i' THEN Whole(s)' ELSE IF s = i' THEN Half' ELSE NoImage]
          = [s \in Streams |-> NoImage]
    BY <2>1, <2>2
  <2> QED BY <1>1, <2>3, Constants DEF ReadPlace
<1>3. ImagesPlace' /\ ExitPlace' /\ ScaledPlace'
  BY <1>1 DEF ImagesPlace, ExitPlace, ScaledPlace
<1>4. ResultsPlace'
  <2>1. ASSUME NEW f \in 1 .. NumFrames PROVE Len(results'[f]) = Written(f)'
    <3>1. Written(f)' = Written(f)
      BY <1>1, Constants DEF Written, FileSize, ImageSize
    <3> QED BY <1>1, <3>1 DEF FileInv, ResultsPlace
  <2> QED BY <1>1, <2>1, Constants DEF FileInv, ResultsPlace
<1>5. frame' \in 1 .. NumFrames + 1
  BY <1>1, Constants
<1> QED BY <1>1, <1>2, <1>3, <1>4, <1>5, ImagesTyped DEF FileInv, PnmTypeOK, ImageSize

LEMMA FileStepKeeps ==
  ASSUME FileInv, FileStep, UNCHANGED <<scaled, program>>
  PROVE  FileInv'
BY OpenInputStep, ReadTypeStep, ReadWidthStep, ReadHeightStep, ReadMaxColorStep,
   ReadDataStep, CloseInputStep, CreateResultStep, WriteHeaderStep, HeaderWrittenStep,
   WritePixelsStep
DEF FileStep

------------------------------------------------------------------------------
(* The other steps of both programs, as far as images and files go.        *)
LEMMA AllRead ==
  ASSUME FileInv, main = "read", io = "closed", i = NumStreams
  PROVE  input = [s \in Streams |-> Whole(s)]
<1>1. \A s \in Streams : s < i
  BY Constants DEF Streams
<1>2. input = [s \in Streams |-> IF s < i THEN Whole(s) ELSE IF s = i THEN Half ELSE NoImage]
  BY DEF FileInv, ReadPlace
<1> QED BY <1>1, <1>2

(* The images stay as they are, and no file is open.                       *)
LEMMA WorkStep ==
  ASSUME FileInv, main \in {"read", "begin", "wait", "scale"}, io = "closed",
         input = [s \in Streams |-> Whole(s)],
         main' \in {"begin", "wait", "scale", "write"},
         UNCHANGED <<frame, io, file, bytes_left, input, results>>,
         IF main' = "scale" THEN big_image' = NoImage
         ELSE \E data : /\ big_image' = [width |-> Width, height |-> Height, data |-> data]
                        /\ DOMAIN data = 0 .. ImageSize - 1,
         ScaledPlace'
  PROVE  FileInv'
<1>1. ReadPlace' /\ ExitPlace'
  BY DEF ReadPlace, ExitPlace
<1>2. ImagesPlace'
  BY DEF ImagesPlace, Whole
<1>3. ResultsPlace'
  <2>1. \A f \in 1 .. NumFrames : Written(f)' = Written(f)
    BY DEF Written
  <2> QED BY <2>1 DEF FileInv, ResultsPlace
<1> QED BY <1>1, <1>2, <1>3, ImagesTyped DEF FileInv, PnmTypeOK, ImageSize

(* What the steps of the files do to the rest of the state.                *)
LEMMA FileStepEffect ==
  ASSUME FileInv, FileStep
  PROVE  /\ main \in {"read", "write"} /\ main' \in {main, "exited"} /\ UNCHANGED frame
         /\ i' = i \/ (i' = i + 1 /\ main = "read" /\ i \in 0 .. NumStreams - 1)
<1>1. ASSUME Exit PROVE main' = "exited" /\ UNCHANGED <<frame, i>>
  BY <1>1 DEF Exit
<1>2. CASE OpenInput \/ ReadType \/ ReadMaxColor \/ ReadData
  BY <1>1, <1>2 DEF OpenInput, ReadType, ReadMaxColor, ReadData
<1>3. CASE ReadSize("width", "height") \/ ReadSize("height", "max_color")
  BY <1>1, <1>3 DEF ReadSize
<1>4. CASE CloseInput
  BY <1>4, Constants DEF CloseInput, FileInv, ReadPlace
<1>5. CASE CreateResult \/ HeaderWritten
  BY <1>1, <1>5 DEF CreateResult, HeaderWritten
<1>6. CASE WriteHeader
  <2>1. PICK bytes : main = "write" /\ Write(bytes)
    BY <1>6 DEF WriteHeader
  <2> QED BY <1>1, <2>1 DEF Write
<1>7. CASE WritePixels
  <2>1. PICK bytes : main = "write" /\ Write(bytes)
    BY <1>7 DEF WritePixels
  <2> QED BY <1>1, <2>1 DEF Write
<1> QED BY <1>2, <1>3, <1>4, <1>5, <1>6, <1>7 DEF FileStep

(* The types of the SPUs' part of the state.                               *)
SPUTypes ==
  /\ spu_threads \in 0 .. NumStreams
  /\ in_mbox \in [SPUs -> 0 .. InMboxDepth]
  /\ out_intr \in [SPUs -> 0 .. 1]
  /\ spu \in [SPUs -> {"wait", "get", "store", "send", "ended"}]
  /\ spu_frame \in [SPUs -> 0 .. NumFrames]
  /\ DOMAIN picture = SPUs

LoopPlace == i \in 0 .. NumStreams /\ (main \in {"begin", "wait"} => i <= spu_threads)

LEMMA TypesAre == ParalelTypeOK <=> PnmTypeOK /\ SPUTypes /\ LoopPlace
BY DEF ParalelTypeOK, SPUTypes, LoopPlace

LEMMA SPUsAre ==
  ASSUME SPUTypes
  PROVE  spu_threads \in Nat /\ SPUs = 0 .. spu_threads - 1
BY Constants DEF SPUTypes, SPUs

LEMMA ParalelInvInit == BothInit => ParalelInv
<1> SUFFICES ASSUME BothInit PROVE ParalelInv
  OBVIOUS
<1>1. PICK usable \in UsableSPEs :
        spu_threads = IF usable > NumStreams THEN NumStreams ELSE usable
  BY DEF BothInit, ParalelInit
<1>2. /\ PnmInit /\ program \in {"serial", "paralel"}
      /\ in_mbox = [k \in SPUs |-> 0] /\ out_intr = [k \in SPUs |-> 0]
      /\ spu = [k \in SPUs |-> "wait"] /\ spu_frame = [k \in SPUs |-> 0]
      /\ picture = [k \in SPUs |-> NoImage] /\ scaled = [s \in Streams |-> NoImage]
  BY DEF BothInit, ParalelInit, SerialInit
<1>3. FileInv
  BY <1>2, FileInvInit
<1>4. spu_threads \in 0 .. NumStreams
  BY <1>1, ParalelAssumption, Constants
<1>5. SPUTypes /\ LoopPlace
  BY <1>2, <1>4, ParalelAssumption, Constants DEF SPUTypes, LoopPlace, PnmInit
<1>6. ParalelPlace
  BY <1>2, Constants DEF ParalelPlace, PnmInit, SPUPlace, Idle
<1> QED BY <1>3, <1>5, <1>6, TypesAre DEF ParalelInv, FileInv

------------------------------------------------------------------------------
(* The steps of the serial program.                                        *)
LEMMA InputReadStep ==
  ASSUME ParalelInv, InputRead, UNCHANGED program, program = "serial"
  PROVE  FileInv'
<1>1. /\ main = "read" /\ io = "closed" /\ i = NumStreams /\ main' = "scale" /\ i' = 0
      /\ UNCHANGED <<frame, io, file, bytes_left, input, big_image, results, scaled>>
  BY DEF InputRead, ioVars
<1>2. big_image' = NoImage
  BY <1>1 DEF ParalelInv, FileInv, ImagesPlace
<1>3. ScaledPlace'
  BY <1>1, Constants DEF ParalelInv, ParalelPlace, ScaledPlace, Streams
<1> QED BY <1>1, <1>2, <1>3, AllRead, WorkStep DEF ParalelInv

LEMMA ScaleImageStep ==
  ASSUME ParalelInv, ScaleImage, UNCHANGED program, program = "serial"
  PROVE  FileInv' /\ DOMAIN scaled' = Streams /\ i' \in 0 .. NumStreams
<1>1. /\ main = "scale" /\ i \in Streams /\ UNCHANGED file /\ io = "closed"
      /\ input = [s \in Streams |-> Whole(s)] /\ DOMAIN scaled = Streams
      /\ \A s \in Streams : s < i => /\ scaled[s].width = Width \div SCALE_FACTOR
                                     /\ scaled[s].height = Height \div SCALE_FACTOR
  BY Constants DEF ParalelInv, FileInv, ImagesPlace, ScaledPlace, ScaleImage, Streams
<1>2. CASE Exit /\ UNCHANGED scaled
  BY <1>1, <1>2, ExitStep, Constants DEF ParalelInv, FileInv, PnmTypeOK, Exit, Streams
<1>3. CASE /\ scaled' = [scaled EXCEPT ![i] = Thumbnail(input[i])]
           /\ i' = i + 1
           /\ UNCHANGED <<main, frame, io, bytes_left, input, big_image, results>>
  <2>1. /\ Thumbnail(input[i]).width = Width \div SCALE_FACTOR
        /\ Thumbnail(input[i]).height = Height \div SCALE_FACTOR
    BY <1>1 DEF Thumbnail, Whole
  <2> DEFINE t == Thumbnail(input[i])
  <2> HIDE DEF t
  <2>2. /\ DOMAIN scaled' = Streams /\ scaled'[i] = t
        /\ \A s \in Streams \ {i} : scaled'[s] = scaled[s]
    BY <1>1, <1>3 DEF t
  <2>3. \A s \in Streams : s < i' => s = i \/ s < i
    BY <1>1, <1>3, Constants DEF Streams
  <2>4. i' \in 0 .. NumStreams
    BY <1>1, <1>3, Constants DEF Streams
  <2>5. ScaledPlace'
    BY <1>1, <1>3, <2>1, <2>2, <2>3, <2>4 DEF ScaledPlace, t
  <2>6. big_image' = NoImage
    BY <1>1, <1>3 DEF ParalelInv, FileInv, ImagesPlace
  <2> QED BY <1>1, <1>3, <2>2, <2>4, <2>5, <2>6, WorkStep DEF ParalelInv
<1> QED BY <1>2, <1>3 DEF ScaleImage

LEMMA AllScaledStep ==
  ASSUME ParalelInv, AllScaled, UNCHANGED program, program = "serial"
  PROVE  FileInv' /\ UNCHANGED <<scaled, i>>
<1>1. /\ main = "scale" /\ i = NumStreams /\ UNCHANGED <<file, scaled>> /\ io = "closed"
      /\ input = [s \in Streams |-> Whole(s)] /\ 0 \in Streams
      /\ scaled[0].width = Width \div SCALE_FACTOR
      /\ scaled[0].height = Height \div SCALE_FACTOR
  BY Constants DEF ParalelInv, FileInv, ImagesPlace, ScaledPlace, AllScaled, Streams
<1>2. CASE Exit
  BY <1>1, <1>2, ExitStep DEF ParalelInv, FileInv, PnmTypeOK, Exit
<1>3. CASE /\ big_image' = [width |-> scaled[0].width * NUM_IMAGES_WIDTH,
                            height |-> scaled[0].height * NUM_IMAGES_HEIGHT,
                            data |-> create_big_image]
           /\ main' = "write"
           /\ UNCHANGED <<frame, i, io, bytes_left, input, results>>
  <2> DEFINE w == Width \div SCALE_FACTOR
             h == Height \div SCALE_FACTOR
  <2>1. w * NUM_IMAGES_WIDTH = Width /\ h * NUM_IMAGES_HEIGHT = Height
    BY Constants
  <2>2. NumStreams * h * (w * NUM_CHANNELS) = ImageSize
    <3>1. w \in Nat /\ h \in Nat
      BY Constants
    <3> HIDE DEF w, h
    <3>2. \A a, b, c, d, e \in Nat : (c * d) * b * (a * e) = (a * c) * (b * d) * e
      OBVIOUS
    <3> QED BY <2>1, <3>1, <3>2, Constants DEF NumStreams, ImageSize, Size
  <2>3. DOMAIN create_big_image = 0 .. ImageSize - 1
    BY <1>1, <2>2 DEF create_big_image
  <2> DEFINE d == create_big_image
  <2> HIDE DEF d, w, h
  <2>4. big_image' = [width |-> Width, height |-> Height, data |-> d]
    BY <1>1, <1>3, <2>1 DEF d, w, h
  <2>5. ScaledPlace'
    BY <1>3 DEF ScaledPlace
  <2> QED BY <1>1, <1>3, <2>3, <2>4, <2>5, WorkStep DEF ParalelInv, d
<1> QED BY <1>1, <1>2, <1>3 DEF AllScaled

LEMMA StutterKeeps ==
  ASSUME ParalelInv, UNCHANGED bothVars
  PROVE  ParalelInv'
<1>1. UNCHANGED <<main, frame, i, io, file, bytes_left, input, big_image, results, scaled,
                  program, spu_threads, in_mbox, out_intr, spu, spu_frame, picture>>
  BY DEF bothVars, paralelVars, pnmVars, spuVars
<1>2. PnmTypeOK' /\ ExitPlace' /\ ScaledPlace'
  BY <1>1 DEF ParalelInv, FileInv, PnmTypeOK, ExitPlace, ScaledPlace
<1>3. ReadPlace' /\ ImagesPlace'
  BY <1>1 DEF ParalelInv, FileInv, ReadPlace, Half, Whole, ImagesPlace
<1>4. ResultsPlace'
  BY <1>1 DEF ParalelInv, FileInv, ResultsPlace, Written
<1>5. ParalelTypeOK'
  BY <1>1, <1>2 DEF ParalelInv, ParalelTypeOK, SPUs
<1>6. ParalelPlace'
  BY <1>1 DEF ParalelInv, ParalelPlace, SPUs, SPUPlace, Idle, AtWork, HasSent, Counted
<1> QED BY <1>1, <1>2, <1>3, <1>4, <1>5, <1>6 DEF ParalelInv, FileInv

LEMMA SerialKeeps ==
  ASSUME ParalelInv, RunSerial, SerialNext
  PROVE  ParalelInv'
<1>1. program = "serial" /\ UNCHANGED program
      /\ UNCHANGED <<spu_threads, in_mbox, out_intr, spu, spu_frame, picture>>
  BY DEF RunSerial, spuVars
<1>2. /\ FileInv /\ SPUTypes /\ LoopPlace /\ main \notin {"begin", "wait", "join"}
      /\ DOMAIN scaled = Streams /\ \A k \in SPUs : spu[k] = "wait"
  BY <1>1, TypesAre DEF ParalelInv, ParalelPlace
<1>3. ASSUME FileInv', i' \in 0 .. NumStreams, DOMAIN scaled' = Streams,
             main' \notin {"begin", "wait", "join"}
      PROVE  ParalelInv'
  <2>1. SPUs' = SPUs /\ SPUTypes'
    BY <1>1, <1>2 DEF SPUs, SPUTypes
  <2>2. LoopPlace' /\ PnmTypeOK'
    BY <1>3 DEF LoopPlace, FileInv
  <2>3. ParalelPlace'
    BY <1>1, <1>2, <1>3, <2>1 DEF ParalelPlace
  <2>4. ParalelTypeOK'
    BY <2>1, <2>2 DEF ParalelTypeOK, SPUTypes, LoopPlace
  <2> QED BY <1>3, <2>3, <2>4 DEF ParalelInv
<1>4. CASE FileStep /\ UNCHANGED scaled
  <2>1. FileInv'
    BY <1>1, <1>2, <1>4, FileStepKeeps
  <2>2. main' \in {main, "exited"} /\ i' \in 0 .. NumStreams
    BY <1>2, <1>4, FileStepEffect, Constants DEF LoopPlace
  <2> QED BY <1>2, <1>3, <1>4, <2>1, <2>2
<1>5. CASE InputRead
  BY <1>1, <1>2, <1>3, <1>5, InputReadStep, Constants DEF InputRead
<1>6. CASE ScaleImage
  <2>1. main' \in {"scale", "exited"}
    BY <1>6 DEF ScaleImage, Exit
  <2> QED BY <1>1, <1>3, <1>6, <2>1, ScaleImageStep
<1>7. CASE AllScaled
  <2>1. main' \in {"write", "exited"}
    BY <1>7 DEF AllScaled, Exit
  <2> QED BY <1>1, <1>2, <1>3, <1>7, <2>1, AllScaledStep DEF LoopPlace
<1>8. CASE EndFrame("done") /\ scaled' = [s \in Streams |-> NoImage]
  <2>1. FileInv'
    BY <1>1, <1>2, <1>8, EndFrameStep
  <2>2. main' \in {"read", "done"} /\ i' = 0
    BY <1>8 DEF EndFrame
  <2> QED BY <1>3, <1>8, <2>1, <2>2, Constants
<1>9. CASE SerialEnded
  BY <1>1, <1>9, StutterKeeps DEF SerialEnded, serialVars, pnmVars, bothVars, paralelVars,
     spuVars
<1> QED BY <1>4, <1>5, <1>6, <1>7, <1>8, <1>9 DEF SerialNext, SerialStep

------------------------------------------------------------------------------
(* The steps of the PPU and the SPUs.                                      *)
LEMMA ParalelIs ==
  ASSUME ParalelInv, program = "paralel"
  PROVE  /\ FileInv /\ SPUTypes /\ LoopPlace /\ DOMAIN scaled = Streams
         /\ spu_threads \in Nat /\ SPUs = 0 .. spu_threads - 1
         /\ frame \in 1 .. NumFrames + 1 /\ NumFrames \in Nat /\ NumStreams \in Nat
         /\ main \in {"read", "begin", "wait", "write"} => frame \in 1 .. NumFrames
         /\ main = "join" => frame = NumFrames + 1
         /\ main \in {"read", "begin", "wait", "write", "join", "exited"}
         /\ \A k \in SPUs : SPUPlace(k)
         /\ main = "wait" => i = Cardinality(Counted)
<1>1. FileInv /\ SPUTypes /\ LoopPlace
  BY TypesAre DEF ParalelInv
<1>2. frame \in 1 .. NumFrames + 1
  BY <1>1 DEF FileInv, PnmTypeOK
<1>3. main \in {"read", "begin", "wait", "write"} => frame \in 1 .. NumFrames
  BY <1>1, <1>2, Constants DEF FileInv, ResultsPlace
<1>4. main = "join" => frame = NumFrames + 1
  BY <1>1 DEF FileInv, ResultsPlace
<1>5. main \in {"read", "begin", "wait", "write", "join", "exited"}
  BY <1>1 DEF ParalelInv, ParalelPlace, FileInv, ScaledPlace
<1>6. /\ DOMAIN scaled = Streams
      /\ \A k \in SPUs : SPUPlace(k)
      /\ main = "wait" => i = Cardinality(Counted)
  BY DEF ParalelInv, ParalelPlace
<1>7. spu_threads \in Nat /\ SPUs = 0 .. spu_threads - 1
  BY <1>1, SPUsAre
<1> QED BY <1>1, <1>2, <1>3, <1>4, <1>5, <1>6, <1>7, Constants

LEMMA ParalelIsNext ==
  ASSUME ParalelInv, RunParalel,
         FileInv', SPUTypes', LoopPlace', main' \notin {"done", "scale"},
         \A k \in SPUs' : SPUPlace(k)',
         main' = "wait" => i' = Cardinality(Counted')
  PROVE  ParalelInv'
<1>1. ParalelPlace'
  BY DEF ParalelPlace, RunParalel, ParalelInv
<1>2. ParalelTypeOK'
  BY DEF ParalelTypeOK, SPUTypes, LoopPlace, FileInv
<1> QED BY <1>1, <1>2 DEF ParalelInv

(* A step that leaves the SPUs where they are.                             *)
LEMMA SPUsUnchanged ==
  ASSUME SPUTypes, UNCHANGED spuVars
  PROVE  SPUTypes' /\ SPUs' = SPUs
BY DEF SPUTypes, SPUs, spuVars

LEMMA PPUFileStep ==
  ASSUME ParalelInv, RunParalel, FileStep, UNCHANGED spuVars
  PROVE  ParalelInv'
<1>1. program = "paralel" /\ UNCHANGED <<scaled, program>>
  BY DEF RunParalel
<1>2. FileInv'
  BY <1>1, ParalelIs, FileStepKeeps
<1>3. /\ main \in {"read", "write"} /\ main' \in {main, "exited"} /\ UNCHANGED frame
      /\ i' = i \/ (i' = i + 1 /\ main = "read" /\ i \in 0 .. NumStreams - 1)
  BY <1>1, ParalelIs, FileStepEffect
<1>4. LoopPlace'
  BY <1>1, <1>3, ParalelIs DEF LoopPlace
<1>5. SPUTypes' /\ SPUs' = SPUs
  BY <1>1, ParalelIs, SPUsUnchanged
<1>6. \A k \in SPUs' : SPUPlace(k)'
  BY <1>1, <1>3, <1>5, ParalelIs DEF SPUPlace, Idle, spuVars
<1> QED BY <1>2, <1>3, <1>4, <1>5, <1>6, ParalelIsNext

LEMMA EndFrameJoin ==
  ASSUME ParalelInv, RunParalel, EndFrame("join"), UNCHANGED spuVars
  PROVE  ParalelInv'
<1>1. program = "paralel" /\ UNCHANGED <<scaled, program>>
  BY DEF RunParalel
<1>2. FileInv'
  BY <1>1, ParalelIs, EndFrameStep
<1>3. /\ main = "write" /\ frame' = frame + 1 /\ i' = 0
      /\ main' = IF frame < NumFrames THEN "read" ELSE "join"
  BY DEF EndFrame
<1>4. SPUTypes' /\ SPUs' = SPUs
  BY <1>1, ParalelIs, SPUsUnchanged
<1>5. LoopPlace'
  BY <1>1, <1>3, ParalelIs DEF LoopPlace
<1>6. ASSUME NEW k \in SPUs PROVE SPUPlace(k)'
  <2>1. Idle(k, frame)
    BY <1>1, <1>3, ParalelIs DEF SPUPlace
  <2>2. frame \in 1 .. NumFrames /\ NumFrames \in Nat
    BY <1>1, <1>3, ParalelIs
  <2>3. CASE frame < NumFrames
    BY <1>1, <1>3, <2>1, <2>2, <2>3 DEF SPUPlace, Idle, spuVars
  <2>4. CASE frame = NumFrames
    BY <1>1, <1>3, <2>1, <2>2, <2>4 DEF SPUPlace, Idle, spuVars
  <2> QED BY <2>2, <2>3, <2>4
<1> QED BY <1>2, <1>3, <1>4, <1>5, <1>6, ParalelIsNext

LEMMA ImagesReadStep ==
  ASSUME ParalelInv, RunParalel, ImagesRead
  PROVE  ParalelInv'
<1>1. /\ program = "paralel" /\ UNCHANGED <<scaled, program>>
      /\ main = "read" /\ io = "closed" /\ i = NumStreams /\ UNCHANGED <<file, spuVars>>
  BY DEF RunParalel, ImagesRead
<1>2. SPUTypes' /\ SPUs' = SPUs
  BY <1>1, ParalelIs, SPUsUnchanged
<1>3. CASE Exit
  <2>1. FileInv'
    BY <1>1, <1>3, ParalelIs, ExitStep DEF FileInv, PnmTypeOK
  <2> QED BY <1>1, <1>2, <1>3, <2>1, ParalelIs, ParalelIsNext DEF Exit, LoopPlace, SPUPlace
<1>4. CASE /\ big_image' = alloc_image(input[0].width, input[0].height)
           /\ main' = "begin" /\ i' = 0
           /\ UNCHANGED <<frame, io, bytes_left, input, results>>
  <2>1. input = [s \in Streams |-> Whole(s)]
    BY <1>1, ParalelIs, AllRead
  <2>2. 0 \in Streams
    BY Constants DEF Streams
  <2>3. input[0].width = Width /\ input[0].height = Height
    BY <2>1, <2>2 DEF Whole
  <2>4. \E data : /\ big_image' = [width |-> Width, height |-> Height, data |-> data]
                  /\ DOMAIN data = 0 .. ImageSize - 1
    BY <1>4, <2>3 DEF alloc_image, ImageSize
  <2>5. ScaledPlace'
    BY <1>4 DEF ScaledPlace
  <2>6. FileInv'
    BY <1>1, <1>4, <2>1, <2>4, <2>5, ParalelIs, WorkStep
  <2>7. LoopPlace'
    BY <1>1, <1>4, ParalelIs DEF LoopPlace, spuVars
  <2>8. \A k \in SPUs' : SPUPlace(k)'
    <3>1. \A k \in SPUs : ~(k < 0)
      BY <1>1, ParalelIs
    <3>2. \A k \in SPUs : Idle(k, frame - 1)
      BY <1>1, ParalelIs DEF SPUPlace
    <3> QED BY <1>1, <1>2, <1>4, <3>1, <3>2 DEF SPUPlace, Idle, spuVars
  <2> QED BY <1>2, <1>4, <2>6, <2>7, <2>8, ParalelIsNext
<1> QED BY <1>3, <1>4 DEF ImagesRead

(* A step at work on a frame whose images it leaves alone.                 *)
LEMMA FrameStep ==
  ASSUME ParalelInv, program = "paralel", main \in {"begin", "wait"},
         main' \in {"begin", "wait", "write"},
         UNCHANGED <<frame, ioVars, input, big_image, results>>
  PROVE  FileInv'
<1>1. /\ io = "closed" /\ input = [s \in Streams |-> Whole(s)]
      /\ \E data : /\ big_image = [width |-> Width, height |-> Height, data |-> data]
                   /\ DOMAIN data = 0 .. ImageSize - 1
  BY ParalelIs DEF FileInv, ImagesPlace
<1>2. ScaledPlace'
  BY DEF ScaledPlace
<1> QED BY <1>1, <1>2, ParalelIs, WorkStep DEF ioVars

LEMMA SendBeginStep ==
  ASSUME ParalelInv, RunParalel, SendBegin
  PROVE  ParalelInv'
<1>1. /\ program = "paralel" /\ UNCHANGED <<scaled, program>>
      /\ main = "begin" /\ i < spu_threads /\ i' = i + 1
      /\ in_mbox' = [in_mbox EXCEPT ![i] = IF @ < InMboxDepth THEN @ + 1 ELSE @]
      /\ UNCHANGED <<main, frame, ioVars, input, big_image, results, spu_threads,
                     out_intr, spu, spu_frame, picture>>
  BY DEF RunParalel, SendBegin
<1>2. FileInv'
  BY <1>1, FrameStep
<1>3. i \in SPUs /\ Idle(i, frame - 1) /\ SPUs' = SPUs
  BY <1>1, ParalelIs DEF SPUPlace, LoopPlace, SPUs
<1>4. in_mbox' = [in_mbox EXCEPT ![i] = 1]
  <2>1. in_mbox[i] = 0 /\ 0 < InMboxDepth
    BY <1>3, ParalelAssumption DEF Idle
  <2> QED BY <1>1, <2>1
<1>5. SPUTypes'
  <2>1. in_mbox \in [SPUs -> 0 .. InMboxDepth] /\ 1 \in 0 .. InMboxDepth
    BY <1>1, ParalelIs, ParalelAssumption DEF SPUTypes
  <2>2. in_mbox' \in [SPUs -> 0 .. InMboxDepth]
    BY <1>4, <2>1
  <2> QED BY <1>1, <1>3, <2>2, ParalelIs DEF SPUTypes
<1>6. LoopPlace'
  BY <1>1, ParalelIs DEF LoopPlace, SPUTypes
<1>7. ASSUME NEW k \in SPUs PROVE SPUPlace(k)'
  <2>1. CASE k = i
    <3>1. AtWork(k)'
      BY <1>1, <1>3, <1>4, <2>1, ParalelIs DEF AtWork, Idle, SPUTypes
    <3> QED BY <1>1, <2>1, <3>1, ParalelIs DEF SPUPlace, LoopPlace
  <2>2. CASE k # i
    <3>1. in_mbox'[k] = in_mbox[k]
      BY <1>1, <1>4, <2>2, ParalelIs DEF SPUTypes
    <3>3. k \in Nat /\ i \in Nat
      BY <1>1, ParalelIs DEF LoopPlace
    <3>4. k < i' <=> k < i
      BY <1>1, <2>2, <3>3
    <3>2. SPUPlace(k)
      BY <1>1, ParalelIs
    <3> QED BY <1>1, <3>1, <3>2, <3>4 DEF SPUPlace, AtWork, HasSent, Idle
  <2> QED BY <2>1, <2>2
<1> QED BY <1>1, <1>2, <1>3, <1>5, <1>6, <1>7, ParalelIsNext

LEMMA AllBegunStep ==
  ASSUME ParalelInv, RunParalel, AllBegun
  PROVE  ParalelInv'
<1>1. /\ program = "paralel" /\ UNCHANGED <<scaled, program>>
      /\ main = "begin" /\ i = spu_threads /\ main' = "wait" /\ i' = 0
      /\ UNCHANGED <<frame, ioVars, input, big_image, results, spuVars>>
  BY DEF RunParalel, AllBegun
<1>2. FileInv'
  BY <1>1, FrameStep
<1>3. SPUTypes' /\ SPUs' = SPUs
  BY <1>1, ParalelIs, SPUsUnchanged
<1>4. \A k \in SPUs : AtWork(k) \/ HasSent(k)
  BY <1>1, ParalelIs DEF SPUPlace
<1>5. \A k \in SPUs' : SPUPlace(k)'
  BY <1>1, <1>3, <1>4 DEF SPUPlace, AtWork, HasSent, spuVars
<1>6. Counted' = {}
  <2>1. \A k \in SPUs : ~(spu_frame[k] = frame /\ out_intr[k] = 0)
    BY <1>1, <1>4, ParalelIs DEF AtWork, HasSent
  <2> QED BY <1>1, <1>3, <2>1 DEF Counted, spuVars
<1>7. LoopPlace'
  BY <1>1, ParalelIs DEF LoopPlace, spuVars
<1> QED BY <1>1, <1>2, <1>3, <1>5, <1>6, <1>7, FS_EmptySet, ParalelIsNext

LEMMA WaitStep ==
  ASSUME ParalelInv, RunParalel, wait_spu_frame
  PROVE  ParalelInv'
<1>1. /\ program = "paralel" /\ UNCHANGED <<scaled, program>>
      /\ main = "wait" /\ i < spu_threads
      /\ UNCHANGED <<file, spu_threads, in_mbox, spu, spu_frame, picture>>
  BY DEF RunParalel, wait_spu_frame
<1>2. SPUs' = SPUs /\ \A k \in SPUs : AtWork(k) \/ HasSent(k) \/ Idle(k, frame)
  BY <1>1, ParalelIs DEF SPUs, SPUPlace
<1>3. CASE Exit /\ UNCHANGED out_intr
  <2>1. io = "closed" /\ file' \in Files
    BY <1>1, ParalelIs DEF FileInv, ImagesPlace, PnmTypeOK
  <2>2. FileInv'
    BY <1>1, <1>3, <2>1, ParalelIs, ExitStep
  <2>3. SPUTypes'
    BY <1>1, <1>2, <1>3, ParalelIs DEF SPUTypes
  <2> QED BY <1>1, <1>2, <1>3, <2>2, <2>3, ParalelIs, ParalelIsNext
          DEF Exit, LoopPlace, SPUPlace
<1>4. ASSUME NEW k \in SPUs, out_intr[k] = 1, out_intr' = [out_intr EXCEPT ![k] = 0],
             i' = i + 1,
             UNCHANGED <<main, frame, io, bytes_left, input, big_image, results>>
      PROVE  ParalelInv'
  <2>1. FileInv'
    BY <1>1, <1>4, FrameStep DEF ioVars
  <2>2. HasSent(k)
    BY <1>2, <1>4 DEF AtWork, Idle
  <2>3. /\ out_intr \in [SPUs -> 0 .. 1] /\ out_intr' \in [SPUs -> 0 .. 1]
        /\ out_intr'[k] = 0 /\ \A j \in SPUs \ {k} : out_intr'[j] = out_intr[j]
    BY <1>1, <1>4, ParalelIs DEF SPUTypes
  <2>4. SPUTypes'
    BY <1>1, <1>2, <2>3, ParalelIs DEF SPUTypes
  <2>5. LoopPlace'
    BY <1>1, <1>4, ParalelIs DEF LoopPlace, SPUTypes
  <2>6. ASSUME NEW j \in SPUs PROVE SPUPlace(j)'
    <3>1. CASE j = k
      <4>1. Idle(k, frame)'
        BY <1>1, <1>4, <2>2, <2>3 DEF HasSent, Idle
      <4> QED BY <1>1, <1>4, <3>1, <4>1 DEF SPUPlace
    <3>2. CASE j # k
      BY <1>1, <1>2, <1>4, <2>3, <3>2 DEF SPUPlace, AtWork, HasSent, Idle
    <3> QED BY <3>1, <3>2
  <2>7. i' = Cardinality(Counted')
    <3>1. Counted' = Counted \cup {k} /\ k \notin Counted
      BY <1>1, <1>2, <1>4, <2>2, <2>3 DEF Counted, HasSent
    <3>2. IsFiniteSet(Counted)
      <4>1. Counted \subseteq 0 .. spu_threads - 1
        BY <1>1, ParalelIs DEF Counted
      <4>2. IsFiniteSet(0 .. spu_threads - 1)
        BY <1>1, ParalelIs, FS_Interval
      <4> QED BY <4>1, <4>2, FS_Subset
    <3>3. i = Cardinality(Counted)
      BY <1>1, ParalelIs
    <3> QED BY <1>4, <3>1, <3>2, <3>3, FS_AddElement
  <2> QED BY <1>1, <1>2, <1>4, <2>1, <2>4, <2>5, <2>6, <2>7, ParalelIsNext
<1> QED BY <1>3, <1>4 DEF wait_spu_frame

(* The count is complete only when every SPU's message has been read.      *)
LEMMA FrameDoneStep ==
  ASSUME ParalelInv, RunParalel, FrameDone
  PROVE  ParalelInv'
<1>1. /\ program = "paralel" /\ UNCHANGED <<scaled, program>>
      /\ main = "wait" /\ i = spu_threads /\ main' = "write"
      /\ UNCHANGED <<frame, i, ioVars, input, big_image, results, spuVars>>
  BY DEF RunParalel, FrameDone
<1>2. FileInv'
  BY <1>1, FrameStep
<1>3. SPUTypes' /\ SPUs' = SPUs
  BY <1>1, ParalelIs, SPUsUnchanged
<1>4. LoopPlace'
  BY <1>1, ParalelIs DEF LoopPlace
<1>5. Counted = SPUs
  <2>1. Counted \subseteq SPUs /\ Cardinality(Counted) = spu_threads
    BY <1>1, ParalelIs DEF Counted
  <2>2. /\ SPUs = 0 .. spu_threads - 1 /\ spu_threads \in Nat
    BY <1>1, ParalelIs
  <2>3. IsFiniteSet(SPUs) /\ Cardinality(SPUs) = spu_threads
    BY <2>2, FS_Interval
  <2> QED BY <2>1, <2>3, FS_Subset
<1>6. \A k \in SPUs : Idle(k, frame)
  <2>1. ASSUME NEW k \in SPUs PROVE Idle(k, frame)
    <3>1. spu_frame[k] = frame /\ out_intr[k] = 0
      BY <1>5 DEF Counted
    <3>2. AtWork(k) \/ HasSent(k) \/ Idle(k, frame)
      BY <1>1, ParalelIs DEF SPUPlace
    <3>3. frame # frame - 1
      BY <1>1, ParalelIs
    <3> QED BY <3>1, <3>2, <3>3 DEF AtWork, HasSent
  <2> QED BY <2>1
<1>7. \A k \in SPUs' : SPUPlace(k)'
  BY <1>1, <1>3, <1>6 DEF SPUPlace, Idle, spuVars
<1> QED BY <1>1, <1>2, <1>3, <1>4, <1>7, ParalelIsNext

(* Only an SPU that is at work can take a step, while the PPU is sending   *)
(* to it and the others or waiting for them.                               *)
LEMMA OnlyAtWork ==
  ASSUME ParalelInv, program = "paralel", NEW k \in SPUs, main # "exited",
         in_mbox[k] > 0 \/ spu[k] \in {"get", "store", "send"}
  PROVE  AtWork(k) /\ main \in {"begin", "wait"} /\ (main = "begin" => k < i)
<1>1. \A done : ~Idle(k, done) /\ ~HasSent(k)
  BY DEF Idle, HasSent
<1>2. SPUPlace(k)
  BY ParalelIs
<1> QED BY <1>1, <1>2, ParalelIs DEF SPUPlace

LEMMA SPUStepKeeps ==
  ASSUME ParalelInv, RunParalel, NEW k \in Streams, SPUStep(k)
  PROVE  ParalelInv'
<1>1. /\ program = "paralel" /\ UNCHANGED <<scaled, program>>
      /\ k \in SPUs /\ main # "exited"
  BY DEF RunParalel, SPUStep
<1>2. /\ AtWork(k) /\ main \in {"begin", "wait"} /\ (main = "begin" => k < i)
      /\ UNCHANGED <<main, frame, i, ioVars, input, results, spu_threads>>
  <2>1. CASE wait_for_begin(k)
    BY <1>1, <2>1, OnlyAtWork DEF wait_for_begin, pnmVars, ioVars
  <2>2. CASE GetImage(k)
    BY <1>1, <2>2, OnlyAtWork DEF GetImage, pnmVars, ioVars
  <2>3. CASE StoreThumbnail(k)
    BY <1>1, <2>3, OnlyAtWork DEF StoreThumbnail
  <2>4. CASE send_frame_done(k)
    BY <1>1, <2>4, OnlyAtWork DEF send_frame_done, pnmVars, ioVars
  <2> QED BY <2>1, <2>2, <2>3, <2>4 DEF SPUStep
<1>3. SPUs' = SPUs /\ LoopPlace'
  BY <1>1, <1>2, ParalelIs DEF SPUs, LoopPlace
<1>4. ASSUME UNCHANGED big_image PROVE FileInv'
  BY <1>1, <1>2, <1>4, FrameStep
<1>5. ASSUME FileInv', SPUTypes', AtWork(k)' \/ HasSent(k)',
             \A j \in SPUs \ {k} : /\ in_mbox'[j] = in_mbox[j] /\ out_intr'[j] = out_intr[j]
                                   /\ spu'[j] = spu[j] /\ spu_frame'[j] = spu_frame[j]
      PROVE  ParalelInv'
  <2>1. ASSUME NEW j \in SPUs PROVE SPUPlace(j)'
    <3>1. CASE j = k
      BY <1>2, <1>5, <3>1 DEF SPUPlace
    <3>2. CASE j # k
      <4>1. SPUPlace(j)
        BY <1>1, ParalelIs
      <4> QED BY <1>2, <1>5, <3>2, <4>1 DEF SPUPlace, AtWork, HasSent, Idle
    <3> QED BY <3>1, <3>2
  <2>2. Counted' = Counted
    <3>1. frame - 1 # frame
      BY <1>1, <1>2, ParalelIs
    <3>2. ~(spu_frame[k] = frame /\ out_intr[k] = 0)
      BY <1>2, <3>1 DEF AtWork
    <3>3. ~(spu_frame'[k] = frame' /\ out_intr'[k] = 0)
      BY <1>2, <1>5, <3>1 DEF AtWork, HasSent
    <3> QED BY <1>2, <1>3, <1>5, <3>2, <3>3 DEF Counted
  <2>3. main' = "wait" => i' = Cardinality(Counted')
    BY <1>1, <1>2, <2>2, ParalelIs
  <2> QED BY <1>2, <1>3, <1>5, <2>1, <2>3, ParalelIsNext
<1>6. CASE wait_for_begin(k)
  <2>1. /\ in_mbox' = [in_mbox EXCEPT ![k] = 0] /\ spu' = [spu EXCEPT ![k] = "get"]
        /\ UNCHANGED <<big_image, out_intr, spu_frame, picture>>
    <3>1. in_mbox[k] = 1
      BY <1>2, <1>6 DEF wait_for_begin, AtWork
    <3> QED BY <1>6, <3>1 DEF wait_for_begin, pnmVars
  <2>2. SPUTypes'
    BY <1>1, <1>2, <1>3, <2>1, ParalelIs, ParalelAssumption DEF SPUTypes
  <2>3. AtWork(k)'
    BY <1>1, <1>2, <2>1, ParalelIs DEF AtWork, SPUTypes
  <2> QED BY <1>1, <1>4, <1>5, <2>1, <2>2, <2>3, ParalelIs DEF SPUTypes
<1>7. CASE GetImage(k)
  <2>1. /\ picture' = [picture EXCEPT ![k] = Thumbnail(input[k])]
        /\ spu' = [spu EXCEPT ![k] = "store"] /\ spu[k] = "get"
        /\ UNCHANGED <<big_image, in_mbox, out_intr, spu_frame>>
    BY <1>7 DEF GetImage, pnmVars
  <2>2. SPUTypes'
    BY <1>1, <1>2, <1>3, <2>1, ParalelIs DEF SPUTypes
  <2>3. AtWork(k)'
    BY <1>1, <1>2, <2>1, ParalelIs DEF AtWork, SPUTypes
  <2> QED BY <1>1, <1>4, <1>5, <2>1, <2>2, <2>3, ParalelIs DEF SPUTypes
<1>8. CASE StoreThumbnail(k)
  <2>1. PICK pixels : /\ big_image' = [big_image EXCEPT !.data = pixels]
                      /\ DOMAIN pixels = DOMAIN big_image.data
    <3> DEFINE thumbnail == picture[k]
               line == thumbnail.width * NUM_CHANNELS
               Lines(a) == {c \in 0 .. thumbnail.height - 1 :
                              a - base_dma_addr(k, c, thumbnail) \in 0 .. line - 1}
               pixels == [a \in DOMAIN big_image.data |->
                 IF Lines(a) = {} THEN big_image.data[a]
                 ELSE LET c == CHOOSE c \in Lines(a) : TRUE
                      IN  thumbnail.data[c * line + a - base_dma_addr(k, c, thumbnail)]]
    <3>1. big_image' = [big_image EXCEPT !.data = pixels]
      BY <1>8 DEF StoreThumbnail
    <3>2. DOMAIN pixels = DOMAIN big_image.data
      OBVIOUS
    <3> HIDE DEF pixels
    <3> QED BY <3>1, <3>2
  <2>2. /\ picture' = [picture EXCEPT ![k] = NoImage]
        /\ spu' = [spu EXCEPT ![k] = "send"] /\ spu[k] = "store"
        /\ UNCHANGED <<in_mbox, out_intr, spu_frame>>
    BY <1>8 DEF StoreThumbnail
  <2>3. SPUTypes'
    BY <1>1, <1>2, <1>3, <2>2, ParalelIs DEF SPUTypes
  <2>4. AtWork(k)'
    BY <1>1, <1>2, <2>2, ParalelIs DEF AtWork, SPUTypes
  <2>5. PICK data : /\ big_image = [width |-> Width, height |-> Height, data |-> data]
                    /\ DOMAIN data = 0 .. ImageSize - 1
    BY <1>1, <1>2, ParalelIs DEF FileInv, ImagesPlace
  <2>6. /\ big_image' = [width |-> Width, height |-> Height, data |-> pixels]
        /\ DOMAIN pixels = 0 .. ImageSize - 1
    BY <2>1, <2>5
  <2>7. io = "closed" /\ input = [s \in Streams |-> Whole(s)]
    BY <1>1, <1>2, ParalelIs DEF FileInv, ImagesPlace
  <2>8. ScaledPlace'
    BY <1>2 DEF ScaledPlace
  <2>9. FileInv'
    BY <1>1, <1>2, <2>6, <2>7, <2>8, ParalelIs, WorkStep DEF ioVars
  <2> QED BY <1>1, <1>5, <2>2, <2>3, <2>4, <2>9, ParalelIs DEF SPUTypes
<1>9. CASE send_frame_done(k)
  <2>1. /\ out_intr' = [out_intr EXCEPT ![k] = 1]
        /\ spu_frame' = [spu_frame EXCEPT ![k] = frame] /\ spu[k] = "send"
        /\ UNCHANGED <<big_image, in_mbox, picture>>
    <3>1. (frame - 1) + 1 = frame
      BY <1>1, <1>2, ParalelIs
    <3>2. spu_frame[k] = frame - 1
      BY <1>2 DEF AtWork
    <3> QED BY <1>9, <3>1, <3>2 DEF send_frame_done, pnmVars
  <2>2. spu' = [spu EXCEPT ![k] = IF frame < NumFrames THEN "wait" ELSE "ended"]
    BY <1>1, <1>9, <2>1, ParalelIs DEF send_frame_done, SPUTypes
  <2>3. SPUTypes'
    BY <1>1, <1>2, <1>3, <2>1, <2>2, ParalelIs DEF SPUTypes
  <2>4. HasSent(k)'
    BY <1>1, <1>2, <2>1, <2>2, ParalelIs DEF AtWork, HasSent, SPUTypes
  <2> QED BY <1>1, <1>4, <1>5, <2>1, <2>2, <2>3, <2>4, ParalelIs DEF SPUTypes
<1> QED BY <1>6, <1>7, <1>8, <1>9 DEF SPUStep

LEMMA ParalelKeeps ==
  ASSUME ParalelInv, RunParalel, ParalelNext
  PROVE  ParalelInv'
<1>1. CASE PPUStep
  BY <1>1, PPUFileStep, EndFrameJoin, ImagesReadStep, SendBeginStep, AllBegunStep,
     WaitStep, FrameDoneStep DEF PPUStep
<1>2. CASE \E k \in Streams : SPUStep(k)
  BY <1>2, SPUStepKeeps
<1>3. CASE ParalelEnded
  BY <1>3, StutterKeeps DEF ParalelEnded, RunParalel, bothVars
<1> QED BY <1>1, <1>2, <1>3 DEF ParalelNext

LEMMA ParalelInvStep == ParalelInv /\ [BothNext]_bothVars => ParalelInv'
BY SerialKeeps, ParalelKeeps, StutterKeeps DEF BothNext

LEMMA ParalelInvAlways == BothSpec => []ParalelInv
BY ParalelInvInit, ParalelInvStep, PTL DEF BothSpec

------------------------------------------------------------------------------
(* The layout of the big image: each byte of a thumbnail, by its line and  *)
(* its place in the line, has an address of its own.                       *)
ThumbLine == (Width \div SCALE_FACTOR) * NUM_CHANNELS
ThumbLines == Height \div SCALE_FACTOR

Address(s, c, e) ==
  ((s \div NUM_IMAGES_WIDTH) * ThumbLines + c) * (NUM_IMAGES_WIDTH * ThumbLine)
    + ((s % NUM_IMAGES_WIDTH) * ThumbLine + e)

LEMMA DivUnique ==
  ASSUME NEW q \in Nat, NEW g \in Nat \ {0}, NEW r \in 0 .. g - 1
  PROVE  (q * g + r) \div g = q /\ (q * g + r) % g = r
BY Z3

LEMMA RowMajor ==
  ASSUME NEW q \in Nat, NEW g \in Nat, NEW m \in Nat, NEW r \in 0 .. g - 1, q < m
  PROVE  q * g + r \in 0 .. m * g - 1
<1>1. q * g \in Nat /\ m * g \in Nat
  BY Z3
<1>2. (q + 1) * g <= m * g
  BY Z3
<1>3. (q + 1) * g = q * g + g
  BY Z3
<1> QED BY <1>1, <1>2, <1>3

LEMMA Sizes ==
  /\ Width \div SCALE_FACTOR \in Nat \ {0} /\ ThumbLine \in Nat \ {0} /\ ThumbLines \in Nat \ {0}
  /\ NUM_IMAGES_WIDTH \in Nat \ {0} /\ NUM_IMAGES_HEIGHT \in Nat \ {0}
  /\ Width * NUM_CHANNELS = NUM_IMAGES_WIDTH * ThumbLine
  /\ Height \div NUM_IMAGES_HEIGHT = ThumbLines
  /\ Size(Width \div SCALE_FACTOR, ThumbLines) = ThumbLines * ThumbLine
  /\ ImageSize = (NUM_IMAGES_HEIGHT * ThumbLines) * (NUM_IMAGES_WIDTH * ThumbLine)
<1> DEFINE w == Width \div SCALE_FACTOR
           h == Height \div SCALE_FACTOR
<1>1. /\ w * NUM_IMAGES_WIDTH = Width /\ h * NUM_IMAGES_HEIGHT = Height
      /\ SCALE_FACTOR = NUM_IMAGES_HEIGHT
  BY Constants, PnmAssumption
<1>2. w \in Nat /\ h \in Nat
  BY Constants
<1>3. h = Height \div NUM_IMAGES_HEIGHT
  BY <1>1
<1> HIDE DEF w, h
<1>4. w # 0 /\ h # 0
  BY <1>1, <1>2, Constants
<1>5. \A a, b \in Nat \ {0} : a * b \in Nat \ {0}
  OBVIOUS
<1>6. w * NUM_CHANNELS \in Nat \ {0}
  BY <1>2, <1>4, <1>5, Constants
<1>7. \A a, b, c \in Nat : (a * b) * c = b * (a * c)
  BY Z3
<1>8. Width * NUM_CHANNELS = NUM_IMAGES_WIDTH * (w * NUM_CHANNELS)
  BY <1>1, <1>2, <1>7, Constants
<1>9. w * h * NUM_CHANNELS = h * (w * NUM_CHANNELS)
  BY <1>2, <1>7, Constants
<1>10. Width * Height * NUM_CHANNELS = (NUM_IMAGES_HEIGHT * h) * (NUM_IMAGES_WIDTH * (w * NUM_CHANNELS))
  <2>1. Width * Height * NUM_CHANNELS = Height * (Width * NUM_CHANNELS)
    BY <1>7, Constants
  <2>2. Height = NUM_IMAGES_HEIGHT * h
    BY <1>1, <1>2, Constants, Z3
  <2> QED BY <1>8, <2>1, <2>2
<1> QED BY <1>2, <1>3, <1>4, <1>6, <1>8, <1>9, <1>10, Constants
        DEF w, h, ThumbLine, ThumbLines, Size, ImageSize

LEMMA StreamParts ==
  ASSUME NEW s \in Streams
  PROVE  /\ s \div NUM_IMAGES_WIDTH \in 0 .. NUM_IMAGES_HEIGHT - 1
         /\ s % NUM_IMAGES_WIDTH \in 0 .. NUM_IMAGES_WIDTH - 1
         /\ s = (s \div NUM_IMAGES_WIDTH) * NUM_IMAGES_WIDTH + (s % NUM_IMAGES_WIDTH)
<1> DEFINE q == s \div NUM_IMAGES_WIDTH
           r == s % NUM_IMAGES_WIDTH
<1>1. NUM_IMAGES_WIDTH \in Nat \ {0} /\ NUM_IMAGES_HEIGHT \in Nat \ {0}
  BY Sizes
<1>2. s \in Nat /\ s < NUM_IMAGES_WIDTH * NUM_IMAGES_HEIGHT
  BY <1>1, Constants DEF Streams, NumStreams
<1>3. q \in Nat /\ r \in 0 .. NUM_IMAGES_WIDTH - 1 /\ s = NUM_IMAGES_WIDTH * q + r
  BY <1>1, <1>2
<1> HIDE DEF q, r
<1>4. q < NUM_IMAGES_HEIGHT
  <2> SUFFICES ASSUME q >= NUM_IMAGES_HEIGHT PROVE FALSE
    BY <1>1, <1>3
  <2>1. NUM_IMAGES_WIDTH * q >= NUM_IMAGES_WIDTH * NUM_IMAGES_HEIGHT
    BY <1>1, <1>3, Z3
  <2> QED BY <1>1, <1>2, <1>3, <2>1, Z3
<1>5. NUM_IMAGES_WIDTH * q = q * NUM_IMAGES_WIDTH
  BY <1>1, <1>3, Z3
<1> QED BY <1>1, <1>3, <1>4, <1>5 DEF q, r

(* What an address says of its byte.                                       *)
LEMMA AddressParts ==
  ASSUME NEW s \in Streams, NEW c \in 0 .. ThumbLines - 1, NEW e \in 0 .. ThumbLine - 1,
         NEW a, a = Address(s, c, e)
  PROVE  /\ a \in 0 .. ImageSize - 1
         /\ a % ThumbLine = e
         /\ (a \div ThumbLine) % NUM_IMAGES_WIDTH = s % NUM_IMAGES_WIDTH
         /\ (a \div (ThumbLine * NUM_IMAGES_WIDTH)) % ThumbLines = c
         /\ a \div (ThumbLine * NUM_IMAGES_WIDTH * ThumbLines) = s \div NUM_IMAGES_WIDTH
<1> DEFINE W == NUM_IMAGES_WIDTH
           q == s \div W
           j == s % W
           R == q * ThumbLines + c
           L == ThumbLine
<1>1. /\ W \in Nat \ {0} /\ L \in Nat \ {0} /\ ThumbLines \in Nat \ {0}
      /\ NUM_IMAGES_HEIGHT \in Nat \ {0}
      /\ ImageSize = (NUM_IMAGES_HEIGHT * ThumbLines) * (W * L)
  BY Sizes
<1>2. q \in 0 .. NUM_IMAGES_HEIGHT - 1 /\ j \in 0 .. W - 1
  BY StreamParts
<1>3. a = R * (W * L) + (j * L + e)
  BY DEF Address
<1> HIDE DEF W, q, j, L
<1>4. R \in 0 .. NUM_IMAGES_HEIGHT * ThumbLines - 1 /\ R \div ThumbLines = q /\ R % ThumbLines = c
  <2>1. q \in Nat /\ q < NUM_IMAGES_HEIGHT /\ NUM_IMAGES_HEIGHT \in Nat /\ ThumbLines \in Nat
    BY <1>1, <1>2
  <2> QED BY <1>1, <2>1, RowMajor, DivUnique
<1> HIDE DEF R
<1>5. e \in 0 .. L - 1
  BY DEF L
<1>6. j * L + e \in 0 .. W * L - 1
  BY <1>1, <1>2, <1>5, RowMajor
<1>7. /\ R \in Nat /\ j \in Nat /\ W * L \in Nat \ {0} /\ NUM_IMAGES_HEIGHT * ThumbLines \in Nat
      /\ R < NUM_IMAGES_HEIGHT * ThumbLines
  <2>1. W * L \in Nat \ {0} /\ NUM_IMAGES_HEIGHT * ThumbLines \in Nat
    BY <1>1, Z3
  <2> QED BY <1>2, <1>4, <2>1
<1>8. a \in 0 .. ImageSize - 1
  <2> DEFINE g == W * L
             m == NUM_IMAGES_HEIGHT * ThumbLines
             r == j * L + e
  <2>1. g \in Nat /\ m \in Nat /\ r \in 0 .. g - 1 /\ R \in Nat /\ R < m
    BY <1>6, <1>7
  <2>2. a = R * g + r /\ ImageSize = m * g
    BY <1>1, <1>3
  <2> HIDE DEF g, m, r
  <2> QED BY <2>1, <2>2, RowMajor
<1>9. a \div (W * L) = R
  <2> DEFINE g == W * L
             r == j * L + e
  <2>1. g \in Nat \ {0} /\ r \in 0 .. g - 1 /\ R \in Nat /\ a = R * g + r
    BY <1>3, <1>6, <1>7
  <2> HIDE DEF g, r
  <2>2. a \div g = R
    BY <2>1, DivUnique
  <2> QED BY <2>2 DEF g
<1>10. a = (R * W + j) * L + e
  <2>1. R * (W * L) = (R * W) * L
    BY <1>1, <1>7, Z3
  <2> DEFINE v == R * W
  <2>2. v \in Nat
    BY <1>1, <1>7, Z3
  <2>3. a = v * L + (j * L + e)
    BY <1>3, <2>1
  <2> HIDE DEF v
  <2>4. v * L + (j * L + e) = (v + j) * L + e
    BY <1>1, <1>5, <1>7, <2>2, Z3
  <2> QED BY <2>3, <2>4 DEF v
<1>11. a \div L = R * W + j /\ a % L = e
  <2> DEFINE v == R * W + j
  <2>1. v \in Nat
    BY <1>1, <1>7, Z3
  <2>2. a = v * L + e
    BY <1>10
  <2> HIDE DEF v
  <2>3. a \div L = v /\ a % L = e
    BY <1>1, <1>5, <2>1, <2>2, DivUnique
  <2> QED BY <2>3 DEF v
<1>12. (a \div L) % W = j
  <2>1. (R * W + j) % W = j
    BY <1>1, <1>2, <1>7, DivUnique
  <2> QED BY <1>11, <2>1
<1>13. L * W = W * L
  BY <1>1, Z3
<1>14. a \div (L * W * ThumbLines) = q
  <2> DEFINE g == W * L
             n == g * ThumbLines
             r == j * L + e
             p == c * g + r
  <2>1. g \in Nat \ {0} /\ r \in 0 .. g - 1 /\ q \in Nat /\ c \in Nat /\ c < ThumbLines
        /\ ThumbLines \in Nat
    BY <1>1, <1>2, <1>6, <1>7
  <2>2. a = (q * ThumbLines + c) * g + r
    BY <1>3 DEF R
  <2> HIDE DEF g, r
  <2>3. p \in 0 .. ThumbLines * g - 1 /\ ThumbLines * g = n
    <3>1. p \in 0 .. ThumbLines * g - 1
      BY <2>1, RowMajor
    <3> QED BY <2>1, <3>1, Z3
  <2>4. n \in Nat \ {0}
    BY <1>1, <2>1, Z3
  <2>5. (q * ThumbLines + c) * g + r = q * n + p
    <3>1. (q * ThumbLines + c) * g = (q * ThumbLines) * g + c * g
      <4> DEFINE x == q * ThumbLines
      <4>1. x \in Nat
        BY <2>1, Z3
      <4> HIDE DEF x
      <4>2. (x + c) * g = x * g + c * g
        BY <2>1, <4>1, Z3
      <4> QED BY <4>2 DEF x
    <3>2. (q * ThumbLines) * g = q * n
      BY <2>1, Z3
    <3>3. q * n \in Nat /\ c * g \in Nat
      BY <2>1, <2>4, Z3
    <3> HIDE DEF n
    <3> QED BY <2>1, <3>1, <3>2, <3>3
  <2> HIDE DEF n, p
  <2>6. a \div n = q
    BY <2>1, <2>2, <2>3, <2>4, <2>5, DivUnique
  <2> QED BY <1>13, <2>6 DEF n, g
<1> QED BY <1>4, <1>8, <1>9, <1>11, <1>12, <1>13, <1>14 DEF W, q, j, L

LEMMA AddressesApart ==
  ASSUME NEW s \in Streams, NEW c \in 0 .. ThumbLines - 1, NEW e \in 0 .. ThumbLine - 1,
         NEW t \in Streams, NEW d \in 0 .. ThumbLines - 1, NEW f \in 0 .. ThumbLine - 1,
         Address(s, c, e) = Address(t, d, f)
  PROVE  s = t /\ c = d /\ e = f
<1> DEFINE a == Address(s, c, e)
<1>1. /\ a % ThumbLine = e
      /\ (a \div ThumbLine) % NUM_IMAGES_WIDTH = s % NUM_IMAGES_WIDTH
      /\ (a \div (ThumbLine * NUM_IMAGES_WIDTH)) % ThumbLines = c
      /\ a \div (ThumbLine * NUM_IMAGES_WIDTH * ThumbLines) = s \div NUM_IMAGES_WIDTH
  <2> HIDE DEF a
  <2> QED BY AddressParts DEF a
<1>2. /\ a % ThumbLine = f
      /\ (a \div ThumbLine) % NUM_IMAGES_WIDTH = t % NUM_IMAGES_WIDTH
      /\ (a \div (ThumbLine * NUM_IMAGES_WIDTH)) % ThumbLines = d
      /\ a \div (ThumbLine * NUM_IMAGES_WIDTH * ThumbLines) = t \div NUM_IMAGES_WIDTH
  <2>1. a = Address(t, d, f)
    OBVIOUS
  <2> HIDE DEF a
  <2> QED BY <2>1, AddressParts
<1> HIDE DEF a
<1>3. s = t
  BY <1>1, <1>2, StreamParts
<1> QED BY <1>1, <1>2, <1>3

LEMMA ByteOfLine ==
  ASSUME NEW c \in 0 .. ThumbLines - 1, NEW e \in 0 .. ThumbLine - 1
  PROVE  c * ThumbLine + e \in 0 .. Size(Width \div SCALE_FACTOR, ThumbLines) - 1
<1>1. c \in Nat /\ c < ThumbLines /\ ThumbLine \in Nat /\ ThumbLines \in Nat
      /\ Size(Width \div SCALE_FACTOR, ThumbLines) = ThumbLines * ThumbLine
  BY Sizes
<1> QED BY <1>1, RowMajor

(* The addresses as the SPU's program computes them, line by line, ...     *)
LEMMA AddressOfLine ==
  ASSUME big_image.width = Width, big_image.height = Height, NEW k \in Streams,
         NEW c \in Nat, NEW e \in Nat, NEW thumbnail,
         thumbnail.width = Width \div SCALE_FACTOR
  PROVE  base_dma_addr(k, c, thumbnail) \in Nat
         /\ base_dma_addr(k, c, thumbnail) + e = Address(k, c, e)
<1> DEFINE q == k \div NUM_IMAGES_WIDTH
           j == k % NUM_IMAGES_WIDTH
           w == Width \div SCALE_FACTOR
           row == NUM_IMAGES_WIDTH * ThumbLine
<1>1. /\ ThumbLine \in Nat /\ ThumbLines \in Nat /\ w \in Nat /\ NUM_CHANNELS \in Nat
      /\ Width * NUM_CHANNELS = row /\ Height \div NUM_IMAGES_HEIGHT = ThumbLines
      /\ ThumbLine = w * NUM_CHANNELS
  BY Sizes, Constants DEF ThumbLine
<1>2. q \in Nat /\ j \in Nat /\ row \in Nat
  <2>1. row \in Nat
    BY Sizes, Z3
  <2> QED BY <2>1, StreamParts, Sizes
<1>3. base_dma_addr(k, c, thumbnail) = q * (row * ThumbLines) + row * c + j * w * NUM_CHANNELS
  BY <1>1 DEF base_dma_addr
<1>4. Address(k, c, e) = (q * ThumbLines + c) * row + (j * ThumbLine + e)
  BY DEF Address
<1> HIDE DEF q, j, w, row
<1>5. j * w * NUM_CHANNELS = j * ThumbLine
  BY <1>1, <1>2, Z3
<1>6. q * (row * ThumbLines) + row * c = (q * ThumbLines + c) * row
  <2> DEFINE x == q * ThumbLines
  <2>1. q * (row * ThumbLines) = x * row
    BY <1>1, <1>2, Z3
  <2>2. x \in Nat
    BY <1>1, <1>2, Z3
  <2> HIDE DEF x
  <2>3. x * row + row * c = (x + c) * row
    BY <1>1, <1>2, <2>2, Z3
  <2> QED BY <2>1, <2>3 DEF x
<1>7. (q * ThumbLines + c) * row \in Nat /\ j * ThumbLine \in Nat
  <2> DEFINE x == q * ThumbLines
  <2>1. x \in Nat /\ j * ThumbLine \in Nat
    BY <1>1, <1>2, Z3
  <2> HIDE DEF x
  <2>2. (x + c) * row \in Nat
    BY <1>1, <1>2, <2>1, Z3
  <2> QED BY <2>1, <2>2 DEF x
<1> DEFINE y == (q * ThumbLines + c) * row
           z == j * ThumbLine
<1>8. y \in Nat /\ z \in Nat /\ base_dma_addr(k, c, thumbnail) = y + z
      /\ Address(k, c, e) = y + (z + e)
  BY <1>3, <1>4, <1>5, <1>6, <1>7
<1> HIDE DEF y, z
<1> QED BY <1>8

(* ... and as the reader of the result file finds them.                    *)
LEMMA AddressInFile ==
  ASSUME NEW s \in Streams,
         NEW b \in 0 .. Size(Width \div SCALE_FACTOR, Height \div SCALE_FACTOR) - 1
  PROVE  \E c \in 0 .. ThumbLines - 1, e \in 0 .. ThumbLine - 1 :
           /\ b = c * ThumbLine + e
           /\ PlaceInFile(s, b) = HeaderSize + 1 + Address(s, c, e)
<1> DEFINE c == b \div ThumbLine
           e == b % ThumbLine
<1>1. /\ ThumbLine \in Nat \ {0} /\ ThumbLines \in Nat \ {0} /\ HeaderSize \in Nat
      /\ b \in 0 .. ThumbLines * ThumbLine - 1
      /\ Width * NUM_CHANNELS = NUM_IMAGES_WIDTH * ThumbLine
  BY Sizes, Constants DEF ThumbLines
<1>2. b \in Nat /\ b < ThumbLines * ThumbLine
  <2>1. ThumbLines * ThumbLine \in Nat
    BY <1>1, Z3
  <2> QED BY <1>1, <2>1
<1>3. c \in Nat /\ e \in 0 .. ThumbLine - 1 /\ b = ThumbLine * c + e
  BY <1>1, <1>2
<1>4. PlaceInFile(s, b)
        = HeaderSize + ((s \div NUM_IMAGES_WIDTH) * ThumbLines + c) * Width * NUM_CHANNELS
            + ((s % NUM_IMAGES_WIDTH) * ThumbLine + e) + 1
  BY DEF PlaceInFile, ThumbLine, ThumbLines
<1> HIDE DEF c, e
<1>5. c < ThumbLines
  <2> SUFFICES ASSUME c >= ThumbLines PROVE FALSE
    BY <1>1, <1>3
  <2>1. ThumbLine * c >= ThumbLines * ThumbLine
    BY <1>1, <1>3, Z3
  <2> QED BY <1>1, <1>2, <1>3, <2>1, Z3
<1>6. b = c * ThumbLine + e
  BY <1>1, <1>3, Z3
<1>7. PlaceInFile(s, b) = HeaderSize + 1 + Address(s, c, e)
  <2> DEFINE x == (s \div NUM_IMAGES_WIDTH) * ThumbLines + c
             y == (s % NUM_IMAGES_WIDTH) * ThumbLine + e
             row == NUM_IMAGES_WIDTH * ThumbLine
  <2>1. x \in Nat /\ y \in Nat /\ row \in Nat
    <3>1. /\ s \div NUM_IMAGES_WIDTH \in Nat /\ s % NUM_IMAGES_WIDTH \in Nat
          /\ NUM_IMAGES_WIDTH \in Nat
      BY StreamParts, Sizes
    <3>2. row \in Nat
      BY <1>1, <3>1, Z3
    <3> DEFINE p == s \div NUM_IMAGES_WIDTH
               r == s % NUM_IMAGES_WIDTH
    <3>3. p \in Nat /\ r \in Nat
      BY <3>1
    <3> HIDE DEF p, r
    <3>4. p * ThumbLines \in Nat /\ r * ThumbLine \in Nat
      BY <1>1, <3>3, Z3
    <3>5. p * ThumbLines + c \in Nat /\ r * ThumbLine + e \in Nat
      BY <1>3, <3>4
    <3> QED BY <3>2, <3>5 DEF p, r
  <2>2. Address(s, c, e) = x * row + y
    BY DEF Address
  <2>3. PlaceInFile(s, b) = HeaderSize + x * Width * NUM_CHANNELS + y + 1
    BY <1>4
  <2> HIDE DEF x, y
  <2>4. x * Width * NUM_CHANNELS = x * (Width * NUM_CHANNELS)
    BY <2>1, Constants, Z3
  <2>5. x * Width * NUM_CHANNELS = x * row
    BY <1>1, <2>4
  <2> HIDE DEF row
  <2>6. x * row \in Nat
    BY <2>1, Z3
  <2> QED BY <1>1, <2>1, <2>2, <2>3, <2>5, <2>6
<1>8. c \in 0 .. ThumbLines - 1
  BY <1>1, <1>3, <1>5
<1> QED BY <1>3, <1>6, <1>7, <1>8

------------------------------------------------------------------------------
(* The thumbnail of stream s and this frame, and that it is in its place.  *)
Thumb(s) ==
  [width |-> Width \div SCALE_FACTOR, height |-> ThumbLines,
   data |-> [b \in 0 .. Size(Width \div SCALE_FACTOR, ThumbLines) - 1 |-> <<s, frame, b>>]]

InPlace(s) ==
  \A c \in 0 .. ThumbLines - 1, e \in 0 .. ThumbLine - 1 :
    big_image.data[Address(s, c, e)] = <<s, frame, c * ThumbLine + e>>

LEMMA ThumbnailOfWhole ==
  ASSUME NEW s
  PROVE  Thumbnail(Whole(s)) = Thumb(s)
<1> DEFINE image == Whole(s)
           first == IF image.data = Blank THEN Blank ELSE image.data[0]
           whole == /\ first # Blank
                    /\ \A b \in DOMAIN image.data : image.data[b] = <<first[1], first[2], b>>
           w == image.width \div SCALE_FACTOR
           h == image.height \div SCALE_FACTOR
<1>1. /\ image.width = Width /\ image.height = Height
      /\ image.data = [b \in 0 .. ImageSize - 1 |-> <<s, frame, b>>]
  BY DEF Whole
<1>2. 0 \in 0 .. ImageSize - 1
  BY Constants
<1>3. image.data # Blank
  <2>1. DOMAIN image.data = 0 .. ImageSize - 1
    BY <1>1
  <2>2. 0 \notin DOMAIN Blank
    BY DEF Blank
  <2> QED BY <1>2, <2>1, <2>2
<1>4. first = <<s, frame, 0>>
  BY <1>1, <1>2, <1>3
<1>5. first # Blank /\ first[1] = s /\ first[2] = frame
  BY <1>4 DEF Blank
<1>6. whole
  BY <1>1, <1>5
<1>7. Thumbnail(image)
        = [width |-> w, height |-> h,
           data |-> [b \in 0 .. Size(w, h) - 1 |->
                       IF whole THEN <<first[1], first[2], b>> ELSE Blank]]
  BY DEF Thumbnail
<1>8. w = Width \div SCALE_FACTOR /\ h = ThumbLines
  BY <1>1 DEF ThumbLines
<1> HIDE DEF image, first, whole, w, h
<1> QED BY <1>5, <1>6, <1>7, <1>8 DEF Thumb, image

(* The serial program copies every thumbnail to its place.                 *)
LEMMA CreateBigImage ==
  ASSUME \A s \in Streams : scaled[s] = Thumb(s), NEW s \in Streams,
         NEW c \in 0 .. ThumbLines - 1, NEW e \in 0 .. ThumbLine - 1
  PROVE  create_big_image[Address(s, c, e)] = <<s, frame, c * ThumbLine + e>>
<1> DEFINE a == Address(s, c, e)
           L == scaled[0].width * NUM_CHANNELS
           h == scaled[0].height
           j(b) == (b \div L) % NUM_IMAGES_WIDTH
           k(b) == (b \div (L * NUM_IMAGES_WIDTH)) % h
           row(b) == b \div (L * NUM_IMAGES_WIDTH * h)
<1>1. L = ThumbLine /\ h = ThumbLines
  <2>1. 0 \in Streams
    BY Constants DEF Streams
  <2>2. scaled[0] = Thumb(0)
    BY <2>1
  <2> QED BY <2>2 DEF Thumb, ThumbLine
<1>2. create_big_image
        = [b \in 0 .. NumStreams * h * L - 1 |->
             scaled[row(b) * NUM_IMAGES_WIDTH + j(b)].data[k(b) * L + (b % L)]]
  BY DEF create_big_image
<1>3. NumStreams * h * L = ImageSize
  <2>1. \A p, q, r, t \in Nat : (p * q) * r * t = (q * r) * (p * t)
    BY Z3
  <2> QED BY <1>1, <2>1, Sizes DEF NumStreams
<1>4. /\ a \in 0 .. ImageSize - 1 /\ a % ThumbLine = e
      /\ (a \div ThumbLine) % NUM_IMAGES_WIDTH = s % NUM_IMAGES_WIDTH
      /\ (a \div (ThumbLine * NUM_IMAGES_WIDTH)) % ThumbLines = c
      /\ a \div (ThumbLine * NUM_IMAGES_WIDTH * ThumbLines) = s \div NUM_IMAGES_WIDTH
  <2> HIDE DEF a
  <2> QED BY AddressParts DEF a
<1> HIDE DEF a, L, h
<1>5. /\ j(a) = s % NUM_IMAGES_WIDTH /\ k(a) = c /\ row(a) = s \div NUM_IMAGES_WIDTH
      /\ a % L = e
  BY <1>1, <1>4
<1> HIDE DEF j, k, row
<1>6. create_big_image[a] = scaled[row(a) * NUM_IMAGES_WIDTH + j(a)].data[k(a) * L + (a % L)]
  BY <1>2, <1>3, <1>4
<1>7. row(a) * NUM_IMAGES_WIDTH + j(a) = s
  BY <1>5, StreamParts
<1>8. create_big_image[a] = Thumb(s).data[c * ThumbLine + e]
  BY <1>1, <1>5, <1>6, <1>7
<1> QED BY <1>8, ByteOfLine DEF Thumb, a

(* An SPU stores its thumbnail in its place, and touches no other.         *)
LEMMA StoreInPlace ==
  ASSUME NEW k \in Streams, StoreThumbnail(k), picture[k] = Thumb(k),
         big_image.width = Width, big_image.height = Height,
         DOMAIN big_image = {"width", "height", "data"},
         DOMAIN big_image.data = 0 .. ImageSize - 1,
         NEW s \in Streams, s = k \/ InPlace(s)
  PROVE  InPlace(s)'
<1> DEFINE L == picture[k].width * NUM_CHANNELS
           h == picture[k].height
           base(c) == base_dma_addr(k, c, picture[k])
           Lines(a) == {c \in 0 .. h - 1 : a - base(c) \in 0 .. L - 1}
           stored == [a \in DOMAIN big_image.data |->
              IF Lines(a) = {} THEN big_image.data[a]
              ELSE LET c == CHOOSE c \in Lines(a) : TRUE
                   IN  picture[k].data[c * L + a - base(c)]]
<1>1. big_image' = [big_image EXCEPT !.data = stored] /\ UNCHANGED frame
  BY DEF StoreThumbnail
<1>2. /\ L = ThumbLine /\ h = ThumbLines /\ picture[k].width = Width \div SCALE_FACTOR
      /\ ThumbLine \in Nat \ {0} /\ ThumbLines \in Nat \ {0}
  BY Sizes DEF Thumb, ThumbLine
<1> HIDE DEF L, h
<1>3. \A c \in 0 .. ThumbLines - 1, e \in 0 .. ThumbLine - 1 :
        base(c) \in Nat /\ base(c) + e = Address(k, c, e)
  <2> TAKE c \in 0 .. ThumbLines - 1, e \in 0 .. ThumbLine - 1
  <2>1. c \in Nat /\ e \in Nat
    OBVIOUS
  <2> QED BY <1>2, <2>1, AddressOfLine
<1> HIDE DEF base
<1>4. ASSUME NEW c \in 0 .. ThumbLines - 1, NEW e \in 0 .. ThumbLine - 1,
             NEW a, a = Address(s, c, e)
      PROVE  stored[a] = <<s, frame, c * ThumbLine + e>>
  <2>1. a \in 0 .. ImageSize - 1
    BY <1>4, AddressParts
  <2>2. ASSUME NEW d \in Lines(a)
        PROVE  s = k /\ d = c /\ a - base(d) = e
    <3> DEFINE f == a - base(d)
    <3>1. d \in 0 .. ThumbLines - 1 /\ f \in 0 .. ThumbLine - 1
      BY <1>2, <2>2
    <3>2. base(d) + f = a
      <4>1. base(d) \in Nat
        BY <1>3, <3>1
      <4> QED BY <2>1, <4>1
    <3> HIDE DEF f
    <3>3. Address(k, d, f) = Address(s, c, e)
      BY <1>3, <1>4, <3>1, <3>2
    <3>4. k = s /\ d = c /\ f = e
      BY <3>1, <3>3, AddressesApart
    <3> QED BY <3>4 DEF f
  <2>3. stored[a] = IF Lines(a) = {} THEN big_image.data[a]
              ELSE LET d == CHOOSE d \in Lines(a) : TRUE
                   IN  picture[k].data[d * L + a - base(d)]
    BY <2>1
  <2>4. CASE s # k
    <3>1. Lines(a) = {}
      BY <2>2, <2>4
    <3>2. big_image.data[a] = <<s, frame, c * ThumbLine + e>>
      BY <1>4, <2>4 DEF InPlace
    <3> HIDE DEF Lines
    <3> QED BY <2>3, <3>1, <3>2
  <2>5. CASE s = k
    <3>1. a = base(c) + e /\ base(c) \in Nat
      BY <1>3, <1>4, <2>5
    <3>2. c \in Lines(a)
      <4>1. a - base(c) = e
        BY <3>1
      <4> QED BY <1>2, <4>1
    <3> HIDE DEF Lines
    <3>3. (CHOOSE d \in Lines(a) : TRUE) = c
      <4>1. (CHOOSE d \in Lines(a) : TRUE) \in Lines(a)
        BY <3>2
      <4> QED BY <2>2, <4>1
    <3>4. stored[a] = picture[k].data[c * L + a - base(c)]
      BY <2>3, <3>2, <3>3
    <3>5. c * L + a - base(c) = c * ThumbLine + e
      <4>1. c * ThumbLine \in Nat
        BY <1>2, Z3
      <4> QED BY <1>2, <3>1, <4>1
    <3>6. stored[a] = Thumb(k).data[c * ThumbLine + e]
      BY <3>4, <3>5
    <3> HIDE DEF stored
    <3> QED BY <2>5, <3>6, ByteOfLine DEF Thumb
  <2> QED BY <2>4, <2>5
<1> HIDE DEF stored
<1>5. big_image'.data = stored
  BY <1>1
<1>6. ASSUME NEW c \in 0 .. ThumbLines - 1, NEW e \in 0 .. ThumbLine - 1
      PROVE  big_image'.data[Address(s, c, e)] = <<s, frame', c * ThumbLine + e>>
  BY <1>1, <1>4, <1>5
<1> QED BY <1>6 DEF InPlace

------------------------------------------------------------------------------
(* The thumbnails on their way: scaled by the serial program, made by an   *)
(* SPU or stored by it, and all in their places when the PPU writes.       *)
SPUMade(k) ==
  /\ spu[k] = "store" => picture[k] = Thumb(k)
  /\ spu[k] = "send" \/ spu_frame[k] = frame => InPlace(k)

PicturePlace ==
  /\ main = "scale" => \A s \in Streams : s < i => scaled[s] = Thumb(s)
  /\ main \in {"begin", "wait"} => \A k \in SPUs : SPUMade(k)
  /\ main = "write" => \A s \in Served : InPlace(s)

(* The bytes of a result file: of the one being written, as far as it is   *)
(* written, and of those before it.                                        *)
FileByte(n) ==
  IF n <= HeaderSize THEN <<Width, Height, MAX_COLOR, n>>
                     ELSE big_image.data[n - HeaderSize - 1]

BytesPlace ==
  main = "write" => \A n \in 1 .. Len(results[frame]) : results[frame][n] = FileByte(n)

ShownRight == \A f \in 1 .. frame - 1, s \in Served : Shown(f, s) = f

PreviewInv == ParalelInv /\ PicturePlace /\ BytesPlace /\ ShownRight

LEMMA InPlaceStays ==
  ASSUME NEW s, UNCHANGED <<big_image, frame>>, InPlace(s)
  PROVE  InPlace(s)'
BY DEF InPlace

LEMMA SPUMadeStays ==
  ASSUME NEW k, SPUMade(k), UNCHANGED <<big_image, frame>>,
         spu'[k] = spu[k], picture'[k] = picture[k], spu_frame'[k] = spu_frame[k]
  PROVE  SPUMade(k)'
<1>1. Thumb(k)' = Thumb(k)
  BY DEF Thumb
<1> QED BY <1>1, InPlaceStays DEF SPUMade

LEMMA PreviewInvInit == BothInit => PreviewInv
<1> SUFFICES ASSUME BothInit PROVE PreviewInv
  OBVIOUS
<1>1. main = "read" /\ frame = 1
  BY DEF BothInit, ParalelInit, PnmInit
<1>2. ShownRight
  BY <1>1 DEF ShownRight
<1> QED BY <1>1, <1>2, ParalelInvInit DEF PreviewInv, PicturePlace, BytesPlace

(* Who is served does not change.                                          *)
LEMMA ServedStays ==
  ASSUME [BothNext]_bothVars
  PROVE  UNCHANGED <<spu_threads, program>> /\ SPUs' = SPUs /\ Served' = Served
<1>1. UNCHANGED <<spu_threads, program>>
  <2>1. CASE RunSerial
    BY <2>1 DEF RunSerial, spuVars
  <2>2. CASE RunParalel /\ PPUStep
    BY <2>2 DEF RunParalel, PPUStep, ImagesRead, SendBegin, AllBegun, wait_spu_frame, FrameDone,
       spuVars
  <2>3. CASE RunParalel /\ \E k \in Streams : SPUStep(k)
    BY <2>3 DEF RunParalel, SPUStep, wait_for_begin, GetImage, StoreThumbnail, send_frame_done
  <2>4. CASE UNCHANGED bothVars \/ (RunParalel /\ ParalelEnded)
    BY <2>4 DEF RunParalel, ParalelEnded, bothVars, paralelVars, spuVars
  <2> QED BY <2>1, <2>2, <2>3, <2>4 DEF BothNext, ParalelNext
<1>2. SPUs' = SPUs
  BY <1>1 DEF SPUs
<1> QED BY <1>1, <1>2 DEF Served

------------------------------------------------------------------------------
(* A call of write appends the next bytes of the file.                     *)
LEMMA WritesNext ==
  ASSUME NEW B, NEW S, NEW m \in Nat, NEW bytes \in [1 .. m -> B], NEW r \in Seq(S),
         NEW at \in 0 .. m, NEW k \in 1 .. m - at,
         NEW n \in 1 .. Len(r) + k
  PROVE  (r \o SubSeq(bytes, at + 1, at + k))[n]
           = IF n <= Len(r) THEN r[n] ELSE bytes[at + n - Len(r)]
<1> DEFINE part == SubSeq(bytes, at + 1, at + k)
<1>1. /\ part \in Seq(B) /\ Len(part) = k
      /\ \A l \in 1 .. k : part[l] = bytes[at + l]
  <2> DEFINE from == at + 1
             to == at + k
  <2>1. from \in Int /\ to \in Int /\ from <= to /\ to - from + 1 = k
    OBVIOUS
  <2>2. \A l \in from .. to : bytes[l] \in B
    OBVIOUS
  <2>3. \A l \in 1 .. k : from + l - 1 = at + l
    OBVIOUS
  <2>4. part = SubSeq(bytes, from, to)
    OBVIOUS
  <2> HIDE DEF part, from, to
  <2>5. /\ part \in Seq(B) /\ Len(part) = k
        /\ \A l \in 1 .. to - from + 1 : part[l] = bytes[from + l - 1]
    BY <2>1, <2>2, <2>4, SubSeqProperties
  <2> QED BY <2>1, <2>3, <2>5
<1>2. r \in Seq(S \cup B) /\ part \in Seq(S \cup B)
  BY <1>1, SeqMonotonic
<1> DEFINE len == Len(r)
<1>3. len \in Nat
  BY LenProperties
<1> HIDE DEF part
<1>4. (r \o part)[n] = IF n <= len THEN r[n] ELSE part[n - len]
  BY <1>1, <1>2, ConcatProperties
<1>5. CASE n <= len
  BY <1>4, <1>5 DEF part
<1>6. CASE ~(n <= len)
  <2>1. n - len \in 1 .. k /\ at + (n - len) = at + n - len
    BY <1>3, <1>6
  <2>2. part[n - len] = bytes[at + (n - len)]
    BY <1>1, <2>1
  <2> HIDE DEF len
  <2>3. (r \o part)[n] = bytes[at + n - len]
    BY <1>4, <1>6, <2>1, <2>2
  <2> QED BY <1>6, <2>3 DEF part, len
<1> QED BY <1>5, <1>6

LEMMA WriteBytes ==
  ASSUME FileInv, BytesPlace, main = "write", io \in {"header", "pixels"},
         NEW m \in Nat, m = (IF io = "header" THEN HeaderSize ELSE ImageSize),
         NEW B, NEW bytes \in [1 .. m -> B], Write(bytes),
         \A l \in 1 .. m : bytes[l] = FileByte(IF io = "header" THEN l ELSE HeaderSize + l)
  PROVE  /\ BytesPlace' /\ UNCHANGED <<big_image, frame>>
         /\ \A f \in 1 .. NumFrames \ {frame} : results'[f] = results[f]
<1> DEFINE at == m - bytes_left
<1>1. Len(bytes) = m /\ frame \in 1 .. NumFrames
  BY WritesSome, SeqDef, LenProperties, Constants DEF FileInv, PnmTypeOK, ResultsPlace
<1>2. PICK S : results \in [1 .. NumFrames -> Seq(S)]
  BY DEF FileInv, ResultsPlace
<1>3. \/ \E n \in 1 .. bytes_left :
           /\ results' = [results EXCEPT ![frame] = @ \o SubSeq(bytes, at + 1, at + n)]
           /\ UNCHANGED <<main, frame, big_image>>
      \/ main' = "exited" /\ UNCHANGED <<frame, big_image, results>>
  BY <1>1 DEF Write, Exit
<1>4. CASE main' = "exited" /\ UNCHANGED <<frame, big_image, results>>
  BY <1>4 DEF BytesPlace
<1>5. ASSUME NEW n \in 1 .. bytes_left,
             results' = [results EXCEPT ![frame] = @ \o SubSeq(bytes, at + 1, at + n)],
             UNCHANGED <<main, frame, big_image>>
      PROVE  /\ BytesPlace'
             /\ \A f \in 1 .. NumFrames \ {frame} : results'[f] = results[f]
  <2> DEFINE r == results[frame]
             r2 == r \o SubSeq(bytes, at + 1, at + n)
             len == Len(r)
  <2>1. r \in Seq(S) /\ len \in Nat /\ len = IF io = "header" THEN at ELSE HeaderSize + at
    <3>1. r \in Seq(S) /\ len \in Nat
      BY <1>1, <1>2, LenProperties
    <3>2. len = Written(frame)
      BY <1>1 DEF FileInv, ResultsPlace
    <3>3. Written(frame) = IF io = "header" THEN at ELSE HeaderSize + at
      BY <1>1, Constants DEF Written, FileSize, FileInv, PnmTypeOK
    <3> QED BY <3>1, <3>2, <3>3
  <2>2. bytes_left \in 0 .. m /\ at \in 0 .. m /\ n \in 1 .. m - at
    <3>1. bytes_left \in 0 .. m
      BY Constants DEF FileInv, PnmTypeOK, ResultsPlace, ImageSize
    <3> QED BY <1>5, <3>1
  <2>3. Len(r2) = len + n
    <3>1. r \in Seq(S)
      BY <2>1
    <3> HIDE DEF r, at
    <3> QED BY <2>2, <3>1, WritesSome
  <2>4. ASSUME NEW l \in 1 .. Len(r2) PROVE r2[l] = FileByte(l)
    <3>1. l \in 1 .. len + n
      BY <2>3
    <3>2. r2[l] = IF l <= len THEN r[l] ELSE bytes[at + l - len]
      <4>1. r \in Seq(S) /\ l \in 1 .. Len(r) + n
        BY <2>1, <3>1
      <4> HIDE DEF r, at
      <4> QED BY <2>2, <4>1, WritesNext
    <3>3. CASE l <= len
      BY <2>1, <3>1, <3>2, <3>3 DEF BytesPlace
    <3>4. CASE ~(l <= len)
      <4> DEFINE p == at + l - len
      <4>1. p \in 1 .. m /\ l = IF io = "header" THEN p ELSE HeaderSize + p
        <5> HIDE DEF len, at
        <5> QED BY <2>1, <2>2, <3>1, <3>4, Constants
      <4>2. r2[l] = bytes[p]
        BY <3>2, <3>4
      <4> HIDE DEF p, r2
      <4> QED BY <4>1, <4>2
    <3> QED BY <3>3, <3>4
  <2>5. FileByte(0)' = FileByte(0) /\ \A l : FileByte(l)' = FileByte(l)
    BY <1>5 DEF FileByte
  <2>6. results'[frame] = r2 /\ \A f \in 1 .. NumFrames \ {frame} : results'[f] = results[f]
    BY <1>1, <1>2, <1>5
  <2> HIDE DEF r2
  <2> QED BY <1>5, <2>4, <2>5, <2>6 DEF BytesPlace
<1> QED BY <1>3, <1>4, <1>5

(* What the steps of the files do to the bytes written and to write.       *)
LEMMA FileStepBytes ==
  ASSUME FileInv, BytesPlace, FileStep
  PROVE  /\ BytesPlace' /\ UNCHANGED <<big_image, frame>>
         /\ \A f \in 1 .. NumFrames \ {frame} : results'[f] = results[f]
<1>1. ASSUME UNCHANGED <<big_image, frame, results>>, main' = main \/ main' = "exited"
      PROVE  BytesPlace'
  BY <1>1 DEF BytesPlace, FileByte
<1>2. CASE OpenInput \/ ReadType \/ ReadMaxColor \/ ReadData
  <2>1. UNCHANGED <<big_image, frame, results>> /\ (main' = main \/ main' = "exited")
    BY <1>2 DEF OpenInput, ReadType, ReadMaxColor, ReadData, Exit
  <2> QED BY <1>1, <2>1
<1>3. CASE ReadSize("width", "height") \/ ReadSize("height", "max_color")
  <2>1. UNCHANGED <<big_image, frame, results>> /\ (main' = main \/ main' = "exited")
    BY <1>3 DEF ReadSize, Exit
  <2> QED BY <1>1, <2>1
<1>4. CASE CloseInput \/ HeaderWritten
  <2>1. UNCHANGED <<big_image, frame, results>> /\ (main' = main \/ main' = "exited")
    BY <1>4 DEF CloseInput, HeaderWritten
  <2> QED BY <1>1, <2>1
<1>5. CASE CreateResult
  <2>1. CASE Exit
    <3>1. UNCHANGED <<big_image, frame, results>> /\ main' = "exited"
      BY <2>1 DEF Exit
    <3> QED BY <1>1, <3>1
  <2>2. CASE results' = [results EXCEPT ![frame] = <<>>] /\ UNCHANGED <<frame, big_image>>
    <3>1. frame \in 1 .. NumFrames /\ DOMAIN results = 1 .. NumFrames
      BY <1>5, Constants DEF FileInv, PnmTypeOK, ResultsPlace, CreateResult
    <3>2. /\ results'[frame] = <<>>
          /\ \A f \in 1 .. NumFrames \ {frame} : results'[f] = results[f]
      BY <2>2, <3>1
    <3>3. BytesPlace'
      BY <2>2, <3>2 DEF BytesPlace
    <3> QED BY <2>2, <3>2, <3>3
  <2> QED BY <1>5, <2>1, <2>2 DEF CreateResult
<1>6. CASE WriteHeader \/ WritePixels
  <2>1. main = "write" /\ big_image.width = Width /\ big_image.height = Height
    BY <1>6 DEF WriteHeader, WritePixels, FileInv, ImagesPlace
  <2>2. CASE WriteHeader
    <3> DEFINE bytes == Header(big_image)
               B == {bytes[n] : n \in 1 .. HeaderSize}
    <3>1. bytes \in [1 .. HeaderSize -> B]
      BY DEF Header
    <3>2. io = "header" /\ Write(bytes)
      BY <2>2 DEF WriteHeader
    <3>3. \A l \in 1 .. HeaderSize : bytes[l] = FileByte(l)
      BY <2>1, Constants DEF Header, FileByte
    <3> HIDE DEF bytes, B
    <3> QED BY <2>1, <3>1, <3>2, <3>3, Constants, WriteBytes
  <2>3. CASE WritePixels
    <3> DEFINE bytes == Pixels(big_image)
               B == {bytes[n] : n \in 1 .. ImageSize}
    <3>1. bytes \in [1 .. ImageSize -> B]
      BY <2>1 DEF Pixels, ImageSize
    <3>2. io = "pixels" /\ Write(bytes)
      BY <2>3 DEF WritePixels
    <3>3. ASSUME NEW l \in 1 .. ImageSize PROVE bytes[l] = FileByte(HeaderSize + l)
      <4> DEFINE n == HeaderSize + l
      <4>1. ~(n <= HeaderSize) /\ n - HeaderSize - 1 = l - 1
        BY Constants
      <4>2. bytes[l] = big_image.data[l - 1]
        BY <2>1 DEF Pixels, ImageSize
      <4> HIDE DEF bytes, n
      <4>3. FileByte(n) = big_image.data[n - HeaderSize - 1]
        BY <4>1, Zenon DEF FileByte
      <4>4. bytes[l] = FileByte(n)
        BY <4>1, <4>2, <4>3
      <4> QED BY <4>4 DEF n
    <3> HIDE DEF bytes, B
    <3> QED BY <2>1, <3>1, <3>2, <3>3, Constants, WriteBytes
  <2> QED BY <1>6, <2>2, <2>3
<1> QED BY <1>2, <1>3, <1>4, <1>5, <1>6, <1>1 DEF FileStep, OpenInput, ReadType, ReadMaxColor, ReadData,
        ReadSize, CloseInput, HeaderWritten, Exit

------------------------------------------------------------------------------
LEMMA ServedAreStreams == ParalelInv => Served \subseteq Streams
<1>1. ParalelInv => spu_threads \in 0 .. NumStreams
  BY TypesAre DEF ParalelInv, SPUTypes
<1> QED BY <1>1, Constants DEF Served, SPUs, Streams

(* What a result file shows depends on its bytes alone.                    *)
LEMMA ShownStays ==
  ASSUME NEW f, NEW s, results'[f] = results[f]
  PROVE  Shown(f, s)' = Shown(f, s)
BY DEF Shown

(* The file that is whole shows its frame.                                 *)
LEMMA FrameShown ==
  ASSUME PreviewInv, main = "write", io = "pixels", bytes_left = 0, NEW s \in Served
  PROVE  Shown(frame, s) = frame
<1> DEFINE r == results[frame]
           len == Len(r)
<1>1. /\ FileInv /\ s \in Streams /\ InPlace(s) /\ frame \in 1 .. NumFrames
  BY ServedAreStreams, Constants
     DEF PreviewInv, ParalelInv, PicturePlace, FileInv, PnmTypeOK, ResultsPlace
<1>2. len = HeaderSize + ImageSize
  <2>1. len = Written(frame)
    BY <1>1 DEF FileInv, ResultsPlace
  <2> QED BY <1>1, <2>1, Constants DEF Written, FileSize
<1>3. \A n \in 1 .. len : r[n] = FileByte(n)
  BY DEF PreviewInv, BytesPlace
<1>4. SubSeq(r, 1, HeaderSize) = Header([width |-> Width, height |-> Height])
  <2> DEFINE head == SubSeq(r, 1, HeaderSize)
             h == Header([width |-> Width, height |-> Height])
  <2>1. PICK S : results \in [1 .. NumFrames -> Seq(S)]
    BY <1>1 DEF FileInv, ResultsPlace
  <2>2. r \in Seq(S) /\ \A n \in 1 .. HeaderSize : r[n] \in S /\ r[n] = FileByte(n)
    <3>1. r \in Seq(S)
      BY <1>1, <2>1
    <3>2. \A n \in 1 .. HeaderSize : n \in 1 .. len
      BY <1>2, Constants
    <3>3. r \in [1 .. len -> S]
      BY <3>1, LenProperties
    <3> HIDE DEF r, len
    <3> QED BY <1>3, <3>1, <3>2, <3>3
  <2>3. /\ head \in Seq(S) /\ Len(head) = HeaderSize
        /\ \A n \in 1 .. HeaderSize : head[n] = r[n]
    <3>1. 1 \in Int /\ HeaderSize \in Int /\ 1 <= HeaderSize /\ HeaderSize - 1 + 1 = HeaderSize
      BY Constants
    <3>2. \A n \in 1 .. HeaderSize : 1 + n - 1 = n
      OBVIOUS
    <3> HIDE DEF r
    <3>3. /\ head \in Seq(S) /\ Len(head) = HeaderSize
          /\ \A n \in 1 .. HeaderSize - 1 + 1 : head[n] = r[1 + n - 1]
      BY <2>2, <3>1, SubSeqProperties
    <3> QED BY <3>1, <3>2, <3>3
  <2>4. head \in [1 .. HeaderSize -> S]
    <3> HIDE DEF head
    <3> QED BY <2>3, LenProperties
  <2>5. h = [n \in 1 .. HeaderSize |-> <<Width, Height, MAX_COLOR, n>>]
    BY DEF Header
  <2>6. ASSUME NEW n \in 1 .. HeaderSize PROVE head[n] = h[n]
    <3>1. n <= HeaderSize
      OBVIOUS
    <3>2. FileByte(n) = <<Width, Height, MAX_COLOR, n>>
      BY <3>1, Zenon DEF FileByte
    <3> HIDE DEF head, r, h
    <3> QED BY <2>2, <2>3, <2>5, <3>2
  <2> HIDE DEF head
  <2> QED BY <2>4, <2>5, <2>6 DEF head
<1>5. ASSUME NEW b \in 0 .. Size(Width \div SCALE_FACTOR, Height \div SCALE_FACTOR) - 1
      PROVE  r[PlaceInFile(s, b)] = <<s, frame, b>>
  <2>1. PICK c \in 0 .. ThumbLines - 1, e \in 0 .. ThumbLine - 1 :
          /\ b = c * ThumbLine + e
          /\ PlaceInFile(s, b) = HeaderSize + 1 + Address(s, c, e)
    BY <1>1, AddressInFile
  <2> DEFINE a == Address(s, c, e)
             n == HeaderSize + 1 + a
  <2>2. a \in 0 .. ImageSize - 1
    BY <1>1, AddressParts
  <2>3. big_image.data[a] = <<s, frame, b>>
    BY <1>1, <2>1 DEF InPlace
  <2> HIDE DEF a
  <2>4. n \in 1 .. len /\ ~(n <= HeaderSize) /\ n - HeaderSize - 1 = a
    <3> HIDE DEF len
    <3> QED BY <1>2, <2>2, Constants
  <2>5. PlaceInFile(s, b) = n
    BY <2>1 DEF a
  <2> HIDE DEF n
  <2>6. FileByte(n) = big_image.data[n - HeaderSize - 1]
    BY <2>4, Zenon DEF FileByte
  <2>7. r[n] = FileByte(n)
    BY <1>3, <2>4
  <2> QED BY <2>3, <2>4, <2>5, <2>6, <2>7
<1> QED BY <1>2, <1>4, <1>5 DEF Shown, ImageSize

------------------------------------------------------------------------------
(* The steps, as far as the thumbnails go.                                 *)
LEMMA FileStepPreview ==
  ASSUME PreviewInv, ParalelInv', [BothNext]_bothVars, FileStep
  PROVE  PreviewInv'
<1>1. FileInv /\ frame \in Nat /\ frame - 1 <= NumFrames
  BY Constants DEF PreviewInv, ParalelInv, FileInv, PnmTypeOK
<1>2. /\ main \in {"read", "write"} /\ main' \in {main, "exited"}
  BY <1>1, FileStepEffect
<1>3. /\ BytesPlace' /\ UNCHANGED <<big_image, frame>>
      /\ \A f \in 1 .. NumFrames \ {frame} : results'[f] = results[f]
  BY <1>1, FileStepBytes DEF PreviewInv
<1>4. PicturePlace'
  <2>1. main' = "write" => \A s \in Served : InPlace(s)'
    BY <1>2, <1>3, InPlaceStays DEF PreviewInv, PicturePlace
  <2> QED BY <1>2, <2>1, ServedStays DEF PicturePlace
<1>5. ShownRight'
  <2> SUFFICES ASSUME NEW f \in 1 .. frame - 1, NEW s \in Served
               PROVE  Shown(f, s)' = f
    BY <1>3, ServedStays DEF ShownRight
  <2>1. f \in 1 .. NumFrames \ {frame}
    BY <1>1, Constants
  <2> QED BY <1>3, <2>1, ShownStays DEF PreviewInv, ShownRight
<1> QED BY <1>3, <1>4, <1>5 DEF PreviewInv

LEMMA EndFramePreview ==
  ASSUME PreviewInv, ParalelInv', [BothNext]_bothVars,
         NEW last \in {"join", "done"}, EndFrame(last)
  PROVE  PreviewInv'
<1>1. /\ main = "write" /\ io = "pixels" /\ bytes_left = 0
      /\ frame' = frame + 1 /\ main' \in {"read", last} /\ UNCHANGED results
      /\ frame \in Nat
  BY Constants DEF EndFrame, PreviewInv, ParalelInv, FileInv, PnmTypeOK
<1>2. ASSUME NEW f \in 1 .. frame, NEW s \in Served PROVE Shown(f, s)' = f
  <2>1. Shown(f, s) = f
    <3>1. CASE f = frame
      BY <1>1, <3>1, FrameShown
    <3>2. CASE f # frame
      BY <1>1, <3>2 DEF PreviewInv, ShownRight
    <3> QED BY <3>1, <3>2
  <2> QED BY <1>1, <2>1, ShownStays
<1>3. ShownRight'
  <2>1. frame' - 1 = frame
    BY <1>1
  <2> QED BY <1>2, <2>1, ServedStays DEF ShownRight
<1> QED BY <1>1, <1>3 DEF PreviewInv, PicturePlace, BytesPlace

(* A step that leaves the files alone.                                     *)
LEMMA WorkPreview ==
  ASSUME PreviewInv, ParalelInv', [BothNext]_bothVars, UNCHANGED <<frame, results>>,
         main' = "write" => io' = "closed", PicturePlace'
  PROVE  PreviewInv'
<1>1. BytesPlace'
  <2> SUFFICES ASSUME main' = "write" PROVE Len(results'[frame']) = 0
    BY DEF BytesPlace
  <2>1. io' = "closed"
    OBVIOUS
  <2>2. frame' \in 1 .. NumFrames
    BY Constants DEF ParalelInv, FileInv, PnmTypeOK, ResultsPlace
  <2>3. Len(results'[frame']) = Written(frame)'
    BY <2>2 DEF ParalelInv, FileInv, ResultsPlace
  <2> QED BY <2>1, <2>2, <2>3 DEF Written
<1>2. ShownRight'
  BY ServedStays, ShownStays DEF ShownRight, PreviewInv
<1> QED BY <1>1, <1>2 DEF PreviewInv

LEMMA StutterPreview ==
  ASSUME PreviewInv, UNCHANGED bothVars
  PROVE  PreviewInv'
<1>1. UNCHANGED <<main, frame, i, io, big_image, results, scaled,
                  program, spu_threads, spu, spu_frame, picture>>
  BY DEF bothVars, paralelVars, pnmVars, spuVars
<1>2. ParalelInv'
  BY StutterKeeps DEF PreviewInv
<1>3. PicturePlace'
  BY <1>1 DEF PreviewInv, PicturePlace, SPUMade, InPlace, Thumb, Served, SPUs
<1>4. BytesPlace'
  BY <1>1 DEF PreviewInv, BytesPlace, FileByte
<1>5. ShownRight'
  BY <1>1, ServedStays, ShownStays DEF PreviewInv, ShownRight
<1> QED BY <1>2, <1>3, <1>4, <1>5 DEF PreviewInv

LEMMA SerialPreview ==
  ASSUME PreviewInv, ParalelInv', BothNext, RunSerial, SerialNext
  PROVE  PreviewInv'
<1>1. /\ program = "serial" /\ FileInv /\ DOMAIN scaled = Streams
  BY DEF RunSerial, PreviewInv, ParalelInv, ParalelPlace
<1>2. CASE FileStep
  BY <1>2, FileStepPreview
<1>3. CASE EndFrame("done")
  BY <1>3, EndFramePreview
<1>4. CASE InputRead
  <2>1. main' = "scale" /\ i' = 0 /\ UNCHANGED <<frame, results>>
    BY <1>4 DEF InputRead
  <2>2. PicturePlace'
    BY <2>1 DEF PicturePlace, Streams
  <2> QED BY <2>1, <2>2, WorkPreview
<1>5. CASE ScaleImage
  <2>1. main = "scale" /\ i \in Streams /\ UNCHANGED <<frame, results>>
        /\ input = [s \in Streams |-> Whole(s)]
    BY <1>1, <1>5, Constants
       DEF ScaleImage, Exit, FileInv, ImagesPlace, ScaledPlace, Streams
  <2>2. CASE main' = "exited"
    BY <2>1, <2>2, WorkPreview DEF PicturePlace
  <2>3. CASE scaled' = [scaled EXCEPT ![i] = Thumbnail(input[i])] /\ i' = i + 1
             /\ UNCHANGED main
    <3>1. Thumbnail(input[i]) = Thumb(i)
      BY <2>1, ThumbnailOfWhole
    <3>2. ASSUME NEW s \in Streams, s < i' PROVE scaled'[s] = Thumb(s)'
      <4>1. s = i \/ s < i
        BY <2>1, <2>3, <3>2, Constants DEF Streams
      <4>2. Thumb(s)' = Thumb(s)
        BY <2>1 DEF Thumb
      <4>3. CASE s = i
        BY <1>1, <2>3, <3>1, <4>2, <4>3
      <4>4. CASE s # i
        BY <1>1, <2>1, <2>3, <4>1, <4>2, <4>4 DEF PreviewInv, PicturePlace
      <4> QED BY <4>3, <4>4
    <3>3. PicturePlace'
      BY <2>1, <2>3, <3>2 DEF PicturePlace
    <3> QED BY <2>1, <2>3, <3>3, WorkPreview
  <2> QED BY <1>5, <2>2, <2>3 DEF ScaleImage, Exit
<1>6. CASE AllScaled
  <2>1. main = "scale" /\ i = NumStreams /\ UNCHANGED <<frame, results>> /\ io' = "closed"
    BY <1>1, <1>6 DEF AllScaled, Exit, FileInv, ImagesPlace
  <2>2. CASE main' = "exited"
    BY <2>1, <2>2, WorkPreview DEF PicturePlace
  <2>3. CASE big_image'.data = create_big_image /\ main' = "write"
    <3>1. \A s \in Streams : scaled[s] = Thumb(s)
      <4>1. \A s \in Streams : s < i
        BY <2>1, Constants DEF Streams
      <4> QED BY <2>1, <4>1 DEF PreviewInv, PicturePlace
    <3>2. ASSUME NEW s \in Streams PROVE InPlace(s)'
      <4>1. \A c \in 0 .. ThumbLines - 1, e \in 0 .. ThumbLine - 1 :
              big_image'.data[Address(s, c, e)] = <<s, frame', c * ThumbLine + e>>
        BY <2>1, <2>3, <3>1, CreateBigImage
      <4> QED BY <4>1 DEF InPlace
    <3>3. Served' = Streams
      BY <1>1, ServedStays DEF Served
    <3>4. PicturePlace'
      BY <2>3, <3>2, <3>3 DEF PicturePlace
    <3> QED BY <2>1, <3>4, WorkPreview
  <2>4. \/ big_image' = [width |-> scaled[0].width * NUM_IMAGES_WIDTH,
                         height |-> scaled[0].height * NUM_IMAGES_HEIGHT,
                         data |-> create_big_image] /\ main' = "write"
        \/ main' = "exited"
    BY <1>6 DEF AllScaled, Exit
  <2>5. ASSUME NEW data, NEW w, NEW h,
               big_image' = [width |-> w, height |-> h, data |-> data]
        PROVE  big_image'.data = data
    BY <2>5
  <2> QED BY <2>2, <2>3, <2>4, <2>5
<1>7. CASE SerialEnded
  <2>1. UNCHANGED bothVars
    BY <1>7 DEF SerialEnded, serialVars, pnmVars, bothVars, paralelVars, RunSerial
  <2> QED BY <2>1, StutterPreview
<1> QED BY <1>2, <1>3, <1>4, <1>5, <1>6, <1>7 DEF SerialNext, SerialStep

LEMMA PPUPreview ==
  ASSUME PreviewInv, ParalelInv', BothNext, RunParalel, PPUStep
  PROVE  PreviewInv'
<1>1. /\ program = "paralel" /\ ParalelInv /\ SPUs' = SPUs /\ Served = SPUs
      /\ Served' = SPUs
  BY ServedStays DEF RunParalel, PreviewInv, Served
<1>2. CASE FileStep
  BY <1>2, FileStepPreview
<1>3. CASE EndFrame("join")
  BY <1>3, EndFramePreview
<1>4. CASE ImagesRead
  <2>1. main = "read" /\ main' \in {"begin", "exited"} /\ UNCHANGED <<frame, results, spuVars>>
    BY <1>4 DEF ImagesRead, Exit
  <2>2. ASSUME NEW k \in SPUs PROVE SPUMade(k)'
    <3>1. Idle(k, frame - 1)
      BY <1>1, <2>1, ParalelIs DEF SPUPlace
    <3>2. frame - 1 # frame
      BY <1>1, ParalelIs
    <3> QED BY <2>1, <3>1, <3>2 DEF Idle, SPUMade, spuVars
  <2>3. PicturePlace'
    BY <1>1, <2>1, <2>2 DEF PicturePlace
  <2> QED BY <2>1, <2>3, WorkPreview
<1>5. CASE SendBegin \/ AllBegun \/ wait_spu_frame
  <2>1. /\ main \in {"begin", "wait"} /\ main' \in {"begin", "wait", "exited"}
        /\ UNCHANGED <<frame, results, big_image, spu, picture, spu_frame>>
    BY <1>5 DEF SendBegin, AllBegun, wait_spu_frame, Exit, spuVars
  <2>2. \A k \in SPUs : SPUMade(k)'
    BY <2>1, SPUMadeStays DEF PreviewInv, PicturePlace
  <2>3. PicturePlace'
    BY <1>1, <2>1, <2>2 DEF PicturePlace
  <2> QED BY <2>1, <2>3, WorkPreview
<1>6. CASE FrameDone
  <2>1. /\ main = "wait" /\ main' = "write" /\ UNCHANGED <<frame, io, results, big_image, spuVars>>
    BY <1>6 DEF FrameDone, ioVars
  <2>2. io' = "closed"
    BY <1>1, <2>1 DEF ParalelInv, FileInv, ImagesPlace
  <2>3. ASSUME NEW k \in SPUs PROVE InPlace(k)'
    <3>1. Idle(k, frame)'
      BY <1>1, <2>1 DEF ParalelInv, ParalelPlace, SPUPlace, RunParalel
    <3>2. spu_frame[k] = frame
      BY <2>1, <3>1 DEF Idle, spuVars
    <3>3. InPlace(k)
      BY <2>1, <3>2 DEF PreviewInv, PicturePlace, SPUMade
    <3> QED BY <2>1, <3>3, InPlaceStays
  <2>4. PicturePlace'
    BY <1>1, <2>1, <2>3 DEF PicturePlace
  <2> QED BY <2>1, <2>2, <2>4, WorkPreview
<1> QED BY <1>2, <1>3, <1>4, <1>5, <1>6 DEF PPUStep

LEMMA SPUPreview ==
  ASSUME PreviewInv, ParalelInv', BothNext, RunParalel, NEW k \in Streams, SPUStep(k)
  PROVE  PreviewInv'
<1>1. /\ program = "paralel" /\ ParalelInv /\ SPUs' = SPUs
      /\ k \in SPUs /\ main # "exited" /\ SPUs \subseteq Streams
  BY ServedStays, ServedAreStreams DEF RunParalel, PreviewInv, SPUStep, Served
<1>2. /\ AtWork(k) /\ main \in {"begin", "wait"}
      /\ UNCHANGED <<main, frame, results, input>>
  <2>1. CASE wait_for_begin(k)
    BY <1>1, <2>1, OnlyAtWork DEF wait_for_begin, pnmVars, ioVars
  <2>2. CASE GetImage(k)
    BY <1>1, <2>2, OnlyAtWork DEF GetImage, pnmVars, ioVars
  <2>3. CASE StoreThumbnail(k)
    BY <1>1, <2>3, OnlyAtWork DEF StoreThumbnail
  <2>4. CASE send_frame_done(k)
    BY <1>1, <2>4, OnlyAtWork DEF send_frame_done, pnmVars, ioVars
  <2> QED BY <2>1, <2>2, <2>3, <2>4 DEF SPUStep
<1>3. /\ \A j \in SPUs : SPUMade(j)
      /\ spu_frame[k] # frame /\ frame \in Nat
      /\ DOMAIN spu = SPUs /\ DOMAIN spu_frame = SPUs /\ DOMAIN picture = SPUs
  <2>1. frame - 1 # frame /\ frame \in Nat
    BY <1>1, ParalelIs
  <2> QED BY <1>1, <1>2, <2>1, ParalelIs DEF PreviewInv, PicturePlace, AtWork, SPUTypes
<1>4. ASSUME \A j \in SPUs : SPUMade(j)' PROVE PreviewInv'
  <2>1. PicturePlace'
    BY <1>1, <1>2, <1>4 DEF PicturePlace
  <2> QED BY <1>2, <2>1, WorkPreview
<1>5. ASSUME UNCHANGED big_image, SPUMade(k)',
             \A j \in SPUs \ {k} : /\ spu'[j] = spu[j] /\ picture'[j] = picture[j]
                                   /\ spu_frame'[j] = spu_frame[j]
      PROVE  PreviewInv'
  BY <1>2, <1>3, <1>4, <1>5, SPUMadeStays
<1>6. CASE wait_for_begin(k)
  <2>1. spu' = [spu EXCEPT ![k] = "get"] /\ UNCHANGED <<big_image, picture, spu_frame>>
    BY <1>6 DEF wait_for_begin, pnmVars
  <2>2. SPUMade(k)'
    BY <1>1, <1>2, <1>3, <2>1 DEF SPUMade
  <2> QED BY <1>3, <1>5, <2>1, <2>2
<1>7. CASE GetImage(k)
  <2>1. /\ picture' = [picture EXCEPT ![k] = Thumbnail(input[k])]
        /\ spu' = [spu EXCEPT ![k] = "store"] /\ UNCHANGED <<big_image, spu_frame>>
    BY <1>7 DEF GetImage, pnmVars
  <2>2. input = [s \in Streams |-> Whole(s)]
    BY <1>1, <1>2 DEF ParalelInv, FileInv, ImagesPlace
  <2>3. Thumbnail(input[k]) = Thumb(k)
    BY <2>2, ThumbnailOfWhole
  <2>4. picture'[k] = Thumb(k)' /\ spu'[k] = "store"
    <3>1. Thumb(k)' = Thumb(k)
      BY <1>2 DEF Thumb
    <3> QED BY <1>1, <1>3, <2>1, <2>3, <3>1
  <2>5. SPUMade(k)'
    BY <1>2, <1>3, <2>1, <2>4 DEF SPUMade
  <2> QED BY <1>3, <1>5, <2>1, <2>5
<1>8. CASE StoreThumbnail(k)
  <2>1. PICK data : /\ big_image = [width |-> Width, height |-> Height, data |-> data]
                    /\ DOMAIN data = 0 .. ImageSize - 1
    BY <1>1, <1>2 DEF ParalelInv, FileInv, ImagesPlace
  <2>2. /\ big_image.width = Width /\ big_image.height = Height
        /\ DOMAIN big_image = {"width", "height", "data"}
        /\ DOMAIN big_image.data = 0 .. ImageSize - 1
    BY <2>1
  <2>3. /\ spu[k] = "store" /\ spu' = [spu EXCEPT ![k] = "send"]
        /\ picture' = [picture EXCEPT ![k] = NoImage] /\ UNCHANGED spu_frame
    BY <1>8 DEF StoreThumbnail
  <2>4. picture[k] = Thumb(k)
    BY <1>1, <1>3, <2>3 DEF SPUMade
  <2>5. \A s \in Streams : s = k \/ InPlace(s) => InPlace(s)'
    BY <1>8, <2>2, <2>4, StoreInPlace
  <2>6. ASSUME NEW j \in SPUs PROVE SPUMade(j)'
    <3>1. CASE j = k
      BY <1>1, <1>3, <2>3, <2>5, <3>1 DEF SPUMade
    <3>2. CASE j # k
      <4>1. spu'[j] = spu[j] /\ picture'[j] = picture[j] /\ spu_frame'[j] = spu_frame[j]
            /\ SPUMade(j) /\ j \in Streams
        BY <1>1, <1>3, <2>3, <3>2
      <4>2. Thumb(j)' = Thumb(j)
        BY <1>2 DEF Thumb
      <4> QED BY <1>2, <2>5, <4>1, <4>2 DEF SPUMade
    <3> QED BY <3>1, <3>2
  <2> QED BY <1>4, <2>6
<1>9. CASE send_frame_done(k)
  <2>1. /\ spu[k] = "send" /\ spu_frame' = [spu_frame EXCEPT ![k] = @ + 1]
        /\ UNCHANGED <<big_image, picture>>
        /\ \E next \in {"wait", "ended"} : spu' = [spu EXCEPT ![k] = next]
    BY <1>9 DEF send_frame_done, pnmVars
  <2>2. InPlace(k)' /\ spu'[k] # "store"
    BY <1>1, <1>2, <1>3, <2>1, InPlaceStays DEF SPUMade
  <2>3. SPUMade(k)'
    BY <2>2 DEF SPUMade
  <2> QED BY <1>3, <1>5, <2>1, <2>3
<1> QED BY <1>6, <1>7, <1>8, <1>9 DEF SPUStep

LEMMA PreviewInvStep == PreviewInv /\ [BothNext]_bothVars => PreviewInv'
<1> SUFFICES ASSUME PreviewInv, [BothNext]_bothVars PROVE PreviewInv'
  OBVIOUS
<1>1. ParalelInv'
  BY ParalelInvStep DEF PreviewInv
<1>2. CASE RunParalel /\ ParalelEnded
  <2>1. UNCHANGED bothVars
    BY <1>2 DEF ParalelEnded, RunParalel, bothVars
  <2> QED BY <2>1, StutterPreview
<1> QED BY <1>1, <1>2, SerialPreview, PPUPreview, SPUPreview, StutterPreview
        DEF BothNext, ParalelNext

LEMMA PreviewInvAlways == BothSpec => []PreviewInv
BY PreviewInvInit, PreviewInvStep, PTL DEF BothSpec

(* A step goes on with the frame, fails in it, or ends it.                 *)
LEMMA StepKinds ==
  ASSUME ParalelInv, [BothNext]_bothVars
  PROVE  \/ UNCHANGED frame /\ (main' = "exited" <=> main = "exited")
         \/ UNCHANGED frame /\ main' = "exited" /\ main # "exited" /\ frame <= NumFrames
         \/ frame' = frame + 1 /\ main' # "exited" /\ main # "exited" /\ frame <= NumFrames
<1>1. FileInv /\ (main \notin {"join", "done"} => frame <= NumFrames)
  BY DEF ParalelInv, FileInv, ResultsPlace
<1>2. CASE FileStep
  BY <1>1, <1>2, FileStepEffect
<1>3. CASE EndFrame("done") \/ EndFrame("join")
  BY <1>1, <1>3 DEF EndFrame
<1>4. CASE InputRead \/ ScaleImage \/ AllScaled
  BY <1>1, <1>4 DEF InputRead, ScaleImage, AllScaled, Exit
<1>5. CASE ImagesRead \/ SendBegin \/ AllBegun \/ wait_spu_frame \/ FrameDone
  BY <1>1, <1>5 DEF ImagesRead, SendBegin, AllBegun, wait_spu_frame, FrameDone, Exit
<1>6. CASE \E k \in Streams : SPUStep(k)
  BY <1>6 DEF SPUStep, wait_for_begin, GetImage, StoreThumbnail, send_frame_done, pnmVars
<1>7. CASE UNCHANGED bothVars \/ ParalelEnded \/ SerialEnded
  BY <1>7 DEF bothVars, ParalelEnded, SerialEnded, paralelVars, serialVars, pnmVars
<1> QED BY <1>2, <1>3, <1>4, <1>5, <1>6, <1>7
        DEF BothNext, SerialNext, SerialStep, ParalelNext, PPUStep

------------------------------------------------------------------------------
(* The counters and the boxes stay within their bounds, and the memory of  *)
(* an image is that of its width and height (pnm.c:36-46).                 *)
THEOREM ParalelTyped == BothSpec => []ParalelTypeOK
<1>1. ParalelInv => ParalelTypeOK
  BY DEF ParalelInv
<1> QED BY <1>1, ParalelInvAlways, PTL

(* However reads cut the files into pieces and whatever is wrong with      *)
(* them, in either program only whole images are scaled, every byte from   *)
(* its own file (pnm.c:109-119).                                           *)
THEOREM ImagesReadWhole == BothSpec => []ReadWhole
<1>1. ASSUME ParalelInv, main \in {"begin", "scale"}, NEW s \in Streams
      PROVE  input[s].data = [b \in 0 .. ImageSize - 1 |-> <<s, frame, b>>]
  <2>1. input[s] = Whole(s)
    BY <1>1 DEF ParalelInv, FileInv, ImagesPlace
  <2> QED BY <2>1 DEF Whole
<1>2. ParalelInv /\ main = "exited" /\ io = "data" => file.bytes < ImageSize
  BY DEF ParalelInv, FileInv, ExitPlace
<1>3. ParalelInv => ReadWhole
  BY <1>1, <1>2 DEF ReadWhole, ImageSize
<1> QED BY <1>3, ParalelInvAlways, PTL

(* However the writes cut it and wherever one fails, a result file that is *)
(* short is the one the program is at (pnm.c:139-146).                     *)
THEOREM TornOnlyAtTheEnd == BothSpec => []OnlyLastTorn
<1>1. ASSUME ParalelInv, NEW f \in 1 .. NumFrames,
             results[f] # <<>>, Len(results[f]) < HeaderSize + ImageSize
      PROVE  f = frame /\ main \in {"write", "exited"}
  <2>1. PICK S : results \in [1 .. NumFrames -> Seq(S)]
    BY <1>1 DEF ParalelInv, FileInv, ResultsPlace
  <2>2. Len(results[f]) # 0
    BY <1>1, <2>1, EmptySeq
  <2>3. (main = "exited" /\ f = frame) \/ Len(results[f]) = Written(f)
    BY <1>1 DEF ParalelInv, FileInv, ResultsPlace
  <2>4. CASE Len(results[f]) = Written(f)
    BY <1>1, <2>2, <2>4 DEF Written, FileSize
  <2> QED BY <2>3, <2>4
<1>2. ParalelInv => OnlyLastTorn
  BY <1>1 DEF OnlyLastTorn, ImageSize
<1> QED BY <1>2, ParalelInvAlways, PTL

(* For any number of SPUs and any depth of the mailbox, the BEGIN that is  *)
(* written without looking at the result finds room (paralel.c:90-101).    *)
THEOREM BeginsArrive == BothSpec => []BeginNeverDropped
<1>1. ASSUME ParalelInv, main = "begin", NEW k \in i .. spu_threads - 1
      PROVE  in_mbox[k] = 0
  <2>1. program = "paralel"
    BY <1>1 DEF ParalelInv, ParalelPlace
  <2>2. k \in SPUs /\ ~(k < i)
    BY <1>1, <2>1, ParalelIs DEF LoopPlace
  <2> QED BY <1>1, <2>1, <2>2, ParalelIs DEF SPUPlace, Idle
<1>2. ParalelInv => BeginNeverDropped
  BY <1>1 DEF BeginNeverDropped
<1> QED BY <1>2, ParalelInvAlways, PTL

(* An SPU that is at work is at work on the frame the PPU is at, and the   *)
(* images it reads and writes are there (paralel.c:75-114).                *)
THEOREM SPUsKeepInside == BothSpec => []SPUsInsideFrame
<1>1. ASSUME ParalelInv, NEW k \in SPUs, spu[k] \in {"get", "store", "send"},
             main # "exited"
      PROVE  main \in {"begin", "wait"} /\ input[k] # NoImage /\ spu_frame[k] = frame - 1
  <2>1. program = "paralel"
    BY <1>1 DEF ParalelInv, ParalelPlace
  <2>2. AtWork(k) /\ main \in {"begin", "wait"}
    BY <1>1, <2>1, OnlyAtWork
  <2>3. input = [s \in Streams |-> Whole(s)] /\ k \in Streams
    BY <2>1, <2>2, <1>1, ParalelIs DEF FileInv, ImagesPlace, SPUTypes, Streams
  <2>4. Whole(k).width # NoImage.width
    BY Constants DEF Whole, NoImage
  <2> QED BY <2>2, <2>3, <2>4 DEF AtWork
<1>2. ParalelInv => SPUsInsideFrame
  BY <1>1 DEF SPUsInsideFrame
<1> QED BY <1>2, ParalelInvAlways, PTL

(* Both programs implement the abstract specification, but for its         *)
(* liveness: the result files are written in order, each with every        *)
(* thumbnail served of its own frame, every byte in its place, up to       *)
(* the last frame or the first error (serial.c:267-303, paralel.c:68-122,  *)
(* paralel_spu.c:97-181).                                                  *)
THEOREM StepsOfBothPrograms ==
  BothSpec => /\ Abstract!PreviewInit
              /\ [][Abstract!WriteFrame \/ Abstract!Fail]_(Abstract!previewVars)
<1> DEFINE shown == [f \in 1 .. frame - 1 |-> [s \in Served |-> Shown(f, s)]]
<1>1. BothInit => Abstract!PreviewInit
  <2> SUFFICES ASSUME BothInit PROVE Abstract!PreviewInit
    OBVIOUS
  <2>1. main = "read" /\ frame = 1
    BY DEF BothInit, ParalelInit, PnmInit
  <2>2. 1 .. frame - 1 = {}
    BY <2>1
  <2>3. shown = <<>>
    BY <2>2
  <2> QED BY <2>1, <2>3 DEF Abstract!PreviewInit
<1>2. ASSUME PreviewInv, [BothNext]_bothVars
      PROVE  [Abstract!WriteFrame \/ Abstract!Fail]_(Abstract!previewVars)
  <2>1. PreviewInv' /\ Served' = Served
    BY <1>2, PreviewInvStep, ServedStays
  <2>2. frame \in 1 .. NumFrames + 1 /\ NumFrames \in Nat
    BY <1>2, Constants DEF PreviewInv, ParalelInv, FileInv, PnmTypeOK
  <2>3. /\ shown = [f \in 1 .. frame - 1 |-> [s \in Served |-> f]]
        /\ shown' = [f \in 1 .. frame' - 1 |-> [s \in Served |-> f]]
    BY <1>2, <2>1 DEF PreviewInv, ShownRight
  <2>4. Len(shown) = frame - 1
    BY <2>2
  <2>5. CASE UNCHANGED frame /\ (main' = "exited" <=> main = "exited")
    <3>1. shown' = shown
      BY <2>3, <2>5
    <3> QED BY <2>1, <2>5, <3>1 DEF Abstract!previewVars
  <2>6. CASE UNCHANGED frame /\ main' = "exited" /\ main # "exited" /\ frame <= NumFrames
    <3>1. shown' = shown
      BY <2>3, <2>6
    <3>2. Len(shown) < NumFrames
      BY <2>2, <2>4, <2>6
    <3> HIDE DEF shown
    <3> QED BY <2>1, <2>6, <3>1, <3>2 DEF Abstract!Fail, shown
  <2>7. CASE frame' = frame + 1 /\ main' # "exited" /\ main # "exited" /\ frame <= NumFrames
    <3>1. Len(shown) + 1 = frame
      BY <2>2, <2>4
    <3>2. shown' = Append(shown, [s \in Served |-> frame])
      BY <2>2, <2>3, <2>7
    <3> HIDE DEF shown
    <3> QED BY <2>1, <2>7, <3>1, <3>2 DEF Abstract!WriteFrame, shown
  <2> QED BY <1>2, <2>5, <2>6, <2>7, StepKinds DEF PreviewInv
<1> QED BY <1>1, <1>2, PreviewInvAlways, PTL DEF BothSpec
------------------------------------------------------------------------------
(* Whatever the order the SPUs finish in, the PPU waits for exactly the    *)
(* events that are still to come (paralel.c:39-66, 98-101).                *)
THEOREM EventsAlwaysOwed == BothSpec => []EventsOwed
<1>1. ASSUME ParalelInv, main = "wait"
      PROVE  Cardinality({k \in SPUs : out_intr[k] = 1 \/ SPUCanStep(k)}) = spu_threads - i
  <2> DEFINE Owing == {k \in SPUs : out_intr[k] = 1 \/ SPUCanStep(k)}
  <2>1. program = "paralel"
    BY <1>1 DEF ParalelInv, ParalelPlace
  <2>2. /\ SPUTypes /\ spu_threads \in Nat /\ SPUs = 0 .. spu_threads - 1
        /\ frame \in 1 .. NumFrames /\ NumFrames \in Nat /\ i = Cardinality(Counted)
        /\ \A k \in SPUs : AtWork(k) \/ HasSent(k) \/ Idle(k, frame)
    BY <1>1, <2>1, ParalelIs DEF SPUPlace
  <2>3. ASSUME NEW k \in SPUs PROVE k \in Owing <=> k \notin Counted
    <3>1. CASE AtWork(k)
      BY <2>2, <3>1 DEF AtWork, Counted, SPUCanStep
    <3>2. CASE HasSent(k)
      BY <3>2 DEF HasSent, Counted
    <3>3. CASE Idle(k, frame)
      BY <3>3 DEF Idle, Counted, SPUCanStep
    <3> QED BY <2>2, <3>1, <3>2, <3>3
  <2>4. Counted \subseteq SPUs /\ Owing = SPUs \ Counted
    BY <2>3 DEF Counted
  <2> HIDE DEF Owing
  <2>5. IsFiniteSet(SPUs) /\ Cardinality(SPUs) = spu_threads
    <3>1. 0 <= spu_threads - 1 + 1
      BY <2>2
    <3> QED BY <2>2, FS_Interval
  <2>6. Cardinality(Owing) = Cardinality(SPUs) - Cardinality(SPUs \cap Counted)
    BY <2>4, <2>5, FS_Difference
  <2>7. SPUs \cap Counted = Counted
    BY <2>4
  <2> QED BY <2>2, <2>5, <2>6, <2>7 DEF Owing
<1>2. ParalelInv => EventsOwed
  BY <1>1 DEF EventsOwed
<1> QED BY <1>2, ParalelInvAlways, PTL
------------------------------------------------------------------------------
(* What is left to the PPU, or to the serial program: frames, the stages   *)
(* of one, the images or SPUs of a stage, the parts of a file, and bytes.  *)
StageLeft ==
  CASE main = "read"   -> 5
    [] main = "begin"  -> 4
    [] main = "scale"  -> 4
    [] main = "wait"   -> 3
    [] main = "write"  -> 2
    [] main = "exited" -> 0
    [] OTHER           -> 1

PartLeft ==
  CASE io = "closed"    -> 6
    [] io = "type"      -> 5
    [] io = "width"     -> 4
    [] io = "height"    -> 3
    [] io = "max_color" -> 2
    [] io = "header"    -> 2
    [] OTHER            -> 1

left == <<(NumFrames + 1) - frame, StageLeft, NumStreams - i, PartLeft, bytes_left>>

(* The order of a dictionary.                                              *)
Before(l, m) ==
  \E p \in 1 .. 5 : l[p] < m[p] /\ \A q \in 1 .. p - 1 : l[q] = m[q]

(* What is left to an SPU of the messages it has.                          *)
SPULeft(k) ==
  CASE spu[k] = "get"   -> 4 * in_mbox[k] + 3
    [] spu[k] = "store" -> 4 * in_mbox[k] + 2
    [] spu[k] = "send"  -> 4 * in_mbox[k] + 1
    [] OTHER            -> 4 * in_mbox[k]

tasks == [k \in SPUs |-> SPULeft(k)]

Less(f, g) == f # g /\ \A k \in DOMAIN g : f[k] <= g[k]

LeftCounted == left \in [1 .. 5 -> Nat] /\ tasks \in [SPUs -> Nat]

(* Every step brings the end nearer: the main program has less left to do, *)
(* or an SPU has, and the others as much.  These are natural numbers, so   *)
(* no schedule goes on for ever, however small the pieces are that files   *)
(* are read and written in (pnm.c:58-146, paralel.c:68-122).               *)
EveryStepCounts ==
  [][Before(left', left) \/ (left' = left /\ Less(tasks', tasks))]_bothVars

LEMMA LeftIsCounted == ParalelInv => LeftCounted
<1> SUFFICES ASSUME ParalelInv PROVE LeftCounted
  OBVIOUS
<1>1. /\ SPUTypes /\ i \in 0 .. NumStreams /\ frame \in 1 .. NumFrames + 1
      /\ bytes_left \in Nat
  <2>1. SPUTypes /\ LoopPlace /\ PnmTypeOK
    BY TypesAre DEF ParalelInv
  <2>2. bytes_left \in Nat
    BY <2>1, Constants DEF PnmTypeOK
  <2> QED BY <2>1, <2>2 DEF PnmTypeOK, LoopPlace
<1>2. (NumFrames + 1) - frame \in Nat /\ NumStreams - i \in Nat
  BY <1>1, Constants
<1>3. StageLeft \in Nat /\ PartLeft \in Nat
  BY DEF StageLeft, PartLeft
<1>4. left \in [1 .. 5 -> Nat]
  BY <1>1, <1>2, <1>3 DEF left
<1>5. ASSUME NEW k \in SPUs PROVE SPULeft(k) \in Nat
  <2>1. in_mbox[k] \in Nat
    BY <1>1, Constants DEF SPUTypes
  <2> QED BY <2>1 DEF SPULeft
<1> QED BY <1>4, <1>5 DEF LeftCounted, tasks

LEMMA LaterIsLess ==
  ASSUME ParalelInv, ParalelInv'
  PROVE  /\ frame' > frame => (NumFrames + 1) - frame' < (NumFrames + 1) - frame
         /\ i' > i => NumStreams - i' < NumStreams - i
<1>1. /\ i \in Nat /\ i' \in Nat /\ frame \in Nat /\ frame' \in Nat
      /\ NumFrames \in Nat /\ NumStreams \in Nat
  BY Constants DEF ParalelInv, ParalelTypeOK, PnmTypeOK
<1>2. \A a, b, c \in Nat : b > c => a - b < a - c
  OBVIOUS
<1> DEFINE frames == NumFrames + 1
<1>3. frames \in Nat
  BY <1>1
<1> HIDE DEF frames
<1>4. frame' > frame => frames - frame' < frames - frame
  BY <1>1, <1>2, <1>3
<1>5. i' > i => NumStreams - i' < NumStreams - i
  BY <1>1, <1>2
<1>6. frame' > frame => (NumFrames + 1) - frame' < (NumFrames + 1) - frame
  BY <1>4 DEF frames
<1> QED BY <1>5, <1>6, Zenon

(* What it takes for less to be left: a later frame, a later stage, a      *)
(* later image or SPU, a later part of a file, fewer bytes.                *)
LEMMA LeftFalls ==
  ASSUME ParalelInv, ParalelInv',
         \/ frame' > frame
         \/ UNCHANGED frame /\ StageLeft' < StageLeft
         \/ UNCHANGED frame /\ StageLeft' = StageLeft /\ i' > i
         \/ UNCHANGED <<frame, main, i>> /\ PartLeft' < PartLeft
         \/ UNCHANGED <<frame, main, i, io>> /\ bytes_left' < bytes_left
  PROVE  Before(left', left)
<1>2. /\ left[1] = (NumFrames + 1) - frame /\ left[2] = StageLeft
      /\ left[3] = NumStreams - i /\ left[4] = PartLeft /\ left[5] = bytes_left
      /\ left'[1] = (NumFrames + 1) - frame' /\ left'[2] = StageLeft'
      /\ left'[3] = NumStreams - i' /\ left'[4] = PartLeft' /\ left'[5] = bytes_left'
  BY DEF left
<1>3. UNCHANGED main => StageLeft' = StageLeft
  BY DEF StageLeft
<1>4. UNCHANGED io => PartLeft' = PartLeft
  BY DEF PartLeft
<1>5. CASE frame' > frame
  <2>1. (NumFrames + 1) - frame' < (NumFrames + 1) - frame
    BY <1>5, LaterIsLess
  <2>2. left'[1] < left[1]
    BY <1>2, <2>1
  <2>3. \A q \in 1 .. 1 - 1 : left'[q] = left[q]
    OBVIOUS
  <2> QED BY <2>2, <2>3 DEF Before
<1>6. CASE UNCHANGED frame /\ StageLeft' < StageLeft
  <2>1. left'[2] < left[2] /\ \A q \in 1 .. 2 - 1 : left'[q] = left[q]
    BY <1>2, <1>6
  <2> QED BY <2>1 DEF Before
<1>7. CASE UNCHANGED frame /\ StageLeft' = StageLeft /\ i' > i
  <2>1. NumStreams - i' < NumStreams - i
    BY <1>7, LaterIsLess
  <2>2. left'[3] < left[3]
    BY <1>2, <2>1
  <2>3. \A q \in 1 .. 3 - 1 : left'[q] = left[q]
    BY <1>2, <1>7
  <2> QED BY <2>2, <2>3 DEF Before
<1>8. CASE UNCHANGED <<frame, main, i>> /\ PartLeft' < PartLeft
  <2>1. left'[4] < left[4] /\ \A q \in 1 .. 4 - 1 : left'[q] = left[q]
    BY <1>2, <1>3, <1>8
  <2> QED BY <2>1 DEF Before
<1>9. CASE UNCHANGED <<frame, main, i, io>> /\ bytes_left' < bytes_left
  <2>1. left'[5] < left[5] /\ \A q \in 1 .. 5 - 1 : left'[q] = left[q]
    BY <1>2, <1>3, <1>4, <1>9
  <2> QED BY <2>1 DEF Before
<1> QED BY <1>5, <1>6, <1>7, <1>8, <1>9

LEMMA ExitFalls ==
  ASSUME Exit, main \in {"read", "scale", "begin", "wait", "write"}
  PROVE  UNCHANGED frame /\ StageLeft' < StageLeft
<1>1. main' = "exited" /\ UNCHANGED frame
  BY DEF Exit
<1> QED BY <1>1 DEF StageLeft

LEMMA FileStepFalls ==
  ASSUME ParalelInv, ParalelInv', FileStep
  PROVE  Before(left', left)
<1>0. bytes_left \in Nat /\ i \in Nat
  BY Constants DEF ParalelInv, ParalelTypeOK, PnmTypeOK
<1>1. ASSUME Exit, main \in {"read", "write"} PROVE Before(left', left)
  BY <1>1, ExitFalls, LeftFalls
<1>2. ASSUME UNCHANGED <<frame, main, i>>, PartLeft' < PartLeft
      PROVE  Before(left', left)
  BY <1>2, LeftFalls
<1>3. ASSUME UNCHANGED <<frame, main, i, io>>,
             NEW most, NEW n \in 1 .. most, bytes_left' = bytes_left - n
      PROVE  Before(left', left)
  <2>1. bytes_left' < bytes_left
    BY <1>0, <1>3
  <2> QED BY <1>3, <2>1, LeftFalls
<1>4. CASE OpenInput
  <2>1. main = "read" /\ io = "closed"
        /\ (Exit \/ (io' = "type" /\ UNCHANGED <<frame, main, i>>))
    BY <1>4 DEF OpenInput
  <2>2. io' = "type" => PartLeft' < PartLeft
    BY <2>1 DEF PartLeft
  <2> QED BY <1>1, <1>2, <2>1, <2>2
<1>5. CASE ReadType
  <2>1. main = "read" /\ io = "type"
        /\ (Exit \/ (io' = "width" /\ UNCHANGED <<frame, main, i>>))
    BY <1>5 DEF ReadType
  <2>2. io' = "width" => PartLeft' < PartLeft
    BY <2>1 DEF PartLeft
  <2> QED BY <1>1, <1>2, <2>1, <2>2
<1>6. CASE ReadSize("width", "height")
  <2>1. main = "read" /\ io = "width"
        /\ (Exit \/ (io' = "height" /\ UNCHANGED <<frame, main, i>>))
    BY <1>6 DEF ReadSize
  <2>2. io' = "height" => PartLeft' < PartLeft
    BY <2>1 DEF PartLeft
  <2> QED BY <1>1, <1>2, <2>1, <2>2
<1>7. CASE ReadSize("height", "max_color")
  <2>1. main = "read" /\ io = "height"
        /\ (Exit \/ (io' = "max_color" /\ UNCHANGED <<frame, main, i>>))
    BY <1>7 DEF ReadSize
  <2>2. io' = "max_color" => PartLeft' < PartLeft
    BY <2>1 DEF PartLeft
  <2> QED BY <1>1, <1>2, <2>1, <2>2
<1>8. CASE ReadMaxColor
  <2>1. main = "read" /\ io = "max_color"
        /\ (Exit \/ (io' = "data" /\ UNCHANGED <<frame, main, i>>))
    BY <1>8 DEF ReadMaxColor
  <2>2. io' = "data" => PartLeft' < PartLeft
    BY <2>1 DEF PartLeft
  <2> QED BY <1>1, <1>2, <2>1, <2>2
<1>9. CASE ReadData
  <2>1. CASE Exit
    BY <1>1, <1>9, <2>1 DEF ReadData
  <2>2. CASE ~Exit
    <3>1. PICK most : \E n \in 1 .. most :
               bytes_left' = bytes_left - n /\ UNCHANGED <<frame, main, i, io>>
      BY <1>9, <2>2 DEF ReadData
    <3> QED BY <1>3, <3>1
  <2> QED BY <2>1, <2>2
<1>10. CASE CloseInput
  <2>1. UNCHANGED <<frame, main>> /\ i' = i + 1
    BY <1>10 DEF CloseInput
  <2>2. StageLeft' = StageLeft /\ i' > i
    BY <1>0, <2>1 DEF StageLeft
  <2> QED BY <2>1, <2>2, LeftFalls
<1>11. CASE CreateResult
  <2>1. main = "write" /\ io = "closed"
        /\ (Exit \/ (io' = "header" /\ UNCHANGED <<frame, main, i>>))
    BY <1>11 DEF CreateResult
  <2>2. io' = "header" => PartLeft' < PartLeft
    BY <2>1 DEF PartLeft
  <2> QED BY <1>1, <1>2, <2>1, <2>2
<1>12. CASE HeaderWritten
  <2>1. io = "header" /\ io' = "pixels" /\ UNCHANGED <<frame, main, i>>
    BY <1>12 DEF HeaderWritten
  <2>2. PartLeft' < PartLeft
    BY <2>1 DEF PartLeft
  <2> QED BY <1>2, <2>1, <2>2
<1>13. ASSUME NEW bytes, main = "write", Write(bytes) PROVE Before(left', left)
  <2>1. CASE Exit
    BY <1>1, <1>13, <2>1
  <2>2. CASE ~Exit
    <3>1. \E n \in 1 .. bytes_left :
             bytes_left' = bytes_left - n /\ UNCHANGED <<frame, main, i, io>>
      BY <1>13, <2>2 DEF Write
    <3> QED BY <1>3, <3>1
  <2> QED BY <2>1, <2>2
<1>14. CASE WriteHeader
  BY <1>13, <1>14 DEF WriteHeader
<1>15. CASE WritePixels
  BY <1>13, <1>15 DEF WritePixels
<1> QED BY <1>4, <1>5, <1>6, <1>7, <1>8, <1>9, <1>10, <1>11, <1>12, <1>14, <1>15
        DEF FileStep

LEMMA ProgramStepFalls ==
  ASSUME ParalelInv, ParalelInv',
         \/ EndFrame("done") \/ EndFrame("join")
         \/ InputRead \/ ScaleImage \/ AllScaled
         \/ ImagesRead \/ SendBegin \/ AllBegun \/ wait_spu_frame \/ FrameDone
  PROVE  Before(left', left)
<1>0. frame \in Nat /\ i \in Nat
  BY Constants DEF ParalelInv, ParalelTypeOK, PnmTypeOK
<1>1. ASSUME Exit, main \in {"read", "scale", "wait"} PROVE Before(left', left)
  BY <1>1, ExitFalls, LeftFalls
<1>2. ASSUME UNCHANGED <<frame, main>>, i' = i + 1 PROVE Before(left', left)
  <2>1. StageLeft' = StageLeft /\ i' > i
    BY <1>0, <1>2 DEF StageLeft
  <2> QED BY <1>2, <2>1, LeftFalls
<1>3. ASSUME UNCHANGED frame,
             \/ main = "read" /\ main' \in {"scale", "begin"}
             \/ main = "scale" /\ main' = "write"
             \/ main = "begin" /\ main' = "wait"
             \/ main = "wait" /\ main' = "write"
      PROVE  Before(left', left)
  <2>1. StageLeft' < StageLeft
    BY <1>3 DEF StageLeft
  <2> QED BY <1>3, <2>1, LeftFalls
<1>4. CASE EndFrame("done") \/ EndFrame("join")
  <2>1. frame' > frame
    BY <1>0, <1>4 DEF EndFrame
  <2> QED BY <2>1, LeftFalls
<1>5. CASE InputRead \/ AllBegun \/ FrameDone
  BY <1>3, <1>5 DEF InputRead, AllBegun, FrameDone
<1>6. CASE ScaleImage \/ SendBegin \/ wait_spu_frame
  BY <1>1, <1>2, <1>6 DEF ScaleImage, SendBegin, wait_spu_frame
<1>7. CASE AllScaled \/ ImagesRead
  BY <1>1, <1>3, <1>7 DEF AllScaled, ImagesRead
<1> QED BY <1>4, <1>5, <1>6, <1>7

LEMMA NextCounted == ParalelInv' => LeftCounted'
BY LeftIsCounted, PTL

LEMMA SPUStepFalls ==
  ASSUME ParalelInv, ParalelInv', NEW k \in SPUs, SPUStep(k)
  PROVE  left' = left /\ Less(tasks', tasks)
<1>1. /\ UNCHANGED <<frame, main, i, io, bytes_left, spu_threads>>
      /\ \A n \in SPUs : n # k => in_mbox'[n] = in_mbox[n] /\ spu'[n] = spu[n]
  BY TypesAre DEF SPUStep, wait_for_begin, GetImage, StoreThumbnail, send_frame_done,
     pnmVars, ioVars, ParalelInv, SPUTypes
<1>2. left' = left /\ SPUs' = SPUs
  BY <1>1 DEF left, StageLeft, PartLeft, SPUs
<1>3. \A n \in SPUs : n # k => SPULeft(n)' = SPULeft(n)
  BY <1>1 DEF SPULeft
<1>4. in_mbox[k] \in Nat /\ SPUTypes
  BY TypesAre, Constants DEF ParalelInv, SPUTypes
<1>5. SPULeft(k)' < SPULeft(k)
  <2>1. CASE wait_for_begin(k)
    <3>1. /\ spu[k] = "wait" /\ spu'[k] = "get" /\ in_mbox[k] > 0
          /\ in_mbox'[k] = in_mbox[k] - 1
      BY <1>4, <2>1 DEF wait_for_begin, SPUTypes
    <3> QED BY <1>4, <3>1 DEF SPULeft
  <2>2. CASE GetImage(k)
    <3>1. spu[k] = "get" /\ spu'[k] = "store" /\ in_mbox'[k] = in_mbox[k]
      BY <1>4, <2>2 DEF GetImage, SPUTypes
    <3> QED BY <1>4, <3>1 DEF SPULeft
  <2>3. CASE StoreThumbnail(k)
    <3>1. spu[k] = "store" /\ spu'[k] = "send" /\ in_mbox'[k] = in_mbox[k]
      BY <1>4, <2>3 DEF StoreThumbnail, SPUTypes
    <3> QED BY <1>4, <3>1 DEF SPULeft
  <2>4. CASE send_frame_done(k)
    <3>1. spu[k] = "send" /\ spu'[k] \in {"wait", "ended"} /\ in_mbox'[k] = in_mbox[k]
      BY <1>4, <2>4 DEF send_frame_done, SPUTypes
    <3> QED BY <1>4, <3>1 DEF SPULeft
  <2> QED BY <2>1, <2>2, <2>3, <2>4 DEF SPUStep
<1>6. tasks \in [SPUs -> Nat] /\ tasks' \in [SPUs -> Nat]
  BY <1>2, LeftIsCounted, NextCounted DEF LeftCounted
<1>7. /\ tasks'[k] < tasks[k]
      /\ \A n \in SPUs : n # k => tasks'[n] = tasks[n]
  BY <1>2, <1>3, <1>5 DEF tasks
<1>8. \A n \in SPUs : tasks'[n] <= tasks[n]
  BY <1>6, <1>7
<1>9. DOMAIN tasks = SPUs /\ tasks' # tasks
  BY <1>6, <1>7
<1> QED BY <1>2, <1>8, <1>9 DEF Less

(* With EventsAlwaysOwed: the serial program always ends, and the PPU and  *)
(* the SPUs, whatever their speeds, do so without waiting in vain, after   *)
(* the last frame or at an error (serial.c:267-303, paralel.c:68-122).     *)
THEOREM EveryStepTellsOff == BothSpec => []LeftCounted /\ EveryStepCounts
<1>1. ASSUME ParalelInv, [BothNext]_bothVars
      PROVE  [Before(left', left) \/ (left' = left /\ Less(tasks', tasks))]_bothVars
  <2>1. ParalelInv'
    BY <1>1, ParalelInvStep
  <2>2. CASE RunSerial /\ SerialNext
    <3>1. CASE SerialStep
      BY <1>1, <2>1, <3>1, FileStepFalls, ProgramStepFalls DEF SerialStep
    <3>2. CASE SerialEnded
      BY <2>2, <3>2 DEF RunSerial, SerialEnded, serialVars, bothVars, paralelVars
    <3> QED BY <2>2, <3>1, <3>2 DEF SerialNext
  <2>3. CASE RunParalel /\ ParalelNext
    <3>1. CASE PPUStep
      BY <1>1, <2>1, <3>1, FileStepFalls, ProgramStepFalls DEF PPUStep
    <3>2. CASE \E k \in Streams : SPUStep(k)
      <4>1. PICK k \in SPUs : SPUStep(k)
        BY <3>2 DEF SPUStep
      <4> QED BY <1>1, <2>1, <4>1, SPUStepFalls
    <3>3. CASE ParalelEnded
      BY <2>3, <3>3 DEF RunParalel, ParalelEnded, bothVars
    <3> QED BY <2>3, <3>1, <3>2, <3>3 DEF ParalelNext
  <2> QED BY <1>1, <2>2, <2>3 DEF BothNext
<1> QED BY <1>1, ParalelInvAlways, LeftIsCounted, PTL DEF BothSpec, EveryStepCounts
==============================================================================
