---------------------------- MODULE SpuImageProofs ----------------------------
(***************************************************************************)
(* Theorems about SpuImage, for every number of images, of lines and of    *)
(* elements in the DMA list, whichever modes are allowed and in whatever   *)
(* order the MFC works: the types, the absence of data races, and that     *)
(* every line is stored but the one that double buffering does not await.  *)
(***************************************************************************)
EXTENDS SpuImage, TLAPS

(* The first lines of the batches, and the line after the last of them.    *)
BatchStarts == {Batch * q + 1 : q \in 0 .. Lines \div Batch}

InBatch == pc \in {"wait", "scale", "put", "drain"}

(* The modes but double: where the program is within a batch.              *)
BatchPlace ==
  mode # "double" =>
    /\ pc # "next"
    /\ pc \in {"first", "wait", "notify", "done"} => cur_buf = 0
    /\ pc = "drain" => cur_buf = Batch - 1
    /\ i - cur_buf \in BatchStarts
    /\ InBatch => i - cur_buf <= Made
    /\ in_list = IF mode # "dmalist" THEN 1
                 ELSE IF pc \in {"scale", "put", "drain"}
                      THEN i - cur_buf + Batch ELSE i

(* The mode double: lines alternate between the buffers.                   *)
BufferOf(l) == (l - 1) % 2

DoublePlace ==
  mode = "double" =>
    /\ in_list = 1
    /\ pc \in {"first", "notify", "done"} => cur_buf = 0
    /\ pc = "first" => i \in {1, Lines + 1}
    /\ pc \in {"next", "wait", "scale", "put", "drain"} =>
         i <= Lines /\ cur_buf = BufferOf(i)
    /\ pc = "drain" => i = Lines

IsGet(c) == c.op \in {"get", "getl"}
IsPut(c) == c.op = "put"

(* The gets under way: of the batch while it is awaited; of this line and  *)
(* of the next one in mode double.                                         *)
GetsUnderWay ==
  \A c \in mfc : IsGet(c) =>
    IF mode # "double"
    THEN pc = "wait" /\ c.buf = 0 /\ c.line = i /\ (c.op = "getl" => mode = "dmalist")
    ELSE /\ c.op = "get" /\ c.buf = BufferOf(c.line)
         /\ \/ pc \in {"next", "wait"} /\ c.line = i
            \/ pc \in {"wait", "scale", "put"} /\ c.line = i + 1

Arriving(l) == \E c \in mfc : IsGet(c) /\ c.line = l

(* A buffer whose get is over holds the lines it was fetched for.          *)
Fetched ==
  IF mode # "double"
  THEN pc \in {"wait", "scale", "put"} =>
         \/ Arriving(i)
         \/ \A b \in Buffers : input[b] = i - cur_buf + b
  ELSE /\ pc \in {"next", "wait", "scale", "put"} =>
            Arriving(i) \/ input[cur_buf] = i
       /\ pc \in {"wait", "scale", "put"} /\ i < Lines =>
            Arriving(i + 1) \/ input[1 - cur_buf] = i + 1

(* The puts under way, but for the one that no wait covers, are of this    *)
(* image, and their buffers hold the lines they are to store.              *)
PutsUnderWay ==
  \A c \in mfc : IsPut(c) /\ ~MayBeLate(c.line) =>
    /\ c.image = image
    /\ output[c.buf] = c.line
    /\ IF mode # "double"
       THEN /\ pc \in {"scale", "put", "drain"}
            /\ c.line = i - cur_buf + c.buf
            /\ c.buf < cur_buf \/ (pc = "drain" /\ c.buf = cur_buf)
       ELSE /\ c.buf = BufferOf(c.line)
            /\ \/ pc \in {"next", "wait"} /\ c.line \in {i - 2, i - 1}
               \/ pc \in {"scale", "put"} /\ c.line = i - 1
               \/ pc = "drain" /\ c.line = i

(* What waiting for the buffer's tag is for, in mode double.               *)
BufferFree ==
  /\ mode = "double" /\ pc \in {"scale", "put"} => \A c \in mfc : c.buf # cur_buf
  /\ pc = "put" => output[cur_buf] = i

(* The first line of the image that has not been put yet.                  *)
NextPut == IF pc = "drain" THEN i + 1 ELSE i

ImageOver(m) == m < image \/ pc \in {"notify", "done"}

Leaving(l) == \E c \in mfc : IsPut(c) /\ c.line = l

LinesInPlace ==
  \A m \in 1 .. Images, l \in 1 .. Lines :
    ~MayBeLate(l) =>
      /\ ImageOver(m) => dst[m][l] = IF l <= Made THEN l ELSE Blank
      /\ ~ImageOver(m) =>
           IF m = image /\ l < NextPut THEN dst[m][l] = l \/ (dst[m][l] = Blank /\ Leaving(l))
           ELSE dst[m][l] = Blank

ImageInv ==
  /\ ImageTypeOK /\ BatchPlace /\ DoublePlace /\ GetsUnderWay /\ Fetched
  /\ PutsUnderWay /\ BufferFree /\ LinesInPlace

------------------------------------------------------------------------------
(* Arithmetic of the batches.                                              *)
LEMMA BatchIs ==
  ASSUME mode \in Modes
  PROVE  /\ Batch \in Nat \ {0}
         /\ Made \in 0 .. Lines
         /\ mode \in {"simple", "double"} => Batch = 1 /\ Made = Lines
         /\ mode \in {"simple", "2lines", "double", "dmalist"}
<1>1. /\ Lines \in Nat \ {0} /\ NUM_LIST_ELEMS \in Nat \ {0}
      /\ mode \in {"simple", "2lines", "double", "dmalist"}
  BY ImageAssumption
<1>2. /\ Batch \in Nat \ {0}
      /\ mode \in {"simple", "double"} => Batch = 1
  BY <1>1 DEF Batch
<1> DEFINE N == Lines \div Batch
<1>3. N \in Nat /\ Lines = Batch * N + (Lines % Batch) /\ Lines % Batch \in Nat
  BY <1>1, <1>2
<1>4. Batch * N \in Nat /\ Batch * N <= Lines /\ Made = Batch * N
  BY <1>1, <1>2, <1>3 DEF Made
<1> QED BY <1>1, <1>2, <1>4 DEF Made

LEMMA BatchStart ==
  ASSUME mode \in Modes, NEW s \in BatchStarts
  PROVE  /\ s \in 1 .. Made + 1
         /\ s <= Made => s + Batch - 1 <= Made /\ s + Batch \in BatchStarts
<1>1. Batch \in Nat \ {0} /\ Made \in 0 .. Lines /\ Lines \in Nat
  BY BatchIs, ImageAssumption
<1> DEFINE N == Lines \div Batch
<1>2. N \in Nat /\ Made = Batch * N
  BY <1>1 DEF Made
<1>3. PICK q \in 0 .. N : s = Batch * q + 1
  BY DEF BatchStarts
<1> HIDE DEF N
<1>4. PICK d \in Nat : N = q + d
  <2>1. N - q \in Nat /\ N = q + (N - q)
    BY <1>2, <1>3
  <2> QED BY <2>1
<1>5. Made = Batch * q + Batch * d /\ Batch * q \in Nat /\ Batch * d \in Nat
  BY <1>1, <1>2, <1>4
<1>6. ASSUME s <= Made
      PROVE  s + Batch - 1 <= Made /\ s + Batch \in BatchStarts
  <2>1. d # 0
    BY <1>3, <1>5, <1>6, <1>1
  <2>2. Batch * d = Batch + Batch * (d - 1) /\ Batch * (d - 1) \in Nat
    BY <1>1, <2>1
  <2>3. s + Batch = Batch * (q + 1) + 1 /\ q + 1 \in 0 .. N
    BY <1>1, <1>2, <1>3, <1>4, <2>1
  <2> QED BY <1>1, <1>3, <1>5, <2>2, <2>3 DEF BatchStarts, N
<1> QED BY <1>1, <1>3, <1>5, <1>6

LEMMA FirstStart == mode \in Modes => 1 \in BatchStarts
<1> SUFFICES ASSUME mode \in Modes PROVE 1 \in BatchStarts
  OBVIOUS
<1>1. Batch \in Nat \ {0} /\ Lines \in Nat
  BY BatchIs, ImageAssumption
<1>2. Lines \div Batch \in Nat /\ Batch * 0 + 1 = 1
  BY <1>1
<1> QED BY <1>2 DEF BatchStarts

LEMMA ModeKept ==
  UNCHANGED mode =>
    /\ UNCHANGED <<Batch, Made, Buffers, BatchStarts, Commands>>
    /\ \A l : MayBeLate(l)' <=> MayBeLate(l)
BY DEF Batch, Made, Buffers, BatchStarts, Commands, MayBeLate

(* A command given to the MFC.                                             *)
LEMMA Issued ==
  ASSUME ImageTypeOK, UNCHANGED mode, NEW op \in {"get", "getl", "put"},
         NEW b \in Buffers, NEW l \in 1 .. Lines, Issue(op, b, l)
  PROVE  /\ mfc' \subseteq Commands
         /\ \E new \in Commands :
              /\ new.op = op /\ new.buf = b /\ new.image = image /\ new.line = l
              /\ mfc' = mfc \cup {new}
<1>1. [op |-> op, buf |-> b, image |-> image, line |-> l] \in Commands
  BY DEF ImageTypeOK, Commands
<1> QED BY <1>1 DEF Issue, ImageTypeOK

LEMMA CommandIs ==
  ASSUME NEW c \in Commands
  PROVE  /\ c.buf \in Buffers /\ c.image \in 1 .. Images /\ c.line \in 1 .. Lines
         /\ (IsGet(c) /\ ~IsPut(c)) \/ (IsPut(c) /\ ~IsGet(c))
         /\ c.op \in {"get", "getl", "put"}
BY DEF Commands, IsGet, IsPut

(* Steps that put nothing: what is stored stays where it is.               *)
LEMMA PlacesKept ==
  ASSUME LinesInPlace, UNCHANGED <<mode, dst, image, NextPut>>, mfc \subseteq mfc',
         pc \in {"notify", "done"} <=> pc' \in {"notify", "done"}
  PROVE  LinesInPlace'
<1>1. \A l : Leaving(l) => Leaving(l)'
  BY DEF Leaving
<1> QED BY <1>1, ModeKept DEF LinesInPlace, ImageOver

LEMMA PlacePut ==
  ASSUME ImageTypeOK, LinesInPlace, UNCHANGED <<mode, dst, image>>,
         NextPut = i, NextPut' = i + 1,
         pc \notin {"notify", "done"}, pc' \notin {"notify", "done"},
         NEW new, mfc' = mfc \cup {new}, new.op = "put", new.line = i
  PROVE  LinesInPlace'
<1>1. \A l : Leaving(l) => Leaving(l)'
  BY DEF Leaving
<1>2. \A l : l = i => Leaving(l)'
  BY DEF Leaving, IsPut
<1>3. i \in Nat
  BY ImageAssumption DEF ImageTypeOK
<1>4. ASSUME NEW m \in 1 .. Images, NEW l \in 1 .. Lines, ~MayBeLate(l)
      PROVE  /\ ImageOver(m)' => dst[m][l] = IF l <= Made THEN l ELSE Blank
             /\ ~ImageOver(m)' =>
                  IF m = image /\ l < i + 1
                  THEN dst[m][l] = l \/ (dst[m][l] = Blank /\ Leaving(l)')
                  ELSE dst[m][l] = Blank
  <2>1. ImageOver(m)' <=> ImageOver(m)
    BY DEF ImageOver
  <2>2. l < i + 1 <=> l < i \/ l = i
    BY <1>3, ImageAssumption
  <2> QED BY <1>1, <1>2, <1>4, <2>1, <2>2 DEF LinesInPlace
<1> QED BY <1>4, ModeKept DEF LinesInPlace

------------------------------------------------------------------------------
LEMMA ImageInvInit == ImageInit => ImageInv
<1> SUFFICES ASSUME ImageInit PROVE ImageInv
  OBVIOUS
<1>1. /\ mode \in Modes /\ pc = "first" /\ image = 1 /\ i = 1 /\ cur_buf = 0
      /\ in_list = 1 /\ mfc = {}
      /\ Images \in Nat \ {0} /\ Lines \in Nat \ {0}
  BY ImageAssumption DEF ImageInit
<1>2. Batch \in Nat \ {0} /\ Made \in 0 .. Lines
  BY <1>1, BatchIs
<1>3. 0 \in Buffers
  BY <1>2 DEF Buffers
<1>4. Blank \in Content
  BY DEF Content
<1>5. ImageTypeOK
  BY <1>1, <1>2, <1>3, <1>4 DEF ImageInit, ImageTypeOK
<1>6. BatchPlace /\ DoublePlace
  BY <1>1, FirstStart DEF BatchPlace, DoublePlace, InBatch
<1>7. GetsUnderWay /\ Fetched /\ PutsUnderWay /\ BufferFree
  BY <1>1 DEF GetsUnderWay, Fetched, PutsUnderWay, BufferFree
<1>8. LinesInPlace
  BY <1>1 DEF ImageInit, LinesInPlace, ImageOver, NextPut
<1> QED BY <1>5, <1>6, <1>7, <1>8 DEF ImageInv

(* At the start of a batch, and when the images are done, the MFC has      *)
(* nothing left to do but the put that no wait covers.                     *)
LEMMA NothingUnderWay ==
  ASSUME ImageInv, pc \in {"first", "notify", "done"}
  PROVE  \A c \in mfc : IsPut(c) /\ ~IsGet(c) /\ MayBeLate(c.line)
<1>1. \A c \in mfc : ~IsGet(c)
  BY DEF ImageInv, GetsUnderWay
<1>2. \A c \in mfc : IsPut(c) => MayBeLate(c.line)
  BY DEF ImageInv, PutsUnderWay
<1>3. \A c \in mfc : IsPut(c) \/ IsGet(c)
  BY CommandIs DEF ImageInv, ImageTypeOK
<1> QED BY <1>1, <1>2, <1>3

------------------------------------------------------------------------------
(* The steps of the modes but double.                                      *)
LEMMA BatchGet ==
  ASSUME ImageInv, mode # "double", UNCHANGED mode,
         Get \/ (mode = "dmalist" /\ GetList)
  PROVE  ImageInv'
<1>1. /\ pc = "first" /\ pc' = "wait" /\ i \in 1 .. Made /\ cur_buf = 0 /\ i - 0 = i
      /\ UNCHANGED <<image, i, cur_buf, in_list, input, output, dst>>
      /\ mode \in Modes /\ Made \in 0 .. Lines /\ Lines \in Nat /\ 0 \in Buffers
  BY BatchIs, ImageAssumption
  DEF Get, GetList, ImageInv, ImageTypeOK, BatchPlace, Buffers
<1>2. PICK op \in {"get", "getl"} : Issue(op, 0, i) /\ (op = "getl" => mode = "dmalist")
  BY DEF Get, GetList
<1>3. i \in 1 .. Lines
  BY <1>1
<1>4. /\ mfc' \subseteq Commands
      /\ \E new \in Commands :
           /\ new.op = op /\ new.buf = 0 /\ new.image = image /\ new.line = i
           /\ mfc' = mfc \cup {new}
  BY <1>1, <1>2, <1>3, Issued DEF ImageInv
<1>5. PICK new \in Commands :
        /\ new.op = op /\ new.buf = 0 /\ new.image = image /\ new.line = i
        /\ mfc' = mfc \cup {new}
  BY <1>4
<1>6. IsGet(new) /\ ~IsPut(new) /\ mfc = {}
  BY <1>2, <1>5, <1>1, NothingUnderWay DEF IsGet, IsPut, MayBeLate
<1>7. ImageTypeOK'
  BY <1>1, <1>4, ModeKept DEF ImageInv, ImageTypeOK
<1>8. BatchPlace' /\ DoublePlace'
  BY <1>1, ModeKept DEF ImageInv, BatchPlace, DoublePlace, InBatch
<1>9. GetsUnderWay' /\ Fetched'
  BY <1>1, <1>2, <1>5, <1>6 DEF GetsUnderWay, Fetched, Arriving, IsGet
<1>10. PutsUnderWay' /\ BufferFree'
  BY <1>1, <1>5, <1>6 DEF PutsUnderWay, BufferFree, IsPut
<1>11. LinesInPlace'
  BY <1>1, <1>4, PlacesKept DEF ImageInv, NextPut
<1> QED BY <1>7, <1>8, <1>9, <1>10, <1>11 DEF ImageInv

LEMMA BatchWait ==
  ASSUME ImageInv, mode # "double", UNCHANGED mode,
         (mode # "dmalist" /\ Wait) \/ (mode = "dmalist" /\ WaitList)
  PROVE  ImageInv'
<1>1. /\ pc = "wait" /\ pc' = "scale" /\ cur_buf = 0 /\ i - 0 = i
      /\ UNCHANGED <<image, i, cur_buf, input, output, mfc, dst>>
      /\ in_list' = IF mode = "dmalist" THEN in_list + Batch ELSE in_list
      /\ WaitTag(0)
      /\ mode \in Modes
  BY DEF Wait, WaitList, ImageInv, ImageTypeOK, BatchPlace, tags
<1>2. mfc = {}
  BY <1>1, CommandIs DEF WaitTag, Pending, tags, ImageInv, ImageTypeOK
<1>3. i \in BatchStarts /\ i <= Made /\ i + Batch \in 1 .. Made + 1
      /\ Batch \in Nat \ {0} /\ Made \in Nat
  BY <1>1, BatchStart, BatchIs DEF ImageInv, BatchPlace, InBatch
<1>4. in_list' = IF mode = "dmalist" THEN i + Batch ELSE 1
  BY <1>1 DEF ImageInv, BatchPlace
<1>5. in_list' \in 1 .. Made + 1
  BY <1>3, <1>4
<1>6. ImageTypeOK'
  BY <1>1, <1>5, ModeKept DEF ImageInv, ImageTypeOK
<1>7. BatchPlace' /\ DoublePlace'
  BY <1>1, <1>3, <1>4, ModeKept DEF ImageInv, BatchPlace, DoublePlace, InBatch
<1>8. GetsUnderWay' /\ PutsUnderWay' /\ BufferFree'
  BY <1>1, <1>2 DEF GetsUnderWay, PutsUnderWay, BufferFree
<1>9. Fetched'
  BY <1>1, <1>2, ModeKept DEF ImageInv, Fetched, Arriving
<1>10. LinesInPlace'
  BY <1>1, PlacesKept DEF ImageInv, NextPut
<1> QED BY <1>6, <1>7, <1>8, <1>9, <1>10 DEF ImageInv

(* In either kind of mode: the buffer scaled into has no put to wait for.  *)
LEMMA ScaleStep ==
  ASSUME ImageInv, UNCHANGED mode, Scale
  PROVE  ImageInv'
<1>1. /\ pc = "scale" /\ pc' = "put"
      /\ output' = [output EXCEPT ![cur_buf] = input[cur_buf]]
      /\ UNCHANGED <<image, i, cur_buf, in_list, input, mfc, dst>>
      /\ mode \in Modes /\ i \in Int /\ cur_buf \in Buffers /\ cur_buf \in Int
  BY BatchIs, ImageAssumption DEF Scale, ImageInv, ImageTypeOK, Buffers
<1>2. ~Arriving(i)
  <2>1. ASSUME NEW c \in mfc, IsGet(c), c.line = i PROVE FALSE
    BY <1>1, <2>1 DEF ImageInv, GetsUnderWay
  <2> QED BY <2>1 DEF Arriving
<1>3. input[cur_buf] = i
  BY <1>1, <1>2 DEF ImageInv, Fetched
<1>4. /\ output' \in [Buffers -> Content] /\ output'[cur_buf] = i
      /\ \A b \in Buffers \ {cur_buf} : output'[b] = output[b]
  BY <1>1, <1>3 DEF ImageInv, ImageTypeOK
<1>5. ImageTypeOK'
  BY <1>1, <1>4, ModeKept DEF ImageInv, ImageTypeOK
<1>6. BatchPlace' /\ DoublePlace'
  BY <1>1, ModeKept DEF ImageInv, BatchPlace, DoublePlace, InBatch
<1>7. GetsUnderWay' /\ Fetched'
  BY <1>1, ModeKept DEF ImageInv, GetsUnderWay, Fetched, Arriving
<1>8. PutsUnderWay'
  <2>1. ASSUME NEW c \in mfc, IsPut(c), ~MayBeLate(c.line)
        PROVE  c.buf # cur_buf /\ output'[c.buf] = output[c.buf]
    <3>1. c.buf \in Buffers
      BY CommandIs DEF ImageInv, ImageTypeOK
    <3>2. c.buf # cur_buf
      BY <1>1, <2>1 DEF ImageInv, PutsUnderWay, BufferFree
    <3> QED BY <1>4, <3>1, <3>2
  <2> QED BY <1>1, <2>1, ModeKept DEF ImageInv, PutsUnderWay
<1>9. BufferFree'
  BY <1>1, <1>4 DEF ImageInv, BufferFree
<1>10. LinesInPlace'
  BY <1>1, PlacesKept DEF ImageInv, NextPut
<1> QED BY <1>5, <1>6, <1>7, <1>8, <1>9, <1>10 DEF ImageInv

LEMMA BatchPut ==
  ASSUME ImageInv, mode # "double", UNCHANGED mode, Put
  PROVE  ImageInv'
<1>1. /\ pc = "put" /\ Issue("put", cur_buf, i) /\ NextOfBatch
      /\ UNCHANGED <<image, in_list, input, output, dst>>
      /\ mode \in Modes /\ i \in 1 .. Lines + 1 /\ cur_buf \in Buffers
      /\ Batch \in Nat \ {0} /\ Made \in 0 .. Lines /\ Lines \in Nat
      /\ Buffers = 0 .. Batch - 1
  BY BatchIs, ImageAssumption DEF Put, ImageInv, ImageTypeOK, Buffers
<1>2. /\ i - cur_buf \in BatchStarts /\ i - cur_buf <= Made
      /\ i - cur_buf \in 1 .. Made + 1 /\ i - cur_buf + Batch - 1 <= Made
  BY <1>1, BatchStart DEF ImageInv, BatchPlace, InBatch
<1>3. i \in 1 .. Made
  BY <1>1, <1>2
<1>4. i \in 1 .. Lines
  BY <1>1, <1>3
<1>5. mfc' \subseteq Commands
  BY <1>1, <1>4, Issued DEF ImageInv
<1>6. PICK new \in Commands :
        /\ new.op = "put" /\ new.buf = cur_buf /\ new.image = image /\ new.line = i
        /\ mfc' = mfc \cup {new}
  BY <1>1, <1>4, Issued DEF ImageInv
<1>7. \/ /\ cur_buf + 1 < Batch /\ pc' = "scale"
         /\ i' = i + 1 /\ cur_buf' = cur_buf + 1
      \/ cur_buf = Batch - 1 /\ pc' = "drain" /\ UNCHANGED <<i, cur_buf>>
  BY <1>1 DEF NextOfBatch
<1>8. i' - cur_buf' = i - cur_buf /\ cur_buf' \in Buffers /\ i' \in 1 .. Lines + 1
  BY <1>1, <1>3, <1>7
<1>9. ImageTypeOK'
  BY <1>1, <1>5, <1>7, <1>8, ModeKept DEF ImageInv, ImageTypeOK
<1>10. BatchPlace' /\ DoublePlace'
  <2>1. in_list = IF mode # "dmalist" THEN 1 ELSE i - cur_buf + Batch
    BY <1>1 DEF ImageInv, BatchPlace
  <2> QED BY <1>1, <1>2, <1>7, <1>8, <2>1, ModeKept DEF BatchPlace, DoublePlace, InBatch
<1>11. GetsUnderWay'
  BY <1>1, <1>6 DEF ImageInv, GetsUnderWay, IsGet
<1>12. Fetched'
  <2>1. ~Arriving(i)
    BY <1>1 DEF ImageInv, GetsUnderWay, Arriving
  <2>2. \A b \in Buffers : input[b] = i - cur_buf + b
    BY <1>1, <2>1 DEF ImageInv, Fetched
  <2> QED BY <1>1, <1>8, <2>2, ModeKept DEF Fetched
<1>13. PutsUnderWay'
  <2>1. ASSUME NEW c \in mfc, IsPut(c)
        PROVE  /\ c.image = image /\ output[c.buf] = c.line
               /\ c.line = i - cur_buf + c.buf /\ c.buf < cur_buf
    BY <1>1, <2>1 DEF ImageInv, PutsUnderWay, MayBeLate
  <2>2. output[cur_buf] = i /\ i = i - cur_buf + cur_buf
    BY <1>1 DEF ImageInv, BufferFree
  <2>3. ASSUME NEW c \in mfc, IsPut(c)
        PROVE  c.buf < cur_buf'
    <3>1. c.buf \in Buffers
      BY CommandIs DEF ImageInv, ImageTypeOK
    <3> QED BY <1>1, <1>7, <2>1, <2>3, <3>1
  <2>4. cur_buf < cur_buf' \/ (pc' = "drain" /\ cur_buf = cur_buf')
    BY <1>1, <1>7
  <2> QED BY <1>1, <1>6, <1>7, <1>8, <2>1, <2>2, <2>3, <2>4 DEF PutsUnderWay
<1>14. BufferFree'
  BY <1>7 DEF BufferFree
<1>15. LinesInPlace'
  <2>1. NextPut = i /\ NextPut' = i + 1
    BY <1>1, <1>7 DEF NextPut
  <2> QED BY <1>1, <1>6, <1>7, <2>1, PlacePut DEF ImageInv
<1> QED BY <1>9, <1>10, <1>11, <1>12, <1>13, <1>14, <1>15 DEF ImageInv

LEMMA BatchDrain ==
  ASSUME ImageInv, mode # "double", UNCHANGED mode, Drain
  PROVE  ImageInv'
<1>1. /\ pc = "drain" /\ pc' = "first" /\ i' = i + 1 /\ cur_buf' = 0
      /\ UNCHANGED <<image, in_list, input, output, mfc, dst>>
      /\ cur_buf = Batch - 1 /\ WaitTag(0) /\ mode \in Modes
      /\ Batch \in Nat \ {0} /\ Made \in 0 .. Lines /\ Lines \in Nat
      /\ i \in 1 .. Lines + 1 /\ 0 \in Buffers
  BY BatchIs, ImageAssumption
  DEF Drain, ImageInv, ImageTypeOK, BatchPlace, tags, Buffers
<1>2. mfc = {}
  BY <1>1, CommandIs DEF WaitTag, Pending, tags, ImageInv, ImageTypeOK
<1>3. /\ i - cur_buf \in BatchStarts /\ i - cur_buf <= Made
      /\ i' = i - cur_buf + Batch
  BY <1>1 DEF ImageInv, BatchPlace, InBatch
<1>4. i' \in BatchStarts /\ i' \in 1 .. Made + 1 /\ i' \in 1 .. Lines + 1 /\ i' - 0 = i'
  BY <1>1, <1>3, BatchStart
<1>5. ImageTypeOK'
  BY <1>1, <1>4, ModeKept DEF ImageInv, ImageTypeOK
<1>6. BatchPlace' /\ DoublePlace'
  BY <1>1, <1>3, <1>4, ModeKept DEF ImageInv, BatchPlace, DoublePlace, InBatch
<1>7. GetsUnderWay' /\ Fetched' /\ PutsUnderWay' /\ BufferFree'
  BY <1>1, <1>2 DEF GetsUnderWay, Fetched, PutsUnderWay, BufferFree
<1>8. LinesInPlace'
  BY <1>1, PlacesKept DEF ImageInv, NextPut
<1> QED BY <1>5, <1>6, <1>7, <1>8 DEF ImageInv

------------------------------------------------------------------------------
(* The steps of every mode between images, and at the end.                 *)
LEMMA EndImageStep ==
  ASSUME ImageInv, UNCHANGED mode, EndImage
  PROVE  ImageInv'
<1>1. /\ pc = "first" /\ i > Made /\ cur_buf = 0 /\ i' = 1 /\ in_list' = 1
      /\ UNCHANGED <<cur_buf, mfc, dst>>
      /\ \/ image < Images /\ pc' = "first" /\ image' = image + 1
         \/ image = Images /\ pc' = "notify" /\ image' = image
      /\ mode \in Modes /\ image \in 1 .. Images /\ Images \in Nat
      /\ i \in Int /\ Made \in 0 .. Lines /\ Lines \in Nat \ {0}
  BY BatchIs, ImageAssumption
  DEF EndImage, ImageInv, ImageTypeOK, BatchPlace, DoublePlace
<1>2. \A c \in mfc : IsPut(c) /\ ~IsGet(c) /\ MayBeLate(c.line)
  BY <1>1, NothingUnderWay
<1>3. input' \in [Buffers -> Content] /\ output' \in [Buffers -> Content]
  <2>1. Garbage \in Content
    BY DEF Content
  <2>2. CASE mode = "double"
    <3>1. PICK late \in Buffers : output' \in [Buffers -> {Garbage, output[late]}]
      BY <1>1, <2>2 DEF EndImage, FreeBuffers
    <3>2. output[late] \in Content
      BY DEF ImageInv, ImageTypeOK
    <3> QED BY <2>1, <3>1, <3>2 DEF EndImage, FreeBuffers
  <2>3. CASE mode # "double"
    BY <2>1, <2>3 DEF EndImage, FreeBuffers
  <2> QED BY <2>2, <2>3
<1>4. ImageTypeOK'
  <2>1. image' \in 1 .. Images /\ i' \in 1 .. Lines + 1 /\ in_list' \in 1 .. Made + 1
    BY <1>1
  <2>2. pc' \in {"first", "notify"} /\ UNCHANGED <<cur_buf, mfc, dst>>
    BY <1>1
  <2> QED BY <1>3, <2>1, <2>2, ModeKept DEF ImageInv, ImageTypeOK
<1>5. BatchPlace' /\ DoublePlace'
  BY <1>1, FirstStart, ModeKept DEF BatchPlace, DoublePlace, InBatch
<1>6. GetsUnderWay' /\ Fetched' /\ PutsUnderWay' /\ BufferFree'
  BY <1>1, <1>2, ModeKept DEF GetsUnderWay, Fetched, PutsUnderWay, BufferFree
<1>7. LinesInPlace'
  <2>1. i = Made + 1
    <3>1. CASE mode = "double"
      BY <1>1, <3>1, BatchIs DEF ImageInv, DoublePlace
    <3>2. CASE mode # "double"
      <4>1. i \in BatchStarts
        BY <1>1, <3>2 DEF ImageInv, BatchPlace
      <4> QED BY <1>1, <4>1, BatchStart
    <3> QED BY <3>1, <3>2
  <2>2. ASSUME NEW l, ~MayBeLate(l) PROVE ~Leaving(l)
    BY <1>2, <2>2 DEF Leaving
  <2>3. NextPut = i
    BY <1>1 DEF NextPut
  <2>4. ASSUME NEW m \in 1 .. Images, NEW l \in 1 .. Lines, ~MayBeLate(l)
        PROVE  /\ m <= image => dst[m][l] = IF l <= Made THEN l ELSE Blank
               /\ m > image => dst[m][l] = Blank
    <3>1. CASE m = image
      BY <1>1, <2>1, <2>2, <2>3, <2>4, <3>1 DEF ImageInv, LinesInPlace, ImageOver
    <3>2. CASE m < image
      BY <1>1, <2>4, <3>2 DEF ImageInv, LinesInPlace, ImageOver
    <3>3. CASE m > image
      BY <1>1, <2>4, <3>3 DEF ImageInv, LinesInPlace, ImageOver
    <3> QED BY <1>1, <3>1, <3>2, <3>3
  <2>5. ASSUME NEW m \in 1 .. Images
        PROVE  ImageOver(m)' <=> m <= image
    BY <1>1 DEF ImageOver
  <2>6. /\ \A m \in 1 .. Images : ~(m <= image) => m > image
        /\ \A l \in 1 .. Lines : ~(l < 1)
        /\ pc' \in {"first", "notify"} => NextPut' = 1
    BY <1>1 DEF NextPut
  <2> QED BY <1>1, <2>4, <2>5, <2>6, ModeKept DEF LinesInPlace
<1> QED BY <1>4, <1>5, <1>6, <1>7 DEF ImageInv

LEMMA NotifyStep ==
  ASSUME ImageInv, UNCHANGED mode, Notify
  PROVE  ImageInv'
<1>1. /\ pc = "notify" /\ pc' = "done"
      /\ UNCHANGED <<image, i, cur_buf, in_list, input, output, mfc, dst>>
  BY DEF Notify
<1>2. \A c \in mfc : IsPut(c) /\ ~IsGet(c) /\ MayBeLate(c.line)
  BY <1>1, NothingUnderWay
<1>3. ImageTypeOK'
  BY <1>1, ModeKept DEF ImageInv, ImageTypeOK
<1>4. BatchPlace' /\ DoublePlace'
  BY <1>1, ModeKept DEF ImageInv, BatchPlace, DoublePlace, InBatch
<1>5. GetsUnderWay' /\ Fetched' /\ PutsUnderWay' /\ BufferFree'
  BY <1>1, <1>2, ModeKept DEF GetsUnderWay, Fetched, PutsUnderWay, BufferFree
<1>6. LinesInPlace'
  BY <1>1, PlacesKept DEF ImageInv, NextPut
<1> QED BY <1>3, <1>4, <1>5, <1>6 DEF ImageInv

------------------------------------------------------------------------------
(* The steps of the mode double.                                           *)
LEMMA Alternate ==
  ASSUME NEW l \in Int
  PROVE  /\ BufferOf(l) \in {0, 1} /\ BufferOf(1) = 0
         /\ BufferOf(l + 1) = 1 - BufferOf(l)
         /\ BufferOf(l - 1) = 1 - BufferOf(l)
         /\ BufferOf(l - 2) = BufferOf(l)
BY DEF BufferOf

LEMMA DoubleTypes ==
  ASSUME ImageInv, mode = "double"
  PROVE  /\ mode \in Modes /\ Batch = 1 /\ Made = Lines /\ Buffers = {0, 1}
         /\ i \in 1 .. Lines + 1 /\ cur_buf \in {0, 1} /\ Lines \in Nat \ {0}
         /\ \A b \in Buffers : tags(b) = b
BY BatchIs, ImageAssumption DEF ImageInv, ImageTypeOK, Buffers, tags

LEMMA DoubleGetFirst ==
  ASSUME ImageInv, mode = "double", UNCHANGED mode, GetFirst
  PROVE  ImageInv'
<1> USE DoubleTypes
<1>1. /\ pc = "first" /\ pc' = "next" /\ i = 1 /\ cur_buf = 0
      /\ UNCHANGED <<image, i, cur_buf, in_list, input, output, dst>>
      /\ Issue("get", 0, 1) /\ 1 \in 1 .. Lines
  BY DEF GetFirst, ImageInv, DoublePlace
<1>2. mfc' \subseteq Commands
  BY <1>1, Issued DEF ImageInv
<1>3. PICK new \in Commands :
        /\ new.op = "get" /\ new.buf = 0 /\ new.image = image /\ new.line = 1
        /\ mfc' = mfc \cup {new}
  BY <1>1, Issued DEF ImageInv
<1>4. \A c \in mfc : IsPut(c) /\ ~IsGet(c) /\ MayBeLate(c.line)
  BY <1>1, NothingUnderWay
<1>5. IsGet(new) /\ ~IsPut(new) /\ BufferOf(1) = 0
  BY <1>3, Alternate DEF IsGet, IsPut
<1>6. ImageTypeOK'
  BY <1>1, <1>2, ModeKept DEF ImageInv, ImageTypeOK
<1>7. BatchPlace' /\ DoublePlace'
  BY <1>1, <1>5 DEF ImageInv, BatchPlace, DoublePlace
<1>8. GetsUnderWay' /\ Fetched' /\ PutsUnderWay' /\ BufferFree'
  BY <1>1, <1>3, <1>4, <1>5, ModeKept
  DEF GetsUnderWay, Fetched, Arriving, PutsUnderWay, BufferFree
<1>9. LinesInPlace'
  BY <1>1, <1>3, PlacesKept DEF ImageInv, NextPut
<1> QED BY <1>6, <1>7, <1>8, <1>9 DEF ImageInv

LEMMA DoubleGetNext ==
  ASSUME ImageInv, mode = "double", UNCHANGED mode, GetNext
  PROVE  ImageInv'
<1> USE DoubleTypes
<1>1. /\ pc = "next" /\ pc' = "wait" /\ i \in 1 .. Lines /\ cur_buf = BufferOf(i)
      /\ UNCHANGED <<image, i, cur_buf, in_list, input, output, dst>>
  BY DEF GetNext, ImageInv, DoublePlace
<1>2. CASE i < Lines
  <2>1. Issue("get", 1 - cur_buf, i + 1) /\ 1 - cur_buf \in Buffers /\ i + 1 \in 1 .. Lines
    BY <1>1, <1>2 DEF GetNext
  <2>2. mfc' \subseteq Commands
    BY <2>1, Issued DEF ImageInv
  <2>3. PICK new \in Commands :
          /\ new.op = "get" /\ new.buf = 1 - cur_buf
          /\ new.image = image /\ new.line = i + 1
          /\ mfc' = mfc \cup {new}
    BY <2>1, Issued DEF ImageInv
  <2>4. IsGet(new) /\ ~IsPut(new) /\ new.buf = BufferOf(i + 1)
    BY <1>1, <2>3, Alternate DEF IsGet, IsPut
  <2>5. ImageTypeOK'
    BY <1>1, <2>2, ModeKept DEF ImageInv, ImageTypeOK
  <2>6. BatchPlace' /\ DoublePlace'
    BY <1>1 DEF ImageInv, BatchPlace, DoublePlace
  <2>7. GetsUnderWay'
    BY <1>1, <2>3, <2>4 DEF ImageInv, GetsUnderWay, IsGet
  <2>8. Fetched'
    BY <1>1, <2>3, <2>4 DEF ImageInv, Fetched, Arriving
  <2>9. PutsUnderWay' /\ BufferFree'
    BY <1>1, <2>3, <2>4, ModeKept DEF ImageInv, PutsUnderWay, BufferFree
  <2>10. LinesInPlace'
    BY <1>1, <2>3, PlacesKept DEF ImageInv, NextPut
  <2> QED BY <2>5, <2>6, <2>7, <2>8, <2>9, <2>10 DEF ImageInv
<1>3. CASE i = Lines
  <2>1. UNCHANGED mfc
    BY <1>3 DEF GetNext
  <2>2. ImageTypeOK'
    BY <1>1, <2>1, ModeKept DEF ImageInv, ImageTypeOK
  <2>3. BatchPlace' /\ DoublePlace'
    BY <1>1 DEF ImageInv, BatchPlace, DoublePlace
  <2>4. GetsUnderWay' /\ PutsUnderWay' /\ BufferFree'
    BY <1>1, <2>1, ModeKept DEF ImageInv, GetsUnderWay, PutsUnderWay, BufferFree
  <2>5. Fetched'
    BY <1>1, <1>3, <2>1 DEF ImageInv, Fetched, Arriving
  <2>6. LinesInPlace'
    BY <1>1, <2>1, PlacesKept DEF ImageInv, NextPut
  <2> QED BY <2>2, <2>3, <2>4, <2>5, <2>6 DEF ImageInv
<1> QED BY <1>1, <1>2, <1>3

LEMMA DoubleWait ==
  ASSUME ImageInv, mode = "double", UNCHANGED mode, Wait
  PROVE  ImageInv'
<1> USE DoubleTypes
<1>1. /\ pc = "wait" /\ pc' = "scale" /\ i \in 1 .. Lines /\ cur_buf = BufferOf(i)
      /\ UNCHANGED <<image, i, cur_buf, in_list, input, output, mfc, dst>>
  BY DEF Wait, ImageInv, DoublePlace
<1>2. ASSUME NEW c \in mfc PROVE c.buf # cur_buf
  <2>1. c \in Commands /\ c.op \in {"get", "getl", "put"} /\ c.buf \in Buffers
    BY CommandIs DEF ImageInv, ImageTypeOK
  <2> QED BY <2>1 DEF Wait, WaitTag, Pending
<1>3. ImageTypeOK'
  BY <1>1, ModeKept DEF ImageInv, ImageTypeOK
<1>4. BatchPlace' /\ DoublePlace'
  BY <1>1 DEF ImageInv, BatchPlace, DoublePlace
<1>5. GetsUnderWay'
  BY <1>1, <1>2 DEF ImageInv, GetsUnderWay
<1>6. Fetched'
  <2>1. ASSUME NEW l, Arriving(l) PROVE Arriving(l)'
    BY <1>1, <2>1 DEF Arriving
  <2> QED BY <1>1, <2>1 DEF ImageInv, Fetched, Arriving
<1>7. PutsUnderWay'
  <2>1. ASSUME NEW c \in mfc, IsPut(c), ~MayBeLate(c.line)
        PROVE  c.line = i - 1 /\ c.image = image /\ output[c.buf] = c.line
               /\ c.buf = BufferOf(c.line)
    <3>1. /\ c.line \in {i - 2, i - 1} /\ c.buf = BufferOf(c.line)
          /\ c.image = image /\ output[c.buf] = c.line
      BY <1>1, <2>1 DEF ImageInv, PutsUnderWay
    <3>2. c.line # i - 2
      BY <1>1, <1>2, <3>1, Alternate
    <3> QED BY <3>1, <3>2
  <2> QED BY <1>1, <2>1, ModeKept DEF PutsUnderWay
<1>8. BufferFree'
  BY <1>1, <1>2 DEF BufferFree
<1>9. LinesInPlace'
  BY <1>1, PlacesKept DEF ImageInv, NextPut
<1> QED BY <1>3, <1>4, <1>5, <1>6, <1>7, <1>8, <1>9 DEF ImageInv

LEMMA DoublePut ==
  ASSUME ImageInv, mode = "double", UNCHANGED mode, PutSwap
  PROVE  ImageInv'
<1> USE DoubleTypes
<1>1. /\ pc = "put" /\ i \in 1 .. Lines /\ cur_buf = BufferOf(i)
      /\ UNCHANGED <<image, in_list, input, output, dst>>
      /\ Issue("put", cur_buf, i)
      /\ \/ /\ i < Lines /\ pc' = "next" /\ i' = i + 1 /\ cur_buf' = 1 - cur_buf
         \/ i = Lines /\ pc' = "drain" /\ UNCHANGED <<i, cur_buf>>
  BY DEF PutSwap, ImageInv, DoublePlace
<1>2. mfc' \subseteq Commands
  BY <1>1, Issued DEF ImageInv
<1>3. PICK new \in Commands :
        /\ new.op = "put" /\ new.buf = cur_buf /\ new.image = image /\ new.line = i
        /\ mfc' = mfc \cup {new}
  BY <1>1, Issued DEF ImageInv
<1>4. IsPut(new) /\ ~IsGet(new) /\ i' \in 1 .. Lines /\ cur_buf' = BufferOf(i')
      /\ cur_buf' \in Buffers
  BY <1>1, <1>3, Alternate DEF IsGet, IsPut
<1>5. ImageTypeOK'
  BY <1>1, <1>2, <1>4, ModeKept DEF ImageInv, ImageTypeOK
<1>6. BatchPlace' /\ DoublePlace'
  BY <1>1, <1>4 DEF ImageInv, BatchPlace, DoublePlace
<1>7. GetsUnderWay'
  <2>1. ASSUME NEW c \in mfc, IsGet(c)
        PROVE  c.op = "get" /\ c.buf = BufferOf(c.line) /\ c.line = i + 1
    BY <1>1, <2>1 DEF ImageInv, GetsUnderWay
  <2>2. ASSUME NEW c \in mfc, IsGet(c) PROVE i < Lines
    <3>1. c.line \in 1 .. Lines
      BY CommandIs DEF ImageInv, ImageTypeOK
    <3> QED BY <2>1, <2>2, <3>1
  <2> QED BY <1>1, <1>3, <1>4, <2>1, <2>2 DEF GetsUnderWay
<1>8. Fetched'
  <2>1. \A l : Arriving(l) => Arriving(l)'
    BY <1>3 DEF Arriving
  <2>2. i < Lines => Arriving(i + 1) \/ input[1 - cur_buf] = i + 1
    BY <1>1 DEF ImageInv, Fetched
  <2> QED BY <1>1, <2>1, <2>2 DEF Fetched
<1>9. PutsUnderWay'
  <2>1. ASSUME NEW c \in mfc, IsPut(c), ~MayBeLate(c.line)
        PROVE  /\ c.image = image /\ output[c.buf] = c.line
               /\ c.buf = BufferOf(c.line) /\ c.line = i - 1
    BY <1>1, <2>1 DEF ImageInv, PutsUnderWay
  <2>2. output[cur_buf] = i
    BY <1>1 DEF ImageInv, BufferFree
  <2>3. i = Lines => MayBeLate(i - 1)
    BY DEF MayBeLate
  <2> QED BY <1>1, <1>3, <2>1, <2>2, <2>3, ModeKept DEF PutsUnderWay
<1>10. BufferFree'
  BY <1>1 DEF BufferFree
<1>11. LinesInPlace'
  <2>1. NextPut = i /\ NextPut' = i + 1
    BY <1>1 DEF NextPut
  <2> QED BY <1>1, <1>3, <2>1, PlacePut DEF ImageInv
<1> QED BY <1>5, <1>6, <1>7, <1>8, <1>9, <1>10, <1>11 DEF ImageInv

LEMMA DoubleDrain ==
  ASSUME ImageInv, mode = "double", UNCHANGED mode, Drain
  PROVE  ImageInv'
<1> USE DoubleTypes
<1>1. /\ pc = "drain" /\ pc' = "first" /\ i = Lines /\ i' = Lines + 1 /\ cur_buf' = 0
      /\ cur_buf = BufferOf(i)
      /\ UNCHANGED <<image, in_list, input, output, mfc, dst>>
  BY DEF Drain, ImageInv, DoublePlace
<1>2. ASSUME NEW c \in mfc PROVE c.buf # cur_buf
  <2>1. c \in Commands /\ c.op \in {"get", "getl", "put"} /\ c.buf \in Buffers
    BY CommandIs DEF ImageInv, ImageTypeOK
  <2> QED BY <2>1 DEF Drain, WaitTag, Pending
<1>3. ASSUME NEW c \in mfc PROVE ~IsGet(c) /\ (IsPut(c) => MayBeLate(c.line))
  BY <1>1, <1>2 DEF ImageInv, GetsUnderWay, PutsUnderWay
<1>4. ImageTypeOK'
  BY <1>1, ModeKept DEF ImageInv, ImageTypeOK
<1>5. BatchPlace' /\ DoublePlace'
  BY <1>1 DEF ImageInv, BatchPlace, DoublePlace
<1>6. GetsUnderWay' /\ Fetched' /\ PutsUnderWay' /\ BufferFree'
  BY <1>1, <1>3, ModeKept DEF GetsUnderWay, Fetched, PutsUnderWay, BufferFree
<1>7. LinesInPlace'
  BY <1>1, PlacesKept DEF ImageInv, NextPut
<1> QED BY <1>4, <1>5, <1>6, <1>7 DEF ImageInv

------------------------------------------------------------------------------
(* The steps of the MFC.                                                   *)
LEMMA GetKeepsPlaces ==
  ASSUME ImageInv, UNCHANGED <<mode, pc, image, i, dst>>,
         NEW c \in mfc, ~IsPut(c), mfc' = mfc \ {c}
  PROVE  LinesInPlace'
<1>1. \A l : Leaving(l)' <=> Leaving(l)
  BY DEF Leaving
<1> QED BY <1>1, ModeKept DEF ImageInv, LinesInPlace, ImageOver, NextPut

LEMMA ExecuteGet ==
  ASSUME ImageInv, UNCHANGED <<mode, pc, image, i, cur_buf, in_list, output, dst>>,
         NEW c \in mfc, IsGet(c), mfc' = mfc \ {c},
         input' = IF c.op = "get"
                  THEN [b \in Buffers |-> IF b \in c.buf .. c.buf + Batch - 1
                                         THEN c.line + b - c.buf ELSE input[b]]
                  ELSE [b \in Buffers |-> in_list + b]
  PROVE  ImageInv'
<1>1. /\ c \in Commands /\ ~IsPut(c) /\ c.op \in {"get", "getl"}
      /\ c.buf \in Buffers /\ c.line \in 1 .. Lines
      /\ mode \in Modes /\ Batch \in Nat \ {0} /\ Made \in 0 .. Lines /\ Lines \in Nat
      /\ i \in 1 .. Lines + 1
  BY CommandIs, BatchIs, ImageAssumption DEF ImageInv, ImageTypeOK, IsGet
<1>2. CASE mode # "double"
  <2>1. /\ pc = "wait" /\ c.buf = 0 /\ c.line = i /\ cur_buf = 0
        /\ c.op = "getl" => in_list = i
        /\ i \in BatchStarts /\ i <= Made /\ i + Batch - 1 <= Made /\ i - cur_buf = i
        /\ Buffers = 0 .. Batch - 1
    <3>1. pc = "wait" /\ c.buf = 0 /\ c.line = i /\ (c.op = "getl" => mode = "dmalist")
      BY <1>1, <1>2 DEF ImageInv, GetsUnderWay
    <3>2. /\ cur_buf = 0 /\ i - cur_buf \in BatchStarts /\ i - cur_buf <= Made
          /\ mode = "dmalist" => in_list = i
      BY <1>2, <3>1 DEF ImageInv, BatchPlace, InBatch
    <3>3. i - cur_buf = i
      BY <1>1, <3>2
    <3>4. i + Batch - 1 <= Made
      BY <1>1, <3>2, <3>3, BatchStart
    <3> QED BY <1>2, <3>1, <3>2, <3>3, <3>4 DEF Buffers
  <2>2. ASSUME NEW b \in Buffers
        PROVE  input'[b] = i + b /\ i + b \in 1 .. Lines
    BY <1>1, <2>1
  <2>3. input' \in [Buffers -> Content]
    <3>1. \A b \in Buffers : input'[b] \in Content
      BY <2>2 DEF Content
    <3>2. \E f : input' = [b \in Buffers |-> f[b]]
      <4>1. CASE c.op = "get"
        <5> DEFINE f == [b \in Buffers |-> IF b \in c.buf .. c.buf + Batch - 1
                                         THEN c.line + b - c.buf ELSE input[b]]
        <5>1. input' = [b \in Buffers |-> f[b]]
          BY <4>1
        <5> QED BY <5>1
      <4>2. CASE c.op # "get"
        <5> DEFINE f == [b \in Buffers |-> in_list + b]
        <5>1. input' = [b \in Buffers |-> f[b]]
          BY <4>2
        <5> QED BY <5>1
      <4> QED BY <4>1, <4>2
    <3> QED BY <3>1, <3>2
  <2>4. ImageTypeOK'
    BY <2>3, ModeKept DEF ImageInv, ImageTypeOK
  <2>5. BatchPlace' /\ DoublePlace'
    BY ModeKept DEF ImageInv, BatchPlace, DoublePlace, InBatch
  <2>6. GetsUnderWay' /\ PutsUnderWay' /\ BufferFree'
    BY ModeKept DEF ImageInv, GetsUnderWay, PutsUnderWay, BufferFree
  <2>7. Fetched'
    BY <1>2, <2>1, <2>2, ModeKept DEF Fetched
  <2> QED BY <1>1, <2>4, <2>5, <2>6, <2>7, GetKeepsPlaces DEF ImageInv
<1>3. CASE mode = "double"
  <2>1. /\ Batch = 1 /\ Buffers = {0, 1} /\ cur_buf \in {0, 1}
        /\ c.op = "get" /\ c.buf = BufferOf(c.line) /\ c.line \in {i, i + 1}
        /\ pc \in {"next", "wait", "scale", "put"} /\ cur_buf = BufferOf(i)
    BY <1>1, <1>3, DoubleTypes DEF ImageInv, GetsUnderWay, DoublePlace
  <2>2. input' = [input EXCEPT ![c.buf] = c.line]
    <3>1. \A b \in Buffers : b \in c.buf .. c.buf + Batch - 1 <=> b = c.buf
      BY <1>1, <2>1
    <3>2. c.line + c.buf - c.buf = c.line
      BY <1>1, <2>1
    <3> QED BY <1>1, <2>1, <3>1, <3>2 DEF ImageInv, ImageTypeOK
  <2>3. /\ input'[c.buf] = c.line
        /\ \A b \in Buffers \ {c.buf} : input'[b] = input[b]
    BY <1>1, <2>2 DEF ImageInv, ImageTypeOK
  <2>4. ImageTypeOK'
    BY <1>1, <2>2, ModeKept DEF ImageInv, ImageTypeOK, Content
  <2>5. BatchPlace' /\ DoublePlace'
    BY ModeKept DEF ImageInv, BatchPlace, DoublePlace, InBatch
  <2>6. GetsUnderWay' /\ PutsUnderWay' /\ BufferFree'
    BY ModeKept DEF ImageInv, GetsUnderWay, PutsUnderWay, BufferFree
  <2>7. Fetched'
    <3>1. BufferOf(i + 1) = 1 - cur_buf /\ 1 - cur_buf \in Buffers
      BY <1>1, <2>1, Alternate
    <3>2. ASSUME NEW l, Arriving(l), l # c.line PROVE Arriving(l)'
      BY <3>2 DEF Arriving
    <3>3. Arriving(i)' \/ input'[cur_buf] = i
      <4>1. Arriving(i) \/ input[cur_buf] = i
        BY <1>3, <2>1 DEF ImageInv, Fetched
      <4>2. CASE c.line = i
        BY <2>1, <2>3, <4>2
      <4>3. CASE c.line = i + 1
        <5>1. \A l : l = i /\ Arriving(l) => Arriving(l)'
          BY <1>1, <3>2, <4>3
        <5>2. input'[cur_buf] = input[cur_buf]
          BY <2>1, <2>3, <3>1, <4>3
        <5> QED BY <4>1, <5>1, <5>2
      <4> QED BY <2>1, <4>2, <4>3
    <3>4. ASSUME pc \in {"wait", "scale", "put"}, i < Lines
          PROVE  Arriving(i + 1)' \/ input'[1 - cur_buf] = i + 1
      <4>1. Arriving(i + 1) \/ input[1 - cur_buf] = i + 1
        BY <1>3, <3>4 DEF ImageInv, Fetched
      <4>2. CASE c.line = i + 1
        BY <2>1, <2>3, <3>1, <4>2
      <4>3. CASE c.line = i
        <5>1. \A l : l = i + 1 /\ Arriving(l) => Arriving(l)'
          BY <1>1, <3>2, <4>3
        <5>2. input'[1 - cur_buf] = input[1 - cur_buf]
          BY <2>1, <2>3, <3>1, <4>3
        <5> QED BY <4>1, <5>1, <5>2
      <4> QED BY <2>1, <4>2, <4>3
    <3> QED BY <1>3, <3>3, <3>4 DEF Fetched
  <2> QED BY <1>1, <2>4, <2>5, <2>6, <2>7, GetKeepsPlaces DEF ImageInv
<1> QED BY <1>2, <1>3

LEMMA ExecutePut ==
  ASSUME ImageInv, UNCHANGED <<mode, pc, image, i, cur_buf, in_list, input, output>>,
         NEW c \in mfc, IsPut(c), mfc' = mfc \ {c},
         dst' = [dst EXCEPT ![c.image][c.line] = output[c.buf]]
  PROVE  ImageInv'
<1>1. /\ c \in Commands /\ ~IsGet(c) /\ c.buf \in Buffers
      /\ c.image \in 1 .. Images /\ c.line \in 1 .. Lines
      /\ mode \in Modes
  BY CommandIs DEF ImageInv, ImageTypeOK
<1>2. /\ dst' \in [1 .. Images -> [1 .. Lines -> Content]]
      /\ \A m \in 1 .. Images, l \in 1 .. Lines :
           dst'[m][l] = IF m = c.image /\ l = c.line THEN output[c.buf] ELSE dst[m][l]
  BY <1>1 DEF ImageInv, ImageTypeOK
<1>3. ImageTypeOK'
  BY <1>2, ModeKept DEF ImageInv, ImageTypeOK
<1>4. BatchPlace' /\ DoublePlace'
  BY ModeKept DEF ImageInv, BatchPlace, DoublePlace, InBatch
<1>5. GetsUnderWay' /\ PutsUnderWay' /\ BufferFree'
  BY ModeKept DEF ImageInv, GetsUnderWay, PutsUnderWay, BufferFree
<1>6. Fetched'
  <2>1. \A l : Arriving(l)' <=> Arriving(l)
    BY <1>1 DEF Arriving
  <2> QED BY <2>1, ModeKept DEF ImageInv, Fetched
<1>7. LinesInPlace'
  <2>1. ASSUME NEW l, Leaving(l), l # c.line PROVE Leaving(l)'
    BY <2>1 DEF Leaving
  <2>2. ASSUME ~MayBeLate(c.line)
        PROVE  c.image = image /\ output[c.buf] = c.line /\ c.line < NextPut
               /\ ~ImageOver(image)
    <3>1. /\ c.image = image /\ output[c.buf] = c.line
          /\ IF mode # "double"
             THEN /\ pc \in {"scale", "put", "drain"} /\ c.line = i - cur_buf + c.buf
                  /\ c.buf < cur_buf \/ (pc = "drain" /\ c.buf = cur_buf)
             ELSE \/ pc \in {"next", "wait", "scale", "put"} /\ c.line \in {i - 2, i - 1}
                  \/ pc = "drain" /\ c.line = i
      BY <2>2 DEF ImageInv, PutsUnderWay
    <3>2. i \in Int /\ cur_buf \in Int /\ c.buf \in Int /\ image \in Int
      BY <1>1, BatchIs, ImageAssumption DEF ImageInv, ImageTypeOK, Buffers
    <3> QED BY <3>1, <3>2 DEF NextPut, ImageOver
  <2>3. ASSUME NEW m \in 1 .. Images, NEW l \in 1 .. Lines, ~MayBeLate(l)
        PROVE  /\ ImageOver(m) => dst'[m][l] = IF l <= Made THEN l ELSE Blank
               /\ ~ImageOver(m) =>
                    IF m = image /\ l < NextPut
                    THEN dst'[m][l] = l \/ (dst'[m][l] = Blank /\ Leaving(l)')
                    ELSE dst'[m][l] = Blank
    <3>1. CASE m = c.image /\ l = c.line
      BY <1>2, <2>2, <2>3, <3>1
    <3>2. CASE ~(m = c.image /\ l = c.line)
      <4>1. dst'[m][l] = dst[m][l]
        BY <1>2, <3>2
      <4>2. ASSUME m = image, l = c.line PROVE FALSE
        BY <2>2, <2>3, <3>2, <4>2
      <4> QED BY <2>1, <2>3, <4>1, <4>2 DEF ImageInv, LinesInPlace
    <3> QED BY <3>1, <3>2
  <2> QED BY <2>3, ModeKept DEF LinesInPlace, ImageOver, NextPut
<1> QED BY <1>3, <1>4, <1>5, <1>6, <1>7 DEF ImageInv

LEMMA ImageInvStep == ImageInv /\ [ImageNext]_imageVars => ImageInv'
<1> SUFFICES ASSUME ImageInv, [ImageNext]_imageVars PROVE ImageInv'
  OBVIOUS
<1>1. CASE Program
  <2>1. CASE mode # "double"
    BY <1>1, <2>1, BatchGet, BatchWait, ScaleStep, BatchPut, BatchDrain, EndImageStep,
       NotifyStep
    DEF Program, process_image_simple, process_image_2lines, process_image_double,
        process_image_dmalist
  <2>2. CASE mode = "double"
    BY <1>1, <2>2, DoubleGetFirst, DoubleGetNext, DoubleWait, ScaleStep, DoublePut,
       DoubleDrain, EndImageStep, NotifyStep
    DEF Program, process_image_simple, process_image_2lines, process_image_double,
        process_image_dmalist
  <2> QED BY <2>1, <2>2
<1>2. CASE Transfer
  <2>1. PICK c \in mfc :
          /\ mfc' = mfc \ {c}
          /\ CASE c.op = "get" ->
                    /\ input' = [b \in Buffers |-> IF b \in c.buf .. c.buf + Batch - 1
                                                   THEN c.line + b - c.buf ELSE input[b]]
                    /\ UNCHANGED dst
               [] c.op = "getl" ->
                    /\ input' = [b \in Buffers |-> in_list + b]
                    /\ UNCHANGED dst
               [] c.op = "put" ->
                    /\ dst' = [dst EXCEPT ![c.image][c.line] = output[c.buf]]
                    /\ UNCHANGED input
          /\ UNCHANGED <<mode, pc, image, i, cur_buf, in_list, output>>
    BY <1>2 DEF Transfer
  <2>2. c \in Commands /\ c.op \in {"get", "getl", "put"}
    BY CommandIs DEF ImageInv, ImageTypeOK
  <2>3. CASE c.op = "put"
    <3>1. IsPut(c) /\ UNCHANGED input
          /\ dst' = [dst EXCEPT ![c.image][c.line] = output[c.buf]]
      BY <2>1, <2>3 DEF IsPut
    <3> QED BY <2>1, <3>1, ExecutePut
  <2>4. CASE c.op # "put"
    <3>1. IsGet(c) /\ UNCHANGED dst
      BY <2>1, <2>2, <2>4 DEF IsGet
    <3>2. input' = IF c.op = "get"
                   THEN [b \in Buffers |-> IF b \in c.buf .. c.buf + Batch - 1
                                          THEN c.line + b - c.buf ELSE input[b]]
                   ELSE [b \in Buffers |-> in_list + b]
      BY <2>1, <2>2, <2>4
    <3> QED BY <2>1, <3>1, <3>2, ExecuteGet
  <2> QED BY <2>3, <2>4
<1>3. CASE UNCHANGED imageVars
  BY <1>3, ModeKept
  DEF imageVars, ImageInv, ImageTypeOK, BatchPlace, DoublePlace, InBatch, GetsUnderWay,
      Fetched, Arriving, PutsUnderWay, BufferFree, LinesInPlace, ImageOver, NextPut,
      Leaving
<1> QED BY <1>1, <1>2, <1>3 DEF ImageNext

LEMMA ImageInvAlways == ImageSpec => []ImageInv
BY ImageInvInit, ImageInvStep, PTL DEF ImageSpec

------------------------------------------------------------------------------
(* The program and the MFC keep to their types, in every mode.             *)
THEOREM ImageTyped == ImageSpec => []ImageTypeOK
<1>1. ImageInv => ImageTypeOK
  BY DEF ImageInv
<1> QED BY <1>1, ImageInvAlways, PTL

(* One wait per buffer and batch is enough: what is scaled has arrived,    *)
(* and what is overwritten has left (spu.c:92, 136, 207, 218, 246, 348,    *)
(* 381).                                                                   *)
THEOREM NoRaceForABuffer == ImageSpec => []NoDataRace
<1>1. ImageInv => NoDataRace
  <2> SUFFICES ASSUME ImageInv, pc \in {"scale", "put"}
               PROVE  /\ Pending({"get", "getl"}, tags(cur_buf)) = {}
                      /\ \A c \in Pending({"put"}, tags(cur_buf)) : c.buf # cur_buf
                      /\ input[cur_buf] = i
    BY DEF NoDataRace
  <2>1. i \in Int /\ cur_buf \in Buffers /\ cur_buf \in Int
    BY BatchIs, ImageAssumption DEF ImageInv, ImageTypeOK, Buffers
  <2>2. ASSUME NEW c \in mfc, IsGet(c) PROVE tags(c.buf) # tags(cur_buf)
    BY <2>2, DoubleTypes, CommandIs
    DEF ImageInv, ImageTypeOK, GetsUnderWay, BufferFree
  <2>3. ASSUME NEW c \in mfc, IsPut(c) PROVE c.buf # cur_buf
    <3>1. CASE mode = "double"
      BY <3>1 DEF ImageInv, BufferFree
    <3>2. CASE mode # "double"
      BY <2>1, <2>3, <3>2 DEF ImageInv, PutsUnderWay, MayBeLate
    <3> QED BY <3>1, <3>2
  <2>4. ~Arriving(i)
    BY <2>1 DEF ImageInv, GetsUnderWay, Arriving
  <2>5. input[cur_buf] = i
    BY <2>1, <2>4 DEF ImageInv, Fetched
  <2> QED BY <2>2, <2>3, <2>5 DEF Pending, IsGet, IsPut
<1> QED BY <1>1, ImageInvAlways, PTL

(* Every line of every whole batch is where it belongs when its image is   *)
(* over, and never anywhere else, but for the line before the last of the  *)
(* mode double (spu.c:85, 204, 344, 414).                                  *)
THEOREM OtherLinesStored == ImageSpec => []OthersStored
<1>1. ImageInv => OthersStored
  BY DEF ImageInv, LinesInPlace, OthersStored, ImageOver
<1> QED BY <1>1, ImageInvAlways, PTL
==============================================================================
