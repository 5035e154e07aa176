-------------------------- MODULE CellPreviewProofs --------------------------
(***************************************************************************)
(* Theorems about CellPreview, for every number of streams, of SPUs that   *)
(* divides it and of frames, mailboxes of any depth and every mode: each   *)
(* SPU gets its share, no frame is freed too early or left unfinished, but *)
(* for the lines that mode double leaves pending, and the program takes no *)
(* step but those of the abstract Preview.                                 *)
(***************************************************************************)
EXTENDS CellPreview, FiniteSetTheorems, SequenceTheorems, TLAPS

(* Whom a stream is dealt to, and how many of the first m go to SPU k.     *)
Owner(s) == s % num_spu_threads
Round(s) == s \div num_spu_threads
DealtAt(m, k) == IF k < Owner(m) THEN Round(m) + 1 ELSE Round(m)

(* The images dealt to SPU k in this frame.                                *)
Dealt(k) ==
  CASE ppu = "send" -> DealtAt(j, k)
    [] ppu = "wait" -> Share
    [] OTHER        -> 0

(* Where an SPU is in a frame: it has taken some of the images dealt to it,*)
(* it scales its whole share, or it has only its message left to send.     *)
Collecting(k) ==
  /\ spu[k] = "collect" /\ out_intr[k] = 0
  /\ Len(data[k]) < Share /\ Len(in_mbox[k]) + Len(data[k]) = Dealt(k)

Processing(k) ==
  /\ spu[k] = "process" /\ out_intr[k] = 0
  /\ Dealt(k) = Share /\ in_mbox[k] = <<>> /\ data[k] # <<>>

Finished(k) ==
  /\ Dealt(k) = Share /\ in_mbox[k] = <<>> /\ data[k] = <<>>
  /\ \/ spu[k] = "notify" /\ out_intr[k] = 0
     \/ spu[k] = "collect" /\ (out_intr[k] = 1 \/ ppu = "wait")

(* Where it is between the frames, and after the last one.                 *)
Idle(k) ==
  spu[k] = "collect" /\ in_mbox[k] = <<>> /\ data[k] = <<>> /\ out_intr[k] = 0

Leaving(k) ==
  /\ data[k] = <<>> /\ out_intr[k] = 0
  /\ \/ spu[k] = "collect" /\ in_mbox[k] = <<Die>>
     \/ spu[k] = "ended" /\ in_mbox[k] = <<>>

Told(k) == ppu = "join" \/ (ppu = "die" /\ k < j)

SPUPlace(k) ==
  IF ppu \in {"send", "wait"} THEN Collecting(k) \/ Processing(k) \/ Finished(k)
  ELSE IF Told(k) THEN Leaving(k) ELSE Idle(k)

SPUPlaces == \A k \in SPUs : SPUPlace(k)

PPUPlace ==
  /\ ppu = "send" => j < NumStreams
  /\ ppu = "die" => j < num_spu_threads
  /\ ppu \in {"wait", "write"} => j = 0
  /\ ppu \in {"read", "send", "wait", "write"} => frame <= NumFrames
  /\ ppu \in {"send", "wait", "write"} => input = frame
  /\ wait_failed => ppu = "wait"

OwnImages ==
  \A k \in SPUs :
    /\ \A s \in Elements(data[k]) : Owner(s) = k
    /\ ppu \in {"send", "wait"} =>
         \A s \in Elements(in_mbox[k]) : s \in Streams /\ Owner(s) = k

(* An image dealt is still to be scaled, or is in its place.               *)
Unscaled(s) == s \in Elements(in_mbox[Owner(s)]) \cup Elements(data[Owner(s)])

ImagesPlaced ==
  \A s \in Streams :
    (ppu = "send" /\ s < j) \/ ppu \in {"wait", "write"} =>
      Unscaled(s) \/ big_image[s] = frame

(* The events counted are those of the SPUs with nothing left to do, less  *)
(* the one that a failed call took off.                                    *)
AtWork ==
  {k \in SPUs : \/ in_mbox[k] # <<>> \/ data[k] # <<>>
                \/ spu[k] = "notify" \/ out_intr[k] = 1}

EventsCounted ==
  ppu = "wait" =>
    total_ev + Cardinality(AtWork) + (IF wait_failed THEN 1 ELSE 0) = num_spu_threads

FramesWritten ==
  /\ ppu \in {"read", "send", "wait", "write"} => Len(written) = frame - 1
  /\ ppu \in {"die", "join"} => Len(written) = NumFrames

(* The last image of a share comes last: once it is dealt, nothing stands  *)
(* behind it.                                                              *)
LastOf(k) == NumStreams - num_spu_threads + k

LastComesLast(k) ==
  Dealt(k) = Share =>
    /\ in_mbox[k] # <<>> => in_mbox[k][Len(in_mbox[k])] = LastOf(k)
    /\ in_mbox[k] = <<>> /\ data[k] # <<>> => data[k][Len(data[k])] = LastOf(k)

(* So a put that is pending when the share is done is of that image.       *)
PutOfLast(k) ==
  \A s \in pending[k] : mode = "double" /\ (Processing(k) \/ s = LastOf(k))

InOrder == \A k \in SPUs : LastComesLast(k) /\ PutOfLast(k)

CellInv ==
  /\ CellTypeOK /\ PPUPlace /\ SPUPlaces /\ OwnImages /\ ImagesPlaced
  /\ EventsCounted /\ FramesWritten /\ InOrder

------------------------------------------------------------------------------
(* Arithmetic of the dealing.                                              *)
LEMMA Numbers ==
  /\ num_spu_threads \in Nat \ {0} /\ Share \in Nat \ {0}
  /\ NumStreams = num_spu_threads * Share /\ NumStreams \in Nat \ {0}
  /\ NumFrames \in Nat \ {0} /\ InMboxDepth \in Nat \ {0}
<1> DEFINE n == num_spu_threads
<1>1. n \in Nat \ {0} /\ NumStreams \in Nat \ {0} /\ n <= NumStreams /\ NumStreams % n = 0
  BY CellAssumption
<1>2. Share \in Nat /\ NumStreams = n * Share + 0
  BY <1>1 DEF Share
<1> QED BY <1>1, <1>2, CellAssumption

LEMMA Division ==
  ASSUME NEW d \in Nat \ {0}, NEW m \in Nat
  PROVE  /\ m \div d \in Nat /\ m % d \in 0 .. d - 1
         /\ m = d * (m \div d) + (m % d)
OBVIOUS

LEMMA QuotientIs ==
  ASSUME NEW d \in Nat \ {0}, NEW q \in Nat, NEW r \in 0 .. d - 1,
         NEW m \in Nat, m = d * q + r
  PROVE  m \div d = q /\ m % d = r
<1> DEFINE p == m \div d
<1>1. p \in Nat /\ m % d \in 0 .. d - 1 /\ m = d * p + (m % d)
  BY Division
<1> HIDE DEF p
<1>2. ~ (p < q)
  <2> SUFFICES ASSUME p < q PROVE FALSE
    OBVIOUS
  <2>1. PICK e \in Nat : q = p + 1 + e
    <3>1. q - (p + 1) \in Nat /\ q = p + 1 + (q - (p + 1))
      BY <1>1
    <3> QED BY <3>1
  <2>2. d * q = d * p + d + d * e /\ d * e \in Nat
    BY <1>1, <2>1
  <2> QED BY <1>1, <2>2
<1>3. ~ (q < p)
  <2> SUFFICES ASSUME q < p PROVE FALSE
    OBVIOUS
  <2>1. PICK e \in Nat : p = q + 1 + e
    <3>1. p - (q + 1) \in Nat /\ p = q + 1 + (p - (q + 1))
      BY <1>1
    <3> QED BY <3>1
  <2>2. d * p = d * q + d + d * e /\ d * e \in Nat
    BY <2>1
  <2> QED BY <1>1, <2>2
<1>4. p = q
  BY <1>1, <1>2, <1>3
<1> QED BY <1>1, <1>4 DEF p

LEMMA DealingStarts ==
  ASSUME NEW k \in SPUs
  PROVE  DealtAt(0, k) = 0 /\ DealtAt(NumStreams, k) = Share
<1>1. Round(0) = 0 /\ Owner(0) = 0 /\ Round(NumStreams) = Share /\ Owner(NumStreams) = 0
  BY Numbers, QuotientIs DEF Round, Owner
<1> QED BY <1>1 DEF DealtAt, SPUs

LEMMA DealingGoesOn ==
  ASSUME NEW m \in 0 .. NumStreams - 1, NEW k \in SPUs
  PROVE  /\ Owner(m) \in SPUs
         /\ DealtAt(m, k) \in 0 .. Share
         /\ DealtAt(m + 1, k) = DealtAt(m, k) + (IF k = Owner(m) THEN 1 ELSE 0)
         /\ DealtAt(m, Owner(m)) < Share
<1> DEFINE n == num_spu_threads
           q == Round(m)
           r == Owner(m)
<1>1. /\ q \in Nat /\ r \in 0 .. n - 1 /\ m = n * q + r
      /\ m \in Nat /\ n \in Nat \ {0} /\ k \in 0 .. n - 1
      /\ Share \in Nat \ {0} /\ NumStreams = n * Share
  <2>1. m \in Nat /\ n \in Nat \ {0} /\ Share \in Nat \ {0} /\ NumStreams = n * Share
    BY Numbers
  <2>2. k \in 0 .. n - 1
    BY DEF SPUs
  <2> QED BY <2>1, <2>2, Division DEF Round, Owner
<1> HIDE DEF q, r
<1>2. q < Share
  <2> SUFFICES ASSUME ~ (q < Share) PROVE FALSE
    OBVIOUS
  <2>1. PICK e \in Nat : q = Share + e
    <3>1. q - Share \in Nat /\ q = Share + (q - Share)
      BY <1>1
    <3> QED BY <3>1
  <2>2. n * q = n * Share + n * e /\ n * e \in Nat
    BY <1>1, <2>1
  <2> QED BY <1>1, <2>2
<1>3. DealtAt(m, k) = (IF k < r THEN q + 1 ELSE q) /\ DealtAt(m, r) = q
  BY <1>1 DEF DealtAt, q, r
<1>4. CASE r + 1 < n
  <2>1. Round(m + 1) = q /\ Owner(m + 1) = r + 1
    BY <1>1, <1>4, QuotientIs DEF Round, Owner
  <2> QED BY <1>1, <1>2, <1>3, <2>1 DEF DealtAt, r, SPUs
<1>5. CASE r + 1 = n
  <2>1. m + 1 = n * (q + 1) + 0
    BY <1>1, <1>5
  <2>2. Round(m + 1) = q + 1 /\ Owner(m + 1) = 0
    BY <1>1, <2>1, QuotientIs DEF Round, Owner
  <2> QED BY <1>1, <1>2, <1>3, <1>5, <2>2 DEF DealtAt, r, SPUs
<1> QED BY <1>1, <1>4, <1>5

LEMMA LastDealt ==
  ASSUME NEW m \in 0 .. NumStreams - 1, DealtAt(m, Owner(m)) + 1 = Share
  PROVE  m = LastOf(Owner(m))
<1> DEFINE n == num_spu_threads
           q == Round(m)
           r == Owner(m)
<1>1. /\ q \in Nat /\ r \in 0 .. n - 1 /\ m = n * q + r
      /\ n \in Nat \ {0} /\ Share \in Nat \ {0} /\ NumStreams = n * Share
  <2>1. m \in Nat /\ n \in Nat \ {0} /\ Share \in Nat \ {0} /\ NumStreams = n * Share
    BY Numbers
  <2> QED BY <2>1, Division DEF Round, Owner
<1>2. DealtAt(m, r) = q
  BY <1>1 DEF DealtAt
<1>3. q + 1 = Share
  BY <1>2
<1> HIDE DEF q, r
<1>4. NumStreams = n * q + n
  BY <1>1, <1>3
<1>5. n * q \in Nat
  BY <1>1
<1>6. NumStreams - n + r = m
  BY <1>1, <1>4, <1>5
<1> QED BY <1>6 DEF LastOf, r

LEMMA LastOfIsLast ==
  ASSUME NEW k \in SPUs
  PROVE  LastOfShare(LastOf(k))
BY Numbers DEF SPUs, LastOf, LastOfShare

------------------------------------------------------------------------------
(* What is in a sequence.                                                  *)
LEMMA InEmpty == Elements(<<>>) = {}
BY DEF Elements

LEMMA InAppend ==
  ASSUME NEW S, NEW s \in Seq(S), NEW x \in S
  PROVE  Elements(Append(s, x)) = Elements(s) \cup {x}
<1>1. /\ Len(s) \in Nat /\ DOMAIN s = 1 .. Len(s)
      /\ DOMAIN Append(s, x) = 1 .. Len(s) + 1
      /\ \A l \in 1 .. Len(s) : Append(s, x)[l] = s[l]
      /\ Append(s, x)[Len(s) + 1] = x
  BY AppendProperties, LenProperties
<1>2. \A l : l \in 1 .. Len(s) + 1 <=> l \in 1 .. Len(s) \/ l = Len(s) + 1
  BY <1>1
<1> QED BY <1>1, <1>2 DEF Elements

LEMMA InHeadTail ==
  ASSUME NEW S, NEW s \in Seq(S), s # <<>>
  PROVE  Elements(s) = {Head(s)} \cup Elements(Tail(s))
<1>1. /\ Len(s) \in Nat \ {0} /\ DOMAIN s = 1 .. Len(s)
      /\ DOMAIN Tail(s) = 1 .. Len(s) - 1
      /\ \A l \in 1 .. Len(s) - 1 : Tail(s)[l] = s[l + 1]
      /\ Head(s) = s[1]
  BY EmptySeq, HeadTailProperties, LenProperties
<1>2. \A l \in 1 .. Len(s) : l = 1 \/ (l - 1 \in 1 .. Len(s) - 1 /\ l = (l - 1) + 1)
  BY <1>1
<1>3. 1 \in 1 .. Len(s) /\ \A l \in 1 .. Len(s) - 1 : l + 1 \in 1 .. Len(s)
  BY <1>1
<1> DEFINE t == Tail(s)
<1>4. Elements(s) = {s[l] : l \in 1 .. Len(s)} /\ Elements(t) = {t[l] : l \in 1 .. Len(s) - 1}
  BY <1>1 DEF Elements
<1>5. Elements(t) = {s[l + 1] : l \in 1 .. Len(s) - 1}
  BY <1>1, <1>4
<1> HIDE DEF t
<1>6. ASSUME NEW e PROVE e \in Elements(s) <=> e = s[1] \/ e \in Elements(t)
  <2>1. ASSUME e \in Elements(s) PROVE e = s[1] \/ e \in Elements(t)
    <3>1. PICK l \in 1 .. Len(s) : e = s[l]
      BY <1>4, <2>1
    <3> QED BY <1>2, <1>5, <3>1
  <2>2. ASSUME e = s[1] \/ e \in Elements(t) PROVE e \in Elements(s)
    BY <1>3, <1>4, <1>5, <2>2
  <2> QED BY <2>1, <2>2
<1> QED BY <1>1, <1>6 DEF t

(* The last element stays the last when the head is taken.                 *)
LEMMA LastOfTail ==
  ASSUME NEW S, NEW s \in Seq(S), s # <<>>
  PROVE  /\ Tail(s) # <<>> => Tail(s)[Len(Tail(s))] = s[Len(s)] /\ Len(s) > 1
         /\ Tail(s) = <<>> => Head(s) = s[Len(s)] /\ Len(s) = 1
<1> DEFINE t == Tail(s)
           n == Len(s)
<1>1. /\ n \in Nat \ {0} /\ Head(s) = s[1] /\ t \in Seq(S) /\ Len(t) = n - 1
      /\ \A l \in 1 .. n - 1 : t[l] = s[l + 1]
      /\ Len(t) = 0 <=> t = <<>>
  <2>1. n \in Nat \ {0} /\ Head(s) = s[1]
    BY EmptySeq, HeadTailProperties, LenProperties
  <2>2. t \in Seq(S) /\ Len(t) = n - 1 /\ \A l \in 1 .. n - 1 : t[l] = s[l + 1]
    BY HeadTailProperties, LenProperties
  <2>3. Len(t) = 0 <=> t = <<>>
    BY <2>2, EmptySeq
  <2> QED BY <2>1, <2>2, <2>3
<1> HIDE DEF t, n
<1>2. CASE n = 1
  BY <1>1, <1>2 DEF t, n
<1>3. CASE n > 1
  <2>1. n - 1 \in 1 .. n - 1 /\ (n - 1) + 1 = n /\ n - 1 # 0
    BY <1>1, <1>3
  <2> QED BY <1>1, <1>3, <2>1 DEF t, n
<1> QED BY <1>1, <1>2, <1>3

LEMMA OwnerOf == \A s \in Streams : Owner(s) \in SPUs
<1> SUFFICES ASSUME NEW s \in Streams PROVE Owner(s) \in SPUs
  OBVIOUS
<1>1. 0 \in SPUs /\ s \in 0 .. NumStreams - 1
  BY Numbers DEF SPUs, Streams
<1> QED BY <1>1, DealingGoesOn

(* What the types say of SPU k.                                            *)
LEMMA AtSPU ==
  ASSUME CellTypeOK, NEW k \in SPUs
  PROVE  /\ in_mbox[k] \in Seq(Streams \cup {Die}) /\ data[k] \in Seq(Streams)
         /\ Len(in_mbox[k]) \in Nat /\ Len(data[k]) \in Nat
         /\ Len(in_mbox[k]) = 0 <=> in_mbox[k] = <<>>
         /\ Len(data[k]) = 0 <=> data[k] = <<>>
         /\ out_intr[k] \in {0, 1}
         /\ Len(in_mbox[k]) <= InMboxDepth /\ Len(data[k]) <= Share
<1>1. in_mbox[k] \in Seq(Streams \cup {Die}) /\ data[k] \in Seq(Streams)
      /\ out_intr[k] \in 0 .. 1
      /\ Len(in_mbox[k]) <= InMboxDepth /\ Len(data[k]) <= Share
  BY DEF CellTypeOK
<1> QED BY <1>1, EmptySeq, LenProperties

LEMMA CellInvInit == CellInit => CellInv
<1> SUFFICES ASSUME CellInit PROVE CellInv
  OBVIOUS
<1>1. CellTypeOK
  <2>1. <<>> \in Seq([Places -> 0 .. NumFrames]) /\ <<>> \in Seq(Streams \cup {Die})
        /\ <<>> \in Seq(Streams) /\ Len(<<>>) = 0
    BY EmptySeq
  <2>2. /\ 1 \in 1 .. NumFrames + 1 /\ 0 \in 0 .. NumStreams /\ 0 \in 0 .. NumFrames
        /\ 0 \in -1 .. num_spu_threads /\ 0 <= InMboxDepth /\ 0 <= Share
    BY Numbers
  <2>3. /\ ppu = "read" /\ frame = 1 /\ j = 0 /\ total_ev = 0 /\ wait_failed = FALSE
        /\ input = 0 /\ big_image = [s \in Streams |-> 0] /\ written = <<>>
        /\ in_mbox = [k \in SPUs |-> <<>>] /\ out_intr = [k \in SPUs |-> 0]
        /\ spu = [k \in SPUs |-> "collect"] /\ data = [k \in SPUs |-> <<>>]
        /\ pending = [k \in SPUs |-> {}] /\ mode \in Modes
    BY DEF CellInit
  <2>4. /\ in_mbox \in [SPUs -> Seq(Streams \cup {Die})] /\ data \in [SPUs -> Seq(Streams)]
        /\ \A k \in SPUs : Len(in_mbox[k]) <= InMboxDepth /\ Len(data[k]) <= Share
    BY <2>1, <2>2, <2>3
  <2>5. wait_failed \in BOOLEAN
    BY <2>3, Zenon
  <2>6. /\ ppu \in {"read", "send", "wait", "write", "die", "join", "exited"}
        /\ frame \in 1 .. NumFrames + 1 /\ j \in 0 .. NumStreams
        /\ total_ev \in -1 .. num_spu_threads /\ input \in 0 .. NumFrames
        /\ big_image \in [Streams -> 0 .. NumFrames]
        /\ written \in Seq([Places -> 0 .. NumFrames])
        /\ out_intr \in [SPUs -> 0 .. 1]
        /\ spu \in [SPUs -> {"collect", "process", "notify", "ended"}]
        /\ pending \in [SPUs -> SUBSET Streams] /\ mode \in Modes
    BY <2>1, <2>2, <2>3
  <2> QED BY <2>4, <2>5, <2>6 DEF CellTypeOK
<1>2. PPUPlace /\ SPUPlaces /\ ImagesPlaced /\ EventsCounted /\ FramesWritten
  BY Numbers
  DEF CellInit, PPUPlace, SPUPlaces, SPUPlace, Told, Idle, ImagesPlaced, EventsCounted,
      FramesWritten
<1>3. OwnImages
  BY InEmpty DEF CellInit, OwnImages
<1>4. InOrder
  BY Numbers DEF CellInit, InOrder, LastComesLast, PutOfLast, Dealt
<1> QED BY <1>1, <1>2, <1>3, <1>4 DEF CellInv

(* When only SPU k moves, the rest of the invariant is as it was.          *)
LEMMA OthersStay ==
  ASSUME CellInv, UNCHANGED ppuVars, NEW k \in SPUs,
         \A l \in SPUs \ {k} : /\ in_mbox'[l] = in_mbox[l] /\ data'[l] = data[l]
                               /\ spu'[l] = spu[l] /\ out_intr'[l] = out_intr[l]
                               /\ pending'[l] = pending[l],
         SPUPlace(k)', LastComesLast(k)', PutOfLast(k)',
         \A s \in Elements(data'[k]) : Owner(s) = k,
         ppu \in {"send", "wait"} =>
           \A s \in Elements(in_mbox'[k]) : s \in Streams /\ Owner(s) = k,
         ppu = "wait" => (k \in AtWork' <=> k \in AtWork)
  PROVE  PPUPlace' /\ SPUPlaces' /\ OwnImages' /\ EventsCounted' /\ FramesWritten'
         /\ InOrder'
<1>1. \A l : Dealt(l)' = Dealt(l) /\ (Told(l)' <=> Told(l))
  BY DEF Dealt, Told, ppuVars
<1>2. ASSUME NEW l \in SPUs PROVE SPUPlace(l)'
  <2>1. CASE l # k
    BY <1>1, <2>1 DEF CellInv, SPUPlaces, SPUPlace, Collecting, Processing, Finished,
       Leaving, Idle, ppuVars
  <2> QED BY <2>1
<1>3. ppu = "wait" => AtWork' = AtWork
  BY DEF AtWork
<1>4. EventsCounted'
  BY <1>3 DEF CellInv, EventsCounted, ppuVars
<1>5. OwnImages'
  BY DEF CellInv, OwnImages, ppuVars
<1>6. PPUPlace' /\ FramesWritten'
  BY DEF CellInv, PPUPlace, FramesWritten, ppuVars
<1>7. ASSUME NEW l \in SPUs PROVE LastComesLast(l)' /\ PutOfLast(l)'
  <2>1. CASE l # k
    <3>1. LastComesLast(l)'
      BY <1>1, <2>1 DEF CellInv, InOrder, LastComesLast, LastOf
    <3>2. PutOfLast(l)'
      BY <1>1, <2>1 DEF CellInv, InOrder, PutOfLast, Processing, LastOf, ppuVars
    <3> QED BY <3>1, <3>2
  <2> QED BY <2>1
<1> QED BY <1>2, <1>4, <1>5, <1>6, <1>7 DEF SPUPlaces, InOrder

LEMMA ReadInMboxStep ==
  ASSUME CellInv, NEW k \in SPUs, ReadInMbox(k)
  PROVE  CellInv'
<1> DEFINE message == Head(in_mbox[k])
<1>1. /\ CellTypeOK /\ spu[k] = "collect" /\ in_mbox[k] # <<>>
      /\ in_mbox' = [in_mbox EXCEPT ![k] = Tail(@)]
      /\ UNCHANGED <<ppuVars, big_image, out_intr, pending>>
  BY DEF CellInv, ReadInMbox
<1>2. /\ message \in Streams \cup {Die}
      /\ Tail(in_mbox[k]) \in Seq(Streams \cup {Die})
      /\ Len(Tail(in_mbox[k])) = Len(in_mbox[k]) - 1
      /\ Elements(in_mbox[k]) = {message} \cup Elements(Tail(in_mbox[k]))
  BY <1>1, AtSPU, HeadTailProperties, InHeadTail
<1>3. /\ in_mbox' \in [SPUs -> Seq(Streams \cup {Die})]
      /\ in_mbox'[k] = Tail(in_mbox[k])
      /\ \A l \in SPUs \ {k} : in_mbox'[l] = in_mbox[l]
      /\ \A l \in SPUs : Len(in_mbox'[l]) <= InMboxDepth
  BY <1>1, <1>2, AtSPU, Numbers DEF CellTypeOK
<1>4. \/ ppu \in {"send", "wait"} /\ Collecting(k)
      \/ ppu \notin {"send", "wait"} /\ Told(k) /\ Leaving(k)
  BY <1>1 DEF CellInv, SPUPlaces, SPUPlace, Processing, Finished, Idle
<1>5. CASE message = Die
  <2>1. ppu \notin {"send", "wait"} /\ Told(k) /\ Leaving(k)
    <3>1. Die \notin Streams
      BY Numbers DEF Die, Streams
    <3> QED BY <1>2, <1>4, <1>5, <3>1 DEF CellInv, OwnImages
  <2>2. /\ in_mbox[k] = <<Die>> /\ data[k] = <<>> /\ out_intr[k] = 0
        /\ spu' = [spu EXCEPT ![k] = "ended"] /\ UNCHANGED data
    BY <1>1, <1>5, <2>1 DEF Leaving, ReadInMbox
  <2>3. in_mbox'[k] = <<>>
    BY <1>3, <2>2
  <2>4. CellTypeOK'
    BY <1>1, <1>3, <2>2 DEF CellTypeOK, ppuVars
  <2>5. SPUPlace(k)'
    BY <1>1, <2>1, <2>2, <2>3 DEF CellTypeOK, SPUPlace, Leaving, Told, ppuVars
  <2>6. PPUPlace' /\ SPUPlaces' /\ OwnImages' /\ EventsCounted' /\ FramesWritten'
        /\ InOrder'
    <3>1. LastComesLast(k)'
      BY <1>1, <2>2, <2>3 DEF LastComesLast
    <3>2. PutOfLast(k)'
      BY <1>1 DEF CellInv, InOrder, PutOfLast, Processing, LastOf, ppuVars
    <3> QED BY <1>1, <1>3, <2>1, <2>2, <2>5, <3>1, <3>2, InEmpty, OthersStay DEF CellTypeOK
  <2>7. ImagesPlaced'
    <3>1. CASE ppu # "write"
      BY <1>1, <2>1, <3>1 DEF ImagesPlaced, ppuVars
    <3>2. CASE ppu = "write"
      BY <2>1, <3>2 DEF Told
    <3> QED BY <3>1, <3>2
  <2> QED BY <2>4, <2>6, <2>7 DEF CellInv
<1>6. CASE message # Die
  <2>1. ppu \in {"send", "wait"} /\ Collecting(k) /\ message \in Streams /\ Owner(message) = k
    <3>1. in_mbox[k] = <<Die>> => message = Die
      OBVIOUS
    <3> QED BY <1>1, <1>2, <1>4, <1>6, <3>1 DEF CellInv, OwnImages, Leaving
  <2>2. /\ data' = [data EXCEPT ![k] = Append(@, message)]
        /\ spu' = [spu EXCEPT ![k] = IF Len(data'[k]) < Share THEN @ ELSE "process"]
    BY <1>6 DEF ReadInMbox
  <2>3. /\ data' \in [SPUs -> Seq(Streams)] /\ data'[k] = Append(data[k], message)
        /\ data'[k] # <<>> /\ Len(data'[k]) = Len(data[k]) + 1
        /\ Elements(data'[k]) = Elements(data[k]) \cup {message}
        /\ \A l \in SPUs \ {k} : data'[l] = data[l]
    <3>1. /\ Append(data[k], message) \in Seq(Streams) /\ Append(data[k], message) # <<>>
          /\ Len(Append(data[k], message)) = Len(data[k]) + 1
          /\ Elements(Append(data[k], message)) = Elements(data[k]) \cup {message}
      BY <1>1, <2>1, AtSPU, AppendProperties, InAppend
    <3> QED BY <1>1, <2>2, <3>1 DEF CellTypeOK
  <2>4. /\ spu'[k] = (IF Len(data[k]) + 1 < Share THEN "collect" ELSE "process")
        /\ \A l \in SPUs \ {k} : spu'[l] = spu[l]
        /\ spu' \in [SPUs -> {"collect", "process", "notify", "ended"}]
    BY <1>1, <2>2, <2>3 DEF CellTypeOK
  <2>5. /\ Len(data[k]) + 1 <= Share /\ Len(in_mbox'[k]) \in Nat
        /\ Len(in_mbox'[k]) = 0 <=> in_mbox'[k] = <<>>
        /\ Len(in_mbox'[k]) + Len(data'[k]) = Dealt(k) /\ out_intr[k] = 0
        /\ Dealt(k) <= Share
    <3>1. Len(data[k]) \in Nat /\ Len(in_mbox[k]) \in Nat
      BY <1>1, AtSPU
    <3>2. Dealt(k) <= Share
      <4>1. ppu = "send" => j \in 0 .. NumStreams - 1
        BY <1>1, Numbers DEF CellInv, PPUPlace, CellTypeOK
      <4> QED BY <2>1, <4>1, DealingGoesOn, Numbers DEF Dealt
    <3>3. Len(in_mbox'[k]) \in Nat /\ (Len(in_mbox'[k]) = 0 <=> in_mbox'[k] = <<>>)
      BY <1>2, <1>3, EmptySeq, LenProperties
    <3>4. /\ out_intr[k] = 0 /\ Len(data[k]) < Share
          /\ Len(in_mbox[k]) + Len(data[k]) = Dealt(k)
      BY <2>1 DEF Collecting
    <3>5. Len(in_mbox'[k]) = Len(in_mbox[k]) - 1
      BY <1>2, <1>3
    <3>6. Len(data'[k]) = Len(data[k]) + 1 /\ Share \in Nat
      BY <2>3, Numbers
    <3>7. /\ Len(data[k]) + 1 <= Share
          /\ Len(in_mbox'[k]) + Len(data'[k]) = Len(in_mbox[k]) + Len(data[k])
      <4> DEFINE box == Len(in_mbox[k])
                 got == Len(data[k])
      <4>1. /\ box \in Nat /\ got \in Nat /\ Share \in Nat /\ got < Share
            /\ Len(in_mbox'[k]) = box - 1 /\ Len(data'[k]) = got + 1
        BY <3>1, <3>4, <3>5, <3>6
      <4> HIDE DEF box, got
      <4>2. got + 1 <= Share /\ (box - 1) + (got + 1) = box + got
        BY <4>1
      <4> QED BY <4>1, <4>2 DEF box, got
    <3> QED BY <3>2, <3>3, <3>4, <3>7
  <2>6. CellTypeOK'
    <3>1. \A l \in SPUs : Len(data'[l]) <= Share
      BY <1>1, <2>3, <2>5, AtSPU
    <3> QED BY <1>1, <1>3, <2>3, <2>4, <3>1 DEF CellTypeOK, ppuVars
  <2>7. SPUPlace(k)'
    <3>1. Dealt(k)' = Dealt(k) /\ ppu' = ppu /\ out_intr' = out_intr
      BY <1>1 DEF Dealt, ppuVars
    <3>2. CASE Len(data[k]) + 1 < Share
      BY <2>1, <2>3, <2>4, <2>5, <3>1, <3>2 DEF SPUPlace, Collecting
    <3>3. CASE ~(Len(data[k]) + 1 < Share)
      <4>1. Len(data'[k]) = Share /\ Dealt(k) = Share /\ in_mbox'[k] = <<>>
        <5>1. Len(data[k]) \in Nat /\ Share \in Nat
          BY <1>1, AtSPU, Numbers
        <5>2. Len(data'[k]) = Share
          BY <2>3, <2>5, <3>3, <5>1
        <5>3. Len(in_mbox'[k]) = 0
          BY <2>5, <5>1, <5>2
        <5> QED BY <2>5, <5>1, <5>2, <5>3
      <4> QED BY <2>1, <2>3, <2>4, <2>5, <3>1, <3>3, <4>1 DEF SPUPlace, Processing
    <3> QED BY <3>2, <3>3
  <2>8. PPUPlace' /\ SPUPlaces' /\ OwnImages' /\ EventsCounted' /\ FramesWritten'
        /\ InOrder'
    <3>1. \A s \in Elements(data'[k]) : Owner(s) = k
      BY <2>1, <2>3 DEF CellInv, OwnImages
    <3>2. \A s \in Elements(in_mbox'[k]) : s \in Streams /\ Owner(s) = k
      BY <1>2, <1>3, <2>1 DEF CellInv, OwnImages
    <3>3. k \in AtWork' /\ k \in AtWork
      BY <1>1, <2>3 DEF AtWork
    <3>4. LastComesLast(k)'
      <4> SUFFICES ASSUME Dealt(k)' = Share PROVE LastComesLast(k)'
        BY DEF LastComesLast
      <4>1. in_mbox[k][Len(in_mbox[k])] = LastOf(k)
        BY <1>1, Numbers DEF CellInv, InOrder, LastComesLast, Dealt, ppuVars
      <4>2. /\ in_mbox[k] \in Seq(Streams \cup {Die}) /\ data[k] \in Seq(Streams)
            /\ message \in Streams
        BY <1>1, <2>1, AtSPU
      <4>3. in_mbox'[k] # <<>> => in_mbox'[k][Len(in_mbox'[k])] = LastOf(k)
        BY <1>1, <1>3, <4>1, <4>2, LastOfTail
      <4>4. in_mbox'[k] = <<>> => data'[k][Len(data'[k])] = LastOf(k)
        <5>1. in_mbox'[k] = <<>> => message = LastOf(k)
          BY <1>1, <1>3, <4>1, <4>2, LastOfTail
        <5>2. data'[k][Len(data'[k])] = message
          BY <2>3, <4>2, AppendProperties
        <5> QED BY <5>1, <5>2
      <4> QED BY <4>3, <4>4 DEF LastComesLast, LastOf
    <3>5. PutOfLast(k)'
      BY <1>1 DEF CellInv, InOrder, PutOfLast, Processing, LastOf, ppuVars
    <3> QED BY <1>1, <1>3, <2>3, <2>4, <2>7, <3>1, <3>2, <3>3, <3>4, <3>5, OthersStay
  <2>9. ImagesPlaced'
    <3>1. ASSUME NEW s \in Streams, Unscaled(s) PROVE Unscaled(s)'
      <4>1. Owner(s) \in SPUs
        BY OwnerOf
      <4>2. CASE Owner(s) = k
        BY <1>2, <1>3, <2>3, <3>1, <4>2 DEF Unscaled
      <4>3. CASE Owner(s) # k
        BY <1>3, <2>3, <3>1, <4>1, <4>3 DEF Unscaled
      <4> QED BY <4>2, <4>3
    <3> QED BY <1>1, <3>1 DEF CellInv, ImagesPlaced, ppuVars
  <2> QED BY <2>6, <2>8, <2>9 DEF CellInv
<1> QED BY <1>5, <1>6

LEMMA ProcessImageStep ==
  ASSUME CellInv, NEW k \in SPUs, ProcessImage(k)
  PROVE  CellInv'
<1> DEFINE s0 == Head(data[k])
<1>1. /\ CellTypeOK /\ spu[k] = "process"
      /\ big_image' = [big_image EXCEPT ![s0] = input]
      /\ data' = [data EXCEPT ![k] = Tail(@)]
      /\ spu' = [spu EXCEPT ![k] = IF Len(data[k]) > 1 THEN @ ELSE "notify"]
      /\ pending' = [pending EXCEPT ![k] = IF mode = "double" THEN {s0} ELSE {}]
      /\ UNCHANGED <<ppuVars, in_mbox, out_intr>>
  BY DEF CellInv, ProcessImage
<1>2. ppu \in {"send", "wait"} /\ Processing(k)
  BY <1>1 DEF CellInv, SPUPlaces, SPUPlace, Collecting, Finished, Idle, Leaving
<1>3. /\ s0 \in Streams /\ Tail(data[k]) \in Seq(Streams)
      /\ Len(Tail(data[k])) = Len(data[k]) - 1 /\ Len(data[k]) \in Nat \ {0}
      /\ Elements(data[k]) = {s0} \cup Elements(Tail(data[k]))
      /\ Len(data[k]) <= Share /\ Owner(s0) = k
  <2>1. data[k] \in Seq(Streams) /\ data[k] # <<>> /\ Len(data[k]) <= Share
    BY <1>1, <1>2, AtSPU DEF Processing
  <2>2. Elements(data[k]) = {s0} \cup Elements(Tail(data[k]))
    BY <2>1, InHeadTail
  <2> QED BY <2>1, <2>2, EmptySeq, HeadTailProperties DEF CellInv, OwnImages
<1>4. /\ data' \in [SPUs -> Seq(Streams)] /\ data'[k] = Tail(data[k])
      /\ \A l \in SPUs \ {k} : data'[l] = data[l]
  BY <1>1, <1>3 DEF CellTypeOK
<1>5. /\ spu' \in [SPUs -> {"collect", "process", "notify", "ended"}]
      /\ spu'[k] = (IF Len(data[k]) > 1 THEN "process" ELSE "notify")
      /\ \A l \in SPUs \ {k} : spu'[l] = spu[l]
  BY <1>1 DEF CellTypeOK
<1>6. input = frame /\ input \in 0 .. NumFrames
  BY <1>1, <1>2 DEF CellInv, PPUPlace, CellTypeOK
<1>7. /\ big_image' \in [Streams -> 0 .. NumFrames] /\ big_image'[s0] = frame
      /\ \A s \in Streams \ {s0} : big_image'[s] = big_image[s]
  BY <1>1, <1>3, <1>6 DEF CellTypeOK
<1>8. CellTypeOK'
  <2>1. \A l \in SPUs : Len(data'[l]) <= Share
    <3>1. Len(data'[k]) <= Share
      <4> DEFINE got == Len(data[k])
      <4>1. got \in Nat /\ got <= Share /\ Len(data'[k]) = got - 1 /\ Share \in Nat
        BY <1>3, <1>4, Numbers
      <4> HIDE DEF got
      <4>2. got - 1 <= Share
        BY <4>1
      <4> QED BY <4>1, <4>2
    <3> QED BY <1>1, <1>4, <3>1, AtSPU
  <2>2. pending' \in [SPUs -> SUBSET Streams]
    BY <1>1, <1>3 DEF CellTypeOK
  <2> QED BY <1>1, <1>4, <1>5, <1>7, <2>1, <2>2 DEF CellTypeOK, ppuVars
<1>9. IF Len(data[k]) > 1 THEN data'[k] # <<>> ELSE data'[k] = <<>>
  <2> DEFINE got == Len(data[k])
  <2>1. got \in Nat \ {0} /\ Len(data'[k]) = got - 1 /\ (Len(data'[k]) = 0 <=> data'[k] = <<>>)
    <3>1. Len(data'[k]) = 0 <=> data'[k] = <<>>
      BY <1>3, <1>4, EmptySeq
    <3> QED BY <1>3, <1>4, <3>1
  <2> HIDE DEF got
  <2>2. IF got > 1 THEN got - 1 # 0 ELSE got - 1 = 0
    BY <2>1
  <2> QED BY <2>1, <2>2 DEF got
<1>10. SPUPlace(k)'
  <2>1. Dealt(k)' = Dealt(k) /\ ppu' = ppu /\ out_intr' = out_intr /\ in_mbox' = in_mbox
    BY <1>1 DEF Dealt, ppuVars
  <2> QED BY <1>2, <1>5, <1>9, <2>1 DEF SPUPlace, Processing, Finished
<1>11. PPUPlace' /\ SPUPlaces' /\ OwnImages' /\ EventsCounted' /\ FramesWritten'
       /\ InOrder'
  <2>1. \A s \in Elements(data'[k]) : Owner(s) = k
    BY <1>3, <1>4 DEF CellInv, OwnImages
  <2>2. \A s \in Elements(in_mbox'[k]) : s \in Streams /\ Owner(s) = k
    BY <1>1, <1>2 DEF CellInv, OwnImages
  <2>3. k \in AtWork' /\ k \in AtWork
    BY <1>2, <1>5, <1>9 DEF AtWork, Processing
  <2>4. /\ data[k][Len(data[k])] = LastOf(k) /\ data[k] \in Seq(Streams) /\ data[k] # <<>>
        /\ Dealt(k)' = Dealt(k) /\ Dealt(k) = Share /\ in_mbox[k] = <<>>
    BY <1>1, <1>2, AtSPU DEF CellInv, InOrder, LastComesLast, Processing, Dealt, ppuVars
  <2>5. LastComesLast(k)'
    BY <1>1, <1>4, <2>4, LastOfTail DEF LastComesLast, LastOf
  <2>6. PutOfLast(k)'
    <3>1. pending'[k] = IF mode = "double" THEN {s0} ELSE {}
      BY <1>1 DEF CellTypeOK
    <3>2. CASE data'[k] = <<>>
      <4>1. s0 = LastOf(k)
        BY <1>4, <2>4, <3>2, LastOfTail
      <4> QED BY <1>1, <3>1, <4>1 DEF PutOfLast, LastOf, ppuVars
    <3>3. CASE data'[k] # <<>>
      <4>1. Processing(k)'
        <5>1. Len(data[k]) > 1
          BY <1>4, <2>4, <3>3, LastOfTail
        <5> QED BY <1>1, <1>2, <1>5, <2>4, <3>3, <5>1 DEF Processing
      <4> QED BY <1>1, <3>1, <4>1 DEF PutOfLast, ppuVars
    <3> QED BY <3>2, <3>3
  <2>7. \A l \in SPUs \ {k} : pending'[l] = pending[l]
    BY <1>1 DEF CellTypeOK
  <2> QED BY <1>1, <1>4, <1>5, <1>10, <2>1, <2>2, <2>3, <2>5, <2>6, <2>7, OthersStay
<1>12. ImagesPlaced'
  <2>1. ASSUME NEW s \in Streams, Unscaled(s), s # s0 PROVE Unscaled(s)'
    <3>1. Owner(s) \in SPUs
      BY OwnerOf
    <3>2. CASE Owner(s) = k
      BY <1>1, <1>3, <1>4, <2>1, <3>2 DEF Unscaled
    <3>3. CASE Owner(s) # k
      BY <1>1, <1>4, <2>1, <3>1, <3>3 DEF Unscaled
    <3> QED BY <3>2, <3>3
  <2> QED BY <1>1, <1>7, <2>1 DEF CellInv, ImagesPlaced, ppuVars
<1> QED BY <1>8, <1>11, <1>12 DEF CellInv

LEMMA WriteOutIntrStep ==
  ASSUME CellInv, NEW k \in SPUs, WriteOutIntr(k)
  PROVE  CellInv'
<1>1. /\ CellTypeOK /\ spu[k] = "notify" /\ out_intr[k] = 0
      /\ out_intr' = [out_intr EXCEPT ![k] = 1]
      /\ spu' = [spu EXCEPT ![k] = "collect"]
      /\ UNCHANGED <<ppuVars, big_image, in_mbox, data, pending>>
  BY DEF CellInv, WriteOutIntr
<1>2. /\ out_intr' \in [SPUs -> 0 .. 1] /\ out_intr'[k] = 1
      /\ spu' \in [SPUs -> {"collect", "process", "notify", "ended"}] /\ spu'[k] = "collect"
      /\ \A l \in SPUs \ {k} : out_intr'[l] = out_intr[l] /\ spu'[l] = spu[l]
  BY <1>1 DEF CellTypeOK
<1>3. ppu \in {"send", "wait"} /\ Finished(k)
  BY <1>1 DEF CellInv, SPUPlaces, SPUPlace, Collecting, Processing, Idle, Leaving
<1>4. CellTypeOK'
  BY <1>1, <1>2 DEF CellTypeOK, ppuVars
<1>5. SPUPlace(k)'
  <2>1. Dealt(k)' = Dealt(k) /\ ppu' = ppu
    BY <1>1 DEF Dealt, ppuVars
  <2> QED BY <1>1, <1>2, <1>3, <2>1 DEF SPUPlace, Finished
<1>6. PPUPlace' /\ SPUPlaces' /\ OwnImages' /\ EventsCounted' /\ FramesWritten'
      /\ InOrder'
  <2>1. k \in AtWork' /\ k \in AtWork
    BY <1>1, <1>2 DEF AtWork
  <2>2. LastComesLast(k)'
    BY <1>1 DEF CellInv, InOrder, LastComesLast, LastOf, Dealt, ppuVars
  <2>3. PutOfLast(k)'
    BY <1>1 DEF CellInv, InOrder, PutOfLast, Processing, LastOf, ppuVars
  <2>4. \A s \in Elements(data'[k]) : Owner(s) = k
    BY <1>1 DEF CellInv, OwnImages
  <2>5. ppu \in {"send", "wait"} => \A s \in Elements(in_mbox'[k]) : s \in Streams /\ Owner(s) = k
    BY <1>1 DEF CellInv, OwnImages
  <2> QED BY <1>1, <1>2, <1>5, <2>1, <2>2, <2>3, <2>4, <2>5, OthersStay
<1>7. ImagesPlaced'
  BY <1>1 DEF CellInv, ImagesPlaced, Unscaled, ppuVars
<1> QED BY <1>4, <1>6, <1>7 DEF CellInv

LEMMA TransferStep ==
  ASSUME CellInv, NEW k \in SPUs, Transfer(k)
  PROVE  CellInv'
<1>1. /\ CellTypeOK /\ pending' = [pending EXCEPT ![k] = {}]
      /\ UNCHANGED <<ppuVars, big_image, in_mbox, out_intr, spu, data>>
  BY DEF CellInv, Transfer
<1>2. /\ pending' \in [SPUs -> SUBSET Streams] /\ pending'[k] = {}
      /\ \A l \in SPUs \ {k} : pending'[l] = pending[l]
  BY <1>1 DEF CellTypeOK
<1>3. CellTypeOK'
  BY <1>1, <1>2 DEF CellTypeOK, ppuVars
<1>4. SPUPlace(k)'
  BY <1>1 DEF CellInv, SPUPlaces, SPUPlace, Collecting, Processing, Finished, Idle, Leaving,
     Told, Dealt, ppuVars
<1>5. LastComesLast(k)' /\ PutOfLast(k)'
  BY <1>1, <1>2 DEF CellInv, InOrder, LastComesLast, LastOf, PutOfLast, Dealt, ppuVars
<1>6. PPUPlace' /\ SPUPlaces' /\ OwnImages' /\ EventsCounted' /\ FramesWritten'
      /\ InOrder'
  <2>1. k \in AtWork' <=> k \in AtWork
    BY <1>1 DEF AtWork
  <2>2. \A s \in Elements(data'[k]) : Owner(s) = k
    BY <1>1 DEF CellInv, OwnImages
  <2>3. ppu \in {"send", "wait"} => \A s \in Elements(in_mbox'[k]) : s \in Streams /\ Owner(s) = k
    BY <1>1 DEF CellInv, OwnImages
  <2> QED BY <1>1, <1>2, <1>4, <1>5, <2>1, <2>2, <2>3, OthersStay
<1>7. ImagesPlaced'
  BY <1>1 DEF CellInv, ImagesPlaced, Unscaled, ppuVars
<1> QED BY <1>3, <1>6, <1>7 DEF CellInv

------------------------------------------------------------------------------
(* The steps of the PPU.                                                   *)
LEMMA SPUsFinite == IsFiniteSet(SPUs) /\ Cardinality(SPUs) = num_spu_threads
<1> DEFINE last == num_spu_threads - 1
<1>1. last \in Int /\ 0 \in Int /\ ~(0 > last) /\ last - 0 + 1 = num_spu_threads
  BY Numbers
<1> HIDE DEF last
<1>2. IsFiniteSet(0 .. last) /\ Cardinality(0 .. last) = last - 0 + 1
  BY <1>1, FS_Interval
<1> QED BY <1>1, <1>2 DEF SPUs, last

LEMMA AtWorkFinite ==
  /\ IsFiniteSet(AtWork) /\ Cardinality(AtWork) \in 0 .. num_spu_threads
  /\ Cardinality(AtWork) = 0 => AtWork = {}
<1>1. AtWork \in SUBSET SPUs
  BY DEF AtWork
<1>2. IsFiniteSet(AtWork) /\ Cardinality(AtWork) <= Cardinality(SPUs)
  BY <1>1, SPUsFinite, FS_Subset
<1>3. Cardinality(AtWork) \in Nat
  BY <1>2, FS_CardinalityType
<1>4. Cardinality(AtWork) = 0 => AtWork = {}
  BY <1>2, FS_EmptySet
<1> QED BY <1>2, <1>3, <1>4, SPUsFinite, Numbers

LEMMA EventWaitStep ==
  ASSUME CellInv, EventWait
  PROVE  CellInv'
<1>1. PICK events \in (SUBSET {k \in SPUs : out_intr[k] = 1}) \ {{}} :
        /\ total_ev' = total_ev + Cardinality(events)
        /\ out_intr' = [k \in SPUs |-> IF k \in events THEN 0 ELSE out_intr[k]]
  BY DEF EventWait
<1>2. /\ CellTypeOK /\ ppu = "wait"
      /\ UNCHANGED <<ppu, frame, j, input, written, big_image, in_mbox, spu, data,
                     pending, wait_failed, mode>>
  BY DEF CellInv, EventWait
<1>3. ASSUME NEW k \in events
      PROVE  k \in SPUs /\ out_intr[k] = 1 /\ Finished(k) /\ spu[k] = "collect"
  <2>1. k \in SPUs /\ out_intr[k] = 1
    BY <1>1
  <2>2. ~Collecting(k) /\ ~Processing(k)
    BY <2>1 DEF Collecting, Processing
  <2>3. Finished(k)
    BY <1>2, <2>1, <2>2 DEF CellInv, SPUPlaces, SPUPlace
  <2> QED BY <2>1, <2>3 DEF Finished
<1>4. out_intr' \in [SPUs -> 0 .. 1]
  BY <1>1, <1>2 DEF CellTypeOK
<1>5. AtWork' = AtWork \ events
  <2>1. ASSUME NEW k \in events PROVE k \notin AtWork' /\ k \in AtWork
    BY <1>1, <1>2, <1>3 DEF AtWork, Finished
  <2>2. ASSUME NEW k \in SPUs \ events PROVE k \in AtWork' <=> k \in AtWork
    BY <1>1, <1>2 DEF AtWork
  <2>3. AtWork \subseteq SPUs /\ AtWork' \subseteq SPUs
    BY DEF AtWork
  <2> QED BY <2>1, <2>2, <2>3
<1>6. Cardinality(AtWork') = Cardinality(AtWork) - Cardinality(events)
      /\ Cardinality(events) \in Nat
  <2>1. events \in SUBSET AtWork
    BY <1>3 DEF AtWork
  <2>2. AtWork \cap events = events /\ IsFiniteSet(events)
    BY <2>1, AtWorkFinite, FS_Subset
  <2> QED BY <1>5, <2>2, AtWorkFinite, FS_Difference, FS_CardinalityType
<1>7. /\ total_ev' + Cardinality(AtWork') + (IF wait_failed THEN 1 ELSE 0) = num_spu_threads
      /\ total_ev' \in -1 .. num_spu_threads
  <2> DEFINE a == Cardinality(AtWork)
             e == Cardinality(events)
             w == IF wait_failed THEN 1 ELSE 0
  <2>1. /\ a \in Nat /\ e \in Nat /\ w \in {0, 1} /\ total_ev \in Int
        /\ total_ev + a + w = num_spu_threads /\ total_ev' = total_ev + e
        /\ Cardinality(AtWork') = a - e /\ num_spu_threads \in Nat
        /\ Cardinality(AtWork)' = Cardinality(AtWork')
    BY <1>1, <1>2, <1>6, AtWorkFinite, Numbers DEF CellInv, CellTypeOK, EventsCounted
  <2>2. a - e \in 0 .. num_spu_threads
    <3>1. IsFiniteSet(AtWork \ events) /\ Cardinality(AtWork \ events) \in Nat
      BY AtWorkFinite, FS_Difference, FS_CardinalityType
    <3> HIDE DEF a, e
    <3> QED BY <1>5, <1>6, <2>1, <3>1, AtWorkFinite DEF a
  <2> HIDE DEF a, e, w
  <2>3. /\ total_ev' + (a - e) + w = num_spu_threads
        /\ total_ev' \in -1 .. num_spu_threads
    BY <2>1, <2>2
  <2> QED BY <2>1, <2>3 DEF w
<1>8. CellTypeOK'
  BY <1>2, <1>4, <1>7 DEF CellTypeOK
<1>9. SPUPlaces'
  <2>1. ASSUME NEW k \in SPUs PROVE SPUPlace(k)'
    <3>1. Dealt(k)' = Dealt(k)
      BY <1>2 DEF Dealt
    <3>2. CASE k \in events
      BY <1>2, <1>3, <3>1, <3>2 DEF SPUPlace, Finished
    <3>3. CASE k \notin events
      BY <1>1, <1>2, <3>1, <3>3 DEF CellInv, SPUPlaces, SPUPlace, Collecting, Processing,
         Finished
    <3> QED BY <3>2, <3>3
  <2> QED BY <2>1 DEF SPUPlaces
<1>10. PPUPlace' /\ OwnImages' /\ ImagesPlaced' /\ FramesWritten'
  BY <1>2 DEF CellInv, PPUPlace, OwnImages, ImagesPlaced, Unscaled, FramesWritten
<1>11. EventsCounted'
  BY <1>2, <1>7 DEF EventsCounted
<1>12. InOrder'
  <2>1. ASSUME NEW k \in SPUs PROVE LastComesLast(k)' /\ PutOfLast(k)'
    <3>1. LastComesLast(k)'
      BY <1>2 DEF CellInv, InOrder, LastComesLast, LastOf, Dealt
    <3>2. Processing(k) => Processing(k)'
      <4>1. k \in events => ~Processing(k)
        BY <1>3 DEF Processing
      <4> QED BY <1>1, <1>2, <4>1 DEF Processing, Dealt
    <3> QED BY <1>2, <3>1, <3>2 DEF CellInv, InOrder, PutOfLast, LastOf
  <2> QED BY <2>1 DEF InOrder
<1> QED BY <1>8, <1>9, <1>10, <1>11, <1>12 DEF CellInv

LEMMA EventWaitFailsStep ==
  ASSUME CellInv, EventWaitFails
  PROVE  CellInv'
<1>1. /\ CellTypeOK /\ ppu = "wait" /\ ~wait_failed
      /\ total_ev' = total_ev - 1 /\ wait_failed' = TRUE
      /\ UNCHANGED <<ppu, frame, j, input, written, big_image, in_mbox, out_intr, spu, data,
                     pending, mode>>
  BY DEF CellInv, EventWaitFails
<1>2. /\ total_ev + Cardinality(AtWork) = num_spu_threads /\ total_ev \in Int
      /\ Cardinality(AtWork) \in 0 .. num_spu_threads
  BY <1>1, AtWorkFinite DEF CellInv, EventsCounted, CellTypeOK
<1>3. /\ total_ev' \in -1 .. num_spu_threads
      /\ total_ev' + Cardinality(AtWork) + 1 = num_spu_threads
  <2> DEFINE a == Cardinality(AtWork)
  <2>1. total_ev + a = num_spu_threads /\ total_ev \in Int /\ a \in 0 .. num_spu_threads
    BY <1>2
  <2> HIDE DEF a
  <2>2. total_ev' \in -1 .. num_spu_threads /\ total_ev' + a + 1 = num_spu_threads
    BY <1>1, <2>1, Numbers
  <2> QED BY <2>2 DEF a
<1>4. CellTypeOK'
  <2>1. wait_failed' \in BOOLEAN
    BY <1>1, Zenon
  <2> QED BY <1>1, <1>3, <2>1 DEF CellTypeOK
<1>5. AtWork' = AtWork
  BY <1>1 DEF AtWork
<1>6. EventsCounted'
  BY <1>1, <1>3, <1>5 DEF EventsCounted
<1>7. PPUPlace' /\ SPUPlaces' /\ OwnImages' /\ ImagesPlaced' /\ FramesWritten'
  BY <1>1 DEF CellInv, PPUPlace, SPUPlaces, SPUPlace, Collecting, Processing, Finished,
     Dealt, OwnImages, ImagesPlaced, Unscaled, FramesWritten
<1>8. InOrder'
  BY <1>1 DEF CellInv, InOrder, LastComesLast, PutOfLast, Processing, Dealt, LastOf
<1> QED BY <1>4, <1>6, <1>7, <1>8 DEF CellInv

LEMMA ReadImagesStep ==
  ASSUME CellInv, ReadImages
  PROVE  CellInv'
<1>1. /\ CellTypeOK /\ ppu = "read" /\ frame \in 1 .. NumFrames /\ ~wait_failed
      /\ big_image' = [s \in Streams |-> 0] /\ j' = 0
      /\ \/ input' = frame /\ ppu' = "send"
         \/ ppu' = "exited" /\ UNCHANGED input
      /\ UNCHANGED <<frame, total_ev, written, in_mbox, out_intr, spu, data, pending,
                     wait_failed, mode>>
  BY Numbers DEF CellInv, PPUPlace, CellTypeOK, ReadImages, read_pnm
<1>2. \A k \in SPUs : Idle(k)
  BY <1>1 DEF CellInv, SPUPlaces, SPUPlace, Told
<1>3. CellTypeOK'
  <2>1. /\ input' \in 0 .. NumFrames /\ j' \in 0 .. NumStreams
        /\ ppu' \in {"read", "send", "wait", "write", "die", "join", "exited"}
        /\ big_image' \in [Streams -> 0 .. NumFrames]
    BY <1>1, Numbers DEF CellTypeOK
  <2> QED BY <1>1, <2>1 DEF CellTypeOK
<1>4. PPUPlace' /\ FramesWritten' /\ EventsCounted'
  BY <1>1, Numbers DEF CellInv, PPUPlace, FramesWritten, EventsCounted
<1>5. SPUPlaces'
  <2>1. ASSUME NEW k \in SPUs PROVE SPUPlace(k)'
    <3>1. CASE ppu' = "send"
      <4>1. Dealt(k)' = 0 /\ Share \in Nat \ {0}
        BY <1>1, <3>1, DealingStarts, Numbers DEF Dealt
      <4>2. Len(in_mbox'[k]) + Len(data'[k]) = 0 /\ Len(data'[k]) = 0
        <5>1. in_mbox'[k] = <<>> /\ data'[k] = <<>>
          BY <1>1, <1>2 DEF Idle
        <5>2. Len(<<>>) = 0
          BY EmptySeq
        <5> QED BY <5>1, <5>2
      <4> QED BY <1>1, <1>2, <3>1, <4>1, <4>2 DEF SPUPlace, Collecting, Idle
    <3>2. CASE ppu' = "exited"
      BY <1>1, <1>2, <3>2 DEF SPUPlace, Told, Idle
    <3> QED BY <1>1, <3>1, <3>2
  <2> QED BY <2>1 DEF SPUPlaces
<1>6. OwnImages'
  BY <1>1, <1>2, InEmpty DEF OwnImages, Idle
<1>7. ImagesPlaced'
  BY <1>1 DEF ImagesPlaced, Streams
<1>8. InOrder'
  <2>1. ASSUME NEW k \in SPUs PROVE LastComesLast(k)' /\ PutOfLast(k)'
    <3>1. in_mbox'[k] = <<>> /\ data'[k] = <<>>
      BY <1>1, <1>2 DEF Idle
    <3>2. PutOfLast(k)'
      BY <1>1, <1>2 DEF CellInv, InOrder, PutOfLast, Processing, Idle, LastOf
    <3> QED BY <3>1, <3>2 DEF LastComesLast
  <2> QED BY <2>1 DEF InOrder
<1> QED BY <1>3, <1>4, <1>5, <1>6, <1>7, <1>8 DEF CellInv

LEMMA SendAddressStep ==
  ASSUME CellInv, SendAddress
  PROVE  CellInv'
<1> DEFINE k == Owner(j)
<1>1. /\ CellTypeOK /\ ppu = "send" /\ ~wait_failed /\ j \in 0 .. NumStreams - 1
      /\ Len(in_mbox[k]) < InMboxDepth
      /\ in_mbox' = [in_mbox EXCEPT ![k] = Append(@, j)]
      /\ UNCHANGED <<frame, input, written, big_image, out_intr, spu, data, pending,
                     wait_failed, mode>>
  BY Numbers DEF CellInv, CellTypeOK, PPUPlace, SendAddress, InMboxWrite, Owner
<1>2. \/ j + 1 < NumStreams /\ j' = j + 1 /\ UNCHANGED <<ppu, total_ev>>
      \/ j + 1 = NumStreams /\ ppu' = "wait" /\ j' = 0 /\ total_ev' = 0
  BY <1>1, Numbers DEF SendAddress
<1>3. k \in SPUs /\ \A l \in SPUs : Dealt(l) = DealtAt(j, l)
  BY <1>1, DealingGoesOn, OwnerOf DEF Dealt, Streams
<1>4. ASSUME NEW l \in SPUs
      PROVE  Dealt(l)' = Dealt(l) + (IF l = k THEN 1 ELSE 0) /\ Dealt(l) \in 0 .. Share
  <2>1. /\ DealtAt(j + 1, l) = DealtAt(j, l) + (IF l = k THEN 1 ELSE 0)
        /\ DealtAt(j, l) \in 0 .. Share
    BY <1>1, DealingGoesOn
  <2>2. Dealt(l)' = DealtAt(j + 1, l)
    BY <1>1, <1>2, DealingStarts DEF Dealt
  <2> QED BY <1>3, <2>1, <2>2
<1>5. Collecting(k)
  <2>1. Dealt(k) < Share /\ Dealt(k) \in Nat /\ Share \in Nat
    BY <1>1, <1>3, DealingGoesOn, Numbers
  <2>2. Dealt(k) # Share
    BY <2>1
  <2> QED BY <1>1, <1>3, <2>2 DEF CellInv, SPUPlaces, SPUPlace, Processing, Finished
<1>6. /\ in_mbox' \in [SPUs -> Seq(Streams \cup {Die})]
      /\ in_mbox'[k] = Append(in_mbox[k], j) /\ in_mbox'[k] # <<>>
      /\ Len(in_mbox'[k]) = Len(in_mbox[k]) + 1 /\ Len(in_mbox[k]) \in Nat
      /\ Elements(in_mbox'[k]) = Elements(in_mbox[k]) \cup {j}
      /\ \A l \in SPUs \ {k} : in_mbox'[l] = in_mbox[l]
  <2>1. j \in Streams \cup {Die} /\ in_mbox[k] \in Seq(Streams \cup {Die})
        /\ Len(in_mbox[k]) \in Nat
    BY <1>1, <1>3, AtSPU DEF Streams
  <2>2. /\ Append(in_mbox[k], j) \in Seq(Streams \cup {Die}) /\ Append(in_mbox[k], j) # <<>>
        /\ Len(Append(in_mbox[k], j)) = Len(in_mbox[k]) + 1
        /\ Elements(Append(in_mbox[k], j)) = Elements(in_mbox[k]) \cup {j}
    BY <2>1, AppendProperties, InAppend
  <2> HIDE DEF k
  <2> QED BY <1>1, <1>3, <2>1, <2>2 DEF CellTypeOK
<1>7. CellTypeOK'
  <2>1. \A l \in SPUs : Len(in_mbox'[l]) <= InMboxDepth
    <3>1. Len(in_mbox'[k]) <= InMboxDepth
      <4> DEFINE box == Len(in_mbox[k])
      <4>1. box \in Nat /\ box < InMboxDepth /\ Len(in_mbox'[k]) = box + 1 /\ InMboxDepth \in Nat
        BY <1>1, <1>6, Numbers
      <4> HIDE DEF box
      <4>2. box + 1 <= InMboxDepth
        BY <4>1
      <4> QED BY <4>1, <4>2
    <3> QED BY <1>1, <1>6, <3>1, AtSPU
  <2>2. /\ j' \in 0 .. NumStreams /\ total_ev' \in -1 .. num_spu_threads
        /\ ppu' \in {"send", "wait"}
    BY <1>1, <1>2, Numbers DEF CellTypeOK
  <2> HIDE DEF k
  <2> QED BY <1>1, <1>6, <2>1, <2>2 DEF CellTypeOK
<1>8. PPUPlace' /\ FramesWritten'
  BY <1>1, <1>2 DEF CellInv, PPUPlace, FramesWritten
<1>9. ASSUME NEW l \in SPUs PROVE SPUPlace(l)'
  <2>1. ppu' \in {"send", "wait"}
    BY <1>1, <1>2
  <2>2. CASE l = k
    <3>1. Len(in_mbox'[l]) + Len(data'[l]) = Dealt(l)'
      <4> DEFINE box == Len(in_mbox[l])
                 got == Len(data[l])
      <4>1. Dealt(l)' = Dealt(l) + 1
        BY <1>4, <2>2
      <4>2. Len(data'[l]) = got /\ got \in Nat
        BY <1>1, AtSPU
      <4>3. box \in Nat /\ box + got = Dealt(l) /\ Len(in_mbox'[l]) = box + 1
        BY <1>5, <1>6, <2>2 DEF Collecting
      <4> HIDE DEF box, got, k
      <4>4. (box + 1) + got = Dealt(l) + 1
        BY <4>2, <4>3
      <4> QED BY <4>1, <4>2, <4>3, <4>4
    <3>2. spu'[l] = "collect" /\ out_intr'[l] = 0 /\ Len(data'[l]) < Share
      BY <1>1, <1>5, <2>2 DEF Collecting
    <3>3. Collecting(l)'
      BY <3>1, <3>2 DEF Collecting
    <3> QED BY <2>1, <3>3 DEF SPUPlace
  <2>3. CASE l # k
    <3>1. Dealt(l)' = Dealt(l)
      BY <1>4, <2>3
    <3>2. in_mbox'[l] = in_mbox[l]
      BY <1>6, <2>3
    <3> HIDE DEF k
    <3> QED BY <1>1, <2>1, <3>1, <3>2 DEF CellInv, SPUPlaces, SPUPlace, Collecting,
         Processing, Finished
  <2> QED BY <2>2, <2>3
<1>10. OwnImages'
  <2>1. \A s \in Elements(in_mbox'[k]) : s \in Streams /\ Owner(s) = k
    BY <1>1, <1>3, <1>6 DEF CellInv, OwnImages, Streams
  <2> HIDE DEF k
  <2> QED BY <1>1, <1>6, <2>1 DEF CellInv, OwnImages
<1>11. ImagesPlaced'
  <2>1. ASSUME NEW s \in Streams, Unscaled(s) \/ s = j PROVE Unscaled(s)'
    <3>1. Owner(s) \in SPUs
      BY OwnerOf
    <3>2. CASE Owner(s) = k
      BY <1>1, <1>6, <2>1, <3>2 DEF Unscaled
    <3>3. CASE Owner(s) # k
      BY <1>1, <1>6, <2>1, <3>1, <3>3 DEF Unscaled
    <3> QED BY <3>2, <3>3
  <2>2. ASSUME NEW s \in Streams, (ppu' = "send" /\ s < j') \/ ppu' = "wait"
        PROVE  s < j \/ s = j
    BY <1>1, <1>2, <2>2, Numbers DEF Streams
  <2>3. ppu' # "write"
    BY <1>1, <1>2
  <2> QED BY <1>1, <2>1, <2>2, <2>3 DEF CellInv, ImagesPlaced
<1>12. EventsCounted'
  <2>1. CASE ppu' = "wait"
    <3>1. total_ev' = 0
      BY <1>1, <1>2, <2>1
    <3>2. ASSUME NEW l \in SPUs PROVE l \in AtWork'
      <4>1. Dealt(l)' = Share /\ Share \in Nat \ {0}
        BY <2>1, Numbers DEF Dealt
      <4>2. CASE l = k
        BY <1>6, <4>2 DEF AtWork
      <4>3. CASE l # k
        <5>1. Dealt(l) = Share
          BY <1>4, <4>1, <4>3
        <5>2. CASE Collecting(l)
          <6>1. Len(in_mbox[l]) + Len(data[l]) # 0
            BY <4>1, <5>1, <5>2 DEF Collecting
          <6>2. in_mbox[l] # <<>> \/ data[l] # <<>>
            <7>1. Len(<<>>) = 0
              BY EmptySeq
            <7>2. SUFFICES ASSUME Len(in_mbox[l]) = 0, Len(data[l]) = 0 PROVE FALSE
              BY <7>1
            <7>3. Len(in_mbox[l]) + Len(data[l]) = 0 + 0 /\ 0 + 0 = 0
              BY <7>2
            <7> QED BY <6>1, <7>3, Zenon
          <6> QED BY <1>1, <1>6, <4>3, <6>2 DEF AtWork
        <5>3. CASE Processing(l) \/ Finished(l)
          BY <1>1, <5>3 DEF AtWork, Processing, Finished
        <5> QED BY <1>1, <5>2, <5>3 DEF CellInv, SPUPlaces, SPUPlace
      <4> QED BY <4>2, <4>3
    <3>3. AtWork' = SPUs
      BY <3>2 DEF AtWork
    <3> QED BY <1>1, <3>1, <3>3, SPUsFinite, Numbers DEF EventsCounted
  <2> QED BY <2>1 DEF EventsCounted
<1>13. ASSUME NEW l \in SPUs PROVE LastComesLast(l)' /\ PutOfLast(l)'
  <2>1. CASE l = k
    <3>1. LastComesLast(l)'
      <4> SUFFICES ASSUME Dealt(l)' = Share
                   PROVE  in_mbox'[l] # <<>> /\ in_mbox'[l][Len(in_mbox'[l])] = LastOf(l)
        BY DEF LastComesLast, LastOf
      <4>1. DealtAt(j, Owner(j)) + 1 = Share
        BY <1>3, <1>4, <2>1
      <4>2. j = LastOf(l)
        BY <1>1, <2>1, <4>1, LastDealt
      <4>3. in_mbox[k] \in Seq(Streams \cup {Die}) /\ j \in Streams \cup {Die}
        BY <1>1, <1>3, AtSPU DEF Streams
      <4>4. in_mbox'[k][Len(in_mbox'[k])] = j
        BY <1>6, <4>3, AppendProperties
      <4> QED BY <1>6, <2>1, <4>2, <4>4
    <3>2. PutOfLast(l)'
      BY <1>1, <1>5, <2>1 DEF CellInv, InOrder, PutOfLast, Processing, Collecting, LastOf
    <3> QED BY <3>1, <3>2
  <2>2. CASE l # k
    <3>1. Dealt(l)' = Dealt(l) /\ in_mbox'[l] = in_mbox[l]
      BY <1>4, <1>6, <2>2
    <3> HIDE DEF k
    <3>2. LastComesLast(l)'
      BY <1>1, <3>1 DEF CellInv, InOrder, LastComesLast, LastOf
    <3> QED BY <1>1, <3>1, <3>2 DEF CellInv, InOrder, PutOfLast, Processing, LastOf
  <2> QED BY <2>1, <2>2
<1> QED BY <1>7, <1>8, <1>9, <1>10, <1>11, <1>12, <1>13 DEF CellInv, SPUPlaces, InOrder

LEMMA FrameDoneStep ==
  ASSUME CellInv, FrameDone
  PROVE  CellInv'
<1>1. /\ CellTypeOK /\ ppu = "wait" /\ total_ev >= num_spu_threads /\ ppu' = "write"
      /\ UNCHANGED <<frame, j, total_ev, input, written, big_image, in_mbox, out_intr,
                     spu, data, pending, wait_failed, mode>>
  BY DEF CellInv, FrameDone
<1>2. ~wait_failed /\ AtWork = {}
  <2> DEFINE a == Cardinality(AtWork)
             w == IF wait_failed THEN 1 ELSE 0
  <2>1. /\ total_ev + a + w = num_spu_threads /\ total_ev \in Int
        /\ a \in 0 .. num_spu_threads /\ w \in {0, 1} /\ num_spu_threads \in Nat
    BY <1>1, AtWorkFinite, Numbers DEF CellInv, EventsCounted, CellTypeOK
  <2> HIDE DEF a, w
  <2>2. a = 0 /\ w = 0
    BY <1>1, <2>1
  <2> QED BY <2>2, AtWorkFinite DEF a, w
<1>3. ASSUME NEW k \in SPUs PROVE Idle(k)
  <2>1. in_mbox[k] = <<>> /\ data[k] = <<>> /\ spu[k] # "notify" /\ out_intr[k] # 1
    BY <1>2 DEF AtWork
  <2>2. out_intr[k] = 0
    BY <1>1, <2>1, AtSPU
  <2> QED BY <1>1, <2>1, <2>2
      DEF CellInv, SPUPlaces, SPUPlace, Collecting, Processing, Finished, Idle
<1>4. CellTypeOK'
  BY <1>1 DEF CellTypeOK
<1>5. PPUPlace' /\ FramesWritten' /\ EventsCounted'
  BY <1>1, <1>2 DEF CellInv, PPUPlace, FramesWritten, EventsCounted
<1>6. SPUPlaces'
  BY <1>1, <1>3 DEF SPUPlaces, SPUPlace, Told, Idle
<1>7. OwnImages' /\ ImagesPlaced'
  BY <1>1 DEF CellInv, OwnImages, ImagesPlaced, Unscaled
<1>8. InOrder'
  BY <1>1, <1>3 DEF CellInv, InOrder, LastComesLast, PutOfLast, Processing, Idle, LastOf
<1> QED BY <1>4, <1>5, <1>6, <1>7, <1>8 DEF CellInv

(* While a frame is under way, those before it have been written.          *)
LEMMA FrameUnderWay ==
  ASSUME CellInv, ppu \in {"read", "send", "wait", "write"}
  PROVE  /\ frame \in 1 .. NumFrames /\ Len(written) = frame - 1
         /\ Len(written) + 1 = frame /\ Len(written) < NumFrames
<1>1. frame \in 1 .. NumFrames + 1 /\ frame <= NumFrames /\ Len(written) = frame - 1
  BY DEF CellInv, CellTypeOK, PPUPlace, FramesWritten
<1> DEFINE m == Len(written)
<1>2. m = frame - 1
  BY <1>1
<1> HIDE DEF m
<1>3. frame \in 1 .. NumFrames /\ m + 1 = frame /\ m < NumFrames
  BY <1>1, <1>2, Numbers
<1> QED BY <1>1, <1>3 DEF m

(* What holds when the big image is about to be written.                   *)
LEMMA Quiescent ==
  ASSUME CellInv
  PROVE  FrameQuiescent
<1> SUFFICES ASSUME ppu = "write"
             PROVE  /\ \A s \in Streams : big_image[s] = frame
                    /\ \A s \in Late : mode = "double" /\ LastOfShare(s)
                    /\ \A k \in SPUs : Idle(k)
  BY DEF FrameQuiescent, Idle
<1>1. \A k \in SPUs : Idle(k)
  BY DEF CellInv, SPUPlaces, SPUPlace, Told
<1>2. ASSUME NEW s \in Streams PROVE big_image[s] = frame
  <2>1. Owner(s) \in SPUs
    BY OwnerOf
  <2>2. ~Unscaled(s)
    BY <1>1, <2>1, InEmpty DEF Unscaled, Idle
  <2> QED BY <2>2 DEF CellInv, ImagesPlaced
<1>3. ASSUME NEW s \in Late PROVE mode = "double" /\ LastOfShare(s)
  <2>1. PICK k \in SPUs : s \in pending[k]
    BY <1>3 DEF Late
  <2>2. mode = "double" /\ s = LastOf(k)
    BY <1>1, <2>1 DEF CellInv, InOrder, PutOfLast, Processing, Idle
  <2> QED BY <2>2, LastOfIsLast
<1> QED BY <1>1, <1>2, <1>3

LEMMA WriteBigImageStep ==
  ASSUME CellInv, WriteBigImage
  PROVE  CellInv'
<1>1. /\ CellTypeOK /\ ppu = "write" /\ frame \in 1 .. NumFrames /\ j = 0 /\ ~wait_failed
      /\ Len(written) = frame - 1 /\ frame' = frame + 1 /\ input' = 0
      /\ big_image' = [s \in Streams |-> 0]
      /\ pending' = [k \in SPUs |-> {}]
      /\ UNCHANGED <<j, total_ev, in_mbox, out_intr, spu, data, wait_failed, mode>>
  BY Numbers DEF CellInv, PPUPlace, FramesWritten, CellTypeOK, WriteBigImage
<1> DEFINE picture == [p \in Places |-> IF mode = "double" /\ p[2] = "late"
                                   THEN 0 ELSE big_image[p[1]]]
<1>2. \/ /\ written' = Append(written, picture)
         /\ ppu' = IF frame < NumFrames THEN "read" ELSE "die"
      \/ ppu' = "exited" /\ UNCHANGED written
  BY DEF WriteBigImage, write_pnm
<1>3. /\ written' \in Seq([Places -> 0 .. NumFrames])
      /\ ppu' # "exited" => Len(written') = Len(written) + 1
  <2>1. written \in Seq([Places -> 0 .. NumFrames]) /\ picture \in [Places -> 0 .. NumFrames]
    <3>1. ASSUME NEW p \in Places PROVE picture[p] \in 0 .. NumFrames
      BY <1>1, Numbers DEF CellTypeOK, Places
    <3> QED BY <1>1, <3>1 DEF CellTypeOK
  <2> HIDE DEF picture
  <2>2. /\ Append(written, picture) \in Seq([Places -> 0 .. NumFrames])
        /\ Len(Append(written, picture)) = Len(written) + 1
    BY <2>1, AppendProperties
  <2> QED BY <1>2, <2>1, <2>2
<1>4. \A k \in SPUs : Idle(k)
  BY <1>1 DEF CellInv, SPUPlaces, SPUPlace, Told
<1>5. CellTypeOK'
  <2>1. /\ frame' \in 1 .. NumFrames + 1 /\ input' \in 0 .. NumFrames
        /\ ppu' \in {"read", "die", "exited"}
        /\ big_image' \in [Streams -> 0 .. NumFrames]
        /\ pending' \in [SPUs -> SUBSET Streams]
    BY <1>1, <1>2, Numbers
  <2> QED BY <1>1, <1>3, <2>1 DEF CellTypeOK
<1>6. PPUPlace'
  BY <1>1, <1>2, Numbers DEF PPUPlace
<1>7. FramesWritten'
  <2>1. ppu' # "exited" => Len(written') = frame
    BY <1>1, <1>3
  <2>2. CASE ppu' = "read"
    BY <1>1, <2>1, <2>2 DEF FramesWritten
  <2>3. CASE ppu' = "die"
    <3>1. frame = NumFrames
      BY <1>1, <1>2, <2>3, Numbers
    <3> QED BY <2>1, <2>3, <3>1 DEF FramesWritten
  <2>4. CASE ppu' = "exited"
    BY <2>4 DEF FramesWritten
  <2> QED BY <1>2, <2>2, <2>3, <2>4
<1>8. EventsCounted' /\ ImagesPlaced'
  BY <1>1, <1>2 DEF EventsCounted, ImagesPlaced
<1>9. SPUPlaces'
  <2>1. ASSUME NEW k \in SPUs PROVE SPUPlace(k)'
    <3>1. ~Told(k)' /\ ppu' \notin {"send", "wait"}
      BY <1>1, <1>2 DEF Told, SPUs
    <3> QED BY <1>1, <1>4, <3>1 DEF SPUPlace, Idle
  <2> QED BY <2>1 DEF SPUPlaces
<1>10. OwnImages'
  BY <1>1, <1>4, InEmpty DEF OwnImages, Idle
<1>11. InOrder'
  BY <1>1, <1>4 DEF InOrder, LastComesLast, PutOfLast, Idle
<1> QED BY <1>5, <1>6, <1>7, <1>8, <1>9, <1>10, <1>11 DEF CellInv

LEMMA SendDieStep ==
  ASSUME CellInv, SendDie
  PROVE  CellInv'
<1>1. /\ CellTypeOK /\ ppu = "die" /\ j \in SPUs /\ ~wait_failed
      /\ in_mbox' = [in_mbox EXCEPT ![j] = Append(@, Die)]
      /\ \/ j + 1 < num_spu_threads /\ j' = j + 1 /\ ppu' = "die"
         \/ j + 1 = num_spu_threads /\ j' = 0 /\ ppu' = "join"
      /\ UNCHANGED <<frame, total_ev, input, written, big_image, out_intr, spu, data,
                     pending, wait_failed, mode>>
  <2>1. /\ CellTypeOK /\ ppu = "die" /\ ~wait_failed /\ j \in 0 .. NumStreams
        /\ j < num_spu_threads
        /\ in_mbox' = [in_mbox EXCEPT ![j] = Append(@, Die)]
        /\ IF j + 1 < num_spu_threads
           THEN j' = j + 1 /\ UNCHANGED ppu
           ELSE j' = 0 /\ ppu' = "join"
        /\ UNCHANGED <<frame, total_ev, input, written, big_image, out_intr, spu, data,
                       pending, wait_failed, mode>>
    BY DEF CellInv, CellTypeOK, PPUPlace, SendDie, InMboxWrite
  <2>2. j \in SPUs /\ (j + 1 < num_spu_threads \/ j + 1 = num_spu_threads)
    BY <2>1, Numbers DEF SPUs
  <2> QED BY <2>1, <2>2
<1>2. Idle(j)
  BY <1>1 DEF CellInv, SPUPlaces, SPUPlace, Told, SPUs
<1>3. /\ in_mbox' \in [SPUs -> Seq(Streams \cup {Die})] /\ in_mbox'[j] = <<Die>>
      /\ \A l \in SPUs \ {j} : in_mbox'[l] = in_mbox[l]
      /\ \A l \in SPUs : Len(in_mbox'[l]) <= InMboxDepth
  <2>1. in_mbox[j] = <<>> /\ Append(<<>>, Die) = <<Die>>
    BY <1>2 DEF Idle
  <2>2. <<Die>> \in Seq(Streams \cup {Die}) /\ Len(<<Die>>) = 1
    OBVIOUS
  <2> QED BY <1>1, <2>1, <2>2, AtSPU, Numbers DEF CellTypeOK
<1>4. CellTypeOK'
  <2>1. j' \in 0 .. NumStreams
    <3>1. num_spu_threads <= NumStreams /\ num_spu_threads \in Nat /\ NumStreams \in Nat
      BY CellAssumption
    <3> QED BY <1>1, <3>1 DEF SPUs
  <2> QED BY <1>1, <1>3, <2>1 DEF CellTypeOK
<1>5. PPUPlace' /\ FramesWritten' /\ EventsCounted' /\ ImagesPlaced'
  BY <1>1, Numbers DEF CellInv, PPUPlace, FramesWritten, EventsCounted, ImagesPlaced, SPUs
<1>6. SPUPlaces'
  <2>1. ASSUME NEW l \in SPUs PROVE SPUPlace(l)'
    <3>1. Told(l)' <=> Told(l) \/ l = j
      BY <1>1, Numbers DEF Told, SPUs
    <3>2. CASE l = j
      BY <1>1, <1>2, <1>3, <3>1, <3>2 DEF SPUPlace, Idle, Leaving
    <3>3. CASE l # j
      BY <1>1, <1>3, <3>1, <3>3 DEF CellInv, SPUPlaces, SPUPlace, Idle, Leaving
    <3> QED BY <3>2, <3>3
  <2> QED BY <2>1 DEF SPUPlaces
<1>7. OwnImages'
  BY <1>1 DEF CellInv, OwnImages
<1>8. InOrder'
  BY <1>1, Numbers DEF CellInv, InOrder, LastComesLast, PutOfLast, Processing, Dealt, LastOf
<1> QED BY <1>4, <1>5, <1>6, <1>7, <1>8 DEF CellInv

LEMMA CellInvStep == CellInv /\ [CellNext]_cellVars => CellInv'
<1> SUFFICES ASSUME CellInv, [CellNext]_cellVars PROVE CellInv'
  OBVIOUS
<1>1. ASSUME NEW k \in SPUs, SPUStep(k) PROVE CellInv'
  BY <1>1, ReadInMboxStep, ProcessImageStep, WriteOutIntrStep DEF SPUStep
<1>5. ASSUME NEW k \in SPUs, Transfer(k) PROVE CellInv'
  BY <1>5, TransferStep
<1>2. CASE PPUStep
  BY <1>2, ReadImagesStep, SendAddressStep, EventWaitStep, FrameDoneStep,
     WriteBigImageStep, SendDieStep DEF PPUStep
<1>3. CASE EventWaitFails
  BY <1>3, EventWaitFailsStep
<1>4. CASE UNCHANGED cellVars
  BY <1>4 DEF cellVars, ppuVars, CellInv, CellTypeOK, PPUPlace, SPUPlaces, SPUPlace,
     Collecting, Processing, Finished, Idle, Leaving, Told, Dealt, OwnImages, ImagesPlaced,
     Unscaled, EventsCounted, AtWork, FramesWritten, InOrder, LastComesLast, PutOfLast,
     LastOf
<1> QED BY <1>1, <1>2, <1>3, <1>4, <1>5 DEF CellNext, Joined, WaitsForever

LEMMA CellInvAlways == CellSpec => []CellInv
BY CellInvInit, CellInvStep, PTL DEF CellSpec

------------------------------------------------------------------------------
(* The types, and with them that no SPU ever has more images than its      *)
(* share, nor a mailbox more messages than it holds.                       *)
THEOREM CellTyped == CellSpec => []CellTypeOK
BY CellInvAlways, PTL DEF CellInv

(* Each SPU takes the images it was dealt and no others, and the zero that *)
(* ends it never comes in the middle of a share (spu.c:465-472).           *)
THEOREM SharesAlwaysKept == CellSpec => []SharesKept
<1>1. CellInv => SharesKept
  <2> SUFFICES ASSUME CellInv, NEW k \in SPUs
               PROVE  /\ \A s \in Elements(in_mbox[k]) \cup Elements(data[k]) :
                           s # Die => Owner(s) = k
                      /\ (spu[k] = "ended" \/ Die \in Elements(in_mbox[k])) =>
                           ppu \in {"die", "join"} /\ data[k] = <<>>
    BY DEF SharesKept, Owner
  <2>1. CASE ppu \in {"send", "wait"}
    <3>1. Die \notin Elements(in_mbox[k])
      <4>1. Die \notin Streams
        BY Numbers DEF Streams, Die
      <4> QED BY <2>1, <4>1 DEF CellInv, OwnImages
    <3>2. spu[k] # "ended"
      BY <2>1 DEF CellInv, SPUPlaces, SPUPlace, Collecting, Processing, Finished
    <3> QED BY <2>1, <3>1, <3>2 DEF CellInv, OwnImages
  <2>2. CASE ppu \notin {"send", "wait"}
    <3>1. (data[k] = <<>> /\ Idle(k)) \/ (Leaving(k) /\ Told(k))
      BY <2>2 DEF CellInv, SPUPlaces, SPUPlace, Idle
    <3>2. Elements(<<Die>>) = {Die}
      BY DEF Elements
    <3> QED BY <3>1, <3>2, InEmpty DEF Idle, Leaving, Told
  <2> QED BY <2>1, <2>2
<1> QED BY <1>1, CellInvAlways, PTL

(* While an SPU is at work on a frame, the PPU has neither written nor     *)
(* freed it, even if a call of spe_event_wait fails (ppu.c:278-311).       *)
THEOREM ImagesStayAlive == CellSpec => []ImagesAlive
<1>1. CellInv => ImagesAlive
  BY DEF CellInv, PPUPlace, SPUPlaces, SPUPlace, Idle, Leaving, ImagesAlive
<1> QED BY <1>1, CellInvAlways, PTL

(* When the big image is written every image of the frame is in its place  *)
(* and no message of the frame is left over; a put is pending only in mode *)
(* double, of the last image of a share (ppu.c:282-299, spu.c:207-282).    *)
THEOREM FramesQuiescent == CellSpec => []FrameQuiescent
BY CellInvAlways, Quiescent, PTL

(* The pictures of some of the streams only.                               *)
Seen(T, w) == [n \in DOMAIN w |-> [s \in T |-> w[n][s]]]

LEMMA LengthOfSeen ==
  ASSUME NEW S, NEW T, NEW w \in Seq(S)
  PROVE  Len(Seen(T, w)) = Len(w)
<1>1. Len(w) \in Nat /\ DOMAIN w = 1 .. Len(w)
  BY LenProperties
<1> QED BY <1>1 DEF Seen

LEMMA SeenOfAppend ==
  ASSUME NEW S, NEW T, NEW w \in Seq(S), NEW x \in S
  PROVE  Seen(T, Append(w, x)) = Append(Seen(T, w), [s \in T |-> x[s]])
<1> DEFINE R(y) == [s \in T |-> y[s]]
           v == [n \in DOMAIN w |-> R(w[n])]
           w1 == Append(w, x)
           m == Len(w)
<1>1. /\ m \in Nat /\ DOMAIN w = 1 .. m /\ DOMAIN w1 = 1 .. m + 1
      /\ \A n \in 1 .. m : w1[n] = w[n]
      /\ w1[m + 1] = x
  BY AppendProperties, LenProperties
<1> HIDE DEF R, w1, m
<1>2. v \in Seq({R(w[n]) : n \in 1 .. m}) /\ Len(v) = m /\ DOMAIN v = 1 .. m
  BY <1>1
<1>3. /\ DOMAIN Append(v, R(x)) = 1 .. m + 1 /\ Append(v, R(x))[m + 1] = R(x)
      /\ \A n \in 1 .. m : Append(v, R(x))[n] = v[n]
      /\ Append(v, R(x)) = [n \in 1 .. m + 1 |-> Append(v, R(x))[n]]
  BY <1>1, <1>2
<1>4. ASSUME NEW n \in 1 .. m + 1 PROVE R(w1[n]) = Append(v, R(x))[n]
  <2>1. CASE n \in 1 .. m
    BY <1>1, <1>3, <2>1
  <2>2. CASE n = m + 1
    BY <1>1, <1>3, <2>2
  <2> QED BY <1>1, <2>1, <2>2
<1>5. [n \in DOMAIN w1 |-> R(w1[n])] = Append(v, R(x))
  BY <1>1, <1>3, <1>4
<1> QED BY <1>5 DEF R, w1, Seen

(* The program implements the abstract specification, but for its          *)
(* liveness: the big images are written in order, with the thumbnails of   *)
(* all the streams, in mode double but for the late line of each, and none *)
(* after a failure (ppu.c:254-312, spu.c:207-282).                         *)
THEOREM StepsOfPreview ==
  CellSpec => /\ Abstract!PreviewInit
              /\ [][Abstract!WriteFrame \/ Abstract!Fail]_(Abstract!previewVars)
<1>1. CellInit => Abstract!PreviewInit
  BY DEF CellInit, Abstract!PreviewInit
<1>2. ASSUME CellInv, [CellNext]_cellVars
      PROVE  [Abstract!WriteFrame \/ Abstract!Fail]_(Abstract!previewVars)
  <2> DEFINE failed == wait_failed \/ ppu = "exited"
             seen == Seen(Sure, written)
  <2>0. Sure' = Sure
    <3>1. mode' = mode
      BY <1>2 DEF CellNext, PPUStep, SPUStep, ReadImages, SendAddress, EventWait, FrameDone,
         WriteBigImage, SendDie, EventWaitFails, ReadInMbox, ProcessImage, WriteOutIntr,
         Transfer, Joined, WaitsForever, cellVars, ppuVars
    <3> QED BY <3>1 DEF Sure
  <2>1. ASSUME UNCHANGED written, failed' = failed
        PROVE  UNCHANGED Abstract!previewVars
    <3>1. seen' = seen
      BY <2>0, <2>1
    <3> QED BY <2>0, <2>1, <3>1 DEF Abstract!previewVars, Seen
  <2>2. ASSUME UNCHANGED written, ~failed, failed', Len(written) < NumFrames
        PROVE  Abstract!Fail
    <3>1. seen' = seen
      BY <2>0, <2>2
    <3>2. Len(seen) = Len(written)
      BY <1>2, LengthOfSeen DEF CellInv, CellTypeOK
    <3> QED BY <2>0, <2>2, <3>1, <3>2 DEF Abstract!Fail, Seen
  <2> HIDE DEF failed, seen
  <2>3. CASE ReadImages
    <3>1. CASE ppu' = "send"
      <4>1. ppu = "read" /\ UNCHANGED <<written, wait_failed>>
        BY <2>3, <3>1 DEF ReadImages
      <4> QED BY <2>1, <3>1, <4>1 DEF failed
    <3>2. CASE ppu' # "send"
      <4>1. ppu = "read" /\ ppu' = "exited" /\ UNCHANGED <<written, wait_failed>>
        BY <2>3, <3>2 DEF ReadImages, read_pnm
      <4>2. ~wait_failed /\ Len(written) < NumFrames
        BY <1>2, <4>1, FrameUnderWay DEF CellInv, PPUPlace
      <4> QED BY <2>2, <4>1, <4>2 DEF failed
    <3> QED BY <3>1, <3>2
  <2>4. CASE WriteBigImage
    <3>1. /\ ppu = "write" /\ ~wait_failed /\ UNCHANGED wait_failed
          /\ frame \in 1 .. NumFrames /\ Len(written) + 1 = frame /\ Len(written) < NumFrames
      BY <1>2, <2>4, FrameUnderWay DEF CellInv, PPUPlace, WriteBigImage
    <3> DEFINE picture == [p \in Places |-> IF mode = "double" /\ p[2] = "late"
                                   THEN 0 ELSE big_image[p[1]]]
    <3>2. [s \in Sure |-> picture[s]] = [s \in Sure |-> frame]
      <4>1. ASSUME NEW p \in Sure PROVE picture[p] = frame
        <5>1. p \in Places /\ p[1] \in Streams /\ ~(mode = "double" /\ p[2] = "late")
          BY DEF Sure, Places
        <5>2. big_image[p[1]] = frame
          BY <1>2, <3>1, <5>1, Quiescent DEF FrameQuiescent
        <5> QED BY <5>1, <5>2
      <4> QED BY <4>1
    <3>3. CASE ppu' = "exited"
      <4>1. UNCHANGED written
        BY <2>4, <3>1, <3>3, Numbers DEF WriteBigImage, write_pnm
      <4> QED BY <2>2, <3>1, <3>3, <4>1 DEF failed
    <3>4. CASE ppu' # "exited"
      <4>1. written' = Append(written, picture)
        BY <2>4, <3>4 DEF WriteBigImage, write_pnm
      <4>2. written \in Seq([Places -> 0 .. NumFrames]) /\ picture \in [Places -> 0 .. NumFrames]
        <5>0. CellTypeOK
          BY <1>2 DEF CellInv
        <5>1. ASSUME NEW p \in Places PROVE picture[p] \in 0 .. NumFrames
          BY <5>0, Numbers DEF CellTypeOK, Places
        <5> QED BY <5>0, <5>1 DEF CellTypeOK
      <4> DEFINE pictures == [Places -> 0 .. NumFrames]
      <4>3. written \in Seq(pictures) /\ picture \in pictures
        BY <4>2
      <4> HIDE DEF picture, pictures
      <4>4. /\ Seen(Sure, Append(written, picture))
                 = Append(Seen(Sure, written), [s \in Sure |-> picture[s]])
            /\ Len(Seen(Sure, written)) = Len(written)
        BY <4>3, SeenOfAppend, LengthOfSeen
      <4>5. seen' = Seen(Sure, Append(written, picture))
        BY <2>0, <4>1 DEF seen
      <4>6. seen' = Append(seen, [s \in Sure |-> frame]) /\ Len(seen) + 1 = frame
        BY <3>1, <3>2, <4>4, <4>5 DEF seen
      <4>7. frame <= NumFrames /\ ~failed /\ failed' = failed
        BY <3>1, <3>4 DEF failed
      <4> QED BY <2>0, <4>6, <4>7 DEF Abstract!WriteFrame, seen, failed, Seen
    <3> QED BY <3>3, <3>4
  <2>5. CASE EventWaitFails
    <3>1. ppu = "wait" /\ ppu' = "wait" /\ ~wait_failed /\ wait_failed' = TRUE
          /\ UNCHANGED written
      BY <2>5 DEF EventWaitFails
    <3>2. Len(written) < NumFrames
      BY <1>2, <3>1, FrameUnderWay
    <3> QED BY <2>2, <3>1, <3>2 DEF failed
  <2>6. CASE SendAddress \/ EventWait \/ FrameDone \/ SendDie
    <3>1. ppu # "exited" /\ ppu' # "exited" /\ UNCHANGED <<written, wait_failed>>
      BY <2>6 DEF SendAddress, EventWait, FrameDone, SendDie
    <3> QED BY <2>1, <3>1 DEF failed
  <2>7. CASE \E k \in SPUs : SPUStep(k) \/ Transfer(k)
    <3>1. UNCHANGED ppuVars
      BY <2>7 DEF SPUStep, ReadInMbox, ProcessImage, WriteOutIntr, Transfer
    <3> QED BY <2>1, <3>1 DEF ppuVars, failed
  <2>8. CASE UNCHANGED cellVars
    BY <2>8, <2>1 DEF cellVars, ppuVars, failed
  <2> QED BY <1>2, <2>3, <2>4, <2>5, <2>6, <2>7, <2>8
      DEF CellNext, PPUStep, Joined, WaitsForever
<1> QED BY <1>1, <1>2, CellInvAlways, PTL DEF CellSpec
------------------------------------------------------------------------------
(* Whether the program ends.  The guards of the steps: what the PPU and the *)
(* SPUs wait for.                                                          *)
PPUCanStep ==
  \/ ppu \in {"read", "write"}
  \/ ppu = "send" /\ Len(in_mbox[Owner(j)]) < InMboxDepth
  \/ ppu = "wait" /\ (total_ev >= num_spu_threads \/ \E k \in SPUs : out_intr[k] = 1)
  \/ ppu = "die" /\ Len(in_mbox[j]) < InMboxDepth

SPUCanStep(k) ==
  /\ ppu # "exited"
  /\ \/ spu[k] = "collect" /\ in_mbox[k] # <<>>
     \/ spu[k] = "process"
     \/ spu[k] = "notify" /\ out_intr[k] = 0

Over == ppu = "exited" \/ (ppu = "join" /\ \A k \in SPUs : spu[k] = "ended")

(* The blocking writes to small mailboxes, the wait for events and the     *)
(* joins never stop PPU and SPUs all together; only a call of              *)
(* spe_event_wait that has failed does (ppu.c:275-303, spu.c:454-482).     *)
NobodyStuck ==
  \/ Over \/ PPUCanStep \/ \E k \in SPUs : SPUCanStep(k)
  \/ ppu = "wait" /\ wait_failed

(* What is left to the PPU: failures that may still come, frames, the      *)
(* stages of a frame, and the messages or events of a stage.               *)
StageLeft ==
  CASE ppu = "read"  -> 6
    [] ppu = "send"  -> 5
    [] ppu = "wait"  -> 4
    [] ppu = "write" -> 3
    [] ppu = "die"   -> 2
    [] ppu = "join"  -> 1
    [] OTHER         -> 0

ItemsLeft ==
  CASE ppu = "send" -> NumStreams - j
    [] ppu = "wait" -> num_spu_threads - total_ev
    [] ppu = "die"  -> num_spu_threads - j
    [] OTHER        -> 0

left ==
  <<IF wait_failed THEN 0 ELSE 1, NumFrames + 1 - frame, StageLeft, ItemsLeft>>

(* The order of a dictionary.                                              *)
Before(l, m) ==
  \E p \in 1 .. 4 : l[p] < m[p] /\ \A q \in 1 .. p - 1 : l[q] = m[q]

(* A message costs an SPU and its MFC at most four steps: to take, to      *)
(* scale, to put a pending line, to tell.                                  *)
SPULeft(k) ==
  4 * Len(in_mbox[k]) + 2 * Len(data[k])
    + (IF spu[k] \in {"process", "notify"} THEN 1 ELSE 0)
    + (IF pending[k] = {} THEN 0 ELSE 1)

tasks == [k \in SPUs |-> SPULeft(k)]

Less(f, g) == f # g /\ \A k \in DOMAIN g : f[k] <= g[k]

LeftCounted == left \in [1 .. 4 -> Nat] /\ tasks \in [SPUs -> Nat]

(* Every step brings the end nearer: the PPU has less left to do, or an    *)
(* SPU has, and the others as much.  These are natural numbers, so no      *)
(* schedule goes on for ever (ppu.c:254-303, spu.c:454-482).               *)
EveryStepCounts ==
  [][Before(left', left) \/ (left' = left /\ Less(tasks', tasks))]_cellVars

(* A full mailbox is one of an SPU that is taking its share; while events  *)
(* are missing an SPU has a message to take, an image to scale or a message*)
(* of its own to send.                                                     *)
LEMMA SomeoneCanStep == CellInv => NobodyStuck
<1> SUFFICES ASSUME CellInv PROVE NobodyStuck
  OBVIOUS
<1>0. CellTypeOK /\ PPUPlace /\ SPUPlaces /\ EventsCounted
  BY DEF CellInv
<1>1. CASE ppu \in {"read", "write", "exited"}
  BY <1>1 DEF NobodyStuck, PPUCanStep, Over
<1>2. CASE ppu = "send"
  <2> DEFINE k == Owner(j)
  <2>1. j \in Streams /\ k \in SPUs
    BY <1>0, <1>2, OwnerOf, CellAssumption DEF PPUPlace, CellTypeOK, Streams
  <2>2. CASE Len(in_mbox[k]) < InMboxDepth
    BY <1>2, <2>2 DEF NobodyStuck, PPUCanStep
  <2>3. CASE ~ (Len(in_mbox[k]) < InMboxDepth)
    <3>1. in_mbox[k] # <<>>
      BY <2>3, CellAssumption
    <3>2. spu[k] = "collect"
      BY <1>0, <1>2, <2>1, <3>1 DEF SPUPlaces, SPUPlace, Collecting, Processing, Finished
    <3> QED BY <1>2, <2>1, <3>1, <3>2 DEF NobodyStuck, SPUCanStep
  <2> QED BY <2>2, <2>3
<1>3. CASE ppu = "wait"
  <2> SUFFICES ASSUME ~wait_failed, ~ (total_ev >= num_spu_threads)
               PROVE  NobodyStuck
    BY <1>3 DEF NobodyStuck, PPUCanStep
  <2>1. AtWork # {}
    <3>1. total_ev + Cardinality(AtWork) = num_spu_threads
      <4>1. total_ev + Cardinality(AtWork) + 0 = num_spu_threads
        BY <1>0, <1>3 DEF EventsCounted
      <4>2. Cardinality(AtWork) \in Nat
        BY AtWorkFinite, FS_CardinalityType
      <4> QED BY <1>0, <4>1, <4>2 DEF CellTypeOK
    <3>2. AtWork = {} => Cardinality(AtWork) = 0
      BY FS_EmptySet
    <3> QED BY <1>0, <3>1, <3>2, CellAssumption DEF CellTypeOK
  <2>2. PICK k \in SPUs : k \in AtWork
    BY <2>1 DEF AtWork
  <2>3. CASE out_intr[k] = 1
    BY <1>3, <2>3 DEF NobodyStuck, PPUCanStep
  <2>4. CASE Collecting(k)
    <3>1. Len(data[k]) < Share /\ Len(in_mbox[k]) + Len(data[k]) = Share
      BY <1>3, <2>4 DEF Collecting, Dealt
    <3>2. in_mbox[k] # <<>>
      BY <1>0, <2>2, <3>1 DEF CellTypeOK
    <3> QED BY <1>3, <2>4, <3>2 DEF NobodyStuck, SPUCanStep, Collecting
  <2>5. CASE Processing(k)
    BY <1>3, <2>5 DEF NobodyStuck, SPUCanStep, Processing
  <2>6. CASE Finished(k) /\ out_intr[k] # 1
    BY <1>3, <2>2, <2>6 DEF NobodyStuck, SPUCanStep, Finished, AtWork
  <2> QED BY <1>0, <1>3, <2>3, <2>4, <2>5, <2>6 DEF SPUPlaces, SPUPlace
<1>4. CASE ppu = "die"
  <2>1. j \in SPUs
    BY <1>0, <1>4, CellAssumption DEF PPUPlace, CellTypeOK, SPUs
  <2>2. in_mbox[j] = <<>>
    BY <1>0, <1>4, <2>1, CellAssumption DEF SPUPlaces, SPUPlace, Told, Idle, SPUs
  <2> QED BY <1>4, <2>2, CellAssumption DEF NobodyStuck, PPUCanStep
<1>5. CASE ppu = "join"
  <2>1. \A k \in SPUs : SPUCanStep(k) \/ spu[k] = "ended"
    BY <1>0, <1>5 DEF SPUPlaces, SPUPlace, Told, Leaving, SPUCanStep
  <2> QED BY <1>5, <2>1 DEF NobodyStuck, Over
<1> QED BY <1>0, <1>1, <1>2, <1>3, <1>4, <1>5 DEF CellTypeOK

(* However shallow the mailboxes and whatever the shares are, PPU and SPUs *)
(* never all wait for each other, unless a wait for events has failed      *)
(* (ppu.c:275-303, spu.c:454-482).                                         *)
THEOREM NobodyEverStuck == CellSpec => []NobodyStuck
BY CellInvAlways, SomeoneCanStep, PTL

LEMMA LeftIsCounted == CellInv => LeftCounted
<1> SUFFICES ASSUME CellInv PROVE LeftCounted
  OBVIOUS
<1>0. CellTypeOK /\ PPUPlace /\ SPUPlaces /\ EventsCounted
  BY DEF CellInv
<1>1. NumFrames + 1 - frame \in Nat
  BY <1>0, Numbers DEF CellTypeOK
<1>2. StageLeft \in Nat
  BY DEF StageLeft
<1>3. ItemsLeft \in Nat
  <2>1. ppu = "send" => NumStreams - j \in Nat
    BY <1>0, Numbers DEF CellTypeOK
  <2>2. ppu = "wait" => num_spu_threads - total_ev \in Nat
    BY <1>0, Numbers DEF CellTypeOK
  <2>3. ppu = "die" => num_spu_threads - j \in Nat
    BY <1>0, Numbers DEF CellTypeOK, PPUPlace
  <2> QED BY <2>1, <2>2, <2>3 DEF ItemsLeft
<1>4. ASSUME NEW k \in SPUs PROVE SPULeft(k) \in Nat
  <2> DEFINE m == Len(in_mbox[k])
             d == Len(data[k])
             b == IF spu[k] \in {"process", "notify"} THEN 1 ELSE 0
             p == IF pending[k] = {} THEN 0 ELSE 1
  <2>1. m \in Nat /\ d \in Nat /\ b \in Nat /\ p \in Nat
    BY <1>0 DEF CellTypeOK
  <2>2. SPULeft(k) = 4 * m + 2 * d + b + p
    BY DEF SPULeft
  <2> HIDE DEF m, d, b, p
  <2>3. 4 * m + 2 * d + b + p \in Nat
    BY <2>1
  <2> QED BY <2>2, <2>3
<1>5. left \in [1 .. 4 -> Nat]
  <2>1. (IF wait_failed THEN 0 ELSE 1) \in Nat
    OBVIOUS
  <2> QED BY <1>1, <1>2, <1>3, <2>1 DEF left
<1> QED BY <1>4, <1>5 DEF LeftCounted, tasks

(* A step of an SPU or its MFC leaves the PPU and the others as they are.  *)
LEMMA SPUStepCounts ==
  ASSUME CellInv, NEW k \in SPUs, SPUStep(k) \/ Transfer(k)
  PROVE  left' = left /\ Less(tasks', tasks)
<1>0. CellTypeOK /\ PPUPlace /\ SPUPlaces /\ EventsCounted
  BY DEF CellInv
<1>1. UNCHANGED ppuVars /\ left' = left
  <2>1. UNCHANGED ppuVars
    BY DEF SPUStep, ReadInMbox, ProcessImage, WriteOutIntr, Transfer
  <2> QED BY <2>1 DEF ppuVars, left, StageLeft, ItemsLeft
<1>2. \A i \in SPUs : i # k =>
        /\ in_mbox'[i] = in_mbox[i] /\ data'[i] = data[i] /\ spu'[i] = spu[i]
        /\ pending'[i] = pending[i]
  BY <1>0 DEF SPUStep, ReadInMbox, ProcessImage, WriteOutIntr, Transfer, CellTypeOK
<1>3. \A i \in SPUs : i # k => SPULeft(i)' = SPULeft(i)
  BY <1>2 DEF SPULeft
<1> DEFINE m == Len(in_mbox[k])
           d == Len(data[k])
           b == IF spu[k] \in {"process", "notify"} THEN 1 ELSE 0
           p == IF pending[k] = {} THEN 0 ELSE 1
           m1 == Len(in_mbox'[k])
           d1 == Len(data'[k])
           b1 == IF spu'[k] \in {"process", "notify"} THEN 1 ELSE 0
           p1 == IF pending'[k] = {} THEN 0 ELSE 1
<1>4. /\ in_mbox[k] \in Seq(Streams \cup {Die}) /\ data[k] \in Seq(Streams)
      /\ m \in Nat /\ d \in Nat /\ b \in {0, 1} /\ p \in {0, 1}
      /\ b1 \in {0, 1} /\ p1 \in {0, 1}
  BY <1>0 DEF CellTypeOK
<1>5. SPULeft(k) = 4 * m + 2 * d + b + p /\ SPULeft(k)' = 4 * m1 + 2 * d1 + b1 + p1
  BY DEF SPULeft
<1>6. SPULeft(k) \in Nat /\ SPULeft(k)' \in Nat /\ SPULeft(k)' < SPULeft(k)
  <2>1. CASE ReadInMbox(k)
    <3>1. /\ in_mbox[k] # <<>> /\ in_mbox'[k] = Tail(in_mbox[k])
          /\ spu[k] = "collect" /\ pending' = pending
      BY <1>0, <2>1 DEF ReadInMbox, CellTypeOK
    <3>2. m \in Nat \ {0} /\ m1 = m - 1 /\ b = 0 /\ p1 = p
      BY <1>4, <3>1
    <3>3. d1 \in Nat /\ d1 <= d + 1
      <4>1. CASE Head(in_mbox[k]) = Die
        <5>1. data'[k] = data[k]
          BY <2>1, <4>1 DEF ReadInMbox
        <5> QED BY <1>4, <5>1
      <4>2. CASE Head(in_mbox[k]) # Die
        <5>1. data'[k] = Append(data[k], Head(in_mbox[k]))
          BY <1>0, <2>1, <4>2 DEF ReadInMbox, CellTypeOK
        <5>2. Head(in_mbox[k]) \in Streams
          BY <1>4, <3>1, <4>2
        <5> QED BY <1>4, <5>1, <5>2
      <4> QED BY <4>1, <4>2
    <3> HIDE DEF m, d, b, p, m1, d1, b1, p1
    <3>4. 4 * m = 4 * m1 + 4 /\ m1 \in Nat /\ 2 * d1 <= 2 * d + 2
      BY <1>4, <3>2, <3>3
    <3>5. /\ m \in Nat /\ d \in Nat /\ d1 \in Nat
          /\ b \in 0 .. 1 /\ b1 \in 0 .. 1 /\ p \in 0 .. 1 /\ p1 \in 0 .. 1
      BY <1>4, <3>2, <3>3
    <3>6. 4 * m1 + 2 * d1 + b1 + p1 < 4 * m + 2 * d + b + p
      BY <3>2, <3>4, <3>5
    <3>7. 4 * m1 + 2 * d1 + b1 + p1 \in Nat /\ 4 * m + 2 * d + b + p \in Nat
      BY <3>4, <3>5
    <3> QED BY <1>5, <3>6, <3>7
  <2>2. CASE ProcessImage(k)
    <3>1. /\ data[k] # <<>> /\ data'[k] = Tail(data[k]) /\ in_mbox'[k] = in_mbox[k]
          /\ spu[k] = "process" /\ spu'[k] \in {"process", "notify"}
      BY <1>0, <1>1, <2>2 DEF ProcessImage, CellTypeOK, SPUPlaces, SPUPlace,
         Collecting, Processing, Finished, Idle, Leaving
    <3>2. d \in Nat \ {0} /\ d1 = d - 1 /\ m1 = m /\ b1 = b
      BY <1>4, <3>1
    <3> HIDE DEF m, d, b, p, m1, d1, b1, p1
    <3> QED BY <1>4, <1>5, <3>2
  <2>3. CASE WriteOutIntr(k)
    <3>1. /\ data'[k] = data[k] /\ in_mbox'[k] = in_mbox[k]
          /\ spu[k] = "notify" /\ spu'[k] = "collect" /\ pending' = pending
      BY <1>0, <2>3 DEF WriteOutIntr, CellTypeOK
    <3>2. d1 = d /\ m1 = m /\ b = 1 /\ b1 = 0 /\ p1 = p
      BY <3>1
    <3> HIDE DEF m, d, b, p, m1, d1, b1, p1
    <3> QED BY <1>4, <1>5, <3>2
  <2>4. CASE Transfer(k)
    <3>1. /\ data' = data /\ in_mbox' = in_mbox /\ spu' = spu
          /\ pending[k] # {} /\ pending'[k] = {}
      BY <1>0, <2>4 DEF Transfer, CellTypeOK
    <3>2. d1 = d /\ m1 = m /\ b1 = b /\ p = 1 /\ p1 = 0
      BY <3>1
    <3> HIDE DEF m, d, b, p, m1, d1, b1, p1
    <3> QED BY <1>4, <1>5, <3>2
  <2> QED BY <2>1, <2>2, <2>3, <2>4 DEF SPUStep
<1>7. /\ tasks'[k] < tasks[k] /\ tasks[k] \in Nat /\ tasks'[k] \in Nat
      /\ \A i \in SPUs : i # k => tasks'[i] = tasks[i]
  BY <1>3, <1>6 DEF tasks
<1>8. tasks \in [SPUs -> Nat]
  BY LeftIsCounted DEF LeftCounted
<1>9. \A i \in SPUs : tasks'[i] <= tasks[i]
  BY <1>7, <1>8
<1>10. DOMAIN tasks = SPUs /\ tasks' # tasks
  BY <1>7, <1>8
<1> QED BY <1>1, <1>9, <1>10 DEF Less

(* A step of the PPU is the next item, the next stage, the next frame, or  *)
(* the failure.                                                            *)
LEMMA PPUStepCounts ==
  ASSUME CellInv, PPUStep \/ EventWaitFails
  PROVE  Before(left', left)
<1>0. CellTypeOK /\ PPUPlace /\ SPUPlaces /\ EventsCounted
  BY DEF CellInv
<1>1. /\ frame \in 1 .. NumFrames + 1 /\ j \in 0 .. NumStreams
      /\ total_ev \in -1 .. num_spu_threads /\ NumFrames \in Nat
      /\ num_spu_threads \in Nat /\ NumStreams \in Nat /\ wait_failed \in BOOLEAN
  BY <1>0, Numbers DEF CellTypeOK
<1>2. \A p \in 1 .. 4 : left[p] = (CASE p = 1 -> IF wait_failed THEN 0 ELSE 1
                                     [] p = 2 -> NumFrames + 1 - frame
                                     [] p = 3 -> StageLeft
                                     [] OTHER -> ItemsLeft)
  BY DEF left
<1>3. \A p \in 1 .. 4 : left'[p] = (CASE p = 1 -> IF wait_failed' THEN 0 ELSE 1
                                      [] p = 2 -> NumFrames + 1 - frame'
                                      [] p = 3 -> StageLeft'
                                      [] OTHER -> ItemsLeft')
  BY DEF left
(* A later item of the stage, a later stage, a later frame, a failure.     *)
<1>4. ASSUME wait_failed' = wait_failed, frame' = frame, StageLeft' = StageLeft,
             ItemsLeft' < ItemsLeft
      PROVE  Before(left', left)
  <2>1. left'[4] < left[4] /\ \A q \in 1 .. 4 - 1 : left'[q] = left[q]
    BY <1>2, <1>3, <1>4
  <2> QED BY <2>1 DEF Before
<1>5. ASSUME wait_failed' = wait_failed, frame' = frame, StageLeft' < StageLeft
      PROVE  Before(left', left)
  <2>1. left'[3] < left[3] /\ \A q \in 1 .. 3 - 1 : left'[q] = left[q]
    BY <1>2, <1>3, <1>5
  <2> QED BY <2>1 DEF Before
<1>6. CASE ReadImages
  <2>1. ppu = "read" /\ ppu' \in {"send", "exited"} /\ UNCHANGED <<frame, wait_failed>>
    BY <1>6 DEF ReadImages, read_pnm
  <2>2. StageLeft' < StageLeft
    BY <2>1 DEF StageLeft
  <2> QED BY <1>5, <2>1, <2>2
<1>7. CASE SendAddress
  <2>1. ppu = "send" /\ UNCHANGED <<frame, wait_failed>>
    BY <1>7 DEF SendAddress
  <2>2. CASE j + 1 < NumStreams
    <3>1. ppu' = "send" /\ j' = j + 1
      BY <1>7, <2>1, <2>2 DEF SendAddress
    <3>2. StageLeft' = StageLeft /\ ItemsLeft' < ItemsLeft
      BY <1>1, <2>1, <3>1 DEF StageLeft, ItemsLeft
    <3> QED BY <1>4, <2>1, <3>2
  <2>3. CASE ~ (j + 1 < NumStreams)
    <3>1. ppu' = "wait"
      BY <1>7, <2>3 DEF SendAddress
    <3>2. StageLeft' < StageLeft
      BY <2>1, <3>1 DEF StageLeft
    <3> QED BY <1>5, <2>1, <3>2
  <2> QED BY <2>2, <2>3
<1>8. CASE EventWait
  <2>1. /\ ppu = "wait" /\ UNCHANGED <<ppu, frame, wait_failed>>
        /\ \E events \in (SUBSET {k \in SPUs : out_intr[k] = 1}) \ {{}} :
             total_ev' = total_ev + Cardinality(events)
    BY <1>8 DEF EventWait
  <2>2. PICK events \in SUBSET SPUs : events # {} /\ total_ev' = total_ev + Cardinality(events)
    <3>1. PICK events \in (SUBSET {k \in SPUs : out_intr[k] = 1}) \ {{}} :
               total_ev' = total_ev + Cardinality(events)
      BY <2>1
    <3>2. events \in SUBSET SPUs /\ events # {}
      BY <3>1
    <3> QED BY <3>1, <3>2
  <2>3. Cardinality(events) \in Nat /\ Cardinality(events) # 0
    BY <2>2, SPUsFinite, FS_Subset, FS_CardinalityType, FS_EmptySet
  <2>4. StageLeft' = StageLeft /\ ItemsLeft' < ItemsLeft
    BY <1>1, <2>1, <2>2, <2>3 DEF StageLeft, ItemsLeft
  <2> QED BY <1>4, <2>1, <2>4
<1>9. CASE FrameDone
  <2>1. ppu = "wait" /\ ppu' = "write" /\ UNCHANGED <<frame, wait_failed>>
    BY <1>9 DEF FrameDone
  <2>2. StageLeft' < StageLeft
    BY <2>1 DEF StageLeft
  <2> QED BY <1>5, <2>1, <2>2
<1>10. CASE WriteBigImage
  <2>1. frame' = frame + 1 /\ UNCHANGED wait_failed
    BY <1>10 DEF WriteBigImage
  <2>2. left'[2] < left[2] /\ \A q \in 1 .. 2 - 1 : left'[q] = left[q]
    BY <1>1, <1>2, <1>3, <2>1
  <2> QED BY <2>2 DEF Before
<1>11. CASE SendDie
  <2>1. ppu = "die" /\ UNCHANGED <<frame, wait_failed>>
    BY <1>11 DEF SendDie
  <2>2. CASE j + 1 < num_spu_threads
    <3>1. ppu' = "die" /\ j' = j + 1
      BY <1>11, <2>1, <2>2 DEF SendDie
    <3>2. StageLeft' = StageLeft /\ ItemsLeft' < ItemsLeft
      BY <1>1, <2>1, <3>1 DEF StageLeft, ItemsLeft
    <3> QED BY <1>4, <2>1, <3>2
  <2>3. CASE ~ (j + 1 < num_spu_threads)
    <3>1. ppu' = "join"
      BY <1>11, <2>3 DEF SendDie
    <3>2. StageLeft' < StageLeft
      BY <2>1, <3>1 DEF StageLeft
    <3> QED BY <1>5, <2>1, <3>2
  <2> QED BY <2>2, <2>3
<1>12. CASE EventWaitFails
  <2>1. ~wait_failed /\ wait_failed' = TRUE
    BY <1>12 DEF EventWaitFails
  <2>2. left'[1] < left[1] /\ \A q \in 1 .. 1 - 1 : left'[q] = left[q]
    BY <1>2, <1>3, <2>1
  <2> QED BY <2>2 DEF Before
<1> QED BY <1>6, <1>7, <1>8, <1>9, <1>10, <1>11, <1>12 DEF PPUStep

(* With NobodyEverStuck: whatever the schedule, the program ends after     *)
(* finitely many steps, all frames written or an error met, or it waits    *)
(* for the event that a failed call has eaten (ppu.c:254-303).             *)
THEOREM EveryStepTellsOff == CellSpec => []LeftCounted /\ EveryStepCounts
<1>1. ASSUME CellInv, [CellNext]_cellVars
      PROVE  [Before(left', left) \/ (left' = left /\ Less(tasks', tasks))]_cellVars
  BY <1>1, PPUStepCounts, SPUStepCounts DEF CellNext, Joined, WaitsForever
<1> QED BY <1>1, CellInvAlways, LeftIsCounted, PTL DEF CellSpec, EveryStepCounts
==============================================================================
