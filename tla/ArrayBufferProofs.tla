--------------------------- MODULE ArrayBufferProofs --------------------------
(***************************************************************************)
(* Proofs about ArrayBuffer.tla for every capacity: the heads stay in      *)
(* order (the assertions of buffer.c never fail as long as no caller       *)
(* advances further than it was told it may), a drained buffer is whole,   *)
(* and the array with its two heads implements a queue.                    *)
(***************************************************************************)
EXTENDS ArrayBuffer, SequenceTheorems, TLAPS

BufferInv == TypeOK /\ DrainedIsWhole

LEMMA InitInv == Init => BufferInv
  BY SizeAssumption, ByteAssumption
     DEF Init, BufferInv, TypeOK, DrainedIsWhole, Readable, Writable, Index

(* WriteByte and ReadByte are advances by one. *)
LEMMA ByteSteps ==
    ASSUME BufferInv, WriteByte \/ ReadByte
    PROVE  \E n \in 1 .. Size : WriteAdv(n) \/ ReadAdv(n)
  <1>1. 1 \in 1 .. Size
    BY SizeAssumption
       DEF BufferInv, TypeOK, WriteByte, ReadByte, CanWrite, CanRead
  <1> QED
    BY <1>1 DEF WriteByte, ReadByte

LEMMA NextInv == BufferInv /\ [Next]_vars => BufferInv'
  <1> SUFFICES ASSUME BufferInv, [Next]_vars PROVE BufferInv'
    OBVIOUS
  <1> USE SizeAssumption DEF BufferInv, TypeOK, DrainedIsWhole, Readable, Writable
  <1>1. CASE Reset
    BY <1>1 DEF Reset
  <1>2. ASSUME NEW n \in 1 .. Size, WriteAdv(n) PROVE BufferInv'
    <2>1. PICK chunk \in [0 .. n - 1 -> Byte] :
              data' = [i \in Index |->
                          IF i \in W .. W + n - 1 THEN chunk[i - W] ELSE data[i]]
      BY <1>2 DEF WriteAdv
    <2>2. data' \in [Index -> Byte]
      <3>1. ASSUME NEW i \in Index, i \in W .. W + n - 1 PROVE chunk[i - W] \in Byte
        <4>1. i - W \in 0 .. n - 1
          BY <3>1 DEF Index
        <4> QED
          BY <4>1
      <3> QED
        BY <2>1, <3>1
    <2> QED
      BY <1>2, <2>2 DEF WriteAdv
  <1>3. ASSUME NEW n \in 1 .. Size, ReadAdv(n) PROVE BufferInv'
    BY <1>3 DEF ReadAdv
  <1>4. CASE Compact
    <2>1. data' \in [Index -> Byte]
      <3>1. ASSUME NEW i \in Index, i < W - R PROVE R + i \in Index
        BY <3>1 DEF Index
      <3> QED
        BY <1>4, <3>1 DEF Compact
    <2> QED
      BY <1>4, <2>1 DEF Compact
  <1>5. CASE UNCHANGED vars
    BY <1>5 DEF vars
  <1> QED
    BY <1>1, <1>2, <1>3, <1>4, <1>5, ByteSteps DEF Next

(* R <= W <= Size, always: the assertions of buffer.c hold. *)
THEOREM HeadsInOrder == Spec => []TypeOK
  <1>1. BufferInv => TypeOK
    BY DEF BufferInv
  <1> QED
    BY <1>1, InitInv, NextInv, PTL DEF Spec

(* An empty buffer always has its whole capacity to offer. *)
THEOREM DrainedBuffersAreWhole == Spec => []DrainedIsWhole
  <1>1. BufferInv => DrainedIsWhole
    BY DEF BufferInv
  <1> QED
    BY <1>1, InitInv, NextInv, PTL DEF Spec

-------------------------------------------------------------------------------
(* The unread bytes are a sequence as long as the distance of the heads. *)
LEMMA ContentsIsSeq ==
    ASSUME TypeOK
    PROVE  /\ Contents \in Seq(Byte)
           /\ Len(Contents) = W - R
           /\ \A i \in 1 .. W - R : Contents[i] = data[R + i - 1]
  <1>1. W - R \in Nat
    BY SizeAssumption DEF TypeOK
  <1>2. \A i \in 1 .. W - R : data[R + i - 1] \in Byte
    <2>1. ASSUME NEW i \in 1 .. W - R PROVE R + i - 1 \in Index
      BY SizeAssumption DEF TypeOK, Index
    <2> QED
      BY <2>1 DEF TypeOK
  <1>3. Contents \in [1 .. W - R -> Byte]
    BY <1>2 DEF Contents
  <1>4. Contents \in Seq(Byte)
    BY <1>1, <1>3, IsASeq
  <1>5. Len(Contents) = W - R
    BY <1>1, <1>3, <1>4, LenProperties
  <1> QED
    BY <1>4, <1>5 DEF Contents

(* Filling the front of the writable part appends to the queue. *)
LEMMA WriteMaps ==
    ASSUME TypeOK, TypeOK', NEW n \in 1 .. Size, WriteAdv(n)
    PROVE  Queue!Put
  <1> USE SizeAssumption
  <1>1. PICK chunk \in [0 .. n - 1 -> Byte] :
            data' = [i \in Index |->
                        IF i \in W .. W + n - 1 THEN chunk[i - W] ELSE data[i]]
    BY DEF WriteAdv
  <1> DEFINE c == [j \in 1 .. n |-> chunk[j - 1]]
  <1>2. c \in [1 .. n -> Byte]
    <2>1. \A j \in 1 .. n : j - 1 \in 0 .. n - 1
      OBVIOUS
    <2> QED
      BY <2>1
  <1>3. c \in Seq(Byte) /\ Len(c) = n
    <2>1. n \in Nat
      OBVIOUS
    <2> QED
      BY <1>2, <2>1, IsASeq, LenProperties
  <1>4. W' = W + n /\ R' = R /\ n <= Size - W
    BY DEF WriteAdv, Writable
  <1>5. /\ R \in Nat /\ W \in Nat /\ R <= W /\ W <= Size
    BY DEF TypeOK
  <1>6. Contents' = Contents \o c
    <2>1. /\ Contents \in Seq(Byte) /\ Len(Contents) = W - R
          /\ \A i \in 1 .. W - R : Contents[i] = data[R + i - 1]
      BY ContentsIsSeq
    <2>2. /\ Contents' \in Seq(Byte) /\ Len(Contents') = W + n - R
          /\ \A i \in 1 .. W + n - R : Contents'[i] = data'[R + i - 1]
      <3>1. /\ Contents' \in Seq(Byte) /\ Len(Contents') = W' - R'
            /\ \A i \in 1 .. W' - R' : Contents'[i] = data'[R' + i - 1]
        <4>1. W' - R' \in Nat
          BY <1>4, <1>5
        <4>2. \A i \in 1 .. W' - R' : data'[R' + i - 1] \in Byte
          <5>1. ASSUME NEW i \in 1 .. W' - R' PROVE R' + i - 1 \in Index
            BY <1>4, <1>5 DEF Index
          <5> QED
            BY <5>1 DEF TypeOK
        <4>3. Contents' \in [1 .. W' - R' -> Byte]
          BY <4>2 DEF Contents
        <4>4. Contents' \in Seq(Byte)
          BY <4>1, <4>3, IsASeq
        <4>5. Len(Contents') = W' - R'
          BY <4>1, <4>3, <4>4, LenProperties
        <4> QED
          BY <4>4, <4>5 DEF Contents
      <3>2. W' - R' = W + n - R /\ R' = R
        BY <1>4, <1>5
      <3> QED
        BY ONLY <3>1, <3>2, Zenon
    <2> HIDE DEF c
    <2>3. /\ Contents \o c \in Seq(Byte)
          /\ Len(Contents \o c) = W - R + n
          /\ \A i \in 1 .. W - R + n :
                (Contents \o c)[i] = IF i <= W - R THEN Contents[i] ELSE c[i - (W - R)]
      <3>1. /\ Contents \o c \in Seq(Byte)
            /\ Len(Contents \o c) = Len(Contents) + Len(c)
            /\ \A i \in 1 .. Len(Contents) + Len(c) :
                  (Contents \o c)[i] =
                     IF i <= Len(Contents) THEN Contents[i] ELSE c[i - Len(Contents)]
        <4>1. Contents \in Seq(Byte) /\ c \in Seq(Byte)
          BY <2>1, <1>3
        <4> QED
          BY ONLY <4>1, ConcatProperties
      <3>2. Len(Contents) = W - R /\ Len(c) = n
        BY <2>1, <1>3
      <3> QED
        BY ONLY <3>1, <3>2, Zenon
    <2>4. ASSUME NEW i \in 1 .. W + n - R PROVE Contents'[i] = (Contents \o c)[i]
      <3>1. i \in 1 .. W - R + n /\ R + i - 1 \in Index
        BY <1>4, <1>5 DEF Index
      <3>2. CASE i <= W - R
        <4>1. R + i - 1 \notin W .. W + n - 1
          BY <3>2, <1>5
        <4>2. data'[R + i - 1] = data[R + i - 1]
          BY <1>1, <3>1, <4>1
        <4>3. i \in 1 .. W - R
          BY <3>2, <1>5
        <4> QED
          BY <2>1, <2>2, <2>3, <3>1, <3>2, <4>2, <4>3
      <3>3. CASE i > W - R
        <4>1. R + i - 1 \in W .. W + n - 1
          BY <3>3, <3>1, <1>5
        <4>2. data'[R + i - 1] = chunk[(R + i - 1) - W]
          BY <1>1, <3>1, <4>1
        <4>3. /\ i - (W - R) \in 1 .. n
              /\ (i - (W - R)) - 1 = (R + i - 1) - W
          BY <3>3, <3>1, <1>5
        <4>4. c[i - (W - R)] = chunk[(R + i - 1) - W]
          BY <4>3 DEF c
        <4>5. (Contents \o c)[i] = c[i - (W - R)]
          BY <2>3, <3>1, <3>3, <1>5
        <4> QED
          BY <2>2, <4>2, <4>4, <4>5
      <3> QED
        BY <3>2, <3>3, <1>5
    <2>5. Len(Contents') = Len(Contents \o c)
      BY <2>2, <2>3, <1>5
    <2> QED
      BY <2>2, <2>3, <2>4, <2>5, SeqEqual
  <1>7. n \in 1 .. Size - Len(Contents)
    BY <1>4, <1>5, ContentsIsSeq
  <1> QED
    BY <1>2, <1>6, <1>7 DEF Queue!Put

(* Using the front of the readable part shortens the queue from its front. *)
LEMMA ReadMaps ==
    ASSUME TypeOK, TypeOK', NEW n \in 1 .. Size, ReadAdv(n)
    PROVE  Queue!Take
  <1>1. /\ R \in Nat /\ W \in Nat /\ R <= W /\ W <= Size /\ n <= W - R
        /\ n \in Nat /\ data' = data
    BY SizeAssumption DEF TypeOK, ReadAdv, Readable
  <1>2. /\ Contents \in Seq(Byte) /\ Len(Contents) = W - R
        /\ \A i \in 1 .. W - R : Contents[i] = data[R + i - 1]
    BY ContentsIsSeq
  <1>3. n \in 1 .. Len(Contents)
    BY <1>1, <1>2
  <1>4. Contents' = SubSeq(Contents, n + 1, Len(Contents))
    <2>1. CASE R + n = W
      <3>1. R' = 0 /\ W' = 0
        BY <2>1 DEF ReadAdv
      <3>2. Contents' = <<>>
        BY <3>1 DEF Contents
      <3>3. n = Len(Contents)
        BY <2>1, <1>1, <1>2
      <3>4. SubSeq(Contents, n + 1, Len(Contents)) = <<>>
        BY <3>3, <1>1, SubSeqEmpty
      <3> QED
        BY <3>2, <3>4
    <2>2. CASE R + n # W
      <3>1. R' = R + n /\ W' = W
        BY <2>2 DEF ReadAdv
      <3>2. SubSeq(Contents, n + 1, Len(Contents))
              = [i \in 1 .. (W - R) - n |-> Contents[i + n]]
        BY <1>1, <1>2
      <3>3. Contents' = [i \in 1 .. W - (R + n) |-> data[R + n + i - 1]]
        BY <3>1, <1>1 DEF Contents
      <3>4. ASSUME NEW i \in 1 .. W - (R + n)
            PROVE  Contents[i + n] = data[R + n + i - 1]
        <4>1. i + n \in 1 .. W - R /\ R + (i + n) - 1 = R + n + i - 1
          BY <1>1
        <4> QED
          BY <4>1, <1>2
      <3>5. 1 .. (W - R) - n = 1 .. W - (R + n)
        BY <1>1
      <3> QED
        BY <3>2, <3>3, <3>4, <3>5
    <2> QED
      BY <2>1, <2>2
  <1> QED
    BY <1>3, <1>4 DEF Queue!Take

(* Moving the unread bytes to the front changes nothing that can be seen.  *)
LEMMA CompactMaps ==
    ASSUME TypeOK, Compact
    PROVE  Contents' = Contents
  <1>1. /\ R \in Nat /\ W \in Nat /\ R <= W /\ W <= Size
        /\ R' = 0 /\ W' = W - R
        /\ data' = [i \in Index |-> IF i < W - R THEN data[R + i] ELSE data[i]]
    BY SizeAssumption DEF TypeOK, Compact
  <1>2. Contents' = [i \in 1 .. W - R |-> data'[i - 1]]
    BY <1>1 DEF Contents
  <1>3. ASSUME NEW i \in 1 .. W - R PROVE data'[i - 1] = data[R + i - 1]
    <2>1. i - 1 \in Index /\ i - 1 < W - R /\ R + (i - 1) = R + i - 1
      BY <1>1, SizeAssumption DEF Index
    <2> QED
      BY <1>1, <2>1
  <1> QED
    BY <1>2, <1>3 DEF Contents

LEMMA StepMaps ==
    ASSUME BufferInv, BufferInv', [Next]_vars
    PROVE  [Queue!Next]_Contents
  <1> USE DEF BufferInv
  <1>1. CASE Reset
    <2>1. Contents' = <<>>
      BY <1>1 DEF Reset, Contents
    <2> QED
      BY <2>1 DEF Queue!Next, Queue!Empty
  <1>2. ASSUME NEW n \in 1 .. Size, WriteAdv(n) PROVE [Queue!Next]_Contents
    BY <1>2, WriteMaps DEF Queue!Next
  <1>3. ASSUME NEW n \in 1 .. Size, ReadAdv(n) PROVE [Queue!Next]_Contents
    BY <1>3, ReadMaps DEF Queue!Next
  <1>4. CASE Compact
    BY <1>4, CompactMaps
  <1>5. CASE UNCHANGED vars
    BY <1>5 DEF vars, Contents
  <1> QED
    BY <1>1, <1>2, <1>3, <1>4, <1>5, ByteSteps DEF Next

(* buffer.c implements a bounded first-in-first-out queue of bytes. *)
THEOREM BufferIsAQueue == Spec => ImplementsQueue
  <1>1. Init => Queue!Init
    BY DEF Init, Queue!Init, Contents
  <1>2. BufferInv /\ BufferInv' /\ [Next]_vars => [Queue!Next]_Contents
    BY StepMaps
  <1> QED
    BY <1>1, <1>2, InitInv, NextInv, PTL DEF Spec, ImplementsQueue, Queue!Spec
===============================================================================
