----------------------------- MODULE ArrayBuffer ------------------------------
(***************************************************************************)
(* buffer.c: a byte array with a read head R and a write head W, counted   *)
(* here from the start of the array (Data).  A user asks for the writable  *)
(* part (BufferWritePtr), fills any front of it and advances W; or asks    *)
(* for the readable part (BufferReadPtr), uses any front of it and         *)
(* advances R.  The heads return to the start when the buffer runs empty,  *)
(* and Compact moves the unread bytes there.                               *)
(***************************************************************************)
EXTENDS Integers, Sequences

CONSTANTS
    Byte,       (* the values a byte can take          *)
    Size        (* the length of the array (Size - Data) *)

ASSUME SizeAssumption == Size \in Nat
ASSUME ByteAssumption == 0 \in Byte

VARIABLES
    data,       (* the array: data[i] for i in 0 .. Size - 1 *)
    R,          (* ReadHead - Data                           *)
    W           (* WriteHead - Data                          *)

vars == <<data, R, W>>

Index == 0 .. Size - 1

Init == data = [i \in Index |-> 0] /\ R = 0 /\ W = 0

CanWrite == Size - W > 0
CanRead == W - R > 0

(* The lengths BufferWritePtr and BufferReadPtr report.                    *)
Writable == Size - W
Readable == W - R

Reset ==
    /\ R' = 0
    /\ W' = 0
    /\ UNCHANGED data


(* The caller fills the front of the writable part and advances W.         *)
WriteAdv(n) ==
    /\ n <= Writable
    /\ \E chunk \in [0 .. n - 1 -> Byte] :
           data' = [i \in Index |->
                       IF i \in W .. W + n - 1 THEN chunk[i - W] ELSE data[i]]
    /\ W' = W + n
    /\ UNCHANGED R

ReadAdvForgetful(n) ==                                    (* a mutant *)
    /\ n <= Readable
    /\ R' = R + n
    /\ UNCHANGED <<data, W>>

(* The caller has used the front of the readable part; a drained buffer    *)
(* starts over.                                                            *)
ReadAdv(n) ==
    /\ n <= Readable
    /\ IF R + n = W THEN R' = 0 /\ W' = 0 ELSE R' = R + n /\ UNCHANGED W
    /\ UNCHANGED data

WriteByte == CanWrite /\ WriteAdv(1)
ReadByte == CanRead /\ ReadAdv(1)

CompactInPlace ==                                         (* a mutant *)
    /\ R # 0 /\ R # W
    /\ R' = 0
    /\ W' = W - R
    /\ UNCHANGED data

(* BufferCompact: the unread bytes move to the front; a buffer read from   *)
(* its start, or drained, has nothing to move.                             *)
Compact ==
    /\ R # 0 /\ R # W
    /\ data' = [i \in Index |-> IF i < W - R THEN data[R + i] ELSE data[i]]
    /\ R' = 0
    /\ W' = W - R

Next ==
    \/ Reset
    \/ \E n \in 1 .. Size : WriteAdv(n) \/ ReadAdv(n)
    \/ WriteByte
    \/ ReadByte
    \/ Compact

Spec == Init /\ [][Next]_vars

-------------------------------------------------------------------------------
(* The documented invariant R <= W <= Size, whose parts the assertions of  *)
(* buffer.c test.                                                          *)
TypeOK ==
    /\ data \in [Index -> Byte]
    /\ W \in 0 .. Size
    /\ R \in 0 .. W

(* A buffer with nothing to read offers its whole capacity to the next     *)
(* message, however it was filled and drained: the handshake builds its    *)
(* replies in one piece and relies on that room (socks5_messages.c).       *)
DrainedIsWhole == Readable = 0 => Writable = Size

(* The unread bytes, oldest first. *)
Contents == [i \in 1 .. W - R |-> data[R + i - 1]]

(* Through any advances, compactions and resets the bytes come out in the  *)
(* order they went in, none lost, none repeated.                           *)
Queue == INSTANCE ByteQueue WITH queue <- Contents
ImplementsQueue == Queue!Spec
===============================================================================
