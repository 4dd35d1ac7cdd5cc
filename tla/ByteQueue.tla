------------------------------ MODULE ByteQueue -------------------------------
(***************************************************************************)
(* What buffer.h promises to its users: a queue of at most Size bytes that *)
(* come out in the order they went in, and that can be emptied at once.    *)
(* ArrayBuffer.tla is shown to implement it.                               *)
(***************************************************************************)
EXTENDS Integers, Sequences

CONSTANTS
    Byte,       (* the values a byte can take *)
    Size        (* the capacity               *)

VARIABLE queue

Init == queue = <<>>

(* The bytes of some chunk are added at the end, as far as there is room. *)
Put ==
    \E n \in 1 .. Size - Len(queue) :
        \E chunk \in [1 .. n -> Byte] : queue' = queue \o chunk

(* The first n bytes leave the queue. *)
Take ==
    \E n \in 1 .. Len(queue) : queue' = SubSeq(queue, n + 1, Len(queue))

Empty == queue' = <<>>

Next == Put \/ Take \/ Empty

Spec == Init /\ [][Next]_queue
===============================================================================
