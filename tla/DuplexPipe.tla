------------------------------ MODULE DuplexPipe ------------------------------
(***************************************************************************)
(* What the proxy promises once a SOCKS request has succeeded: two         *)
(* independent byte streams, client to remote and remote to client, each   *)
(* delivered in order, without loss, duplication or mixing, and each       *)
(* closed only after every byte its source sent has been handed over.  The *)
(* pipe may fail as a whole at any time (a reset, an idle timeout), but it *)
(* may only report completion when both streams are complete.              *)
(*                                                                         *)
(* Relay.tla is shown to implement this specification.                     *)
(***************************************************************************)
EXTENDS Integers, Sequences

CONSTANTS
    Byte,       (* the values a byte can take                              *)
    Payload     (* Payload[s]: everything the peer on side s may ever send *)

Side == {"client", "remote"}

(* The other end of the pipe. *)
Peer(s) == IF s = "client" THEN "remote" ELSE "client"

VARIABLES
    nsent,      (* nsent[s]: how many bytes of Payload[s] peer s has sent   *)
    eof,        (* eof[s]: peer s has finished sending                      *)
    dlvd,       (* dlvd[s]: the bytes handed to peer s                      *)
    finOut,     (* finOut[s]: the stream towards peer s has been closed     *)
    status      (* "open", "complete" or "failed"                           *)

vars == <<nsent, eof, dlvd, finOut, status>>

Init ==
    /\ nsent = [s \in Side |-> 0]
    /\ eof = [s \in Side |-> FALSE]
    /\ dlvd = [s \in Side |-> <<>>]
    /\ finOut = [s \in Side |-> FALSE]
    /\ status = "open"

Send(s) ==
    /\ ~eof[s]
    /\ nsent[s] < Len(Payload[s])
    /\ nsent' = [nsent EXCEPT ![s] = @ + 1]
    /\ UNCHANGED <<eof, dlvd, finOut, status>>

Close(s) ==
    /\ ~eof[s]
    /\ eof' = [eof EXCEPT ![s] = TRUE]
    /\ UNCHANGED <<nsent, dlvd, finOut, status>>

(* The next bytes of the peer's stream, in order, are handed to side s. *)
Deliver(s) ==
    /\ status = "open"
    /\ ~finOut[s]
    /\ \E n \in Len(dlvd[s]) + 1 .. nsent[Peer(s)] :
           dlvd' = [dlvd EXCEPT ![s] = SubSeq(Payload[Peer(s)], 1, n)]
    /\ UNCHANGED <<nsent, eof, finOut, status>>

(* The stream towards s ends, once its source ended and nothing is owed. *)
Fin(s) ==
    /\ status = "open"
    /\ ~finOut[s]
    /\ eof[Peer(s)]
    /\ Len(dlvd[s]) = nsent[Peer(s)]
    /\ finOut' = [finOut EXCEPT ![s] = TRUE]
    /\ UNCHANGED <<nsent, eof, dlvd, status>>

Complete ==
    /\ status = "open"
    /\ \A s \in Side : finOut[s]
    /\ status' = "complete"
    /\ UNCHANGED <<nsent, eof, dlvd, finOut>>

Fail ==
    /\ status = "open"
    /\ status' = "failed"
    /\ UNCHANGED <<nsent, eof, dlvd, finOut>>

Next ==
    \/ \E s \in Side : Send(s) \/ Close(s) \/ Deliver(s) \/ Fin(s)
    \/ Complete
    \/ Fail

Spec == Init /\ [][Next]_vars
===============================================================================
