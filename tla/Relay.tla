--------------------------------- MODULE Relay --------------------------------
(***************************************************************************)
(* The relay phase of one SOCKS connection: the states CONNECTED,          *)
(* CLIENT_READ, REMOTE_WRITE, REMOTE_READ and CLIENT_WRITE of              *)
(* socks5_connection.c, driven by the select loop of selector.c.           *)
(*                                                                         *)
(* Both directions share ONE buffer (WriteBuffer), so the FSM alternates:  *)
(* it waits on both sockets, picks one, reads a chunk, writes it to the    *)
(* other one completely and only then waits on both again.  What makes it  *)
(* hard is that select reports several events at once, each handler        *)
(* changes the interests the later ones are filtered by, either side may   *)
(* half-close while the other still talks, an administrator may change the *)
(* buffer size meanwhile, and a peer may reset at any point.               *)
(*                                                                         *)
(* The two directions of the code are line-by-line mirror images, so a     *)
(* handler is written once for a side s; ClientReadRun, RemoteReadRun,     *)
(* ClientWriteRun and RemoteWriteRun name the four instances.              *)
(***************************************************************************)
EXTENDS Integers, Sequences

CONSTANTS
    Byte,             (* the values a byte can take                        *)
    Payload,          (* Payload[s]: everything peer s may ever send       *)
    BufferSizes,      (* the sizes an administrator may ask for            *)
    Room,             (* bytes the kernel accepts before a peer must read  *)
    MayReset,         (* can a peer reset its connection?                  *)
    MayTimeout        (* is the idle timeout on (socksMaxTimeout > 0)?     *)

Side == {"client", "remote"}
Op == {"R", "W"}      (* SELECTOR_OP_READ, SELECTOR_OP_WRITE *)

Peer(s) == IF s = "client" THEN "remote" ELSE "client"

ASSUME RelayAssumption ==
    /\ Payload \in [Side -> Seq(Byte)]
    /\ BufferSizes \subseteq Nat
    /\ BufferSizes \ {0} # {}
    /\ Room \in Nat \ {0}
    /\ MayReset \in BOOLEAN
    /\ MayTimeout \in BOOLEAN

(* The state that reads from s, and the one that writes to s. *)
Reading(s) == IF s = "client" THEN "CLIENT_READ" ELSE "REMOTE_READ"
Writing(s) == IF s = "client" THEN "CLIENT_WRITE" ELSE "REMOTE_WRITE"

AliveStates == {"CONNECTED", "CLIENT_READ", "REMOTE_READ",
                "CLIENT_WRITE", "REMOTE_WRITE"}

(* DONE and ERROR dispose of the connection at once; TIMED_OUT is the      *)
(* disposal by the idle timeout, KILLED the end of the whole process by a  *)
(* SIGPIPE, for which main.c installs no handler.                          *)
EndStates == {"DONE", "ERROR", "TIMED_OUT", "KILLED"}

VARIABLES
    state,        (* Fsm.CurrentState                                      *)
    interest,     (* interest[s]: the selector's Item->Interest            *)
    pend,         (* ready events of this iteration not yet looked at      *)
    lowFd,        (* the side whose descriptor number is the lower one     *)
    canRead,      (* TcpConnection.CanRead                                 *)
    canWrite,     (* TcpConnection.CanWrite                                *)
    buf,          (* the bytes between ReadHead and WriteHead              *)
    cap,          (* WriteBuffer.Size - WriteBuffer.Data                   *)
    target,       (* targetBufferSize                                      *)
    nsent,        (* nsent[s]: bytes of Payload[s] that have arrived here  *)
    nrecv,        (* nrecv[s]: how many of those recv has returned         *)
    eof,          (* eof[s]: the FIN of peer s has arrived                 *)
    reset,        (* reset[s]: the RST of peer s has arrived               *)
    room,         (* room[s]: bytes the kernel still accepts towards s     *)
    dlvd          (* dlvd[s]: the bytes send has accepted towards s        *)

loopVars == <<state, interest, pend, canRead, canWrite, buf, cap>>
netVars  == <<nsent, nrecv, eof, reset, room, dlvd>>
vars == <<state, interest, pend, lowFd, canRead, canWrite, buf, cap, target,
          nsent, nrecv, eof, reset, room, dlvd>>

Alive == state \in AliveStates

(* The operations the FSM table has a handler for in each relay state: any *)
(* other event would call abort() in fsm.c.                                *)
HandledOps(st) ==
    CASE st \in {"CONNECTED", "CLIENT_READ", "REMOTE_READ"} -> {"R"}
      [] st \in {"CLIENT_WRITE", "REMOTE_WRITE"}            -> {"W"}
      [] OTHER                                              -> {}

Init ==
    /\ state = "CONNECTED"
    /\ interest = [s \in Side |-> {"R"}]
    /\ pend = {}
    /\ lowFd \in Side
    /\ canRead = [s \in Side |-> TRUE]
    /\ canWrite = [s \in Side |-> TRUE]
    /\ buf = <<>>
    /\ target \in BufferSizes \ {0}
    /\ cap = target
    /\ nsent = [s \in Side |-> 0]
    /\ nrecv = [s \in Side |-> 0]
    /\ eof = [s \in Side |-> FALSE]
    /\ reset = [s \in Side |-> FALSE]
    /\ room = [s \in Side |-> Room]
    /\ dlvd = [s \in Side |-> <<>>]

-------------------------------------------------------------------------------
(* The finite state machine (fsm.c): a jump runs the departure hook of the *)
(* state it leaves and the arrival hook of the one it enters; staying runs *)
(* neither, as no relay state has a reentry hook.                          *)

(* The buffer after the hooks: the *Read arrivals and the *Write           *)
(* departures reset it, and arriving at CONNECTED replaces it when the     *)
(* configured size is no longer its own.                                   *)
HasToResize == cap # target
ResizesOnAnyJump(next) == state # next /\ HasToResize     (* a mutant *)
Resizes(next) == state # next /\ next = "CONNECTED" /\ HasToResize
Resets(next) ==
    /\ state # next
    /\ \/ \E s \in Side : next = Reading(s)
       \/ \E s \in Side : state = Writing(s)

Jump(next, content) ==
    /\ state' = next
    /\ cap' = IF Resizes(next) THEN target ELSE cap
    /\ buf' = IF Resets(next) \/ Resizes(next) THEN <<>> ELSE content

SetOwnInterestOnly(s, ops, peerOps) ==                    (* a mutant *)
    interest' = [interest EXCEPT ![s] = ops]
SetInterest(s, ops, peerOps) ==
    interest' = [interest EXCEPT ![s] = ops, ![Peer(s)] = peerOps]

-------------------------------------------------------------------------------
(* The sockets (tcp.c, tcp_connection.c).                                  *)

Least(m, n) == IF m < n THEN m ELSE n
Unread(s) == nsent[s] - nrecv[s]

(* What recv may return: a count, 0 for "end of stream" (or for a buffer   *)
(* without room), -1 for an error (EAGAIN included).                       *)
RecvResults(s, len) ==
    CASE len = 0                        -> {0}
      [] len # 0 /\ Unread(s) > 0       -> {Least(Unread(s), len)}
                                           \cup (IF reset[s] THEN {-1} ELSE {})
      [] len # 0 /\ Unread(s) = 0       -> IF eof[s] /\ ~reset[s] THEN {0} ELSE {-1}

(* send accepts what fits, or fails; writing after our own shutdown, or to *)
(* a peer that had already sent its FIN when it reset, raises SIGPIPE.     *)
SendResult(s, len) ==
    IF reset[s] \/ ~canWrite[s] \/ room[s] = 0 THEN -1 ELSE Least(len, room[s])
RaisesSigpipe(s) == ~canWrite[s] \/ (reset[s] /\ eof[s])

(* DisconnectFromTcpConnection: shutdown() on a socket that is no longer   *)
(* connected fails, which is forgiven once our own side is closed.         *)
DisconnectFails(s) == reset[s] /\ canWrite[s]
ShutRd(s) == canRead' = [canRead EXCEPT ![s] = @ /\ DisconnectFails(s)]
ShutWrForgotten(s) == UNCHANGED canWrite                  (* a mutant *)
ShutWr(s) == canWrite' = [canWrite EXCEPT ![s] = @ /\ DisconnectFails(s)]

-------------------------------------------------------------------------------
(* The handlers, for a side s.                                             *)

(* ConnectedConnectionRun: an event on s picks s as the side to read from, *)
(* unless s is already at its end.                                         *)

ConnectedRun(s) ==
    /\ state = "CONNECTED"
    /\ \/ /\ canRead[s]
          /\ SetInterest(s, {"R"}, {})
          /\ Jump(Reading(s), buf)
       \/ /\ ~canRead[s]
          /\ \E t \in Side : canRead[t] \/ canWrite[t]
          /\ Jump("CONNECTED", buf)
          /\ UNCHANGED interest
       \/ /\ \A t \in Side : ~canRead[t] /\ ~canWrite[t]
          /\ Jump("DONE", buf)
          /\ UNCHANGED interest
    /\ UNCHANGED <<canRead, canWrite, netVars>>

(* ClientReadRun / RemoteReadRun: one recv into the empty buffer.          *)
ReadRun(s) ==
    /\ state = Reading(s)
    /\ \E n \in RecvResults(s, cap - Len(buf)) :
        \/ /\ n > 0
           /\ nrecv' = [nrecv EXCEPT ![s] = @ + n]
           /\ SetInterest(s, {}, {"W"})
           /\ Jump(Writing(Peer(s)),
                   buf \o SubSeq(Payload[s], nrecv[s] + 1, nrecv[s] + n))
           /\ UNCHANGED canRead
        \/ /\ n = 0
           /\ ShutRd(s)
           /\ SetInterest(s, {}, {"W"})
           /\ Jump(IF DisconnectFails(s) THEN "ERROR" ELSE Writing(Peer(s)), buf)
           /\ UNCHANGED nrecv
        \/ /\ n < 0
           /\ Jump("ERROR", buf)
           /\ UNCHANGED <<interest, nrecv, canRead>>
    /\ UNCHANGED <<canWrite, nsent, eof, reset, room, dlvd>>

(* ClientWriteRun / RemoteWriteRun with bytes left: one send.              *)
SendSomeAsIfAll(s) ==                                     (* a mutant *)
    /\ buf # <<>>
    /\ LET n == SendResult(s, Len(buf)) IN
        \/ /\ n < 0
           /\ Jump(IF RaisesSigpipe(s) THEN "KILLED" ELSE "ERROR", buf)
           /\ UNCHANGED <<room, dlvd>>
        \/ /\ n >= 0
           /\ dlvd' = [dlvd EXCEPT ![s] = @ \o SubSeq(buf, 1, n)]
           /\ room' = [room EXCEPT ![s] = @ - n]
           /\ Jump(Writing(s), <<>>)
    /\ UNCHANGED <<interest, canWrite>>

SendSome(s) ==
    /\ buf # <<>>
    /\ LET n == SendResult(s, Len(buf)) IN
        \/ /\ n < 0
           /\ Jump(IF RaisesSigpipe(s) THEN "KILLED" ELSE "ERROR", buf)
           /\ UNCHANGED <<room, dlvd>>
        \/ /\ n >= 0
           /\ dlvd' = [dlvd EXCEPT ![s] = @ \o SubSeq(buf, 1, n)]
           /\ room' = [room EXCEPT ![s] = @ - n]
           /\ Jump(Writing(s), SubSeq(buf, n + 1, Len(buf)))
    /\ UNCHANGED <<interest, canWrite>>

(* ClientWriteRun / RemoteWriteRun with nothing left: wait on both sides   *)
(* again, or pass the end of the other side's stream on to s.              *)
FinishWriteWrongSide(s) ==                                (* a mutant *)
    /\ buf = <<>>
    /\ \/ /\ canRead[s]
          /\ SetInterest(s, {"R"}, {"R"})
          /\ Jump("CONNECTED", buf)
          /\ UNCHANGED canWrite
       \/ /\ ~canRead[s]
          /\ ShutWr(s)
          /\ SetInterest(s, {}, {"R"})
          /\ Jump(IF DisconnectFails(s) THEN "ERROR" ELSE "CONNECTED", buf)
    /\ UNCHANGED <<room, dlvd>>

FinishWriteDeaf(s) ==                                     (* a mutant *)
    /\ buf = <<>>
    /\ \/ /\ canRead[Peer(s)]
          /\ SetInterest(s, {}, {"R"})
          /\ Jump("CONNECTED", buf)
          /\ UNCHANGED canWrite
       \/ /\ ~canRead[Peer(s)]
          /\ ShutWr(s)
          /\ SetInterest(s, {"R"}, {})
          /\ Jump(IF DisconnectFails(s) THEN "ERROR" ELSE "CONNECTED", buf)
    /\ UNCHANGED <<room, dlvd>>

FinishWrite(s) ==
    /\ buf = <<>>
    /\ \/ /\ canRead[Peer(s)]
          /\ SetInterest(s, {"R"}, {"R"})
          /\ Jump("CONNECTED", buf)
          /\ UNCHANGED canWrite
       \/ /\ ~canRead[Peer(s)]
          /\ ShutWr(s)
          /\ SetInterest(s, {"R"}, {})
          /\ Jump(IF DisconnectFails(s) THEN "ERROR" ELSE "CONNECTED", buf)
    /\ UNCHANGED <<room, dlvd>>

WriteRun(s) ==
    /\ state = Writing(s)
    /\ SendSome(s) \/ FinishWrite(s)
    /\ UNCHANGED <<canRead, nsent, nrecv, eof, reset>>

ClientReadRun  == ReadRun("client")
RemoteReadRun  == ReadRun("remote")
ClientWriteRun == WriteRun("client")
RemoteWriteRun == WriteRun("remote")

(* HandleReadFsm and HandleWriteFsm run the handler of the CURRENT state,  *)
(* whichever descriptor the event came from.                               *)
ReadEvent(s)  == ConnectedRun(s) \/ ClientReadRun \/ RemoteReadRun
WriteEvent(s) == ClientWriteRun \/ RemoteWriteRun

-------------------------------------------------------------------------------
(* The select loop (selector.c).                                           *)

KernelReady(s, op) ==
    IF op = "R" THEN Unread(s) > 0 \/ eof[s] \/ reset[s] \/ ~canRead[s]
                ELSE room[s] > 0 \/ reset[s] \/ ~canWrite[s]

ReadyEvents ==
    {e \in Side \X Op : e[2] \in interest[e[1]] /\ KernelReady(e[1], e[2])}

(* SelectorSelect: pselect returns with every event that is ready now.     *)
Select ==
    /\ Alive
    /\ pend = {}
    /\ ReadyEvents # {}
    /\ pend' = ReadyEvents
    /\ UNCHANGED <<state, interest, lowFd, canRead, canWrite, buf, cap, target, netVars>>

(* pselect ran into SelectTimeout: the connections idle for too long are   *)
(* disposed of.                                                            *)
IdleTimeout ==
    /\ MayTimeout
    /\ Alive
    /\ pend = {}
    /\ ReadyEvents = {}
    /\ state' = "TIMED_OUT"
    /\ UNCHANGED <<interest, pend, lowFd, canRead, canWrite, buf, cap, target, netVars>>

(* handle_iteration visits the descriptors in ascending order, and for     *)
(* each one its read event before its write event.                         *)
Before(e, f) ==
    \/ e[1] # f[1] /\ e[1] = lowFd
    \/ e[1] = f[1] /\ e[2] = "R"
    \/ e = f
Visited(e) == e \in pend /\ \A f \in pend : Before(e, f)

(* An event is delivered only if the interest of its descriptor, as the    *)
(* earlier handlers of this iteration left it, still includes it.          *)
Deliver(e) ==
    /\ Alive
    /\ Visited(e)
    /\ e[2] \in interest[e[1]]
    /\ IF e[2] = "R" THEN ReadEvent(e[1]) ELSE WriteEvent(e[1])
    /\ pend' = pend \ {e}
    /\ UNCHANGED <<lowFd, target>>

Skip(e) ==
    /\ Alive
    /\ Visited(e)
    /\ e[2] \notin interest[e[1]]
    /\ pend' = pend \ {e}
    /\ UNCHANGED <<state, interest, lowFd, canRead, canWrite, buf, cap, target, netVars>>

-------------------------------------------------------------------------------
(* The environment: the two peers and the administrator.                   *)

PeerSends(s) ==
    /\ ~eof[s] /\ ~reset[s]
    /\ nsent[s] < Len(Payload[s])
    /\ nsent' = [nsent EXCEPT ![s] = @ + 1]
    /\ UNCHANGED <<loopVars, lowFd, target, nrecv, eof, reset, room, dlvd>>

PeerCloses(s) ==
    /\ ~eof[s] /\ ~reset[s]
    /\ eof' = [eof EXCEPT ![s] = TRUE]
    /\ UNCHANGED <<loopVars, lowFd, target, nsent, nrecv, reset, room, dlvd>>

PeerReads(s) ==
    /\ room[s] < Room /\ ~reset[s]
    /\ room' = [room EXCEPT ![s] = Room]
    /\ UNCHANGED <<loopVars, lowFd, target, nsent, nrecv, eof, reset, dlvd>>

PeerResets(s) ==
    /\ MayReset
    /\ ~reset[s]
    /\ reset' = [reset EXCEPT ![s] = TRUE]
    /\ UNCHANGED <<loopVars, lowFd, target, nsent, nrecv, eof, room, dlvd>>

(* SetSocks5BufferSize, from the management service: a handler of another  *)
(* descriptor, so it falls between two events of this connection.          *)
SetBufferSizeUnchecked(n) ==                              (* a mutant *)
    /\ Alive
    /\ target' = n
    /\ UNCHANGED <<loopVars, lowFd, netVars>>

SetBufferSize(n) ==
    /\ Alive
    /\ target' = IF n = 0 THEN target ELSE n
    /\ UNCHANGED <<loopVars, lowFd, netVars>>

Environment ==
    \/ \E s \in Side : PeerSends(s) \/ PeerCloses(s) \/ PeerReads(s) \/ PeerResets(s)
    \/ \E n \in BufferSizes : SetBufferSize(n)

Loop == Select \/ \E e \in Side \X Op : Deliver(e) \/ Skip(e)

(* The connection is gone; nothing of it is left to take a step.           *)
Ended == state \in EndStates /\ UNCHANGED vars

Next == Loop \/ IdleTimeout \/ Environment \/ Ended

Spec == Init /\ [][Next]_vars

(* The select loop never stops (RunTcpServer), and both peers go on        *)
(* reading what reaches them.                                              *)
FairSpec ==
    /\ Spec
    /\ WF_vars(Loop)
    /\ \A s \in Side : WF_vars(PeerReads(s))

-------------------------------------------------------------------------------
TypeOK ==
    /\ state \in AliveStates \cup EndStates
    /\ interest \in [Side -> SUBSET Op]
    /\ pend \in SUBSET (Side \X Op)
    /\ lowFd \in Side
    /\ canRead \in [Side -> BOOLEAN]
    /\ canWrite \in [Side -> BOOLEAN]
    /\ buf \in Seq(Byte)
    /\ cap \in Nat \ {0}
    /\ target \in Nat \ {0}
    /\ nsent \in [Side -> Nat]
    /\ nrecv \in [Side -> Nat]
    /\ eof \in [Side -> BOOLEAN]
    /\ reset \in [Side -> BOOLEAN]
    /\ room \in [Side -> 0 .. Room]
    /\ dlvd \in [Side -> Seq(Byte)]

(* The bytes of the stream from s that the proxy holds: the shared buffer  *)
(* belongs to the stream being written.                                    *)
Held(s) == IF state = Writing(Peer(s)) THEN buf ELSE <<>>

(* No byte is lost, duplicated, reordered or sent to the wrong side: while *)
(* the connection lives, what was handed to one peer followed by what the  *)
(* shared buffer holds is exactly what was read from the other one         *)
(* (buffer reset and resize hooks against the read/write alternation).     *)
StreamIntegrity ==
    Alive => \A s \in Side :
        dlvd[Peer(s)] \o Held(s) = SubSeq(Payload[s], 1, nrecv[s])

(* A peer is told "end of stream" only after the other one really ended    *)
(* and everything it ever sent was handed over: a recv of 0 is never a     *)
(* full buffer, and the shutdown waits for the buffer to drain.            *)
HalfCloseAfterData ==
    \A s \in Side : ~canWrite[Peer(s)] =>
        eof[s] /\ dlvd[Peer(s)] = SubSeq(Payload[s], 1, nsent[s])

(* The FSM is never handed an event it has no handler for (abort() in      *)
(* fsm.c), and a read or write state is only ever woken by the descriptor  *)
(* it is going to use, whatever was reported in the same iteration.        *)
EventsHaveHandlers ==
    Alive => \A s \in Side :
        /\ interest[s] \subseteq HandledOps(state)
        /\ state \in {Reading(s), Writing(s)} => interest[Peer(s)] = {}

(* The connection is torn down as an error only when a peer reset it: no   *)
(* interleaving of events makes the proxy read or write a socket that is   *)
(* not ready, or shut one down twice.                                      *)
ErrorOnlyOnReset ==
    state \in {"ERROR", "KILLED"} => \E s \in Side : reset[s]

(* The failure of one relayed connection stays with that connection: it    *)
(* never ends the server process that serves all the others.               *)
ServerSurvives == state # "KILLED"

-------------------------------------------------------------------------------
(* The parts of the inductive invariant of RelayProofs.                    *)

(* The counters stay in step with what the peers send.                     *)
CountsInOrder ==
    \A s \in Side : nrecv[s] <= nsent[s] /\ nsent[s] <= Len(Payload[s])

(* What a peer was handed is a prefix of what was read for it.             *)
DeliveredPrefix ==
    \A s \in Side :
        /\ Len(dlvd[Peer(s)]) <= nrecv[s]
        /\ dlvd[Peer(s)] = SubSeq(Payload[s], 1, Len(dlvd[Peer(s)]))

(* The shared buffer is exactly the gap between what was read and what was *)
(* handed over, for the one stream being written; there is no other gap.   *)
BufferIsTheGap ==
    Alive => \A s \in Side :
        IF state = Writing(Peer(s))
        THEN buf = SubSeq(Payload[s], Len(dlvd[Peer(s)]) + 1, nrecv[s])
        ELSE Len(dlvd[Peer(s)]) = nrecv[s]

BufferIdle ==
    Alive /\ (\A s \in Side : state # Writing(s)) => buf = <<>>

(* The local shutdown flags follow the streams.                            *)
FlagsFollowStreams ==
    \A s \in Side :
        /\ ~canRead[s] => eof[s] /\ nrecv[s] = nsent[s]
        /\ ~canWrite[Peer(s)] => ~canRead[s] /\ Len(dlvd[Peer(s)]) = nsent[s]
        /\ state = Reading(s) => canRead[s]
        /\ state = Writing(s) => canWrite[s]

(* Every event still to be delivered is still ready, and a write event is  *)
(* alone in its iteration.                                                 *)
PendingIsReady ==
    Alive => \A e \in pend :
        /\ KernelReady(e[1], e[2])
        /\ e[2] = "W" => state = Writing(e[1]) /\ pend = {e}

(* DONE is reached only with both streams closed both ways.                *)
DoneIsShut ==
    state = "DONE" => \A s \in Side : ~canWrite[s]

RelayInv ==
    /\ TypeOK
    /\ CountsInOrder
    /\ DeliveredPrefix
    /\ BufferIsTheGap
    /\ BufferIdle
    /\ FlagsFollowStreams
    /\ EventsHaveHandlers
    /\ PendingIsReady
    /\ ErrorOnlyOnReset
    /\ DoneIsShut

-------------------------------------------------------------------------------
(* Every byte a peer sent is eventually handed to the other one, unless    *)
(* the connection ends first.                                              *)
EveryByteDelivered ==
    \A s \in Side : \A n \in 1 .. Len(Payload[s]) :
        nsent[s] >= n ~> Len(dlvd[Peer(s)]) >= n \/ ~Alive

(* The end of one stream is eventually passed on, while the other stream   *)
(* may go on.                                                              *)
HalfCloseForwarded ==
    \A s \in Side : eof[s] ~> ~canWrite[Peer(s)] \/ ~Alive

-------------------------------------------------------------------------------
(* The relay implements the two independent streams of DuplexPipe.         *)
Pipe == INSTANCE DuplexPipe WITH
    finOut <- [s \in Side |-> ~canWrite[s]],
    status <- IF Alive THEN "open"
              ELSE IF state = "DONE" THEN "complete" ELSE "failed"

ImplementsPipe == Pipe!Spec
===============================================================================
