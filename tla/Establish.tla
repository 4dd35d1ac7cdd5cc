-------------------------------- MODULE Establish -------------------------------
(***************************************************************************)
(* From the client's request to the reply: the states REQUEST_READ,        *)
(* DNS_READ, ESTABLISH_CONNECTION and REQUEST_WRITE of socks5_connection.c *)
(* for one connection, with the thread that resolves its name, the table   *)
(* of descriptors of selector.c and the memory of its addresses.           *)
(*                                                                         *)
(* What makes it hard: the addresses of a name are tried one after the     *)
(* other, each on a new socket that may get the descriptor NUMBER of the   *)
(* one just closed, in the middle of an iteration that still holds ready   *)
(* events of that number; a connect may fail at once or later; the         *)
(* resolver answers on a thread of its own, perhaps after the connection   *)
(* was disposed of; and the addresses are freed at different places for a  *)
(* literal address and for a resolved one.                                 *)
(*                                                                         *)
(* Two things the code does go wrong for good: a connect that fails at     *)
(* once leaves its socket behind, over IPv4 registered, and the idle       *)
(* timeout disposes of a connection wherever it is.  lost and cut remember *)
(* them, so that the properties can say what they cost, and no more.       *)
(*                                                                         *)
(* REQUEST_READ starts with the client's socket alone; a run that arrives  *)
(* at CONNECTED goes on in Relay.                                          *)
(***************************************************************************)
EXTENDS Integers, Sequences

CONSTANTS
    Fd,             (* the descriptor numbers the kernel may give out      *)
    Requests,       (* the requests a client may make                      *)
    MayFailAtOnce,  (* may socket or connect fail at once?                 *)
    MayLackThreads, (* may pthread_create fail?                            *)
    MayTimeout      (* is the idle timeout on?                             *)

Family == {"v4", "v6"}
Kind == {"other",       (* BIND, UDP ASSOCIATE, ...: not supported          *)
         "literal",     (* an IPv4 or IPv6 address                          *)
         "fqdn"}        (* a name, with the addresses it resolves to        *)

ASSUME EstablishAssumption ==
    /\ Fd \subseteq Nat
    /\ Requests \subseteq [kind : Kind, addrs : Seq(Family)]
    /\ \A r \in Requests : r.kind = "literal" => Len(r.addrs) = 1
    /\ \A r \in Requests : r.kind = "other" => r.addrs = <<>>
    /\ MayFailAtOnce \in BOOLEAN
    /\ MayLackThreads \in BOOLEAN
    /\ MayTimeout \in BOOLEAN

Op == {"R", "W"}
NoFd == -1              (* null == RemoteTcpConnection *)

AliveStates == {"REQUEST_READ", "DNS_READ", "ESTABLISH_CONNECTION", "REQUEST_WRITE"}

(* CONNECTED goes on in Relay; DONE, ERROR and TIMED_OUT have disposed of  *)
(* the connection; ABORTED (fsm.c) and CRASHED are the end of the server.  *)
EndStates == {"CONNECTED", "DONE", "ERROR", "TIMED_OUT", "ABORTED", "CRASHED"}

(* What is behind a descriptor: "talking" has something to read, "failed"  *)
(* holds an error that SO_ERROR has not handed out yet, "dead" has handed  *)
(* it out or never got as far as connecting.                               *)
Socket == {"none", "connecting", "connected", "talking", "failed", "dead"}

Item == [socket : Socket, used : BOOLEAN, interest : SUBSET Op]
FreeItem == [socket |-> "none", used |-> FALSE, interest |-> {}]
NewItem(socket, ops) == [socket |-> socket, used |-> TRUE, interest |-> ops]

VARIABLES
    state,      (* Fsm.CurrentState                                         *)
    request,    (* what RequestParser will have read                        *)
    client,     (* ClientTcpConnection->FileDescriptor                      *)
    remote,     (* RemoteTcpConnection->FileDescriptor, or NoFd             *)
    item,       (* item[f]: the selector's Fds[f] and the socket behind it  *)
    pend,       (* ready events of this iteration not yet looked at         *)
    command,    (* Data.Request.Command: NOT_DECIDED, SUCCEEDED or FAILED   *)
    current,    (* position of CurrentRemoteAddress in the list, from 1     *)
    tried,      (* the positions a connect was attempted for                *)
    block,      (* the memory of the address, or of the list of addresses   *)
    replied,    (* the reply has left WriteBuffer                           *)
    resolver,   (* the thread: "none", "resolving", "answered" or "gone"    *)
    lost,       (* history: the sockets of connects that failed at once     *)
    cut         (* history: the state the idle timeout struck in, or "not"  *)

vars == <<state, request, client, remote, item, pend, command, current, tried,
          block, replied, resolver, lost, cut>>

Alive == state \in AliveStates
Resolved == Len(request.addrs)

-------------------------------------------------------------------------------
(* Operations on the table of descriptors.                                 *)

(* SelectorSetInterest: without effect on an item that is not in use.      *)
WithInterest(t, f, ops) ==
    IF f \in Fd /\ t[f].used THEN [t EXCEPT ![f].interest = ops] ELSE t

(* DisposeTcpConnection: the item is unregistered and the socket closed.   *)
Closed(t, f) == IF f \in Fd THEN [t EXCEPT ![f] = FreeItem] ELSE t

(* The two of them that DisposeSocks5Connection makes.                     *)
DisposedHalf(t) == Closed(t, client)                      (* a mutant *)
Disposed(t) == Closed(Closed(t, client), remote)

(* ConnectToIPv4TcpServer and ConnectToIPv6TcpServer: the table and the    *)
(* remote after them.  IPv4 registers its socket before it connects, IPv6  *)
(* after; when connect fails at once neither closes what it opened.        *)
Connecting(t) ==
    {[item |-> [t EXCEPT ![f] = NewItem(s, Op)], remote |-> f, lost |-> {}] :
        f \in {g \in Fd : t[g].socket = "none"}, s \in {"connecting", "connected"}}
FailedAtOnce(t, family) ==
    {[item |-> [t EXCEPT ![f] = IF family = "v4" THEN NewItem("dead", Op)
                                ELSE [FreeItem EXCEPT !.socket = "dead"]],
      remote |-> NoFd, lost |-> {f}] : f \in {g \in Fd : t[g].socket = "none"}}
Unopened(t) == {[item |-> t, remote |-> NoFd, lost |-> {}]}

Connect(t, family) ==
    Connecting(t) \cup (IF MayFailAtOnce THEN FailedAtOnce(t, family) \cup Unopened(t)
                                         ELSE {})

(* Such a socket is ready for ever, and nobody owns it: if it is           *)
(* registered, its events go to this connection, whatever state it is in.  *)
Haunted == \E f \in lost : item[f].used

-------------------------------------------------------------------------------
(* The memory of the addresses: "held" from calloc or getaddrinfo until    *)
(* free or freeaddrinfo, and "refreed" by the next one: the pointer is     *)
(* kept afterwards.                                                        *)
Block == {"none", "held", "freed", "refreed"}
Released(b) == IF b = "none" THEN "none" ELSE IF b = "held" THEN "freed" ELSE "refreed"

-------------------------------------------------------------------------------
(* The handlers.                                                           *)

(* EstablishConnectionInit, the arrival and the reentry hook: a socket for *)
(* address a.  key is the descriptor of the event that led here, and the   *)
(* one whose interest is set when there is no connection to wait for.      *)
EstablishInit(t, key, a, b) ==
    /\ \E c \in Connect(Closed(t, remote), request.addrs[a]) :
        /\ remote' = c.remote
        /\ lost' = lost \cup c.lost
        /\ item' = IF c.remote = NoFd THEN WithInterest(c.item, key, Op) ELSE c.item
        /\ command' = IF c.remote = NoFd THEN "FAILED" ELSE "NOT_DECIDED"
    /\ state' = "ESTABLISH_CONNECTION"
    /\ current' = a
    /\ tried' = tried \cup {a}
    /\ block' = IF request.kind = "literal" THEN Released(b) ELSE b
    /\ UNCHANGED replied

(* To REQUEST_WRITE, with only the client's write event awaited.           *)
ReplyWithoutSilence(t, reply) ==                          (* a mutant *)
    /\ item' = WithInterest(t, client, {"W"})
    /\ state' = "REQUEST_WRITE"
    /\ command' = reply
    /\ UNCHANGED <<remote, current, tried, replied, lost>>
Reply(t, reply) ==
    /\ item' = WithInterest(WithInterest(t, client, {"W"}), remote, {})
    /\ state' = "REQUEST_WRITE"
    /\ command' = reply
    /\ UNCHANGED <<remote, current, tried, replied, lost>>

(* EstablishConnectionClose, the departure hook.                           *)
EstablishCloseAll == block' = Released(block)             (* a mutant *)
EstablishClose ==
    block' = IF request.kind = "fqdn" THEN Released(block) ELSE block

(* RequestReadRun, for a request cut short, a wrong one, and a whole one.  *)
Incomplete(t) ==
    /\ item' = t
    /\ UNCHANGED <<state, remote, command, current, tried, block, replied, resolver,
                   lost>>

Malformed(t) ==
    /\ item' = Disposed(t)
    /\ state' = "ERROR"
    /\ UNCHANGED <<remote, command, current, tried, block, replied, resolver, lost>>

Unsupported(t) ==
    /\ request.kind = "other"
    /\ Reply(t, "FAILED")
    /\ UNCHANGED <<block, resolver>>

(* The test of pthread_create's result (-1) never sees a failure.          *)
Resolve(t) ==
    /\ request.kind = "fqdn"
    /\ item' = WithInterest(t, client, {})
    /\ state' = "DNS_READ"
    /\ \/ resolver' = "resolving"
       \/ MayLackThreads /\ resolver' = "none"
    /\ UNCHANGED <<remote, command, current, tried, block, replied, lost>>

Literal(t) ==
    /\ request.kind = "literal"
    /\ EstablishInit(WithInterest(t, client, {}), client, 1, "held")
    /\ UNCHANGED resolver

RequestReadRun ==
    /\ state = "REQUEST_READ"
    /\ LET t == [item EXCEPT ![client].socket = "connected"] IN
        Incomplete(t) \/ Malformed(t) \/ Unsupported(t) \/ Resolve(t) \/ Literal(t)

(* DnsRead: the key of a block notification is that of the client.         *)
DnsReadDeaf ==                                            (* a mutant *)
    \/ /\ Resolved = 0
       /\ state' = "REQUEST_WRITE"
       /\ command' = "FAILED"
       /\ UNCHANGED <<item, remote, current, tried, replied, block, lost>>
    \/ /\ Resolved # 0
       /\ EstablishInit(item, client, 1, block)
DnsRead ==
    \/ /\ Resolved = 0
       /\ Reply(item, "FAILED")
       /\ UNCHANGED block
    \/ /\ Resolved # 0
       /\ EstablishInit(item, client, 1, block)

(* EstablishConnectionRun after a failure: the next address, or the reply. *)
(* The link of a literal address is read after the address was freed: it   *)
(* is null as calloc left it unless the memory belongs to somebody else by *)
(* then (the name another client asked for has that size), and following   *)
(* it ends the server.                                                     *)
AdvanceHastily(key, t) ==                                 (* a mutant *)
    /\ current <= Resolved
    /\ Reply(t, "FAILED")
    /\ EstablishClose
Advance(key, t) ==
    \/ /\ current < Resolved
       /\ EstablishInit(t, key, current + 1, block)
    \/ /\ current = Resolved
       /\ Reply(t, "FAILED")
       /\ EstablishClose
    \/ /\ request.kind = "literal"
       /\ state' = "CRASHED"
       /\ UNCHANGED <<remote, item, command, current, tried, block, replied, lost>>

(* EstablishConnectionRun.  IsTcpConnectionReady reads SO_ERROR, which is  *)
(* zero for a socket that is still connecting, and clears it.              *)
EstablishRun(key) ==
    /\ state = "ESTABLISH_CONNECTION"
    /\ \/ command = "FAILED" /\ Advance(key, item)
       \/ /\ command = "NOT_DECIDED"
          /\ item[remote].socket # "failed"
          /\ Reply(item, "SUCCEEDED")
          /\ EstablishClose
       \/ /\ command = "NOT_DECIDED"
          /\ item[remote].socket = "failed"
          /\ Advance(key, [item EXCEPT ![remote].socket = "dead"])
    /\ UNCHANGED resolver

(* Relay starts by waiting for both sides.                                 *)
AwaitClientOnly(t) == WithInterest(t, client, {"R"})      (* a mutant *)
AwaitBoth(t) == WithInterest(WithInterest(t, client, {"R"}), remote, {"R"})

(* RequestWriteRun: one send takes the ten bytes of the reply; the next    *)
(* write event finds the buffer empty.                                     *)
RequestWriteRun ==
    /\ state = "REQUEST_WRITE"
    /\ \/ /\ ~replied
          /\ replied' = TRUE
          /\ UNCHANGED <<state, item>>
       \/ /\ replied
          /\ command = "SUCCEEDED"
          /\ item' = AwaitBoth(item)
          /\ state' = "CONNECTED"
          /\ UNCHANGED replied
       \/ /\ replied
          /\ command # "SUCCEEDED"
          /\ item' = Disposed(item)
          /\ state' = "DONE"
          /\ UNCHANGED replied
    /\ UNCHANGED <<remote, command, current, tried, block, resolver, lost>>

-------------------------------------------------------------------------------
(* The select loop (selector.c, fsm.c).                                    *)

HandledOps(st) ==
    CASE st = "REQUEST_READ"         -> {"R"}
      [] st = "ESTABLISH_CONNECTION" -> {"R", "W"}
      [] st = "REQUEST_WRITE"        -> {"W"}
      [] OTHER                       -> {}

KernelReady(f, op) ==
    item[f].socket \in (IF op = "R" THEN {"talking", "failed", "dead"}
                        ELSE {"connected", "talking", "failed", "dead"})

ReadyEvents == {e \in Fd \X Op : e[2] \in item[e[1]].interest /\ KernelReady(e[1], e[2])}

Select ==
    /\ Alive
    /\ pend = {}
    /\ ReadyEvents # {}
    /\ pend' = ReadyEvents
    /\ UNCHANGED <<state, request, client, remote, item, command, current, tried,
                   block, replied, resolver, lost, cut>>

(* handle_iteration: ascending descriptors, read before write; an event    *)
(* is delivered if the descriptor's PRESENT item is interested in it.      *)
Before(e, f) == e[1] < f[1] \/ (e[1] = f[1] /\ e[2] = "R") \/ e = f
Visited(e) == e \in pend /\ \A f \in pend : Before(e, f)

Handle(key, op) ==
    \/ op = "R" /\ RequestReadRun
    \/ EstablishRun(key)
    \/ op = "W" /\ RequestWriteRun

Abort ==
    /\ state' = "ABORTED"
    /\ UNCHANGED <<remote, item, command, current, tried, block, replied, resolver,
                   lost>>

Deliver(e) ==
    /\ Alive
    /\ Visited(e)
    /\ e[2] \in item[e[1]].interest
    /\ IF e[2] \in HandledOps(state) THEN Handle(e[1], e[2]) ELSE Abort
    /\ pend' = pend \ {e}
    /\ UNCHANGED <<request, client, cut>>

Skip(e) ==
    /\ Alive
    /\ Visited(e)
    /\ e[2] \notin item[e[1]].interest
    /\ pend' = pend \ {e}
    /\ UNCHANGED <<state, request, client, remote, item, command, current, tried,
                   block, replied, resolver, lost, cut>>

(* handle_block_notifications: the job names a descriptor, and goes to     *)
(* whoever is registered under it now, or to nobody.  Every other state,   *)
(* of this connection or of a stranger, has no handler for it.             *)
Notify ==
    /\ Alive \/ state = "TIMED_OUT"
    /\ pend = {}
    /\ resolver = "answered"
    /\ resolver' = "gone"
    /\ \/ /\ item[client].used /\ state = "DNS_READ"
          /\ DnsRead
       \/ /\ item[client].used /\ state # "DNS_READ"
          /\ state' = "ABORTED"
          /\ UNCHANGED <<remote, item, command, current, tried, block, replied, lost>>
       \/ /\ ~item[client].used
          /\ UNCHANGED <<state, remote, item, command, current, tried, block, replied,
                         lost>>
    /\ UNCHANGED <<request, client, pend, cut>>

(* The idle timeout, once pselect has found nothing to do.  Before there   *)
(* is a name for the remote its message reads the descriptor of the remote *)
(* that is not there; in DNS_READ the unset CurrentRemoteAddress may hold  *)
(* the bytes of a long password, and is freed.  A resolver still at work   *)
(* writes its answer to an object of the pool that is free by then.        *)
IdleTimeout ==
    /\ MayTimeout
    /\ Alive
    /\ pend = {}
    /\ ReadyEvents = {}
    /\ \/ /\ state # "REQUEST_READ"
          /\ state' = "TIMED_OUT"
          /\ cut' = state
          /\ item' = Disposed(item)
          /\ block' = Released(block)
       \/ /\ \/ state = "REQUEST_READ"
             \/ state = "DNS_READ" /\ block = "none"
          /\ state' = "CRASHED"
          /\ UNCHANGED <<item, block, cut>>
    /\ UNCHANGED <<request, client, remote, pend, command, current, tried, replied,
                   resolver, lost>>

-------------------------------------------------------------------------------
(* The environment: the peers, the resolver thread, the other clients.     *)

(* ResolveDNS: getaddrinfo, then SelectorNotifyBlock.                      *)
Answer ==
    /\ resolver = "resolving"
    /\ resolver' = "answered"
    /\ block' = IF Resolved > 0 THEN "held" ELSE block
    /\ UNCHANGED <<state, request, client, remote, item, pend, command, current,
                   tried, replied, lost, cut>>

SocketBecomes(f, s) ==
    /\ item' = [item EXCEPT ![f].socket = s]
    /\ UNCHANGED <<state, request, client, remote, pend, command, current, tried,
                   block, replied, resolver, lost, cut>>

(* A connect under way succeeds or fails.                                  *)
Settle(f) ==
    /\ Alive
    /\ item[f].socket = "connecting"
    /\ \E s \in {"connected", "failed"} : SocketBecomes(f, s)

(* The client sends (more of) its request, or early data; or the remote    *)
(* speaks first.                                                           *)
Talk(f) ==
    /\ Alive
    /\ item[f].socket = "connected"
    /\ SocketBecomes(f, "talking")

(* A new client is accepted and given the number of the one disposed of.   *)
Accept ==
    /\ state = "TIMED_OUT"
    /\ item[client].socket = "none"
    /\ item' = [item EXCEPT ![client] = NewItem("connected", {"R"})]
    /\ UNCHANGED <<state, request, client, remote, pend, command, current, tried,
                   block, replied, resolver, lost, cut>>

Loop == Select \/ (\E e \in Fd \X Op : Deliver(e) \/ Skip(e)) \/ Notify

(* Nothing of this connection is left to take a step here.                 *)
Ended == state \in EndStates /\ UNCHANGED vars

Init ==
    /\ state = "REQUEST_READ"
    /\ request \in Requests
    /\ client \in Fd
    /\ remote = NoFd
    /\ item = [f \in Fd |-> IF f = client THEN NewItem("connected", {"R"}) ELSE FreeItem]
    /\ pend = {}
    /\ command = "NOT_DECIDED"
    /\ current = 0
    /\ tried = {}
    /\ block = "none"
    /\ replied = FALSE
    /\ resolver = "none"
    /\ lost = {}
    /\ cut = "not"

Next ==
    \/ Loop
    \/ IdleTimeout
    \/ Answer
    \/ \E f \in Fd : Settle(f) \/ Talk(f)
    \/ Accept
    \/ Ended

Spec == Init /\ [][Next]_vars

(* The select loop never stops; getaddrinfo returns, and TCP gives up on a *)
(* connect in the end.                                                     *)
FairSpec ==
    /\ Spec
    /\ WF_vars(Loop)
    /\ WF_vars(Answer)
    /\ \A f \in Fd : WF_vars(Settle(f))
-------------------------------------------------------------------------------
Command == {"NOT_DECIDED", "SUCCEEDED", "FAILED"}

TypeOK ==
    /\ state \in AliveStates \cup EndStates
    /\ request \in Requests
    /\ client \in Fd
    /\ remote \in Fd \cup {NoFd}
    /\ item \in [Fd -> Item]
    /\ pend \in SUBSET (Fd \X Op)
    /\ command \in Command
    /\ current \in 0 .. Resolved
    /\ tried \in SUBSET (1 .. Resolved)
    /\ block \in Block
    /\ replied \in BOOLEAN
    /\ resolver \in {"none", "resolving", "answered", "gone"}
    /\ lost \in SUBSET Fd
    /\ cut \in AliveStates \cup {"not"}

(* A client is told that its request failed only after every address the   *)
(* name resolved to was tried, whatever mixture of connects that fail at   *)
(* once, connects that fail later and stale events led there               *)
(* (EstablishConnectionRun, EstablishConnectionInit).                      *)
FailureMeansExhausted ==
    state \in {"REQUEST_WRITE", "DONE"} /\ command = "FAILED" => tried = 1 .. Resolved

(* A client is told that its request succeeded only when a connection to   *)
(* the remote exists (IsTcpConnectionReady and the events it is called on).*)
SuccessMeansConnected ==
    state \in {"REQUEST_WRITE", "CONNECTED"} /\ command = "SUCCEEDED" =>
        remote \in Fd /\ item[remote].socket \in {"connected", "talking"}

(* The FSM is never handed an event it has no handler for (the abort() of  *)
(* fsm.c), whatever an iteration still holds when descriptors are closed   *)
(* and their numbers given out again.  Two things do it: the registered    *)
(* socket that ConnectToIPv4TcpServer leaves behind, and a resolver that   *)
(* answers after the idle timeout.                                         *)
EventsHaveHandlers == state = "ABORTED" => Haunted \/ cut = "DNS_READ"

(* The addresses, allocated in one place and freed in three, are freed     *)
(* exactly once: none is held when the reply is written, and none is freed *)
(* twice or never.  DisposeSocks5Connection, called by the idle timeout,   *)
(* does not know what was freed already: it frees again while a literal is *)
(* connected to, and while the reply is written; and nobody frees the      *)
(* answer of a resolver that comes after it.                               *)
FreesAgain ==
    \/ cut = "ESTABLISH_CONNECTION" /\ request.kind = "literal"
    \/ cut = "REQUEST_WRITE" /\ current > 0

AddressesFreedOnce ==
    /\ block = "refreed" => FreesAgain
    /\ block = "held" /\ cut # "not" => cut = "DNS_READ" /\ resolver # "resolving"
    /\ state \in {"REQUEST_WRITE", "CONNECTED", "DONE"} => block # "held"

(* The attempts on one address after the other lose no descriptor but that *)
(* of a connect that failed at once: any other that is open belongs to the *)
(* connection, and none is open when it was disposed of.  A lost one stays *)
(* as it is, and the connection never takes it for its own.                *)
DescriptorsAccounted ==
    /\ lost \cap {client, remote} = {}
    /\ \A f \in Fd \ lost : item[f].socket # "none" =>
          f \in {client, remote} /\ state \notin {"DONE", "ERROR"}
    /\ \A f \in lost : item[f].socket = "dead"

(* Relay takes over in the state its Init assumes: no event left over from *)
(* the iteration, and both sockets, and nothing else, awaited for reading; *)
(* unless a connect that failed at once left a registered socket behind.   *)
RelayStartsClean ==
    state = "CONNECTED" /\ ~Haunted =>
        /\ pend = {}
        /\ remote \in Fd \ {client}
        /\ \A f \in Fd : item[f].interest = IF f \in {client, remote} THEN {"R"} ELSE {}

(* Every well-formed request for a name, or for what is not supported, is *)
(* answered in the end, whatever becomes of the connects, unless one of the*)
(* faults of this code gets in the way: the timeout cut it or ended the    *)
(* server; no thread was started (DNS_READ awaits nobody); there was no    *)
(* socket for an address (ESTABLISH_CONNECTION awaits nobody if the event  *)
(* that led there was of the socket closed); a registered socket was lost. *)
(* The literal address that cannot be connected to is in Advance.          *)
Answered ==
    state \notin {"REQUEST_READ", "ERROR"} /\ request.kind # "literal" ~>
        \/ replied
        \/ cut # "not" \/ state = "CRASHED" \/ Haunted
        \/ state = "DNS_READ" /\ resolver = "none"
        \/ state = "ESTABLISH_CONNECTION" /\ remote = NoFd
-------------------------------------------------------------------------------
(* The parts of the inductive invariant of EstablishProofs.                *)

(* The addresses are tried in the order of the list, none left out.        *)
TriedInOrder == tried = 1 .. current

(* What the parsed request, the resolver and the reply leave in Data.      *)
DataFollowsState ==
    /\ state = "REQUEST_READ" =>
          command = "NOT_DECIDED" /\ remote = NoFd /\ current = 0 /\ resolver = "none"
    /\ state = "DNS_READ" =>
          command = "NOT_DECIDED" /\ remote = NoFd /\ current = 0 /\ request.kind = "fqdn"
    /\ state = "ESTABLISH_CONNECTION" =>
          /\ current > 0
          /\ request.kind # "other"
          /\ command = IF remote = NoFd THEN "FAILED" ELSE "NOT_DECIDED"
    /\ state \in {"REQUEST_WRITE", "CONNECTED", "DONE"} =>
          /\ command # "NOT_DECIDED"
          /\ command = "FAILED" => current = Resolved
    /\ resolver \in {"resolving", "answered"} =>
          /\ state \in {"DNS_READ", "TIMED_OUT", "ABORTED", "CRASHED"}
          /\ cut \in {"not", "DNS_READ"}

(* Who owns the addresses in each state, and after an idle timeout.        *)
BlockFollowsState ==
    /\ state = "REQUEST_READ" => block = "none"
    /\ state = "DNS_READ" =>
          block = IF resolver \in {"answered", "gone"} /\ Resolved > 0
                  THEN "held" ELSE "none"
    /\ state = "ESTABLISH_CONNECTION" =>
          block = IF request.kind = "literal" THEN "freed" ELSE "held"
    /\ state \in {"REQUEST_WRITE", "CONNECTED", "DONE"} =>
          block = IF current > 0 THEN "freed" ELSE "none"
    /\ cut = "not" => state # "TIMED_OUT" /\ block # "refreed"
    /\ cut # "not" =>
          /\ state \in {"TIMED_OUT", "ABORTED"}
          /\ block = "refreed" => FreesAgain
          /\ block = "held" => cut = "DNS_READ" /\ resolver # "resolving"

EstablishInv ==
    /\ TypeOK
    /\ TriedInOrder
    /\ DataFollowsState
    /\ BlockFollowsState
===============================================================================
