----------------------------- MODULE Lifecycle -----------------------------
(* The life of all SOCKS connections of the server together: the selector  *)
(* (selector.c) that hands ready descriptors, timeouts and answers of the  *)
(* resolver to the handlers; the accept handler (socks5_server.c); the     *)
(* pool of connections (object_pool.c, socks5_connection.c); the number of *)
(* them in the metrics (socks5_metrics.c); the scan for idle connections   *)
(* (socks5_timeout.c); and the end of the server (main.c).                 *)
(*                                                                         *)
(* What a connection says is left out: its handlers are the choices that   *)
(* Handshake, Establish and Relay have, seen from the outside, i.e. keep   *)
(* an interest, ask the resolver, open a remote, or be disposed of.        *)
(*                                                                         *)
(* What makes it hard: numbers of descriptors and objects of the pool are  *)
(* used again within one iteration, answers and timeouts come whenever     *)
(* they like, and a connect that fails at once leaves its socket behind,   *)
(* over IPv4 with the selector, which calls the handlers of the connection *)
(* that lost it, and of whoever gets its object next, for ever.            *)
EXTENDS Integers, Sequences, FiniteSets, FiniteSetsExt, Functions

CONSTANTS
    MaxFd,          (* the process can hold the descriptors 0..MaxFd       *)
    FdSetSize,      (* FD_SETSIZE: the selector takes those below          *)
    PoolSize,       (* objects the pool is created with                    *)
    MaxPool,        (* bound: no more clients come when all are in use     *)
    MaxThreads,     (* bound: no thread is to be had beyond so many        *)
    Timeouts        (* the idle timeouts that are configured, in seconds   *)

ASSUME LifecycleAssumption ==
    /\ MaxFd \in Nat \ {0} /\ FdSetSize \in 1..MaxFd
    /\ PoolSize \in Nat \ {0} /\ MaxPool \in Nat /\ MaxPool >= PoolSize
    /\ MaxThreads \in Nat
    /\ Timeouts \in SUBSET Nat /\ IsFiniteSet(Timeouts) /\ Timeouts # {}

MaxTimeout == Max(Timeouts)
Fd == 0..MaxFd
NoFd == -1
Listener == 0       (* main closes 0, so the first socket gets that number *)
Op == {"r", "w"}

(* Seconds since LastConnectionOn, no more of them than a timeout needs;   *)
(* Never when it is still 0, which is 1970 to CheckForTimeout.             *)
Never == MaxTimeout + 1
Age == 0..Never
Older(a) == IF a < MaxTimeout THEN a + 1 ELSE a

(* A Socks5Connection of the pool.  "talk": a handshake state or the       *)
(* writing of a refusal; "dns": DNS_READ; "connect": ESTABLISH_CONNECTION; *)
(* "up": from the reply on, with a remote.  takes: the events its state in *)
(* socks5ConnectionActions has a handler for.  named: RemoteAddressString  *)
(* is there.                                                               *)
Connection == [inUse : BOOLEAN, client : Fd \cup {NoFd}, remote : Fd \cup {NoFd},
               phase : {"talk", "dns", "connect", "up"}, takes : SUBSET Op,
               named : BOOLEAN, age : Age]
Zeroed == [inUse |-> FALSE, client |-> NoFd, remote |-> NoFd, phase |-> "talk",
           takes |-> {}, named |-> FALSE, age |-> Never]

(* An Item of the selector; data is the object of the pool it was given,   *)
(* in use or not, 0 for the listener's null.                               *)
Item == [used : BOOLEAN, data : 0..MaxPool, ops : SUBSET Op]
FreeItem == [used |-> FALSE, data |-> 0, ops |-> {}]

(* A thread of ResolveDNS, and then its BlockingJob: the connection it     *)
(* writes to, and the descriptor it wakes.                                 *)
Job == [thread : 1..MaxThreads, conn : 1..MaxPool, fd : Fd]

VARIABLES
    pc,         (* what the selector does, or how the server ended         *)
    open,       (* the descriptors that are open                           *)
    item,       (* Fds of the selector                                     *)
    pool,       (* the objects of socks5Pool, in order                     *)
    current,    (* metrics.CurrentConnections                              *)
    lost,       (* history: the sockets left behind by connects that failed*)
    timeout,    (* socksMaxTimeout                                         *)
    turn,       (* handle_iteration: descriptor i, which half, and n       *)
    slave,      (* SlaveRead and SlaveWrite, of descriptors still to come  *)
    newborn,    (* history: those opened since pselect returned            *)
    threads,    (* resolver threads in getaddrinfo                         *)
    answers,    (* ResolutionJobs, the last answer first                   *)
    silent,     (* the peers of all connections have gone quiet            *)
    cut         (* history: a connection was cut while it was resolving    *)

vars == <<pc, open, item, pool, current, lost, timeout, turn, slave, newborn, threads,
          answers, silent, cut>>
table == <<open, item, pool, current, lost>>
loop == <<turn, slave, newborn>>

NoTurn == [i |-> 0, half |-> "r", n |-> 0]
InUse == {c \in DOMAIN pool : pool[c].inUse}
Descriptors(c) == {pool[c].client, pool[c].remote} \ {NoFd}
Watched(o) == {f \in Fd : item[f].used /\ o \in item[f].ops}
Ended == {"stopped", "crashed", "aborted"}

(* A lost socket is dead, and select reports it for whatever is awaited of *)
(* it.  The server is haunted by the ones the selector still has.          *)
Restless(o) == lost \cap Watched(o)
AllRest == \A o \in Op : Restless(o) = {}
Haunted == \E f \in lost : item[f].used

-------------------------------------------------------------------------------
(* The tables: the part of the state that a handler changes, as a record.  *)
Tables == [open |-> open, item |-> item, pool |-> pool, current |-> current, lost |-> lost]
Become(t) == /\ open' = t.open /\ item' = t.item
             /\ pool' = t.pool /\ current' = t.current /\ lost' = t.lost
             /\ newborn' = newborn \cup (t.open \ open)

(* The lowest number that is free, as the system gives them; NoFd at the   *)
(* limit of the process.                                                   *)
Lowest(free) == IF free = {} THEN NoFd ELSE Min(free)

(* SelectorSetInterest: an item not in use is left alone.                  *)
Interest(t, f, ops) == IF f \in Fd /\ t.item[f].used
                       THEN [t EXCEPT !.item[f].ops = ops] ELSE t

(* fsm_jump, to a state of that phase that has handlers for these events.  *)
InState(t, c, phase, takes) == [t EXCEPT !.pool[c].phase = phase, !.pool[c].takes = takes]

(* DisposeTcpConnection: unregister, then close.                           *)
Close(t, f) == IF f \notin t.open THEN t
               ELSE [t EXCEPT !.open = @ \ {f}, !.item[f] = FreeItem]

(* DisposeSocks5Connection and DestroyObject, for all the connections C.   *)
DisposeClients(t, C) ==                                     (* a mutant *)
    LET fds == {t.pool[c].client : c \in C} IN
    [open |-> t.open \ fds,
     item |-> [f \in Fd |-> IF f \in fds THEN FreeItem ELSE t.item[f]],
     pool |-> [c \in DOMAIN t.pool |-> IF c \in C THEN Zeroed ELSE t.pool[c]],
     current |-> t.current - Cardinality(C),
     lost |-> t.lost]
Dispose(t, C) ==
    LET fds == UNION {{t.pool[c].client, t.pool[c].remote} : c \in C} IN
    [open |-> t.open \ fds,
     item |-> [f \in Fd |-> IF f \in fds THEN FreeItem ELSE t.item[f]],
     pool |-> [c \in DOMAIN t.pool |-> IF c \in C THEN Zeroed ELSE t.pool[c]],
     current |-> t.current - Cardinality(C),
     lost |-> t.lost]

(* EstablishConnectionInit for connection c, led here by descriptor key:   *)
(* the remote of an earlier attempt goes, and a new one is opened.         *)
Leaves(t, c) ==
    LET left == Close(t, t.pool[c].remote)
    IN InState([left EXCEPT !.pool[c].remote = NoFd], c, "connect", Op)

(* Registered with the selector for c, in ConnectToIPv4TcpServer before it *)
(* is known whether connect succeeds.                                      *)
Registered(t, c, f) ==
    [t EXCEPT !.open = @ \cup {f}, !.item[f] = [used |-> TRUE, data |-> c, ops |-> Op]]

(* The connect of socket f is in progress; it failed at once and the socket*)
(* is left behind, with the selector (IPv4) or without (IPv6); there is no *)
(* socket to be had, or no room for it.  In the last three the interest of *)
(* key is set, for there is no remote to wait for.                         *)
Establish(t, c, key) ==
    LET left == Leaves(t, c)
        f == Lowest(Fd \ left.open)
        room == f # NoFd /\ f < FdSetSize
    IN (IF room THEN {[Registered(left, c, f) EXCEPT !.pool[c].remote = f],
                      Interest([Registered(left, c, f) EXCEPT !.lost = @ \cup {f}], key, Op)}
                ELSE {Interest(left, key, Op)})
       \cup (IF f # NoFd
             THEN {Interest([left EXCEPT !.open = @ \cup {f}, !.lost = @ \cup {f}], key, Op)}
             ELSE {})

(* Socks5PassiveAccept: the first empty object, as a lost socket may have  *)
(* left its LastConnectionOn, or one more; counted; and taken back when the*)
(* selector has no room for the descriptor.                                *)
Object == Lowest({c \in DOMAIN pool : ~pool[c].inUse})
Accepted(f) ==
    LET taken(o) == [o EXCEPT !.inUse = TRUE, !.client = f, !.takes = {"r"}]
    IN [open |-> open \cup {f},
        item |-> item,
        pool |-> IF Object = NoFd THEN Append(pool, taken(Zeroed))
                 ELSE [pool EXCEPT ![Object] = taken(@)],
        current |-> current + 1,
        lost |-> lost]
RefuseUncounted(t, c) == [Dispose(t, {c}) EXCEPT !.current = t.current]  (* a mutant *)
Refuse(t, c) == Dispose(t, {c})
Accept(f) ==
    LET t == Accepted(f)
        c == CHOOSE d \in DOMAIN t.pool : t.pool[d].client = f
    IN IF f < FdSetSize
       THEN [t EXCEPT !.item[f] = [used |-> TRUE, data |-> c, ops |-> {"r"}]]
       ELSE Refuse(t, c)

-------------------------------------------------------------------------------
(* The handlers of a connection c, for an event on its descriptor f: what  *)
(* each may make of the tables t.                                          *)

(* HELLO, AUTH and REQUEST states: go on, to a state that reads or to one  *)
(* that writes; once a remote was named, only a refusal is left to be      *)
(* written.  It is the descriptor of the event whose interest is set.      *)
Goes(t, c, f) == IF t.pool[c].named THEN {t}
                 ELSE {InState(Interest(t, f, {o}), c, "talk", {o}) : o \in Op}

(* RequestReadRun: the address of the request, or its name, is kept.       *)
Named(t, c) == [t EXCEPT !.pool[c].named = TRUE]
Connects(t, c, f) == Establish(Interest(Named(t, c), f, {}), c, f)

(* EstablishConnectionRun: the next address, still in progress, or a reply *)
(* is due: of success, or of failure, with the remote of the last attempt. *)
Answered(t, c) ==
    LET reply == Interest(t, t.pool[c].client, {"w"})
    IN IF t.pool[c].remote = NoFd THEN InState(reply, c, "talk", {"w"})
       ELSE InState(Interest(reply, t.pool[c].remote, {}), c, "up", {"w"})
Establishes(t, c, f) == Establish(t, c, f) \cup {Answered(t, c)}
                        \cup (IF t.pool[c].remote = NoFd THEN {} ELSE {t})

(* RequestWriteRun and the relay: more of the same, or both are read, one  *)
(* of them, or one is written to; the state has handlers for that alone.   *)
Relays(t, c) ==
    {t} \cup
    {InState(Interest(Interest(t, t.pool[c].client, i[1]), t.pool[c].remote, i[2]),
             c, "up", i[1] \cup i[2]) :
        i \in {<<{"r"}, {"r"}>>, <<{"r"}, {}>>, <<{}, {"r"}>>, <<{"w"}, {}>>, <<{}, {"w"}>>}}

(* Only a request that was read can name a remote, and only once.          *)
Asks(t, c, o) == o = "r" /\ t.pool[c].phase = "talk" /\ ~t.pool[c].named

Outcomes(t, c, f, o) ==
    CASE t.pool[c].phase = "talk" -> Goes(t, c, f) \cup {Dispose(t, {c})}
                            \cup (IF Asks(t, c, o) THEN Connects(t, c, f) ELSE {})
      [] t.pool[c].phase = "connect" -> Establishes(t, c, f)
      [] t.pool[c].phase = "up" -> Relays(t, c) \cup {Dispose(t, {c})}
      [] OTHER -> {}

(* RequestReadRun with a name: a thread is started, and the connection     *)
(* waits for its answer.  When there is no thread to be had pthread_create *)
(* says so with a positive number, and the connection waits all the same.  *)
IdleThreads == (1..MaxThreads) \ {j.thread : j \in threads \cup Range(answers)}
Started(c, f) == [thread |-> Min(IdleThreads), conn |-> c, fd |-> f]
AskAndRefuse(t, c, f) ==                                    (* a mutant *)
    /\ Become(Interest(Named(t, c), f, {"w"})) /\ IdleThreads # {}
    /\ threads' = threads \cup {Started(c, f)}
Ask(t, c, f) ==
    /\ Become(InState(Interest(Named(t, c), f, {}), c, "dns", {}))
    /\ \/ /\ IdleThreads # {}
          /\ threads' = threads \cup {Started(c, f)}
       \/ UNCHANGED threads

(* Socks5ConnectionRead and Socks5ConnectionWrite.  The fsm of an object   *)
(* that is not in use is zero, and the way to its state leads through null;*)
(* fsm.c aborts when the state has no handler for the event.               *)
Handle(t, c, f, o) ==
    \/ /\ ~t.pool[c].inUse
       /\ pc' = "crashed"
       /\ UNCHANGED <<table, newborn, threads>>
    \/ /\ t.pool[c].inUse /\ o \notin t.pool[c].takes
       /\ pc' = "aborted"
       /\ UNCHANGED <<table, newborn, threads>>
    \/ /\ t.pool[c].inUse /\ o \in t.pool[c].takes
       /\ \E u \in Outcomes(t, c, f, o) : Become(u)
       /\ UNCHANGED <<pc, threads>>
    \/ /\ t.pool[c].inUse /\ o \in t.pool[c].takes
       /\ Asks(t, c, o)
       /\ Ask(t, c, f)
       /\ UNCHANGED pc

-------------------------------------------------------------------------------
Init ==
    /\ pc = "select"
    /\ open = {Listener}
    /\ item = [f \in Fd |-> IF f = Listener
                            THEN [used |-> TRUE, data |-> 0, ops |-> {"r"}] ELSE FreeItem]
    /\ pool = [c \in 1..PoolSize |-> Zeroed]
    /\ current = 0
    /\ lost = {}
    /\ timeout \in Timeouts
    /\ turn = NoTurn
    /\ slave = [o \in Op |-> {}]
    /\ newborn = {}
    /\ threads = {} /\ answers = <<>>
    /\ silent = FALSE /\ cut = FALSE

(* A second, or part of one, passes.                                       *)
Elapsed == [c \in DOMAIN pool |-> [pool[c] EXCEPT !.age = Older(@)]]

(* CheckForTimeoutInSocks5Connections, over the objects that are in use.   *)
(* For a connection without a name LogInfo is given the descriptor of its  *)
(* remote, and there is no remote: the read through null ends the server.  *)
ScannedToFirstEmpty(p) ==                                   (* a mutant *)
    {c \in DOMAIN p : \A d \in 1..c : p[d].inUse}
Scanned(p) == {c \in DOMAIN p : p[c].inUse}
Overdue(p) == {c \in Scanned(p) : timeout > 0 /\ p[c].age >= timeout}

(* pselect returns ready descriptors; which of the watched ones are is up  *)
(* to the peers, but for the lost ones, which always are.  The listener is *)
(* ready while the bound of clients lasts.                                 *)
Comers == IF Cardinality(InUse) < MaxPool THEN {Listener} ELSE {}
SelectReadyScanning ==                                      (* a mutant *)
    /\ pc = "select" /\ ~silent
    /\ \E r \in (SUBSET Watched("r")) \ {{}} :
        slave' = [o \in Op |-> IF o = "r" THEN r ELSE {}]
    /\ turn' = [i |-> 0, half |-> "r", n |-> Max({f \in Fd : item[f].used})]
    /\ pc' = "ready"
    /\ Become(Dispose([Tables EXCEPT !.pool = Elapsed], Overdue(Elapsed)))
    /\ UNCHANGED <<timeout, threads, answers, silent, cut>>
Stirring(o) == IF silent THEN {}
               ELSE (Watched(o) \ {Listener}) \cup (IF o = "r" THEN Comers ELSE {})
SelectReady ==
    /\ pc = "select"
    /\ \E r \in SUBSET Stirring("r"), w \in SUBSET Stirring("w") :
        slave' = [o \in Op |-> Restless(o) \cup (IF o = "r" THEN r ELSE w)]
    /\ slave' # [o \in Op |-> {}]
    /\ turn' = [i |-> 0, half |-> "r", n |-> Max({f \in Fd : item[f].used})]
    /\ pc' = "ready"
    /\ UNCHANGED <<table, timeout, newborn, threads, answers, silent, cut>>

(* pselect returns on the signal of a resolver thread: nobody is scanned,  *)
(* and up to a second has passed.                                          *)
SelectInterrupted ==
    /\ pc = "select" /\ answers # <<>> /\ AllRest
    /\ pool' \in {pool, Elapsed}
    /\ pc' = "blocks"
    /\ UNCHANGED <<open, item, current, lost, timeout, loop, threads, answers, silent, cut>>

(* pselect returns after its second without anything ready.                *)
SelectTimeout ==
    /\ pc = "select" /\ AllRest
    /\ LET gone == Overdue(Elapsed) IN
        /\ cut' = (cut \/ \E c \in gone : pool[c].phase = "dns")
        /\ IF \E c \in gone : ~pool[c].named
           THEN pc' = "crashed" /\ UNCHANGED <<table, newborn>>
           ELSE /\ pc' = "blocks"
                /\ Become(Dispose([Tables EXCEPT !.pool = Elapsed], gone))
    /\ UNCHANGED <<timeout, turn, slave, threads, answers, silent>>

-------------------------------------------------------------------------------
(* handle_iteration: the used items from i up to the MaxFd it began with.  *)
Following(n) == Lowest({f \in turn.i..n : item[f].used})

(* NotifySocks5ConnectionAccess for every item visited, ready or not.      *)
RefreshedIfReady(f) ==                                      (* a mutant *)
    IF item[f].data = 0 \/ f \notin slave["r"] \cup slave["w"] THEN Tables
    ELSE [Tables EXCEPT !.pool[item[f].data].age = 0]
Refreshed(f) == IF item[f].data = 0 THEN Tables
                ELSE [Tables EXCEPT !.pool[item[f].data].age = 0]

(* handle_read of the listener.                                            *)
Socks5PassiveAccept ==
    LET f == Lowest(Fd \ open) IN
    IF f = NoFd THEN UNCHANGED <<table, newborn>> ELSE Become(Accept(f))

(* The next item: refreshed, and its handle_read called when it is due.    *)
Visit ==
    /\ pc = "ready" /\ turn.half = "r" /\ Following(turn.n) # NoFd
    /\ LET f == Following(turn.n)
           due == f \in slave["r"] /\ "r" \in item[f].ops
       IN /\ turn' = [turn EXCEPT !.i = f, !.half = "w"]
          /\ slave' = [o \in Op |-> slave[o] \ 0..(f - 1)]
          /\ IF ~due THEN Become(Refreshed(f)) /\ UNCHANGED <<pc, threads>>
             ELSE IF item[f].data = 0
                  THEN Socks5PassiveAccept /\ UNCHANGED <<pc, threads>>
                  ELSE Handle(Refreshed(f), item[f].data, f, "r")
    /\ UNCHANGED <<timeout, answers, silent, cut>>

(* Then its handle_write, if what handle_read left there is due for it.    *)
WriteTurn ==
    /\ pc = "ready" /\ turn.half = "w"
    /\ turn' = [turn EXCEPT !.i = @ + 1, !.half = "r"]
    /\ IF turn.i \in slave["w"] /\ "w" \in item[turn.i].ops
       THEN Handle(Tables, item[turn.i].data, turn.i, "w")
       ELSE UNCHANGED <<pc, table, newborn, threads>>
    /\ UNCHANGED <<timeout, slave, answers, silent, cut>>

IterationOver ==
    /\ pc = "ready" /\ turn.half = "r" /\ Following(turn.n) = NoFd
    /\ pc' = "blocks"
    /\ turn' = NoTurn /\ slave' = [o \in Op |-> {}] /\ newborn' = {}
    /\ UNCHANGED <<table, timeout, threads, answers, silent, cut>>

-------------------------------------------------------------------------------
(* The end of ResolveDNS: SelectorNotifyBlock puts the answer first.  The  *)
(* lock keeps it out while answers are handed over.                        *)
ResolverAnswers ==
    /\ pc \notin Ended \cup {"blocks"}
    /\ \E j \in threads : /\ threads' = threads \ {j}
                          /\ answers' = <<j>> \o answers
    /\ UNCHANGED <<pc, table, timeout, loop, silent, cut>>

(* DnsRead: the name could not be resolved, or its first address is tried. *)
DnsRead(c, f) ==
    {InState(Interest(Tables, pool[c].client, {"w"}), c, "talk", {"w"})}
    \cup Establish(Tables, c, f)

(* handle_block_notifications: the answer goes to whoever holds the        *)
(* descriptor now; fsm.c aborts when that one is not waiting for it, and   *)
(* comes upon null when it is an object that is not in use.                *)
HandleBlock ==
    /\ pc = "blocks" /\ answers # <<>>
    /\ answers' = Tail(answers)
    /\ LET f == Head(answers).fd
           c == item[f].data
       IN IF ~item[f].used THEN UNCHANGED <<pc, table, newborn>>
          ELSE IF ~pool[c].inUse
               THEN pc' = "crashed" /\ UNCHANGED <<table, newborn>>
               ELSE IF pool[c].phase # "dns"
               THEN pc' = "aborted" /\ UNCHANGED <<table, newborn>>
               ELSE /\ \E t \in DnsRead(c, f) : Become(t)
                    /\ UNCHANGED pc
    /\ UNCHANGED <<timeout, turn, slave, threads, silent, cut>>

BlocksOver ==
    /\ pc = "blocks" /\ answers = <<>>
    /\ pc' = "select"
    /\ newborn' = {}
    /\ UNCHANGED <<table, timeout, turn, slave, threads, answers, silent, cut>>

(* SetSocks5ConnectionTimeout, on behalf of an administrator.              *)
SetTimeout ==
    /\ pc = "select" /\ ~silent
    /\ timeout' \in Timeouts \ {timeout}
    /\ UNCHANGED <<pc, table, loop, threads, answers, silent, cut>>

(* sigterm_handler has cleared isRunning by the time RunTcpServer looks at *)
(* it.  DisposeSocks5Server: the listener is closed, and the pool cleaned. *)
Shutdown ==
    /\ pc = "select"
    /\ Become(Dispose([Tables EXCEPT !.open = @ \ {Listener},
                                     !.item[Listener] = FreeItem], InUse))
    /\ pc' = "stopped"
    /\ UNCHANGED <<timeout, turn, slave, threads, answers, silent, cut>>

(* From some time on nothing comes from any peer.                          *)
FallSilent ==
    /\ pc = "select" /\ ~silent
    /\ silent' = TRUE
    /\ UNCHANGED <<pc, table, timeout, loop, threads, answers, cut>>

Terminated == pc \in Ended /\ UNCHANGED vars

SelectorStep == \/ SelectReady \/ SelectInterrupted \/ SelectTimeout
                \/ Visit \/ WriteTurn \/ IterationOver
                \/ HandleBlock \/ BlocksOver
Next == \/ SelectorStep \/ ResolverAnswers \/ SetTimeout \/ Shutdown
        \/ FallSilent \/ Terminated

(* The thread of the selector runs on: it waits, and looks at the answers, *)
(* again and again until the server ends.  (Weak fairness of SelectorStep  *)
(* says the same: an iteration is over after so many items, the answers are*)
(* handed over after so many, and nothing of it waits.)  getaddrinfo may   *)
(* take for ever, the peers and the administrators need not do anything.   *)
SelectorRuns ==
    \A stage \in {"select", "blocks"} : []<>(pc = stage \/ pc \in Ended)

Spec == Init /\ [][Next]_vars /\ SelectorRuns

-------------------------------------------------------------------------------
TypeOK ==
    /\ pc \in {"select", "ready", "blocks"} \cup Ended
    /\ open \subseteq Fd
    /\ item \in [Fd -> Item]
    /\ pool \in Seq(Connection) /\ Len(pool) \in PoolSize..MaxPool
    /\ current \in 0..MaxPool
    /\ lost \subseteq Fd
    /\ timeout \in Timeouts
    /\ turn \in [i : 0..(MaxFd + 1), half : Op, n : Fd]
    /\ slave \in [Op -> SUBSET Fd]
    /\ newborn \subseteq Fd
    /\ threads \subseteq Job
    /\ answers \in Seq(Job)
    /\ silent \in BOOLEAN /\ cut \in BOOLEAN

(* Every open descriptor has one owner: the listener, a connection in use, *)
(* or nobody if a connect of it failed at once, and only then.  What the   *)
(* selector watches is open, and but for those that nobody owns everything *)
(* open is watched; it hands each event to the connection the descriptor   *)
(* belongs to; and none that is owned outlives the server.                 *)
DescriptorsHaveOwners ==
    /\ open = (UNION {Descriptors(c) : c \in InUse}) \cup lost
               \cup (IF pc = "stopped" THEN {} ELSE {Listener})
    /\ \A c \in InUse : Descriptors(c) \cap (lost \cup {Listener}) = {}
    /\ \A c, d \in InUse : c # d => Descriptors(c) \cap Descriptors(d) = {}
    /\ \A c \in InUse : pool[c].client \in Fd /\ pool[c].client # pool[c].remote
    /\ \A f \in Fd : /\ item[f].used => f \in open
                     /\ f \in open \ lost => item[f].used
    /\ \A c \in InUse : \A f \in Descriptors(c) : item[f].data = c

(* CurrentConnections, which an administrator is shown, is the number of   *)
(* connections there are, also after connections that could not be         *)
(* registered, were cut, or had to go with the server.                     *)
MetricsExact == current = Cardinality(InUse)

(* There is one idle clock for the whole server: whenever the selector is  *)
(* about to wait, all connections that any iteration has visited have been *)
(* idle for the same time, so that the scan cuts all of them or none.      *)
OneIdleClock ==
    pc = "select" =>
        \A c, d \in InUse : pool[c].age # Never /\ pool[d].age # Never
                                => pool[c].age = pool[d].age

(* A client accepted in an iteration is not served on the readiness of an  *)
(* earlier owner of its number: the listener is visited before anybody can *)
(* be disposed of.  (Remotes are: see Establish.)                          *)
NewClientsAreNotReady ==
    pc = "ready" =>
        \A c \in InUse : pool[c].client \in newborn
                            => pool[c].client \notin slave["r"] \cup slave["w"]

(* The answer of a resolver finds the connection that asked: no client can *)
(* leave, be replaced or go on before its answer is in.  Only once the     *)
(* idle timeout has cut a connection that was resolving may answers, the   *)
(* late one and then others, come to connections that did not ask; and only*)
(* then, or when the selector has a lost socket, may an event meet a state *)
(* of fsm.c without a handler for it (abort).  The descriptor an answer    *)
(* wakes is the client's, or a lost one that read its request.             *)
AnswersFindAsker ==
    pc # "stopped" /\ ~cut =>
        /\ pc = "aborted" => Haunted
        /\ \A j \in threads \cup Range(answers) :
               /\ pool[j.conn].inUse
               /\ pool[j.conn].phase = "dns"
               /\ item[j.fd].used /\ item[j.fd].data = j.conn
               /\ j.fd \in {pool[j.conn].client} \cup lost

(* When all the peers have gone quiet and there is an idle timeout, every  *)
(* connection is reclaimed in the end, also those that wait for a resolver *)
(* that never answers or was never started; unless the selector waits for  *)
(* a lost socket, which keeps it from ever looking at the idle.            *)
SilentServerIsEmptied ==
    (silent /\ timeout > 0) ~> (InUse = {} \/ pc \in Ended \/ ~AllRest)
=============================================================================
