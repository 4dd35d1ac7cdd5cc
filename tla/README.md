# A TLA+ development of socks5d

`src/` is a SOCKS5 proxy in C (`socks5d`) with a management service ("Lulu"),
a command-line client for that service, and a stress test. The server is a
single process with one thread (plus one short-lived thread per name
resolution): a `pselect` loop owns every socket, and every connection is a
finite state machine the loop's events drive. What is hard about it is not
parallelism but *order*: several events of one iteration, each handler changing
what the later ones mean; results arriving from resolver threads; peers that
half-close, reset, stall or send in any fragments; descriptors that are closed
and reused while an old event still names them; an administrator changing users,
buffer sizes and timeouts under live connections.

## 1. Inventory

| Component | State | Operations | Talks to |
|---|---|---|---|
| Selector (`lib/selector`) | descriptor table (handler, interest, data, timeout flag), master/slave sets, block-job list | register, unregister, set interest, one select iteration, notify/deliver a block job | every handler, the timeout hooks |
| TCP (`lib/tcp`) | listening sockets, pooled `TcpConnection`s with `CanRead`/`CanWrite` | listen, accept, connect (IPv4 and IPv6), recv, send, shutdown, dispose | selector, kernel |
| FSM (`lib/fsm`) | current state of each connection | jump with departure/arrival/reentry hooks; read, write and block events; `abort()` without a handler | connection handlers |
| SOCKS connection (`lib/socks5`) | FSM, two buffers, TCP connections, user, request data | hello, auth, request, DNS, establish, relay, dispose | parsers, users, metrics, selector |
| Buffers (`lib/utils/buffer.c`, `socks5_buffer.c`) | read/write heads, capacity; the configured size | reserve, advance, compact, reset, resize | connections, Lulu |
| Users (`socks5_users.c`) | linked list of users with `IsLoggedIn` | load, log in, log out, delete, list | auth handlers, disposal, Lulu |
| Idle timeout (`socks5_timeout.c`) | limit, `LastConnectionOn` per connection | touch, scan and dispose, set/get limit | selector hooks, Lulu |
| Metrics (`socks5_metrics.c`) | counters | register a connection, its end and its bytes | connections, Lulu |
| Parsers (`lib/parsers`) | one state and partial fields per parser | reset, feed a byte, consume a chunk | handshake, Lulu, POP3 dissector |
| Object pool (`object_pool.c`) | used and free list | get, destroy, execute on all, clean | connections, TCP |
| Lulu server (`lib/lulu`) | FSM per administrator session, command parsers, administrators | hello, nine commands, goodbye, accept, dispose | users, timeout, buffer size, metrics |
| Lulu client (`src/lulu_client`) | its own FSM and buffers | authenticate, one command, goodbye | Lulu server |
| POP3 dissector (`socks5_password_dissector.c`, `pop3_auth_parser.c`) | parser over the client's bytes | scan a chunk | relay |
| Start and stop (`src/server`) | the run flag | start in order, stop and dispose | all |

Hard behaviours, per component: selector - events of one iteration filtered by
interests the earlier handlers changed, and descriptors reused within the
iteration; TCP - partial sends, resets, shutdown of a dead socket, connects that
fail at once or later; connection - address lists whose memory is owned by
different states, resolver threads that outlive the connection; buffers - heads
against capacity, resizing under data; users - sessions that outlive the list
entry they point to; timeout - one connection's activity keeps all alive,
disposal of a connection that never had a remote; Lulu - commands split over or
packed into chunks; stop - freeing what sessions still point to.

What makes each correct is the "hazards" list of `PROJECT.json` with the
properties that watch them.

## 2. Modules

| Module | Models | Against |
|---|---|---|
| `Relay` | the five relay states of one connection (`socks5_connected.c`, `socks5_client.c`, `socks5_remote.c`), the FSM engine, the select iteration, recv/send/shutdown, resizing, the two peers | `DuplexPipe`: two independent in-order byte streams |
| `ArrayBuffer` | `buffer.c`, every operation | `ByteQueue`: a first-in first-out queue |
| `Socks5Users` | `socks5_users.c`, the two user commands of `lulu_messages.c`, login and disposal of sessions, the order of disposal in `socks5_server.c` | - |
| `Establish` | the states REQUEST_READ, DNS_READ, ESTABLISH_CONNECTION and REQUEST_WRITE of one connection (`socks5_request.c`, `socks5_dns.c`, `socks5_establish_connection.c`), the resolver thread, the descriptor table, the memory of the addresses | the initial state of `Relay` |
| `Handshake` | hello, authentication and the request over a stream that is cut anywhere (`socks5_hello.c`, `socks5_auth.c`, the reading half of `socks5_request.c`, `socks5_messages.c`), with the client | the messages as the client meant them |
| `Lifecycle` | all connections together: the selector's table and iteration, accepting, the pool, the metrics, the idle timeout, late resolvers, the stop | ownership of descriptors, one idle clock |
| `Socks5Parsers`, `LuluParsers`, `Pop3Parser` | the fourteen parsers, as operators that take a byte | `ParserStreams`: the grammars, written without automata |
| `LuluChannel`, `LuluSession`, `LuluClient`, `LuluDialogue` | the connection of an administrator, the server's session, `lulu_client`, and the three composed | what the user typed, and is shown |
| `RelayProofs`, `ArrayBufferProofs`, `Socks5UsersProofs`, `EstablishProofs`, `HandshakeProofs`, `LifecycleProofs`, `ParserStreamsProofs`, `LuluDialogueProofs` | theorems, for every value of the constants | |
| `MC*.tla`, `MC*.cfg` | instances for TLC | |

How they fit together. `Handshake` ends in the state a whole request leads to,
`Establish` begins with the request and ends where `Relay` begins
(`RelayStartsClean` is the initial state of `Relay`, as a property of
`Establish`). `Lifecycle` holds many connections and sees each from the outside:
its `Outcomes` are what the handlers of the other three can do to the table.
`Relay` takes a buffer as the sequence of its unread bytes and its capacity;
`ArrayBuffer` shows that the array with two heads behaves as such a sequence.
`Handshake` uses `Socks5Parsers`; `LuluSession` uses `LuluParsers`;
`ParserStreams` checks all parsers by themselves. `Socks5Users` takes the
disposal of a connection as the end of a session and abstracts everything else
a connection does; what `LuluSession` does to users is one of two replies there,
and the two user commands are `SetUser` and `DelUser` of `Socks5Users`.

### Relay

| Model | Code |
|---|---|
| `state`, `Jump`, `Resets`, `Resizes` | `Fsm.CurrentState`, `jump` in `fsm.c`, the arrival and departure hooks of the relay states |
| `interest`, `pend`, `Select`, `Deliver`, `Skip` | `Item.Interest`, the slave sets that the iteration has not looked at yet, `SelectorSelect`, the two tests of `handle_iteration` that pass an event on or drop it |
| `canRead`, `canWrite`, `ShutRd`, `ShutWr` | the flags of `TcpConnection`, `DisconnectFromTcpConnection` |
| `buf`, `cap`, `target`, `SetBufferSize` | `WriteBuffer`, its size, `targetBufferSize`, `SetSocks5BufferSize` |
| `ConnectedRun`, `ReadRun`, `WriteRun` | `ConnectedConnectionRun`; `ClientReadRun` and `RemoteReadRun`; `ClientWriteRun` and `RemoteWriteRun` (the two of each pair are mirror images, so they are one definition for a side) |
| `nsent`, `nrecv`, `eof`, `reset`, `room`, `dlvd` and the `Peer*` actions | the network and the peers: what has arrived, what recv returned, FIN, RST, the send window, what send accepted |

A step of the model is one *event* of a select iteration, not one iteration:
between two events of one iteration only the interests may have changed, and
`pend` keeps what pselect had reported. The peers act between any two steps, so
an event may find more (or a reset) than was there when pselect returned.

### ArrayBuffer

Heads are offsets from `Data`. `WriteAdv(n)` is the whole use a caller makes of
`BufferWritePtr` and `BufferWriteAdv`: fill any front of the writable part with
any bytes, then advance. `ReadAdv` likewise; `ReadByte`, `WriteByte`, `Compact`
and `Reset` are the functions of the same names. Callers stay within the length
they were told, as those in `lib/socks5` do; what happens when they do not is the
assertion the type invariant stands for.

### Socks5Users

`slots` is the linked list, whose entries are never unlinked; `session[c]` is the
pointer `connection->User` as a slot number and `account[c]` remembers the name
the session logged in with (a history variable). `LoadSingleUser` fills the first
empty slot or appends one; an appended slot copies its strings without room for
the terminator, so for the strings in `Unterminated` the copy may be `Garbled`
(the choice is made once, because what follows the block does not change while
the block is allocated). `DelUser` is the scan of `DeleteSocks5User` with its
three ends. `status` records the end of the process by a null pointer or the use
of freed memory; both are ends of the behaviour. The model stops at 25 users
(`MaxSlots`), the number of pointers the listing array of `lulu_messages.c` holds.

### Establish

| Model | Code |
|---|---|
| `state`, `HandledOps`, `Handle`, `Abort` | `Fsm.CurrentState`; which of the states have read and write handlers (`socks5ConnectionActions`), the dispatch and the `abort()` of `fsm.c` |
| `item`, `WithInterest`, `Closed`, `Disposed` | the selector's table of items and the socket behind each; `SelectorSetInterest`, `DisposeTcpConnection`, `DisposeSocks5Connection` |
| `Connect` (`Connecting`, `FailedAtOnce`, `Unopened`) | `ConnectToIPv4TcpServer` and `ConnectToIPv6TcpServer`, which register and connect in opposite orders |
| `EstablishInit`, `EstablishRun`, `Advance`, `EstablishClose` | the arrival and reentry hook, the handler and the departure hook of ESTABLISH_CONNECTION |
| `RequestReadRun` (`Incomplete`, `Malformed`, `Unsupported`, `Resolve`, `Literal`) | `RequestReadRun`, one operator per way out |
| `Notify`, `DnsRead`, `Answer`, `resolver` | `handle_block_notifications`, `DnsRead`, `ResolveDNS` on its own thread |
| `current`, `tried`, `block` | `CurrentRemoteAddress` as a position in the list; which positions were attempted (a history variable); whether the memory of the address or of the list is allocated, freed, or freed again |
| `command`, `replied`, `Reply`, `RequestWriteRun` | `Request.Command` (the reply codes of a failure are one value), `RequestWriteRun` |
| `IdleTimeout`, `Accept` | `CheckForTimeoutInSingleConnection`; the descriptor it closed given to a new client |
| `lost`, `Haunted`, `cut` | history: the sockets that connects which failed at once left behind, whether the selector still has one of them, and the state the idle timeout struck in |

A request is a kind and the addresses it has or will resolve to, fixed at the
start. What the client sends before its request is whole is `Incomplete`; the
bytes are the parser's affair. `getsockopt(SO_ERROR)` is modelled by what it
does: it reports, and clears, the error of a connect that failed, and reports
none for a connect still under way. A closed descriptor number may be given to
the next socket at once, as the kernel does.

### Handshake

| Model | Code |
|---|---|
| `state`, `Jump`, `parser` | `Fsm.CurrentState`, the arrival hooks, the parser in the union `Data` |
| `Read`, `ReadEnd`, `ReadFails` | one read event: recv of what has arrived up to the size of `ReadBuffer`, of an end of stream, of a reset; then the handler of the state |
| `HelloReadRun`, `AuthReadRun`, `RequestReadRun` | the handlers, a disjunct for each way out |
| `Write`, `WriteFails`, `HelloWritten`, `AuthWritten` | one write event with something left to send, and the one that finds the reply sent |
| `client`, `turn`, `heard`, `Talk`, `Close` | the other end: what it is, how far it got, what it received |

A patient client sends each message when it has the whole answer to the one
before; one that is not patient sends all three at once, which is allowed to it
but not served: what is read together with the end of a message is dropped by
`BufferReset`. `Octet` is small, and addresses have 1 and 2 bytes; no value of a
length or a type is treated differently from the ones kept.

### Lifecycle

| Model | Code |
|---|---|
| `open`, `item`, `slave`, `turn`, `pc` | descriptors of the process; the selector's `Fds`; its slave sets; where `handle_iteration` and `SelectorSelect` are |
| `pool`, `Object`, `Dispose` | `socks5Pool`, `GetObject`, `DisposeSocks5Connection` with `DestroyObject` |
| `current` | `metrics.CurrentConnections` |
| `SelectReady`, `SelectInterrupted`, `SelectTimeout` | pselect returning with descriptors, with EINTR from a resolver's signal, with nothing |
| `Visit`, `WriteTurn`, `Refreshed` | an item of the iteration: the hook that refreshes its connection, `handle_read`, `handle_write` |
| `Handle`, `Outcomes`, `Ask` | the handlers of a connection as what they may do to the table, the interests and the resolver |
| `takes`, `InState` | the events the state of a connection has handlers for (`socks5ConnectionActions`), and the jump to another state |
| `Establish` (`Leaves`, `Registered`) | `EstablishConnectionInit` with `ConnectToIPv4TcpServer` and `ConnectToIPv6TcpServer`, in all their ways out |
| `lost`, `Restless`, `Haunted` | history: the sockets of connects that failed at once; those `pselect` reports, and whether the selector has any |
| `ResolverAnswers`, `HandleBlock`, `DnsRead` | `SelectorNotifyBlock` on the resolver's thread, `handle_block_notifications`, the handler of the answer |
| `Accept`, `Refuse` | `Socks5PassiveAccept`, with and without room in the selector |
| `Overdue`, `Elapsed`, `timeout` | the scan of `socks5_timeout.c`, and time |
| `Shutdown`, `FallSilent` | the stop; the time from which no peer sends any more |

Time is the age of each connection, cut off at the largest timeout; a second
passes only where the loop waits, so what handlers take is not counted. A
connection never visited has the age `Never` (its `LastConnectionOn` is 0). A
client comes only while `MaxPool` has room for it. Administrators have no
descriptors here. A connect may fail at once over either family: its socket then
stays open for ever, and over IPv4 also registered, with the connection as its
data. Being dead it is ready for whatever is awaited of it, so `pselect` reports
it at once and calls the handlers of that connection, or, once the connection is
gone, of whoever has its object of the pool. `pc` records the two ways the
process ends by itself: `crashed`, where the scan logs a connection without a
remote or an event is for an object not in use (a jump through null), and
`aborted`, where `fsm.c` finds no handler.

### The parsers

A parser is a record with the fields of its struct, and its feed is a function
of the record and a byte. The ten of `lib/parsers/lulu` are copies of one
another with differences; what they share is one operator (`Traverse`,
`NameOrPassword`, `NextDigit`), and each keeps its own feed. The checks
of a length let one byte more in than the array of a name or password holds
(`Full`); where that byte goes is modelled (`Store`: the next array, a letter
already read, or padding), and what a handler then reads (`UName`, `Passwd`).
`Overrun` is a write further behind an array than that. `ParserStreams` feeds streams of
every kind: all ten Lulu parsers at once on every stream in which some parser is
in a word or the byte is one of a few; every stream of octets for the SOCKS
parsers; lines of a POP3 client cut in chunks anywhere.

### Lulu

| Model | Code |
|---|---|
| `LuluChannel` | the connection: `toServer`, `toClient`, partial sends, resets, and `cuts`, which remembers the cuts that matter to somebody |
| `LuluSession`: `session`, `parserIndex`, `parser`, `held`, `reply` | `lulu_connection.c`, `lulu_hello.c`, `lulu_transaction.c`: the FSM, the parser in turn, `ReadBuffer`, `WriteBuffer` |
| `LuluSession`: `timeout`, `bufferSize` | the settings the session changes |
| `LuluClient`: `phase`, `choice`, `buffer`, `stdin`, `shown` | the FSM of `lulu_client` (a phase and a command are one of its states), its buffer, what the user types, the reply |
| `LuluDialogue` | the composition; `Breaks` is a reset |

`taken` and `typed` are history: what the session took a line for, and what the
user typed. The replies of the user commands are chosen freely (`Socks5Users` has their
meaning); those of the settings are computed. Words are cut down to two letters
that keep what the real ones share.

## 3. Runs

| Run | Question | Result |
|---|---|---|
| `relay` | With half-closes, resets, partial writes, resizing and timeouts in any order: do the streams stay intact, does the relay implement two pipes, and does every byte and every end of stream get through? | holds |
| `relay_sigpipe` | Can one peer end the server? | yes: finding |
| `buffer` | Is the array with two heads a queue, and whole again when drained? | holds |
| `users` | Do flags stand for sessions, and do names stay unique? | holds |
| `users_erase` | Can a logged-in user be erased? | yes, with two sessions: finding |
| `establish` | With connects that fail at once or later, missing threads and the idle timeout: is a failure reported only after all addresses were tried, do events find handlers, are addresses freed once and descriptors kept account of, does the relay start clean, is every request for a name answered? | holds, up to what the faults below cost, named in the properties |
| `establish_stale` | Is a reported success always a connection? | not with two addresses: finding |
| `parsers` | Does each parser accept its grammar, and hand on names, passwords, numbers and addresses as they were sent, however long the stream goes on? Is at most one byte written behind an array? | holds |
| `parsers_limit` | Does what a parser hands over fit its array? | not with one byte more than the limit: finding |
| `handshake` | Does a client get the method and verdict it should, is a request served only under its user and as it was sent, and is a patient client served at all, however its bytes are cut? | holds |
| `lulu` | Is a command taken for what was typed, does a reply belong to its command, is what is shown in force, do only administrators get in, and does a command come to an end? | holds, up to the cuts named in the properties |
| `lifecycle` | At every limit at once, with timeouts and late answers: do descriptors have owners, is the metric exact, is there one idle clock, does an answer find who asked, is a server whose peers have gone quiet emptied in the end? | holds, but for the sockets left behind, named in the properties |

What the findings say:

* **SIGPIPE** (`relay_sigpipe`). A peer ends its stream, then resets; the proxy
  still writes what the other side sent. `send` raises SIGPIPE, for which
  `main.c` installs no handler.
* **One flag for many sessions** (`users_erase`). A user logs in twice, one
  session ends and clears `IsLoggedIn`, an administrator deletes the user while
  the other session goes on. The slot can then be given to a new user, whom the
  end of the old session logs out.
* **A success that is none** (`establish_stale`). The connect to the first
  address fails: its descriptor is readable and writable. The read event closes
  it and opens a socket for the second address, which gets the same number; the
  write event of the same iteration is then delivered to that socket, whose
  `SO_ERROR` is 0 because it is still connecting. The client is told that its
  request succeeded, and a third address would never be tried.
* **A limit of one byte too many** (`parsers_limit`). The parsers announce a
  limit of 255 bytes, have arrays of 255, and refuse the 257th: of a name of 256
  bytes the last one is written behind its array. It does no harm there but for
  what the handler reads (`UName`, `Passwd`); what lies two bytes behind is
  reached only after a stray `\r` (`AtMostOneByteOver`).

Behaviours of the code that the models contain, as end states or as the
exceptions the properties name, without a run of their own:

* *Users.* With the head slot empty every deletion answers "doesn't exist"; with
  a later slot empty the scan compares a null name and the server ends
  (`DelUser`). At shutdown the list is freed before the sessions that log out of
  it are disposed of (`Stop`). A user stored without a terminator may be unable
  to log in (`Garbled`).
* *Establish.* A connect that fails at once leaves its socket open, over IPv4
  also registered (`lost`, `Haunted`). Being readable, that one wakes the
  connection in REQUEST_WRITE, which has no read handler, and `abort()` ends the
  server (`EventsHaveHandlers`); or it is awaited besides the other two when the
  relay starts (`RelayStartsClean`). A later address that fails at once, or
  for which there is no socket, leaves the client waiting until the idle timeout,
  as does a resolver thread that could not be started (`Answered`). The idle
  timeout frees a literal a second time while it is being connected to, and the
  addresses of any request while the reply is written (`FreesAgain`); the answer
  of a resolver that comes after it is freed by nobody, and may find a client that
  is not waiting. After a literal address fails, the next link is read from freed
  memory.
* *Lifecycle.* A connection accepted just before a quiet second is cut by the
  first scan, whatever the timeout (`Never`). A connection cut before it named a
  remote is logged with a remote it does not have, and the server ends
  (`crashed`). An answer of the resolver that comes after the timeout cut its
  connection goes to whoever has the descriptor by then, and `abort()`s the
  server if that one is not waiting (`cut`). At the limit of descriptors the
  listener stays ready, and the loop, always busy, never scans. A registered
  socket that a failed connect left behind does the same, calls handlers in states
  that have none (`abort()`), or, once its connection is gone, leads through the
  null of an object that is not in use, or into the connection of another client
  that got the object; it outlives all of them (`lost`, `Haunted`).
* *Handshake.* A client that sends its messages at once loses what came with the
  end of one. One that leaves in HELLO_READ or REQUEST_READ is not noticed
  (`LeavingNoticed`). After the answer that no method is acceptable the server
  goes on to REQUEST_READ as after agreeing on none (`AfterHello`).
* *Parsers.* A name of MAXLONG bytes has no terminator, nor has a password of
  HELLO (`UName`, `Passwd`). A `\r` that no `\n` follows stores two bytes after one
  check (`Overrun`).
* *Lulu.* A command cut in its opening word is recognised by a later parser only
  from the cut on; a `\r` and a `\n` in two reads leave an unknown command
  unanswered, or a reply unfinished; a typed line in pieces loses a byte of each;
  a user list that does not fit ends the session; the process of the client ends
  by SIGPIPE when it writes to a session that is over.

### Bounds, and why they are enough

Relay: three bytes one way and one the other, all different, with a send window
of 2 and buffers of 1 or 2 bytes: a chunk is cut by recv, by the buffer and by
send, the buffer is resized both ways during a transfer, and every order of two
FINs, resets and data occurs. The proofs remove the bounds for safety.

Buffer: four bytes of two values give every split with something before and
after each head.

Users: two users of the command line, a third name, two connections, three
slots: one user with two sessions, a slot given on while a session points to it,
and a deletion before, at and after an empty slot all occur. `carol` stands for a
name whose appended copy is unterminated.

Establish: three descriptor numbers, one for the client and two, so that a new
socket may or may not get the number just closed; every list of up to three
addresses of both families, so that there is a first, a last and one between, and
literals and unsupported requests besides. One connect is open at a time, and a
list of three already repeats the step from one address to the next; the proofs
remove the bound for the order of the addresses.

Parsers: `MaxInput` bounds each kind of stream so that the longest command with
arguments one byte beyond `MAXLONG` (2), a number above `MaxValue` (10), a
request with a name of two bytes, and a POP3 login with most of a second one all
fit.

Handshake: a read buffer of 3 bytes, so that every message is cut in several
ways and also read together with the next; every client offers one of eight
method lists and one of five names with one of four passwords, among them empty
ones and ones with a byte 0 inside.

Lulu: one connection; `Portions` (a socket takes all of a message or all but its
last byte) and buffers of 11 bytes; every read may return any number of bytes. Of
the administrators one has a name and one a password of MAXLONG (2) bytes.
The next command is chosen when the reply to the last one has arrived whole
(`Chooses`).

Lifecycle: the process can open three descriptors besides the listener, of which
the selector takes two; a pool of one object, which grows to two; two resolver
threads; timeouts 0 (none) and 2. A client and its remote, or two clients, or a
client and a socket left behind, fill the table, and one more of either meets
the limit.

### Fairness

`Relay`: weak fairness of the select loop, which `RunTcpServer` runs until the
process is told to stop, and that each peer goes on reading what has reached it.
Without the latter the relay may rightly wait for ever: both streams share a
buffer, so one peer that does not read stops both streams. Nothing is assumed of
the peers' sending or closing, nor of the administrator.

`Establish`: the loop goes on, `getaddrinfo` returns (the resolver library bounds
its retries) and each connect under way succeeds or fails (TCP bounds its own).
`Answered` starts from a whole request, so nothing is assumed of the client. It
leaves out literal addresses, for the reason given above. It is checked with every
fault switched on, and names those after which a client is not answered: the
timeout struck; no thread was started; no socket was had for an address; a lost
socket is registered. A request that meets none of them is answered.

`Handshake`: the loop runs the handlers of what is ready, and a client sends what
it has to send as long as it is there; it need not stay.

`Lulu`: the client's loop and the server's go on. The user need do nothing.

`Lifecycle`: the thread of the selector runs on: it comes back to `pselect` and to
the answers of the resolvers until the server ends (`SelectorRuns`; its own steps
lead there, for an iteration has as many items as the table and `HandleBlock`
shortens the list). Resolvers may take for ever; peers and administrators need not
do anything. A socket left behind is always ready, which is no assumption but what
`pselect` reports of it.

## 4. What is proved

The theorems hold for every payload, buffer size, window, number of users,
connections, slots, descriptors, objects of the pool, resolver threads and
timeouts, every client of the handshake, every stream fed to a parser, and every
login and typed line of `lulu_client`, under the assumptions named in the
modules (`RelayAssumption`, `SizeAssumption`, `ByteAssumption`,
`UsersAssumption`, `EstablishAssumption`, `Socks5ParsersAssumption`,
`LuluParsersAssumption`, `Pop3ParserAssumption`, `ParserStreamsAssumption`,
`Pop3LinesAssumption`, `HandshakeAssumption`,
`SizesAssumption`, `LifecycleAssumption`, `LuluSessionAssumption`,
`LuluClientAssumption`). They give the constants their types and keep the special
values apart; five say more, about the outside: a POP3 client ends its lines with
`\r\n`, has neither byte elsewhere, and in none of its lines stands a `USER` or
`PASS` with its space behind the beginning (`Pop3LinesAssumption`; without the
last a parser that was reset inside such a line, at the end of a chunk, would take
its tail for a line of its own); the credentials of the command
line are C strings, and a literal address is as long as its type says
(`HandshakeAssumption`, `SizesAssumption`); the administrators of `main.c` have
names and passwords that fit the parser, and no list of users has a line end
inside (`LuluSessionAssumption`); what `lulu_client` is started with fits too,
which it asks for, and has no `|` or line end, which it does not
(`LuluClientAssumption`).
Some theorems are about formulas no run checks: the types of the buffer, of the
users, of `Establish` and of `Lifecycle`, `NewUsersLoggedOut`, and the inductive
invariants themselves.

* **Relay** (`RelayProofs`). `InvariantHolds` proves `RelayInv`. `StreamIntegrity`
  alone is not inductive: that a chunk is read only into an empty buffer, and
  that the buffer is replaced only when empty, depends on which state the FSM is
  in and on the events still pending. The strengthening says where the gap
  between what was read and what was delivered is (`BufferIsTheGap`,
  `BufferIdle`, `DeliveredPrefix`), what the shutdown flags mean
  (`FlagsFollowStreams`), that every pending event is still true and that a write
  event is alone in its iteration (`PendingIsReady`). From it follow
  `TypeCorrect`, `StreamsAreIntact`, `HalfClosesAreLate`, `NoUnhandledEvent`,
  `ErrorsNeedAReset`, and `RelayImplementsPipe`: each relay step is a step of
  `DuplexPipe` or leaves it unchanged.
* **Buffer** (`ArrayBufferProofs`). `HeadsInOrder`, `DrainedBuffersAreWhole` and
  `BufferIsAQueue`, the refinement of the queue.
* **Users** (`Socks5UsersProofs`). `UsersInv` adds to the stated properties that
  an empty slot is logged out and that the command line fills the slots in order.
  `FlagsMeanSessions` rests on the order of login and logout: the flag is only
  set together with a session, and a session that ends clears it even if others
  remain - which is why the flag implies a session and not the other way round
  (`users_erase`). `NamesAreUnique` and `NewUsersStartLoggedOut` complete it.
* **Establish** (`EstablishProofs`). `EstablishInvariantHolds` proves
  `EstablishInv`: the positions tried are exactly those up to the current one
  (`TriedInOrder`), what the state says about the reply, the remote and the
  resolver (`DataFollowsState`) and who owns the addresses
  (`BlockFollowsState`). `FailuresExhaustTheList` needs the first two: a failure
  is reported only from the last position, for any list, with every fault
  switched on. `AddressesAreFreedOnce` needs the third, with
  the idle timeout on: `BlockFollowsState` also says what the addresses are after
  it, from the state it struck in (`cut`), so that the second free and the list
  nobody frees happen in the cases the property names and in no other.
* **Establish's table** (`EstablishProofs`, second part). `TableInvariantHolds` proves
  `TableInv`, which is `EstablishInv` and three more parts: the entries in use are
  those of the client, of the remote and of lost sockets, each with a socket
  behind it (`EntriesFollowState`); what is awaited on the two is what the state
  has handlers for (`InterestFollowsState`); and what the iteration may still hold
  is limited by the state and by whether the reply was sent
  (`PendingFollowsState`). The last is what an argument from the handlers alone
  misses: a socket that failed is closed, and its number given to the next one,
  while its events are still pending. The last two hold as long as the history is
  `Tidy`: no lost socket is registered, and no idle timeout has struck.
  `EventsAlwaysHaveHandlers`, `DescriptorsAreAccounted` and
  `RelayAlwaysStartsClean` follow. No fault is switched off: what the two faults
  cost stands in the properties.
* **Lifecycle** (`LifecycleProofs`). `Invariance` proves `LifecycleInv`. Until the
  server has stopped its tables are sound (`SoundUntilStopped`): the selector
  watches exactly the open descriptors, some of the lost ones excepted
  (`Watches`); the pool and the table name each other (`Owned`); an object not in
  use is clean but for the age the visits of a stray give it, which is a lost
  socket that is registered (`Clean`); the metric counts the objects in use
  (`Counted`); and a connection awaits what its state takes, unless a stray is
  about, and nothing while it waits for the resolver (`Waiting`). `ListenerFirst`
  says that the listener is the first to be visited and that what was found ready
  is open until then; `Clocked` that every object that has an age at all has age
  zero, or something that refreshes it, its client or a stray, is still to be
  visited (`Due`), so that outside an iteration all ages agree, those of unused
  objects that will be given out again included; `AskersWait` that the jobs of the
  resolvers belong to different connections, each of which waits at the descriptor
  the job names. `DescriptorsAlwaysHaveOwners` rests on `Watches` and `Owned`,
  `MetricsAlwaysExact` on `Counted`, which every disposal keeps because it takes
  one member from the set of objects in use, `AlwaysOneIdleClock` on `Clocked`,
  `NewClientsAreNeverReady` on `ListenerFirst`, and `AnswersAlwaysFindAsker` on
  `AskersWait` and `Waiting`: without the distinctness of the jobs the first
  answer would leave the second one nobody to find, and without strays an event
  meets only what its state takes. No fault of the model is switched off; the last
  theorem is about runs in which the timeout cut no connection that was resolving
  (`cut`), and allows `abort()` only while there is a stray, as the property says.
* **Handshake** (`HandshakeProofs`). `RequestsHaveUsers` proves
  `NoRequestWithoutUser`, which is inductive as it stands, because the method and
  the user are each set in one handler only and the two states that follow those
  handlers decide by them (`HandlersInOrder`). It holds whatever the parsers make
  of the bytes. `RepliesAreAsAgreed` and `RequestsAreAsSent` need the parsers. A
  parser that has had the first k bytes of the message of its client is written
  down explicitly (`At`); one more byte leads it to k + 1 or makes it fail
  (`Follows`, from the positions of the bytes of each message); and a chunk
  therefore to k + n (`ChunkFollows`). The last step would be an induction over
  the chunk; it is made by taking the least prefix that goes wrong
  (`LeastNumber`), and so is the existence of the function `FedWith` is defined
  by (`RunExists`). `HandshakeInv` then says, for each state, which message the
  parser is in and how far, that the rest of it and nothing else is on the way,
  and what was replied. `CStringReads` and `UserIsKnown` show that the comparison
  of C strings finds the one user the client can mean.
* **Parsers** (`ParserStreamsProofs`). `MessagesAreExact` needs every state of a
  parser, not only the last: `HelloKnows`, `AuthKnows` and `RequestKnows` say what
  the parser is as a function of the stream so far, in positions of the stream,
  and `Socks5InvariantHolds` that it is. The counts of the parser (of the bytes a
  field has left) and the lengths in the stream then meet at the last byte of the
  message and nowhere else; a stream that can no longer become a message is told
  by a byte that is in it already (`AuthWrong`, `RequestWrong`). For the
  commands of lulu, `LuluInvariantHolds` proves `LuluInv`: as long as no `\r` is
  followed by something else than `\n`, no parser has written more than one byte
  behind an array, and one that waits for a `\n` has just had its `\r`. The second
  part makes the first one inductive: the code stores the `\r` it held back without
  asking whether there is room, and only after a stray one does that happen.
  `NeverTwoBytesOver` is the first part. `PlainInvariantHolds` does for the
  commands without names what `Socks5InvariantHolds` does for the messages: a
  parser is in the middle of its line, behind it, or the stream differs from the
  line at some position. A number is what its digits come to (`Counts`). That the
  recursive function of the grammar is one of those, that all digits come to
  something, and that more of them come to no less, are inductions up to the
  number of digits, made by taking the least number that goes wrong (`UpTo`). The
  last is why a parser that gives up at the digit that made the number too large
  is right whatever comes behind it, which `PlainCommandsAreExact` needs.
  `NamedInvariantHolds` says the same of the commands with names (`NamedKnows`): a
  field is what is in front of the first `|` or `\r\n` (`Clean`), and a parser
  inside one has stored just that, but for a `\r` it holds back until it sees what
  follows (`ReadsField`). A field that is too long may be refused or written
  behind its array, depending on where its `\r`s are; for both it is enough to
  know that it was long (`TooLong`), because a field has one end only (`OneEnd`)
  and `NamesAreAsSent` is about short ones. That the positions of the fields and
  the sets of the grammar mean the same is `TwoSentAt` and `OneSentAt`. The POP3
  dissector is not a function of its stream, because it starts over at the end of
  a chunk, inside a line or not. `Pop3InvariantHolds` says what it still knows
  (`Pop3Knows`). While it has neither a user nor a password it may be anywhere
  (`Fresh`). Otherwise it is in step with the last line: what it reads as a
  command begins that line, an argument begins behind the command (`LastCommand`),
  and where it skips the rest of a line, something in that line shows that it is
  no `USER` line that could still end (`Passed`). So whenever a `USER` line ends
  the parser is in its argument, and the user it holds is the last one
  (`UserStays`, `UserIs`); for the password it is enough that it was sent
  (`PasswordIs`). `CredentialsAreOfOneLogin` follows, because a chunk that ends
  with the `PASS` line leaves no room for a further `USER` (`UserBefore`).

* **Lulu** (`LuluDialogueProofs`). `DialogueInvariant` proves `Inv`. What the
  three properties say of the two ends depends on bytes that may be anywhere
  between them, so the invariant is about the whole of what is on its way to the
  session (`Way`: the client's buffer, the connection and `ReadBuffer`, joined)
  and of what is on its way back (`ToRead`). A read or a write moves bytes inside
  one of the two and leaves it what it was, whatever the cut (`WaySent`,
  `ToReadParts`). At HELLO the parser stands where the line stands that the client
  sent (`HelloParsed`, for every place of the line and, by an induction over the
  chunk, for every cut); so it is done with the last byte, and has the name and
  password of the client: `Knowing`, of which `AdministratorsOnly` is a part, and
  which holds whatever becomes of the connection. `Talking` is about the two ends
  while both live: in each phase of the client at most one of `Way` and `ToRead`
  holds anything; a reply has one line end, its last two bytes (`CrlfLast`); a
  line has one `\n`, its last (`LfLast`). No parser needs to be known for that:
  each ends well at a `\n` only (`FinishesAtLf`), so never before the end of the
  line, and the one that could end the session, GOODBYE, is tried first and fails
  at the first `|`, which the line of every other command has (`GoodbyeChunk`).
  What the nine others make of a line they were given only the rest of is left
  open. `SessionsSurvive` follows because a line fits in `ReadBuffer`, which is
  empty when it begins, and `EndsInStep` because the menu is only reached by
  reading the `\r\n` of a reply.

Only model-checked: liveness (`EveryByteDelivered`, `HalfCloseForwarded`,
`Answered`, `Completes`, `LeavingNoticed`, `Returns`, `SilentServerIsEmptied`;
fairness is beyond the prover); of Lulu, `TakenAsTyped` and `ShownIsTrue`; and
what the violation runs show. `TakenAsTyped` and `ShownIsTrue` are about the lines of
the run and cannot be had for all: of a line in which the user types what looks
like another command, a cut in the opening may leave exactly that command to a
later parser.

## 5. Not modelled

The access log and what the POP3 dissector does with its memory; the listing of
users as bytes; command-line parsing and logging (no state beyond the values
the modules take as constants); the stress test, a load generator. Of the
selector, how the table of items grows: it never shrinks, and never moves a
registered item to another number. Of the metrics, the bytes and the historical
connections, which only grow (the reply that shows them has room for 10 digits).
Of the Lulu server, accepting administrators and the list of their sessions:
nothing of a session depends on another one but the settings. Of the stop, which
field `CleanObjectPool`, handing its own node to the hook, makes the hook read:
that depends on the layout of the struct. In `Establish`: allocations that fail,
a send of the reply that fails or takes only part of its ten bytes, which failure
code a reply carries. In `Lifecycle`: seconds that pass inside an iteration, an
EINTR for an answer already handed over. Of a password of SET USER that fills its
array, what a handler reads behind it (padding and `Index`): it is taken as it was
sent.

## 6. Plan

What is left are the proofs of `TakenAsTyped` and `ShownIsTrue`, with the lines
they hold for described instead of listed: no tail of a line may be a command.
