------------------------------- MODULE Handshake -------------------------------
(***************************************************************************)
(* The SOCKS5 handshake of one connection: HELLO_READ, HELLO_WRITE,        *)
(* AUTH_READ, AUTH_WRITE and REQUEST_READ of socks5_connection.c over a    *)
(* byte stream that is cut anywhere, with the parsers of Socks5Parsers.    *)
(*                                                                         *)
(* What makes it hard: a message may arrive in any number of pieces, and   *)
(* the buffer it is read into is emptied after each, so that what follows  *)
(* a message in its last piece is lost; the client may leave at any time,  *)
(* and only one of the three reading states notices an end of stream.      *)
(*                                                                         *)
(* Establish takes over from the states a whole request leads to.          *)
(***************************************************************************)
EXTENDS Socks5Parsers, SequencesExt

CONSTANTS
    BufferSize,     (* of ReadBuffer and of WriteBuffer (10 bytes)         *)
    Credentials,    (* the users, as [name, passwd]: C strings             *)
    Clients         (* what a client may be; see ClientType                *)

(* A client has three messages to send.  A patient one awaits the whole    *)
(* answer to each and gives up when refused; one that is not sends them at *)
(* once.                                                                   *)
ClientType == [methods : Seq(Octet), name : Seq(Octet), passwd : Seq(Octet),
               cmd : Octet, atype : Octet, address : Seq(Octet), port : Seq(Octet),
               patient : BOOLEAN]

ASSUME HandshakeAssumption ==
    /\ BufferSize \in Nat /\ BufferSize >= 2
    /\ Credentials \subseteq [name : Seq(Octet \ {0}), passwd : Seq(Octet \ {0})]
    /\ Clients \subseteq ClientType

(* A literal address is as long as its type says, and a port has two bytes *)
(* (the length of a name is sent with it).                                 *)
ASSUME SizesAssumption ==
    \A c \in Clients : /\ c.atype = IPv4 => Len(c.address) = V4Length
                       /\ c.atype = IPv6 => Len(c.address) = V6Length
                       /\ Len(c.port) = 2

Success == 0
Refused == 255          (* SOCKS5_AUTH_FAILED *)

ReadStates == {"HELLO_READ", "AUTH_READ", "REQUEST_READ"}
WriteStates == {"HELLO_WRITE", "AUTH_WRITE"}

(* The states of Establish are reached with a request; KILLED is the end   *)
(* of the server by a SIGPIPE (see Relay).                                 *)
EndStates == {"DONE", "ERROR", "KILLED"}
GoesOn == {"DNS_READ", "ESTABLISH_CONNECTION", "REQUEST_WRITE"}

VARIABLES
    client,     (* what the client is                                       *)
    turn,       (* what it has sent: 0, or up to "hello" (1), "auth" (2),   *)
                (* "request" (3)                                            *)
    heard,      (* what it has received                                     *)
    closed,     (* it has closed its side                                   *)
    up,         (* bytes on the way to the server                           *)
    state,      (* Fsm.CurrentState                                         *)
    parser,     (* Data.Hello.Parser, Data.Auth.Parser, Data.Request.Parser *)
    write,      (* what WriteBuffer holds                                   *)
    method,     (* Data.Hello.AuthenticationMethod                          *)
    user        (* User: {} for null, or {the user}                         *)

server == <<state, parser, write, method, user>>
peer == <<client, turn, closed>>
vars == <<peer, heard, up, server>>

-------------------------------------------------------------------------------
(* The client, and the network.                                            *)

HelloMessage == <<Version, Len(client.methods)>> \o client.methods
AuthMessage ==
    <<NegotiationVersion, Len(client.name)>> \o client.name
        \o <<Len(client.passwd)>> \o client.passwd
RequestMessage ==
    <<Version, client.cmd, 0, client.atype>>
        \o (IF client.atype = FQDN THEN <<Len(client.address)>> ELSE <<>>)
        \o client.address \o client.port

Accepted == method = UserPass /\ Len(heard) = 4 /\ heard[4] = Success
Agreed(m) == Len(heard) = 2 /\ heard[2] = m

Says(messages, upTo) ==
    /\ ~closed
    /\ up' = up \o messages
    /\ turn' = upTo
    /\ UNCHANGED <<client, closed, heard, server>>

SendHello == turn = 0 /\ client.patient /\ Says(HelloMessage, 1)
SendAuth == turn = 1 /\ client.patient /\ Agreed(UserPass) /\ Says(AuthMessage, 2)
SendRequest ==
    /\ client.patient
    /\ (turn = 1 /\ Agreed(NoAuth)) \/ (turn = 2 /\ Accepted)
    /\ Says(RequestMessage, 3)
SendAll ==
    turn = 0 /\ ~client.patient /\ Says(HelloMessage \o AuthMessage \o RequestMessage, 3)

Close ==
    /\ ~closed
    /\ closed' = TRUE
    /\ UNCHANGED <<client, turn, heard, up, server>>

-------------------------------------------------------------------------------
(* The handlers.                                                           *)

SelectAfterFirst(methods) ==                              (* a mutant *)
    LET known(m) == m \in {UserPass, NoAuth}
        last == SelectLastInSeq(methods, known)
    IN IF last <= 1 THEN NoAcceptable ELSE methods[last]
(* SelectAuthenticationMethod: the last one offered of those it knows.     *)
SelectAuthenticationMethod(methods) ==
    LET known(m) == m \in {UserPass, NoAuth}
        last == SelectLastInSeq(methods, known)
    IN IF last = 0 THEN NoAcceptable ELSE methods[last]

(* strcmp ends at the first byte 0 of a name the parser has copied.        *)
CString(s) ==
    LET null(c) == c = 0
        end == SelectInSeq(s, null)
    IN IF end = 0 THEN s ELSE SubSeq(s, 1, end - 1)

MatchesName(name, passwd) ==                              (* a mutant *)
    {c \in Credentials : CString(c.name) = CString(name)}
(* LogInSocks5User, of the users that are in use.                          *)
Matches(name, passwd) ==
    {c \in Credentials : c.name = CString(name) /\ c.passwd = CString(passwd)}

(* FSM jump to next: the hooks leave the buffers empty, and the parser of  *)
(* the message that is read there as new.                                  *)
Parser(next) ==
    CASE next = "AUTH_READ"    -> AuthParserReset
      [] next = "REQUEST_READ" -> RequestParserReset
      [] OTHER                 -> parser
Jump(next) ==
    /\ state' = next
    /\ parser' = Parser(next)
    /\ write' = <<>>

Fails ==
    /\ state' = "ERROR"
    /\ UNCHANGED <<parser, write, method, user>>

(* BuildHelloResponse, BuildAuthResponse: to a writing state with a reply. *)
Replies(next, reply) ==
    /\ state' = next
    /\ write' = reply
    /\ UNCHANGED parser

Stays(p) ==
    /\ parser' = p
    /\ UNCHANGED <<state, write, method, user>>

HelloReadRun(chunk) ==
    LET p == HelloParserConsume(parser, chunk)
        m == SelectAuthenticationMethod(p.methods)
    IN /\ state = "HELLO_READ"
       /\ \/ ~ Socks5Finished(p) /\ Stays(p)
          \/ Socks5Failed(p) /\ Fails
          \/ /\ p.state = "Done"
             /\ method' = m
             /\ Replies("HELLO_WRITE", <<Version, m>>)
             /\ UNCHANGED user

AuthReadRunDeaf(chunk) ==                                 (* a mutant *)
    LET p == AuthParserConsume(parser, chunk)
        found == Matches(p.uname, p.passwd)
    IN /\ state = "AUTH_READ"
       /\ \/ Socks5Failed(p) /\ Fails
          \/ ~ Socks5Finished(p) /\ Stays(p)
          \/ /\ p.state = "Done"
             /\ user' = IF found = {} THEN {} ELSE {CHOOSE c \in found : TRUE}
             /\ Replies("AUTH_WRITE",
                        <<NegotiationVersion, IF found = {} THEN Refused ELSE Success>>)
             /\ UNCHANGED method
(* An end of stream (an empty chunk) is an error here, and only here.      *)
AuthReadRun(chunk) ==
    LET p == AuthParserConsume(parser, chunk)
        found == Matches(p.uname, p.passwd)
    IN /\ state = "AUTH_READ"
       /\ \/ (chunk = <<>> \/ Socks5Failed(p)) /\ Fails
          \/ chunk # <<>> /\ ~ Socks5Finished(p) /\ Stays(p)
          \/ /\ chunk # <<>>
             /\ p.state = "Done"
             /\ user' = IF found = {} THEN {} ELSE {CHOOSE c \in found : TRUE}
             /\ Replies("AUTH_WRITE",
                        <<NegotiationVersion, IF found = {} THEN Refused ELSE Success>>)
             /\ UNCHANGED method

RequestedUnchecked(p) == IF p.atype = FQDN THEN "DNS_READ"  (* a mutant *)
                         ELSE "ESTABLISH_CONNECTION"
(* The state a whole request leads to (Establish models what follows).     *)
Requested(p) ==
    IF p.cmd # Connect THEN "REQUEST_WRITE"
    ELSE IF p.atype = FQDN THEN "DNS_READ"
    ELSE "ESTABLISH_CONNECTION"

RequestReadRun(chunk) ==
    LET p == RequestParserConsume(parser, chunk)
    IN /\ state = "REQUEST_READ"
       /\ \/ ~ Socks5Finished(p) /\ Stays(p)
          \/ Socks5Failed(p) /\ Fails
          \/ /\ p.state = "Done"
             /\ state' = Requested(p)
             /\ parser' = p
             /\ UNCHANGED <<write, method, user>>

(* A read takes what has arrived, up to the size of the buffer; whatever   *)
(* of it follows the message is dropped by the BufferReset of the handler. *)
RunOn(chunk) == HelloReadRun(chunk) \/ AuthReadRun(chunk) \/ RequestReadRun(chunk)

Chunk(n) == SubSeq(up, 1, n)
Read ==
    /\ state \in ReadStates
    /\ \E n \in 1 .. BufferSize :
          /\ n <= Len(up)
          /\ RunOn(Chunk(n))
          /\ up' = SubSeq(up, n + 1, Len(up))
    /\ UNCHANGED <<peer, heard>>

ReadEnd ==
    /\ state \in ReadStates
    /\ closed
    /\ up = <<>>
    /\ RunOn(<<>>)
    /\ UNCHANGED <<peer, heard, up>>

ReadFails ==
    /\ state \in ReadStates
    /\ closed
    /\ Fails
    /\ UNCHANGED <<peer, heard, up>>

(* HelloWriteRun and AuthWriteRun with something left to send.             *)
Write ==
    /\ state \in WriteStates
    /\ \E n \in 1 .. Len(write) :
          /\ heard' = heard \o SubSeq(write, 1, n)
          /\ write' = SubSeq(write, n + 1, Len(write))
    /\ UNCHANGED <<peer, up, state, parser, method, user>>

WriteFails ==
    /\ state \in WriteStates
    /\ write # <<>>
    /\ closed
    /\ state' \in {"ERROR", "KILLED"}
    /\ UNCHANGED <<peer, heard, up, parser, write, method, user>>

(* The same with the reply sent: a method of 255 leads to REQUEST_READ.    *)
AfterHelloNoAuth(m) == "REQUEST_READ"                     (* a mutant *)
AfterHello(m) == IF m = UserPass THEN "AUTH_READ" ELSE "REQUEST_READ"

AfterAuthAny(u) == "REQUEST_READ"                         (* a mutant *)
AfterAuth(u) == IF u = {} THEN "DONE" ELSE "REQUEST_READ"

HelloWritten ==
    /\ state = "HELLO_WRITE"
    /\ write = <<>>
    /\ Jump(AfterHello(method))
    /\ UNCHANGED <<peer, heard, up, method, user>>

AuthWritten ==
    /\ state = "AUTH_WRITE"
    /\ write = <<>>
    /\ Jump(AfterAuth(user))
    /\ UNCHANGED <<peer, heard, up, method, user>>

-------------------------------------------------------------------------------
Handlers == Read \/ ReadEnd \/ Write \/ HelloWritten \/ AuthWritten

(* Nothing is left to do for the handshake.                                *)
Over ==
    /\ state \notin ReadStates \cup WriteStates
    /\ UNCHANGED vars

Talk == SendHello \/ SendAuth \/ SendRequest \/ SendAll

Next == Talk \/ Close \/ Handlers \/ ReadFails \/ WriteFails \/ Over

Init ==
    /\ client \in Clients
    /\ turn = 0
    /\ heard = <<>>
    /\ closed = FALSE
    /\ up = <<>>
    /\ state = "HELLO_READ"
    /\ parser = HelloParserReset
    /\ write = <<>>
    /\ method = NoAuth
    /\ user = {}

(* The select loop runs the handlers of what is ready, and a client sends  *)
(* what it has to send as long as it is there.                             *)
Spec == Init /\ [][Next]_vars
FairSpec == Spec /\ WF_vars(Handlers) /\ WF_vars(Talk)
-------------------------------------------------------------------------------
Byte == Octet \cup {Refused}

TypeOK ==
    /\ client \in Clients
    /\ turn \in 0 .. 3
    /\ closed \in BOOLEAN
    /\ heard \in Seq(Byte)
    /\ up \in Seq(Octet)
    /\ state \in ReadStates \cup WriteStates \cup GoesOn \cup EndStates
    /\ write \in Seq(Byte)
    /\ Len(write) <= BufferSize
    /\ method \in {NoAuth, UserPass, NoAcceptable}
    /\ user \in SUBSET Credentials

(* What the client offers of what the server knows.                        *)
Offered == {m \in {NoAuth, UserPass} : \E i \in 1 .. Len(client.methods) :
                                            client.methods[i] = m}

(* The bytes s are the name t as C reads it.                               *)
ReadAs(s, t) ==
    \/ s = t
    \/ Len(s) > Len(t) /\ SubSeq(s, 1, Len(t)) = t /\ s[Len(t) + 1] = 0
Known == {c \in Credentials : ReadAs(client.name, c.name) /\ ReadAs(client.passwd, c.passwd)}

(* The replies of the server, of whatever pieces the messages arrived in:  *)
(* a method the client offered, 255 if it offered none the server knows,   *)
(* and then the verdict on the name and password it sent                   *)
(* (SelectAuthenticationMethod, LogInSocks5User, socks5_messages.c).       *)
RepliesAsAgreed ==
    client.patient =>
        \E m \in IF Offered = {} THEN {NoAcceptable} ELSE Offered :
            IsPrefix(heard \o write,
                <<Version, m>> \o
                (IF m # UserPass THEN <<>>
                 ELSE <<NegotiationVersion, IF Known = {} THEN Refused ELSE Success>>))

(* Once a method with a password was chosen nothing the client sends, and  *)
(* no way its bytes are cut or dropped, leads to a request without a user  *)
(* (HelloWriteRun, AuthWriteRun).                                          *)
NoRequestWithoutUser ==
    state \in {"REQUEST_READ"} \cup GoesOn /\ method = UserPass => user # {}

(* The request that is served is the one a patient client sent, under the  *)
(* user whose name and password it sent, if it sent any: no byte of one    *)
(* message is taken for part of another (the BufferReset of each handler   *)
(* and the parsers' resets on arrival).                                    *)
RequestAsSent ==
    state \in GoesOn /\ client.patient =>
        /\ user = IF turn = 3 /\ method = UserPass THEN Known ELSE {}
        /\ parser.cmd = client.cmd
        /\ parser.atype = client.atype
        /\ parser.address = client.address
        /\ parser.port = client.port
        /\ state = "REQUEST_WRITE" <=> client.cmd # Connect
        /\ state = "DNS_READ" <=> client.cmd = Connect /\ client.atype = FQDN

WellFormed ==
    /\ client.patient
    /\ Offered # {}
    /\ UserPass \in Offered => Known # {}
    /\ client.atype \in {IPv4, IPv6, FQDN}
    /\ client.address # <<>>

(* A patient client with something to agree on is served, unless it leaves *)
(* first: no cut of the stream makes the server wait for bytes it already  *)
(* had.  (For a client that sends everything at once that is what happens: *)
(* what came with the end of a message is dropped.)                        *)
Completes == WellFormed ~> state \in GoesOn \/ closed

(* When a client leaves, its connection is disposed of, or goes on to      *)
(* Establish, or is in one of the two states that do not take an end of    *)
(* stream for an error (there it stays, and the server reads it for ever). *)
LeavingNoticed ==
    closed ~> \/ state \in EndStates \cup GoesOn
              \/ state \in {"HELLO_READ", "REQUEST_READ"} /\ up = <<>>
===============================================================================
