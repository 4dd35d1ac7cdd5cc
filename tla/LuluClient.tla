------------------------------ MODULE LuluClient ------------------------------
(***************************************************************************)
(* lulu_client: the menu, the lines the user types, the commands they      *)
(* become and the replies.  Each command of the menu has two or three      *)
(* states of its own, with handlers that are copies of one another; what   *)
(* they share is one operator here, and each handler an instance of it.    *)
(*                                                                         *)
(* A reply ends where one read returns \r\n; the bytes of the reads before *)
(* are not looked at again.                                                *)
(***************************************************************************)
EXTENDS LuluSession

CONSTANTS
    ClientSize,     (* of Buffer (1000 bytes)                              *)
    Logins,         (* -u: what the process may be started with            *)
    TypedLines      (* the lines a user types, by command                  *)

MenuCommand == Command \ {"HELLO"}
Asking == {"SET TIMEOUT", "SET BUFFERSIZE", "SET USER", "DEL USER"}
Listing == {"METRICS", "LIST USERS"}

(* Both programs read 1000 bytes at a time.  Of what -u gives, the client  *)
(* refuses only what is too long for the parser; a | or a line end in it   *)
(* would make HELLO another line, and is taken not to be there.            *)
ASSUME LuluClientAssumption ==
    /\ ClientSize \in 1 .. ReadSize
    /\ Logins \subseteq [name : Seq(LuluByte \ {Bar, CR, LF}),
                        pass : Seq(LuluByte \ {Bar, CR, LF})]
    /\ \A l \in Logins : Len(l.name) <= MaxLong /\ Len(l.pass) <= MaxLong
    /\ TypedLines \in [Asking -> SUBSET Seq(LuluByte \ {CR, LF})]

VARIABLES
    phase,      (* Fsm.CurrentState, without the command                   *)
    choice,     (* the command of that state                               *)
    buffer,     (* what Buffer holds                                       *)
    pipes,      (* Data of SET_USER_READ_LOCAL                             *)
    stdin,      (* the part of the typed line not yet read                 *)
    login,      (* Username, Password                                      *)
    typed,      (* the whole line typed last                               *)
    shown       (* the reply read last                                     *)

clientVars == <<phase, choice, buffer, pipes, stdin, login, typed, shown>>

Phases == {"WAITING_CONNECTION", "WRITE_AUTH", "READ_AUTH", "TRANSACTION", "READ_LOCAL",
           "WRITE_REMOTE", "READ_REMOTE", "DONE", "ERROR", "KILLED"}
Ended == {"DONE", "ERROR", "KILLED"}

(* The process ends: StopTcpServer after DONE or ERROR, or a signal.       *)
Ends(next) ==
    /\ phase' = next
    /\ hungUp' = TRUE
    /\ UNCHANGED <<toServer, toClient, broken, cuts>>
    /\ UNCHANGED <<choice, buffer, pipes, stdin, login, typed, shown>>

Gone == broken \/ session \in OverStates
NothingToRead == toClient = <<>> /\ Gone

(* BufferWriteByte leaves out what does not fit.                           *)
Fits(s) == Taken(s, IF Len(s) < ClientSize THEN Len(s) ELSE ClientSize)

(* Buffer at the start of a ..._WRITE state: "GET|TIMEOUT\r\n" and so on.  *)
Message(k, line) ==
    Fits((IF k \in Asking THEN Opening(k) \o <<Bar>> \o line ELSE Opening(k)) \o CRLF)
Hello == Opening("HELLO") \o <<Bar>> \o login.name \o <<Bar>> \o login.pass \o CRLF

-------------------------------------------------------------------------------
(* Connecting and logging in.                                              *)

Connect ==
    /\ phase = "WAITING_CONNECTION"
    /\ phase' = "WRITE_AUTH"
    /\ buffer' = Fits(Hello)
    /\ UNCHANGED <<channel, choice, pipes, stdin, login, typed, shown>>

ConnectFails ==
    /\ phase = "WAITING_CONNECTION"
    /\ Ends("ERROR")

(* n bytes of Buffer are accepted by the socket.                           *)
Sends ==
    /\ ~Gone
    /\ \E n \in Portions(Len(buffer)) :
          /\ toServer' = toServer \o Taken(buffer, n)
          /\ buffer' = Left(buffer, n)
    /\ UNCHANGED <<toClient, hungUp, broken, cuts>>
    /\ UNCHANGED <<phase, choice, pipes, stdin, login, typed, shown>>

AuthWrite == phase = "WRITE_AUTH" /\ Sends

(* An error of the write is not noticed; the next one raises SIGPIPE.      *)
AuthWriteFails ==
    /\ phase = "WRITE_AUTH"
    /\ Gone
    /\ buffer # <<>>
    /\ Ends("KILLED")

AuthWritten ==
    /\ phase = "WRITE_AUTH"
    /\ buffer = <<>>
    /\ phase' = "READ_AUTH"
    /\ UNCHANGED <<channel, choice, buffer, pipes, stdin, login, typed, shown>>

HasCRLF(chunk, from) == \E i \in from .. Len(chunk) - 1 : chunk[i] = CR /\ chunk[i + 1] = LF

(* CS_TRANSACTION: its arrival hook resets Buffer.                         *)
ToMenu(text) ==
    /\ phase' = "TRANSACTION"
    /\ buffer' = <<>>
    /\ shown' = text
    /\ UNCHANGED <<pipes, stdin, login, typed, choice>>

(* The fewest bytes of its end a read must return for a reply to be over.  *)
LeastEnd == IF choice \in Listing THEN 4 ELSE 2
CutsReply(chunk, left) ==
    IF left = <<>> /\ reply = <<>> THEN Len(chunk) < LeastEnd
    ELSE choice \in Listing /\ chunk[1] = "-"

(* recv returns chunk.                                                     *)
Receives(chunk, room) ==
    \E n \in 1 .. room :
        /\ n <= Len(toClient)
        /\ chunk = Taken(toClient, n)
        /\ toClient' = Left(toClient, n)
        /\ cuts' = IF CutsReply(chunk, toClient') THEN cuts \cup {"reply"} ELSE cuts
        /\ UNCHANGED <<toServer, hungUp, broken>>

Chunks == {Taken(toClient, n) : n \in 1 .. Len(toClient)}

(* LuluClientReadRun: a refusal ends the client.                           *)
AuthRead ==
    /\ phase = "READ_AUTH"
    /\ \E chunk \in Chunks :
          IF chunk[1] = "-"
            THEN Ends("DONE")
            ELSE /\ Receives(chunk, ClientSize)
                 /\ IF HasCRLF(chunk, 1) THEN ToMenu(chunk) ELSE UNCHANGED clientVars

AuthReadFails ==
    /\ phase = "READ_AUTH"
    /\ NothingToRead
    /\ Ends("ERROR")

-------------------------------------------------------------------------------
(* The menu.                                                               *)

(* The cuts of the last command do not matter to the next.                 *)
TransactionRead ==
    /\ phase = "TRANSACTION"
    /\ \E k \in MenuCommand :
          /\ choice' = k
          /\ phase' = IF k \in Asking THEN "READ_LOCAL" ELSE "WRITE_REMOTE"
          /\ buffer' = IF k \in Asking THEN <<>> ELSE Message(k, <<>>)
    /\ shown' = <<>>
    /\ typed' = <<>>
    /\ cuts' = {}
    /\ UNCHANGED <<toServer, toClient, hungUp, broken, pipes, stdin, login>>

(* The end of standard input.                                              *)
StdinEnds ==
    /\ phase \in {"TRANSACTION", "READ_LOCAL"}
    /\ Ends("ERROR")

-------------------------------------------------------------------------------
(* The handlers that commands share.                                       *)

(* A piece of the line: the last byte of each is overwritten by the next,  *)
(* which is meant for the \n and so loses one of every piece before.       *)
Pieces(k, rest) ==
    IF rest = <<>> THEN {line \o <<LF>> : line \in TypedLines[k]} ELSE {rest}

Proceeds(k, line) ==
    /\ phase' = "WRITE_REMOTE"
    /\ buffer' = Message(k, line)
    /\ UNCHANGED shown
    /\ UNCHANGED choice

ReadLocal(k, accepts(_)) ==
    /\ phase = "READ_LOCAL"
    /\ choice = k
    /\ \E line \in Pieces(k, stdin) :
       \E n \in 1 .. Len(line) :
          LET piece == Taken(line, n)
              stored == buffer \o Front(piece)
              bars == pipes + Cardinality({i \in 1 .. n : piece[i] = Bar})
          IN /\ n <= ClientSize - Len(buffer)
             /\ typed' = IF stdin = <<>> THEN Front(line) ELSE typed
             /\ stdin' = Left(line, n)
             /\ \/ /\ n < Len(line)
                   /\ buffer' = stored
                   /\ pipes' = IF k = "SET USER" THEN bars ELSE 0
                   /\ cuts' = cuts \cup {"typing"}
                   /\ UNCHANGED <<phase, choice, shown>>
                \/ /\ n = Len(line)
                   /\ pipes' = 0
                   /\ UNCHANGED cuts
                   /\ IF accepts(bars) THEN Proceeds(k, stored)
                      ELSE /\ phase' = "TRANSACTION"
                           /\ buffer' = <<>>
                           /\ UNCHANGED <<choice, shown>>
    /\ UNCHANGED <<toServer, toClient, hungUp, broken, login>>

(* A ..._WRITE handler: sends Buffer, or waits for the reply once all of   *)
(* it is sent; the arrival hook of the next state resets Buffer.           *)
WriteRemote(k) ==
    /\ phase = "WRITE_REMOTE"
    /\ choice = k
    /\ \/ Sends
       \/ /\ buffer = <<>>
          /\ phase' = "READ_REMOTE"
          /\ UNCHANGED <<channel, choice, buffer, pipes, stdin, login, typed, shown>>

WriteRemoteFails ==
    /\ phase = "WRITE_REMOTE"
    /\ Gone
    /\ buffer # <<>>
    /\ \E next \in {"ERROR", "KILLED"} : Ends(next)

(* A ..._READ handler: over(chunk) ends the reply.                         *)
ReadRemote(k, over(_)) ==
    /\ phase = "READ_REMOTE"
    /\ choice = k
    /\ \E chunk \in Chunks :
          /\ Receives(chunk, ClientSize - Len(buffer))
          /\ IF over(chunk) THEN ToMenu(buffer \o chunk)
             ELSE /\ buffer' = buffer \o chunk
                  /\ UNCHANGED <<phase, choice, pipes, stdin, login, typed, shown>>

(* recv returns 0 also when there is no room in Buffer.                    *)
ReadRemoteFails ==
    /\ phase = "READ_REMOTE"
    /\ NothingToRead \/ (Len(buffer) = ClientSize /\ toClient # <<>>)
    /\ Ends("ERROR")

AnyCount(bars) == TRUE
OneBar(bars) == bars = 1
LineOverShort(chunk) == HasCRLF(Front(chunk), 1)          (* a mutant *)
LineOver(chunk) == HasCRLF(chunk, 1)
ListOver(chunk) == chunk[1] = "-" \/ HasCRLF(chunk, 3)

-------------------------------------------------------------------------------
(* client_timeout.c                                                        *)
GetTimeoutWrite == WriteRemote("GET TIMEOUT")
GetTimeoutRead == ReadRemote("GET TIMEOUT", LineOver)
SetTimeoutReadLocal == ReadLocal("SET TIMEOUT", AnyCount)
SetTimeoutWriteRemote == WriteRemote("SET TIMEOUT")
SetTimeoutReadRemote == ReadRemote("SET TIMEOUT", LineOver)

(* client_buffersize.c                                                     *)
GetBufferSizeWrite == WriteRemote("GET BUFFERSIZE")
GetBufferSizeRead == ReadRemote("GET BUFFERSIZE", LineOver)
SetBufferSizeReadLocal == ReadLocal("SET BUFFERSIZE", AnyCount)
SetBufferSizeWriteRemote == WriteRemote("SET BUFFERSIZE")
SetBufferSizeReadRemote == ReadRemote("SET BUFFERSIZE", LineOver)

(* client_metrics.c                                                        *)
MetricsWriteRemote == WriteRemote("METRICS")
MetricsReadRemote == ReadRemote("METRICS", ListOver)

(* client_users.c                                                          *)
SetUserReadLocal == ReadLocal("SET USER", OneBar)
SetUserWriteRemote == WriteRemote("SET USER")
SetUserReadRemote == ReadRemote("SET USER", LineOver)
DelUserReadLocal == ReadLocal("DEL USER", AnyCount)
DelUserWriteRemote == WriteRemote("DEL USER")
DelUserReadRemote == ReadRemote("DEL USER", LineOver)
ListUserWriteRemote == WriteRemote("LIST USERS")
ListUserRead == ReadRemote("LIST USERS", ListOver)

(* client_goodbye.c: the end of the reply ends the client.                 *)
GoodbyeWriteRemote == WriteRemote("GOODBYE")
GoodbyeRead ==
    /\ phase = "READ_REMOTE"
    /\ choice = "GOODBYE"
    /\ \E chunk \in Chunks :
          IF LineOver(chunk) THEN Ends("DONE")
          ELSE /\ Receives(chunk, ClientSize - Len(buffer))
               /\ buffer' = buffer \o chunk
               /\ UNCHANGED <<phase, choice, pipes, stdin, login, typed, shown>>

-------------------------------------------------------------------------------
ClientInit ==
    /\ phase = "WAITING_CONNECTION"
    /\ choice = "HELLO"
    /\ buffer = <<>>
    /\ pipes = 0
    /\ stdin = <<>>
    /\ login \in Logins
    /\ typed = <<>>
    /\ shown = <<>>

(* What the user decides, besides TransactionRead, and what the sockets do.*)
UserNext ==
    \/ StdinEnds \/ SetTimeoutReadLocal \/ SetBufferSizeReadLocal
    \/ SetUserReadLocal \/ DelUserReadLocal

RemoteNext ==
    \/ Connect \/ ConnectFails \/ AuthWrite \/ AuthWriteFails \/ AuthWritten
    \/ AuthRead \/ AuthReadFails \/ WriteRemoteFails \/ ReadRemoteFails
    \/ GetTimeoutWrite \/ GetTimeoutRead \/ SetTimeoutWriteRemote \/ SetTimeoutReadRemote
    \/ GetBufferSizeWrite \/ GetBufferSizeRead
    \/ SetBufferSizeWriteRemote \/ SetBufferSizeReadRemote
    \/ MetricsWriteRemote \/ MetricsReadRemote
    \/ SetUserWriteRemote \/ SetUserReadRemote \/ DelUserWriteRemote \/ DelUserReadRemote
    \/ ListUserWriteRemote \/ ListUserRead \/ GoodbyeWriteRemote \/ GoodbyeRead
===============================================================================
