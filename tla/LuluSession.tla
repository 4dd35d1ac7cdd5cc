----------------------------- MODULE LuluSession ------------------------------
(***************************************************************************)
(* The server's side of one administration connection: lulu_connection.c,  *)
(* lulu_hello.c, lulu_transaction.c and the replies of lulu_messages.c,    *)
(* with the parsers of LuluParsers.                                        *)
(*                                                                         *)
(* What makes it hard: the parsers are tried one after the other, and each *)
(* is given only the chunk in which the one before it failed; so what is   *)
(* recognised depends on where the stream is cut.  The session keeps what  *)
(* it has read in ReadBuffer until some parser ends, and a full ReadBuffer *)
(* looks like the end of the stream.                                       *)
(***************************************************************************)
EXTENDS LuluChannel

CONSTANTS
    ReadSize,       (* of ReadBuffer (1000 bytes)                          *)
    Accounts,       (* the administrators, as [name, pass]                 *)
    DefaultTimeout, DefaultBufferSize,      (* the settings at the start   *)
    Decimal,        (* sprintf of the settings: a sequence of digits       *)
    MetricsText,    (* what the counters look like in a reply              *)
    UserTexts       (* what a list of users looks like                     *)

(* The administrators are written down in main.c, with names and passwords *)
(* that fit the parser's fields.  A reply is one line: the counters are    *)
(* numbers with | between them, a list of users is their names with |      *)
(* between them, and no name a connection has added holds a line end (one  *)
(* given with -u on the command line is not looked at, and is taken not    *)
(* to).                                                                    *)
NoLineEnd(text) == \A i \in 1 .. Len(text) - 1 : ~ (text[i] = CR /\ text[i + 1] = LF)

ASSUME LuluSessionAssumption ==
    /\ ReadSize \in Nat \ {0}
    /\ Accounts \subseteq [name : Seq(LuluByte), pass : Seq(LuluByte)]
    /\ \A a \in Accounts : Len(a.name) \in 1 .. MaxLong /\ Len(a.pass) \in 1 .. MaxLong
    /\ {DefaultTimeout, DefaultBufferSize} \cup 0 .. MaxValue \subseteq DOMAIN Decimal
    /\ \A v \in DOMAIN Decimal : Decimal[v] \in Seq(Digit)
    /\ \A text \in {MetricsText} \cup UserTexts : text \in Seq(LuluByte) /\ NoLineEnd(text)

VARIABLES
    session,        (* Fsm.CurrentState                                     *)
    parserIndex,    (* ParserIndex                                          *)
    parser,         (* the parser at ParserIndex: those before it failed,   *)
                    (* those behind it have read nothing                    *)
    held,           (* what ReadBuffer holds                                *)
    reply,          (* what WriteBuffer holds                               *)
    loggedIn,       (* ClientHelloSucceeded                                 *)
    timeout,        (* socksMaxTimeout of socks5_timeout.c                  *)
    bufferSize,     (* targetBufferSize of socks5_buffer.c                  *)
    taken           (* the line being answered: what it was taken for       *)

settings == <<timeout, bufferSize>>
sessionVars == <<session, parserIndex, parser, held, reply, loggedIn, settings, taken>>

ReadStates == {"HELLO_READ", "TRANSACTION_READ"}
WriteStates == {"HELLO_WRITE", "TRANSACTION_WRITE"}
OverStates == {"DONE", "ERROR", "KILLED"}
SessionStates == ReadStates \cup WriteStates \cup OverStates

HelloOrder == <<"HELLO", "GOODBYE">>
TransactionOrder == <<"GOODBYE", "SET BUFFERSIZE", "METRICS", "GET BUFFERSIZE",
                      "SET TIMEOUT", "SET USER", "LIST USERS", "DEL USER", "GET TIMEOUT">>
Order == IF session \in {"HELLO_READ", "HELLO_WRITE"} THEN HelloOrder ELSE TransactionOrder
NotRecognised == Len(Order)

(* What a line is taken for: a command with the strings and the number of  *)
(* its parser.                                                             *)
Line(k, name, pass, value) == [command |-> k, name |-> name, pass |-> pass, value |-> value]
NoLine == Line("NONE", <<>>, <<>>, 0)
Unknown == Line("NOT RECOGNISED", <<>>, <<>>, 0)

(* The words of the protocol a command starts with.                        *)
TwoOf(first, second) == Word[first] \o <<Bar>> \o Word[second]
Opening(k) ==
    CASE k = "HELLO"          -> Word["HELLO"]
      [] k = "GOODBYE"        -> Word["GOODBYE"]
      [] k = "SET BUFFERSIZE" -> TwoOf("SET", "BUFFERSIZE")
      [] k = "METRICS"        -> TwoOf("GET", "METRICS")
      [] k = "GET BUFFERSIZE" -> TwoOf("GET", "BUFFERSIZE")
      [] k = "SET TIMEOUT"    -> TwoOf("SET", "TIMEOUT")
      [] k = "SET USER"       -> TwoOf("SET", "USER")
      [] k = "LIST USERS"     -> TwoOf("LIST", "USERS")
      [] k = "DEL USER"       -> TwoOf("DEL", "USER")
      [] k = "GET TIMEOUT"    -> TwoOf("GET", "TIMEOUT")

-------------------------------------------------------------------------------
(* lulu_messages.c: the replies.  The text after the sign is one byte here,*)
(* except where the client reads it.                                       *)
Plus(text) == <<"+">> \o text \o CRLF
Minus == <<"-", "error">> \o CRLF
Ok == Plus(<<"OK">>)

KeepsSettings == UNCHANGED settings

BuildClientHelloResponse(p) ==
    /\ loggedIn' = (\E a \in Accounts : a.name = UName(p) /\ a.pass = Passwd(p))
    /\ reply' = IF loggedIn' THEN Ok ELSE Minus
    /\ KeepsSettings

BuildClientGoodbyeResponse == reply' = Plus(<<"GOODBYE">>) /\ KeepsSettings

BuildClientSetTimeoutResponse(value) ==
    /\ timeout' = value
    /\ reply' = Ok
    /\ UNCHANGED bufferSize

SetAnyBufferSize(value) ==                                (* a mutant *)
    /\ bufferSize' = value
    /\ reply' = IF value = 0 THEN Minus ELSE Ok
    /\ UNCHANGED timeout
BuildClientSetBufferSizeResponse(value) ==
    /\ IF value > 0 /\ value < MaxValue
         THEN bufferSize' = value /\ reply' = Ok
         ELSE reply' = Minus /\ UNCHANGED bufferSize
    /\ UNCHANGED timeout

BuildClientGetTimeoutResponse == reply' = Plus(Decimal[timeout]) /\ KeepsSettings
BuildClientGetBufferSizeResponse == reply' = Plus(Decimal[bufferSize]) /\ KeepsSettings
BuildClientGetMetricsResponse == reply' = Plus(MetricsText) /\ KeepsSettings

(* Which of its replies these give is a matter of Socks5Users.             *)
BuildClientListUsersResponse ==
    reply' \in {Plus(text) : text \in UserTexts} /\ KeepsSettings
BuildClientSetUserResponse == reply' \in {Ok, Minus} /\ KeepsSettings
BuildClientDelUserResponse == reply' \in {Ok, Minus} /\ KeepsSettings
BuildClientNotRecognisedResponse == reply' = Minus /\ KeepsSettings

Response(k, p) ==
    /\ CASE k = "HELLO"          -> BuildClientHelloResponse(p)
         [] k = "GOODBYE"        -> BuildClientGoodbyeResponse
         [] k = "SET BUFFERSIZE" -> BuildClientSetBufferSizeResponse(p.value)
         [] k = "METRICS"        -> BuildClientGetMetricsResponse
         [] k = "GET BUFFERSIZE" -> BuildClientGetBufferSizeResponse
         [] k = "SET TIMEOUT"    -> BuildClientSetTimeoutResponse(p.value)
         [] k = "SET USER"       -> BuildClientSetUserResponse
         [] k = "LIST USERS"     -> BuildClientListUsersResponse
         [] k = "DEL USER"       -> BuildClientDelUserResponse
         [] k = "GET TIMEOUT"    -> BuildClientGetTimeoutResponse
    /\ k # "HELLO" => UNCHANGED loggedIn

-------------------------------------------------------------------------------
(* RunParser and RunTransactionParser, in the loops around them.           *)

After(i, chunk) == Consume(Order[i + 1], IF i = parserIndex THEN parser ELSE LuluReset, chunk)

(* The parser the loop ends at: the first, from ParserIndex on, that does  *)
(* not fail on the chunk.                                                  *)
Reached(chunk) ==
    LET alive == {i \in parserIndex .. Len(Order) - 1 : ~ HasFailed(After(i, chunk))}
    IN IF alive = {} THEN NotRecognised ELSE CHOOSE i \in alive : \A j \in alive : i <= j

Answers(line) ==
    /\ session' = IF session = "HELLO_READ" THEN "HELLO_WRITE" ELSE "TRANSACTION_WRITE"
    /\ taken' = line

Waits == UNCHANGED <<session, reply, loggedIn, settings, taken>>

(* The byte before a chunk of one byte is the last one held; in an empty   *)
(* buffer there is none, and what is in memory there is not a \r.          *)
UnknownHasty(chunk) ==                                    (* a mutant *)
    BuildClientNotRecognisedResponse /\ Answers(Unknown) /\ UNCHANGED loggedIn
UnknownLine(chunk) ==
    IF EndsLine(held \o chunk)
      THEN BuildClientNotRecognisedResponse /\ Answers(Unknown) /\ UNCHANGED loggedIn
      ELSE Waits

HeldOn(ended, chunk) == held \o chunk                     (* a mutant *)
(* The BufferReset of every case but the one of a parser that still reads. *)
HeldAfter(ended, chunk) == IF ended THEN <<>> ELSE held \o chunk

(* The names of the users do not fit in WriteBuffer.                       *)
ListTooLong(ended, i) ==
    /\ ended /\ i # NotRecognised /\ Order[i + 1] = "LIST USERS"
    /\ session' = "ERROR"
    /\ taken' = Line("LIST USERS", <<>>, <<>>, 0)
    /\ UNCHANGED <<reply, loggedIn, settings>>

RunParsers(chunk) ==
    LET i == Reached(chunk)
        p == IF i = NotRecognised THEN LuluReset ELSE After(i, chunk)
        ended == i # NotRecognised => HasFinished(p)
    IN /\ parserIndex' = i
       /\ parser' = p
       /\ held' = HeldAfter(ended, chunk)
       /\ \/ ~ended /\ Waits
          \/ /\ ended /\ i # NotRecognised
             /\ Response(Order[i + 1], p)
             /\ Answers(Line(Order[i + 1],
                             IF Order[i + 1] \in {"HELLO", "SET USER", "DEL USER"}
                             THEN UName(p) ELSE <<>>, p.pass, p.value))
          \/ i = NotRecognised /\ UnknownLine(chunk)
          \/ ListTooLong(ended, i)

-------------------------------------------------------------------------------
(* The handlers.                                                           *)

SessionFails(next) ==
    /\ session' = next
    /\ UNCHANGED <<parserIndex, parser, held, reply, loggedIn, settings, taken>>

(* Bytes that more than one command starts with.                           *)
SharedOpenings ==
    {s \in UNION {Prefixes(Opening(k)) : k \in Command} :
        Cardinality({k \in Command : IsPrefix(s, Opening(k))}) > 1}

(* LuluHelloReadRun, LuluTransactionReadRun.                               *)
SessionRead ==
    /\ session \in ReadStates
    /\ \E n \in 1 .. ReadSize - Len(held) :
          /\ n <= Len(toServer)
          /\ RunParsers(Taken(toServer, n))
          /\ toServer' = Left(toServer, n)
          /\ cuts' = cuts \cup (IF held \o Taken(toServer, n) \in SharedOpenings THEN {"opening"} ELSE {})
                          \cup (IF toServer[n] = CR THEN {"line end"} ELSE {})
    /\ UNCHANGED <<toClient, hungUp, broken>>

(* bytesRead <= 0: an end of stream, an error, or no room in ReadBuffer.   *)
SessionReadFails ==
    /\ session \in ReadStates
    /\ \/ broken
       \/ hungUp /\ toServer = <<>>
       \/ Len(held) = ReadSize /\ toServer # <<>>
    /\ SessionFails("ERROR")
    /\ UNCHANGED channel

(* LuluHelloWriteRun, LuluTransactionWriteRun with something to send.      *)
SessionWrite ==
    /\ session \in WriteStates
    /\ ~broken
    /\ \E n \in Portions(Len(reply)) :
          /\ toClient' = IF hungUp THEN toClient ELSE toClient \o Taken(reply, n)
          /\ reply' = Left(reply, n)
    /\ UNCHANGED <<toServer, hungUp, broken, cuts>>
    /\ UNCHANGED <<session, parserIndex, parser, held, loggedIn, settings, taken>>

SessionWriteFails ==
    /\ session \in WriteStates
    /\ broken \/ hungUp
    /\ reply # <<>>
    /\ \E next \in {"ERROR", "KILLED"} : SessionFails(next)
    /\ UNCHANGED channel

(* With all of it sent.  The departure and arrival hooks reset the parsers *)
(* and WriteBuffer; LuluHelloReadInit also ReadBuffer.                     *)
FreshKeeping(next) ==                                     (* a mutant *)
    /\ session' = next
    /\ parserIndex' = 0
    /\ UNCHANGED parser
Fresh(next) ==
    /\ session' = next
    /\ parserIndex' = 0
    /\ parser' = LuluReset

HelloWrittenOpen ==                                       (* a mutant *)
    /\ session = "HELLO_WRITE"
    /\ reply = <<>>
    /\ CASE parserIndex = NotRecognised ->
                Fresh("HELLO_READ") /\ held' = <<>> /\ loggedIn' = FALSE
         [] parserIndex = 1 -> Fresh("DONE") /\ UNCHANGED <<held, loggedIn>>
         [] OTHER -> Fresh("TRANSACTION_READ") /\ UNCHANGED <<held, loggedIn>>
    /\ taken' = NoLine
    /\ UNCHANGED <<channel, reply, settings>>
HelloWritten ==
    /\ session = "HELLO_WRITE"
    /\ reply = <<>>
    /\ CASE parserIndex = NotRecognised \/ (parserIndex = 0 /\ ~loggedIn) ->
                Fresh("HELLO_READ") /\ held' = <<>> /\ loggedIn' = FALSE
         [] parserIndex = 1 -> Fresh("DONE") /\ UNCHANGED <<held, loggedIn>>
         [] OTHER -> Fresh("TRANSACTION_READ") /\ UNCHANGED <<held, loggedIn>>
    /\ taken' = NoLine
    /\ UNCHANGED <<channel, reply, settings>>

TransactionWritten ==
    /\ session = "TRANSACTION_WRITE"
    /\ reply = <<>>
    /\ IF parserIndex = 0 THEN Fresh("DONE") ELSE Fresh("TRANSACTION_READ")
    /\ taken' = NoLine
    /\ UNCHANGED <<channel, held, reply, loggedIn, settings>>

SessionInit ==
    /\ session = "HELLO_READ"
    /\ parserIndex = 0
    /\ parser = LuluReset
    /\ held = <<>>
    /\ reply = <<>>
    /\ loggedIn = FALSE
    /\ timeout = DefaultTimeout
    /\ bufferSize = DefaultBufferSize
    /\ taken = NoLine

SessionNext ==
    SessionRead \/ SessionReadFails \/ SessionWrite \/ SessionWriteFails
        \/ HelloWritten \/ TransactionWritten
===============================================================================
