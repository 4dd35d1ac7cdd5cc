---------------------------- MODULE ParserStreams -----------------------------
(***************************************************************************)
(* Every byte stream a parser may be given, one byte at a time: the ten    *)
(* parsers of the administration protocol side by side on one stream, the  *)
(* three of SOCKS5, and the POP3 dissector, whose stream is cut in chunks. *)
(*                                                                         *)
(* What a stream means is stated again below, as a grammar: the messages   *)
(* as whole sequences, with no automaton in them.                          *)
(***************************************************************************)
EXTENDS LuluParsers, Socks5Parsers, Pop3Parser

CONSTANTS
    NameByte,   (* the bytes tried in names and passwords                  *)
    Pop3Lines,  (* the lines a POP3 client sends                           *)
    MaxInput    (* bound: the length of a stream of each kind              *)

Kinds == {"lulu", "hello", "auth", "request", "pop3"}

ASSUME ParserStreamsAssumption ==
    /\ NameByte \subseteq Letter
    /\ MaxInput \in [Kinds -> Nat]

(* What a POP3 client sends: lines that end with their only \r and their   *)
(* only \n.  In none of them a command stands behind the beginning; else   *)
(* a parser that was reset inside that line would take it for one.         *)
ASSUME Pop3LinesAssumption ==
    \A line \in Pop3Lines :
        /\ line \in Seq(Pop3Byte) /\ Len(line) >= 2
        /\ \A i \in 1 .. Len(line) : /\ line[i] = Return13 <=> i = Len(line) - 1
                                     /\ line[i] = Newline <=> i = Len(line)
        /\ \A command \in {userCommand, passCommand}, i \in 2 .. Len(line) - commandLen :
             SubSeq(line, i, i + commandLen) # Append(command, Space)

VARIABLES
    kind,       (* the family of parsers on the stream                     *)
    input,      (* the bytes fed so far                                    *)
    parser,     (* the parser; for "lulu" one for each command             *)
    found       (* what the dissector reports, at the end of a chunk        *)

vars == <<kind, input, parser, found>>

InitialParser ==
    [lulu |-> [command \in Command |-> LuluReset], hello |-> HelloParserReset,
     auth |-> AuthParserReset, request |-> RequestParserReset,
     pop3 |-> ResetPop3AuthParser]

Init ==
    /\ kind \in Kinds
    /\ parser = InitialParser[kind]
    /\ input = <<>>
    /\ found = {}

Fed(what, c, next) ==
    /\ kind = what
    /\ Len(input) < MaxInput[what]
    /\ input' = Append(input, c)
    /\ parser' = next
    /\ found' = {}
    /\ UNCHANGED kind

(* The commands whose parser still reads, and those that are in a word.    *)
Reading == {k \in Command : parser[k].state \notin {"Finished", "Invalid", "Overrun"}}
InWord == {k \in Reading : parser[k].state \in {"First", "Second"}}

FeedLulu(c) ==
    /\ kind = "lulu"
    /\ Reading # {}
    /\ InWord # {} \/ c \in NameByte \cup Digit \cup {Bar, CR, LF}
    /\ Fed("lulu", c, [k \in Command |-> IF k \in Reading THEN Feed(k, parser[k], c)
                                         ELSE parser[k]])

FeedHello(c) ==
    kind = "hello" /\ ~ Socks5Finished(parser) /\ Fed("hello", c, HelloParserFeed(parser, c))
FeedAuth(c) ==
    kind = "auth" /\ ~ Socks5Finished(parser) /\ Fed("auth", c, AuthParserFeed(parser, c))
FeedRequest(c) ==
    kind = "request" /\ ~ Socks5Finished(parser)
    /\ Fed("request", c, RequestParserFeed(parser, c))

Last(s) == s[Len(s)]
NewlinesIn(s) == {i \in 1 .. Len(s) : s[i] = Newline}
LineSoFar == SubSeq(input, 1 + (IF NewlinesIn(input) = {} THEN 0
                                ELSE CHOOSE i \in NewlinesIn(input) :
                                         \A j \in NewlinesIn(input) : j <= i), Len(input))

(* The next byte of the line, or the first one of another.                 *)
NextInLine == {l[Len(LineSoFar) + 1] : l \in {m \in Pop3Lines :
                   Len(m) > Len(LineSoFar) /\ SubSeq(m, 1, Len(LineSoFar)) = LineSoFar}}

FeedPop3 ==
    /\ kind = "pop3"
    /\ \E c \in NextInLine : Fed("pop3", c, FeedPop3AuthParser(parser, c))

(* The chunk ends here: recv gave no more than this.                       *)
EndChunk ==
    LET scan == ScanForPOP3Passwords(parser)
    IN /\ kind = "pop3"
       /\ found' = scan.found
       /\ parser' = scan.parser
       /\ UNCHANGED <<kind, input>>

Next ==
    \/ \E c \in LuluByte : FeedLulu(c)
    \/ \E c \in Octet : FeedHello(c) \/ FeedAuth(c) \/ FeedRequest(c)
    \/ FeedPop3
    \/ EndChunk

Spec == Init /\ [][Next]_vars

-------------------------------------------------------------------------------
(* The grammar.                                                            *)
Prefixes == {SubSeq(input, 1, n) : n \in 0 .. Len(input)}
EndsLine(s) == Len(s) >= 2 /\ SubSeq(s, Len(s) - 1, Len(s)) = <<CR, LF>>

OpeningWords == [k \in Command |->
    CASE k = "HELLO"          -> <<"HELLO">>
      [] k = "GOODBYE"        -> <<"GOODBYE">>
      [] k = "SET BUFFERSIZE" -> <<"SET", "BUFFERSIZE">>
      [] k = "METRICS"        -> <<"GET", "METRICS">>
      [] k = "GET BUFFERSIZE" -> <<"GET", "BUFFERSIZE">>
      [] k = "SET TIMEOUT"    -> <<"SET", "TIMEOUT">>
      [] k = "SET USER"       -> <<"SET", "USER">>
      [] k = "LIST USERS"     -> <<"LIST", "USERS">>
      [] k = "DEL USER"       -> <<"DEL", "USER">>
      [] k = "GET TIMEOUT"    -> <<"GET", "TIMEOUT">>]
Opening(k) == IF Len(OpeningWords[k]) = 1 THEN Word[OpeningWords[k][1]]
           ELSE Word[OpeningWords[k][1]] \o <<Bar>> \o Word[OpeningWords[k][2]]

(* The line s, up to its end, as head|argument|...: the arguments, if s is *)
(* a line of command k with n of them.                                     *)
Rest(k, s) == SubSeq(s, Len(Opening(k)) + 1, Len(s) - 2)
Opens(k, s) == Len(s) >= Len(Opening(k)) + 2 /\ SubSeq(s, 1, Len(Opening(k))) = Opening(k)
Bars(s) == {i \in 1 .. Len(s) : s[i] = Bar}
IsPlain(k, s) == EndsLine(s) /\ Opens(k, s) /\ Rest(k, s) = <<>>

Text(s) == s # <<>> /\ Bars(s) = {} /\ \A i \in 1 .. Len(s) : ~ EndsLine(SubSeq(s, 1, i))

(* <<name>> or <<name, password>>: the arguments of the line, if it is one.*)
Arguments(k, s) ==
    LET rest == Rest(k, s)
        splits == IF k = "DEL USER" THEN {} ELSE Bars(rest) \ {1}
    IN IF ~ EndsLine(s) \/ ~ Opens(k, s) \/ rest = <<>> \/ rest[1] # Bar THEN {}
       ELSE {a \in (IF k = "DEL USER" THEN {<<SubSeq(rest, 2, Len(rest))>>} ELSE {})
                   \cup {<<SubSeq(rest, 2, i - 1), SubSeq(rest, i + 1, Len(rest))>> :
                            i \in splits} :
                \A j \in 1 .. Len(a) : Text(a[j])}

Numeral(s) == s # <<>> /\ s[1] = Bar /\ \A i \in 2 .. Len(s) : s[i] \in Digit
NumberOf(s) ==
    LET n[i \in 0 .. Len(s) - 1] == IF i = 0 THEN 0 ELSE n[i - 1] * 10 + DigitValue[s[i + 1]]
    IN n[Len(s) - 1]

Plain == {"GOODBYE", "METRICS", "GET BUFFERSIZE", "LIST USERS", "GET TIMEOUT"}
Numbered == {"SET BUFFERSIZE", "SET TIMEOUT"}
Named == {"HELLO", "SET USER", "DEL USER"}

-------------------------------------------------------------------------------
(* lib/parsers/lulu: a command without arguments is recognised exactly     *)
(* when its line was sent, and one that sets a number exactly when it is   *)
(* at most MaxValue, with the number that was sent; no digits count as 0.  *)
PlainCommandsExact ==
    kind = "lulu" =>
        /\ \A k \in Plain :
             parser[k].state = "Finished" <=> \E s \in Prefixes : IsPlain(k, s)
        /\ \A k \in Numbered :
             parser[k].state = "Finished" <=>
                \E s \in Prefixes : /\ EndsLine(s) /\ Opens(k, s) /\ Numeral(Rest(k, s))
                                    /\ NumberOf(Rest(k, s)) <= MaxValue
                                    /\ parser[k].value = NumberOf(Rest(k, s))

(* Names and passwords, in which a \r may stand anywhere: with both of     *)
(* them shorter than MAXLONG the command is recognised exactly when its    *)
(* line was sent, and the handler reads the name and the password as sent. *)
NamesAsSent ==
    kind = "lulu" =>
        \A k \in Named :
            LET sent == {a \in UNION {Arguments(k, s) : s \in Prefixes} :
                            \A j \in 1 .. Len(a) : Len(a[j]) < MaxLong}
                p == parser[k]
                short == Len(p.name) < MaxLong /\ Len(p.pass) < MaxLong
            IN /\ sent # {} => p.state = "Finished"
               /\ p.state = "Finished" /\ short =>
                     sent = {IF k = "DEL USER" THEN <<UName(p)>> ELSE <<UName(p), p.pass>>}

(* The length checks differ from file to file and between a plain byte and *)
(* one after a \r, and all let a name or password grow to MAXLONG + 1      *)
(* bytes, one more than its array has (FieldsFit).  They keep it at that   *)
(* one byte, which does no harm (Store), as long as the stream has no \r   *)
(* but at the ends of lines.                                               *)
AtMostOneByteOver ==
    kind = "lulu" =>
        \A k \in Command : parser[k].state = "Overrun" =>
            \E i \in 1 .. Len(input) - 1 : input[i] = CR /\ input[i + 1] # LF

(* "Username can have max 255 characters" (client_hello_parser.c:78), "can *)
(* be up to 255 characters long" (client_set_user_parser.c:90): what a     *)
(* finished parser hands over is no longer than the array it is in.        *)
FieldsFit ==
    kind = "lulu" =>
        \A k \in Named : parser[k].state = "Finished" =>
            Len(parser[k].name) <= MaxLong /\ Len(parser[k].pass) <= MaxLong

(* lib/parsers/socks5: every parser ends with the last byte of its message *)
(* and not before, and has the fields as they were sent; so the handshake  *)
(* neither waits for more than the client has to send nor cuts it short.   *)
IsHello(s) == Len(s) >= 3 /\ s[1] = Version /\ Len(s) = 2 + s[2]
IsAuth(s) ==
    /\ Len(s) >= 5 /\ s[1] = NegotiationVersion /\ s[2] > 0
    /\ Len(s) >= 3 + s[2] /\ s[3 + s[2]] > 0 /\ Len(s) = 3 + s[2] + s[3 + s[2]]
AddressAt(s) ==     (* first and last position of the address *)
    CASE s[4] = IPv4 -> <<5, 4 + V4Length>>
      [] s[4] = IPv6 -> <<5, 4 + V6Length>>
      [] OTHER       -> <<6, IF Len(s) < 5 THEN 5 ELSE 5 + s[5]>>
IsRequest(s) ==
    /\ Len(s) >= 5 /\ s[1] = Version /\ s[3] = 0 /\ s[4] \in {IPv4, IPv6, FQDN}
    /\ AddressAt(s)[2] >= AddressAt(s)[1] /\ Len(s) = AddressAt(s)[2] + 2

MessagesExact ==
    /\ kind = "hello" =>
        /\ parser.state = "Done" <=> IsHello(input)
        /\ parser.state = "Done" => parser.methods = SubSeq(input, 3, Len(input))
    /\ kind = "auth" =>
        /\ parser.state = "Done" <=> IsAuth(input)
        /\ parser.state = "Done" => /\ parser.uname = SubSeq(input, 3, 2 + input[2])
                                    /\ Len(parser.passwd) = parser.plen
    /\ kind = "request" =>
        /\ parser.state = "Done" <=> IsRequest(input)
        /\ parser.state = "Done" =>
            /\ parser.address = SubSeq(input, AddressAt(input)[1], AddressAt(input)[2])
            /\ parser.port = SubSeq(input, Len(input) - 1, Len(input))

(* The lines of a POP3 stream: line i starts behind newline i - 1.         *)
LineStarts == {1} \cup {i + 1 : i \in NewlinesIn(input)}
ReturnsFrom(i) == {j \in i .. Len(input) : input[j] = Return13}
ArgumentOf(command, i) ==
    LET from == i + commandLen + 1
        ends == ReturnsFrom(from)
    IN IF ends # {} /\ SubSeq(input, i, from - 1) = Append(command, Space)
         THEN {SubSeq(input, from, (CHOOSE j \in ends : \A e \in ends : j <= e) - 1)}
       ELSE {}

(* pop3_auth_parser.c with the dissector around it, which resets it in the *)
(* middle of lines and so misses some: what is reported is the argument of *)
(* a PASS line; and when the chunk ends with that line, the user with it,  *)
(* if any, is the one of the last USER line before it.                     *)
CredentialsBelongTogether ==
    \A pair \in found :
        LET user == pair[1]
            pass == pair[2].text
            lines == {i \in LineStarts : pass \in ArgumentOf(passCommand, i)}
            endsWith(i) == Len(input) <= i + commandLen + Len(pass) + 2
        IN /\ lines # {}
           /\ user.set => \A i \in lines : endsWith(i) =>
                 \E u \in LineStarts :
                     /\ u < i /\ user.text \in ArgumentOf(userCommand, u)
                     /\ \A v \in LineStarts :
                            u < v /\ v < i => ArgumentOf(userCommand, v) = {}
===============================================================================
