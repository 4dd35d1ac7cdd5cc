----------------------------- MODULE LuluParsers ------------------------------
(***************************************************************************)
(* lib/parsers/lulu: the ten parsers of the administration protocol.  Each *)
(* is fed one byte at a time and remembers how far it got, so a command    *)
(* may arrive in any number of pieces; it ends Finished or Invalid and     *)
(* then takes nothing more.                                                *)
(*                                                                         *)
(* A parser is a record with the fields of its struct.  The ten files copy *)
(* one another, with differences that matter in the length checks and in   *)
(* the treatment of a \r that no \n follows; what they share is one        *)
(* operator here, what differs is in each parser's own.                    *)
(***************************************************************************)
EXTENDS Integers, Sequences

CONSTANTS
    Word,       (* the bytes of each word of the protocol                  *)
    Letter,     (* the bytes a name or a password is made of               *)
    DigitValue, (* the values of the bytes that are digits                 *)
    MaxValue,   (* 10000000000, the largest buffer size or timeout         *)
    MaxLong     (* MAXLONG: the length of the arrays of name and password  *)

Words == {"HELLO", "GOODBYE", "GET", "SET", "LIST", "DEL", "USER", "USERS",
          "METRICS", "BUFFERSIZE", "TIMEOUT"}

Bar == "|"
CR == "CR"
LF == "LF"

ASSUME LuluParsersAssumption ==
    /\ DOMAIN Word = Words
    /\ \A w \in Words : Word[w] \in Seq(Letter) \ {<<>>}
    /\ {Bar, CR, LF} \cap (Letter \cup DOMAIN DigitValue) = {}
    /\ \A d \in DOMAIN DigitValue : DigitValue[d] \in 0 .. 9
    /\ MaxValue \in Nat
    /\ MaxLong \in Nat \ {0}

Digit == DOMAIN DigitValue
LuluByte == Letter \cup Digit \cup {Bar, CR, LF}

(* The structs.  at is Index inside a word; inside a name or a password    *)
(* Index is the length of what is stored there.  The arrays have room for  *)
(* MaxLong bytes, and the checks of the code let one more in: that byte    *)
(* goes into what is behind the array, where it does no harm (Store).      *)
(* Overrun stands for a parser that wrote further than that: nothing is    *)
(* said of what it does next.                                              *)
Parser == [state : {"First", "Second", "Value", "Name", "Password", "CRLF",
                    "Finished", "Invalid", "Overrun"},
           at    : Nat,
           prev  : {"First", "Name", "Password"},
           value : Nat,
           name  : Seq(LuluByte \ {Bar}),
           pass  : Seq(LuluByte \ {Bar})]

(* The ten ...ParserReset: all start at their first word.                  *)
LuluReset == [state |-> "First", at |-> 0, prev |-> "First", value |-> 0,
              name |-> <<>>, pass |-> <<>>]

HasFinished(p) == p.state \in {"Finished", "Invalid"}
HasFailed(p) == p.state = "Invalid"

To(p, state) == [p EXCEPT !.state = state]
Invalid(p) == To(p, "Invalid")

-------------------------------------------------------------------------------
(* Commands without arguments, and numbers.                                *)

(* The traverseWord... functions: the byte is the next one of the word, or *)
(* the one that ends a word that is complete.                              *)
Traverse(p, c, word, end, next) ==
    IF p.at = Len(Word[word])
      THEN IF c = end THEN [p EXCEPT !.state = next, !.at = 0] ELSE Invalid(p)
      ELSE IF c = Word[word][p.at + 1] THEN [p EXCEPT !.at = @ + 1] ELSE Invalid(p)

(* The \n of a parser that allows nothing else.                            *)
LineFeed(p, c) == To(p, IF c = LF THEN "Finished" ELSE "Invalid")

(* first|second\r\n *)
TwoWords(p, c, first, second) ==
    CASE p.state = "First"  -> Traverse(p, c, first, Bar, "Second")
      [] p.state = "Second" -> Traverse(p, c, second, CR, "CRLF")
      [] p.state = "CRLF"   -> LineFeed(p, c)
      [] OTHER              -> p

GetBufferSizeFeed(p, c) == TwoWords(p, c, "GET", "BUFFERSIZE")
GetTimeoutFeed(p, c) == TwoWords(p, c, "GET", "TIMEOUT")
MetricsFeed(p, c) == TwoWords(p, c, "GET", "METRICS")
ListUsersFeed(p, c) == TwoWords(p, c, "LIST", "USERS")

(* GOODBYE\r\n.  Its array holds no \0: strlen goes on into Index, which   *)
(* follows it, and the comparison with strlen - 1 comes out at the seventh *)
(* letter because Index is 7 there and 0 follows.                          *)
GoodbyeFeed(p, c) ==
    CASE p.state = "First" -> Traverse(p, c, "GOODBYE", CR, "CRLF")
      [] p.state = "CRLF"  -> LineFeed(p, c)
      [] OTHER             -> p

(* first|second|digits\r\n: a number of no digits at all is 0.             *)
AnyValue(p, c) == [p EXCEPT !.value = @ * 10 + DigitValue[c]]                (* a mutant *)
NextDigit(p, c) ==
    LET value == p.value * 10 + DigitValue[c]
    IN [p EXCEPT !.value = value, !.state = IF value > MaxValue THEN "Invalid" ELSE @]

SetValue(p, c, second) ==
    CASE p.state = "First"  -> Traverse(p, c, "SET", Bar, "Second")
      [] p.state = "Second" -> Traverse(p, c, second, Bar, "Value")
      [] p.state = "Value"  -> IF c \in Digit THEN NextDigit(p, c)
                               ELSE To(p, IF c = CR THEN "CRLF" ELSE "Invalid")
      [] p.state = "CRLF"   -> LineFeed(p, c)
      [] OTHER              -> p

SetBufferSizeFeed(p, c) == SetValue(p, c, "BUFFERSIZE")
TimeoutFeed(p, c) == SetValue(p, c, "TIMEOUT")

-------------------------------------------------------------------------------
(* Names and passwords.  Word points at the one being read: field.         *)

Stored(p, field) == IF field = "Name" THEN p.name ELSE p.pass

(* p->Word[p->Index++] = c for the bytes of s.  The byte at MaxLong is     *)
(* behind the array: of a name it is the first of the password (see UName),*)
(* of the password of HELLO a letter of the word HELLO that has been read, *)
(* of that of SET USER and of the name of DEL USER padding, for the Index  *)
(* that follows is aligned.  More than one byte too many is undefined.     *)
Store(p, field, s) ==
    LET stored == Stored(p, field) \o s
    IN IF Len(stored) > MaxLong + 1 THEN To(p, "Overrun")
       ELSE IF field = "Name" THEN [p EXCEPT !.name = stored]
       ELSE [p EXCEPT !.pass = stored]

(* The check of the length, which is off by one: it fails a byte only when *)
(* the array is full and a byte behind it is.                              *)
FullLate(p, field) == Len(Stored(p, field)) = MaxLong + 2 (* a mutant *)
Full(p, field) == Len(Stored(p, field)) = MaxLong + 1

(* A byte of a name or password, \r and | apart.                           *)
Content(p, c, field) == IF Full(p, field) THEN Invalid(p) ELSE Store(p, field, <<c>>)

Return(p, field) == [p EXCEPT !.state = "CRLF", !.prev = field]

(* Two fields with a bar between them, as HELLO and SET|USER end.          *)
NameOrPassword(p, c, field) ==
    CASE c = Bar -> IF field = "Name" /\ p.name # <<>> THEN To(p, "Password")
                    ELSE Invalid(p)
      [] c = CR  -> Return(p, field)
      [] OTHER   -> Content(p, c, field)

(* \r\n ends a password that is not empty.                                 *)
EndOfLine(p) == IF p.prev = "Password" /\ p.pass # <<>> THEN To(p, "Finished")
                ELSE Invalid(p)

(* \r|: the \r was the last byte of the name.                              *)
BarAfterReturn(p) ==
    IF p.prev = "Name" /\ ~ Full(p, "Name") THEN To(Store(p, "Name", <<CR>>), "Password")
    ELSE Invalid(p)

AfterReturnNoRepeat(p, c, full) ==                               (* a mutant *)
    CASE c = LF  -> EndOfLine(p)
      [] c = CR  -> p
      [] c = Bar -> BarAfterReturn(p)
      [] OTHER   -> IF full THEN Invalid(p)
                    ELSE Store(To(p, p.prev), p.prev, <<CR, c>>)
(* The byte after a \r.  A second \r makes the first one content; another  *)
(* byte makes both content, two bytes for one check of the length (full).  *)
AfterReturn(p, c, full) ==
    CASE c = LF  -> EndOfLine(p)
      [] c = CR  -> IF Full(p, p.prev) THEN Invalid(p) ELSE Store(p, p.prev, <<CR>>)
      [] c = Bar -> BarAfterReturn(p)
      [] OTHER   -> IF full THEN Invalid(p)
                    ELSE Store(To(p, p.prev), p.prev, <<CR, c>>)

(* HELLO|name|password\r\n *)
HelloFeed(p, c) ==
    CASE p.state = "First" -> Traverse(p, c, "HELLO", Bar, "Name")
      [] p.state \in {"Name", "Password"} -> NameOrPassword(p, c, p.state)
      [] p.state = "CRLF"  -> AfterReturn(p, c, Len(Stored(p, p.prev)) = MaxLong)
      [] OTHER             -> p

(* SET|USER|name|password\r\n *)
SetUserFeed(p, c) ==
    CASE p.state = "First"  -> Traverse(p, c, "SET", Bar, "Second")
      [] p.state = "Second" -> Traverse(p, c, "USER", Bar, "Name")
      [] p.state \in {"Name", "Password"} -> NameOrPassword(p, c, p.state)
      [] p.state = "CRLF"   -> AfterReturn(p, c, Full(p, p.prev))
      [] OTHER              -> p

(* DEL|USER|name\r\n *)
DelUserFeed(p, c) ==
    CASE p.state = "First"  -> Traverse(p, c, "DEL", Bar, "Second")
      [] p.state = "Second" -> Traverse(p, c, "USER", Bar, "Name")
      [] p.state = "Name"   -> CASE c = Bar -> Invalid(p)
                                 [] c = CR  -> Return(p, "Name")
                                 [] OTHER   -> Content(p, c, "Name")
      [] p.state = "CRLF"   ->
            CASE c = LF  -> To(p, IF p.name = <<>> THEN "Invalid" ELSE "Finished")
              [] c = Bar -> Invalid(p)
              [] c = CR  -> IF Full(p, "Name") THEN Invalid(p) ELSE Store(p, "Name", <<CR>>)
              [] OTHER   -> IF Len(p.name) = MaxLong THEN Invalid(p)
                            ELSE Store(To(p, "Name"), "Name", <<CR, c>>)
      [] OTHER              -> p

-------------------------------------------------------------------------------
(* The strings a handler reads out of UName and Passwd: they end at the    *)
(* first \0.  A name of MaxLong bytes or more leaves none before Passwd,   *)
(* which follows UName and is written after it; a password of HELLO as long*)
(* leaves none before the word HELLO, which follows Passwd.                *)
Passwd(p) ==
    IF Len(p.pass) < MaxLong THEN p.pass
    ELSE p.pass \o SubSeq(Word["HELLO"], Len(p.pass) - MaxLong + 1, Len(Word["HELLO"]))
UName(p) ==
    IF Len(p.name) < MaxLong THEN p.name
    ELSE LET spilt == SubSeq(p.name, MaxLong + 1, Len(p.name))
         IN SubSeq(p.name, 1, MaxLong) \o p.pass
            \o SubSeq(spilt, Len(p.pass) + 1, Len(spilt))

-------------------------------------------------------------------------------
(* The parsers by the name of their command.                               *)
Command == {"HELLO", "GOODBYE", "SET BUFFERSIZE", "METRICS", "GET BUFFERSIZE",
            "SET TIMEOUT", "SET USER", "LIST USERS", "DEL USER", "GET TIMEOUT"}

Feed(command, p, c) ==
    CASE command = "HELLO"          -> HelloFeed(p, c)
      [] command = "GOODBYE"        -> GoodbyeFeed(p, c)
      [] command = "SET BUFFERSIZE" -> SetBufferSizeFeed(p, c)
      [] command = "METRICS"        -> MetricsFeed(p, c)
      [] command = "GET BUFFERSIZE" -> GetBufferSizeFeed(p, c)
      [] command = "SET TIMEOUT"    -> TimeoutFeed(p, c)
      [] command = "SET USER"       -> SetUserFeed(p, c)
      [] command = "LIST USERS"     -> ListUsersFeed(p, c)
      [] command = "DEL USER"       -> DelUserFeed(p, c)
      [] command = "GET TIMEOUT"    -> GetTimeoutFeed(p, c)

(* The ten ...ParserConsume: the bytes of a chunk up to the one that ends  *)
(* the parser.                                                             *)
Consume(command, p, chunk) ==
    LET fed[i \in 0 .. Len(chunk)] ==
            IF i = 0 THEN p
            ELSE LET before == fed[i - 1]
                 IN IF HasFinished(before) THEN before ELSE Feed(command, before, chunk[i])
    IN fed[Len(chunk)]
===============================================================================
