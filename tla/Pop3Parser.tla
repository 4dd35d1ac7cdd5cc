------------------------------ MODULE Pop3Parser ------------------------------
(***************************************************************************)
(* pop3_auth_parser.c and socks5_password_dissector.c: the parser that     *)
(* looks for USER and PASS lines in what a client sends to port 110.  It   *)
(* never ends by itself: at the end of every chunk the dissector asks      *)
(* whether a password is complete, reports it with the user seen so far,   *)
(* and starts over, wherever in a line that happens to be.                 *)
(*                                                                         *)
(* What User and Password point to is allocated in steps of 100 bytes;     *)
(* only its contents are modelled, and None for the null pointer.          *)
(***************************************************************************)
EXTENDS Integers, Sequences

CONSTANTS
    Pop3Byte,       (* the bytes a client may send                         *)
    userCommand,    (* the bytes of user, in lower case                    *)
    passCommand     (* the bytes of pass                                   *)

None == [set |-> FALSE, text |-> <<>>]
Some(text) == [set |-> TRUE, text |-> text]

commandLen == Len(userCommand)
Space == "SP"
Return13 == "CR"
Newline == "LF"

ASSUME Pop3ParserAssumption ==
    /\ {Space, Return13, Newline} \subseteq Pop3Byte
    /\ userCommand \in Seq(Pop3Byte) /\ passCommand \in Seq(Pop3Byte)
    /\ Len(passCommand) = commandLen /\ commandLen > 0
    /\ userCommand[1] # passCommand[1]
    /\ \A i \in 1 .. commandLen : /\ userCommand[i] \notin {Return13, Newline}
                                 /\ passCommand[i] \notin {Return13, Newline}

ResetPop3AuthParser ==
    [State |-> "INITIAL_STATE", Index |-> 0, User |-> None, Password |-> None,
     IsPasswordComplete |-> FALSE]

(* Behind the last byte of a command is its \0, which is no byte of a line.*)
IsCommandByte(command, i, c) == i < commandLen /\ command[i + 1] = c

(* A new line starts after a newline; after anything else the rest of the  *)
(* line is skipped.                                                        *)
LineBroken(p, c) ==
    [p EXCEPT !.State = IF c = Newline THEN "INITIAL_STATE" ELSE "UNKNOWN_COMMAND"]

FirstByte(p, c) ==
    [p EXCEPT !.Index = @ + 1,
              !.State = IF IsCommandByte(userCommand, p.Index, c) THEN "USER_COMMAND"
                        ELSE IF IsCommandByte(passCommand, p.Index, c) THEN "PASS_COMMAND"
                        ELSE "UNKNOWN_COMMAND"]

UserCommand(p, c) ==
    IF p.Index = commandLen /\ c = Space
      THEN [p EXCEPT !.Index = 0, !.State = "USER_CONTENT", !.User = None]
    ELSE IF IsCommandByte(userCommand, p.Index, c) THEN [p EXCEPT !.Index = @ + 1]
    ELSE LineBroken([p EXCEPT !.Index = 0], c)

UserContent(p, c) ==
    LET q == IF p.User.set THEN p ELSE [p EXCEPT !.User = Some(<<>>)]
    IN IF c \in {Return13, Newline} THEN LineBroken(q, c)
       ELSE [q EXCEPT !.User.text = Append(@, c)]

PassCommandKeeping(p, c) ==                               (* a mutant *)
    IF p.Index = commandLen /\ c = Space
      THEN [p EXCEPT !.Index = 0, !.State = "PASS_CONTENT"]
    ELSE IF IsCommandByte(passCommand, p.Index, c) THEN [p EXCEPT !.Index = @ + 1]
    ELSE LineBroken([p EXCEPT !.Index = 0], c)
(* A further PASS line forgets the password of the one before.             *)
PassCommand(p, c) ==
    LET q == [p EXCEPT !.IsPasswordComplete = FALSE]
    IN IF p.Index = commandLen /\ c = Space
         THEN [q EXCEPT !.Index = 0, !.State = "PASS_CONTENT", !.Password = None]
       ELSE IF IsCommandByte(passCommand, p.Index, c) THEN [q EXCEPT !.Index = @ + 1]
       ELSE LineBroken([q EXCEPT !.Index = 0], c)

PassContent(p, c) ==
    LET q == IF p.Password.set THEN p ELSE [p EXCEPT !.Password = Some(<<>>)]
    IN IF c \in {Return13, Newline}
         THEN LineBroken([q EXCEPT !.IsPasswordComplete = TRUE], c)
       ELSE [q EXCEPT !.Password.text = Append(@, c)]

UnknownCommand(p, c) ==
    IF c = Newline THEN [p EXCEPT !.Index = 0, !.State = "INITIAL_STATE"] ELSE p

FeedPop3AuthParser(p, c) ==
    CASE p.State = "INITIAL_STATE"   -> FirstByte(p, c)
      [] p.State = "USER_COMMAND"    -> UserCommand(p, c)
      [] p.State = "USER_CONTENT"    -> UserContent(p, c)
      [] p.State = "PASS_COMMAND"    -> PassCommand(p, c)
      [] p.State = "PASS_CONTENT"    -> PassContent(p, c)
      [] p.State = "UNKNOWN_COMMAND" -> UnknownCommand(p, c)

(* ScanForPOP3Passwords at the end of a chunk, and its caller: a complete  *)
(* password is reported, and the parser reset.                             *)
ScanForPOP3Passwords(p) ==
    IF p.IsPasswordComplete
      THEN [parser |-> ResetPop3AuthParser, found |-> {<<p.User, p.Password>>}]
      ELSE [parser |-> p, found |-> {}]
===============================================================================
