--------------------------- MODULE MCParserStreams ----------------------------
(***************************************************************************)
(* Words cut down to two or three letters, which keep what the real ones   *)
(* share: GET and GOODBYE their first letter, USERS all of USER.           *)
(***************************************************************************)
EXTENDS ParserStreams

MCLetter == {"H", "G", "S", "L", "D", "U", "M", "B", "T", "e", "o", "x"}
MCWord == [HELLO |-> <<"H", "e">>, GOODBYE |-> <<"G", "o">>, GET |-> <<"G", "e">>,
           SET |-> <<"S", "e">>, LIST |-> <<"L", "e">>, DEL |-> <<"D", "e">>,
           USER |-> <<"U", "e">>, USERS |-> <<"U", "e", "S">>, METRICS |-> <<"M", "e">>,
           BUFFERSIZE |-> <<"B", "e">>, TIMEOUT |-> <<"T", "e">>]
MCDigitValue == [d \in {"0", "1"} |-> IF d = "0" THEN 0 ELSE 1]
MCOctet == 0 .. 5
MCPop3Byte == {"u", "s", "p", "a", "x", "y", "SP", "CR", "LF"}
MCuser == <<"u", "s">>
MCpass == <<"p", "a">>
MCLine(command, name) == command \o <<"SP", name, "CR", "LF">>
MCPop3Lines == {MCLine(MCuser, "x"), MCLine(MCuser, "y"), MCLine(MCpass, "x"),
                <<"CR", "LF">>, <<"x", "CR", "LF">>}
MCMaxInput == [lulu |-> 13, hello |-> 6, auth |-> 7, request |-> 9, pop3 |-> 22]
===============================================================================
