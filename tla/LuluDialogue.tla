----------------------------- MODULE LuluDialogue -----------------------------
(***************************************************************************)
(* lulu_client and its session on the server, over a connection that cuts  *)
(* the stream anywhere and may break: what the user types, what the server *)
(* takes it for, and what the user is told.                                *)
(***************************************************************************)
EXTENDS LuluClient

vars == <<channel, sessionVars, clientVars>>

Init == ChannelInit /\ SessionInit /\ ClientInit

(* bound: a user who goes on although part of a reply is still to come is  *)
(* not followed.                                                           *)
Chooses == TransactionRead /\ toClient = <<>> /\ reply = <<>>

UserActs == (Chooses \/ UserNext) /\ UNCHANGED sessionVars
ClientRuns == RemoteNext /\ UNCHANGED sessionVars
SessionRuns == SessionNext /\ UNCHANGED clientVars
Breaks == phase \notin Ended /\ Break /\ UNCHANGED <<sessionVars, clientVars>>

Over == phase \in Ended /\ session \in OverStates /\ UNCHANGED vars

Next == UserActs \/ ClientRuns \/ SessionRuns \/ Breaks \/ Over

Spec == Init /\ [][Next]_vars /\ WF_vars(ClientRuns) /\ WF_vars(SessionRuns)

-------------------------------------------------------------------------------
(* What the user meant with the line.                                      *)
NumberOf(s) ==
    LET n[i \in 0 .. Len(s)] == IF i = 0 THEN 0 ELSE n[i - 1] * 10 + DigitValue[s[i]]
    IN n[Len(s)]
IsNumber(s) == (\A i \in 1 .. Len(s) : s[i] \in Digit) /\ NumberOf(s) <= MaxValue
BarsOf(s) == {i \in 1 .. Len(s) : s[i] = Bar}
Meant ==
    CASE choice \notin Asking -> Line(choice, <<>>, <<>>, 0)
      [] choice \in {"SET TIMEOUT", "SET BUFFERSIZE"} /\ BarsOf(typed) = {} /\ IsNumber(typed) ->
            Line(choice, <<>>, <<>>, NumberOf(typed))
      [] choice = "DEL USER" /\ typed # <<>> /\ BarsOf(typed) = {} ->
            Line(choice, typed, <<>>, 0)
      [] choice = "SET USER" /\ \E i \in 2 .. Len(typed) - 1 : BarsOf(typed) = {i} ->
            LET i == CHOOSE j \in BarsOf(typed) : TRUE
            IN Line(choice, Taken(typed, i - 1), Left(typed, i), 0)
      [] OTHER -> Unknown

Whole == EndsLine(Message(choice, typed))

(* lulu_transaction.c: the server takes a command for what the user typed, *)
(* wherever the stream is cut; only a cut in letters that several commands *)
(* share may make it NOT RECOGNISED.                                       *)
TakenAsTyped ==
    session = "TRANSACTION_WRITE" /\ reply # <<>> /\ Whole /\ cuts \cap {"typing", "reply"} = {} =>
        taken = Meant \/ ("opening" \in cuts /\ taken = Unknown)

(* The client shows the menu only when the reply to its last command has   *)
(* been read to its end and the server waits for the next one: no reply is *)
(* taken for that of another command.                                      *)
InStep ==
    phase \in {"TRANSACTION", "READ_LOCAL"} /\ ~broken /\ "reply" \notin cuts =>
        /\ toServer = <<>> /\ toClient = <<>> /\ reply = <<>> /\ held = <<>>
        /\ session \in {"TRANSACTION_READ", "TRANSACTION_WRITE", "HELLO_WRITE"}

(* What the user is told of the settings is true: the value shown is the   *)
(* one in force, and one that was accepted is in force and usable.         *)
ShownIsTrue ==
    phase = "TRANSACTION" /\ shown # <<>> /\ "reply" \notin cuts =>
        /\ choice = "GET TIMEOUT" /\ shown[1] = "+" => shown = Plus(Decimal[timeout])
        /\ choice = "GET BUFFERSIZE" /\ shown[1] = "+" => shown = Plus(Decimal[bufferSize])
        /\ "typing" \notin cuts =>
             /\ choice = "SET TIMEOUT" /\ shown[1] = "+" => timeout = NumberOf(typed)
             /\ choice = "SET BUFFERSIZE" /\ shown[1] = "+" =>
                    bufferSize = NumberOf(typed) /\ bufferSize \in 1 .. MaxValue - 1

(* Only an administrator gets past HELLO, with the name and password given *)
(* on the command line, and an administrator is not refused; a name or a   *)
(* password of MAXLONG bytes counts as another (UName, Passwd).            *)
OnlyAdministrators ==
    /\ session \in {"TRANSACTION_READ", "TRANSACTION_WRITE"} => login \in Accounts
    /\ phase = "DONE" /\ choice = "HELLO" =>
         login \notin Accounts \/ Len(login.name) >= MaxLong \/ Len(login.pass) >= MaxLong

(* lulu_connection.c: a session ends only with its client, its connection  *)
(* or GOODBYE, and besides them only for a list of users that does not fit.*)
(* ReadBuffer, reset after every answer, is never full, as long as client  *)
(* and server are in step.                                                 *)
SessionSurvives ==
    session \in OverStates =>
        \/ hungUp \/ broken \/ choice = "GOODBYE" \/ "reply" \in cuts
        \/ session = "ERROR" /\ taken.command = "LIST USERS"

(* A command the user gives comes to an end: the menu or the end of the    *)
(* client.  Needed for it: the line fits in the client's buffer, and the   *)
(* two ends of lines are not cut.                                          *)
Returns ==
    phase \in {"WRITE_AUTH", "READ_AUTH", "WRITE_REMOTE", "READ_REMOTE"} ~>
        \/ phase \in {"TRANSACTION"} \cup Ended
        \/ cuts \cap {"reply", "line end"} # {}
        \/ phase = "READ_REMOTE" /\ ("typing" \in cuts \/ ~Whole)
===============================================================================
