----------------------------- MODULE LuluChannel ------------------------------
(***************************************************************************)
(* The TCP connection between lulu_client and the administration server.   *)
(* What is written arrives in order, cut anywhere; the connection may      *)
(* break.  cuts remembers the cuts that matter to somebody:                *)
(*   "opening"   in letters that several commands start with               *)
(*   "line end"  between the \r and the \n of a command                    *)
(*   "reply"     near the end of a reply, or before a - inside it          *)
(*   "typing"    inside the line the user types                            *)
(***************************************************************************)
EXTENDS LuluParsers, SequencesExt

VARIABLES
    toServer,   (* bytes on the way to the server                           *)
    toClient,   (* bytes on the way to the client                           *)
    hungUp,     (* the client's process has ended                           *)
    broken,     (* the connection was reset                                 *)
    cuts

channel == <<toServer, toClient, hungUp, broken, cuts>>

CRLF == <<CR, LF>>
Cuts == {"opening", "line end", "reply", "typing"}
Taken(s, n) == SubSeq(s, 1, n)
Left(s, n) == SubSeq(s, n + 1, Len(s))
EndsLine(s) == IsSuffix(CRLF, s)

(* bound: a socket accepts n bytes, or all but the last of them.           *)
Portions(n) == {n, n - 1} \cap (Nat \ {0})

ChannelInit ==
    /\ toServer = <<>>
    /\ toClient = <<>>
    /\ hungUp = FALSE
    /\ broken = FALSE
    /\ cuts = {}

(* A reset by a router, or by an end that crashed.                         *)
Break ==
    /\ ~broken
    /\ broken' = TRUE
    /\ toServer' = <<>>
    /\ toClient' = <<>>
    /\ UNCHANGED <<hungUp, cuts>>
===============================================================================
