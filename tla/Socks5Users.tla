------------------------------ MODULE Socks5Users ------------------------------
(***************************************************************************)
(* socks5_users.c: the list of SOCKS users, the sessions that point into   *)
(* it, and the administrator who adds and deletes users meanwhile.         *)
(*                                                                         *)
(* A list entry is never unlinked: deleting a user empties its slot and    *)
(* adding one takes the first empty slot, else appends a slot.  A session  *)
(* keeps a POINTER to the slot of its user (connection->User) and the slot *)
(* keeps ONE flag (IsLoggedIn), however many sessions the user has; a      *)
(* pointer outlives the flag, the user and, when the server stops, the     *)
(* list itself.                                                            *)
(***************************************************************************)
EXTENDS Integers, Sequences, FiniteSets

CONSTANTS
    Name,           (* user names                                          *)
    Pass,           (* passwords                                           *)
    Conn,           (* SOCKS connections                                   *)
    Initial,        (* the users of the command line, <<name, password>>   *)
    Unterminated,   (* strings whose copy in an appended slot lacks its \0 *)
    MaxSlots,       (* bound: slots in the list                            *)
    Null,           (* the null pointer                                    *)
    Garbled         (* a string read past its end: equal to no other one   *)

(* GetAllSocks5Users writes one pointer per user into the 200 bytes of     *)
(* lulu_messages.c:169, which hold 25 of them; nothing is modelled beyond. *)
ASSUME UsersAssumption ==
    /\ Initial \in Seq(Name \X Pass)
    /\ MaxSlots \in 1 .. 25
    /\ Len(Initial) <= MaxSlots
    /\ Null \notin Name \cup Pass
    /\ Garbled \notin Name \cup Pass \cup {Null}

VARIABLES
    slots,      (* the list of Socks5User, in order                        *)
    session,    (* connection->User: the number of a slot, 0 for null      *)
    account,    (* history: the user name a live session logged in with    *)
    reply,      (* the answer to the last command of the administrator     *)
    status      (* the server: starting, running, stopping, crashed        *)
                (* (SIGSEGV) or undefined, once it used memory it freed    *)

vars == <<slots, session, account, reply, status>>

Slot == [name : Name \cup {Null, Garbled}, pass : Pass \cup {Null, Garbled},
         inUse : BOOLEAN, loggedIn : BOOLEAN]

Empty == [name |-> Null, pass |-> Null, inUse |-> FALSE, loggedIn |-> FALSE]

Replies == {"NONE", "OK", "USER_EXISTS", "LOGGED_IN", "DOESNT_EXIST"}

First(I) == CHOOSE i \in I : \A j \in I : i <= j

(* An appended slot copies the string into a block of its very length, so  *)
(* the string goes on into what follows the block: a \0 of the padding, or *)
(* the header of the next block, neither of which changes while the block  *)
(* is allocated.                                                           *)
Copy(string) == IF string \in Unterminated THEN {string, Garbled} ELSE {string}

Appended(n, p) ==
    [name : Copy(n), pass : Copy(p), inUse : {TRUE}, loggedIn : {FALSE}]

LoadSingleUser(n, p) ==
    LET free == {i \in DOMAIN slots : ~slots[i].inUse} IN
    \/ /\ free # {}
       /\ slots' = [slots EXCEPT ![First(free)].name = n,
                                 ![First(free)].pass = p,
                                 ![First(free)].inUse = TRUE]
    \/ /\ free = {}
       /\ Len(slots) < MaxSlots
       /\ \E user \in Appended(n, p) : slots' = Append(slots, user)

(* LoadSocks5Users: an empty head slot, then the users of the command      *)
(* line, duplicates included.                                              *)
Init ==
    /\ slots = <<Empty>>
    /\ session = [c \in Conn |-> 0]
    /\ account = [c \in Conn |-> Null]
    /\ reply = "NONE"
    /\ status = "starting"

Loaded == Cardinality({i \in DOMAIN slots : slots[i].inUse})

LoadNext ==
    /\ status = "starting"
    /\ Loaded < Len(Initial)
    /\ LET user == Initial[Loaded + 1] IN LoadSingleUser(user[1], user[2])
    /\ UNCHANGED <<session, account, reply, status>>

Run ==
    /\ status = "starting"
    /\ Loaded = Len(Initial)
    /\ status' = "running"
    /\ UNCHANGED <<slots, session, account, reply>>

-------------------------------------------------------------------------------
(* The connections.                                                        *)

(* AuthReadRun with LogInSocks5User: the first user with this name and     *)
(* password.  A login that matches none leaves everything as it is.        *)
LogIn(c, n, p) ==
    LET same == {i \in DOMAIN slots :
                    slots[i].inUse /\ slots[i].name = n /\ slots[i].pass = p} IN
    /\ status = "running"
    /\ session[c] = 0
    /\ same # {}
    /\ slots' = [slots EXCEPT ![First(same)].loggedIn = TRUE]
    /\ session' = [session EXCEPT ![c] = First(same)]
    /\ account' = [account EXCEPT ![c] = n]
    /\ UNCHANGED <<reply, status>>

DisposeSilently(c) ==                                     (* a mutant *)
    /\ session[c] # 0
    /\ status \in {"running", "stopping"}
    /\ session' = [session EXCEPT ![c] = 0]
    /\ account' = [account EXCEPT ![c] = Null]
    /\ status' = IF status = "stopping" THEN "undefined" ELSE status
    /\ UNCHANGED <<slots, reply>>

(* DisposeSocks5Connection with LogOutSocks5User, which walks the list: a  *)
(* list that is freed already once the server is stopping.                 *)
Dispose(c) ==
    /\ session[c] # 0
    /\ \/ /\ status = "running"
          /\ slots' = [slots EXCEPT ![session[c]].loggedIn = FALSE]
          /\ UNCHANGED status
       \/ /\ status = "stopping"
          /\ status' = "undefined"
          /\ UNCHANGED slots
    /\ session' = [session EXCEPT ![c] = 0]
    /\ account' = [account EXCEPT ![c] = Null]
    /\ UNCHANGED reply

-------------------------------------------------------------------------------
(* The administrator.                                                      *)

SetUserUnchecked(n, p) ==                                 (* a mutant *)
    /\ status = "running"
    /\ LoadSingleUser(n, p)
    /\ reply' = "OK"
    /\ UNCHANGED <<session, account, status>>

(* BuildClientSetUserResponse: refused if a user in use has this name.     *)
SetUser(n, p) ==
    /\ status = "running"
    /\ IF \E i \in DOMAIN slots : slots[i].inUse /\ slots[i].name = n
       THEN reply' = "USER_EXISTS" /\ UNCHANGED slots
       ELSE reply' = "OK" /\ LoadSingleUser(n, p)
    /\ UNCHANGED <<session, account, status>>



(* BuildClientDelUserResponse with DeleteSocks5User: nobody, if the head   *)
(* slot is empty; else the scan compares the name with that of every slot, *)
(* in use or not, up to the first match, and strcmp reads an empty slot's  *)
(* null pointer.                                                           *)
DelUser(n) ==
    LET stops == {i \in DOMAIN slots : slots[i].name \in {n, Null}} IN
    /\ status = "running"
    /\ \/ /\ slots[1].name = Null \/ stops = {}
          /\ reply' = "DOESNT_EXIST"
          /\ UNCHANGED <<slots, status>>
       \/ /\ slots[1].name # Null /\ stops # {}
          /\ slots[First(stops)].name = Null
          /\ status' = "crashed"
          /\ UNCHANGED <<slots, reply>>
       \/ /\ slots[1].name # Null /\ stops # {}
          /\ slots[First(stops)].name = n
          /\ IF slots[First(stops)].loggedIn
             THEN reply' = "LOGGED_IN" /\ UNCHANGED slots
             ELSE /\ reply' = "OK"
                  /\ slots' = [slots EXCEPT ![First(stops)] = Empty]
          /\ UNCHANGED status
    /\ UNCHANGED <<session, account>>

(* DisposeSocks5Server: the list is freed first, then the connections are  *)
(* disposed of one by one.                                                 *)
Stop ==
    /\ status = "running"
    /\ status' = "stopping"
    /\ UNCHANGED <<slots, session, account, reply>>

(* The process is gone, or nothing is left to dispose of.                  *)
Ended ==
    /\ \/ status \in {"crashed", "undefined"}
       \/ status = "stopping" /\ \A c \in Conn : session[c] = 0
    /\ UNCHANGED vars

Next ==
    \/ LoadNext
    \/ Run
    \/ \E c \in Conn, n \in Name, p \in Pass : LogIn(c, n, p)
    \/ \E c \in Conn : Dispose(c)
    \/ \E n \in Name, p \in Pass : SetUser(n, p)
    \/ \E n \in Name : DelUser(n)
    \/ Stop
    \/ Ended

Spec == Init /\ [][Next]_vars

-------------------------------------------------------------------------------
TypeOK ==
    /\ slots \in Seq(Slot)
    /\ Len(slots) \in 1 .. MaxSlots
    /\ session \in [Conn -> 0 .. Len(slots)]
    /\ account \in [Conn -> Name \cup {Null}]
    /\ reply \in Replies
    /\ status \in {"starting", "running", "stopping", "crashed", "undefined"}

(* The one flag of a user never outlives the user's sessions: a slot that  *)
(* is logged in is in use, and some live connection logged in on it under  *)
(* the very name the slot still has.  Else the user could never be deleted *)
(* and would be listed for ever, or a stranger be listed in its place.     *)
FlagMeansSession ==
    status = "running" => \A i \in DOMAIN slots : slots[i].loggedIn =>
        /\ slots[i].inUse
        /\ \E c \in Conn : session[c] = i /\ account[c] = slots[i].name

(* Two users in use share a name only if the command line named it twice:  *)
(* no sequence of additions and deletions, over slots that were emptied    *)
(* and filled again, makes a name ambiguous.                               *)
NamesUnique ==
    \A i, j \in DOMAIN slots :
        /\ i # j
        /\ slots[i].inUse /\ slots[j].inUse
        /\ slots[i].name = slots[j].name
        => \/ slots[i].name = Garbled
           \/ \E k, m \in DOMAIN Initial :
                  /\ k # m
                  /\ slots[i].name = Initial[k][1]
                  /\ slots[i].name = Initial[m][1]

(* A user is added logged out, although LoadSingleUser does not touch the  *)
(* flag of the slot it fills: no history of the slot left it set.          *)
FillsLoggedOut ==
    \A i \in DOMAIN slots' :
        slots'[i].inUse /\ (i \in DOMAIN slots => ~slots[i].inUse)
        => ~slots'[i].loggedIn
NewUsersLoggedOut == [][FillsLoggedOut]_vars

-------------------------------------------------------------------------------
(* What socks5_users.h says, and the code does not do.                     *)

(* "If the user is logged in, then it cannot be erased" (line 50).         *)
EraseOnlyLoggedOut ==
    [][\A i \in DOMAIN slots :
          slots[i].inUse /\ ~slots'[i].inUse => \A c \in Conn : session[c] # i]_vars
===============================================================================
