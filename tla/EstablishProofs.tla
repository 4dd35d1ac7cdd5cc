---------------------------- MODULE EstablishProofs ---------------------------
(***************************************************************************)
(* Proofs about Establish.tla, for any descriptors, any requests and names *)
(* with any number of addresses, and whatever may fail, connects that fail *)
(* at once and the idle timeout included: a client is only told that its   *)
(* request failed once every address was tried, and the addresses are      *)
(* freed exactly once but for the two places where the idle timeout frees  *)
(* them again.                                                             *)
(*                                                                         *)
(* The second part is about the table of descriptors, for any numbers the  *)
(* kernel may give out: the attempts on one address after the other lose   *)
(* no descriptor but that of a connect that fails at once, and as long as  *)
(* none of those stays registered, no event, however stale, meets a state  *)
(* without a handler, but the answer that comes after the idle timeout,    *)
(* and Relay is left a clean table.                                        *)
(***************************************************************************)
EXTENDS Establish, TLAPS

Table == [Fd -> Item]

-------------------------------------------------------------------------------
(* The operations on the table of descriptors keep it a table. *)

LEMMA NewItemType ==
    ASSUME NEW s \in Socket, NEW ops \in SUBSET Op
    PROVE  NewItem(s, ops) \in Item
  BY DEF NewItem, Item

LEMMA FreeItemType == FreeItem \in Item
  BY DEF FreeItem, Item, Socket

LEMMA WithInterestType ==
    ASSUME NEW t \in Table, NEW f, NEW ops \in SUBSET Op
    PROVE  WithInterest(t, f, ops) \in Table
  <1>1. CASE f \in Fd /\ t[f].used
    <2>1. [t[f] EXCEPT !.interest = ops] \in Item
      BY <1>1 DEF Table, Item
    <2>2. [t EXCEPT ![f] = [t[f] EXCEPT !.interest = ops]] \in Table
      BY <1>1, <2>1 DEF Table
    <2> QED
      BY <1>1, <2>2 DEF WithInterest
  <1>2. CASE ~(f \in Fd /\ t[f].used)
    BY <1>2 DEF WithInterest
  <1> QED
    BY <1>1, <1>2

LEMMA SocketType ==
    ASSUME NEW t \in Table, NEW f \in Fd, NEW s \in Socket
    PROVE  [t EXCEPT ![f].socket = s] \in Table
  <1>1. [t[f] EXCEPT !.socket = s] \in Item
    BY DEF Table, Item
  <1> QED
    BY <1>1 DEF Table

LEMMA ClosedType ==
    ASSUME NEW t \in Table, NEW f
    PROVE  Closed(t, f) \in Table
  BY FreeItemType DEF Closed, Table

LEMMA DisposedType ==
    ASSUME NEW t \in Table
    PROVE  Disposed(t) \in Table
  <1>1. Closed(t, client) \in Table
    BY ClosedType
  <1> QED
    BY <1>1, ClosedType DEF Disposed

(* Whatever a connect does, it leaves a table, and a remote or none. *)
LEMMA ConnectType ==
    ASSUME NEW t \in Table, NEW family, NEW c \in Connect(t, family)
    PROVE  c.item \in Table /\ c.remote \in Fd \cup {NoFd} /\ c.lost \in SUBSET Fd
  <1>1. CASE c \in Connecting(t)
    <2>1. PICK f \in Fd, s \in {"connecting", "connected"} :
             c = [item |-> [t EXCEPT ![f] = NewItem(s, Op)], remote |-> f, lost |-> {}]
      BY <1>1 DEF Connecting
    <2>2. NewItem(s, Op) \in Item
      BY NewItemType DEF Socket
    <2> QED
      BY <2>1, <2>2 DEF Table
  <1>2. CASE c \in FailedAtOnce(t, family)
    <2> DEFINE new == IF family = "v4" THEN NewItem("dead", Op)
                      ELSE [FreeItem EXCEPT !.socket = "dead"]
    <2>1. PICK f \in Fd :
             c = [item |-> [t EXCEPT ![f] = new], remote |-> NoFd, lost |-> {f}]
      BY <1>2 DEF FailedAtOnce
    <2>2. NewItem("dead", Op) \in Item
      BY NewItemType DEF Socket
    <2>3. [FreeItem EXCEPT !.socket = "dead"] \in Item
      BY DEF FreeItem, Item, Socket
    <2>4. new \in Item
      BY <2>2, <2>3
    <2> HIDE DEF new
    <2> QED
      BY <2>1, <2>4 DEF Table
  <1>3. CASE c \in Unopened(t)
    BY <1>3 DEF Unopened
  <1> QED
    BY <1>1, <1>2, <1>3 DEF Connect

-------------------------------------------------------------------------------
(* The three ways a handler goes on keep the invariant. *)

(* What no handler touches. *)
Kept ==
    /\ request' = request
    /\ client' = client
    /\ cut' = cut
    /\ pend' \in SUBSET (Fd \X Op)

(* The resolver has nothing more to say. *)
ResolverDone == resolver' \in {"none", "gone"}

LEMMA ResolvedType ==
    ASSUME EstablishAssumption, TypeOK
    PROVE  /\ Resolved \in Nat
           /\ request.kind \in Kind
           /\ request.kind = "literal" => Resolved = 1
           /\ request.kind = "other" => Resolved = 0
           /\ \A a \in 1 .. Resolved : request.addrs[a] \in Family
  <1>1. request \in Requests /\ request \in [kind : Kind, addrs : Seq(Family)]
    BY DEF EstablishAssumption, TypeOK
  <1>2. request.addrs \in Seq(Family) /\ request.kind \in Kind
    BY <1>1
  <1> QED
    BY <1>1, <1>2 DEF EstablishAssumption, Resolved

(* An attempt on the next address. *)
LEMMA AttemptKeeps ==
    ASSUME EstablishAssumption, EstablishInv, Kept, ResolverDone,
           NEW t \in Table, NEW key, NEW a \in 1 .. Resolved, a = current + 1,
           request.kind # "other",
           state \in AliveStates,
           EstablishInit(t, key, a, "held")
    PROVE  EstablishInv'
  <1>1. /\ Resolved \in Nat
        /\ Resolved' = Resolved
        /\ request.kind \in Kind
    BY ResolvedType DEF EstablishInv, Kept, Resolved
  <1>2. Closed(t, remote) \in Table
    BY ClosedType
  <1>3. PICK c \in Connect(Closed(t, remote), request.addrs[a]) :
           /\ remote' = c.remote
           /\ lost' = lost \cup c.lost
           /\ item' = IF c.remote = NoFd THEN WithInterest(c.item, key, Op) ELSE c.item
           /\ command' = IF c.remote = NoFd THEN "FAILED" ELSE "NOT_DECIDED"
    BY DEF EstablishInit
  <1>4. c.item \in Table /\ c.remote \in Fd \cup {NoFd} /\ c.lost \in SUBSET Fd
    BY <1>2, ConnectType
  <1>5. WithInterest(c.item, key, Op) \in Table
    BY <1>4, WithInterestType
  <1>6. item' \in Table /\ remote' \in Fd \cup {NoFd} /\ lost' \in SUBSET Fd
    BY <1>3, <1>4, <1>5 DEF EstablishInv, TypeOK
  <1>7. /\ state' = "ESTABLISH_CONNECTION"
        /\ current' = a
        /\ tried' = tried \cup {a}
        /\ block' = IF request.kind = "literal" THEN "freed" ELSE "held"
        /\ replied' = replied
    BY DEF EstablishInit, Released
  <1>8. command' = IF remote' = NoFd THEN "FAILED" ELSE "NOT_DECIDED"
    BY <1>3
  <1>9. tried = 1 .. current /\ current \in 0 .. Resolved
    BY DEF EstablishInv, TriedInOrder, TypeOK
  <1>10. tried' = 1 .. current'
    BY <1>1, <1>7, <1>9
  <1>11. TypeOK'
    <2>1. tried' \in SUBSET (1 .. Resolved') /\ current' \in 0 .. Resolved'
      BY <1>1, <1>7, <1>9, <1>10
    <2> QED
      BY <1>6, <1>7, <1>8, <2>1
      DEF TypeOK, EstablishInv, Kept, ResolverDone, Table, AliveStates, Command, Block
  <1>12. DataFollowsState'
    BY <1>1, <1>7, <1>8 DEF DataFollowsState, Kept, ResolverDone
  <1>13. BlockFollowsState'
    BY <1>7 DEF BlockFollowsState, EstablishInv, Kept, AliveStates
  <1> QED
    BY <1>10, <1>11, <1>12, <1>13 DEF EstablishInv, TriedInOrder

(* The reply, once the addresses were given back. *)
LEMMA ReplyKeeps ==
    ASSUME EstablishAssumption, EstablishInv, Kept, ResolverDone,
           NEW t \in Table, NEW reply \in {"SUCCEEDED", "FAILED"},
           reply = "FAILED" => current = Resolved,
           state \in AliveStates,
           Reply(t, reply),
           block' = IF current > 0 THEN "freed" ELSE "none"
    PROVE  EstablishInv'
  <1>1. Resolved' = Resolved
    BY DEF Kept, Resolved
  <1>2. WithInterest(t, client, {"W"}) \in Table
    BY WithInterestType DEF Op
  <1>3. item' \in Table
    BY <1>2, WithInterestType DEF Reply
  <1>4. /\ state' = "REQUEST_WRITE"
        /\ command' = reply
        /\ UNCHANGED <<remote, current, tried, replied, lost>>
    BY DEF Reply
  <1>5. TypeOK'
    BY <1>1, <1>3, <1>4
    DEF TypeOK, EstablishInv, Kept, ResolverDone, Table, AliveStates, Command, Block
  <1>6. TriedInOrder'
    BY <1>4 DEF EstablishInv, TriedInOrder
  <1>7. DataFollowsState'
    BY <1>1, <1>4 DEF DataFollowsState, ResolverDone
  <1>8. BlockFollowsState'
    BY <1>4 DEF BlockFollowsState, Kept, EstablishInv, AliveStates
  <1> QED
    BY <1>5, <1>6, <1>7, <1>8 DEF EstablishInv

(* A step to a state nothing is promised about. *)
LEMMA EndKeeps ==
    ASSUME EstablishInv, Kept,
           state' \in {"ERROR", "ABORTED", "CRASHED"},
           state = "TIMED_OUT" => state' = "ABORTED",
           state \in AliveStates \cup {"TIMED_OUT"},
           item' \in Table,
           UNCHANGED <<remote, command, current, tried, replied, block, lost>>,
           resolver' \in {resolver, "gone"},
           state' = "ERROR" => ResolverDone
    PROVE  EstablishInv'
  <1>1. Resolved' = Resolved
    BY DEF Kept, Resolved
  <1>2. TypeOK'
    BY <1>1 DEF TypeOK, EstablishInv, Kept, Table, EndStates
  <1>3. TriedInOrder'
    BY DEF EstablishInv, TriedInOrder
  <1>4. DataFollowsState'
    BY DEF EstablishInv, DataFollowsState, ResolverDone, Kept
  <1>5. BlockFollowsState'
    BY DEF BlockFollowsState, EstablishInv, Kept, FreesAgain, AliveStates
  <1> QED
    BY <1>2, <1>3, <1>4, <1>5 DEF EstablishInv
-------------------------------------------------------------------------------
(* The handlers. *)

LEMMA RequestReadKeeps ==
    ASSUME EstablishAssumption, EstablishInv, Kept, RequestReadRun
    PROVE  EstablishInv'
  <1> DEFINE t == [item EXCEPT ![client].socket = "connected"]
  <1>1. /\ state = "REQUEST_READ"
        /\ command = "NOT_DECIDED" /\ remote = NoFd /\ current = 0 /\ resolver = "none"
        /\ block = "none" /\ tried = 1 .. current
    BY DEF RequestReadRun, EstablishInv, DataFollowsState, BlockFollowsState, TriedInOrder
  <1>2. t \in Table
    <2>1. item \in Table /\ client \in Fd
      BY DEF EstablishInv, TypeOK, Table
    <2> QED
      BY <2>1, SocketType DEF Socket
  <1>3. Incomplete(t) \/ Malformed(t) \/ Unsupported(t) \/ Resolve(t) \/ Literal(t)
    BY DEF RequestReadRun
  <1> HIDE DEF t
  <1>4. Resolved' = Resolved
    BY DEF Kept, Resolved
  <1>5. CASE Incomplete(t)
    <2>1. TypeOK'
      BY <1>2, <1>4, <1>5 DEF Incomplete, TypeOK, EstablishInv, Kept, Table
    <2>2. TriedInOrder' /\ DataFollowsState' /\ BlockFollowsState'
      BY <1>1, <1>5
      DEF Incomplete, TriedInOrder, DataFollowsState, BlockFollowsState, EstablishInv, Kept
    <2> QED
      BY <2>1, <2>2 DEF EstablishInv
  <1>6. CASE Malformed(t)
    <2>1. item' \in Table
      BY <1>2, <1>6, DisposedType DEF Malformed
    <2>2. /\ state' = "ERROR" /\ resolver' = resolver /\ resolver' \in {resolver, "gone"}
          /\ UNCHANGED <<remote, command, current, tried, replied, block, lost>>
      BY <1>6 DEF Malformed
    <2>3. /\ state \in AliveStates \cup {"TIMED_OUT"} /\ state # "TIMED_OUT"
          /\ ResolverDone
      BY <1>1, <2>2 DEF AliveStates, ResolverDone
    <2> QED
      BY <2>1, <2>2, <2>3, EndKeeps
  <1>7. CASE Unsupported(t)
    <2>1. current = Resolved
      BY <1>1, <1>7, ResolvedType DEF Unsupported, EstablishInv
    <2>2. /\ Reply(t, "FAILED") /\ block' = (IF current > 0 THEN "freed" ELSE "none")
          /\ ResolverDone /\ state \in AliveStates
      BY <1>1, <1>7 DEF Unsupported, ResolverDone, AliveStates
    <2> QED
      BY <1>2, <2>1, <2>2, ReplyKeeps
  <1>8. CASE Resolve(t)
    <2>1. item' \in Table
      BY <1>2, <1>8, WithInterestType DEF Resolve
    <2>2. /\ state' = "DNS_READ"
          /\ request.kind = "fqdn"
          /\ resolver' \in {"resolving", "none"}
          /\ UNCHANGED <<remote, command, current, tried, block, replied, lost>>
      BY <1>8 DEF Resolve
    <2>3. TypeOK'
      BY <1>4, <2>1, <2>2 DEF TypeOK, EstablishInv, Kept, Table, AliveStates
    <2>4. TriedInOrder' /\ DataFollowsState' /\ BlockFollowsState'
      BY <1>1, <2>2
      DEF TriedInOrder, DataFollowsState, BlockFollowsState, Kept, EstablishInv
    <2> QED
      BY <2>3, <2>4 DEF EstablishInv
  <1>9. CASE Literal(t)
    <2>1. WithInterest(t, client, {}) \in Table
      BY <1>2, WithInterestType
    <2>2. request.kind = "literal" /\ Resolved = 1
      BY <1>9, ResolvedType DEF Literal, EstablishInv
    <2>3. EstablishInit(WithInterest(t, client, {}), client, 1, "held") /\ ResolverDone
      BY <1>1, <1>9 DEF Literal, ResolverDone
    <2>4. 1 \in 1 .. Resolved /\ 1 = current + 1
      BY <1>1, <2>2
    <2>5. request.kind # "other" /\ state \in AliveStates
      BY <1>1, <2>2 DEF AliveStates
    <2> QED
      BY <2>1, <2>3, <2>4, <2>5, AttemptKeeps
  <1> QED
    BY <1>3, <1>5, <1>6, <1>7, <1>8, <1>9

LEMMA DnsReadKeeps ==
    ASSUME EstablishAssumption, EstablishInv, Kept, ResolverDone,
           state = "DNS_READ", resolver = "answered", DnsRead
    PROVE  EstablishInv'
  <1>1. /\ current = 0
        /\ request.kind = "fqdn"
        /\ block = IF Resolved > 0 THEN "held" ELSE "none"
    BY DEF EstablishInv, DataFollowsState, BlockFollowsState
  <1>2. item \in Table
    BY DEF EstablishInv, TypeOK, Table
  <1>3. Resolved \in Nat
    BY ResolvedType DEF EstablishInv
  <1>4. CASE Resolved = 0
    <2>1. /\ Reply(item, "FAILED") /\ block' = (IF current > 0 THEN "freed" ELSE "none")
          /\ current = Resolved /\ state \in AliveStates
      BY <1>1, <1>3, <1>4 DEF DnsRead, AliveStates
    <2> QED
      BY <1>2, <2>1, ReplyKeeps
  <1>5. CASE Resolved # 0
    <2>1. EstablishInit(item, client, 1, "held")
      BY <1>1, <1>3, <1>5 DEF DnsRead
    <2>2. 1 \in 1 .. Resolved /\ 1 = current + 1
      BY <1>1, <1>3, <1>5
    <2>3. request.kind # "other" /\ state \in AliveStates
      BY <1>1 DEF AliveStates
    <2> QED
      BY <1>2, <2>1, <2>2, <2>3, AttemptKeeps
  <1> QED
    BY <1>4, <1>5

(* The addresses are given back on the way out of ESTABLISH_CONNECTION. *)
LEMMA CloseGivesBack ==
    ASSUME EstablishAssumption, EstablishInv,
           state = "ESTABLISH_CONNECTION", EstablishClose
    PROVE  block' = IF current > 0 THEN "freed" ELSE "none"
  <1>1. current > 0 /\ request.kind \in Kind /\ request.kind # "other"
    BY ResolvedType DEF EstablishInv, DataFollowsState
  <1>2. block = IF request.kind = "literal" THEN "freed" ELSE "held"
    BY DEF EstablishInv, BlockFollowsState
  <1> QED
    BY <1>1, <1>2 DEF EstablishClose, Released, Kind

LEMMA AdvanceKeeps ==
    ASSUME EstablishAssumption, EstablishInv, Kept, UNCHANGED resolver,
           state = "ESTABLISH_CONNECTION",
           NEW t \in Table, NEW key, Advance(key, t)
    PROVE  EstablishInv'
  <1>1. ResolverDone
    BY DEF EstablishInv, DataFollowsState, TypeOK, ResolverDone
  <1>2. /\ Resolved \in Nat
        /\ current \in 1 .. Resolved
        /\ request.kind # "other"
        /\ request.kind = "literal" => Resolved = 1
    BY ResolvedType DEF EstablishInv, DataFollowsState, TypeOK
  <1>3. CASE current < Resolved /\ EstablishInit(t, key, current + 1, block)
    <2>0. block = IF request.kind = "literal" THEN "freed" ELSE "held"
      BY DEF EstablishInv, BlockFollowsState
    <2>1. block = "held"
      BY <1>2, <1>3, <2>0
    <2>2. EstablishInit(t, key, current + 1, "held")
      BY <1>3, <2>1
    <2>3. current + 1 \in 1 .. Resolved
      BY <1>2, <1>3
    <2>4. state \in AliveStates
      BY DEF AliveStates
    <2> DEFINE a == current + 1
    <2>5. a \in 1 .. Resolved /\ a = current + 1 /\ EstablishInit(t, key, a, "held")
      BY <2>2, <2>3
    <2> HIDE DEF a
    <2> QED
      BY <1>1, <1>2, <2>4, <2>5, AttemptKeeps
  <1>4. CASE current = Resolved /\ Reply(t, "FAILED") /\ EstablishClose
    <2>1. block' = IF current > 0 THEN "freed" ELSE "none"
      BY <1>4, CloseGivesBack
    <2> QED
      BY <1>1, <1>4, <2>1, ReplyKeeps DEF AliveStates
  <1>5. CASE /\ state' = "CRASHED"
             /\ UNCHANGED <<remote, item, command, current, tried, block, replied, lost>>
    <2>1. item' \in Table
      BY <1>5 DEF EstablishInv, TypeOK, Table
    <2>2. state \in AliveStates \cup {"TIMED_OUT"} /\ resolver' \in {resolver, "gone"}
      BY DEF AliveStates
    <2> QED
      BY <1>5, <2>1, <2>2, EndKeeps
  <1> QED
    BY <1>3, <1>4, <1>5 DEF Advance

LEMMA EstablishRunKeeps ==
    ASSUME EstablishAssumption, EstablishInv, Kept, NEW key, EstablishRun(key)
    PROVE  EstablishInv'
  <1>1. state = "ESTABLISH_CONNECTION" /\ UNCHANGED resolver
    BY DEF EstablishRun
  <1>2. item \in Table
    BY DEF EstablishInv, TypeOK, Table
  <1>3. CASE command = "FAILED" /\ Advance(key, item)
    BY <1>1, <1>2, <1>3, AdvanceKeeps
  <1>4. CASE Reply(item, "SUCCEEDED") /\ EstablishClose
    <2>1. block' = IF current > 0 THEN "freed" ELSE "none"
      BY <1>1, <1>4, CloseGivesBack
    <2>2. ResolverDone
      BY <1>1 DEF EstablishInv, DataFollowsState, TypeOK, ResolverDone
    <2> QED
      BY <1>1, <1>2, <1>4, <2>1, <2>2, ReplyKeeps DEF AliveStates
  <1>5. CASE command = "NOT_DECIDED" /\ Advance(key, [item EXCEPT ![remote].socket = "dead"])
    <2>1. remote \in Fd
      BY <1>1, <1>5 DEF EstablishInv, TypeOK, DataFollowsState
    <2>2. [item EXCEPT ![remote].socket = "dead"] \in Table
      BY <1>2, <2>1, SocketType DEF Socket
    <2> QED
      BY <1>1, <1>5, <2>2, AdvanceKeeps
  <1> QED
    BY <1>3, <1>4, <1>5 DEF EstablishRun

LEMMA RequestWriteKeeps ==
    ASSUME EstablishAssumption, EstablishInv, Kept, RequestWriteRun
    PROVE  EstablishInv'
  <1>1. /\ state = "REQUEST_WRITE"
        /\ UNCHANGED <<remote, command, current, tried, block, resolver, lost>>
        /\ state' \in {"REQUEST_WRITE", "CONNECTED", "DONE"}
        /\ replied' \in BOOLEAN
    BY DEF RequestWriteRun, EstablishInv, TypeOK
  <1>2. item' \in Table
    <2>1. item \in Table
      BY DEF EstablishInv, TypeOK, Table
    <2>2. Disposed(item) \in Table
      BY <2>1, DisposedType
    <2>3. WithInterest(item, client, {"R"}) \in Table
      BY <2>1, WithInterestType DEF Op
    <2>4. AwaitBoth(item) \in Table
      BY <2>3, WithInterestType DEF AwaitBoth, Op
    <2> QED
      BY <2>1, <2>2, <2>4 DEF RequestWriteRun
  <1>3. Resolved' = Resolved
    BY DEF Kept, Resolved
  <1>4. TypeOK'
    BY <1>1, <1>2, <1>3 DEF TypeOK, EstablishInv, Kept, Table, AliveStates, EndStates
  <1>5. TriedInOrder' /\ DataFollowsState' /\ BlockFollowsState'
    BY <1>1, <1>3
    DEF EstablishInv, TriedInOrder, DataFollowsState, BlockFollowsState, Kept
  <1> QED
    BY <1>4, <1>5 DEF EstablishInv
-------------------------------------------------------------------------------
(* The select loop and the environment. *)

LEMMA DeliverKeeps ==
    ASSUME EstablishAssumption, EstablishInv, NEW e \in Fd \X Op, Deliver(e)
    PROVE  EstablishInv'
  <1>1. Kept
    BY DEF Deliver, Kept, EstablishInv, TypeOK
  <1>2. CASE Handle(e[1], e[2])
    BY <1>1, <1>2, RequestReadKeeps, EstablishRunKeeps, RequestWriteKeeps DEF Handle
  <1>3. CASE Abort
    <2>1. /\ state' = "ABORTED"
          /\ UNCHANGED <<remote, item, command, current, tried, block, replied, resolver,
                         lost>>
      BY <1>3 DEF Abort
    <2>2. item' \in Table
      BY <2>1 DEF EstablishInv, TypeOK, Table
    <2>3. state \in AliveStates \cup {"TIMED_OUT"} /\ state # "TIMED_OUT"
      BY DEF Deliver, Alive, AliveStates
    <2> QED
      BY <1>1, <2>1, <2>2, <2>3, EndKeeps
  <1> QED
    BY <1>2, <1>3 DEF Deliver

LEMMA NotifyKeeps ==
    ASSUME EstablishAssumption, EstablishInv, Notify
    PROVE  EstablishInv'
  <1>1. Kept /\ ResolverDone
    BY DEF Notify, Kept, ResolverDone, EstablishInv, TypeOK
  <1>2. CASE state = "DNS_READ" /\ DnsRead
    BY <1>1, <1>2, DnsReadKeeps DEF Notify
  <1>3. CASE /\ state # "DNS_READ"
             /\ state' = "ABORTED"
             /\ UNCHANGED <<remote, item, command, current, tried, block, replied, lost>>
    <2>1. state \in AliveStates \cup {"TIMED_OUT"}
      BY DEF Notify, Alive
    <2>2. item' \in Table /\ resolver' \in {resolver, "gone"}
      BY <1>1, <1>3 DEF EstablishInv, TypeOK, Table, Notify
    <2> QED
      BY <1>1, <1>3, <2>1, <2>2, EndKeeps
  <1>4. CASE /\ ~item[client].used
             /\ UNCHANGED <<state, remote, item, command, current, tried, block, replied,
                            lost>>
    <2>1. resolver = "answered" /\ resolver' = "gone"
      BY DEF Notify
    <2>2. Resolved' = Resolved
      BY <1>1 DEF Kept, Resolved
    <2>3. TypeOK'
      BY <1>1, <1>4, <2>1, <2>2 DEF TypeOK, EstablishInv, Kept
    <2>4. TriedInOrder' /\ DataFollowsState' /\ BlockFollowsState'
      BY <1>1, <1>4, <2>1, <2>2
      DEF EstablishInv, TriedInOrder, DataFollowsState, BlockFollowsState, Kept, FreesAgain
    <2> QED
      BY <2>3, <2>4 DEF EstablishInv
  <1> QED
    BY <1>2, <1>3, <1>4 DEF Notify

(* A step that changes neither the connection nor its data. *)
LEMMA QuietKeeps ==
    ASSUME EstablishInv,
           UNCHANGED <<state, request, client, remote, command, current, tried,
                       block, replied, resolver, lost, cut>>,
           item' \in Table,
           pend' \in SUBSET (Fd \X Op)
    PROVE  EstablishInv'
  <1>1. Resolved' = Resolved
    BY DEF Resolved
  <1>2. TypeOK'
    BY <1>1 DEF TypeOK, EstablishInv, Table
  <1>3. TriedInOrder' /\ DataFollowsState' /\ BlockFollowsState'
    BY <1>1 DEF EstablishInv, TriedInOrder, DataFollowsState, BlockFollowsState, FreesAgain
  <1> QED
    BY <1>2, <1>3 DEF EstablishInv

LEMMA IdleTimeoutKeeps ==
    ASSUME EstablishInv, IdleTimeout
    PROVE  EstablishInv'
  <1>1. /\ \/ /\ state \in {"DNS_READ", "ESTABLISH_CONNECTION", "REQUEST_WRITE"}
              /\ state' = "TIMED_OUT" /\ cut' = state /\ block' = Released(block)
           \/ state' = "CRASHED" /\ cut' = cut /\ block' = block /\ state \in AliveStates
        /\ UNCHANGED <<request, client, remote, pend, command, current, tried,
                       replied, resolver, lost>>
    BY DEF IdleTimeout, Alive, AliveStates
  <1>2. item' \in Table /\ block' \in Block
    <2>1. item \in Table /\ block \in Block
      BY DEF EstablishInv, TypeOK, Table
    <2>2. Disposed(item) \in Table
      BY <2>1, DisposedType
    <2>3. Released(block) \in Block
      BY DEF Released, Block
    <2> QED
      BY <2>1, <2>2, <2>3 DEF IdleTimeout
  <1>3. Resolved' = Resolved
    BY <1>1 DEF Resolved
  <1>4. TypeOK'
    BY <1>1, <1>2, <1>3 DEF TypeOK, EstablishInv, Table, EndStates, AliveStates
  <1>5. TriedInOrder' /\ DataFollowsState'
    BY <1>1 DEF EstablishInv, TriedInOrder, DataFollowsState
  <1>6. BlockFollowsState'
    BY <1>1
    DEF EstablishInv, BlockFollowsState, DataFollowsState, Released, FreesAgain, AliveStates
  <1> QED
    BY <1>4, <1>5, <1>6 DEF EstablishInv

LEMMA AnswerKeeps ==
    ASSUME EstablishAssumption, EstablishInv, Answer
    PROVE  EstablishInv'
  <1>1. /\ resolver = "resolving"
        /\ resolver' = "answered"
        /\ block' = IF Resolved > 0 THEN "held" ELSE block
        /\ UNCHANGED <<state, request, client, remote, item, pend, command, current,
                       tried, replied, lost, cut>>
    BY DEF Answer
  <1>2. /\ state \in {"DNS_READ", "TIMED_OUT", "ABORTED", "CRASHED"}
        /\ cut \in {"not", "DNS_READ"}
    BY <1>1 DEF EstablishInv, DataFollowsState
  <1>3. Resolved' = Resolved /\ Resolved \in Nat
    BY <1>1, ResolvedType DEF Resolved, EstablishInv
  <1>4. TypeOK'
    BY <1>1, <1>3 DEF TypeOK, EstablishInv, Block
  <1>5. TriedInOrder' /\ DataFollowsState'
    BY <1>1, <1>2, <1>3 DEF EstablishInv, TriedInOrder, DataFollowsState
  <1>6. BlockFollowsState'
    BY <1>1, <1>2, <1>3 DEF EstablishInv, BlockFollowsState, FreesAgain
  <1> QED
    BY <1>4, <1>5, <1>6 DEF EstablishInv

LEMMA EnvironmentKeeps ==
    ASSUME EstablishInv,
           (\E f \in Fd : Settle(f) \/ Talk(f)) \/ Accept
    PROVE  EstablishInv'
  <1>1. item \in Table /\ client \in Fd /\ pend \in SUBSET (Fd \X Op)
    BY DEF EstablishInv, TypeOK, Table
  <1>2. ASSUME NEW f \in Fd, NEW s \in Socket, SocketBecomes(f, s)
        PROVE  EstablishInv'
    <2>1. [item EXCEPT ![f].socket = s] \in Table
      BY <1>1, SocketType
    <2> QED
      BY <1>1, <1>2, <2>1, QuietKeeps DEF SocketBecomes
  <1>3. CASE \E f \in Fd : Settle(f) \/ Talk(f)
    BY <1>2, <1>3 DEF Settle, Talk, Socket
  <1>4. CASE Accept
    <2>1. NewItem("connected", {"R"}) \in Item
      BY NewItemType DEF Socket, Op
    <2>2. item' \in Table
      BY <1>1, <1>4, <2>1 DEF Accept, Table
    <2> QED
      BY <1>1, <1>4, <2>2, QuietKeeps DEF Accept
  <1> QED
    BY <1>3, <1>4

-------------------------------------------------------------------------------
(* The addresses are tried in order, the data and the memory of a request  *)
(* follow its state: the inductive invariant.                              *)
THEOREM EstablishInvariantHolds == Spec => []EstablishInv
  <1>1. Init => EstablishInv
    <2> SUFFICES ASSUME Init PROVE EstablishInv
      OBVIOUS
    <2>1. item \in Table
      <3>1. NewItem("connected", {"R"}) \in Item
        BY NewItemType DEF Socket, Op
      <3> QED
        BY <3>1, FreeItemType DEF Init, Table
    <2>2. Resolved \in Nat
      BY EstablishAssumption DEF Init, EstablishAssumption, Resolved
    <2>3. TypeOK
      <3>1. current \in 0 .. Resolved /\ tried \in SUBSET (1 .. Resolved)
        BY <2>2 DEF Init
      <3> QED
        BY <2>1, <3>1 DEF Init, TypeOK, Table, AliveStates, Command, Block
    <2>4. TriedInOrder /\ DataFollowsState /\ BlockFollowsState
      BY DEF Init, TriedInOrder, DataFollowsState, BlockFollowsState
    <2> QED
      BY <2>3, <2>4 DEF EstablishInv
  <1>2. EstablishInv /\ [Next]_vars => EstablishInv'
    <2> SUFFICES ASSUME EstablishInv, [Next]_vars PROVE EstablishInv'
      OBVIOUS
    <2>1. item \in Table /\ pend \in SUBSET (Fd \X Op)
      BY DEF EstablishInv, TypeOK, Table
    <2>2. CASE Select
      BY <2>1, <2>2, QuietKeeps DEF Select, ReadyEvents
    <2>3. CASE \E e \in Fd \X Op : Deliver(e)
      BY <2>3, EstablishAssumption, DeliverKeeps
    <2>4. CASE \E e \in Fd \X Op : Skip(e)
      BY <2>1, <2>4, QuietKeeps DEF Skip
    <2>5. CASE Notify
      BY <2>5, EstablishAssumption, NotifyKeeps
    <2>6. CASE IdleTimeout
      BY <2>6, IdleTimeoutKeeps
    <2>7. CASE Answer
      BY <2>7, EstablishAssumption, AnswerKeeps
    <2>8. CASE (\E f \in Fd : Settle(f) \/ Talk(f)) \/ Accept
      BY <2>8, EnvironmentKeeps
    <2>9. CASE UNCHANGED vars
      BY <2>1, <2>9, QuietKeeps DEF vars
    <2> QED
      BY <2>2, <2>3, <2>4, <2>5, <2>6, <2>7, <2>8, <2>9 DEF Next, Loop, Ended
  <1> QED
    BY <1>1, <1>2, PTL DEF Spec

(* Every step keeps the types: no descriptor outside the table, no address *)
(* outside the list (the walk along ai_next in EstablishConnectionRun).    *)
THEOREM TypeCorrect == Spec => []TypeOK
  <1>1. EstablishInv => TypeOK
    BY DEF EstablishInv
  <1> QED
    BY <1>1, EstablishInvariantHolds, PTL

(* However many addresses a name has, and whatever fails, at once, later,  *)
(* or by a stale event, a failure is reported only after all were tried.   *)
THEOREM FailuresExhaustTheList == Spec => []FailureMeansExhausted
  <1>1. EstablishInv => FailureMeansExhausted
    <2> SUFFICES ASSUME EstablishInv,
                        state \in {"REQUEST_WRITE", "DONE"}, command = "FAILED"
                 PROVE  tried = 1 .. Resolved
      BY DEF FailureMeansExhausted
    <2>1. current = Resolved
      BY DEF EstablishInv, DataFollowsState
    <2> QED
      BY <2>1 DEF EstablishInv, TriedInOrder
  <1> QED
    BY <1>1, EstablishInvariantHolds, PTL

(* The addresses of a request, literal or resolved, are freed exactly once *)
(* although three places free them (EstablishConnectionInit,               *)
(* EstablishConnectionClose, DisposeSocks5Connection), but for the states  *)
(* named in FreesAgain where the idle timeout frees them again, and for    *)
(* the answer that comes after it.                                         *)
THEOREM AddressesAreFreedOnce == Spec => []AddressesFreedOnce
  <1>1. EstablishInv => AddressesFreedOnce
    BY DEF EstablishInv, BlockFollowsState, AddressesFreedOnce
  <1> QED
    BY <1>1, EstablishInvariantHolds, PTL

-------------------------------------------------------------------------------
(* The table of descriptors.                                               *)

(* What a connect that failed at once leaves behind. *)
LostItem(i) == i.socket = "dead" /\ (~i.used => i.interest = {})

(* The entries in use are the client's, the remote's, and those of lost    *)
(* sockets.                                                                *)
Entries(t, r, l) ==
    \A f \in Fd :
        /\ f \in {client, r} => t[f].used /\ t[f].socket # "none"
        /\ f \in l => LostItem(t[f])
        /\ f \notin {client, r} \cup l => t[f] = FreeItem

(* What is left of the connection when it was disposed of; a new client    *)
(* may have been given the number of its client.                           *)
EntriesFollowState ==
    /\ remote # client
    /\ lost \cap {client, remote} = {}
    /\ \A f \in lost : LostItem(item[f])
    /\ IF cut # "not" THEN \A f \in Fd \ (lost \cup {client}) : item[f] = FreeItem
       ELSE IF state \in {"ERROR", "DONE"} THEN \A f \in Fd \ lost : item[f] = FreeItem
       ELSE Entries(item, remote, lost)
    /\ state = "ABORTED" => Haunted \/ cut = "DNS_READ"
    /\ command = "SUCCEEDED" => remote \in Fd

(* Nobody but the client and the remote is registered. *)
Tidy == ~Haunted /\ cut = "not"

(* Each state awaits events that it has a handler for: of the client alone *)
(* while a request is read or answered.                                    *)
InterestFollowsState ==
    /\ state = "REQUEST_READ" => item[client].interest = {"R"}
    /\ state = "DNS_READ" => item[client].interest = {}
    /\ state = "REQUEST_WRITE" => /\ item[client].interest = {"W"}
                                  /\ remote \in Fd => item[remote].interest = {}
    /\ state = "CONNECTED" => /\ remote \in Fd
                              /\ item[client].interest = {"R"}
                              /\ item[remote].interest = {"R"}

(* What an iteration may still hold in each state.  The client may be      *)
(* awaited while a remote is connected to, once a connect failed at once:  *)
(* its events, and those of sockets closed since, are gone by the time the *)
(* relay takes over.                                                       *)
PendingFollowsState ==
    /\ state \in {"REQUEST_READ", "DNS_READ", "ESTABLISH_CONNECTION"} => ~replied
    /\ state = "REQUEST_READ" => pend \subseteq {<<client, "R">>}
    /\ state \in {"DNS_READ", "CONNECTED"} => pend = {}
    /\ state = "REQUEST_WRITE" =>
          \/ pend \subseteq {<<client, "W">>}
          \/ ~replied
          \/ <<client, "W">> \notin pend

TableFollowsState ==
    EntriesFollowState /\ (Tidy => InterestFollowsState /\ PendingFollowsState)

TableInv == EstablishInv /\ TableFollowsState

-------------------------------------------------------------------------------
(* The operations on the table. *)

(* The mark for no descriptor is not the number of one. *)
LEMMA NumbersAreNatural == NoFd \notin Fd
  BY EstablishAssumption DEF EstablishAssumption, NoFd

(* An entry's interest is all that SelectorSetInterest changes. *)
LEMMA InterestChanges ==
    ASSUME NEW t \in Table, NEW f, NEW ops \in SUBSET Op
    PROVE  LET u == WithInterest(t, f, ops) IN
           /\ u \in Table
           /\ \A g \in Fd : /\ u[g].used = t[g].used /\ u[g].socket = t[g].socket
                            /\ g # f \/ ~t[g].used => u[g] = t[g]
                            /\ g = f /\ t[g].used => u[g].interest = ops
  <1>1. CASE f \in Fd /\ t[f].used
    <2> DEFINE x == [t[f] EXCEPT !.interest = ops]
    <2>1. x.used = t[f].used /\ x.socket = t[f].socket /\ x.interest = ops
      BY <1>1 DEF Table, Item
    <2>2. WithInterest(t, f, ops) = [t EXCEPT ![f] = x]
      BY <1>1 DEF WithInterest
    <2> HIDE DEF x
    <2>3. \A g \in Fd : WithInterest(t, f, ops)[g] = IF g = f THEN x ELSE t[g]
      BY <2>2 DEF Table
    <2>4. WithInterest(t, f, ops) \in Table
      BY WithInterestType
    <2> QED
      BY <1>1, <2>1, <2>3, <2>4
  <1>2. CASE ~(f \in Fd /\ t[f].used)
    <2>1. WithInterest(t, f, ops) = t
      BY <1>2 DEF WithInterest
    <2> QED
      BY <1>2, <2>1
  <1> QED
    BY <1>1, <1>2

(* ... and a socket's state is all that the peers change. *)
LEMMA SocketChanges ==
    ASSUME NEW t \in Table, NEW f \in Fd, NEW s \in Socket
    PROVE  LET u == [t EXCEPT ![f].socket = s] IN
           /\ u \in Table
           /\ \A g \in Fd : /\ u[g].used = t[g].used /\ u[g].interest = t[g].interest
                            /\ g # f => u[g] = t[g]
           /\ u[f].socket = s
  <1> DEFINE x == [t[f] EXCEPT !.socket = s]
  <1>1. x.used = t[f].used /\ x.interest = t[f].interest /\ x.socket = s
    BY DEF Table, Item
  <1>2. [t EXCEPT ![f].socket = s] = [t EXCEPT ![f] = x]
    OBVIOUS
  <1> HIDE DEF x
  <1>3. \A g \in Fd : [t EXCEPT ![f] = x][g] = IF g = f THEN x ELSE t[g]
    BY DEF Table
  <1>4. [t EXCEPT ![f].socket = s] \in Table
    BY SocketType
  <1> QED
    BY <1>1, <1>2, <1>3, <1>4

(* Both keep the entries in use. *)
LEMMA EntriesKept ==
    ASSUME NEW t, NEW u, NEW r, NEW l, Entries(t, r, l),
           \A f \in Fd : /\ u[f].used = t[f].used
                         /\ t[f].socket # "none" => u[f].socket # "none"
                         /\ f \in l => u[f].socket = t[f].socket
                         /\ ~t[f].used => u[f] = t[f]
    PROVE  Entries(u, r, l)
  <1>1. ~FreeItem.used
    BY DEF FreeItem
  <1> QED
    BY <1>1 DEF Entries, LostItem

(* Disposing of the two entries leaves the lost ones. *)
LEMMA DisposedEntries ==
    ASSUME NEW t \in Table, Entries(t, remote, lost), client \in Fd,
           lost \cap {client, remote} = {}
    PROVE  \A f \in Fd : Disposed(t)[f] = IF f \in lost THEN t[f] ELSE FreeItem
  <1> DEFINE u == Closed(t, client)
  <1>1. u \in Table /\ \A f \in Fd : u[f] = IF f = client THEN FreeItem ELSE t[f]
    BY ClosedType DEF Closed, Table
  <1> HIDE DEF u
  <1>2. \A f \in Fd : Closed(u, remote)[f] = IF f = remote THEN FreeItem ELSE u[f]
    BY <1>1 DEF Closed, Table
  <1> QED
    BY <1>1, <1>2 DEF Disposed, Entries, u

(* An attempt: the entry of the last one goes, and the new one, or the     *)
(* lost one, is that of a socket that was not open, so nobody else's.      *)
LEMMA AttemptEntries ==
    ASSUME NEW t \in Table, Entries(t, remote, lost), client \in Fd,
           remote # client, lost \cap {client, remote} = {}, lost \in SUBSET Fd,
           NEW key, NEW a, NEW b, EstablishInit(t, key, a, b)
    PROVE  /\ remote' # client /\ Entries(item', remote', lost')
           /\ lost' \cap {client, remote'} = {} /\ lost \subseteq lost'
           /\ \A f \in lost : item'[f].used = t[f].used
  <1> DEFINE u == Closed(t, remote)
  <1>1. /\ u \in Table
        /\ \A f \in Fd : u[f] = IF f = remote THEN FreeItem ELSE t[f]
    BY ClosedType DEF Closed, Table
  <1> HIDE DEF u
  <1>2. \A f \in Fd \ (lost \cup {client}) : u[f] = FreeItem
    BY <1>1 DEF Entries
  <1>3. u[client] = t[client] /\ t[client].socket # "none" /\ t[client].used
    BY <1>1 DEF Entries
  <1>4. \A f \in lost : u[f] = t[f] /\ LostItem(u[f])
    BY <1>1 DEF Entries
  <1>5. PICK c \in Connect(u, request.addrs[a]) :
           /\ remote' = c.remote
           /\ lost' = lost \cup c.lost
           /\ item' = IF c.remote = NoFd THEN WithInterest(c.item, key, Op) ELSE c.item
    BY DEF EstablishInit, u
  <1>6. ASSUME NEW f \in Fd, u[f].socket = "none"
        PROVE  f \notin lost /\ f # client
    BY <1>3, <1>4, <1>6 DEF LostItem
  <1>7. CASE c \in Connecting(u)
    <2>1. PICK f \in {g \in Fd : u[g].socket = "none"}, s \in {"connecting", "connected"} :
             c = [item |-> [u EXCEPT ![f] = NewItem(s, Op)], remote |-> f, lost |-> {}]
      BY <1>7 DEF Connecting
    <2>2. /\ remote' = f /\ item' = [u EXCEPT ![f] = NewItem(s, Op)] /\ lost' = lost
          /\ f \in Fd /\ f # client /\ f \notin lost
      BY <1>5, <1>6, <2>1, NumbersAreNatural
    <2>3. NewItem(s, Op).used /\ NewItem(s, Op).socket # "none"
      BY DEF NewItem
    <2>4. \A g \in Fd : item'[g] = IF g = f THEN NewItem(s, Op) ELSE u[g]
      BY <1>1, <2>2 DEF Table
    <2>5. Entries(item', remote', lost')
      BY <1>2, <1>3, <1>4, <2>2, <2>3, <2>4 DEF Entries
    <2> QED
      BY <1>4, <2>2, <2>4, <2>5
  <1>8. ASSUME NEW v \in Table, NEW l \in SUBSET Fd, item' = WithInterest(v, key, Op),
               remote' = NoFd, lost' = lost \cup l, l \cap (lost \cup {client}) = {},
               \A g \in Fd \ l : v[g] = u[g], \A g \in l : LostItem(v[g])
        PROVE  /\ remote' # client /\ Entries(item', remote', lost')
               /\ lost' \cap {client, remote'} = {} /\ lost \subseteq lost'
               /\ \A f \in lost : item'[f].used = t[f].used
    <2>1. Op \in SUBSET Op
      OBVIOUS
    <2>2. \A g \in Fd : /\ item'[g].used = v[g].used /\ item'[g].socket = v[g].socket
                        /\ ~v[g].used => item'[g] = v[g]
      BY <1>8, <2>1, InterestChanges
    <2>3. Entries(v, NoFd, lost')
      BY <1>2, <1>3, <1>4, <1>8, NumbersAreNatural DEF Entries
    <2>4. Entries(item', NoFd, lost')
      BY <2>2, <2>3, EntriesKept
    <2> QED
      BY <1>4, <1>8, <2>2, <2>4, NumbersAreNatural
  <1>9. CASE c \in FailedAtOnce(u, request.addrs[a])
    <2> DEFINE new == IF request.addrs[a] = "v4" THEN NewItem("dead", Op)
                      ELSE [FreeItem EXCEPT !.socket = "dead"]
    <2>1. PICK f \in {g \in Fd : u[g].socket = "none"} :
             c = [item |-> [u EXCEPT ![f] = new], remote |-> NoFd, lost |-> {f}]
      BY <1>9 DEF FailedAtOnce
    <2>2. f \in Fd /\ f \notin lost /\ f # client
      BY <1>6, <2>1
    <2>3. LostItem(new) /\ new \in Item
      BY DEF LostItem, NewItem, FreeItem, Item, Socket
    <2> HIDE DEF new
    <2> DEFINE v == [u EXCEPT ![f] = new]
    <2>4. v \in Table /\ \A g \in Fd : v[g] = IF g = f THEN new ELSE u[g]
      BY <1>1, <2>2, <2>3 DEF Table
    <2>5. item' = WithInterest(v, key, Op) /\ remote' = NoFd /\ lost' = lost \cup {f}
      BY <1>5, <2>1
    <2> HIDE DEF v
    <2> DEFINE l == {f}
    <2>6. /\ l \in SUBSET Fd /\ l \cap (lost \cup {client}) = {} /\ lost' = lost \cup l
          /\ \A g \in Fd \ l : v[g] = u[g]
      BY <2>2, <2>4, <2>5
    <2>7. \A g \in l : LostItem(v[g])
      BY <2>2, <2>3, <2>4
    <2> HIDE DEF l
    <2> QED
      BY <1>8, <2>4, <2>5, <2>6, <2>7
  <1>10. CASE c \in Unopened(u)
    <2>1. item' = WithInterest(u, key, Op) /\ remote' = NoFd /\ lost' = lost \cup {}
      BY <1>5, <1>10 DEF Unopened
    <2> QED
      BY <1>1, <1>8, <2>1
  <1> QED
    BY <1>5, <1>7, <1>9, <1>10 DEF Connect

(* The reply: only the client is waited for, to take it. *)
LEMMA ReplyEntries ==
    ASSUME NEW t \in Table, Entries(t, remote, lost), client \in Fd, remote # client,
           NEW reply, Reply(t, reply)
    PROVE  /\ Entries(item', remote, lost) /\ item'[client].interest = {"W"}
           /\ remote \in Fd => item'[remote].interest = {}
           /\ \A f \in Fd : item'[f].used = t[f].used
  <1> DEFINE u == WithInterest(t, client, {"W"})
             v == WithInterest(u, remote, {})
  <1>1. {"W"} \in SUBSET Op /\ {} \in SUBSET Op
    BY DEF Op
  <1>2. t[client].used
    BY DEF Entries
  <1>3. /\ u \in Table
        /\ \A g \in Fd : /\ u[g].used = t[g].used /\ u[g].socket = t[g].socket
                         /\ ~t[g].used => u[g] = t[g]
        /\ u[client].interest = {"W"}
    BY <1>1, <1>2, InterestChanges
  <1> HIDE DEF u
  <1>4. /\ \A g \in Fd : /\ v[g].used = u[g].used /\ v[g].socket = u[g].socket
                         /\ g # remote \/ ~u[g].used => v[g] = u[g]
                         /\ g = remote /\ u[g].used => v[g].interest = {}
    BY <1>1, <1>3, InterestChanges
  <1> HIDE DEF v
  <1>5. item' = v
    BY DEF Reply, u, v
  <1>6. Entries(v, remote, lost)
    BY <1>3, <1>4, EntriesKept
  <1>7. v[client].interest = {"W"}
    BY <1>3, <1>4
  <1>8. remote \in Fd => u[remote].used
    BY <1>3 DEF Entries
  <1> QED
    BY <1>3, <1>4, <1>5, <1>6, <1>7, <1>8

-------------------------------------------------------------------------------
(* The handlers. *)

(* What every handler needs of the invariant. *)
LEMMA TableFacts ==
    ASSUME TableInv, state \in AliveStates
    PROVE  /\ item \in Table /\ client \in Fd /\ remote # client /\ cut = "not"
           /\ Entries(item, remote, lost)
           /\ remote \in Fd \cup {NoFd} /\ lost \in SUBSET Fd
           /\ lost \cap {client, remote} = {} /\ \A f \in lost : LostItem(item[f])
           /\ command = "SUCCEEDED" => remote \in Fd
  BY DEF TableInv, TableFollowsState, EntriesFollowState, EstablishInv, BlockFollowsState,
         AliveStates, TypeOK, Table

(* A lost socket stays what it is: a table that is tidy was so before. *)
LEMMA TidyBefore ==
    ASSUME cut' = cut, lost \subseteq lost', \A f \in lost : item'[f].used = item[f].used,
           Tidy'
    PROVE  Tidy
  BY DEF Tidy, Haunted

(* The steps from one state of a living connection to the next, or to the  *)
(* end of the server.                                                      *)
LEMMA StaysAlive ==
    ASSUME cut = "not", cut' = cut, client' = client, remote' # client,
           state' \notin {"ERROR", "DONE", "ABORTED"},
           Entries(item', remote', lost'), lost' \cap {client, remote'} = {},
           lost' \in SUBSET Fd,
           command' = "SUCCEEDED" => remote' \in Fd
    PROVE  EntriesFollowState'
  <1>1. \A f \in lost' : LostItem(item'[f])
    BY DEF Entries
  <1> QED
    BY <1>1 DEF EntriesFollowState, Entries

(* ... and the steps that dispose of it. *)
LEMMA IsDisposedOf ==
    ASSUME cut = "not", cut' = cut, UNCHANGED <<client, remote, lost, command>>,
           state' \in {"ERROR", "DONE"}, NEW t \in Table, Entries(t, remote, lost),
           client \in Fd, remote # client, lost \in SUBSET Fd,
           lost \cap {client, remote} = {}, command = "SUCCEEDED" => remote \in Fd,
           item' = Disposed(t)
    PROVE  EntriesFollowState' /\ \A f \in lost : item'[f].used = t[f].used
  <1>1. \A f \in Fd : item'[f] = IF f \in lost THEN t[f] ELSE FreeItem
    BY DisposedEntries
  <1>2. \A f \in lost : LostItem(item'[f])
    BY <1>1 DEF Entries
  <1> QED
    BY <1>1, <1>2 DEF EntriesFollowState

(* An attempt on an address, from any state that comes before it. *)
LEMMA AttemptFollows ==
    ASSUME TableInv, state \in {"REQUEST_READ", "DNS_READ", "ESTABLISH_CONNECTION"},
           client' = client, cut' = cut, EstablishInv',
           NEW t \in Table, Entries(t, remote, lost),
           \A f \in lost : t[f].used = item[f].used,
           NEW key, NEW a, NEW b, EstablishInit(t, key, a, b)
    PROVE  TableFollowsState'
  <1>0. state \in AliveStates
    BY DEF AliveStates
  <1>1. /\ client \in Fd /\ remote # client /\ cut = "not" /\ lost \in SUBSET Fd
        /\ lost \cap {client, remote} = {}
    BY <1>0, TableFacts
  <1>2. /\ remote' # client /\ Entries(item', remote', lost')
        /\ lost' \cap {client, remote'} = {} /\ lost \subseteq lost'
        /\ \A f \in lost : item'[f].used = t[f].used
    BY <1>1, AttemptEntries
  <1>3. /\ state' = "ESTABLISH_CONNECTION" /\ replied' = replied
        /\ command' \in {"FAILED", "NOT_DECIDED"}
    BY DEF EstablishInit
  <1>4. lost' \in SUBSET Fd
    BY DEF EstablishInv, TypeOK
  <1>5. EntriesFollowState'
    BY <1>1, <1>2, <1>3, <1>4, StaysAlive
  <1>6. ASSUME Tidy' PROVE InterestFollowsState' /\ PendingFollowsState'
    <2>1. Tidy
      BY <1>2, <1>6, TidyBefore
    <2>2. ~replied
      BY <2>1 DEF TableInv, TableFollowsState, PendingFollowsState
    <2> QED
      BY <1>3, <2>2 DEF InterestFollowsState, PendingFollowsState
  <1> QED
    BY <1>5, <1>6 DEF TableFollowsState

(* A reply is begun: the client watches for writing, and a remote for nothing. *)
LEMMA ReplyFollows ==
    ASSUME TableInv, state \in {"REQUEST_READ", "DNS_READ", "ESTABLISH_CONNECTION"},
           client' = client, cut' = cut,
           NEW t \in Table, Entries(t, remote, lost),
           \A f \in lost : t[f].used = item[f].used,
           NEW reply, Reply(t, reply), reply = "SUCCEEDED" => remote \in Fd
    PROVE  TableFollowsState'
  <1>0. state \in AliveStates
    BY DEF AliveStates
  <1>1. /\ client \in Fd /\ remote # client /\ cut = "not" /\ lost \in SUBSET Fd
        /\ lost \cap {client, remote} = {}
    BY <1>0, TableFacts
  <1>2. /\ Entries(item', remote, lost) /\ item'[client].interest = {"W"}
        /\ remote \in Fd => item'[remote].interest = {}
        /\ \A f \in Fd : item'[f].used = t[f].used
    BY <1>1, ReplyEntries
  <1>3. /\ state' = "REQUEST_WRITE" /\ command' = reply
        /\ remote' = remote /\ replied' = replied /\ lost' = lost
    BY DEF Reply
  <1>4. EntriesFollowState'
    BY <1>1, <1>2, <1>3, StaysAlive
  <1>5. ASSUME Tidy' PROVE InterestFollowsState' /\ PendingFollowsState'
    <2>1. Tidy
      BY <1>1, <1>2, <1>3, <1>5, TidyBefore
    <2>2. ~replied
      BY <2>1 DEF TableInv, TableFollowsState, PendingFollowsState
    <2> QED
      BY <1>2, <1>3, <2>2 DEF InterestFollowsState, PendingFollowsState
  <1> QED
    BY <1>4, <1>5 DEF TableFollowsState

(* REQUEST_READ, whichever way the request is taken. *)
LEMMA RequestReadEntries ==
    ASSUME TableInv, RequestReadRun, EstablishInv', client' = client, cut' = cut,
           Tidy => pend' = {}
    PROVE  TableFollowsState'
  <1> DEFINE t == [item EXCEPT ![client].socket = "connected"]
  <1>1. /\ state = "REQUEST_READ" /\ state \in AliveStates
        /\ command = "NOT_DECIDED" /\ remote = NoFd
    BY DEF RequestReadRun, TableInv, EstablishInv, DataFollowsState, AliveStates
  <1>2. /\ Entries(item, remote, lost) /\ item \in Table /\ client \in Fd
        /\ remote # client /\ cut = "not" /\ lost \in SUBSET Fd
        /\ lost \cap {client, remote} = {}
    BY <1>1, TableFacts
  <1>3. Tidy => item[client].interest = {"R"} /\ ~replied
    BY <1>1 DEF TableInv, TableFollowsState, InterestFollowsState, PendingFollowsState
  <1>4. "connected" \in Socket
    BY DEF Socket
  <1>5. /\ t \in Table
        /\ \A g \in Fd : /\ t[g].used = item[g].used /\ t[g].interest = item[g].interest
                         /\ g # client => t[g] = item[g]
        /\ t[client].socket = "connected"
    BY <1>2, <1>4, SocketChanges
  <1>6. Incomplete(t) \/ Malformed(t) \/ Unsupported(t) \/ Resolve(t) \/ Literal(t)
    BY DEF RequestReadRun
  <1> HIDE DEF t
  <1>7. /\ Entries(t, remote, lost) /\ t[client].used
        /\ \A f \in lost : t[f].used = item[f].used
    <2>1. item[client].used
      BY <1>2 DEF Entries
    <2>2. client \notin lost
      BY <1>2
    <2>3. \A g \in Fd : /\ t[g].used = item[g].used
                        /\ item[g].socket # "none" => t[g].socket # "none"
                        /\ g \in lost => t[g].socket = item[g].socket
                        /\ ~item[g].used => t[g] = item[g]
      BY <1>5, <2>1, <2>2
    <2> QED
      BY <1>2, <1>5, <2>1, <2>3, EntriesKept
  <1> DEFINE q == WithInterest(t, client, {})
  <1>8. /\ q \in Table /\ Entries(q, remote, lost) /\ q[client].interest = {}
        /\ \A f \in lost : q[f].used = item[f].used
    <2>1. {} \in SUBSET Op
      OBVIOUS
    <2>2. /\ q \in Table
          /\ \A g \in Fd : /\ q[g].used = t[g].used /\ q[g].socket = t[g].socket
                           /\ ~t[g].used => q[g] = t[g]
          /\ q[client].interest = {}
      BY <1>2, <1>5, <1>7, <2>1, InterestChanges
    <2>3. Entries(q, remote, lost)
      BY <1>7, <2>2, EntriesKept
    <2> QED
      BY <1>2, <1>7, <2>2, <2>3
  <1> HIDE DEF q
  <1>9. CASE Incomplete(t)
    <2>1. /\ item' = t
          /\ UNCHANGED <<state, remote, command, replied, lost>>
      BY <1>9 DEF Incomplete
    <2>2. EntriesFollowState'
      BY <1>1, <1>2, <1>7, <2>1, StaysAlive
    <2>3. ASSUME Tidy' PROVE InterestFollowsState' /\ PendingFollowsState'
      <3>1. Tidy
        BY <1>7, <2>1, <2>3, TidyBefore
      <3> QED
        BY <1>1, <1>2, <1>3, <1>5, <2>1, <3>1 DEF InterestFollowsState, PendingFollowsState
    <2> QED
      BY <2>2, <2>3 DEF TableFollowsState
  <1>10. CASE Malformed(t)
    <2>1. /\ item' = Disposed(t) /\ state' = "ERROR"
          /\ UNCHANGED <<client, remote, lost, command>>
      BY <1>10 DEF Malformed
    <2>2. EntriesFollowState'
      BY <1>1, <1>2, <1>5, <1>7, <2>1, IsDisposedOf
    <2> QED
      BY <2>1, <2>2 DEF TableFollowsState, InterestFollowsState, PendingFollowsState
  <1>11. CASE Unsupported(t)
    <2>1. Reply(t, "FAILED")
      BY <1>11 DEF Unsupported
    <2> QED
      BY <1>1, <1>5, <1>7, <2>1, ReplyFollows
  <1>12. CASE Resolve(t)
    <2>1. /\ item' = q /\ state' = "DNS_READ"
          /\ UNCHANGED <<remote, command, replied, lost>>
      BY <1>12 DEF Resolve, q
    <2>2. EntriesFollowState'
      BY <1>1, <1>2, <1>8, <2>1, StaysAlive
    <2>3. ASSUME Tidy' PROVE InterestFollowsState' /\ PendingFollowsState'
      <3>1. Tidy
        BY <1>8, <2>1, <2>3, TidyBefore
      <3> QED
        BY <1>3, <1>8, <2>1, <3>1 DEF InterestFollowsState, PendingFollowsState
    <2> QED
      BY <2>2, <2>3 DEF TableFollowsState
  <1>13. CASE Literal(t)
    <2>1. EstablishInit(q, client, 1, "held")
      BY <1>13 DEF Literal, q
    <2> QED
      BY <1>1, <1>8, <2>1, AttemptFollows
  <1> QED
    BY <1>6, <1>9, <1>10, <1>11, <1>12, <1>13

(* ESTABLISH_CONNECTION, with an event of any descriptor. *)
LEMMA EstablishRunEntries ==
    ASSUME TableInv, NEW key, EstablishRun(key), EstablishInv', client' = client,
           cut' = cut
    PROVE  TableFollowsState'
  <1>1. state = "ESTABLISH_CONNECTION" /\ state \in AliveStates
    BY DEF EstablishRun, AliveStates
  <1>2. /\ item \in Table /\ Entries(item, remote, lost) /\ client \in Fd
        /\ remote # client /\ cut = "not" /\ lost \in SUBSET Fd
        /\ lost \cap {client, remote} = {}
        /\ command = "SUCCEEDED" => remote \in Fd
    BY <1>1, TableFacts
  <1>3. command = "NOT_DECIDED" => remote \in Fd
    BY <1>1 DEF TableInv, EstablishInv, DataFollowsState, TypeOK
  <1>4. ASSUME NEW t \in Table, Entries(t, remote, lost), Advance(key, t),
               \A f \in lost : t[f].used = item[f].used
        PROVE  TableFollowsState'
    <2>1. CASE EstablishInit(t, key, current + 1, block)
      BY <1>1, <1>4, <2>1, AttemptFollows
    <2>2. CASE Reply(t, "FAILED")
      BY <1>1, <1>4, <2>2, ReplyFollows
    <2>3. CASE state' = "CRASHED" /\ UNCHANGED <<remote, item, command, lost>>
      <3>1. EntriesFollowState'
        BY <1>2, <2>3, StaysAlive
      <3> QED
        BY <2>3, <3>1 DEF TableFollowsState, InterestFollowsState, PendingFollowsState
    <2> QED
      BY <1>4, <2>1, <2>2, <2>3 DEF Advance
  <1>5. CASE command = "FAILED" /\ Advance(key, item)
    BY <1>2, <1>4, <1>5
  <1>6. CASE command = "NOT_DECIDED" /\ Reply(item, "SUCCEEDED")
    BY <1>1, <1>2, <1>3, <1>6, ReplyFollows
  <1>7. CASE /\ command = "NOT_DECIDED"
             /\ Advance(key, [item EXCEPT ![remote].socket = "dead"])
    <2> DEFINE t == [item EXCEPT ![remote].socket = "dead"]
    <2>1. "dead" \in Socket /\ "dead" # "none"
      BY DEF Socket
    <2>2. /\ t \in Table
          /\ \A g \in Fd : /\ t[g].used = item[g].used /\ t[g].interest = item[g].interest
                           /\ g # remote => t[g] = item[g]
          /\ t[remote].socket = "dead"
      BY <1>2, <1>3, <1>7, <2>1, SocketChanges
    <2> HIDE DEF t
    <2>3. item[remote].used /\ remote \notin lost
      BY <1>2, <1>3, <1>7 DEF Entries
    <2>4. \A g \in Fd : /\ t[g].used = item[g].used
                        /\ item[g].socket # "none" => t[g].socket # "none"
                        /\ g \in lost => t[g].socket = item[g].socket
                        /\ ~item[g].used => t[g] = item[g]
      BY <2>1, <2>2, <2>3
    <2>5. Entries(t, remote, lost)
      BY <1>2, <2>4, EntriesKept
    <2> QED
      BY <1>2, <1>4, <1>7, <2>2, <2>5 DEF t
  <1> QED
    BY <1>5, <1>6, <1>7 DEF EstablishRun

(* The reply leaves in one piece; then Relay takes over, or all is closed. *)
LEMMA RequestWriteEntries ==
    ASSUME TableInv, RequestWriteRun, client' = client, cut' = cut,
           Tidy => /\ <<client, "W">> \notin pend'
                   /\ pend \subseteq {<<client, "W">>} => pend' = {}
                   /\ <<client, "W">> \in pend
    PROVE  TableFollowsState'
  <1>1. state = "REQUEST_WRITE" /\ state \in AliveStates
        /\ UNCHANGED <<remote, command, lost>>
    BY DEF RequestWriteRun, AliveStates
  <1>2. /\ item \in Table /\ Entries(item, remote, lost) /\ client \in Fd
        /\ remote # client /\ cut = "not" /\ lost \in SUBSET Fd
        /\ lost \cap {client, remote} = {}
        /\ command = "SUCCEEDED" => remote \in Fd
    BY <1>1, TableFacts
  <1>3. Tidy => /\ item[client].interest = {"W"}
                /\ remote \in Fd => item[remote].interest = {}
    BY <1>1 DEF TableInv, TableFollowsState, InterestFollowsState
  <1>4. CASE replied' = TRUE /\ UNCHANGED <<state, item>>
    <2>1. EntriesFollowState'
      BY <1>1, <1>2, <1>4, StaysAlive
    <2>2. ASSUME Tidy' PROVE InterestFollowsState' /\ PendingFollowsState'
      <3>1. Tidy
        BY <1>1, <1>4, <2>2, TidyBefore
      <3> QED
        BY <1>1, <1>3, <1>4, <3>1 DEF InterestFollowsState, PendingFollowsState
    <2> QED
      BY <2>1, <2>2 DEF TableFollowsState
  <1>5. CASE /\ replied /\ command = "SUCCEEDED" /\ item' = AwaitBoth(item)
             /\ state' = "CONNECTED"
    <2> DEFINE u == WithInterest(item, client, {"R"})
               v == WithInterest(u, remote, {"R"})
    <2>1. {"R"} \in SUBSET Op
      BY DEF Op
    <2>2. item[client].used /\ item[remote].used /\ remote \in Fd
      BY <1>2, <1>5 DEF Entries
    <2>3. /\ u \in Table
          /\ \A g \in Fd : /\ u[g].used = item[g].used /\ u[g].socket = item[g].socket
                           /\ ~item[g].used => u[g] = item[g]
          /\ u[client].interest = {"R"}
      BY <1>2, <2>1, <2>2, InterestChanges
    <2> HIDE DEF u
    <2>4. /\ \A g \in Fd : /\ v[g].used = u[g].used /\ v[g].socket = u[g].socket
                           /\ g # remote \/ ~u[g].used => v[g] = u[g]
          /\ v[remote].interest = {"R"}
      BY <2>1, <2>2, <2>3, InterestChanges
    <2> HIDE DEF v
    <2>5. item' = v
      BY <1>5 DEF AwaitBoth, u, v
    <2>6. \A g \in Fd : /\ v[g].used = item[g].used /\ v[g].socket = item[g].socket
                        /\ ~item[g].used => v[g] = item[g]
      BY <2>3, <2>4
    <2>7. Entries(v, remote, lost) /\ v[client].interest = {"R"}
      BY <1>2, <2>3, <2>4, <2>6, EntriesKept
    <2>8. EntriesFollowState'
      BY <1>1, <1>2, <1>5, <2>2, <2>5, <2>7, StaysAlive
    <2>9. ASSUME Tidy' PROVE InterestFollowsState' /\ PendingFollowsState'
      <3>1. Tidy
        BY <1>1, <1>2, <2>5, <2>6, <2>9, TidyBefore
      <3>2. pend \subseteq {<<client, "W">>}
        BY <1>1, <1>5, <3>1 DEF TableInv, TableFollowsState, PendingFollowsState
      <3>3. pend' = {}
        BY <3>1, <3>2
      <3> QED
        BY <1>1, <1>5, <2>2, <2>4, <2>5, <2>7, <3>3
           DEF InterestFollowsState, PendingFollowsState
    <2> QED
      BY <2>8, <2>9 DEF TableFollowsState
  <1>6. CASE command # "SUCCEEDED" /\ item' = Disposed(item) /\ state' = "DONE"
    <2>1. EntriesFollowState'
      BY <1>1, <1>2, <1>6, IsDisposedOf
    <2> QED
      BY <1>6, <2>1 DEF TableFollowsState, InterestFollowsState, PendingFollowsState
  <1> QED
    BY <1>4, <1>5, <1>6 DEF RequestWriteRun

-------------------------------------------------------------------------------
(* The select loop and the environment. *)

(* An event that is delivered is one its state has a handler for, unless a *)
(* lost socket is registered: the entries in use are the client's and the  *)
(* remote's, and they await no other.                                      *)
LEMMA DeliverEntries ==
    ASSUME TableInv, EstablishInv', NEW e \in Fd \X Op, Deliver(e)
    PROVE  TableFollowsState'
  <1>1. /\ e \in pend /\ e[1] \in Fd /\ e[2] \in Op /\ e[2] \in item[e[1]].interest
        /\ state \in AliveStates /\ client' = client /\ cut' = cut
        /\ pend' = pend \ {e}
        /\ IF e[2] \in HandledOps(state) THEN Handle(e[1], e[2]) ELSE Abort
        /\ e = <<e[1], e[2]>>
    BY DEF Deliver, Visited, Alive
  <1>2. /\ Entries(item, remote, lost) /\ client \in Fd /\ item \in Table /\ cut = "not"
        /\ remote # client /\ lost \in SUBSET Fd /\ lost \cap {client, remote} = {}
        /\ \A f \in lost : LostItem(item[f])
        /\ command = "SUCCEEDED" => remote \in Fd
        /\ remote \in Fd \cup {NoFd}
    BY <1>1, TableFacts
  <1>3. Tidy => e[1] \in {client, remote}
    <2> SUFFICES ASSUME Tidy, e[1] \notin {client, remote} PROVE FALSE
      OBVIOUS
    <2>1. FreeItem.interest = {}
      BY DEF FreeItem
    <2>2. e[1] \in lost
      BY <1>1, <1>2, <2>1 DEF Entries
    <2>3. ~item[e[1]].used
      BY <2>2 DEF Tidy, Haunted
    <2>4. LostItem(item[e[1]])
      BY <1>2, <2>2
    <2>5. item[e[1]].interest = {}
      BY <2>3, <2>4 DEF LostItem
    <2> QED
      BY <1>1, <2>5
  <1>4. Tidy => e[2] \in HandledOps(state)
    <2> SUFFICES ASSUME Tidy PROVE e[2] \in HandledOps(state)
      OBVIOUS
    <2>0. InterestFollowsState /\ PendingFollowsState
      BY DEF TableInv, TableFollowsState
    <2>1. CASE state = "REQUEST_READ"
      <3>1. pend \subseteq {<<client, "R">>}
        BY <2>0, <2>1 DEF PendingFollowsState
      <3> QED
        BY <1>1, <2>1, <3>1 DEF HandledOps
    <2>2. CASE state = "DNS_READ"
      BY <1>1, <2>0, <2>2 DEF PendingFollowsState
    <2>3. CASE state = "ESTABLISH_CONNECTION"
      BY <1>1, <2>3 DEF HandledOps, Op
    <2>4. CASE state = "REQUEST_WRITE"
      <3>1. /\ item[client].interest = {"W"}
            /\ remote \in Fd => item[remote].interest = {}
        BY <2>0, <2>4 DEF InterestFollowsState
      <3> QED
        BY <1>1, <1>3, <2>4, <3>1 DEF HandledOps
    <2> QED
      BY <1>1, <2>1, <2>2, <2>3, <2>4 DEF AliveStates
  <1>5. CASE e[2] \notin HandledOps(state)
    <2>1. state' = "ABORTED" /\ UNCHANGED <<remote, item, command, lost>>
      BY <1>1, <1>5 DEF Abort
    <2>2. Haunted /\ Haunted'
      BY <1>2, <1>4, <1>5, <2>1 DEF Tidy, Haunted
    <2>3. EntriesFollowState'
      BY <1>1, <1>2, <2>1, <2>2 DEF EntriesFollowState, Entries
    <2> QED
      BY <2>2, <2>3 DEF TableFollowsState, Tidy
  <1>6. CASE RequestReadRun
    <2>1. Tidy => pend \subseteq {<<client, "R">>}
      BY <1>6 DEF RequestReadRun, TableInv, TableFollowsState, PendingFollowsState
    <2>2. Tidy => pend' = {}
      BY <1>1, <2>1
    <2> QED
      BY <1>1, <1>6, <2>2, RequestReadEntries
  <1>7. CASE EstablishRun(e[1])
    BY <1>1, <1>7, EstablishRunEntries
  <1>8. CASE RequestWriteRun /\ e[2] = "W"
    <2>1. state = "REQUEST_WRITE"
      BY <1>8 DEF RequestWriteRun
    <2>2. ASSUME Tidy
          PROVE  /\ <<client, "W">> \notin pend' /\ <<client, "W">> \in pend
                 /\ pend \subseteq {<<client, "W">>} => pend' = {}
      <3>1. remote \in Fd => item[remote].interest = {}
        BY <2>1, <2>2 DEF TableInv, TableFollowsState, InterestFollowsState
      <3>2. e[1] = client
        BY <1>1, <1>3, <2>2, <3>1
      <3>3. e = <<client, "W">>
        BY <1>1, <1>8, <3>2
      <3> QED
        BY <1>1, <3>3
    <2> QED
      BY <1>1, <1>8, <2>2, RequestWriteEntries
  <1> QED
    BY <1>1, <1>5, <1>6, <1>7, <1>8 DEF Handle

(* Events are found ready only of what is awaited. *)
LEMMA SelectEntries ==
    ASSUME TableInv, Select
    PROVE  TableFollowsState'
  <1>1. /\ state \in AliveStates /\ pend' = ReadyEvents
        /\ UNCHANGED <<state, client, remote, item, command, replied, lost, cut>>
    BY DEF Select, Alive
  <1>2. /\ Entries(item, remote, lost) /\ client \in Fd /\ remote \in Fd \cup {NoFd}
        /\ \A f \in lost : LostItem(item[f])
    BY <1>1, TableFacts
  <1>3. EntriesFollowState'
    BY <1>1 DEF TableInv, TableFollowsState, EntriesFollowState, Entries, Haunted
  <1>4. SUFFICES ASSUME Tidy' PROVE InterestFollowsState' /\ PendingFollowsState'
    BY <1>3 DEF TableFollowsState
  <1>5. Tidy /\ InterestFollowsState /\ PendingFollowsState
    BY <1>1, <1>4 DEF Tidy, Haunted, TableInv, TableFollowsState
  <1>6. InterestFollowsState'
    BY <1>1, <1>5 DEF InterestFollowsState
  <1>7. ASSUME NEW e \in ReadyEvents
        PROVE  /\ e = <<e[1], e[2]>> /\ e[1] \in {client, remote} /\ e[1] \in Fd
               /\ e[2] \in item[e[1]].interest
    <2>1. e \in Fd \X Op /\ e[2] \in item[e[1]].interest
      BY DEF ReadyEvents
    <2>2. FreeItem.interest = {}
      BY DEF FreeItem
    <2>3. e[1] \notin lost
      <3> SUFFICES ASSUME e[1] \in lost PROVE FALSE
        OBVIOUS
      <3>1. ~item[e[1]].used
        BY <1>5 DEF Tidy, Haunted
      <3> QED
        BY <1>2, <2>1, <3>1 DEF LostItem
    <2> QED
      BY <1>2, <2>1, <2>2, <2>3 DEF Entries
  <1>8. state \in {"REQUEST_READ", "DNS_READ", "ESTABLISH_CONNECTION"} => ~replied
    BY <1>5 DEF PendingFollowsState
  <1>9. CASE state = "REQUEST_READ"
    <2>1. remote = NoFd /\ item[client].interest = {"R"}
      BY <1>5, <1>9 DEF TableInv, EstablishInv, DataFollowsState, InterestFollowsState
    <2>2. pend' \subseteq {<<client, "R">>}
      BY <1>1, <1>7, <2>1, NumbersAreNatural
    <2> QED
      BY <1>1, <1>6, <1>8, <1>9, <2>2 DEF PendingFollowsState
  <1>10. CASE state = "DNS_READ"
    <2>1. remote = NoFd /\ item[client].interest = {}
      BY <1>5, <1>10 DEF TableInv, EstablishInv, DataFollowsState, InterestFollowsState
    <2>2. pend' = {}
      BY <1>1, <1>7, <2>1, NumbersAreNatural
    <2> QED
      BY <1>1, <1>6, <1>8, <1>10, <2>2 DEF PendingFollowsState
  <1>11. CASE state = "ESTABLISH_CONNECTION"
    BY <1>1, <1>6, <1>8, <1>11 DEF PendingFollowsState
  <1>12. CASE state = "REQUEST_WRITE"
    <2>1. /\ item[client].interest = {"W"}
          /\ remote \in Fd => item[remote].interest = {}
      BY <1>5, <1>12 DEF InterestFollowsState
    <2>2. pend' \subseteq {<<client, "W">>}
      BY <1>1, <1>7, <2>1
    <2> QED
      BY <1>1, <1>6, <1>12, <2>2 DEF PendingFollowsState
  <1> QED
    BY <1>1, <1>9, <1>10, <1>11, <1>12 DEF AliveStates

(* An answer of the resolver finds the connection in DNS_READ, unless the  *)
(* idle timeout disposed of it there.                                      *)
LEMMA NotifyEntries ==
    ASSUME TableInv, EstablishInv', Notify
    PROVE  TableFollowsState'
  <1>1. /\ state \in AliveStates \cup {"TIMED_OUT"} /\ resolver = "answered"
        /\ client' = client /\ cut' = cut /\ pend = {} /\ pend' = {}
    BY DEF Notify, Alive
  <1>2. cut \in {"not", "DNS_READ"}
    BY <1>1 DEF TableInv, EstablishInv, DataFollowsState
  <1>3. CASE state \in AliveStates
    <2>1. state = "DNS_READ"
      BY <1>1, <1>3 DEF TableInv, EstablishInv, DataFollowsState, AliveStates
    <2>2. /\ item \in Table /\ client \in Fd /\ Entries(item, remote, lost)
          /\ item[client].used
      BY <1>3, TableFacts DEF Entries
    <2>3. DnsRead
      BY <2>1, <2>2 DEF Notify
    <2>4. CASE Reply(item, "FAILED")
      BY <1>1, <2>1, <2>2, <2>4, ReplyFollows
    <2>5. CASE EstablishInit(item, client, 1, block)
      BY <1>1, <2>1, <2>2, <2>5, AttemptFollows
    <2> QED
      BY <2>3, <2>4, <2>5 DEF DnsRead
  <1>4. CASE state = "TIMED_OUT"
    <2>1. cut = "DNS_READ"
      BY <1>2, <1>4 DEF TableInv, EstablishInv, BlockFollowsState
    <2>2. UNCHANGED <<remote, item, command, lost>>
      BY <1>4 DEF Notify
    <2>3. EntriesFollowState'
      BY <1>1, <2>1, <2>2 DEF TableInv, TableFollowsState, EntriesFollowState
    <2>4. ~Tidy'
      BY <1>1, <2>1 DEF Tidy
    <2> QED
      BY <2>3, <2>4 DEF TableFollowsState
  <1> QED
    BY <1>1, <1>3, <1>4

(* The idle timeout leaves the lost sockets. *)
LEMMA IdleTimeoutEntries ==
    ASSUME TableInv, IdleTimeout
    PROVE  TableFollowsState'
  <1>1. /\ state \in AliveStates
        /\ UNCHANGED <<client, remote, command, lost>>
        /\ \/ state' = "TIMED_OUT" /\ cut' = state /\ item' = Disposed(item)
           \/ state' = "CRASHED" /\ item' = item /\ cut' = cut
    BY DEF IdleTimeout, Alive
  <1>2. /\ item \in Table /\ client \in Fd /\ remote # client /\ cut = "not"
        /\ Entries(item, remote, lost) /\ lost \in SUBSET Fd
        /\ lost \cap {client, remote} = {} /\ \A f \in lost : LostItem(item[f])
        /\ command = "SUCCEEDED" => remote \in Fd
    BY <1>1, TableFacts
  <1>3. CASE state' = "TIMED_OUT" /\ cut' = state /\ item' = Disposed(item)
    <2>1. cut' # "not"
      BY <1>1, <1>3 DEF AliveStates
    <2>2. \A f \in Fd : item'[f] = IF f \in lost THEN item[f] ELSE FreeItem
      BY <1>2, <1>3, DisposedEntries
    <2>3. /\ \A f \in lost : LostItem(item'[f])
          /\ \A f \in Fd \ (lost \cup {client}) : item'[f] = FreeItem
      BY <1>2, <2>2
    <2>4. EntriesFollowState'
      BY <1>1, <1>2, <1>3, <2>1, <2>3 DEF EntriesFollowState
    <2> QED
      BY <2>1, <2>4 DEF TableFollowsState, Tidy
  <1>4. CASE state' = "CRASHED" /\ item' = item /\ cut' = cut
    <2>1. EntriesFollowState'
      BY <1>1, <1>2, <1>4 DEF EntriesFollowState, Entries
    <2> QED
      BY <1>4, <2>1 DEF TableFollowsState, InterestFollowsState, PendingFollowsState
  <1> QED
    BY <1>1, <1>3, <1>4

(* The state of an open socket changes. *)
LEMMA SocketEntries ==
    ASSUME TableInv, NEW f \in Fd, Settle(f) \/ Talk(f)
    PROVE  TableFollowsState'
  <1>1. PICK s \in {"connected", "failed", "talking"} : SocketBecomes(f, s)
    BY DEF Settle, Talk
  <1>2. /\ item' = [item EXCEPT ![f].socket = s]
        /\ UNCHANGED <<state, client, remote, pend, command, replied, lost, cut>>
    BY <1>1 DEF SocketBecomes
  <1>3. state \in AliveStates /\ item[f].socket \in {"connecting", "connected"}
    BY DEF Settle, Talk, Alive
  <1>4. /\ Entries(item, remote, lost) /\ item \in Table /\ client \in Fd /\ cut = "not"
        /\ remote # client /\ lost \in SUBSET Fd /\ lost \cap {client, remote} = {}
        /\ \A g \in lost : LostItem(item[g])
        /\ command = "SUCCEEDED" => remote \in Fd
    BY <1>3, TableFacts
  <1>5. s \in Socket /\ s # "none"
    BY DEF Socket
  <1>6. /\ \A g \in Fd : /\ item'[g].used = item[g].used
                         /\ item'[g].interest = item[g].interest
                         /\ g # f => item'[g] = item[g]
        /\ item'[f].socket = s
    BY <1>2, <1>4, <1>5, SocketChanges
  <1>7. f \notin lost /\ item[f].used
    BY <1>3, <1>4 DEF Entries, FreeItem, LostItem
  <1>8. \A g \in Fd : /\ item'[g].used = item[g].used
                      /\ item[g].socket # "none" => item'[g].socket # "none"
                      /\ g \in lost => item'[g].socket = item[g].socket
                      /\ ~item[g].used => item'[g] = item[g]
    BY <1>5, <1>6, <1>7
  <1>9. Entries(item', remote, lost)
    BY <1>4, <1>8, EntriesKept
  <1>10. state' \notin {"ERROR", "DONE", "ABORTED"}
    BY <1>2, <1>3 DEF AliveStates
  <1>11. EntriesFollowState'
    BY <1>2, <1>4, <1>9, <1>10, StaysAlive
  <1>12. SUFFICES ASSUME Tidy' PROVE InterestFollowsState' /\ PendingFollowsState'
    BY <1>11 DEF TableFollowsState
  <1>13. Tidy
    BY <1>2, <1>4, <1>8, <1>12, TidyBefore
  <1>14. InterestFollowsState /\ PendingFollowsState
    BY <1>13 DEF TableInv, TableFollowsState
  <1> QED
    BY <1>2, <1>4, <1>6, <1>14 DEF InterestFollowsState, PendingFollowsState

(* A new client with the number of the one that was disposed of. *)
LEMMA AcceptEntries ==
    ASSUME TableInv, Accept
    PROVE  TableFollowsState'
  <1>1. /\ state = "TIMED_OUT" /\ item[client].socket = "none"
        /\ item' = [item EXCEPT ![client] = NewItem("connected", {"R"})]
        /\ UNCHANGED <<state, client, remote, command, lost, cut>>
    BY DEF Accept
  <1>2. /\ cut # "not" /\ item \in Table /\ client \in Fd /\ lost \in SUBSET Fd
    BY <1>1 DEF TableInv, EstablishInv, BlockFollowsState, TypeOK, Table
  <1>3. \A f \in Fd \ {client} : item'[f] = item[f]
    BY <1>1, <1>2 DEF Table
  <1>4. /\ remote # client /\ lost \cap {client, remote} = {}
        /\ \A f \in lost : LostItem(item[f])
        /\ \A f \in Fd \ (lost \cup {client}) : item[f] = FreeItem
        /\ command = "SUCCEEDED" => remote \in Fd
    BY <1>2 DEF TableInv, TableFollowsState, EntriesFollowState
  <1>5. /\ \A f \in lost : LostItem(item'[f])
        /\ \A f \in Fd \ (lost \cup {client}) : item'[f] = FreeItem
    BY <1>2, <1>3, <1>4
  <1>6. EntriesFollowState'
    BY <1>1, <1>2, <1>4, <1>5 DEF EntriesFollowState
  <1>7. ~Tidy'
    BY <1>1, <1>2 DEF Tidy
  <1> QED
    BY <1>6, <1>7 DEF TableFollowsState

(* Steps that leave the table alone, and may drop an event. *)
LEMMA QuietEntries ==
    ASSUME TableInv,
           UNCHANGED <<state, client, remote, item, command, replied, lost, cut>>,
           pend' \subseteq pend
    PROVE  TableFollowsState'
  <1>1. EntriesFollowState'
    BY DEF TableInv, TableFollowsState, EntriesFollowState, Entries, Haunted
  <1>2. SUFFICES ASSUME Tidy' PROVE InterestFollowsState' /\ PendingFollowsState'
    BY <1>1 DEF TableFollowsState
  <1>3. InterestFollowsState /\ PendingFollowsState
    BY <1>2 DEF Tidy, Haunted, TableInv, TableFollowsState
  <1> QED
    BY <1>3 DEF InterestFollowsState, PendingFollowsState

-------------------------------------------------------------------------------
(* The table of descriptors follows the state whatever fails; what is      *)
(* awaited and what is pending follow it as long as no lost socket is      *)
(* registered and no idle timeout has struck: the inductive invariant.     *)
THEOREM TableInvariantHolds == Spec => []TableInv
  <1>1. Init => TableFollowsState
    <2> SUFFICES ASSUME Init PROVE TableFollowsState
      OBVIOUS
    <2>1. /\ state = "REQUEST_READ" /\ client \in Fd /\ remote = NoFd /\ pend = {}
          /\ command = "NOT_DECIDED" /\ replied = FALSE /\ lost = {} /\ cut = "not"
          /\ item = [f \in Fd |-> IF f = client THEN NewItem("connected", {"R"})
                                                ELSE FreeItem]
      BY DEF Init
    <2>2. /\ NewItem("connected", {"R"}).used
          /\ NewItem("connected", {"R"}).socket = "connected"
          /\ NewItem("connected", {"R"}).interest = {"R"}
      BY DEF NewItem
    <2>3. Entries(item, remote, lost)
      BY <2>1, <2>2, NumbersAreNatural DEF Entries
    <2>4. EntriesFollowState
      BY <2>1, <2>3, NumbersAreNatural DEF EntriesFollowState
    <2> QED
      BY <2>1, <2>2, <2>4 DEF TableFollowsState, InterestFollowsState, PendingFollowsState
  <1>2. EstablishInv /\ EstablishInv' /\ TableFollowsState /\ [Next]_vars
            => TableFollowsState'
    <2> SUFFICES ASSUME EstablishInv, EstablishInv', TableFollowsState, [Next]_vars
                 PROVE  TableFollowsState'
      OBVIOUS
    <2>1. TableInv
      BY DEF TableInv
    <2>2. CASE Select
      BY <2>1, <2>2, SelectEntries
    <2>3. CASE \E e \in Fd \X Op : Deliver(e)
      BY <2>1, <2>3, DeliverEntries
    <2>4. CASE \E e \in Fd \X Op : Skip(e)
      BY <2>1, <2>4, QuietEntries DEF Skip
    <2>5. CASE Notify
      BY <2>1, <2>5, NotifyEntries
    <2>6. CASE IdleTimeout
      BY <2>1, <2>6, IdleTimeoutEntries
    <2>7. CASE Answer
      BY <2>1, <2>7, QuietEntries DEF Answer
    <2>8. CASE \E f \in Fd : Settle(f) \/ Talk(f)
      BY <2>1, <2>8, SocketEntries
    <2>9. CASE Accept
      BY <2>1, <2>9, AcceptEntries
    <2>10. CASE UNCHANGED vars
      BY <2>1, <2>10, QuietEntries DEF vars
    <2> QED
      BY <2>2, <2>3, <2>4, <2>5, <2>6, <2>7, <2>8, <2>9, <2>10 DEF Next, Loop, Ended
  <1>3. EstablishInv /\ TableFollowsState => TableInv
    BY DEF TableInv
  <1> QED
    BY <1>1, <1>2, <1>3, EstablishInvariantHolds, PTL DEF Spec

(* The FSM never meets an event without a handler, however an iteration    *)
(* mixes the events of sockets closed and opened under the same number, as *)
(* long as no connect that failed at once left a registered socket, and no *)
(* idle timeout cut a resolver short.                                      *)
THEOREM EventsAlwaysHaveHandlers == Spec => []EventsHaveHandlers
  <1>1. TableInv => EventsHaveHandlers
    BY DEF TableInv, TableFollowsState, EntriesFollowState, EventsHaveHandlers
  <1> QED
    BY <1>1, TableInvariantHolds, PTL

(* However many addresses are tried, what is open belongs to the           *)
(* connection, and nothing is once it was disposed of, but the sockets of  *)
(* connects that failed at once; those are never taken for its own.        *)
THEOREM DescriptorsAreAccounted == Spec => []DescriptorsAccounted
  <1>1. TableInv => DescriptorsAccounted
    <2> SUFFICES ASSUME TableInv PROVE DescriptorsAccounted
      OBVIOUS
    <2>1. FreeItem.socket = "none"
      BY DEF FreeItem
    <2>2. /\ lost \cap {client, remote} = {}
          /\ \A f \in lost : item[f].socket = "dead"
      BY DEF TableInv, TableFollowsState, EntriesFollowState, LostItem
    <2>3. ASSUME NEW f \in Fd \ lost, item[f].socket # "none"
          PROVE  f \in {client, remote} /\ state \notin {"DONE", "ERROR"}
      <3>1. CASE cut # "not"
        <4>1. f = client
          BY <2>1, <2>3, <3>1 DEF TableInv, TableFollowsState, EntriesFollowState
        <4>2. state \in {"TIMED_OUT", "ABORTED"}
          BY <3>1 DEF TableInv, EstablishInv, BlockFollowsState
        <4> QED
          BY <4>1, <4>2
      <3>2. CASE cut = "not"
        BY <2>1, <2>3, <3>2
           DEF TableInv, TableFollowsState, EntriesFollowState, Entries
      <3> QED
        BY <3>1, <3>2
    <2> QED
      BY <2>2, <2>3 DEF DescriptorsAccounted
  <1> QED
    BY <1>1, TableInvariantHolds, PTL

(* Relay takes over with no event left of the iteration, and both sockets, *)
(* and no other descriptor, awaited for reading, unless a connect that     *)
(* failed at once left a registered socket behind.                         *)
THEOREM RelayAlwaysStartsClean == Spec => []RelayStartsClean
  <1>1. TableInv => RelayStartsClean
    <2> SUFFICES ASSUME TableInv, state = "CONNECTED", ~Haunted
                 PROVE  /\ pend = {}
                        /\ remote \in Fd \ {client}
                        /\ \A f \in Fd : item[f].interest =
                              IF f \in {client, remote} THEN {"R"} ELSE {}
      BY DEF RelayStartsClean
    <2>1. cut = "not"
      BY DEF TableInv, EstablishInv, BlockFollowsState
    <2>2. InterestFollowsState /\ PendingFollowsState
      BY <2>1 DEF TableInv, TableFollowsState, Tidy
    <2>3. pend = {}
      BY <2>2 DEF PendingFollowsState
    <2>4. /\ remote \in Fd /\ item[client].interest = {"R"}
          /\ item[remote].interest = {"R"}
      BY <2>2 DEF InterestFollowsState
    <2>5. /\ Entries(item, remote, lost) /\ remote # client
          /\ \A f \in lost : LostItem(item[f])
      BY <2>1 DEF TableInv, TableFollowsState, EntriesFollowState
    <2>6. \A f \in lost : item[f].interest = {}
      BY <2>5 DEF Haunted, LostItem
    <2>7. FreeItem.interest = {}
      BY DEF FreeItem
    <2> QED
      BY <2>3, <2>4, <2>5, <2>6, <2>7 DEF Entries
  <1> QED
    BY <1>1, TableInvariantHolds, PTL
===============================================================================
