---------------------------- MODULE HandshakeProofs ---------------------------
(***************************************************************************)
(* Proofs about Handshake.tla, for every set of clients and credentials,   *)
(* every size of the buffers and every way of cutting the stream.          *)
(*                                                                         *)
(* That a request has a user follows from the order of the states alone.   *)
(* That replies and requests are as they should be needs the parsers: each *)
(* is given explicitly after k bytes of its message (At), a byte is shown  *)
(* to lead from k to k + 1 or to make the parser fail (Follows), and so a  *)
(* chunk to lead from k to k + n (ChunkFollows), by a least counterexample *)
(* instead of an induction.  HandshakeInv says with it what was sent, read,*)
(* replied and heard in each of the states.                                *)
(***************************************************************************)
EXTENDS Handshake, TLAPS, WellFoundedInduction

(* The three handlers that read keep the order of the states: each either  *)
(* stays, fails, or leads to its own reply or out of the handshake; only   *)
(* AuthReadRun sets the user, and only HelloReadRun the method.            *)
LEMMA HandlersInOrder ==
    ASSUME NEW chunk, RunOn(chunk)
    PROVE  \/ /\ state' = state \/ state' = "ERROR"
              /\ UNCHANGED <<method, user>>
           \/ state = "HELLO_READ" /\ state' = "HELLO_WRITE"
           \/ state = "AUTH_READ" /\ state' = "AUTH_WRITE"
           \/ /\ state = "REQUEST_READ"
              /\ UNCHANGED <<method, user>>
<1>1. CASE HelloReadRun(chunk)
  BY <1>1 DEF HelloReadRun, Stays, Fails, Replies
<1>2. CASE AuthReadRun(chunk)
  BY <1>2 DEF AuthReadRun, Stays, Fails, Replies
<1>3. CASE RequestReadRun(chunk)
  BY <1>3 DEF RequestReadRun, Stays, Fails
<1> QED BY <1>1, <1>2, <1>3 DEF RunOn

(* A request is read only by a connection with a user once a method with a *)
(* password was chosen: HelloWriteRun leads such a connection to AUTH_READ,*)
(* and AuthWriteRun leads it on only with a user.                          *)
THEOREM RequestsHaveUsers == Spec => []NoRequestWithoutUser
<1>1. Init => NoRequestWithoutUser
  BY DEF Init, NoRequestWithoutUser, GoesOn
<1>2. NoRequestWithoutUser /\ [Next]_vars => NoRequestWithoutUser'
  <2> SUFFICES ASSUME NoRequestWithoutUser, [Next]_vars
               PROVE  NoRequestWithoutUser'
    OBVIOUS
  <2>1. CASE Talk \/ Close
    BY <2>1 DEF Talk, SendHello, SendAuth, SendRequest, SendAll, Says, Close, server,
                NoRequestWithoutUser
  <2>2. CASE Read \/ ReadEnd
    <3>1. PICK chunk : RunOn(chunk)
      BY <2>2 DEF Read, ReadEnd
    <3>2. QED
      BY <3>1, HandlersInOrder DEF NoRequestWithoutUser, GoesOn
  <2>3. CASE ReadFails
    BY <2>3 DEF ReadFails, Fails, NoRequestWithoutUser, GoesOn
  <2>4. CASE Write \/ WriteFails
    BY <2>4 DEF Write, WriteFails, NoRequestWithoutUser, GoesOn
  <2>5. CASE HelloWritten
    <3>1. state' = AfterHello(method) /\ UNCHANGED <<method, user>>
      BY <2>5 DEF HelloWritten, Jump
    <3>2. QED
      BY <3>1 DEF AfterHello, NoRequestWithoutUser, GoesOn
  <2>6. CASE AuthWritten
    <3>1. state' = AfterAuth(user) /\ UNCHANGED <<method, user>>
      BY <2>6 DEF AuthWritten, Jump
    <3>2. QED
      BY <3>1 DEF AfterAuth, NoRequestWithoutUser, GoesOn
  <2>7. CASE Over \/ UNCHANGED vars
    BY <2>7 DEF Over, vars, server, NoRequestWithoutUser
  <2> QED
    BY <2>1, <2>2, <2>3, <2>4, <2>5, <2>6, <2>7 DEF Next, Handlers
<1> QED BY <1>1, <1>2, PTL DEF Spec

-------------------------------------------------------------------------------
(* What has been taken of s when j of its bytes, or all, were.             *)
Taken(s, j) == SubSeq(s, 1, IF j > Len(s) THEN Len(s) ELSE j)

-------------------------------------------------------------------------------
(* The three messages of a client, with their parsers.                     *)

Kinds == {"hello", "auth", "request"}

Feed(kind, p, c) ==
    IF kind = "hello" THEN HelloParserFeed(p, c)
    ELSE IF kind = "auth" THEN AuthParserFeed(p, c)
    ELSE RequestParserFeed(p, c)

Message(kind) ==
    IF kind = "hello" THEN HelloMessage ELSE IF kind = "auth" THEN AuthMessage
    ELSE RequestMessage

(* Each parser when it has had the first k bytes of its message and has    *)
(* not failed.                                                             *)
HelloAt(k) ==
    [state    |-> IF k = 0 THEN "Version" ELSE IF k = 1 THEN "NMethods"
                  ELSE IF k < Len(client.methods) + 2 THEN "Methods" ELSE "Done",
     nmethods |-> IF k < 2 THEN 0 ELSE Len(client.methods),
     methods  |-> Taken(client.methods, k - 2)]

AuthAt(k) ==
    LET plen == Len(client.name) + 2
        passwd == plen + 1
    IN [state  |-> IF k = 0 THEN "Version" ELSE IF k = 1 THEN "ULen"
                   ELSE IF k < plen THEN "UName" ELSE IF k = plen THEN "PLen"
                   ELSE IF k < passwd + Len(client.passwd) THEN "Passwd" ELSE "Done",
        ulen   |-> IF k < 2 THEN 0 ELSE Len(client.name),
        uname  |-> Taken(client.name, k - 2),
        plen   |-> IF k < passwd THEN 0 ELSE Len(client.passwd),
        passwd |-> Taken(client.passwd, k - passwd)]

RequestAt(k) ==
    LET address == IF client.atype = FQDN THEN 5 ELSE 4
        port == address + Len(client.address)
    IN [state   |-> IF k = 0 THEN "Version" ELSE IF k = 1 THEN "CMD"
                    ELSE IF k = 2 THEN "RSV" ELSE IF k = 3 THEN "AType"
                    ELSE IF k < port THEN IF client.atype = FQDN THEN "Name" ELSE "Address"
                    ELSE IF k < port + 2 THEN "Port" ELSE "Done",
        cmd     |-> IF k < 2 THEN 0 ELSE client.cmd,
        atype   |-> IF k < 4 THEN 0 ELSE client.atype,
        length  |-> IF k < address THEN 0 ELSE Len(client.address),
        address |-> Taken(client.address, k - address),
        port    |-> Taken(client.port, k - port)]

At(kind, k) ==
    IF kind = "hello" THEN HelloAt(k) ELSE IF kind = "auth" THEN AuthAt(k) ELSE RequestAt(k)

(* The parser has had the bytes of the client's message that are not on    *)
(* the way any more, and there are some.                                   *)
HasRead(kind) ==
    \E k \in 0 .. Len(Message(kind)) :
        /\ k < Len(Message(kind))
        /\ parser = At(kind, k)
        /\ up = SubSeq(Message(kind), k + 1, Len(Message(kind)))
Awaits(kind) == parser = At(kind, 0) /\ up = <<>>

-------------------------------------------------------------------------------
(* The conversation with a patient client, state by state.                 *)
Verdict == IF Known = {} THEN Refused ELSE Success
MethodAgreed == method \in IF Offered = {} THEN {NoAcceptable} ELSE Offered

InHelloRead ==
    /\ heard = <<>> /\ write = <<>> /\ user = {}
    /\ \/ turn = 0 /\ Awaits("hello")
       \/ turn = 1 /\ HasRead("hello")

InHelloWrite ==
    /\ heard \o write = <<Version, method>> /\ MethodAgreed /\ user = {}
    /\ \/ turn = 1 /\ up = <<>>
       \/ turn = 2 /\ method = UserPass /\ write = <<>> /\ up = Message("auth")
       \/ turn = 3 /\ method = NoAuth /\ write = <<>> /\ up = Message("request")

InAuthRead ==
    /\ heard = <<Version, UserPass>> /\ write = <<>> /\ method = UserPass
    /\ MethodAgreed /\ user = {}
    /\ \/ turn = 1 /\ Awaits("auth")
       \/ turn = 2 /\ HasRead("auth")

InAuthWrite ==
    /\ heard \o write = <<Version, UserPass, NegotiationVersion, Verdict>>
    /\ method = UserPass /\ MethodAgreed /\ user = Known
    /\ \/ turn = 2 /\ up = <<>>
       \/ turn = 3 /\ Known # {} /\ write = <<>> /\ up = Message("request")

Admitted ==
    /\ write = <<>> /\ MethodAgreed
    /\ IF method = UserPass
         THEN /\ heard = <<Version, UserPass, NegotiationVersion, Success>>
              /\ user = Known /\ Known # {}
         ELSE heard = <<Version, method>> /\ user = {}

InRequestRead ==
    /\ Admitted
    /\ \/ turn \in {1, 2} /\ Awaits("request")
       \/ turn = 3 /\ HasRead("request")

Served ==
    /\ Admitted
    /\ turn = 3 /\ parser = RequestAt(Len(RequestMessage)) /\ state = Requested(parser)

InOrder ==
    /\ heard \in Seq(Nat) /\ write \in Seq(Nat)
    /\ state = "HELLO_READ" => InHelloRead
    /\ state = "HELLO_WRITE" => InHelloWrite
    /\ state = "AUTH_READ" => InAuthRead
    /\ state = "AUTH_WRITE" => InAuthWrite
    /\ state = "REQUEST_READ" => InRequestRead
    /\ state \in GoesOn => Served
    /\ state \in EndStates => RepliesAsAgreed

HandshakeInv ==
    /\ client \in Clients
    /\ state \in ReadStates \cup WriteStates \cup GoesOn \cup EndStates
    /\ client.patient => InOrder

-------------------------------------------------------------------------------
(* The least number of a set is one of it.                                 *)
LEMMA LeastNumber ==
    ASSUME NEW S, S \subseteq Nat, S # {}
    PROVE  \E m \in S : \A x \in S : m <= x
<1> DEFINE Less == {ss \in Nat \X Nat : ss[1] < ss[2]}
<1>1. Less = OpToRel(<, Nat)
  BY Zenon DEF OpToRel
<1>2. IsWellFoundedOn(Less, Nat)
  BY <1>1, NatLessThanWellFounded
<1>3. PICK m \in S : \A x \in S : ~ (<<x, m>> \in Less)
  BY <1>2, WFMin
<1>4. \A x, y \in Nat : ~ (<<x, y>> \in Less) => y <= x
  OBVIOUS
<1> HIDE DEF Less
<1> QED BY <1>3, <1>4

-------------------------------------------------------------------------------
(* The bytes of a chunk, one after the other.                              *)
Step(kind, p, c) == IF Socks5Finished(p) THEN p ELSE Feed(kind, p, c)
IsRun(kind, p, chunk, n, g) ==
    g = [i \in 0 .. n |-> IF i = 0 THEN p ELSE Step(kind, g[i - 1], chunk[i])]

(* There are parsers for all the prefixes of a chunk.                      *)
LEMMA RunExists ==
    ASSUME NEW kind, NEW p, NEW chunk, NEW n \in Nat
    PROVE  \E g : IsRun(kind, p, chunk, n, g)
<1> DEFINE S == {m \in Nat : ~ \E g : IsRun(kind, p, chunk, m, g)}
<1> SUFFICES ASSUME S # {} PROVE FALSE
  OBVIOUS
<1>1. PICK m \in S : \A x \in S : m <= x
  <2>1. S \subseteq Nat
    OBVIOUS
  <2> HIDE DEF S
  <2> QED BY <2>1, LeastNumber
<1>2. CASE m = 0
  <2>1. IsRun(kind, p, chunk, 0, [i \in 0 .. 0 |-> p])
    BY DEF IsRun
  <2> QED BY <1>1, <1>2, <2>1
<1>3. CASE m # 0
  <2>1. m - 1 \in Nat /\ m - 1 \notin S
    BY <1>1, <1>3
  <2>2. PICK g : IsRun(kind, p, chunk, m - 1, g)
    BY <2>1
  <2> DEFINE h == [i \in 0 .. m |-> IF i = m THEN Step(kind, g[m - 1], chunk[m]) ELSE g[i]]
  <2>3. \A i \in 0 .. (m - 1) : g[i] = IF i = 0 THEN p ELSE Step(kind, g[i - 1], chunk[i])
    BY <2>2 DEF IsRun
  <2>4. \A i \in 0 .. m : h[i] = IF i = 0 THEN p ELSE Step(kind, h[i - 1], chunk[i])
    <3> TAKE i \in 0 .. m
    <3>1. CASE i = m
      <4>1. i # 0 /\ h[i] = Step(kind, g[m - 1], chunk[m]) /\ h[i - 1] = g[m - 1]
        BY <1>3, <3>1, <2>1
      <4> QED BY <4>1, <3>1
    <3>2. CASE i # m
      <4>1. i \in 0 .. (m - 1) /\ h[i] = g[i] /\ (i # 0 => h[i - 1] = g[i - 1])
        BY <3>2
      <4> HIDE DEF h
      <4> QED BY <4>1, <2>3
    <3> QED BY <3>1, <3>2
  <2>5. h = [i \in 0 .. m |-> h[i]]
    OBVIOUS
  <2> HIDE DEF h
  <2>6. IsRun(kind, p, chunk, m, h)
    BY <2>4, <2>5 DEF IsRun
  <2> QED BY <1>1, <2>6
<1> QED BY <1>2, <1>3

Consume(kind, p, chunk) ==
    IF kind = "hello" THEN HelloParserConsume(p, chunk)
    ELSE IF kind = "auth" THEN AuthParserConsume(p, chunk)
    ELSE RequestParserConsume(p, chunk)

FedAlong(kind, p, chunk, n) ==
    \E g : /\ Consume(kind, p, chunk) = g[n]
           /\ g[0] = p
           /\ \A i \in 1 .. n : g[i] = Step(kind, g[i - 1], chunk[i])

(* A chunk is consumed byte by byte until the parser has finished.         *)
LEMMA ConsumeIsARun ==
    ASSUME NEW kind \in Kinds, NEW p, NEW chunk, NEW n \in Nat, Len(chunk) = n
    PROVE  FedAlong(kind, p, chunk, n)
<1>1. PICK g : IsRun(kind, p, chunk, n, g)
  BY RunExists
<1>2. g = [i \in 0 .. n |-> IF i = 0 THEN p ELSE Step(kind, g[i - 1], chunk[i])]
  BY <1>1 DEF IsRun
<1>3. CASE kind = "hello"
  <2> DEFINE Good(f) == f = [i \in 0 .. n |-> IF i = 0 THEN p
                          ELSE IF Socks5Finished(f[i - 1]) THEN f[i - 1]
                          ELSE HelloParserFeed(f[i - 1], chunk[i])]
  <2>1. Good(g)
    BY <1>2, <1>3 DEF Step, Feed
  <2>2. HelloParserConsume(p, chunk) = (CHOOSE f : Good(f))[n]
    BY DEF HelloParserConsume, FedWith
  <2>3. PICK f : f = (CHOOSE h : Good(h))
    OBVIOUS
  <2>4. Good(f)
    BY <2>1, <2>3
  <2>5. /\ f[0] = p
        /\ \A i \in 1 .. n : f[i] = Step(kind, f[i - 1], chunk[i])
    BY <2>4, <1>3 DEF Step, Feed
  <2>6. Consume(kind, p, chunk) = f[n]
    BY <2>2, <2>3, <1>3 DEF Consume
  <2> QED BY <2>5, <2>6 DEF FedAlong
<1>4. CASE kind = "auth"
  <2> DEFINE Good(f) == f = [i \in 0 .. n |-> IF i = 0 THEN p
                          ELSE IF Socks5Finished(f[i - 1]) THEN f[i - 1]
                          ELSE AuthParserFeed(f[i - 1], chunk[i])]
  <2>1. Good(g)
    BY <1>2, <1>4 DEF Step, Feed
  <2>2. AuthParserConsume(p, chunk) = (CHOOSE f : Good(f))[n]
    BY DEF AuthParserConsume, FedWith
  <2>3. PICK f : f = (CHOOSE h : Good(h))
    OBVIOUS
  <2>4. Good(f)
    BY <2>1, <2>3
  <2>5. /\ f[0] = p
        /\ \A i \in 1 .. n : f[i] = Step(kind, f[i - 1], chunk[i])
    BY <2>4, <1>4 DEF Step, Feed
  <2>6. Consume(kind, p, chunk) = f[n]
    BY <2>2, <2>3, <1>4 DEF Consume
  <2> QED BY <2>5, <2>6 DEF FedAlong
<1>5. CASE kind = "request"
  <2> DEFINE Good(f) == f = [i \in 0 .. n |-> IF i = 0 THEN p
                          ELSE IF Socks5Finished(f[i - 1]) THEN f[i - 1]
                          ELSE RequestParserFeed(f[i - 1], chunk[i])]
  <2>1. Good(g)
    BY <1>2, <1>5 DEF Step, Feed
  <2>2. RequestParserConsume(p, chunk) = (CHOOSE f : Good(f))[n]
    BY DEF RequestParserConsume, FedWith
  <2>3. PICK f : f = (CHOOSE h : Good(h))
    OBVIOUS
  <2>4. Good(f)
    BY <2>1, <2>3
  <2>5. /\ f[0] = p
        /\ \A i \in 1 .. n : f[i] = Step(kind, f[i - 1], chunk[i])
    BY <2>4, <1>5 DEF Step, Feed
  <2>6. Consume(kind, p, chunk) = f[n]
    BY <2>2, <2>3, <1>5 DEF Consume
  <2> QED BY <2>5, <2>6 DEF FedAlong
<1> QED BY <1>3, <1>4, <1>5 DEF Kinds
-------------------------------------------------------------------------------
(* The bytes of the messages, and the parsers after each.                  *)
LEMMA TakenNothing ==
    ASSUME NEW s \in Seq(Octet), NEW j \in Int, j <= 0
    PROVE  Taken(s, j) = <<>>
  BY DEF Taken

(* All of s was taken when as many bytes were as it has.                   *)
LEMMA TakenWhole ==
    ASSUME NEW s \in Seq(Octet), NEW j \in Int, j >= Len(s)
    PROVE  Taken(s, j) = s
<1>1. s = [i \in 1 .. Len(s) |-> s[i]] /\ Len(s) \in Nat
  OBVIOUS
<1> QED BY <1>1 DEF Taken

(* A byte taken is the next one of s.                                      *)
LEMMA TakenGrows ==
    ASSUME NEW s \in Seq(Octet), NEW j \in Nat, j < Len(s)
    PROVE  /\ Append(Taken(s, j), s[j + 1]) = Taken(s, j + 1)
           /\ Len(Taken(s, j)) = j
<1>1. Taken(s, j) = SubSeq(s, 1, j) /\ Taken(s, j + 1) = SubSeq(s, 1, j + 1)
  BY DEF Taken
<1>2. Len(SubSeq(s, 1, j)) = j
  OBVIOUS
<1>3. Append(SubSeq(s, 1, j), s[j + 1]) = SubSeq(s, 1, j + 1)
  OBVIOUS
<1> QED BY <1>1, <1>2, <1>3

(* The parts of a message.                                                 *)
Joins(s, t, u) ==
    /\ u \in Seq(Nat) /\ Len(u) = Len(s) + Len(t)
    /\ \A i \in 1 .. Len(s) : u[i] = s[i]
    /\ \A i \in 1 .. Len(t) : u[i + Len(s)] = t[i]

(* What a concatenation holds, and where.                                  *)
LEMMA Joined ==
    ASSUME NEW s \in Seq(Nat), NEW t \in Seq(Nat)
    PROVE  Joins(s, t, s \o t)
  BY DEF Joins

(* The types of what a client sends.                                       *)
LEMMA ClientFields ==
    ASSUME client \in Clients
    PROVE  /\ client.methods \in Seq(Octet) /\ client.name \in Seq(Octet)
           /\ client.passwd \in Seq(Octet) /\ client.address \in Seq(Octet)
           /\ client.port \in Seq(Octet) /\ client.cmd \in Octet /\ client.atype \in Octet
           /\ client.patient \in BOOLEAN
           /\ Octet \subseteq Nat
           /\ client.atype = IPv4 => Len(client.address) = V4Length
           /\ client.atype = IPv6 => Len(client.address) = V6Length
           /\ Len(client.port) = 2
           /\ V4Length \in Nat \ {0} /\ V6Length \in Nat \ {0}
  BY HandshakeAssumption, SizesAssumption, Socks5ParsersAssumption DEF ClientType

(* The bytes of each message, by their positions.                          *)
LEMMA HelloBytes ==
    ASSUME client \in Clients
    PROVE  LET n == Len(client.methods) IN
           /\ HelloMessage \in Seq(Nat) /\ Len(HelloMessage) = n + 2
           /\ HelloMessage[1] = Version /\ HelloMessage[2] = n
           /\ \A i \in 1 .. n : HelloMessage[i + 2] = client.methods[i]
<1>1. client.methods \in Seq(Nat) /\ Len(client.methods) \in Nat
  BY ClientFields
<1>2. <<Version, Len(client.methods)>> \in Seq(Nat) /\ Len(<<Version, Len(client.methods)>>) = 2
  BY <1>1 DEF Version
<1> QED BY <1>1, <1>2 DEF HelloMessage

(* The same of AuthMessage.                                                *)
LEMMA AuthBytes ==
    ASSUME client \in Clients
    PROVE  LET n == Len(client.name)
               w == Len(client.passwd) IN
           /\ AuthMessage \in Seq(Nat) /\ Len(AuthMessage) = n + w + 3
           /\ AuthMessage[1] = NegotiationVersion /\ AuthMessage[2] = n
           /\ \A i \in 1 .. n : AuthMessage[i + 2] = client.name[i]
           /\ AuthMessage[n + 3] = w
           /\ \A i \in 1 .. w : AuthMessage[i + (n + 3)] = client.passwd[i]
<1>1. PICK n : n = Len(client.name)
  OBVIOUS
<1>2. PICK w : w = Len(client.passwd)
  OBVIOUS
<1>3. PICK a : a = <<NegotiationVersion, n>>
  OBVIOUS
<1>4. PICK b : b = a \o client.name
  OBVIOUS
<1>5. PICK d : d = <<w>>
  OBVIOUS
<1>6. PICK c : c = b \o d
  OBVIOUS
<1>7. AuthMessage = c \o client.passwd
  BY <1>1, <1>2, <1>3, <1>4, <1>5, <1>6 DEF AuthMessage
<1>8. client.name \in Seq(Nat) /\ n \in Nat /\ client.passwd \in Seq(Nat) /\ w \in Nat
  BY <1>1, <1>2, ClientFields
<1>9. a \in Seq(Nat) /\ Len(a) = 2 /\ a[1] = NegotiationVersion /\ a[2] = n
  BY <1>3, <1>8 DEF NegotiationVersion
<1>10. d \in Seq(Nat) /\ Len(d) = 1 /\ d[1] = w
  BY <1>5, <1>8
<1>11. Joins(a, client.name, b)
  BY <1>4, <1>8, <1>9, Joined
<1>12. /\ b \in Seq(Nat) /\ Len(b) = 2 + n /\ b[1] = NegotiationVersion /\ b[2] = n
       /\ \A i \in 1 .. n : b[i + 2] = client.name[i]
  <2>1. b \in Seq(Nat) /\ Len(b) = 2 + n
    BY <1>1, <1>9, <1>11 DEF Joins
  <2>2. b[1] = a[1] /\ b[2] = a[2]
    BY <1>9, <1>11 DEF Joins
  <2>3. \A i \in 1 .. n : b[i + 2] = client.name[i]
    BY <1>1, <1>9, <1>11 DEF Joins
  <2> QED BY <1>9, <2>1, <2>2, <2>3
<1>13. Joins(b, d, c)
  BY <1>6, <1>10, <1>12, Joined
<1>14. /\ c \in Seq(Nat) /\ Len(c) = n + 3
       /\ \A i \in 1 .. (n + 2) : c[i] = b[i]
       /\ c[1 + (2 + n)] = w
  BY <1>8, <1>10, <1>12, <1>13 DEF Joins
<1>15. Joins(c, client.passwd, AuthMessage)
  BY <1>7, <1>8, <1>14, Joined
<1>16. /\ AuthMessage \in Seq(Nat) /\ Len(AuthMessage) = n + 3 + w
       /\ \A i \in 1 .. (n + 3) : AuthMessage[i] = c[i]
       /\ \A i \in 1 .. w : AuthMessage[i + (n + 3)] = client.passwd[i]
  BY <1>2, <1>8, <1>14, <1>15 DEF Joins
<1>17. /\ AuthMessage[1] = NegotiationVersion /\ AuthMessage[2] = n
       /\ \A i \in 1 .. n : AuthMessage[i + 2] = client.name[i]
       /\ AuthMessage[n + 3] = w
  <2>1. AuthMessage[1] = c[1] /\ AuthMessage[2] = c[2] /\ AuthMessage[n + 3] = c[n + 3]
    BY <1>8, <1>16
  <2>2. c[1] = b[1] /\ c[2] = b[2] /\ c[n + 3] = w
    <3>1. 1 + (2 + n) = n + 3
      BY <1>8
    <3> QED BY <1>8, <1>14, <3>1
  <2>3. \A i \in 1 .. n : AuthMessage[i + 2] = c[i + 2] /\ c[i + 2] = b[i + 2]
    BY <1>8, <1>14, <1>16
  <2> QED BY <1>12, <2>1, <2>2, <2>3
<1>18. Len(AuthMessage) = n + w + 3
  BY <1>8, <1>16
<1> QED BY <1>1, <1>2, <1>16, <1>17, <1>18

(* The same of RequestMessage.                                             *)
LEMMA RequestBytes ==
    ASSUME client \in Clients
    PROVE  LET b == IF client.atype = FQDN THEN 5 ELSE 4
               n == Len(client.address) IN
           /\ RequestMessage \in Seq(Nat) /\ Len(RequestMessage) = b + n + 2
           /\ RequestMessage[1] = Version /\ RequestMessage[2] = client.cmd
           /\ RequestMessage[3] = 0 /\ RequestMessage[4] = client.atype
           /\ client.atype = FQDN => RequestMessage[5] = n
           /\ \A i \in 1 .. n : RequestMessage[i + b] = client.address[i]
           /\ \A i \in 1 .. 2 : RequestMessage[i + (b + n)] = client.port[i]
<1>1. PICK b : b = IF client.atype = FQDN THEN 5 ELSE 4
  OBVIOUS
<1>2. PICK n : n = Len(client.address)
  OBVIOUS
<1>3. PICK h : h = <<Version, client.cmd, 0, client.atype>>
  OBVIOUS
<1>4. PICK l : l = IF client.atype = FQDN THEN <<n>> ELSE <<>>
  OBVIOUS
<1>5. PICK m : m = h \o l
  OBVIOUS
<1>6. PICK a : a = m \o client.address
  OBVIOUS
<1>7. RequestMessage = a \o client.port
  BY <1>2, <1>3, <1>4, <1>5, <1>6 DEF RequestMessage
<1>8. /\ client.address \in Seq(Nat) /\ n \in Nat /\ client.port \in Seq(Nat)
      /\ Len(client.port) = 2 /\ client.cmd \in Nat /\ client.atype \in Nat
  BY <1>2, ClientFields
<1>9. /\ h \in Seq(Nat) /\ Len(h) = 4
      /\ h[1] = Version /\ h[2] = client.cmd /\ h[3] = 0 /\ h[4] = client.atype
  BY <1>3, <1>8 DEF Version
<1>10. l \in Seq(Nat) /\ Len(l) = b - 4 /\ (client.atype = FQDN => l[1] = n)
  BY <1>1, <1>4, <1>8
<1>11. b \in {4, 5} /\ (client.atype = FQDN <=> b = 5)
  BY <1>1
<1>12. Joins(h, l, m)
  BY <1>5, <1>9, <1>10, Joined
<1>13. /\ m \in Seq(Nat) /\ Len(m) = b
       /\ m[1] = Version /\ m[2] = client.cmd /\ m[3] = 0 /\ m[4] = client.atype
       /\ client.atype = FQDN => m[1 + 4] = n
  BY <1>9, <1>10, <1>11, <1>12 DEF Joins
<1>14. Joins(m, client.address, a)
  BY <1>6, <1>8, <1>13, Joined
<1>15. /\ a \in Seq(Nat) /\ Len(a) = b + n
       /\ a[1] = Version /\ a[2] = client.cmd /\ a[3] = 0 /\ a[4] = client.atype
       /\ client.atype = FQDN => a[5] = n
       /\ \A i \in 1 .. n : a[i + b] = client.address[i]
  <2>1. a \in Seq(Nat) /\ Len(a) = b + n
    BY <1>2, <1>13, <1>14 DEF Joins
  <2>2. \A i \in 1 .. b : a[i] = m[i]
    BY <1>13, <1>14 DEF Joins
  <2>3. \A i \in 1 .. n : a[i + b] = client.address[i]
    BY <1>2, <1>13, <1>14 DEF Joins
  <2>4. a[1] = m[1] /\ a[2] = m[2] /\ a[3] = m[3] /\ a[4] = m[4]
    BY <1>11, <2>2
  <2>5. client.atype = FQDN => a[5] = m[1 + 4]
    BY <1>11, <2>2
  <2> QED BY <1>13, <2>1, <2>3, <2>4, <2>5
<1>16. Joins(a, client.port, RequestMessage)
  BY <1>7, <1>8, <1>15, Joined
<1>17. /\ RequestMessage \in Seq(Nat) /\ Len(RequestMessage) = b + n + 2
       /\ \A i \in 1 .. (b + n) : RequestMessage[i] = a[i]
       /\ \A i \in 1 .. 2 : RequestMessage[i + (b + n)] = client.port[i]
  BY <1>8, <1>11, <1>15, <1>16 DEF Joins
<1>18. /\ RequestMessage[1] = Version /\ RequestMessage[2] = client.cmd
       /\ RequestMessage[3] = 0 /\ RequestMessage[4] = client.atype
       /\ client.atype = FQDN => RequestMessage[5] = n
       /\ \A i \in 1 .. n : RequestMessage[i + b] = client.address[i]
  <2>1. /\ {1, 2, 3, 4} \subseteq 1 .. (b + n)
        /\ client.atype = FQDN => 5 \in 1 .. (b + n)
    BY <1>8, <1>11
  <2>2. /\ RequestMessage[1] = a[1] /\ RequestMessage[2] = a[2]
        /\ RequestMessage[3] = a[3] /\ RequestMessage[4] = a[4]
        /\ client.atype = FQDN => RequestMessage[5] = a[5]
    BY <1>17, <2>1, Zenon
  <2>3. \A i \in 1 .. n : RequestMessage[i + b] = a[i + b]
    <3>1. \A i \in 1 .. n : i + b \in 1 .. (b + n)
      BY <1>8, <1>11
    <3> QED BY <1>17, <3>1, Zenon
  <2> QED BY <1>15, <2>1, <2>2, <2>3
<1> QED BY <1>1, <1>2, <1>17, <1>18

(* One byte more of the message, and the parser has failed or is one byte  *)
(* further.                                                                *)
LEMMA HelloFollows ==
    ASSUME client \in Clients, NEW k \in Nat, k < Len(HelloMessage)
    PROVE  LET q == HelloParserFeed(HelloAt(k), HelloMessage[k + 1]) IN
           /\ ~ Socks5Finished(HelloAt(k))
           /\ Socks5Failed(q) \/ q = HelloAt(k + 1)
<1> DEFINE n == Len(client.methods)
           c == HelloMessage[k + 1]
           q == HelloParserFeed(HelloAt(k), c)
           H(st, nm, ms) == [state |-> st, nmethods |-> nm, methods |-> ms]
<1>1. client.methods \in Seq(Octet) /\ n \in Nat
  BY ClientFields
<1>2. k < n + 2
  BY HelloBytes
<1>3. ~ Socks5Finished(HelloAt(k))
  BY <1>1, <1>2 DEF HelloAt, Socks5Finished
<1>4. CASE k = 0
  <2>1. c = Version
    BY <1>4, HelloBytes
  <2>2. Taken(client.methods, k - 2) = <<>> /\ Taken(client.methods, k + 1 - 2) = <<>>
    BY <1>1, <1>4, TakenNothing
  <2>3. HelloAt(k) = H("Version", 0, <<>>) /\ HelloAt(k + 1) = H("NMethods", 0, <<>>)
    BY <1>4, <2>2 DEF HelloAt
  <2>4. q = Going(H("Version", 0, <<>>), "NMethods")
    <3>1. H("Version", 0, <<>>).state = "Version"
      OBVIOUS
    <3> QED BY <2>1, <2>3, <3>1, Zenon DEF HelloParserFeed
  <2>5. Going(H("Version", 0, <<>>), "NMethods") = H("NMethods", 0, <<>>)
    BY DEF Going
  <2> QED BY <1>3, <2>3, <2>4, <2>5
<1>5. CASE k = 1
  <2>1. c = n
    BY <1>5, HelloBytes
  <2>2. Taken(client.methods, k - 2) = <<>> /\ Taken(client.methods, k + 1 - 2) = <<>>
    BY <1>1, <1>5, TakenNothing
  <2>3. /\ HelloAt(k) = H("NMethods", 0, <<>>)
        /\ HelloAt(k + 1) = H(IF 2 < n + 2 THEN "Methods" ELSE "Done", n, <<>>)
    BY <1>5, <2>2 DEF HelloAt
  <2>4. q = [H("NMethods", 0, <<>>) EXCEPT !.nmethods = c,
                                           !.state = IF c = 0 THEN "Invalid" ELSE "Methods"]
    <3>1. H("NMethods", 0, <<>>).state = "NMethods"
      OBVIOUS
    <3> QED BY <2>3, <3>1, Zenon DEF HelloParserFeed
  <2>5. q = H(IF n = 0 THEN "Invalid" ELSE "Methods", n, <<>>)
    BY <2>1, <2>4
  <2> QED BY <1>1, <1>3, <2>3, <2>5 DEF Socks5Failed
<1>6. CASE k >= 2
  <2>1. PICK j : j = k - 2
    OBVIOUS
  <2>2. j \in Nat /\ j < n /\ k = j + 2 /\ k + 1 - 2 = j + 1
    BY <1>1, <1>2, <1>6, <2>1
  <2>3. c = client.methods[j + 1]
    <3>1. j + 1 \in 1 .. n /\ k + 1 = (j + 1) + 2
      BY <1>1, <2>2
    <3>2. \A i \in 1 .. n : HelloMessage[i + 2] = client.methods[i]
      BY HelloBytes
    <3>3. HelloMessage[(j + 1) + 2] = client.methods[j + 1]
      BY <3>1, <3>2
    <3> QED BY <3>1, <3>3
  <2>4. PICK old, new : old = Taken(client.methods, j) /\ new = Taken(client.methods, j + 1)
    OBVIOUS
  <2>5. Append(old, c) = new /\ Len(old) = j
    BY <1>1, <2>2, <2>3, <2>4, TakenGrows
  <2>6. /\ HelloAt(k) = H("Methods", n, old)
        /\ HelloAt(k + 1) = H(IF k + 1 < n + 2 THEN "Methods" ELSE "Done", n, new)
    BY <1>2, <1>6, <2>1, <2>2, <2>4 DEF HelloAt
  <2>7. q = [H("Methods", n, old) EXCEPT !.methods = Append(@, c),
                                         !.state = IF Len(old) + 1 = n THEN "Done" ELSE @]
    <3>1. /\ H("Methods", n, old).state = "Methods"
          /\ H("Methods", n, old).methods = old /\ H("Methods", n, old).nmethods = n
      OBVIOUS
    <3> QED BY <2>6, <3>1, Zenon DEF HelloParserFeed
  <2>8. q = H(IF j + 1 = n THEN "Done" ELSE "Methods", n, new)
    BY <2>5, <2>7
  <2>9. j + 1 = n <=> ~(k + 1 < n + 2)
    BY <1>1, <2>2
  <2> QED BY <1>3, <2>6, <2>8, <2>9
<1> QED BY <1>4, <1>5, <1>6

(* The same of AuthParserFeed and AuthMessage.                             *)
LEMMA AuthFollows ==
    ASSUME client \in Clients, NEW k \in Nat, k < Len(AuthMessage)
    PROVE  LET q == AuthParserFeed(AuthAt(k), AuthMessage[k + 1]) IN
           /\ ~ Socks5Finished(AuthAt(k))
           /\ Socks5Failed(q) \/ q = AuthAt(k + 1)
<1>n. PICK n : n = Len(client.name)
  OBVIOUS
<1>w. PICK w : w = Len(client.passwd)
  OBVIOUS
<1>c. PICK c : c = AuthMessage[k + 1]
  OBVIOUS
<1>q. PICK q : q = AuthParserFeed(AuthAt(k), c)
  OBVIOUS
<1> DEFINE A(st, ul, un, pl, pw) ==
              [state |-> st, ulen |-> ul, uname |-> un, plen |-> pl, passwd |-> pw]
           St(i) == IF i = 0 THEN "Version" ELSE IF i = 1 THEN "ULen"
                    ELSE IF i < n + 2 THEN "UName" ELSE IF i = n + 2 THEN "PLen"
                    ELSE IF i < n + 2 + 1 + w THEN "Passwd" ELSE "Done"
<1>1. /\ client.name \in Seq(Octet) /\ n \in Nat
      /\ client.passwd \in Seq(Octet) /\ w \in Nat
      /\ k + 1 \in Nat
  BY <1>n, <1>w, ClientFields
<1>b. /\ Len(AuthMessage) = n + w + 3
      /\ AuthMessage[1] = NegotiationVersion /\ AuthMessage[2] = n
      /\ \A i \in 1 .. n : AuthMessage[i + 2] = client.name[i]
      /\ AuthMessage[n + 3] = w
      /\ \A i \in 1 .. w : AuthMessage[i + (n + 3)] = client.passwd[i]
  BY <1>n, <1>w, AuthBytes
<1>2. k < n + w + 3
  BY <1>b
<1>a. \A i \in Nat : AuthAt(i) =
         A(St(i), IF i < 2 THEN 0 ELSE n, Taken(client.name, i - 2),
           IF i < n + 2 + 1 THEN 0 ELSE w, Taken(client.passwd, i - (n + 2 + 1)))
  BY <1>n, <1>w DEF AuthAt
<1>d. AuthAt(k + 1) =
         A(St(k + 1), IF k + 1 < 2 THEN 0 ELSE n, Taken(client.name, (k + 1) - 2),
           IF k + 1 < n + 2 + 1 THEN 0 ELSE w, Taken(client.passwd, (k + 1) - (n + 2 + 1)))
  BY <1>a, <1>1, Zenon
<1>3. ~ Socks5Finished(AuthAt(k))
  <2>1. AuthAt(k).state = St(k)
    BY <1>a
  <2>2. St(k) \notin {"Done", "BadVersion", "Invalid"}
    BY <1>1, <1>2
  <2> QED BY <2>1, <2>2 DEF Socks5Finished
<1>4. CASE k = 0
  <2>1. c = NegotiationVersion
    BY <1>4, <1>b, <1>c
  <2>2. /\ Taken(client.name, k - 2) = <<>> /\ Taken(client.name, (k + 1) - 2) = <<>>
        /\ Taken(client.passwd, k - (n + 2 + 1)) = <<>>
        /\ Taken(client.passwd, (k + 1) - (n + 2 + 1)) = <<>>
    BY <1>1, <1>4, TakenNothing
  <2>3. AuthAt(k) = A("Version", 0, <<>>, 0, <<>>) /\ AuthAt(k + 1) = A("ULen", 0, <<>>, 0, <<>>)
    <3>1. /\ St(k) = "Version" /\ k < 2 /\ k < n + 2 + 1
          /\ St(k + 1) = "ULen" /\ k + 1 < 2 /\ k + 1 < n + 2 + 1
      BY <1>1, <1>4
    <3> QED BY <1>a, <1>d, <2>2, <3>1
  <2>4. q = Going(A("Version", 0, <<>>, 0, <<>>), "ULen")
    <3>1. A("Version", 0, <<>>, 0, <<>>).state = "Version"
      OBVIOUS
    <3> QED BY <1>q, <2>1, <2>3, <3>1, Zenon DEF AuthParserFeed
  <2>5. Going(A("Version", 0, <<>>, 0, <<>>), "ULen") = A("ULen", 0, <<>>, 0, <<>>)
    BY DEF Going
  <2> QED BY <1>c, <1>q, <1>3, <2>3, <2>4, <2>5
<1>5. CASE k = 1
  <2>1. c = n
    BY <1>5, <1>b, <1>c
  <2>2. /\ Taken(client.name, k - 2) = <<>> /\ Taken(client.name, (k + 1) - 2) = <<>>
        /\ Taken(client.passwd, k - (n + 2 + 1)) = <<>>
        /\ Taken(client.passwd, (k + 1) - (n + 2 + 1)) = <<>>
    BY <1>1, <1>5, TakenNothing
  <2>3. /\ AuthAt(k) = A("ULen", 0, <<>>, 0, <<>>)
        /\ AuthAt(k + 1) = A(IF 2 < n + 2 THEN "UName" ELSE "PLen", n, <<>>, 0, <<>>)
    <3>1. /\ St(k) = "ULen" /\ k < 2 /\ k < n + 2 + 1
          /\ St(k + 1) = IF 2 < n + 2 THEN "UName" ELSE "PLen"
          /\ ~(k + 1 < 2) /\ k + 1 < n + 2 + 1
      BY <1>1, <1>5
    <3> QED BY <1>a, <1>d, <2>2, <3>1
  <2>4. q = [A("ULen", 0, <<>>, 0, <<>>) EXCEPT !.ulen = c,
                                                !.state = IF c = 0 THEN "Invalid" ELSE "UName"]
    <3>1. A("ULen", 0, <<>>, 0, <<>>).state = "ULen"
      OBVIOUS
    <3> QED BY <1>q, <2>3, <3>1, Zenon DEF AuthParserFeed
  <2>5. q = A(IF n = 0 THEN "Invalid" ELSE "UName", n, <<>>, 0, <<>>)
    BY <2>1, <2>4
  <2> QED BY <1>c, <1>q, <1>1, <1>3, <2>3, <2>5 DEF Socks5Failed
<1>6. CASE k >= 2 /\ k < n + 2
  <2>1. PICK j : j = k - 2
    OBVIOUS
  <2>2. j \in Nat /\ j < n /\ k = j + 2 /\ (k + 1) - 2 = j + 1
    BY <1>1, <1>6, <2>1
  <2>3. c = client.name[j + 1]
    <3>1. j + 1 \in 1 .. n /\ k + 1 = (j + 1) + 2
      BY <1>1, <2>2
    <3>2. AuthMessage[(j + 1) + 2] = client.name[j + 1]
      BY <1>b, <3>1
    <3> QED BY <1>c, <3>1, <3>2
  <2>4. PICK old, new : old = Taken(client.name, j) /\ new = Taken(client.name, j + 1)
    OBVIOUS
  <2>5. Append(old, c) = new /\ Len(old) = j
    BY <1>1, <1>n, <1>w, <2>2, <2>3, <2>4, TakenGrows
  <2>6. /\ Taken(client.passwd, k - (n + 2 + 1)) = <<>>
        /\ Taken(client.passwd, (k + 1) - (n + 2 + 1)) = <<>>
    <3>1. /\ k - (n + 2 + 1) \in Int /\ k - (n + 2 + 1) <= 0
          /\ (k + 1) - (n + 2 + 1) \in Int /\ (k + 1) - (n + 2 + 1) <= 0
      BY <1>1, <1>6
    <3> QED BY <1>1, <3>1, TakenNothing
  <2>7. /\ AuthAt(k) = A("UName", n, old, 0, <<>>)
        /\ AuthAt(k + 1) = A(IF k + 1 < n + 2 THEN "UName" ELSE "PLen", n, new, 0, <<>>)
    <3>1. /\ St(k) = "UName" /\ ~(k < 2) /\ k < n + 2 + 1
          /\ St(k + 1) = IF k + 1 < n + 2 THEN "UName" ELSE "PLen"
          /\ ~(k + 1 < 2) /\ k + 1 < n + 2 + 1
      BY <1>1, <1>6
    <3>2. AuthAt(k) = A("UName", n, old, 0, <<>>)
      BY <1>a, <2>1, <2>4, <2>6, <3>1
    <3> QED BY <1>d, <2>2, <2>4, <2>6, <3>1, <3>2
  <2>8. q = [A("UName", n, old, 0, <<>>) EXCEPT
                !.uname = Append(@, c), !.state = IF Len(old) + 1 = n THEN "PLen" ELSE @]
    <3>1. /\ A("UName", n, old, 0, <<>>).state = "UName"
          /\ A("UName", n, old, 0, <<>>).uname = old /\ A("UName", n, old, 0, <<>>).ulen = n
      OBVIOUS
    <3> QED BY <1>q, <2>7, <3>1, Zenon DEF AuthParserFeed
  <2>9. q = A(IF j + 1 = n THEN "PLen" ELSE "UName", n, new, 0, <<>>)
    BY <2>5, <2>8
  <2>10. j + 1 = n <=> ~(k + 1 < n + 2)
    BY <1>1, <2>2
  <2> QED BY <1>c, <1>q, <1>3, <2>7, <2>9, <2>10
<1>7. CASE k = n + 2
  <2>1. c = w
    <3>1. k + 1 = n + 3
      BY <1>1, <1>7
    <3> QED BY <1>b, <1>c, <3>1
  <2>2. /\ Taken(client.name, k - 2) = client.name /\ Taken(client.name, (k + 1) - 2) = client.name
        /\ Taken(client.passwd, k - (n + 2 + 1)) = <<>>
        /\ Taken(client.passwd, (k + 1) - (n + 2 + 1)) = <<>>
    <3>1. /\ k - (n + 2 + 1) \in Int /\ k - (n + 2 + 1) <= 0
          /\ (k + 1) - (n + 2 + 1) \in Int /\ (k + 1) - (n + 2 + 1) <= 0
          /\ k - 2 \in Int /\ k - 2 >= n /\ (k + 1) - 2 \in Int /\ (k + 1) - 2 >= n
      BY <1>1, <1>7
    <3>2. /\ Taken(client.passwd, k - (n + 2 + 1)) = <<>>
          /\ Taken(client.passwd, (k + 1) - (n + 2 + 1)) = <<>>
      BY <1>1, <3>1, TakenNothing
    <3> QED BY <1>n, <1>1, <3>1, <3>2, TakenWhole
  <2>3. /\ AuthAt(k) = A("PLen", n, client.name, 0, <<>>)
        /\ AuthAt(k + 1) = A(IF 0 < w THEN "Passwd" ELSE "Done", n, client.name, w, <<>>)
    <3>1. /\ St(k) = "PLen" /\ ~(k < 2) /\ k < n + 2 + 1
          /\ St(k + 1) = IF 0 < w THEN "Passwd" ELSE "Done"
          /\ ~(k + 1 < 2) /\ ~(k + 1 < n + 2 + 1)
      BY <1>1, <1>7
    <3>2. AuthAt(k) = A("PLen", n, client.name, 0, <<>>)
      BY <1>a, <2>2, <3>1
    <3> QED BY <1>d, <2>2, <3>1, <3>2
  <2>4. q = [A("PLen", n, client.name, 0, <<>>) EXCEPT
                !.plen = c, !.state = IF c = 0 THEN "Invalid" ELSE "Passwd"]
    <3>1. A("PLen", n, client.name, 0, <<>>).state = "PLen"
      OBVIOUS
    <3> QED BY <1>q, <2>3, <3>1, Zenon DEF AuthParserFeed
  <2>5. q = A(IF w = 0 THEN "Invalid" ELSE "Passwd", n, client.name, w, <<>>)
    BY <2>1, <2>4
  <2> QED BY <1>c, <1>q, <1>1, <1>3, <2>3, <2>5 DEF Socks5Failed
<1>8. CASE k >= n + 3
  <2>1. PICK j : j = k - (n + 2 + 1)
    OBVIOUS
  <2>2. j \in Nat /\ j < w /\ k = j + (n + 3) /\ (k + 1) - (n + 2 + 1) = j + 1
    BY <1>1, <1>2, <1>8, <2>1
  <2>3. c = client.passwd[j + 1]
    <3>1. j + 1 \in 1 .. w /\ k + 1 = (j + 1) + (n + 3)
      BY <1>1, <2>2
    <3>2. AuthMessage[(j + 1) + (n + 3)] = client.passwd[j + 1]
      BY <1>b, <3>1
    <3> QED BY <1>c, <3>1, <3>2
  <2>4. PICK old, new : old = Taken(client.passwd, j) /\ new = Taken(client.passwd, j + 1)
    OBVIOUS
  <2>5. Append(old, c) = new /\ Len(old) = j
    BY <1>1, <1>n, <1>w, <2>2, <2>3, <2>4, TakenGrows
  <2>6. Taken(client.name, k - 2) = client.name /\ Taken(client.name, (k + 1) - 2) = client.name
    <3>1. k - 2 \in Int /\ k - 2 >= n /\ (k + 1) - 2 \in Int /\ (k + 1) - 2 >= n
      BY <1>1, <1>8
    <3> QED BY <1>n, <1>1, <3>1, TakenWhole
  <2>7. /\ AuthAt(k) = A("Passwd", n, client.name, w, old)
        /\ AuthAt(k + 1) = A(IF k + 1 < n + 2 + 1 + w THEN "Passwd" ELSE "Done",
                             n, client.name, w, new)
    <3>1. /\ St(k) = "Passwd" /\ ~(k < 2) /\ ~(k < n + 2 + 1)
          /\ St(k + 1) = IF k + 1 < n + 2 + 1 + w THEN "Passwd" ELSE "Done"
          /\ ~(k + 1 < 2) /\ ~(k + 1 < n + 2 + 1)
      BY <1>1, <1>2, <1>8
    <3>2. AuthAt(k) = A("Passwd", n, client.name, w, old)
      BY <1>a, <2>1, <2>4, <2>6, <3>1
    <3> QED BY <1>d, <2>2, <2>4, <2>6, <3>1, <3>2
  <2>8. q = [A("Passwd", n, client.name, w, old) EXCEPT
                !.passwd = Append(@, c), !.state = IF Len(old) + 1 = w THEN "Done" ELSE @]
    <3>1. /\ A("Passwd", n, client.name, w, old).state = "Passwd"
          /\ A("Passwd", n, client.name, w, old).passwd = old
          /\ A("Passwd", n, client.name, w, old).plen = w
      OBVIOUS
    <3> QED BY <1>q, <2>7, <3>1, Zenon DEF AuthParserFeed
  <2>9. q = A(IF j + 1 = w THEN "Done" ELSE "Passwd", n, client.name, w, new)
    BY <2>5, <2>8
  <2>10. j + 1 = w <=> ~(k + 1 < n + 2 + 1 + w)
    BY <1>1, <2>2
  <2> QED BY <1>c, <1>q, <1>3, <2>7, <2>9, <2>10
<1> QED BY <1>1, <1>4, <1>5, <1>6, <1>7, <1>8

(* The same of RequestParserFeed and RequestMessage.                       *)
LEMMA RequestFollows ==
    ASSUME client \in Clients, NEW k \in Nat, k < Len(RequestMessage)
    PROVE  LET q == RequestParserFeed(RequestAt(k), RequestMessage[k + 1]) IN
           /\ ~ Socks5Finished(RequestAt(k))
           /\ Socks5Failed(q) \/ q = RequestAt(k + 1)
<1>1. PICK b : b = IF client.atype = FQDN THEN 5 ELSE 4
  OBVIOUS
<1>2. PICK n : n = Len(client.address)
  OBVIOUS
<1>3. PICK c : c = RequestMessage[k + 1]
  OBVIOUS
<1>4. PICK q : q = RequestParserFeed(RequestAt(k), c)
  OBVIOUS
<1> DEFINE R(st, cm, at, l, a, p) ==
              [state |-> st, cmd |-> cm, atype |-> at, length |-> l, address |-> a, port |-> p]
           Reading == IF client.atype = FQDN THEN "Name" ELSE "Address"
           St(i) == IF i = 0 THEN "Version" ELSE IF i = 1 THEN "CMD"
                    ELSE IF i = 2 THEN "RSV" ELSE IF i = 3 THEN "AType"
                    ELSE IF i < b + n THEN Reading
                    ELSE IF i < b + n + 2 THEN "Port" ELSE "Done"
<1>5. /\ client.address \in Seq(Octet) /\ n \in Nat /\ client.port \in Seq(Octet)
      /\ Len(client.port) = 2 /\ b \in {4, 5} /\ b \in Nat
      /\ client.atype = FQDN <=> b = 5
      /\ client.atype = IPv4 => n = V4Length
      /\ client.atype = IPv6 => n = V6Length
      /\ V4Length \in Nat \ {0} /\ V6Length \in Nat \ {0}
      /\ k + 1 \in Nat
  BY <1>1, <1>2, ClientFields
<1>b. /\ Len(RequestMessage) = b + n + 2
      /\ RequestMessage[1] = Version /\ RequestMessage[2] = client.cmd
      /\ RequestMessage[3] = 0 /\ RequestMessage[4] = client.atype
      /\ client.atype = FQDN => RequestMessage[5] = n
      /\ \A i \in 1 .. n : RequestMessage[i + b] = client.address[i]
      /\ \A i \in 1 .. 2 : RequestMessage[i + (b + n)] = client.port[i]
  BY <1>1, <1>2, RequestBytes
<1>6. k < b + n + 2
  BY <1>b
<1>7. \A i \in Nat : RequestAt(i) =
         R(St(i), IF i < 2 THEN 0 ELSE client.cmd, IF i < 4 THEN 0 ELSE client.atype,
           IF i < b THEN 0 ELSE n, Taken(client.address, i - b), Taken(client.port, i - (b + n)))
  BY <1>1, <1>2 DEF RequestAt
<1>d. RequestAt(k + 1) =
         R(St(k + 1), IF k + 1 < 2 THEN 0 ELSE client.cmd, IF k + 1 < 4 THEN 0 ELSE client.atype,
           IF k + 1 < b THEN 0 ELSE n, Taken(client.address, (k + 1) - b),
           Taken(client.port, (k + 1) - (b + n)))
  BY <1>1, <1>2 DEF RequestAt
<1>8. ~ Socks5Finished(RequestAt(k))
  <2>1. RequestAt(k).state = St(k)
    BY <1>7
  <2>2. St(k) \notin {"Done", "BadVersion", "Invalid"}
    BY <1>6
  <2> QED BY <2>1, <2>2 DEF Socks5Finished
<1>9. Socks5Failed(q) \/ q = RequestAt(k + 1)
  <2>1. CASE k < 4
    <3>1. /\ Taken(client.address, k - b) = <<>>
          /\ Taken(client.address, (k + 1) - b) = <<>>
          /\ Taken(client.port, k - (b + n)) = <<>>
          /\ Taken(client.port, (k + 1) - (b + n)) = <<>>
      <4>1. k - b <= 0 /\ (k + 1) - b <= 0 /\ k - (b + n) <= 0 /\ (k + 1) - (b + n) <= 0
        BY <1>5, <2>1
      <4> QED BY <1>5, <4>1, TakenNothing
    <3>2. RequestAt(k) = R(St(k), IF k < 2 THEN 0 ELSE client.cmd, 0, 0, <<>>, <<>>)
      <4>1. ~(~(k < b)) /\ k < 4
        BY <1>5, <2>1
      <4> QED BY <1>7, <3>1, <4>1
    <3>3. CASE k = 0
      <4>1. RequestAt(k) = R("Version", 0, 0, 0, <<>>, <<>>)
        BY <3>2, <3>3
      <4>2. RequestAt(k + 1) = R("CMD", 0, 0, 0, <<>>, <<>>)
        <5>1. St(k + 1) = "CMD" /\ k + 1 < 4 /\ k + 1 < b /\ k + 1 < 2
          BY <1>5, <3>3
        <5> QED BY <1>d, <3>1, <5>1
      <4>3. c = Version
        BY <1>3, <1>b, <3>3
      <4>4. q = Going(R("Version", 0, 0, 0, <<>>, <<>>), "CMD")
        <5>1. R("Version", 0, 0, 0, <<>>, <<>>).state = "Version"
          OBVIOUS
        <5> QED BY <1>4, <4>1, <4>3, <5>1, Zenon DEF RequestParserFeed
      <4> QED BY <4>2, <4>4 DEF Going
    <3>4. CASE k = 1
      <4>1. RequestAt(k) = R("CMD", 0, 0, 0, <<>>, <<>>)
        BY <3>2, <3>4
      <4>2. RequestAt(k + 1) = R("RSV", client.cmd, 0, 0, <<>>, <<>>)
        <5>1. St(k + 1) = "RSV" /\ k + 1 < 4 /\ k + 1 < b /\ ~(k + 1 < 2)
          BY <1>5, <3>4
        <5> QED BY <1>d, <3>1, <3>4, <5>1
      <4>3. c = client.cmd
        BY <1>3, <1>b, <3>4
      <4>4. q = [R("CMD", 0, 0, 0, <<>>, <<>>) EXCEPT !.cmd = c, !.state = "RSV"]
        <5>1. R("CMD", 0, 0, 0, <<>>, <<>>).state = "CMD"
          OBVIOUS
        <5> QED BY <1>4, <4>1, <5>1, Zenon DEF RequestParserFeed
      <4>5. q = R("RSV", c, 0, 0, <<>>, <<>>)
        BY <4>4
      <4> QED BY <4>2, <4>3, <4>5
    <3>5. CASE k = 2
      <4>1. RequestAt(k) = R("RSV", client.cmd, 0, 0, <<>>, <<>>)
        BY <3>2, <3>5
      <4>2. RequestAt(k + 1) = R("AType", client.cmd, 0, 0, <<>>, <<>>)
        <5>1. St(k + 1) = "AType" /\ k + 1 < 4 /\ k + 1 < b /\ ~(k + 1 < 2)
          BY <1>5, <3>5
        <5> QED BY <1>d, <3>1, <3>5, <5>1
      <4>3. c = 0
        BY <1>3, <1>b, <3>5
      <4>4. q = Going(R("RSV", client.cmd, 0, 0, <<>>, <<>>), "AType")
        <5>1. R("RSV", client.cmd, 0, 0, <<>>, <<>>).state = "RSV"
          OBVIOUS
        <5> QED BY <1>4, <4>1, <4>3, <5>1, Zenon DEF RequestParserFeed
      <4> QED BY <4>2, <4>4 DEF Going
    <3>6. CASE k = 3
      <4>1. RequestAt(k) = R("AType", client.cmd, 0, 0, <<>>, <<>>)
        BY <3>2, <3>6
      <4>2. RequestAt(k + 1) = R(St(4), client.cmd, client.atype, IF 4 < b THEN 0 ELSE n,
                                 <<>>, <<>>)
        <5>1. k + 1 = 4 /\ ~(4 < 2) /\ ~(4 < 4)
          BY <3>6
        <5> QED BY <1>d, <3>1, <5>1
      <4>3. c = client.atype
        BY <1>3, <1>b, <3>6
      <4>4. q = AddressType(R("AType", client.cmd, 0, 0, <<>>, <<>>), client.atype)
        <5>1. R("AType", client.cmd, 0, 0, <<>>, <<>>).state = "AType"
          OBVIOUS
        <5> QED BY <1>4, <4>1, <4>3, <5>1, Zenon DEF RequestParserFeed
      <4>5. PICK t : t = R("AType", client.cmd, client.atype, 0, <<>>, <<>>)
        OBVIOUS
      <4>6. q = CASE client.atype = IPv4 -> [t EXCEPT !.state = "Address", !.length = V4Length]
                  [] client.atype = IPv6 -> [t EXCEPT !.state = "Address", !.length = V6Length]
                  [] client.atype = FQDN -> [t EXCEPT !.state = "Name"]
                  [] OTHER               -> Going(t, "Invalid")
        <5>1. [R("AType", client.cmd, 0, 0, <<>>, <<>>) EXCEPT !.atype = client.atype] = t
          BY <4>5
        <5> QED BY <4>4, <5>1, Zenon DEF AddressType
      <4>7. CASE client.atype = IPv4
        <5>1. q = [t EXCEPT !.state = "Address", !.length = V4Length]
          <6>1. client.atype # IPv6 /\ client.atype # FQDN
            BY <4>7 DEF IPv4, IPv6, FQDN
          <6> QED BY <4>6, <4>7, <6>1, Zenon
        <5>2. client.atype # FQDN /\ b = 4 /\ n = V4Length /\ n > 0
          BY <4>7, <1>5 DEF IPv4, FQDN
        <5>3. St(4) = "Address"
          BY <1>5, <5>2
        <5>4. q = R("Address", client.cmd, client.atype, n, <<>>, <<>>)
          BY <4>5, <5>1, <5>2
        <5>5. ~(4 < b)
          BY <5>2
        <5> QED BY <4>2, <5>3, <5>4, <5>5
      <4>8. CASE client.atype = IPv6
        <5>1. q = [t EXCEPT !.state = "Address", !.length = V6Length]
          <6>1. client.atype # IPv4 /\ client.atype # FQDN
            BY <4>8 DEF IPv4, IPv6, FQDN
          <6> QED BY <4>6, <4>8, <6>1, Zenon
        <5>2. client.atype # FQDN /\ b = 4 /\ n = V6Length /\ n > 0
          BY <4>8, <1>5 DEF IPv6, FQDN
        <5>3. St(4) = "Address"
          BY <1>5, <5>2
        <5>4. q = R("Address", client.cmd, client.atype, n, <<>>, <<>>)
          BY <4>5, <5>1, <5>2
        <5>5. ~(4 < b)
          BY <5>2
        <5> QED BY <4>2, <5>3, <5>4, <5>5
      <4>9. CASE client.atype = FQDN
        <5>1. q = [t EXCEPT !.state = "Name"]
          <6>1. client.atype # IPv4 /\ client.atype # IPv6
            BY <4>9 DEF IPv4, IPv6, FQDN
          <6> QED BY <4>6, <4>9, <6>1, Zenon
        <5>2. b = 5
          BY <4>9, <1>5
        <5>3. St(4) = "Name"
          BY <1>5, <4>9, <5>2
        <5> QED BY <4>2, <4>5, <5>1, <5>2, <5>3
      <4>10. CASE client.atype \notin {IPv4, IPv6, FQDN}
        <5>1. q = Going(t, "Invalid")
          BY <4>6, <4>10, Zenon
        <5> QED BY <4>5, <5>1 DEF Going, Socks5Failed
      <4> QED BY <4>7, <4>8, <4>9, <4>10
    <3> QED BY <2>1, <3>3, <3>4, <3>5, <3>6
  <2>2. CASE k >= 4 /\ k < b + n
    <3>1. Taken(client.port, k - (b + n)) = <<>> /\ Taken(client.port, (k + 1) - (b + n)) = <<>>
      <4>1. k - (b + n) <= 0 /\ (k + 1) - (b + n) <= 0
        BY <1>5, <2>2
      <4> QED BY <1>5, <4>1, TakenNothing
    <3>2. CASE k < b
      <4>1. k = 4 /\ b = 5 /\ client.atype = FQDN
        BY <1>5, <2>2, <3>2
      <4>2. Taken(client.address, k - b) = <<>> /\ Taken(client.address, (k + 1) - b) = <<>>
        BY <1>5, <4>1, TakenNothing
      <4>3. PICK p : p = R("Name", client.cmd, client.atype, 0, <<>>, <<>>)
        OBVIOUS
      <4>4. RequestAt(k) = p
        BY <1>7, <2>2, <3>1, <4>1, <4>2, <4>3
      <4>5. RequestAt(k + 1) = R(St(5), client.cmd, client.atype, n, <<>>, <<>>)
        <5>1. k + 1 = 5 /\ ~(5 < 2) /\ ~(5 < 4) /\ ~(5 < b)
          BY <4>1
        <5> QED BY <1>d, <3>1, <4>2, <5>1
      <4>6. c = n
        BY <1>3, <1>b, <4>1
      <4>7. q = AddressByte(p, c)
        <5>1. p.state = "Name"
          BY <4>3
        <5> QED BY <1>4, <4>4, <5>1, Zenon DEF RequestParserFeed
      <4>8. q = [p EXCEPT !.length = c, !.state = IF c = 0 THEN "Invalid" ELSE @]
        BY <4>3, <4>7 DEF AddressByte
      <4>9. q = R(IF n = 0 THEN "Invalid" ELSE "Name", client.cmd, client.atype, n, <<>>, <<>>)
        BY <4>3, <4>6, <4>8
      <4>10. n # 0 => St(5) = "Name"
        BY <1>5, <4>1
      <4> QED BY <4>5, <4>9, <4>10 DEF Socks5Failed
    <3>3. CASE k >= b
      <4>1. PICK j : j = k - b
        OBVIOUS
      <4>2. j \in Nat /\ j < n /\ k = j + b /\ (k + 1) - b = j + 1
        BY <1>5, <2>2, <3>3, <4>1
      <4>3. c = client.address[j + 1]
        <5>1. j + 1 \in 1 .. n /\ k + 1 = (j + 1) + b
          BY <1>5, <4>2
        <5>2. \A i \in 1 .. n : RequestMessage[i + b] = client.address[i]
          BY <1>b
        <5>3. RequestMessage[(j + 1) + b] = client.address[j + 1]
          BY <5>1, <5>2
        <5> QED BY <1>3, <5>1, <5>3
      <4>4. PICK old, new : old = Taken(client.address, j) /\ new = Taken(client.address, j + 1)
        OBVIOUS
      <4>5. Append(old, c) = new /\ Len(old) = j
        BY <1>2, <1>5, <4>2, <4>3, <4>4, TakenGrows
      <4>6. PICK p : p = R(Reading, client.cmd, client.atype, n, old, <<>>)
        OBVIOUS
      <4>7. RequestAt(k) = p
        <5>1. St(k) = Reading /\ ~(k < 2) /\ ~(k < 4) /\ ~(k < b)
          BY <1>5, <2>2, <3>3
        <5> QED BY <1>7, <3>1, <4>1, <4>4, <4>6, <5>1
      <4>8. RequestAt(k + 1) = R(IF k + 1 < b + n THEN Reading ELSE "Port", client.cmd,
                                 client.atype, n, new, <<>>)
        <5>1. /\ St(k + 1) = IF k + 1 < b + n THEN Reading ELSE "Port"
              /\ ~(k + 1 < 2) /\ ~(k + 1 < 4) /\ ~(k + 1 < b) /\ k + 1 \in Nat
          BY <1>5, <2>2, <3>3
        <5> QED BY <1>d, <3>1, <4>2, <4>4, <5>1
      <4>9. q = AddressByte(p, c)
        <5>1. p.state \in {"Name", "Address"}
          BY <4>6
        <5> QED BY <1>4, <4>7, <5>1, Zenon DEF RequestParserFeed
      <4>10. q = [p EXCEPT !.address = Append(@, c),
                           !.state = IF Len(old) + 1 = n THEN "Port" ELSE @]
        <5>1. p.length = n /\ n # 0 /\ p.address = old
          BY <1>5, <4>2, <4>6
        <5> QED BY <4>9, <5>1, Zenon DEF AddressByte
      <4>11. q = R(IF j + 1 = n THEN "Port" ELSE Reading, client.cmd, client.atype, n, new, <<>>)
        BY <4>5, <4>6, <4>10
      <4>12. j + 1 = n <=> ~(k + 1 < b + n)
        BY <1>5, <4>2
      <4> QED BY <4>8, <4>11, <4>12
    <3> QED BY <1>5, <3>2, <3>3
  <2>3. CASE k >= 4 /\ k >= b + n
    <3>1. PICK j : j = k - (b + n)
      OBVIOUS
    <3>2. j \in {0, 1} /\ k = j + (b + n) /\ (k + 1) - (b + n) = j + 1 /\ k >= b
      BY <1>5, <1>6, <2>3, <3>1
    <3>3. c = client.port[j + 1]
      <4>1. j + 1 \in 1 .. 2 /\ k + 1 = (j + 1) + (b + n)
        BY <1>5, <3>2
      <4>2. \A i \in 1 .. 2 : RequestMessage[i + (b + n)] = client.port[i]
        BY <1>b
      <4>3. RequestMessage[(j + 1) + (b + n)] = client.port[j + 1]
        BY <4>1, <4>2
      <4> QED BY <1>3, <4>1, <4>3
    <3>4. PICK old, new : old = Taken(client.port, j) /\ new = Taken(client.port, j + 1)
      OBVIOUS
    <3>5. Append(old, c) = new /\ Len(old) = j
      <4>1. j \in Nat /\ j < Len(client.port)
        BY <1>5, <3>2
      <4> QED BY <1>5, <3>3, <3>4, <4>1, TakenGrows
    <3>6. /\ Taken(client.address, k - b) = client.address
          /\ Taken(client.address, (k + 1) - b) = client.address
      <4>1. k - b >= n /\ (k + 1) - b >= n /\ k - b \in Int /\ (k + 1) - b \in Int
        BY <1>5, <2>3
      <4> QED BY <1>2, <1>5, <4>1, TakenWhole
    <3>7. PICK p : p = R("Port", client.cmd, client.atype, n, client.address, old)
      OBVIOUS
    <3>8. RequestAt(k) = p
      <4>1. St(k) = "Port" /\ ~(k < 2) /\ ~(k < 4) /\ ~(k < b)
        BY <1>5, <1>6, <2>3, <3>2
      <4> QED BY <1>7, <3>1, <3>4, <3>6, <3>7, <4>1
    <3>9. RequestAt(k + 1) = R(IF j = 0 THEN "Port" ELSE "Done", client.cmd, client.atype, n,
                               client.address, new)
      <4>1. /\ St(k + 1) = IF j = 0 THEN "Port" ELSE "Done"
            /\ ~(k + 1 < 2) /\ ~(k + 1 < 4) /\ ~(k + 1 < b) /\ k + 1 \in Nat
        BY <1>5, <2>3, <3>2
      <4> QED BY <1>d, <3>2, <3>4, <3>6, <4>1
    <3>10. q = PortByte(p, c)
      <4>1. p.state = "Port"
        BY <3>7
      <4> QED BY <1>4, <3>8, <4>1, Zenon DEF RequestParserFeed
    <3>11. old = <<>> <=> j = 0
      <4>1. j = 0 => old = <<>>
        BY <1>5, <3>4, TakenNothing
      <4>2. old = <<>> => Len(old) = 0
        OBVIOUS
      <4> QED BY <3>5, <4>1, <4>2
    <3>12. q = R(IF j = 0 THEN "Port" ELSE "Done", client.cmd, client.atype, n,
                 client.address, new)
      BY <3>5, <3>7, <3>10, <3>11 DEF PortByte
    <3> QED BY <3>9, <3>12
  <2> QED BY <1>5, <2>1, <2>2, <2>3
<1> QED BY <1>3, <1>4, <1>8, <1>9

(* The end of a message is the end of its parser, which then has it whole. *)
LEMMA WholeMessages ==
    ASSUME client \in Clients
    PROVE  /\ HelloAt(Len(HelloMessage)).state = "Done"
           /\ HelloAt(Len(HelloMessage)).methods = client.methods
           /\ AuthAt(Len(AuthMessage)).state = "Done"
           /\ AuthAt(Len(AuthMessage)).uname = client.name
           /\ AuthAt(Len(AuthMessage)).passwd = client.passwd
           /\ LET p == RequestAt(Len(RequestMessage)) IN
              /\ p.state = "Done" /\ p.cmd = client.cmd /\ p.atype = client.atype
              /\ p.address = client.address /\ p.port = client.port
<1>1. /\ HelloAt(Len(HelloMessage)).state = "Done"
      /\ HelloAt(Len(HelloMessage)).methods = client.methods
  <2>1. PICK n : n = Len(client.methods)
    OBVIOUS
  <2>2. PICK k : k = Len(HelloMessage)
    OBVIOUS
  <2>3. n \in Nat /\ k = n + 2 /\ client.methods \in Seq(Octet)
    BY <2>1, <2>2, HelloBytes, ClientFields
  <2>4. k - 2 \in Int /\ k - 2 >= n
    BY <2>3
  <2>5. Taken(client.methods, k - 2) = client.methods
    BY <2>1, <2>3, <2>4, TakenWhole
  <2>6. HelloAt(k).state = "Done" /\ HelloAt(k).methods = client.methods
    BY <2>1, <2>3, <2>5 DEF HelloAt
  <2> QED BY <2>2, <2>6
<1>2. /\ AuthAt(Len(AuthMessage)).state = "Done"
      /\ AuthAt(Len(AuthMessage)).uname = client.name
      /\ AuthAt(Len(AuthMessage)).passwd = client.passwd
  <2>1. PICK n, w : n = Len(client.name) /\ w = Len(client.passwd)
    OBVIOUS
  <2>2. PICK k : k = Len(AuthMessage)
    OBVIOUS
  <2>3. /\ n \in Nat /\ w \in Nat /\ k = n + w + 3
        /\ client.name \in Seq(Octet) /\ client.passwd \in Seq(Octet)
    <3>1. Len(AuthMessage) = n + w + 3
      BY <2>1, AuthBytes
    <3>2. /\ n \in Nat /\ w \in Nat
          /\ client.name \in Seq(Octet) /\ client.passwd \in Seq(Octet)
      BY <2>1, ClientFields
    <3> QED BY <2>2, <3>1, <3>2
  <2>4. /\ k - 2 \in Int /\ k - 2 >= n /\ k - (n + 2 + 1) \in Int /\ k - (n + 2 + 1) >= w
        /\ k # 0 /\ k # 1 /\ ~(k < n + 2) /\ k # n + 2 /\ ~(k < n + 2 + 1 + w)
    BY <2>3
  <2>5. /\ Taken(client.name, k - 2) = client.name
        /\ Taken(client.passwd, k - (n + 2 + 1)) = client.passwd
    BY <2>1, <2>3, <2>4, TakenWhole
  <2>6. /\ AuthAt(k).state = "Done" /\ AuthAt(k).uname = client.name
        /\ AuthAt(k).passwd = client.passwd
    BY <2>1, <2>4, <2>5 DEF AuthAt
  <2> QED BY <2>2, <2>6
<1>3. LET p == RequestAt(Len(RequestMessage)) IN
      /\ p.state = "Done" /\ p.cmd = client.cmd /\ p.atype = client.atype
      /\ p.address = client.address /\ p.port = client.port
  <2>1. PICK b, n : b = (IF client.atype = FQDN THEN 5 ELSE 4) /\ n = Len(client.address)
    OBVIOUS
  <2>2. PICK k : k = Len(RequestMessage)
    OBVIOUS
  <2>3. /\ n \in Nat /\ b \in {4, 5} /\ k = b + n + 2
        /\ client.address \in Seq(Octet) /\ client.port \in Seq(Octet) /\ Len(client.port) = 2
    <3>1. Len(RequestMessage) = b + n + 2
      BY <2>1, RequestBytes
    <3>2. /\ n \in Nat /\ b \in {4, 5} /\ client.address \in Seq(Octet)
          /\ client.port \in Seq(Octet) /\ Len(client.port) = 2
      BY <2>1, ClientFields
    <3> QED BY <2>2, <3>1, <3>2
  <2>4. /\ k - b \in Int /\ k - b >= n /\ k - (b + n) \in Int /\ k - (b + n) >= 2
        /\ k # 0 /\ k # 1 /\ k # 2 /\ k # 3 /\ ~(k < b + n) /\ ~(k < b + n + 2)
        /\ ~(k < 2) /\ ~(k < 4)
    BY <2>3
  <2>5. /\ Taken(client.address, k - b) = client.address
        /\ Taken(client.port, k - (b + n)) = client.port
    BY <2>1, <2>3, <2>4, TakenWhole
  <2>6. /\ RequestAt(k).state = "Done" /\ RequestAt(k).cmd = client.cmd
        /\ RequestAt(k).atype = client.atype
        /\ RequestAt(k).address = client.address /\ RequestAt(k).port = client.port
    BY <2>1, <2>4, <2>5 DEF RequestAt
  <2> QED BY <2>2, <2>6
<1> QED BY <1>1, <1>2, <1>3

(* No message is empty, and a whole one ends its parser.                   *)
LEMMA MessageTypes ==
    ASSUME client \in Clients, NEW kind \in Kinds
    PROVE  /\ Message(kind) \in Seq(Nat) /\ Len(Message(kind)) \in Nat
           /\ Len(Message(kind)) > 0
           /\ At(kind, Len(Message(kind))).state = "Done"
<1>1. CASE kind = "hello"
  <2>1. Len(client.methods) \in Nat
    BY ClientFields
  <2> QED BY <1>1, <2>1, HelloBytes, WholeMessages DEF Message, At
<1>2. CASE kind = "auth"
  <2>0. PICK n, w : n = Len(client.name) /\ w = Len(client.passwd)
    OBVIOUS
  <2>1. n \in Nat /\ w \in Nat
    BY <2>0, ClientFields
  <2>2. AuthMessage \in Seq(Nat) /\ Len(AuthMessage) = n + w + 3
    BY <2>0, AuthBytes
  <2>3. /\ Message(kind) = AuthMessage
        /\ At(kind, Len(Message(kind))) = AuthAt(Len(AuthMessage))
    BY <1>2 DEF Message, At
  <2>4. AuthAt(Len(AuthMessage)).state = "Done"
    BY WholeMessages
  <2>5. Len(AuthMessage) \in Nat /\ Len(AuthMessage) > 0
    BY <2>1, <2>2
  <2> QED BY <2>2, <2>3, <2>4, <2>5, Zenon
<1>3. CASE kind = "request"
  <2>0. PICK b, n : b = (IF client.atype = FQDN THEN 5 ELSE 4) /\ n = Len(client.address)
    OBVIOUS
  <2>1. n \in Nat /\ b \in {4, 5}
    BY <2>0, ClientFields
  <2>2. RequestMessage \in Seq(Nat) /\ Len(RequestMessage) = b + n + 2
    BY <2>0, RequestBytes
  <2>3. /\ Message(kind) = RequestMessage
        /\ At(kind, Len(Message(kind))) = RequestAt(Len(RequestMessage))
    BY <1>3 DEF Message, At
  <2>4. RequestAt(Len(RequestMessage)).state = "Done"
    BY WholeMessages
  <2>5. Len(RequestMessage) \in Nat /\ Len(RequestMessage) > 0
    BY <2>1, <2>2
  <2> QED BY <2>2, <2>3, <2>4, <2>5, Zenon
<1> QED BY <1>1, <1>2, <1>3 DEF Kinds

(* A byte of its message leads a parser on, or makes it fail.              *)
LEMMA Follows ==
    ASSUME client \in Clients, NEW kind \in Kinds, NEW k \in Nat, k < Len(Message(kind))
    PROVE  LET q == Step(kind, At(kind, k), Message(kind)[k + 1]) IN
           /\ ~ Socks5Finished(At(kind, k))
           /\ Socks5Failed(q) \/ q = At(kind, k + 1)
<1>1. CASE kind = "hello"
  BY <1>1, HelloFollows DEF Message, At, Step, Feed
<1>2. CASE kind = "auth"
  BY <1>2, AuthFollows DEF Message, At, Step, Feed
<1>3. CASE kind = "request"
  BY <1>3, RequestFollows DEF Message, At, Step, Feed
<1> QED BY <1>1, <1>2, <1>3 DEF Kinds

(* Many bytes more, however many.                                          *)
LEMMA ChunkFollows ==
    ASSUME client \in Clients, NEW kind \in Kinds, NEW k \in Nat, NEW n \in Nat,
           k + n <= Len(Message(kind)),
           NEW chunk, Len(chunk) = n, \A i \in 1 .. n : chunk[i] = Message(kind)[k + i]
    PROVE  LET q == Consume(kind, At(kind, k), chunk) IN
           Socks5Failed(q) \/ q = At(kind, k + n)
<1>1. PICK g : /\ Consume(kind, At(kind, k), chunk) = g[n]
               /\ g[0] = At(kind, k)
               /\ \A i \in 1 .. n : g[i] = Step(kind, g[i - 1], chunk[i])
  <2>1. PICK p : p = At(kind, k)
    OBVIOUS
  <2>2. FedAlong(kind, p, chunk, n)
    BY ConsumeIsARun
  <2> QED BY <2>1, <2>2 DEF FedAlong
<1> DEFINE Good(i) == Socks5Failed(g[i]) \/ g[i] = At(kind, k + i)
           S == {i \in Nat : i <= n /\ ~ Good(i)}
<1>2. S = {}
  <2> SUFFICES ASSUME S # {} PROVE FALSE
    OBVIOUS
  <2>1. PICK m \in S : \A x \in S : m <= x
    <3>1. S \subseteq Nat
      OBVIOUS
    <3> HIDE DEF S
    <3> QED BY <3>1, LeastNumber
  <2>2. m \in Nat /\ m <= n /\ ~ Good(m)
    BY <2>1
  <2>3. m # 0
    <3>1. k + 0 = k
      OBVIOUS
    <3>2. Good(0)
      BY <1>1, <3>1
    <3> QED BY <2>2, <3>2
  <2>4. m - 1 \in Nat /\ m - 1 <= n /\ m \in 1 .. n
    BY <2>2, <2>3
  <2>5. Good(m - 1)
    <3>1. m - 1 \notin S
      BY <2>1, <2>4
    <3> QED BY <2>4, <3>1
  <2>6. g[m] = Step(kind, g[m - 1], Message(kind)[k + m])
    BY <1>1, <2>4
  <2>7. CASE Socks5Failed(g[m - 1])
    BY <2>2, <2>6, <2>7 DEF Step, Socks5Failed, Socks5Finished
  <2>8. CASE g[m - 1] = At(kind, k + (m - 1))
    <3>1. PICK j : j = k + (m - 1)
      OBVIOUS
    <3>2. j \in Nat /\ j < Len(Message(kind)) /\ k + m = j + 1
      BY <2>4, <3>1, MessageTypes
    <3>3. g[m] = Step(kind, At(kind, j), Message(kind)[j + 1])
      BY <2>6, <2>8, <3>1, <3>2
    <3>4. Socks5Failed(g[m]) \/ g[m] = At(kind, j + 1)
      BY <3>2, <3>3, Follows
    <3> QED BY <2>2, <3>2, <3>4
  <2> QED BY <2>5, <2>7, <2>8
<1>3. Good(n)
  BY <1>2
<1> QED BY <1>1, <1>3
-------------------------------------------------------------------------------
(* What a read makes of a message that is under way.                       *)

(* The parser p and the rest u of the stream, after a read.                *)
HasGone(kind, p, u) ==
    \E k \in 0 .. Len(Message(kind)) :
        /\ k < Len(Message(kind))
        /\ p = At(kind, k)
        /\ u = SubSeq(Message(kind), k + 1, Len(Message(kind)))

(* A read of what is on the way leads the parser on, or makes it fail; it  *)
(* finishes with the last byte and not before.                             *)
LEMMA ReadFollows ==
    ASSUME client \in Clients, NEW kind \in Kinds, HasRead(kind),
           NEW n \in 1 .. BufferSize, n <= Len(up)
    PROVE  LET p == Consume(kind, parser, Chunk(n))
               u == SubSeq(up, n + 1, Len(up)) IN
           \/ Socks5Failed(p)
           \/ ~ Socks5Finished(p) /\ HasGone(kind, p, u)
           \/ p = At(kind, Len(Message(kind))) /\ p.state = "Done" /\ u = <<>>
<1>1. PICK m : m = Message(kind)
  OBVIOUS
<1>2. PICK l : l = Len(m)
  OBVIOUS
<1>3. m \in Seq(Nat) /\ l \in Nat /\ l > 0 /\ At(kind, l).state = "Done"
  BY <1>1, <1>2, MessageTypes
<1>4. PICK k \in 0 .. l : k < l /\ parser = At(kind, k) /\ up = SubSeq(m, k + 1, l)
  BY <1>1, <1>2 DEF HasRead
<1>5. n \in Nat /\ n >= 1
  BY HandshakeAssumption
<1>6. /\ Len(up) = l - k
      /\ \A i \in 1 .. (l - k) : up[i] = m[k + i]
  <2>1. PICK b : b = k + 1
    OBVIOUS
  <2>2. up = [i \in 1 .. (l - b + 1) |-> m[b + i - 1]] /\ k \in Nat
    BY <1>2, <1>3, <1>4, <2>1
  <2>3. up = [i \in 1 .. (l - k) |-> m[k + i]]
    BY <1>3, <1>4, <2>1, <2>2
  <2>4. Len(up) = l - k
    BY <1>2, <1>3, <1>4
  <2> QED BY <2>3, <2>4
<1>7. k \in Nat /\ k + n <= l
  BY <1>3, <1>4, <1>5, <1>6
<1>8. PICK chunk : chunk = Chunk(n)
  OBVIOUS
<1>9. Len(chunk) = n /\ \A i \in 1 .. n : chunk[i] = m[k + i]
  <2>1. up \in Seq(Nat)
    BY <1>2, <1>3, <1>4
  <2>2. chunk = [i \in 1 .. n |-> up[i]] /\ Len(chunk) = n
    BY <1>5, <1>8, <2>1 DEF Chunk
  <2> QED BY <1>5, <1>6, <1>7, <2>2
<1>10. PICK u : u = SubSeq(up, n + 1, Len(up))
  OBVIOUS
<1>11. u = SubSeq(m, k + n + 1, l)
  <2>1. up \in Seq(Nat)
    BY <1>2, <1>3, <1>4
  <2>2. u = [i \in 1 .. (l - k - n) |-> up[n + i]]
    <3>1. u = [i \in 1 .. (Len(up) - (n + 1) + 1) |-> up[(n + 1) + i - 1]]
      BY <1>10
    <3>2. Len(up) - (n + 1) + 1 = l - k - n
      BY <1>3, <1>5, <1>6, <1>7
    <3>3. \A i \in 1 .. (l - k - n) : (n + 1) + i - 1 = n + i
      BY <1>5
    <3> QED BY <3>1, <3>2, <3>3
  <2>3. SubSeq(m, k + n + 1, l) = [i \in 1 .. (l - k - n) |-> m[k + (n + i)]]
    <3>1. PICK b : b = k + n + 1
      OBVIOUS
    <3>2. b \in Nat /\ b >= 1 /\ b <= l + 1
      BY <1>3, <1>5, <1>7, <3>1
    <3>3. SubSeq(m, b, l) = [i \in 1 .. (l - b + 1) |-> m[b + i - 1]]
      BY <1>2, <1>3, <3>2
    <3>4. SubSeq(m, b, l) = [i \in 1 .. (l - k - n) |-> m[k + (n + i)]]
      BY <1>3, <1>5, <1>7, <3>1, <3>2, <3>3
    <3> QED BY <3>1, <3>4
  <2>4. \A i \in 1 .. (l - k - n) : n + i \in 1 .. (l - k)
    BY <1>3, <1>5, <1>7
  <2> QED BY <1>6, <2>2, <2>3, <2>4
<1>12. PICK p : p = Consume(kind, parser, chunk)
  OBVIOUS
<1>13. Socks5Failed(p) \/ p = At(kind, k + n)
  BY <1>1, <1>2, <1>4, <1>5, <1>7, <1>9, <1>12, ChunkFollows
<1>14. CASE p = At(kind, k + n) /\ k + n = l
  <2>1. u = <<>>
    BY <1>3, <1>5, <1>11, <1>14
  <2> QED BY <1>1, <1>2, <1>3, <1>8, <1>10, <1>12, <1>14, <2>1
<1>15. CASE p = At(kind, k + n) /\ k + n < l
  <2>1. k + n \in Nat /\ k + n \in 0 .. l
    BY <1>3, <1>5, <1>7
  <2>2. ~ Socks5Finished(p)
    BY <1>1, <1>2, <1>15, <2>1, Follows
  <2>3. HasGone(kind, p, u)
    BY <1>1, <1>2, <1>11, <1>15, <2>1 DEF HasGone
  <2> QED BY <1>8, <1>10, <1>12, <2>2, <2>3
<1>16. CASE Socks5Failed(p)
  BY <1>8, <1>12, <1>16
<1> QED BY <1>3, <1>5, <1>7, <1>13, <1>14, <1>15, <1>16

(* An end of stream is no byte for a parser that awaits its message.       *)
LEMMA EmptyChunk ==
    ASSUME client \in Clients, NEW kind \in Kinds, Awaits(kind)
    PROVE  /\ Consume(kind, parser, <<>>) = parser
           /\ ~ Socks5Finished(parser)
<1>1. parser = At(kind, 0) /\ Len(Message(kind)) > 0 /\ Len(Message(kind)) \in Nat
  BY MessageTypes DEF Awaits
<1>2. ~ Socks5Finished(parser)
  BY <1>1, Follows
<1>3. FedAlong(kind, parser, <<>>, 0)
  <2>1. PICK p, e : p = parser /\ e = <<>>
    OBVIOUS
  <2>2. Len(e) = 0
    BY <2>1
  <2>3. FedAlong(kind, p, e, 0)
    BY <2>2, ConsumeIsARun
  <2> QED BY <2>1, <2>3
<1> QED BY <1>2, <1>3 DEF FedAlong

-------------------------------------------------------------------------------
(* The replies.                                                            *)

(* The greatest of some positions is one of them.                          *)
LEMMA MaxIsGreatest ==
    ASSUME NEW l \in Nat, NEW S, S \subseteq 1 .. l, S # {}
    PROVE  Max(S) \in S
<1> DEFINE T == {x \in Nat : x <= l /\ l - x \in S}
<1>1. PICK y \in S : TRUE
  OBVIOUS
<1>2. l - y \in T
  <2>1. y \in 1 .. l
    BY <1>1
  <2>2. l - y \in Nat /\ l - y <= l /\ l - (l - y) = y
    BY <2>1
  <2> QED BY <1>1, <2>2
<1>3. PICK m \in T : \A x \in T : m <= x
  <2>1. T \subseteq Nat /\ T # {}
    BY <1>2
  <2> HIDE DEF T
  <2> QED BY <2>1, LeastNumber
<1>4. m \in Nat /\ l - m \in S
  BY <1>3
<1>5. \A x \in S : l - m >= x
  <2> TAKE x \in S
  <2>1. x \in 1 .. l
    OBVIOUS
  <2>2. l - x \in Nat /\ l - x <= l /\ l - (l - x) = x
    BY <2>1
  <2>3. l - x \in T
    BY <2>2
  <2>4. m <= l - x
    BY <1>3, <2>3
  <2> QED BY <1>4, <2>1, <2>4
<1>6. \E x \in S : \A z \in S : x >= z
  BY <1>4, <1>5
<1> HIDE DEF T
<1> QED BY <1>6, Zenon DEF Max

(* The least of some positions is one of them.                             *)
LEMMA MinIsLeast ==
    ASSUME NEW l \in Nat, NEW S, S \subseteq 1 .. l, S # {}
    PROVE  Min(S) \in S /\ \A x \in S : Min(S) <= x
<1>1. S \subseteq Nat
  OBVIOUS
<1>2. \E m \in S : \A x \in S : m <= x
  BY <1>1, LeastNumber
<1> QED BY <1>2, Zenon DEF Min

(* A method is chosen that the client offered, if it offered a known one.  *)
LEMMA MethodIsOffered ==
    ASSUME client \in Clients
    PROVE  SelectAuthenticationMethod(client.methods) \in
              IF Offered = {} THEN {NoAcceptable} ELSE Offered
<1> DEFINE s == client.methods
           I == {i \in 1 .. Len(s) : s[i] \in {UserPass, NoAuth}}
<1>1. s \in Seq(Octet) /\ Len(s) \in Nat
  BY ClientFields
<1>2. SelectAuthenticationMethod(s) =
         LET last == IF I # {} THEN Max(I) ELSE 0 IN IF last = 0 THEN NoAcceptable ELSE s[last]
  BY DEF SelectAuthenticationMethod, SelectLastInSeq
<1>3. CASE I = {}
  <2>1. Offered = {}
    BY <1>3 DEF Offered
  <2>2. SelectAuthenticationMethod(s) = NoAcceptable
    BY <1>2, <1>3
  <2> QED BY <2>1, <2>2
<1>4. CASE I # {}
  <2>1. I \subseteq 1 .. Len(s)
    OBVIOUS
  <2>2. Max(I) \in I
    <3> HIDE DEF I
    <3> QED BY <1>1, <1>4, <2>1, MaxIsGreatest
  <2>3. PICK last : last = Max(I)
    OBVIOUS
  <2>4. last \in 1 .. Len(s) /\ s[last] \in {UserPass, NoAuth} /\ last # 0
    BY <1>1, <2>2, <2>3
  <2>5. s[last] \in Offered
    BY <2>4 DEF Offered
  <2>6. SelectAuthenticationMethod(s) = s[last]
    <3> HIDE DEF I
    <3> QED BY <1>2, <1>4, <2>3, <2>4
  <2> QED BY <2>5, <2>6
<1> QED BY <1>3, <1>4

(* A string without a byte 0 is what C reads of some bytes if they are     *)
(* that string, or go on after it with a byte 0 (strcmp).                  *)
LEMMA CStringReads ==
    ASSUME NEW s \in Seq(Octet), NEW t \in Seq(Octet \ {0})
    PROVE  t = CString(s) <=> ReadAs(s, t)
<1> DEFINE I == {i \in 1 .. Len(s) : s[i] = 0}
<1>1. Octet \subseteq Nat /\ 0 \in Octet
  BY Socks5ParsersAssumption
<1>2. /\ Len(s) \in Nat /\ Len(t) \in Nat
      /\ \A i \in 1 .. Len(t) : t[i] # 0
  BY <1>1
<1>3. CString(s) = LET end == IF I # {} THEN Min(I) ELSE 0
                   IN IF end = 0 THEN s ELSE SubSeq(s, 1, end - 1)
  BY DEF CString, SelectInSeq
<1>4. CASE I = {}
  <2>1. CString(s) = s
    BY <1>3, <1>4
  <2>2. ASSUME Len(s) > Len(t), s[Len(t) + 1] = 0
        PROVE  FALSE
    <3>1. Len(t) + 1 \in 1 .. Len(s)
      BY <1>2, <2>2
    <3> QED BY <1>4, <2>2, <3>1
  <2> QED BY <2>1, <2>2 DEF ReadAs
<1>5. CASE I # {}
  <2>1. PICK e : e = Min(I)
    OBVIOUS
  <2>2. e \in I /\ \A x \in I : e <= x
    <3>1. I \subseteq 1 .. Len(s)
      OBVIOUS
    <3> HIDE DEF I
    <3> QED BY <1>2, <1>5, <2>1, <3>1, MinIsLeast
  <2>3. e \in 1 .. Len(s) /\ s[e] = 0 /\ e # 0
    BY <1>2, <2>2
  <2>4. CString(s) = SubSeq(s, 1, e - 1)
    <3> HIDE DEF I
    <3> QED BY <1>3, <1>5, <2>1, <2>3
  <2>5. ASSUME t = CString(s)
        PROVE  ReadAs(s, t)
    <3>1. Len(t) = e - 1
      BY <1>2, <2>3, <2>4, <2>5
    <3>2. Len(s) > Len(t) /\ SubSeq(s, 1, Len(t)) = t /\ s[Len(t) + 1] = 0
      BY <1>2, <2>3, <2>4, <2>5, <3>1
    <3> QED BY <3>2 DEF ReadAs
  <2>6. ASSUME ReadAs(s, t)
        PROVE  t = CString(s)
    <3>1. s # t
      BY <1>2, <2>3
    <3>2. Len(s) > Len(t) /\ SubSeq(s, 1, Len(t)) = t /\ s[Len(t) + 1] = 0
      BY <2>6, <3>1 DEF ReadAs
    <3>3. e <= Len(t) + 1
      <4>1. Len(t) + 1 \in 1 .. Len(s)
        BY <1>2, <3>2
      <4> QED BY <2>2, <3>2, <4>1
    <3>4. ~ (e <= Len(t))
      <4>1. \A i \in 1 .. Len(t) : SubSeq(s, 1, Len(t))[i] = s[i]
        BY <1>2, <3>2
      <4> QED BY <1>2, <2>3, <3>2, <4>1
    <3>5. Len(t) = e - 1
      BY <1>2, <2>3, <3>3, <3>4
    <3> QED BY <2>4, <3>2, <3>5
  <2> QED BY <2>5, <2>6
<1> QED BY <1>4, <1>5

(* The user that is logged in is the one the client says it is.            *)
LEMMA UserIsKnown ==
    ASSUME client \in Clients
    PROVE  LET found == Matches(client.name, client.passwd) IN
           /\ found = Known
           /\ (IF found = {} THEN {} ELSE {CHOOSE c \in found : TRUE}) = Known
<1>1. /\ client.name \in Seq(Octet) /\ client.passwd \in Seq(Octet)
      /\ \A c \in Credentials : c \in [name : Seq(Octet \ {0}), passwd : Seq(Octet \ {0})]
  BY ClientFields, HandshakeAssumption
<1>2. Matches(client.name, client.passwd) = Known
  <2>1. \A c \in Credentials :
            /\ c.name = CString(client.name) <=> ReadAs(client.name, c.name)
            /\ c.passwd = CString(client.passwd) <=> ReadAs(client.passwd, c.passwd)
    BY <1>1, CStringReads
  <2> QED BY <2>1 DEF Matches, Known
<1>3. \A c, d \in Matches(client.name, client.passwd) : c = d
  <2>1. \A c \in Matches(client.name, client.passwd) :
            c = [name |-> CString(client.name), passwd |-> CString(client.passwd)]
    BY <1>1 DEF Matches
  <2> QED BY <2>1
<1>4. ASSUME NEW S, \A c, d \in S : c = d
      PROVE  (IF S = {} THEN {} ELSE {CHOOSE c \in S : TRUE}) = S
  BY <1>4
<1> QED BY <1>2, <1>3, <1>4
-------------------------------------------------------------------------------
(* The states of a conversation.                                           *)

(* A parser that was reset has had no byte.                                *)
LEMMA ResetIsAtZero ==
    ASSUME client \in Clients
    PROVE  /\ At("hello", 0) = HelloParserReset
           /\ At("auth", 0) = AuthParserReset
           /\ At("request", 0) = RequestParserReset
<1>1. /\ client.methods \in Seq(Octet) /\ client.name \in Seq(Octet)
      /\ client.passwd \in Seq(Octet) /\ client.address \in Seq(Octet)
      /\ client.port \in Seq(Octet)
      /\ Len(client.name) \in Nat /\ Len(client.address) \in Nat
  BY ClientFields
<1>2. Taken(client.methods, 0 - 2) = <<>> /\ Taken(client.name, 0 - 2) = <<>>
  BY <1>1, TakenNothing
<1>3. Taken(client.passwd, 0 - (Len(client.name) + 2 + 1)) = <<>>
  <2>1. PICK j : j = 0 - (Len(client.name) + 2 + 1)
    OBVIOUS
  <2>2. j \in Int /\ j <= 0
    BY <1>1, <2>1
  <2> QED BY <1>1, <2>1, <2>2, TakenNothing
<1>4. ASSUME NEW b \in {4, 5}
      PROVE  /\ Taken(client.address, 0 - b) = <<>>
             /\ Taken(client.port, 0 - (b + Len(client.address))) = <<>>
  <2>1. PICK j, l : j = 0 - b /\ l = 0 - (b + Len(client.address))
    OBVIOUS
  <2>2. j \in Int /\ j <= 0 /\ l \in Int /\ l <= 0
    BY <1>1, <2>1
  <2> QED BY <1>1, <2>1, <2>2, TakenNothing
<1>5. At("hello", 0) = HelloParserReset
  BY <1>2 DEF At, HelloAt, HelloParserReset
<1>6. At("auth", 0) = AuthParserReset
  BY <1>1, <1>2, <1>3 DEF At, AuthAt, AuthParserReset
<1>7. At("request", 0) = RequestParserReset
  <2>1. PICK b \in {4, 5} : b = IF client.atype = FQDN THEN 5 ELSE 4
    OBVIOUS
  <2>2. 0 < b /\ 0 < 2 /\ 0 < 4
    BY <2>1
  <2>3. /\ Taken(client.address, 0 - b) = <<>>
        /\ Taken(client.port, 0 - (b + Len(client.address))) = <<>>
    BY <1>4, <2>1
  <2>4. RequestAt(0) = [state |-> "Version", cmd |-> 0, atype |-> 0, length |-> 0,
                        address |-> Taken(client.address, 0 - b),
                        port |-> Taken(client.port, 0 - (b + Len(client.address)))]
    BY <2>1, <2>2, Zenon DEF RequestAt
  <2> QED BY <2>3, <2>4 DEF At, RequestParserReset
<1> QED BY <1>5, <1>6, <1>7

(* A parser that awaits a message has read none of it when it is sent.     *)
LEMMA SentWhole ==
    ASSUME client \in Clients, NEW kind \in Kinds
    PROVE  HasGone(kind, At(kind, 0), Message(kind))
<1>1. PICK m, l : m = Message(kind) /\ l = Len(m)
  OBVIOUS
<1>2. m \in Seq(Nat) /\ l \in Nat /\ l > 0
  BY <1>1, MessageTypes
<1>3. m = SubSeq(m, 0 + 1, l)
  BY <1>1, <1>2
<1> QED BY <1>1, <1>2, <1>3 DEF HasGone

(* There is something on the way of a message that was not read whole.     *)
LEMMA SomethingIsLeft ==
    ASSUME client \in Clients, NEW kind \in Kinds, HasRead(kind)
    PROVE  up # <<>>
<1>1. PICK m, l : m = Message(kind) /\ l = Len(m)
  OBVIOUS
<1>2. m \in Seq(Nat) /\ l \in Nat
  BY <1>1, MessageTypes
<1>3. PICK k \in 0 .. l : k < l /\ up = SubSeq(m, k + 1, l)
  BY <1>1 DEF HasRead
<1>4. Len(up) = l - k /\ l - k > 0
  BY <1>1, <1>2, <1>3
<1> QED BY <1>4

(* Two bytes and two bytes are four.                                       *)
LEMMA FourBytes ==
    ASSUME NEW a \in Nat, NEW b \in Nat, NEW c \in Nat, NEW d \in Nat
    PROVE  <<a, b>> \o <<c, d>> = <<a, b, c, d>>
<1>1. PICK s, t, u : s = <<a, b>> /\ t = <<c, d>> /\ u = s \o t
  OBVIOUS
<1>2. /\ s \in Seq(Nat) /\ Len(s) = 2 /\ s[1] = a /\ s[2] = b
      /\ t \in Seq(Nat) /\ Len(t) = 2 /\ t[1] = c /\ t[2] = d
  BY <1>1
<1>3. Joins(s, t, u)
  BY <1>1, <1>2, Joined
<1>4. u \in Seq(Nat) /\ Len(u) = 4 /\ u[1] = a /\ u[2] = b /\ u[3] = c /\ u[4] = d
  <2>1. /\ u \in Seq(Nat) /\ Len(u) = 4
        /\ \A i \in 1 .. 2 : u[i] = s[i]
        /\ \A i \in 1 .. 2 : u[i + 2] = t[i]
    BY <1>2, <1>3 DEF Joins
  <2>2. u[1] = s[1] /\ u[2] = s[2] /\ u[1 + 2] = t[1] /\ u[2 + 2] = t[2]
    BY <2>1
  <2> QED BY <1>2, <2>1, <2>2
<1>5. u = <<a, b, c, d>>
  BY <1>4
<1> QED BY <1>1, <1>5

(* What follows from the invariant about the replies.                      *)
LEMMA FirstReplyAsAgreed ==
    ASSUME MethodAgreed, heard \o write = <<Version, method>>
    PROVE  RepliesAsAgreed
<1>1. PICK t : t = IF method # UserPass THEN <<>>
                   ELSE <<NegotiationVersion, IF Known = {} THEN Refused ELSE Success>>
  OBVIOUS
<1>2. t \in Seq(Nat)
  BY <1>1 DEF NegotiationVersion, Refused, Success
<1>3. method \in Nat
  <2>1. method = NoAcceptable \/ method \in {NoAuth, UserPass}
    BY DEF MethodAgreed, Offered
  <2> QED BY <2>1 DEF NoAcceptable, NoAuth, UserPass
<1>4. <<Version, method>> \in Seq(Nat) /\ Len(<<Version, method>>) = 2
  BY <1>3 DEF Version
<1>5. IsPrefix(heard \o write, <<Version, method>> \o t)
  <2>1. PICK r : r = <<Version, method>>
    OBVIOUS
  <2>2. r \in Seq(Nat) /\ Len(r) = 2
    BY <1>4, <2>1
  <2>3. PICK q : q = r \o t
    OBVIOUS
  <2>4. Joins(r, t, q)
    BY <1>2, <2>2, <2>3, Joined
  <2>5. /\ q \in Seq(Nat) /\ Len(q) >= 2
        /\ \A i \in 1 .. 2 : q[i] = r[i]
    BY <1>2, <2>2, <2>4 DEF Joins
  <2>6. SubSeq(r, 1, 2) = [i \in 1 .. 2 |-> r[i]] /\ SubSeq(q, 1, 2) = [i \in 1 .. 2 |-> q[i]]
    BY <2>2, <2>5
  <2>7. Len(r) <= Len(r \o t) /\ SubSeq(r, 1, Len(r)) = SubSeq(r \o t, 1, Len(r))
    BY <2>2, <2>3, <2>5, <2>6
  <2> QED BY <2>1, <2>7 DEF IsPrefix
<1> QED BY <1>1, <1>5 DEF RepliesAsAgreed, MethodAgreed

(* The same of both replies.                                               *)
LEMMA WholeReplyAsAgreed ==
    ASSUME MethodAgreed, method = UserPass,
           heard \o write = <<Version, UserPass, NegotiationVersion, Verdict>>
    PROVE  RepliesAsAgreed
<1>1. PICK v : v = IF Known = {} THEN Refused ELSE Success
  OBVIOUS
<1>2. v \in Nat
  BY <1>1 DEF Refused, Success
<1>3. PICK r : r = heard \o write
  OBVIOUS
<1>4. r = <<Version, UserPass>> \o <<NegotiationVersion, v>>
  BY <1>1, <1>2, <1>3 DEF Verdict, Version, UserPass, NegotiationVersion
<1>5. r \in Seq(Nat)
  BY <1>1, <1>2, <1>3 DEF Verdict, Version, UserPass, NegotiationVersion
<1>6. IsPrefix(r, r)
  BY <1>5 DEF IsPrefix
<1> QED BY <1>1, <1>3, <1>4, <1>6 DEF RepliesAsAgreed, MethodAgreed

(* The same before the first reply.                                        *)
LEMMA NoReplyAsAgreed ==
    ASSUME heard = <<>>, write = <<>>
    PROVE  RepliesAsAgreed
<1>1. PICK m \in IF Offered = {} THEN {NoAcceptable} ELSE Offered : TRUE
  OBVIOUS
<1>2. PICK t : t = IF m # UserPass THEN <<>>
                   ELSE <<NegotiationVersion, IF Known = {} THEN Refused ELSE Success>>
  OBVIOUS
<1>3. t \in Seq(Nat) /\ m \in Nat
  <2>1. m = NoAcceptable \/ m \in {NoAuth, UserPass}
    BY <1>1 DEF Offered
  <2> QED BY <1>2, <2>1 DEF NegotiationVersion, Refused, Success, NoAcceptable, NoAuth, UserPass
<1>4. PICK r : r = <<Version, m>> \o t
  OBVIOUS
<1>5. r \in Seq(Nat)
  BY <1>3, <1>4 DEF Version
<1>6. heard \o write = <<>>
  OBVIOUS
<1>7. IsPrefix(<<>>, r)
  BY <1>5 DEF IsPrefix
<1> QED BY <1>2, <1>4, <1>6, <1>7 DEF RepliesAsAgreed

(* In every state, then, the replies are as agreed.                        *)
LEMMA OrderImpliesReplies ==
    ASSUME HandshakeInv
    PROVE  RepliesAsAgreed
<1> SUFFICES ASSUME client.patient PROVE RepliesAsAgreed
  BY DEF RepliesAsAgreed
<1>1. InOrder
  BY DEF HandshakeInv
<1>2. heard \in Seq(Nat) /\ (write = <<>> => heard \o write = heard)
  BY <1>1 DEF InOrder
<1>3. CASE state = "HELLO_READ"
  BY <1>1, <1>3, NoReplyAsAgreed DEF InOrder, InHelloRead
<1>4. CASE state = "HELLO_WRITE"
  BY <1>1, <1>4, FirstReplyAsAgreed DEF InOrder, InHelloWrite
<1>5. CASE state = "AUTH_READ"
  BY <1>1, <1>2, <1>5, FirstReplyAsAgreed DEF InOrder, InAuthRead
<1>6. CASE state = "AUTH_WRITE"
  BY <1>1, <1>6, WholeReplyAsAgreed DEF InOrder, InAuthWrite
<1>7. ASSUME Admitted PROVE RepliesAsAgreed
  <2>1. CASE method = UserPass
    <3>1. MethodAgreed /\ heard \o write = <<Version, UserPass, NegotiationVersion, Verdict>>
      BY <1>2, <1>7, <2>1 DEF Admitted, Verdict
    <3> QED BY <2>1, <3>1, WholeReplyAsAgreed
  <2>2. CASE method # UserPass
    BY <1>2, <1>7, <2>2, FirstReplyAsAgreed DEF Admitted
  <2> QED BY <2>1, <2>2
<1>8. CASE state = "REQUEST_READ"
  BY <1>1, <1>7, <1>8 DEF InOrder, InRequestRead
<1>9. CASE state \in GoesOn
  BY <1>1, <1>7, <1>9 DEF InOrder, Served
<1>10. CASE state \in EndStates
  BY <1>1, <1>10 DEF InOrder
<1> QED BY <1>3, <1>4, <1>5, <1>6, <1>8, <1>9, <1>10 DEF HandshakeInv, ReadStates, WriteStates
-------------------------------------------------------------------------------
(* Steps.                                                                  *)

(* What depends on the client alone stays.                                 *)
LEMMA ClientStays ==
    ASSUME client' = client
    PROVE  /\ \A kind \in Kinds : (Message(kind))' = Message(kind)
           /\ \A kind \in Kinds : (Awaits(kind))' <=> parser' = At(kind, 0) /\ up' = <<>>
           /\ \A kind \in Kinds : (HasRead(kind))' <=> HasGone(kind, parser', up')
           /\ (RequestAt(Len(RequestMessage)))' = At("request", Len(Message("request")))
           /\ Offered' = Offered /\ Known' = Known /\ Verdict' = Verdict
<1>1. \A kind : (Message(kind))' = Message(kind)
  BY DEF Message, HelloMessage, AuthMessage, RequestMessage
<1>2. \A kind, k : (At(kind, k))' = At(kind, k)
  BY DEF At, HelloAt, AuthAt, RequestAt
<1>3. \A kind \in Kinds : (Awaits(kind))' <=> parser' = At(kind, 0) /\ up' = <<>>
  BY <1>2 DEF Awaits
<1>4. \A kind \in Kinds : (HasRead(kind))' <=> HasGone(kind, parser', up')
  BY <1>1, <1>2 DEF HasRead, HasGone
<1>5. (RequestAt(Len(RequestMessage)))' = At("request", Len(Message("request")))
  BY DEF At, RequestAt, Message, RequestMessage
<1>6. Offered' = Offered /\ Known' = Known /\ Verdict' = Verdict
  BY DEF Offered, Known, Verdict
<1> QED BY <1>1, <1>3, <1>4, <1>5, <1>6

(* What was replied stays as agreed as long as nothing is added to it.     *)
LEMMA RepliesStay ==
    ASSUME HandshakeInv, client' = client, heard' \o write' = heard \o write
    PROVE  RepliesAsAgreed'
<1>1. RepliesAsAgreed
  BY OrderImpliesReplies
<1>2. Offered' = Offered /\ Known' = Known
  BY ClientStays
<1> QED BY <1>1, <1>2 DEF RepliesAsAgreed

(* A connection that fails, or ends, keeps the invariant.                  *)
LEMMA EndsInOrder ==
    ASSUME HandshakeInv, client' = client, heard' = heard, write' = write,
           state' \in EndStates
    PROVE  HandshakeInv'
<1>1. RepliesAsAgreed'
  BY RepliesStay
<1>2. /\ state' \notin GoesOn
      /\ state' \notin {"HELLO_READ", "HELLO_WRITE", "AUTH_READ", "AUTH_WRITE", "REQUEST_READ"}
  BY DEF EndStates, GoesOn
<1>3. client'.patient => heard' \in Seq(Nat) /\ write' \in Seq(Nat)
  BY DEF HandshakeInv, InOrder
<1> QED BY <1>1, <1>2, <1>3 DEF HandshakeInv, InOrder

(* The bytes of a message get on their way to a parser that awaits them.   *)
LEMMA Sent ==
    ASSUME client \in Clients, client' = client, parser' = parser, NEW kind \in Kinds,
           Awaits(kind), up' = up \o Message(kind)
    PROVE  (HasRead(kind))'
<1>1. up' = Message(kind)
  BY MessageTypes DEF Awaits
<1>2. HasGone(kind, parser', up')
  BY <1>1, SentWhole DEF Awaits
<1> QED BY <1>2, ClientStays

(* A client that has as many bytes as were replied has them all.           *)
LEMMA HeardWhole ==
    ASSUME NEW h \in Seq(Nat), NEW w \in Seq(Nat), NEW r, h \o w = r
    PROVE  Len(h) <= Len(r) /\ (Len(h) = Len(r) => w = <<>> /\ h = r)
<1>1. Joins(h, w, r)
  BY Joined
<1>2. r \in Seq(Nat) /\ Len(r) = Len(h) + Len(w) /\ \A i \in 1 .. Len(h) : r[i] = h[i]
  BY <1>1 DEF Joins
<1>3. Len(h) \in Nat /\ Len(w) \in Nat
  OBVIOUS
<1>4. ASSUME Len(h) = Len(r)
      PROVE  w = <<>> /\ h = r
  <2>1. Len(w) = 0
    BY <1>2, <1>3, <1>4
  <2>2. w = <<>>
    BY <2>1
  <2>3. h = r
    BY <1>2, <1>4
  <2> QED BY <2>2, <2>3
<1> QED BY <1>2, <1>3, <1>4

(* The steps of the client.                                                *)
LEMMA SendHelloInOrder ==
    ASSUME HandshakeInv, SendHello
    PROVE  HandshakeInv'
<1>1. /\ client' = client /\ state' = state /\ heard' = heard /\ write' = write
      /\ parser' = parser /\ user' = user
      /\ turn = 0 /\ turn' = 1 /\ up' = up \o Message("hello")
  BY DEF SendHello, Says, server, Message
<1>2. InOrder
  BY DEF HandshakeInv, SendHello
<1>3. CASE state = "HELLO_READ"
  <2>1. InHelloRead /\ Awaits("hello")
    BY <1>1, <1>2, <1>3 DEF InOrder, InHelloRead
  <2>2. (HasRead("hello"))'
    BY <1>1, <2>1, Sent DEF Kinds, HandshakeInv
  <2>3. InHelloRead'
    BY <1>1, <2>1, <2>2 DEF InHelloRead
  <2> QED BY <1>1, <1>2, <1>3, <2>3 DEF HandshakeInv, InOrder, EndStates, GoesOn
<1>4. CASE state \in EndStates
  BY <1>1, <1>4, EndsInOrder
<1>5. state = "HELLO_READ" \/ state \in EndStates
  BY <1>1, <1>2 DEF HandshakeInv, InOrder, ReadStates, WriteStates, InHelloWrite, InAuthRead,
                    InAuthWrite, InRequestRead, Served
<1> QED BY <1>3, <1>4, <1>5

(* A patient client sends its name when it is told to: the handler has     *)
(* written its whole reply, or awaits the message already.                 *)
LEMMA SendAuthInOrder ==
    ASSUME HandshakeInv, SendAuth
    PROVE  HandshakeInv'
<1>1. /\ client' = client /\ state' = state /\ heard' = heard /\ write' = write
      /\ parser' = parser /\ user' = user /\ method' = method
      /\ turn = 1 /\ turn' = 2 /\ up' = up \o Message("auth")
  BY DEF SendAuth, Says, server, Message
<1>2. InOrder /\ Len(heard) = 2 /\ heard[2] = UserPass
  BY DEF HandshakeInv, SendAuth, Agreed
<1>3. MethodAgreed' <=> MethodAgreed
  BY <1>1, ClientStays DEF MethodAgreed
<1>4. CASE state = "HELLO_WRITE"
  <2>1. InHelloWrite /\ up = <<>>
    BY <1>1, <1>2, <1>4 DEF InOrder, InHelloWrite
  <2>2. write = <<>> /\ heard[2] = method
    <3>1. heard \o write = <<Version, method>> /\ heard \in Seq(Nat) /\ write \in Seq(Nat)
      BY <1>2, <2>1 DEF InHelloWrite, InOrder
    <3>2. PICK r : r = <<Version, method>>
      OBVIOUS
    <3>3. Len(r) = 2 /\ r[2] = method
      BY <3>2
    <3>4. write = <<>> /\ heard = r
      BY <1>2, <3>1, <3>2, <3>3, HeardWhole
    <3> QED BY <3>3, <3>4
  <2>3. up' = Message("auth") /\ up' = (Message("auth"))'
    BY <1>1, <2>1, ClientStays, MessageTypes DEF Kinds, HandshakeInv
  <2>4. InHelloWrite'
    BY <1>1, <1>2, <1>3, <2>1, <2>2, <2>3 DEF InHelloWrite
  <2> QED BY <1>1, <1>2, <1>4, <2>4 DEF HandshakeInv, InOrder, EndStates, GoesOn
<1>5. CASE state = "AUTH_READ"
  <2>1. InAuthRead /\ Awaits("auth")
    BY <1>1, <1>2, <1>5 DEF InOrder, InAuthRead
  <2>2. (HasRead("auth"))'
    BY <1>1, <2>1, Sent DEF Kinds, HandshakeInv
  <2>3. InAuthRead'
    BY <1>1, <1>3, <2>1, <2>2 DEF InAuthRead
  <2> QED BY <1>1, <1>2, <1>5, <2>3 DEF HandshakeInv, InOrder, EndStates, GoesOn
<1>6. CASE state = "REQUEST_READ"
  <2>1. Admitted /\ (Awaits("request") \/ turn = 3)
    BY <1>2, <1>6 DEF InOrder, InRequestRead
  <2>2. FALSE
    BY <1>2, <2>1 DEF Admitted
  <2> QED BY <2>2
<1>7. CASE state \in EndStates
  BY <1>1, <1>7, EndsInOrder
<1>8. state \in {"HELLO_WRITE", "AUTH_READ", "REQUEST_READ"} \/ state \in EndStates
  <2>1. state # "HELLO_READ"
    BY <1>2 DEF InOrder, InHelloRead
  <2>2. state # "AUTH_WRITE" /\ state \notin GoesOn
    BY <1>1, <1>2 DEF InOrder, InAuthWrite, Served
  <2> QED BY <2>1, <2>2 DEF HandshakeInv, ReadStates, WriteStates
<1> QED BY <1>4, <1>5, <1>6, <1>7, <1>8

(* It sends its request when it is admitted.                               *)
LEMMA SendRequestInOrder ==
    ASSUME HandshakeInv, SendRequest
    PROVE  HandshakeInv'
<1>1. /\ client' = client /\ state' = state /\ heard' = heard /\ write' = write
      /\ parser' = parser /\ user' = user /\ method' = method
      /\ turn \in {1, 2} /\ turn' = 3 /\ up' = up \o Message("request")
  BY DEF SendRequest, Says, server, Message
<1>2. InOrder
  BY DEF HandshakeInv, SendRequest
<1>3. \/ turn = 1 /\ Len(heard) = 2 /\ heard[2] = NoAuth
      \/ turn = 2 /\ method = UserPass /\ Len(heard) = 4 /\ heard[4] = Success
  BY DEF SendRequest, Agreed, Accepted
<1>4. (MethodAgreed' <=> MethodAgreed) /\ Known' = Known /\ Verdict' = Verdict
  BY <1>1, ClientStays DEF MethodAgreed
<1>5. up = <<>> => up' = Message("request") /\ up' = (Message("request"))'
  BY <1>1, ClientStays, MessageTypes DEF Kinds, HandshakeInv
<1>6. CASE state = "HELLO_WRITE"
  <2>1. InHelloWrite
    BY <1>2, <1>6 DEF InOrder
  <2>r. PICK r : r = <<Version, method>>
    OBVIOUS
  <2>h. /\ heard \o write = r /\ heard \in Seq(Nat) /\ write \in Seq(Nat)
        /\ Len(r) = 2 /\ r[2] = method
    BY <1>2, <2>1, <2>r DEF InHelloWrite, InOrder
  <2>w. Len(heard) <= Len(r) /\ (Len(heard) = Len(r) => write = <<>> /\ heard = r)
    BY <2>h, HeardWhole
  <2>2. turn = 1
    BY <1>3, <2>h, <2>w
  <2>3. up = <<>>
    BY <2>1, <2>2 DEF InHelloWrite
  <2>4. write = <<>> /\ heard[2] = method
    BY <1>3, <2>2, <2>h, <2>w
  <2>5. InHelloWrite'
    BY <1>1, <1>3, <1>4, <1>5, <2>1, <2>2, <2>3, <2>4 DEF InHelloWrite
  <2> QED BY <1>1, <1>2, <1>6, <2>5 DEF HandshakeInv, InOrder, EndStates, GoesOn
<1>7. CASE state = "AUTH_WRITE"
  <2>1. InAuthWrite /\ turn = 2 /\ up = <<>>
    BY <1>1, <1>2, <1>7 DEF InOrder, InAuthWrite
  <2>2. write = <<>> /\ heard[4] = Verdict
    <3>1. /\ heard \o write = <<Version, UserPass, NegotiationVersion, Verdict>>
          /\ heard \in Seq(Nat) /\ write \in Seq(Nat)
      BY <1>2, <2>1 DEF InAuthWrite, InOrder
    <3>2. PICK r : r = <<Version, UserPass, NegotiationVersion, Verdict>>
      OBVIOUS
    <3>3. Len(r) = 4 /\ r[4] = Verdict
      BY <3>2
    <3>4. Len(heard) = 4
      BY <1>3, <2>1
    <3>5. write = <<>> /\ heard = r
      BY <3>1, <3>2, <3>3, <3>4, HeardWhole
    <3> QED BY <3>3, <3>5
  <2>3. Known # {}
    BY <1>3, <2>1, <2>2 DEF Verdict, Success, Refused
  <2>4. InAuthWrite'
    BY <1>1, <1>4, <1>5, <2>1, <2>2, <2>3 DEF InAuthWrite
  <2> QED BY <1>1, <1>2, <1>7, <2>4 DEF HandshakeInv, InOrder, EndStates, GoesOn
<1>8. CASE state = "REQUEST_READ"
  <2>1. InRequestRead /\ Awaits("request")
    BY <1>1, <1>2, <1>8 DEF InOrder, InRequestRead
  <2>2. (HasRead("request"))'
    BY <1>1, <2>1, Sent DEF Kinds, HandshakeInv
  <2>3. InRequestRead'
    BY <1>1, <1>4, <2>1, <2>2 DEF InRequestRead, Admitted
  <2> QED BY <1>1, <1>2, <1>8, <2>3 DEF HandshakeInv, InOrder, EndStates, GoesOn
<1>9. CASE state \in EndStates
  BY <1>1, <1>9, EndsInOrder
<1>10. state \in {"HELLO_WRITE", "AUTH_WRITE", "REQUEST_READ"} \/ state \in EndStates
  <2>1. state # "HELLO_READ"
    BY <1>2, <1>3 DEF InOrder, InHelloRead
  <2>2. state # "AUTH_READ"
    <3> SUFFICES ASSUME state = "AUTH_READ" PROVE FALSE
      OBVIOUS
    <3>1. heard = <<Version, UserPass>>
      BY <1>2 DEF InOrder, InAuthRead
    <3>2. Len(heard) = 2 /\ heard[2] = UserPass
      BY <3>1
    <3> QED BY <1>3, <3>2 DEF NoAuth, UserPass
  <2>3. state \notin GoesOn
    BY <1>1, <1>2 DEF InOrder, Served
  <2> QED BY <2>1, <2>2, <2>3 DEF HandshakeInv, ReadStates, WriteStates
<1> QED BY <1>6, <1>7, <1>8, <1>9, <1>10

(* The steps of the handlers, with a client that is a patient one.         *)
LEMMA HelloReadInOrder ==
    ASSUME HandshakeInv, client.patient, state = "HELLO_READ", Read \/ ReadEnd
    PROVE  HandshakeInv'
<1>1. InOrder /\ InHelloRead /\ client \in Clients
  BY DEF HandshakeInv, InOrder
<1>2. client' = client /\ turn' = turn /\ heard' = heard
  BY DEF Read, ReadEnd, peer
<1>3. CASE Read
  <2>1. PICK n \in 1 .. BufferSize : /\ n <= Len(up) /\ RunOn(Chunk(n))
                                     /\ up' = SubSeq(up, n + 1, Len(up))
    BY <1>3 DEF Read
  <2>2. up # <<>>
    BY <2>1
  <2>3. HasRead("hello") /\ turn = 1
    BY <1>1, <2>2 DEF InHelloRead, Awaits
  <2>4. PICK p : p = HelloParserConsume(parser, Chunk(n))
    OBVIOUS
  <2>5. \/ Socks5Failed(p)
        \/ ~ Socks5Finished(p) /\ HasGone("hello", p, up')
        \/ p = At("hello", Len(Message("hello"))) /\ p.state = "Done" /\ up' = <<>>
    BY <1>1, <2>1, <2>3, <2>4, ReadFollows DEF Kinds, Consume
  <2>6. HelloReadRun(Chunk(n))
    BY <2>1 DEF RunOn, AuthReadRun, RequestReadRun
  <2>7. \/ ~ Socks5Finished(p) /\ Stays(p)
        \/ Socks5Failed(p) /\ Fails
        \/ /\ p.state = "Done"
           /\ method' = SelectAuthenticationMethod(p.methods)
           /\ Replies("HELLO_WRITE", <<Version, method'>>)
           /\ UNCHANGED user
    BY <2>4, <2>6 DEF HelloReadRun
  <2>8. CASE Socks5Failed(p) /\ Fails
    BY <1>2, <2>8, EndsInOrder DEF Fails, EndStates
  <2>9. CASE ~ Socks5Finished(p) /\ Stays(p)
    <3>1. HasGone("hello", p, up')
      BY <2>5, <2>9 DEF Socks5Failed, Socks5Finished
    <3>2. (HasRead("hello"))'
      BY <1>2, <2>9, <3>1, ClientStays DEF Kinds, Stays
    <3>3. InHelloRead'
      BY <1>1, <1>2, <2>3, <2>9, <3>2 DEF InHelloRead, Stays
    <3>4. state' = "HELLO_READ" /\ write' = write
      BY <2>9 DEF Stays
    <3> QED BY <1>1, <1>2, <3>3, <3>4 DEF HandshakeInv, InOrder, EndStates, GoesOn, ReadStates
  <2>10. CASE /\ p.state = "Done"
              /\ method' = SelectAuthenticationMethod(p.methods)
              /\ Replies("HELLO_WRITE", <<Version, method'>>)
              /\ UNCHANGED user
    <3>1. p = At("hello", Len(Message("hello"))) /\ up' = <<>>
      BY <2>5, <2>10 DEF Socks5Failed, Socks5Finished
    <3>2. p.methods = client.methods
      BY <1>1, <3>1, WholeMessages DEF At, Message
    <3>3. MethodAgreed'
      BY <1>1, <1>2, <2>10, <3>2, ClientStays, MethodIsOffered DEF MethodAgreed
    <3>4. method' \in Nat
      <4>1. method' = NoAcceptable \/ method' \in {NoAuth, UserPass}
        BY <3>3 DEF MethodAgreed, Offered
      <4> QED BY <4>1 DEF NoAcceptable, NoAuth, UserPass
    <3>5. /\ state' = "HELLO_WRITE" /\ write' = <<Version, method'>> /\ user' = {}
          /\ heard' = <<>>
      BY <1>1, <1>2, <2>10 DEF Replies, InHelloRead
    <3>6. write' \in Seq(Nat) /\ heard' \in Seq(Nat)
      BY <3>4, <3>5 DEF Version
    <3>7. heard' \o write' = <<Version, method'>>
      BY <3>5, <3>6
    <3>8. InHelloWrite'
      BY <1>2, <2>3, <3>1, <3>3, <3>5, <3>7 DEF InHelloWrite
    <3> QED BY <1>1, <1>2, <3>5, <3>6, <3>8 DEF HandshakeInv, InOrder, EndStates, GoesOn, WriteStates
  <2> QED BY <2>7, <2>8, <2>9, <2>10
<1>4. CASE ReadEnd
  <2>1. up = <<>> /\ up' = up /\ RunOn(<<>>)
    BY <1>4 DEF ReadEnd
  <2>2. Awaits("hello")
    BY <1>1, <2>1, SomethingIsLeft DEF InHelloRead, Kinds
  <2>3. HelloParserConsume(parser, <<>>) = parser /\ ~ Socks5Finished(parser)
    BY <1>1, <2>2, EmptyChunk DEF Kinds, Consume
  <2>4. HelloReadRun(<<>>)
    BY <2>1 DEF RunOn, AuthReadRun, RequestReadRun
  <2>5. Stays(parser)
    BY <2>3, <2>4 DEF HelloReadRun, Socks5Failed, Socks5Finished
  <2>6. /\ state' = "HELLO_READ" /\ write' = write /\ parser' = parser /\ user' = user
    BY <2>5 DEF Stays
  <2>7. (Awaits("hello"))'
    BY <1>2, <2>1, <2>2, <2>6, ClientStays DEF Awaits, Kinds
  <2>8. InHelloRead'
    BY <1>1, <1>2, <2>1, <2>2, <2>6, <2>7, SomethingIsLeft DEF InHelloRead, Kinds
  <2> QED BY <1>1, <1>2, <2>6, <2>8 DEF HandshakeInv, InOrder, EndStates, GoesOn, ReadStates
<1> QED BY <1>3, <1>4

(* AUTH_READ.                                                              *)
LEMMA AuthReadInOrder ==
    ASSUME HandshakeInv, client.patient, state = "AUTH_READ", Read \/ ReadEnd
    PROVE  HandshakeInv'
<1>1. InOrder /\ InAuthRead /\ client \in Clients
  BY DEF HandshakeInv, InOrder
<1>2. client' = client /\ turn' = turn /\ heard' = heard
  BY DEF Read, ReadEnd, peer
<1>3. method' = method => MethodAgreed'
  BY <1>1, <1>2, ClientStays DEF MethodAgreed, InAuthRead
<1>4. CASE Read
  <2>1. PICK n \in 1 .. BufferSize : /\ n <= Len(up) /\ RunOn(Chunk(n))
                                     /\ up' = SubSeq(up, n + 1, Len(up))
    BY <1>4 DEF Read
  <2>2. up # <<>>
    BY <2>1
  <2>3. HasRead("auth") /\ turn = 2
    BY <1>1, <2>2 DEF InAuthRead, Awaits
  <2>4. PICK p : p = AuthParserConsume(parser, Chunk(n))
    OBVIOUS
  <2>5. \/ Socks5Failed(p)
        \/ ~ Socks5Finished(p) /\ HasGone("auth", p, up')
        \/ p = At("auth", Len(Message("auth"))) /\ p.state = "Done" /\ up' = <<>>
    BY <1>1, <2>1, <2>3, <2>4, ReadFollows DEF Kinds, Consume
  <2>6. AuthReadRun(Chunk(n))
    BY <2>1 DEF RunOn, HelloReadRun, RequestReadRun
  <2>7. \/ ~ Socks5Finished(p) /\ Stays(p)
        \/ Fails
        \/ /\ p.state = "Done"
           /\ LET found == Matches(p.uname, p.passwd) IN
              /\ user' = IF found = {} THEN {} ELSE {CHOOSE c \in found : TRUE}
              /\ Replies("AUTH_WRITE",
                         <<NegotiationVersion, IF found = {} THEN Refused ELSE Success>>)
           /\ UNCHANGED method
    BY <2>4, <2>6 DEF AuthReadRun
  <2>8. CASE Fails
    BY <1>2, <2>8, EndsInOrder DEF Fails, EndStates
  <2>9. CASE ~ Socks5Finished(p) /\ Stays(p)
    <3>1. HasGone("auth", p, up')
      BY <2>5, <2>9 DEF Socks5Failed, Socks5Finished
    <3>2. (HasRead("auth"))'
      BY <1>2, <2>9, <3>1, ClientStays DEF Kinds, Stays
    <3>3. state' = "AUTH_READ" /\ write' = write /\ user' = user /\ method' = method
      BY <2>9 DEF Stays
    <3>4. InAuthRead'
      BY <1>1, <1>2, <1>3, <2>3, <3>2, <3>3 DEF InAuthRead
    <3> QED BY <1>1, <1>2, <3>3, <3>4 DEF HandshakeInv, InOrder, EndStates, GoesOn, ReadStates
  <2>10. CASE /\ p.state = "Done"
              /\ LET found == Matches(p.uname, p.passwd) IN
                 /\ user' = IF found = {} THEN {} ELSE {CHOOSE c \in found : TRUE}
                 /\ Replies("AUTH_WRITE",
                            <<NegotiationVersion, IF found = {} THEN Refused ELSE Success>>)
              /\ UNCHANGED method
    <3>2. p = At("auth", Len(Message("auth"))) /\ up' = <<>>
      BY <2>5, <2>10 DEF Socks5Failed, Socks5Finished
    <3>3. p.uname = client.name /\ p.passwd = client.passwd
      BY <1>1, <3>2, WholeMessages DEF At, Message
    <3>4. PICK found : found = Matches(client.name, client.passwd)
      OBVIOUS
    <3>5. /\ user' = IF found = {} THEN {} ELSE {CHOOSE c \in found : TRUE}
          /\ Replies("AUTH_WRITE",
                     <<NegotiationVersion, IF found = {} THEN Refused ELSE Success>>)
      BY <2>10, <3>3, <3>4
    <3>6. found = Known /\ user' = Known
      BY <1>1, <3>4, <3>5, UserIsKnown
    <3>7. /\ state' = "AUTH_WRITE" /\ write' = <<NegotiationVersion, Verdict>>
          /\ heard' = <<Version, UserPass>> /\ method' = method
      BY <1>1, <1>2, <2>10, <3>5, <3>6 DEF Replies, InAuthRead, Verdict
    <3>8. Verdict \in Nat
      BY DEF Verdict, Success, Refused
    <3>9. write' \in Seq(Nat) /\ heard' \in Seq(Nat)
      BY <3>7, <3>8 DEF Version, NegotiationVersion, UserPass
    <3>10. heard' \o write' = <<Version, UserPass, NegotiationVersion, Verdict>>
      <4>1. PICK v \in Nat : v = Verdict
        BY <3>8
      <4>2. <<Version, UserPass>> \o <<NegotiationVersion, v>>
                = <<Version, UserPass, NegotiationVersion, v>>
        BY <4>1, FourBytes DEF Version, NegotiationVersion, UserPass
      <4> QED BY <3>7, <4>1, <4>2
    <3>11. Known' = Known /\ Verdict' = Verdict /\ method = UserPass /\ MethodAgreed
      BY <1>1, <1>2, ClientStays DEF InAuthRead
    <3>12. InAuthWrite'
      BY <1>2, <1>3, <2>3, <3>2, <3>6, <3>7, <3>10, <3>11 DEF InAuthWrite
    <3> QED BY <1>1, <1>2, <3>7, <3>9, <3>12
            DEF HandshakeInv, InOrder, EndStates, GoesOn, WriteStates
  <2> QED BY <2>7, <2>8, <2>9, <2>10
<1>5. CASE ReadEnd
  <2>1. RunOn(<<>>)
    BY <1>5 DEF ReadEnd
  <2>2. AuthReadRun(<<>>)
    BY <2>1 DEF RunOn, HelloReadRun, RequestReadRun
  <2>3. Fails
    BY <2>2 DEF AuthReadRun
  <2> QED BY <1>2, <2>3, EndsInOrder DEF Fails, EndStates
<1> QED BY <1>4, <1>5

(* REQUEST_READ.                                                           *)
LEMMA RequestReadInOrder ==
    ASSUME HandshakeInv, client.patient, state = "REQUEST_READ", Read \/ ReadEnd
    PROVE  HandshakeInv'
<1>1. InOrder /\ InRequestRead /\ client \in Clients /\ Admitted
  BY DEF HandshakeInv, InOrder, InRequestRead
<1>2. client' = client /\ turn' = turn /\ heard' = heard
  BY DEF Read, ReadEnd, peer
<1>3. ASSUME write' = write, method' = method, user' = user
      PROVE  Admitted'
  BY <1>1, <1>2, <1>3, ClientStays DEF Admitted, MethodAgreed
<1>4. CASE Read
  <2>1. PICK n \in 1 .. BufferSize : /\ n <= Len(up) /\ RunOn(Chunk(n))
                                     /\ up' = SubSeq(up, n + 1, Len(up))
    BY <1>4 DEF Read
  <2>2. up # <<>>
    BY <2>1
  <2>3. HasRead("request") /\ turn = 3
    BY <1>1, <2>2 DEF InRequestRead, Awaits
  <2>4. PICK p : p = RequestParserConsume(parser, Chunk(n))
    OBVIOUS
  <2>5. \/ Socks5Failed(p)
        \/ ~ Socks5Finished(p) /\ HasGone("request", p, up')
        \/ p = At("request", Len(Message("request"))) /\ p.state = "Done" /\ up' = <<>>
    BY <1>1, <2>1, <2>3, <2>4, ReadFollows DEF Kinds, Consume
  <2>6. RequestReadRun(Chunk(n))
    BY <2>1 DEF RunOn, HelloReadRun, AuthReadRun
  <2>7. \/ ~ Socks5Finished(p) /\ Stays(p)
        \/ Socks5Failed(p) /\ Fails
        \/ /\ p.state = "Done" /\ state' = Requested(p) /\ parser' = p
           /\ UNCHANGED <<write, method, user>>
    BY <2>4, <2>6 DEF RequestReadRun
  <2>8. CASE Socks5Failed(p) /\ Fails
    BY <1>2, <2>8, EndsInOrder DEF Fails, EndStates
  <2>9. CASE ~ Socks5Finished(p) /\ Stays(p)
    <3>1. HasGone("request", p, up')
      BY <2>5, <2>9 DEF Socks5Failed, Socks5Finished
    <3>2. (HasRead("request"))'
      BY <1>2, <2>9, <3>1, ClientStays DEF Kinds, Stays
    <3>3. state' = "REQUEST_READ" /\ write' = write /\ user' = user /\ method' = method
      BY <2>9 DEF Stays
    <3>4. InRequestRead'
      BY <1>2, <1>3, <2>3, <3>2, <3>3 DEF InRequestRead
    <3> QED BY <1>1, <1>2, <3>3, <3>4 DEF HandshakeInv, InOrder, EndStates, GoesOn, ReadStates
  <2>10. CASE /\ p.state = "Done" /\ state' = Requested(p) /\ parser' = p
              /\ UNCHANGED <<write, method, user>>
    <3>1. p = At("request", Len(Message("request")))
      BY <2>5, <2>10 DEF Socks5Failed, Socks5Finished
    <3>2. parser' = (RequestAt(Len(RequestMessage)))'
      BY <1>2, <2>10, <3>1, ClientStays
    <3>3. state' = (Requested(parser))'
      BY <2>10 DEF Requested
    <3>4. Served'
      BY <1>2, <1>3, <2>3, <2>10, <3>2, <3>3 DEF Served
    <3>5. state' \in GoesOn
      BY <2>10, Zenon DEF Requested, GoesOn
    <3> QED BY <1>1, <1>2, <2>10, <3>4, <3>5 DEF HandshakeInv, InOrder, EndStates, GoesOn
  <2> QED BY <2>7, <2>8, <2>9, <2>10
<1>5. CASE ReadEnd
  <2>1. up = <<>> /\ up' = up /\ RunOn(<<>>)
    BY <1>5 DEF ReadEnd
  <2>2. Awaits("request") /\ turn \in {1, 2}
    BY <1>1, <2>1, SomethingIsLeft DEF InRequestRead, Kinds
  <2>3. RequestParserConsume(parser, <<>>) = parser /\ ~ Socks5Finished(parser)
    BY <1>1, <2>2, EmptyChunk DEF Kinds, Consume
  <2>4. RequestReadRun(<<>>)
    BY <2>1 DEF RunOn, HelloReadRun, AuthReadRun
  <2>5. Stays(parser)
    BY <2>3, <2>4 DEF RequestReadRun, Socks5Failed, Socks5Finished
  <2>6. /\ state' = "REQUEST_READ" /\ write' = write /\ parser' = parser
        /\ user' = user /\ method' = method
    BY <2>5 DEF Stays
  <2>7. (Awaits("request"))'
    BY <1>2, <2>1, <2>2, <2>6, ClientStays DEF Awaits, Kinds
  <2>8. InRequestRead'
    BY <1>2, <1>3, <2>2, <2>6, <2>7 DEF InRequestRead
  <2> QED BY <1>1, <1>2, <2>6, <2>8 DEF HandshakeInv, InOrder, EndStates, GoesOn, ReadStates
<1> QED BY <1>4, <1>5

(* A write moves bytes from what is to be sent to what was received.       *)
LEMMA WriteMoves ==
    ASSUME NEW h \in Seq(Nat), NEW w \in Seq(Nat), NEW n \in 1 .. Len(w)
    PROVE  /\ h \o SubSeq(w, 1, n) \in Seq(Nat) /\ SubSeq(w, n + 1, Len(w)) \in Seq(Nat)
           /\ (h \o SubSeq(w, 1, n)) \o SubSeq(w, n + 1, Len(w)) = h \o w
<1>1. PICK a, b, ha : a = SubSeq(w, 1, n) /\ b = SubSeq(w, n + 1, Len(w)) /\ ha = h \o a
  OBVIOUS
<1>2. n \in Nat /\ n >= 1 /\ n <= Len(w) /\ Len(w) \in Nat /\ Len(h) \in Nat
  OBVIOUS
<1>3. /\ a \in Seq(Nat) /\ Len(a) = n
      /\ \A i \in 1 .. n : a[i] = w[i]
  <2>1. a = [i \in 1 .. n |-> w[i]]
    BY <1>1, <1>2
  <2>2. \A i \in 1 .. n : w[i] \in Nat
    BY <1>2
  <2> QED BY <1>2, <2>1, <2>2
<1>4. /\ b \in Seq(Nat) /\ Len(b) = Len(w) - n
      /\ \A i \in 1 .. (Len(w) - n) : b[i] = w[n + i]
  <2>1. PICK m : m = n + 1
    OBVIOUS
  <2>2. b = [i \in 1 .. (Len(w) - m + 1) |-> w[m + i - 1]]
    BY <1>1, <1>2, <2>1
  <2>3. b = [i \in 1 .. (Len(w) - n) |-> w[n + i]] /\ Len(w) - n \in Nat
    BY <1>2, <2>1, <2>2
  <2>4. \A i \in 1 .. (Len(w) - n) : n + i \in 1 .. Len(w) /\ w[n + i] \in Nat
    BY <1>2
  <2> QED BY <2>3, <2>4
<1>5. Joins(h, a, ha)
  BY <1>1, <1>3, Joined
<1>6. /\ ha \in Seq(Nat) /\ Len(ha) = Len(h) + n
      /\ \A i \in 1 .. Len(h) : ha[i] = h[i]
      /\ \A i \in 1 .. n : ha[i + Len(h)] = w[i]
  BY <1>3, <1>5 DEF Joins
<1>7. PICK u, v : u = ha \o b /\ v = h \o w
  OBVIOUS
<1>8. Joins(ha, b, u) /\ Joins(h, w, v)
  BY <1>4, <1>6, <1>7, Joined
<1>9. /\ u \in Seq(Nat) /\ Len(u) = Len(h) + Len(w)
      /\ \A i \in 1 .. (Len(h) + n) : u[i] = ha[i]
      /\ \A i \in 1 .. (Len(w) - n) : u[i + (Len(h) + n)] = w[n + i]
  <2>1. /\ u \in Seq(Nat) /\ Len(u) = Len(ha) + Len(b)
        /\ \A i \in 1 .. Len(ha) : u[i] = ha[i]
        /\ \A i \in 1 .. Len(b) : u[i + Len(ha)] = b[i]
    BY <1>8 DEF Joins
  <2>2. Len(ha) = Len(h) + n /\ Len(b) = Len(w) - n /\ Len(ha) + Len(b) = Len(h) + Len(w)
    BY <1>2, <1>4, <1>6
  <2> QED BY <1>4, <2>1, <2>2
<1>10. /\ v \in Seq(Nat) /\ Len(v) = Len(h) + Len(w)
       /\ \A i \in 1 .. Len(h) : v[i] = h[i]
       /\ \A i \in 1 .. Len(w) : v[i + Len(h)] = w[i]
  BY <1>8 DEF Joins
<1>11. ASSUME NEW i \in 1 .. (Len(h) + Len(w))
       PROVE  u[i] = v[i]
  <2>1. CASE i <= Len(h)
    BY <1>2, <1>6, <1>9, <1>10, <2>1
  <2>2. CASE i > Len(h) /\ i <= Len(h) + n
    <3>1. PICK j \in 1 .. n : i = j + Len(h)
      <4>1. i - Len(h) \in 1 .. n /\ i = (i - Len(h)) + Len(h)
        BY <1>2, <2>2
      <4> QED BY <4>1
    <3>2. i \in 1 .. (Len(h) + n) /\ j \in 1 .. Len(w)
      BY <1>2, <2>2
    <3> QED BY <1>6, <1>9, <1>10, <3>1, <3>2
  <2>3. CASE i > Len(h) + n
    <3>1. PICK j \in 1 .. (Len(w) - n) : i = j + (Len(h) + n)
      <4>1. i - (Len(h) + n) \in 1 .. (Len(w) - n) /\ i = (i - (Len(h) + n)) + (Len(h) + n)
        BY <1>2, <2>3
      <4> QED BY <4>1
    <3>2. n + j \in 1 .. Len(w) /\ i = (n + j) + Len(h)
      BY <1>2, <3>1
    <3>3. u[i] = w[n + j]
      BY <1>9, <3>1
    <3>4. v[i] = w[n + j]
      BY <1>10, <3>2
    <3> QED BY <3>3, <3>4
  <2> QED BY <1>2, <2>1, <2>2, <2>3
<1>12. u = v
  <2>1. Len(h) + Len(w) \in Nat
    BY <1>2
  <2>2. PICK l \in Nat : l = Len(h) + Len(w)
    BY <2>1
  <2>3. Len(u) = l /\ Len(v) = l /\ \A i \in 1 .. l : u[i] = v[i]
    BY <1>9, <1>10, <1>11, <2>2
  <2>4. u \in Seq(Nat) /\ v \in Seq(Nat)
    BY <1>9, <1>10
  <2>5. u = [i \in 1 .. l |-> u[i]] /\ v = [i \in 1 .. l |-> v[i]]
    BY <2>2, <2>3, <2>4
  <2> QED BY <2>3, <2>5
<1> QED BY <1>1, <1>4, <1>6, <1>7, <1>12

(* HelloWriteRun and AuthWriteRun with something left to send.             *)
LEMMA WriteInOrder ==
    ASSUME HandshakeInv, client.patient, Write
    PROVE  HandshakeInv'
<1>1. InOrder /\ client \in Clients /\ heard \in Seq(Nat) /\ write \in Seq(Nat)
  BY DEF HandshakeInv, InOrder
<1>2. /\ client' = client /\ turn' = turn /\ up' = up /\ state' = state
      /\ method' = method /\ user' = user /\ state \in WriteStates
  BY DEF Write, peer
<1>3. PICK n \in 1 .. Len(write) : /\ heard' = heard \o SubSeq(write, 1, n)
                                   /\ write' = SubSeq(write, n + 1, Len(write))
  BY DEF Write
<1>4. heard' \o write' = heard \o write /\ heard' \in Seq(Nat) /\ write' \in Seq(Nat)
  BY <1>1, <1>3, WriteMoves
<1>5. write # <<>>
  BY <1>3
<1>6. (MethodAgreed' <=> MethodAgreed) /\ Known' = Known /\ Verdict' = Verdict
  BY <1>2, ClientStays DEF MethodAgreed
<1>7. CASE state = "HELLO_WRITE"
  <2>1. InHelloWrite
    BY <1>1, <1>7 DEF InOrder
  <2>2. InHelloWrite'
    BY <1>2, <1>4, <1>5, <1>6, <2>1 DEF InHelloWrite
  <2> QED BY <1>1, <1>2, <1>4, <1>7, <2>2 DEF HandshakeInv, InOrder, EndStates, GoesOn, WriteStates
<1>8. CASE state = "AUTH_WRITE"
  <2>1. InAuthWrite
    BY <1>1, <1>8 DEF InOrder
  <2>2. InAuthWrite'
    BY <1>2, <1>4, <1>5, <1>6, <2>1 DEF InAuthWrite
  <2> QED BY <1>1, <1>2, <1>4, <1>8, <2>2 DEF HandshakeInv, InOrder, EndStates, GoesOn, WriteStates
<1> QED BY <1>2, <1>7, <1>8 DEF WriteStates

(* A parser that was reset as the buffers were emptied awaits the message, *)
(* or has the whole of it before it.                                       *)
LEMMA AfterReset ==
    ASSUME client \in Clients, client' = client, up' = up, NEW kind \in Kinds,
           parser' = At(kind, 0)
    PROVE  /\ up = <<>> => (Awaits(kind))'
           /\ up = Message(kind) => (HasRead(kind))'
<1>1. up = Message(kind) => HasGone(kind, parser', up')
  BY SentWhole
<1> QED BY <1>1, ClientStays

(* HelloWriteRun with its reply sent.                                      *)
LEMMA HelloWrittenInOrder ==
    ASSUME HandshakeInv, client.patient, HelloWritten
    PROVE  HandshakeInv'
<1>1. /\ client \in Clients /\ heard \in Seq(Nat) /\ write = <<>>
      /\ InHelloWrite /\ state = "HELLO_WRITE"
  BY DEF HandshakeInv, InOrder, HelloWritten
<1>2. /\ client' = client /\ turn' = turn /\ heard' = heard /\ up' = up
      /\ method' = method /\ user' = user
      /\ state' = AfterHello(method) /\ parser' = Parser(state') /\ write' = <<>>
  BY DEF HelloWritten, Jump, peer
<1>3. heard = <<Version, method>> /\ MethodAgreed /\ user = {} /\ MethodAgreed'
  BY <1>1, <1>2, ClientStays DEF InHelloWrite, MethodAgreed
<1>4. <<>> \in Seq(Nat)
  OBVIOUS
<1>5. CASE method = UserPass
  <2>1. state' = "AUTH_READ"
    BY <1>2, <1>5 DEF AfterHello
  <2>2. parser' = At("auth", 0)
    BY <1>1, <1>2, <2>1, ResetIsAtZero DEF Parser
  <2>3. (turn = 1 /\ up = <<>>) \/ (turn = 2 /\ up = Message("auth"))
    BY <1>1, <1>5 DEF InHelloWrite, UserPass, NoAuth
  <2>4. (turn = 1 /\ (Awaits("auth"))') \/ (turn = 2 /\ (HasRead("auth"))')
    BY <1>1, <1>2, <2>2, <2>3, AfterReset DEF Kinds
  <2>5. InAuthRead'
    BY <1>2, <1>3, <1>5, <2>4 DEF InAuthRead
  <2> QED BY <1>1, <1>2, <1>4, <2>1, <2>5 DEF HandshakeInv, InOrder, EndStates, GoesOn, ReadStates
<1>6. CASE method # UserPass
  <2>1. state' = "REQUEST_READ"
    BY <1>2, <1>6 DEF AfterHello
  <2>2. parser' = At("request", 0)
    BY <1>1, <1>2, <2>1, ResetIsAtZero DEF Parser
  <2>3. (turn = 1 /\ up = <<>>) \/ (turn = 3 /\ up = Message("request"))
    BY <1>1, <1>6 DEF InHelloWrite
  <2>4. (turn = 1 /\ (Awaits("request"))') \/ (turn = 3 /\ (HasRead("request"))')
    BY <1>1, <1>2, <2>2, <2>3, AfterReset DEF Kinds
  <2>5. Admitted'
    BY <1>2, <1>3, <1>6 DEF Admitted
  <2>6. InRequestRead'
    BY <1>2, <2>4, <2>5 DEF InRequestRead
  <2> QED BY <1>1, <1>2, <1>4, <2>1, <2>6 DEF HandshakeInv, InOrder, EndStates, GoesOn, ReadStates
<1> QED BY <1>5, <1>6

(* AuthWriteRun with its reply sent.                                       *)
LEMMA AuthWrittenInOrder ==
    ASSUME HandshakeInv, client.patient, AuthWritten
    PROVE  HandshakeInv'
<1>1. /\ client \in Clients /\ heard \in Seq(Nat) /\ write = <<>>
      /\ InAuthWrite /\ state = "AUTH_WRITE"
  BY DEF HandshakeInv, InOrder, AuthWritten
<1>2. /\ client' = client /\ turn' = turn /\ heard' = heard /\ up' = up
      /\ method' = method /\ user' = user
      /\ state' = AfterAuth(user) /\ parser' = Parser(state') /\ write' = <<>>
  BY DEF AuthWritten, Jump, peer
<1>3. /\ heard = <<Version, UserPass, NegotiationVersion, Verdict>>
      /\ method = UserPass /\ user = Known
  BY <1>1 DEF InAuthWrite
<1>4. MethodAgreed' /\ Known' = Known
  BY <1>1, <1>2, ClientStays DEF InAuthWrite, MethodAgreed
<1>5. <<>> \in Seq(Nat)
  OBVIOUS
<1>6. CASE user = {}
  <2>1. state' \in EndStates
    BY <1>2, <1>6 DEF AfterAuth, EndStates
  <2> QED BY <1>1, <1>2, <2>1, EndsInOrder
<1>7. CASE user # {}
  <2>1. state' = "REQUEST_READ"
    BY <1>2, <1>7 DEF AfterAuth
  <2>2. parser' = At("request", 0)
    BY <1>1, <1>2, <2>1, ResetIsAtZero DEF Parser
  <2>3. (turn = 2 /\ up = <<>>) \/ (turn = 3 /\ up = Message("request"))
    BY <1>1 DEF InAuthWrite
  <2>4. (turn = 2 /\ (Awaits("request"))') \/ (turn = 3 /\ (HasRead("request"))')
    BY <1>1, <1>2, <2>2, <2>3, AfterReset DEF Kinds
  <2>5. heard = <<Version, UserPass, NegotiationVersion, Success>>
    BY <1>3, <1>7 DEF Verdict
  <2>6. Admitted'
    BY <1>2, <1>3, <1>4, <1>7, <2>5 DEF Admitted
  <2>7. InRequestRead'
    BY <1>2, <2>4, <2>6 DEF InRequestRead
  <2> QED BY <1>1, <1>2, <1>5, <2>1, <2>7 DEF HandshakeInv, InOrder, EndStates, GoesOn, ReadStates
<1> QED BY <1>6, <1>7

(* What the handlers do to the state and the client, whoever that is.      *)
LEMMA StatesAreKnown ==
    ASSUME state \in ReadStates \cup WriteStates \cup GoesOn \cup EndStates, [Next]_vars
    PROVE  /\ client' = client
           /\ state' \in ReadStates \cup WriteStates \cup GoesOn \cup EndStates
<1>1. CASE Talk \/ Close
  BY <1>1 DEF Talk, SendHello, SendAuth, SendRequest, SendAll, Says, Close, server
<1>2. CASE Read \/ ReadEnd
  <2>1. PICK chunk : RunOn(chunk)
    BY <1>2 DEF Read, ReadEnd
  <2>2. client' = client
    BY <1>2 DEF Read, ReadEnd, peer
  <2>3. CASE HelloReadRun(chunk)
    BY <2>2, <2>3 DEF HelloReadRun, Stays, Fails, Replies, ReadStates, WriteStates, EndStates
  <2>4. CASE AuthReadRun(chunk)
    BY <2>2, <2>4 DEF AuthReadRun, Stays, Fails, Replies, ReadStates, WriteStates, EndStates
  <2>5. CASE RequestReadRun(chunk)
    <3>1. \A p : Requested(p) \in GoesOn
      BY Zenon DEF Requested, GoesOn
    <3> QED BY <2>2, <2>5, <3>1 DEF RequestReadRun, Stays, Fails, EndStates
  <2> QED BY <2>1, <2>3, <2>4, <2>5 DEF RunOn
<1>3. CASE ReadFails \/ Write \/ WriteFails
  BY <1>3 DEF ReadFails, Fails, Write, WriteFails, peer, EndStates
<1>4. CASE HelloWritten \/ AuthWritten
  BY <1>4 DEF HelloWritten, AuthWritten, Jump, AfterHello, AfterAuth, peer, ReadStates, EndStates
<1>5. CASE Over \/ UNCHANGED vars
  BY <1>5 DEF Over, vars, peer, server
<1> QED BY <1>1, <1>2, <1>3, <1>4, <1>5 DEF Next, Handlers

(* The invariant with nothing changed that it is about.                    *)
LEMMA Unchanged ==
    ASSUME HandshakeInv, client' = client, turn' = turn, heard' = heard, up' = up, server' = server
    PROVE  HandshakeInv'
<1>1. /\ state' = state /\ parser' = parser /\ write' = write
      /\ method' = method /\ user' = user
  BY DEF server
<1>2. \A kind \in Kinds : /\ (Message(kind))' = Message(kind)
                          /\ (Awaits(kind))' <=> Awaits(kind)
                          /\ (HasRead(kind))' <=> HasRead(kind)
  BY <1>1, ClientStays DEF Awaits, HasRead, HasGone
<1>3. /\ Message("auth")' = Message("auth") /\ Message("request")' = Message("request")
      /\ \A kind \in Kinds : (Awaits(kind))' <=> Awaits(kind)
      /\ \A kind \in Kinds : (HasRead(kind))' <=> HasRead(kind)
  BY <1>2 DEF Kinds
<1>4. /\ (MethodAgreed' <=> MethodAgreed) /\ Known' = Known /\ Verdict' = Verdict
      /\ (RepliesAsAgreed' <=> RepliesAsAgreed)
  BY <1>1, ClientStays DEF MethodAgreed, RepliesAsAgreed
<1>5. Admitted' <=> Admitted
  BY <1>1, <1>4 DEF Admitted
<1>6. Served' <=> Served
  <2>1. (RequestAt(Len(RequestMessage)))' = RequestAt(Len(RequestMessage))
    BY DEF RequestAt, RequestMessage
  <2>2. (Requested(parser))' = Requested(parser)
    BY <1>1 DEF Requested
  <2> QED BY <1>1, <1>5, <2>1, <2>2 DEF Served
<1>7. /\ InHelloRead' <=> InHelloRead
      /\ InAuthRead' <=> InAuthRead
      /\ InRequestRead' <=> InRequestRead
  BY <1>1, <1>3, <1>4, <1>5 DEF InHelloRead, InAuthRead, InRequestRead, Kinds
<1>8. /\ InHelloWrite' <=> InHelloWrite
      /\ InAuthWrite' <=> InAuthWrite
  BY <1>1, <1>3, <1>4 DEF InHelloWrite, InAuthWrite
<1> QED BY <1>1, <1>4, <1>6, <1>7, <1>8 DEF HandshakeInv, InOrder

(* Every step keeps the invariant.                                         *)
LEMMA HandshakeStep ==
    ASSUME HandshakeInv, [Next]_vars
    PROVE  HandshakeInv'
<1>1. /\ client' = client
      /\ state' \in ReadStates \cup WriteStates \cup GoesOn \cup EndStates
  BY StatesAreKnown DEF HandshakeInv
<1>2. CASE ~ client.patient
  BY <1>1, <1>2 DEF HandshakeInv
<1>3. CASE client.patient
  <2>1. CASE SendHello
    BY <2>1, SendHelloInOrder
  <2>2. CASE SendAuth
    BY <2>2, SendAuthInOrder
  <2>3. CASE SendRequest
    BY <2>3, SendRequestInOrder
  <2>4. CASE SendAll
    BY <1>3, <2>4 DEF SendAll
  <2>5. CASE Close
    BY <2>5, Unchanged DEF Close
  <2>6. CASE Read \/ ReadEnd
    <3>1. state \in ReadStates
      BY <2>6 DEF Read, ReadEnd
    <3> QED BY <1>3, <2>6, <3>1, HelloReadInOrder, AuthReadInOrder, RequestReadInOrder
            DEF ReadStates
  <2>7. CASE ReadFails
    BY <2>7, EndsInOrder DEF ReadFails, Fails, EndStates, peer
  <2>8. CASE Write
    BY <1>3, <2>8, WriteInOrder
  <2>9. CASE WriteFails
    BY <2>9, EndsInOrder DEF WriteFails, EndStates, peer
  <2>10. CASE HelloWritten
    BY <1>3, <2>10, HelloWrittenInOrder
  <2>11. CASE AuthWritten
    BY <1>3, <2>11, AuthWrittenInOrder
  <2>12. CASE Over \/ UNCHANGED vars
    BY <2>12, Unchanged DEF Over, vars, peer
  <2> QED BY <2>1, <2>2, <2>3, <2>4, <2>5, <2>6, <2>7, <2>8, <2>9, <2>10, <2>11, <2>12
          DEF Next, Talk, Handlers
<1>4. client.patient \in BOOLEAN
  BY ClientFields DEF HandshakeInv
<1> QED BY <1>2, <1>3, <1>4

(* In every state of a handshake what was sent, read, replied and heard are*)
(* those of the conversation the client meant to have, whatever pieces its *)
(* messages come in (the five handlers of socks5_connection.c).            *)
THEOREM HandshakeInvariantHolds == Spec => []HandshakeInv
<1>1. Init => HandshakeInv
  <2> SUFFICES ASSUME Init PROVE HandshakeInv
    OBVIOUS
  <2>1. /\ client \in Clients /\ state = "HELLO_READ" /\ turn = 0 /\ up = <<>>
        /\ heard = <<>> /\ write = <<>> /\ user = {} /\ parser = HelloParserReset
    BY DEF Init
  <2>2. Awaits("hello")
    BY <2>1, ResetIsAtZero DEF Awaits
  <2>3. InHelloRead /\ <<>> \in Seq(Nat)
    BY <2>1, <2>2 DEF InHelloRead
  <2> QED BY <2>1, <2>3 DEF HandshakeInv, InOrder, ReadStates, GoesOn, EndStates
<1>2. HandshakeInv /\ [Next]_vars => HandshakeInv'
  BY HandshakeStep
<1> QED BY <1>1, <1>2, PTL DEF Spec

(* Of whatever pieces its messages arrive in, and wherever the connection  *)
(* ends, a patient client hears what was agreed: a method it offered, or   *)
(* 255, and after UserPass the verdict on the very name and password it    *)
(* sent (SelectAuthenticationMethod, LogInSocks5User).                     *)
THEOREM RepliesAreAsAgreed == Spec => []RepliesAsAgreed
<1>1. HandshakeInv => RepliesAsAgreed
  BY OrderImpliesReplies
<1> QED BY <1>1, HandshakeInvariantHolds, PTL

(* The request a patient client is served is the one it sent, under the    *)
(* user it authenticated as (the BufferReset of the handlers, the resets   *)
(* of the parsers on arrival, RequestReadRun).                             *)
THEOREM RequestsAreAsSent == Spec => []RequestAsSent
<1>1. HandshakeInv => RequestAsSent
  <2> SUFFICES ASSUME HandshakeInv, state \in GoesOn, client.patient
               PROVE  /\ user = IF turn = 3 /\ method = UserPass THEN Known ELSE {}
                      /\ parser.cmd = client.cmd /\ parser.atype = client.atype
                      /\ parser.address = client.address /\ parser.port = client.port
                      /\ state = "REQUEST_WRITE" <=> client.cmd # Connect
                      /\ state = "DNS_READ" <=> client.cmd = Connect /\ client.atype = FQDN
    BY DEF RequestAsSent
  <2>1. client \in Clients /\ Served
    BY DEF HandshakeInv, InOrder
  <2>2. /\ parser.cmd = client.cmd /\ parser.atype = client.atype
        /\ parser.address = client.address /\ parser.port = client.port
    BY <2>1, WholeMessages DEF Served
  <2>3. user = IF turn = 3 /\ method = UserPass THEN Known ELSE {}
    BY <2>1 DEF Served, Admitted
  <2>4. state = Requested(parser)
    BY <2>1 DEF Served
  <2>5. Requested(parser) = IF client.cmd # Connect THEN "REQUEST_WRITE"
                            ELSE IF client.atype = FQDN THEN "DNS_READ"
                            ELSE "ESTABLISH_CONNECTION"
    BY <2>2 DEF Requested
  <2>6. /\ state = "REQUEST_WRITE" <=> client.cmd # Connect
        /\ state = "DNS_READ" <=> client.cmd = Connect /\ client.atype = FQDN
    BY <2>4, <2>5
  <2> QED BY <2>2, <2>3, <2>6
<1> QED BY <1>1, HandshakeInvariantHolds, PTL
===============================================================================
