------------------------- MODULE ParserStreamsProofs --------------------------
(***************************************************************************)
(* What the parsers of SOCKS5 and of lulu are after any stream of bytes.   *)
(*                                                                         *)
(* A parser of SOCKS5 is a function of the stream that it was fed: the     *)
(* predicates HelloKnows, AuthKnows and RequestKnows spell it out, state   *)
(* by state, in positions of the stream, and one lemma for each parser     *)
(* (HelloFed, AuthFed, RequestFed) says that a byte more keeps them.  That *)
(* its messages end where the grammar of ParserStreams ends them, with the *)
(* fields that were sent, follows for streams and messages of every length.*)
(*                                                                         *)
(* Of the parsers of lulu it is proved how far they write behind arrays.   *)
(* LuluStep is what one byte may do to one of them, and FeedStep says that *)
(* every parser of a command does no more.                                 *)
(*                                                                         *)
(* The parsers of commands without names are functions of the stream again *)
(* (PlainKnows, NumberKnows).  Their lines are compared position by        *)
(* position, and a number is what its digits come to (Counts): a relation, *)
(* of which the recursive function of the grammar is shown to be a case.   *)
(*                                                                         *)
(* So are those of commands with names (NamedKnows).  A field is what      *)
(* stands up to the first | or \r\n, a \r without its \n included: the    *)
(* parser holds that \r back (ReadsField), and a field that is too long    *)
(* for it may fail or not (TooLong), so the theorem is about short ones.   *)
(*                                                                         *)
(* The POP3 dissector is no function of its stream, for it starts over     *)
(* inside lines.  Pop3Knows says what it still knows (StateKnows): unless  *)
(* it is Fresh it is in step with the last line, and a line whose rest it  *)
(* skips can be no USER line any more (Passed).                            *)
(***************************************************************************)
EXTENDS ParserStreams, SequenceTheorems, WellFoundedInduction, TLAPS

-------------------------------------------------------------------------------
(* The stream with one byte more: what was there stays, in its place.      *)
LEMMA Appended ==
    ASSUME NEW S, NEW s \in Seq(S), NEW c \in S
    PROVE  LET t == Append(s, c) IN
           /\ t \in Seq(S) /\ Len(t) = Len(s) + 1 /\ Len(s) \in Nat
           /\ t[Len(s) + 1] = c
           /\ \A i \in 1 .. Len(s) : t[i] = s[i]
           /\ \A a \in 1 .. Len(s) + 1 :
                SubSeq(t, a, Len(s) + 1) = Append(SubSeq(s, a, Len(s)), c)
           /\ \A a \in 1 .. Len(s) + 1, b \in 0 .. Len(s) :
                SubSeq(t, a, b) = SubSeq(s, a, b)
<1> DEFINE t == Append(s, c)
           n == Len(s)
<1>1. /\ t \in Seq(S) /\ Len(t) = n + 1 /\ n \in Nat
      /\ t[n + 1] = c
      /\ \A i \in 1 .. n : t[i] = s[i] /\ s[i] \in S
  BY AppendProperties, ElementOfSeq, LenProperties
<1> HIDE DEF t, n
<1>2. ASSUME NEW a \in 1 .. n + 1, NEW b \in 0 .. n
      PROVE  SubSeq(t, a, b) = SubSeq(s, a, b)
  <2>1. \A i \in a .. b : t[i] = s[i] /\ s[i] \in S /\ t[i] \in S
    BY <1>1
  <2>2. PICK u : u = SubSeq(t, a, b)
    OBVIOUS
  <2>3. PICK v : v = SubSeq(s, a, b)
    OBVIOUS
  <2>4. u \in Seq(S) /\ Len(u) = (IF a <= b THEN b - a + 1 ELSE 0)
        /\ \A i \in 1 .. b - a + 1 : u[i] = t[a + i - 1]
    BY <1>1, <2>1, <2>2, SubSeqProperties
  <2>5. v \in Seq(S) /\ Len(v) = (IF a <= b THEN b - a + 1 ELSE 0)
        /\ \A i \in 1 .. b - a + 1 : v[i] = s[a + i - 1]
    BY <1>1, <2>1, <2>3, SubSeqProperties
  <2>6. Len(u) = Len(v) /\ \A i \in 1 .. Len(u) : u[i] = v[i]
    BY <1>1, <2>1, <2>4, <2>5
  <2>7. u = v
    BY <2>4, <2>5, <2>6, SeqEqual
  <2> QED BY <2>2, <2>3, <2>7
<1>3. ASSUME NEW a \in 1 .. n + 1
      PROVE  SubSeq(t, a, n + 1) = Append(SubSeq(s, a, n), c)
  <2>1. SubSeq(t, a, n + 1) = SubSeq(t, a, n) \o <<c>>
    BY <1>1, SubSeqRecursiveSecond
  <2>2. SubSeq(t, a, n) = SubSeq(s, a, n)
    BY <1>1, <1>2
  <2>3. SubSeq(s, a, n) \in Seq(S)
    BY <1>1, SubSeqProperties
  <2> QED BY <2>1, <2>2, <2>3, AppendIsConcat
<1> QED BY <1>1, <1>2, <1>3 DEF t, n

(* The length of what stands behind the first bytes of a stream.           *)
LEMMA PartLength ==
    ASSUME NEW S, NEW s \in Seq(S), NEW a \in 1 .. Len(s) + 1, NEW b \in a - 1 .. Len(s)
    PROVE  Len(SubSeq(s, a, b)) = b - a + 1
<1>1. Len(s) \in Nat /\ a \in Int /\ b \in Int
  BY LenProperties
<1>2. \A i \in a .. b : s[i] \in S
  BY <1>1, ElementOfSeq
<1>3. Len(SubSeq(s, a, b)) = IF a <= b THEN b - a + 1 ELSE 0
  BY <1>1, <1>2, SubSeqProperties
<1> QED BY <1>1, <1>3

-------------------------------------------------------------------------------
(* What each parser of SOCKS5 knows of the stream, state by state.         *)
HelloKnows(p, s) ==
    LET methods == SubSeq(s, 3, Len(s))
    IN \/ s = <<>> /\ p = HelloParserReset
       \/ /\ p = [HelloParserReset EXCEPT !.state = "NMethods"]
          /\ Len(s) = 1 /\ s[1] = Version
       \/ /\ Len(s) >= 2 /\ s[1] = Version /\ s[2] > 0
          /\ p = [state |-> IF Len(s) = 2 + s[2] THEN "Done" ELSE "Methods",
                  nmethods |-> s[2], methods |-> methods]
          /\ Len(s) <= 2 + s[2]
       \/ /\ Socks5Failed(p)
          /\ Len(s) >= 1 /\ (s[1] # Version \/ (Len(s) >= 2 /\ s[2] = 0))

(* A byte more, and the parser of HELLO still knows what it should.        *)
LEMMA HelloFed ==
    ASSUME NEW s \in Seq(Nat), NEW c \in Nat, NEW p, HelloKnows(p, s),
           ~ Socks5Finished(p)
    PROVE  HelloKnows(HelloParserFeed(p, c), Append(s, c))
<1>1. PICK t : t = Append(s, c)
  OBVIOUS
<1>2. PICK q : q = HelloParserFeed(p, c)
  OBVIOUS
<1>3. /\ t \in Seq(Nat) /\ Len(t) = Len(s) + 1 /\ Len(s) \in Nat
      /\ t[Len(s) + 1] = c
      /\ \A i \in 1 .. Len(s) : t[i] = s[i]
      /\ \A a \in 1 .. Len(s) + 1 :
           SubSeq(t, a, Len(s) + 1) = Append(SubSeq(s, a, Len(s)), c)
  BY <1>1, Appended, SMTT(60)
<1>4. CASE s = <<>> /\ p = HelloParserReset
  <2>1. Len(s) = 0 /\ Len(t) = 1 /\ t[1] = c
    BY <1>3, <1>4
  <2>2. q = [p EXCEPT !.state = IF c = Version THEN "NMethods" ELSE "BadVersion"]
    BY <1>2, <1>4, Zenon DEF HelloParserFeed, HelloParserReset, Going
  <2> QED BY <2>1, <2>2, <1>1, <1>2, <1>4 DEF HelloKnows, HelloParserReset, Socks5Failed
<1>5. CASE /\ p = [HelloParserReset EXCEPT !.state = "NMethods"]
           /\ Len(s) = 1 /\ s[1] = Version
  <2>1. Len(t) = 2 /\ t[2] = c /\ t[1] = Version
    BY <1>3, <1>5
  <2>2. p.state = "NMethods"
    BY <1>5 DEF HelloParserReset
  <2>3. q = [p EXCEPT !.nmethods = c, !.state = IF c = 0 THEN "Invalid" ELSE "Methods"]
    BY <1>2, <2>2, Zenon DEF HelloParserFeed
  <2>4. SubSeq(t, 3, 2) = <<>>
    BY SubSeqEmpty
  <2>5. CASE c = 0
    <3>1. q.state = "Invalid"
      BY <1>5, <2>3, <2>5 DEF HelloParserReset
    <3>2. Len(t) >= 2 /\ t[2] = 0
      BY <2>1, <2>5
    <3> QED BY <1>1, <1>2, <3>1, <3>2 DEF HelloKnows, Socks5Failed
  <2>6. CASE c # 0
    <3>1. q = [state |-> "Methods", nmethods |-> t[2], methods |-> SubSeq(t, 3, Len(t))]
      BY <1>5, <2>1, <2>3, <2>4, <2>6 DEF HelloParserReset
    <3>2. t[2] > 0 /\ Len(t) # 2 + t[2] /\ Len(t) <= 2 + t[2]
      BY <2>1, <2>6
    <3> QED BY <1>1, <1>2, <2>1, <3>1, <3>2 DEF HelloKnows
  <2> QED BY <2>5, <2>6
<1>6. CASE /\ Len(s) >= 2 /\ s[1] = Version /\ s[2] > 0
           /\ p = [state |-> IF Len(s) = 2 + s[2] THEN "Done" ELSE "Methods",
                   nmethods |-> s[2], methods |-> SubSeq(s, 3, Len(s))]
           /\ Len(s) <= 2 + s[2]
  <2>1. /\ Len(s) >= 2 /\ s[1] = Version /\ s[2] > 0 /\ Len(s) <= 2 + s[2]
        /\ 1 \in 1 .. Len(s) /\ 2 \in 1 .. Len(s) /\ 3 \in 1 .. Len(s) + 1
        /\ Len(s) \in 3 - 1 .. Len(s)
    BY <1>3, <1>6, SMTT(60)
  <2>2. p.state = "Methods" /\ Len(s) # 2 + s[2] /\ p.nmethods = s[2]
        /\ p.methods = SubSeq(s, 3, Len(s))
    BY <1>6 DEF Socks5Finished
  <2>3. q = [p EXCEPT !.methods = Append(@, c),
                      !.state = IF Len(p.methods) + 1 = p.nmethods THEN "Done" ELSE @]
    BY <1>2, <2>2, Zenon DEF HelloParserFeed
  <2>4. Len(p.methods) = Len(s) - 2
    <3>1. Len(SubSeq(s, 3, Len(s))) = Len(s) - 3 + 1
      BY <2>1, PartLength
    <3> QED BY <1>3, <2>2, <3>1
  <2>5. SubSeq(t, 3, Len(t)) = Append(SubSeq(s, 3, Len(s)), c)
    BY <1>3, <2>1
  <2>6. Len(t) = Len(s) + 1 /\ t[1] = s[1] /\ t[2] = s[2] /\ s[2] \in Nat
    BY <1>3, <2>1, ElementOfSeq
  <2>7. PICK n \in Nat : n = s[2]
    BY <2>6
  <2>8. PICK m \in Nat : m = Len(s)
    BY <1>3
  <2>9. m <= 2 + n /\ m # 2 + n /\ n > 0 /\ m >= 2
    BY <2>1, <2>2, <2>7, <2>8
  <2>10. Len(t) = m + 1 /\ t[2] = n /\ p.nmethods = n /\ Len(p.methods) = m - 2
    BY <2>2, <2>4, <2>6, <2>7, <2>8
  <2>11. (Len(p.methods) + 1 = p.nmethods) = (Len(t) = 2 + t[2])
    BY <2>10
  <2>12. q = [state |-> IF Len(t) = 2 + t[2] THEN "Done" ELSE "Methods",
             nmethods |-> t[2], methods |-> SubSeq(t, 3, Len(t))]
    BY <1>6, <2>2, <2>3, <2>5, <2>6, <2>11
  <2>13. Len(t) >= 2 /\ t[1] = Version /\ t[2] > 0 /\ Len(t) <= 2 + t[2]
    BY <2>1, <2>6, <2>9, <2>10
  <2> QED BY <2>12, <2>13, <1>1, <1>2 DEF HelloKnows
<1> QED BY <1>4, <1>5, <1>6, Zenon DEF HelloKnows, Socks5Finished, Socks5Failed

-------------------------------------------------------------------------------
(* A field that is read up to the last byte: with one byte more, it has    *)
(* that one more; and what was there stays, whatever is asked of it.       *)
LEMMA FieldGrows ==
    ASSUME NEW s \in Seq(Nat), NEW c \in Nat, NEW t, t = Append(s, c),
           NEW m \in Nat, m = Len(s), NEW a \in Nat, a >= 1, a <= m + 1
    PROVE  /\ SubSeq(t, a, Len(t)) = Append(SubSeq(s, a, Len(s)), c)
           /\ Len(SubSeq(s, a, Len(s))) = m + 1 - a
<1>1. Len(t) = Len(s) + 1
  BY Appended
<1>2. a \in 1 .. Len(s) + 1 /\ Len(s) \in a - 1 .. Len(s)
  OBVIOUS
<1>3. SubSeq(t, a, Len(s) + 1) = Append(SubSeq(s, a, Len(s)), c)
  BY <1>2, Appended
<1>4. PICK u : u = SubSeq(s, a, Len(s))
  OBVIOUS
<1>5. Len(u) = Len(s) - a + 1
  BY <1>2, <1>4, PartLength
<1>6. Len(u) = m + 1 - a
  BY <1>5
<1> QED BY <1>1, <1>3, <1>4, <1>6

(* The same for a length that has a name.                                  *)
LEMMA OneMore ==
    ASSUME NEW s \in Seq(Nat), NEW c \in Nat, NEW t, t = Append(s, c),
           NEW m \in Nat, m = Len(s)
    PROVE  /\ t \in Seq(Nat) /\ Len(t) = m + 1 /\ t[m + 1] = c
           /\ \A i \in 1 .. m : t[i] = s[i]
BY Appended

(* And one that ended before stays as it is, as does every single byte.    *)
LEMMA FieldStays ==
    ASSUME NEW s \in Seq(Nat), NEW c \in Nat, NEW t, t = Append(s, c),
           NEW m \in Nat, m = Len(s), NEW a \in Nat, a >= 1, a <= m + 1,
           NEW b \in Nat, b <= m
    PROVE  /\ SubSeq(t, a, b) = SubSeq(s, a, b)
           /\ b >= 1 => t[b] = s[b]
<1>1. /\ Len(t) = Len(s) + 1
      /\ \A i \in 1 .. Len(s) : t[i] = s[i]
  BY Appended
<1>2. a \in 1 .. Len(s) + 1 /\ b \in 0 .. Len(s) /\ (b >= 1 => b \in 1 .. Len(s))
  OBVIOUS
<1>3. SubSeq(t, a, b) = SubSeq(s, a, b)
  BY <1>2, Appended
<1> QED BY <1>1, <1>2, <1>3

-------------------------------------------------------------------------------
(* What the parser of the credentials knows: while it has a name of n      *)
(* bytes to read, while it has a password of k bytes behind it, and once   *)
(* the stream cannot be a message.                                         *)
AuthNames(p, s, n) ==
    /\ Len(s) >= 2 /\ Len(s) <= 2 + n /\ s[1] = NegotiationVersion /\ s[2] = n
    /\ p = [state |-> IF Len(s) = 2 + n THEN "PLen" ELSE "UName", ulen |-> n,
            uname |-> SubSeq(s, 3, Len(s)), plen |-> 0, passwd |-> <<>>]

AuthProves(p, s, n, k) ==
    /\ Len(s) >= 3 + n /\ Len(s) <= 3 + n + k
    /\ s[1] = NegotiationVersion /\ s[2] = n /\ s[3 + n] = k
    /\ p = [state |-> IF Len(s) = 3 + n + k THEN "Done" ELSE "Passwd", ulen |-> n,
            uname |-> SubSeq(s, 3, 2 + n), plen |-> k,
            passwd |-> SubSeq(s, 4 + n, Len(s))]

AuthWrong(s) ==
    /\ Len(s) >= 1
    /\ \/ s[1] # NegotiationVersion
       \/ Len(s) >= 2 /\ s[2] = 0
       \/ \E n \in Nat \ {0} : s[2] = n /\ Len(s) >= 3 + n /\ s[3 + n] = 0

AuthKnows(p, s) ==
    \/ s = <<>> /\ p = AuthParserReset
    \/ /\ p = [AuthParserReset EXCEPT !.state = "ULen"]
       /\ Len(s) = 1 /\ s[1] = NegotiationVersion
    \/ \E n \in Nat \ {0} : AuthNames(p, s, n)
    \/ \E n, k \in Nat \ {0} : AuthProves(p, s, n, k)
    \/ Socks5Failed(p) /\ AuthWrong(s)

(* A byte more, and the parser of the credentials still knows.             *)
LEMMA AuthFed ==
    ASSUME NEW s \in Seq(Nat), NEW c \in Nat, NEW p, AuthKnows(p, s),
           ~ Socks5Finished(p)
    PROVE  AuthKnows(AuthParserFeed(p, c), Append(s, c))
<1>1. PICK t : t = Append(s, c)
  OBVIOUS
<1>2. PICK q : q = AuthParserFeed(p, c)
  OBVIOUS
<1>3. PICK m \in Nat : m = Len(s)
  BY LenProperties
<1>4. Len(t) = m + 1 /\ t[m + 1] = c
  BY <1>1, <1>3, OneMore
<1>5. CASE s = <<>> /\ p = AuthParserReset
  <2>1. Len(t) = 1 /\ t[1] = c
    BY <1>3, <1>4, <1>5
  <2>2. q = [p EXCEPT !.state = IF c = NegotiationVersion THEN "ULen" ELSE "BadVersion"]
    BY <1>2, <1>5, Zenon DEF AuthParserFeed, AuthParserReset, Going
  <2>3. CASE c = NegotiationVersion
    BY <2>1, <2>2, <2>3, <1>1, <1>2, <1>5 DEF AuthKnows
  <2>4. CASE c # NegotiationVersion
    <3>1. q.state = "BadVersion"
      BY <1>5, <2>2, <2>4 DEF AuthParserReset
    <3> QED BY <2>1, <2>4, <3>1, <1>1, <1>2 DEF AuthKnows, AuthWrong, Socks5Failed
  <2> QED BY <2>3, <2>4
<1>6. CASE /\ p = [AuthParserReset EXCEPT !.state = "ULen"]
           /\ Len(s) = 1 /\ s[1] = NegotiationVersion
  <2>1. m = 1 /\ Len(t) = 2 /\ t[2] = c
    BY <1>3, <1>4, <1>6
  <2>2. t[1] = NegotiationVersion
    BY <2>1, <1>1, <1>3, <1>6, FieldStays
  <2>3. p.state = "ULen"
    BY <1>6 DEF AuthParserReset
  <2>4. q = [p EXCEPT !.ulen = c, !.state = IF c = 0 THEN "Invalid" ELSE "UName"]
    BY <1>2, <2>3, Zenon DEF AuthParserFeed
  <2>5. CASE c = 0
    <3>1. q.state = "Invalid"
      BY <1>6, <2>4, <2>5 DEF AuthParserReset
    <3> QED BY <2>1, <2>5, <3>1, <1>1, <1>2 DEF AuthKnows, AuthWrong, Socks5Failed
  <2>6. CASE c # 0
    <3>1. SubSeq(t, 3, 2) = <<>>
      BY SubSeqEmpty
    <3>2. q = [state |-> "UName", ulen |-> c, uname |-> SubSeq(t, 3, Len(t)), plen |-> 0,
               passwd |-> <<>>]
      BY <1>6, <2>1, <2>4, <2>6, <3>1 DEF AuthParserReset
    <3>3. AuthNames(q, t, c)
      BY <2>1, <2>2, <2>6, <3>2 DEF AuthNames
    <3> QED BY <2>6, <3>3, <1>1, <1>2 DEF AuthKnows
  <2> QED BY <2>5, <2>6
<1>7. ASSUME NEW n \in Nat \ {0}, AuthNames(p, s, n)
      PROVE  AuthKnows(q, t)
  <2>1. /\ m >= 2 /\ m <= 2 + n /\ s[1] = NegotiationVersion /\ s[2] = n
        /\ p = [state |-> IF m = 2 + n THEN "PLen" ELSE "UName", ulen |-> n,
                uname |-> SubSeq(s, 3, Len(s)), plen |-> 0, passwd |-> <<>>]
    BY <1>3, <1>7 DEF AuthNames
  <2>2. t[1] = NegotiationVersion /\ t[2] = n
    BY <1>1, <1>3, <2>1, FieldStays
  <2>3. CASE m = 2 + n
    <3>1. p.state = "PLen"
      BY <2>1, <2>3
    <3>2. q = [p EXCEPT !.plen = c, !.state = IF c = 0 THEN "Invalid" ELSE "Passwd"]
      BY <1>2, <3>1, Zenon DEF AuthParserFeed
    <3>3. Len(t) = 3 + n /\ t[3 + n] = c
      BY <1>4, <2>3
    <3>4. CASE c = 0
      <4>1. q.state = "Invalid"
        BY <2>1, <3>2, <3>4
      <4>2. AuthWrong(t)
        BY <2>2, <3>3, <3>4 DEF AuthWrong
      <4> QED BY <4>1, <4>2 DEF AuthKnows, Socks5Failed
    <3>5. CASE c # 0
      <4>1. SubSeq(t, 4 + n, Len(t)) = <<>>
        BY <3>3, SubSeqEmpty
      <4>2. SubSeq(t, 3, 2 + n) = SubSeq(s, 3, Len(s))
        <5>1. SubSeq(t, 3, m) = SubSeq(s, 3, m)
          BY <1>1, <1>3, <2>1, FieldStays
        <5> QED BY <1>3, <2>3, <5>1
      <4>3. q = [state |-> "Passwd", ulen |-> n, uname |-> SubSeq(s, 3, Len(s)), plen |-> c,
                 passwd |-> <<>>]
        BY <2>1, <3>2, <3>5
      <4>4. PICK l \in Nat : l = Len(t) /\ l = 3 + n
        BY <3>3
      <4>5. l >= 3 + n /\ l <= 3 + n + c /\ l # 3 + n + c
        BY <3>5, <4>4
      <4>6. q = [state |-> IF Len(t) = 3 + n + c THEN "Done" ELSE "Passwd", ulen |-> n,
                 uname |-> SubSeq(t, 3, 2 + n), plen |-> c,
                 passwd |-> SubSeq(t, 4 + n, Len(t))]
        BY <4>1, <4>2, <4>3, <4>4, <4>5
      <4>7. AuthProves(q, t, n, c)
        BY <2>2, <3>3, <4>4, <4>5, <4>6 DEF AuthProves
      <4> QED BY <3>5, <4>7 DEF AuthKnows
    <3> QED BY <3>4, <3>5
  <2>4. CASE m # 2 + n
    <3>1. p.state = "UName" /\ p.ulen = n /\ p.uname = SubSeq(s, 3, Len(s))
      BY <2>1, <2>4
    <3>2. q = [p EXCEPT !.uname = Append(@, c),
                        !.state = IF Len(p.uname) + 1 = p.ulen THEN "PLen" ELSE @]
      BY <1>2, <3>1, Zenon DEF AuthParserFeed
    <3>3. /\ SubSeq(t, 3, Len(t)) = Append(SubSeq(s, 3, Len(s)), c)
          /\ Len(SubSeq(s, 3, Len(s))) = m + 1 - 3
      <4>1. PICK a \in Nat : a = 3
        OBVIOUS
      <4>2. a >= 1 /\ a <= m + 1
        BY <2>1, <4>1
      <4>3. SubSeq(t, a, Len(t)) = Append(SubSeq(s, a, Len(s)), c)
            /\ Len(SubSeq(s, a, Len(s))) = m + 1 - a
        BY <1>1, <1>3, <4>2, FieldGrows, SMTT(60)
      <4> QED BY <4>1, <4>3
    <3>4. (Len(p.uname) + 1 = p.ulen) = (Len(t) = 2 + n)
      BY <1>4, <3>1, <3>3
    <3>5. q = [state |-> IF Len(t) = 2 + n THEN "PLen" ELSE "UName", ulen |-> n,
               uname |-> SubSeq(t, 3, Len(t)), plen |-> 0, passwd |-> <<>>]
      BY <2>1, <2>4, <3>1, <3>2, <3>3, <3>4
    <3>6. AuthNames(q, t, n)
      BY <1>4, <2>1, <2>2, <2>4, <3>5 DEF AuthNames
    <3> QED BY <3>6 DEF AuthKnows
  <2> QED BY <2>3, <2>4
<1>8. ASSUME NEW n \in Nat \ {0}, NEW k \in Nat \ {0}, AuthProves(p, s, n, k)
      PROVE  AuthKnows(q, t)
  <2>1. /\ m >= 3 + n /\ m <= 3 + n + k
        /\ s[1] = NegotiationVersion /\ s[2] = n /\ s[3 + n] = k
        /\ p = [state |-> IF m = 3 + n + k THEN "Done" ELSE "Passwd", ulen |-> n,
                uname |-> SubSeq(s, 3, 2 + n), plen |-> k,
                passwd |-> SubSeq(s, 4 + n, Len(s))]
    BY <1>3, <1>8 DEF AuthProves
  <2>2. t[1] = NegotiationVersion /\ t[2] = n
    BY <1>1, <1>3, <2>1, FieldStays
  <2>3. t[3 + n] = k
    BY <1>1, <1>3, <2>1, FieldStays
  <2>4. SubSeq(t, 3, 2 + n) = SubSeq(s, 3, 2 + n)
    BY <1>1, <1>3, <2>1, FieldStays, SMTT(60)
  <2>5. m # 3 + n + k
    BY <2>1 DEF Socks5Finished
  <2>6. p.state = "Passwd" /\ p.plen = k /\ p.passwd = SubSeq(s, 4 + n, Len(s))
    BY <2>1, <2>5
  <2>7. q = [p EXCEPT !.passwd = Append(@, c),
                      !.state = IF Len(p.passwd) + 1 = p.plen THEN "Done" ELSE @]
    BY <1>2, <2>6, Zenon DEF AuthParserFeed
  <2>8. /\ SubSeq(t, 4 + n, Len(t)) = Append(SubSeq(s, 4 + n, Len(s)), c)
        /\ Len(SubSeq(s, 4 + n, Len(s))) = m + 1 - (4 + n)
    <3>1. PICK a \in Nat : a = 4 + n
      OBVIOUS
    <3>2. a >= 1 /\ a <= m + 1
      BY <2>1, <3>1
    <3>3. SubSeq(t, a, Len(t)) = Append(SubSeq(s, a, Len(s)), c)
          /\ Len(SubSeq(s, a, Len(s))) = m + 1 - a
      BY <1>1, <1>3, <3>2, FieldGrows, SMTT(60)
    <3> QED BY <3>1, <3>3
  <2>9. (Len(p.passwd) + 1 = p.plen) = (Len(t) = 3 + n + k)
    BY <1>4, <2>6, <2>8
  <2>10. q = [state |-> IF Len(t) = 3 + n + k THEN "Done" ELSE "Passwd", ulen |-> n,
              uname |-> SubSeq(t, 3, 2 + n), plen |-> k,
              passwd |-> SubSeq(t, 4 + n, Len(t))]
    BY <2>1, <2>4, <2>5, <2>6, <2>7, <2>8, <2>9
  <2>11. AuthProves(q, t, n, k)
    BY <1>4, <2>1, <2>2, <2>3, <2>5, <2>10 DEF AuthProves
  <2> QED BY <2>11 DEF AuthKnows
<1> QED BY <1>1, <1>2, <1>5, <1>6, <1>7, <1>8, Zenon
        DEF AuthKnows, Socks5Finished, Socks5Failed

-------------------------------------------------------------------------------
(* Where the address of a request starts, and how long it is.              *)
AddressIs(s, f, n) ==
    \/ s[4] = IPv4 /\ f = 5 /\ n = V4Length
    \/ s[4] = IPv6 /\ f = 5 /\ n = V6Length
    \/ s[4] = FQDN /\ f = 6 /\ s[5] = n

(* What the parser of requests knows: in the address, in the port, before  *)
(* both, and once the stream cannot be a message.                          *)
RequestHeader(s) == s[1] = Version /\ s[3] = 0 /\ s[4] \in {IPv4, IPv6, FQDN}

RequestAddresses(p, s, f, n) ==
    /\ Len(s) + 1 >= f /\ Len(s) + 1 <= f + n
    /\ RequestHeader(s) /\ AddressIs(s, f, n)
    /\ p = [state |-> IF Len(s) + 1 = f + n THEN "Port"
                     ELSE IF s[4] = FQDN THEN "Name" ELSE "Address",
            cmd |-> s[2], atype |-> s[4], length |-> n,
            address |-> SubSeq(s, f, Len(s)), port |-> <<>>]

RequestPorts(p, s, f, n) ==
    /\ Len(s) >= f + n /\ Len(s) <= f + n + 1
    /\ RequestHeader(s) /\ AddressIs(s, f, n)
    /\ p = [state |-> IF Len(s) = f + n + 1 THEN "Done" ELSE "Port",
            cmd |-> s[2], atype |-> s[4], length |-> n,
            address |-> SubSeq(s, f, f + n - 1), port |-> SubSeq(s, f + n, Len(s))]

RequestBegun(state, cmd, atype) ==
    [state |-> state, cmd |-> cmd, atype |-> atype, length |-> 0, address |-> <<>>,
     port |-> <<>>]

(* The type of the address is next; the length of a name is next.          *)
RequestTyping(p, s) ==
    /\ Len(s) = 3 /\ s[1] = Version /\ s[3] = 0
    /\ p = RequestBegun("AType", s[2], 0)
RequestNaming(p, s) ==
    /\ Len(s) = 4 /\ s[1] = Version /\ s[3] = 0 /\ s[4] = FQDN
    /\ p = RequestBegun("Name", s[2], FQDN)

RequestWrong(s) ==
    /\ Len(s) >= 1
    /\ \/ s[1] # Version
       \/ Len(s) >= 3 /\ s[3] # 0
       \/ Len(s) >= 4 /\ s[4] \notin {IPv4, IPv6, FQDN}
       \/ Len(s) >= 5 /\ s[4] = FQDN /\ s[5] = 0

RequestKnows(p, s) ==
    \/ s = <<>> /\ p = RequestParserReset
    \/ /\ Len(s) = 1 /\ s[1] = Version
       /\ p = RequestBegun("CMD", 0, 0)
    \/ /\ Len(s) = 2 /\ s[1] = Version
       /\ p = RequestBegun("RSV", s[2], 0)
    \/ RequestTyping(p, s)
    \/ RequestNaming(p, s)
    \/ \E f, n \in Nat \ {0} : RequestAddresses(p, s, f, n)
    \/ \E f, n \in Nat \ {0} : RequestPorts(p, s, f, n)
    \/ Socks5Failed(p) /\ RequestWrong(s)

(* The header of a request stays as it is.                                 *)
LEMMA HeaderStays ==
    ASSUME NEW s \in Seq(Nat), NEW c \in Nat, NEW t, t = Append(s, c),
           NEW m \in Nat, m = Len(s), NEW f \in Nat, NEW n \in Nat, m + 1 >= f,
           RequestHeader(s), AddressIs(s, f, n)
    PROVE  RequestHeader(t) /\ AddressIs(t, f, n) /\ t[2] = s[2] /\ t[4] = s[4]
<1>1. m >= 4 /\ (f = 6 => m >= 5)
  BY DEF AddressIs
<1>2. t[1] = s[1] /\ t[2] = s[2]
  BY <1>1, FieldStays
<1>3. t[3] = s[3] /\ t[4] = s[4]
  BY <1>1, FieldStays
<1>4. f = 6 => t[5] = s[5]
  BY <1>1, FieldStays
<1> QED BY <1>2, <1>3, <1>4 DEF RequestHeader, AddressIs

(* A byte more, up to the type of the address.                             *)
LEMMA RequestHeaderFed ==
    ASSUME NEW s \in Seq(Nat), NEW c \in Nat, NEW p, NEW t, t = Append(s, c),
           NEW m \in Nat, m = Len(s), m < 3, RequestKnows(p, s), ~ Socks5Finished(p)
    PROVE  RequestKnows(RequestParserFeed(p, c), t)
<1>1. PICK q : q = RequestParserFeed(p, c)
  OBVIOUS
<1>2. Len(t) = m + 1 /\ t[m + 1] = c
  BY OneMore
<1>3. CASE s = <<>> /\ p = RequestParserReset
  <2>1. Len(t) = 1 /\ t[1] = c
    BY <1>2, <1>3
  <2>2. q = [p EXCEPT !.state = IF c = Version THEN "CMD" ELSE "BadVersion"]
    BY <1>1, <1>3, Zenon DEF RequestParserFeed, RequestParserReset, Going
  <2>3. CASE c = Version
    <3>1. q = RequestBegun("CMD", 0, 0)
      BY <1>3, <2>2, <2>3 DEF RequestParserReset, RequestBegun
    <3> QED BY <2>1, <2>3, <3>1, <1>1 DEF RequestKnows
  <2>4. CASE c # Version
    <3>1. q.state = "BadVersion"
      BY <1>3, <2>2, <2>4 DEF RequestParserReset
    <3> QED BY <2>1, <2>4, <3>1, <1>1 DEF RequestKnows, RequestWrong, Socks5Failed
  <2> QED BY <2>3, <2>4
<1>4. CASE /\ Len(s) = 1 /\ s[1] = Version
           /\ p = RequestBegun("CMD", 0, 0)
  <2>1. m = 1 /\ Len(t) = 2 /\ t[2] = c
    BY <1>2, <1>4
  <2>2. t[1] = Version
    BY <2>1, <1>4, FieldStays
  <2>3. p.state = "CMD"
    BY <1>4 DEF RequestBegun
  <2>4. q = [p EXCEPT !.cmd = c, !.state = "RSV"]
    BY <1>1, <2>3, Zenon DEF RequestParserFeed
  <2>5. q = RequestBegun("RSV", t[2], 0)
    BY <1>4, <2>1, <2>4 DEF RequestBegun
  <2> QED BY <1>1, <2>1, <2>2, <2>5 DEF RequestKnows
<1>5. CASE /\ Len(s) = 2 /\ s[1] = Version
           /\ p = RequestBegun("RSV", s[2], 0)
  <2>1. m = 2 /\ Len(t) = 3 /\ t[3] = c
    BY <1>2, <1>5
  <2>2. t[1] = Version /\ t[2] = s[2]
    BY <2>1, <1>5, FieldStays
  <2>3. p.state = "RSV"
    BY <1>5 DEF RequestBegun
  <2>4. q = [p EXCEPT !.state = IF c = 0 THEN "AType" ELSE "Invalid"]
    BY <1>1, <2>3, Zenon DEF RequestParserFeed, Going
  <2>5. CASE c = 0
    <3>1. q = RequestBegun("AType", t[2], 0)
      BY <1>5, <2>2, <2>4, <2>5 DEF RequestBegun
    <3> QED BY <1>1, <2>1, <2>2, <2>5, <3>1 DEF RequestKnows, RequestTyping
  <2>6. CASE c # 0
    <3>1. q.state = "Invalid"
      BY <1>5, <2>4, <2>6 DEF RequestBegun
    <3> QED BY <2>1, <2>6, <3>1, <1>1 DEF RequestKnows, RequestWrong, Socks5Failed
  <2> QED BY <2>5, <2>6
<1>6. \A f, n \in Nat : ~ RequestAddresses(p, s, f, n) /\ ~ RequestPorts(p, s, f, n)
  BY DEF RequestAddresses, RequestPorts, AddressIs
<1>7. ~ RequestTyping(p, s) /\ ~ RequestNaming(p, s) /\ ~ Socks5Failed(p)
  BY DEF RequestTyping, RequestNaming, Socks5Failed, Socks5Finished
<1> QED BY <1>1, <1>3, <1>4, <1>5, <1>6, <1>7, Zenon DEF RequestKnows

(* The type of the address: literal ones have their length.                *)
LEMMA RequestTypeFed ==
    ASSUME NEW s \in Seq(Nat), NEW c \in Nat, NEW p, NEW t, t = Append(s, c),
           RequestTyping(p, s)
    PROVE  RequestKnows(RequestParserFeed(p, c), t)
<1>1. PICK q : q = RequestParserFeed(p, c)
  OBVIOUS
<1>2. /\ Len(t) = 4 /\ t[4] = c
      /\ t[1] = Version /\ t[2] = s[2] /\ t[3] = 0
  <2>0. PICK m \in Nat : m = Len(s)
    BY LenProperties
  <2>1. m = 3 /\ s[1] = Version /\ s[3] = 0
    BY <2>0 DEF RequestTyping
  <2>2. Len(t) = m + 1 /\ t[m + 1] = c
    BY <2>0, OneMore
  <2>3. \A i \in 1 .. m : t[i] = s[i]
    BY <2>0, OneMore
  <2>4. t[1] = s[1] /\ t[2] = s[2] /\ t[3] = s[3]
    <3>1. 1 \in 1 .. m /\ 2 \in 1 .. m /\ 3 \in 1 .. m
      BY <2>1
    <3> QED BY <2>3, <3>1
  <2> QED BY <2>0, <2>1, <2>2, <2>4
<1>3. p = [state |-> "AType", cmd |-> s[2], atype |-> 0, length |-> 0, address |-> <<>>,
           port |-> <<>>]
  BY DEF RequestTyping, RequestBegun
<1>4. q = AddressType(p, c)
  <2>1. p.state = "AType"
    BY <1>3
  <2> QED BY <1>1, <2>1, Zenon DEF RequestParserFeed
<1>5. SubSeq(t, 5, 4) = <<>> /\ IPv4 # IPv6 /\ IPv4 # FQDN /\ IPv6 # FQDN
  BY SubSeqEmpty DEF IPv4, IPv6, FQDN
<1>6. /\ c = IPv4 => q = [[p EXCEPT !.atype = c] EXCEPT !.state = "Address", !.length = V4Length]
      /\ c = IPv6 => q = [[p EXCEPT !.atype = c] EXCEPT !.state = "Address", !.length = V6Length]
      /\ c = FQDN => q = [[p EXCEPT !.atype = c] EXCEPT !.state = "Name"]
      /\ c \notin {IPv4, IPv6, FQDN} => q = [[p EXCEPT !.atype = c] EXCEPT !.state = "Invalid"]
  BY <1>4, <1>5, Zenon DEF AddressType, Going
<1>7. V4Length \in Nat \ {0} /\ V6Length \in Nat \ {0}
  BY Socks5ParsersAssumption
<1>8. ASSUME NEW n \in Nat \ {0}, c # FQDN, c \in {IPv4, IPv6},
             (c = IPv4 /\ n = V4Length) \/ (c = IPv6 /\ n = V6Length)
      PROVE  RequestKnows(q, t)
  <2>1. q = [state |-> "Address", cmd |-> t[2], atype |-> t[4], length |-> n,
             address |-> SubSeq(t, 5, Len(t)), port |-> <<>>]
    <3>1. q = [[p EXCEPT !.atype = c] EXCEPT !.state = "Address", !.length = n]
      BY <1>5, <1>6, <1>8
    <3>2. q = [state |-> "Address", cmd |-> s[2], atype |-> c, length |-> n,
               address |-> <<>>, port |-> <<>>]
      BY <1>3, <3>1
    <3> QED BY <1>2, <1>5, <3>2
  <2>2. 5 # 5 + n /\ Len(t) + 1 = 5 /\ 5 <= 5 + n
    BY <1>2
  <2>3. RequestHeader(t) /\ AddressIs(t, 5, n)
    BY <1>2, <1>8 DEF RequestHeader, AddressIs
  <2>4. RequestAddresses(q, t, 5, n)
    BY <1>2, <1>8, <2>1, <2>2, <2>3 DEF RequestAddresses
  <2> QED BY <2>4 DEF RequestKnows
<1>9. CASE c = IPv4
  <2>1. c # FQDN /\ c \in {IPv4, IPv6} /\ V4Length \in Nat \ {0}
    BY <1>5, <1>7, <1>9
  <2> QED BY <1>1, <1>8, <1>9, <2>1, Zenon
<1>10. CASE c = IPv6
  <2>1. c # FQDN /\ c \in {IPv4, IPv6} /\ V6Length \in Nat \ {0}
    BY <1>5, <1>7, <1>10
  <2> QED BY <1>1, <1>8, <1>10, <2>1, Zenon
<1>11. CASE c = FQDN
  <2>1. q = RequestBegun("Name", t[2], FQDN)
    <3>1. q = [[p EXCEPT !.atype = c] EXCEPT !.state = "Name"]
      BY <1>6, <1>11
    <3> QED BY <1>2, <1>3, <1>11, <3>1 DEF RequestBegun
  <2> QED BY <1>1, <1>2, <1>11, <2>1 DEF RequestKnows, RequestNaming
<1>12. CASE c \notin {IPv4, IPv6, FQDN}
  <2>1. q.state = "Invalid"
    BY <1>3, <1>6, <1>12
  <2>2. RequestWrong(t)
    BY <1>2, <1>12 DEF RequestWrong
  <2> QED BY <1>1, <2>1, <2>2 DEF RequestKnows, Socks5Failed
<1> QED BY <1>1, <1>9, <1>10, <1>11, <1>12

(* The length byte of a name.                                              *)
LEMMA RequestLengthFed ==
    ASSUME NEW s \in Seq(Nat), NEW c \in Nat, NEW p, NEW t, t = Append(s, c),
           RequestNaming(p, s)
    PROVE  RequestKnows(RequestParserFeed(p, c), t)
<1>1. PICK q : q = RequestParserFeed(p, c)
  OBVIOUS
<1>2. /\ Len(t) = 5 /\ t[5] = c
      /\ t[1] = Version /\ t[2] = s[2] /\ t[3] = 0 /\ t[4] = FQDN
  <2>0. PICK m \in Nat : m = Len(s)
    BY LenProperties
  <2>1. m = 4 /\ s[1] = Version /\ s[3] = 0 /\ s[4] = FQDN
    BY <2>0 DEF RequestNaming
  <2>2. Len(t) = m + 1 /\ t[m + 1] = c
    BY <2>0, OneMore
  <2>3. \A i \in 1 .. m : t[i] = s[i]
    BY <2>0, OneMore
  <2>4. t[1] = s[1] /\ t[2] = s[2] /\ t[3] = s[3] /\ t[4] = s[4]
    <3>1. 1 \in 1 .. m /\ 2 \in 1 .. m /\ 3 \in 1 .. m /\ 4 \in 1 .. m
      BY <2>1
    <3> QED BY <2>3, <3>1
  <2> QED BY <2>0, <2>1, <2>2, <2>4
<1>3. p = [state |-> "Name", cmd |-> s[2], atype |-> FQDN, length |-> 0, address |-> <<>>,
           port |-> <<>>]
  BY DEF RequestNaming, RequestBegun
<1>4. q = AddressByte(p, c)
  <2>1. p.state = "Name"
    BY <1>3
  <2> QED BY <1>1, <2>1, Zenon DEF RequestParserFeed
<1>5. q = [p EXCEPT !.length = c, !.state = IF c = 0 THEN "Invalid" ELSE @]
  <2>1. p.state = "Name" /\ p.length = 0
    BY <1>3
  <2> QED BY <1>4, <2>1, Zenon DEF AddressByte
<1>6. CASE c = 0
  <2>1. q.state = "Invalid"
    BY <1>3, <1>5, <1>6
  <2>2. RequestWrong(t)
    BY <1>2, <1>6 DEF RequestWrong
  <2> QED BY <1>1, <2>1, <2>2 DEF RequestKnows, Socks5Failed
<1>7. CASE c # 0
  <2>1. SubSeq(t, 6, 5) = <<>>
    BY SubSeqEmpty
  <2>2. q = [state |-> "Name", cmd |-> t[2], atype |-> t[4], length |-> c,
             address |-> SubSeq(t, 6, Len(t)), port |-> <<>>]
    <3>1. q = [state |-> "Name", cmd |-> s[2], atype |-> FQDN, length |-> c,
               address |-> <<>>, port |-> <<>>]
      BY <1>3, <1>5, <1>7
    <3> QED BY <1>2, <2>1, <3>1
  <2>3. 6 # 6 + c /\ Len(t) + 1 = 6 /\ 6 <= 6 + c
    BY <1>2, <1>7
  <2>4. RequestHeader(t) /\ AddressIs(t, 6, c)
    BY <1>2 DEF RequestHeader, AddressIs
  <2>5. RequestAddresses(q, t, 6, c)
    BY <1>2, <2>2, <2>3, <2>4 DEF RequestAddresses
  <2> QED BY <1>1, <1>7, <2>5 DEF RequestKnows
<1> QED BY <1>6, <1>7

(* A byte of the address, or the first one of the port.                    *)
LEMMA RequestAddressFed ==
    ASSUME NEW s \in Seq(Nat), NEW c \in Nat, NEW p, NEW t, t = Append(s, c),
           NEW f \in Nat, NEW n \in Nat \ {0}, RequestAddresses(p, s, f, n)
    PROVE  RequestKnows(RequestParserFeed(p, c), t)
<1>1. PICK q : q = RequestParserFeed(p, c)
  OBVIOUS
<1>2. PICK m \in Nat : m = Len(s)
  BY LenProperties
<1>3. f \in Nat /\ f >= 5
  BY DEF RequestAddresses, AddressIs
<1>4. /\ m + 1 >= f /\ m + 1 <= f + n
      /\ RequestHeader(s) /\ AddressIs(s, f, n)
      /\ p = [state |-> IF m + 1 = f + n THEN "Port"
                        ELSE IF s[4] = FQDN THEN "Name" ELSE "Address",
              cmd |-> s[2], atype |-> s[4], length |-> n,
              address |-> SubSeq(s, f, Len(s)), port |-> <<>>]
  BY <1>2 DEF RequestAddresses
<1>5. RequestHeader(t) /\ AddressIs(t, f, n) /\ t[2] = s[2] /\ t[4] = s[4]
  <2>1. m + 1 >= f /\ RequestHeader(s) /\ AddressIs(s, f, n) /\ n \in Nat
    BY <1>4
  <2> QED BY <1>2, <2>1, HeaderStays
<1>6. Len(t) = m + 1 /\ t[m + 1] = c
  BY <1>2, OneMore
<1>7. CASE m + 1 = f + n
  <2>1. p.state = "Port" /\ p.port = <<>>
    BY <1>4, <1>7
  <2>2. q = [p EXCEPT !.port = Append(@, c), !.state = IF p.port = <<>> THEN @ ELSE "Done"]
    BY <1>1, <2>1, Zenon DEF RequestParserFeed, PortByte
  <2>3. SubSeq(t, f, f + n - 1) = SubSeq(s, f, Len(s))
    <3>1. SubSeq(t, f, m) = SubSeq(s, f, m)
      BY <1>2, <1>3, <1>4, FieldStays
    <3>2. f + n - 1 = m
      BY <1>3, <1>7
    <3> QED BY <1>2, <3>1, <3>2
  <2>4. SubSeq(t, f + n, Len(t)) = Append(<<>>, c)
    <3>1. PICK a \in Nat : a = f + n
      BY <1>3
    <3>2. a >= 1 /\ a <= m + 1 /\ a > m /\ a = Len(t)
      BY <1>3, <1>6, <1>7, <3>1
    <3>3. SubSeq(t, a, Len(t)) = Append(SubSeq(s, a, Len(s)), c)
      BY <1>2, <3>2, FieldGrows
    <3>4. SubSeq(s, a, Len(s)) = <<>>
      BY <1>2, <3>2, SubSeqEmpty
    <3> QED BY <3>1, <3>3, <3>4
  <2>5. Len(t) # f + n + 1 /\ Len(t) >= f + n /\ Len(t) <= f + n + 1
    BY <1>3, <1>6, <1>7
  <2>6. q = [p EXCEPT !.port = SubSeq(t, f + n, Len(t)), !.state = "Port"]
    BY <1>4, <2>1, <2>2, <2>4
  <2>7. q = [state |-> IF Len(t) = f + n + 1 THEN "Done" ELSE "Port",
             cmd |-> t[2], atype |-> t[4], length |-> n,
             address |-> SubSeq(t, f, f + n - 1), port |-> SubSeq(t, f + n, Len(t))]
    BY <1>4, <1>5, <2>3, <2>5, <2>6
  <2>8. RequestPorts(q, t, f, n)
    BY <1>5, <2>5, <2>7 DEF RequestPorts
  <2> QED BY <1>1, <1>3, <2>8 DEF RequestKnows
<1>8. CASE m + 1 # f + n
  <2>1. /\ p.state \in {"Address", "Name"} /\ p.length = n /\ p.length # 0
        /\ p.address = SubSeq(s, f, Len(s))
    BY <1>4, <1>8
  <2>2. q = [p EXCEPT !.address = Append(@, c),
                      !.state = IF Len(p.address) + 1 = p.length THEN "Port" ELSE @]
    <3>1. q = AddressByte(p, c)
      BY <1>1, <2>1, Zenon DEF RequestParserFeed
    <3> QED BY <2>1, <3>1, Zenon DEF AddressByte
  <2>3. /\ SubSeq(t, f, Len(t)) = Append(SubSeq(s, f, Len(s)), c)
        /\ Len(SubSeq(s, f, Len(s))) = m + 1 - f
    <3>1. f >= 1 /\ f <= m + 1 /\ t = Append(s, c) /\ m = Len(s)
      BY <1>2, <1>3, <1>4
    <3>2. SubSeq(t, f, Len(t)) = Append(SubSeq(s, f, Len(s)), c)
      <4>1. f \in 1 .. Len(s) + 1 /\ Len(t) = Len(s) + 1
        BY <1>2, <1>3, <1>6, <3>1
      <4>2. SubSeq(t, f, Len(s) + 1) = Append(SubSeq(s, f, Len(s)), c)
        BY <4>1, Appended, SMTT(60)
      <4> QED BY <4>1, <4>2
    <3>3. Len(SubSeq(s, f, Len(s))) = m + 1 - f
      BY <3>1, FieldGrows
    <3> QED BY <3>2, <3>3
  <2>4. (Len(p.address) + 1 = p.length) = (Len(t) + 1 = f + n)
    BY <1>3, <1>6, <2>1, <2>3
  <2>5. q = [state |-> IF Len(t) + 1 = f + n THEN "Port"
                       ELSE IF t[4] = FQDN THEN "Name" ELSE "Address",
             cmd |-> t[2], atype |-> t[4], length |-> n,
             address |-> SubSeq(t, f, Len(t)), port |-> <<>>]
    BY <1>4, <1>5, <1>8, <2>1, <2>2, <2>3, <2>4
  <2>6. Len(t) + 1 >= f /\ Len(t) + 1 <= f + n
    BY <1>3, <1>4, <1>6, <1>8
  <2>7. RequestAddresses(q, t, f, n)
    BY <1>5, <2>5, <2>6 DEF RequestAddresses
  <2> QED BY <1>1, <1>3, <2>7 DEF RequestKnows
<1> QED BY <1>7, <1>8

(* The second byte of the port.                                            *)
LEMMA RequestPortFed ==
    ASSUME NEW s \in Seq(Nat), NEW c \in Nat, NEW p, NEW t, t = Append(s, c),
           NEW f \in Nat, NEW n \in Nat \ {0}, RequestPorts(p, s, f, n),
           ~ Socks5Finished(p)
    PROVE  RequestKnows(RequestParserFeed(p, c), t)
<1>1. PICK q : q = RequestParserFeed(p, c)
  OBVIOUS
<1>2. PICK m \in Nat : m = Len(s)
  BY LenProperties
<1>3. f \in Nat /\ f >= 5
  BY DEF RequestPorts, AddressIs
<1>4. /\ m >= f + n /\ m <= f + n + 1
      /\ RequestHeader(s) /\ AddressIs(s, f, n)
      /\ p = [state |-> IF m = f + n + 1 THEN "Done" ELSE "Port",
              cmd |-> s[2], atype |-> s[4], length |-> n,
              address |-> SubSeq(s, f, f + n - 1), port |-> SubSeq(s, f + n, Len(s))]
  BY <1>2 DEF RequestPorts
<1>5. m = f + n
  <2>1. m # f + n + 1
    BY <1>4 DEF Socks5Finished
  <2> QED BY <1>3, <1>4, <2>1
<1>6. RequestHeader(t) /\ AddressIs(t, f, n) /\ t[2] = s[2] /\ t[4] = s[4]
  <2>1. m + 1 >= f /\ RequestHeader(s) /\ AddressIs(s, f, n) /\ n \in Nat
    BY <1>3, <1>4
  <2> QED BY <1>2, <2>1, HeaderStays
<1>7. Len(t) = m + 1
  BY <1>2, OneMore
<1>8. SubSeq(t, f + n, Len(t)) = Append(SubSeq(s, f + n, Len(s)), c)
  <2>1. PICK a \in Nat : a = f + n
    OBVIOUS
  <2>2. a >= 1 /\ a <= m + 1
    BY <1>2, <1>3, <1>5, <2>1
  <2>3. SubSeq(t, a, Len(t)) = Append(SubSeq(s, a, Len(s)), c)
    BY <1>2, <2>2, FieldGrows, SMTT(60)
  <2> QED BY <2>1, <2>3
<1>9. SubSeq(t, f, f + n - 1) = SubSeq(s, f, f + n - 1)
  <2>1. f \in 1 .. Len(s) + 1 /\ f + n - 1 \in 0 .. Len(s)
    BY <1>2, <1>3, <1>5
  <2> QED BY <2>1, Appended
<1>10. SubSeq(s, f + n, Len(s)) # <<>>
  <2>1. f + n \in 1 .. Len(s) + 1 /\ Len(s) \in (f + n) - 1 .. Len(s)
    BY <1>2, <1>3, <1>5
  <2>2. Len(SubSeq(s, f + n, Len(s))) = Len(s) - (f + n) + 1
    BY <2>1, PartLength
  <2>3. Len(s) - (f + n) + 1 = 1
    BY <1>2, <1>3, <1>5
  <2> QED BY <2>2, <2>3, SMTT(60)
<1>11. p.state = "Port" /\ p.port # <<>> /\ p.port = SubSeq(s, f + n, Len(s))
  BY <1>3, <1>4, <1>5, <1>10, SMTT(60)
<1>12. q = [p EXCEPT !.port = Append(@, c), !.state = IF p.port = <<>> THEN @ ELSE "Done"]
  BY <1>1, <1>11, Zenon DEF RequestParserFeed, PortByte
<1>13. q = [p EXCEPT !.port = SubSeq(t, f + n, Len(t)), !.state = "Done"]
  BY <1>8, <1>11, <1>12
<1>14. Len(t) = f + n + 1 /\ Len(t) >= f + n /\ Len(t) <= f + n + 1
  BY <1>3, <1>5, <1>7
<1>15. q = [state |-> IF Len(t) = f + n + 1 THEN "Done" ELSE "Port",
            cmd |-> t[2], atype |-> t[4], length |-> n,
            address |-> SubSeq(t, f, f + n - 1), port |-> SubSeq(t, f + n, Len(t))]
  BY <1>4, <1>6, <1>9, <1>13, <1>14
<1>16. RequestPorts(q, t, f, n)
  BY <1>6, <1>14, <1>15 DEF RequestPorts
<1> QED BY <1>1, <1>3, <1>16 DEF RequestKnows

(* A byte more, and the parser of requests still knows.                    *)
LEMMA RequestFed ==
    ASSUME NEW s \in Seq(Nat), NEW c \in Nat, NEW p, RequestKnows(p, s),
           ~ Socks5Finished(p)
    PROVE  RequestKnows(RequestParserFeed(p, c), Append(s, c))
<1>1. PICK t : t = Append(s, c)
  OBVIOUS
<1>2. PICK m \in Nat : m = Len(s)
  BY LenProperties
<1>3. CASE m < 3
  BY <1>1, <1>2, <1>3, RequestHeaderFed
<1>4. CASE RequestTyping(p, s)
  BY <1>1, <1>4, RequestTypeFed
<1>5. CASE RequestNaming(p, s)
  BY <1>1, <1>5, RequestLengthFed
<1>6. ASSUME NEW f \in Nat, NEW n \in Nat \ {0}, RequestAddresses(p, s, f, n)
      PROVE  RequestKnows(RequestParserFeed(p, c), t)
  BY <1>1, <1>6, RequestAddressFed
<1>7. ASSUME NEW f \in Nat, NEW n \in Nat \ {0}, RequestPorts(p, s, f, n)
      PROVE  RequestKnows(RequestParserFeed(p, c), t)
  BY <1>1, <1>7, RequestPortFed
<1>8. ~ Socks5Failed(p)
  BY DEF Socks5Finished, Socks5Failed
<1>9. (Len(s) = 0 => m < 3) /\ (Len(s) = 1 => m < 3) /\ (Len(s) = 2 => m < 3)
  <2>1. (Len(s) = 0 => m = 0) /\ (Len(s) = 1 => m = 1) /\ (Len(s) = 2 => m = 2)
    BY <1>2, Zenon
  <2> QED BY <2>1
<1> QED BY <1>1, <1>3, <1>4, <1>5, <1>6, <1>7, <1>8, <1>9, SMTT(60) DEF RequestKnows

-------------------------------------------------------------------------------
(* What a parser knows makes its messages exact.                           *)
LEMMA HelloExact ==
    ASSUME NEW s \in Seq(Nat), NEW p, HelloKnows(p, s)
    PROVE  /\ p.state = "Done" <=> IsHello(s)
           /\ p.state = "Done" => p.methods = SubSeq(s, 3, Len(s))
<1>1. CASE s = <<>> /\ p = HelloParserReset
  BY <1>1 DEF IsHello, HelloParserReset
<1>2. CASE /\ p = [HelloParserReset EXCEPT !.state = "NMethods"]
           /\ Len(s) = 1 /\ s[1] = Version
  BY <1>2 DEF IsHello, HelloParserReset
<1>3. CASE /\ Len(s) >= 2 /\ s[1] = Version /\ s[2] > 0
           /\ p = [state |-> IF Len(s) = 2 + s[2] THEN "Done" ELSE "Methods",
                   nmethods |-> s[2], methods |-> SubSeq(s, 3, Len(s))]
           /\ Len(s) <= 2 + s[2]
  <2>1. Len(s) >= 2 /\ s[1] = Version /\ s[2] > 0 /\ s[2] \in Nat /\ Len(s) \in Nat
    <3>1. 2 \in 1 .. Len(s)
      BY <1>3, LenProperties
    <3> QED BY <1>3, <3>1, ElementOfSeq, LenProperties
  <2>2. p.state = (IF Len(s) = 2 + s[2] THEN "Done" ELSE "Methods")
        /\ p.methods = SubSeq(s, 3, Len(s))
    BY <1>3
  <2>3. Len(s) = 2 + s[2] => Len(s) >= 3
    BY <2>1
  <2> QED BY <2>1, <2>2, <2>3 DEF IsHello
<1>4. CASE /\ Socks5Failed(p)
           /\ Len(s) >= 1 /\ (s[1] # Version \/ (Len(s) >= 2 /\ s[2] = 0))
  BY <1>4 DEF IsHello, Socks5Failed
<1> QED BY <1>1, <1>2, <1>3, <1>4, Zenon DEF HelloKnows

(* The same of the credentials.                                            *)
LEMMA AuthExact ==
    ASSUME NEW s \in Seq(Nat), NEW p, AuthKnows(p, s)
    PROVE  /\ p.state = "Done" <=> IsAuth(s)
           /\ p.state = "Done" => /\ p.uname = SubSeq(s, 3, 2 + s[2])
                                 /\ Len(p.passwd) = p.plen
<1>1. PICK m \in Nat : m = Len(s)
  BY LenProperties
<1>2. CASE s = <<>> /\ p = AuthParserReset
  BY <1>2 DEF IsAuth, AuthParserReset
<1>3. CASE /\ p = [AuthParserReset EXCEPT !.state = "ULen"]
           /\ Len(s) = 1 /\ s[1] = NegotiationVersion
  BY <1>3 DEF IsAuth, AuthParserReset
<1>4. ASSUME NEW n \in Nat \ {0}, AuthNames(p, s, n)
      PROVE  p.state # "Done" /\ ~ IsAuth(s)
  <2>1. p.state # "Done" /\ m <= 2 + n /\ s[2] = n
    BY <1>1, <1>4 DEF AuthNames
  <2>2. ~ (m >= 3 + n)
    BY <2>1
  <2> QED BY <1>1, <2>1, <2>2 DEF IsAuth
<1>5. ASSUME NEW n \in Nat \ {0}, NEW k \in Nat \ {0}, AuthProves(p, s, n, k)
      PROVE  /\ p.state = "Done" <=> IsAuth(s)
             /\ p.state = "Done" => /\ p.uname = SubSeq(s, 3, 2 + s[2])
                                   /\ Len(p.passwd) = p.plen
  <2>1. /\ m >= 3 + n /\ s[1] = NegotiationVersion /\ s[2] = n /\ s[3 + n] = k
        /\ (p.state = "Done") = (m = 3 + n + k)
        /\ p.uname = SubSeq(s, 3, 2 + n) /\ p.plen = k /\ p.passwd = SubSeq(s, 4 + n, Len(s))
    BY <1>1, <1>5 DEF AuthProves
  <2>2. IsAuth(s) <=> m = 3 + n + k
    <3>1. m = 3 + n + k => m >= 5
      OBVIOUS
    <3> QED BY <1>1, <2>1, <3>1 DEF IsAuth
  <2>3. Len(SubSeq(s, 4 + n, Len(s))) = Len(s) - (4 + n) + 1
    <3>1. 4 + n \in 1 .. Len(s) + 1 /\ Len(s) \in (4 + n) - 1 .. Len(s)
      BY <1>1, <2>1
    <3> QED BY <3>1, PartLength
  <2>4. m = 3 + n + k => Len(p.passwd) = k
    BY <1>1, <2>1, <2>3
  <2> QED BY <2>1, <2>2, <2>4
<1>6. CASE Socks5Failed(p) /\ AuthWrong(s)
  <2>1. p.state # "Done"
    BY <1>6 DEF Socks5Failed
  <2>2. ~ IsAuth(s)
    BY <1>1, <1>6 DEF AuthWrong, IsAuth
  <2> QED BY <2>1, <2>2
<1> QED BY <1>2, <1>3, <1>4, <1>5, <1>6 DEF AuthKnows

(* Where the grammar has the address is where the parser has it.           *)
LEMMA AddressFound ==
    ASSUME NEW s \in Seq(Nat), NEW f \in Nat, NEW n \in Nat \ {0}, AddressIs(s, f, n),
           Len(s) >= 5
    PROVE  AddressAt(s)[1] = f /\ AddressAt(s)[2] = f + n - 1
<1>1. V4Length \in Nat /\ V6Length \in Nat /\ IPv4 # IPv6 /\ IPv4 # FQDN /\ IPv6 # FQDN
  BY Socks5ParsersAssumption DEF IPv4, IPv6, FQDN
<1>2. CASE s[4] = IPv4
  <2>1. AddressAt(s) = <<5, 4 + V4Length>>
    BY <1>1, <1>2, Zenon DEF AddressAt
  <2>2. f = 5 /\ n = V4Length
    BY <1>1, <1>2 DEF AddressIs
  <2> QED BY <2>1, <2>2
<1>3. CASE s[4] = IPv6
  <2>1. AddressAt(s) = <<5, 4 + V6Length>>
    BY <1>1, <1>3, Zenon DEF AddressAt
  <2>2. f = 5 /\ n = V6Length
    BY <1>1, <1>3 DEF AddressIs
  <2> QED BY <2>1, <2>2
<1>4. CASE s[4] = FQDN
  <2>1. AddressAt(s) = <<6, IF Len(s) < 5 THEN 5 ELSE 5 + s[5]>>
    BY <1>1, <1>4, Zenon DEF AddressAt
  <2>2. f = 6 /\ s[5] = n /\ ~ (Len(s) < 5)
    BY <1>1, <1>4, LenProperties DEF AddressIs
  <2>3. AddressAt(s) = <<6, 5 + n>>
    BY <2>1, <2>2
  <2> QED BY <2>2, <2>3
<1> QED BY <1>2, <1>3, <1>4 DEF AddressIs

(* The same of the requests.                                               *)
LEMMA RequestExact ==
    ASSUME NEW s \in Seq(Nat), NEW p, RequestKnows(p, s)
    PROVE  /\ p.state = "Done" <=> IsRequest(s)
           /\ p.state = "Done" =>
                /\ p.address = SubSeq(s, AddressAt(s)[1], AddressAt(s)[2])
                /\ p.port = SubSeq(s, Len(s) - 1, Len(s))
<1>1. PICK m \in Nat : m = Len(s)
  BY LenProperties
<1>2. IsRequest(s) => m >= 5
  BY <1>1 DEF IsRequest
<1>3. CASE m < 5 /\ p.state # "Done"
  BY <1>2, <1>3
<1>4. ASSUME NEW f \in Nat \ {0}, NEW n \in Nat \ {0}, RequestAddresses(p, s, f, n)
      PROVE  p.state # "Done" /\ ~ IsRequest(s)
  <2>1. p.state # "Done" /\ m + 1 <= f + n /\ AddressIs(s, f, n)
    BY <1>1, <1>4 DEF RequestAddresses
  <2>2. m >= 5 => AddressAt(s)[2] = f + n - 1
    BY <1>1, <2>1, AddressFound
  <2>3. IsRequest(s) => m = AddressAt(s)[2] + 2
    BY <1>1 DEF IsRequest
  <2> QED BY <1>2, <2>1, <2>2, <2>3
<1>5. ASSUME NEW f \in Nat \ {0}, NEW n \in Nat \ {0}, RequestPorts(p, s, f, n)
      PROVE  /\ p.state = "Done" <=> IsRequest(s)
             /\ p.state = "Done" =>
                  /\ p.address = SubSeq(s, AddressAt(s)[1], AddressAt(s)[2])
                  /\ p.port = SubSeq(s, Len(s) - 1, Len(s))
  <2>1. /\ m >= f + n /\ RequestHeader(s) /\ AddressIs(s, f, n)
        /\ (p.state = "Done") = (m = f + n + 1)
        /\ p.address = SubSeq(s, f, f + n - 1) /\ p.port = SubSeq(s, f + n, Len(s))
    BY <1>1, <1>5 DEF RequestPorts
  <2>2. f >= 5 /\ m >= 5
    BY <2>1 DEF AddressIs
  <2>3. AddressAt(s)[1] = f /\ AddressAt(s)[2] = f + n - 1
    BY <1>1, <2>1, <2>2, AddressFound
  <2>4. IsRequest(s) <=> m = f + n + 1
    BY <1>1, <2>1, <2>2, <2>3, SMTT(60) DEF IsRequest, RequestHeader
  <2>5. m = f + n + 1 => f + n = Len(s) - 1
    BY <1>1
  <2> QED BY <2>1, <2>3, <2>4, <2>5
<1>6. CASE Socks5Failed(p) /\ RequestWrong(s)
  <2>1. p.state # "Done"
    BY <1>6 DEF Socks5Failed
  <2>2. ASSUME m >= 5, s[4] = FQDN, s[5] = 0 PROVE ~ IsRequest(s)
    <3>1. IPv4 # IPv6 /\ IPv4 # FQDN /\ IPv6 # FQDN
      BY DEF IPv4, IPv6, FQDN
    <3>2. AddressAt(s) = <<6, IF Len(s) < 5 THEN 5 ELSE 5 + s[5]>>
      BY <2>2, <3>1, Zenon DEF AddressAt
    <3>3. AddressAt(s) = <<6, 5>>
      BY <1>1, <2>2, <3>2
    <3>4. ~ (AddressAt(s)[2] >= AddressAt(s)[1])
      BY <3>3
    <3> QED BY <3>4 DEF IsRequest
  <2>3. ~ IsRequest(s)
    BY <1>1, <1>6, <2>2 DEF RequestWrong, IsRequest
  <2> QED BY <2>1, <2>3
<1>7. CASE \/ s = <<>> /\ p = RequestParserReset
           \/ /\ Len(s) = 1 /\ s[1] = Version
              /\ p = RequestBegun("CMD", 0, 0)
           \/ /\ Len(s) = 2 /\ s[1] = Version
              /\ p = RequestBegun("RSV", s[2], 0)
           \/ RequestTyping(p, s)
           \/ RequestNaming(p, s)
  <2>1. p.state # "Done"
    BY <1>7 DEF RequestParserReset, RequestBegun, RequestTyping, RequestNaming
  <2>2. Len(s) = 0 \/ Len(s) = 1 \/ Len(s) = 2 \/ Len(s) = 3 \/ Len(s) = 4
    BY <1>7 DEF RequestTyping, RequestNaming
  <2>3. m < 5
    <3>1. m = 0 \/ m = 1 \/ m = 2 \/ m = 3 \/ m = 4
      BY <1>1, <2>2, Zenon
    <3> QED BY <3>1
  <2> QED BY <1>3, <2>1, <2>3
<1> QED BY <1>4, <1>5, <1>6, <1>7 DEF RequestKnows

-------------------------------------------------------------------------------
(* The parser on the stream knows what it should.                          *)
Socks5Inv ==
    /\ kind \in {"hello", "auth", "request"} => input \in Seq(Nat)
    /\ kind = "hello" => HelloKnows(parser, input)
    /\ kind = "auth" => AuthKnows(parser, input)
    /\ kind = "request" => RequestKnows(parser, input)

(* The bytes of SOCKS5 are numbers, whatever set of them is tried.         *)
LEMMA OctetsAreNumbers == \A c \in Octet : c \in Nat
BY Socks5ParsersAssumption

(* Whatever the stream, and wherever the reads cut it, the parser of HELLO, *)
(* of the credentials or of a request is a function of the bytes so far:   *)
(* feed_hello_parser, feed_auth_parser and feed_request_parser remember    *)
(* all of what they were sent and nothing else.                            *)
THEOREM Socks5InvariantHolds == Spec => []Socks5Inv
<1>1. Init => Socks5Inv
  <2> SUFFICES ASSUME Init PROVE Socks5Inv
    OBVIOUS
  <2>1. input = <<>> /\ parser = InitialParser[kind] /\ input \in Seq(Nat)
    BY DEF Init
  <2>2. kind = "hello" => parser = HelloParserReset
    BY <2>1 DEF InitialParser
  <2>3. kind = "auth" => parser = AuthParserReset
    BY <2>1 DEF InitialParser
  <2>4. kind = "request" => parser = RequestParserReset
    BY <2>1 DEF InitialParser
  <2> QED BY <2>1, <2>2, <2>3, <2>4 DEF Socks5Inv, HelloKnows, AuthKnows, RequestKnows
<1>2. Socks5Inv /\ [Next]_vars => Socks5Inv'
  <2> SUFFICES ASSUME Socks5Inv, [Next]_vars PROVE Socks5Inv'
    OBVIOUS
  <2>1. ASSUME NEW c \in LuluByte, FeedLulu(c) PROVE Socks5Inv'
    BY <2>1 DEF FeedLulu, Fed, Socks5Inv
  <2>2. ASSUME NEW c \in Octet, FeedHello(c) PROVE Socks5Inv'
    <3>1. /\ kind = "hello" /\ kind' = kind /\ ~ Socks5Finished(parser)
          /\ input' = Append(input, c) /\ parser' = HelloParserFeed(parser, c)
      BY <2>2 DEF FeedHello, Fed
    <3>2. input \in Seq(Nat) /\ HelloKnows(parser, input) /\ c \in Nat
      BY <3>1, OctetsAreNumbers DEF Socks5Inv
    <3>3. HelloKnows(parser', input')
      BY <3>1, <3>2, HelloFed
    <3>4. input' \in Seq(Nat)
      BY <3>1, <3>2, AppendProperties
    <3> QED BY <3>1, <3>3, <3>4 DEF Socks5Inv
  <2>3. ASSUME NEW c \in Octet, FeedAuth(c) PROVE Socks5Inv'
    <3>1. /\ kind = "auth" /\ kind' = kind /\ ~ Socks5Finished(parser)
          /\ input' = Append(input, c) /\ parser' = AuthParserFeed(parser, c)
      BY <2>3 DEF FeedAuth, Fed
    <3>2. input \in Seq(Nat) /\ AuthKnows(parser, input) /\ c \in Nat
      BY <3>1, OctetsAreNumbers DEF Socks5Inv
    <3>3. AuthKnows(parser', input')
      BY <3>1, <3>2, AuthFed
    <3>4. input' \in Seq(Nat)
      BY <3>1, <3>2, AppendProperties
    <3> QED BY <3>1, <3>3, <3>4 DEF Socks5Inv
  <2>4. ASSUME NEW c \in Octet, FeedRequest(c) PROVE Socks5Inv'
    <3>1. /\ kind = "request" /\ kind' = kind /\ ~ Socks5Finished(parser)
          /\ input' = Append(input, c) /\ parser' = RequestParserFeed(parser, c)
      BY <2>4 DEF FeedRequest, Fed
    <3>2. input \in Seq(Nat) /\ RequestKnows(parser, input) /\ c \in Nat
      BY <3>1, OctetsAreNumbers DEF Socks5Inv
    <3>3. RequestKnows(parser', input')
      BY <3>1, <3>2, RequestFed
    <3>4. input' \in Seq(Nat)
      BY <3>1, <3>2, AppendProperties
    <3> QED BY <3>1, <3>3, <3>4 DEF Socks5Inv
  <2>5. CASE FeedPop3
    BY <2>5 DEF FeedPop3, Fed, Socks5Inv
  <2>6. CASE EndChunk
    BY <2>6 DEF EndChunk, Socks5Inv
  <2>7. CASE UNCHANGED vars
    BY <2>7 DEF vars, Socks5Inv
  <2> QED BY <2>1, <2>2, <2>3, <2>4, <2>5, <2>6, <2>7 DEF Next
<1> QED BY <1>1, <1>2, PTL DEF Spec

(* Every parser of SOCKS5 ends with the last byte of its message and not   *)
(* before, and has the fields as they were sent: for every length of the   *)
(* literal addresses and however long the streams.                         *)
THEOREM MessagesAreExact == Spec => []MessagesExact
<1>1. Socks5Inv => MessagesExact
  <2> SUFFICES ASSUME Socks5Inv PROVE MessagesExact
    OBVIOUS
  <2>1. ASSUME kind = "hello"
        PROVE  /\ parser.state = "Done" <=> IsHello(input)
               /\ parser.state = "Done" => parser.methods = SubSeq(input, 3, Len(input))
    BY <2>1, HelloExact DEF Socks5Inv
  <2>2. ASSUME kind = "auth"
        PROVE  /\ parser.state = "Done" <=> IsAuth(input)
               /\ parser.state = "Done" => /\ parser.uname = SubSeq(input, 3, 2 + input[2])
                                          /\ Len(parser.passwd) = parser.plen
    BY <2>2, AuthExact DEF Socks5Inv
  <2>3. ASSUME kind = "request"
        PROVE  /\ parser.state = "Done" <=> IsRequest(input)
               /\ parser.state = "Done" =>
                    /\ parser.address = SubSeq(input, AddressAt(input)[1], AddressAt(input)[2])
                    /\ parser.port = SubSeq(input, Len(input) - 1, Len(input))
    BY <2>3, RequestExact DEF Socks5Inv
  <2> QED BY <2>1, <2>2, <2>3 DEF MessagesExact
<1> QED BY <1>1, Socks5InvariantHolds, PTL

-------------------------------------------------------------------------------
(* The parsers of lulu and the lengths of their names and passwords, which *)
(* are at most one byte longer than the arrays.                            *)
Fits(p) == Len(p.name) <= MaxLong + 1 /\ Len(p.pass) <= MaxLong + 1

(* What a byte does: the parser stays one, and unless a \r is followed by  *)
(* something else it never has more than a byte too many and waits for a   *)
(* \n only just after a \r.                                                *)
LuluStep(p, c, q) ==
    /\ q \in Parser
    /\ Fits(p) /\ (p.state = "CRLF" => c = LF) =>
          q.state # "Overrun" /\ Fits(q) /\ (q.state = "CRLF" => c = CR)

ParserStates == {"First", "Second", "Value", "Name", "Password", "CRLF", "Finished",
                 "Invalid", "Overrun"}

(* A parser that goes to another state and leaves the rest as it is.       *)
LEMMA Goes ==
    ASSUME NEW p \in Parser, NEW state \in ParserStates
    PROVE  /\ To(p, state) \in Parser /\ To(p, state).state = state
           /\ To(p, state).name = p.name /\ To(p, state).pass = p.pass
           /\ To(p, state).prev = p.prev
BY DEF To, Parser, ParserStates

(* Going to another state stores nothing, so it is a step as it should be.  *)
LEMMA GoesStep ==
    ASSUME NEW p \in Parser, NEW c \in LuluByte,
           NEW state \in ParserStates \ {"Overrun"}, state = "CRLF" => c = CR
    PROVE  LuluStep(p, c, To(p, state))
<1>1. PICK q : q = To(p, state)
  OBVIOUS
<1>2. q \in Parser /\ q.state = state /\ q.name = p.name /\ q.pass = p.pass
  BY <1>1, Goes
<1>3. state # "Overrun"
  OBVIOUS
<1> QED BY <1>1, <1>2, <1>3 DEF LuluStep, Fits

(* In particular, giving up is.                                            *)
LEMMA InvalidStep ==
    ASSUME NEW p \in Parser, NEW c \in LuluByte
    PROVE  LuluStep(p, c, Invalid(p))
<1>1. "Invalid" \in ParserStates \ {"Overrun"} /\ "Invalid" # "CRLF"
  BY DEF ParserStates
<1> QED BY <1>1, GoesStep DEF Invalid

(* A byte of a word, or behind one.                                        *)
LEMMA TraverseStep ==
    ASSUME NEW p \in Parser, NEW c \in LuluByte, NEW word, NEW end,
           NEW next \in ParserStates \ {"Overrun"}, next = "CRLF" => end = CR,
           p.state # "CRLF", p.state # "Overrun"
    PROVE  LuluStep(p, c, Traverse(p, c, word, end, next))
<1>1. PICK q : q = Traverse(p, c, word, end, next)
  OBVIOUS
<1>2. CASE q = [p EXCEPT !.state = next, !.at = 0] /\ c = end
  <2>1. q \in Parser /\ q.state = next /\ q.name = p.name /\ q.pass = p.pass
    BY <1>2 DEF Parser, ParserStates
  <2> QED BY <1>1, <1>2, <2>1 DEF LuluStep, Fits
<1>3. CASE q = [p EXCEPT !.at = @ + 1]
  <2>1. q \in Parser /\ q.state = p.state /\ q.name = p.name /\ q.pass = p.pass
    BY <1>3 DEF Parser
  <2> QED BY <1>1, <2>1 DEF LuluStep, Fits
<1>4. CASE q = Invalid(p)
  BY <1>1, <1>4, InvalidStep
<1> QED BY <1>1, <1>2, <1>3, <1>4, Zenon DEF Traverse

(* The \n that ends a line without names.                                  *)
LEMMA LineFeedStep ==
    ASSUME NEW p \in Parser, NEW c \in LuluByte
    PROVE  LuluStep(p, c, LineFeed(p, c))
<1>1. (IF c = LF THEN "Finished" ELSE "Invalid") \in ParserStates \ {"Overrun"}
      /\ (IF c = LF THEN "Finished" ELSE "Invalid") # "CRLF"
  BY DEF ParserStates
<1> QED BY <1>1, GoesStep DEF LineFeed

(* A digit of a number.                                                    *)
LEMMA NextDigitStep ==
    ASSUME NEW p \in Parser, NEW c \in Digit, p.state = "Value"
    PROVE  LuluStep(p, c, NextDigit(p, c))
<1>1. PICK value : value = p.value * 10 + DigitValue[c]
  OBVIOUS
<1>2. value \in Nat
  <2>1. p.value \in Nat /\ DigitValue[c] \in 0 .. 9
    BY LuluParsersAssumption DEF Parser, Digit
  <2> QED BY <1>1, <2>1
<1>3. PICK state : state = IF value > MaxValue THEN "Invalid" ELSE p.state
  OBVIOUS
<1>4. state \in {"Invalid", "Value"}
  BY <1>3
<1>5. PICK q : q = [p EXCEPT !.value = value, !.state = state]
  OBVIOUS
<1>6. q = NextDigit(p, c)
  BY <1>1, <1>3, <1>5 DEF NextDigit
<1>7. q \in Parser /\ q.state = state /\ q.name = p.name /\ q.pass = p.pass
  BY <1>2, <1>4, <1>5 DEF Parser
<1> QED BY <1>4, <1>6, <1>7 DEF LuluStep, Fits

-------------------------------------------------------------------------------
(* What a name or a password is made of.                                   *)
Stuff == LuluByte \ {Bar}

(* One byte stored where it is not full in the sense of the code.          *)
LEMMA StoreKeeps ==
    ASSUME NEW p \in Parser, NEW field, NEW x \in Seq(Stuff)
    PROVE  /\ Store(p, field, x) \in Parser
           /\ Len(x) = 1 /\ Fits(p) /\ ~ Full(p, field) =>
                 Store(p, field, x).state = p.state /\ Fits(Store(p, field, x))
<1>1. PICK stored : stored = Stored(p, field) \o x
  OBVIOUS
<1>2. PICK q : q = Store(p, field, x)
  OBVIOUS
<1>3. p.name \in Seq(Stuff) /\ p.pass \in Seq(Stuff)
  BY DEF Parser, Stuff
<1>4. Stored(p, field) \in Seq(Stuff)
  BY <1>3 DEF Stored
<1>5. stored \in Seq(Stuff) /\ Len(stored) = Len(Stored(p, field)) + Len(x)
  BY <1>1, <1>4, ConcatProperties
<1>6. MaxLong \in Nat
  BY LuluParsersAssumption
<1>7. CASE Len(stored) > MaxLong + 1
  <2>1. q = To(p, "Overrun")
    BY <1>1, <1>2, <1>7 DEF Store
  <2>2. q \in Parser
    BY <2>1, Goes DEF ParserStates
  <2>3. ~ (Len(x) = 1 /\ Fits(p) /\ ~ Full(p, field))
    <3>1. SUFFICES ASSUME Len(x) = 1, Fits(p), ~ Full(p, field) PROVE FALSE
      OBVIOUS
    <3>2. Len(Stored(p, field)) <= MaxLong + 1 /\ Len(Stored(p, field)) # MaxLong + 1
      BY <3>1 DEF Fits, Full, Stored
    <3>3. PICK l \in Nat : l = Len(Stored(p, field))
      BY <1>4, LenProperties
    <3> QED BY <1>5, <1>6, <1>7, <3>1, <3>2, <3>3
  <2> QED BY <1>2, <2>2, <2>3
<1>8. CASE ~ (Len(stored) > MaxLong + 1) /\ field = "Name"
  <2>1. q = [p EXCEPT !.name = stored]
    BY <1>1, <1>2, <1>8 DEF Store
  <2>2. q \in Parser /\ q.state = p.state /\ q.name = stored /\ q.pass = p.pass
    BY <1>5, <2>1 DEF Parser, Stuff
  <2>3. Len(stored) <= MaxLong + 1
    BY <1>5, <1>6, <1>8, LenProperties
  <2> QED BY <1>2, <2>2, <2>3 DEF Fits
<1>9. CASE ~ (Len(stored) > MaxLong + 1) /\ field # "Name"
  <2>1. q = [p EXCEPT !.pass = stored]
    BY <1>1, <1>2, <1>9 DEF Store
  <2>2. q \in Parser /\ q.state = p.state /\ q.pass = stored /\ q.name = p.name
    BY <1>5, <2>1 DEF Parser, Stuff
  <2>3. Len(stored) <= MaxLong + 1
    BY <1>5, <1>6, <1>9, LenProperties
  <2> QED BY <1>2, <2>2, <2>3 DEF Fits
<1> QED BY <1>7, <1>8, <1>9

(* The three bytes with a meaning are different, and of them only the bar  *)
(* is never stored.                                                        *)
LEMMA StuffBytes ==
    /\ CR \in Stuff
    /\ \A c \in LuluByte : c # Bar => c \in Stuff
    /\ CR \in LuluByte /\ LF \in LuluByte /\ Bar \in LuluByte
    /\ CR # LF /\ CR # Bar /\ LF # Bar
BY DEF Stuff, LuluByte, CR, LF, Bar

(* A byte of a name or password.                                           *)
LEMMA ContentStep ==
    ASSUME NEW p \in Parser, NEW c \in LuluByte, NEW field \in {"Name", "Password"},
           c # Bar, p.state \in {"Name", "Password"}
    PROVE  LuluStep(p, c, Content(p, c, field))
<1>1. PICK q : q = Content(p, c, field)
  OBVIOUS
<1>2. CASE Full(p, field)
  BY <1>2, InvalidStep DEF Content
<1>3. CASE ~ Full(p, field)
  <2>1. q = Store(p, field, <<c>>)
    BY <1>1, <1>3 DEF Content
  <2>2. <<c>> \in Seq(Stuff) /\ Len(<<c>>) = 1
    BY StuffBytes
  <2>3. q \in Parser /\ (Fits(p) => q.state = p.state /\ Fits(q))
    BY <1>3, <2>1, <2>2, StoreKeeps
  <2> QED BY <1>1, <2>3 DEF LuluStep
<1> QED BY <1>2, <1>3

(* The \r that may end a name or a password.                               *)
LEMMA ReturnStep ==
    ASSUME NEW p \in Parser, NEW field \in {"Name", "Password"}
    PROVE  LuluStep(p, CR, Return(p, field))
<1>1. PICK q : q = Return(p, field)
  OBVIOUS
<1>2. q \in Parser /\ q.state = "CRLF" /\ q.name = p.name /\ q.pass = p.pass
  BY <1>1 DEF Return, Parser
<1> QED BY <1>1, <1>2 DEF LuluStep, Fits

(* Any byte of a name or a password.                                       *)
LEMMA NameOrPasswordStep ==
    ASSUME NEW p \in Parser, NEW c \in LuluByte, p.state \in {"Name", "Password"}
    PROVE  LuluStep(p, c, NameOrPassword(p, c, p.state))
<1>1. PICK q : q = NameOrPassword(p, c, p.state)
  OBVIOUS
<1>2. PICK field \in {"Name", "Password"} : field = p.state
  OBVIOUS
<1>3. CASE c = Bar
  <2>1. q = To(p, "Password") \/ q = Invalid(p)
    BY <1>1, <1>3, StuffBytes, Zenon DEF NameOrPassword
  <2>2. LuluStep(p, c, To(p, "Password"))
    BY GoesStep DEF ParserStates
  <2> QED BY <1>1, <2>1, <2>2, InvalidStep
<1>4. CASE c = CR
  <2>1. q = Return(p, field)
    BY <1>1, <1>2, <1>4, StuffBytes, Zenon DEF NameOrPassword
  <2> QED BY <1>1, <1>4, <2>1, ReturnStep
<1>5. CASE c # Bar /\ c # CR
  <2>1. q = Content(p, c, field)
    BY <1>1, <1>2, <1>5, Zenon DEF NameOrPassword
  <2> QED BY <1>1, <1>5, <2>1, ContentStep
<1> QED BY <1>3, <1>4, <1>5

(* The byte behind a \r in a name or password.                             *)
LEMMA AfterReturnStep ==
    ASSUME NEW p \in Parser, NEW c \in LuluByte, NEW full \in BOOLEAN, p.state = "CRLF"
    PROVE  LuluStep(p, c, AfterReturn(p, c, full))
<1>1. PICK q : q = AfterReturn(p, c, full)
  OBVIOUS
<1>2. CASE c = LF
  <2>1. q = EndOfLine(p)
    BY <1>1, <1>2, StuffBytes, Zenon DEF AfterReturn
  <2>2. q = To(p, "Finished") \/ q = Invalid(p)
    BY <2>1 DEF EndOfLine
  <2>3. LuluStep(p, c, To(p, "Finished"))
    BY GoesStep DEF ParserStates
  <2> QED BY <1>1, <2>2, <2>3, InvalidStep
<1>3. CASE c # LF
  <2>1. SUFFICES q \in Parser
    BY <1>1, <1>3 DEF LuluStep
  <2>2. Invalid(p) \in Parser
    BY Goes DEF Invalid, ParserStates
  <2>3. <<CR>> \in Seq(Stuff)
    BY StuffBytes
  <2>4. Store(p, p.prev, <<CR>>) \in Parser /\ Store(p, "Name", <<CR>>) \in Parser
    BY <2>3, StoreKeeps
  <2>5. CASE c = CR
    <3>1. q = Invalid(p) \/ q = Store(p, p.prev, <<CR>>)
      BY <1>1, <1>3, <2>5, StuffBytes, Zenon DEF AfterReturn
    <3> QED BY <2>2, <2>4, <3>1
  <2>6. CASE c = Bar
    <3>1. q = BarAfterReturn(p)
      BY <1>1, <1>3, <2>6, StuffBytes, Zenon DEF AfterReturn
    <3>2. To(Store(p, "Name", <<CR>>), "Password") \in Parser
      BY <2>4, Goes DEF ParserStates
    <3> QED BY <2>2, <3>1, <3>2 DEF BarAfterReturn
  <2>7. CASE c # CR /\ c # Bar
    <3>1. q = Invalid(p) \/ q = Store(To(p, p.prev), p.prev, <<CR, c>>)
      BY <1>1, <1>3, <2>7, Zenon DEF AfterReturn
    <3>2. p.prev \in ParserStates
      BY DEF Parser, ParserStates
    <3>3. To(p, p.prev) \in Parser
      BY <3>2, Goes
    <3>4. <<CR, c>> \in Seq(Stuff)
      <4>1. CR \in Stuff /\ c \in Stuff
        BY <2>7, StuffBytes
      <4> QED BY <4>1
    <3>5. Store(To(p, p.prev), p.prev, <<CR, c>>) \in Parser
      BY <3>3, <3>4, StoreKeeps
    <3> QED BY <2>2, <3>1, <3>5
  <2> QED BY <2>5, <2>6, <2>7
<1> QED BY <1>2, <1>3

-------------------------------------------------------------------------------
(* The parsers of the commands, one by one: what each does with the bytes  *)
(* behind its end, then the parsers.                                       *)
LEMMA IdleStep ==
    ASSUME NEW p \in Parser, NEW c, p.state # "Overrun", p.state # "CRLF"
    PROVE  LuluStep(p, c, p)
BY DEF LuluStep

(* METRICS, LIST USERS, GET BUFFERSIZE and GET TIMEOUT.                    *)
LEMMA TwoWordsStep ==
    ASSUME NEW p \in Parser, NEW c \in LuluByte, NEW first, NEW second,
           p.state # "Overrun"
    PROVE  LuluStep(p, c, TwoWords(p, c, first, second))
<1>1. CASE p.state = "First"
  <2>1. TwoWords(p, c, first, second) = Traverse(p, c, first, Bar, "Second")
    BY <1>1, Zenon DEF TwoWords
  <2>2. "Second" \in ParserStates \ {"Overrun"} /\ "Second" # "CRLF" /\ p.state # "CRLF"
    BY <1>1 DEF ParserStates
  <2> QED BY <2>1, <2>2, TraverseStep
<1>2. CASE p.state = "Second"
  <2>1. TwoWords(p, c, first, second) = Traverse(p, c, second, CR, "CRLF")
    BY <1>2, Zenon DEF TwoWords
  <2>2. "CRLF" \in ParserStates \ {"Overrun"} /\ p.state # "CRLF"
    BY <1>2 DEF ParserStates
  <2> QED BY <2>1, <2>2, TraverseStep
<1>3. CASE p.state = "CRLF"
  <2>1. TwoWords(p, c, first, second) = LineFeed(p, c)
    BY <1>3, Zenon DEF TwoWords
  <2> QED BY <2>1, LineFeedStep
<1>4. CASE p.state \notin {"First", "Second", "CRLF"}
  <2>1. TwoWords(p, c, first, second) = p
    BY <1>4, Zenon DEF TwoWords
  <2> QED BY <1>4, <2>1, IdleStep
<1> QED BY <1>1, <1>2, <1>3, <1>4

(* GOODBYE.                                                                *)
LEMMA GoodbyeStep ==
    ASSUME NEW p \in Parser, NEW c \in LuluByte, p.state # "Overrun"
    PROVE  LuluStep(p, c, GoodbyeFeed(p, c))
<1>1. CASE p.state = "First"
  <2>1. GoodbyeFeed(p, c) = Traverse(p, c, "GOODBYE", CR, "CRLF")
    BY <1>1, Zenon DEF GoodbyeFeed
  <2>2. "CRLF" \in ParserStates \ {"Overrun"} /\ p.state # "CRLF"
    BY <1>1 DEF ParserStates
  <2> QED BY <2>1, <2>2, TraverseStep
<1>2. CASE p.state = "CRLF"
  <2>1. GoodbyeFeed(p, c) = LineFeed(p, c)
    BY <1>2, Zenon DEF GoodbyeFeed
  <2> QED BY <2>1, LineFeedStep
<1>3. CASE p.state \notin {"First", "CRLF"}
  <2>1. GoodbyeFeed(p, c) = p
    BY <1>3, Zenon DEF GoodbyeFeed
  <2> QED BY <1>3, <2>1, IdleStep
<1> QED BY <1>1, <1>2, <1>3

(* SET BUFFERSIZE and SET TIMEOUT.                                         *)
LEMMA SetValueStep ==
    ASSUME NEW p \in Parser, NEW c \in LuluByte, NEW second, p.state # "Overrun"
    PROVE  LuluStep(p, c, SetValue(p, c, second))
<1>1. CASE p.state = "First"
  <2>1. SetValue(p, c, second) = Traverse(p, c, "SET", Bar, "Second")
    BY <1>1, Zenon DEF SetValue
  <2>2. "Second" \in ParserStates \ {"Overrun"} /\ "Second" # "CRLF" /\ p.state # "CRLF"
    BY <1>1 DEF ParserStates
  <2> QED BY <2>1, <2>2, TraverseStep
<1>2. CASE p.state = "Second"
  <2>1. SetValue(p, c, second) = Traverse(p, c, second, Bar, "Value")
    BY <1>2, Zenon DEF SetValue
  <2>2. "Value" \in ParserStates \ {"Overrun"} /\ "Value" # "CRLF" /\ p.state # "CRLF"
    BY <1>2 DEF ParserStates
  <2> QED BY <2>1, <2>2, TraverseStep
<1>3. CASE p.state = "Value" /\ c \in Digit
  <2>1. SetValue(p, c, second) = NextDigit(p, c)
    BY <1>3, Zenon DEF SetValue
  <2> QED BY <1>3, <2>1, NextDigitStep
<1>4. CASE p.state = "Value" /\ c \notin Digit
  <2>1. SetValue(p, c, second) = To(p, IF c = CR THEN "CRLF" ELSE "Invalid")
    BY <1>4, Zenon DEF SetValue
  <2>2. PICK state : state = IF c = CR THEN "CRLF" ELSE "Invalid"
    OBVIOUS
  <2>3. state \in ParserStates \ {"Overrun"} /\ (state = "CRLF" => c = CR)
    BY <2>2 DEF ParserStates
  <2> QED BY <2>1, <2>2, <2>3, GoesStep
<1>5. CASE p.state = "CRLF"
  <2>1. SetValue(p, c, second) = LineFeed(p, c)
    BY <1>5, Zenon DEF SetValue
  <2> QED BY <2>1, LineFeedStep
<1>6. CASE p.state \notin {"First", "Second", "Value", "CRLF"}
  <2>1. SetValue(p, c, second) = p
    BY <1>6, Zenon DEF SetValue
  <2> QED BY <1>6, <2>1, IdleStep
<1> QED BY <1>1, <1>2, <1>3, <1>4, <1>5, <1>6

(* HELLO.                                                                  *)
LEMMA HelloStep ==
    ASSUME NEW p \in Parser, NEW c \in LuluByte, p.state # "Overrun"
    PROVE  LuluStep(p, c, HelloFeed(p, c))
<1>1. CASE p.state = "First"
  <2>1. HelloFeed(p, c) = Traverse(p, c, "HELLO", Bar, "Name")
    BY <1>1, Zenon DEF HelloFeed
  <2>2. "Name" \in ParserStates \ {"Overrun"} /\ "Name" # "CRLF" /\ p.state # "CRLF"
    BY <1>1 DEF ParserStates
  <2> QED BY <2>1, <2>2, TraverseStep
<1>2. CASE p.state \in {"Name", "Password"}
  <2>1. HelloFeed(p, c) = NameOrPassword(p, c, p.state)
    BY <1>2, Zenon DEF HelloFeed
  <2> QED BY <1>2, <2>1, NameOrPasswordStep
<1>3. CASE p.state = "CRLF"
  <2>1. PICK full : full = (Len(Stored(p, p.prev)) = MaxLong)
    OBVIOUS
  <2>2. full \in BOOLEAN
    BY <2>1
  <2>3. HelloFeed(p, c) = AfterReturn(p, c, Len(Stored(p, p.prev)) = MaxLong)
    BY <1>3, Zenon DEF HelloFeed
  <2> QED BY <1>3, <2>1, <2>2, <2>3, AfterReturnStep
<1>4. CASE p.state \notin {"First", "Name", "Password", "CRLF"}
  <2>1. HelloFeed(p, c) = p
    BY <1>4, Zenon DEF HelloFeed
  <2> QED BY <1>4, <2>1, IdleStep
<1> QED BY <1>1, <1>2, <1>3, <1>4

(* SET USER.                                                               *)
LEMMA SetUserStep ==
    ASSUME NEW p \in Parser, NEW c \in LuluByte, p.state # "Overrun"
    PROVE  LuluStep(p, c, SetUserFeed(p, c))
<1>1. CASE p.state = "First"
  <2>1. SetUserFeed(p, c) = Traverse(p, c, "SET", Bar, "Second")
    BY <1>1, Zenon DEF SetUserFeed
  <2>2. "Second" \in ParserStates \ {"Overrun"} /\ "Second" # "CRLF" /\ p.state # "CRLF"
    BY <1>1 DEF ParserStates
  <2> QED BY <2>1, <2>2, TraverseStep
<1>2. CASE p.state = "Second"
  <2>1. SetUserFeed(p, c) = Traverse(p, c, "USER", Bar, "Name")
    BY <1>2, Zenon DEF SetUserFeed
  <2>2. "Name" \in ParserStates \ {"Overrun"} /\ "Name" # "CRLF" /\ p.state # "CRLF"
    BY <1>2 DEF ParserStates
  <2> QED BY <2>1, <2>2, TraverseStep
<1>3. CASE p.state \in {"Name", "Password"}
  <2>1. SetUserFeed(p, c) = NameOrPassword(p, c, p.state)
    BY <1>3, Zenon DEF SetUserFeed
  <2> QED BY <1>3, <2>1, NameOrPasswordStep
<1>4. CASE p.state = "CRLF"
  <2>1. SetUserFeed(p, c) = AfterReturn(p, c, Full(p, p.prev))
    BY <1>4, Zenon DEF SetUserFeed
  <2>2. Full(p, p.prev) \in BOOLEAN
    BY DEF Full
  <2> QED BY <1>4, <2>1, <2>2, AfterReturnStep
<1>5. CASE p.state \notin {"First", "Second", "Name", "Password", "CRLF"}
  <2>1. SetUserFeed(p, c) = p
    BY <1>5, Zenon DEF SetUserFeed
  <2> QED BY <1>5, <2>1, IdleStep
<1> QED BY <1>1, <1>2, <1>3, <1>4, <1>5

(* DEL USER.                                                               *)
LEMMA DelUserStep ==
    ASSUME NEW p \in Parser, NEW c \in LuluByte, p.state # "Overrun"
    PROVE  LuluStep(p, c, DelUserFeed(p, c))
<1>1. CASE p.state = "First"
  <2>1. DelUserFeed(p, c) = Traverse(p, c, "DEL", Bar, "Second")
    BY <1>1, Zenon DEF DelUserFeed
  <2>2. "Second" \in ParserStates \ {"Overrun"} /\ "Second" # "CRLF" /\ p.state # "CRLF"
    BY <1>1 DEF ParserStates
  <2> QED BY <2>1, <2>2, TraverseStep
<1>2. CASE p.state = "Second"
  <2>1. DelUserFeed(p, c) = Traverse(p, c, "USER", Bar, "Name")
    BY <1>2, Zenon DEF DelUserFeed
  <2>2. "Name" \in ParserStates \ {"Overrun"} /\ "Name" # "CRLF" /\ p.state # "CRLF"
    BY <1>2 DEF ParserStates
  <2> QED BY <2>1, <2>2, TraverseStep
<1>3. CASE p.state = "Name"
  <2>1. DelUserFeed(p, c) = CASE c = Bar -> Invalid(p)
                              [] c = CR  -> Return(p, "Name")
                              [] OTHER   -> Content(p, c, "Name")
    BY <1>3, Zenon DEF DelUserFeed
  <2>2. CASE c = Bar
    <3>1. DelUserFeed(p, c) = Invalid(p)
      BY <2>1, <2>2, StuffBytes, Zenon
    <3> QED BY <3>1, InvalidStep
  <2>3. CASE c = CR
    <3>1. DelUserFeed(p, c) = Return(p, "Name")
      BY <2>1, <2>3, StuffBytes, Zenon
    <3> QED BY <2>3, <3>1, ReturnStep
  <2>4. CASE c # Bar /\ c # CR
    <3>1. DelUserFeed(p, c) = Content(p, c, "Name")
      BY <2>1, <2>4, Zenon
    <3> QED BY <1>3, <2>4, <3>1, ContentStep
  <2> QED BY <2>2, <2>3, <2>4
<1>4. CASE p.state = "CRLF"
  <2>1. DelUserFeed(p, c) =
            CASE c = LF  -> To(p, IF p.name = <<>> THEN "Invalid" ELSE "Finished")
              [] c = Bar -> Invalid(p)
              [] c = CR  -> IF Full(p, "Name") THEN Invalid(p) ELSE Store(p, "Name", <<CR>>)
              [] OTHER   -> IF Len(p.name) = MaxLong THEN Invalid(p)
                            ELSE Store(To(p, "Name"), "Name", <<CR, c>>)
    BY <1>4, Zenon DEF DelUserFeed
  <2>2. Invalid(p) \in Parser
    BY Goes DEF Invalid, ParserStates
  <2>3. CASE c = LF
    <3>1. DelUserFeed(p, c) = To(p, IF p.name = <<>> THEN "Invalid" ELSE "Finished")
      BY <2>1, <2>3, StuffBytes, Zenon
    <3>2. PICK state : state = IF p.name = <<>> THEN "Invalid" ELSE "Finished"
      OBVIOUS
    <3>3. state \in ParserStates \ {"Overrun"} /\ (state = "CRLF" => c = CR)
      BY <3>2 DEF ParserStates
    <3> QED BY <3>1, <3>2, <3>3, GoesStep
  <2>4. CASE c = Bar
    <3>1. DelUserFeed(p, c) = Invalid(p)
      BY <2>1, <2>4, StuffBytes, Zenon
    <3> QED BY <3>1, InvalidStep
  <2>5. CASE c = CR
    <3>1. DelUserFeed(p, c) = Invalid(p) \/ DelUserFeed(p, c) = Store(p, "Name", <<CR>>)
      BY <2>1, <2>5, StuffBytes, Zenon
    <3>2. <<CR>> \in Seq(Stuff)
      BY StuffBytes
    <3>3. DelUserFeed(p, c) \in Parser
      BY <2>2, <3>1, <3>2, StoreKeeps
    <3>4. c # LF
      BY <2>5, StuffBytes
    <3> QED BY <1>4, <3>3, <3>4 DEF LuluStep
  <2>6. CASE c # LF /\ c # Bar /\ c # CR
    <3>1. \/ DelUserFeed(p, c) = Invalid(p)
          \/ DelUserFeed(p, c) = Store(To(p, "Name"), "Name", <<CR, c>>)
      BY <2>1, <2>6, Zenon
    <3>2. <<CR, c>> \in Seq(Stuff)
      <4>1. CR \in Stuff /\ c \in Stuff
        BY <2>6, StuffBytes
      <4> QED BY <4>1
    <3>3. To(p, "Name") \in Parser
      BY Goes DEF ParserStates
    <3>4. Store(To(p, "Name"), "Name", <<CR, c>>) \in Parser
      BY <3>2, <3>3, StoreKeeps
    <3> QED BY <1>4, <2>2, <2>6, <3>1, <3>4 DEF LuluStep
  <2> QED BY <2>3, <2>4, <2>5, <2>6
<1>5. CASE p.state \notin {"First", "Second", "Name", "CRLF"}
  <2>1. DelUserFeed(p, c) = p
    BY <1>5, Zenon DEF DelUserFeed
  <2> QED BY <1>5, <2>1, IdleStep
<1> QED BY <1>1, <1>2, <1>3, <1>4, <1>5

(* And of them all.                                                        *)
LEMMA FeedStep ==
    ASSUME NEW k \in Command, NEW p \in Parser, NEW c \in LuluByte, p.state # "Overrun"
    PROVE  LuluStep(p, c, Feed(k, p, c))
<1>1. CASE k = "HELLO"
  BY <1>1, HelloStep, Zenon DEF Feed
<1>2. CASE k = "GOODBYE"
  BY <1>2, GoodbyeStep, Zenon DEF Feed
<1>3. CASE k = "SET BUFFERSIZE"
  BY <1>3, SetValueStep, Zenon DEF Feed, SetBufferSizeFeed
<1>4. CASE k = "METRICS"
  BY <1>4, TwoWordsStep, Zenon DEF Feed, MetricsFeed
<1>5. CASE k = "GET BUFFERSIZE"
  BY <1>5, TwoWordsStep, Zenon DEF Feed, GetBufferSizeFeed
<1>6. CASE k = "SET TIMEOUT"
  BY <1>6, SetValueStep, Zenon DEF Feed, TimeoutFeed
<1>7. CASE k = "SET USER"
  BY <1>7, SetUserStep, Zenon DEF Feed
<1>8. CASE k = "LIST USERS"
  BY <1>8, TwoWordsStep, Zenon DEF Feed, ListUsersFeed
<1>9. CASE k = "DEL USER"
  BY <1>9, DelUserStep, Zenon DEF Feed
<1>10. CASE k = "GET TIMEOUT"
  BY <1>10, TwoWordsStep, Zenon DEF Feed, GetTimeoutFeed
<1> QED BY <1>1, <1>2, <1>3, <1>4, <1>5, <1>6, <1>7, <1>8, <1>9, <1>10 DEF Command

-------------------------------------------------------------------------------
(* On a stream without a \r that no \n follows, no parser has more than a  *)
(* byte too many, and one that waits for a \n has just had its \r.         *)
StrayReturn(s) == \E i \in 1 .. Len(s) - 1 : s[i] = CR /\ s[i + 1] # LF

LuluInv ==
    kind = "lulu" =>
        /\ input \in Seq(LuluByte)
        /\ parser \in [Command -> Parser]
        /\ \A k \in Command :
             ~ StrayReturn(input) =>
                /\ parser[k].state # "Overrun" /\ Fits(parser[k])
                /\ parser[k].state = "CRLF" => /\ Len(input) >= 1
                                              /\ input[Len(input)] = CR

(* A byte more makes no stray return good.                                 *)
LEMMA StrayStays ==
    ASSUME NEW s \in Seq(LuluByte), NEW c \in LuluByte, ~ StrayReturn(Append(s, c))
    PROVE  /\ ~ StrayReturn(s)
           /\ Len(s) >= 1 /\ s[Len(s)] = CR => c = LF
<1>1. PICK t : t = Append(s, c)
  OBVIOUS
<1>2. PICK m : m = Len(s)
  OBVIOUS
<1>3. m \in Nat /\ Len(t) = m + 1 /\ t[m + 1] = c /\ \A i \in 1 .. m : t[i] = s[i]
  BY <1>1, <1>2, AppendProperties, LenProperties
<1>4. \A i \in 1 .. m : t[i] = CR => t[i + 1] = LF
  BY <1>1, <1>3 DEF StrayReturn
<1>5. ~ StrayReturn(s)
  <2> SUFFICES ASSUME NEW i \in 1 .. m - 1, s[i] = CR PROVE s[i + 1] = LF
    BY <1>2 DEF StrayReturn
  <2>1. i \in 1 .. m /\ i + 1 \in 1 .. m
    BY <1>3
  <2> QED BY <1>3, <1>4, <2>1
<1>6. ASSUME m >= 1, s[m] = CR PROVE c = LF
  <2>1. m \in 1 .. m
    BY <1>3, <1>6
  <2> QED BY <1>3, <1>4, <1>6, <2>1
<1> QED BY <1>2, <1>5, <1>6

(* Until some \r is followed by another byte than \n, whatever the stream  *)
(* and wherever the reads cut it, each of the ten parsers of commands has  *)
(* written at most one byte behind an array, and one that waits for a \n   *)
(* has just read a \r.                                                     *)
THEOREM LuluInvariantHolds == Spec => []LuluInv
<1>1. Init => LuluInv
  <2> SUFFICES ASSUME Init, kind = "lulu" PROVE LuluInv
    BY DEF LuluInv
  <2>1. input = <<>> /\ parser = [command \in Command |-> LuluReset]
    BY DEF Init, InitialParser
  <2>2. LuluReset \in Parser /\ LuluReset.state = "First" /\ LuluReset.name = <<>>
        /\ LuluReset.pass = <<>>
    BY DEF LuluReset, Parser
  <2>3. Fits(LuluReset)
    <3>1. MaxLong \in Nat /\ 0 <= MaxLong + 1
      BY LuluParsersAssumption
    <3> QED BY <2>2, <3>1 DEF Fits
  <2> QED BY <2>1, <2>2, <2>3 DEF LuluInv
<1>2. LuluInv /\ [Next]_vars => LuluInv'
  <2> SUFFICES ASSUME LuluInv, [Next]_vars PROVE LuluInv'
    OBVIOUS
  <2>1. ASSUME NEW c \in LuluByte, FeedLulu(c) PROVE LuluInv'
    <3>1. /\ kind = "lulu" /\ input' = Append(input, c)
          /\ parser' = [k \in Command |-> IF k \in Reading THEN Feed(k, parser[k], c)
                                         ELSE parser[k]]
      BY <2>1 DEF FeedLulu, Fed
    <3>2. input \in Seq(LuluByte) /\ parser \in [Command -> Parser]
      BY <3>1 DEF LuluInv
    <3>3. input' \in Seq(LuluByte) /\ Len(input') = Len(input) + 1
          /\ input'[Len(input) + 1] = c /\ Len(input) \in Nat
      BY <3>1, <3>2, AppendProperties, LenProperties
    <3>4. ASSUME NEW k \in Command
          PROVE  /\ parser'[k] \in Parser
                 /\ ~ StrayReturn(input') =>
                      /\ parser'[k].state # "Overrun" /\ Fits(parser'[k])
                      /\ parser'[k].state = "CRLF" => c = CR
      <4>1. parser[k] \in Parser
        BY <3>2
      <4>2. CASE k \in Reading
        <5>1. parser[k].state # "Overrun" /\ parser'[k] = Feed(k, parser[k], c)
          BY <3>1, <4>2 DEF Reading
        <5>2. LuluStep(parser[k], c, parser'[k])
          BY <4>1, <5>1, FeedStep
        <5>3. ~ StrayReturn(input') => Fits(parser[k]) /\ (parser[k].state = "CRLF" => c = LF)
          <6>1. SUFFICES ASSUME ~ StrayReturn(input')
                         PROVE  Fits(parser[k]) /\ (parser[k].state = "CRLF" => c = LF)
            OBVIOUS
          <6>2. ~ StrayReturn(input) /\ (Len(input) >= 1 /\ input[Len(input)] = CR => c = LF)
            BY <3>1, <3>2, <6>1, StrayStays
          <6> QED BY <3>1, <6>2 DEF LuluInv
        <5> QED BY <5>2, <5>3 DEF LuluStep
      <4>3. CASE k \notin Reading
        <5>1. parser'[k] = parser[k]
          BY <3>1, <4>3
        <5>2. parser[k].state # "CRLF"
          BY <4>3 DEF Reading
        <5>3. ~ StrayReturn(input') => ~ StrayReturn(input)
          BY <3>1, <3>2, StrayStays
        <5> QED BY <3>1, <4>1, <5>1, <5>2, <5>3 DEF LuluInv
      <4> QED BY <4>2, <4>3
    <3>5. parser' \in [Command -> Parser]
      BY <3>1, <3>4
    <3>6. Len(input') >= 1 /\ input'[Len(input')] = c
      BY <3>3
    <3> QED BY <3>3, <3>4, <3>5, <3>6 DEF LuluInv
  <2>2. ASSUME NEW c \in Octet, FeedHello(c) \/ FeedAuth(c) \/ FeedRequest(c) PROVE LuluInv'
    BY <2>2 DEF FeedHello, FeedAuth, FeedRequest, Fed, LuluInv
  <2>3. CASE FeedPop3
    BY <2>3 DEF FeedPop3, Fed, LuluInv
  <2>4. CASE EndChunk
    BY <2>4 DEF EndChunk, LuluInv
  <2>5. CASE UNCHANGED vars
    BY <2>5 DEF vars, LuluInv
  <2> QED BY <2>1, <2>2, <2>3, <2>4, <2>5 DEF Next
<1> QED BY <1>1, <1>2, PTL DEF Spec

(* As long as every \r is followed by a \n no parser writes more than one  *)
(* byte behind an array: for every size of the arrays, all words and all   *)
(* alphabets.                                                              *)
THEOREM NeverTwoBytesOver == Spec => []AtMostOneByteOver
<1>1. LuluInv => AtMostOneByteOver
  <2> SUFFICES ASSUME LuluInv, kind = "lulu", NEW k \in Command,
                      parser[k].state = "Overrun"
               PROVE  \E i \in 1 .. Len(input) - 1 : input[i] = CR /\ input[i + 1] # LF
    BY DEF AtMostOneByteOver
  <2> QED BY DEF LuluInv, StrayReturn
<1> QED BY <1>1, LuluInvariantHolds, PTL

-------------------------------------------------------------------------------
(* The words of a command, one after the other.                            *)
Matches(s, w) == Len(s) <= Len(w) /\ \A i \in 1 .. Len(s) : s[i] = w[i]
Begins(s, w) == Len(w) <= Len(s) /\ \A i \in 1 .. Len(w) : s[i] = w[i]
Differs(s, w) == \E i \in 1 .. Len(s) : i <= Len(w) /\ s[i] # w[i]

MatchResult(s, c, w) ==
    /\ c = w[Len(s) + 1] => Matches(Append(s, c), w)
    /\ c # w[Len(s) + 1] => Differs(Append(s, c), w)

(* A stream that matches so far goes on matching, or differs from now on.  *)
LEMMA MatchGrows ==
    ASSUME NEW S, NEW s \in Seq(S), NEW c \in S,
           NEW w, Len(w) \in Nat, Matches(s, w), Len(s) < Len(w)
    PROVE  MatchResult(s, c, w)
<1>1. PICK t : t = Append(s, c)
  OBVIOUS
<1>2. PICK m : m = Len(s)
  OBVIOUS
<1>3. PICK n : n = Len(w)
  OBVIOUS
<1>4. m \in Nat /\ n \in Nat /\ m < n
  BY <1>2, <1>3, LenProperties
<1>5. Len(t) = m + 1 /\ t[m + 1] = c /\ \A i \in 1 .. m : t[i] = s[i]
  BY <1>1, <1>2, AppendProperties
<1>6. \A i \in 1 .. m : t[i] = w[i]
  BY <1>2, <1>5 DEF Matches
<1>7. ASSUME c = w[m + 1] PROVE Matches(t, w)
  <2>1. \A i \in 1 .. m + 1 : i \in 1 .. m \/ i = m + 1
    BY <1>4
  <2> QED BY <1>3, <1>4, <1>5, <1>6, <1>7, <2>1 DEF Matches
<1>8. ASSUME c # w[m + 1] PROVE Differs(t, w)
  <2>1. m + 1 \in 1 .. Len(t) /\ m + 1 <= Len(w)
    BY <1>3, <1>4, <1>5
  <2> QED BY <1>5, <1>8, <2>1 DEF Differs
<1> QED BY <1>1, <1>2, <1>7, <1>8 DEF MatchResult

(* What differs goes on differing, and what begins with w goes on so.      *)
LEMMA DifferenceStays ==
    ASSUME NEW S, NEW s \in Seq(S), NEW c \in S, NEW t, t = Append(s, c), NEW w
    PROVE  (Differs(s, w) => Differs(t, w)) /\ (Begins(s, w) /\ Len(w) \in Nat => Begins(t, w))
<1>1. PICK m : m = Len(s)
  OBVIOUS
<1>2. m \in Nat /\ Len(t) = m + 1 /\ \A i \in 1 .. m : t[i] = s[i]
  BY <1>1, AppendProperties, LenProperties
<1>3. \A i \in 1 .. m : i \in 1 .. Len(t)
  BY <1>2
<1>4. ASSUME Begins(s, w), Len(w) \in Nat PROVE Begins(t, w)
  <2>1. Len(w) <= m /\ \A i \in 1 .. Len(w) : s[i] = w[i]
    BY <1>1, <1>4 DEF Begins
  <2>2. \A i \in 1 .. Len(w) : i \in 1 .. m
    BY <1>2, <1>4, <2>1
  <2>3. Len(w) <= Len(t)
    BY <1>2, <1>4, <2>1
  <2> QED BY <1>2, <2>1, <2>2, <2>3 DEF Begins
<1> QED BY <1>1, <1>2, <1>3, <1>4 DEF Differs

(* It does not begin with w and differ from it.                            *)
LEMMA NotBoth ==
    ASSUME NEW s, NEW w, Begins(s, w), Differs(s, w), Len(s) \in Nat, Len(w) \in Nat
    PROVE  FALSE
BY DEF Begins, Differs

(* The stream is in the middle of a word that stands in w behind base.     *)
InsideWord(p, s, w, base, word) ==
    /\ Matches(s, w) /\ Len(s) = base + p.at /\ p.at <= Len(Word[word])

StandsIn(w, base, word) ==
    /\ base + Len(Word[word]) <= Len(w)
    /\ \A i \in 1 .. Len(Word[word]) : w[base + i] = Word[word][i]

(* A word is made of bytes, and of at least one.                           *)
LEMMA WordTypes ==
    ASSUME NEW word \in Words
    PROVE  /\ Word[word] \in Seq(LuluByte) /\ Len(Word[word]) \in Nat
           /\ Len(Word[word]) >= 1
<1>1. Word[word] \in Seq(Letter) /\ Word[word] # <<>>
  BY LuluParsersAssumption
<1>2. Letter \subseteq LuluByte
  BY DEF LuluByte
<1>3. Word[word] \in Seq(LuluByte)
  BY <1>1, <1>2, SeqMonotonic
<1>4. Len(Word[word]) \in Nat /\ Len(Word[word]) # 0
  BY <1>1, LenProperties, EmptySeq
<1> QED BY <1>3, <1>4

WordResult(p, c, t, w, base, word, end, next, q) ==
    \/ q.state = p.state /\ q.value = p.value /\ InsideWord(q, t, w, base, word)
    \/ q.state = "Invalid" /\ Differs(t, w)
    \/ /\ p.at = Len(Word[word]) /\ c = end
       /\ q.state = next /\ q.at = 0 /\ q.value = p.value
    \/ p.at = Len(Word[word]) /\ c # end /\ q.state = "Invalid"

(* A byte inside a word is its next one, or the parser fails for good.     *)
LEMMA WordFed ==
    ASSUME NEW p \in Parser, NEW s \in Seq(LuluByte), NEW c \in LuluByte,
           NEW w \in Seq(LuluByte), NEW base \in Nat, NEW word \in Words,
           StandsIn(w, base, word), InsideWord(p, s, w, base, word), NEW end, NEW next
    PROVE  WordResult(p, c, Append(s, c), w, base, word, end, next,
                      Traverse(p, c, word, end, next))
<1>1. PICK t : t = Append(s, c)
  OBVIOUS
<1>2. PICK q : q = Traverse(p, c, word, end, next)
  OBVIOUS
<1>3. SUFFICES WordResult(p, c, t, w, base, word, end, next, q)
  BY <1>1, <1>2
<1>4. PICK l : l = Len(Word[word])
  OBVIOUS
<1>5. l \in Nat /\ p.at \in Nat
  BY <1>4, WordTypes DEF Parser
<1>6. /\ base + l <= Len(w) /\ \A i \in 1 .. l : w[base + i] = Word[word][i]
      /\ Matches(s, w) /\ Len(s) = base + p.at /\ p.at <= l
      /\ Len(w) \in Nat
  BY <1>4, LenProperties DEF StandsIn, InsideWord
<1>7. CASE p.at = l /\ c = end
  <2>1. q = [p EXCEPT !.state = next, !.at = 0]
    BY <1>2, <1>4, <1>7 DEF Traverse
  <2> QED BY <1>4, <1>7, <2>1 DEF Parser, WordResult
<1>8. CASE p.at = l /\ c # end
  <2>1. q = [p EXCEPT !.state = "Invalid"]
    BY <1>2, <1>4, <1>8 DEF Traverse, Invalid, To
  <2> QED BY <1>4, <1>8, <2>1 DEF Parser, WordResult
<1>9. CASE p.at # l
  <2>1. p.at + 1 \in 1 .. l /\ Len(s) < Len(w) /\ Len(s) + 1 = base + (p.at + 1)
    <3>1. PICK a \in Nat : a = p.at
      BY <1>5
    <3>2. PICK m \in Nat : m = Len(s)
      BY LenProperties
    <3>3. PICK n \in Nat : n = Len(w)
      BY <1>6
    <3>4. base + l <= n /\ m = base + a /\ a <= l /\ a # l
      BY <1>6, <1>9, <3>1, <3>2, <3>3
    <3>5. a + 1 \in 1 .. l /\ m < n /\ m + 1 = base + (a + 1)
      BY <1>5, <3>4
    <3> QED BY <3>1, <3>2, <3>3, <3>5
  <2>2. w[Len(s) + 1] = Word[word][p.at + 1]
    BY <1>6, <2>1
  <2>3. /\ c = w[Len(s) + 1] => Matches(t, w)
        /\ c # w[Len(s) + 1] => Differs(t, w)
    BY <1>6, <2>1, <1>1, MatchGrows DEF MatchResult
  <2>4. CASE c = Word[word][p.at + 1]
    <3>1. q = [p EXCEPT !.at = @ + 1]
      BY <1>2, <1>4, <1>9, <2>4 DEF Traverse
    <3>2. q.state = p.state /\ q.at = p.at + 1 /\ q.value = p.value
      BY <3>1 DEF Parser
    <3>3. Len(t) = Len(s) + 1
      BY <1>1, AppendProperties
    <3>4. Len(t) = base + q.at /\ q.at <= l
      BY <1>5, <1>6, <2>1, <3>2, <3>3
    <3> QED BY <1>4, <2>2, <2>3, <2>4, <3>2, <3>4 DEF InsideWord, WordResult
  <2>5. CASE c # Word[word][p.at + 1]
    <3>1. q = [p EXCEPT !.state = "Invalid"]
      BY <1>2, <1>4, <1>9, <2>5 DEF Traverse, Invalid, To
    <3>2. q.state = "Invalid"
      BY <3>1 DEF Parser
    <3> QED BY <2>2, <2>3, <2>5, <3>2 DEF WordResult
  <2> QED BY <2>4, <2>5
<1> QED BY <1>7, <1>8, <1>9 DEF WordResult

-------------------------------------------------------------------------------
(* A line of one or two words, or their beginning, and what stands where.  *)
TwoOpen(w, first, second) ==
    /\ w \in Seq(LuluByte)
    /\ StandsIn(w, 0, first) /\ w[Len(Word[first]) + 1] = Bar
    /\ StandsIn(w, Len(Word[first]) + 1, second)

(* The parser is in the first or the second word.                          *)
InWords(p, s, w, first, second) ==
    \/ p.state = "First" /\ InsideWord(p, s, w, 0, first)
    \/ p.state = "Second" /\ InsideWord(p, s, w, Len(Word[first]) + 1, second)

WordsResult(p, c, s, t, w, first, second, end, next, q) ==
    \/ InWords(q, t, w, first, second) /\ q.value = p.value
    \/ q.state = "Invalid" /\ Differs(t, w)
    \/ /\ Matches(s, w) /\ Len(s) = Len(Word[first]) + 1 + Len(Word[second])
       /\ \/ c = end /\ q.state = next /\ q.value = p.value
          \/ c # end /\ q.state = "Invalid"

(* A byte in the words, whatever ends them.                                *)
LEMMA WordsFed ==
    ASSUME NEW p \in Parser, NEW s \in Seq(LuluByte), NEW c \in LuluByte,
           NEW w, NEW first \in Words, NEW second \in Words,
           TwoOpen(w, first, second), InWords(p, s, w, first, second),
           NEW end, NEW next, NEW q,
           p.state = "First" => q = Traverse(p, c, first, Bar, "Second"),
           p.state = "Second" => q = Traverse(p, c, second, end, next)
    PROVE  WordsResult(p, c, s, Append(s, c), w, first, second, end, next, q)
<1>1. PICK t : t = Append(s, c)
  OBVIOUS
<1>2. SUFFICES WordsResult(p, c, s, t, w, first, second, end, next, q)
  BY <1>1
<1>3. PICK n1 \in Nat : n1 = Len(Word[first])
  BY WordTypes
<1>4. w \in Seq(LuluByte) /\ Len(w) \in Nat
  BY LenProperties DEF TwoOpen
<1>5. PICK n2 \in Nat : n2 = Len(Word[second])
  BY WordTypes
<1>6. n1 + 1 + n2 <= Len(w) /\ w[n1 + 1] = Bar /\ StandsIn(w, 0, first)
      /\ StandsIn(w, n1 + 1, second)
  BY <1>3, <1>5 DEF TwoOpen, StandsIn
<1>7. CASE p.state = "First" /\ InsideWord(p, s, w, 0, first)
  <2>1. q = Traverse(p, c, first, Bar, "Second")
    BY <1>7
  <2>2. \/ q.state = p.state /\ q.value = p.value /\ InsideWord(q, t, w, 0, first)
        \/ q.state = "Invalid" /\ Differs(t, w)
        \/ /\ p.at = Len(Word[first]) /\ c = Bar
           /\ q.state = "Second" /\ q.at = 0 /\ q.value = p.value
        \/ p.at = Len(Word[first]) /\ c # Bar /\ q.state = "Invalid"
    <3>1. 0 \in Nat
      OBVIOUS
    <3> QED BY <1>4, <1>6, <1>7, <2>1, <3>1, <1>1, WordFed DEF WordResult
  <2>3. Matches(s, w) /\ Len(s) = 0 + p.at /\ p.at \in Nat
    BY <1>7 DEF InsideWord, Parser
  <2>4. CASE p.at = Len(Word[first])
    <3>1. Len(s) = n1 /\ Len(s) < Len(w)
      BY <1>3, <1>4, <1>6, <2>3, <2>4
    <3>2. /\ c = w[Len(s) + 1] => Matches(t, w)
          /\ c # w[Len(s) + 1] => Differs(t, w)
      BY <1>4, <2>3, <3>1, <1>1, MatchGrows DEF MatchResult
    <3>3. Len(t) = Len(s) + 1
      BY <1>1, AppendProperties
    <3>4. ASSUME c = Bar, q.state = "Second", q.at = 0
          PROVE  InsideWord(q, t, w, n1 + 1, second)
      <4>1. Len(t) = n1 + 1 + q.at /\ q.at <= n2
        BY <3>1, <3>3, <3>4
      <4> QED BY <1>5, <1>6, <3>1, <3>2, <3>4, <4>1 DEF InsideWord
    <3>5. c # Bar => Differs(t, w)
      BY <1>6, <3>1, <3>2
    <3>6. CASE q.state = p.state /\ q.value = p.value /\ InsideWord(q, t, w, 0, first)
      BY <1>7, <3>6 DEF InWords, WordsResult
    <3>7. CASE c = Bar /\ q.state = "Second" /\ q.at = 0 /\ q.value = p.value
      BY <1>3, <3>4, <3>7 DEF InWords, WordsResult
    <3> QED BY <2>2, <3>5, <3>6, <3>7 DEF WordsResult
  <2>5. CASE p.at # Len(Word[first])
    BY <1>7, <2>2, <2>5 DEF InWords, WordsResult
  <2> QED BY <2>4, <2>5
<1>8. CASE p.state = "Second" /\ InsideWord(p, s, w, n1 + 1, second)
  <2>1. q = Traverse(p, c, second, end, next)
    BY <1>8
  <2>2. \/ q.state = p.state /\ q.value = p.value /\ InsideWord(q, t, w, n1 + 1, second)
        \/ q.state = "Invalid" /\ Differs(t, w)
        \/ /\ p.at = Len(Word[second]) /\ c = end
           /\ q.state = next /\ q.at = 0 /\ q.value = p.value
        \/ p.at = Len(Word[second]) /\ c # end /\ q.state = "Invalid"
    <3>1. n1 + 1 \in Nat
      OBVIOUS
    <3> QED BY <1>4, <1>6, <1>8, <2>1, <3>1, <1>1, WordFed DEF WordResult
  <2>3. Matches(s, w) /\ Len(s) = n1 + 1 + p.at
    BY <1>8 DEF InsideWord
  <2>4. CASE p.at = Len(Word[second])
    <3>1. Len(s) = Len(Word[first]) + 1 + Len(Word[second])
      BY <1>3, <2>3, <2>4
    <3> QED BY <1>3, <1>8, <2>2, <2>3, <3>1 DEF InWords, WordsResult
  <2>5. CASE p.at # Len(Word[second])
    BY <1>3, <1>8, <2>2, <2>5 DEF InWords, WordsResult
  <2> QED BY <2>4, <2>5
<1> QED BY <1>3, <1>7, <1>8 DEF InWords, WordsResult

-------------------------------------------------------------------------------
(* The opening of a line, and what comes behind it.                        *)
FirstWord(k) == OpeningWords[k][1]
SecondWord(k) == OpeningWords[k][2]
TwoWorded == Command \ {"HELLO", "GOODBYE"}

(* The openings of two words, one by one.                                  *)
LEMMA OpeningsOfTwo ==
    ASSUME NEW k \in TwoWorded
    PROVE  /\ FirstWord(k) \in Words /\ SecondWord(k) \in Words
           /\ Opening(k) = Word[FirstWord(k)] \o <<Bar>> \o Word[SecondWord(k)]
<1>1. PICK a \in Words, b \in Words : OpeningWords[k] = <<a, b>>
  <2>1. CASE k = "SET BUFFERSIZE"
    <3>1. OpeningWords[k] = <<"SET", "BUFFERSIZE">>
      BY <2>1, Zenon DEF OpeningWords, Command
    <3> QED BY <3>1 DEF Words
  <2>2. CASE k = "METRICS"
    <3>1. OpeningWords[k] = <<"GET", "METRICS">>
      BY <2>2, Zenon DEF OpeningWords, Command
    <3> QED BY <3>1 DEF Words
  <2>3. CASE k = "GET BUFFERSIZE"
    <3>1. OpeningWords[k] = <<"GET", "BUFFERSIZE">>
      BY <2>3, Zenon DEF OpeningWords, Command
    <3> QED BY <3>1 DEF Words
  <2>4. CASE k = "SET TIMEOUT"
    <3>1. OpeningWords[k] = <<"SET", "TIMEOUT">>
      BY <2>4, Zenon DEF OpeningWords, Command
    <3> QED BY <3>1 DEF Words
  <2>5. CASE k = "SET USER"
    <3>1. OpeningWords[k] = <<"SET", "USER">>
      BY <2>5, Zenon DEF OpeningWords, Command
    <3> QED BY <3>1 DEF Words
  <2>6. CASE k = "LIST USERS"
    <3>1. OpeningWords[k] = <<"LIST", "USERS">>
      BY <2>6, Zenon DEF OpeningWords, Command
    <3> QED BY <3>1 DEF Words
  <2>7. CASE k = "DEL USER"
    <3>1. OpeningWords[k] = <<"DEL", "USER">>
      BY <2>7, Zenon DEF OpeningWords, Command
    <3> QED BY <3>1 DEF Words
  <2>8. CASE k = "GET TIMEOUT"
    <3>1. OpeningWords[k] = <<"GET", "TIMEOUT">>
      BY <2>8, Zenon DEF OpeningWords, Command
    <3> QED BY <3>1 DEF Words
  <2> QED BY <2>1, <2>2, <2>3, <2>4, <2>5, <2>6, <2>7, <2>8 DEF TwoWorded, Command
<1>2. Len(OpeningWords[k]) # 1 /\ FirstWord(k) = a /\ SecondWord(k) = b
  BY <1>1 DEF FirstWord, SecondWord
<1> QED BY <1>2 DEF Opening, FirstWord, SecondWord

(* A line that opens with two words has them where they belong, whatever   *)
(* comes behind.                                                           *)
LEMMA TwoWordsStand ==
    ASSUME NEW a \in Words, NEW b \in Words, NEW x \in Seq(LuluByte), Len(x) >= 1
    PROVE  LET o == Word[a] \o <<Bar>> \o Word[b] IN
           /\ o \in Seq(LuluByte) /\ Len(o) = Len(Word[a]) + 1 + Len(Word[b])
           /\ TwoOpen(o \o x, a, b)
<1>1. PICK u \in Seq(LuluByte) : u = Word[a]
  BY WordTypes
<1>2. PICK v \in Seq(LuluByte) : v = Word[b]
  BY WordTypes
<1>3. PICK y : y = <<Bar>>
  OBVIOUS
<1>4. y \in Seq(LuluByte) /\ Len(y) = 1 /\ y[1] = Bar
  BY <1>3, StuffBytes
<1>5. PICK uy : uy = u \o y
  OBVIOUS
<1>6. PICK o : o = uy \o v
  OBVIOUS
<1>7. PICK w : w = o \o x
  OBVIOUS
<1>8. PICK n1 \in Nat : n1 = Len(u)
  BY LenProperties
<1>9. PICK n2 \in Nat : n2 = Len(v)
  BY LenProperties
<1>10. PICK n3 \in Nat : n3 = Len(x)
  BY LenProperties
<1>11. /\ uy \in Seq(LuluByte) /\ Len(uy) = n1 + 1
       /\ \A i \in 1 .. n1 : uy[i] = u[i]
       /\ uy[n1 + 1] = Bar
  <2>1. uy \in Seq(LuluByte) /\ Len(uy) = Len(u) + Len(y)
        /\ \A i \in 1 .. Len(u) + Len(y) :
             uy[i] = IF i <= Len(u) THEN u[i] ELSE y[i - Len(u)]
    BY <1>4, <1>5, ConcatProperties
  <2>2. \A i \in 1 .. n1 + 1 : uy[i] = IF i <= n1 THEN u[i] ELSE y[i - n1]
    BY <1>4, <1>8, <2>1
  <2>3. n1 + 1 \in 1 .. n1 + 1 /\ ~ (n1 + 1 <= n1) /\ (n1 + 1) - n1 = 1
    OBVIOUS
  <2>4. uy[n1 + 1] = y[1]
    BY <2>2, <2>3
  <2>5. \A i \in 1 .. n1 : i \in 1 .. n1 + 1 /\ i <= n1
    OBVIOUS
  <2> QED BY <1>4, <1>8, <2>1, <2>2, <2>4, <2>5
<1>12. /\ o \in Seq(LuluByte) /\ Len(o) = n1 + 1 + n2
       /\ \A i \in 1 .. n1 + 1 : o[i] = uy[i]
       /\ \A i \in 1 .. n2 : o[n1 + 1 + i] = v[i]
  <2>1. o \in Seq(LuluByte) /\ Len(o) = Len(uy) + Len(v)
        /\ \A i \in 1 .. Len(uy) + Len(v) :
             o[i] = IF i <= Len(uy) THEN uy[i] ELSE v[i - Len(uy)]
    BY <1>6, <1>11, ConcatProperties
  <2>2. \A i \in 1 .. n1 + 1 + n2 : o[i] = IF i <= n1 + 1 THEN uy[i] ELSE v[i - (n1 + 1)]
    BY <1>9, <1>11, <2>1
  <2>3. \A i \in 1 .. n1 + 1 : o[i] = uy[i]
    BY <2>2
  <2>4. ASSUME NEW i \in 1 .. n2 PROVE o[n1 + 1 + i] = v[i]
    <3>1. n1 + 1 + i \in 1 .. n1 + 1 + n2 /\ ~ (n1 + 1 + i <= n1 + 1)
          /\ (n1 + 1 + i) - (n1 + 1) = i
      OBVIOUS
    <3> QED BY <2>2, <3>1
  <2> QED BY <1>9, <1>11, <2>1, <2>3, <2>4
<1>13. /\ w \in Seq(LuluByte) /\ Len(w) = n1 + 1 + n2 + n3
       /\ \A i \in 1 .. n1 + 1 + n2 : w[i] = o[i]
  <2>1. w \in Seq(LuluByte) /\ Len(w) = Len(o) + Len(x)
        /\ \A i \in 1 .. Len(o) + Len(x) :
             w[i] = IF i <= Len(o) THEN o[i] ELSE x[i - Len(o)]
    BY <1>7, <1>12, ConcatProperties
  <2>2. \A i \in 1 .. n1 + 1 + n2 + n3 :
           w[i] = IF i <= n1 + 1 + n2 THEN o[i] ELSE x[i - (n1 + 1 + n2)]
    BY <1>10, <1>12, <2>1
  <2>3. \A i \in 1 .. n1 + 1 + n2 : i \in 1 .. n1 + 1 + n2 + n3 /\ i <= n1 + 1 + n2
    OBVIOUS
  <2> QED BY <1>10, <1>12, <2>1, <2>2, <2>3
<1>14. \A i \in 1 .. n1 : w[i] = u[i]
  <2>1. \A i \in 1 .. n1 : i \in 1 .. n1 + 1 /\ i \in 1 .. n1 + 1 + n2
    OBVIOUS
  <2> QED BY <1>11, <1>12, <1>13, <2>1
<1>15. w[n1 + 1] = Bar
  <2>1. n1 + 1 \in 1 .. n1 + 1 /\ n1 + 1 \in 1 .. n1 + 1 + n2
    OBVIOUS
  <2> QED BY <1>11, <1>12, <1>13, <2>1
<1>16. \A i \in 1 .. n2 : w[n1 + 1 + i] = v[i]
  <2>1. \A i \in 1 .. n2 : n1 + 1 + i \in 1 .. n1 + 1 + n2
    OBVIOUS
  <2> QED BY <1>12, <1>13, <2>1
<1>17. StandsIn(w, 0, a)
  <2>1. 0 + n1 <= Len(w)
    BY <1>13
  <2>2. \A i \in 1 .. n1 : w[0 + i] = u[i]
    BY <1>14
  <2> QED BY <1>1, <1>8, <2>1, <2>2 DEF StandsIn
<1>18. StandsIn(w, n1 + 1, b)
  <2>1. n1 + 1 + n2 <= Len(w)
    BY <1>13
  <2> QED BY <1>2, <1>9, <1>16, <2>1 DEF StandsIn
<1>19. TwoOpen(w, a, b)
  BY <1>1, <1>8, <1>13, <1>15, <1>17, <1>18 DEF TwoOpen
<1> QED BY <1>1, <1>2, <1>3, <1>5, <1>6, <1>7, <1>8, <1>9, <1>12, <1>19

-------------------------------------------------------------------------------
(* A line of the stream that ends at l: where its parts are.               *)
LineAt(k, s, l) ==
    /\ l >= Len(Opening(k)) + 2 /\ l <= Len(s)
    /\ \A i \in 1 .. Len(Opening(k)) : s[i] = Opening(k)[i]
    /\ s[l - 1] = CR /\ s[l] = LF

(* An opening is made of bytes, and of at least one.                       *)
LEMMA OpeningTypes ==
    ASSUME NEW k \in Command
    PROVE  Opening(k) \in Seq(LuluByte) /\ Len(Opening(k)) \in Nat /\ Len(Opening(k)) >= 1
<1>1. CASE k = "GOODBYE"
  <2>1. OpeningWords[k] = <<"GOODBYE">>
    BY <1>1, Zenon DEF OpeningWords, Command
  <2>2. Opening(k) = Word["GOODBYE"]
    BY <2>1 DEF Opening
  <2> QED BY <2>2, WordTypes DEF Words
<1>2. CASE k = "HELLO"
  <2>1. OpeningWords[k] = <<"HELLO">>
    BY <1>2, Zenon DEF OpeningWords, Command
  <2>2. Opening(k) = Word["HELLO"]
    BY <2>1 DEF Opening
  <2> QED BY <2>2, WordTypes DEF Words
<1>3. CASE k \notin {"GOODBYE", "HELLO"}
  <2>1. k \in TwoWorded
    BY <1>3 DEF TwoWorded
  <2>2. <<Bar>> \in Seq(LuluByte) /\ Len(<<Bar>>) >= 1
    BY StuffBytes
  <2>3. /\ Opening(k) \in Seq(LuluByte)
        /\ Len(Opening(k)) = Len(Word[FirstWord(k)]) + 1 + Len(Word[SecondWord(k)])
    BY <2>1, <2>2, OpeningsOfTwo, TwoWordsStand
  <2>4. PICK n1 \in Nat : n1 = Len(Word[FirstWord(k)]) /\ n1 >= 1
    BY <2>1, OpeningsOfTwo, WordTypes
  <2>5. PICK n2 \in Nat : n2 = Len(Word[SecondWord(k)])
    BY <2>1, OpeningsOfTwo, WordTypes
  <2>6. n1 + 1 + n2 \in Nat /\ n1 + 1 + n2 >= 1
    OBVIOUS
  <2> QED BY <2>3, <2>4, <2>5, <2>6
<1> QED BY <1>1, <1>2, <1>3

-------------------------------------------------------------------------------
(* A part of a sequence, byte by byte.                                     *)
PartOf(r, a, b, S) ==
    LET u == SubSeq(r, a, b) IN
    /\ u \in Seq(S) /\ Len(u) = b - a + 1
    /\ \A i \in 1 .. b - a + 1 : u[i] = r[a + i - 1]

(* SubSeq is such a part when it lies inside the sequence.                 *)
LEMMA Parts ==
    ASSUME NEW S, NEW r \in Seq(S), NEW a \in Nat, a >= 1, NEW b \in Nat, b >= a - 1,
           NEW l \in Nat, l = Len(r), b <= l
    PROVE  PartOf(r, a, b, S)
<1>1. PICK u : u = SubSeq(r, a, b)
  OBVIOUS
<1>2. \A i \in a .. b : r[i] \in S
  BY ElementOfSeq
<1>3. u \in Seq(S) /\ Len(u) = (IF a <= b THEN b - a + 1 ELSE 0)
      /\ \A i \in 1 .. b - a + 1 : u[i] = r[a + i - 1]
  BY <1>1, <1>2, SubSeqProperties
<1>4. (IF a <= b THEN b - a + 1 ELSE 0) = b - a + 1
  OBVIOUS
<1> QED BY <1>1, <1>3, <1>4 DEF PartOf

(* The part is v when v has its bytes.                                     *)
LEMMA PartIs ==
    ASSUME NEW S, NEW r \in Seq(S), NEW a \in Nat, a >= 1, NEW b \in Nat, b >= a - 1,
           NEW l \in Nat, l = Len(r), b <= l,
           NEW v \in Seq(S), NEW n \in Nat, n = Len(v), n = b - a + 1
    PROVE  (SubSeq(r, a, b) = v) <=> \A i \in 1 .. n : r[a + i - 1] = v[i]
<1>1. PICK u : u = SubSeq(r, a, b)
  OBVIOUS
<1>2. u \in Seq(S) /\ Len(u) = n /\ \A i \in 1 .. n : u[i] = r[a + i - 1]
  BY <1>1, Parts DEF PartOf
<1>3. (\A i \in 1 .. n : r[a + i - 1] = v[i]) => u = v
  <2>1. SUFFICES ASSUME \A i \in 1 .. n : r[a + i - 1] = v[i] PROVE u = v
    OBVIOUS
  <2>2. Len(u) = Len(v) /\ \A i \in 1 .. Len(u) : u[i] = v[i]
    BY <1>2, <2>1
  <2> QED BY <1>2, <2>2, SeqEqual
<1> QED BY <1>1, <1>2, <1>3

(* The end of a line, by its positions.                                    *)
LEMMA EndIs ==
    ASSUME NEW r \in Seq(LuluByte), NEW l \in Nat, l = Len(r)
    PROVE  EndsLine(r) <=> l >= 2 /\ r[l - 1] = CR /\ r[l] = LF
<1>1. CASE l < 2
  BY <1>1 DEF EndsLine
<1>2. CASE l >= 2
  <2>1. PICK v : v = <<CR, LF>>
    OBVIOUS
  <2>2. v \in Seq(LuluByte) /\ Len(v) = 2 /\ v[1] = CR /\ v[2] = LF
    BY <2>1, StuffBytes
  <2>3. PICK a \in Nat, n \in Nat : a = l - 1 /\ n = 2
    BY <1>2
  <2>4. a >= 1 /\ l >= a - 1 /\ l <= l /\ n = l - a + 1
    BY <1>2, <2>3
  <2>5. (SubSeq(r, a, l) = v) <=> \A i \in 1 .. n : r[a + i - 1] = v[i]
    BY <2>2, <2>3, <2>4, PartIs
  <2>6. (\A i \in 1 .. n : r[a + i - 1] = v[i]) <=> r[l - 1] = CR /\ r[l] = LF
    <3>1. \A i : i \in 1 .. n <=> i = 1 \/ i = 2
      BY <2>3
    <3>2. a + 1 - 1 = l - 1 /\ a + 2 - 1 = l
      BY <2>3
    <3> QED BY <2>2, <3>1, <3>2
  <2> QED BY <1>2, <2>1, <2>3, <2>5, <2>6 DEF EndsLine
<1> QED BY <1>1, <1>2

(* The same of the opening of a line.                                      *)
LEMMA OpeningIs ==
    ASSUME NEW k \in Command, NEW r \in Seq(LuluByte), NEW l \in Nat, l = Len(r),
           NEW N \in Nat, N = Len(Opening(k))
    PROVE  Opens(k, r) <=> l >= N + 2 /\ \A i \in 1 .. N : r[i] = Opening(k)[i]
<1>1. CASE l < N + 2
  BY <1>1 DEF Opens
<1>2. CASE l >= N + 2
  <2>1. PICK v : v = Opening(k)
    OBVIOUS
  <2>2. v \in Seq(LuluByte)
    BY <2>1, OpeningTypes
  <2>3. PICK a \in Nat : a = 1
    OBVIOUS
  <2>4. a >= 1 /\ N >= a - 1 /\ N <= l /\ N = N - a + 1
    BY <1>2, <2>3
  <2>5. (SubSeq(r, a, N) = v) <=> \A i \in 1 .. N : r[a + i - 1] = v[i]
    BY <2>1, <2>2, <2>4, PartIs
  <2>6. \A i \in 1 .. N : a + i - 1 = i
    BY <2>3
  <2>7. (SubSeq(r, 1, N) = v) <=> \A i \in 1 .. N : r[i] = v[i]
    BY <2>3, <2>5, <2>6
  <2> QED BY <1>2, <2>1, <2>7 DEF Opens
<1> QED BY <1>1, <1>2

(* A prefix of the stream is a line of the command when its parts stand    *)
(* there, and what is behind the opening is where it was.                  *)
RestIs(k, s, l) ==
    LET rest == Rest(k, SubSeq(s, 1, l))
        n == l - 2 - Len(Opening(k))
    IN /\ rest \in Seq(LuluByte) /\ Len(rest) = n
       /\ \A i \in 1 .. n : rest[i] = s[Len(Opening(k)) + i]

(* And so it is, for every command that opens with one or two words.       *)
LEMMA PrefixIsLine ==
    ASSUME NEW k \in Command, NEW s \in Seq(LuluByte), NEW l \in Nat, l <= Len(s)
    PROVE  /\ EndsLine(SubSeq(s, 1, l)) /\ Opens(k, SubSeq(s, 1, l)) <=> LineAt(k, s, l)
           /\ LineAt(k, s, l) => RestIs(k, s, l)
<1>1. PICK r : r = SubSeq(s, 1, l)
  OBVIOUS
<1>2. PICK N \in Nat : N = Len(Opening(k))
  BY OpeningTypes
<1>3. PICK m \in Nat : m = Len(s)
  BY LenProperties
<1>4. r \in Seq(LuluByte) /\ Len(r) = l /\ \A i \in 1 .. l : r[i] = s[i]
  <2>1. PICK a \in Nat : a = 1
    OBVIOUS
  <2>2. a >= 1 /\ l >= a - 1 /\ l <= m
    BY <1>3, <2>1
  <2>3. PartOf(s, a, l, LuluByte)
    BY <1>3, <2>2, Parts
  <2>4. r \in Seq(LuluByte) /\ Len(r) = l - 1 + 1 /\ \A i \in 1 .. l - 1 + 1 : r[i] = s[1 + i - 1]
    BY <1>1, <2>1, <2>3 DEF PartOf
  <2>5. l - 1 + 1 = l /\ \A i \in 1 .. l : 1 + i - 1 = i
    OBVIOUS
  <2> QED BY <2>4, <2>5
<1>5. EndsLine(r) <=> l >= 2 /\ r[l - 1] = CR /\ r[l] = LF
  BY <1>4, EndIs
<1>6. Opens(k, r) <=> l >= N + 2 /\ \A i \in 1 .. N : r[i] = Opening(k)[i]
  BY <1>2, <1>4, OpeningIs
<1>7. EndsLine(r) /\ Opens(k, r) <=> LineAt(k, s, l)
  <2>1. CASE l >= N + 2
    <3>1. l \in 1 .. l /\ l - 1 \in 1 .. l /\ l >= 2 /\ \A i \in 1 .. N : i \in 1 .. l
      BY <2>1
    <3>2. r[l - 1] = s[l - 1] /\ r[l] = s[l] /\ \A i \in 1 .. N : r[i] = s[i]
      BY <1>4, <3>1
    <3> QED BY <1>2, <1>5, <1>6, <2>1, <3>1, <3>2 DEF LineAt
  <2>2. CASE ~ (l >= N + 2)
    BY <1>2, <1>6, <2>2 DEF LineAt
  <2> QED BY <2>1, <2>2
<1>8. ASSUME LineAt(k, s, l) PROVE RestIs(k, s, l)
  <2>1. l >= N + 2
    BY <1>2, <1>8 DEF LineAt
  <2>2. PICK a \in Nat, b \in Nat : a = N + 1 /\ b = l - 2
    BY <2>1
  <2>3. a >= 1 /\ b >= a - 1 /\ b <= l
    BY <2>1, <2>2
  <2>4. PartOf(r, a, b, LuluByte)
    BY <1>4, <2>3, Parts
  <2>5. PICK u : u = Rest(k, r)
    OBVIOUS
  <2>6. u = SubSeq(r, a, b)
    BY <1>2, <1>4, <2>2, <2>5 DEF Rest
  <2>7. u \in Seq(LuluByte) /\ Len(u) = b - a + 1 /\ \A i \in 1 .. b - a + 1 : u[i] = r[a + i - 1]
    BY <2>4, <2>6 DEF PartOf
  <2>8. b - a + 1 = l - 2 - N
    BY <2>2
  <2>9. \A i \in 1 .. l - 2 - N : a + i - 1 = N + i /\ N + i \in 1 .. l
    BY <2>1, <2>2
  <2>10. \A i \in 1 .. l - 2 - N : u[i] = s[N + i]
    BY <1>4, <2>7, <2>8, <2>9
  <2> QED BY <1>1, <1>2, <2>5, <2>7, <2>8, <2>10 DEF RestIs
<1> QED BY <1>1, <1>7, <1>8

-------------------------------------------------------------------------------
(* Commands without arguments: one line and no other.                      *)
Ending == <<CR, LF>>
PlainLine(k) == Opening(k) \o Ending

PlainWords(p, s, k) ==
    IF k = "GOODBYE"
      THEN p.state = "First" /\ InsideWord(p, s, PlainLine(k), 0, "GOODBYE")
      ELSE InWords(p, s, PlainLine(k), FirstWord(k), SecondWord(k))

PlainKnows(p, s, k) ==
    \/ PlainWords(p, s, k)
    \/ p.state = "CRLF" /\ Matches(s, PlainLine(k)) /\ Len(s) = Len(Opening(k)) + 1
    \/ p.state = "Finished" /\ Begins(s, PlainLine(k))
    \/ p.state = "Invalid" /\ Differs(s, PlainLine(k))

(* Where the parts of that line are.                                       *)
LEMMA PlainLineIs ==
    ASSUME NEW k \in Command \ {"HELLO"}, NEW N \in Nat, N = Len(Opening(k))
    PROVE  /\ PlainLine(k) \in Seq(LuluByte) /\ Len(PlainLine(k)) = N + 2
           /\ \A i \in 1 .. N : PlainLine(k)[i] = Opening(k)[i]
           /\ PlainLine(k)[N + 1] = CR /\ PlainLine(k)[N + 2] = LF
<1>1. PICK w : w = PlainLine(k)
  OBVIOUS
<1>2. PICK o \in Seq(LuluByte) : o = Opening(k)
  BY OpeningTypes
<1>3. PICK e : e = Ending
  OBVIOUS
<1>4. e \in Seq(LuluByte) /\ Len(e) = 2 /\ e[1] = CR /\ e[2] = LF
  BY <1>3, StuffBytes DEF Ending
<1>5. w = o \o e
  BY <1>1, <1>2, <1>3 DEF PlainLine
<1>6. /\ w \in Seq(LuluByte) /\ Len(w) = N + 2
      /\ \A i \in 1 .. N + 2 : w[i] = IF i <= N THEN o[i] ELSE e[i - N]
  <2>1. /\ w \in Seq(LuluByte) /\ Len(w) = Len(o) + Len(e)
        /\ \A i \in 1 .. Len(o) + Len(e) :
             w[i] = IF i <= Len(o) THEN o[i] ELSE e[i - Len(o)]
    BY <1>4, <1>5, ConcatProperties
  <2> QED BY <1>2, <1>4, <2>1
<1>7. \A i \in 1 .. N : w[i] = o[i]
  BY <1>6
<1>8. w[N + 1] = e[1] /\ w[N + 2] = e[2]
  <2>1. N + 1 \in 1 .. N + 2 /\ N + 2 \in 1 .. N + 2 /\ ~ (N + 1 <= N) /\ ~ (N + 2 <= N)
        /\ (N + 1) - N = 1 /\ (N + 2) - N = 2
    OBVIOUS
  <2> QED BY <1>6, <2>1
<1> QED BY <1>1, <1>2, <1>4, <1>6, <1>7, <1>8

(* The stream has such a line in front exactly when it begins with it.     *)
LEMMA PlainGrammar ==
    ASSUME NEW k \in Command \ {"HELLO"}, NEW s \in Seq(LuluByte)
    PROVE  (\E l \in 0 .. Len(s) : IsPlain(k, SubSeq(s, 1, l))) <=> Begins(s, PlainLine(k))
<1>1. PICK N \in Nat : N = Len(Opening(k))
  BY OpeningTypes
<1>2. PICK m \in Nat : m = Len(s)
  BY LenProperties
<1>3. PICK w : w = PlainLine(k)
  OBVIOUS
<1>4. /\ Len(w) = N + 2 /\ \A i \in 1 .. N : w[i] = Opening(k)[i]
      /\ w[N + 1] = CR /\ w[N + 2] = LF
  BY <1>1, <1>3, PlainLineIs
<1>5. Begins(s, w) <=> LineAt(k, s, N + 2)
  <2>1. \A i \in 1 .. N + 2 : i \in 1 .. N \/ i = N + 1 \/ i = N + 2
    OBVIOUS
  <2>2. (\A i \in 1 .. N : i \in 1 .. N + 2) /\ N + 1 \in 1 .. N + 2 /\ N + 2 \in 1 .. N + 2
        /\ (N + 2) - 1 = N + 1 /\ N + 2 >= N + 2
    OBVIOUS
  <2>3. Begins(s, w) <=> N + 2 <= m /\ \A i \in 1 .. N + 2 : s[i] = w[i]
    BY <1>2, <1>4 DEF Begins
  <2>4. LineAt(k, s, N + 2) <=> N + 2 <= m /\ (\A i \in 1 .. N : s[i] = Opening(k)[i])
                                /\ s[N + 1] = CR /\ s[N + 2] = LF
    BY <1>1, <1>2, <2>2 DEF LineAt
  <2> QED BY <1>4, <2>1, <2>2, <2>3, <2>4
<1>6. ASSUME NEW l \in 0 .. Len(s)
      PROVE  IsPlain(k, SubSeq(s, 1, l)) <=> LineAt(k, s, l) /\ l = N + 2
  <2>1. l \in Nat /\ l <= Len(s)
    BY <1>2
  <2>2. /\ EndsLine(SubSeq(s, 1, l)) /\ Opens(k, SubSeq(s, 1, l)) <=> LineAt(k, s, l)
        /\ LineAt(k, s, l) => RestIs(k, s, l)
    BY <2>1, PrefixIsLine
  <2>3. PICK u : u = Rest(k, SubSeq(s, 1, l))
    OBVIOUS
  <2>4. LineAt(k, s, l) => (u = <<>> <=> l = N + 2)
    <3>1. SUFFICES ASSUME LineAt(k, s, l) PROVE u = <<>> <=> l = N + 2
      OBVIOUS
    <3>2. u \in Seq(LuluByte) /\ Len(u) = l - 2 - N
      BY <1>1, <2>2, <2>3, <3>1 DEF RestIs
    <3>3. u = <<>> <=> Len(u) = 0
      BY <3>2, EmptySeq, LenProperties
    <3> QED BY <2>1, <3>2, <3>3
  <2> QED BY <2>2, <2>3, <2>4 DEF IsPlain
<1>7. LineAt(k, s, N + 2) => N + 2 \in 0 .. Len(s)
  BY <1>2 DEF LineAt
<1> QED BY <1>3, <1>5, <1>6, <1>7

-------------------------------------------------------------------------------
(* What such a parser knows tells whether it was sent its line.            *)
LEMMA PlainExact ==
    ASSUME NEW k \in Plain, NEW p \in Parser, NEW s \in Seq(LuluByte), PlainKnows(p, s, k)
    PROVE  p.state = "Finished" <=> Begins(s, PlainLine(k))
<1>1. PICK N \in Nat : N = Len(Opening(k))
  BY OpeningTypes DEF Plain, Command
<1>2. PICK m \in Nat : m = Len(s)
  BY LenProperties
<1>3. PICK w : w = PlainLine(k)
  OBVIOUS
<1>4. Len(w) = N + 2
  BY <1>1, <1>3, PlainLineIs DEF Plain, Command
<1>5. m < N + 2 => ~ Begins(s, w)
  BY <1>2, <1>4 DEF Begins
<1>6. CASE PlainWords(p, s, k)
  <2>1. p.state \in {"First", "Second"}
    BY <1>6 DEF PlainWords, InWords
  <2>2. m < N + 2
    <3>1. CASE k = "GOODBYE"
      <4>1. OpeningWords[k] = <<"GOODBYE">>
        BY <3>1, Zenon DEF OpeningWords, Command
      <4>2. Opening(k) = Word["GOODBYE"]
        BY <4>1 DEF Opening
      <4>3. Len(s) = 0 + p.at /\ p.at <= Len(Word["GOODBYE"]) /\ p.at \in Nat
        BY <1>6, <3>1 DEF PlainWords, InsideWord, Parser
      <4> QED BY <1>1, <1>2, <4>2, <4>3
    <3>2. CASE k # "GOODBYE"
      <4>1. k \in TwoWorded
        BY <3>2 DEF TwoWorded, Plain, Command
      <4>2. PICK n1 \in Nat : n1 = Len(Word[FirstWord(k)])
        BY <4>1, OpeningsOfTwo, WordTypes
      <4>3. PICK n2 \in Nat : n2 = Len(Word[SecondWord(k)])
        BY <4>1, OpeningsOfTwo, WordTypes
      <4>4. N = n1 + 1 + n2
        <5>1. <<Bar>> \in Seq(LuluByte) /\ Len(<<Bar>>) >= 1
          BY StuffBytes
        <5> QED BY <1>1, <4>1, <4>2, <4>3, <5>1, OpeningsOfTwo, TwoWordsStand
      <4>5. InWords(p, s, w, FirstWord(k), SecondWord(k))
        BY <1>3, <1>6, <3>2 DEF PlainWords
      <4>6. m <= n1 \/ m <= n1 + 1 + n2
        <5>1. PICK a \in Nat : a = p.at
          BY DEF Parser
        <5>2. (m = 0 + a /\ a <= n1) \/ (m = n1 + 1 + a /\ a <= n2)
          BY <1>2, <4>2, <4>3, <4>5, <5>1, Zenon DEF InWords, InsideWord
        <5> QED BY <5>2
      <4> QED BY <4>4, <4>6
    <3> QED BY <3>1, <3>2
  <2> QED BY <1>3, <1>5, <2>1, <2>2
<1>7. CASE p.state = "CRLF" /\ Len(s) = N + 1
  BY <1>2, <1>3, <1>5, <1>7
<1>8. CASE p.state = "Invalid" /\ Differs(s, w)
  BY <1>2, <1>3, <1>4, <1>8, NotBoth
<1> QED BY <1>1, <1>3, <1>6, <1>7, <1>8 DEF PlainKnows

-------------------------------------------------------------------------------
(* A byte more, behind the words of a line: its \r, or what fails there.   *)
LEMMA PlainReturn ==
    ASSUME NEW k \in Plain, NEW s \in Seq(LuluByte), NEW c \in LuluByte, NEW q,
           Matches(s, PlainLine(k)), Len(s) = Len(Opening(k)),
           (c = CR /\ q.state = "CRLF") \/ (c # CR /\ q.state = "Invalid")
    PROVE  PlainKnows(q, Append(s, c), k)
<1>1. PICK N \in Nat : N = Len(Opening(k))
  BY OpeningTypes DEF Plain, Command
<1>2. PICK w : w = PlainLine(k)
  OBVIOUS
<1>3. Len(w) = N + 2 /\ w[N + 1] = CR
  BY <1>1, <1>2, PlainLineIs DEF Plain, Command
<1>4. Len(w) \in Nat /\ Len(s) < Len(w) /\ w[Len(s) + 1] = CR
  BY <1>1, <1>3
<1>5. (c = CR => Matches(Append(s, c), w)) /\ (c # CR => Differs(Append(s, c), w))
  BY <1>2, <1>4, MatchGrows DEF MatchResult
<1>6. Len(Append(s, c)) = Len(Opening(k)) + 1
  BY AppendProperties
<1> QED BY <1>2, <1>5, <1>6 DEF PlainKnows

(* A parser that has ended knows what it did, whatever else is sent.       *)
LEMMA PlainStays ==
    ASSUME NEW k \in Plain, NEW p, NEW s \in Seq(LuluByte), NEW c \in LuluByte,
           PlainKnows(p, s, k), p.state \in {"Finished", "Invalid"}
    PROVE  PlainKnows(p, Append(s, c), k)
<1>1. PICK t : t = Append(s, c)
  OBVIOUS
<1>2. PICK w : w = PlainLine(k)
  OBVIOUS
<1>3. Len(w) \in Nat
  BY <1>2, PlainLineIs, OpeningTypes, LenProperties DEF Plain, Command
<1>4. (Differs(s, w) => Differs(t, w)) /\ (Begins(s, w) => Begins(t, w))
  BY <1>1, <1>3, DifferenceStays
<1>5. (p.state = "Finished" /\ Begins(s, w)) \/ (p.state = "Invalid" /\ Differs(s, w))
  BY <1>2 DEF PlainKnows, PlainWords, InWords
<1> QED BY <1>1, <1>2, <1>4, <1>5 DEF PlainKnows

(* A byte more, and a parser of such a line still knows.                   *)
LEMMA PlainFed ==
    ASSUME NEW k \in Plain, NEW p \in Parser, NEW s \in Seq(LuluByte), NEW c \in LuluByte,
           PlainKnows(p, s, k), p.state \notin {"Finished", "Invalid"}
    PROVE  PlainKnows(Feed(k, p, c), Append(s, c), k)
<1>1. PICK t : t = Append(s, c)
  OBVIOUS
<1>2. PICK q : q = Feed(k, p, c)
  OBVIOUS
<1>3. PICK N \in Nat : N = Len(Opening(k))
  BY OpeningTypes DEF Plain, Command
<1>4. PICK w : w = PlainLine(k)
  OBVIOUS
<1>5. /\ w \in Seq(LuluByte) /\ Len(w) = N + 2 /\ w[N + 1] = CR /\ w[N + 2] = LF
      /\ \A i \in 1 .. N : w[i] = Opening(k)[i]
  BY <1>3, <1>4, PlainLineIs DEF Plain, Command
<1>6. CASE PlainWords(p, s, k) /\ k = "GOODBYE"
  <2>1. OpeningWords[k] = <<"GOODBYE">>
    BY <1>6, Zenon DEF OpeningWords, Command
  <2>2. Opening(k) = Word["GOODBYE"]
    BY <2>1 DEF Opening
  <2>3. p.state = "First" /\ InsideWord(p, s, w, 0, "GOODBYE")
    BY <1>4, <1>6 DEF PlainWords
  <2>4. q = GoodbyeFeed(p, c)
    BY <1>2, <1>6, Zenon DEF Feed
  <2>5. q = Traverse(p, c, "GOODBYE", CR, "CRLF")
    BY <2>3, <2>4, Zenon DEF GoodbyeFeed
  <2>6. StandsIn(w, 0, "GOODBYE") /\ "GOODBYE" \in Words /\ 0 \in Nat
    BY <1>3, <1>5, <2>2 DEF StandsIn, Words
  <2>7. WordResult(p, c, t, w, 0, "GOODBYE", CR, "CRLF", q)
    BY <1>1, <1>5, <2>3, <2>5, <2>6, WordFed
  <2>8. CASE q.state = p.state /\ InsideWord(q, t, w, 0, "GOODBYE")
    BY <1>1, <1>2, <1>4, <1>6, <2>3, <2>8 DEF PlainKnows, PlainWords
  <2>9. CASE q.state = "Invalid" /\ Differs(t, w)
    BY <1>1, <1>2, <1>4, <2>9 DEF PlainKnows
  <2>10. CASE /\ p.at = Len(Word["GOODBYE"])
              /\ (c = CR /\ q.state = "CRLF") \/ (c # CR /\ q.state = "Invalid")
    <3>1. Matches(s, PlainLine(k)) /\ Len(s) = Len(Opening(k))
      <4>1. Len(s) = 0 + p.at /\ Matches(s, w)
        BY <2>3 DEF InsideWord
      <4>2. 0 + N = N
        OBVIOUS
      <4> QED BY <1>3, <1>4, <2>2, <2>10, <4>1, <4>2
    <3> QED BY <1>1, <1>2, <2>10, <3>1, PlainReturn
  <2> QED BY <2>7, <2>8, <2>9, <2>10 DEF WordResult
<1>7. CASE PlainWords(p, s, k) /\ k # "GOODBYE"
  <2>1. k \in TwoWorded
    BY <1>7 DEF TwoWorded, Plain, Command
  <2>2. PICK a \in Words, b \in Words : a = FirstWord(k) /\ b = SecondWord(k)
    BY <2>1, OpeningsOfTwo
  <2>3. TwoOpen(w, a, b) /\ N = Len(Word[a]) + 1 + Len(Word[b])
    <3>1. Ending \in Seq(LuluByte) /\ Len(Ending) >= 1
      BY StuffBytes DEF Ending
    <3>2. Opening(k) = Word[a] \o <<Bar>> \o Word[b]
      BY <2>1, <2>2, OpeningsOfTwo
    <3> QED BY <1>3, <1>4, <2>2, <3>1, <3>2, TwoWordsStand DEF PlainLine
  <2>4. InWords(p, s, w, a, b)
    BY <1>4, <1>7, <2>2 DEF PlainWords
  <2>5. q = TwoWords(p, c, a, b)
    <3>1. k = "METRICS" \/ k = "GET BUFFERSIZE" \/ k = "LIST USERS" \/ k = "GET TIMEOUT"
      BY <1>7 DEF Plain
    <3>2. CASE k = "METRICS"
      <4>1. OpeningWords[k] = <<"GET", "METRICS">>
        BY <3>2, Zenon DEF OpeningWords, Command
      <4>2. a = "GET" /\ b = "METRICS"
        BY <2>2, <4>1 DEF FirstWord, SecondWord
      <4> QED BY <1>2, <3>2, <4>2, Zenon DEF Feed, MetricsFeed
    <3>3. CASE k = "GET BUFFERSIZE"
      <4>1. OpeningWords[k] = <<"GET", "BUFFERSIZE">>
        BY <3>3, Zenon DEF OpeningWords, Command
      <4>2. a = "GET" /\ b = "BUFFERSIZE"
        BY <2>2, <4>1 DEF FirstWord, SecondWord
      <4> QED BY <1>2, <3>3, <4>2, Zenon DEF Feed, GetBufferSizeFeed
    <3>4. CASE k = "LIST USERS"
      <4>1. OpeningWords[k] = <<"LIST", "USERS">>
        BY <3>4, Zenon DEF OpeningWords, Command
      <4>2. a = "LIST" /\ b = "USERS"
        BY <2>2, <4>1 DEF FirstWord, SecondWord
      <4> QED BY <1>2, <3>4, <4>2, Zenon DEF Feed, ListUsersFeed
    <3>5. CASE k = "GET TIMEOUT"
      <4>1. OpeningWords[k] = <<"GET", "TIMEOUT">>
        BY <3>5, Zenon DEF OpeningWords, Command
      <4>2. a = "GET" /\ b = "TIMEOUT"
        BY <2>2, <4>1 DEF FirstWord, SecondWord
      <4> QED BY <1>2, <3>5, <4>2, Zenon DEF Feed, GetTimeoutFeed
    <3> QED BY <3>1, <3>2, <3>3, <3>4, <3>5
  <2>6. p.state = "First" => q = Traverse(p, c, a, Bar, "Second")
    BY <2>5, Zenon DEF TwoWords
  <2>7. p.state = "Second" => q = Traverse(p, c, b, CR, "CRLF")
    BY <2>5, Zenon DEF TwoWords
  <2>8. WordsResult(p, c, s, t, w, a, b, CR, "CRLF", q)
    BY <1>1, <2>3, <2>4, <2>6, <2>7, WordsFed
  <2>9. CASE InWords(q, t, w, a, b)
    BY <1>1, <1>2, <1>4, <1>7, <2>2, <2>9 DEF PlainKnows, PlainWords
  <2>10. CASE q.state = "Invalid" /\ Differs(t, w)
    BY <1>1, <1>2, <1>4, <2>10 DEF PlainKnows
  <2>11. CASE /\ Matches(s, w) /\ Len(s) = Len(Word[a]) + 1 + Len(Word[b])
              /\ (c = CR /\ q.state = "CRLF") \/ (c # CR /\ q.state = "Invalid")
    <3>1. Matches(s, PlainLine(k)) /\ Len(s) = Len(Opening(k))
      BY <1>3, <1>4, <2>3, <2>11
    <3> QED BY <1>1, <1>2, <2>11, <3>1, PlainReturn
  <2> QED BY <2>8, <2>9, <2>10, <2>11 DEF WordsResult
<1>8. CASE p.state = "CRLF" /\ Matches(s, w) /\ Len(s) = N + 1
  <2>1. q = LineFeed(p, c)
    <3>1. \/ k = "GOODBYE" \/ k = "METRICS" \/ k = "GET BUFFERSIZE" \/ k = "LIST USERS"
          \/ k = "GET TIMEOUT"
      BY DEF Plain
    <3>2. k = "GOODBYE" => q = GoodbyeFeed(p, c)
      BY <1>2, Zenon DEF Feed
    <3>3. GoodbyeFeed(p, c) = LineFeed(p, c)
      BY <1>8, Zenon DEF GoodbyeFeed
    <3>4. \A a, b : TwoWords(p, c, a, b) = LineFeed(p, c)
      BY <1>8, Zenon DEF TwoWords
    <3>5. k = "METRICS" => q = MetricsFeed(p, c)
      BY <1>2, Zenon DEF Feed
    <3>6. k = "GET BUFFERSIZE" => q = GetBufferSizeFeed(p, c)
      BY <1>2, Zenon DEF Feed
    <3>7. k = "LIST USERS" => q = ListUsersFeed(p, c)
      BY <1>2, Zenon DEF Feed
    <3>8. k = "GET TIMEOUT" => q = GetTimeoutFeed(p, c)
      BY <1>2, Zenon DEF Feed
    <3> QED BY <3>1, <3>2, <3>3, <3>4, <3>5, <3>6, <3>7, <3>8, Zenon
            DEF MetricsFeed, GetBufferSizeFeed, ListUsersFeed, GetTimeoutFeed
  <2>2. q.state = IF c = LF THEN "Finished" ELSE "Invalid"
    <3>1. (IF c = LF THEN "Finished" ELSE "Invalid") \in ParserStates
      BY DEF ParserStates
    <3> QED BY <2>1, <3>1, Goes DEF LineFeed
  <2>3. Len(w) \in Nat /\ Len(s) < Len(w) /\ w[Len(s) + 1] = LF
    <3>1. (N + 1) + 1 = N + 2 /\ N + 1 < N + 2 /\ N + 2 \in Nat
      OBVIOUS
    <3> QED BY <1>5, <1>8, <3>1
  <2>4. (c = LF => Matches(t, w)) /\ (c # LF => Differs(t, w))
    BY <1>1, <1>8, <2>3, MatchGrows DEF MatchResult
  <2>5. Len(t) = Len(w)
    BY <1>1, <1>5, <1>8, AppendProperties
  <2>6. Matches(t, w) => Begins(t, w)
    BY <1>5, <2>5 DEF Matches, Begins
  <2> QED BY <1>1, <1>2, <1>4, <2>2, <2>4, <2>6 DEF PlainKnows
<1> QED BY <1>3, <1>4, <1>6, <1>7, <1>8 DEF PlainKnows

-------------------------------------------------------------------------------
(* Numbers: their digits, and what they come to.                           *)

(* Every set of numbers that is not empty has a least one.                 *)
LEMMA LeastNumber ==
    ASSUME NEW S, S \subseteq Nat, S # {}
    PROVE  \E m \in S : \A x \in S : m <= x
<1> DEFINE Less == {ss \in Nat \X Nat : ss[1] < ss[2]}
<1>1. Less = OpToRel(<, Nat)
  BY Zenon DEF OpToRel
<1>2. IsWellFoundedOn(Less, Nat)
  BY <1>1, NatLessThanWellFounded
<1>3. PICK m \in S : \A x \in S : ~ (<<x, m>> \in Less)
  BY <1>2, WFMin
<1>4. \A x, y \in Nat : ~ (<<x, y>> \in Less) => y <= x
  OBVIOUS
<1> HIDE DEF Less
<1> QED BY <1>3, <1>4

(* What holds of 0 and goes on from each number to the next holds up to n. *)
LEMMA UpTo ==
    ASSUME NEW A, NEW n \in Nat, 0 \in A,
           \A i \in 0 .. n - 1 : i \in A => i + 1 \in A
    PROVE  0 .. n \subseteq A
<1> DEFINE S == {x \in 0 .. n : x \notin A}
<1>1. SUFFICES ASSUME S # {} PROVE FALSE
  OBVIOUS
<1>2. PICK m \in S : \A x \in S : m <= x
  <2>1. S \subseteq Nat
    OBVIOUS
  <2> HIDE DEF S
  <2> QED BY <1>1, <2>1, LeastNumber
<1>3. m # 0 /\ m \in 0 .. n /\ m \notin A
  OBVIOUS
<1>4. m - 1 \in 0 .. n - 1 /\ (m - 1) + 1 = m
  BY <1>3
<1>5. m - 1 \notin S
  BY <1>2, <1>3
<1>6. m - 1 \in A
  BY <1>4, <1>5
<1> QED BY <1>3, <1>4, <1>6

Digits(s, b, n) == b + n <= Len(s) /\ \A i \in 1 .. n : s[b + i] \in Digit

(* g[i] is what the first i of the digits behind position b come to.       *)
IsCount(g, s, b, n) ==
    /\ g \in [0 .. n -> Nat] /\ g[0] = 0
    /\ \A i \in 1 .. n : g[i] = g[i - 1] * 10 + DigitValue[s[b + i]]
Counts(s, b, n, v) == \E g : IsCount(g, s, b, n) /\ g[n] = v

(* No digits come to 0.                                                    *)
LEMMA CountsNothing == ASSUME NEW s, NEW b \in Nat PROVE Counts(s, b, 0, 0)
<1>1. PICK g : g = [i \in 0 .. 0 |-> 0]
  OBVIOUS
<1>2. g \in [0 .. 0 -> Nat] /\ g[0] = 0 /\ 1 .. 0 = {}
  BY <1>1
<1> QED BY <1>2 DEF Counts, IsCount

(* A digit more.                                                           *)
LEMMA CountsMore ==
    ASSUME NEW s, NEW b \in Nat, NEW n \in Nat, NEW v \in Nat, Counts(s, b, n, v),
           s[b + n + 1] \in Digit
    PROVE  /\ v * 10 + DigitValue[s[b + n + 1]] \in Nat
           /\ Counts(s, b, n + 1, v * 10 + DigitValue[s[b + n + 1]])
<1>1. PICK g : IsCount(g, s, b, n) /\ g[n] = v
  BY DEF Counts
<1>2. PICK u : u = v * 10 + DigitValue[s[b + n + 1]]
  OBVIOUS
<1>3. u \in Nat
  <2>1. DigitValue[s[b + n + 1]] \in 0 .. 9
    BY LuluParsersAssumption DEF Digit
  <2> QED BY <1>2, <2>1
<1>4. PICK h : h = [i \in 0 .. n + 1 |-> IF i = n + 1 THEN u ELSE g[i]]
  OBVIOUS
<1>5. g \in [0 .. n -> Nat] /\ g[0] = 0
      /\ \A i \in 1 .. n : g[i] = g[i - 1] * 10 + DigitValue[s[b + i]]
  BY <1>1 DEF IsCount
<1>6. \A i \in 0 .. n : i \in 0 .. n + 1 /\ i # n + 1
  OBVIOUS
<1>7. h[n + 1] = u /\ \A i \in 0 .. n : h[i] = g[i]
  BY <1>4, <1>6
<1>8. h \in [0 .. n + 1 -> Nat]
  <2>1. \A i \in 0 .. n + 1 : (IF i = n + 1 THEN u ELSE g[i]) \in Nat
    BY <1>3, <1>5
  <2> QED BY <1>4, <2>1
<1>9. ASSUME NEW i \in 1 .. n + 1
      PROVE  h[i] = h[i - 1] * 10 + DigitValue[s[b + i]]
  <2>1. CASE i = n + 1
    <3>1. i - 1 = n /\ n \in 0 .. n /\ b + i = b + n + 1
      BY <2>1
    <3>2. h[i - 1] = v
      BY <1>1, <1>7, <3>1
    <3> QED BY <1>2, <1>7, <2>1, <3>1, <3>2
  <2>2. CASE i # n + 1
    <3>1. i \in 1 .. n /\ i \in 0 .. n /\ i - 1 \in 0 .. n
      BY <2>2
    <3>2. h[i] = g[i] /\ h[i - 1] = g[i - 1]
      BY <1>7, <3>1
    <3> QED BY <1>5, <3>1, <3>2
  <2> QED BY <2>1, <2>2
<1>10. h[0] = 0
  <2>1. 0 \in 0 .. n
    OBVIOUS
  <2> QED BY <1>5, <1>7, <2>1
<1>11. IsCount(h, s, b, n + 1)
  BY <1>8, <1>9, <1>10 DEF IsCount
<1> QED BY <1>2, <1>3, <1>7, <1>11 DEF Counts

(* The number is that of the digits, whatever comes behind them.           *)
LEMMA CountsStays ==
    ASSUME NEW s, NEW t, NEW b \in Nat, NEW n \in Nat, NEW d \in Nat,
           \A i \in 1 .. n : s[b + i] = t[d + i]
    PROVE  \A v : Counts(s, b, n, v) => Counts(t, d, n, v)
<1>1. \A g : IsCount(g, s, b, n) => IsCount(g, t, d, n)
  BY DEF IsCount
<1> QED BY <1>1 DEF Counts

(* Digits come to something.                                               *)
LEMMA CountExists ==
    ASSUME NEW s, NEW b \in Nat, NEW n \in Nat, Digits(s, b, n)
    PROVE  \E v \in Nat : Counts(s, b, n, v)
<1>1. PICK A : A = {i \in Nat : \E v \in Nat : Counts(s, b, i, v)}
  OBVIOUS
<1>2. 0 \in A
  BY <1>1, CountsNothing
<1>3. ASSUME NEW i \in 0 .. n - 1, i \in A PROVE i + 1 \in A
  <2>1. PICK v \in Nat : Counts(s, b, i, v)
    BY <1>1, <1>3
  <2>2. i \in Nat /\ i + 1 \in Nat /\ i + 1 \in 1 .. n /\ b + (i + 1) = b + i + 1
    OBVIOUS
  <2>3. s[b + i + 1] \in Digit
    BY <2>2 DEF Digits
  <2>4. PICK u \in Nat : Counts(s, b, i + 1, u)
    BY <2>1, <2>2, <2>3, CountsMore
  <2> QED BY <1>1, <2>2, <2>4
<1>4. 0 .. n \subseteq A
  BY <1>2, <1>3, UpTo
<1>5. n \in A
  BY <1>4
<1> QED BY <1>1, <1>5

(* Fewer of the same digits come to no more, and as many come to the same. *)
LEMMA CountsGrow ==
    ASSUME NEW s, NEW b \in Nat, NEW n \in Nat, Digits(s, b, n), NEW m \in Nat, m <= n,
           NEW v, NEW u, Counts(s, b, n, v), Counts(s, b, m, u)
    PROVE  v \in Nat /\ u \in Nat /\ u <= v /\ (m = n => u = v)
<1>1. PICK g : IsCount(g, s, b, n) /\ g[n] = v
  BY DEF Counts
<1>2. PICK h : IsCount(h, s, b, m) /\ h[m] = u
  BY DEF Counts
<1>3. /\ g \in [0 .. n -> Nat] /\ g[0] = 0
      /\ \A i \in 1 .. n : g[i] = g[i - 1] * 10 + DigitValue[s[b + i]]
  BY <1>1 DEF IsCount
<1>4. /\ h \in [0 .. m -> Nat] /\ h[0] = 0
      /\ \A i \in 1 .. m : h[i] = h[i - 1] * 10 + DigitValue[s[b + i]]
  BY <1>2 DEF IsCount
<1>5. h[m] = g[m]
  <2>1. PICK A : A = {i \in Nat : i <= m => h[i] = g[i]}
    OBVIOUS
  <2>2. 0 \in A
    BY <1>3, <1>4, <2>1
  <2>3. ASSUME NEW i \in 0 .. m - 1, i \in A PROVE i + 1 \in A
    <3>1. h[i] = g[i]
      BY <2>1, <2>3
    <3>2. i + 1 \in 1 .. m /\ i + 1 \in 1 .. n /\ (i + 1) - 1 = i /\ i + 1 \in Nat
      OBVIOUS
    <3>3. h[i + 1] = h[i] * 10 + DigitValue[s[b + (i + 1)]]
      BY <1>4, <3>2
    <3>4. g[i + 1] = g[i] * 10 + DigitValue[s[b + (i + 1)]]
      BY <1>3, <3>2
    <3> QED BY <2>1, <3>1, <3>2, <3>3, <3>4
  <2>4. 0 .. m \subseteq A
    BY <2>2, <2>3, UpTo
  <2>5. m \in A /\ m <= m
    BY <2>4
  <2> QED BY <2>1, <2>5
<1>6. g[m] <= g[n]
  <2>1. PICK A : A = {i \in Nat : i >= m /\ i <= n => g[m] <= g[i]}
    OBVIOUS
  <2>2. 0 \in A
    <3>1. 0 >= m => m = 0
      OBVIOUS
    <3>2. g[0] <= g[0]
      BY <1>3
    <3> QED BY <2>1, <3>1, <3>2
  <2>3. ASSUME NEW i \in 0 .. n - 1, i \in A PROVE i + 1 \in A
    <3>1. i + 1 \in 1 .. n /\ (i + 1) - 1 = i /\ i \in 0 .. n /\ i + 1 \in 0 .. n
          /\ m \in 0 .. n /\ b + (i + 1) = b + i + 1
      OBVIOUS
    <3>2. g[i + 1] = g[i] * 10 + DigitValue[s[b + (i + 1)]]
      BY <1>3, <3>1
    <3>3. DigitValue[s[b + (i + 1)]] \in 0 .. 9
      BY <3>1, LuluParsersAssumption DEF Digits, Digit
    <3>4. PICK x \in Nat, y \in Nat, z \in Nat : x = g[i] /\ y = g[i + 1] /\ z = g[m]
      BY <1>3, <3>1
    <3>5. y >= x
      BY <3>2, <3>3, <3>4
    <3>6. i >= m => z <= x
      BY <2>1, <2>3, <3>4
    <3>7. i + 1 >= m => i >= m \/ i + 1 = m
      OBVIOUS
    <3>8. i + 1 >= m => z <= y
      <4>1. i + 1 = m => y = z
        BY <3>4
      <4> QED BY <3>5, <3>6, <3>7, <4>1
    <3> QED BY <2>1, <3>4, <3>8
  <2>4. 0 .. n \subseteq A
    BY <2>2, <2>3, UpTo
  <2>5. n \in A /\ n >= m /\ n <= n
    BY <2>4
  <2> QED BY <2>1, <2>5
<1>7. g[n] \in Nat /\ h[m] \in Nat
  BY <1>3, <1>4
<1> QED BY <1>1, <1>2, <1>5, <1>6, <1>7

(* NumberOf is what the digits behind the bar come to.                     *)
LEMMA NumberCounts ==
    ASSUME NEW r, NEW n \in Nat, Len(r) = n + 1, NEW v, Counts(r, 1, n, v)
    PROVE  NumberOf(r) = v
<1> DEFINE F(f) == [i \in 0 .. Len(r) - 1 |-> IF i = 0 THEN 0
                                             ELSE f[i - 1] * 10 + DigitValue[r[i + 1]]]
<1>1. PICK g : IsCount(g, r, 1, n) /\ g[n] = v
  BY DEF Counts
<1>2. /\ g \in [0 .. n -> Nat] /\ g[0] = 0
      /\ \A i \in 1 .. n : g[i] = g[i - 1] * 10 + DigitValue[r[1 + i]]
  BY <1>1 DEF IsCount
<1>3. Len(r) - 1 = n
  OBVIOUS
<1>4. \A i \in 0 .. n : g[i] = IF i = 0 THEN 0 ELSE g[i - 1] * 10 + DigitValue[r[i + 1]]
  <2> TAKE i \in 0 .. n
  <2>1. i # 0 => i \in 1 .. n /\ 1 + i = i + 1
    OBVIOUS
  <2> QED BY <1>2, <2>1
<1>5. g = F(g)
  BY <1>2, <1>3, <1>4
<1>6. PICK f : f = CHOOSE x : x = F(x)
  OBVIOUS
<1>7. f = F(f)
  BY <1>5, <1>6
<1>8. NumberOf(r) = f[n]
  BY <1>3, <1>6 DEF NumberOf
<1>9. \A i \in 0 .. n : f[i] = IF i = 0 THEN 0 ELSE f[i - 1] * 10 + DigitValue[r[i + 1]]
  BY <1>3, <1>7
<1> HIDE DEF F
<1>10. f[n] = g[n]
  <2>1. PICK A : A = {i \in Nat : i <= n => f[i] = g[i]}
    OBVIOUS
  <2>2. 0 \in A
    <3>1. 0 \in 0 .. n
      OBVIOUS
    <3> QED BY <1>4, <1>9, <2>1, <3>1
  <2>3. ASSUME NEW i \in 0 .. n - 1, i \in A PROVE i + 1 \in A
    <3>1. f[i] = g[i]
      BY <2>1, <2>3
    <3>2. i + 1 \in 0 .. n /\ (i + 1) - 1 = i /\ i + 1 # 0 /\ i + 1 \in Nat
      OBVIOUS
    <3>3. f[i + 1] = f[i] * 10 + DigitValue[r[(i + 1) + 1]]
      BY <1>9, <3>2
    <3>4. g[i + 1] = g[i] * 10 + DigitValue[r[(i + 1) + 1]]
      BY <1>4, <3>2
    <3> QED BY <2>1, <3>1, <3>2, <3>3, <3>4
  <2>4. 0 .. n \subseteq A
    BY <2>2, <2>3, UpTo
  <2>5. n \in A /\ n <= n
    BY <2>4
  <2> QED BY <2>1, <2>5
<1> QED BY <1>1, <1>8, <1>10

-------------------------------------------------------------------------------
(* The line of a command with arguments, up to the bar before the first.   *)
ArgumentHead(k) == Opening(k) \o <<Bar>>

(* Where its parts are.                                                    *)
LEMMA ArgumentHeadIs ==
    ASSUME NEW k \in Command, NEW N \in Nat, N = Len(Opening(k))
    PROVE  /\ ArgumentHead(k) \in Seq(LuluByte) /\ Len(ArgumentHead(k)) = N + 1
           /\ \A i \in 1 .. N : ArgumentHead(k)[i] = Opening(k)[i]
           /\ ArgumentHead(k)[N + 1] = Bar
<1>1. PICK w : w = ArgumentHead(k)
  OBVIOUS
<1>2. PICK o \in Seq(LuluByte) : o = Opening(k)
  BY OpeningTypes
<1>3. PICK e : e = <<Bar>>
  OBVIOUS
<1>4. e \in Seq(LuluByte) /\ Len(e) = 1 /\ e[1] = Bar /\ Len(e) >= 1
  BY <1>3, StuffBytes
<1>5. w = o \o e
  BY <1>1, <1>2, <1>3 DEF ArgumentHead
<1>6. /\ w \in Seq(LuluByte) /\ Len(w) = N + 1
      /\ \A i \in 1 .. N + 1 : w[i] = IF i <= N THEN o[i] ELSE e[i - N]
  <2>1. /\ w \in Seq(LuluByte) /\ Len(w) = Len(o) + Len(e)
        /\ \A i \in 1 .. Len(o) + Len(e) :
             w[i] = IF i <= Len(o) THEN o[i] ELSE e[i - Len(o)]
    BY <1>4, <1>5, ConcatProperties
  <2> QED BY <1>2, <1>4, <2>1
<1>7. \A i \in 1 .. N : w[i] = o[i]
  BY <1>6
<1>8. w[N + 1] = e[1]
  <2>1. N + 1 \in 1 .. N + 1 /\ ~ (N + 1 <= N) /\ (N + 1) - N = 1
    OBVIOUS
  <2> QED BY <1>6, <2>1
<1> QED BY <1>1, <1>2, <1>4, <1>6, <1>7, <1>8

(* And when it opens with two words.                                       *)
LEMMA TwoWordsHead ==
    ASSUME NEW k \in TwoWorded, NEW N \in Nat, N = Len(Opening(k))
    PROVE  /\ TwoOpen(ArgumentHead(k), FirstWord(k), SecondWord(k))
           /\ N = Len(Word[FirstWord(k)]) + 1 + Len(Word[SecondWord(k)])
<1>1. PICK e : e = <<Bar>>
  OBVIOUS
<1>2. e \in Seq(LuluByte) /\ Len(e) >= 1
  BY <1>1, StuffBytes
<1>3. PICK a \in Words, b \in Words : a = FirstWord(k) /\ b = SecondWord(k)
  BY OpeningsOfTwo
<1>4. PICK o : o = Opening(k)
  OBVIOUS
<1>5. o = Word[a] \o <<Bar>> \o Word[b]
  BY <1>3, <1>4, OpeningsOfTwo
<1>6. TwoOpen(o \o e, a, b) /\ Len(o) = Len(Word[a]) + 1 + Len(Word[b])
  BY <1>2, <1>5, TwoWordsStand
<1>7. ArgumentHead(k) = o \o e
  BY <1>1, <1>4 DEF ArgumentHead
<1> QED BY <1>3, <1>4, <1>6, <1>7

-------------------------------------------------------------------------------
(* Commands that set a number.                                             *)
(* n digits behind the bar, and where a parser is that has had them.       *)
NumberEnds(p, s, b, n) ==
    \/ p.state = "Value" /\ Len(s) = b + n
    \/ p.state = "CRLF" /\ Len(s) = b + n + 1 /\ s[b + n + 1] = CR
    \/ p.state = "Finished" /\ Len(s) >= b + n + 2 /\ s[b + n + 1] = CR /\ s[b + n + 2] = LF

(* n digits that are too many, or that something else follows.             *)
NumberWrong(s, b, n) ==
    \/ \E v : Counts(s, b, n, v) /\ v > MaxValue
    \/ Len(s) >= b + n + 1 /\ s[b + n + 1] \notin Digit \cup {CR}
    \/ Len(s) >= b + n + 2 /\ s[b + n + 1] = CR /\ s[b + n + 2] # LF

NumberRead(p, s, b) ==
    \E n \in Nat : /\ Digits(s, b, n) /\ Counts(s, b, n, p.value) /\ p.value <= MaxValue
                   /\ NumberEnds(p, s, b, n)

NumberFailed(s, h, b) ==
    Differs(s, h) \/ (Begins(s, h) /\ \E n \in Nat : Digits(s, b, n) /\ NumberWrong(s, b, n))

NumberKnows(p, s, k) ==
    LET h == ArgumentHead(k)
        b == Len(Opening(k)) + 1
    IN \/ InWords(p, s, h, FirstWord(k), SecondWord(k)) /\ p.value = 0
       \/ Begins(s, h) /\ NumberRead(p, s, b)
       \/ p.state = "Invalid" /\ NumberFailed(s, h, b)

(* A line that sets a number: n digits.                                    *)
NumberLine(k, s, n) ==
    LET b == Len(Opening(k)) + 1
    IN /\ Begins(s, ArgumentHead(k)) /\ Digits(s, b, n)
       /\ Len(s) >= b + n + 2 /\ s[b + n + 1] = CR /\ s[b + n + 2] = LF

(* Where the parts of the line are, up to the number.                      *)
LEMMA NumberHeadIs ==
    ASSUME NEW k \in Numbered, NEW N \in Nat, N = Len(Opening(k))
    PROVE  /\ ArgumentHead(k) \in Seq(LuluByte) /\ Len(ArgumentHead(k)) = N + 1
           /\ \A i \in 1 .. N : ArgumentHead(k)[i] = Opening(k)[i]
           /\ ArgumentHead(k)[N + 1] = Bar
           /\ TwoOpen(ArgumentHead(k), FirstWord(k), SecondWord(k))
           /\ N = Len(Word[FirstWord(k)]) + 1 + Len(Word[SecondWord(k)])
<1>1. k \in Command /\ k \in TwoWorded
  BY DEF Numbered, TwoWorded, Command
<1> QED BY <1>1, ArgumentHeadIs, TwoWordsHead

(* The same line as the grammar has it.                                    *)
NumeralLine(k, r) == EndsLine(r) /\ Opens(k, r) /\ Numeral(Rest(k, r))

(* The grammar has such a line where the positions have it, and the number *)
(* it stands for is what its digits come to.                               *)
LEMMA NumberGrammar ==
    ASSUME NEW k \in Numbered, NEW s \in Seq(LuluByte), NEW l \in Nat, l <= Len(s),
           NEW n \in Int, l = Len(Opening(k)) + n + 3
    PROVE  /\ NumeralLine(k, SubSeq(s, 1, l)) <=> n \in Nat /\ NumberLine(k, s, n)
           /\ n \in Nat => \A v : Counts(s, Len(Opening(k)) + 1, n, v)
                                  /\ NumeralLine(k, SubSeq(s, 1, l))
                                  => NumberOf(Rest(k, SubSeq(s, 1, l))) = v
<1>1. PICK N \in Nat : N = Len(Opening(k))
  BY OpeningTypes DEF Numbered, Command
<1>2. PICK m \in Nat : m = Len(s)
  BY LenProperties
<1>3. PICK r : r = SubSeq(s, 1, l)
  OBVIOUS
<1>4. PICK u : u = Rest(k, r)
  OBVIOUS
<1>5. l = N + n + 3 /\ l <= m
  BY <1>1, <1>2
<1>6. /\ EndsLine(r) /\ Opens(k, r) <=> LineAt(k, s, l)
      /\ LineAt(k, s, l) => RestIs(k, s, l)
  BY <1>3, PrefixIsLine DEF Numbered, Command
<1>7. PICK h : h = ArgumentHead(k)
  OBVIOUS
<1>8. Len(h) = N + 1 /\ (\A i \in 1 .. N : h[i] = Opening(k)[i]) /\ h[N + 1] = Bar
  BY <1>1, <1>7, NumberHeadIs
<1>9. Begins(s, h) <=> N + 1 <= m /\ (\A i \in 1 .. N : s[i] = Opening(k)[i]) /\ s[N + 1] = Bar
  <2>1. \A i : i \in 1 .. N + 1 <=> i \in 1 .. N \/ i = N + 1
    OBVIOUS
  <2>2. Begins(s, h) <=> N + 1 <= m /\ \A i \in 1 .. N + 1 : s[i] = h[i]
    BY <1>2, <1>8 DEF Begins
  <2> QED BY <1>8, <2>1, <2>2
<1>10. LineAt(k, s, l) <=> /\ l >= N + 2 /\ (\A i \in 1 .. N : s[i] = Opening(k)[i])
                           /\ s[l - 1] = CR /\ s[l] = LF
  BY <1>1, <1>2, <1>5 DEF LineAt
<1>11. LineAt(k, s, l) => /\ u \in Seq(LuluByte) /\ Len(u) = n + 1
                          /\ \A i \in 1 .. n + 1 : u[i] = s[N + i]
  <2>1. l - 2 - N = n + 1
    BY <1>5
  <2> QED BY <1>1, <1>3, <1>4, <1>6, <2>1 DEF RestIs
<1>12. ASSUME LineAt(k, s, l)
       PROVE  Numeral(u) <=> n \in Nat /\ s[N + 1] = Bar /\ \A i \in 1 .. n : s[N + 1 + i] \in Digit
  <2>1. u \in Seq(LuluByte) /\ Len(u) = n + 1 /\ \A i \in 1 .. n + 1 : u[i] = s[N + i]
    BY <1>11, <1>12
  <2>2. u = <<>> <=> n = -1
    <3>1. u = <<>> <=> Len(u) = 0
      BY <2>1, EmptySeq, LenProperties
    <3> QED BY <2>1, <3>1
  <2>3. n + 1 >= 0
    BY <1>5, <1>10, <1>12
  <2>4. CASE n = -1
    BY <2>2, <2>4 DEF Numeral
  <2>5. CASE n # -1
    <3>1. n \in Nat /\ u # <<>>
      BY <2>2, <2>3, <2>5
    <3>2. u[1] = s[N + 1]
      <4>1. 1 \in 1 .. n + 1
        BY <3>1
      <4> QED BY <2>1, <4>1
    <3>3. (\A i \in 2 .. n + 1 : u[i] \in Digit) <=> \A i \in 1 .. n : s[N + 1 + i] \in Digit
      <4>1. ASSUME \A i \in 2 .. n + 1 : u[i] \in Digit, NEW i \in 1 .. n
            PROVE  s[N + 1 + i] \in Digit
        <5>1. i + 1 \in 2 .. n + 1 /\ i + 1 \in 1 .. n + 1 /\ N + (i + 1) = N + 1 + i
          OBVIOUS
        <5>2. u[i + 1] = s[N + (i + 1)]
          BY <2>1, <5>1
        <5> QED BY <4>1, <5>1, <5>2
      <4>2. ASSUME \A i \in 1 .. n : s[N + 1 + i] \in Digit, NEW i \in 2 .. n + 1
            PROVE  u[i] \in Digit
        <5>1. i - 1 \in 1 .. n /\ i \in 1 .. n + 1 /\ N + i = N + 1 + (i - 1)
          OBVIOUS
        <5>2. u[i] = s[N + i]
          BY <2>1, <5>1
        <5> QED BY <4>2, <5>1, <5>2
      <4> QED BY <4>1, <4>2
    <3> QED BY <2>1, <3>1, <3>2, <3>3 DEF Numeral
  <2> QED BY <2>4, <2>5
<1>13. NumeralLine(k, r) <=> n \in Nat /\ NumberLine(k, s, n)
  <2>1. CASE n \notin Nat
    BY <1>4, <1>6, <1>12, <2>1 DEF NumeralLine
  <2>2. CASE n \in Nat
    <3>1. l - 1 = N + 1 + n + 1 /\ l = N + 1 + n + 2 /\ l >= N + 2 /\ N + 1 <= m /\ N + 1 + n <= m
          /\ m >= N + 1 + n + 2
      BY <1>5, <2>2
    <3>2. NumberLine(k, s, n) <=> /\ Begins(s, h) /\ Digits(s, N + 1, n)
                                  /\ s[l - 1] = CR /\ s[l] = LF
      BY <1>1, <1>2, <1>7, <3>1 DEF NumberLine
    <3>3. Digits(s, N + 1, n) <=> \A i \in 1 .. n : s[N + 1 + i] \in Digit
      BY <1>2, <3>1 DEF Digits
    <3> QED BY <1>4, <1>6, <1>9, <1>10, <1>12, <2>2, <3>1, <3>2, <3>3 DEF NumeralLine
  <2> QED BY <2>1, <2>2
<1>14. ASSUME n \in Nat, NEW v, Counts(s, N + 1, n, v), NumeralLine(k, r)
       PROVE  NumberOf(u) = v
  <2>1. Len(u) = n + 1 /\ \A i \in 1 .. n + 1 : u[i] = s[N + i]
    BY <1>6, <1>11, <1>14 DEF NumeralLine
  <2>2. \A i \in 1 .. n : s[N + 1 + i] = u[1 + i]
    <3> TAKE i \in 1 .. n
    <3>1. 1 + i \in 1 .. n + 1 /\ N + (1 + i) = N + 1 + i
      BY <1>14
    <3> QED BY <2>1, <3>1
  <2>3. N + 1 \in Nat /\ 1 \in Nat
    OBVIOUS
  <2>4. Counts(u, 1, n, v)
    BY <1>14, <2>2, <2>3, CountsStays
  <2> QED BY <1>14, <2>1, <2>4, NumberCounts
<1> QED BY <1>1, <1>3, <1>4, <1>13, <1>14

-------------------------------------------------------------------------------
(* The digits end where something else stands.                             *)
LEMMA DigitsEnd ==
    ASSUME NEW s, NEW b \in Nat, NEW n \in Nat, Digits(s, b, n), NEW j \in Nat,
           s[b + j + 1] \notin Digit
    PROVE  n <= j
<1>1. SUFFICES ASSUME n > j PROVE FALSE
  OBVIOUS
<1>2. j + 1 \in 1 .. n /\ b + (j + 1) = b + j + 1
  BY <1>1
<1> QED BY <1>2 DEF Digits

(* A \r is not a digit.                                                   *)
LEMMA ReturnIsNoDigit == CR \notin Digit
BY LuluParsersAssumption DEF Digit

(* Of a stream that has a line of n digits in front, all that the parser   *)
(* can know is that it has read it.                                        *)
LEMMA NumberDecided ==
    ASSUME NEW k \in Numbered, NEW p \in Parser, NEW s \in Seq(LuluByte), NumberKnows(p, s, k),
           NEW n \in Nat, NumberLine(k, s, n),
           NEW v \in Nat, Counts(s, Len(Opening(k)) + 1, n, v), v <= MaxValue
    PROVE  p.state = "Finished"
<1>1. PICK N \in Nat : N = Len(Opening(k))
  BY OpeningTypes DEF Numbered, Command
<1>2. PICK m \in Nat : m = Len(s)
  BY LenProperties
<1>3. PICK b \in Nat : b = N + 1
  OBVIOUS
<1>4. PICK h : h = ArgumentHead(k)
  OBVIOUS
<1>5. Len(h) = b /\ N = Len(Word[FirstWord(k)]) + 1 + Len(Word[SecondWord(k)])
  BY <1>1, <1>3, <1>4, NumberHeadIs
<1>6. /\ Begins(s, h) /\ Digits(s, b, n) /\ m >= b + n + 2
      /\ s[b + n + 1] = CR /\ s[b + n + 2] = LF
  BY <1>1, <1>2, <1>3, <1>4 DEF NumberLine
<1>7. Counts(s, b, n, v)
  BY <1>1, <1>3
<1>8. s[b + n + 1] \notin Digit
  BY <1>6, ReturnIsNoDigit
<1>9. ASSUME InWords(p, s, h, FirstWord(k), SecondWord(k)) PROVE FALSE
  <2>1. k \in TwoWorded
    BY DEF Numbered, TwoWorded, Command
  <2>2. PICK n1 \in Nat : n1 = Len(Word[FirstWord(k)])
    BY <2>1, OpeningsOfTwo, WordTypes
  <2>3. PICK n2 \in Nat : n2 = Len(Word[SecondWord(k)])
    BY <2>1, OpeningsOfTwo, WordTypes
  <2>4. PICK a \in Nat : a = p.at
    BY DEF Parser
  <2>5. (m = 0 + a /\ a <= n1) \/ (m = n1 + 1 + a /\ a <= n2)
    BY <1>2, <1>9, <2>2, <2>3, <2>4, Zenon DEF InWords, InsideWord
  <2>6. N = n1 + 1 + n2
    BY <1>5, <2>2, <2>3
  <2> QED BY <1>3, <1>6, <2>5, <2>6
<1>10. ASSUME NEW i \in Nat, Digits(s, b, i) PROVE i <= n
  BY <1>8, <1>10, DigitsEnd
<1>11. ASSUME NEW i \in Nat, Digits(s, b, i), NumberEnds(p, s, b, i)
       PROVE  p.state = "Finished"
  <2>1. i <= n
    BY <1>10, <1>11
  <2>2. CASE Len(s) = b + i
    BY <1>2, <1>6, <2>1, <2>2
  <2>3. CASE Len(s) = b + i + 1
    BY <1>2, <1>6, <2>1, <2>3
  <2> QED BY <1>11, <2>2, <2>3 DEF NumberEnds
<1>12. ASSUME NumberFailed(s, h, b) PROVE FALSE
  <2>1. ~ Differs(s, h)
    <3>1. Len(s) \in Nat /\ Len(h) \in Nat
      BY <1>2, <1>5
    <3> QED BY <1>6, <3>1, NotBoth
  <2>2. PICK i \in Nat : Digits(s, b, i) /\ NumberWrong(s, b, i)
    BY <1>12, <2>1 DEF NumberFailed
  <2>3. i <= n
    BY <1>10, <2>2
  <2>4. ASSUME NEW u, Counts(s, b, i, u), u > MaxValue PROVE FALSE
    <3>1. u \in Nat /\ u <= v
      BY <1>6, <1>7, <2>3, <2>4, CountsGrow
    <3>2. MaxValue \in Nat
      BY LuluParsersAssumption
    <3> QED BY <2>4, <3>1, <3>2
  <2>5. CASE i = n
    <3>1. b + i + 1 = b + n + 1 /\ b + i + 2 = b + n + 2
      BY <2>5
    <3> QED BY <1>6, <2>2, <2>4, <3>1 DEF NumberWrong
  <2>6. CASE i # n
    <3>1. i + 1 \in 1 .. n /\ b + (i + 1) = b + i + 1
      BY <2>3, <2>6
    <3>2. s[b + i + 1] \in Digit
      BY <1>6, <3>1 DEF Digits
    <3> QED BY <2>2, <2>4, <3>2, ReturnIsNoDigit DEF NumberWrong
  <2> QED BY <2>5, <2>6
<1> QED BY <1>1, <1>3, <1>4, <1>9, <1>11, <1>12 DEF NumberKnows, NumberRead

(* The stream has a line that sets the number v in front.                  *)
SentNumber(k, s, v) ==
    \E l \in 0 .. Len(s) : LET r == SubSeq(s, 1, l) IN
        NumeralLine(k, r) /\ NumberOf(Rest(k, r)) <= MaxValue /\ v = NumberOf(Rest(k, r))

(* A parser that knows what it was sent has finished exactly when that was *)
(* such a line, and has its number.                                        *)
LEMMA NumberExact ==
    ASSUME NEW k \in Numbered, NEW p \in Parser, NEW s \in Seq(LuluByte), NumberKnows(p, s, k)
    PROVE  p.state = "Finished" <=> SentNumber(k, s, p.value)
<1>1. PICK N \in Nat : N = Len(Opening(k))
  BY OpeningTypes DEF Numbered, Command
<1>2. PICK m \in Nat : m = Len(s)
  BY LenProperties
<1>3. PICK b \in Nat : b = N + 1
  OBVIOUS
<1>4. PICK h : h = ArgumentHead(k)
  OBVIOUS
<1>5. ASSUME p.state = "Finished" PROVE SentNumber(k, s, p.value)
  <2>1. Begins(s, h) /\ NumberRead(p, s, b)
    BY <1>1, <1>3, <1>4, <1>5 DEF NumberKnows, InWords
  <2>2. PICK n \in Nat : /\ Digits(s, b, n) /\ Counts(s, b, n, p.value) /\ p.value <= MaxValue
                         /\ NumberEnds(p, s, b, n)
    BY <2>1 DEF NumberRead
  <2>3. m >= b + n + 2 /\ s[b + n + 1] = CR /\ s[b + n + 2] = LF
    BY <1>2, <1>5, <2>2 DEF NumberEnds
  <2>4. NumberLine(k, s, n)
    BY <1>1, <1>2, <1>3, <1>4, <2>1, <2>2, <2>3 DEF NumberLine
  <2>5. PICK l \in Nat : l = N + n + 3
    OBVIOUS
  <2>6. l \in 0 .. Len(s) /\ l <= Len(s) /\ l = Len(Opening(k)) + n + 3
    BY <1>1, <1>2, <1>3, <2>3, <2>5
  <2>7. NumeralLine(k, SubSeq(s, 1, l))
    BY <2>4, <2>6, NumberGrammar
  <2>8. Counts(s, Len(Opening(k)) + 1, n, p.value)
    BY <1>1, <1>3, <2>2
  <2>9. NumberOf(Rest(k, SubSeq(s, 1, l))) = p.value
    BY <2>6, <2>7, <2>8, NumberGrammar
  <2> QED BY <2>2, <2>6, <2>7, <2>9 DEF SentNumber
<1>6. ASSUME SentNumber(k, s, p.value) PROVE p.state = "Finished"
  <2>1. PICK l \in 0 .. Len(s) : /\ NumeralLine(k, SubSeq(s, 1, l))
                                 /\ NumberOf(Rest(k, SubSeq(s, 1, l))) <= MaxValue
    BY <1>6 DEF SentNumber
  <2>2. l \in Nat /\ l <= Len(s)
    BY <1>2
  <2>3. PICK n \in Int : n = l - N - 3
    BY <2>2
  <2>4. l = Len(Opening(k)) + n + 3
    BY <1>1, <2>2, <2>3
  <2>5. n \in Nat /\ NumberLine(k, s, n)
    BY <2>1, <2>2, <2>4, NumberGrammar
  <2>6. Digits(s, b, n)
    BY <1>1, <1>3, <2>5 DEF NumberLine
  <2>7. PICK v \in Nat : Counts(s, b, n, v)
    BY <2>5, <2>6, CountExists
  <2>8. Counts(s, Len(Opening(k)) + 1, n, v)
    BY <1>1, <1>3, <2>7
  <2>9. NumberOf(Rest(k, SubSeq(s, 1, l))) = v
    BY <2>1, <2>2, <2>4, <2>5, <2>8, NumberGrammar
  <2> QED BY <2>1, <2>5, <2>8, <2>9, NumberDecided
<1> QED BY <1>5, <1>6

-------------------------------------------------------------------------------
(* What was read stays read, and what failed goes on failing.              *)
LEMMA NumberStays ==
    ASSUME NEW s \in Seq(LuluByte), NEW c \in LuluByte, NEW t, t = Append(s, c),
           NEW b \in Nat, NEW n \in Nat, Digits(s, b, n)
    PROVE  /\ Digits(t, b, n) /\ \A v : Counts(s, b, n, v) => Counts(t, b, n, v)
           /\ NumberWrong(s, b, n) => NumberWrong(t, b, n)
<1>1. PICK m \in Nat : m = Len(s)
  BY LenProperties
<1>2. Len(t) = m + 1 /\ \A i \in 1 .. m : t[i] = s[i]
  BY <1>1, AppendProperties
<1>3. b + n <= m /\ \A i \in 1 .. n : s[b + i] \in Digit
  BY <1>1 DEF Digits
<1>4. \A i \in 1 .. n : s[b + i] = t[b + i]
  <2>1. \A i \in 1 .. n : b + i \in 1 .. m
    BY <1>3
  <2> QED BY <1>2, <2>1
<1>5. Digits(t, b, n)
  BY <1>2, <1>3, <1>4 DEF Digits
<1>6. \A v : Counts(s, b, n, v) => Counts(t, b, n, v)
  BY <1>4, CountsStays
<1>7. ASSUME NumberWrong(s, b, n) PROVE NumberWrong(t, b, n)
  <2>1. CASE \E v : Counts(s, b, n, v) /\ v > MaxValue
    BY <1>6, <2>1 DEF NumberWrong
  <2>2. CASE Len(s) >= b + n + 1 /\ s[b + n + 1] \notin Digit \cup {CR}
    <3>1. b + n + 1 \in 1 .. m /\ Len(t) >= b + n + 1
      BY <1>1, <1>2, <2>2
    <3> QED BY <1>2, <2>2, <3>1 DEF NumberWrong
  <2>3. CASE Len(s) >= b + n + 2 /\ s[b + n + 1] = CR /\ s[b + n + 2] # LF
    <3>1. b + n + 1 \in 1 .. m /\ b + n + 2 \in 1 .. m /\ Len(t) >= b + n + 2
      BY <1>1, <1>2, <2>3
    <3> QED BY <1>2, <2>3, <3>1 DEF NumberWrong
  <2> QED BY <1>7, <2>1, <2>2, <2>3 DEF NumberWrong
<1> QED BY <1>5, <1>6, <1>7

(* The same of what the parser knows, once it has ended.                   *)
LEMMA NumberEnded ==
    ASSUME NEW k \in Numbered, NEW p, NEW s \in Seq(LuluByte), NEW c \in LuluByte,
           NumberKnows(p, s, k), p.state \in {"Finished", "Invalid"}
    PROVE  NumberKnows(p, Append(s, c), k)
<1>1. PICK t : t = Append(s, c)
  OBVIOUS
<1>2. PICK h : h = ArgumentHead(k)
  OBVIOUS
<1>3. PICK N \in Nat : N = Len(Opening(k))
  BY OpeningTypes DEF Numbered, Command
<1>4. PICK b \in Nat : b = N + 1
  OBVIOUS
<1>5. Len(h) \in Nat
  BY <1>2, <1>3, NumberHeadIs
<1>6. (Differs(s, h) => Differs(t, h)) /\ (Begins(s, h) => Begins(t, h))
  BY <1>1, <1>5, DifferenceStays
<1>7. ASSUME Begins(s, h), NumberRead(p, s, b) PROVE NumberKnows(p, t, k)
  <2>1. PICK n \in Nat : /\ Digits(s, b, n) /\ Counts(s, b, n, p.value) /\ p.value <= MaxValue
                         /\ NumberEnds(p, s, b, n)
    BY <1>7 DEF NumberRead
  <2>2. Digits(t, b, n) /\ Counts(t, b, n, p.value)
    BY <1>1, <2>1, NumberStays
  <2>3. NumberEnds(p, t, b, n)
    <3>1. PICK m \in Nat : m = Len(s)
      BY LenProperties
    <3>2. Len(t) = m + 1 /\ \A i \in 1 .. m : t[i] = s[i]
      BY <1>1, <3>1, AppendProperties
    <3>3. p.state = "Finished" /\ m >= b + n + 2 /\ s[b + n + 1] = CR /\ s[b + n + 2] = LF
      BY <2>1, <3>1 DEF NumberEnds
    <3>4. b + n + 1 \in 1 .. m /\ b + n + 2 \in 1 .. m /\ Len(t) >= b + n + 2
      BY <3>2, <3>3
    <3> QED BY <3>2, <3>3, <3>4 DEF NumberEnds
  <2>4. NumberRead(p, t, b)
    BY <2>1, <2>2, <2>3 DEF NumberRead
  <2> QED BY <1>2, <1>3, <1>4, <1>6, <1>7, <2>4 DEF NumberKnows
<1>8. ASSUME p.state = "Invalid", NumberFailed(s, h, b) PROVE NumberKnows(p, t, k)
  <2>1. NumberFailed(t, h, b)
    <3>1. CASE Differs(s, h)
      BY <1>6, <3>1 DEF NumberFailed
    <3>2. ASSUME Begins(s, h), NEW n \in Nat, Digits(s, b, n), NumberWrong(s, b, n)
          PROVE  NumberFailed(t, h, b)
      <4>1. Digits(t, b, n) /\ NumberWrong(t, b, n)
        BY <1>1, <3>2, NumberStays
      <4> QED BY <1>6, <3>2, <4>1 DEF NumberFailed
    <3> QED BY <1>8, <3>1, <3>2 DEF NumberFailed
  <2> QED BY <1>2, <1>3, <1>4, <1>8, <2>1 DEF NumberKnows
<1> QED BY <1>1, <1>2, <1>3, <1>4, <1>7, <1>8 DEF NumberKnows, InWords

(* A byte where a digit may stand.                                         *)
LEMMA DigitFed ==
    ASSUME NEW k \in Numbered, NEW p \in Parser, NEW s \in Seq(LuluByte), NEW c \in LuluByte,
           NEW b \in Nat, b = Len(Opening(k)) + 1, NEW n \in Nat, Begins(s, ArgumentHead(k)),
           Digits(s, b, n), Counts(s, b, n, p.value), p.value <= MaxValue,
           Len(s) = b + n, p.state = "Value", NEW second
    PROVE  NumberKnows(SetValue(p, c, second), Append(s, c), k)
<1>1. PICK t : t = Append(s, c)
  OBVIOUS
<1>2. PICK q : q = SetValue(p, c, second)
  OBVIOUS
<1>3. PICK h : h = ArgumentHead(k)
  OBVIOUS
<1>4. Len(t) = b + n + 1 /\ t[b + n + 1] = c
  BY <1>1, AppendProperties
<1>5. Begins(t, h)
  <2>1. Len(h) \in Nat
    BY <1>3, NumberHeadIs, OpeningTypes, LenProperties DEF Numbered, Command
  <2> QED BY <1>1, <1>3, <2>1, DifferenceStays
<1>6. Digits(t, b, n) /\ Counts(t, b, n, p.value)
  BY <1>1, NumberStays
<1>7. PICK old \in Nat : old = p.value
  BY DEF Parser
<1>8. CASE c \in Digit
  <2>1. PICK value : value = old * 10 + DigitValue[c]
    OBVIOUS
  <2>2. q = NextDigit(p, c)
    BY <1>2, <1>8, Zenon DEF SetValue
  <2>3. q = [p EXCEPT !.value = value, !.state = IF value > MaxValue THEN "Invalid" ELSE @]
    BY <1>7, <2>1, <2>2 DEF NextDigit
  <2>4. q.value = value /\ q.state = IF value > MaxValue THEN "Invalid" ELSE "Value"
    BY <2>3 DEF Parser
  <2>5. t[b + n + 1] \in Digit /\ Counts(t, b, n, old)
    BY <1>4, <1>6, <1>7, <1>8
  <2>6. value \in Nat /\ Counts(t, b, n + 1, value)
    BY <1>4, <2>1, <2>5, CountsMore
  <2>7. Digits(t, b, n + 1)
    <3>1. \A i \in 1 .. n + 1 : i \in 1 .. n \/ b + i = b + n + 1
      OBVIOUS
    <3>2. b + (n + 1) <= Len(t)
      BY <1>4
    <3> QED BY <1>6, <2>5, <3>1, <3>2 DEF Digits
  <2>8. CASE value > MaxValue
    <3>1. NumberWrong(t, b, n + 1) /\ n + 1 \in Nat
      BY <2>6, <2>8 DEF NumberWrong
    <3>2. NumberFailed(t, h, b)
      BY <1>5, <2>7, <3>1 DEF NumberFailed
    <3> QED BY <1>1, <1>2, <1>3, <2>4, <2>8, <3>2 DEF NumberKnows
  <2>9. CASE ~ (value > MaxValue)
    <3>1. value <= MaxValue
      BY <2>6, <2>9, LuluParsersAssumption
    <3>2. NumberEnds(q, t, b, n + 1)
      <4>1. b + (n + 1) = b + n + 1
        OBVIOUS
      <4> QED BY <1>4, <2>4, <2>9, <4>1 DEF NumberEnds
    <3>3. NumberRead(q, t, b)
      BY <2>4, <2>6, <2>7, <3>1, <3>2 DEF NumberRead
    <3> QED BY <1>1, <1>2, <1>3, <1>5, <3>3 DEF NumberKnows
  <2> QED BY <2>8, <2>9
<1>9. CASE c \notin Digit
  <2>1. q = To(p, IF c = CR THEN "CRLF" ELSE "Invalid")
    BY <1>2, <1>9, Zenon DEF SetValue
  <2>2. q.value = p.value /\ q.state = IF c = CR THEN "CRLF" ELSE "Invalid"
    BY <2>1 DEF To, Parser
  <2>3. CASE c = CR
    <3>1. NumberEnds(q, t, b, n)
      BY <1>4, <2>2, <2>3 DEF NumberEnds
    <3>2. NumberRead(q, t, b)
      BY <1>6, <2>2, <3>1 DEF NumberRead
    <3> QED BY <1>1, <1>2, <1>3, <1>5, <3>2 DEF NumberKnows
  <2>4. CASE c # CR
    <3>1. NumberWrong(t, b, n)
      BY <1>4, <1>9, <2>4 DEF NumberWrong
    <3>2. NumberFailed(t, h, b)
      BY <1>5, <1>6, <3>1 DEF NumberFailed
    <3> QED BY <1>1, <1>2, <1>3, <2>2, <2>4, <3>2 DEF NumberKnows
  <2> QED BY <2>3, <2>4
<1> QED BY <1>8, <1>9

(* The byte behind the \r of a number.                                     *)
LEMMA NumberReturned ==
    ASSUME NEW k \in Numbered, NEW p \in Parser, NEW s \in Seq(LuluByte), NEW c \in LuluByte,
           NEW b \in Nat, b = Len(Opening(k)) + 1, NEW n \in Nat, Begins(s, ArgumentHead(k)),
           Digits(s, b, n), Counts(s, b, n, p.value), p.value <= MaxValue,
           Len(s) = b + n + 1, s[b + n + 1] = CR
    PROVE  NumberKnows(LineFeed(p, c), Append(s, c), k)
<1>1. PICK t : t = Append(s, c)
  OBVIOUS
<1>2. PICK q : q = LineFeed(p, c)
  OBVIOUS
<1>3. PICK h : h = ArgumentHead(k)
  OBVIOUS
<1>4. Len(t) = b + n + 2 /\ t[b + n + 2] = c /\ t[b + n + 1] = CR
  <2>1. PICK m \in Nat : m = Len(s)
    BY LenProperties
  <2>2. Len(t) = m + 1 /\ t[m + 1] = c /\ \A i \in 1 .. m : t[i] = s[i]
    BY <1>1, <2>1, AppendProperties
  <2>3. m = b + n + 1
    BY <2>1
  <2>4. m \in 1 .. m /\ m + 1 = b + n + 2
    BY <2>3
  <2>5. t[m] = s[m]
    BY <2>2, <2>4
  <2> QED BY <2>2, <2>3, <2>4, <2>5
<1>5. Begins(t, h)
  <2>1. Len(h) \in Nat
    BY <1>3, NumberHeadIs, OpeningTypes, LenProperties DEF Numbered, Command
  <2> QED BY <1>1, <1>3, <2>1, DifferenceStays
<1>6. Digits(t, b, n) /\ Counts(t, b, n, p.value)
  BY <1>1, NumberStays
<1>7. q.value = p.value /\ q.state = IF c = LF THEN "Finished" ELSE "Invalid"
  BY <1>2 DEF LineFeed, To, Parser
<1>8. CASE c = LF
  <2>1. NumberEnds(q, t, b, n)
    <3>1. Len(t) >= b + n + 2
      BY <1>4
    <3> QED BY <1>4, <1>7, <1>8, <3>1 DEF NumberEnds
  <2>2. NumberRead(q, t, b)
    BY <1>6, <1>7, <2>1 DEF NumberRead
  <2> QED BY <1>1, <1>2, <1>3, <1>5, <2>2 DEF NumberKnows
<1>9. CASE c # LF
  <2>1. NumberWrong(t, b, n)
    <3>1. Len(t) >= b + n + 2
      BY <1>4
    <3> QED BY <1>4, <1>9, <3>1 DEF NumberWrong
  <2>2. NumberFailed(t, h, b)
    BY <1>5, <1>6, <2>1 DEF NumberFailed
  <2> QED BY <1>1, <1>2, <1>3, <1>7, <1>9, <2>2 DEF NumberKnows
<1> QED BY <1>8, <1>9

-------------------------------------------------------------------------------
(* The parsers of the two commands that set a number are one.              *)
LEMMA NumberParser ==
    ASSUME NEW k \in Numbered, NEW p, NEW c
    PROVE  Feed(k, p, c) = SetValue(p, c, SecondWord(k)) /\ FirstWord(k) = "SET"
<1>1. CASE k = "SET BUFFERSIZE"
  <2>1. OpeningWords[k] = <<"SET", "BUFFERSIZE">>
    BY <1>1, Zenon DEF OpeningWords, Command
  <2>2. FirstWord(k) = "SET" /\ SecondWord(k) = "BUFFERSIZE"
    BY <2>1 DEF FirstWord, SecondWord
  <2>3. Feed(k, p, c) = SetBufferSizeFeed(p, c)
    BY <1>1, Zenon DEF Feed
  <2> QED BY <2>2, <2>3 DEF SetBufferSizeFeed
<1>2. CASE k = "SET TIMEOUT"
  <2>1. OpeningWords[k] = <<"SET", "TIMEOUT">>
    BY <1>2, Zenon DEF OpeningWords, Command
  <2>2. FirstWord(k) = "SET" /\ SecondWord(k) = "TIMEOUT"
    BY <2>1 DEF FirstWord, SecondWord
  <2>3. Feed(k, p, c) = TimeoutFeed(p, c)
    BY <1>2, Zenon DEF Feed
  <2> QED BY <2>2, <2>3 DEF TimeoutFeed
<1> QED BY <1>1, <1>2 DEF Numbered

(* A byte more in the words, or the bar behind them.                       *)
LEMMA NumberWordsFed ==
    ASSUME NEW k \in Numbered, NEW p \in Parser, NEW s \in Seq(LuluByte), NEW c \in LuluByte,
           InWords(p, s, ArgumentHead(k), FirstWord(k), SecondWord(k)), p.value = 0
    PROVE  NumberKnows(Feed(k, p, c), Append(s, c), k)
<1>1. PICK t : t = Append(s, c)
  OBVIOUS
<1>2. PICK q : q = Feed(k, p, c)
  OBVIOUS
<1>3. PICK h : h = ArgumentHead(k)
  OBVIOUS
<1>4. PICK N \in Nat : N = Len(Opening(k))
  BY OpeningTypes DEF Numbered, Command
<1>5. /\ h \in Seq(LuluByte) /\ Len(h) = N + 1 /\ h[N + 1] = Bar
      /\ TwoOpen(h, FirstWord(k), SecondWord(k))
      /\ N = Len(Word[FirstWord(k)]) + 1 + Len(Word[SecondWord(k)])
  BY <1>3, <1>4, NumberHeadIs
<1>6. PICK a \in Words, b \in Words : a = FirstWord(k) /\ b = SecondWord(k)
  <2>1. k \in TwoWorded
    BY DEF Numbered, TwoWorded, Command
  <2> QED BY <2>1, OpeningsOfTwo
<1>7. q = SetValue(p, c, b) /\ a = "SET"
  BY <1>2, <1>6, NumberParser
<1>8. p.state = "First" => q = Traverse(p, c, a, Bar, "Second")
  BY <1>7, Zenon DEF SetValue
<1>9. p.state = "Second" => q = Traverse(p, c, b, Bar, "Value")
  BY <1>7, Zenon DEF SetValue
<1>10. WordsResult(p, c, s, t, h, a, b, Bar, "Value", q)
  <2>1. TwoOpen(h, a, b) /\ InWords(p, s, h, a, b)
    BY <1>3, <1>5, <1>6
  <2> QED BY <1>1, <1>8, <1>9, <2>1, WordsFed
<1>11. CASE InWords(q, t, h, a, b) /\ q.value = p.value
  BY <1>1, <1>2, <1>3, <1>6, <1>11 DEF NumberKnows
<1>12. CASE q.state = "Invalid" /\ Differs(t, h)
  BY <1>1, <1>2, <1>3, <1>12 DEF NumberKnows, NumberFailed
<1>13. CASE /\ Matches(s, h) /\ Len(s) = Len(Word[a]) + 1 + Len(Word[b])
            /\ (c = Bar /\ q.state = "Value" /\ q.value = p.value)
               \/ (c # Bar /\ q.state = "Invalid")
  <2>1. Len(s) = N /\ Len(h) \in Nat /\ Len(s) < Len(h) /\ h[Len(s) + 1] = Bar
    <3>1. Len(s) = N
      BY <1>5, <1>6, <1>13, Zenon
    <3>2. Len(h) = N + 1 /\ h[N + 1] = Bar
      BY <1>5
    <3> QED BY <3>1, <3>2
  <2>2. (c = Bar => Matches(t, h)) /\ (c # Bar => Differs(t, h))
    BY <1>1, <1>13, <2>1, MatchGrows DEF MatchResult
  <2>3. CASE c = Bar /\ q.state = "Value" /\ q.value = p.value
    <3>1. PICK d \in Nat : d = N + 1
      OBVIOUS
    <3>2. Len(t) = d
      BY <1>1, <2>1, <3>1, AppendProperties
    <3>3. Begins(t, h)
      BY <1>5, <2>2, <2>3, <3>1, <3>2 DEF Matches, Begins
    <3>4. Digits(t, d, 0) /\ Len(t) = d + 0
      BY <3>2 DEF Digits
    <3>5. Counts(t, d, 0, q.value) /\ q.value <= MaxValue
      <4>1. q.value = 0 /\ 0 <= MaxValue
        BY <2>3, LuluParsersAssumption
      <4> QED BY <4>1, CountsNothing
    <3>6. NumberEnds(q, t, d, 0)
      BY <2>3, <3>4 DEF NumberEnds
    <3>7. NumberRead(q, t, d)
      <4>1. 0 \in Nat
        OBVIOUS
      <4> QED BY <3>4, <3>5, <3>6, <4>1 DEF NumberRead
    <3> QED BY <1>1, <1>2, <1>3, <1>4, <3>1, <3>3, <3>7 DEF NumberKnows
  <2>4. CASE c # Bar /\ q.state = "Invalid"
    BY <1>1, <1>2, <1>3, <2>2, <2>4 DEF NumberKnows, NumberFailed
  <2> QED BY <1>13, <2>3, <2>4
<1> QED BY <1>10, <1>11, <1>12, <1>13 DEF WordsResult

(* A byte more, and a parser of a number still knows.                      *)
LEMMA NumberFed ==
    ASSUME NEW k \in Numbered, NEW p \in Parser, NEW s \in Seq(LuluByte), NEW c \in LuluByte,
           NumberKnows(p, s, k), p.state \notin {"Finished", "Invalid"}
    PROVE  NumberKnows(Feed(k, p, c), Append(s, c), k)
<1>1. PICK b \in Nat : b = Len(Opening(k)) + 1
  <2>1. Len(Opening(k)) \in Nat
    BY OpeningTypes DEF Numbered, Command
  <2> QED BY <2>1
<1>2. PICK second : second = SecondWord(k)
  OBVIOUS
<1>3. Feed(k, p, c) = SetValue(p, c, second)
  BY <1>2, NumberParser
<1>4. ASSUME NEW n \in Nat, Begins(s, ArgumentHead(k)), Digits(s, b, n), Counts(s, b, n, p.value),
             p.value <= MaxValue, NumberEnds(p, s, b, n)
      PROVE  NumberKnows(Feed(k, p, c), Append(s, c), k)
  <2>1. CASE p.state = "Value" /\ Len(s) = b + n
    BY <1>1, <1>3, <1>4, <2>1, DigitFed
  <2>2. CASE p.state = "CRLF" /\ Len(s) = b + n + 1 /\ s[b + n + 1] = CR
    <3>1. SetValue(p, c, second) = LineFeed(p, c)
      BY <2>2, Zenon DEF SetValue
    <3> QED BY <1>1, <1>3, <1>4, <2>2, <3>1, NumberReturned
  <2> QED BY <1>4, <2>1, <2>2 DEF NumberEnds
<1> QED BY <1>1, <1>4, NumberWordsFed DEF NumberKnows, NumberRead

-------------------------------------------------------------------------------
(* Each parser of a command without names knows what it was sent.          *)
PlainInv ==
    kind = "lulu" =>
        /\ input \in Seq(LuluByte)
        /\ parser \in [Command -> Parser]
        /\ \A k \in Plain : PlainKnows(parser[k], input, k)
        /\ \A k \in Numbered : NumberKnows(parser[k], input, k)

(* Before the first byte, all of them are at the beginning of a word.      *)
LEMMA NothingMatches ==
    ASSUME NEW w \in Seq(LuluByte), NEW word \in Words
    PROVE  InsideWord(LuluReset, <<>>, w, 0, word)
<1>1. Len(<<>>) = 0 /\ 0 <= Len(w) /\ 0 <= Len(Word[word])
  BY WordTypes, LenProperties
<1>2. Matches(<<>>, w)
  BY <1>1 DEF Matches
<1>3. LuluReset.at = 0
  BY DEF LuluReset
<1> QED BY <1>1, <1>2, <1>3 DEF InsideWord

(* Whatever the stream, the parser of a command without arguments or with  *)
(* a number is a function of the bytes so far: how far its line has come,  *)
(* which digits it has had and what they come to, or what failed.          *)
THEOREM PlainInvariantHolds == Spec => []PlainInv
<1>1. Init => PlainInv
  <2> SUFFICES ASSUME Init, kind = "lulu" PROVE PlainInv
    BY DEF PlainInv
  <2>1. input = <<>> /\ parser = [command \in Command |-> LuluReset]
    BY DEF Init, InitialParser
  <2>2. LuluReset \in Parser /\ LuluReset.state = "First" /\ LuluReset.value = 0
    BY DEF LuluReset, Parser
  <2>3. ASSUME NEW k \in Plain PROVE PlainKnows(LuluReset, <<>>, k)
    <3>1. PlainLine(k) \in Seq(LuluByte)
      BY PlainLineIs, OpeningTypes DEF Plain, Command
    <3>2. CASE k = "GOODBYE"
      <4>1. "GOODBYE" \in Words
        BY DEF Words
      <4> QED BY <2>2, <3>1, <3>2, <4>1, NothingMatches DEF PlainKnows, PlainWords
    <3>3. CASE k # "GOODBYE"
      <4>1. FirstWord(k) \in Words
        BY <3>3, OpeningsOfTwo DEF TwoWorded, Plain, Command
      <4> QED BY <2>2, <3>1, <3>3, <4>1, NothingMatches DEF PlainKnows, PlainWords, InWords
    <3> QED BY <3>2, <3>3
  <2>4. ASSUME NEW k \in Numbered PROVE NumberKnows(LuluReset, <<>>, k)
    <3>1. ArgumentHead(k) \in Seq(LuluByte)
      BY NumberHeadIs, OpeningTypes DEF Numbered, Command
    <3>2. FirstWord(k) \in Words
      BY OpeningsOfTwo DEF TwoWorded, Numbered, Command
    <3> QED BY <2>2, <3>1, <3>2, NothingMatches DEF NumberKnows, InWords
  <2>5. Plain \subseteq Command /\ Numbered \subseteq Command
    BY DEF Plain, Numbered, Command
  <2> QED BY <2>1, <2>2, <2>3, <2>4, <2>5 DEF PlainInv
<1>2. PlainInv /\ LuluInv' /\ [Next]_vars => PlainInv'
  <2> SUFFICES ASSUME PlainInv, LuluInv', [Next]_vars PROVE PlainInv'
    OBVIOUS
  <2>1. ASSUME NEW c \in LuluByte, FeedLulu(c) PROVE PlainInv'
    <3>1. /\ kind = "lulu" /\ kind' = kind /\ input' = Append(input, c)
          /\ parser' = [k \in Command |-> IF k \in Reading THEN Feed(k, parser[k], c)
                                         ELSE parser[k]]
      BY <2>1 DEF FeedLulu, Fed
    <3>2. input \in Seq(LuluByte) /\ parser \in [Command -> Parser]
      BY <3>1 DEF PlainInv
    <3>3. input' \in Seq(LuluByte) /\ parser' \in [Command -> Parser]
      BY <3>1 DEF LuluInv
    <3>4. ASSUME NEW k \in Plain PROVE PlainKnows(parser'[k], input', k)
      <4>1. k \in Command /\ parser[k] \in Parser /\ PlainKnows(parser[k], input, k)
        BY <3>1, <3>2 DEF PlainInv, Plain, Command
      <4>2. CASE k \in Reading
        BY <3>1, <3>2, <4>1, <4>2, PlainFed DEF Reading
      <4>3. CASE k \notin Reading
        <5>1. parser'[k] = parser[k] /\ parser[k].state \in {"Finished", "Invalid", "Overrun"}
          BY <3>1, <4>1, <4>3 DEF Reading
        <5>2. parser[k].state # "Overrun"
          BY <4>1 DEF PlainKnows, PlainWords, InWords
        <5> QED BY <3>1, <3>2, <4>1, <5>1, <5>2, PlainStays
      <4> QED BY <4>2, <4>3
    <3>5. ASSUME NEW k \in Numbered PROVE NumberKnows(parser'[k], input', k)
      <4>1. k \in Command /\ parser[k] \in Parser /\ NumberKnows(parser[k], input, k)
        BY <3>1, <3>2 DEF PlainInv, Numbered, Command
      <4>2. CASE k \in Reading
        BY <3>1, <3>2, <4>1, <4>2, NumberFed DEF Reading
      <4>3. CASE k \notin Reading
        <5>1. parser'[k] = parser[k] /\ parser[k].state \in {"Finished", "Invalid", "Overrun"}
          BY <3>1, <4>1, <4>3 DEF Reading
        <5>2. parser[k].state # "Overrun"
          BY <4>1 DEF NumberKnows, InWords, NumberRead, NumberEnds
        <5> QED BY <3>1, <3>2, <4>1, <5>1, <5>2, NumberEnded
      <4> QED BY <4>2, <4>3
    <3> QED BY <3>3, <3>4, <3>5 DEF PlainInv
  <2>2. ASSUME NEW c \in Octet, FeedHello(c) \/ FeedAuth(c) \/ FeedRequest(c) PROVE PlainInv'
    BY <2>2 DEF FeedHello, FeedAuth, FeedRequest, Fed, PlainInv
  <2>3. CASE FeedPop3
    BY <2>3 DEF FeedPop3, Fed, PlainInv
  <2>4. CASE EndChunk
    BY <2>4 DEF EndChunk, PlainInv
  <2>5. CASE UNCHANGED vars
    BY <2>5 DEF vars, PlainInv
  <2> QED BY <2>1, <2>2, <2>3, <2>4, <2>5 DEF Next
<1> QED BY <1>1, <1>2, LuluInvariantHolds, PTL DEF Spec

(* A command without arguments is recognised exactly when its line was     *)
(* sent, and one that sets a number exactly when a number that is not too  *)
(* large was, and with that number: for all words, digits and limits.      *)
THEOREM PlainCommandsAreExact == Spec => []PlainCommandsExact
<1>1. PlainInv => PlainCommandsExact
  <2> SUFFICES ASSUME PlainInv, kind = "lulu" PROVE PlainCommandsExact
    BY DEF PlainCommandsExact
  <2>1. input \in Seq(LuluByte) /\ parser \in [Command -> Parser]
    BY DEF PlainInv
  <2>2. Prefixes = {SubSeq(input, 1, l) : l \in 0 .. Len(input)}
    BY DEF Prefixes
  <2>3. ASSUME NEW k \in Plain
        PROVE  parser[k].state = "Finished" <=> \E s \in Prefixes : IsPlain(k, s)
    <3>1. k \in Command /\ k \in Command \ {"HELLO"} /\ parser[k] \in Parser
      BY <2>1 DEF Plain, Command
    <3>2. PlainKnows(parser[k], input, k)
      BY DEF PlainInv
    <3>3. parser[k].state = "Finished" <=> Begins(input, PlainLine(k))
      BY <2>1, <3>1, <3>2, PlainExact
    <3>4. (\E l \in 0 .. Len(input) : IsPlain(k, SubSeq(input, 1, l)))
          <=> Begins(input, PlainLine(k))
      BY <2>1, <3>1, PlainGrammar
    <3> QED BY <2>2, <3>3, <3>4
  <2>4. ASSUME NEW k \in Numbered
        PROVE  parser[k].state = "Finished" <=>
                \E s \in Prefixes : /\ EndsLine(s) /\ Opens(k, s) /\ Numeral(Rest(k, s))
                                    /\ NumberOf(Rest(k, s)) <= MaxValue
                                    /\ parser[k].value = NumberOf(Rest(k, s))
    <3>1. k \in Command /\ parser[k] \in Parser
      BY <2>1 DEF Numbered, Command
    <3>2. NumberKnows(parser[k], input, k)
      BY DEF PlainInv
    <3>3. parser[k].state = "Finished" <=> SentNumber(k, input, parser[k].value)
      BY <2>1, <3>1, <3>2, NumberExact
    <3> QED BY <2>2, <3>3 DEF SentNumber, NumeralLine
  <2> QED BY <2>3, <2>4 DEF PlainCommandsExact
<1> QED BY <1>1, PlainInvariantHolds, PTL

-------------------------------------------------------------------------------
(* Commands with a name.  A field that starts at x ends at the first | or  *)
(* \r\n behind x, or is too long to be told.                               *)
Clean(s, x, y) == \A j \in x .. y : s[j] # Bar /\ (j > x /\ s[j] = LF => s[j - 1] # CR)

EndsBar(s, x, j) ==
    /\ j \in Nat /\ x <= j /\ j <= Len(s) /\ Clean(s, x, j - 1) /\ s[j] = Bar

EndsCrlf(s, x, l) ==
    /\ l \in Nat /\ x < l /\ l <= Len(s) /\ Clean(s, x, l - 2) /\ s[l - 1] = CR /\ s[l] = LF

TooLong(s, x) ==
    /\ x + MaxLong <= Len(s) /\ Clean(s, x, x + MaxLong - 1)
    /\ ~ (s[x + MaxLong - 1] = CR /\ s[x + MaxLong] = LF)

(* The parser is inside the field that starts at x: it has stored what     *)
(* came, but for a \r at the end.                                          *)
ReadsField(p, s, x, field) ==
    /\ Len(Stored(p, field)) <= MaxLong + 1
    /\ \/ /\ p.state = field
          /\ Clean(s, x, Len(s)) /\ Stored(p, field) = SubSeq(s, x, Len(s))
          /\ Len(s) >= x => s[Len(s)] # CR
       \/ /\ p.state = "CRLF" /\ p.prev = field
          /\ Len(s) >= x /\ s[Len(s)] = CR
          /\ Clean(s, x, Len(s) - 1) /\ Stored(p, field) = SubSeq(s, x, Len(s) - 1)

(* The fields of a line, from b on: the name is before i, and the line has *)
(* its end at l.                                                           *)
TwoFields(s, b, i, l) ==
    /\ EndsBar(s, b, i) /\ i > b
    /\ EndsCrlf(s, i + 1, l) /\ l > i + 2

OneField(s, b, l) == EndsCrlf(s, b, l) /\ l > b + 1

(* What is no such line, and never will be, nor one with short fields.     *)
NoFields(s, b) ==
    \/ TooLong(s, b)
    \/ \E l : EndsCrlf(s, b, l)
    \/ \E i : /\ EndsBar(s, b, i)
              /\ \/ i = b
                 \/ TooLong(s, i + 1)
                 \/ \E j : EndsBar(s, i + 1, j)
                 \/ EndsCrlf(s, i + 1, i + 2)

NoField(s, b) == TooLong(s, b) \/ (\E j : EndsBar(s, b, j)) \/ EndsCrlf(s, b, b + 1)

TwoNamed == {"HELLO", "SET USER"}

NamedWords(p, s, k) ==
    /\ p.name = <<>> /\ p.pass = <<>>
    /\ IF k = "HELLO"
         THEN p.state = "First" /\ InsideWord(p, s, ArgumentHead(k), 0, "HELLO")
         ELSE InWords(p, s, ArgumentHead(k), FirstWord(k), SecondWord(k))

(* The line is read and its fields are where the parser has them.          *)
NamedDone(p, s, k, b) ==
    IF k \in TwoNamed
      THEN \E i, l : /\ TwoFields(s, b, i, l)
                     /\ p.name = SubSeq(s, b, i - 1) /\ p.pass = SubSeq(s, i + 1, l - 2)
      ELSE \E l : OneField(s, b, l) /\ p.name = SubSeq(s, b, l - 2)

NamedFields(p, s, k, b) ==
    \/ ReadsField(p, s, b, "Name") /\ p.pass = <<>>
    \/ /\ k \in TwoNamed
       /\ \E i : /\ EndsBar(s, b, i) /\ i > b /\ p.name = SubSeq(s, b, i - 1)
                 /\ ReadsField(p, s, i + 1, "Password")
    \/ p.state = "Finished" /\ NamedDone(p, s, k, b)
    \/ /\ p.state \in {"Invalid", "Overrun"}
       /\ IF k \in TwoNamed THEN NoFields(s, b) ELSE NoField(s, b)

NamedKnows(p, s, k) ==
    \/ NamedWords(p, s, k)
    \/ p.state = "Invalid" /\ Differs(s, ArgumentHead(k))
    \/ Begins(s, ArgumentHead(k)) /\ NamedFields(p, s, k, Len(Opening(k)) + 2)

(* A byte of a field, \r\n and | apart, in any of the three parsers.       *)
Other(p, field) == IF field = "Name" THEN p.pass ELSE p.name

FieldByte(p, c, field, q) ==
    \/ p.state = field /\ c = CR /\ q = Return(p, field)
    \/ p.state = field /\ c # CR /\ q = Content(p, c, field)
    \/ /\ p.state = "CRLF" /\ c = CR
       /\ q = IF Full(p, field) THEN Invalid(p) ELSE Store(p, field, <<CR>>)
    \/ /\ p.state = "CRLF" /\ c \notin {CR, LF}
       /\ \/ q = Invalid(p) /\ Len(Stored(p, field)) >= MaxLong
          \/ q = Store(To(p, field), field, <<CR, c>>)

FieldResult(p, t, x, field, q) ==
    \/ ReadsField(q, t, x, field) /\ Other(q, field) = Other(p, field)
    \/ q.state \in {"Invalid", "Overrun"} /\ TooLong(t, x)

(* What a store comes to, and what is known of a field behind a \r.        *)
StoreResult(p, field, u, q) ==
    /\ Len(u) > MaxLong + 1 => q.state = "Overrun"
    /\ ~ (Len(u) > MaxLong + 1) =>
          /\ q.state = p.state /\ q.prev = p.prev /\ Stored(q, field) = u
          /\ Other(q, field) = Other(p, field)

ReturnAt(u, s, t, c, x, m) ==
    /\ m >= x /\ Len(t) = m + 1 /\ t[m + 1] = c /\ t[m] = CR /\ s[m] = CR
    /\ Clean(t, x, m - 1) /\ Clean(t, x, m)
    /\ u = SubSeq(t, x, m - 1) /\ u \o <<CR>> = SubSeq(t, x, m)
    /\ u \in Seq(LuluByte) /\ Len(u) = m - x /\ Len(u) <= MaxLong + 1

CrlfAt(u, t, x, l) ==
    /\ EndsCrlf(t, x, l) /\ u = SubSeq(t, x, l - 2)
    /\ u = <<>> => l = x + 1
    /\ u # <<>> => l > x + 1

(* What such a parser does with any byte of a field.                       *)
FieldsStep(p, c, field, q) ==
    /\ p.state = field /\ c = Bar =>
          q = IF field = "Name" /\ p.name # <<>> THEN To(p, "Password") ELSE Invalid(p)
    /\ p.state = "CRLF" /\ c = Bar => q = BarAfterReturn(p)
    /\ p.state = "CRLF" /\ c = LF => q = EndOfLine(p)
    /\ c # Bar /\ ~ (p.state = "CRLF" /\ c = LF) => FieldByte(p, c, field, q)

-------------------------------------------------------------------------------
(* A field that goes on, and one that has ended.                           *)
LEMMA CleanGrows ==
    ASSUME NEW s \in Seq(LuluByte), NEW c \in LuluByte, NEW t, t = Append(s, c),
           NEW x \in Nat, x >= 1, NEW y \in Int, y <= Len(s)
    PROVE  Clean(t, x, y) <=> Clean(s, x, y)
<1>1. PICK m \in Nat : m = Len(s)
  BY LenProperties
<1>2. \A i \in 1 .. m : t[i] = s[i]
  BY <1>1, Appended
<1>3. \A j \in x .. y : t[j] = s[j] /\ (j > x => t[j - 1] = s[j - 1])
  <2>1. \A j \in x .. y : j \in 1 .. m /\ (j > x => j - 1 \in 1 .. m)
    BY <1>1
  <2> QED BY <1>2, <2>1
<1> QED BY <1>3 DEF Clean

(* A clean part with a byte more.                                          *)
LEMMA CleanMore ==
    ASSUME NEW s, NEW x \in Nat, NEW y \in Int, Clean(s, x, y),
           s[y + 1] # Bar, y >= x /\ s[y + 1] = LF => s[y] # CR
    PROVE  Clean(s, x, y + 1)
<1> SUFFICES ASSUME NEW j \in x .. y + 1
             PROVE  s[j] # Bar /\ (j > x /\ s[j] = LF => s[j - 1] # CR)
  BY DEF Clean
<1>1. CASE j \in x .. y
  BY <1>1 DEF Clean
<1>2. CASE j = y + 1
  <2>1. j - 1 = y /\ (j > x => y >= x)
    BY <1>2
  <2> QED BY <1>2, <2>1
<1> QED BY <1>1, <1>2

(* Less of a clean part.                                                   *)
LEMMA CleanLess ==
    ASSUME NEW s, NEW x \in Nat, NEW y \in Int, NEW z \in Int, z <= y, Clean(s, x, y)
    PROVE  Clean(s, x, z)
<1>1. \A j \in x .. z : j \in x .. y
  OBVIOUS
<1> QED BY <1>1 DEF Clean

(* What has ended goes on having ended there.                              *)
LEMMA EndsStay ==
    ASSUME NEW s \in Seq(LuluByte), NEW c \in LuluByte, NEW t, t = Append(s, c),
           NEW x \in Nat, x >= 1
    PROVE  /\ \A j : EndsBar(s, x, j) => EndsBar(t, x, j)
           /\ \A l : EndsCrlf(s, x, l) => EndsCrlf(t, x, l)
           /\ TooLong(s, x) => TooLong(t, x)
<1>1. PICK m \in Nat : m = Len(s)
  BY LenProperties
<1>2. Len(t) = m + 1 /\ \A i \in 1 .. m : t[i] = s[i]
  BY <1>1, Appended
<1>3. ASSUME NEW j, EndsBar(s, x, j) PROVE EndsBar(t, x, j)
  <2>1. j \in Nat /\ x <= j /\ j <= m /\ Clean(s, x, j - 1) /\ s[j] = Bar
    BY <1>1, <1>3 DEF EndsBar
  <2>2. j \in 1 .. m /\ j - 1 \in Int /\ j - 1 <= Len(s) /\ j <= Len(t)
    BY <1>1, <1>2, <2>1
  <2>3. Clean(t, x, j - 1)
    BY <2>1, <2>2, CleanGrows
  <2> QED BY <1>2, <2>1, <2>2, <2>3 DEF EndsBar
<1>4. ASSUME NEW l, EndsCrlf(s, x, l) PROVE EndsCrlf(t, x, l)
  <2>1. l \in Nat /\ x < l /\ l <= m /\ Clean(s, x, l - 2) /\ s[l - 1] = CR /\ s[l] = LF
    BY <1>1, <1>4 DEF EndsCrlf
  <2>2. l \in 1 .. m /\ l - 1 \in 1 .. m /\ l - 2 \in Int /\ l - 2 <= Len(s) /\ l <= Len(t)
    BY <1>1, <1>2, <2>1
  <2>3. Clean(t, x, l - 2)
    BY <2>1, <2>2, CleanGrows
  <2>4. t[l] = LF /\ t[l - 1] = CR
    BY <1>2, <2>1, <2>2
  <2> QED BY <2>1, <2>2, <2>3, <2>4 DEF EndsCrlf
<1>5. ASSUME TooLong(s, x) PROVE TooLong(t, x)
  <2>1. PICK y \in Nat : y = x + MaxLong
    BY LuluParsersAssumption
  <2>2. y > x
    BY <2>1, LuluParsersAssumption
  <2>3. y <= m /\ Clean(s, x, y - 1) /\ ~ (s[y - 1] = CR /\ s[y] = LF)
    BY <1>1, <1>5, <2>1, LuluParsersAssumption DEF TooLong
  <2>4. y \in 1 .. m /\ y - 1 \in 1 .. m /\ y - 1 \in Int /\ y - 1 <= Len(s) /\ y <= Len(t)
    BY <1>1, <1>2, <2>2, <2>3
  <2>5. Clean(t, x, y - 1)
    BY <2>3, <2>4, CleanGrows
  <2>6. t[y] = s[y] /\ t[y - 1] = s[y - 1]
    BY <1>2, <2>4
  <2> QED BY <2>1, <2>3, <2>4, <2>5, <2>6, LuluParsersAssumption DEF TooLong
<1> QED BY <1>3, <1>4, <1>5

(* A field has one end, and none while it is read.                         *)
LEMMA OneEnd ==
    ASSUME NEW s, Len(s) \in Nat, NEW x \in Nat
    PROVE  /\ \A i, j : EndsBar(s, x, i) /\ EndsBar(s, x, j) => i = j
           /\ \A i, j : EndsCrlf(s, x, i) /\ EndsCrlf(s, x, j) => i = j
           /\ \A i, j : ~ (EndsBar(s, x, i) /\ EndsCrlf(s, x, j))
           /\ \A j : ~ (Clean(s, x, Len(s)) /\ (EndsBar(s, x, j) \/ EndsCrlf(s, x, j)))
<1>1. ASSUME NEW i, NEW y \in Int, EndsBar(s, x, i), Clean(s, x, y) PROVE i > y
  <2>1. i \in Nat /\ x <= i /\ s[i] = Bar
    BY <1>1 DEF EndsBar
  <2>2. i <= y => i \in x .. y
    BY <2>1
  <2> QED BY <1>1, <2>1, <2>2 DEF Clean
<1>2. ASSUME NEW i, NEW y \in Int, EndsCrlf(s, x, i), Clean(s, x, y) PROVE i > y
  <2>1. i \in Nat /\ x < i /\ s[i - 1] = CR /\ s[i] = LF
    BY <1>2 DEF EndsCrlf
  <2>2. i <= y => i \in x .. y
    BY <2>1
  <2> QED BY <1>2, <2>1, <2>2 DEF Clean
<1>3. ASSUME NEW i, NEW j, EndsBar(s, x, i), EndsBar(s, x, j) PROVE i = j
  <2>1. i \in Nat /\ j \in Nat /\ Clean(s, x, i - 1) /\ Clean(s, x, j - 1)
    BY <1>3 DEF EndsBar
  <2>2. i - 1 \in Int /\ j - 1 \in Int
    BY <2>1
  <2>3. i > j - 1 /\ j > i - 1
    BY <1>1, <1>3, <2>1, <2>2
  <2> QED BY <2>1, <2>3
<1>4. ASSUME NEW i, NEW j, EndsCrlf(s, x, i), EndsCrlf(s, x, j) PROVE i = j
  <2>1. i \in Nat /\ j \in Nat /\ Clean(s, x, i - 2) /\ Clean(s, x, j - 2)
        /\ s[i - 1] = CR /\ s[i] = LF /\ s[j - 1] = CR /\ s[j] = LF
    BY <1>4 DEF EndsCrlf
  <2>2. i - 2 \in Int /\ j - 2 \in Int
    BY <2>1
  <2>3. i > j - 2 /\ j > i - 2
    BY <1>2, <1>4, <2>1, <2>2
  <2>4. i = j \/ i = j - 1 \/ j = i - 1
    BY <2>1, <2>3
  <2> QED BY <2>1, <2>4, StuffBytes
<1>5. ASSUME NEW i, NEW j, EndsBar(s, x, i), EndsCrlf(s, x, j) PROVE FALSE
  <2>1. i \in Nat /\ j \in Nat /\ Clean(s, x, i - 1) /\ Clean(s, x, j - 2)
        /\ s[i] = Bar /\ s[j - 1] = CR /\ s[j] = LF
    BY <1>5 DEF EndsBar, EndsCrlf
  <2>2. i - 1 \in Int /\ j - 2 \in Int
    BY <2>1
  <2>3. i > j - 2 /\ j > i - 1
    BY <1>1, <1>2, <1>5, <2>1, <2>2
  <2>4. i = j \/ i = j - 1
    BY <2>1, <2>3
  <2> QED BY <2>1, <2>4, StuffBytes
<1>6. ASSUME NEW j, Clean(s, x, Len(s)), EndsBar(s, x, j) \/ EndsCrlf(s, x, j) PROVE FALSE
  <2>1. j \in Nat /\ j <= Len(s) /\ Len(s) \in Int
    BY <1>6 DEF EndsBar, EndsCrlf
  <2>2. j > Len(s)
    BY <1>1, <1>2, <1>6, <2>1
  <2> QED BY <2>1, <2>2
<1> QED BY <1>3, <1>4, <1>5, <1>6

(* One that is too long does not end before it is.                         *)
LEMMA LongEnds ==
    ASSUME NEW s, NEW x \in Nat, TooLong(s, x)
    PROVE  /\ \A j : EndsBar(s, x, j) => j - x >= MaxLong
           /\ \A l : EndsCrlf(s, x, l) => l - 1 - x >= MaxLong
<1>1. PICK y \in Nat : y = x + MaxLong
  BY LuluParsersAssumption
<1>2. Clean(s, x, y - 1) /\ ~ (s[y - 1] = CR /\ s[y] = LF) /\ y > x
  BY <1>1, LuluParsersAssumption DEF TooLong
<1>3. ASSUME NEW j, EndsBar(s, x, j) PROVE j - x >= MaxLong
  <2>1. j \in Nat /\ x <= j /\ s[j] = Bar
    BY <1>3 DEF EndsBar
  <2>2. j <= y - 1 => j \in x .. y - 1
    BY <2>1
  <2>3. j >= y
    BY <1>2, <2>1, <2>2 DEF Clean
  <2> QED BY <1>1, <2>1, <2>3, LuluParsersAssumption
<1>4. ASSUME NEW l, EndsCrlf(s, x, l) PROVE l - 1 - x >= MaxLong
  <2>1. l \in Nat /\ x < l /\ s[l - 1] = CR /\ s[l] = LF
    BY <1>4 DEF EndsCrlf
  <2>2. l <= y - 1 => l \in x .. y - 1
    BY <2>1
  <2>3. l # y
    BY <1>2, <2>1
  <2>4. l > y
    BY <1>2, <2>1, <2>2, <2>3 DEF Clean
  <2> QED BY <1>1, <2>1, <2>4, LuluParsersAssumption
<1> QED BY <1>3, <1>4

(* Enough that is clean makes a field too long.                            *)
LEMMA LongEnough ==
    ASSUME NEW t, NEW x \in Nat, NEW y \in Int, Clean(t, x, y), x + MaxLong <= y, y <= Len(t),
           Len(t) \in Nat
    PROVE  TooLong(t, x)
<1>1. PICK z \in Nat : z = x + MaxLong
  BY LuluParsersAssumption
<1>2. z > x /\ z <= y /\ z - 1 \in Int /\ z - 1 <= y /\ z <= Len(t)
  BY <1>1, LuluParsersAssumption
<1>3. Clean(t, x, z - 1)
  BY <1>2, CleanLess
<1>4. z \in x .. y
  BY <1>2
<1>5. ~ (t[z - 1] = CR /\ t[z] = LF)
  BY <1>2, <1>4 DEF Clean
<1> QED BY <1>1, <1>2, <1>3, <1>5, LuluParsersAssumption DEF TooLong

-------------------------------------------------------------------------------
(* What is stored of a field.                                              *)
LEMMA StoreIs ==
    ASSUME NEW p \in Parser, NEW field, NEW x \in Seq(Stuff)
    PROVE  StoreResult(p, field, Stored(p, field) \o x, Store(p, field, x))
<1>1. PICK u : u = Stored(p, field) \o x
  OBVIOUS
<1>2. PICK q : q = Store(p, field, x)
  OBVIOUS
<1>3. CASE Len(u) > MaxLong + 1
  <2>1. q = To(p, "Overrun")
    BY <1>3, <1>1, <1>2 DEF Store
  <2> QED BY <1>3, <1>1, <1>2, <2>1, Goes DEF ParserStates, StoreResult
<1>4. CASE ~ (Len(u) > MaxLong + 1) /\ field = "Name"
  <2>1. q = [p EXCEPT !.name = u]
    BY <1>4, <1>1, <1>2 DEF Store
  <2>2. q.state = p.state /\ q.prev = p.prev /\ q.name = u /\ q.pass = p.pass
    BY <2>1 DEF Parser
  <2> QED BY <1>4, <1>1, <1>2, <2>2 DEF Stored, Other, StoreResult
<1>5. CASE ~ (Len(u) > MaxLong + 1) /\ field # "Name"
  <2>1. q = [p EXCEPT !.pass = u]
    BY <1>5, <1>1, <1>2 DEF Store
  <2>2. q.state = p.state /\ q.prev = p.prev /\ q.pass = u /\ q.name = p.name
    BY <2>1 DEF Parser
  <2> QED BY <1>5, <1>1, <1>2, <2>2 DEF Stored, Other, StoreResult
<1> QED BY <1>3, <1>4, <1>5

(* A field whose bytes are s[x], ..., s[y] has y - x + 1 of them.          *)
LEMMA FieldLength ==
    ASSUME NEW s \in Seq(LuluByte), NEW x \in Nat, x >= 1, NEW y \in Int, y >= x - 1,
           y <= Len(s)
    PROVE  /\ SubSeq(s, x, y) \in Seq(LuluByte)
           /\ Len(SubSeq(s, x, y)) = y - x + 1
<1>1. PICK l \in Nat : l = Len(s)
  BY LenProperties
<1>2. y \in Nat
  OBVIOUS
<1>3. PartOf(s, x, y, LuluByte)
  BY <1>1, <1>2, Parts
<1> QED BY <1>3 DEF PartOf

(* A byte more of it, and two.                                             *)
LEMMA FieldMore ==
    ASSUME NEW s \in Seq(LuluByte), NEW c \in LuluByte, NEW t, t = Append(s, c),
           NEW x \in Nat, x >= 1, x <= Len(s) + 1
    PROVE  /\ SubSeq(s, x, Len(s)) \o <<c>> = SubSeq(t, x, Len(s) + 1)
           /\ SubSeq(t, x, Len(s)) = SubSeq(s, x, Len(s))
           /\ SubSeq(t, x, Len(s) - 1) = SubSeq(s, x, Len(s) - 1)
<1>1. PICK m \in Nat : m = Len(s)
  BY LenProperties
<1>2. x \in 1 .. m + 1
  BY <1>1
<1>3. PICK u : u = SubSeq(s, x, m)
  OBVIOUS
<1>4. SubSeq(t, x, m + 1) = Append(u, c) /\ SubSeq(t, x, m) = u
  <2>1. /\ \A a \in 1 .. m + 1 : SubSeq(t, a, m + 1) = Append(SubSeq(s, a, m), c)
        /\ \A a \in 1 .. m + 1, b \in 0 .. m : SubSeq(t, a, b) = SubSeq(s, a, b)
    BY <1>1, Appended
  <2>2. m \in 0 .. m
    OBVIOUS
  <2> QED BY <1>2, <1>3, <2>1, <2>2
<1>5. u \in Seq(LuluByte)
  <2>1. m \in Int /\ m >= x - 1 /\ m <= Len(s)
    BY <1>1, <1>2
  <2> QED BY <1>3, <2>1, FieldLength
<1>6. u \o <<c>> = Append(u, c)
  BY <1>5, AppendIsConcat
<1>7. SubSeq(t, x, m - 1) = SubSeq(s, x, m - 1)
  <2>1. CASE m >= 1
    <3>1. m - 1 \in 0 .. m
      BY <2>1
    <3> QED BY <1>1, <1>2, <3>1, Appended
  <2>2. CASE m = 0
    <3>1. PICK y \in Int : y = m - 1
      OBVIOUS
    <3>2. y < x /\ x \in Int
      BY <1>2, <2>2, <3>1
    <3>3. t \in Seq(LuluByte)
      BY Appended
    <3>4. SubSeq(s, x, y) = <<>> /\ SubSeq(t, x, y) = <<>>
      BY <3>2, <3>3, SubSeqEmpty
    <3> QED BY <3>1, <3>4
  <2>3. m >= 1 \/ m = 0
    OBVIOUS
  <2> QED BY ONLY <2>1, <2>2, <2>3
<1> QED BY <1>1, <1>3, <1>4, <1>6, <1>7

(* Text up to a final \r, with that \r.                                    *)
LEMMA FieldReturned ==
    ASSUME NEW s \in Seq(LuluByte), NEW x \in Nat, x >= 1, x <= Len(s), s[Len(s)] = CR
    PROVE  SubSeq(s, x, Len(s) - 1) \o <<CR>> = SubSeq(s, x, Len(s))
<1>1. PICK m \in Nat : m = Len(s)
  BY LenProperties
<1>2. SubSeq(s, x, m) = SubSeq(s, x, m - 1) \o <<s[m]>>
  <2>1. x \in 1 .. Len(s) /\ m \in x .. Len(s)
    BY <1>1
  <2> QED BY <2>1, SubSeqRecursiveSecond
<1> QED BY <1>1, <1>2

(* Two bytes put behind a sequence are one behind the other.               *)
LEMMA TwoMore ==
    ASSUME NEW u \in Seq(LuluByte), NEW a \in LuluByte, NEW b \in LuluByte
    PROVE  u \o <<a, b>> = (u \o <<a>>) \o <<b>>
<1>1. <<a>> \in Seq(LuluByte) /\ <<b>> \in Seq(LuluByte)
  OBVIOUS
<1>2. (u \o <<a>>) \o <<b>> = u \o (<<a>> \o <<b>>)
  BY <1>1, ConcatAssociative
<1>3. <<a>> \o <<b>> = <<a, b>>
  <2>1. PICK v : v = <<a>> \o <<b>>
    OBVIOUS
  <2>2. PICK w : w = <<a, b>>
    OBVIOUS
  <2>3. w \in Seq(LuluByte) /\ Len(w) = 2 /\ w[1] = a /\ w[2] = b
    BY <2>2
  <2>4. v \in Seq(LuluByte) /\ Len(v) = 2 /\ v[1] = a /\ v[2] = b
    BY <1>1, <2>1, ConcatProperties
  <2>5. \A i \in 1 .. 2 : i = 1 \/ i = 2
    OBVIOUS
  <2>6. v = w
    BY <2>3, <2>4, <2>5, SeqEqual
  <2> QED BY <2>1, <2>2, <2>6
<1> QED BY <1>2, <1>3

-------------------------------------------------------------------------------
(* A byte more of a field, as its parser is in it or has had a \r there.   *)
LEMMA FieldContent ==
    ASSUME NEW p \in Parser, NEW s \in Seq(LuluByte), NEW c \in Stuff, NEW t, t = Append(s, c),
           NEW x \in Nat, x >= 1, x <= Len(s) + 1, NEW field \in {"Name", "Password"},
           ReadsField(p, s, x, field), p.state = field, c # CR, NEW q, q = Content(p, c, field)
    PROVE  FieldResult(p, t, x, field, q)
<1>1. PICK m \in Nat : m = Len(s)
  BY LenProperties
<1>2. c \in LuluByte /\ c # Bar
  BY DEF Stuff
<1>3. Len(t) = m + 1 /\ t[m + 1] = c /\ \A i \in 1 .. m : t[i] = s[i]
  BY <1>1, <1>2, Appended
<1>4. PICK u : u = Stored(p, field)
  OBVIOUS
<1>5. Len(u) <= MaxLong + 1 /\ Clean(s, x, m) /\ u = SubSeq(s, x, m) /\ (m >= x => s[m] # CR)
  BY <1>1, <1>4 DEF ReadsField
<1>6. u \in Seq(LuluByte) /\ Len(u) = m - x + 1
  BY <1>1, <1>5, FieldLength
<1>7. Clean(t, x, m)
  <2>1. m \in Int /\ m <= Len(s)
    BY <1>1
  <2> QED BY <1>2, <1>5, <2>1, CleanGrows
<1>8. PICK M \in Nat : M = MaxLong
  BY LuluParsersAssumption
<1>9. CASE Full(p, field)
  <2>1. q = Invalid(p)
    BY <1>9 DEF Content
  <2>2. q.state = "Invalid"
    BY <2>1, Goes DEF Invalid, ParserStates
  <2>3. x + MaxLong <= m /\ m <= Len(t) /\ Len(t) \in Nat /\ m \in Int
    BY <1>3, <1>4, <1>6, <1>8, <1>9 DEF Full
  <2>4. TooLong(t, x)
    BY <1>7, <2>3, LongEnough
  <2> QED BY <2>2, <2>4 DEF FieldResult
<1>10. CASE ~ Full(p, field)
  <2>1. q = Store(p, field, <<c>>)
    BY <1>10 DEF Content
  <2>2. PICK v : v = Stored(p, field) \o <<c>>
    OBVIOUS
  <2>3. v = SubSeq(t, x, m + 1)
    <3>1. SubSeq(s, x, Len(s)) \o <<c>> = SubSeq(t, x, Len(s) + 1)
      BY <1>2, FieldMore
    <3> QED BY <1>1, <1>4, <1>5, <2>2, <3>1
  <2>4. Len(v) = Len(u) + 1
    <3>1. <<c>> \in Seq(LuluByte) /\ Len(<<c>>) = 1
      BY <1>2
    <3> QED BY <1>4, <1>6, <2>2, <3>1, ConcatProperties
  <2>5. Len(v) <= MaxLong + 1 /\ ~ (Len(v) > MaxLong + 1)
    <3>1. PICK n \in Nat : n = Len(u)
      BY <1>6, LenProperties
    <3>2. n # M + 1 /\ n <= M + 1
      BY <1>4, <1>5, <1>8, <1>10, <3>1 DEF Full
    <3>3. Len(v) = n + 1
      BY <2>4, <3>1
    <3> QED BY <1>8, <3>2, <3>3
  <2>6. q.state = p.state /\ Stored(q, field) = v /\ Other(q, field) = Other(p, field)
    <3>1. PICK e : e = <<c>>
      OBVIOUS
    <3>2. e \in Seq(Stuff)
      BY <3>1
    <3>3. q = Store(p, field, e) /\ v = Stored(p, field) \o e
      BY <2>1, <2>2, <3>1
    <3>4. StoreResult(p, field, v, q)
      BY <3>2, <3>3, StoreIs
    <3> QED BY <2>5, <3>4 DEF StoreResult
  <2>7. Clean(t, x, m + 1)
    <3>1. m >= x => t[m] # CR
      BY <1>3, <1>5
    <3>2. m \in Int /\ t[m + 1] # Bar /\ (m >= x /\ t[m + 1] = LF => t[m] # CR)
      BY <1>2, <1>3, <3>1
    <3> QED BY <1>7, <3>2, CleanMore
  <2> QED BY <1>3, <2>3, <2>5, <2>6, <2>7 DEF FieldResult, ReadsField
<1> QED BY <1>9, <1>10

(* The \r that may be the end.                                             *)
LEMMA FieldReturn ==
    ASSUME NEW p \in Parser, NEW s \in Seq(LuluByte), NEW t, t = Append(s, CR),
           NEW x \in Nat, x >= 1, x <= Len(s) + 1, NEW field \in {"Name", "Password"},
           ReadsField(p, s, x, field), p.state = field, NEW q, q = Return(p, field)
    PROVE  FieldResult(p, t, x, field, q)
<1>1. PICK m \in Nat : m = Len(s)
  BY LenProperties
<1>2. CR \in LuluByte
  BY StuffBytes
<1>3. Len(t) = m + 1 /\ t[m + 1] = CR /\ (m + 1) - 1 = m
  BY <1>1, <1>2, Appended
<1>4. /\ q.state = "CRLF" /\ q.prev = field
      /\ Stored(q, field) = Stored(p, field) /\ Other(q, field) = Other(p, field)
  <2>1. q.state = "CRLF" /\ q.prev = field /\ q.name = p.name /\ q.pass = p.pass
    BY DEF Return, Parser
  <2> QED BY <2>1 DEF Stored, Other
<1>5. Len(Stored(p, field)) <= MaxLong + 1 /\ Clean(s, x, m) /\ Stored(p, field) = SubSeq(s, x, m)
  BY <1>1 DEF ReadsField
<1>6. Clean(t, x, m)
  <2>1. m \in Int /\ m <= Len(s)
    BY <1>1
  <2> QED BY <1>2, <1>5, <2>1, CleanGrows
<1>7. SubSeq(t, x, m) = SubSeq(s, x, m)
  BY <1>1, <1>2, FieldMore
<1>8. m + 1 >= x
  BY <1>1
<1> QED BY <1>3, <1>4, <1>5, <1>6, <1>7, <1>8 DEF FieldResult, ReadsField

(* What is known of a field behind a \r.                                   *)
LEMMA AtReturn ==
    ASSUME NEW p \in Parser, NEW s \in Seq(LuluByte), NEW c \in LuluByte, NEW t, t = Append(s, c),
           NEW x \in Nat, x >= 1, NEW field \in {"Name", "Password"},
           ReadsField(p, s, x, field), p.state = "CRLF", NEW m \in Nat, m = Len(s)
    PROVE  ReturnAt(Stored(p, field), s, t, c, x, m)
<1>1. /\ m >= x /\ s[m] = CR /\ Clean(s, x, m - 1) /\ Stored(p, field) = SubSeq(s, x, m - 1)
      /\ Len(Stored(p, field)) <= MaxLong + 1
  BY DEF ReadsField
<1>2. Len(t) = m + 1 /\ t[m + 1] = c /\ t[m] = s[m]
  <2>1. m \in 1 .. m
    BY <1>1
  <2> QED BY <2>1, Appended
<1>3. Clean(t, x, m - 1)
  <2>1. m - 1 \in Int /\ m - 1 <= Len(s)
    OBVIOUS
  <2> QED BY <1>1, <2>1, CleanGrows
<1>4. Clean(t, x, m)
  <2>1. PICK y \in Int : y = m - 1
    OBVIOUS
  <2>2. y + 1 = m /\ t[y + 1] # Bar /\ t[y + 1] # LF
    BY <1>1, <1>2, <2>1, StuffBytes
  <2> QED BY <1>3, <2>1, <2>2, CleanMore
<1>5. /\ SubSeq(t, x, m - 1) = SubSeq(s, x, m - 1)
      /\ SubSeq(t, x, m) = SubSeq(s, x, m)
  BY <1>1, FieldMore
<1>6. SubSeq(s, x, m - 1) \o <<CR>> = SubSeq(s, x, m)
  BY <1>1, FieldReturned
<1>7. SubSeq(s, x, m - 1) \in Seq(LuluByte) /\ Len(SubSeq(s, x, m - 1)) = m - x
  <2>1. PICK y \in Int : y = m - 1
    OBVIOUS
  <2>2. y >= x - 1 /\ y <= Len(s) /\ y - x + 1 = m - x
    BY <1>1, <2>1
  <2>3. SubSeq(s, x, y) \in Seq(LuluByte) /\ Len(SubSeq(s, x, y)) = m - x
    BY <2>2, FieldLength
  <2> QED BY <2>1, <2>3
<1>8. PICK u : u = Stored(p, field)
  OBVIOUS
<1>9. u = SubSeq(t, x, m - 1) /\ u \o <<CR>> = SubSeq(t, x, m)
  BY <1>1, <1>5, <1>6, <1>8
<1>10. u \in Seq(LuluByte) /\ Len(u) = m - x /\ Len(u) <= MaxLong + 1
  BY <1>1, <1>7, <1>8
<1> QED BY <1>1, <1>2, <1>3, <1>4, <1>8, <1>9, <1>10 DEF ReturnAt

(* Another \r: the one before is content.                                  *)
LEMMA FieldReturnedAgain ==
    ASSUME NEW p \in Parser, NEW s \in Seq(LuluByte), NEW t, t = Append(s, CR),
           NEW x \in Nat, x >= 1, NEW field \in {"Name", "Password"},
           ReadsField(p, s, x, field), p.state = "CRLF",
           NEW q, q = IF Full(p, field) THEN Invalid(p) ELSE Store(p, field, <<CR>>)
    PROVE  FieldResult(p, t, x, field, q)
<1>1. PICK m \in Nat : m = Len(s)
  BY LenProperties
<1>2. PICK u : u = Stored(p, field)
  OBVIOUS
<1>3. /\ m >= x /\ Len(t) = m + 1 /\ t[m + 1] = CR
      /\ Clean(t, x, m - 1) /\ Clean(t, x, m) /\ Len(u) <= MaxLong + 1
      /\ u \in Seq(LuluByte) /\ Len(u) = m - x /\ u \o <<CR>> = SubSeq(t, x, m)
  <2>1. CR \in LuluByte
    BY StuffBytes
  <2>2. ReturnAt(u, s, t, CR, x, m)
    BY <1>1, <1>2, <2>1, AtReturn
  <2> QED BY <2>2 DEF ReturnAt
<1>4. PICK M \in Nat : M = MaxLong
  BY LuluParsersAssumption
<1>5. CASE Full(p, field)
  <2>1. q.state = "Invalid"
    BY <1>5, Goes DEF Invalid, ParserStates
  <2>2. PICK y \in Int : y = m - 1
    OBVIOUS
  <2>3. x + MaxLong <= y /\ y <= Len(t) /\ Len(t) \in Nat /\ Clean(t, x, y)
    BY <1>2, <1>3, <1>4, <1>5, <2>2 DEF Full
  <2>4. TooLong(t, x)
    BY <2>3, LongEnough
  <2> QED BY <2>1, <2>4 DEF FieldResult
<1>6. CASE ~ Full(p, field)
  <2>1. q = Store(p, field, <<CR>>)
    BY <1>6
  <2>2. PICK v : v = Stored(p, field) \o <<CR>>
    OBVIOUS
  <2>3. Len(v) = Len(u) + 1
    BY <1>2, <1>3, <2>2, StuffBytes, ConcatProperties
  <2>4. Len(v) <= MaxLong + 1 /\ ~ (Len(v) > MaxLong + 1)
    BY <1>2, <1>3, <1>4, <1>6, <2>3 DEF Full
  <2>5. q.state = p.state /\ q.prev = p.prev /\ Stored(q, field) = v
        /\ Other(q, field) = Other(p, field)
    <3>1. <<CR>> \in Seq(Stuff)
      BY StuffBytes
    <3>2. StoreResult(p, field, v, q)
      BY <2>1, <2>2, <3>1, StoreIs
    <3> QED BY <2>4, <3>2 DEF StoreResult
  <2>6. q.state = "CRLF" /\ q.prev = field
    BY <2>5 DEF ReadsField
  <2>7. v = SubSeq(t, x, m) /\ (m + 1) - 1 = m /\ m + 1 >= x
    <3>1. v = SubSeq(t, x, m)
      BY <1>2, <1>3, <2>2
    <3> QED BY <1>3, <3>1
  <2> QED BY <1>3, <2>4, <2>5, <2>6, <2>7 DEF FieldResult, ReadsField
<1> QED BY <1>5, <1>6

(* Another byte: both are.                                                 *)
LEMMA FieldGoesOn ==
    ASSUME NEW p \in Parser, NEW s \in Seq(LuluByte), NEW c \in Stuff, NEW t, t = Append(s, c),
           NEW x \in Nat, x >= 1, NEW field \in {"Name", "Password"},
           ReadsField(p, s, x, field), p.state = "CRLF", c \notin {CR, LF},
           NEW q, \/ q = Invalid(p) /\ Len(Stored(p, field)) >= MaxLong
                  \/ q = Store(To(p, field), field, <<CR, c>>)
    PROVE  FieldResult(p, t, x, field, q)
<1>1. PICK m \in Nat : m = Len(s)
  BY LenProperties
<1>2. PICK u : u = Stored(p, field)
  OBVIOUS
<1>3. c \in LuluByte /\ c # Bar /\ c # CR /\ c # LF
  BY DEF Stuff
<1>4. /\ m >= x /\ Len(t) = m + 1 /\ t[m + 1] = c
      /\ Clean(t, x, m - 1) /\ Clean(t, x, m) /\ Len(u) <= MaxLong + 1
      /\ u \in Seq(LuluByte) /\ Len(u) = m - x /\ u \o <<CR>> = SubSeq(t, x, m)
  <2>1. ReturnAt(u, s, t, c, x, m)
    BY <1>1, <1>2, <1>3, AtReturn
  <2> QED BY <2>1 DEF ReturnAt
<1>5. PICK M \in Nat : M = MaxLong
  BY LuluParsersAssumption
<1>6. ASSUME Len(u) >= MaxLong PROVE TooLong(t, x)
  <2>1. x + MaxLong <= m /\ m <= Len(t) /\ Len(t) \in Nat /\ m \in Int
    BY <1>4, <1>5, <1>6
  <2> QED BY <1>4, <2>1, LongEnough
<1>7. CASE q = Invalid(p) /\ Len(Stored(p, field)) >= MaxLong
  <2>1. q.state = "Invalid"
    BY <1>7, Goes DEF Invalid, ParserStates
  <2> QED BY <1>2, <1>6, <1>7, <2>1 DEF FieldResult
<1>8. CASE q = Store(To(p, field), field, <<CR, c>>)
  <2>1. PICK r : r = To(p, field)
    OBVIOUS
  <2>2. r \in Parser /\ r.state = field /\ Stored(r, field) = u /\ Other(r, field) = Other(p, field)
    <3>1. field \in ParserStates
      BY DEF ParserStates
    <3>2. r \in Parser /\ r.state = field /\ r.name = p.name /\ r.pass = p.pass
      BY <2>1, <3>1, Goes
    <3> QED BY <1>2, <3>2 DEF Stored, Other
  <2>3. PICK v : v = Stored(r, field) \o <<CR, c>>
    OBVIOUS
  <2>4. v = SubSeq(t, x, m + 1)
    <3>1. v = (u \o <<CR>>) \o <<c>>
      BY <1>3, <1>4, <2>2, <2>3, StuffBytes, TwoMore
    <3>2. x <= Len(s) + 1
      BY <1>1, <1>4
    <3>3. SubSeq(s, x, Len(s)) \o <<c>> = SubSeq(t, x, Len(s) + 1)
          /\ SubSeq(t, x, Len(s)) = SubSeq(s, x, Len(s))
      BY <1>3, <3>2, FieldMore
    <3> QED BY <1>1, <1>4, <3>1, <3>3
  <2>5. Len(v) = Len(u) + 2
    <3>1. <<CR, c>> \in Seq(LuluByte) /\ Len(<<CR, c>>) = 2
      BY <1>3, StuffBytes
    <3> QED BY <1>4, <2>2, <2>3, <3>1, ConcatProperties
  <2>6. <<CR, c>> \in Seq(Stuff)
    <3>1. CR \in Stuff /\ c \in Stuff
      BY StuffBytes
    <3> QED BY <3>1
  <2>7. PICK e : e = <<CR, c>>
    OBVIOUS
  <2>8. e \in Seq(Stuff) /\ q = Store(r, field, e) /\ v = Stored(r, field) \o e
    BY <1>8, <2>1, <2>3, <2>6, <2>7
  <2>9. StoreResult(r, field, v, q)
    BY <2>2, <2>8, StoreIs
  <2>10. CASE Len(v) > MaxLong + 1
    <3>1. q.state = "Overrun"
      BY <2>10, <2>9 DEF StoreResult
    <3>2. Len(u) >= MaxLong
      BY <1>4, <1>5, <2>5, <2>10
    <3> QED BY <1>6, <3>1, <3>2 DEF FieldResult
  <2>11. CASE ~ (Len(v) > MaxLong + 1)
    <3>1. q.state = r.state /\ Stored(q, field) = v /\ Other(q, field) = Other(r, field)
      BY <2>11, <2>9 DEF StoreResult
    <3>2. Len(v) <= MaxLong + 1
      BY <1>4, <1>5, <2>5, <2>11
    <3>3. Clean(t, x, m + 1)
      <4>1. m \in Int /\ t[m + 1] # Bar /\ t[m + 1] # LF
        BY <1>3, <1>4
      <4> QED BY <1>4, <4>1, CleanMore
    <3> QED BY <1>3, <1>4, <2>2, <2>4, <3>1, <3>2, <3>3 DEF FieldResult, ReadsField
  <2> QED BY <2>10, <2>11
<1> QED BY <1>7, <1>8

(* So whatever the byte, \r\n and | apart, the parser is in its field with *)
(* a byte more, or the field is too long.                                  *)
LEMMA FieldFed ==
    ASSUME NEW p \in Parser, NEW s \in Seq(LuluByte), NEW c \in Stuff, NEW t, t = Append(s, c),
           NEW x \in Nat, x >= 1, x <= Len(s) + 1, NEW field \in {"Name", "Password"},
           ReadsField(p, s, x, field), NEW q, FieldByte(p, c, field, q)
    PROVE  FieldResult(p, t, x, field, q)
<1>1. CASE p.state = field /\ c = CR /\ q = Return(p, field)
  BY <1>1, FieldReturn
<1>2. CASE p.state = field /\ c # CR /\ q = Content(p, c, field)
  BY <1>2, FieldContent
<1>3. CASE /\ p.state = "CRLF" /\ c = CR
           /\ q = IF Full(p, field) THEN Invalid(p) ELSE Store(p, field, <<CR>>)
  BY <1>3, FieldReturnedAgain
<1>4. CASE /\ p.state = "CRLF" /\ c \notin {CR, LF}
           /\ \/ q = Invalid(p) /\ Len(Stored(p, field)) >= MaxLong
              \/ q = Store(To(p, field), field, <<CR, c>>)
  BY <1>4, FieldGoesOn
<1> QED BY <1>1, <1>2, <1>3, <1>4 DEF FieldByte

-------------------------------------------------------------------------------
(* The byte that ends a field: the bar, or the \n behind a \r.             *)
LEMMA BarEnds ==
    ASSUME NEW p \in Parser, NEW s \in Seq(LuluByte), NEW t, t = Append(s, Bar),
           NEW x \in Nat, x >= 1, x <= Len(s) + 1, NEW field \in {"Name", "Password"},
           ReadsField(p, s, x, field), NEW m \in Nat, m = Len(s)
    PROVE  /\ EndsBar(t, x, m + 1)
           /\ p.state = field => Stored(p, field) = SubSeq(t, x, m)
<1>1. Bar \in LuluByte
  BY StuffBytes
<1>2. Len(t) = m + 1 /\ t[m + 1] = Bar
  BY <1>1, Appended
<1>3. Clean(t, x, m)
  <2>1. CASE p.state = "CRLF"
    <3>1. ReturnAt(Stored(p, field), s, t, Bar, x, m)
      BY <1>1, <2>1, AtReturn
    <3> QED BY <3>1 DEF ReturnAt
  <2>2. CASE p.state = field
    <3>1. Clean(s, x, m) /\ m \in Int /\ m <= Len(s)
      BY <2>2 DEF ReadsField
    <3> QED BY <1>1, <3>1, CleanGrows
  <2> QED BY <2>1, <2>2 DEF ReadsField
<1>4. (m + 1) - 1 = m /\ x <= m + 1 /\ m + 1 \in Nat /\ m + 1 <= Len(t)
  BY <1>2
<1>5. EndsBar(t, x, m + 1)
  BY <1>2, <1>3, <1>4 DEF EndsBar
<1>6. ASSUME p.state = field PROVE Stored(p, field) = SubSeq(t, x, m)
  <2>1. Stored(p, field) = SubSeq(s, x, m)
    BY <1>6 DEF ReadsField
  <2>2. SubSeq(t, x, Len(s)) = SubSeq(s, x, Len(s))
    BY <1>1, FieldMore
  <2> QED BY <2>1, <2>2
<1> QED BY <1>5, <1>6

(* An LF behind a \r ends the line, and the text of its last field.        *)
LEMMA CrlfEnds ==
    ASSUME NEW p \in Parser, NEW s \in Seq(LuluByte), NEW t, t = Append(s, LF),
           NEW x \in Nat, x >= 1, NEW field \in {"Name", "Password"},
           ReadsField(p, s, x, field), p.state = "CRLF", NEW l \in Nat, l = Len(s) + 1
    PROVE  CrlfAt(Stored(p, field), t, x, l)
<1>1. LF \in LuluByte
  BY StuffBytes
<1>2. PICK m \in Nat : m = Len(s)
  BY LenProperties
<1>3. PICK u : u = Stored(p, field)
  OBVIOUS
<1>4. ReturnAt(u, s, t, LF, x, m)
  BY <1>1, <1>2, <1>3, AtReturn
<1>5. l = m + 1 /\ l - 1 = m /\ l - 2 = m - 1
  BY <1>2
<1>6. /\ m >= x /\ Len(t) = l /\ t[l] = LF /\ t[l - 1] = CR /\ Clean(t, x, l - 2)
      /\ u = SubSeq(t, x, l - 2)
  BY <1>4, <1>5 DEF ReturnAt
<1>7. EndsCrlf(t, x, l)
  BY <1>5, <1>6 DEF EndsCrlf
<1>8. u \in Seq(LuluByte) /\ Len(u) = m - x
  BY <1>4 DEF ReturnAt
<1>9. u = <<>> <=> Len(u) = 0
  BY <1>8, EmptySeq
<1>10. (u = <<>> => l = x + 1) /\ (u # <<>> => l > x + 1)
  <2>1. PICK n \in Nat : n = Len(u)
    BY <1>8, LenProperties
  <2>2. n = m - x /\ (u = <<>> <=> n = 0)
    BY <1>8, <1>9, <2>1
  <2>3. (n = 0 => l = x + 1) /\ (n # 0 => l > x + 1)
    BY <1>5, <2>2
  <2> QED BY <2>2, <2>3
<1> QED BY <1>3, <1>6, <1>7, <1>10 DEF CrlfAt

-------------------------------------------------------------------------------
(* A field that is full, in whichever way its parser asks, is long.        *)
LEMMA LengthsCompare == MaxLong >= MaxLong /\ MaxLong + 1 >= MaxLong
<1>1. MaxLong \in Nat
  BY LuluParsersAssumption
<1> QED BY <1>1

(* What the parsers of HELLO and of SET USER do with a byte of a field.    *)
LEMMA TwoFieldsFeed ==
    ASSUME NEW k \in TwoNamed, NEW p \in Parser, NEW c \in LuluByte,
           NEW field \in {"Name", "Password"},
           p.state = field \/ (p.state = "CRLF" /\ p.prev = field),
           NEW q, q = Feed(k, p, c)
    PROVE  FieldsStep(p, c, field, q)
<1>1. CASE p.state = field
  <2>1. q = NameOrPassword(p, c, field)
    <3>1. p.state \in {"Name", "Password"}
      BY <1>1
    <3>2. CASE k = "HELLO"
      BY <1>1, <3>1, <3>2, Zenon DEF Feed, HelloFeed
    <3>3. CASE k = "SET USER"
      BY <1>1, <3>1, <3>3, Zenon DEF Feed, SetUserFeed
    <3> QED BY <3>2, <3>3, Zenon DEF TwoNamed
  <2>2. c = Bar => q = IF field = "Name" /\ p.name # <<>> THEN To(p, "Password") ELSE Invalid(p)
    BY <2>1, StuffBytes, Zenon DEF NameOrPassword
  <2>3. c = CR => q = Return(p, field)
    BY <2>1, StuffBytes, Zenon DEF NameOrPassword
  <2>4. c # Bar /\ c # CR => q = Content(p, c, field)
    BY <2>1, Zenon DEF NameOrPassword
  <2> QED BY <1>1, <2>2, <2>3, <2>4 DEF FieldByte, FieldsStep
<1>2. CASE p.state = "CRLF" /\ p.prev = field
  <2>1. MaxLong >= MaxLong /\ MaxLong + 1 >= MaxLong
    BY LengthsCompare
  <2>2. PICK full : /\ q = AfterReturn(p, c, full)
                    /\ full => Len(Stored(p, field)) >= MaxLong
    <3>1. CASE k = "HELLO"
      <4>1. q = AfterReturn(p, c, Len(Stored(p, p.prev)) = MaxLong)
        BY <1>2, <3>1, Zenon DEF Feed, HelloFeed
      <4>2. Len(Stored(p, p.prev)) = MaxLong => Len(Stored(p, field)) >= MaxLong
        BY <1>2, <2>1
      <4> QED BY <4>1, <4>2, Zenon
    <3>2. CASE k = "SET USER"
      <4>1. q = AfterReturn(p, c, Full(p, p.prev))
        BY <1>2, <3>2, Zenon DEF Feed, SetUserFeed
      <4>2. Full(p, p.prev) => Len(Stored(p, field)) >= MaxLong
        BY <1>2, <2>1 DEF Full
      <4> QED BY <4>1, <4>2, Zenon
    <3> QED BY <3>1, <3>2, Zenon DEF TwoNamed
  <2>3. c = LF => q = EndOfLine(p)
    BY <2>2, StuffBytes, Zenon DEF AfterReturn
  <2>4. c = Bar => q = BarAfterReturn(p)
    BY <2>2, StuffBytes, Zenon DEF AfterReturn
  <2>5. c = CR => q = IF Full(p, p.prev) THEN Invalid(p) ELSE Store(p, p.prev, <<CR>>)
    BY <2>2, StuffBytes, Zenon DEF AfterReturn
  <2>6. c \notin {LF, CR, Bar} =>
           q = IF full THEN Invalid(p) ELSE Store(To(p, p.prev), p.prev, <<CR, c>>)
    <3>1. SUFFICES ASSUME c # LF, c # CR, c # Bar
                   PROVE  q = IF full THEN Invalid(p) ELSE Store(To(p, p.prev), p.prev, <<CR, c>>)
      OBVIOUS
    <3> QED BY <2>2, <3>1, Zenon DEF AfterReturn
  <2>7. c \notin {LF, CR, Bar} =>
           \/ q = Invalid(p) /\ Len(Stored(p, field)) >= MaxLong
           \/ q = Store(To(p, field), field, <<CR, c>>)
    BY <1>2, <2>2, <2>6, Zenon
  <2>8. c # Bar /\ c # LF => FieldByte(p, c, field, q)
    BY <1>2, <2>5, <2>7 DEF FieldByte
  <2> QED BY <1>2, <2>3, <2>4, <2>8 DEF FieldsStep
<1> QED BY <1>1, <1>2

(* And that of DEL USER.                                                   *)
LEMMA OneFieldFeed ==
    ASSUME NEW p \in Parser, NEW c \in LuluByte,
           p.state = "Name" \/ (p.state = "CRLF" /\ p.prev = "Name"),
           NEW q, q = Feed("DEL USER", p, c)
    PROVE  /\ c = Bar => q = Invalid(p)
           /\ p.state = "CRLF" /\ c = LF =>
                 q = To(p, IF p.name = <<>> THEN "Invalid" ELSE "Finished")
           /\ c # Bar /\ ~ (p.state = "CRLF" /\ c = LF) => FieldByte(p, c, "Name", q)
<1>1. q = DelUserFeed(p, c)
  BY Zenon DEF Feed
<1>2. CASE p.state = "Name"
  <2>1. q = CASE c = Bar -> Invalid(p)
              [] c = CR  -> Return(p, "Name")
              [] OTHER   -> Content(p, c, "Name")
    BY <1>1, <1>2, Zenon DEF DelUserFeed
  <2>2. c = Bar => q = Invalid(p)
    BY <2>1, StuffBytes, Zenon
  <2>3. c = CR => q = Return(p, "Name")
    BY <2>1, StuffBytes, Zenon
  <2>4. c # Bar /\ c # CR => q = Content(p, c, "Name")
    BY <2>1, Zenon
  <2> QED BY <1>2, <2>2, <2>3, <2>4 DEF FieldByte
<1>3. CASE p.state = "CRLF" /\ p.prev = "Name"
  <2>1. q = CASE c = LF  -> To(p, IF p.name = <<>> THEN "Invalid" ELSE "Finished")
              [] c = Bar -> Invalid(p)
              [] c = CR  -> IF Full(p, "Name") THEN Invalid(p) ELSE Store(p, "Name", <<CR>>)
              [] OTHER   -> IF Len(p.name) = MaxLong THEN Invalid(p)
                            ELSE Store(To(p, "Name"), "Name", <<CR, c>>)
    BY <1>1, <1>3, Zenon DEF DelUserFeed
  <2>2. c = LF => q = To(p, IF p.name = <<>> THEN "Invalid" ELSE "Finished")
    BY <2>1, StuffBytes, Zenon
  <2>3. c = Bar => q = Invalid(p)
    BY <2>1, StuffBytes, Zenon
  <2>4. c = CR => q = IF Full(p, "Name") THEN Invalid(p) ELSE Store(p, "Name", <<CR>>)
    BY <2>1, StuffBytes, Zenon
  <2>5. c \notin {LF, CR, Bar} =>
           q = IF Len(p.name) = MaxLong THEN Invalid(p)
               ELSE Store(To(p, "Name"), "Name", <<CR, c>>)
    <3>1. SUFFICES ASSUME c # LF, c # CR, c # Bar
                   PROVE  q = IF Len(p.name) = MaxLong THEN Invalid(p)
                              ELSE Store(To(p, "Name"), "Name", <<CR, c>>)
      OBVIOUS
    <3> QED BY <2>1, <3>1, Zenon
  <2>6. Len(p.name) = MaxLong => Len(Stored(p, "Name")) >= MaxLong
    <3>1. Stored(p, "Name") = p.name
      BY DEF Stored
    <3> QED BY <3>1, LengthsCompare
  <2>7. c \notin {LF, CR, Bar} =>
           \/ q = Invalid(p) /\ Len(Stored(p, "Name")) >= MaxLong
           \/ q = Store(To(p, "Name"), "Name", <<CR, c>>)
    BY <2>5, <2>6, Zenon
  <2>8. c # Bar /\ c # LF => FieldByte(p, c, "Name", q)
    BY <1>3, <2>4, <2>7 DEF FieldByte
  <2> QED BY <1>3, <2>2, <2>3, <2>8
<1> QED BY <1>2, <1>3

-------------------------------------------------------------------------------
(* What goes wrong in a field, one by one.                                 *)
LEMMA WrongFields ==
    ASSUME NEW k, NEW q, NEW t, NEW b \in Nat, q.state \in {"Invalid", "Overrun"}
    PROVE  /\ TooLong(t, b) => NamedFields(q, t, k, b)
           /\ k \in TwoNamed => \A l : EndsCrlf(t, b, l) => NamedFields(q, t, k, b)
           /\ k \in TwoNamed => \A i : EndsBar(t, b, i) =>
                /\ i = b => NamedFields(q, t, k, b)
                /\ TooLong(t, i + 1) => NamedFields(q, t, k, b)
                /\ \A j : EndsBar(t, i + 1, j) => NamedFields(q, t, k, b)
                /\ EndsCrlf(t, i + 1, i + 2) => NamedFields(q, t, k, b)
           /\ k \notin TwoNamed => \A j : EndsBar(t, b, j) => NamedFields(q, t, k, b)
           /\ k \notin TwoNamed => (EndsCrlf(t, b, b + 1) => NamedFields(q, t, k, b))
<1>1. (k \in TwoNamed /\ NoFields(t, b)) \/ (k \notin TwoNamed /\ NoField(t, b))
         => NamedFields(q, t, k, b)
  BY Zenon DEF NamedFields
<1>2. TooLong(t, b) => NoFields(t, b) /\ NoField(t, b)
  BY Zenon DEF NoFields, NoField
<1>3. \A l : EndsCrlf(t, b, l) => NoFields(t, b)
  BY Zenon DEF NoFields
<1>4. \A i : EndsBar(t, b, i) =>
         /\ i = b => NoFields(t, b)
         /\ TooLong(t, i + 1) => NoFields(t, b)
         /\ \A j : EndsBar(t, i + 1, j) => NoFields(t, b)
         /\ EndsCrlf(t, i + 1, i + 2) => NoFields(t, b)
  BY Zenon DEF NoFields
<1>5. (\A j : EndsBar(t, b, j) => NoField(t, b)) /\ (EndsCrlf(t, b, b + 1) => NoField(t, b))
  BY Zenon DEF NoField
<1> QED BY <1>1, <1>2, <1>3, <1>4, <1>5, Zenon

(* A byte in the first of two fields.                                      *)
LEMMA NameFed ==
    ASSUME NEW k \in TwoNamed, NEW p \in Parser, NEW s \in Seq(LuluByte),
           NEW c \in LuluByte, NEW t, t = Append(s, c), NEW b \in Nat, b >= 1, b <= Len(s) + 1,
           ReadsField(p, s, b, "Name"), p.pass = <<>>, NEW q, q = Feed(k, p, c)
    PROVE  NamedFields(q, t, k, b)
<1>1. PICK m \in Nat : m = Len(s)
  BY LenProperties
<1>2. PICK field \in {"Name", "Password"} : field = "Name"
  OBVIOUS
<1>3. ReadsField(p, s, b, field)
  BY <1>2
<1>4. p.state = field \/ (p.state = "CRLF" /\ p.prev = field)
  BY <1>3 DEF ReadsField
<1>5. FieldsStep(p, c, field, q)
  BY <1>4, TwoFieldsFeed
<1>6. Invalid(p).state = "Invalid"
  BY Goes DEF Invalid, ParserStates
<1>7. CASE c # Bar /\ ~ (p.state = "CRLF" /\ c = LF)
  <2>1. FieldByte(p, c, field, q)
    BY <1>7, <1>5 DEF FieldsStep
  <2>2. FieldResult(p, t, b, field, q)
    <3>1. c \in Stuff
      BY <1>7, StuffBytes
    <3> QED BY <1>3, <2>1, <3>1, FieldFed
  <2>3. CASE ReadsField(q, t, b, field) /\ Other(q, field) = Other(p, field)
    BY <1>2, <2>3 DEF Other, NamedFields
  <2>4. CASE q.state \in {"Invalid", "Overrun"} /\ TooLong(t, b)
    BY <2>4, WrongFields
  <2> QED BY <2>2, <2>3, <2>4 DEF FieldResult
<1>8. CASE p.state = "CRLF" /\ c = LF
  <2>1. q = EndOfLine(p)
    BY <1>8, <1>5 DEF FieldsStep
  <2>2. q = Invalid(p)
    <3>1. p.prev # "Password"
      BY <1>3, <1>2, <1>8 DEF ReadsField
    <3> QED BY <2>1, <3>1 DEF EndOfLine
  <2>3. PICK l \in Nat : l = Len(s) + 1
    BY <1>1
  <2>4. EndsCrlf(t, b, l)
    <3>1. t = Append(s, LF)
      BY <1>8
    <3>2. CrlfAt(Stored(p, field), t, b, l)
      BY <1>3, <1>8, <2>3, <3>1, CrlfEnds
    <3> QED BY <3>2 DEF CrlfAt
  <2>5. q.state \in {"Invalid", "Overrun"}
    BY <1>6, <2>2
  <2> QED BY <2>4, <2>5, WrongFields
<1>9. ASSUME c = Bar PROVE EndsBar(t, b, m + 1) /\ (p.state = field => p.name = SubSeq(t, b, m))
  <2>1. t = Append(s, Bar)
    BY <1>9
  <2>2. EndsBar(t, b, m + 1) /\ (p.state = field => Stored(p, field) = SubSeq(t, b, m))
    BY <1>1, <1>3, <2>1, BarEnds
  <2> QED BY <1>2, <2>2 DEF Stored
<1>10. Len(t) = m + 1
  BY <1>1, Appended
<1>11. ASSUME q.state = "Password", q.pass = <<>>, q.name = SubSeq(t, b, m), c = Bar, m + 1 > b
       PROVE  NamedFields(q, t, k, b)
  <2>1. EndsBar(t, b, m + 1) /\ q.name = SubSeq(t, b, (m + 1) - 1)
    <3>1. (m + 1) - 1 = m
      OBVIOUS
    <3> QED BY <1>9, <1>11, <3>1
  <2>2. ReadsField(q, t, (m + 1) + 1, "Password")
    <3>1. PICK x \in Nat, y \in Nat : x = (m + 1) + 1 /\ y = m + 1
      OBVIOUS
    <3>2. y < x /\ Len(t) = y /\ ~ (Len(t) >= x)
      BY <1>10, <3>1
    <3>3. SubSeq(t, x, Len(t)) = <<>> /\ Clean(t, x, Len(t))
      <4>1. SubSeq(t, x, y) = <<>>
        BY <3>2, SubSeqEmpty
      <4>2. x .. y = {}
        BY <3>2
      <4> QED BY <3>2, <4>1, <4>2 DEF Clean
    <3>4. Stored(q, "Password") = <<>> /\ Len(<<>>) <= MaxLong + 1
      <4>1. 0 <= MaxLong + 1
        BY LuluParsersAssumption
      <4> QED BY <1>11, <4>1 DEF Stored
    <3> QED BY <1>11, <3>1, <3>2, <3>3, <3>4 DEF ReadsField
  <2> QED BY <1>11, <2>1, <2>2 DEF NamedFields
<1>12. CASE c = Bar /\ p.state = field
  <2>1. q = IF p.name # <<>> THEN To(p, "Password") ELSE Invalid(p)
    BY <1>2, <1>12, <1>5 DEF FieldsStep
  <2>2. p.name = SubSeq(s, b, m)
    BY <1>1, <1>2, <1>3, <1>12 DEF ReadsField, Stored
  <2>3. Len(p.name) = m - b + 1 /\ p.name \in Seq(LuluByte)
    BY <1>1, <2>2, FieldLength
  <2>4. CASE p.name # <<>>
    <3>1. q.state = "Password" /\ q.pass = <<>> /\ q.name = p.name
      BY <2>1, <2>4, Goes DEF ParserStates
    <3>2. Len(p.name) # 0
      BY <2>3, <2>4, EmptySeq
    <3>3. m + 1 > b
      BY <1>1, <2>3, <3>2
    <3> QED BY <1>9, <1>11, <1>12, <3>1, <3>3
  <2>5. CASE p.name = <<>>
    <3>1. m + 1 = b
      BY <1>1, <2>3, <2>5
    <3>2. EndsBar(t, b, m + 1)
      BY <1>9, <1>12
    <3>3. q.state \in {"Invalid", "Overrun"}
      BY <1>6, <2>1, <2>5
    <3> QED BY <3>1, <3>2, <3>3, WrongFields
  <2> QED BY <2>4, <2>5
<1>13. CASE c = Bar /\ p.state = "CRLF"
  <2>1. q = BarAfterReturn(p)
    BY <1>4, <1>13, <1>5 DEF FieldsStep
  <2>2. PICK u : u = Stored(p, field)
    OBVIOUS
  <2>3. ReturnAt(u, s, t, c, b, m)
    BY <1>1, <1>3, <1>13, <2>2, AtReturn
  <2>4. /\ m >= b /\ Clean(t, b, m - 1) /\ u \o <<CR>> = SubSeq(t, b, m)
        /\ u \in Seq(LuluByte) /\ Len(u) = m - b /\ Len(u) <= MaxLong + 1
    BY <2>3 DEF ReturnAt
  <2>5. PICK M \in Nat : M = MaxLong
    BY LuluParsersAssumption
  <2>6. CASE Full(p, field)
    <3>1. q = Invalid(p)
      BY <1>2, <2>1, <2>6 DEF BarAfterReturn
    <3>2. PICK y \in Int : y = m - 1
      OBVIOUS
    <3>3. b + MaxLong <= y /\ y <= Len(t) /\ Len(t) \in Nat /\ Clean(t, b, y)
      BY <1>10, <2>2, <2>4, <2>5, <2>6, <3>2 DEF Full
    <3>4. TooLong(t, b)
      BY <3>3, LongEnough
    <3> QED BY <1>6, <3>1, <3>4, WrongFields
  <2>7. CASE ~ Full(p, field)
    <3>1. PICK r : r = Store(p, field, <<CR>>)
      OBVIOUS
    <3>2. PICK v : v = Stored(p, field) \o <<CR>>
      OBVIOUS
    <3>3. Len(v) = Len(u) + 1
      <4>1. <<CR>> \in Seq(LuluByte) /\ Len(<<CR>>) = 1
        BY StuffBytes
      <4> QED BY <2>2, <2>4, <3>2, <4>1, ConcatProperties
    <3>4. ~ (Len(v) > MaxLong + 1)
      BY <2>2, <2>4, <2>5, <2>7, <3>3 DEF Full
    <3>5. <<CR>> \in Seq(Stuff)
      BY StuffBytes
    <3>6. StoreResult(p, field, v, r)
      BY <3>1, <3>2, <3>5, StoreIs
    <3>7. r.name = v /\ r.pass = p.pass
      BY <1>2, <3>4, <3>6 DEF StoreResult, Stored, Other
    <3>8. r \in Parser
      BY <3>1, <3>5, StoreKeeps
    <3>9. q = To(r, "Password")
      <4>1. p.prev = "Name"
        BY <1>2, <1>4, <1>13
      <4> QED BY <1>2, <2>1, <2>7, <3>1, <4>1 DEF BarAfterReturn
    <3>10. q.state = "Password" /\ q.name = r.name /\ q.pass = r.pass
      BY <3>8, <3>9, Goes DEF ParserStates
    <3>11. q.name = SubSeq(t, b, m) /\ q.pass = <<>>
      BY <2>2, <2>4, <3>2, <3>7, <3>10
    <3>12. m + 1 > b
      BY <2>4
    <3> QED BY <1>11, <1>13, <3>10, <3>11, <3>12
  <2> QED BY <2>6, <2>7
<1> QED BY <1>4, <1>7, <1>8, <1>12, <1>13

(* A byte in the second one.                                               *)
LEMMA PasswordFed ==
    ASSUME NEW k \in TwoNamed, NEW p \in Parser, NEW s \in Seq(LuluByte),
           NEW c \in LuluByte, NEW t, t = Append(s, c), NEW b \in Nat, b >= 1,
           NEW i \in Nat, EndsBar(s, b, i), i > b, p.name = SubSeq(s, b, i - 1),
           ReadsField(p, s, i + 1, "Password"), NEW q, q = Feed(k, p, c)
    PROVE  NamedFields(q, t, k, b)
<1>1. PICK m \in Nat : m = Len(s)
  BY LenProperties
<1>2. PICK x \in Nat : x = i + 1
  OBVIOUS
<1>3. PICK field \in {"Name", "Password"} : field = "Password"
  OBVIOUS
<1>4. ReadsField(p, s, x, field) /\ field # "Name"
  BY <1>2, <1>3
<1>5. p.state = field \/ (p.state = "CRLF" /\ p.prev = field)
  BY <1>4 DEF ReadsField
<1>6. FieldsStep(p, c, field, q)
  BY <1>5, TwoFieldsFeed
<1>7. Invalid(p).state = "Invalid"
  BY Goes DEF Invalid, ParserStates
<1>8. i <= m /\ x >= 1 /\ x <= Len(s) + 1 /\ x <= m + 1
  BY <1>1, <1>2 DEF EndsBar
<1>9. EndsBar(t, b, i) /\ SubSeq(t, b, i - 1) = SubSeq(s, b, i - 1)
  <2>1. EndsBar(t, b, i)
    BY EndsStay
  <2>2. PICK y \in 0 .. Len(s) : y = i - 1
    BY <1>1, <1>8
  <2>3. b \in 1 .. Len(s) + 1
    BY <1>1, <1>8
  <2>4. SubSeq(t, b, y) = SubSeq(s, b, y)
    BY <2>3, Appended
  <2> QED BY <2>1, <2>2, <2>4
<1>10. CASE c # Bar /\ ~ (p.state = "CRLF" /\ c = LF)
  <2>1. FieldByte(p, c, field, q)
    BY <1>10, <1>6 DEF FieldsStep
  <2>2. FieldResult(p, t, x, field, q)
    <3>1. c \in Stuff
      BY <1>10, StuffBytes
    <3> QED BY <1>4, <1>8, <2>1, <3>1, FieldFed
  <2>3. CASE ReadsField(q, t, x, field) /\ Other(q, field) = Other(p, field)
    <3>1. q.name = p.name
      BY <1>3, <2>3 DEF Other
    <3>2. EndsBar(t, b, i) /\ i > b /\ q.name = SubSeq(t, b, i - 1)
          /\ ReadsField(q, t, i + 1, "Password")
      BY <1>2, <1>3, <1>9, <2>3, <3>1
    <3> QED BY <3>2, Zenon DEF NamedFields
  <2>4. CASE q.state \in {"Invalid", "Overrun"} /\ TooLong(t, x)
    BY <1>2, <1>9, <2>4, WrongFields
  <2> QED BY <2>2, <2>3, <2>4 DEF FieldResult
<1>11. CASE c = Bar
  <2>1. q = Invalid(p)
    <3>1. CASE p.state = field
      <4>1. q = IF field = "Name" /\ p.name # <<>> THEN To(p, "Password") ELSE Invalid(p)
        BY <1>11, <1>6, <3>1 DEF FieldsStep
      <4> QED BY <1>4, <4>1
    <3>2. CASE p.state = "CRLF" /\ p.prev = field
      <4>1. q = BarAfterReturn(p)
        BY <1>11, <1>6, <3>2 DEF FieldsStep
      <4> QED BY <1>4, <3>2, <4>1 DEF BarAfterReturn
    <3> QED BY <1>5, <3>1, <3>2
  <2>2. t = Append(s, Bar)
    BY <1>11
  <2>3. EndsBar(t, x, m + 1)
    BY <1>1, <1>4, <1>8, <2>2, BarEnds
  <2>4. q.state \in {"Invalid", "Overrun"}
    BY <1>7, <2>1
  <2> QED BY <1>2, <1>9, <2>3, <2>4, WrongFields
<1>12. CASE p.state = "CRLF" /\ c = LF
  <2>1. q = EndOfLine(p) /\ p.prev = "Password"
    <3>1. q = EndOfLine(p)
      BY <1>12, <1>6 DEF FieldsStep
    <3>2. p.prev = field
      BY <1>4, <1>12 DEF ReadsField
    <3> QED BY <1>3, <3>1, <3>2
  <2>2. PICK l \in Nat : l = Len(s) + 1
    BY <1>1
  <2>3. CrlfAt(Stored(p, field), t, x, l)
    <3>1. t = Append(s, LF)
      BY <1>12
    <3> QED BY <1>4, <1>8, <1>12, <2>2, <3>1, CrlfEnds
  <2>4. /\ EndsCrlf(t, x, l) /\ p.pass = SubSeq(t, x, l - 2)
        /\ (p.pass = <<>> => l = x + 1) /\ (p.pass # <<>> => l > x + 1)
    <3>1. Stored(p, field) = p.pass
      BY <1>4 DEF Stored
    <3> QED BY <2>3, <3>1 DEF CrlfAt
  <2>5. CASE p.pass # <<>>
    <3>1. q = To(p, "Finished")
      BY <2>1, <2>5 DEF EndOfLine
    <3>2. q.state = "Finished" /\ q.name = p.name /\ q.pass = p.pass
      BY <3>1, Goes DEF ParserStates
    <3>3. TwoFields(t, b, i, l)
      <4>1. l > i + 2
        BY <1>2, <2>4, <2>5
      <4> QED BY <1>2, <1>9, <2>4, <4>1 DEF TwoFields
    <3>4. q.name = SubSeq(t, b, i - 1) /\ q.pass = SubSeq(t, i + 1, l - 2)
      BY <1>2, <1>9, <2>4, <3>2
    <3> QED BY <3>2, <3>3, <3>4 DEF NamedFields, NamedDone
  <2>6. CASE p.pass = <<>>
    <3>1. q = Invalid(p)
      BY <2>1, <2>6 DEF EndOfLine
    <3>2. l = i + 2
      BY <1>2, <2>4, <2>6
    <3>3. EndsCrlf(t, i + 1, i + 2)
      BY <1>2, <2>4, <3>2
    <3>4. q.state \in {"Invalid", "Overrun"}
      BY <1>7, <3>1
    <3> QED BY <1>9, <3>3, <3>4, WrongFields
  <2> QED BY <2>5, <2>6
<1> QED BY <1>10, <1>11, <1>12

(* And in the only one of DEL USER.                                        *)
LEMMA OneFieldFed ==
    ASSUME NEW k \in Named \ TwoNamed, NEW p \in Parser, NEW s \in Seq(LuluByte),
           NEW c \in LuluByte, NEW t, t = Append(s, c), NEW b \in Nat, b >= 1, b <= Len(s) + 1,
           ReadsField(p, s, b, "Name"), p.pass = <<>>, NEW q, q = Feed(k, p, c)
    PROVE  NamedFields(q, t, k, b)
<1>1. PICK m \in Nat : m = Len(s)
  BY LenProperties
<1>2. PICK field \in {"Name", "Password"} : field = "Name"
  OBVIOUS
<1>3. ReadsField(p, s, b, field)
  BY <1>2
<1>4. p.state = "Name" \/ (p.state = "CRLF" /\ p.prev = "Name")
  BY DEF ReadsField
<1>5. Invalid(p).state = "Invalid"
  BY Goes DEF Invalid, ParserStates
<1>6. /\ c = Bar => q = Invalid(p)
      /\ p.state = "CRLF" /\ c = LF =>
            q = To(p, IF p.name = <<>> THEN "Invalid" ELSE "Finished")
      /\ c # Bar /\ ~ (p.state = "CRLF" /\ c = LF) => FieldByte(p, c, "Name", q)
  <2>1. q = Feed("DEL USER", p, c)
    BY Zenon DEF Named, TwoNamed
  <2> QED BY <1>4, <2>1, OneFieldFeed, Zenon
<1>7. CASE c # Bar /\ ~ (p.state = "CRLF" /\ c = LF)
  <2>1. FieldByte(p, c, field, q)
    BY <1>2, <1>6, <1>7
  <2>2. FieldResult(p, t, b, field, q)
    <3>1. c \in Stuff
      BY <1>7, StuffBytes
    <3> QED BY <1>3, <2>1, <3>1, FieldFed
  <2>3. CASE ReadsField(q, t, b, field) /\ Other(q, field) = Other(p, field)
    BY <1>2, <2>3 DEF Other, NamedFields
  <2>4. CASE q.state \in {"Invalid", "Overrun"} /\ TooLong(t, b)
    BY <2>4, WrongFields
  <2> QED BY <2>2, <2>3, <2>4 DEF FieldResult
<1>8. CASE c = Bar
  <2>1. t = Append(s, Bar)
    BY <1>8
  <2>2. EndsBar(t, b, m + 1)
    BY <1>1, <1>3, <2>1, BarEnds
  <2>3. q.state \in {"Invalid", "Overrun"}
    BY <1>5, <1>6, <1>8
  <2> QED BY <2>2, <2>3, WrongFields
<1>9. CASE p.state = "CRLF" /\ c = LF
  <2>1. PICK l \in Nat : l = Len(s) + 1
    BY <1>1
  <2>2. CrlfAt(Stored(p, field), t, b, l)
    <3>1. t = Append(s, LF)
      BY <1>9
    <3> QED BY <1>3, <1>9, <2>1, <3>1, CrlfEnds
  <2>3. /\ EndsCrlf(t, b, l) /\ p.name = SubSeq(t, b, l - 2)
        /\ (p.name = <<>> => l = b + 1) /\ (p.name # <<>> => l > b + 1)
    <3>1. Stored(p, field) = p.name
      BY <1>2 DEF Stored
    <3> QED BY <2>2, <3>1 DEF CrlfAt
  <2>4. CASE p.name # <<>>
    <3>1. q = To(p, "Finished")
      BY <1>6, <1>9, <2>4
    <3>2. q.state = "Finished" /\ q.name = p.name
      BY <3>1, Goes DEF ParserStates
    <3>3. OneField(t, b, l) /\ q.name = SubSeq(t, b, l - 2)
      BY <2>3, <2>4, <3>2 DEF OneField
    <3> QED BY <3>2, <3>3 DEF NamedFields, NamedDone
  <2>5. CASE p.name = <<>>
    <3>1. q = To(p, "Invalid")
      BY <1>6, <1>9, <2>5
    <3>2. q.state \in {"Invalid", "Overrun"}
      BY <3>1, Goes DEF ParserStates
    <3>3. EndsCrlf(t, b, b + 1)
      BY <2>3, <2>5
    <3> QED BY <3>2, <3>3, WrongFields
  <2> QED BY <2>4, <2>5
<1> QED BY <1>7, <1>8, <1>9

-------------------------------------------------------------------------------
(* The words before the fields.                                            *)
LEMMA NamedHeadIs ==
    ASSUME NEW k \in Named
    PROVE  /\ k \in Command
           /\ k = "HELLO" => "HELLO" \in Words /\ Opening(k) = Word["HELLO"]
           /\ k # "HELLO" => k \in TwoWorded
<1>1. k \in Command /\ (k # "HELLO" => k \in TwoWorded)
  BY DEF Named, TwoWorded, Command
<1>2. ASSUME k = "HELLO" PROVE Opening(k) = Word["HELLO"]
  <2>1. OpeningWords[k] = <<"HELLO">>
    BY <1>2, Zenon DEF OpeningWords, Command
  <2> QED BY <2>1 DEF Opening
<1> QED BY <1>1, <1>2 DEF Words

(* The parsers of names in the words.                                      *)
LEMMA NamedParser ==
    ASSUME NEW k \in Named, NEW p, NEW c
    PROVE  /\ k = "HELLO" /\ p.state = "First" =>
                 Feed(k, p, c) = Traverse(p, c, "HELLO", Bar, "Name")
           /\ k # "HELLO" /\ p.state = "First" =>
                 Feed(k, p, c) = Traverse(p, c, FirstWord(k), Bar, "Second")
           /\ k # "HELLO" /\ p.state = "Second" =>
                 Feed(k, p, c) = Traverse(p, c, SecondWord(k), Bar, "Name")
<1>1. CASE k = "HELLO"
  <2>1. Feed(k, p, c) = HelloFeed(p, c)
    BY <1>1, Zenon DEF Feed
  <2>2. p.state = "First" => HelloFeed(p, c) = Traverse(p, c, "HELLO", Bar, "Name")
    BY Zenon DEF HelloFeed
  <2> QED BY <1>1, <2>1, <2>2, Zenon
<1>2. CASE k = "SET USER"
  <2>1. OpeningWords[k] = <<"SET", "USER">>
    BY <1>2, Zenon DEF OpeningWords, Command
  <2>2. FirstWord(k) = "SET" /\ SecondWord(k) = "USER"
    BY <2>1 DEF FirstWord, SecondWord
  <2>3. Feed(k, p, c) = SetUserFeed(p, c)
    BY <1>2, Zenon DEF Feed
  <2>4. /\ p.state = "First" => SetUserFeed(p, c) = Traverse(p, c, "SET", Bar, "Second")
        /\ p.state = "Second" => SetUserFeed(p, c) = Traverse(p, c, "USER", Bar, "Name")
    BY Zenon DEF SetUserFeed
  <2> QED BY <1>2, <2>2, <2>3, <2>4, Zenon
<1>3. CASE k = "DEL USER"
  <2>1. OpeningWords[k] = <<"DEL", "USER">>
    BY <1>3, Zenon DEF OpeningWords, Command
  <2>2. FirstWord(k) = "DEL" /\ SecondWord(k) = "USER"
    BY <2>1 DEF FirstWord, SecondWord
  <2>3. Feed(k, p, c) = DelUserFeed(p, c)
    BY <1>3, Zenon DEF Feed
  <2>4. /\ p.state = "First" => DelUserFeed(p, c) = Traverse(p, c, "DEL", Bar, "Second")
        /\ p.state = "Second" => DelUserFeed(p, c) = Traverse(p, c, "USER", Bar, "Name")
    BY Zenon DEF DelUserFeed
  <2> QED BY <1>3, <2>2, <2>3, <2>4, Zenon
<1> QED BY <1>1, <1>2, <1>3, Zenon DEF Named

(* A word does not touch what is stored.                                   *)
LEMMA WordsStoreNothing ==
    ASSUME NEW p \in Parser, NEW c, NEW word, NEW end, NEW next
    PROVE  LET q == Traverse(p, c, word, end, next)
           IN q.name = p.name /\ q.pass = p.pass
<1>1. PICK q : q = Traverse(p, c, word, end, next)
  OBVIOUS
<1>2. CASE q = [p EXCEPT !.state = next, !.at = 0]
  BY <1>1, <1>2 DEF Parser
<1>3. CASE q = [p EXCEPT !.at = @ + 1]
  BY <1>1, <1>3 DEF Parser
<1>4. CASE q = Invalid(p)
  BY <1>1, <1>4, Goes DEF Invalid, ParserStates
<1> QED BY <1>1, <1>2, <1>3, <1>4, Zenon DEF Traverse

(* Behind the bar the first field begins.                                  *)
LEMMA FieldsBegin ==
    ASSUME NEW k \in Named, NEW q, q.state = "Name", q.name = <<>>, q.pass = <<>>,
           NEW t \in Seq(LuluByte), Matches(t, ArgumentHead(k)),
           Len(t) = Len(Opening(k)) + 1
    PROVE  NamedKnows(q, t, k)
<1>1. PICK N \in Nat : N = Len(Opening(k))
  BY NamedHeadIs, OpeningTypes
<1>2. PICK h : h = ArgumentHead(k)
  OBVIOUS
<1>3. Len(h) = N + 1
  BY <1>1, <1>2, NamedHeadIs, ArgumentHeadIs
<1>4. Begins(t, h)
  <2>1. Len(t) = N + 1 /\ \A i \in 1 .. Len(t) : t[i] = h[i]
    BY <1>1, <1>2 DEF Matches
  <2> QED BY <1>3, <2>1 DEF Begins
<1>5. PICK x \in Nat, y \in Nat : x = N + 2 /\ y = N + 1
  OBVIOUS
<1>6. Len(t) = y /\ y < x /\ ~ (Len(t) >= x) /\ x = Len(Opening(k)) + 2
  BY <1>1, <1>5
<1>7. Clean(t, x, Len(t))
  <2>1. x .. y = {}
    BY <1>6
  <2> QED BY <1>6, <2>1 DEF Clean
<1>8. Stored(q, "Name") = SubSeq(t, x, Len(t)) /\ Len(Stored(q, "Name")) <= MaxLong + 1
  <2>1. SubSeq(t, x, y) = <<>>
    BY <1>6, SubSeqEmpty
  <2>2. Stored(q, "Name") = <<>>
    BY DEF Stored
  <2>3. Len(<<>>) <= MaxLong + 1
    BY LuluParsersAssumption
  <2> QED BY <1>6, <2>1, <2>2, <2>3
<1>9. ReadsField(q, t, x, "Name")
  BY <1>6, <1>7, <1>8 DEF ReadsField
<1>10. NamedFields(q, t, k, x)
  BY <1>9, Zenon DEF NamedFields
<1> QED BY <1>2, <1>4, <1>6, <1>10 DEF NamedKnows

(* A byte more in the words, or the bar behind them.                       *)
LEMMA NamedWordsFed ==
    ASSUME NEW k \in Named, NEW p \in Parser, NEW s \in Seq(LuluByte), NEW c \in LuluByte,
           NamedWords(p, s, k)
    PROVE  NamedKnows(Feed(k, p, c), Append(s, c), k)
<1>1. PICK t : t = Append(s, c)
  OBVIOUS
<1>2. PICK q : q = Feed(k, p, c)
  OBVIOUS
<1>3. SUFFICES NamedKnows(q, t, k)
  BY <1>1, <1>2
<1>4. PICK h : h = ArgumentHead(k)
  OBVIOUS
<1>5. PICK N \in Nat : N = Len(Opening(k))
  BY NamedHeadIs, OpeningTypes
<1>6. h \in Seq(LuluByte) /\ Len(h) = N + 1 /\ h[N + 1] = Bar
      /\ \A i \in 1 .. N : h[i] = Opening(k)[i]
  BY <1>4, <1>5, NamedHeadIs, ArgumentHeadIs
<1>7. t \in Seq(LuluByte) /\ Len(t) = Len(s) + 1
  BY <1>1, Appended
<1>8. p.name = <<>> /\ p.pass = <<>>
  BY DEF NamedWords
<1>9. q.name = p.name /\ q.pass = p.pass
  <2>1. CASE k = "HELLO"
    <3>1. p.state = "First"
      BY <2>1 DEF NamedWords
    <3> QED BY <1>2, <2>1, <3>1, NamedParser, WordsStoreNothing
  <2>2. CASE k # "HELLO"
    <3>1. p.state = "First" \/ p.state = "Second"
      BY <2>2 DEF NamedWords, InWords
    <3> QED BY <1>2, <2>2, <3>1, NamedParser, WordsStoreNothing
  <2> QED BY <2>1, <2>2
<1>10. ASSUME Matches(s, h), Len(s) = N,
             (c = Bar /\ q.state = "Name") \/ (c # Bar /\ q.state = "Invalid")
      PROVE  NamedKnows(q, t, k)
  <2>1. Len(h) \in Nat /\ Len(s) < Len(h) /\ h[Len(s) + 1] = Bar
    BY <1>6, <1>10
  <2>2. (c = Bar => Matches(t, h)) /\ (c # Bar => Differs(t, h))
    BY <1>1, <1>10, <2>1, MatchGrows DEF MatchResult
  <2>3. CASE c = Bar /\ q.state = "Name"
    <3>1. Len(t) = Len(Opening(k)) + 1 /\ Matches(t, ArgumentHead(k))
      BY <1>4, <1>5, <1>7, <1>10, <2>2, <2>3
    <3> QED BY <1>7, <1>8, <1>9, <2>3, <3>1, FieldsBegin
  <2>4. CASE c # Bar /\ q.state = "Invalid"
    BY <1>4, <2>2, <2>4 DEF NamedKnows
  <2> QED BY <1>10, <2>3, <2>4
<1>11. CASE k = "HELLO"
  <2>1. p.state = "First" /\ InsideWord(p, s, h, 0, "HELLO")
    BY <1>4, <1>11 DEF NamedWords
  <2>2. q = Traverse(p, c, "HELLO", Bar, "Name")
    BY <1>2, <1>11, <2>1, NamedParser
  <2>3. "HELLO" \in Words /\ Opening(k) = Word["HELLO"] /\ N = Len(Word["HELLO"])
    BY <1>5, <1>11, NamedHeadIs
  <2>4. StandsIn(h, 0, "HELLO")
    BY <1>6, <2>3 DEF StandsIn
  <2>5. WordResult(p, c, t, h, 0, "HELLO", Bar, "Name", q)
    <3>1. 0 \in Nat
      OBVIOUS
    <3> QED BY <1>1, <1>6, <2>1, <2>2, <2>3, <2>4, <3>1, WordFed
  <2>6. CASE q.state = p.state /\ InsideWord(q, t, h, 0, "HELLO")
    BY <1>4, <1>8, <1>9, <1>11, <2>1, <2>6 DEF NamedKnows, NamedWords
  <2>7. CASE q.state = "Invalid" /\ Differs(t, h)
    BY <1>4, <2>7 DEF NamedKnows
  <2>8. CASE /\ p.at = Len(Word["HELLO"])
             /\ (c = Bar /\ q.state = "Name") \/ (c # Bar /\ q.state = "Invalid")
    <3>1. Matches(s, h) /\ Len(s) = 0 + p.at /\ p.at \in Nat
      BY <2>1 DEF InsideWord, Parser
    <3>2. Len(s) = N
      BY <2>3, <2>8, <3>1
    <3> QED BY <1>10, <2>8, <3>1, <3>2
  <2> QED BY <2>5, <2>6, <2>7, <2>8 DEF WordResult
<1>12. CASE k # "HELLO"
  <2>1. k \in TwoWorded
    BY <1>12, NamedHeadIs
  <2>2. PICK a \in Words, b \in Words : a = FirstWord(k) /\ b = SecondWord(k)
    BY <2>1, OpeningsOfTwo
  <2>3. TwoOpen(h, a, b) /\ N = Len(Word[a]) + 1 + Len(Word[b])
    BY <1>4, <1>5, <2>1, <2>2, TwoWordsHead
  <2>4. InWords(p, s, h, a, b)
    BY <1>4, <1>12, <2>2 DEF NamedWords
  <2>5. /\ p.state = "First" => q = Traverse(p, c, a, Bar, "Second")
        /\ p.state = "Second" => q = Traverse(p, c, b, Bar, "Name")
    BY <1>2, <1>12, <2>2, NamedParser
  <2>6. WordsResult(p, c, s, t, h, a, b, Bar, "Name", q)
    BY <1>1, <2>3, <2>4, <2>5, WordsFed
  <2>7. CASE InWords(q, t, h, a, b)
    BY <1>4, <1>8, <1>9, <1>12, <2>2, <2>7 DEF NamedKnows, NamedWords
  <2>8. CASE q.state = "Invalid" /\ Differs(t, h)
    BY <1>4, <2>8 DEF NamedKnows
  <2>9. CASE /\ Matches(s, h) /\ Len(s) = Len(Word[a]) + 1 + Len(Word[b])
             /\ (c = Bar /\ q.state = "Name") \/ (c # Bar /\ q.state = "Invalid")
    <3>1. Len(s) = N
      BY <2>3, <2>9, Zenon
    <3> QED BY <1>10, <2>9, <3>1
  <2> QED BY <2>6, <2>7, <2>8, <2>9 DEF WordsResult
<1> QED BY <1>11, <1>12

-------------------------------------------------------------------------------
(* A parser that has ended, or that wrote behind its arrays, knows it still.*)
LEMMA NamedStays ==
    ASSUME NEW k \in Named, NEW p, NEW s \in Seq(LuluByte), NEW c \in LuluByte,
           NamedKnows(p, s, k), p.state \in {"Finished", "Invalid", "Overrun"}
    PROVE  NamedKnows(p, Append(s, c), k)
<1>1. PICK t : t = Append(s, c)
  OBVIOUS
<1>2. PICK h : h = ArgumentHead(k)
  OBVIOUS
<1>3. PICK N \in Nat : N = Len(Opening(k))
  BY NamedHeadIs, OpeningTypes
<1>4. Len(h) \in Nat
  BY <1>2, <1>3, NamedHeadIs, ArgumentHeadIs
<1>5. (Differs(s, h) => Differs(t, h)) /\ (Begins(s, h) => Begins(t, h))
  BY <1>1, <1>4, DifferenceStays
<1>6. PICK m \in Nat : m = Len(s)
  BY LenProperties
<1>7. PICK b \in Nat : b = Len(Opening(k)) + 2 /\ b >= 1
  <2>1. N + 2 \in Nat /\ N + 2 >= 1
    OBVIOUS
  <2> QED BY <1>3, <2>1
<1>8. ASSUME NEW x \in Nat, x >= 1
      PROVE  /\ \A j : EndsBar(s, x, j) => EndsBar(t, x, j)
             /\ \A l : EndsCrlf(s, x, l) => EndsCrlf(t, x, l)
             /\ TooLong(s, x) => TooLong(t, x)
  BY <1>1, <1>8, EndsStay
<1>9. ASSUME NEW i, EndsBar(s, b, i) PROVE i + 1 \in Nat /\ i + 1 >= 1 /\ i \in Nat /\ i <= m
  BY <1>6, <1>9 DEF EndsBar
<1>10. \A x \in 1 .. m + 1, y \in 0 .. m : SubSeq(t, x, y) = SubSeq(s, x, y)
  BY <1>1, <1>6, Appended
<1>11. ~ NamedWords(p, s, k) /\ ~ ReadsField(p, s, b, "Name")
       /\ \A i : ~ ReadsField(p, s, i + 1, "Password")
  <2>1. ~ NamedWords(p, s, k)
    BY DEF NamedWords, InWords
  <2> QED BY <2>1 DEF ReadsField
<1>12. CASE p.state = "Invalid" /\ Differs(s, h)
  BY <1>1, <1>2, <1>5, <1>12 DEF NamedKnows
<1>13. CASE Begins(s, h) /\ p.state = "Finished" /\ NamedDone(p, s, k, b)
  <2>1. CASE k \in TwoNamed
    <3>1. PICK i, l : /\ TwoFields(s, b, i, l)
                      /\ p.name = SubSeq(s, b, i - 1) /\ p.pass = SubSeq(s, i + 1, l - 2)
      BY <1>13, <2>1 DEF NamedDone
    <3>2. EndsBar(s, b, i) /\ i > b /\ EndsCrlf(s, i + 1, l) /\ l > i + 2
      BY <3>1 DEF TwoFields
    <3>3. i \in Nat /\ i <= m /\ i + 1 \in Nat /\ i + 1 >= 1
      BY <1>9, <3>2
    <3>4. EndsBar(t, b, i) /\ EndsCrlf(t, i + 1, l)
      BY <1>7, <1>8, <3>2, <3>3
    <3>5. l \in Nat /\ l <= m
      BY <1>6, <3>2 DEF EndsCrlf
    <3>6. b \in 1 .. m + 1 /\ i - 1 \in 0 .. m /\ i + 1 \in 1 .. m + 1 /\ l - 2 \in 0 .. m
      BY <1>7, <3>2, <3>3, <3>5
    <3>7. p.name = SubSeq(t, b, i - 1) /\ p.pass = SubSeq(t, i + 1, l - 2)
      BY <1>10, <3>1, <3>6
    <3>8. NamedDone(p, t, k, b)
      BY <2>1, <3>2, <3>4, <3>7 DEF NamedDone, TwoFields
    <3> QED BY <1>1, <1>2, <1>5, <1>7, <1>13, <3>8 DEF NamedKnows, NamedFields
  <2>2. CASE k \notin TwoNamed
    <3>1. PICK l : OneField(s, b, l) /\ p.name = SubSeq(s, b, l - 2)
      BY <1>13, <2>2 DEF NamedDone
    <3>2. EndsCrlf(s, b, l) /\ l > b + 1
      BY <3>1 DEF OneField
    <3>3. l \in Nat /\ l <= m
      BY <1>6, <3>2 DEF EndsCrlf
    <3>4. b \in 1 .. m + 1 /\ l - 2 \in 0 .. m
      BY <1>7, <3>2, <3>3
    <3>5. p.name = SubSeq(t, b, l - 2)
      BY <1>10, <3>1, <3>4
    <3>6. EndsCrlf(t, b, l)
      BY <1>7, <1>8, <3>2
    <3>7. NamedDone(p, t, k, b)
      BY <2>2, <3>2, <3>5, <3>6 DEF NamedDone, OneField
    <3> QED BY <1>1, <1>2, <1>5, <1>7, <1>13, <3>7 DEF NamedKnows, NamedFields
  <2> QED BY <2>1, <2>2
<1>14. CASE /\ Begins(s, h) /\ p.state \in {"Invalid", "Overrun"}
            /\ IF k \in TwoNamed THEN NoFields(s, b) ELSE NoField(s, b)
  <2>1. NamedFields(p, t, k, b)
    <3>1. CASE k \in TwoNamed /\ NoFields(s, b)
      <4>1. CASE TooLong(s, b)
        BY <1>7, <1>8, <1>14, <4>1, WrongFields
      <4>2. CASE \E l : EndsCrlf(s, b, l)
        BY <1>7, <1>8, <1>14, <3>1, <4>2, WrongFields
      <4>3. ASSUME NEW i, EndsBar(s, b, i),
                   \/ i = b
                   \/ TooLong(s, i + 1)
                   \/ \E j : EndsBar(s, i + 1, j)
                   \/ EndsCrlf(s, i + 1, i + 2)
            PROVE  NamedFields(p, t, k, b)
        <5>1. EndsBar(t, b, i) /\ i + 1 \in Nat /\ i + 1 >= 1
          BY <1>7, <1>8, <1>9, <4>3
        <5>2. CASE i = b
          BY <1>14, <3>1, <5>1, <5>2, WrongFields
        <5>3. CASE TooLong(s, i + 1)
          BY <1>8, <1>14, <3>1, <5>1, <5>3, WrongFields
        <5>4. CASE \E j : EndsBar(s, i + 1, j)
          BY <1>8, <1>14, <3>1, <5>1, <5>4, WrongFields
        <5>5. CASE EndsCrlf(s, i + 1, i + 2)
          BY <1>8, <1>14, <3>1, <5>1, <5>5, WrongFields
        <5> QED BY <4>3, <5>2, <5>3, <5>4, <5>5
      <4> QED BY <3>1, <4>1, <4>2, <4>3 DEF NoFields
    <3>2. CASE k \notin TwoNamed /\ NoField(s, b)
      <4>1. CASE TooLong(s, b)
        BY <1>7, <1>8, <1>14, <4>1, WrongFields
      <4>2. CASE \E j : EndsBar(s, b, j)
        BY <1>7, <1>8, <1>14, <3>2, <4>2, WrongFields
      <4>3. CASE EndsCrlf(s, b, b + 1)
        BY <1>7, <1>8, <1>14, <3>2, <4>3, WrongFields
      <4> QED BY <3>2, <4>1, <4>2, <4>3 DEF NoField
    <3> QED BY <1>14, <3>1, <3>2
  <2> QED BY <1>1, <1>2, <1>5, <1>7, <1>14, <2>1 DEF NamedKnows
<1>15. Begins(s, h) /\ NamedFields(p, s, k, b) =>
         \/ p.state = "Finished" /\ NamedDone(p, s, k, b)
         \/ /\ p.state \in {"Invalid", "Overrun"}
            /\ IF k \in TwoNamed THEN NoFields(s, b) ELSE NoField(s, b)
  BY <1>11, Zenon DEF NamedFields
<1> QED BY <1>2, <1>7, <1>11, <1>12, <1>13, <1>14, <1>15, Zenon DEF NamedKnows

(* A byte more, and a parser of names still knows.                         *)
LEMMA NamedFed ==
    ASSUME NEW k \in Named, NEW p \in Parser, NEW s \in Seq(LuluByte), NEW c \in LuluByte,
           NamedKnows(p, s, k), p.state \notin {"Finished", "Invalid", "Overrun"}
    PROVE  NamedKnows(Feed(k, p, c), Append(s, c), k)
<1>1. PICK t : t = Append(s, c)
  OBVIOUS
<1>2. PICK q : q = Feed(k, p, c)
  OBVIOUS
<1>3. PICK h : h = ArgumentHead(k)
  OBVIOUS
<1>4. PICK N \in Nat : N = Len(Opening(k))
  BY NamedHeadIs, OpeningTypes
<1>5. Len(h) = N + 1 /\ Len(h) \in Nat
  BY <1>3, <1>4, NamedHeadIs, ArgumentHeadIs
<1>6. PICK b \in Nat : b = N + 2 /\ b >= 1
  OBVIOUS
<1>7. CASE NamedWords(p, s, k)
  BY <1>7, NamedWordsFed
<1>8. CASE Begins(s, h) /\ NamedFields(p, s, k, b)
  <2>1. Begins(t, h)
    BY <1>1, <1>5, <1>8, DifferenceStays
  <2>2. b <= Len(s) + 1
    <3>1. PICK m \in Nat : m = Len(s)
      BY LenProperties
    <3>2. N + 1 <= m
      BY <1>5, <1>8, <3>1 DEF Begins
    <3> QED BY <1>6, <3>1, <3>2
  <2>3. ASSUME ReadsField(p, s, b, "Name"), p.pass = <<>> PROVE NamedFields(q, t, k, b)
    <3>1. CASE k \in TwoNamed
      BY <1>1, <1>2, <1>6, <2>2, <2>3, <3>1, NameFed
    <3>2. CASE k \notin TwoNamed
      <4>1. k \in Named \ TwoNamed
        BY <3>2
      <4> QED BY <1>1, <1>2, <1>6, <2>2, <2>3, <4>1, OneFieldFed
    <3> QED BY <3>1, <3>2
  <2>4. ASSUME k \in TwoNamed,
               \E i : /\ EndsBar(s, b, i) /\ i > b /\ p.name = SubSeq(s, b, i - 1)
                      /\ ReadsField(p, s, i + 1, "Password")
        PROVE  NamedFields(q, t, k, b)
    <3>1. PICK i : /\ EndsBar(s, b, i) /\ i > b /\ p.name = SubSeq(s, b, i - 1)
                   /\ ReadsField(p, s, i + 1, "Password")
      BY <2>4
    <3>2. i \in Nat
      BY <3>1 DEF EndsBar
    <3> QED BY <1>1, <1>2, <1>6, <2>4, <3>1, <3>2, PasswordFed
  <2>5. NamedFields(q, t, k, b)
    BY <1>8, <2>3, <2>4 DEF NamedFields
  <2> QED BY <1>1, <1>2, <1>3, <1>4, <1>6, <2>1, <2>5 DEF NamedKnows
<1> QED BY <1>3, <1>4, <1>6, <1>7, <1>8 DEF NamedKnows

-------------------------------------------------------------------------------
(* A part of a stream that has its bytes d further on.                     *)
LEMMA PartMoves ==
    ASSUME NEW S, NEW r \in Seq(S), NEW s \in Seq(S), NEW n \in Nat, n = Len(r), NEW d \in Nat,
           NEW m \in Nat, m = Len(s), d + n <= m, \A i \in 1 .. n : r[i] = s[d + i],
           NEW a \in Nat, a >= 1, NEW e \in Nat, e >= a - 1, e <= n
    PROVE  SubSeq(r, a, e) = SubSeq(s, d + a, d + e)
<1>1. PICK u : u = SubSeq(r, a, e)
  OBVIOUS
<1>2. PICK x \in Nat, y \in Nat : x = d + a /\ y = d + e
  OBVIOUS
<1>3. PICK v : v = SubSeq(s, x, y)
  OBVIOUS
<1>4. u \in Seq(S) /\ Len(u) = e - a + 1 /\ \A i \in 1 .. e - a + 1 : u[i] = r[a + i - 1]
  BY <1>1, Parts DEF PartOf
<1>5. v \in Seq(S) /\ Len(v) = y - x + 1 /\ \A i \in 1 .. y - x + 1 : v[i] = s[x + i - 1]
  <2>1. x >= 1 /\ y >= x - 1 /\ y <= m
    BY <1>2
  <2> QED BY <1>3, <2>1, Parts DEF PartOf
<1>6. y - x + 1 = e - a + 1
  BY <1>2
<1>7. \A i \in 1 .. e - a + 1 : u[i] = v[i]
  <2> SUFFICES ASSUME NEW i \in 1 .. e - a + 1 PROVE u[i] = v[i]
    OBVIOUS
  <2>1. PICK j \in Nat : j = a + i - 1
    OBVIOUS
  <2>2. j \in 1 .. n /\ d + j = x + i - 1
    BY <1>2, <2>1
  <2> QED BY <1>4, <1>5, <1>6, <2>1, <2>2
<1>8. u = v
  BY <1>4, <1>5, <1>6, <1>7, SeqEqual
<1> QED BY <1>1, <1>2, <1>3, <1>8

(* A text is clean, and not empty.                                         *)
LEMMA TextIs ==
    ASSUME NEW r \in Seq(LuluByte), NEW n \in Nat, n = Len(r)
    PROVE  Text(r) <=> n >= 1 /\ Clean(r, 1, n)
<1>1. r # <<>> <=> n >= 1
  <2>1. r = <<>> <=> n = 0
    BY EmptySeq
  <2> QED BY <2>1
<1>2. Bars(r) = {} <=> \A j \in 1 .. n : r[j] # Bar
  BY DEF Bars
<1>3. ASSUME NEW i \in 1 .. n
      PROVE  EndsLine(SubSeq(r, 1, i)) <=> i >= 2 /\ r[i - 1] = CR /\ r[i] = LF
  <2>1. PICK a \in Nat : a = 1
    OBVIOUS
  <2>2. PICK v : v = SubSeq(r, a, i)
    OBVIOUS
  <2>3. a >= 1 /\ i \in Nat /\ i >= a - 1 /\ i <= n
    BY <2>1
  <2>4. v \in Seq(LuluByte) /\ Len(v) = i - a + 1 /\ \A j \in 1 .. i - a + 1 : v[j] = r[a + j - 1]
    BY <2>2, <2>3, Parts DEF PartOf
  <2>5. i - a + 1 = i /\ \A j \in 1 .. i : a + j - 1 = j
    BY <2>1
  <2>6. Len(v) = i /\ \A j \in 1 .. i : v[j] = r[j]
    BY <2>4, <2>5
  <2>7. EndsLine(v) <=> i >= 2 /\ v[i - 1] = CR /\ v[i] = LF
    BY <2>3, <2>4, <2>6, EndIs
  <2>8. i >= 2 => i - 1 \in 1 .. i /\ i \in 1 .. i
    OBVIOUS
  <2> QED BY <2>1, <2>2, <2>6, <2>7, <2>8
<1>4. (\A i \in 1 .. n : ~ EndsLine(SubSeq(r, 1, i)))
      <=> \A j \in 1 .. n : j > 1 /\ r[j] = LF => r[j - 1] # CR
  <2>1. \A j \in 1 .. n : j >= 2 <=> j > 1
    OBVIOUS
  <2> QED BY <1>3, <2>1
<1> QED BY <1>1, <1>2, <1>4 DEF Text, Clean

(* So is one in the middle of a stream.                                    *)
LEMMA TextAt ==
    ASSUME NEW s \in Seq(LuluByte), NEW m \in Nat, m = Len(s), NEW x \in Nat, x >= 1,
           NEW y \in Nat, y >= x - 1, y <= m
    PROVE  Text(SubSeq(s, x, y)) <=> y >= x /\ Clean(s, x, y)
<1>1. PICK u : u = SubSeq(s, x, y)
  OBVIOUS
<1>2. PICK n \in Nat : n = y - x + 1
  OBVIOUS
<1>3. u \in Seq(LuluByte) /\ Len(u) = n /\ \A i \in 1 .. n : u[i] = s[x + i - 1]
  BY <1>1, <1>2, Parts DEF PartOf
<1>4. Text(u) <=> n >= 1 /\ Clean(u, 1, n)
  BY <1>3, TextIs
<1>5. ASSUME Clean(s, x, y) PROVE Clean(u, 1, n)
  <2> SUFFICES ASSUME NEW i \in 1 .. n
               PROVE  u[i] # Bar /\ (i > 1 /\ u[i] = LF => u[i - 1] # CR)
    BY DEF Clean
  <2>1. PICK j \in Nat : j = x + i - 1
    OBVIOUS
  <2>2. j \in x .. y /\ (i > 1 => j > x /\ i - 1 \in 1 .. n /\ x + (i - 1) - 1 = j - 1)
    BY <1>2, <2>1
  <2>3. u[i] = s[j] /\ (i > 1 => u[i - 1] = s[j - 1])
    BY <1>3, <2>1, <2>2
  <2> QED BY <1>5, <2>2, <2>3 DEF Clean
<1>6. ASSUME Clean(u, 1, n) PROVE Clean(s, x, y)
  <2> SUFFICES ASSUME NEW j \in x .. y
               PROVE  s[j] # Bar /\ (j > x /\ s[j] = LF => s[j - 1] # CR)
    BY DEF Clean
  <2>1. PICK i \in Nat : i = j - x + 1
    OBVIOUS
  <2>2. i \in 1 .. n /\ x + i - 1 = j
        /\ (j > x => i > 1 /\ i - 1 \in 1 .. n /\ x + (i - 1) - 1 = j - 1)
    BY <1>2, <2>1
  <2>3. u[i] = s[j] /\ (j > x => u[i - 1] = s[j - 1])
    BY <1>3, <2>1, <2>2
  <2> QED BY <1>6, <2>2, <2>3 DEF Clean
<1>7. n >= 1 <=> y >= x
  BY <1>2
<1> QED BY <1>1, <1>4, <1>5, <1>6, <1>7

-------------------------------------------------------------------------------
(* The arguments of a line, apart from the questions whether it is one.    *)
ArgumentSet(rest, one, splits) ==
    {a \in one \cup {<<SubSeq(rest, 2, i - 1), SubSeq(rest, i + 1, Len(rest))>> : i \in splits} :
        \A j \in 1 .. Len(a) : Text(a[j])}

NoArguments(k, r) ==
    ~ EndsLine(r) \/ ~ Opens(k, r) \/ Rest(k, r) = <<>> \/ Rest(k, r)[1] # Bar

(* Apart from them, the arguments are one set or another.                  *)
LEMMA ArgumentsAre ==
    ASSUME NEW k \in Named, NEW r
    PROVE  /\ NoArguments(k, r) => Arguments(k, r) = {}
           /\ ~ NoArguments(k, r) /\ k \in TwoNamed =>
                Arguments(k, r) = ArgumentSet(Rest(k, r), {}, Bars(Rest(k, r)) \ {1})
           /\ ~ NoArguments(k, r) /\ k \notin TwoNamed =>
                Arguments(k, r) =
                    ArgumentSet(Rest(k, r), {<<SubSeq(Rest(k, r), 2, Len(Rest(k, r)))>>}, {})
<1>1. Arguments(k, r) =
         IF NoArguments(k, r) THEN {}
         ELSE ArgumentSet(Rest(k, r),
                  IF k = "DEL USER" THEN {<<SubSeq(Rest(k, r), 2, Len(Rest(k, r)))>>} ELSE {},
                  IF k = "DEL USER" THEN {} ELSE Bars(Rest(k, r)) \ {1})
  BY Zenon DEF Arguments, ArgumentSet, NoArguments
<1>2. k \in TwoNamed <=> k # "DEL USER"
  BY Zenon DEF Named, TwoNamed
<1>3. ASSUME k # "DEL USER"
      PROVE  Arguments(k, r) = IF NoArguments(k, r) THEN {}
                               ELSE ArgumentSet(Rest(k, r), {}, Bars(Rest(k, r)) \ {1})
  BY <1>1, <1>3, Zenon
<1>4. ASSUME k = "DEL USER"
      PROVE  Arguments(k, r) = IF NoArguments(k, r) THEN {}
               ELSE ArgumentSet(Rest(k, r), {<<SubSeq(Rest(k, r), 2, Len(Rest(k, r)))>>}, {})
  BY <1>1, <1>4, Zenon
<1> QED BY <1>2, <1>3, <1>4, Zenon

(* One argument, or two.                                                   *)
LEMMA ArgumentSets ==
    ASSUME NEW rest, NEW splits, NEW x, NEW a
    PROVE  /\ a \in ArgumentSet(rest, {<<x>>}, {}) <=> a = <<x>> /\ Text(x)
           /\ a \in ArgumentSet(rest, {}, splits) <=>
                \E i \in splits : /\ a = <<SubSeq(rest, 2, i - 1), SubSeq(rest, i + 1, Len(rest))>>
                                  /\ Text(SubSeq(rest, 2, i - 1))
                                  /\ Text(SubSeq(rest, i + 1, Len(rest)))
<1>1. ASSUME a = <<x>> PROVE (\A j \in 1 .. Len(a) : Text(a[j])) <=> Text(x)
  <2>1. 1 .. Len(a) = {1} /\ a[1] = x
    BY <1>1
  <2> QED BY <2>1
<1>2. ASSUME NEW u, NEW v, a = <<u, v>>
      PROVE  (\A j \in 1 .. Len(a) : Text(a[j])) <=> Text(u) /\ Text(v)
  <2>1. 1 .. Len(a) = {1, 2} /\ a[1] = u /\ a[2] = v
    BY <1>2
  <2> QED BY <2>1
<1>3. a \in ArgumentSet(rest, {<<x>>}, {}) <=> a = <<x>> /\ \A j \in 1 .. Len(a) : Text(a[j])
  BY Zenon DEF ArgumentSet
<1>4. a \in ArgumentSet(rest, {}, splits) <=>
         /\ \E i \in splits : a = <<SubSeq(rest, 2, i - 1), SubSeq(rest, i + 1, Len(rest))>>
         /\ \A j \in 1 .. Len(a) : Text(a[j])
  BY Zenon DEF ArgumentSet
<1>5. ASSUME NEW i \in splits, a = <<SubSeq(rest, 2, i - 1), SubSeq(rest, i + 1, Len(rest))>>
      PROVE  (\A j \in 1 .. Len(a) : Text(a[j])) <=>
                Text(SubSeq(rest, 2, i - 1)) /\ Text(SubSeq(rest, i + 1, Len(rest)))
  BY <1>2, <1>5
<1> QED BY <1>1, <1>3, <1>4, <1>5, Zenon

-------------------------------------------------------------------------------
(* What the grammar asks of a line before its fields, by positions.        *)
NamedLine(k, s, l) ==
    /\ Begins(s, ArgumentHead(k))
    /\ l >= Len(Opening(k)) + 3 /\ l <= Len(s) /\ s[l - 1] = CR /\ s[l] = LF

(* It is the line behind its opening, and has the bar there.               *)
LEMMA NamedLineIs ==
    ASSUME NEW k \in Named, NEW s \in Seq(LuluByte), NEW l \in Nat, l <= Len(s)
    PROVE  /\ ~ NoArguments(k, SubSeq(s, 1, l)) <=> NamedLine(k, s, l)
           /\ NamedLine(k, s, l) => RestIs(k, s, l)
<1>1. k \in Command
  BY NamedHeadIs
<1>2. PICK N \in Nat : N = Len(Opening(k))
  BY <1>1, OpeningTypes
<1>3. PICK m \in Nat : m = Len(s)
  BY LenProperties
<1>4. PICK r : r = SubSeq(s, 1, l)
  OBVIOUS
<1>5. PICK u : u = Rest(k, r)
  OBVIOUS
<1>6. /\ EndsLine(r) /\ Opens(k, r) <=> LineAt(k, s, l)
      /\ LineAt(k, s, l) => RestIs(k, s, l)
  BY <1>1, <1>4, PrefixIsLine
<1>7. PICK h : h = ArgumentHead(k)
  OBVIOUS
<1>8. Len(h) = N + 1 /\ (\A i \in 1 .. N : h[i] = Opening(k)[i]) /\ h[N + 1] = Bar
  BY <1>1, <1>2, <1>7, ArgumentHeadIs
<1>9. Begins(s, h) <=> N + 1 <= m /\ (\A i \in 1 .. N : s[i] = Opening(k)[i]) /\ s[N + 1] = Bar
  <2>1. \A i : i \in 1 .. N + 1 <=> i \in 1 .. N \/ i = N + 1
    OBVIOUS
  <2>2. Begins(s, h) <=> N + 1 <= m /\ \A i \in 1 .. N + 1 : s[i] = h[i]
    BY <1>3, <1>8 DEF Begins
  <2> QED BY <1>8, <2>1, <2>2
<1>10. LineAt(k, s, l) <=> /\ l >= N + 2 /\ (\A i \in 1 .. N : s[i] = Opening(k)[i])
                           /\ s[l - 1] = CR /\ s[l] = LF
  BY <1>2, <1>3 DEF LineAt
<1>11. NamedLine(k, s, l) <=> LineAt(k, s, l) /\ l >= N + 3 /\ s[N + 1] = Bar
  <2>1. l >= N + 3 => l >= N + 2 /\ N + 1 <= m
    BY <1>3
  <2>2. NamedLine(k, s, l) <=> Begins(s, h) /\ l >= N + 3 /\ s[l - 1] = CR /\ s[l] = LF
    BY <1>2, <1>7 DEF NamedLine
  <2> QED BY <1>9, <1>10, <2>1, <2>2
<1>12. ASSUME LineAt(k, s, l) PROVE (u # <<>> /\ u[1] = Bar) <=> l >= N + 3 /\ s[N + 1] = Bar
  <2>1. PICK n \in Nat : n = l - 2 - N
    BY <1>10, <1>12
  <2>2. u \in Seq(LuluByte) /\ Len(u) = n /\ \A i \in 1 .. n : u[i] = s[N + i]
    BY <1>2, <1>4, <1>5, <1>6, <1>12, <2>1 DEF RestIs
  <2>3. u # <<>> <=> n >= 1
    <3>1. u = <<>> <=> n = 0
      BY <2>2, EmptySeq
    <3> QED BY <2>1, <3>1
  <2>4. n >= 1 => u[1] = s[N + 1]
    BY <2>2
  <2>5. n >= 1 <=> l >= N + 3
    BY <2>1
  <2> QED BY <2>3, <2>4, <2>5
<1>13. ~ NoArguments(k, r) <=> EndsLine(r) /\ Opens(k, r) /\ u # <<>> /\ u[1] = Bar
  BY <1>5, Zenon DEF NoArguments
<1> QED BY <1>4, <1>6, <1>11, <1>12, <1>13

(* The arguments of such a line with two fields.                           *)
LEMMA TwoFieldsGrammar ==
    ASSUME NEW k \in TwoNamed, NEW s \in Seq(LuluByte), NEW l \in Nat, l <= Len(s),
           NamedLine(k, s, l), NEW b \in Nat, b = Len(Opening(k)) + 2, NEW a
    PROVE  a \in Arguments(k, SubSeq(s, 1, l)) <=>
              \E j : TwoFields(s, b, j, l)
                     /\ a = <<SubSeq(s, b, j - 1), SubSeq(s, j + 1, l - 2)>>
<1>1. k \in Named /\ k \in Command
  <2>1. k \in Named
    BY Zenon DEF TwoNamed, Named
  <2> QED BY <2>1, NamedHeadIs
<1>2. PICK N \in Nat : N = Len(Opening(k))
  BY <1>1, OpeningTypes
<1>3. PICK m \in Nat : m = Len(s)
  BY LenProperties
<1>4. PICK u : u = Rest(k, SubSeq(s, 1, l))
  OBVIOUS
<1>5. l >= N + 3 /\ l <= m /\ s[l - 1] = CR /\ s[l] = LF /\ b = N + 2
  BY <1>2, <1>3 DEF NamedLine
<1>6. PICK n \in Nat : n = l - 2 - N
  BY <1>5
<1>7. u \in Seq(LuluByte) /\ Len(u) = n /\ \A i \in 1 .. n : u[i] = s[N + i]
  BY <1>1, <1>2, <1>4, <1>6, NamedLineIs DEF RestIs
<1>8. a \in Arguments(k, SubSeq(s, 1, l)) <=>
         \E i \in Bars(u) \ {1} : /\ a = <<SubSeq(u, 2, i - 1), SubSeq(u, i + 1, Len(u))>>
                                  /\ Text(SubSeq(u, 2, i - 1)) /\ Text(SubSeq(u, i + 1, Len(u)))
  <2>1. Arguments(k, SubSeq(s, 1, l)) = ArgumentSet(u, {}, Bars(u) \ {1})
    BY <1>1, <1>4, NamedLineIs, ArgumentsAre
  <2>2. a \in ArgumentSet(u, {}, Bars(u) \ {1}) <=>
         \E i \in Bars(u) \ {1} : /\ a = <<SubSeq(u, 2, i - 1), SubSeq(u, i + 1, Len(u))>>
                                  /\ Text(SubSeq(u, 2, i - 1)) /\ Text(SubSeq(u, i + 1, Len(u)))
    BY ArgumentSets, Zenon
  <2> QED BY <2>1, <2>2, Zenon
<1>9. ASSUME NEW i \in 2 .. n, NEW j \in Nat, j = N + i
      PROVE  /\ SubSeq(u, 2, i - 1) = SubSeq(s, b, j - 1)
             /\ SubSeq(u, i + 1, Len(u)) = SubSeq(s, j + 1, l - 2)
             /\ i \in Bars(u) \ {1} <=> s[j] = Bar
             /\ Text(SubSeq(s, b, j - 1)) <=> j > b /\ Clean(s, b, j - 1)
             /\ Text(SubSeq(s, j + 1, l - 2)) <=> l > j + 2 /\ Clean(s, j + 1, l - 2)
  <2>1. N + n <= m
    BY <1>5, <1>6
  <2>2. PICK x \in Nat, y \in Nat : x = 2 /\ y = i - 1
    OBVIOUS
  <2>3. x >= 1 /\ y >= x - 1 /\ y <= n /\ N + x = b /\ N + y = j - 1
    BY <1>5, <1>9, <2>2
  <2>4. SubSeq(u, x, y) = SubSeq(s, N + x, N + y)
    BY <1>3, <1>7, <2>1, <2>3, PartMoves
  <2>5. PICK z \in Nat : z = i + 1
    OBVIOUS
  <2>6. z >= 1 /\ n >= z - 1 /\ n <= n /\ N + z = j + 1 /\ N + n = l - 2
    BY <1>6, <1>9, <2>5
  <2>7. SubSeq(u, z, n) = SubSeq(s, N + z, N + n)
    BY <1>3, <1>7, <2>1, <2>6, PartMoves
  <2>8. i \in Bars(u) \ {1} <=> s[j] = Bar
    <3>1. i \in 1 .. n /\ i # 1
      OBVIOUS
    <3>2. u[i] = s[j]
      BY <1>7, <1>9, <3>1
    <3> QED BY <1>7, <3>1, <3>2 DEF Bars
  <2>9. Text(SubSeq(s, b, j - 1)) <=> j > b /\ Clean(s, b, j - 1)
    <3>1. PICK e \in Nat : e = j - 1
      BY <1>9
    <3>2. b >= 1 /\ e >= b - 1 /\ e <= m /\ (e >= b <=> j > b)
      BY <1>5, <1>6, <1>9, <3>1
    <3>3. Text(SubSeq(s, b, e)) <=> e >= b /\ Clean(s, b, e)
      BY <1>3, <3>2, TextAt
    <3> QED BY <3>1, <3>2, <3>3
  <2>10. Text(SubSeq(s, j + 1, l - 2)) <=> l > j + 2 /\ Clean(s, j + 1, l - 2)
    <3>1. PICK e \in Nat, d \in Nat : e = l - 2 /\ d = j + 1
      BY <1>5
    <3>2. d >= 1 /\ e >= d - 1 /\ e <= m /\ (e >= d <=> l > j + 2)
      BY <1>5, <1>6, <1>9, <3>1
    <3>3. Text(SubSeq(s, d, e)) <=> e >= d /\ Clean(s, d, e)
      BY <1>3, <3>2, TextAt
    <3> QED BY <3>1, <3>2, <3>3
  <2> QED BY <1>7, <2>2, <2>3, <2>4, <2>5, <2>6, <2>7, <2>8, <2>9, <2>10
<1>10. ASSUME NEW j \in Nat
       PROVE  TwoFields(s, b, j, l) <=> /\ j > b /\ s[j] = Bar /\ Clean(s, b, j - 1)
                                        /\ l > j + 2 /\ Clean(s, j + 1, l - 2)
  BY <1>3, <1>5 DEF TwoFields, EndsBar, EndsCrlf
<1>11. ASSUME NEW i \in Bars(u) \ {1}, a = <<SubSeq(u, 2, i - 1), SubSeq(u, i + 1, Len(u))>>,
              Text(SubSeq(u, 2, i - 1)), Text(SubSeq(u, i + 1, Len(u)))
       PROVE  \E j : TwoFields(s, b, j, l)
                     /\ a = <<SubSeq(s, b, j - 1), SubSeq(s, j + 1, l - 2)>>
  <2>1. i \in 2 .. n
    <3>1. i \in 1 .. n /\ i # 1
      BY <1>7 DEF Bars
    <3> QED BY <3>1
  <2>2. PICK j \in Nat : j = N + i
    BY <2>1
  <2>3. TwoFields(s, b, j, l)
    BY <1>9, <1>10, <1>11, <2>1, <2>2
  <2> QED BY <1>9, <1>11, <2>1, <2>2, <2>3
<1>12. ASSUME NEW j, TwoFields(s, b, j, l),
              a = <<SubSeq(s, b, j - 1), SubSeq(s, j + 1, l - 2)>>
       PROVE  \E i \in Bars(u) \ {1} :
                 /\ a = <<SubSeq(u, 2, i - 1), SubSeq(u, i + 1, Len(u))>>
                 /\ Text(SubSeq(u, 2, i - 1)) /\ Text(SubSeq(u, i + 1, Len(u)))
  <2>1. j \in Nat
    BY <1>12 DEF TwoFields, EndsBar
  <2>2. j > b /\ s[j] = Bar /\ Clean(s, b, j - 1) /\ l > j + 2 /\ Clean(s, j + 1, l - 2)
    BY <1>10, <1>12, <2>1
  <2>3. PICK i \in Int : i = j - N
    BY <2>1
  <2>4. i \in 2 .. n /\ j = N + i
    BY <1>5, <1>6, <2>1, <2>2, <2>3
  <2> QED BY <1>9, <1>12, <2>1, <2>2, <2>4
<1> QED BY <1>8, <1>11, <1>12

(* The same of one field.                                                  *)
LEMMA OneFieldGrammar ==
    ASSUME NEW k \in Named \ TwoNamed, NEW s \in Seq(LuluByte), NEW l \in Nat, l <= Len(s),
           NamedLine(k, s, l), NEW b \in Nat, b = Len(Opening(k)) + 2, NEW a
    PROVE  a \in Arguments(k, SubSeq(s, 1, l)) <=>
              OneField(s, b, l) /\ a = <<SubSeq(s, b, l - 2)>>
<1>1. k \in Named /\ k \in Command
  BY NamedHeadIs
<1>2. PICK N \in Nat : N = Len(Opening(k))
  BY <1>1, OpeningTypes
<1>3. PICK m \in Nat : m = Len(s)
  BY LenProperties
<1>4. PICK u : u = Rest(k, SubSeq(s, 1, l))
  OBVIOUS
<1>5. l >= N + 3 /\ l <= m /\ s[l - 1] = CR /\ s[l] = LF /\ b = N + 2
  BY <1>2, <1>3 DEF NamedLine
<1>6. PICK n \in Nat : n = l - 2 - N
  BY <1>5
<1>7. u \in Seq(LuluByte) /\ Len(u) = n /\ \A i \in 1 .. n : u[i] = s[N + i]
  BY <1>1, <1>2, <1>4, <1>6, NamedLineIs DEF RestIs
<1>8. PICK v : v = SubSeq(u, 2, Len(u))
  OBVIOUS
<1>9. a \in Arguments(k, SubSeq(s, 1, l)) <=> a = <<v>> /\ Text(v)
  <2>1. Arguments(k, SubSeq(s, 1, l)) = ArgumentSet(u, {<<v>>}, {})
    BY <1>1, <1>4, <1>8, NamedLineIs, ArgumentsAre
  <2>2. a \in ArgumentSet(u, {<<v>>}, {}) <=> a = <<v>> /\ Text(v)
    BY ArgumentSets, Zenon
  <2> QED BY <2>1, <2>2, Zenon
<1>10. PICK e \in Nat : e = l - 2
  BY <1>5
<1>11. v = SubSeq(s, b, e)
  <2>1. PICK x \in Nat : x = 2
    OBVIOUS
  <2>2. x >= 1 /\ n >= x - 1 /\ n <= n /\ N + n <= m /\ N + x = b /\ N + n = e
    BY <1>5, <1>6, <1>10, <2>1
  <2>3. SubSeq(u, x, n) = SubSeq(s, N + x, N + n)
    BY <1>3, <1>7, <2>2, PartMoves
  <2> QED BY <1>7, <1>8, <2>1, <2>2, <2>3
<1>12. Text(SubSeq(s, b, e)) <=> e >= b /\ Clean(s, b, e)
  <2>1. b >= 1 /\ e >= b - 1 /\ e <= m
    BY <1>5, <1>10
  <2> QED BY <1>3, <2>1, TextAt
<1>13. OneField(s, b, l) <=> e >= b /\ Clean(s, b, e)
  BY <1>3, <1>5, <1>10 DEF OneField, EndsCrlf
<1> QED BY <1>9, <1>10, <1>11, <1>12, <1>13

-------------------------------------------------------------------------------
(* The arguments that the lines of the stream may have, if short.          *)
Short(a) == \A j \in 1 .. Len(a) : Len(a[j]) < MaxLong

SentArguments(k, s) ==
    {a \in UNION {Arguments(k, SubSeq(s, 1, l)) : l \in 0 .. Len(s)} : Short(a)}

(* Where the line is that has them: with two fields, and with one.         *)
TwoSent(k, s, i, l, a) ==
    LET b == Len(Opening(k)) + 2
    IN /\ Begins(s, ArgumentHead(k)) /\ TwoFields(s, b, i, l)
       /\ i - b < MaxLong /\ l - 2 - i < MaxLong
       /\ a = <<SubSeq(s, b, i - 1), SubSeq(s, i + 1, l - 2)>>

OneSent(k, s, l, a) ==
    LET b == Len(Opening(k)) + 2
    IN /\ Begins(s, ArgumentHead(k)) /\ OneField(s, b, l)
       /\ l - 1 - b < MaxLong
       /\ a = <<SubSeq(s, b, l - 2)>>

(* A short list of one text, or of two.                                    *)
LEMMA ShortIs ==
    ASSUME NEW x, NEW y
    PROVE  /\ Short(<<x>>) <=> Len(x) < MaxLong
           /\ Short(<<x, y>>) <=> Len(x) < MaxLong /\ Len(y) < MaxLong
<1>1. 1 .. Len(<<x>>) = {1} /\ <<x>>[1] = x
  OBVIOUS
<1>2. 1 .. Len(<<x, y>>) = {1, 2} /\ <<x, y>>[1] = x /\ <<x, y>>[2] = y
  OBVIOUS
<1>3. Short(<<x>>) <=> Len(x) < MaxLong
  BY <1>1 DEF Short
<1>4. Short(<<x, y>>) <=> Len(x) < MaxLong /\ Len(y) < MaxLong
  BY <1>2 DEF Short
<1> QED BY <1>3, <1>4

(* Arguments are those of some line that ends inside the stream.           *)
LEMMA SentAt ==
    ASSUME NEW k \in Named, NEW s \in Seq(LuluByte), NEW a
    PROVE  a \in SentArguments(k, s) <=>
              Short(a) /\ \E l \in 0 .. Len(s) : /\ NamedLine(k, s, l)
                                                 /\ a \in Arguments(k, SubSeq(s, 1, l))
<1>1. a \in SentArguments(k, s) <=>
         Short(a) /\ \E l \in 0 .. Len(s) : a \in Arguments(k, SubSeq(s, 1, l))
  BY Zenon DEF SentArguments
<1>2. ASSUME NEW l \in 0 .. Len(s), a \in Arguments(k, SubSeq(s, 1, l))
      PROVE  NamedLine(k, s, l)
  <2>1. l \in Nat /\ l <= Len(s)
    BY LenProperties
  <2>2. ~ NoArguments(k, SubSeq(s, 1, l))
    BY <1>2, ArgumentsAre, Zenon
  <2> QED BY <2>1, <2>2, NamedLineIs
<1> QED BY <1>1, <1>2, Zenon

(* With two fields: where a line is with two of them that are short.       *)
LEMMA TwoSentAt ==
    ASSUME NEW k \in TwoNamed, NEW s \in Seq(LuluByte), NEW a
    PROVE  a \in SentArguments(k, s) <=> \E i, l : TwoSent(k, s, i, l, a)
<1>1. k \in Named /\ k \in Command
  <2>1. k \in Named
    BY Zenon DEF TwoNamed, Named
  <2> QED BY <2>1, NamedHeadIs
<1>2. PICK m \in Nat : m = Len(s)
  BY LenProperties
<1>3. PICK b \in Nat : b = Len(Opening(k)) + 2 /\ b >= 1
  BY <1>1, OpeningTypes
<1>4. Len(Opening(k)) \in Nat
  BY <1>1, OpeningTypes
<1>5. PICK M \in Nat : M = MaxLong
  BY LuluParsersAssumption
<1>6. ASSUME NEW i, NEW l, TwoFields(s, b, i, l),
             a = <<SubSeq(s, b, i - 1), SubSeq(s, i + 1, l - 2)>>
      PROVE  /\ l \in 0 .. m
             /\ Short(a) <=> i - b < MaxLong /\ l - 2 - i < MaxLong
  <2>1. i \in Nat /\ l \in Nat /\ i > b /\ l > i + 2 /\ l <= m
    BY <1>2, <1>6 DEF TwoFields, EndsBar, EndsCrlf
  <2>2. Len(SubSeq(s, b, i - 1)) = i - b
    <3>1. PICK y \in Int : y = i - 1
      BY <2>1
    <3>2. y >= b - 1 /\ y <= Len(s) /\ y - b + 1 = i - b
      BY <1>2, <2>1, <3>1
    <3> QED BY <1>3, <3>1, <3>2, FieldLength
  <2>3. Len(SubSeq(s, i + 1, l - 2)) = l - 2 - i
    <3>1. PICK x \in Nat, y \in Int : x = i + 1 /\ y = l - 2
      BY <2>1
    <3>2. x >= 1 /\ y >= x - 1 /\ y <= Len(s) /\ y - x + 1 = l - 2 - i
      BY <1>2, <2>1, <3>1
    <3> QED BY <3>1, <3>2, FieldLength
  <2>4. Short(a) <=> Len(SubSeq(s, b, i - 1)) < MaxLong /\ Len(SubSeq(s, i + 1, l - 2)) < MaxLong
    BY <1>6, ShortIs
  <2> QED BY <2>1, <2>2, <2>3, <2>4
<1>7. ASSUME NEW l \in 0 .. m, NamedLine(k, s, l)
      PROVE  a \in Arguments(k, SubSeq(s, 1, l)) <=>
                \E i : TwoFields(s, b, i, l) /\ a = <<SubSeq(s, b, i - 1), SubSeq(s, i + 1, l - 2)>>
  <2>1. l \in Nat /\ l <= Len(s)
    BY <1>2
  <2> QED BY <1>3, <1>7, <2>1, TwoFieldsGrammar
<1>8. ASSUME NEW i, NEW l, TwoFields(s, b, i, l), Begins(s, ArgumentHead(k))
      PROVE  NamedLine(k, s, l)
  <2>1. i \in Nat /\ l \in Nat /\ i > b /\ l > i + 2 /\ l <= m /\ s[l - 1] = CR /\ s[l] = LF
    BY <1>2, <1>8 DEF TwoFields, EndsBar, EndsCrlf
  <2>2. l >= Len(Opening(k)) + 3
    BY <1>3, <1>4, <2>1
  <2> QED BY <1>2, <1>8, <2>1, <2>2 DEF NamedLine
<1>9. ASSUME a \in SentArguments(k, s) PROVE \E i, l : TwoSent(k, s, i, l, a)
  <2>1. PICK l \in 0 .. m : NamedLine(k, s, l) /\ a \in Arguments(k, SubSeq(s, 1, l))
    BY <1>1, <1>2, <1>9, SentAt
  <2>2. PICK i : TwoFields(s, b, i, l) /\ a = <<SubSeq(s, b, i - 1), SubSeq(s, i + 1, l - 2)>>
    BY <1>7, <2>1
  <2>3. Short(a)
    BY <1>1, <1>9, SentAt
  <2>4. TwoSent(k, s, i, l, a)
    BY <1>3, <1>6, <2>1, <2>2, <2>3 DEF TwoSent, NamedLine
  <2> QED BY <2>4
<1>10. ASSUME NEW i, NEW l, TwoSent(k, s, i, l, a) PROVE a \in SentArguments(k, s)
  <2>1. /\ Begins(s, ArgumentHead(k)) /\ TwoFields(s, b, i, l)
        /\ i - b < MaxLong /\ l - 2 - i < MaxLong
        /\ a = <<SubSeq(s, b, i - 1), SubSeq(s, i + 1, l - 2)>>
    BY <1>3, <1>10 DEF TwoSent
  <2>2. l \in 0 .. m /\ Short(a) /\ NamedLine(k, s, l)
    BY <1>6, <1>8, <2>1
  <2>3. a \in Arguments(k, SubSeq(s, 1, l))
    BY <1>7, <2>1, <2>2
  <2> QED BY <1>1, <1>2, <2>2, <2>3, SentAt
<1> QED BY <1>9, <1>10

(* And with one field.                                                     *)
LEMMA OneSentAt ==
    ASSUME NEW k \in Named \ TwoNamed, NEW s \in Seq(LuluByte), NEW a
    PROVE  a \in SentArguments(k, s) <=> \E l : OneSent(k, s, l, a)
<1>1. k \in Named /\ k \in Command
  BY NamedHeadIs
<1>2. PICK m \in Nat : m = Len(s)
  BY LenProperties
<1>3. PICK b \in Nat : b = Len(Opening(k)) + 2 /\ b >= 1
  BY <1>1, OpeningTypes
<1>4. Len(Opening(k)) \in Nat
  BY <1>1, OpeningTypes
<1>5. ASSUME NEW l, OneField(s, b, l), a = <<SubSeq(s, b, l - 2)>>
      PROVE  l \in 0 .. m /\ (Short(a) <=> l - 1 - b < MaxLong)
  <2>1. l \in Nat /\ l > b + 1 /\ l <= m
    BY <1>2, <1>5 DEF OneField, EndsCrlf
  <2>2. Len(SubSeq(s, b, l - 2)) = l - 1 - b
    <3>1. PICK y \in Int : y = l - 2
      BY <2>1
    <3>2. y >= b - 1 /\ y <= Len(s) /\ y - b + 1 = l - 1 - b
      BY <1>2, <2>1, <3>1
    <3> QED BY <1>3, <3>1, <3>2, FieldLength
  <2>3. Short(a) <=> Len(SubSeq(s, b, l - 2)) < MaxLong
    BY <1>5, ShortIs
  <2> QED BY <2>1, <2>2, <2>3
<1>6. ASSUME NEW l \in 0 .. m, NamedLine(k, s, l)
      PROVE  a \in Arguments(k, SubSeq(s, 1, l)) <=>
                OneField(s, b, l) /\ a = <<SubSeq(s, b, l - 2)>>
  <2>1. l \in Nat /\ l <= Len(s)
    BY <1>2
  <2> QED BY <1>3, <1>6, <2>1, OneFieldGrammar
<1>7. ASSUME NEW l, OneField(s, b, l), Begins(s, ArgumentHead(k))
      PROVE  NamedLine(k, s, l)
  <2>1. l \in Nat /\ l > b + 1 /\ l <= m /\ s[l - 1] = CR /\ s[l] = LF
    BY <1>2, <1>7 DEF OneField, EndsCrlf
  <2>2. l >= Len(Opening(k)) + 3
    BY <1>3, <1>4, <2>1
  <2> QED BY <1>2, <1>7, <2>1, <2>2 DEF NamedLine
<1>8. ASSUME a \in SentArguments(k, s) PROVE \E l : OneSent(k, s, l, a)
  <2>1. PICK l \in 0 .. m : NamedLine(k, s, l) /\ a \in Arguments(k, SubSeq(s, 1, l))
    BY <1>1, <1>2, <1>8, SentAt
  <2>2. OneField(s, b, l) /\ a = <<SubSeq(s, b, l - 2)>>
    BY <1>6, <2>1
  <2>3. Short(a)
    BY <1>1, <1>8, SentAt
  <2>4. OneSent(k, s, l, a)
    BY <1>3, <1>5, <2>1, <2>2, <2>3 DEF OneSent, NamedLine
  <2> QED BY <2>4
<1>9. ASSUME NEW l, OneSent(k, s, l, a) PROVE a \in SentArguments(k, s)
  <2>1. /\ Begins(s, ArgumentHead(k)) /\ OneField(s, b, l) /\ l - 1 - b < MaxLong
        /\ a = <<SubSeq(s, b, l - 2)>>
    BY <1>3, <1>9 DEF OneSent
  <2>2. l \in 0 .. m /\ Short(a) /\ NamedLine(k, s, l)
    BY <1>5, <1>7, <2>1
  <2>3. a \in Arguments(k, SubSeq(s, 1, l))
    BY <1>6, <2>1, <2>2
  <2> QED BY <1>1, <1>2, <2>2, <2>3, SentAt
<1> QED BY <1>8, <1>9

-------------------------------------------------------------------------------
(* A parser inside a field has not seen its end.                           *)
LEMMA FieldOpen ==
    ASSUME NEW p, NEW s \in Seq(LuluByte), NEW x \in Nat, x >= 1,
           NEW field \in {"Name", "Password"}, ReadsField(p, s, x, field)
    PROVE  \A j : ~ EndsBar(s, x, j) /\ ~ EndsCrlf(s, x, j)
<1>1. PICK m \in Nat : m = Len(s)
  BY LenProperties
<1>2. Clean(s, x, m)
  <2>1. CASE Clean(s, x, Len(s))
    BY <1>1, <2>1
  <2>2. CASE s[Len(s)] = CR /\ Clean(s, x, Len(s) - 1)
    <3>1. PICK y \in Int : y = m - 1
      OBVIOUS
    <3>2. Clean(s, x, y) /\ s[y + 1] = CR /\ y + 1 = m
      BY <1>1, <2>2, <3>1
    <3>3. CR # Bar /\ CR # LF
      BY StuffBytes DEF Stuff
    <3>4. s[y + 1] # Bar /\ s[y + 1] # LF
      BY <3>2, <3>3
    <3>5. Clean(s, x, y + 1)
      BY <3>2, <3>4, CleanMore
    <3> QED BY <3>2, <3>5
  <2> QED BY <2>1, <2>2 DEF ReadsField
<1> QED BY <1>1, <1>2, OneEnd

(* Nor one inside a word the line's head.                                  *)
LEMMA WordsOpen ==
    ASSUME NEW k \in Named, NEW p \in Parser, NEW s \in Seq(LuluByte), NamedWords(p, s, k)
    PROVE  ~ Begins(s, ArgumentHead(k)) /\ p.state # "Finished"
<1>1. k \in Command
  BY NamedHeadIs
<1>2. PICK N \in Nat : N = Len(Opening(k))
  BY <1>1, OpeningTypes
<1>3. PICK h : h = ArgumentHead(k)
  OBVIOUS
<1>4. Len(h) = N + 1
  BY <1>1, <1>2, <1>3, ArgumentHeadIs
<1>5. SUFFICES Len(s) <= N /\ p.state # "Finished"
  <2>1. Len(s) \in Nat
    BY LenProperties
  <2> QED BY <1>3, <1>4, <1>5, <2>1 DEF Begins
<1>6. p.at \in Nat
  BY DEF Parser
<1>7. CASE k = "HELLO"
  <2>1. p.state = "First" /\ InsideWord(p, s, h, 0, "HELLO")
    BY <1>3, <1>7, Zenon DEF NamedWords
  <2>2. Opening(k) = Word["HELLO"]
    BY <1>7, NamedHeadIs
  <2> QED BY <1>2, <1>6, <2>1, <2>2 DEF InsideWord
<1>8. CASE k # "HELLO"
  <2>1. k \in TwoWorded
    BY <1>8, NamedHeadIs
  <2>2. PICK a \in Words, b \in Words : a = FirstWord(k) /\ b = SecondWord(k)
    BY <2>1, OpeningsOfTwo
  <2>3. InWords(p, s, h, a, b)
    BY <1>3, <1>8, <2>2, Zenon DEF NamedWords
  <2>4. PICK n1 \in Nat, n2 \in Nat : n1 = Len(Word[a]) /\ n2 = Len(Word[b])
    BY WordTypes
  <2>5. N = n1 + 1 + n2
    BY <1>2, <2>1, <2>2, <2>4, TwoWordsHead
  <2>6. CASE p.state = "First" /\ InsideWord(p, s, h, 0, a)
    <3>1. Len(s) = 0 + p.at /\ p.at <= n1
      BY <2>4, <2>6 DEF InsideWord
    <3>2. Len(s) <= N
      BY <1>6, <2>5, <3>1
    <3> QED BY <2>6, <3>2
  <2>7. CASE p.state = "Second" /\ InsideWord(p, s, h, Len(Word[a]) + 1, b)
    <3>1. Len(s) = n1 + 1 + p.at /\ p.at <= n2
      BY <2>4, <2>7 DEF InsideWord
    <3>2. Len(s) <= N
      BY <1>6, <2>5, <3>1
    <3> QED BY <2>7, <3>2
  <2> QED BY <2>3, <2>6, <2>7 DEF InWords
<1> QED BY <1>7, <1>8

(* What such a parser is once the head of its line is there.               *)
LEMMA HeadRead ==
    ASSUME NEW k \in Named, NEW p \in Parser, NEW s \in Seq(LuluByte), NamedKnows(p, s, k)
    PROVE  /\ Begins(s, ArgumentHead(k)) => NamedFields(p, s, k, Len(Opening(k)) + 2)
           /\ p.state = "Finished" => /\ Begins(s, ArgumentHead(k))
                                      /\ NamedDone(p, s, k, Len(Opening(k)) + 2)
<1>1. PICK h \in Seq(LuluByte) : h = ArgumentHead(k)
  BY NamedHeadIs, OpeningTypes, ArgumentHeadIs
<1>2. Len(s) \in Nat /\ Len(h) \in Nat
  BY LenProperties
<1>3. PICK b : b = Len(Opening(k)) + 2
  OBVIOUS
<1>4. ~ (Begins(s, h) /\ Differs(s, h))
  BY <1>2, NotBoth
<1>5. NamedFields(p, s, k, b) /\ p.state = "Finished" => NamedDone(p, s, k, b)
  BY Zenon DEF NamedFields, ReadsField
<1> QED BY <1>1, <1>3, <1>4, <1>5, WordsOpen DEF NamedKnows

-------------------------------------------------------------------------------
(* Two fields that are short: the parser has them, and there are no other. *)
LEMMA TwoFieldsRead ==
    ASSUME NEW k \in TwoNamed, NEW p \in Parser, NEW s \in Seq(LuluByte), NamedKnows(p, s, k),
           NEW i, NEW l, NEW a, TwoSent(k, s, i, l, a)
    PROVE  p.state = "Finished"
<1>1. k \in Named /\ k \in Command
  <2>1. k \in Named
    BY Zenon DEF TwoNamed, Named
  <2> QED BY <2>1, NamedHeadIs
<1>2. PICK b \in Nat : b = Len(Opening(k)) + 2 /\ b >= 1
  BY <1>1, OpeningTypes
<1>3. /\ Begins(s, ArgumentHead(k)) /\ TwoFields(s, b, i, l)
      /\ i - b < MaxLong /\ l - 2 - i < MaxLong
  BY <1>2 DEF TwoSent
<1>4. NamedFields(p, s, k, b)
  BY <1>1, <1>2, <1>3, HeadRead
<1>5. /\ EndsBar(s, b, i) /\ i > b /\ EndsCrlf(s, i + 1, l) /\ l > i + 2
      /\ i \in Nat /\ l \in Nat
  BY <1>3 DEF TwoFields, EndsBar, EndsCrlf
<1>6. Len(s) \in Nat
  BY LenProperties
<1>7. PICK x \in Nat : x = i + 1 /\ x >= 1
  BY <1>5
<1>8. PICK M \in Nat : M = MaxLong
  BY LuluParsersAssumption
<1>9. ASSUME NEW j, EndsBar(s, b, j) PROVE j = i
  BY <1>5, <1>6, <1>9, OneEnd
<1>10. ~ ReadsField(p, s, b, "Name")
  BY <1>2, <1>5, FieldOpen
<1>11. ~ ReadsField(p, s, x, "Password")
  BY <1>5, <1>7, FieldOpen
<1>12. ~ TooLong(s, b)
  <2>1. ~ (i - b >= MaxLong)
    BY <1>2, <1>3, <1>5, <1>8
  <2> QED BY <1>2, <1>5, <2>1, LongEnds
<1>13. ~ TooLong(s, x)
  <2>1. ~ (l - 1 - x >= MaxLong)
    BY <1>3, <1>5, <1>7, <1>8
  <2> QED BY <1>5, <1>7, <2>1, LongEnds
<1>14. \A j : ~ EndsCrlf(s, b, j) /\ ~ EndsBar(s, x, j)
  BY <1>2, <1>5, <1>6, <1>7, OneEnd
<1>15. ~ EndsCrlf(s, x, x + 1)
  <2>1. l # x + 1
    BY <1>5, <1>7
  <2> QED BY <1>5, <1>6, <1>7, <2>1, OneEnd
<1>16. x + 1 = i + 2 /\ i # b
  BY <1>2, <1>5, <1>7
<1>17. ~ NoFields(s, b)
  BY <1>7, <1>9, <1>12, <1>13, <1>14, <1>15, <1>16 DEF NoFields
<1> QED BY <1>4, <1>7, <1>9, <1>10, <1>11, <1>17 DEF NamedFields

(* And they are the ones that were sent, and no other.                     *)
LEMMA TwoFieldsAsSent ==
    ASSUME NEW k \in TwoNamed, NEW p \in Parser, NEW s \in Seq(LuluByte), NamedKnows(p, s, k),
           p.state = "Finished", Len(p.name) < MaxLong, Len(p.pass) < MaxLong
    PROVE  SentArguments(k, s) = {<<p.name, p.pass>>}
<1>1. k \in Named /\ k \in Command
  <2>1. k \in Named
    BY Zenon DEF TwoNamed, Named
  <2> QED BY <2>1, NamedHeadIs
<1>2. PICK b \in Nat : b = Len(Opening(k)) + 2 /\ b >= 1
  BY <1>1, OpeningTypes
<1>3. Begins(s, ArgumentHead(k)) /\ NamedDone(p, s, k, b)
  BY <1>1, <1>2, HeadRead
<1>4. PICK i, l : TwoFields(s, b, i, l) /\ p.name = SubSeq(s, b, i - 1)
                  /\ p.pass = SubSeq(s, i + 1, l - 2)
  BY <1>3 DEF NamedDone
<1>5. PICK m \in Nat : m = Len(s)
  BY LenProperties
<1>6. /\ EndsBar(s, b, i) /\ EndsCrlf(s, i + 1, l) /\ i > b /\ l > i + 2
      /\ i \in Nat /\ l \in Nat /\ l <= m
  BY <1>4, <1>5 DEF TwoFields, EndsBar, EndsCrlf
<1>7. PICK x \in Nat : x = i + 1 /\ x >= 1
  BY <1>6
<1>8. Len(p.name) = i - b
  <2>1. PICK y \in Int : y = i - 1
    BY <1>6
  <2>2. y >= b - 1 /\ y <= Len(s) /\ y - b + 1 = i - b
    BY <1>5, <1>6, <2>1
  <2> QED BY <1>2, <1>4, <2>1, <2>2, FieldLength
<1>9. Len(p.pass) = l - 2 - i
  <2>1. PICK y \in Int : y = l - 2
    BY <1>6
  <2>2. y >= x - 1 /\ y <= Len(s) /\ y - x + 1 = l - 2 - i
    BY <1>5, <1>6, <1>7, <2>1
  <2> QED BY <1>4, <1>7, <2>1, <2>2, FieldLength
<1>10. TwoSent(k, s, i, l, <<p.name, p.pass>>)
  BY <1>2, <1>3, <1>4, <1>8, <1>9 DEF TwoSent
<1>11. ASSUME NEW a, NEW j, NEW e, TwoSent(k, s, j, e, a) PROVE a = <<p.name, p.pass>>
  <2>1. TwoFields(s, b, j, e) /\ a = <<SubSeq(s, b, j - 1), SubSeq(s, j + 1, e - 2)>>
    BY <1>2, <1>11 DEF TwoSent
  <2>2. EndsBar(s, b, j) /\ EndsCrlf(s, j + 1, e)
    BY <2>1 DEF TwoFields
  <2>3. j = i
    BY <1>5, <1>6, <2>2, OneEnd
  <2>4. e = l
    BY <1>5, <1>6, <1>7, <2>2, <2>3, OneEnd
  <2> QED BY <1>4, <2>1, <2>3, <2>4
<1>12. \A a : a \in SentArguments(k, s) <=> \E j, e : TwoSent(k, s, j, e, a)
  BY TwoSentAt
<1>13. <<p.name, p.pass>> \in SentArguments(k, s)
  BY <1>10, <1>12
<1>14. \A a \in SentArguments(k, s) : a = <<p.name, p.pass>>
  BY <1>11, <1>12
<1> QED BY <1>13, <1>14

(* One field that is short: the same.                                      *)
LEMMA OneFieldRead ==
    ASSUME NEW k \in Named \ TwoNamed, NEW p \in Parser, NEW s \in Seq(LuluByte),
           NamedKnows(p, s, k), NEW l, NEW a, OneSent(k, s, l, a)
    PROVE  p.state = "Finished"
<1>1. k \in Named /\ k \in Command
  BY NamedHeadIs
<1>2. PICK b \in Nat : b = Len(Opening(k)) + 2 /\ b >= 1
  BY <1>1, OpeningTypes
<1>3. Begins(s, ArgumentHead(k)) /\ OneField(s, b, l) /\ l - 1 - b < MaxLong
  BY <1>2 DEF OneSent
<1>4. NamedFields(p, s, k, b)
  BY <1>1, <1>2, <1>3, HeadRead
<1>5. EndsCrlf(s, b, l) /\ l > b + 1 /\ l \in Nat
  BY <1>3 DEF OneField, EndsCrlf
<1>6. Len(s) \in Nat
  BY LenProperties
<1>7. PICK M \in Nat : M = MaxLong
  BY LuluParsersAssumption
<1>8. ~ ReadsField(p, s, b, "Name")
  BY <1>2, <1>5, FieldOpen
<1>9. ~ TooLong(s, b)
  <2>1. ~ (l - 1 - b >= MaxLong)
    BY <1>2, <1>3, <1>5, <1>7
  <2> QED BY <1>2, <1>5, <2>1, LongEnds
<1>10. \A j : ~ EndsBar(s, b, j)
  BY <1>2, <1>5, <1>6, OneEnd
<1>11. ~ EndsCrlf(s, b, b + 1)
  <2>1. l # b + 1
    BY <1>5
  <2> QED BY <1>5, <1>6, <2>1, OneEnd
<1>12. ~ NoField(s, b)
  BY <1>9, <1>10, <1>11 DEF NoField
<1> QED BY <1>4, <1>8, <1>12 DEF NamedFields

(* And it is the one that was sent.                                        *)
LEMMA OneFieldAsSent ==
    ASSUME NEW k \in Named \ TwoNamed, NEW p \in Parser, NEW s \in Seq(LuluByte),
           NamedKnows(p, s, k), p.state = "Finished", Len(p.name) < MaxLong
    PROVE  SentArguments(k, s) = {<<p.name>>}
<1>1. k \in Named /\ k \in Command
  BY NamedHeadIs
<1>2. PICK b \in Nat : b = Len(Opening(k)) + 2 /\ b >= 1
  BY <1>1, OpeningTypes
<1>3. Begins(s, ArgumentHead(k)) /\ NamedDone(p, s, k, b)
  BY <1>1, <1>2, HeadRead
<1>4. PICK l : OneField(s, b, l) /\ p.name = SubSeq(s, b, l - 2)
  BY <1>3 DEF NamedDone
<1>5. PICK m \in Nat : m = Len(s)
  BY LenProperties
<1>6. EndsCrlf(s, b, l) /\ l > b + 1 /\ l \in Nat /\ l <= m
  BY <1>4, <1>5 DEF OneField, EndsCrlf
<1>7. Len(p.name) = l - 1 - b
  <2>1. PICK y \in Int : y = l - 2
    BY <1>6
  <2>2. y >= b - 1 /\ y <= Len(s) /\ y - b + 1 = l - 1 - b
    BY <1>5, <1>6, <2>1
  <2> QED BY <1>2, <1>4, <2>1, <2>2, FieldLength
<1>8. OneSent(k, s, l, <<p.name>>)
  BY <1>2, <1>3, <1>4, <1>7 DEF OneSent
<1>9. ASSUME NEW a, NEW e, OneSent(k, s, e, a) PROVE a = <<p.name>>
  <2>1. OneField(s, b, e) /\ a = <<SubSeq(s, b, e - 2)>>
    BY <1>2, <1>9 DEF OneSent
  <2>2. EndsCrlf(s, b, e)
    BY <2>1 DEF OneField
  <2>3. e = l
    BY <1>5, <1>6, <2>2, OneEnd
  <2> QED BY <1>4, <2>1, <2>3
<1>10. \A a : a \in SentArguments(k, s) <=> \E e : OneSent(k, s, e, a)
  BY OneSentAt
<1>11. <<p.name>> \in SentArguments(k, s)
  BY <1>8, <1>10
<1>12. \A a \in SentArguments(k, s) : a = <<p.name>>
  BY <1>9, <1>10
<1> QED BY <1>11, <1>12

-------------------------------------------------------------------------------
(* Each parser of a command with names knows what it was sent.             *)
NamedInv ==
    kind = "lulu" =>
        /\ input \in Seq(LuluByte)
        /\ parser \in [Command -> Parser]
        /\ \A k \in Named : NamedKnows(parser[k], input, k)

(* Before the first byte, it is at the beginning of a word.                *)
LEMMA NothingNamed ==
    ASSUME NEW k \in Named
    PROVE  LuluReset \in Parser /\ NamedKnows(LuluReset, <<>>, k)
<1>1. LuluReset \in Parser /\ LuluReset.state = "First"
      /\ LuluReset.name = <<>> /\ LuluReset.pass = <<>>
  BY DEF LuluReset, Parser
<1>2. PICK h \in Seq(LuluByte) : h = ArgumentHead(k)
  BY NamedHeadIs, OpeningTypes, ArgumentHeadIs
<1>3. CASE k = "HELLO"
  <2>1. InsideWord(LuluReset, <<>>, h, 0, "HELLO")
    BY <1>3, NamedHeadIs, NothingMatches
  <2>2. NamedWords(LuluReset, <<>>, k)
    BY <1>1, <1>2, <1>3, <2>1, Zenon DEF NamedWords
  <2> QED BY <1>1, <2>2 DEF NamedKnows
<1>4. CASE k # "HELLO"
  <2>1. PICK a \in Words : a = FirstWord(k)
    BY <1>4, NamedHeadIs, OpeningsOfTwo
  <2>2. InsideWord(LuluReset, <<>>, h, 0, a)
    BY NothingMatches
  <2>3. InWords(LuluReset, <<>>, h, a, SecondWord(k))
    BY <1>1, <2>2 DEF InWords
  <2>4. NamedWords(LuluReset, <<>>, k)
    BY <1>1, <1>2, <1>4, <2>1, <2>3, Zenon DEF NamedWords
  <2> QED BY <1>1, <2>4 DEF NamedKnows
<1> QED BY <1>3, <1>4

(* Whatever the stream, the parser of a command with names is a function   *)
(* of the bytes so far too: in which field it is, where the fields before  *)
(* it ended, and what is in them, with the \r that ended no line.          *)
THEOREM NamedInvariantHolds == Spec => []NamedInv
<1>1. Init => NamedInv
  <2> SUFFICES ASSUME Init, kind = "lulu" PROVE NamedInv
    BY DEF NamedInv
  <2>1. input = <<>> /\ parser = [command \in Command |-> LuluReset]
    BY DEF Init, InitialParser
  <2>2. ASSUME NEW k \in Named PROVE NamedKnows(parser[k], input, k)
    BY <2>1, NothingNamed, NamedHeadIs
  <2>3. LuluReset \in Parser
    BY DEF LuluReset, Parser
  <2> QED BY <2>1, <2>2, <2>3 DEF NamedInv
<1>2. NamedInv /\ LuluInv' /\ [Next]_vars => NamedInv'
  <2> SUFFICES ASSUME NamedInv, LuluInv', [Next]_vars PROVE NamedInv'
    OBVIOUS
  <2>1. ASSUME NEW c \in LuluByte, FeedLulu(c) PROVE NamedInv'
    <3>1. /\ kind = "lulu" /\ kind' = kind /\ input' = Append(input, c)
          /\ parser' = [k \in Command |-> IF k \in Reading THEN Feed(k, parser[k], c)
                                         ELSE parser[k]]
      BY <2>1 DEF FeedLulu, Fed
    <3>2. input \in Seq(LuluByte) /\ parser \in [Command -> Parser]
      BY <3>1 DEF NamedInv
    <3>3. input' \in Seq(LuluByte) /\ parser' \in [Command -> Parser]
      BY <3>1 DEF LuluInv
    <3>4. ASSUME NEW k \in Named PROVE NamedKnows(parser'[k], input', k)
      <4>1. k \in Command /\ parser[k] \in Parser /\ NamedKnows(parser[k], input, k)
        BY <3>1, <3>2, NamedHeadIs DEF NamedInv
      <4>2. CASE k \in Reading
        <5>1. parser[k].state \notin {"Finished", "Invalid", "Overrun"}
          BY <4>2 DEF Reading
        <5>2. parser'[k] = Feed(k, parser[k], c)
          BY <3>1, <4>1, <4>2
        <5> QED BY <3>1, <3>2, <4>1, <5>1, <5>2, NamedFed
      <4>3. CASE k \notin Reading
        <5>1. parser'[k] = parser[k] /\ parser[k].state \in {"Finished", "Invalid", "Overrun"}
          BY <3>1, <4>1, <4>3 DEF Reading
        <5> QED BY <3>1, <3>2, <4>1, <5>1, NamedStays
      <4> QED BY <4>2, <4>3
    <3> QED BY <3>3, <3>4 DEF NamedInv
  <2>2. ASSUME NEW c \in Octet, FeedHello(c) \/ FeedAuth(c) \/ FeedRequest(c) PROVE NamedInv'
    BY <2>2 DEF FeedHello, FeedAuth, FeedRequest, Fed, NamedInv
  <2>3. CASE FeedPop3
    BY <2>3 DEF FeedPop3, Fed, NamedInv
  <2>4. CASE EndChunk
    BY <2>4 DEF EndChunk, NamedInv
  <2>5. CASE UNCHANGED vars
    BY <2>5 DEF vars, NamedInv
  <2> QED BY <2>1, <2>2, <2>3, <2>4, <2>5 DEF Next
<1> QED BY <1>1, <1>2, LuluInvariantHolds, PTL DEF Spec

(* What NamesAsSent says of one parser.                                    *)
NameAsSent(k, p, sent) ==
    LET short == Len(p.name) < MaxLong /\ Len(p.pass) < MaxLong
    IN /\ sent # {} => p.state = "Finished"
       /\ p.state = "Finished" /\ short =>
             sent = {IF k = "DEL USER" THEN <<UName(p)>> ELSE <<UName(p), p.pass>>}

(* It follows from where the parser is, with names of every length.        *)
LEMMA NamedExact ==
    ASSUME NEW k \in Named, NEW p \in Parser, NEW s \in Seq(LuluByte), NamedKnows(p, s, k)
    PROVE  NameAsSent(k, p, SentArguments(k, s))
<1>1. k \in TwoNamed <=> k # "DEL USER"
  BY Zenon DEF Named, TwoNamed
<1>2. Len(p.name) < MaxLong => UName(p) = p.name
  BY DEF UName
<1>3. SentArguments(k, s) # {} => p.state = "Finished"
  <2>1. CASE k \in TwoNamed
    BY <2>1, TwoSentAt, TwoFieldsRead
  <2>2. CASE k \notin TwoNamed
    BY <2>2, OneSentAt, OneFieldRead
  <2> QED BY <2>1, <2>2
<1>4. ASSUME p.state = "Finished", Len(p.name) < MaxLong, Len(p.pass) < MaxLong
      PROVE  /\ k \in TwoNamed => SentArguments(k, s) = {<<UName(p), p.pass>>}
             /\ k \notin TwoNamed => SentArguments(k, s) = {<<UName(p)>>}
  <2>1. UName(p) = p.name
    BY <1>2, <1>4
  <2> QED BY <1>4, <2>1, TwoFieldsAsSent, OneFieldAsSent
<1> QED BY <1>1, <1>3, <1>4, Zenon DEF NameAsSent

(* A command with names whose name and password are shorter than MaxLong   *)
(* is recognised exactly when its line was sent, and what the handler then *)
(* reads is what was sent: for all streams, wherever a \r or a | stands.   *)
THEOREM NamesAreAsSent == Spec => []NamesAsSent
<1>1. NamedInv => NamesAsSent
  <2> SUFFICES ASSUME NamedInv, kind = "lulu" PROVE NamesAsSent
    BY Zenon DEF NamesAsSent
  <2>1. input \in Seq(LuluByte) /\ parser \in [Command -> Parser]
    BY DEF NamedInv
  <2>2. ASSUME NEW k \in Named PROVE NameAsSent(k, parser[k], SentArguments(k, input))
    <3>1. k \in Command /\ NamedKnows(parser[k], input, k)
      BY NamedHeadIs DEF NamedInv
    <3> QED BY <2>1, <3>1, NamedExact
  <2>3. ASSUME NEW k \in Named
        PROVE  SentArguments(k, input) =
                 {a \in UNION {Arguments(k, s) : s \in Prefixes} :
                     \A j \in 1 .. Len(a) : Len(a[j]) < MaxLong}
    BY Zenon DEF SentArguments, Short, Prefixes
  <2> QED BY <2>2, <2>3, Zenon DEF NamesAsSent, NameAsSent
<1> QED BY <1>1, NamedInvariantHolds, PTL
-------------------------------------------------------------------------------
(* The POP3 dissector.  Positions in what the client sent: where a line    *)
(* starts, which command stands somewhere, and where its argument ends.    *)
Starts(s, i) == i \in 1 .. Len(s) + 1 /\ (i = 1 \/ s[i - 1] = Newline)

CommandAt(s, command, i) ==
    /\ i + commandLen <= Len(s)
    /\ \A j \in 1 .. commandLen : s[i + j - 1] = command[j]
    /\ s[i + commandLen] = Space

ArgumentEnds(s, command, i, e) ==
    /\ Starts(s, i) /\ CommandAt(s, command, i)
    /\ e \in Nat /\ i + commandLen < e /\ e <= Len(s) /\ s[e] = Return13
    /\ \A j \in i + commandLen + 1 .. e - 1 : s[j] # Return13

ArgumentText(s, i, e) == SubSeq(s, i + commandLen + 1, e - 1)

(* What lines make a stream: the last one begins behind b.                 *)
EndsWell(s) ==
    \A j \in 1 .. Len(s) : /\ s[j] = Newline => j > 1 /\ s[j - 1] = Return13
                           /\ s[j] = Return13 /\ j < Len(s) => s[j + 1] = Newline

CommandsStart(s, command) == \A i \in 1 .. Len(s) : CommandAt(s, command, i) => Starts(s, i)

LastLine(s, b) ==
    /\ b \in Nat /\ b <= Len(s) /\ (b = 0 \/ s[b] = Newline)
    /\ \A j \in b + 1 .. Len(s) : s[j] # Newline

PartOfLine(s, b) ==
    b = Len(s) \/ \E m \in Pop3Lines : /\ Len(s) - b < Len(m)
                                       /\ \A j \in 1 .. Len(s) - b : s[b + j] = m[j]

StreamKnows(s, b) ==
    /\ s \in Seq(Pop3Byte) /\ EndsWell(s) /\ LastLine(s, b) /\ PartOfLine(s, b)
    /\ CommandsStart(s, userCommand) /\ CommandsStart(s, passCommand)

(* The parser, and what it knows of a stream.  Fresh: since it was reset   *)
(* no line has started.                                                    *)
Pop3States == {"INITIAL_STATE", "USER_COMMAND", "USER_CONTENT", "PASS_COMMAND", "PASS_CONTENT",
               "UNKNOWN_COMMAND"}
Content3 == [set : BOOLEAN, text : Seq(Pop3Byte)]
Pop3AuthParser ==
    [State : Pop3States, Index : Nat, User : Content3, Password : Content3,
     IsPasswordComplete : BOOLEAN]

Fresh(p) == p.User = None /\ p.Password = None /\ p.IsPasswordComplete = FALSE

InCommand(p, s, b, command) ==
    /\ p.Index \in 1 .. commandLen /\ p.Index <= Len(s)
    /\ \A j \in 1 .. p.Index : s[Len(s) - p.Index + j] = command[j]
    /\ Len(s) - p.Index = b \/ Fresh(p)

InContent(p, s, b, command, content) ==
    /\ p.Index = 0 /\ CommandAt(s, command, b + 1)
    /\ \A j \in b + commandLen + 2 .. Len(s) : s[j] # Return13
    /\ content = IF Len(s) = b + 1 + commandLen THEN None
                 ELSE Some(SubSeq(s, b + commandLen + 2, Len(s)))

(* No USER line can still end where the parser skips the rest of a line.   *)
Passed(s, b) ==
    \/ \E j \in 1 .. commandLen : b + j <= Len(s) /\ s[b + j] # userCommand[j]
    \/ b + commandLen + 1 <= Len(s) /\ s[b + commandLen + 1] # Space
    \/ \E j \in b + 1 .. Len(s) : s[j] = Return13

StateKnows(p, s, b) ==
    \/ p.State = "INITIAL_STATE" /\ p.Index = 0 /\ (Len(s) = b \/ Fresh(p))
    \/ p.State = "USER_COMMAND" /\ InCommand(p, s, b, userCommand)
    \/ p.State = "PASS_COMMAND" /\ InCommand(p, s, b, passCommand)
    \/ p.State = "USER_CONTENT" /\ InContent(p, s, b, userCommand, p.User)
    \/ /\ p.State = "PASS_CONTENT" /\ p.IsPasswordComplete = FALSE
       /\ InContent(p, s, b, passCommand, p.Password)
    \/ p.State = "UNKNOWN_COMMAND" /\ (Fresh(p) \/ Passed(s, b))

(* The user is the one of the last USER line, and the password one that    *)
(* was sent.                                                               *)
UserIs(s, content) ==
    \E u, e : /\ ArgumentEnds(s, userCommand, u, e) /\ content = Some(ArgumentText(s, u, e))
              /\ \A v, f : ArgumentEnds(s, userCommand, v, f) => v <= u

PasswordIs(s, content) ==
    \E i, e : ArgumentEnds(s, passCommand, i, e) /\ content = Some(ArgumentText(s, i, e))

Pop3Knows(p, s, b) ==
    /\ p \in Pop3AuthParser /\ StateKnows(p, s, b)
    /\ p.State = "USER_CONTENT" \/ p.User = None \/ UserIs(s, p.User)
    /\ p.IsPasswordComplete = FALSE \/ PasswordIs(s, p.Password)
-------------------------------------------------------------------------------
(* What a byte does to the parser, state by state.                         *)
SameCredentials(p, q) ==
    q.User = p.User /\ q.Password = p.Password /\ q.IsPasswordComplete = p.IsPasswordComplete

Broken(c) == IF c = Newline THEN "INITIAL_STATE" ELSE "UNKNOWN_COMMAND"

FirstByteDoes(p, c, q) ==
    /\ SameCredentials(p, q) /\ q.Index = p.Index + 1
    /\ p.Index = 0 =>
         q.State = IF c = userCommand[1] THEN "USER_COMMAND"
                   ELSE IF c = passCommand[1] THEN "PASS_COMMAND" ELSE "UNKNOWN_COMMAND"

UserCommandDoes(p, c, q) ==
    \/ /\ p.Index = commandLen /\ c = Space
       /\ q.Index = 0 /\ q.State = "USER_CONTENT" /\ q.User = None
       /\ q.Password = p.Password /\ q.IsPasswordComplete = p.IsPasswordComplete
    \/ /\ p.Index < commandLen /\ c = userCommand[p.Index + 1]
       /\ q.Index = p.Index + 1 /\ q.State = "USER_COMMAND" /\ SameCredentials(p, q)
    \/ /\ p.Index < commandLen => c # userCommand[p.Index + 1]
       /\ p.Index = commandLen => c # Space
       /\ q.Index = 0 /\ q.State = Broken(c) /\ SameCredentials(p, q)

PassCommandDoes(p, c, q) ==
    /\ q.User = p.User /\ q.IsPasswordComplete = FALSE
    /\ \/ /\ p.Index = commandLen /\ c = Space
          /\ q.Index = 0 /\ q.State = "PASS_CONTENT" /\ q.Password = None
       \/ /\ p.Index < commandLen /\ c = passCommand[p.Index + 1]
          /\ q.Index = p.Index + 1 /\ q.State = "PASS_COMMAND" /\ q.Password = p.Password
       \/ q.Index = 0 /\ q.State = Broken(c) /\ q.Password = p.Password

ContentDoes(p, c, before, after, q) ==
    LET u == IF before.set THEN before ELSE Some(<<>>)
    IN /\ q.Index = p.Index
       /\ c \in {Return13, Newline} => q.State = Broken(c) /\ after = u
       /\ c \notin {Return13, Newline} => q.State = p.State /\ after = Some(Append(u.text, c))

Pop3Does(p, c, q) ==
    /\ p.State = "INITIAL_STATE" => FirstByteDoes(p, c, q)
    /\ p.State = "USER_COMMAND" => UserCommandDoes(p, c, q)
    /\ p.State = "PASS_COMMAND" => PassCommandDoes(p, c, q)
    /\ p.State = "USER_CONTENT" =>
         /\ ContentDoes(p, c, p.User, q.User, q)
         /\ q.Password = p.Password /\ q.IsPasswordComplete = p.IsPasswordComplete
    /\ p.State = "PASS_CONTENT" =>
         /\ ContentDoes(p, c, p.Password, q.Password, q) /\ q.User = p.User
         /\ q.IsPasswordComplete = IF c \in {Return13, Newline} THEN TRUE
                                   ELSE p.IsPasswordComplete
    /\ p.State = "UNKNOWN_COMMAND" =>
         /\ SameCredentials(p, q)
         /\ IF c = Newline THEN q.Index = 0 /\ q.State = "INITIAL_STATE"
            ELSE q.State = "UNKNOWN_COMMAND"

(* A content with a byte more, as a record.                                *)
LEMMA ContentMore ==
    ASSUME NEW u \in Content3, u.set = TRUE, NEW c \in Pop3Byte
    PROVE  /\ [u EXCEPT !.text = Append(@, c)] = Some(Append(u.text, c))
           /\ Some(Append(u.text, c)) \in Content3
           /\ Some(u.text) = u
<1>1. u = [set |-> TRUE, text |-> u.text] /\ u.text \in Seq(Pop3Byte)
  BY DEF Content3
<1>2. Append(u.text, c) \in Seq(Pop3Byte)
  BY <1>1, AppendProperties
<1>3. [u EXCEPT !.text = Append(@, c)] = [set |-> TRUE, text |-> Append(u.text, c)]
  <2>1. PICK y : y = Append(u.text, c)
    OBVIOUS
  <2>2. \A d, x : [[set |-> d, text |-> x] EXCEPT !.text = y] = [set |-> d, text |-> y]
    OBVIOUS
  <2>3. u = [set |-> u.set, text |-> u.text]
    BY DEF Content3
  <2>4. [u EXCEPT !.text = y] = [set |-> u.set, text |-> y]
    BY <2>2, <2>3, Zenon
  <2>5. [set |-> u.set, text |-> y] = [set |-> TRUE, text |-> y]
    BY Zenon
  <2>6. [u EXCEPT !.text = y] = [set |-> TRUE, text |-> Append(u.text, c)]
    BY <2>1, <2>4, <2>5, Zenon
  <2> QED BY <2>1, <2>6, Zenon
<1> QED BY <1>1, <1>2, <1>3 DEF Content3, Some

(* What is known of a content by its form.                                 *)
LEMMA ContentTypes == None \in Content3 /\ Some(<<>>) \in Content3 /\ Some(<<>>).text = <<>>
                      /\ None.set = FALSE /\ \A x : Some(x).set = TRUE /\ Some(x).text = x
BY DEF None, Some, Content3

(* The parser field by field.                                              *)
ParserOf(state, index, user, password, complete) ==
    [State |-> state, Index |-> index, User |-> user, Password |-> password,
     IsPasswordComplete |-> complete]

(* Its fields are those it was made of.                                    *)
LEMMA ParserFields ==
    ASSUME NEW st \in Pop3States, NEW ix \in Nat, NEW u \in Content3, NEW w \in Content3,
           NEW d \in BOOLEAN, NEW q, q = ParserOf(st, ix, u, w, d)
    PROVE  /\ q \in Pop3AuthParser
           /\ q.State = st /\ q.Index = ix /\ q.User = u /\ q.Password = w
           /\ q.IsPasswordComplete = d
BY DEF ParserOf, Pop3AuthParser

(* What each handler makes of them.                                        *)
LEMMA Pop3Step ==
    ASSUME NEW p \in Pop3AuthParser, NEW c \in Pop3Byte, NEW q, q = FeedPop3AuthParser(p, c)
    PROVE  q \in Pop3AuthParser /\ Pop3Does(p, c, q)
<1>1. /\ p.State \in Pop3States /\ p.Index \in Nat /\ p.User \in Content3
      /\ p.Password \in Content3 /\ p.IsPasswordComplete \in BOOLEAN
      /\ p = [State |-> p.State, Index |-> p.Index, User |-> p.User, Password |-> p.Password,
              IsPasswordComplete |-> p.IsPasswordComplete]
  BY DEF Pop3AuthParser
<1>2. commandLen \in Nat /\ commandLen > 0
  BY Pop3ParserAssumption, LenProperties DEF commandLen
<1>3. PICK no \in BOOLEAN, zero \in Nat : no = FALSE /\ zero = 0
  OBVIOUS
<1>4. PICK yes \in BOOLEAN : yes = TRUE
  OBVIOUS
<1>5. PICK none \in Content3 : none = None
  BY ContentTypes
<1>6. CASE p.State = "INITIAL_STATE"
  <2>1. q = FirstByte(p, c)
    BY <1>6 DEF FeedPop3AuthParser
  <2>2. PICK st \in Pop3States :
           st = IF IsCommandByte(userCommand, p.Index, c) THEN "USER_COMMAND"
                ELSE IF IsCommandByte(passCommand, p.Index, c) THEN "PASS_COMMAND"
                ELSE "UNKNOWN_COMMAND"
    BY DEF Pop3States
  <2>3. q = ParserOf(st, p.Index + 1, p.User, p.Password, p.IsPasswordComplete)
    BY <1>1, <2>1, <2>2 DEF FirstByte, ParserOf
  <2>4. p.Index + 1 \in Nat
    BY <1>1
  <2>5. q \in Pop3AuthParser /\ SameCredentials(p, q) /\ q.Index = p.Index + 1 /\ q.State = st
    BY <1>1, <2>3, <2>4, ParserFields DEF SameCredentials
  <2>6. p.Index = 0 => st = IF c = userCommand[1] THEN "USER_COMMAND"
                            ELSE IF c = passCommand[1] THEN "PASS_COMMAND" ELSE "UNKNOWN_COMMAND"
    BY <1>2, <2>2 DEF IsCommandByte
  <2> QED BY <1>6, <2>5, <2>6 DEF FirstByteDoes, Pop3Does
<1>7. CASE p.State = "USER_COMMAND"
  <2>1. q = UserCommand(p, c)
    BY <1>7 DEF FeedPop3AuthParser
  <2>2. PICK bs \in Pop3States : bs = Broken(c)
    BY DEF Broken, Pop3States
  <2>3. CASE p.Index = commandLen /\ c = Space
    <3>1. q = ParserOf("USER_CONTENT", zero, none, p.Password, p.IsPasswordComplete)
      BY <1>1, <1>5, <1>3, <2>1, <2>3 DEF UserCommand, ParserOf
    <3>2. "USER_CONTENT" \in Pop3States
      BY DEF Pop3States
    <3>9. /\ q \in Pop3AuthParser /\ q.State = "USER_CONTENT" /\ q.Index = zero
          /\ q.User = none /\ q.Password = p.Password
          /\ q.IsPasswordComplete = p.IsPasswordComplete
      BY <1>1, <1>7, <2>3, <3>1, <3>2, ParserFields
    <3> QED BY <1>3, <1>7, <1>5, <2>3, <3>2, <3>9
            DEF UserCommandDoes, Pop3Does, SameCredentials
  <2>4. CASE ~ (p.Index = commandLen /\ c = Space) /\ IsCommandByte(userCommand, p.Index, c)
    <3>1. q = ParserOf("USER_COMMAND", p.Index + 1, p.User, p.Password, p.IsPasswordComplete)
      BY <1>1, <1>3, <1>7, <2>1, <2>4 DEF UserCommand, ParserOf
    <3>2. "USER_COMMAND" \in Pop3States /\ p.Index + 1 \in Nat
      BY <1>1 DEF Pop3States
    <3>3. p.Index < commandLen /\ c = userCommand[p.Index + 1]
      BY <2>4 DEF IsCommandByte
    <3>9. /\ q \in Pop3AuthParser /\ q.State = "USER_COMMAND" /\ q.Index = p.Index + 1
          /\ q.User = p.User /\ q.Password = p.Password
          /\ q.IsPasswordComplete = p.IsPasswordComplete
      BY <1>1, <1>7, <3>1, <3>2, <3>3, ParserFields
    <3> QED BY <1>3, <1>7, <3>2, <3>3, <3>9
            DEF UserCommandDoes, Pop3Does, SameCredentials
  <2>5. CASE ~ (p.Index = commandLen /\ c = Space) /\ ~ IsCommandByte(userCommand, p.Index, c)
    <3>1. q = ParserOf(bs, zero, p.User, p.Password, p.IsPasswordComplete)
      BY <1>1, <1>3, <2>1, <2>2, <2>5 DEF UserCommand, LineBroken, Broken, ParserOf
    <3>2. /\ p.Index < commandLen => c # userCommand[p.Index + 1]
          /\ p.Index = commandLen => c # Space
      BY <2>5 DEF IsCommandByte
    <3>9. /\ q \in Pop3AuthParser /\ q.State = bs /\ q.Index = zero
          /\ q.User = p.User /\ q.Password = p.Password
          /\ q.IsPasswordComplete = p.IsPasswordComplete
      BY <1>1, <1>7, <2>2, <3>1, <3>2, ParserFields
    <3> QED BY <1>3, <1>7, <2>2, <3>2, <3>9
            DEF UserCommandDoes, Pop3Does, SameCredentials
  <2> QED BY <2>3, <2>4, <2>5
<1>8. CASE p.State = "PASS_COMMAND"
  <2>1. q = PassCommand(p, c)
    BY <1>8 DEF FeedPop3AuthParser
  <2>2. PICK bs \in Pop3States : bs = Broken(c)
    BY DEF Broken, Pop3States
  <2>3. CASE p.Index = commandLen /\ c = Space
    <3>1. q = ParserOf("PASS_CONTENT", zero, p.User, none, no)
      BY <1>1, <1>5, <1>3, <2>1, <2>3 DEF PassCommand, ParserOf
    <3>2. "PASS_CONTENT" \in Pop3States
      BY DEF Pop3States
    <3>9. /\ q \in Pop3AuthParser /\ q.State = "PASS_CONTENT" /\ q.Index = zero
          /\ q.User = p.User /\ q.Password = none
          /\ q.IsPasswordComplete = no
      BY <1>1, <1>8, <2>3, <3>1, <3>2, ParserFields
    <3> QED BY <1>3, <1>8, <1>5, <2>3, <3>2, <3>9
            DEF PassCommandDoes, Pop3Does, SameCredentials
  <2>4. CASE ~ (p.Index = commandLen /\ c = Space) /\ IsCommandByte(passCommand, p.Index, c)
    <3>1. q = ParserOf("PASS_COMMAND", p.Index + 1, p.User, p.Password, no)
      BY <1>1, <1>3, <1>8, <2>1, <2>4 DEF PassCommand, ParserOf
    <3>2. "PASS_COMMAND" \in Pop3States /\ p.Index + 1 \in Nat
      BY <1>1 DEF Pop3States
    <3>3. p.Index < commandLen /\ c = passCommand[p.Index + 1]
      BY <2>4 DEF IsCommandByte
    <3>9. /\ q \in Pop3AuthParser /\ q.State = "PASS_COMMAND" /\ q.Index = p.Index + 1
          /\ q.User = p.User /\ q.Password = p.Password
          /\ q.IsPasswordComplete = no
      BY <1>1, <1>8, <3>1, <3>2, <3>3, ParserFields
    <3> QED BY <1>3, <1>8, <3>2, <3>3, <3>9
            DEF PassCommandDoes, Pop3Does, SameCredentials
  <2>5. CASE ~ (p.Index = commandLen /\ c = Space) /\ ~ IsCommandByte(passCommand, p.Index, c)
    <3>1. q = ParserOf(bs, zero, p.User, p.Password, no)
      BY <1>1, <1>3, <2>1, <2>2, <2>5 DEF PassCommand, LineBroken, Broken, ParserOf
    <3>2. /\ p.Index < commandLen => c # passCommand[p.Index + 1]
          /\ p.Index = commandLen => c # Space
      BY <2>5 DEF IsCommandByte
    <3>9. /\ q \in Pop3AuthParser /\ q.State = bs /\ q.Index = zero
          /\ q.User = p.User /\ q.Password = p.Password
          /\ q.IsPasswordComplete = no
      BY <1>1, <1>8, <2>2, <3>1, <3>2, ParserFields
    <3> QED BY <1>3, <1>8, <2>2, <3>2, <3>9
            DEF PassCommandDoes, Pop3Does, SameCredentials
  <2> QED BY <2>3, <2>4, <2>5
<1>9. CASE p.State = "USER_CONTENT"
  <2>1. q = UserContent(p, c)
    BY <1>9 DEF FeedPop3AuthParser
  <2>2. PICK u : u = IF p.User.set THEN p.User ELSE Some(<<>>)
    OBVIOUS
  <2>3. u \in Content3 /\ u.set = TRUE
    BY <1>1, <2>2, ContentTypes DEF Content3
  <2>4. (IF p.User.set THEN p ELSE [p EXCEPT !.User = Some(<<>>)]) = [p EXCEPT !.User = u]
    BY <1>1, <2>2
  <2>5. q = IF c \in {Return13, Newline} THEN LineBroken([p EXCEPT !.User = u], c)
            ELSE [p EXCEPT !.User = Some(Append(u.text, c))]
    <3>1. PICK r : r = [p EXCEPT !.User = u]
      OBVIOUS
    <3>2. q = IF c \in {Return13, Newline} THEN LineBroken(r, c)
              ELSE [r EXCEPT !.User.text = Append(@, c)]
      BY <2>1, <2>4, <3>1, Zenon DEF UserContent
    <3>3. [r EXCEPT !.User.text = Append(@, c)]
          = [r EXCEPT !.User = [r.User EXCEPT !.text = Append(@, c)]]
      BY <1>1, <2>3, <3>1
    <3>4. r.User = u
      BY <1>1, <3>1
    <3>5. [r EXCEPT !.User.text = Append(@, c)] = [p EXCEPT !.User = Some(Append(u.text, c))]
      BY <1>1, <2>3, <3>1, <3>3, <3>4, ContentMore
    <3> QED BY <3>1, <3>2, <3>5
  <2>6. PICK bs \in Pop3States : bs = Broken(c)
    BY DEF Broken, Pop3States
  <2>7. CASE c \in {Return13, Newline}
    <3>1. q = ParserOf(bs, p.Index, u, p.Password, p.IsPasswordComplete)
      BY <1>1, <2>5, <2>6, <2>7 DEF LineBroken, Broken, ParserOf
    <3>9. /\ q \in Pop3AuthParser /\ q.State = bs /\ q.Index = p.Index
          /\ q.User = u /\ q.Password = p.Password
          /\ q.IsPasswordComplete = p.IsPasswordComplete
      BY <1>1, <1>9, <2>2, <2>3, <2>6, <3>1, ParserFields
    <3> QED BY <1>9, <2>2, <2>3, <2>6, <2>7, <3>9
            DEF ContentDoes, Pop3Does
  <2>8. CASE c \notin {Return13, Newline}
    <3>1. q = ParserOf(p.State, p.Index, Some(Append(u.text, c)), p.Password, p.IsPasswordComplete)
      BY <1>1, <2>5, <2>8 DEF ParserOf
    <3>2. Some(Append(u.text, c)) \in Content3
      BY <2>3, ContentMore
    <3>9. /\ q \in Pop3AuthParser /\ q.State = p.State /\ q.Index = p.Index
          /\ q.User = Some(Append(u.text, c)) /\ q.Password = p.Password
          /\ q.IsPasswordComplete = p.IsPasswordComplete
      BY <1>1, <1>9, <2>2, <3>1, <3>2, ParserFields
    <3> QED BY <1>9, <2>2, <2>8, <3>2, <3>9
            DEF ContentDoes, Pop3Does
  <2> QED BY <2>7, <2>8
<1>10. CASE p.State = "PASS_CONTENT"
  <2>1. q = PassContent(p, c)
    BY <1>10 DEF FeedPop3AuthParser
  <2>2. PICK u : u = IF p.Password.set THEN p.Password ELSE Some(<<>>)
    OBVIOUS
  <2>3. u \in Content3 /\ u.set = TRUE
    BY <1>1, <2>2, ContentTypes DEF Content3
  <2>4. (IF p.Password.set THEN p ELSE [p EXCEPT !.Password = Some(<<>>)])
        = [p EXCEPT !.Password = u]
    BY <1>1, <2>2
  <2>5. q = IF c \in {Return13, Newline}
              THEN LineBroken([p EXCEPT !.Password = u, !.IsPasswordComplete = TRUE], c)
            ELSE [p EXCEPT !.Password = Some(Append(u.text, c))]
    <3>1. PICK r : r = [p EXCEPT !.Password = u]
      OBVIOUS
    <3>2. q = IF c \in {Return13, Newline}
                THEN LineBroken([r EXCEPT !.IsPasswordComplete = TRUE], c)
              ELSE [r EXCEPT !.Password.text = Append(@, c)]
      BY <2>1, <2>4, <3>1, Zenon DEF PassContent
    <3>3. [r EXCEPT !.Password.text = Append(@, c)]
          = [r EXCEPT !.Password = [r.Password EXCEPT !.text = Append(@, c)]]
      BY <1>1, <2>3, <3>1
    <3>4. r.Password = u
      BY <1>1, <3>1
    <3>5. [r EXCEPT !.Password.text = Append(@, c)]
          = [p EXCEPT !.Password = Some(Append(u.text, c))]
      BY <1>1, <2>3, <3>1, <3>3, <3>4, ContentMore
    <3>6. [r EXCEPT !.IsPasswordComplete = TRUE]
          = [p EXCEPT !.Password = u, !.IsPasswordComplete = TRUE]
      BY <1>1, <3>1
    <3> QED BY <3>2, <3>5, <3>6
  <2>6. PICK bs \in Pop3States : bs = Broken(c)
    BY DEF Broken, Pop3States
  <2>7. CASE c \in {Return13, Newline}
    <3>1. q = ParserOf(bs, p.Index, p.User, u, yes)
      BY <1>1, <1>4, <2>5, <2>6, <2>7 DEF LineBroken, Broken, ParserOf
    <3>9. /\ q \in Pop3AuthParser /\ q.State = bs /\ q.Index = p.Index
          /\ q.User = p.User /\ q.Password = u
          /\ q.IsPasswordComplete = yes
      BY <1>1, <1>10, <2>3, <2>6, <3>1, ParserFields
    <3> QED BY <1>4, <1>10, <2>2, <2>3, <2>6, <2>7, <3>9
            DEF ContentDoes, Pop3Does
  <2>8. CASE c \notin {Return13, Newline}
    <3>1. q = ParserOf(p.State, p.Index, p.User, Some(Append(u.text, c)), p.IsPasswordComplete)
      BY <1>1, <2>5, <2>8 DEF ParserOf
    <3>2. Some(Append(u.text, c)) \in Content3
      BY <2>3, ContentMore
    <3>9. /\ q \in Pop3AuthParser /\ q.State = p.State /\ q.Index = p.Index
          /\ q.User = p.User /\ q.Password = Some(Append(u.text, c))
          /\ q.IsPasswordComplete = p.IsPasswordComplete
      BY <1>1, <1>10, <2>2, <3>1, <3>2, ParserFields
    <3> QED BY <1>10, <2>2, <2>8, <3>2, <3>9
            DEF ContentDoes, Pop3Does
  <2> QED BY <2>7, <2>8
<1>11. CASE p.State = "UNKNOWN_COMMAND"
  <2>1. q = UnknownCommand(p, c)
    BY <1>11 DEF FeedPop3AuthParser
  <2>2. CASE c = Newline
    <3>1. q = ParserOf("INITIAL_STATE", zero, p.User, p.Password, p.IsPasswordComplete)
      BY <1>1, <1>3, <2>1, <2>2 DEF UnknownCommand, ParserOf
    <3>2. "INITIAL_STATE" \in Pop3States
      BY DEF Pop3States
    <3>9. /\ q \in Pop3AuthParser /\ q.State = "INITIAL_STATE" /\ q.Index = zero
          /\ q.User = p.User /\ q.Password = p.Password
          /\ q.IsPasswordComplete = p.IsPasswordComplete
      BY <1>1, <1>11, <2>2, <3>1, <3>2, ParserFields
    <3> QED BY <1>11, <1>3, <2>2, <3>2, <3>9
            DEF SameCredentials, Pop3Does
  <2>3. CASE c # Newline
    BY <1>11, <2>1, <2>3 DEF UnknownCommand, SameCredentials, Pop3Does
  <2> QED BY <2>2, <2>3
<1> QED BY <1>1, <1>6, <1>7, <1>8, <1>9, <1>10, <1>11 DEF Pop3States
-------------------------------------------------------------------------------
(* The lines of the stream.                                                *)
LEMMA Commands3 ==
    ASSUME NEW command \in {userCommand, passCommand}
    PROVE  /\ command \in Seq(Pop3Byte) /\ Len(command) = commandLen
           /\ commandLen \in Nat /\ commandLen >= 1
           /\ \A j \in 1 .. commandLen : command[j] # Return13 /\ command[j] # Newline
           /\ userCommand[1] # passCommand[1]
           /\ Space # Return13 /\ Space # Newline /\ Return13 # Newline
           /\ Space \in Pop3Byte
<1>1. commandLen \in Nat /\ commandLen >= 1 /\ Len(userCommand) = commandLen
  BY Pop3ParserAssumption, LenProperties DEF commandLen
<1>2. Space # Return13 /\ Space # Newline /\ Return13 # Newline
  BY DEF Space, Return13, Newline
<1>3. Space \in Pop3Byte
  BY Pop3ParserAssumption
<1> QED BY <1>1, <1>2, <1>3, Pop3ParserAssumption

(* What is behind the last newline.                                        *)
LEMMA LineSoFarIs ==
    ASSUME input \in Seq(Pop3Byte), NEW b, LastLine(input, b)
    PROVE  LineSoFar = SubSeq(input, b + 1, Len(input))
<1>1. PICK n \in Nat : n = Len(input)
  BY LenProperties
<1>2. /\ b \in Nat /\ b <= n /\ (b = 0 \/ input[b] = Newline)
      /\ \A j \in b + 1 .. n : input[j] # Newline
  BY <1>1 DEF LastLine
<1>3. \A j : j \in NewlinesIn(input) <=> j \in 1 .. n /\ input[j] = Newline
  BY <1>1 DEF NewlinesIn
<1>4. \A j \in NewlinesIn(input) : j \in Nat /\ j <= b
  BY <1>2, <1>3
<1>5. (IF NewlinesIn(input) = {} THEN 0
       ELSE CHOOSE i \in NewlinesIn(input) : \A j \in NewlinesIn(input) : j <= i) = b
  <2>1. CASE NewlinesIn(input) = {}
    <3>1. b = 0
      BY <1>2, <1>3, <2>1
    <3> QED BY <2>1, <3>1
  <2>2. CASE NewlinesIn(input) # {}
    <3>1. b \in NewlinesIn(input)
      BY <1>2, <1>3, <1>4, <2>2
    <3>2. PICK e : e = CHOOSE i \in NewlinesIn(input) : \A j \in NewlinesIn(input) : j <= i
      OBVIOUS
    <3>3. e \in NewlinesIn(input) /\ \A j \in NewlinesIn(input) : j <= e
      BY <1>4, <3>1, <3>2
    <3>4. e = b
      BY <1>2, <1>4, <3>1, <3>3
    <3> QED BY <2>2, <3>2, <3>4
  <2> QED BY <2>1, <2>2
<1>6. 1 + b = b + 1
  BY <1>2
<1> QED BY <1>5, <1>6 DEF LineSoFar

(* The next byte is one of a line that begins like the last one.           *)
NextOf(s, b, c, m) ==
    /\ Len(s) - b < Len(m) /\ c = m[Len(s) - b + 1]
    /\ \A j \in 1 .. Len(s) - b : s[b + j] = m[j]

(* So says the model: some line goes on with that byte.                    *)
LEMMA NextInLineIs ==
    ASSUME input \in Seq(Pop3Byte), NEW b, LastLine(input, b), NEW c \in NextInLine
    PROVE  \E m \in Pop3Lines : NextOf(input, b, c, m)
<1>1. PICK n \in Nat : n = Len(input)
  BY LenProperties
<1>2. b \in Nat /\ b <= n
  BY <1>1 DEF LastLine
<1>3. PICK u : u = LineSoFar
  OBVIOUS
<1>4. PICK a \in Nat, k \in Nat : a = b + 1 /\ k = n - b
  BY <1>2
<1>5. u = SubSeq(input, a, n)
  BY <1>1, <1>3, <1>4, LineSoFarIs
<1>6. a >= 1 /\ n >= a - 1 /\ n <= n /\ n - a + 1 = k
  BY <1>2, <1>4
<1>7. u \in Seq(Pop3Byte) /\ Len(u) = k /\ \A j \in 1 .. k : u[j] = input[a + j - 1]
  BY <1>1, <1>5, <1>6, Parts DEF PartOf
<1>8. PICK m \in Pop3Lines : Len(m) > k /\ SubSeq(m, 1, k) = u /\ c = m[k + 1]
  BY <1>3, <1>7 DEF NextInLine
<1>9. m \in Seq(Pop3Byte)
  BY Pop3LinesAssumption
<1>10. PICK l \in Nat : l = Len(m) /\ k < l
  BY <1>8, <1>9, LenProperties
<1>11. PICK one \in Nat : one = 1
  OBVIOUS
<1>12. one >= 1 /\ k >= one - 1 /\ k <= l /\ k = k - one + 1
  BY <1>10, <1>11
<1>13. (SubSeq(m, one, k) = u) <=> \A j \in 1 .. k : m[one + j - 1] = u[j]
  BY <1>7, <1>9, <1>10, <1>12, PartIs
<1>14. \A j \in 1 .. k : m[j] = input[b + j]
  <2> SUFFICES ASSUME NEW j \in 1 .. k PROVE m[j] = input[b + j]
    OBVIOUS
  <2>1. one + j - 1 = j /\ a + j - 1 = b + j
    BY <1>2, <1>4, <1>11
  <2> QED BY <1>7, <1>8, <1>11, <1>13, <2>1
<1> QED BY <1>1, <1>4, <1>8, <1>14 DEF NextOf

(* So the stream is one of whole lines but for the last.                   *)
LineFrom(b, c, t) == IF c = Newline THEN Len(t) ELSE b

(* A stream of whole lines but for the last stays one.                     *)
LEMMA StreamGrows ==
    ASSUME NEW s, NEW b, StreamKnows(s, b), NEW m \in Pop3Lines, NEW c, NextOf(s, b, c, m),
           NEW t, t = Append(s, c), NEW d, d = LineFrom(b, c, t)
    PROVE  StreamKnows(t, d) /\ c \in Pop3Byte
<1>1. s \in Seq(Pop3Byte)
  BY DEF StreamKnows
<1>2. PICK n \in Nat : n = Len(s)
  BY <1>1, LenProperties
<1>3. /\ b \in Nat /\ b <= n /\ (b = 0 \/ s[b] = Newline)
      /\ \A j \in b + 1 .. n : s[j] # Newline
  BY <1>2 DEF StreamKnows, LastLine
<1>4. PICK k \in Nat : k = n - b
  BY <1>3
<1>5. PICK l \in Nat : l = Len(m) /\ l >= 2
  BY Pop3LinesAssumption, LenProperties
<1>6. /\ m \in Seq(Pop3Byte)
      /\ \A i \in 1 .. l : (m[i] = Return13 <=> i = l - 1) /\ (m[i] = Newline <=> i = l)
  BY <1>5, Pop3LinesAssumption
<1>7. k < l /\ c = m[k + 1] /\ \A j \in 1 .. k : s[b + j] = m[j]
  BY <1>2, <1>4, <1>5 DEF NextOf
<1>8. k + 1 \in 1 .. l
  BY <1>7
<1>9. c \in Pop3Byte
  BY <1>5, <1>6, <1>7, <1>8, ElementOfSeq
<1>10. t \in Seq(Pop3Byte) /\ Len(t) = n + 1 /\ t[n + 1] = c /\ \A i \in 1 .. n : t[i] = s[i]
  BY <1>1, <1>2, <1>9, Appended
<1>11. c = Newline <=> k + 1 = l
  BY <1>6, <1>7, <1>8
<1>12. Return13 # Newline /\ Space # Newline
  BY DEF Return13, Newline, Space
<1>13. EndsWell(t)
  <2> SUFFICES ASSUME NEW j \in 1 .. n + 1
               PROVE  /\ t[j] = Newline => j > 1 /\ t[j - 1] = Return13
                      /\ t[j] = Return13 /\ j < n + 1 => t[j + 1] = Newline
    BY <1>10 DEF EndsWell
  <2>1. CASE j <= n
    <3>1. j \in 1 .. n /\ (j > 1 => j - 1 \in 1 .. n) /\ (j < n => j + 1 \in 1 .. n)
      BY <2>1
    <3>2. /\ s[j] = Newline => j > 1 /\ s[j - 1] = Return13
          /\ s[j] = Return13 /\ j < n => s[j + 1] = Newline
      BY <1>2, <3>1 DEF StreamKnows, EndsWell
    <3>3. t[j] = s[j] /\ (j > 1 => t[j - 1] = s[j - 1]) /\ (j < n => t[j + 1] = s[j + 1])
      BY <1>10, <3>1
    <3>4. ASSUME j = n, s[j] = Return13 PROVE t[j + 1] = Newline
      <4>1. k >= 1
        BY <1>3, <1>4, <1>12, <3>4, <3>1
      <4>2. k \in 1 .. k /\ b + k = n /\ k \in 1 .. l
        BY <1>3, <1>4, <1>7, <4>1
      <4>3. m[k] = Return13
        BY <1>7, <3>4, <4>2
      <4>4. k = l - 1
        BY <1>6, <4>2, <4>3
      <4>5. k + 1 = l
        BY <4>4
      <4> QED BY <1>10, <1>11, <3>4, <4>5
    <3>5. t[j] = Return13 /\ j < n + 1 => t[j + 1] = Newline
      <4>1. j < n \/ j = n
        BY <2>1
      <4>2. CASE j < n
        BY <3>2, <3>3, <4>2
      <4>3. CASE j = n
        BY <3>3, <3>4, <4>3
      <4> QED BY <4>1, <4>2, <4>3
    <3>6. t[j] = Newline => j > 1 /\ t[j - 1] = Return13
      BY <3>2, <3>3
    <3> QED BY <3>5, <3>6
  <2>2. CASE j = n + 1
    <3>1. ASSUME c = Newline PROVE j > 1 /\ t[j - 1] = Return13
      <4>1. k = l - 1 /\ k \in 1 .. k /\ k \in 1 .. l /\ b + k = n /\ n \in 1 .. n
        BY <1>3, <1>4, <1>5, <1>7, <1>11, <3>1
      <4>2. m[k] = Return13
        BY <1>6, <4>1
      <4>3. s[n] = Return13
        BY <1>7, <4>1, <4>2
      <4>4. j > 1 /\ j - 1 = n
        BY <2>2, <4>1
      <4> QED BY <1>10, <4>1, <4>3, <4>4
    <3> QED BY <1>10, <2>2, <3>1
  <2>3. j <= n \/ j = n + 1
    OBVIOUS
  <2> QED BY <2>1, <2>2, <2>3, Zenon
<1>14. LastLine(t, d)
  <2>1. CASE c = Newline
    <3>1. d = n + 1 /\ \A j : j \notin d + 1 .. n + 1
      BY <1>10, <2>1 DEF LineFrom
    <3> QED BY <1>10, <2>1, <3>1 DEF LastLine
  <2>2. CASE c # Newline
    <3>1. d = b
      BY <2>2 DEF LineFrom
    <3>2. \A j \in b + 1 .. n + 1 : t[j] # Newline
      <4> SUFFICES ASSUME NEW j \in b + 1 .. n + 1 PROVE t[j] # Newline
        OBVIOUS
      <4>1. CASE j = n + 1
        BY <1>10, <2>2, <4>1
      <4>2. CASE j # n + 1
        <5>1. j \in 1 .. n /\ j \in b + 1 .. n
          BY <1>3, <4>2
        <5> QED BY <1>3, <1>10, <5>1
      <4> QED BY <4>1, <4>2
    <3>3. b = 0 \/ t[b] = Newline
      BY <1>3, <1>10
    <3> QED BY <1>3, <1>10, <3>1, <3>2, <3>3 DEF LastLine
  <2> QED BY <2>1, <2>2
<1>15. PartOfLine(t, d)
  <2>1. CASE c = Newline
    BY <2>1 DEF PartOfLine, LineFrom
  <2>2. CASE c # Newline
    <3>1. d = b /\ Len(t) - b = k + 1 /\ k + 1 < l
      BY <1>3, <1>4, <1>7, <1>10, <1>11, <2>2 DEF LineFrom
    <3>2. \A j \in 1 .. k + 1 : t[b + j] = m[j]
      <4> SUFFICES ASSUME NEW j \in 1 .. k + 1 PROVE t[b + j] = m[j]
        OBVIOUS
      <4>1. CASE j = k + 1
        <5>1. b + j = n + 1
          BY <1>3, <1>4, <4>1
        <5> QED BY <1>7, <1>10, <4>1, <5>1
      <4>2. CASE j # k + 1
        <5>1. j \in 1 .. k /\ b + j \in 1 .. n
          BY <1>3, <1>4, <4>2
        <5> QED BY <1>7, <1>10, <5>1
      <4> QED BY <4>1, <4>2
    <3> QED BY <1>5, <3>1, <3>2 DEF PartOfLine
  <2> QED BY <2>1, <2>2
<1>16. ASSUME NEW command \in {userCommand, passCommand}
       PROVE  CommandsStart(t, command)
  <2>1. /\ commandLen \in Nat /\ commandLen >= 1 /\ Len(command) = commandLen
        /\ command \in Seq(Pop3Byte) /\ Space \in Pop3Byte
        /\ \A j \in 1 .. commandLen : command[j] # Return13 /\ command[j] # Newline
    BY Commands3
  <2>2. PICK w \in Nat : w = commandLen
    BY <2>1
  <2>3. SUFFICES ASSUME NEW i \in 1 .. n + 1, CommandAt(t, command, i) PROVE Starts(t, i)
    BY <1>10 DEF CommandsStart
  <2>4. i + w <= n + 1 /\ (\A j \in 1 .. w : t[i + j - 1] = command[j]) /\ t[i + w] = Space
    BY <1>10, <2>2, <2>3 DEF CommandAt
  <2>5. CASE i + w <= n
    <3>1. i \in 1 .. n /\ i + w \in 1 .. n /\ \A j \in 1 .. w : i + j - 1 \in 1 .. n
      BY <2>1, <2>2, <2>5
    <3>2. CommandAt(s, command, i)
      BY <1>2, <1>10, <2>2, <2>4, <2>5, <3>1 DEF CommandAt
    <3>3. CommandsStart(s, command)
      BY DEF StreamKnows
    <3>4. Starts(s, i)
      BY <1>2, <3>1, <3>2, <3>3 DEF CommandsStart
    <3>5. i = 1 \/ s[i - 1] = Newline
      BY <3>4 DEF Starts
    <3>6. i # 1 => t[i - 1] = s[i - 1]
      <4>1. i # 1 => i - 1 \in 1 .. n
        BY <3>1
      <4> QED BY <1>10, <4>1
    <3>7. i \in 1 .. Len(t) + 1
      BY <1>10
    <3> QED BY <3>5, <3>6, <3>7 DEF Starts
  <2>6. CASE i + w > n
    <3>1. i + w = n + 1
      BY <2>4, <2>6
    <3>2. i > b
      <4>1. SUFFICES ASSUME i <= b PROVE FALSE
        BY <1>3
      <4>2. b \in 1 .. n
        BY <1>3, <4>1
      <4>3. PICK j \in Nat : j = b - i + 1
        BY <1>3, <4>1
      <4>4. j \in 1 .. w /\ i + j - 1 = b
        BY <1>3, <3>1, <4>1, <4>3
      <4>5. t[b] = command[j]
        BY <2>4, <4>4
      <4>6. t[b] = Newline
        BY <1>3, <1>10, <4>2
      <4> QED BY <2>1, <2>2, <4>4, <4>5, <4>6
    <3>3. PICK x \in Nat : x = i - b
      BY <1>3, <3>2
    <3>4. CASE x = 1
      <4>1. i = b + 1 /\ i \in 1 .. Len(t) + 1
        BY <1>3, <1>10, <3>3, <3>4
      <4>2. i = 1 \/ (i - 1 = b /\ b \in 1 .. n)
        BY <1>3, <4>1
      <4>3. i = 1 \/ t[i - 1] = Newline
        BY <1>3, <1>10, <4>2
      <4> QED BY <4>1, <4>3 DEF Starts
    <3>5. CASE x # 1
      <4>1. x >= 2 /\ x + w = k + 1 /\ x \in 2 .. l - w
        BY <1>3, <1>4, <1>7, <3>1, <3>2, <3>3, <3>5
      <4>2. PICK y \in Nat : y = x + w
        OBVIOUS
      <4>3. PICK v : v = Append(command, Space)
        OBVIOUS
      <4>4. /\ v \in Seq(Pop3Byte) /\ Len(v) = w + 1 /\ v[w + 1] = Space
            /\ \A j \in 1 .. w : v[j] = command[j]
        <5>1. /\ v \in Seq(Pop3Byte) /\ Len(v) = Len(command) + 1 /\ v[Len(command) + 1] = Space
              /\ \A j \in 1 .. Len(command) : v[j] = command[j]
          BY <2>1, <4>3, Appended
        <5>2. Len(command) = w
          BY <2>1, <2>2
        <5> QED BY <5>1, <5>2
      <4>5. PICK z \in Nat : z = w + 1
        OBVIOUS
      <4>6. x >= 1 /\ y >= x - 1 /\ y <= l /\ z = Len(v) /\ z = y - x + 1
        BY <1>7, <4>1, <4>2, <4>4, <4>5
      <4>7. (SubSeq(m, x, y) = v) <=> \A j \in 1 .. z : m[x + j - 1] = v[j]
        BY <1>5, <1>6, <4>4, <4>6, PartIs
      <4>8. \A j \in 1 .. z : m[x + j - 1] = v[j]
        <5> SUFFICES ASSUME NEW j \in 1 .. z PROVE m[x + j - 1] = v[j]
          OBVIOUS
        <5>1. PICK f \in Nat : f = x + j - 1
          BY <4>1
        <5>2. f \in 1 .. k + 1 /\ b + f = i + j - 1 /\ (f = k + 1 <=> j = w + 1)
          BY <1>3, <3>3, <4>1, <4>5, <5>1
        <5>3. CASE j = w + 1
          <6>1. m[f] = c /\ t[n + 1] = Space
            BY <1>7, <2>4, <3>1, <5>2, <5>3
          <6> QED BY <1>10, <4>4, <5>1, <5>3, <6>1
        <5>4. CASE j # w + 1
          <6>1. f \in 1 .. k /\ j \in 1 .. w /\ i + j - 1 \in 1 .. n
            BY <2>4, <3>1, <4>5, <5>2, <5>4
          <6>2. m[f] = s[i + j - 1]
            BY <1>7, <5>2, <6>1
          <6>3. t[i + j - 1] = command[j]
            BY <2>4, <6>1
          <6> QED BY <1>10, <4>4, <5>1, <6>1, <6>2, <6>3
        <5> QED BY <5>3, <5>4
      <4>9. SubSeq(m, x, x + commandLen) # Append(command, Space)
        <5>1. x \in 2 .. Len(m) - commandLen
          BY <1>5, <2>2, <4>1
        <5> QED BY <5>1, Pop3LinesAssumption
      <4> QED BY <2>2, <4>2, <4>3, <4>7, <4>8, <4>9
    <3> QED BY <3>4, <3>5
  <2> QED BY <2>1, <2>2, <2>5, <2>6
<1> QED BY <1>9, <1>10, <1>13, <1>14, <1>15, <1>16 DEF StreamKnows
-------------------------------------------------------------------------------
(* What stands in the stream stays there.                                  *)
LEMMA CommandGrows ==
    ASSUME NEW s \in Seq(Pop3Byte), NEW c \in Pop3Byte, NEW t, t = Append(s, c),
           NEW command \in {userCommand, passCommand}, NEW i \in Nat, i >= 1,
           i + commandLen <= Len(s)
    PROVE  CommandAt(t, command, i) <=> CommandAt(s, command, i)
<1>1. PICK n \in Nat : n = Len(s)
  BY LenProperties
<1>2. Len(t) = n + 1 /\ \A j \in 1 .. n : t[j] = s[j]
  BY <1>1, Appended
<1>3. PICK w \in Nat : w = commandLen
  BY Commands3
<1>4. i + w \in 1 .. n /\ \A j \in 1 .. w : i + j - 1 \in 1 .. n
  BY <1>1, <1>3
<1> QED BY <1>1, <1>2, <1>3, <1>4 DEF CommandAt

(* An argument that stands in a part of it ends there before and after.    *)
LEMMA ArgumentGrows ==
    ASSUME NEW s \in Seq(Pop3Byte), NEW c \in Pop3Byte, NEW t, t = Append(s, c),
           NEW command \in {userCommand, passCommand}, NEW i \in Nat, i >= 1,
           NEW e \in Nat, i + commandLen < e, e <= Len(s)
    PROVE  ArgumentEnds(t, command, i, e) <=> ArgumentEnds(s, command, i, e)
<1>1. PICK n \in Nat : n = Len(s)
  BY LenProperties
<1>2. Len(t) = n + 1 /\ t[n + 1] = c /\ \A j \in 1 .. n : t[j] = s[j]
  BY <1>1, Appended
<1>3. PICK w \in Nat : w = commandLen
  BY Commands3
<1>4. i + commandLen <= Len(s)
  BY <1>1, <1>3
<1>5. CommandAt(t, command, i) <=> CommandAt(s, command, i)
  <2>1. PICK x \in Nat : x = i
    OBVIOUS
  <2>2. x >= 1 /\ x + commandLen <= Len(s)
    BY <1>4, <2>1
  <2>3. CommandAt(t, command, x) <=> CommandAt(s, command, x)
    BY <2>2, CommandGrows
  <2> QED BY <2>1, <2>3
<1>6. Starts(t, i) <=> Starts(s, i)
  <2>1. i \in 1 .. n + 1 /\ i \in 1 .. n + 2 /\ (i # 1 => i - 1 \in 1 .. n)
    BY <1>1, <1>3
  <2>2. Len(t) + 1 = n + 2
    BY <1>2
  <2> QED BY <1>1, <1>2, <2>1, <2>2 DEF Starts
<1>7. e \in 1 .. n /\ \A j \in i + w + 1 .. e - 1 : j \in 1 .. n
  BY <1>1, <1>3
<1>8. e <= n + 1
  BY <1>1
<1> QED BY <1>1, <1>2, <1>3, <1>5, <1>6, <1>7, <1>8 DEF ArgumentEnds

(* So it stays, with its text.                                             *)
ArgumentStands(s, t, command, i, e) ==
    ArgumentEnds(t, command, i, e) /\ ArgumentText(t, i, e) = ArgumentText(s, i, e)

(* Its text is the same before and after.                                  *)
LEMMA ArgumentStays ==
    ASSUME NEW s \in Seq(Pop3Byte), NEW c \in Pop3Byte, NEW t, t = Append(s, c),
           NEW command \in {userCommand, passCommand}, NEW i, NEW e,
           ArgumentEnds(s, command, i, e)
    PROVE  ArgumentStands(s, t, command, i, e)
<1>1. PICK n \in Nat : n = Len(s)
  BY LenProperties
<1>2. PICK w \in Nat : w = commandLen
  BY Commands3
<1>3. i \in Nat /\ i >= 1 /\ e \in Nat /\ i + w < e /\ e <= n
  BY <1>1, <1>2 DEF ArgumentEnds, Starts
<1>4. PICK x \in Nat, y \in Nat : x = i /\ y = e
  BY <1>3
<1>5. x >= 1 /\ x + commandLen < y /\ y <= Len(s)
  BY <1>1, <1>2, <1>3, <1>4
<1>6. ArgumentEnds(t, command, x, y) <=> ArgumentEnds(s, command, x, y)
  BY <1>5, ArgumentGrows
<1>7. PICK f \in Nat, g \in Nat : f = i + commandLen + 1 /\ g = e - 1
  BY <1>2, <1>3
<1>8. f \in 1 .. n + 1 /\ g \in 0 .. n
  BY <1>2, <1>3, <1>7
<1>9. SubSeq(t, f, g) = SubSeq(s, f, g)
  BY <1>1, <1>8, Appended
<1> QED BY <1>4, <1>6, <1>7, <1>9 DEF ArgumentText, ArgumentStands

(* And a new one ends with the byte that is new.                           *)
LEMMA ArgumentEndsAnew ==
    ASSUME NEW s \in Seq(Pop3Byte), NEW c \in Pop3Byte, NEW t, t = Append(s, c),
           NEW command \in {userCommand, passCommand}, NEW i, NEW e,
           ArgumentEnds(t, command, i, e)
    PROVE  ArgumentEnds(s, command, i, e) \/ (e = Len(t) /\ c = Return13)
<1>1. PICK n \in Nat : n = Len(s)
  BY LenProperties
<1>2. Len(t) = n + 1 /\ t[n + 1] = c
  BY <1>1, Appended
<1>3. PICK w \in Nat : w = commandLen
  BY Commands3
<1>4. i \in Nat /\ i >= 1 /\ e \in Nat /\ i + w < e /\ e <= n + 1 /\ t[e] = Return13
  BY <1>2, <1>3 DEF ArgumentEnds, Starts
<1>5. CASE e <= n
  <2>1. PICK x \in Nat, y \in Nat : x = i /\ y = e
    BY <1>4
  <2>2. x >= 1 /\ x + commandLen < y /\ y <= Len(s)
    BY <1>1, <1>3, <1>4, <1>5, <2>1
  <2>3. ArgumentEnds(t, command, x, y) <=> ArgumentEnds(s, command, x, y)
    BY <2>2, ArgumentGrows
  <2> QED BY <2>1, <2>3
<1>6. CASE e = n + 1
  BY <1>2, <1>4, <1>6
<1> QED BY <1>4, <1>5, <1>6

(* An argument is in one line, and the last one starts behind d.           *)
LEMMA ArgumentInLine ==
    ASSUME NEW s \in Seq(Pop3Byte), EndsWell(s), NEW command \in {userCommand, passCommand},
           NEW i, NEW e, ArgumentEnds(s, command, i, e)
    PROVE  i \in Nat /\ i >= 1 /\ e \in Nat /\ \A j \in i .. e : s[j] # Newline
<1>1. PICK n \in Nat : n = Len(s)
  BY LenProperties
<1>2. PICK w \in Nat : w = commandLen
  BY Commands3
<1>3. /\ i \in Nat /\ i >= 1 /\ e \in Nat /\ i + w < e /\ e <= n /\ s[e] = Return13
      /\ \A j \in i + w + 1 .. e - 1 : s[j] # Return13
      /\ \A j \in 1 .. w : s[i + j - 1] = command[j]
      /\ s[i + w] = Space
  BY <1>1, <1>2 DEF ArgumentEnds, CommandAt, Starts
<1>4. SUFFICES ASSUME NEW j \in i .. e, s[j] = Newline PROVE FALSE
  BY <1>3
<1>5. j \in 1 .. n
  BY <1>3
<1>6. j > 1 /\ s[j - 1] = Return13
  BY <1>1, <1>4, <1>5 DEF EndsWell
<1>7. CASE j < i + w
  <2>1. PICK k \in Nat : k = j - i + 1
    BY <1>3
  <2>2. k \in 1 .. w /\ i + k - 1 = j
    BY <1>3, <1>7, <2>1
  <2> QED BY <1>2, <1>3, <1>4, <2>2, Commands3
<1>8. CASE j = i + w
  BY <1>3, <1>4, <1>8, Commands3
<1>9. CASE j = e
  BY <1>3, <1>4, <1>9, Commands3
<1>10. CASE j > i + w /\ j < e
  <2>1. j - 1 = i + w \/ j - 1 \in i + w + 1 .. e - 1
    BY <1>3, <1>10
  <2> QED BY <1>3, <1>6, <2>1, Commands3
<1> QED BY <1>3, <1>5, <1>7, <1>8, <1>9, <1>10

(* No line starts behind the last one.                                     *)
LEMMA StartsBy ==
    ASSUME NEW s, Len(s) \in Nat, NEW d, LastLine(s, d), NEW v, Starts(s, v)
    PROVE  v <= d + 1
<1>1. v \in 1 .. Len(s) + 1 /\ (v = 1 \/ s[v - 1] = Newline)
  BY DEF Starts
<1>2. d \in Nat /\ \A j \in d + 1 .. Len(s) : s[j] # Newline
  BY DEF LastLine
<1>3. SUFFICES ASSUME v > d + 1 PROVE FALSE
  BY <1>1, <1>2
<1>4. v # 1 /\ v - 1 \in d + 1 .. Len(s)
  BY <1>1, <1>2, <1>3
<1> QED BY <1>1, <1>2, <1>4

(* An argument that ends the stream is the one of the last line.           *)
LEMMA LastArgument ==
    ASSUME NEW s, NEW d, StreamKnows(s, d), NEW command \in {userCommand, passCommand},
           NEW i, ArgumentEnds(s, command, i, Len(s))
    PROVE  i = d + 1
<1>1. PICK n \in Nat : n = Len(s)
  BY LenProperties DEF StreamKnows
<1>2. s \in Seq(Pop3Byte) /\ EndsWell(s) /\ LastLine(s, d)
  BY DEF StreamKnows
<1>3. i \in Nat /\ i >= 1 /\ \A j \in i .. n : s[j] # Newline
  BY <1>1, <1>2, ArgumentInLine
<1>4. Starts(s, i)
  BY DEF ArgumentEnds
<1>5. i <= d + 1
  BY <1>1, <1>2, <1>4, StartsBy
<1>6. d \in Nat /\ d <= n /\ (d = 0 \/ s[d] = Newline)
  BY <1>1, <1>2 DEF LastLine
<1>7. ~ (d >= i)
  <2>1. d >= i => d \in i .. n /\ d # 0
    BY <1>3, <1>6
  <2> QED BY <1>3, <1>6, <2>1
<1> QED BY <1>3, <1>5, <1>6, <1>7

(* The command of the last line is at its place.                           *)
LEMMA LastCommand ==
    ASSUME NEW s, NEW d, StreamKnows(s, d), NEW command \in {userCommand, passCommand},
           NEW i \in Nat, i >= 1, i + commandLen = Len(s), CommandAt(s, command, i)
    PROVE  i = d + 1
<1>1. s \in Seq(Pop3Byte) /\ LastLine(s, d) /\ CommandsStart(s, command)
  BY DEF StreamKnows
<1>2. PICK n \in Nat : n = Len(s)
  BY <1>1, LenProperties
<1>3. PICK w \in Nat : w = commandLen
  BY Commands3
<1>4. i + w = n /\ (\A j \in 1 .. w : s[i + j - 1] = command[j]) /\ s[i + w] = Space
  BY <1>2, <1>3 DEF CommandAt
<1>5. i \in 1 .. n
  BY <1>4
<1>6. Starts(s, i)
  BY <1>1, <1>2, <1>5 DEF CommandsStart
<1>7. i <= d + 1
  BY <1>1, <1>2, <1>6, StartsBy
<1>8. d \in Nat /\ d <= n /\ (d = 0 \/ s[d] = Newline)
  BY <1>1, <1>2 DEF LastLine
<1>9. ~ (d >= i)
  <2>1. SUFFICES ASSUME d >= i PROVE FALSE
    OBVIOUS
  <2>2. d # 0 /\ d # n
    BY <1>4, <1>5, <1>8, <2>1, Commands3
  <2>3. PICK j \in Nat : j = d - i + 1
    BY <1>8, <2>1
  <2>4. j \in 1 .. w /\ i + j - 1 = d
    BY <1>4, <1>8, <2>1, <2>2, <2>3
  <2> QED BY <1>3, <1>4, <1>8, <2>2, <2>4, Commands3
<1> QED BY <1>7, <1>8, <1>9
-------------------------------------------------------------------------------
(* A byte c behind the stream s: what the parser knows stays true.         *)
Feeding(s, b, c, t, d) ==
    /\ StreamKnows(s, b) /\ c \in Pop3Byte /\ t = Append(s, c)
    /\ d = LineFrom(b, c, t) /\ StreamKnows(t, d)

(* What that gives about the two streams.                                  *)
LEMMA FeedingIs ==
    ASSUME NEW s, NEW b, NEW c, NEW t, NEW d, Feeding(s, b, c, t, d)
    PROVE  /\ StreamKnows(s, b) /\ c \in Pop3Byte /\ t = Append(s, c)
           /\ d = (IF c = Newline THEN Len(t) ELSE b) /\ StreamKnows(t, d)
           /\ s \in Seq(Pop3Byte) /\ b \in Nat /\ b <= Len(s) /\ d \in Nat
           /\ Len(s) \in Nat /\ Len(t) = Len(s) + 1 /\ t[Len(s) + 1] = c
           /\ \A j \in 1 .. Len(s) : t[j] = s[j]
<1>1. StreamKnows(s, b) /\ c \in Pop3Byte /\ t = Append(s, c) /\ StreamKnows(t, d)
  BY DEF Feeding
<1>2. s \in Seq(Pop3Byte) /\ b \in Nat /\ b <= Len(s) /\ d \in Nat
  BY <1>1 DEF StreamKnows, LastLine
<1> QED BY <1>1, <1>2, Appended DEF Feeding, LineFrom

(* What the parser knows stays true: the password it has was sent, and no  *)
(* USER line ends behind the last one it has seen.                         *)
LEMMA PasswordStays ==
    ASSUME NEW s \in Seq(Pop3Byte), NEW c \in Pop3Byte, NEW t, t = Append(s, c), NEW x,
           PasswordIs(s, x)
    PROVE  PasswordIs(t, x)
<1>1. PICK i, e : ArgumentEnds(s, passCommand, i, e) /\ x = Some(ArgumentText(s, i, e))
  BY DEF PasswordIs
<1>2. ArgumentEnds(t, passCommand, i, e) /\ ArgumentText(t, i, e) = ArgumentText(s, i, e)
  <2>1. PICK command \in {userCommand, passCommand} : command = passCommand
    OBVIOUS
  <2>2. ArgumentEnds(s, command, i, e)
    BY <1>1, <2>1
  <2>3. ArgumentStands(s, t, command, i, e)
    BY <2>2, ArgumentStays
  <2> QED BY <2>1, <2>3 DEF ArgumentStands
<1> QED BY <1>1, <1>2 DEF PasswordIs

(* No USER line ends while the parser is elsewhere, so the user stays.     *)
LEMMA UserStays ==
    ASSUME NEW s, NEW b, NEW c, NEW t, NEW d, Feeding(s, b, c, t, d), NEW p, StateKnows(p, s, b),
           p.State # "USER_CONTENT", UserIs(s, p.User)
    PROVE  UserIs(t, p.User)
<1>1. PICK u, e : /\ ArgumentEnds(s, userCommand, u, e) /\ p.User = Some(ArgumentText(s, u, e))
                  /\ \A v, f : ArgumentEnds(s, userCommand, v, f) => v <= u
  BY DEF UserIs
<1>2. /\ StreamKnows(s, b) /\ c \in Pop3Byte /\ t = Append(s, c) /\ StreamKnows(t, d)
      /\ s \in Seq(Pop3Byte) /\ d = (IF c = Newline THEN Len(t) ELSE b)
  BY FeedingIs
<1>3. PICK n \in Nat : n = Len(s) /\ b \in Nat /\ b <= n
  BY FeedingIs
<1>4. Len(t) = n + 1 /\ t[n + 1] = c /\ \A j \in 1 .. n : t[j] = s[j]
  BY <1>3, FeedingIs
<1>5. PICK w \in Nat : w = commandLen /\ w >= 1
  BY Commands3
<1>6. ASSUME NEW v, ArgumentEnds(t, userCommand, v, Len(t)), c = Return13 PROVE FALSE
  <2>1. d = b /\ b \in Nat /\ b <= n
    BY <1>2, <1>3, <1>6, Commands3
  <2>2. v = b + 1
    BY <1>2, <1>6, <2>1, LastArgument
  <2>3. b + 1 + w <= n /\ \A j \in b + 1 + w + 1 .. n : t[j] # Return13
    BY <1>4, <1>5, <1>6, <2>1, <2>2 DEF ArgumentEnds
  <2>4. CommandAt(s, userCommand, b + 1)
    <3>1. PICK x \in Nat : x = b + 1 /\ x >= 1
      BY <2>1
    <3>2. x + commandLen <= Len(s)
      BY <1>3, <1>5, <2>3, <3>1
    <3>3. CommandAt(t, userCommand, x)
      BY <1>6, <2>2, <3>1 DEF ArgumentEnds
    <3> QED BY <1>2, <3>1, <3>2, <3>3, CommandGrows
  <2>5. (\A j \in 1 .. w : s[b + 1 + j - 1] = userCommand[j]) /\ s[b + 1 + w] = Space
    BY <1>5, <2>4 DEF CommandAt
  <2>6. \A j \in 1 .. w : s[b + j] = userCommand[j]
    <3>1. \A j \in 1 .. w : b + 1 + j - 1 = b + j
      BY <2>1
    <3> QED BY <2>5, <3>1
  <2>7. ~ Passed(s, b)
    <3>1. ASSUME NEW j \in b + 1 .. n PROVE s[j] # Return13
      <4>1. CASE j <= b + w
        <5>1. PICK k \in Nat : k = j - b
          BY <2>1
        <5>2. k \in 1 .. w /\ b + k = j
          BY <2>1, <4>1, <5>1
        <5> QED BY <1>5, <2>6, <5>2, Commands3
      <4>2. CASE j = b + 1 + w
        BY <2>5, <4>2, Commands3
      <4>3. CASE j > b + 1 + w
        <5>1. j \in b + 1 + w + 1 .. n /\ j \in 1 .. n
          BY <2>1, <4>3
        <5> QED BY <1>4, <2>3, <5>1
      <4>4. j <= b + w \/ j = b + 1 + w \/ j > b + 1 + w
        BY <2>1
      <4> QED BY <4>1, <4>2, <4>3, <4>4
    <3>2. b + w + 1 = b + 1 + w
      BY <2>1
    <3> QED BY <1>3, <1>5, <2>5, <2>6, <3>1, <3>2 DEF Passed
  <2>8. ~ Fresh(p)
    BY <1>1 DEF Fresh, None, Some
  <2>9. Len(s) # b
    BY <1>3, <1>5, <2>1, <2>3
  <2>10. ASSUME NEW command, InCommand(p, s, b, command) PROVE FALSE
    <3>1. p.Index \in 1 .. w /\ n - p.Index = b
      BY <1>3, <1>5, <2>8, <2>10 DEF InCommand
    <3> QED BY <2>1, <2>3, <3>1
  <2>11. ASSUME NEW content, InContent(p, s, b, passCommand, content) PROVE FALSE
    <3>1. \A j \in 1 .. w : s[b + 1 + j - 1] = passCommand[j]
      BY <1>5, <2>11 DEF InContent, CommandAt
    <3>2. 1 \in 1 .. w
      BY <1>5
    <3> QED BY <2>5, <3>1, <3>2, Commands3
  <2> QED BY <2>7, <2>8, <2>9, <2>10, <2>11 DEF StateKnows
<1>7. ArgumentEnds(t, userCommand, u, e) /\ ArgumentText(t, u, e) = ArgumentText(s, u, e)
  <2>1. PICK command \in {userCommand, passCommand} : command = userCommand
    OBVIOUS
  <2>2. ArgumentEnds(s, command, u, e)
    BY <1>1, <2>1
  <2>3. ArgumentStands(s, t, command, u, e)
    BY <1>2, <2>2, ArgumentStays
  <2> QED BY <2>1, <2>3 DEF ArgumentStands
<1>8. ASSUME NEW v, NEW f, ArgumentEnds(t, userCommand, v, f) PROVE v <= u
  <2>1. ArgumentEnds(s, userCommand, v, f) \/ (f = Len(t) /\ c = Return13)
    BY <1>2, <1>8, ArgumentEndsAnew
  <2> QED BY <1>1, <1>6, <1>8, <2>1
<1> QED BY <1>1, <1>7, <1>8 DEF UserIs
-------------------------------------------------------------------------------
(* The state behind a byte, for each state before it.                      *)
LEMMA InitialFed ==
    ASSUME NEW s, NEW b, NEW c, NEW t, NEW d, Feeding(s, b, c, t, d), NEW p, StateKnows(p, s, b),
           p.State = "INITIAL_STATE", NEW q, FirstByteDoes(p, c, q)
    PROVE  StateKnows(q, t, d)
<1>1. /\ StreamKnows(s, b) /\ c \in Pop3Byte /\ StreamKnows(t, d)
      /\ d = (IF c = Newline THEN Len(t) ELSE b)
  BY FeedingIs
<1>2. PICK n \in Nat : n = Len(s)
  BY FeedingIs
<1>3. Len(t) = n + 1 /\ t[n + 1] = c /\ \A j \in 1 .. n : t[j] = s[j]
  BY <1>2, FeedingIs
<1>4. PICK w \in Nat : w = commandLen /\ w >= 1
  BY Commands3
<1>5. b \in Nat /\ b <= n /\ (b = 0 \/ s[b] = Newline)
  BY <1>1, <1>2 DEF StreamKnows, LastLine
<1>6. p.Index = 0 /\ (n = b \/ Fresh(p))
  BY <1>2 DEF StateKnows
<1>7. q.Index = 1 /\ (Fresh(p) => Fresh(q))
  BY <1>6 DEF FirstByteDoes, SameCredentials, Fresh
<1>8. n = b => c # Newline
  <2>1. SUFFICES ASSUME n = b, c = Newline PROVE FALSE
    OBVIOUS
  <2>2. n + 1 > 1 /\ t[n + 1 - 1] = Return13
    <3>1. EndsWell(t) /\ n + 1 \in 1 .. n + 1
      BY <1>1 DEF StreamKnows
    <3> QED BY <1>3, <2>1, <3>1 DEF EndsWell
  <2>3. n \in 1 .. n /\ n + 1 - 1 = n
    BY <2>2
  <2> QED BY <1>3, <1>5, <2>1, <2>2, <2>3, Commands3
<1>9. ASSUME NEW command \in {userCommand, passCommand}, c = command[1]
      PROVE  InCommand(q, t, d, command)
  <2>1. 1 \in 1 .. w /\ 1 <= n + 1 /\ n + 1 - 1 = n
    BY <1>4
  <2>2. d = b
    BY <1>1, <1>4, <1>9, <2>1, Commands3
  <2>3. \A j \in 1 .. 1 : j = 1 /\ n + j = n + 1
    OBVIOUS
  <2>4. \A j \in 1 .. 1 : t[n + j] = command[j]
    BY <1>3, <1>9, <2>3
  <2>5. Len(t) - q.Index = n
    BY <1>3, <1>7, <2>1
  <2> QED BY <1>3, <1>4, <1>6, <1>7, <2>1, <2>2, <2>4, <2>5 DEF InCommand
<1>10. CASE c = userCommand[1]
  BY <1>6, <1>9, <1>10 DEF FirstByteDoes, StateKnows
<1>11. CASE c # userCommand[1] /\ c = passCommand[1]
  BY <1>6, <1>9, <1>11 DEF FirstByteDoes, StateKnows
<1>12. CASE c # userCommand[1] /\ c # passCommand[1]
  <2>1. Fresh(q) \/ Passed(t, d)
    <3>1. CASE Fresh(p)
      BY <1>7, <3>1
    <3>2. CASE n = b
      <4>1. d = b /\ 1 \in 1 .. w /\ b + 1 <= n + 1 /\ b + 1 = n + 1
        BY <1>1, <1>4, <1>8, <3>2
      <4>2. t[d + 1] # userCommand[1] /\ d + 1 <= Len(t)
        BY <1>3, <1>12, <4>1
      <4> QED BY <1>4, <4>1, <4>2 DEF Passed
    <3> QED BY <1>6, <3>1, <3>2
  <2> QED BY <1>6, <1>12, <2>1 DEF FirstByteDoes, StateKnows
<1> QED BY <1>10, <1>11, <1>12

(* The command of a line goes on by a byte, or is complete.                *)
StaysFresh(p, q) == Fresh(p) => Fresh(q)

NextOfCommand(p, c, q, command) ==
    /\ p.Index < commandLen /\ c = command[p.Index + 1] /\ q.Index = p.Index + 1
    /\ StaysFresh(p, q)

(* With its next byte a command goes on.                                   *)
LEMMA CommandGoesOn ==
    ASSUME NEW s, NEW b, NEW c, NEW t, NEW d, Feeding(s, b, c, t, d),
           NEW command \in {userCommand, passCommand}, NEW p, InCommand(p, s, b, command),
           NEW q, NextOfCommand(p, c, q, command)
    PROVE  InCommand(q, t, d, command)
<1>1. /\ StreamKnows(s, b) /\ c \in Pop3Byte /\ StreamKnows(t, d) /\ b \in Nat
      /\ d = (IF c = Newline THEN Len(t) ELSE b)
  BY FeedingIs
<1>2. PICK n \in Nat : n = Len(s)
  BY FeedingIs
<1>3. Len(t) = n + 1 /\ t[n + 1] = c /\ \A j \in 1 .. n : t[j] = s[j]
  BY <1>2, FeedingIs
<1>4. PICK w \in Nat : w = commandLen /\ w >= 1
  BY Commands3
<1>5. /\ p.Index \in 1 .. w /\ p.Index <= n /\ (n - p.Index = b \/ Fresh(p))
      /\ \A j \in 1 .. p.Index : s[n - p.Index + j] = command[j]
  BY <1>2, <1>4 DEF InCommand
<1>6. PICK x \in Nat : x = p.Index /\ x < w /\ c = command[x + 1] /\ q.Index = x + 1
  BY <1>4, <1>5 DEF NextOfCommand
<1>7. x + 1 \in 1 .. w /\ x + 1 <= n + 1 /\ n + 1 - (x + 1) = n - x /\ x <= n
  BY <1>4, <1>5, <1>6
<1>8. d = b
  BY <1>1, <1>4, <1>6, <1>7, Commands3
<1>9. \A j \in 1 .. x + 1 : t[n + 1 - (x + 1) + j] = command[j]
  <2> SUFFICES ASSUME NEW j \in 1 .. x + 1 PROVE t[n + 1 - (x + 1) + j] = command[j]
    OBVIOUS
  <2>1. PICK f \in Nat : f = n + 1 - (x + 1) + j
    BY <1>7
  <2>2. CASE j = x + 1
    <3>1. f = n + 1
      BY <1>7, <2>1, <2>2
    <3> QED BY <1>3, <1>6, <2>1, <2>2, <3>1
  <2>3. CASE j # x + 1
    <3>1. j \in 1 .. x /\ f \in 1 .. n /\ f = n - x + j
      BY <1>7, <2>1, <2>3
    <3> QED BY <1>3, <1>5, <1>6, <2>1, <3>1
  <2> QED BY <2>2, <2>3
<1>10. Len(t) - q.Index = n - x
  BY <1>3, <1>6, <1>7
<1>11. n - x = d \/ Fresh(q)
  BY <1>5, <1>6, <1>8 DEF StaysFresh, NextOfCommand
<1>12. \A j \in 1 .. q.Index : t[Len(t) - q.Index + j] = command[j]
  <2>1. q.Index = x + 1 /\ Len(t) = n + 1
    BY <1>3, <1>6
  <2>2. PICK y, l : y = q.Index /\ l = Len(t)
    OBVIOUS
  <2>3. y = x + 1 /\ l = n + 1
    BY <2>1, <2>2
  <2>4. \A j \in 1 .. y : t[l - y + j] = command[j]
    <3> SUFFICES ASSUME NEW j \in 1 .. y PROVE t[l - y + j] = command[j]
      OBVIOUS
    <3>1. j \in 1 .. x + 1 /\ l - y + j = n + 1 - (x + 1) + j
      BY <1>7, <2>3
    <3> QED BY <1>9, <3>1
  <2> QED BY <2>2, <2>4
<1>13. q.Index \in 1 .. commandLen /\ q.Index <= Len(t)
  BY <1>3, <1>4, <1>6, <1>7
<1> QED BY <1>10, <1>11, <1>12, <1>13 DEF InCommand

(* With a space behind it, its argument begins.                            *)
LEMMA CommandEnds ==
    ASSUME NEW s, NEW b, NEW c, NEW t, NEW d, Feeding(s, b, c, t, d),
           NEW command \in {userCommand, passCommand}, NEW p, InCommand(p, s, b, command),
           p.Index = commandLen, c = Space,
           NEW q, q.Index = 0
    PROVE  InContent(q, t, d, command, None)
<1>1. c \in Pop3Byte /\ StreamKnows(t, d) /\ d \in Nat
  BY FeedingIs
<1>2. PICK n \in Nat : n = Len(s)
  BY FeedingIs
<1>3. Len(t) = n + 1 /\ t[n + 1] = c /\ \A j \in 1 .. n : t[j] = s[j]
  BY <1>2, FeedingIs
<1>4. PICK w \in Nat : w = commandLen /\ w >= 1
  BY Commands3
<1>5. w <= n /\ \A j \in 1 .. w : s[n - w + j] = command[j]
  BY <1>2, <1>4 DEF InCommand
<1>6. PICK i \in Nat : i = n - w + 1
  BY <1>5
<1>7. i >= 1 /\ i + w = n + 1
  BY <1>5, <1>6
<1>8. \A j \in 1 .. w : t[i + j - 1] = command[j]
  <2> SUFFICES ASSUME NEW j \in 1 .. w PROVE t[i + j - 1] = command[j]
    OBVIOUS
  <2>1. i + j - 1 = n - w + j /\ i + j - 1 \in 1 .. n
    BY <1>5, <1>6
  <2> QED BY <1>3, <1>5, <2>1
<1>9. CommandAt(t, command, i)
  <2>1. i + w <= Len(t) /\ t[i + w] = Space
    BY <1>3, <1>7
  <2> QED BY <1>4, <1>8, <2>1 DEF CommandAt
<1>10. i + commandLen = Len(t)
  BY <1>3, <1>4, <1>7
<1>11. i = d + 1
  BY <1>1, <1>7, <1>9, <1>10, LastCommand
<1>12. d \in Nat
  BY <1>1
<1>13. Len(t) = d + 1 + commandLen
  BY <1>3, <1>4, <1>7, <1>11
<1>14. \A j \in d + commandLen + 2 .. Len(t) : FALSE
  <2>1. d + w + 2 = n + 2
    BY <1>7, <1>11, <1>12
  <2>2. \A j \in n + 2 .. n + 1 : FALSE
    OBVIOUS
  <2> QED BY <1>3, <1>4, <2>1, <2>2
<1> QED BY <1>9, <1>11, <1>13, <1>14 DEF InContent

(* A byte in the word user.                                                *)
LEMMA UserCommandFed ==
    ASSUME NEW s, NEW b, NEW c, NEW t, NEW d, Feeding(s, b, c, t, d), NEW p, StateKnows(p, s, b),
           p.State = "USER_COMMAND", NEW q, UserCommandDoes(p, c, q)
    PROVE  StateKnows(q, t, d)
<1>1. /\ StreamKnows(s, b) /\ c \in Pop3Byte /\ StreamKnows(t, d) /\ b \in Nat
      /\ d = (IF c = Newline THEN Len(t) ELSE b)
  BY FeedingIs
<1>2. PICK n \in Nat : n = Len(s)
  BY FeedingIs
<1>3. Len(t) = n + 1 /\ t[n + 1] = c /\ \A j \in 1 .. n : t[j] = s[j]
  BY <1>2, FeedingIs
<1>4. PICK w \in Nat : w = commandLen /\ w >= 1
  BY Commands3
<1>5. InCommand(p, s, b, userCommand)
  BY DEF StateKnows
<1>6. PICK x \in Nat : x = p.Index /\ x >= 1 /\ x <= w /\ (n - x = b \/ Fresh(p))
  BY <1>2, <1>4, <1>5 DEF InCommand
<1>7. PICK command \in {userCommand, passCommand} : command = userCommand
  OBVIOUS
<1>8. InCommand(p, s, b, command)
  BY <1>5, <1>7
<1>9. SameCredentials(p, q) => StaysFresh(p, q)
  BY DEF SameCredentials, Fresh, StaysFresh
<1>10. CASE p.Index = commandLen /\ c = Space /\ q.Index = 0 /\ q.State = "USER_CONTENT"
            /\ q.User = None
  <2>1. InContent(q, t, d, command, None)
    BY <1>8, <1>10, CommandEnds
  <2> QED BY <1>7, <1>10, <2>1 DEF StateKnows
<1>11. CASE p.Index < commandLen /\ c = userCommand[p.Index + 1] /\ q.Index = p.Index + 1
            /\ q.State = "USER_COMMAND" /\ SameCredentials(p, q)
  <2>1. c = command[p.Index + 1]
    BY <1>7, <1>11
  <2>2. InCommand(q, t, d, command)
    <3>1. StaysFresh(p, q)
      BY <1>9, <1>11
    <3>2. NextOfCommand(p, c, q, command)
      BY <1>11, <2>1, <3>1 DEF NextOfCommand
    <3> QED BY <1>8, <3>2, CommandGoesOn
  <2> QED BY <1>7, <1>11, <2>2 DEF StateKnows
<1>12. CASE /\ p.Index < commandLen => c # userCommand[p.Index + 1]
            /\ p.Index = commandLen => c # Space
            /\ q.Index = 0 /\ q.State = Broken(c) /\ SameCredentials(p, q)
  <2>1. CASE c = Newline
    BY <1>1, <1>12, <2>1 DEF StateKnows, Broken
  <2>2. CASE c # Newline
    <3>1. d = b /\ q.State = "UNKNOWN_COMMAND"
      BY <1>12, <2>2, <1>1 DEF Broken
    <3>2. ASSUME n - x = b PROVE Passed(t, d)
      <4>1. b + x + 1 = n + 1
        BY <1>1, <1>6, <3>2
      <4>2. CASE x < w
        <5>1. PICK y \in Nat : y = x + 1
          OBVIOUS
        <5>2. y \in 1 .. w /\ b + y = n + 1
          BY <1>1, <4>1, <4>2, <5>1
        <5>3. t[b + y] # userCommand[y] /\ b + y <= Len(t)
          BY <1>3, <1>4, <1>6, <1>12, <4>2, <5>1, <5>2
        <5> QED BY <1>4, <3>1, <5>2, <5>3 DEF Passed
      <4>3. CASE x = w
        <5>1. b + w + 1 = n + 1 /\ c # Space
          BY <1>4, <1>6, <1>12, <4>1, <4>3
        <5> QED BY <1>3, <1>4, <3>1, <5>1 DEF Passed
      <4> QED BY <1>6, <4>2, <4>3
    <3> QED BY <1>6, <1>9, <1>12, <3>1, <3>2 DEF StateKnows, StaysFresh
  <2> QED BY <2>1, <2>2
<1> QED BY <1>10, <1>11, <1>12 DEF UserCommandDoes

(* A byte in the word pass.                                                *)
LEMMA PassCommandFed ==
    ASSUME NEW s, NEW b, NEW c, NEW t, NEW d, Feeding(s, b, c, t, d), NEW p, StateKnows(p, s, b),
           p.State = "PASS_COMMAND", NEW q, PassCommandDoes(p, c, q)
    PROVE  StateKnows(q, t, d)
<1>1. /\ StreamKnows(s, b) /\ c \in Pop3Byte /\ StreamKnows(t, d) /\ b \in Nat
      /\ d = (IF c = Newline THEN Len(t) ELSE b)
  BY FeedingIs
<1>2. PICK n \in Nat : n = Len(s)
  BY FeedingIs
<1>3. Len(t) = n + 1 /\ t[n + 1] = c /\ \A j \in 1 .. n : t[j] = s[j]
  BY <1>2, FeedingIs
<1>4. PICK w \in Nat : w = commandLen /\ w >= 1
  BY Commands3
<1>5. InCommand(p, s, b, passCommand)
  BY DEF StateKnows
<1>6. PICK x \in Nat : x = p.Index /\ x >= 1 /\ x <= n /\ (n - x = b \/ Fresh(p))
  BY <1>2, <1>4, <1>5 DEF InCommand
<1>7. PICK command \in {userCommand, passCommand} : command = passCommand
  OBVIOUS
<1>8. InCommand(p, s, b, command)
  BY <1>5, <1>7
<1>9. q.IsPasswordComplete = FALSE /\ q.User = p.User
  BY DEF PassCommandDoes
<1>10. q.Password = p.Password => StaysFresh(p, q)
  BY <1>9 DEF Fresh, StaysFresh
<1>11. CASE p.Index = commandLen /\ c = Space /\ q.Index = 0 /\ q.State = "PASS_CONTENT"
            /\ q.Password = None
  <2>1. InContent(q, t, d, command, None)
    BY <1>8, <1>11, CommandEnds
  <2> QED BY <1>7, <1>9, <1>11, <2>1 DEF StateKnows
<1>12. CASE p.Index < commandLen /\ c = passCommand[p.Index + 1] /\ q.Index = p.Index + 1
            /\ q.State = "PASS_COMMAND" /\ q.Password = p.Password
  <2>1. c = command[p.Index + 1]
    BY <1>7, <1>12
  <2>2. InCommand(q, t, d, command)
    <3>1. StaysFresh(p, q)
      BY <1>10, <1>12
    <3>2. NextOfCommand(p, c, q, command)
      BY <1>12, <2>1, <3>1 DEF NextOfCommand
    <3> QED BY <1>8, <3>2, CommandGoesOn
  <2> QED BY <1>7, <1>12, <2>2 DEF StateKnows
<1>13. CASE q.Index = 0 /\ q.State = Broken(c) /\ q.Password = p.Password
  <2>1. CASE c = Newline
    BY <1>1, <1>13, <2>1 DEF StateKnows, Broken
  <2>2. CASE c # Newline
    <3>1. d = b /\ q.State = "UNKNOWN_COMMAND"
      BY <1>13, <2>2, <1>1 DEF Broken
    <3>2. ASSUME n - x = b PROVE Passed(t, d)
      <4>1. 1 \in 1 .. w /\ 1 \in 1 .. x /\ n - x + 1 = b + 1 /\ b + 1 \in 1 .. n
            /\ b + 1 <= n + 1
        BY <1>1, <1>4, <1>6, <3>2
      <4>2. s[n - p.Index + 1] = passCommand[1]
        BY <1>2, <1>5, <1>6, <4>1 DEF InCommand
      <4>3. t[b + 1] # userCommand[1]
        BY <1>3, <1>6, <4>1, <4>2, Commands3
      <4> QED BY <1>3, <1>4, <3>1, <4>1, <4>3 DEF Passed
    <3> QED BY <1>6, <1>10, <1>13, <3>1, <3>2 DEF StateKnows, StaysFresh
  <2> QED BY <2>1, <2>2
<1> QED BY <1>11, <1>12, <1>13 DEF PassCommandDoes

(* An argument goes on by a byte, or ends with a \r; the \n of its line is *)
(* never read in it.                                                       *)
TextBefore(x) == IF x.set THEN x ELSE Some(<<>>)

ArgumentFed(t, d, command, p, c, q, x, y) ==
    \/ /\ c \notin {Return13, Newline} /\ InContent(q, t, d, command, y) /\ q.State = p.State
    \/ /\ c = Return13 /\ q.State = "UNKNOWN_COMMAND" /\ Passed(t, d)
       /\ ArgumentEnds(t, command, d + 1, Len(t)) /\ y = Some(ArgumentText(t, d + 1, Len(t)))

(* A byte in an argument.                                                  *)
LEMMA ContentFed ==
    ASSUME NEW s, NEW b, NEW c, NEW t, NEW d, Feeding(s, b, c, t, d),
           NEW command \in {userCommand, passCommand}, NEW p, NEW x,
           InContent(p, s, b, command, x), NEW q, NEW y, ContentDoes(p, c, x, y, q)
    PROVE  ArgumentFed(t, d, command, p, c, q, x, y)
<1>1. /\ s \in Seq(Pop3Byte) /\ c \in Pop3Byte /\ t = Append(s, c) /\ StreamKnows(t, d)
      /\ d = (IF c = Newline THEN Len(t) ELSE b)
  BY FeedingIs
<1>2. PICK n \in Nat : n = Len(s) /\ b \in Nat /\ b <= n
  BY FeedingIs
<1>3. Len(t) = n + 1 /\ t[n + 1] = c /\ \A j \in 1 .. n : t[j] = s[j]
  BY <1>2, FeedingIs
<1>4. PICK w \in Nat : w = commandLen /\ w >= 1
  BY Commands3
<1>5. PICK i \in Nat : i = b + 1 /\ i >= 1
  BY <1>2
<1>6. PICK from \in Nat : from = i + w + 1
  BY <1>4, <1>5
<1>7. CommandAt(s, command, i) /\ i + w <= n /\ s[i + w] = Space
  BY <1>2, <1>4, <1>5 DEF InContent, CommandAt
<1>8. \A j \in from .. n : s[j] # Return13
  <2>1. b + w + 2 = from
    BY <1>2, <1>5, <1>6
  <2> QED BY <1>2, <1>4, <2>1 DEF InContent
<1>9. c # Newline
  <2>1. SUFFICES ASSUME c = Newline PROVE FALSE
    OBVIOUS
  <2>2. EndsWell(t) /\ n + 1 \in 1 .. n + 1
    BY <1>1 DEF StreamKnows
  <2>3. t[n + 1 - 1] = Return13
    BY <1>3, <2>1, <2>2 DEF EndsWell
  <2>4. n + 1 - 1 = n /\ n \in 1 .. n /\ (n = i + w \/ n \in from .. n)
    BY <1>5, <1>6, <1>7
  <2>5. s[n] = Return13
    BY <1>3, <2>3, <2>4
  <2> QED BY <1>7, <1>8, <2>4, <2>5, Commands3
<1>10. d = b
  BY <1>1, <1>9
<1>11. CommandAt(t, command, i)
  <2>1. i + commandLen <= Len(s)
    BY <1>2, <1>4, <1>7
  <2> QED BY <1>1, <1>5, <1>7, <2>1, CommandGrows
<1>12. from \in 1 .. n + 1 /\ n \in 0 .. n
  BY <1>5, <1>6, <1>7
<1>13. /\ SubSeq(t, from, n + 1) = Append(SubSeq(s, from, n), c)
       /\ SubSeq(t, from, n) = SubSeq(s, from, n)
  BY <1>1, <1>2, <1>12, Appended
<1>14. TextBefore(x) = Some(SubSeq(s, from, n))
  <2>1. CASE n = i + w
    <3>1. x = None
      <4>1. Len(s) = b + 1 + commandLen
        BY <1>2, <1>4, <1>5, <2>1
      <4> QED BY <4>1 DEF InContent
    <3>2. PICK u : u = SubSeq(s, from, n)
      OBVIOUS
    <3>3. from >= 1 /\ n >= from - 1 /\ n <= n /\ n - from + 1 = 0
      BY <1>6, <2>1
    <3>4. u \in Seq(Pop3Byte) /\ Len(u) = 0
      BY <1>1, <1>2, <3>2, <3>3, Parts DEF PartOf
    <3>5. u = <<>>
      BY <3>4, EmptySeq
    <3> QED BY <3>1, <3>2, <3>5, ContentTypes DEF TextBefore
  <2>2. CASE n # i + w
    <3>1. Len(s) # b + 1 + commandLen /\ b + commandLen + 2 = from
      BY <1>2, <1>4, <1>5, <1>6, <2>2
    <3>2. x = Some(SubSeq(s, from, n))
      BY <1>2, <3>1 DEF InContent
    <3> QED BY <3>2, ContentTypes DEF TextBefore
  <2> QED BY <2>1, <2>2
<1>15. CASE c \in {Return13, Newline}
  <2>1. c = Return13 /\ q.State = "UNKNOWN_COMMAND" /\ y = TextBefore(x)
    BY <1>9, <1>15 DEF ContentDoes, Broken, TextBefore
  <2>2. Passed(t, d)
    <3>1. n + 1 \in d + 1 .. n + 1
      BY <1>2, <1>10
    <3> QED BY <1>3, <2>1, <3>1 DEF Passed
  <2>3. PICK e \in Nat : e = n + 1
    OBVIOUS
  <2>4. Starts(t, i)
    <3>1. LastLine(t, b)
      BY <1>1, <1>10 DEF StreamKnows
    <3>2. i \in 1 .. n + 1 + 1 /\ (i = 1 => b = 0) /\ i - 1 = b
      BY <1>2, <1>5
    <3>3. b = 0 \/ t[b] = Newline
      BY <3>1 DEF LastLine
    <3>4. b = 0 => i = 1
      BY <1>5
    <3> QED BY <1>3, <3>2, <3>3, <3>4 DEF Starts
  <2>5. i + w < e /\ e <= Len(t) /\ t[e] = Return13
    BY <1>3, <1>7, <2>1, <2>3
  <2>6. \A j \in i + w + 1 .. e - 1 : t[j] # Return13
    <3> SUFFICES ASSUME NEW j \in i + w + 1 .. e - 1 PROVE t[j] # Return13
      OBVIOUS
    <3>1. j \in from .. n /\ j \in 1 .. n
      BY <1>6, <2>3
    <3> QED BY <1>3, <1>8, <3>1
  <2>7. ArgumentEnds(t, command, i, e)
    BY <1>4, <1>11, <2>4, <2>5, <2>6 DEF ArgumentEnds
  <2>8. ArgumentText(t, i, e) = SubSeq(s, from, n)
    <3>1. i + commandLen + 1 = from /\ e - 1 = n
      BY <1>4, <1>6, <2>3
    <3> QED BY <1>13, <3>1 DEF ArgumentText
  <2>9. d + 1 = i /\ Len(t) = e
    BY <1>3, <1>5, <1>10, <2>3
  <2> QED BY <1>14, <2>1, <2>2, <2>7, <2>8, <2>9 DEF ArgumentFed
<1>16. CASE c \notin {Return13, Newline}
  <2>1. q.State = p.State /\ q.Index = 0 /\ y = Some(Append(TextBefore(x).text, c))
    BY <1>16 DEF ContentDoes, TextBefore, InContent
  <2>2. TextBefore(x).text = SubSeq(s, from, n)
    BY <1>14, ContentTypes
  <2>3. y = Some(SubSeq(t, from, n + 1))
    BY <1>13, <2>1, <2>2
  <2>4. \A j \in from .. n + 1 : t[j] # Return13
    <3> SUFFICES ASSUME NEW j \in from .. n + 1 PROVE t[j] # Return13
      OBVIOUS
    <3>1. CASE j = n + 1
      BY <1>3, <1>16, <3>1
    <3>2. CASE j # n + 1
      <4>1. j \in from .. n /\ j \in 1 .. n
        BY <1>12, <3>2
      <4> QED BY <1>3, <1>8, <4>1
    <3> QED BY <3>1, <3>2
  <2>5. d + commandLen + 2 = from /\ d + 1 = i /\ Len(t) # d + 1 + commandLen
    BY <1>2, <1>3, <1>4, <1>5, <1>6, <1>7, <1>10
  <2>6. InContent(q, t, d, command, y)
    BY <1>3, <1>11, <2>1, <2>3, <2>4, <2>5 DEF InContent
  <2> QED BY <1>16, <2>1, <2>6 DEF ArgumentFed
<1> QED BY <1>15, <1>16

(* Where the rest of a line is skipped, it is skipped to its end.          *)
LEMMA UnknownFed ==
    ASSUME NEW s, NEW b, NEW c, NEW t, NEW d, Feeding(s, b, c, t, d), NEW p, StateKnows(p, s, b),
           p.State = "UNKNOWN_COMMAND", NEW q, SameCredentials(p, q),
           IF c = Newline THEN q.Index = 0 /\ q.State = "INITIAL_STATE"
           ELSE q.State = "UNKNOWN_COMMAND"
    PROVE  StateKnows(q, t, d)
<1>1. d = (IF c = Newline THEN Len(t) ELSE b)
  BY FeedingIs
<1>2. PICK n \in Nat : n = Len(s) /\ b \in Nat /\ b <= n
  BY FeedingIs
<1>3. Len(t) = n + 1 /\ t[n + 1] = c /\ \A j \in 1 .. n : t[j] = s[j]
  BY <1>2, FeedingIs
<1>4. PICK w \in Nat : w = commandLen /\ w >= 1
  BY Commands3
<1>5. Fresh(p) \/ Passed(s, b)
  BY DEF StateKnows
<1>6. Fresh(p) => Fresh(q)
  BY DEF SameCredentials, Fresh
<1>7. CASE c = Newline
  BY <1>1, <1>7 DEF StateKnows
<1>8. CASE c # Newline
  <2>1. d = b
    BY <1>1, <1>8
  <2>2. ASSUME Passed(s, b) PROVE Passed(t, b)
    <3>1. CASE \E j \in 1 .. w : b + j <= n /\ s[b + j] # userCommand[j]
      <4>1. PICK j \in 1 .. w : b + j <= n /\ s[b + j] # userCommand[j]
        BY <3>1
      <4>2. b + j \in 1 .. n /\ b + j <= n + 1
        BY <1>2, <4>1
      <4> QED BY <1>3, <1>4, <4>1, <4>2 DEF Passed
    <3>2. CASE b + w + 1 <= n /\ s[b + w + 1] # Space
      <4>1. b + w + 1 \in 1 .. n /\ b + w + 1 <= n + 1
        BY <1>2, <3>2
      <4> QED BY <1>3, <1>4, <3>2, <4>1 DEF Passed
    <3>3. CASE \E j \in b + 1 .. n : s[j] = Return13
      <4>1. PICK j \in b + 1 .. n : s[j] = Return13
        BY <3>3
      <4>2. j \in 1 .. n /\ j \in b + 1 .. n + 1
        BY <1>2
      <4> QED BY <1>3, <4>1, <4>2 DEF Passed
    <3> QED BY <1>2, <1>4, <2>2, <3>1, <3>2, <3>3 DEF Passed
  <2> QED BY <1>5, <1>6, <1>8, <2>1, <2>2 DEF StateKnows
<1> QED BY <1>7, <1>8

(* What a byte leaves of the credentials.                                  *)
LEMMA UserKept ==
    ASSUME NEW s, NEW b, NEW c, NEW t, NEW d, Feeding(s, b, c, t, d), NEW p, Pop3Knows(p, s, b),
           p.State # "USER_CONTENT", NEW q, q.User = p.User
    PROVE  q.User = None \/ UserIs(t, q.User)
<1>1. StateKnows(p, s, b) /\ (p.User = None \/ UserIs(s, p.User))
  BY DEF Pop3Knows
<1>2. UserIs(s, p.User) => UserIs(t, p.User)
  <2>1. SUFFICES ASSUME UserIs(s, p.User) PROVE UserIs(t, p.User)
    OBVIOUS
  <2> QED BY <1>1, <2>1, UserStays
<1> QED BY <1>1, <1>2

(* A password that is complete stays so, and what was sent.                *)
LEMMA PasswordKept ==
    ASSUME NEW s, NEW b, NEW c, NEW t, NEW d, Feeding(s, b, c, t, d), NEW p, Pop3Knows(p, s, b),
           NEW q, q.Password = p.Password, q.IsPasswordComplete = p.IsPasswordComplete
    PROVE  q.IsPasswordComplete = FALSE \/ PasswordIs(t, q.Password)
<1>1. s \in Seq(Pop3Byte) /\ c \in Pop3Byte /\ t = Append(s, c)
  BY FeedingIs
<1>2. p.IsPasswordComplete = FALSE \/ PasswordIs(s, p.Password)
  BY DEF Pop3Knows
<1>3. PasswordIs(s, p.Password) => PasswordIs(t, p.Password)
  <2>1. SUFFICES ASSUME PasswordIs(s, p.Password) PROVE PasswordIs(t, p.Password)
    OBVIOUS
  <2>2. PICK x : x = p.Password
    OBVIOUS
  <2>3. PasswordIs(s, x)
    BY <2>1, <2>2
  <2>4. PasswordIs(t, x)
    BY <1>1, <2>3, PasswordStays
  <2> QED BY <2>2, <2>4
<1> QED BY <1>2, <1>3

(* The argument of a USER line that ends makes the last user.              *)
LEMMA UserEnds ==
    ASSUME NEW t, NEW d, StreamKnows(t, d), NEW x,
           ArgumentEnds(t, userCommand, d + 1, Len(t)),
           x = Some(ArgumentText(t, d + 1, Len(t)))
    PROVE  UserIs(t, x)
<1>1. LastLine(t, d) /\ Len(t) \in Nat
  BY LenProperties DEF StreamKnows
<1>2. ASSUME NEW v, NEW f, ArgumentEnds(t, userCommand, v, f) PROVE v <= d + 1
  <2>1. Starts(t, v)
    BY <1>2 DEF ArgumentEnds
  <2> QED BY <1>1, <2>1, StartsBy
<1>3. PICK u, e : u = d + 1 /\ e = Len(t)
  OBVIOUS
<1>4. /\ ArgumentEnds(t, userCommand, u, e) /\ x = Some(ArgumentText(t, u, e))
      /\ \A v, f : ArgumentEnds(t, userCommand, v, f) => v <= u
  BY <1>2, <1>3
<1> QED BY <1>4 DEF UserIs

(* All of it together.                                                     *)
LEMMA Pop3Fed ==
    ASSUME NEW s, NEW b, NEW c, NEW t, NEW d, Feeding(s, b, c, t, d), NEW p, Pop3Knows(p, s, b),
           NEW q, q = FeedPop3AuthParser(p, c)
    PROVE  Pop3Knows(q, t, d)
<1>1. p \in Pop3AuthParser /\ StateKnows(p, s, b)
  BY DEF Pop3Knows
<1>2. c \in Pop3Byte /\ StreamKnows(t, d)
  BY FeedingIs
<1>3. q \in Pop3AuthParser /\ Pop3Does(p, c, q)
  BY <1>1, <1>2, Pop3Step
<1>4. ASSUME q.Password = p.Password, q.IsPasswordComplete = p.IsPasswordComplete
      PROVE  q.IsPasswordComplete = FALSE \/ PasswordIs(t, q.Password)
  BY <1>4, PasswordKept
<1>5. ASSUME q.User = p.User, p.State # "USER_CONTENT"
      PROVE  q.User = None \/ UserIs(t, q.User)
  BY <1>5, UserKept
<1>6. CASE p.State = "INITIAL_STATE"
  <2>1. FirstByteDoes(p, c, q)
    BY <1>3, <1>6 DEF Pop3Does
  <2>2. StateKnows(q, t, d)
    BY <1>1, <1>6, <2>1, InitialFed
  <2>3. SameCredentials(p, q)
    BY <2>1 DEF FirstByteDoes
  <2> QED BY <1>3, <1>4, <1>5, <1>6, <2>2, <2>3 DEF Pop3Knows, SameCredentials
<1>7. CASE p.State = "USER_COMMAND"
  <2>1. UserCommandDoes(p, c, q)
    BY <1>3, <1>7 DEF Pop3Does
  <2>2. StateKnows(q, t, d)
    BY <1>1, <1>7, <2>1, UserCommandFed
  <2>3. q.User = None \/ q.User = p.User
    BY <2>1 DEF UserCommandDoes, SameCredentials
  <2>4. q.Password = p.Password /\ q.IsPasswordComplete = p.IsPasswordComplete
    BY <2>1 DEF UserCommandDoes, SameCredentials
  <2>5. q.User = None \/ UserIs(t, q.User)
    BY <1>5, <1>7, <2>3
  <2>6. q.IsPasswordComplete = FALSE \/ PasswordIs(t, q.Password)
    BY <1>4, <2>4
  <2> QED BY <1>3, <2>2, <2>5, <2>6 DEF Pop3Knows
<1>8. CASE p.State = "PASS_COMMAND"
  <2>1. PassCommandDoes(p, c, q)
    BY <1>3, <1>8 DEF Pop3Does
  <2>2. StateKnows(q, t, d)
    BY <1>1, <1>8, <2>1, PassCommandFed
  <2>3. q.User = p.User /\ q.IsPasswordComplete = FALSE
    BY <2>1 DEF PassCommandDoes
  <2> QED BY <1>3, <1>5, <1>8, <2>2, <2>3 DEF Pop3Knows
<1>9. CASE p.State = "USER_CONTENT"
  <2>1. /\ ContentDoes(p, c, p.User, q.User, q)
        /\ q.Password = p.Password /\ q.IsPasswordComplete = p.IsPasswordComplete
    BY <1>3, <1>9 DEF Pop3Does
  <2>2. PICK command \in {userCommand, passCommand} : command = userCommand
    OBVIOUS
  <2>3. PICK x, y : x = p.User /\ y = q.User
    OBVIOUS
  <2>4. InContent(p, s, b, command, x)
    BY <1>1, <1>9, <2>2, <2>3 DEF StateKnows
  <2>5. ContentDoes(p, c, x, y, q)
    BY <2>1, <2>3
  <2>6. ArgumentFed(t, d, command, p, c, q, x, y)
    BY <2>4, <2>5, ContentFed
  <2>7. q.IsPasswordComplete = FALSE \/ PasswordIs(t, q.Password)
    BY <1>4, <2>1
  <2>8. CASE InContent(q, t, d, command, y) /\ q.State = p.State
    <3>1. StateKnows(q, t, d)
      BY <1>9, <2>2, <2>3, <2>8 DEF StateKnows
    <3> QED BY <1>3, <1>9, <2>7, <2>8, <3>1 DEF Pop3Knows
  <2>9. CASE /\ q.State = "UNKNOWN_COMMAND" /\ Passed(t, d)
             /\ ArgumentEnds(t, command, d + 1, Len(t))
             /\ y = Some(ArgumentText(t, d + 1, Len(t)))
    <3>1. StateKnows(q, t, d)
      BY <2>9 DEF StateKnows
    <3>2. UserIs(t, y)
      BY <1>2, <2>2, <2>9, UserEnds
    <3> QED BY <1>3, <2>3, <2>7, <3>1, <3>2 DEF Pop3Knows
  <2> QED BY <2>6, <2>8, <2>9 DEF ArgumentFed
<1>10. CASE p.State = "PASS_CONTENT"
  <2>1. /\ ContentDoes(p, c, p.Password, q.Password, q) /\ q.User = p.User
        /\ q.IsPasswordComplete = IF c \in {Return13, Newline} THEN TRUE
                                  ELSE p.IsPasswordComplete
    BY <1>3, <1>10 DEF Pop3Does
  <2>2. PICK command \in {userCommand, passCommand} : command = passCommand
    OBVIOUS
  <2>3. PICK x, y : x = p.Password /\ y = q.Password
    OBVIOUS
  <2>4. InContent(p, s, b, command, x) /\ p.IsPasswordComplete = FALSE
    BY <1>1, <1>10, <2>2, <2>3 DEF StateKnows
  <2>5. ContentDoes(p, c, x, y, q)
    BY <2>1, <2>3
  <2>6. ArgumentFed(t, d, command, p, c, q, x, y)
    BY <2>4, <2>5, ContentFed
  <2>7. q.User = None \/ UserIs(t, q.User)
    BY <1>5, <1>10, <2>1
  <2>8. CASE c \notin {Return13, Newline} /\ InContent(q, t, d, command, y) /\ q.State = p.State
    <3>1. q.IsPasswordComplete = FALSE
      BY <2>1, <2>4, <2>8
    <3>2. StateKnows(q, t, d)
      BY <1>10, <2>2, <2>3, <2>8, <3>1 DEF StateKnows
    <3> QED BY <1>3, <2>7, <3>1, <3>2 DEF Pop3Knows
  <2>9. CASE /\ q.State = "UNKNOWN_COMMAND" /\ Passed(t, d)
             /\ ArgumentEnds(t, command, d + 1, Len(t))
             /\ y = Some(ArgumentText(t, d + 1, Len(t)))
    <3>1. StateKnows(q, t, d)
      BY <2>9 DEF StateKnows
    <3>2. PICK i, e : i = d + 1 /\ e = Len(t)
      OBVIOUS
    <3>3. ArgumentEnds(t, passCommand, i, e) /\ y = Some(ArgumentText(t, i, e))
      BY <2>2, <2>9, <3>2
    <3>4. PasswordIs(t, y)
      BY <3>3 DEF PasswordIs
    <3> QED BY <1>3, <2>3, <2>7, <3>1, <3>4 DEF Pop3Knows
  <2> QED BY <2>6, <2>8, <2>9 DEF ArgumentFed
<1>11. CASE p.State = "UNKNOWN_COMMAND"
  <2>1. /\ SameCredentials(p, q)
        /\ IF c = Newline THEN q.Index = 0 /\ q.State = "INITIAL_STATE"
           ELSE q.State = "UNKNOWN_COMMAND"
    BY <1>3, <1>11 DEF Pop3Does
  <2>2. StateKnows(q, t, d)
    BY <1>1, <1>11, <2>1, UnknownFed
  <2> QED BY <1>3, <1>4, <1>5, <1>11, <2>1, <2>2 DEF Pop3Knows, SameCredentials
<1>12. p.State \in Pop3States
  BY <1>1 DEF Pop3AuthParser
<1> QED BY <1>6, <1>7, <1>8, <1>9, <1>10, <1>11, <1>12 DEF Pop3States
-------------------------------------------------------------------------------
(* The arguments of the grammar are those of the positions above.          *)
LEMMA LineStartsAre ==
    ASSUME input \in Seq(Pop3Byte), NEW i
    PROVE  i \in LineStarts <=> Starts(input, i)
<1>1. PICK n \in Nat : n = Len(input)
  BY LenProperties
<1>2. i \in LineStarts <=> i = 1 \/ \E k \in 1 .. n : input[k] = Newline /\ i = k + 1
  BY <1>1 DEF LineStarts, NewlinesIn
<1>3. Starts(input, i) <=> i \in 1 .. n + 1 /\ (i = 1 \/ input[i - 1] = Newline)
  BY <1>1 DEF Starts
<1>4. ASSUME NEW k \in 1 .. n, input[k] = Newline, i = k + 1
      PROVE  i \in 1 .. n + 1 /\ input[i - 1] = Newline
  <2>1. i \in 1 .. n + 1 /\ i - 1 = k
    BY <1>4
  <2> QED BY <1>4, <2>1
<1>5. ASSUME i \in 1 .. n + 1, i # 1, input[i - 1] = Newline
      PROVE  \E k \in 1 .. n : input[k] = Newline /\ i = k + 1
  <2>1. PICK k \in 1 .. n : k = i - 1
    BY <1>5
  <2>2. i = k + 1
    BY <1>5, <2>1
  <2> QED BY <1>5, <2>1, <2>2
<1>6. i = 1 => i \in 1 .. n + 1
  OBVIOUS
<1> QED BY <1>2, <1>3, <1>4, <1>5, <1>6

(* A command at its place, as the grammar says it.                         *)
LEMMA OpensIs ==
    ASSUME input \in Seq(Pop3Byte), NEW command \in {userCommand, passCommand},
           NEW i \in Nat, i >= 1, i + commandLen <= Len(input)
    PROVE  (SubSeq(input, i, i + commandLen) = Append(command, Space))
           <=> CommandAt(input, command, i)
<1>1. PICK n \in Nat : n = Len(input)
  BY LenProperties
<1>2. PICK w \in Nat : w = commandLen /\ w >= 1
  BY Commands3
<1>3. command \in Seq(Pop3Byte) /\ Len(command) = w /\ Space \in Pop3Byte
  BY <1>2, Commands3
<1>4. PICK v : v = Append(command, Space)
  OBVIOUS
<1>5. /\ v \in Seq(Pop3Byte) /\ Len(v) = w + 1 /\ v[w + 1] = Space
      /\ \A j \in 1 .. w : v[j] = command[j]
  <2>1. /\ v \in Seq(Pop3Byte) /\ Len(v) = Len(command) + 1 /\ v[Len(command) + 1] = Space
        /\ \A j \in 1 .. Len(command) : v[j] = command[j]
    BY <1>3, <1>4, Appended
  <2> QED BY <1>3, <2>1
<1>6. PICK y \in Nat, z \in Nat : y = i + w /\ z = w + 1
  OBVIOUS
<1>7. y >= i - 1 /\ y <= n /\ z = Len(v) /\ z = y - i + 1
  BY <1>1, <1>2, <1>5, <1>6
<1>8. (SubSeq(input, i, y) = v) <=> \A j \in 1 .. z : input[i + j - 1] = v[j]
  BY <1>1, <1>5, <1>7, PartIs
<1>9. ASSUME CommandAt(input, command, i) PROVE \A j \in 1 .. z : input[i + j - 1] = v[j]
  <2> SUFFICES ASSUME NEW j \in 1 .. z PROVE input[i + j - 1] = v[j]
    OBVIOUS
  <2>1. CASE j = w + 1
    <3>1. i + j - 1 = i + w
      BY <2>1
    <3> QED BY <1>2, <1>5, <1>9, <2>1, <3>1 DEF CommandAt
  <2>2. CASE j # w + 1
    <3>1. j \in 1 .. w
      BY <1>6, <2>2
    <3> QED BY <1>2, <1>5, <1>9, <3>1 DEF CommandAt
  <2> QED BY <2>1, <2>2
<1>10. ASSUME \A j \in 1 .. z : input[i + j - 1] = v[j] PROVE CommandAt(input, command, i)
  <2>1. \A j \in 1 .. w : j \in 1 .. z
    BY <1>6
  <2>2. \A j \in 1 .. w : input[i + j - 1] = command[j]
    BY <1>5, <1>10, <2>1
  <2>3. w + 1 \in 1 .. z /\ i + (w + 1) - 1 = i + w
    BY <1>6
  <2>4. input[i + w] = Space
    BY <1>5, <1>10, <2>3
  <2>5. i + w <= n
    BY <1>6, <1>7
  <2> QED BY <1>1, <1>2, <2>2, <2>4, <2>5 DEF CommandAt
<1>11. i + commandLen = y
  BY <1>2, <1>6
<1> QED BY <1>4, <1>8, <1>9, <1>10, <1>11

(* The ends an argument could have; the first is the one it has.           *)
FirstPart(command, i, from, S) ==
    IF S # {} /\ SubSeq(input, i, from - 1) = Append(command, Space)
      THEN {SubSeq(input, from, (CHOOSE j \in S : \A k \in S : j <= k) - 1)}
    ELSE {}

(* The argument of the grammar, in these terms.                            *)
LEMMA ArgumentOfParts ==
    ASSUME NEW command, NEW i, NEW from, from = i + commandLen + 1,
           NEW S, S = ReturnsFrom(from)
    PROVE  ArgumentOf(command, i) = FirstPart(command, i, from, S)
BY DEF ArgumentOf, FirstPart

(* Where an argument ends, it is the one of the grammar.                   *)
LEMMA ArgumentOfIs ==
    ASSUME input \in Seq(Pop3Byte), NEW command \in {userCommand, passCommand}, NEW i, NEW e,
           ArgumentEnds(input, command, i, e)
    PROVE  ArgumentOf(command, i) = {ArgumentText(input, i, e)}
<1>1. PICK n \in Nat : n = Len(input)
  BY LenProperties
<1>2. PICK w \in Nat : w = commandLen /\ w >= 1
  BY Commands3
<1>3. /\ i \in Nat /\ i >= 1 /\ e \in Nat /\ i + w < e /\ e <= n /\ input[e] = Return13
      /\ \A j \in i + w + 1 .. e - 1 : input[j] # Return13
      /\ CommandAt(input, command, i)
  BY <1>1, <1>2 DEF ArgumentEnds, Starts
<1>4. PICK x \in Nat : x = i
  BY <1>3
<1>5. x >= 1 /\ x + commandLen <= Len(input) /\ CommandAt(input, command, x)
  BY <1>1, <1>2, <1>3, <1>4
<1>6. SubSeq(input, x, x + commandLen) = Append(command, Space)
  BY <1>5, OpensIs
<1>7. PICK from \in Nat : from = x + commandLen + 1 /\ from = x + w + 1
  BY <1>2
<1>8. PICK S : S = ReturnsFrom(from)
  OBVIOUS
<1>9. \A j : j \in S <=> j \in from .. n /\ input[j] = Return13
  BY <1>1, <1>8 DEF ReturnsFrom
<1>10. e \in S /\ \A j \in S : j \in Nat /\ e <= j
  <2>1. e \in S
    BY <1>3, <1>4, <1>7, <1>9
  <2>2. ASSUME NEW j \in S PROVE j \in Nat /\ e <= j
    <3>1. j \in from .. n /\ input[j] = Return13
      BY <1>9
    <3>2. ~ (j < e)
      <4>1. j < e => j \in i + w + 1 .. e - 1
        BY <1>3, <1>4, <1>7, <3>1
      <4> QED BY <1>3, <3>1, <4>1
    <3> QED BY <1>3, <1>4, <3>1, <3>2
  <2> QED BY <2>1, <2>2
<1>11. PICK m : m = CHOOSE j \in S : \A k \in S : j <= k
  OBVIOUS
<1>12. m \in S /\ \A k \in S : m <= k
  BY <1>10, <1>11
<1>13. m = e
  BY <1>3, <1>10, <1>12
<1>14. ArgumentOf(command, x) = FirstPart(command, x, from, S)
  BY <1>7, <1>8, ArgumentOfParts
<1>15. from - 1 = x + commandLen
  BY <1>2, <1>7
<1>16. FirstPart(command, x, from, S) = {SubSeq(input, from, e - 1)}
  BY <1>6, <1>10, <1>11, <1>13, <1>15, Zenon DEF FirstPart
<1> QED BY <1>4, <1>7, <1>14, <1>16 DEF ArgumentText

(* And the other way round.                                                *)
LEMMA ArgumentIsOf ==
    ASSUME input \in Seq(Pop3Byte), NEW command \in {userCommand, passCommand},
           NEW i, Starts(input, i), NEW x \in ArgumentOf(command, i)
    PROVE  \E e : ArgumentEnds(input, command, i, e) /\ x = ArgumentText(input, i, e)
<1>1. PICK n \in Nat : n = Len(input)
  BY LenProperties
<1>2. PICK w \in Nat : w = commandLen /\ w >= 1
  BY Commands3
<1>3. i \in Nat /\ i >= 1 /\ i <= n + 1
  BY <1>1 DEF Starts
<1>4. PICK a \in Nat : a = i
  BY <1>3
<1>5. PICK from \in Nat : from = a + commandLen + 1 /\ from = a + w + 1
  BY <1>2
<1>6. PICK S : S = ReturnsFrom(from)
  OBVIOUS
<1>7. ArgumentOf(command, a) = FirstPart(command, a, from, S)
  BY <1>5, <1>6, ArgumentOfParts
<1>8. S # {} /\ SubSeq(input, a, from - 1) = Append(command, Space)
  BY <1>4, <1>7, Zenon DEF FirstPart
<1>9. \A j : j \in S <=> j \in from .. n /\ input[j] = Return13
  BY <1>1, <1>6 DEF ReturnsFrom
<1>10. S \subseteq Nat
  BY <1>9
<1>11. PICK m \in S : \A k \in S : m <= k
  BY <1>8, <1>10, LeastNumber
<1>12. m \in from .. n /\ input[m] = Return13
  BY <1>9
<1>13. a >= 1 /\ a + commandLen <= Len(input) /\ from - 1 = a + commandLen
  BY <1>1, <1>2, <1>3, <1>4, <1>5, <1>12
<1>14. CommandAt(input, command, a)
  BY <1>8, <1>13, OpensIs
<1>15. \A j \in a + w + 1 .. m - 1 : input[j] # Return13
  <2> SUFFICES ASSUME NEW j \in a + w + 1 .. m - 1, input[j] = Return13 PROVE FALSE
    OBVIOUS
  <2>1. j \in from .. n /\ j < m
    BY <1>5, <1>12
  <2>2. j \in S
    BY <1>9, <2>1
  <2> QED BY <1>11, <1>12, <2>1, <2>2
<1>16. m \in Nat /\ a + w < m /\ m <= n
  BY <1>5, <1>12
<1>17. ArgumentEnds(input, command, a, m)
  BY <1>1, <1>2, <1>4, <1>12, <1>14, <1>15, <1>16 DEF ArgumentEnds
<1>18. ArgumentOf(command, a) = {ArgumentText(input, a, m)}
  BY <1>17, ArgumentOfIs
<1> QED BY <1>4, <1>17, <1>18

(* A USER line that has begun when the stream ends with a PASS line begins *)
(* before that.                                                            *)
LEMMA UserBefore ==
    ASSUME NEW s \in Seq(Pop3Byte), EndsWell(s), NEW i, NEW e,
           ArgumentEnds(s, passCommand, i, e), Len(s) <= e + 1,
           NEW u, Starts(s, u), CommandAt(s, userCommand, u)
    PROVE  u < i
<1>1. PICK n \in Nat : n = Len(s)
  BY LenProperties
<1>2. PICK w \in Nat : w = commandLen /\ w >= 1
  BY Commands3
<1>3. i \in Nat /\ i >= 1 /\ e \in Nat /\ \A j \in i .. e : s[j] # Newline
  BY ArgumentInLine
<1>4. \A j \in 1 .. w : s[i + j - 1] = passCommand[j]
  BY <1>2 DEF ArgumentEnds, CommandAt
<1>5. u \in 1 .. n + 1 /\ (u = 1 \/ s[u - 1] = Newline)
  BY <1>1 DEF Starts
<1>6. u + w <= n /\ \A j \in 1 .. w : s[u + j - 1] = userCommand[j]
  BY <1>1, <1>2 DEF CommandAt
<1>7. u # i
  <2>1. 1 \in 1 .. w
    BY <1>2
  <2> QED BY <1>4, <1>6, <2>1, Commands3
<1>8. ~ (u > i)
  <2>1. SUFFICES ASSUME u > i PROVE FALSE
    OBVIOUS
  <2>2. u # 1 /\ s[u - 1] = Newline
    BY <1>3, <1>5, <2>1
  <2>3. u - 1 \in i .. e
    BY <1>1, <1>2, <1>3, <1>5, <1>6, <2>1
  <2> QED BY <1>3, <2>2, <2>3
<1> QED BY <1>3, <1>5, <1>7, <1>8
-------------------------------------------------------------------------------
(* So what the parser reports belongs together.                            *)
PassLines(pass) == {i \in LineStarts : pass \in ArgumentOf(passCommand, i)}

LastUserBefore(user, i) ==
    \E u \in LineStarts :
        /\ u < i /\ user.text \in ArgumentOf(userCommand, u)
        /\ \A v \in LineStarts : u < v /\ v < i => ArgumentOf(userCommand, v) = {}

Belong(user, pass) ==
    /\ PassLines(pass) # {}
    /\ user.set => \A i \in PassLines(pass) :
           Len(input) <= i + commandLen + Len(pass) + 2 => LastUserBefore(user, i)

(* The property, in these terms.                                           *)
LEMMA BelongTogether ==
    CredentialsBelongTogether <=> \A pair \in found : Belong(pair[1], pair[2].text)
BY Zenon DEF CredentialsBelongTogether, Belong, LastUserBefore, PassLines

(* It is about what was sent only.                                         *)
LEMMA BelongStays ==
    ASSUME input' = input, NEW user, NEW pass, Belong(user, pass)
    PROVE  Belong(user, pass)'
<1>1. LineStarts' = LineStarts
  BY DEF LineStarts, NewlinesIn
<1>2. ASSUME NEW command, NEW i PROVE ArgumentOf(command, i)' = ArgumentOf(command, i)
  <2>1. PICK from : from = i + commandLen + 1
    OBVIOUS
  <2>2. PICK S : S = ReturnsFrom(from)
    OBVIOUS
  <2>3. S = ReturnsFrom(from)'
    BY <2>2 DEF ReturnsFrom
  <2>4. ArgumentOf(command, i) = FirstPart(command, i, from, S)
    BY <2>1, <2>2, ArgumentOfParts
  <2>5. ArgumentOf(command, i)' = FirstPart(command, i, from, S)'
    BY <2>1, <2>3 DEF ArgumentOf, FirstPart
  <2>6. FirstPart(command, i, from, S)' = FirstPart(command, i, from, S)
    BY DEF FirstPart
  <2> QED BY <2>4, <2>5, <2>6
<1>3. \A i : i \in PassLines(pass)' <=> i \in PassLines(pass)
  BY <1>1, <1>2 DEF PassLines
<1>4. ASSUME NEW i, LastUserBefore(user, i) PROVE LastUserBefore(user, i)'
  BY <1>1, <1>2, <1>4 DEF LastUserBefore
<1> QED BY <1>3, <1>4 DEF Belong

(* A complete password and the user beside it satisfy it.                  *)
LEMMA ReportBelongs ==
    ASSUME NEW b, StreamKnows(input, b), NEW p, Pop3Knows(p, input, b),
           p.IsPasswordComplete = TRUE
    PROVE  Belong(p.User, p.Password.text)
<1>1. input \in Seq(Pop3Byte) /\ EndsWell(input) /\ LastLine(input, b)
  BY DEF StreamKnows
<1>2. PICK n \in Nat : n = Len(input)
  BY <1>1, LenProperties
<1>3. PICK w \in Nat : w = commandLen /\ w >= 1
  BY Commands3
<1>4. PICK user : user = p.User
  OBVIOUS
<1>5. PICK pass : pass = p.Password.text
  OBVIOUS
<1>6. StateKnows(p, input, b) /\ PasswordIs(input, p.Password)
      /\ (p.State = "USER_CONTENT" \/ p.User = None \/ UserIs(input, p.User))
  BY DEF Pop3Knows
<1>7. PICK uc \in {userCommand, passCommand}, pc \in {userCommand, passCommand} :
         uc = userCommand /\ pc = passCommand
  OBVIOUS
<1>8. PassLines(pass) # {}
  <2>1. PICK i, e : /\ ArgumentEnds(input, passCommand, i, e)
                    /\ p.Password = Some(ArgumentText(input, i, e))
    BY <1>6 DEF PasswordIs
  <2>2. pass = ArgumentText(input, i, e)
    BY <1>5, <2>1, ContentTypes
  <2>3. ArgumentEnds(input, pc, i, e)
    BY <1>7, <2>1
  <2>4. ArgumentOf(pc, i) = {ArgumentText(input, i, e)}
    BY <1>1, <2>3, ArgumentOfIs
  <2>5. Starts(input, i)
    BY <2>1 DEF ArgumentEnds
  <2>6. i \in LineStarts
    BY <1>1, <2>5, LineStartsAre
  <2> QED BY <1>7, <2>2, <2>4, <2>6 DEF PassLines
<1>9. ASSUME user.set, NEW i \in PassLines(pass), n <= i + w + Len(pass) + 2
      PROVE  LastUserBefore(user, i)
  <2>1. i \in LineStarts /\ pass \in ArgumentOf(pc, i)
    BY <1>7 DEF PassLines
  <2>2. Starts(input, i)
    BY <1>1, <2>1, LineStartsAre
  <2>3. PICK e : ArgumentEnds(input, pc, i, e) /\ pass = ArgumentText(input, i, e)
    BY <1>1, <2>1, <2>2, ArgumentIsOf
  <2>4. i \in Nat /\ i >= 1 /\ e \in Nat /\ i + w < e /\ e <= n
    BY <1>2, <1>3, <2>3 DEF ArgumentEnds, Starts
  <2>5. n <= e + 1
    <3>1. PICK x \in Nat, y \in Nat : x = i + w + 1 /\ y = e - 1
      BY <2>4
    <3>2. x >= 1 /\ y >= x - 1 /\ y <= n
      BY <2>4, <3>1
    <3>3. pass = SubSeq(input, x, y)
      BY <1>3, <2>3, <3>1 DEF ArgumentText
    <3>4. Len(pass) = y - x + 1
      BY <1>1, <1>2, <3>2, <3>3, Parts DEF PartOf
    <3> QED BY <1>9, <2>4, <3>1, <3>4
  <2>6. ArgumentEnds(input, passCommand, i, e) /\ Len(input) <= e + 1
    BY <1>2, <1>7, <2>3, <2>5
  <2>7. ASSUME NEW u, Starts(input, u), CommandAt(input, userCommand, u) PROVE u < i
    BY <1>1, <2>6, <2>7, UserBefore
  <2>8. p.State # "USER_CONTENT"
    <3>1. SUFFICES ASSUME p.State = "USER_CONTENT" PROVE FALSE
      OBVIOUS
    <3>2. CommandAt(input, userCommand, b + 1)
      BY <1>6, <3>1 DEF StateKnows, InContent
    <3>3. b \in Nat /\ b <= n /\ (b = 0 \/ input[b] = Newline)
      BY <1>1, <1>2 DEF LastLine
    <3>4. Starts(input, b + 1)
      <4>1. b + 1 \in 1 .. n + 1 /\ b + 1 - 1 = b /\ (b = 0 => b + 1 = 1)
        BY <3>3
      <4> QED BY <1>2, <3>3, <4>1 DEF Starts
    <3>5. b + 1 < i
      BY <2>7, <3>2, <3>4
    <3>6. i <= b + 1
      BY <1>1, <1>2, <2>2, StartsBy
    <3> QED BY <2>4, <3>3, <3>5, <3>6
  <2>9. UserIs(input, user)
    <3>1. user # None
      BY <1>9, ContentTypes
    <3> QED BY <1>4, <1>6, <2>8, <3>1
  <2>10. PICK u, f : /\ ArgumentEnds(input, userCommand, u, f)
                     /\ user = Some(ArgumentText(input, u, f))
                     /\ \A v, g : ArgumentEnds(input, userCommand, v, g) => v <= u
    BY <2>9 DEF UserIs
  <2>11. u < i
    <3>1. Starts(input, u) /\ CommandAt(input, userCommand, u)
      BY <2>10 DEF ArgumentEnds
    <3> QED BY <2>7, <3>1
  <2>12. u \in LineStarts
    <3>1. Starts(input, u)
      BY <2>10 DEF ArgumentEnds
    <3> QED BY <1>1, <3>1, LineStartsAre
  <2>13. user.text \in ArgumentOf(userCommand, u)
    <3>1. ArgumentEnds(input, uc, u, f)
      BY <1>7, <2>10
    <3>2. ArgumentOf(uc, u) = {ArgumentText(input, u, f)}
      BY <1>1, <3>1, ArgumentOfIs
    <3> QED BY <1>7, <2>10, <3>2, ContentTypes
  <2>14. ASSUME NEW v \in LineStarts, u < v PROVE ArgumentOf(userCommand, v) = {}
    <3>1. SUFFICES ASSUME NEW x \in ArgumentOf(uc, v) PROVE FALSE
      BY <1>7
    <3>2. Starts(input, v)
      BY <1>1, LineStartsAre
    <3>3. PICK g : ArgumentEnds(input, uc, v, g)
      BY <1>1, <3>1, <3>2, ArgumentIsOf
    <3>4. v <= u
      BY <1>7, <2>10, <3>3
    <3>5. v \in Nat /\ u \in Nat
      <4>1. Starts(input, u)
        BY <2>10 DEF ArgumentEnds
      <4> QED BY <1>2, <3>2, <4>1 DEF Starts
    <3> QED BY <2>14, <3>4, <3>5
  <2> QED BY <2>11, <2>12, <2>13, <2>14 DEF LastUserBefore
<1>10. Belong(user, pass)
  BY <1>2, <1>3, <1>8, <1>9 DEF Belong
<1> QED BY <1>4, <1>5, <1>10
-------------------------------------------------------------------------------
(* The invariant.                                                          *)
Pop3Invariant ==
    kind = "pop3" => \E b : StreamKnows(input, b) /\ Pop3Knows(parser, input, b)

(* A parser that was reset knows nothing, wherever in a line it is.        *)
LEMMA ResetKnows ==
    ASSUME NEW s, NEW b
    PROVE  Pop3Knows(ResetPop3AuthParser, s, b)
<1>1. PICK no \in BOOLEAN, zero \in Nat, none \in Content3, st \in Pop3States :
         no = FALSE /\ zero = 0 /\ none = None /\ st = "INITIAL_STATE"
  BY ContentTypes DEF Pop3States
<1>2. PICK p : p = ResetPop3AuthParser
  OBVIOUS
<1>3. p = ParserOf(st, zero, none, none, no)
  BY <1>1, <1>2 DEF ResetPop3AuthParser, ParserOf
<1>4. /\ p \in Pop3AuthParser /\ p.State = st /\ p.Index = zero /\ p.User = none
      /\ p.Password = none /\ p.IsPasswordComplete = no
  BY <1>3, ParserFields
<1> QED BY <1>1, <1>2, <1>4 DEF Pop3Knows, StateKnows, Fresh

(* The empty stream is one of whole lines.                                 *)
LEMMA EmptyStreamKnows == StreamKnows(<<>>, 0)
<1>1. <<>> \in Seq(Pop3Byte) /\ Len(<<>>) = 0
  OBVIOUS
<1>2. PICK s : s = <<>>
  OBVIOUS
<1>3. s \in Seq(Pop3Byte) /\ Len(s) = 0
  BY <1>1, <1>2
<1>4. \A j \in 1 .. 0 : FALSE
  OBVIOUS
<1>5. EndsWell(s)
  BY <1>3, <1>4 DEF EndsWell
<1>6. LastLine(s, 0)
  <2>1. \A j \in 0 + 1 .. 0 : FALSE
    OBVIOUS
  <2> QED BY <1>3, <2>1 DEF LastLine
<1>7. PartOfLine(s, 0)
  BY <1>3 DEF PartOfLine
<1>8. CommandsStart(s, userCommand) /\ CommandsStart(s, passCommand)
  BY <1>3, <1>4 DEF CommandsStart
<1> QED BY <1>2, <1>3, <1>5, <1>6, <1>7, <1>8 DEF StreamKnows

(* The first state.                                                        *)
LEMMA Pop3InvariantInit == Init => Pop3Invariant /\ CredentialsBelongTogether
<1> SUFFICES ASSUME Init PROVE Pop3Invariant /\ CredentialsBelongTogether
  OBVIOUS
<1>1. input = <<>> /\ found = {} /\ parser = InitialParser[kind]
  BY DEF Init
<1>2. CredentialsBelongTogether
  BY <1>1, BelongTogether
<1>3. ASSUME kind = "pop3" PROVE \E b : StreamKnows(input, b) /\ Pop3Knows(parser, input, b)
  <2>1. parser = ResetPop3AuthParser
    BY <1>1, <1>3 DEF InitialParser
  <2>2. StreamKnows(input, 0)
    BY <1>1, EmptyStreamKnows
  <2>3. Pop3Knows(parser, input, 0)
    BY <2>1, ResetKnows
  <2> QED BY <2>2, <2>3
<1> QED BY <1>2, <1>3 DEF Pop3Invariant

(* A byte of the client keeps the invariant.                               *)
LEMMA Pop3ByteFed ==
    ASSUME Pop3Invariant, FeedPop3
    PROVE  Pop3Invariant'
<1>1. kind = "pop3" /\ kind' = kind
  BY DEF FeedPop3, Fed
<1>2. PICK b : StreamKnows(input, b) /\ Pop3Knows(parser, input, b)
  BY <1>1 DEF Pop3Invariant
<1>3. PICK c \in NextInLine : input' = Append(input, c) /\ parser' = FeedPop3AuthParser(parser, c)
  BY DEF FeedPop3, Fed
<1>4. input \in Seq(Pop3Byte) /\ LastLine(input, b)
  BY <1>2 DEF StreamKnows
<1>5. PICK m \in Pop3Lines : NextOf(input, b, c, m)
  BY <1>4, NextInLineIs
<1>6. PICK s, t, p, q : /\ s = input /\ t = Append(s, c) /\ p = parser
                        /\ q = FeedPop3AuthParser(p, c)
  OBVIOUS
<1>7. PICK d : d = LineFrom(b, c, t)
  OBVIOUS
<1>8. StreamKnows(s, b) /\ Pop3Knows(p, s, b) /\ NextOf(s, b, c, m)
  BY <1>2, <1>5, <1>6
<1>9. t = Append(s, c)
  BY <1>6
<1>10. StreamKnows(t, d) /\ c \in Pop3Byte
  BY <1>7, <1>8, <1>9, StreamGrows DEF LineFrom
<1>11. Feeding(s, b, c, t, d)
  BY <1>7, <1>8, <1>9, <1>10 DEF Feeding
<1>12. q = FeedPop3AuthParser(p, c)
  BY <1>6
<1>13. Pop3Knows(q, t, d)
  BY <1>8, <1>11, <1>12, Pop3Fed
<1>14. input' = t /\ parser' = q
  BY <1>3, <1>6
<1>15. StreamKnows(input', d) /\ Pop3Knows(parser', input', d)
  BY <1>10, <1>13, <1>14
<1> QED BY <1>15 DEF Pop3Invariant

(* So does the end of a chunk, and what it reports belongs together.       *)
LEMMA ChunkReported ==
    ASSUME Pop3Invariant, EndChunk
    PROVE  Pop3Invariant' /\ CredentialsBelongTogether'
<1>1. kind = "pop3" /\ kind' = kind /\ input' = input
  BY DEF EndChunk
<1>2. PICK b : StreamKnows(input, b) /\ Pop3Knows(parser, input, b)
  BY <1>1 DEF Pop3Invariant
<1>3. /\ parser.IsPasswordComplete => parser' = ResetPop3AuthParser
                                      /\ found' = {<<parser.User, parser.Password>>}
      /\ ~ parser.IsPasswordComplete => parser' = parser /\ found' = {}
  BY DEF EndChunk, ScanForPOP3Passwords
<1>4. parser.IsPasswordComplete \in BOOLEAN
  BY <1>2 DEF Pop3Knows, Pop3AuthParser
<1>5. Pop3Knows(parser', input', b) /\ StreamKnows(input', b)
  BY <1>1, <1>2, <1>3, ResetKnows
<1>6. Pop3Invariant'
  BY <1>5 DEF Pop3Invariant
<1>7. \A pair \in found' : Belong(pair[1], pair[2].text)
  <2>1. CASE parser.IsPasswordComplete = TRUE
    <3>1. Belong(parser.User, parser.Password.text)
      BY <1>2, <2>1, ReportBelongs
    <3>2. \A pair \in found' : pair[1] = parser.User /\ pair[2] = parser.Password
      BY <1>3, <2>1
    <3> QED BY <3>1, <3>2
  <2>2. CASE parser.IsPasswordComplete = FALSE
    BY <1>3, <2>2
  <2> QED BY <1>4, <2>1, <2>2
<1>8. CredentialsBelongTogether'
  <2>1. ASSUME NEW user, NEW pass, Belong(user, pass) PROVE Belong(user, pass)'
    BY <1>1, <2>1, BelongStays
  <2>2. \A pair \in found' : Belong(pair[1], pair[2].text)'
    BY <1>7, <2>1
  <2> QED BY <2>2, Zenon DEF CredentialsBelongTogether, Belong, LastUserBefore, PassLines
<1> QED BY <1>6, <1>8

(* After any stream of POP3 lines, cut in chunks anywhere, the dissector   *)
(* knows whether it is in a command, in an argument or past them, and the  *)
(* user it holds is the one of the last USER line.                         *)
THEOREM Pop3InvariantHolds == Spec => [](Pop3Invariant /\ CredentialsBelongTogether)
<1> DEFINE Inv == Pop3Invariant /\ CredentialsBelongTogether
<1>1. Init => Inv
  BY Pop3InvariantInit
<1>2. Inv /\ [Next]_vars => Inv'
  <2> SUFFICES ASSUME Inv, [Next]_vars PROVE Inv'
    OBVIOUS
  <2>1. ASSUME kind # "pop3", kind' = kind, found' = {} PROVE Inv'
    <3>1. CredentialsBelongTogether'
      BY <2>1 DEF CredentialsBelongTogether
    <3> QED BY <2>1, <3>1 DEF Pop3Invariant
  <2>2. CASE \E c \in LuluByte : FeedLulu(c)
    <3>1. kind = "lulu" /\ kind' = kind /\ found' = {}
      BY <2>2 DEF FeedLulu, Fed
    <3> QED BY <2>1, <3>1
  <2>3. CASE \E c \in Octet : FeedHello(c) \/ FeedAuth(c) \/ FeedRequest(c)
    <3>1. kind \in {"hello", "auth", "request"} /\ kind' = kind /\ found' = {}
      BY <2>3 DEF FeedHello, FeedAuth, FeedRequest, Fed
    <3> QED BY <2>1, <3>1
  <2>4. CASE FeedPop3
    <3>1. found' = {}
      BY <2>4 DEF FeedPop3, Fed
    <3>2. CredentialsBelongTogether'
      BY <3>1 DEF CredentialsBelongTogether
    <3> QED BY <2>4, <3>2, Pop3ByteFed
  <2>5. CASE EndChunk
    BY <2>5, ChunkReported
  <2>6. CASE UNCHANGED vars
    <3>1. kind' = kind /\ input' = input /\ parser' = parser /\ found' = found
      BY <2>6 DEF vars
    <3>2. \A pair \in found : Belong(pair[1], pair[2].text)'
      BY <3>1, BelongTogether, BelongStays
    <3>3. CredentialsBelongTogether'
      BY <3>1, <3>2, Zenon DEF CredentialsBelongTogether, Belong, LastUserBefore, PassLines
    <3> QED BY <3>1, <3>3 DEF Pop3Invariant
  <2> QED BY <2>2, <2>3, <2>4, <2>5, <2>6 DEF Next
<1> QED BY <1>1, <1>2, PTL DEF Spec

(* What the dissector reports is the argument of a PASS line, and when the *)
(* chunk ends with that line the user is the one of the last USER line     *)
(* before it: for lines of any length and any cuts between chunks.         *)
THEOREM CredentialsAreOfOneLogin == Spec => []CredentialsBelongTogether
BY Pop3InvariantHolds, PTL
===============================================================================
