-------------------------- MODULE LuluDialogueProofs --------------------------
(***************************************************************************)
(* lulu_client and its session stay in step, only administrators get past  *)
(* HELLO, and a session is not lost while its client talks to it.          *)
(*                                                                         *)
(* The argument follows the bytes.  Way is all that is on its way to a     *)
(* parser, from the buffer of the client to ReadBuffer, and ToRead all     *)
(* that is on its way back.  A read moves a byte inside Way, a write moves *)
(* one inside ToRead, so that cuts do not matter to the invariant: of the  *)
(* two at most one is not empty, and the way holds one line.  HelloParsed  *)
(* says where the parser of HELLO stands in that line; of the others it is *)
(* enough that they finish at a \n only, which is the last byte of the way,*)
(* and that GOODBYE, tried first, does not take a line with a |.           *)
(***************************************************************************)
EXTENDS LuluDialogue, SequenceTheorems, WellFoundedInduction, TLAPS

(* What the members of a parser are, whatever it has read.                 *)
Shape(p) == /\ DOMAIN p = {"state", "at", "prev", "value", "name", "pass"}
            /\ p.prev \in {"First", "Name", "Password"} /\ p.value \in Nat

(* What a byte may do to a parser: it ends well at a \n only, and takes no *)
(* value that is too large.                                                *)
Steps(p, c, q) ==
    /\ Shape(q)
    /\ q.state = "Finished" => p.state = "Finished" \/ c = LF
    /\ q.value = p.value \/ q.state = "Invalid" \/ q.value <= MaxValue

(* A parser at its start has that shape.                                   *)
LEMMA ResetShape == Shape(LuluReset)
  BY DEF Shape, LuluReset

(* Another state keeps the rest of a parser.                               *)
LEMMA ToSteps ==
    ASSUME NEW p, Shape(p), NEW state, NEW c, state = "Finished" => c = LF
    PROVE  /\ Steps(p, c, To(p, state))
           /\ To(p, state).state = state
  BY DEF Shape, Steps, To

(* So does a failure.                                                      *)
LEMMA InvalidSteps ==
    ASSUME NEW p, Shape(p), NEW c
    PROVE  Steps(p, c, Invalid(p)) /\ Invalid(p).state = "Invalid"
  BY ToSteps DEF Invalid

(* A byte that is passed over changes nothing.                             *)
LEMMA SameSteps == ASSUME NEW p, Shape(p), NEW c PROVE Steps(p, c, p)
  BY DEF Steps

(* A letter of a word that is expected.                                    *)
LEMMA TraverseSteps ==
    ASSUME NEW p, Shape(p), NEW c, NEW word, NEW end, NEW next, next # "Finished"
    PROVE  Steps(p, c, Traverse(p, c, word, end, next))
  BY DEF Shape, Steps, To, Traverse, Invalid

(* The \n that ends a line.                                                *)
LEMMA LineFeedSteps ==
    ASSUME NEW p, Shape(p), NEW c
    PROVE  Steps(p, c, LineFeed(p, c))
  BY DEF Shape, Steps, To, LineFeed

(* A digit of a number, as long as the number is not too large.            *)
LEMMA NextDigitSteps ==
    ASSUME NEW p, Shape(p), NEW c \in Digit
    PROVE  Steps(p, c, NextDigit(p, c))
<1>1. PICK v \in Nat : v = p.value * 10 + DigitValue[c]
  <2>1. DigitValue[c] \in 0 .. 9
    BY LuluParsersAssumption DEF Digit
  <2>2. p.value \in Nat
    BY DEF Shape
  <2> QED BY <2>1, <2>2
<1>2. PICK s : s = IF v > MaxValue THEN "Invalid" ELSE p.state
  OBVIOUS
<1>3. NextDigit(p, c) = [p EXCEPT !.value = v, !.state = s]
  BY <1>1, <1>2 DEF NextDigit
<1>4. s = "Finished" => p.state = "Finished"
  BY <1>2
<1>5. s = "Invalid" \/ v <= MaxValue
  BY <1>2, LuluParsersAssumption
<1> QED BY <1>1, <1>3, <1>4, <1>5 DEF Shape, Steps

(* A byte of a name or of a password, and the end of the array.            *)
LEMMA StoreSteps ==
    ASSUME NEW p, Shape(p), NEW c, NEW field, NEW s
    PROVE  Steps(p, c, Store(p, field, s))
  BY DEF Shape, Steps, To, Store

(* The same for a state that keeps storing.                                *)
LEMMA StoreLater ==
    ASSUME NEW p, Shape(p), NEW c, NEW field, NEW s, NEW state, state # "Finished"
    PROVE  /\ Steps(p, c, Store(To(p, state), field, s))
           /\ Steps(p, c, To(Store(p, field, s), state))
  BY DEF Shape, Steps, To, Store

(* The commands of two words and a number or nothing.                      *)
LEMMA TwoWordsSteps ==
    ASSUME NEW p, Shape(p), NEW c, NEW first, NEW second
    PROVE  Steps(p, c, TwoWords(p, c, first, second))
<1>1. CASE p.state = "First"
  BY <1>1, TraverseSteps DEF TwoWords
<1>2. CASE p.state = "Second"
  BY <1>2, TraverseSteps DEF TwoWords
<1>3. CASE p.state = "CRLF"
  BY <1>3, LineFeedSteps DEF TwoWords
<1>4. CASE p.state \notin {"First", "Second", "CRLF"}
  <2>1. TwoWords(p, c, first, second) = p
    BY <1>4, Zenon DEF TwoWords
  <2> QED BY <2>1, SameSteps
<1> QED BY <1>1, <1>2, <1>3, <1>4

(* GOODBYE.                                                                *)
LEMMA GoodbyeSteps ==
    ASSUME NEW p, Shape(p), NEW c
    PROVE  Steps(p, c, GoodbyeFeed(p, c))
<1>1. CASE p.state = "First"
  BY <1>1, TraverseSteps DEF GoodbyeFeed
<1>2. CASE p.state = "CRLF"
  BY <1>2, LineFeedSteps DEF GoodbyeFeed
<1>3. CASE p.state \notin {"First", "CRLF"}
  <2>1. GoodbyeFeed(p, c) = p
    BY <1>3, Zenon DEF GoodbyeFeed
  <2> QED BY <2>1, SameSteps
<1> QED BY <1>1, <1>2, <1>3

(* SET|TIMEOUT and SET|BUFFERSIZE.                                         *)
LEMMA SetValueSteps ==
    ASSUME NEW p, Shape(p), NEW c, NEW second
    PROVE  Steps(p, c, SetValue(p, c, second))
<1>1. CASE p.state = "First"
  BY <1>1, TraverseSteps DEF SetValue
<1>2. CASE p.state = "Second"
  BY <1>2, TraverseSteps DEF SetValue
<1>3. CASE p.state = "Value"
  BY <1>3, NextDigitSteps, ToSteps DEF SetValue
<1>4. CASE p.state = "CRLF"
  BY <1>4, LineFeedSteps DEF SetValue
<1>5. CASE p.state \notin {"First", "Second", "Value", "CRLF"}
  <2>1. SetValue(p, c, second) = p
    BY <1>5, Zenon DEF SetValue
  <2> QED BY <2>1, SameSteps
<1> QED BY <1>1, <1>2, <1>3, <1>4, <1>5

(* A byte inside a name or a password.                                     *)
LEMMA ContentSteps ==
    ASSUME NEW p, Shape(p), NEW c, NEW field
    PROVE  Steps(p, c, Content(p, c, field))
  BY InvalidSteps, StoreSteps DEF Content

(* The \r of a line.                                                       *)
LEMMA ReturnSteps ==
    ASSUME NEW p, Shape(p), NEW c, NEW field \in {"Name", "Password"}
    PROVE  Steps(p, c, Return(p, field))
  BY DEF Shape, Steps, Return

(* The states in which names and passwords are read.                       *)
LEMMA NameOrPasswordSteps ==
    ASSUME NEW p, Shape(p), NEW c, NEW field \in {"Name", "Password"}
    PROVE  Steps(p, c, NameOrPassword(p, c, field))
<1>1. CASE c = Bar
  <2>1. Steps(p, c, To(p, "Password")) /\ Steps(p, c, Invalid(p))
    BY ToSteps, InvalidSteps
  <2>2. NameOrPassword(p, c, field) \in {To(p, "Password"), Invalid(p)}
    <3>1. Bar # CR
      BY DEF Bar, CR
    <3>2. NameOrPassword(p, c, field) = IF field = "Name" /\ p.name # <<>> THEN To(p, "Password")
                                        ELSE Invalid(p)
      BY <1>1, <3>1, Zenon DEF NameOrPassword
    <3> QED BY <3>2
  <2> QED BY <2>1, <2>2
<1>2. CASE c = CR
  BY <1>2, ReturnSteps DEF NameOrPassword, Bar, CR
<1>3. CASE c \notin {Bar, CR}
  <2>1. NameOrPassword(p, c, field) = Content(p, c, field)
    BY <1>3, Zenon DEF NameOrPassword
  <2> QED BY <2>1, ContentSteps
<1> QED BY <1>1, <1>2, <1>3

(* A | where HELLO and SET|USER await the \n.                              *)
LEMMA BarAfterReturnSteps ==
    ASSUME NEW p, Shape(p), NEW c
    PROVE  Steps(p, c, BarAfterReturn(p))
  BY InvalidSteps, StoreLater DEF BarAfterReturn

(* A byte after the \r.                                                    *)
LEMMA AfterReturnSteps ==
    ASSUME NEW p, Shape(p), NEW c, NEW full
    PROVE  Steps(p, c, AfterReturn(p, c, full))
<1>1. LF # CR /\ LF # Bar /\ CR # Bar
  BY DEF LF, CR, Bar
<1>2. CASE c = LF
  <2>1. Steps(p, c, To(p, "Finished")) /\ Steps(p, c, Invalid(p))
    BY <1>2, ToSteps, InvalidSteps
  <2>2. AfterReturn(p, c, full) = EndOfLine(p)
    BY <1>2, <1>1, Zenon DEF AfterReturn
  <2>3. EndOfLine(p) \in {To(p, "Finished"), Invalid(p)}
    BY DEF EndOfLine
  <2> QED BY <2>1, <2>2, <2>3
<1>3. CASE c = CR
  <2>1. AfterReturn(p, c, full) = IF Full(p, p.prev) THEN Invalid(p)
                                  ELSE Store(p, p.prev, <<CR>>)
    BY <1>3, <1>1, Zenon DEF AfterReturn
  <2> QED BY <2>1, StoreSteps, InvalidSteps
<1>4. CASE c = Bar
  BY <1>4, BarAfterReturnSteps DEF AfterReturn, LF, CR, Bar
<1>5. CASE c \notin {LF, CR, Bar}
  <2>1. AfterReturn(p, c, full) = IF full THEN Invalid(p)
                                  ELSE Store(To(p, p.prev), p.prev, <<CR, c>>)
    BY <1>5, Zenon DEF AfterReturn
  <2> QED BY <2>1, StoreLater, InvalidSteps DEF Shape
<1> QED BY <1>2, <1>3, <1>4, <1>5

(* HELLO.                                                                  *)
LEMMA HelloSteps ==
    ASSUME NEW p, Shape(p), NEW c
    PROVE  Steps(p, c, HelloFeed(p, c))
<1>1. CASE p.state = "First"
  BY <1>1, TraverseSteps DEF HelloFeed
<1>2. CASE p.state \in {"Name", "Password"}
  BY <1>2, NameOrPasswordSteps DEF HelloFeed
<1>3. CASE p.state = "CRLF"
  BY <1>3, AfterReturnSteps DEF HelloFeed
<1>4. CASE p.state \notin {"First", "Name", "Password", "CRLF"}
  <2>1. HelloFeed(p, c) = p
    BY <1>4, Zenon DEF HelloFeed
  <2> QED BY <2>1, SameSteps
<1> QED BY <1>1, <1>2, <1>3, <1>4

(* SET|USER.                                                               *)
LEMMA SetUserSteps ==
    ASSUME NEW p, Shape(p), NEW c
    PROVE  Steps(p, c, SetUserFeed(p, c))
<1>1. CASE p.state = "First"
  BY <1>1, TraverseSteps DEF SetUserFeed
<1>2. CASE p.state = "Second"
  BY <1>2, TraverseSteps DEF SetUserFeed
<1>3. CASE p.state \in {"Name", "Password"}
  BY <1>3, NameOrPasswordSteps DEF SetUserFeed
<1>4. CASE p.state = "CRLF"
  BY <1>4, AfterReturnSteps DEF SetUserFeed
<1>5. CASE p.state \notin {"First", "Second", "Name", "Password", "CRLF"}
  <2>1. SetUserFeed(p, c) = p
    BY <1>5, Zenon DEF SetUserFeed
  <2> QED BY <2>1, SameSteps
<1> QED BY <1>1, <1>2, <1>3, <1>4, <1>5

(* DEL|USER.                                                               *)
LEMMA DelUserSteps ==
    ASSUME NEW p, Shape(p), NEW c
    PROVE  Steps(p, c, DelUserFeed(p, c))
<1>1. CASE p.state = "First"
  BY <1>1, TraverseSteps DEF DelUserFeed
<1>2. CASE p.state = "Second"
  BY <1>2, TraverseSteps DEF DelUserFeed
<1>3. CASE p.state = "Name"
  <2>1. Steps(p, c, Return(p, "Name")) /\ Steps(p, c, Content(p, c, "Name"))
        /\ Steps(p, c, Invalid(p))
    BY ReturnSteps, ContentSteps, InvalidSteps
  <2>2. DelUserFeed(p, c) \in {Return(p, "Name"), Content(p, c, "Name"), Invalid(p)}
    <3>1. DelUserFeed(p, c) = (CASE c = Bar -> Invalid(p)
                                 [] c = CR  -> Return(p, "Name")
                                 [] OTHER   -> Content(p, c, "Name"))
      BY <1>3 DEF DelUserFeed
    <3>2. CASE c = Bar
      BY <3>1, <3>2 DEF Bar, CR
    <3>3. CASE c = CR
      BY <3>1, <3>3 DEF Bar, CR
    <3>4. CASE c \notin {Bar, CR}
      BY <3>1, <3>4, Zenon
    <3> QED BY <3>2, <3>3, <3>4
  <2> QED BY <2>1, <2>2
<1>4. CASE p.state = "CRLF"
  <2>1. c = LF => Steps(p, c, To(p, "Finished"))
    BY ToSteps
  <2>2. Steps(p, c, Invalid(p)) /\ Steps(p, c, Store(p, "Name", <<CR>>))
        /\ Steps(p, c, Store(To(p, "Name"), "Name", <<CR, c>>))
        /\ To(p, "Invalid") = Invalid(p)
    BY InvalidSteps, StoreSteps, StoreLater DEF Invalid
  <2>3. DelUserFeed(p, c) =
           (CASE c = LF  -> To(p, IF p.name = <<>> THEN "Invalid" ELSE "Finished")
              [] c = Bar -> Invalid(p)
              [] c = CR  -> IF Full(p, "Name") THEN Invalid(p) ELSE Store(p, "Name", <<CR>>)
              [] OTHER   -> IF Len(p.name) = MaxLong THEN Invalid(p)
                            ELSE Store(To(p, "Name"), "Name", <<CR, c>>))
    BY <1>4, Zenon DEF DelUserFeed
  <2>4. CASE c = LF
    BY <2>1, <2>2, <2>3, <2>4 DEF LF, Bar, CR
  <2>5. CASE c = Bar
    BY <2>2, <2>3, <2>5 DEF LF, Bar, CR
  <2>6. CASE c = CR
    BY <2>2, <2>3, <2>6 DEF LF, Bar, CR
  <2>7. CASE c \notin {LF, Bar, CR}
    <3>1. DelUserFeed(p, c) = IF Len(p.name) = MaxLong THEN Invalid(p)
                              ELSE Store(To(p, "Name"), "Name", <<CR, c>>)
      BY <2>3, <2>7, Zenon
    <3> QED BY <2>2, <3>1
  <2> QED BY <2>4, <2>5, <2>6, <2>7
<1>5. CASE p.state \notin {"First", "Second", "Name", "CRLF"}
  <2>1. DelUserFeed(p, c) = p
    BY <1>5, Zenon DEF DelUserFeed
  <2> QED BY <2>1, SameSteps
<1> QED BY <1>1, <1>2, <1>3, <1>4, <1>5

(* One byte in every parser: the shape stays, and only a \n finishes.      *)
LEMMA FeedSteps ==
    ASSUME NEW k \in Command, NEW p, Shape(p), NEW c
    PROVE  Steps(p, c, Feed(k, p, c))
<1>1. CASE k = "HELLO"
  BY <1>1, HelloSteps DEF Feed
<1>2. CASE k = "GOODBYE"
  BY <1>2, GoodbyeSteps DEF Feed
<1>3. CASE k = "SET BUFFERSIZE"
  BY <1>3, SetValueSteps DEF Feed, SetBufferSizeFeed
<1>4. CASE k = "METRICS"
  BY <1>4, TwoWordsSteps DEF Feed, MetricsFeed
<1>5. CASE k = "GET BUFFERSIZE"
  BY <1>5, TwoWordsSteps DEF Feed, GetBufferSizeFeed
<1>6. CASE k = "SET TIMEOUT"
  BY <1>6, SetValueSteps DEF Feed, TimeoutFeed
<1>7. CASE k = "SET USER"
  BY <1>7, SetUserSteps DEF Feed
<1>8. CASE k = "LIST USERS"
  BY <1>8, TwoWordsSteps DEF Feed, ListUsersFeed
<1>9. CASE k = "DEL USER"
  BY <1>9, DelUserSteps DEF Feed
<1>10. CASE k = "GET TIMEOUT"
  BY <1>10, TwoWordsSteps DEF Feed, GetTimeoutFeed
<1> QED BY <1>1, <1>2, <1>3, <1>4, <1>5, <1>6, <1>7, <1>8, <1>9, <1>10 DEF Command

(* Of the natural numbers with a property there is a least one.            *)
LEMMA LeastNumber ==
    ASSUME NEW S, S \subseteq Nat, S # {}
    PROVE  \E m \in S : \A x \in S : m <= x
<1> DEFINE Less == {ss \in Nat \X Nat : ss[1] < ss[2]}
<1>1. Less = OpToRel(<, Nat)
  BY Zenon DEF OpToRel
<1>2. IsWellFoundedOn(Less, Nat)
  BY <1>1, NatLessThanWellFounded
<1>3. PICK m \in S : \A x \in S : ~ (<<x, m>> \in Less)
  BY <1>2, WFMin
<1>4. \A x, y \in Nat : ~ (<<x, y>> \in Less) => y <= x
  OBVIOUS
<1> HIDE DEF Less
<1> QED BY <1>3, <1>4

(* What holds of 0 and passes on from each i holds up to n.                *)
LEMMA UpTo ==
    ASSUME NEW A, NEW n \in Nat, 0 \in A,
           \A i \in 0 .. n - 1 : i \in A => i + 1 \in A
    PROVE  0 .. n \subseteq A
<1> DEFINE S == {x \in 0 .. n : x \notin A}
<1>1. SUFFICES ASSUME S # {} PROVE FALSE
  OBVIOUS
<1>2. PICK m \in S : \A x \in S : m <= x
  <2>1. S \subseteq Nat
    OBVIOUS
  <2> HIDE DEF S
  <2> QED BY <1>1, <2>1, LeastNumber
<1>3. m # 0 /\ m \in 0 .. n /\ m \notin A
  OBVIOUS
<1>4. m - 1 \in 0 .. n - 1 /\ (m - 1) + 1 = m
  BY <1>3
<1>5. m - 1 \notin S
  BY <1>2, <1>3
<1>6. m - 1 \in A
  BY <1>4, <1>5
<1> QED BY <1>3, <1>4, <1>6

(* f is what a parser p of command k is after each byte of a chunk.        *)
NextParser(k, q, c) == IF HasFinished(q) THEN q ELSE Feed(k, q, c)
(* f is the row of parsers that the first n bytes of chunk lead to.        *)
IsFed(f, k, p, chunk, n) ==
    f = [i \in 0 .. n |-> IF i = 0 THEN p ELSE NextParser(k, f[i - 1], chunk[i])]

(* There is such a row, for every chunk.                                   *)
LEMMA FedExists ==
    ASSUME NEW k, NEW p, NEW chunk, NEW n \in Nat
    PROVE  \E f : IsFed(f, k, p, chunk, n)
<1> DEFINE A == {m \in 0 .. n : \E f : IsFed(f, k, p, chunk, m)}
<1>1. 0 \in A
  <2> DEFINE f == [i \in 0 .. 0 |-> p]
  <2>1. IsFed(f, k, p, chunk, 0)
    BY DEF IsFed
  <2> QED BY <2>1
<1>2. ASSUME NEW m \in 0 .. n - 1, m \in A PROVE m + 1 \in A
  <2>1. PICK f : IsFed(f, k, p, chunk, m)
    BY <1>2
  <2>2. m \in Nat /\ m + 1 \in 0 .. n
    OBVIOUS
  <2> DEFINE g == [i \in 0 .. m + 1 |-> IF i <= m THEN f[i] ELSE NextParser(k, f[m], chunk[m + 1])]
  <2>3. \A i \in 0 .. m + 1 : g[i] = IF i = 0 THEN p ELSE NextParser(k, g[i - 1], chunk[i])
    <3> TAKE i \in 0 .. m + 1
    <3>1. CASE i = 0
      <4>1. f[0] = p
        BY <2>1, <2>2 DEF IsFed
      <4> QED BY <3>1, <4>1, <2>2
    <3>2. CASE i # 0 /\ i <= m
      <4>1. f[i] = NextParser(k, f[i - 1], chunk[i])
        BY <2>1, <2>2, <3>2, i \in 0 .. m DEF IsFed
      <4>2. g[i] = f[i] /\ g[i - 1] = f[i - 1]
        BY <2>2, <3>2
      <4> QED BY <3>2, <4>1, <4>2
    <3>3. CASE i = m + 1
      <4>1. g[i] = NextParser(k, f[m], chunk[m + 1]) /\ g[i - 1] = f[m] /\ i # 0
        BY <2>2, <3>3
      <4> QED BY <3>3, <4>1
    <3> QED BY <2>2, <3>1, <3>2, <3>3
  <2>4. IsFed(g, k, p, chunk, m + 1)
    <3>1. g = [i \in 0 .. m + 1 |-> g[i]]
      OBVIOUS
    <3> HIDE DEF g
    <3> QED BY <2>3, <3>1 DEF IsFed
  <2> QED BY <2>2, <2>4
<1>3. \A i \in 0 .. n - 1 : i \in A => i + 1 \in A
  BY <1>2
<1> HIDE DEF A
<1>4. n \in A
  BY <1>1, <1>3, UpTo
<1> QED BY <1>4 DEF A

(* Consume is the last of the row.                                         *)
LEMMA ConsumeIs ==
    ASSUME NEW k, NEW p, NEW chunk, NEW n \in Nat, n = Len(chunk)
    PROVE  \E f : /\ f[0] = p /\ Consume(k, p, chunk) = f[n]
                  /\ \A i \in 1 .. n : f[i] = NextParser(k, f[i - 1], chunk[i])
<1> DEFINE f == CHOOSE f : IsFed(f, k, p, chunk, n)
<1>1. Consume(k, p, chunk) = f[n]
  BY Zenon DEF Consume, IsFed, NextParser
<1>2. IsFed(f, k, p, chunk, n)
  BY FedExists
<1> HIDE DEF f
<1>3. f[0] = p
  BY <1>2 DEF IsFed
<1>4. \A i \in 1 .. n : f[i] = NextParser(k, f[i - 1], chunk[i])
  <2> TAKE i \in 1 .. n
  <2>1. i \in 0 .. n /\ i # 0
    OBVIOUS
  <2> QED BY <1>2, <2>1 DEF IsFed
<1> QED BY <1>1, <1>3, <1>4

(* No \n but at the end.                                                   *)
LfLast(s) == \A i \in 1 .. Len(s) : s[i] = LF => i = Len(s)
(* b occurs in s.                                                          *)
HasByte(s, b) == \E i \in 1 .. Len(s) : s[i] = b

(* Every parser of the row has the shape.                                  *)
LEMMA FedShapes ==
    ASSUME NEW k \in Command, NEW n \in Nat, NEW f, NEW chunk, Shape(f[0]),
           \A i \in 1 .. n : f[i] = NextParser(k, f[i - 1], chunk[i])
    PROVE  \A i \in 0 .. n : Shape(f[i])
<1> DEFINE A == {i \in 0 .. n : Shape(f[i])}
<1>1. 0 \in A
  OBVIOUS
<1>2. ASSUME NEW i \in 0 .. n - 1, i \in A PROVE i + 1 \in A
  <2>1. i + 1 \in 1 .. n /\ (i + 1) - 1 = i /\ i + 1 \in 0 .. n
    OBVIOUS
  <2>2. f[i + 1] = NextParser(k, f[i], chunk[i + 1])
    BY <2>1
  <2>3. Shape(f[i])
    BY <1>2
  <2>4. Shape(NextParser(k, f[i], chunk[i + 1]))
    BY <2>3, FeedSteps DEF NextParser, Steps
  <2> QED BY <2>1, <2>2, <2>4
<1>3. \A i \in 0 .. n - 1 : i \in A => i + 1 \in A
  BY <1>2
<1> HIDE DEF A
<1>4. 0 .. n \subseteq A
  BY <1>1, <1>3, UpTo
<1> QED BY <1>4 DEF A

(* A parser that ends well does so at a \n.                                *)
LEMMA FinishesAtLf ==
    ASSUME NEW k \in Command, NEW p, Shape(p), NEW chunk, NEW n \in Nat, n = Len(chunk),
           p.state # "Finished", Consume(k, p, chunk).state = "Finished"
    PROVE  HasByte(chunk, LF)
<1>1. PICK f : /\ f[0] = p /\ Consume(k, p, chunk) = f[n]
               /\ \A i \in 1 .. n : f[i] = NextParser(k, f[i - 1], chunk[i])
  BY ConsumeIs
<1>2. \A i \in 0 .. n : Shape(f[i])
  BY <1>1, FedShapes
<1> DEFINE A == {i \in 0 .. n : f[i].state # "Finished"}
<1>3. SUFFICES ASSUME ~HasByte(chunk, LF) PROVE FALSE
  OBVIOUS
<1>4. 0 \in A
  BY <1>1
<1>5. ASSUME NEW i \in 0 .. n - 1, i \in A PROVE i + 1 \in A
  <2>1. i + 1 \in 1 .. n /\ (i + 1) - 1 = i /\ i + 1 \in 0 .. n
    OBVIOUS
  <2>2. f[i + 1] = NextParser(k, f[i], chunk[i + 1])
    BY <1>1, <2>1
  <2>3. Shape(f[i]) /\ f[i].state # "Finished"
    BY <1>2, <1>5
  <2>4. chunk[i + 1] # LF
    BY <1>3, <2>1 DEF HasByte
  <2>5. NextParser(k, f[i], chunk[i + 1]).state # "Finished"
    BY <2>3, <2>4, FeedSteps DEF NextParser, Steps
  <2> QED BY <2>1, <2>2, <2>5
<1>6. \A i \in 0 .. n - 1 : i \in A => i + 1 \in A
  BY <1>5
<1> HIDE DEF A
<1>7. n \in A
  <2>1. 0 .. n \subseteq A
    BY <1>4, <1>6, UpTo
  <2> QED BY <2>1
<1> QED BY <1>1, <1>7 DEF A

(* A parser that has not failed holds a value that is not too large.       *)
LEMMA ValueKept ==
    ASSUME NEW k \in Command, NEW p, Shape(p), NEW chunk, NEW n \in Nat, n = Len(chunk),
           p.value <= MaxValue, Consume(k, p, chunk).state # "Invalid"
    PROVE  Consume(k, p, chunk).value <= MaxValue
<1>1. PICK f : /\ f[0] = p /\ Consume(k, p, chunk) = f[n]
               /\ \A i \in 1 .. n : f[i] = NextParser(k, f[i - 1], chunk[i])
  BY ConsumeIs
<1>2. \A i \in 0 .. n : Shape(f[i])
  BY <1>1, FedShapes
<1> DEFINE A == {i \in 0 .. n : f[i].state = "Invalid" \/ f[i].value <= MaxValue}
<1>3. 0 \in A
  BY <1>1
<1>4. ASSUME NEW i \in 0 .. n - 1, i \in A PROVE i + 1 \in A
  <2>1. i + 1 \in 1 .. n /\ (i + 1) - 1 = i /\ i + 1 \in 0 .. n
    OBVIOUS
  <2>2. f[i + 1] = NextParser(k, f[i], chunk[i + 1])
    BY <1>1, <2>1
  <2>3. Shape(f[i]) /\ (f[i].state = "Invalid" \/ f[i].value <= MaxValue)
    BY <1>2, <1>4
  <2>4. \/ NextParser(k, f[i], chunk[i + 1]).state = "Invalid"
        \/ NextParser(k, f[i], chunk[i + 1]).value <= MaxValue
    BY <2>3, FeedSteps DEF NextParser, Steps, HasFinished
  <2> QED BY <2>1, <2>2, <2>4
<1>5. \A i \in 0 .. n - 1 : i \in A => i + 1 \in A
  BY <1>4
<1> HIDE DEF A
<1>6. n \in A
  <2>1. 0 .. n \subseteq A
    BY <1>3, <1>5, UpTo
  <2> QED BY <2>1
<1> QED BY <1>1, <1>6 DEF A

(* What Consume returns has the shape.                                     *)
LEMMA ConsumeShape ==
    ASSUME NEW k \in Command, NEW p, Shape(p), NEW chunk, NEW n \in Nat, n = Len(chunk)
    PROVE  Shape(Consume(k, p, chunk))
<1>1. PICK f : /\ f[0] = p /\ Consume(k, p, chunk) = f[n]
               /\ \A i \in 1 .. n : f[i] = NextParser(k, f[i - 1], chunk[i])
  BY ConsumeIs
<1>2. \A i \in 0 .. n : Shape(f[i])
  BY <1>1, FedShapes
<1> QED BY <1>1, <1>2

-------------------------------------------------------------------------------
(* GOODBYE has no | and starts with a letter.                              *)

(* GOODBYE has read letters only, and is not at its end.                   *)
Reads(p) ==
    /\ Shape(p)
    /\ p.state \in {"First", "CRLF"}
    /\ p.state = "First" => p.at \in 0 .. Len(Word["GOODBYE"])

(* Words are letters, and not empty.                                       *)
LEMMA WordsAre ==
    ASSUME NEW w \in Words
    PROVE  /\ Len(Word[w]) \in Nat \ {0}
           /\ \A i \in 1 .. Len(Word[w]) : Word[w][i] \in Letter \ {Bar, CR, LF}
<1>1. Word[w] \in Seq(Letter) /\ Word[w] # <<>>
  BY LuluParsersAssumption DEF LuluParsersAssumption
<1>2. Bar \notin Letter /\ CR \notin Letter /\ LF \notin Letter
  BY LuluParsersAssumption DEF LuluParsersAssumption
<1> QED BY <1>1, <1>2

(* One byte in the parser of GOODBYE: a | or a \n is never read on.        *)
LEMMA GoodbyeByte ==
    ASSUME NEW p, Reads(p), NEW c
    PROVE  LET q == Feed("GOODBYE", p, c) IN
           /\ Reads(q) \/ q.state \in {"Finished", "Invalid"}
           /\ Shape(q)
           /\ c = Bar => q.state = "Invalid"
           /\ c = LF => q.state \in {"Finished", "Invalid"}
           /\ p = LuluReset /\ c \in {CR, LF} => q.state = "Invalid"
<1> DEFINE w == Word["GOODBYE"]
<1>1. Len(w) \in Nat \ {0} /\ \A i \in 1 .. Len(w) : w[i] \notin {Bar, CR, LF}
  BY WordsAre DEF Words
<1>2. CR # LF /\ CR # Bar /\ LF # Bar
  BY DEF CR, LF, Bar
<1>3. Feed("GOODBYE", p, c) = GoodbyeFeed(p, c)
  BY DEF Feed
<1>4. p = LuluReset => p.state = "First" /\ p.at = 0
  BY DEF LuluReset
<1>5. CASE p.state = "First"
  <2>1. GoodbyeFeed(p, c) = Traverse(p, c, "GOODBYE", CR, "CRLF")
    BY <1>5 DEF GoodbyeFeed
  <2>2. p.at \in 0 .. Len(w)
    BY <1>5 DEF Reads
  <2>3. CASE p.at = Len(w) /\ c = CR
    <3>1. GoodbyeFeed(p, c) = [p EXCEPT !.state = "CRLF", !.at = 0]
      BY <2>1, <2>3 DEF Traverse
    <3>2. c # LF /\ c # Bar
      BY <1>2, <2>3
    <3>3. p # LuluReset
      BY <1>1, <1>4, <2>3
    <3>4. Reads(GoodbyeFeed(p, c)) /\ Shape(GoodbyeFeed(p, c))
      BY <3>1 DEF Reads, Shape
    <3> QED BY <1>3, <3>2, <3>3, <3>4
  <2>4. CASE p.at # Len(w) /\ c = w[p.at + 1]
    <3>1. GoodbyeFeed(p, c) = [p EXCEPT !.at = p.at + 1]
      BY <2>1, <2>4 DEF Traverse
    <3>2. p.at + 1 \in 1 .. Len(w)
      BY <1>1, <2>2, <2>4
    <3>3. c \notin {Bar, CR, LF}
      BY <1>1, <2>4, <3>2
    <3> QED BY <1>3, <1>5, <3>1, <3>2, <3>3 DEF Reads, Shape
  <2>5. CASE ~(p.at = Len(w) /\ c = CR) /\ ~(p.at # Len(w) /\ c = w[p.at + 1])
    <3>1. GoodbyeFeed(p, c) = Invalid(p)
      BY <2>1, <2>5 DEF Traverse
    <3> QED BY <1>3, <3>1, InvalidSteps DEF Reads, Steps
  <2> QED BY <2>3, <2>4, <2>5
<1>6. CASE p.state = "CRLF"
  <2>1. GoodbyeFeed(p, c) = To(p, IF c = LF THEN "Finished" ELSE "Invalid")
    BY <1>6 DEF GoodbyeFeed, LineFeed
  <2> QED BY <1>2, <1>3, <1>4, <1>6, <2>1 DEF Reads, Shape, To
<1> QED BY <1>5, <1>6 DEF Reads

(* As long as it does not fail on a chunk whose only \n is its last byte,  *)
(* the chunk has no |.                                                     *)
LEMMA GoodbyeChunk ==
    ASSUME NEW p, Reads(p), NEW chunk, NEW n \in Nat, n = Len(chunk), LfLast(chunk),
           Consume("GOODBYE", p, chunk).state # "Invalid"
    PROVE  /\ ~HasByte(chunk, Bar)
           /\ \/ Reads(Consume("GOODBYE", p, chunk))
              \/ Consume("GOODBYE", p, chunk).state = "Finished"
           /\ p = LuluReset /\ n > 0 => chunk[1] \notin {CR, LF}
<1>1. PICK f : /\ f[0] = p /\ Consume("GOODBYE", p, chunk) = f[n]
               /\ \A i \in 1 .. n : f[i] = NextParser("GOODBYE", f[i - 1], chunk[i])
  BY ONLY ConsumeIs, n \in Nat, n = Len(chunk)
<1> DEFINE Good(i) == /\ \A j \in 1 .. i : chunk[j] # Bar
                      /\ i > 0 /\ p = LuluReset => chunk[1] \notin {CR, LF}
                      /\ Reads(f[i]) \/ (f[i].state = "Finished" /\ i = n)
           A == {i \in 0 .. n : Good(i) \/ f[i].state = "Invalid"}
<1>2. 0 \in A
  BY <1>1
<1>3. ASSUME NEW i \in 0 .. n - 1, i \in A PROVE i + 1 \in A
  <2>1. i + 1 \in 1 .. n /\ (i + 1) - 1 = i /\ i + 1 \in 0 .. n
    OBVIOUS
  <2>2. f[i + 1] = NextParser("GOODBYE", f[i], chunk[i + 1])
    BY <1>1, <2>1
  <2>3. CASE f[i].state = "Invalid"
    <3>1. f[i + 1] = f[i]
      BY <2>2, <2>3 DEF NextParser, HasFinished
    <3> QED BY <2>1, <2>3, <3>1
  <2>4. CASE f[i].state # "Invalid"
    <3>1. Good(i) /\ i # n
      BY <1>3, <2>4
    <3>2. Reads(f[i])
      BY <3>1
    <3>3. f[i + 1] = Feed("GOODBYE", f[i], chunk[i + 1])
      BY <2>2, <3>2 DEF NextParser, HasFinished, Reads
    <3>4. chunk[i + 1] = LF => i + 1 = n
      BY <2>1 DEF LfLast
    <3> DEFINE q == Feed("GOODBYE", f[i], chunk[i + 1])
    <3>5. /\ Reads(q) \/ q.state \in {"Finished", "Invalid"}
          /\ chunk[i + 1] = Bar => q.state = "Invalid"
          /\ f[i] = LuluReset /\ chunk[i + 1] \in {CR, LF} => q.state = "Invalid"
      BY <3>2, GoodbyeByte
    <3>6. q.state = "Finished" => chunk[i + 1] = LF
      BY <3>2, FeedSteps DEF Steps, Reads, Command
    <3>7. i = 0 => f[i] = p
      BY <1>1
    <3> HIDE DEF q
    <3>8. CASE q.state = "Invalid"
      BY <2>1, <3>3, <3>8 DEF q
    <3>9. CASE q.state # "Invalid"
      <4>1. chunk[i + 1] # Bar /\ (i = 0 /\ p = LuluReset => chunk[1] \notin {CR, LF})
        BY <3>5, <3>7, <3>9
      <4>2. \A j \in 1 .. i + 1 : chunk[j] # Bar
        BY <3>1, <4>1
      <4>3. i > 0 /\ p = LuluReset => chunk[1] \notin {CR, LF}
        BY <3>1
      <4>4. Reads(q) \/ (q.state = "Finished" /\ i + 1 = n)
        BY <3>4, <3>5, <3>6, <3>9
      <4>5. Good(i + 1)
        BY <3>3, <4>1, <4>2, <4>3, <4>4 DEF q
      <4> QED BY <2>1, <4>5
    <3> QED BY <3>8, <3>9
  <2> QED BY <2>3, <2>4
<1>4. \A i \in 0 .. n - 1 : i \in A => i + 1 \in A
  BY <1>3
<1> HIDE DEF A
<1>5. n \in A
  BY <1>2, <1>4, UpTo
<1>6. Good(n)
  BY <1>1, <1>5 DEF A
<1> QED BY <1>1, <1>6 DEF HasByte

(* Three sequences one after the other, grouped either way.                *)
Grouped(a, b, c) == (a \o b) \o c = a \o (b \o c)

LEMMA Regrouped ==
    ASSUME NEW S, NEW a \in Seq(S), NEW b \in Seq(S), NEW c \in Seq(S)
    PROVE  Grouped(a, b, c)
  BY DEF Grouped

LEMMA SomeByte ==
    ASSUME NEW s, Len(s) # 0
    PROVE  s # <<>>
  OBVIOUS

(* Sequences by their elements.                                            *)
LEMMA Joined ==
    ASSUME NEW S, NEW s \in Seq(S), NEW t \in Seq(S),
           NEW a \in Nat, a = Len(s), NEW b \in Nat, b = Len(t)
    PROVE  /\ s \o t \in Seq(S)
           /\ Len(s \o t) = a + b
           /\ \A i \in 1 .. a : (s \o t)[i] = s[i]
           /\ \A i \in a + 1 .. a + b : (s \o t)[i] = t[i - a]
           /\ \A i \in 1 .. b : (s \o t)[a + i] = t[i]
<1>1. s \o t \in Seq(S)
  OBVIOUS
<1>2. Len(s \o t) = a + b
  OBVIOUS
<1>3. \A i \in 1 .. a : (s \o t)[i] = s[i]
  OBVIOUS
<1>4. \A i \in a + 1 .. a + b : (s \o t)[i] = t[i - a]
  OBVIOUS
<1>5. \A i \in 1 .. b : (s \o t)[a + i] = t[i]
  OBVIOUS
<1> QED BY <1>1, <1>2, <1>3, <1>4, <1>5

(* Sequences are equal when their elements are.                            *)
LEMMA SameElements ==
    ASSUME NEW S, NEW s \in Seq(S), NEW t \in Seq(S), NEW n \in Nat, Len(s) = n, Len(t) = n,
           \A i \in 1 .. n : s[i] = t[i]
    PROVE  s = t
  OBVIOUS

(* The first n elements.                                                   *)
LEMMA TakenIs ==
    ASSUME NEW S, NEW s \in Seq(S), NEW n \in Nat, n <= Len(s)
    PROVE  /\ Taken(s, n) \in Seq(S) /\ Len(Taken(s, n)) = n
           /\ \A i \in 1 .. n : Taken(s, n)[i] = s[i]
<1>1. Len(s) \in Nat
  OBVIOUS
<1>2. Taken(s, n) \in Seq(S) /\ Len(Taken(s, n)) = n
  BY <1>1 DEF Taken
<1>3. \A i \in 1 .. n : Taken(s, n)[i] = s[i]
  BY <1>1 DEF Taken
<1> QED BY <1>2, <1>3

(* What is left behind them.                                               *)
LEMMA LeftIs ==
    ASSUME NEW S, NEW s \in Seq(S), NEW n \in Nat, NEW m \in Nat, m = Len(s), n <= m
    PROVE  /\ Left(s, n) \in Seq(S) /\ Len(Left(s, n)) = m - n
           /\ \A i \in 1 .. m - n : Left(s, n)[i] = s[n + i]
<1>1. Left(s, n) \in Seq(S)
  BY DEF Left
<1>2. Len(Left(s, n)) = m - n
  BY DEF Left
<1>3. \A i \in 1 .. m - n : Left(s, n)[i] = s[n + i]
  <2> TAKE i \in 1 .. m - n
  <2>1. (n + 1) + i - 1 = n + i
    OBVIOUS
  <2> QED BY <2>1 DEF Left
<1> QED BY <1>1, <1>2, <1>3

(* The two are the whole.                                                  *)
LEMMA TakenLeft ==
    ASSUME NEW S, NEW s \in Seq(S), NEW n \in Nat, n <= Len(s)
    PROVE  Taken(s, n) \o Left(s, n) = s
<1>1. PICK m \in Nat : m = Len(s)
  OBVIOUS
<1>2. /\ Taken(s, n) \in Seq(S) /\ Len(Taken(s, n)) = n
      /\ \A i \in 1 .. n : Taken(s, n)[i] = s[i]
  BY TakenIs
<1>3. /\ Left(s, n) \in Seq(S) /\ Len(Left(s, n)) = m - n
      /\ \A i \in 1 .. m - n : Left(s, n)[i] = s[n + i]
  BY <1>1, LeftIs
<1>4. PICK t : t = Taken(s, n)
  OBVIOUS
<1>5. PICK u : u = Left(s, n)
  OBVIOUS
<1>6. n <= m /\ m - n \in Nat
  BY <1>1
<1>7. PICK k \in Nat : k = m - n
  BY <1>6
<1>8. t \in Seq(S) /\ u \in Seq(S) /\ n = Len(t) /\ k = Len(u)
  BY <1>2, <1>3, <1>4, <1>5, <1>7
<1>9. /\ t \o u \in Seq(S) /\ Len(t \o u) = n + k
      /\ \A i \in 1 .. n : (t \o u)[i] = t[i]
      /\ \A i \in n + 1 .. n + k : (t \o u)[i] = u[i - n]
  BY <1>8, Joined
<1>10. n + k = m
  BY <1>7
<1>11. \A i \in 1 .. m : (t \o u)[i] = s[i]
  <2> TAKE i \in 1 .. m
  <2>1. CASE i <= n
    <3>1. i \in 1 .. n
      BY <2>1
    <3> QED BY <1>2, <1>4, <1>9, <3>1
  <2>2. CASE n < i
    <3>1. i - n \in 1 .. m - n /\ n + (i - n) = i /\ i \in n + 1 .. n + k
      BY <1>10, <2>2
    <3> QED BY <1>3, <1>5, <1>9, <3>1
  <2>3. i <= n \/ n < i
    OBVIOUS
  <2> QED BY <2>1, <2>2, <2>3
<1>12. t \o u = s
  BY <1>1, <1>9, <1>10, <1>11, SameElements
<1> QED BY <1>4, <1>5, <1>12

(* The empty sequence joined to another.                                   *)
LEMMA EmptyParts ==
    ASSUME NEW S, NEW s \in Seq(S)
    PROVE  s \o <<>> = s /\ <<>> \o s = s /\ (s = <<>> <=> Len(s) = 0)
  OBVIOUS

(* Only empty sequences join to an empty one.                              *)
LEMMA EmptyJoined ==
    ASSUME NEW S, NEW s \in Seq(S), NEW t \in Seq(S), s \o t = <<>>
    PROVE  s = <<>> /\ t = <<>>
<1>1. Len(s \o t) = Len(s) + Len(t) /\ Len(s) \in Nat /\ Len(t) \in Nat
  OBVIOUS
<1>2. Len(s \o t) = 0
  OBVIOUS
<1>3. Len(s) = 0 /\ Len(t) = 0
  BY <1>1, <1>2
<1> QED BY <1>3

(* The bytes of a name or a password.                                      *)
Text == LuluByte \ {Bar, CR, LF}

(* The login is made of them, and fits in the arrays of the parser.        *)
LEMMA LoginTypes ==
    ASSUME login \in Logins
    PROVE  /\ login.name \in Seq(Text) /\ login.pass \in Seq(Text)
           /\ Len(login.name) \in 0 .. MaxLong /\ Len(login.pass) \in 0 .. MaxLong
<1>1. login \in [name : Seq(Text), pass : Seq(Text)]
  BY LuluClientAssumption DEF LuluClientAssumption, Text
<1>2. login.name \in Seq(Text) /\ login.pass \in Seq(Text)
  BY <1>1
<1>3. Len(login.name) <= MaxLong /\ Len(login.pass) <= MaxLong
  BY LuluClientAssumption DEF LuluClientAssumption
<1>4. Len(login.name) \in Nat /\ Len(login.pass) \in Nat
  BY <1>2
<1>5. MaxLong \in Nat
  BY LuluParsersAssumption DEF LuluParsersAssumption
<1> QED BY <1>2, <1>3, <1>4, <1>5

(* Where the parts of the first message begin: the | before the name,      *)
NameFrom == Len(Word["HELLO"]) + 1
(* the | before the password,                                              *)
PassFrom == NameFrom + Len(login.name) + 1
(* and its last byte.                                                      *)
HelloEnd == PassFrom + Len(login.pass) + 2

(* The parser of HELLO, and what it is after n bytes of Hello.             *)
HelloParser(state, at, prev, name, pass) ==
    [state |-> state, at |-> at, prev |-> prev, value |-> 0, name |-> name, pass |-> pass]

(* The parser of HELLO after the first n bytes of the first message.       *)
HelloParsed(n) ==
    IF n < NameFrom THEN HelloParser("First", n, "First", <<>>, <<>>)
    ELSE IF n < PassFrom
      THEN HelloParser("Name", 0, "First", Taken(login.name, n - NameFrom), <<>>)
    ELSE IF login.name = <<>> THEN HelloParser("Invalid", 0, "First", <<>>, <<>>)
    ELSE IF n < HelloEnd - 1
      THEN HelloParser("Password", 0, "First", login.name, Taken(login.pass, n - PassFrom))
    ELSE HelloParser(IF n = HelloEnd - 1 THEN "CRLF"
                     ELSE IF login.pass = <<>> THEN "Invalid" ELSE "Finished",
                     0, "Password", login.name, login.pass)

(* A sequence and one byte more.                                           *)
LEMMA Bytes1 ==
    ASSUME NEW S, NEW s \in Seq(S), NEW c \in S, NEW a \in Nat, a = Len(s)
    PROVE  /\ s \o <<c>> \in Seq(S)
           /\ Len(s \o <<c>>) = a + 1 /\ (s \o <<c>>)[a + 1] = c
           /\ \A i \in 1 .. a : (s \o <<c>>)[i] = s[i]
<1>1. s \o <<c>> \in Seq(S) /\ Len(s \o <<c>>) = a + 1
  OBVIOUS
<1>2. (s \o <<c>>)[a + 1] = c
  OBVIOUS
<1>3. \A i \in 1 .. a : (s \o <<c>>)[i] = s[i]
  OBVIOUS
<1> QED BY <1>1, <1>2, <1>3

(* A sequence and \r\n.                                                    *)
LEMMA LineEndIs ==
    ASSUME NEW s \in Seq(LuluByte), NEW a \in Nat, a = Len(s)
    PROVE  /\ s \o CRLF \in Seq(LuluByte)
           /\ Len(s \o CRLF) = a + 2
           /\ \A i \in 1 .. a : (s \o CRLF)[i] = s[i]
           /\ (s \o CRLF)[a + 1] = CR /\ (s \o CRLF)[a + 2] = LF
<1>1. CRLF \in Seq(LuluByte) /\ Len(CRLF) = 2 /\ CRLF[1] = CR /\ CRLF[2] = LF
  BY DEF CRLF, LuluByte
<1>2. PICK t \in Seq(LuluByte) : t = CRLF
  BY <1>1
<1>3. PICK b \in Nat : b = Len(t)
  OBVIOUS
<1>4. b = 2
  BY <1>1, <1>2, <1>3
<1>5. /\ s \o t \in Seq(LuluByte) /\ Len(s \o t) = a + b
      /\ \A i \in 1 .. a : (s \o t)[i] = s[i]
      /\ \A i \in 1 .. b : (s \o t)[a + i] = t[i]
  BY <1>3, Joined
<1>6. (s \o t)[a + 1] = CR /\ (s \o t)[a + 2] = LF
  BY <1>1, <1>2, <1>4, <1>5
<1> QED BY <1>2, <1>4, <1>5, <1>6

(* h is word w, name nm and password ps as one line.                       *)
IsLine(h, w, nm, ps, l, a, b) ==
    /\ h \in Seq(LuluByte) /\ Len(h) = l + a + b + 4
    /\ (\A i \in 1 .. l : h[i] = w[i])
    /\ h[l + 1] = Bar
    /\ \A i \in l + 2 .. l + a + 1 : h[i] = nm[i - (l + 1)]
    /\ h[l + a + 2] = Bar
    /\ \A i \in l + a + 3 .. l + a + b + 2 : h[i] = ps[i - (l + a + 2)]
    /\ h[l + a + b + 3] = CR /\ h[l + a + b + 4] = LF

(* A line put together, byte by byte.                                      *)
LEMMA LineBytes ==
    ASSUME NEW w \in Seq(LuluByte), NEW nm \in Seq(LuluByte), NEW ps \in Seq(LuluByte),
           NEW l \in Nat, NEW a \in Nat, NEW b \in Nat,
           l = Len(w), a = Len(nm), b = Len(ps),
           NEW h, h = w \o <<Bar>> \o nm \o <<Bar>> \o ps \o CRLF
    PROVE  IsLine(h, w, nm, ps, l, a, b)

<1>1. Bar \in LuluByte /\ CR \in LuluByte /\ LF \in LuluByte
  BY DEF LuluByte
<1>2. PICK s1 : s1 = w \o <<Bar>>
  OBVIOUS
<1>3. s1 \in Seq(LuluByte) /\ Len(s1) = l + 1 /\ s1[l + 1] = Bar
      /\ \A i \in 1 .. l : s1[i] = w[i]
  BY <1>1, <1>2, Bytes1
<1>4. PICK s2 : s2 = s1 \o nm
  OBVIOUS
<1>5. s2 \in Seq(LuluByte) /\ Len(s2) = (l + 1) + a
       /\ (\A i \in 1 .. l + 1 : s2[i] = s1[i])
       /\ \A i \in (l + 1) + 1 .. (l + 1) + a : s2[i] = nm[i - (l + 1)]
  <2>1. PICK k \in Nat : k = l + 1
    OBVIOUS
  <2>2. k = Len(s1) /\ s1 \in Seq(LuluByte)
    BY <1>3, <2>1
  <2>3. s2 \in Seq(LuluByte) /\ Len(s2) = k + a
        /\ (\A i \in 1 .. k : s2[i] = s1[i])
        /\ \A i \in k + 1 .. k + a : s2[i] = nm[i - k]
    BY <1>4, <2>2, Joined
  <2> QED BY <2>1, <2>3
<1>6. PICK s3 : s3 = s2 \o <<Bar>>
  OBVIOUS
<1>7. s3 \in Seq(LuluByte) /\ Len(s3) = l + a + 2 /\ s3[l + a + 2] = Bar
       /\ \A i \in 1 .. l + 1 + a : s3[i] = s2[i]
  <2>1. PICK k \in Nat : k = (l + 1) + a
    OBVIOUS
  <2>2. k = Len(s2) /\ s2 \in Seq(LuluByte)
    BY <1>5, <2>1
  <2>3. s3 \in Seq(LuluByte) /\ Len(s3) = k + 1 /\ s3[k + 1] = Bar
        /\ \A i \in 1 .. k : s3[i] = s2[i]
    BY <1>1, <1>6, <2>2, Bytes1
  <2>4. k + 1 = l + a + 2 /\ k = l + 1 + a
    BY <2>1
  <2> QED BY <2>3, <2>4, Zenon
<1>8. PICK s4 : s4 = s3 \o ps
  OBVIOUS
<1>9. s4 \in Seq(LuluByte) /\ Len(s4) = l + a + 2 + b
       /\ (\A i \in 1 .. l + a + 2 : s4[i] = s3[i])
       /\ \A i \in l + a + 3 .. l + a + 2 + b : s4[i] = ps[i - (l + a + 2)]
  <2>1. PICK k \in Nat : k = l + a + 2
    OBVIOUS
  <2>2. k = Len(s3) /\ s3 \in Seq(LuluByte)
    BY <1>7, <2>1
  <2>3. s4 \in Seq(LuluByte) /\ Len(s4) = k + b
        /\ (\A i \in 1 .. k : s4[i] = s3[i])
        /\ \A i \in k + 1 .. k + b : s4[i] = ps[i - k]
    BY <1>8, <2>2, Joined
  <2>4. k + 1 = l + a + 3 /\ k + b = l + a + 2 + b
    BY <2>1
  <2> QED BY <2>1, <2>3, <2>4
<1>10. h = s4 \o CRLF
  BY <1>2, <1>4, <1>6, <1>8
<1>11. h \in Seq(LuluByte) /\ Len(h) = l + a + b + 4
       /\ (\A i \in 1 .. l + a + b + 2 : h[i] = s4[i])
       /\ h[l + a + b + 3] = CR /\ h[l + a + b + 4] = LF
  <2>1. PICK k \in Nat : k = l + a + 2 + b
    OBVIOUS
  <2>2. k = Len(s4) /\ s4 \in Seq(LuluByte)
    BY <1>9, <2>1
  <2>3. h \in Seq(LuluByte) /\ Len(h) = k + 2
        /\ (\A i \in 1 .. k : h[i] = s4[i])
        /\ h[k + 1] = CR /\ h[k + 2] = LF
    <3>1. /\ s4 \o CRLF \in Seq(LuluByte)
          /\ Len(s4 \o CRLF) = k + 2
          /\ \A i \in 1 .. k : (s4 \o CRLF)[i] = s4[i]
          /\ (s4 \o CRLF)[k + 1] = CR /\ (s4 \o CRLF)[k + 2] = LF
      BY <2>2, LineEndIs
    <3> QED BY <1>10, <3>1
  <2>4. k + 1 = l + a + b + 3 /\ k + 2 = l + a + b + 4 /\ k = l + a + b + 2
    BY <2>1
  <2> QED BY <2>3, <2>4
<1>12. \A i \in 1 .. l : h[i] = w[i]
  <2> TAKE i \in 1 .. l
  <2>1. i \in 1 .. l + 1 /\ i \in 1 .. l + 1 + a /\ i \in 1 .. l + a + 2
        /\ i \in 1 .. l + a + b + 2
    OBVIOUS
  <2> QED BY <2>1, <1>3, <1>5, <1>7, <1>9, <1>11
<1>13. h[l + 1] = Bar
  <2>1. l + 1 \in 1 .. l + 1 /\ l + 1 \in 1 .. l + 1 + a /\ l + 1 \in 1 .. l + a + 2
        /\ l + 1 \in 1 .. l + a + b + 2
    OBVIOUS
  <2> QED BY <2>1, <1>3, <1>5, <1>7, <1>9, <1>11
<1>14. \A i \in l + 2 .. l + a + 1 : h[i] = nm[i - (l + 1)]
  <2> TAKE i \in l + 2 .. l + a + 1
  <2>1. i \in (l + 1) + 1 .. (l + 1) + a /\ i \in 1 .. l + 1 + a /\ i \in 1 .. l + a + 2
        /\ i \in 1 .. l + a + b + 2
    OBVIOUS
  <2>2. h[i] = s4[i]
    BY <1>11, <2>1
  <2>3. s4[i] = s3[i]
    BY <1>9, <2>1
  <2>4. s3[i] = s2[i]
    BY <1>7, <2>1
  <2>5. s2[i] = nm[i - (l + 1)]
    BY <1>5, <2>1
  <2> QED BY <2>2, <2>3, <2>4, <2>5
<1>15. h[l + a + 2] = Bar
  <2>1. l + a + 2 \in 1 .. l + a + 2 /\ l + a + 2 \in 1 .. l + a + b + 2
    OBVIOUS
  <2> QED BY <2>1, <1>7, <1>9, <1>11
<1>16. \A i \in l + a + 3 .. l + a + b + 2 : h[i] = ps[i - (l + a + 2)]
  <2> TAKE i \in l + a + 3 .. l + a + b + 2
  <2>1. i \in l + a + 3 .. l + a + 2 + b /\ i \in 1 .. l + a + b + 2
    OBVIOUS
  <2> QED BY <2>1, <1>9, <1>11
<1> QED BY <1>11, <1>12, <1>13, <1>14, <1>15, <1>16 DEF IsLine

(* The first message, byte by byte.                                        *)
LEMMA HelloBytes ==
    ASSUME login \in Logins
    PROVE  /\ Hello \in Seq(LuluByte)
           /\ NameFrom \in Nat \ {0, 1} /\ PassFrom \in Nat /\ HelloEnd \in Nat
           /\ NameFrom < PassFrom /\ PassFrom < HelloEnd - 1
           /\ Len(Hello) = HelloEnd
           /\ \A i \in 1 .. NameFrom - 1 : Hello[i] = Word["HELLO"][i]
           /\ Hello[NameFrom] = Bar
           /\ \A i \in NameFrom + 1 .. PassFrom - 1 : Hello[i] = login.name[i - NameFrom]
           /\ Hello[PassFrom] = Bar
           /\ \A i \in PassFrom + 1 .. HelloEnd - 2 : Hello[i] = login.pass[i - PassFrom]
           /\ Hello[HelloEnd - 1] = CR
           /\ Hello[HelloEnd] = LF
<1>1. Word["HELLO"] \in Seq(LuluByte) /\ Len(Word["HELLO"]) \in Nat \ {0}
  BY LuluParsersAssumption DEF LuluParsersAssumption, Words, LuluByte
<1>2. login.name \in Seq(LuluByte) /\ login.pass \in Seq(LuluByte)
  BY LoginTypes DEF Text
<1>3. PICK w \in Seq(LuluByte) : w = Word["HELLO"]
  BY <1>1
<1>4. PICK nm \in Seq(LuluByte) : nm = login.name
  BY <1>2
<1>5. PICK ps \in Seq(LuluByte) : ps = login.pass
  BY <1>2
<1>6. PICK l \in Nat : l = Len(w) /\ l > 0
  BY <1>1, <1>3
<1>7. PICK a \in Nat : a = Len(nm)
  OBVIOUS
<1>8. PICK b \in Nat : b = Len(ps)
  OBVIOUS
<1>9. PICK h : h = Hello
  OBVIOUS
<1>10. h = w \o <<Bar>> \o nm \o <<Bar>> \o ps \o CRLF
  BY <1>3, <1>4, <1>5, <1>9 DEF Hello, Opening
<1>11. /\ h \in Seq(LuluByte) /\ Len(h) = l + a + b + 4
       /\ (\A i \in 1 .. l : h[i] = w[i])
       /\ h[l + 1] = Bar
       /\ \A i \in l + 2 .. l + a + 1 : h[i] = nm[i - (l + 1)]
       /\ h[l + a + 2] = Bar
       /\ \A i \in l + a + 3 .. l + a + b + 2 : h[i] = ps[i - (l + a + 2)]
       /\ h[l + a + b + 3] = CR /\ h[l + a + b + 4] = LF
  <2>1. IsLine(h, w, nm, ps, l, a, b)
    BY <1>6, <1>7, <1>8, <1>10, LineBytes
  <2> QED BY <2>1 DEF IsLine
<1>12. NameFrom = l + 1 /\ PassFrom = l + a + 2 /\ HelloEnd = l + a + b + 4
  <2>1. NameFrom = l + 1
    BY <1>3, <1>6 DEF NameFrom
  <2>2. PassFrom = l + a + 2
    <3>1. Len(login.name) = a
      BY <1>4, <1>7
    <3> QED BY <2>1, <3>1 DEF PassFrom
  <2>3. HelloEnd = l + a + b + 4
    <3>1. Len(login.pass) = b
      BY <1>5, <1>8
    <3> QED BY <2>2, <3>1 DEF HelloEnd
  <2> QED BY <2>1, <2>2, <2>3
<1>13. /\ NameFrom \in Nat \ {0, 1} /\ PassFrom \in Nat /\ HelloEnd \in Nat
       /\ NameFrom < PassFrom /\ PassFrom < HelloEnd - 1
       /\ NameFrom - 1 = l /\ NameFrom + 1 = l + 2 /\ PassFrom - 1 = l + a + 1
       /\ PassFrom + 1 = l + a + 3 /\ HelloEnd - 2 = l + a + b + 2
       /\ HelloEnd - 1 = l + a + b + 3
  BY <1>6, <1>12
<1>14. \A i \in 1 .. NameFrom - 1 : Hello[i] = Word["HELLO"][i]
  BY <1>3, <1>9, <1>11, <1>13
<1>15. \A i \in NameFrom + 1 .. PassFrom - 1 : Hello[i] = login.name[i - NameFrom]
  BY <1>4, <1>9, <1>11, <1>12, <1>13
<1>16. \A i \in PassFrom + 1 .. HelloEnd - 2 : Hello[i] = login.pass[i - PassFrom]
  BY <1>5, <1>9, <1>11, <1>12, <1>13
<1>17. Hello \in Seq(LuluByte) /\ Len(Hello) = HelloEnd /\ Hello[NameFrom] = Bar
       /\ Hello[PassFrom] = Bar /\ Hello[HelloEnd - 1] = CR /\ Hello[HelloEnd] = LF
  BY <1>9, <1>11, <1>12, <1>13
<1> QED BY <1>13, <1>14, <1>15, <1>16, <1>17

(* One element more.                                                       *)
LEMMA TakenMore ==
    ASSUME NEW S, NEW s \in Seq(S), NEW m \in Nat, m < Len(s)
    PROVE  Taken(s, m) \o <<s[m + 1]>> = Taken(s, m + 1) /\ Len(Taken(s, m)) = m
  BY DEF Taken

(* None and all of the elements.                                           *)
LEMMA TakenEnds ==
    ASSUME NEW S, NEW s \in Seq(S)
    PROVE  Taken(s, 0) = <<>> /\ Taken(s, Len(s)) = s
  BY DEF Taken

(* p is the parser of HELLO in that state.                                 *)
IsParser(p, state, at, prev, name, pass) == p = HelloParser(state, at, prev, name, pass)

(* The changes that the parser of HELLO makes: to a field,                 *)
Started(p, t) == [p EXCEPT !.state = t, !.at = 0]
(* within a word,                                                          *)
Moved(p, t) == [p EXCEPT !.at = t]
(* to the name,                                                            *)
Named(p, t) == [p EXCEPT !.name = t]
(* and to the password.                                                    *)
Passed(p, t) == [p EXCEPT !.pass = t]

(* These changes, member by member.                                        *)
LEMMA HelloFields ==
    ASSUME NEW state, NEW at, NEW prev, NEW name, NEW pass,
           NEW p, IsParser(p, state, at, prev, name, pass)
    PROVE  /\ p.state = state /\ p.at = at /\ p.prev = prev /\ p.name = name /\ p.pass = pass
           /\ \A t : To(p, t) = HelloParser(t, at, prev, name, pass)
           /\ Invalid(p) = HelloParser("Invalid", at, prev, name, pass)
           /\ \A t : Started(p, t) = HelloParser(t, 0, prev, name, pass)
           /\ \A t : Moved(p, t) = HelloParser(state, t, prev, name, pass)
           /\ \A t : Named(p, t) = HelloParser(state, at, prev, t, pass)
           /\ \A t : Passed(p, t) = HelloParser(state, at, prev, name, t)
           /\ \A t : Return(p, t) = HelloParser("CRLF", at, t, name, pass)
<1>1. p.state = state /\ p.at = at /\ p.prev = prev /\ p.name = name /\ p.pass = pass
  BY DEF IsParser, HelloParser
<1>2. \A t : To(p, t) = HelloParser(t, at, prev, name, pass)
  BY DEF IsParser, HelloParser, To
<1>3. Invalid(p) = HelloParser("Invalid", at, prev, name, pass)
  BY DEF IsParser, HelloParser, To, Invalid
<1>4. \A t : Started(p, t) = HelloParser(t, 0, prev, name, pass)
  <2> TAKE t
  <2> DEFINE q == [p EXCEPT !.state = t, !.at = 0]
  <2>1. p = [state |-> state, at |-> at, prev |-> prev, value |-> 0, name |-> name, pass |-> pass]
    BY DEF IsParser, HelloParser
  <2>2. /\ q.state = t /\ q.at = 0 /\ q.prev = prev
        /\ q.value = 0 /\ q.name = name /\ q.pass = pass
        /\ DOMAIN q = {"state", "at", "prev", "value", "name", "pass"}
    BY <2>1
  <2>3. q = [i \in DOMAIN q |-> q[i]]
    OBVIOUS
  <2>4. q = HelloParser(t, 0, prev, name, pass)
    <3> HIDE DEF q
    <3> QED BY <2>2, <2>3 DEF HelloParser
  <2> QED BY <2>4 DEF Started
<1>5. \A t : Moved(p, t) = HelloParser(state, t, prev, name, pass)
  BY DEF IsParser, HelloParser, Moved
<1>6. \A t : Named(p, t) = HelloParser(state, at, prev, t, pass)
  BY DEF IsParser, HelloParser, Named
<1>7. \A t : Passed(p, t) = HelloParser(state, at, prev, name, t)
  BY DEF IsParser, HelloParser, Passed
<1>8. \A t : Return(p, t) = HelloParser("CRLF", at, t, name, pass)
  <2> TAKE t
  <2> DEFINE q == [p EXCEPT !.state = "CRLF", !.prev = t]
  <2>1. p = [state |-> state, at |-> at, prev |-> prev, value |-> 0, name |-> name, pass |-> pass]
    BY DEF IsParser, HelloParser
  <2>2. /\ q.state = "CRLF" /\ q.at = at /\ q.prev = t
        /\ q.value = 0 /\ q.name = name /\ q.pass = pass
        /\ DOMAIN q = {"state", "at", "prev", "value", "name", "pass"}
    BY <2>1
  <2>3. q = [i \in DOMAIN q |-> q[i]]
    OBVIOUS
  <2>4. q = HelloParser("CRLF", at, t, name, pass)
    <3> HIDE DEF q
    <3> QED BY <2>2, <2>3 DEF HelloParser
  <2> QED BY <2>4 DEF Return
<1> QED BY <1>1, <1>2, <1>3, <1>4, <1>5, <1>6, <1>7, <1>8

(* A letter of HELLO, or the | behind it.                                  *)
LEMMA HelloWord ==
    ASSUME NEW c, NEW at, at # Len(Word["HELLO"]) => c = Word["HELLO"][at + 1],
           at = Len(Word["HELLO"]) => c = Bar
    PROVE  NextParser("HELLO", HelloParser("First", at, "First", <<>>, <<>>), c) =
               IF at = Len(Word["HELLO"]) THEN HelloParser("Name", 0, "First", <<>>, <<>>)
               ELSE HelloParser("First", at + 1, "First", <<>>, <<>>)
<1>1. PICK p :
          /\ p = HelloParser("First", at, "First", <<>>, <<>>)
          /\ IsParser(p, "First", at, "First", <<>>, <<>>)
  BY DEF IsParser
<1>2. /\ p.state = "First" /\ p.at = at
      /\ Started(p, "Name") = HelloParser("Name", 0, "First", <<>>, <<>>)
      /\ Moved(p, at + 1) = HelloParser("First", at + 1, "First", <<>>, <<>>)
  BY <1>1, HelloFields
<1>3. NextParser("HELLO", p, c) = Feed("HELLO", p, c)
  BY <1>2 DEF NextParser, HasFinished
<1>4. Feed("HELLO", p, c) = Traverse(p, c, "HELLO", Bar, "Name")
  BY <1>2 DEF Feed, HelloFeed
<1>5. Traverse(p, c, "HELLO", Bar, "Name") =
          IF at = Len(Word["HELLO"]) THEN Started(p, "Name")
          ELSE Moved(p, at + 1)
  BY <1>2 DEF Traverse, Started, Moved
<1> QED BY <1>1, <1>2, <1>3, <1>4, <1>5

(* A byte inside a field.                                                  *)
LEMMA HelloField ==
    ASSUME NEW p, NEW c, p.state \in {"Name", "Password"}
    PROVE  /\ c \notin {Bar, CR} => NextParser("HELLO", p, c) = Content(p, c, p.state)
           /\ c = CR => NextParser("HELLO", p, c) = Return(p, p.state)
           /\ c = Bar => NextParser("HELLO", p, c) =
                  IF p.state = "Name" /\ p.name # <<>> THEN To(p, "Password") ELSE Invalid(p)
<1>1. NextParser("HELLO", p, c) = Feed("HELLO", p, c)
  BY DEF NextParser, HasFinished
<1>2. Feed("HELLO", p, c) = NameOrPassword(p, c, p.state)
  BY DEF Feed, HelloFeed
<1>3. Bar # CR
  BY DEF Bar, CR
<1>4. c \notin {Bar, CR} => NameOrPassword(p, c, p.state) = Content(p, c, p.state)
  BY Zenon DEF NameOrPassword
<1>5. c = CR => NameOrPassword(p, c, p.state) = Return(p, p.state)
  BY <1>3, Zenon DEF NameOrPassword
<1>6. c = Bar => NameOrPassword(p, c, p.state) =
          IF p.state = "Name" /\ p.name # <<>> THEN To(p, "Password") ELSE Invalid(p)
  BY <1>3, Zenon DEF NameOrPassword
<1> QED BY <1>1, <1>2, <1>4, <1>5, <1>6

(* A byte of the name that fits.                                           *)
LEMMA StoreName ==
    ASSUME NEW p, NEW c, NEW s \in Seq(Text), NEW t \in Seq(Text),
           p.name = s, s \o <<c>> = t, Len(t) <= MaxLong, Len(t) = Len(s) + 1
    PROVE  Content(p, c, "Name") = Named(p, t)
<1>1. MaxLong \in Nat /\ Len(s) \in Nat
  BY LuluParsersAssumption DEF LuluParsersAssumption
<1>2. ~ (Len(s) = MaxLong + 1) /\ ~ (Len(t) > MaxLong + 1)
  BY <1>1
<1>3. Stored(p, "Name") = s
  BY DEF Stored
<1>4. Content(p, c, "Name") = Store(p, "Name", <<c>>)
  BY <1>2, <1>3 DEF Content, Full
<1>5. Store(p, "Name", <<c>>) = Named(p, t)
  BY <1>2, <1>3 DEF Store, Named
<1> QED BY <1>4, <1>5

(* A byte of the password that fits.                                       *)
LEMMA StorePass ==
    ASSUME NEW p, NEW c, NEW s \in Seq(Text), NEW t \in Seq(Text),
           p.pass = s, s \o <<c>> = t, Len(t) <= MaxLong, Len(t) = Len(s) + 1
    PROVE  Content(p, c, "Password") = Passed(p, t)
<1>1. MaxLong \in Nat /\ Len(s) \in Nat
  BY LuluParsersAssumption DEF LuluParsersAssumption
<1>2. ~ (Len(s) = MaxLong + 1) /\ ~ (Len(t) > MaxLong + 1)
  BY <1>1
<1>3. Stored(p, "Password") = s
  BY DEF Stored
<1>4. Content(p, c, "Password") = Store(p, "Password", <<c>>)
  BY <1>2, <1>3 DEF Content, Full
<1>5. Store(p, "Password", <<c>>) = Passed(p, t)
  BY <1>2, <1>3 DEF Store, Passed
<1> QED BY <1>4, <1>5

(* One byte of the first message takes HelloParsed one further.            *)
LEMMA HelloByte ==
    ASSUME login \in Logins, NEW n \in 0 .. HelloEnd - 1
    PROVE  NextParser("HELLO", HelloParsed(n), Hello[n + 1]) = HelloParsed(n + 1)
<1> DEFINE c == Hello[n + 1]
<1>1. PICK nf \in Nat : nf = NameFrom
  BY HelloBytes
<1>2. PICK pf \in Nat : pf = PassFrom
  BY HelloBytes
<1>3. PICK he \in Nat : he = HelloEnd
  BY HelloBytes
<1>4. PICK nm : nm = login.name
  OBVIOUS
<1>5. PICK ps : ps = login.pass
  OBVIOUS
<1>6. /\ nm \in Seq(Text) /\ ps \in Seq(Text)
      /\ Len(nm) \in 0 .. MaxLong /\ Len(ps) \in 0 .. MaxLong
      /\ MaxLong \in Nat
  BY <1>4, <1>5, LoginTypes, LuluParsersAssumption DEF LuluParsersAssumption
<1>7. nf = Len(Word["HELLO"]) + 1 /\ pf = nf + Len(nm) + 1 /\ he = pf + Len(ps) + 2
  BY <1>1, <1>2, <1>3, <1>4, <1>5 DEF NameFrom, PassFrom, HelloEnd
<1>8. Len(Word["HELLO"]) \in Nat \ {0}
  BY WordsAre DEF Words
<1>9. n \in Nat /\ n < he
  BY <1>3
<1>10. /\ \A i \in 1 .. nf - 1 : Hello[i] = Word["HELLO"][i]
       /\ Hello[nf] = Bar
       /\ \A i \in nf + 1 .. pf - 1 : Hello[i] = nm[i - nf]
       /\ Hello[pf] = Bar
       /\ \A i \in pf + 1 .. he - 2 : Hello[i] = ps[i - pf]
       /\ Hello[he - 1] = CR
       /\ Hello[he] = LF
  BY <1>1, <1>2, <1>3, <1>4, <1>5, HelloBytes
<1> DEFINE Parsed(k) ==
    IF k < nf THEN HelloParser("First", k, "First", <<>>, <<>>)
    ELSE IF k < pf THEN HelloParser("Name", 0, "First", Taken(nm, k - nf), <<>>)
    ELSE IF nm = <<>> THEN HelloParser("Invalid", 0, "First", <<>>, <<>>)
    ELSE IF k < he - 1 THEN HelloParser("Password", 0, "First", nm, Taken(ps, k - pf))
    ELSE HelloParser(IF k = he - 1 THEN "CRLF" ELSE IF ps = <<>> THEN "Invalid" ELSE "Finished",
                     0, "Password", nm, ps)
<1>11. HelloParsed(n) = Parsed(n) /\ HelloParsed(n + 1) = Parsed(n + 1)
  BY <1>1, <1>2, <1>3, <1>4, <1>5 DEF HelloParsed
<1>12. /\ Taken(nm, 0) = <<>> /\ Taken(ps, 0) = <<>>
       /\ Taken(nm, Len(nm)) = nm /\ Taken(ps, Len(ps)) = ps
  BY <1>6, TakenEnds
<1>13. LF # CR /\ LF # Bar /\ CR # Bar
  BY DEF LF, CR, Bar
<1>14. PICK la \in Nat : la = Len(nm)
  BY <1>6
<1>15. PICK lp \in Nat : lp = Len(ps)
  BY <1>6
<1>16. pf = nf + la + 1 /\ he = pf + lp + 2
  BY <1>7, <1>14, <1>15
<1>17. SUFFICES NextParser("HELLO", Parsed(n), c) = Parsed(n + 1)
  BY <1>11
<1>18. CASE n < nf
  <2>1. Parsed(n) = HelloParser("First", n, "First", <<>>, <<>>)
    BY <1>18
  <2>2. CASE n + 1 < nf
    <3>1. n + 1 \in 1 .. nf - 1 /\ n # Len(Word["HELLO"])
      BY <1>7, <1>8, <1>9, <2>2
    <3>2. c = Word["HELLO"][n + 1]
      BY <1>10, <3>1
    <3>3. Parsed(n + 1) = HelloParser("First", n + 1, "First", <<>>, <<>>)
      BY <2>2
    <3> HIDE DEF Parsed, c
    <3> QED BY <2>1, <3>1, <3>2, <3>3, HelloWord
  <2>3. CASE n + 1 = nf
    <3>1. n = Len(Word["HELLO"])
      BY <1>7, <1>8, <1>9, <2>3
    <3>2. c = Bar
      BY <1>10, <2>3
    <3>3. Parsed(n + 1) = HelloParser("Name", 0, "First", <<>>, <<>>)
      <4>1. ~ (n + 1 < nf) /\ n + 1 < pf /\ (n + 1) - nf = 0
        BY <1>6, <1>7, <2>3
      <4> QED BY <1>12, <4>1
    <3> HIDE DEF Parsed, c
    <3> QED BY <2>1, <3>1, <3>2, <3>3, HelloWord
  <2> QED BY <1>9, <1>18, <2>2, <2>3
<1>19. CASE ~ (n < nf) /\ n < pf
  <2>1. PICK k \in Nat : k = n - nf
    BY <1>9, <1>19
  <2>2. k <= Len(nm) /\ n = k + nf /\ (n + 1) - nf = k + 1 /\ ~ (n + 1 < nf)
        /\ (k < Len(nm) <=> n + 1 < pf) /\ (k = Len(nm) => n + 1 = pf)
    <3>1. k <= la /\ n = k + nf /\ (n + 1) - nf = k + 1 /\ ~ (n + 1 < nf)
          /\ (k < la <=> n + 1 < pf) /\ (k = la => n + 1 = pf)
      BY <1>9, <1>19, <1>16, <2>1
    <3> QED BY <1>14, <3>1
  <2>3. Parsed(n) = HelloParser("Name", 0, "First", Taken(nm, k), <<>>)
    BY <1>19, <2>1
  <2>4. PICK p :
            /\ p = HelloParser("Name", 0, "First", Taken(nm, k), <<>>)
            /\ IsParser(p, "Name", 0, "First", Taken(nm, k), <<>>)
    BY DEF IsParser
  <2>5. /\ p.state = "Name" /\ p.name = Taken(nm, k)
        /\ \A t : To(p, t) = HelloParser(t, 0, "First", Taken(nm, k), <<>>)
        /\ Invalid(p) = HelloParser("Invalid", 0, "First", Taken(nm, k), <<>>)
        /\ \A t : Named(p, t) = HelloParser("Name", 0, "First", t, <<>>)
    BY <2>4, HelloFields
  <2>6. CASE k < Len(nm)
    <3>1. n + 1 \in nf + 1 .. pf - 1 /\ k + 1 \in 1 .. Len(nm)
      BY <1>6, <2>2, <2>6
    <3>2. c = nm[k + 1]
      BY <1>10, <2>2, <3>1
    <3>3. c \notin {Bar, CR}
      BY <1>6, <3>1, <3>2 DEF Text
    <3>4. Taken(nm, k) \o <<c>> = Taken(nm, k + 1) /\ Len(Taken(nm, k)) = k
      BY <1>6, <2>6, <3>2, TakenMore
    <3>5. /\ Taken(nm, k) \in Seq(Text) /\ Taken(nm, k + 1) \in Seq(Text)
          /\ Len(Taken(nm, k + 1)) = k + 1
      BY <1>6, <3>1, TakenIs
    <3>6. k + 1 <= MaxLong
      BY <1>6, <3>1
    <3>7. Content(p, c, "Name") = Named(p, Taken(nm, k + 1))
      <4> HIDE DEF c
      <4>1. PICK s \in Seq(Text) : s = Taken(nm, k)
        BY <3>5
      <4>2. PICK t \in Seq(Text) : t = Taken(nm, k + 1)
        BY <3>5
      <4>3. p.name = s /\ s \o <<c>> = t /\ Len(t) <= MaxLong /\ Len(t) = Len(s) + 1
        BY <2>5, <3>4, <3>5, <3>6, <4>1, <4>2
      <4>4. Content(p, c, "Name") = Named(p, t)
        BY <4>3, StoreName
      <4> QED BY <4>2, <4>4
    <3>8. Parsed(n + 1) = HelloParser("Name", 0, "First", Taken(nm, k + 1), <<>>)
      BY <2>2, <2>6
    <3>9. NextParser("HELLO", p, c) = Content(p, c, "Name")
      BY <2>5, <3>3, HelloField
    <3> HIDE DEF Parsed, c
    <3> QED BY <2>3, <2>4, <2>5, <3>7, <3>8, <3>9
  <2>7. CASE k = Len(nm)
    <3>1. c = Bar
      BY <1>10, <2>2, <2>7
    <3>2. p.name = nm /\ Taken(nm, k) = nm
      BY <1>12, <2>5, <2>7
    <3>3. NextParser("HELLO", p, c) = IF nm # <<>> THEN To(p, "Password") ELSE Invalid(p)
      BY <2>5, <3>1, <3>2, HelloField
    <3>4. Parsed(n + 1) = IF nm = <<>> THEN HelloParser("Invalid", 0, "First", <<>>, <<>>)
                          ELSE HelloParser("Password", 0, "First", nm, <<>>)
      <4>1. ~ (n + 1 < nf) /\ ~ (n + 1 < pf) /\ n + 1 < he - 1 /\ (n + 1) - pf = 0
        BY <1>14, <1>16, <2>2, <2>7
      <4> QED BY <1>12, <4>1
    <3> HIDE DEF Parsed, c
    <3> QED BY <2>3, <2>4, <2>5, <3>2, <3>3, <3>4
  <2> QED BY <1>6, <2>2, <2>6, <2>7
<1>20. CASE ~ (n < pf) /\ nm = <<>>
  <2>1. ~ (n < nf) /\ ~ (n + 1 < nf) /\ ~ (n + 1 < pf)
    BY <1>6, <1>7, <1>9, <1>20
  <2>2. Parsed(n) = HelloParser("Invalid", 0, "First", <<>>, <<>>) /\ Parsed(n + 1) = Parsed(n)
    BY <1>20, <2>1
  <2>3. HasFinished(HelloParser("Invalid", 0, "First", <<>>, <<>>))
    BY DEF HasFinished, HelloParser
  <2> HIDE DEF Parsed, c
  <2> QED BY <2>2, <2>3 DEF NextParser
<1>21. CASE ~ (n < pf) /\ n < he - 1 /\ nm # <<>>
  <2>1. PICK k \in Nat : k = n - pf
    BY <1>9, <1>21
  <2>2. k <= Len(ps) /\ n = k + pf /\ (n + 1) - pf = k + 1 /\ ~ (n < nf) /\ ~ (n + 1 < nf)
        /\ ~ (n + 1 < pf) /\ (k < Len(ps) <=> n + 1 < he - 1) /\ (k = Len(ps) => n + 1 = he - 1)
    <3>1. k <= lp /\ n = k + pf /\ (n + 1) - pf = k + 1 /\ ~ (n < nf) /\ ~ (n + 1 < nf)
          /\ ~ (n + 1 < pf) /\ (k < lp <=> n + 1 < he - 1) /\ (k = lp => n + 1 = he - 1)
      BY <1>9, <1>21, <1>16, <2>1
    <3> QED BY <1>15, <3>1
  <2>3. Parsed(n) = HelloParser("Password", 0, "First", nm, Taken(ps, k))
    BY <1>21, <2>1, <2>2
  <2>4. PICK p :
            /\ p = HelloParser("Password", 0, "First", nm, Taken(ps, k))
            /\ IsParser(p, "Password", 0, "First", nm, Taken(ps, k))
    BY DEF IsParser
  <2>5. /\ p.state = "Password" /\ p.pass = Taken(ps, k)
        /\ \A t : Passed(p, t) = HelloParser("Password", 0, "First", nm, t)
        /\ \A t : Return(p, t) = HelloParser("CRLF", 0, t, nm, Taken(ps, k))
    BY <2>4, HelloFields
  <2>6. CASE k < Len(ps)
    <3>1. n + 1 \in pf + 1 .. he - 2 /\ k + 1 \in 1 .. Len(ps)
      BY <1>6, <2>2, <2>6
    <3>2. c = ps[k + 1]
      BY <1>10, <2>2, <3>1
    <3>3. c \notin {Bar, CR}
      BY <1>6, <3>1, <3>2 DEF Text
    <3>4. Taken(ps, k) \o <<c>> = Taken(ps, k + 1) /\ Len(Taken(ps, k)) = k
      BY <1>6, <2>6, <3>2, TakenMore
    <3>5. /\ Taken(ps, k) \in Seq(Text) /\ Taken(ps, k + 1) \in Seq(Text)
          /\ Len(Taken(ps, k + 1)) = k + 1
      BY <1>6, <3>1, TakenIs
    <3>6. k + 1 <= MaxLong
      BY <1>6, <3>1
    <3>7. Content(p, c, "Password") = Passed(p, Taken(ps, k + 1))
      <4> HIDE DEF c
      <4>1. PICK s \in Seq(Text) : s = Taken(ps, k)
        BY <3>5
      <4>2. PICK t \in Seq(Text) : t = Taken(ps, k + 1)
        BY <3>5
      <4>3. p.pass = s /\ s \o <<c>> = t /\ Len(t) <= MaxLong
            /\ Len(t) = Len(s) + 1
        BY <2>5, <3>4, <3>5, <3>6, <4>1, <4>2
      <4>4. Content(p, c, "Password") = Passed(p, t)
        BY <4>3, StorePass
      <4> QED BY <4>2, <4>4
    <3>8. Parsed(n + 1) = HelloParser("Password", 0, "First", nm, Taken(ps, k + 1))
      BY <1>21, <2>2, <2>6
    <3>9. NextParser("HELLO", p, c) = Content(p, c, "Password")
      BY <2>5, <3>3, HelloField
    <3> HIDE DEF Parsed, c
    <3> QED BY <2>3, <2>4, <2>5, <3>7, <3>8, <3>9
  <2>7. CASE k = Len(ps)
    <3>1. c = CR
      BY <1>10, <2>2, <2>7
    <3>2. Taken(ps, k) = ps
      BY <1>12, <2>7
    <3>3. NextParser("HELLO", p, c) = Return(p, "Password")
      BY <2>5, <3>1, HelloField
    <3>4. Parsed(n + 1) = HelloParser("CRLF", 0, "Password", nm, ps)
      BY <1>21, <2>2, <2>7
    <3> HIDE DEF Parsed, c
    <3> QED BY <2>3, <2>4, <2>5, <3>2, <3>3, <3>4
  <2> QED BY <1>6, <2>2, <2>6, <2>7
<1>22. CASE n = he - 1 /\ nm # <<>>
  <2>1. ~ (n < nf) /\ ~ (n < pf) /\ ~ (n < he - 1) /\ ~ (n + 1 < nf) /\ ~ (n + 1 < pf)
        /\ ~ (n + 1 < he - 1) /\ n + 1 = he /\ n + 1 # he - 1
    BY <1>16, <1>22
  <2>2. Parsed(n) = HelloParser("CRLF", 0, "Password", nm, ps)
    BY <1>22, <2>1
  <2>3. Parsed(n + 1) = HelloParser(IF ps = <<>> THEN "Invalid" ELSE "Finished",
                                    0, "Password", nm, ps)
    BY <1>22, <2>1
  <2>4. c = LF
    BY <1>10, <2>1
  <2>5. PICK p :
            /\ p = HelloParser("CRLF", 0, "Password", nm, ps)
            /\ IsParser(p, "CRLF", 0, "Password", nm, ps)
    BY DEF IsParser
  <2>6. /\ p.state = "CRLF" /\ p.prev = "Password" /\ p.pass = ps
        /\ \A t : To(p, t) = HelloParser(t, 0, "Password", nm, ps)
        /\ Invalid(p) = HelloParser("Invalid", 0, "Password", nm, ps)
    BY <2>5, HelloFields
  <2>7. NextParser("HELLO", p, c) = EndOfLine(p)
    <3>1. NextParser("HELLO", p, c) = HelloFeed(p, c)
      BY <2>6 DEF NextParser, HasFinished, Feed
    <3>2. HelloFeed(p, c) = AfterReturn(p, c, Len(Stored(p, p.prev)) = MaxLong)
      BY <2>6 DEF HelloFeed
    <3>3. AfterReturn(p, c, Len(Stored(p, p.prev)) = MaxLong) = EndOfLine(p)
      BY <1>13, <2>4, Zenon DEF AfterReturn
    <3> QED BY <3>1, <3>2, <3>3
  <2>8. EndOfLine(p) = HelloParser(IF ps = <<>> THEN "Invalid" ELSE "Finished",
                                   0, "Password", nm, ps)
    BY <2>6 DEF EndOfLine
  <2> HIDE DEF Parsed, c
  <2> QED BY <2>2, <2>3, <2>5, <2>7, <2>8
<1> QED BY <1>9, <1>18, <1>19, <1>20, <1>21, <1>22

(* So a chunk of the first message takes it further by its length.         *)
LEMMA HelloChunk ==
    ASSUME login \in Logins, NEW n \in Nat, NEW m \in Nat, n + m <= HelloEnd,
           NEW chunk \in Seq(LuluByte), Len(chunk) = m,
           \A i \in 1 .. m : chunk[i] = Hello[n + i]
    PROVE  Consume("HELLO", HelloParsed(n), chunk) = HelloParsed(n + m)
<1>1. PICK f : /\ f[0] = HelloParsed(n) /\ Consume("HELLO", HelloParsed(n), chunk) = f[m]
               /\ \A i \in 1 .. m : f[i] = NextParser("HELLO", f[i - 1], chunk[i])
  BY ConsumeIs
<1> DEFINE A == {i \in 0 .. m : f[i] = HelloParsed(n + i)}
<1>2. 0 \in A
  BY <1>1
<1>3. ASSUME NEW i \in 0 .. m - 1, i \in A PROVE i + 1 \in A
  <2>1. i + 1 \in 1 .. m /\ (i + 1) - 1 = i /\ i + 1 \in 0 .. m
    OBVIOUS
  <2>2. HelloEnd \in Nat
    BY HelloBytes
  <2>3. n + i \in 0 .. HelloEnd - 1 /\ (n + i) + 1 = n + (i + 1)
    BY <2>1, <2>2
  <2>4. f[i + 1] = NextParser("HELLO", HelloParsed(n + i), Hello[n + (i + 1)])
    BY <1>1, <1>3, <2>1
  <2>5. f[i + 1] = HelloParsed(n + (i + 1))
    BY <2>3, <2>4, HelloByte
  <2> QED BY <2>1, <2>5
<1>4. \A i \in 0 .. m - 1 : i \in A => i + 1 \in A
  BY <1>3
<1> HIDE DEF A
<1>5. 0 .. m \subseteq A
  BY <1>2, <1>4, UpTo
<1>6. m \in A
  BY <1>5
<1> QED BY <1>1, <1>6 DEF A

(* What is on the way to the server, and back.                             *)
ReplyByte == LuluByte \cup {"+", "-", "OK", "error", "GOODBYE"}
(* What the client still has to send,                                      *)
Unsent == IF phase \in {"WRITE_AUTH", "WRITE_REMOTE"} /\ ~broken THEN buffer ELSE <<>>
(* all that is on its way to a parser of the server, or held by it,        *)
Way == (held \o toServer) \o Unsent
(* and what of a reply the client has not read.                            *)
ToRead == toClient \o reply
(* The connection is there, and its client.                                *)
Live == ~broken /\ ~hungUp
(* What the user types before the end of the line.                         *)
IsTyped(s) == s \in Seq(LuluByte \ {CR, LF})
(* What is left of a typed line, its end included.                         *)
IsPiece(s) == s \in Seq(LuluByte) /\ \A i \in 1 .. Len(s) - 1 : s[i] \notin {CR, LF}
(* No \r\n but at the end.                                                 *)
CrlfLast(s) == \A i \in 1 .. Len(s) - 1 : s[i] = CR /\ s[i + 1] = LF => i + 1 = Len(s)
(* s is the beginning of the first message.                                *)
Begins(s) == Len(s) <= HelloEnd /\ \A i \in 1 .. Len(s) : s[i] = Hello[i]

(* The connection; a broken one carries nothing.                           *)
ChannelTypes ==
    /\ toServer \in Seq(LuluByte) /\ toClient \in Seq(ReplyByte)
    /\ hungUp \in BOOLEAN /\ broken \in BOOLEAN
    /\ broken => toServer = <<>> /\ toClient = <<>>

(* The session; the number of a parser is in its range.                    *)
SessionTypes ==
    /\ session \in SessionStates /\ loggedIn \in BOOLEAN
    /\ held \in Seq(LuluByte) /\ reply \in Seq(ReplyByte)
    /\ parserIndex \in 0 .. 9 /\ Shape(parser) /\ parser.value <= MaxValue
    /\ timeout \in 0 .. MaxValue \cup {DefaultTimeout}
    /\ bufferSize \in 0 .. MaxValue \cup {DefaultBufferSize}

(* The client, which hangs up when it ends.                                *)
ClientTypes ==
    /\ phase \in Phases /\ choice \in Command /\ login \in Logins
    /\ buffer \in Seq(ReplyByte) /\ IsPiece(stdin)
    /\ phase \in {"WRITE_AUTH", "WRITE_REMOTE"} => buffer \in Seq(LuluByte)
    /\ phase = "READ_LOCAL" => IsTyped(buffer)
    /\ phase \in Ended <=> hungUp

(* Type correctness.                                                       *)
Types == ChannelTypes /\ SessionTypes /\ ClientTypes

(* HELLO can read the first message to its end.                            *)
GoodLogin == login.name # <<>> /\ login.pass # <<>>
(* The server has answered HELLO with Ok.                                  *)
Accepted == session = "HELLO_WRITE" /\ parserIndex = 0 /\ loggedIn
(* A login that may be refused.                                            *)
Refusable ==
    login \notin Accounts \/ Len(login.name) >= MaxLong \/ Len(login.pass) >= MaxLong

(* While HELLO is read, its parser stands where the message stands.        *)
HelloReading ==
    session = "HELLO_READ" =>
        /\ reply = <<>> /\ ~loggedIn
        /\ parserIndex \in {0, 2}
        /\ parserIndex = 0 => /\ parser = HelloParsed(Len(held))
                              /\ ~HasFinished(parser)
                              /\ Begins(Way)
        /\ parserIndex = 2 => held = <<>> /\ parser = LuluReset /\ ~GoodLogin /\ LfLast(Way)

(* What an answer to HELLO says of the login.                              *)
HelloWriting ==
    session = "HELLO_WRITE" =>
        /\ held = <<>>
        /\ parserIndex \in {0, 2}
        /\ Accepted => login \in Accounts
        /\ ~Accepted => Way = <<>> /\ Refusable

(* Past HELLO the login is an administrator.                               *)
Transaction ==
    session \in {"TRANSACTION_READ", "TRANSACTION_WRITE"} => login \in Accounts

(* A client that ends at HELLO was refused.                                *)
Refused == phase = "DONE" /\ choice = "HELLO" => Refusable

(* The menu is shown after HELLO has been answered.                        *)
PastHello ==
    phase \in {"TRANSACTION", "READ_LOCAL", "WRITE_REMOTE", "READ_REMOTE"} =>
        /\ session # "HELLO_READ"
        /\ session = "HELLO_WRITE" => Accepted /\ reply = <<>>

(* A session that reads has no answer, and its first parser no |.          *)
Reading ==
    session = "TRANSACTION_READ" =>
        /\ reply = <<>>
        /\ ~HasFinished(parser)
        /\ parserIndex = 0 => Reads(parser) /\ ~HasByte(held, Bar)
        /\ parserIndex = 9 => held = <<>> /\ parser = LuluReset

(* A session that answers holds nothing; parser 0 means GOODBYE.           *)
Writing ==
    session = "TRANSACTION_WRITE" =>
        /\ held = <<>>
        /\ parserIndex = 0 => choice = "GOODBYE"

(* A session is over after GOODBYE, or a list that does not fit.           *)
OverOnly ==
    session \in OverStates =>
        /\ phase \in {"WRITE_REMOTE", "READ_REMOTE"}
        /\ \/ session = "DONE" /\ choice = "GOODBYE"
           \/ session = "ERROR" /\ taken.command = "LIST USERS" /\ ToRead = <<>>

(* Before the connection nothing has happened.                             *)
Beginning ==
    phase = "WAITING_CONNECTION" =>
        /\ choice = "HELLO" /\ stdin = <<>> /\ session = "HELLO_READ"
        /\ Way = <<>> /\ ToRead = <<>>

(* HELLO is on its way, is refused, or is accepted.                        *)
Asked ==
    phase \in {"WRITE_AUTH", "READ_AUTH"} =>
        /\ choice = "HELLO" /\ stdin = <<>>
        /\ phase = "READ_AUTH" => buffer = <<>>
        /\ \/ session = "HELLO_READ" /\ ToRead = <<>> /\ Len(Way) <= ClientSize
           \/ /\ Way = <<>> /\ ToRead # <<>> /\ ToRead[1] = "-"
              /\ session = "HELLO_READ" \/ (session = "HELLO_WRITE" /\ ~Accepted)
              /\ Refusable
           \/ /\ Way = <<>> /\ CrlfLast(ToRead) /\ ~HasByte(ToRead, "-")
              /\ Accepted \/ session = "TRANSACTION_READ"

(* In the menu nothing is on its way in either direction.                  *)
Menu ==
    phase \in {"TRANSACTION", "READ_LOCAL"} =>
        /\ Way = <<>> /\ choice # "GOODBYE"
        /\ phase = "TRANSACTION" => buffer = <<>> /\ stdin = <<>>
        /\ phase = "READ_LOCAL" \/ "reply" \notin cuts => ToRead = <<>>

(* A command is on its way, or its answer: never both.                     *)
Remote ==
    phase \in {"WRITE_REMOTE", "READ_REMOTE"} =>
        /\ stdin = <<>> /\ choice # "HELLO"
        /\ \/ /\ ToRead = <<>>
              /\ LfLast(Way) /\ Len(Way) <= ClientSize
              /\ session # "TRANSACTION_READ" \/ parserIndex = 0 =>
                    (choice # "GOODBYE" /\ HasByte(Way, LF) => HasByte(Way, Bar))
           \/ /\ Way = <<>> /\ CrlfLast(ToRead)
              /\ session \in {"TRANSACTION_READ", "TRANSACTION_WRITE", "DONE"}

(* What the server knows of the login, whatever becomes of the client.     *)
Knowing == HelloReading /\ HelloWriting /\ Transaction /\ Refused
(* Where client and server are in their dialogue.                          *)
Talking == /\ PastHello /\ Reading /\ Writing /\ OverOnly
           /\ Beginning /\ Asked /\ Menu /\ Remote

(* The inductive invariant.                                                *)
Inv == Types /\ Knowing /\ (Live => Talking)

(* A byte of two sequences joined.                                         *)
LEMMA BytesJoined ==
    ASSUME NEW S, NEW u \in Seq(S), NEW v \in Seq(S), NEW b
    PROVE  HasByte(u \o v, b) <=> HasByte(u, b) \/ HasByte(v, b)
<1>1. PICK m \in Nat : m = Len(u)
  OBVIOUS
<1>2. PICK n \in Nat : n = Len(v)
  OBVIOUS
<1>3. PICK s : s = u \o v
  OBVIOUS
<1>4. /\ Len(s) = m + n
      /\ \A i \in 1 .. m : s[i] = u[i]
      /\ \A i \in m + 1 .. m + n : s[i] = v[i - m]
      /\ \A i \in 1 .. n : s[m + i] = v[i]
  BY <1>1, <1>2, <1>3, Joined
<1>5. ASSUME HasByte(s, b) PROVE HasByte(u, b) \/ HasByte(v, b)
  <2>1. PICK i \in 1 .. m + n : s[i] = b
    BY <1>4, <1>5 DEF HasByte
  <2>2. CASE i <= m
    <3>1. i \in 1 .. m
      BY <2>2
    <3> QED BY <1>1, <1>4, <2>1, <3>1 DEF HasByte
  <2>3. CASE ~ (i <= m)
    <3>1. i \in m + 1 .. m + n /\ i - m \in 1 .. n
      BY <2>3
    <3> QED BY <1>2, <1>4, <2>1, <3>1 DEF HasByte
  <2> QED BY <2>2, <2>3
<1>6. ASSUME HasByte(u, b) PROVE HasByte(s, b)
  <2>1. PICK i \in 1 .. m : u[i] = b
    BY <1>1, <1>6 DEF HasByte
  <2>2. i \in 1 .. m + n
    OBVIOUS
  <2> QED BY <1>4, <2>1, <2>2 DEF HasByte
<1>7. ASSUME HasByte(v, b) PROVE HasByte(s, b)
  <2>1. PICK i \in 1 .. n : v[i] = b
    BY <1>2, <1>7 DEF HasByte
  <2>2. m + i \in 1 .. m + n
    OBVIOUS
  <2> QED BY <1>4, <2>1, <2>2 DEF HasByte
<1> QED BY <1>3, <1>5, <1>6, <1>7

(* The parts of a sequence with no \n but at its end.                      *)
LEMMA LfParts ==
    ASSUME NEW S, NEW u \in Seq(S), NEW v \in Seq(S), LfLast(u \o v)
    PROVE  LfLast(u) /\ LfLast(v) /\ (HasByte(u, LF) => v = <<>>)
<1>1. PICK m \in Nat : m = Len(u)
  OBVIOUS
<1>2. PICK n \in Nat : n = Len(v)
  OBVIOUS
<1>3. PICK s : s = u \o v
  OBVIOUS
<1>4. /\ Len(s) = m + n
      /\ \A i \in 1 .. m : s[i] = u[i]
      /\ \A i \in 1 .. n : s[m + i] = v[i]
  BY <1>1, <1>2, <1>3, Joined
<1>5. \A i \in 1 .. m + n : s[i] = LF => i = m + n
  BY <1>3, <1>4 DEF LfLast
<1>6. ASSUME NEW i \in 1 .. m, u[i] = LF PROVE i = m /\ n = 0
  <2>1. i \in 1 .. m + n /\ s[i] = LF
    BY <1>4, <1>6
  <2>2. i = m + n
    BY <1>5, <2>1
  <2> QED BY <2>2
<1>7. ASSUME NEW i \in 1 .. n, v[i] = LF PROVE i = n
  <2>1. m + i \in 1 .. m + n /\ s[m + i] = LF
    BY <1>4, <1>7
  <2>2. m + i = m + n
    BY <1>5, <2>1
  <2> QED BY <2>2
<1>8. LfLast(u)
  BY <1>1, <1>6 DEF LfLast
<1>9. LfLast(v)
  BY <1>2, <1>7 DEF LfLast
<1>10. HasByte(u, LF) => n = 0
  BY <1>1, <1>6 DEF HasByte
<1>11. n = 0 => v = <<>>
  BY <1>2, EmptyParts
<1> QED BY <1>8, <1>9, <1>10, <1>11

(* The parts of one with no \r\n but at its end.                           *)
LEMMA CrlfParts ==
    ASSUME NEW S, NEW u \in Seq(S), NEW v \in Seq(S), CrlfLast(u \o v)
    PROVE  CrlfLast(v) /\ (HasCRLF(u, 1) => v = <<>>)
<1>1. PICK m \in Nat : m = Len(u)
  OBVIOUS
<1>2. PICK n \in Nat : n = Len(v)
  OBVIOUS
<1>3. PICK s : s = u \o v
  OBVIOUS
<1>4. /\ Len(s) = m + n
      /\ \A i \in 1 .. m : s[i] = u[i]
      /\ \A i \in 1 .. n : s[m + i] = v[i]
  BY <1>1, <1>2, <1>3, Joined
<1>5. \A i \in 1 .. (m + n) - 1 : s[i] = CR /\ s[i + 1] = LF => i + 1 = m + n
  BY <1>3, <1>4 DEF CrlfLast
<1>6. ASSUME NEW i \in 1 .. m - 1, u[i] = CR, u[i + 1] = LF PROVE n = 0
  <2>1. i \in 1 .. m /\ i + 1 \in 1 .. m /\ i \in 1 .. (m + n) - 1
    OBVIOUS
  <2>2. s[i] = CR /\ s[i + 1] = LF
    BY <1>4, <1>6, <2>1
  <2>3. i + 1 = m + n
    BY <1>5, <2>1, <2>2
  <2> QED BY <2>1, <2>3
<1>7. ASSUME NEW i \in 1 .. n - 1, v[i] = CR, v[i + 1] = LF PROVE i + 1 = n
  <2>1. i \in 1 .. n /\ i + 1 \in 1 .. n /\ m + i \in 1 .. (m + n) - 1
        /\ (m + i) + 1 = m + (i + 1)
    OBVIOUS
  <2>2. s[m + i] = CR /\ s[m + (i + 1)] = LF
    BY <1>4, <1>7, <2>1
  <2>3. (m + i) + 1 = m + n
    BY <1>5, <2>1, <2>2
  <2> QED BY <2>3
<1>8. CrlfLast(v)
  BY <1>2, <1>7 DEF CrlfLast
<1>9. HasCRLF(u, 1) => n = 0
  BY <1>1, <1>6 DEF HasCRLF
<1>10. n = 0 => v = <<>>
  BY <1>2, EmptyParts
<1> QED BY <1>8, <1>9, <1>10

(* A line ends with \n.                                                    *)
LEMMA EndsLineLast ==
    ASSUME NEW S, NEW s \in Seq(S), EndsLine(s)
    PROVE  Len(s) \in Nat \ {0} /\ s[Len(s)] = LF
<1>1. PICK n \in Nat : n = Len(s)
  OBVIOUS
<1>2. PICK r : r = Reverse(s)
  OBVIOUS
<1>3. PICK t : t = Reverse(CRLF)
  OBVIOUS
<1>4. r = [i \in 1 .. n |-> s[(n - i) + 1]]
  BY <1>1, <1>2 DEF Reverse
<1>5. t \in Seq({CR, LF}) /\ Len(t) = 2 /\ t[1] = LF
  BY <1>3 DEF Reverse, CRLF
<1>6. Len(t) <= Len(r) /\ SubSeq(t, 1, Len(t)) = SubSeq(r, 1, Len(t))
  BY <1>2, <1>3 DEF EndsLine, IsSuffix, IsPrefix
<1>7. \A i \in 1 .. n : s[(n - i) + 1] \in S
  <2> TAKE i \in 1 .. n
  <2>1. (n - i) + 1 \in 1 .. Len(s)
    BY <1>1
  <2> QED BY <2>1
<1>8. r \in Seq(S) /\ Len(r) = n
  BY <1>4, <1>7
<1>9. 2 <= n /\ SubSeq(t, 1, 2) = SubSeq(r, 1, 2)
  BY <1>5, <1>6, <1>8
<1>10. SubSeq(t, 1, 2)[1] = t[1]
  BY <1>5
<1>11. SubSeq(r, 1, 2)[1] = r[1]
  BY <1>8, <1>9
<1>12. r[1] = s[n]
  <2>1. 1 \in 1 .. n /\ (n - 1) + 1 = n
    BY <1>9
  <2> QED BY <1>4, <2>1
<1> QED BY <1>1, <1>5, <1>9, <1>10, <1>11, <1>12

(* The parts of a beginning of the first message.                          *)
LEMMA BeginsParts ==
    ASSUME login \in Logins, NEW u \in Seq(LuluByte), NEW v \in Seq(LuluByte), Begins(u \o v)
    PROVE  Begins(u) /\ (Len(u) = HelloEnd => v = <<>>)
<1>1. PICK m \in Nat : m = Len(u)
  OBVIOUS
<1>2. PICK n \in Nat : n = Len(v)
  OBVIOUS
<1>3. PICK s : s = u \o v
  OBVIOUS
<1>4. PICK e \in Nat : e = HelloEnd
  BY HelloBytes
<1>5. /\ Len(s) = m + n
      /\ \A i \in 1 .. m : s[i] = u[i]
  BY <1>1, <1>2, <1>3, Joined
<1>6. m + n <= e /\ \A i \in 1 .. m + n : s[i] = Hello[i]
  BY <1>3, <1>4, <1>5 DEF Begins
<1>7. \A i \in 1 .. m : u[i] = Hello[i]
  BY <1>5, <1>6
<1>8. Begins(u)
  BY <1>1, <1>4, <1>6, <1>7 DEF Begins
<1>9. m = e => n = 0
  BY <1>6
<1>10. n = 0 => v = <<>>
  BY <1>2, EmptyParts
<1> QED BY <1>1, <1>4, <1>8, <1>9, <1>10

(* The only \n of Hello is its last byte.                                  *)
LEMMA HelloLf ==
    ASSUME login \in Logins, NEW i \in 1 .. HelloEnd, Hello[i] = LF
    PROVE  i = HelloEnd
<1>1. PICK nf \in Nat : nf = NameFrom
  BY HelloBytes
<1>2. PICK pf \in Nat : pf = PassFrom
  BY HelloBytes
<1>3. PICK he \in Nat : he = HelloEnd
  BY HelloBytes
<1>4. /\ \A j \in 1 .. nf - 1 : Hello[j] = Word["HELLO"][j]
      /\ Hello[nf] = Bar
      /\ \A j \in nf + 1 .. pf - 1 : Hello[j] = login.name[j - nf]
      /\ Hello[pf] = Bar
      /\ \A j \in pf + 1 .. he - 2 : Hello[j] = login.pass[j - pf]
      /\ Hello[he - 1] = CR
  BY <1>1, <1>2, <1>3, HelloBytes
<1>5. PICK nm \in Seq(Text) : nm = login.name
  BY LoginTypes
<1>6. PICK ps \in Seq(Text) : ps = login.pass
  BY LoginTypes
<1>7. PICK a \in Nat : a = Len(nm)
  OBVIOUS
<1>8. PICK b \in Nat : b = Len(ps)
  OBVIOUS
<1>9. PICK w : w = Word["HELLO"]
  OBVIOUS
<1>10. PICK l \in Nat : l = Len(w) /\ \A j \in 1 .. l : w[j] # LF
  BY <1>9, WordsAre DEF Words
<1>11. nf = l + 1
  BY <1>1, <1>9, <1>10 DEF NameFrom
<1>12. pf = nf + a + 1
  BY <1>1, <1>2, <1>5, <1>7 DEF PassFrom
<1>13. he = pf + b + 2
  BY <1>2, <1>3, <1>6, <1>8 DEF HelloEnd
<1>14. LF # Bar /\ LF # CR /\ LF \notin Text
  BY DEF LF, Bar, CR, Text
<1>15. i \in 1 .. he
  BY <1>3
<1>16. CASE i < nf
  <2>1. i \in 1 .. nf - 1 /\ i \in 1 .. l
    BY <1>11, <1>15, <1>16
  <2> QED BY <1>4, <1>9, <1>10, <2>1
<1>17. CASE nf < i /\ i < pf
  <2>1. i \in nf + 1 .. pf - 1 /\ i - nf \in 1 .. a
    BY <1>12, <1>15, <1>17
  <2>2. nm[i - nf] \in Text
    BY <1>7, <2>1
  <2> QED BY <1>4, <1>5, <1>14, <2>1, <2>2
<1>18. CASE pf < i /\ i < he - 1
  <2>1. i \in pf + 1 .. he - 2 /\ i - pf \in 1 .. b
    BY <1>13, <1>15, <1>18
  <2>2. ps[i - pf] \in Text
    BY <1>8, <2>1
  <2> QED BY <1>4, <1>6, <1>14, <2>1, <2>2
<1>19. i # nf /\ i # pf /\ i # he - 1
  BY <1>4, <1>14
<1>20. i = he
  BY <1>3, <1>12, <1>13, <1>15, <1>16, <1>17, <1>18, <1>19
<1> QED BY <1>3, <1>20

(* The first message has its only \n at its end.                           *)
LEMMA BeginsLf ==
    ASSUME login \in Logins, NEW s \in Seq(LuluByte), Begins(s)
    PROVE  LfLast(s) /\ (HasByte(s, LF) => Len(s) = HelloEnd)
<1>1. PICK n \in Nat : n = Len(s)
  OBVIOUS
<1>2. PICK e \in Nat : e = HelloEnd
  BY HelloBytes
<1>3. n <= e /\ \A i \in 1 .. n : s[i] = Hello[i]
  BY <1>1, <1>2 DEF Begins
<1>4. ASSUME NEW i \in 1 .. n, s[i] = LF PROVE i = n /\ n = e
  <2>1. i \in 1 .. HelloEnd /\ Hello[i] = LF
    BY <1>2, <1>3, <1>4
  <2>2. i = e
    BY <1>2, <2>1, HelloLf
  <2> QED BY <1>3, <2>2
<1> QED BY <1>1, <1>2, <1>4 DEF LfLast, HasByte

(* The kinds of bytes there are.                                           *)
LEMMA ByteKinds ==
    /\ LuluByte \subseteq ReplyByte
    /\ Letter \subseteq LuluByte \ {Bar, CR, LF}
    /\ Digit \subseteq LuluByte \ {Bar, CR, LF}
    /\ {Bar, CR, LF} \subseteq LuluByte /\ Bar # CR /\ Bar # LF /\ CR # LF
<1>1. {Bar, CR, LF} \cap (Letter \cup Digit) = {}
  BY LuluParsersAssumption DEF LuluParsersAssumption, Digit
<1> QED BY <1>1 DEF LuluByte, ReplyByte, Bar, CR, LF

(* What fits in Buffer is the beginning of what should.                    *)
LEMMA FitsIs ==
    ASSUME NEW S, NEW s \in Seq(S)
    PROVE  \E n \in Nat : n <= Len(s) /\ n <= ClientSize /\ Fits(s) = Taken(s, n)
<1>1. PICK m \in Nat : m = Len(s)
  OBVIOUS
<1>2. ClientSize \in Nat /\ ClientSize <= ReadSize
  BY LuluClientAssumption, LuluSessionAssumption
     DEF LuluClientAssumption, LuluSessionAssumption
<1>3. CASE m < ClientSize
  BY <1>1, <1>2, <1>3 DEF Fits
<1>4. CASE ~ (m < ClientSize)
  BY <1>1, <1>2, <1>4 DEF Fits
<1> QED BY <1>3, <1>4

(* Two words and the | between them.                                       *)
LEMMA TwoOfIs ==
    ASSUME NEW first \in Words, NEW second \in Words
    PROVE  /\ TwoOf(first, second) \in Seq(LuluByte \ {CR, LF})
           /\ HasByte(TwoOf(first, second), Bar)
<1> DEFINE S == LuluByte \ {CR, LF}
<1>1. PICK s \in Seq(S) : s = Word[first]
  BY LuluParsersAssumption, ByteKinds DEF LuluParsersAssumption
<1>2. PICK t \in Seq(S) : t = Word[second]
  BY LuluParsersAssumption, ByteKinds DEF LuluParsersAssumption
<1>3. <<Bar>> \in Seq(S) /\ HasByte(<<Bar>>, Bar)
  BY ByteKinds DEF HasByte
<1>4. PICK b \in Seq(S) : b = <<Bar>>
  BY <1>3
<1> HIDE DEF S
<1>5. s \o b \in Seq(S) /\ (s \o b) \o t \in Seq(S)
  OBVIOUS
<1>6. HasByte(s \o b, Bar)
  BY <1>3, <1>4, BytesJoined
<1>7. HasByte((s \o b) \o t, Bar)
  BY <1>5, <1>6, BytesJoined
<1> QED BY <1>1, <1>2, <1>4, <1>5, <1>7 DEF TwoOf, S

(* The opening of a command; only that of GOODBYE has no |.                *)
LEMMA OpeningIs ==
    ASSUME NEW k \in MenuCommand
    PROVE  /\ Opening(k) \in Seq(LuluByte \ {CR, LF})
           /\ k # "GOODBYE" => HasByte(Opening(k), Bar)
<1>1. CASE k = "GOODBYE"
  <2>1. Word["GOODBYE"] \in Seq(Letter)
    BY LuluParsersAssumption DEF LuluParsersAssumption, Words
  <2>2. Word["GOODBYE"] \in Seq(LuluByte \ {CR, LF})
    BY <2>1, ByteKinds
  <2> QED BY <1>1, <2>2 DEF Opening
<1>2. CASE k # "GOODBYE"
  <2>1. /\ "SET" \in Words /\ "GET" \in Words /\ "LIST" \in Words /\ "DEL" \in Words
        /\ "BUFFERSIZE" \in Words /\ "METRICS" \in Words /\ "TIMEOUT" \in Words
        /\ "USER" \in Words /\ "USERS" \in Words
    BY DEF Words
  <2>2. \E first, second \in Words : Opening(k) = TwoOf(first, second)
    <3>1. CASE k = "SET BUFFERSIZE"
      BY <2>1, <3>1 DEF Opening
    <3>2. CASE k = "METRICS"
      BY <2>1, <3>2 DEF Opening
    <3>3. CASE k = "GET BUFFERSIZE"
      BY <2>1, <3>3 DEF Opening
    <3>4. CASE k = "SET TIMEOUT"
      BY <2>1, <3>4 DEF Opening
    <3>5. CASE k = "SET USER"
      BY <2>1, <3>5 DEF Opening
    <3>6. CASE k = "LIST USERS"
      BY <2>1, <3>6 DEF Opening
    <3>7. CASE k = "DEL USER"
      BY <2>1, <3>7 DEF Opening
    <3>8. CASE k = "GET TIMEOUT"
      BY <2>1, <3>8 DEF Opening
    <3> QED BY <1>2, <3>1, <3>2, <3>3, <3>4, <3>5, <3>6, <3>7, <3>8 DEF MenuCommand, Command
  <2> QED BY <2>2, TwoOfIs
<1> QED BY <1>1, <1>2

(* A command as the client sends it, all of it or what fits in Buffer.     *)
IsMessage(k, m) ==
    /\ m \in Seq(LuluByte) /\ Len(m) <= ClientSize /\ LfLast(m)
    /\ k # "GOODBYE" /\ HasByte(m, LF) => HasByte(m, Bar)

(* Every command the client sends is such a message.                       *)
LEMMA MessageIs ==
    ASSUME NEW k \in MenuCommand, NEW line, IsTyped(line)
    PROVE  IsMessage(k, Message(k, line))
<1> DEFINE S == LuluByte \ {CR, LF}
<1>1. PICK o \in Seq(S) : o = Opening(k)
  BY OpeningIs
<1>2. k # "GOODBYE" => HasByte(o, Bar)
  BY <1>1, OpeningIs
<1>3. PICK b \in Seq(S) : b = <<Bar>>
  <2>1. Bar \in S
    BY ByteKinds
  <2>2. <<Bar>> \in Seq(S)
    BY <2>1
  <2> QED BY <2>2
<1>4. PICK t \in Seq(S) : t = line
  BY DEF IsTyped
<1>5. LF \notin S /\ S \subseteq LuluByte
  OBVIOUS
<1> HIDE DEF S
<1>6. o \o b \in Seq(S) /\ (o \o b) \o t \in Seq(S)
  OBVIOUS
<1>7. HasByte(o, Bar) => HasByte((o \o b) \o t, Bar)
  <2>1. HasByte(o, Bar) => HasByte(o \o b, Bar)
    BY BytesJoined
  <2>2. HasByte(o \o b, Bar) => HasByte((o \o b) \o t, Bar)
    BY <1>6, BytesJoined
  <2> QED BY <2>1, <2>2
<1>8. PICK body \in Seq(S) : body = IF k \in Asking THEN (o \o b) \o t ELSE o
  BY <1>6
<1>9. k # "GOODBYE" => HasByte(body, Bar)
  BY <1>2, <1>7, <1>8
<1>10. Message(k, line) = Fits(body \o CRLF)
  BY <1>1, <1>3, <1>4, <1>8 DEF Message
<1>11. PICK a \in Nat : a = Len(body)
  OBVIOUS
<1>12. body \in Seq(LuluByte) /\ \A i \in 1 .. a : body[i] # LF
  BY <1>5, <1>11
<1>13. PICK s : s = body \o CRLF
  OBVIOUS
<1>14. /\ s \in Seq(LuluByte) /\ Len(s) = a + 2
       /\ \A i \in 1 .. a : s[i] = body[i]
       /\ s[a + 1] = CR
  BY <1>11, <1>12, <1>13, LineEndIs
<1>15. \A i \in 1 .. a + 2 : s[i] = LF => i = a + 2
  <2> TAKE i \in 1 .. a + 2
  <2>1. i \in 1 .. a => s[i] # LF
    BY <1>12, <1>14
  <2>2. i = a + 1 => s[i] # LF
    BY <1>14, ByteKinds
  <2> QED BY <2>1, <2>2
<1>16. PICK n \in Nat : n <= Len(s) /\ n <= ClientSize /\ Fits(s) = Taken(s, n)
  BY <1>14, FitsIs
<1>17. PICK m : m = Taken(s, n)
  OBVIOUS
<1>18. /\ m \in Seq(LuluByte) /\ Len(m) = n
       /\ \A i \in 1 .. n : m[i] = s[i]
  BY <1>14, <1>16, <1>17, TakenIs
<1>19. \A i \in 1 .. n : m[i] = LF => i = n /\ n = a + 2
  <2> TAKE i \in 1 .. n
  <2>1. n <= a + 2 /\ i \in 1 .. a + 2
    BY <1>14, <1>16
  <2> QED BY <1>15, <1>18, <2>1
<1>20. LfLast(m)
  BY <1>18, <1>19 DEF LfLast
<1>21. ASSUME k # "GOODBYE", HasByte(m, LF) PROVE HasByte(m, Bar)
  <2>1. n = a + 2
    BY <1>18, <1>19, <1>21 DEF HasByte
  <2>2. PICK i \in 1 .. a : body[i] = Bar
    BY <1>9, <1>11, <1>21 DEF HasByte
  <2>3. i \in 1 .. n
    BY <2>1
  <2>4. m[i] = Bar
    BY <1>14, <1>18, <2>2, <2>3
  <2> QED BY <1>18, <2>3, <2>4 DEF HasByte
<1> QED BY <1>10, <1>13, <1>16, <1>17, <1>18, <1>20, <1>21 DEF IsMessage

(* What is sent of HELLO is a beginning of it.                             *)
LEMMA FirstHello ==
    ASSUME login \in Logins
    PROVE  Fits(Hello) \in Seq(LuluByte) /\ Len(Fits(Hello)) <= ClientSize /\ Begins(Fits(Hello))
<1>1. PICK h \in Seq(LuluByte) : h = Hello
  BY HelloBytes
<1>2. PICK e \in Nat : e = HelloEnd /\ Len(h) = e
  BY <1>1, HelloBytes
<1>3. PICK n \in Nat : n <= Len(h) /\ n <= ClientSize /\ Fits(h) = Taken(h, n)
  BY FitsIs
<1>4. /\ Taken(h, n) \in Seq(LuluByte) /\ Len(Taken(h, n)) = n
      /\ \A i \in 1 .. n : Taken(h, n)[i] = h[i]
  BY <1>3, TakenIs
<1>5. Begins(Fits(h))
  BY <1>1, <1>2, <1>3, <1>4 DEF Begins
<1> QED BY <1>1, <1>3, <1>4, <1>5

-------------------------------------------------------------------------------
(* Every reply is one line.                                                *)
IsReply(r) == r \in Seq(ReplyByte) /\ CrlfLast(r) /\ r # <<>>

(* A positive reply ends at its only \r\n.                                 *)
LEMMA PlusIs ==
    ASSUME NEW text \in Seq(ReplyByte), NoLineEnd(text)
    PROVE  IsReply(Plus(text))
<1>1. PICK n \in Nat : n = Len(text)
  OBVIOUS
<1>2. PICK s \in Seq(ReplyByte) : s = <<"+">>
  <2>1. "+" \in ReplyByte
    BY DEF ReplyByte
  <2>2. <<"+">> \in Seq(ReplyByte)
    BY <2>1
  <2> QED BY <2>2
<1>3. PICK one \in Nat : one = Len(s)
  OBVIOUS
<1>4. one = 1 /\ s[1] = "+"
  BY <1>2, <1>3
<1>5. PICK e \in Seq(ReplyByte) : e = CRLF
  <2>1. CR \in ReplyByte /\ LF \in ReplyByte
    BY ByteKinds
  <2>2. CRLF \in Seq(ReplyByte)
    BY <2>1 DEF CRLF
  <2> QED BY <2>2
<1>6. PICK two \in Nat : two = Len(e)
  OBVIOUS
<1>7. two = 2 /\ e[1] = CR /\ e[2] = LF
  BY <1>5, <1>6 DEF CRLF
<1>8. PICK u : u = s \o text
  OBVIOUS
<1>9. /\ u \in Seq(ReplyByte) /\ Len(u) = one + n
      /\ \A i \in 1 .. one : u[i] = s[i]
      /\ \A i \in one + 1 .. one + n : u[i] = text[i - one]
  BY <1>1, <1>3, <1>8, Joined
<1>10. PICK m \in Nat : m = one + n
  OBVIOUS
<1>11. m = Len(u)
  BY <1>9, <1>10
<1>12. PICK r : r = u \o e
  OBVIOUS
<1>13. /\ r \in Seq(ReplyByte) /\ Len(r) = m + two
       /\ \A i \in 1 .. m : r[i] = u[i]
       /\ \A i \in 1 .. two : r[m + i] = e[i]
  <2>1. u \in Seq(ReplyByte)
    BY <1>9
  <2> QED BY <1>6, <1>11, <1>12, <2>1, Joined
<1>14. m = n + 1 /\ r[1] = "+" /\ r[n + 2] = CR /\ r[n + 3] = LF
  <2>1. m = n + 1 /\ 1 \in 1 .. one /\ 1 \in 1 .. m /\ 1 \in 1 .. two /\ 2 \in 1 .. two
        /\ m + 1 = n + 2 /\ m + 2 = n + 3
    BY <1>4, <1>7, <1>10
  <2> QED BY <1>4, <1>7, <1>9, <1>13, <2>1
<1>15. \A i \in 2 .. n + 1 : r[i] = text[i - 1]
  <2> TAKE i \in 2 .. n + 1
  <2>1. i \in 1 .. m /\ i \in one + 1 .. one + n
    BY <1>4, <1>10
  <2> QED BY <1>4, <1>9, <1>13, <2>1
<1>16. ASSUME NEW i \in 1 .. n + 2, r[i] = CR, r[i + 1] = LF PROVE i = n + 2
  <2>1. i # 1
    BY <1>14, <1>16 DEF CR
  <2>2. CASE i \in 2 .. n
    <3>1. /\ i \in 2 .. n + 1 /\ i + 1 \in 2 .. n + 1
          /\ (i + 1) - 1 = (i - 1) + 1 /\ i - 1 \in 1 .. n - 1
      BY <2>2
    <3>2. text[i - 1] = CR /\ text[(i - 1) + 1] = LF
      BY <1>15, <1>16, <3>1
    <3>3. \A j \in 1 .. n - 1 : ~ (text[j] = CR /\ text[j + 1] = LF)
      BY <1>1 DEF NoLineEnd
    <3> QED BY <3>1, <3>2, <3>3
  <2>3. CASE i = n + 1
    <3>1. r[n + 2] = LF
      BY <1>16, <2>3
    <3> QED BY <1>14, <3>1, ByteKinds
  <2> QED BY <2>1, <2>2, <2>3
<1>17. Len(r) = n + 3
  BY <1>7, <1>13, <1>14
<1>18. CrlfLast(r)
  <2>1. (n + 3) - 1 = n + 2
    OBVIOUS
  <2> QED BY <1>16, <1>17, <2>1 DEF CrlfLast
<1>19. r = Plus(text)
  BY <1>2, <1>5, <1>8, <1>12 DEF Plus
<1>20. r # <<>>
  BY <1>13, <1>17
<1> QED BY <1>13, <1>18, <1>19, <1>20 DEF IsReply

(* So do all the replies there are.                                        *)
LEMMA RepliesAre ==
    /\ IsReply(Ok) /\ ~HasByte(Ok, "-")
    /\ IsReply(Minus) /\ Minus[1] = "-"
    /\ IsReply(Plus(<<"GOODBYE">>)) /\ IsReply(Plus(MetricsText))
    /\ \A text \in UserTexts : IsReply(Plus(text))
    /\ \A v \in DOMAIN Decimal : IsReply(Plus(Decimal[v]))
<1>1. CRLF \in Seq(ReplyByte)
  <2>1. CR \in ReplyByte /\ LF \in ReplyByte
    BY ByteKinds
  <2> QED BY <2>1 DEF CRLF
<1>2. IsReply(Ok) /\ IsReply(Plus(<<"GOODBYE">>))
  <2>1. <<"OK">> \in Seq(ReplyByte) /\ NoLineEnd(<<"OK">>)
    BY DEF ReplyByte, NoLineEnd
  <2>2. <<"GOODBYE">> \in Seq(ReplyByte) /\ NoLineEnd(<<"GOODBYE">>)
    BY DEF ReplyByte, NoLineEnd
  <2> QED BY <2>1, <2>2, PlusIs DEF Ok
<1>3. ~HasByte(Ok, "-")
  <2>1. PICK u \in Seq(ReplyByte) : u = <<"+">>
    <3>1. <<"+">> \in Seq(ReplyByte)
      BY DEF ReplyByte
    <3> QED BY <3>1
  <2>2. PICK v \in Seq(ReplyByte) : v = <<"OK">>
    <3>1. <<"OK">> \in Seq(ReplyByte)
      BY DEF ReplyByte
    <3> QED BY <3>1
  <2>3. PICK w \in Seq(ReplyByte) : w = CRLF
    BY <1>1
  <2>4. ~HasByte(u, "-") /\ ~HasByte(v, "-") /\ ~HasByte(w, "-")
    BY <2>1, <2>2, <2>3 DEF HasByte, CRLF, CR, LF
  <2>5. ~HasByte(u \o v, "-") /\ u \o v \in Seq(ReplyByte)
    BY <2>4, BytesJoined
  <2>6. ~HasByte((u \o v) \o w, "-")
    <3>1. PICK x \in Seq(ReplyByte) : x = u \o v
      BY <2>5
    <3>2. ~HasByte(x, "-")
      BY <2>5, <3>1
    <3>3. ~HasByte(x \o w, "-")
      BY <2>4, <3>2, BytesJoined
    <3> QED BY <3>1, <3>3
  <2> QED BY <2>1, <2>2, <2>3, <2>6 DEF Ok, Plus
<1>4. IsReply(Minus) /\ Minus[1] = "-"
  <2>1. PICK u \in Seq(ReplyByte) : u = <<"-", "error">>
    <3>1. <<"-", "error">> \in Seq(ReplyByte)
      BY DEF ReplyByte
    <3> QED BY <3>1
  <2>2. PICK w \in Seq(ReplyByte) : w = CRLF
    BY <1>1
  <2>3. PICK two \in Nat : two = Len(u)
    OBVIOUS
  <2>4. PICK too \in Nat : too = Len(w)
    OBVIOUS
  <2>5. two = 2 /\ u[1] = "-" /\ u[2] = "error" /\ too = 2 /\ w[1] = CR /\ w[2] = LF
    BY <2>1, <2>2, <2>3, <2>4 DEF CRLF
  <2>6. PICK m : m = u \o w
    OBVIOUS
  <2>7. /\ m \in Seq(ReplyByte) /\ Len(m) = two + too
        /\ \A i \in 1 .. two : m[i] = u[i]
        /\ \A i \in 1 .. too : m[two + i] = w[i]
    BY <2>3, <2>4, <2>6, Joined
  <2>8. Len(m) = 4 /\ m[1] = "-" /\ m[2] = "error" /\ m[3] = CR /\ m[4] = LF
    <3>1. 1 \in 1 .. two /\ 2 \in 1 .. two /\ 1 \in 1 .. too /\ 2 \in 1 .. too
          /\ two + 1 = 3 /\ two + 2 = 4 /\ two + too = 4
      BY <2>5
    <3> QED BY <2>5, <2>7, <3>1
  <2>9. CrlfLast(m) /\ m # <<>>
    <3>1. \A i \in 1 .. 3 : m[i] = CR => i = 3
      BY <2>8 DEF CR
    <3>2. \A i \in 1 .. 3 : m[i] = CR /\ m[i + 1] = LF => i + 1 = 4
      BY ONLY <3>1
    <3>3. CrlfLast(m)
      BY ONLY <2>8, <3>2 DEF CrlfLast
    <3>4. m # <<>>
      <4>1. Len(m) # 0
        BY <2>8
      <4> QED BY ONLY <4>1, SomeByte
    <3> QED BY ONLY <3>3, <3>4
  <2> QED BY <2>1, <2>2, <2>6, <2>7, <2>8, <2>9 DEF IsReply, Minus
<1>5. \A text \in {MetricsText} \cup UserTexts : IsReply(Plus(text))
  <2> TAKE text \in {MetricsText} \cup UserTexts
  <2>1. text \in Seq(LuluByte) /\ NoLineEnd(text)
    BY LuluSessionAssumption DEF LuluSessionAssumption
  <2>2. text \in Seq(ReplyByte)
    BY <2>1, ByteKinds
  <2> QED BY <2>1, <2>2, PlusIs
<1>6. \A v \in DOMAIN Decimal : IsReply(Plus(Decimal[v]))
  <2> TAKE v \in DOMAIN Decimal
  <2>1. PICK d \in Seq(Digit) : d = Decimal[v]
    BY LuluSessionAssumption DEF LuluSessionAssumption
  <2>2. d \in Seq(ReplyByte)
    BY ByteKinds
  <2>3. \A i \in 1 .. Len(d) : d[i] # CR
    BY ByteKinds
  <2>4. NoLineEnd(d)
    <3>1. PICK n \in Nat : n = Len(d)
      OBVIOUS
    <3>2. \A i \in 1 .. n - 1 : i \in 1 .. n
      OBVIOUS
    <3> QED BY <2>3, <3>1, <3>2 DEF NoLineEnd
  <2> QED BY <2>1, <2>2, <2>4, PlusIs
<1> QED BY <1>2, <1>3, <1>4, <1>5, <1>6

(* The parsers of the two states, and where GOODBYE is among them.         *)
LEMMA OrderIs ==
    /\ session = "HELLO_READ" => NotRecognised = 2 /\ Order[1] = "HELLO" /\ Order[2] = "GOODBYE"
    /\ session = "TRANSACTION_READ" =>
          /\ NotRecognised = 9 /\ Order[1] = "GOODBYE"
          /\ \A i \in 1 .. 9 : Order[i] \in Command \ {"HELLO"}
          /\ \A i \in 1 .. 9 : Order[i] = "GOODBYE" => i = 1
<1>1. ASSUME session = "HELLO_READ"
      PROVE  NotRecognised = 2 /\ Order[1] = "HELLO" /\ Order[2] = "GOODBYE"
  BY <1>1 DEF NotRecognised, Order, HelloOrder
<1>2. ASSUME session = "TRANSACTION_READ"
      PROVE  /\ NotRecognised = 9 /\ Order[1] = "GOODBYE"
             /\ \A i \in 1 .. 9 : Order[i] \in Command \ {"HELLO"}
             /\ \A i \in 1 .. 9 : Order[i] = "GOODBYE" => i = 1
  <2>1. Order = TransactionOrder
    BY <1>2 DEF Order
  <2>2. PICK t : t = TransactionOrder
    OBVIOUS
  <2>3. /\ Len(t) = 9
        /\ t[1] = "GOODBYE" /\ t[2] = "SET BUFFERSIZE" /\ t[3] = "METRICS"
        /\ t[4] = "GET BUFFERSIZE" /\ t[5] = "SET TIMEOUT" /\ t[6] = "SET USER"
        /\ t[7] = "LIST USERS" /\ t[8] = "DEL USER" /\ t[9] = "GET TIMEOUT"
    BY <2>2 DEF TransactionOrder
  <2>4. \A i \in 1 .. 9 : i = 1 \/ i = 2 \/ i = 3 \/ i = 4 \/ i = 5 \/ i = 6 \/ i = 7
                          \/ i = 8 \/ i = 9
    OBVIOUS
  <2>5. \A i \in 1 .. 9 : t[i] \in Command \ {"HELLO"}
    BY <2>3, <2>4 DEF Command
  <2>6. \A i \in 1 .. 9 : t[i] = "GOODBYE" => i = 1
    BY <2>3, <2>4
  <2> QED BY <2>1, <2>2, <2>3, <2>5, <2>6 DEF NotRecognised
<1> QED BY <1>1, <1>2

(* The parser the loop ends at.                                            *)
LEMMA ReachedIs ==
    ASSUME NEW N \in Nat, NotRecognised = N, NEW p \in 0 .. N, parserIndex = p,
           NEW chunk, NEW i, i = Reached(chunk)
    PROVE  /\ i \in p .. N
           /\ i # N => ~HasFailed(After(i, chunk))
           /\ \A j \in p .. i - 1 : HasFailed(After(j, chunk))
<1> DEFINE alive == {j \in p .. N - 1 : ~ HasFailed(After(j, chunk))}
<1>1. i = IF alive = {} THEN N ELSE CHOOSE m \in alive : \A j \in alive : m <= j
  <2>1. Len(Order) = N
    BY DEF NotRecognised
  <2>2. alive = {j \in parserIndex .. Len(Order) - 1 : ~ HasFailed(After(j, chunk))}
    BY <2>1
  <2> DEFINE alive2 == {j \in parserIndex .. Len(Order) - 1 : ~ HasFailed(After(j, chunk))}
  <2>3. Reached(chunk) = IF alive2 = {} THEN NotRecognised
                         ELSE CHOOSE m \in alive2 : \A j \in alive2 : m <= j
    BY DEF Reached
  <2> HIDE DEF alive, alive2
  <2>4. alive = alive2
    BY <2>2 DEF alive2
  <2> QED BY <2>3, <2>4
<1>2. CASE alive = {}
  <2>1. i = N
    BY <1>1, <1>2
  <2> QED BY <1>2, <2>1
<1>3. CASE alive # {}
  <2>1. alive \subseteq Nat
    OBVIOUS
  <2>2. \E m \in alive : \A j \in alive : m <= j
    <3> HIDE DEF alive
    <3> QED BY <1>3, <2>1, LeastNumber
  <2>3. i \in alive /\ \A j \in alive : i <= j
    <3> HIDE DEF alive
    <3>1. i = CHOOSE m \in alive : \A j \in alive : m <= j
      BY <1>1, <1>3
    <3> QED BY <2>2, <3>1
  <2>4. i \in p .. N - 1 /\ ~HasFailed(After(i, chunk))
    BY <2>3
  <2>5. \A j \in p .. i - 1 : HasFailed(After(j, chunk))
    <3> TAKE j \in p .. i - 1
    <3>1. j \notin alive
      <4>1. ~ (i <= j)
        BY <2>4
      <4> QED BY <2>3, <4>1
    <3>2. j \in p .. N - 1
      BY <2>4
    <3> QED BY <3>1, <3>2
  <2> QED BY <2>4, <2>5
<1> QED BY <1>2, <1>3

(* A parser that does not fail is not passed over.                         *)
LEMMA ReachedFirst ==
    ASSUME NEW N \in Nat, NotRecognised = N, NEW p \in 0 .. N, parserIndex = p, NEW chunk
    PROVE  /\ p # N /\ ~HasFailed(After(p, chunk)) => Reached(chunk) = p
           /\ p = N => Reached(chunk) = N
<1>1. PICK i : i = Reached(chunk)
  OBVIOUS
<1>2. i \in p .. N /\ \A j \in p .. i - 1 : HasFailed(After(j, chunk))
  BY <1>1, ReachedIs
<1>3. p # i => p \in p .. i - 1
  BY <1>2
<1> QED BY <1>1, <1>2, <1>3

(* A parser that is fed keeps the shape, and finishes at a \n.             *)
LEMMA AfterShape ==
    ASSUME Shape(parser), NEW i, Order[i + 1] \in Command, NEW S, NEW chunk \in Seq(S)
    PROVE  /\ Shape(After(i, chunk))
           /\ (i = parserIndex => parser.state # "Finished") =>
                 (After(i, chunk).state = "Finished" => HasByte(chunk, LF))
<1>1. PICK p : p = IF i = parserIndex THEN parser ELSE LuluReset
  OBVIOUS
<1>2. Shape(p)
  BY <1>1, ResetShape
<1>3. PICK n \in Nat : n = Len(chunk)
  OBVIOUS
<1>4. PICK k \in Command : k = Order[i + 1]
  OBVIOUS
<1>5. After(i, chunk) = Consume(k, p, chunk)
  BY <1>1, <1>4, Zenon DEF After
<1>6. Shape(Consume(k, p, chunk))
  BY <1>2, <1>3, ConsumeShape
<1>7. ASSUME i = parserIndex => parser.state # "Finished", Consume(k, p, chunk).state = "Finished"
      PROVE  HasByte(chunk, LF)
  <2>1. p.state # "Finished"
    BY <1>1, <1>7 DEF LuluReset
  <2> QED BY <1>2, <1>3, <1>7, <2>1, FinishesAtLf
<1> QED BY <1>5, <1>6, <1>7

(* What is not sent are bytes of the protocol.                             *)
LEMMA UnsentIs == Types => Unsent \in Seq(LuluByte)
<1>1. <<>> \in Seq(LuluByte)
  OBVIOUS
<1> QED BY <1>1 DEF Types, ChannelTypes, SessionTypes, ClientTypes, Unsent

(* A read splits what is on its way into the chunk c and the rest r.       *)
LEMMA ReadSplits ==
    ASSUME Types, NEW n \in Nat \ {0}, n <= Len(toServer), toServer' = Left(toServer, n),
           Unsent' = Unsent
    PROVE  \E c, r \in Seq(LuluByte) :
              /\ c = Taken(toServer, n) /\ Len(c) = n /\ c # <<>>
              /\ toServer = c \o r /\ toServer' = r
              /\ held \o c \in Seq(LuluByte) /\ r \o Unsent \in Seq(LuluByte)
              /\ Way = (held \o c) \o (r \o Unsent)
              /\ held' = held \o c => Way' = Way
              /\ held' = <<>> => Way' = r \o Unsent
<1>1. PICK t \in Seq(LuluByte) : t = toServer
  BY DEF Types, ChannelTypes, SessionTypes, ClientTypes
<1>2. PICK h \in Seq(LuluByte) : h = held
  BY DEF Types, ChannelTypes, SessionTypes, ClientTypes
<1>3. PICK u \in Seq(LuluByte) : u = Unsent
  BY UnsentIs
<1>4. PICK c \in Seq(LuluByte) : c = Taken(t, n) /\ Len(c) = n
  BY <1>1, TakenIs
<1>5. PICK m \in Nat : m = Len(t)
  OBVIOUS
<1>6. PICK r \in Seq(LuluByte) : r = Left(t, n)
  BY <1>1, <1>5, LeftIs
<1>7. c \o r = t
  BY <1>1, <1>4, <1>6, TakenLeft
<1>8. h \o c \in Seq(LuluByte) /\ r \o u \in Seq(LuluByte)
  OBVIOUS
<1>9. Way = (h \o (c \o r)) \o u
  BY <1>1, <1>2, <1>3, <1>7 DEF Way
<1>10. /\ (h \o (c \o r)) \o u = (h \o c) \o (r \o u)
       /\ ((h \o c) \o r) \o u = (h \o c) \o (r \o u)
  <2>1. (h \o c) \o r = h \o (c \o r)
    OBVIOUS
  <2>2. ASSUME NEW x \in Seq(LuluByte) PROVE (x \o r) \o u = x \o (r \o u)
    <3>1. Grouped(x, r, u)
      BY Regrouped
    <3> QED BY <3>1 DEF Grouped
  <2>3. ((h \o c) \o r) \o u = (h \o c) \o (r \o u)
    BY ONLY <1>8, <2>2
  <2> QED BY ONLY <2>1, <2>3
<1>11. ASSUME held' = h \o c PROVE Way' = Way
  <2>1. Way' = ((h \o c) \o r) \o u
    BY <1>1, <1>3, <1>6, <1>11 DEF Way
  <2> QED BY <1>9, <1>10, <2>1
<1>12. ASSUME held' = <<>> PROVE Way' = r \o u
  <2>1. Way' = (<<>> \o r) \o u
    BY <1>1, <1>3, <1>6, <1>12 DEF Way
  <2>2. <<>> \o r = r
    OBVIOUS
  <2> QED BY <2>1, <2>2
<1>13. c # <<>>
  BY <1>4
<1> QED BY <1>1, <1>2, <1>3, <1>4, <1>6, <1>7, <1>8, <1>9, <1>10, <1>11, <1>12, <1>13

(* A line that no parser takes is answered once it is whole.               *)
RunsUnknown(chunk) ==
    /\ EndsLine(held \o chunk)
    /\ reply' = Minus /\ UNCHANGED settings
    /\ Answers(Unknown) /\ UNCHANGED loggedIn

(* RunParsers when every parser has failed.                                *)
LEMMA RunUnknown ==
    ASSUME NEW chunk, RunParsers(chunk), Reached(chunk) = NotRecognised
    PROVE  /\ parserIndex' = NotRecognised /\ parser' = LuluReset /\ held' = <<>>
           /\ Waits \/ RunsUnknown(chunk)
  BY DEF RunParsers, HeldAfter, ListTooLong, UnknownLine, BuildClientNotRecognisedResponse,
         KeepsSettings, RunsUnknown

(* What a parser that does not fail makes of the chunk.                    *)
RunsOn(p, chunk) == ~HasFinished(p) /\ held' = held \o chunk /\ Waits
(* Parser i has read its line and answers it,                              *)
RunsOut(i, p) ==
    /\ HasFinished(p) /\ held' = <<>>
    /\ Response(Order[i + 1], p)
    /\ \E line : Answers(line)

(* or the answer, a list of users, does not fit.                           *)
RunsTooLong(i, p) ==
    /\ HasFinished(p) /\ held' = <<>>
    /\ Order[i + 1] = "LIST USERS" /\ session' = "ERROR"
    /\ taken' = Line("LIST USERS", <<>>, <<>>, 0)
    /\ UNCHANGED <<reply, loggedIn, settings>>

(* RunParsers when parser i has not failed.                                *)
LEMMA RunKnown ==
    ASSUME NEW chunk, RunParsers(chunk), NEW i, i = Reached(chunk), i # NotRecognised,
           NEW p, p = After(i, chunk)
    PROVE  /\ parserIndex' = i /\ parser' = p
           /\ RunsOn(p, chunk) \/ RunsOut(i, p) \/ RunsTooLong(i, p)
  BY DEF RunParsers, HeldAfter, ListTooLong, RunsOn, RunsOut, RunsTooLong

(* What depends on the login only.                                         *)
LEMMA LoginKept ==
    ASSUME login' = login
    PROVE  /\ Hello' = Hello /\ HelloEnd' = HelloEnd /\ (\A n : HelloParsed(n)' = HelloParsed(n))
           /\ GoodLogin' = GoodLogin /\ Refusable' = Refusable
<1>1. Hello' = Hello
  BY DEF Hello, Opening
<1>2. NameFrom' = NameFrom /\ PassFrom' = PassFrom /\ HelloEnd' = HelloEnd
  BY DEF NameFrom, PassFrom, HelloEnd
<1>3. \A n : HelloParsed(n)' = HelloParsed(n)
  BY <1>2 DEF HelloParsed
<1> QED BY <1>1, <1>2, <1>3 DEF GoodLogin, Refusable

(* What a HELLO that the parser has read to its end, or refused, was.      *)
LEMMA HelloEnds ==
    ASSUME login \in Logins, NEW n \in 0 .. HelloEnd
    PROVE  LET p == HelloParsed(n) IN
           /\ p.state # "Finished" /\ p.state # "Invalid" => ~HasFinished(p)
           /\ p.state = "Finished" => /\ n = HelloEnd /\ GoodLogin
                                      /\ p.name = login.name /\ p.pass = login.pass
           /\ p.state = "Invalid" => \/ login.name = <<>> /\ n >= PassFrom
                                     \/ login.pass = <<>> /\ n = HelloEnd
           /\ login.name = <<>> /\ n >= PassFrom => p.state = "Invalid"
<1>1. PICK nf \in Nat : nf = NameFrom
  BY HelloBytes
<1>2. PICK pf \in Nat : pf = PassFrom
  BY HelloBytes
<1>3. PICK he \in Nat : he = HelloEnd
  BY HelloBytes
<1>4. nf < pf /\ pf < he - 1 /\ n \in 0 .. he
  BY <1>1, <1>2, <1>3, HelloBytes
<1>5. PICK p : p = HelloParsed(n)
  OBVIOUS
<1>6. CASE n < nf
  <2>1. p = HelloParser("First", n, "First", <<>>, <<>>)
    BY <1>1, <1>5, <1>6 DEF HelloParsed
  <2>2. p.state = "First" /\ ~ (n >= pf)
    BY <1>4, <1>6, <2>1 DEF HelloParser
  <2> QED BY <1>2, <1>5, <2>2 DEF HasFinished
<1>7. CASE ~ (n < nf) /\ n < pf
  <2>1. p = HelloParser("Name", 0, "First", Taken(login.name, n - NameFrom), <<>>)
    BY <1>1, <1>2, <1>5, <1>7 DEF HelloParsed
  <2>2. p.state = "Name" /\ ~ (n >= pf)
    BY <1>4, <1>7, <2>1 DEF HelloParser
  <2> QED BY <1>2, <1>5, <2>2 DEF HasFinished
<1>8. CASE ~ (n < pf) /\ login.name = <<>>
  <2>1. ~ (n < nf) /\ n >= pf
    BY <1>4, <1>8
  <2>2. p = HelloParser("Invalid", 0, "First", <<>>, <<>>)
    BY <1>1, <1>2, <1>5, <1>8, <2>1 DEF HelloParsed
  <2>3. p.state = "Invalid"
    BY <2>2 DEF HelloParser
  <2> QED BY <1>2, <1>5, <1>8, <2>1, <2>3 DEF HasFinished
<1>9. CASE ~ (n < pf) /\ login.name # <<>> /\ n < he - 1
  <2>1. ~ (n < nf)
    BY <1>4, <1>9
  <2>2. p = HelloParser("Password", 0, "First", login.name, Taken(login.pass, n - PassFrom))
    BY <1>1, <1>2, <1>3, <1>5, <1>9, <2>1 DEF HelloParsed
  <2>3. p.state = "Password"
    BY <2>2 DEF HelloParser
  <2> QED BY <1>5, <1>9, <2>3 DEF HasFinished
<1>10. CASE ~ (n < pf) /\ login.name # <<>> /\ ~ (n < he - 1)
  <2>1. ~ (n < nf) /\ (n # he - 1 => n = he)
    BY <1>4, <1>10
  <2>2. p = HelloParser(IF n = he - 1 THEN "CRLF"
                        ELSE IF login.pass = <<>> THEN "Invalid" ELSE "Finished",
                        0, "Password", login.name, login.pass)
    BY <1>1, <1>2, <1>3, <1>5, <1>10, <2>1 DEF HelloParsed
  <2>3. /\ p.state = IF n = he - 1 THEN "CRLF"
                     ELSE IF login.pass = <<>> THEN "Invalid" ELSE "Finished"
        /\ p.name = login.name /\ p.pass = login.pass
    BY <2>2 DEF HelloParser
  <2> QED BY <1>3, <1>5, <1>10, <2>1, <2>3 DEF HasFinished, GoodLogin
<1> QED BY <1>4, <1>6, <1>7, <1>8, <1>9, <1>10

(* A read of the server in the middle of a HELLO: c is its next n bytes,   *)
(* and v what is still to come.                                            *)
HelloAt(a, n, c, v) ==
    /\ a = Len(held) /\ a + n <= HelloEnd
    /\ After(0, c) = HelloParsed(a + n)
    /\ \A i \in 1 .. n : c[i] = Hello[a + i]
    /\ a + n = HelloEnd => v = <<>>

(* A chunk read while HELLO still reads is the next of its message.        *)
LEMMA HelloAfter ==
    ASSUME Types, HelloReading, session = "HELLO_READ", parserIndex = 0,
           NEW n \in Nat, NEW c \in Seq(LuluByte), n = Len(c), NEW v \in Seq(LuluByte),
           held \o c \in Seq(LuluByte), Way = (held \o c) \o v
    PROVE  \E a \in Nat : HelloAt(a, n, c, v)
<1>1. login \in Logins /\ held \in Seq(LuluByte)
  BY DEF Types, ChannelTypes, SessionTypes, ClientTypes
<1>2. PICK h \in Seq(LuluByte) : h = held
  BY <1>1
<1>3. PICK a \in Nat : a = Len(h)
  OBVIOUS
<1>4. PICK x \in Seq(LuluByte) : x = h \o c
  BY <1>2
<1>5. Len(x) = a + n /\ \A i \in 1 .. n : x[a + i] = c[i]
  BY <1>3, <1>4, Joined
<1>6. Begins(x \o v)
  BY <1>2, <1>4 DEF HelloReading
<1>7. Begins(x) /\ (Len(x) = HelloEnd => v = <<>>)
  BY <1>1, <1>6, BeginsParts
<1>8. a + n <= HelloEnd /\ \A i \in 1 .. a + n : x[i] = Hello[i]
  BY <1>5, <1>7 DEF Begins
<1>9. \A i \in 1 .. n : c[i] = Hello[a + i]
  <2> TAKE i \in 1 .. n
  <2>1. a + i \in 1 .. a + n
    OBVIOUS
  <2> QED BY <1>5, <1>8, <2>1
<1>10. Consume("HELLO", HelloParsed(a), c) = HelloParsed(a + n)
  BY <1>1, <1>8, <1>9, HelloChunk
<1>11. After(0, c) = Consume("HELLO", HelloParsed(a), c)
  BY <1>2, <1>3, OrderIs DEF After, HelloReading
<1> QED BY <1>2, <1>3, <1>5, <1>7, <1>8, <1>9, <1>10, <1>11 DEF HelloAt

(* A HELLO that fails is not taken for a GOODBYE.                          *)
LEMMA HelloNotGoodbye ==
    ASSUME Types, HelloReading, session = "HELLO_READ", parserIndex = 0,
           NEW n \in Nat \ {0}, NEW c \in Seq(LuluByte), n = Len(c),
           NEW a \in Nat, a = Len(held), a + n <= HelloEnd,
           \A i \in 1 .. n : c[i] = Hello[a + i],
           LfLast(c), HelloParsed(a + n).state = "Invalid"
    PROVE  ~GoodLogin /\ HasFailed(After(1, c))
<1>1. login \in Logins /\ parser = HelloParsed(a) /\ ~HasFinished(parser)
  BY DEF Types, ChannelTypes, SessionTypes, ClientTypes, HelloReading
<1>2. a + n \in 0 .. HelloEnd /\ a \in 0 .. HelloEnd
  BY <1>1, HelloBytes
<1>3. \/ login.name = <<>> /\ a + n >= PassFrom
      \/ login.pass = <<>> /\ a + n = HelloEnd
  BY <1>1, <1>2, HelloEnds
<1>4. ~ (login.name = <<>> /\ a >= PassFrom)
  <2>1. login.name = <<>> /\ a >= PassFrom => HelloParsed(a).state = "Invalid"
    BY <1>1, <1>2, HelloEnds
  <2> QED BY <1>1, <2>1 DEF HasFinished
<1>5. HasByte(c, Bar) \/ c[1] \in {CR, LF}
  <2>1. PICK pf \in Nat : pf = PassFrom
    BY <1>1, HelloBytes
  <2>2. PICK he \in Nat : he = HelloEnd
    BY <1>1, HelloBytes
  <2>3. Hello[pf] = Bar /\ Hello[he - 1] = CR /\ Hello[he] = LF
    BY <1>1, <2>1, <2>2, HelloBytes
  <2>4. CASE a < pf /\ pf <= a + n
    <3>1. n \in Nat /\ pf - a \in 1 .. n
      BY <2>4
    <3>2. PICK j \in 1 .. n : j = pf - a
      BY <3>1
    <3>3. c[j] = Hello[a + j] /\ a + j = pf
      BY <3>2
    <3> QED BY <2>3, <3>3 DEF HasByte
  <2>5. CASE login.pass = <<>> /\ a + n = he /\ a >= pf
    <3>1. he = pf + 2
      BY <1>1, <2>1, <2>2, <2>5 DEF HelloEnd
    <3>2. a + 1 = he - 1 \/ a + 1 = he
      BY <2>5, <3>1
    <3>3. c[1] = Hello[a + 1]
      OBVIOUS
    <3> QED BY <2>3, <3>2, <3>3
  <2>6. pf < he
    BY <1>1, <2>1, <2>2, HelloBytes
  <2> QED BY <1>3, <1>4, <2>1, <2>2, <2>4, <2>5, <2>6
<1>6. Reads(LuluReset)
  BY ResetShape, WordsAre DEF Reads, LuluReset, Words
<1>7. Consume("GOODBYE", LuluReset, c).state = "Invalid"
  BY <1>5, <1>6, GoodbyeChunk
<1>8. After(1, c) = Consume("GOODBYE", LuluReset, c)
  BY OrderIs DEF After
<1>9. ~GoodLogin
  BY <1>3 DEF GoodLogin
<1> QED BY <1>7, <1>8, <1>9 DEF HasFailed

(* UName of a name that fills its array is longer than any account's.      *)
LEMMA LongName ==
    ASSUME login \in Logins, NEW p, p.name = login.name, p.pass = login.pass,
           login.pass # <<>>, ~ (Len(login.name) < MaxLong)
    PROVE  Len(UName(p)) > MaxLong
<1>1. PICK s \in Seq(LuluByte) : s = login.name
  BY LoginTypes DEF Text
<1>2. PICK t \in Seq(LuluByte) : t = login.pass
  BY LoginTypes DEF Text
<1>3. PICK b \in Nat : b = Len(t)
  OBVIOUS
<1>4. b > 0
  BY <1>2, <1>3
<1>5. PICK m \in Nat : m = MaxLong
  BY LuluParsersAssumption
<1>6. Len(s) = m
  BY <1>1, <1>5, LoginTypes
<1>7. PICK e \in Seq(LuluByte) : e = <<>>
  <2>1. <<>> \in Seq(LuluByte)
    OBVIOUS
  <2> QED BY <2>1
<1>8. SubSeq(s, m + 1, Len(s)) = e
  BY <1>6, <1>7, SubSeqEmpty
<1>9. SubSeq(e, b + 1, Len(e)) = e
  <2>1. Len(e) = 0
    BY <1>7, EmptyParts
  <2>2. 0 < b + 1
    OBVIOUS
  <2> QED BY <1>7, <2>1, <2>2, SubSeqEmpty
<1>10. PICK g \in Seq(LuluByte) : g = SubSeq(s, 1, m) /\ Len(g) = m
  BY <1>6, TakenIs DEF Taken
<1>11. Len(g \o t \o e) = m + b
  <2>1. g \o t \in Seq(LuluByte) /\ Len(g \o t) = m + b
    BY <1>3, <1>10
  <2>2. PICK k \in Seq(LuluByte) : k = g \o t
    BY <2>1
  <2>3. Len(k \o e) = m + b
    BY <1>7, <2>1, <2>2, EmptyParts
  <2> QED BY <2>2, <2>3
<1>12. UName(p) = g \o t \o e
  BY <1>1, <1>2, <1>3, <1>5, <1>6, <1>8, <1>9, <1>10 DEF UName
<1> QED BY <1>4, <1>5, <1>11, <1>12

(* So is Passwd of a password that fills its array.                        *)
LEMMA LongPassword ==
    ASSUME login \in Logins, NEW p, p.pass = login.pass, ~ (Len(login.pass) < MaxLong)
    PROVE  Len(Passwd(p)) > MaxLong
<1>1. PICK t \in Seq(LuluByte) : t = login.pass
  BY LoginTypes DEF Text
<1>2. PICK m \in Nat : m = MaxLong
  BY LuluParsersAssumption
<1>3. Len(t) = m
  BY <1>1, <1>2, LoginTypes
<1>4. PICK w \in Seq(LuluByte) : w = Word["HELLO"] /\ w # <<>>
  <2>1. Word["HELLO"] \in Seq(Letter) \ {<<>>}
    BY LuluParsersAssumption DEF Words
  <2>2. Word["HELLO"] \in Seq(LuluByte)
    BY <2>1 DEF LuluByte
  <2> QED BY <2>1, <2>2
<1>5. PICK e \in Seq(LuluByte) : e = SubSeq(w, Len(t) - m + 1, Len(w)) /\ Len(e) = Len(w)
  <2>1. Len(t) - m + 1 = 1
    BY <1>2, <1>3
  <2>2. SubSeq(w, 1, Len(w)) = w
    OBVIOUS
  <2> QED BY <2>1, <2>2
<1>6. Len(w) \in Nat /\ Len(w) > 0
  BY <1>4, EmptyParts
<1>7. Len(t \o e) = m + Len(w)
  BY <1>3, <1>5
<1>8. Passwd(p) = t \o e
  BY <1>1, <1>2, <1>4, <1>5 DEF Passwd
<1> QED BY <1>2, <1>6, <1>7, <1>8

(* HELLO read to its end is answered as the login deserves.                *)
LEMMA HelloAnswered ==
    ASSUME login \in Logins, GoodLogin, NEW p, p.name = login.name, p.pass = login.pass,
           BuildClientHelloResponse(p)
    PROVE  /\ loggedIn' \in BOOLEAN /\ UNCHANGED settings
           /\ loggedIn' => reply' = Ok /\ login \in Accounts
           /\ ~loggedIn' => reply' = Minus /\ Refusable
<1>1. /\ loggedIn' = (\E a \in Accounts : a.name = UName(p) /\ a.pass = Passwd(p))
      /\ reply' = IF loggedIn' THEN Ok ELSE Minus
      /\ UNCHANGED settings
  BY DEF BuildClientHelloResponse, KeepsSettings
<1>2. login \in [name : Seq(LuluByte \ {Bar, CR, LF}), pass : Seq(LuluByte \ {Bar, CR, LF})]
  BY LuluClientAssumption
<1>3. CASE Len(login.name) < MaxLong /\ Len(login.pass) < MaxLong
  <2>1. UName(p) = login.name /\ Passwd(p) = login.pass
    BY <1>3 DEF UName, Passwd
  <2>2. ASSUME NEW a \in Accounts, a.name = login.name, a.pass = login.pass
        PROVE  a = login
    <3>1. a \in [name : Seq(LuluByte), pass : Seq(LuluByte)]
      BY LuluSessionAssumption
    <3> QED BY <1>2, <2>2, <3>1
  <2>3. loggedIn' => login \in Accounts
    BY <1>1, <2>1, <2>2
  <2>4. login \in Accounts => loggedIn'
    BY <1>1, <2>1
  <2> QED BY <1>1, <2>3, <2>4 DEF Refusable
<1>4. CASE ~ (Len(login.name) < MaxLong)
  <2>1. Len(UName(p)) > MaxLong
    BY <1>4, LongName DEF GoodLogin
  <2>2. \A a \in Accounts : Len(a.name) <= MaxLong
    BY LuluSessionAssumption
  <2>3. MaxLong \in Nat
    BY LuluParsersAssumption
  <2>4. ~loggedIn' /\ loggedIn' \in BOOLEAN
    <3>1. ASSUME NEW a \in Accounts, a.name = UName(p) PROVE FALSE
      <4>1. Len(a.name) <= MaxLong /\ Len(a.name) > MaxLong
        BY <2>1, <2>2, <3>1
      <4>2. Len(a.name) \in 1 .. MaxLong
        BY LuluSessionAssumption
      <4> QED BY <2>3, <4>1, <4>2
    <3> QED BY <1>1, <3>1
  <2>5. Len(login.name) >= MaxLong
    BY <1>4, <2>3, LoginTypes
  <2> QED BY <1>1, <2>4, <2>5 DEF Refusable
<1>5. CASE ~ (Len(login.pass) < MaxLong)
  <2>1. Len(Passwd(p)) > MaxLong
    BY <1>5, LongPassword
  <2>2. \A a \in Accounts : Len(a.pass) <= MaxLong
    BY LuluSessionAssumption
  <2>3. MaxLong \in Nat
    BY LuluParsersAssumption
  <2>4. ~loggedIn' /\ loggedIn' \in BOOLEAN
    <3>1. ASSUME NEW a \in Accounts, a.pass = Passwd(p) PROVE FALSE
      <4>1. Len(a.pass) <= MaxLong /\ Len(a.pass) > MaxLong
        BY <2>1, <2>2, <3>1
      <4>2. Len(a.pass) \in 1 .. MaxLong
        BY LuluSessionAssumption
      <4> QED BY <2>3, <4>1, <4>2
    <3> QED BY <1>1, <3>1
  <2>5. Len(login.pass) >= MaxLong
    BY <1>5, <2>3, LoginTypes
  <2> QED BY <1>1, <2>4, <2>5 DEF Refusable
<1> QED BY <1>3, <1>4, <1>5

(* An account has a name and a password.                                   *)
LEMMA BadLogin ==
    ASSUME ~GoodLogin
    PROVE  Refusable
  BY LuluSessionAssumption DEF GoodLogin, Refusable

(* A parser at its start has read nothing of any command.                  *)
LEMMA ResetIs ==
    /\ ~HasFinished(LuluReset) /\ Shape(LuluReset) /\ LuluReset.value <= MaxValue
    /\ Reads(LuluReset)
    /\ login \in Logins => LuluReset = HelloParsed(0)
<1>1. Reads(LuluReset)
  BY ResetShape, WordsAre DEF Reads, LuluReset, Words
<1>2. ASSUME login \in Logins PROVE LuluReset = HelloParsed(0)
  <2>1. 0 < NameFrom
    BY <1>2, HelloBytes
  <2> QED BY <2>1 DEF HelloParsed, HelloParser, LuluReset
<1>3. LuluReset.value <= MaxValue
  BY LuluParsersAssumption DEF LuluReset
<1> QED BY <1>1, <1>2, <1>3, ResetShape DEF HasFinished, LuluReset

(* What HelloRead leaves, with c read and r still to come.                 *)
HelloGoesOn ==
    /\ session' = "HELLO_READ" /\ UNCHANGED <<reply, loggedIn, settings>>
    /\ Len(Way') <= Len(Way)

(* or HELLO is answered, by Ok or Minus.                                   *)
HelloIsAnswered ==
    /\ session' = "HELLO_WRITE" /\ held' = <<>> /\ Way' = <<>> /\ UNCHANGED settings
    /\ parserIndex' \in {0, 2} /\ loggedIn' \in BOOLEAN
    /\ \/ parserIndex' = 0 /\ loggedIn' /\ login \in Accounts /\ reply' = Ok
       \/ ~ (parserIndex' = 0 /\ loggedIn') /\ Refusable /\ reply' = Minus

(* One of the two, with the types that do not depend on which.             *)
HelloOutcome ==
    /\ Shape(parser') /\ parser'.value <= MaxValue /\ held' \in Seq(LuluByte)
    /\ HelloReading'
    /\ HelloGoesOn \/ HelloIsAnswered

(* c is read, r is behind it on its way, and v is all that follows.         *)
ReadStep(n, c, r, v) ==
    /\ Types
    /\ n \in Nat \ {0} /\ c \in Seq(LuluByte) /\ n = Len(c)
    /\ r \in Seq(LuluByte) /\ v \in Seq(LuluByte) /\ v = r \o Unsent
    /\ held \o c \in Seq(LuluByte)
    /\ Way = (held \o c) \o v
    /\ held' = held \o c => Way' = Way
    /\ held' = <<>> => Way' = v
    /\ RunParsers(c)
    /\ login' = login

(* The same while HELLO is read.                                           *)
HelloStep(n, c, r, v) == ReadStep(n, c, r, v) /\ HelloReading /\ session = "HELLO_READ"

(* HELLO still reads, or has read its end.                                 *)
LEMMA HelloReadKnown ==
    ASSUME NEW n, NEW c, NEW r, NEW v, HelloStep(n, c, r, v),
           parserIndex = 0, Reached(c) = 0
    PROVE  HelloOutcome
<1>1. login \in Logins
  BY DEF ReadStep, HelloStep, Types, ClientTypes
<1>2. PICK a \in Nat : HelloAt(a, n, c, v)
  BY HelloAfter DEF ReadStep, HelloStep
<1>3. /\ a = Len(held) /\ a + n <= HelloEnd
      /\ After(0, c) = HelloParsed(a + n)
      /\ a + n = HelloEnd => v = <<>>
  BY <1>2 DEF HelloAt
<1>4. PICK p : p = After(0, c)
  OBVIOUS
<1>5. NotRecognised = 2 /\ Order[0 + 1] = "HELLO"
  BY OrderIs DEF ReadStep, HelloStep
<1>6. p.state # "Invalid"
  <2>1. 0 \in 0 .. 2 /\ 2 \in Nat
    OBVIOUS
  <2>2. ~HasFailed(After(0, c))
    BY <1>5, <2>1, ReachedIs
  <2> QED BY <1>4, <2>2 DEF HasFailed
<1>7. a + n \in 0 .. HelloEnd /\ HelloEnd \in Nat /\ n \in Nat
  BY <1>1, <1>3, HelloBytes DEF ReadStep, HelloStep
<1>8. p.state = "Finished" \/ ~HasFinished(p)
  BY <1>6 DEF HasFinished
<1>9. Shape(p) /\ p.value <= MaxValue
  <2>1. PICK i : i = 0 /\ Order[i + 1] = "HELLO"
    BY <1>5
  <2>2. Shape(p)
    <3>1. Order[i + 1] \in Command /\ Shape(parser) /\ c \in Seq(LuluByte)
      BY <2>1 DEF ReadStep, HelloStep, Types, SessionTypes, Command
    <3>2. Shape(After(i, c))
      BY <3>1, AfterShape
    <3> QED BY <1>4, <2>1, <3>2
  <2>3. HelloParsed(a + n).value = 0
    BY DEF HelloParsed, HelloParser
  <2> QED BY <1>3, <1>4, <2>2, <2>3, LuluParsersAssumption
<1>10. /\ parserIndex' = 0 /\ parser' = p
      /\ \/ ~HasFinished(p) /\ held' = held \o c /\ Waits
         \/ /\ HasFinished(p) /\ held' = <<>>
            /\ Response("HELLO", p)
            /\ \E line : Answers(line)
  <2>1. PICK i : i = 0
    OBVIOUS
  <2>2. i # NotRecognised /\ i = Reached(c) /\ RunParsers(c) /\ p = After(i, c)
    BY <1>4, <1>5, <2>1 DEF ReadStep, HelloStep
  <2>3. Order[i + 1] = "HELLO"
    BY <1>5, <2>1
  <2>4. /\ parserIndex' = i /\ parser' = p
        /\ RunsOn(p, c) \/ RunsOut(i, p) \/ RunsTooLong(i, p)
    BY <2>2, RunKnown
  <2> QED BY <2>1, <2>3, <2>4 DEF RunsOn, RunsOut, RunsTooLong
<1>11. CASE ~HasFinished(p) /\ held' = held \o c /\ Waits
  <2>1. session' = "HELLO_READ" /\ UNCHANGED <<reply, loggedIn, settings>> /\ Way' = Way
    BY <1>11 DEF Waits, HelloStep, ReadStep
  <2>2. PICK x \in Seq(LuluByte) : x = held \o c
    BY DEF ReadStep, HelloStep
  <2>3. PICK h \in Seq(LuluByte) : h = held
    BY DEF ReadStep, HelloStep, Types, SessionTypes
  <2>4. Len(x) = a + n
    BY <1>3, <2>2, <2>3, Joined DEF ReadStep, HelloStep
  <2>5. Len(held') = a + n
    BY <1>11, <2>2, <2>4
  <2>6. PICK b : b = a + n
    OBVIOUS
  <2>7. HelloParsed(b)' = HelloParsed(b)
    BY LoginKept DEF ReadStep, HelloStep
  <2>8. parser' = HelloParsed(Len(held))'
    BY <1>3, <1>4, <1>10, <2>5, <2>6, <2>7
  <2>9. Begins(Way)'
    <3>1. Begins(Way)
      BY DEF ReadStep, HelloStep, HelloReading
    <3>2. HelloEnd' = HelloEnd /\ Hello' = Hello
      BY LoginKept DEF ReadStep, HelloStep
    <3> QED BY <2>1, <3>1, <3>2 DEF Begins
  <2>10. HelloReading'
    BY <1>10, <1>11, <2>1, <2>8, <2>9 DEF HelloReading, HelloStep, ReadStep, HasFinished
  <2>11. Len(Way') <= Len(Way)
    <3>1. PICK y \in Seq(LuluByte) : y = v
      BY DEF ReadStep, HelloStep
    <3>2. Way = x \o y
      BY <2>2, <3>1 DEF ReadStep, HelloStep
    <3>3. Len(x \o y) \in Nat
      OBVIOUS
    <3> QED BY <2>1, <3>2, <3>3
  <2> QED BY <1>9, <1>10, <1>11, <2>1, <2>2, <2>10, <2>11 DEF HelloOutcome, HelloGoesOn
<1>12. CASE HasFinished(p) /\ held' = <<>> /\ Response("HELLO", p) /\ \E line : Answers(line)
  <2>1. p.state = "Finished"
    BY <1>8, <1>12
  <2>2. a + n = HelloEnd /\ GoodLogin /\ p.name = login.name /\ p.pass = login.pass
    BY <1>1, <1>3, <1>4, <1>7, <2>1, HelloEnds
  <2>3. Way' = <<>>
    BY <1>3, <1>12, <2>2 DEF ReadStep, HelloStep
  <2>4. session' = "HELLO_WRITE"
    BY <1>12 DEF Answers, HelloStep, ReadStep
  <2>5. BuildClientHelloResponse(p)
    BY <1>12, Zenon DEF Response
  <2>6. /\ loggedIn' \in BOOLEAN /\ UNCHANGED settings
        /\ loggedIn' => reply' = Ok /\ login \in Accounts
        /\ ~loggedIn' => reply' = Minus /\ Refusable
    BY <1>1, <2>2, <2>5, HelloAnswered
  <2>7. HelloReading'
    BY <2>4 DEF HelloReading
  <2>8. <<>> \in Seq(LuluByte)
    OBVIOUS
  <2>9. HelloIsAnswered
    BY <1>10, <1>12, <2>3, <2>4, <2>6 DEF HelloIsAnswered
  <2> QED BY <1>9, <1>10, <1>12, <2>7, <2>8, <2>9 DEF HelloOutcome
<1> QED BY <1>10, <1>11, <1>12

(* No parser is left: only for a login that HELLO cannot read.             *)
LEMMA HelloReadUnknown ==
    ASSUME NEW n, NEW c, NEW r, NEW v, HelloStep(n, c, r, v),
           Reached(c) = 2, ~GoodLogin, LfLast(Way)
    PROVE  HelloOutcome
<1>1. NotRecognised = 2
  BY OrderIs DEF HelloStep, ReadStep
<1>2. PICK x \in Seq(LuluByte) : x = held \o c
  BY DEF HelloStep, ReadStep
<1>3. PICK y \in Seq(LuluByte) : y = v
  BY DEF HelloStep, ReadStep
<1>4. Way = x \o y
  BY <1>2, <1>3 DEF HelloStep, ReadStep
<1>5. LfLast(x \o y)
  BY <1>4
<1>6. LfLast(y) /\ (HasByte(x, LF) => y = <<>>)
  BY <1>5, LfParts
<1>7. parserIndex' = 2 /\ parser' = LuluReset /\ held' = <<>> /\ (Waits \/ RunsUnknown(c))
  BY <1>1, RunUnknown DEF HelloStep, ReadStep
<1>8. Way' = y
  BY <1>3, <1>7 DEF HelloStep, ReadStep
<1>9. <<>> \in Seq(LuluByte)
  OBVIOUS
<1>10. CASE Waits
  <2>1. session' = "HELLO_READ" /\ UNCHANGED <<reply, loggedIn, settings>>
    BY <1>10 DEF Waits, HelloStep, ReadStep
  <2>2. Len(y) <= Len(Way)
    <3>1. Len(x \o y) = Len(x) + Len(y) /\ Len(x) \in Nat /\ Len(y) \in Nat
      OBVIOUS
    <3>2. Len(Way) = Len(x) + Len(y)
      BY <1>4, <3>1
    <3> QED BY <3>1, <3>2
  <2>3. LfLast(Way)'
    BY <1>6, <1>8 DEF LfLast
  <2>4. ~GoodLogin'
    BY LoginKept DEF HelloStep, ReadStep
  <2>5. reply = <<>> /\ ~loggedIn
    BY DEF HelloStep, ReadStep, HelloReading
  <2>6. HelloReading'
    BY <1>7, <2>1, <2>3, <2>4, <2>5 DEF HelloReading
  <2>7. HelloGoesOn
    BY <1>8, <2>1, <2>2 DEF HelloGoesOn
  <2> QED BY <1>7, <1>9, <2>6, <2>7, ResetIs DEF HelloOutcome
<1>11. CASE RunsUnknown(c)
  <2>1. HasByte(x, LF)
    <3>1. EndsLine(x)
      BY <1>2, <1>11 DEF RunsUnknown
    <3> QED BY <3>1, EndsLineLast DEF HasByte
  <2>2. Way' = <<>>
    BY <1>6, <1>8, <2>1
  <2>3. session' = "HELLO_WRITE" /\ reply' = Minus /\ UNCHANGED settings /\ UNCHANGED loggedIn
    BY <1>11 DEF RunsUnknown, Answers, HelloStep, ReadStep
  <2>4. loggedIn' \in BOOLEAN
    BY <2>3 DEF HelloStep, ReadStep, Types, SessionTypes
  <2>5. HelloIsAnswered
    BY <1>7, <2>2, <2>3, <2>4, BadLogin DEF HelloIsAnswered
  <2>6. HelloReading'
    BY <2>3 DEF HelloReading
  <2> QED BY <1>7, <1>9, <2>5, <2>6, ResetIs DEF HelloOutcome
<1> QED BY <1>7, <1>10, <1>11

(* Every read of LuluHelloReadRun.                                         *)
LEMMA HelloRead ==
    ASSUME NEW n, NEW c, NEW r, NEW v, HelloStep(n, c, r, v)
    PROVE  HelloOutcome
<1>1. NotRecognised = 2 /\ 2 \in Nat
  BY OrderIs DEF HelloStep, ReadStep
<1>2. parserIndex \in {0, 2}
  BY DEF HelloStep, ReadStep, HelloReading
<1>3. PICK x \in Seq(LuluByte) : x = held \o c
  BY DEF HelloStep, ReadStep
<1>4. PICK y \in Seq(LuluByte) : y = v
  BY DEF HelloStep, ReadStep
<1>5. Way = x \o y
  BY <1>3, <1>4 DEF HelloStep, ReadStep
<1>6. CASE parserIndex = 0 /\ ~HasFailed(After(0, c))
  <2>1. PICK p \in 0 .. 2 : p = 0
    OBVIOUS
  <2>2. Reached(c) = p
    BY <1>1, <1>6, <2>1, ReachedFirst
  <2> QED BY <1>6, <2>1, <2>2, HelloReadKnown
<1>7. CASE parserIndex = 0 /\ HasFailed(After(0, c))
  <2>1. parserIndex = 0
    BY <1>7
  <2>2. PICK a \in Nat : HelloAt(a, n, c, v)
    BY <2>1, HelloAfter DEF HelloStep, ReadStep
  <2>3. /\ a = Len(held) /\ a + n <= HelloEnd
         /\ After(0, c) = HelloParsed(a + n)
         /\ \A i \in 1 .. n : c[i] = Hello[a + i]
    BY <2>2 DEF HelloAt
  <2>4. LfLast(x \o y)
    <3>1. x \o y \in Seq(LuluByte) /\ Begins(x \o y) /\ login \in Logins
      BY <1>5, <1>7 DEF HelloStep, ReadStep, HelloReading, Types, ClientTypes
    <3> QED BY <3>1, BeginsLf
  <2>5. LfLast(c)
    <3>1. LfLast(x)
      BY <2>4, LfParts
    <3>2. PICK h \in Seq(LuluByte) : h = held
      BY DEF HelloStep, ReadStep, Types, SessionTypes
    <3>3. LfLast(h \o c) /\ c \in Seq(LuluByte)
      BY <1>3, <3>1, <3>2 DEF HelloStep, ReadStep
    <3> QED BY <3>3, LfParts
  <2>6. HelloParsed(a + n).state = "Invalid"
    BY <1>7, <2>3 DEF HasFailed
  <2>7. ~GoodLogin /\ HasFailed(After(1, c))
    BY <1>7, <2>3, <2>5, <2>6, HelloNotGoodbye DEF HelloStep, ReadStep
  <2>8. Reached(c) = 2
    <3>1. PICK i : i = Reached(c)
      OBVIOUS
    <3>2. PICK p \in 0 .. 2 : p = 0
      OBVIOUS
    <3>3. i \in p .. 2 /\ (i # 2 => ~HasFailed(After(i, c)))
      BY <1>1, <1>7, <3>1, <3>2, ReachedIs
    <3>4. i = 0 \/ i = 1 \/ i = 2
      BY <3>2, <3>3
    <3> QED BY <1>7, <2>7, <3>1, <3>3, <3>4
  <2>9. LfLast(Way)
    BY <1>5, <2>4
  <2> QED BY <2>7, <2>8, <2>9, HelloReadUnknown
<1>8. CASE parserIndex = 2
  <2>1. ~GoodLogin /\ LfLast(Way)
    BY <1>8 DEF HelloStep, ReadStep, HelloReading
  <2>2. Reached(c) = 2
    <3>1. PICK p \in 0 .. 2 : p = 2
      OBVIOUS
    <3> QED BY <1>1, <1>8, <3>1, ReachedFirst
  <2> QED BY <2>1, <2>2, HelloReadUnknown
<1> QED BY <1>2, <1>6, <1>7, <1>8

(* The settings are numbers of their range.                                *)
SettingsTypes ==
    /\ timeout \in 0 .. MaxValue \cup {DefaultTimeout}
    /\ bufferSize \in 0 .. MaxValue \cup {DefaultBufferSize}

(* Every answer but that to HELLO is a reply, and keeps the settings so.   *)
LEMMA ResponseIs ==
    ASSUME SettingsTypes, NEW k \in Command \ {"HELLO"}, NEW p, Shape(p), p.value <= MaxValue,
           Response(k, p)
    PROVE  loggedIn' = loggedIn /\ IsReply(reply') /\ SettingsTypes'
<1>1. loggedIn' = loggedIn
  BY DEF Response
<1>2. p.value \in 0 .. MaxValue
  BY LuluParsersAssumption DEF Shape
<1>3. timeout \in DOMAIN Decimal /\ bufferSize \in DOMAIN Decimal
  BY LuluSessionAssumption DEF SettingsTypes
<1>4. ASSUME KeepsSettings, IsReply(reply') PROVE IsReply(reply') /\ SettingsTypes'
  BY <1>4 DEF KeepsSettings, SettingsTypes, settings
<1>5. IsReply(Ok) /\ IsReply(Minus)
  BY RepliesAre
<1>6. CASE k = "GOODBYE"
  <2>1. BuildClientGoodbyeResponse
    BY <1>6, Zenon DEF Response
  <2> QED BY <1>1, <1>4, <2>1, RepliesAre DEF BuildClientGoodbyeResponse
<1>7. CASE k = "SET BUFFERSIZE"
  <2>1. BuildClientSetBufferSizeResponse(p.value)
    BY <1>7, Zenon DEF Response
  <2> QED BY <1>1, <1>2, <1>5, <2>1 DEF BuildClientSetBufferSizeResponse, SettingsTypes
<1>8. CASE k = "METRICS"
  <2>1. BuildClientGetMetricsResponse
    BY <1>8, Zenon DEF Response
  <2> QED BY <1>1, <1>4, <2>1, RepliesAre DEF BuildClientGetMetricsResponse
<1>9. CASE k = "GET BUFFERSIZE"
  <2>1. BuildClientGetBufferSizeResponse
    BY <1>9, Zenon DEF Response
  <2> QED BY <1>1, <1>3, <1>4, <2>1, RepliesAre DEF BuildClientGetBufferSizeResponse
<1>10. CASE k = "SET TIMEOUT"
  <2>1. BuildClientSetTimeoutResponse(p.value)
    BY <1>10, Zenon DEF Response
  <2> QED BY <1>1, <1>2, <1>5, <2>1 DEF BuildClientSetTimeoutResponse, SettingsTypes
<1>11. CASE k = "SET USER"
  <2>1. BuildClientSetUserResponse
    BY <1>11, Zenon DEF Response
  <2> QED BY <1>1, <1>4, <1>5, <2>1 DEF BuildClientSetUserResponse
<1>12. CASE k = "LIST USERS"
  <2>1. BuildClientListUsersResponse
    BY <1>12, Zenon DEF Response
  <2> QED BY <1>1, <1>4, <2>1, RepliesAre DEF BuildClientListUsersResponse
<1>13. CASE k = "DEL USER"
  <2>1. BuildClientDelUserResponse
    BY <1>13, Zenon DEF Response
  <2> QED BY <1>1, <1>4, <1>5, <2>1 DEF BuildClientDelUserResponse
<1>14. CASE k = "GET TIMEOUT"
  <2>1. BuildClientGetTimeoutResponse
    BY <1>14, Zenon DEF Response
  <2> QED BY <1>1, <1>3, <1>4, <2>1, RepliesAre DEF BuildClientGetTimeoutResponse
<1> QED BY <1>6, <1>7, <1>8, <1>9, <1>10, <1>11, <1>12, <1>13, <1>14 DEF Command

(* The number of a parser that does not fail is in its range.              *)
LEMMA AfterValue ==
    ASSUME Shape(parser), parser.value <= MaxValue, NEW i, Order[i + 1] \in Command,
           NEW n \in Nat, NEW chunk, n = Len(chunk), ~HasFailed(After(i, chunk))
    PROVE  Shape(After(i, chunk)) /\ After(i, chunk).value <= MaxValue
<1>1. PICK k \in Command : k = Order[i + 1]
  OBVIOUS
<1>2. PICK p : p = IF i = parserIndex THEN parser ELSE LuluReset
  OBVIOUS
<1>3. Shape(p) /\ p.value <= MaxValue
  BY <1>2, ResetIs
<1>4. After(i, chunk) = Consume(k, p, chunk)
  BY <1>1, <1>2 DEF After
<1>5. Consume(k, p, chunk).state # "Invalid"
  BY <1>4 DEF HasFailed
<1>6. Shape(Consume(k, p, chunk)) /\ Consume(k, p, chunk).value <= MaxValue
  BY <1>3, <1>5, ConsumeShape, ValueKept
<1> QED BY <1>4, <1>6

(* The parser that LuluTransactionReadRun ends at.                         *)
LEMMA ReachedTransaction ==
    ASSUME SessionTypes, session = "TRANSACTION_READ", NEW chunk, NEW i, i = Reached(chunk)
    PROVE  /\ NotRecognised = 9 /\ i \in parserIndex .. 9
           /\ i # 9 => /\ i \in 0 .. 8 /\ i # NotRecognised /\ ~HasFailed(After(i, chunk))
                       /\ Order[i + 1] \in Command \ {"HELLO"}
                       /\ Order[i + 1] = "GOODBYE" => i = 0
<1>1. NotRecognised = 9 /\ 9 \in Nat
  BY OrderIs
<1>2. PICK q \in 0 .. 9 : q = parserIndex
  BY DEF SessionTypes
<1>3. i \in q .. 9 /\ (i # 9 => ~HasFailed(After(i, chunk)))
  BY <1>1, <1>2, ReachedIs
<1>4. ASSUME i # 9
      PROVE  /\ i \in 0 .. 8 /\ Order[i + 1] \in Command \ {"HELLO"}
             /\ Order[i + 1] = "GOODBYE" => i = 0
  <2>1. i \in 0 .. 8
    BY <1>3, <1>4
  <2>2. PICK j \in 1 .. 9 : j = i + 1
    BY <2>1
  <2>3. Order[j] \in Command \ {"HELLO"} /\ (Order[j] = "GOODBYE" => j = 1)
    BY OrderIs
  <2> QED BY <2>1, <2>2, <2>3
<1> QED BY <1>1, <1>2, <1>3, <1>4

(* A read of the server between commands keeps the types, and the session. *)
TransactionTyped ==
    /\ SessionTypes' /\ session' \in {"TRANSACTION_READ", "TRANSACTION_WRITE", "ERROR"}

(* A read of LuluTransactionReadRun keeps the types.                       *)
LEMMA TransactionTypes ==
    ASSUME NEW n, NEW c, NEW r, NEW v, ReadStep(n, c, r, v), session = "TRANSACTION_READ"
    PROVE  TransactionTyped
<1>1. SessionTypes /\ RunParsers(c)
  BY DEF ReadStep, Types
<1>2. PICK i : i = Reached(c)
  OBVIOUS
<1>3. /\ NotRecognised = 9 /\ i \in parserIndex .. 9
      /\ i # 9 => /\ i \in 0 .. 8 /\ i # NotRecognised /\ ~HasFailed(After(i, c))
                  /\ Order[i + 1] \in Command \ {"HELLO"}
  BY <1>1, <1>2, ReachedTransaction
<1>4. <<>> \in Seq(LuluByte)
  OBVIOUS
<1>5. CASE i = 9
  <2>1. parserIndex' = 9 /\ parser' = LuluReset /\ held' = <<>> /\ (Waits \/ RunsUnknown(c))
    BY <1>1, <1>2, <1>3, <1>5, RunUnknown
  <2>2. CASE Waits
    BY <1>1, <1>4, <2>1, <2>2, ResetIs DEF Waits, SessionTypes, TransactionTyped, settings
  <2>3. CASE RunsUnknown(c)
    <3>1. reply' \in Seq(ReplyByte)
      BY <2>3, RepliesAre DEF RunsUnknown, IsReply
    <3>2. session' = "TRANSACTION_WRITE" /\ UNCHANGED <<loggedIn, timeout, bufferSize>>
      BY <2>3 DEF RunsUnknown, Answers, settings
    <3> QED BY <1>1, <1>4, <2>1, <3>1, <3>2, ResetIs
            DEF SessionTypes, TransactionTyped, SessionStates, WriteStates
  <2> QED BY <2>1, <2>2, <2>3
<1>6. CASE i # 9
  <2>1. PICK p : p = After(i, c)
    OBVIOUS
  <2>2. Shape(p) /\ p.value <= MaxValue
    <3>1. n \in Nat /\ n = Len(c)
      BY DEF ReadStep
    <3>2. Order[i + 1] \in Command /\ ~HasFailed(After(i, c))
      BY <1>3, <1>6
    <3>3. Shape(parser) /\ parser.value <= MaxValue
      BY <1>1 DEF SessionTypes
    <3> QED BY <2>1, <3>1, <3>2, <3>3, AfterValue
  <2>3. /\ parserIndex' = i /\ parser' = p
        /\ RunsOn(p, c) \/ RunsOut(i, p) \/ RunsTooLong(i, p)
    BY <1>1, <1>2, <1>3, <1>6, <2>1, RunKnown
  <2>4. parserIndex' \in 0 .. 9 /\ Shape(parser') /\ parser'.value <= MaxValue
    BY <1>3, <1>6, <2>2, <2>3
  <2>5. CASE RunsOn(p, c)
    <3>1. held' \in Seq(LuluByte)
      BY <2>5 DEF RunsOn, ReadStep
    <3> QED BY <1>1, <2>4, <2>5, <3>1 DEF RunsOn, Waits, SessionTypes, TransactionTyped, settings
  <2>6. CASE RunsOut(i, p)
    <3>1. PICK k \in Command \ {"HELLO"} : k = Order[i + 1]
      BY <1>3, <1>6
    <3>2. Response(k, p) /\ held' = <<>>
      BY <2>6, <3>1 DEF RunsOut
    <3>3. loggedIn' = loggedIn /\ IsReply(reply') /\ SettingsTypes'
      <4>1. SettingsTypes
        BY <1>1 DEF SessionTypes, SettingsTypes
      <4> QED BY <2>2, <3>2, <4>1, ResponseIs
    <3>4. session' = "TRANSACTION_WRITE"
      BY <2>6 DEF RunsOut, Answers
    <3> QED BY <1>1, <1>4, <2>4, <3>2, <3>3, <3>4
            DEF SessionTypes, TransactionTyped, SettingsTypes, SessionStates, WriteStates, IsReply
  <2>7. CASE RunsTooLong(i, p)
    BY <1>1, <1>4, <2>4, <2>7
       DEF RunsTooLong, SessionTypes, TransactionTyped, SessionStates, OverStates, settings
  <2> QED BY <2>3, <2>5, <2>6, <2>7
<1> QED BY <1>5, <1>6

(* What a read between commands leaves, while client and server are in     *)
(* step.                                                                   *)
BarWay == choice # "GOODBYE" /\ HasByte(Way, LF) => HasByte(Way, Bar)
(* A read of LuluTransactionReadRun waits for the rest of the line,        *)
TransactionWaits ==
    /\ session' = "TRANSACTION_READ" /\ UNCHANGED reply /\ Reading'
    /\ LfLast(Way)' /\ Len(Way') <= Len(Way)
    /\ parserIndex' = 0 => parserIndex = 0 /\ Way' = Way

(* or the line is answered,                                                *)
TransactionIsAnswered ==
    /\ session' = "TRANSACTION_WRITE" /\ Writing' /\ Way' = <<>> /\ IsReply(reply')

(* or it is a list of users that does not fit.                             *)
TransactionIsTooLong ==
    /\ session' = "ERROR" /\ taken'.command = "LIST USERS" /\ UNCHANGED reply /\ Way' = <<>>

(* When every parser has failed.                                           *)
LEMMA TransactionUnknown ==
    ASSUME NEW n, NEW c, NEW r, NEW v, ReadStep(n, c, r, v), session = "TRANSACTION_READ",
           Reading, LfLast(Way), Reached(c) = 9
    PROVE  TransactionWaits \/ TransactionIsAnswered
<1>1. NotRecognised = 9
  BY OrderIs
<1>2. PICK x \in Seq(LuluByte) : x = held \o c
  BY DEF ReadStep
<1>3. PICK y \in Seq(LuluByte) : y = v
  BY DEF ReadStep
<1>4. Way = x \o y
  BY <1>2, <1>3 DEF ReadStep
<1>5. LfLast(x \o y)
  BY <1>4
<1>6. LfLast(y) /\ (HasByte(x, LF) => y = <<>>)
  BY <1>5, LfParts
<1>7. parserIndex' = 9 /\ parser' = LuluReset /\ held' = <<>> /\ (Waits \/ RunsUnknown(c))
  BY <1>1, RunUnknown DEF ReadStep
<1>8. Way' = y
  BY <1>3, <1>7 DEF ReadStep
<1>9. CASE Waits
  <2>1. session' = "TRANSACTION_READ" /\ UNCHANGED reply /\ reply = <<>>
    BY <1>9 DEF Waits, Reading
  <2>2. Len(y) <= Len(Way)
    <3>1. Len(x \o y) = Len(x) + Len(y) /\ Len(x) \in Nat /\ Len(y) \in Nat
      OBVIOUS
    <3>2. Len(Way) = Len(x) + Len(y)
      BY <1>4, <3>1
    <3> QED BY <3>1, <3>2
  <2>3. LfLast(Way)'
    BY <1>6, <1>8 DEF LfLast
  <2>4. Reading'
    BY <1>7, <2>1, ResetIs DEF Reading, HasFinished, LuluReset
  <2> QED BY <1>7, <1>8, <2>1, <2>2, <2>3, <2>4 DEF TransactionWaits
<1>10. CASE RunsUnknown(c)
  <2>1. HasByte(x, LF)
    <3>1. EndsLine(x)
      BY <1>2, <1>10 DEF RunsUnknown
    <3> QED BY <3>1, EndsLineLast DEF HasByte
  <2>2. Way' = <<>>
    BY <1>6, <1>8, <2>1
  <2>3. session' = "TRANSACTION_WRITE" /\ reply' = Minus
    BY <1>10 DEF RunsUnknown, Answers
  <2>4. Writing'
    BY <1>7 DEF Writing
  <2> QED BY <2>2, <2>3, <2>4, RepliesAre DEF TransactionIsAnswered
<1> QED BY <1>7, <1>9, <1>10

(* When one has not.                                                       *)
LEMMA TransactionKnown ==
    ASSUME NEW n, NEW c, NEW r, NEW v, ReadStep(n, c, r, v), session = "TRANSACTION_READ",
           Reading, LfLast(Way), parserIndex = 0 => BarWay, choice' = choice,
           NEW i, i = Reached(c), i # 9
    PROVE  TransactionWaits \/ TransactionIsAnswered \/ TransactionIsTooLong
<1>1. SessionTypes /\ RunParsers(c)
  BY DEF ReadStep, Types
<1>2. /\ NotRecognised = 9 /\ i \in parserIndex .. 9 /\ i \in 0 .. 8 /\ i # NotRecognised
      /\ ~HasFailed(After(i, c)) /\ Order[i + 1] \in Command \ {"HELLO"}
  BY <1>1, ReachedTransaction
<1>3. PICK x \in Seq(LuluByte) : x = held \o c
  BY DEF ReadStep
<1>4. PICK y \in Seq(LuluByte) : y = v
  BY DEF ReadStep
<1>5. Way = x \o y
  BY <1>3, <1>4 DEF ReadStep
<1>6. LfLast(x \o y)
  BY <1>5
<1>7. LfLast(x) /\ (HasByte(x, LF) => y = <<>>)
  BY <1>6, LfParts
<1>8. PICK h \in Seq(LuluByte) : h = held
  BY <1>1 DEF SessionTypes
<1>9. c \in Seq(LuluByte) /\ x = h \o c
  BY <1>3, <1>8 DEF ReadStep
<1>10. LfLast(c)
  <2>1. LfLast(h \o c)
    BY <1>7, <1>9
  <2> QED BY <1>9, <2>1, LfParts
<1>11. PICK p : p = After(i, c)
  OBVIOUS
<1>12. /\ parserIndex' = i /\ parser' = p
       /\ RunsOn(p, c) \/ RunsOut(i, p) \/ RunsTooLong(i, p)
  BY <1>1, <1>2, <1>11, RunKnown

(* GOODBYE is the parser at 0, and reads no bar. *)
<1>13. ASSUME i = 0
       PROVE  /\ parserIndex = 0 /\ (Reads(p) \/ p.state = "Finished")
              /\ ~HasByte(x, Bar)
  <2>1. parserIndex = 0
    BY <1>1, <1>2, <1>13 DEF SessionTypes
  <2>2. Reads(parser) /\ ~HasByte(h, Bar)
    BY <1>8, <2>1 DEF Reading
  <2>3. p = Consume("GOODBYE", parser, c)
    <3>1. Order[0 + 1] = "GOODBYE"
      BY OrderIs
    <3> QED BY <1>11, <1>13, <2>1, <3>1 DEF After
  <2>4. p.state # "Invalid"
    BY <1>2, <1>11 DEF HasFailed
  <2>5. n \in Nat /\ n = Len(c)
    BY DEF ReadStep
  <2>6. ~HasByte(c, Bar) /\ (Reads(p) \/ p.state = "Finished")
    BY <1>10, <2>2, <2>3, <2>4, <2>5, GoodbyeChunk
  <2>7. ~HasByte(h \o c, Bar)
    BY <1>9, <2>2, <2>6, BytesJoined
  <2> QED BY <1>9, <2>1, <2>6, <2>7
<1>14. ASSUME HasFinished(p) PROVE HasByte(x, LF) /\ y = <<>>
  <2>1. p.state = "Finished"
    BY <1>2, <1>11, <1>14 DEF HasFinished, HasFailed
  <2>2. parser.state # "Finished" /\ Shape(parser) /\ Order[i + 1] \in Command
    BY <1>1, <1>2 DEF Reading, HasFinished, SessionTypes
  <2>3. HasByte(c, LF)
    BY <1>9, <1>11, <2>1, <2>2, AfterShape
  <2>4. HasByte(h \o c, LF)
    BY <1>9, <2>3, BytesJoined
  <2> QED BY <1>7, <1>9, <2>4
<1>15. CASE RunsOn(p, c)
  <2>1. Way' = Way /\ held' = x /\ ~HasFinished(p)
    BY <1>3, <1>15 DEF RunsOn, ReadStep
  <2>2. session' = "TRANSACTION_READ" /\ UNCHANGED reply /\ reply = <<>>
    BY <1>15 DEF RunsOn, Waits, Reading
  <2>3. LfLast(Way)'
    BY <2>1 DEF LfLast
  <2>4. Len(Way') <= Len(Way)
    <3>1. Len(x \o y) \in Nat
      OBVIOUS
    <3> QED BY <1>5, <2>1, <3>1
  <2>5. Reading'
    <3>1. i = 0 => Reads(p) /\ ~HasByte(x, Bar)
      BY <1>13, <2>1 DEF HasFinished
    <3>2. parserIndex' = 0 => Reads(parser') /\ ~HasByte(held', Bar)
      BY <1>12, <2>1, <3>1
    <3>3. parserIndex' = 0 => Reads(parser)' /\ ~HasByte(held, Bar)'
      BY <3>2 DEF Reads, Shape, HasByte
    <3> QED BY <1>2, <1>12, <2>1, <2>2, <3>3 DEF Reading, HasFinished
  <2>6. parserIndex' = 0 => parserIndex = 0
    BY <1>12, <1>13
  <2> QED BY <2>1, <2>2, <2>3, <2>4, <2>5, <2>6 DEF TransactionWaits
<1>16. CASE RunsOut(i, p)
  <2>1. HasByte(x, LF) /\ y = <<>> /\ held' = <<>> /\ session' = "TRANSACTION_WRITE"
    BY <1>14, <1>16 DEF RunsOut, Answers
  <2>2. Way' = <<>>
    BY <1>4, <2>1 DEF ReadStep
  <2>3. Way = x
    BY <1>5, <2>1, EmptyParts
  <2>4. i = 0 => choice = "GOODBYE"
    BY <1>13, <2>1, <2>3 DEF BarWay
  <2>5. Writing'
    BY <1>12, <2>1, <2>4 DEF Writing
  <2>6. IsReply(reply')
    <3>1. PICK k \in Command \ {"HELLO"} : k = Order[i + 1]
      BY <1>2
    <3>2. Response(k, p)
      BY <1>16, <3>1 DEF RunsOut
    <3>3. Shape(p) /\ p.value <= MaxValue
      <4>1. n \in Nat /\ n = Len(c)
        BY DEF ReadStep
      <4>2. Shape(parser) /\ parser.value <= MaxValue /\ Order[i + 1] \in Command
        BY <1>1, <1>2 DEF SessionTypes
      <4> QED BY <1>2, <1>11, <4>1, <4>2, AfterValue
    <3>4. SettingsTypes
      BY <1>1 DEF SessionTypes, SettingsTypes
    <3> QED BY <3>2, <3>3, <3>4, ResponseIs
  <2> QED BY <2>1, <2>2, <2>5, <2>6 DEF TransactionIsAnswered
<1>17. CASE RunsTooLong(i, p)
  <2>1. y = <<>> /\ held' = <<>> /\ session' = "ERROR" /\ UNCHANGED reply
    BY <1>14, <1>17 DEF RunsTooLong
  <2>2. Way' = <<>>
    BY <1>4, <2>1 DEF ReadStep
  <2>3. taken'.command = "LIST USERS"
    BY <1>17 DEF RunsTooLong, Line
  <2> QED BY <2>1, <2>2, <2>3 DEF TransactionIsTooLong
<1> QED BY <1>12, <1>15, <1>16, <1>17

(* A step that takes nothing from the way but its end.                     *)
LEMMA KnowingKept ==
    ASSUME Types, Knowing, UNCHANGED <<session, parserIndex, parser, held, loggedIn, login>>,
           session = "HELLO_READ" => UNCHANGED reply,
           NEW w \in Seq(LuluByte), NEW z \in Seq(LuluByte), Way = w \o z, Way' = w,
           Refused'
    PROVE  Knowing'
<1>1. login \in Logins
  BY DEF Types, ClientTypes
<1>2. Refusable' = Refusable /\ GoodLogin' = GoodLogin /\ (\A n : HelloParsed(n)' = HelloParsed(n))
      /\ Hello' = Hello /\ HelloEnd' = HelloEnd
  BY LoginKept
<1>3. HelloReading'
  <2>1. SUFFICES ASSUME session = "HELLO_READ" PROVE HelloReading'
    BY DEF HelloReading
  <2>2. /\ reply = <<>> /\ ~loggedIn /\ parserIndex \in {0, 2}
        /\ parserIndex = 0 => parser = HelloParsed(Len(held)) /\ ~HasFinished(parser) /\ Begins(Way)
        /\ parserIndex = 2 => held = <<>> /\ parser = LuluReset /\ ~GoodLogin /\ LfLast(Way)
    BY <2>1 DEF Knowing, HelloReading
  <2>3. CASE parserIndex = 0
    <3>1. Begins(w \o z)
      BY <2>2, <2>3
    <3>2. Begins(w)
      BY <1>1, <3>1, BeginsParts
    <3>3. Begins(Way)'
      BY <1>2, <3>2 DEF Begins
    <3>4. PICK a : a = Len(held)
      OBVIOUS
    <3>5. parser' = HelloParsed(Len(held))'
      BY <1>2, <2>2, <2>3, <3>4
    <3> QED BY <2>1, <2>2, <2>3, <3>3, <3>5 DEF HelloReading, HasFinished
  <2>4. CASE parserIndex = 2
    <3>1. LfLast(w \o z)
      BY <2>2, <2>4
    <3>2. LfLast(w)
      BY <3>1, LfParts
    <3>3. LfLast(Way)'
      BY <3>2 DEF LfLast
    <3> QED BY <1>2, <2>1, <2>2, <2>4, <3>3 DEF HelloReading
  <2> QED BY <2>2, <2>3, <2>4
<1>4. HelloWriting'
  <2>1. Way = <<>> => Way' = <<>>
    <3>1. w \o z = <<>> => w = <<>>
      BY EmptyJoined
    <3> QED BY <3>1
  <2>2. Accepted' = Accepted
    BY DEF Accepted
  <2> QED BY <1>2, <2>1, <2>2 DEF Knowing, HelloWriting
<1>5. Transaction'
  BY DEF Knowing, Transaction
<1> QED BY <1>3, <1>4, <1>5 DEF Knowing

(* The three parts of what is on its way.                                  *)
LEMMA WayIs ==
    ASSUME Types
    PROVE  \E h, t, u \in Seq(LuluByte) :
              h = held /\ t = toServer /\ u = Unsent /\ h \o t \in Seq(LuluByte)
<1>1. held \in Seq(LuluByte) /\ toServer \in Seq(LuluByte)
  BY DEF Types, ChannelTypes, SessionTypes
<1>2. PICK h \in Seq(LuluByte) : h = held
  BY <1>1
<1>3. PICK t \in Seq(LuluByte) : t = toServer
  BY <1>1
<1>4. h \o t \in Seq(LuluByte)
  OBVIOUS
<1> QED BY <1>2, <1>3, <1>4, UnsentIs

(* It is the same when its parts are.                                      *)
LEMMA WaySame ==
    ASSUME Types, UNCHANGED <<held, toServer>>, Unsent' = Unsent
    PROVE  \E w, z \in Seq(LuluByte) : Way = w \o z /\ Way' = w /\ z = <<>> /\ w = Way
<1>1. PICK h, t, u \in Seq(LuluByte) :
          h = held /\ t = toServer /\ u = Unsent /\ h \o t \in Seq(LuluByte)
  BY WayIs
<1>2. PICK x \in Seq(LuluByte) : x = h \o t
  BY <1>1
<1>3. PICK w \in Seq(LuluByte) : w = x \o u
  <2>1. x \o u \in Seq(LuluByte)
    OBVIOUS
  <2> QED BY <2>1
<1>4. PICK z \in Seq(LuluByte) : z = <<>>
  <2>1. <<>> \in Seq(LuluByte)
    OBVIOUS
  <2> QED BY <2>1
<1>5. w \o z = w
  BY <1>4, EmptyParts
<1>6. Way = w /\ Way' = w
  BY <1>1, <1>2, <1>3 DEF Way
<1> QED BY <1>4, <1>5, <1>6

(* The end of the client takes back what it has not sent, a reset of the   *)
(* connection also what is on the way.                                     *)
LEMMA EndsKeeps ==
    ASSUME Inv, UNCHANGED sessionVars, NEW next \in Ended, Ends(next),
           next = "DONE" /\ choice = "HELLO" => Refusable
    PROVE  Inv'
<1>1. /\ Types /\ Knowing /\ phase' = next /\ hungUp' = TRUE
      /\ UNCHANGED <<toServer, toClient, broken, cuts>>
      /\ UNCHANGED <<choice, buffer, pipes, stdin, login, typed, shown>>
  BY DEF Inv, Ends
<1>2. UNCHANGED <<session, parserIndex, parser, held, loggedIn, reply, timeout, bufferSize>>
  BY DEF sessionVars, settings
<1>3. next \in Phases \ {"WRITE_AUTH", "WRITE_REMOTE", "READ_LOCAL"}
  BY DEF Ended, Phases
<1>4. Types'
  <2>1. ChannelTypes'
    BY <1>1 DEF Types, ChannelTypes
  <2>2. SessionTypes'
    BY <1>1, <1>2 DEF Types, SessionTypes
  <2>3. ClientTypes'
    BY <1>1, <1>3 DEF Types, ClientTypes
  <2> QED BY <2>1, <2>2, <2>3 DEF Types
<1>5. Knowing'
  <2>1. PICK h, t, u \in Seq(LuluByte) :
            h = held /\ t = toServer /\ u = Unsent /\ h \o t \in Seq(LuluByte)
    BY <1>1, WayIs
  <2>2. PICK w \in Seq(LuluByte) : w = h \o t
    BY <2>1
  <2>3. Way = w \o u
    BY <2>1, <2>2 DEF Way
  <2>4. Unsent' = <<>>
    BY <1>1, <1>3 DEF Unsent
  <2>5. Way' = w \o <<>>
    BY <1>1, <1>2, <2>1, <2>2, <2>4 DEF Way
  <2>6. Way' = w
    BY <2>5, EmptyParts
  <2>7. Refused'
    BY <1>1, LoginKept DEF Refused
  <2> QED BY <1>1, <1>2, <2>3, <2>6, <2>7, KnowingKept
<1> QED BY <1>1, <1>4, <1>5 DEF Inv, Live

(* A broken connection keeps the invariant.                                *)
LEMMA BreaksKeeps ==
    ASSUME Inv, Breaks
    PROVE  Inv'
<1>1. /\ Types /\ Knowing /\ broken' = TRUE /\ toServer' = <<>> /\ toClient' = <<>>
      /\ UNCHANGED hungUp /\ phase \notin Ended
      /\ UNCHANGED <<phase, choice, buffer, pipes, stdin, login, typed, shown>>
  BY DEF Inv, Breaks, Break, clientVars
<1>2. UNCHANGED <<session, parserIndex, parser, held, loggedIn, reply, timeout, bufferSize>>
  BY DEF Breaks, sessionVars, settings
<1>3. Types'
  <2>1. ChannelTypes'
    BY <1>1 DEF Types, ChannelTypes
  <2>2. SessionTypes'
    BY <1>1, <1>2 DEF Types, SessionTypes
  <2>3. ClientTypes'
    BY <1>1 DEF Types, ClientTypes
  <2> QED BY <2>1, <2>2, <2>3 DEF Types
<1>4. Knowing'
  <2>1. PICK h, t, u \in Seq(LuluByte) :
            h = held /\ t = toServer /\ u = Unsent /\ h \o t \in Seq(LuluByte)
    BY <1>1, WayIs
  <2>2. PICK z \in Seq(LuluByte) : z = t \o u
    <3>1. t \o u \in Seq(LuluByte)
      OBVIOUS
    <3> QED BY <3>1
  <2>3. Way = h \o z
    <3>1. (h \o t) \o u = h \o (t \o u)
      <4>1. Grouped(h, t, u)
        BY Regrouped
      <4> QED BY <4>1 DEF Grouped
    <3> QED BY <2>1, <2>2, <3>1 DEF Way
  <2>4. Unsent' = <<>>
    BY <1>1 DEF Unsent
  <2>5. Way' = (h \o <<>>) \o <<>>
    BY <1>1, <1>2, <2>1, <2>4 DEF Way
  <2>6. Way' = h
    BY <2>5, EmptyParts
  <2>7. Refused'
    BY <1>1 DEF Refused, Ended
  <2> QED BY <1>1, <1>2, <2>3, <2>6, <2>7, KnowingKept
<1> QED BY <1>1, <1>3, <1>4 DEF Inv, Live

(* Reading depends on the session only.                                    *)
LEMMA ReadingKept ==
    ASSUME UNCHANGED <<session, parserIndex, parser, held, reply>>, Reading
    PROVE  Reading'
  BY DEF Reading, HasFinished, Reads, Shape, HasByte

(* The session stands still.                                               *)
SessionSame == UNCHANGED <<session, parserIndex, parser, held, reply, loggedIn,
                           timeout, bufferSize, taken>>

(* The variables of the session, one by one.                               *)
LEMMA SessionIsSame == UNCHANGED sessionVars => SessionSame
  BY DEF sessionVars, settings, SessionSame

(* Then its types stay.                                                    *)
LEMMA SessionTypesKept ==
    ASSUME SessionTypes, SessionSame
    PROVE  SessionTypes'
  BY DEF SessionTypes, SessionSame

(* Bytes that are sent stay on their way.                                  *)
LEMMA WaySent ==
    ASSUME Types, phase \in {"WRITE_AUTH", "WRITE_REMOTE"}, phase' = phase, held' = held,
           broken' = broken, ~broken,
           NEW n \in Nat, n <= Len(buffer),
           toServer' = toServer \o Taken(buffer, n), buffer' = Left(buffer, n)
    PROVE  /\ Way' = Way /\ toServer' \in Seq(LuluByte) /\ buffer' \in Seq(LuluByte)
           /\ \E w, z \in Seq(LuluByte) : Way = w \o z /\ Way' = w
<1>1. PICK h, t, u \in Seq(LuluByte) :
          h = held /\ t = toServer /\ u = Unsent /\ h \o t \in Seq(LuluByte)
  BY WayIs
<1>2. u = buffer
  BY <1>1 DEF Unsent
<1>3. PICK c \in Seq(LuluByte) : c = Taken(u, n)
  BY <1>2, TakenIs
<1>4. PICK r \in Seq(LuluByte) : r = Left(u, n)
  <2>1. PICK m \in Nat : m = Len(u)
    OBVIOUS
  <2> QED BY <1>2, <2>1, LeftIs
<1>5. c \o r = u
  BY <1>2, <1>3, <1>4, TakenLeft
<1>6. toServer' = t \o c /\ buffer' = r
  BY <1>1, <1>2, <1>3, <1>4
<1>7. Unsent' = r
  BY <1>6 DEF Unsent
<1>8. PICK x \in Seq(LuluByte) : x = h \o t
  BY <1>1
<1>9. (h \o (t \o c)) \o r = (h \o t) \o (c \o r)
  <2>1. (h \o t) \o c = h \o (t \o c)
    <3>1. Grouped(h, t, c)
      BY Regrouped
    <3> QED BY <3>1 DEF Grouped
  <2>2. (x \o c) \o r = x \o (c \o r)
    <3>1. Grouped(x, c, r)
      BY Regrouped
    <3> QED BY <3>1 DEF Grouped
  <2> QED BY ONLY <1>8, <2>1, <2>2
<1>10. Way' = (h \o (t \o c)) \o r
  BY <1>1, <1>6, <1>7 DEF Way
<1>11. Way = (h \o t) \o u
  BY <1>1 DEF Way
<1>12. Way' = Way
  BY <1>5, <1>9, <1>10, <1>11
<1>13. t \o c \in Seq(LuluByte)
  OBVIOUS
<1>14. PICK w \in Seq(LuluByte) : w = Way
  <2>1. x \o u \in Seq(LuluByte)
    OBVIOUS
  <2> QED BY <1>8, <1>11, <2>1
<1>15. PICK z \in Seq(LuluByte) : z = <<>>
  <2>1. <<>> \in Seq(LuluByte)
    OBVIOUS
  <2> QED BY <2>1
<1>16. w \o z = w
  BY <1>15, EmptyParts
<1> QED BY <1>6, <1>12, <1>13, <1>14, <1>16

(* Sending keeps the invariant.                                            *)
LEMMA SendsKeeps ==
    ASSUME Inv, UNCHANGED sessionVars, phase \in {"WRITE_AUTH", "WRITE_REMOTE"}, Sends
    PROVE  Inv'
<1>1. SessionSame
  BY SessionIsSame
<1>2. /\ Types /\ Knowing /\ ~broken
      /\ UNCHANGED <<toClient, hungUp, broken, cuts>>
      /\ UNCHANGED <<phase, choice, pipes, stdin, login, typed, shown>>
  BY DEF Inv, Sends, Gone
<1>3. PICK n \in Nat :
          n <= Len(buffer) /\ toServer' = toServer \o Taken(buffer, n) /\ buffer' = Left(buffer, n)
  <2>1. PICK k \in Nat : k = Len(buffer)
    BY <1>2 DEF Types, ClientTypes
  <2>2. PICK n \in Portions(k) :
            toServer' = toServer \o Taken(buffer, n) /\ buffer' = Left(buffer, n)
    BY <2>1 DEF Sends
  <2>3. n \in Nat /\ n <= k
    BY DEF Portions
  <2> QED BY <2>1, <2>2, <2>3
<1>4. /\ Way' = Way /\ toServer' \in Seq(LuluByte) /\ buffer' \in Seq(LuluByte)
      /\ \E w, z \in Seq(LuluByte) : Way = w \o z /\ Way' = w
  BY <1>1, <1>2, <1>3, WaySent DEF SessionSame
<1>5. Types'
  <2>1. ChannelTypes'
    BY <1>2, <1>4 DEF Types, ChannelTypes
  <2>2. SessionTypes'
    BY <1>1, <1>2, SessionTypesKept DEF Types
  <2>3. buffer' \in Seq(ReplyByte)
    BY <1>4, ByteKinds
  <2>4. ClientTypes'
    BY <1>2, <1>4, <2>3 DEF Types, ClientTypes
  <2> QED BY <2>1, <2>2, <2>4 DEF Types
<1>6. Knowing'
  <2>1. Refused'
    BY <1>2 DEF Refused
  <2>2. PICK w, z \in Seq(LuluByte) : Way = w \o z /\ Way' = w
    BY <1>4
  <2> QED BY <1>1, <1>2, <2>1, <2>2, KnowingKept DEF SessionSame
<1>7. ASSUME Live' PROVE Talking'
  <2>1. Talking
    BY <1>2, <1>7 DEF Inv, Live
  <2>2. Reading'
    BY <1>1, <2>1, ReadingKept DEF SessionSame, Talking
  <2>3. ToRead' = ToRead
    BY <1>1, <1>2 DEF ToRead, SessionSame
  <2>4. PastHello' /\ Writing' /\ OverOnly' /\ Beginning' /\ Menu'
    BY <1>1, <1>2, <2>1, <2>3
       DEF Talking, SessionSame, PastHello, Writing, OverOnly, Beginning, Menu, Accepted
  <2>5. Refusable' = Refusable /\ Accepted' = Accepted
    BY <1>1, <1>2, LoginKept DEF Accepted, SessionSame
  <2>6. Asked'
    BY <1>1, <1>2, <1>4, <2>1, <2>3, <2>5 DEF Talking, SessionSame, Asked, CrlfLast, HasByte
  <2>7. Remote'
    BY <1>1, <1>2, <1>4, <2>1, <2>3 DEF Talking, SessionSame, Remote, CrlfLast, HasByte, LfLast
  <2> QED BY <2>2, <2>4, <2>6, <2>7 DEF Talking
<1> QED BY <1>5, <1>6, <1>7 DEF Inv

(* So does waiting for the reply once all is sent.                         *)
LEMMA WrittenKeeps ==
    ASSUME Inv, UNCHANGED sessionVars, buffer = <<>>,
           UNCHANGED <<channel, choice, buffer, pipes, stdin, login, typed, shown>>,
           \/ phase = "WRITE_AUTH" /\ phase' = "READ_AUTH"
           \/ phase = "WRITE_REMOTE" /\ phase' = "READ_REMOTE"
    PROVE  Inv'
<1>1. SessionSame
  BY SessionIsSame
<1>2. Types /\ Knowing /\ UNCHANGED <<toServer, toClient, hungUp, broken, cuts>>
  BY DEF Inv, channel
<1>3. Unsent' = Unsent
  BY DEF Unsent
<1>4. PICK w, z \in Seq(LuluByte) : Way = w \o z /\ Way' = w /\ z = <<>> /\ w = Way
  BY <1>1, <1>2, <1>3, WaySame DEF SessionSame
<1>5. Types'
  <2>1. ChannelTypes'
    BY <1>2 DEF Types, ChannelTypes
  <2>2. SessionTypes'
    BY <1>1, <1>2, SessionTypesKept DEF Types
  <2>3. ClientTypes'
    BY <1>2 DEF Types, ClientTypes, Phases, Ended
  <2> QED BY <2>1, <2>2, <2>3 DEF Types
<1>6. Knowing'
  <2>1. Refused'
    BY DEF Refused
  <2> QED BY <1>1, <1>2, <1>4, <2>1, KnowingKept DEF SessionSame
<1>7. ASSUME Live' PROVE Talking'
  <2>1. Talking
    BY <1>2, <1>7 DEF Inv, Live
  <2>2. Reading'
    BY <1>1, <2>1, ReadingKept DEF SessionSame, Talking
  <2>3. ToRead' = ToRead /\ Way' = Way
    BY <1>1, <1>2, <1>4 DEF ToRead, SessionSame
  <2>4. PastHello' /\ Writing' /\ OverOnly' /\ Beginning' /\ Menu'
    BY <1>1, <1>2, <2>1, <2>3
       DEF Talking, SessionSame, PastHello, Writing, OverOnly, Beginning, Menu, Accepted
  <2>5. Refusable' = Refusable /\ Accepted' = Accepted
    BY <1>1, <1>2, LoginKept DEF Accepted, SessionSame
  <2>6. Asked'
    BY <1>1, <1>2, <2>1, <2>3, <2>5 DEF Talking, SessionSame, Asked, CrlfLast, HasByte
  <2>7. Remote'
    BY <1>1, <1>2, <2>1, <2>3 DEF Talking, SessionSame, Remote, CrlfLast, HasByte, LfLast
  <2> QED BY <2>2, <2>4, <2>6, <2>7 DEF Talking
<1> QED BY <1>5, <1>6, <1>7 DEF Inv

(* Where nothing is on the way, the next line is all of it.                *)
LEMMA WayFilled ==
    ASSUME Types, Way = <<>>, UNCHANGED <<held, toServer>>
    PROVE  held = <<>> /\ toServer = <<>> /\ (Unsent' \in Seq(LuluByte) => Way' = Unsent')
<1>1. PICK h, t, u \in Seq(LuluByte) :
          h = held /\ t = toServer /\ u = Unsent /\ h \o t \in Seq(LuluByte)
  BY WayIs
<1>2. PICK x \in Seq(LuluByte) : x = h \o t
  BY <1>1
<1>3. x \o u = <<>>
  BY <1>1, <1>2 DEF Way
<1>4. x = <<>>
  BY <1>3, EmptyJoined
<1>5. h \o t = <<>>
  BY <1>2, <1>4
<1>6. h = <<>> /\ t = <<>>
  BY <1>5, EmptyJoined
<1>7. ASSUME NEW s \in Seq(LuluByte) PROVE (<<>> \o <<>>) \o s = s
  <2>1. <<>> \o s = s /\ <<>> \o <<>> = <<>>
    OBVIOUS
  <2> QED BY <2>1
<1>8. Way' = (<<>> \o <<>>) \o Unsent'
  BY <1>1, <1>6 DEF Way
<1> QED BY <1>1, <1>6, <1>7, <1>8

(* So does the connection, with the first message to send.                 *)
LEMMA ConnectKeeps ==
    ASSUME Inv, UNCHANGED sessionVars, Connect
    PROVE  Inv'
<1>1. SessionSame
  BY SessionIsSame
<1>2. /\ Types /\ Knowing /\ UNCHANGED <<toServer, toClient, hungUp, broken, cuts>>
      /\ phase = "WAITING_CONNECTION" /\ phase' = "WRITE_AUTH" /\ buffer' = Fits(Hello)
      /\ UNCHANGED <<choice, pipes, stdin, login, typed, shown>>
  BY DEF Inv, Connect, channel
<1>3. login \in Logins
  BY <1>2 DEF Types, ClientTypes
<1>4. PICK f \in Seq(LuluByte) : f = Fits(Hello) /\ Len(f) <= ClientSize /\ Begins(f)
  BY <1>3, FirstHello
<1>5. Types'
  <2>1. ChannelTypes'
    BY <1>2 DEF Types, ChannelTypes
  <2>2. SessionTypes'
    BY <1>1, <1>2, SessionTypesKept DEF Types
  <2>3. f \in Seq(ReplyByte)
    BY ByteKinds
  <2>4. ClientTypes'
    BY <1>2, <1>4, <2>3 DEF Types, ClientTypes, Phases, Ended
  <2> QED BY <2>1, <2>2, <2>4 DEF Types
<1>6. Refused'
  BY <1>2 DEF Refused
<1>7. CASE broken
  <2>1. Unsent' = Unsent
    BY <1>2, <1>7 DEF Unsent
  <2>2. PICK w, z \in Seq(LuluByte) : Way = w \o z /\ Way' = w /\ z = <<>> /\ w = Way
    BY <1>1, <1>2, <2>1, WaySame DEF SessionSame
  <2>3. Knowing'
    BY <1>1, <1>2, <1>6, <2>2, KnowingKept DEF SessionSame
  <2> QED BY <1>2, <1>5, <1>7, <2>3 DEF Inv, Live
<1>8. CASE ~broken
  <2>1. Live
    BY <1>2, <1>8 DEF Types, ClientTypes, ChannelTypes, Live, Ended
  <2>2. /\ choice = "HELLO" /\ stdin = <<>> /\ session = "HELLO_READ"
        /\ Way = <<>> /\ ToRead = <<>>
    BY <1>2, <2>1 DEF Inv, Talking, Beginning
  <2>3. Unsent' = f
    BY <1>2, <1>4, <1>8 DEF Unsent
  <2>4. Way' = f /\ held = <<>>
    BY <1>1, <1>2, <2>2, <2>3, WayFilled DEF SessionSame
  <2>5. Hello' = Hello /\ HelloEnd' = HelloEnd /\ (\A n : HelloParsed(n)' = HelloParsed(n))
        /\ GoodLogin' = GoodLogin
    BY <1>2, LoginKept
  <2>6. HelloReading'
    <3>1. /\ reply = <<>> /\ ~loggedIn /\ parserIndex \in {0, 2}
          /\ parserIndex = 0 => parser = HelloParsed(Len(held)) /\ ~HasFinished(parser)
          /\ parserIndex = 2 => held = <<>> /\ parser = LuluReset /\ ~GoodLogin
      BY <1>2, <2>2 DEF Knowing, HelloReading
    <3>2. Begins(Way)'
      BY <1>4, <2>4, <2>5 DEF Begins
    <3>3. LfLast(Way)'
      <4>1. LfLast(f)
        BY <1>3, <1>4, BeginsLf
      <4> QED BY <2>4, <4>1 DEF LfLast
    <3>4. parserIndex = 0 => parser' = HelloParsed(Len(held))'
      <4>1. PICK a : a = Len(held)
        OBVIOUS
      <4> QED BY <1>1, <2>5, <3>1, <4>1 DEF SessionSame
    <3> QED BY <1>1, <2>5, <3>1, <3>2, <3>3, <3>4 DEF SessionSame, HelloReading, HasFinished
  <2>7. HelloWriting' /\ Transaction'
    BY <1>1, <2>2 DEF SessionSame, HelloWriting, Transaction
  <2>8. Reading'
    BY <1>1, <2>2 DEF Reading, SessionSame
  <2>9. ToRead' = <<>>
    BY <1>1, <1>2, <2>2 DEF ToRead, SessionSame
  <2>10. PastHello' /\ Writing' /\ OverOnly' /\ Beginning' /\ Menu' /\ Remote'
    BY <1>1, <1>2, <2>2
       DEF SessionSame, PastHello, Writing, OverOnly, OverStates, Beginning, Menu, Remote
  <2>11. Asked'
    BY <1>1, <1>2, <1>4, <2>2, <2>4, <2>9 DEF SessionSame, Asked
  <2> QED BY <1>5, <1>6, <2>6, <2>7, <2>8, <2>10, <2>11 DEF Inv, Knowing, Talking
<1> QED BY <1>7, <1>8

(* The client reads n bytes.                                               *)
LEMMA ToReadParts ==
    ASSUME Types, NEW n \in Nat \ {0}, n <= Len(toClient)
    PROVE  \E c, s \in Seq(ReplyByte) :
              /\ c = Taken(toClient, n) /\ s = Left(toClient, n) \o reply
              /\ ToRead = c \o s /\ ToRead # <<>> /\ Len(ToRead) \in Nat \ {0}
              /\ c[1] = ToRead[1]
              /\ s = <<>> => Left(toClient, n) = <<>> /\ reply = <<>>
              /\ Left(toClient, n) \in Seq(ReplyByte)
<1>1. PICK t \in Seq(ReplyByte) : t = toClient
  BY DEF Types, ChannelTypes
<1>2. PICK p \in Seq(ReplyByte) : p = reply
  BY DEF Types, SessionTypes
<1>3. PICK c \in Seq(ReplyByte) : c = Taken(t, n) /\ Len(c) = n
  BY <1>1, TakenIs
<1>4. PICK r \in Seq(ReplyByte) : r = Left(t, n)
  <2>1. PICK m \in Nat : m = Len(t)
    OBVIOUS
  <2> QED BY <1>1, <2>1, LeftIs
<1>5. c \o r = t
  BY <1>1, <1>3, <1>4, TakenLeft
<1>6. PICK s \in Seq(ReplyByte) : s = r \o p
  <2>1. r \o p \in Seq(ReplyByte)
    OBVIOUS
  <2> QED BY <2>1
<1>7. (c \o r) \o p = c \o (r \o p)
  <2>1. Grouped(c, r, p)
    BY Regrouped
  <2> QED BY <2>1 DEF Grouped
<1>8. ToRead = c \o s
  BY <1>1, <1>2, <1>5, <1>6, <1>7 DEF ToRead
<1>9. PICK b \in Nat : b = Len(s)
  OBVIOUS
<1>10. PICK a \in Nat : a = Len(c) /\ a # 0
  BY <1>3
<1>11. Len(c \o s) = a + b /\ (\A i \in 1 .. a : (c \o s)[i] = c[i])
  BY <1>9, <1>10, Joined
<1>12. Len(ToRead) \in Nat \ {0} /\ c[1] = ToRead[1]
  BY <1>8, <1>10, <1>11
<1>13. ToRead # <<>>
  <2>1. Len(<<>>) = 0
    OBVIOUS
  <2> QED BY <1>12, <2>1
<1>14. s = <<>> => r = <<>> /\ p = <<>>
  BY <1>6, EmptyJoined
<1> QED BY <1>1, <1>2, <1>3, <1>4, <1>6, <1>8, <1>12, <1>13, <1>14

(* What a client that waits for the answer to HELLO reads.                 *)
LEMMA AuthReads ==
    ASSUME Inv, phase = "READ_AUTH", NEW n \in Nat \ {0}, n <= Len(toClient)
    PROVE  /\ Live
           /\ Taken(toClient, n)[1] = "-" => choice = "HELLO" /\ Refusable
           /\ Taken(toClient, n)[1] # "-" =>
                 /\ choice = "HELLO" /\ stdin = <<>> /\ buffer = <<>>
                 /\ Way = <<>> /\ CrlfLast(ToRead) /\ ~HasByte(ToRead, "-")
                 /\ Accepted \/ session = "TRANSACTION_READ"
<1>1. Types
  BY DEF Inv
<1>2. PICK c, s \in Seq(ReplyByte) :
              /\ c = Taken(toClient, n) /\ s = Left(toClient, n) \o reply
              /\ ToRead = c \o s /\ ToRead # <<>> /\ Len(ToRead) \in Nat \ {0}
              /\ c[1] = ToRead[1]
  BY <1>1, ToReadParts
<1>3. Live
  <2>1. toClient # <<>>
    BY EmptyParts
  <2> QED BY <1>1, <2>1 DEF Types, ChannelTypes, ClientTypes, Live, Ended
<1>4. Asked
  BY <1>3 DEF Inv, Talking
<1>5. ToRead[1] = "-" => HasByte(ToRead, "-")
  <2>1. PICK m \in Nat \ {0} : m = Len(ToRead)
    BY <1>2
  <2>2. 1 \in 1 .. Len(ToRead)
    BY <2>1
  <2> QED BY <2>2 DEF HasByte
<1> QED BY <1>2, <1>3, <1>4, <1>5 DEF Asked

(* Reading it keeps the invariant.                                         *)
LEMMA AuthReadKeeps ==
    ASSUME Inv, UNCHANGED sessionVars, AuthRead
    PROVE  Inv'
<1>1. SessionSame
  BY SessionIsSame
<1>2. Types /\ Knowing /\ phase = "READ_AUTH"
  BY DEF Inv, AuthRead
<1>3. PICK chunk \in Chunks :
          IF chunk[1] = "-"
            THEN Ends("DONE")
            ELSE /\ Receives(chunk, ClientSize)
                 /\ IF HasCRLF(chunk, 1) THEN ToMenu(chunk) ELSE UNCHANGED clientVars
  BY DEF AuthRead
<1>4. PICK k \in Nat : k = Len(toClient)
  BY <1>2 DEF Types, ChannelTypes
<1>5. CASE chunk[1] = "-"
  <2>1. PICK n \in Nat \ {0} : n <= k /\ chunk = Taken(toClient, n)
    BY <1>4 DEF Chunks
  <2>2. choice = "HELLO" /\ Refusable
    BY <1>2, <1>4, <1>5, <2>1, AuthReads
  <2>3. Ends("DONE") /\ "DONE" \in Ended
    BY <1>3, <1>5 DEF Ended
  <2> QED BY <2>2, <2>3, EndsKeeps
<1>6. CASE chunk[1] # "-"
  <2>1. PICK n \in Nat \ {0} : /\ n <= k /\ chunk = Taken(toClient, n)
                               /\ toClient' = Left(toClient, n)
    <3>1. PICK n \in 1 .. ClientSize :
            /\ n <= Len(toClient) /\ chunk = Taken(toClient, n) /\ toClient' = Left(toClient, n)
      BY <1>3, <1>6 DEF Receives
    <3>2. ClientSize \in Nat
      BY LuluClientAssumption, LuluSessionAssumption
    <3> QED BY <1>4, <3>1, <3>2
  <2>2. UNCHANGED <<toServer, hungUp, broken>>
    BY <1>3, <1>6 DEF Receives
  <2>3. /\ choice = "HELLO" /\ stdin = <<>> /\ buffer = <<>>
        /\ Way = <<>> /\ CrlfLast(ToRead) /\ ~HasByte(ToRead, "-")
        /\ Accepted \/ session = "TRANSACTION_READ"
    BY <1>2, <1>4, <1>6, <2>1, AuthReads
  <2>4. Live
    BY <1>2, <1>4, <2>1, AuthReads
  <2>5. PICK c, s \in Seq(ReplyByte) :
              /\ c = Taken(toClient, n) /\ s = Left(toClient, n) \o reply
              /\ ToRead = c \o s
              /\ s = <<>> => Left(toClient, n) = <<>> /\ reply = <<>>
              /\ Left(toClient, n) \in Seq(ReplyByte)
    BY <1>2, <1>4, <2>1, ToReadParts
  <2>6. ToRead' = s
    BY <1>1, <2>1, <2>5 DEF ToRead, SessionSame
  <2>7. CrlfLast(c \o s)
    BY <2>3, <2>5
  <2>8. CrlfLast(s) /\ (HasCRLF(c, 1) => s = <<>>)
    BY <2>7, CrlfParts
  <2>9. ~HasByte(s, "-")
    <3>1. ~HasByte(c \o s, "-")
      BY <2>3, <2>5
    <3> QED BY <3>1, BytesJoined
  <2>10. Talking
    BY <2>4 DEF Inv
  <2>11. ChannelTypes'
    BY <1>2, <2>1, <2>2, <2>4, <2>5 DEF Types, ChannelTypes, Live
  <2>12. SessionTypes'
    BY <1>1, <1>2, SessionTypesKept DEF Types
  <2>13. Reading'
    BY <1>1, <2>10, ReadingKept DEF SessionSame, Talking
  <2>14. /\ login' = login /\ choice' = choice /\ stdin' = stdin /\ buffer' = <<>>
         /\ \/ phase' = phase /\ ~HasCRLF(chunk, 1)
            \/ phase' = "TRANSACTION" /\ HasCRLF(chunk, 1)
    BY <1>3, <1>6, <2>3 DEF ToMenu, clientVars
  <2>15. ClientTypes'
    <3>1. <<>> \in Seq(ReplyByte)
      OBVIOUS
    <3> QED BY <1>2, <2>2, <2>14, <3>1 DEF Types, ClientTypes, Phases, Ended
  <2>16. Unsent' = Unsent
    BY <1>2, <2>14 DEF Unsent
  <2>17. PICK w, z \in Seq(LuluByte) : Way = w \o z /\ Way' = w /\ z = <<>> /\ w = Way
    BY <1>1, <1>2, <2>2, <2>16, WaySame DEF SessionSame
  <2>18. Knowing'
    <3>1. Refused'
      BY <1>2, <2>14 DEF Refused
    <3> QED BY <1>1, <1>2, <2>14, <2>17, <3>1, KnowingKept DEF SessionSame
  <2>19. Accepted' = Accepted
    BY <1>1 DEF Accepted, SessionSame
  <2>20. session \in {"HELLO_WRITE", "TRANSACTION_READ"}
    BY <2>3 DEF Accepted
  <2>21. OverOnly' /\ Beginning' /\ Remote' /\ Writing'
    BY <1>1, <1>2, <2>14, <2>20
       DEF SessionSame, OverOnly, OverStates, Beginning, Remote, Writing
  <2>22. CASE phase' = phase
    <3>1. PastHello' /\ Menu'
      BY <1>2, <2>22 DEF PastHello, Menu
    <3>2. Asked'
      BY <1>1, <1>2, <2>3, <2>6, <2>8, <2>9, <2>14, <2>17, <2>19, <2>22
         DEF SessionSame, Asked, CrlfLast, HasByte
    <3> QED BY <2>11, <2>12, <2>13, <2>15, <2>18, <2>21, <3>1, <3>2 DEF Inv, Types, Talking
  <2>23. CASE phase' = "TRANSACTION" /\ HasCRLF(chunk, 1)
    <3>1. s = <<>> /\ reply' = <<>>
      BY <1>1, <2>1, <2>5, <2>8, <2>23 DEF SessionSame
    <3>2. PastHello'
      BY <1>1, <2>3, <2>19, <2>20, <3>1 DEF PastHello, SessionSame
    <3>3. Menu'
      BY <2>3, <2>6, <2>14, <2>17, <2>23, <3>1 DEF Menu
    <3>4. Asked'
      BY <2>23 DEF Asked
    <3> QED BY <2>11, <2>12, <2>13, <2>15, <2>18, <2>21, <3>2, <3>3, <3>4 DEF Inv, Types, Talking
  <2> QED BY <2>14, <2>22, <2>23
<1> QED BY <1>5, <1>6

(* What the READ_REMOTE handlers have in common.                           *)
ReplyRead(n) ==
    /\ n \in Nat \ {0} /\ n <= Len(toClient) /\ toClient' = Left(toClient, n)
    /\ UNCHANGED <<toServer, hungUp, broken>>
    /\ phase = "READ_REMOTE" /\ UNCHANGED <<choice, stdin, login>>
    /\ \/ /\ phase' = "TRANSACTION" /\ buffer' = <<>> /\ choice # "GOODBYE"
          /\ \/ HasCRLF(Taken(toClient, n), 1)
             \/ "reply" \notin cuts' => toClient' = <<>> /\ reply = <<>>
       \/ phase' = phase /\ buffer' = buffer \o Taken(toClient, n)

(* A chunk of a reply.                                                     *)
LEMMA Received ==
    ASSUME Types, NEW chunk, NEW room, room \in Int, Receives(chunk, room)
    PROVE  \E n \in Nat \ {0} :
              /\ n <= Len(toClient) /\ chunk = Taken(toClient, n) /\ chunk \in Seq(ReplyByte)
              /\ toClient' = Left(toClient, n) /\ UNCHANGED <<toServer, hungUp, broken>>
<1>1. PICK n \in 1 .. room :
         /\ n <= Len(toClient) /\ chunk = Taken(toClient, n) /\ toClient' = Left(toClient, n)
         /\ UNCHANGED <<toServer, hungUp, broken>>
  BY DEF Receives
<1>2. chunk \in Seq(ReplyByte)
  <2>1. toClient \in Seq(ReplyByte) /\ n \in Nat
    BY DEF Types, ChannelTypes
  <2> QED BY <1>1, <2>1, TakenIs
<1> QED BY <1>1, <1>2

(* The room in Buffer is a number.                                         *)
LEMMA Room == Types => ClientSize - Len(buffer) \in Int
<1>1. ClientSize \in Nat
  BY LuluClientAssumption, LuluSessionAssumption
<1> QED BY <1>1 DEF Types, ClientTypes

(* The replies of one line,                                                *)
LEMMA LineReads ==
    ASSUME Types, NEW k, k # "GOODBYE", ReadRemote(k, LineOver)
    PROVE  \E n : ReplyRead(n)
<1>1. PICK chunk \in Chunks :
          /\ Receives(chunk, ClientSize - Len(buffer))
          /\ IF HasCRLF(chunk, 1) THEN ToMenu(buffer \o chunk)
             ELSE /\ buffer' = buffer \o chunk
                  /\ UNCHANGED <<phase, choice, pipes, stdin, login, typed, shown>>
  BY DEF ReadRemote, LineOver
<1>2. PICK n \in Nat \ {0} :
              /\ n <= Len(toClient) /\ chunk = Taken(toClient, n) /\ chunk \in Seq(ReplyByte)
              /\ toClient' = Left(toClient, n) /\ UNCHANGED <<toServer, hungUp, broken>>
  BY <1>1, Received, Room
<1>3. phase = "READ_REMOTE" /\ choice = k
  BY DEF ReadRemote
<1>4. ReplyRead(n)
  BY <1>1, <1>2, <1>3 DEF ReplyRead, ToMenu
<1> QED BY <1>4

(* the replies that are lists,                                             *)
LEMMA ListReads ==
    ASSUME Types, NEW k \in Listing, ReadRemote(k, ListOver)
    PROVE  \E n : ReplyRead(n)
<1>1. PICK chunk \in Chunks :
          /\ Receives(chunk, ClientSize - Len(buffer))
          /\ IF chunk[1] = "-" \/ HasCRLF(chunk, 3) THEN ToMenu(buffer \o chunk)
             ELSE /\ buffer' = buffer \o chunk
                  /\ UNCHANGED <<phase, choice, pipes, stdin, login, typed, shown>>
  BY DEF ReadRemote, ListOver
<1>2. PICK n \in Nat \ {0} :
              /\ n <= Len(toClient) /\ chunk = Taken(toClient, n) /\ chunk \in Seq(ReplyByte)
              /\ toClient' = Left(toClient, n) /\ UNCHANGED <<toServer, hungUp, broken>>
  BY <1>1, Received, Room
<1>3. phase = "READ_REMOTE" /\ choice = k /\ k # "GOODBYE"
  BY DEF ReadRemote, Listing
<1>4. HasCRLF(chunk, 3) => HasCRLF(chunk, 1)
  <2>1. PICK m \in Nat : m = Len(chunk)
    BY <1>2
  <2> QED BY <2>1 DEF HasCRLF
<1>5. chunk[1] = "-" => ("reply" \notin cuts' => toClient' = <<>> /\ reply = <<>>)
  <2>1. cuts' = IF CutsReply(chunk, toClient') THEN cuts \cup {"reply"} ELSE cuts
    BY <1>1 DEF Receives
  <2> QED BY <1>3, <2>1 DEF CutsReply
<1>6. ReplyRead(n)
  BY <1>1, <1>2, <1>3, <1>4, <1>5 DEF ReplyRead, ToMenu
<1> QED BY <1>6

(* and the reply to GOODBYE.                                               *)
LEMMA GoodbyeReads ==
    ASSUME Types, GoodbyeRead
    PROVE  (Ends("DONE") /\ choice = "GOODBYE") \/ \E n : ReplyRead(n)
<1>1. PICK chunk \in Chunks :
          IF LineOver(chunk) THEN Ends("DONE")
          ELSE /\ Receives(chunk, ClientSize - Len(buffer))
               /\ buffer' = buffer \o chunk
               /\ UNCHANGED <<phase, choice, pipes, stdin, login, typed, shown>>
  BY DEF GoodbyeRead
<1>2. phase = "READ_REMOTE" /\ choice = "GOODBYE"
  BY DEF GoodbyeRead
<1>3. CASE LineOver(chunk)
  BY <1>1, <1>2, <1>3
<1>4. CASE ~LineOver(chunk)
  <2>1. PICK n \in Nat \ {0} :
              /\ n <= Len(toClient) /\ chunk = Taken(toClient, n) /\ chunk \in Seq(ReplyByte)
              /\ toClient' = Left(toClient, n) /\ UNCHANGED <<toServer, hungUp, broken>>
    BY <1>1, <1>4, Received, Room
  <2>2. ReplyRead(n)
    BY <1>1, <1>2, <1>4, <2>1 DEF ReplyRead
  <2> QED BY <2>2
<1> QED BY <1>3, <1>4

(* Reading a reply keeps the invariant.                                    *)
LEMMA ReplyReadKeeps ==
    ASSUME Inv, UNCHANGED sessionVars, NEW n, ReplyRead(n)
    PROVE  Inv'
<1>1. SessionSame
  BY SessionIsSame
<1>2. /\ Types /\ Knowing
      /\ n \in Nat \ {0} /\ n <= Len(toClient) /\ toClient' = Left(toClient, n)
      /\ UNCHANGED <<toServer, hungUp, broken>>
      /\ phase = "READ_REMOTE" /\ UNCHANGED <<choice, stdin, login>>
  BY DEF Inv, ReplyRead
<1>3. PICK c, s \in Seq(ReplyByte) :
              /\ c = Taken(toClient, n) /\ s = Left(toClient, n) \o reply
              /\ ToRead = c \o s /\ ToRead # <<>> /\ Len(ToRead) \in Nat \ {0}
              /\ c[1] = ToRead[1]
              /\ s = <<>> => Left(toClient, n) = <<>> /\ reply = <<>>
              /\ Left(toClient, n) \in Seq(ReplyByte)
  BY <1>2, ToReadParts
<1>4. Live /\ Talking
  <2>1. toClient # <<>>
    BY <1>2, EmptyParts
  <2> QED BY <1>2, <2>1 DEF Inv, Types, ChannelTypes, ClientTypes, Live, Ended
<1>5. /\ stdin = <<>> /\ choice # "HELLO" /\ Way = <<>> /\ CrlfLast(ToRead)
      /\ session \in {"TRANSACTION_READ", "TRANSACTION_WRITE", "DONE"}
      /\ session = "DONE" => choice = "GOODBYE"
  BY <1>2, <1>3, <1>4 DEF Talking, Remote, OverOnly, OverStates
<1>6. CrlfLast(c \o s)
  BY <1>3, <1>5
<1>7. CrlfLast(s) /\ (HasCRLF(c, 1) => s = <<>>)
  BY <1>6, CrlfParts
<1>8. ToRead' = s
  BY <1>1, <1>2, <1>3 DEF ToRead, SessionSame
<1>9. /\ UNCHANGED <<choice, stdin, login>>
      /\ \/ /\ phase' = "TRANSACTION" /\ buffer' = <<>> /\ choice # "GOODBYE"
            /\ \/ HasCRLF(c, 1)
               \/ "reply" \notin cuts' => toClient' = <<>> /\ reply = <<>>
         \/ phase' = phase /\ buffer' = buffer \o c
  BY <1>3 DEF ReplyRead
<1>10. ChannelTypes'
  BY <1>2, <1>3, <1>4 DEF Types, ChannelTypes, Live
<1>11. SessionTypes'
  BY <1>1, <1>2, SessionTypesKept DEF Types
<1>12. ClientTypes'
  <2>1. <<>> \in Seq(ReplyByte)
    OBVIOUS
  <2>2. PICK b \in Seq(ReplyByte) : b = buffer
    BY <1>2 DEF Types, ClientTypes
  <2>3. b \o c \in Seq(ReplyByte)
    OBVIOUS
  <2>4. buffer' \in Seq(ReplyByte)
    BY <1>9, <2>1, <2>2, <2>3
  <2> QED BY <1>2, <1>9, <2>4 DEF Types, ClientTypes, Phases, Ended
<1>13. Unsent' = Unsent
  BY <1>2, <1>9 DEF Unsent
<1>14. PICK w, z \in Seq(LuluByte) : Way = w \o z /\ Way' = w /\ z = <<>> /\ w = Way
  BY <1>1, <1>2, <1>13, WaySame DEF SessionSame
<1>15. Knowing'
  <2>1. Refused'
    BY <1>2, <1>9 DEF Refused
  <2> QED BY <1>1, <1>2, <1>14, <2>1, KnowingKept DEF SessionSame
<1>16. Reading'
  BY <1>1, <1>4, ReadingKept DEF SessionSame, Talking
<1>17. PastHello' /\ Beginning' /\ Asked' /\ Writing'
  BY <1>1, <1>2, <1>4, <1>5, <1>9 DEF SessionSame, Talking, PastHello, Beginning, Asked, Writing
<1>18. CASE phase' = phase
  <2>1. OverOnly' /\ Menu'
    BY <1>1, <1>2, <1>5, <1>18 DEF OverOnly, OverStates, Menu, SessionSame
  <2>2. Remote'
    BY <1>1, <1>2, <1>5, <1>7, <1>8, <1>9, <1>14 DEF Remote, SessionSame, CrlfLast
  <2> QED BY <1>10, <1>11, <1>12, <1>15, <1>16, <1>17, <2>1, <2>2 DEF Inv, Types, Talking
<1>19. CASE /\ phase' = "TRANSACTION" /\ buffer' = <<>> /\ choice # "GOODBYE"
            /\ \/ HasCRLF(c, 1)
               \/ "reply" \notin cuts' => toClient' = <<>> /\ reply = <<>>
  <2>1. "reply" \notin cuts' => ToRead' = <<>>
    <3>1. toClient' = <<>> /\ reply = <<>> => s = <<>>
      BY <1>2, <1>3, EmptyParts
    <3> QED BY <1>7, <1>8, <1>19, <3>1
  <2>2. Menu'
    BY <1>5, <1>9, <1>14, <1>19, <2>1 DEF Menu
  <2>3. OverOnly' /\ Remote'
    BY <1>1, <1>5, <1>19 DEF OverOnly, OverStates, Remote, SessionSame
  <2> QED BY <1>10, <1>11, <1>12, <1>15, <1>16, <1>17, <2>2, <2>3 DEF Inv, Types, Talking
<1> QED BY <1>9, <1>18, <1>19

(* What the menu and the handlers of the typed line have in common.        *)
LineStarts ==
    /\ phase' = "WRITE_REMOTE" /\ (Live => stdin' = <<>>)
    /\ \E k \in MenuCommand : \E line :
          IsTyped(line) /\ choice' = k /\ buffer' = Message(k, line)

(* A step of the user: nothing reaches the connection yet.                 *)
MenuStep ==
    /\ phase \in {"TRANSACTION", "READ_LOCAL"}
    /\ UNCHANGED <<toServer, toClient, hungUp, broken, login>>
    /\ Live => ToRead = <<>>
    /\ IsPiece(stdin')
    /\ \/ LineStarts
       \/ phase' = "READ_LOCAL" /\ IsTyped(buffer') /\ choice' \in Asking
       \/ /\ phase' = "TRANSACTION" /\ buffer' = <<>>
          /\ (Live => stdin' = <<>>) /\ choice' = choice

(* What is typed are bytes of the protocol.                                *)
LEMMA TypedBytes ==
    ASSUME NEW s, IsTyped(s)
    PROVE  s \in Seq(LuluByte) /\ s \in Seq(ReplyByte)
<1>1. LuluByte \subseteq ReplyByte
  BY ByteKinds
<1>2. \A t \in Seq(LuluByte \ {CR, LF}) : t \in Seq(LuluByte)
  OBVIOUS
<1>3. \A t \in Seq(LuluByte) : t \in Seq(ReplyByte)
  BY <1>1
<1> QED BY <1>2, <1>3 DEF IsTyped

(* Such a step keeps the types.                                            *)
LEMMA MenuTypes ==
    ASSUME Types, SessionSame, MenuStep
    PROVE  Types'
<1>1. ChannelTypes'
  BY DEF Types, ChannelTypes, MenuStep
<1>2. SessionTypes'
  BY SessionTypesKept DEF Types
<1>3. /\ phase \notin Ended /\ ~hungUp /\ hungUp' = hungUp /\ login' \in Logins
      /\ IsPiece(stdin') /\ choice \in Command
  BY DEF Types, ClientTypes, MenuStep, Ended
<1>4. CASE LineStarts
  <2>1. PICK k, line :
            /\ k \in MenuCommand /\ IsTyped(line)
            /\ choice' = k /\ buffer' = Message(k, line)
    BY <1>4 DEF LineStarts
  <2>2. buffer' \in Seq(LuluByte)
    BY <2>1, MessageIs DEF IsMessage
  <2>3. buffer' \in Seq(ReplyByte)
    BY <2>2, ByteKinds
  <2>4. ClientTypes'
    BY <1>3, <1>4, <2>1, <2>2, <2>3 DEF LineStarts, ClientTypes, Phases, Ended, MenuCommand
  <2> QED BY <1>1, <1>2, <2>4 DEF Types
<1>5. CASE phase' = "READ_LOCAL" /\ IsTyped(buffer') /\ choice' \in Asking
  <2>1. buffer' \in Seq(ReplyByte)
    BY <1>5, TypedBytes
  <2>2. ClientTypes'
    BY <1>3, <1>5, <2>1 DEF ClientTypes, Phases, Ended, Asking, Command, IsTyped
  <2> QED BY <1>1, <1>2, <2>2 DEF Types
<1>6. CASE phase' = "TRANSACTION" /\ buffer' = <<>> /\ choice' = choice
  <2>1. <<>> \in Seq(ReplyByte)
    OBVIOUS
  <2>2. ClientTypes'
    BY <1>3, <1>6, <2>1 DEF ClientTypes, Phases, Ended
  <2> QED BY <1>1, <1>2, <2>2 DEF Types
<1> QED BY <1>4, <1>5, <1>6 DEF MenuStep

(* Nothing of the line is on its way yet.                                  *)
LEMMA MenuWaits ==
    ASSUME Inv, SessionSame, MenuStep, phase' # "WRITE_REMOTE" \/ broken
    PROVE  Knowing' /\ (Live' => Way' = Way)
<1>1. Types /\ Knowing
  BY DEF Inv
<1>2. Unsent' = Unsent
  BY DEF MenuStep, LineStarts, Unsent
<1>3. PICK w, z \in Seq(LuluByte) : Way = w \o z /\ Way' = w /\ z = <<>> /\ w = Way
  BY <1>1, <1>2, WaySame DEF SessionSame, MenuStep
<1>4. Refused'
  BY DEF MenuStep, LineStarts, Refused
<1>5. Knowing'
  BY <1>1, <1>3, <1>4, KnowingKept DEF SessionSame, MenuStep
<1> QED BY <1>3, <1>5

(* In the menu the server waits for a command, or is about to.             *)
LEMMA MenuLive ==
    ASSUME Inv, Live, phase \in {"TRANSACTION", "READ_LOCAL"}
    PROVE  /\ Talking /\ Way = <<>> /\ choice # "GOODBYE"
           /\ session \in {"HELLO_WRITE", "TRANSACTION_READ", "TRANSACTION_WRITE"}
           /\ session = "HELLO_WRITE" => Accepted /\ reply = <<>>
           /\ session = "TRANSACTION_WRITE" => parserIndex # 0
  BY DEF Inv, Talking, Menu, PastHello, OverOnly, Writing, Types, SessionTypes, SessionStates,
         ReadStates, WriteStates

(* Such a step keeps the invariant.                                        *)
LEMMA MenuKeeps ==
    ASSUME Inv, SessionSame, MenuStep
    PROVE  Inv'
<1>1. Types' /\ Types /\ Knowing
  BY MenuTypes DEF Inv
<1>2. /\ UNCHANGED <<toServer, toClient, hungUp, broken, login>>
      /\ phase \in {"TRANSACTION", "READ_LOCAL"}
  BY DEF MenuStep
<1>3. CASE broken
  BY <1>1, <1>2, <1>3, MenuWaits DEF Inv, Live
<1>4. CASE ~broken
  <2>1. Live
    BY <1>1, <1>2, <1>4 DEF Types, ClientTypes, ChannelTypes, Live, Ended
  <2>2. /\ Talking /\ Way = <<>> /\ choice # "GOODBYE"
        /\ session \in {"HELLO_WRITE", "TRANSACTION_READ", "TRANSACTION_WRITE"}
        /\ session = "HELLO_WRITE" => Accepted /\ reply = <<>>
        /\ session = "TRANSACTION_WRITE" => parserIndex # 0
    BY <1>2, <2>1, MenuLive
  <2>3. ToRead' = <<>>
    BY <1>2, <2>1 DEF MenuStep, ToRead, SessionSame
  <2>4. Accepted' = Accepted
    BY DEF Accepted, SessionSame
  <2>5. Reading'
    BY <2>2, ReadingKept DEF SessionSame, Talking
  <2>6. phase' \in {"WRITE_REMOTE", "READ_LOCAL", "TRANSACTION"}
    BY DEF MenuStep, LineStarts
  <2>7. PastHello'
    BY <2>2, <2>4, <2>6 DEF SessionSame, PastHello
  <2>8. OverOnly'
    BY <2>2 DEF SessionSame, OverOnly, OverStates
  <2>9. Beginning' /\ Asked'
    BY <2>6 DEF Beginning, Asked
  <2>10. Writing'
    BY <2>2 DEF SessionSame, Writing, Talking
  <2>11. PastHello' /\ OverOnly' /\ Beginning' /\ Asked' /\ Writing'
    BY <2>7, <2>8, <2>9, <2>10
  <2>12. CASE phase' # "WRITE_REMOTE"
    <3>1. Knowing' /\ Way' = Way
      BY <1>2, <2>1, <2>12, MenuWaits DEF Live
    <3>2. choice' # "GOODBYE"
      BY <2>2, <2>12 DEF MenuStep, LineStarts, Asking
    <3>3. phase' = "TRANSACTION" => buffer' = <<>> /\ stdin' = <<>>
      BY <2>1, <2>12 DEF MenuStep, LineStarts
    <3>4. Menu'
      BY <2>2, <2>3, <3>1, <3>2, <3>3 DEF Menu
    <3>5. Remote'
      BY <2>6, <2>12 DEF Remote
    <3> QED BY <1>1, <2>5, <2>11, <3>1, <3>4, <3>5 DEF Inv, Talking
  <2>13. CASE phase' = "WRITE_REMOTE"
    <3>1. LineStarts
      BY <2>13 DEF MenuStep
    <3>2. PICK k, line :
            /\ k \in MenuCommand /\ IsTyped(line)
            /\ choice' = k /\ buffer' = Message(k, line)
      BY <3>1 DEF LineStarts
    <3>3. PICK m \in Seq(LuluByte) : m = buffer' /\ IsMessage(k, m)
      BY <3>2, MessageIs DEF IsMessage
    <3>4. Unsent' = m
      BY <1>2, <1>4, <2>13, <3>3 DEF Unsent
    <3>5. Way' = m /\ held = <<>>
      BY <1>1, <1>2, <2>2, <3>4, WayFilled DEF SessionSame
    <3>6. Knowing'
      <4>1. HelloReading' /\ Refused'
        BY <2>2, <2>13 DEF SessionSame, HelloReading, Refused
      <4>2. HelloWriting'
        BY <1>1, <1>2, <2>2, <2>4 DEF SessionSame, HelloWriting, Knowing
      <4>3. Transaction'
        BY <1>1, <1>2 DEF SessionSame, Transaction, Knowing
      <4> QED BY <4>1, <4>2, <4>3 DEF Knowing
    <3>7. Menu'
      BY <2>13 DEF Menu
    <3>8. stdin' = <<>> /\ choice' = k /\ k # "HELLO"
      BY <2>1, <3>1, <3>2 DEF LineStarts, MenuCommand
    <3>9. Remote'
      BY <2>3, <3>3, <3>5, <3>8 DEF Remote, IsMessage, HasByte, LfLast
    <3> QED BY <1>1, <2>5, <2>11, <3>6, <3>7, <3>9 DEF Inv, Talking
  <2> QED BY <2>12, <2>13
<1> QED BY <1>3, <1>4

(* A choice in the menu is such a step.                                    *)
LEMMA ChoosesKeeps ==
    ASSUME Inv, UNCHANGED sessionVars, Chooses
    PROVE  Inv'
<1>1. /\ phase = "TRANSACTION" /\ toClient = <<>> /\ reply = <<>>
      /\ UNCHANGED <<toServer, toClient, hungUp, broken, stdin, login>>
  BY DEF Chooses, TransactionRead
<1>2. PICK k \in MenuCommand :
          /\ choice' = k
          /\ phase' = IF k \in Asking THEN "READ_LOCAL" ELSE "WRITE_REMOTE"
          /\ buffer' = IF k \in Asking THEN <<>> ELSE Message(k, <<>>)
  BY DEF Chooses, TransactionRead
<1>3. IsTyped(<<>>) /\ ToRead = <<>>
  BY <1>1 DEF IsTyped, ToRead
<1>4. (Live => stdin = <<>>) /\ IsPiece(stdin')
  BY <1>1 DEF Inv, Talking, Menu, Types, ClientTypes, IsPiece
<1>5. CASE k \in Asking
  <2>1. phase' = "READ_LOCAL" /\ buffer' = <<>> /\ choice' \in Asking
    BY <1>2, <1>5
  <2> QED BY <1>1, <1>3, <1>4, <2>1, SessionIsSame, MenuKeeps DEF MenuStep
<1>6. CASE k \notin Asking
  <2>1. LineStarts
    BY <1>1, <1>2, <1>3, <1>4, <1>6 DEF LineStarts
  <2> QED BY <1>1, <1>3, <1>4, <2>1, SessionIsSame, MenuKeeps DEF MenuStep
<1> QED BY <1>5, <1>6

(* What a handler of the typed line does with n bytes of line.             *)
LinePiece(k, line, n) ==
    /\ phase = "READ_LOCAL" /\ choice = k
    /\ line \in Pieces(k, stdin) /\ n \in 1 .. Len(line)
    /\ stdin' = Left(line, n)
    /\ \/ /\ n < Len(line) /\ buffer' = buffer \o Front(Taken(line, n))
          /\ UNCHANGED <<phase, choice>>
       \/ n = Len(line) /\ Proceeds(k, buffer \o Front(Taken(line, n)))
       \/ n = Len(line) /\ phase' = "TRANSACTION" /\ buffer' = <<>> /\ choice' = choice
    /\ UNCHANGED <<toServer, toClient, hungUp, broken, login>>

(* The lines with any number of bars,                                      *)
LEMMA AnyLinePiece ==
    ASSUME NEW k, ReadLocal(k, AnyCount)
    PROVE  \E line : \E n : LinePiece(k, line, n)
BY DEF ReadLocal, AnyCount, LinePiece

(* and the line of SET USER.                                               *)
LEMMA BarLinePiece ==
    ASSUME NEW k, ReadLocal(k, OneBar)
    PROVE  \E line : \E n : LinePiece(k, line, n)
BY DEF ReadLocal, OneBar, LinePiece

(* A piece of a line is typed bytes and the end of the line.               *)
LEMMA PieceIs ==
    ASSUME Types, NEW k \in Asking, NEW line \in Pieces(k, stdin)
    PROVE  line \in Seq(LuluByte) /\ IsPiece(line)
<1>1. CASE stdin = <<>>
  <2>1. PICK t \in TypedLines[k] : line = t \o <<LF>>
    BY <1>1 DEF Pieces
  <2>2. PICK u \in Seq(LuluByte) : u = t /\ \A i \in 1 .. Len(u) : u[i] \notin {CR, LF}
    BY LuluClientAssumption DEF LuluClientAssumption
  <2>3. PICK a \in Nat : a = Len(u)
    OBVIOUS
  <2>4. LF \in LuluByte
    BY ByteKinds
  <2>5. /\ line \in Seq(LuluByte) /\ Len(line) = a + 1
        /\ \A i \in 1 .. a : line[i] = u[i]
    BY <2>1, <2>2, <2>3, <2>4, Bytes1
  <2> QED BY <2>2, <2>3, <2>5 DEF IsPiece
<1>2. CASE stdin # <<>>
  BY <1>2 DEF Pieces, Types, ClientTypes, IsPiece
<1> QED BY <1>1, <1>2

(* What is stored of it, and what is left.                                 *)
LEMMA TypedJoined ==
    ASSUME NEW s, IsTyped(s), NEW line \in Seq(LuluByte), IsPiece(line), NEW n \in 1 .. Len(line)
    PROVE  /\ IsTyped(s \o Front(Taken(line, n)))
           /\ IsPiece(Left(line, n)) /\ (n = Len(line) => Left(line, n) = <<>>)
<1> DEFINE f == Front(Taken(line, n))
<1>1. PICK m \in Nat : m = Len(line) /\ n \in Nat /\ n > 0 /\ n <= m
  OBVIOUS
<1>2. /\ Taken(line, n) \in Seq(LuluByte) /\ Len(Taken(line, n)) = n
      /\ \A i \in 1 .. n : Taken(line, n)[i] = line[i]
  BY <1>1, TakenIs
<1>3. /\ Left(line, n) \in Seq(LuluByte) /\ Len(Left(line, n)) = m - n
      /\ \A i \in 1 .. m - n : Left(line, n)[i] = line[n + i]
  BY <1>1, LeftIs
<1>4. \A i \in 1 .. m - 1 : line[i] \in LuluByte \ {CR, LF}
  BY <1>1 DEF IsPiece
<1>5. f \in Seq(LuluByte \ {CR, LF})
  <2>1. f = [i \in 1 .. n - 1 |-> line[i]]
    <3>1. PICK t \in Seq(LuluByte) : t = Taken(line, n)
      BY <1>2
    <3>2. Len(t) = n /\ \A i \in 1 .. n : t[i] = line[i]
      BY <1>2, <3>1
    <3>3. f = SubSeq(t, 1, n - 1)
      BY <3>1, <3>2 DEF Front
    <3>4. SubSeq(t, 1, n - 1) = [i \in 1 .. n - 1 |-> line[i]]
      BY <1>1, <3>2
    <3> QED BY <3>3, <3>4
  <2>2. n - 1 \in Nat /\ \A i \in 1 .. n - 1 : line[i] \in LuluByte \ {CR, LF}
    BY <1>1, <1>4
  <2> QED BY <2>1, <2>2
<1>6. IsTyped(s \o f)
  BY <1>5 DEF IsTyped
<1>7. \A i \in 1 .. (m - n) - 1 : Left(line, n)[i] \notin {CR, LF}
  <2> TAKE i \in 1 .. (m - n) - 1
  <2>1. i \in 1 .. m - n /\ n + i \in 1 .. m - 1
    BY <1>1
  <2> QED BY <1>3, <1>4, <2>1
<1>8. IsPiece(Left(line, n))
  BY <1>3, <1>7 DEF IsPiece
<1>9. n = Len(line) => Left(line, n) = <<>>
  BY <1>1, <1>3
<1> QED BY <1>6, <1>8, <1>9

(* Reading the typed line keeps the invariant.                             *)
LEMMA TypedKeeps ==
    ASSUME Inv, UNCHANGED sessionVars, NEW k \in Asking, NEW line, NEW n, LinePiece(k, line, n)
    PROVE  Inv'
<1>1. Types
  BY DEF Inv
<1>2. line \in Seq(LuluByte) /\ IsPiece(line) /\ n \in 1 .. Len(line)
  BY <1>1, PieceIs DEF LinePiece
<1>3. phase = "READ_LOCAL" /\ choice = k /\ IsTyped(buffer)
  BY <1>1 DEF LinePiece, Types, ClientTypes
<1>4. PICK s : s = buffer \o Front(Taken(line, n))
  OBVIOUS
<1>5. IsTyped(s) /\ stdin' = Left(line, n)
  BY <1>2, <1>3, <1>4, TypedJoined DEF LinePiece
<1>6. IsPiece(stdin') /\ (n = Len(line) => stdin' = <<>>)
  BY <1>2, <1>3, <1>5, TypedJoined
<1>7. UNCHANGED <<toServer, toClient, hungUp, broken, login>> /\ (Live => ToRead = <<>>)
  BY <1>3 DEF LinePiece, Inv, Talking, Menu
<1>8. SessionSame /\ k \in MenuCommand
  BY SessionIsSame DEF Asking, MenuCommand, Command
<1>9. CASE buffer' = s /\ UNCHANGED <<phase, choice>>
  BY <1>3, <1>5, <1>6, <1>7, <1>8, <1>9, MenuKeeps DEF MenuStep
<1>10. CASE n = Len(line) /\ Proceeds(k, s)
  <2>1. phase' = "WRITE_REMOTE" /\ buffer' = Message(k, s) /\ choice' = k
    BY <1>3, <1>10 DEF Proceeds
  <2>2. LineStarts
    BY <1>5, <1>6, <1>8, <1>10, <2>1 DEF LineStarts
  <2> QED BY <1>3, <1>6, <1>7, <1>8, <2>2, MenuKeeps DEF MenuStep
<1>11. CASE n = Len(line) /\ phase' = "TRANSACTION" /\ buffer' = <<>> /\ choice' = choice
  BY <1>3, <1>6, <1>7, <1>8, <1>11, MenuKeeps DEF MenuStep
<1> QED BY <1>4, <1>9, <1>10, <1>11 DEF LinePiece

(* Every step of the user keeps it.                                        *)
LEMMA UserKeeps ==
    ASSUME Inv, UserActs
    PROVE  Inv'
<1>1. UNCHANGED sessionVars
  BY DEF UserActs
<1>2. CASE Chooses
  BY <1>1, <1>2, ChoosesKeeps
<1>3. CASE StdinEnds
  <2>1. Ends("ERROR")
    BY <1>3 DEF StdinEnds
  <2> QED BY <1>1, <2>1, EndsKeeps DEF Ended
<1>4. ASSUME NEW k \in Asking, ReadLocal(k, AnyCount)
      PROVE  Inv'
  BY <1>1, <1>4, AnyLinePiece, TypedKeeps
<1>5. ASSUME NEW k \in Asking, ReadLocal(k, OneBar)
      PROVE  Inv'
  BY <1>1, <1>5, BarLinePiece, TypedKeeps
<1>6. CASE SetTimeoutReadLocal \/ SetBufferSizeReadLocal \/ DelUserReadLocal
  <2>1. \E k \in Asking : ReadLocal(k, AnyCount)
    BY <1>6 DEF SetTimeoutReadLocal, SetBufferSizeReadLocal, DelUserReadLocal, Asking
  <2> QED BY <1>4, <2>1
<1>7. CASE SetUserReadLocal
  <2>1. \E k \in Asking : ReadLocal(k, OneBar)
    BY <1>7 DEF SetUserReadLocal, Asking
  <2> QED BY <1>5, <2>1
<1> QED BY <1>2, <1>3, <1>6, <1>7 DEF UserActs, UserNext

(* What is on its way are bytes of the protocol.                           *)
LEMMA WayBytes == Types => Way \in Seq(LuluByte)
<1>1. ASSUME Types PROVE Way \in Seq(LuluByte)
  <2>1. PICK h, t, u \in Seq(LuluByte) :
            h = held /\ t = toServer /\ u = Unsent /\ h \o t \in Seq(LuluByte)
    BY <1>1, WayIs
  <2>2. (h \o t) \o u \in Seq(LuluByte)
    BY <2>1
  <2> QED BY <2>1, <2>2 DEF Way
<1> QED BY <1>1

(* What a read of the session leaves alone, and that the connection lives. *)
ClientSame == UNCHANGED <<phase, choice, buffer, stdin, login, toClient, hungUp, broken>>
(* A read of the session takes c and leaves r.                             *)
SessionTakes(n, c, r, v) ==
    /\ ReadStep(n, c, r, v) /\ ClientSame
    /\ ~broken /\ toServer' = r /\ Way # <<>>
    /\ held \o toServer # <<>>

(* SessionRead is such a read.                                             *)
LEMMA SessionReads ==
    ASSUME Types, SessionRead, UNCHANGED clientVars
    PROVE  \E n, c, r, v : SessionTakes(n, c, r, v)
<1>1. PICK n \in 1 .. ReadSize - Len(held) :
          /\ n <= Len(toServer)
          /\ RunParsers(Taken(toServer, n))
          /\ toServer' = Left(toServer, n)
  BY DEF SessionRead
<1>2. n \in Nat \ {0}
  OBVIOUS
<1>3. ClientSame
  BY DEF SessionRead, clientVars, ClientSame
<1>4. Unsent' = Unsent
  BY <1>3 DEF Unsent, ClientSame
<1>5. PICK c, r \in Seq(LuluByte) :
              /\ c = Taken(toServer, n) /\ Len(c) = n /\ c # <<>>
              /\ toServer = c \o r /\ toServer' = r
              /\ held \o c \in Seq(LuluByte) /\ r \o Unsent \in Seq(LuluByte)
              /\ Way = (held \o c) \o (r \o Unsent)
              /\ held' = held \o c => Way' = Way
              /\ held' = <<>> => Way' = r \o Unsent
  BY <1>1, <1>2, <1>4, ReadSplits
<1>6. PICK v : v = r \o Unsent
  OBVIOUS
<1>7. ReadStep(n, c, r, v)
  BY <1>1, <1>2, <1>3, <1>5, <1>6 DEF ReadStep, ClientSame
<1>8. ~broken
  <2>1. toServer \in Seq(LuluByte) /\ Len(toServer) > 0
    BY <1>1, <1>2 DEF Types, ChannelTypes
  <2>2. toServer # <<>>
    BY <2>1
  <2> QED BY <2>2 DEF Types, ChannelTypes
<1>9. Way # <<>> /\ held \o toServer # <<>>
  <2>1. PICK h, t, u \in Seq(LuluByte) :
            h = held /\ t = toServer /\ u = Unsent /\ h \o t \in Seq(LuluByte)
    BY WayIs
  <2>2. Len(t) > 0
    BY <1>1, <1>2, <2>1
  <2>3. Len(h \o t) > 0
    BY <2>1, <2>2
  <2>4. Len((h \o t) \o u) > 0
    BY <2>1, <2>3
  <2>5. Way = (h \o t) \o u /\ held \o toServer = h \o t
    BY <2>1 DEF Way
  <2> QED BY <2>3, <2>4, <2>5
<1> QED BY <1>3, <1>5, <1>7, <1>8, <1>9 DEF SessionTakes

(* What is not read is read from the server's end only, where the user     *)
(* waits for a reply.                                                      *)
LEMMA ReadPhases ==
    ASSUME Inv, Live, session \in ReadStates, Way # <<>>
    PROVE  /\ session = "HELLO_READ" => phase \in {"WRITE_AUTH", "READ_AUTH"}
           /\ session = "TRANSACTION_READ" =>
                 /\ phase \in {"WRITE_REMOTE", "READ_REMOTE"}
                 /\ LfLast(Way) /\ (parserIndex = 0 => BarWay)
           /\ Len(Way) <= ClientSize /\ ToRead = <<>>
<1>1. /\ Talking /\ phase \in Phases /\ phase \notin Ended
  BY DEF Inv, Types, ClientTypes, Live
<1>2. phase # "WAITING_CONNECTION"
  BY <1>1 DEF Talking, Beginning
<1>3. phase \notin {"TRANSACTION", "READ_LOCAL"}
  BY <1>1 DEF Talking, Menu
<1>4. CASE phase \in {"WRITE_AUTH", "READ_AUTH"}
  BY <1>1, <1>4 DEF Talking, Asked
<1>5. CASE phase \in {"WRITE_REMOTE", "READ_REMOTE"}
  BY <1>1, <1>5 DEF Talking, Remote, PastHello, BarWay
<1> QED BY <1>1, <1>2, <1>3, <1>4, <1>5 DEF Phases, Ended

(* The types of a client that stands still,                                *)
LEMMA ClientTypesKept ==
    ASSUME ClientTypes, ClientSame
    PROVE  ClientTypes'
BY DEF ClientTypes, ClientSame, IsPiece, IsTyped

(* and that it was refused.                                                *)
LEMMA RefusedKept ==
    ASSUME Refused, ClientSame
    PROVE  Refused'
BY LoginKept DEF Refused, ClientSame

(* A read of HELLO keeps the invariant.                                    *)
LEMMA HelloReadKeeps ==
    ASSUME Inv, NEW n, NEW c, NEW r, NEW v, SessionTakes(n, c, r, v), session = "HELLO_READ"
    PROVE  Inv'
<1>1. /\ Types /\ Knowing /\ ClientSame /\ ~broken /\ Way # <<>>
      /\ r \in Seq(LuluByte) /\ toServer' = r
  BY DEF Inv, SessionTakes, ReadStep
<1>2. /\ Shape(parser') /\ parser'.value <= MaxValue /\ held' \in Seq(LuluByte)
      /\ HelloReading' /\ (HelloGoesOn \/ HelloIsAnswered)
  <2>1. HelloStep(n, c, r, v)
    BY <1>1 DEF HelloStep, SessionTakes, Knowing
  <2> QED BY <2>1, HelloRead DEF HelloOutcome
<1>3. login' = login /\ Refusable' = Refusable
  BY <1>1, LoginKept DEF ClientSame
<1>4. ChannelTypes'
  BY <1>1 DEF Types, ChannelTypes, ClientSame
<1>5. ClientTypes'
  BY <1>1, ClientTypesKept DEF Types
<1>6. Refused'
  BY <1>1, RefusedKept DEF Knowing
<1>7. ASSUME Live' PROVE Live /\ phase \in {"WRITE_AUTH", "READ_AUTH"} /\ ToRead = <<>>
                         /\ Len(Way) <= ClientSize /\ Asked /\ toClient = <<>> /\ reply = <<>>
  <2>1. Live
    BY <1>1, <1>7 DEF Live, ClientSame
  <2>2. phase \in {"WRITE_AUTH", "READ_AUTH"} /\ ToRead = <<>> /\ Len(Way) <= ClientSize
    BY <1>1, <2>1, ReadPhases DEF ReadStates
  <2>3. toClient = <<>> /\ reply = <<>>
    BY <1>1, <2>2, EmptyJoined DEF Types, ChannelTypes, SessionTypes, ToRead
  <2> QED BY <2>1, <2>2, <2>3 DEF Inv, Talking
<1>8. CASE HelloGoesOn
  <2>1. session' = "HELLO_READ" /\ UNCHANGED <<reply, loggedIn, timeout, bufferSize>>
    BY <1>8 DEF HelloGoesOn, settings
  <2>2. SessionTypes'
    <3>1. parserIndex' \in 0 .. 9
      BY <1>2, <2>1 DEF HelloReading
    <3> QED BY <1>1, <1>2, <2>1, <3>1 DEF Types, SessionTypes, SessionStates, ReadStates
  <2>3. Knowing'
    BY <1>2, <1>6, <2>1 DEF Knowing, HelloWriting, Transaction
  <2>4. ASSUME Live' PROVE Talking'
    <3>1. Asked /\ phase \in {"WRITE_AUTH", "READ_AUTH"} /\ ToRead = <<>>
      BY <1>7, <2>4
    <3>2. ToRead' = <<>>
      BY <1>1, <1>7, <2>1, <2>4, <3>1 DEF ToRead, ClientSame
    <3>3. Len(Way') <= ClientSize
      <4>1. Len(Way') <= Len(Way) /\ Len(Way) <= ClientSize
        BY <1>7, <1>8, <2>4 DEF HelloGoesOn
      <4>2. PICK w \in Seq(LuluByte) : w = Way
        BY <1>1, WayBytes
      <4>3. PICK w2 \in Seq(LuluByte) : w2 = Way'
        <5>1. Types'
          BY <1>4, <1>5, <2>2 DEF Types
        <5>2. (Types => Way \in Seq(LuluByte))'
          BY WayBytes, PTL
        <5> QED BY <5>1, <5>2
      <4>4. Len(w) \in Nat /\ Len(w2) \in Nat /\ ClientSize \in Int
        BY LuluClientAssumption, LuluSessionAssumption
           DEF LuluClientAssumption, LuluSessionAssumption
      <4> QED BY <4>1, <4>2, <4>3, <4>4
    <3>4. Asked'
      BY <1>1, <2>1, <3>1, <3>2, <3>3 DEF Asked, ClientSame
    <3> QED BY <1>1, <2>1, <3>1, <3>4
        DEF Talking, PastHello, Reading, Writing, OverOnly, OverStates, Beginning, Menu, Remote,
            ClientSame
  <2> QED BY <1>4, <1>5, <2>2, <2>3, <2>4 DEF Inv, Types
<1>9. CASE HelloIsAnswered
  <2>1. /\ session' = "HELLO_WRITE" /\ held' = <<>> /\ Way' = <<>> /\ UNCHANGED settings
        /\ parserIndex' \in {0, 2} /\ loggedIn' \in BOOLEAN
        /\ \/ parserIndex' = 0 /\ loggedIn' /\ login \in Accounts /\ reply' = Ok
           \/ ~ (parserIndex' = 0 /\ loggedIn') /\ Refusable /\ reply' = Minus
    BY <1>9 DEF HelloIsAnswered
  <2>2. \/ Accepted' /\ login' \in Accounts /\ reply' = Ok
        \/ ~Accepted' /\ Refusable' /\ reply' = Minus
    BY <1>3, <2>1 DEF Accepted
  <2>3. IsReply(Ok) /\ ~HasByte(Ok, "-") /\ IsReply(Minus) /\ Minus[1] = "-"
    BY RepliesAre
  <2>4. SessionTypes'
    BY <1>1, <1>2, <2>1, <2>2, <2>3
       DEF Types, SessionTypes, SessionStates, WriteStates, IsReply, settings
  <2>5. Knowing'
    BY <1>2, <1>6, <2>1, <2>2 DEF Knowing, HelloWriting, Transaction
  <2>6. ASSUME Live' PROVE Talking'
    <3>1. Asked /\ phase \in {"WRITE_AUTH", "READ_AUTH"} /\ toClient = <<>>
      BY <1>7, <2>6
    <3>2. ToRead' = reply'
      <4>1. reply' \in Seq(ReplyByte) /\ toClient' = <<>>
        BY <1>1, <2>2, <2>3, <3>1 DEF IsReply, ClientSame
      <4> QED BY <4>1 DEF ToRead
    <3>3. Asked'
      <4>1. CASE Accepted' /\ reply' = Ok
        <5>1. CrlfLast(ToRead)' /\ ~HasByte(ToRead, "-")'
          BY <2>3, <3>2, <4>1 DEF IsReply, CrlfLast, HasByte
        <5> QED BY <1>1, <2>1, <3>1, <4>1, <5>1 DEF Asked, ClientSame
      <4>2. CASE ~Accepted' /\ Refusable' /\ reply' = Minus
        BY <1>1, <2>1, <2>3, <3>1, <3>2, <4>2 DEF Asked, ClientSame, IsReply
      <4> QED BY <2>2, <4>1, <4>2
    <3> QED BY <1>1, <2>1, <3>1, <3>3
        DEF Talking, PastHello, Reading, Writing, OverOnly, OverStates, Beginning, Menu, Remote,
            ClientSame
  <2> QED BY <1>4, <1>5, <2>4, <2>5, <2>6 DEF Inv, Types
<1> QED BY <1>2, <1>8, <1>9

(* A read of a command, whatever parser it ends at.                        *)
LEMMA TransactionOutcome ==
    ASSUME NEW n, NEW c, NEW r, NEW v, ReadStep(n, c, r, v), session = "TRANSACTION_READ",
           Reading, LfLast(Way), parserIndex = 0 => BarWay, choice' = choice
    PROVE  TransactionWaits \/ TransactionIsAnswered \/ TransactionIsTooLong
<1>1. CASE Reached(c) = 9
  BY <1>1, TransactionUnknown
<1>2. CASE Reached(c) # 9
  <2>1. PICK i : i = Reached(c)
    OBVIOUS
  <2>2. i # 9
    BY <1>2, <2>1
  <2> QED BY <2>1, <2>2, TransactionKnown
<1> QED BY <1>1, <1>2

(* It keeps the invariant.                                                 *)
LEMMA TransactionReadKeeps ==
    ASSUME Inv, NEW n, NEW c, NEW r, NEW v, SessionTakes(n, c, r, v), session = "TRANSACTION_READ"
    PROVE  Inv'
<1>1. /\ Types /\ Knowing /\ ClientSame /\ ~broken /\ Way # <<>> /\ ReadStep(n, c, r, v)
      /\ r \in Seq(LuluByte) /\ toServer' = r
  BY DEF Inv, SessionTakes, ReadStep
<1>2. SessionTypes' /\ session' \in {"TRANSACTION_READ", "TRANSACTION_WRITE", "ERROR"}
  BY <1>1, TransactionTypes DEF TransactionTyped
<1>3. ChannelTypes' /\ ClientTypes'
  BY <1>1, ClientTypesKept DEF Types, ChannelTypes, ClientSame
<1>4. Knowing'
  <2>1. Refused' /\ login \in Accounts /\ login' = login
    BY <1>1, RefusedKept DEF Knowing, Transaction, ClientSame
  <2> QED BY <1>2, <2>1 DEF Knowing, HelloReading, HelloWriting, Transaction
<1>5. ASSUME Live' PROVE Talking'
  <2>1. Live
    BY <1>1, <1>5 DEF Live, ClientSame
  <2>2. /\ phase \in {"WRITE_REMOTE", "READ_REMOTE"} /\ LfLast(Way) /\ (parserIndex = 0 => BarWay)
        /\ Len(Way) <= ClientSize /\ ToRead = <<>>
    BY <1>1, <2>1, ReadPhases DEF ReadStates
  <2>3. toClient = <<>> /\ reply = <<>>
    BY <1>1, <2>2, EmptyJoined DEF Types, ChannelTypes, SessionTypes, ToRead
  <2>4. Reading /\ stdin = <<>> /\ choice # "HELLO"
    BY <2>1, <2>2 DEF Inv, Talking, Remote
  <2>5. TransactionWaits \/ TransactionIsAnswered \/ TransactionIsTooLong
    <3>1. choice' = choice
      BY <1>1 DEF ClientSame
    <3> QED BY <1>1, <2>2, <2>4, <3>1, TransactionOutcome
  <2>6. phase' = phase /\ stdin' = stdin /\ choice' = choice /\ toClient' = <<>>
    BY <1>1, <2>3 DEF ClientSame
  <2>7. Beginning' /\ Asked' /\ Menu'
    BY <2>2, <2>6 DEF Beginning, Asked, Menu
  <2>8. CASE TransactionWaits
    <3>1. /\ session' = "TRANSACTION_READ" /\ reply' = <<>> /\ Reading'
          /\ LfLast(Way)' /\ Len(Way') <= Len(Way)
          /\ parserIndex' = 0 => parserIndex = 0 /\ Way' = Way
      BY <2>3, <2>8 DEF TransactionWaits
    <3>2. ToRead' = <<>>
      BY <2>6, <3>1 DEF ToRead
    <3>3. Len(Way') <= ClientSize
      <4>1. PICK w \in Seq(LuluByte) : w = Way
        BY <1>1, WayBytes
      <4>2. PICK w2 \in Seq(LuluByte) : w2 = Way'
        <5>1. Types'
          BY <1>2, <1>3 DEF Types
        <5>2. (Types => Way \in Seq(LuluByte))'
          BY WayBytes, PTL
        <5> QED BY <5>1, <5>2
      <4>3. Len(w) \in Nat /\ Len(w2) \in Nat /\ ClientSize \in Int
        BY LuluClientAssumption, LuluSessionAssumption
           DEF LuluClientAssumption, LuluSessionAssumption
      <4> QED BY <2>2, <3>1, <4>1, <4>2, <4>3
    <3>4. parserIndex' = 0 => (choice' # "GOODBYE" /\ HasByte(Way, LF)' => HasByte(Way, Bar)')
      BY <2>2, <2>6, <3>1 DEF BarWay, HasByte
    <3>5. Remote'
      BY <2>4, <2>6, <3>1, <3>2, <3>3, <3>4 DEF Remote, HasByte
    <3> QED BY <2>7, <3>1, <3>5 DEF Talking, PastHello, Writing, OverOnly, OverStates
  <2>9. CASE TransactionIsAnswered
    <3>1. session' = "TRANSACTION_WRITE" /\ Writing' /\ Way' = <<>> /\ IsReply(reply')
      BY <2>9 DEF TransactionIsAnswered
    <3>2. ToRead' = reply'
      <4>1. reply' \in Seq(ReplyByte)
        BY <3>1 DEF IsReply
      <4> QED BY <2>6, <4>1 DEF ToRead
    <3>3. CrlfLast(ToRead)'
      BY <3>1, <3>2 DEF IsReply, CrlfLast
    <3>4. Remote'
      BY <2>4, <2>6, <3>1, <3>3 DEF Remote
    <3> QED BY <2>7, <3>1, <3>4 DEF Talking, PastHello, Reading, OverOnly, OverStates
  <2>10. CASE TransactionIsTooLong
    <3>1. session' = "ERROR" /\ taken'.command = "LIST USERS" /\ reply' = <<>> /\ Way' = <<>>
      BY <2>3, <2>10 DEF TransactionIsTooLong
    <3>2. ToRead' = <<>>
      <4>1. <<>> \o <<>> = <<>>
        OBVIOUS
      <4> QED BY <2>6, <3>1, <4>1 DEF ToRead
    <3>3. LfLast(Way)' /\ Len(Way') <= ClientSize /\ ~HasByte(Way, LF)'
      <4>1. 0 <= ClientSize
        BY LuluClientAssumption, LuluSessionAssumption
           DEF LuluClientAssumption, LuluSessionAssumption
      <4>2. \A i : i \notin 1 .. Len(<<>>)
        OBVIOUS
      <4>3. Len(<<>>) = 0
        OBVIOUS
      <4>4. LfLast(Way)' /\ ~HasByte(Way, LF)'
        BY <3>1, <4>2 DEF LfLast, HasByte
      <4>5. Len(Way') <= ClientSize
        BY <3>1, <4>1, <4>3
      <4> QED BY <4>4, <4>5
    <3>4. Remote'
      BY <2>4, <2>6, <3>1, <3>2, <3>3 DEF Remote, HasByte
    <3>5. OverOnly'
      BY <2>2, <2>6, <3>1, <3>2 DEF OverOnly
    <3> QED BY <2>7, <3>1, <3>4, <3>5 DEF Talking, PastHello, Reading, Writing
  <2> QED BY <2>5, <2>8, <2>9, <2>10
<1> QED BY <1>2, <1>3, <1>4, <1>5 DEF Inv, Types

(* Every read of the session keeps it.                                     *)
LEMMA SessionReadKeeps ==
    ASSUME Inv, UNCHANGED clientVars, SessionRead
    PROVE  Inv'
<1>1. PICK n, c, r, v : SessionTakes(n, c, r, v)
  BY SessionReads DEF Inv
<1>2. session \in {"HELLO_READ", "TRANSACTION_READ"}
  BY DEF SessionRead, ReadStates
<1> QED BY <1>1, <1>2, HelloReadKeeps, TransactionReadKeeps

(* A session that gives up, when nobody talks to it any more.              *)
LEMMA FailsKeeps ==
    ASSUME Inv, ~Live, UNCHANGED <<clientVars, channel>>,
           NEW next \in {"ERROR", "KILLED"}, SessionFails(next)
    PROVE  Inv'
<1>1. /\ UNCHANGED <<phase, choice, buffer, stdin, login, toServer, toClient, hungUp, broken>>
      /\ session' = next
      /\ UNCHANGED <<parserIndex, parser, held, reply, loggedIn, timeout, bufferSize>>
  BY DEF clientVars, channel, SessionFails, settings
<1>2. ClientSame
  BY <1>1 DEF ClientSame
<1>3. ClientTypes' /\ Refused'
  BY <1>2, ClientTypesKept, RefusedKept DEF Inv, Types, Knowing
<1>4. ChannelTypes' /\ SessionTypes'
  BY <1>1 DEF Inv, Types, ChannelTypes, SessionTypes, SessionStates, OverStates
<1>5. Knowing'
  BY <1>1, <1>3 DEF Knowing, HelloReading, HelloWriting, Transaction
<1>6. ~Live'
  BY <1>1 DEF Live
<1> QED BY <1>3, <1>4, <1>5, <1>6 DEF Inv, Types

(* LuluConnectionRead fails only without a client: ReadBuffer has room.    *)
LEMMA ReadFailsKeeps ==
    ASSUME Inv, UNCHANGED clientVars, SessionReadFails
    PROVE  Inv'
<1>1. /\ session \in ReadStates /\ SessionFails("ERROR") /\ UNCHANGED channel
      /\ broken \/ (hungUp /\ toServer = <<>>) \/ (Len(held) = ReadSize /\ toServer # <<>>)
  BY DEF SessionReadFails
<1>2. ASSUME Live PROVE FALSE
  <2>1. Len(held) = ReadSize /\ toServer # <<>>
    BY <1>1, <1>2 DEF Live
  <2>2. PICK h, t, u \in Seq(LuluByte) :
            h = held /\ t = toServer /\ u = Unsent /\ h \o t \in Seq(LuluByte)
    BY WayIs DEF Inv
  <2>3. PICK a, b, d \in Nat : a = Len(h) /\ b = Len(t) /\ d = Len(u)
    OBVIOUS
  <2>4. b > 0
    BY <2>1, <2>2, <2>3
  <2>5. Len(h \o t) = a + b
    BY <2>3
  <2>6. Len((h \o t) \o u) = a + b + d
    BY <2>2, <2>3, <2>5
  <2>7. Way = (h \o t) \o u
    BY <2>2 DEF Way
  <2>8. Way # <<>>
    BY <2>4, <2>6, <2>7
  <2>9. Len(Way) <= ClientSize
    BY <1>1, <1>2, <2>8, ReadPhases
  <2>10. a = ReadSize /\ ReadSize \in Nat /\ ClientSize \in Nat /\ ClientSize <= ReadSize
    BY <2>1, <2>2, <2>3, LuluClientAssumption, LuluSessionAssumption
       DEF LuluClientAssumption, LuluSessionAssumption
  <2> QED BY <2>4, <2>6, <2>7, <2>9, <2>10
<1> QED BY <1>1, <1>2, FailsKeeps

(* So does a write.                                                        *)
LEMMA WriteFailsKeeps ==
    ASSUME Inv, UNCHANGED clientVars, SessionWriteFails
    PROVE  Inv'
<1>1. /\ ~Live /\ UNCHANGED <<clientVars, channel>>
      /\ \E next \in {"ERROR", "KILLED"} : SessionFails(next)
  BY DEF SessionWriteFails, Live
<1> QED BY <1>1, FailsKeeps

(* Writing a reply keeps the invariant.                                    *)
LEMMA WriteKeeps ==
    ASSUME Inv, UNCHANGED clientVars, SessionWrite
    PROVE  Inv'
<1>1. /\ Types /\ Knowing /\ session \in WriteStates /\ ~broken
      /\ UNCHANGED <<toServer, hungUp, broken>>
      /\ UNCHANGED <<session, parserIndex, parser, held, loggedIn, timeout, bufferSize, taken>>
  BY DEF Inv, SessionWrite, settings
<1>2. PICK n \in Nat \ {0} :
          /\ n <= Len(reply)
          /\ toClient' = IF hungUp THEN toClient ELSE toClient \o Taken(reply, n)
          /\ reply' = Left(reply, n)
  BY <1>1 DEF SessionWrite, Portions, Types, SessionTypes
<1>3. UNCHANGED <<phase, choice, buffer, stdin, login>>
  BY DEF clientVars
<1>4. PICK q, p \in Seq(ReplyByte) : q = reply /\ p = toClient
  BY <1>1 DEF Types, ChannelTypes, SessionTypes
<1>5. PICK c, s \in Seq(ReplyByte) : c = Taken(q, n) /\ s = Left(q, n) /\ c \o s = q
  <2>1. n \in Nat /\ n <= Len(q)
    BY <1>2, <1>4
  <2>2. PICK c : c = Taken(q, n)
    OBVIOUS
  <2>3. PICK s : s = Left(q, n)
    OBVIOUS
  <2>4. c \in Seq(ReplyByte)
    BY <2>1, <2>2, TakenIs
  <2>5. s \in Seq(ReplyByte)
    BY <2>1, <2>3, LeftIs
  <2>6. c \o s = q
    BY <2>1, <2>2, <2>3, TakenLeft
  <2> QED BY <2>2, <2>3, <2>4, <2>5, <2>6
<1>6. (p \o c) \in Seq(ReplyByte) /\ (p \o c) \o s = p \o q
  <2>1. (p \o c) \o s = p \o (c \o s)
    <3>1. Grouped(p, c, s)
      BY Regrouped
    <3> QED BY <3>1 DEF Grouped
  <2> QED BY <1>5, <2>1
<1>7. Unsent' = Unsent
  BY <1>1, <1>3 DEF Unsent
<1>8. PICK w, z \in Seq(LuluByte) : Way = w \o z /\ Way' = w /\ z = <<>> /\ w = Way
  BY <1>1, <1>7, WaySame
<1>9. ChannelTypes'
  BY <1>1, <1>2, <1>4, <1>5, <1>6 DEF Types, ChannelTypes
<1>10. SessionTypes'
  BY <1>1, <1>2, <1>4, <1>5 DEF Types, SessionTypes
<1>11. ClientTypes'
  BY <1>1, <1>3 DEF Types, ClientTypes, IsPiece, IsTyped
<1>12. Knowing'
  <2>1. Refused'
    BY <1>1, <1>3, LoginKept DEF Knowing, Refused
  <2>2. session # "HELLO_READ"
    BY <1>1 DEF WriteStates
  <2> QED BY <1>1, <1>3, <1>8, <2>1, <2>2, KnowingKept
<1>13. ASSUME Live' PROVE Talking'
  <2>1. Live /\ ~hungUp /\ Talking
    BY <1>1, <1>13 DEF Live, Inv
  <2>2. ToRead' = ToRead
    BY <1>2, <1>4, <1>5, <1>6, <2>1 DEF ToRead
  <2>3. Accepted' = Accepted /\ Refusable' = Refusable /\ Way' = Way
    BY <1>1, <1>3, <1>8, LoginKept DEF Accepted
  <2>4. PastHello'
    <3>1. q # <<>>
      BY <1>2, <1>4
    <3>2. session \in {"HELLO_WRITE", "TRANSACTION_WRITE"}
      BY <1>1 DEF WriteStates
    <3> QED BY <1>1, <1>3, <1>4, <2>1, <3>1, <3>2 DEF Talking, PastHello
  <2>5. Reading' /\ OverOnly' /\ Beginning'
    BY <1>1, <1>3, <2>1 DEF WriteStates, Reading, OverOnly, OverStates, Talking, Beginning
  <2>6. Writing'
    BY <1>1, <1>3, <2>1 DEF Talking, Writing
  <2>7. Asked'
    BY <1>1, <1>3, <2>1, <2>2, <2>3 DEF Talking, Asked, CrlfLast, HasByte
  <2>8. Menu'
    <3>1. cuts' = cuts
      BY DEF SessionWrite
    <3> QED BY <1>1, <1>3, <2>1, <2>2, <2>3, <3>1 DEF Talking, Menu
  <2>9. Remote'
    BY <1>1, <1>3, <2>1, <2>2, <2>3 DEF Talking, Remote, CrlfLast, HasByte, LfLast
  <2> QED BY <2>4, <2>5, <2>6, <2>7, <2>8, <2>9 DEF Talking
<1> QED BY <1>9, <1>10, <1>11, <1>12, <1>13 DEF Inv, Types

(* What follows an answer to HELLO that is written.                        *)
LEMMA HelloWrittenIs ==
    ASSUME Types, HelloWriting, HelloWritten
    PROVE  /\ session = "HELLO_WRITE" /\ reply = <<>> /\ held = <<>> /\ held' = <<>>
           /\ parserIndex' = 0 /\ parser' = LuluReset
           /\ UNCHANGED <<channel, reply, timeout, bufferSize>>
           /\ \/ Accepted /\ session' = "TRANSACTION_READ" /\ loggedIn' = loggedIn
              \/ ~Accepted /\ session' = "HELLO_READ" /\ loggedIn' = FALSE
<1>1. /\ session = "HELLO_WRITE" /\ reply = <<>> /\ held = <<>> /\ parserIndex \in {0, 2}
      /\ UNCHANGED <<channel, reply, timeout, bufferSize>>
  BY DEF HelloWritten, HelloWriting, settings
<1>2. NotRecognised = 2
  BY <1>1 DEF NotRecognised, Order, HelloOrder
<1>3. CASE Accepted
  <2>1. ~ (parserIndex = 2 \/ (parserIndex = 0 /\ ~loggedIn)) /\ parserIndex # 1
    BY <1>3 DEF Accepted
  <2>2. Fresh("TRANSACTION_READ") /\ UNCHANGED <<held, loggedIn>>
    BY <1>2, <2>1, Zenon DEF HelloWritten
  <2> QED BY <1>1, <1>3, <2>2 DEF Fresh
<1>4. CASE ~Accepted
  <2>1. parserIndex = NotRecognised \/ (parserIndex = 0 /\ ~loggedIn)
    BY <1>1, <1>2, <1>4 DEF Accepted
  <2>2. parserIndex # 1
    BY <1>1
  <2>3. Fresh("HELLO_READ") /\ held' = <<>> /\ loggedIn' = FALSE
    BY <2>1, <2>2, Zenon DEF HelloWritten
  <2> QED BY <1>1, <1>4, <2>3 DEF Fresh
<1> QED BY <1>3, <1>4

(* It keeps the invariant.                                                 *)
LEMMA HelloWrittenKeeps ==
    ASSUME Inv, UNCHANGED clientVars, HelloWritten
    PROVE  Inv'
<1>1. /\ session = "HELLO_WRITE" /\ reply = <<>> /\ held = <<>> /\ held' = <<>>
      /\ parserIndex' = 0 /\ parser' = LuluReset
      /\ UNCHANGED <<channel, reply, timeout, bufferSize>>
      /\ \/ Accepted /\ session' = "TRANSACTION_READ" /\ loggedIn' = loggedIn
         \/ ~Accepted /\ session' = "HELLO_READ" /\ loggedIn' = FALSE
  BY HelloWrittenIs DEF Inv, Knowing
<1>2. /\ Types /\ Knowing /\ UNCHANGED <<toServer, toClient, hungUp, broken, cuts>>
      /\ UNCHANGED <<phase, choice, buffer, stdin, login>> /\ login \in Logins
  BY <1>1 DEF Inv, channel, clientVars, Types, ClientTypes
<1>3. ClientSame
  BY <1>2 DEF ClientSame
<1>4. ClientTypes' /\ Refused'
  BY <1>2, <1>3, ClientTypesKept, RefusedKept DEF Types, Knowing
<1>5. /\ ~HasFinished(LuluReset) /\ Shape(LuluReset) /\ LuluReset.value <= MaxValue
      /\ Reads(LuluReset) /\ LuluReset = HelloParsed(0)
  BY <1>2, ResetIs
<1>6. ChannelTypes'
  BY <1>2 DEF Types, ChannelTypes
<1>7. <<>> \in Seq(LuluByte) /\ Len(<<>>) = 0 /\ \A b : ~HasByte(<<>>, b)
  <2>1. \A i : i \notin 1 .. Len(<<>>)
    OBVIOUS
  <2> QED BY <2>1 DEF HasByte
<1>8. SessionTypes'
  <2>1. loggedIn' \in BOOLEAN /\ session' \in SessionStates
    BY <1>1, <1>2 DEF Types, SessionTypes, SessionStates, ReadStates
  <2>2. held' \in Seq(LuluByte) /\ reply' \in Seq(ReplyByte)
    BY <1>1, <1>2, <1>7 DEF Types, SessionTypes
  <2>3. parserIndex' \in 0 .. 9 /\ Shape(parser') /\ parser'.value <= MaxValue
    BY <1>1, <1>5
  <2> QED BY <1>1, <1>2, <2>1, <2>2, <2>3 DEF Types, SessionTypes
<1>9. Way' = Way
  <2>1. Unsent' = Unsent
    BY <1>2 DEF Unsent
  <2> QED BY <1>1, <1>2, <2>1 DEF Way
<1>10. ToRead' = ToRead
  BY <1>1, <1>2 DEF ToRead
<1>11. Knowing'
  <2>1. CASE Accepted /\ session' = "TRANSACTION_READ" /\ loggedIn' = loggedIn
    BY <1>1, <1>2, <1>4, <2>1 DEF Knowing, HelloReading, HelloWriting, Transaction
  <2>2. CASE ~Accepted /\ session' = "HELLO_READ" /\ loggedIn' = FALSE
    <3>1. Way' = <<>>
      BY <1>1, <1>2, <1>9, <2>2 DEF Knowing, HelloWriting
    <3>2. Begins(Way)'
      <4>1. 0 <= HelloEnd /\ HelloEnd' = HelloEnd
        BY <1>2, HelloBytes, LoginKept
      <4>2. \A i : i \notin 1 .. Len(<<>>)
        OBVIOUS
      <4> QED BY <1>7, <3>1, <4>1, <4>2 DEF Begins
    <3>3. parser' = HelloParsed(0)'
      BY <1>1, <1>2, <1>5, LoginKept
    <3>4. Len(held') = 0
      BY <1>1, <1>7
    <3>5. HelloParsed(Len(held))' = HelloParsed(0)'
      BY <3>4
    <3>6. HelloReading'
      BY <1>1, <1>5, <2>2, <3>2, <3>3, <3>5 DEF HelloReading
    <3> QED BY <1>4, <2>2, <3>6 DEF Knowing, HelloWriting, Transaction
  <2> QED BY <1>1, <2>1, <2>2
<1>12. ASSUME Live' PROVE Talking'
  <2>1. Live /\ Talking /\ Refusable' = Refusable
    BY <1>2, <1>12, LoginKept DEF Live, Inv
  <2>2. PastHello'
    BY <1>1, <1>2, <2>1 DEF Talking, PastHello
  <2>3. Reading'
    BY <1>1, <1>5, <1>7 DEF Reading
  <2>4. Writing' /\ OverOnly'
    BY <1>1 DEF Writing, OverOnly, OverStates
  <2>5. Beginning'
    BY <1>1, <1>2, <2>1 DEF Talking, Beginning
  <2>6. Menu'
    BY <1>2, <1>9, <1>10, <2>1 DEF Talking, Menu
  <2>7. Remote'
    <3>1. phase \in {"WRITE_REMOTE", "READ_REMOTE"} => Accepted /\ session' = "TRANSACTION_READ"
      BY <1>1, <2>1 DEF Talking, PastHello
    <3>2. LfLast(Way)' = LfLast(Way) /\ (\A b : HasByte(Way, b)' = HasByte(Way, b))
      BY <1>9 DEF LfLast, HasByte
    <3> QED BY <1>1, <1>2, <1>9, <1>10, <2>1, <3>1, <3>2 DEF Talking, Remote, CrlfLast
  <2>8. Asked'
    <3>1. CrlfLast(ToRead)' = CrlfLast(ToRead) /\ HasByte(ToRead, "-")' = HasByte(ToRead, "-")
      BY <1>10 DEF CrlfLast, HasByte
    <3>2. CASE Accepted /\ session' = "TRANSACTION_READ"
      BY <1>1, <1>2, <1>9, <1>10, <2>1, <3>1, <3>2 DEF Talking, Asked
    <3>3. CASE ~Accepted /\ session' = "HELLO_READ"
      BY <1>1, <1>2, <1>9, <1>10, <2>1, <3>1, <3>3 DEF Talking, Asked
    <3> QED BY <1>1, <3>2, <3>3
  <2> QED BY <2>2, <2>3, <2>4, <2>5, <2>6, <2>7, <2>8 DEF Talking
<1> QED BY <1>4, <1>6, <1>8, <1>11, <1>12 DEF Inv, Types

(* So does what follows any other answer.                                  *)
LEMMA TransactionWrittenKeeps ==
    ASSUME Inv, UNCHANGED clientVars, TransactionWritten
    PROVE  Inv'
<1>1. /\ session = "TRANSACTION_WRITE" /\ reply = <<>> /\ UNCHANGED held
      /\ parserIndex' = 0 /\ parser' = LuluReset
      /\ UNCHANGED <<channel, reply, loggedIn, timeout, bufferSize>>
      /\ \/ parserIndex = 0 /\ session' = "DONE"
         \/ session' = "TRANSACTION_READ"
  BY DEF TransactionWritten, Fresh, settings
<1>2. /\ Types /\ Knowing /\ UNCHANGED <<toServer, toClient, hungUp, broken, cuts>>
      /\ UNCHANGED <<phase, choice, buffer, stdin, login>>
  BY <1>1 DEF Inv, channel, clientVars
<1>3. ClientSame
  BY <1>2 DEF ClientSame
<1>4. ClientTypes' /\ Refused'
  BY <1>2, <1>3, ClientTypesKept, RefusedKept DEF Types, Knowing
<1>5. /\ ~HasFinished(LuluReset) /\ Shape(LuluReset) /\ LuluReset.value <= MaxValue
      /\ Reads(LuluReset)
  BY ResetIs
<1>6. ChannelTypes'
  BY <1>2 DEF Types, ChannelTypes
<1>7. \A b : ~HasByte(<<>>, b)
  <2>1. \A i : i \notin 1 .. Len(<<>>)
    OBVIOUS
  <2> QED BY <2>1 DEF HasByte
<1>8. SessionTypes'
  BY <1>1, <1>2, <1>5 DEF Types, SessionTypes, SessionStates, ReadStates, OverStates
<1>9. Way' = Way
  <2>1. Unsent' = Unsent
    BY <1>2 DEF Unsent
  <2> QED BY <1>1, <1>2, <2>1 DEF Way
<1>10. ToRead' = ToRead
  BY <1>1, <1>2 DEF ToRead
<1>11. Knowing'
  BY <1>1, <1>2, <1>4 DEF Knowing, HelloReading, HelloWriting, Transaction
<1>12. ASSUME Live' PROVE Talking'
  <2>1. Live /\ Talking /\ held = <<>> /\ (parserIndex = 0 => choice = "GOODBYE")
    BY <1>1, <1>2, <1>12 DEF Live, Inv, Talking, Writing
  <2>2. phase \notin {"WAITING_CONNECTION", "WRITE_AUTH", "READ_AUTH"}
    BY <1>1, <2>1 DEF Talking, Beginning, Asked, Accepted
  <2>3. PastHello' /\ Writing'
    BY <1>1 DEF PastHello, Writing
  <2>4. Reading'
    BY <1>1, <1>5, <1>7, <2>1 DEF Reading
  <2>5. Beginning' /\ Asked'
    BY <1>2, <2>2 DEF Beginning, Asked
  <2>6. Menu'
    BY <1>2, <1>9, <1>10, <2>1 DEF Talking, Menu
  <2>7. Remote'
    <3>1. LfLast(Way)' = LfLast(Way) /\ (\A b : HasByte(Way, b)' = HasByte(Way, b))
      BY <1>9 DEF LfLast, HasByte
    <3> QED BY <1>1, <1>2, <1>9, <1>10, <2>1, <3>1 DEF Talking, Remote, CrlfLast
  <2>8. OverOnly'
    <3>1. session' = "DONE" => phase \in {"WRITE_REMOTE", "READ_REMOTE"} /\ choice = "GOODBYE"
      <4>1. session' = "DONE" => choice = "GOODBYE"
        BY <1>1, <2>1
      <4>2. choice = "GOODBYE" => phase \notin {"TRANSACTION", "READ_LOCAL"}
        BY <2>1 DEF Talking, Menu
      <4>3. phase \in Phases /\ phase \notin Ended
        BY <1>2, <2>1 DEF Types, ClientTypes, Live
      <4> QED BY <2>2, <4>1, <4>2, <4>3 DEF Phases, Ended
    <3> QED BY <1>1, <1>2, <3>1 DEF OverOnly, OverStates
  <2> QED BY <2>3, <2>4, <2>5, <2>6, <2>7, <2>8 DEF Talking
<1> QED BY <1>4, <1>6, <1>8, <1>11, <1>12 DEF Inv, Types

(* A stuttering step.                                                      *)
LEMMA NothingKeeps ==
    ASSUME Inv, UNCHANGED vars
    PROVE  Inv'
<1>1. /\ UNCHANGED <<toServer, toClient, hungUp, broken, cuts, phase, choice, buffer, stdin, login>>
      /\ UNCHANGED <<session, parserIndex, parser, held, reply, loggedIn,
                     timeout, bufferSize, taken>>
      /\ Types /\ Knowing
  BY DEF Inv, vars, channel, sessionVars, clientVars, settings
<1>2. SessionSame /\ ClientSame
  BY <1>1 DEF SessionSame, ClientSame
<1>3. Types'
  <2>1. ChannelTypes'
    BY <1>1 DEF Types, ChannelTypes
  <2> QED BY <1>1, <1>2, <2>1, SessionTypesKept, ClientTypesKept DEF Types
<1>4. Unsent' = Unsent
  BY <1>1 DEF Unsent
<1>5. PICK w, z \in Seq(LuluByte) : Way = w \o z /\ Way' = w /\ z = <<>> /\ w = Way
  BY <1>1, <1>4, WaySame
<1>6. Knowing'
  <2>1. Refused'
    BY <1>1, <1>2, RefusedKept DEF Knowing
  <2> QED BY <1>1, <1>5, <2>1, KnowingKept
<1>7. ASSUME Live' PROVE Talking'
  <2>1. Live /\ Talking /\ Refusable' = Refusable
    BY <1>1, <1>7, LoginKept DEF Live, Inv
  <2>2. Way' = Way /\ ToRead' = ToRead /\ Accepted' = Accepted
    BY <1>1, <1>5 DEF ToRead, Accepted
  <2>3. PastHello' /\ OverOnly'
    BY <1>1, <2>1, <2>2 DEF Talking, PastHello, OverOnly
  <2>4. Reading'
    BY <1>1, <2>1, ReadingKept DEF Talking
  <2>5. Writing' /\ Beginning'
    BY <1>1, <2>1, <2>2 DEF Talking, Writing, Beginning
  <2>6. Asked'
    <3>1. CrlfLast(ToRead)' = CrlfLast(ToRead) /\ HasByte(ToRead, "-")' = HasByte(ToRead, "-")
      BY <2>2 DEF CrlfLast, HasByte
    <3> QED BY <1>1, <2>1, <2>2, <3>1 DEF Talking, Asked
  <2>7. Menu'
    BY <1>1, <2>1, <2>2 DEF Talking, Menu
  <2>8. Remote'
    <3>1. LfLast(Way)' = LfLast(Way) /\ (\A b : HasByte(Way, b)' = HasByte(Way, b))
      BY <2>2 DEF LfLast, HasByte
    <3> QED BY <1>1, <2>1, <2>2, <3>1 DEF Talking, Remote, CrlfLast
  <2> QED BY <2>3, <2>4, <2>5, <2>6, <2>7, <2>8 DEF Talking
<1> QED BY <1>3, <1>6, <1>7 DEF Inv

(* Every step of the client on its own.                                    *)
LEMMA ClientKeeps ==
    ASSUME Inv, ClientRuns
    PROVE  Inv'
<1>1. UNCHANGED sessionVars /\ RemoteNext
  BY DEF ClientRuns
<1>2. CASE Connect
  BY <1>1, <1>2, ConnectKeeps
<1>3. CASE ConnectFails \/ AuthWriteFails \/ AuthReadFails \/ WriteRemoteFails \/ ReadRemoteFails
  <2>1. Ends("ERROR") \/ Ends("KILLED")
    BY <1>3 DEF ConnectFails, AuthWriteFails, AuthReadFails, WriteRemoteFails, ReadRemoteFails
  <2> QED BY <1>1, <2>1, EndsKeeps DEF Ended
<1>4. CASE AuthWrite
  BY <1>1, <1>4, SendsKeeps DEF AuthWrite
<1>5. CASE AuthWritten
  BY <1>1, <1>5, WrittenKeeps DEF AuthWritten
<1>6. CASE AuthRead
  BY <1>1, <1>6, AuthReadKeeps
<1>7. ASSUME NEW k, WriteRemote(k) PROVE Inv'
  <2>1. CASE Sends
    BY <1>1, <1>7, <2>1, SendsKeeps DEF WriteRemote
  <2>2. CASE ~Sends
    <3>1. /\ phase = "WRITE_REMOTE" /\ buffer = <<>> /\ phase' = "READ_REMOTE"
          /\ UNCHANGED <<channel, choice, buffer, pipes, stdin, login, typed, shown>>
      BY <1>7, <2>2 DEF WriteRemote
    <3> QED BY <1>1, <3>1, WrittenKeeps
  <2> QED BY <2>1, <2>2
<1>8. CASE \/ GetTimeoutWrite \/ SetTimeoutWriteRemote \/ GetBufferSizeWrite
           \/ SetBufferSizeWriteRemote \/ MetricsWriteRemote \/ SetUserWriteRemote
           \/ DelUserWriteRemote \/ ListUserWriteRemote \/ GoodbyeWriteRemote
  <2>1. \E k : WriteRemote(k)
    BY <1>8 DEF GetTimeoutWrite, SetTimeoutWriteRemote, GetBufferSizeWrite,
                SetBufferSizeWriteRemote, MetricsWriteRemote, SetUserWriteRemote,
                DelUserWriteRemote, ListUserWriteRemote, GoodbyeWriteRemote
  <2> QED BY <1>7, <2>1
<1>9. CASE \/ GetTimeoutRead \/ SetTimeoutReadRemote \/ GetBufferSizeRead
           \/ SetBufferSizeReadRemote \/ SetUserReadRemote \/ DelUserReadRemote
  <2>1. \E k : k # "GOODBYE" /\ ReadRemote(k, LineOver)
    BY <1>9 DEF GetTimeoutRead, SetTimeoutReadRemote, GetBufferSizeRead,
                SetBufferSizeReadRemote, SetUserReadRemote, DelUserReadRemote
  <2>2. \E n : ReplyRead(n)
    BY <2>1, LineReads DEF Inv
  <2> QED BY <1>1, <2>2, ReplyReadKeeps
<1>10. CASE MetricsReadRemote \/ ListUserRead
  <2>1. \E k \in Listing : ReadRemote(k, ListOver)
    BY <1>10 DEF MetricsReadRemote, ListUserRead, Listing
  <2>2. \E n : ReplyRead(n)
    BY <2>1, ListReads DEF Inv
  <2> QED BY <1>1, <2>2, ReplyReadKeeps
<1>11. CASE GoodbyeRead
  <2>1. (Ends("DONE") /\ choice = "GOODBYE") \/ \E n : ReplyRead(n)
    BY <1>11, GoodbyeReads DEF Inv
  <2>2. CASE Ends("DONE") /\ choice = "GOODBYE"
    BY <1>1, <2>2, EndsKeeps DEF Ended
  <2> QED BY <1>1, <2>1, <2>2, ReplyReadKeeps
<1> QED BY <1>1, <1>2, <1>3, <1>4, <1>5, <1>6, <1>8, <1>9, <1>10, <1>11 DEF RemoteNext

(* Every step of the session.                                              *)
LEMMA SessionKeeps ==
    ASSUME Inv, SessionRuns
    PROVE  Inv'
BY SessionReadKeeps, ReadFailsKeeps, WriteKeeps, WriteFailsKeeps, HelloWrittenKeeps,
   TransactionWrittenKeeps DEF SessionRuns, SessionNext

(* The invariant holds at the start,                                       *)
LEMMA InitInv ==
    ASSUME Init
    PROVE  Inv
<1>1. /\ toServer = <<>> /\ toClient = <<>> /\ hungUp = FALSE /\ broken = FALSE
      /\ session = "HELLO_READ" /\ parserIndex = 0 /\ parser = LuluReset /\ held = <<>>
      /\ reply = <<>> /\ loggedIn = FALSE /\ timeout = DefaultTimeout
      /\ bufferSize = DefaultBufferSize
      /\ phase = "WAITING_CONNECTION" /\ choice = "HELLO" /\ buffer = <<>> /\ stdin = <<>>
      /\ login \in Logins
  BY DEF Init, ChannelInit, SessionInit, ClientInit
<1>2. /\ ~HasFinished(LuluReset) /\ Shape(LuluReset) /\ LuluReset.value <= MaxValue
      /\ Reads(LuluReset) /\ LuluReset = HelloParsed(0)
  BY <1>1, ResetIs
<1>3. /\ <<>> \in Seq(LuluByte) /\ <<>> \in Seq(ReplyByte) /\ Len(<<>>) = 0
      /\ (<<>> \o <<>>) \o <<>> = <<>> /\ <<>> \o <<>> = <<>>
      /\ \A i : i \notin 1 .. Len(<<>>)
  OBVIOUS
<1>4. Way = <<>> /\ ToRead = <<>>
  BY <1>1, <1>3 DEF Way, ToRead, Unsent
<1>5. ChannelTypes
  BY <1>1, <1>3 DEF ChannelTypes
<1>6. SessionTypes
  <2>1. loggedIn \in BOOLEAN /\ session \in SessionStates
    BY <1>1 DEF SessionStates, ReadStates
  <2>2. held \in Seq(LuluByte) /\ reply \in Seq(ReplyByte)
    BY <1>1, <1>3
  <2>3. parserIndex \in 0 .. 9 /\ Shape(parser) /\ parser.value <= MaxValue
    BY <1>1, <1>2
  <2> QED BY <1>1, <2>1, <2>2, <2>3 DEF SessionTypes
<1>7. ClientTypes
  <2>1. IsPiece(<<>>)
    <3>1. \A i : i \notin 1 .. Len(<<>>) - 1
      OBVIOUS
    <3> QED BY <1>3, <3>1 DEF IsPiece
  <2> QED BY <1>1, <1>3, <2>1 DEF ClientTypes, Phases, Command, Ended
<1>8. Knowing
  <2>1. Begins(Way)
    <3>1. 0 <= HelloEnd
      BY <1>1, HelloBytes
    <3> QED BY <1>3, <1>4, <3>1 DEF Begins
  <2>2. HelloReading
    <3>1. HelloParsed(Len(held)) = HelloParsed(0)
      BY <1>1, <1>3
    <3> QED BY <1>1, <1>2, <2>1, <3>1 DEF HelloReading
  <2> QED BY <1>1, <2>2 DEF Knowing, HelloWriting, Transaction, Refused
<1>9. Talking
  BY <1>1, <1>4 DEF Talking, PastHello, Reading, Writing, OverOnly, OverStates, Beginning,
                    Asked, Menu, Remote
<1> QED BY <1>5, <1>6, <1>7, <1>8, <1>9 DEF Inv, Types

(* and every step keeps it.                                                *)
LEMMA NextInv == Inv /\ [Next]_vars => Inv'
<1>1. ASSUME Inv, Over \/ UNCHANGED vars
      PROVE  Inv'
  BY <1>1, NothingKeeps DEF Over
<1> QED BY <1>1, UserKeeps, ClientKeeps, SessionKeeps, BreaksKeeps DEF Next

(* The invariant holds always: whatever the cuts, the breaks and the lines.*)
THEOREM DialogueInvariant == Spec => []Inv
<1> QED BY InitInv, NextInv, PTL DEF Spec

(* Only an administrator of main.c gets past HELLO (lulu_hello.c), however *)
(* the line is cut, and an administrator is not refused.                   *)
THEOREM AdministratorsOnly == Spec => []OnlyAdministrators
<1>1. Inv => OnlyAdministrators
  BY DEF Inv, Knowing, Transaction, Refused, Refusable, OnlyAdministrators
<1> QED BY <1>1, DialogueInvariant, PTL

(* The session of a client that is in step ends by GOODBYE or by a list of *)
(* users that does not fit, never by a full ReadBuffer (lulu_connection.c).*)
THEOREM SessionsSurvive == Spec => []SessionSurvives
<1>1. Inv => SessionSurvives
  BY DEF Inv, Live, Talking, OverOnly, SessionSurvives
<1> QED BY <1>1, DialogueInvariant, PTL

(* When the menu is shown (client_transaction.c) nothing of an earlier     *)
(* command or reply is on its way, and the session waits for the next one. *)
THEOREM EndsInStep == Spec => []InStep
<1>1. ASSUME Inv, phase \in {"TRANSACTION", "READ_LOCAL"}, ~broken, "reply" \notin cuts
      PROVE  /\ toServer = <<>> /\ toClient = <<>> /\ reply = <<>> /\ held = <<>>
             /\ session \in {"TRANSACTION_READ", "TRANSACTION_WRITE", "HELLO_WRITE"}
  <2>1. Types /\ Live
    BY <1>1 DEF Inv, Types, ChannelTypes, ClientTypes, Live, Ended
  <2>2. Way = <<>> /\ ToRead = <<>>
    BY <1>1, <2>1 DEF Inv, Talking, Menu
  <2>3. toClient = <<>> /\ reply = <<>>
    BY <2>1, <2>2, EmptyJoined DEF Types, ChannelTypes, SessionTypes, ToRead
  <2>4. held = <<>> /\ toServer = <<>>
    <3>1. PICK h, t, u \in Seq(LuluByte) :
              h = held /\ t = toServer /\ u = Unsent /\ h \o t \in Seq(LuluByte)
      BY <2>1, WayIs
    <3>2. (h \o t) \o u = <<>>
      BY <2>2, <3>1 DEF Way
    <3>3. h \o t = <<>>
      BY <3>1, <3>2, EmptyJoined
    <3> QED BY <3>1, <3>3, EmptyJoined
  <2>5. session \in {"TRANSACTION_READ", "TRANSACTION_WRITE", "HELLO_WRITE"}
    BY <1>1, <2>1, MenuLive
  <2> QED BY <2>3, <2>4, <2>5
<1>2. Inv => InStep
  BY <1>1 DEF InStep
<1> QED BY <1>2, DialogueInvariant, PTL
===============================================================================
