--------------------------- MODULE LifecycleProofs ---------------------------
(***************************************************************************)
(* Proofs about Lifecycle.tla, for any numbers of descriptors, pool        *)
(* objects, resolver threads and idle timeouts, and however many sockets   *)
(* are lost by connects that fail at once.                                 *)
(***************************************************************************)
EXTENDS Lifecycle, FiniteSetTheorems, SequenceTheorems, WellFoundedInduction, TLAPS

Table == [open : SUBSET Fd, item : [Fd -> Item], pool : Seq(Connection), current : Nat,
          lost : SUBSET Fd]
UsedBy(t) == {c \in DOMAIN t.pool : t.pool[c].inUse}
Index == 1..MaxPool
Held(t, c) == {t.pool[c].client, t.pool[c].remote} \ {NoFd}

(* The lost sockets that the selector still has. *)
Strays(t) == {f \in t.lost : t.item[f].used}

-------------------------------------------------------------------------------
(* The tables agree with each other.  What the selector watches is open,   *)
(* it watches everything that is not lost, and has a clean entry for all   *)
(* that it does not.                                                       *)
Watches(t) ==
    /\ \A f \in Fd : t.item[f].used => f \in t.open
    /\ \A f \in t.open \ t.lost : t.item[f].used
    /\ \A f \in Fd : ~t.item[f].used => t.item[f] = FreeItem
    /\ t.lost \subseteq t.open
    /\ Listener \in t.open \ t.lost
    /\ t.item[Listener] = [used |-> TRUE, data |-> 0, ops |-> {"r"}]

(* Every open descriptor but the listener's and the lost ones is held by   *)
(* the connection its entry names, and every descriptor a connection holds *)
(* is open, not lost, and names that connection.                           *)
Owned(t) ==
    /\ \A f \in t.open \ (t.lost \cup {Listener}) :
          t.item[f].data \in UsedBy(t) /\ f \in Held(t, t.item[f].data)
    /\ \A f \in Strays(t) : t.item[f].data \in DOMAIN t.pool
    /\ \A c \in UsedBy(t) :
          /\ t.pool[c].client \in Fd
          /\ t.pool[c].client # t.pool[c].remote
          /\ \A f \in Held(t, c) : /\ f \in t.open \ (t.lost \cup {Listener})
                                   /\ t.item[f].data = c

(* An object that is not in use is clean, but for the age that the visits  *)
(* of a stray socket give it.                                              *)
Unused(t, c) == /\ t.pool[c] = [Zeroed EXCEPT !.age = t.pool[c].age]
                /\ t.pool[c].age # Never => \E f \in Strays(t) : t.item[f].data = c
Clean(t) == \A c \in DOMAIN t.pool : ~t.pool[c].inUse => Unused(t, c)

(* A connection has no remote before it tries one; one that waits for the  *)
(* resolver takes no events; and unless a stray is about, the selector     *)
(* awaits of its descriptors what its state takes.                         *)
Waits(t, c) ==
    /\ t.pool[c].phase \in {"talk", "dns"} => t.pool[c].remote = NoFd
    /\ t.pool[c].phase = "dns" => t.pool[c].takes = {}
    /\ Strays(t) = {} => \A f \in Held(t, c) : t.item[f].ops \subseteq t.pool[c].takes
Waiting(t) == \A c \in UsedBy(t) : Waits(t, c)

Counted(t) == t.current = Cardinality(UsedBy(t))

Consistent(t) == t \in Table /\ Watches(t) /\ Owned(t) /\ Clean(t) /\ Counted(t)
Sound(t) == Consistent(t) /\ Waiting(t)

(* The listener is the first to be visited: until then the descriptors     *)
(* that were found ready are open, and nothing was opened since.           *)
ListenerFirst ==
    pc = "ready" =>
        /\ turn.half = "w" => turn.i \in Fd /\ turn.i <= turn.n
        /\ turn.i = 0 /\ turn.half = "r" =>
              /\ newborn = {}
              /\ slave["r"] \cup slave["w"] \subseteq open
              /\ Listener \in slave["r"] => Cardinality(InUse) < MaxPool

(* In an iteration every object has an age of zero, or none yet, or will   *)
(* be refreshed: its client, or a stray of its, is still to be visited.    *)
Passed(f) == f < turn.i \/ (f = turn.i /\ turn.half = "w")
Ties(t, c) == {f \in Strays(t) : t.item[f].data = c}
              \cup (IF t.pool[c].inUse THEN {t.pool[c].client} ELSE {})
Due(t, c) == \E f \in Ties(t, c) : f <= turn.n /\ ~Passed(f)
Clocked ==
    /\ pc = "ready" => \A c \in DOMAIN pool : pool[c].age \in {0, Never} \/ Due(Tables, c)
    /\ pc \in {"select", "blocks"} =>
          \A c, d \in DOMAIN pool : pool[c].age # Never /\ pool[d].age # Never
                                       => pool[c].age = pool[d].age

(* The jobs of the resolver belong to different connections, which wait.   *)
Asker(t, j) == /\ j.conn \in UsedBy(t) /\ t.pool[j.conn].phase = "dns"
               /\ j.fd = t.pool[j.conn].client \/ j.fd \in Strays(t)
               /\ t.item[j.fd].data = j.conn
Queued(t, T, s) ==
    /\ \A j \in T : Asker(t, j)
    /\ \A i \in 1..Len(s) : Asker(t, s[i])
    /\ \A j, k \in T : j.conn = k.conn => j = k
    /\ \A i, k \in 1..Len(s) : s[i].conn = s[k].conn => i = k
    /\ \A j \in T, i \in 1..Len(s) : j.conn # s[i].conn
AskersWait ==
    pc # "stopped" /\ ~cut =>
        (pc = "aborted" => Strays(Tables) # {}) /\ Queued(Tables, threads, answers)

(* The tables are sound until the server has stopped, which leaves nothing *)
(* but the lost sockets.                                                   *)
SoundUntilStopped ==
    /\ pc # "stopped" => Sound(Tables)
    /\ pc = "stopped" => /\ open = lost /\ InUse = {} /\ current = 0
                         /\ \A f \in Fd : item[f].used => f \in lost

(* Nobody resolves a name on behalf of the listener. *)
ClientsAsk ==
    /\ \A j \in threads : j.fd # Listener
    /\ \A i \in 1..Len(answers) : answers[i].fd # Listener

NothingIsNew == pc = "select" => newborn = {}

LifecycleInv ==
    /\ TypeOK /\ SoundUntilStopped /\ ClientsAsk /\ NothingIsNew /\ ListenerFirst
    /\ NewClientsAreNotReady /\ Clocked /\ AskersWait

(* What the handlers of connection c make of the tables t leaves the other *)
(* connections and their entries alone, and c its client and its age.  No  *)
(* stray goes, nor is it given to another connection.                      *)
Serves(t, u, c) ==
    /\ DOMAIN u.pool = DOMAIN t.pool
    /\ \A d \in DOMAIN t.pool \ {c} : u.pool[d] = t.pool[d]
    /\ \A d \in UsedBy(t) \ {c} : \A f \in Held(t, d) : u.item[f] = t.item[f]
    /\ t.lost \subseteq u.lost
    /\ \A f \in Strays(t) : u.item[f].used /\ u.item[f].data = t.item[f].data
    /\ c \in UsedBy(u) => /\ u.pool[c].client = t.pool[c].client
                          /\ u.pool[c].age = t.pool[c].age
    /\ c \notin UsedBy(u) => u.pool[c].age = Never

-------------------------------------------------------------------------------
(* Numbers: the least and the greatest of a set.                           *)

(* The least descriptor or object of a set is one of them.                 *)
LEMMA MinIsLeast ==
    ASSUME NEW S, S \subseteq Nat, S # {}
    PROVE  Min(S) \in S /\ \A x \in S : Min(S) <= x
  <1> DEFINE Less == {ss \in Nat \X Nat : ss[1] < ss[2]}
  <1>1. Less = OpToRel(<, Nat)
    BY Zenon DEF OpToRel
  <1>2. IsWellFoundedOn(Less, Nat)
    BY <1>1, NatLessThanWellFounded
  <1>3. PICK m \in S : \A x \in S : ~ (<<x, m>> \in Less)
    BY <1>2, WFMin
  <1>4. \A x, y \in Nat : ~ (<<x, y>> \in Less) => y <= x
    OBVIOUS
  <1>5. \A x \in S : m <= x
    <2> HIDE DEF Less
    <2> QED
      BY <1>3, <1>4
  <1> QED
    BY <1>5 DEF Min

(* The lowest of a set is its least element, or there is none. *)
LEMMA LowestIsLeast ==
    ASSUME NEW S, S \subseteq Nat
    PROVE  /\ Lowest(S) = NoFd <=> S = {}
           /\ S # {} => Lowest(S) \in S /\ \A x \in S : Lowest(S) <= x
  <1>1. CASE S = {}
    BY <1>1 DEF Lowest
  <1>2. CASE S # {}
    <2>1. Min(S) \in S /\ \A x \in S : Min(S) <= x
      BY <1>2, MinIsLeast
    <2>2. Min(S) # NoFd
      BY <2>1 DEF NoFd
    <2> QED
      BY <1>2, <2>1, <2>2 DEF Lowest
  <1> QED
    BY <1>1, <1>2

(* The greatest of the descriptors, or timeouts, of a set with a bound.    *)
LEMMA MaxIsGreatest ==
    ASSUME NEW S, S \subseteq Nat, S # {}, NEW n \in Nat, \A x \in S : x <= n
    PROVE  Max(S) \in S /\ \A x \in S : x <= Max(S)
  <1> DEFINE Gaps == {y \in Nat : \E x \in S : y = n - x}
  <1>1. Gaps \subseteq Nat /\ Gaps # {}
    <2>1. PICK x \in S : TRUE
      OBVIOUS
    <2>2. n - x \in Nat
      BY <2>1
    <2>3. n - x \in Gaps
      BY <2>1, <2>2
    <2> QED
      BY <2>3
  <1>2. Min(Gaps) \in Gaps /\ \A y \in Gaps : Min(Gaps) <= y
    BY <1>1, MinIsLeast
  <1>3. PICK m \in S : Min(Gaps) = n - m
    BY <1>2
  <1>4. \A x \in S : m >= x
    <2> SUFFICES ASSUME NEW x \in S PROVE m >= x
      OBVIOUS
    <2>1. n - x \in Gaps
      OBVIOUS
    <2>2. n - m <= n - x
      BY <1>2, <1>3, <2>1
    <2> QED
      BY <2>2
  <1> QED
    BY <1>4 DEF Max

(* A finite set of numbers has a bound: otherwise there is a least number  *)
(* of elements without one, and one element less leaves a smaller one.     *)
LEMMA FiniteIsBounded ==
    ASSUME NEW S, S \subseteq Nat, IsFiniteSet(S)
    PROVE  \E n \in Nat : \A x \in S : x <= n
  <1> DEFINE Bounded(T) == \E n \in Nat : \A x \in T : x <= n
             Bad == {k \in Nat : \E T \in SUBSET Nat :
                        IsFiniteSet(T) /\ Cardinality(T) = k /\ ~Bounded(T)}
  <1>1. ASSUME Bad # {} PROVE FALSE
    <2>1. Min(Bad) \in Bad /\ \A k \in Bad : Min(Bad) <= k
      BY <1>1, MinIsLeast
    <2>2. PICK T \in SUBSET Nat : /\ IsFiniteSet(T) /\ Cardinality(T) = Min(Bad)
                                  /\ ~Bounded(T)
      BY <2>1
    <2>3. PICK x \in T : TRUE
      BY <2>2
    <2>4. /\ IsFiniteSet(T \ {x}) /\ Cardinality(T \ {x}) = Min(Bad) - 1
          /\ Cardinality(T \ {x}) \in Nat
      <3>1. IsFiniteSet(T \ {x}) /\ Cardinality(T \ {x}) = Cardinality(T) - 1
        BY <2>2, <2>3, FS_RemoveElement
      <3>2. Cardinality(T \ {x}) \in Nat
        BY <3>1, FS_CardinalityType
      <3> QED
        BY <2>2, <3>1, <3>2
    <2>5. Bounded(T \ {x})
      <3>1. CASE ~Bounded(T \ {x})
        <4>1. Min(Bad) - 1 \in Bad
          BY <2>4, <3>1
        <4>2. Min(Bad) <= Min(Bad) - 1 /\ Min(Bad) \in Nat
          BY <2>1, <4>1
        <4> QED
          BY <4>2
      <3> QED
        BY <3>1
    <2>6. PICK n \in Nat : \A y \in T \ {x} : y <= n
      BY <2>5
    <2>7. x \in Nat /\ x + n \in Nat /\ \A y \in T : y <= x + n
      BY <2>3, <2>6
    <2> QED
      BY <2>2, <2>7
  <1>2. Cardinality(S) \in Nat
    BY FS_CardinalityType
  <1> QED
    BY <1>1, <1>2

(* The largest of the configured timeouts is a number, and the ages count  *)
(* up to it.                                                               *)
LEMMA TimeoutType == MaxTimeout \in Nat
  <1>1. \E n \in Nat : \A x \in Timeouts : x <= n
    BY LifecycleAssumption, FiniteIsBounded
  <1>2. Max(Timeouts) \in Timeouts
    BY <1>1, LifecycleAssumption, MaxIsGreatest
  <1> QED
    BY <1>2, LifecycleAssumption DEF MaxTimeout

(* A second makes no connection visited, or unvisited. *)
LEMMA OlderFacts ==
    ASSUME NEW a \in Age
    PROVE  Older(a) \in Age /\ (Older(a) = Never <=> a = Never)
  BY TimeoutType DEF Age, Older, Never


-------------------------------------------------------------------------------
(* The operations on the tables: what each leaves in every field.          *)

(* The records that the operations build have their types. *)
LEMMA RecordTypes ==
    /\ FreeItem \in Item /\ Zeroed \in Connection
    /\ \A d \in 0..MaxPool, ops \in SUBSET Op :
          [used |-> TRUE, data |-> d, ops |-> ops] \in Item
  BY TimeoutType, LifecycleAssumption
     DEF FreeItem, Item, Zeroed, Connection, Age, Never

(* Writing one object of the pool keeps its length. *)
LEMMA PoolWrite ==
    ASSUME NEW p \in Seq(Connection), NEW c \in DOMAIN p, NEW x \in Connection
    PROVE  /\ [p EXCEPT ![c] = x] \in Seq(Connection)
           /\ Len([p EXCEPT ![c] = x]) = Len(p)
           /\ DOMAIN [p EXCEPT ![c] = x] = DOMAIN p
           /\ \A d \in DOMAIN p : [p EXCEPT ![c] = x][d] = IF d = c THEN x ELSE p[d]
  <1>1. DOMAIN p = 1..Len(p) /\ Len(p) \in Nat /\ \A d \in 1..Len(p) : p[d] \in Connection
    BY ElementOfSeq
  <1> DEFINE q == [p EXCEPT ![c] = x]
  <1>2. q \in [1..Len(p) -> Connection]
    BY <1>1
  <1>3. q \in Seq(Connection)
    BY <1>1, <1>2
  <1> QED
    BY <1>1, <1>2, <1>3

(* The objects in use can be counted. *)
LEMMA UsedByFinite ==
    ASSUME NEW t \in Table
    PROVE  IsFiniteSet(UsedBy(t)) /\ Cardinality(UsedBy(t)) \in Nat
           /\ Cardinality(UsedBy(t)) <= Len(t.pool)
           /\ (UsedBy(t) = DOMAIN t.pool => Cardinality(UsedBy(t)) = Len(t.pool))
  <1>1. t.pool \in Seq(Connection)
    BY DEF Table
  <1>2. DOMAIN t.pool = 1..Len(t.pool) /\ Len(t.pool) \in Nat
    BY <1>1
  <1>3. IsFiniteSet(1..Len(t.pool)) /\ Cardinality(1..Len(t.pool)) = Len(t.pool)
    <2>1. 1 \in Int /\ Len(t.pool) \in Int
      BY <1>2
    <2>2. /\ IsFiniteSet(1..Len(t.pool))
          /\ Cardinality(1..Len(t.pool)) = IF 1 > Len(t.pool) THEN 0 ELSE Len(t.pool) - 1 + 1
      BY <2>1, FS_Interval
    <2> QED
      BY <1>2, <2>2
  <1>4. UsedBy(t) \in SUBSET (1..Len(t.pool))
    BY <1>2 DEF UsedBy
  <1>5. IsFiniteSet(UsedBy(t)) /\ Cardinality(UsedBy(t)) <= Len(t.pool)
    BY <1>3, <1>4, FS_Subset
  <1>6. Cardinality(UsedBy(t)) \in Nat
    BY <1>5, FS_CardinalityType
  <1> QED
    BY <1>2, <1>3, <1>5, <1>6

(* SelectorSetInterest changes the interest of one used entry. *)
LEMMA InterestFields ==
    ASSUME NEW t \in Table, NEW f, NEW ops \in SUBSET Op
    PROVE  LET u == Interest(t, f, ops) IN
           /\ u \in Table
           /\ u.open = t.open /\ u.pool = t.pool /\ u.current = t.current /\ u.lost = t.lost
           /\ \A g \in Fd : /\ u.item[g].used <=> t.item[g].used
                            /\ u.item[g].data = t.item[g].data
                            /\ g # f \/ ~t.item[g].used => u.item[g] = t.item[g]
           /\ f \in Fd /\ t.item[f].used => u.item[f].ops = ops
  <1>1. t = [open |-> t.open, item |-> t.item, pool |-> t.pool, current |-> t.current, lost |-> t.lost]
        /\ t.item \in [Fd -> Item]
    BY DEF Table
  <1>2. CASE f \in Fd /\ t.item[f].used
    <2> DEFINE x == [t.item[f] EXCEPT !.ops = ops]
    <2>1. /\ x \in Item /\ x.data = t.item[f].data /\ x.ops = ops
          /\ x.used <=> t.item[f].used
      BY <1>1, <1>2 DEF Item
    <2>2. Interest(t, f, ops) = [t EXCEPT !.item = [t.item EXCEPT ![f] = x]]
      BY <1>2 DEF Interest
    <2> HIDE DEF x
    <2>3. [t.item EXCEPT ![f] = x] \in [Fd -> Item]
          /\ \A g \in Fd : [t.item EXCEPT ![f] = x][g] = IF g = f THEN x ELSE t.item[g]
      BY <1>1, <1>2, <2>1
    <2> DEFINE i == [t.item EXCEPT ![f] = x]
    <2> HIDE DEF i
    <2>4. [t EXCEPT !.item = i] =
             [open |-> t.open, item |-> i, pool |-> t.pool, current |-> t.current, lost |-> t.lost]
      BY DEF Table
    <2>5. [t EXCEPT !.item = i] \in Table
      BY <2>3, <2>4 DEF Table, i
    <2> QED
      BY <1>2, <2>1, <2>2, <2>3, <2>4, <2>5 DEF i
  <1>3. CASE ~(f \in Fd /\ t.item[f].used)
    BY <1>1, <1>3 DEF Interest
  <1> QED
    BY <1>2, <1>3

(* A handler writes the object of its connection. *)
LEMMA ObjectFields ==
    ASSUME NEW t \in Table, NEW c \in DOMAIN t.pool, NEW x \in Connection
    PROVE  LET u == [t EXCEPT !.pool[c] = x] IN
           /\ u \in Table
           /\ u.open = t.open /\ u.item = t.item /\ u.current = t.current /\ u.lost = t.lost
           /\ DOMAIN u.pool = DOMAIN t.pool /\ Len(u.pool) = Len(t.pool)
           /\ u.pool[c] = x
           /\ \A d \in DOMAIN t.pool \ {c} : u.pool[d] = t.pool[d]
  <1> DEFINE p == [t.pool EXCEPT ![c] = x]
  <1>1. t.pool \in Seq(Connection)
    BY DEF Table
  <1>2. /\ p \in Seq(Connection) /\ Len(p) = Len(t.pool) /\ DOMAIN p = DOMAIN t.pool
        /\ \A d \in DOMAIN t.pool : p[d] = IF d = c THEN x ELSE t.pool[d]
    BY <1>1, PoolWrite
  <1>3. [t EXCEPT !.pool[c] = x] = [t EXCEPT !.pool = p]
    OBVIOUS
  <1> HIDE DEF p
  <1>4. [t EXCEPT !.pool = p] =
           [open |-> t.open, item |-> t.item, pool |-> p, current |-> t.current, lost |-> t.lost]
    BY DEF Table
  <1>5. [t EXCEPT !.pool = p] \in Table
    BY <1>2, <1>4 DEF Table
  <1> QED
    BY <1>2, <1>3, <1>4, <1>5
(* A connection in another state of fsm.c. *)
Posed(x, ph, s) == [x EXCEPT !.phase = ph, !.takes = s]

(* Going to another state writes the object of the connection. *)
LEMMA StateWrites ==
    ASSUME NEW t \in Table, NEW c \in DOMAIN t.pool, NEW ph, NEW s
    PROVE  InState(t, c, ph, s) = [t EXCEPT !.pool[c] = Posed(t.pool[c], ph, s)]
  BY DEF InState, Table, Posed

(* The name and the age of a connection, as objects. *)
LEMMA FieldWrites ==
    ASSUME NEW t \in Table, NEW c \in DOMAIN t.pool
    PROVE  /\ [t.pool[c] EXCEPT !.named = TRUE] \in Connection
           /\ Named(t, c) = [t EXCEPT !.pool[c] = [t.pool[c] EXCEPT !.named = TRUE]]
           /\ [t.pool[c] EXCEPT !.age = 0] \in Connection
           /\ [t EXCEPT !.pool[c].age = 0]
                 = [t EXCEPT !.pool[c] = [t.pool[c] EXCEPT !.age = 0]]
  <1>1. t.pool[c] \in Connection
    BY ElementOfSeq DEF Table
  <1>2. 0 \in Age
    BY TimeoutType DEF Age, Never
  <1>3. [t.pool[c] EXCEPT !.named = TRUE] \in Connection
    BY <1>1 DEF Connection
  <1>4. [t.pool[c] EXCEPT !.age = 0] \in Connection
    BY <1>1, <1>2 DEF Connection
  <1> QED
    BY <1>3, <1>4 DEF Named

(* An entry of connection c, or of none, is no other connection's.         *)
LEMMA EntriesApart ==
    ASSUME NEW t, Consistent(t), NEW c \in DOMAIN t.pool, NEW f \in Fd,
           t.item[f].used => t.item[f].data = c
    PROVE  f # Listener /\ \A d \in UsedBy(t) \ {c} : f \notin Held(t, d)
  <1>1. c # 0
    BY DEF Consistent, Table
  <1>2. f # Listener
    BY <1>1 DEF Consistent, Watches
  <1>3. \A d \in UsedBy(t) : \A g \in Held(t, d) : t.item[g].used /\ t.item[g].data = d
    BY DEF Consistent, Owned, Watches
  <1> QED
    BY <1>2, <1>3

(* Tables stay consistent when a connection in use keeps its descriptors.  *)
LEMMA ConsistentObject ==
    ASSUME NEW t, Consistent(t), NEW c \in UsedBy(t), NEW x \in Connection,
           x.inUse, x.client = t.pool[c].client, x.remote = t.pool[c].remote
    PROVE  LET u == [t EXCEPT !.pool[c] = x] IN
           /\ Consistent(u) /\ UsedBy(u) = UsedBy(t)
           /\ x.age = t.pool[c].age => Serves(t, u, c)
  <1> DEFINE u == [t EXCEPT !.pool[c] = x]
  <1>1. t \in Table /\ c \in DOMAIN t.pool
    BY DEF Consistent, UsedBy
  <1>2. /\ u \in Table
        /\ u.open = t.open /\ u.item = t.item /\ u.current = t.current /\ u.lost = t.lost
        /\ DOMAIN u.pool = DOMAIN t.pool /\ u.pool[c] = x
        /\ \A d \in DOMAIN t.pool \ {c} : u.pool[d] = t.pool[d]
    BY <1>1, ObjectFields
  <1> HIDE DEF u
  <1>3. UsedBy(u) = UsedBy(t) /\ \A d \in DOMAIN t.pool : Held(u, d) = Held(t, d)
    BY <1>1, <1>2 DEF UsedBy, Held
  <1>a. Strays(u) = Strays(t)
    BY <1>2 DEF Strays
  <1>4. Watches(u)
    BY <1>2 DEF Consistent, Watches
  <1>5. Owned(u)
    <2>1. \A f \in u.open \ (u.lost \cup {Listener}) :
             u.item[f].data \in UsedBy(u) /\ f \in Held(u, u.item[f].data)
      BY <1>2, <1>3 DEF Consistent, Owned, UsedBy
    <2>2. ASSUME NEW d \in UsedBy(u)
          PROVE  /\ u.pool[d].client \in Fd /\ u.pool[d].client # u.pool[d].remote
                 /\ \A f \in Held(u, d) : /\ f \in u.open \ (u.lost \cup {Listener})
                                          /\ u.item[f].data = d
      <3>1. d \in DOMAIN t.pool /\ d \in UsedBy(t)
        BY <1>3 DEF UsedBy
      <3>2. u.pool[d].client = t.pool[d].client /\ u.pool[d].remote = t.pool[d].remote
        BY <1>2, <3>1
      <3> QED
        BY <1>2, <1>3, <3>1, <3>2 DEF Consistent, Owned
    <2>3. \A f \in Strays(u) : u.item[f].data \in DOMAIN u.pool
      BY <1>2, <1>a DEF Consistent, Owned
    <2> QED
      BY <2>1, <2>2, <2>3 DEF Owned
  <1>b. Clean(u)
    <2>1. ASSUME NEW d \in DOMAIN u.pool, ~u.pool[d].inUse PROVE Unused(u, d)
      <3>1. d # c /\ u.pool[d] = t.pool[d] /\ Unused(t, d)
        BY <1>2, <2>1 DEF Consistent, Clean
      <3> QED
        BY <1>2, <1>a, <3>1 DEF Unused
    <2> QED
      BY <2>1 DEF Clean
  <1>6. Counted(u)
    BY <1>2, <1>3 DEF Consistent, Counted
  <1>7. x.age = t.pool[c].age => Serves(t, u, c)
    BY <1>2, <1>3, <1>a DEF Serves, Strays
  <1> QED
    BY <1>2, <1>3, <1>4, <1>5, <1>b, <1>6, <1>7 DEF Consistent, u

(* So they do when the interest of one of its entries is set.              *)
LEMMA ConsistentInterest ==
    ASSUME NEW t, Consistent(t), NEW c \in UsedBy(t), NEW f, NEW ops \in SUBSET Op,
           f \in Fd /\ t.item[f].used => t.item[f].data = c
    PROVE  LET u == Interest(t, f, ops) IN
           /\ Consistent(u) /\ u.pool = t.pool /\ u.open = t.open /\ u.lost = t.lost
           /\ UsedBy(u) = UsedBy(t) /\ Serves(t, u, c)
           /\ \A g \in Fd : /\ u.item[g].used <=> t.item[g].used
                            /\ u.item[g].data = t.item[g].data
                            /\ g # f => u.item[g] = t.item[g]
           /\ f \in Fd /\ t.item[f].used => u.item[f].ops = ops
           /\ Strays(u) = Strays(t)
  <1> DEFINE u == Interest(t, f, ops)
  <1>1. t \in Table /\ c \in DOMAIN t.pool
    BY DEF Consistent, UsedBy
  <1>2. /\ u \in Table
        /\ u.open = t.open /\ u.pool = t.pool /\ u.current = t.current /\ u.lost = t.lost
        /\ \A g \in Fd : /\ u.item[g].used <=> t.item[g].used
                         /\ u.item[g].data = t.item[g].data
                         /\ g # f \/ ~t.item[g].used => u.item[g] = t.item[g]
        /\ f \in Fd /\ t.item[f].used => u.item[f].ops = ops
    BY <1>1, InterestFields
  <1> HIDE DEF u
  <1>3. UsedBy(u) = UsedBy(t) /\ \A d : Held(u, d) = Held(t, d)
    BY <1>2 DEF UsedBy, Held
  <1>4. t.open \subseteq Fd /\ t.lost \subseteq Fd /\ Listener \in Fd
    BY <1>1, LifecycleAssumption DEF Table, Fd, Listener
  <1>5. f \in Fd => f # Listener /\ \A d \in UsedBy(t) \ {c} : f \notin Held(t, d)
    BY <1>1, EntriesApart
  <1>6. Strays(u) = Strays(t)
    BY <1>2, <1>4 DEF Strays
  <1>7. Watches(u)
    BY <1>2, <1>4, <1>5 DEF Consistent, Watches
  <1>8. Owned(u)
    <2>1. \A g \in t.open : u.item[g].data = t.item[g].data
      BY <1>2, <1>4
    <2>2. \A g \in Strays(t) : g \in t.open
      BY DEF Strays, Consistent, Watches
    <2> QED
      BY <1>2, <1>3, <1>6, <2>1, <2>2 DEF Consistent, Owned
  <1>a. Clean(u)
    <2>1. \A g \in Strays(t) : u.item[g].data = t.item[g].data
      BY <1>2, <1>4 DEF Strays
    <2> QED
      BY <1>2, <1>6, <2>1 DEF Consistent, Clean, Unused
  <1>9. Counted(u)
    BY <1>2, <1>3 DEF Consistent, Counted
  <1>10. Serves(t, u, c)
    <2>1. ASSUME NEW d \in UsedBy(t) \ {c}, NEW g \in Held(t, d)
          PROVE  u.item[g] = t.item[g]
      <3>1. g \in Fd
        BY <1>4 DEF Consistent, Owned
      <3> QED
        BY <1>2, <1>5, <3>1
    <2>2. \A g \in Strays(t) : u.item[g].used /\ u.item[g].data = t.item[g].data
      BY <1>2, <1>4 DEF Strays
    <2> QED
      BY <1>2, <1>3, <2>1, <2>2 DEF Serves
  <1> QED
    BY <1>2, <1>3, <1>6, <1>7, <1>8, <1>a, <1>9, <1>10 DEF Consistent, u

(* What is done to one connection in two steps. *)
LEMMA ServesTwice ==
    ASSUME NEW t, NEW u, NEW v, NEW c,
           Serves(t, u, c), c \in UsedBy(u), Serves(u, v, c)
    PROVE  Serves(t, v, c)
  <1>1. DOMAIN u.pool = DOMAIN t.pool /\ DOMAIN v.pool = DOMAIN t.pool
    BY DEF Serves
  <1>2. \A d \in DOMAIN t.pool \ {c} : u.pool[d] = t.pool[d] /\ v.pool[d] = t.pool[d]
    BY <1>1 DEF Serves
  <1>3. \A d \in UsedBy(t) \ {c} : d \in UsedBy(u) \ {c} /\ Held(u, d) = Held(t, d)
    BY <1>1, <1>2 DEF UsedBy, Held
  <1>4. \A d \in UsedBy(t) \ {c} : \A f \in Held(t, d) : v.item[f] = t.item[f]
    BY <1>3 DEF Serves
  <1>5. t.lost \subseteq v.lost
    BY DEF Serves
  <1>6. \A f \in Strays(t) : v.item[f].used /\ v.item[f].data = t.item[f].data
    <2> SUFFICES ASSUME NEW f \in Strays(t)
                 PROVE  v.item[f].used /\ v.item[f].data = t.item[f].data
      OBVIOUS
    <2>1. u.item[f].used /\ u.item[f].data = t.item[f].data /\ f \in u.lost
      BY DEF Serves, Strays
    <2> QED
      BY <2>1 DEF Serves, Strays
  <1>7. /\ c \in UsedBy(v) => /\ v.pool[c].client = t.pool[c].client
                              /\ v.pool[c].age = t.pool[c].age
        /\ c \notin UsedBy(v) => v.pool[c].age = Never
    BY DEF Serves
  <1> QED
    BY <1>1, <1>2, <1>4, <1>5, <1>6, <1>7 DEF Serves

(* Whoever was left alone waits as before. *)
LEMMA WaitingKept ==
    ASSUME NEW t, Sound(t), NEW u, Consistent(u), NEW c, Serves(t, u, c),
           c \in UsedBy(u) => Waits(u, c)
    PROVE  Sound(u)
  <1>1. ASSUME NEW d \in UsedBy(u), d # c PROVE Waits(u, d)
    <2>1. d \in UsedBy(t) /\ u.pool[d] = t.pool[d]
      BY <1>1 DEF Serves, UsedBy
    <2>2. Waits(t, d)
      BY <2>1 DEF Sound, Waiting
    <2>3. Held(u, d) = Held(t, d) /\ \A f \in Held(t, d) : u.item[f] = t.item[f]
      BY <1>1, <2>1 DEF Serves, Held
    <2>4. Strays(t) \subseteq Strays(u)
      BY DEF Serves, Strays
    <2> QED
      BY <2>1, <2>2, <2>3, <2>4 DEF Waits
  <1> QED
    BY <1>1 DEF Sound, Waiting

-------------------------------------------------------------------------------
(* EstablishConnectionInit.                                                *)

Rewritten(t, o, i, p, l) == [t EXCEPT !.open = o, !.item = i, !.pool = p, !.lost = l]

(* Four fields of the tables written at once. *)
LEMMA RewrittenTable ==
    ASSUME NEW t \in Table, NEW o, NEW i, NEW p, NEW l
    PROVE  Rewritten(t, o, i, p, l) =
              [open |-> o, item |-> i, pool |-> p, current |-> t.current, lost |-> l]
  <1> DEFINE All(oo, ii, pp, ll) ==
                [open |-> oo, item |-> ii, pool |-> pp, current |-> t.current, lost |-> ll]
  <1>1. t = All(t.open, t.item, t.pool, t.lost)
    BY DEF Table
  <1>2. [t EXCEPT !.open = o] = All(o, t.item, t.pool, t.lost)
    BY <1>1
  <1>3. [All(o, t.item, t.pool, t.lost) EXCEPT !.item = i] = All(o, i, t.pool, t.lost)
    OBVIOUS
  <1>4. [All(o, i, t.pool, t.lost) EXCEPT !.pool = p] = All(o, i, p, t.lost)
    OBVIOUS
  <1>5. [All(o, i, p, t.lost) EXCEPT !.lost = l] = All(o, i, p, l)
    OBVIOUS
  <1>6. Rewritten(t, o, i, p, l) = [All(o, i, p, t.lost) EXCEPT !.lost = l]
    BY <1>2, <1>3, <1>4 DEF Rewritten
  <1> QED
    BY <1>5, <1>6

(* DisposeTcpConnection of one descriptor, field by field. *)
LEMMA CloseFields ==
    ASSUME NEW t \in Table, NEW f
    PROVE  LET u == Close(t, f) IN
           /\ u \in Table
           /\ u.open = t.open \ {f} /\ u.pool = t.pool /\ u.current = t.current
           /\ u.lost = t.lost
           /\ \A g \in Fd : u.item[g] = IF g = f /\ f \in t.open THEN FreeItem ELSE t.item[g]
  <1>1. /\ t = [open |-> t.open, item |-> t.item, pool |-> t.pool, current |-> t.current,
                lost |-> t.lost]
        /\ t.item \in [Fd -> Item] /\ t.open \subseteq Fd
    BY DEF Table
  <1>2. CASE f \in t.open
    <2> DEFINE i == [t.item EXCEPT ![f] = FreeItem]
    <2>1. i \in [Fd -> Item] /\ \A g \in Fd : i[g] = IF g = f THEN FreeItem ELSE t.item[g]
      BY <1>1, <1>2, RecordTypes
    <2> DEFINE o == t.open \ {f}
    <2>2. Close(t, f) = [t EXCEPT !.open = o, !.item = i]
      BY <1>2 DEF Close
    <2> HIDE DEF i, o
    <2>3. [t EXCEPT !.open = o, !.item = i] = Rewritten(t, o, i, t.pool, t.lost)
      BY <1>1 DEF Rewritten
    <2>4. Close(t, f) = [open |-> o, item |-> i, pool |-> t.pool, current |-> t.current,
                         lost |-> t.lost]
      BY <2>2, <2>3, RewrittenTable
    <2>5. o = t.open \ {f} /\ o \subseteq Fd
      BY <1>1 DEF o
    <2>6. Close(t, f) \in Table
      BY <1>1, <2>1, <2>4, <2>5 DEF Table
    <2> QED
      BY <1>2, <2>1, <2>4, <2>5, <2>6
  <1>3. CASE f \notin t.open
    BY <1>1, <1>3 DEF Close
  <1> QED
    BY <1>2, <1>3

(* The connection without the remote of an earlier attempt. *)
Between(t, c) == [Close(t, t.pool[c].remote) EXCEPT
                     !.pool[c] = Posed([t.pool[c] EXCEPT !.remote = NoFd], "connect", Op)]

(* That is how EstablishConnectionInit leaves it. *)
LEMMA LeavesBetween ==
    ASSUME NEW t \in Table, NEW c \in DOMAIN t.pool
    PROVE  Leaves(t, c) = Between(t, c)
  <1> DEFINE left == Close(t, t.pool[c].remote)
             x == [t.pool[c] EXCEPT !.remote = NoFd]
             y == Posed(x, "connect", Op)
             a == [left EXCEPT !.pool[c] = x]
  <1>1. left \in Table /\ left.pool = t.pool
    BY CloseFields
  <1>2. t.pool[c] \in Connection
    BY ElementOfSeq DEF Table
  <1>3. x \in Connection
    BY <1>2 DEF Connection
  <1> HIDE DEF left
  <1>4. [left EXCEPT !.pool[c].remote = NoFd] = a
    BY <1>1 DEF Table
  <1>5. a \in Table /\ c \in DOMAIN a.pool /\ a.pool[c] = x
    BY <1>1, <1>3, ObjectFields
  <1>6. InState(a, c, "connect", Op) = [a EXCEPT !.pool[c] = y]
    <2> HIDE DEF a, x
    <2>1. InState(a, c, "connect", Op) = [a EXCEPT !.pool[c] = Posed(a.pool[c], "connect", Op)]
      BY <1>5, StateWrites
    <2> QED
      BY <1>5, <2>1
  <1>7. Between(t, c) = [left EXCEPT !.pool[c] = y]
    BY DEF Between, Posed, left
  <1> HIDE DEF x, y
  <1>8. [a EXCEPT !.pool[c] = y] = [left EXCEPT !.pool[c] = y]
    BY <1>1 DEF Table
  <1> QED
    BY <1>4, <1>6, <1>7, <1>8 DEF Leaves, left

(* A remote given up, before another is tried. *)
LEMMA ConsistentBetween ==
    ASSUME NEW t, Consistent(t), NEW c \in UsedBy(t)
    PROVE  LET v == Between(t, c) IN
           /\ Consistent(v) /\ UsedBy(v) = UsedBy(t) /\ Serves(t, v, c)
           /\ v.pool[c].remote = NoFd /\ v.pool[c].phase = "connect" /\ v.pool[c].takes = Op
           /\ v.open = t.open \ {t.pool[c].remote} /\ v.lost = t.lost
           /\ \A g \in Fd : v.item[g].used => v.item[g] = t.item[g]
  <1> DEFINE x == Posed([t.pool[c] EXCEPT !.remote = NoFd], "connect", Op)
             r == t.pool[c].remote
             left == Close(t, r)
             v == [left EXCEPT !.pool[c] = x]
  <1>1. t \in Table /\ c \in DOMAIN t.pool /\ t.pool[c] \in Connection /\ t.pool[c].inUse
    BY ElementOfSeq DEF Consistent, UsedBy, Table
  <1>2. /\ x \in Connection /\ x.inUse /\ x.client = t.pool[c].client
        /\ x.remote = NoFd /\ x.phase = "connect" /\ x.takes = Op /\ x.age = t.pool[c].age
    BY <1>1 DEF Connection, Posed
  <1> HIDE DEF x
  <1>3. /\ left \in Table
        /\ left.open = t.open \ {r} /\ left.pool = t.pool /\ left.current = t.current
        /\ left.lost = t.lost
        /\ \A g \in Fd : left.item[g] = IF g = r /\ r \in t.open THEN FreeItem ELSE t.item[g]
    BY <1>1, CloseFields
  <1> HIDE DEF left
  <1>4. /\ v \in Table
        /\ v.open = left.open /\ v.item = left.item /\ v.current = left.current
        /\ v.lost = left.lost
        /\ DOMAIN v.pool = DOMAIN t.pool /\ v.pool[c] = x
        /\ \A d \in DOMAIN t.pool \ {c} : v.pool[d] = t.pool[d]
    BY <1>1, <1>2, <1>3, ObjectFields
  <1>5. v = Between(t, c)
    BY DEF Between, x, left
  <1> HIDE DEF v
  <1>6. /\ t.pool[c].client \in Fd /\ t.pool[c].client # r
        /\ \A g \in Held(t, c) : /\ g \in t.open \ (t.lost \cup {Listener})
                                 /\ t.item[g].data = c
        /\ t.open \subseteq Fd /\ t.lost \subseteq Fd /\ Listener \in Fd /\ NoFd \notin Fd
    BY <1>1, LifecycleAssumption DEF Consistent, Owned, Table, Fd, NoFd, Listener
  <1>7. r # Listener /\ r \notin t.lost /\ (r \in t.open => r \in Held(t, c))
    <2>1. r = NoFd \/ r \in Held(t, c)
      BY DEF Held
    <2> QED
      BY <1>6, <2>1
  <1>8. UsedBy(v) = UsedBy(t)
    BY <1>1, <1>2, <1>4 DEF UsedBy
  <1>9. Held(v, c) = Held(t, c) \ {r}
    BY <1>2, <1>4, <1>6 DEF Held
  <1>10. \A d \in UsedBy(t) \ {c} : /\ v.pool[d] = t.pool[d] /\ Held(v, d) = Held(t, d)
                                    /\ r \notin Held(t, d)
    <2>1. ASSUME NEW d \in UsedBy(t) \ {c}, r \in Held(t, d) PROVE FALSE
      <3>1. r \in t.open /\ t.item[r].data = d
        BY <2>1 DEF Consistent, Owned
      <3>2. t.item[r].data = c
        BY <1>6, <1>7, <3>1
      <3> QED
        BY <2>1, <3>1, <3>2
    <2> QED
      BY <1>4, <2>1 DEF UsedBy, Held
  <1>11. FreeItem.used = FALSE
    BY DEF FreeItem
  <1>a. /\ \A g \in Fd : g # r => v.item[g] = t.item[g]
        /\ \A g \in Fd : v.item[g].used => v.item[g] = t.item[g]
    BY <1>3, <1>4, <1>11
  <1>b. Strays(v) = Strays(t) /\ \A g \in Strays(t) : g \in Fd /\ v.item[g] = t.item[g]
    BY <1>3, <1>4, <1>6, <1>7, <1>a DEF Strays
  <1>12. Watches(v)
    <2>1. \A f \in Fd : v.item[f].used => f \in v.open
      <3> SUFFICES ASSUME NEW f \in Fd, v.item[f].used PROVE f \in v.open
        OBVIOUS
      <3>1. f \in t.open
        BY <1>a DEF Consistent, Watches
      <3>2. ~(f = r /\ r \in t.open)
        BY <1>3, <1>4, <1>11
      <3> QED
        BY <1>3, <1>4, <3>1, <3>2
    <2>2. \A f \in Fd : ~v.item[f].used => v.item[f] = FreeItem
      BY <1>3, <1>4 DEF Consistent, Watches
    <2>3. Listener \in v.open \ v.lost /\ v.item[Listener] = t.item[Listener]
      BY <1>3, <1>4, <1>6, <1>7 DEF Consistent, Watches
    <2>4. \A f \in v.open \ v.lost : v.item[f].used
      BY <1>3, <1>4, <1>6, <1>a DEF Consistent, Watches
    <2>5. v.lost \subseteq v.open
      BY <1>3, <1>4, <1>7 DEF Consistent, Watches
    <2> QED
      BY <2>1, <2>2, <2>3, <2>4, <2>5 DEF Consistent, Watches
  <1>13. Owned(v)
    <2>1. ASSUME NEW f \in v.open \ (v.lost \cup {Listener})
          PROVE  v.item[f].data \in UsedBy(v) /\ f \in Held(v, v.item[f].data)
      <3>1. f \in t.open \ (t.lost \cup {Listener}) /\ f # r /\ v.item[f] = t.item[f]
        BY <1>3, <1>4, <1>6
      <3>2. t.item[f].data \in UsedBy(t) /\ f \in Held(t, t.item[f].data)
        BY <3>1 DEF Consistent, Owned
      <3> QED
        BY <1>8, <1>9, <1>10, <3>1, <3>2
    <2>2. ASSUME NEW d \in UsedBy(v)
          PROVE  /\ v.pool[d].client \in Fd /\ v.pool[d].client # v.pool[d].remote
                 /\ \A f \in Held(v, d) : /\ f \in v.open \ (v.lost \cup {Listener})
                                          /\ v.item[f].data = d
      <3>1. CASE d = c
        <4>1. v.pool[c].client \in Fd /\ v.pool[c].client # v.pool[c].remote
          BY <1>2, <1>4, <1>6
        <4> QED
          BY <1>3, <1>4, <1>6, <1>9, <1>a, <3>1, <4>1
      <3>2. CASE d # c
        <4>1. d \in UsedBy(t) \ {c}
          BY <1>8, <3>2
        <4>2. /\ t.pool[d].client \in Fd /\ t.pool[d].client # t.pool[d].remote
              /\ \A f \in Held(t, d) : /\ f \in t.open \ (t.lost \cup {Listener})
                                       /\ t.item[f].data = d
          BY <4>1 DEF Consistent, Owned
        <4> QED
          BY <1>3, <1>4, <1>6, <1>10, <1>a, <4>1, <4>2
      <3> QED
        BY <3>1, <3>2
    <2>3. \A f \in Strays(v) : v.item[f].data \in DOMAIN v.pool
      BY <1>4, <1>b DEF Consistent, Owned
    <2> QED
      BY <2>1, <2>2, <2>3 DEF Owned
  <1>c. Clean(v)
    <2>1. ASSUME NEW d \in DOMAIN v.pool, ~v.pool[d].inUse PROVE Unused(v, d)
      <3>1. d # c /\ v.pool[d] = t.pool[d] /\ Unused(t, d)
        BY <1>2, <1>4, <2>1 DEF Consistent, Clean
      <3> QED
        BY <1>b, <3>1 DEF Unused
    <2> QED
      BY <2>1 DEF Clean
  <1>14. Counted(v)
    BY <1>3, <1>4, <1>8 DEF Consistent, Counted
  <1>15. Serves(t, v, c)
    <2>1. ASSUME NEW d \in UsedBy(t) \ {c}, NEW f \in Held(t, d) PROVE v.item[f] = t.item[f]
      <3>1. f \in Fd
        BY <1>6 DEF Consistent, Owned
      <3> QED
        BY <1>10, <1>a, <3>1
    <2>2. \A f \in Strays(t) : v.item[f].used /\ v.item[f].data = t.item[f].data
      BY <1>b DEF Strays
    <2> QED
      BY <1>2, <1>3, <1>4, <1>8, <2>1, <2>2 DEF Serves
  <1> QED
    BY <1>2, <1>3, <1>4, <1>5, <1>8, <1>12, <1>13, <1>c, <1>14, <1>15, <1>a
       DEF Consistent, x

(* A descriptor that nobody had becomes the remote of a connection.        *)
Opening(t, c, f) == [open |-> t.open \cup {f},
                     item |-> [t.item EXCEPT ![f] = [used |-> TRUE, data |-> c, ops |-> Op]],
                     pool |-> [t.pool EXCEPT ![c] = [t.pool[c] EXCEPT !.remote = f]],
                     current |-> t.current, lost |-> t.lost]

(* A remote opened for a connection that had none. *)
LEMMA ConsistentOpening ==
    ASSUME NEW t, Consistent(t), NEW c \in UsedBy(t), c \in Index,
           t.pool[c].remote = NoFd, NEW f \in Fd \ t.open
    PROVE  LET u == Opening(t, c, f) IN
           /\ Consistent(u) /\ UsedBy(u) = UsedBy(t) /\ Serves(t, u, c)
           /\ u.pool[c].remote = f /\ u.pool[c].phase = t.pool[c].phase
           /\ u.pool[c].takes = t.pool[c].takes
  <1> DEFINE x == [t.pool[c] EXCEPT !.remote = f]
             new == [used |-> TRUE, data |-> c, ops |-> Op]
             i == [t.item EXCEPT ![f] = new]
             p == [t.pool EXCEPT ![c] = x]
             u == [open |-> t.open \cup {f}, item |-> i, pool |-> p, current |-> t.current,
                   lost |-> t.lost]
  <1>1. t \in Table /\ c \in DOMAIN t.pool /\ t.pool[c] \in Connection /\ t.pool[c].inUse
    BY ElementOfSeq DEF Consistent, UsedBy, Table
  <1>2. /\ x \in Connection /\ x.inUse /\ x.client = t.pool[c].client
        /\ x.remote = f /\ x.phase = t.pool[c].phase /\ x.takes = t.pool[c].takes
        /\ x.age = t.pool[c].age
    BY <1>1 DEF Connection
  <1>3. new \in Item /\ new.used /\ new.data = c
    BY LifecycleAssumption DEF Item, Index
  <1>4. Opening(t, c, f) = u
    BY DEF Opening
  <1> HIDE DEF x, new
  <1>5. i \in [Fd -> Item] /\ \A g \in Fd : i[g] = IF g = f THEN new ELSE t.item[g]
    BY <1>1, <1>3 DEF Table
  <1>6. /\ p \in Seq(Connection) /\ DOMAIN p = DOMAIN t.pool /\ p[c] = x
        /\ \A d \in DOMAIN t.pool \ {c} : p[d] = t.pool[d]
    BY <1>1, <1>2, PoolWrite DEF Table
  <1> HIDE DEF i, p
  <1>7. t.open \subseteq Fd /\ t.lost \subseteq Fd /\ t.current \in Nat
    BY <1>1 DEF Table
  <1>8. u \in Table /\ u.open = t.open \cup {f} /\ u.item = i /\ u.pool = p
        /\ u.current = t.current /\ u.lost = t.lost
    BY <1>5, <1>6, <1>7 DEF Table
  <1> HIDE DEF u
  <1>9. /\ t.pool[c].client \in Fd
        /\ \A g \in Held(t, c) : g \in t.open \ (t.lost \cup {Listener}) /\ t.item[g].data = c
        /\ Listener \in t.open \ t.lost /\ NoFd \notin Fd /\ t.lost \subseteq t.open
    BY <1>1, LifecycleAssumption DEF Consistent, Owned, Watches, Fd, NoFd
  <1>10. UsedBy(u) = UsedBy(t)
    BY <1>1, <1>2, <1>6, <1>8 DEF UsedBy
  <1>11. Held(u, c) = Held(t, c) \cup {f}
    BY <1>2, <1>6, <1>8, <1>9 DEF Held
  <1>12. \A d \in UsedBy(t) \ {c} : u.pool[d] = t.pool[d] /\ Held(u, d) = Held(t, d)
    BY <1>6, <1>8 DEF UsedBy, Held
  <1>13. \A g \in t.open : u.item[g] = t.item[g]
    BY <1>5, <1>7, <1>8
  <1>a. Strays(u) = Strays(t) /\ \A g \in Strays(t) : g \in t.open /\ u.item[g] = t.item[g]
    BY <1>8, <1>9, <1>13 DEF Strays
  <1>14. Watches(u)
    <2>1. \A g \in Fd : u.item[g].used => g \in u.open
      BY <1>3, <1>5, <1>8 DEF Consistent, Watches
    <2>2. \A g \in Fd : ~u.item[g].used => u.item[g] = FreeItem
      BY <1>3, <1>5, <1>8 DEF Consistent, Watches
    <2>3. \A g \in u.open \ u.lost : u.item[g].used
      BY <1>3, <1>5, <1>8, <1>13 DEF Consistent, Watches
    <2> QED
      BY <1>8, <1>9, <1>13, <2>1, <2>2, <2>3 DEF Consistent, Watches
  <1>15. Owned(u)
    <2>1. ASSUME NEW g \in u.open \ (u.lost \cup {Listener})
          PROVE  u.item[g].data \in UsedBy(u) /\ g \in Held(u, u.item[g].data)
      <3>1. CASE g = f
        BY <1>3, <1>5, <1>8, <1>10, <1>11, <3>1
      <3>2. CASE g # f
        <4>1. g \in t.open \ (t.lost \cup {Listener}) /\ u.item[g] = t.item[g]
          BY <1>8, <1>13, <3>2
        <4>2. t.item[g].data \in UsedBy(t) /\ g \in Held(t, t.item[g].data)
          BY <4>1 DEF Consistent, Owned
        <4> QED
          BY <1>10, <1>11, <1>12, <4>1, <4>2
      <3> QED
        BY <3>1, <3>2
    <2>2. ASSUME NEW d \in UsedBy(u)
          PROVE  /\ u.pool[d].client \in Fd /\ u.pool[d].client # u.pool[d].remote
                 /\ \A g \in Held(u, d) : /\ g \in u.open \ (u.lost \cup {Listener})
                                          /\ u.item[g].data = d
      <3>1. CASE d = c
        <4>1. t.pool[c].client \in Held(t, c)
          BY <1>9 DEF Held
        <4>2. u.pool[c].client \in Fd /\ u.pool[c].client # u.pool[c].remote
          BY <1>2, <1>6, <1>8, <1>9, <4>1
        <4>3. f \in u.open \ (u.lost \cup {Listener}) /\ u.item[f].data = c
          BY <1>3, <1>5, <1>8, <1>9
        <4> QED
          BY <1>8, <1>9, <1>11, <1>13, <3>1, <4>2, <4>3
      <3>2. CASE d # c
        <4>1. d \in UsedBy(t) \ {c}
          BY <1>10, <3>2
        <4>2. /\ t.pool[d].client \in Fd /\ t.pool[d].client # t.pool[d].remote
              /\ \A g \in Held(t, d) : /\ g \in t.open \ (t.lost \cup {Listener})
                                       /\ t.item[g].data = d
          BY <4>1 DEF Consistent, Owned
        <4> QED
          BY <1>8, <1>12, <1>13, <4>1, <4>2
      <3> QED
        BY <3>1, <3>2
    <2>3. \A g \in Strays(u) : u.item[g].data \in DOMAIN u.pool
      BY <1>6, <1>8, <1>a DEF Consistent, Owned
    <2> QED
      BY <2>1, <2>2, <2>3 DEF Owned
  <1>b. Clean(u)
    <2>1. ASSUME NEW d \in DOMAIN u.pool, ~u.pool[d].inUse PROVE Unused(u, d)
      <3>1. d # c /\ u.pool[d] = t.pool[d] /\ Unused(t, d)
        BY <1>2, <1>6, <1>8, <2>1 DEF Consistent, Clean
      <3> QED
        BY <1>a, <3>1 DEF Unused
    <2> QED
      BY <2>1 DEF Clean
  <1>16. Counted(u)
    BY <1>8, <1>10 DEF Consistent, Counted
  <1>17. Serves(t, u, c)
    <2>1. ASSUME NEW d \in UsedBy(t) \ {c}, NEW g \in Held(t, d) PROVE u.item[g] = t.item[g]
      BY <1>13 DEF Consistent, Owned
    <2>2. \A g \in Strays(t) : u.item[g].used /\ u.item[g].data = t.item[g].data
      BY <1>a DEF Strays
    <2> QED
      BY <1>2, <1>6, <1>8, <1>10, <2>1, <2>2 DEF Serves
  <1> QED
    BY <1>2, <1>4, <1>6, <1>8, <1>10, <1>14, <1>15, <1>b, <1>16, <1>17 DEF Consistent

(* A descriptor that nobody had is left behind, with the entry it was given*)
(* or without.                                                             *)
Losing(t, f, i) == [open |-> t.open \cup {f}, item |-> i, pool |-> t.pool,
                    current |-> t.current, lost |-> t.lost \cup {f}]

(* A socket lost by a connection. *)
LEMMA ConsistentLosing ==
    ASSUME NEW t, Consistent(t), NEW c \in UsedBy(t), NEW f \in Fd \ t.open,
           NEW i \in [Fd -> Item], \A g \in Fd \ {f} : i[g] = t.item[g],
           i[f].used => i[f].data = c, ~i[f].used => i[f] = FreeItem
    PROVE  LET u == Losing(t, f, i) IN
           Consistent(u) /\ UsedBy(u) = UsedBy(t) /\ Serves(t, u, c)
  <1> DEFINE u == Losing(t, f, i)
  <1>1. t \in Table /\ c \in DOMAIN t.pool
    BY DEF Consistent, UsedBy
  <1>2. /\ t.open \subseteq Fd /\ t.lost \subseteq t.open /\ Listener \in t.open \ t.lost
        /\ f \notin t.lost /\ f # Listener
    BY <1>1 DEF Consistent, Watches, Table
  <1>3. /\ u \in Table /\ u.open = t.open \cup {f} /\ u.item = i /\ u.pool = t.pool
        /\ u.current = t.current /\ u.lost = t.lost \cup {f}
    BY <1>1, <1>2 DEF Table, Losing
  <1> HIDE DEF u
  <1>4. UsedBy(u) = UsedBy(t) /\ \A d : Held(u, d) = Held(t, d)
    BY <1>3 DEF UsedBy, Held
  <1>5. \A g \in t.open : g # f /\ u.item[g] = t.item[g]
    BY <1>2, <1>3
  <1>6. u.open \ (u.lost \cup {Listener}) = t.open \ (t.lost \cup {Listener})
    BY <1>3
  <1>7. /\ Strays(t) \subseteq Strays(u) /\ Strays(t) \subseteq t.open
        /\ \A g \in Strays(u) : g \in Strays(t) \/ u.item[g].data = c
    BY <1>2, <1>3, <1>5 DEF Strays
  <1>8. Watches(u)
    <2>1. \A g \in Fd : u.item[g].used => g \in u.open
      BY <1>3 DEF Consistent, Watches
    <2>2. \A g \in Fd : ~u.item[g].used => u.item[g] = FreeItem
      BY <1>3 DEF Consistent, Watches
    <2>3. \A g \in u.open \ u.lost : u.item[g].used
      BY <1>3, <1>5 DEF Consistent, Watches
    <2>4. u.lost \subseteq u.open /\ Listener \in u.open \ u.lost
      BY <1>2, <1>3
    <2>5. u.item[Listener] = t.item[Listener]
      BY <1>2, <1>5
    <2> QED
      BY <2>1, <2>2, <2>3, <2>4, <2>5 DEF Consistent, Watches
  <1>9. Owned(u)
    <2>1. \A g \in u.open \ (u.lost \cup {Listener}) :
             u.item[g].data \in UsedBy(u) /\ g \in Held(u, u.item[g].data)
      BY <1>4, <1>5, <1>6 DEF Consistent, Owned
    <2>2. \A g \in Strays(u) : u.item[g].data \in DOMAIN u.pool
      <3> SUFFICES ASSUME NEW g \in Strays(u) PROVE u.item[g].data \in DOMAIN u.pool
        OBVIOUS
      <3>1. CASE g \in Strays(t)
        BY <1>3, <1>5, <1>7, <3>1 DEF Consistent, Owned
      <3> QED
        BY <1>1, <1>3, <1>7, <3>1
    <2>3. ASSUME NEW d \in UsedBy(u)
          PROVE  /\ u.pool[d].client \in Fd /\ u.pool[d].client # u.pool[d].remote
                 /\ \A g \in Held(u, d) : /\ g \in u.open \ (u.lost \cup {Listener})
                                          /\ u.item[g].data = d
      BY <1>3, <1>4, <1>5, <1>6 DEF Consistent, Owned
    <2> QED
      BY <2>1, <2>2, <2>3 DEF Owned
  <1>10. Clean(u)
    <2>1. ASSUME NEW d \in DOMAIN u.pool, ~u.pool[d].inUse PROVE Unused(u, d)
      <3>1. u.pool[d] = t.pool[d] /\ Unused(t, d)
        BY <1>3, <2>1 DEF Consistent, Clean
      <3> QED
        BY <1>5, <1>7, <3>1 DEF Unused
    <2> QED
      BY <2>1 DEF Clean
  <1>11. Counted(u)
    BY <1>3, <1>4 DEF Consistent, Counted
  <1>12. Serves(t, u, c)
    <2>1. ASSUME NEW d \in UsedBy(t) \ {c}, NEW g \in Held(t, d) PROVE u.item[g] = t.item[g]
      BY <1>5 DEF Consistent, Owned
    <2>2. \A g \in Strays(t) : u.item[g].used /\ u.item[g].data = t.item[g].data
      BY <1>5, <1>7 DEF Strays
    <2> QED
      BY <1>3, <1>4, <2>1, <2>2 DEF Serves
  <1> QED
    BY <1>3, <1>4, <1>8, <1>9, <1>10, <1>11, <1>12 DEF Consistent, u

(* What Establish makes of tables without a remote for c, as records.      *)
LEMMA EstablishForms ==
    ASSUME NEW v \in Table, NEW c \in DOMAIN v.pool, NEW f \in Fd
    PROVE  LET new == [used |-> TRUE, data |-> c, ops |-> Op] IN
           /\ [Registered(v, c, f) EXCEPT !.pool[c].remote = f] = Opening(v, c, f)
           /\ [Registered(v, c, f) EXCEPT !.lost = @ \cup {f}]
                 = Losing(v, f, [v.item EXCEPT ![f] = new])
           /\ [v EXCEPT !.open = @ \cup {f}, !.lost = @ \cup {f}] = Losing(v, f, v.item)
  <1> DEFINE new == [used |-> TRUE, data |-> c, ops |-> Op]
             All(o, i, p, l) == [open |-> o, item |-> i, pool |-> p, current |-> v.current,
                                 lost |-> l]
             oo == v.open \cup {f}
             ii == [v.item EXCEPT ![f] = new]
             ll == v.lost \cup {f}
             x == [v.pool[c] EXCEPT !.remote = f]
             pp == [v.pool EXCEPT ![c] = x]
  <1>1. v = All(v.open, v.item, v.pool, v.lost)
    BY DEF Table
  <1>2. Registered(v, c, f) = All(oo, ii, v.pool, v.lost)
    <2>1. Registered(v, c, f) = [v EXCEPT !.open = oo, !.item = ii]
      BY DEF Registered
    <2> HIDE DEF oo, ii
    <2>2. [v EXCEPT !.open = oo, !.item = ii] = Rewritten(v, oo, ii, v.pool, v.lost)
      BY <1>1 DEF Rewritten
    <2> QED
      BY <2>1, <2>2, RewrittenTable
  <1>3. Opening(v, c, f) = All(oo, ii, pp, v.lost)
    BY DEF Opening
  <1>4. /\ Losing(v, f, ii) = All(oo, ii, v.pool, ll)
        /\ Losing(v, f, v.item) = All(oo, v.item, v.pool, ll)
    BY DEF Losing
  <1> HIDE DEF new
  <1>5. [Registered(v, c, f) EXCEPT !.pool[c].remote = f] = All(oo, ii, pp, v.lost)
    <2>1. [All(oo, ii, v.pool, v.lost) EXCEPT !.pool[c].remote = f] = All(oo, ii, pp, v.lost)
      OBVIOUS
    <2> QED
      BY <1>2, <2>1
  <1>6. [Registered(v, c, f) EXCEPT !.lost = @ \cup {f}] = All(oo, ii, v.pool, ll)
    <2>1. [All(oo, ii, v.pool, v.lost) EXCEPT !.lost = @ \cup {f}] = All(oo, ii, v.pool, ll)
      OBVIOUS
    <2> QED
      BY <1>2, <2>1
  <1>7. [v EXCEPT !.open = @ \cup {f}, !.lost = @ \cup {f}] = All(oo, v.item, v.pool, ll)
    <2>1. [v EXCEPT !.open = @ \cup {f}, !.lost = @ \cup {f}] = [v EXCEPT !.open = oo, !.lost = ll]
      OBVIOUS
    <2> HIDE DEF oo, ll
    <2>2. [v EXCEPT !.open = oo, !.lost = ll] = Rewritten(v, oo, v.item, v.pool, ll)
      BY <1>1 DEF Rewritten
    <2> QED
      BY <2>1, <2>2, RewrittenTable
  <1> QED
    BY <1>3, <1>4, <1>5, <1>6, <1>7 DEF new

(* An entry that the selector has for connection c: it leads to a handler. *)
Keyed(t, c, f) == f \in Fd /\ t.item[f].used /\ t.item[f].data = c

(* EstablishConnectionInit: the connection ends up with a new remote, or   *)
(* without one, and a socket may be lost.                                  *)
LEMMA ConsistentEstablish ==
    ASSUME NEW t, Consistent(t), NEW c \in UsedBy(t), c \in Index, NEW key, Keyed(t, c, key),
           NEW u \in Establish(t, c, key)
    PROVE  /\ Consistent(u) /\ UsedBy(u) = UsedBy(t) /\ Serves(t, u, c)
           /\ u.pool[c].phase = "connect" /\ u.pool[c].takes = Op
  <1> DEFINE v == Between(t, c)
             f == Lowest(Fd \ v.open)
             new == [used |-> TRUE, data |-> c, ops |-> Op]
             room == f # NoFd /\ f < FdSetSize
             a == Losing(v, f, [v.item EXCEPT ![f] = new])
             b == Losing(v, f, v.item)
  <1>1. t \in Table /\ c \in DOMAIN t.pool
    BY DEF Consistent, UsedBy
  <1>2. /\ Consistent(v) /\ UsedBy(v) = UsedBy(t) /\ Serves(t, v, c)
        /\ v.pool[c].remote = NoFd /\ v.pool[c].phase = "connect" /\ v.pool[c].takes = Op
        /\ \A g \in Fd : v.item[g].used => v.item[g] = t.item[g]
    BY ConsistentBetween
  <1>3. Leaves(t, c) = v
    BY <1>1, LeavesBetween
  <1> HIDE DEF v
  <1>4. v \in Table /\ c \in DOMAIN v.pool /\ v.item \in [Fd -> Item] /\ v.open \subseteq Fd
    BY <1>1, <1>2 DEF Consistent, Serves, Table
  <1>5. f = NoFd \/ f \in Fd \ v.open
    <2>1. Fd \ v.open \subseteq Nat
      BY LifecycleAssumption DEF Fd
    <2> QED
      BY <2>1, LowestIsLeast
  <1>6. new \in Item /\ new.used /\ new.data = c
    BY LifecycleAssumption DEF Item, Index
  <1> HIDE DEF new
  <1>7. \/ room /\ u = [Registered(v, c, f) EXCEPT !.pool[c].remote = f]
        \/ room /\ u = Interest([Registered(v, c, f) EXCEPT !.lost = @ \cup {f}], key, Op)
        \/ u = Interest(v, key, Op)
        \/ f # NoFd /\ u = Interest([v EXCEPT !.open = @ \cup {f}, !.lost = @ \cup {f}], key, Op)
    BY <1>3 DEF Establish
  <1>8. f # NoFd => /\ [Registered(v, c, f) EXCEPT !.pool[c].remote = f] = Opening(v, c, f)
                    /\ [Registered(v, c, f) EXCEPT !.lost = @ \cup {f}] = a
                    /\ [v EXCEPT !.open = @ \cup {f}, !.lost = @ \cup {f}] = b
    BY <1>4, <1>5, EstablishForms DEF new
  <1>9. \/ f # NoFd /\ u = Opening(v, c, f)
        \/ f # NoFd /\ u = Interest(a, key, Op)
        \/ u = Interest(v, key, Op)
        \/ f # NoFd /\ u = Interest(b, key, Op)
    BY <1>7, <1>8
  <1>10. ASSUME NEW w \in {v, a, b}, f # NoFd \/ w = v
         PROVE  /\ Consistent(w) /\ UsedBy(w) = UsedBy(t) /\ Serves(t, w, c)
                /\ w.pool[c] = v.pool[c]
                /\ \A g \in Fd : w.item[g].used => w.item[g].data = c \/ w.item[g] = t.item[g]
    <2>1. CASE w = v
      BY <1>2, <2>1
    <2>2. ASSUME NEW i \in {v.item, [v.item EXCEPT ![f] = new]}, w = Losing(v, f, i), f # NoFd
          PROVE  /\ Consistent(w) /\ UsedBy(w) = UsedBy(t) /\ Serves(t, w, c)
                 /\ w.pool[c] = v.pool[c]
                 /\ \A g \in Fd : w.item[g].used => w.item[g].data = c \/ w.item[g] = t.item[g]
      <3>1. f \in Fd \ v.open
        BY <1>5, <2>2
      <3>2. ~v.item[f].used /\ v.item[f] = FreeItem
        BY <1>2, <3>1 DEF Consistent, Watches
      <3>3. /\ i \in [Fd -> Item] /\ \A g \in Fd \ {f} : i[g] = v.item[g]
            /\ i[f].used => i[f].data = c
            /\ ~i[f].used => i[f] = FreeItem
        BY <1>4, <1>6, <3>1, <3>2
      <3> HIDE DEF f
      <3>4. Consistent(w) /\ UsedBy(w) = UsedBy(v) /\ Serves(v, w, c)
        BY <1>2, <2>2, <3>1, <3>3, ConsistentLosing
      <3>5. Serves(t, w, c)
        BY <1>2, <3>4, ServesTwice
      <3>6. w.pool = v.pool /\ w.item = i
        BY <2>2 DEF Losing
      <3> QED
        BY <1>2, <3>3, <3>4, <3>5, <3>6
    <2> QED
      BY <1>10, <2>1, <2>2
  <1>11. ASSUME NEW w \in {v, a, b}, f # NoFd \/ w = v, u = Interest(w, key, Op)
         PROVE  /\ Consistent(u) /\ UsedBy(u) = UsedBy(t) /\ Serves(t, u, c)
                /\ u.pool[c].phase = "connect" /\ u.pool[c].takes = Op
    <2> HIDE DEF a, b
    <2>1. /\ Consistent(w) /\ UsedBy(w) = UsedBy(t) /\ Serves(t, w, c)
          /\ w.pool[c] = v.pool[c]
          /\ \A g \in Fd : w.item[g].used => w.item[g].data = c \/ w.item[g] = t.item[g]
      BY <1>10, <1>11
    <2>2. key \in Fd /\ w.item[key].used => w.item[key].data = c
      BY <2>1 DEF Keyed
    <2>3. Consistent(u) /\ u.pool = w.pool /\ UsedBy(u) = UsedBy(w) /\ Serves(w, u, c)
      BY <1>11, <2>1, <2>2, ConsistentInterest
    <2>4. Serves(t, u, c)
      BY <2>1, <2>3, ServesTwice
    <2> QED
      BY <1>2, <2>1, <2>3, <2>4
  <1>12. ASSUME f # NoFd, u = Opening(v, c, f)
         PROVE  /\ Consistent(u) /\ UsedBy(u) = UsedBy(t) /\ Serves(t, u, c)
                /\ u.pool[c].phase = "connect" /\ u.pool[c].takes = Op
    <2>1. f \in Fd \ v.open
      BY <1>5, <1>12
    <2> HIDE DEF f
    <2>2. /\ Consistent(u) /\ UsedBy(u) = UsedBy(v) /\ Serves(v, u, c)
          /\ u.pool[c].phase = v.pool[c].phase /\ u.pool[c].takes = v.pool[c].takes
      BY <1>2, <1>12, <2>1, ConsistentOpening
    <2>3. Serves(t, u, c)
      BY <1>2, <2>2, ServesTwice
    <2> QED
      BY <1>2, <2>2, <2>3
  <1> QED
    BY <1>9, <1>11, <1>12

-------------------------------------------------------------------------------
(* DisposeSocks5Connection, of any connections in use.                     *)
LEMMA SoundDispose ==
    ASSUME NEW t, Sound(t), NEW C, C \subseteq UsedBy(t)
    PROVE  LET u == Dispose(t, C) IN
           /\ Sound(u) /\ UsedBy(u) = UsedBy(t) \ C
           /\ u.open \subseteq t.open
           /\ DOMAIN u.pool = DOMAIN t.pool /\ Len(u.pool) = Len(t.pool)
           /\ \A d \in DOMAIN t.pool \ C : u.pool[d] = t.pool[d]
           /\ \A d \in C : u.pool[d] = Zeroed
           /\ \A d \in UsedBy(u) : \A f \in Held(t, d) : u.item[f] = t.item[f]
           /\ u.lost = t.lost /\ Strays(u) = Strays(t)
           /\ \A f \in Strays(t) : u.item[f] = t.item[f]
  <1> DEFINE fds == UNION {{t.pool[c].client, t.pool[c].remote} : c \in C}
             i == [f \in Fd |-> IF f \in fds THEN FreeItem ELSE t.item[f]]
             p == [c \in DOMAIN t.pool |-> IF c \in C THEN Zeroed ELSE t.pool[c]]
             n == t.current - Cardinality(C)
             u == Dispose(t, C)
  <1>1. /\ t \in Table /\ t.pool \in Seq(Connection)
        /\ t.open \subseteq Fd /\ t.item \in [Fd -> Item]
        /\ t.lost \subseteq t.open
    BY DEF Sound, Consistent, Table, Watches
  <1>2. \A f : f \in fds <=> \E c \in C : f = t.pool[c].client \/ f = t.pool[c].remote
    OBVIOUS
  <1> HIDE DEF fds
  <1>3. u = [open |-> t.open \ fds, item |-> i, pool |-> p, current |-> n, lost |-> t.lost]
    BY DEF Dispose, fds
  <1>4. i \in [Fd -> Item] /\ \A f \in Fd : i[f] = IF f \in fds THEN FreeItem ELSE t.item[f]
    BY <1>1, RecordTypes
  <1>5. /\ p \in Seq(Connection) /\ Len(p) = Len(t.pool) /\ DOMAIN p = DOMAIN t.pool
        /\ \A d \in DOMAIN t.pool : p[d] = IF d \in C THEN Zeroed ELSE t.pool[d]
    <2>1. DOMAIN t.pool = 1..Len(t.pool) /\ Len(t.pool) \in Nat
          /\ \A d \in 1..Len(t.pool) : t.pool[d] \in Connection
      BY <1>1, ElementOfSeq
    <2>2. p \in [1..Len(t.pool) -> Connection]
      BY <2>1, RecordTypes
    <2> HIDE DEF p
    <2>3. p \in Seq(Connection) /\ Len(p) = Len(t.pool)
      BY <2>1, <2>2
    <2> QED
      BY <2>1, <2>2, <2>3 DEF p
  <1>6. Cardinality(UsedBy(t) \ C) = n /\ n \in Nat
    <2>1. IsFiniteSet(UsedBy(t)) /\ t.current = Cardinality(UsedBy(t))
      BY <1>1, UsedByFinite DEF Sound, Consistent, Counted
    <2>2. IsFiniteSet(C)
      BY <2>1, FS_Subset
    <2>3. /\ IsFiniteSet(UsedBy(t) \ C)
          /\ Cardinality(UsedBy(t) \ C)
                = Cardinality(UsedBy(t)) - Cardinality(UsedBy(t) \cap C)
      BY <2>1, FS_Difference
    <2>4. UsedBy(t) \cap C = C
      OBVIOUS
    <2>5. Cardinality(UsedBy(t) \ C) \in Nat
      BY <2>3, FS_CardinalityType
    <2> QED
      BY <2>1, <2>3, <2>4, <2>5
  <1> HIDE DEF i, p, n, u
  <1>7. /\ u \in Table
        /\ u.open = t.open \ fds /\ u.item = i /\ u.pool = p /\ u.current = n
        /\ u.lost = t.lost
    <2>1. t.open \ fds \subseteq Fd /\ t.lost \subseteq Fd
      BY <1>1
    <2> QED
      BY <1>3, <1>4, <1>5, <1>6, <2>1 DEF Table
  <1>8. UsedBy(u) = UsedBy(t) \ C
    BY <1>5, <1>7 DEF UsedBy, Zeroed
  <1>9. \A d \in UsedBy(u) : u.pool[d] = t.pool[d] /\ Held(u, d) = Held(t, d)
    BY <1>5, <1>7, <1>8 DEF UsedBy, Held
  <1>10. /\ Listener \notin fds /\ Listener \in t.open \ t.lost
         /\ \A f \in fds : f \notin t.lost
    <2>1. ASSUME NEW f \in fds PROVE f # Listener /\ f \notin t.lost
      <3>1. PICK c \in C : f = t.pool[c].client \/ f = t.pool[c].remote
        BY <1>2
      <3>2. f = NoFd \/ f \in Held(t, c)
        BY <3>1 DEF Held
      <3>3. NoFd \notin Fd /\ Listener \in Fd
        BY LifecycleAssumption DEF Fd, NoFd, Listener
      <3> QED
        BY <1>1, <3>2, <3>3 DEF Sound, Consistent, Owned
    <2> QED
      BY <2>1 DEF Sound, Consistent, Watches
  <1>11. ASSUME NEW f \in t.open \ (t.lost \cup {Listener}), f \in fds PROVE t.item[f].data \in C
    <2>1. PICK c \in C : f = t.pool[c].client \/ f = t.pool[c].remote
      BY <1>2, <1>11
    <2>2. f \in Held(t, c)
      BY <1>1, <2>1, LifecycleAssumption DEF Held, Fd, NoFd
    <2> QED
      BY <2>2 DEF Sound, Consistent, Owned
  <1>12. ASSUME NEW d \in UsedBy(u), NEW f \in Held(t, d)
         PROVE  f \in t.open \ (t.lost \cup {Listener}) /\ f \notin fds /\ t.item[f].data = d
    <2>1. f \in t.open \ (t.lost \cup {Listener}) /\ t.item[f].data = d /\ d \notin C
      BY <1>8 DEF Sound, Consistent, Owned
    <2> QED
      BY <1>11, <2>1
  <1>13. FreeItem.used = FALSE
    BY DEF FreeItem
  <1>a. /\ \A f \in Fd : u.item[f].used => f \notin fds /\ u.item[f] = t.item[f]
        /\ \A f \in Fd \ fds : u.item[f] = t.item[f]
    BY <1>4, <1>7, <1>13
  <1>b. Strays(u) = Strays(t) /\ \A f \in Strays(t) : u.item[f] = t.item[f]
    BY <1>1, <1>7, <1>10, <1>a DEF Strays
  <1>14. Watches(u)
    <2>1. \A f \in Fd : u.item[f].used => f \in u.open
      BY <1>7, <1>a DEF Sound, Consistent, Watches
    <2>2. \A f \in Fd : ~u.item[f].used => u.item[f] = FreeItem
      BY <1>4, <1>7 DEF Sound, Consistent, Watches
    <2>3. Listener \in u.open \ u.lost /\ u.item[Listener] = t.item[Listener]
      BY <1>1, <1>4, <1>7, <1>10
    <2>4. \A f \in u.open \ u.lost : u.item[f].used
      BY <1>1, <1>7, <1>a DEF Sound, Consistent, Watches
    <2>5. u.lost \subseteq u.open
      BY <1>1, <1>7, <1>10
    <2> QED
      BY <2>1, <2>2, <2>3, <2>4, <2>5 DEF Sound, Consistent, Watches
  <1>15. Owned(u)
    <2>1. ASSUME NEW f \in u.open \ (u.lost \cup {Listener})
          PROVE  u.item[f].data \in UsedBy(u) /\ f \in Held(u, u.item[f].data)
      <3>1. f \in t.open \ (t.lost \cup {Listener}) /\ f \notin fds /\ u.item[f] = t.item[f]
        BY <1>1, <1>4, <1>7
      <3>2. t.item[f].data \in UsedBy(t) /\ f \in Held(t, t.item[f].data)
        BY <3>1 DEF Sound, Consistent, Owned
      <3>3. t.item[f].data \notin C
        BY <1>2, <3>1, <3>2 DEF Held
      <3> QED
        BY <1>8, <1>9, <3>1, <3>2, <3>3
    <2>2. ASSUME NEW d \in UsedBy(u)
          PROVE  /\ u.pool[d].client \in Fd /\ u.pool[d].client # u.pool[d].remote
                 /\ \A f \in Held(u, d) : f \in u.open \ (u.lost \cup {Listener}) /\ u.item[f].data = d
      <3>1. d \in UsedBy(t)
        BY <1>8
      <3>2. t.pool[d].client \in Fd /\ t.pool[d].client # t.pool[d].remote
        BY <3>1 DEF Sound, Consistent, Owned
      <3>3. \A f \in Held(u, d) : f \in u.open \ (u.lost \cup {Listener}) /\ u.item[f].data = d
        BY <1>1, <1>4, <1>7, <1>9, <1>12
      <3> QED
        BY <1>9, <3>2, <3>3
    <2>3. \A f \in Strays(u) : u.item[f].data \in DOMAIN u.pool
      BY <1>5, <1>7, <1>b DEF Sound, Consistent, Owned
    <2> QED
      BY <2>1, <2>2, <2>3 DEF Owned
  <1>c. Clean(u)
    <2>1. ASSUME NEW d \in DOMAIN u.pool, ~u.pool[d].inUse PROVE Unused(u, d)
      <3>1. CASE d \in C
        <4>1. u.pool[d] = Zeroed
          BY <1>5, <1>7, <2>1, <3>1
        <4>2. Zeroed.age = Never /\ Zeroed = [Zeroed EXCEPT !.age = Zeroed.age]
          BY DEF Zeroed
        <4> QED
          BY <4>1, <4>2 DEF Unused
      <3>2. CASE d \notin C
        <4>1. u.pool[d] = t.pool[d] /\ Unused(t, d)
          BY <1>5, <1>7, <2>1, <3>2 DEF Sound, Consistent, Clean
        <4> QED
          BY <1>b, <4>1 DEF Unused
      <3> QED
        BY <3>1, <3>2
    <2> QED
      BY <2>1 DEF Clean
  <1>16. Counted(u)
    BY <1>6, <1>7, <1>8 DEF Counted
  <1>17. \A d \in UsedBy(u) : \A f \in Held(t, d) : u.item[f] = t.item[f]
    BY <1>1, <1>4, <1>7, <1>12
  <1>18. Waiting(u)
    <2> SUFFICES ASSUME NEW d \in UsedBy(u) PROVE Waits(u, d)
      BY DEF Waiting
    <2>1. d \in UsedBy(t) /\ u.pool[d] = t.pool[d]
      BY <1>8, <1>9
    <2>2. Waits(t, d)
      BY <2>1 DEF Sound, Waiting
    <2> QED
      BY <1>9, <1>17, <1>b, <2>1, <2>2 DEF Waits
  <1> QED
    BY <1>1, <1>5, <1>7, <1>8, <1>14, <1>15, <1>c, <1>16, <1>17, <1>18, <1>b
       DEF Sound, Consistent, u, UsedBy

(* Disposing of a connection leaves the others alone. *)
LEMMA ServesDispose ==
    ASSUME NEW t, Sound(t), NEW c \in UsedBy(t)
    PROVE  Sound(Dispose(t, {c})) /\ Serves(t, Dispose(t, {c}), c)
  <1> DEFINE u == Dispose(t, {c})
  <1>1. /\ Sound(u) /\ UsedBy(u) = UsedBy(t) \ {c}
        /\ DOMAIN u.pool = DOMAIN t.pool
        /\ \A d \in DOMAIN t.pool \ {c} : u.pool[d] = t.pool[d]
        /\ \A d \in UsedBy(u) : \A f \in Held(t, d) : u.item[f] = t.item[f]
        /\ u.pool[c] = Zeroed /\ u.lost = t.lost
        /\ \A f \in Strays(t) : u.item[f] = t.item[f]
    BY SoundDispose
  <1> HIDE DEF u
  <1>2. Serves(t, u, c)
    <2>1. Zeroed.age = Never
      BY DEF Zeroed
    <2> QED
      BY <1>1, <2>1 DEF Serves, Strays
  <1> QED
    BY <1>1, <1>2 DEF u

-------------------------------------------------------------------------------
(* The handlers of a connection, one lemma for each state of fsm.c.        *)

(* What a connection holds is open, and the client is part of it. *)
LEMMA HeldFacts ==
    ASSUME NEW t, Consistent(t), NEW c \in UsedBy(t)
    PROVE  /\ t \in Table /\ c \in DOMAIN t.pool /\ t.pool[c] \in Connection /\ t.pool[c].inUse
           /\ t.pool[c].client \in Held(t, c)
           /\ \A f \in Held(t, c) : f \in Fd /\ f \in t.open /\ f # Listener /\ f \notin t.lost
           /\ \A f \in Held(t, c) : Keyed(t, c, f)
           /\ \A f : Keyed(t, c, f) => f \in Held(t, c) \/ f \in Strays(t)
           /\ t.pool[c].remote = NoFd \/ t.pool[c].remote \in Held(t, c)
           /\ NoFd \notin Fd
  <1>1. t \in Table /\ c \in DOMAIN t.pool /\ t.pool[c].inUse
    BY DEF Consistent, UsedBy
  <1>2. t.pool[c] \in Connection
    BY <1>1, ElementOfSeq DEF Table
  <1>3. t.open \subseteq Fd /\ NoFd \notin Fd
    BY <1>1, LifecycleAssumption DEF Table, Fd, NoFd
  <1>4. /\ t.pool[c].client \in Fd
        /\ \A f \in Held(t, c) : f \in t.open \ (t.lost \cup {Listener}) /\ t.item[f].data = c
    BY DEF Consistent, Owned
  <1>5. \A f \in Held(t, c) : Keyed(t, c, f)
    BY <1>3, <1>4 DEF Consistent, Watches, Keyed
  <1>6. ASSUME NEW f, Keyed(t, c, f), f \notin Strays(t) PROVE f \in Held(t, c)
    <2>1. f \in Fd /\ t.item[f].used /\ t.item[f].data = c /\ f \in t.open /\ f \notin t.lost
      BY <1>6 DEF Keyed, Strays, Consistent, Watches
    <2>2. f # Listener
      BY <1>1, <2>1, EntriesApart
    <2> QED
      BY <2>1, <2>2 DEF Consistent, Owned
  <1> QED
    BY <1>1, <1>2, <1>3, <1>4, <1>5, <1>6 DEF Held

(* The interest of an entry is set that the connection may have.           *)
LEMMA KeyedInterest ==
    ASSUME NEW t, Consistent(t), NEW c \in UsedBy(t), NEW f, Keyed(t, c, f) \/ f = NoFd,
           NEW ops \in SUBSET Op
    PROVE  LET u == Interest(t, f, ops) IN
           /\ Consistent(u) /\ u.pool = t.pool /\ UsedBy(u) = UsedBy(t) /\ Serves(t, u, c)
           /\ \A g : Keyed(u, c, g) <=> Keyed(t, c, g)
           /\ \A g \in Fd \ {f} : u.item[g] = t.item[g]
           /\ f # NoFd => u.item[f].ops = ops
           /\ Strays(u) = Strays(t)
  <1>1. NoFd \notin Fd
    BY HeldFacts
  <1>2. f \in Fd /\ t.item[f].used => t.item[f].data = c
    BY <1>1 DEF Keyed
  <1> QED
    BY <1>1, <1>2, ConsistentInterest DEF Keyed

(* Another state, for a connection that keeps its descriptors.             *)
LEMMA ConsistentState ==
    ASSUME NEW t, Consistent(t), NEW c \in UsedBy(t),
           NEW ph \in {"talk", "dns", "connect", "up"}, NEW s \in SUBSET Op
    PROVE  LET u == InState(t, c, ph, s) IN
           /\ Consistent(u) /\ UsedBy(u) = UsedBy(t) /\ Serves(t, u, c)
           /\ u.item = t.item /\ u.lost = t.lost
           /\ u.pool[c].phase = ph /\ u.pool[c].takes = s
           /\ u.pool[c].remote = t.pool[c].remote /\ u.pool[c].client = t.pool[c].client
  <1> DEFINE x == Posed(t.pool[c], ph, s)
             u == [t EXCEPT !.pool[c] = x]
  <1>1. t \in Table /\ c \in DOMAIN t.pool /\ t.pool[c] \in Connection /\ t.pool[c].inUse
    BY HeldFacts
  <1>2. /\ x \in Connection /\ InState(t, c, ph, s) = u
        /\ x.inUse /\ x.client = t.pool[c].client /\ x.remote = t.pool[c].remote
        /\ x.age = t.pool[c].age /\ x.phase = ph /\ x.takes = s
    <2>0. t \in Table /\ c \in DOMAIN t.pool
      BY <1>1
    <2>1. InState(t, c, ph, s) = u
      BY <2>0, StateWrites
    <2>2. /\ x \in Connection /\ (x.inUse <=> t.pool[c].inUse)
          /\ x.client = t.pool[c].client /\ x.remote = t.pool[c].remote
          /\ x.age = t.pool[c].age /\ x.phase = ph /\ x.takes = s
      BY <1>1 DEF Connection, Posed
    <2> QED
      BY <1>1, <2>1, <2>2
  <1> HIDE DEF x
  <1>3. Consistent(u) /\ UsedBy(u) = UsedBy(t) /\ Serves(t, u, c)
    BY <1>2, ConsistentObject
  <1>4. u.item = t.item /\ u.lost = t.lost /\ u.pool[c] = x
    BY <1>1, <1>2, ObjectFields
  <1> QED
    BY <1>2, <1>3, <1>4

(* In its new state the connection waits, if it has a remote only where    *)
(* there may be one, and its entries await what the state takes.           *)
LEMMA SoundState ==
    ASSUME NEW t, Sound(t), NEW c, NEW v, Consistent(v), c \in UsedBy(v), Serves(t, v, c),
           NEW ph \in {"talk", "dns", "connect", "up"}, NEW s \in SUBSET Op,
           ph \in {"talk", "dns"} => v.pool[c].remote = NoFd,
           ph = "dns" => s = {},
           Strays(v) = {} => \A f \in Held(v, c) : v.item[f].ops \subseteq s
    PROVE  LET u == InState(v, c, ph, s) IN
           /\ Sound(u) /\ UsedBy(u) = UsedBy(v) /\ Serves(t, u, c)
           /\ u.item = v.item /\ u.lost = v.lost
           /\ u.pool[c].phase = ph /\ u.pool[c].client = v.pool[c].client
  <1> DEFINE u == InState(v, c, ph, s)
  <1>1. /\ Consistent(u) /\ UsedBy(u) = UsedBy(v) /\ Serves(v, u, c)
        /\ u.item = v.item /\ u.lost = v.lost
        /\ u.pool[c].phase = ph /\ u.pool[c].takes = s
        /\ u.pool[c].remote = v.pool[c].remote /\ u.pool[c].client = v.pool[c].client
    BY ConsistentState
  <1> HIDE DEF u
  <1>2. Waits(u, c)
    BY <1>1 DEF Waits, Strays, Held
  <1>3. Serves(t, u, c)
    BY <1>1, ServesTwice
  <1>4. Sound(u)
    BY <1>1, <1>2, <1>3, WaitingKept
  <1> QED
    BY <1>1, <1>3, <1>4 DEF u

(* The request was read, and the name or address is kept. *)
LEMMA ConsistentNamed ==
    ASSUME NEW t, Consistent(t), NEW c \in UsedBy(t)
    PROVE  LET u == Named(t, c) IN
           /\ Consistent(u) /\ UsedBy(u) = UsedBy(t) /\ Serves(t, u, c)
           /\ u.item = t.item /\ u.lost = t.lost
           /\ u.pool[c].remote = t.pool[c].remote /\ u.pool[c].client = t.pool[c].client
  <1> DEFINE x == [t.pool[c] EXCEPT !.named = TRUE]
             u == [t EXCEPT !.pool[c] = x]
  <1>1. t \in Table /\ c \in DOMAIN t.pool /\ t.pool[c] \in Connection /\ t.pool[c].inUse
    BY HeldFacts
  <1>2. x \in Connection /\ Named(t, c) = u
    BY <1>1, FieldWrites
  <1>3. /\ x.inUse /\ x.client = t.pool[c].client /\ x.remote = t.pool[c].remote
        /\ x.age = t.pool[c].age
    BY <1>1 DEF Connection
  <1> HIDE DEF x
  <1>4. Consistent(u) /\ UsedBy(u) = UsedBy(t) /\ Serves(t, u, c)
    BY <1>2, <1>3, ConsistentObject
  <1>5. u.item = t.item /\ u.lost = t.lost /\ u.pool[c] = x
    BY <1>1, <1>2, ObjectFields
  <1> QED
    BY <1>2, <1>3, <1>4, <1>5

(* A handler that changes nothing. *)
LEMMA ServesItself ==
    ASSUME NEW t, NEW c \in UsedBy(t)
    PROVE  Serves(t, t, c)
  BY DEF Serves, Strays

(* The next attempt, whatever came before. *)
LEMMA SoundEstablish ==
    ASSUME NEW t, Sound(t), NEW c \in UsedBy(t), c \in Index, NEW v, Consistent(v),
           UsedBy(v) = UsedBy(t), Serves(t, v, c), NEW key, Keyed(v, c, key),
           NEW u \in Establish(v, c, key)
    PROVE  Sound(u) /\ UsedBy(u) = UsedBy(t) /\ Serves(t, u, c)
  <1>1. /\ Consistent(u) /\ UsedBy(u) = UsedBy(v) /\ Serves(v, u, c)
        /\ u.pool[c].phase = "connect" /\ u.pool[c].takes = Op
    BY ConsistentEstablish
  <1>2. u.item \in [Fd -> Item] /\ \A f \in Held(u, c) : f \in Fd
    BY <1>1, HeldFacts DEF Table
  <1>3. Waits(u, c)
    BY <1>1, <1>2 DEF Waits, Item
  <1>4. Serves(t, u, c)
    BY <1>1, ServesTwice
  <1>5. Sound(u)
    BY <1>1, <1>3, <1>4, WaitingKept
  <1> QED
    BY <1>1, <1>4, <1>5

(* HELLO, AUTH and REQUEST states. *)
LEMMA SoundGoes ==
    ASSUME NEW t, Sound(t), NEW c \in UsedBy(t), NEW f, Keyed(t, c, f),
           t.pool[c].phase = "talk", NEW u \in Goes(t, c, f)
    PROVE  Sound(u) /\ Serves(t, u, c)
  <1>1. CASE u = t
    BY <1>1, ServesItself
  <1>2. ASSUME NEW e \in Op, u = InState(Interest(t, f, {e}), c, "talk", {e})
        PROVE  Sound(u) /\ Serves(t, u, c)
    <2> DEFINE v == Interest(t, f, {e})
    <2>1. Consistent(t) /\ t.pool[c].remote = NoFd
      BY DEF Sound, Waiting, Waits
    <2>2. f # NoFd
      BY <2>1, HeldFacts DEF Keyed
    <2>3. /\ Consistent(v) /\ v.pool = t.pool /\ UsedBy(v) = UsedBy(t) /\ Serves(t, v, c)
          /\ v.item[f].ops = {e} /\ Strays(v) = Strays(t)
      BY <2>1, <2>2, KeyedInterest
    <2>4. f \in Held(t, c) \/ f \in Strays(t)
      BY <2>1, HeldFacts
    <2> HIDE DEF v
    <2>5. Held(v, c) = Held(t, c) /\ \A g, h \in Held(t, c) : g = h
      BY <2>1, <2>3 DEF Held
    <2>6. Strays(v) = {} => \A g \in Held(v, c) : v.item[g].ops \subseteq {e}
      BY <2>3, <2>4, <2>5
    <2>7. v.pool[c].remote = NoFd /\ c \in UsedBy(v)
      BY <2>1, <2>3
    <2>8. Sound(InState(v, c, "talk", {e})) /\ Serves(t, InState(v, c, "talk", {e}), c)
      BY <2>3, <2>6, <2>7, SoundState
    <2> QED
      BY <1>2, <2>8 DEF v
  <1> QED
    BY <1>1, <1>2 DEF Goes

(* RequestReadRun with an address. *)
LEMMA SoundConnects ==
    ASSUME NEW t, Sound(t), NEW c \in UsedBy(t), c \in Index, NEW f, Keyed(t, c, f),
           NEW u \in Connects(t, c, f)
    PROVE  Sound(u) /\ Serves(t, u, c)
  <1> DEFINE a == Named(t, c)
             b == Interest(a, f, {})
  <1>1. /\ Consistent(a) /\ UsedBy(a) = UsedBy(t) /\ Serves(t, a, c) /\ a.item = t.item
    BY ConsistentNamed DEF Sound
  <1>2. u \in Establish(b, c, f)
    BY DEF Connects
  <1> HIDE DEF a
  <1>3. Keyed(a, c, f)
    BY <1>1 DEF Keyed
  <1>4. /\ Consistent(b) /\ UsedBy(b) = UsedBy(a) /\ Serves(a, b, c) /\ Keyed(b, c, f)
    BY <1>1, <1>3, KeyedInterest
  <1> HIDE DEF b
  <1>5. UsedBy(b) = UsedBy(t) /\ Serves(t, b, c)
    BY <1>1, <1>4, ServesTwice
  <1> QED
    BY <1>2, <1>4, <1>5, SoundEstablish

(* EstablishConnectionRun when there is a reply to write. *)
LEMMA SoundAnswered ==
    ASSUME NEW t, Sound(t), NEW c \in UsedBy(t)
    PROVE  Sound(Answered(t, c)) /\ Serves(t, Answered(t, c), c)
  <1> DEFINE a == Interest(t, t.pool[c].client, {"w"})
             b == Interest(a, t.pool[c].remote, {})
  <1>1. /\ Consistent(t) /\ Keyed(t, c, t.pool[c].client) /\ t.pool[c].client # NoFd
        /\ t.pool[c].remote = NoFd \/ Keyed(t, c, t.pool[c].remote)
        /\ t.pool[c].client \in Fd /\ t.pool[c].client # t.pool[c].remote
    BY HeldFacts DEF Sound, Consistent, Owned
  <1>2. /\ Consistent(a) /\ UsedBy(a) = UsedBy(t) /\ Serves(t, a, c) /\ a.pool = t.pool
        /\ \A g : Keyed(a, c, g) <=> Keyed(t, c, g)
        /\ a.item[t.pool[c].client].ops = {"w"}
    BY <1>1, KeyedInterest DEF Op
  <1> HIDE DEF a
  <1>3. CASE t.pool[c].remote = NoFd
    <2>1. Answered(t, c) = InState(a, c, "talk", {"w"})
      BY <1>3 DEF Answered, a
    <2>2. a.pool[c].remote = NoFd /\ c \in UsedBy(a)
      BY <1>2, <1>3
    <2>3. \A f \in Held(a, c) : a.item[f].ops \subseteq {"w"}
      BY <1>2, <1>3 DEF Held
    <2>4. {"w"} \in SUBSET Op
      BY DEF Op
    <2> QED
      BY <1>2, <2>1, <2>2, <2>3, <2>4, SoundState
  <1>4. CASE t.pool[c].remote # NoFd
    <2>1. Answered(t, c) = InState(b, c, "up", {"w"})
      BY <1>4 DEF Answered, a
    <2>2. Keyed(a, c, t.pool[c].remote) /\ c \in UsedBy(a)
      BY <1>1, <1>2, <1>4
    <2>3. /\ Consistent(b) /\ UsedBy(b) = UsedBy(a) /\ Serves(a, b, c) /\ b.pool = a.pool
          /\ \A g \in Fd \ {t.pool[c].remote} : b.item[g] = a.item[g]
          /\ b.item[t.pool[c].remote].ops = {}
      BY <1>2, <1>4, <2>2, KeyedInterest
    <2> HIDE DEF b
    <2>4. Serves(t, b, c) /\ c \in UsedBy(b)
      BY <1>2, <2>2, <2>3, ServesTwice
    <2>5. \A f \in Held(b, c) : b.item[f].ops \subseteq {"w"}
      BY <1>1, <1>2, <2>3 DEF Held
    <2>6. {"w"} \in SUBSET Op
      BY DEF Op
    <2> QED
      BY <2>1, <2>3, <2>4, <2>5, <2>6, SoundState
  <1> QED
    BY <1>3, <1>4

(* RequestWriteRun and the relay. *)
LEMMA SoundRelays ==
    ASSUME NEW t, Sound(t), NEW c \in UsedBy(t), t.pool[c].phase = "up", NEW u \in Relays(t, c)
    PROVE  Sound(u) /\ Serves(t, u, c)
  <1> DEFINE a(x) == Interest(t, t.pool[c].client, x)
             b(x, y) == Interest(a(x), t.pool[c].remote, y)
  <1>1. u = t \/ \E x, y \in SUBSET Op : u = InState(b(x, y), c, "up", x \cup y)
    <2>1. ASSUME NEW i \in {<<{"r"}, {"r"}>>, <<{"r"}, {}>>, <<{}, {"r"}>>,
                            <<{"w"}, {}>>, <<{}, {"w"}>>}
          PROVE  i[1] \in SUBSET Op /\ i[2] \in SUBSET Op
      BY DEF Op
    <2> QED
      BY <2>1 DEF Relays
  <1>2. CASE u = t
    BY <1>2, ServesItself
  <1>3. ASSUME NEW x \in SUBSET Op, NEW y \in SUBSET Op, u = InState(b(x, y), c, "up", x \cup y)
        PROVE  Sound(u) /\ Serves(t, u, c)
    <2> DEFINE aa == a(x)
               bb == Interest(aa, t.pool[c].remote, y)
    <2>1. /\ Consistent(t) /\ Keyed(t, c, t.pool[c].client) /\ t.pool[c].client # NoFd
          /\ t.pool[c].remote = NoFd \/ Keyed(t, c, t.pool[c].remote)
          /\ t.pool[c].client \in Fd /\ t.pool[c].client # t.pool[c].remote
      BY HeldFacts DEF Sound, Consistent, Owned
    <2>2. /\ Consistent(aa) /\ UsedBy(aa) = UsedBy(t) /\ Serves(t, aa, c) /\ aa.pool = t.pool
          /\ \A g : Keyed(aa, c, g) <=> Keyed(t, c, g)
          /\ aa.item[t.pool[c].client].ops = x
      BY <2>1, KeyedInterest
    <2> HIDE DEF aa
    <2>3. (Keyed(aa, c, t.pool[c].remote) \/ t.pool[c].remote = NoFd) /\ c \in UsedBy(aa)
      BY <2>1, <2>2
    <2>4. /\ Consistent(bb) /\ UsedBy(bb) = UsedBy(aa) /\ Serves(aa, bb, c)
          /\ bb.pool = aa.pool
          /\ \A g \in Fd \ {t.pool[c].remote} : bb.item[g] = aa.item[g]
          /\ t.pool[c].remote # NoFd => bb.item[t.pool[c].remote].ops = y
      BY <2>2, <2>3, KeyedInterest
    <2>5. u = InState(bb, c, "up", x \cup y)
      BY <1>3 DEF aa
    <2> HIDE DEF bb
    <2>6. Serves(t, bb, c) /\ c \in UsedBy(bb)
      BY <2>2, <2>3, <2>4, ServesTwice
    <2>7. \A f \in Held(bb, c) : bb.item[f].ops \subseteq x \cup y
      BY <2>1, <2>2, <2>4 DEF Held
    <2> QED
      BY <2>4, <2>5, <2>6, <2>7, SoundState
  <1> QED
    BY <1>1, <1>2, <1>3

(* All of them: the tables stay sound, and no other connection is touched. *)
LEMMA HandlersAreSound ==
    ASSUME NEW t, Sound(t), NEW c \in UsedBy(t), c \in Index, NEW f, Keyed(t, c, f),
           NEW o, NEW u \in Outcomes(t, c, f, o)
    PROVE  Sound(u) /\ Serves(t, u, c)
  <1>1. t.pool[c].phase \in {"talk", "dns", "connect", "up"}
    BY HeldFacts DEF Sound, Connection
  <1>2. CASE t.pool[c].phase = "talk"
    <2>1. \/ u \in Goes(t, c, f)
          \/ u = Dispose(t, {c})
          \/ u \in Connects(t, c, f)
      BY <1>2 DEF Outcomes
    <2> QED
      BY <1>2, <2>1, SoundGoes, ServesDispose, SoundConnects
  <1>3. CASE t.pool[c].phase = "connect"
    <2>1. u \in Establish(t, c, f) \/ u = Answered(t, c) \/ u = t
      BY <1>3 DEF Outcomes, Establishes
    <2>2. Consistent(t) /\ Serves(t, t, c)
      BY ServesItself DEF Sound
    <2> QED
      BY <2>1, <2>2, SoundEstablish, SoundAnswered
  <1>4. CASE t.pool[c].phase = "up"
    <2>1. u \in Relays(t, c) \/ u = Dispose(t, {c})
      BY <1>4 DEF Outcomes
    <2> QED
      BY <1>4, <2>1, SoundRelays, ServesDispose
  <1>5. CASE t.pool[c].phase = "dns"
    BY <1>5 DEF Outcomes
  <1> QED
    BY <1>1, <1>2, <1>3, <1>4, <1>5

(* RequestReadRun with a name: the connection waits, and takes nothing.    *)
LEMMA SoundAsking ==
    ASSUME NEW t, Sound(t), NEW c \in UsedBy(t), NEW f, Keyed(t, c, f),
           t.pool[c].phase = "talk"
    PROVE  LET u == InState(Interest(Named(t, c), f, {}), c, "dns", {}) IN
           /\ Sound(u) /\ UsedBy(u) = UsedBy(t) /\ Serves(t, u, c)
           /\ u.pool[c].phase = "dns" /\ u.pool[c].client = t.pool[c].client
           /\ Keyed(u, c, f) /\ (f = u.pool[c].client \/ f \in Strays(u))
  <1> DEFINE a == Named(t, c)
             b == Interest(a, f, {})
             u == InState(b, c, "dns", {})
  <1>1. /\ Consistent(a) /\ UsedBy(a) = UsedBy(t) /\ Serves(t, a, c)
        /\ a.item = t.item /\ a.lost = t.lost
        /\ a.pool[c].remote = t.pool[c].remote /\ a.pool[c].client = t.pool[c].client
    BY ConsistentNamed DEF Sound
  <1> HIDE DEF a
  <1>2. f # NoFd /\ Keyed(a, c, f)
    BY <1>1, HeldFacts DEF Sound, Keyed
  <1>3. /\ Consistent(b) /\ b.pool = a.pool /\ UsedBy(b) = UsedBy(a) /\ Serves(a, b, c)
        /\ Keyed(b, c, f) /\ b.item[f].ops = {} /\ Strays(b) = Strays(a)
    BY <1>1, <1>2, KeyedInterest
  <1>4. Strays(a) = Strays(t)
    BY <1>1 DEF Strays
  <1>5. t.pool[c].remote = NoFd
    BY DEF Sound, Waiting, Waits
  <1>6. f = t.pool[c].client \/ f \in Strays(t)
    <2>1. f \in Held(t, c) \/ f \in Strays(t)
      BY HeldFacts DEF Sound
    <2> QED
      BY <1>5, <2>1 DEF Held
  <1> HIDE DEF b
  <1>7. Serves(t, b, c) /\ c \in UsedBy(b)
    BY <1>1, <1>3, ServesTwice
  <1>8. b.pool[c].remote = NoFd /\ b.pool[c].client = t.pool[c].client
    BY <1>1, <1>3, <1>5
  <1>9. Strays(b) = {} => \A g \in Held(b, c) : b.item[g].ops \subseteq {}
    BY <1>3, <1>4, <1>6, <1>8 DEF Held
  <1>10. /\ Sound(u) /\ UsedBy(u) = UsedBy(b) /\ Serves(t, u, c)
         /\ u.item = b.item /\ u.lost = b.lost
         /\ u.pool[c].phase = "dns" /\ u.pool[c].client = b.pool[c].client
    BY <1>3, <1>7, <1>8, <1>9, SoundState
  <1>11. u = InState(Interest(Named(t, c), f, {}), c, "dns", {})
    BY DEF a, b
  <1> HIDE DEF u
  <1>12. Keyed(u, c, f) /\ Strays(u) = Strays(t)
    BY <1>3, <1>4, <1>10 DEF Keyed, Strays
  <1> QED
    BY <1>1, <1>3, <1>6, <1>8, <1>10, <1>11, <1>12

(* The answer of the resolver is taken. *)
LEMMA SoundDnsRead ==
    ASSUME Sound(Tables), NEW c \in UsedBy(Tables), c \in Index, NEW f, Keyed(Tables, c, f),
           pool[c].phase = "dns", NEW u \in DnsRead(c, f)
    PROVE  Sound(u) /\ UsedBy(u) = UsedBy(Tables) /\ Serves(Tables, u, c)
  <1> DEFINE t == Tables
             a == Interest(t, t.pool[c].client, {"w"})
             v == InState(a, c, "talk", {"w"})
  <1>1. t.pool = pool
    BY DEF Tables
  <1>2. u = v \/ u \in Establish(t, c, f)
    BY <1>1 DEF DnsRead
  <1> HIDE DEF t
  <1>3. Sound(t) /\ Consistent(t) /\ c \in UsedBy(t) /\ Keyed(t, c, f) /\ t.pool[c].phase = "dns"
    BY <1>1 DEF t, Sound
  <1>4. CASE u \in Establish(t, c, f)
    <2>1. Serves(t, t, c)
      BY <1>3, ServesItself
    <2>2. Sound(u) /\ UsedBy(u) = UsedBy(t) /\ Serves(t, u, c)
      BY <1>3, <1>4, <2>1, SoundEstablish
    <2> QED
      BY <2>2 DEF t
  <1>5. CASE u = v
    <2>1. t.pool[c].client \in Held(t, c) /\ Keyed(t, c, t.pool[c].client)
      BY <1>3, HeldFacts
    <2>2. /\ Consistent(a) /\ a.pool = t.pool /\ UsedBy(a) = UsedBy(t) /\ Serves(t, a, c)
          /\ a.item[t.pool[c].client].ops = {"w"}
      BY <1>3, <2>1, KeyedInterest DEF Op, Held
    <2>3. t.pool[c].remote = NoFd
      BY <1>3 DEF Sound, Waiting, Waits
    <2> HIDE DEF a
    <2>4. \A g \in Held(a, c) : a.item[g].ops \subseteq {"w"}
      BY <2>2, <2>3 DEF Held
    <2>5. {"w"} \in SUBSET Op /\ c \in UsedBy(a) /\ a.pool[c].remote = NoFd
      BY <1>3, <2>2, <2>3 DEF Op
    <2>6. Sound(v) /\ UsedBy(v) = UsedBy(a) /\ Serves(t, v, c)
      BY <1>3, <2>2, <2>4, <2>5, SoundState
    <2> QED
      BY <1>5, <2>2, <2>6 DEF t
  <1> QED
    BY <1>2, <1>4, <1>5

-------------------------------------------------------------------------------
(* NotifySocks5ConnectionAccess: the object of an entry gets a new age.    *)
LEMMA ConsistentAge ==
    ASSUME NEW t, Consistent(t), NEW c \in DOMAIN t.pool,
           ~t.pool[c].inUse => \E f \in Strays(t) : t.item[f].data = c
    PROVE  LET u == [t EXCEPT !.pool[c] = [t.pool[c] EXCEPT !.age = 0]] IN
           Consistent(u) /\ UsedBy(u) = UsedBy(t)
  <1> DEFINE x == [t.pool[c] EXCEPT !.age = 0]
             u == [t EXCEPT !.pool[c] = x]
  <1>a. t \in Table
    BY DEF Consistent
  <1>b. t.pool[c] \in Connection
    BY <1>a, ElementOfSeq DEF Table
  <1>1. t \in Table /\ t.pool[c] \in Connection /\ x \in Connection
    BY <1>a, <1>b, FieldWrites
  <1>2. /\ (x.inUse <=> t.pool[c].inUse)
        /\ x.client = t.pool[c].client /\ x.remote = t.pool[c].remote
    BY <1>1 DEF Connection
  <1>3. CASE t.pool[c].inUse
    <2> HIDE DEF x
    <2>1. c \in UsedBy(t)
      BY <1>3 DEF UsedBy
    <2>2. Consistent(u) /\ UsedBy(u) = UsedBy(t)
      BY <1>1, <1>2, <1>3, <2>1, ConsistentObject
    <2> QED
      BY <2>2 DEF x
  <1>4. CASE ~t.pool[c].inUse
    <2>1. x = [Zeroed EXCEPT !.age = x.age]
      <3>1. t.pool[c] = [Zeroed EXCEPT !.age = t.pool[c].age]
        BY <1>4 DEF Consistent, Clean, Unused
      <3> QED
        BY <3>1 DEF Zeroed
    <2> HIDE DEF x
    <2>2. /\ u \in Table
          /\ u.open = t.open /\ u.item = t.item /\ u.current = t.current /\ u.lost = t.lost
          /\ DOMAIN u.pool = DOMAIN t.pool /\ u.pool[c] = x
          /\ \A d \in DOMAIN t.pool \ {c} : u.pool[d] = t.pool[d]
      BY <1>1, ObjectFields
    <2> HIDE DEF u
    <2>3. /\ UsedBy(u) = UsedBy(t) /\ \A d \in UsedBy(t) : d # c /\ Held(u, d) = Held(t, d)
      BY <1>2, <1>4, <2>2 DEF UsedBy, Held
    <2>4. Strays(u) = Strays(t)
      BY <2>2 DEF Strays
    <2>5. Watches(u)
      BY <2>2 DEF Consistent, Watches
    <2>6. Owned(u)
      <3>1. \A f \in u.open \ (u.lost \cup {Listener}) :
               u.item[f].data \in UsedBy(u) /\ f \in Held(u, u.item[f].data)
        BY <2>2, <2>3 DEF Consistent, Owned
      <3>2. ASSUME NEW d \in UsedBy(u)
            PROVE  /\ u.pool[d].client \in Fd /\ u.pool[d].client # u.pool[d].remote
                   /\ \A f \in Held(u, d) : /\ f \in u.open \ (u.lost \cup {Listener})
                                            /\ u.item[f].data = d
        <4>1. u.pool[d] = t.pool[d] /\ d \in UsedBy(t)
          BY <2>2, <2>3 DEF UsedBy
        <4> QED
          BY <2>2, <2>3, <4>1 DEF Consistent, Owned
      <3>3. \A f \in Strays(u) : u.item[f].data \in DOMAIN u.pool
        BY <2>2, <2>4 DEF Consistent, Owned
      <3> QED
        BY <3>1, <3>2, <3>3 DEF Owned
    <2>7. Clean(u)
      <3>1. ASSUME NEW d \in DOMAIN u.pool, ~u.pool[d].inUse PROVE Unused(u, d)
        <4>1. CASE d = c
          BY <1>4, <2>1, <2>2, <2>4, <4>1 DEF Unused
        <4>2. CASE d # c
          <5>1. u.pool[d] = t.pool[d] /\ Unused(t, d)
            BY <2>2, <3>1, <4>2 DEF Consistent, Clean
          <5> QED
            BY <2>2, <2>4, <5>1 DEF Unused
        <4> QED
          BY <4>1, <4>2
      <3> QED
        BY <3>1 DEF Clean
    <2>8. Counted(u)
      BY <2>2, <2>3 DEF Consistent, Counted
    <2> QED
      BY <2>2, <2>3, <2>5, <2>6, <2>7, <2>8 DEF Consistent, u, x
  <1> QED
    BY <1>3, <1>4

(* An entry the selector visits belongs to the listener, or to an object.  *)
LEMMA EntryFacts ==
    ASSUME Sound(Tables), NEW f \in Fd, item[f].used
    PROVE  /\ item[f].data = 0 <=> f = Listener
           /\ f # Listener => /\ item[f].data \in DOMAIN pool
                              /\ Keyed(Tables, item[f].data, f)
                              /\ item[f].data \in InUse \/ f \in Strays(Tables)
  <1> DEFINE t == Tables
  <1>1. /\ t.open = open /\ t.item = item /\ t.pool = pool /\ t.lost = lost
        /\ UsedBy(t) = InUse
    BY DEF Tables, UsedBy, InUse
  <1>2. Consistent(t) /\ t \in Table
    BY DEF Sound, Consistent
  <1> HIDE DEF t
  <1>3. 0 \notin DOMAIN t.pool
    BY <1>2 DEF Table
  <1>4. t.item[Listener].data = 0
    BY <1>2 DEF Consistent, Watches
  <1>5. ASSUME f # Listener
        PROVE  t.item[f].data \in DOMAIN t.pool
               /\ (t.item[f].data \in UsedBy(t) \/ f \in Strays(t))
    <2>1. f \in t.open
      BY <1>1, <1>2 DEF Consistent, Watches
    <2>2. CASE f \in t.lost
      <3>1. f \in Strays(t)
        BY <1>1, <2>2 DEF Strays
      <3> QED
        BY <1>2, <3>1 DEF Consistent, Owned
    <2>3. CASE f \notin t.lost
      BY <1>2, <1>5, <2>1, <2>3 DEF Consistent, Owned, UsedBy
    <2> QED
      BY <2>2, <2>3
  <1> QED
    BY <1>1, <1>3, <1>4, <1>5 DEF Keyed, t

(* NotifySocks5ConnectionAccess for a descriptor.                          *)
LEMMA SoundRefreshed ==
    ASSUME Sound(Tables), NEW f \in Fd, item[f].used
    PROVE  LET t == Refreshed(f) IN
           /\ Sound(t) /\ UsedBy(t) = InUse /\ t.open = open /\ t.item = item
           /\ t.lost = lost /\ Strays(t) = Strays(Tables)
           /\ DOMAIN t.pool = DOMAIN pool
           /\ \A d \in DOMAIN pool : d # item[f].data => t.pool[d] = pool[d]
           /\ \A d \in DOMAIN pool : /\ t.pool[d].client = pool[d].client
                                     /\ t.pool[d].remote = pool[d].remote
                                     /\ t.pool[d].phase = pool[d].phase
                                     /\ t.pool[d].takes = pool[d].takes
                                     /\ d = item[f].data => t.pool[d].age = 0
  <1>1. /\ Tables.open = open /\ Tables.item = item /\ Tables.pool = pool
        /\ Tables.lost = lost /\ UsedBy(Tables) = InUse
    BY DEF Tables, UsedBy, InUse
  <1>2. CASE item[f].data = 0
    <2>1. 0 \notin DOMAIN pool
      <3>1. Tables \in Table
        BY DEF Sound, Consistent
      <3> QED
        BY <1>1, <3>1 DEF Table
    <2> QED
      BY <1>1, <1>2, <2>1 DEF Refreshed
  <1>3. CASE item[f].data # 0
    <2> DEFINE t == Tables
               c == item[f].data
               x == [t.pool[c] EXCEPT !.age = 0]
               u == [t EXCEPT !.pool[c] = x]
    <2> HIDE DEF t, c
    <2>1. /\ Consistent(t) /\ t \in Table /\ c \in DOMAIN t.pool /\ t.pool[c] \in Connection
          /\ ~t.pool[c].inUse => \E g \in Strays(t) : t.item[g].data = c
      <3>1. /\ c \in DOMAIN pool
            /\ c \in InUse \/ f \in Strays(Tables)
        BY <1>3, EntryFacts DEF c
      <3>2. Consistent(t) /\ t \in Table
        BY DEF Sound, Consistent, t
      <3>3. c \in DOMAIN t.pool /\ t.pool[c] \in Connection
        BY <1>1, <3>1, <3>2, ElementOfSeq DEF Table, t
      <3>4. ~t.pool[c].inUse => f \in Strays(t) /\ t.item[f].data = c
        BY <1>1, <3>1 DEF InUse, t, c
      <3> QED
        BY <3>2, <3>3, <3>4
    <2>2. x \in Connection /\ [t EXCEPT !.pool[c].age = 0] = u
      BY <2>1, FieldWrites
    <2>3. /\ x.client = t.pool[c].client /\ x.remote = t.pool[c].remote
          /\ x.phase = t.pool[c].phase /\ x.takes = t.pool[c].takes /\ x.age = 0
      BY <2>1 DEF Connection
    <2>4. Consistent(u) /\ UsedBy(u) = UsedBy(t)
      BY <2>1, ConsistentAge
    <2> HIDE DEF x
    <2>5. /\ u.open = t.open /\ u.item = t.item /\ u.lost = t.lost
          /\ DOMAIN u.pool = DOMAIN t.pool
          /\ u.pool[c] = x /\ \A d \in DOMAIN t.pool \ {c} : u.pool[d] = t.pool[d]
      BY <2>1, <2>2, ObjectFields
    <2>6. Refreshed(f) = u
      BY <1>3, <2>2 DEF Refreshed, t, c
    <2> HIDE DEF u
    <2>7. \A d \in DOMAIN t.pool : /\ u.pool[d].client = t.pool[d].client
                                   /\ u.pool[d].remote = t.pool[d].remote
                                   /\ u.pool[d].phase = t.pool[d].phase
                                   /\ u.pool[d].takes = t.pool[d].takes
                                   /\ d = c => u.pool[d].age = 0
      BY <2>3, <2>5
    <2>8. Strays(u) = Strays(t)
      BY <2>5 DEF Strays
    <2>9. Waiting(u)
      <3> SUFFICES ASSUME NEW d \in UsedBy(u) PROVE Waits(u, d)
        BY DEF Waiting
      <3>1. d \in DOMAIN t.pool /\ Waits(t, d)
        BY <2>4 DEF Sound, Waiting, UsedBy, t
      <3>2. Held(u, d) = Held(t, d)
        BY <2>7, <3>1 DEF Held
      <3> QED
        BY <2>5, <2>7, <2>8, <3>1, <3>2 DEF Waits
    <2> QED
      BY <1>1, <2>4, <2>5, <2>6, <2>7, <2>8, <2>9 DEF Sound, t, c
  <1> QED
    BY <1>2, <1>3


-------------------------------------------------------------------------------
(* Socks5PassiveAccept.  The object of the client: the first that is empty,*)
(* or one more; and what the visits of strays left of its age.             *)
Place == IF Object = NoFd THEN Len(pool) + 1 ELSE Object
LeftAge == IF Object = NoFd THEN Never ELSE pool[Object].age
Newcomer(f) == [Zeroed EXCEPT !.inUse = TRUE, !.client = f, !.takes = {"r"}, !.age = LeftAge]

(* GetObject and the registration of a new client, field by field. *)
LEMMA AcceptedFields ==
    ASSUME Sound(Tables), Len(pool) <= MaxPool, Cardinality(InUse) < MaxPool,
           NEW f \in Fd \ open
    PROVE  LET t == Accepted(f) IN
           /\ t.open = open \cup {f} /\ t.item = item /\ t.current = current + 1
           /\ t.lost = lost
           /\ t.pool \in Seq(Connection) /\ Place \in Index /\ Place \notin InUse
           /\ Place \in DOMAIN t.pool
           /\ DOMAIN t.pool = DOMAIN pool \cup {Place}
           /\ Len(pool) <= Len(t.pool) /\ Len(t.pool) <= MaxPool
           /\ t.pool[Place] = Newcomer(f)
           /\ \A d \in DOMAIN pool : d # Place => t.pool[d] = pool[d]
           /\ LeftAge = Never \/ (Place \in DOMAIN pool /\ LeftAge = pool[Place].age)
           /\ \A d \in DOMAIN pool \ InUse : Unused(Tables, d)
           /\ t = [open |-> t.open, item |-> t.item, pool |-> t.pool, current |-> t.current,
                   lost |-> t.lost]
  <1> DEFINE t == Accepted(f)
             x == Newcomer(f)
             Empty == {c \in DOMAIN pool : ~pool[c].inUse}
  <1>1. Tables \in Table /\ Tables.pool = pool /\ UsedBy(Tables) = InUse
        /\ pool \in Seq(Connection)
    BY DEF Sound, Consistent, Table, Tables, UsedBy, InUse
  <1>2. DOMAIN pool = 1..Len(pool) /\ Len(pool) \in Nat
    BY <1>1
  <1>4. Empty \subseteq Nat
    BY <1>2
  <1>5. /\ Object = NoFd <=> Empty = {}
        /\ Object # NoFd => Object \in Empty
    BY <1>4, LowestIsLeast DEF Object
  <1>6. \A d \in DOMAIN pool \ InUse : Unused(Tables, d)
    BY <1>1 DEF Sound, Consistent, Clean, InUse
  <1>7. CASE Object = NoFd
    <2>1. InUse = DOMAIN pool
      BY <1>5, <1>7 DEF InUse
    <2>2. Len(pool) < MaxPool
      BY <1>1, <2>1, UsedByFinite
    <2>a. LeftAge = Never
      BY <1>7 DEF LeftAge
    <2>b. x = [Zeroed EXCEPT !.inUse = TRUE, !.client = f, !.takes = {"r"}]
      <3>1. PICK z : z = Zeroed
        OBVIOUS
      <3>2. Zeroed.age = Never /\ Zeroed = [Zeroed EXCEPT !.age = Zeroed.age]
        BY DEF Zeroed
      <3>3. z = [Zeroed EXCEPT !.age = LeftAge]
        BY <2>a, <3>1, <3>2
      <3>4. x = [z EXCEPT !.inUse = TRUE, !.client = f, !.takes = {"r"}]
        BY <3>3 DEF Newcomer, Zeroed
      <3> QED
        BY <3>1, <3>4
    <2>c. x \in Connection
      BY <2>b, RecordTypes DEF Connection, Zeroed, Op
    <2>3. t = [open |-> open \cup {f}, item |-> item, pool |-> Append(pool, x),
               current |-> current + 1, lost |-> lost]
      BY <1>7, <2>b DEF Accepted
    <2> HIDE DEF x
    <2>4. /\ Append(pool, x) \in Seq(Connection) /\ Len(Append(pool, x)) = Len(pool) + 1
          /\ \A d \in 1..Len(pool) : Append(pool, x)[d] = pool[d]
          /\ Append(pool, x)[Len(pool) + 1] = x
      BY <1>1, <2>c, AppendProperties
    <2>5. Place = Len(pool) + 1
      BY <1>7 DEF Place
    <2>6. DOMAIN Append(pool, x) = 1..(Len(pool) + 1)
      BY <2>4
    <2>7. Place \in Index /\ Place \notin InUse
      BY <1>2, <2>1, <2>2, <2>5, LifecycleAssumption DEF Index
    <2>8. DOMAIN Append(pool, x) = DOMAIN pool \cup {Place}
      BY <1>2, <2>5, <2>6
    <2>9. \A d \in DOMAIN pool : Append(pool, x)[d] = pool[d]
      BY <1>2, <2>4
    <2>10. Len(pool) <= Len(pool) + 1 /\ Len(pool) + 1 <= MaxPool
      BY <1>2, <2>2, LifecycleAssumption
    <2> QED
      BY <1>6, <2>a, <2>3, <2>4, <2>5, <2>7, <2>8, <2>9, <2>10 DEF x
  <1>8. CASE Object # NoFd
    <2>1. Object \in DOMAIN pool /\ ~pool[Object].inUse /\ Place = Object
      BY <1>5, <1>8 DEF Place
    <2>a. /\ LeftAge = pool[Object].age
          /\ pool[Object] = [Zeroed EXCEPT !.age = LeftAge]
      BY <1>1, <1>6, <1>8, <2>1 DEF LeftAge, Unused, InUse
    <2>b. x = [pool[Object] EXCEPT !.inUse = TRUE, !.client = f, !.takes = {"r"}]
      BY <2>a DEF Newcomer, Zeroed
    <2>c. x \in Connection
      <3>1. pool[Object] \in Connection
        BY <1>1, <2>1, ElementOfSeq
      <3> QED
        BY <2>b, <3>1 DEF Connection, Op
    <2>2. t = [open |-> open \cup {f}, item |-> item, pool |-> [pool EXCEPT ![Object] = x],
               current |-> current + 1, lost |-> lost]
      BY <1>8, <2>b DEF Accepted
    <2> HIDE DEF x
    <2>3. /\ [pool EXCEPT ![Object] = x] \in Seq(Connection)
          /\ Len([pool EXCEPT ![Object] = x]) = Len(pool)
          /\ DOMAIN [pool EXCEPT ![Object] = x] = DOMAIN pool
          /\ \A d \in DOMAIN pool : [pool EXCEPT ![Object] = x][d] = IF d = Object THEN x ELSE pool[d]
      BY <1>1, <2>c, <2>1, PoolWrite
    <2>4. Place \in Index /\ Place \notin InUse
      BY <1>2, <2>1, LifecycleAssumption DEF Index, InUse
    <2> QED
      BY <1>2, <1>6, <2>a, <2>1, <2>2, <2>3, <2>4 DEF x
  <1> QED
    BY <1>7, <1>8

(* The tables u are t with a new client, on f, in place c.                 *)
Arrival(t, u, f, c, x) ==
    /\ f \in Fd \ t.open /\ c \in Index /\ c \notin UsedBy(t)
    /\ x.inUse /\ x.client = f /\ x.remote = NoFd /\ x.phase = "talk" /\ x.takes = {"r"}
    /\ u \in Table /\ u.open = t.open \cup {f} /\ u.current = t.current + 1 /\ u.lost = t.lost
    /\ u.item = [t.item EXCEPT ![f] = [used |-> TRUE, data |-> c, ops |-> {"r"}]]
    /\ DOMAIN u.pool = DOMAIN t.pool \cup {c} /\ u.pool[c] = x
    /\ \A d \in DOMAIN t.pool : d # c => u.pool[d] = t.pool[d]

(* They are as sound as t, and nothing else has changed. *)
LEMMA SoundArrival ==
    ASSUME NEW t, Sound(t), NEW f, NEW c, NEW x, NEW u, Arrival(t, u, f, c, x)
    PROVE  /\ Sound(u) /\ UsedBy(u) = UsedBy(t) \cup {c}
           /\ Strays(u) = Strays(t) /\ \A g \in Strays(t) : u.item[g] = t.item[g]
  <1> DEFINE new == [used |-> TRUE, data |-> c, ops |-> {"r"}]
             i == [t.item EXCEPT ![f] = new]
  <1>0. /\ f \in Fd \ t.open /\ c \in Index /\ c \notin UsedBy(t)
        /\ x.inUse /\ x.client = f /\ x.remote = NoFd /\ x.phase = "talk" /\ x.takes = {"r"}
        /\ u \in Table /\ u.open = t.open \cup {f} /\ u.current = t.current + 1
        /\ u.lost = t.lost /\ u.item = i
        /\ DOMAIN u.pool = DOMAIN t.pool \cup {c} /\ u.pool[c] = x
        /\ \A d \in DOMAIN t.pool : d # c => u.pool[d] = t.pool[d]
    BY DEF Arrival
  <1>1. /\ t.open \subseteq Fd /\ t.item \in [Fd -> Item] /\ t.lost \subseteq t.open
        /\ f \in Fd /\ f \notin t.open /\ NoFd \notin Fd /\ Listener \in t.open \ t.lost
        /\ f \notin t.lost
    BY <1>0, LifecycleAssumption DEF Sound, Consistent, Table, Watches, Fd, NoFd
  <1>2. new.used = TRUE /\ new.data = c /\ new.ops = {"r"}
    OBVIOUS
  <1>3. \A g \in Fd : i[g] = IF g = f THEN new ELSE t.item[g]
    BY <1>0, <1>1
  <1> HIDE DEF new, i
  <1>4. UsedBy(u) = UsedBy(t) \cup {c}
    <2>1. \A d \in DOMAIN u.pool : u.pool[d].inUse <=> d \in UsedBy(t) \/ d = c
      BY <1>0 DEF UsedBy
    <2> QED
      BY <1>0, <2>1 DEF UsedBy
  <1>5. \A d \in UsedBy(t) : d # c /\ d \in DOMAIN t.pool /\ u.pool[d] = t.pool[d]
                             /\ Held(u, d) = Held(t, d)
    BY <1>0 DEF UsedBy, Held
  <1>6. Held(u, c) = {f}
    BY <1>0, <1>1 DEF Held
  <1>7. Strays(u) = Strays(t) /\ \A g \in Strays(t) : g \in t.open /\ u.item[g] = t.item[g]
    <2>1. \A g \in t.lost : g \in Fd /\ g # f /\ g \in t.open
      BY <1>0, <1>1
    <2> QED
      BY <1>0, <1>3, <2>1 DEF Strays
  <1>8. Watches(u)
    <2>1. \A g \in Fd : u.item[g].used => g \in u.open
      BY <1>0, <1>1, <1>2, <1>3 DEF Sound, Consistent, Watches
    <2>2. \A g \in u.open \ u.lost : u.item[g].used
      BY <1>0, <1>1, <1>2, <1>3 DEF Sound, Consistent, Watches
    <2>3. \A g \in Fd : ~u.item[g].used => u.item[g] = FreeItem
      BY <1>0, <1>1, <1>2, <1>3 DEF Sound, Consistent, Watches
    <2>4. Listener \in u.open \ u.lost /\ u.item[Listener] = t.item[Listener]
      BY <1>0, <1>1, <1>3
    <2>5. u.lost \subseteq u.open
      BY <1>0, <1>1
    <2> QED
      BY <1>0, <2>1, <2>2, <2>3, <2>4, <2>5 DEF Sound, Consistent, Watches
  <1>9. Owned(u)
    <2>1. ASSUME NEW g \in u.open \ (u.lost \cup {Listener})
          PROVE  u.item[g].data \in UsedBy(u) /\ g \in Held(u, u.item[g].data)
      <3>1. CASE g = f
        BY <1>0, <1>1, <1>2, <1>3, <1>4, <1>6, <3>1
      <3>2. CASE g # f
        <4>1. g \in t.open \ (t.lost \cup {Listener}) /\ u.item[g] = t.item[g]
          BY <1>0, <1>1, <1>3, <3>2
        <4>2. t.item[g].data \in UsedBy(t) /\ g \in Held(t, t.item[g].data)
          BY <1>0, <4>1 DEF Sound, Consistent, Owned
        <4> QED
          BY <1>0, <1>4, <1>5, <4>1, <4>2
      <3> QED
        BY <1>0, <3>1, <3>2
    <2>2. ASSUME NEW d \in UsedBy(u)
          PROVE  /\ u.pool[d].client \in Fd /\ u.pool[d].client # u.pool[d].remote
                 /\ \A g \in Held(u, d) : g \in u.open \ (u.lost \cup {Listener}) /\ u.item[g].data = d
      <3>1. CASE d = c
        BY <1>0, <1>1, <1>2, <1>3, <1>6, <3>1
      <3>2. CASE d # c
        <4>1. d \in UsedBy(t)
          BY <1>0, <1>4, <3>2
        <4>2. /\ t.pool[d].client \in Fd /\ t.pool[d].client # t.pool[d].remote
              /\ \A g \in Held(t, d) : g \in t.open \ (t.lost \cup {Listener}) /\ t.item[g].data = d
          BY <1>0, <4>1 DEF Sound, Consistent, Owned
        <4>3. \A g \in Held(t, d) : g \in Fd /\ g # f
          BY <1>0, <1>1, <4>2
        <4> QED
          BY <1>0, <1>3, <1>5, <4>1, <4>2, <4>3
      <3> QED
        BY <1>0, <3>1, <3>2
    <2>3. \A g \in Strays(u) : u.item[g].data \in DOMAIN u.pool
      BY <1>0, <1>7 DEF Sound, Consistent, Owned
    <2> QED
      BY <1>0, <2>1, <2>2, <2>3 DEF Owned
  <1>10. Clean(u)
    <2> SUFFICES ASSUME NEW d \in DOMAIN u.pool, ~u.pool[d].inUse PROVE Unused(u, d)
      BY DEF Clean
    <2>1. u.pool[d] = t.pool[d] /\ Unused(t, d)
      BY <1>0 DEF Sound, Consistent, Clean
    <2> QED
      BY <1>0, <1>7, <2>1 DEF Unused
  <1>11. Counted(u)
    <2>1. IsFiniteSet(UsedBy(t)) /\ t.current = Cardinality(UsedBy(t))
      BY UsedByFinite DEF Sound, Consistent, Counted
    <2>2. Cardinality(UsedBy(t) \cup {c}) = Cardinality(UsedBy(t)) + 1
      BY <1>0, <2>1, FS_AddElement
    <2> QED
      BY <1>0, <1>4, <2>1, <2>2 DEF Counted
  <1>12. Waiting(u)
    <2>1. Waits(u, c)
      BY <1>0, <1>1, <1>2, <1>3, <1>6 DEF Waits
    <2>2. ASSUME NEW d \in UsedBy(t) PROVE Waits(u, d)
      <3>1. Waits(t, d)
        BY DEF Sound, Waiting
      <3>2. \A g \in Held(t, d) : g \in Fd /\ g # f
        BY <1>0, <1>1 DEF Sound, Consistent, Owned
      <3> QED
        BY <1>0, <1>3, <1>5, <1>7, <3>1, <3>2 DEF Waits
    <2> QED
      BY <1>0, <1>4, <2>1, <2>2 DEF Waiting
  <1> QED
    BY <1>0, <1>4, <1>7, <1>8, <1>9, <1>10, <1>11, <1>12 DEF Sound, Consistent

(* A client that cannot be registered leaves at most an empty object.      *)
LEMMA SoundRefusal ==
    ASSUME NEW t, Sound(t), NEW c, c \notin UsedBy(t),
           NEW u \in Table, u.open = t.open, u.item = t.item,
           u.current = t.current, u.lost = t.lost,
           DOMAIN u.pool = DOMAIN t.pool \cup {c}, u.pool[c] = Zeroed,
           \A d \in DOMAIN t.pool : d # c => u.pool[d] = t.pool[d]
    PROVE  Sound(u) /\ UsedBy(u) = UsedBy(t) /\ Strays(u) = Strays(t)
  <1>1. UsedBy(u) = UsedBy(t) /\ \A d \in UsedBy(t) : u.pool[d] = t.pool[d] /\ Held(u, d) = Held(t, d)
    <2>1. Zeroed.inUse = FALSE
      BY DEF Zeroed
    <2>2. \A d \in DOMAIN u.pool : u.pool[d].inUse <=> d \in UsedBy(t)
      BY <2>1 DEF UsedBy
    <2>3. \A d \in UsedBy(t) : d # c /\ d \in DOMAIN t.pool
      BY DEF UsedBy
    <2> QED
      BY <2>2, <2>3 DEF UsedBy, Held
  <1>2. Strays(u) = Strays(t)
    BY DEF Strays
  <1>3. Watches(u)
    BY DEF Sound, Consistent, Watches
  <1>4. Owned(u)
    <2>1. \A g \in u.open \ (u.lost \cup {Listener}) :
             u.item[g].data \in UsedBy(u) /\ g \in Held(u, u.item[g].data)
      BY <1>1 DEF Sound, Consistent, Owned
    <2>2. \A d \in UsedBy(u) :
             /\ u.pool[d].client \in Fd /\ u.pool[d].client # u.pool[d].remote
             /\ \A g \in Held(u, d) : g \in u.open \ (u.lost \cup {Listener}) /\ u.item[g].data = d
      BY <1>1 DEF Sound, Consistent, Owned
    <2>3. \A g \in Strays(u) : u.item[g].data \in DOMAIN u.pool
      BY <1>2 DEF Sound, Consistent, Owned
    <2> QED
      BY <2>1, <2>2, <2>3 DEF Owned
  <1>5. Clean(u)
    <2> SUFFICES ASSUME NEW d \in DOMAIN u.pool, ~u.pool[d].inUse PROVE Unused(u, d)
      BY DEF Clean
    <2>1. CASE d = c
      <3>1. Zeroed.age = Never /\ Zeroed = [Zeroed EXCEPT !.age = Zeroed.age]
        BY DEF Zeroed
      <3> QED
        BY <2>1, <3>1 DEF Unused
    <2>2. CASE d # c
      <3>1. u.pool[d] = t.pool[d] /\ Unused(t, d)
        BY <2>2 DEF Sound, Consistent, Clean
      <3> QED
        BY <1>2, <3>1 DEF Unused
    <2> QED
      BY <2>1, <2>2
  <1>6. Counted(u)
    BY <1>1 DEF Sound, Consistent, Counted
  <1>7. Waiting(u)
    BY <1>1, <1>2 DEF Sound, Waiting, Waits
  <1> QED
    BY <1>1, <1>2, <1>3, <1>4, <1>5, <1>6, <1>7 DEF Sound, Consistent

(* A client that is accepted is registered, or everything is as before.    *)
LEMMA SoundAccept ==
    ASSUME Sound(Tables), Len(pool) <= MaxPool, Cardinality(InUse) < MaxPool,
           NEW f \in Fd \ open
    PROVE  LET u == Accept(f) IN
           /\ Sound(u) /\ Len(pool) <= Len(u.pool) /\ Len(u.pool) <= MaxPool
           /\ DOMAIN pool \subseteq DOMAIN u.pool
           /\ \A d \in InUse : d \in UsedBy(u) /\ u.pool[d] = pool[d]
           /\ \A d \in UsedBy(u) \ InUse : u.pool[d].remote = NoFd /\ u.pool[d].client = f
           /\ \A d \in DOMAIN u.pool : \/ u.pool[d].age = Never
                                       \/ d \in DOMAIN pool /\ u.pool[d].age = pool[d].age
           /\ u.lost = lost /\ Strays(u) = Strays(Tables)
           /\ \A g \in Fd : g # f => u.item[g] = item[g]
  <1> DEFINE x == Newcomer(f)
             s == Tables
             t == Accepted(f)
             c == Place
             u == Accept(f)
  <1>1. /\ s.open = open /\ s.item = item /\ s.pool = pool
        /\ s.current = current /\ s.lost = lost /\ UsedBy(s) = InUse
    BY DEF Tables, UsedBy, InUse
  <1> HIDE DEF s
  <1>2. /\ open \subseteq Fd /\ item \in [Fd -> Item] /\ current \in Nat /\ lost \subseteq Fd
        /\ f \in Fd /\ f \notin open /\ NoFd \notin Fd /\ lost \subseteq open
        /\ item[f] = FreeItem
    BY <1>1, LifecycleAssumption DEF Sound, Consistent, Table, Watches, Fd, NoFd, s
  <1>3. /\ t.open = open \cup {f} /\ t.item = item /\ t.current = current + 1
        /\ t.lost = lost
        /\ t.pool \in Seq(Connection) /\ c \in Index /\ c \notin InUse
        /\ c \in DOMAIN t.pool
        /\ DOMAIN t.pool = DOMAIN pool \cup {c}
        /\ Len(pool) <= Len(t.pool) /\ Len(t.pool) <= MaxPool
        /\ t.pool[c] = x
        /\ \A d \in DOMAIN pool : d # c => t.pool[d] = pool[d]
        /\ LeftAge = Never \/ (c \in DOMAIN pool /\ LeftAge = pool[c].age)
        /\ \A d \in DOMAIN pool \ InUse : Unused(s, d)
        /\ t = [open |-> t.open, item |-> t.item, pool |-> t.pool, current |-> t.current,
                lost |-> t.lost]
    BY AcceptedFields DEF s
  <1>4. /\ x.inUse = TRUE /\ x.client = f /\ x.remote = NoFd /\ x.age = LeftAge
        /\ x.phase = "talk" /\ x.takes = {"r"}
    BY DEF Zeroed, Newcomer
  <1> HIDE DEF x, t, c
  <1>5. \A d \in InUse : pool[d].client # f /\ d \in DOMAIN pool
    <2>1. ASSUME NEW d \in InUse PROVE pool[d].client # f
      <3>1. s.pool[d].client \in Held(s, d) /\ Held(s, d) \subseteq s.open
        <4>1. /\ s.pool[d].client \in Fd
              /\ \A g \in Held(s, d) : g \in s.open
          BY <1>1 DEF Sound, Consistent, Owned, s
        <4> QED
          BY <1>2, <4>1 DEF Held
      <3> QED
        BY <1>1, <1>2, <3>1
    <2> QED
      BY <2>1 DEF InUse
  <1>6. \A d \in DOMAIN t.pool : t.pool[d].client = f <=> d = c
    <2> SUFFICES ASSUME NEW d \in DOMAIN t.pool PROVE t.pool[d].client = f <=> d = c
      OBVIOUS
    <2>1. CASE d = c
      BY <1>3, <1>4, <2>1
    <2>2. CASE d # c /\ d \in InUse
      BY <1>3, <1>5, <2>2
    <2>3. CASE d # c /\ d \notin InUse
      <3>1. t.pool[d] = pool[d] /\ Unused(s, d)
        BY <1>3, <2>3
      <3>2. pool[d].client = NoFd
        BY <1>1, <3>1 DEF Unused, Zeroed
      <3> QED
        BY <1>2, <2>3, <3>1, <3>2
    <2> QED
      BY <2>1, <2>2, <2>3
  <1>7. (CHOOSE d \in DOMAIN t.pool : t.pool[d].client = f) = c
    BY <1>3, <1>6
  <1>8. \A d \in InUse : d \in DOMAIN t.pool /\ d # c /\ t.pool[d] = pool[d]
    BY <1>3, <1>5
  <1>9. CASE f < FdSetSize
    <2> DEFINE new == [used |-> TRUE, data |-> c, ops |-> {"r"}]
               i == [item EXCEPT ![f] = new]
    <2>1. u = [t EXCEPT !.item[f] = new]
      BY <1>7, <1>9 DEF Accept, t, c
    <2>2. u = [t EXCEPT !.item = i]
      BY <1>3, <2>1
    <2>3. new \in Item
      BY <1>3, LifecycleAssumption DEF Item, Index, Op
    <2>4. i \in [Fd -> Item]
      BY <1>2, <2>3
    <2>i. \A g \in Fd : g # f => i[g] = item[g]
      BY <1>2
    <2> HIDE DEF new, i, u
    <2>5. u = [open |-> open \cup {f}, item |-> i, pool |-> t.pool, current |-> current + 1,
               lost |-> lost]
      BY <1>3, <2>2
    <2>6. /\ u.open = open \cup {f} /\ u.item = i /\ u.pool = t.pool /\ u.current = current + 1
          /\ u.lost = lost
      BY <2>5
    <2>7. u \in Table
      <3>1. open \cup {f} \subseteq Fd /\ current + 1 \in Nat
        BY <1>2
      <3> QED
        BY <1>2, <1>3, <2>4, <2>5, <3>1 DEF Table
    <2>9. Arrival(s, u, f, c, x)
      <3>1. u.item = [s.item EXCEPT ![f] = [used |-> TRUE, data |-> c, ops |-> {"r"}]]
        BY <1>1, <2>6 DEF i, new
      <3> QED
        BY <1>1, <1>2, <1>3, <1>4, <2>6, <2>7, <3>1 DEF Arrival
    <2>11. /\ Sound(u) /\ UsedBy(u) = UsedBy(s) \cup {c}
           /\ Strays(u) = Strays(s)
      BY <2>9, SoundArrival DEF s
    <2>12. \A d \in DOMAIN u.pool : \/ u.pool[d].age = Never
                                    \/ d \in DOMAIN pool /\ u.pool[d].age = pool[d].age
      BY <1>3, <1>4, <2>6
    <2>13. /\ \A d \in InUse : d \in UsedBy(u) /\ u.pool[d] = pool[d]
           /\ \A d \in UsedBy(u) \ InUse : u.pool[d].remote = NoFd /\ u.pool[d].client = f
      BY <1>1, <1>3, <1>4, <1>8, <2>6, <2>11
    <2> QED
      BY <1>3, <2>i, <2>6, <2>11, <2>12, <2>13 DEF u, s
  <1>10. CASE ~(f < FdSetSize)
    <2>1. u = Dispose(t, {c})
      BY <1>7, <1>10 DEF Accept, Refuse, t, c
    <2> DEFINE fds == UNION {{t.pool[d].client, t.pool[d].remote} : d \in {c}}
               i == [g \in Fd |-> IF g \in fds THEN FreeItem ELSE t.item[g]]
               p == [d \in DOMAIN t.pool |-> IF d \in {c} THEN Zeroed ELSE t.pool[d]]
               n == t.current - Cardinality({c})
    <2>2. u = [open |-> t.open \ fds, item |-> i, pool |-> p, current |-> n, lost |-> t.lost]
      BY <2>1 DEF Dispose
    <2>3. fds = {f, NoFd}
      BY <1>3, <1>4
    <2> HIDE DEF fds
    <2>4. t.open \ fds = open
      BY <1>2, <1>3, <2>3
    <2>5. i = item
      <3>1. \A g \in Fd : (IF g \in fds THEN FreeItem ELSE item[g]) = item[g]
        BY <1>2, <2>3
      <3> QED
        BY <1>2, <1>3, <3>1
    <2>6. n = current
      <3>1. Cardinality({c}) = 1
        BY FS_Singleton
      <3> QED
        BY <1>2, <1>3, <3>1
    <2>7. DOMAIN p = DOMAIN t.pool
          /\ \A d \in DOMAIN t.pool : p[d] = IF d = c THEN Zeroed ELSE t.pool[d]
      OBVIOUS
    <2>8. p \in Seq(Connection) /\ Len(p) = Len(t.pool)
      <3>1. p = [t.pool EXCEPT ![c] = Zeroed]
        BY <1>3
      <3> QED
        BY <1>3, <3>1, RecordTypes, PoolWrite
    <2> HIDE DEF i, p, n, u
    <2>9. /\ u.open = open /\ u.item = item /\ u.pool = p /\ u.current = current
          /\ u.lost = lost /\ u \in Table
      BY <1>2, <1>3, <2>2, <2>4, <2>5, <2>6, <2>8 DEF Table
    <2>10. /\ DOMAIN u.pool = DOMAIN s.pool \cup {c} /\ u.pool[c] = Zeroed
           /\ \A d \in DOMAIN s.pool : d # c => u.pool[d] = s.pool[d]
           /\ u.open = s.open /\ u.item = s.item /\ u.current = s.current /\ u.lost = s.lost
           /\ Sound(s) /\ c \notin UsedBy(s)
      BY <1>1, <1>3, <2>7, <2>9 DEF s
    <2>11. Sound(u) /\ UsedBy(u) = UsedBy(s) /\ Strays(u) = Strays(s)
      BY <2>9, <2>10, SoundRefusal
    <2>12. \A d \in DOMAIN u.pool : \/ u.pool[d].age = Never
                                    \/ d \in DOMAIN pool /\ u.pool[d].age = pool[d].age
      <3>1. Zeroed.age = Never
        BY DEF Zeroed
      <3> QED
        BY <1>1, <2>10, <3>1
    <2>13. \A d \in InUse : d \in UsedBy(u) /\ u.pool[d] = pool[d]
      BY <1>1, <1>3, <1>8, <2>7, <2>9, <2>11
    <2> QED
      BY <1>1, <1>3, <2>8, <2>9, <2>10, <2>11, <2>12, <2>13 DEF u, s
  <1> QED
    BY <1>9, <1>10

-------------------------------------------------------------------------------
(* A step that makes u of the tables.                                      *)
LEMMA BecomeFacts ==
    ASSUME NEW u \in Table, Become(u)
    PROVE  /\ Tables' = u /\ InUse' = UsedBy(u)
           /\ open' = u.open /\ item' = u.item /\ pool' = u.pool /\ current' = u.current
           /\ lost' = u.lost
           /\ newborn' = newborn \cup (u.open \ open)
  <1>1. u = [open |-> u.open, item |-> u.item, pool |-> u.pool, current |-> u.current,
             lost |-> u.lost]
    BY DEF Table
  <1> QED
    BY <1>1 DEF Become, Tables, InUse, UsedBy

(* Without a step of the tables they stay as they are. *)
LEMMA TableKept ==
    ASSUME UNCHANGED table
    PROVE  /\ Tables' = Tables /\ InUse' = InUse
           /\ open' = open /\ item' = item /\ pool' = pool /\ current' = current /\ lost' = lost
  BY DEF table, Tables, InUse

(* The fields of the current tables. *)
LEMMA TablesAre ==
    /\ Tables.open = open /\ Tables.item = item /\ Tables.pool = pool
    /\ Tables.current = current /\ Tables.lost = lost /\ UsedBy(Tables) = InUse
    /\ \A d : Held(Tables, d) = {pool[d].client, pool[d].remote} \ {NoFd}
  BY DEF Tables, UsedBy, InUse, Held

(* The part of the types that is about the tables. *)
TablesOK ==
    /\ open \subseteq Fd /\ item \in [Fd -> Item]
    /\ pool \in Seq(Connection) /\ Len(pool) \in PoolSize..MaxPool
    /\ current \in 0..MaxPool /\ lost \subseteq Fd

(* Sound tables that the state becomes have the types. *)
LEMMA TableTypes ==
    ASSUME NEW u, Sound(u), Become(u), TypeOK, Len(pool) <= Len(u.pool), Len(u.pool) <= MaxPool
    PROVE  TablesOK' /\ newborn' \subseteq Fd
  <1>1. u \in Table /\ u.current = Cardinality(UsedBy(u))
    BY DEF Sound, Consistent, Counted
  <1>2. u.current <= Len(u.pool) /\ u.current \in Nat
    BY <1>1, UsedByFinite
  <1>3. /\ open' = u.open /\ item' = u.item /\ pool' = u.pool /\ current' = u.current
        /\ lost' = u.lost
        /\ newborn' = newborn \cup (u.open \ open)
    BY <1>1, BecomeFacts
  <1>4. Len(u.pool) \in Nat /\ Len(pool) \in PoolSize..MaxPool
    BY <1>1 DEF Table, TypeOK
  <1>5. Len(u.pool) \in PoolSize..MaxPool /\ u.current \in 0..MaxPool
    BY <1>2, <1>4, LifecycleAssumption
  <1> QED
    BY <1>1, <1>3, <1>5 DEF TablesOK, Table, TypeOK

(* Objects in use are numbered like the entries of the selector. *)
LEMMA InUseFacts ==
    ASSUME TypeOK, Sound(Tables), NEW c \in InUse
    PROVE  /\ c \in Index /\ c \in DOMAIN pool /\ pool[c] \in Connection
           /\ pool[c].client \in Fd /\ pool[c].client \in open /\ pool[c].client # Listener
           /\ pool[c].client \notin lost
           /\ item[pool[c].client].used /\ item[pool[c].client].data = c
           /\ Descriptors(c) = Held(Tables, c)
  <1>1. Consistent(Tables) /\ c \in UsedBy(Tables)
    BY TablesAre DEF Sound
  <1>2. DOMAIN pool = 1..Len(pool) /\ Len(pool) \in Nat /\ Len(pool) <= MaxPool
    BY LifecycleAssumption DEF TypeOK
  <1>3. c \in Index
    BY <1>2, LifecycleAssumption DEF Index, InUse
  <1>4. pool[c].client \in Held(Tables, c)
    BY <1>1, HeldFacts, TablesAre
  <1>5. /\ pool[c] \in Connection /\ c \in DOMAIN pool
        /\ \A f \in Held(Tables, c) : f \in Fd /\ f \in open /\ f # Listener /\ f \notin lost
        /\ \A f \in Held(Tables, c) : item[f].used /\ item[f].data = c
    BY <1>1, HeldFacts, TablesAre DEF Keyed
  <1> QED
    BY <1>3, <1>4, <1>5 DEF Descriptors, Held, Tables

(* An entry that is not in use awaits nothing. *)
LEMMA AwaitedIsUsed ==
    ASSUME Sound(Tables), NEW f \in Fd, item[f].ops # {}
    PROVE  item[f].used
  BY TablesAre DEF Sound, Consistent, Watches, FreeItem

(* Sequences over the same positions are equally long. *)
LEMMA SameLength ==
    ASSUME NEW S, NEW p \in Seq(S), NEW q \in Seq(S), DOMAIN p = DOMAIN q
    PROVE  Len(p) = Len(q)
  <1> DEFINE m == Len(p)
             n == Len(q)
  <1>a. DOMAIN p = 1..m /\ DOMAIN q = 1..n
    OBVIOUS
  <1>b. m \in Nat /\ n \in Nat
    OBVIOUS
  <1>c. 1..m = 1..n
    BY <1>a, Zenon
  <1>1. m \in Nat /\ n \in Nat /\ 1..m = 1..n
    BY <1>b, <1>c
  <1> HIDE DEF m, n
  <1>2. \A x \in Nat : x \in 1..m <=> x \in 1..n
    BY <1>1
  <1>3. \A x \in Nat : (1 <= x /\ x <= m) <=> (1 <= x /\ x <= n)
    BY <1>1, <1>2
  <1>4. m <= n
    BY <1>1, <1>3
  <1>5. n <= m
    BY <1>1, <1>3
  <1> QED
    BY <1>1, <1>4, <1>5 DEF m, n

(* A job given to an idle thread is a job of that connection. *)
LEMMA StartedType ==
    ASSUME NEW c \in Index, NEW f \in Fd, IdleThreads # {}
    PROVE  Started(c, f) \in Job /\ Started(c, f).conn = c /\ Started(c, f).fd = f
  <1>1. IdleThreads \subseteq 1..MaxThreads /\ 1..MaxThreads \subseteq Nat
    BY LifecycleAssumption DEF IdleThreads
  <1>2. Min(IdleThreads) \in 1..MaxThreads
    BY <1>1, MinIsLeast
  <1> QED
    BY <1>2 DEF Started, Job, Index

(* The jobs keep their askers while those who wait are left alone. *)
LEMMA QueueKept ==
    ASSUME NEW t, NEW u, NEW T, NEW s, Queued(t, T, s), \A j : Asker(t, j) => Asker(u, j)
    PROVE  Queued(u, T, s)
  BY DEF Queued

(* The handlers of one connection leave the askers of all others waiting.  *)
LEMMA AskerServed ==
    ASSUME NEW t, Consistent(t), NEW u, NEW c, Serves(t, u, c), NEW j, Asker(t, j), j.conn # c
    PROVE  Asker(u, j)
  <1> DEFINE d == j.conn
  <1>1. /\ d \in UsedBy(t) /\ d # c /\ t.pool[d].phase = "dns" /\ t.item[j.fd].data = d
        /\ j.fd = t.pool[d].client \/ j.fd \in Strays(t)
    BY DEF Asker
  <1>2. u.pool[d] = t.pool[d] /\ d \in UsedBy(u)
    BY <1>1 DEF Serves, UsedBy
  <1>3. CASE j.fd = t.pool[d].client
    <2>1. j.fd \in Held(t, d)
      BY <1>1, <1>3, HeldFacts
    <2>2. u.item[j.fd] = t.item[j.fd]
      BY <1>1, <2>1 DEF Serves
    <2> QED
      BY <1>1, <1>2, <1>3, <2>2 DEF Asker
  <1>4. CASE j.fd \in Strays(t)
    <2>1. u.item[j.fd].used /\ u.item[j.fd].data = t.item[j.fd].data /\ j.fd \in u.lost
      BY <1>4 DEF Serves, Strays
    <2> QED
      BY <1>1, <1>2, <2>1 DEF Asker, Strays
  <1> QED
    BY <1>1, <1>3, <1>4

(* Tables in which at most ages are new.                                   *)
Ageing(t) ==
    /\ t.open = open /\ t.item = item /\ t.lost = lost
    /\ UsedBy(t) = InUse /\ DOMAIN t.pool = DOMAIN pool
    /\ \A d \in DOMAIN pool : /\ t.pool[d].client = pool[d].client
                              /\ t.pool[d].remote = pool[d].remote
                              /\ t.pool[d].phase = pool[d].phase
                              /\ t.pool[d].takes = pool[d].takes

(* Nobody and nothing but the ages is different in them. *)
LEMMA AgeingFacts ==
    ASSUME NEW t, Ageing(t)
    PROVE  /\ Strays(t) = Strays(Tables)
           /\ \A c, f : Keyed(t, c, f) <=> Keyed(Tables, c, f)
           /\ \A d \in DOMAIN pool : Ties(t, d) = Ties(Tables, d)
           /\ \A j : Asker(t, j) <=> Asker(Tables, j)
  <1>1. Strays(t) = Strays(Tables)
    BY TablesAre DEF Ageing, Strays
  <1>2. \A d \in DOMAIN pool : /\ t.pool[d].inUse <=> pool[d].inUse
                               /\ d \in InUse <=> pool[d].inUse
    BY DEF Ageing, UsedBy, InUse
  <1>3. \A d \in DOMAIN pool : Ties(t, d) = Ties(Tables, d)
    <2> SUFFICES ASSUME NEW d \in DOMAIN pool PROVE Ties(t, d) = Ties(Tables, d)
      OBVIOUS
    <2>1. /\ t.pool[d].inUse <=> pool[d].inUse
          /\ t.pool[d].client = pool[d].client /\ t.item = item
      BY <1>2 DEF Ageing
    <2>2. (IF t.pool[d].inUse THEN {t.pool[d].client} ELSE {})
             = (IF pool[d].inUse THEN {pool[d].client} ELSE {})
      BY <2>1
    <2> QED
      BY <1>1, <2>1, <2>2, TablesAre DEF Ties
  <1>4. \A j : Asker(t, j) <=> Asker(Tables, j)
    <2>1. \A d \in InUse : d \in DOMAIN pool
      BY DEF InUse
    <2> QED
      BY <1>1, <2>1, TablesAre DEF Ageing, Asker
  <1> QED
    BY <1>1, <1>3, <1>4, TablesAre DEF Ageing, Keyed

(* What the handlers of one connection leave behind: nobody new, no other  *)
(* age, and all that ties an object to the selector, unless it is empty.   *)
Handled(t, u) ==
    /\ Sound(u) /\ Become(u)
    /\ DOMAIN u.pool = DOMAIN pool /\ Len(u.pool) = Len(pool)
    /\ \A d \in UsedBy(u) : d \in InUse /\ u.pool[d].client = pool[d].client
    /\ \A d \in DOMAIN pool : \/ u.pool[d].age = Never
                              \/ /\ u.pool[d].age = t.pool[d].age
                                 /\ Ties(Tables, d) \subseteq Ties(u, d)

(* The handlers of c leave no more behind than that. *)
LEMMA ServesHandles ==
    ASSUME TypeOK, Sound(Tables), NEW t, Sound(t), Ageing(t), NEW c \in InUse,
           NEW u, Sound(u), Become(u), Serves(t, u, c)
    PROVE  Handled(t, u)
  <1>1. /\ DOMAIN t.pool = DOMAIN pool /\ UsedBy(t) = InUse /\ c \in DOMAIN pool
        /\ \A d \in DOMAIN pool : t.pool[d].client = pool[d].client
    BY DEF Ageing, InUse
  <1>2. DOMAIN u.pool = DOMAIN pool /\ \A d \in DOMAIN pool \ {c} : u.pool[d] = t.pool[d]
    BY <1>1 DEF Serves
  <1>3. Len(u.pool) = Len(pool)
    <2>1. u.pool \in Seq(Connection) /\ pool \in Seq(Connection)
      BY DEF Sound, Consistent, Table, TypeOK
    <2> QED
      BY <1>2, <2>1, SameLength
  <1>4. \A d \in DOMAIN pool \ {c} : d \in UsedBy(u) <=> d \in InUse
    BY <1>1, <1>2 DEF UsedBy
  <1>5. ASSUME NEW d \in UsedBy(u) PROVE d \in InUse /\ u.pool[d].client = pool[d].client
    <2>1. CASE d = c
      BY <1>1, <1>5, <2>1 DEF Serves
    <2>2. CASE d # c
      <3>1. d \in DOMAIN pool
        BY <1>2 DEF UsedBy
      <3> QED
        BY <1>1, <1>2, <1>4, <2>2, <3>1
    <2> QED
      BY <2>1, <2>2
  <1>6. Strays(Tables) \subseteq Strays(u)
        /\ \A f \in Strays(Tables) : u.item[f].data = item[f].data
    <2>1. Strays(t) = Strays(Tables) /\ t.item = item
      BY AgeingFacts DEF Ageing
    <2>2. \A f \in Strays(t) : f \in u.lost /\ u.item[f].used /\ u.item[f].data = t.item[f].data
      BY DEF Serves, Strays
    <2> QED
      BY <2>1, <2>2 DEF Strays
  <1>7. ASSUME NEW d \in DOMAIN pool, u.pool[d].age # Never
        PROVE  u.pool[d].age = t.pool[d].age /\ Ties(Tables, d) \subseteq Ties(u, d)
    <2>1. pool[d].inUse => u.pool[d].inUse /\ u.pool[d].client = pool[d].client
      <3>1. CASE d = c
        <4>1. c \in UsedBy(u)
          BY <1>7, <3>1 DEF Serves
        <4> QED
          BY <1>5, <3>1, <4>1 DEF UsedBy
      <3>2. CASE d # c
        BY <1>1, <1>2, <1>4, <3>2 DEF InUse, UsedBy
      <3> QED
        BY <3>1, <3>2
    <2>2. u.pool[d].age = t.pool[d].age
      <3>1. CASE d = c
        BY <1>7, <3>1 DEF Serves
      <3>2. CASE d # c
        BY <1>2, <3>2
      <3> QED
        BY <3>1, <3>2
    <2>3. Ties(Tables, d) \subseteq Ties(u, d)
      <3> SUFFICES ASSUME NEW f \in Ties(Tables, d) PROVE f \in Ties(u, d)
        OBVIOUS
      <3>1. \/ f \in Strays(Tables) /\ item[f].data = d
            \/ pool[d].inUse /\ f = pool[d].client
        BY TablesAre DEF Ties
      <3> QED
        BY <1>6, <2>1, <3>1 DEF Ties
    <2> QED
      BY <2>2, <2>3
  <1> QED
    BY <1>2, <1>3, <1>5, <1>7 DEF Handled

(* A handler of a connection, for what its descriptor awaits. *)
LEMMA HandleStep ==
    ASSUME LifecycleInv, pc = "ready", NEW t, Sound(t), Ageing(t),
           NEW c \in DOMAIN pool, NEW f, Keyed(Tables, c, f), f # Listener,
           NEW o \in item[f].ops,
           Handle(t, c, f, o), UNCHANGED <<answers, cut>>
    PROVE  \/ /\ pc' \in {"crashed", "aborted"} /\ (pc' = "aborted" => Strays(Tables) # {})
              /\ UNCHANGED <<table, newborn, threads>>
           \/ /\ pc' = pc /\ threads' \subseteq Job /\ ClientsAsk' /\ AskersWait'
              /\ \E u : Handled(t, u)
  <1>1. TypeOK /\ Sound(Tables) /\ ClientsAsk
    BY DEF LifecycleInv, SoundUntilStopped
  <1>2. /\ t.pool[c].inUse <=> c \in InUse
        /\ t.pool[c].takes = pool[c].takes /\ t.pool[c].phase = pool[c].phase
        /\ f \in Fd
    BY DEF Ageing, InUse, UsedBy, Keyed
  <1>3. CASE ~t.pool[c].inUse
    BY <1>3 DEF Handle
  <1>4. ASSUME t.pool[c].inUse, o \notin t.pool[c].takes, pc' = "aborted",
               UNCHANGED <<table, newborn, threads>>
        PROVE  Strays(Tables) # {}
    <2>1. c \in UsedBy(Tables) /\ o \notin pool[c].takes
      BY <1>2, <1>4, TablesAre
    <2>2. f \in Held(Tables, c) \/ f \in Strays(Tables)
      BY <1>1, <2>1, HeldFacts DEF Sound
    <2>3. Strays(Tables) = {} => \A g \in Held(Tables, c) : item[g].ops \subseteq pool[c].takes
      BY <1>1, <2>1, TablesAre DEF Sound, Waiting, Waits
    <2> QED
      BY <2>1, <2>2, <2>3
  <1>5. ASSUME t.pool[c].inUse, o \in t.pool[c].takes
        PROVE  /\ c \in InUse /\ c \in Index /\ c \in UsedBy(t) /\ Keyed(t, c, f)
               /\ \A j : Asker(Tables, j) => Asker(t, j) /\ j.conn # c
    <2>1. c \in InUse /\ c \in UsedBy(t)
      BY <1>2, <1>5 DEF Ageing
    <2>2. c \in Index
      BY <1>1, <2>1, InUseFacts
    <2>3. Waits(t, c)
      BY <2>1 DEF Sound, Waiting
    <2>4. t.pool[c].phase # "dns"
      BY <1>5, <2>3 DEF Waits
    <2>5. \A j : Asker(t, j) => j.conn # c
      BY <2>4 DEF Asker
    <2> QED
      BY <2>1, <2>2, <2>5, AgeingFacts
  <1>6. ASSUME t.pool[c].inUse, o \in t.pool[c].takes, UNCHANGED <<pc, threads>>,
               NEW u \in Outcomes(t, c, f, o), Become(u)
        PROVE  pc' = pc /\ threads' \subseteq Job /\ ClientsAsk' /\ AskersWait' /\ Handled(t, u)
    <2>1. Sound(u) /\ Serves(t, u, c)
      BY <1>5, <1>6, HandlersAreSound
    <2>2. Handled(t, u)
      BY <1>1, <1>5, <1>6, <2>1, ServesHandles
    <2>3. Tables' = u
      BY <1>6, <2>1, BecomeFacts DEF Sound, Consistent
    <2>4. AskersWait'
      <3>1. ~cut => Queued(Tables, threads, answers)
        BY DEF LifecycleInv, AskersWait
      <3>2. \A j : Asker(Tables, j) => Asker(u, j)
        BY <1>5, <1>6, <2>1, AskerServed DEF Sound
      <3>3. ~cut => Queued(u, threads, answers)
        BY <3>1, <3>2, QueueKept
      <3> QED
        BY <1>6, <2>3, <3>3 DEF AskersWait
    <2> QED
      BY <1>1, <1>6, <2>2, <2>4 DEF TypeOK, ClientsAsk
  <1>7. ASSUME t.pool[c].inUse, o \in t.pool[c].takes, UNCHANGED pc,
               Asks(t, c, o), Ask(t, c, f)
        PROVE  pc' = pc /\ threads' \subseteq Job /\ ClientsAsk' /\ AskersWait'
               /\ \E u : Handled(t, u)
    <2> DEFINE u == InState(Interest(Named(t, c), f, {}), c, "dns", {})
    <2>1. t.pool[c].phase = "talk"
      BY <1>7 DEF Asks
    <2>2. Become(u)
      BY <1>7 DEF Ask
    <2>3. /\ Sound(u) /\ UsedBy(u) = UsedBy(t) /\ Serves(t, u, c)
          /\ u.pool[c].phase = "dns"
          /\ Keyed(u, c, f) /\ (f = u.pool[c].client \/ f \in Strays(u))
      BY <1>5, <1>7, <2>1, SoundAsking
    <2>4. \/ UNCHANGED threads
          \/ IdleThreads # {} /\ threads' = threads \cup {Started(c, f)}
      BY <1>7 DEF Ask
    <2> HIDE DEF u
    <2>5. Handled(t, u)
      BY <1>1, <1>5, <1>7, <2>2, <2>3, ServesHandles
    <2>6. Tables' = u
      BY <2>2, <2>3, BecomeFacts DEF Sound, Consistent
    <2>7. \A j : Asker(Tables, j) => Asker(u, j) /\ j.conn # c
      BY <1>5, <1>7, <2>3, AskerServed DEF Sound
    <2>8. IdleThreads # {} => /\ Started(c, f) \in Job /\ Started(c, f).conn = c
                              /\ Started(c, f).fd = f
      BY <1>2, <1>5, <1>7, StartedType
    <2>9. threads' \subseteq Job /\ ClientsAsk'
      BY <1>1, <2>4, <2>8 DEF TypeOK, ClientsAsk
    <2>10. AskersWait'
      <3>1. ~cut => Queued(Tables, threads, answers)
        BY DEF LifecycleInv, AskersWait
      <3>2. ~cut => Queued(u, threads', answers)
        <4>1. CASE UNCHANGED threads
          BY <2>7, <3>1, <4>1, QueueKept
        <4>2. CASE IdleThreads # {} /\ threads' = threads \cup {Started(c, f)}
          <5>0. PICK job : job = Started(c, f)
            OBVIOUS
          <5>1. job.conn = c /\ job.fd = f
            BY <2>8, <4>2, <5>0
          <5>2. Asker(u, job)
            BY <1>5, <1>7, <2>3, <5>1 DEF Asker, Keyed
          <5>3. threads' = threads \cup {job}
            BY <4>2, <5>0
          <5> QED
            BY <2>7, <3>1, <5>1, <5>2, <5>3 DEF Queued
        <4> QED
          BY <2>4, <4>1, <4>2
      <3> QED
        BY <1>7, <2>6, <3>2 DEF AskersWait
    <2> QED
      BY <1>7, <2>5, <2>9, <2>10
  <1>8. CASE t.pool[c].inUse /\ o \notin t.pool[c].takes
    <2>1. pc' = "aborted" /\ UNCHANGED <<table, newborn, threads>>
      BY <1>8 DEF Handle
    <2> QED
      BY <1>4, <1>8, <2>1
  <1>9. CASE t.pool[c].inUse /\ o \in t.pool[c].takes
    <2>1. \/ \E u \in Outcomes(t, c, f, o) : Become(u) /\ UNCHANGED <<pc, threads>>
          \/ Asks(t, c, o) /\ Ask(t, c, f) /\ UNCHANGED pc
      BY <1>9 DEF Handle
    <2> QED
      BY <1>6, <1>7, <1>9, <2>1
  <1> QED
    BY <1>3, <1>8, <1>9

-------------------------------------------------------------------------------
(* The steps of the selector.                                              *)

(* The server crashes or aborts; its memory stays as it was.               *)
Ending ==
    /\ pc # "stopped" /\ pc' \in {"crashed", "aborted"}
    /\ pc' = "aborted" /\ ~cut => Strays(Tables) # {}
    /\ UNCHANGED <<table, newborn, threads, timeout, silent>>
    /\ answers' \in Seq(Job) /\ cut' \in BOOLEAN /\ (~cut' => ~cut)
    /\ ~cut => Queued(Tables, threads, answers')
    /\ turn' \in [i : 0..(MaxFd + 1), half : Op, n : Fd]
    /\ slave' \in [Op -> SUBSET Fd]

(* What was true of it before is true of it then. *)
LEMMA EndedStep ==
    ASSUME LifecycleInv, Ending, ClientsAsk'
    PROVE  LifecycleInv'
  <1>1. /\ Tables' = Tables /\ InUse' = InUse
        /\ open' = open /\ item' = item /\ pool' = pool /\ current' = current /\ lost' = lost
    BY TableKept DEF Ending
  <1>2. TypeOK /\ Sound(Tables)
    BY DEF LifecycleInv, SoundUntilStopped, Ending
  <1>3. TypeOK'
    BY <1>1, <1>2 DEF TypeOK, Ended, Ending
  <1>4. SoundUntilStopped' /\ NothingIsNew' /\ ListenerFirst' /\ NewClientsAreNotReady' /\ Clocked'
    BY <1>1, <1>2
       DEF SoundUntilStopped, NothingIsNew, ListenerFirst, NewClientsAreNotReady, Clocked,
           Ending
  <1>5. AskersWait'
    BY <1>1 DEF AskersWait, Ending
  <1> QED
    BY <1>3, <1>4, <1>5 DEF LifecycleInv

(* handle_iteration: the tables after a visit to descriptor f.             *)
Visited(f, u) ==
    /\ Sound(u) /\ Become(u)
    /\ Len(pool) <= Len(u.pool) /\ Len(u.pool) <= MaxPool
    /\ \A d \in UsedBy(u) : \/ d \in InUse /\ u.pool[d].client = pool[d].client
                            \/ f = Listener /\ u.pool[d].client \in Fd \ open
    /\ \A d \in DOMAIN u.pool :
          \/ u.pool[d].age \in {0, Never}
          \/ /\ d \in DOMAIN pool /\ d # item[f].data
             /\ u.pool[d].age = pool[d].age /\ Ties(Tables, d) \subseteq Ties(u, d)

(* The tables after an item of the iteration was visited for reading. *)
LEMMA VisitTables ==
    ASSUME LifecycleInv, Visit
    PROVE  /\ Following(turn.n) \in Fd /\ Following(turn.n) \in turn.i..turn.n
           /\ item[Following(turn.n)].used
           /\ \A g \in turn.i..turn.n : item[g].used => Following(turn.n) <= g
           /\ \/ /\ pc' \in {"crashed", "aborted"} /\ (pc' = "aborted" => Strays(Tables) # {})
                 /\ UNCHANGED <<table, newborn, threads>>
              \/ /\ pc' = pc /\ threads' \subseteq Job /\ ClientsAsk' /\ AskersWait'
                 /\ \E u : Visited(Following(turn.n), u)
  <1>1. PICK f : f = Following(turn.n)
    OBVIOUS
  <1>2. /\ pc = "ready" /\ turn.half = "r" /\ f # NoFd
        /\ UNCHANGED <<timeout, answers, silent, cut>>
    BY <1>1 DEF Visit
  <1>3. TypeOK /\ Sound(Tables) /\ ClientsAsk /\ ListenerFirst /\ AskersWait
    BY <1>2 DEF LifecycleInv, SoundUntilStopped
  <1>4. turn.i \in 0..(MaxFd + 1) /\ turn.n \in 0..MaxFd /\ MaxFd \in Nat
    BY <1>3, LifecycleAssumption DEF TypeOK, Fd
  <1>5. f \in turn.i..turn.n /\ item[f].used
        /\ \A g \in turn.i..turn.n : item[g].used => f <= g
    <2> DEFINE S == {g \in turn.i..turn.n : item[g].used}
    <2>1. S \subseteq Nat
      BY <1>4
    <2>2. f = Lowest(S)
      BY <1>1 DEF Following
    <2>3. f \in S /\ \A g \in S : f <= g
      BY <1>2, <2>1, <2>2, LowestIsLeast
    <2> QED
      BY <2>3
  <1>6. f \in Fd /\ f \in Nat
    BY <1>4, <1>5 DEF Fd
  <1>7. /\ item[f].data = 0 <=> f = Listener
        /\ f # Listener => item[f].data \in DOMAIN pool /\ Keyed(Tables, item[f].data, f)
    BY <1>3, <1>5, <1>6, EntryFacts
  <1> DEFINE due == f \in slave["r"] /\ "r" \in item[f].ops
             t == Refreshed(f)
             c == item[f].data
  <1>8. /\ Sound(t) /\ Ageing(t) /\ DOMAIN t.pool = DOMAIN pool
        /\ \A d \in DOMAIN pool : d # c => t.pool[d] = pool[d]
        /\ \A d \in DOMAIN pool : d = c => t.pool[d].age = 0
        /\ \A d \in DOMAIN pool : t.pool[d].client = pool[d].client
    BY <1>3, <1>5, <1>6, SoundRefreshed DEF Ageing
  <1>9. \A d \in DOMAIN pool : t.pool[d].age = 0 \/ (d # c /\ t.pool[d].age = pool[d].age)
    <2>1. ASSUME NEW d \in DOMAIN pool, d # c PROVE t.pool[d].age = pool[d].age
      <3>1. t.pool[d] = pool[d]
        BY <1>8, <2>1
      <3> QED
        BY <3>1
    <2> QED
      BY <1>8, <2>1
  <1> HIDE DEF t, due, c
  <1>11. Len(pool) \in Nat /\ Len(pool) <= MaxPool
    <2>3. Len(pool) \in PoolSize..MaxPool
      BY <1>3 DEF TypeOK
    <2> QED
      BY <2>3, LifecycleAssumption
  <1>12. /\ ~due => Become(t) /\ UNCHANGED <<pc, threads>>
         /\ due /\ c = 0 => Socks5PassiveAccept /\ UNCHANGED <<pc, threads>>
         /\ due /\ c # 0 => Handle(t, c, f, "r")
    BY <1>1 DEF Visit, due, t, c
  <1>13. ASSUME UNCHANGED <<pc, threads>>, NEW u, Sound(u), Become(u),
                \A j : Asker(Tables, j) => Asker(u, j)
         PROVE  pc' = pc /\ threads' \subseteq Job /\ ClientsAsk' /\ AskersWait'
    <2>1. Tables' = u
      BY <1>13, BecomeFacts DEF Sound, Consistent
    <2>2. ~cut => Queued(Tables, threads, answers)
      BY <1>2, <1>3 DEF AskersWait
    <2>3. ~cut => Queued(u, threads, answers)
      BY <1>13, <2>2, QueueKept
    <2>4. AskersWait'
      BY <1>2, <1>13, <2>1, <2>3 DEF AskersWait
    <2> QED
      BY <1>2, <1>3, <1>13, <2>4 DEF TypeOK, ClientsAsk
  <1>a. ASSUME NEW u, Handled(t, u) PROVE Visited(f, u)
    <2>1. /\ Sound(u) /\ Become(u) /\ Len(u.pool) = Len(pool) /\ DOMAIN u.pool = DOMAIN pool
          /\ \A d \in UsedBy(u) : d \in InUse /\ u.pool[d].client = pool[d].client
          /\ \A d \in DOMAIN pool : \/ u.pool[d].age = Never
                                    \/ /\ u.pool[d].age = t.pool[d].age
                                       /\ Ties(Tables, d) \subseteq Ties(u, d)
      BY <1>a DEF Handled
    <2>2. \A d \in DOMAIN u.pool :
             \/ u.pool[d].age \in {0, Never}
             \/ /\ d \in DOMAIN pool /\ d # c
                /\ u.pool[d].age = pool[d].age /\ Ties(Tables, d) \subseteq Ties(u, d)
      BY <1>9, <2>1
    <2> QED
      BY <1>11, <2>1, <2>2 DEF Visited, c
  <1>14. CASE ~due
    <2>1. Become(t) /\ UNCHANGED <<pc, threads>>
      BY <1>12, <1>14
    <2>2. \A j : Asker(Tables, j) => Asker(t, j)
      BY <1>8, AgeingFacts
    <2>3. pc' = pc /\ threads' \subseteq Job /\ ClientsAsk' /\ AskersWait'
      BY <1>8, <1>13, <2>1, <2>2
    <2>4. Handled(t, t)
      <3>1. \A d \in DOMAIN pool : Ties(t, d) = Ties(Tables, d)
        BY <1>8, AgeingFacts
      <3>2. \A d \in UsedBy(t) : d \in InUse /\ d \in DOMAIN pool
        BY <1>8 DEF Ageing, InUse
      <3>3. Len(t.pool) = Len(pool)
        <4>1. t.pool \in Seq(Connection) /\ pool \in Seq(Connection)
          BY <1>3, <1>8 DEF Sound, Consistent, Table, TypeOK
        <4> QED
          BY <1>8, <4>1, SameLength
      <3> QED
        BY <1>8, <2>1, <3>1, <3>2, <3>3 DEF Handled
    <2> QED
      BY <1>1, <1>5, <1>6, <1>a, <2>3, <2>4
  <1>15. CASE due /\ c = 0
    <2>1. f = Listener
      BY <1>7, <1>15 DEF c
    <2>2. turn.i = 0 /\ Listener \in slave["r"]
      BY <1>4, <1>5, <1>6, <1>15, <2>1 DEF Listener, due
    <2>3. Cardinality(InUse) < MaxPool
      BY <1>2, <1>3, <2>2 DEF ListenerFirst
    <2>4. PICK g : g = Lowest(Fd \ open)
      OBVIOUS
    <2>z. 0 \notin DOMAIN pool
      BY <1>3 DEF TypeOK
    <2>5. CASE g = NoFd
      <3>1. UNCHANGED <<table, newborn>> /\ UNCHANGED <<pc, threads>>
        BY <1>12, <1>15, <2>4, <2>5 DEF Socks5PassiveAccept
      <3>2. Become(Tables)
        BY <3>1 DEF Become, table, Tables
      <3>3. pc' = pc /\ threads' \subseteq Job /\ ClientsAsk' /\ AskersWait'
        BY <1>3, <1>13, <3>1, <3>2
      <3>5. Visited(f, Tables)
        BY <1>3, <1>11, <1>15, <2>z, <3>2, TablesAre DEF Visited, c
      <3> QED
        BY <1>1, <1>5, <1>6, <3>3, <3>5
    <2>6. CASE g # NoFd
      <3>1. g \in Fd \ open
        <4>1. Fd \ open \subseteq Nat
          BY LifecycleAssumption DEF Fd
        <4> QED
          BY <2>4, <2>6, <4>1, LowestIsLeast
      <3> DEFINE u == Accept(g)
      <3>2. Become(u) /\ UNCHANGED <<pc, threads>>
        BY <1>12, <1>15, <2>4, <2>6 DEF Socks5PassiveAccept
      <3>3. /\ Sound(u) /\ Len(pool) <= Len(u.pool) /\ Len(u.pool) <= MaxPool
            /\ \A d \in InUse : d \in UsedBy(u) /\ u.pool[d] = pool[d]
            /\ \A d \in UsedBy(u) \ InUse : u.pool[d].remote = NoFd /\ u.pool[d].client = g
            /\ \A d \in DOMAIN u.pool : \/ u.pool[d].age = Never
                                        \/ d \in DOMAIN pool /\ u.pool[d].age = pool[d].age
            /\ u.lost = lost /\ Strays(u) = Strays(Tables)
            /\ \A h \in Fd : h # g => u.item[h] = item[h]
        BY <1>3, <1>11, <2>3, <3>1, SoundAccept
      <3> HIDE DEF u
      <3>4. \A h \in Fd : item[h].used => h # g
        BY <1>3, <3>1, TablesAre DEF Sound, Consistent, Watches
      <3>5. \A h \in Strays(Tables) : h \in Fd /\ h # g /\ u.item[h] = item[h]
        <4>1. lost \subseteq Fd
          BY <1>3 DEF TypeOK
        <4> QED
          BY <3>3, <3>4, <4>1, TablesAre DEF Strays
      <3>6. \A j : Asker(Tables, j) => Asker(u, j)
        <4> SUFFICES ASSUME NEW j, Asker(Tables, j) PROVE Asker(u, j)
          OBVIOUS
        <4>1. /\ j.conn \in InUse /\ pool[j.conn].phase = "dns"
              /\ j.fd = pool[j.conn].client \/ j.fd \in Strays(Tables)
              /\ item[j.fd].data = j.conn
          BY TablesAre DEF Asker
        <4>2. u.item[j.fd] = item[j.fd]
          <5>1. CASE j.fd = pool[j.conn].client
            <6>1. j.fd \in Fd /\ item[j.fd].used
              BY <1>3, <4>1, <5>1, InUseFacts
            <6> QED
              BY <3>3, <3>4, <6>1
          <5> QED
            BY <3>5, <4>1, <5>1
        <4> QED
          BY <3>3, <4>1, <4>2 DEF Asker
      <3>7. pc' = pc /\ threads' \subseteq Job /\ ClientsAsk' /\ AskersWait'
        BY <1>13, <3>2, <3>3, <3>6
      <3>8. \A d \in DOMAIN pool : Ties(Tables, d) \subseteq Ties(u, d)
        <4> SUFFICES ASSUME NEW d \in DOMAIN pool, NEW h \in Ties(Tables, d) PROVE h \in Ties(u, d)
          OBVIOUS
        <4>1. \/ h \in Strays(Tables) /\ item[h].data = d
              \/ d \in InUse /\ h = pool[d].client
          BY TablesAre DEF Ties, InUse
        <4>2. CASE h \in Strays(Tables) /\ item[h].data = d
          BY <3>3, <3>5, <4>2 DEF Ties
        <4>3. CASE d \in InUse /\ h = pool[d].client
          BY <3>3, <4>3 DEF Ties, UsedBy
        <4> QED
          BY <4>1, <4>2, <4>3
      <3>9. Visited(f, u)
        <4>1. \A d \in DOMAIN u.pool :
                 \/ u.pool[d].age \in {0, Never}
                 \/ /\ d \in DOMAIN pool /\ d # item[f].data
                    /\ u.pool[d].age = pool[d].age /\ Ties(Tables, d) \subseteq Ties(u, d)
          BY <1>15, <2>z, <3>3, <3>8 DEF c
        <4>2. \A d \in UsedBy(u) : \/ d \in InUse /\ u.pool[d].client = pool[d].client
                                   \/ f = Listener /\ u.pool[d].client \in Fd \ open
          BY <2>1, <3>1, <3>3
        <4> QED
          BY <3>2, <3>3, <4>1, <4>2 DEF Visited
      <3> QED
        BY <1>1, <1>5, <1>6, <3>7, <3>9
    <2> QED
      BY <2>5, <2>6
  <1>16. CASE due /\ c # 0
    <2>1. c \in DOMAIN pool /\ Keyed(Tables, c, f) /\ f # Listener /\ "r" \in item[f].ops
      BY <1>7, <1>16 DEF c, due
    <2>2. Handle(t, c, f, "r")
      BY <1>12, <1>16
    <2>3. \/ /\ pc' \in {"crashed", "aborted"} /\ (pc' = "aborted" => Strays(Tables) # {})
             /\ UNCHANGED <<table, newborn, threads>>
          \/ /\ pc' = pc /\ threads' \subseteq Job /\ ClientsAsk' /\ AskersWait'
             /\ \E u : Handled(t, u)
      BY <1>2, <1>8, <2>1, <2>2, HandleStep
    <2> QED
      BY <1>1, <1>5, <1>6, <1>a, <2>3
  <1> QED
    BY <1>14, <1>15, <1>16

(* What ties an object to the selector is watched, on behalf of the object.*)
LEMMA TiesFacts ==
    ASSUME TypeOK, Sound(Tables), NEW d \in DOMAIN pool, NEW g \in Ties(Tables, d)
    PROVE  g \in Fd /\ g \in Nat /\ item[g].used /\ item[g].data = d
  <1>1. \/ g \in lost /\ item[g].used /\ item[g].data = d
        \/ d \in InUse /\ g = pool[d].client
    BY TablesAre DEF Ties, Strays, InUse
  <1>2. lost \subseteq Fd /\ \A n \in Fd : n \in Nat
    BY LifecycleAssumption DEF TypeOK, Fd
  <1> QED
    BY <1>1, <1>2, InUseFacts

(* The ages after a step of the iteration, which brings it from turn.i to  *)
(* another one: what was due is, but for what the step refreshed.          *)
LEMMA ClockedOn ==
    ASSUME TypeOK, Sound(Tables), Clocked, pc = "ready", NEW u, Tables' = u, pool' = u.pool,
           turn'.n = turn.n, NEW c,
           \A d \in DOMAIN u.pool :
              \/ u.pool[d].age \in {0, Never}
              \/ /\ d \in DOMAIN pool /\ d # c
                 /\ u.pool[d].age = pool[d].age /\ Ties(Tables, d) \subseteq Ties(u, d),
           \A g \in Fd : item[g].used /\ item[g].data # c /\ g <= turn.n /\ ~Passed(g) => ~Passed(g)',
           pc' = "ready"
    PROVE  Clocked'
  <1>1. ASSUME NEW d \in DOMAIN u.pool
        PROVE  \/ u.pool[d].age \in {0, Never}
               \/ \E g \in Ties(u, d) : g <= turn.n /\ ~Passed(g)'
    <2>1. CASE /\ d \in DOMAIN pool /\ d # c
               /\ u.pool[d].age = pool[d].age /\ Ties(Tables, d) \subseteq Ties(u, d)
      <3>1. pool[d].age \in {0, Never} \/ \E g \in Ties(Tables, d) : g <= turn.n /\ ~Passed(g)
        BY <2>1 DEF Clocked, Due
      <3>2. ASSUME NEW g \in Ties(Tables, d), g <= turn.n, ~Passed(g)
            PROVE  g \in Ties(u, d) /\ ~Passed(g)'
        <4>1. g \in Fd /\ item[g].used /\ item[g].data = d
          BY <2>1, TiesFacts
        <4> QED
          BY <2>1, <3>2, <4>1
      <3> QED
        BY <2>1, <3>1, <3>2
    <2> QED
      BY <2>1
  <1>2. \A d \in DOMAIN pool' : pool'[d].age \in {0, Never} \/ Due(Tables, d)'
    BY <1>1 DEF Due
  <1> QED
    BY <1>2 DEF Clocked

(* A visit keeps the invariant. *)
LEMMA VisitStep ==
    ASSUME LifecycleInv, Visit
    PROVE  LifecycleInv'
  <1>1. PICK f : f = Following(turn.n)
    OBVIOUS
  <1>2. /\ pc = "ready" /\ turn.half = "r"
        /\ turn' = [turn EXCEPT !.i = f, !.half = "w"]
        /\ slave' = [o \in Op |-> slave[o] \ 0..(f - 1)]
        /\ UNCHANGED <<timeout, answers, silent, cut>>
    BY <1>1 DEF Visit
  <1>3. TypeOK /\ Sound(Tables) /\ ListenerFirst /\ NewClientsAreNotReady /\ Clocked
        /\ AskersWait /\ ClientsAsk
    BY <1>2 DEF LifecycleInv, SoundUntilStopped
  <1>4. /\ f \in Fd /\ f \in turn.i..turn.n /\ item[f].used
        /\ \A g \in turn.i..turn.n : item[g].used => f <= g
        /\ \/ /\ pc' \in {"crashed", "aborted"} /\ (pc' = "aborted" => Strays(Tables) # {})
              /\ UNCHANGED <<table, newborn, threads>>
           \/ /\ pc' = pc /\ threads' \subseteq Job /\ ClientsAsk' /\ AskersWait'
              /\ \E u : Visited(f, u)
    BY <1>1, VisitTables
  <1>8. turn.i \in 0..(MaxFd + 1) /\ turn.n \in 0..MaxFd /\ MaxFd \in Nat /\ f \in Nat
        /\ f <= turn.n /\ turn.i <= f
    BY <1>3, <1>4, LifecycleAssumption DEF TypeOK, Fd
  <1>9. turn'.i = f /\ turn'.half = "w" /\ turn'.n = turn.n
        /\ turn' \in [i : 0..(MaxFd + 1), half : Op, n : Fd]
    <2>1. turn \in [i : 0..(MaxFd + 1), half : Op, n : Fd]
      BY <1>3 DEF TypeOK
    <2>2. f \in 0..(MaxFd + 1) /\ "w" \in Op
      BY <1>4, <1>8 DEF Fd, Op
    <2> QED
      BY <1>2, <2>1, <2>2
  <1>10. /\ slave' \in [Op -> SUBSET Fd]
         /\ slave'["r"] \subseteq slave["r"] /\ slave'["w"] \subseteq slave["w"]
    BY <1>2, <1>3 DEF TypeOK, Op
  <1>a. CASE /\ pc' \in {"crashed", "aborted"} /\ (pc' = "aborted" => Strays(Tables) # {})
             /\ UNCHANGED <<table, newborn, threads>>
    <2>1. /\ answers' \in Seq(Job) /\ cut' \in BOOLEAN /\ (~cut' => ~cut)
      BY <1>2, <1>3 DEF TypeOK
    <2>2. ~cut => Queued(Tables, threads, answers')
      BY <1>2, <1>3 DEF AskersWait
    <2>3. ClientsAsk'
      BY <1>a, <1>2, <1>3 DEF ClientsAsk
    <2>4. pc # "stopped"
      BY <1>2
    <2>5. UNCHANGED <<table, newborn, threads, timeout, silent>>
      BY <1>a, <1>2
    <2>6. Ending
      BY <1>a, <1>9, <1>10, <2>1, <2>2, <2>4, <2>5 DEF Ending
    <2> QED
      BY <2>3, <2>6, EndedStep
  <1>b. ASSUME pc' = pc, threads' \subseteq Job, ClientsAsk', AskersWait', NEW u, Visited(f, u)
        PROVE  LifecycleInv'
    <2>6. /\ Sound(u) /\ Become(u) /\ Len(pool) <= Len(u.pool) /\ Len(u.pool) <= MaxPool
          /\ \A d \in UsedBy(u) : \/ d \in InUse /\ u.pool[d].client = pool[d].client
                                  \/ f = Listener /\ u.pool[d].client \in Fd \ open
          /\ \A d \in DOMAIN u.pool :
                \/ u.pool[d].age \in {0, Never}
                \/ /\ d \in DOMAIN pool /\ d # item[f].data
                   /\ u.pool[d].age = pool[d].age /\ Ties(Tables, d) \subseteq Ties(u, d)
      BY <1>b DEF Visited
    <2>7. /\ Tables' = u /\ InUse' = UsedBy(u) /\ pool' = u.pool
          /\ newborn' = newborn \cup (u.open \ open)
      BY <2>6, BecomeFacts DEF Sound, Consistent
    <2>11. TypeOK'
      <3>1. TablesOK' /\ newborn' \subseteq Fd
        BY <1>3, <2>6, TableTypes
      <3> QED
        BY <1>2, <1>3, <1>b, <1>9, <1>10, <3>1 DEF TypeOK, TablesOK
    <2>12. SoundUntilStopped' /\ NothingIsNew'
      BY <1>2, <1>b, <2>6, <2>7 DEF SoundUntilStopped, NothingIsNew
    <2>13. ListenerFirst'
      BY <1>4, <1>8, <1>9 DEF ListenerFirst
    <2>15. NewClientsAreNotReady'
      <3> SUFFICES ASSUME NEW d \in UsedBy(u), u.pool[d].client \in newborn'
                   PROVE  u.pool[d].client \notin slave'["r"] \cup slave'["w"]
        BY <2>7 DEF NewClientsAreNotReady
      <3>1. CASE d \in InUse /\ u.pool[d].client = pool[d].client
        <4>1. pool[d].client \in newborn
          BY <1>3, <2>7, <3>1, InUseFacts
        <4> QED
          BY <1>2, <1>3, <1>10, <3>1, <4>1 DEF NewClientsAreNotReady
      <3>2. CASE f = Listener /\ u.pool[d].client \in Fd \ open
        <4>1. turn.i = 0
          BY <1>4, <1>8, <3>2 DEF Listener
        <4>2. slave["r"] \cup slave["w"] \subseteq open
          BY <1>2, <1>3, <4>1 DEF ListenerFirst
        <4> QED
          BY <1>10, <3>2, <4>2
      <3> QED
        BY <2>6, <3>1, <3>2
    <2>16. Clocked'
      <3>1. ASSUME NEW g \in Fd, item[g].used, item[g].data # item[f].data, g <= turn.n,
                   ~Passed(g)
            PROVE  ~Passed(g)'
        <4>1. g \in Nat /\ turn.i \in Nat /\ turn.n \in Nat
          BY <1>8, LifecycleAssumption DEF Fd
        <4>2. ~(g < turn.i)
          BY <3>1 DEF Passed
        <4>3. g \in turn.i..turn.n
          BY <3>1, <4>1, <4>2
        <4>4. f <= g /\ g # f
          BY <1>4, <3>1, <4>3
        <4> QED
          BY <1>8, <1>9, <4>1, <4>4 DEF Passed
      <3>2. pc' = "ready"
        BY <1>2, <1>b
      <3> QED
        BY <1>2, <1>3, <1>9, <2>6, <2>7, <3>1, <3>2, ClockedOn
    <2> QED
      BY <1>b, <2>11, <2>12, <2>13, <2>15, <2>16 DEF LifecycleInv
  <1> QED
    BY <1>4, <1>a, <1>b

(* Then its handle_write. *)
LEMMA WriteTurnStep ==
    ASSUME LifecycleInv, WriteTurn
    PROVE  LifecycleInv'
  <1> DEFINE f == turn.i
             c == item[f].data
  <1>1. /\ pc = "ready" /\ turn.half = "w"
        /\ turn' = [turn EXCEPT !.i = turn.i + 1, !.half = "r"]
        /\ UNCHANGED <<timeout, slave, answers, silent, cut>>
    BY DEF WriteTurn
  <1>2. TypeOK /\ Sound(Tables) /\ ClientsAsk /\ ListenerFirst /\ NewClientsAreNotReady
        /\ Clocked /\ AskersWait
    BY <1>1 DEF LifecycleInv, SoundUntilStopped
  <1>3. /\ turn.i \in Nat /\ turn.i \in Fd /\ turn.n \in 0..MaxFd /\ MaxFd \in Nat
        /\ turn.i <= turn.n
    BY <1>1, <1>2, LifecycleAssumption DEF TypeOK, ListenerFirst, Fd
  <1>4. /\ turn'.i = turn.i + 1 /\ turn'.half = "r" /\ turn'.n = turn.n
        /\ turn' \in [i : 0..(MaxFd + 1), half : Op, n : Fd]
    <2>1. turn \in [i : 0..(MaxFd + 1), half : Op, n : Fd]
      BY <1>2 DEF TypeOK
    <2>2. turn.i + 1 \in 0..(MaxFd + 1) /\ "r" \in Op
      BY <1>3 DEF Op
    <2> QED
      BY <1>1, <2>1, <2>2
  <1>t. Ageing(Tables)
    BY TablesAre DEF Ageing
  <1>5. \/ /\ pc' \in {"crashed", "aborted"} /\ (pc' = "aborted" => Strays(Tables) # {})
           /\ UNCHANGED <<table, newborn, threads>>
        \/ /\ pc' = pc /\ threads' \subseteq Job /\ ClientsAsk' /\ AskersWait'
           /\ \E u : Handled(Tables, u)
    <2>1. CASE f \in slave["w"] /\ "w" \in item[f].ops
      <3>1. item[f].used /\ f # Listener
        <4>1. item[Listener].ops = {"r"}
          BY <1>2, TablesAre DEF Sound, Consistent, Watches
        <4>2. item[f].used
          BY <1>2, <1>3, <2>1, AwaitedIsUsed
        <4> QED
          BY <2>1, <4>1, <4>2
      <3>2. c \in DOMAIN pool /\ Keyed(Tables, c, f)
        BY <1>2, <1>3, <3>1, EntryFacts
      <3>3. Handle(Tables, c, f, "w")
        BY <2>1 DEF WriteTurn
      <3> HIDE DEF c, f
      <3>4. "w" \in item[f].ops
        BY <2>1
      <3> QED
        BY <1>1, <1>2, <1>t, <3>1, <3>2, <3>3, <3>4, HandleStep
    <2>2. CASE ~(f \in slave["w"] /\ "w" \in item[f].ops)
      <3>1. UNCHANGED <<pc, table, newborn, threads>>
        BY <2>2 DEF WriteTurn
      <3>2. Become(Tables)
        BY <3>1 DEF Become, table, Tables
      <3>3. Tables' = Tables
        BY <3>1, TableKept
      <3>4. AskersWait' /\ ClientsAsk' /\ pc' = pc /\ threads' \subseteq Job
        BY <1>1, <1>2, <3>1, <3>3 DEF AskersWait, ClientsAsk, TypeOK
      <3>5. Handled(Tables, Tables)
        BY <1>2, <3>2, TablesAre DEF Handled
      <3> QED
        BY <3>4, <3>5
    <2> QED
      BY <2>1, <2>2
  <1> HIDE DEF c, f
  <1>a. CASE /\ pc' \in {"crashed", "aborted"} /\ (pc' = "aborted" => Strays(Tables) # {})
             /\ UNCHANGED <<table, newborn, threads>>
    <2>1. /\ answers' \in Seq(Job) /\ cut' \in BOOLEAN /\ (~cut' => ~cut)
          /\ slave' \in [Op -> SUBSET Fd]
      BY <1>1, <1>2 DEF TypeOK
    <2>2. ~cut => Queued(Tables, threads, answers')
      BY <1>1, <1>2 DEF AskersWait
    <2>3. ClientsAsk'
      BY <1>a, <1>1, <1>2 DEF ClientsAsk
    <2>4. pc # "stopped"
      BY <1>1
    <2>5. UNCHANGED <<table, newborn, threads, timeout, silent>>
      BY <1>a, <1>1
    <2>6. Ending
      BY <1>a, <1>4, <2>1, <2>2, <2>4, <2>5 DEF Ending
    <2> QED
      BY <2>3, <2>6, EndedStep
  <1>b. ASSUME pc' = pc, threads' \subseteq Job, ClientsAsk', AskersWait',
               NEW u, Handled(Tables, u)
        PROVE  LifecycleInv'
    <2>6. /\ Sound(u) /\ Become(u) /\ Len(u.pool) = Len(pool) /\ DOMAIN u.pool = DOMAIN pool
          /\ \A d \in UsedBy(u) : d \in InUse /\ u.pool[d].client = pool[d].client
          /\ \A d \in DOMAIN pool : \/ u.pool[d].age = Never
                                    \/ /\ u.pool[d].age = pool[d].age
                                       /\ Ties(Tables, d) \subseteq Ties(u, d)
      BY <1>b, TablesAre DEF Handled
    <2>7. /\ Tables' = u /\ InUse' = UsedBy(u) /\ pool' = u.pool
          /\ newborn' = newborn \cup (u.open \ open)
      BY <2>6, BecomeFacts DEF Sound, Consistent
    <2>8. TypeOK'
      <3>1. Len(pool) \in Nat /\ Len(pool) <= MaxPool
        BY <1>2, LifecycleAssumption DEF TypeOK
      <3>2. TablesOK' /\ newborn' \subseteq Fd
        BY <1>2, <2>6, <3>1, TableTypes
      <3> QED
        BY <1>1, <1>2, <1>4, <1>b, <3>2 DEF TypeOK, TablesOK
    <2>9. SoundUntilStopped' /\ NothingIsNew'
      BY <1>1, <1>b, <2>6, <2>7 DEF SoundUntilStopped, NothingIsNew
    <2>10. ListenerFirst'
      BY <1>3, <1>4 DEF ListenerFirst
    <2>11. NewClientsAreNotReady'
      <3> SUFFICES ASSUME NEW d \in UsedBy(u), u.pool[d].client \in newborn'
                   PROVE  u.pool[d].client \notin slave["r"] \cup slave["w"]
        BY <1>1, <2>7 DEF NewClientsAreNotReady
      <3>1. d \in InUse /\ u.pool[d].client = pool[d].client
        BY <2>6
      <3>2. pool[d].client \in newborn
        BY <1>2, <2>7, <3>1, InUseFacts
      <3> QED
        BY <1>1, <1>2, <3>1, <3>2 DEF NewClientsAreNotReady
    <2>12. Clocked'
      <3>1. ASSUME NEW g \in Fd, ~Passed(g) PROVE ~Passed(g)'
        <4>1. g \in Nat
          BY LifecycleAssumption DEF Fd
        <4> QED
          BY <1>1, <1>3, <1>4, <3>1, <4>1 DEF Passed
      <3>2. PICK x : x \notin DOMAIN pool
        <4>1. 0 \notin DOMAIN pool
          BY <1>2 DEF TypeOK
        <4> QED
          BY <4>1
      <3>3. \A d \in DOMAIN u.pool :
               \/ u.pool[d].age \in {0, Never}
               \/ /\ d \in DOMAIN pool /\ d # x
                  /\ u.pool[d].age = pool[d].age /\ Ties(Tables, d) \subseteq Ties(u, d)
        BY <2>6, <3>2
      <3>4. pc' = "ready"
        BY <1>1, <1>b
      <3> QED
        BY <1>1, <1>2, <1>4, <2>7, <3>1, <3>3, <3>4, ClockedOn
    <2> QED
      BY <1>b, <2>8, <2>9, <2>10, <2>11, <2>12 DEF LifecycleInv
  <1> QED
    BY <1>5, <1>a, <1>b

(* pselect returns: the iteration begins with the descriptors watched now. *)
LEMMA SelectReadyStep ==
    ASSUME LifecycleInv, SelectReady
    PROVE  LifecycleInv'
  <1>1. PICK r \in SUBSET Stirring("r"), w \in SUBSET Stirring("w") :
           slave' = [o \in Op |-> Restless(o) \cup (IF o = "r" THEN r ELSE w)]
    BY DEF SelectReady
  <1> DEFINE S == {f \in Fd : item[f].used}
  <1>2. /\ pc = "select" /\ pc' = "ready"
        /\ turn' = [i |-> 0, half |-> "r", n |-> Max(S)]
        /\ UNCHANGED <<table, timeout, newborn, threads, answers, silent, cut>>
    BY DEF SelectReady
  <1>3. /\ TypeOK /\ Sound(Tables) /\ ClientsAsk /\ NothingIsNew /\ AskersWait
    BY <1>2 DEF LifecycleInv, SoundUntilStopped
  <1>4. /\ Listener \in S /\ S \subseteq Nat /\ S \subseteq open
        /\ \A f \in S : f \in 0..MaxFd
        /\ MaxFd \in Nat /\ Listener \notin lost
    BY <1>3, LifecycleAssumption, TablesAre
       DEF Sound, Consistent, Watches, Table, TypeOK, Fd, Listener
  <1>5. Max(S) \in S /\ \A f \in S : f <= Max(S)
    <2>1. \A f \in S : f <= MaxFd
      BY <1>4
    <2> QED
      BY <1>4, <2>1, MaxIsGreatest
  <1> HIDE DEF S
  <1>6. /\ turn'.i = 0 /\ turn'.half = "r" /\ turn'.n = Max(S)
        /\ turn' \in [i : 0..(MaxFd + 1), half : Op, n : Fd]
    <2>1. PICK n : n = Max(S)
      OBVIOUS
    <2>2. n \in Fd
      BY <1>4, <1>5, <2>1 DEF Fd
    <2>3. 0 \in 0..(MaxFd + 1)
      BY <1>4
    <2>4. "r" \in Op
      BY DEF Op
    <2> QED
      BY <1>2, <2>1, <2>2, <2>3, <2>4
  <1>7. slave'["r"] = Restless("r") \cup r /\ slave'["w"] = Restless("w") \cup w
    BY <1>1 DEF Op
  <1>8. /\ Restless("r") \subseteq S /\ Restless("w") \subseteq S
        /\ r \subseteq S /\ w \subseteq S
    <2>1. \A o : Watched(o) \subseteq S
      BY DEF Watched, S
    <2>2. \A o : Stirring(o) \subseteq Watched(o) \cup {Listener}
      BY DEF Stirring, Comers
    <2> QED
      BY <1>4, <2>1, <2>2 DEF Restless
  <1>9. S \subseteq Fd
    BY <1>4 DEF Fd
  <1>10. slave' \in [Op -> SUBSET Fd]
    <2>1. \A o \in Op : Restless(o) \cup (IF o = "r" THEN r ELSE w) \in SUBSET Fd
      BY <1>8, <1>9 DEF Op
    <2> QED
      BY <1>1, <2>1
  <1>11. Listener \in slave'["r"] => Cardinality(InUse) < MaxPool
    <2>1. Listener \notin Restless("r")
      BY <1>4 DEF Restless
    <2>2. Listener \in r => Listener \in Comers
      BY DEF Stirring
    <2> QED
      BY <1>7, <2>1, <2>2 DEF Comers
  <1>12. /\ Tables' = Tables /\ InUse' = InUse
         /\ open' = open /\ item' = item /\ pool' = pool /\ current' = current /\ lost' = lost
    BY <1>2, TableKept
  <1>13. newborn = {} /\ newborn' = {}
    BY <1>2, <1>3 DEF NothingIsNew
  <1>14. TypeOK'
    BY <1>2, <1>3, <1>6, <1>10, <1>12 DEF TypeOK
  <1>15. SoundUntilStopped' /\ ClientsAsk' /\ NothingIsNew' /\ NewClientsAreNotReady'
    BY <1>2, <1>3, <1>12, <1>13
       DEF SoundUntilStopped, ClientsAsk, NothingIsNew, NewClientsAreNotReady
  <1>16. ListenerFirst'
    BY <1>4, <1>6, <1>7, <1>8, <1>11, <1>12, <1>13 DEF ListenerFirst
  <1>17. Clocked'
    <2>1. ASSUME NEW d \in DOMAIN pool, pool[d].age # Never
          PROVE  \E g \in Ties(Tables, d) : TRUE
      <3>1. CASE pool[d].inUse
        BY <3>1, TablesAre DEF Ties
      <3>2. CASE ~pool[d].inUse
        <4>1. Unused(Tables, d)
          BY <1>3, <3>2, TablesAre DEF Sound, Consistent, Clean
        <4> QED
          BY <2>1, <4>1, TablesAre DEF Unused, Ties
      <3> QED
        BY <3>1, <3>2
    <2>2. ASSUME NEW d \in DOMAIN pool, NEW g \in Ties(Tables, d)
          PROVE  g <= turn'.n /\ ~Passed(g)'
      <3>1. g \in S /\ g \in Nat
        BY <1>3, TiesFacts DEF S
      <3>2. PICK n : n = Max(S)
        OBVIOUS
      <3>3. g <= n /\ turn'.n = n
        BY <1>5, <1>6, <3>1, <3>2
      <3>4. ~(g < 0)
        BY <3>1
      <3> QED
        BY <1>6, <3>3, <3>4 DEF Passed
    <2>3. \A d \in DOMAIN pool : pool[d].age # Never =>
             \E g \in Ties(Tables, d) : g <= turn'.n /\ ~Passed(g)'
      BY <2>1, <2>2
    <2>4. \A d \in DOMAIN pool' : pool'[d].age \in {0, Never} \/ Due(Tables, d)'
      BY <1>12, <2>3 DEF Due
    <2> QED
      BY <1>2, <2>4 DEF Clocked
  <1>18. AskersWait'
    BY <1>2, <1>3, <1>12 DEF AskersWait
  <1> QED
    BY <1>14, <1>15, <1>16, <1>17, <1>18 DEF LifecycleInv

(* Time passes for all objects alike. *)
LEMMA SoundElapsed ==
    ASSUME TypeOK, Sound(Tables)
    PROVE  LET u == [Tables EXCEPT !.pool = Elapsed] IN
           /\ Sound(u) /\ Ageing(u) /\ u.pool = Elapsed /\ u.current = current
           /\ Elapsed \in Seq(Connection) /\ Len(Elapsed) = Len(pool)
           /\ DOMAIN Elapsed = DOMAIN pool
           /\ \A c \in DOMAIN pool : Elapsed[c].age = Older(pool[c].age)
           /\ \A c \in DOMAIN pool : Elapsed[c].inUse <=> pool[c].inUse
  <1> DEFINE p == Elapsed
             u == [open |-> open, item |-> item, pool |-> p, current |-> current, lost |-> lost]
  <1>1. /\ pool \in Seq(Connection) /\ DOMAIN pool = 1..Len(pool) /\ Len(pool) \in Nat
    BY DEF TypeOK
  <1>2. \A c \in DOMAIN pool : pool[c] \in Connection /\ pool[c].age \in Age
    <2>1. \A c \in DOMAIN pool : pool[c] \in Connection
      BY <1>1, ElementOfSeq
    <2> QED
      BY <2>1 DEF Connection
  <1>3. DOMAIN p = DOMAIN pool
        /\ \A c \in DOMAIN pool : p[c] = [pool[c] EXCEPT !.age = Older(pool[c].age)]
    BY DEF Elapsed
  <1>4. \A c \in DOMAIN pool : Older(pool[c].age) \in Age
    BY <1>2, OlderFacts
  <1>5. ASSUME NEW c \in DOMAIN pool
        PROVE  /\ p[c].inUse <=> pool[c].inUse
               /\ p[c].client = pool[c].client /\ p[c].remote = pool[c].remote
               /\ p[c].phase = pool[c].phase /\ p[c].age = Older(pool[c].age)
               /\ p[c].takes = pool[c].takes
               /\ p[c] \in Connection
    <2> DEFINE a == Older(pool[c].age)
    <2>1. a \in Age /\ pool[c] \in Connection /\ p[c] = [pool[c] EXCEPT !.age = a]
      BY <1>2, <1>3, <1>4
    <2> HIDE DEF a, p
    <2>2. p[c] \in Connection
      BY <2>1 DEF Connection
    <2> QED
      BY <2>1, <2>2 DEF Connection, a
  <1> HIDE DEF p
  <1>6. p \in [1..Len(pool) -> Connection]
    <2>1. p = [c \in DOMAIN pool |-> p[c]]
      BY DEF p, Elapsed
    <2> QED
      BY <1>1, <1>5, <2>1
  <1>7. p \in Seq(Connection) /\ Len(p) = Len(pool)
    BY <1>1, <1>6
  <1>8. [Tables EXCEPT !.pool = Elapsed] = u
    BY DEF Tables, p
  <1>9. u \in Table
    BY <1>7, TablesAre DEF Sound, Consistent, Table
  <1>10. /\ u.open = open /\ u.item = item /\ u.pool = p /\ u.current = current /\ u.lost = lost
    OBVIOUS
  <1> HIDE DEF u
  <1>11. UsedBy(u) = InUse
    BY <1>3, <1>5, <1>10 DEF UsedBy, InUse
  <1>12. \A c \in DOMAIN pool : Held(u, c) = Held(Tables, c)
    BY <1>5, <1>10, TablesAre DEF Held
  <1>a. Ageing(u)
    BY <1>3, <1>5, <1>10, <1>11 DEF Ageing
  <1>b. Strays(u) = Strays(Tables)
    BY <1>a, AgeingFacts
  <1>13. Watches(u)
    BY <1>10, TablesAre DEF Sound, Consistent, Watches
  <1>14. Owned(u)
    <2>1. \A f \in u.open \ (u.lost \cup {Listener}) :
             u.item[f].data \in UsedBy(u) /\ f \in Held(u, u.item[f].data)
      BY <1>10, <1>11, <1>12, TablesAre DEF Sound, Consistent, Owned, InUse
    <2>2. ASSUME NEW d \in UsedBy(u)
          PROVE  /\ u.pool[d].client \in Fd /\ u.pool[d].client # u.pool[d].remote
                 /\ \A g \in Held(u, d) : g \in u.open \ (u.lost \cup {Listener}) /\ u.item[g].data = d
      <3>1. d \in InUse /\ d \in DOMAIN pool
        BY <1>11 DEF InUse
      <3>2. u.pool[d].client = pool[d].client /\ u.pool[d].remote = pool[d].remote
        BY <1>5, <1>10, <3>1
      <3>3. /\ pool[d].client \in Fd /\ pool[d].client # pool[d].remote
            /\ \A g \in Held(Tables, d) : g \in open \ (lost \cup {Listener}) /\ item[g].data = d
        BY <3>1, TablesAre DEF Sound, Consistent, Owned
      <3> QED
        BY <1>10, <1>12, <3>1, <3>2, <3>3
    <2>3. \A f \in Strays(u) : u.item[f].data \in DOMAIN u.pool
      BY <1>3, <1>10, <1>b, TablesAre DEF Sound, Consistent, Owned
    <2> QED
      BY <2>1, <2>2, <2>3 DEF Owned
  <1>c. Clean(u)
    <2> SUFFICES ASSUME NEW d \in DOMAIN u.pool, ~u.pool[d].inUse PROVE Unused(u, d)
      BY DEF Clean
    <2>1. d \in DOMAIN pool /\ ~pool[d].inUse
      BY <1>3, <1>5, <1>10
    <2>2. /\ pool[d] = [Zeroed EXCEPT !.age = pool[d].age]
          /\ pool[d].age # Never => \E f \in Strays(Tables) : item[f].data = d
      BY <2>1, TablesAre DEF Sound, Consistent, Clean, Unused
    <2>3. p[d] = [Zeroed EXCEPT !.age = p[d].age]
      <3>1. p[d] = [pool[d] EXCEPT !.age = p[d].age]
        BY <1>3, <1>5, <2>1
      <3> QED
        BY <2>2, <3>1 DEF Zeroed
    <2>4. p[d].age # Never => pool[d].age # Never
      BY <1>2, <1>5, <2>1, OlderFacts
    <2> QED
      BY <1>10, <1>b, <2>2, <2>3, <2>4 DEF Unused
  <1>15. Counted(u)
    BY <1>10, <1>11, TablesAre DEF Sound, Consistent, Counted
  <1>16. Waiting(u)
    <2> SUFFICES ASSUME NEW d \in UsedBy(u) PROVE Waits(u, d)
      BY DEF Waiting
    <2>1. d \in InUse /\ d \in DOMAIN pool
      BY <1>11 DEF InUse
    <2>2. Waits(Tables, d)
      BY <2>1, TablesAre DEF Sound, Waiting
    <2>3. /\ u.pool[d].phase = pool[d].phase /\ u.pool[d].remote = pool[d].remote
          /\ u.pool[d].takes = pool[d].takes
      BY <1>5, <1>10, <2>1
    <2> QED
      BY <1>10, <1>12, <1>b, <2>1, <2>2, <2>3, TablesAre DEF Waits
  <1> QED
    BY <1>3, <1>5, <1>7, <1>8, <1>9, <1>10, <1>a, <1>13, <1>14, <1>c, <1>15, <1>16
       DEF Sound, Consistent, p

(* The clocks of all objects that have one go on together. *)
SameAge(t) == \A c, d \in DOMAIN t.pool :
                  t.pool[c].age # Never /\ t.pool[d].age # Never => t.pool[c].age = t.pool[d].age

(* A second passes for all objects alike. *)
LEMMA SameAgeElapsed ==
    ASSUME TypeOK, Sound(Tables), SameAge(Tables)
    PROVE  SameAge([Tables EXCEPT !.pool = Elapsed])
  <1> DEFINE u == [Tables EXCEPT !.pool = Elapsed]
  <1>1. /\ DOMAIN Elapsed = DOMAIN pool /\ u.pool = Elapsed
        /\ \A c \in DOMAIN pool : Elapsed[c].age = Older(pool[c].age)
    BY SoundElapsed
  <1> HIDE DEF u
  <1>2. \A c \in DOMAIN pool : pool[c].age \in Age
    <2>1. \A c \in DOMAIN pool : pool[c] \in Connection
      BY ElementOfSeq DEF TypeOK
    <2> QED
      BY <2>1 DEF Connection
  <1>3. \A c \in DOMAIN pool : Older(pool[c].age) = Never <=> pool[c].age = Never
    BY <1>2, OlderFacts
  <1>4. SameAge(u)
    BY <1>1, <1>2, <1>3, TablesAre DEF SameAge
  <1> QED
    BY <1>4 DEF u

(* pselect returns on the signal of a resolver thread: time may have passed.*)
LEMMA SelectInterruptedStep ==
    ASSUME LifecycleInv, SelectInterrupted
    PROVE  LifecycleInv'
  <1>1. /\ pc = "select" /\ pc' = "blocks" /\ pool' \in {pool, Elapsed}
        /\ UNCHANGED <<open, item, current, lost, timeout, loop, threads, answers, silent, cut>>
    BY DEF SelectInterrupted
  <1>2. /\ TypeOK /\ Sound(Tables) /\ ClientsAsk /\ NothingIsNew /\ AskersWait
        /\ SameAge(Tables)
    BY <1>1, TablesAre DEF LifecycleInv, SoundUntilStopped, Clocked, SameAge
  <1> DEFINE e == [Tables EXCEPT !.pool = Elapsed]
  <1>3. /\ Sound(e) /\ Ageing(e) /\ e.pool = Elapsed /\ e.current = current
        /\ Elapsed \in Seq(Connection) /\ Len(Elapsed) = Len(pool)
    BY <1>2, SoundElapsed
  <1>4. SameAge(e)
    BY <1>2, SameAgeElapsed
  <1> HIDE DEF e
  <1>5. PICK u : /\ Sound(u) /\ SameAge(u) /\ Ageing(u) /\ pool' = u.pool
                 /\ u.current = current
                 /\ Len(u.pool) = Len(pool) /\ u.pool \in Seq(Connection)
    <2>1. CASE pool' = pool
      <3>1. PICK u : u = Tables
        OBVIOUS
      <3>2. pool \in Seq(Connection)
        BY <1>2 DEF TypeOK
      <3>3. Ageing(u)
        BY <3>1, TablesAre DEF Ageing
      <3> QED
        BY <1>2, <2>1, <3>1, <3>2, <3>3, TablesAre
    <2>2. CASE pool' = Elapsed
      BY <1>3, <1>4, <2>2
    <2> QED
      BY <1>1, <2>1, <2>2
  <1>6. u \in Table
    BY <1>5 DEF Sound, Consistent
  <1>7. Become(u)
    <2>1. newborn' = newborn
      BY <1>1 DEF loop
    <2> QED
      BY <1>1, <1>5, <2>1 DEF Become, Ageing
  <1>8. /\ Tables' = u /\ InUse' = UsedBy(u)
    BY <1>6, <1>7, BecomeFacts
  <1>9. newborn' = {} /\ turn' = turn /\ slave' = slave
    BY <1>1, <1>2 DEF NothingIsNew, loop
  <1>10. TypeOK'
    BY <1>1, <1>2, <1>5, <1>9 DEF TypeOK
  <1>11. SoundUntilStopped' /\ ClientsAsk' /\ NothingIsNew' /\ ListenerFirst'
         /\ NewClientsAreNotReady'
    BY <1>1, <1>2, <1>5, <1>8, <1>9
       DEF SoundUntilStopped, ClientsAsk, NothingIsNew, ListenerFirst, NewClientsAreNotReady
  <1>12. Clocked'
    BY <1>1, <1>5, <1>8 DEF Clocked, SameAge
  <1>13. AskersWait'
    <2>1. ~cut => Queued(Tables, threads, answers)
      BY <1>1, <1>2 DEF AskersWait
    <2>2. \A j : Asker(Tables, j) => Asker(u, j)
      BY <1>5, AgeingFacts
    <2>3. ~cut => Queued(u, threads, answers)
      BY <2>1, <2>2, QueueKept
    <2> QED
      BY <1>1, <1>8, <2>3 DEF AskersWait
  <1> QED
    BY <1>10, <1>11, <1>12, <1>13 DEF LifecycleInv

(* The scan: the overdue connections are in use. *)
LEMMA SelectTimeoutStep ==
    ASSUME LifecycleInv, SelectTimeout
    PROVE  LifecycleInv'
  <1> DEFINE gone == Overdue(Elapsed)
             e == [Tables EXCEPT !.pool = Elapsed]
             u == Dispose(e, gone)
  <1>1. /\ pc = "select"
        /\ UNCHANGED <<timeout, turn, slave, threads, answers, silent>>
        /\ cut' = (cut \/ \E c \in gone : pool[c].phase = "dns")
        /\ \/ pc' = "crashed" /\ UNCHANGED <<table, newborn>>
           \/ pc' = "blocks" /\ Become(u)
    BY DEF SelectTimeout
  <1>2. /\ TypeOK /\ Sound(Tables) /\ ClientsAsk /\ NothingIsNew /\ AskersWait
        /\ SameAge(Tables)
    BY <1>1, TablesAre DEF LifecycleInv, SoundUntilStopped, Clocked, SameAge
  <1>3. /\ Sound(e) /\ Ageing(e) /\ e.pool = Elapsed
        /\ Len(Elapsed) = Len(pool) /\ DOMAIN Elapsed = DOMAIN pool
        /\ \A c \in DOMAIN pool : Elapsed[c].inUse <=> pool[c].inUse
    BY <1>2, SoundElapsed
  <1>4. SameAge(e)
    BY <1>2, SameAgeElapsed
  <1>5. gone \subseteq InUse
    BY <1>3 DEF Overdue, Scanned, InUse
  <1>6. cut' \in BOOLEAN /\ (~cut' => ~cut /\ \A c \in gone : pool[c].phase # "dns")
    BY <1>1, <1>2 DEF TypeOK
  <1>a. ~cut => Queued(Tables, threads, answers)
    BY <1>1, <1>2 DEF AskersWait
  <1> HIDE DEF gone, e
  <1>7. CASE pc' = "crashed" /\ UNCHANGED <<table, newborn>>
    <2>1. /\ answers' \in Seq(Job) /\ turn' \in [i : 0..(MaxFd + 1), half : Op, n : Fd]
          /\ slave' \in [Op -> SUBSET Fd] /\ ClientsAsk'
      BY <1>1, <1>2 DEF TypeOK, ClientsAsk
    <2>2. ~cut => Queued(Tables, threads, answers')
      BY <1>1, <1>a
    <2>3. Ending
      BY <1>1, <1>6, <1>7, <2>1, <2>2 DEF Ending
    <2> QED
      BY <2>1, <2>3, EndedStep
  <1>8. CASE pc' = "blocks" /\ Become(u)
    <2>0. gone \subseteq UsedBy(e)
      BY <1>3, <1>5 DEF Ageing
    <2>1. /\ Sound(u) /\ UsedBy(u) = UsedBy(e) \ gone /\ u.open \subseteq e.open
          /\ Len(u.pool) = Len(e.pool) /\ DOMAIN u.pool = DOMAIN e.pool
          /\ \A d \in DOMAIN e.pool \ gone : u.pool[d] = e.pool[d]
          /\ \A d \in gone : u.pool[d] = Zeroed
          /\ \A d \in UsedBy(u) : \A f \in Held(e, d) : u.item[f] = e.item[f]
          /\ Strays(u) = Strays(e) /\ \A f \in Strays(e) : u.item[f] = e.item[f]
      BY <1>3, <2>0, SoundDispose
    <2> HIDE DEF u
    <2>2. /\ Tables' = u /\ InUse' = UsedBy(u) /\ pool' = u.pool
          /\ newborn' = newborn \cup (u.open \ open)
      BY <1>8, <2>1, BecomeFacts DEF Sound, Consistent
    <2>3. newborn' = {}
      BY <1>1, <1>2, <1>3, <2>1, <2>2 DEF NothingIsNew, Ageing
    <2>4. TypeOK'
      <3>1. Len(pool) \in Nat /\ Len(pool) <= MaxPool /\ Len(u.pool) = Len(pool)
        BY <1>2, <1>3, <2>1, LifecycleAssumption DEF TypeOK
      <3>2. TablesOK' /\ newborn' \subseteq Fd
        BY <1>2, <1>8, <2>1, <3>1, TableTypes
      <3> QED
        BY <1>1, <1>2, <1>6, <1>8, <3>2 DEF TypeOK, TablesOK
    <2>5. SoundUntilStopped' /\ ClientsAsk' /\ NothingIsNew' /\ ListenerFirst'
          /\ NewClientsAreNotReady'
      BY <1>1, <1>2, <1>8, <2>1, <2>2, <2>3
         DEF SoundUntilStopped, ClientsAsk, NothingIsNew, ListenerFirst, NewClientsAreNotReady
    <2>6. \A d \in DOMAIN u.pool :
             d \in DOMAIN e.pool /\ (u.pool[d].age = Never \/ u.pool[d].age = e.pool[d].age)
      BY <2>1 DEF Zeroed
    <2>7. SameAge(u)
      BY <1>4, <2>6 DEF SameAge
    <2>8. Clocked'
      BY <1>8, <2>2, <2>7 DEF Clocked, SameAge
    <2>9. ASSUME ~cut', NEW j, Asker(Tables, j) PROVE Asker(u, j)
      <3> DEFINE d == j.conn
      <3>1. Asker(e, j)
        BY <1>3, <2>9, AgeingFacts
      <3>2. /\ d \in UsedBy(e) /\ e.pool[d].phase = "dns"
            /\ j.fd = e.pool[d].client \/ j.fd \in Strays(e)
            /\ e.item[j.fd].data = d
        BY <3>1 DEF Asker
      <3>3. e.pool[d].phase = pool[d].phase
        BY <1>3, <3>2 DEF Ageing, InUse
      <3>4. d \notin gone
        BY <1>6, <2>9, <3>2, <3>3
      <3>5. d \in UsedBy(u) /\ u.pool[d] = e.pool[d]
        BY <2>1, <3>2, <3>4 DEF UsedBy
      <3>6. e.pool[d].client \in Held(e, d)
        BY <1>3, <3>2, HeldFacts DEF Sound
      <3>7. u.item[j.fd] = e.item[j.fd]
        BY <2>1, <3>2, <3>5, <3>6
      <3> QED
        BY <2>1, <3>2, <3>5, <3>7 DEF Asker
    <2>10. AskersWait'
      <3>1. ~cut' => Queued(u, threads, answers)
        BY <1>6, <1>a, <2>9, QueueKept
      <3> QED
        BY <1>1, <1>8, <2>2, <3>1 DEF AskersWait
    <2> QED
      BY <2>4, <2>5, <2>8, <2>10 DEF LifecycleInv
  <1> QED
    BY <1>1, <1>7, <1>8

(* The iteration has visited everything it found: what it has passed has   *)
(* no age, and what came beyond its end has no clock yet.                  *)
LEMMA IterationOverStep ==
    ASSUME LifecycleInv, IterationOver
    PROVE  LifecycleInv'
  <1>1. /\ pc = "ready" /\ turn.half = "r" /\ Following(turn.n) = NoFd /\ pc' = "blocks"
        /\ turn' = NoTurn /\ slave' = [o \in Op |-> {}] /\ newborn' = {}
        /\ UNCHANGED <<table, timeout, threads, answers, silent, cut>>
    BY DEF IterationOver
  <1>2. TypeOK /\ Sound(Tables) /\ ClientsAsk /\ AskersWait /\ Clocked
    BY <1>1 DEF LifecycleInv, SoundUntilStopped
  <1>3. /\ Tables' = Tables /\ InUse' = InUse
        /\ open' = open /\ item' = item /\ pool' = pool /\ current' = current /\ lost' = lost
    BY <1>1, TableKept
  <1>4. turn.i \in Nat /\ turn.n \in Fd /\ MaxFd \in Nat
    BY <1>2, LifecycleAssumption DEF TypeOK
  <1>5. turn' \in [i : 0..(MaxFd + 1), half : Op, n : Fd]
    <2>1. 0 \in 0..(MaxFd + 1) /\ 0 \in Fd
      BY <1>4 DEF Fd
    <2>2. "r" \in Op
      BY DEF Op
    <2> QED
      BY <1>1, <2>1, <2>2 DEF NoTurn
  <1>6. TypeOK'
    BY <1>1, <1>2, <1>3, <1>5 DEF TypeOK
  <1>7. SoundUntilStopped' /\ ClientsAsk' /\ NothingIsNew' /\ ListenerFirst'
        /\ NewClientsAreNotReady'
    BY <1>1, <1>2, <1>3
       DEF SoundUntilStopped, ClientsAsk, NothingIsNew, ListenerFirst, NewClientsAreNotReady
  <1>8. ASSUME NEW c \in DOMAIN pool PROVE pool[c].age \in {0, Never}
    <2>1. ASSUME NEW g \in Ties(Tables, c), g <= turn.n, ~Passed(g) PROVE FALSE
      <3>1. g \in Nat /\ item[g].used
        BY <1>2, TiesFacts
      <3>2. g \in turn.i..turn.n
        BY <1>4, <2>1, <3>1 DEF Fd, Passed
      <3>3. {f \in turn.i..turn.n : item[f].used} = {}
        <4> DEFINE S == {f \in turn.i..turn.n : item[f].used}
        <4>1. S \subseteq Nat
          BY <1>4 DEF Fd
        <4> QED
          BY <1>1, <4>1, LowestIsLeast DEF Following
      <3> QED
        BY <3>1, <3>2, <3>3
    <2> QED
      BY <1>1, <1>2, <2>1 DEF Clocked, Due
  <1>9. Clocked'
    BY <1>1, <1>3, <1>8 DEF Clocked
  <1>10. AskersWait'
    BY <1>1, <1>2, <1>3 DEF AskersWait
  <1> QED
    BY <1>6, <1>7, <1>9, <1>10 DEF LifecycleInv

(* The answers that are left when the first one is taken, and those there  *)
(* are when one is put first.                                              *)
LEMMA FirstTaken ==
    ASSUME NEW s \in Seq(Job), s # <<>>
    PROVE  /\ Tail(s) \in Seq(Job) /\ Head(s) = s[1] /\ 1 \in 1..Len(s)
           /\ s[1] \in Job
           /\ \A i \in 1..Len(Tail(s)) : i + 1 \in 1..Len(s) /\ Tail(s)[i] = s[i + 1]
  <1>1. Len(s) \in Nat /\ Len(s) # 0
    BY EmptySeq
  <1>2. /\ Tail(s) \in Seq(Job) /\ Len(Tail(s)) = Len(s) - 1 /\ Head(s) = s[1]
        /\ \A i \in 1..Len(Tail(s)) : Tail(s)[i] = s[i + 1]
    BY HeadTailProperties
  <1>3. 1 \in 1..Len(s)
    BY <1>1
  <1>4. \A i \in 1..Len(Tail(s)) : i + 1 \in 1..Len(s)
    BY <1>1, <1>2
  <1>5. s[1] \in Job
    BY <1>3, ElementOfSeq
  <1> QED
    BY <1>2, <1>3, <1>4, <1>5

(* An answer put before the others. *)
LEMMA PutFirst ==
    ASSUME NEW s \in Seq(Job), NEW j \in Job
    PROVE  /\ <<j>> \o s \in Seq(Job)
           /\ \A i \in 1..Len(<<j>> \o s) :
                 \/ i = 1 /\ (<<j>> \o s)[i] = j
                 \/ i - 1 \in 1..Len(s) /\ (<<j>> \o s)[i] = s[i - 1]
  <1>1. <<j>> \in Seq(Job) /\ Len(<<j>>) = 1 /\ <<j>>[1] = j
    OBVIOUS
  <1>2. /\ <<j>> \o s \in Seq(Job) /\ Len(<<j>> \o s) = 1 + Len(s)
        /\ \A i \in 1..(1 + Len(s)) :
              (<<j>> \o s)[i] = IF i <= 1 THEN <<j>>[i] ELSE s[i - 1]
    BY <1>1
  <1>3. Len(s) \in Nat
    OBVIOUS
  <1> QED
    BY <1>1, <1>2, <1>3

(* A resolver thread ends: its job becomes an answer. *)
LEMMA ResolverAnswersStep ==
    ASSUME LifecycleInv, ResolverAnswers
    PROVE  LifecycleInv'
  <1>1. PICK j \in threads : threads' = threads \ {j} /\ answers' = <<j>> \o answers
    BY DEF ResolverAnswers
  <1>2. UNCHANGED <<pc, table, timeout, loop, silent, cut>>
    BY DEF ResolverAnswers
  <1>3. TypeOK /\ ClientsAsk /\ AskersWait
    BY DEF LifecycleInv
  <1>4. /\ Tables' = Tables /\ InUse' = InUse
        /\ open' = open /\ item' = item /\ pool' = pool /\ current' = current /\ lost' = lost
        /\ turn' = turn /\ slave' = slave /\ newborn' = newborn
    BY <1>2, TableKept DEF loop
  <1>5. j \in Job /\ answers \in Seq(Job)
    BY <1>3 DEF TypeOK
  <1>6. /\ answers' \in Seq(Job)
        /\ \A i \in 1..Len(answers') :
              \/ i = 1 /\ answers'[i] = j
              \/ i - 1 \in 1..Len(answers) /\ answers'[i] = answers[i - 1]
    BY <1>1, <1>5, PutFirst
  <1>7. TypeOK'
    BY <1>1, <1>2, <1>3, <1>4, <1>6 DEF TypeOK
  <1>8. SoundUntilStopped' /\ NothingIsNew' /\ ListenerFirst' /\ NewClientsAreNotReady'
    BY <1>2, <1>4
       DEF LifecycleInv, SoundUntilStopped, NothingIsNew, ListenerFirst, NewClientsAreNotReady
  <1>9. Clocked'
    BY <1>2, <1>4 DEF LifecycleInv, Clocked, Due, Passed
  <1>10. ClientsAsk'
    BY <1>1, <1>3, <1>6 DEF ClientsAsk
  <1> DEFINE t == Tables
             s == answers'
  <1>11. ASSUME Queued(t, threads, answers) PROVE Queued(t, threads', answers')
    <2> HIDE DEF t, s
    <2>1. /\ \A k \in threads : Asker(t, k)
          /\ \A i \in 1..Len(answers) : Asker(t, answers[i])
          /\ \A k, l \in threads : k.conn = l.conn => k = l
          /\ \A i, k \in 1..Len(answers) : answers[i].conn = answers[k].conn => i = k
          /\ \A k \in threads, i \in 1..Len(answers) : k.conn # answers[i].conn
      BY <1>11 DEF Queued
    <2>2. \A i \in 1..Len(s) : \/ i = 1 /\ s[i] = j
                               \/ i - 1 \in 1..Len(answers) /\ s[i] = answers[i - 1]
      BY <1>6 DEF s
    <2>3. \A k \in threads' : k \in threads /\ k # j
      BY <1>1
    <2>4. \A i \in 1..Len(s) : Asker(t, s[i])
      BY <2>1, <2>2
    <2>5. ASSUME NEW i \in 1..Len(s), NEW k \in 1..Len(s), s[i].conn = s[k].conn
          PROVE  i = k
      <3>1. CASE i = 1 /\ s[i] = j
        BY <2>1, <2>2, <2>5, <3>1
      <3>2. CASE i - 1 \in 1..Len(answers) /\ s[i] = answers[i - 1]
        <4>1. CASE k = 1 /\ s[k] = j
          BY <2>1, <2>5, <3>2, <4>1
        <4>2. CASE k - 1 \in 1..Len(answers) /\ s[k] = answers[k - 1]
          <5>1. i - 1 = k - 1
            BY <2>1, <2>5, <3>2, <4>2
          <5>2. i \in Int /\ k \in Int
            OBVIOUS
          <5> QED
            BY <5>1, <5>2
        <4> QED
          BY <2>2, <4>1, <4>2
      <3> QED
        BY <2>2, <3>1, <3>2
    <2>6. \A k \in threads', i \in 1..Len(s) : k.conn # s[i].conn
      BY <2>1, <2>2, <2>3
    <2>7. Queued(t, threads', s)
      BY <2>1, <2>3, <2>4, <2>5, <2>6 DEF Queued
    <2> QED
      BY <2>7 DEF s
  <1>12. AskersWait'
    BY <1>2, <1>3, <1>4, <1>11 DEF AskersWait
  <1> QED
    BY <1>7, <1>8, <1>9, <1>10, <1>12 DEF LifecycleInv

(* Taking the first job leaves the others, which ask for other connections. *)
LEMMA OthersQueued ==
    ASSUME NEW t, NEW u, NEW T, NEW s \in Seq(Job), s # <<>>, Queued(t, T, s),
           \A j : Asker(t, j) /\ j.conn # s[1].conn => Asker(u, j)
    PROVE  Queued(u, T, Tail(s))
  <1> DEFINE r == Tail(s)
  <1>1. /\ 1 \in 1..Len(s)
        /\ \A i \in 1..Len(r) : i + 1 \in 1..Len(s) /\ r[i] = s[i + 1]
    BY FirstTaken
  <1> HIDE DEF r
  <1>2. /\ \A j \in T : Asker(t, j)
        /\ \A i \in 1..Len(s) : Asker(t, s[i])
        /\ \A j, k \in T : j.conn = k.conn => j = k
        /\ \A i, k \in 1..Len(s) : s[i].conn = s[k].conn => i = k
        /\ \A j \in T, i \in 1..Len(s) : j.conn # s[i].conn
    BY DEF Queued
  <1>3. \A j \in T : Asker(u, j)
    BY <1>1, <1>2
  <1>4. ASSUME NEW i \in 1..Len(r) PROVE Asker(u, r[i])
    <2>1. i + 1 # 1
      OBVIOUS
    <2> QED
      BY <1>1, <1>2, <2>1
  <1>5. ASSUME NEW i \in 1..Len(r), NEW k \in 1..Len(r), r[i].conn = r[k].conn PROVE i = k
    <2>1. i + 1 = k + 1
      BY <1>1, <1>2, <1>5
    <2>2. i \in Int /\ k \in Int
      OBVIOUS
    <2> QED
      BY <2>1, <2>2
  <1>6. \A j \in T, i \in 1..Len(r) : j.conn # r[i].conn
    BY <1>1, <1>2
  <1>7. Queued(u, T, r)
    BY <1>2, <1>3, <1>4, <1>5, <1>6 DEF Queued
  <1> QED
    BY <1>7 DEF r

(* An answer is handed over.  It finds the connection that asked, unless   *)
(* one was cut while it was resolving.                                     *)
LEMMA HandleBlockStep ==
    ASSUME LifecycleInv, HandleBlock
    PROVE  LifecycleInv'
  <1> DEFINE f == Head(answers).fd
             c == item[f].data
  <1>1. /\ pc = "blocks" /\ answers # <<>> /\ answers' = Tail(answers)
        /\ UNCHANGED <<timeout, turn, slave, threads, silent, cut>>
        /\ \/ UNCHANGED <<pc, table, newborn>>
           \/ /\ item[f].used /\ ~pool[c].inUse
              /\ pc' = "crashed" /\ UNCHANGED <<table, newborn>>
           \/ /\ item[f].used /\ pool[c].inUse /\ pool[c].phase # "dns"
              /\ pc' = "aborted" /\ UNCHANGED <<table, newborn>>
           \/ /\ item[f].used /\ pool[c].inUse /\ pool[c].phase = "dns"
              /\ UNCHANGED pc /\ \E t \in DnsRead(c, f) : Become(t)
    BY DEF HandleBlock
  <1>2. TypeOK /\ Sound(Tables) /\ ClientsAsk /\ AskersWait /\ SameAge(Tables)
    BY <1>1, TablesAre DEF LifecycleInv, SoundUntilStopped, Clocked, SameAge
  <1>3. /\ answers \in Seq(Job) /\ answers' \in Seq(Job)
        /\ f = answers[1].fd /\ 1 \in 1..Len(answers) /\ answers[1] \in Job
        /\ \A i \in 1..Len(answers') : i + 1 \in 1..Len(answers) /\ answers'[i] = answers[i + 1]
    BY <1>1, <1>2, FirstTaken DEF TypeOK
  <1>4. f \in Fd /\ f # Listener
    BY <1>2, <1>3 DEF ClientsAsk, Job
  <1>5. item[f].used => c \in DOMAIN pool /\ Keyed(Tables, c, f)
    BY <1>2, <1>4, EntryFacts
  <1>6. ClientsAsk'
    BY <1>1, <1>2, <1>3 DEF ClientsAsk
  <1> HIDE DEF f, c
  <1>7. ~cut => Queued(Tables, threads, answers)
    BY <1>1, <1>2 DEF AskersWait
  <1>8. ~cut => c = answers[1].conn /\ c \in InUse /\ pool[c].phase = "dns"
    <2>1. ~cut => Asker(Tables, answers[1])
      BY <1>3, <1>7 DEF Queued
    <2> QED
      BY <1>3, <2>1, TablesAre DEF Asker, c
  <1>9. ASSUME ~cut, NEW u, \A j : Asker(Tables, j) /\ j.conn # answers[1].conn => Asker(u, j)
        PROVE  Queued(u, threads, answers')
    BY <1>1, <1>3, <1>7, <1>9, OthersQueued
  <1>10. ASSUME UNCHANGED <<table, newborn>>, pc' \in {"crashed", "aborted"},
                pc' = "aborted" => pool[c].phase # "dns"
         PROVE  LifecycleInv'
    <2>1. ~cut => Queued(Tables, threads, answers')
      BY <1>9
    <2>2. pc' = "aborted" => cut
      BY <1>8, <1>10
    <2>3. /\ cut' \in BOOLEAN /\ (~cut' => ~cut)
          /\ turn' \in [i : 0..(MaxFd + 1), half : Op, n : Fd] /\ slave' \in [Op -> SUBSET Fd]
      BY <1>1, <1>2 DEF TypeOK
    <2>4. Ending
      BY <1>1, <1>3, <1>10, <2>1, <2>2, <2>3 DEF Ending
    <2> QED
      BY <1>6, <2>4, EndedStep
  <1>11. CASE UNCHANGED <<pc, table, newborn>>
    <2>1. /\ Tables' = Tables /\ InUse' = InUse
          /\ open' = open /\ item' = item /\ pool' = pool /\ current' = current /\ lost' = lost
      BY <1>11, TableKept
    <2>2. TypeOK'
      BY <1>1, <1>2, <1>3, <1>11, <2>1 DEF TypeOK
    <2>3. SoundUntilStopped' /\ NothingIsNew' /\ ListenerFirst'
          /\ NewClientsAreNotReady' /\ Clocked'
      BY <1>1, <1>2, <1>11, <2>1, TablesAre
         DEF SoundUntilStopped, NothingIsNew, ListenerFirst, NewClientsAreNotReady,
             Clocked, SameAge
    <2>4. AskersWait'
      <3>1. ~cut => Queued(Tables, threads, answers')
        BY <1>9
      <3> QED
        BY <1>1, <1>11, <2>1, <3>1 DEF AskersWait
    <2> QED
      BY <1>6, <2>2, <2>3, <2>4 DEF LifecycleInv
  <1>12. ASSUME item[f].used, pool[c].inUse, pool[c].phase = "dns", UNCHANGED pc,
                NEW u \in DnsRead(c, f), Become(u)
         PROVE  LifecycleInv'
    <2>1. c \in InUse
      BY <1>5, <1>12 DEF InUse
    <2>2. c \in Index /\ c \in UsedBy(Tables) /\ Keyed(Tables, c, f)
      BY <1>2, <1>5, <1>12, <2>1, InUseFacts, TablesAre
    <2>3. Sound(u) /\ Serves(Tables, u, c)
      BY <1>2, <1>12, <2>2, SoundDnsRead
    <2>4. /\ Tables' = u /\ InUse' = UsedBy(u) /\ pool' = u.pool
      BY <1>12, <2>3, BecomeFacts DEF Sound, Consistent
    <2>5. Ageing(Tables)
      BY TablesAre DEF Ageing
    <2>6. Handled(Tables, u)
      BY <1>2, <1>12, <2>1, <2>3, <2>5, ServesHandles
    <2>7. /\ Len(u.pool) = Len(pool) /\ DOMAIN u.pool = DOMAIN pool
          /\ \A d \in DOMAIN pool : u.pool[d].age = Never \/ u.pool[d].age = pool[d].age
      BY <2>6, TablesAre DEF Handled
    <2>8. TypeOK'
      <3>1. Len(pool) \in Nat /\ Len(pool) <= MaxPool
        BY <1>2, LifecycleAssumption DEF TypeOK
      <3>2. TablesOK' /\ newborn' \subseteq Fd
        BY <1>2, <1>12, <2>3, <2>7, <3>1, TableTypes
      <3> QED
        BY <1>1, <1>2, <1>3, <1>12, <3>2 DEF TypeOK, TablesOK
    <2>9. SoundUntilStopped' /\ NothingIsNew' /\ ListenerFirst' /\ NewClientsAreNotReady'
      BY <1>1, <1>12, <2>3, <2>4
         DEF SoundUntilStopped, NothingIsNew, ListenerFirst, NewClientsAreNotReady
    <2>10. Clocked'
      <3>1. SameAge(u)
        BY <1>2, <2>7, TablesAre DEF SameAge
      <3> QED
        BY <1>1, <1>12, <2>4, <3>1 DEF Clocked, SameAge
    <2>11. AskersWait'
      <3>1. ASSUME ~cut PROVE Queued(u, threads, answers')
        <4>1. \A j : Asker(Tables, j) /\ j.conn # answers[1].conn => Asker(u, j)
          BY <1>2, <1>8, <2>3, <3>1, AskerServed DEF Sound
        <4> QED
          BY <1>9, <3>1, <4>1
      <3> QED
        BY <1>1, <1>12, <2>4, <3>1 DEF AskersWait
    <2> QED
      BY <1>6, <2>8, <2>9, <2>10, <2>11 DEF LifecycleInv
  <1>13. \/ UNCHANGED <<pc, table, newborn>>
         \/ /\ UNCHANGED <<table, newborn>> /\ pc' \in {"crashed", "aborted"}
            /\ pc' = "aborted" => pool[c].phase # "dns"
         \/ /\ item[f].used /\ pool[c].inUse /\ pool[c].phase = "dns"
            /\ UNCHANGED pc /\ \E t \in DnsRead(c, f) : Become(t)
    BY <1>1 DEF f, c
  <1> QED
    BY <1>10, <1>11, <1>12, <1>13

(* The steps that leave the tables and the jobs alone. *)
LEMMA QuietSteps ==
    ASSUME LifecycleInv, BlocksOver \/ SetTimeout \/ FallSilent \/ UNCHANGED vars
    PROVE  LifecycleInv'
  <1>1. /\ UNCHANGED <<table, turn, slave, threads, answers, cut>>
        /\ timeout' \in Timeouts /\ silent' \in BOOLEAN
        /\ \/ pc' = pc /\ newborn' = newborn
           \/ pc = "blocks" /\ pc' = "select" /\ newborn' = {}
    <2>1. timeout \in Timeouts /\ silent \in BOOLEAN
      BY DEF LifecycleInv, TypeOK
    <2>2. CASE BlocksOver
      BY <2>1, <2>2 DEF BlocksOver
    <2>3. CASE SetTimeout
      BY <2>1, <2>3 DEF SetTimeout, loop
    <2>4. CASE FallSilent
      BY <2>1, <2>4 DEF FallSilent, loop
    <2>5. CASE UNCHANGED vars
      BY <2>1, <2>5 DEF vars, table
    <2> QED
      BY <2>2, <2>3, <2>4, <2>5
  <1>2. /\ Tables' = Tables /\ InUse' = InUse
        /\ open' = open /\ item' = item /\ pool' = pool /\ current' = current /\ lost' = lost
    BY <1>1, TableKept
  <1>3. TypeOK'
    <2>1. TypeOK /\ newborn' \subseteq Fd
      BY <1>1 DEF LifecycleInv, TypeOK
    <2> QED
      BY <1>1, <1>2, <2>1 DEF TypeOK
  <1>4. SoundUntilStopped' /\ ClientsAsk' /\ NothingIsNew'
    BY <1>1, <1>2 DEF LifecycleInv, SoundUntilStopped, ClientsAsk, NothingIsNew
  <1>5. ListenerFirst' /\ NewClientsAreNotReady'
    BY <1>1, <1>2 DEF LifecycleInv, ListenerFirst, NewClientsAreNotReady
  <1>6. Clocked'
    BY <1>1, <1>2 DEF LifecycleInv, Clocked, Due, Passed
  <1>7. AskersWait'
    BY <1>1, <1>2 DEF LifecycleInv, AskersWait
  <1> QED
    BY <1>3, <1>4, <1>5, <1>6, <1>7 DEF LifecycleInv

(* The end of the server: every open descriptor is the listener's, one of  *)
(* a connection in use, or lost, and all but the lost ones are closed.     *)
LEMMA ShutdownStep ==
    ASSUME LifecycleInv, Shutdown
    PROVE  LifecycleInv'
  <1> DEFINE l == [Tables EXCEPT !.open = @ \ {Listener}, !.item[Listener] = FreeItem]
             fds == UNION {{l.pool[c].client, l.pool[c].remote} : c \in InUse}
             u == Dispose(l, InUse)
  <1>1. /\ pc = "select" /\ pc' = "stopped" /\ Become(u)
        /\ UNCHANGED <<timeout, turn, slave, threads, answers, silent, cut>>
    BY DEF Shutdown
  <1>2. TypeOK /\ Sound(Tables) /\ ClientsAsk /\ newborn = {}
    BY <1>1 DEF LifecycleInv, SoundUntilStopped, NothingIsNew
  <1>3. /\ l.open = open \ {Listener} /\ l.pool = pool /\ l.current = current /\ l.lost = lost
        /\ l.item = [item EXCEPT ![Listener] = FreeItem]
    BY DEF Tables
  <1> HIDE DEF l
  <1>4. /\ item \in [Fd -> Item] /\ open \subseteq Fd /\ Listener \in Fd /\ NoFd \notin Fd
        /\ pool \in Seq(Connection) /\ Len(pool) \in PoolSize..MaxPool
        /\ DOMAIN pool = 1..Len(pool) /\ Len(pool) \in Nat
        /\ \A c \in DOMAIN pool : pool[c] \in Connection
    <2>1. /\ item \in [Fd -> Item] /\ open \subseteq Fd
          /\ pool \in Seq(Connection) /\ Len(pool) \in PoolSize..MaxPool
      BY <1>2 DEF TypeOK
    <2>2. Listener \in Fd /\ NoFd \notin Fd
      BY LifecycleAssumption DEF Fd, Listener, NoFd
    <2>3. \A c \in DOMAIN pool : pool[c] \in Connection
      BY <2>1, ElementOfSeq
    <2> QED
      BY <2>1, <2>2, <2>3
  <1>5. \A g \in Fd : l.item[g] = IF g = Listener THEN FreeItem ELSE item[g]
    BY <1>3, <1>4
  <1>6. \A g \in open \ (lost \cup {Listener}) : g \in fds
    <2> SUFFICES ASSUME NEW g \in open \ (lost \cup {Listener}) PROVE g \in fds
      OBVIOUS
    <2>1. item[g].data \in InUse /\ g \in Held(Tables, item[g].data)
      BY <1>2, TablesAre DEF Sound, Consistent, Owned
    <2>2. g \in {l.pool[item[g].data].client, l.pool[item[g].data].remote}
      BY <1>3, <2>1, TablesAre
    <2> QED
      BY <2>1, <2>2
  <1>a. \A g \in fds : g = NoFd \/ g \notin lost
    <2> SUFFICES ASSUME NEW c \in InUse, NEW g \in {l.pool[c].client, l.pool[c].remote}, g # NoFd
                 PROVE  g \notin lost
      OBVIOUS
    <2>1. g \in Held(Tables, c)
      BY <1>3, TablesAre
    <2> QED
      BY <1>2, <2>1, TablesAre DEF Sound, Consistent, Owned
  <1>b. /\ lost \subseteq open /\ Listener \notin lost /\ lost \subseteq Fd
        /\ \A g \in Fd : item[g].used => g \in open
    BY <1>2, <1>4, TablesAre DEF Sound, Consistent, Watches
  <1>7. /\ u.open = l.open \ fds
        /\ u.item = [g \in Fd |-> IF g \in fds THEN FreeItem ELSE l.item[g]]
        /\ u.pool = [c \in DOMAIN l.pool |-> IF c \in InUse THEN Zeroed ELSE l.pool[c]]
        /\ u.current = l.current - Cardinality(InUse)
        /\ u.lost = l.lost
    BY DEF Dispose
  <1> HIDE DEF fds, u
  <1>8. /\ open' = u.open /\ item' = u.item /\ pool' = u.pool /\ current' = u.current
        /\ lost' = u.lost
        /\ newborn' = newborn \cup (u.open \ open)
    BY <1>1 DEF Become
  <1>9. open' = lost /\ lost' = lost
    <2>1. open' = (open \ {Listener}) \ fds /\ lost' = lost
      BY <1>3, <1>7, <1>8
    <2>2. \A g \in lost : g # NoFd
      BY <1>4, <1>b
    <2> QED
      BY <1>6, <1>a, <1>b, <2>1, <2>2
  <1>10. \A g \in Fd : item'[g] = FreeItem \/ (g \in lost /\ item'[g] = item[g])
    <2> SUFFICES ASSUME NEW g \in Fd PROVE item'[g] = FreeItem \/ (g \in lost /\ item'[g] = item[g])
      OBVIOUS
    <2>1. CASE g \in fds
      BY <1>7, <1>8, <2>1
    <2>2. CASE g \notin fds
      <3>1. g = Listener \/ g \notin open \/ g \in lost
        BY <1>6, <2>2
      <3>2. g \notin open => item[g] = FreeItem
        BY <1>2, TablesAre DEF Sound, Consistent, Watches
      <3>3. item'[g] = l.item[g]
        BY <1>7, <1>8, <2>2
      <3> QED
        BY <1>5, <3>1, <3>2, <3>3
    <2> QED
      BY <2>1, <2>2
  <1>11. item' \in [Fd -> Item]
    <2>1. item' = [g \in Fd |-> item'[g]]
      BY <1>7, <1>8
    <2>2. \A g \in Fd : item[g] \in Item
      BY <1>4
    <2> QED
      BY <1>10, <2>1, <2>2, RecordTypes
  <1>12. \A c \in DOMAIN pool : pool'[c] \in Connection /\ ~pool'[c].inUse
    <2>1. \A c \in DOMAIN pool : pool'[c] = IF c \in InUse THEN Zeroed ELSE pool[c]
      BY <1>3, <1>7, <1>8
    <2>2. \A c \in DOMAIN pool : c \notin InUse => ~pool[c].inUse
      BY DEF InUse
    <2>3. ~Zeroed.inUse
      BY DEF Zeroed
    <2> QED
      BY <1>4, <2>1, <2>2, <2>3, RecordTypes
  <1>13. DOMAIN pool' = DOMAIN pool /\ pool' = [c \in 1..Len(pool) |-> pool'[c]]
    BY <1>3, <1>4, <1>7, <1>8
  <1>14. pool' \in Seq(Connection) /\ Len(pool') = Len(pool)
    <2>1. pool' \in [1..Len(pool) -> Connection]
      BY <1>4, <1>12, <1>13
    <2> QED
      BY <1>4, <2>1
  <1>15. InUse' = {}
    BY <1>12, <1>13 DEF InUse
  <1>16. current' = 0
    <2>1. current = Cardinality(InUse)
      BY <1>2, TablesAre DEF Sound, Consistent, Counted
    <2>2. Cardinality(InUse) \in Nat
      BY <1>2, UsedByFinite, TablesAre DEF Sound, Consistent
    <2> QED
      BY <1>3, <1>7, <1>8, <2>1, <2>2
  <1>17. newborn' = {}
    BY <1>2, <1>8, <1>9, <1>b
  <1>18. TypeOK'
    <2>1. 0 \in 0..MaxPool
      BY LifecycleAssumption
    <2> QED
      BY <1>1, <1>2, <1>4, <1>9, <1>b, <1>11, <1>14, <1>16, <1>17, <2>1 DEF TypeOK, Ended
  <1>19. SoundUntilStopped'
    <2>1. ~FreeItem.used
      BY DEF FreeItem
    <2>2. \A g \in Fd : item'[g].used => g \in lost'
      BY <1>9, <1>10, <2>1
    <2> QED
      BY <1>1, <1>9, <1>15, <1>16, <2>2 DEF SoundUntilStopped
  <1>20. ClientsAsk' /\ NothingIsNew' /\ ListenerFirst' /\ NewClientsAreNotReady'
         /\ Clocked' /\ AskersWait'
    BY <1>1, <1>2, <1>17
       DEF ClientsAsk, NothingIsNew, ListenerFirst, NewClientsAreNotReady, Clocked, AskersWait
  <1> QED
    BY <1>18, <1>19, <1>20 DEF LifecycleInv

(* The server starts with its listener and a pool of empty objects. *)
LEMMA StartsSound == Init => LifecycleInv
  <1> SUFFICES ASSUME Init PROVE LifecycleInv
    OBVIOUS
  <1>1. /\ pc = "select" /\ open = {Listener} /\ pool = [c \in 1..PoolSize |-> Zeroed]
        /\ current = 0 /\ lost = {} /\ timeout \in Timeouts /\ turn = NoTurn
        /\ slave = [o \in Op |-> {}] /\ newborn = {} /\ threads = {} /\ answers = <<>>
        /\ silent = FALSE /\ cut = FALSE
    BY DEF Init
  <1>2. /\ PoolSize \in Nat /\ MaxPool \in Nat /\ PoolSize <= MaxPool /\ MaxFd \in Nat
    BY LifecycleAssumption
  <1>3. Listener \in Fd /\ 0 \in Fd /\ 0 \in 0..(MaxFd + 1) /\ 0 \in 0..MaxPool
        /\ NoFd \notin Fd
    BY <1>2 DEF Fd, Listener, NoFd
  <1> DEFINE L == [used |-> TRUE, data |-> 0, ops |-> {"r"}]
  <1>4. L \in Item
    BY <1>3, RecordTypes DEF Op
  <1>5. item = [f \in Fd |-> IF f = Listener THEN L ELSE FreeItem]
    BY DEF Init
  <1> HIDE DEF L
  <1>6. item \in [Fd -> Item]
    BY <1>4, <1>5, RecordTypes
  <1>7. pool \in Seq(Connection) /\ Len(pool) = PoolSize
        /\ DOMAIN pool = 1..PoolSize /\ \A c \in DOMAIN pool : pool[c] = Zeroed
    <2>1. pool \in [1..PoolSize -> Connection]
      BY <1>1, RecordTypes
    <2> QED
      BY <1>1, <1>2, <2>1
  <1>8. InUse = {}
    BY <1>7 DEF InUse, Zeroed
  <1>9. TypeOK
    <2>1. NoTurn \in [i : 0..(MaxFd + 1), half : Op, n : Fd]
      <3>1. "r" \in Op
        BY DEF Op
      <3> QED
        BY <1>3, <3>1 DEF NoTurn
    <2>2. Len(pool) \in PoolSize..MaxPool
      BY <1>2, <1>7
    <2>3. open \subseteq Fd /\ current \in 0..MaxPool /\ newborn \subseteq Fd /\ lost \subseteq Fd
      BY <1>1, <1>3
    <2>4. slave \in [Op -> SUBSET Fd]
      BY <1>1
    <2>5. threads \subseteq Job /\ answers \in Seq(Job)
      BY <1>1
    <2> QED
      BY <1>1, <1>6, <1>7, <2>1, <2>2, <2>3, <2>4, <2>5 DEF TypeOK
  <1>a. \A c \in DOMAIN pool : pool[c].age = Never
    BY <1>7 DEF Zeroed
  <1>b. Strays(Tables) = {}
    BY <1>1, TablesAre DEF Strays
  <1>10. Sound(Tables)
    <2>1. Tables \in Table
      <3>1. open \in SUBSET Fd /\ current \in Nat /\ lost \in SUBSET Fd
        BY <1>1, <1>3
      <3> QED
        BY <1>6, <1>7, <3>1 DEF Tables, Table
    <2>2. Watches(Tables)
      <3>1. L.used = TRUE /\ FreeItem.used = FALSE
        BY DEF L, FreeItem
      <3>2. item[Listener] = L
        BY <1>3, <1>5
      <3>3. \A f \in Fd : item[f].used <=> f \in open
        BY <1>1, <1>5, <3>1
      <3>4. \A f \in Fd : ~item[f].used => item[f] = FreeItem
        BY <1>5, <3>1
      <3> QED
        BY <1>1, <1>3, <3>2, <3>3, <3>4, TablesAre DEF Watches, L
    <2>3. Owned(Tables)
      BY <1>1, <1>7, <1>8, <1>b, TablesAre DEF Owned
    <2>4. Counted(Tables)
      <3>1. Cardinality(InUse) = 0
        BY <1>8, FS_EmptySet
      <3> QED
        BY <1>1, <3>1, TablesAre DEF Counted
    <2>5. Waiting(Tables)
      BY <1>8, TablesAre DEF Waiting
    <2>6. Clean(Tables)
      BY <1>7, <1>a, TablesAre DEF Clean, Unused, Zeroed
    <2> QED
      BY <2>1, <2>2, <2>3, <2>4, <2>5, <2>6 DEF Sound, Consistent
  <1>11. SoundUntilStopped
    BY <1>1, <1>10 DEF SoundUntilStopped
  <1>12. ClientsAsk
    BY <1>1 DEF ClientsAsk
  <1>13. NothingIsNew /\ ListenerFirst /\ NewClientsAreNotReady
    BY <1>1 DEF NothingIsNew, ListenerFirst, NewClientsAreNotReady
  <1>14. Clocked
    BY <1>1, <1>a DEF Clocked
  <1>15. AskersWait
    BY <1>1 DEF AskersWait, Queued
  <1> QED
    BY <1>9, <1>11, <1>12, <1>13, <1>14, <1>15 DEF LifecycleInv

-------------------------------------------------------------------------------
(* The theorems.                                                           *)

(* The inductive invariant: the tables of the selector and of the pool     *)
(* agree, the listener is visited first, the idle clocks go together, and  *)
(* those that asked a resolver wait for it.                                *)
THEOREM Invariance == Spec => []LifecycleInv
  <1>1. Init => LifecycleInv
    BY StartsSound
  <1>2. LifecycleInv /\ [Next]_vars => LifecycleInv'
    <2> SUFFICES ASSUME LifecycleInv, [Next]_vars PROVE LifecycleInv'
      OBVIOUS
    <2>1. CASE SelectReady
      BY <2>1, SelectReadyStep
    <2>2. CASE SelectInterrupted
      BY <2>2, SelectInterruptedStep
    <2>3. CASE SelectTimeout
      BY <2>3, SelectTimeoutStep
    <2>4. CASE Visit
      BY <2>4, VisitStep
    <2>5. CASE WriteTurn
      BY <2>5, WriteTurnStep
    <2>6. CASE IterationOver
      BY <2>6, IterationOverStep
    <2>7. CASE HandleBlock
      BY <2>7, HandleBlockStep
    <2>8. CASE BlocksOver \/ SetTimeout \/ FallSilent \/ Terminated \/ UNCHANGED vars
      BY <2>8, QuietSteps DEF Terminated
    <2>9. CASE ResolverAnswers
      BY <2>9, ResolverAnswersStep
    <2>10. CASE Shutdown
      BY <2>10, ShutdownStep
    <2> QED
      BY <2>1, <2>2, <2>3, <2>4, <2>5, <2>6, <2>7, <2>8, <2>9, <2>10
         DEF Next, SelectorStep
  <1> QED
    BY <1>1, <1>2, PTL DEF Spec

(* Every variable keeps its type: no descriptor, object, job or turn is    *)
(* ever out of range, and the count of connections never negative.         *)
THEOREM TypeCorrect == Spec => []TypeOK
  <1>1. LifecycleInv => TypeOK
    BY DEF LifecycleInv
  <1> QED
    BY <1>1, Invariance, PTL

(* Every open descriptor is the listener's, or of one connection in use on *)
(* whose behalf the selector watches it, or was left behind by a connect   *)
(* that failed at once, which alone outlive the server (selector.c, tcp.c, *)
(* object_pool.c).                                                         *)
THEOREM DescriptorsAlwaysHaveOwners == Spec => []DescriptorsHaveOwners
  <1>1. ASSUME LifecycleInv PROVE DescriptorsHaveOwners
    <2>1. CASE pc = "stopped"
      <3>1. open = lost /\ InUse = {} /\ \A f \in Fd : item[f].used => f \in lost
        BY <1>1, <2>1 DEF LifecycleInv, SoundUntilStopped
      <3>2. UNION {Descriptors(c) : c \in InUse} = {}
        BY <3>1
      <3> QED
        BY <2>1, <3>1, <3>2 DEF DescriptorsHaveOwners
    <2>2. CASE pc # "stopped"
      <3>1. TypeOK /\ Sound(Tables)
        BY <1>1, <2>2 DEF LifecycleInv, SoundUntilStopped
      <3>2. \A c \in InUse : Descriptors(c) = Held(Tables, c)
        BY <3>1, InUseFacts
      <3>3. /\ \A f \in open \ (lost \cup {Listener}) :
                  item[f].data \in InUse /\ f \in Held(Tables, item[f].data)
            /\ \A c \in InUse :
                  /\ pool[c].client \in Fd /\ pool[c].client # pool[c].remote
                  /\ \A f \in Held(Tables, c) :
                        f \in open \ (lost \cup {Listener}) /\ item[f].data = c
            /\ Listener \in open /\ lost \subseteq open
            /\ \A f \in Fd : item[f].used => f \in open
            /\ \A f \in open \ lost : item[f].used
        BY <3>1, TablesAre DEF Sound, Consistent, Owned, Watches
      <3>4. open = (UNION {Descriptors(c) : c \in InUse}) \cup lost \cup {Listener}
        <4>1. ASSUME NEW f \in open \ (lost \cup {Listener})
              PROVE  f \in UNION {Descriptors(c) : c \in InUse}
          BY <3>2, <3>3
        <4>2. ASSUME NEW c \in InUse, NEW f \in Descriptors(c) PROVE f \in open
          BY <3>2, <3>3
        <4>3. PICK D : D = UNION {Descriptors(c) : c \in InUse}
          OBVIOUS
        <4>4. D \subseteq open /\ open \ (lost \cup {Listener}) \subseteq D
          BY <4>1, <4>2, <4>3
        <4>5. open = D \cup lost \cup {Listener}
          BY <3>3, <4>4
        <4> QED
          BY <4>3, <4>5
      <3>5. \A c, d \in InUse : c # d => Descriptors(c) \cap Descriptors(d) = {}
        BY <3>2, <3>3
      <3>6. \A c \in InUse : Descriptors(c) \cap (lost \cup {Listener}) = {}
        BY <3>2, <3>3
      <3> QED
        BY <2>2, <3>2, <3>3, <3>4, <3>5, <3>6 DEF DescriptorsHaveOwners
    <2> QED
      BY <2>1, <2>2
  <1> QED
    BY <1>1, Invariance, PTL

(* CurrentConnections is the number of the connections there are.          *)
THEOREM MetricsAlwaysExact == Spec => []MetricsExact
  <1>1. ASSUME LifecycleInv PROVE MetricsExact
    <2>1. CASE pc = "stopped"
      <3>1. InUse = {} /\ current = 0
        BY <1>1, <2>1 DEF LifecycleInv, SoundUntilStopped
      <3> QED
        BY <3>1, FS_EmptySet DEF MetricsExact
    <2>2. CASE pc # "stopped"
      BY <1>1, <2>2, TablesAre
         DEF LifecycleInv, SoundUntilStopped, Sound, Consistent, Counted, MetricsExact
    <2> QED
      BY <2>1, <2>2
  <1> QED
    BY <1>1, Invariance, PTL

(* Whenever the selector is about to wait, the connections it has ever     *)
(* visited have been idle for the same time: the scan of socks5_timeout.c  *)
(* spares all of them or none.                                             *)
THEOREM AlwaysOneIdleClock == Spec => []OneIdleClock
  <1>1. LifecycleInv => OneIdleClock
    <2>1. \A c \in InUse : c \in DOMAIN pool
      BY DEF InUse
    <2> QED
      BY <2>1 DEF LifecycleInv, Clocked, OneIdleClock
  <1> QED
    BY <1>1, Invariance, PTL

(* A client that is accepted is not served in the same iteration on what   *)
(* was found of an earlier owner of its descriptor.                        *)
THEOREM NewClientsAreNeverReady == Spec => []NewClientsAreNotReady
  <1>1. LifecycleInv => NewClientsAreNotReady
    BY DEF LifecycleInv
  <1> QED
    BY <1>1, Invariance, PTL

(* Unless a connection was cut while it was resolving, every answer of a   *)
(* resolver finds the connection that asked, waiting, on its client or on  *)
(* a lost socket; and no event meets a state of fsm.c without a handler,   *)
(* unless the selector still has a lost socket.                            *)
THEOREM AnswersAlwaysFindAsker == Spec => []AnswersFindAsker
  <1>1. ASSUME LifecycleInv PROVE AnswersFindAsker
    <2>1. answers \in Seq(Job)
      BY <1>1 DEF LifecycleInv, TypeOK
    <2>2. \A j \in Range(answers) : \E i \in 1..Len(answers) : j = answers[i]
      BY <2>1 DEF Range
    <2> SUFFICES ASSUME pc # "stopped", ~cut
                 PROVE  /\ pc = "aborted" => Haunted
                        /\ \A j \in threads \cup Range(answers) :
                               /\ pool[j.conn].inUse
                               /\ pool[j.conn].phase = "dns"
                               /\ item[j.fd].used /\ item[j.fd].data = j.conn
                               /\ j.fd \in {pool[j.conn].client} \cup lost
      BY DEF AnswersFindAsker
    <2>3. TypeOK /\ Sound(Tables) /\ (pc = "aborted" => Strays(Tables) # {})
          /\ Queued(Tables, threads, answers)
      BY <1>1 DEF LifecycleInv, AskersWait, SoundUntilStopped
    <2>4. pc = "aborted" => Haunted
      BY <2>3, TablesAre DEF Strays, Haunted
    <2>5. ASSUME NEW j \in threads \cup Range(answers) PROVE Asker(Tables, j)
      <3>1. j \in threads \/ \E i \in 1..Len(answers) : j = answers[i]
        BY <2>2
      <3> QED
        BY <2>3, <3>1 DEF Queued
    <2>6. ASSUME NEW j, Asker(Tables, j)
          PROVE  /\ pool[j.conn].inUse
                 /\ pool[j.conn].phase = "dns"
                 /\ item[j.fd].used /\ item[j.fd].data = j.conn
                 /\ j.fd \in {pool[j.conn].client} \cup lost
      <3>1. /\ j.conn \in InUse /\ pool[j.conn].phase = "dns" /\ item[j.fd].data = j.conn
            /\ j.fd = pool[j.conn].client \/ (j.fd \in lost /\ item[j.fd].used)
        BY <2>6, TablesAre DEF Asker, Strays
      <3>2. item[pool[j.conn].client].used
        BY <2>3, <3>1, InUseFacts
      <3> QED
        BY <3>1, <3>2 DEF InUse
    <2> QED
      BY <2>4, <2>5, <2>6
  <1> QED
    BY <1>1, Invariance, PTL
=============================================================================
