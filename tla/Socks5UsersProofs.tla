-------------------------- MODULE Socks5UsersProofs ---------------------------
(***************************************************************************)
(* Proofs about Socks5Users.tla, for any users, connections and command    *)
(* line: the login flag never outlives the sessions it stands for, names   *)
(* stay unique, and a slot is clean when it is given to the next user.     *)
(***************************************************************************)
EXTENDS Socks5Users, WellFoundedInduction, FiniteSetTheorems, TLAPS

(* A scan of the list stops at one of the slots it is looking for. *)
LEMMA FirstIsMember ==
    ASSUME NEW I, I \subseteq Nat, I # {}
    PROVE  First(I) \in I
  <1> DEFINE Less == {ss \in Nat \X Nat : ss[1] < ss[2]}
  <1>1. Less = OpToRel(<, Nat)
    BY Zenon DEF OpToRel
  <1>2. IsWellFoundedOn(Less, Nat)
    BY <1>1, NatLessThanWellFounded
  <1>3. PICK i \in I : \A j \in I : ~ (<<j, i>> \in Less)
    BY <1>2, WFMin
  <1>4. \A j, k \in Nat : ~ (<<j, k>> \in Less) => k <= j
    OBVIOUS
  <1>5. \A j \in I : i <= j
    <2> HIDE DEF Less
    <2> QED
      BY <1>3, <1>4
  <1> QED
    BY <1>5 DEF First

(* The number of users in use while the command line is read. *)
LEMMA LoadedCount ==
    ASSUME TypeOK
    PROVE  /\ Loaded \in Nat
           /\ (\A i \in DOMAIN slots : slots[i].inUse) => Loaded = Len(slots)
           /\ (\A i \in DOMAIN slots : ~slots[i].inUse) => Loaded = 0
  <1> DEFINE InUse == {i \in DOMAIN slots : slots[i].inUse}
  <1>1. Len(slots) \in Nat /\ DOMAIN slots = 1 .. Len(slots)
    BY DEF TypeOK
  <1>2. IsFiniteSet(1 .. Len(slots)) /\ Cardinality(1 .. Len(slots)) = Len(slots)
    <2>1. 1 \in Int /\ Len(slots) \in Int
      BY <1>1
    <2>2. /\ IsFiniteSet(1 .. Len(slots))
          /\ Cardinality(1 .. Len(slots)) =
                IF 1 > Len(slots) THEN 0 ELSE Len(slots) - 1 + 1
      BY <2>1, FS_Interval
    <2> QED
      BY <1>1, <2>2
  <1>3. InUse \in SUBSET (1 .. Len(slots))
    BY <1>1
  <1>4. IsFiniteSet(InUse)
    BY <1>2, <1>3, FS_Subset
  <1>5. Loaded \in Nat
    BY <1>4, FS_CardinalityType DEF Loaded
  <1>6. ASSUME \A i \in DOMAIN slots : slots[i].inUse PROVE Loaded = Len(slots)
    <2>1. InUse = 1 .. Len(slots)
      BY <1>1, <1>6
    <2> QED
      BY <1>2, <2>1 DEF Loaded
  <1>7. ASSUME \A i \in DOMAIN slots : ~slots[i].inUse PROVE Loaded = 0
    <2>1. InUse = {}
      BY <1>7
    <2> QED
      BY <2>1, FS_EmptySet DEF Loaded
  <1> QED
    BY <1>5, <1>6, <1>7

-------------------------------------------------------------------------------
(* An empty slot is logged out, so that filling it needs no reset. *)
EmptySlotsLoggedOut ==
    \A i \in DOMAIN slots : ~slots[i].inUse => ~slots[i].loggedIn

(* While the command line is read, slot i holds its i-th user. *)
LoadsInOrder ==
    status = "starting" =>
        /\ \A c \in Conn : session[c] = 0
        /\ \A i \in DOMAIN slots : ~slots[i].loggedIn
        /\ \/ Len(slots) = 1 /\ ~slots[1].inUse
           \/ /\ Len(slots) <= Len(Initial)
              /\ \A i \in DOMAIN slots :
                    slots[i].inUse /\ slots[i].name \in {Initial[i][1], Garbled}

UsersInv ==
    /\ TypeOK
    /\ EmptySlotsLoggedOut
    /\ LoadsInOrder
    /\ FlagMeansSession
    /\ NamesUnique

LEMMA EmptyIsSlot == Empty \in Slot
  BY DEF Empty, Slot

LEMMA InitInv == Init => UsersInv
  <1> SUFFICES ASSUME Init PROVE UsersInv
    OBVIOUS
  <1>1. slots \in Seq(Slot) /\ Len(slots) = 1 /\ DOMAIN slots = {1} /\ slots[1] = Empty
    BY EmptyIsSlot DEF Init
  <1>2. ~slots[1].inUse /\ ~slots[1].loggedIn
    BY <1>1 DEF Empty
  <1>3. TypeOK
    BY <1>1, UsersAssumption DEF Init, TypeOK, Replies
  <1> QED
    BY <1>1, <1>2, <1>3
       DEF Init, UsersInv, EmptySlotsLoggedOut, LoadsInOrder, FlagMeansSession, NamesUnique

(* What LoadSingleUser does to the list: one slot i is new or was empty,   *)
(* and now holds a copy of the name, logged out as before.                 *)
LEMMA LoadChangesOneSlot ==
    ASSUME TypeOK, EmptySlotsLoggedOut,
           NEW n \in Name, NEW p \in Pass, LoadSingleUser(n, p)
    PROVE  /\ slots' \in Seq(Slot)
           /\ Len(slots') \in 1 .. MaxSlots
           /\ Len(slots) <= Len(slots')
           /\ \E i \in DOMAIN slots' :
                 /\ i \in DOMAIN slots => ~slots[i].inUse /\ Len(slots') = Len(slots)
                 /\ i \notin DOMAIN slots =>
                       /\ i = Len(slots) + 1 /\ Len(slots') = i
                       /\ \A j \in DOMAIN slots : slots[j].inUse
                 /\ slots'[i].inUse
                 /\ slots'[i].name \in {n, Garbled}
                 /\ ~slots'[i].loggedIn
                 /\ \A j \in DOMAIN slots' \ {i} :
                       j \in DOMAIN slots /\ slots'[j] = slots[j]
  <1> DEFINE free == {i \in DOMAIN slots : ~slots[i].inUse}
  <1>1. slots \in Seq(Slot) /\ Len(slots) \in 1 .. MaxSlots /\ MaxSlots \in Nat
    BY UsersAssumption DEF TypeOK
  <1>2. DOMAIN slots = 1 .. Len(slots) /\ Len(slots) \in Nat
    BY <1>1
  <1>3. CASE free # {}
    <2> DEFINE i == First(free)
    <2>1. i \in free
      <3>1. free \subseteq Nat
        BY <1>2
      <3> HIDE DEF free
      <3> QED
        BY <1>3, <3>1, FirstIsMember
    <2> HIDE DEF i
    <2>2. slots' = [slots EXCEPT ![i].name = n, ![i].pass = p, ![i].inUse = TRUE]
      BY <1>3 DEF LoadSingleUser, i
    <2>3. slots[i] \in Slot /\ ~slots[i].inUse /\ ~slots[i].loggedIn
      BY <1>1, <1>2, <2>1 DEF EmptySlotsLoggedOut
    <2> DEFINE new == [slots[i] EXCEPT !.name = n, !.pass = p, !.inUse = TRUE]
    <2>4. new \in Slot /\ new.inUse /\ new.name = n /\ ~new.loggedIn
      BY <2>3 DEF Slot
    <2>5. slots' = [slots EXCEPT ![i] = new]
      BY <2>2
    <2> HIDE DEF new
    <2>6. slots' \in Seq(Slot) /\ Len(slots') = Len(slots) /\ DOMAIN slots' = DOMAIN slots
      BY <1>1, <1>2, <2>1, <2>4, <2>5
    <2>7. slots'[i] = new /\ \A j \in DOMAIN slots' \ {i} : slots'[j] = slots[j]
      BY <1>1, <1>2, <2>1, <2>5, <2>6
    <2> QED
      BY <1>1, <1>2, <2>1, <2>3, <2>4, <2>6, <2>7
  <1>4. CASE free = {}
    <2>1. Len(slots) < MaxSlots
      BY <1>4 DEF LoadSingleUser
    <2>2. PICK user \in Appended(n, p) : slots' = Append(slots, user)
      BY <1>4 DEF LoadSingleUser
    <2>3. user \in Slot /\ user.inUse /\ user.name \in {n, Garbled} /\ ~user.loggedIn
      <3>1. Copy(n) \subseteq {n, Garbled} /\ Copy(p) \subseteq {p, Garbled}
        BY DEF Copy
      <3> QED
        BY <3>1 DEF Appended, Slot
    <2>4. /\ slots' \in Seq(Slot) /\ Len(slots') = Len(slots) + 1
          /\ slots'[Len(slots) + 1] = user
          /\ \A j \in 1 .. Len(slots) : slots'[j] = slots[j]
          /\ DOMAIN slots' = 1 .. Len(slots) + 1
      BY <1>1, <1>2, <2>2, <2>3
    <2>5. \A j \in DOMAIN slots : slots[j].inUse
      BY <1>4
    <2>6. Len(slots) + 1 \in DOMAIN slots' /\ Len(slots) + 1 \notin DOMAIN slots
      BY <1>2, <2>4
    <2>7. \A j \in DOMAIN slots' \ {Len(slots) + 1} :
              j \in DOMAIN slots /\ slots'[j] = slots[j]
      BY <1>2, <2>4
    <2>8. Len(slots') \in 1 .. MaxSlots /\ Len(slots) <= Len(slots')
      BY <1>1, <1>2, <2>1, <2>4
    <2> QED
      BY <2>3, <2>4, <2>5, <2>6, <2>7, <2>8
  <1> QED
    BY <1>3, <1>4

-------------------------------------------------------------------------------
(* One lemma per action that changes the list or the sessions. *)

LEMMA LoadNextInv == UsersInv /\ LoadNext => UsersInv'
  <1> SUFFICES ASSUME UsersInv, LoadNext PROVE UsersInv'
    OBVIOUS
  <1> DEFINE k == Loaded + 1
             n == Initial[k][1]
             p == Initial[k][2]
  <1>1. Loaded \in Nat /\ k \in 1 .. Len(Initial) /\ Len(Initial) \in Nat
    BY LoadedCount, UsersAssumption DEF LoadNext, UsersInv
  <1>2. n \in Name /\ p \in Pass
    BY <1>1, UsersAssumption
  <1>3. status = "starting" /\ LoadSingleUser(n, p)
        /\ UNCHANGED <<session, account, reply, status>>
    BY DEF LoadNext
  <1> HIDE DEF n, p
  <1>4. TypeOK /\ EmptySlotsLoggedOut
    BY DEF UsersInv
  <1>5. PICK i \in DOMAIN slots' :
           /\ i \in DOMAIN slots => ~slots[i].inUse /\ Len(slots') = Len(slots)
           /\ i \notin DOMAIN slots =>
                 /\ i = Len(slots) + 1 /\ Len(slots') = i
                 /\ \A j \in DOMAIN slots : slots[j].inUse
           /\ slots'[i].inUse
           /\ slots'[i].name \in {n, Garbled}
           /\ ~slots'[i].loggedIn
           /\ \A j \in DOMAIN slots' \ {i} :
                 j \in DOMAIN slots /\ slots'[j] = slots[j]
    BY <1>2, <1>3, <1>4, LoadChangesOneSlot
  <1>6. /\ slots' \in Seq(Slot) /\ Len(slots') \in 1 .. MaxSlots
        /\ Len(slots) <= Len(slots') /\ Len(slots) \in Nat /\ Len(slots') \in Nat
        /\ DOMAIN slots = 1 .. Len(slots) /\ DOMAIN slots' = 1 .. Len(slots')
    BY <1>2, <1>3, <1>4, LoadChangesOneSlot, UsersAssumption DEF TypeOK
  <1>7. TypeOK'
    BY <1>3, <1>4, <1>6 DEF TypeOK
  <1>8. EmptySlotsLoggedOut'
    BY <1>4, <1>5 DEF EmptySlotsLoggedOut
  <1>9. i = k /\ (i \in DOMAIN slots => Len(slots) = 1)
    <2>1. CASE Len(slots) = 1 /\ ~slots[1].inUse
      <3>1. \A j \in DOMAIN slots : ~slots[j].inUse
        BY <1>6, <2>1
      <3>2. Loaded = 0
        BY <1>4, <3>1, LoadedCount
      <3>3. i \in DOMAIN slots
        BY <1>5, <1>6, <2>1
      <3> QED
        BY <1>6, <2>1, <3>2, <3>3
    <2>2. CASE \A j \in DOMAIN slots : slots[j].inUse
      <3>1. Loaded = Len(slots)
        BY <1>4, <2>2, LoadedCount
      <3>2. i \notin DOMAIN slots
        BY <1>5, <2>2
      <3> QED
        BY <1>5, <3>1, <3>2
    <2> QED
      BY <1>3, <2>1, <2>2 DEF UsersInv, LoadsInOrder
  <1>10. /\ Len(slots') <= Len(Initial)
         /\ \A j \in DOMAIN slots' :
               slots'[j].inUse /\ slots'[j].name \in {Initial[j][1], Garbled}
    <2>1. slots'[k].name \in {Initial[k][1], Garbled} /\ slots'[k].inUse
      BY <1>5, <1>9 DEF n
    <2>2. CASE i \in DOMAIN slots
      <3> HIDE DEF k
      <3>0. Len(slots') = Len(slots) /\ Len(slots) = 1
        BY <1>5, <1>9, <2>2
      <3>1. Len(slots') = 1 /\ k = 1
        BY <1>6, <1>9, <2>2, <3>0
      <3> QED
        BY <1>1, <1>6, <2>1, <3>1
    <2>3. CASE i \notin DOMAIN slots
      <3>1. \A j \in DOMAIN slots : slots[j].inUse
        BY <1>5, <2>3
      <3>2. \A j \in DOMAIN slots : slots[j].name \in {Initial[j][1], Garbled}
        <4>1. 1 \in DOMAIN slots
          BY <1>4, <1>6 DEF TypeOK
        <4>2. slots[1].inUse
          BY <3>1, <4>1
        <4> QED
          BY <1>3, <4>2 DEF UsersInv, LoadsInOrder
      <3>3. Len(slots') = k
        BY <1>5, <1>9, <2>3
      <3> QED
        BY <1>1, <1>5, <1>9, <2>1, <3>1, <3>2, <3>3
    <2> QED
      BY <2>2, <2>3
  <1>11. LoadsInOrder'
    <2>1. \A j \in DOMAIN slots' : ~slots'[j].loggedIn
      BY <1>3, <1>5 DEF UsersInv, LoadsInOrder
    <2> QED
      BY <1>3, <1>10, <2>1 DEF UsersInv, LoadsInOrder
  <1>12. FlagMeansSession'
    BY <1>3 DEF FlagMeansSession
  <1>13. NamesUnique'
    <2>1. DOMAIN slots' \subseteq DOMAIN Initial
      BY <1>1, <1>6, <1>10, UsersAssumption
    <2> QED
      BY <1>10, <2>1 DEF NamesUnique
  <1> QED
    BY <1>7, <1>8, <1>11, <1>12, <1>13 DEF UsersInv

LEMMA RunInv == UsersInv /\ Run => UsersInv'
  BY DEF UsersInv, Run, TypeOK, EmptySlotsLoggedOut, LoadsInOrder, FlagMeansSession,
         NamesUnique

LEMMA LogInInv ==
    ASSUME UsersInv, NEW c \in Conn, NEW n \in Name, NEW p \in Pass, LogIn(c, n, p)
    PROVE  UsersInv'
  <1> DEFINE same == {j \in DOMAIN slots :
                         slots[j].inUse /\ slots[j].name = n /\ slots[j].pass = p}
             i == First(same)
  <1>1. slots \in Seq(Slot) /\ Len(slots) \in Nat /\ DOMAIN slots = 1 .. Len(slots)
    BY DEF UsersInv, TypeOK
  <1>2. i \in same
    <2>1. same \subseteq Nat
      BY <1>1
    <2>2. same # {}
      BY DEF LogIn
    <2> HIDE DEF same
    <2> QED
      BY <2>1, <2>2, FirstIsMember
  <1>3. /\ status = "running" /\ session[c] = 0
        /\ slots' = [slots EXCEPT ![i].loggedIn = TRUE]
        /\ session' = [session EXCEPT ![c] = i]
        /\ account' = [account EXCEPT ![c] = n]
        /\ UNCHANGED <<reply, status>>
    BY DEF LogIn
  <1> HIDE DEF i
  <1>4. i \in DOMAIN slots /\ slots[i] \in Slot /\ slots[i].inUse /\ slots[i].name = n
    BY <1>1, <1>2
  <1>5. /\ slots' \in Seq(Slot) /\ Len(slots') = Len(slots) /\ DOMAIN slots' = DOMAIN slots
        /\ \A j \in DOMAIN slots :
              /\ slots'[j].inUse = slots[j].inUse
              /\ slots'[j].name = slots[j].name
              /\ j # i => slots'[j].loggedIn = slots[j].loggedIn
    <2>1. [slots[i] EXCEPT !.loggedIn = TRUE] \in Slot
      BY <1>4 DEF Slot
    <2>2. slots' = [slots EXCEPT ![i] = [slots[i] EXCEPT !.loggedIn = TRUE]]
      BY <1>3
    <2>3. \A j \in DOMAIN slots : slots[j] \in Slot
      BY <1>1
    <2>4. /\ slots' \in Seq(Slot) /\ Len(slots') = Len(slots)
          /\ DOMAIN slots' = DOMAIN slots
      BY <1>1, <1>4, <2>1, <2>2
    <2>5. slots'[i] = [slots[i] EXCEPT !.loggedIn = TRUE]
      BY <1>1, <1>4, <2>2
    <2>6. slots'[i].inUse = slots[i].inUse /\ slots'[i].name = slots[i].name
      BY <1>4, <2>5 DEF Slot
    <2>7. \A j \in DOMAIN slots : j # i => slots'[j] = slots[j]
      BY <1>1, <2>2
    <2> QED
      BY <2>4, <2>6, <2>7
  <1>6. /\ session \in [Conn -> 0 .. Len(slots)]
        /\ account \in [Conn -> Name \cup {Null}]
    BY DEF UsersInv, TypeOK
  <1>7. TypeOK'
    BY <1>1, <1>3, <1>4, <1>5, <1>6 DEF UsersInv, TypeOK
  <1>8. EmptySlotsLoggedOut'
    BY <1>4, <1>5 DEF UsersInv, EmptySlotsLoggedOut
  <1>9. LoadsInOrder'
    BY <1>3 DEF LoadsInOrder
  <1>10. FlagMeansSession'
    <2> SUFFICES ASSUME NEW j \in DOMAIN slots, slots'[j].loggedIn
                 PROVE  /\ slots'[j].inUse
                        /\ \E d \in Conn : session'[d] = j /\ account'[d] = slots'[j].name
      BY <1>5 DEF FlagMeansSession
    <2>1. CASE j = i
      BY <1>3, <1>4, <1>5, <1>6, <2>1
    <2>2. CASE j # i
      <3>1. slots[j].loggedIn
        BY <1>5, <2>2
      <3>2. PICK d \in Conn : session[d] = j /\ account[d] = slots[j].name
        BY <1>3, <3>1 DEF UsersInv, FlagMeansSession
      <3>3. slots[j].inUse
        BY <1>3, <3>1 DEF UsersInv, FlagMeansSession
      <3>4. d # c
        BY <1>1, <1>3, <3>2
      <3> QED
        BY <1>3, <1>5, <1>6, <3>2, <3>3, <3>4
    <2> QED
      BY <2>1, <2>2
  <1>11. NamesUnique'
    BY <1>5 DEF UsersInv, NamesUnique
  <1> QED
    BY <1>7, <1>8, <1>9, <1>10, <1>11 DEF UsersInv

LEMMA DisposeInv ==
    ASSUME UsersInv, NEW c \in Conn, Dispose(c)
    PROVE  UsersInv'
  <1> DEFINE i == session[c]
  <1>1. /\ slots \in Seq(Slot) /\ Len(slots) \in Nat /\ DOMAIN slots = 1 .. Len(slots)
        /\ session \in [Conn -> 0 .. Len(slots)]
        /\ account \in [Conn -> Name \cup {Null}]
    BY DEF UsersInv, TypeOK
  <1>2. /\ i \in DOMAIN slots
        /\ session' = [session EXCEPT ![c] = 0]
        /\ account' = [account EXCEPT ![c] = Null]
        /\ UNCHANGED reply
    BY <1>1 DEF Dispose
  <1>3. CASE status = "stopping"
    <2>1. status' = "undefined" /\ UNCHANGED slots
      BY <1>3 DEF Dispose
    <2>2. session' \in [Conn -> 0 .. Len(slots')] /\ account' \in [Conn -> Name \cup {Null}]
      BY <1>1, <1>2, <2>1
    <2> QED
      BY <1>2, <2>1, <2>2 DEF UsersInv, TypeOK, EmptySlotsLoggedOut, LoadsInOrder,
                              FlagMeansSession, NamesUnique
  <1>4. CASE status = "running"
    <2>1. slots' = [slots EXCEPT ![i] = [slots[i] EXCEPT !.loggedIn = FALSE]]
          /\ UNCHANGED status
      BY <1>4 DEF Dispose
    <2> HIDE DEF i
    <2>2. slots[i] \in Slot
      BY <1>1, <1>2
    <2>3. [slots[i] EXCEPT !.loggedIn = FALSE] \in Slot
      BY <2>2 DEF Slot
    <2>4. /\ slots' \in Seq(Slot) /\ Len(slots') = Len(slots)
          /\ DOMAIN slots' = DOMAIN slots
          /\ slots'[i] = [slots[i] EXCEPT !.loggedIn = FALSE]
          /\ \A j \in DOMAIN slots : j # i => slots'[j] = slots[j]
      BY <1>1, <1>2, <2>1, <2>3
    <2>5. /\ slots'[i].inUse = slots[i].inUse /\ slots'[i].name = slots[i].name
          /\ ~slots'[i].loggedIn
      BY <2>2, <2>4 DEF Slot
    <2>6. session' \in [Conn -> 0 .. Len(slots')] /\ account' \in [Conn -> Name \cup {Null}]
      BY <1>1, <1>2, <2>4
    <2>7. TypeOK'
      BY <1>2, <2>1, <2>4, <2>6 DEF UsersInv, TypeOK
    <2>8. EmptySlotsLoggedOut'
      BY <2>4, <2>5 DEF UsersInv, EmptySlotsLoggedOut
    <2>9. LoadsInOrder'
      BY <1>4, <2>1 DEF LoadsInOrder
    <2>10. FlagMeansSession'
      <3> SUFFICES ASSUME NEW j \in DOMAIN slots, slots'[j].loggedIn
                   PROVE  /\ slots'[j].inUse
                          /\ \E d \in Conn : session'[d] = j /\ account'[d] = slots'[j].name
        BY <2>4 DEF FlagMeansSession
      <3>1. j # i /\ slots'[j] = slots[j]
        BY <2>4, <2>5
      <3>2. slots[j].inUse
        BY <1>4, <3>1 DEF UsersInv, FlagMeansSession
      <3>3. PICK d \in Conn : session[d] = j /\ account[d] = slots[j].name
        BY <1>4, <3>1 DEF UsersInv, FlagMeansSession
      <3>4. d # c
        BY <3>1, <3>3 DEF i
      <3> QED
        BY <1>1, <1>2, <3>1, <3>2, <3>3, <3>4
    <2>11. NamesUnique'
      <3>1. \A j \in DOMAIN slots : /\ slots'[j].inUse = slots[j].inUse
                                     /\ slots'[j].name = slots[j].name
        BY <2>4, <2>5
      <3> QED
        BY <2>4, <3>1 DEF UsersInv, NamesUnique
    <2> QED
      BY <2>7, <2>8, <2>9, <2>10, <2>11 DEF UsersInv
  <1> QED
    BY <1>3, <1>4 DEF Dispose

LEMMA SetUserInv ==
    ASSUME UsersInv, NEW n \in Name, NEW p \in Pass, SetUser(n, p)
    PROVE  UsersInv'
  <1> USE DEF UsersInv
  <1>1. status = "running" /\ UNCHANGED <<session, account, status>> /\ reply' \in Replies
    BY DEF SetUser, Replies
  <1>2. CASE UNCHANGED slots
    BY <1>1, <1>2 DEF TypeOK, EmptySlotsLoggedOut, LoadsInOrder, FlagMeansSession, NamesUnique
  <1>3. CASE /\ ~\E i \in DOMAIN slots : slots[i].inUse /\ slots[i].name = n
             /\ LoadSingleUser(n, p)
    <2>1. PICK i \in DOMAIN slots' :
             /\ i \in DOMAIN slots => ~slots[i].inUse /\ Len(slots') = Len(slots)
             /\ i \notin DOMAIN slots => i = Len(slots) + 1 /\ Len(slots') = i
             /\ slots'[i].inUse
             /\ slots'[i].name \in {n, Garbled}
             /\ ~slots'[i].loggedIn
             /\ \A j \in DOMAIN slots' \ {i} :
                   j \in DOMAIN slots /\ slots'[j] = slots[j]
      BY <1>3, LoadChangesOneSlot
    <2>2. /\ slots' \in Seq(Slot) /\ Len(slots') \in 1 .. MaxSlots
          /\ Len(slots) <= Len(slots') /\ Len(slots) \in Nat /\ Len(slots') \in Nat
      BY <1>3, LoadChangesOneSlot, UsersAssumption DEF TypeOK
    <2>3. TypeOK'
      BY <1>1, <2>2 DEF TypeOK
    <2>4. EmptySlotsLoggedOut'
      BY <2>1 DEF EmptySlotsLoggedOut
    <2>5. LoadsInOrder'
      BY <1>1 DEF LoadsInOrder
    <2>6. FlagMeansSession'
      <3> SUFFICES ASSUME NEW j \in DOMAIN slots', slots'[j].loggedIn
                   PROVE  /\ slots'[j].inUse
                          /\ \E d \in Conn : session'[d] = j /\ account'[d] = slots'[j].name
        BY DEF FlagMeansSession
      <3>1. j \in DOMAIN slots /\ slots'[j] = slots[j]
        BY <2>1
      <3> QED
        BY <1>1, <3>1 DEF FlagMeansSession
    <2>7. NamesUnique'
      <3> SUFFICES ASSUME NEW j \in DOMAIN slots', NEW k \in DOMAIN slots', j # k,
                          slots'[j].inUse, slots'[k].inUse,
                          slots'[j].name = slots'[k].name, slots'[j].name # Garbled
                   PROVE  \E l, m \in DOMAIN Initial :
                             /\ l # m
                             /\ slots'[j].name = Initial[l][1]
                             /\ slots'[j].name = Initial[m][1]
        BY DEF NamesUnique
      <3>1. j # i /\ k # i
        BY <1>3, <2>1
      <3> QED
        BY <2>1, <3>1 DEF NamesUnique
    <2> QED
      BY <2>3, <2>4, <2>5, <2>6, <2>7
  <1> QED
    BY <1>2, <1>3 DEF SetUser

LEMMA DelUserInv ==
    ASSUME UsersInv, NEW n \in Name, DelUser(n)
    PROVE  UsersInv'
  <1> DEFINE stops == {j \in DOMAIN slots : slots[j].name \in {n, Null}}
             i == First(stops)
  <1>1. /\ slots \in Seq(Slot) /\ Len(slots) \in Nat /\ DOMAIN slots = 1 .. Len(slots)
    BY DEF UsersInv, TypeOK
  <1>2. status = "running" /\ UNCHANGED <<session, account>>
    BY DEF DelUser
  <1>3. CASE UNCHANGED slots
    <2>1. status' \in {"running", "crashed"} /\ reply' \in Replies
      BY <1>2 DEF DelUser, Replies, UsersInv, TypeOK
    <2> QED
      BY <1>2, <1>3, <2>1 DEF UsersInv, TypeOK, EmptySlotsLoggedOut, LoadsInOrder,
                              FlagMeansSession, NamesUnique
  <1>4. CASE /\ stops # {} /\ ~slots[i].loggedIn /\ reply' = "OK"
             /\ slots' = [slots EXCEPT ![i] = Empty] /\ UNCHANGED status
    <2>1. i \in DOMAIN slots
      <3>1. stops \subseteq Nat /\ stops \subseteq DOMAIN slots
        BY <1>1
      <3> HIDE DEF stops
      <3> QED
        BY <1>4, <3>1, FirstIsMember
    <2> HIDE DEF i
    <2>2. /\ slots' \in Seq(Slot) /\ Len(slots') = Len(slots)
          /\ DOMAIN slots' = DOMAIN slots
          /\ slots'[i] = Empty
          /\ \A j \in DOMAIN slots : j # i => slots'[j] = slots[j]
      BY <1>1, <1>4, <2>1, EmptyIsSlot
    <2>3. ~slots'[i].inUse /\ ~slots'[i].loggedIn
      BY <2>2 DEF Empty
    <2>4. TypeOK'
      BY <1>2, <1>4, <2>2 DEF UsersInv, TypeOK, Replies
    <2>5. EmptySlotsLoggedOut'
      BY <2>2, <2>3 DEF UsersInv, EmptySlotsLoggedOut
    <2>6. LoadsInOrder'
      BY <1>2, <1>4 DEF LoadsInOrder
    <2>7. FlagMeansSession'
      <3> SUFFICES ASSUME NEW j \in DOMAIN slots, slots'[j].loggedIn
                   PROVE  /\ slots'[j].inUse
                          /\ \E d \in Conn : session'[d] = j /\ account'[d] = slots'[j].name
        BY <2>2 DEF FlagMeansSession
      <3>1. slots'[j] = slots[j]
        BY <2>2, <2>3
      <3> QED
        BY <1>2, <3>1 DEF UsersInv, FlagMeansSession
    <2>8. NamesUnique'
      BY <2>2, <2>3 DEF UsersInv, NamesUnique
    <2> QED
      BY <2>4, <2>5, <2>6, <2>7, <2>8 DEF UsersInv
  <1> QED
    BY <1>3, <1>4 DEF DelUser

LEMMA NextInv == UsersInv /\ [Next]_vars => UsersInv'
  <1> SUFFICES ASSUME UsersInv, [Next]_vars PROVE UsersInv'
    OBVIOUS
  <1>1. CASE Stop
    BY <1>1 DEF Stop, UsersInv, TypeOK, EmptySlotsLoggedOut, LoadsInOrder,
                FlagMeansSession, NamesUnique
  <1>2. CASE UNCHANGED vars
    BY <1>2 DEF vars, UsersInv, TypeOK, EmptySlotsLoggedOut, LoadsInOrder,
                FlagMeansSession, NamesUnique
  <1> QED
    BY <1>1, <1>2, LoadNextInv, RunInv, LogInInv, DisposeInv, SetUserInv, DelUserInv
       DEF Next, Ended

(* The inductive invariant: what an empty slot is, how the command line    *)
(* fills the list, what a flag stands for and which names are ambiguous.   *)
THEOREM UsersInvariantHolds == Spec => []UsersInv
  BY InitInv, NextInv, PTL DEF Spec

(* Every step keeps the types; a session never points outside the list. *)
THEOREM TypeCorrect == Spec => []TypeOK
  <1>1. UsersInv => TypeOK
    BY DEF UsersInv
  <1> QED
    BY <1>1, UsersInvariantHolds, PTL

(* A user flagged as logged in has a live session under its own name. *)
THEOREM FlagsMeanSessions == Spec => []FlagMeansSession
  <1>1. UsersInv => FlagMeansSession
    BY DEF UsersInv
  <1> QED
    BY <1>1, UsersInvariantHolds, PTL

(* Additions and deletions in any order keep the names unique. *)
THEOREM NamesAreUnique == Spec => []NamesUnique
  <1>1. UsersInv => NamesUnique
    BY DEF UsersInv
  <1> QED
    BY <1>1, UsersInvariantHolds, PTL

(* One lemma per action: filling a slot, and the two that change a flag. *)
LEMMA LoadFillsLoggedOut ==
    ASSUME UsersInv, NEW n \in Name, NEW p \in Pass, LoadSingleUser(n, p)
    PROVE  FillsLoggedOut
  <1>1. PICK i \in DOMAIN slots' :
           /\ ~slots'[i].loggedIn
           /\ \A j \in DOMAIN slots' \ {i} :
                 j \in DOMAIN slots /\ slots'[j] = slots[j]
    BY LoadChangesOneSlot DEF UsersInv
  <1> QED
    BY <1>1 DEF FillsLoggedOut

LEMMA FlagsFillNothing ==
    ASSUME UsersInv,
           slots' = slots \/ \E i \in Nat, b \in BOOLEAN :
                                slots' = [slots EXCEPT ![i].loggedIn = b]
    PROVE  FillsLoggedOut
  <1>1. slots \in Seq(Slot)
    BY DEF UsersInv, TypeOK
  <1>2. CASE slots' = slots
    BY <1>2 DEF FillsLoggedOut
  <1>3. ASSUME NEW i \in Nat, NEW b \in BOOLEAN,
               slots' = [slots EXCEPT ![i].loggedIn = b]
        PROVE  FillsLoggedOut
    <2>1. DOMAIN slots' = DOMAIN slots
      BY <1>3
    <2>2. \A j \in DOMAIN slots : j # i => slots'[j] = slots[j]
      BY <1>3
    <2>3. i \in DOMAIN slots => slots'[i] = [slots[i] EXCEPT !.loggedIn = b]
      BY <1>3
    <2>4. i \in DOMAIN slots => slots[i] \in Slot
      BY <1>1
    <2>5. i \in DOMAIN slots => slots'[i].inUse = slots[i].inUse
      BY <2>3, <2>4 DEF Slot
    <2> QED
      BY <2>1, <2>2, <2>5 DEF FillsLoggedOut
  <1> QED
    BY <1>2, <1>3

LEMMA DelUserFillsNothing ==
    ASSUME UsersInv, NEW n \in Name, DelUser(n)
    PROVE  FillsLoggedOut
  <1> DEFINE i == First({j \in DOMAIN slots : slots[j].name \in {n, Null}})
  <1>1. slots' = slots \/ slots' = [slots EXCEPT ![i] = Empty]
    BY DEF DelUser
  <1> HIDE DEF i
  <1>2. \A j \in DOMAIN slots' : j \in DOMAIN slots /\ slots'[j] \in {slots[j], Empty}
    BY <1>1
  <1>3. ~Empty.inUse
    BY DEF Empty
  <1> QED
    BY <1>2, <1>3 DEF FillsLoggedOut

(* No history of a slot makes its next user start logged in. *)
THEOREM NewUsersStartLoggedOut == Spec => NewUsersLoggedOut
  <1>1. UsersInv /\ [Next]_vars => [FillsLoggedOut]_vars
    <2> SUFFICES ASSUME UsersInv, Next PROVE FillsLoggedOut
      OBVIOUS
    <2>1. CASE LoadNext
      <3>1. Loaded + 1 \in 1 .. Len(Initial)
        BY <2>1, LoadedCount, UsersAssumption DEF LoadNext, UsersInv
      <3>2. Initial[Loaded + 1][1] \in Name /\ Initial[Loaded + 1][2] \in Pass
        BY <3>1, UsersAssumption
      <3> QED
        BY <2>1, <3>2, LoadFillsLoggedOut DEF LoadNext
    <2>2. ASSUME NEW c \in Conn, NEW n \in Name, NEW p \in Pass, LogIn(c, n, p)
          PROVE  FillsLoggedOut
      <3> DEFINE same == {j \in DOMAIN slots :
                             slots[j].inUse /\ slots[j].name = n /\ slots[j].pass = p}
      <3>1. same \subseteq Nat /\ same # {}
        BY <2>2 DEF LogIn, UsersInv, TypeOK
      <3>2. slots' = [slots EXCEPT ![First(same)].loggedIn = TRUE]
        BY <2>2 DEF LogIn
      <3> HIDE DEF same
      <3>3. First(same) \in Nat
        BY <3>1, FirstIsMember
      <3> QED
        BY <3>2, <3>3, FlagsFillNothing
    <2>3. ASSUME NEW c \in Conn, Dispose(c) PROVE FillsLoggedOut
      <3>1. session[c] \in Nat
        BY UsersAssumption DEF UsersInv, TypeOK
      <3>2. slots' = slots \/ slots' = [slots EXCEPT ![session[c]].loggedIn = FALSE]
        BY <2>3 DEF Dispose
      <3> QED
        BY <3>1, <3>2, FlagsFillNothing
    <2>4. ASSUME NEW n \in Name, NEW p \in Pass, SetUser(n, p) PROVE FillsLoggedOut
      BY <2>4, LoadFillsLoggedOut, FlagsFillNothing DEF SetUser
    <2>5. CASE Run \/ Stop \/ Ended
      BY <2>5, FlagsFillNothing DEF Run, Stop, Ended, vars
    <2> QED
      BY <2>1, <2>2, <2>3, <2>4, <2>5, DelUserFillsNothing DEF Next
  <1> QED
    BY <1>1, UsersInvariantHolds, PTL DEF Spec, NewUsersLoggedOut
===============================================================================
