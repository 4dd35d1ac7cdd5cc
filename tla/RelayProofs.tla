------------------------------ MODULE RelayProofs -----------------------------
(***************************************************************************)
(* Proofs about Relay.tla, for every payload, buffer size, kernel room and *)
(* interleaving.  RelayInv is the inductive invariant: the byte counters   *)
(* say where in the payload each stream is (BufferIsTheGap), the shutdown  *)
(* flags say which streams are over (FlagsFollowStreams), and the pending  *)
(* events of the running select iteration are still true                   *)
(* (PendingIsReady), which is why no handler meets a socket that is not    *)
(* ready.                                                                  *)
(***************************************************************************)
EXTENDS Relay, SequenceTheorems, TLAPS

(* There are two sides, and Peer swaps them. *)
LEMMA PeerFacts ==
    ASSUME NEW s \in Side
    PROVE  /\ Peer(s) \in Side
           /\ Peer(Peer(s)) = s
           /\ Peer(s) # s
           /\ \A t \in Side : t = s \/ t = Peer(s)
  BY DEF Side, Peer

(* Reading and writing states name their side, and differ from the others. *)
LEMMA StateNames ==
    ASSUME NEW s \in Side
    PROVE  /\ Reading(s) \in AliveStates /\ Writing(s) \in AliveStates
           /\ Reading(s) # Writing(s) /\ Reading(s) # Writing(Peer(s))
           /\ Reading(s) # Reading(Peer(s)) /\ Writing(s) # Writing(Peer(s))
           /\ Reading(s) # "CONNECTED" /\ Writing(s) # "CONNECTED"
           /\ HandledOps(Reading(s)) = {"R"} /\ HandledOps(Writing(s)) = {"W"}
           /\ Reading(s) \notin EndStates /\ Writing(s) \notin EndStates
  BY DEF Side, Peer, Reading, Writing, AliveStates, EndStates, HandledOps

LEMMA PlainStates ==
    /\ "CONNECTED" \in AliveStates
    /\ HandledOps("CONNECTED") = {"R"}
    /\ \A st \in EndStates : st \notin AliveStates
    /\ AliveStates \cap EndStates = {}
  BY DEF AliveStates, EndStates, HandledOps

(* A stretch of a payload is a sequence of bytes of the expected length. *)
LEMMA Stretch ==
    ASSUME NEW s \in Side, NEW m \in Nat, NEW n \in Nat, n <= Len(Payload[s])
    PROVE  /\ SubSeq(Payload[s], m + 1, n) \in Seq(Byte)
           /\ Len(SubSeq(Payload[s], m + 1, n)) = IF m < n THEN n - m ELSE 0
  <1>1. Payload[s] \in Seq(Byte)
    BY RelayAssumption
  <1>2. \A i \in m + 1 .. n : Payload[s][i] \in Byte
    BY <1>1, ElementOfSeq, LenProperties
  <1>3. m + 1 \in Int /\ n \in Int
    OBVIOUS
  <1> QED
    BY <1>2, <1>3, SubSeqProperties

(* Two adjacent stretches make one. *)
LEMMA StretchJoins ==
    ASSUME NEW s \in Side, NEW k \in Nat, NEW m \in Nat, NEW n \in Nat,
           k <= m, m <= n, n <= Len(Payload[s])
    PROVE  SubSeq(Payload[s], k + 1, m) \o SubSeq(Payload[s], m + 1, n)
             = SubSeq(Payload[s], k + 1, n)
  <1>1. Payload[s] \in Seq(Byte)
    BY RelayAssumption
  <1>2. /\ k + 1 \in 1 .. Len(Payload[s]) + 1
        /\ m \in (k + 1) - 1 .. Len(Payload[s])
        /\ n \in m .. Len(Payload[s])
    BY <1>1, LenProperties
  <1> QED
    BY <1>1, <1>2, ConcatAdjacentSubSeq

(* The front and the rest of a stretch that is written out in two parts. *)
LEMMA StretchSplits ==
    ASSUME NEW s \in Side, NEW k \in Nat, NEW n \in Nat, NEW j \in Nat,
           k + j <= n, n <= Len(Payload[s]),
           NEW b, b = SubSeq(Payload[s], k + 1, n)
    PROVE  /\ SubSeq(b, 1, j) = SubSeq(Payload[s], k + 1, k + j)
           /\ SubSeq(b, j + 1, Len(b)) = SubSeq(Payload[s], k + j + 1, n)
  <1>0. Payload[s] \in Seq(Byte)
    BY RelayAssumption
  <1>1. b \in Seq(Byte) /\ Len(b) = n - k
    <2>1. b \in Seq(Byte) /\ Len(b) = IF k < n THEN n - k ELSE 0
      BY Stretch
    <2> QED
      BY <2>1
  <1>2. SubSeq(b, 1, j) = SubSeq(Payload[s], k + 1, k + j)
    <2>1. CASE j = 0
      BY <2>1, SubSeqEmpty
    <2>2. CASE j > 0
      <3>1. /\ k + 1 \in 1 .. Len(Payload[s]) /\ n \in 1 .. Len(Payload[s])
            /\ 1 \in 1 .. n - (k + 1) + 1 /\ j \in 1 .. n - (k + 1) + 1
        BY <2>2, <1>0, LenProperties
      <3>2. SubSeq(b, 1, j) = SubSeq(Payload[s], (k + 1) + 1 - 1, (k + 1) + j - 1)
        BY <1>0, <3>1, SubSeqOfSubSeq
      <3> QED
        BY <3>2
    <2> QED
      BY <2>1, <2>2
  <1>3. SubSeq(b, j + 1, Len(b)) = SubSeq(Payload[s], k + j + 1, n)
    <2>1. CASE k + j = n
      BY <2>1, <1>1, SubSeqEmpty
    <2>2. CASE k + j < n
      <3>1. /\ k + 1 \in 1 .. Len(Payload[s]) /\ n \in 1 .. Len(Payload[s])
            /\ j + 1 \in 1 .. n - (k + 1) + 1 /\ n - k \in 1 .. n - (k + 1) + 1
        BY <2>2, <1>0, LenProperties
      <3>2. SubSeq(b, j + 1, n - k)
              = SubSeq(Payload[s], (k + 1) + (j + 1) - 1, (k + 1) + (n - k) - 1)
        BY <1>0, <3>1, SubSeqOfSubSeq
      <3> QED
        BY <3>2, <1>1
    <2> QED
      BY <2>1, <2>2
  <1> QED
    BY <1>2, <1>3

-------------------------------------------------------------------------------
LEMMA InitInv == Init => RelayInv
  <1> SUFFICES ASSUME Init PROVE RelayInv
    OBVIOUS
  <1> USE DEF Init
  <1>0. state \in AliveStates /\ Alive /\ state \notin EndStates
    BY PlainStates DEF Alive
  <1>1. TypeOK
    BY <1>0, RelayAssumption DEF TypeOK, Side, Op
  <1>2. CountsInOrder
    BY RelayAssumption, LenProperties DEF CountsInOrder
  <1>3. DeliveredPrefix
    BY PeerFacts, SubSeqEmpty DEF DeliveredPrefix
  <1>4. BufferIsTheGap
    BY PeerFacts, StateNames DEF BufferIsTheGap
  <1>5. BufferIdle
    BY DEF BufferIdle
  <1>6. FlagsFollowStreams
    BY PeerFacts, StateNames DEF FlagsFollowStreams
  <1>7. EventsHaveHandlers
    BY PeerFacts, PlainStates, StateNames DEF EventsHaveHandlers
  <1>8. PendingIsReady
    BY DEF PendingIsReady
  <1>9. ErrorOnlyOnReset
    BY DEF ErrorOnlyOnReset
  <1>10. DoneIsShut
    BY DEF DoneIsShut
  <1> QED
    BY <1>1, <1>2, <1>3, <1>4, <1>5, <1>6, <1>7, <1>8, <1>9, <1>10 DEF RelayInv

(* An environment step only lets bytes, ends, resets and room arrive.      *)
OnlyArrivals ==
    /\ UNCHANGED <<loopVars, lowFd, nrecv, dlvd>>
    /\ \A s \in Side :
        /\ nsent'[s] >= nsent[s] /\ nsent'[s] <= Len(Payload[s])
        /\ nsent'[s] # nsent[s] => ~eof[s]
        /\ eof[s] => eof'[s]
        /\ reset[s] => reset'[s]
        /\ room'[s] >= room[s]

(* Nothing the peers or the administrator do disturbs the invariant: bytes *)
(* and flags only arrive, so what was ready stays ready.                   *)
LEMMA EnvironmentStep == RelayInv /\ Environment => RelayInv'
  <1> SUFFICES ASSUME RelayInv, Environment PROVE RelayInv'
    OBVIOUS
  <1> USE DEF RelayInv
  <1>0. \A s \in Side : Len(Payload[s]) \in Nat
    BY RelayAssumption, LenProperties
  <1>1. OnlyArrivals
    <2>1. ASSUME NEW s \in Side, PeerSends(s) PROVE OnlyArrivals
      BY <2>1, <1>0 DEF PeerSends, OnlyArrivals, TypeOK, CountsInOrder, loopVars
    <2>2. ASSUME NEW s \in Side, PeerCloses(s) PROVE OnlyArrivals
      BY <2>2, <1>0 DEF PeerCloses, OnlyArrivals, TypeOK, CountsInOrder, loopVars
    <2>3. ASSUME NEW s \in Side, PeerReads(s) PROVE OnlyArrivals
      BY <2>3, <1>0, RelayAssumption
         DEF PeerReads, OnlyArrivals, TypeOK, CountsInOrder, loopVars
    <2>4. ASSUME NEW s \in Side, PeerResets(s) PROVE OnlyArrivals
      BY <2>4, <1>0 DEF PeerResets, OnlyArrivals, TypeOK, CountsInOrder, loopVars
    <2>5. ASSUME NEW n \in BufferSizes, SetBufferSize(n) PROVE OnlyArrivals
      BY <2>5, <1>0
         DEF SetBufferSize, OnlyArrivals, TypeOK, CountsInOrder, loopVars, netVars
    <2> QED
      BY <2>1, <2>2, <2>3, <2>4, <2>5 DEF Environment
  <1>2. TypeOK'
    <2>1. ASSUME NEW s \in Side, PeerSends(s) PROVE TypeOK'
      BY <2>1 DEF PeerSends, TypeOK, loopVars
    <2>2. ASSUME NEW s \in Side, PeerCloses(s) PROVE TypeOK'
      BY <2>2 DEF PeerCloses, TypeOK, loopVars
    <2>3. ASSUME NEW s \in Side, PeerReads(s) PROVE TypeOK'
      <3>1. Room \in 0 .. Room
        BY RelayAssumption
      <3>2. room' \in [Side -> 0 .. Room]
        BY <2>3, <3>1 DEF PeerReads, TypeOK
      <3> QED
        BY <2>3, <3>2 DEF PeerReads, TypeOK, loopVars
    <2>4. ASSUME NEW s \in Side, PeerResets(s) PROVE TypeOK'
      BY <2>4 DEF PeerResets, TypeOK, loopVars
    <2>5. ASSUME NEW n \in BufferSizes, SetBufferSize(n) PROVE TypeOK'
      BY <2>5, RelayAssumption DEF SetBufferSize, TypeOK, loopVars, netVars
    <2> QED
      BY <2>1, <2>2, <2>3, <2>4, <2>5 DEF Environment
  <1>a. state' = state
    BY <1>1 DEF OnlyArrivals, loopVars
  <1>b. Alive' <=> Alive
    BY <1>a DEF Alive
  <1> USE <1>1 DEF OnlyArrivals
  <1>3. CountsInOrder'
    BY <1>2, <1>0 DEF CountsInOrder, TypeOK
  <1>4. DeliveredPrefix'
    BY DEF DeliveredPrefix
  <1>5. BufferIsTheGap'
    BY <1>b DEF BufferIsTheGap, loopVars
  <1>6. BufferIdle'
    BY <1>b DEF BufferIdle, loopVars
  <1>7. FlagsFollowStreams'
    <2> SUFFICES ASSUME NEW s \in Side
                 PROVE  /\ ~canRead[s] => eof'[s] /\ nrecv[s] = nsent'[s]
                        /\ ~canWrite[Peer(s)] =>
                              ~canRead[s] /\ Len(dlvd[Peer(s)]) = nsent'[s]
                        /\ state = Reading(s) => canRead[s]
                        /\ state = Writing(s) => canWrite[s]
      BY <1>a DEF FlagsFollowStreams, loopVars
    <2>1. eof[s] => nsent'[s] = nsent[s] /\ eof'[s]
      OBVIOUS
    <2> QED
      BY <2>1 DEF FlagsFollowStreams
  <1>8. EventsHaveHandlers'
    BY <1>b, <1>a DEF EventsHaveHandlers, loopVars
  <1>9. PendingIsReady'
    <2>1. ASSUME NEW s \in Side, NEW op \in Op, KernelReady(s, op)
          PROVE  KernelReady(s, op)'
      <3>1. /\ nsent'[s] \in Nat /\ nsent[s] \in Nat /\ nrecv[s] \in Nat
            /\ room'[s] \in Nat /\ room[s] \in Nat
            /\ nsent'[s] >= nsent[s] /\ room'[s] >= room[s]
        BY <1>2, RelayAssumption DEF TypeOK
      <3>2. /\ nrecv' = nrecv /\ canRead' = canRead /\ canWrite' = canWrite
            /\ eof[s] => eof'[s]
            /\ reset[s] => reset'[s]
        BY DEF loopVars
      <3> QED
        BY <2>1, <3>1, <3>2 DEF KernelReady, Unread
    <2>2. \A e \in pend : e[1] \in Side /\ e[2] \in Op
      BY DEF TypeOK
    <2>3. pend' = pend
      BY DEF loopVars
    <2> QED
      BY <2>1, <2>2, <2>3, <1>a, <1>b DEF PendingIsReady
  <1>10. ErrorOnlyOnReset'
    BY DEF ErrorOnlyOnReset, loopVars
  <1>11. DoneIsShut'
    BY DEF DoneIsShut, loopVars
  <1> QED
    BY <1>2, <1>3, <1>4, <1>5, <1>6, <1>7, <1>8, <1>9, <1>10, <1>11

-------------------------------------------------------------------------------
(* pselect reports only what is ready; as only a writing state has a write *)
(* interest, and only on one side, a write event is alone.                 *)
LEMMA SelectStep == RelayInv /\ Select => RelayInv'
  <1> SUFFICES ASSUME RelayInv, Select PROVE RelayInv'
    OBVIOUS
  <1> USE DEF RelayInv
  <1>0. /\ pend' = ReadyEvents
        /\ UNCHANGED <<state, interest, lowFd, canRead, canWrite, buf, cap, target>>
        /\ UNCHANGED <<nsent, nrecv, eof, reset, room, dlvd>>
    BY DEF Select, netVars
  <1>a. Alive /\ Alive'
    BY <1>0 DEF Select, Alive
  <1>1. TypeOK'
    BY <1>0 DEF TypeOK, ReadyEvents
  <1>2. CountsInOrder' /\ DeliveredPrefix' /\ FlagsFollowStreams'
        /\ ErrorOnlyOnReset' /\ DoneIsShut'
    BY <1>0 DEF CountsInOrder, DeliveredPrefix, FlagsFollowStreams,
                ErrorOnlyOnReset, DoneIsShut
  <1>3. BufferIsTheGap' /\ BufferIdle' /\ EventsHaveHandlers'
    BY <1>0, <1>a DEF BufferIsTheGap, BufferIdle, EventsHaveHandlers
  <1>4. PendingIsReady'
    <2> SUFFICES ASSUME NEW e \in ReadyEvents
                 PROVE  /\ KernelReady(e[1], e[2])'
                        /\ e[2] = "W" => state = Writing(e[1]) /\ ReadyEvents = {e}
      BY <1>0 DEF PendingIsReady
    <2>1. /\ e[1] \in Side /\ e[2] \in Op /\ e = <<e[1], e[2]>>
          /\ e[2] \in interest[e[1]] /\ KernelReady(e[1], e[2])
      BY DEF ReadyEvents
    <2>2. KernelReady(e[1], e[2])'
      BY <1>0, <2>1 DEF KernelReady, Unread
    <2>3. ASSUME e[2] = "W" PROVE state = Writing(e[1]) /\ ReadyEvents = {e}
      <3>1. \A s \in Side : interest[s] \subseteq HandledOps(state)
        BY <1>a DEF EventsHaveHandlers
      <3>2. "W" \in HandledOps(state)
        BY <2>1, <2>3, <3>1
      <3>3. state \in {Writing("client"), Writing("remote")}
        BY <3>2 DEF HandledOps, Writing
      <3>4. state = Writing(e[1])
        <4>1. state = Writing(e[1]) \/ state = Writing(Peer(e[1]))
          BY <2>1, <3>3 DEF Side, Peer
        <4>2. ASSUME state = Writing(Peer(e[1])) PROVE interest[e[1]] = {}
          BY <1>a, <4>2, <2>1, PeerFacts DEF EventsHaveHandlers
        <4> QED
          BY <4>1, <4>2, <2>1
      <3>5. interest[Peer(e[1])] = {}
        BY <1>a, <3>4, <2>1 DEF EventsHaveHandlers
      <3>6. HandledOps(state) = {"W"}
        BY <3>4, <2>1, StateNames
      <3>7. ASSUME NEW f \in ReadyEvents PROVE f = e
        <4>1. f[1] \in Side /\ f[2] \in interest[f[1]] /\ f = <<f[1], f[2]>>
          BY DEF ReadyEvents
        <4>2. f[1] = e[1]
          BY <4>1, <3>5, <2>1, PeerFacts
        <4>3. f[2] = "W"
          BY <4>1, <3>1, <3>6
        <4> QED
          BY <4>1, <4>2, <4>3, <2>1, <2>3
      <3> QED
        BY <3>4, <3>7
    <2> QED
      BY <2>2, <2>3
  <1> QED
    BY <1>1, <1>2, <1>3, <1>4

(* Dropping an event nobody is interested in any more, or the connection   *)
(* that has been idle, leaves the streams as they are.                     *)
LEMMA SkipStep ==
    ASSUME RelayInv, NEW e \in Side \X Op, Skip(e)
    PROVE  RelayInv'
  <1> USE DEF RelayInv
  <1>0. /\ pend' = pend \ {e} /\ pend' \subseteq pend
        /\ UNCHANGED <<state, interest, lowFd, canRead, canWrite, buf, cap, target>>
        /\ UNCHANGED <<nsent, nrecv, eof, reset, room, dlvd>>
    BY DEF Skip, netVars
  <1>a. Alive /\ Alive'
    BY <1>0 DEF Skip, Alive
  <1>1. TypeOK'
    BY <1>0 DEF TypeOK
  <1>2. CountsInOrder' /\ DeliveredPrefix' /\ FlagsFollowStreams'
        /\ ErrorOnlyOnReset' /\ DoneIsShut'
    BY <1>0 DEF CountsInOrder, DeliveredPrefix, FlagsFollowStreams,
                ErrorOnlyOnReset, DoneIsShut
  <1>3. BufferIsTheGap' /\ BufferIdle' /\ EventsHaveHandlers'
    BY <1>0, <1>a DEF BufferIsTheGap, BufferIdle, EventsHaveHandlers
  <1>4. PendingIsReady'
    BY <1>0, <1>a DEF PendingIsReady, KernelReady, Unread
  <1> QED
    BY <1>1, <1>2, <1>3, <1>4

LEMMA TimeoutStep == RelayInv /\ IdleTimeout => RelayInv'
  <1> SUFFICES ASSUME RelayInv, IdleTimeout PROVE RelayInv'
    OBVIOUS
  <1> USE DEF RelayInv
  <1>0. /\ state' = "TIMED_OUT"
        /\ UNCHANGED <<interest, pend, lowFd, canRead, canWrite, buf, cap, target>>
        /\ UNCHANGED <<nsent, nrecv, eof, reset, room, dlvd>>
    BY DEF IdleTimeout, netVars
  <1>a. ~Alive' /\ state' \in EndStates
    BY <1>0 DEF Alive, AliveStates, EndStates
  <1>b. \A s \in Side : state' # Reading(s) /\ state' # Writing(s)
    BY <1>a, StateNames
  <1>1. TypeOK'
    BY <1>0, <1>a DEF TypeOK
  <1>2. CountsInOrder' /\ DeliveredPrefix'
    BY <1>0 DEF CountsInOrder, DeliveredPrefix
  <1>3. FlagsFollowStreams'
    BY <1>0, <1>b DEF FlagsFollowStreams
  <1>4. BufferIsTheGap' /\ BufferIdle' /\ EventsHaveHandlers' /\ PendingIsReady'
    BY <1>a DEF BufferIsTheGap, BufferIdle, EventsHaveHandlers, PendingIsReady
  <1>5. ErrorOnlyOnReset' /\ DoneIsShut'
    BY <1>0 DEF ErrorOnlyOnReset, DoneIsShut
  <1> QED
    BY <1>1, <1>2, <1>3, <1>4, <1>5

(* The handler a delivered event reaches is the one for its own side: the  *)
(* other side has no interest left in a reading or writing state.          *)
LEMMA DeliverChooses ==
    ASSUME RelayInv, NEW e \in Side \X Op, Deliver(e)
    PROVE  \E s \in Side :
              /\ UNCHANGED <<lowFd, target>>
              /\ pend' = pend \ {e} /\ e \in pend
              /\ \/ e = <<s, "R">> /\ (ConnectedRun(s) \/ ReadRun(s))
                 \/ e = <<s, "W">> /\ WriteRun(s)
  <1> USE DEF RelayInv
  <1>1. /\ UNCHANGED <<lowFd, target>>
        /\ pend' = pend \ {e} /\ e \in pend
        /\ e[1] \in Side /\ e[2] \in Op /\ e = <<e[1], e[2]>>
        /\ Alive /\ e[2] \in interest[e[1]]
    BY DEF Deliver, Visited
  <1>2. \A s \in Side : state \in {Reading(s), Writing(s)} => s = e[1]
    BY <1>1, PeerFacts DEF EventsHaveHandlers
  <1>3. CASE e[2] = "R"
    <2>1. ReadEvent(e[1])
      BY <1>3 DEF Deliver
    <2>2. ConnectedRun(e[1]) \/ \E s \in Side : ReadRun(s)
      BY <2>1 DEF ReadEvent, ClientReadRun, RemoteReadRun, Side
    <2>3. ASSUME NEW s \in Side, ReadRun(s) PROVE s = e[1]
      BY <1>2, <2>3 DEF ReadRun
    <2> QED
      BY <1>1, <1>3, <2>2, <2>3
  <1>4. CASE e[2] = "W"
    <2>1. WriteEvent(e[1])
      BY <1>4 DEF Deliver
    <2>2. \E s \in Side : WriteRun(s)
      BY <2>1 DEF WriteEvent, ClientWriteRun, RemoteWriteRun, Side
    <2>3. ASSUME NEW s \in Side, WriteRun(s) PROVE s = e[1]
      BY <1>2, <2>3 DEF WriteRun
    <2> QED
      BY <1>1, <1>4, <2>2, <2>3
  <1> QED
    BY <1>1, <1>3, <1>4 DEF Op

(* Setting the interests of both sides at once. *)
LEMMA InterestSet ==
    ASSUME NEW f \in [Side -> SUBSET Op], NEW s \in Side,
           NEW a \in SUBSET Op, NEW b \in SUBSET Op
    PROVE  LET g == [f EXCEPT ![s] = a, ![Peer(s)] = b]
           IN  g \in [Side -> SUBSET Op] /\ g[s] = a /\ g[Peer(s)] = b
  BY PeerFacts

(* The interests the handlers ask for. *)
LEMMA OpSets == {} \in SUBSET Op /\ {"R"} \in SUBSET Op /\ {"W"} \in SUBSET Op
  BY DEF Op

(* SetInterest(s, a, b) gives s the interest a and its peer b.             *)
LEMMA InterestAfter ==
    ASSUME TypeOK, NEW s \in Side, NEW a \in SUBSET Op, NEW b \in SUBSET Op,
           SetInterest(s, a, b)
    PROVE  /\ interest' \in [Side -> SUBSET Op]
           /\ interest'[s] = a
           /\ interest'[Peer(s)] = b
  <1>1. interest \in [Side -> SUBSET Op]
    BY DEF TypeOK
  <1>2. interest' = [interest EXCEPT ![s] = a, ![Peer(s)] = b]
    BY DEF SetInterest
  <1> QED
    BY <1>1, <1>2, InterestSet

(* Leaving CONNECTED to read from s: the buffer is empty and stays so.     *)
LEMMA ConnectedStep ==
    ASSUME RelayInv, NEW s \in Side, ConnectedRun(s),
           pend' = pend \ {<<s, "R">>}, UNCHANGED <<lowFd, target>>
    PROVE  RelayInv'
  <1> USE DEF RelayInv
  <1>0. /\ state = "CONNECTED" /\ Alive /\ buf = <<>>
        /\ UNCHANGED <<canRead, canWrite, nsent, nrecv, eof, reset, room, dlvd>>
        /\ \A t \in Side : state # Reading(t) /\ state # Writing(t)
    BY StateNames, PlainStates
       DEF ConnectedRun, netVars, Alive, BufferIdle
  <1>1. \/ /\ canRead[s] /\ state' = Reading(s)
           /\ SetInterest(s, {"R"}, {})
        \/ /\ state' = "CONNECTED" /\ interest' = interest
        \/ /\ state' = "DONE" /\ interest' = interest
           /\ \A t \in Side : ~canWrite[t]
    BY DEF ConnectedRun, Jump
  <1>2. buf' = <<>> /\ cap' \in {cap, target}
    BY <1>0 DEF ConnectedRun, Jump
  <1>3. \A t \in Side : state' # Writing(t) /\ (state' = Reading(t) => t = s)
    BY <1>1, StateNames, PeerFacts, PlainStates DEF EndStates
  <1>4. TypeOK'
    <2>1. interest' \in [Side -> SUBSET Op]
      <3>1. CASE SetInterest(s, {"R"}, {})
        BY <3>1, InterestAfter, OpSets
      <3>2. CASE interest' = interest
        BY <3>2 DEF TypeOK
      <3> QED
        BY <1>1, <3>1, <3>2
    <2>2. state' \in AliveStates \cup EndStates
      BY <1>1, StateNames, PlainStates DEF EndStates
    <2>3. buf' \in Seq(Byte)
      BY <1>2
    <2> QED
      BY <1>0, <1>2, <2>1, <2>2, <2>3 DEF TypeOK
  <1>5. CountsInOrder' /\ DeliveredPrefix'
    BY <1>0 DEF CountsInOrder, DeliveredPrefix
  <1>6. BufferIsTheGap'
    BY <1>0, <1>3, PeerFacts DEF BufferIsTheGap
  <1>7. BufferIdle'
    BY <1>2 DEF BufferIdle
  <1>8. FlagsFollowStreams'
    <2>1. \A t \in Side : state' = Reading(t) => canRead[t]
      BY <1>1, <1>3, StateNames, PlainStates DEF EndStates
    <2> QED
      BY <1>0, <1>3, <2>1 DEF FlagsFollowStreams
  <1>9. EventsHaveHandlers'
    <2>1. CASE state' = Reading(s) /\ SetInterest(s, {"R"}, {})
      <3>1. interest'[s] = {"R"} /\ interest'[Peer(s)] = {}
        BY <2>1, InterestAfter, OpSets
      <3>2. HandledOps(state') = {"R"}
        BY <2>1, StateNames
      <3>3. ASSUME NEW t \in Side PROVE interest'[t] \subseteq HandledOps(state')
        BY <3>1, <3>2, PeerFacts
      <3>4. ASSUME NEW t \in Side, state' \in {Reading(t), Writing(t)}
            PROVE  interest'[Peer(t)] = {}
        BY <3>1, <3>4, <1>3
      <3> QED
        BY <3>3, <3>4 DEF EventsHaveHandlers
    <2>2. CASE state' = "CONNECTED" /\ interest' = interest
      BY <2>2, <1>0, <1>3, StateNames DEF EventsHaveHandlers
    <2>3. CASE state' = "DONE"
      BY <2>3, PlainStates DEF EventsHaveHandlers, Alive, EndStates
    <2> QED
      BY <1>1, <2>1, <2>2, <2>3
  <1>10. PendingIsReady'
    <2>1. \A e \in pend : e[2] # "W" /\ KernelReady(e[1], e[2])
      BY <1>0 DEF PendingIsReady, TypeOK
    <2> QED
      BY <1>0, <2>1 DEF PendingIsReady, KernelReady, Unread
  <1>11. ErrorOnlyOnReset'
    BY <1>1, StateNames, PlainStates DEF ErrorOnlyOnReset, AliveStates, EndStates
  <1>12. DoneIsShut'
    BY <1>0, <1>1, StateNames, PlainStates DEF DoneIsShut, EndStates
  <1> QED
    BY <1>4, <1>5, <1>6, <1>7, <1>8, <1>9, <1>10, <1>11, <1>12

(* A step into ERROR, KILLED or DONE that leaves the streams alone.        *)
LEMMA ErrorEnds ==
    ASSUME RelayInv,
           state' \in {"ERROR", "KILLED"}, \E s \in Side : reset'[s],
           buf' \in Seq(Byte), cap' \in {cap, target},
           interest' \in [Side -> SUBSET Op], pend' \subseteq pend,
           UNCHANGED <<lowFd, target, canRead, canWrite>>,
           UNCHANGED <<nsent, nrecv, eof, reset, room, dlvd>>
    PROVE  RelayInv'
  <1> USE DEF RelayInv
  <1>1. state' \in EndStates /\ ~Alive' /\ state' # "DONE"
    BY DEF EndStates, AliveStates, Alive
  <1>2. \A t \in Side : state' # Reading(t) /\ state' # Writing(t)
    BY <1>1, StateNames
  <1>3. TypeOK'
    BY <1>1 DEF TypeOK
  <1>4. CountsInOrder' /\ DeliveredPrefix'
    BY DEF CountsInOrder, DeliveredPrefix
  <1>5. FlagsFollowStreams'
    BY <1>2 DEF FlagsFollowStreams
  <1>6. BufferIsTheGap' /\ BufferIdle' /\ EventsHaveHandlers' /\ PendingIsReady'
    BY <1>1 DEF BufferIsTheGap, BufferIdle, EventsHaveHandlers, PendingIsReady
  <1>7. ErrorOnlyOnReset' /\ DoneIsShut'
    BY <1>1 DEF ErrorOnlyOnReset, DoneIsShut
  <1> QED
    BY <1>3, <1>4, <1>5, <1>6, <1>7

(* One recv on s: the bytes go into the empty buffer, which becomes the    *)
(* gap of the stream from s; an end of stream is a real one, because the   *)
(* buffer has room; an error needs a reset, because the event is ready.    *)
LEMMA ReadStep ==
    ASSUME RelayInv, NEW s \in Side, ReadRun(s), <<s, "R">> \in pend,
           pend' = pend \ {<<s, "R">>}, UNCHANGED <<lowFd, target>>
    PROVE  RelayInv'
  <1> DEFINE p == Peer(s)
  <1> USE DEF RelayInv
  <1>p. p \in Side /\ Peer(p) = s /\ p # s /\ \A t \in Side : t = s \/ t = p
    BY PeerFacts
  <1>0. /\ state = Reading(s) /\ Alive /\ buf = <<>> /\ canRead[s]
        /\ UNCHANGED <<canWrite, nsent, eof, reset, room, dlvd>>
        /\ \A t \in Side : state # Writing(t)
    BY <1>p, StateNames DEF ReadRun, Alive, BufferIdle, FlagsFollowStreams
  <1>1. /\ nsent[s] \in Nat /\ nrecv[s] \in Nat /\ nrecv[s] <= nsent[s]
        /\ nsent[s] <= Len(Payload[s]) /\ Len(Payload[s]) \in Nat
        /\ cap \in Nat /\ cap > 0 /\ cap - Len(buf) = cap
        /\ Len(dlvd[p]) = nrecv[s] /\ dlvd[p] \in Seq(Byte)
        /\ Payload[s] \in Seq(Byte) /\ canWrite[p]
    <2>1. Len(dlvd[p]) = nrecv[s]
      BY <1>0, <1>p DEF BufferIsTheGap
    <2>2. canWrite[p]
      BY <1>0, <1>p DEF FlagsFollowStreams, TypeOK
    <2> QED
      BY <1>0, <1>p, <2>1, <2>2, RelayAssumption, LenProperties
         DEF TypeOK, CountsInOrder
  <1>2. Unread(s) > 0 \/ eof[s] \/ reset[s]
    BY <1>0 DEF PendingIsReady, KernelReady, TypeOK
  <1>3. PICK n \in RecvResults(s, cap - Len(buf)) :
          \/ /\ n > 0
             /\ nrecv' = [nrecv EXCEPT ![s] = @ + n]
             /\ SetInterest(s, {}, {"W"})
             /\ Jump(Writing(p), buf \o SubSeq(Payload[s], nrecv[s] + 1, nrecv[s] + n))
             /\ UNCHANGED canRead
          \/ /\ n = 0
             /\ ShutRd(s)
             /\ SetInterest(s, {}, {"W"})
             /\ Jump(IF DisconnectFails(s) THEN "ERROR" ELSE Writing(p), buf)
             /\ UNCHANGED nrecv
          \/ /\ n < 0
             /\ Jump("ERROR", buf)
             /\ UNCHANGED <<interest, nrecv, canRead>>
    BY DEF ReadRun
  <1>4. /\ n \in Int
        /\ n > 0 => n <= nsent[s] - nrecv[s]
        /\ n = 0 => eof[s] /\ ~reset[s] /\ nrecv[s] = nsent[s]
        /\ n < 0 => reset[s]
    BY <1>1, <1>2 DEF RecvResults, Least, Unread
  <1>5. PendingIsReady' \/ ~Alive'
    <2>1. \A e \in pend' : e[2] = "R" /\ e[1] = p
      BY <1>0, <1>p DEF PendingIsReady, TypeOK, Op
    <2>2. \A e \in pend' : KernelReady(e[1], e[2])
      BY <1>0 DEF PendingIsReady
    <2>3. nrecv'[p] = nrecv[p] /\ canRead'[p] = canRead[p]
      BY <1>3, <1>p DEF ShutRd, TypeOK
    <2>4. \A e \in pend' : KernelReady(e[1], e[2])'
      BY <2>1, <2>2, <2>3, <1>0 DEF KernelReady, Unread
    <2> QED
      BY <2>1, <2>4 DEF PendingIsReady
  <1>6. CASE n > 0
    <2>0. /\ n \in Nat /\ nrecv[s] + n \in Nat /\ nrecv[s] + n <= Len(Payload[s])
          /\ nrecv[s] + n <= nsent[s] /\ nrecv[s] < nrecv[s] + n
      BY <1>1, <1>4, <1>6
    <2>1. /\ state' = Writing(p) /\ cap' = cap
          /\ buf' = SubSeq(Payload[s], nrecv[s] + 1, nrecv[s] + n)
          /\ nrecv' = [nrecv EXCEPT ![s] = @ + n]
          /\ SetInterest(s, {}, {"W"})
          /\ canRead' = canRead
      <3>1. ~Resets(Writing(p)) /\ ~Resizes(Writing(p))
        BY <1>0, <1>p, StateNames DEF Resets, Resizes
      <3>2. SubSeq(Payload[s], nrecv[s] + 1, nrecv[s] + n) \in Seq(Byte)
        BY <1>1, <2>0, Stretch
      <3>3. buf \o SubSeq(Payload[s], nrecv[s] + 1, nrecv[s] + n)
              = SubSeq(Payload[s], nrecv[s] + 1, nrecv[s] + n)
        BY <1>0, <3>2, ConcatEmptySeq
      <3>4. /\ nrecv' = [nrecv EXCEPT ![s] = @ + n]
            /\ SetInterest(s, {}, {"W"})
            /\ Jump(Writing(p), buf \o SubSeq(Payload[s], nrecv[s] + 1, nrecv[s] + n))
            /\ canRead' = canRead
        BY <1>3, <1>6, <2>0
      <3> QED
        BY <3>4, <3>1, <3>3 DEF Jump
    <2>2. /\ nrecv'[s] = nrecv[s] + n /\ nrecv'[p] = nrecv[p]
          /\ nrecv' \in [Side -> Nat]
      <3>1. nrecv \in [Side -> Nat]
        BY DEF TypeOK
      <3> QED
        BY <2>0, <2>1, <1>p, <3>1
    <2>3. /\ interest' \in [Side -> SUBSET Op]
          /\ interest'[s] = {} /\ interest'[p] = {"W"}
      BY <2>1, InterestAfter, OpSets
    <2>4. /\ state' \in AliveStates /\ Alive' /\ state' # "DONE"
          /\ state' \notin {"ERROR", "KILLED"}
          /\ HandledOps(state') = {"W"}
          /\ \A t \in Side : state' # Reading(t) /\ (state' = Writing(t) <=> t = p)
      BY <2>1, <1>p, StateNames, PlainStates DEF Alive, EndStates
    <2>5. TypeOK'
      <3>1. buf' \in Seq(Byte)
        BY <2>1, <1>1, <2>0, Stretch
      <3>2. nsent' = nsent /\ eof' = eof /\ reset' = reset /\ room' = room
            /\ dlvd' = dlvd /\ canWrite' = canWrite
        BY <1>0
      <3> QED
        BY <3>2, <2>1, <2>2, <2>3, <2>4, <3>1 DEF TypeOK
    <2>6. CountsInOrder'
      <3>1. nsent' = nsent
        BY <1>0
      <3>2. nrecv'[s] <= nsent[s] /\ nrecv'[p] <= nsent[p]
        BY <2>0, <2>2, <1>p DEF CountsInOrder
      <3> QED
        BY <3>1, <3>2, <1>p DEF CountsInOrder
    <2>7. DeliveredPrefix'
      <3>0. dlvd' = dlvd
        BY <1>0
      <3>1. Len(dlvd[p]) <= nrecv'[s] /\ Len(dlvd[s]) <= nrecv'[p]
        BY <1>p, <1>1, <2>0, <2>2 DEF DeliveredPrefix
      <3> QED
        BY <3>0, <3>1, <1>p DEF DeliveredPrefix
    <2>8. BufferIsTheGap'
      <3>1. dlvd'[p] = dlvd[p] /\ dlvd'[s] = dlvd[s]
        BY <1>0
      <3>2. buf' = SubSeq(Payload[s], Len(dlvd'[p]) + 1, nrecv'[s])
        BY <3>1, <2>1, <2>2, <1>1
      <3>3. Len(dlvd'[s]) = nrecv'[p]
        BY <3>1, <2>2, <1>0, <1>p DEF BufferIsTheGap
      <3>4. state' = Writing(Peer(s)) /\ state' # Writing(Peer(p))
        BY <2>1, <2>4, <1>p
      <3> QED
        BY <3>2, <3>3, <3>4, <1>p DEF BufferIsTheGap
    <2>9. BufferIdle'
      BY <2>1, <1>p DEF BufferIdle
    <2>10. FlagsFollowStreams'
      <3>1. Unread(s) > 0
        BY <1>1, <1>4, <1>6 DEF Unread
      <3>2. \A t \in Side : ~canRead[t] => nrecv'[t] = nrecv[t]
        BY <1>0, <1>p, <2>2
      <3>3. canWrite[p]
        BY <1>1
      <3> QED
        BY <1>0, <1>p, <2>1, <2>4, <3>2, <3>3 DEF FlagsFollowStreams
    <2>11. EventsHaveHandlers'
      <3>1. ASSUME NEW t \in Side PROVE interest'[t] \subseteq HandledOps(state')
        BY <2>3, <2>4, <1>p
      <3>2. ASSUME NEW t \in Side, state' \in {Reading(t), Writing(t)}
            PROVE  interest'[Peer(t)] = {}
        BY <2>3, <2>4, <3>2, <1>p
      <3> QED
        BY <3>1, <3>2 DEF EventsHaveHandlers
    <2>12. ErrorOnlyOnReset' /\ DoneIsShut'
      BY <2>4 DEF ErrorOnlyOnReset, DoneIsShut
    <2> QED
      BY <1>5, <2>4, <2>5, <2>6, <2>7, <2>8, <2>9, <2>10, <2>11, <2>12
  <1>7. CASE n = 0
    <2>1. /\ state' = Writing(p) /\ cap' = cap /\ buf' = <<>>
          /\ nrecv' = nrecv
          /\ SetInterest(s, {}, {"W"})
          /\ canRead' = [canRead EXCEPT ![s] = FALSE]
      <3>1. ~DisconnectFails(s)
        BY <1>4, <1>7 DEF DisconnectFails
      <3>2. ~Resizes(Writing(p))
        BY <1>p, StateNames DEF Resizes
      <3>3. /\ nrecv' = nrecv
            /\ SetInterest(s, {}, {"W"})
            /\ Jump(Writing(p), buf)
            /\ ShutRd(s)
        BY <1>3, <1>7, <3>1
      <3>4. canRead' = [canRead EXCEPT ![s] = FALSE]
        BY <3>1, <3>3 DEF ShutRd
      <3> QED
        BY <3>3, <3>4, <3>2, <1>0 DEF Jump
    <2>3. /\ interest' \in [Side -> SUBSET Op]
          /\ interest'[s] = {} /\ interest'[p] = {"W"}
      BY <2>1, InterestAfter, OpSets
    <2>4. /\ state' \in AliveStates /\ Alive' /\ state' # "DONE"
          /\ state' \notin {"ERROR", "KILLED"}
          /\ HandledOps(state') = {"W"}
          /\ \A t \in Side : state' # Reading(t) /\ (state' = Writing(t) <=> t = p)
      BY <2>1, <1>p, StateNames, PlainStates DEF Alive, EndStates
    <2>5. TypeOK'
      BY <1>0, <2>1, <2>3, <2>4 DEF TypeOK
    <2>6. CountsInOrder' /\ DeliveredPrefix'
      BY <1>0, <2>1 DEF CountsInOrder, DeliveredPrefix
    <2>8. BufferIsTheGap'
      <3>1. SubSeq(Payload[s], Len(dlvd[p]) + 1, nrecv[s]) = <<>>
        BY <1>1, SubSeqEmpty
      <3>2. Len(dlvd[s]) = nrecv[p]
        BY <1>0, <1>p DEF BufferIsTheGap
      <3>3. state' = Writing(Peer(s)) /\ state' # Writing(Peer(p))
        BY <2>1, <2>4, <1>p
      <3> QED
        BY <3>1, <3>2, <3>3, <2>1, <1>0, <1>p DEF BufferIsTheGap
    <2>9. BufferIdle'
      BY <2>1 DEF BufferIdle
    <2>10. FlagsFollowStreams'
      <3>1. canWrite[p]
        BY <1>1
      <3>2. canRead'[p] = canRead[p] /\ canRead'[s] = FALSE
        BY <2>1, <1>p DEF TypeOK
      <3>3. eof[s] /\ nrecv[s] = nsent[s]
        BY <1>4, <1>7
      <3> QED
        BY <1>0, <1>p, <2>1, <2>4, <3>1, <3>2, <3>3 DEF FlagsFollowStreams, TypeOK
    <2>11. EventsHaveHandlers'
      <3>1. ASSUME NEW t \in Side PROVE interest'[t] \subseteq HandledOps(state')
        BY <2>3, <2>4, <1>p
      <3>2. ASSUME NEW t \in Side, state' \in {Reading(t), Writing(t)}
            PROVE  interest'[Peer(t)] = {}
        BY <2>3, <2>4, <3>2, <1>p
      <3> QED
        BY <3>1, <3>2 DEF EventsHaveHandlers
    <2>12. ErrorOnlyOnReset' /\ DoneIsShut'
      BY <2>4 DEF ErrorOnlyOnReset, DoneIsShut
    <2> QED
      BY <1>5, <2>4, <2>5, <2>6, <2>8, <2>9, <2>10, <2>11, <2>12
  <1>8. CASE n < 0
    <2>1. /\ Jump("ERROR", buf) /\ interest' = interest
          /\ nrecv' = nrecv /\ canRead' = canRead
      BY <1>3, <1>4, <1>8
    <2>2. /\ state' = "ERROR" /\ buf' = <<>> /\ cap' \in {cap, target}
      BY <2>1, <1>0 DEF Jump
    <2>3. /\ reset'[s] /\ interest' \in [Side -> SUBSET Op] /\ buf' \in Seq(Byte)
          /\ pend' \subseteq pend
      BY <2>1, <2>2, <1>0, <1>4, <1>8 DEF TypeOK
    <2> QED
      BY <2>1, <2>2, <2>3, <1>0, ErrorEnds
  <1> QED
    BY <1>4, <1>6, <1>7, <1>8

(* Sending on s: what leaves the buffer joins what s was handed, so the    *)
(* gap shrinks from the left; a failing send needs a reset, because the    *)
(* event is ready and the side was never shut down.                        *)
LEMMA SendStep ==
    ASSUME RelayInv, NEW s \in Side, state = Writing(s), SendSome(s),
           <<s, "W">> \in pend, pend' = pend \ {<<s, "W">>},
           UNCHANGED <<lowFd, target, canRead, nsent, nrecv, eof, reset>>
    PROVE  RelayInv'
  <1> DEFINE q == Peer(s)
             k == Len(dlvd[s])
             n == SendResult(s, Len(buf))
  <1> USE DEF RelayInv
  <1>q. q \in Side /\ Peer(q) = s /\ q # s /\ \A t \in Side : t = s \/ t = q
    BY PeerFacts
  <1>0. /\ Alive /\ interest' = interest /\ canWrite' = canWrite /\ buf # <<>>
        /\ canWrite[s] /\ pend' = {}
        /\ state # "CONNECTED" /\ \A t \in Side : state # Reading(t)
        /\ \A t \in Side : state = Writing(t) <=> t = s
    <2>1. pend = {<<s, "W">>}
      BY StateNames DEF PendingIsReady, Alive
    <2> QED
      BY <2>1, <1>q, StateNames DEF SendSome, Alive, FlagsFollowStreams
  <1>1. room[s] > 0 \/ reset[s]
    BY <1>0 DEF PendingIsReady, KernelReady
  <1>2. /\ k \in Nat /\ nrecv[q] \in Nat /\ k <= nrecv[q]
        /\ nrecv[q] <= Len(Payload[q]) /\ Len(Payload[q]) \in Nat
        /\ buf = SubSeq(Payload[q], k + 1, nrecv[q])
        /\ dlvd[s] = SubSeq(Payload[q], 1, k)
    <2>1. /\ k \in Nat /\ nrecv[q] \in Nat /\ nsent[q] \in Nat
          /\ Len(Payload[q]) \in Nat
      BY <1>q, RelayAssumption, LenProperties DEF TypeOK
    <2>2. nrecv[q] <= nsent[q] /\ nsent[q] <= Len(Payload[q])
      BY <1>q DEF CountsInOrder
    <2>3. k <= nrecv[q] /\ dlvd[s] = SubSeq(Payload[q], 1, k)
      BY <1>q DEF DeliveredPrefix
    <2>4. buf = SubSeq(Payload[q], k + 1, nrecv[q])
      BY <1>q, <1>0 DEF BufferIsTheGap
    <2> QED
      BY <2>1, <2>2, <2>3, <2>4
  <1>3. Len(buf) = nrecv[q] - k /\ Len(buf) > 0
    <2>1. /\ buf \in Seq(Byte)
          /\ Len(buf) = IF k < nrecv[q] THEN nrecv[q] - k ELSE 0
      BY <1>2, <1>q, Stretch
    <2>2. Len(buf) # 0
      BY <2>1, <1>0, EmptySeq
    <2> QED
      BY <2>1, <2>2, <1>2
  <1>4. \/ n = -1 /\ reset[s]
        \/ n \in Nat /\ n <= Len(buf) /\ n <= room[s]
    <2>1. room[s] \in Nat
      BY RelayAssumption DEF TypeOK
    <2>2. Len(buf) \in Nat /\ Len(buf) > 0
      BY <1>2, <1>3
    <2>3. CASE reset[s] \/ room[s] = 0
      BY <2>1, <2>3, <1>1 DEF SendResult
    <2>4. CASE ~reset[s] /\ room[s] # 0
      <3>1. n = Least(Len(buf), room[s])
        BY <2>4, <1>0 DEF SendResult
      <3> QED
        BY <3>1, <2>1, <2>2 DEF Least
    <2> QED
      BY <2>3, <2>4
  <1>5. CASE n = -1 /\ reset[s]
    <2>1. /\ Jump("ERROR", buf) \/ Jump("KILLED", buf)
          /\ room' = room /\ dlvd' = dlvd
      BY <1>5 DEF SendSome
    <2>2. state' \in {"ERROR", "KILLED"} /\ buf' \in Seq(Byte)
          /\ cap' \in {cap, target}
      <3>1. buf \in Seq(Byte) /\ <<>> \in Seq(Byte)
        BY DEF TypeOK
      <3>2. buf' \in {buf, <<>>} /\ cap' \in {cap, target}
        BY <2>1 DEF Jump
      <3>3. state' \in {"ERROR", "KILLED"}
        BY <2>1 DEF Jump
      <3> QED
        BY <3>1, <3>2, <3>3
    <2>3. interest' \in [Side -> SUBSET Op] /\ pend' \subseteq pend
      BY <1>0 DEF TypeOK
    <2> QED
      BY <1>0, <1>5, <2>1, <2>2, <2>3, ErrorEnds
  <1>6. CASE n \in Nat /\ n <= Len(buf) /\ n <= room[s]
    <2>1. /\ dlvd' = [dlvd EXCEPT ![s] = @ \o SubSeq(buf, 1, n)]
          /\ room' = [room EXCEPT ![s] = @ - n]
          /\ Jump(state, SubSeq(buf, n + 1, Len(buf)))
      BY <1>6 DEF SendSome
    <2>2. /\ state' = state /\ cap' = cap /\ Alive'
          /\ buf' = SubSeq(buf, n + 1, Len(buf))
      BY <2>1, <1>0 DEF Jump, Resets, Resizes, Alive
    <2> HIDE DEF n, k
    <2>3. k + n \in Nat /\ k + n <= nrecv[q] /\ k + n <= Len(Payload[q]) /\ k <= k + n
      BY <1>2, <1>3, <1>6
    <2>4. /\ SubSeq(buf, 1, n) = SubSeq(Payload[q], k + 1, k + n)
          /\ SubSeq(buf, n + 1, Len(buf)) = SubSeq(Payload[q], k + n + 1, nrecv[q])
      <3>1. n \in Nat
        BY <1>6
      <3> QED
        BY ONLY <3>1, <1>q, <1>2, <2>3, StretchSplits
    <2>5. /\ SubSeq(Payload[q], 1, k + n) \in Seq(Byte)
          /\ Len(SubSeq(Payload[q], 1, k + n)) = k + n
          /\ dlvd[s] \o SubSeq(buf, 1, n) = SubSeq(Payload[q], 1, k + n)
      <3>1. 0 \in Nat /\ 0 <= k
        BY <1>2
      <3>2. SubSeq(Payload[q], 0 + 1, k) \o SubSeq(Payload[q], k + 1, k + n)
              = SubSeq(Payload[q], 0 + 1, k + n)
        BY ONLY <3>1, <1>q, <1>2, <2>3, StretchJoins
      <3>3. /\ SubSeq(Payload[q], 0 + 1, k + n) \in Seq(Byte)
            /\ Len(SubSeq(Payload[q], 0 + 1, k + n)) = IF 0 < k + n THEN (k + n) - 0 ELSE 0
        BY <3>1, <1>q, <2>3, Stretch
      <3> QED
        <4>1. 0 + 1 = 1
          OBVIOUS
        <4>2. /\ SubSeq(Payload[q], 1, k + n) \in Seq(Byte)
              /\ Len(SubSeq(Payload[q], 1, k + n)) = IF 0 < k + n THEN (k + n) - 0 ELSE 0
              /\ SubSeq(Payload[q], 1, k) \o SubSeq(Payload[q], k + 1, k + n)
                   = SubSeq(Payload[q], 1, k + n)
          BY ONLY <3>2, <3>3, <4>1
        <4>3. Len(SubSeq(Payload[q], 1, k + n)) = k + n
          BY ONLY <4>2, <2>3
        <4> QED
          BY ONLY <4>2, <4>3, <2>4, <1>2
    <2>6. /\ dlvd' \in [Side -> Seq(Byte)]
          /\ dlvd'[s] = SubSeq(Payload[q], 1, k + n) /\ Len(dlvd'[s]) = k + n
          /\ dlvd'[q] = dlvd[q]
      <3>1. dlvd \in [Side -> Seq(Byte)]
        BY DEF TypeOK
      <3> QED
        BY <3>1, <2>1, <2>5, <1>q
    <2>7. buf' \in Seq(Byte) /\ buf' = SubSeq(Payload[q], Len(dlvd'[s]) + 1, nrecv[q])
      BY <2>2, <2>3, <2>4, <2>6, <1>q, <1>2, Stretch
    <2>8. TypeOK'
      <3>1. room' \in [Side -> 0 .. Room]
        <4>1. room \in [Side -> 0 .. Room] /\ Room \in Nat
          BY RelayAssumption DEF TypeOK
        <4>2. room[s] - n \in 0 .. Room
          BY <4>1, <1>6
        <4> QED
          BY <4>1, <4>2, <2>1
      <3> QED
        BY <3>1, <1>0, <2>2, <2>6, <2>7 DEF TypeOK
    <2>9. CountsInOrder' /\ ErrorOnlyOnReset' /\ DoneIsShut'
      BY <2>2, <1>0 DEF CountsInOrder, ErrorOnlyOnReset, DoneIsShut
    <2>10. DeliveredPrefix'
      <3>1. Len(dlvd'[s]) <= nrecv[q] /\ dlvd'[s] = SubSeq(Payload[q], 1, Len(dlvd'[s]))
        BY <2>3, <2>6
      <3> QED
        BY <3>1, <2>6, <1>q DEF DeliveredPrefix
    <2>11. BufferIsTheGap'
      <3>1. Len(dlvd'[q]) = nrecv[s]
        BY <2>6, <1>0, <1>q DEF BufferIsTheGap
      <3> QED
        BY <3>1, <2>2, <2>7, <1>0, <1>q DEF BufferIsTheGap
    <2>12. BufferIdle'
      BY <2>2 DEF BufferIdle
    <2>13. FlagsFollowStreams'
      BY <2>2, <2>6, <1>0, <1>q DEF FlagsFollowStreams
    <2>14. EventsHaveHandlers' /\ PendingIsReady'
      BY <1>0, <2>2 DEF EventsHaveHandlers, PendingIsReady
    <2> QED
      BY <2>8, <2>9, <2>10, <2>11, <2>12, <2>13, <2>14
  <1> QED
    BY <1>4, <1>5, <1>6

(* With the buffer drained, s was handed all that was read for it: either  *)
(* both sides are watched again, or the end of the other stream is passed  *)
(* on, and then there is nothing left of that stream.                      *)
LEMMA FinishStep ==
    ASSUME RelayInv, NEW s \in Side, state = Writing(s), FinishWrite(s),
           <<s, "W">> \in pend, pend' = pend \ {<<s, "W">>},
           UNCHANGED <<lowFd, target, canRead, nsent, nrecv, eof, reset>>
    PROVE  RelayInv'
  <1> DEFINE q == Peer(s)
  <1> USE DEF RelayInv
  <1>q. q \in Side /\ Peer(q) = s /\ q # s /\ \A t \in Side : t = s \/ t = q
    BY PeerFacts
  <1>0. /\ Alive /\ buf = <<>> /\ room' = room /\ dlvd' = dlvd
        /\ canWrite[s] /\ pend' = {}
        /\ \A t \in Side : state = Writing(t) <=> t = s
    <2>1. pend = {<<s, "W">>}
      BY StateNames DEF PendingIsReady, Alive
    <2> QED
      BY <2>1, <1>q, StateNames DEF FinishWrite, Alive, FlagsFollowStreams
  <1>1. \A t \in Side : Len(dlvd[Peer(t)]) = nrecv[t]
    <2>1. /\ Len(dlvd[s]) \in Nat /\ nrecv[q] \in Nat /\ Len(dlvd[s]) <= nrecv[q]
          /\ nrecv[q] <= Len(Payload[q]) /\ Len(Payload[q]) \in Nat
      <3>1. /\ Len(dlvd[s]) \in Nat /\ nrecv[q] \in Nat /\ nsent[q] \in Nat
            /\ Len(Payload[q]) \in Nat
        BY <1>q, RelayAssumption, LenProperties DEF TypeOK
      <3>2. nrecv[q] <= nsent[q] /\ nsent[q] <= Len(Payload[q])
        BY <1>q DEF CountsInOrder
      <3>3. Len(dlvd[s]) <= nrecv[q]
        BY <1>q DEF DeliveredPrefix
      <3> QED
        BY <3>1, <3>2, <3>3
    <2>2. <<>> = SubSeq(Payload[q], Len(dlvd[s]) + 1, nrecv[q])
      BY <1>0, <1>q DEF BufferIsTheGap
    <2>3. 0 = IF Len(dlvd[s]) < nrecv[q] THEN nrecv[q] - Len(dlvd[s]) ELSE 0
      BY <2>1, <2>2, <1>q, Stretch, EmptySeq
    <2>4. Len(dlvd[s]) = nrecv[q]
      BY <2>1, <2>3
    <2>5. Len(dlvd[q]) = nrecv[s]
      BY <1>0, <1>q DEF BufferIsTheGap
    <2> QED
      BY <2>4, <2>5, <1>q
  <1>2. ASSUME state' = "CONNECTED", cap' \in {cap, target}, buf' = <<>>,
               interest' \in [Side -> SUBSET Op],
               \A t \in Side : interest'[t] \subseteq {"R"},
               canWrite' \in [Side -> BOOLEAN], canWrite'[q] = canWrite[q],
               ~canWrite'[s] => ~canRead[q]
        PROVE  RelayInv'
    <2>1. /\ Alive' /\ state' \in AliveStates /\ HandledOps(state') = {"R"}
          /\ \A t \in Side : state' # Reading(t) /\ state' # Writing(t)
          /\ state' \notin {"DONE", "ERROR", "KILLED"}
      BY <1>2, StateNames, PlainStates DEF Alive, EndStates
    <2>2. TypeOK'
      BY <1>0, <1>2, <2>1 DEF TypeOK
    <2>3. CountsInOrder' /\ DeliveredPrefix' /\ ErrorOnlyOnReset' /\ DoneIsShut'
      BY <1>0, <2>1 DEF CountsInOrder, DeliveredPrefix, ErrorOnlyOnReset, DoneIsShut
    <2>4. BufferIsTheGap' /\ BufferIdle'
      BY <1>0, <1>1, <1>2, <1>q, <2>1 DEF BufferIsTheGap, BufferIdle
    <2>5. FlagsFollowStreams'
      <3>1. ~canRead[q] => Len(dlvd[s]) = nsent[q]
        BY <1>1, <1>q DEF FlagsFollowStreams
      <3>2. ~canWrite[q] => ~canRead[s] /\ Len(dlvd[q]) = nsent[s]
        BY <1>q DEF FlagsFollowStreams
      <3>3. \A t \in Side : ~canRead[t] => eof[t] /\ nrecv[t] = nsent[t]
        BY DEF FlagsFollowStreams
      <3> QED
        BY <3>1, <3>2, <3>3, <1>0, <1>2, <2>1, <1>q DEF FlagsFollowStreams
    <2>6. EventsHaveHandlers' /\ PendingIsReady'
      BY <1>0, <1>2, <2>1 DEF EventsHaveHandlers, PendingIsReady
    <2> QED
      BY <2>2, <2>3, <2>4, <2>5, <2>6
  <1>3. CASE /\ canRead[q] /\ SetInterest(s, {"R"}, {"R"})
             /\ Jump("CONNECTED", buf) /\ UNCHANGED canWrite
    <2>1. state' = "CONNECTED" /\ cap' \in {cap, target} /\ buf' = <<>>
      BY <1>3, <1>0 DEF Jump
    <2>2. /\ interest' \in [Side -> SUBSET Op]
          /\ interest'[s] = {"R"} /\ interest'[q] = {"R"}
      BY <1>3, InterestAfter, OpSets
    <2>3. canWrite' \in [Side -> BOOLEAN] /\ canWrite' = canWrite
      BY <1>3 DEF TypeOK
    <2> QED
      BY <1>2, <2>1, <2>2, <2>3, <1>0, <1>q
  <1>4. CASE /\ ~canRead[q] /\ ShutWr(s) /\ SetInterest(s, {"R"}, {})
             /\ Jump(IF DisconnectFails(s) THEN "ERROR" ELSE "CONNECTED", buf)
    <2>2. /\ interest' \in [Side -> SUBSET Op]
          /\ interest'[s] = {"R"} /\ interest'[q] = {}
      BY <1>4, InterestAfter, OpSets
    <2>3. canWrite \in [Side -> BOOLEAN]
      BY DEF TypeOK
    <2>4. CASE DisconnectFails(s)
      <3>1. canWrite' = canWrite
        <4>1. canWrite' = [canWrite EXCEPT ![s] = TRUE]
          BY <1>4, <2>4, <1>0 DEF ShutWr
        <4> QED
          BY <4>1, <2>3, <1>0
      <3>2. Jump("ERROR", buf)
        BY <1>4, <2>4
      <3>3. state' = "ERROR" /\ cap' \in {cap, target} /\ buf' = <<>>
        BY <3>2, <1>0 DEF Jump
      <3>4. reset'[s] /\ pend' \subseteq pend /\ buf' \in Seq(Byte)
        BY <2>4, <3>3, <1>0 DEF DisconnectFails
      <3> QED
        BY <3>1, <3>3, <3>4, <2>2, <1>0, ErrorEnds
    <2>5. CASE ~DisconnectFails(s)
      <3>1. canWrite' = [canWrite EXCEPT ![s] = FALSE]
        BY <1>4, <2>5 DEF ShutWr
      <3>2. canWrite' \in [Side -> BOOLEAN] /\ canWrite'[q] = canWrite[q]
        BY <3>1, <2>3, <1>q
      <3>3. Jump("CONNECTED", buf)
        BY <1>4, <2>5
      <3>4. state' = "CONNECTED" /\ cap' \in {cap, target} /\ buf' = <<>>
        BY <3>3, <1>0 DEF Jump
      <3> QED
        BY <1>2, <1>4, <2>2, <3>2, <3>4, <1>q
    <2> QED
      BY <2>4, <2>5
  <1> QED
    BY <1>3, <1>4 DEF FinishWrite

-------------------------------------------------------------------------------
(* Every step preserves the invariant. *)
LEMMA NextStep == RelayInv /\ [Next]_vars => RelayInv'
  <1> SUFFICES ASSUME RelayInv, [Next]_vars PROVE RelayInv'
    OBVIOUS
  <1>1. CASE UNCHANGED vars
    BY <1>1 DEF vars, RelayInv, TypeOK, CountsInOrder, DeliveredPrefix,
                BufferIsTheGap, BufferIdle, FlagsFollowStreams, EventsHaveHandlers,
                PendingIsReady, ErrorOnlyOnReset, DoneIsShut, Alive, KernelReady, Unread
  <1>2. ASSUME NEW e \in Side \X Op, Deliver(e) PROVE RelayInv'
    <2>1. PICK s \in Side :
              /\ UNCHANGED <<lowFd, target>>
              /\ pend' = pend \ {e} /\ e \in pend
              /\ \/ e = <<s, "R">> /\ (ConnectedRun(s) \/ ReadRun(s))
                 \/ e = <<s, "W">> /\ WriteRun(s)
      BY <1>2, DeliverChooses
    <2>2. CASE e = <<s, "R">> /\ ConnectedRun(s)
      BY <2>1, <2>2, ConnectedStep
    <2>3. CASE e = <<s, "R">> /\ ReadRun(s)
      BY <2>1, <2>3, ReadStep
    <2>4. CASE e = <<s, "W">> /\ WriteRun(s)
      <3>1. /\ state = Writing(s)
            /\ SendSome(s) \/ FinishWrite(s)
            /\ UNCHANGED <<lowFd, target, canRead, nsent, nrecv, eof, reset>>
            /\ <<s, "W">> \in pend /\ pend' = pend \ {<<s, "W">>}
        BY <2>1, <2>4 DEF WriteRun
      <3> QED
        BY <3>1, SendStep, FinishStep
    <2> QED
      BY <2>1, <2>2, <2>3, <2>4
  <1>3. ASSUME NEW e \in Side \X Op, Skip(e) PROVE RelayInv'
    BY <1>3, SkipStep
  <1> QED
    BY <1>1, <1>2, <1>3, SelectStep, TimeoutStep, EnvironmentStep
       DEF Next, Loop, Ended

(* The inductive invariant holds in every behaviour of the relay. *)
THEOREM InvariantHolds == Spec => []RelayInv
  <1> QED
    BY InitInv, NextStep, PTL DEF Spec
-------------------------------------------------------------------------------
(* Types are preserved by every step.  Among other things: the buffer the  *)
(* handlers read into never has size zero (socks5_buffer.c), so a recv of  *)
(* zero bytes always means the end of the stream.                          *)
THEOREM TypeCorrect == Spec => []TypeOK
  <1>1. RelayInv => TypeOK
    BY DEF RelayInv
  <1> QED
    BY <1>1, InvariantHolds, PTL

(* No byte is lost, duplicated, reordered or misdirected by the shared     *)
(* buffer (socks5_client.c, socks5_remote.c, socks5_connected.c).          *)
THEOREM StreamsAreIntact == Spec => []StreamIntegrity
  <1>1. RelayInv => StreamIntegrity
    <2> SUFFICES ASSUME RelayInv, Alive, NEW s \in Side
                 PROVE  dlvd[Peer(s)] \o Held(s) = SubSeq(Payload[s], 1, nrecv[s])
      BY DEF StreamIntegrity
    <2> DEFINE p == Peer(s)
               k == Len(dlvd[p])
    <2>1. p \in Side
      BY PeerFacts
    <2>2. /\ k \in Nat /\ nrecv[s] \in Nat /\ k <= nrecv[s]
          /\ nrecv[s] <= Len(Payload[s]) /\ dlvd[p] \in Seq(Byte)
          /\ dlvd[p] = SubSeq(Payload[s], 1, k)
      <3>1. /\ dlvd[p] \in Seq(Byte) /\ nrecv[s] \in Nat /\ nsent[s] \in Nat
            /\ Len(Payload[s]) \in Nat
        BY <2>1, RelayAssumption, LenProperties DEF RelayInv, TypeOK
      <3>2. k \in Nat
        BY <3>1, LenProperties
      <3>3. nrecv[s] <= nsent[s] /\ nsent[s] <= Len(Payload[s])
        BY DEF RelayInv, CountsInOrder
      <3>4. k <= nrecv[s] /\ dlvd[p] = SubSeq(Payload[s], 1, k)
        BY DEF RelayInv, DeliveredPrefix
      <3> QED
        BY <3>1, <3>2, <3>3, <3>4
    <2>3. CASE state = Writing(p)
      <3> HIDE DEF k
      <3>1. Held(s) = SubSeq(Payload[s], k + 1, nrecv[s])
        BY <2>3 DEF k, Held, RelayInv, BufferIsTheGap
      <3>2. 0 \in Nat /\ 0 <= k
        BY <2>2
      <3>3. SubSeq(Payload[s], 0 + 1, k) \o SubSeq(Payload[s], k + 1, nrecv[s])
              = SubSeq(Payload[s], 0 + 1, nrecv[s])
        BY ONLY <2>2, <3>2, s \in Side, StretchJoins
      <3>4. 0 + 1 = 1
        OBVIOUS
      <3> QED
        BY ONLY <2>2, <3>1, <3>3, <3>4
    <2>4. CASE state # Writing(p)
      <3>1. Held(s) = <<>> /\ k = nrecv[s]
        BY <2>4 DEF Held, RelayInv, BufferIsTheGap
      <3> QED
        BY <3>1, <2>2, ConcatEmptySeq
    <2> QED
      BY <2>3, <2>4
  <1> QED
    BY <1>1, InvariantHolds, PTL

(* The end of a stream is passed on (DisconnectFromTcpConnection with      *)
(* SHUT_WR) only after the whole stream was.                               *)
THEOREM HalfClosesAreLate == Spec => []HalfCloseAfterData
  <1>1. RelayInv => HalfCloseAfterData
    BY DEF RelayInv, HalfCloseAfterData, FlagsFollowStreams, DeliveredPrefix
  <1> QED
    BY <1>1, InvariantHolds, PTL

(* fsm.c never meets an event its table has no handler for: abort() is     *)
(* unreachable in the relay states.                                        *)
THEOREM NoUnhandledEvent == Spec => []EventsHaveHandlers
  <1>1. RelayInv => EventsHaveHandlers
    BY DEF RelayInv
  <1> QED
    BY <1>1, InvariantHolds, PTL

(* Without a reset by a peer no interleaving ends the connection in ERROR. *)
THEOREM ErrorsNeedAReset == Spec => []ErrorOnlyOnReset
  <1>1. RelayInv => ErrorOnlyOnReset
    BY DEF RelayInv
  <1> QED
    BY <1>1, InvariantHolds, PTL

-------------------------------------------------------------------------------
(* The pipe's view of a state: the refinement mapping of Relay.tla.        *)
PipeStatus == IF Alive THEN "open"
              ELSE IF state = "DONE" THEN "complete" ELSE "failed"
PipeFin == [s \in Side |-> ~canWrite[s]]

LEMMA SameSides ==
    /\ Pipe!Side = Side
    /\ \A s \in Side : Pipe!Peer(s) = Peer(s)
  BY DEF Pipe!Side, Side, Pipe!Peer, Peer

LEMMA InitMaps == Init => Pipe!Init
  BY SameSides, PlainStates DEF Init, Pipe!Init, Alive

(* A step that leaves the streams alone is a stutter of the pipe, or the   *)
(* failure of the whole pipe.                                              *)
LEMMA QuietStep ==
    ASSUME Alive, UNCHANGED <<nsent, eof, dlvd, canWrite>>,
           Alive' \/ (~Alive' /\ state' # "DONE")
    PROVE  [Pipe!Next]_(Pipe!vars)
  <1>1. CASE Alive'
    BY <1>1 DEF Pipe!vars
  <1>2. CASE ~Alive' /\ state' # "DONE"
    BY <1>2 DEF Pipe!Next, Pipe!Fail
  <1> QED
    BY <1>1, <1>2

(* The environment sends and closes, or does nothing the pipe can see.     *)
LEMMA EnvironmentMaps ==
    ASSUME RelayInv, Environment
    PROVE  [Pipe!Next]_(Pipe!vars)
  <1>0. ASSUME UNCHANGED <<loopVars, dlvd>>
        PROVE  (Alive' <=> Alive) /\ state' = state /\ canWrite' = canWrite
               /\ dlvd' = dlvd
    BY <1>0 DEF loopVars, Alive
  <1>1. ASSUME NEW s \in Side, PeerSends(s) PROVE [Pipe!Next]_(Pipe!vars)
    <2>1. Pipe!Send(s)
      BY <1>1, <1>0 DEF PeerSends, Pipe!Send
    <2> QED
      BY <2>1, SameSides DEF Pipe!Next
  <1>2. ASSUME NEW s \in Side, PeerCloses(s) PROVE [Pipe!Next]_(Pipe!vars)
    <2>1. Pipe!Close(s)
      BY <1>2, <1>0 DEF PeerCloses, Pipe!Close
    <2> QED
      BY <2>1, SameSides DEF Pipe!Next
  <1>3. ASSUME NEW s \in Side, PeerReads(s) \/ PeerResets(s)
        PROVE  [Pipe!Next]_(Pipe!vars)
    BY <1>3, <1>0 DEF PeerReads, PeerResets, Pipe!vars
  <1>4. ASSUME NEW n \in BufferSizes, SetBufferSize(n)
        PROVE  [Pipe!Next]_(Pipe!vars)
    BY <1>4, <1>0 DEF SetBufferSize, netVars, Pipe!vars
  <1> QED
    BY <1>1, <1>2, <1>3, <1>4 DEF Environment

(* A send delivers the next bytes of the peer's stream. *)
LEMMA SendMaps ==
    ASSUME RelayInv, RelayInv', NEW s \in Side, state = Writing(s), SendSome(s),
           UNCHANGED <<nsent, nrecv, eof, reset>>
    PROVE  [Pipe!Next]_(Pipe!vars)
  <1> DEFINE q == Peer(s)
             n == SendResult(s, Len(buf))
  <1>q. q \in Side /\ Peer(q) = s
    BY PeerFacts
  <1>0. Alive /\ canWrite' = canWrite /\ canWrite[s]
    BY StateNames DEF Alive, SendSome, RelayInv, FlagsFollowStreams
  <1>1. CASE dlvd' = dlvd /\ (Jump("ERROR", buf) \/ Jump("KILLED", buf))
    <2>1. ~Alive' /\ state' # "DONE"
      BY <1>1 DEF Jump, Alive, AliveStates
    <2> QED
      BY <1>0, <1>1, <2>1, QuietStep
  <1>2. CASE /\ dlvd' = [dlvd EXCEPT ![s] = @ \o SubSeq(buf, 1, n)]
             /\ state' = state
    <2>1. Alive'
      BY <1>0, <1>2 DEF Alive
    <2>2. /\ dlvd[s] \in Seq(Byte) /\ dlvd'[s] \in Seq(Byte)
          /\ Len(dlvd[s]) \in Nat /\ Len(dlvd'[s]) \in Nat
          /\ nrecv[q] \in Nat /\ nsent[q] \in Nat
      BY <1>q, LenProperties DEF RelayInv, TypeOK
    <2>3. /\ Len(dlvd'[s]) <= nrecv[q]
          /\ dlvd'[s] = SubSeq(Payload[q], 1, Len(dlvd'[s]))
          /\ dlvd[s] = SubSeq(Payload[q], 1, Len(dlvd[s]))
          /\ nrecv[q] <= nsent[q]
      BY <1>q DEF RelayInv, DeliveredPrefix, CountsInOrder
    <2>4. dlvd' = [dlvd EXCEPT ![s] = dlvd'[s]]
      BY <1>2 DEF RelayInv, TypeOK
    <2>5. CASE Len(dlvd'[s]) > Len(dlvd[s])
      <3>1. Len(dlvd'[s]) \in Len(dlvd[s]) + 1 .. nsent[q]
        BY <2>2, <2>3, <2>5
      <3>2. dlvd' = [dlvd EXCEPT ![s] = SubSeq(Payload[q], 1, Len(dlvd'[s]))]
        BY <2>3, <2>4
      <3>3. Pipe!Deliver(s)
        BY <3>1, <3>2, <1>0, <2>1, SameSides DEF Pipe!Deliver
      <3> QED
        BY <3>3, SameSides DEF Pipe!Next
    <2>6. CASE Len(dlvd'[s]) = Len(dlvd[s])
      <3>1. dlvd' = dlvd
        <4>1. dlvd \in [Side -> Seq(Byte)]
          BY DEF RelayInv, TypeOK
        <4>2. dlvd'[s] = dlvd[s]
          BY <2>3, <2>6
        <4> QED
          BY <4>1, <4>2, <2>4
      <3> QED
        BY <3>1, <1>0, <2>1, QuietStep
    <2>7. Len(dlvd'[s]) >= Len(dlvd[s])
      <3>1. buf \in Seq(Byte) /\ Len(buf) \in Nat /\ room[s] \in Nat
        BY LenProperties, RelayAssumption DEF RelayInv, TypeOK
      <3>2. n = -1 \/ (n \in Nat /\ n <= Len(buf))
        BY <3>1 DEF SendResult, Least
      <3>3. dlvd'[s] = dlvd[s] \o SubSeq(buf, 1, n)
        <4>1. dlvd \in [Side -> Seq(Byte)]
          BY DEF RelayInv, TypeOK
        <4> QED
          BY <4>1, <1>2
      <3> HIDE DEF n
      <3>4. SubSeq(buf, 1, n) \in Seq(Byte)
        <4>1. CASE n = -1
          BY <4>1, SubSeqEmpty
        <4>2. CASE n \in Nat /\ n <= Len(buf)
          <5>1. \A i \in 1 .. n : buf[i] \in Byte
            BY <3>1, <4>2, ElementOfSeq
          <5> QED
            BY <4>2, <5>1, SubSeqProperties
        <4> QED
          BY <3>2, <4>1, <4>2
      <3>5. /\ Len(SubSeq(buf, 1, n)) \in Nat
            /\ Len(dlvd'[s]) = Len(dlvd[s]) + Len(SubSeq(buf, 1, n))
        <4>1. Len(dlvd[s] \o SubSeq(buf, 1, n)) = Len(dlvd[s]) + Len(SubSeq(buf, 1, n))
          BY <2>2, <3>4, ConcatProperties
        <4>2. Len(SubSeq(buf, 1, n)) \in Nat
          BY <3>4, LenProperties
        <4> QED
          BY <3>3, <4>1, <4>2
      <3> QED
        <4>1. \A a, b, c \in Nat : c = a + b => c >= a
          OBVIOUS
        <4> QED
          BY <2>2, <3>5, <4>1, Zenon
    <2> QED
      BY <2>2, <2>5, <2>6, <2>7
  <1> QED
    BY <1>1, <1>2, StateNames DEF SendSome, Jump

(* Finishing a write closes the stream towards s, or the pipe sees nothing.*)
LEMMA FinishMaps ==
    ASSUME RelayInv, RelayInv', NEW s \in Side, state = Writing(s), FinishWrite(s),
           UNCHANGED <<nsent, nrecv, eof, reset, canRead>>
    PROVE  [Pipe!Next]_(Pipe!vars)
  <1> DEFINE q == Peer(s)
  <1>q. q \in Side /\ Peer(q) = s
    BY PeerFacts
  <1>0. Alive /\ canWrite[s] /\ dlvd' = dlvd
    BY StateNames DEF Alive, FinishWrite, RelayInv, FlagsFollowStreams
  <1>1. CASE canWrite' = canWrite
    <2>1. state' \in {"CONNECTED", "ERROR"}
      BY DEF FinishWrite, Jump
    <2> QED
      BY <1>0, <1>1, <2>1, QuietStep DEF Alive, AliveStates
  <1>2. CASE canWrite' = [canWrite EXCEPT ![s] = FALSE] /\ state' = "CONNECTED"
    <2>1. Alive' /\ ~canWrite'[s]
      BY <1>2 DEF Alive, AliveStates, RelayInv, TypeOK
    <2>2. eof[q] /\ Len(dlvd[s]) = nsent[q]
      BY <2>1, <1>0, <1>q DEF RelayInv, FlagsFollowStreams
    <2>3. PipeFin' = [PipeFin EXCEPT ![s] = TRUE]
      BY <1>2 DEF PipeFin, RelayInv, TypeOK
    <2>4. Pipe!Fin(s)
      BY <1>0, <2>1, <2>2, <2>3, SameSides DEF Pipe!Fin, PipeFin
    <2> QED
      BY <2>4, SameSides DEF Pipe!Next
  <1>3. canWrite' = canWrite \/ (canWrite' = [canWrite EXCEPT ![s] = FALSE] /\ state' = "CONNECTED")
    <2>1. CASE UNCHANGED canWrite
      BY <2>1
    <2>2. CASE ShutWr(s) /\ Jump(IF DisconnectFails(s) THEN "ERROR" ELSE "CONNECTED", buf)
      <3>1. CASE DisconnectFails(s)
        <4>1. canWrite' = [canWrite EXCEPT ![s] = TRUE]
          BY <2>2, <3>1, <1>0 DEF ShutWr
        <4> QED
          BY <4>1, <1>0 DEF RelayInv, TypeOK
      <3>2. CASE ~DisconnectFails(s)
        BY <2>2, <3>2 DEF ShutWr, Jump
      <3> QED
        BY <3>1, <3>2
    <2> QED
      BY <2>1, <2>2 DEF FinishWrite
  <1> QED
    BY <1>1, <1>2, <1>3

(* Every step of the relay is a step of the pipe, or nothing it can see. *)
LEMMA StepMaps ==
    ASSUME RelayInv, RelayInv', [Next]_vars
    PROVE  [Pipe!Next]_(Pipe!vars)
  <1>1. CASE UNCHANGED vars
    BY <1>1 DEF vars, Pipe!vars, Alive
  <1>2. CASE Select \/ \E e \in Side \X Op : Skip(e)
    BY <1>2, QuietStep DEF Select, Skip, netVars, Alive
  <1>3. CASE IdleTimeout
    BY <1>3, QuietStep DEF IdleTimeout, netVars, Alive, AliveStates
  <1>4. ASSUME NEW e \in Side \X Op, Deliver(e) PROVE [Pipe!Next]_(Pipe!vars)
    <2>0. Alive
      BY <1>4 DEF Deliver
    <2>1. PICK s \in Side : ConnectedRun(s) \/ ReadRun(s) \/ WriteRun(s)
      BY <1>4, DeliverChooses
    <2>2. CASE ConnectedRun(s)
      <3>1. UNCHANGED <<nsent, eof, dlvd, canWrite>>
        BY <2>2 DEF ConnectedRun, netVars
      <3>2. CASE state' = "DONE"
        <4>1. \A t \in Side : ~canWrite[t]
          BY <3>1, <3>2 DEF RelayInv, DoneIsShut
        <4>2. ~Alive'
          BY <3>2 DEF Alive, AliveStates
        <4>3. Pipe!Complete
          BY <2>0, <3>1, <3>2, <4>1, <4>2, SameSides DEF Pipe!Complete
        <4> QED
          BY <4>3 DEF Pipe!Next
      <3>3. CASE state' = "CONNECTED" \/ state' = Reading(s)
        <4>1. Alive'
          BY <3>3, StateNames, PlainStates DEF Alive
        <4> QED
          BY <2>0, <3>1, <4>1, QuietStep
      <3> QED
        BY <2>2, <3>2, <3>3 DEF ConnectedRun, Jump
    <2>3. CASE ReadRun(s)
      <3>1. UNCHANGED <<nsent, eof, dlvd, canWrite>>
        BY <2>3 DEF ReadRun
      <3>2. state' = "ERROR" \/ state' = Writing(Peer(s))
        BY <2>3 DEF ReadRun, Jump
      <3>3. Alive' \/ (~Alive' /\ state' # "DONE")
        BY <3>2, StateNames, PeerFacts DEF Alive
      <3> QED
        BY <2>0, <3>1, <3>3, QuietStep
    <2>4. CASE WriteRun(s)
      <3>1. /\ state = Writing(s)
            /\ SendSome(s) \/ FinishWrite(s)
            /\ UNCHANGED <<canRead, nsent, nrecv, eof, reset>>
        BY <2>4 DEF WriteRun
      <3> QED
        BY <3>1, SendMaps, FinishMaps
    <2> QED
      BY <2>1, <2>2, <2>3, <2>4
  <1>5. CASE Environment
    BY <1>5, EnvironmentMaps
  <1> QED
    BY <1>1, <1>2, <1>3, <1>4, <1>5 DEF Next, Loop, Ended

(* The relay phase implements two independent in-order byte streams, each  *)
(* closed only when complete, although it has one buffer and one FSM for   *)
(* both.                                                                   *)
THEOREM RelayImplementsPipe == Spec => ImplementsPipe
  <1>1. Init => Pipe!Init
    BY InitMaps
  <1>2. RelayInv /\ RelayInv' /\ [Next]_vars => [Pipe!Next]_(Pipe!vars)
    BY StepMaps
  <1> QED
    BY <1>1, <1>2, InvariantHolds, PTL DEF Spec, ImplementsPipe, Pipe!Spec

===============================================================================
