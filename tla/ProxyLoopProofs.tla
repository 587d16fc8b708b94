-------------------------- MODULE ProxyLoopProofs --------------------------
(***************************************************************************)
(* Proofs about ProxyLoop, for any number of pairs, any buffer size and    *)
(* any number of events per epoll_wait.                                    *)
(***************************************************************************)
EXTENDS ProxyLoop, FiniteSetTheorems, TLAPS

OpenPairs == {p \in Pairs : pair[p] = "open"}

\* What the worker's variables hold at each location.  Only the batch of the
\* side being handled is not empty, and the event being handled has left it.
LocalsOK ==
    /\ pc = "add" => cur \in Pairs /\ pair[cur] = "connected"
    /\ pc \in {"read", "write", "close"} => cur \in Pairs /\ cur \notin batch[side]
    /\ pc \in {"get", "add", "wait"} => \A d \in Side : batch[d] = {}
    /\ pc \in {"next", "read", "write", "close"} => batch[Other(side)] = {}
    /\ pc \notin {"read", "write"} => got = 0

\* Bytes are read and not written only when a peer is gone.
LossExcused ==
    \A d \in Side : \A p \in lost[d] : peer[d][p] = "broken" \/ peer[Other(d)][p] # "open"

\* The inductive invariant.
IInv == TypeOK /\ LocalsOK /\ NoStaleEvent /\ NoLostEdge /\ OpenCount /\ LossExcused /\ DrainedAtEof

\* The pairs that are open can be counted.
LEMMA OpenFinite == IsFiniteSet(OpenPairs) /\ Cardinality(OpenPairs) \in Nat
BY ProxyAssumption, FS_Subset, FS_CardinalityType DEF OpenPairs

\* The worker as it starts, before uct_epoll_init has anything to watch.
LEMMA InitIInv == Init => IInv
<1> SUFFICES ASSUME Init PROVE IInv
  OBVIOUS
<1> USE DEF Init, Side
<1>1. TypeOK
  <2>1. /\ pair \in [Pairs -> {"accepted", "connected", "open", "closed"}]
        /\ recv \in [Side -> [Pairs -> Nat]]
        /\ peer \in [Side -> [Pairs -> {"open", "fin", "reset", "broken"}]]
    OBVIOUS
  <2>2. /\ watch \in [Side -> SUBSET Pairs] /\ ready \in [Side -> SUBSET Pairs]
        /\ batch \in [Side -> SUBSET Pairs] /\ lost \in [Side -> SUBSET Pairs]
        /\ full \in [Side -> SUBSET Pairs]
    OBVIOUS
  <2>3. /\ pc \in LoopPc /\ side \in Side /\ cur \in Pairs \cup {NoPair}
        /\ got \in 0..BufSize /\ connection_n \in Nat /\ budget \in Nat
    BY ProxyAssumption DEF LoopPc
  <2>4. killed \in BOOLEAN
    OBVIOUS
  <2> HIDE DEF Init, Side
  <2> QED  BY <2>1, <2>2, <2>3, <2>4 DEF TypeOK
<1>2. OpenCount
  <2>1. {p \in Pairs : pair[p] = "open"} = {}
    OBVIOUS
  <2> QED  BY <2>1, FS_EmptySet DEF OpenCount
<1>3. LocalsOK
  BY DEF LocalsOK, Other
<1>4. NoStaleEvent /\ NoLostEdge /\ LossExcused /\ DrainedAtEof
  BY DEF NoStaleEvent, NoLostEdge, LossExcused, DrainedAtEof
<1> QED  BY <1>1, <1>2, <1>3, <1>4 DEF IInv

\* What a peer does to its socket keeps the invariant: an arrival on a registered
\* socket is listed by epoll.
LEMMA PeerIInv == IInv /\ PeerNext => IInv'
<1> SUFFICES ASSUME IInv, NEW d \in Side, NEW p \in Pairs,
                    PeerSend(d, p) \/ PeerEnd(d, p) \/ PeerRead(d, p), UNCHANGED killed
             PROVE  IInv'
  BY DEF PeerNext
<1> USE DEF IInv
<1>0. CASE PeerRead(d, p)
  <2> USE <1>0 DEF PeerRead, loopVars
  <2>1. TypeOK' BY DEF TypeOK
  <2>2. LocalsOK' /\ OpenCount' /\ NoStaleEvent' BY DEF LocalsOK, OpenCount, NoStaleEvent
  <2>3. NoLostEdge' /\ LossExcused' /\ DrainedAtEof' BY DEF NoLostEdge, Handling, LossExcused, DrainedAtEof
  <2> QED BY <2>1, <2>2, <2>3
<1> SUFFICES ASSUME PeerSend(d, p) \/ PeerEnd(d, p) PROVE IInv'
  BY <1>0
<1>1. /\ UNCHANGED <<pair, watch, loopVars, connection_n, lost>>
      /\ Arrival(d, p)
      /\ pair[p] # "closed" /\ peer[d][p] = "open"
  BY DEF PeerSend, PeerEnd, HasSocket, TypeOK
<1>2. TypeOK'
  <2>1. CASE PeerSend(d, p)
    BY <1>1, <2>1 DEF PeerSend, Arrival, TypeOK, loopVars
  <2>2. CASE PeerEnd(d, p)
    BY <1>1, <2>2 DEF PeerEnd, Arrival, TypeOK, loopVars
  <2> QED  BY <2>1, <2>2
<1>3. LocalsOK' /\ OpenCount'
  BY <1>1 DEF LocalsOK, OpenCount, loopVars
<1>4. NoStaleEvent'
  BY <1>1, <1>2 DEF NoStaleEvent, Arrival, TypeOK, loopVars
<1>5. \A e \in Side, q \in Pairs : /\ (e # d \/ q # p) => recv'[e][q] = recv[e][q] /\ peer'[e][q] = peer[e][q]
                                   /\ peer[e][q] # "open" => peer'[e][q] = peer[e][q] /\ recv'[e][q] = recv[e][q]
  BY <1>1 DEF PeerSend, PeerEnd, TypeOK
<1>6. NoLostEdge'
  <2> SUFFICES ASSUME NEW e \in Side, NEW q \in watch[e],
                      recv'[e][q] > 0 \/ peer'[e][q] # "open"
               PROVE  Handling(e, q)'
    BY <1>1 DEF NoLostEdge
  <2>1. q \in Pairs
    BY DEF TypeOK
  <2>2. ready[e] \subseteq ready'[e]
    BY <1>1 DEF Arrival, TypeOK
  <2>3. CASE e = d /\ q = p
    BY <1>1, <2>3 DEF Arrival, TypeOK, Handling
  <2>4. CASE e # d \/ q # p
    BY <1>1, <1>5, <2>1, <2>2, <2>4 DEF NoLostEdge, Handling, loopVars
  <2> QED  BY <2>3, <2>4
<1>7. LossExcused' /\ DrainedAtEof'
  BY <1>1, <1>5 DEF LossExcused, DrainedAtEof, LocalsOK, TypeOK, Other, Side, loopVars
<1> QED  BY <1>2, <1>3, <1>4, <1>6, <1>7

\* So do the steps that take clients and register pairs.
LEMMA GetIInv == IInv /\ GetNext /\ UNCHANGED killed => IInv'
<1> SUFFICES ASSUME IInv, GetNone \/ GetPair \/ GetRefused \/ AddProxy, UNCHANGED killed PROVE IInv'
  BY DEF GetNext
<1> USE DEF IInv
<1>1. CASE GetNone
  <2> USE <1>1 DEF GetNone, netVars
  <2>1. TypeOK' /\ LocalsOK' /\ OpenCount'
    BY DEF TypeOK, LocalsOK, OpenCount, LoopPc
  <2>2. NoStaleEvent' /\ NoLostEdge' /\ LossExcused' /\ DrainedAtEof'
    BY DEF NoStaleEvent, NoLostEdge, Handling, LossExcused, DrainedAtEof
  <2> QED  BY <2>1, <2>2
<1>2. CASE GetPair
  <2> USE <1>2 DEF GetPair, netVars
  <2>1. TypeOK' /\ LocalsOK'
    BY DEF TypeOK, LocalsOK, LoopPc
  <2>2. OpenPairs' = OpenPairs
    BY DEF OpenPairs, TypeOK
  <2>3. OpenCount'
    BY <2>2 DEF OpenPairs, OpenCount
  <2>4. NoStaleEvent' /\ NoLostEdge' /\ LossExcused' /\ DrainedAtEof'
    BY <2>2 DEF NoStaleEvent, OpenPairs, NoLostEdge, Handling, LossExcused, DrainedAtEof
  <2> QED  BY <2>1, <2>3, <2>4
<1>3. CASE GetRefused
  <2> USE <1>3 DEF GetRefused, netVars, loopVars
  <2>1. TypeOK' /\ LocalsOK'
    BY DEF TypeOK, LocalsOK
  <2>2. OpenPairs' = OpenPairs
    BY DEF OpenPairs, TypeOK
  <2>3. OpenCount'
    BY <2>2 DEF OpenPairs, OpenCount
  <2>4. NoStaleEvent' /\ NoLostEdge' /\ LossExcused' /\ DrainedAtEof'
    BY <2>2 DEF NoStaleEvent, OpenPairs, NoLostEdge, Handling, LossExcused, DrainedAtEof
  <2> QED  BY <2>1, <2>3, <2>4
<1>4. CASE AddProxy
  <2> USE <1>4 DEF AddProxy
  <2>1. /\ UNCHANGED <<recv, peer, side, batch, got, lost>>
        /\ pair' = [pair EXCEPT ![cur] = "open"]
        /\ pc = "add" /\ pc' = "wait" /\ cur' = NoPair /\ connection_n' = connection_n + 1
        /\ cur \in Pairs /\ pair[cur] = "connected"
    BY DEF netVars, LocalsOK
  <2>2. PICK reg \in Registrations :
          /\ watch' = [d \in Side |-> IF d \in reg THEN watch[d] \cup {cur} ELSE watch[d]]
          /\ ready' = [d \in Side |->
                         IF d \in reg /\ (recv[d][cur] > 0 \/ peer[d][cur] # "open")
                           THEN ready[d] \cup {cur} ELSE ready[d]]
    OBVIOUS
  <2> HIDE DEF AddProxy
  <2>3. TypeOK'
    BY <1>4, <2>1, <2>2 DEF AddProxy, netVars, TypeOK, LoopPc
  <2>4. LocalsOK'
    BY <2>1 DEF LocalsOK
  <2>5. OpenPairs' = OpenPairs \cup {cur} /\ cur \notin OpenPairs
    BY <2>1 DEF OpenPairs, TypeOK
  <2>6. OpenCount'
    BY <2>1, <2>5, OpenFinite, FS_AddElement DEF OpenPairs, OpenCount
  <2>7. NoStaleEvent'
    BY <2>1, <2>2, <2>5 DEF NoStaleEvent, OpenPairs
  <2>8. NoLostEdge'
    BY <2>1, <2>2 DEF NoLostEdge, Handling
  <2>9. LossExcused' /\ DrainedAtEof'
    BY <2>1 DEF LossExcused, DrainedAtEof
  <2> QED  BY <2>3, <2>4, <2>6, <2>7, <2>8, <2>9
<1> QED  BY <1>1, <1>2, <1>3, <1>4

\* So do the steps of the loops over events: a reported event moves from epoll's
\* list to the batch and from there to the worker's hands.
LEMMA EventIInv == IInv /\ (Wait \/ NextEvent \/ EventsDone) /\ UNCHANGED killed => IInv'
<1> SUFFICES ASSUME IInv, Wait \/ NextEvent \/ EventsDone, UNCHANGED killed PROVE IInv'
  OBVIOUS
<1> USE DEF IInv
<1>1. /\ UNCHANGED <<pair, recv, peer, budget, full, watch, got, connection_n, lost>>
      /\ pc' # "close" /\ pc' # "write" /\ pc' # "add"
  BY DEF Wait, NextEvent, EventsDone, netVars
<1>2. OpenCount' /\ LossExcused' /\ DrainedAtEof'
  BY <1>1 DEF OpenCount, LossExcused, DrainedAtEof
<1>3. CASE Wait
  <2> USE <1>3 DEF Wait
  <2>1. PICK b \in SUBSET ready[side] :
          /\ batch' = [batch EXCEPT ![side] = b]
          /\ ready' = [ready EXCEPT ![side] = @ \ b]
    BY DEF Reported
  <2>2. TypeOK'
    BY <1>1, <2>1 DEF TypeOK, LoopPc
  <2>3. LocalsOK'
    BY <1>1, <2>1 DEF LocalsOK, TypeOK, Other, Side
  <2>4. NoStaleEvent'
    BY <1>1, <2>1 DEF NoStaleEvent, TypeOK
  <2>5. NoLostEdge'
    <3> SUFFICES ASSUME NEW e \in Side, NEW q \in watch[e],
                        recv[e][q] > 0 \/ peer[e][q] # "open"
                 PROVE  q \in ready'[e] \cup batch'[e]
      BY <1>1 DEF NoLostEdge, Handling
    <3>1. q \in ready[e]
      BY DEF NoLostEdge, Handling, LocalsOK
    <3> QED  BY <2>1, <3>1 DEF TypeOK
  <2> QED  BY <1>2, <2>2, <2>3, <2>4, <2>5
<1>4. CASE NextEvent
  <2> USE <1>4 DEF NextEvent
  <2>1. PICK p \in batch[side] : cur' = p /\ batch' = [batch EXCEPT ![side] = @ \ {p}]
    OBVIOUS
  <2>2. TypeOK'
    BY <1>1, <2>1 DEF TypeOK, LoopPc
  <2>3. LocalsOK'
    BY <1>1, <2>1 DEF LocalsOK, TypeOK, Other, Side
  <2>4. NoStaleEvent'
    BY <1>1, <2>1 DEF NoStaleEvent, TypeOK
  <2>5. NoLostEdge'
    BY <1>1, <2>1 DEF NoLostEdge, Handling, TypeOK
  <2> QED  BY <1>2, <2>2, <2>3, <2>4, <2>5
<1>5. CASE EventsDone
  <2> USE <1>5 DEF EventsDone
  <2>1. TypeOK' /\ LocalsOK'
    BY <1>1 DEF TypeOK, LocalsOK, LoopPc, Other, Side
  <2>2. NoStaleEvent' /\ NoLostEdge'
    BY <1>1 DEF NoStaleEvent, NoLostEdge, Handling
  <2> QED  BY <1>2, <2>1, <2>2
<1> QED  BY <1>3, <1>4, <1>5

\* So do the steps of uct_readn and uct_writen: reading goes on until nothing is
\* left, and only a peer that is gone excuses a byte that is not written.
LEMMA ReadIInv ==
    /\ IInv
    /\ ((ReadData \/ ReadAgain \/ ReadEof \/ ReadError) /\ UNCHANGED killed) \/ WriteNext
    => IInv'
<1> SUFFICES ASSUME IInv,
                    \/ (ReadData \/ ReadAgain \/ ReadEof \/ ReadError) /\ UNCHANGED killed
                    \/ WriteTaken \/ WriteFailed \/ WriteKills
             PROVE  IInv'
  BY DEF WriteNext
<1> USE DEF IInv
<1>1. /\ UNCHANGED <<pair, budget, watch, ready, side, batch, connection_n>>
      /\ pc \in {"read", "write"} /\ pc' \in {"read", "write", "close", "next"}
      /\ cur \in Pairs /\ side \in Side /\ full' \in [Side -> SUBSET Pairs] /\ killed' \in BOOLEAN
  <2>1. /\ full \in [Side -> SUBSET Pairs] /\ killed \in BOOLEAN /\ side \in Side
        /\ pc \in {"read", "write"} => cur \in Pairs
    BY DEF TypeOK, LocalsOK
  <2> HIDE DEF IInv
  <2>2. CASE ReadData /\ UNCHANGED killed
    BY <2>1, <2>2 DEF ReadData
  <2>3. CASE ReadAgain /\ UNCHANGED killed
    BY <2>1, <2>3 DEF ReadAgain, netVars
  <2>4. CASE ReadEof /\ UNCHANGED killed
    BY <2>1, <2>4 DEF ReadEof, netVars
  <2>5. CASE ReadError /\ UNCHANGED killed
    BY <2>1, <2>5 DEF ReadError
  <2>6. CASE WriteTaken
    <3>1. PICK fills \in BOOLEAN :
            full' = [full EXCEPT ![Other(side)] = IF fills THEN @ \cup {cur} ELSE @]
      BY <2>6 DEF WriteTaken
    <3>2. pc = "write" /\ cur \in Pairs
      BY <2>1, <2>6 DEF WriteTaken
    <3>3. full[Other(side)] \cup {cur} \in SUBSET Pairs
      BY <2>1, <3>2 DEF Other, Side
    <3>4. full' \in [Side -> SUBSET Pairs]
      BY <2>1, <3>1, <3>3
    <3> QED  BY <2>1, <2>6, <3>2, <3>4 DEF WriteTaken
  <2>7. CASE WriteFailed
    BY <2>1, <2>7 DEF WriteFailed
  <2>8. CASE WriteKills
    BY <2>1, <2>8 DEF WriteKills, netVars, loopVars
  <2> QED  BY <2>2, <2>3, <2>4, <2>5, <2>6, <2>7, <2>8
<1>2. OpenCount'
  BY <1>1 DEF OpenCount
<1>3. ASSUME cur' = cur,
             pc' \in {"read", "write", "close"},
             \A e \in Side, q \in Pairs : (e # side \/ q # cur) =>
                 recv'[e][q] = recv[e][q] /\ peer'[e][q] = peer[e][q]
      PROVE  NoStaleEvent' /\ NoLostEdge'
  <2>1. NoStaleEvent'
    BY <1>1, <1>3 DEF NoStaleEvent
  <2>2. NoLostEdge'
    <3> SUFFICES ASSUME NEW e \in Side, NEW q \in watch[e],
                        recv'[e][q] > 0 \/ peer'[e][q] # "open"
                 PROVE  Handling(e, q)'
      BY <1>1 DEF NoLostEdge
    <3>1. q \in Pairs
      BY DEF TypeOK
    <3>2. CASE e = side /\ q = cur
      BY <1>1, <1>3, <3>2 DEF Handling
    <3>3. CASE e # side \/ q # cur
      BY <1>1, <1>3, <3>1, <3>3 DEF NoLostEdge, Handling
    <3> QED  BY <3>2, <3>3
  <2> QED  BY <2>1, <2>2
<1>4. CASE ReadData
  <2> DEFINE room == BufSize - got
             k == Least(recv[side][cur], room)
  <2>1. /\ recv' = [recv EXCEPT ![side][cur] = @ - k]
        /\ got' = got + k
        /\ pc = "read" /\ pc' \in {"read", "write"}
        /\ UNCHANGED <<peer, cur, lost>>
    BY <1>4 DEF ReadData
  <2>2. recv[side][cur] \in Nat /\ k \in 0..room /\ recv[side][cur] - k \in Nat
    BY <1>1, ProxyAssumption DEF TypeOK, Least
  <2>3. got' \in 0..BufSize
    BY <2>1, <2>2, ProxyAssumption DEF TypeOK
  <2> HIDE DEF k
  <2>4. TypeOK'
    BY <1>1, <2>1, <2>2, <2>3 DEF TypeOK, LoopPc
  <2>5. LocalsOK'
    BY <1>1, <2>1 DEF LocalsOK
  <2>6. NoStaleEvent' /\ NoLostEdge'
    BY <1>1, <1>3, <2>1 DEF TypeOK
  <2>7. LossExcused' /\ DrainedAtEof'
    BY <2>1 DEF LossExcused, DrainedAtEof
  <2> QED  BY <1>2, <2>4, <2>5, <2>6, <2>7
<1>5. CASE ReadAgain
  <2>1. /\ UNCHANGED <<recv, peer, got, lost>>
        /\ pc = "read" /\ recv[side][cur] = 0 /\ peer[side][cur] = "open"
        /\ \/ pc' = "write" /\ cur' = cur
           \/ pc' = "next" /\ cur' = NoPair /\ ~ got > 0
    BY <1>5 DEF ReadAgain, netVars
  <2>2. TypeOK'
    BY <1>1, <2>1 DEF TypeOK, LoopPc
  <2>3. LocalsOK'
    BY <1>1, <2>1, ProxyAssumption DEF LocalsOK, TypeOK
  <2>4. NoStaleEvent' /\ NoLostEdge'
    BY <1>1, <2>1 DEF NoStaleEvent, NoLostEdge, Handling
  <2>5. LossExcused' /\ DrainedAtEof'
    BY <2>1 DEF LossExcused, DrainedAtEof
  <2> QED  BY <1>2, <2>2, <2>3, <2>4, <2>5
<1>6. CASE ReadEof
  <2>1. /\ UNCHANGED <<recv, peer, got, lost, cur>>
        /\ pc = "read" /\ recv[side][cur] = 0 /\ peer[side][cur] \in {"fin", "broken"}
        /\ \/ pc' = "write"
           \/ pc' = "close" /\ ~ got > 0
    BY <1>6 DEF ReadEof, netVars
  <2>2. TypeOK'
    BY <1>1, <2>1 DEF TypeOK, LoopPc
  <2>3. LocalsOK'
    BY <1>1, <2>1, ProxyAssumption DEF LocalsOK, TypeOK
  <2>4. NoStaleEvent' /\ NoLostEdge'
    BY <1>3, <2>1
  <2>5. LossExcused'
    BY <2>1 DEF LossExcused
  <2>6. DrainedAtEof'
    BY <1>1, <2>1, <2>3 DEF LossExcused, DrainedAtEof, LocalsOK
  <2> QED  BY <1>2, <2>2, <2>3, <2>4, <2>5, <2>6
<1>7. CASE ReadError
  <2>1. /\ UNCHANGED <<recv, cur>>
        /\ pc = "read" /\ pc' = "read" /\ got' = 0
        /\ peer' = [peer EXCEPT ![side][cur] = "broken"]
        /\ lost' = [lost EXCEPT ![side] = IF got > 0 THEN @ \cup {cur} ELSE @]
    BY <1>7 DEF ReadError
  <2>2. TypeOK'
    BY <1>1, <2>1, ProxyAssumption DEF TypeOK
  <2>3. LocalsOK'
    BY <1>1, <2>1 DEF LocalsOK
  <2>4. NoStaleEvent' /\ NoLostEdge'
    BY <1>1, <1>3, <2>1 DEF TypeOK
  <2>5. LossExcused'
    BY <1>1, <2>1 DEF LossExcused, TypeOK, Other, Side
  <2>6. DrainedAtEof'
    BY <2>1 DEF DrainedAtEof
  <2> QED  BY <1>2, <2>2, <2>3, <2>4, <2>5, <2>6
<1>8. CASE WriteTaken
  <2>1. /\ UNCHANGED <<recv, peer, cur, lost>>
        /\ pc = "write" /\ pc' \in {"read", "write"}
    BY <1>8 DEF WriteTaken
  <2>2. PICK k \in 1 .. got : got' = got - k
    BY <1>8 DEF WriteTaken
  <2>3. got' \in 0..BufSize
    BY <2>2, ProxyAssumption DEF TypeOK
  <2>4. TypeOK'
    BY <1>1, <2>1, <2>3 DEF TypeOK, LoopPc
  <2>5. LocalsOK'
    BY <1>1, <2>1 DEF LocalsOK
  <2>6. NoStaleEvent' /\ NoLostEdge'
    BY <1>3, <2>1
  <2>7. LossExcused' /\ DrainedAtEof'
    BY <2>1 DEF LossExcused, DrainedAtEof
  <2> QED  BY <1>2, <2>4, <2>5, <2>6, <2>7
<1>9. CASE WriteFailed
  <2> DEFINE o == Other(side)
  <2>1. /\ UNCHANGED <<recv, cur>>
        /\ pc = "write" /\ pc' = "read" /\ got' = 0
        /\ peer[o][cur] # "open"
        /\ peer' = peer \/ (peer[o][cur] = "reset" /\ peer' = [peer EXCEPT ![o][cur] = "broken"])
        /\ lost' = [lost EXCEPT ![side] = @ \cup {cur}]
    BY <1>9 DEF WriteFailed
  <2>2. o \in Side /\ o # side
    BY <1>1 DEF Other, Side
  <2> HIDE DEF o
  <2>3. /\ peer' \in [Side -> [Pairs -> {"open", "fin", "reset", "broken"}]]
        /\ \A e \in Side, q \in Pairs : /\ peer'[e][q] = "open" <=> peer[e][q] = "open"
                                        /\ peer[e][q] = "broken" => peer'[e][q] = "broken"
                                        /\ e # o \/ q # cur => peer'[e][q] = peer[e][q]
    <3>1. peer \in [Side -> [Pairs -> {"open", "fin", "reset", "broken"}]]
      BY DEF TypeOK
    <3> HIDE DEF IInv
    <3>2. CASE peer' = peer
      BY <3>1, <3>2
    <3>3. CASE peer[o][cur] = "reset" /\ peer' = [peer EXCEPT ![o][cur] = "broken"]
      BY <1>1, <2>2, <3>1, <3>3
    <3> QED  BY <2>1, <3>2, <3>3
  <2>4. lost' \in [Side -> SUBSET Pairs]
    <3>1. lost \in [Side -> SUBSET Pairs]
      BY DEF TypeOK
    <3>2. lost[side] \cup {cur} \in SUBSET Pairs
      BY <1>1, <3>1
    <3> HIDE DEF IInv
    <3> QED  BY <2>1, <3>1, <3>2
  <2>5. got' \in 0..BufSize
    BY <2>1, ProxyAssumption
  <2>6. TypeOK'
    BY <1>1, <2>1, <2>3, <2>4, <2>5 DEF TypeOK, LoopPc
  <2>7. LocalsOK'
    BY <1>1, <2>1 DEF LocalsOK
  <2>8. NoStaleEvent'
    BY <1>1, <2>1 DEF NoStaleEvent
  <2>9. NoLostEdge'
    <3> SUFFICES ASSUME NEW e \in Side, NEW q \in watch[e], recv[e][q] > 0 \/ peer[e][q] # "open"
                 PROVE  Handling(e, q)'
      BY <1>1, <2>1, <2>3 DEF NoLostEdge, TypeOK
    <3> QED  BY <1>1, <2>1 DEF NoLostEdge, Handling
  <2>10. LossExcused'
    <3> SUFFICES ASSUME NEW d \in Side, NEW p \in lost'[d]
                 PROVE  peer'[d][p] = "broken" \/ peer'[Other(d)][p] # "open"
      BY DEF LossExcused
    <3>0. Other(d) \in Side /\ p \in Pairs
      BY <2>4 DEF Other, Side
    <3>1. CASE p \in lost[d]
      <4>1. peer[d][p] = "broken" \/ peer[Other(d)][p] # "open"
        BY <3>1 DEF LossExcused
      <4> QED  BY <2>3, <3>0, <4>1
    <3>2. CASE p \notin lost[d]
      <4>1. d = side /\ p = cur
        BY <1>1, <2>1, <3>2 DEF TypeOK
      <4> QED  BY <2>1, <2>3, <3>0, <4>1 DEF o
    <3> QED  BY <3>1, <3>2
  <2>11. DrainedAtEof'
    BY <2>1 DEF DrainedAtEof
  <2> QED  BY <1>2, <2>6, <2>7, <2>8, <2>9, <2>10, <2>11
<1>10. CASE WriteKills
  <2>1. UNCHANGED <<recv, peer, lost, loopVars>> /\ pc = "write"
    BY <1>10 DEF WriteKills, netVars
  <2>2. TypeOK' /\ LocalsOK'
    BY <1>1, <2>1 DEF TypeOK, LocalsOK, loopVars
  <2>3. NoStaleEvent' /\ NoLostEdge' /\ LossExcused' /\ DrainedAtEof'
    BY <1>1, <2>1 DEF NoStaleEvent, NoLostEdge, Handling, LossExcused, DrainedAtEof, loopVars
  <2> QED  BY <1>2, <2>2, <2>3
<1> QED  BY <1>4, <1>5, <1>6, <1>7, <1>8, <1>9, <1>10

\* So does closing a pair: no event of it is left on either side.
LEMMA CloseIInv == IInv /\ Close /\ UNCHANGED killed => IInv'
<1> SUFFICES ASSUME IInv, Close, UNCHANGED killed PROVE IInv'
  OBVIOUS
<1> USE DEF IInv
<1>1. /\ UNCHANGED <<recv, peer, budget, side, batch, got, lost>>
      /\ pair' = [pair EXCEPT ![cur] = "closed"]
      /\ watch' = [d \in Side |-> watch[d] \ {cur}]
      /\ ready' = [d \in Side |-> ready[d] \ {cur}]
      /\ cur' = NoPair /\ pc = "close" /\ pc' = "next"
      /\ connection_n' = connection_n - 1
  BY DEF Close, netVars
<1>2. cur \in OpenPairs /\ OpenPairs' = OpenPairs \ {cur}
  BY <1>1 DEF OpenPairs, LocalsOK, NoStaleEvent, TypeOK
<1>3. \A d \in Side : cur \notin batch[d]
  BY <1>1 DEF LocalsOK, TypeOK, Other, Side
<1>4. Cardinality(OpenPairs') = connection_n - 1
  BY <1>2, OpenFinite, FS_RemoveElement DEF OpenCount, OpenPairs
<1>5. OpenCount' /\ connection_n' \in Nat
  <2>1. IsFiniteSet(OpenPairs')
    BY <1>2, OpenFinite, FS_Subset
  <2> QED  BY <1>1, <1>4, <2>1, FS_CardinalityType DEF OpenCount, OpenPairs
<1>6. TypeOK'
  <2>1. full' \in [Side -> SUBSET Pairs]
    BY DEF Close, TypeOK
  <2> QED  BY <1>1, <1>5, <2>1 DEF TypeOK, LoopPc
<1>7. LocalsOK'
  BY <1>1 DEF LocalsOK
<1>8. NoStaleEvent'
  BY <1>1, <1>2, <1>3 DEF NoStaleEvent, OpenPairs
<1>9. NoLostEdge'
  BY <1>1 DEF NoLostEdge, Handling
<1>10. LossExcused' /\ DrainedAtEof'
  BY <1>1 DEF LossExcused, DrainedAtEof
<1> QED  BY <1>5, <1>6, <1>7, <1>8, <1>9, <1>10

\* Every behaviour of the worker and its peers keeps the invariant.
THEOREM LoopInvariant == Spec => []IInv
<1>1. IInv /\ [Next]_proxyVars => IInv'
  <2> SUFFICES ASSUME IInv, [Next]_proxyVars PROVE IInv'
    OBVIOUS
  <2>2. CASE UNCHANGED proxyVars
    BY <2>2 DEF proxyVars, netVars, loopVars, IInv, TypeOK, LocalsOK, NoStaleEvent, NoLostEdge,
                Handling, OpenCount, LossExcused, DrainedAtEof
  <2>1. CASE Next
    <3>1. CASE WorkerNext
      BY <3>1, GetIInv, EventIInv, ReadIInv, CloseIInv DEF WorkerNext, ReadNext
    <3>2. CASE PeerNext
      BY <3>2, PeerIInv
    <3>3. CASE UNCHANGED proxyVars
      BY <2>2, <3>3
    <3> QED  BY <2>1, <3>1, <3>2, <3>3 DEF Next, Dead
  <2> QED  BY <2>1, <2>2
<1> QED  BY <1>1, InitIInv, PTL DEF Spec

\* uct_epoll_process_events never forgets an edge: a registered socket with
\* something to read is listed, reported or being read.
THEOREM LoopNoLostEdge == Spec => []NoLostEdge
BY LoopInvariant, PTL DEF IInv

\* The variables of the event loop keep their types; connection_n in particular
\* is never taken below 0.
THEOREM LoopTypeOK == Spec => []TypeOK
BY LoopInvariant, PTL DEF IInv

\* No event refers to a pair that uct_epoll_process_events has freed.
THEOREM LoopNoStaleEvent == Spec => []NoStaleEvent
BY LoopInvariant, PTL DEF IInv

\* A pair is closed at an end of file, with everything read before it delivered
\* unless a peer is gone.
THEOREM LoopDrainedAtEof == Spec => []DrainedAtEof
BY LoopInvariant, PTL DEF IInv

\* wk_cycle->connection_n is the number of open pairs, and never wraps below 0.
THEOREM LoopOpenCount == Spec => [](OpenCount /\ connection_n \in Nat)
<1>1. IInv => OpenCount /\ connection_n \in Nat
  BY DEF IInv, TypeOK
<1> QED  BY <1>1, LoopInvariant, PTL
=============================================================================
