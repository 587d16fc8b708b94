------------------------ MODULE ListeningPoolProofs ------------------------
(***************************************************************************)
(* What the listening pool guarantees for any number of workers and        *)
(* connections.  The inductive invariant is TypeOK, mutual exclusion of    *)
(* the spin lock, the accounting of the semaphore and what the threads'    *)
(* locals hold; that a worker never pops the sentinel follows from the     *)
(* accounting.                                                             *)
(***************************************************************************)
EXTENDS ListeningPool, FiniteSetTheorems, SequenceTheorems, TLAPS

\* The locals conn and cli_conn hold a live node exactly where they are used.
LocalsOK ==
    /\ IF mpc = "accept" THEN mconn = NoConn ELSE mconn \in Conns
    /\ \A w \in Workers : IF wpc[w] \in {"unlock", "serve"} THEN wconn[w] \in Conns
                                                           ELSE wconn[w] = NoConn
    /\ \A w \in Workers : served[w] \subseteq Conns

IInv == TypeOK /\ MutualExclusion /\ Accounting /\ LocalsOK

-----------------------------------------------------------------------------
(* The workers that have reserved an item, as a worker joins or leaves them. *)

\* The workers that have reserved a node can be counted.
LEMMA ReservedFinite == IsFiniteSet(Reserved) /\ Cardinality(Reserved) \in Nat
<1>1. Reserved \subseteq Workers
  BY DEF Reserved
<1>2. IsFiniteSet(Reserved)
  BY <1>1, FS_Subset, PoolAssumption
<1> QED  BY <1>2, FS_CardinalityType

\* A worker that begins to wait for its node raises the count by one.
LEMMA ReservedGrows ==
    ASSUME NEW w \in Workers, wpc \in [Workers -> WorkerPc], wpc[w] = "get",
           wpc' = [wpc EXCEPT ![w] = "lock"]
    PROVE  Cardinality(Reserved') = Cardinality(Reserved) + 1
<1>1. w \notin Reserved
  BY DEF Reserved
<1>2. Reserved' = Reserved \cup {w}
  BY DEF Reserved
<1> QED  BY <1>1, <1>2, ReservedFinite, FS_AddElement

\* A worker that has removed its node lowers it by one.
LEMMA ReservedShrinks ==
    ASSUME NEW w \in Workers, wpc \in [Workers -> WorkerPc], wpc[w] = "pop",
           wpc' = [wpc EXCEPT ![w] = "unlock"]
    PROVE  Cardinality(Reserved') = Cardinality(Reserved) - 1
<1>1. w \in Reserved
  BY DEF Reserved
<1>2. Reserved' = Reserved \ {w}
  BY DEF Reserved
<1> QED  BY <1>1, <1>2, ReservedFinite, FS_RemoveElement

\* Any other step of a worker leaves it alone.
LEMMA ReservedSame ==
    ASSUME NEW w \in Workers, NEW pc, wpc \in [Workers -> WorkerPc],
           (wpc[w] \in {"lock", "pop"}) <=> (pc \in {"lock", "pop"}),
           wpc' = [wpc EXCEPT ![w] = pc]
    PROVE  Reserved' = Reserved
BY DEF Reserved

\* While a worker is about to remove a node, there is one: the semaphore counts
\* at most the nodes in the list that no other worker has reserved.
LEMMA PopNonEmpty ==
    ASSUME TypeOK, Accounting, NEW w \in Workers, wpc[w] = "pop"
    PROVE  Len(queue) > 0
<1>1. w \in Reserved
  BY DEF Reserved
<1>2. Cardinality(Reserved) # 0
  BY <1>1, ReservedFinite, FS_EmptySet
<1>3. Unposted \in {0, 1}
  BY DEF Unposted
<1> QED  BY <1>2, <1>3, ReservedFinite DEF Accounting, TypeOK

-----------------------------------------------------------------------------

\* The pool as uct_listening_pool_init leaves it.
LEMMA InitIInv == Init => IInv
<1> SUFFICES ASSUME Init PROVE IInv
  OBVIOUS
<1> USE DEF Init
<1>1. TypeOK
  BY DEF TypeOK, MasterPc, WorkerPc
<1>2. MutualExclusion
  BY PoolAssumption DEF MutualExclusion
<1>3. Reserved = {}
  BY DEF Reserved
<1>4. Accounting
  BY <1>3, FS_EmptySet DEF Accounting, Unposted
<1>5. LocalsOK
  BY DEF LocalsOK
<1> QED  BY <1>1, <1>2, <1>4, <1>5 DEF IInv

\* The master's steps keep the invariant.
LEMMA MasterIInv == IInv /\ MasterNext => IInv'
<1> SUFFICES ASSUME IInv, MasterNext PROVE IInv'
  OBVIOUS
<1> USE DEF IInv
<1>a. Reserved' = Reserved
  BY DEF MasterNext, Accept, AddLock, AddInsert, AddUnlock, AddPost, Reserved
<1>b. items \in Nat /\ Len(queue) \in Nat /\ Cardinality(Reserved) \in Nat
  BY ReservedFinite DEF TypeOK
<1>1. CASE Accept
  <2>1. TypeOK'
    BY <1>1 DEF Accept, TypeOK, MasterPc
  <2>2. MutualExclusion'
    BY <1>1 DEF Accept, MutualExclusion
  <2>3. Accounting'
    BY <1>1, <1>a DEF Accept, Accounting, Unposted
  <2>4. LocalsOK'
    BY <1>1 DEF Accept, LocalsOK, TypeOK
  <2> QED  BY <2>1, <2>2, <2>3, <2>4
<1>2. CASE AddLock
  <2>1. TypeOK'
    BY <1>2 DEF AddLock, TypeOK, MasterPc, Threads
  <2>2. MutualExclusion'
    BY <1>2, PoolAssumption DEF AddLock, MutualExclusion
  <2>3. Accounting'
    BY <1>2, <1>a DEF AddLock, Accounting, Unposted
  <2>4. LocalsOK'
    BY <1>2 DEF AddLock, LocalsOK
  <2> QED  BY <2>1, <2>2, <2>3, <2>4
<1>3. CASE AddInsert
  <2>1. mconn \in Conns
    BY <1>3 DEF AddInsert, LocalsOK
  <2>2. queue' \in Seq(Conns) /\ Len(queue') = Len(queue) + 1
    BY <1>3, <2>1 DEF AddInsert, TypeOK
  <2>3. TypeOK'
    BY <1>3, <2>2 DEF AddInsert, TypeOK, MasterPc
  <2>4. MutualExclusion'
    BY <1>3 DEF AddInsert, MutualExclusion
  <2>5. Accounting'
    BY <1>3, <1>a, <1>b, <2>2 DEF AddInsert, Accounting, Unposted
  <2>6. LocalsOK'
    BY <1>3 DEF AddInsert, LocalsOK
  <2> QED  BY <2>3, <2>4, <2>5, <2>6
<1>4. CASE AddUnlock
  <2>1. TypeOK'
    BY <1>4 DEF AddUnlock, TypeOK, MasterPc
  <2>2. MutualExclusion'
    BY <1>4, PoolAssumption DEF AddUnlock, MutualExclusion
  <2>3. Accounting'
    BY <1>4, <1>a DEF AddUnlock, Accounting, Unposted
  <2>4. LocalsOK'
    BY <1>4 DEF AddUnlock, LocalsOK
  <2> QED  BY <2>1, <2>2, <2>3, <2>4
<1>5. CASE AddPost
  <2>1. TypeOK'
    BY <1>5 DEF AddPost, TypeOK, MasterPc
  <2>2. MutualExclusion'
    BY <1>5 DEF AddPost, MutualExclusion
  <2>3. Accounting'
    BY <1>5, <1>a, <1>b DEF AddPost, Accounting, Unposted
  <2>4. LocalsOK'
    BY <1>5 DEF AddPost, LocalsOK
  <2> QED  BY <2>1, <2>2, <2>3, <2>4
<1> QED  BY <1>1, <1>2, <1>3, <1>4, <1>5 DEF MasterNext

\* A worker's steps keep the invariant.
LEMMA WorkerIInv == ASSUME NEW w \in Workers PROVE IInv /\ WorkerNext(w) => IInv'
<1> SUFFICES ASSUME IInv, WorkerNext(w) PROVE IInv'
  OBVIOUS
<1> USE DEF IInv
<1>a. /\ items \in Nat /\ Len(queue) \in Nat /\ Cardinality(Reserved) \in Nat
      /\ wpc \in [Workers -> WorkerPc]
  BY ReservedFinite DEF TypeOK
<1>1. CASE GetReserve(w)
  <2>1. TypeOK'
    BY <1>1 DEF GetReserve, TypeOK, WorkerPc
  <2>2. MutualExclusion'
    BY <1>1, <1>a DEF GetReserve, MutualExclusion
  <2>3. Cardinality(Reserved') = Cardinality(Reserved) + 1
    BY <1>1, <1>a, ReservedGrows DEF GetReserve
  <2>4. Accounting'
    BY <1>1, <1>a, <2>3 DEF GetReserve, Accounting, Unposted
  <2>5. LocalsOK'
    BY <1>1, <1>a DEF GetReserve, LocalsOK, TypeOK
  <2> QED  BY <2>1, <2>2, <2>4, <2>5
<1>2. CASE GetDeclined(w)
  <2>1. TypeOK'
    BY <1>2 DEF GetDeclined, TypeOK, WorkerPc
  <2>2. MutualExclusion'
    BY <1>2, <1>a DEF GetDeclined, MutualExclusion
  <2>3. Reserved' = Reserved
    BY <1>2, <1>a, ReservedSame DEF GetDeclined
  <2>4. Accounting'
    BY <1>2, <2>3 DEF GetDeclined, Accounting, Unposted
  <2>5. LocalsOK'
    BY <1>2, <1>a DEF GetDeclined, LocalsOK, TypeOK
  <2> QED  BY <2>1, <2>2, <2>4, <2>5
<1>3. CASE GetLock(w)
  <2>1. TypeOK'
    BY <1>3 DEF GetLock, TypeOK, WorkerPc, Threads
  <2>2. MutualExclusion'
    BY <1>3, <1>a, PoolAssumption DEF GetLock, MutualExclusion
  <2>3. Reserved' = Reserved
    BY <1>3, <1>a, ReservedSame DEF GetLock
  <2>4. Accounting'
    BY <1>3, <2>3 DEF GetLock, Accounting, Unposted
  <2>5. LocalsOK'
    BY <1>3, <1>a DEF GetLock, LocalsOK, TypeOK
  <2> QED  BY <2>1, <2>2, <2>4, <2>5
<1>4. CASE GetPop(w)
  <2>1. Len(queue) > 0 /\ queue # <<>>
    BY <1>4, PopNonEmpty DEF GetPop, TypeOK
  <2>2. /\ wconn' = [wconn EXCEPT ![w] = queue[Len(queue)]] /\ queue[Len(queue)] \in Conns
        /\ queue' \in Seq(Conns) /\ Len(queue') = Len(queue) - 1
    BY <1>4, <2>1 DEF GetPop, TypeOK
  <2>3. TypeOK'
    BY <1>4, <2>2 DEF GetPop, TypeOK, WorkerPc
  <2>4. MutualExclusion'
    BY <1>4, <1>a DEF GetPop, MutualExclusion
  <2>5. Cardinality(Reserved') = Cardinality(Reserved) - 1
    BY <1>4, <1>a, ReservedShrinks DEF GetPop
  <2>6. Accounting'
    <3>1. items' = items /\ Unposted' = Unposted /\ Unposted \in {0, 1}
      BY <1>4 DEF GetPop, Unposted
    <3> QED  BY <1>a, <2>2, <2>5, <3>1 DEF Accounting
  <2>7. LocalsOK'
    BY <1>4, <1>a, <2>2 DEF GetPop, LocalsOK, TypeOK
  <2> QED  BY <2>3, <2>4, <2>6, <2>7
<1>5. CASE GetUnlock(w)
  <2>1. TypeOK'
    BY <1>5 DEF GetUnlock, TypeOK, WorkerPc
  <2>2. MutualExclusion'
    BY <1>5, <1>a, PoolAssumption DEF GetUnlock, MutualExclusion
  <2>3. Reserved' = Reserved
    BY <1>5, <1>a, ReservedSame DEF GetUnlock
  <2>4. Accounting'
    BY <1>5, <2>3 DEF GetUnlock, Accounting, Unposted
  <2>5. LocalsOK'
    BY <1>5, <1>a DEF GetUnlock, LocalsOK, TypeOK
  <2> QED  BY <2>1, <2>2, <2>4, <2>5
<1>6. CASE ServeProxy(w)
  <2>1. TypeOK'
    BY <1>6 DEF ServeProxy, TypeOK, WorkerPc, LocalsOK
  <2>2. MutualExclusion'
    BY <1>6, <1>a DEF ServeProxy, MutualExclusion
  <2>3. Reserved' = Reserved
    BY <1>6, <1>a, ReservedSame DEF ServeProxy
  <2>4. Accounting'
    BY <1>6, <2>3 DEF ServeProxy, Accounting, Unposted
  <2>5. LocalsOK'
    BY <1>6, <1>a DEF ServeProxy, LocalsOK, TypeOK
  <2> QED  BY <2>1, <2>2, <2>4, <2>5
<1>7. CASE ServeRefuse(w)
  <2>1. TypeOK'
    BY <1>7 DEF ServeRefuse, TypeOK, WorkerPc, LocalsOK
  <2>2. MutualExclusion'
    BY <1>7, <1>a DEF ServeRefuse, MutualExclusion
  <2>3. Reserved' = Reserved
    BY <1>7, <1>a, ReservedSame DEF ServeRefuse
  <2>4. Accounting'
    BY <1>7, <2>3 DEF ServeRefuse, Accounting, Unposted
  <2>5. LocalsOK'
    BY <1>7, <1>a DEF ServeRefuse, LocalsOK, TypeOK
  <2> QED  BY <2>1, <2>2, <2>4, <2>5
<1>8. CASE EventsDone(w)
  <2>1. TypeOK'
    BY <1>8 DEF EventsDone, TypeOK, WorkerPc
  <2>2. MutualExclusion'
    BY <1>8, <1>a DEF EventsDone, MutualExclusion
  <2>3. Reserved' = Reserved
    BY <1>8, <1>a, ReservedSame DEF EventsDone
  <2>4. Accounting'
    BY <1>8, <2>3 DEF EventsDone, Accounting, Unposted
  <2>5. LocalsOK'
    BY <1>8, <1>a DEF EventsDone, LocalsOK, TypeOK
  <2> QED  BY <2>1, <2>2, <2>4, <2>5
<1>9. CASE EventsClose(w)
  <2>1. TypeOK'
    BY <1>9 DEF EventsClose, TypeOK, LocalsOK
  <2>2. MutualExclusion'
    BY <1>9 DEF EventsClose, MutualExclusion
  <2>3. Reserved' = Reserved
    BY <1>9 DEF EventsClose, Reserved
  <2>4. Accounting'
    BY <1>9, <2>3 DEF EventsClose, Accounting, Unposted
  <2>5. LocalsOK'
    BY <1>9 DEF EventsClose, LocalsOK, TypeOK
  <2> QED  BY <2>1, <2>2, <2>4, <2>5
<1> QED
  BY <1>1, <1>2, <1>3, <1>4, <1>5, <1>6, <1>7, <1>8, <1>9 DEF WorkerNext

\* The inductive step.
LEMMA NextIInv == IInv /\ [Next]_poolVars => IInv'
<1>1. ASSUME IInv, UNCHANGED poolVars PROVE IInv'
  <2>1. Reserved' = Reserved /\ Unposted' = Unposted
    BY <1>1 DEF poolVars, Reserved, Unposted
  <2> QED
    BY <1>1, <2>1 DEF poolVars, IInv, TypeOK, MutualExclusion, Accounting, LocalsOK
<1> QED  BY <1>1, MasterIInv, WorkerIInv DEF Next

\* In every reachable state of the pool the invariant holds.
THEOREM PoolInvariant == Spec => []IInv
BY InitIInv, NextIInv, PTL DEF Spec

\* The variables of the hand-off keep their types: in particular the semaphore
\* never goes below zero and what is freed is a connection.
THEOREM PoolTypeOK == Spec => []TypeOK
<1>1. IInv => TypeOK
  BY DEF IInv
<1> QED  BY <1>1, PoolInvariant, PTL

\* At most one thread is between pthread_spin_lock and pthread_spin_unlock of
\* lpool->mutex.
THEOREM PoolMutualExclusion == Spec => []MutualExclusion
<1>1. IInv => MutualExclusion
  BY DEF IInv
<1> QED  BY <1>1, PoolInvariant, PTL

\* The semaphore, the reservations and the list always agree.
THEOREM PoolAccounting == Spec => []Accounting
<1>1. IInv => Accounting
  BY DEF IInv
<1> QED  BY <1>1, PoolInvariant, PTL

\* For any number of workers, uct_listening_pool_get never takes the list head
\* for a connection.
THEOREM PoolNeverSentinel == Spec => []NeverSentinel
<1>1. IInv => NeverSentinel
  BY PoolAssumption DEF IInv, LocalsOK, NeverSentinel
<1> QED  BY <1>1, PoolInvariant, PTL

-----------------------------------------------------------------------------
(* Every connection is in one place. *)

\* Linking a node that is not in the list adds that node and no duplicate.
LEMMA InsertSet ==
    ASSUME queue \in Seq(Conns), mconn \in Conns, mconn \notin QueueSet,
           \A k, l \in 1..Len(queue) : queue[k] = queue[l] => k = l,
           queue' = <<mconn>> \o queue
    PROVE  /\ QueueSet' = QueueSet \cup {mconn}
           /\ (\A k, l \in 1..Len(queue) : queue[k] = queue[l] => k = l)'
<1>1. /\ Len(queue') = Len(queue) + 1 /\ queue'[1] = mconn
      /\ \A k \in 2..Len(queue)+1 : queue'[k] = queue[k-1]
      /\ Len(queue) \in Nat
  OBVIOUS
<1>2. ASSUME NEW c \in QueueSet' PROVE c \in QueueSet \cup {mconn}
  BY <1>1, <1>2 DEF QueueSet
<1>3. ASSUME NEW c \in QueueSet PROVE c \in QueueSet'
  <2>1. PICK k \in 1..Len(queue) : c = queue[k]
    BY DEF QueueSet
  <2>2. k+1 \in 1..Len(queue') /\ queue'[k+1] = c
    BY <1>1, <2>1
  <2> QED  BY <2>2 DEF QueueSet
<1>4. mconn \in QueueSet'
  BY <1>1 DEF QueueSet
<1>5. ASSUME NEW k \in 1..Len(queue'), NEW l \in 1..Len(queue'), queue'[k] = queue'[l]
      PROVE  k = l
  <2>1. \A j \in 2..Len(queue)+1 : queue'[j] # mconn
    BY <1>1 DEF QueueSet
  <2>2. CASE k = 1 \/ l = 1
    BY <1>1, <1>5, <2>1, <2>2
  <2>3. CASE k # 1 /\ l # 1
    <3>1. k-1 \in 1..Len(queue) /\ l-1 \in 1..Len(queue) /\ queue[k-1] = queue[l-1]
      BY <1>1, <1>5, <2>3
    <3> QED  BY <3>1
  <2> QED  BY <2>2, <2>3
<1> QED  BY <1>2, <1>3, <1>4, <1>5

\* The list without its last node.
LEMMA LastRemoved ==
    ASSUME queue \in Seq(Conns), Len(queue) > 0,
           queue' = SubSeq(queue, 1, Len(queue) - 1)
    PROVE  /\ Len(queue) \in Nat /\ Len(queue') = Len(queue) - 1
           /\ \A k \in 1..Len(queue)-1 : queue'[k] = queue[k]
<1> DEFINE n == Len(queue) - 1
<1>1. Len(queue) \in Nat /\ n \in Nat /\ n \in Int /\ 1 \in Int
  OBVIOUS
<1>2. \A k \in 1..n : queue[k] \in Conns
  OBVIOUS
<1>3. /\ Len(SubSeq(queue, 1, n)) = IF 1 <= n THEN n-1+1 ELSE 0
      /\ \A k \in 1..n-1+1 : SubSeq(queue, 1, n)[k] = queue[1+k-1]
  BY <1>1, <1>2, SubSeqProperties
<1>4. queue' = SubSeq(queue, 1, n)
  OBVIOUS
<1> HIDE DEF n
<1>5. Len(queue') = n /\ \A k \in 1..n : queue'[k] = queue[k]
  BY <1>1, <1>3, <1>4
<1> QED  BY <1>1, <1>5 DEF n

\* Unlinking the last node takes that node out of the list.
LEMMA PopSet ==
    ASSUME queue \in Seq(Conns), Len(queue) > 0,
           \A k, l \in 1..Len(queue) : queue[k] = queue[l] => k = l,
           queue' = SubSeq(queue, 1, Len(queue) - 1)
    PROVE  /\ QueueSet' = QueueSet \ {queue[Len(queue)]}
           /\ queue[Len(queue)] \in QueueSet
           /\ (\A k, l \in 1..Len(queue) : queue[k] = queue[l] => k = l)'
<1>1. /\ Len(queue) \in Nat /\ Len(queue') = Len(queue) - 1
      /\ \A k \in 1..Len(queue)-1 : queue'[k] = queue[k]
  BY LastRemoved
<1>2. ASSUME NEW c \in QueueSet' PROVE c \in QueueSet \ {queue[Len(queue)]}
  <2>1. PICK k \in 1..Len(queue') : c = queue'[k]
    BY DEF QueueSet
  <2>2. k \in 1..Len(queue) /\ c = queue[k] /\ k # Len(queue)
    BY <1>1, <2>1
  <2> QED  BY <1>1, <2>2 DEF QueueSet
<1>3. ASSUME NEW c \in QueueSet, c # queue[Len(queue)] PROVE c \in QueueSet'
  <2>1. PICK k \in 1..Len(queue) : c = queue[k]
    BY DEF QueueSet
  <2>2. k \in 1..Len(queue') /\ c = queue'[k]
    BY <1>1, <1>3, <2>1
  <2> QED  BY <2>2 DEF QueueSet
<1>4. queue[Len(queue)] \in QueueSet
  BY <1>1 DEF QueueSet
<1>5. (\A k, l \in 1..Len(queue) : queue[k] = queue[l] => k = l)'
  BY <1>1
<1> QED  BY <1>2, <1>3, <1>4, <1>5

\* The invariant of every step that only moves program counters and locks.
LEMMA OnePlaceStutter ==
    ASSUME OnePlace, QueueSet' = QueueSet, queue' = queue, free' = free,
           MasterHas' = MasterHas, wconn' = wconn, served' = served
    PROVE  OnePlace'
<1>1. \A w \in Workers : WorkerHas(w)' = WorkerHas(w)
  BY DEF WorkerHas
<1> QED  BY <1>1 DEF OnePlace

\* No step of the master puts a connection in two places or loses it.
LEMMA MasterOnePlace == IInv /\ OnePlace /\ MasterNext => OnePlace'
<1> SUFFICES ASSUME IInv, OnePlace, MasterNext PROVE OnePlace'
  OBVIOUS
<1>a. CASE Accept \/ AddInsert
  <2>1. \A w \in Workers : WorkerHas(w)' = WorkerHas(w)
    BY <1>a DEF Accept, AddInsert, WorkerHas
  <2>2. wconn' = wconn /\ served' = served
    BY <1>a DEF Accept, AddInsert
  <2>3. CASE Accept
    <3>1. QueueSet' = QueueSet /\ queue' = queue
      BY <2>3 DEF Accept, QueueSet
    <3>2. PICK c \in free : mconn' = c /\ free' = free \ {c}
      BY <2>3 DEF Accept
    <3>3. MasterHas' = {c} /\ MasterHas = {}
      BY <2>3, <3>2 DEF Accept, MasterHas
    <3> QED  BY <2>1, <2>2, <3>1, <3>2, <3>3 DEF OnePlace
  <2>4. CASE AddInsert
    <3>1. MasterHas = {mconn} /\ MasterHas' = {} /\ free' = free
      BY <2>4 DEF AddInsert, MasterHas
    <3>2. queue \in Seq(Conns) /\ mconn \in Conns
      BY <2>4 DEF AddInsert, IInv, TypeOK, LocalsOK
    <3>3. mconn \notin QueueSet
      BY <3>1 DEF OnePlace
    <3>4. /\ QueueSet' = QueueSet \cup {mconn}
          /\ (\A k, l \in 1..Len(queue) : queue[k] = queue[l] => k = l)'
      BY <2>4, <3>2, <3>3, InsertSet DEF OnePlace, AddInsert
    <3> QED  BY <2>1, <2>2, <3>1, <3>4 DEF OnePlace
  <2> QED  BY <1>a, <2>3, <2>4
<1>b. CASE AddLock \/ AddUnlock \/ AddPost
  <2>1. /\ QueueSet' = QueueSet /\ queue' = queue /\ free' = free
        /\ wconn' = wconn /\ served' = served
    BY <1>b DEF AddLock, AddUnlock, AddPost, QueueSet
  <2>2. MasterHas' = MasterHas
    BY <1>b DEF AddLock, AddUnlock, AddPost, MasterHas
  <2> QED  BY <2>1, <2>2, OnePlaceStutter
<1> QED  BY <1>a, <1>b DEF MasterNext

\* Nor does any step of a worker.
LEMMA WorkerOnePlace ==
    ASSUME NEW w \in Workers PROVE IInv /\ OnePlace /\ WorkerNext(w) => OnePlace'
<1> SUFFICES ASSUME IInv, OnePlace, WorkerNext(w) PROVE OnePlace'
  OBVIOUS
<1>m. MasterHas' = MasterHas
  BY DEF WorkerNext, GetReserve, GetDeclined, GetLock, GetPop, GetUnlock, ServeProxy,
         ServeRefuse, EventsClose, EventsDone, MasterHas
<1>t. /\ wconn \in [Workers -> Conns \cup {NoConn, Sentinel}]
      /\ served \in [Workers -> SUBSET (Conns \cup {Sentinel})]
  BY DEF IInv, TypeOK
<1>1. CASE GetReserve(w) \/ GetDeclined(w) \/ GetLock(w) \/ GetUnlock(w) \/ EventsDone(w)
  <2>1. /\ QueueSet' = QueueSet /\ queue' = queue /\ free' = free
        /\ wconn' = wconn /\ served' = served
    BY <1>1 DEF GetReserve, GetDeclined, GetLock, GetUnlock, EventsDone, QueueSet
  <2> QED  BY <1>m, <2>1, OnePlaceStutter
<1>2. CASE GetPop(w)
  <2> DEFINE c == queue[Len(queue)]
  <2>1. Len(queue) > 0 /\ queue # <<>> /\ queue \in Seq(Conns) /\ c \in Conns
    BY <1>2, PopNonEmpty DEF GetPop, IInv, TypeOK
  <2>2. /\ wconn' = [wconn EXCEPT ![w] = c] /\ queue' = SubSeq(queue, 1, Len(queue) - 1)
        /\ free' = free /\ served' = served
    BY <1>2, <2>1 DEF GetPop
  <2>3. /\ QueueSet' = QueueSet \ {c} /\ c \in QueueSet
        /\ (\A k, l \in 1..Len(queue) : queue[k] = queue[l] => k = l)'
    BY <2>1, <2>2, PopSet DEF OnePlace
  <2>4. wconn[w] = NoConn /\ c # NoConn
    BY <1>2, <2>1, PoolAssumption DEF GetPop, IInv, LocalsOK
  <2> HIDE DEF c
  <2>5. /\ WorkerHas(w)' = WorkerHas(w) \cup {c}
        /\ \A v \in Workers : v # w => WorkerHas(v)' = WorkerHas(v)
    BY <1>t, <2>2, <2>4 DEF WorkerHas
  <2>6. c \notin served[w] /\ \A v \in Workers : c \notin WorkerHas(v)
    BY <2>3 DEF OnePlace, WorkerHas
  <2>7. \A v \in Workers : (wconn[v] \notin served[v])'
    BY <1>t, <2>2, <2>6 DEF OnePlace
  <2> QED  BY <1>m, <2>2, <2>3, <2>5, <2>6, <2>7 DEF OnePlace
<1>3. CASE ServeProxy(w)
  <2>1. QueueSet' = QueueSet /\ queue' = queue /\ free' = free
    BY <1>3 DEF ServeProxy, QueueSet
  <2>2. wconn[w] \in Conns
    BY <1>3 DEF ServeProxy, IInv, LocalsOK
  <2>3. \A v \in Workers : WorkerHas(v)' = WorkerHas(v)
    BY <1>3, <1>t, <2>2, PoolAssumption DEF ServeProxy, WorkerHas
  <2>4. \A v \in Workers : NoConn \notin served[v]
    BY <1>t, PoolAssumption
  <2>5. \A v \in Workers : (wconn[v] \notin served[v])'
    BY <1>3, <1>t, <2>2, <2>4, PoolAssumption DEF OnePlace, ServeProxy
  <2> QED  BY <1>m, <2>1, <2>3, <2>5 DEF OnePlace
<1>4. CASE ServeRefuse(w)
  <2>1. QueueSet' = QueueSet /\ queue' = queue /\ served' = served
        /\ free' = free \cup {wconn[w]}
    BY <1>4 DEF ServeRefuse, QueueSet
  <2>2. wconn[w] \in Conns
    BY <1>4 DEF ServeRefuse, IInv, LocalsOK
  <2>3. /\ WorkerHas(w)' = WorkerHas(w) \ {wconn[w]}
        /\ \A v \in Workers : v # w => WorkerHas(v)' = WorkerHas(v)
    BY <1>4, <1>t, <2>2, PoolAssumption DEF ServeRefuse, WorkerHas, OnePlace
  <2>4. wconn[w] \in WorkerHas(w)
    BY <2>2, PoolAssumption DEF WorkerHas
  <2>5. \A v \in Workers : (wconn[v] \notin served[v])'
    BY <1>4, <1>t, PoolAssumption DEF OnePlace, ServeRefuse
  <2> QED  BY <1>m, <2>1, <2>3, <2>4, <2>5 DEF OnePlace
<1>5. CASE EventsClose(w)
  <2>1. PICK c \in served[w] : /\ served' = [served EXCEPT ![w] = @ \ {c}]
                               /\ free' = free \cup {c}
    BY <1>5 DEF EventsClose
  <2>2. QueueSet' = QueueSet /\ queue' = queue /\ wconn' = wconn
    BY <1>5 DEF EventsClose, QueueSet
  <2>3. c \in WorkerHas(w) /\ c # wconn[w]
    BY <2>1 DEF WorkerHas, OnePlace
  <2>4. /\ WorkerHas(w)' = WorkerHas(w) \ {c}
        /\ \A v \in Workers : v # w => WorkerHas(v)' = WorkerHas(v)
    BY <1>t, <2>1, <2>2, <2>3 DEF WorkerHas
  <2>5. \A v \in Workers : (wconn[v] \notin served[v])'
    BY <1>t, <2>1, <2>2 DEF OnePlace
  <2> QED  BY <1>m, <2>1, <2>2, <2>3, <2>4, <2>5 DEF OnePlace
<1> QED  BY <1>1, <1>2, <1>3, <1>4, <1>5 DEF WorkerNext

\* All connections are free at the start.
LEMMA InitOnePlace == Init => OnePlace
BY PoolAssumption DEF Init, OnePlace, QueueSet, MasterHas, WorkerHas

\* No step puts a connection in a second place or in none.
LEMMA NextOnePlace == IInv /\ OnePlace /\ [Next]_poolVars => OnePlace'
<1>1. ASSUME OnePlace, UNCHANGED poolVars PROVE OnePlace'
  <2>1. /\ QueueSet' = QueueSet /\ queue' = queue /\ free' = free
        /\ MasterHas' = MasterHas /\ wconn' = wconn /\ served' = served
    BY <1>1 DEF poolVars, QueueSet, MasterHas
  <2> QED  BY <1>1, <2>1, OnePlaceStutter
<1> QED  BY <1>1, MasterOnePlace, WorkerOnePlace DEF Next

\* Every accepted connection is, at every moment, in exactly one place: free,
\* with the master, once in the list, or with one worker.
THEOREM PoolOnePlace == Spec => []OnePlace
BY InitOnePlace, NextOnePlace, PoolInvariant, PTL DEF Spec

-----------------------------------------------------------------------------
(* The pool implements the FIFO hand-off of AcceptQueue. *)

\* Seen oldest first, linking a node after the head appends it.
LEMMA OldestInsert ==
    ASSUME queue \in Seq(Conns), mconn \in Conns, queue' = <<mconn>> \o queue
    PROVE  Oldest' = Append(Oldest, mconn)
<1>1. /\ Len(queue) \in Nat /\ Len(queue') = Len(queue) + 1 /\ queue'[1] = mconn
      /\ \A k \in 2..Len(queue)+1 : queue'[k] = queue[k-1]
  OBVIOUS
<1>2. Oldest \in Seq(Conns) /\ Len(Oldest) = Len(queue)
  BY <1>1 DEF Oldest
<1>3. Oldest' \in Seq(Conns) /\ Len(Oldest') = Len(queue) + 1
      /\ \A k \in 1..Len(queue)+1 : Oldest'[k] = queue'[Len(queue) + 2 - k]
  <2>1. queue' \in Seq(Conns)
    OBVIOUS
  <2>2. Oldest' = [k \in 1..Len(queue)+1 |-> queue'[Len(queue) + 1 + 1 - k]]
    BY <1>1 DEF Oldest
  <2>3. \A k \in 1..Len(queue)+1 : /\ Len(queue) + 1 + 1 - k = Len(queue) + 2 - k
                                   /\ Len(queue) + 2 - k \in 1..Len(queue)+1
    BY <1>1
  <2>4. \A k \in 1..Len(queue)+1 : queue'[Len(queue) + 2 - k] \in Conns
    BY <1>1, <2>1, <2>3
  <2>5. \A k \in 1..Len(queue)+1 : Oldest'[k] = queue'[Len(queue) + 2 - k]
    BY <1>1, <2>2, <2>3
  <2>6. Oldest' \in [1..Len(queue)+1 -> Conns]
    BY <2>2, <2>3, <2>4
  <2>7. Oldest' \in Seq(Conns)
    BY <1>1, <2>6, SeqDef
  <2>8. Len(Oldest') = Len(queue) + 1
    BY <1>1, <2>6, <2>7, LenProperties
  <2> QED  BY <2>5, <2>7, <2>8
<1>4. /\ Append(Oldest, mconn) \in Seq(Conns)
      /\ Len(Append(Oldest, mconn)) = Len(queue) + 1
      /\ \A k \in 1..Len(queue) : Append(Oldest, mconn)[k] = Oldest[k]
      /\ Append(Oldest, mconn)[Len(queue)+1] = mconn
  BY <1>2, AppendProperties
<1>5. ASSUME NEW k \in 1..Len(queue)+1 PROVE Oldest'[k] = Append(Oldest, mconn)[k]
  <2>1. CASE k = Len(queue) + 1
    BY <1>1, <1>3, <1>4, <2>1
  <2>2. CASE k # Len(queue) + 1
    <3>1. k \in 1..Len(queue) /\ Len(queue) + 2 - k \in 2..Len(queue)+1
      BY <1>1, <2>2
    <3>2. queue'[Len(queue) + 2 - k] = queue[Len(queue) + 2 - k - 1]
      BY <1>1, <3>1
    <3>3. Oldest[k] = queue[Len(queue) + 1 - k]
      BY <3>1 DEF Oldest
    <3>4. Len(queue) + 2 - k - 1 = Len(queue) + 1 - k
      BY <1>1, <3>1
    <3> QED  BY <1>3, <1>4, <3>1, <3>2, <3>3, <3>4
  <2> QED  BY <2>1, <2>2
<1> QED  BY <1>3, <1>4, <1>5, SeqEqual

\* Seen oldest first, unlinking the last node takes the first one.
LEMMA OldestPop ==
    ASSUME queue \in Seq(Conns), Len(queue) > 0,
           queue' = SubSeq(queue, 1, Len(queue) - 1)
    PROVE  /\ Oldest # <<>> /\ Head(Oldest) = queue[Len(queue)]
           /\ Oldest' = Tail(Oldest)
<1>1. /\ Len(queue) \in Nat /\ Len(queue') = Len(queue) - 1
      /\ \A k \in 1..Len(queue)-1 : queue'[k] = queue[k]
  BY LastRemoved
<1>2. Oldest \in Seq(Conns) /\ Len(Oldest) = Len(queue)
  BY <1>1 DEF Oldest
<1>3. Oldest # <<>> /\ Head(Oldest) = queue[Len(queue)]
  BY <1>1, <1>2 DEF Oldest
<1>4. /\ Tail(Oldest) \in Seq(Conns) /\ Len(Tail(Oldest)) = Len(queue) - 1
      /\ \A k \in 1..Len(queue)-1 : Tail(Oldest)[k] = Oldest[k+1]
  BY <1>1, <1>2, <1>3, HeadTailProperties
<1>5. /\ Oldest' \in Seq(Conns) /\ Len(Oldest') = Len(queue) - 1
      /\ \A k \in 1..Len(queue)-1 : Oldest'[k] = queue'[Len(queue) - k]
  <2>1. \A k \in 1..Len(queue') : queue'[k] \in Conns
    BY <1>1
  <2> QED  BY <1>1, <2>1 DEF Oldest
<1>6. ASSUME NEW k \in 1..Len(queue)-1 PROVE queue'[Len(queue) - k] = Oldest[k+1]
  <2>1. Len(queue) - k \in 1..Len(queue)-1 /\ k+1 \in 1..Len(queue)
    BY <1>1
  <2>2. Oldest[k+1] = queue[Len(queue) + 1 - (k+1)]
    BY <2>1 DEF Oldest
  <2>3. Len(queue) + 1 - (k+1) = Len(queue) - k
    BY <1>1
  <2> QED  BY <1>1, <2>1, <2>2, <2>3
<1> QED  BY <1>3, <1>4, <1>5, <1>6, SeqEqual

\* What waits in the queue is what is linked into the list.
LEMMA WaitingIsQueueSet == ASSUME queue \in Seq(Conns) PROVE AQ!Waiting = QueueSet
<1>1. Len(queue) \in Nat /\ Len(Oldest) = Len(queue)
  BY DEF Oldest
<1>2. ASSUME NEW c \in QueueSet PROVE c \in AQ!Waiting
  <2>1. PICK k \in 1..Len(queue) : c = queue[k]
    BY DEF QueueSet
  <2>2. Len(queue) + 1 - k \in 1..Len(queue) /\ Oldest[Len(queue) + 1 - k] = c
    BY <1>1, <2>1 DEF Oldest
  <2> QED  BY <1>1, <2>2 DEF AQ!Waiting
<1>3. ASSUME NEW c \in AQ!Waiting PROVE c \in QueueSet
  <2>1. PICK k \in 1..Len(queue) : c = Oldest[k]
    BY <1>1 DEF AQ!Waiting
  <2>2. Len(queue) + 1 - k \in 1..Len(queue) /\ c = queue[Len(queue) + 1 - k]
    BY <1>1, <2>1 DEF Oldest
  <2> QED  BY <2>2 DEF QueueSet
<1> QED  BY <1>2, <1>3

\* Each step of the pool is an Offer (the last link of an insertion), a Take
\* (an unlink), a Close, or invisible.
LEMMA StepImplements ==
    ASSUME IInv, OnePlace, Next PROVE [AQ!Next]_(AQ!aqVars)
<1>t. /\ wconn \in [Workers -> Conns \cup {NoConn, Sentinel}]
      /\ served \in [Workers -> SUBSET (Conns \cup {Sentinel})]
      /\ queue \in Seq(Conns) /\ free \subseteq Conns
  BY DEF IInv, TypeOK
<1>s. ASSUME queue' = queue, Held' = Held PROVE [AQ!Next]_(AQ!aqVars)
  BY <1>s DEF AQ!aqVars, Oldest
<1>h. ASSUME wconn' = wconn, served' = served PROVE Held' = Held
  BY <1>h DEF Held, WorkerHas
<1>1. CASE Accept \/ AddLock \/ AddUnlock \/ AddPost
  BY <1>1, <1>s, <1>h DEF Accept, AddLock, AddUnlock, AddPost
<1>2. CASE AddInsert
  <2>1. MasterHas = {mconn} /\ mconn \in Conns
    BY <1>2 DEF AddInsert, MasterHas, IInv, LocalsOK
  <2>2. Held' = Held
    BY <1>2, <1>h DEF AddInsert
  <2>3. mconn \notin AQ!Waiting \cup AQ!Owned
    BY <1>t, <2>1, WaitingIsQueueSet DEF OnePlace, AQ!Owned, Held
  <2>4. AQ!Offer(mconn)
    BY <1>2, <1>t, <2>1, <2>2, <2>3, OldestInsert DEF AQ!Offer, AddInsert
  <2> QED  BY <2>1, <2>4 DEF AQ!Next
<1>3. ASSUME NEW w \in Workers,
             GetReserve(w) \/ GetDeclined(w) \/ GetLock(w) \/ GetUnlock(w) \/ EventsDone(w)
      PROVE  [AQ!Next]_(AQ!aqVars)
  BY <1>3, <1>s, <1>h DEF GetReserve, GetDeclined, GetLock, GetUnlock, EventsDone
<1>4. ASSUME NEW w \in Workers, GetPop(w) PROVE [AQ!Next]_(AQ!aqVars)
  <2> DEFINE c == queue[Len(queue)]
  <2>1. Len(queue) > 0 /\ queue # <<>> /\ c \in Conns
    BY <1>4, <1>t, PopNonEmpty DEF GetPop, IInv
  <2>2. /\ wconn' = [wconn EXCEPT ![w] = c] /\ queue' = SubSeq(queue, 1, Len(queue) - 1)
        /\ served' = served
    BY <1>4, <2>1 DEF GetPop
  <2>3. Oldest # <<>> /\ Head(Oldest) = c /\ Oldest' = Tail(Oldest)
    BY <1>t, <2>1, <2>2, OldestPop
  <2>4. wconn[w] = NoConn /\ c # NoConn
    BY <1>4, <2>1, PoolAssumption DEF GetPop, IInv, LocalsOK
  <2> HIDE DEF c
  <2>5. Held' = [Held EXCEPT ![w] = @ \cup {c}]
    BY <1>t, <2>2, <2>4 DEF Held, WorkerHas
  <2>6. AQ!Take(w)
    BY <2>3, <2>5 DEF AQ!Take
  <2> QED  BY <2>6 DEF AQ!Next
<1>5. ASSUME NEW w \in Workers, ServeProxy(w) PROVE [AQ!Next]_(AQ!aqVars)
  <2>1. wconn[w] \in Conns
    BY <1>5 DEF ServeProxy, IInv, LocalsOK
  <2>2. Held' = Held
    BY <1>5, <1>t, <2>1, PoolAssumption DEF ServeProxy, Held, WorkerHas
  <2> QED  BY <1>5, <1>s, <2>2 DEF ServeProxy
<1>6. ASSUME NEW w \in Workers, ServeRefuse(w) PROVE [AQ!Next]_(AQ!aqVars)
  <2>1. wconn[w] \in Conns /\ wconn[w] \in Held[w]
    BY <1>6, PoolAssumption DEF ServeRefuse, IInv, LocalsOK, Held, WorkerHas
  <2>2. Held' = [Held EXCEPT ![w] = @ \ {wconn[w]}]
    <3>1. /\ WorkerHas(w)' = WorkerHas(w) \ {wconn[w]}
          /\ \A v \in Workers : v # w => WorkerHas(v)' = WorkerHas(v)
      BY <1>6, <1>t, <2>1, PoolAssumption DEF ServeRefuse, WorkerHas, OnePlace
    <3> QED  BY <3>1 DEF Held
  <2>3. AQ!Close(w, wconn[w])
    BY <1>6, <2>1, <2>2 DEF AQ!Close, ServeRefuse, Oldest
  <2> QED  BY <2>1, <2>3 DEF AQ!Next
<1>7. ASSUME NEW w \in Workers, EventsClose(w) PROVE [AQ!Next]_(AQ!aqVars)
  <2>1. PICK c \in served[w] : served' = [served EXCEPT ![w] = @ \ {c}]
    BY <1>7 DEF EventsClose
  <2>2. c \in Conns /\ c \in Held[w] /\ c # wconn[w]
    BY <2>1 DEF IInv, LocalsOK, Held, WorkerHas, OnePlace
  <2>3. Held' = [Held EXCEPT ![w] = @ \ {c}]
    <3>1. /\ WorkerHas(w)' = WorkerHas(w) \ {c}
          /\ \A v \in Workers : v # w => WorkerHas(v)' = WorkerHas(v)
      BY <1>7, <1>t, <2>1, <2>2 DEF EventsClose, WorkerHas
    <3> QED  BY <3>1 DEF Held
  <2>4. AQ!Close(w, c)
    BY <1>7, <2>2, <2>3 DEF AQ!Close, EventsClose, Oldest
  <2> QED  BY <2>2, <2>4 DEF AQ!Next
<1> QED
  BY <1>1, <1>2, <1>3, <1>4, <1>5, <1>6, <1>7 DEF Next, MasterNext, WorkerNext

\* uct_listening_pool_add and _get hand every accepted connection to exactly one
\* worker, first come first served, for any number of workers.
THEOREM PoolFifo == Spec => FifoHandOff
<1>1. Init => AQ!Init
  <2> SUFFICES ASSUME Init PROVE AQ!Init
    OBVIOUS
  <2>1. Oldest = <<>>
    BY DEF Init, Oldest
  <2>2. Held = [w \in Workers |-> {}]
    BY DEF Init, Held, WorkerHas
  <2> QED  BY <2>1, <2>2 DEF AQ!Init
<1>2. IInv /\ OnePlace /\ [Next]_poolVars => [AQ!Next]_(AQ!aqVars)
  <2>1. ASSUME UNCHANGED poolVars PROVE UNCHANGED AQ!aqVars
    BY <2>1 DEF poolVars, AQ!aqVars, Oldest, Held, WorkerHas
  <2> QED  BY <2>1, StepImplements
<1> QED  BY <1>1, <1>2, PoolInvariant, PoolOnePlace, PTL DEF Spec, FifoHandOff, AQ!Spec
=============================================================================
