------------------------- MODULE ListeningPoolLinks -------------------------
(***************************************************************************)
(* The listening pool with its queue as the code keeps it: the intrusive   *)
(* doubly linked list of uct_queue.h, changed one pointer store at a time. *)
(* Everything but the insertion and the removal is a step of ListeningPool *)
(* that leaves the links alone; those two become four stores and one load  *)
(* with two stores.  The refinement shows that a list cut in the middle of *)
(* an insertion or a removal is never seen by another thread.              *)
(***************************************************************************)
EXTENDS Naturals, Sequences, FiniteSets

CONSTANTS Conns, Workers, Master, Sentinel, NoThread, NoConn,
          NoNode        \* the content of a link field never written

ASSUME LinksAssumption ==
    /\ IsFiniteSet(Conns) /\ IsFiniteSet(Workers)
    /\ Master \notin Workers
    /\ NoThread \notin Workers \cup {Master}
    /\ Sentinel \notin Conns
    /\ NoConn \notin Conns \cup {Sentinel}
    /\ NoNode \notin Conns \cup {Sentinel}

VARIABLES items, mutex, free, mpc, mconn, wpc, wconn, served,
          next, prev,   \* link fields of the nodes
          mstep,        \* stores of the master's insertion already done
          wstep,        \* loads and stores of each worker's removal done
          wq            \* each worker's local q in uct_listening_pool_get

protocolVars == <<items, mutex, free, mpc, mconn, wpc, wconn, served>>
linkVars     == <<next, prev, mstep, wstep, wq>>
linksVars    == <<protocolVars, linkVars>>

Nodes == Conns \cup {Sentinel}

\* The node reached from the sentinel by n steps along next.
NodeAt[n \in 0..Cardinality(Nodes)] ==
    IF n = 0 THEN Sentinel
    ELSE IF NodeAt[n-1] \in Nodes THEN next[NodeAt[n-1]] ELSE NoNode

\* The list as a reader following next sees it.
Chain ==
    LET back == {n \in 1..Cardinality(Nodes) : NodeAt[n] \notin Conns}
    IN  IF back = {} THEN <<>>
        ELSE [i \in 1..((CHOOSE n \in back : \A m \in back : n <= m) - 1) |-> NodeAt[i]]

Pool == INSTANCE ListeningPool WITH queue <- Chain

\* uct_queue_init(&listen->queue)
InitLinks ==
    /\ next = [n \in Nodes |-> IF n = Sentinel THEN Sentinel ELSE NoNode]
    /\ prev = [n \in Nodes |-> IF n = Sentinel THEN Sentinel ELSE NoNode]
    /\ mstep = 0
    /\ wstep = [w \in Workers |-> 0]
    /\ wq = [w \in Workers |-> NoNode]

Init == InitLinks /\ Pool!Init

-----------------------------------------------------------------------------
(* uct_queue_insert_head(h, x), h the sentinel and x the master's node *)

InsertStep(n) ==
    /\ mpc = "insert"
    /\ mstep = n
    /\ mstep' = (n + 1) % 4
    /\ mpc' = IF n = 3 THEN "unlock" ELSE mpc
    /\ UNCHANGED <<items, mutex, free, mconn, wpc, wconn, served, wstep, wq>>

\* (x)->next = (h)->next
InsertNext ==
    /\ InsertStep(0)
    /\ next' = [next EXCEPT ![mconn] = next[Sentinel]]
    /\ UNCHANGED prev

\* Mutant of InsertSuccPrev: the old first node keeps the sentinel as its prev.
InsertSuccPrevLost ==
    /\ InsertStep(1)
    /\ UNCHANGED <<next, prev>>

\* (x)->next->prev = x
InsertSuccPrev ==
    /\ InsertStep(1)
    /\ prev' = [prev EXCEPT ![next[mconn]] = mconn]
    /\ UNCHANGED next

\* (x)->prev = h
InsertPrev ==
    /\ InsertStep(2)
    /\ prev' = [prev EXCEPT ![mconn] = Sentinel]
    /\ UNCHANGED next

\* (h)->next = x
InsertHead ==
    /\ InsertStep(3)
    /\ next' = [next EXCEPT ![Sentinel] = mconn]
    /\ UNCHANGED prev

-----------------------------------------------------------------------------
(* q = uct_queue_last(h); uct_queue_remove(q) *)

RemoveStep(w, n) ==
    /\ wpc[w] = "pop"
    /\ wstep[w] = n
    /\ wstep' = [wstep EXCEPT ![w] = (n + 1) % 3]
    /\ wpc' = IF n = 2 THEN [wpc EXCEPT ![w] = "unlock"] ELSE wpc
    /\ UNCHANGED <<items, mutex, free, mpc, mconn, served, mstep>>

\* q = (h)->prev
RemoveLast(w) ==
    /\ RemoveStep(w, 0)
    /\ wq' = [wq EXCEPT ![w] = prev[Sentinel]]
    /\ UNCHANGED <<wconn, next, prev>>

\* (q)->next->prev = (q)->prev
RemoveSuccPrev(w) ==
    /\ RemoveStep(w, 1)
    /\ prev' = [prev EXCEPT ![next[wq[w]]] = prev[wq[w]]]
    /\ UNCHANGED <<wconn, wq, next>>

\* (q)->prev->next = (q)->next; the caller's conn is uct_queue_data(q).
RemovePredNext(w) ==
    /\ RemoveStep(w, 2)
    /\ next' = [next EXCEPT ![prev[wq[w]]] = next[wq[w]]]
    /\ wconn' = [wconn EXCEPT ![w] = wq[w]]
    /\ wq' = [wq EXCEPT ![w] = NoNode]
    /\ UNCHANGED prev

-----------------------------------------------------------------------------

\* The steps of ListeningPool that do not touch the list.
OtherMaster ==
    /\ UNCHANGED linkVars
    /\ Pool!Accept \/ Pool!AddLock \/ Pool!AddUnlock \/ Pool!AddPost

\* Mutant of OtherWorker: the spin lock is not taken around the removal.
OtherWorkerNoLock(w) ==
    /\ UNCHANGED linkVars
    /\ \/ Pool!GetReserve(w) \/ Pool!GetDeclined(w) \/ Pool!GetLockBarging(w)
       \/ Pool!GetUnlock(w) \/ Pool!ServeProxy(w) \/ Pool!ServeRefuse(w)
       \/ Pool!EventsClose(w) \/ Pool!EventsDone(w)

OtherWorker(w) ==
    /\ UNCHANGED linkVars
    /\ \/ Pool!GetReserve(w) \/ Pool!GetDeclined(w) \/ Pool!GetLock(w)
       \/ Pool!GetUnlock(w) \/ Pool!ServeProxy(w) \/ Pool!ServeRefuse(w)
       \/ Pool!EventsClose(w) \/ Pool!EventsDone(w)

Next ==
    \/ InsertNext \/ InsertSuccPrev \/ InsertPrev \/ InsertHead
    \/ OtherMaster
    \/ \E w \in Workers : \/ RemoveLast(w) \/ RemoveSuccPrev(w) \/ RemovePredNext(w)
                          \/ OtherWorker(w)

Spec == Init /\ [][Next]_linksVars

-----------------------------------------------------------------------------
(* Properties *)

\* Whenever the spin lock is free the list is circular and consistent in both
\* directions: following prev from the sentinel (uct_queue_last) meets the
\* nodes that following next meets, in the opposite order.
WellLinked ==
    mutex = NoThread =>
        LET ring == {Sentinel} \cup {Chain[i] : i \in 1..Len(Chain)}
        IN  /\ NodeAt[Len(Chain) + 1] = Sentinel
            /\ \A n \in ring : /\ next[n] \in ring /\ prev[n] \in ring
                               /\ prev[next[n]] = n /\ next[prev[n]] = n

\* The linked list implements the queue: seen through next, a node appears at
\* the last store of uct_queue_insert_head and disappears at the last store of
\* uct_queue_remove, and the other stores are invisible.
ImplementsPool == Pool!Spec
=============================================================================
