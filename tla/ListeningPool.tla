--------------------------- MODULE ListeningPool ---------------------------
(***************************************************************************)
(* The hand-off of accepted client connections from the master thread to   *)
(* the worker threads: uct_listening_pool_init/_add/_get, called from      *)
(* uct_master_thread_cycle and uct_worker_thread_cycle.                    *)
(*                                                                         *)
(* The pool is a queue guarded by the spin lock "mutex", with the counting *)
(* semaphore "items" saying how many connections may be taken.  The master *)
(* inserts under the lock and posts after it; a worker first reserves an   *)
(* item (sem_trywait, so an idle worker never blocks) and then removes the *)
(* last node under the lock.  Nothing in _get tests for an empty list: an  *)
(* empty list would yield the sentinel, and only the semaphore prevents it.*)
(***************************************************************************)
EXTENDS Naturals, Sequences, FiniteSets

CONSTANTS Conns,        \* addresses of uct_connection_t nodes; finite, as
                        \*   the process has finitely many descriptors
          Workers,      \* worker threads
          Master,       \* the master thread
          Sentinel,     \* the list head listen_q, a node like the others
          NoThread,     \* "the spin lock is free"
          NoConn        \* "the local variable conn holds nothing live"

ASSUME PoolAssumption ==
    /\ IsFiniteSet(Workers)
    /\ Master \notin Workers
    /\ NoThread \notin Workers \cup {Master}
    /\ Sentinel \notin Conns
    /\ NoConn \notin Conns \cup {Sentinel}

VARIABLES items,        \* sem_t lpool->items
          mutex,        \* holder of the spin lock lpool->mutex
          queue,        \* lpool->listen_q, from head->next to head->prev
          free,         \* nodes the allocator may hand out
          mpc, mconn,   \* the master: program counter, local conn
          wpc, wconn,   \* each worker: program counter, local cli_conn
          served        \* served[w]: proxied connections of worker w

poolVars == <<items, mutex, queue, free, mpc, mconn, wpc, wconn, served>>

Threads == Workers \cup {Master}

\* Locations of the master: blocked in accept, then the steps of
\* uct_listening_pool_add.
MasterPc == {"accept", "lock", "insert", "unlock", "post"}

\* Locations of a worker: the steps of uct_listening_pool_get, the search for
\* an upstream, and uct_epoll_process_events.
WorkerPc == {"get", "lock", "pop", "unlock", "serve", "events"}

Init ==
    /\ items = 0
    /\ mutex = NoThread
    /\ queue = <<>>
    /\ free = Conns
    /\ mpc = "accept"
    /\ mconn = NoConn
    /\ wpc = [w \in Workers |-> "get"]
    /\ wconn = [w \in Workers |-> NoConn]
    /\ served = [w \in Workers |-> {}]

-----------------------------------------------------------------------------
(* The master thread *)

\* uct_accept succeeds and uct_connection_init builds the connection in a
\* pool of its own.  (A failing uct_accept only repeats the loop.)
Accept ==
    /\ mpc = "accept"
    /\ \E c \in free : /\ mconn' = c
                       /\ free' = free \ {c}
    /\ mpc' = "lock"
    /\ UNCHANGED <<items, mutex, queue, wpc, wconn, served>>

\* pthread_spin_lock(&lpool->mutex)
AddLock ==
    /\ mpc = "lock"
    /\ mutex = NoThread
    /\ mutex' = Master
    /\ mpc' = "insert"
    /\ UNCHANGED <<items, queue, free, mconn, wpc, wconn, served>>

\* uct_queue_insert_head: the newest connection is first after the head.
AddInsert ==
    /\ mpc = "insert"
    /\ queue' = <<mconn>> \o queue
    /\ mpc' = "unlock"
    /\ UNCHANGED <<items, mutex, free, mconn, wpc, wconn, served>>

\* pthread_spin_unlock(&lpool->mutex)
AddUnlock ==
    /\ mpc = "unlock"
    /\ mutex' = NoThread
    /\ mpc' = "post"
    /\ UNCHANGED <<items, queue, free, mconn, wpc, wconn, served>>

\* Mutant of AddPost: the post is forgotten.
AddPostLost ==
    /\ mpc = "post"
    /\ mconn' = NoConn
    /\ mpc' = "accept"
    /\ UNCHANGED <<items, mutex, queue, free, wpc, wconn, served>>

\* uct_lock_v(&lpool->items), after which the master accepts again.
AddPost ==
    /\ mpc = "post"
    /\ items' = items + 1
    /\ mconn' = NoConn
    /\ mpc' = "accept"
    /\ UNCHANGED <<mutex, queue, free, wpc, wconn, served>>

-----------------------------------------------------------------------------
(* A worker thread *)

\* Mutant of GetReserve: the result of sem_trywait is ignored.
GetReserveIgnored(w) ==
    /\ wpc[w] = "get"
    /\ items' = IF items > 0 THEN items - 1 ELSE 0
    /\ wpc' = [wpc EXCEPT ![w] = "lock"]
    /\ UNCHANGED <<mutex, queue, free, mpc, mconn, wconn, served>>

\* Mutant of GetReserve: the semaphore is decremented without a test.
GetReserveBlind(w) ==
    /\ wpc[w] = "get"
    /\ items' = items - 1
    /\ wpc' = [wpc EXCEPT ![w] = "lock"]
    /\ UNCHANGED <<mutex, queue, free, mpc, mconn, wconn, served>>

\* uct_trylock_p(&lpool->items) reserves an item ...
GetReserve(w) ==
    /\ wpc[w] = "get"
    /\ items > 0
    /\ items' = items - 1
    /\ wpc' = [wpc EXCEPT ![w] = "lock"]
    /\ UNCHANGED <<mutex, queue, free, mpc, mconn, wconn, served>>

\* ... or returns UCT_DECLINED: _get yields NULL and the worker goes on to
\* its events.
GetDeclined(w) ==
    /\ wpc[w] = "get"
    /\ items = 0
    /\ wpc' = [wpc EXCEPT ![w] = "events"]
    /\ UNCHANGED <<items, mutex, queue, free, mpc, mconn, wconn, served>>

\* Mutant of GetLock: the lock is not waited for.
GetLockBarging(w) ==
    /\ wpc[w] = "lock"
    /\ mutex' = w
    /\ wpc' = [wpc EXCEPT ![w] = "pop"]
    /\ UNCHANGED <<items, queue, free, mpc, mconn, wconn, served>>

GetLock(w) ==
    /\ wpc[w] = "lock"
    /\ mutex = NoThread
    /\ mutex' = w
    /\ wpc' = [wpc EXCEPT ![w] = "pop"]
    /\ UNCHANGED <<items, queue, free, mpc, mconn, wconn, served>>

\* Mutant of GetPop: the last node is read and not unlinked.
GetPopPeek(w) ==
    /\ wpc[w] = "pop"
    /\ wconn' = [wconn EXCEPT ![w] = IF queue = <<>> THEN Sentinel ELSE queue[Len(queue)]]
    /\ wpc' = [wpc EXCEPT ![w] = "unlock"]
    /\ UNCHANGED <<items, mutex, queue, free, mpc, mconn, served>>

\* Mutant of GetPop: uct_queue_head in place of uct_queue_last.
GetPopHead(w) ==
    /\ wpc[w] = "pop"
    /\ queue # <<>>
    /\ wconn' = [wconn EXCEPT ![w] = Head(queue)]
    /\ queue' = Tail(queue)
    /\ wpc' = [wpc EXCEPT ![w] = "unlock"]
    /\ UNCHANGED <<items, mutex, free, mpc, mconn, served>>

\* q = uct_queue_last(...); uct_queue_remove(q).  On an empty list the last
\* node is the sentinel itself, and unlinking it changes nothing.
GetPop(w) ==
    /\ wpc[w] = "pop"
    /\ IF queue = <<>>
         THEN /\ wconn' = [wconn EXCEPT ![w] = Sentinel]
              /\ queue' = queue
         ELSE /\ wconn' = [wconn EXCEPT ![w] = queue[Len(queue)]]
              /\ queue' = SubSeq(queue, 1, Len(queue) - 1)
    /\ wpc' = [wpc EXCEPT ![w] = "unlock"]
    /\ UNCHANGED <<items, mutex, free, mpc, mconn, served>>

GetUnlock(w) ==
    /\ wpc[w] = "unlock"
    /\ mutex' = NoThread
    /\ wpc' = [wpc EXCEPT ![w] = "serve"]
    /\ UNCHANGED <<items, queue, free, mpc, mconn, wconn, served>>

\* uct_upstream_get_connetion found a server: the pair is registered with the
\* worker's epoll instances.
ServeProxy(w) ==
    /\ wpc[w] = "serve"
    /\ served' = [served EXCEPT ![w] = @ \cup {wconn[w]}]
    /\ wconn' = [wconn EXCEPT ![w] = NoConn]
    /\ wpc' = [wpc EXCEPT ![w] = "events"]
    /\ UNCHANGED <<items, mutex, queue, free, mpc, mconn>>

\* No upstream: the client is closed, its pool destroyed, and "continue"
\* skips the event processing of this round.
ServeRefuse(w) ==
    /\ wpc[w] = "serve"
    /\ free' = free \cup {wconn[w]}
    /\ wconn' = [wconn EXCEPT ![w] = NoConn]
    /\ wpc' = [wpc EXCEPT ![w] = "get"]
    /\ UNCHANGED <<items, mutex, queue, mpc, mconn, served>>

\* uct_epoll_process_events closes one of the worker's connections ...
EventsClose(w) ==
    /\ wpc[w] = "events"
    /\ \E c \in served[w] : /\ served' = [served EXCEPT ![w] = @ \ {c}]
                            /\ free' = free \cup {c}
    /\ UNCHANGED <<items, mutex, queue, mpc, mconn, wpc, wconn>>

\* ... and returns to the worker's loop.
EventsDone(w) ==
    /\ wpc[w] = "events"
    /\ wpc' = [wpc EXCEPT ![w] = "get"]
    /\ UNCHANGED <<items, mutex, queue, free, mpc, mconn, wconn, served>>

-----------------------------------------------------------------------------

MasterNext == Accept \/ AddLock \/ AddInsert \/ AddUnlock \/ AddPost

WorkerNext(w) ==
    \/ GetReserve(w) \/ GetDeclined(w) \/ GetLock(w) \/ GetPop(w)
    \/ GetUnlock(w) \/ ServeProxy(w) \/ ServeRefuse(w)
    \/ EventsClose(w) \/ EventsDone(w)

Next == MasterNext \/ \E w \in Workers : WorkerNext(w)

\* Threads are scheduled (weak fairness): the master completes an add it has
\* begun, and a worker completes a get, serves what it got and leaves its
\* event loop.  Clients need not connect (no fairness on Accept) nor close
\* (none on EventsClose), and nothing makes the spin lock fair.
Fairness ==
    /\ WF_poolVars(AddLock \/ AddInsert \/ AddUnlock \/ AddPost)
    /\ \A w \in Workers :
         /\ WF_poolVars(GetReserve(w) \/ GetDeclined(w) \/ GetLock(w) \/ GetPop(w)
                        \/ GetUnlock(w) \/ ServeProxy(w) \/ ServeRefuse(w))
         /\ WF_poolVars(EventsDone(w))

Spec == Init /\ [][Next]_poolVars
FairSpec == Spec /\ Fairness

-----------------------------------------------------------------------------
(* Properties *)

\* Types, and the spin lock held exactly by the thread inside its critical
\* section (lpool->mutex between pthread_spin_lock and pthread_spin_unlock).
TypeOK ==
    /\ items \in Nat
    /\ mutex \in Threads \cup {NoThread}
    /\ queue \in Seq(Conns)
    /\ free \subseteq Conns
    /\ mpc \in MasterPc
    /\ mconn \in Conns \cup {NoConn}
    /\ wpc \in [Workers -> WorkerPc]
    /\ wconn \in [Workers -> Conns \cup {NoConn, Sentinel}]
    /\ served \in [Workers -> SUBSET (Conns \cup {Sentinel})]

\* The thread in its critical section is the holder of the spin lock, so the
\* two unlinked halves of uct_queue_insert_head and uct_queue_remove never
\* overlap.
MutualExclusion ==
    /\ (mpc \in {"insert", "unlock"}) <=> (mutex = Master)
    /\ \A w \in Workers : (wpc[w] \in {"pop", "unlock"}) <=> (mutex = w)

\* Workers that have reserved an item and not yet removed a node for it.
Reserved == {w \in Workers : wpc[w] \in {"lock", "pop"}}

\* 1 while the master has inserted a node and not yet posted it.
Unposted == IF mpc \in {"unlock", "post"} THEN 1 ELSE 0

\* Every node in the list is announced by the semaphore, reserved by a worker,
\* or about to be posted: the count that makes the missing emptiness test in
\* uct_listening_pool_get safe.
Accounting == items + Cardinality(Reserved) + Unposted = Len(queue)

\* uct_listening_pool_get never returns the list head as if it were a client
\* connection.
NeverSentinel == \A w \in Workers : wconn[w] # Sentinel /\ Sentinel \notin served[w]

QueueSet == {queue[i] : i \in 1..Len(queue)}

\* The nodes the master holds and has not yet linked into the list.
MasterHas == IF mpc \in {"lock", "insert"} THEN {mconn} ELSE {}

\* The nodes worker w is responsible for.
WorkerHas(w) == served[w] \cup ({wconn[w]} \ {NoConn})

\* A connection is in one place only: free, with the master, once in the
\* list, or with one worker.  No client is lost, served twice, or freed while
\* something still refers to it.
OnePlace ==
    /\ \A k, l \in 1..Len(queue) : queue[k] = queue[l] => k = l
    /\ free \cap QueueSet = {}
    /\ MasterHas \cap (free \cup QueueSet) = {}
    /\ \A w \in Workers : WorkerHas(w) \cap (free \cup QueueSet \cup MasterHas) = {}
    /\ \A w \in Workers : wconn[w] \notin served[w]
    /\ \A v, w \in Workers : v # w => WorkerHas(v) \cap WorkerHas(w) = {}
    /\ \A c \in Conns : \/ c \in free \cup QueueSet \cup MasterHas
                       \/ \E w \in Workers : c \in WorkerHas(w)

\* The pool implements the FIFO hand-off: a connection counts as offered when
\* it is linked and as taken when it is unlinked.
Oldest == [k \in 1..Len(queue) |-> queue[Len(queue) + 1 - k]]
Held   == [w \in Workers |-> WorkerHas(w)]

AQ == INSTANCE AcceptQueue WITH pending <- Oldest, owned <- Held

FifoHandOff == AQ!Spec

\* Every connection linked into the list is eventually taken by some worker,
\* though workers poll with sem_trywait and the spin lock is not fair.
EventuallyTaken ==
    \A c \in Conns : (c \in QueueSet) ~> (\E w \in Workers : c \in WorkerHas(w))
=============================================================================
