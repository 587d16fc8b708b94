------------------------------ MODULE ProxyLoop ------------------------------
(***************************************************************************)
(* One worker's event loop (uct_worker_thread_cycle, uct_epoll_add_proxy_  *)
(* connection, uct_epoll_process_events, uct_readn, uct_writen) and the    *)
(* peers of the connections it proxies.                                    *)
(*                                                                         *)
(* A pair is a client socket and an upstream socket.  Each side has an     *)
(* epoll instance of its own, edge-triggered: a socket is reported once    *)
(* per arrival, so whatever is not read before read() says EAGAIN is not   *)
(* reported again until more arrives.  The loop handles a batch of client  *)
(* events, then a batch of upstream events; each event reads until 0 and   *)
(* copies to the other side, and an end of file on either side closes both *)
(* sockets and frees the pair, whatever the other direction still holds.   *)
(*                                                                         *)
(* Bytes are counted, not represented.  The sockets, their receive queues  *)
(* and epoll's ready lists are the kernel's, modelled from how they are    *)
(* used here.  The traffic statistics do not influence the loop and are    *)
(* left out.                                                               *)
(***************************************************************************)
EXTENDS Naturals, FiniteSets

CONSTANTS Pairs,        \* clients this worker will serve
          NoPair,       \* "no event is being handled"
          BufSize,      \* UCT_BUF_SIZE
          MaxEvents,    \* events per epoll_wait (1024)
          MaxBytes      \* bound: bytes all the peers send

ASSUME ProxyAssumption ==
    /\ IsFiniteSet(Pairs) /\ NoPair \notin Pairs
    /\ BufSize \in Nat \ {0} /\ MaxEvents \in Nat \ {0} /\ MaxBytes \in Nat

Side == {"client", "upstream"}
Other(d) == IF d = "client" THEN "upstream" ELSE "client"

VARIABLES pair,         \* accepted, connected, open, or closed and freed
          recv,         \* recv[d][p]: bytes received on side d and not read
          peer,         \* peer[d][p]: open, fin (closed), reset, or broken
                        \*   (reset, and the error has been reported)
          watch,        \* watch[d]: pairs registered with side d's epoll
          ready,        \* ready[d]: pairs in its ready list
          pc, side,     \* the worker: location, and whose events it handles
          batch,        \* batch[d]: reported events not yet handled
          cur, got,     \* the event's pair; bytes in its buffer
          connection_n, \* wk_cycle->connection_n
          budget,       \* bytes the peers may still send
          full,         \* full[d]: pairs whose socket buffer towards the peer of
                        \*   side d takes no more bytes
          killed,       \* the process died of SIGPIPE
          lost          \* history, lost[d]: pairs of which bytes were read on
                        \*   side d and not written to the other

netVars  == <<recv, peer, budget, full>>
loopVars == <<pc, side, batch, cur, got>>
proxyVars == <<pair, netVars, watch, ready, loopVars, connection_n, lost, killed>>

LoopPc == {"get", "add", "wait", "next", "read", "write", "close"}

Init ==
    /\ pair = [p \in Pairs |-> "accepted"]
    /\ recv = [d \in Side |-> [p \in Pairs |-> 0]]
    /\ peer = [d \in Side |-> [p \in Pairs |-> "open"]]
    /\ watch = [d \in Side |-> {}]
    /\ ready = [d \in Side |-> {}]
    /\ batch = [d \in Side |-> {}]
    /\ pc = "get" /\ side = "client" /\ cur = NoPair /\ got = 0
    /\ connection_n = 0
    /\ budget = MaxBytes
    /\ lost = [d \in Side |-> {}]
    /\ full = [d \in Side |-> {}]
    /\ killed = FALSE

-----------------------------------------------------------------------------
(* The peers and the kernel *)

\* The socket of side d exists: the client's from the start, the upstream's
\* from its connect on.
HasSocket(d, p) == pair[p] \in {"connected", "open"} \cup (IF d = "client" THEN {"accepted"} ELSE {})

\* Something arrives on a socket: epoll lists it if it is registered.
Arrival(d, p) ==
    ready' = [ready EXCEPT ![d] = IF p \in watch[d] THEN @ \cup {p} ELSE @]

PeerSend(d, p) ==
    /\ HasSocket(d, p) /\ peer[d][p] = "open" /\ budget > 0
    /\ recv' = [recv EXCEPT ![d][p] = @ + 1]
    /\ budget' = budget - 1
    /\ Arrival(d, p)
    /\ UNCHANGED <<pair, peer, full, watch, loopVars, connection_n, lost>>

\* The peer closes its side, or resets the connection.  What it sent before
\* is read first in either case.
PeerEnd(d, p) ==
    /\ HasSocket(d, p) /\ peer[d][p] = "open"
    /\ \E how \in {"fin", "reset"} :
         /\ peer' = [peer EXCEPT ![d][p] = how]
         /\ full' = [full EXCEPT ![d] = IF how = "reset" THEN @ \ {p} ELSE @]
    /\ Arrival(d, p)
    /\ UNCHANGED <<pair, recv, budget, watch, loopVars, connection_n, lost>>

\* The peer reads, and there is room for more.
PeerRead(d, p) ==
    /\ p \in full[d]
    /\ full' = [full EXCEPT ![d] = @ \ {p}]
    /\ UNCHANGED <<pair, recv, peer, budget, watch, ready, loopVars, connection_n, lost>>

-----------------------------------------------------------------------------
(* uct_worker_thread_cycle *)

\* uct_listening_pool_get and uct_upstream_get_connetion: no client ...
GetNone ==
    /\ pc = "get"
    /\ pc' = "wait"
    /\ UNCHANGED <<pair, netVars, watch, ready, side, batch, cur, got, connection_n, lost>>

\* ... a client and a connected upstream socket ...
GetPair ==
    /\ pc = "get"
    /\ \E p \in Pairs : /\ pair[p] = "accepted"
                        /\ pair' = [pair EXCEPT ![p] = "connected"]
                        /\ cur' = p
    /\ pc' = "add"
    /\ UNCHANGED <<netVars, watch, ready, side, batch, got, connection_n, lost>>

\* ... or a client and no upstream, which closes it.
GetRefused ==
    /\ pc = "get"
    /\ \E p \in Pairs : /\ pair[p] = "accepted"
                        /\ pair' = [pair EXCEPT ![p] = "closed"]
    /\ UNCHANGED <<netVars, watch, ready, loopVars, connection_n, lost>>

\* The registrations that succeed: all, the first, or none.  The result of
\* uct_epoll_add_proxy_connection is not looked at.
Registrations == {{}, {"client"}, Side}

\* Mutant of AddProxy: the pair is not counted.
AddUncounted ==
    /\ pc = "add"
    /\ watch' = [d \in Side |-> watch[d] \cup {cur}]
    /\ ready' = [d \in Side |-> IF recv[d][cur] > 0 \/ peer[d][cur] # "open"
                                 THEN ready[d] \cup {cur} ELSE ready[d]]
    /\ pair' = [pair EXCEPT ![cur] = "open"]
    /\ cur' = NoPair
    /\ pc' = "wait"
    /\ UNCHANGED <<netVars, side, batch, got, connection_n, lost>>

\* EPOLL_CTL_ADD on both instances, which lists a socket that has something
\* to report already; connection_n++.
AddProxy ==
    /\ pc = "add"
    /\ \E reg \in Registrations :
         /\ watch' = [d \in Side |-> IF d \in reg THEN watch[d] \cup {cur} ELSE watch[d]]
         /\ ready' = [d \in Side |->
                        IF d \in reg /\ (recv[d][cur] > 0 \/ peer[d][cur] # "open")
                          THEN ready[d] \cup {cur} ELSE ready[d]]
    /\ pair' = [pair EXCEPT ![cur] = "open"]
    /\ connection_n' = connection_n + 1
    /\ cur' = NoPair
    /\ pc' = "wait"
    /\ UNCHANGED <<netVars, side, batch, got, lost>>

-----------------------------------------------------------------------------
(* uct_epoll_process_events *)

\* Events epoll_wait reports: as many as fit, and none after its timeout.
Reported(d) ==
    {b \in SUBSET ready[d] : /\ Cardinality(b) <= MaxEvents
                             /\ b = ready[d] \/ Cardinality(b) = MaxEvents}

\* Mutant of Wait: both instances are asked before any event is handled.
WaitBoth ==
    /\ pc = "wait"
    /\ \E b \in Reported(side), c \in Reported("upstream") :
         /\ batch' = [d \in Side |-> IF side = "upstream" THEN batch[d] ELSE IF d = side THEN b ELSE c]
         /\ ready' = [d \in Side |-> IF side = "upstream" THEN ready[d]
                                     ELSE IF d = side THEN ready[d] \ b ELSE ready[d] \ c]
    /\ pc' = "next"
    /\ UNCHANGED <<pair, netVars, watch, side, cur, got, connection_n, lost>>

\* epoll_wait on the instance of the side whose turn it is.
Wait ==
    /\ pc = "wait"
    /\ \E b \in Reported(side) : /\ batch' = [batch EXCEPT ![side] = b]
                                 /\ ready' = [ready EXCEPT ![side] = @ \ b]
    /\ pc' = "next"
    /\ UNCHANGED <<pair, netVars, watch, side, cur, got, connection_n, lost>>

\* The for loop over the events: the next one ...
NextEvent ==
    /\ pc = "next"
    /\ \E p \in batch[side] : /\ cur' = p
                              /\ batch' = [batch EXCEPT ![side] = @ \ {p}]
    /\ pc' = "read"
    /\ UNCHANGED <<pair, netVars, watch, ready, side, got, connection_n, lost>>

\* ... or, none being left, the other side's turn or the worker's loop.
EventsDone ==
    /\ pc = "next" /\ batch[side] = {}
    /\ pc' = IF side = "client" THEN "wait" ELSE "get"
    /\ side' = Other(side)
    /\ UNCHANGED <<pair, netVars, watch, ready, batch, cur, got, connection_n, lost>>

(* uct_readn: read until the buffer is full, or read() has nothing more. *)

Least(a, b) == IF a < b THEN a ELSE b

\* read() returns data; a full buffer ends uct_readn.
ReadData ==
    LET room == BufSize - got
        k == Least(recv[side][cur], room)
    IN  /\ pc = "read" /\ recv[side][cur] > 0
        /\ recv' = [recv EXCEPT ![side][cur] = @ - k]
        /\ got' = got + k
        /\ pc' = IF k = room THEN "write" ELSE "read"
        /\ UNCHANGED <<pair, peer, budget, full, watch, ready, side, batch, cur, connection_n, lost>>

\* Mutant of ReadAgain: the end of file test does not look at errno.
ReadAgainAsEof ==
    /\ pc = "read" /\ recv[side][cur] = 0 /\ peer[side][cur] = "open"
    /\ pc' = IF got > 0 THEN "write" ELSE "close"
    /\ UNCHANGED <<pair, netVars, watch, ready, side, batch, cur, got, connection_n, lost>>

\* EAGAIN: uct_readn returns what it has, and 0 of it ends the event.
ReadAgain ==
    /\ pc = "read" /\ recv[side][cur] = 0 /\ peer[side][cur] = "open"
    /\ pc' = IF got > 0 THEN "write" ELSE "next"
    /\ cur' = IF got > 0 THEN cur ELSE NoPair
    /\ UNCHANGED <<pair, netVars, watch, ready, side, batch, got, connection_n, lost>>

\* End of file: the same, and 0 closes the pair, errno having been cleared.
ReadEof ==
    /\ pc = "read" /\ recv[side][cur] = 0 /\ peer[side][cur] \in {"fin", "broken"}
    /\ pc' = IF got > 0 THEN "write" ELSE "close"
    /\ UNCHANGED <<pair, netVars, watch, ready, side, batch, cur, got, connection_n, lost>>

\* An error: uct_readn returns -1 and forgets what it had read.  As a uct_uint_t
\* that is positive, so uct_writen is called with that length, write() refuses
\* it, and the loop reads again.
ReadError ==
    /\ pc = "read" /\ recv[side][cur] = 0 /\ peer[side][cur] = "reset"
    /\ peer' = [peer EXCEPT ![side][cur] = "broken"]
    /\ got' = 0
    /\ lost' = [lost EXCEPT ![side] = IF got > 0 THEN @ \cup {cur} ELSE @]
    /\ UNCHANGED <<pair, recv, budget, full, watch, ready, pc, side, batch, cur, connection_n>>

(* uct_writen to the other side; its result is not looked at. *)

\* Mutant of WriteTaken: the event ends after one buffer.
WriteOnce ==
    /\ pc = "write"
    /\ got' = 0
    /\ pc' = "next"
    /\ cur' = NoPair
    /\ UNCHANGED <<pair, netVars, watch, ready, side, batch, connection_n, lost, killed>>

\* write() takes bytes, all of them unless that fills the buffer.  While it is
\* full write() says EAGAIN, and uct_writen retries, for ever if the peer does
\* not read: the worker then does nothing else.  A peer that has closed may
\* still read.
WriteTaken ==
    LET o == Other(side)
    IN  /\ pc = "write"
        /\ peer[o][cur] \in {"open", "fin"} /\ cur \notin full[o]
        /\ \E k \in 1 .. got, fills \in BOOLEAN :
             /\ k < got => fills
             /\ got' = got - k
             /\ full' = [full EXCEPT ![o] = IF fills THEN @ \cup {cur} ELSE @]
             /\ pc' = IF k = got THEN "read" ELSE "write"
        /\ UNCHANGED <<pair, recv, peer, budget, watch, ready, side, batch, cur, connection_n, lost, killed>>

\* write() fails, once with ECONNRESET after a reset, else with EPIPE: uct_writen
\* gives up the rest, if the process was started with SIGPIPE ignored ...
WriteFailed ==
    LET o == Other(side)
    IN  /\ pc = "write"
        /\ \/ peer[o][cur] = "reset" /\ peer' = [peer EXCEPT ![o][cur] = "broken"]
           \/ peer[o][cur] \in {"fin", "broken"} /\ UNCHANGED peer
        /\ lost' = [lost EXCEPT ![side] = @ \cup {cur}]
        /\ got' = 0
        /\ pc' = "read"
        /\ UNCHANGED <<pair, recv, budget, full, watch, ready, side, batch, cur, connection_n, killed>>

\* ... otherwise, as from a shell or in a container, the SIGPIPE that comes with
\* EPIPE ends the process: umicat does not handle it.
WriteKills ==
    /\ pc = "write"
    /\ peer[Other(side)][cur] \in {"fin", "broken"}
    /\ killed' = TRUE
    /\ UNCHANGED <<pair, netVars, watch, ready, loopVars, connection_n, lost>>

\* Mutant of Close: the pair is not taken off the count.
CloseUncounted ==
    /\ pc = "close"
    /\ pair' = [pair EXCEPT ![cur] = "closed"]
    /\ watch' = [d \in Side |-> watch[d] \ {cur}]
    /\ ready' = [d \in Side |-> ready[d] \ {cur}]
    /\ full' = [d \in Side |-> full[d] \ {cur}]
    /\ cur' = NoPair /\ pc' = "next"
    /\ UNCHANGED <<recv, peer, budget, side, batch, got, connection_n, lost>>

\* Both sockets are closed, which takes them out of epoll, and both pools
\* destroyed; connection_n--.  (The server's counter is Drop of Upstream.)
Close ==
    /\ pc = "close"
    /\ pair' = [pair EXCEPT ![cur] = "closed"]
    /\ watch' = [d \in Side |-> watch[d] \ {cur}]
    /\ ready' = [d \in Side |-> ready[d] \ {cur}]
    /\ full' = [d \in Side |-> full[d] \ {cur}]
    /\ cur' = NoPair /\ pc' = "next"
    /\ connection_n' = connection_n - 1
    /\ UNCHANGED <<recv, peer, budget, side, batch, got, lost>>

-----------------------------------------------------------------------------

GetNext == GetNone \/ GetPair \/ GetRefused \/ AddProxy

ReadNext ==
    \/ Wait \/ NextEvent \/ EventsDone
    \/ ReadData \/ ReadAgain \/ ReadEof \/ ReadError \/ Close

WriteNext == WriteTaken \/ WriteFailed \/ WriteKills

WorkerNext ==
    /\ ~killed
    /\ ((GetNext \/ ReadNext) /\ UNCHANGED killed) \/ WriteNext

PeerNext ==
    /\ ~killed
    /\ \E d \in Side, p \in Pairs : PeerSend(d, p) \/ PeerEnd(d, p) \/ PeerRead(d, p)
    /\ UNCHANGED killed

\* A process that was killed stays so.
Dead == killed /\ UNCHANGED proxyVars

Next == WorkerNext \/ PeerNext \/ Dead

Spec == Init /\ [][Next]_proxyVars

\* The worker is scheduled.  Peers need not send, read or close.
FairSpec == Spec /\ WF_proxyVars(WorkerNext)

-----------------------------------------------------------------------------
(* Properties *)

TypeOK ==
    /\ pair \in [Pairs -> {"accepted", "connected", "open", "closed"}]
    /\ recv \in [Side -> [Pairs -> Nat]]
    /\ peer \in [Side -> [Pairs -> {"open", "fin", "reset", "broken"}]]
    /\ watch \in [Side -> SUBSET Pairs]
    /\ ready \in [Side -> SUBSET Pairs]
    /\ pc \in LoopPc /\ side \in Side
    /\ batch \in [Side -> SUBSET Pairs]
    /\ cur \in Pairs \cup {NoPair}
    /\ got \in 0..BufSize
    /\ connection_n \in Nat
    /\ budget \in Nat
    /\ lost \in [Side -> SUBSET Pairs]
    /\ full \in [Side -> SUBSET Pairs]
    /\ killed \in BOOLEAN

\* Side d of pair p is being drained or is about to be.
Handling(d, p) ==
    \/ p \in ready[d] \cup batch[d]
    \/ cur = p /\ side = d /\ pc \in {"read", "write", "close"}

\* The loop never forgets an edge: a registered socket with unread bytes or an
\* end of file not acted upon is listed by epoll, reported, or being read.  An
\* edge-triggered loop that stops reading too early breaks this.
NoLostEdge ==
    \A d \in Side : \A p \in watch[d] :
        recv[d][p] > 0 \/ peer[d][p] # "open" => Handling(d, p)

\* No event refers to a pair whose memory has been freed, though an event of one
\* side frees the pair that the other side's epoll instance points to.
NoStaleEvent ==
    /\ \A d \in Side : watch[d] \cup ready[d] \cup batch[d] \subseteq {p \in Pairs : pair[p] = "open"}
    /\ pc \in {"read", "write", "close"} => pair[cur] = "open"

\* A pair is closed for an end of file only: everything the side that ended had
\* sent has been read, and written to the other peer if both peers took part in
\* the protocol to the end.
DrainedAtEof ==
    pc = "close" =>
        /\ peer[side][cur] \in {"fin", "broken"}
        /\ recv[side][cur] = 0 /\ got = 0
        /\ (peer[side][cur] = "fin" /\ peer[Other(side)][cur] = "open")
             => cur \notin lost[side]

\* wk_cycle->connection_n is the number of pairs the worker has open.
OpenCount == connection_n = Cardinality({p \in Pairs : pair[p] = "open"})

\* Whatever arrives on a registered socket is dealt with, be it that of a pair
\* whose turn comes late: the bytes are read, and a peer that is gone ends the
\* pair; unless a write to a peer that is gone kills the process, or some peer
\* stops reading for ever, on which the worker then spins.
EventuallyHandled ==
    (\A d \in Side, p \in Pairs : []<>(p \notin full[d])) =>
        \A d \in Side, p \in Pairs :
            p \in watch[d] /\ (recv[d][p] > 0 \/ peer[d][p] # "open")
                ~> (recv[d][p] = 0 /\ peer[d][p] = "open") \/ pair[p] = "closed" \/ killed
=============================================================================
