----------------------------- MODULE UdpWorker -----------------------------
(***************************************************************************)
(* The udp workers.  All of them receive from the one listening socket.    *)
(* For every datagram a worker opens a back socket, bound to the listening *)
(* address and connected to the client, and an upstream socket, registers  *)
(* the upstream socket with its epoll instance, sends the datagram on and  *)
(* then copies what replies are there.  The pair is closed when an empty   *)
(* datagram arrives, and never otherwise.                                  *)
(*                                                                         *)
(* Which socket the system gives a datagram to is modelled from the socket *)
(* options used: a back socket connected to the client comes before the    *)
(* listening socket, and one that is bound but not yet connected shares    *)
(* the port with it.  A datagram is the record of its client and number.   *)
(* Left out: the upstream socket is never connected and would take replies *)
(* from any sender; the only sender here is the server it was used for.    *)
(***************************************************************************)
EXTENDS Integers, Sequences, FiniteSets

LOCAL INSTANCE FiniteSetsExt

CONSTANTS UdpWorkers, Clients,
          MaxDatagrams,  \* bound: datagrams sent by the clients
          MaxReplies     \* bound: replies of an upstream server to each

ASSUME UdpAssumption == MaxDatagrams \in Nat /\ MaxReplies \in Nat

VARIABLES queue,     \* the receive queue of the listening socket
          sent,      \* datagrams the clients sent: their number
          upc,       \* program counter of each worker
          cur,       \* the datagram it handles; its number names the pair
          pair,      \* pair[n]: worker, client, and the state of both sockets
          inbox,     \* inbox[n]: replies the upstream socket has not been read of
          unread,    \* unread[n]: datagrams the back socket was given
          forwarded, \* datagrams sent to an upstream server
          lost,      \* datagrams dropped with a closed socket or a dead worker
          events,    \* events[w]: pairs epoll_wait reported, still to be handled
          received,  \* received[c]: what client c got: the pair and the replies joined
          replies    \* replies[n]: replies made to the datagram of pair n

udpVars == <<queue, sent, upc, cur, pair, inbox, unread, forwarded, lost, events, received, replies>>

Pairs == 1 .. MaxDatagrams
None  == [c |-> "none", n |-> 0]
NoPair == [w |-> "none", c |-> "none", back |-> "none", up |-> "none"]

InitUdp ==
    /\ queue = <<>> /\ sent = 0
    /\ upc = [w \in UdpWorkers |-> "recv"] /\ cur = [w \in UdpWorkers |-> None]
    /\ pair = [n \in Pairs |-> NoPair]
    /\ inbox = [n \in Pairs |-> <<>>] /\ unread = [n \in Pairs |-> {}]
    /\ forwarded = {} /\ lost = {}
    /\ events = [w \in UdpWorkers |-> {}]
    /\ received = [c \in Clients |-> <<>>] /\ replies = [n \in Pairs |-> 0]

At_(w, pc) == upc' = [upc EXCEPT ![w] = pc]

\* The back sockets that may be given a datagram of c.
Connected(c) == {n \in Pairs : pair[n].back = "connected" /\ pair[n].c = c}
Bound == {n \in Pairs : pair[n].back = "bound"}

\* A client sends a datagram and the system chooses a socket for it.
ClientSend(c) ==
    LET d == [c |-> c, n |-> sent + 1]
    IN  /\ sent < MaxDatagrams
        /\ sent' = sent + 1
        /\ \/ Connected(c) = {} /\ queue' = Append(queue, d) /\ UNCHANGED unread
           \/ /\ \E n \in (IF Connected(c) # {} THEN Connected(c) ELSE Bound) :
                    unread' = [unread EXCEPT ![n] = @ \cup {d}]
              /\ UNCHANGED queue
        /\ UNCHANGED <<upc, cur, pair, inbox, forwarded, lost, events, received, replies>>

\* Mutant of Recvfrom: the datagram stays in the queue.
RecvfromPeek(w) ==
    /\ upc[w] = "recv" /\ queue # <<>>
    /\ cur' = [cur EXCEPT ![w] = Head(queue)]
    /\ At_(w, "back")
    /\ UNCHANGED <<queue, sent, pair, inbox, unread, forwarded, lost, events, received, replies>>

\* recvfrom blocks until there is a datagram.
Recvfrom(w) ==
    /\ upc[w] = "recv" /\ queue # <<>>
    /\ cur' = [cur EXCEPT ![w] = Head(queue)]
    /\ queue' = Tail(queue)
    /\ At_(w, "back")
    /\ UNCHANGED <<sent, pair, inbox, unread, forwarded, lost, events, received, replies>>

\* uct_open_clientfd_udp, setsockopt and bind.  Without a socket the worker
\* returns for good; a failed bind is only logged.
OpenBack(w) ==
    /\ upc[w] = "back"
    /\ \/ \E b \in {"bound", "unbound"} :
             /\ pair' = [pair EXCEPT ![cur[w].n] = [w |-> w, c |-> cur[w].c, back |-> b, up |-> "none"]]
             /\ At_(w, "connect")
             /\ UNCHANGED <<cur, lost>>
       \/ /\ At_(w, "dead")
          /\ lost' = lost \cup {cur[w]}
          /\ cur' = [cur EXCEPT ![w] = None]
          /\ UNCHANGED pair
    /\ UNCHANGED <<queue, sent, inbox, unread, forwarded, events, received, replies>>

\* uct_connect: from now on a bound back socket gets what its client sends.
ConnectBack(w) ==
    /\ upc[w] = "connect"
    /\ pair' = [pair EXCEPT ![cur[w].n].back = IF @ = "bound" THEN "connected" ELSE "other port"]
    /\ At_(w, "up")
    /\ UNCHANGED <<queue, sent, cur, inbox, unread, forwarded, lost, events, received, replies>>

\* A failed uct_connect is ignored: the back socket stays as bind left it.
ConnectFail(w) ==
    /\ upc[w] = "connect"
    /\ At_(w, "up")
    /\ UNCHANGED <<queue, sent, cur, pair, inbox, unread, forwarded, lost, events, received, replies>>

\* uct_upstream_get_connetion, the registration, whose failure is ignored, and
\* sendto.  With no upstream connection NULL is dereferenced: every thread dies.
Forward(w) ==
    /\ upc[w] = "up"
    /\ \/ \E r \in {"registered", "ignored"} :
             /\ pair' = [pair EXCEPT ![cur[w].n].up = r]
             /\ forwarded' = forwarded \cup {cur[w]}
             /\ At_(w, "wait")
             /\ UNCHANGED lost
       \/ /\ upc' = [v \in UdpWorkers |-> "dead"]
          /\ lost' = lost \cup {cur[v] : v \in {v \in UdpWorkers : upc[v] \in {"back", "connect", "up"}}}
          /\ UNCHANGED <<pair, forwarded>>
    /\ cur' = [v \in UdpWorkers |-> IF upc'[v] = "dead" \/ v = w THEN None ELSE cur[v]]
    /\ UNCHANGED <<queue, sent, inbox, unread, events, received, replies>>

\* sendto fails, and what it returns is not looked at: the pair is there, open
\* and perhaps registered, for a datagram no server got.
SendFail(w) ==
    /\ upc[w] = "up"
    /\ \E r \in {"registered", "ignored"} : pair' = [pair EXCEPT ![cur[w].n].up = r]
    /\ lost' = lost \cup {cur[w]}
    /\ cur' = [cur EXCEPT ![w] = None]
    /\ At_(w, "wait")
    /\ UNCHANGED <<queue, sent, inbox, unread, forwarded, events, received, replies>>

\* An upstream server replies to the datagram of pair n, perhaps with nothing.
Reply(n) ==
    /\ \E d \in forwarded : d.n = n
    /\ pair[n].up # "closed" /\ replies[n] < MaxReplies
    /\ replies' = [replies EXCEPT ![n] = @ + 1]
    /\ \E body \in {"data", "empty"} : inbox' = [inbox EXCEPT ![n] = Append(@, body)]
    /\ UNCHANGED <<queue, sent, upc, cur, pair, unread, forwarded, lost, events, received>>

\* epoll_wait with a timeout of 1 ms, right after the sendto and only then.
EpollWait(w) ==
    /\ upc[w] = "wait"
    /\ events' = [events EXCEPT ![w] = {n \in Pairs : /\ pair[n].w = w /\ pair[n].up = "registered"
                                                      /\ inbox[n] # <<>>}]
    /\ At_(w, "events")
    /\ UNCHANGED <<queue, sent, cur, pair, inbox, unread, forwarded, lost, received, replies>>

\* The replies one uct_readn joins: it reads until the socket is empty or a
\* datagram is, which it takes for the end of the file.
Empty(s)  == {k \in DOMAIN s : s[k] = "empty"}
Joined(s) == IF Empty(s) = {} THEN s ELSE SubSeq(s, 1, Min(Empty(s)) - 1)
Rest(s)   == IF Empty(s) = {} THEN <<>> ELSE SubSeq(s, Min(Empty(s)) + 1, Len(s))

\* Mutant of Dest: the reply goes to the client of another pair.
DestLatest(n) == pair[CHOOSE m \in Pairs : pair[m].back # "none" /\ \A q \in Pairs : pair[q].back # "none" => q <= m].c

Dest(n) == pair[n].c

\* Something was read: it is written to the client as one datagram, through a
\* back socket that is connected.
EventRead(w) ==
    /\ upc[w] = "events"
    /\ \E n \in events[w] :
         /\ pair[n].back \in {"connected", "other port"}
         /\ Joined(inbox[n]) # <<>>
         /\ received' = [received EXCEPT ![Dest(n)] = Append(@, [pair |-> n, parts |-> Len(Joined(inbox[n]))])]
         /\ inbox' = [inbox EXCEPT ![n] = Rest(@)]
    /\ UNCHANGED <<queue, sent, upc, cur, pair, unread, forwarded, lost, events, replies>>

\* The write fails, as it does on every socket not connected: what was read is
\* gone, and the loop reads on.
EventDrop(w) ==
    /\ upc[w] = "events"
    /\ \E n \in events[w] :
         /\ Joined(inbox[n]) # <<>>
         /\ inbox' = [inbox EXCEPT ![n] = Rest(@)]
    /\ UNCHANGED <<queue, sent, upc, cur, pair, unread, forwarded, lost, events, received, replies>>

\* Nothing is there (EAGAIN): the next event.
EventAgain(w) ==
    /\ upc[w] = "events"
    /\ \E n \in events[w] : inbox[n] = <<>> /\ events' = [events EXCEPT ![w] = @ \ {n}]
    /\ UNCHANGED <<queue, sent, upc, cur, pair, inbox, unread, forwarded, lost, received, replies>>

\* An empty datagram comes first: both sockets are closed.
EventClose(w) ==
    /\ upc[w] = "events"
    /\ \E n \in events[w] :
         /\ inbox[n] # <<>> /\ Joined(inbox[n]) = <<>>
         /\ pair' = [pair EXCEPT ![n].back = "closed", ![n].up = "closed"]
         /\ inbox' = [inbox EXCEPT ![n] = <<>>]
         /\ lost' = lost \cup unread[n]
         /\ unread' = [unread EXCEPT ![n] = {}]
         /\ events' = [events EXCEPT ![w] = @ \ {n}]
    /\ UNCHANGED <<queue, sent, upc, cur, forwarded, received, replies>>

EventsEnd(w) ==
    /\ upc[w] = "events" /\ events[w] = {}
    /\ At_(w, "recv")
    /\ UNCHANGED <<queue, sent, cur, pair, inbox, unread, forwarded, lost, events, received, replies>>

UdpNext ==
    \/ \E c \in Clients : ClientSend(c)
    \/ \E n \in Pairs : Reply(n)
    \/ \E w \in UdpWorkers :
         \/ Recvfrom(w) \/ OpenBack(w) \/ ConnectBack(w) \/ ConnectFail(w) \/ Forward(w) \/ SendFail(w)
         \/ EpollWait(w) \/ EventRead(w) \/ EventDrop(w) \/ EventAgain(w) \/ EventClose(w) \/ EventsEnd(w)

UdpSpec == InitUdp /\ [][UdpNext]_udpVars

-----------------------------------------------------------------------------
(* Properties *)

\* What a client receives are replies to a datagram of its own, though every
\* worker handles many clients and copies the replies of all its pairs while it
\* serves one.
RightClient ==
    \A c \in Clients : \A k \in DOMAIN received[c] :
        \E d \in forwarded : d.n = received[c][k].pair /\ d.c = c

\* Each datagram is in one place: in the listening socket, with one worker,
\* sent on once, dropped, or in a back socket, where nobody reads it, which
\* takes an earlier datagram of the client, or a bind that the connect has not
\* yet followed or, when it failed, never will.
DatagramOnce ==
    \A k \in 1 .. sent :
        LET places == {p \in ({"queue", "forwarded", "lost"} \X {0}) \cup ({"worker"} \X UdpWorkers)
                             \cup ({"unread"} \X Pairs) :
                         CASE p[1] = "queue" -> \E i \in DOMAIN queue : queue[i].n = k
                           [] p[1] = "forwarded" -> \E d \in forwarded : d.n = k
                           [] p[1] = "lost" -> \E d \in lost : d.n = k
                           [] p[1] = "worker" -> cur[p[2]].n = k
                           [] p[1] = "unread" -> \E d \in unread[p[2]] : d.n = k}
        IN  Cardinality(places) = 1
=============================================================================
