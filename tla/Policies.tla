------------------------------ MODULE Policies ------------------------------
(***************************************************************************)
(* The policies least_conn, random, heuristic and ip_hash, beside the      *)
(* connects, the closes, the health checker and the clock.  One of them is *)
(* configured and stays.                                                   *)
(*                                                                         *)
(* Only least_conn takes cycle->mutex; the others read the servers with no *)
(* lock at all.  Every scan takes one step per server or ring point.  What *)
(* the scan of worker w has as best is wsrv[w], and its total_weight,      *)
(* randnum or min is wreg[w].  least_conn increments connection_n under    *)
(* cycle->mutex, while connects and closes change it under srv->lock, so   *)
(* the load and the store are two steps.  uct_upstream_random_get divides  *)
(* by the total weight: a total of 0 ends the process.                     *)
(***************************************************************************)
EXTENDS HealthCheck, HashRing

CONSTANTS Policies,        \* the policies to configure
          Rings,           \* the rings uct_upstream_init_hash_ring may build
          Hashes,          \* md5_hash of the clients' addresses
          TrafficWindow,   \* srv->traffic_window
          Modulus,         \* 2^64, the range of uct_uint_t, scaled down
          Bursts,          \* values of conn_traffic after a batch sent to a server
          CountBound,      \* bound: no selection starts beyond it
          TrafficBound     \* bound: no batch is added to more than this

ASSUME PoliciesAssumption ==
    /\ Policies \subseteq {"least_conn", "random", "heuristic", "ip_hash"}
    /\ \A r \in Rings : /\ r \in Seq([srv : Servers, hash : Int])
                        /\ r # <<>> /\ Sorted(r)
    /\ Hashes \subseteq Int
    /\ Modulus \in Nat /\ Modulus >= 4
    /\ Bursts \subseteq 1 .. Modulus-1
    /\ TrafficWindow \in [Servers -> Nat]
    /\ CountBound \in Nat /\ TrafficBound \in Nat

VARIABLES policy,       \* cycle->policy
          ring,         \* the points of the hash ring, sorted
          mutex,        \* holder of cycle->mutex
          wi,           \* loop index of each worker's selection
          wlag,         \* clock ticks since it read now
          whash,        \* hash of the address of each worker's client
          wpass,        \* the servers the scan could not choose so far
          traffic,      \* srv->traffic
          sendAge,      \* now - srv->last_send_time, up to the window
          crashed       \* the process died of a division by zero

selVars  == <<mutex, wi, wlag, whash, wpass>>
confVars == <<policy, ring>>
flowVars == <<traffic, sendAge>>
polVars  == <<srvVars, connVars, checkVars, selVars, confVars, flowVars, crashed>>

IntMax == Modulus \div 2 - 1    \* UCT_MAX_INT_T_VALUE

\* Only ip_hash builds a ring.  last_send_time is not initialised: any age of
\* it will do.
InitPolicies ==
    /\ policy \in Policies
    /\ ring \in IF policy = "ip_hash" THEN Rings ELSE {<<>>}
    /\ mutex = NoThread
    /\ wi = [w \in Workers |-> 0]
    /\ wlag = [w \in Workers |-> 0]
    /\ whash = [w \in Workers |-> 0]
    /\ wpass = [w \in Workers |-> {}]
    /\ traffic = [s \in Servers |-> 0]
    /\ sendAge \in IF policy = "heuristic" THEN [Servers -> {0, 1}] ELSE {[s \in Servers |-> 0]}
    /\ crashed = FALSE

Init == InitUpstream /\ InitCheck /\ InitPolicies

-----------------------------------------------------------------------------
(* The conditions of the scans *)

Idle(w) == wpc[w] = "idle" /\ OpenBy(w) < MaxOpen

\* now - last_fail_time, which wraps round if the failure came after now.
Elapsed(w, s) == IF age[s] >= wlag[w] THEN age[s] - wlag[w] ELSE AgeCap(s) + 1

\* heuristic and ip_hash pass over a server that is down whenever is_fallback
\* is set, least_conn and random for fail_timeout only.
PassOver(w, s) ==
    /\ is_down[s] /\ IsFallback[s]
    /\ policy \in {"least_conn", "random"} => Elapsed(w, s) < FailTimeout[s]

Retry(w, s) == Elapsed(w, s) > FailTimeout[s] /\ is_down[s] /\ effective_weight[s] = 0

\* What least_conn and heuristic look for the least of, an unsigned number.
Load(s) == IF policy = "least_conn" THEN connection_n[s] % Modulus ELSE traffic[s]

\* A server that least_conn and heuristic cannot choose: one passed over, or one
\* whose load is not below the minimum the scan begins with.
Barred(w, s) == PassOver(w, s) \/ Load(s) >= IntMax

\* The loop goes on with the next server, or ends at pc.
Advance(w, here, pc) ==
    IF wi[w] + 1 < N THEN wi' = [wi EXCEPT ![w] = @ + 1] /\ Goto(w, here)
                     ELSE wi' = [wi EXCEPT ![w] = 0] /\ Goto(w, pc)

-----------------------------------------------------------------------------
(* least_conn and heuristic *)

MinStart(w) ==
    /\ Idle(w) /\ policy \in {"least_conn", "heuristic"}
    /\ \A s \in Servers : connection_n[s] <= CountBound
    /\ IF policy = "least_conn" THEN mutex = NoThread /\ mutex' = w ELSE UNCHANGED mutex
    /\ wreg' = [wreg EXCEPT ![w] = IntMax]
    /\ Goto(w, "min")
    /\ UNCHANGED <<srvVars, checkVars, wsrv, open, wi, wlag, whash, wpass, flowVars, crashed>>

\* Mutant of Lighter: a server that is passed over is compared all the same.
LighterAnyway(w, s) == Load(s) < wreg[w]

Lighter(w, s) == ~PassOver(w, s) /\ Load(s) < wreg[w]

\* Best stays server 0 when no server can be chosen.
MinScan(w) ==
    LET s == wi[w]
        better == Lighter(w, s)
    IN  /\ wpc[w] = "min"
        /\ wpass' = [wpass EXCEPT ![w] = IF Barred(w, s) THEN @ \cup {s} ELSE @]
        /\ wsrv' = [wsrv EXCEPT ![w] = IF better THEN s ELSE @]
        /\ wreg' = [wreg EXCEPT ![w] = IF better THEN Load(s) ELSE @]
        /\ Advance(w, "min", IF policy = "least_conn" THEN "load" ELSE "connect")
        /\ UNCHANGED <<srvVars, checkVars, open, mutex, wlag, whash, flowVars, crashed>>

\* srv[best].connection_n++ is a load ...
CountLoad(w) ==
    /\ wpc[w] = "load"
    /\ wreg' = [wreg EXCEPT ![w] = connection_n[wsrv[w]]]
    /\ Goto(w, "store")
    /\ UNCHANGED <<srvVars, checkVars, wsrv, open, selVars, flowVars, crashed>>

\* ... and a store, which is lost if a connect or a close of another worker
\* loaded the count before it; uct_lock_v(mutex).
CountStore(w) ==
    LET s == wsrv[w]
    IN  /\ wpc[w] = "store"
        /\ \/ connection_n' = [connection_n EXCEPT ![s] = wreg[w] + 1]
           \/ /\ \E v \in Workers : wpc[v] \in {"grow", "drop"} /\ wsrv[v] = s
              /\ UNCHANGED connection_n
        /\ mutex' = NoThread
        /\ Goto(w, "connect")
        /\ UNCHANGED <<effective_weight, fails, is_down, age, lock, checkVars, wsrv, wreg, open,
                       wi, wlag, whash, wpass, flowVars, crashed>>

-----------------------------------------------------------------------------
(* random *)

RandomStart(w) ==
    /\ Idle(w) /\ policy = "random"
    /\ Goto(w, "weigh")
    /\ UNCHANGED <<srvVars, checkVars, wsrv, wreg, open, selVars, flowVars, crashed>>

\* The first scan adds the weights up; a server to be tried again is given its
\* unit of weight by a store of its own.
Weigh(w) ==
    LET s == wi[w]
    IN  /\ wpc[w] = "weigh"
        /\ IF ~PassOver(w, s) /\ Retry(w, s)
           THEN Goto(w, "probe") /\ UNCHANGED <<wi, wreg>>
           ELSE /\ Advance(w, "weigh", "draw")
                /\ wreg' = [wreg EXCEPT ![w] = IF PassOver(w, s) THEN @ ELSE @ + effective_weight[s]]
        /\ UNCHANGED <<srvVars, checkVars, wsrv, open, mutex, wlag, whash, wpass, flowVars, crashed>>

WeighProbe(w) ==
    /\ wpc[w] = "probe"
    /\ effective_weight' = [effective_weight EXCEPT ![wi[w]] = 1]
    /\ wreg' = [wreg EXCEPT ![w] = @ + 1]
    /\ Advance(w, "weigh", "draw")
    /\ UNCHANGED <<fails, is_down, connection_n, age, lock, checkVars, wsrv, open,
                   mutex, wlag, whash, wpass, flowVars, crashed>>

\* rand() % total_weight; a negative total divides as its absolute value does.
\* now is read again.
Draw(w) ==
    LET total == IF wreg[w] < 0 THEN -wreg[w] ELSE wreg[w]
    IN  /\ wpc[w] = "draw"
        /\ crashed' = (total = 0)
        /\ \E r \in 0 .. (IF total = 0 THEN 0 ELSE total - 1) : wreg' = [wreg EXCEPT ![w] = r]
        /\ wlag' = [wlag EXCEPT ![w] = 0]
        /\ Goto(w, "find")
        /\ UNCHANGED <<srvVars, checkVars, wsrv, open, mutex, wi, whash, wpass, flowVars>>

\* The second scan; best stays server 0 if the weights have become less.
Find(w) ==
    LET s == wi[w]
        hit == ~PassOver(w, s) /\ wreg[w] < effective_weight[s]
    IN  /\ wpc[w] = "find"
        /\ wpass' = [wpass EXCEPT ![w] = IF PassOver(w, s) THEN @ \cup {s} ELSE @]
        /\ IF hit
           THEN /\ wsrv' = [wsrv EXCEPT ![w] = s]
                /\ wi' = [wi EXCEPT ![w] = 0]
                /\ Goto(w, "connect")
                /\ UNCHANGED wreg
           ELSE /\ wreg' = [wreg EXCEPT ![w] = IF PassOver(w, s) THEN @ ELSE @ - effective_weight[s]]
                /\ Advance(w, "find", "connect")
                /\ UNCHANGED wsrv
        /\ UNCHANGED <<srvVars, checkVars, open, mutex, wlag, whash, flowVars, crashed>>

-----------------------------------------------------------------------------
(* ip_hash *)

\* The server of the client's point is taken, or passed over and the search for
\* another point begins, at the first with the same hash.
HashStart(w) ==
    /\ Idle(w) /\ policy = "ip_hash"
    /\ \E h \in Hashes :
         LET p == ring[GetHashPoint(ring, h)]
         IN  /\ whash' = [whash EXCEPT ![w] = h]
             /\ \/ /\ ~PassOver(w, p.srv)
                   /\ wsrv' = [wsrv EXCEPT ![w] = p.srv]
                   /\ Goto(w, "connect")
                   /\ UNCHANGED <<wi, wpass>>
                \/ /\ PassOver(w, p.srv)
                   /\ wpass' = [wpass EXCEPT ![w] = {p.srv}]
                   /\ wi' = [wi EXCEPT ![w] = LowerBound(ring, p.hash)]
                   /\ Goto(w, "ring")
                   /\ UNCHANGED wsrv
    /\ UNCHANGED <<srvVars, checkVars, wreg, open, mutex, wlag, flowVars, crashed>>

\* A point takes over if its server is up and has is_fallback set.  The search
\* ends with NULL at the end of the ring.
RingScan(w) ==
    LET s == ring[wi[w]].srv
        found == ~is_down[s] /\ IsFallback[s]
    IN  /\ wpc[w] = "ring"
        /\ wsrv' = [wsrv EXCEPT ![w] = IF found THEN s ELSE @]
        /\ wpass' = [wpass EXCEPT ![w] = IF found THEN @ ELSE @ \cup {s}]
        /\ wi' = [wi EXCEPT ![w] = IF found \/ @ = Len(ring) THEN 0 ELSE @ + 1]
        /\ Goto(w, IF found THEN "connect" ELSE IF wi[w] = Len(ring) THEN "turned" ELSE "ring")
        /\ UNCHANGED <<srvVars, checkVars, wreg, open, mutex, wlag, whash, flowVars, crashed>>

\* The worker closes a client for which it got no upstream connection.
TurnAway(w) ==
    /\ wpc[w] = "turned"
    /\ Goto(w, "idle")
    /\ wpass' = [wpass EXCEPT ![w] = {}]
    /\ whash' = [whash EXCEPT ![w] = 0]
    /\ UNCHANGED <<srvVars, checkVars, wsrv, wreg, open, mutex, wi, wlag, flowVars, crashed>>

-----------------------------------------------------------------------------
(* The traffic statistics of uct_epoll_process_events, which no lock guards. *)

\* traffic += conn_traffic after a batch sent to s.  conn_traffic is unsigned and
\* a failed uct_readn adds its -1, so that it may be Modulus-1.  The load ...
TrafficLoad(w) ==
    /\ wpc[w] = "idle" /\ policy = "heuristic"
    /\ \E s \in Servers, n \in Bursts :
         /\ open[w][s] > 0
         /\ traffic[s] <= TrafficBound
         /\ wsrv' = [wsrv EXCEPT ![w] = s]
         /\ wreg' = [wreg EXCEPT ![w] = traffic[s]]
         /\ wi' = [wi EXCEPT ![w] = n]
    /\ Goto(w, "sent")
    /\ UNCHANGED <<srvVars, checkVars, open, mutex, wlag, whash, wpass, flowVars, crashed>>

\* ... the store, and the load of traffic and last_send_time after it ...
TrafficStore(w) ==
    LET s == wsrv[w]
    IN  /\ wpc[w] = "sent"
        /\ traffic' = [traffic EXCEPT ![s] = (wreg[w] + wi[w]) % Modulus]
        /\ Goto(w, IF sendAge[s] >= TrafficWindow[s] THEN "roll" ELSE "again")
        /\ UNCHANGED <<srvVars, checkVars, wsrv, wreg, open, selVars, sendAge, crashed>>

TrafficReload(w) ==
    /\ wpc[w] = "again"
    /\ wreg' = [wreg EXCEPT ![w] = traffic[wsrv[w]]]
    /\ Goto(w, "add")
    /\ UNCHANGED <<srvVars, checkVars, wsrv, open, selVars, flowVars, crashed>>

\* ... then a new window, or the same bytes once more.
TrafficEnd(w) ==
    LET s == wsrv[w]
    IN  /\ wpc[w] \in {"roll", "add"}
        /\ traffic' = [traffic EXCEPT ![s] = (wi[w] + (IF wpc[w] = "add" THEN wreg[w] ELSE 0)) % Modulus]
        /\ sendAge' = [sendAge EXCEPT ![s] = IF wpc[w] = "roll" THEN 0 ELSE @]
        /\ wsrv' = [wsrv EXCEPT ![w] = 0]
        /\ wreg' = [wreg EXCEPT ![w] = 0]
        /\ wi' = [wi EXCEPT ![w] = 0]
        /\ Goto(w, "idle")
        /\ UNCHANGED <<srvVars, checkVars, open, mutex, wlag, whash, wpass, crashed>>

-----------------------------------------------------------------------------

\* The pcs of a selection that has read now.
Timed == {"min", "weigh", "probe", "draw", "find"}
Keeps(w) == policy # "heuristic" /\ wpc[w] \in Timed

\* One clock tick, at most MaxLag during a selection; a tick that nothing can
\* tell from none is left out.
Tick ==
    /\ \A w \in Workers : Keeps(w) => wlag[w] < MaxLag
    /\ wlag' = [w \in Workers |-> IF Keeps(w) THEN wlag[w] + 1 ELSE 0]
    /\ AgeServers
    /\ AgePending
    /\ sendAge' = [s \in Servers |-> IF policy = "heuristic" THEN Capped(sendAge[s] + 1, TrafficWindow[s])
                                     ELSE 0]
    /\ <<age, pending, sendAge, wlag>>' # <<age, pending, sendAge, wlag>>
    /\ UNCHANGED <<effective_weight, fails, is_down, connection_n, lock, connVars, check_fails,
                   check_successes, cpc, csrv, creg, mutex, wi, whash, wpass, traffic, crashed>>

SelectNext(w) ==
    \/ MinStart(w) \/ MinScan(w) \/ CountLoad(w) \/ CountStore(w)
    \/ RandomStart(w) \/ Weigh(w) \/ WeighProbe(w) \/ Draw(w) \/ Find(w)
    \/ HashStart(w) \/ RingScan(w) \/ TurnAway(w)
    \/ TrafficLoad(w) \/ TrafficStore(w) \/ TrafficReload(w) \/ TrafficEnd(w)

\* What was local to a selection is gone once its connect begins.
ConnectStep(w) ==
    /\ ConnectNext(w)
    /\ wlag' = [wlag EXCEPT ![w] = 0]
    /\ whash' = [whash EXCEPT ![w] = 0]
    /\ wpass' = [wpass EXCEPT ![w] = {}]
    /\ UNCHANGED <<checkVars, mutex, wi, flowVars, crashed>>

WorkerNext(w) == SelectNext(w) \/ ConnectStep(w)

Next ==
    /\ ~crashed
    /\ \/ \E w \in Workers : WorkerNext(w)
       \/ CheckerNext /\ UNCHANGED <<connVars, selVars, flowVars, crashed>>
       \/ Tick
    /\ UNCHANGED confVars

Spec == Init /\ [][Next]_polVars

-----------------------------------------------------------------------------
(* Properties *)

\* A server that the scan could not choose is still the one chosen only if it is
\* server 0, the default, and, but for random, only if the scan could choose no
\* server at all, although is_down, last_fail_time and the loads change during
\* it.  Down servers that are passed over cannot be chosen, and neither can one
\* whose count has wrapped below 0: then the default may be a down server 0
\* although another is up.  So may that of random, whose second scan finds
\* nothing if the weights became less after the first.
PassedOverIsLast ==
    \A w \in Workers :
        wpc[w] = "connect" /\ wsrv[w] \in wpass[w] /\ policy # "ip_hash" =>
            wsrv[w] = 0 /\ (policy # "random" => wpass[w] = Servers)

\* ip_hash: a client goes to the owner of its hash, or to a later point all of
\* whose predecessors, from the owner's on, belong to servers that were down or
\* may not take over, and is turned away only if that is so up to the end of
\* the ring: the search does not wrap round.  In particular a client whose own
\* server is up stays with it, whatever happens to the other servers.
RingAnswer ==
    \A w \in Workers :
        LET home == RingOwner(ring, whash[w])
            passed(k) == ring[k].srv \in wpass[w]
        IN  policy = "ip_hash" =>
              /\ wpc[w] = "connect" =>
                   \E p \in home .. Len(ring) : /\ ring[p].srv = wsrv[w]
                                                /\ \A k \in home .. p-1 : passed(k)
              /\ wpc[w] = "turned" => \A k \in home .. Len(ring) : passed(k)

\* The random policy does not divide by zero if no server has an active health
\* check (Checked = {}), as long as the servers to which no connect fails weigh
\* more than what failed connects can momentarily take off the others.
SurvivesWithReliable ==
    LET reliable == SumFunctionOnSet(Weight, Servers \ Unreliable)
        failing  == {s \in Unreliable : MaxFails[s] > 0}
        owed     == SumFunction([s \in failing |-> Weight[s] \div MaxFails[s]])
    IN  Checked = {} /\ reliable > owed => ~crashed
=============================================================================
