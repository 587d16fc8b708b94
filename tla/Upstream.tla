------------------------------ MODULE Upstream ------------------------------
(***************************************************************************)
(* The state umicat keeps for every upstream server (uct_upstream_srv_t)   *)
(* and what a worker thread does to it once a policy has chosen a server:  *)
(* uct_upstream_connect with its passive health check, and the part of     *)
(* uct_epoll_process_events that ends a proxied connection.                *)
(*                                                                         *)
(* All of that happens under the server's spin lock srv->lock.  The load   *)
(* balance policies read and write some of the same fields without it, so  *)
(* the steps here are split wherever another thread can tell the           *)
(* difference: every change of effective_weight is a load and a later      *)
(* store, a failed connect stores a negative weight before it clamps it,   *)
(* and a successful one clears is_down before it restores weight.  The     *)
(* three stores that take a server down come in one of two orders: that of *)
(* the source, which the -O0 builds (make debug, make test) keep, and the  *)
(* one gcc -O2 (make) gives them, in which is_down is the last.            *)
(*                                                                         *)
(* Time is kept as ages.  age[s] is now - last_fail_time, which is         *)
(* saturated from the start since last_fail_time is initially 0.           *)
(***************************************************************************)
EXTENDS Integers, FiniteSets, Functions

CONSTANTS N,            \* cycle->srvs_n
          Workers,      \* worker threads
          Checker,      \* the health check thread
          NoThread,     \* "the lock is free"
          Weight,       \* srv->weight
          MaxFails,     \* srv->max_fails
          FailTimeout,  \* srv->fail_timeout, in clock ticks
          IsFallback,   \* srv->is_fallback
          Unreliable,   \* the servers a connect to which may fail
          MaxOpen,      \* bound: upstream connections open at once per worker
          MaxLag        \* bound: clock ticks during one selection

Servers == 0 .. N-1

ASSUME UpstreamAssumption ==
    /\ N \in Nat \ {0}
    /\ IsFiniteSet(Workers)
    /\ Weight \in [Servers -> Nat \ {0}]
    /\ MaxFails \in [Servers -> Nat]
    /\ FailTimeout \in [Servers -> Nat]
    /\ IsFallback \in [Servers -> BOOLEAN]
    /\ Unreliable \subseteq Servers
    /\ MaxOpen \in Nat
    /\ MaxLag \in Nat
    /\ Checker \notin Workers
    /\ NoThread \notin Workers \cup {Checker}

VARIABLES effective_weight, fails, is_down, connection_n,   \* fields of srv
          age,          \* now - srv->last_fail_time, up to AgeCap
          lock,         \* holder of srv->lock
          wpc,          \* program counter of each worker
          wsrv,         \* the server each worker is working on
          wreg,         \* the effective_weight each worker has loaded
          open          \* open[w][s]: w's open sockets to s

srvVars  == <<effective_weight, fails, is_down, connection_n, age, lock>>
connVars == <<wpc, wsrv, wreg, open>>

\* Ages above AgeCap cannot be told apart by any comparison in the code.
AgeCap(s) == FailTimeout[s] + 1 + MaxLag

\* The only test of srv->fails is fails >= max_fails: one more than max_fails
\* stands for every larger count.
FailsCap(s) == MaxFails[s] + 1

Capped(n, cap) == IF n < cap THEN n ELSE cap

\* Locations of a worker outside the policy's selection.
ConnectPc == {"idle", "connect", "opened", "refused", "decay", "clamp", "mark",
              "flag", "zero", "stamp", "stampO2", "zeroO2", "flagO2",
              "revive", "grow", "closed", "drop"}

\* Those between the stores that take a server down, in either order.
DownPc == {"flag", "zero", "stamp", "stampO2", "zeroO2", "flagO2"}

\* Those at which it holds the lock of its server.
LockedPc == {"decay", "clamp", "mark", "revive", "grow", "drop"} \cup DownPc

\* uct_conf_parse_upstream fills in one entry per configured server.
InitUpstream ==
    /\ effective_weight = Weight
    /\ fails = [s \in Servers |-> 0]
    /\ is_down = [s \in Servers |-> FALSE]
    /\ connection_n = [s \in Servers |-> 0]
    /\ age = [s \in Servers |-> AgeCap(s)]
    /\ lock = [s \in Servers |-> NoThread]
    /\ wpc = [w \in Workers |-> "idle"]
    /\ wsrv = [w \in Workers |-> 0]
    /\ wreg = [w \in Workers |-> 0]
    /\ open = [w \in Workers |-> [s \in Servers |-> 0]]

Goto(w, pc) == wpc' = [wpc EXCEPT ![w] = pc]

-----------------------------------------------------------------------------
(* uct_upstream_connect *)

\* uct_open_clientfd / uct_open_clientfd_udp, outside every lock.
OpenClientfd(w) ==
    /\ wpc[w] = "connect"
    /\ \/ /\ open' = [open EXCEPT ![w][wsrv[w]] = @ + 1]
          /\ Goto(w, "opened")
       \/ /\ wsrv[w] \in Unreliable
          /\ Goto(w, "refused")
          /\ UNCHANGED open
    /\ UNCHANGED <<srvVars, wsrv, wreg>>

\* pthread_spin_lock(&srv->lock), in the three places a worker takes it, and
\* the load of effective_weight that follows in the failing one.
SrvLock(w) ==
    /\ wpc[w] \in {"opened", "refused", "closed"}
    /\ lock[wsrv[w]] = NoThread
    /\ lock' = [lock EXCEPT ![wsrv[w]] = w]
    /\ wreg' = [wreg EXCEPT ![w] = IF wpc[w] = "refused" THEN effective_weight[wsrv[w]] ELSE 0]
    /\ Goto(w, CASE wpc[w] = "opened"  -> "revive"
                 [] wpc[w] = "refused" -> "decay"
                 [] wpc[w] = "closed"  -> "drop")
    /\ UNCHANGED <<effective_weight, fails, is_down, connection_n, age, wsrv, open>>

\* pthread_spin_unlock(&srv->lock) and the return, to uct_worker_thread_cycle
\* in the end: what was local to the call is gone.
SrvUnlock(w) ==
    /\ lock' = [lock EXCEPT ![wsrv[w]] = NoThread]
    /\ wsrv' = [wsrv EXCEPT ![w] = 0]
    /\ wreg' = [wreg EXCEPT ![w] = 0]
    /\ Goto(w, "idle")

\* if (max_fails) effective_weight -= weight / max_fails, and the test for a
\* negative result, which uses the value just computed.
Decay(w) ==
    LET s == wsrv[w]
        n == IF MaxFails[s] = 0 THEN wreg[w] ELSE wreg[w] - (Weight[s] \div MaxFails[s])
    IN  /\ wpc[w] = "decay"
        /\ effective_weight' = [effective_weight EXCEPT ![s] = IF MaxFails[s] = 0 THEN @ ELSE n]
        /\ wreg' = [wreg EXCEPT ![w] = 0]
        /\ Goto(w, IF n < 0 THEN "clamp" ELSE "mark")
        /\ UNCHANGED <<fails, is_down, connection_n, age, lock, wsrv, open>>

\* Mutant of Clamp: a negative weight is left as it is.
ClampLost(w) ==
    /\ wpc[w] = "clamp"
    /\ Goto(w, "mark")
    /\ UNCHANGED <<srvVars, wsrv, wreg, open>>

Clamp(w) ==
    /\ wpc[w] = "clamp"
    /\ effective_weight' = [effective_weight EXCEPT ![wsrv[w]] = 0]
    /\ Goto(w, "mark")
    /\ UNCHANGED <<fails, is_down, connection_n, age, lock, wsrv, wreg, open>>

\* The failure count after one more: in a new window if the last one is over.
Fresh(s) == age[s] > FailTimeout[s]
Count(s) == IF Fresh(s) THEN 1 ELSE Capped(fails[s] + 1, FailsCap(s))

\* max_fails failures take the server down.  The third conjunct of the code's
\* test, now - last_fail_time <= fail_timeout, always holds here.
GoesDown(s) == Count(s) >= MaxFails[s]

\* Mutant of Mark: the early return forgets the unlock.
MarkNoUnlock(w) ==
    /\ wpc[w] = "mark"
    /\ wsrv' = [wsrv EXCEPT ![w] = 0]
    /\ Goto(w, "idle")
    /\ UNCHANGED <<srvVars, wreg, open>>

\* The failure is counted; a server that goes down is stored to in the order the
\* build has for it, one that does not is unlocked, and NULL is returned for the
\* client.
Mark(w) ==
    LET s == wsrv[w]
    IN  /\ wpc[w] = "mark"
        /\ fails' = [fails EXCEPT ![s] = Count(s)]
        /\ age' = [age EXCEPT ![s] = IF Fresh(s) THEN 0 ELSE @]
        /\ \/ /\ GoesDown(s)
              /\ Goto(w, "flag") \/ Goto(w, "stampO2")
              /\ UNCHANGED <<lock, wsrv, wreg>>
           \/ ~GoesDown(s) /\ SrvUnlock(w)
        /\ UNCHANGED <<effective_weight, is_down, connection_n, open>>

\* is_down = true: the first store of the source, the last of -O2.
DownFlag(w) ==
    /\ wpc[w] \in {"flag", "flagO2"}
    /\ is_down' = [is_down EXCEPT ![wsrv[w]] = TRUE]
    /\ \/ wpc[w] = "flag" /\ Goto(w, "zero") /\ UNCHANGED <<lock, wsrv, wreg>>
       \/ wpc[w] = "flagO2" /\ SrvUnlock(w)
    /\ UNCHANGED <<effective_weight, fails, connection_n, age, open>>

\* Mutant of DownZero: the weight is left as it is.
DownZeroLost(w) ==
    /\ wpc[w] \in {"zero", "zeroO2"}
    /\ Goto(w, IF wpc[w] = "zero" THEN "stamp" ELSE "flagO2")
    /\ UNCHANGED <<srvVars, wsrv, wreg, open>>

\* effective_weight = 0.
DownZero(w) ==
    /\ wpc[w] \in {"zero", "zeroO2"}
    /\ effective_weight' = [effective_weight EXCEPT ![wsrv[w]] = 0]
    /\ Goto(w, IF wpc[w] = "zero" THEN "stamp" ELSE "flagO2")
    /\ UNCHANGED <<fails, is_down, connection_n, age, lock, wsrv, wreg, open>>

\* last_fail_time = now.
DownStamp(w) ==
    /\ wpc[w] \in {"stamp", "stampO2"}
    /\ age' = [age EXCEPT ![wsrv[w]] = 0]
    /\ \/ wpc[w] = "stampO2" /\ Goto(w, "zeroO2") /\ UNCHANGED <<lock, wsrv, wreg>>
       \/ wpc[w] = "stamp" /\ SrvUnlock(w)
    /\ UNCHANGED <<effective_weight, fails, is_down, connection_n, open>>

\* A successful connect brings a server that was down up, loads its weight ...
Revive(w) ==
    LET s == wsrv[w]
    IN  /\ wpc[w] = "revive"
        /\ is_down' = [is_down EXCEPT ![s] = FALSE]
        /\ fails' = [fails EXCEPT ![s] = IF is_down[s] THEN 0 ELSE @]
        /\ wreg' = [wreg EXCEPT ![w] = effective_weight[s]]
        /\ Goto(w, "grow")
        /\ UNCHANGED <<effective_weight, connection_n, age, lock, wsrv, open>>

\* ... restores one unit of it, unless it is complete, and counts the
\* connection; unlock.
Grow(w) ==
    LET s == wsrv[w]
    IN  /\ wpc[w] = "grow"
        /\ effective_weight' =
             [effective_weight EXCEPT ![s] = IF wreg[w] < Weight[s] THEN wreg[w] + 1 ELSE @]
        /\ connection_n' = [connection_n EXCEPT ![s] = @ + 1]
        /\ SrvUnlock(w)
        /\ UNCHANGED <<fails, is_down, age, open>>

-----------------------------------------------------------------------------
(* uct_epoll_process_events, one side having closed *)

\* Both sockets are closed before the lock is taken.
CloseProxy(w) ==
    /\ wpc[w] = "idle"
    /\ \E s \in Servers : /\ open[w][s] > 0
                          /\ open' = [open EXCEPT ![w][s] = @ - 1]
                          /\ wsrv' = [wsrv EXCEPT ![w] = s]
    /\ Goto(w, "closed")
    /\ UNCHANGED <<srvVars, wreg>>

\* Mutant of Drop: the count is kept.
DropLost(w) ==
    /\ wpc[w] = "drop"
    /\ SrvUnlock(w)
    /\ UNCHANGED <<effective_weight, fails, is_down, connection_n, age, open>>

\* connection_n--; unlock.
Drop(w) ==
    /\ wpc[w] = "drop"
    /\ connection_n' = [connection_n EXCEPT ![wsrv[w]] = @ - 1]
    /\ SrvUnlock(w)
    /\ UNCHANGED <<effective_weight, fails, is_down, age, open>>

-----------------------------------------------------------------------------

\* The steps of a worker that depend on no policy.
ConnectNext(w) ==
    \/ OpenClientfd(w) \/ SrvLock(w)
    \/ Decay(w) \/ Clamp(w) \/ Mark(w)
    \/ DownFlag(w) \/ DownZero(w) \/ DownStamp(w)
    \/ Revive(w) \/ Grow(w)
    \/ CloseProxy(w) \/ Drop(w)

\* One more clock tick, as last_fail_time sees it.
AgeServers == age' = [s \in Servers |-> Capped(age[s] + 1, AgeCap(s))]

\* The sockets of worker w that are open to any server, and those of any worker
\* that are open to server s.
OpenBy(w) == SumFunctionOnSet(open[w], Servers)
OpenTo(s) == SumFunctionOnSet([w \in Workers |-> open[w][s]], Workers)

-----------------------------------------------------------------------------
(* Properties shared by every policy *)

UpstreamTypeOK ==
    /\ effective_weight \in [Servers -> Int]
    /\ fails \in [Servers -> Nat]
    /\ is_down \in [Servers -> BOOLEAN]
    /\ connection_n \in [Servers -> Int]
    /\ age \in [Servers -> Nat]
    /\ lock \in [Servers -> Workers \cup {Checker, NoThread}]
    /\ wsrv \in [Workers -> Servers]
    /\ wreg \in [Workers -> Int]
    /\ open \in [Workers -> [Servers -> Nat]]

\* The two health checks and the connects agree on a server whenever its lock
\* is free: one that is down has a failure on record, and one that is up has
\* fewer than max_fails (none at all if max_fails is 0, where the first failure
\* takes it down).  So no server comes up with a count that its next failure
\* finds already spent.  At fails = max_fails it is down: the code's >=, where the
\* documentation says "exceeds".
FailsMatchState ==
    \A s \in Servers : lock[s] = NoThread =>
        /\ is_down[s] => fails[s] >= 1
        /\ ~is_down[s] => fails[s] = 0 \/ fails[s] < MaxFails[s]

\* Workers at one of the locations pcs, for server s.
At(pcs, s) == {w \in Workers : wpc[w] \in pcs /\ wsrv[w] = s}

\* connection_n of s is the number of sockets open to it, but for the sockets
\* just opened and not yet counted and those just closed and still counted.
Counted(s) ==
    connection_n[s] + Cardinality(At({"opened", "revive", "grow"}, s))
      = OpenTo(s) + Cardinality(At({"closed", "drop"}, s))
=============================================================================
