----------------------------- MODULE RoundRobin -----------------------------
(***************************************************************************)
(* The round_robin policy (uct_upstream_round_robin_get and _get_conn)     *)
(* with everything that runs beside it: several workers, connects that     *)
(* fail, the health checker, and the clock.                                *)
(*                                                                         *)
(* The selection runs under cycle->mutex, which keeps other selections     *)
(* out and nothing else: the connects and the checker change is_down,      *)
(* effective_weight and last_fail_time under srv->lock in the meantime.    *)
(* now is read once, when the mutex is obtained; a server that goes down   *)
(* later in the selection has last_fail_time > now, and the unsigned       *)
(* difference is huge.                                                     *)
(*                                                                         *)
(* The scans take one step per server.  gcc -O2 loads effective_weight     *)
(* once per server and adds that value to both sums, and the step does so  *)
(* too; the store of a probe's unit of weight is a step of its own.        *)
(***************************************************************************)
EXTENDS HealthCheck

CONSTANT WeightBound    \* bound: no selection starts beyond it

ASSUME RoundRobinAssumption == WeightBound \in Nat

VARIABLES mutex,            \* holder of cycle->mutex
          current_weight,   \* srv->current_weight
          i, total_weight, max, best,   \* locals of the selection under way
          lag               \* clock ticks since it read now

scanVars == <<mutex, current_weight, i, total_weight, max, best, lag>>
rrVars   == <<srvVars, connVars, checkVars, scanVars>>

SelectPc == {"scan1", "probe", "scan2", "charge"}

InitScan ==
    /\ mutex = NoThread
    /\ current_weight = [s \in Servers |-> 0]
    /\ i = 0 /\ total_weight = 0 /\ max = 0 /\ best = 0 /\ lag = 0

Init == InitUpstream /\ InitCheck /\ InitScan

-----------------------------------------------------------------------------

\* now - last_fail_time in unsigned arithmetic, for the now of the selection
\* under way: Wrapped stands for the huge value of a negative difference.
Wrapped(s) == AgeCap(s) + 1
Elapsed(s) == IF age[s] >= lag THEN age[s] - lag ELSE Wrapped(s)

\* The condition under which both scans pass over a server.
Skip(s) == is_down[s] /\ IsFallback[s] /\ Elapsed(s) < FailTimeout[s]

\* Mutant of Retry: > has become < in the comparison with fail_timeout.
RetryEarly(s) == Elapsed(s) < FailTimeout[s] /\ is_down[s] /\ effective_weight[s] = 0

\* The condition under which the first scan gives a server a unit of weight.
Retry(s) == Elapsed(s) > FailTimeout[s] /\ is_down[s] /\ effective_weight[s] = 0

\* A client arrives: uct_lock_p(mutex), now = time(NULL).
SelectLock(w) ==
    /\ wpc[w] = "idle"
    /\ OpenBy(w) < MaxOpen
    /\ \A s \in Servers : current_weight[s] \in -WeightBound .. WeightBound
    /\ mutex = NoThread
    /\ mutex' = w
    /\ Goto(w, "scan1")
    /\ UNCHANGED <<srvVars, checkVars, wsrv, wreg, open,
                   current_weight, i, total_weight, max, best, lag>>

\* Mutant of Advance: one server too many.
AdvanceTooFar(w, pc) ==
    IF i + 1 <= N THEN i' = i + 1 /\ UNCHANGED wpc ELSE i' = 0 /\ Goto(w, pc)

\* The loop index moves on; the last server ends the loop.
Advance(w, pc) ==
    IF i + 1 < N THEN i' = i + 1 /\ UNCHANGED wpc ELSE i' = 0 /\ Goto(w, pc)

\* Mutant of AddWeight: the total misses servers that are down.
AddWeightUpOnly(n) ==
    /\ total_weight' = IF is_down[i] THEN total_weight ELSE total_weight + n
    /\ current_weight' = [current_weight EXCEPT ![i] = @ + n]

\* total_weight += ..., current_weight += ..., of the one value loaded.
AddWeight(n) ==
    /\ total_weight' = total_weight + n
    /\ current_weight' = [current_weight EXCEPT ![i] = @ + n]

ScanSkip(w) ==
    /\ wpc[w] = "scan1" /\ Skip(i)
    /\ Advance(w, "scan2")
    /\ UNCHANGED <<srvVars, checkVars, wsrv, wreg, open,
                   mutex, current_weight, total_weight, max, best, lag>>

ScanAdd(w) ==
    /\ wpc[w] = "scan1" /\ ~Skip(i) /\ ~Retry(i)
    /\ AddWeight(effective_weight[i])
    /\ Advance(w, "scan2")
    /\ UNCHANGED <<srvVars, checkVars, wsrv, wreg, open, mutex, max, best, lag>>

\* The decision to probe, and (Probe) the store of effective_weight, which
\* srv->lock does not protect.
ScanRetry(w) ==
    /\ wpc[w] = "scan1" /\ ~Skip(i) /\ Retry(i)
    /\ Goto(w, "probe")
    /\ UNCHANGED <<srvVars, checkVars, wsrv, wreg, open, scanVars>>

Probe(w) ==
    /\ wpc[w] = "probe"
    /\ effective_weight' = [effective_weight EXCEPT ![i] = 1]
    /\ AddWeight(1)
    /\ IF i + 1 < N THEN i' = i + 1 /\ Goto(w, "scan1") ELSE i' = 0 /\ Goto(w, "scan2")
    /\ UNCHANGED <<fails, is_down, connection_n, age, lock, checkVars, wsrv, wreg, open,
                   mutex, max, best, lag>>

Better(s) == ~Skip(s) /\ current_weight[s] > max

\* The second scan.  best = 0 stays when no server passes.
ScanBest(w) ==
    /\ wpc[w] = "scan2"
    /\ max'  = IF Better(i) THEN current_weight[i] ELSE max
    /\ best' = IF Better(i) THEN i ELSE best
    /\ Advance(w, "charge")
    /\ UNCHANGED <<srvVars, checkVars, wsrv, wreg, open, mutex, current_weight, total_weight, lag>>

\* Mutant of Charge: the winner is not charged.
ChargeNothing(w) ==
    /\ wpc[w] = "charge"
    /\ mutex' = NoThread
    /\ wsrv' = [wsrv EXCEPT ![w] = best]
    /\ Goto(w, "connect")
    /\ i' = 0 /\ total_weight' = 0 /\ max' = 0 /\ best' = 0 /\ lag' = 0
    /\ UNCHANGED <<srvVars, checkVars, wreg, open, current_weight>>

\* The winner pays the total; uct_lock_v(mutex); the connect is next.
Charge(w) ==
    /\ wpc[w] = "charge"
    /\ current_weight' = [current_weight EXCEPT ![best] = @ - total_weight]
    /\ mutex' = NoThread
    /\ wsrv' = [wsrv EXCEPT ![w] = best]
    /\ Goto(w, "connect")
    /\ i' = 0 /\ total_weight' = 0 /\ max' = 0 /\ best' = 0 /\ lag' = 0
    /\ UNCHANGED <<srvVars, checkVars, wreg, open>>

SelectNext(w) ==
    \/ SelectLock(w) \/ ScanSkip(w) \/ ScanAdd(w) \/ ScanRetry(w)
    \/ Probe(w) \/ ScanBest(w) \/ Charge(w)

\* The clock advances by one tick, at most MaxLag times during a selection.
\* The first guard only leaves out ticks that no comparison can tell.
Tick ==
    /\ \/ mutex # NoThread
       \/ \E s \in Servers : \/ age[s] < AgeCap(s)
                             \/ \E e \in 0..CheckTimeout[s]-1 : pending[s][e] > 0
    /\ mutex # NoThread => lag < MaxLag
    /\ lag' = IF mutex = NoThread THEN 0 ELSE lag + 1
    /\ AgeServers
    /\ AgePending
    /\ UNCHANGED <<effective_weight, fails, is_down, connection_n, lock, connVars,
                   check_fails, check_successes, cpc, csrv, creg,
                   mutex, current_weight, i, total_weight, max, best>>

WorkerNext(w) ==
    \/ SelectNext(w)
    \/ ConnectNext(w) /\ UNCHANGED <<checkVars, scanVars>>

Next ==
    \/ \E w \in Workers : WorkerNext(w)
    \/ CheckerNext /\ UNCHANGED <<connVars, scanVars>>
    \/ Tick

Spec == Init /\ [][Next]_rrVars

\* Threads are scheduled and time passes; clients keep coming and going.
\* Nothing is assumed of the checker nor of the outcome of a connect.
Fairness == /\ \A w \in Workers : WF_rrVars(WorkerNext(w))
            /\ SF_rrVars(Tick)

FairSpec == Spec /\ Fairness

-----------------------------------------------------------------------------
(* Properties *)

TypeOK ==
    /\ UpstreamTypeOK
    /\ CheckTypeOK
    /\ wpc \in [Workers -> ConnectPc \cup SelectPc]
    /\ mutex \in Workers \cup {NoThread}
    /\ current_weight \in [Servers -> Int]
    /\ i \in Servers /\ best \in Servers
    /\ total_weight \in Int /\ max \in Nat /\ lag \in 0..MaxLag

\* The current weights add up to what the selection under way has handed out
\* and not yet charged, and to 0 between selections, whatever the connects and
\* the checker do to effective_weight meanwhile: no weight is minted or lost,
\* so the smoothing of the round robin never drifts.
WeightConservation == SumFunctionOnSet(current_weight, Servers) = total_weight

\* The two kinds of lock never wait for each other, and none is left behind: a
\* lock that is taken is held by a thread inside the section it protects, where no
\* step waits for anything, on whichever path of a connect, a close, a check or a
\* selection it is.  So nobody spins for a thread that spins, or that has gone.
NoGridlock ==
    /\ mutex # NoThread => wpc[mutex] \in SelectPc
    /\ LockHolders

\* connection_n of a server is the number of sockets open to it, but for those
\* just opened and not yet counted and those just closed and still counted: no
\* failed connect, revival or lost race makes it drift.
ConnectionCount == \A s \in Servers : Counted(s)

\* A server that is down is tried again, or is brought up: its age comes to
\* exceed fail_timeout, a selection gives it a unit of weight, and it is chosen
\* however much weight the other servers have.
DownRetried ==
    \A s \in Servers :
        is_down[s] ~> \/ ~is_down[s]
                      \/ \E w \in Workers : wpc[w] = "connect" /\ wsrv[w] = s
=============================================================================
