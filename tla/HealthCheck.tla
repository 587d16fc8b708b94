---------------------------- MODULE HealthCheck ----------------------------
(***************************************************************************)
(* The aggressive health check: the thread that runs uct_check_tcp_cycle.  *)
(* One periodic timer per server starts a non-blocking connect; its result *)
(* comes at once or later, as an event of the connecting socket.  The      *)
(* thread counts successes and failures and changes the server's state     *)
(* when a count reaches rise or fall.                                      *)
(*                                                                         *)
(* is_down is tested before srv->lock is taken and not again after, so a   *)
(* worker can change it in between.  last_fail_time is left alone.  The    *)
(* weight of a server brought up is loaded, stored and only then is the    *)
(* server up, that of one taken down is zeroed before is_down is set, in   *)
(* all builds: selections read and write both unlocked.                    *)
(***************************************************************************)
EXTENDS Upstream

CONSTANTS Checked,      \* servers with a nonzero check interval; a timer
                        \*   with interval 0 is disarmed and never fires
          CheckFall,    \* srv->check_fall
          CheckRise,    \* srv->check_rise
          CheckTimeout, \* srv->check_timeout, in clock ticks
          MaxPending    \* bound: checks of one server in flight

ASSUME HealthCheckAssumption ==
    /\ Checked \subseteq Servers
    /\ CheckFall \in [Servers -> Nat]
    /\ CheckRise \in [Servers -> Nat]
    /\ CheckTimeout \in [Servers -> Nat]
    /\ MaxPending \in Nat

VARIABLES check_fails, check_successes,  \* fields only the checker uses
          pending,      \* pending[s][e]: connects in flight that began e ticks
                        \*   ago, e = CheckTimeout[s] standing for all later
          cpc, csrv,    \* the checker: program counter, srv
          creg          \* the effective_weight it has loaded

checkVars == <<check_fails, check_successes, pending, cpc, csrv, creg>>

CheckerPc == {"wait", "rise", "raise", "up", "fall", "zero", "down"}

\* The locations at which the checker holds the lock of its server.
CheckedPc == {"raise", "up", "zero", "down"}

\* The counters are reset as the thread starts.
InitCheck ==
    /\ check_fails = [s \in Servers |-> 0]
    /\ check_successes = [s \in Servers |-> 0]
    /\ pending = [s \in Servers |-> [e \in 0..CheckTimeout[s] |-> 0]]
    /\ cpc = "wait"
    /\ csrv = 0
    /\ creg = 0

-----------------------------------------------------------------------------

\* check_successes++, and the decision to bring the server up.  Counts beyond
\* rise are not told apart.
CountSuccess(s) ==
    LET n == Capped(check_successes[s] + 1, CheckRise[s])
        up == is_down[s] /\ n >= CheckRise[s]
    IN  /\ check_successes' = [check_successes EXCEPT ![s] = n]
        /\ cpc' = IF up THEN "rise" ELSE "wait"
        /\ csrv' = IF up THEN s ELSE 0
        /\ UNCHANGED <<check_fails, creg>>

\* check_fails++, and the decision to take the server down.
CountFailure(s) ==
    LET n == Capped(check_fails[s] + 1, CheckFall[s])
        down == ~is_down[s] /\ n >= CheckFall[s]
    IN  /\ check_fails' = [check_fails EXCEPT ![s] = n]
        /\ cpc' = IF down THEN "fall" ELSE "wait"
        /\ csrv' = IF down THEN s ELSE 0
        /\ UNCHANGED <<check_successes, creg>>

\* The timer of s fires and uct_check_tcp has its answer at once:
\* UCT_CHECK_TCP_CONNECTED ...
TimerConnected(s) ==
    /\ cpc = "wait" /\ s \in Checked
    /\ CountSuccess(s)
    /\ UNCHANGED <<pending, srvVars>>

\* ... or UCT_CHECK_TCP_DISCONNECTED ...
TimerDisconnected(s) ==
    /\ cpc = "wait" /\ s \in Checked \cap Unreliable
    /\ CountFailure(s)
    /\ UNCHANGED <<pending, srvVars>>

\* Connects of s in flight, of whatever age.
InFlight(s) == SumFunctionOnSet(pending[s], 0..CheckTimeout[s])

\* ... or the socket is connecting and joins the epoll set.
TimerConnecting(s) ==
    /\ cpc = "wait" /\ s \in Checked
    /\ InFlight(s) < MaxPending
    /\ pending' = [pending EXCEPT ![s][0] = @ + 1]
    /\ UNCHANGED <<check_fails, check_successes, cpc, csrv, creg, srvVars>>

\* The event of a connecting socket without an error, and in time.
EventConnected(s) ==
    /\ cpc = "wait"
    /\ \E e \in 0..CheckTimeout[s]-1 : /\ pending[s][e] > 0
                                      /\ pending' = [pending EXCEPT ![s][e] = @ - 1]
    /\ CountSuccess(s)
    /\ UNCHANGED srvVars

\* The event of a connecting socket with an error, or too late.  This is the
\* only place where the timeout is looked at: no event, no failure.
EventFailed(s) ==
    /\ cpc = "wait"
    /\ \E e \in 0..CheckTimeout[s] :
         /\ pending[s][e] > 0
         /\ s \in Unreliable \/ e = CheckTimeout[s]
         /\ pending' = [pending EXCEPT ![s][e] = @ - 1]
    /\ CountFailure(s)
    /\ UNCHANGED srvVars

\* pthread_spin_lock(&srv->lock) for either decision, and the load of the
\* weight to be increased.
CheckLock ==
    /\ cpc \in {"rise", "fall"}
    /\ lock[csrv] = NoThread
    /\ lock' = [lock EXCEPT ![csrv] = Checker]
    /\ cpc' = IF cpc = "rise" THEN "raise" ELSE "zero"
    /\ creg' = IF cpc = "rise" THEN effective_weight[csrv] ELSE 0
    /\ UNCHANGED <<effective_weight, fails, is_down, connection_n, age,
                   check_fails, check_successes, pending, csrv>>

\* Unlock and reset of both counters, which only this thread uses.
CheckUnlock ==
    /\ lock' = [lock EXCEPT ![csrv] = NoThread]
    /\ check_fails' = [check_fails EXCEPT ![csrv] = 0]
    /\ check_successes' = [check_successes EXCEPT ![csrv] = 0]
    /\ cpc' = "wait"
    /\ csrv' = 0
    /\ creg' = 0
    /\ UNCHANGED <<connection_n, age, pending>>

\* effective_weight += 1, ...
CheckRaise ==
    /\ cpc = "raise"
    /\ effective_weight' = [effective_weight EXCEPT ![csrv] = creg + 1]
    /\ cpc' = "up"
    /\ creg' = 0
    /\ UNCHANGED <<fails, is_down, connection_n, age, lock,
                   check_fails, check_successes, pending, csrv>>

\* Mutant of CheckUp: the failures of the server are not forgotten.
CheckUpKeepFails ==
    /\ cpc = "up"
    /\ is_down' = [is_down EXCEPT ![csrv] = FALSE]
    /\ CheckUnlock
    /\ UNCHANGED <<effective_weight, fails>>

\* ... is_down = false, fails = 0.
CheckUp ==
    /\ cpc = "up"
    /\ is_down' = [is_down EXCEPT ![csrv] = FALSE]
    /\ fails' = [fails EXCEPT ![csrv] = 0]
    /\ CheckUnlock
    /\ UNCHANGED effective_weight

\* effective_weight = 0, ...
CheckZero ==
    /\ cpc = "zero"
    /\ effective_weight' = [effective_weight EXCEPT ![csrv] = 0]
    /\ cpc' = "down"
    /\ UNCHANGED <<fails, is_down, connection_n, age, lock,
                   check_fails, check_successes, pending, csrv, creg>>

\* ... is_down = true, fails = 1.
CheckDown ==
    /\ cpc = "down"
    /\ is_down' = [is_down EXCEPT ![csrv] = TRUE]
    /\ fails' = [fails EXCEPT ![csrv] = 1]
    /\ CheckUnlock
    /\ UNCHANGED effective_weight

CheckerNext ==
    \/ \E s \in Servers : \/ TimerConnected(s) \/ TimerDisconnected(s)
                          \/ TimerConnecting(s)
                          \/ EventConnected(s) \/ EventFailed(s)
    \/ CheckLock \/ CheckRaise \/ CheckUp \/ CheckZero \/ CheckDown

\* One more clock tick, as the checks in flight see it.
AgePending ==
    pending' = [s \in Servers |-> [e \in 0..CheckTimeout[s] |->
                  LET moved == IF e = 0 THEN 0 ELSE pending[s][e-1]
                      kept  == IF e = CheckTimeout[s] THEN pending[s][e] ELSE 0
                  IN  moved + kept]]

-----------------------------------------------------------------------------

CheckTypeOK ==
    /\ check_fails \in [Servers -> Nat]
    /\ check_successes \in [Servers -> Nat]
    /\ DOMAIN pending = Servers
    /\ \A s \in Servers : pending[s] \in [0..CheckTimeout[s] -> 0..MaxPending]
    /\ cpc \in CheckerPc
    /\ csrv \in Servers
    /\ creg \in Int

\* A worker has set is_down of s and is about to zero its weight, or the checker
\* has raised the weight of s and is about to clear is_down.
Emptying(s) == At({"zero"}, s) # {}
Raised(s) == cpc = "up" /\ csrv = s

\* What a selection, which takes no srv->lock, can see of a weight.  It is at
\* most one unit more than configured (the checker adds its unit without looking
\* at the limit), and negative only while a failed connect is about to clamp it.
\* A server marked down has at most the one unit a probe gives it, and one more
\* while the checker is bringing it up; only between the two stores of a failed
\* connect in source order is it down with weight left.
EffectiveWeightBounds ==
    \A s \in Servers :
        /\ effective_weight[s] <= Weight[s] + 1
        /\ is_down[s] /\ ~Emptying(s) => effective_weight[s] <= IF Raised(s) THEN 2 ELSE 1
        /\ effective_weight[s] < 0 => At({"clamp"}, s) # {}

\* Every srv->lock is free, or held by a thread that is between its lock and its
\* unlock of that server.
LockHolders ==
    \A s \in Servers :
        \/ lock[s] = NoThread
        \/ lock[s] \in Workers /\ wsrv[lock[s]] = s /\ wpc[lock[s]] \in LockedPc
        \/ lock[s] = Checker /\ csrv = s /\ cpc \in CheckedPc
=============================================================================
