-------------------------- MODULE RoundRobinProofs --------------------------
(***************************************************************************)
(* Proofs about RoundRobin, for any number of servers, workers and checks  *)
(* in flight and any configuration of the servers.                         *)
(***************************************************************************)
EXTENDS RoundRobin, UpstreamProofs

RRPc == ConnectPc \cup SelectPc

ScanTyped ==
    /\ mutex \in Workers \cup {NoThread}
    /\ current_weight \in [Servers -> Int]
    /\ i \in Servers /\ best \in Servers
    /\ total_weight \in Int /\ max \in Nat /\ lag \in 0..MaxLag

\* A worker in the middle of a selection holds cycle->mutex.
MutexHeld == \A w \in Workers : wpc[w] \in SelectPc => mutex = w

\* The servers' invariants, which UpstreamProofs is about.
ServersInv == Typed(RRPc) /\ LocksHeld /\ WeightInv /\ FailsInv /\ PendingInv

\* The inductive invariant.
IInv == ServersInv /\ ConnectionCount /\ ScanTyped /\ MutexHeld /\ WeightConservation

\* The selections use one copy of i, total_weight, max, best and now, as each
\* worker does of its own: no two are under way at once.
OneSelection ==
    \A v, w \in Workers : wpc[v] \in SelectPc /\ wpc[w] \in SelectPc => v = w

-----------------------------------------------------------------------------

\* The program as uct_conf_parse_upstream and the start of the threads leave it.
LEMMA InitIInv == Init => IInv
<1> SUFFICES ASSUME Init PROVE IInv OBVIOUS
<1> USE DEF Init
<1>1. ConnectPc \subseteq RRPc BY DEF RRPc
<1>2. Typed(RRPc) /\ LocksHeld /\ WeightInv /\ FailsInv BY <1>1, InitServers
<1>3. PendingInv BY InitPending
<1>4. ConnectionCount BY InitCounted DEF ConnectionCount
<1>5. ScanTyped BY ServersNat, UpstreamAssumption DEF InitScan, ScanTyped
<1>6. MutexHeld BY DEF InitUpstream, MutexHeld, SelectPc
<1>7. WeightConservation
  <2>1. \A s \in Servers : current_weight[s] = 0 BY DEF InitScan
  <2>2. total_weight = 0 BY DEF InitScan
  <2> QED BY <2>1, <2>2, ServersNat, SumZero DEF WeightConservation
<1> QED BY <1>2, <1>3, <1>4, <1>5, <1>6, <1>7 DEF IInv, ServersInv

\* A step that adds n to the total and to one current weight, as both scans do.
LEMMA AddWeightConserves ==
    ASSUME ScanTyped, WeightConservation, NEW n \in Int, AddWeight(n)
    PROVE  WeightConservation' /\ current_weight' \in [Servers -> Int] /\ total_weight' \in Int
<1>1. /\ current_weight \in [Servers -> Int] /\ i \in Servers /\ total_weight \in Int
      /\ current_weight[i] + n \in Int
  BY DEF ScanTyped
<1>2. current_weight' = [current_weight EXCEPT ![i] = current_weight[i] + n] /\ total_weight' = total_weight + n
  BY DEF AddWeight
<1>3. IsFiniteSet(Servers) BY ServersNat
<1>4. SumFunctionOnSet([current_weight EXCEPT ![i] = current_weight[i] + n], Servers)
        = SumFunctionOnSet(current_weight, Servers) + (current_weight[i] + n) - current_weight[i]
  BY <1>1, <1>3, SumExcept
<1>5. SumFunctionOnSet(current_weight', Servers) = total_weight + n
  BY <1>1, <1>2, <1>4 DEF WeightConservation
<1> QED BY <1>1, <1>2, <1>5 DEF WeightConservation

\* Advance goes to the next server, or from the last one to what follows the scan.
LEMMA AdvanceIndex ==
    ASSUME ScanTyped, NEW w, NEW pc, Advance(w, pc)
    PROVE  /\ i' \in Servers
           /\ wpc' = wpc \/ wpc' = [wpc EXCEPT ![w] = pc]
<1>1. i \in 0..N-1 /\ N \in Nat \ {0} BY UpstreamAssumption DEF ScanTyped, Servers
<1> QED BY <1>1 DEF Advance, Goto, Servers

\* A step of the selection under cycle->mutex.
LEMMA SelectIInv ==
    ASSUME IInv, NEW w \in Workers, SelectNext(w)
    PROVE  IInv'
<1>1. /\ wpc \in [Workers -> RRPc] /\ wsrv \in [Workers -> Servers] /\ wreg \in [Workers -> Int]
      /\ effective_weight \in [Servers -> Int]
      /\ ScanTyped
  BY DEF IInv, ServersInv, Typed, UpstreamTypeOK
<1>2. NoThread \notin Workers BY UpstreamAssumption
<1>3. "idle" \notin BusyPc /\ SelectPc \cap BusyPc = {} /\ "connect" \notin BusyPc
  BY DEF BusyPc, LockedPc, DownPc, SelectPc
<1>4. "idle" \notin SelectPc /\ "connect" \notin SelectPc BY DEF SelectPc
\* What every step of a selection has to show.
<1>5. ASSUME wpc[w] \in SelectPc \cup {"idle"}, 
             NEW pc \in SelectPc \cup {"connect"}, wpc' = [wpc EXCEPT ![w] = pc],
             wsrv' = wsrv \/ \E s \in Servers : wsrv' = [wsrv EXCEPT ![w] = s],
             UNCHANGED <<fails, is_down, connection_n, age, lock, checkVars, wreg, open>>,
             effective_weight' = effective_weight \/ effective_weight' = [effective_weight EXCEPT ![i] = 1],
             pc \in SelectPc => mutex' = w, 
             mutex' = mutex \/ mutex = NoThread \/ mutex = w,
             ScanTyped', WeightConservation'
      PROVE  IInv'
  <2>1. pc \in RRPc BY DEF RRPc, SelectPc, ConnectPc
  <2>2. Typed(RRPc)'
    <3>1. wpc' \in [Workers -> RRPc] BY <1>1, <1>5, <2>1
    <3>2. wsrv' \in [Workers -> Servers] BY <1>1, <1>5
    <3>3. effective_weight' \in [Servers -> Int] BY <1>1, <1>5
    <3> QED BY <1>5, <3>1, <3>2, <3>3 DEF IInv, ServersInv, Typed, UpstreamTypeOK, checkVars
  <2>3. \A v \in Workers : \/ wpc'[v] = wpc[v] /\ wsrv'[v] = wsrv[v] /\ wreg'[v] = wreg[v]
                           \/ wpc[v] \notin BusyPc /\ wpc'[v] \notin BusyPc
    <3> SUFFICES ASSUME NEW v \in Workers
                 PROVE  \/ wpc'[v] = wpc[v] /\ wsrv'[v] = wsrv[v] /\ wreg'[v] = wreg[v]
                        \/ wpc[v] \notin BusyPc /\ wpc'[v] \notin BusyPc
      OBVIOUS
    <3>1. CASE v = w BY <1>1, <1>3, <1>5, <3>1
    <3>2. CASE v # w BY <1>1, <1>5, <3>2
    <3> QED BY <3>1, <3>2
  <2>4. Outside BY <1>1, <1>5, <2>3 DEF Outside, ScanTyped, checkVars
  <2>5. LocksHeld' /\ WeightInv' /\ FailsInv' BY <2>4, OutsideServers DEF IInv, ServersInv
  <2>6. PendingInv' BY <1>5 DEF IInv, ServersInv, PendingInv, InFlight, checkVars
  <2>7. ConnectionCount'
    <3> SUFFICES ASSUME NEW s \in Servers PROVE Counted(s)' BY DEF ConnectionCount
    <3>1. Counted(s) BY DEF IInv, ConnectionCount
    <3> QED BY <1>5, <2>3, <3>1, OutsideCounted
  <2>8. MutexHeld'
    <3> SUFFICES ASSUME NEW v \in Workers, wpc'[v] \in SelectPc PROVE mutex' = v BY DEF MutexHeld
    <3>1. CASE v = w BY <1>1, <1>5, <3>1
    <3>2. CASE v # w
      <4>1. mutex = v BY <1>1, <1>5, <3>2 DEF IInv, MutexHeld
      <4> QED BY <1>2, <1>5, <3>2, <4>1
    <3> QED BY <3>1, <3>2
  <2> QED BY <1>5, <2>2, <2>5, <2>6, <2>7, <2>8 DEF IInv, ServersInv
<1>6. wpc[w] \in SelectPc => mutex = w BY DEF IInv, MutexHeld
<1>7. ASSUME UNCHANGED current_weight, UNCHANGED total_weight PROVE WeightConservation'
  BY <1>7 DEF IInv, WeightConservation
<1>8. wpc = [wpc EXCEPT ![w] = wpc[w]] BY <1>1
<1>9. CASE SelectLock(w)
  <2>1. WeightConservation' BY <1>7, <1>9 DEF SelectLock
  <2>2. ScanTyped' BY <1>1, <1>9 DEF SelectLock, ScanTyped
  <2> QED BY <1>5, <1>9, <2>1, <2>2 DEF SelectLock, Goto, srvVars, SelectPc
<1>10. CASE ScanSkip(w)
  <2>1. WeightConservation' BY <1>7, <1>10 DEF ScanSkip
  <2>2. ScanTyped' BY <1>1, <1>10, AdvanceIndex DEF ScanSkip, ScanTyped
  <2>3. wpc' = [wpc EXCEPT ![w] = "scan1"] \/ wpc' = [wpc EXCEPT ![w] = "scan2"]
    BY <1>1, <1>8, <1>10, AdvanceIndex DEF ScanSkip
  <2> QED BY <1>5, <1>6, <1>10, <2>1, <2>2, <2>3 DEF ScanSkip, srvVars, SelectPc
<1>11. CASE ScanAdd(w)
  <2>1. effective_weight[i] \in Int BY <1>1 DEF ScanTyped
  <2>2. WeightConservation' /\ current_weight' \in [Servers -> Int] /\ total_weight' \in Int
    BY <1>1, <1>11, <2>1, AddWeightConserves DEF ScanAdd, IInv
  <2>3. ScanTyped' BY <1>1, <1>11, <2>2, AdvanceIndex DEF ScanAdd, ScanTyped
  <2>4. wpc' = [wpc EXCEPT ![w] = "scan1"] \/ wpc' = [wpc EXCEPT ![w] = "scan2"]
    BY <1>1, <1>8, <1>11, AdvanceIndex DEF ScanAdd
  <2> QED BY <1>5, <1>6, <1>11, <2>2, <2>3, <2>4 DEF ScanAdd, srvVars, SelectPc
<1>12. CASE ScanRetry(w)
  <2>1. WeightConservation' BY <1>7, <1>12 DEF ScanRetry, scanVars
  <2>2. ScanTyped' BY <1>1, <1>12 DEF ScanRetry, ScanTyped, scanVars
  <2> QED BY <1>5, <1>6, <1>12, <2>1, <2>2 DEF ScanRetry, Goto, srvVars, scanVars, SelectPc
<1>13. CASE Probe(w)
  <2>1. WeightConservation' /\ current_weight' \in [Servers -> Int] /\ total_weight' \in Int
    BY <1>1, <1>13, AddWeightConserves DEF Probe, IInv
  <2>2. i \in 0..N-1 /\ N \in Nat \ {0} BY <1>1, UpstreamAssumption DEF ScanTyped, Servers
  <2>3. i' \in Servers BY <1>13, <2>2 DEF Probe, Servers
  <2>4. ScanTyped' BY <1>1, <1>13, <2>1, <2>3 DEF Probe, ScanTyped
  <2>5. wpc' = [wpc EXCEPT ![w] = "scan1"] \/ wpc' = [wpc EXCEPT ![w] = "scan2"] BY <1>13 DEF Probe, Goto
  <2> QED BY <1>5, <1>6, <1>13, <2>1, <2>4, <2>5 DEF Probe, SelectPc
<1>14. CASE ScanBest(w)
  <2>1. WeightConservation' BY <1>7, <1>14 DEF ScanBest
  <2>2. max' \in Nat /\ best' \in Servers BY <1>1, <1>14 DEF ScanBest, ScanTyped, Better
  <2>3. ScanTyped' BY <1>1, <1>14, <2>2, AdvanceIndex DEF ScanBest, ScanTyped
  <2>4. wpc' = [wpc EXCEPT ![w] = "scan2"] \/ wpc' = [wpc EXCEPT ![w] = "charge"]
    BY <1>1, <1>8, <1>14, AdvanceIndex DEF ScanBest
  <2> QED BY <1>5, <1>6, <1>14, <2>1, <2>3, <2>4 DEF ScanBest, srvVars, SelectPc
<1>15. CASE Charge(w)
  <2>1. /\ current_weight \in [Servers -> Int] /\ best \in Servers /\ total_weight \in Int
        /\ current_weight[best] - total_weight \in Int
    BY <1>1 DEF ScanTyped
  <2>2. /\ current_weight' = [current_weight EXCEPT ![best] = current_weight[best] - total_weight]
        /\ total_weight' = 0
    BY <1>15 DEF Charge
  <2>3. SumFunctionOnSet([current_weight EXCEPT ![best] = current_weight[best] - total_weight], Servers)
          = SumFunctionOnSet(current_weight, Servers) + (current_weight[best] - total_weight) - current_weight[best]
    BY <2>1, ServersNat, SumExcept, ZenonT(60)
  <2>4. SumFunctionOnSet(current_weight, Servers) = total_weight BY DEF IInv, WeightConservation
  <2>5. SumFunctionOnSet(current_weight', Servers) = 0 BY <2>1, <2>2, <2>3, <2>4
  <2>6. WeightConservation' BY <2>2, <2>5 DEF WeightConservation
  <2>7. ScanTyped' BY <1>1, <1>15, <2>1, <2>2, ServersNat, UpstreamAssumption DEF Charge, ScanTyped
  <2> QED BY <1>4, <1>5, <1>6, <1>15, <2>1, <2>6, <2>7 DEF Charge, Goto, srvVars, SelectPc
<1> QED BY <1>9, <1>10, <1>11, <1>12, <1>13, <1>14, <1>15 DEF SelectNext

\* A step of a connect or a close.
LEMMA ConnectIInv ==
    ASSUME IInv, NEW w \in Workers, ConnectNext(w), UNCHANGED <<checkVars, scanVars>>
    PROVE  IInv'
<1>1. ConnectPc \subseteq RRPc BY DEF RRPc
<1>2. Typed(RRPc) /\ LocksHeld /\ WeightInv /\ FailsInv BY DEF IInv, ServersInv
<1>3. UNCHANGED checkVars OBVIOUS
<1>4. Typed(RRPc)' BY <1>1, <1>2, <1>3, ConnectTyped
<1>5. LocksHeld' BY <1>2, <1>3, ConnectLocksHeld
<1>6. WeightInv' BY <1>2, <1>3, ConnectWeightInv
<1>7. FailsInv' BY <1>2, ConnectFailsInv
<1>8. PendingInv' BY DEF IInv, ServersInv, PendingInv, InFlight, checkVars
<1>9. ConnectionCount' BY <1>2, <1>4, ConnectCounted DEF IInv, ConnectionCount
<1>10. ScanTyped' BY DEF IInv, ScanTyped, scanVars
<1>11. WeightConservation' BY DEF IInv, WeightConservation, scanVars
<1>12. MutexHeld'
  <2>1. OthersStay(w) BY <1>2, ConnectOthersStay
  <2>2. wpc'[w] \notin SelectPc
    <3>1. wpc \in [Workers -> RRPc] BY <1>2 DEF Typed
    <3> QED BY <3>1 DEF ConnectNext, OpenClientfd, SrvLock, Decay, Clamp, Mark, DownFlag, DownZero, DownStamp, Revive, Grow,
                       CloseProxy, Drop, SrvUnlock, Goto, SelectPc
  <2>3. mutex' = mutex BY DEF scanVars
  <2> QED BY <2>1, <2>2, <2>3 DEF IInv, MutexHeld, OthersStay
<1> QED BY <1>4, <1>5, <1>6, <1>7, <1>8, <1>9, <1>10, <1>11, <1>12 DEF IInv, ServersInv

\* A step of the health checker.
LEMMA CheckerIInv ==
    ASSUME IInv, CheckerNext, UNCHANGED <<connVars, scanVars>>
    PROVE  IInv'
<1>1. Typed(RRPc) /\ LocksHeld /\ WeightInv /\ FailsInv /\ PendingInv BY DEF IInv, ServersInv
<1>2. UNCHANGED connVars OBVIOUS
<1>3. Typed(RRPc)' BY <1>1, <1>2, CheckerTyped
<1>4. LocksHeld' BY <1>1, <1>2, CheckerLocksHeld
<1>5. WeightInv' BY <1>1, <1>2, CheckerWeightInv
<1>6. FailsInv' BY <1>1, <1>2, CheckerFailsInv
<1>7. PendingInv' BY <1>1, CheckerPending
<1>8. ConnectionCount'
  <2> SUFFICES ASSUME NEW s \in Servers PROVE Counted(s)' BY DEF ConnectionCount
  <2>1. UNCHANGED connection_n
    BY DEF CheckerNext, TimerConnected, TimerDisconnected, TimerConnecting, EventConnected, EventFailed,
           CheckLock, CheckRaise, CheckUp, CheckZero, CheckDown, CheckUnlock, srvVars
  <2>2. Counted(s) BY DEF IInv, ConnectionCount
  <2> QED BY <2>1, <2>2, OutsideCounted DEF connVars
<1>9. ScanTyped' /\ MutexHeld' BY DEF IInv, ScanTyped, MutexHeld, scanVars, connVars
<1>10. WeightConservation' BY DEF IInv, WeightConservation, scanVars
<1> QED BY <1>3, <1>4, <1>5, <1>6, <1>7, <1>8, <1>9, <1>10 DEF IInv, ServersInv

\* A tick of the clock.
LEMMA TickIInv == IInv /\ Tick => IInv'
<1> SUFFICES ASSUME IInv, Tick PROVE IInv' OBVIOUS
<1>1. Typed(RRPc) /\ LocksHeld /\ WeightInv /\ FailsInv /\ PendingInv BY DEF IInv, ServersInv
<1>2. /\ UNCHANGED <<effective_weight, fails, is_down, connection_n, lock, check_fails, check_successes, cpc, csrv, creg>>
      /\ UNCHANGED connVars /\ AgeServers /\ AgePending
      /\ UNCHANGED <<mutex, current_weight, i, total_weight, max, best>>
  BY DEF Tick
<1>3. age' \in [Servers -> Nat]
  BY <1>1, <1>2, UpstreamAssumption DEF AgeServers, Capped, AgeCap, Typed, UpstreamTypeOK
<1>4. Typed(RRPc)' BY <1>1, <1>2, <1>3 DEF Typed, UpstreamTypeOK, connVars
<1>5. Outside BY <1>2 DEF Outside, connVars
<1>6. LocksHeld' /\ WeightInv' /\ FailsInv' BY <1>1, <1>5, OutsideServers
<1>7. PendingInv' BY <1>1, <1>2, AgedPending
<1>8. ConnectionCount' BY <1>2, OutsideCounted DEF IInv, ConnectionCount, connVars
<1>9. lag' \in 0..MaxLag BY UpstreamAssumption DEF Tick, IInv, ScanTyped
<1>10. ScanTyped' /\ MutexHeld' BY <1>2, <1>9 DEF IInv, ScanTyped, MutexHeld, connVars
<1>11. WeightConservation' BY <1>2 DEF IInv, WeightConservation
<1> QED BY <1>4, <1>6, <1>7, <1>8, <1>10, <1>11 DEF IInv, ServersInv

\* The invariant speaks of the variables of RoundRobin only.
LEMMA StutterIInv == IInv /\ UNCHANGED rrVars => IInv'
<1> SUFFICES ASSUME IInv, UNCHANGED rrVars PROVE IInv' OBVIOUS
<1>1. UNCHANGED <<effective_weight, fails, is_down, connection_n, age, lock, wpc, wsrv, wreg, open,
                  check_fails, check_successes, pending, cpc, csrv, creg, scanVars>>
  BY DEF rrVars, srvVars, connVars, checkVars
<1>2. Typed(RRPc)' BY <1>1 DEF IInv, ServersInv, Typed, UpstreamTypeOK
<1>3. Outside BY <1>1 DEF Outside
<1>4. LocksHeld' /\ WeightInv' /\ FailsInv' BY <1>3, OutsideServers DEF IInv, ServersInv
<1>5. PendingInv' BY <1>1 DEF IInv, ServersInv, PendingInv, InFlight
<1>6. ConnectionCount' BY <1>1, OutsideCounted DEF IInv, ConnectionCount
<1>7. ScanTyped' /\ MutexHeld' BY <1>1 DEF IInv, ScanTyped, MutexHeld, scanVars
<1>8. WeightConservation' BY <1>1 DEF IInv, WeightConservation, scanVars
<1> QED BY <1>2, <1>4, <1>5, <1>6, <1>7, <1>8 DEF IInv, ServersInv

-----------------------------------------------------------------------------

\* The invariant holds for ever.
THEOREM Invariance == Spec => []IInv
<1>1. IInv /\ [Next]_rrVars => IInv'
  <2> SUFFICES ASSUME IInv, [Next]_rrVars PROVE IInv' OBVIOUS
  <2>1. ASSUME NEW w \in Workers, WorkerNext(w) PROVE IInv'
    BY <2>1, SelectIInv, ConnectIInv DEF WorkerNext
  <2>2. CASE CheckerNext /\ UNCHANGED <<connVars, scanVars>> BY <2>2, CheckerIInv
  <2>3. CASE Tick BY <2>3, TickIInv
  <2>4. CASE UNCHANGED rrVars BY <2>4, StutterIInv
  <2> QED BY <2>1, <2>2, <2>3, <2>4 DEF Next
<1> QED BY <1>1, InitIInv, PTL DEF Spec

\* The variables of the servers, of the checker and of the selections keep their
\* types for any number of servers and workers.
THEOREM RoundRobinTypeOK == Spec => []TypeOK
<1>1. IInv => TypeOK
  <2> SUFFICES ASSUME IInv PROVE TypeOK OBVIOUS
  <2>1. CheckTypeOK BY CheckTyped DEF IInv, ServersInv
  <2> QED BY <2>1 DEF IInv, ServersInv, Typed, ScanTyped, TypeOK, RRPc
<1> QED BY <1>1, Invariance, PTL

\* effective_weight stays in its bounds with connects, the checker and the probe
\* of the selection racing for it, whichever order the build stores in: at most one
\* more than configured; on a server that is down at most 1, or 2 before the checker
\* clears is_down, unless a failed connect is about to zero it; and negative only
\* before the clamp of a failed connect.
THEOREM WeightsBounded == Spec => []EffectiveWeightBounds
<1>1. IInv => EffectiveWeightBounds BY DEF IInv, ServersInv, WeightInv
<1> QED BY <1>1, Invariance, PTL

\* Whenever srv->lock is free fails agrees with is_down: a server that is down has
\* a failure on record, one that is up fewer than max_fails.
THEOREM FailsMatch == Spec => []FailsMatchState
<1>1. IInv => FailsMatchState BY FailsInvMatch DEF IInv, ServersInv
<1> QED BY <1>1, Invariance, PTL

\* The current weights add up to 0 between selections, and within one to what it
\* has handed out and not yet taken from the winner.
THEOREM WeightConserved == Spec => []WeightConservation
<1>1. IInv => WeightConservation BY DEF IInv
<1> QED BY <1>1, Invariance, PTL

\* connection_n of a server is the number of sockets open to it, but for those just
\* opened and not yet counted and those just closed and still counted.
THEOREM ConnectionsCounted == Spec => []ConnectionCount
<1>1. IInv => ConnectionCount BY DEF IInv
<1> QED BY <1>1, Invariance, PTL

\* One selection at a time: cycle->mutex is held by the worker that scans.
THEOREM SelectionAlone == Spec => []OneSelection
<1>1. IInv => OneSelection BY DEF IInv, MutexHeld, OneSelection
<1> QED BY <1>1, Invariance, PTL

-----------------------------------------------------------------------------
(* Locks *)

\* A selection releases cycle->mutex in the step that ends it.
LEMMA SelectGridlock == ASSUME IInv, NoGridlock, NEW w \in Workers, SelectNext(w) PROVE NoGridlock'
<1>1. wpc \in [Workers -> RRPc] /\ ScanTyped /\ wsrv \in [Workers -> Servers]
  BY DEF IInv, ServersInv, Typed, UpstreamTypeOK
<1>2. "idle" \notin BusyPc /\ SelectPc \cap BusyPc = {} /\ "connect" \notin BusyPc
  BY DEF BusyPc, LockedPc, DownPc, SelectPc
<1>3. NoThread \notin Workers BY UpstreamAssumption
<1>4. wpc[w] \in SelectPc => mutex = w BY DEF IInv, MutexHeld
<1>5. wpc[w] \in SelectPc \cup {"idle"}
  <2>1. CASE SelectLock(w) BY <2>1 DEF SelectLock
  <2>2. CASE ScanSkip(w) \/ ScanAdd(w) \/ ScanRetry(w) BY <2>2 DEF ScanSkip, ScanAdd, ScanRetry, SelectPc
  <2>3. CASE Probe(w) BY <2>3 DEF Probe, SelectPc
  <2>4. CASE ScanBest(w) BY <2>4 DEF ScanBest, SelectPc
  <2>5. CASE Charge(w) BY <2>5 DEF Charge, SelectPc
  <2> QED BY <2>1, <2>2, <2>3, <2>4, <2>5 DEF SelectNext
<1>6. UNCHANGED <<lock, checkVars, wreg>>
  BY DEF SelectNext, SelectLock, ScanSkip, ScanAdd, ScanRetry, Probe, ScanBest, Charge, srvVars
<1>7. \A v \in Workers \ {w} : wpc'[v] = wpc[v] /\ wsrv'[v] = wsrv[v]
  BY <1>1, AdvanceIndex
  DEF SelectNext, SelectLock, ScanSkip, ScanAdd, ScanRetry, Probe, ScanBest, Charge, Goto
<1>8. \/ mutex' = w /\ wpc'[w] \in SelectPc
      \/ mutex' = NoThread /\ wpc'[w] = "connect"
  BY <1>1, <1>4, AdvanceIndex
  DEF SelectNext, SelectLock, ScanSkip, ScanAdd, ScanRetry, Probe, ScanBest, Charge, Goto, scanVars, SelectPc
<1>9. LockHolders'
  <2>1. \A v \in Workers : \/ wpc'[v] = wpc[v] /\ wsrv'[v] = wsrv[v]
                           \/ wpc[v] \notin LockedPc
    BY <1>2, <1>5, <1>7 DEF BusyPc
  <2> QED BY <1>6, <2>1 DEF NoGridlock, LockHolders, checkVars
<1> QED BY <1>3, <1>8, <1>9 DEF NoGridlock

\* Every step keeps the locks in the hands of the threads inside.
LEMMA StepGridlock == IInv /\ NoGridlock /\ [Next]_rrVars => NoGridlock'
<1> SUFFICES ASSUME IInv, NoGridlock, [Next]_rrVars PROVE NoGridlock' OBVIOUS
<1>1. Typed(RRPc) /\ LockHolders /\ mutex \in Workers \cup {NoThread}
  BY DEF IInv, ServersInv, ScanTyped, NoGridlock
<1>2. ASSUME NEW w \in Workers, WorkerNext(w) PROVE NoGridlock'
  <2>1. CASE SelectNext(w) BY <2>1, SelectGridlock
  <2>2. CASE ConnectNext(w) /\ UNCHANGED <<checkVars, scanVars>>
    <3>1. LockHolders' BY <1>1, <2>2, ConnectLockHolders
    <3>2. OthersStay(w) BY <1>1, <2>2, ConnectOthersStay
    <3>3. wpc[w] \notin SelectPc
      BY <2>2 DEF ConnectNext, OpenClientfd, SrvLock, Decay, Clamp, Mark, DownFlag, DownZero, DownStamp, Revive, Grow,
                  CloseProxy, Drop, SelectPc
    <3>4. mutex' = mutex BY <2>2 DEF scanVars
    <3>5. mutex # NoThread => mutex \in Workers \ {w} BY <1>1, <3>3 DEF NoGridlock
    <3> QED BY <3>1, <3>2, <3>4, <3>5 DEF NoGridlock, OthersStay
  <2> QED BY <1>2, <2>1, <2>2 DEF WorkerNext
<1>3. CASE CheckerNext /\ UNCHANGED <<connVars, scanVars>>
  <2>1. LockHolders' BY <1>1, <1>3, CheckerLockHolders
  <2> QED BY <1>3, <2>1 DEF NoGridlock, connVars, scanVars
<1>4. CASE Tick BY <1>4 DEF Tick, NoGridlock, LockHolders, connVars
<1>5. CASE UNCHANGED rrVars
  BY <1>5 DEF rrVars, srvVars, connVars, checkVars, scanVars, NoGridlock, LockHolders
<1> QED BY <1>2, <1>3, <1>4, <1>5 DEF Next

\* Nobody waits for a lock whose holder waits, or has left without releasing it:
\* cycle->mutex and every srv->lock that is taken is held by a thread inside.
THEOREM LocksReleased == Spec => []NoGridlock
<1>1. Init => NoGridlock BY InitLockHolders DEF Init, InitScan, NoGridlock
<1> QED BY <1>1, StepGridlock, Invariance, PTL DEF Spec
=============================================================================
