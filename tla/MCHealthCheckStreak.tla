------------------------ MODULE MCHealthCheckStreak ------------------------
(* The failed checks of each server since its last successful one. *)
EXTENDS MCRoundRobin

VARIABLE streak

StreakInit == Init /\ streak = [s \in Servers |-> 0]

\* The next-state relation of RoundRobin, with the results of checks told apart.
StreakNext ==
    \/ \E s \in Servers :
         \/ /\ TimerConnected(s) \/ EventConnected(s)
            /\ streak' = [streak EXCEPT ![s] = 0]
            /\ UNCHANGED <<connVars, scanVars>>
         \/ /\ TimerDisconnected(s) \/ EventFailed(s)
            /\ streak' = [streak EXCEPT ![s] = Capped(@ + 1, CheckFall[s])]
            /\ UNCHANGED <<connVars, scanVars>>
         \/ /\ TimerConnecting(s)
            /\ UNCHANGED <<connVars, scanVars, streak>>
    \/ (CheckLock \/ CheckRaise \/ CheckUp \/ CheckZero \/ CheckDown) /\ UNCHANGED <<connVars, scanVars, streak>>
    \/ ((\E w \in Workers : WorkerNext(w)) \/ Tick) /\ UNCHANGED streak

StreakSpec == StreakInit /\ [][StreakNext]_<<rrVars, streak>>

\* README, fall: "The number of consecutive failures to consider a server as
\* down."  When the checker takes a server down, its last fall checks failed.
FallIsConsecutive == cpc \in {"fall", "zero", "down"} => streak[csrv] >= CheckFall[csrv]
=============================================================================
