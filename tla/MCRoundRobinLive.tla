-------------------------- MODULE MCRoundRobinLive --------------------------
(* One worker and no checker: what the selections amount to over time.  The *)
(* history variable counts the selections of each server since the last     *)
(* moment all weights were as configured and none was owed.                 *)
EXTENDS MCRoundRobin, FiniteSetsExt

CONSTANT NoRound

LiveWeight      == 0 :> 3 @@ 1 :> 1 @@ 2 :> 1
LiveMaxFails    == 0 :> 2 @@ 1 :> 1 @@ 2 :> 1
LiveFailTimeout == [s \in 0..2 |-> 1]
LiveIsFallback  == [s \in 0..2 |-> TRUE]
LiveOnes        == [s \in 0..2 |-> 1]

VARIABLE round          \* selections per server, or NoRound

MCZeros == [s \in Servers |-> 0]

Sum(f) == MapThenSumSet(LAMBDA s : f[s], Servers)

\* Every server is up and has its full weight.
Steady == \A s \in Servers : effective_weight[s] = Weight[s] /\ ~is_down[s]

CountRound ==
    round' = CASE ~Steady' -> NoRound
               [] Steady' /\ mutex = NoThread /\ mutex' # NoThread ->
                    IF current_weight = MCZeros THEN MCZeros ELSE round
               [] Steady' /\ mutex # NoThread /\ mutex' = NoThread ->
                    IF round = NoRound THEN NoRound
                    ELSE [round EXCEPT ![best] = @ + 1]
               [] OTHER -> round

LiveInit == Init /\ round = NoRound
LiveNext == Next /\ CountRound
LiveVars == <<rrVars, round>>
LiveSpec == /\ LiveInit /\ [][LiveNext]_LiveVars
            /\ \A w \in Workers : WF_LiveVars(WorkerNext(w) /\ CountRound)
            /\ SF_LiveVars(Tick /\ CountRound)

\* While all servers are up and unpenalised, each block of as many selections
\* as the weights add up to gives every server exactly its weight (README: the
\* round_robin policy's weight), and leaves no weight owed.
Proportional ==
    (round # NoRound /\ mutex = NoThread) =>
        /\ \A s \in Servers : round[s] <= Weight[s]
        /\ Sum(round) = Sum(Weight) <=> (round = Weight /\ current_weight = MCZeros)

\* A server that is up is chosen again: uct_upstream_round_robin_get as a round
\* robin over the servers that are not down.
UpServed ==
    \A s \in Servers :
        ~is_down[s] ~> \/ is_down[s]
                       \/ \E w \in Workers : wpc[w] = "connect" /\ wsrv[w] = s
=============================================================================
