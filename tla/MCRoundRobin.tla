---------------------------- MODULE MCRoundRobin ----------------------------
(* Two servers of weights 2 (or 3) and 1 and two workers; connects fail      *)
(* and a checker watches a server, as the configuration says.                *)
EXTENDS RoundRobin, TLC

CONSTANTS w1, w2

MCWorkers     == {w1, w2}
MCWeight      == 0 :> 2 @@ 1 :> 1
MCHeavy       == 0 :> 3 @@ 1 :> 1     \* 3 \div 2 leaves weight on going down
MCMaxFails    == 0 :> 2 @@ 1 :> 1
MCFailTimeout == 0 :> 1 @@ 1 :> 1
MCIsFallback  == 0 :> TRUE @@ 1 :> TRUE
MCOnes        == 0 :> 1 @@ 1 :> 1
MCTwos        == 0 :> 2 @@ 1 :> 2
Symmetry      == Permutations(MCWorkers)

\* README, max_fails: "if the number of fails exceeds this value, the server will
\* be considered as down".  Connects alone take a server down only after more than
\* max_fails failures.
DownOnlyBeyond ==
    \A s \in Servers : is_down[s] /\ lock[s] = NoThread => fails[s] > MaxFails[s]
=============================================================================
