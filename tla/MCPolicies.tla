----------------------------- MODULE MCPolicies -----------------------------
(* Two servers, of which the second takes every connect, and two workers.   *)
(* A ring ends with a point of either server, and two points share a hash.  *)
EXTENDS Policies, TLC

CONSTANTS w1, w2

MCWorkers     == {w1, w2}
MCPolicies    == {"least_conn", "random", "heuristic", "ip_hash"}
MCWeight      == 0 :> 2 @@ 1 :> 2
MCMaxFails    == 0 :> 2 @@ 1 :> 1
MCIsFallback  == 0 :> TRUE @@ 1 :> TRUE
MCOnes        == 0 :> 1 @@ 1 :> 1
MCHashes(h)   == <<0, 1>> :> 1 @@ <<0, 2>> :> h @@ <<1, 1>> :> 1 @@ <<1, 2>> :> 2
MCRings       == {InitHashRing(<<0, 1>>, MCWeight, MCHashes(h)) : h \in {0, 3}}
MCOneWorker   == {w1}
Symmetry      == Permutations(MCWorkers)

\* README.md:24 on is_fallback: "If the server is down, whether to fallback to
\* the next server."  So a client is turned away, or sent to a server that the
\* policy passes over as down, only while every server is down.
NextTakesOver ==
    \A w \in Workers :
        wpc[w] = "turned" \/ (wpc[w] = "connect" /\ PassOver(w, wsrv[w])) =>
            \A s \in Servers : is_down[s]
=============================================================================
