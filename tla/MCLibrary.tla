----------------------------- MODULE MCLibrary -----------------------------
(* The parts that run by themselves, one at a time: a behaviour belongs to   *)
(* one component, chosen in its first state, and the others stay as they     *)
(* began.  The ring component sorts and searches every ring of up to four    *)
(* points with hashes up to 3, so that hashes repeat and a key lies before,  *)
(* between, at and behind them.                                              *)
EXTENDS MemoryPool, BufChain, JsonTree, JsonText, Startup, UdpWorker, RingBuild, TLC

CONSTANTS u1, u2, c1, c2

VARIABLE component

MCUdpWorkers == {u1, u2}
MCClients    == {c1, c2}
Symmetry     == Permutations(MCUdpWorkers) \cup Permutations(MCClients)
MCBeginnings == {<<>>, <<"{", "s", ":", "v", ",">>}

MCConfs ==
    LET all == [options : {"run", "invalid", "version"}, file : {"good", "absent", "broken"},
                mode : {"tcp", "udp", "http", "unknown"}, policy : {"ip_hash", "other", "unknown"},
                workers : {"auto", "text", "0", "2"}, level : {0, 1, 4},
                log : {"same", "error", "new", "other", "nodir"}, upstream : BOOLEAN]
        plain == [options |-> "run", file |-> "good", mode |-> "tcp", policy |-> "other",
                  workers |-> "2", level |-> 1, log |-> "same", upstream |-> TRUE]
    IN  {c \in all : c.options = "run" /\ c.file = "good"}
          \cup {[plain EXCEPT !.options = o, !.file = f] : o \in {"run", "invalid", "version"}, f \in {"good", "absent", "broken"}}

vars == <<component, pushed, memVars, bufVars, treeVars, textVars, startVars, udpVars>>

Init ==
    /\ component \in {"pool", "buf", "tree", "text", "start", "udp", "ring"}
    /\ InitPool /\ InitBuf /\ InitTree /\ InitRing
    /\ IF component = "text" THEN InitText ELSE text = <<>>
    /\ IF component = "start" THEN InitStart ELSE conf = (CHOOSE c \in Confs : TRUE) /\ InitStart
    /\ InitUdp

Next ==
    /\ UNCHANGED component
    /\ \/ component = "pool"  /\ PoolNext  /\ UNCHANGED <<pushed, bufVars, treeVars, textVars, startVars, udpVars>>
       \/ component = "buf"   /\ BufNext   /\ UNCHANGED <<pushed, memVars, treeVars, textVars, startVars, udpVars>>
       \/ component = "tree"  /\ TreeNext  /\ UNCHANGED <<pushed, memVars, bufVars, textVars, startVars, udpVars>>
       \/ component = "text"  /\ TextNext  /\ UNCHANGED <<pushed, memVars, bufVars, treeVars, startVars, udpVars>>
       \/ component = "start" /\ StartNext /\ UNCHANGED <<pushed, memVars, bufVars, treeVars, textVars, udpVars>>
       \/ component = "udp"   /\ UdpNext   /\ UNCHANGED <<pushed, memVars, bufVars, treeVars, textVars, startVars>>
       \/ component = "ring"  /\ RingNext  /\ UNCHANGED <<memVars, bufVars, treeVars, textVars, startVars, udpVars>>

Spec == Init /\ [][Next]_vars
=============================================================================
