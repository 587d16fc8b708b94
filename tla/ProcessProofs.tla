--------------------------- MODULE ProcessProofs ---------------------------
(***************************************************************************)
(* The start of the process and the udp workers.                           *)
(*                                                                         *)
(* Startup: by place of main, which sockets and threads there are, and     *)
(* which file the log is and what both files hold.  The lines written are  *)
(* a recursive function, of which only the existence and the type are      *)
(* needed.                                                                 *)
(*                                                                         *)
(* UdpWorker: every datagram sent is in one place.  From this follows that *)
(* the number of a datagram names one pair, and so that the client of a    *)
(* pair does not change once its datagram is sent on.                      *)
(***************************************************************************)
EXTENDS Startup, UdpWorker, FiniteSetTheorems, TLAPS

-----------------------------------------------------------------------------
(* Startup *)

\* A set of natural numbers that is not empty has a least one.
LEMMA LeastCounter ==
    ASSUME NEW Bad, Bad \subseteq Nat, Bad # {}
    PROVE  \E n \in Bad : \A m \in Bad : n <= m
<1> DEFINE R == {p \in Nat \X Nat : p[1] < p[2]}
<1>1. IsWellFoundedOn(R, Nat) BY NatLessThanWellFounded DEF OpToRel
<1>2. \E n \in Bad : \A m \in Bad : ~(<<m, n>> \in R)
  <2> HIDE DEF R
  <2> QED BY <1>1, WFMin
<1>3. PICK n \in Bad : \A m \in Bad : ~(<<m, n>> \in R) BY <1>2
<1>4. \A m \in Bad : ~(m < n) BY <1>3
<1> QED BY <1>4

\* One more line, as the loop of Lines adds it.
NextLine(levels, level, f, k) ==
    IF k = 0 THEN <<>> ELSE f[k-1] \o (IF levels[k] >= level THEN <<levels[k]>> ELSE <<>>)

\* f is the table of what is written of the first k lines, for k up to n.
IsWritten(levels, level, n, f) == f = [k \in 0 .. n |-> NextLine(levels, level, f, k)]

\* There is such a table: the first n without one would have one, from that of
\* n - 1 and one more line.
LEMMA WrittenExists ==
    ASSUME NEW levels, NEW level, NEW n \in Nat
    PROVE  \E f : IsWritten(levels, level, n, f)
<1> DEFINE Bad == {m \in Nat : ~ \E f : IsWritten(levels, level, m, f)}
<1>1. SUFFICES ASSUME Bad # {} PROVE FALSE OBVIOUS
<1>2. PICK m \in Bad : \A q \in Bad : m <= q
  <2> HIDE DEF Bad
  <2>1. Bad \subseteq Nat BY DEF Bad
  <2> QED BY <1>1, <2>1, LeastCounter
<1>3. CASE m = 0
  <2> DEFINE f == [k \in 0 .. 0 |-> <<>>]
  <2>1. f = [k \in 0 .. 0 |-> NextLine(levels, level, f, k)] BY DEF NextLine
  <2> QED BY <1>3, <2>1 DEF IsWritten
<1>4. CASE m # 0
  <2>1. m-1 \in Nat /\ m-1 \notin Bad BY <1>2, <1>4
  <2>2. PICK g : IsWritten(levels, level, m-1, g) BY <2>1
  <2> DEFINE f == [k \in 0 .. m |-> IF k = m THEN NextLine(levels, level, g, m) ELSE g[k]]
  <2>3. ASSUME NEW k \in 0 .. m PROVE f[k] = NextLine(levels, level, f, k)
    <3>1. CASE k = m
      <4>1. f[m-1] = g[m-1] BY <2>1
      <4> QED BY <1>4, <3>1, <4>1 DEF NextLine
    <3>2. CASE k # m
      <4>1. k \in 0 .. m-1 /\ (k # 0 => k-1 \in 0 .. m-1 /\ k-1 # m /\ k-1 \in 0 .. m) BY <2>1, <3>2
      <4>2. g[k] = NextLine(levels, level, g, k) BY <2>2, <4>1 DEF IsWritten
      <4>3. k # 0 => f[k-1] = g[k-1] BY <4>1
      <4>4. NextLine(levels, level, f, k) = NextLine(levels, level, g, k) BY <4>3 DEF NextLine
      <4> QED BY <3>2, <4>2, <4>4
    <3> QED BY <3>1, <3>2
  <2>4. f = [k \in 0 .. m |-> NextLine(levels, level, f, k)]
    <3>1. f = [k \in 0 .. m |-> f[k]] OBVIOUS
    <3> HIDE DEF f
    <3> QED BY <2>3, <3>1
  <2> QED BY <2>4 DEF IsWritten
<1> QED BY <1>3, <1>4

\* What uct_log writes are lines of those it is called with.
LEMMA LinesTyped ==
    ASSUME NEW S, NEW levels \in Seq(S), NEW level
    PROVE  Lines(levels, level) \in Seq(S)
<1> DEFINE n == Len(levels)
           W == CHOOSE f : f = [k \in 0 .. Len(levels) |-> NextLine(levels, level, f, k)]
<1>1. n \in Nat OBVIOUS
<1>2. Lines(levels, level) = W[n] BY DEF Lines, NextLine
<1>3. IsWritten(levels, level, n, W) BY <1>1, WrittenExists DEF IsWritten
<1> HIDE DEF W
<1> DEFINE Bad == {m \in Nat : m <= n /\ W[m] \notin Seq(S)}
<1>4. SUFFICES ASSUME Bad # {} PROVE FALSE BY <1>1, <1>2
<1>5. PICK m \in Bad : \A q \in Bad : m <= q
  <2> HIDE DEF Bad
  <2>1. Bad \subseteq Nat BY DEF Bad
  <2> QED BY <1>4, <2>1, LeastCounter
<1>6. m \in 0 .. n BY <1>1, <1>5
<1>7. W[m] = NextLine(levels, level, W, m) BY <1>3, <1>6 DEF IsWritten
<1>8. CASE m = 0
  <2>1. W[m] = <<>> BY <1>7, <1>8 DEF NextLine
  <2>2. W[m] \in Seq(S) BY <2>1
  <2> QED BY <1>5, <2>2
<1>9. CASE m # 0
  <2>1. W[m-1] \in Seq(S) BY <1>1, <1>5, <1>9
  <2>2. levels[m] \in S BY <1>5, <1>6, <1>9
  <2>3. PICK l : l = (IF levels[m] >= level THEN <<levels[m]>> ELSE <<>>) OBVIOUS
  <2>4. l \in Seq(S) BY <2>2, <2>3
  <2>5. W[m] = W[m-1] \o l BY <1>7, <1>9, <2>3 DEF NextLine
  <2>6. W[m] \in Seq(S) BY <2>1, <2>4, <2>5
  <2> QED BY <1>5, <2>6
<1> QED BY <1>8, <1>9

\* The lines files hold: the levels of those written and the older ones.
Line == {"earlier", "previous"} \cup Int

\* What the target held before the start.
Old == IF conf.log = "new" THEN <<>> ELSE <<"previous">>

\* Until it moves the log is umicat.log, while it moves it is none.
LogInv ==
    /\ emitted \in Seq(Line) /\ cwd \in Seq(Line) /\ target \in Seq(Line)
    /\ log_file \in {"cwd", "target", "none"}
    /\ spc \in {"options", "parse", "move"} => log_file = "cwd"
    /\ log_file = "cwd" => cwd = <<"earlier">> \o emitted /\ target = Old
    /\ spc = "copy" => log_file = "none" /\ cwd = <<"earlier">> \o emitted /\ target = Old
    /\ log_file = "target" /\ copied => target = Old \o <<"earlier">> \o emitted

\* Sockets and threads, by the place main is at.
OrderInv ==
    /\ spc \in {"options", "parse", "move", "copy", "moved", "resolve", "open", "bind", "listen", "start", "serving", "ok", "failed", "crashed"}
    /\ spc \in {"options", "parse", "move", "copy", "moved", "resolve", "open", "ok", "failed"} => sockets = <<>> /\ threads = <<>>
    /\ spc = "bind" => sockets = <<"unbound">> /\ threads = <<>>
    /\ spc = "listen" => sockets = <<"bound">> /\ threads = <<>>
    /\ spc \in {"start", "serving"} => sockets = <<"listening">>
    /\ spc \notin {"options", "parse", "ok", "failed", "crashed"} /\ conf.policy = "ip_hash" => ring

\* Lines appended to lines.
LEMMA Assoc ==
    ASSUME NEW S, NEW a \in Seq(S), NEW b \in Seq(S), NEW c \in Seq(S)
    PROVE  (a \o b) \o c = a \o (b \o c) /\ a \o b \in Seq(S) /\ a \o <<>> = a
OBVIOUS

\* The lines the two files begin with.
LEMMA OldLines == <<"earlier">> \in Seq(Line) /\ <<>> \in Seq(Line) /\ Old \in Seq(Line)
<1>1. "earlier" \in Line /\ "previous" \in Line BY DEF Line
<1>2. <<"earlier">> \in Seq(Line) /\ <<"previous">> \in Seq(Line) BY <1>1
<1>3. CASE conf.log = "new" BY <1>2, <1>3 DEF Old
<1>4. CASE conf.log # "new" BY <1>2, <1>4 DEF Old
<1> QED BY <1>2, <1>3, <1>4

\* Writing lines, whichever file they go to and whether or not there is one.
LEMMA LogKeeps ==
    ASSUME LogInv, NEW levels \in Seq(Int), NEW level, NEW pc, Log(levels, level, pc),
           spc \notin {"copy"}, pc \notin {"copy", "options", "parse", "move"} \/ (pc = "move" /\ spc = "parse"),
           UNCHANGED <<conf, log_file, copied>>
    PROVE  LogInv'
<1> USE DEF LogInv
<1>1. PICK lines : lines = Lines(levels, level) OBVIOUS
<1>2. lines \in Seq(Int) BY <1>1, LinesTyped
<1>3. lines \in Seq(Line) BY <1>2 DEF Line
<1>4. /\ emitted' = emitted \o lines
      /\ cwd' = IF log_file = "cwd" THEN cwd \o lines ELSE cwd
      /\ target' = IF log_file = "target" THEN target \o lines ELSE target
      /\ spc' \in {"crashed", pc}
  BY <1>1 DEF Log
<1>5. <<"earlier">> \in Seq(Line) /\ Old \in Seq(Line) BY OldLines
<1>e. emitted \in Seq(Line) OBVIOUS
<1>o. Old' = Old BY DEF Old
<1>6. /\ emitted' \in Seq(Line) /\ cwd' \in Seq(Line) /\ target' \in Seq(Line) BY <1>3, <1>4
<1>7. ASSUME log_file = "cwd" PROVE cwd' = <<"earlier">> \o emitted' /\ target' = Old
  <2>1. cwd' = (<<"earlier">> \o emitted) \o lines BY <1>4, <1>7
  <2>2. (<<"earlier">> \o emitted) \o lines = <<"earlier">> \o (emitted \o lines) BY <1>3, <1>5, Assoc
  <2> QED BY <1>4, <1>7, <2>1, <2>2
<1>8. ASSUME log_file = "target", copied PROVE target' = (Old \o <<"earlier">>) \o emitted'
  <2>1. target' = ((Old \o <<"earlier">>) \o emitted) \o lines BY <1>4, <1>8
  <2>2. Old \o <<"earlier">> \in Seq(Line) BY <1>5, Assoc
  <2>3. ((Old \o <<"earlier">>) \o emitted) \o lines = (Old \o <<"earlier">>) \o (emitted \o lines)
    <3> HIDE DEF LogInv
    <3>1. PICK a \in Seq(Line) : a = Old \o <<"earlier">> BY <2>2
    <3>2. (a \o emitted) \o lines = a \o (emitted \o lines) BY <1>3, <1>e, Assoc, SMTT(30)
    <3> QED BY <3>1, <3>2
  <2> QED BY <1>4, <2>1, <2>3
<1>9. spc' \in {"options", "parse", "move"} => log_file' = "cwd" BY <1>4
<1>10. spc' # "copy" BY <1>4
<1> QED BY <1>o, <1>6, <1>7, <1>8, <1>9, <1>10

\* The log at the start.
LEMMA InitLog == InitStart => LogInv
<1> SUFFICES ASSUME InitStart PROVE LogInv OBVIOUS
<1>1. <<"earlier">> \in Seq(Line) /\ <<>> \in Seq(Line) /\ Old \in Seq(Line) BY OldLines
<1>2. <<"earlier">> \o <<>> = <<"earlier">> BY <1>1, Assoc
<1> QED BY <1>1, <1>2 DEF InitStart, LogInv, Old

\* umicat.log is removed after its lines are in the target, or copied is FALSE.
LEMMA CopyKeeps == LogInv /\ CopyLog => LogInv'
<1> SUFFICES ASSUME LogInv, CopyLog PROVE LogInv' OBVIOUS
<1> USE DEF LogInv
<1>e. emitted \in Seq(Line) OBVIOUS
<1>o. Old' = Old BY DEF CopyLog, Old
<1>1. Old' = Old /\ Old \in Seq(Line) /\ <<"earlier">> \in Seq(Line) BY <1>o, OldLines
<1>2. <<>> \in Seq(Line) OBVIOUS
<1>3. spc = "copy" /\ spc' = "moved" /\ cwd' = <<>> /\ emitted' = emitted BY DEF CopyLog
<1>4. CASE target' = target /\ log_file' = log_file BY <1>1, <1>2, <1>3, <1>4
<1>5. CASE /\ log_file' = "target"
           /\ \E k \in 0 .. Len(cwd) : target' = target \o SubSeq(cwd, 1, k) /\ copied' = (k = Len(cwd))
  <2>1. PICK k \in 0 .. Len(cwd) : target' = target \o SubSeq(cwd, 1, k) /\ copied' = (k = Len(cwd)) BY <1>5
  <2>2. SubSeq(cwd, 1, k) \in Seq(Line) BY <2>1
  <2>3. copied' => k = Len(cwd) BY <2>1
  <2>4. SubSeq(cwd, 1, Len(cwd)) = cwd OBVIOUS
  <2>5. copied' => target' = Old \o (<<"earlier">> \o emitted) BY <1>3, <2>1, <2>3, <2>4
  <2>6. Old \o (<<"earlier">> \o emitted) = Old \o <<"earlier">> \o emitted
    <3> HIDE DEF LogInv
    <3>1. PICK a : a = <<"earlier">> OBVIOUS
    <3>2. Old \o (a \o emitted) = (Old \o a) \o emitted BY <1>1, <1>e, <3>1, Assoc
    <3> QED BY <3>1, <3>2
  <2>7. target' \in Seq(Line) BY <2>1, <2>2
  <2> QED BY <1>1, <1>2, <1>3, <1>5, <2>5, <2>6, <2>7
<1> QED BY <1>4, <1>5 DEF CopyLog

\* Every step of main keeps the log.
LEMMA NextLog == LogInv /\ [StartNext]_startVars => LogInv'
<1> SUFFICES ASSUME LogInv, [StartNext]_startVars PROVE LogInv' OBVIOUS
<1>q. Old' = Old \/ conf' # conf BY DEF Old
<1>l. /\ <<>> \in Seq(Int) /\ <<INFO>> \in Seq(Int) /\ <<FATAL>> \in Seq(Int) /\ <<ERROR>> \in Seq(Int)
      /\ <<FATAL, FATAL>> \in Seq(Int) /\ <<INFO, FATAL>> \in Seq(Int) /\ <<ERROR, ERROR>> \in Seq(Int)
      /\ <<INFO, NOTICE>> \in Seq(Int) /\ <<INFO, ERROR, NOTICE>> \in Seq(Int) /\ <<INFO, INFO>> \in Seq(Int)
  BY DEF INFO, NOTICE, ERROR, FATAL
<1>1. CASE Options
  <2>1. UNCHANGED <<conf, emitted, cwd, target, log_file, copied>> /\ spc = "options" /\ spc' # "copy" BY <1>1 DEF Options
  <2> QED BY <1>q, <2>1 DEF LogInv
<1>2. CASE ConfError BY <1>2, <1>l, LogKeeps DEF ConfError
<1>3. CASE ConfParse
  <2>1. Lines(<<INFO, NOTICE>>, conf.level) \in Seq(Int) BY <1>l, LinesTyped
  <2>2. <<INFO, INFO>> \o Lines(<<INFO, NOTICE>>, conf.level) \in Seq(Int) BY <1>l, <2>1
  <2>3. Lines(<<ERROR>>, conf.level) \in Seq(Int) BY <1>l, LinesTyped
  <2>4. <<INFO, INFO>> \o Lines(<<ERROR>>, conf.level) \in Seq(Int) BY <1>l, <2>3
  <2>5. spc = "parse" /\ UNCHANGED <<conf, log_file, copied>> BY <1>3 DEF ConfParse
  <2>6. CASE Log(<<INFO, INFO>> \o Lines(<<INFO, NOTICE>>, conf.level), INFO, "move") BY <2>2, <2>5, <2>6, LogKeeps
  <2>7. CASE Log(<<INFO, INFO>> \o Lines(<<ERROR>>, conf.level), INFO, "move") BY <2>4, <2>5, <2>7, LogKeeps
  <2> QED BY <1>3, <2>6, <2>7 DEF ConfParse
<1>4. CASE MoveLog BY <1>4, <1>q DEF MoveLog, LogInv
<1>5. CASE CopyLog BY <1>5, CopyKeeps
<1>6. CASE EnterCycle BY <1>6, <1>l, LogKeeps DEF EnterCycle
<1>7. CASE OpenSocket BY <1>7, <1>l, LogKeeps DEF OpenSocket
<1>8. CASE Bind
  <2>1. UNCHANGED <<conf, emitted, cwd, target, log_file, copied>> /\ spc' = "listen" BY <1>8 DEF Bind
  <2> QED BY <1>q, <2>1 DEF LogInv
<1>9. CASE BindFail BY <1>9, <1>l, LogKeeps DEF BindFail
<1>10. CASE ListenFail BY <1>10, <1>l, LogKeeps DEF ListenFail
<1>11. CASE Listen BY <1>11, <1>l, LogKeeps DEF Listen
<1>12. CASE StartWorker BY <1>12, <1>l, LogKeeps DEF StartWorker
<1>13. CASE Serve
  <2>1. UNCHANGED <<conf, emitted, cwd, target, log_file, copied>> /\ spc' = "serving" BY <1>13 DEF Serve
  <2> QED BY <1>q, <2>1 DEF LogInv
<1>14. CASE UNCHANGED startVars BY <1>14, <1>q DEF startVars, LogInv
<1>15. CASE Resolve BY <1>15, <1>l, LogKeeps DEF Resolve
<1> QED BY <1>1, <1>2, <1>3, <1>4, <1>5, <1>6, <1>7, <1>8, <1>9, <1>10, <1>11, <1>12, <1>13, <1>14, <1>15 DEF StartNext

\* While uct_init_cycle moves the log from umicat.log to the configured file, no
\* line is lost or repeated, for every configuration, every number of addresses
\* and every length of the copy, unless uct_copy_file failed.
THEOREM LogNeverLost == StartSpec => []LogKept
<1>1. LogInv => LogKept BY DEF LogInv, LogKept, Old
<1> QED BY <1>1, InitLog, NextLog, PTL DEF StartSpec

\* Nothing is open at the start.
LEMMA InitOrder == InitStart => OrderInv
BY DEF InitStart, OrderInv

\* Log goes on to pc, or ends the process.
LEMMA LogGoes ==
    ASSUME NEW levels, NEW level, NEW pc, Log(levels, level, pc)
    PROVE  spc' \in {"crashed", pc}
BY DEF Log

\* Every step of main keeps the order, a failing one included.
LEMMA NextOrder == OrderInv /\ [StartNext]_startVars => OrderInv'
<1> SUFFICES ASSUME OrderInv, [StartNext]_startVars PROVE OrderInv' OBVIOUS
<1> USE DEF OrderInv
<1>1. CASE Options BY <1>1 DEF Options
<1>2. CASE ConfError
  <2>1. spc = "parse" /\ spc' \in {"crashed", "failed"} BY <1>2, LogGoes DEF ConfError
  <2> QED BY <1>2, <2>1 DEF ConfError
<1>3. CASE ConfParse
  <2>1. spc = "parse" /\ spc' \in {"crashed", "move"} BY <1>3, LogGoes DEF ConfParse
  <2>2. sockets' = sockets /\ threads' = threads /\ conf' = conf BY <1>3 DEF ConfParse
  <2>3. conf.policy = "ip_hash" => ring' BY <1>3, Zenon DEF ConfParse
  <2> QED BY <2>1, <2>2, <2>3
<1>4. CASE MoveLog BY <1>4 DEF MoveLog
<1>5. CASE CopyLog
  <2>1. spc = "copy" /\ spc' = "moved" /\ UNCHANGED <<conf, ring, sockets, threads>> BY <1>5 DEF CopyLog
  <2> QED BY <2>1
<1>6. CASE EnterCycle
  <2>1. spc = "moved" /\ spc' \in {"crashed", "resolve", "ok", "failed"} BY <1>6, LogGoes DEF EnterCycle
  <2> QED BY <1>6, <2>1 DEF EnterCycle
<1>7. CASE OpenSocket
  <2>1. spc = "open" /\ UNCHANGED <<conf, ring, threads>> BY <1>7 DEF OpenSocket
  <2>2. \/ sockets' = Append(sockets, "unbound") /\ spc' \in {"crashed", "bind"}
        \/ sockets' = sockets /\ spc' \in {"crashed", "open"}
    BY <1>7, LogGoes DEF OpenSocket
  <2>3. Append(<<>>, "unbound") = <<"unbound">> OBVIOUS
  <2> QED BY <2>1, <2>2, <2>3
<1>8. CASE Bind
  <2>1. spc = "bind" /\ spc' = "listen" /\ UNCHANGED <<conf, ring, threads>> BY <1>8 DEF Bind
  <2>2. sockets' = [<<"unbound">> EXCEPT ![Len(<<"unbound">>)] = "bound"] BY <1>8 DEF Bind
  <2>3. sockets' = <<"bound">> BY <2>2
  <2> QED BY <2>1, <2>3
<1>9. CASE BindFail
  <2>1. spc = "bind" /\ spc' \in {"crashed", "open"} /\ UNCHANGED <<conf, ring, threads>> BY <1>9, LogGoes DEF BindFail
  <2>2. sockets' = SubSeq(<<"unbound">>, 1, Len(<<"unbound">>) - 1) BY <1>9 DEF BindFail
  <2>3. sockets' = <<>> BY <2>2
  <2> QED BY <2>1, <2>3
<1>10. CASE ListenFail
  <2>1. CASE /\ spc = "open" /\ sockets' = sockets /\ Log(<<ERROR>>, conf.level, "ok")
    <3>1. spc' \in {"crashed", "ok"} BY <2>1, LogGoes
    <3> QED BY <1>10, <2>1, <3>1 DEF ListenFail
  <2>2. CASE /\ spc = "listen" /\ sockets' = SubSeq(sockets, 1, Len(sockets) - 1)
             /\ Log(<<ERROR, ERROR>>, conf.level, "ok")
    <3>1. spc' \in {"crashed", "ok"} BY <2>2, LogGoes
    <3>2. sockets' = SubSeq(<<"bound">>, 1, Len(<<"bound">>) - 1) BY <2>2
    <3>3. sockets' = <<>> BY <3>2
    <3>4. UNCHANGED threads /\ threads = <<>> BY <1>10, <2>2 DEF ListenFail
    <3> QED BY <3>1, <3>3, <3>4
  <2> QED BY <1>10, <2>1, <2>2 DEF ListenFail
<1>11. CASE Listen
  <2>1. spc = "listen" /\ UNCHANGED <<conf, ring>> BY <1>11 DEF Listen
  <2>2. spc' \in {"crashed", "start"} BY <1>11, LogGoes DEF Listen
  <2>3. sockets' = [<<"bound">> EXCEPT ![Len(<<"bound">>)] = "listening"] BY <1>11 DEF Listen
  <2>4. sockets' = <<"listening">> BY <2>3
  <2> QED BY <2>1, <2>2, <2>4
<1>12. CASE StartWorker
  <2>1. spc = "start" /\ UNCHANGED <<conf, ring, sockets>> BY <1>12 DEF StartWorker
  <2>2. spc' \in {"crashed", "start"} BY <1>12, LogGoes DEF StartWorker
  <2> QED BY <2>1, <2>2
<1>13. CASE Serve BY <1>13 DEF Serve
<1>14. CASE UNCHANGED startVars BY <1>14 DEF startVars
<1>15. CASE Resolve
  <2>1. spc = "resolve" /\ spc' \in {"crashed", "open"} /\ UNCHANGED <<conf, ring, sockets, threads>>
    BY <1>15, LogGoes DEF Resolve
  <2> QED BY <2>1
<1> QED BY <1>1, <1>2, <1>3, <1>4, <1>5, <1>6, <1>7, <1>8, <1>9, <1>10, <1>11, <1>12, <1>13, <1>14, <1>15 DEF StartNext

\* The threads of uct_worker and uct_check run beside one listening socket and a
\* ring where ip_hash needs it, and main returns with nothing left open, whatever
\* step of the start failed.
THEOREM StartsInOrder == StartSpec => []StartOrder
<1>1. OrderInv => StartOrder
  <2>1. Len(<<"listening">>) = 1 OBVIOUS
  <2> QED BY <2>1 DEF OrderInv, StartOrder
<1> QED BY <1>1, InitOrder, NextOrder, PTL DEF StartSpec

-----------------------------------------------------------------------------
(* The udp workers *)

Datagrams == [c : Clients, n : Pairs]

\* What is known of a pair of sockets.
PairRecords == [w : UdpWorkers \cup {"none"}, c : Clients \cup {"none"},
                back : {"none", "bound", "unbound", "connected", "other port", "closed"},
                up : {"none", "registered", "ignored", "closed"}]

\* A worker that has a datagram has not sent it on.
UdpTypes ==
    /\ sent \in 0 .. MaxDatagrams
    /\ queue \in Seq(Datagrams)
    /\ upc \in [UdpWorkers -> {"recv", "back", "connect", "up", "wait", "events", "dead"}]
    /\ cur \in [UdpWorkers -> Datagrams \cup {None}]
    /\ \A w \in UdpWorkers : upc[w] \in {"back", "connect", "up"} <=> cur[w] # None
    /\ pair \in [Pairs -> PairRecords]
    /\ unread \in [Pairs -> SUBSET Datagrams]
    /\ forwarded \subseteq Datagrams /\ lost \subseteq Datagrams
    /\ DOMAIN inbox = Pairs /\ events \in [UdpWorkers -> SUBSET Pairs] /\ DOMAIN received = Clients

\* The places a datagram can be in.
Queued(k)    == \E i \in 1 .. Len(queue) : queue[i].n = k
SentOn(k)    == \E d \in forwarded : d.n = k
Dropped(k)   == \E d \in lost : d.n = k
Held(w, k)   == cur[w].n = k
Given(n, k)  == \E d \in unread[n] : d.n = k

\* Datagram k is in one of them and in no other.
Single(k) ==
    /\ \/ Queued(k) \/ SentOn(k) \/ Dropped(k)
       \/ \E w \in UdpWorkers : Held(w, k)
       \/ \E n \in Pairs : Given(n, k)
    /\ Queued(k) => ~SentOn(k) /\ ~Dropped(k)
    /\ SentOn(k) => ~Dropped(k)
    /\ \A w \in UdpWorkers : Held(w, k) => ~Queued(k) /\ ~SentOn(k) /\ ~Dropped(k)
    /\ \A n \in Pairs : Given(n, k) => ~Queued(k) /\ ~SentOn(k) /\ ~Dropped(k)
    /\ \A w, v \in UdpWorkers : Held(w, k) /\ Held(v, k) => w = v
    /\ \A n, m \in Pairs : Given(n, k) /\ Given(m, k) => n = m
    /\ \A w \in UdpWorkers, n \in Pairs : ~(Held(w, k) /\ Given(n, k))

\* Datagram k has not been sent.
Unsent(k) ==
    /\ ~Queued(k) /\ ~SentOn(k) /\ ~Dropped(k)
    /\ \A w \in UdpWorkers : ~Held(w, k)
    /\ \A n \in Pairs : ~Given(n, k)

\* Datagrams sent are in one place, the others in none, and the queue has no
\* datagram twice.
OnceInv ==
    /\ \A i, j \in 1 .. Len(queue) : queue[i].n = queue[j].n => i = j
    /\ \A k \in Pairs : (k <= sent => Single(k)) /\ (k > sent => Unsent(k))

\* A pair belongs to the client of the datagram it was opened for, from the
\* moment that it is; replies and events are those of pairs sent on.
ClientInv ==
    /\ \A d \in forwarded : pair[d.n].c = d.c
    /\ \A w \in UdpWorkers : upc[w] \in {"connect", "up"} => pair[cur[w].n].c = cur[w].c
    /\ \A n \in Pairs : inbox[n] # <<>> => SentOn(n)
    /\ \A w \in UdpWorkers : \A n \in events[w] : SentOn(n)
    /\ \A c \in Clients : \E S : received[c] \in Seq(S)
    /\ RightClient

\* Datagrams are numbered from 1.
LEMMA PairsNat == Pairs \subseteq Nat \ {0}
BY UdpAssumption DEF Pairs

\* The types at the start.
LEMMA InitTypes == InitUdp => UdpTypes
<1> SUFFICES ASSUME InitUdp PROVE UdpTypes OBVIOUS
<1>1. sent \in 0 .. MaxDatagrams BY UdpAssumption DEF InitUdp
<1>2. /\ queue \in Seq(Datagrams)
      /\ upc \in [UdpWorkers -> {"recv", "back", "connect", "up", "wait", "events", "dead"}]
      /\ cur \in [UdpWorkers -> Datagrams \cup {None}]
      /\ \A w \in UdpWorkers : upc[w] \in {"back", "connect", "up"} <=> cur[w] # None
  BY DEF InitUdp
<1>3. pair \in [Pairs -> PairRecords] BY DEF InitUdp, NoPair, PairRecords
<1>4. unread \in [Pairs -> SUBSET Datagrams] /\ forwarded \subseteq Datagrams /\ lost \subseteq Datagrams BY DEF InitUdp
<1>5. DOMAIN inbox = Pairs /\ events \in [UdpWorkers -> SUBSET Pairs] /\ DOMAIN received = Clients BY DEF InitUdp
<1> QED BY <1>1, <1>2, <1>3, <1>4, <1>5 DEF UdpTypes

\* What recvfrom takes and what it leaves.
LEMMA HeadTail ==
    ASSUME NEW S, NEW s \in Seq(S), s # <<>>
    PROVE  /\ Head(s) \in S /\ Tail(s) \in Seq(S) /\ Len(s) \in Nat /\ Len(s) >= 1
           /\ Head(s) = s[1] /\ Len(Tail(s)) = Len(s) - 1
           /\ \A i \in 1 .. Len(s) - 1 : Tail(s)[i] = s[i+1]
OBVIOUS

\* The record that stands for no datagram is none.
LEMMA NoneIsNone == None \notin Datagrams /\ None.n = 0 /\ \A d \in Datagrams : d.n \in Pairs /\ d.c \in Clients
<1>1. 0 \notin Pairs BY PairsNat
<1> QED BY <1>1 DEF None, Datagrams

\* A step that sets one socket of a pair, or both, leaves its client.
LEMMA PairConnects ==
    ASSUME NEW f \in [Pairs -> PairRecords], NEW g, NEW n \in Pairs,
           g = [f EXCEPT ![n].back = IF @ = "bound" THEN "connected" ELSE "other port"]
    PROVE  g \in [Pairs -> PairRecords] /\ \A m \in Pairs : g[m].c = f[m].c
BY ZenonT(60) DEF PairRecords

\* The upstream socket of a pair is registered, or epoll_ctl failed.
LEMMA PairRegisters ==
    ASSUME NEW f \in [Pairs -> PairRecords], NEW g, NEW n \in Pairs, NEW r \in {"registered", "ignored"},
           g = [f EXCEPT ![n].up = r]
    PROVE  g \in [Pairs -> PairRecords] /\ \A m \in Pairs : g[m].c = f[m].c
BY ZenonT(60) DEF PairRecords

\* Both sockets are closed.
LEMMA PairCloses ==
    ASSUME NEW f \in [Pairs -> PairRecords], NEW g, NEW n \in Pairs,
           g = [f EXCEPT ![n].back = "closed", ![n].up = "closed"]
    PROVE  g \in [Pairs -> PairRecords] /\ \A m \in Pairs : g[m].c = f[m].c
BY ZenonT(60) DEF PairRecords

\* Every step keeps the types, and a worker has a datagram just from recvfrom
\* to sendto.
LEMMA NextTypes == UdpTypes /\ [UdpNext]_udpVars => UdpTypes'
<1> SUFFICES ASSUME UdpTypes, [UdpNext]_udpVars PROVE UdpTypes' OBVIOUS
<1> USE DEF UdpTypes
<1>n. None \notin Datagrams /\ \A d \in Datagrams : d.n \in Pairs /\ d.c \in Clients BY NoneIsNone
<1>1. ASSUME NEW c \in Clients, ClientSend(c) PROVE UdpTypes'
  <2>1. PICK d : d = [c |-> c, n |-> sent + 1] OBVIOUS
  <2>2. sent + 1 \in Pairs /\ sent + 1 \in 0 .. MaxDatagrams BY <1>1, UdpAssumption DEF ClientSend, Pairs
  <2>3. d \in Datagrams BY <2>1, <2>2 DEF Datagrams
  <2>4. queue' \in Seq(Datagrams) /\ unread' \in [Pairs -> SUBSET Datagrams]
    <3>1. CASE queue' = Append(queue, d) /\ unread' = unread BY <2>3, <3>1
    <3>2. CASE \E n \in Pairs : unread' = [unread EXCEPT ![n] = @ \cup {d}] /\ queue' = queue BY <2>3, <3>2
    <3> QED BY <1>1, <2>1, <3>1, <3>2 DEF ClientSend, Connected, Bound
  <2> QED BY <1>1, <2>2, <2>4 DEF ClientSend
<1>2. ASSUME NEW n \in Pairs, Reply(n) PROVE UdpTypes' BY <1>2 DEF Reply
<1>3. ASSUME NEW w \in UdpWorkers, Recvfrom(w) PROVE UdpTypes'
  <2>0. queue \in Seq(Datagrams) /\ queue # <<>> BY <1>3 DEF Recvfrom
  <2>1. Head(queue) \in Datagrams /\ Tail(queue) \in Seq(Datagrams) BY <2>0, HeadTail
  <2>2. PICK h \in Datagrams : h = Head(queue) BY <2>1
  <2>3. cur' = [cur EXCEPT ![w] = h] /\ upc' = [upc EXCEPT ![w] = "back"] BY <1>3, <2>2 DEF Recvfrom, At_
  <2>4. h # None BY <1>n
  <2>5. cur' \in [UdpWorkers -> Datagrams \cup {None}] BY <2>3
  <2>6. \A v \in UdpWorkers : upc'[v] \in {"back", "connect", "up"} <=> cur'[v] # None BY <2>3, <2>4
  <2>7. queue' \in Seq(Datagrams) BY <1>3, <2>1 DEF Recvfrom
  <2> QED BY <1>3, <2>3, <2>5, <2>6, <2>7 DEF Recvfrom
<1>4. ASSUME NEW w \in UdpWorkers, OpenBack(w) PROVE UdpTypes'
  <2>1. cur[w] \in Datagrams BY <1>4 DEF OpenBack
  <2>2. CASE \E b \in {"bound", "unbound"} :
               /\ pair' = [pair EXCEPT ![cur[w].n] = [w |-> w, c |-> cur[w].c, back |-> b, up |-> "none"]]
               /\ At_(w, "connect") /\ UNCHANGED <<cur, lost>>
    <3>1. cur[w].c \in Clients BY <1>n, <2>1
    <3>2. PICK b \in {"bound", "unbound"} : pair' = [pair EXCEPT ![cur[w].n] = [w |-> w, c |-> cur[w].c, back |-> b, up |-> "none"]]
      BY <2>2
    <3>3. [w |-> w, c |-> cur[w].c, back |-> b, up |-> "none"] \in PairRecords BY <3>1 DEF PairRecords
    <3>4. pair' \in [Pairs -> PairRecords]
      <4>1. PICK r \in PairRecords : r = [w |-> w, c |-> cur[w].c, back |-> b, up |-> "none"] BY <3>3
      <4>2. pair' = [pair EXCEPT ![cur[w].n] = r] BY <3>2, <4>1
      <4> QED BY <4>2
    <3>5. upc' = [upc EXCEPT ![w] = "connect"] BY <2>2 DEF At_
    <3> QED BY <1>4, <2>2, <3>4, <3>5 DEF OpenBack
  <2>3. CASE /\ At_(w, "dead") /\ lost' = lost \cup {cur[w]} /\ cur' = [cur EXCEPT ![w] = None] /\ UNCHANGED pair
    BY <1>4, <2>1, <2>3 DEF OpenBack, At_
  <2> QED BY <1>4, <2>2, <2>3 DEF OpenBack
<1>5. ASSUME NEW w \in UdpWorkers, ConnectBack(w) PROVE UdpTypes'
  <2>1. cur[w].n \in Pairs BY <1>5, <1>n DEF ConnectBack
  <2>2. PICK p : p = pair' OBVIOUS
  <2>3. p = [pair EXCEPT ![cur[w].n].back = IF @ = "bound" THEN "connected" ELSE "other port"] BY <1>5, <2>2 DEF ConnectBack
  <2>4. p \in [Pairs -> PairRecords] BY <2>1, <2>3, PairConnects
  <2>5. upc' = [upc EXCEPT ![w] = "up"] /\ upc[w] = "connect" BY <1>5 DEF ConnectBack, At_
  <2>6. pair' \in [Pairs -> PairRecords] BY <2>2, <2>4
  <2>7. UNCHANGED <<queue, sent, cur, inbox, unread, forwarded, lost, events, received, replies>> BY <1>5 DEF ConnectBack
  <2> QED BY <2>5, <2>6, <2>7
<1>6. ASSUME NEW w \in UdpWorkers, Forward(w) PROVE UdpTypes'
  <2>1. cur[w] \in Datagrams /\ cur[w].n \in Pairs BY <1>6, <1>n DEF Forward
  <2>2. cur' \in [UdpWorkers -> Datagrams \cup {None}] BY <1>6 DEF Forward
  <2>o. UNCHANGED <<queue, sent, inbox, unread, events, received, replies>> BY <1>6 DEF Forward
  <2>c. cur' = [v \in UdpWorkers |-> IF upc'[v] = "dead" \/ v = w THEN None ELSE cur[v]] BY <1>6 DEF Forward
  <2>3. CASE \E r \in {"registered", "ignored"} :
               /\ pair' = [pair EXCEPT ![cur[w].n].up = r] /\ forwarded' = forwarded \cup {cur[w]}
               /\ At_(w, "wait") /\ UNCHANGED lost
    <3>1. PICK p : p = pair' OBVIOUS
    <3>2. \E r \in {"registered", "ignored"} : p = [pair EXCEPT ![cur[w].n].up = r] BY <2>3, <3>1
    <3>3. p \in [Pairs -> PairRecords] BY <2>1, <3>2, PairRegisters
    <3>4. pair' \in [Pairs -> PairRecords] BY <3>1, <3>3
    <3>5. upc' = [upc EXCEPT ![w] = "wait"] /\ forwarded' = forwarded \cup {cur[w]} /\ lost' = lost BY <2>3 DEF At_
    <3>6. ASSUME NEW v \in UdpWorkers PROVE upc'[v] \in {"back", "connect", "up"} <=> cur'[v] # None BY <2>c, <3>5
    <3> QED BY <2>1, <2>2, <2>o, <3>4, <3>5, <3>6
  <2>4. CASE /\ upc' = [v \in UdpWorkers |-> "dead"]
             /\ lost' = lost \cup {cur[v] : v \in {v \in UdpWorkers : upc[v] \in {"back", "connect", "up"}}}
             /\ UNCHANGED <<pair, forwarded>>
    <3>1. lost' \subseteq Datagrams BY <2>4
    <3>2. ASSUME NEW v \in UdpWorkers PROVE upc'[v] \in {"back", "connect", "up"} <=> cur'[v] # None BY <2>c, <2>4
    <3> QED BY <2>2, <2>4, <2>o, <3>1, <3>2
  <2> QED BY <1>6, <2>3, <2>4 DEF Forward
<1>7. ASSUME NEW w \in UdpWorkers, EpollWait(w) PROVE UdpTypes' BY <1>7 DEF EpollWait, At_
<1>8. ASSUME NEW w \in UdpWorkers, EventRead(w) PROVE UdpTypes' BY <1>8 DEF EventRead
<1>9. ASSUME NEW w \in UdpWorkers, EventAgain(w) PROVE UdpTypes' BY <1>9 DEF EventAgain
<1>10. ASSUME NEW w \in UdpWorkers, EventClose(w) PROVE UdpTypes'
  <2>1. PICK n \in events[w] :
           /\ pair' = [pair EXCEPT ![n].back = "closed", ![n].up = "closed"]
           /\ inbox' = [inbox EXCEPT ![n] = <<>>]
           /\ lost' = lost \cup unread[n] /\ unread' = [unread EXCEPT ![n] = {}]
           /\ events' = [events EXCEPT ![w] = @ \ {n}]
    BY <1>10 DEF EventClose
  <2>2. n \in Pairs BY <2>1
  <2>3. pair' \in [Pairs -> PairRecords]
    <3>1. PICK p : p = pair' OBVIOUS
    <3>2. p = [pair EXCEPT ![n].back = "closed", ![n].up = "closed"] BY <2>1, <3>1
    <3>p. PICK f \in [Pairs -> PairRecords] : f = pair OBVIOUS
    <3>q. p = [f EXCEPT ![n].back = "closed", ![n].up = "closed"] BY <3>2, <3>p
    <3> HIDE DEF UdpTypes
    <3>3. p \in [Pairs -> PairRecords] BY <2>2, <3>q, PairCloses
    <3> QED BY <3>1, <3>3
  <2>4. unread' \in [Pairs -> SUBSET Datagrams] /\ lost' \subseteq Datagrams /\ events' \in [UdpWorkers -> SUBSET Pairs]
        /\ DOMAIN inbox' = Pairs
    BY <2>1, <2>2
  <2>5. UNCHANGED <<queue, sent, upc, cur, forwarded, received>> BY <1>10 DEF EventClose
  <2> QED BY <2>3, <2>4, <2>5
<1>11. ASSUME NEW w \in UdpWorkers, EventsEnd(w) PROVE UdpTypes' BY <1>11 DEF EventsEnd, At_
<1>12. CASE UNCHANGED udpVars BY <1>12 DEF udpVars
<1>13. ASSUME NEW w \in UdpWorkers, ConnectFail(w) PROVE UdpTypes' BY <1>13 DEF ConnectFail, At_
<1>14. ASSUME NEW w \in UdpWorkers, SendFail(w) PROVE UdpTypes'
  <2>1. cur[w] \in Datagrams /\ cur[w].n \in Pairs BY <1>14, <1>n DEF SendFail
  <2>2. pair' \in [Pairs -> PairRecords]
    <3>1. PICK p : p = pair' OBVIOUS
    <3>2. \E r \in {"registered", "ignored"} : p = [pair EXCEPT ![cur[w].n].up = r] BY <1>14, <3>1 DEF SendFail
    <3>3. p \in [Pairs -> PairRecords] BY <2>1, <3>2, PairRegisters
    <3> QED BY <3>1, <3>3
  <2>3. /\ upc' = [upc EXCEPT ![w] = "wait"] /\ cur' = [cur EXCEPT ![w] = None] /\ lost' = lost \cup {cur[w]}
        /\ UNCHANGED <<queue, sent, inbox, unread, forwarded, events, received>>
    BY <1>14 DEF SendFail, At_
  <2> QED BY <2>1, <2>2, <2>3
<1>15. ASSUME NEW w \in UdpWorkers, EventDrop(w) PROVE UdpTypes' BY <1>15 DEF EventDrop
<1> QED BY <1>1, <1>2, <1>3, <1>4, <1>5, <1>6, <1>7, <1>8, <1>9, <1>10, <1>11, <1>12, <1>13, <1>14, <1>15 DEF UdpNext

\* No datagram is anywhere at the start.
LEMMA InitOnce == InitUdp => OnceInv
<1> SUFFICES ASSUME InitUdp PROVE OnceInv OBVIOUS
<1>1. Len(queue) = 0 /\ 1 .. Len(queue) = {} BY DEF InitUdp
<1>2. ASSUME NEW k \in Pairs PROVE Unsent(k) /\ k > sent
  <2>1. k # 0 /\ k > sent BY PairsNat DEF InitUdp
  <2>2. \A w \in UdpWorkers : ~Held(w, k) BY <2>1, NoneIsNone DEF InitUdp, Held
  <2>3. ~Queued(k) /\ ~SentOn(k) /\ ~Dropped(k) /\ \A n \in Pairs : ~Given(n, k)
    BY <1>1 DEF InitUdp, Queued, SentOn, Dropped, Given
  <2> QED BY <2>1, <2>2, <2>3 DEF Unsent
<1>3. \A k \in Pairs : k > sent => ~(k <= sent) BY PairsNat DEF InitUdp
<1> QED BY <1>1, <1>2, <1>3 DEF OnceInv

\* What is not about the places of datagrams.
LEMMA SameOnce ==
    ASSUME OnceInv, UNCHANGED <<queue, sent, cur, forwarded, lost, unread>>
    PROVE  OnceInv'
BY DEF OnceInv, Single, Unsent, Queued, SentOn, Dropped, Held, Given

\* The system gives the new datagram to a socket: it is in that one alone.
LEMMA SendOnce ==
    ASSUME UdpTypes, OnceInv, NEW c \in Clients, ClientSend(c)
    PROVE  OnceInv'
<1>1. PICK d : d = [c |-> c, n |-> sent + 1] OBVIOUS
<1>2. sent \in Nat /\ sent + 1 \in Pairs /\ sent' = sent + 1 /\ Pairs \subseteq Nat
  BY UdpAssumption, PairsNat DEF UdpTypes, ClientSend, Pairs
<1>3. UNCHANGED <<cur, forwarded, lost>> BY DEF ClientSend
<1>4. \A k \in Pairs : (SentOn(k)' <=> SentOn(k)) /\ (Dropped(k)' <=> Dropped(k)) /\ \A w \in UdpWorkers : Held(w, k)' <=> Held(w, k)
  BY <1>3 DEF SentOn, Dropped, Held
<1>5. d.n = sent + 1 BY <1>1
<1>6. Unsent(sent + 1) BY <1>2 DEF OnceInv
<1>7. CASE queue' = Append(queue, d) /\ unread' = unread
  <2>1. queue \in Seq(Datagrams) /\ Len(queue) \in Nat BY DEF UdpTypes
  <2>2. /\ Len(queue') = Len(queue) + 1
        /\ queue'[Len(queue) + 1] = d
        /\ \A i \in 1 .. Len(queue) : queue'[i] = queue[i]
    BY <1>7, <2>1
  <2>3. \A k \in Pairs : Queued(k)' <=> Queued(k) \/ k = sent + 1
    <3>1. ASSUME NEW k \in Pairs, Queued(k)' PROVE Queued(k) \/ k = sent + 1
      BY <1>5, <2>1, <2>2, <3>1 DEF Queued
    <3>2. ASSUME NEW k \in Pairs, Queued(k) PROVE Queued(k)'
      BY <2>1, <2>2, <3>2 DEF Queued
    <3>3. ASSUME NEW k \in Pairs, k = sent + 1 PROVE Queued(k)'
      <4>1. Len(queue) + 1 \in 1 .. Len(queue') BY <2>1, <2>2
      <4> QED BY <1>5, <2>2, <3>3, <4>1 DEF Queued
    <3> QED BY <3>1, <3>2, <3>3
  <2>4. \A k \in Pairs : \A n \in Pairs : Given(n, k)' <=> Given(n, k) BY <1>7 DEF Given
  <2>5. \A i, j \in 1 .. Len(queue') : queue'[i].n = queue'[j].n => i = j
    <3>1. \A i \in 1 .. Len(queue) : queue[i].n # sent + 1 BY <1>6 DEF Unsent, Queued
    <3>2. \A i, j \in 1 .. Len(queue) : queue[i].n = queue[j].n => i = j BY DEF OnceInv
    <3> QED BY <1>5, <2>1, <2>2, <3>1, <3>2
  <2>6. ASSUME NEW k \in Pairs PROVE (k <= sent' => Single(k)') /\ (k > sent' => Unsent(k)')
    <3>1. (k <= sent => Single(k)) /\ (k > sent => Unsent(k)) BY DEF OnceInv
    <3>2. CASE k <= sent
      <4>1. k # sent + 1 /\ ~(k > sent') BY <1>2, <3>2
      <4>2. Single(k)' BY <1>4, <2>3, <2>4, <3>1, <3>2, <4>1 DEF Single
      <4> QED BY <4>1, <4>2
    <3>3. CASE k = sent + 1
      <4>1. ~(k > sent') BY <1>2, <3>3
      <4>2. Single(k)' BY <1>2, <1>4, <1>6, <2>3, <2>4, <3>3 DEF Single, Unsent
      <4> QED BY <4>1, <4>2
    <3>4. CASE k > sent + 1
      <4>1. k # sent + 1 /\ k > sent /\ ~(k <= sent') BY <1>2, <3>4
      <4>2. Unsent(k)' BY <1>4, <2>3, <2>4, <3>1, <4>1 DEF Unsent
      <4> QED BY <4>1, <4>2
    <3> QED BY <1>2, <3>2, <3>3, <3>4
  <2> QED BY <2>5, <2>6 DEF OnceInv
<1>8. CASE \E m \in Pairs : unread' = [unread EXCEPT ![m] = @ \cup {d}] /\ queue' = queue
  <2>1. PICK m \in Pairs : unread' = [unread EXCEPT ![m] = @ \cup {d}] /\ queue' = queue BY <1>8
  <2>2. \A k \in Pairs : Queued(k)' <=> Queued(k) BY <2>1 DEF Queued
  <2>3. \A n \in Pairs : unread'[n] = IF n = m THEN unread[m] \cup {d} ELSE unread[n] BY <2>1 DEF UdpTypes
  <2>4. \A k \in Pairs : \A n \in Pairs : Given(n, k)' <=> Given(n, k) \/ (n = m /\ k = sent + 1)
    BY <1>5, <2>3 DEF Given
  <2>5. \A i, j \in 1 .. Len(queue') : queue'[i].n = queue'[j].n => i = j BY <2>1 DEF OnceInv
  <2>6. ASSUME NEW k \in Pairs PROVE (k <= sent' => Single(k)') /\ (k > sent' => Unsent(k)')
    <3>1. (k <= sent => Single(k)) /\ (k > sent => Unsent(k)) BY DEF OnceInv
    <3>2. CASE k <= sent
      <4>1. k # sent + 1 /\ ~(k > sent') BY <1>2, <3>2
      <4>2. Single(k)' BY <1>4, <2>2, <2>4, <3>1, <3>2, <4>1 DEF Single
      <4> QED BY <4>1, <4>2
    <3>3. CASE k = sent + 1
      <4>1. ~(k > sent') BY <1>2, <3>3
      <4>2. Single(k)' BY <1>2, <1>4, <1>6, <2>1, <2>2, <2>4, <3>3 DEF Single, Unsent
      <4> QED BY <4>1, <4>2
    <3>4. CASE k > sent + 1
      <4>1. k # sent + 1 /\ k > sent /\ ~(k <= sent') BY <1>2, <3>4
      <4>2. Unsent(k)' BY <1>4, <2>2, <2>4, <3>1, <4>1 DEF Unsent
      <4> QED BY <4>1, <4>2
    <3> QED BY <1>2, <3>2, <3>3, <3>4
  <2> QED BY <2>5, <2>6 DEF OnceInv
<1> QED BY <1>1, <1>7, <1>8 DEF ClientSend, Connected, Bound

\* The head of the queue moves to the worker.
LEMMA RecvOnce ==
    ASSUME UdpTypes, OnceInv, NEW w \in UdpWorkers, Recvfrom(w)
    PROVE  OnceInv'
<1>1. queue \in Seq(Datagrams) /\ queue # <<>> BY DEF UdpTypes, Recvfrom
<1>2. PICK h \in Datagrams : h = Head(queue) BY <1>1, HeadTail
<1>3. h = queue[1] /\ queue' = Tail(queue) /\ Len(queue) \in Nat /\ Len(queue) >= 1 BY <1>1, <1>2, HeadTail DEF Recvfrom
<1>4. Len(queue') = Len(queue) - 1 /\ \A i \in 1 .. Len(queue) - 1 : queue'[i] = queue[i+1] BY <1>1, <1>3, HeadTail
<1>5. \A i, j \in 1 .. Len(queue) : queue[i].n = queue[j].n => i = j BY DEF OnceInv
<1>6. \A i, j \in 1 .. Len(queue') : queue'[i].n = queue'[j].n => i = j
  <2> SUFFICES ASSUME NEW i \in 1 .. Len(queue'), NEW j \in 1 .. Len(queue'), queue'[i].n = queue'[j].n
               PROVE  i = j
    OBVIOUS
  <2>1. /\ i \in 1 .. Len(queue) - 1 /\ j \in 1 .. Len(queue) - 1
        /\ i+1 \in 1 .. Len(queue) /\ j+1 \in 1 .. Len(queue)
    BY <1>3, <1>4
  <2>2. queue'[i] = queue[i+1] /\ queue'[j] = queue[j+1] BY <1>4, <2>1
  <2>3. i+1 = j+1 BY <1>5, <2>1, <2>2
  <2> QED BY <2>1, <2>3
<1>7. UNCHANGED <<sent, forwarded, lost, unread>> BY DEF Recvfrom
<1>8. \A k \in Pairs : /\ (SentOn(k)' <=> SentOn(k)) /\ (Dropped(k)' <=> Dropped(k))
                       /\ \A n \in Pairs : Given(n, k)' <=> Given(n, k)
  BY <1>7 DEF SentOn, Dropped, Given
<1>9. ASSUME NEW k \in Pairs PROVE Queued(k)' <=> Queued(k) /\ k # h.n
  <2>1. ASSUME Queued(k)' PROVE Queued(k) /\ k # h.n
    <3>1. PICK i \in 1 .. Len(queue') : queue'[i].n = k BY <2>1 DEF Queued
    <3>2. i + 1 \in 1 .. Len(queue) /\ queue[i+1].n = k /\ i + 1 # 1 /\ 1 \in 1 .. Len(queue) BY <1>3, <1>4, <3>1
    <3> QED BY <1>3, <1>5, <3>2 DEF Queued
  <2>2. ASSUME Queued(k), k # h.n PROVE Queued(k)'
    <3>1. PICK i \in 1 .. Len(queue) : queue[i].n = k BY <2>2 DEF Queued
    <3>2. i # 1 BY <1>3, <2>2, <3>1
    <3>3. i - 1 \in 1 .. Len(queue') /\ queue'[i-1] = queue[i] BY <1>3, <1>4, <3>1, <3>2
    <3> QED BY <3>1, <3>3 DEF Queued
  <2> QED BY <2>1, <2>2
<1>10. Queued(h.n) BY <1>3 DEF Queued
<1>11. \A k \in Pairs : ~Held(w, k)
  <2>1. cur[w] = None BY DEF UdpTypes, Recvfrom
  <2> QED BY <2>1, NoneIsNone, PairsNat DEF Held
<1>12. \A k \in Pairs : \A v \in UdpWorkers : Held(v, k)' <=> IF v = w THEN k = h.n ELSE Held(v, k)
  BY <1>2 DEF UdpTypes, Recvfrom, Held
<1>13. ASSUME NEW k \in Pairs PROVE (Single(k) => Single(k)') /\ (Unsent(k) => Unsent(k)')
  <2>1. ASSUME Single(k) PROVE Single(k)'
    <3>1. CASE k = h.n
      <4>1. Queued(k) /\ ~Queued(k)' /\ Held(w, k)' BY <1>9, <1>10, <1>12, <3>1
      <4> QED BY <1>8, <1>11, <1>12, <2>1, <4>1 DEF Single
    <3>2. CASE k # h.n BY <1>8, <1>9, <1>11, <1>12, <2>1, <3>2 DEF Single
    <3> QED BY <3>1, <3>2
  <2>2. ASSUME Unsent(k) PROVE Unsent(k)'
    <3>1. k # h.n BY <1>10, <2>2 DEF Unsent
    <3> QED BY <1>8, <1>9, <1>11, <1>12, <2>2, <3>1 DEF Unsent
  <2> QED BY <2>1, <2>2
<1> QED BY <1>6, <1>7, <1>13 DEF OnceInv

\* The datagram a worker cannot open a socket for, or cannot send, is dropped.
LEMMA DropOnce ==
    ASSUME UdpTypes, OnceInv, NEW w \in UdpWorkers, upc[w] \in {"back", "up"},
           lost' = lost \cup {cur[w]}, cur' = [cur EXCEPT ![w] = None], UNCHANGED <<queue, sent, forwarded, unread>>
    PROVE  OnceInv'
<1>1. PICK h \in Datagrams : h = cur[w] BY DEF UdpTypes
<1>2. \A k \in Pairs : /\ (SentOn(k)' <=> SentOn(k)) /\ (Queued(k)' <=> Queued(k))
                       /\ \A n \in Pairs : Given(n, k)' <=> Given(n, k)
  BY DEF SentOn, Queued, Given
<1>3. \A k \in Pairs : (Dropped(k)' <=> Dropped(k) \/ k = h.n) /\ (Held(w, k) <=> k = h.n) BY <1>1 DEF Dropped, Held
<1>4. \A k \in Pairs : \A v \in UdpWorkers : Held(v, k)' <=> v # w /\ Held(v, k)
  BY NoneIsNone, PairsNat DEF UdpTypes, Held
<1>5. \A k \in Pairs : (Single(k) => Single(k)') /\ (Unsent(k) => Unsent(k)') BY <1>2, <1>3, <1>4 DEF Single, Unsent
<1> QED BY <1>5 DEF OnceInv

\* The datagram of a worker is sent on.
LEMMA ForwardOnce ==
    ASSUME UdpTypes, OnceInv, NEW w \in UdpWorkers, upc[w] = "up",
           forwarded' = forwarded \cup {cur[w]}, upc' = [upc EXCEPT ![w] = "wait"],
           cur' = [v \in UdpWorkers |-> IF upc'[v] = "dead" \/ v = w THEN None ELSE cur[v]],
           UNCHANGED <<queue, sent, lost, unread>>
    PROVE  OnceInv'
<1>1. PICK h \in Datagrams : h = cur[w] BY DEF UdpTypes
<1>2. \A k \in Pairs : /\ (Dropped(k)' <=> Dropped(k)) /\ (Queued(k)' <=> Queued(k))
                       /\ \A n \in Pairs : Given(n, k)' <=> Given(n, k)
  BY DEF Dropped, Queued, Given
<1>3. \A k \in Pairs : (SentOn(k)' <=> SentOn(k) \/ k = h.n) /\ (Held(w, k) <=> k = h.n) BY <1>1 DEF SentOn, Held
<1>4. \A v \in UdpWorkers : cur'[v] = IF v = w THEN None ELSE cur[v] BY DEF UdpTypes
<1>5. \A k \in Pairs : \A v \in UdpWorkers : Held(v, k)' <=> v # w /\ Held(v, k)
  BY <1>4, NoneIsNone, PairsNat DEF Held
<1>6. \A k \in Pairs : (Single(k) => Single(k)') /\ (Unsent(k) => Unsent(k)') BY <1>2, <1>3, <1>5 DEF Single, Unsent
<1> QED BY <1>6 DEF OnceInv

\* Without an upstream connection the process dies with all the workers hold.
LEMMA DieOnce ==
    ASSUME UdpTypes, OnceInv, upc' = [v \in UdpWorkers |-> "dead"],
           lost' = lost \cup {cur[v] : v \in {v \in UdpWorkers : upc[v] \in {"back", "connect", "up"}}},
           \A v \in UdpWorkers : cur'[v] = None,
           UNCHANGED <<queue, sent, forwarded, unread>>
    PROVE  OnceInv'
<1>1. \A k \in Pairs : /\ (SentOn(k)' <=> SentOn(k)) /\ (Queued(k)' <=> Queued(k))
                       /\ \A n \in Pairs : Given(n, k)' <=> Given(n, k)
  BY DEF SentOn, Queued, Given
<1>2. \A k \in Pairs : \A v \in UdpWorkers : ~Held(v, k)' BY NoneIsNone, PairsNat DEF Held
<1>3. \A v \in UdpWorkers : cur[v] = None \/ upc[v] \in {"back", "connect", "up"} BY DEF UdpTypes
<1>4. ASSUME NEW k \in Pairs PROVE Dropped(k)' <=> Dropped(k) \/ \E v \in UdpWorkers : Held(v, k)
  <2>1. \A v \in UdpWorkers : Held(v, k) => upc[v] \in {"back", "connect", "up"} BY <1>3, NoneIsNone, PairsNat DEF Held
  <2> QED BY <2>1 DEF Dropped, Held
<1>5. \A k \in Pairs : (Single(k) => Single(k)') /\ (Unsent(k) => Unsent(k)') BY <1>1, <1>2, <1>4 DEF Single, Unsent
<1> QED BY <1>5 DEF OnceInv

\* What the back socket was given goes with it.
LEMMA CloseOnce ==
    ASSUME UdpTypes, OnceInv, NEW m \in Pairs, lost' = lost \cup unread[m], unread' = [unread EXCEPT ![m] = {}],
           UNCHANGED <<queue, sent, cur, forwarded>>
    PROVE  OnceInv'
<1>1. \A k \in Pairs : /\ (SentOn(k)' <=> SentOn(k)) /\ (Queued(k)' <=> Queued(k))
                       /\ \A v \in UdpWorkers : Held(v, k)' <=> Held(v, k)
  BY DEF SentOn, Queued, Held
<1>2. \A n \in Pairs : unread'[n] = IF n = m THEN {} ELSE unread[n] BY DEF UdpTypes
<1>3. \A k \in Pairs : \A n \in Pairs : Given(n, k)' <=> n # m /\ Given(n, k) BY <1>2 DEF Given
<1>4. \A k \in Pairs : Dropped(k)' <=> Dropped(k) \/ Given(m, k) BY DEF Dropped, Given
<1>5. \A k \in Pairs : (Single(k) => Single(k)') /\ (Unsent(k) => Unsent(k)') BY <1>1, <1>3, <1>4 DEF Single, Unsent
<1> QED BY <1>5 DEF OnceInv

\* Every step keeps each datagram in one place.
LEMMA NextOnce == UdpTypes /\ OnceInv /\ [UdpNext]_udpVars => OnceInv'
<1> SUFFICES ASSUME UdpTypes, OnceInv, [UdpNext]_udpVars PROVE OnceInv' OBVIOUS
<1>1. ASSUME NEW c \in Clients, ClientSend(c) PROVE OnceInv' BY <1>1, SendOnce
<1>2. ASSUME NEW n \in Pairs, Reply(n) PROVE OnceInv' BY <1>2, SameOnce DEF Reply
<1>3. ASSUME NEW w \in UdpWorkers, Recvfrom(w) PROVE OnceInv' BY <1>3, RecvOnce
<1>4. ASSUME NEW w \in UdpWorkers, OpenBack(w) PROVE OnceInv'
  <2>1. upc[w] = "back" /\ UNCHANGED <<queue, sent, forwarded, unread>> BY <1>4 DEF OpenBack
  <2>2. CASE UNCHANGED <<cur, lost>> BY <2>1, <2>2, SameOnce
  <2>3. CASE lost' = lost \cup {cur[w]} /\ cur' = [cur EXCEPT ![w] = None] BY <2>1, <2>3, DropOnce
  <2> QED BY <1>4, <2>2, <2>3 DEF OpenBack
<1>5. ASSUME NEW w \in UdpWorkers, ConnectBack(w) PROVE OnceInv' BY <1>5, SameOnce DEF ConnectBack
<1>6. ASSUME NEW w \in UdpWorkers, Forward(w) PROVE OnceInv'
  <2>1. /\ upc[w] = "up" /\ UNCHANGED <<queue, sent, unread>>
        /\ cur' = [v \in UdpWorkers |-> IF upc'[v] = "dead" \/ v = w THEN None ELSE cur[v]]
    BY <1>6 DEF Forward
  <2>2. CASE forwarded' = forwarded \cup {cur[w]} /\ upc' = [upc EXCEPT ![w] = "wait"] /\ lost' = lost
    BY <2>1, <2>2, ForwardOnce
  <2>3. CASE /\ upc' = [v \in UdpWorkers |-> "dead"] /\ forwarded' = forwarded
             /\ lost' = lost \cup {cur[v] : v \in {v \in UdpWorkers : upc[v] \in {"back", "connect", "up"}}}
    <3>1. \A v \in UdpWorkers : cur'[v] = None BY <2>1, <2>3
    <3> QED BY <2>1, <2>3, <3>1, DieOnce
  <2> QED BY <1>6, <2>2, <2>3 DEF Forward, At_
<1>7. ASSUME NEW w \in UdpWorkers, EpollWait(w) PROVE OnceInv' BY <1>7, SameOnce DEF EpollWait
<1>8. ASSUME NEW w \in UdpWorkers, EventRead(w) PROVE OnceInv' BY <1>8, SameOnce DEF EventRead
<1>9. ASSUME NEW w \in UdpWorkers, EventAgain(w) PROVE OnceInv' BY <1>9, SameOnce DEF EventAgain
<1>10. ASSUME NEW w \in UdpWorkers, EventClose(w) PROVE OnceInv'
  <2>1. PICK m \in events[w] : lost' = lost \cup unread[m] /\ unread' = [unread EXCEPT ![m] = {}] BY <1>10 DEF EventClose
  <2>2. m \in Pairs BY <2>1 DEF UdpTypes
  <2>3. UNCHANGED <<queue, sent, cur, forwarded>> BY <1>10 DEF EventClose
  <2> QED BY <2>1, <2>2, <2>3, CloseOnce
<1>11. ASSUME NEW w \in UdpWorkers, EventsEnd(w) PROVE OnceInv' BY <1>11, SameOnce DEF EventsEnd
<1>12. CASE UNCHANGED udpVars BY <1>12, SameOnce DEF udpVars
<1>13. ASSUME NEW w \in UdpWorkers, ConnectFail(w) PROVE OnceInv' BY <1>13, SameOnce DEF ConnectFail
<1>14. ASSUME NEW w \in UdpWorkers, SendFail(w) PROVE OnceInv'
  <2>1. /\ upc[w] = "up" /\ lost' = lost \cup {cur[w]} /\ cur' = [cur EXCEPT ![w] = None]
        /\ UNCHANGED <<queue, sent, forwarded, unread>>
    BY <1>14 DEF SendFail
  <2> QED BY <2>1, DropOnce
<1>15. ASSUME NEW w \in UdpWorkers, EventDrop(w) PROVE OnceInv' BY <1>15, SameOnce DEF EventDrop
<1> QED BY <1>1, <1>2, <1>3, <1>4, <1>5, <1>6, <1>7, <1>8, <1>9, <1>10, <1>11, <1>12, <1>13, <1>14, <1>15 DEF UdpNext

\* One place is what DatagramOnce counts.
LEMMA OnceCounted == UdpTypes /\ OnceInv => DatagramOnce
<1> SUFFICES ASSUME UdpTypes, OnceInv, NEW k \in 1 .. sent
             PROVE  Cardinality({p \in ({"queue", "forwarded", "lost"} \X {0}) \cup ({"worker"} \X UdpWorkers)
                             \cup ({"unread"} \X Pairs) :
                         CASE p[1] = "queue" -> \E i \in DOMAIN queue : queue[i].n = k
                           [] p[1] = "forwarded" -> \E d \in forwarded : d.n = k
                           [] p[1] = "lost" -> \E d \in lost : d.n = k
                           [] p[1] = "worker" -> cur[p[2]].n = k
                           [] p[1] = "unread" -> \E d \in unread[p[2]] : d.n = k}) = 1
  BY DEF DatagramOnce
<1> DEFINE All == ({"queue", "forwarded", "lost"} \X {0}) \cup ({"worker"} \X UdpWorkers) \cup ({"unread"} \X Pairs)
           Holds(p) == CASE p[1] = "queue" -> \E i \in DOMAIN queue : queue[i].n = k
                         [] p[1] = "forwarded" -> \E d \in forwarded : d.n = k
                         [] p[1] = "lost" -> \E d \in lost : d.n = k
                         [] p[1] = "worker" -> cur[p[2]].n = k
                         [] p[1] = "unread" -> \E d \in unread[p[2]] : d.n = k
<1>1. k \in Pairs /\ Single(k)
  <2>1. k \in Pairs /\ k <= sent BY UdpAssumption DEF UdpTypes, Pairs
  <2> QED BY <2>1 DEF OnceInv
<1>2. DOMAIN queue = 1 .. Len(queue) BY DEF UdpTypes
<1>3. Holds(<<"queue", 0>>) <=> Queued(k) BY <1>2 DEF Queued
<1>4. Holds(<<"forwarded", 0>>) <=> SentOn(k) BY DEF SentOn
<1>5. Holds(<<"lost", 0>>) <=> Dropped(k) BY DEF Dropped
<1>6. \A w \in UdpWorkers : Holds(<<"worker", w>>) <=> Held(w, k) BY DEF Held
<1>7. \A n \in Pairs : Holds(<<"unread", n>>) <=> Given(n, k) BY DEF Given
<1> HIDE DEF Holds
<1>8. \A p \in All : \/ p = <<"queue", 0>> \/ p = <<"forwarded", 0>> \/ p = <<"lost", 0>>
                     \/ \E w \in UdpWorkers : p = <<"worker", w>>
                     \/ \E n \in Pairs : p = <<"unread", n>>
  OBVIOUS
<1>e. Queued(k) \/ SentOn(k) \/ Dropped(k) \/ (\E w \in UdpWorkers : Held(w, k)) \/ (\E n \in Pairs : Given(n, k))
  BY <1>1 DEF Single
<1>9. \E x \in All : Holds(x) /\ \A p \in All : Holds(p) => p = x
  <2>1. CASE Queued(k)
    <3>1. ASSUME NEW p \in All, Holds(p) PROVE p = <<"queue", 0>> BY <1>1, <1>3, <1>4, <1>5, <1>6, <1>7, <1>8, <2>1, <3>1 DEF Single
    <3> QED BY <1>3, <2>1, <3>1
  <2>2. CASE SentOn(k)
    <3>1. ASSUME NEW p \in All, Holds(p) PROVE p = <<"forwarded", 0>> BY <1>1, <1>3, <1>4, <1>5, <1>6, <1>7, <1>8, <2>2, <3>1 DEF Single
    <3> QED BY <1>4, <2>2, <3>1
  <2>3. CASE Dropped(k)
    <3>1. ASSUME NEW p \in All, Holds(p) PROVE p = <<"lost", 0>> BY <1>1, <1>3, <1>4, <1>5, <1>6, <1>7, <1>8, <2>3, <3>1 DEF Single
    <3> QED BY <1>5, <2>3, <3>1
  <2>4. CASE \E w \in UdpWorkers : Held(w, k)
    <3>1. PICK w \in UdpWorkers : Held(w, k) BY <2>4
    <3>2. ASSUME NEW p \in All, Holds(p) PROVE p = <<"worker", w>> BY <1>1, <1>3, <1>4, <1>5, <1>6, <1>7, <1>8, <3>1, <3>2 DEF Single
    <3> QED BY <1>6, <3>1, <3>2
  <2>5. CASE \E n \in Pairs : Given(n, k)
    <3>1. PICK n \in Pairs : Given(n, k) BY <2>5
    <3>a. /\ ~Queued(k) /\ ~SentOn(k) /\ ~Dropped(k)
          /\ \A w \in UdpWorkers : ~Held(w, k)
          /\ \A m \in Pairs : Given(m, k) => m = n
      BY <1>1, <3>1 DEF Single
    <3>2. ASSUME NEW p \in All, Holds(p) PROVE p = <<"unread", n>>
      <4> HIDE DEF All
      <4> QED BY <1>3, <1>4, <1>5, <1>6, <1>7, <1>8, <3>a, <3>2
    <3> QED BY <1>7, <3>1, <3>2
  <2> HIDE DEF All
  <2> QED BY <1>e, <2>1, <2>2, <2>3, <2>4, <2>5
<1>10. PICK x : {p \in All : Holds(p)} = {x}
  <2> HIDE DEF All
  <2> QED BY <1>9
<1>11. Cardinality({p \in All : Holds(p)}) = 1
  <2> HIDE DEF All
  <2> QED BY <1>10, FS_Singleton
<1> QED BY <1>11 DEF Holds

\* Nothing was received at the start.
LEMMA InitClient == InitUdp => ClientInv
<1> SUFFICES ASSUME InitUdp PROVE ClientInv OBVIOUS
<1>1. \A c \in Clients : received[c] \in Seq({}) /\ DOMAIN received[c] = {} BY DEF InitUdp
<1>2. /\ \A w \in UdpWorkers : upc[w] = "recv" /\ events[w] = {}
      /\ \A n \in Pairs : inbox[n] = <<>>
      /\ forwarded = {}
  BY DEF InitUdp
<1>3. \A c \in Clients : \E S : received[c] \in Seq(S) BY <1>1
<1> QED BY <1>1, <1>2, <1>3 DEF ClientInv, RightClient

\* A step that leaves the clients of pairs, and what was received, and gives no
\* pair a reply or an event that has none.
LEMMA SameClient ==
    ASSUME UdpTypes, ClientInv, UNCHANGED <<forwarded, received, cur, upc>>,
           \A n \in Pairs : pair'[n].c = pair[n].c,
           \A n \in Pairs : inbox'[n] # <<>> => SentOn(n),
           \A w \in UdpWorkers : events'[w] \subseteq events[w]
    PROVE  ClientInv'
<1>1. \A d \in forwarded : d.n \in Pairs BY NoneIsNone DEF UdpTypes
<1>2. \A w \in UdpWorkers : upc[w] \in {"connect", "up"} => cur[w].n \in Pairs BY NoneIsNone DEF UdpTypes
<1>3. \A k : SentOn(k)' <=> SentOn(k) BY DEF SentOn
<1> QED BY <1>1, <1>2, <1>3 DEF ClientInv, RightClient

\* Nothing that was received, no reply and no event is lost sight of when more
\* datagrams are sent on.
LEMMA ForwardedGrows ==
    ASSUME UdpTypes, ClientInv, forwarded \subseteq forwarded', UNCHANGED <<received, inbox, events>>
    PROVE  /\ \A n \in Pairs : inbox'[n] # <<>> => SentOn(n)'
           /\ \A w \in UdpWorkers : \A n \in events'[w] : SentOn(n)'
           /\ \A c \in Clients : \E S : received'[c] \in Seq(S)
           /\ RightClient'
<1>1. \A k : SentOn(k) => SentOn(k)' BY DEF SentOn
<1> QED BY <1>1 DEF ClientInv, RightClient

\* The pair opened is not the pair of a datagram sent on, nor of another worker:
\* its number is in one place.
LEMMA OpenClient ==
    ASSUME UdpTypes, OnceInv, ClientInv, NEW w \in UdpWorkers, OpenBack(w)
    PROVE  ClientInv'
<1>1. /\ \A d \in forwarded : d.n \in Pairs
      /\ \A v \in UdpWorkers : cur[v] # None => cur[v].n \in Pairs /\ cur[v].c \in Clients
  BY NoneIsNone DEF UdpTypes
<1>2. forwarded \subseteq forwarded' /\ forwarded' = forwarded /\ UNCHANGED <<received, inbox, events>> /\ upc[w] = "back"
  BY DEF OpenBack
<1>3. /\ \A n \in Pairs : inbox'[n] # <<>> => SentOn(n)'
      /\ \A v \in UdpWorkers : \A n \in events'[v] : SentOn(n)'
      /\ \A c \in Clients : \E S : received'[c] \in Seq(S)
      /\ RightClient'
  BY <1>2, ForwardedGrows
<1>4. CASE /\ \E b \in {"bound", "unbound"} : pair' = [pair EXCEPT ![cur[w].n] = [w |-> w, c |-> cur[w].c, back |-> b, up |-> "none"]]
           /\ upc' = [upc EXCEPT ![w] = "connect"] /\ cur' = cur
  <2>1. PICK h \in Datagrams : h = cur[w] BY <1>2 DEF UdpTypes
  <2>2. h.n \in Pairs /\ Held(w, h.n) BY <2>1, NoneIsNone DEF Held
  <2>3. Single(h.n)
    <3>0. h.n \in Nat BY <2>2, PairsNat
    <3>1. h.n \in Nat /\ sent \in Nat BY <3>0, UdpAssumption DEF UdpTypes
    <3>2. ~Unsent(h.n) BY <2>2 DEF Unsent
    <3> QED BY <2>2, <3>1, <3>2 DEF OnceInv
  <2>4. pair'[h.n].c = h.c /\ \A n \in Pairs : n # h.n => pair'[n] = pair[n] BY <1>4, <2>1, <2>2 DEF UdpTypes
  <2>5. \A d \in forwarded : d.n # h.n BY <2>2, <2>3 DEF Single, SentOn
  <2>6. \A v \in UdpWorkers : v # w => cur[v].n # h.n BY <2>2, <2>3 DEF Single, Held
  <2>7. \A d \in forwarded' : pair'[d.n].c = d.c BY <1>1, <1>2, <2>4, <2>5 DEF ClientInv
  <2>8. ASSUME NEW v \in UdpWorkers, upc'[v] \in {"connect", "up"} PROVE pair'[cur'[v].n].c = cur'[v].c
    <3>1. CASE v = w BY <1>4, <2>1, <2>4, <3>1
    <3>2. CASE v # w
      <4>1. upc[v] \in {"connect", "up"} /\ cur'[v] = cur[v] BY <1>4, <2>8, <3>2 DEF UdpTypes
      <4>2. cur[v].n \in Pairs /\ cur[v].n # h.n BY <1>1, <2>6, <3>2, <4>1 DEF UdpTypes
      <4> QED BY <2>4, <4>1, <4>2 DEF ClientInv
    <3> QED BY <3>1, <3>2
  <2> QED BY <1>3, <2>7, <2>8 DEF ClientInv
<1>5. CASE /\ upc' = [upc EXCEPT ![w] = "dead"] /\ cur' = [cur EXCEPT ![w] = None] /\ pair' = pair
  <2>1. \A d \in forwarded' : pair'[d.n].c = d.c BY <1>2, <1>5 DEF ClientInv
  <2>2. ASSUME NEW v \in UdpWorkers, upc'[v] \in {"connect", "up"} PROVE pair'[cur'[v].n].c = cur'[v].c
    <3>1. v # w /\ upc[v] \in {"connect", "up"} /\ cur'[v] = cur[v] BY <1>5, <2>2 DEF UdpTypes
    <3> QED BY <1>5, <3>1 DEF ClientInv
  <2> QED BY <1>3, <2>1, <2>2 DEF ClientInv
<1> QED BY <1>4, <1>5 DEF OpenBack, At_

\* uct_connect leaves the client of the pair.
LEMMA ConnectClient ==
    ASSUME UdpTypes, ClientInv, NEW w \in UdpWorkers, ConnectBack(w)
    PROVE  ClientInv'
<1>1. /\ \A d \in forwarded : d.n \in Pairs
      /\ \A v \in UdpWorkers : cur[v] # None => cur[v].n \in Pairs /\ cur[v].c \in Clients
  BY NoneIsNone DEF UdpTypes
<1>2. /\ forwarded \subseteq forwarded' /\ forwarded' = forwarded /\ UNCHANGED <<received, inbox, events>>
      /\ upc[w] = "connect" /\ upc' = [upc EXCEPT ![w] = "up"] /\ cur' = cur
  BY DEF ConnectBack, At_
<1>3. /\ \A n \in Pairs : inbox'[n] # <<>> => SentOn(n)'
      /\ \A v \in UdpWorkers : \A n \in events'[v] : SentOn(n)'
      /\ \A c \in Clients : \E S : received'[c] \in Seq(S)
      /\ RightClient'
  BY <1>2, ForwardedGrows
<1>4. \A n \in Pairs : pair'[n].c = pair[n].c
  <2>1. PICK p : p = pair' OBVIOUS
  <2>2. PICK f \in [Pairs -> PairRecords] : f = pair BY DEF UdpTypes
  <2>3. p = [f EXCEPT ![cur[w].n].back = IF @ = "bound" THEN "connected" ELSE "other port"] BY <2>1, <2>2 DEF ConnectBack
  <2>4. cur[w].n \in Pairs BY <1>1, <1>2 DEF UdpTypes
  <2>n. PICK m \in Pairs : m = cur[w].n BY <2>4
  <2>m. p = [f EXCEPT ![m].back = IF @ = "bound" THEN "connected" ELSE "other port"] BY <2>3, <2>n
  <2>5. \A n \in Pairs : p[n].c = f[n].c BY <2>m DEF PairRecords
  <2> QED BY <2>1, <2>2, <2>5
<1>5. \A d \in forwarded' : pair'[d.n].c = d.c BY <1>1, <1>2, <1>4 DEF ClientInv
<1>6. ASSUME NEW v \in UdpWorkers, upc'[v] \in {"connect", "up"} PROVE pair'[cur'[v].n].c = cur'[v].c
  <2>1. upc[v] \in {"connect", "up"} BY <1>2, <1>6 DEF UdpTypes
  <2>2. cur[v].n \in Pairs BY <1>1, <2>1 DEF UdpTypes
  <2> QED BY <1>2, <1>4, <2>1, <2>2 DEF ClientInv
<1> QED BY <1>3, <1>5, <1>6 DEF ClientInv

\* The datagram sent on is of the client of its pair.
LEMMA ForwardClient ==
    ASSUME UdpTypes, ClientInv, NEW w \in UdpWorkers, Forward(w)
    PROVE  ClientInv'
<1>1. /\ \A d \in forwarded : d.n \in Pairs
      /\ \A v \in UdpWorkers : cur[v] # None => cur[v].n \in Pairs /\ cur[v].c \in Clients
  BY NoneIsNone DEF UdpTypes
<1>2. /\ forwarded \subseteq forwarded' /\ UNCHANGED <<received, inbox, events>> /\ upc[w] = "up"
      /\ cur' = [v \in UdpWorkers |-> IF upc'[v] = "dead" \/ v = w THEN None ELSE cur[v]]
  BY DEF Forward
<1>3. /\ \A n \in Pairs : inbox'[n] # <<>> => SentOn(n)'
      /\ \A v \in UdpWorkers : \A n \in events'[v] : SentOn(n)'
      /\ \A c \in Clients : \E S : received'[c] \in Seq(S)
      /\ RightClient'
  BY <1>2, ForwardedGrows
<1>4. CASE /\ \E r \in {"registered", "ignored"} : pair' = [pair EXCEPT ![cur[w].n].up = r]
           /\ forwarded' = forwarded \cup {cur[w]} /\ upc' = [upc EXCEPT ![w] = "wait"]
  <2>0. cur[w].n \in Pairs /\ pair[cur[w].n].c = cur[w].c BY <1>1, <1>2 DEF UdpTypes, ClientInv
  <2>1. \A n \in Pairs : pair'[n].c = pair[n].c
    <3>1. PICK p : p = pair' OBVIOUS
    <3>2. PICK f \in [Pairs -> PairRecords] : f = pair BY DEF UdpTypes
    <3>3. PICK r \in {"registered", "ignored"} : p = [f EXCEPT ![cur[w].n].up = r] BY <1>4, <3>1, <3>2
    <3>n. PICK m \in Pairs : m = cur[w].n BY <2>0
    <3>m. p = [f EXCEPT ![m].up = r] BY <3>3, <3>n
    <3>5. \A n \in Pairs : p[n].c = f[n].c BY <3>m, PairRegisters
    <3> QED BY <3>1, <3>2, <3>5
  <2>2. \A d \in forwarded' : pair'[d.n].c = d.c BY <1>1, <1>4, <2>0, <2>1 DEF ClientInv
  <2>3. ASSUME NEW v \in UdpWorkers, upc'[v] \in {"connect", "up"} PROVE pair'[cur'[v].n].c = cur'[v].c
    <3>1. v # w /\ upc[v] \in {"connect", "up"} /\ cur'[v] = cur[v] BY <1>2, <1>4, <2>3 DEF UdpTypes
    <3>2. cur[v].n \in Pairs BY <1>1, <3>1 DEF UdpTypes
    <3> QED BY <2>1, <3>1, <3>2 DEF ClientInv
  <2> QED BY <1>3, <2>2, <2>3 DEF ClientInv
<1>5. CASE upc' = [v \in UdpWorkers |-> "dead"] /\ pair' = pair /\ forwarded' = forwarded
  BY <1>3, <1>5 DEF ClientInv
<1> QED BY <1>4, <1>5 DEF Forward, At_

\* A failed send leaves the pair with its client and frees the worker.
LEMMA SendFailClient ==
    ASSUME UdpTypes, ClientInv, NEW w \in UdpWorkers, SendFail(w)
    PROVE  ClientInv'
<1>1. /\ \A d \in forwarded : d.n \in Pairs
      /\ \A v \in UdpWorkers : cur[v] # None => cur[v].n \in Pairs /\ cur[v].c \in Clients
  BY NoneIsNone DEF UdpTypes
<1>2. /\ forwarded \subseteq forwarded' /\ forwarded' = forwarded /\ UNCHANGED <<received, inbox, events>>
      /\ upc[w] = "up" /\ upc' = [upc EXCEPT ![w] = "wait"] /\ cur' = [cur EXCEPT ![w] = None]
  BY DEF SendFail, At_
<1>3. /\ \A n \in Pairs : inbox'[n] # <<>> => SentOn(n)'
      /\ \A v \in UdpWorkers : \A n \in events'[v] : SentOn(n)'
      /\ \A c \in Clients : \E S : received'[c] \in Seq(S)
      /\ RightClient'
  BY <1>2, ForwardedGrows
<1>4. \A n \in Pairs : pair'[n].c = pair[n].c
  <2>0. cur[w].n \in Pairs BY <1>1, <1>2 DEF UdpTypes
  <2>1. PICK p : p = pair' OBVIOUS
  <2>2. PICK f \in [Pairs -> PairRecords] : f = pair BY DEF UdpTypes
  <2>3. PICK r \in {"registered", "ignored"} : p = [f EXCEPT ![cur[w].n].up = r] BY <2>1, <2>2 DEF SendFail
  <2>4. PICK m \in Pairs : m = cur[w].n BY <2>0
  <2>5. p = [f EXCEPT ![m].up = r] BY <2>3, <2>4
  <2>6. \A n \in Pairs : p[n].c = f[n].c BY <2>5, PairRegisters
  <2> QED BY <2>1, <2>2, <2>6
<1>5. \A d \in forwarded' : pair'[d.n].c = d.c BY <1>1, <1>2, <1>4 DEF ClientInv
<1>6. ASSUME NEW v \in UdpWorkers, upc'[v] \in {"connect", "up"} PROVE pair'[cur'[v].n].c = cur'[v].c
  <2>1. v # w /\ upc[v] \in {"connect", "up"} /\ cur'[v] = cur[v] BY <1>2, <1>6 DEF UdpTypes
  <2>2. cur[v].n \in Pairs BY <1>1, <2>1 DEF UdpTypes
  <2> QED BY <1>4, <2>1, <2>2 DEF ClientInv
<1> QED BY <1>3, <1>5, <1>6 DEF ClientInv

\* A read appends to what the client of the pair received.
LEMMA ReadClient ==
    ASSUME UdpTypes, ClientInv, NEW w \in UdpWorkers, EventRead(w)
    PROVE  ClientInv'
<1>1. PICK n \in events[w] :
         /\ received' = [received EXCEPT ![Dest(n)] = Append(@, [pair |-> n, parts |-> Len(Joined(inbox[n]))])]
         /\ inbox' = [inbox EXCEPT ![n] = Rest(@)]
  BY DEF EventRead
<1>2. n \in Pairs /\ SentOn(n) BY <1>1 DEF UdpTypes, ClientInv
<1>3. UNCHANGED <<upc, cur, pair, forwarded, events>> BY DEF EventRead
<1>4. \A k : SentOn(k)' <=> SentOn(k) BY <1>3 DEF SentOn
<1>5. PICK d \in forwarded : d.n = n /\ d.c = Dest(n) /\ d.c \in Clients
  <2>1. PICK d \in forwarded : d.n = n BY <1>2 DEF SentOn
  <2>2. pair[d.n].c = d.c /\ d.c \in Clients BY <2>1, NoneIsNone DEF ClientInv, UdpTypes
  <2> QED BY <2>1, <2>2 DEF Dest
<1>6. PICK e : e = [pair |-> n, parts |-> Len(Joined(inbox[n]))] OBVIOUS
<1>7. \A c \in Clients : received'[c] = IF c = d.c THEN Append(received[c], e) ELSE received[c]
  BY <1>1, <1>5, <1>6 DEF UdpTypes
<1>8. ASSUME NEW c \in Clients
      PROVE  /\ \E S : received'[c] \in Seq(S)
             /\ \A k \in DOMAIN received'[c] : \E g \in forwarded : g.n = received'[c][k].pair /\ g.c = c
  <2>1. PICK S : received[c] \in Seq(S) BY DEF ClientInv
  <2>2. \A k \in DOMAIN received[c] : \E g \in forwarded : g.n = received[c][k].pair /\ g.c = c
    BY DEF ClientInv, RightClient
  <2>3. CASE c = d.c
    <3>1. PICK r : r = received[c] OBVIOUS
    <3>2. r \in Seq(S \cup {e}) BY <2>1, <3>1
    <3>3. PICK q : q = Append(r, e) OBVIOUS
    <3>4. /\ q \in Seq(S \cup {e}) /\ DOMAIN q = 1 .. Len(r) + 1 /\ DOMAIN r = 1 .. Len(r) /\ Len(r) \in Nat
          /\ q[Len(r) + 1] = e /\ \A k \in 1 .. Len(r) : q[k] = r[k]
      BY <3>2, <3>3
    <3>5. received'[c] = q BY <1>7, <2>3, <3>1, <3>3
    <3>6. e.pair = n BY <1>6
    <3>7. ASSUME NEW k \in DOMAIN q PROVE \E g \in forwarded : g.n = q[k].pair /\ g.c = c
      <4>1. CASE k = Len(r) + 1 BY <1>5, <2>3, <3>4, <3>6, <4>1
      <4>2. CASE k # Len(r) + 1
        <5>1. k \in DOMAIN r /\ q[k] = r[k] BY <3>4, <4>2
        <5> QED BY <2>2, <3>1, <5>1
      <4> QED BY <4>1, <4>2
    <3> QED BY <3>4, <3>5, <3>7
  <2>4. CASE c # d.c BY <1>7, <2>1, <2>2, <2>4
  <2> QED BY <2>3, <2>4
<1>9. RightClient' BY <1>3, <1>8 DEF RightClient
<1>10. \A m \in Pairs : inbox'[m] # <<>> => SentOn(m)'
  <2>1. \A m \in Pairs : m # n => inbox'[m] = inbox[m] BY <1>1, <1>2 DEF UdpTypes
  <2> QED BY <1>2, <1>4, <2>1 DEF ClientInv
<1> QED BY <1>3, <1>4, <1>8, <1>9, <1>10 DEF ClientInv

\* Every step keeps replies with their clients.
LEMMA NextClient == UdpTypes /\ OnceInv /\ ClientInv /\ [UdpNext]_udpVars => ClientInv'
<1> SUFFICES ASSUME UdpTypes, OnceInv, ClientInv, [UdpNext]_udpVars PROVE ClientInv' OBVIOUS
<1>0. \A n \in Pairs : inbox[n] # <<>> => SentOn(n) BY DEF ClientInv
<1>1. ASSUME NEW c \in Clients, ClientSend(c) PROVE ClientInv' BY <1>0, <1>1, SameClient DEF ClientSend
<1>2. ASSUME NEW n \in Pairs, Reply(n) PROVE ClientInv'
  <2>1. SentOn(n) BY <1>2 DEF Reply, SentOn
  <2>2. \A m \in Pairs : m # n => inbox'[m] = inbox[m] BY <1>2 DEF Reply, UdpTypes
  <2>3. \A m \in Pairs : inbox'[m] # <<>> => SentOn(m) BY <1>0, <2>1, <2>2
  <2> QED BY <1>2, <2>3, SameClient DEF Reply
<1>3. ASSUME NEW w \in UdpWorkers, Recvfrom(w) PROVE ClientInv'
  <2>1. upc' = [upc EXCEPT ![w] = "back"] /\ \A v \in UdpWorkers : v # w => cur'[v] = cur[v] BY <1>3 DEF Recvfrom, At_, UdpTypes
  <2>2. UNCHANGED <<pair, inbox, forwarded, events, received>> BY <1>3 DEF Recvfrom
  <2>3. \A v \in UdpWorkers : upc'[v] \in {"connect", "up"} => v # w /\ upc[v] \in {"connect", "up"} BY <2>1 DEF UdpTypes
  <2>4. \A k : SentOn(k)' <=> SentOn(k) BY <2>2 DEF SentOn
  <2>5. RightClient' BY <2>2 DEF ClientInv, RightClient
  <2> QED BY <2>1, <2>2, <2>3, <2>4, <2>5 DEF ClientInv
<1>4. ASSUME NEW w \in UdpWorkers, OpenBack(w) PROVE ClientInv' BY <1>4, OpenClient
<1>5. ASSUME NEW w \in UdpWorkers, ConnectBack(w) PROVE ClientInv' BY <1>5, ConnectClient
<1>6. ASSUME NEW w \in UdpWorkers, Forward(w) PROVE ClientInv' BY <1>6, ForwardClient
<1>7. ASSUME NEW w \in UdpWorkers, EpollWait(w) PROVE ClientInv'
  <2>1. upc' = [upc EXCEPT ![w] = "events"] /\ UNCHANGED <<cur, pair, inbox, forwarded, received>> BY <1>7 DEF EpollWait, At_
  <2>2. \A v \in UdpWorkers : upc'[v] \in {"connect", "up"} => upc[v] \in {"connect", "up"} BY <2>1 DEF UdpTypes
  <2>3. \A k : SentOn(k)' <=> SentOn(k) BY <2>1 DEF SentOn
  <2>4. \A v \in UdpWorkers : \A n \in events'[v] : SentOn(n) BY <1>0, <1>7 DEF EpollWait, UdpTypes, ClientInv
  <2>5. RightClient' BY <2>1 DEF ClientInv, RightClient
  <2> QED BY <2>1, <2>2, <2>3, <2>4, <2>5 DEF ClientInv
<1>8. ASSUME NEW w \in UdpWorkers, EventRead(w) PROVE ClientInv' BY <1>8, ReadClient
<1>9. ASSUME NEW w \in UdpWorkers, EventAgain(w) PROVE ClientInv'
  <2>1. \A v \in UdpWorkers : events'[v] \subseteq events[v] BY <1>9 DEF EventAgain, UdpTypes
  <2>2. UNCHANGED <<forwarded, received, cur, upc, pair, inbox>> BY <1>9 DEF EventAgain
  <2> QED BY <1>0, <2>1, <2>2, SameClient
<1>10. ASSUME NEW w \in UdpWorkers, EventClose(w) PROVE ClientInv'
  <2>1. PICK m \in events[w] :
           /\ pair' = [pair EXCEPT ![m].back = "closed", ![m].up = "closed"]
           /\ inbox' = [inbox EXCEPT ![m] = <<>>]
           /\ events' = [events EXCEPT ![w] = @ \ {m}]
    BY <1>10 DEF EventClose
  <2>2. m \in Pairs BY <2>1 DEF UdpTypes
  <2>3. UNCHANGED <<forwarded, received, cur, upc>> BY <1>10 DEF EventClose
  <2>4. \A n \in Pairs : pair'[n].c = pair[n].c
    <3>1. PICK p : p = pair' OBVIOUS
    <3>2. PICK f \in [Pairs -> PairRecords] : f = pair BY DEF UdpTypes
    <3>3. p = [f EXCEPT ![m].back = "closed", ![m].up = "closed"] BY <2>1, <3>1, <3>2
    <3>4. \A n \in Pairs : p[n].c = f[n].c BY <2>2, <3>3, PairCloses
    <3> QED BY <3>1, <3>2, <3>4
  <2>5. \A v \in UdpWorkers : events'[v] \subseteq events[v] BY <2>1 DEF UdpTypes
  <2>6. \A n \in Pairs : inbox'[n] # <<>> => SentOn(n) BY <1>0, <2>1, <2>2 DEF UdpTypes
  <2> QED BY <2>3, <2>4, <2>5, <2>6, SameClient
<1>11. ASSUME NEW w \in UdpWorkers, EventsEnd(w) PROVE ClientInv'
  <2>1. upc' = [upc EXCEPT ![w] = "recv"] /\ UNCHANGED <<cur, pair, inbox, forwarded, received, events>> BY <1>11 DEF EventsEnd, At_
  <2>2. \A v \in UdpWorkers : upc'[v] \in {"connect", "up"} => upc[v] \in {"connect", "up"} BY <2>1 DEF UdpTypes
  <2>3. \A k : SentOn(k)' <=> SentOn(k) BY <2>1 DEF SentOn
  <2>5. RightClient' BY <2>1 DEF ClientInv, RightClient
  <2> QED BY <2>1, <2>2, <2>3, <2>5 DEF ClientInv
<1>12. CASE UNCHANGED udpVars
  <2>1. UNCHANGED <<forwarded, received, cur, upc, pair, inbox, events>> BY <1>12 DEF udpVars
  <2> QED BY <1>0, <2>1, SameClient
<1>13. ASSUME NEW w \in UdpWorkers, ConnectFail(w) PROVE ClientInv'
  <2>1. upc' = [upc EXCEPT ![w] = "up"] /\ upc[w] = "connect" /\ UNCHANGED <<cur, pair, inbox, forwarded, received, events>>
    BY <1>13 DEF ConnectFail, At_
  <2>2. \A v \in UdpWorkers : upc'[v] \in {"connect", "up"} => upc[v] \in {"connect", "up"} BY <2>1 DEF UdpTypes
  <2>3. \A k : SentOn(k)' <=> SentOn(k) BY <2>1 DEF SentOn
  <2>5. RightClient' BY <2>1 DEF ClientInv, RightClient
  <2> QED BY <2>1, <2>2, <2>3, <2>5 DEF ClientInv
<1>14. ASSUME NEW w \in UdpWorkers, SendFail(w) PROVE ClientInv' BY <1>14, SendFailClient
<1>15. ASSUME NEW w \in UdpWorkers, EventDrop(w) PROVE ClientInv'
  <2>1. PICK m \in events[w] : inbox' = [inbox EXCEPT ![m] = Rest(@)] BY <1>15 DEF EventDrop
  <2>2. m \in Pairs /\ SentOn(m) BY <2>1 DEF UdpTypes, ClientInv
  <2>3. \A n \in Pairs : n # m => inbox'[n] = inbox[n] BY <2>1, <2>2 DEF UdpTypes
  <2>4. \A n \in Pairs : inbox'[n] # <<>> => SentOn(n) BY <1>0, <2>2, <2>3
  <2>5. UNCHANGED <<forwarded, received, cur, upc, pair, events>> BY <1>15 DEF EventDrop
  <2> QED BY <2>4, <2>5, SameClient
<1> QED BY <1>1, <1>2, <1>3, <1>4, <1>5, <1>6, <1>7, <1>8, <1>9, <1>10, <1>11, <1>12, <1>13, <1>14, <1>15 DEF UdpNext

\* The inductive invariant.
UdpInv == UdpTypes /\ OnceInv /\ ClientInv

\* The invariant of the udp workers: types, places, clients.
THEOREM UdpInvariance == UdpSpec => []UdpInv
<1>1. InitUdp => UdpInv BY InitTypes, InitOnce, InitClient DEF UdpInv
<1>2. UdpInv /\ [UdpNext]_udpVars => UdpInv' BY NextTypes, NextOnce, NextClient DEF UdpInv
<1> QED BY <1>1, <1>2, PTL DEF UdpSpec

\* What a client receives are replies to its own datagrams, for any number of
\* workers, clients, datagrams and replies.
THEOREM RepliesReachTheirClient == UdpSpec => []RightClient
<1>1. UdpInv => RightClient BY DEF UdpInv, ClientInv
<1> QED BY <1>1, UdpInvariance, PTL

\* Two workers never handle the same datagram and none is lost without a trace:
\* each is in one place, for any number of workers, clients and datagrams.
THEOREM DatagramsOnce == UdpSpec => []DatagramOnce
<1>1. UdpInv => DatagramOnce BY OnceCounted DEF UdpInv
<1> QED BY <1>1, UdpInvariance, PTL
=============================================================================
