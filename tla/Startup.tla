------------------------------ MODULE Startup ------------------------------
(***************************************************************************)
(* From main to running threads: the options, the configuration, the log   *)
(* file that moves from umicat.log in the working directory to the         *)
(* configured place, the listening socket and the threads.                 *)
(*                                                                         *)
(* A configuration is reduced to what is decided on it.  A log file is the *)
(* sequence of its lines; lines below log_level, and those logged with     *)
(* UCT_ERROR (-1) for a level, are not written.  Once the log could not be *)
(* reopened the next line is written to NULL and the process dies.         *)
(***************************************************************************)
EXTENDS Integers, Sequences, FiniteSets

CONSTANTS Confs,      \* configurations: file, mode, policy, workers, level, upstream
          CoreNum,    \* uct_corenum
          Addresses   \* number of addresses getaddrinfo returns

VARIABLES spc,        \* where main is
          conf,       \* the command line and the configuration file
          emitted,    \* the lines written since the start
          cwd,        \* umicat.log; its first line is from an earlier run
          target,     \* the configured log file
          log_file,   \* which of them log->file is, or "none"
          copied,     \* what uct_copy_file returned was UCT_OK
          workers_n, ring, addr,
          sockets,    \* sockets open: state of each
          threads     \* threads started

startVars == <<spc, conf, emitted, cwd, target, log_file, copied, workers_n, ring, addr, sockets, threads>>

INFO   == 1
NOTICE == 2
ERROR  == 4
FATAL  == 5

InitStart ==
    /\ spc = "options" /\ conf \in Confs
    /\ emitted = <<>> /\ cwd = <<"earlier">>
    /\ target = IF conf.log = "new" THEN <<>> ELSE <<"previous">>
    /\ log_file = "cwd" /\ copied = TRUE
    /\ workers_n = 4 /\ ring = FALSE /\ addr = 1
    /\ sockets = <<>> /\ threads = <<>>

\* What uct_log writes of lines at the levels given.
Lines(levels, level) ==
    LET written[k \in 0 .. Len(levels)] ==
          IF k = 0 THEN <<>> ELSE written[k-1] \o (IF levels[k] >= level THEN <<levels[k]>> ELSE <<>>)
    IN  written[Len(levels)]

\* uct_log: the lines at the levels given, in this order, and on to pc.
Log(levels, level, pc) ==
    LET lines == Lines(levels, level)
    IN  /\ emitted' = emitted \o lines
        /\ cwd' = IF log_file = "cwd" THEN cwd \o lines ELSE cwd
        /\ target' = IF log_file = "target" THEN target \o lines ELSE target
        /\ spc' = IF log_file = "none" /\ lines # <<>> THEN "crashed" ELSE pc

\* uct_get_options, the banner, uct_log_init, uct_os_init.  main returns at
\* once for an invalid option and for -v.
Options ==
    /\ spc = "options"
    /\ spc' = CASE conf.options = "invalid" -> "failed" [] conf.options = "version" -> "ok" [] OTHER -> "parse"
    /\ UNCHANGED <<conf, emitted, cwd, target, log_file, copied, workers_n, ring, addr, sockets, threads>>

\* uct_conf_parse with an early return; main logs that uct_init_cycle failed.
ConfError ==
    /\ spc = "parse"
    /\ \/ conf.file = "absent" /\ Log(<<FATAL, FATAL>>, INFO, "failed")
       \/ conf.file = "broken" /\ Log(<<FATAL>>, INFO, "failed")
       \/ conf.file = "good" /\ conf.mode = "unknown" /\ Log(<<FATAL>>, INFO, "failed")
       \/ conf.file = "good" /\ conf.mode # "unknown" /\ conf.policy = "unknown" /\ Log(<<INFO, FATAL>>, INFO, "failed")
    /\ UNCHANGED <<conf, log_file, copied, workers_n, ring, addr, sockets, threads>>

\* workers is "auto", another string that atoi makes a number of (0 if it is
\* none), or a number, of which one that is not positive means "auto".
WorkersN == CASE conf.workers = "auto" -> CoreNum
              [] conf.workers = "text" -> 0
              [] conf.workers \in {"0", "2"} -> IF conf.workers = "2" THEN 2 ELSE CoreNum

\* mode and policy are logged before log_level is set, the servers after.  With
\* no "upstream" in the file that is logged, and the start goes on without a
\* server.
ConfParse ==
    /\ spc = "parse"
    /\ conf.file = "good" /\ conf.mode # "unknown" /\ conf.policy # "unknown"
    /\ workers_n' = WorkersN
    /\ ring' = (conf.policy = "ip_hash")
    /\ \/ conf.upstream /\ Log(<<INFO, INFO>> \o Lines(<<INFO, NOTICE>>, conf.level), INFO, "move")
       \/ ~conf.upstream /\ Log(<<INFO, INFO>> \o Lines(<<ERROR>>, conf.level), INFO, "move")
    /\ UNCHANGED <<conf, log_file, copied, addr, sockets, threads>>

\* uct_same_file: the log moves if the target does not exist or is another
\* file, and stays if it is umicat.log itself or cannot be looked at.
MoveLog ==
    /\ spc = "move"
    /\ log_file' = IF conf.log \in {"same", "error"} THEN "cwd" ELSE "none"
    /\ spc' = IF conf.log \in {"same", "error"} THEN "moved" ELSE "copy"
    /\ UNCHANGED <<conf, emitted, cwd, target, copied, workers_n, ring, addr, sockets, threads>>

\* Mutant of CopyLog: the target is truncated.
CopyLogTruncating ==
    /\ spc = "copy"
    /\ target' = cwd /\ cwd' = <<>> /\ log_file' = "target" /\ spc' = "moved"
    /\ UNCHANGED <<conf, emitted, copied, workers_n, ring, addr, sockets, threads>>

\* mkdir, uct_copy_file, unlink, fopen.  umicat.log is removed whether the copy
\* succeeded, stopped half-way, or could not open the target ("nodir": mkdir
\* makes one directory only), in which case fopen fails too.
CopyLog ==
    /\ spc = "copy"
    /\ \/ conf.log = "nodir" /\ copied' = FALSE /\ UNCHANGED <<target, log_file>>
       \/ /\ conf.log # "nodir" /\ log_file' = "target"
          /\ \E k \in 0 .. Len(cwd) : target' = target \o SubSeq(cwd, 1, k) /\ copied' = (k = Len(cwd))
    /\ cwd' = <<>>
    /\ spc' = "moved"
    /\ UNCHANGED <<conf, emitted, workers_n, ring, addr, sockets, threads>>

\* uct_init_cycle ends with uct_lock_init, and main enters the cycle of the
\* mode; for http there is none, and that of tcp returns at once if
\* uct_listening_pool_init fails.
EnterCycle ==
    /\ spc = "moved"
    /\ \/ conf.mode # "http" /\ Log(<<INFO>>, conf.level, "resolve")
       \/ conf.mode \in {"http", "tcp"} /\ Log(<<INFO, FATAL>>, conf.level, "ok")
       \/ Log(<<INFO, FATAL>>, conf.level, "failed")
    /\ UNCHANGED <<conf, log_file, copied, workers_n, ring, addr, sockets, threads>>

-----------------------------------------------------------------------------
(* uct_open_listenfd, address by address, and the threads *)

\* Mutant of BindFail: the socket is kept.
BindFailKept ==
    /\ spc = "bind"
    /\ addr' = addr + 1
    /\ Log(<<ERROR>>, conf.level, "open")
    /\ UNCHANGED <<conf, log_file, copied, workers_n, ring, sockets, threads>>

\* A failed uct_getaddrinfo is logged and ignored, and listp is then whatever
\* the stack held: the walk over it, or freeing it, ends the process, or it
\* passes for a list of some length, the empty one included.
Resolve ==
    /\ spc = "resolve"
    /\ \/ addr' = 1 /\ Log(<<>>, 0, "open")
       \/ \E k \in 1 .. Addresses + 1 : addr' = k /\ Log(<<ERROR>>, conf.level, "open")
       \/ addr' = 1 /\ Log(<<ERROR>>, conf.level, "crashed")
    /\ UNCHANGED <<conf, log_file, copied, workers_n, ring, sockets, threads>>

\* uct_socket for the next address.
OpenSocket ==
    /\ spc = "open" /\ addr <= Addresses
    /\ \/ sockets' = Append(sockets, "unbound") /\ UNCHANGED addr /\ Log(<<>>, 0, "bind")
       \/ addr' = addr + 1 /\ UNCHANGED sockets /\ Log(<<ERROR>>, conf.level, "open")
    /\ UNCHANGED <<conf, log_file, copied, workers_n, ring, threads>>

Bind ==
    /\ spc = "bind"
    /\ sockets' = [sockets EXCEPT ![Len(sockets)] = "bound"]
    /\ spc' = "listen"
    /\ UNCHANGED <<conf, emitted, cwd, target, log_file, copied, workers_n, ring, addr, threads>>

BindFail ==
    /\ spc = "bind"
    /\ sockets' = SubSeq(sockets, 1, Len(sockets) - 1)
    /\ addr' = addr + 1
    /\ Log(<<ERROR>>, conf.level, "open")
    /\ UNCHANGED <<conf, log_file, copied, workers_n, ring, threads>>

\* No address worked, or listen failed: the cycle returns, and main UCT_OK.
ListenFail ==
    /\ \/ /\ spc = "open" /\ addr > Addresses
          /\ UNCHANGED sockets
          /\ Log(<<ERROR>>, conf.level, "ok")
       \/ /\ spc = "listen" /\ conf.mode = "tcp"
          /\ sockets' = SubSeq(sockets, 1, Len(sockets) - 1)
          /\ Log(<<ERROR, ERROR>>, conf.level, "ok")
    /\ UNCHANGED <<conf, log_file, copied, workers_n, ring, addr, threads>>

\* A datagram socket needs no listen.  Only the tcp cycle has a checker, and a
\* thread that cannot be created is logged and left out.
Listen ==
    /\ spc = "listen"
    /\ sockets' = [sockets EXCEPT ![Len(sockets)] = "listening"]
    /\ \/ threads' = (IF conf.mode = "tcp" THEN <<"checker">> ELSE <<>>) /\ Log(<<INFO, NOTICE>>, conf.level, "start")
       \/ conf.mode = "tcp" /\ threads' = <<>> /\ Log(<<INFO, ERROR, NOTICE>>, conf.level, "start")
    /\ addr' = 0
    /\ UNCHANGED <<conf, log_file, copied, workers_n, ring>>

StartWorker ==
    /\ spc = "start" /\ addr < workers_n
    /\ addr' = addr + 1
    /\ \/ threads' = Append(threads, "worker") /\ Log(<<INFO>>, conf.level, "start")
       \/ UNCHANGED threads /\ Log(<<ERROR>>, conf.level, "start")
    /\ UNCHANGED <<conf, log_file, copied, workers_n, ring, sockets>>

\* The accept loop, or the empty loop of the udp master.
Serve ==
    /\ spc = "start" /\ addr >= workers_n
    /\ spc' = "serving"
    /\ UNCHANGED <<conf, emitted, cwd, target, log_file, copied, workers_n, ring, addr, sockets, threads>>

StartNext ==
    \/ Options \/ ConfError \/ ConfParse \/ MoveLog \/ CopyLog \/ EnterCycle
    \/ Resolve \/ OpenSocket \/ Bind \/ BindFail \/ ListenFail \/ Listen \/ StartWorker \/ Serve

StartSpec == InitStart /\ [][StartNext]_startVars

-----------------------------------------------------------------------------
(* Properties *)

\* No line is lost or repeated while the log moves: the file in use holds its
\* own old lines, then, if it is the target, those of umicat.log, then all that
\* was written since the start, unless uct_copy_file failed, which
\* uct_init_cycle does not look at before it removes umicat.log.
LogKept ==
    LET old == IF conf.log = "new" THEN <<>> ELSE <<"previous">>
    IN  /\ log_file = "cwd" => cwd = <<"earlier">> \o emitted
        /\ log_file = "target" /\ copied => target = old \o <<"earlier">> \o emitted

\* Threads run only beside exactly one socket, which is listening, and a ring
\* if the policy needs one; a start that gives up, wherever it does, leaves no
\* socket open and no thread running.
StartOrder ==
    /\ threads # <<>> /\ spc # "crashed" => /\ sockets = <<"listening">>
                                            /\ conf.policy = "ip_hash" => ring
    /\ spc \in {"ok", "failed"} => sockets = <<>> /\ threads = <<>>
    /\ spc = "serving" => Len(sockets) = 1
=============================================================================
