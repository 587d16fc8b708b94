# A TLA+ development for umicat

umicat is a layer 4 reverse proxy and load balancer: one process, one master
thread that accepts clients, a number of worker threads that each own some of
the proxied connections, and one health check thread. This directory models
its concurrent core and the libraries it stands on in TLA+, checks the models
with TLC on small instances, and proves with TLAPS, for every number of workers,
connections, servers, clients and addresses, the safety properties of all but the
JSON library. File names below are relative to `src/`.

## Inventory

| Component | State | Operations | Interacts with |
|---|---|---|---|
| Listening pool (`uct_connection.c`) | semaphore `items`, spin lock `mutex`, list `listen_q` | `uct_listening_pool_init/_add/_get` | master adds, workers get |
| Intrusive queue (`uct_queue.h`) | `next`, `prev` of each node | init, insert_head, last, remove | used by the pool only |
| Upstream servers, passive check (`uct_upstream.c`) | per server: `effective_weight`, `fails`, `last_fail_time`, `is_down`, `connection_n`, `lock` | `uct_upstream_connect`, the close in `uct_epoll_process_events` | all workers, the checker |
| Aggressive check (`uct_check.c`) | `check_fails`, `check_successes`, connects in flight, timers | timer event, connect event | changes servers under their lock |
| round_robin (`uct_upstream.c`) | `current_weight` per server, `cycle->mutex` | `uct_upstream_round_robin_get` | reads and writes server fields without their lock |
| ip_hash and the hash ring | sorted points | init, lookup, next valid point | reads `is_down` without a lock |
| least_conn, random, heuristic | `connection_n`, weights, `traffic` | one selection each | as round_robin |
| TCP event loop (`uct_connection.c`) | two epoll sets per worker, pairs of sockets | add pair, process events | one per worker; shares server counters |
| UDP worker (`uct_cycle.c`, `uct_connection.c`) | one epoll set, pairs | receive, forward, reply | all share the listening socket |
| Memory pool, array, list (`uct_palloc.c`, `uct_array.c`, `uct_list.c`) | blocks, records of large areas, cleanups | create, alloc, free, push, reset, destroy | `cycle->pool` is shared |
| Buffer chains (`uct_buf.c`) | spare links, free, busy and out chains | get, create, copy, update | links come from a pool |
| Configuration, startup, log (`umicat.c`, `uct_cycle.c`, `uct_log.c`, `uct_file.c`) | `uct_cycle_t`, the log file, the listening socket, threads | options, parse, move the log, listen, start | initialises everything above |
| JSON (`uct_json.c`) | items and their links | create, add, detach, insert, replace, delete, duplicate, parse, print, compare | read by the configuration |
| Strings, MD5 | none | formatting, hashing | - |

What is hard here: the hand-off works only because a semaphore, a spin lock and
a list agree on a number nobody stores; two kinds of lock protect overlapping
fields, and the selections write some of those fields under the wrong one; the
checker decides before it locks; time is compared with unsigned arithmetic and
a stale `now`; a weight is penalised in one place and restored in four. Three of
the policies read the servers with no lock at all. The libraries are sequential,
but their state (who holds which memory, which link is in which chain, which
item's `prev` is the last child) is spread over many calls, most of which can
fail half-way. Every such place is a hazard in `PROJECT.json`, with the property that covers it.

## Modules

* **AcceptQueue** - what the listening pool promises: connections wait first in
  first out, each is taken by one worker, and is closed by that worker.
* **ListeningPool** - the protocol as coded, one action per lock, list or
  semaphore operation. The master accepts, locks, inserts, unlocks, posts; a
  worker reserves with `sem_trywait` (or is declined), locks, removes the last
  node, unlocks, then either proxies or refuses the client, and handles events.
  `uct_listening_pool_get` does not test for an empty list; an empty list would
  yield the list head, and `GetPop` does just that.
* **ListeningPoolLinks** - the same with the list as `uct_queue.h` keeps it, one
  pointer load or store per step. Its other steps are those of ListeningPool.
* **ListeningPoolProofs**, **ListeningPoolLinksProofs** - the proofs about them.
* **Upstream** - a server's fields and what a worker does to them under
  `srv->lock`: a connect that succeeds (`Revive`, `Grow`) or fails (`Decay`,
  `Clamp`, `Mark`, and in either order of the stores `DownFlag`, `DownZero`,
  `DownStamp`), and the end of a proxied connection. It has no policy; `wpc` is extended by the module that has one.
* **HealthCheck** - the checker thread beside it: timer and connect events count
  results (`CountSuccess`, `CountFailure`), decide on an unlocked `is_down`, and
  change the server under its lock, store by store (`CheckRaise`, `CheckUp`;
  `CheckZero`, `CheckDown`).
* **RoundRobin** - the selection, scanning server by server under `cycle->mutex`,
  composed with the two modules above and a clock.
* **ProxyLoop** - one worker's edge-triggered event loop and the peers of its
  pairs: taking a client, registering the pair with both epoll instances, a batch
  of client events and then one of upstream events, each drained by `uct_readn`
  and copied by `uct_writen`, and the close of a pair by an event of either side.
  A registration may fail (nobody looks at the result), a peer may send, read,
  close or reset at any moment. A write takes all bytes or some (`WriteTaken`), is
  retried while the socket buffer is `full`, fails (`WriteFailed`), or ends the
  process by SIGPIPE (`WriteKills`).
* **ProxyLoopProofs** - the proofs about ProxyLoop.
* **UpstreamProofs**, **RoundRobinProofs**, **PoliciesProofs** - the proofs about the
  servers, shared by the other two, and about the policies.
* **HashRing** - the ring of ip_hash as operators: the points, the bubble sort,
  the binary search, and the reference definitions `Sorted` and `RingOwner`.
  The two loops of the sort are recursive functions of their index.
* **RingBuild** - `uct_upstream_init_hash_ring` by itself: points are pushed one by
  one, and what has been pushed is sorted and searched.
* **Policies** - least_conn, random, heuristic and ip_hash beside Upstream,
  HealthCheck and a clock. `MinScan` is the loop of least_conn and of heuristic,
  which differ in the lock, in what they compare and in how long a down server is
  passed over; `Weigh`, `Draw` and `Find` are random; `HashStart` and `RingScan`
  are ip_hash. `connection_n++` of least_conn (`CountLoad`, `CountStore`) and the
  traffic statistics (`TrafficLoad` to `TrafficEnd`) are unguarded loads and
  stores. Counts and traffic are unsigned: they are taken modulo `Modulus`, and
  one of the `Bursts` is the -1 of a failed `uct_readn`, which the code adds. A
  total weight of 0 sets `crashed`. `wpass` records the servers a scan could not
  choose (`Barred`), for the properties.
* **UdpWorker** - the udp workers on their shared listening socket, one action per
  system call of `uct_worker_thread_cycle_udp` and per event of
  `uct_epoll_process_events_udp`, with the failures that nobody looks at: of the
  registration, of `uct_connect` (`ConnectFail`), of `sendto` (`SendFail`) and of
  the write to a client (`EventDrop`). Which socket gets a datagram is the system's
  choice, modelled from the options and addresses the code sets.
* **MemoryPool** - `uct_palloc.c` with the array and the list. The functions are
  operators from a pool to a pool and a region, because they call one another; an
  action is a call, with the allocation of the system that fails as a parameter.
  A reset leaves the cleanup list as it is, its records in memory that is given
  out again; what is written over them is not modelled, so a walk along the list
  after a reset may go anywhere (`StrayWalk`, `wild`).
* **BufChain** - `uct_buf.c`: a chain is the sequence of its links, and filling,
  copying, sending part of a chain and `uct_chain_update_chains` are the actions.
* **JsonTree** - the items of `uct_json.c` and their `child`, `next` and `prev`,
  store by store within a call; an action is a call of the library.
* **JsonText** - its parser, printer and `cJSON_Compare` as recursive operators over
  texts of symbols; the state is the text, which grows symbol by symbol as long
  as the parser reads to its end. A parse carries the position, the allocation
  that will fail, what is held, and how far behind the text it has read.
* **Startup** - `main`, `uct_init_cycle`, `uct_conf_parse`, the move of the log, the
  listening socket from `getaddrinfo`, whose failure the code ignores (`Resolve`),
  address by address, and the threads.
* **ProcessProofs** - the proofs about Startup and UdpWorker.
* **LibraryProofs** - the proofs about MemoryPool and BufChain. Those about
  RingBuild are in PoliciesProofs, as the policies use the same ring.
* **MCLibrary** - MemoryPool, BufChain, JsonTree, JsonText, Startup, UdpWorker and
  RingBuild, one at a time: they share no state, and `component` says which one a
  behaviour runs.
* **MC...** - constants for TLC, and the history variables a property needs.

Steps are as small as the shared accesses that another thread can observe. `wreg`
and `creg` are the registers between a load and its store, so that an unlocked
store in between is lost, as it is in the program. Where the builds differ the
model has both: `uct_upstream_connect` takes a server down with three stores, which
are executed as written without optimisation (`make debug`, `make test`), that of
`is_down` first, and by gcc -O2, whose output was looked at, with that of `is_down`
last; `Mark` chooses either. The checker's stores are in source order in both.
One thing is as in the optimised build only: `AddWeight` loads `effective_weight`
once per scanned server and adds the register to both sums. Without optimisation it
is loaded twice, a store in between makes the sums differ, and
`WeightConservation` would not hold. The probe stores the constant 1, and a failed
connect stores the difference before it compares it with 0.

Three details of the event loop are as in the code. `uct_readn` returns -1 on an
error, which is positive as a `uct_uint_t`: `uct_writen` is called with that
length, `write()` refuses it, and the next `read()` finds the end of file
(`ReadError`, then `ReadEof`). A write to a peer that is gone fails, which is not
looked at, or ends the process: `umicat.c` handles SIGTERM and SIGINT only, so that
it depends on whether the process was started with SIGPIPE ignored (as services of
systemd are) or not (from a shell or in a container, the starts `README.md`
shows). And `close()` takes a socket out of epoll before
`EPOLL_CTL_DEL` is called; only this worker registers sockets with its instances,
so that call can hit no other pair.

Data is abstracted: addresses, ports, names and log texts are left out, a
connection is a model value, time is the age of `last_fail_time` in ticks, the
md5 of a key is any number, a configuration is the record of what is decided on
it, a log is the sequence of its lines' levels, and a JSON text consists of
brackets, separators, a blank, two strings, one other literal and one symbol
that begins no value.
`AgeCap`, `FailsCap` and the caps of the checker's counters are exact: the code
compares those values with one threshold and cannot tell larger ones apart.

## Runs

| Run | Instance | Shows |
|---|---|---|
| `listening_pool` | 3 connections, 2 workers, fair | types, `MutualExclusion`, `Accounting`, `NeverSentinel`, `OnePlace`, refinement of AcceptQueue, `EventuallyTaken` |
| `listening_pool_links` | 3 connections, 2 workers | `WellLinked`, refinement of ListeningPool |
| `round_robin` | 2 servers, 2 workers, connects to server 0 may fail, checker on server 0, one tick within a selection | types, `EffectiveWeightBounds`, `WeightConservation`, `ConnectionCount`, `NoGridlock`, `FailsMatchState` |
| `rr_live` | 3 servers of weights 3, 1, 1, fair | `Proportional`, `DownRetried` |
| `proxy_loop` | 2 pairs, buffer of 2, 2 bytes in all, one event per wait, fair | types, `NoLostEdge`, `NoStaleEvent`, `DrainedAtEof`, `OpenCount`, `EventuallyHandled` |
| `policies` | 2 servers, one of which takes every connect, 2 workers, each of the four policies, two rings | `PassedOverIsLast`, `RingAnswer`, `SurvivesWithReliable` |
| `library` | see below | `NoOverlap`, `FreedOnce`, `ChainsSound`, `TreeSound`, `ParseSound`, `PrintSound`, `RingSound`, `LogKept`, `StartOrder`, `RightClient`, `DatagramOnce` |
| `rr_fallback` (violation) | 2 workers | `FallsBack` fails: `best = 0` is returned though server 0 was skipped |
| `check_fall` (violation) | 1 worker, checker | `FallIsConsecutive` fails: failures add up across successes |
| `rr_up_starved` (violation) | 1 worker, fair | `UpServed` fails: an up server with `effective_weight` 0 is never chosen again |
| `fails_exceed` (violation) | 2 workers, no checker | `DownOnlyBeyond` fails: a server is down when `fails` reaches `max_fails`; the documentation says when it exceeds it |
| `ring_fallback` (violation) | 1 worker, ip_hash | `NextTakesOver` fails: a client is turned away though another server is up, as the search for a point that takes over does not wrap round |

The five violations are the findings of `PROJECT.json`: each is a sentence of
`README.md` (lines 22, 23, 24 and 30) that the code does not keep. `FailsMatchState`
and `RingAnswer` state exactly what the code does in the places of `fails_exceed`
and `ring_fallback`: up means fewer than `max_fails`, and turned away means no
valid point up to the end of the ring.

Bounds. Two servers and two workers are enough for a selection to overlap a
connect to each server and for a connect to overlap a connect to the same
server. `WeightBound` stops selections when a current weight leaves its range:
a server that goes down between the two scans keeps the weight of the first
while another pays, so single weights can drift although their sum does not.
With it, and with clients that need not come, a state without a successor is
possible, and `round_robin` does not check deadlock but `NoGridlock`: a lock that is
taken is held by a thread inside the section it protects, and no step of such a
section has a guard but its location. So as long as any thread is in the middle of
something, a thread that is neither idle nor the clock can move. `MaxLag` is the
number of ticks within one selection (one is enough to make `now` stale),
`MaxOpen` the sockets a worker has open at once, `MaxPending` the checks of a
server in flight (one in `round_robin`, where it comes late, and two in `check_fall`;
the theorems are about any number). With weight 3 and `max_fails` 2 a server can go down with weight
left, so that the time between the two stores that mark it down and take its
weight shows. In `proxy_loop` two
bytes and a buffer of two make a read that fills the buffer, one that does not,
bytes that arrive between two reads, and a short write; one event per wait leaves the other
pair's event in epoll's list while the first is handled, and with two pairs the
client events can close the pair that upstream events are pending for.

In `policies` two workers are enough for a server to go down, or to come up,
between two steps of a scan; the rings have four points of which two share a
hash, and end with a point of either server, so that the search for a valid
point finds one in one ring and none in the other. `Modulus` is 16 in place of
2^64. `CountBound` and `TrafficBound` stop selections and bursts, since the counts
of least_conn and the traffic are not bounded: a burst is of 1 or of -1 and begins
at a sum of 0, so that sums are reached on both sides of the wrap, and with two
workers that load before either stores.

The bounds of `library`. Pool: blocks of 8 with a header of 4, sizes 1, 3 and 5
(aligned and not, one of them large), two blocks and two large areas, the limits
3 and 4 of the searches reduced to 0, so that they are met, one cleanup record, and
`PageLimit`, 3 in place of a page less one, below what a block has room for, so
that it decides about `pool->max`; an array of up to 3
elements grows in place, moves within the pool, and moves to a large area.
Chains: 4 links, 6 bytes. Items: 5, beyond which every position (first, last,
only, middle) has occurred. Texts: up to 6 symbols, and up to 6 behind
`{"s":v,`, nested two deep, with every allocation failing in turn. Ring: up to 4
points with hashes 0 to 3. Start: every configuration, one or two workers, two
addresses. Udp: two workers, two clients, two datagrams and two replies to each,
the least with which a worker copies the replies of an older pair.

Every library property is about sequences of calls: `NoOverlap` that no two
holders share memory (of which the cleanup records that a reset left listed are
none any more), `FreedOnce` that large areas and files are released once, unless a
walk strays into such a record, both of which umicat avoids by never resetting a pool,
`ChainsSound` that a link is in one chain and no unsent byte is lost, `TreeSound`
that the items form trees with `prev` of the first child the last, that nothing
points at a deleted item and nothing leaks, `ParseSound` that exactly the grammar
is accepted, that an abandoned parse holds nothing, and that the parser reads
behind a text without NUL only where `parse_string` looks at the byte behind the
comma of an object, and then one byte, `PrintSound` that what is
printed parses back and stays within a buffer given, `RingSound` that sort and
search agree with their definitions, `LogKept` that no line is lost or doubled
unless the copy failed, `StartOrder` that threads run beside one listening socket
and a start that gives up leaves nothing, `RightClient` that replies reach the
client of their own pair, and `DatagramOnce` that a datagram is in one place.

Fairness. Threads are scheduled, so a worker or the master that can take a step
eventually does; clients need not connect nor close in ListeningPool, and the
spin lock is not fair. For `rr_live` clients keep coming, which is what makes
"is tried again" mean anything, and the clock ticks (strong fairness, as a
selection that is under way holds it back in the model). No fairness is assumed
of the outcome of a connect nor of the checker. In `proxy_loop` the worker is
scheduled and nothing is assumed of the peers, which need not send, read or close.
`uct_writen` retries for ever while a peer does not read, and the worker serves
nobody meanwhile; so `EventuallyHandled` has the condition that no socket buffer
stays full for ever, and the outcome that SIGPIPE ended the process. Without either
it does not hold.

## Proofs

Every theorem is about the specification that the runs check, for every value of
the constants that satisfies the assumptions named in the modules, bounds included:
no bound of a run is a limit of a theorem. The assumptions
say that threads, servers and descriptors are finitely many, that special values
differ from each other, that bounds are natural numbers, and that a configuration
makes sense (weights are positive, a ring is sorted and has a point, the headers of a
pool fit in its block and the block is a multiple of the alignment). TLC evaluates
them on every run.

| Module | Theorem | States |
|---|---|---|
| ListeningPoolProofs | `PoolTypeOK`, `PoolMutualExclusion`, `PoolAccounting`, `PoolNeverSentinel`, `PoolOnePlace` | the invariants of `listening_pool` |
| | `PoolFifo` | the pool implements AcceptQueue |
| ListeningPoolLinksProofs | `LinksWellLinked`, `LinksImplementPool` | both properties of `listening_pool_links` |
| | `LinksFifo`, `LinksNeverSentinel`, `LinksOnePlace` | the guarantees of the pool, with pointers for the queue |
| ProxyLoopProofs | `LoopTypeOK`, `LoopNoLostEdge`, `LoopNoStaleEvent`, `LoopDrainedAtEof`, `LoopOpenCount` | the invariants of `proxy_loop` |
| RoundRobinProofs | `RoundRobinTypeOK`, `WeightsBounded`, `FailsMatch`, `WeightConserved`, `ConnectionsCounted`, `LocksReleased` | those of `round_robin` |
| PoliciesProofs | `RingAnswered`, `PassedOverLast`, `RandomSurvives` | those of `policies` |
| | `CountsExact` | `connection_n` is exact under random, heuristic and ip_hash |
| | `PolicyWeightsBounded`, `PolicyFailsMatch`, `PolicyLocksReleased` | the servers' invariants under these policies |
| | `RingBuiltSound` | `RingSound` of RingBuild |
| | `SortedRings` | the sort yields rings as the theorems about ip_hash assume them |
| ProcessProofs | `LogNeverLost`, `StartsInOrder` | Startup |
| | `RepliesReachTheirClient`, `DatagramsOnce` | UdpWorker |
| LibraryProofs | `PoolNoOverlap`, `PoolFreedOnce` | MemoryPool |
| | `BufChainsSound` | BufChain |

**Listening pool.** `NeverSentinel` is not inductive: that a worker which removes a
node finds one rests on `Accounting` (announced + reserved + inserted but not posted
= length of the list), which rests on `MutualExclusion`; what each local variable
holds at each location (`LocalsOK`) is needed to know that only connections are
linked and freed. `Accounting` is about a cardinality, so lemmas say how each kind
of step changes it. `PoolOnePlace` is a second induction relative to the first. In
the refinement an insertion is an Offer, a removal a Take, a refusal or a close a
Close, and every other step is invisible.

**Linked list.** `LinksInv` says which links are in place after each store: `next`
spells a list at every moment, and `prev` agrees with it except at one node between
two stores. It is inductive only with the pool's invariants: that one thread changes
the list, that the node being inserted is not in it, and that the list being popped
is not empty. So ListeningPoolProofs is instantiated with the list spelled by the
links, `Chain`, as its queue, and its lemmas are used as they are. `Chain` is a
recursive definition; `WalkList` says what it yields on links that are in place.

**Event loop.** `NoStaleEvent` needs to know that when an event closes its pair no
other event of the pair has been reported: the event has left its batch and the
other side's batch is empty (`LocalsOK`), because the second instance is asked only
after the first batch is done. `DrainedAtEof` needs `LossExcused`: bytes that were
read and not written have a peer that is gone.

**Servers.** UpstreamProofs holds what does not depend on a policy. `LocksHeld` says
which locations hold `srv->lock`. `LoadedWeights` relates a register to the weight it
was loaded from: a probe of the selection may store in between, but only the value
1, so that the store that follows stays within the bounds; and while the checker is
about to bring up a server, to which it adds one unit, nothing raises the weight of
that server above the configured one. The exceptions of `EffectiveWeightBounds` name
the two places where a reader without the lock sees more: `Emptying`, between
`is_down = true` and `effective_weight = 0` of a failed connect in source order, and
`Raised`, between the two stores of the checker. `FailsInv` says what `fails` and `is_down` are at each location inside the lock.
`Counted` adds up sockets over workers, so the module proves the laws of sums over
finite sets (`SumFunctionOnSet`) that are needed. `Outside` lists what any other step
may do to a server: a probe, and a tick of the clock. RoundRobin adds who holds
`cycle->mutex`, and that the sum of the current weights is `total_weight`: at every
step of a scan the weight given to a server is the register added to the total.

**Locks.** `LocksHeld` and `MutexHeld` say that a thread inside a section holds its
lock; `NoGridlock` is the converse, that a lock taken is held by a thread inside, and
is what a forgotten unlock breaks. It is a second induction relative to the first:
that the worker which ends a selection is the one that holds `cycle->mutex` is
`MutexHeld`. The half about `srv->lock`, `LockHolders`, does not depend on the policy;
under the other policies only least_conn takes `cycle->mutex`.

**Ring.** The sort is proved along its loops. After j turns of the inner loop the
largest hash of the first j + 1 points is at their end, and the points behind them
have not moved (`Carried`); after i turns of the outer loop no point before one of the
last i has a larger hash than it (`Settled`). Both say that every point is still there. That each loop, a recursive function, has a value at every turn, and that
an invariant of a turn is one of the loop, is shown with a least counterexample.
`HashPointIsOwner` then gives the search on the sorted points, and `SortedRings`
discharges for rings built by this code what `PoliciesAssumption` asks of a ring.

**Policies.** `Local` and `RingWalk` say what a worker's locals are at each location
of each policy. `LowerBoundFirst` proves the binary search of the ring right for every
sorted ring. `PassedOverLast` rests on `BestSoFar`: the scan's best is a server it
could choose, and beats or equals every other such server seen, or it is server 0 and
all servers seen were barred. A server is barred when it is passed over, and also
when its load is not below the maximum from which the scan starts its search, as
that of a sum that wrapped below 0. `CountsExact` excludes least_conn, whose own
increments nobody takes back. `RandomSurvives` bounds the sum
that random builds up from below, server by server, by the weights of the reliable
servers less what one failure can take from each other one before its clamp.

**Start and udp.** `LogInv` follows a log line from `umicat.log` to its target
through the copy; `OrderInv` says which sockets and threads exist at each location.
`OnceInv` says that a datagram that was sent is in one place and any other in none,
`ClientInv` that a pair belongs to the client of the datagram it was opened for;
together with the types they are inductive.

**Memory pool.** `PoolInv` puts every holder of memory into one set: the user's
regions, those of the array and the list, and the records that the pool itself keeps
in its blocks. Each region lies between the header of its block and the unused end,
none is empty, and any two are apart. That none is empty is needed where
`uct_array_destroy` and the growing of an array move the unused end of a block: the
array's region reaches up to that end, so no other can. `FreedOnce` rests on the
records: they name each area of the heap and each open file exactly once, also after
a failed allocation of a record gives its area back. A reset disowns the cleanup
records: they stay listed, but name no memory of their own any more. What an allocation returns,
small or large and with or without memory left, is stated once as `Sound`.

**Buffer chains.** `BufInv` says that the spare links, the free chain and what is held
(busy followed by out) are three sequences without a link in common and without
repetition, that a free buffer is empty and the user's own, and that the bytes filled
are the bytes flushed and the unsent bytes of the links held. Every operation moves
links between the three: lemmas say that taking links from the front of one and
appending them to another keeps them apart, and that the total over a chain is the sum
of the totals over its parts. Sending part of a chain, stated with the running totals
of its buffers, takes off the held total what it adds to the flushed one; the links
that `uct_chain_update_chains` takes off the front of busy have nothing unsent, so that
the total over the rest is unchanged.

The invariants were first checked by TLC on the instances of the runs.

Only model-checked:

* what involves fairness: `EventuallyTaken`, `EventuallyHandled`, `DownRetried`; and
  `Proportional`, a statement about whole rounds of an instance;
* `TreeSound`, `ParseSound`, `PrintSound`: JsonTree and JsonText are written with
  recursive operators, as the library is, about which the prover cannot reason.

Where a proof needs to know what a recursive function yields (the walk along links,
the sort and the binary search, sums, the sending of a chain) it argues from a least
counterexample, since the general induction rules cannot be used.

## What the models showed beside the findings

Some of these behaviours bear on sentences of `README.md` too, and are stated here
rather than as a run of their own. heuristic and ip_hash pass over a down server with
`is_fallback` without looking at `fail_timeout`, where line 23 says that it is tried
again: only the checker brings it back, a connect that was under way, or for
heuristic the default choice of server 0.
The fallback of line 24 also fails for heuristic, when the sums of all servers that
are up have wrapped below 0 and look larger than any limit, and for random, whose
second scan finds nothing if the weights became less after the first: both then
choose server 0, be it down. least_conn (line 41) counts every connection twice and a
failed one once, so that `connection_n` grows for good; with three workers the
unlocked increment can also take it below 0, where it wraps.

No document mentions the following. random divides by zero when every server is down
within its `fail_timeout`. umicat.log is removed even when its copy failed. A failed
`getaddrinfo` is logged and the list it did not return is walked all the same. A udp
back socket swallows the next datagrams of its client, and a pair is closed only by an
empty datagram. A udp worker that gets no upstream connection dereferences NULL. An
end of file on one side of a tcp pair closes both sockets at once. A pair whose
registration failed is not closed by that side's end of file, perhaps never.
`parse_string` looks at one byte without asking whether it is there, and
`uct_cycle.c` hands the parser a buffer without NUL. `uct_palloc_large` looks at five
records where its comment says three.

## Not modelled, and the plan

Left out of modules that are otherwise complete: the selection of a server by the
udp worker and its count (they are those of RoundRobin, Policies and Upstream);
replies to an upstream udp socket, which is not connected, from anybody but the
server it was used for; what the pool holds behind the buffer of the configuration,
and what is written over a cleanup record after a reset; calls between `uct_readn`
and the test of `errno`, taken to leave it alone;
one pool used by two threads at once (`cycle->pool` by the master
and the checker), whose outcome depends on the order in which the compiler
stores; `uct_create_temp_buf` and `uct_chain_coalesce_file`; of the JSON library
references, the text of numbers and strings, and `cJSON_Minify`; configurations
without an expected member other than `upstream`; `uct_queue_middle` and `uct_queue_sort`, which nobody
calls.

Not modelled: MD5, third-party code whose result the ring takes as any number,
and `uct_string.c`, formatting without state.

No proof is outstanding: the properties that are only model-checked are outside the
prover's reach, as said above.
