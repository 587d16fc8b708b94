----------------------------- MODULE MemoryPool -----------------------------
(***************************************************************************)
(* The memory pool (uct_palloc.c) and the array and the list that are      *)
(* built on it.  A pool is a chain of blocks of one size, filled from the  *)
(* front, a list of records of separately allocated large areas, and a     *)
(* list of cleanup records.  Addresses are offsets in a block; a region is *)
(* [b, lo, hi), and b = 0 stands for the large area lo.                    *)
(*                                                                         *)
(* uct_reset_pool leaves the cleanup records listed though their memory is *)
(* given out again.  Such a record holds no region here; a walk along the  *)
(* list finds it as it was, or runs into what has been written over it,    *)
(* from where on nothing is said of the program (wild).                    *)
(*                                                                         *)
(* The functions of the pool are operators from a pool to a pool and the   *)
(* region returned, since they call one another; the actions are their     *)
(* calls.  oom says which of the system's allocations fails.               *)
(***************************************************************************)
EXTENDS Integers, Sequences, FiniteSets, FiniteSetsExt

CONSTANTS PoolSize,     \* size of a block
          PoolHead,     \* sizeof(uct_pool_t)
          DataHead,     \* sizeof(uct_pool_data_t)
          PageLimit,    \* UCT_MAX_ALLOC_FROM_POOL
          RecordSize,   \* sizeof(uct_pool_large_t) and the like
          Alignment,    \* UCT_ALIGNMENT
          FailedLimit,  \* 4: failed++ > 4 moves pool->current on
          LargeLimit,   \* 3: n++ > 3 ends the search for a free record
          Sizes,        \* sizes asked for
          Files,        \* file descriptors with a cleanup
          MaxBlocks, MaxLarge, MaxMine, MaxElts, MaxCleanups   \* bounds

ASSUME MemoryPoolAssumption ==
    /\ {PoolSize, PoolHead, DataHead, PageLimit} \subseteq Nat
    /\ Alignment \in Nat \ {0} /\ PoolSize % Alignment = 0
    /\ DataHead + Alignment <= PoolHead /\ PoolHead + RecordSize <= PoolSize
    /\ RecordSize \in 1 .. PageLimit /\ Sizes \subseteq Nat \ {0}
    /\ Files \subseteq Nat \ {0}
    /\ {FailedLimit, LargeLimit, MaxLarge} \subseteq Nat

VARIABLES pool,      \* the pool: blocks, current, large, cleanup
          mine,      \* regions the user of the pool has been given
          heap,      \* large areas allocated and not yet freed
          files,     \* descriptors open
          misuse,    \* an area was freed or a file closed twice
          wild,      \* a cleanup record was read that had been written over
          array,     \* a uct_array_t: its own region, elts, nelts, nalloc
          list       \* a uct_list_t: its own region and its parts

memVars == <<pool, mine, heap, files, misuse, wild, array, list>>

Null == [b |-> 0, lo |-> 0, hi |-> 0]
Oom  == {"none", "heap", "block"}

\* pool->max
Max_ == IF PoolSize - PoolHead < PageLimit THEN PoolSize - PoolHead ELSE PageLimit

AlignUp(n) == ((n + Alignment - 1) \div Alignment) * Alignment

NewBlock(last) == [last |-> last, failed |-> 0]

\* uct_create_pool
CreatePool == [blocks |-> <<NewBlock(PoolHead)>>, current |-> 1, large |-> <<>>, cleanup |-> <<>>]

NoArray == [at |-> Null, elts |-> Null, nelts |-> 0, nalloc |-> 0]
NoList  == [at |-> Null, parts |-> <<>>]

InitPool ==
    /\ pool = CreatePool
    /\ mine = {} /\ heap = {} /\ files = {} /\ misuse = FALSE /\ wild = FALSE
    /\ array = NoArray /\ list = NoList

-----------------------------------------------------------------------------
(* uct_palloc and the functions it calls *)

Start(block, align) == IF align THEN AlignUp(block.last) ELSE block.last

\* (size_t) (p->d.end - m) >= size, where a negative difference is huge.
Fits(block, size, align) ==
    LET m == Start(block, align) IN m > PoolSize \/ PoolSize - m >= size

\* Every block from current on, but for the last, failed once more; current
\* moves behind the last one that had failed too often.
Blame(p) ==
    LET tried == p.current .. Len(p.blocks) - 1
        worn == {k \in tried : p.blocks[k].failed > FailedLimit}
        blamed == [k \in DOMAIN p.blocks |-> IF k \in tried THEN [p.blocks[k] EXCEPT !.failed = @ + 1] ELSE p.blocks[k]]
    IN  [p EXCEPT !.blocks = blamed,
                  !.current = IF worn = {} THEN @ ELSE 1 + CHOOSE k \in worn : \A j \in worn : j <= k]

PallocBlock(p, size, oom) ==
    LET m == AlignUp(DataHead)
    IN  IF oom = "block" THEN [pool |-> p, at |-> Null]
        ELSE [pool |-> [Blame(p) EXCEPT !.blocks = Append(@, NewBlock(m + size))],
              at |-> [b |-> Len(p.blocks) + 1, lo |-> m, hi |-> m + size]]

PallocSmall(p, size, align, oom) ==
    LET roomy == {k \in p.current .. Len(p.blocks) : Fits(p.blocks[k], size, align)}
        k == Min(roomy)
        m == Start(p.blocks[k], align)
    IN  IF roomy = {} THEN PallocBlock(p, size, oom)
        ELSE [pool |-> [p EXCEPT !.blocks[k].last = m + size], at |-> [b |-> k, lo |-> m, hi |-> m + size]]

\* The large area id enters the list of records as its first.
Register(p, id, oom) ==
    LET r == PallocSmall(p, RecordSize, TRUE, oom)
    IN  IF r.at = Null THEN r
        ELSE [pool |-> [r.pool EXCEPT !.large = <<[at |-> r.at, alloc |-> id]>> \o @],
              at |-> [b |-> 0, lo |-> id, hi |-> id]]

\* Those of the first LargeLimit + 2 records whose area has been freed.
FreeRecords(p) == {k \in DOMAIN p.large : k <= LargeLimit + 2 /\ p.large[k].alloc = 0}

PallocLarge(p, id, oom) ==
    IF oom = "heap" THEN [pool |-> p, at |-> Null]
    ELSE IF FreeRecords(p) = {} THEN Register(p, id, oom)
    ELSE [pool |-> [p EXCEPT !.large[Min(FreeRecords(p))].alloc = id], at |-> [b |-> 0, lo |-> id, hi |-> id]]

NewId == CHOOSE id \in 1 .. MaxLarge + 1 : id \notin heap

Palloc(p, size, align, oom) ==
    IF size <= Max_ THEN PallocSmall(p, size, align, oom) ELSE PallocLarge(p, NewId, oom)

-----------------------------------------------------------------------------
(* The calls *)

Heap(r) == IF r.b = 0 /\ r # Null THEN {r.lo} ELSE {}
Given(r) == IF r = Null THEN {} ELSE {r}

\* The pool as r leaves it; what r got from the system is on the heap.
Return(r) == pool' = r.pool /\ heap' = heap \cup Heap(r.at)

\* uct_palloc, uct_pnalloc (not aligned) and uct_pcalloc.
Alloc(size, align, oom) ==
    LET r == Palloc(pool, size, align, oom)
    IN  /\ Cardinality(mine) < MaxMine
        /\ Return(r)
        /\ mine' = mine \cup Given(r.at)
        /\ UNCHANGED <<files, misuse, array, list>>

\* uct_pmemalign always makes a record of its own.
Pmemalign(oom) ==
    LET r == IF oom = "heap" THEN [pool |-> pool, at |-> Null] ELSE Register(pool, NewId, oom)
    IN  /\ Cardinality(mine) < MaxMine
        /\ Return(r)
        /\ mine' = mine \cup Given(r.at)
        /\ UNCHANGED <<files, misuse, array, list>>

\* Freeing what is not allocated, and closing what is not open.
Release(ids, fds) ==
    /\ heap' = heap \ ids
    /\ files' = files \ fds
    /\ misuse' = (misuse \/ ~(ids \subseteq heap) \/ ~(fds \subseteq files))

\* Mutant of Forget: the record still names the area.
ForgetNot(p, id) == p

Forget(p, id) == [p EXCEPT !.large = [k \in DOMAIN @ |-> IF @[k].alloc = id THEN [@[k] EXCEPT !.alloc = 0] ELSE @[k]]]

\* uct_pfree of a large area of the user's.
Pfree(r) ==
    /\ r \in mine /\ r.b = 0
    /\ Release({r.lo}, {})
    /\ pool' = Forget(pool, r.lo)
    /\ mine' = mine \ {r}
    /\ UNCHANGED <<array, list>>

\* What uct_pool_cleanup_add and its caller put first in the list: the record,
\* its data (NULL for a size of 0), and the handler, uct_pool_cleanup_file
\* ("close") or uct_pool_delete_file ("delete") for fd; fd = 0 is no handler.
Cleanup(c, d, how, fd) == [at |-> c, data |-> d, how |-> how, fd |-> fd]
Listed(p, cleanup) == [p EXCEPT !.cleanup = <<cleanup>> \o @]

\* uct_pool_cleanup_add(p, 0), and no handler.
CleanupAddBare(oom) ==
    LET c == Palloc(pool, RecordSize, TRUE, oom)
    IN  /\ Len(pool.cleanup) < MaxCleanups /\ c.at # Null
        /\ pool' = Listed(c.pool, Cleanup(c.at, Null, "none", 0))
        /\ UNCHANGED <<mine, heap, files, misuse, array, list>>

\* uct_pool_cleanup_add with data for a file just opened.  When there is none for
\* the data the record is not listed, and its memory not used again.
CleanupAdd(fd, how, oom) ==
    LET c == Palloc(pool, RecordSize, TRUE, oom)
        d == Palloc(c.pool, RecordSize, TRUE, oom)
    IN  /\ Len(pool.cleanup) < MaxCleanups /\ fd \notin files /\ c.at # Null
        /\ \/ /\ d.at = Null
              /\ pool' = d.pool
              /\ UNCHANGED files
           \/ /\ d.at # Null
              /\ pool' = Listed(d.pool, Cleanup(c.at, d.at, how, fd))
              /\ files' = files \cup {fd}
        /\ UNCHANGED <<mine, heap, misuse, array, list>>

\* uct_pool_run_cleanup_file: the first uct_pool_cleanup_file for fd runs and is
\* removed; a uct_pool_delete_file is not looked at.
RunCleanupFile(fd) ==
    LET listed == {k \in DOMAIN pool.cleanup : pool.cleanup[k].fd = fd /\ pool.cleanup[k].how = "close"}
    IN  /\ listed # {}
        /\ pool' = [pool EXCEPT !.cleanup[Min(listed)].fd = 0]
        /\ Release({}, {fd})
        /\ UNCHANGED <<mine, array, list>>

Allocs(p) == {p.large[k].alloc : k \in DOMAIN p.large} \ {0}
Opened(p) == {p.cleanup[k].fd : k \in DOMAIN p.cleanup} \ {0}

\* The cleanup list after a reset: every record is where it was, in memory that
\* is no longer its own.
Disowned(cleanup) == [k \in DOMAIN cleanup |-> [cleanup[k] EXCEPT !.at = Null, !.data = Null]]

\* uct_reset_pool: blocks are kept, empty, and no longer distinguished, the
\* cleanups stay listed, and so do their files stay open.
ResetPool ==
    /\ pool' = [CreatePool EXCEPT !.blocks = [k \in DOMAIN pool.blocks |-> NewBlock(PoolHead)],
                                  !.cleanup = Disowned(pool.cleanup)]
    /\ Release(Allocs(pool), {})
    /\ mine' = {} /\ array' = NoArray /\ list' = NoList

\* uct_destroy_pool or uct_pool_run_cleanup_file comes to a record that was listed
\* at a reset and has been written over since (what is written is not modelled, so
\* it may have been as soon as there was a reset).
StrayWalk ==
    /\ \E k \in DOMAIN pool.cleanup : pool.cleanup[k].at = Null
    /\ wild' = TRUE
    /\ UNCHANGED <<pool, mine, heap, files, misuse, array, list>>

\* uct_destroy_pool, and the uct_create_pool of the next one.
DestroyPool ==
    /\ pool # CreatePool
    /\ Release(Allocs(pool), Opened(pool))
    /\ pool' = CreatePool
    /\ mine' = {} /\ array' = NoArray /\ list' = NoList

-----------------------------------------------------------------------------
(* uct_array_t and uct_list_t, of elements of size 1 *)

\* uct_array_init of the array at a, with room e for n elements, or none.
ArrayInit(a, e, n) == IF e = Null THEN NoArray ELSE [at |-> a, elts |-> e, nelts |-> 0, nalloc |-> n]

\* uct_array_create, with n elements; the list's first part is like an array.
ArrayCreate(n, oom) ==
    LET a == Palloc(pool, RecordSize, TRUE, oom)
        e == Palloc(a.pool, n, TRUE, oom)
    IN  /\ array = NoArray /\ a.at # Null
        /\ Return(e)
        /\ array' = ArrayInit(a.at, e.at, n)
        /\ UNCHANGED <<mine, files, misuse, list>>

\* Mutant of AtEnd: the end of the block is not looked at.
AtEndUnchecked(n) == array.elts.b = 1 /\ array.elts.hi = pool.blocks[1].last

\* The array is the last thing in the first block, and n more elements fit.
AtEnd(n) ==
    /\ array.elts.b = 1 /\ array.elts.hi = pool.blocks[1].last
    /\ pool.blocks[1].last + n <= PoolSize

\* uct_array_push_n; uct_array_push is the case n = 1, where twice the larger
\* of n and nalloc is twice nalloc.
ArrayPush(n, oom) ==
    LET wider == 2 * (IF n >= array.nalloc THEN n ELSE array.nalloc)
        r == Palloc(pool, wider, TRUE, oom)
    IN  /\ array # NoArray /\ array.nelts + n <= MaxElts
        /\ \/ /\ array.nelts + n <= array.nalloc
              /\ array' = [array EXCEPT !.nelts = @ + n]
              /\ UNCHANGED <<pool, heap>>
           \/ /\ array.nelts + n > array.nalloc /\ AtEnd(n)
              /\ pool' = [pool EXCEPT !.blocks[1].last = @ + n]
              /\ array' = [array EXCEPT !.nelts = @ + n, !.nalloc = @ + n, !.elts.hi = @ + n]
              /\ UNCHANGED heap
           \/ /\ array.nelts + n > array.nalloc /\ ~AtEnd(n)
              /\ Return(r)
              /\ array' = IF r.at = Null THEN array
                          ELSE [array EXCEPT !.nelts = @ + n, !.nalloc = wider, !.elts = r.at]
        /\ UNCHANGED <<mine, files, misuse, list>>

\* uct_array_destroy gives memory back only from the end of the first block.
ArrayDestroy ==
    LET last1 == pool.blocks[1].last
        last2 == IF array.elts.b = 1 /\ array.elts.hi = last1 THEN array.elts.lo ELSE last1
        last3 == IF array.at.b = 1 /\ array.at.hi = last2 THEN array.at.lo ELSE last2
    IN  /\ array # NoArray
        /\ pool' = [pool EXCEPT !.blocks[1].last = last3]
        /\ array' = NoArray
        /\ UNCHANGED <<mine, heap, files, misuse, list>>

\* uct_list_create with room for nalloc elements in each part.
nalloc == 2

\* uct_list_init of the list at a, with room e for its first part, or none.
ListInit(a, e) == IF e = Null THEN NoList ELSE [at |-> a, parts |-> <<[rec |-> Null, at |-> e, nelts |-> 0]>>]

ListCreate(oom) ==
    LET a == Palloc(pool, RecordSize, TRUE, oom)
        e == Palloc(a.pool, nalloc, TRUE, oom)
    IN  /\ list = NoList /\ a.at # Null
        /\ Return(e)
        /\ list' = ListInit(a.at, e.at)
        /\ UNCHANGED <<mine, files, misuse, array>>

ListPush(oom) ==
    LET last == list.parts[Len(list.parts)]
        a == Palloc(pool, RecordSize, TRUE, oom)
        e == Palloc(a.pool, nalloc, TRUE, oom)
    IN  /\ list # NoList /\ Len(list.parts) * nalloc < MaxElts
        /\ \/ /\ last.nelts < nalloc
              /\ list' = [list EXCEPT !.parts[Len(list.parts)].nelts = @ + 1]
              /\ UNCHANGED <<pool, heap>>
           \/ /\ last.nelts = nalloc /\ a.at # Null
              /\ Return(e)
              /\ list' = IF e.at = Null THEN list
                         ELSE [list EXCEPT !.parts = Append(@, [rec |-> a.at, at |-> e.at, nelts |-> 1])]
        /\ UNCHANGED <<mine, files, misuse, array>>

-----------------------------------------------------------------------------

Call ==
    \/ \E size \in Sizes, align \in BOOLEAN, oom \in Oom : Alloc(size, align, oom)
    \/ \E oom \in Oom : \/ Pmemalign(oom) \/ CleanupAddBare(oom)
                        \/ \E fd \in Files, how \in {"close", "delete"} : CleanupAdd(fd, how, oom)
                        \/ \E n \in 1..2 : ArrayCreate(n, oom) \/ ArrayPush(n, oom)
                        \/ ListCreate(oom) \/ ListPush(oom)
    \/ \E r \in mine : Pfree(r)
    \/ \E fd \in Files : RunCleanupFile(fd)
    \/ ArrayDestroy \/ ResetPool \/ DestroyPool

PoolNext ==
    /\ ~wild /\ Len(pool.blocks) <= MaxBlocks /\ Cardinality(heap) <= MaxLarge
    /\ (Call /\ UNCHANGED wild) \/ StrayWalk

PoolSpec == InitPool /\ [][PoolNext]_memVars

-----------------------------------------------------------------------------
(* Properties *)

\* Every region somebody holds, with its holder.  A record keeps its number,
\* though new ones are put before it.
Holding(who, r) == [by |-> who, at |-> r]
Records(kind, q) == {Holding(<<kind, Len(q) + 1 - k>>, q[k].at) : k \in DOMAIN q}

Datas(q) == {Holding(<<"data", Len(q) + 1 - k>>, q[k].data) : k \in DOMAIN q}

PoolHeld(p) == Records("large", p.large) \cup Records("cleanup", p.cleanup) \cup Datas(p.cleanup)
UserHeld(s) == {Holding(<<"user", r>>, r) : r \in s}
ArrayHeld(a) == {Holding(<<"array", 1>>, a.at), Holding(<<"array", 2>>, a.elts)}
ListHeld(l) ==
    {Holding(<<"list", 0>>, l.at)}
      \cup {Holding(<<"part", k>>, l.parts[k].at) : k \in DOMAIN l.parts}
      \cup {Holding(<<"record", k>>, l.parts[k].rec) : k \in DOMAIN l.parts}

Held == {h \in PoolHeld(pool) \cup UserHeld(mine) \cup ArrayHeld(array) \cup ListHeld(list) : h.at # Null}

\* Two regions without a byte in common.
Apart(r, q) ==
    IF r.b = 0 \/ q.b = 0 THEN r # q ELSE r.b # q.b \/ r.hi <= q.lo \/ q.hi <= r.lo

\* No two holders share memory, and no small region reaches over the header or
\* the end of its block or into the part still to be given out, whatever mix of
\* allocations, growing arrays, destroyed arrays and resets came before.  The
\* array's region has room for all the elements uct_array_push handed out.  The
\* cleanup records that a reset left listed are no holders: what they were in is
\* given out again, and a later walk along the list reads it (StrayWalk).
NoOverlap ==
    /\ \A g, h \in Held : g # h => Apart(g.at, h.at)
    /\ \A h \in Held : h.at.b # 0 =>
         /\ h.at.lo >= (IF h.at.b = 1 THEN PoolHead ELSE DataHead)
         /\ h.at.hi <= pool.blocks[h.at.b].last /\ h.at.hi <= PoolSize
    /\ array.nelts <= array.nalloc
    /\ array.elts.b # 0 => array.elts.hi - array.elts.lo = array.nalloc

\* Large areas are on the heap exactly as long as a record names them: none is
\* leaked and none is freed twice, nor is a file closed twice, by uct_pfree,
\* uct_pool_run_cleanup_file, the reset and the destruction of the pool, as long as
\* no walk strays into what was written over a cleanup record after a reset.
FreedOnce ==
    /\ ~misuse
    /\ heap = Allocs(pool)
    /\ Cardinality(heap) = Cardinality({k \in DOMAIN pool.large : pool.large[k].alloc # 0})
=============================================================================
