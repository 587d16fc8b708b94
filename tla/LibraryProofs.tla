---------------------------- MODULE LibraryProofs ----------------------------
(***************************************************************************)
(* The memory pool, and the array and the list built on it; the chains of  *)
(* buffers.                                                                *)
(*                                                                         *)
(* The inductive invariant PoolInv puts every holder of memory, the pool's *)
(* own records among them, into one set: each region lies between the      *)
(* header of its block and the unused end, none is empty, and any two are  *)
(* apart.  Allocating cuts a region from the unused end; uct_array_destroy *)
(* may lower that end because the array's region reached up to it, and no  *)
(* region that is not empty can then reach further.  Beside this the       *)
(* records name every area on the heap and every open file once.           *)
(*                                                                         *)
(* What each way of allocating returns is stated once, as Sound, and used  *)
(* by every step.                                                          *)
(*                                                                         *)
(* The inductive invariant BufInv of the chains keeps the spare, the free  *)
(* and the held links apart and balances what was filled with what was     *)
(* sent and what is held.  Every operation either gives buffers to links   *)
(* that no chain holds (Unheld), takes spent links off the front (BackTo)  *)
(* or sends from the front (TotalLeft).                                    *)
(***************************************************************************)
EXTENDS MemoryPool, BufChain, FiniteSetTheorems, SequenceTheorems, TLAPS

-----------------------------------------------------------------------------
(* Numbers *)

\* The quotient, as the rounding of AlignUp needs it.
LEMMA DivFacts ==
    ASSUME NEW a \in Nat, NEW b \in Nat \ {0}
    PROVE  a \div b \in Nat /\ b * (a \div b) <= a /\ a < b * (a \div b) + b /\ (a % b = 0 => a = b * (a \div b))
OBVIOUS

\* A multiple of the alignment next to n.
LEMMA Aligned ==
    ASSUME NEW n \in Nat
    PROVE  /\ AlignUp(n) \in Nat /\ n <= AlignUp(n) /\ AlignUp(n) <= n + Alignment - 1
           /\ n <= PoolSize => AlignUp(n) <= PoolSize
<1>1. PICK A \in Nat \ {0} : A = Alignment BY MemoryPoolAssumption
<1>2. PICK a \in Nat : a = n + A - 1 BY <1>1
<1>3. PICK q \in Nat : q = a \div A /\ A * q <= a /\ a < A * q + A BY DivFacts
<1>4. PICK m \in Int : m = A * q /\ m >= 0 OBVIOUS
<1>5. AlignUp(n) = q * A BY <1>1, <1>2, <1>3 DEF AlignUp
<1>6. q * A = m BY <1>4
<1>7. m \in Nat /\ n <= m /\ m <= n + A - 1 BY <1>1, <1>2, <1>3, <1>4
<1>8. ASSUME n <= PoolSize PROVE m <= PoolSize
  <2>1. PICK P \in Nat : P = PoolSize BY MemoryPoolAssumption
  <2>2. P % A = 0 BY <1>1, <2>1, MemoryPoolAssumption
  <2>3. PICK p \in Nat : P = A * p BY <2>2, DivFacts
  <2>4. CASE q <= p
    <3>1. A * q <= A * p BY <2>4
    <3> QED BY <1>4, <2>1, <2>3, <3>1
  <2>5. CASE q > p
    <3>1. PICK d \in Nat : q = p + 1 + d BY <2>5
    <3>2. A * q = A * p + A + A * d BY <3>1
    <3>3. A * d >= 0 BY <1>1
    <3> QED BY <1>2, <1>3, <1>4, <1>8, <2>1, <2>3, <3>2, <3>3
  <2> QED BY <2>4, <2>5
<1> QED BY <1>1, <1>5, <1>6, <1>7, <1>8

\* A set of natural numbers that is not empty has a least one.
LEMMA LeastNumber ==
    ASSUME NEW Bad, Bad \subseteq Nat, Bad # {}
    PROVE  \E n \in Bad : \A m \in Bad : n <= m
<1> DEFINE R == {p \in Nat \X Nat : p[1] < p[2]}
<1>1. IsWellFoundedOn(R, Nat) BY NatLessThanWellFounded DEF OpToRel
<1>2. \E n \in Bad : \A m \in Bad : ~(<<m, n>> \in R)
  <2> HIDE DEF R
  <2> QED BY <1>1, WFMin
<1>3. PICK n \in Bad : \A m \in Bad : ~(<<m, n>> \in R) BY <1>2
<1>4. \A m \in Bad : ~(m < n) BY <1>3
<1> QED BY <1>4

\* Min of a set of numbers is in it.
LEMMA MinIn == ASSUME NEW S, S \subseteq Nat, S # {} PROVE Min(S) \in S
BY LeastNumber DEF Min

\* A set of numbers up to n has a greatest one.
LEMMA Greatest ==
    ASSUME NEW S, NEW n \in Nat, S \subseteq Nat, \A k \in S : k <= n, S # {}
    PROVE  \E k \in S : \A j \in S : j <= k
<1> DEFINE T == {n - k : k \in S}
<1>1. \A k \in S : n - k \in Nat OBVIOUS
<1>2. T \subseteq Nat BY <1>1
<1>3. T # {} OBVIOUS
<1>4. \E d \in T : \A m \in T : d <= m
  <2> HIDE DEF T
  <2> QED BY <1>2, <1>3, LeastNumber
<1>5. PICK d \in T : \A m \in T : d <= m BY <1>4
<1>6. PICK k \in S : d = n - k OBVIOUS
<1>7. \A j \in S : n - k <= n - j BY <1>5, <1>6
<1> QED BY <1>7

-----------------------------------------------------------------------------
(* The state, and who holds what *)

Regions == [b : Nat, lo : Nat, hi : Nat]
BlockRecords == [last : Nat, failed : Nat]
LargeRecords == [at : Regions, alloc : Nat]
CleanupRecords == [at : Regions, data : Regions, how : {"none", "close", "delete"}, fd : Nat]

\* A pool, by its fields.
PoolOf(bs, c, l, cl) == [blocks |-> bs, current |-> c, large |-> l, cleanup |-> cl]

\* p has the fields of a pool, of their types.
IsPool(p) ==
    /\ p = PoolOf(p.blocks, p.current, p.large, p.cleanup)
    /\ p.blocks \in Seq(BlockRecords) /\ p.current \in 1 .. Len(p.blocks)
    /\ p.large \in Seq(LargeRecords) /\ p.cleanup \in Seq(CleanupRecords)

\* Where the memory of a block begins.
Begin(b) == IF b = 1 THEN PoolHead ELSE DataHead

\* No block is filled beyond its end.
FillOK(bs) == \A b \in 1 .. Len(bs) : Begin(b) <= bs[b].last /\ bs[b].last <= PoolSize

BlocksOK(p) == IsPool(p) /\ FillOK(p.blocks)

\* A region in use lies between the header and the unused end of its block, and
\* is not empty; a large one is on the heap.
Inside(r, bs, hp) ==
    /\ r \in Regions
    /\ r.b = 0 => r.lo = r.hi /\ r.lo \in hp
    /\ r.b # 0 => r.b <= Len(bs) /\ Begin(r.b) <= r.lo /\ r.lo < r.hi /\ r.hi <= bs[r.b].last

\* The holders in H hold such regions, and no two the same.
Placed(H, bs, hp) ==
    /\ \A h \in H : h.at # Null => Inside(h.at, bs, hp)
    /\ \A g, h \in H : g # h /\ g.at # Null /\ h.at # Null => Apart(g.at, h.at)

\* Assigning the blocks of a pool leaves its other fields alone.
LEMMA SetBlocks ==
    ASSUME NEW p, IsPool(p), NEW x
    PROVE  [p EXCEPT !.blocks = x] = PoolOf(x, p.current, p.large, p.cleanup)
BY DEF IsPool, PoolOf

\* Assigning blocks and current, as Blame does.
LEMMA SetBlocksCurrent ==
    ASSUME NEW p, IsPool(p), NEW x, NEW y
    PROVE  [p EXCEPT !.blocks = x, !.current = y] = PoolOf(x, y, p.large, p.cleanup)
<1>1. [p EXCEPT !.blocks = x, !.current = y] = [[p EXCEPT !.blocks = x] EXCEPT !.current = y] OBVIOUS
<1>2. [PoolOf(x, p.current, p.large, p.cleanup) EXCEPT !.current = y] = PoolOf(x, y, p.large, p.cleanup) BY DEF PoolOf
<1> QED BY <1>1, <1>2, SetBlocks

\* Assigning the list of large records.
LEMMA SetLarge ==
    ASSUME NEW p, IsPool(p), NEW x
    PROVE  [p EXCEPT !.large = x] = PoolOf(p.blocks, p.current, x, p.cleanup)
BY DEF IsPool, PoolOf

\* Assigning the list of cleanup records.
LEMMA SetCleanup ==
    ASSUME NEW p, IsPool(p), NEW x
    PROVE  [p EXCEPT !.cleanup = x] = PoolOf(p.blocks, p.current, p.large, x)
BY DEF IsPool, PoolOf

\* Moving the last pointer of block k.
LEMMA SetLast ==
    ASSUME NEW p, IsPool(p), NEW k, NEW x
    PROVE  [p EXCEPT !.blocks[k].last = x]
             = PoolOf([p.blocks EXCEPT ![k] = [p.blocks[k] EXCEPT !.last = x]], p.current, p.large, p.cleanup)
<1>1. p = PoolOf(p.blocks, p.current, p.large, p.cleanup) BY DEF IsPool
<1> QED BY <1>1 DEF PoolOf

\* Naming another area in the large record k.
LEMMA SetAlloc ==
    ASSUME NEW p, IsPool(p), NEW k, NEW x
    PROVE  [p EXCEPT !.large[k].alloc = x]
             = PoolOf(p.blocks, p.current, [p.large EXCEPT ![k] = [p.large[k] EXCEPT !.alloc = x]], p.cleanup)
<1>1. p = PoolOf(p.blocks, p.current, p.large, p.cleanup) BY DEF IsPool
<1> QED BY <1>1 DEF PoolOf

\* The fields of a pool put together, and when it is of the type of a pool.
LEMMA PoolFields ==
    ASSUME NEW bs, NEW c, NEW l, NEW cl
    PROVE  LET p == PoolOf(bs, c, l, cl)
           IN  /\ p.blocks = bs /\ p.current = c /\ p.large = l /\ p.cleanup = cl
               /\ (bs \in Seq(BlockRecords) /\ c \in 1 .. Len(bs) /\ l \in Seq(LargeRecords) /\ cl \in Seq(CleanupRecords))
                    => IsPool(p)
<1> DEFINE p == PoolOf(bs, c, l, cl)
<1>1. p.blocks = bs /\ p.current = c /\ p.large = l /\ p.cleanup = cl BY DEF PoolOf
<1> HIDE DEF p
<1>2. p = PoolOf(p.blocks, p.current, p.large, p.cleanup) BY <1>1 DEF p
<1>3. (bs \in Seq(BlockRecords) /\ c \in 1 .. Len(bs) /\ l \in Seq(LargeRecords) /\ cl \in Seq(CleanupRecords))
                    => IsPool(p) BY <1>1, <1>2 DEF IsPool
<1> QED BY <1>1, <1>3 DEF p

\* The types of the fields of a block.
LEMMA BlockTypes ==
    ASSUME NEW bs \in Seq(BlockRecords), NEW b \in 1 .. Len(bs)
    PROVE  bs[b] \in BlockRecords /\ bs[b].last \in Nat /\ bs[b].failed \in Nat
<1>1. bs[b] \in BlockRecords OBVIOUS
<1> QED BY <1>1 DEF BlockRecords

\* Counting a failure of a block moves no pointer.
LEMMA BlockFailed ==
    ASSUME NEW x \in BlockRecords
    PROVE  [x EXCEPT !.failed = @ + 1] \in BlockRecords /\ [x EXCEPT !.failed = @ + 1].last = x.last
<1>1. x.failed + 1 \in Nat BY DEF BlockRecords
<1>2. [x EXCEPT !.failed = x.failed + 1] \in BlockRecords /\ [x EXCEPT !.failed = x.failed + 1].last = x.last
  BY <1>1 DEF BlockRecords
<1> QED BY <1>2

\* Moving the last pointer of a block.
LEMMA BlockFilled ==
    ASSUME NEW x \in BlockRecords, NEW n \in Nat
    PROVE  [x EXCEPT !.last = n] \in BlockRecords /\ [x EXCEPT !.last = n].last = n
BY DEF BlockRecords

\* Those who hold nothing disturb nobody.
LEMMA PlacedSubset ==
    ASSUME NEW H, NEW G, NEW bs, NEW hp, Placed(H, bs, hp), \A h \in G : h \in H \/ h.at = Null
    PROVE  Placed(G, bs, hp)
BY DEF Placed

\* Blocks filled further and a larger heap disturb nobody.
LEMMA PlacedGrows ==
    ASSUME NEW H, NEW bs \in Seq(BlockRecords), NEW cs \in Seq(BlockRecords), NEW hp, NEW hq, Placed(H, bs, hp),
           Len(bs) <= Len(cs), \A b \in 1 .. Len(bs) : bs[b].last <= cs[b].last, hp \subseteq hq
    PROVE  Placed(H, cs, hq)
<1>1. ASSUME NEW r, Inside(r, bs, hp) PROVE Inside(r, cs, hq)
  <2>1. CASE r.b = 0 BY <1>1, <2>1 DEF Inside
  <2>2. CASE r.b # 0
    <3>1. r.b \in Nat /\ r.hi \in Nat /\ r.lo \in Nat BY <1>1 DEF Inside, Regions
    <3>2. r.b \in 1 .. Len(bs) /\ r.b \in 1 .. Len(cs) BY <1>1, <2>2, <3>1 DEF Inside
    <3>3. bs[r.b].last \in Nat /\ cs[r.b].last \in Nat BY <3>2, BlockTypes
    <3> QED BY <1>1, <2>2, <3>1, <3>2, <3>3 DEF Inside
  <2> QED BY <2>1, <2>2
<1> QED BY <1>1 DEF Placed

\* Being apart is symmetric.
LEMMA ApartSym == \A r, q : Apart(r, q) <=> Apart(q, r)
BY DEF Apart

\* One holder more, whose region nobody has.
LEMMA PlacedAdds ==
    ASSUME NEW H, NEW bs, NEW hp, Placed(H, bs, hp), NEW r, r # Null => Inside(r, bs, hp),
           r # Null => \A h \in H : h.at # Null => Apart(h.at, r), NEW t
    PROVE  Placed(H \cup {Holding(t, r)}, bs, hp)
<1> DEFINE x == Holding(t, r)
<1>1. x.at = r BY DEF Holding
<1> HIDE DEF x
<1>2. Placed(H \cup {x}, bs, hp) BY <1>1, ApartSym DEF Placed
<1> QED BY <1>2 DEF x

\* A region cut from the unused end of a block.
LEMMA Carved ==
    ASSUME NEW H, NEW bs \in Seq(BlockRecords), NEW cs \in Seq(BlockRecords), NEW hp, Placed(H, bs, hp),
           Len(bs) <= Len(cs), \A b \in 1 .. Len(bs) : bs[b].last <= cs[b].last,
           NEW r \in Regions, r.b \in 1 .. Len(cs), Begin(r.b) <= r.lo, r.lo < r.hi, r.hi <= cs[r.b].last,
           r.b <= Len(bs) => bs[r.b].last <= r.lo, NEW t
    PROVE  Placed(H \cup {Holding(t, r)}, cs, hp)
<1>1. Placed(H, cs, hp) BY PlacedGrows
<1>2. Inside(r, cs, hp) BY DEF Inside
<1>3. ASSUME NEW h \in H, h.at # Null PROVE Apart(h.at, r)
  <2>1. Inside(h.at, bs, hp) BY <1>3 DEF Placed
  <2>2. CASE h.at.b # r.b
    <3>1. h.at # r BY <2>2
    <3> QED BY <2>2, <3>1 DEF Apart
  <2>3. CASE h.at.b = r.b
    <3>1. h.at.b # 0 /\ h.at.hi <= bs[r.b].last /\ r.b <= Len(bs) /\ h.at.hi \in Nat BY <2>1, <2>3 DEF Inside, Regions
    <3>2. r.b \in 1 .. Len(bs) BY <3>1
    <3>3. bs[r.b].last \in Nat /\ r.lo \in Nat BY <3>2, BlockTypes DEF Regions
    <3>4. h.at.hi <= r.lo BY <3>1, <3>3
    <3> QED BY <3>4 DEF Apart
  <2> QED BY <2>2, <2>3
<1> QED BY <1>1, <1>2, <1>3, PlacedAdds

\* Blame counts failures; it fills nothing.
LEMMA BlameOK ==
    ASSUME NEW p, IsPool(p)
    PROVE  /\ IsPool(Blame(p)) /\ Blame(p).large = p.large /\ Blame(p).cleanup = p.cleanup
           /\ Len(Blame(p).blocks) = Len(p.blocks)
           /\ \A b \in 1 .. Len(p.blocks) : Blame(p).blocks[b].last = p.blocks[b].last
<1> DEFINE tried == p.current .. Len(p.blocks) - 1
           worn == {k \in tried : p.blocks[k].failed > FailedLimit}
           bs == [k \in DOMAIN p.blocks |-> IF k \in tried THEN [p.blocks[k] EXCEPT !.failed = @ + 1] ELSE p.blocks[k]]
           cur == IF worn = {} THEN p.current ELSE 1 + CHOOSE k \in worn : \A j \in worn : j <= k
<1>1. p.current \in 1 .. Len(p.blocks) BY DEF IsPool
<1>2. p.blocks \in Seq(BlockRecords) /\ Len(p.blocks) \in Nat /\ DOMAIN p.blocks = 1 .. Len(p.blocks)
  BY DEF IsPool
<1>3. Blame(p) = [p EXCEPT !.blocks = bs, !.current = cur] BY DEF Blame
<1>4. \A k \in 1 .. Len(p.blocks) : bs[k] \in BlockRecords /\ bs[k].last = p.blocks[k].last
  <2> SUFFICES ASSUME NEW k \in 1 .. Len(p.blocks) PROVE bs[k] \in BlockRecords /\ bs[k].last = p.blocks[k].last
    OBVIOUS
  <2>1. PICK x \in BlockRecords : x = p.blocks[k] BY <1>2
  <2>2. [x EXCEPT !.failed = @ + 1] \in BlockRecords /\ [x EXCEPT !.failed = @ + 1].last = x.last
    BY BlockFailed
  <2>3. bs[k] = IF k \in tried THEN [x EXCEPT !.failed = @ + 1] ELSE x BY <1>2, <2>1
  <2> QED BY <2>1, <2>2, <2>3
<1>5. DOMAIN bs = 1 .. Len(p.blocks) /\ bs = [k \in 1 .. Len(p.blocks) |-> bs[k]] BY <1>2
<1>6. cur \in 1 .. Len(p.blocks)
  <2>1. CASE worn = {} BY <1>1, <2>1
  <2>2. CASE worn # {}
    <3>1. worn \in SUBSET tried /\ tried \in SUBSET Int BY <1>1, <1>2
    <3>2. Len(p.blocks) \in Nat /\ worn \subseteq Nat /\ \A k \in worn : k <= Len(p.blocks) BY <1>1, <1>2
    <3>3. \E k \in worn : \A j \in worn : j <= k
      <4> HIDE DEF worn
      <4> QED BY <2>2, <3>2, Greatest
    <3>4. (CHOOSE k \in worn : \A j \in worn : j <= k) \in tried BY <3>1, <3>3
    <3>5. cur = 1 + CHOOSE k \in worn : \A j \in worn : j <= k BY <2>2
    <3> HIDE DEF cur, worn
    <3> QED BY <1>1, <1>2, <3>4, <3>5
  <2> QED BY <2>1, <2>2
<1> HIDE DEF bs, cur
<1>7. bs \in Seq(BlockRecords) /\ Len(bs) = Len(p.blocks) BY <1>2, <1>4, <1>5
<1>8. Blame(p) = PoolOf(bs, cur, p.large, p.cleanup) BY <1>3, SetBlocksCurrent
<1>9. /\ IsPool(Blame(p)) /\ Blame(p).blocks = bs /\ Blame(p).large = p.large /\ Blame(p).cleanup = p.cleanup
  BY <1>6, <1>7, <1>8, PoolFields DEF IsPool
<1> QED BY <1>4, <1>7, <1>9

\* The fields of a region.
LEMMA RegionFields ==
    ASSUME NEW b, NEW lo, NEW hi
    PROVE  LET r == [b |-> b, lo |-> lo, hi |-> hi]
           IN  r.b = b /\ r.lo = lo /\ r.hi = hi /\ (b \in Nat /\ lo \in Nat /\ hi \in Nat => r \in Regions)
BY DEF Regions

\* What a small allocation leaves behind: the blocks are in order, and a holder
\* of what was returned has it for itself.  H is who holds what before it.
SmallOK(r, p, H, hp, size) ==
    /\ BlocksOK(r.pool)
    /\ r.pool.large = p.large /\ r.pool.cleanup = p.cleanup
    /\ r.at \in Regions
    /\ r.at # Null => r.at.b # 0 /\ r.at.hi - r.at.lo = size
    /\ \A t : Placed(H \cup {Holding(t, r.at)}, r.pool.blocks, hp)

\* An allocation that fails returns NULL and leaves the pool as it was.
LEMMA NullGiven ==
    ASSUME NEW p, NEW H, NEW hp, NEW size, BlocksOK(p), Placed(H, p.blocks, hp)
    PROVE  SmallOK([pool |-> p, at |-> Null], p, H, hp, size)
<1> DEFINE r == [pool |-> p, at |-> Null]
<1>1. r.pool = p /\ r.at = Null OBVIOUS
<1>2. Null \in Regions BY DEF Null, Regions
<1> HIDE DEF r
<1>3. ASSUME NEW t PROVE Placed(H \cup {Holding(t, Null)}, p.blocks, hp) BY PlacedAdds
<1>4. SmallOK(r, p, H, hp, size) BY <1>1, <1>2, <1>3 DEF SmallOK
<1> QED BY <1>4 DEF r

\* uct_palloc_block returns the first bytes of a new block, or NULL.
LEMMA BlockGiven ==
    ASSUME NEW p, NEW H, NEW hp, BlocksOK(p), Placed(H, p.blocks, hp),
           NEW size \in Nat \ {0}, size <= Max_, NEW oom
    PROVE  SmallOK(PallocBlock(p, size, oom), p, H, hp, size)
<1> DEFINE m == AlignUp(DataHead)
           q == Blame(p)
           n == Len(p.blocks)
           x == NewBlock(m + size)
           at == [b |-> n + 1, lo |-> m, hi |-> m + size]
           q2 == PoolOf(Append(q.blocks, x), q.current, q.large, q.cleanup)
           r == [pool |-> q2, at |-> at]
<1>1. CASE oom = "block"
  <2>1. PallocBlock(p, size, oom) = [pool |-> p, at |-> Null] BY <1>1 DEF PallocBlock
  <2> QED BY <2>1, NullGiven
<1>2. CASE oom # "block"
  <2>1. IsPool(p) /\ FillOK(p.blocks) /\ n \in Nat /\ p.blocks \in Seq(BlockRecords) BY DEF BlocksOK, IsPool
  <2>2. /\ IsPool(q) /\ q.large = p.large /\ q.cleanup = p.cleanup /\ Len(q.blocks) = n
        /\ \A b \in 1 .. n : q.blocks[b].last = p.blocks[b].last
    BY <2>1, BlameOK
  <2>3. q.blocks \in Seq(BlockRecords) /\ q.current \in 1 .. n BY <2>2 DEF IsPool
  <2>4. /\ m \in Nat /\ DataHead <= m /\ m + size <= PoolSize /\ DataHead \in Nat /\ PoolHead \in Nat /\ PoolSize \in Nat
    <3>1. DataHead \in Nat /\ PoolHead \in Nat /\ PoolSize \in Nat /\ Alignment \in Nat /\ DataHead + Alignment <= PoolHead
      BY MemoryPoolAssumption
    <3>2. m \in Nat /\ DataHead <= m /\ m <= DataHead + Alignment - 1 BY <3>1, Aligned
    <3> HIDE DEF m
    <3>3. size <= PoolSize - PoolHead
      <4>1. PageLimit \in Nat BY MemoryPoolAssumption
      <4> QED BY <3>1, <4>1 DEF Max_
    <3> QED BY <3>1, <3>2, <3>3
  <2> HIDE DEF m, q, n
  <2>5. x \in BlockRecords /\ x.last = m + size BY <2>4 DEF NewBlock, BlockRecords
  <2>6. at \in Regions /\ at.b = n + 1 /\ at.lo = m /\ at.hi = m + size BY <2>1, <2>4, RegionFields
  <2> HIDE DEF x, at
  <2>7. PallocBlock(p, size, oom) = r
    <3>1. [q EXCEPT !.blocks = Append(@, x)] = [q EXCEPT !.blocks = Append(q.blocks, x)] OBVIOUS
    <3>2. [q EXCEPT !.blocks = Append(@, x)] = q2 BY <2>2, <3>1, SetBlocks
    <3>3. PallocBlock(p, size, oom) = [pool |-> [q EXCEPT !.blocks = Append(@, x)], at |-> at]
      BY <1>2 DEF PallocBlock, m, q, n, x, at
    <3> QED BY <3>2, <3>3
  <2>8. PICK cs \in Seq(BlockRecords) : /\ cs = Append(q.blocks, x) /\ Len(cs) = n + 1 /\ cs[n + 1] = x
                                        /\ \A b \in 1 .. n : cs[b] = q.blocks[b]
    <3>1. PICK bs \in Seq(BlockRecords) : bs = q.blocks /\ Len(bs) = n BY <2>2, <2>3
    <3>2. Append(bs, x) \in Seq(BlockRecords) BY <2>5
    <3>3. Len(Append(bs, x)) = n + 1 /\ Append(bs, x)[n + 1] = x BY <3>1
    <3>4. \A b \in 1 .. n : Append(bs, x)[b] = bs[b] BY <3>1
    <3> QED BY <3>1, <3>2, <3>3, <3>4
  <2>9. IsPool(q2) /\ q2.blocks = cs /\ q2.large = p.large /\ q2.cleanup = p.cleanup
    <3>1. q.current \in 1 .. Len(cs) BY <2>1, <2>3, <2>8
    <3>2. q.large \in Seq(LargeRecords) /\ q.cleanup \in Seq(CleanupRecords) BY <2>2 DEF IsPool
    <3>3. q2 = PoolOf(cs, q.current, q.large, q.cleanup) BY <2>8
    <3> HIDE DEF q2
    <3> QED BY <2>2, <3>1, <3>2, <3>3, PoolFields
  <2>10. FillOK(cs)
    <3>1. ASSUME NEW b \in 1 .. n + 1 PROVE Begin(b) <= cs[b].last /\ cs[b].last <= PoolSize
      <4>1. CASE b = n + 1
        <5>1. b # 1 BY <2>1, <2>3, <4>1
        <5> QED BY <2>4, <2>5, <2>8, <4>1, <5>1 DEF Begin
      <4>2. CASE b # n + 1
        <5>1. b \in 1 .. n BY <2>1, <4>2
        <5> QED BY <2>1, <2>2, <2>8, <5>1 DEF FillOK, n
      <4> QED BY <4>1, <4>2
    <3> QED BY <2>8, <3>1 DEF FillOK
  <2>11. ASSUME NEW t PROVE Placed(H \cup {Holding(t, at)}, cs, hp)
    <3>1. at.b \in 1 .. Len(cs) /\ Len(p.blocks) <= Len(cs) /\ ~(at.b <= Len(p.blocks)) BY <2>1, <2>6, <2>8 DEF n
    <3>2. Begin(at.b) = DataHead BY <2>1, <2>3, <2>6 DEF Begin
    <3>3. Begin(at.b) <= at.lo /\ at.lo < at.hi /\ at.hi <= cs[at.b].last BY <2>4, <2>5, <2>6, <2>8, <3>2
    <3>4. \A b \in 1 .. Len(p.blocks) : p.blocks[b].last <= cs[b].last
      <4>1. \A b \in 1 .. n : p.blocks[b].last \in Nat BY <2>1, BlockTypes DEF n
      <4> QED BY <2>2, <2>8, <4>1 DEF n
    <3> QED BY <2>1, <2>6, <3>1, <3>3, <3>4, Carved
  <2>12. at # Null /\ at.b # 0 /\ at.hi - at.lo = size
    <3>1. at.b # 0 /\ at.hi - at.lo = size BY <2>1, <2>4, <2>6
    <3> QED BY <3>1 DEF Null
  <2>13. r.pool = q2 /\ r.at = at OBVIOUS
  <2> HIDE DEF r, q2
  <2>14. SmallOK(r, p, H, hp, size) BY <2>6, <2>9, <2>10, <2>11, <2>12, <2>13 DEF SmallOK, BlocksOK
  <2> QED BY <2>7, <2>14
<1> QED BY <1>1, <1>2

\* PallocSmall looks for room in the blocks from current on and makes a new
\* block when there is none.
LEMMA SmallGiven ==
    ASSUME NEW p, NEW H, NEW hp, BlocksOK(p), Placed(H, p.blocks, hp),
           NEW size \in Nat \ {0}, size <= Max_, NEW align, NEW oom
    PROVE  SmallOK(PallocSmall(p, size, align, oom), p, H, hp, size)
<1> DEFINE roomy == {k \in p.current .. Len(p.blocks) : Fits(p.blocks[k], size, align)}
           k == Min(roomy)
           m == Start(p.blocks[k], align)
           at == [b |-> k, lo |-> m, hi |-> m + size]
           cs == [p.blocks EXCEPT ![k] = [p.blocks[k] EXCEPT !.last = m + size]]
           q == PoolOf(cs, p.current, p.large, p.cleanup)
           r == [pool |-> q, at |-> at]
<1>1. CASE roomy = {}
  <2>1. PallocSmall(p, size, align, oom) = PallocBlock(p, size, oom) BY <1>1 DEF PallocSmall
  <2> QED BY <2>1, BlockGiven
<1>2. CASE roomy # {}
  <2>1. /\ IsPool(p) /\ FillOK(p.blocks) /\ p.blocks \in Seq(BlockRecords) /\ Len(p.blocks) \in Nat
        /\ p.current \in 1 .. Len(p.blocks) /\ p.large \in Seq(LargeRecords) /\ p.cleanup \in Seq(CleanupRecords)
    BY DEF BlocksOK, IsPool
  <2>2. k \in roomy
    <3>1. roomy \subseteq Nat BY <2>1
    <3> HIDE DEF roomy
    <3> QED BY <1>2, <3>1, MinIn
  <2>3. k \in 1 .. Len(p.blocks) /\ Fits(p.blocks[k], size, align)
    <3>1. k \in p.current .. Len(p.blocks) /\ Fits(p.blocks[k], size, align) BY <2>2
    <3> HIDE DEF k
    <3> QED BY <2>1, <3>1
  <2>4. PallocSmall(p, size, align, oom) = [pool |-> [p EXCEPT !.blocks[k].last = m + size], at |-> at]
    BY <1>2 DEF PallocSmall
  <2> HIDE DEF k, roomy
  <2>5. p.blocks[k].last \in Nat /\ p.blocks[k] \in BlockRecords BY <2>1, <2>3, BlockTypes
  <2>6. Begin(k) <= p.blocks[k].last /\ p.blocks[k].last <= PoolSize /\ Begin(k) \in Nat /\ PoolSize \in Nat
    BY <2>1, <2>3, MemoryPoolAssumption DEF FillOK, Begin
  <2>7. m \in Nat /\ p.blocks[k].last <= m /\ m <= PoolSize BY <2>5, <2>6, Aligned DEF Start
  <2>8. m + size <= PoolSize
    <3>1. m > PoolSize \/ PoolSize - m >= size BY <2>3 DEF Fits
    <3> HIDE DEF m
    <3> QED BY <2>6, <2>7, <3>1
  <2> HIDE DEF m
  <2>9. at \in Regions /\ at.b = k /\ at.lo = m /\ at.hi = m + size BY <2>3, <2>7, RegionFields
  <2> HIDE DEF at
  <2>10. PICK x \in BlockRecords : x = [p.blocks[k] EXCEPT !.last = m + size] /\ x.last = m + size
    <3>1. m + size \in Nat BY <2>7
    <3> QED BY <2>5, <3>1, BlockFilled
  <2>20. x.last = m + size BY <2>10
  <2>11. /\ cs \in Seq(BlockRecords) /\ Len(cs) = Len(p.blocks) /\ cs[k] = x
         /\ \A b \in 1 .. Len(p.blocks) : b # k => cs[b] = p.blocks[b]
    BY <2>1, <2>3, <2>10
  <2>12. PallocSmall(p, size, align, oom) = r BY <2>1, <2>4, SetLast
  <2> HIDE DEF cs
  <2>13. IsPool(q) /\ q.blocks = cs /\ q.large = p.large /\ q.cleanup = p.cleanup BY <2>1, <2>11, PoolFields
  <2> HIDE DEF q
  <2>14. \A b \in 1 .. Len(p.blocks) : p.blocks[b].last \in Nat BY <2>1, BlockTypes
  <2>15. FillOK(cs)
    <3>1. ASSUME NEW b \in 1 .. Len(p.blocks) PROVE Begin(b) <= cs[b].last /\ cs[b].last <= PoolSize
      <4>1. CASE b = k BY <2>5, <2>6, <2>7, <2>8, <2>20, <2>11, <4>1
      <4>2. CASE b # k BY <2>1, <2>11, <4>2 DEF FillOK
      <4> QED BY <4>1, <4>2
    <3> QED BY <2>11, <3>1 DEF FillOK
  <2>16. ASSUME NEW t PROVE Placed(H \cup {Holding(t, at)}, cs, hp)
    <3>1. \A b \in 1 .. Len(p.blocks) : p.blocks[b].last <= cs[b].last
      BY <2>5, <2>7, <2>20, <2>11, <2>14
    <3>2. at.b \in 1 .. Len(cs) /\ p.blocks[at.b].last <= at.lo BY <2>3, <2>7, <2>9, <2>11
    <3>3. Begin(at.b) <= at.lo /\ at.lo < at.hi /\ at.hi <= cs[at.b].last BY <2>5, <2>6, <2>7, <2>9, <2>20, <2>11
    <3>4. Len(p.blocks) <= Len(cs) BY <2>1, <2>11
    <3> QED BY <2>1, <2>9, <2>11, <3>1, <3>2, <3>3, <3>4, Carved
  <2>17. at.b # 0 /\ at.hi - at.lo = size BY <2>3, <2>7, <2>9
  <2>18. r.pool = q /\ r.at = at OBVIOUS
  <2> HIDE DEF r
  <2>19. SmallOK(r, p, H, hp, size) BY <2>9, <2>13, <2>15, <2>16, <2>17, <2>18 DEF SmallOK, BlocksOK
  <2> QED BY <2>12, <2>19
<1> QED BY <1>1, <1>2

-----------------------------------------------------------------------------
\* The records of large areas and the areas on the heap agree, and no two
\* records name the same area.
LargeOK(l, hp) ==
    /\ hp = {l[k].alloc : k \in DOMAIN l} \ {0}
    /\ \A j, k \in DOMAIN l : l[j].alloc = l[k].alloc /\ l[k].alloc # 0 => j = k

\* q with x before it.
Prepend(x, q) == <<x>> \o q

\* A sequence with one element more before the first.
LEMMA Prepended ==
    ASSUME NEW S, NEW q \in Seq(S), NEW x \in S
    PROVE  /\ Prepend(x, q) \in Seq(S) /\ Len(Prepend(x, q)) = Len(q) + 1 /\ DOMAIN Prepend(x, q) = 1 .. Len(q) + 1
           /\ Prepend(x, q)[1] = x
           /\ \A k \in 2 .. Len(q) + 1 : Prepend(x, q)[k] = q[k - 1]
<1> DEFINE y == <<x>>
           c == Prepend(x, q)
<1>1. y \in Seq(S) /\ Len(y) = 1 /\ y[1] = x OBVIOUS
<1>2. c = y \o q BY DEF Prepend
<1> HIDE DEF y, c
<1>3. c \in Seq(S) BY <1>1, <1>2, ConcatProperties, Zenon
<1>4. Len(q) \in Nat /\ Len(y) \in Nat /\ Len(c) = Len(y) + Len(q)
  <2>1. Len(c) = Len(y) + Len(q) BY <1>1, <1>2, ConcatProperties, Zenon
  <2> QED BY <1>1, <2>1
<1>5. Len(c) = Len(q) + 1 BY <1>1, <1>4
<1>6. DOMAIN c = 1 .. Len(q) + 1 BY <1>3, <1>5
<1>7. \A k \in 1 .. Len(y) + Len(q) : c[k] = IF k <= Len(y) THEN y[k] ELSE q[k - Len(y)] BY <1>1, <1>2, ConcatProperties, Zenon
<1>8. c[1] = x BY <1>1, <1>4, <1>7
<1>9. ASSUME NEW k \in 2 .. Len(q) + 1 PROVE c[k] = q[k - 1]
  <2>1. k \in 1 .. Len(y) + Len(q) /\ ~(k <= Len(y)) /\ k - Len(y) = k - 1 BY <1>1, <1>4
  <2> QED BY <1>7, <2>1
<1> QED BY <1>3, <1>5, <1>6, <1>8, <1>9 DEF c

\* A record keeps its number when another is put before it.
LEMMA RecordsPrepend ==
    ASSUME NEW S, NEW q \in Seq(S), NEW x \in S, NEW kind
    PROVE  Records(kind, Prepend(x, q)) = Records(kind, q) \cup {Holding(<<kind, Len(q) + 1>>, x.at)}
<1> DEFINE c == Prepend(x, q)
<1>0. c \in Seq(S) /\ DOMAIN c = 1 .. Len(q) + 1 BY Prepended
<1>1. Len(c) = Len(q) + 1 /\ c[1] = x /\ \A k \in 2 .. Len(q) + 1 : c[k] = q[k - 1] BY Prepended
<1> HIDE DEF c
<1>2. Len(q) \in Nat /\ 1 \in 1 .. Len(q) + 1 /\ DOMAIN c = 1 .. Len(q) + 1 /\ DOMAIN q = 1 .. Len(q) BY <1>0
<1>3. ASSUME NEW h \in Records(kind, c) PROVE h \in Records(kind, q) \cup {Holding(<<kind, Len(q) + 1>>, x.at)}
  <2>1. PICK k \in 1 .. Len(q) + 1 : h = Holding(<<kind, Len(c) + 1 - k>>, c[k].at) BY <1>2, <1>3 DEF Records
  <2>2. CASE k = 1
    <3>1. Len(c) + 1 - k = Len(q) + 1 BY <1>1, <1>2, <2>2
    <3> QED BY <1>1, <2>1, <2>2, <3>1
  <2>3. CASE k # 1
    <3>1. PICK j \in 1 .. Len(q) : k = j + 1 BY <1>2, <2>3
    <3>2. Len(c) + 1 - k = Len(q) + 1 - j /\ c[k] = q[j] BY <1>1, <1>2, <3>1
    <3>3. h = Holding(<<kind, Len(q) + 1 - j>>, q[j].at) BY <2>1, <3>2
    <3> QED BY <1>2, <3>3 DEF Records
  <2> QED BY <2>2, <2>3
<1>4. ASSUME NEW j \in 1 .. Len(q) PROVE Holding(<<kind, Len(q) + 1 - j>>, q[j].at) \in Records(kind, c)
  <2>1. PICK k \in 1 .. Len(q) + 1 : k = j + 1 BY <1>2
  <2>2. Len(c) + 1 - k = Len(q) + 1 - j /\ c[k] = q[j] BY <1>1, <1>2, <2>1
  <2>3. Holding(<<kind, Len(c) + 1 - k>>, c[k].at) \in Records(kind, c) BY <1>2 DEF Records
  <2> QED BY <2>2, <2>3
<1>5. Holding(<<kind, Len(q) + 1>>, x.at) \in Records(kind, c)
  <2>1. Holding(<<kind, Len(c) + 1 - 1>>, c[1].at) \in Records(kind, c) BY <1>2 DEF Records
  <2>2. Len(c) + 1 - 1 = Len(q) + 1 BY <1>1, <1>2
  <2> QED BY <1>1, <2>1, <2>2
<1>6. Records(kind, q) \subseteq Records(kind, c) BY <1>2, <1>4 DEF Records
<1> QED BY <1>3, <1>5, <1>6 DEF c

\* So do the data of a cleanup record.
LEMMA DatasPrepend ==
    ASSUME NEW S, NEW q \in Seq(S), NEW x \in S
    PROVE  Datas(Prepend(x, q)) = Datas(q) \cup {Holding(<<"data", Len(q) + 1>>, x.data)}
<1> DEFINE c == Prepend(x, q)
<1>0. c \in Seq(S) /\ DOMAIN c = 1 .. Len(q) + 1 BY Prepended
<1>1. Len(c) = Len(q) + 1 /\ c[1] = x /\ \A k \in 2 .. Len(q) + 1 : c[k] = q[k - 1] BY Prepended
<1> HIDE DEF c
<1>2. Len(q) \in Nat /\ 1 \in 1 .. Len(q) + 1 /\ DOMAIN c = 1 .. Len(q) + 1 /\ DOMAIN q = 1 .. Len(q) BY <1>0
<1>3. ASSUME NEW h \in Datas(c) PROVE h \in Datas(q) \cup {Holding(<<"data", Len(q) + 1>>, x.data)}
  <2>1. PICK k \in 1 .. Len(q) + 1 : h = Holding(<<"data", Len(c) + 1 - k>>, c[k].data) BY <1>2, <1>3 DEF Datas
  <2>2. CASE k = 1
    <3>1. Len(c) + 1 - k = Len(q) + 1 BY <1>1, <1>2, <2>2
    <3> QED BY <1>1, <2>1, <2>2, <3>1
  <2>3. CASE k # 1
    <3>1. PICK j \in 1 .. Len(q) : k = j + 1 BY <1>2, <2>3
    <3>2. Len(c) + 1 - k = Len(q) + 1 - j /\ c[k] = q[j] BY <1>1, <1>2, <3>1
    <3>3. h = Holding(<<"data", Len(q) + 1 - j>>, q[j].data) BY <2>1, <3>2
    <3> QED BY <1>2, <3>3 DEF Datas
  <2> QED BY <2>2, <2>3
<1>4. ASSUME NEW j \in 1 .. Len(q) PROVE Holding(<<"data", Len(q) + 1 - j>>, q[j].data) \in Datas(c)
  <2>1. PICK k \in 1 .. Len(q) + 1 : k = j + 1 BY <1>2
  <2>2. Len(c) + 1 - k = Len(q) + 1 - j /\ c[k] = q[j] BY <1>1, <1>2, <2>1
  <2>3. Holding(<<"data", Len(c) + 1 - k>>, c[k].data) \in Datas(c) BY <1>2 DEF Datas
  <2> QED BY <2>2, <2>3
<1>5. Holding(<<"data", Len(q) + 1>>, x.data) \in Datas(c)
  <2>1. Holding(<<"data", Len(c) + 1 - 1>>, c[1].data) \in Datas(c) BY <1>2 DEF Datas
  <2>2. Len(c) + 1 - 1 = Len(q) + 1 BY <1>1, <1>2
  <2> QED BY <1>1, <2>1, <2>2
<1>6. Datas(q) \subseteq Datas(c) BY <1>2, <1>4 DEF Datas
<1> QED BY <1>3, <1>5, <1>6 DEF c

\* Records at the same places are held the same, whatever they name.
LEMMA RecordsSame ==
    ASSUME NEW q, NEW c, DOMAIN c = DOMAIN q, Len(c) = Len(q), \A k \in DOMAIN q : c[k].at = q[k].at, NEW kind
    PROVE  Records(kind, c) = Records(kind, q)
BY DEF Records

\* So are data at the same places.
LEMMA DatasSame ==
    ASSUME NEW q, NEW c, DOMAIN c = DOMAIN q, Len(c) = Len(q), \A k \in DOMAIN q : c[k].data = q[k].data
    PROVE  Datas(c) = Datas(q)
BY DEF Datas

\* A new record for an area new on the heap.
LEMMA LargePrepend ==
    ASSUME NEW l \in Seq(LargeRecords), NEW hp, LargeOK(l, hp), NEW x \in LargeRecords, x.alloc \notin hp, x.alloc # 0
    PROVE  LargeOK(Prepend(x, l), hp \cup {x.alloc})
<1> DEFINE c == Prepend(x, l)
<1>0. c \in Seq(LargeRecords) /\ DOMAIN c = 1 .. Len(l) + 1 BY Prepended
<1>1. Len(c) = Len(l) + 1 /\ c[1] = x /\ \A k \in 2 .. Len(l) + 1 : c[k] = l[k - 1] BY Prepended
<1> HIDE DEF c
<1>2. Len(l) \in Nat /\ 1 \in 1 .. Len(l) + 1 /\ DOMAIN c = 1 .. Len(l) + 1 /\ DOMAIN l = 1 .. Len(l) BY <1>0
<1>3. \A k \in DOMAIN c : k = 1 \/ \E j \in DOMAIN l : k = j + 1 /\ c[k] = l[j]
  <2> SUFFICES ASSUME NEW k \in 2 .. Len(l) + 1 PROVE \E j \in DOMAIN l : k = j + 1 /\ c[k] = l[j] BY <1>2
  <2>1. k - 1 \in DOMAIN l /\ k = (k - 1) + 1 /\ c[k] = l[k - 1] BY <1>1, <1>2
  <2> QED BY <2>1
<1>4. \A j \in DOMAIN l : j + 1 \in DOMAIN c /\ c[j + 1] = l[j]
  <2> SUFFICES ASSUME NEW j \in 1 .. Len(l) PROVE j + 1 \in DOMAIN c /\ c[j + 1] = l[j] BY <1>2
  <2>1. j + 1 \in 2 .. Len(l) + 1 /\ (j + 1) - 1 = j BY <1>2
  <2> QED BY <1>1, <1>2, <2>1
<1>5. \A j \in DOMAIN l : l[j].alloc = 0 \/ l[j].alloc \in hp BY DEF LargeOK
<1>6. {c[k].alloc : k \in DOMAIN c} = {l[k].alloc : k \in DOMAIN l} \cup {x.alloc}
  <2>1. \A k \in DOMAIN c : c[k].alloc \in {l[j].alloc : j \in DOMAIN l} \cup {x.alloc} BY <1>1, <1>3
  <2>2. \A j \in DOMAIN l : l[j].alloc \in {c[k].alloc : k \in DOMAIN c} BY <1>4
  <2>3. x.alloc \in {c[k].alloc : k \in DOMAIN c} BY <1>1, <1>2
  <2> QED BY <2>1, <2>2, <2>3
<1>7. hp \cup {x.alloc} = {c[k].alloc : k \in DOMAIN c} \ {0} BY <1>6 DEF LargeOK
<1>8. ASSUME NEW j \in DOMAIN c, NEW k \in DOMAIN c, c[j].alloc = c[k].alloc, c[k].alloc # 0 PROVE j = k
  <2>1. CASE j = 1 /\ k = 1 BY <2>1
  <2>2. CASE j = 1 /\ k # 1 BY <1>1, <1>3, <1>5, <1>8, <2>2
  <2>3. CASE j # 1 /\ k = 1 BY <1>1, <1>3, <1>5, <1>8, <2>3
  <2>4. CASE j # 1 /\ k # 1
    <3>1. PICK j1 \in DOMAIN l : j = j1 + 1 /\ c[j] = l[j1] BY <1>3, <2>4
    <3>2. PICK k1 \in DOMAIN l : k = k1 + 1 /\ c[k] = l[k1] BY <1>3, <2>4
    <3>3. j1 = k1 BY <1>8, <3>1, <3>2 DEF LargeOK
    <3> QED BY <3>1, <3>2, <3>3
  <2> QED BY <2>1, <2>2, <2>3, <2>4
<1>9. LargeOK(c, hp \cup {x.alloc}) BY <1>7, <1>8 DEF LargeOK
<1> QED BY <1>9 DEF c

\* The types of the fields of a large record.
LEMMA LargeTypes ==
    ASSUME NEW l \in Seq(LargeRecords), NEW k \in DOMAIN l
    PROVE  l[k] \in LargeRecords /\ l[k].at \in Regions /\ l[k].alloc \in Nat
<1>1. l[k] \in LargeRecords OBVIOUS
<1> QED BY <1>1 DEF LargeRecords

\* Naming another area leaves a large record where it is.
LEMMA LargeRenamed ==
    ASSUME NEW x \in LargeRecords, NEW n \in Nat
    PROVE  /\ [x EXCEPT !.alloc = n] \in LargeRecords /\ [x EXCEPT !.alloc = n].alloc = n
           /\ [x EXCEPT !.alloc = n].at = x.at
BY DEF LargeRecords

\* The same records at the same places, whatever areas they name.
Kept(c, l) == Len(c) = Len(l) /\ DOMAIN c = DOMAIN l /\ \A k \in DOMAIN l : c[k].at = l[k].at

\* l with its record i for the area id.
Renamed(l, i, id) == [l EXCEPT ![i] = [l[i] EXCEPT !.alloc = id]]

\* A free record takes a new area.
LEMMA LargeReuse ==
    ASSUME NEW l \in Seq(LargeRecords), NEW hp, LargeOK(l, hp), NEW i, i \in DOMAIN l, l[i].alloc = 0,
           NEW id \in Nat \ {0}, id \notin hp
    PROVE  LET c == Renamed(l, i, id)
           IN  c \in Seq(LargeRecords) /\ LargeOK(c, hp \cup {id}) /\ Kept(c, l)
<1> DEFINE x == [l[i] EXCEPT !.alloc = id]
           c == [l EXCEPT ![i] = x]
<1>1. x \in LargeRecords /\ x.alloc = id /\ x.at = l[i].at BY LargeTypes, LargeRenamed
<1> HIDE DEF x
<1>2. /\ c \in Seq(LargeRecords) /\ Len(c) = Len(l) /\ DOMAIN c = DOMAIN l
      /\ c[i] = x /\ \A k \in DOMAIN l : k # i => c[k] = l[k]
  BY <1>1
<1> HIDE DEF c
<1>3. \A k \in DOMAIN l : c[k].at = l[k].at BY <1>1, <1>2
<1>4. \A k \in DOMAIN l : k # i => c[k].alloc = l[k].alloc BY <1>2
<1>5. c[i].alloc = id BY <1>1, <1>2
<1>6. \A k \in DOMAIN l : l[k].alloc = 0 \/ l[k].alloc \in hp BY DEF LargeOK
<1>7. {c[k].alloc : k \in DOMAIN c} \ {0} = hp \cup {id}
  <2>1. ASSUME NEW k \in DOMAIN l, c[k].alloc # 0 PROVE c[k].alloc \in hp \cup {id} BY <1>4, <1>5, <1>6, <2>1
  <2>2. ASSUME NEW a \in hp PROVE a \in {c[k].alloc : k \in DOMAIN c} \ {0}
    <3>1. PICK k \in DOMAIN l : a = l[k].alloc BY DEF LargeOK
    <3>2. a # 0 BY DEF LargeOK
    <3>3. k # i BY <3>1, <3>2
    <3>4. a = c[k].alloc BY <1>4, <3>1, <3>3
    <3> QED BY <1>2, <3>2, <3>4
  <2>3. id \in {c[k].alloc : k \in DOMAIN c} \ {0} BY <1>2, <1>5
  <2>4. {c[k].alloc : k \in DOMAIN c} \ {0} \subseteq hp \cup {id} BY <1>2, <2>1
  <2> QED BY <2>2, <2>3, <2>4
<1>8. \A j, k \in DOMAIN c : c[j].alloc = c[k].alloc /\ c[k].alloc # 0 => j = k
  BY <1>2, <1>4, <1>5, <1>6 DEF LargeOK
<1>9. LargeOK(c, hp \cup {id}) BY <1>7, <1>8 DEF LargeOK
<1> QED BY <1>2, <1>3, <1>9 DEF c, x, Renamed, Kept

\* l with no record for the area id.
Forgotten(l, id) == [k \in DOMAIN l |-> IF l[k].alloc = id THEN [l[k] EXCEPT !.alloc = 0] ELSE l[k]]

\* A record gives up its area.
LEMMA LargeForget ==
    ASSUME NEW l \in Seq(LargeRecords), NEW hp, LargeOK(l, hp), NEW id \in Nat \ {0}
    PROVE  LET c == Forgotten(l, id)
           IN  c \in Seq(LargeRecords) /\ LargeOK(c, hp \ {id}) /\ Kept(c, l)
<1> DEFINE c == [k \in DOMAIN l |-> IF l[k].alloc = id THEN [l[k] EXCEPT !.alloc = 0] ELSE l[k]]
<1>1. ASSUME NEW k \in DOMAIN l
      PROVE  /\ c[k] \in LargeRecords /\ c[k].at = l[k].at
             /\ c[k].alloc = IF l[k].alloc = id THEN 0 ELSE l[k].alloc
  <2>1. PICK x \in LargeRecords : x = l[k] BY LargeTypes
  <2>2. [x EXCEPT !.alloc = 0] \in LargeRecords /\ [x EXCEPT !.alloc = 0].alloc = 0 /\ [x EXCEPT !.alloc = 0].at = x.at
    BY LargeRenamed
  <2>3. c[k] = IF x.alloc = id THEN [x EXCEPT !.alloc = 0] ELSE x BY <2>1
  <2> HIDE DEF c
  <2>4. CASE x.alloc = id BY <2>1, <2>2, <2>3, <2>4
  <2>5. CASE x.alloc # id BY <2>1, <2>3, <2>5
  <2> QED BY <2>4, <2>5
<1>2. DOMAIN c = 1 .. Len(l) /\ c = [k \in 1 .. Len(l) |-> c[k]] /\ Len(l) \in Nat /\ DOMAIN l = 1 .. Len(l) OBVIOUS
<1> HIDE DEF c
<1>3. c \in Seq(LargeRecords) /\ Len(c) = Len(l) BY <1>1, <1>2
<1>4. {c[k].alloc : k \in DOMAIN c} \ {0} = hp \ {id}
  <2>1. ASSUME NEW k \in DOMAIN l, c[k].alloc # 0 PROVE c[k].alloc \in hp \ {id} BY <1>1, <2>1 DEF LargeOK
  <2>2. ASSUME NEW a \in hp \ {id} PROVE a \in {c[k].alloc : k \in DOMAIN c} \ {0}
    <3>1. PICK k \in DOMAIN l : a = l[k].alloc BY DEF LargeOK
    <3>2. a # 0 BY DEF LargeOK
    <3>3. a = c[k].alloc BY <1>1, <3>1
    <3> QED BY <1>2, <3>2, <3>3
  <2>3. {c[k].alloc : k \in DOMAIN c} \ {0} \subseteq hp \ {id} BY <1>2, <2>1
  <2> QED BY <2>2, <2>3
<1>5. \A j, k \in DOMAIN c : c[j].alloc = c[k].alloc /\ c[k].alloc # 0 => j = k
  BY <1>1, <1>2 DEF LargeOK
<1>6. LargeOK(c, hp \ {id}) BY <1>4, <1>5 DEF LargeOK
<1> QED BY <1>1, <1>2, <1>3, <1>6 DEF c, Forgotten, Kept

-----------------------------------------------------------------------------
\* The addresses of large areas.
Ids == 1 .. MaxLarge + 1
Area(id) == [b |-> 0, lo |-> id, hi |-> id]

\* The region that stands for a large area.
LEMMA AreaFields ==
    ASSUME NEW id
    PROVE  /\ Area(id).b = 0 /\ Area(id).lo = id /\ Area(id).hi = id
           /\ id \in Nat => Area(id) \in Regions
           /\ id # 0 => Area(id) # Null /\ Heap(Area(id)) = {id}
<1>1. Area(id).b = 0 /\ Area(id).lo = id /\ Area(id).hi = id BY DEF Area
<1>2. id \in Nat => Area(id) \in Regions BY DEF Area, Regions
<1>3. Null.lo = 0 BY DEF Null
<1>4. id # 0 => Area(id) # Null BY <1>1, <1>3
<1> QED BY <1>1, <1>2, <1>4 DEF Heap

\* An area new on the heap is nobody's.
LEMMA AreaPlaced ==
    ASSUME NEW H, NEW bs, NEW hp, Placed(H, bs, hp), NEW id \in Nat \ {0}, id \notin hp, NEW t
    PROVE  Placed(H \cup {Holding(t, Area(id))}, bs, hp \cup {id})
<1>1. Placed(H, bs, hp \cup {id}) BY DEF Placed, Inside
<1>2. Inside(Area(id), bs, hp \cup {id}) BY AreaFields DEF Inside
<1>3. ASSUME NEW h \in H, h.at # Null PROVE Apart(h.at, Area(id))
  <2>1. Inside(h.at, bs, hp) BY <1>3 DEF Placed
  <2>2. h.at # Area(id)
    <3> SUFFICES ASSUME h.at = Area(id) PROVE FALSE OBVIOUS
    <3>1. h.at.b = 0 /\ h.at.lo = id BY AreaFields
    <3> QED BY <2>1, <3>1 DEF Inside
  <2> QED BY <2>2, AreaFields DEF Apart
<1> QED BY <1>1, <1>2, <1>3, PlacedAdds

\* What every way of allocating from the pool p leaves behind: the blocks are
\* in order, the records and the heap agree, and a holder of what was returned
\* has it for itself.  U is what is held by others than the pool.
Sound(r, p, U, hp, size) ==
    /\ BlocksOK(r.pool) /\ r.pool.cleanup = p.cleanup
    /\ LargeOK(r.pool.large, hp \cup Heap(r.at)) /\ hp \cup Heap(r.at) \subseteq Ids
    /\ r.at \in Regions
    /\ r.at.b # 0 => r.at.hi - r.at.lo = size
    /\ \A t : Placed(PoolHeld(r.pool) \cup U \cup {Holding(t, r.at)}, r.pool.blocks, hp \cup Heap(r.at))

\* A small allocation leaves the large records and the heap as they were.
LEMMA GivenSound ==
    ASSUME NEW r, NEW p, NEW U, NEW hp, NEW size, SmallOK(r, p, PoolHeld(p) \cup U, hp, size),
           LargeOK(p.large, hp), hp \subseteq Ids
    PROVE  Sound(r, p, U, hp, size) /\ Heap(r.at) = {}
<1>1. Null.b = 0 BY DEF Null
<1>2. Heap(r.at) = {} BY <1>1 DEF SmallOK, Heap
<1>3. PoolHeld(r.pool) = PoolHeld(p) BY DEF SmallOK, PoolHeld
<1>4. hp \cup Heap(r.at) = hp BY <1>2
<1>5. r.at.b # 0 => r.at # Null BY <1>1
<1>6. \A t : Placed(PoolHeld(r.pool) \cup U \cup {Holding(t, r.at)}, r.pool.blocks, hp) BY <1>3 DEF SmallOK
<1> QED BY <1>2, <1>4, <1>5, <1>6 DEF SmallOK, Sound

\* A large area whose record is new, or NULL when there is no room for one.
LEMMA RegisterSound ==
    ASSUME NEW p, NEW U, NEW hp, BlocksOK(p), LargeOK(p.large, hp), hp \subseteq Ids,
           Placed(PoolHeld(p) \cup U, p.blocks, hp), NEW id \in Ids, id \notin hp, NEW oom, NEW size
    PROVE  Sound(Register(p, id, oom), p, U, hp, size)
<1> DEFINE r == PallocSmall(p, RecordSize, TRUE, oom)
           x == [at |-> r.at, alloc |-> id]
           l == Prepend(x, r.pool.large)
           q == PoolOf(r.pool.blocks, r.pool.current, l, r.pool.cleanup)
           s == [pool |-> q, at |-> Area(id)]
<1>1. SmallOK(r, p, PoolHeld(p) \cup U, hp, RecordSize)
  <2>1. RecordSize \in Nat \ {0} /\ RecordSize <= Max_ BY MemoryPoolAssumption DEF Max_
  <2> QED BY <2>1, SmallGiven
<1>2. CASE r.at = Null
  <2>1. Register(p, id, oom) = r BY <1>2 DEF Register
  <2> HIDE DEF r
  <2>2. SmallOK(r, p, PoolHeld(p) \cup U, hp, size) BY <1>1, <1>2 DEF SmallOK
  <2> QED BY <2>1, <2>2, GivenSound
<1>3. CASE r.at # Null
  <2>1. Register(p, id, oom) = [pool |-> [r.pool EXCEPT !.large = <<x>> \o @], at |-> Area(id)]
    BY <1>3 DEF Register, Area
  <2> HIDE DEF r
  <2>2. BlocksOK(r.pool) /\ r.pool.large = p.large /\ r.pool.cleanup = p.cleanup /\ r.at \in Regions BY <1>1 DEF SmallOK
  <2>3. /\ IsPool(r.pool) /\ FillOK(r.pool.blocks) /\ r.pool.blocks \in Seq(BlockRecords) /\ r.pool.current \in 1 .. Len(r.pool.blocks)
        /\ r.pool.cleanup \in Seq(CleanupRecords) /\ p.large \in Seq(LargeRecords)
    BY <2>2 DEF BlocksOK, IsPool
  <2>4. id \in Nat \ {0} BY MemoryPoolAssumption DEF Ids
  <2>5. x \in LargeRecords /\ x.at = r.at /\ x.alloc = id BY <2>2, <2>4 DEF LargeRecords
  <2>6. [r.pool EXCEPT !.large = <<x>> \o @] = q BY <2>3, SetLarge DEF Prepend
  <2> HIDE DEF x
  <2>7. l \in Seq(LargeRecords) /\ LargeOK(l, hp \cup {id}) BY <2>2, <2>3, <2>4, <2>5, Prepended, LargePrepend
  <2>8. Records("large", l) = Records("large", p.large) \cup {Holding(<<"large", Len(p.large) + 1>>, r.at)}
    BY <2>2, <2>3, <2>5, RecordsPrepend
  <2> HIDE DEF l
  <2>9. IsPool(q) /\ q.blocks = r.pool.blocks /\ q.large = l /\ q.cleanup = p.cleanup BY <2>2, <2>3, <2>7, PoolFields
  <2> HIDE DEF q
  <2>10. PoolHeld(q) = PoolHeld(p) \cup {Holding(<<"large", Len(p.large) + 1>>, r.at)} BY <2>8, <2>9 DEF PoolHeld
  <2>11. Placed(PoolHeld(p) \cup U \cup {Holding(<<"large", Len(p.large) + 1>>, r.at)}, q.blocks, hp)
    BY <1>1, <2>9 DEF SmallOK
  <2>12. PoolHeld(p) \cup U \cup {Holding(<<"large", Len(p.large) + 1>>, r.at)} = PoolHeld(q) \cup U BY <2>10
  <2>13. Placed(PoolHeld(q) \cup U, q.blocks, hp) BY <2>11, <2>12
  <2>14. ASSUME NEW t PROVE Placed(PoolHeld(q) \cup U \cup {Holding(t, Area(id))}, q.blocks, hp \cup {id})
    BY <2>4, <2>13, AreaPlaced
  <2>15. s.pool = q /\ s.at = Area(id) OBVIOUS
  <2> HIDE DEF s
  <2>16. Sound(s, p, U, hp, size)
    BY <2>3, <2>4, <2>7, <2>9, <2>14, <2>15, AreaFields DEF Sound, BlocksOK
  <2> QED BY <2>1, <2>6, <2>16 DEF s
<1> QED BY <1>2, <1>3

\* uct_palloc_large reuses a free record, or makes one.
LEMMA LargeSound ==
    ASSUME NEW p, NEW U, NEW hp, BlocksOK(p), LargeOK(p.large, hp), hp \subseteq Ids,
           Placed(PoolHeld(p) \cup U, p.blocks, hp), NEW id \in Ids, id \notin hp, NEW oom, NEW size
    PROVE  Sound(PallocLarge(p, id, oom), p, U, hp, size)
<1>1. CASE oom = "heap"
  <2>1. PallocLarge(p, id, oom) = [pool |-> p, at |-> Null] BY <1>1 DEF PallocLarge
  <2>2. SmallOK([pool |-> p, at |-> Null], p, PoolHeld(p) \cup U, hp, size) BY NullGiven
  <2> QED BY <2>1, <2>2, GivenSound
<1>2. CASE oom # "heap" /\ FreeRecords(p) = {}
  <2>1. PallocLarge(p, id, oom) = Register(p, id, oom) BY <1>2 DEF PallocLarge
  <2> QED BY <2>1, RegisterSound
<1>3. CASE oom # "heap" /\ FreeRecords(p) # {}
  <2> DEFINE i == Min(FreeRecords(p))
             c == Renamed(p.large, i, id)
             q == PoolOf(p.blocks, p.current, c, p.cleanup)
             s == [pool |-> q, at |-> Area(id)]
  <2>1. PallocLarge(p, id, oom) = [pool |-> [p EXCEPT !.large[i].alloc = id], at |-> Area(id)]
    BY <1>3 DEF PallocLarge, Area
  <2>2. /\ IsPool(p) /\ FillOK(p.blocks) /\ p.blocks \in Seq(BlockRecords) /\ p.current \in 1 .. Len(p.blocks)
        /\ p.cleanup \in Seq(CleanupRecords) /\ p.large \in Seq(LargeRecords)
    BY DEF BlocksOK, IsPool
  <2>3. i \in FreeRecords(p)
    <3>1. FreeRecords(p) \subseteq Nat BY <2>2 DEF FreeRecords
    <3> QED BY <1>3, <3>1, MinIn
  <2> HIDE DEF i
  <2>4. i \in DOMAIN p.large /\ p.large[i].alloc = 0 BY <2>3 DEF FreeRecords
  <2>5. id \in Nat \ {0} BY MemoryPoolAssumption DEF Ids
  <2>6. [p EXCEPT !.large[i].alloc = id] = q BY <2>2, SetAlloc DEF Renamed
  <2>7. c \in Seq(LargeRecords) /\ LargeOK(c, hp \cup {id}) /\ Kept(c, p.large)
    BY <2>2, <2>4, <2>5, LargeReuse
  <2> HIDE DEF c
  <2>8. IsPool(q) /\ q.blocks = p.blocks /\ q.large = c /\ q.cleanup = p.cleanup BY <2>2, <2>7, PoolFields
  <2> HIDE DEF q
  <2>9. Records("large", c) = Records("large", p.large) BY <2>7, RecordsSame DEF Kept
  <2>10. PoolHeld(q) = PoolHeld(p) BY <2>8, <2>9 DEF PoolHeld
  <2>11. ASSUME NEW t PROVE Placed(PoolHeld(q) \cup U \cup {Holding(t, Area(id))}, q.blocks, hp \cup {id})
    BY <2>5, <2>8, <2>10, AreaPlaced
  <2>12. s.pool = q /\ s.at = Area(id) OBVIOUS
  <2> HIDE DEF s
  <2>13. Sound(s, p, U, hp, size)
    BY <2>2, <2>5, <2>7, <2>8, <2>11, <2>12, AreaFields DEF Sound, BlocksOK
  <2> QED BY <2>1, <2>6, <2>13 DEF s
<1> QED BY <1>1, <1>2, <1>3

\* The system has an address for one area more.
LEMMA NewIdOK ==
    ASSUME heap \subseteq Ids, Cardinality(heap) <= MaxLarge
    PROVE  NewId \in Ids /\ NewId \notin heap
<1>1. MaxLarge \in Nat BY MemoryPoolAssumption
<1>2. Cardinality(1 .. MaxLarge + 1) = MaxLarge + 1
  <2>1. 1 \in Int /\ MaxLarge + 1 \in Int /\ ~(1 > MaxLarge + 1) /\ (MaxLarge + 1) - 1 + 1 = MaxLarge + 1 BY <1>1
  <2> QED BY <2>1, FS_Interval
<1>3. \E id \in Ids : id \notin heap
  <2> SUFFICES ASSUME heap = Ids PROVE FALSE OBVIOUS
  <2> QED BY <1>1, <1>2 DEF Ids
<1> QED BY <1>3 DEF NewId, Ids

\* uct_palloc and its relatives.
LEMMA PallocSound ==
    ASSUME NEW p, NEW U, BlocksOK(p), LargeOK(p.large, heap), heap \subseteq Ids, Cardinality(heap) <= MaxLarge,
           Placed(PoolHeld(p) \cup U, p.blocks, heap), NEW size \in Nat \ {0}, NEW align, NEW oom
    PROVE  Sound(Palloc(p, size, align, oom), p, U, heap, size)
<1>1. CASE size <= Max_
  <2>1. Palloc(p, size, align, oom) = PallocSmall(p, size, align, oom) BY <1>1 DEF Palloc
  <2>2. SmallOK(PallocSmall(p, size, align, oom), p, PoolHeld(p) \cup U, heap, size) BY <1>1, SmallGiven
  <2> QED BY <2>1, <2>2, GivenSound
<1>2. CASE ~(size <= Max_)
  <2>1. Palloc(p, size, align, oom) = PallocLarge(p, NewId, oom) BY <1>2 DEF Palloc
  <2>2. NewId \in Ids /\ NewId \notin heap BY NewIdOK
  <2> QED BY <2>1, <2>2, LargeSound
<1> QED BY <1>1, <1>2

\* A record of fixed size is always a small allocation.
LEMMA RecordSound ==
    ASSUME NEW p, NEW U, BlocksOK(p), LargeOK(p.large, heap), heap \subseteq Ids,
           Placed(PoolHeld(p) \cup U, p.blocks, heap), NEW oom
    PROVE  /\ Sound(Palloc(p, RecordSize, TRUE, oom), p, U, heap, RecordSize)
           /\ Heap(Palloc(p, RecordSize, TRUE, oom).at) = {}
<1>1. RecordSize \in Nat \ {0} /\ RecordSize <= Max_ BY MemoryPoolAssumption DEF Max_
<1>2. Palloc(p, RecordSize, TRUE, oom) = PallocSmall(p, RecordSize, TRUE, oom) BY <1>1 DEF Palloc
<1>3. SmallOK(PallocSmall(p, RecordSize, TRUE, oom), p, PoolHeld(p) \cup U, heap, RecordSize) BY <1>1, SmallGiven
<1> QED BY <1>2, <1>3, GivenSound

-----------------------------------------------------------------------------
\* The cleanup records and the open files agree, and no two records name the
\* same file.
CleanupOK(cl, f) ==
    /\ f = {cl[k].fd : k \in DOMAIN cl} \ {0}
    /\ \A j, k \in DOMAIN cl : cl[j].fd = cl[k].fd /\ cl[k].fd # 0 => j = k

\* A new cleanup record for a file that was not listed.
LEMMA CleanupPrepend ==
    ASSUME NEW l \in Seq(CleanupRecords), NEW f, CleanupOK(l, f), NEW x \in CleanupRecords, x.fd \notin f
    PROVE  CleanupOK(Prepend(x, l), f \cup ({x.fd} \ {0}))
<1> DEFINE c == Prepend(x, l)
<1>0. c \in Seq(CleanupRecords) /\ DOMAIN c = 1 .. Len(l) + 1 BY Prepended
<1>1. Len(c) = Len(l) + 1 /\ c[1] = x /\ \A k \in 2 .. Len(l) + 1 : c[k] = l[k - 1] BY Prepended
<1> HIDE DEF c
<1>2. Len(l) \in Nat /\ 1 \in 1 .. Len(l) + 1 /\ DOMAIN c = 1 .. Len(l) + 1 /\ DOMAIN l = 1 .. Len(l) BY <1>0
<1>3. \A k \in DOMAIN c : k = 1 \/ \E j \in DOMAIN l : k = j + 1 /\ c[k] = l[j]
  <2> SUFFICES ASSUME NEW k \in 2 .. Len(l) + 1 PROVE \E j \in DOMAIN l : k = j + 1 /\ c[k] = l[j] BY <1>2
  <2>1. k - 1 \in DOMAIN l /\ k = (k - 1) + 1 /\ c[k] = l[k - 1] BY <1>1, <1>2
  <2> QED BY <2>1
<1>4. \A j \in DOMAIN l : j + 1 \in DOMAIN c /\ c[j + 1] = l[j]
  <2> SUFFICES ASSUME NEW j \in 1 .. Len(l) PROVE j + 1 \in DOMAIN c /\ c[j + 1] = l[j] BY <1>2
  <2>1. j + 1 \in 2 .. Len(l) + 1 /\ (j + 1) - 1 = j BY <1>2
  <2> QED BY <1>1, <1>2, <2>1
<1>5. \A j \in DOMAIN l : l[j].fd = 0 \/ l[j].fd \in f BY DEF CleanupOK
<1>6. {c[k].fd : k \in DOMAIN c} = {l[k].fd : k \in DOMAIN l} \cup {x.fd}
  <2>1. \A k \in DOMAIN c : c[k].fd \in {l[j].fd : j \in DOMAIN l} \cup {x.fd} BY <1>1, <1>3
  <2>2. \A j \in DOMAIN l : l[j].fd \in {c[k].fd : k \in DOMAIN c} BY <1>4
  <2>3. x.fd \in {c[k].fd : k \in DOMAIN c} BY <1>1, <1>2
  <2> QED BY <2>1, <2>2, <2>3
<1>7. f \cup ({x.fd} \ {0}) = {c[k].fd : k \in DOMAIN c} \ {0} BY <1>6 DEF CleanupOK
<1>8. ASSUME NEW j \in DOMAIN c, NEW k \in DOMAIN c, c[j].fd = c[k].fd, c[k].fd # 0 PROVE j = k
  <2>1. CASE j = 1 /\ k = 1 BY <2>1
  <2>2. CASE j = 1 /\ k # 1 BY <1>1, <1>3, <1>5, <1>8, <2>2
  <2>3. CASE j # 1 /\ k = 1 BY <1>1, <1>3, <1>5, <1>8, <2>3
  <2>4. CASE j # 1 /\ k # 1
    <3>1. PICK j1 \in DOMAIN l : j = j1 + 1 /\ c[j] = l[j1] BY <1>3, <2>4
    <3>2. PICK k1 \in DOMAIN l : k = k1 + 1 /\ c[k] = l[k1] BY <1>3, <2>4
    <3>3. j1 = k1 BY <1>8, <3>1, <3>2 DEF CleanupOK
    <3> QED BY <3>1, <3>2, <3>3
  <2> QED BY <2>1, <2>2, <2>3, <2>4
<1>9. CleanupOK(c, f \cup ({x.fd} \ {0})) BY <1>7, <1>8 DEF CleanupOK
<1> QED BY <1>9 DEF c

\* cl with the file of record i closed.
Closed(cl, i) == [cl EXCEPT ![i] = [cl[i] EXCEPT !.fd = 0]]

\* A cleanup record whose handler has run no longer names its file.
LEMMA CleanupRun ==
    ASSUME NEW l \in Seq(CleanupRecords), NEW f, CleanupOK(l, f), NEW i \in DOMAIN l, l[i].fd # 0
    PROVE  LET c == Closed(l, i)
           IN  c \in Seq(CleanupRecords) /\ CleanupOK(c, f \ {l[i].fd}) /\ Kept(c, l) /\ \A k \in DOMAIN l : c[k].data = l[k].data
<1> DEFINE x == [l[i] EXCEPT !.fd = 0]
           c == [l EXCEPT ![i] = x]
<1>1. x \in CleanupRecords /\ x.fd = 0 /\ x.at = l[i].at /\ x.data = l[i].data
  <2>1. PICK y \in CleanupRecords : y = l[i] OBVIOUS
  <2>2. /\ [y EXCEPT !.fd = 0] \in CleanupRecords /\ [y EXCEPT !.fd = 0].fd = 0
        /\ [y EXCEPT !.fd = 0].at = y.at /\ [y EXCEPT !.fd = 0].data = y.data
    BY DEF CleanupRecords
  <2> QED BY <2>1, <2>2
<1> HIDE DEF x
<1>2. /\ c \in Seq(CleanupRecords) /\ Len(c) = Len(l) /\ DOMAIN c = DOMAIN l
      /\ c[i] = x /\ \A k \in DOMAIN l : k # i => c[k] = l[k]
  BY <1>1
<1> HIDE DEF c
<1>3. \A k \in DOMAIN l : c[k].at = l[k].at /\ c[k].data = l[k].data BY <1>1, <1>2
<1>4. \A k \in DOMAIN l : k # i => c[k].fd = l[k].fd BY <1>2
<1>5. c[i].fd = 0 BY <1>1, <1>2
<1>6. {c[k].fd : k \in DOMAIN c} \ {0} = f \ {l[i].fd}
  <2>1. ASSUME NEW k \in DOMAIN l, c[k].fd # 0 PROVE c[k].fd \in f \ {l[i].fd}
    <3>1. k # i /\ c[k].fd = l[k].fd BY <1>4, <1>5, <2>1
    <3>2. l[k].fd # l[i].fd BY <3>1 DEF CleanupOK
    <3> QED BY <2>1, <3>1, <3>2 DEF CleanupOK
  <2>2. ASSUME NEW a \in f \ {l[i].fd} PROVE a \in {c[k].fd : k \in DOMAIN c} \ {0}
    <3>1. PICK k \in DOMAIN l : a = l[k].fd BY DEF CleanupOK
    <3>2. a # 0 /\ k # i BY <3>1 DEF CleanupOK
    <3>3. a = c[k].fd BY <1>4, <3>1, <3>2
    <3> QED BY <1>2, <3>2, <3>3
  <2>3. {c[k].fd : k \in DOMAIN c} \ {0} \subseteq f \ {l[i].fd} BY <1>2, <2>1
  <2> QED BY <2>2, <2>3
<1>7. \A j, k \in DOMAIN c : c[j].fd = c[k].fd /\ c[k].fd # 0 => j = k BY <1>2, <1>4, <1>5 DEF CleanupOK
<1>8. CleanupOK(c, f \ {l[i].fd}) BY <1>6, <1>7 DEF CleanupOK
<1> QED BY <1>2, <1>3, <1>8 DEF c, x, Closed, Kept

-----------------------------------------------------------------------------
Arrays == [at : Regions, elts : Regions, nelts : Nat, nalloc : Nat]
Parts == [rec : Regions, at : Regions, nelts : Nat]
Lists == [at : Regions, parts : Seq(Parts)]

\* An array has room for its elements.
ArrayOK(a) == a \in Arrays /\ a.nelts <= a.nalloc /\ (a.elts.b # 0 => a.elts.hi - a.elts.lo = a.nalloc)

\* A list that has been created has a part.
ListOK(l) == l \in Lists /\ (l = NoList \/ l.parts # <<>>)

\* What is held by others than the pool.
Others(m, a, l) == UserHeld(m) \cup ArrayHeld(a) \cup ListHeld(l)

\* The invariant, of the values of the variables.
WellHeld(p, m, hp, f, a, l) ==
    /\ BlocksOK(p)
    /\ LargeOK(p.large, hp) /\ hp \subseteq Ids
    /\ CleanupOK(p.cleanup, f)
    /\ m \subseteq Regions \ {Null}
    /\ ArrayOK(a) /\ ListOK(l)
    /\ Placed(PoolHeld(p) \cup Others(m, a, l), p.blocks, hp)

\* The inductive invariant.
PoolInv == misuse = FALSE /\ WellHeld(pool, mine, heap, files, array, list)

\* The last allocation of a call, and who holds what after it.
LEMMA Received ==
    ASSUME NEW r, NEW p, NEW V, NEW hp, NEW size, Sound(r, p, V, hp, size), NEW f, CleanupOK(p.cleanup, f),
           NEW m, m \subseteq Regions \ {Null}, NEW a, ArrayOK(a), NEW l, ListOK(l),
           NEW t, \A h \in Others(m, a, l) : h \in V \cup {Holding(t, r.at)} \/ h.at = Null
    PROVE  WellHeld(r.pool, m, hp \cup Heap(r.at), f, a, l)
<1>1. Placed(PoolHeld(r.pool) \cup V \cup {Holding(t, r.at)}, r.pool.blocks, hp \cup Heap(r.at)) BY DEF Sound
<1>2. \A h \in PoolHeld(r.pool) \cup Others(m, a, l) : h \in PoolHeld(r.pool) \cup V \cup {Holding(t, r.at)} \/ h.at = Null
  OBVIOUS
<1>3. Placed(PoolHeld(r.pool) \cup Others(m, a, l), r.pool.blocks, hp \cup Heap(r.at)) BY <1>1, <1>2, PlacedSubset
<1> QED BY <1>3 DEF Sound, WellHeld

\* A record and then what it describes.
LEMMA TwoSound ==
    ASSUME NEW p, NEW U, BlocksOK(p), LargeOK(p.large, heap), heap \subseteq Ids, Cardinality(heap) <= MaxLarge,
           Placed(PoolHeld(p) \cup U, p.blocks, heap), NEW size \in Nat \ {0}, NEW oom, NEW t
    PROVE  LET a == Palloc(p, RecordSize, TRUE, oom)
               e == Palloc(a.pool, size, TRUE, oom)
           IN  a.at \in Regions /\ Sound(e, p, U \cup {Holding(t, a.at)}, heap, size)
<1> DEFINE a == Palloc(p, RecordSize, TRUE, oom)
           e == Palloc(a.pool, size, TRUE, oom)
           V == U \cup {Holding(t, a.at)}
<1>1. Sound(a, p, U, heap, RecordSize) /\ Heap(a.at) = {} BY RecordSound
<1> HIDE DEF a
<1>2. BlocksOK(a.pool) /\ a.pool.cleanup = p.cleanup /\ a.at \in Regions BY <1>1 DEF Sound
<1>3. heap \cup Heap(a.at) = heap BY <1>1
<1>4. LargeOK(a.pool.large, heap) /\ \A s : Placed(PoolHeld(a.pool) \cup U \cup {Holding(s, a.at)}, a.pool.blocks, heap)
  BY <1>1, <1>3 DEF Sound
<1>5. PoolHeld(a.pool) \cup U \cup {Holding(t, a.at)} = PoolHeld(a.pool) \cup V OBVIOUS
<1>6. Placed(PoolHeld(a.pool) \cup V, a.pool.blocks, heap) BY <1>4, <1>5
<1> HIDE DEF V
<1>7. Sound(e, a.pool, V, heap, size) BY <1>2, <1>4, <1>6, PallocSound
<1> HIDE DEF e
<1>8. Sound(e, p, V, heap, size) BY <1>2, <1>7 DEF Sound
<1> QED BY <1>2, <1>8 DEF a, e, V

\* Two records of fixed size.
LEMMA TwoRecords ==
    ASSUME NEW p, NEW U, BlocksOK(p), LargeOK(p.large, heap), heap \subseteq Ids,
           Placed(PoolHeld(p) \cup U, p.blocks, heap), NEW oom, NEW t
    PROVE  LET a == Palloc(p, RecordSize, TRUE, oom)
               e == Palloc(a.pool, RecordSize, TRUE, oom)
           IN  /\ a.at \in Regions /\ Heap(e.at) = {}
               /\ Sound(e, p, U \cup {Holding(t, a.at)}, heap, RecordSize)
<1> DEFINE a == Palloc(p, RecordSize, TRUE, oom)
           e == Palloc(a.pool, RecordSize, TRUE, oom)
           V == U \cup {Holding(t, a.at)}
<1>1. Sound(a, p, U, heap, RecordSize) /\ Heap(a.at) = {} BY RecordSound
<1> HIDE DEF a
<1>2. BlocksOK(a.pool) /\ a.pool.cleanup = p.cleanup /\ a.at \in Regions BY <1>1 DEF Sound
<1>3. heap \cup Heap(a.at) = heap BY <1>1
<1>4. LargeOK(a.pool.large, heap) /\ \A s : Placed(PoolHeld(a.pool) \cup U \cup {Holding(s, a.at)}, a.pool.blocks, heap)
  BY <1>1, <1>3 DEF Sound
<1>5. PoolHeld(a.pool) \cup U \cup {Holding(t, a.at)} = PoolHeld(a.pool) \cup V OBVIOUS
<1>6. Placed(PoolHeld(a.pool) \cup V, a.pool.blocks, heap) BY <1>4, <1>5
<1> HIDE DEF V
<1>7. Sound(e, a.pool, V, heap, RecordSize) /\ Heap(e.at) = {} BY <1>2, <1>4, <1>6, RecordSound
<1> HIDE DEF e
<1>8. Sound(e, p, V, heap, RecordSize) BY <1>2, <1>7 DEF Sound
<1> QED BY <1>2, <1>7, <1>8 DEF a, e, V

-----------------------------------------------------------------------------
\* bs with n as the last pointer of the first block.
WithLast(bs, n) == [bs EXCEPT ![1] = [bs[1] EXCEPT !.last = n]]

\* The first block with another last pointer.
LEMMA FirstBlock ==
    ASSUME NEW bs \in Seq(BlockRecords), 1 \in 1 .. Len(bs), NEW n \in Nat
    PROVE  /\ WithLast(bs, n) \in Seq(BlockRecords) /\ Len(WithLast(bs, n)) = Len(bs) /\ WithLast(bs, n)[1].last = n
           /\ \A b \in 1 .. Len(bs) : b # 1 => WithLast(bs, n)[b] = bs[b]
           /\ \A k : WithLast(WithLast(bs, n), k) = WithLast(bs, k)
<1>1. PICK y \in BlockRecords : y = bs[1] BY BlockTypes
<1>2. PICK x \in BlockRecords : x = [y EXCEPT !.last = n] /\ x.last = n BY BlockFilled
<1>3. PICK cs : cs = [bs EXCEPT ![1] = x] OBVIOUS
<1>4. cs \in Seq(BlockRecords) /\ Len(cs) = Len(bs) /\ cs[1] = x /\ \A b \in 1 .. Len(bs) : b # 1 => cs[b] = bs[b] BY <1>3
<1>5. WithLast(bs, n) = cs BY <1>1, <1>2, <1>3 DEF WithLast
<1>6. ASSUME NEW k PROVE WithLast(cs, k) = WithLast(bs, k)
  <2>1. [x EXCEPT !.last = k] = [y EXCEPT !.last = k] BY <1>2 DEF BlockRecords
  <2>2. WithLast(cs, k) = [cs EXCEPT ![1] = [x EXCEPT !.last = k]] BY <1>4 DEF WithLast
  <2>3. WithLast(bs, k) = [bs EXCEPT ![1] = [y EXCEPT !.last = k]] BY <1>1 DEF WithLast
  <2>4. \A z : [cs EXCEPT ![1] = z] = [bs EXCEPT ![1] = z] BY <1>3
  <2> QED BY <2>1, <2>2, <2>3, <2>4
<1> QED BY <1>2, <1>4, <1>5, <1>6

\* The holder of the end of the first block lets it go.
LEMMA Lowered ==
    ASSUME NEW bs \in Seq(BlockRecords), 1 \in 1 .. Len(bs), FillOK(bs), NEW H, NEW g, g \notin H, NEW hp,
           Placed(H \cup {g}, bs, hp),
           NEW n, n = IF g.at.b = 1 /\ g.at.hi = bs[1].last THEN g.at.lo ELSE bs[1].last
    PROVE  n \in Nat /\ FillOK(WithLast(bs, n)) /\ Placed(H, WithLast(bs, n), hp)
<1>0. bs[1].last \in Nat /\ Begin(1) \in Nat /\ Begin(1) <= bs[1].last /\ bs[1].last <= PoolSize /\ PoolSize \in Nat
  BY BlockTypes, MemoryPoolAssumption DEF FillOK, Begin
<1>1. CASE g.at.b = 1 /\ g.at.hi = bs[1].last
  <2>1. n = g.at.lo /\ g.at # Null
    <3>1. Null.b = 0 BY DEF Null
    <3> QED BY <1>1, <3>1
  <2>2. Inside(g.at, bs, hp) BY <2>1 DEF Placed
  <2>3. n \in Nat /\ Begin(1) <= n /\ n < bs[1].last BY <1>1, <2>1, <2>2 DEF Inside, Regions
  <2> DEFINE cs == WithLast(bs, n)
  <2>4. cs \in Seq(BlockRecords) /\ Len(cs) = Len(bs) /\ cs[1].last = n /\ \A b \in 1 .. Len(bs) : b # 1 => cs[b] = bs[b]
    BY <2>3, FirstBlock
  <2> HIDE DEF cs
  <2>5. FillOK(cs)
    <3>1. ASSUME NEW b \in 1 .. Len(bs) PROVE Begin(b) <= cs[b].last /\ cs[b].last <= PoolSize
      <4>1. CASE b = 1 BY <1>0, <2>3, <2>4, <4>1
      <4>2. CASE b # 1 BY <2>4, <4>2 DEF FillOK
      <4> QED BY <4>1, <4>2
    <3> QED BY <2>4, <3>1 DEF FillOK
  <2>6. ASSUME NEW h \in H, h.at # Null PROVE Inside(h.at, cs, hp)
    <3>1. Inside(h.at, bs, hp) /\ Apart(h.at, g.at) BY <2>1, <2>6 DEF Placed
    <3>2. h.at.b \in Nat /\ h.at.lo \in Nat /\ h.at.hi \in Nat BY <3>1 DEF Inside, Regions
    <3>3. CASE h.at.b = 0 BY <3>1, <3>3 DEF Inside
    <3>4. CASE h.at.b = 1
      <4>1. h.at.lo < h.at.hi /\ h.at.hi <= bs[1].last /\ Begin(1) <= h.at.lo /\ 1 <= Len(bs) BY <3>1, <3>4 DEF Inside
      <4>2. h.at.hi <= g.at.lo \/ g.at.hi <= h.at.lo BY <1>1, <3>1, <3>4 DEF Apart
      <4>3. h.at.hi <= n BY <1>0, <1>1, <2>1, <3>2, <4>1, <4>2
      <4> QED BY <2>4, <3>1, <3>4, <4>1, <4>3 DEF Inside
    <3>5. CASE h.at.b # 0 /\ h.at.b # 1
      <4>1. h.at.b \in 1 .. Len(bs) BY <3>1, <3>2, <3>5 DEF Inside
      <4>2. cs[h.at.b] = bs[h.at.b] BY <2>4, <3>5, <4>1
      <4> QED BY <2>4, <3>1, <4>2 DEF Inside
    <3> QED BY <3>3, <3>4, <3>5
  <2>7. Placed(H, cs, hp) BY <2>6 DEF Placed
  <2> QED BY <2>3, <2>5, <2>7 DEF cs
<1>2. CASE ~(g.at.b = 1 /\ g.at.hi = bs[1].last)
  <2>1. n = bs[1].last /\ n \in Nat BY <1>0, <1>2
  <2> DEFINE cs == WithLast(bs, n)
  <2>2. cs \in Seq(BlockRecords) /\ Len(cs) = Len(bs) /\ \A b \in 1 .. Len(bs) : cs[b].last = bs[b].last
    BY <2>1, FirstBlock
  <2> HIDE DEF cs
  <2>3. FillOK(cs) BY <2>2 DEF FillOK
  <2>4. Placed(H, bs, hp) BY PlacedSubset
  <2>5. \A b \in 1 .. Len(bs) : bs[b].last <= cs[b].last
    <3>1. \A b \in 1 .. Len(bs) : bs[b].last \in Nat BY BlockTypes
    <3> QED BY <2>2, <3>1
  <2>6. Placed(H, cs, hp) BY <2>2, <2>4, <2>5, PlacedGrows
  <2> QED BY <2>1, <2>3, <2>6 DEF cs
<1> QED BY <1>1, <1>2

\* The holder of the end of the first block takes n bytes more.
LEMMA Grown ==
    ASSUME NEW bs \in Seq(BlockRecords), 1 \in 1 .. Len(bs), FillOK(bs), NEW H, NEW t, NEW r, NEW hp,
           Holding(t, r) \notin H, Placed(H \cup {Holding(t, r)}, bs, hp), r \in Regions,
           r.b = 1, r.hi = bs[1].last, NEW n \in Nat, bs[1].last + n <= PoolSize,
           NEW s \in Regions, s.b = 1, s.lo = r.lo, s.hi = r.hi + n
    PROVE  FillOK(WithLast(bs, r.hi + n)) /\ Placed(H \cup {Holding(t, s)}, WithLast(bs, r.hi + n), hp)
<1> DEFINE g == Holding(t, r)
           cs == WithLast(bs, r.lo)
           ds == WithLast(bs, r.hi + n)
<1>0. r.lo \in Nat /\ r.hi \in Nat /\ r.hi + n \in Nat /\ Begin(1) \in Nat /\ PoolSize \in Nat
  BY MemoryPoolAssumption DEF Regions, Begin
<1>1. g.at = r BY DEF Holding
<1> HIDE DEF g
<1>2. r.lo = IF g.at.b = 1 /\ g.at.hi = bs[1].last THEN g.at.lo ELSE bs[1].last BY <1>1
<1>3. g \notin H /\ Placed(H \cup {g}, bs, hp) BY DEF g
<1>4. Placed(H, cs, hp) BY <1>2, <1>3, Lowered
<1>5. Inside(r, bs, hp)
  <2>1. r # Null BY DEF Null
  <2> QED BY <1>1, <1>3, <2>1 DEF Placed
<1>6. Begin(1) <= r.lo /\ r.lo < r.hi BY <1>5 DEF Inside
<1>7. cs \in Seq(BlockRecords) /\ Len(cs) = Len(bs) /\ cs[1].last = r.lo /\ \A b \in 1 .. Len(bs) : b # 1 => cs[b] = bs[b]
  BY <1>0, FirstBlock
<1>8. ds \in Seq(BlockRecords) /\ Len(ds) = Len(bs) /\ ds[1].last = r.hi + n /\ \A b \in 1 .. Len(bs) : b # 1 => ds[b] = bs[b]
  BY <1>0, FirstBlock
<1> HIDE DEF cs, ds
<1>9. FillOK(ds)
  <2>1. ASSUME NEW b \in 1 .. Len(bs) PROVE Begin(b) <= ds[b].last /\ ds[b].last <= PoolSize
    <3>1. CASE b = 1 BY <1>0, <1>6, <1>8, <3>1
    <3>2. CASE b # 1 BY <1>8, <3>2 DEF FillOK
    <3> QED BY <3>1, <3>2
  <2> QED BY <1>8, <2>1 DEF FillOK
<1>10. \A b \in 1 .. Len(cs) : cs[b].last <= ds[b].last
  <2>1. \A b \in 1 .. Len(bs) : bs[b].last \in Nat BY BlockTypes
  <2>2. cs[1].last <= ds[1].last BY <1>0, <1>6, <1>7, <1>8
  <2>3. \A b \in 1 .. Len(bs) : b # 1 => cs[b].last <= ds[b].last BY <1>7, <1>8, <2>1
  <2> QED BY <1>7, <2>2, <2>3
<1>11. s.b \in 1 .. Len(ds) /\ Begin(s.b) <= s.lo /\ s.lo < s.hi /\ s.hi <= ds[s.b].last /\ cs[s.b].last <= s.lo
  BY <1>0, <1>6, <1>7, <1>8
<1>12. Len(cs) <= Len(ds) BY <1>7, <1>8
<1>13. Placed(H \cup {Holding(t, s)}, ds, hp) BY <1>4, <1>7, <1>8, <1>10, <1>11, <1>12, Carved
<1> QED BY <1>9, <1>13 DEF ds


-----------------------------------------------------------------------------
\* The fields of a holding.
LEMMA HoldingFields == ASSUME NEW t, NEW r PROVE Holding(t, r).at = r /\ Holding(t, r).by = t
BY DEF Holding

\* The user takes what was allocated.
LEMMA UserTakes ==
    ASSUME NEW p, NEW m, NEW hp, NEW f, NEW a, NEW l, WellHeld(p, m, hp, f, a, l),
           NEW r, NEW size, Sound(r, p, Others(m, a, l), hp, size)
    PROVE  WellHeld(r.pool, m \cup Given(r.at), hp \cup Heap(r.at), f, a, l)
<1> DEFINE t == <<"user", r.at>>
<1>1. UserHeld(m \cup Given(r.at)) \subseteq UserHeld(m) \cup {Holding(t, r.at)} BY DEF UserHeld, Given
<1> HIDE DEF t
<1>2. Others(m \cup Given(r.at), a, l) \subseteq Others(m, a, l) \cup {Holding(t, r.at)} BY <1>1 DEF Others
<1>3. m \cup Given(r.at) \subseteq Regions \ {Null} BY DEF Given, Sound, WellHeld
<1>4. CleanupOK(p.cleanup, f) /\ ArrayOK(a) /\ ListOK(l) BY DEF WellHeld
<1> QED BY <1>2, <1>3, <1>4, Received

\* uct_pfree.
LEMMA PfreeKeeps ==
    ASSUME NEW p, NEW m, NEW hp, NEW f, NEW a, NEW l, WellHeld(p, m, hp, f, a, l), NEW r \in m, r.b = 0
    PROVE  r.lo \in hp /\ WellHeld(Forget(p, r.lo), m \ {r}, hp \ {r.lo}, f, a, l)
<1> DEFINE g == Holding(<<"user", r>>, r)
           H == PoolHeld(p) \cup Others(m \ {r}, a, l)
           c == Forgotten(p.large, r.lo)
           q == PoolOf(p.blocks, p.current, c, p.cleanup)
<1>1. /\ IsPool(p) /\ FillOK(p.blocks) /\ p.blocks \in Seq(BlockRecords) /\ p.current \in 1 .. Len(p.blocks)
      /\ p.cleanup \in Seq(CleanupRecords) /\ p.large \in Seq(LargeRecords)
  BY DEF WellHeld, BlocksOK, IsPool
<1>2. r \in Regions /\ r # Null BY DEF WellHeld
<1>3. g.at = r /\ g.by = <<"user", r>> BY HoldingFields
<1>4. g \in PoolHeld(p) \cup Others(m, a, l) BY DEF Others, UserHeld
<1>5. Inside(r, p.blocks, hp) BY <1>2, <1>3, <1>4 DEF WellHeld, Placed
<1>6. r.lo = r.hi /\ r.lo \in hp BY <1>5 DEF Inside
<1>7. H \subseteq PoolHeld(p) \cup Others(m, a, l) BY DEF Others, UserHeld
<1> HIDE DEF g, H
<1>8. g \notin H
  <2>1. ASSUME NEW kind, kind # "user", NEW n, NEW s PROVE g # Holding(<<kind, n>>, s)
    <3>1. Holding(<<kind, n>>, s).by = <<kind, n>> BY HoldingFields
    <3>2. <<kind, n>> # <<"user", r>> BY <2>1
    <3> QED BY <1>3, <3>1, <3>2
  <2>2. g \notin PoolHeld(p) BY <2>1 DEF PoolHeld, Records, Datas
  <2>3. ASSUME NEW s \in m \ {r} PROVE g # Holding(<<"user", s>>, s)
    <3>1. Holding(<<"user", s>>, s).at = s BY HoldingFields
    <3> QED BY <1>3, <3>1
  <2>4. g \notin UserHeld(m \ {r}) BY <2>3 DEF UserHeld
  <2>5. g \notin ArrayHeld(a) BY <2>1 DEF ArrayHeld
  <2>6. g \notin ListHeld(l) BY <2>1 DEF ListHeld
  <2> QED BY <2>2, <2>4, <2>5, <2>6 DEF Others, H
<1>9. Placed(H, p.blocks, hp \ {r.lo})
  <2>1. Placed(H, p.blocks, hp) BY <1>7, PlacedSubset DEF WellHeld
  <2>2. ASSUME NEW h \in H, h.at # Null PROVE Inside(h.at, p.blocks, hp \ {r.lo})
    <3>1. Inside(h.at, p.blocks, hp) BY <2>1, <2>2 DEF Placed
    <3>2. h # g BY <1>8
    <3>3. Apart(h.at, r) BY <1>2, <1>3, <1>4, <1>7, <2>2, <3>2 DEF WellHeld, Placed
    <3>4. CASE h.at.b # 0 BY <3>1, <3>4 DEF Inside
    <3>5. CASE h.at.b = 0
      <4>1. h.at # r /\ h.at \in Regions /\ h.at.lo = h.at.hi BY <3>1, <3>3, <3>5 DEF Apart, Inside
      <4>2. h.at.lo # r.lo
        <5> SUFFICES ASSUME h.at.lo = r.lo PROVE h.at = r BY <4>1
        <5>1. \A x, y \in Regions : x.b = y.b /\ x.lo = y.lo /\ x.hi = y.hi => x = y BY DEF Regions
        <5> QED BY <1>2, <1>6, <3>5, <4>1, <5>1
      <4> QED BY <3>1, <3>5, <4>2 DEF Inside
    <3> QED BY <3>4, <3>5
  <2> QED BY <2>1, <2>2 DEF Placed
<1>10. r.lo \in Nat \ {0}
  <2>1. hp \subseteq Ids BY DEF WellHeld
  <2>2. MaxLarge \in Nat BY MemoryPoolAssumption
  <2>3. \A i \in Ids : i \in Nat \ {0} BY <2>2 DEF Ids
  <2> QED BY <1>6, <2>1, <2>3
<1>11. c \in Seq(LargeRecords) /\ LargeOK(c, hp \ {r.lo}) /\ Kept(c, p.large) BY <1>1, <1>10, LargeForget DEF WellHeld
<1>12. Forget(p, r.lo) = q
  <2>1. Forget(p, r.lo) = [p EXCEPT !.large = c] BY DEF Forget, Forgotten
  <2> QED BY <1>1, <2>1, SetLarge
<1> HIDE DEF c
<1>13. IsPool(q) /\ q.blocks = p.blocks /\ q.large = c /\ q.cleanup = p.cleanup BY <1>1, <1>11, PoolFields
<1> HIDE DEF q
<1>14. PoolHeld(q) = PoolHeld(p)
  <2>1. Records("large", c) = Records("large", p.large) BY <1>11, RecordsSame DEF Kept
  <2> QED BY <1>13, <2>1 DEF PoolHeld
<1>15. Placed(PoolHeld(q) \cup Others(m \ {r}, a, l), q.blocks, hp \ {r.lo}) BY <1>9, <1>13, <1>14 DEF H
<1>16. WellHeld(q, m \ {r}, hp \ {r.lo}, f, a, l) BY <1>1, <1>11, <1>13, <1>15 DEF WellHeld, BlocksOK
<1> QED BY <1>6, <1>12, <1>16

\* uct_pool_cleanup_add lists a record at c with data at d, both allocated in q.
LEMMA CleanupKeeps ==
    ASSUME NEW p, NEW m, NEW hp, NEW f, NEW a, NEW l, WellHeld(p, m, hp, f, a, l), NEW q, BlocksOK(q),
           q.cleanup = p.cleanup, LargeOK(q.large, hp), NEW c \in Regions, NEW d \in Regions,
           NEW t, t = <<"cleanup", Len(p.cleanup) + 1>>, NEW u, u = <<"data", Len(p.cleanup) + 1>>,
           Placed(PoolHeld(q) \cup Others(m, a, l) \cup {Holding(t, c)} \cup {Holding(u, d)}, q.blocks, hp),
           NEW fd \in Nat, fd \notin f, NEW how \in {"none", "close", "delete"}
    PROVE  WellHeld(Listed(q, Cleanup(c, d, how, fd)), m, hp, f \cup ({fd} \ {0}), a, l)
<1> DEFINE x == Cleanup(c, d, how, fd)
           k == Prepend(x, q.cleanup)
           n == PoolOf(q.blocks, q.current, q.large, k)
<1>1. /\ IsPool(q) /\ FillOK(q.blocks) /\ q.blocks \in Seq(BlockRecords) /\ q.current \in 1 .. Len(q.blocks)
      /\ q.cleanup \in Seq(CleanupRecords) /\ q.large \in Seq(LargeRecords)
  BY DEF BlocksOK, IsPool
<1>2. x \in CleanupRecords /\ x.at = c /\ x.data = d /\ x.fd = fd
  <2>1. PICK z : z = [at |-> c, data |-> d, how |-> how, fd |-> fd] OBVIOUS
  <2>2. z \in CleanupRecords /\ z.at = c /\ z.data = d /\ z.fd = fd BY <2>1 DEF CleanupRecords
  <2> QED BY <2>1, <2>2 DEF Cleanup
<1> HIDE DEF x
<1>3. Listed(q, x) = n BY <1>1, SetCleanup DEF Prepend, Listed
<1>4. k \in Seq(CleanupRecords) BY <1>1, <1>2, Prepended
<1>5. CleanupOK(k, f \cup ({fd} \ {0}))
  <2>1. CleanupOK(q.cleanup, f) BY DEF WellHeld
  <2> QED BY <1>1, <1>2, <2>1, CleanupPrepend
<1>6. Records("cleanup", k) = Records("cleanup", q.cleanup) \cup {Holding(t, c)}
  <2>1. Records("cleanup", k) = Records("cleanup", q.cleanup) \cup {Holding(<<"cleanup", Len(q.cleanup) + 1>>, x.at)}
    BY <1>1, <1>2, RecordsPrepend
  <2> QED BY <1>2, <2>1
<1>7. Datas(k) = Datas(q.cleanup) \cup {Holding(u, d)} BY <1>1, <1>2, DatasPrepend
<1> HIDE DEF k
<1>8. IsPool(n) /\ n.blocks = q.blocks /\ n.large = q.large /\ n.cleanup = k BY <1>1, <1>4, PoolFields
<1> HIDE DEF n
<1>9. PoolHeld(n) = PoolHeld(q) \cup {Holding(t, c)} \cup {Holding(u, d)}
  <2>1. PoolHeld(n) = Records("large", q.large) \cup Records("cleanup", k) \cup Datas(k) BY <1>8 DEF PoolHeld
  <2>2. PoolHeld(q) = Records("large", q.large) \cup Records("cleanup", q.cleanup) \cup Datas(q.cleanup) BY DEF PoolHeld
  <2> QED BY <1>6, <1>7, <2>1, <2>2
<1>10. PoolHeld(q) \cup Others(m, a, l) \cup {Holding(t, c)} \cup {Holding(u, d)} = PoolHeld(n) \cup Others(m, a, l) BY <1>9
<1>11. Placed(PoolHeld(n) \cup Others(m, a, l), n.blocks, hp) BY <1>8, <1>10
<1>12. BlocksOK(n) BY <1>1, <1>8 DEF BlocksOK
<1>13. WellHeld(n, m, hp, f \cup ({fd} \ {0}), a, l) BY <1>5, <1>8, <1>11, <1>12 DEF WellHeld
<1> QED BY <1>3, <1>13 DEF x

\* uct_pool_run_cleanup_file.
LEMMA RunKeeps ==
    ASSUME NEW p, NEW m, NEW hp, NEW f, NEW a, NEW l, WellHeld(p, m, hp, f, a, l),
           NEW i \in DOMAIN p.cleanup, p.cleanup[i].fd # 0
    PROVE  /\ p.cleanup[i].fd \in f
           /\ WellHeld([p EXCEPT !.cleanup[i].fd = 0], m, hp, f \ {p.cleanup[i].fd}, a, l)
<1> DEFINE c == Closed(p.cleanup, i)
           q == PoolOf(p.blocks, p.current, p.large, c)
           fd == p.cleanup[i].fd
<1>1. /\ IsPool(p) /\ FillOK(p.blocks) /\ p.blocks \in Seq(BlockRecords) /\ p.current \in 1 .. Len(p.blocks)
      /\ p.cleanup \in Seq(CleanupRecords) /\ p.large \in Seq(LargeRecords)
  BY DEF WellHeld, BlocksOK, IsPool
<1>2. CleanupOK(p.cleanup, f) BY DEF WellHeld
<1>3. fd \in f BY <1>2 DEF CleanupOK
<1>4. /\ c \in Seq(CleanupRecords) /\ CleanupOK(c, f \ {fd}) /\ Kept(c, p.cleanup)
      /\ \A k \in DOMAIN p.cleanup : c[k].data = p.cleanup[k].data
  BY <1>1, <1>2, CleanupRun
<1>5. [p EXCEPT !.cleanup[i].fd = 0] = q
  <2>1. [p EXCEPT !.cleanup[i].fd = 0] = [p EXCEPT !.cleanup = c] BY DEF Closed
  <2> QED BY <1>1, <2>1, SetCleanup
<1> HIDE DEF c, fd
<1>6. IsPool(q) /\ q.blocks = p.blocks /\ q.large = p.large /\ q.cleanup = c BY <1>1, <1>4, PoolFields
<1> HIDE DEF q
<1>7. PoolHeld(q) = PoolHeld(p)
  <2>1. Records("cleanup", c) = Records("cleanup", p.cleanup) BY <1>4, RecordsSame DEF Kept
  <2>2. Datas(c) = Datas(p.cleanup) BY <1>4, DatasSame DEF Kept
  <2> QED BY <1>6, <2>1, <2>2 DEF PoolHeld
<1>8. WellHeld(q, m, hp, f \ {fd}, a, l) BY <1>1, <1>4, <1>6, <1>7 DEF WellHeld, BlocksOK
<1> QED BY <1>3, <1>5, <1>8 DEF fd

\* A pool without large records and without holders: the memory of its cleanup
\* records, if there are any, is not theirs.
LEMMA FreshHeld ==
    ASSUME NEW q, BlocksOK(q), q.large = <<>>, NEW f, CleanupOK(q.cleanup, f),
           \A k \in DOMAIN q.cleanup : q.cleanup[k].at = Null /\ q.cleanup[k].data = Null
    PROVE  WellHeld(q, {}, {}, f, NoArray, NoList)
<1>1. LargeOK(q.large, {}) BY DEF LargeOK
<1>2. \A h \in PoolHeld(q) : h.at = Null
  <2>1. Records("large", q.large) = {} BY DEF Records
  <2>2. ASSUME NEW h \in Records("cleanup", q.cleanup) PROVE h.at = Null
    <3>1. PICK k \in DOMAIN q.cleanup : h = Holding(<<"cleanup", Len(q.cleanup) + 1 - k>>, q.cleanup[k].at) BY DEF Records
    <3> QED BY <3>1 DEF Holding
  <2>3. ASSUME NEW h \in Datas(q.cleanup) PROVE h.at = Null
    <3>1. PICK k \in DOMAIN q.cleanup : h = Holding(<<"data", Len(q.cleanup) + 1 - k>>, q.cleanup[k].data) BY DEF Datas
    <3> QED BY <3>1 DEF Holding
  <2> QED BY <2>1, <2>2, <2>3 DEF PoolHeld
<1>3. Null \in Regions /\ Null.b = 0 BY DEF Null, Regions
<1>4. NoArray \in Arrays /\ NoArray.at = Null /\ NoArray.elts = Null /\ NoArray.nelts = 0 /\ NoArray.nalloc = 0
  BY <1>3 DEF NoArray, Arrays
<1>5. NoList \in Lists /\ NoList.at = Null /\ NoList.parts = <<>> BY <1>3 DEF NoList, Lists, Parts
<1>6. \A h \in Others({}, NoArray, NoList) : h.at = Null
  <2>1. UserHeld({}) = {} BY DEF UserHeld
  <2>2. \A h \in ArrayHeld(NoArray) : h.at = Null BY <1>4, HoldingFields DEF ArrayHeld
  <2>3. \A h \in ListHeld(NoList) : h.at = Null BY <1>5, HoldingFields DEF ListHeld
  <2> QED BY <2>1, <2>2, <2>3 DEF Others
<1>7. Placed(PoolHeld(q) \cup Others({}, NoArray, NoList), q.blocks, {}) BY <1>2, <1>6 DEF Placed
<1>8. ArrayOK(NoArray) BY <1>3, <1>4 DEF ArrayOK
<1>9. ListOK(NoList) BY <1>5 DEF ListOK
<1> QED BY <1>1, <1>7, <1>8, <1>9 DEF WellHeld

\* A pool of empty blocks, as uct_reset_pool leaves it, is in order.
LEMMA EmptyPool ==
    ASSUME NEW bs \in Seq(BlockRecords), Len(bs) >= 1, \A b \in 1 .. Len(bs) : bs[b] = NewBlock(PoolHead),
           NEW cl \in Seq(CleanupRecords)
    PROVE  BlocksOK(PoolOf(bs, 1, <<>>, cl))
<1>1. 1 \in 1 .. Len(bs) OBVIOUS
<1>2. IsPool(PoolOf(bs, 1, <<>>, cl)) /\ PoolOf(bs, 1, <<>>, cl).blocks = bs
  <2>1. PICK e : e = <<>> /\ e \in Seq(LargeRecords)
    <3>1. <<>> \in Seq(LargeRecords) OBVIOUS
    <3> QED BY <3>1
  <2>2. PICK o : o = 1 /\ o \in 1 .. Len(bs) BY <1>1
  <2>3. IsPool(PoolOf(bs, o, e, cl)) /\ PoolOf(bs, o, e, cl).blocks = bs
    <3>1. e \in Seq(LargeRecords) /\ o \in 1 .. Len(bs) BY <2>1, <2>2
    <3> QED BY <3>1, PoolFields
  <2> QED BY <2>1, <2>2, <2>3
<1>3. NewBlock(PoolHead).last = PoolHead BY DEF NewBlock
<1>4. PoolHead \in Nat /\ DataHead <= PoolHead /\ PoolHead <= PoolSize BY MemoryPoolAssumption
<1>5. FillOK(bs) BY <1>3, <1>4 DEF FillOK, Begin
<1> QED BY <1>2, <1>5 DEF BlocksOK

\* The files of the cleanup records after a reset are those before it.
LEMMA DisownedOK ==
    ASSUME NEW l \in Seq(CleanupRecords), NEW f, CleanupOK(l, f)
    PROVE  /\ Disowned(l) \in Seq(CleanupRecords) /\ CleanupOK(Disowned(l), f)
           /\ \A k \in DOMAIN Disowned(l) : Disowned(l)[k].at = Null /\ Disowned(l)[k].data = Null
<1> DEFINE c == Disowned(l)
<1>1. Null \in Regions BY DEF Null, Regions
<1>2. ASSUME NEW y \in CleanupRecords
      PROVE  LET z == [y EXCEPT !.at = Null, !.data = Null]
             IN  z \in CleanupRecords /\ z.at = Null /\ z.data = Null /\ z.fd = y.fd
  <2>1. PICK z : z = [y EXCEPT !.at = Null] OBVIOUS
  <2>2. z \in CleanupRecords /\ z.at = Null /\ z.fd = y.fd BY <1>1, <2>1 DEF CleanupRecords
  <2>3. PICK w : w = [z EXCEPT !.data = Null] OBVIOUS
  <2>4. w \in CleanupRecords /\ w.at = Null /\ w.data = Null /\ w.fd = y.fd BY <1>1, <2>2, <2>3 DEF CleanupRecords
  <2>5. w = [y EXCEPT !.at = Null, !.data = Null] BY <2>1, <2>3
  <2> QED BY <2>4, <2>5
<1>3. DOMAIN l = 1 .. Len(l) /\ Len(l) \in Nat /\ \A k \in DOMAIN l : l[k] \in CleanupRecords OBVIOUS
<1>4. DOMAIN c = DOMAIN l /\ \A k \in DOMAIN l : c[k] = [l[k] EXCEPT !.at = Null, !.data = Null] BY DEF Disowned
<1>5. \A k \in DOMAIN l : c[k] \in CleanupRecords /\ c[k].at = Null /\ c[k].data = Null /\ c[k].fd = l[k].fd
  <2> SUFFICES ASSUME NEW k \in DOMAIN l
               PROVE  c[k] \in CleanupRecords /\ c[k].at = Null /\ c[k].data = Null /\ c[k].fd = l[k].fd
    OBVIOUS
  <2>1. PICK y \in CleanupRecords : y = l[k] BY <1>3
  <2>2. c[k] = [y EXCEPT !.at = Null, !.data = Null] BY <1>4, <2>1
  <2> HIDE DEF c
  <2> QED BY <1>2, <2>1, <2>2
<1>6. c \in Seq(CleanupRecords)
  <2>1. c = [k \in 1 .. Len(l) |-> c[k]] BY <1>3 DEF Disowned
  <2> HIDE DEF c
  <2> QED BY <1>3, <1>5, <2>1
<1> HIDE DEF c
<1>7. CleanupOK(c, f)
  <2>1. {c[k].fd : k \in DOMAIN c} = {l[k].fd : k \in DOMAIN l} BY <1>4, <1>5
  <2>2. \A j, k \in DOMAIN c : c[j].fd = c[k].fd /\ c[k].fd # 0 => j = k BY <1>4, <1>5 DEF CleanupOK
  <2> QED BY <2>1, <2>2 DEF CleanupOK
<1> QED BY <1>4, <1>5, <1>6, <1>7 DEF c

-----------------------------------------------------------------------------
\* An array, by its fields.
ArrayOf(at, elts, nelts, nl) == [at |-> at, elts |-> elts, nelts |-> nelts, nalloc |-> nl]

\* The fields of an array, and what it holds.
LEMMA ArrayFields ==
    ASSUME NEW at, NEW elts, NEW nelts, NEW nl
    PROVE  LET a == ArrayOf(at, elts, nelts, nl)
           IN  /\ a.at = at /\ a.elts = elts /\ a.nelts = nelts /\ a.nalloc = nl
               /\ at \in Regions /\ elts \in Regions /\ nelts \in Nat /\ nl \in Nat => a \in Arrays
               /\ ArrayHeld(a) = {Holding(<<"array", 1>>, at), Holding(<<"array", 2>>, elts)}
<1> DEFINE a == ArrayOf(at, elts, nelts, nl)
<1>1. a.at = at /\ a.elts = elts /\ a.nelts = nelts /\ a.nalloc = nl BY DEF ArrayOf
<1>2. at \in Regions /\ elts \in Regions /\ nelts \in Nat /\ nl \in Nat => a \in Arrays BY DEF ArrayOf, Arrays
<1>3. ArrayHeld(a) = {Holding(<<"array", 1>>, at), Holding(<<"array", 2>>, elts)}
  <2> HIDE DEF a
  <2> QED BY <1>1 DEF ArrayHeld
<1> QED BY <1>1, <1>2, <1>3

\* uct_array_push within the room there is.
LEMMA ArrayCounts ==
    ASSUME NEW a \in Arrays, NEW n
    PROVE  [a EXCEPT !.nelts = @ + n] = ArrayOf(a.at, a.elts, a.nelts + n, a.nalloc)
<1>1. a = ArrayOf(a.at, a.elts, a.nelts, a.nalloc) BY DEF Arrays, ArrayOf
<1> QED BY <1>1 DEF ArrayOf

\* uct_array_push that moves the elements to another region.
LEMMA ArrayMoves ==
    ASSUME NEW a \in Arrays, NEW n, NEW v, NEW e
    PROVE  [a EXCEPT !.nelts = @ + n, !.nalloc = v, !.elts = e] = ArrayOf(a.at, e, a.nelts + n, v)
<1>1. PICK b : b = [a EXCEPT !.nelts = @ + n] OBVIOUS
<1>2. b = ArrayOf(a.at, a.elts, a.nelts + n, a.nalloc) BY <1>1, ArrayCounts
<1>3. [b EXCEPT !.nalloc = v] = ArrayOf(a.at, a.elts, a.nelts + n, v) BY <1>2 DEF ArrayOf
<1>4. [a EXCEPT !.nelts = @ + n, !.nalloc = v, !.elts = e] = [[b EXCEPT !.nalloc = v] EXCEPT !.elts = e] BY <1>1
<1>5. [ArrayOf(a.at, a.elts, a.nelts + n, v) EXCEPT !.elts = e] = ArrayOf(a.at, e, a.nelts + n, v) BY DEF ArrayOf
<1> QED BY <1>3, <1>4, <1>5

\* uct_array_push that extends the region.
LEMMA ArrayExtends ==
    ASSUME NEW a \in Arrays, NEW n
    PROVE  [a EXCEPT !.nelts = @ + n, !.nalloc = @ + n, !.elts.hi = @ + n]
             = ArrayOf(a.at, [a.elts EXCEPT !.hi = @ + n], a.nelts + n, a.nalloc + n)
<1>1. a = ArrayOf(a.at, a.elts, a.nelts, a.nalloc) BY DEF Arrays, ArrayOf
<1>2. [a EXCEPT !.nelts = @ + n, !.nalloc = @ + n, !.elts.hi = @ + n]
        = [a EXCEPT !.nelts = @ + n, !.nalloc = a.nalloc + n, !.elts = [a.elts EXCEPT !.hi = @ + n]]
  BY <1>1 DEF ArrayOf
<1> QED BY <1>2, ArrayMoves

\* A region with n bytes more at its end.
LEMMA RegionGrown ==
    ASSUME NEW r \in Regions, NEW n \in Nat
    PROVE  LET s == [r EXCEPT !.hi = @ + n]
           IN  s \in Regions /\ s.b = r.b /\ s.lo = r.lo /\ s.hi = r.hi + n
<1>1. r.hi + n \in Nat BY DEF Regions
<1>2. PICK x \in Nat : x = r.hi + n BY <1>1
<1>3. [r EXCEPT !.hi = x] \in Regions /\ [r EXCEPT !.hi = x].b = r.b /\ [r EXCEPT !.hi = x].lo = r.lo /\ [r EXCEPT !.hi = x].hi = x
  BY DEF Regions
<1> QED BY <1>2, <1>3

\* Nobody else's holding looks like one of the array's.
LEMMA ArrayTags ==
    ASSUME NEW p, NEW m, NEW l, NEW n, NEW r
    PROVE  Holding(<<"array", n>>, r) \notin PoolHeld(p) \cup UserHeld(m) \cup ListHeld(l)
<1> DEFINE g == Holding(<<"array", n>>, r)
<1>1. g.by = <<"array", n>> BY HoldingFields
<1> HIDE DEF g
<1>2. ASSUME NEW kind, kind # "array", NEW k, NEW s PROVE g # Holding(<<kind, k>>, s)
  <2>1. Holding(<<kind, k>>, s).by = <<kind, k>> BY HoldingFields
  <2>2. <<kind, k>> # <<"array", n>> BY <1>2
  <2> QED BY <1>1, <2>1, <2>2
<1>3. g \notin PoolHeld(p) BY <1>2 DEF PoolHeld, Records, Datas
<1>4. g \notin UserHeld(m) BY <1>2 DEF UserHeld
<1>5. g \notin ListHeld(l) BY <1>2 DEF ListHeld
<1> QED BY <1>3, <1>4, <1>5 DEF g

\* uct_array_push_n at the end of the first block.
LEMMA ArrayGrows ==
    ASSUME NEW p, NEW m, NEW hp, NEW f, NEW a, NEW l, WellHeld(p, m, hp, f, a, l), NEW n \in Nat,
           a.elts.b = 1, a.elts.hi = p.blocks[1].last, p.blocks[1].last + n <= PoolSize
    PROVE  WellHeld([p EXCEPT !.blocks[1].last = @ + n], m, hp, f,
                    [a EXCEPT !.nelts = @ + n, !.nalloc = @ + n, !.elts.hi = @ + n], l)
<1> DEFINE s == [a.elts EXCEPT !.hi = @ + n]
           b == ArrayOf(a.at, s, a.nelts + n, a.nalloc + n)
           cs == WithLast(p.blocks, a.elts.hi + n)
           q == PoolOf(cs, p.current, p.large, p.cleanup)
           H == PoolHeld(p) \cup UserHeld(m) \cup ListHeld(l) \cup {Holding(<<"array", 1>>, a.at)}
           t == <<"array", 2>>
<1>1. /\ IsPool(p) /\ FillOK(p.blocks) /\ p.blocks \in Seq(BlockRecords) /\ p.current \in 1 .. Len(p.blocks)
      /\ p.cleanup \in Seq(CleanupRecords) /\ p.large \in Seq(LargeRecords)
  BY DEF WellHeld, BlocksOK, IsPool
<1>2. a \in Arrays /\ a.at \in Regions /\ a.elts \in Regions /\ a.nelts \in Nat /\ a.nalloc \in Nat /\ a.nelts <= a.nalloc
      /\ a.elts.hi - a.elts.lo = a.nalloc
  BY DEF WellHeld, ArrayOK, Arrays
<1>3. s \in Regions /\ s.b = 1 /\ s.lo = a.elts.lo /\ s.hi = a.elts.hi + n BY <1>2, RegionGrown
<1>4. [a EXCEPT !.nelts = @ + n, !.nalloc = @ + n, !.elts.hi = @ + n] = b BY <1>2, ArrayExtends
<1>5. 1 \in 1 .. Len(p.blocks) BY <1>1
<1>6. [p EXCEPT !.blocks[1].last = @ + n] = q
  <2>1. [p EXCEPT !.blocks[1].last = @ + n] = [p EXCEPT !.blocks = cs] BY DEF WithLast
  <2> QED BY <1>1, <2>1, SetBlocks
<1> HIDE DEF s
<1>7. /\ ArrayHeld(b) = {Holding(<<"array", 1>>, a.at), Holding(t, s)}
      /\ b.elts = s /\ b.nelts = a.nelts + n /\ b.nalloc = a.nalloc + n /\ b \in Arrays
  BY <1>2, <1>3, ArrayFields
<1>8. ArrayHeld(a) = {Holding(<<"array", 1>>, a.at), Holding(t, a.elts)} BY DEF ArrayHeld
<1> HIDE DEF b
<1>9. Holding(t, a.elts) \notin H
  <2>1. Holding(t, a.elts) # Holding(<<"array", 1>>, a.at)
    <3>1. Holding(t, a.elts).by = <<"array", 2>> /\ Holding(<<"array", 1>>, a.at).by = <<"array", 1>> BY HoldingFields
    <3> QED BY <3>1
  <2> QED BY <2>1, ArrayTags
<1>10. PoolHeld(p) \cup Others(m, a, l) = H \cup {Holding(t, a.elts)} BY <1>8 DEF Others
<1>11. PoolHeld(p) \cup Others(m, b, l) = H \cup {Holding(t, s)} BY <1>7 DEF Others
<1> HIDE DEF H, t
<1>12. Placed(H \cup {Holding(t, a.elts)}, p.blocks, hp) BY <1>10 DEF WellHeld
<1>13. FillOK(cs) /\ Placed(H \cup {Holding(t, s)}, cs, hp)
  BY <1>1, <1>2, <1>3, <1>5, <1>9, <1>12, Grown
<1>14. cs \in Seq(BlockRecords) /\ Len(cs) = Len(p.blocks)
  <2>1. a.elts.hi + n \in Nat BY <1>2 DEF Regions
  <2> QED BY <1>1, <1>5, <2>1, FirstBlock
<1> HIDE DEF cs
<1>15. IsPool(q) /\ q.blocks = cs /\ q.large = p.large /\ q.cleanup = p.cleanup BY <1>1, <1>14, PoolFields
<1> HIDE DEF q
<1>16. PoolHeld(q) = PoolHeld(p) BY <1>15 DEF PoolHeld
<1>17. Placed(PoolHeld(q) \cup Others(m, b, l), q.blocks, hp) BY <1>11, <1>13, <1>15, <1>16
<1>18. ArrayOK(b)
  <2>1. a.elts.lo \in Nat /\ a.elts.hi \in Nat BY <1>2 DEF Regions
  <2>2. b.nelts <= b.nalloc BY <1>2, <1>7
  <2>3. b.elts.hi - b.elts.lo = b.nalloc BY <1>2, <1>3, <1>7, <2>1
  <2> QED BY <1>7, <2>2, <2>3 DEF ArrayOK
<1>19. WellHeld(q, m, hp, f, b, l) BY <1>13, <1>15, <1>17, <1>18 DEF WellHeld, BlocksOK
<1> QED BY <1>4, <1>6, <1>19

\* uct_array_destroy.
LEMMA ArrayGone ==
    ASSUME NEW p, NEW m, NEW hp, NEW f, NEW a, NEW l, WellHeld(p, m, hp, f, a, l),
           NEW n2, n2 = IF a.elts.b = 1 /\ a.elts.hi = p.blocks[1].last THEN a.elts.lo ELSE p.blocks[1].last,
           NEW n3, n3 = IF a.at.b = 1 /\ a.at.hi = n2 THEN a.at.lo ELSE n2
    PROVE  WellHeld([p EXCEPT !.blocks[1].last = n3], m, hp, f, NoArray, l)
<1> DEFINE g1 == Holding(<<"array", 1>>, a.at)
           g2 == Holding(<<"array", 2>>, a.elts)
           H == PoolHeld(p) \cup UserHeld(m) \cup ListHeld(l)
           bs == WithLast(p.blocks, n2)
           cs == WithLast(p.blocks, n3)
           q == PoolOf(cs, p.current, p.large, p.cleanup)
<1>1. /\ IsPool(p) /\ FillOK(p.blocks) /\ p.blocks \in Seq(BlockRecords) /\ p.current \in 1 .. Len(p.blocks)
      /\ p.cleanup \in Seq(CleanupRecords) /\ p.large \in Seq(LargeRecords)
  BY DEF WellHeld, BlocksOK, IsPool
<1>2. 1 \in 1 .. Len(p.blocks) BY <1>1
<1>3. g1.at = a.at /\ g2.at = a.elts /\ g1.by = <<"array", 1>> /\ g2.by = <<"array", 2>> BY HoldingFields
<1>4. g1 \notin H /\ g2 \notin H BY ArrayTags
<1>5. PoolHeld(p) \cup Others(m, a, l) = H \cup {g1} \cup {g2} BY DEF Others, ArrayHeld
<1> HIDE DEF g1, g2, H
<1>6. g2 \notin H \cup {g1}
  <2>1. g1 # g2 BY <1>3
  <2> QED BY <1>4, <2>1
<1>7. Placed(H \cup {g1} \cup {g2}, p.blocks, hp) BY <1>5 DEF WellHeld
<1>8. n2 \in Nat /\ FillOK(bs) /\ Placed(H \cup {g1}, bs, hp)
  <2>1. n2 = IF g2.at.b = 1 /\ g2.at.hi = p.blocks[1].last THEN g2.at.lo ELSE p.blocks[1].last BY <1>3
  <2>2. FillOK(p.blocks) /\ p.blocks \in Seq(BlockRecords) BY <1>1
  <2> QED BY <1>2, <1>6, <1>7, <2>1, <2>2, Lowered, ZenonT(60)
<1>9. bs \in Seq(BlockRecords) /\ Len(bs) = Len(p.blocks) /\ bs[1].last = n2 /\ WithLast(bs, n3) = cs
  BY <1>1, <1>2, <1>8, FirstBlock
<1> HIDE DEF bs
<1>10. n3 \in Nat /\ FillOK(WithLast(bs, n3)) /\ Placed(H, WithLast(bs, n3), hp)
  <2>1. n3 = IF g1.at.b = 1 /\ g1.at.hi = bs[1].last THEN g1.at.lo ELSE bs[1].last BY <1>3, <1>9
  <2>2. 1 \in 1 .. Len(bs) BY <1>2, <1>9
  <2> QED BY <1>4, <1>8, <1>9, <2>1, <2>2, Lowered
<1>11. FillOK(cs) /\ Placed(H, cs, hp) BY <1>9, <1>10
<1>12. cs \in Seq(BlockRecords) /\ Len(cs) = Len(p.blocks) BY <1>1, <1>2, <1>10, FirstBlock
<1>13. [p EXCEPT !.blocks[1].last = n3] = q
  <2>1. [p EXCEPT !.blocks[1].last = n3] = [p EXCEPT !.blocks = cs] BY DEF WithLast
  <2> QED BY <1>1, <2>1, SetBlocks
<1> HIDE DEF cs
<1>14. IsPool(q) /\ q.blocks = cs /\ q.large = p.large /\ q.cleanup = p.cleanup BY <1>1, <1>12, PoolFields
<1> HIDE DEF q
<1>15. PoolHeld(q) = PoolHeld(p) BY <1>14 DEF PoolHeld
<1>16. ArrayOK(NoArray) /\ \A h \in ArrayHeld(NoArray) : h.at = Null
  <2>1. Null \in Regions /\ Null.b = 0 BY DEF Null, Regions
  <2>2. NoArray \in Arrays /\ NoArray.at = Null /\ NoArray.elts = Null /\ NoArray.nelts = 0 /\ NoArray.nalloc = 0
    BY <2>1 DEF NoArray, Arrays
  <2> QED BY <2>1, <2>2, HoldingFields DEF ArrayHeld, ArrayOK
<1>17. \A h \in PoolHeld(q) \cup Others(m, NoArray, l) : h \in H \/ h.at = Null BY <1>15, <1>16 DEF Others, H
<1>18. Placed(PoolHeld(q) \cup Others(m, NoArray, l), q.blocks, hp) BY <1>11, <1>14, <1>17, PlacedSubset
<1>19. WellHeld(q, m, hp, f, NoArray, l) BY <1>11, <1>14, <1>16, <1>18 DEF WellHeld, BlocksOK
<1> QED BY <1>13, <1>19

-----------------------------------------------------------------------------
\* A new list of one part.
LEMMA ListMade ==
    ASSUME NEW at \in Regions, NEW el \in Regions
    PROVE  LET l == [at |-> at, parts |-> <<[rec |-> Null, at |-> el, nelts |-> 0]>>]
           IN  /\ ListOK(l)
               /\ \A h \in ListHeld(l) : \/ h = Holding(<<"list", 0>>, at) \/ h = Holding(<<"part", 1>>, el)
                                         \/ h.at = Null
<1> DEFINE z == [rec |-> Null, at |-> el, nelts |-> 0]
           l == [at |-> at, parts |-> <<z>>]
<1>1. Null \in Regions BY DEF Null, Regions
<1>2. z \in Parts /\ z.rec = Null /\ z.at = el BY <1>1 DEF Parts
<1> HIDE DEF z
<1>3. <<z>> \in Seq(Parts) /\ Len(<<z>>) = 1 /\ DOMAIN <<z>> = {1} /\ <<z>>[1] = z BY <1>2
<1>4. l \in Lists /\ l.at = at /\ l.parts = <<z>> BY <1>3 DEF Lists
<1> HIDE DEF l
<1>5. ListOK(l) BY <1>3, <1>4 DEF ListOK
<1>6. ListHeld(l) = {Holding(<<"list", 0>>, at)} \cup {Holding(<<"part", 1>>, el)} \cup {Holding(<<"record", 1>>, Null)}
  BY <1>2, <1>3, <1>4 DEF ListHeld
<1>7. Holding(<<"record", 1>>, Null).at = Null BY HoldingFields
<1> QED BY <1>5, <1>6, <1>7 DEF l, z

\* An element more in the last part.
LEMMA ListCounts ==
    ASSUME NEW l \in Lists, l.parts # <<>>
    PROVE  LET k == [l EXCEPT !.parts[Len(l.parts)].nelts = @ + 1] IN ListOK(k) /\ ListHeld(k) = ListHeld(l)
<1> DEFINE n == Len(l.parts)
           z == [l.parts[n] EXCEPT !.nelts = @ + 1]
           q == [l.parts EXCEPT ![n] = z]
           k == [l EXCEPT !.parts = q]
<1>1. l.parts \in Seq(Parts) /\ n \in 1 .. Len(l.parts) /\ DOMAIN l.parts = 1 .. n BY DEF Lists
<1>2. PICK y \in Parts : y = l.parts[n] BY <1>1
<1>3. PICK w \in Nat : w = y.nelts + 1 BY DEF Parts
<1>4. [y EXCEPT !.nelts = w] \in Parts /\ [y EXCEPT !.nelts = w].rec = y.rec /\ [y EXCEPT !.nelts = w].at = y.at BY DEF Parts
<1>5. z \in Parts /\ z.rec = l.parts[n].rec /\ z.at = l.parts[n].at BY <1>2, <1>3, <1>4
<1> HIDE DEF z
<1>6. q \in Seq(Parts) /\ Len(q) = n /\ q[n] = z /\ \A j \in 1 .. n : j # n => q[j] = l.parts[j] BY <1>1, <1>5
<1>7. DOMAIN q = DOMAIN l.parts BY <1>1, <1>6
<1>8. \A j \in DOMAIN l.parts : q[j].at = l.parts[j].at /\ q[j].rec = l.parts[j].rec BY <1>1, <1>5, <1>6
<1>9. q # <<>> BY <1>1, <1>6
<1> HIDE DEF q
<1>10. k \in Lists /\ k.at = l.at /\ k.parts = q BY <1>6 DEF Lists
<1>11. [l EXCEPT !.parts[Len(l.parts)].nelts = @ + 1] = k BY DEF k, q, z, n
<1> HIDE DEF k, n
<1>12. ListHeld(k) = ListHeld(l) BY <1>7, <1>8, <1>10 DEF ListHeld
<1> QED BY <1>9, <1>10, <1>11, <1>12 DEF ListOK

\* A part more.
LEMMA ListGrows ==
    ASSUME NEW l \in Lists, NEW rec \in Regions, NEW el \in Regions
    PROVE  LET k == [l EXCEPT !.parts = Append(@, [rec |-> rec, at |-> el, nelts |-> 1])]
               n == Len(l.parts) + 1
           IN  /\ ListOK(k)
               /\ \A h \in ListHeld(k) : h \in ListHeld(l) \/ h = Holding(<<"record", n>>, rec) \/ h = Holding(<<"part", n>>, el)
<1> DEFINE n == Len(l.parts) + 1
           z == [rec |-> rec, at |-> el, nelts |-> 1]
           q == Append(l.parts, z)
           k == [l EXCEPT !.parts = q]
<1>1. l.parts \in Seq(Parts) /\ Len(l.parts) \in Nat /\ DOMAIN l.parts = 1 .. Len(l.parts) BY DEF Lists
<1>2. z \in Parts /\ z.rec = rec /\ z.at = el BY DEF Parts
<1>3. [l EXCEPT !.parts = Append(@, z)] = k OBVIOUS
<1> HIDE DEF z
<1>4. q \in Seq(Parts) /\ Len(q) = n /\ q[n] = z /\ \A j \in 1 .. Len(l.parts) : q[j] = l.parts[j]
  <2>1. PICK s \in Seq(Parts) : s = l.parts BY <1>1
  <2>2. Append(s, z) \in Seq(Parts) /\ Len(Append(s, z)) = Len(s) + 1 /\ Append(s, z)[Len(s) + 1] = z BY <1>2
  <2>3. \A j \in 1 .. Len(s) : Append(s, z)[j] = s[j] BY <1>2
  <2> QED BY <2>1, <2>2, <2>3
<1> HIDE DEF q
<1>5. DOMAIN q = 1 .. n /\ q # <<>> BY <1>1, <1>4
<1>6. k \in Lists /\ k.at = l.at /\ k.parts = q BY <1>4 DEF Lists
<1> HIDE DEF k
<1>7. ListOK(k) BY <1>5, <1>6 DEF ListOK
<1>8. ASSUME NEW j \in DOMAIN q PROVE j = n \/ (j \in DOMAIN l.parts /\ q[j] = l.parts[j]) BY <1>1, <1>4, <1>5
<1> HIDE DEF n
<1>9. ASSUME NEW h \in ListHeld(k)
      PROVE  h \in ListHeld(l) \/ h = Holding(<<"record", n>>, rec) \/ h = Holding(<<"part", n>>, el)
  <2>1. CASE h = Holding(<<"list", 0>>, k.at) BY <1>6, <2>1 DEF ListHeld
  <2>2. CASE \E j \in DOMAIN q : h = Holding(<<"part", j>>, q[j].at)
    <3>1. PICK j \in DOMAIN q : h = Holding(<<"part", j>>, q[j].at) BY <2>2
    <3> QED BY <1>2, <1>4, <1>8, <3>1 DEF ListHeld
  <2>3. CASE \E j \in DOMAIN q : h = Holding(<<"record", j>>, q[j].rec)
    <3>1. PICK j \in DOMAIN q : h = Holding(<<"record", j>>, q[j].rec) BY <2>3
    <3> QED BY <1>2, <1>4, <1>8, <3>1 DEF ListHeld
  <2> QED BY <1>6, <1>9, <2>1, <2>2, <2>3 DEF ListHeld
<1> QED BY <1>3, <1>7, <1>9 DEF z, n

-----------------------------------------------------------------------------
(* The steps *)

\* The pool of uct_create_pool is in order.
LEMMA CreatedHeld == WellHeld(CreatePool, {}, {}, {}, NoArray, NoList)
<1>1. NewBlock(PoolHead) \in BlockRecords BY MemoryPoolAssumption DEF NewBlock, BlockRecords
<1>2. PICK bs \in Seq(BlockRecords) : bs = <<NewBlock(PoolHead)>> /\ Len(bs) = 1 /\ bs[1] = NewBlock(PoolHead)
  <2>1. PICK x \in BlockRecords : x = NewBlock(PoolHead) BY <1>1
  <2>2. <<x>> \in Seq(BlockRecords) /\ Len(<<x>>) = 1 /\ <<x>>[1] = x OBVIOUS
  <2> QED BY <2>1, <2>2
<1>3. PICK cl \in Seq(CleanupRecords) : cl = <<>>
  <2>1. <<>> \in Seq(CleanupRecords) OBVIOUS
  <2> QED BY <2>1
<1>4. BlocksOK(PoolOf(bs, 1, <<>>, cl))
  <2>1. Len(bs) >= 1 /\ \A b \in 1 .. Len(bs) : bs[b] = NewBlock(PoolHead) BY <1>2
  <2> QED BY <2>1, EmptyPool
<1>5. CreatePool = PoolOf(bs, 1, <<>>, cl) BY <1>2, <1>3 DEF CreatePool, PoolOf
<1>6. CreatePool.large = <<>> /\ CreatePool.cleanup = <<>> BY DEF CreatePool
<1>7. CleanupOK(CreatePool.cleanup, {}) /\ DOMAIN CreatePool.cleanup = {} BY <1>6 DEF CleanupOK
<1> HIDE DEF CreatePool
<1>8. BlocksOK(CreatePool) BY <1>4, <1>5
<1> QED BY <1>6, <1>7, <1>8, FreshHeld

\* It satisfies the invariant.
LEMMA PoolStart == InitPool => PoolInv
BY CreatedHeld DEF InitPool, PoolInv

\* uct_palloc finds the pool in order and leaves it so.
LEMMA PallocHere ==
    ASSUME PoolInv, Cardinality(heap) <= MaxLarge, NEW size \in Nat \ {0}, NEW align, NEW oom
    PROVE  Sound(Palloc(pool, size, align, oom), pool, Others(mine, array, list), heap, size)
BY PallocSound DEF PoolInv, WellHeld

\* uct_palloc, uct_pnalloc and uct_pcalloc keep the invariant.
LEMMA AllocStep ==
    ASSUME PoolInv, Cardinality(heap) <= MaxLarge, NEW size \in Sizes, NEW align, NEW oom, Alloc(size, align, oom)
    PROVE  PoolInv'
<1> DEFINE r == Palloc(pool, size, align, oom)
<1>1. size \in Nat \ {0} BY MemoryPoolAssumption
<1>2. Sound(r, pool, Others(mine, array, list), heap, size) BY <1>1, PallocHere
<1>3. /\ pool' = r.pool /\ heap' = heap \cup Heap(r.at) /\ mine' = mine \cup Given(r.at)
      /\ files' = files /\ misuse' = misuse /\ array' = array /\ list' = list
  BY DEF Alloc, Return
<1> HIDE DEF r
<1>4. WellHeld(r.pool, mine \cup Given(r.at), heap \cup Heap(r.at), files, array, list) BY <1>2, UserTakes DEF PoolInv
<1> QED BY <1>3, <1>4 DEF PoolInv

\* uct_pmemalign keeps the invariant.
LEMMA PmemalignStep ==
    ASSUME PoolInv, Cardinality(heap) <= MaxLarge, NEW oom, Pmemalign(oom)
    PROVE  PoolInv'
<1> DEFINE r == IF oom = "heap" THEN [pool |-> pool, at |-> Null] ELSE Register(pool, NewId, oom)
           U == Others(mine, array, list)
<1>1. BlocksOK(pool) /\ LargeOK(pool.large, heap) /\ heap \subseteq Ids /\ Placed(PoolHeld(pool) \cup U, pool.blocks, heap)
  BY DEF PoolInv, WellHeld
<1>2. Sound(r, pool, U, heap, 0)
  <2>1. CASE oom = "heap"
    <3>1. SmallOK([pool |-> pool, at |-> Null], pool, PoolHeld(pool) \cup U, heap, 0) BY <1>1, NullGiven
    <3> HIDE DEF U
    <3>2. Sound([pool |-> pool, at |-> Null], pool, U, heap, 0) BY <1>1, <3>1, GivenSound
    <3> QED BY <2>1, <3>2
  <2>2. CASE oom # "heap"
    <3>1. NewId \in Ids /\ NewId \notin heap BY <1>1, NewIdOK
    <3>2. Sound(Register(pool, NewId, oom), pool, U, heap, 0) BY <1>1, <3>1, RegisterSound
    <3> QED BY <2>2, <3>2
  <2> QED BY <2>1, <2>2
<1>3. /\ pool' = r.pool /\ heap' = heap \cup Heap(r.at) /\ mine' = mine \cup Given(r.at)
      /\ files' = files /\ misuse' = misuse /\ array' = array /\ list' = list
  BY DEF Pmemalign, Return
<1> HIDE DEF r
<1>4. WellHeld(r.pool, mine \cup Given(r.at), heap \cup Heap(r.at), files, array, list) BY <1>2, UserTakes DEF PoolInv
<1> QED BY <1>3, <1>4 DEF PoolInv

\* uct_pfree keeps the invariant: the area is on the heap, and nobody else has
\* it.
LEMMA PfreeStep == ASSUME PoolInv, NEW r \in mine, Pfree(r) PROVE PoolInv'
<1>1. r.lo \in heap /\ WellHeld(Forget(pool, r.lo), mine \ {r}, heap \ {r.lo}, files, array, list)
  <2>1. r.b = 0 BY DEF Pfree
  <2> QED BY <2>1, PfreeKeeps DEF PoolInv
<1>2. /\ pool' = Forget(pool, r.lo) /\ mine' = mine \ {r} /\ heap' = heap \ {r.lo} /\ files' = files \ {}
      /\ array' = array /\ list' = list
      /\ misuse' = (misuse \/ ~({r.lo} \subseteq heap) \/ ~({} \subseteq files))
  BY DEF Pfree, Release
<1>3. files' = files /\ misuse' = FALSE BY <1>1, <1>2 DEF PoolInv
<1> QED BY <1>1, <1>2, <1>3 DEF PoolInv

\* uct_pool_cleanup_add without data keeps the invariant.
LEMMA CleanupBareStep == ASSUME PoolInv, NEW oom, CleanupAddBare(oom) PROVE PoolInv'
<1> DEFINE c == Palloc(pool, RecordSize, TRUE, oom)
           U == Others(mine, array, list)
           n == Len(pool.cleanup) + 1
           t == <<"cleanup", n>>
           u == <<"data", n>>
           q == Listed(c.pool, Cleanup(c.at, Null, "none", 0))
<1>1. /\ BlocksOK(pool) /\ LargeOK(pool.large, heap) /\ heap \subseteq Ids /\ Placed(PoolHeld(pool) \cup U, pool.blocks, heap)
      /\ WellHeld(pool, mine, heap, files, array, list) /\ misuse = FALSE
  BY DEF PoolInv, WellHeld
<1>2. Sound(c, pool, U, heap, RecordSize) /\ Heap(c.at) = {} BY <1>1, RecordSound
<1>3. /\ pool' = q /\ heap' = heap /\ files' = files /\ mine' = mine /\ misuse' = misuse /\ array' = array /\ list' = list
  BY DEF CleanupAddBare
<1> HIDE DEF c, U, n
<1>4. heap \cup Heap(c.at) = heap BY <1>2
<1>5. /\ BlocksOK(c.pool) /\ c.pool.cleanup = pool.cleanup /\ LargeOK(c.pool.large, heap) /\ c.at \in Regions
      /\ Placed(PoolHeld(c.pool) \cup U \cup {Holding(t, c.at)}, c.pool.blocks, heap)
  BY <1>2, <1>4 DEF Sound
<1>6. Null \in Regions /\ Holding(u, Null).at = Null BY HoldingFields DEF Null, Regions
<1> HIDE DEF t, u
<1>7. Placed(PoolHeld(c.pool) \cup U \cup {Holding(t, c.at)} \cup {Holding(u, Null)}, c.pool.blocks, heap)
  <2>1. \A h \in PoolHeld(c.pool) \cup U \cup {Holding(t, c.at)} \cup {Holding(u, Null)} :
          h \in PoolHeld(c.pool) \cup U \cup {Holding(t, c.at)} \/ h.at = Null
    BY <1>6
  <2> QED BY <1>5, <2>1, PlacedSubset
<1>8. 0 \notin files BY <1>1 DEF WellHeld, CleanupOK
<1>9. t = <<"cleanup", Len(pool.cleanup) + 1>> /\ u = <<"data", Len(pool.cleanup) + 1>> BY DEF t, u, n
<1>10. WellHeld(q, mine, heap, files \cup ({0} \ {0}), array, list)
  BY <1>1, <1>5, <1>6, <1>7, <1>8, <1>9, CleanupKeeps DEF U
<1>11. files \cup ({0} \ {0}) = files OBVIOUS
<1> HIDE DEF q
<1> QED BY <1>1, <1>3, <1>10, <1>11 DEF PoolInv

\* With data it keeps the invariant too, also when there is none for the data: the
\* record is then nobody's.
LEMMA CleanupAddStep ==
    ASSUME PoolInv, NEW fd \in Files, NEW how \in {"close", "delete"}, NEW oom, CleanupAdd(fd, how, oom)
    PROVE  PoolInv'
<1> DEFINE c == Palloc(pool, RecordSize, TRUE, oom)
           d == Palloc(c.pool, RecordSize, TRUE, oom)
           U == Others(mine, array, list)
           n == Len(pool.cleanup) + 1
           t == <<"cleanup", n>>
           u == <<"data", n>>
           q == Listed(d.pool, Cleanup(c.at, d.at, how, fd))
<1>1. /\ BlocksOK(pool) /\ LargeOK(pool.large, heap) /\ heap \subseteq Ids /\ Placed(PoolHeld(pool) \cup U, pool.blocks, heap)
      /\ WellHeld(pool, mine, heap, files, array, list) /\ misuse = FALSE
      /\ CleanupOK(pool.cleanup, files) /\ mine \subseteq Regions \ {Null} /\ ListOK(list) /\ ArrayOK(array)
  BY DEF PoolInv, WellHeld
<1>2. c.at \in Regions /\ Heap(d.at) = {} /\ Sound(d, pool, U \cup {Holding(t, c.at)}, heap, RecordSize)
  <2> HIDE DEF U, t
  <2> QED BY <1>1, TwoRecords
<1>3. /\ fd \notin files /\ heap' = heap /\ mine' = mine /\ misuse' = misuse /\ array' = array /\ list' = list
      /\ (pool' = d.pool /\ files' = files) \/ (pool' = q /\ files' = files \cup {fd})
  BY DEF CleanupAdd
<1> HIDE DEF d, c
<1>4. heap \cup Heap(d.at) = heap BY <1>2
<1>5. WellHeld(d.pool, mine, heap, files, array, list)
  <2>1. \A h \in Others(mine, array, list) : h \in (U \cup {Holding(t, c.at)}) \cup {Holding(u, d.at)} \/ h.at = Null OBVIOUS
  <2>2. WellHeld(d.pool, mine, heap \cup Heap(d.at), files, array, list)
    <3> HIDE DEF U, t, u
    <3> QED BY <1>1, <1>2, <2>1, Received
  <2> QED BY <1>4, <2>2
<1> HIDE DEF U, n
<1>6. /\ BlocksOK(d.pool) /\ d.pool.cleanup = pool.cleanup /\ LargeOK(d.pool.large, heap) /\ d.at \in Regions
      /\ Placed(PoolHeld(d.pool) \cup (U \cup {Holding(t, c.at)}) \cup {Holding(u, d.at)}, d.pool.blocks, heap)
  BY <1>2, <1>4 DEF Sound
<1>7. t = <<"cleanup", Len(pool.cleanup) + 1>> /\ u = <<"data", Len(pool.cleanup) + 1>> BY DEF n
<1> HIDE DEF t, u
<1>8. PoolHeld(d.pool) \cup (U \cup {Holding(t, c.at)}) \cup {Holding(u, d.at)}
        = PoolHeld(d.pool) \cup U \cup {Holding(t, c.at)} \cup {Holding(u, d.at)}
  OBVIOUS
<1>9. Placed(PoolHeld(d.pool) \cup U \cup {Holding(t, c.at)} \cup {Holding(u, d.at)}, d.pool.blocks, heap) BY <1>6, <1>8
<1>10. fd \in Nat /\ {fd} \ {0} = {fd} BY MemoryPoolAssumption
<1>11. WellHeld(q, mine, heap, files \cup ({fd} \ {0}), array, list)
  <2>1. how \in {"none", "close", "delete"} OBVIOUS
  <2>2. Placed(PoolHeld(d.pool) \cup Others(mine, array, list) \cup {Holding(t, c.at)} \cup {Holding(u, d.at)}, d.pool.blocks, heap)
    BY <1>9 DEF U
  <2>3. fd \notin files /\ fd \in Nat BY <1>3, <1>10
  <2> HIDE DEF PoolInv, CleanupAdd
  <2> QED BY <1>1, <1>2, <1>6, <1>7, <2>1, <2>2, <2>3, CleanupKeeps
<1> HIDE DEF q
<1> QED BY <1>1, <1>3, <1>5, <1>10, <1>11 DEF PoolInv

\* uct_pool_run_cleanup_file keeps the invariant: the file is open.
LEMMA RunCleanupStep == ASSUME PoolInv, NEW fd \in Files, RunCleanupFile(fd) PROVE PoolInv'
<1> DEFINE listed == {k \in DOMAIN pool.cleanup : pool.cleanup[k].fd = fd /\ pool.cleanup[k].how = "close"}
           i == Min(listed)
<1>1. fd # 0 BY MemoryPoolAssumption
<1>2. i \in listed
  <2>1. pool.cleanup \in Seq(CleanupRecords) BY DEF PoolInv, WellHeld, BlocksOK, IsPool
  <2>2. listed \subseteq Nat BY <2>1
  <2>3. listed # {} BY DEF RunCleanupFile
  <2> HIDE DEF listed
  <2> QED BY <2>2, <2>3, MinIn
<1>3. /\ pool' = [pool EXCEPT !.cleanup[i].fd = 0] /\ heap' = heap \ {} /\ files' = files \ {fd}
      /\ misuse' = (misuse \/ ~({} \subseteq heap) \/ ~({fd} \subseteq files))
      /\ mine' = mine /\ array' = array /\ list' = list
  BY DEF RunCleanupFile, Release
<1>4. i \in DOMAIN pool.cleanup /\ pool.cleanup[i].fd = fd BY <1>2
<1> HIDE DEF i, listed
<1>5. fd \in files /\ WellHeld([pool EXCEPT !.cleanup[i].fd = 0], mine, heap, files \ {fd}, array, list)
  BY <1>1, <1>4, RunKeeps DEF PoolInv
<1>6. heap' = heap /\ misuse' = FALSE BY <1>3, <1>5 DEF PoolInv
<1> QED BY <1>3, <1>5, <1>6 DEF PoolInv

\* uct_reset_pool keeps the invariant: it frees what the records name, and
\* nobody holds anything after it, the listed cleanup records included.
LEMMA ResetStep == ASSUME PoolInv, ResetPool PROVE PoolInv'
<1> DEFINE bs == [k \in DOMAIN pool.blocks |-> NewBlock(PoolHead)]
           cl == Disowned(pool.cleanup)
           q == PoolOf(bs, 1, <<>>, cl)
<1>1. /\ pool.blocks \in Seq(BlockRecords) /\ Len(pool.blocks) >= 1 /\ LargeOK(pool.large, heap) /\ CleanupOK(pool.cleanup, files)
      /\ misuse = FALSE /\ pool.cleanup \in Seq(CleanupRecords)
  BY DEF PoolInv, WellHeld, BlocksOK, IsPool
<1>2. heap = Allocs(pool) BY <1>1 DEF LargeOK, Allocs
<1>3. /\ cl \in Seq(CleanupRecords) /\ CleanupOK(cl, files)
      /\ \A k \in DOMAIN cl : cl[k].at = Null /\ cl[k].data = Null
  BY <1>1, DisownedOK
<1>4. NewBlock(PoolHead) \in BlockRecords BY MemoryPoolAssumption DEF NewBlock, BlockRecords
<1>5. bs \in Seq(BlockRecords) /\ Len(bs) >= 1 /\ \A b \in 1 .. Len(bs) : bs[b] = NewBlock(PoolHead)
  <2>1. DOMAIN pool.blocks = 1 .. Len(pool.blocks) /\ Len(pool.blocks) \in Nat BY <1>1
  <2> QED BY <1>1, <1>4, <2>1
<1>6. [CreatePool EXCEPT !.blocks = bs, !.cleanup = cl] = q
  <2> HIDE DEF bs, cl
  <2>1. [CreatePool EXCEPT !.blocks = bs] = PoolOf(bs, 1, <<>>, <<>>) BY DEF CreatePool, PoolOf
  <2>2. [PoolOf(bs, 1, <<>>, <<>>) EXCEPT !.cleanup = cl] = q BY DEF PoolOf
  <2>3. [CreatePool EXCEPT !.blocks = bs, !.cleanup = cl] = [[CreatePool EXCEPT !.blocks = bs] EXCEPT !.cleanup = cl] OBVIOUS
  <2> QED BY <2>1, <2>2, <2>3
<1>7. pool' = q BY <1>6 DEF ResetPool
<1> HIDE DEF bs, cl
<1>8. BlocksOK(q) BY <1>3, <1>5, EmptyPool
<1>9. q.large = <<>> /\ q.cleanup = cl BY DEF PoolOf
<1> HIDE DEF q
<1>10. WellHeld(q, {}, {}, files, NoArray, NoList) BY <1>3, <1>8, <1>9, FreshHeld
<1>11. heap' = {} /\ files' = files /\ misuse' = FALSE /\ mine' = {} /\ array' = NoArray /\ list' = NoList
  BY <1>1, <1>2 DEF ResetPool, Release
<1> QED BY <1>7, <1>10, <1>11 DEF PoolInv

\* uct_destroy_pool keeps the invariant.
LEMMA DestroyStep == ASSUME PoolInv, DestroyPool PROVE PoolInv'
<1>1. LargeOK(pool.large, heap) /\ CleanupOK(pool.cleanup, files) /\ misuse = FALSE BY DEF PoolInv, WellHeld
<1>2. heap = Allocs(pool) /\ files = Opened(pool) BY <1>1 DEF LargeOK, CleanupOK, Allocs, Opened
<1>3. heap' = {} /\ files' = {} /\ misuse' = FALSE /\ mine' = {} /\ array' = NoArray /\ list' = NoList /\ pool' = CreatePool
  BY <1>1, <1>2 DEF DestroyPool, Release
<1> QED BY <1>3, CreatedHeld DEF PoolInv

\* uct_array_create keeps the invariant, also when its second allocation fails.
LEMMA ArrayCreateStep ==
    ASSUME PoolInv, Cardinality(heap) <= MaxLarge, NEW n \in 1 .. 2, NEW oom, ArrayCreate(n, oom)
    PROVE  PoolInv'
<1> DEFINE a == Palloc(pool, RecordSize, TRUE, oom)
           e == Palloc(a.pool, n, TRUE, oom)
           U == Others(mine, array, list)
           V == U \cup {Holding(<<"array", 1>>, a.at)}
           t == <<"array", 2>>
<1>1. /\ BlocksOK(pool) /\ LargeOK(pool.large, heap) /\ heap \subseteq Ids /\ Placed(PoolHeld(pool) \cup U, pool.blocks, heap)
      /\ CleanupOK(pool.cleanup, files) /\ mine \subseteq Regions \ {Null} /\ ListOK(list) /\ ArrayOK(array)
  BY DEF PoolInv, WellHeld
<1>2. a.at \in Regions /\ Sound(e, pool, V, heap, n)
  <2>1. n \in Nat \ {0} BY SMT
  <2> HIDE DEF U
  <2> QED BY <1>1, <2>1, TwoSound
<1>3. /\ array = NoArray /\ pool' = e.pool /\ heap' = heap \cup Heap(e.at)
      /\ array' = IF e.at = Null THEN NoArray ELSE ArrayOf(a.at, e.at, 0, n)
      /\ mine' = mine /\ files' = files /\ misuse' = misuse /\ list' = list
  BY DEF ArrayCreate, ArrayInit, Return, ArrayOf
<1> HIDE DEF e, a
<1>4. ArrayOK(array') /\ \A h \in ArrayHeld(array') : h \in ArrayHeld(array) \/ h = Holding(<<"array", 1>>, a.at) \/ h = Holding(t, e.at)
  <2>1. CASE e.at = Null
    <3>1. array' = array BY <1>3, <2>1
    <3> QED BY <1>1, <3>1
  <2>2. CASE e.at # Null
    <3>1. array' = ArrayOf(a.at, e.at, 0, n) BY <1>3, <2>2
    <3>2. e.at \in Regions /\ (e.at.b # 0 => e.at.hi - e.at.lo = n) BY <1>2 DEF Sound
    <3>3. PICK b : b = ArrayOf(a.at, e.at, 0, n) OBVIOUS
    <3>4. b \in Arrays /\ b.elts = e.at /\ b.nelts = 0 /\ b.nalloc = n /\ ArrayHeld(b) = {Holding(<<"array", 1>>, a.at), Holding(t, e.at)}
      BY <1>2, <3>2, <3>3, ArrayFields
    <3>5. ArrayOK(b) BY <3>2, <3>4 DEF ArrayOK
    <3> QED BY <3>1, <3>3, <3>4, <3>5
  <2> QED BY <2>1, <2>2
<1>5. \A h \in Others(mine, array', list) : h \in V \cup {Holding(t, e.at)} \/ h.at = Null BY <1>4 DEF Others
<1> HIDE DEF V, t
<1>6. WellHeld(e.pool, mine, heap \cup Heap(e.at), files, array', list) BY <1>1, <1>2, <1>4, <1>5, Received
<1> QED BY <1>3, <1>6 DEF PoolInv

\* uct_array_push_n keeps the invariant in each of its three cases.
LEMMA ArrayPushStep ==
    ASSUME PoolInv, Cardinality(heap) <= MaxLarge, NEW n \in 1 .. 2, NEW oom, ArrayPush(n, oom)
    PROVE  PoolInv'
<1> DEFINE wider == 2 * (IF n >= array.nalloc THEN n ELSE array.nalloc)
           r == Palloc(pool, wider, TRUE, oom)
           U == Others(mine, array, list)
           t == <<"array", 2>>
<1>1. /\ CleanupOK(pool.cleanup, files) /\ mine \subseteq Regions \ {Null} /\ ListOK(list) /\ ArrayOK(array)
      /\ WellHeld(pool, mine, heap, files, array, list) /\ misuse = FALSE
  BY DEF PoolInv, WellHeld
<1>2. /\ array \in Arrays /\ array.at \in Regions /\ array.elts \in Regions /\ array.nelts \in Nat /\ array.nalloc \in Nat
      /\ array.nelts <= array.nalloc /\ (array.elts.b # 0 => array.elts.hi - array.elts.lo = array.nalloc)
  BY <1>1 DEF ArrayOK, Arrays
<1>3. n \in Nat \ {0} BY SMT
<1>4. mine' = mine /\ files' = files /\ misuse' = misuse /\ list' = list BY DEF ArrayPush
<1>5. CASE /\ array.nelts + n <= array.nalloc
           /\ array' = [array EXCEPT !.nelts = @ + n] /\ pool' = pool /\ heap' = heap
  <2>1. array' = ArrayOf(array.at, array.elts, array.nelts + n, array.nalloc) BY <1>2, <1>5, ArrayCounts
  <2>2. PICK b : b = ArrayOf(array.at, array.elts, array.nelts + n, array.nalloc) OBVIOUS
  <2>3. array.nelts + n \in Nat BY <1>2, <1>3
  <2>4. b \in Arrays /\ b.elts = array.elts /\ b.nelts = array.nelts + n /\ b.nalloc = array.nalloc /\ ArrayHeld(b) = ArrayHeld(array)
    <3>1. ArrayHeld(array) = {Holding(<<"array", 1>>, array.at), Holding(t, array.elts)} BY DEF ArrayHeld
    <3> QED BY <1>2, <2>2, <2>3, <3>1, ArrayFields
  <2>5. ArrayOK(b) BY <1>2, <1>5, <2>4 DEF ArrayOK
  <2>6. Others(mine, b, list) = Others(mine, array, list) BY <2>4 DEF Others
  <2>7. WellHeld(pool, mine, heap, files, b, list) BY <1>1, <2>5, <2>6 DEF WellHeld
  <2> QED BY <1>1, <1>4, <1>5, <2>1, <2>2, <2>7 DEF PoolInv
<1>6. CASE /\ AtEnd(n) /\ pool' = [pool EXCEPT !.blocks[1].last = @ + n]
           /\ array' = [array EXCEPT !.nelts = @ + n, !.nalloc = @ + n, !.elts.hi = @ + n] /\ heap' = heap
  <2>1. WellHeld([pool EXCEPT !.blocks[1].last = @ + n], mine, heap, files,
                 [array EXCEPT !.nelts = @ + n, !.nalloc = @ + n, !.elts.hi = @ + n], list)
    BY <1>1, <1>3, <1>6, ArrayGrows DEF AtEnd
  <2> QED BY <1>1, <1>4, <1>6, <2>1, SMTT(30) DEF PoolInv
<1>7. CASE /\ Return(r)
           /\ array' = IF r.at = Null THEN array ELSE [array EXCEPT !.nelts = @ + n, !.nalloc = wider, !.elts = r.at]
  <2>1. wider \in Nat \ {0} /\ array.nelts + n <= wider /\ array.nelts + n \in Nat BY <1>2, <1>3
  <2> HIDE DEF wider
  <2>2. Sound(r, pool, U, heap, wider) BY <2>1, PallocHere
  <2>3. pool' = r.pool /\ heap' = heap \cup Heap(r.at) BY <1>7 DEF Return
  <2> HIDE DEF r
  <2>4. ArrayOK(array') /\ \A h \in ArrayHeld(array') : h \in ArrayHeld(array) \/ h = Holding(t, r.at)
    <3>1. CASE r.at = Null
      <4>1. array' = array BY <1>7, <3>1
      <4> QED BY <1>1, <4>1
    <3>2. CASE r.at # Null
      <4>1. array' = ArrayOf(array.at, r.at, array.nelts + n, wider)
        <5>1. array' = [array EXCEPT !.nelts = @ + n, !.nalloc = wider, !.elts = r.at] BY <1>7, <3>2
        <5> QED BY <1>2, <5>1, ArrayMoves
      <4>2. r.at \in Regions /\ (r.at.b # 0 => r.at.hi - r.at.lo = wider) BY <2>2 DEF Sound
      <4>3. PICK b : b = ArrayOf(array.at, r.at, array.nelts + n, wider) OBVIOUS
      <4>4. /\ b \in Arrays /\ b.elts = r.at /\ b.nelts = array.nelts + n /\ b.nalloc = wider
            /\ ArrayHeld(b) = {Holding(<<"array", 1>>, array.at), Holding(t, r.at)}
        BY <1>2, <2>1, <4>2, <4>3, ArrayFields
      <4>5. ArrayOK(b) BY <2>1, <4>2, <4>4 DEF ArrayOK
      <4>6. Holding(<<"array", 1>>, array.at) \in ArrayHeld(array) BY DEF ArrayHeld
      <4> QED BY <4>1, <4>3, <4>4, <4>5, <4>6
    <3> QED BY <3>1, <3>2
  <2>5. \A h \in Others(mine, array', list) : h \in U \cup {Holding(t, r.at)} \/ h.at = Null BY <2>4 DEF Others
  <2> HIDE DEF U, t
  <2>6. WellHeld(r.pool, mine, heap \cup Heap(r.at), files, array', list) BY <1>1, <2>2, <2>4, <2>5, Received
  <2> QED BY <1>1, <1>4, <2>3, <2>6 DEF PoolInv
<1> QED BY <1>5, <1>6, <1>7 DEF ArrayPush

\* uct_array_destroy keeps the invariant: what it gives back was the end of
\* the first block.
LEMMA ArrayDestroyStep == ASSUME PoolInv, ArrayDestroy PROVE PoolInv'
<1> DEFINE last1 == pool.blocks[1].last
           last2 == IF array.elts.b = 1 /\ array.elts.hi = last1 THEN array.elts.lo ELSE last1
           last3 == IF array.at.b = 1 /\ array.at.hi = last2 THEN array.at.lo ELSE last2
<1>1. /\ pool' = [pool EXCEPT !.blocks[1].last = last3] /\ array' = NoArray
      /\ mine' = mine /\ heap' = heap /\ files' = files /\ misuse' = misuse /\ list' = list
  BY DEF ArrayDestroy
<1>2. PICK n2 : n2 = last2 OBVIOUS
<1>3. last3 = IF array.at.b = 1 /\ array.at.hi = n2 THEN array.at.lo ELSE n2 BY <1>2
<1> HIDE DEF last3
<1>4. WellHeld([pool EXCEPT !.blocks[1].last = last3], mine, heap, files, NoArray, list)
  BY <1>2, <1>3, ArrayGone DEF PoolInv
<1> QED BY <1>1, <1>4 DEF PoolInv

\* uct_list_create keeps the invariant, also when its second allocation fails.
LEMMA ListCreateStep ==
    ASSUME PoolInv, Cardinality(heap) <= MaxLarge, NEW oom, ListCreate(oom)
    PROVE  PoolInv'
<1> DEFINE a == Palloc(pool, RecordSize, TRUE, oom)
           e == Palloc(a.pool, nalloc, TRUE, oom)
           U == Others(mine, array, list)
           V == U \cup {Holding(<<"list", 0>>, a.at)}
           t == <<"part", 1>>
<1>1. /\ BlocksOK(pool) /\ LargeOK(pool.large, heap) /\ heap \subseteq Ids /\ Placed(PoolHeld(pool) \cup U, pool.blocks, heap)
      /\ CleanupOK(pool.cleanup, files) /\ mine \subseteq Regions \ {Null} /\ ListOK(list) /\ ArrayOK(array)
  BY DEF PoolInv, WellHeld
<1>2. a.at \in Regions /\ Sound(e, pool, V, heap, nalloc)
  <2>1. nalloc \in Nat \ {0} BY DEF nalloc
  <2> HIDE DEF U
  <2> QED BY <1>1, <2>1, TwoSound
<1>3. /\ list = NoList /\ pool' = e.pool /\ heap' = heap \cup Heap(e.at)
      /\ list' = IF e.at = Null THEN NoList ELSE [at |-> a.at, parts |-> <<[rec |-> Null, at |-> e.at, nelts |-> 0]>>]
      /\ mine' = mine /\ files' = files /\ misuse' = misuse /\ array' = array
  BY DEF ListCreate, ListInit, Return
<1> HIDE DEF e, a
<1>4. ListOK(list') /\ \A h \in ListHeld(list') : \/ h \in ListHeld(list) \/ h = Holding(<<"list", 0>>, a.at)
                                                  \/ h = Holding(t, e.at) \/ h.at = Null
  <2>1. CASE e.at = Null
    <3>1. list' = list BY <1>3, <2>1
    <3> QED BY <1>1, <3>1
  <2>2. CASE e.at # Null
    <3>1. list' = [at |-> a.at, parts |-> <<[rec |-> Null, at |-> e.at, nelts |-> 0]>>] BY <1>3, <2>2
    <3>2. e.at \in Regions BY <1>2 DEF Sound
    <3> QED BY <1>2, <3>1, <3>2, ListMade
  <2> QED BY <2>1, <2>2
<1>5. \A h \in Others(mine, array, list') : h \in V \cup {Holding(t, e.at)} \/ h.at = Null BY <1>4 DEF Others
<1> HIDE DEF V, t
<1>6. WellHeld(e.pool, mine, heap \cup Heap(e.at), files, array, list') BY <1>1, <1>2, <1>4, <1>5, Received
<1> QED BY <1>3, <1>6 DEF PoolInv

\* uct_list_push keeps the invariant, in the last part and with a new one.
LEMMA ListPushStep ==
    ASSUME PoolInv, Cardinality(heap) <= MaxLarge, NEW oom, ListPush(oom)
    PROVE  PoolInv'
<1> DEFINE a == Palloc(pool, RecordSize, TRUE, oom)
           e == Palloc(a.pool, nalloc, TRUE, oom)
           U == Others(mine, array, list)
           k == Len(list.parts) + 1
           V == U \cup {Holding(<<"record", k>>, a.at)}
           t == <<"part", k>>
<1>1. /\ BlocksOK(pool) /\ LargeOK(pool.large, heap) /\ heap \subseteq Ids /\ Placed(PoolHeld(pool) \cup U, pool.blocks, heap)
      /\ CleanupOK(pool.cleanup, files) /\ mine \subseteq Regions \ {Null} /\ ListOK(list) /\ ArrayOK(array)
      /\ WellHeld(pool, mine, heap, files, array, list) /\ misuse = FALSE
  BY DEF PoolInv, WellHeld
<1>2. list \in Lists /\ list.parts # <<>> BY <1>1 DEF ListOK, ListPush
<1>3. mine' = mine /\ files' = files /\ misuse' = misuse /\ array' = array BY DEF ListPush
<1>4. CASE list' = [list EXCEPT !.parts[Len(list.parts)].nelts = @ + 1] /\ pool' = pool /\ heap' = heap
  <2>1. ListOK(list') /\ ListHeld(list') = ListHeld(list) BY <1>2, <1>4, ListCounts
  <2>2. Others(mine, array, list') = Others(mine, array, list) BY <2>1 DEF Others
  <2>3. WellHeld(pool, mine, heap, files, array, list') BY <1>1, <2>1, <2>2 DEF WellHeld
  <2> QED BY <1>1, <1>3, <1>4, <2>3 DEF PoolInv
<1>5. CASE /\ Return(e)
           /\ list' = IF e.at = Null THEN list ELSE [list EXCEPT !.parts = Append(@, [rec |-> a.at, at |-> e.at, nelts |-> 1])]
  <2>1. a.at \in Regions /\ Sound(e, pool, V, heap, nalloc)
    <3>1. nalloc \in Nat \ {0} BY DEF nalloc
    <3> HIDE DEF U, k
    <3> QED BY <1>1, <3>1, TwoSound
  <2>2. pool' = e.pool /\ heap' = heap \cup Heap(e.at) BY <1>5 DEF Return
  <2> HIDE DEF e, a
  <2>3. ListOK(list') /\ \A h \in ListHeld(list') : \/ h \in ListHeld(list) \/ h = Holding(<<"record", k>>, a.at)
                                                    \/ h = Holding(t, e.at)
    <3>1. CASE e.at = Null
      <4>1. list' = list BY <1>5, <3>1
      <4> QED BY <1>1, <4>1
    <3>2. CASE e.at # Null
      <4>1. list' = [list EXCEPT !.parts = Append(@, [rec |-> a.at, at |-> e.at, nelts |-> 1])] BY <1>5, <3>2
      <4>2. e.at \in Regions BY <2>1 DEF Sound
      <4> QED BY <1>2, <2>1, <4>1, <4>2, ListGrows
    <3> QED BY <3>1, <3>2
  <2>4. \A h \in Others(mine, array, list') : h \in V \cup {Holding(t, e.at)} \/ h.at = Null BY <2>3 DEF Others
  <2> HIDE DEF V, t, k
  <2>5. WellHeld(e.pool, mine, heap \cup Heap(e.at), files, array, list') BY <1>1, <2>1, <2>3, <2>4, Received
  <2> QED BY <1>1, <1>3, <2>2, <2>5 DEF PoolInv
<1> QED BY <1>4, <1>5 DEF ListPush

-----------------------------------------------------------------------------
\* Every step of the pool, the array and the list keeps the invariant.
LEMMA PoolInvariance == PoolSpec => []PoolInv
<1>1. PoolInv /\ [PoolNext]_memVars => PoolInv'
  <2> SUFFICES ASSUME PoolInv, [PoolNext]_memVars PROVE PoolInv' OBVIOUS
  <2>1. CASE UNCHANGED memVars BY <2>1 DEF memVars, PoolInv
  <2>2. CASE PoolNext
    <3>1. Cardinality(heap) <= MaxLarge BY <2>2 DEF PoolNext
    <3>0. CASE StrayWalk BY <3>0 DEF StrayWalk, PoolInv
    <3>2. ASSUME NEW size \in Sizes, NEW align \in BOOLEAN, NEW oom \in Oom, Alloc(size, align, oom) PROVE PoolInv'
      BY <3>1, <3>2, AllocStep
    <3>3. ASSUME NEW oom \in Oom, Pmemalign(oom) PROVE PoolInv' BY <3>1, <3>3, PmemalignStep
    <3>4. ASSUME NEW oom \in Oom, NEW fd \in Files, NEW how \in {"close", "delete"}, CleanupAdd(fd, how, oom) PROVE PoolInv'
      BY <3>4, CleanupAddStep
    <3>14. ASSUME NEW oom \in Oom, CleanupAddBare(oom) PROVE PoolInv' BY <3>14, CleanupBareStep
    <3>5. ASSUME NEW oom \in Oom, NEW n \in 1 .. 2, ArrayCreate(n, oom) PROVE PoolInv' BY <3>1, <3>5, ArrayCreateStep
    <3>6. ASSUME NEW oom \in Oom, NEW n \in 1 .. 2, ArrayPush(n, oom) PROVE PoolInv' BY <3>1, <3>6, ArrayPushStep
    <3>7. ASSUME NEW oom \in Oom, ListCreate(oom) PROVE PoolInv' BY <3>1, <3>7, ListCreateStep
    <3>8. ASSUME NEW oom \in Oom, ListPush(oom) PROVE PoolInv' BY <3>1, <3>8, ListPushStep
    <3>9. ASSUME NEW r \in mine, Pfree(r) PROVE PoolInv' BY <3>9, PfreeStep
    <3>10. ASSUME NEW fd \in Files, RunCleanupFile(fd) PROVE PoolInv' BY <3>10, RunCleanupStep
    <3>11. CASE ArrayDestroy BY <3>11, ArrayDestroyStep
    <3>12. CASE ResetPool BY <3>12, ResetStep
    <3>13. CASE DestroyPool BY <3>13, DestroyStep
    <3>15. Call => PoolInv' BY <3>2, <3>3, <3>4, <3>5, <3>6, <3>7, <3>8, <3>9, <3>10, <3>11, <3>12, <3>13, <3>14 DEF Call
    <3> QED BY <2>2, <3>0, <3>15 DEF PoolNext
  <2> QED BY <2>1, <2>2
<1> QED BY PoolStart, <1>1, PTL DEF PoolSpec

\* For every block size, header size and alignment: no two holders share
\* memory, none reaches over the header, the end or the unused part of its
\* block, and the array has room for the elements uct_array_push handed out,
\* after any sequence of calls, resets with listed cleanups included.  Such
\* cleanups are no holders any more: uct_reset_pool gives their memory out again.
THEOREM PoolNoOverlap == PoolSpec => []NoOverlap
<1>1. PoolInv => NoOverlap
  <2> SUFFICES ASSUME PoolInv PROVE NoOverlap OBVIOUS
  <2> DEFINE H == PoolHeld(pool) \cup Others(mine, array, list)
  <2>1. Placed(H, pool.blocks, heap) /\ ArrayOK(array) /\ BlocksOK(pool) BY DEF PoolInv, WellHeld
  <2>2. Held = {h \in H : h.at # Null} BY DEF Held, Others
  <2> HIDE DEF H
  <2>3. \A g, h \in Held : g # h => Apart(g.at, h.at) BY <2>1, <2>2 DEF Placed
  <2>4. ASSUME NEW h \in Held, h.at.b # 0
        PROVE  /\ h.at.lo >= (IF h.at.b = 1 THEN PoolHead ELSE DataHead)
               /\ h.at.hi <= pool.blocks[h.at.b].last /\ h.at.hi <= PoolSize
    <3>1. Inside(h.at, pool.blocks, heap) BY <2>1, <2>2 DEF Placed
    <3>2. h.at.b \in Nat /\ h.at.lo \in Nat /\ h.at.hi \in Nat BY <3>1 DEF Inside, Regions
    <3>3. pool.blocks \in Seq(BlockRecords) /\ FillOK(pool.blocks) BY <2>1 DEF BlocksOK, IsPool
    <3>4. h.at.b \in 1 .. Len(pool.blocks) BY <2>4, <3>1, <3>2, <3>3 DEF Inside
    <3>5. pool.blocks[h.at.b].last \in Nat /\ pool.blocks[h.at.b].last <= PoolSize BY <3>3, <3>4, BlockTypes DEF FillOK
    <3>6. PoolHead \in Nat /\ DataHead \in Nat /\ PoolSize \in Nat BY MemoryPoolAssumption
    <3>7. Begin(h.at.b) <= h.at.lo /\ h.at.hi <= pool.blocks[h.at.b].last BY <2>4, <3>1 DEF Inside
    <3> QED BY <3>2, <3>5, <3>6, <3>7 DEF Begin
  <2> QED BY <2>1, <2>3, <2>4 DEF NoOverlap, ArrayOK
<1> QED BY <1>1, PoolInvariance, PTL

\* Large areas are on the heap exactly as long as one record names them, and
\* nothing is freed or closed twice, by any sequence of calls in which no walk
\* comes to a cleanup record written over after a reset.
THEOREM PoolFreedOnce == PoolSpec => []FreedOnce
<1>1. PoolInv => FreedOnce
  <2> SUFFICES ASSUME PoolInv PROVE FreedOnce OBVIOUS
  <2> DEFINE K == {k \in DOMAIN pool.large : pool.large[k].alloc # 0}
             F == [k \in K |-> pool.large[k].alloc]
  <2>1. misuse = FALSE /\ LargeOK(pool.large, heap) /\ pool.large \in Seq(LargeRecords)
    BY DEF PoolInv, WellHeld, BlocksOK, IsPool
  <2>2. heap = Allocs(pool) BY <2>1 DEF LargeOK, Allocs
  <2>3. IsFiniteSet(K)
    <3>1. DOMAIN pool.large = 1 .. Len(pool.large) /\ Len(pool.large) \in Nat BY <2>1
    <3>2. IsFiniteSet(1 .. Len(pool.large)) BY <3>1, FS_Interval
    <3> QED BY <3>1, <3>2, FS_Subset
  <2>4. F \in Bijection(K, heap)
    <3>1. \A k \in K : F[k] \in heap BY <2>1 DEF LargeOK
    <3>2. \A j, k \in K : F[j] = F[k] => j = k BY <2>1 DEF LargeOK
    <3>3. \A x \in heap : \E k \in K : F[k] = x BY <2>1 DEF LargeOK
    <3> HIDE DEF K
    <3> QED BY <3>1, <3>2, <3>3 DEF Bijection, Injection, Surjection, IsInjective
  <2> HIDE DEF F
  <2>5. Cardinality(heap) = Cardinality(K) BY <2>3, <2>4, FS_Bijection DEF ExistsBijection
  <2> QED BY <2>1, <2>2, <2>5 DEF FreedOnce
<1> QED BY <1>1, PoolInvariance, PTL

-----------------------------------------------------------------------------
(* Sums along a chain *)

\* One more summand, as the loop of Sums adds it.
PlusNext(sizes, f, k) == IF k = 0 THEN 0 ELSE f[k - 1] + sizes[k]

\* f is the table of the running totals up to n.
IsSums(sizes, n, f) == f = [k \in 0 .. n |-> PlusNext(sizes, f, k)]

\* There is such a table: the first n without one would have one, from that of
\* n - 1 and one more summand.
LEMMA SumsExist ==
    ASSUME NEW sizes, NEW n \in Nat
    PROVE  \E f : IsSums(sizes, n, f)
<1> DEFINE Bad == {m \in Nat : ~ \E f : IsSums(sizes, m, f)}
<1>1. SUFFICES ASSUME Bad # {} PROVE FALSE OBVIOUS
<1>2. PICK m \in Bad : \A q \in Bad : m <= q
  <2> HIDE DEF Bad
  <2>1. Bad \subseteq Nat BY DEF Bad
  <2> QED BY <1>1, <2>1, LeastNumber
<1>3. CASE m = 0
  <2> DEFINE f == [k \in 0 .. 0 |-> 0]
  <2>1. f = [k \in 0 .. 0 |-> PlusNext(sizes, f, k)] BY DEF PlusNext
  <2> QED BY <1>3, <2>1 DEF IsSums
<1>4. CASE m # 0
  <2>1. m - 1 \in Nat /\ m - 1 \notin Bad BY <1>2, <1>4
  <2>2. PICK g : IsSums(sizes, m - 1, g) BY <2>1
  <2> DEFINE f == [k \in 0 .. m |-> IF k = m THEN PlusNext(sizes, g, m) ELSE g[k]]
  <2>3. ASSUME NEW k \in 0 .. m PROVE f[k] = PlusNext(sizes, f, k)
    <3>1. CASE k = m
      <4>1. f[m - 1] = g[m - 1] BY <2>1
      <4> QED BY <1>4, <3>1, <4>1 DEF PlusNext
    <3>2. CASE k # m
      <4>1. k \in 0 .. m - 1 /\ (k # 0 => k - 1 \in 0 .. m - 1 /\ k - 1 # m /\ k - 1 \in 0 .. m) BY <2>1, <3>2
      <4>2. g[k] = PlusNext(sizes, g, k) BY <2>2, <4>1 DEF IsSums
      <4>3. k # 0 => f[k - 1] = g[k - 1] BY <4>1
      <4>4. PlusNext(sizes, f, k) = PlusNext(sizes, g, k) BY <4>3 DEF PlusNext
      <4> QED BY <3>2, <4>2, <4>4
    <3> QED BY <3>1, <3>2
  <2>4. f = [k \in 0 .. m |-> PlusNext(sizes, f, k)]
    <3>1. f = [k \in 0 .. m |-> f[k]] OBVIOUS
    <3> HIDE DEF f
    <3> QED BY <2>3, <3>1
  <2> QED BY <2>4 DEF IsSums
<1> QED BY <1>3, <1>4

\* The running totals begin at 0 and grow by one summand each.
LEMMA SumsStep ==
    ASSUME NEW s \in Seq(Nat)
    PROVE  /\ Sums(s)[0] = 0
           /\ \A k \in 1 .. Len(s) : Sums(s)[k] = Sums(s)[k - 1] + s[k]
<1> DEFINE n == Len(s)
           F == CHOOSE f : f = [k \in 0 .. Len(s) |-> PlusNext(s, f, k)]
<1>1. n \in Nat OBVIOUS
<1>2. Sums(s) = F BY DEF Sums, PlusNext
<1>3. IsSums(s, n, F) BY <1>1, SumsExist DEF IsSums
<1> HIDE DEF F
<1>4. \A k \in 0 .. n : F[k] = PlusNext(s, F, k) BY <1>3 DEF IsSums
<1>5. F[0] = 0 BY <1>1, <1>4 DEF PlusNext
<1>6. ASSUME NEW k \in 1 .. n PROVE F[k] = F[k - 1] + s[k]
  <2>1. k \in 0 .. n /\ k # 0 BY <1>1
  <2> QED BY <1>4, <2>1 DEF PlusNext
<1> QED BY <1>2, <1>5, <1>6

\* They are natural numbers.
LEMMA SumsNat ==
    ASSUME NEW s \in Seq(Nat)
    PROVE  \A k \in 0 .. Len(s) : Sums(s)[k] \in Nat
<1> DEFINE n == Len(s)
           F == Sums(s)
           Bad == {k \in 0 .. n : F[k] \notin Nat}
<1>1. n \in Nat /\ F[0] = 0 /\ \A k \in 1 .. n : F[k] = F[k - 1] + s[k] /\ s[k] \in Nat BY SumsStep
<1> HIDE DEF F
<1>2. SUFFICES ASSUME Bad # {} PROVE FALSE BY DEF F
<1>3. PICK k \in Bad : \A q \in Bad : k <= q
  <2>1. Bad \subseteq Nat BY <1>1
  <2> HIDE DEF Bad
  <2> QED BY <1>2, <2>1, LeastNumber
<1>4. k \in 1 .. n /\ k - 1 \in 0 .. n /\ k - 1 \notin Bad BY <1>1, <1>3
<1>5. F[k - 1] \in Nat BY <1>4
<1>6. F[k] \in Nat BY <1>1, <1>4, <1>5
<1> QED BY <1>3, <1>6

\* The total of two chains one behind the other.
LEMMA TotalConcat ==
    ASSUME NEW s \in Seq(Nat), NEW t \in Seq(Nat)
    PROVE  /\ Total(s \o t) = Total(s) + Total(t)
           /\ Total(s) \in Nat /\ Total(t) \in Nat
<1> DEFINE n == Len(s)
           m == Len(t)
           u == s \o t
           S == Sums(s)
           T == Sums(t)
           U == Sums(u)
<1>1. n \in Nat /\ m \in Nat /\ u \in Seq(Nat) /\ Len(u) = n + m OBVIOUS
<1>2. \A k \in 1 .. n : u[k] = s[k] /\ s[k] \in Nat OBVIOUS
<1>3. \A k \in 1 .. m : u[n + k] = t[k] /\ t[k] \in Nat OBVIOUS
<1>4. S[0] = 0 /\ \A k \in 1 .. n : S[k] = S[k - 1] + s[k] BY SumsStep
<1>5. T[0] = 0 /\ \A k \in 1 .. m : T[k] = T[k - 1] + t[k] BY SumsStep
<1>6. U[0] = 0 /\ \A k \in 1 .. n + m : U[k] = U[k - 1] + u[k] BY <1>1, SumsStep
<1>7. \A k \in 0 .. n : S[k] \in Nat BY SumsNat
<1>8. \A k \in 0 .. m : T[k] \in Nat BY SumsNat
<1>9. Total(u) = U[n + m] /\ Total(s) = S[n] /\ Total(t) = T[m] BY <1>1 DEF Total
<1> HIDE DEF S, T, U, u, n, m
<1>10. \A k \in 0 .. n : U[k] = S[k]
  <2> DEFINE Bad == {k \in 0 .. n : U[k] # S[k]}
  <2>1. SUFFICES ASSUME Bad # {} PROVE FALSE OBVIOUS
  <2>2. PICK k \in Bad : \A q \in Bad : k <= q
    <3>1. Bad \subseteq Nat BY <1>1
    <3> HIDE DEF Bad
    <3> QED BY <2>1, <3>1, LeastNumber
  <2>3. k \in 1 .. n /\ k \in 1 .. n + m /\ k - 1 \in 0 .. n /\ k - 1 \notin Bad BY <1>1, <1>4, <1>6, <2>2
  <2>4. U[k - 1] = S[k - 1] BY <2>3
  <2>5. U[k] = S[k] BY <1>2, <1>4, <1>6, <2>3, <2>4
  <2> QED BY <2>2, <2>5
<1>11. \A k \in 0 .. m : U[n + k] = S[n] + T[k]
  <2> DEFINE Bad == {k \in 0 .. m : U[n + k] # S[n] + T[k]}
  <2>1. SUFFICES ASSUME Bad # {} PROVE FALSE OBVIOUS
  <2>2. PICK k \in Bad : \A q \in Bad : k <= q
    <3>1. Bad \subseteq Nat BY <1>1
    <3> HIDE DEF Bad
    <3> QED BY <2>1, <3>1, LeastNumber
  <2>3. k # 0
    <3>1. n \in 0 .. n /\ n + 0 = n BY <1>1
    <3>2. S[n] \in Nat BY <1>7, <3>1
    <3>3. U[n + 0] = S[n] + T[0] BY <1>5, <1>10, <3>1, <3>2
    <3> QED BY <2>2, <3>3
  <2>4. k \in 1 .. m /\ k - 1 \in 0 .. m /\ k - 1 \notin Bad /\ n + k \in 1 .. n + m /\ n + k - 1 = n + (k - 1)
    BY <1>1, <2>2, <2>3
  <2>5. U[n + (k - 1)] = S[n] + T[k - 1] BY <2>4
  <2>6. U[n + k] = U[n + (k - 1)] + t[k]
    <3>1. PICK j \in 1 .. n + m : j = n + k BY <2>4
    <3>2. U[j] = U[j - 1] + u[j] BY <1>6
    <3>3. u[j] = t[k] BY <1>3, <2>4, <3>1
    <3>4. j - 1 = n + (k - 1) BY <1>1, <2>4, <3>1
    <3> QED BY <3>1, <3>2, <3>3, <3>4
  <2>7. S[n] \in Nat /\ T[k - 1] \in Nat /\ t[k] \in Nat /\ T[k] = T[k - 1] + t[k]
    <3>1. n \in 0 .. n BY <1>1
    <3> QED BY <1>3, <1>5, <1>7, <1>8, <2>4, <3>1
  <2>8. U[n + k] = S[n] + T[k] BY <2>5, <2>6, <2>7
  <2> QED BY <2>2, <2>8
<1>12. m \in 0 .. m /\ n \in 0 .. n BY <1>1
<1> QED BY <1>7, <1>8, <1>9, <1>11, <1>12 DEF u

\* Empty buffers hold nothing.
LEMMA TotalZero ==
    ASSUME NEW s \in Seq(Nat), \A k \in 1 .. Len(s) : s[k] = 0
    PROVE  Total(s) = 0
<1> DEFINE n == Len(s)
           F == Sums(s)
           Bad == {k \in 0 .. n : F[k] # 0}
<1>1. n \in Nat /\ F[0] = 0 /\ \A k \in 1 .. n : F[k] = F[k - 1] + s[k] BY SumsStep
<1>2. Total(s) = F[n] BY DEF Total
<1> HIDE DEF F
<1>3. SUFFICES ASSUME Bad # {} PROVE FALSE BY <1>1, <1>2
<1>4. PICK k \in Bad : \A q \in Bad : k <= q
  <2>1. Bad \subseteq Nat BY <1>1
  <2> HIDE DEF Bad
  <2> QED BY <1>3, <2>1, LeastNumber
<1>5. k \in 1 .. n /\ k - 1 \in 0 .. n /\ k - 1 \notin Bad BY <1>1, <1>4
<1>6. F[k - 1] = 0 /\ s[k] = 0 BY <1>5
<1>7. F[k] = 0 BY <1>1, <1>5, <1>6
<1> QED BY <1>4, <1>7

\* Sending takes from a chain what was sent, buffer by buffer from the front.
LEMMA TotalLeft ==
    ASSUME NEW s \in Seq(Nat), NEW sent \in Nat, sent <= Total(s),
           NEW t \in Seq(Nat), Len(t) = Len(s), \A k \in 1 .. Len(s) : t[k] = Left(s, sent, k)
    PROVE  Total(t) = Total(s) - sent
<1> DEFINE n == Len(s)
           S == Sums(s)
           T == Sums(t)
           Rest(k) == IF S[k] <= sent THEN 0 ELSE S[k] - sent
           Bad == {k \in 0 .. n : T[k] # Rest(k)}
<1>1. n \in Nat /\ S[0] = 0 /\ \A k \in 1 .. n : S[k] = S[k - 1] + s[k] /\ s[k] \in Nat BY SumsStep
<1>2. T[0] = 0 /\ \A k \in 1 .. n : T[k] = T[k - 1] + t[k] BY SumsStep
<1>3. \A k \in 0 .. n : S[k] \in Nat BY SumsNat
<1>4. \A k \in 1 .. n : t[k] = IF sent >= S[k] THEN 0 ELSE IF sent > S[k - 1] THEN S[k] - sent ELSE s[k] BY DEF Left
<1>5. Total(s) = S[n] /\ Total(t) = T[n] BY DEF Total
<1> HIDE DEF S, T, n
<1>6. \A k \in 0 .. n : T[k] = Rest(k)
  <2>1. SUFFICES ASSUME Bad # {} PROVE FALSE OBVIOUS
  <2>2. PICK k \in Bad : \A q \in Bad : k <= q
    <3>1. Bad \subseteq Nat BY <1>1
    <3> HIDE DEF Bad
    <3> QED BY <2>1, <3>1, LeastNumber
  <2>3. k # 0 BY <1>1, <1>2, <2>2
  <2>4. k \in 1 .. n /\ k - 1 \in 0 .. n /\ k - 1 \notin Bad BY <1>1, <2>2, <2>3
  <2>5. T[k - 1] = Rest(k - 1) BY <2>4
  <2>6. S[k] = S[k - 1] + s[k] /\ s[k] \in Nat /\ S[k - 1] \in Nat /\ S[k] \in Nat BY <1>1, <1>3, <2>4
  <2>7. T[k] = T[k - 1] + t[k] BY <1>2, <2>4
  <2>8. t[k] = IF sent >= S[k] THEN 0 ELSE IF sent > S[k - 1] THEN S[k] - sent ELSE s[k] BY <1>4, <2>4
  <2>9. T[k] = Rest(k)
    <3>1. T[k - 1] = IF S[k - 1] <= sent THEN 0 ELSE S[k - 1] - sent BY <2>5
    <3>2. CASE sent >= S[k]
      <4>1. T[k - 1] = 0 /\ t[k] = 0 BY <2>6, <2>8, <3>1, <3>2
      <4> QED BY <2>6, <2>7, <3>2, <4>1
    <3>3. CASE sent < S[k] /\ sent > S[k - 1]
      <4>1. T[k - 1] = 0 /\ t[k] = S[k] - sent BY <2>6, <2>8, <3>1, <3>3
      <4> QED BY <2>6, <2>7, <3>3, <4>1
    <3>4. CASE sent < S[k] /\ sent <= S[k - 1]
      <4>1. T[k - 1] = S[k - 1] - sent /\ t[k] = s[k] BY <2>6, <2>8, <3>1, <3>4
      <4> QED BY <2>6, <2>7, <3>4, <4>1
    <3> QED BY <2>6, <3>2, <3>3, <3>4
  <2> QED BY <2>2, <2>9
<1>7. n \in 0 .. n BY <1>1
<1> QED BY <1>3, <1>5, <1>6, <1>7

\* What is left of a buffer is a number of bytes.
LEMMA LeftNat ==
    ASSUME NEW s \in Seq(Nat), NEW sent \in Nat, NEW k \in 1 .. Len(s)
    PROVE  Left(s, sent, k) \in Nat
<1>1. k \in 0 .. Len(s) /\ k - 1 \in 0 .. Len(s) /\ s[k] \in Nat OBVIOUS
<1>2. Sums(s)[k] \in Nat /\ Sums(s)[k - 1] \in Nat BY <1>1, SumsNat
<1> QED BY <1>1, <1>2 DEF Left

-----------------------------------------------------------------------------
(* Links in chains *)

\* No link is in two of the chains or twice in one.
Distinct(s, f, h) ==
    /\ IsInjective(s) /\ IsInjective(f) /\ IsInjective(h)
    /\ Range(s) \cap Range(f) = {} /\ Range(s) \cap Range(h) = {} /\ Range(f) \cap Range(h) = {}

Tags == {"own", "other", "none"}
Buffers == [tag : Tags, unsent : Nat]

BufTyped ==
    /\ bufs \in Seq(Buffers) /\ filled \in Nat /\ flushed \in Nat
    /\ spare \in Seq(1 .. Len(bufs)) /\ free \in Seq(1 .. Len(bufs))
    /\ busy \in Seq(1 .. Len(bufs)) /\ out \in Seq(1 .. Len(bufs))

\* The inductive invariant of the chains.
BufInv ==
    /\ BufTyped
    /\ Distinct(spare, free, busy \o out)
    /\ \A k \in DOMAIN free : bufs[free[k]] = [tag |-> "own", unsent |-> 0]
    /\ filled = flushed + Total(Unsent(busy \o out))

\* What a range is, for a sequence.
LEMMA InRange ==
    ASSUME NEW S, NEW s \in Seq(S)
    PROVE  /\ Range(s) \subseteq S
           /\ \A k \in 1 .. Len(s) : s[k] \in Range(s)
           /\ \A l \in Range(s) : \E k \in 1 .. Len(s) : s[k] = l
<1>1. DOMAIN s = 1 .. Len(s) /\ \A k \in 1 .. Len(s) : s[k] \in S OBVIOUS
<1> QED BY <1>1 DEF Range

\* One chain behind another.
LEMMA InjConcat ==
    ASSUME NEW S, NEW s \in Seq(S), NEW t \in Seq(S), IsInjective(s), IsInjective(t), Range(s) \cap Range(t) = {}
    PROVE  IsInjective(s \o t) /\ Range(s \o t) = Range(s) \cup Range(t)
<1> DEFINE n == Len(s)
           m == Len(t)
           u == s \o t
<1>1. n \in Nat /\ m \in Nat /\ u \in Seq(S) /\ Len(u) = n + m /\ DOMAIN u = 1 .. n + m
  OBVIOUS
<1>2. DOMAIN s = 1 .. n /\ DOMAIN t = 1 .. m OBVIOUS
<1>3. \A k \in 1 .. n : u[k] = s[k] OBVIOUS
<1>4. \A k \in n + 1 .. n + m : u[k] = t[k - n] /\ k - n \in 1 .. m OBVIOUS
<1> HIDE DEF u, n, m
<1>5. ASSUME NEW a \in 1 .. n + m, NEW b \in 1 .. n + m, u[a] = u[b] PROVE a = b
  <2>1. CASE a \in 1 .. n /\ b \in 1 .. n BY <1>2, <1>3, <1>5, <2>1 DEF IsInjective
  <2>2. CASE a \in n + 1 .. n + m /\ b \in n + 1 .. n + m
    <3>1. t[a - n] = t[b - n] /\ a - n \in 1 .. m /\ b - n \in 1 .. m BY <1>4, <1>5, <2>2
    <3>2. a - n = b - n BY <1>2, <3>1 DEF IsInjective
    <3> QED BY <1>1, <3>2
  <2>3. CASE a \in 1 .. n /\ b \in n + 1 .. n + m
    <3>1. s[a] = t[b - n] /\ b - n \in 1 .. m BY <1>3, <1>4, <1>5, <2>3
    <3>2. s[a] \in Range(s) /\ t[b - n] \in Range(t) BY <1>2, <2>3, <3>1 DEF Range
    <3> QED BY <3>1, <3>2
  <2>4. CASE b \in 1 .. n /\ a \in n + 1 .. n + m
    <3>1. s[b] = t[a - n] /\ a - n \in 1 .. m BY <1>3, <1>4, <1>5, <2>4
    <3>2. s[b] \in Range(s) /\ t[a - n] \in Range(t) BY <1>2, <2>4, <3>1 DEF Range
    <3> QED BY <3>1, <3>2
  <2> QED BY <1>1, <2>1, <2>2, <2>3, <2>4
<1>6. IsInjective(u) BY <1>1, <1>5 DEF IsInjective
<1>7. Range(u) = Range(s) \cup Range(t) BY RangeConcatenation DEF u
<1> QED BY <1>6, <1>7 DEF u

\* The front of a chain.
LEMMA InjFront ==
    ASSUME NEW S, NEW s \in Seq(S), IsInjective(s), NEW k \in 0 .. Len(s)
    PROVE  /\ SubSeq(s, 1, k) \in Seq(S) /\ Len(SubSeq(s, 1, k)) = k
           /\ IsInjective(SubSeq(s, 1, k)) /\ Range(SubSeq(s, 1, k)) \subseteq Range(s)
           /\ \A j \in 1 .. k : SubSeq(s, 1, k)[j] = s[j]
<1> DEFINE n == Len(s)
           a == SubSeq(s, 1, k)
<1>1. n \in Nat /\ k \in Nat /\ k <= n /\ DOMAIN s = 1 .. n OBVIOUS
<1>2. a \in Seq(S) /\ Len(a) = k /\ DOMAIN a = 1 .. k /\ \A j \in 1 .. k : a[j] = s[j]
  <2>1. \A j \in 1 .. k : s[j] \in S BY <1>1
  <2> QED BY <1>1, <2>1, SubSeqProperties
<1> HIDE DEF n, a
<1>3. IsInjective(a)
  <2>1. ASSUME NEW i \in 1 .. k, NEW j \in 1 .. k, a[i] = a[j] PROVE i = j
    <3>1. i \in 1 .. n /\ j \in 1 .. n /\ s[i] = s[j] BY <1>1, <1>2, <2>1
    <3> QED BY <1>1, <3>1 DEF IsInjective
  <2> QED BY <1>2, <2>1 DEF IsInjective
<1>4. Range(a) \subseteq Range(s)
  <2> SUFFICES ASSUME NEW l \in Range(a) PROVE l \in Range(s) OBVIOUS
  <2>1. PICK j \in 1 .. k : l = a[j] BY <1>2 DEF Range
  <2>2. j \in 1 .. n /\ l = s[j] BY <1>1, <1>2, <2>1
  <2> QED BY <1>1, <2>2 DEF Range
<1> QED BY <1>2, <1>3, <1>4 DEF a

\* The rest of a chain.
LEMMA InjRest ==
    ASSUME NEW S, NEW s \in Seq(S), IsInjective(s), NEW k \in 0 .. Len(s)
    PROVE  /\ SubSeq(s, k + 1, Len(s)) \in Seq(S) /\ Len(SubSeq(s, k + 1, Len(s))) = Len(s) - k
           /\ IsInjective(SubSeq(s, k + 1, Len(s))) /\ Range(SubSeq(s, k + 1, Len(s))) \subseteq Range(s)
           /\ \A j \in 1 .. Len(s) - k : SubSeq(s, k + 1, Len(s))[j] = s[k + j]
           /\ \A j \in 1 .. k : s[j] \notin Range(SubSeq(s, k + 1, Len(s)))
<1> DEFINE n == Len(s)
           b == SubSeq(s, k + 1, n)
<1>1. n \in Nat /\ k \in Nat /\ k <= n /\ DOMAIN s = 1 .. n OBVIOUS
<1>2. b \in Seq(S) /\ Len(b) = n - k /\ DOMAIN b = 1 .. n - k /\ \A j \in 1 .. n - k : b[j] = s[k + j]
  <2>1. \A j \in k + 1 .. n : s[j] \in S BY <1>1
  <2>2. PICK m \in Int : m = k + 1 BY <1>1
  <2>3. /\ SubSeq(s, m, n) \in Seq(S) /\ Len(SubSeq(s, m, n)) = (IF m <= n THEN n - m + 1 ELSE 0)
        /\ \A i \in 1 .. n - m + 1 : SubSeq(s, m, n)[i] = s[m + i - 1]
    BY <1>1, <2>1, <2>2, SubSeqProperties
  <2> HIDE DEF n
  <2>4. n - m + 1 = n - k /\ (IF m <= n THEN n - m + 1 ELSE 0) = n - k BY <1>1, <2>2
  <2>5. b \in Seq(S) /\ Len(b) = n - k /\ \A i \in 1 .. n - k : b[i] = s[m + i - 1] BY <2>2, <2>3, <2>4
  <2> HIDE DEF b
  <2>6. ASSUME NEW j \in 1 .. n - k PROVE b[j] = s[k + j]
    <3>1. m + j - 1 = k + j BY <1>1, <2>2
    <3> QED BY <2>5, <3>1
  <2> QED BY <2>5, <2>6
<1> HIDE DEF n, b
<1>3. IsInjective(b)
  <2>1. ASSUME NEW i \in 1 .. n - k, NEW j \in 1 .. n - k, b[i] = b[j] PROVE i = j
    <3>1. k + i \in 1 .. n /\ k + j \in 1 .. n /\ s[k + i] = s[k + j] BY <1>1, <1>2, <2>1
    <3>2. k + i = k + j BY <1>1, <3>1 DEF IsInjective
    <3> QED BY <1>1, <3>2
  <2> QED BY <1>2, <2>1 DEF IsInjective
<1>4. Range(b) \subseteq Range(s)
  <2> SUFFICES ASSUME NEW l \in Range(b) PROVE l \in Range(s) OBVIOUS
  <2>1. PICK j \in 1 .. n - k : l = b[j] BY <1>2 DEF Range
  <2>2. k + j \in 1 .. n /\ l = s[k + j] BY <1>1, <1>2, <2>1
  <2> QED BY <1>1, <2>2 DEF Range
<1>5. ASSUME NEW i \in 1 .. k, s[i] \in Range(b) PROVE FALSE
  <2>1. PICK j \in 1 .. n - k : s[i] = b[j] BY <1>2, <1>5 DEF Range
  <2>2. i \in 1 .. n /\ k + j \in 1 .. n BY <1>1
  <2>3. s[i] = s[k + j] BY <1>2, <2>1
  <2>4. i = k + j BY <1>1, <2>2, <2>3 DEF IsInjective
  <2> QED BY <1>1, <2>4
<1> QED BY <1>2, <1>3, <1>4, <1>5 DEF n, b

\* What uct_alloc_chain_link gives n times: links that are spare or new, and
\* those that are spare afterwards.
LEMMA TakeLinks ==
    ASSUME NEW L \in Nat, L = Len(bufs), spare \in Seq(1 .. L), IsInjective(spare), NEW n \in Nat
    PROVE  LET rest == SubSeq(spare, n + 1, Len(spare))
           IN  \E M \in Nat :
                 /\ L <= M /\ Take(n) \in Seq(1 .. M) /\ Len(Take(n)) = n /\ IsInjective(Take(n))
                 /\ (1 .. L) \cup Range(Take(n)) = 1 .. M
                 /\ \A l \in Range(Take(n)) : l \in Range(spare) \/ l \notin 1 .. L
                 /\ rest \in Seq(1 .. L) /\ IsInjective(rest) /\ Range(rest) \subseteq Range(spare)
                 /\ Range(rest) \cap Range(Take(n)) = {}
<1> DEFINE q == Len(spare)
           old == IF n < q THEN n ELSE q
           a == SubSeq(spare, 1, old)
           b == SubSeq(spare, old + 1, q)
           new == [k \in 1 .. n - old |-> L + k]
           M == L + (n - old)
           rest == SubSeq(spare, n + 1, q)
<1>1. q \in Nat /\ old \in 0 .. q /\ old \in Nat /\ old <= n /\ n - old \in Nat OBVIOUS
<1>2. Take(n) = a \o new BY DEF Take
<1>3. rest = b
  <2>1. CASE n < q BY <2>1
  <2>2. CASE n >= q
    <3>1. q < old + 1 /\ q < n + 1 /\ old + 1 \in Int /\ n + 1 \in Int BY <1>1, <2>2
    <3> HIDE DEF old, q
    <3>2. rest = <<>> BY <1>1, <3>1, SubSeqEmpty
    <3>3. b = <<>> BY <1>1, <3>1, SubSeqEmpty
    <3> QED BY <3>2, <3>3
  <2> QED BY <1>1, <2>1, <2>2
<1>4. /\ a \in Seq(1 .. L) /\ b \in Seq(1 .. L) /\ Len(a) = old /\ IsInjective(a) /\ IsInjective(b)
      /\ Range(a) \subseteq Range(spare) /\ Range(b) \subseteq Range(spare) /\ Range(a) \cap Range(b) = {}
  <2>1. PICK j \in 0 .. Len(spare) : j = old BY <1>1
  <2> HIDE DEF old
  <2> DEFINE c == SubSeq(spare, 1, j)
             d == SubSeq(spare, j + 1, Len(spare))
  <2>2. a = c /\ b = d BY <2>1
  <2>3. /\ c \in Seq(1 .. L) /\ Len(c) = j /\ IsInjective(c) /\ Range(c) \subseteq Range(spare)
        /\ \A i \in 1 .. j : c[i] = spare[i]
    BY InjFront
  <2>4. /\ d \in Seq(1 .. L) /\ IsInjective(d) /\ Range(d) \subseteq Range(spare)
        /\ \A i \in 1 .. j : spare[i] \notin Range(d)
    BY InjRest
  <2> HIDE DEF a, b, c, d
  <2>5. \A l \in Range(c) : \E i \in 1 .. j : c[i] = l BY <2>3, InRange
  <2> QED BY <2>1, <2>2, <2>3, <2>4, <2>5
<1> HIDE DEF a, b, rest, old, q
<1>5. M \in Nat /\ L <= M BY <1>1
<1>6. new \in Seq(1 .. M) /\ Len(new) = n - old /\ DOMAIN new = 1 .. n - old
  <2>1. \A k \in 1 .. n - old : L + k \in 1 .. M BY <1>1
  <2> QED BY <1>1, <2>1
<1>7. IsInjective(new)
  <2>1. ASSUME NEW i \in 1 .. n - old, NEW j \in 1 .. n - old, new[i] = new[j] PROVE i = j
    <3>1. L + i = L + j BY <2>1
    <3> QED BY <1>1, <3>1
  <2> HIDE DEF new
  <2> QED BY <1>6, <2>1 DEF IsInjective
<1>8. Range(new) = L + 1 .. M
  <2>1. \A l \in L + 1 .. M : l - L \in 1 .. n - old /\ new[l - L] = l BY <1>1
  <2>2. \A k \in 1 .. n - old : new[k] \in L + 1 .. M BY <1>1
  <2> HIDE DEF new, M
  <2> QED BY <1>6, <2>1, <2>2 DEF Range
<1>9. Range(a) \subseteq 1 .. L /\ Range(spare) \subseteq 1 .. L BY <1>4, InRange
<1>10. a \in Seq(1 .. M)
  <2>1. 1 .. L \subseteq 1 .. M BY <1>5
  <2> HIDE DEF M
  <2> QED BY <1>4, <2>1, SeqMonotonic
<1> HIDE DEF new
<1>11. Range(a) \cap Range(new) = {} BY <1>5, <1>8, <1>9
<1>12. IsInjective(Take(n)) /\ Range(Take(n)) = Range(a) \cup Range(new)
  <2> HIDE DEF M
  <2> QED BY <1>2, <1>4, <1>6, <1>7, <1>10, <1>11, InjConcat
<1>13. Take(n) \in Seq(1 .. M) /\ Len(Take(n)) = n
  <2> HIDE DEF M
  <2>1. a \o new \in Seq(1 .. M) /\ Len(a \o new) = Len(a) + Len(new) BY <1>6, <1>10, ConcatProperties
  <2>2. Len(a) + Len(new) = n BY <1>1, <1>4, <1>6
  <2> QED BY <1>2, <2>1, <2>2
<1>14. (1 .. L) \cup Range(Take(n)) = 1 .. M
  <2>1. (1 .. L) \cup (L + 1 .. M) = 1 .. M BY <1>5
  <2> HIDE DEF M
  <2> QED BY <1>8, <1>9, <1>12, <2>1
<1>15. \A l \in Range(Take(n)) : l \in Range(spare) \/ l \notin 1 .. L
  <2>1. \A l \in L + 1 .. M : l \notin 1 .. L BY <1>5
  <2> HIDE DEF M
  <2> QED BY <1>4, <1>8, <1>12, <2>1
<1>16. Range(b) \cap Range(Take(n)) = {}
  <2>1. \A l \in L + 1 .. M : l \notin 1 .. L BY <1>5
  <2> HIDE DEF M
  <2> QED BY <1>4, <1>8, <1>9, <1>12, <2>1
<1> HIDE DEF M
<1> QED BY <1>3, <1>4, <1>5, <1>12, <1>13, <1>14, <1>15, <1>16 DEF rest, q

\* The buffers after links have been given buffers.
LEMMA WithBufsIs ==
    ASSUME bufs \in Seq(Buffers), NEW M \in Nat, NEW links \in Seq(1 .. M), IsInjective(links),
           (1 .. Len(bufs)) \cup Range(links) = 1 .. M,
           NEW sizes \in Seq(Nat), Len(sizes) = Len(links), NEW tag \in Tags
    PROVE  /\ WithBufs(links, sizes, tag) \in Seq(Buffers) /\ Len(WithBufs(links, sizes, tag)) = M
           /\ \A k \in 1 .. Len(links) : WithBufs(links, sizes, tag)[links[k]] = [tag |-> tag, unsent |-> sizes[k]]
           /\ \A l \in 1 .. Len(bufs) : l \notin Range(links) => WithBufs(links, sizes, tag)[l] = bufs[l]
<1> DEFINE n == Len(links)
           Val(l) == IF l \in Range(links) THEN [tag |-> tag, unsent |-> sizes[Position(links, l)]] ELSE bufs[l]
           w == [l \in 1 .. M |-> Val(l)]
<1>1. DOMAIN bufs = 1 .. Len(bufs) /\ DOMAIN links = 1 .. n /\ n \in Nat /\ Len(bufs) \in Nat OBVIOUS
<1>2. WithBufs(links, sizes, tag) = w BY <1>1 DEF WithBufs
<1>3. ASSUME NEW k \in 1 .. n PROVE Position(links, links[k]) = k
  <2>1. \E j \in DOMAIN links : links[j] = links[k] BY <1>1
  <2>2. Position(links, links[k]) \in 1 .. n /\ links[Position(links, links[k])] = links[k] BY <1>1, <2>1 DEF Position
  <2> QED BY <1>1, <2>2 DEF IsInjective
<1>4. \A l \in Range(links) : \E k \in 1 .. n : links[k] = l BY <1>1 DEF Range
<1>5. \A k \in 1 .. n : links[k] \in Range(links) /\ links[k] \in 1 .. M BY <1>1 DEF Range
<1>6. \A k \in 1 .. n : sizes[k] \in Nat OBVIOUS
<1>7. \A k \in 1 .. n : Val(links[k]) = [tag |-> tag, unsent |-> sizes[k]] BY <1>3, <1>5
<1>8. ASSUME NEW l \in 1 .. M PROVE Val(l) \in Buffers
  <2>1. CASE l \in Range(links)
    <3>1. PICK k \in 1 .. n : links[k] = l BY <1>4, <2>1
    <3>2. Val(l) = [tag |-> tag, unsent |-> sizes[k]] BY <1>7, <3>1
    <3> QED BY <1>6, <3>2 DEF Buffers
  <2>2. CASE l \notin Range(links)
    <3>1. l \in 1 .. Len(bufs) BY <2>2
    <3> QED BY <2>2, <3>1
  <2> QED BY <2>1, <2>2
<1> HIDE DEF Val
<1>9. w \in Seq(Buffers) /\ Len(w) = M BY <1>8
<1>10. \A k \in 1 .. n : w[links[k]] = [tag |-> tag, unsent |-> sizes[k]] BY <1>5, <1>7
<1>11. ASSUME NEW l \in 1 .. Len(bufs), l \notin Range(links) PROVE w[l] = bufs[l]
  <2>1. l \in 1 .. M OBVIOUS
  <2> QED BY <1>11, <2>1 DEF Val
<1> HIDE DEF w
<1> QED BY <1>2, <1>9, <1>10, <1>11

-----------------------------------------------------------------------------
(* The chains, step by step *)

\* What the buffers b of the links of a chain have not sent.
UnsentOf(b, h) == [k \in 1 .. Len(h) |-> b[h[k]].unsent]

\* As a sequence of numbers.
LEMMA UnsentTyped ==
    ASSUME NEW b \in Seq(Buffers), NEW h \in Seq(1 .. Len(b))
    PROVE  /\ UnsentOf(b, h) \in Seq(Nat) /\ Len(UnsentOf(b, h)) = Len(h)
           /\ \A k \in 1 .. Len(h) : UnsentOf(b, h)[k] = b[h[k]].unsent
<1>1. Len(h) \in Nat OBVIOUS
<1>2. ASSUME NEW k \in 1 .. Len(h) PROVE b[h[k]].unsent \in Nat
  <2>1. h[k] \in 1 .. Len(b) OBVIOUS
  <2>2. b[h[k]] \in Buffers BY <2>1
  <2> QED BY <2>2 DEF Buffers
<1> QED BY <1>1, <1>2 DEF UnsentOf

\* g is the chain s with the chain t behind it.
Joined(S, s, t, g) ==
    /\ Len(s) \in Nat /\ Len(t) \in Nat /\ g \in Seq(S) /\ Len(g) = Len(s) + Len(t)
    /\ \A k \in 1 .. Len(s) : g[k] = s[k]
    /\ \A k \in 1 .. Len(t) : Len(s) + k \in 1 .. Len(g) /\ g[Len(s) + k] = t[k]
    /\ \A k \in 1 .. Len(g) : k \in 1 .. Len(s) \/ \E j \in 1 .. Len(t) : k = Len(s) + j

\* The second of two chains, where the first one ends.
LEMMA ConcatIndex ==
    ASSUME NEW S, NEW s \in Seq(S), NEW t \in Seq(S)
    PROVE  Joined(S, s, t, s \o t)
<1>1. Len(s) \in Nat /\ Len(t) \in Nat /\ s \o t \in Seq(S) /\ Len(s \o t) = Len(s) + Len(t)
      /\ \A k \in 1 .. Len(s) : (s \o t)[k] = s[k]
  OBVIOUS
<1>2. \A k \in 1 .. Len(t) : Len(s) + k \in 1 .. Len(s \o t) /\ (s \o t)[Len(s) + k] = t[k] OBVIOUS
<1> DEFINE n == Len(s)
           m == Len(t)
<1>3. n \in Nat /\ m \in Nat /\ Len(s \o t) = n + m BY <1>1
<1> HIDE DEF n, m
<1>4. ASSUME NEW k \in 1 .. n + m PROVE k \in 1 .. n \/ \E j \in 1 .. m : k = n + j
  <2>1. CASE k > n
    <3>1. k - n \in 1 .. m /\ k = n + (k - n) BY <1>3, <2>1
    <3> QED BY <3>1
  <2>2. CASE k <= n BY <1>3, <2>2
  <2> QED BY <1>3, <2>1, <2>2
<1> QED BY <1>1, <1>2, <1>3, <1>4 DEF Joined, n, m

\* Three chains, put together in either order.
Regrouped(p, q, c) == (p \o q) \o c = p \o (q \o c)

\* Whichever two of them are put together first.
LEMMA ConcatThree == ASSUME NEW S, NEW p \in Seq(S), NEW q \in Seq(S), NEW c \in Seq(S) PROVE Regrouped(p, q, c)
BY ConcatAssociative DEF Regrouped

\* Two chains, the one behind the other, and what their buffers have not sent.
LEMMA UnsentConcat ==
    ASSUME NEW b \in Seq(Buffers), NEW s \in Seq(1 .. Len(b)), NEW t \in Seq(1 .. Len(b))
    PROVE  UnsentOf(b, s \o t) = UnsentOf(b, s) \o UnsentOf(b, t)
<1> DEFINE u == UnsentOf(b, s)
           v == UnsentOf(b, t)
           g == s \o t
           w == UnsentOf(b, g)
<1>1. /\ Len(s) \in Nat /\ Len(t) \in Nat /\ g \in Seq(1 .. Len(b)) /\ Len(g) = Len(s) + Len(t)
      /\ \A k \in 1 .. Len(s) : g[k] = s[k]
      /\ \A k \in 1 .. Len(t) : Len(s) + k \in 1 .. Len(g) /\ g[Len(s) + k] = t[k]
      /\ \A k \in 1 .. Len(g) : k \in 1 .. Len(s) \/ \E j \in 1 .. Len(t) : k = Len(s) + j
  <2>1. Joined(1 .. Len(b), s, t, g) BY ConcatIndex
  <2> HIDE DEF g
  <2> QED BY <2>1 DEF Joined
<1> HIDE DEF g
<1>2. u \in Seq(Nat) /\ Len(u) = Len(s) /\ \A k \in 1 .. Len(s) : u[k] = b[s[k]].unsent BY UnsentTyped
<1>3. v \in Seq(Nat) /\ Len(v) = Len(t) /\ \A k \in 1 .. Len(t) : v[k] = b[t[k]].unsent BY UnsentTyped
<1>4. w \in Seq(Nat) /\ Len(w) = Len(g) /\ \A k \in 1 .. Len(g) : w[k] = b[g[k]].unsent BY <1>1, UnsentTyped
<1> HIDE DEF u, v, w
<1> DEFINE z == u \o v
<1>5. /\ z \in Seq(Nat) /\ Len(z) = Len(u) + Len(v)
      /\ \A k \in 1 .. Len(u) : z[k] = u[k]
      /\ \A k \in 1 .. Len(v) : Len(u) + k \in 1 .. Len(z) /\ z[Len(u) + k] = v[k]
  <2>1. Joined(Nat, u, v, z) BY <1>2, <1>3, ConcatIndex
  <2> HIDE DEF z
  <2> QED BY <2>1 DEF Joined
<1> HIDE DEF z
<1>6. ASSUME NEW k \in 1 .. Len(g) PROVE w[k] = z[k]
  <2>1. ASSUME k \in 1 .. Len(s) PROVE w[k] = z[k]
    <3>1. w[k] = b[g[k]].unsent /\ g[k] = s[k] BY <1>1, <1>4, <2>1
    <3>2. z[k] = u[k] /\ u[k] = b[s[k]].unsent BY <1>2, <1>5, <2>1
    <3> QED BY <3>1, <3>2
  <2>2. ASSUME NEW j \in 1 .. Len(t), k = Len(s) + j PROVE w[k] = z[k]
    <3>1. w[k] = b[g[k]].unsent /\ g[k] = t[j] BY <1>1, <1>4, <2>2
    <3>2. z[k] = v[j] /\ v[j] = b[t[j]].unsent BY <1>2, <1>3, <1>5, <2>2
    <3> QED BY <3>1, <3>2
  <2> QED BY <1>1, <2>1, <2>2
<1>7. Len(w) = Len(z) BY <1>1, <1>2, <1>3, <1>4, <1>5
<1>8. w = z
  <2>1. \A k \in 1 .. Len(w) : w[k] = z[k] BY <1>4, <1>6
  <2> QED BY <1>4, <1>5, <1>7, <2>1, SeqEqual
<1> QED BY <1>8 DEF u, v, w, g, z

\* Links that no chain holds, M of them in use when they are.
Unheld(links, M) ==
    /\ links \in Seq(1 .. M) /\ IsInjective(links) /\ (1 .. Len(bufs)) \cup Range(links) = 1 .. M
    /\ Range(links) \cap Range(busy \o out) = {}

\* s and f are what is left of the spare and the free links without these.
LeftOf(links, s, f) ==
    /\ s \in Seq(1 .. Len(bufs)) /\ IsInjective(s) /\ Range(s) \subseteq Range(spare) \ Range(links)
    /\ f \in Seq(1 .. Len(bufs)) /\ IsInjective(f) /\ Range(f) \subseteq Range(free) \ Range(links)

\* b are the buffers when these links have got some with sizes bytes.
BufsGiven(links, sizes, M, b, s, f) ==
    /\ b \in Seq(Buffers) /\ Len(b) = M
    /\ s \in Seq(1 .. M) /\ f \in Seq(1 .. M) /\ busy \in Seq(1 .. M) /\ out \in Seq(1 .. M)
    /\ \A l \in Range(f) : b[l] = [tag |-> "own", unsent |-> 0]
    /\ UnsentOf(b, links) = sizes
    /\ UnsentOf(b, busy \o out) = UnsentOf(bufs, busy \o out)

\* What follows from the invariant for the links held.
LEMMA HeldTyped ==
    ASSUME BufInv
    PROVE  /\ Len(bufs) \in Nat /\ bufs \in Seq(Buffers) /\ filled \in Nat /\ flushed \in Nat
           /\ spare \in Seq(1 .. Len(bufs)) /\ free \in Seq(1 .. Len(bufs))
           /\ busy \in Seq(1 .. Len(bufs)) /\ out \in Seq(1 .. Len(bufs)) /\ busy \o out \in Seq(1 .. Len(bufs))
           /\ Range(spare) \subseteq 1 .. Len(bufs) /\ Range(free) \subseteq 1 .. Len(bufs)
           /\ Range(busy \o out) \subseteq 1 .. Len(bufs)
           /\ \A l \in Range(free) : bufs[l] = [tag |-> "own", unsent |-> 0]
           /\ Unsent(busy \o out) = UnsentOf(bufs, busy \o out)
<1>1. /\ Len(bufs) \in Nat /\ busy \in Seq(1 .. Len(bufs)) /\ out \in Seq(1 .. Len(bufs))
      /\ spare \in Seq(1 .. Len(bufs)) /\ free \in Seq(1 .. Len(bufs))
      /\ bufs \in Seq(Buffers) /\ filled \in Nat /\ flushed \in Nat
  BY DEF BufInv, BufTyped
<1> DEFINE h == busy \o out
<1>2. h \in Seq(1 .. Len(bufs)) BY <1>1
<1>3. \A l \in Range(free) : bufs[l] = [tag |-> "own", unsent |-> 0] BY DEF BufInv, Range
<1> HIDE DEF h
<1>4. DOMAIN h = 1 .. Len(h) BY <1>2
<1>5. Unsent(h) = UnsentOf(bufs, h) BY <1>4 DEF Unsent, UnsentOf
<1>6. Range(spare) \subseteq 1 .. Len(bufs) BY <1>1, InRange
<1>7. Range(free) \subseteq 1 .. Len(bufs) BY <1>1, InRange
<1>8. Range(h) \subseteq 1 .. Len(bufs) BY <1>2, InRange
<1> QED BY <1>1, <1>2, <1>3, <1>5, <1>6, <1>7, <1>8 DEF h

\* Links that no chain holds get buffers: the other buffers stay what they are.
LEMMA GivenBufs ==
    ASSUME BufInv, NEW M \in Nat, NEW links, Unheld(links, M), NEW s, NEW f, LeftOf(links, s, f),
           NEW sizes \in Seq(Nat), Len(sizes) = Len(links), NEW tag \in Tags
    PROVE  BufsGiven(links, sizes, M, WithBufs(links, sizes, tag), s, f)
<1> DEFINE L == Len(bufs)
           h == busy \o out
           b == WithBufs(links, sizes, tag)
<1>1. /\ L \in Nat /\ bufs \in Seq(Buffers) /\ h \in Seq(1 .. L) /\ busy \in Seq(1 .. L) /\ out \in Seq(1 .. L)
      /\ Range(free) \subseteq 1 .. L /\ Range(h) \subseteq 1 .. L
      /\ \A l \in Range(free) : bufs[l] = [tag |-> "own", unsent |-> 0]
  BY HeldTyped
<1>2. links \in Seq(1 .. M) /\ IsInjective(links) /\ (1 .. L) \cup Range(links) = 1 .. M /\ Range(links) \cap Range(h) = {}
  BY DEF Unheld
<1>3. /\ s \in Seq(1 .. L) /\ f \in Seq(1 .. L) /\ Range(f) \subseteq Range(free) \ Range(links)
  BY DEF LeftOf
<1>4. /\ b \in Seq(Buffers) /\ Len(b) = M
      /\ \A k \in 1 .. Len(links) : b[links[k]] = [tag |-> tag, unsent |-> sizes[k]]
      /\ \A l \in 1 .. L : l \notin Range(links) => b[l] = bufs[l]
  <2>1. bufs \in Seq(Buffers) /\ links \in Seq(1 .. M) /\ IsInjective(links) BY <1>1, <1>2
  <2>2. (1 .. Len(bufs)) \cup Range(links) = 1 .. M BY <1>2
  <2> QED BY <2>1, <2>2, WithBufsIs
<1> HIDE DEF b, h, L
<1>5. \A q \in Seq(1 .. L) : q \in Seq(1 .. M)
  <2>1. 1 .. L \subseteq 1 .. M BY <1>2
  <2> QED BY <2>1, SeqMonotonic
<1>6. \A l \in Range(f) : b[l] = [tag |-> "own", unsent |-> 0] BY <1>1, <1>3, <1>4
<1>7. UnsentOf(b, links) = sizes
  <2>1. ASSUME NEW k \in 1 .. Len(links) PROVE b[links[k]].unsent = sizes[k]
    <3>1. PICK c : c = b[links[k]] OBVIOUS
    <3>2. c = [tag |-> tag, unsent |-> sizes[k]] BY <1>4, <3>1
    <3>3. c.unsent = sizes[k] BY <3>2
    <3> QED BY <3>1, <3>3
  <2>2. sizes = [k \in 1 .. Len(links) |-> sizes[k]] OBVIOUS
  <2> QED BY <2>1, <2>2 DEF UnsentOf
<1>8. UnsentOf(b, h) = UnsentOf(bufs, h)
  <2>1. ASSUME NEW k \in 1 .. Len(h) PROVE b[h[k]] = bufs[h[k]]
    <3>1. h[k] \in Range(h) BY <1>1, InRange
    <3>2. h[k] \notin Range(links) /\ h[k] \in 1 .. L BY <1>1, <1>2, <3>1
    <3> QED BY <1>4, <3>2
  <2> QED BY <2>1 DEF UnsentOf
<1>9. s \in Seq(1 .. M) /\ f \in Seq(1 .. M) /\ busy \in Seq(1 .. M) /\ out \in Seq(1 .. M) BY <1>1, <1>3, <1>5
<1> QED BY <1>4, <1>6, <1>7, <1>8, <1>9 DEF BufsGiven, b, h

\* The invariant of the next state, from the chain held in it.
LEMMA NextInv ==
    ASSUME BufTyped', NEW h, h = (busy \o out)', h \in Seq(1 .. Len(bufs')), Distinct(spare', free', h),
           \A l \in Range(free') : bufs'[l] = [tag |-> "own", unsent |-> 0],
           filled' = flushed' + Total(UnsentOf(bufs', h))
    PROVE  BufInv'
<1>1. \A k \in DOMAIN free' : bufs'[free'[k]] = [tag |-> "own", unsent |-> 0]
  <2>1. \A k \in DOMAIN free' : free'[k] \in Range(free') BY DEF Range
  <2> QED BY <2>1
<1>2. Unsent(busy \o out)' = UnsentOf(bufs', h)
  <2>1. DOMAIN h = 1 .. Len(h) OBVIOUS
  <2>2. Unsent(busy \o out)' = [k \in DOMAIN h |-> bufs'[h[k]].unsent] BY DEF Unsent
  <2> QED BY <2>1, <2>2 DEF UnsentOf
<1>3. (filled = flushed + Total(Unsent(busy \o out)))'
  <2>1. Total(Unsent(busy \o out))' = Total(Unsent(busy \o out)') OBVIOUS
  <2> QED BY <1>2, <2>1
<1>4. Distinct(spare, free, busy \o out)' OBVIOUS
<1> QED BY <1>1, <1>3, <1>4 DEF BufInv

\* Links that no chain holds are filled and join out.
LEMMA OutKeeps ==
    ASSUME BufInv, NEW M \in Nat, NEW links, Unheld(links, M), LeftOf(links, spare', free'),
           NEW sizes \in Seq(Nat), Len(sizes) = Len(links), NEW tag \in Tags,
           Out(links, sizes, tag), UNCHANGED <<busy, flushed>>
    PROVE  BufInv'
<1> DEFINE L == Len(bufs)
           h == busy \o out
           g == h \o links
<1>1. out' = out \o links /\ bufs' = WithBufs(links, sizes, tag) /\ filled' = filled + Total(sizes) BY DEF Out
<1>2. BufsGiven(links, sizes, M, bufs', spare', free') BY <1>1, GivenBufs
<1>3. /\ bufs' \in Seq(Buffers) /\ Len(bufs') = M
      /\ spare' \in Seq(1 .. M) /\ free' \in Seq(1 .. M) /\ busy \in Seq(1 .. M) /\ out \in Seq(1 .. M)
      /\ \A l \in Range(free') : bufs'[l] = [tag |-> "own", unsent |-> 0]
      /\ UnsentOf(bufs', links) = sizes /\ UnsentOf(bufs', h) = UnsentOf(bufs, h)
  BY <1>2 DEF BufsGiven
<1>4. links \in Seq(1 .. M) /\ IsInjective(links) /\ Range(links) \cap Range(h) = {} BY DEF Unheld
<1>5. filled \in Nat /\ flushed \in Nat /\ filled = flushed + Total(UnsentOf(bufs, h)) BY HeldTyped DEF BufInv
<1>6. h \in Seq(1 .. M) /\ g \in Seq(1 .. M) /\ out' \in Seq(1 .. M) BY <1>1, <1>3, <1>4
<1>7. (busy \o out)' = g
  <2>1. (busy \o out)' = busy \o (out \o links) BY <1>1
  <2>2. Regrouped(busy, out, links) BY <1>3, <1>4, ConcatThree
  <2> QED BY <2>1, <2>2 DEF Regrouped
<1>8. Distinct(spare, free, h) BY DEF BufInv
<1> HIDE DEF h
<1>9. IsInjective(g) /\ Range(g) = Range(h) \cup Range(links)
  <2>1. IsInjective(h) /\ Range(h) \cap Range(links) = {} BY <1>4, <1>8 DEF Distinct
  <2> QED BY <1>4, <1>6, <2>1, InjConcat
<1>10. Distinct(spare', free', g) BY <1>4, <1>8, <1>9 DEF Distinct, LeftOf
<1>11. UnsentOf(bufs', g) = UnsentOf(bufs, h) \o sizes
  <2>1. UnsentOf(bufs', g) = UnsentOf(bufs', h) \o UnsentOf(bufs', links) BY <1>3, <1>4, <1>6, UnsentConcat
  <2> QED BY <1>3, <2>1
<1>12. UnsentOf(bufs, h) \in Seq(Nat)
  <2>1. UnsentOf(bufs', h) \in Seq(Nat) BY <1>3, <1>6, UnsentTyped
  <2> QED BY <1>3, <2>1
<1>13. /\ Total(UnsentOf(bufs', g)) = Total(UnsentOf(bufs, h)) + Total(sizes)
       /\ Total(UnsentOf(bufs, h)) \in Nat /\ Total(sizes) \in Nat
  BY <1>11, <1>12, TotalConcat
<1>14. filled' = flushed' + Total(UnsentOf(bufs', g)) /\ filled' \in Nat /\ flushed' \in Nat
  <2>1. PICK a \in Nat : a = Total(UnsentOf(bufs, h)) BY <1>13
  <2>2. PICK c \in Nat : c = Total(sizes) BY <1>13
  <2>3. flushed' = flushed /\ filled' = filled + c /\ filled = flushed + a BY <1>1, <1>5, <2>1, <2>2
  <2>4. filled' = flushed' + (a + c) /\ filled' \in Nat /\ flushed' \in Nat BY <1>5, <2>3
  <2> QED BY <1>13, <2>1, <2>2, <2>4
<1>15. BufTyped'
  <2>1. busy' = busy OBVIOUS
  <2> QED BY <1>3, <1>6, <1>14, <2>1 DEF BufTyped
<1> HIDE DEF g
<1> QED BY <1>3, <1>6, <1>7, <1>10, <1>14, <1>15, NextInv

\* Links that no chain holds get empty buffers and stay out of every chain.
LEMMA DroppedKeeps ==
    ASSUME BufInv, NEW M \in Nat, NEW links, Unheld(links, M), LeftOf(links, spare', free'),
           NEW sizes \in Seq(Nat), Len(sizes) = Len(links), NEW tag \in Tags,
           bufs' = WithBufs(links, sizes, tag), UNCHANGED <<busy, out, filled, flushed>>
    PROVE  BufInv'
<1> DEFINE h == busy \o out
<1>1. BufsGiven(links, sizes, M, bufs', spare', free') BY GivenBufs
<1>2. /\ bufs' \in Seq(Buffers) /\ Len(bufs') = M
      /\ spare' \in Seq(1 .. M) /\ free' \in Seq(1 .. M) /\ busy \in Seq(1 .. M) /\ out \in Seq(1 .. M)
      /\ \A l \in Range(free') : bufs'[l] = [tag |-> "own", unsent |-> 0]
      /\ UnsentOf(bufs', h) = UnsentOf(bufs, h)
  BY <1>1 DEF BufsGiven
<1>3. filled \in Nat /\ flushed \in Nat /\ filled = flushed + Total(UnsentOf(bufs, h)) BY HeldTyped DEF BufInv
<1>4. h \in Seq(1 .. M) /\ (busy \o out)' = h BY <1>2
<1>5. Distinct(spare, free, h) BY DEF BufInv
<1> HIDE DEF h
<1>6. Distinct(spare', free', h) BY <1>5 DEF Distinct, LeftOf
<1>7. filled' = flushed' + Total(UnsentOf(bufs', h)) BY <1>2, <1>3
<1>8. BufTyped' BY <1>2, <1>3 DEF BufTyped
<1> QED BY <1>2, <1>4, <1>6, <1>7, <1>8, NextInv

\* Links from uct_alloc_chain_link are held by no chain.
LEMMA TakenUnheld ==
    ASSUME BufInv, NEW n \in Nat
    PROVE  \E M \in Nat : /\ Unheld(Take(n), M) /\ Len(Take(n)) = n
                          /\ LeftOf(Take(n), SubSeq(spare, n + 1, Len(spare)), free)
<1> DEFINE L == Len(bufs)
           h == busy \o out
           t == Take(n)
           rest == SubSeq(spare, n + 1, Len(spare))
<1>1. /\ L \in Nat /\ spare \in Seq(1 .. L) /\ free \in Seq(1 .. L)
      /\ Range(spare) \subseteq 1 .. L /\ Range(free) \subseteq 1 .. L /\ Range(h) \subseteq 1 .. L
  BY HeldTyped
<1>2. /\ IsInjective(spare) /\ IsInjective(free)
      /\ Range(spare) \cap Range(free) = {} /\ Range(spare) \cap Range(h) = {}
  BY DEF BufInv, Distinct
<1>3. PICK M \in Nat :
        /\ t \in Seq(1 .. M) /\ Len(t) = n /\ IsInjective(t)
        /\ (1 .. L) \cup Range(t) = 1 .. M
        /\ \A l \in Range(t) : l \in Range(spare) \/ l \notin 1 .. L
        /\ rest \in Seq(1 .. L) /\ IsInjective(rest) /\ Range(rest) \subseteq Range(spare)
        /\ Range(rest) \cap Range(t) = {}
  BY <1>1, <1>2, TakeLinks
<1> HIDE DEF L, h, t, rest
<1>4. Range(t) \cap Range(h) = {} /\ Range(t) \cap Range(free) = {} BY <1>1, <1>2, <1>3
<1>5. Unheld(t, M) BY <1>3, <1>4 DEF Unheld, L, h
<1>6. LeftOf(t, rest, free) BY <1>1, <1>2, <1>3, <1>4 DEF LeftOf, L
<1> QED BY <1>3, <1>5, <1>6 DEF t, rest

\* The first of the free links, taken off them, is in no other chain.
LEMMA FirstUnheld ==
    ASSUME BufInv, free # <<>>
    PROVE  Unheld(<<Head(free)>>, Len(bufs)) /\ LeftOf(<<Head(free)>>, spare, Tail(free))
<1> DEFINE L == Len(bufs)
           h == busy \o out
           t == <<Head(free)>>
           rest == Tail(free)
<1>1. /\ L \in Nat /\ spare \in Seq(1 .. L) /\ free \in Seq(1 .. L)
      /\ Range(free) \subseteq 1 .. L
  BY HeldTyped
<1>2. /\ IsInjective(spare) /\ IsInjective(free)
      /\ Range(spare) \cap Range(free) = {} /\ Range(free) \cap Range(h) = {}
  BY DEF BufInv, Distinct
<1>3. 1 \in 0 .. Len(free) /\ 1 \in 1 .. Len(free) /\ Head(free) = free[1] /\ free[1] \in Range(free)
  <2>1. Len(free) \in Nat /\ Len(free) # 0 /\ Head(free) = free[1] /\ DOMAIN free = 1 .. Len(free) BY <1>1
  <2> QED BY <2>1 DEF Range
<1>4. rest = SubSeq(free, 1 + 1, Len(free)) BY <1>1
<1>5. /\ rest \in Seq(1 .. L) /\ IsInjective(rest) /\ Range(rest) \subseteq Range(free)
      /\ free[1] \notin Range(rest)
  <2> DEFINE r == SubSeq(free, 1 + 1, Len(free))
  <2>1. /\ r \in Seq(1 .. L) /\ IsInjective(r) /\ Range(r) \subseteq Range(free)
        /\ \A j \in 1 .. 1 : free[j] \notin Range(r)
    BY <1>1, <1>2, <1>3, InjRest
  <2> HIDE DEF r, rest
  <2> QED BY <1>4, <2>1 DEF r
<1>6. t \in Seq(1 .. L) /\ IsInjective(t) /\ Range(t) = {free[1]} BY <1>1, <1>3 DEF IsInjective, Range
<1> HIDE DEF L, h, t, rest
<1>7. (1 .. L) \cup Range(t) = 1 .. L /\ Range(t) \cap Range(h) = {} BY <1>1, <1>2, <1>3, <1>6
<1>8. Unheld(t, L) BY <1>6, <1>7 DEF Unheld, L, h
<1>9. LeftOf(t, spare, rest) BY <1>1, <1>2, <1>3, <1>5, <1>6 DEF LeftOf, L
<1> QED BY <1>8, <1>9 DEF t, rest, L

\* A later allocation fails.
LEMMA DroppedStep ==
    ASSUME BufInv, NEW n \in Nat, Dropped(n), UNCHANGED <<free, busy, out, filled, flushed>>
    PROVE  BufInv'
<1>1. PICK M \in Nat : /\ Unheld(Take(n), M) /\ Len(Take(n)) = n
                       /\ LeftOf(Take(n), SubSeq(spare, n + 1, Len(spare)), free)
  BY TakenUnheld
<1> DEFINE z == [k \in 1 .. n |-> 0]
<1>2. z \in Seq(Nat) /\ Len(z) = n OBVIOUS
<1>3. spare' = SubSeq(spare, n + 1, Len(spare)) /\ bufs' = WithBufs(Take(n), z, "none") BY DEF Dropped
<1> HIDE DEF z
<1>4. LeftOf(Take(n), spare', free') BY <1>1, <1>3
<1>5. "none" \in Tags BY DEF Tags
<1>6. UNCHANGED <<busy, out, filled, flushed>> OBVIOUS
<1> QED BY <1>1, <1>2, <1>3, <1>4, <1>5, <1>6, DroppedKeeps

\* As many links as there are sizes are taken, filled and put into out.
LEMMA TakenOut ==
    ASSUME BufInv, NEW n \in Nat, NEW sizes \in Seq(Nat), Len(sizes) = n, NEW tag \in Tags,
           Out(Take(n), sizes, tag), spare' = SubSeq(spare, n + 1, Len(spare)), UNCHANGED <<free, busy, flushed>>
    PROVE  BufInv'
<1>1. PICK M \in Nat : /\ Unheld(Take(n), M) /\ Len(Take(n)) = n
                       /\ LeftOf(Take(n), SubSeq(spare, n + 1, Len(spare)), free)
  BY TakenUnheld
<1>2. LeftOf(Take(n), spare', free') BY <1>1
<1>3. UNCHANGED <<busy, flushed>> OBVIOUS
<1> QED BY <1>1, <1>2, <1>3, OutKeeps

\* uct_chain_get_free_buf
LEMMA GetFreeBufStep == ASSUME BufInv, NEW n \in Nat, GetFreeBuf(n) PROVE BufInv'
<1>1. <<n>> \in Seq(Nat) /\ Len(<<n>>) = 1 OBVIOUS
<1>2. "own" \in Tags BY DEF Tags
<1>3. ASSUME free # <<>>, Out(<<Head(free)>>, <<n>>, "own"), free' = Tail(free), UNCHANGED <<spare, busy, flushed>>
      PROVE  BufInv'
  <2> DEFINE t == <<Head(free)>>
  <2>1. Unheld(t, Len(bufs)) /\ LeftOf(t, spare, Tail(free)) BY <1>3, FirstUnheld
  <2>2. Len(t) = 1 OBVIOUS
  <2>3. Len(bufs) \in Nat BY HeldTyped
  <2>4. LeftOf(t, spare', free') BY <1>3, <2>1
  <2>5. Out(t, <<n>>, "own") /\ UNCHANGED <<busy, flushed>> BY <1>3
  <2> HIDE DEF t
  <2> QED BY <1>1, <1>2, <2>1, <2>2, <2>3, <2>4, <2>5, OutKeeps
<1>4. ASSUME Out(Take(1), <<n>>, "own"), spare' = SubSeq(spare, 2, Len(spare)), UNCHANGED <<free, busy, flushed>>
      PROVE  BufInv'
  <2>1. spare' = SubSeq(spare, 1 + 1, Len(spare)) BY <1>4
  <2> QED BY <1>1, <1>2, <1>4, <2>1, TakenOut
<1>5. ASSUME Dropped(1), UNCHANGED <<free, busy, out, filled, flushed>> PROVE BufInv' BY <1>5, DroppedStep
<1> QED BY <1>3, <1>4, <1>5 DEF GetFreeBuf

\* The sizes the bound of the model lets in.
LEMMA FillsTyped ==
    ASSUME NEW sizes \in Fills
    PROVE  sizes \in Seq(Nat) /\ Len(sizes) = 2 /\ \A n \in 0 .. 2 : SubSeq(sizes, 1, n) \in Seq(Nat) /\ Len(SubSeq(sizes, 1, n)) = n
<1>1. sizes \in [1 .. 2 -> Nat] BY BufChainAssumption DEF Fills
<1>2. sizes \in Seq(Nat) /\ Len(sizes) = 2
  <2>1. PICK m \in Nat : m = 2 OBVIOUS
  <2>2. sizes \in [1 .. m -> Nat] BY <1>1, <2>1
  <2>3. sizes \in Seq(Nat) /\ Len(sizes) = m BY <2>2
  <2> QED BY <2>1, <2>3
<1>3. ASSUME NEW n \in 0 .. 2 PROVE SubSeq(sizes, 1, n) \in Seq(Nat) /\ Len(SubSeq(sizes, 1, n)) = n
  <2>1. \A i \in 1 .. n : sizes[i] \in Nat BY <1>1
  <2> QED BY <1>2, <2>1, SubSeqProperties
<1> QED BY <1>2, <1>3

\* uct_create_chain_of_bufs
LEMMA CreateChainStep == ASSUME BufInv, NEW sizes \in Fills, CreateChainOfBufs(sizes) PROVE BufInv'
<1>1. sizes \in Seq(Nat) /\ Len(sizes) = 2 BY FillsTyped
<1>2. "own" \in Tags BY DEF Tags
<1>3. ASSUME Out(Take(Len(sizes)), sizes, "own"), spare' = SubSeq(spare, Len(sizes) + 1, Len(spare)),
             UNCHANGED <<free, busy, flushed>>
      PROVE  BufInv'
  <2>1. Len(sizes) \in Nat BY <1>1
  <2> QED BY <1>1, <1>2, <1>3, <2>1, TakenOut
<1>4. ASSUME NEW n \in 0 .. Len(sizes) - 1, Dropped(n), UNCHANGED <<free, busy, out, filled, flushed>>
      PROVE  BufInv'
  <2>1. n \in Nat BY <1>1
  <2> QED BY <1>4, <2>1, DroppedStep
<1> QED BY <1>3, <1>4 DEF CreateChainOfBufs

\* uct_chain_add_copy
LEMMA AddCopyStep == ASSUME BufInv, NEW sizes \in Fills, ChainAddCopy(sizes) PROVE BufInv'
<1>1. PICK n \in 0 .. Len(sizes) : /\ Out(Take(n), SubSeq(sizes, 1, n), "other")
                                   /\ spare' = SubSeq(spare, n + 1, Len(spare))
  BY DEF ChainAddCopy
<1>2. UNCHANGED <<free, busy, flushed>> BY DEF ChainAddCopy
<1> DEFINE z == SubSeq(sizes, 1, n)
<1>3. n \in Nat /\ z \in Seq(Nat) /\ Len(z) = n
  <2>1. Len(sizes) = 2 BY FillsTyped
  <2>2. n \in 0 .. 2 /\ n \in Nat BY <2>1
  <2> QED BY <2>2, FillsTyped
<1>4. "other" \in Tags BY DEF Tags
<1>5. Out(Take(n), z, "other") BY <1>1
<1> HIDE DEF z
<1> QED BY <1>1, <1>2, <1>3, <1>4, <1>5, TakenOut

\* One more link given back.
GiveBack(chain, f, k) ==
    IF k = 0 THEN [free |-> free, spare |-> spare]
    ELSE IF bufs[chain[k]].tag = "own"
    THEN [free |-> <<chain[k]>> \o f[k - 1].free, spare |-> f[k - 1].spare]
    ELSE [free |-> f[k - 1].free, spare |-> <<chain[k]>> \o f[k - 1].spare]

\* f is the table of the lists up to n.
IsRecycled(chain, n, f) == f = [k \in 0 .. n |-> GiveBack(chain, f, k)]

\* There is such a table.
LEMMA RecycledExist ==
    ASSUME NEW chain, NEW n \in Nat
    PROVE  \E f : IsRecycled(chain, n, f)
<1> DEFINE Bad == {m \in Nat : ~ \E f : IsRecycled(chain, m, f)}
<1>1. SUFFICES ASSUME Bad # {} PROVE FALSE OBVIOUS
<1>2. PICK m \in Bad : \A q \in Bad : m <= q
  <2> HIDE DEF Bad
  <2>1. Bad \subseteq Nat BY DEF Bad
  <2> QED BY <1>1, <2>1, LeastNumber
<1>3. CASE m = 0
  <2> DEFINE f == [k \in 0 .. 0 |-> [free |-> free, spare |-> spare]]
  <2>1. f = [k \in 0 .. 0 |-> GiveBack(chain, f, k)] BY DEF GiveBack
  <2> QED BY <1>3, <2>1 DEF IsRecycled
<1>4. CASE m # 0
  <2>1. m - 1 \in Nat /\ m - 1 \notin Bad BY <1>2, <1>4
  <2>2. PICK g : IsRecycled(chain, m - 1, g) BY <2>1
  <2> DEFINE f == [k \in 0 .. m |-> IF k = m THEN GiveBack(chain, g, m) ELSE g[k]]
  <2>3. ASSUME NEW k \in 0 .. m PROVE f[k] = GiveBack(chain, f, k)
    <3>1. CASE k = m
      <4>1. f[m - 1] = g[m - 1] BY <2>1
      <4>2. f[m] = GiveBack(chain, g, m) BY <2>1
      <4> HIDE DEF f
      <4>3. GiveBack(chain, f, m) = GiveBack(chain, g, m) BY <4>1 DEF GiveBack
      <4> QED BY <3>1, <4>2, <4>3
    <3>2. CASE k # m
      <4>1. k \in 0 .. m - 1 /\ (k # 0 => k - 1 \in 0 .. m - 1 /\ k - 1 # m /\ k - 1 \in 0 .. m) BY <2>1, <3>2
      <4>2. g[k] = GiveBack(chain, g, k) BY <2>2, <4>1 DEF IsRecycled
      <4>3. k # 0 => f[k - 1] = g[k - 1] BY <4>1
      <4>4. f[k] = g[k] BY <3>2
      <4> HIDE DEF f
      <4>5. GiveBack(chain, f, k) = GiveBack(chain, g, k) BY <4>3 DEF GiveBack
      <4> QED BY <4>2, <4>4, <4>5
    <3> QED BY <3>1, <3>2
  <2>4. f = [k \in 0 .. m |-> GiveBack(chain, f, k)]
    <3>1. f = [k \in 0 .. m |-> f[k]] OBVIOUS
    <3> HIDE DEF f
    <3> QED BY <2>3, <3>1
  <2> QED BY <2>4 DEF IsRecycled
<1> QED BY <1>3, <1>4

\* What the loop of uct_chain_update_chains does with the k-th link.
LEMMA RecycledStep ==
    ASSUME NEW chain, NEW n \in Nat
    PROVE  \A k \in 0 .. n : Recycled(chain, n)[k] = GiveBack(chain, Recycled(chain, n), k)
<1> DEFINE F == CHOOSE f : f = [k \in 0 .. n |-> GiveBack(chain, f, k)]
<1>1. Recycled(chain, n) = F BY DEF Recycled, GiveBack
<1>2. IsRecycled(chain, n, F) BY RecycledExist DEF IsRecycled
<1> HIDE DEF F
<1>3. \A k \in 0 .. n : F[k] = GiveBack(chain, F, k) BY <1>2 DEF IsRecycled
<1> QED BY <1>1, <1>3

\* A link in front of a chain it is not in.
LEMMA LinkInFront ==
    ASSUME NEW S, NEW s \in Seq(S), IsInjective(s), NEW l \in S, l \notin Range(s)
    PROVE  <<l>> \o s \in Seq(S) /\ IsInjective(<<l>> \o s) /\ Range(<<l>> \o s) = {l} \cup Range(s)
<1> DEFINE t == <<l>>
<1>1. t \in Seq(S) /\ IsInjective(t) /\ Range(t) = {l} BY DEF IsInjective, Range
<1> HIDE DEF t
<1>2. Range(t) \cap Range(s) = {} BY <1>1
<1>3. IsInjective(t \o s) /\ Range(t \o s) = Range(t) \cup Range(s) BY <1>1, <1>2, InjConcat
<1>4. t \o s \in Seq(S) BY <1>1
<1> QED BY <1>1, <1>3, <1>4 DEF t

\* The lists when the first k links of a chain have been given back.
BackTo(chain, r, k) ==
    /\ r.free \in Seq(1 .. Len(bufs)) /\ r.spare \in Seq(1 .. Len(bufs))
    /\ IsInjective(r.free) /\ IsInjective(r.spare) /\ Range(r.free) \cap Range(r.spare) = {}
    /\ Range(r.free) \cup Range(r.spare) \subseteq Range(free) \cup Range(spare) \cup {chain[j] : j \in 1 .. k}
    /\ \A l \in Range(r.free) : bufs[l] = [tag |-> "own", unsent |-> 0]

\* An empty buffer given back is free when it is the user's own.
LEMMA BackOne ==
    ASSUME BufInv, NEW h \in Seq(1 .. Len(bufs)), IsInjective(h), (Range(free) \cup Range(spare)) \cap Range(h) = {},
           NEW f, NEW k \in 1 .. Len(h), BackTo(h, f[k - 1], k - 1), bufs[h[k]].unsent = 0
    PROVE  BackTo(h, GiveBack(h, f, k), k)
<1> DEFINE L == Len(bufs)
           r == f[k - 1]
           l == h[k]
           old == Range(free) \cup Range(spare)
           Front(j) == {h[i] : i \in 1 .. j}
<1>1. L \in Nat /\ bufs \in Seq(Buffers) BY HeldTyped
<1>2. /\ r.free \in Seq(1 .. L) /\ r.spare \in Seq(1 .. L)
      /\ IsInjective(r.free) /\ IsInjective(r.spare) /\ Range(r.free) \cap Range(r.spare) = {}
      /\ Range(r.free) \cup Range(r.spare) \subseteq old \cup Front(k - 1)
      /\ \A q \in Range(r.free) : bufs[q] = [tag |-> "own", unsent |-> 0]
  BY DEF BackTo
<1>3. Len(h) \in Nat /\ DOMAIN h = 1 .. Len(h) /\ k \in Nat /\ k # 0 /\ l \in 1 .. L OBVIOUS
<1>4. l \in Range(h) BY <1>3 DEF Range
<1>5. l \notin Front(k - 1)
  <2>1. ASSUME NEW i \in 1 .. k - 1 PROVE h[i] # h[k]
    <3>1. i \in 1 .. Len(h) /\ i # k BY <1>3
    <3> QED BY <1>3, <3>1 DEF IsInjective
  <2> QED BY <2>1
<1>6. Front(k - 1) \cup {l} \subseteq Front(k)
  <2>1. \A i \in 1 .. k - 1 : i \in 1 .. k BY <1>3
  <2>2. k \in 1 .. k BY <1>3
  <2> QED BY <2>1, <2>2
<1>7. bufs[l] \in Buffers BY <1>1, <1>3
<1> HIDE DEF L, r, l, old, Front
<1>8. l \notin Range(r.free) /\ l \notin Range(r.spare) BY <1>2, <1>4, <1>5 DEF old
<1>9. CASE bufs[l].tag = "own"
  <2> DEFINE x == <<l>> \o r.free
  <2>1. GiveBack(h, f, k) = [free |-> x, spare |-> r.spare] BY <1>3, <1>9 DEF GiveBack, l, r
  <2>2. x \in Seq(1 .. L) /\ IsInjective(x) /\ Range(x) = {l} \cup Range(r.free)
    <3>1. PICK y : y = r.free OBVIOUS
    <3>2. y \in Seq(1 .. L) /\ IsInjective(y) /\ l \in 1 .. L /\ l \notin Range(y) BY <1>2, <1>3, <1>8, <3>1
    <3> QED BY <3>1, <3>2, LinkInFront
  <2>3. bufs[l] = [tag |-> "own", unsent |-> 0]
    <3>1. bufs[l] = [tag |-> bufs[l].tag, unsent |-> bufs[l].unsent] BY <1>7 DEF Buffers
    <3> QED BY <1>9, <3>1 DEF l
  <2> HIDE DEF x
  <2>4. Range(x) \cap Range(r.spare) = {} BY <1>2, <1>8, <2>2
  <2>5. Range(x) \cup Range(r.spare) \subseteq old \cup Front(k) BY <1>2, <1>6, <2>2
  <2>6. \A q \in Range(x) : bufs[q] = [tag |-> "own", unsent |-> 0] BY <1>2, <2>2, <2>3
  <2>7. GiveBack(h, f, k).free = x /\ GiveBack(h, f, k).spare = r.spare BY <2>1
  <2> QED BY <1>2, <2>2, <2>4, <2>5, <2>6, <2>7 DEF BackTo, L, old, Front
<1>10. CASE bufs[l].tag # "own"
  <2> DEFINE x == <<l>> \o r.spare
  <2>1. GiveBack(h, f, k) = [free |-> r.free, spare |-> x] BY <1>3, <1>10 DEF GiveBack, l, r
  <2>2. x \in Seq(1 .. L) /\ IsInjective(x) /\ Range(x) = {l} \cup Range(r.spare)
    <3>1. PICK y : y = r.spare OBVIOUS
    <3>2. y \in Seq(1 .. L) /\ IsInjective(y) /\ l \in 1 .. L /\ l \notin Range(y) BY <1>2, <1>3, <1>8, <3>1
    <3> QED BY <3>1, <3>2, LinkInFront
  <2> HIDE DEF x
  <2>3. Range(r.free) \cap Range(x) = {} BY <1>2, <1>8, <2>2
  <2>4. Range(r.free) \cup Range(x) \subseteq old \cup Front(k) BY <1>2, <1>6, <2>2
  <2>5. GiveBack(h, f, k).free = r.free /\ GiveBack(h, f, k).spare = x BY <2>1
  <2> QED BY <1>2, <2>2, <2>3, <2>4, <2>5 DEF BackTo, L, old, Front
<1> QED BY <1>9, <1>10

\* All links at the front of the chain that are spent are given back.
LEMMA BackAll ==
    ASSUME BufInv, NEW h, h = busy \o out, NEW n \in 0 .. Len(h), \A j \in 1 .. n : bufs[h[j]].unsent = 0
    PROVE  BackTo(h, Recycled(h, n)[n], n)
<1> DEFINE R == Recycled(h, n)
           Bad == {k \in 0 .. n : ~BackTo(h, R[k], k)}
<1>1. h \in Seq(1 .. Len(bufs)) /\ Len(h) \in Nat /\ n \in Nat /\ n <= Len(h) BY HeldTyped
<1>2. Distinct(spare, free, h) BY DEF BufInv
<1>3. IsInjective(h) /\ (Range(free) \cup Range(spare)) \cap Range(h) = {} BY <1>2 DEF Distinct
<1>4. \A k \in 0 .. n : R[k] = GiveBack(h, R, k) BY <1>1, RecycledStep
<1> HIDE DEF R
<1>5. BackTo(h, R[0], 0)
  <2>1. R[0] = [free |-> free, spare |-> spare]
    <3>1. 0 \in 0 .. n BY <1>1
    <3>2. R[0] = GiveBack(h, R, 0) BY <1>4, <3>1
    <3>3. GiveBack(h, R, 0) = [free |-> free, spare |-> spare] BY DEF GiveBack
    <3> QED BY <3>2, <3>3
  <2>2. R[0].free = free /\ R[0].spare = spare BY <2>1
  <2>3. /\ free \in Seq(1 .. Len(bufs)) /\ spare \in Seq(1 .. Len(bufs))
        /\ \A l \in Range(free) : bufs[l] = [tag |-> "own", unsent |-> 0]
    BY HeldTyped
  <2> QED BY <1>2, <2>2, <2>3 DEF BackTo, Distinct
<1>6. \A k \in 0 .. n : BackTo(h, R[k], k)
  <2>1. SUFFICES ASSUME Bad # {} PROVE FALSE OBVIOUS
  <2>2. PICK k \in Bad : \A q \in Bad : k <= q
    <3>1. Bad \subseteq Nat BY <1>1
    <3> HIDE DEF Bad
    <3> QED BY <2>1, <3>1, LeastNumber
  <2>3. k # 0 BY <1>5, <2>2
  <2>4. k \in 1 .. n /\ k \in 1 .. Len(h) /\ k - 1 \in 0 .. n /\ k - 1 \notin Bad
    <3>1. k \in 0 .. n OBVIOUS
    <3>2. k \in Nat /\ k \in 1 .. n /\ k \in 1 .. Len(h) /\ k - 1 \in 0 .. n /\ k - 1 < k BY <1>1, <2>3, <3>1
    <3> HIDE DEF Bad
    <3>3. ~(k <= k - 1) BY <3>2
    <3> QED BY <2>2, <3>2, <3>3
  <2>5. BackTo(h, R[k - 1], k - 1) BY <2>4
  <2>6. BackTo(h, GiveBack(h, R, k), k) BY <1>1, <1>3, <2>4, <2>5, BackOne
  <2>7. BackTo(h, R[k], k) BY <1>4, <2>4, <2>6
  <2> QED BY <2>2, <2>7
<1> QED BY <1>1, <1>6 DEF R

\* Where the spent links of a chain end.
LEMMA SpentIs ==
    ASSUME NEW h, Len(h) \in Nat
    PROVE  Spent(h) \in 0 .. Len(h) /\ \A j \in 1 .. Spent(h) : Unsent(h)[j] = 0
<1> DEFINE n == Len(h)
           u == Unsent(h)
           Stop == {k \in 0 .. n : k < n => u[k + 1] # 0}
<1> HIDE DEF u
<1>1. Stop \subseteq Nat /\ n \in Stop OBVIOUS
<1>2. PICK k \in Stop : \A q \in Stop : k <= q
  <2> HIDE DEF Stop
  <2> QED BY <1>1, LeastNumber
<1>3. ASSUME NEW j \in 1 .. k PROVE u[j] = 0
  <2>0. n \in Nat /\ k \in Nat /\ k <= n BY <1>2
  <2>1. PICK i \in Nat : i = j - 1 /\ i \in 0 .. n /\ i < n /\ i < k BY <2>0
  <2>3. i \notin Stop
    <3> HIDE DEF Stop
    <3> QED BY <1>2, <2>0, <2>1
  <2>4. u[i + 1] = 0 BY <2>1, <2>3
  <2> QED BY <2>1, <2>4
<1>4. \E i \in 0 .. n : /\ \A j \in 1 .. i : u[j] = 0
                        /\ i < n => u[i + 1] # 0
  BY <1>2, <1>3
<1> QED BY <1>4 DEF Spent, u

\* A chain cut in two.
LEMMA Rejoined ==
    ASSUME NEW S, NEW s \in Seq(S), NEW k \in 0 .. Len(s)
    PROVE  SubSeq(s, 1, k) \o SubSeq(s, k + 1, Len(s)) = s
<1>1. PICK m : m = 1 OBVIOUS
<1>2. PICK n : n = Len(s) OBVIOUS
<1>3. m \in 1 .. Len(s) + 1 /\ k \in m - 1 .. Len(s) /\ n \in k .. Len(s) BY <1>1, <1>2
<1>4. SubSeq(s, m, k) \o SubSeq(s, k + 1, n) = SubSeq(s, m, n) BY <1>3, ConcatAdjacentSubSeq
<1>5. SubSeq(s, 1, Len(s)) = s BY SubSeqFull
<1> QED BY <1>1, <1>2, <1>4, <1>5

\* The parts of a chain without repetitions.
LEMMA InjParts ==
    ASSUME NEW S, NEW s \in Seq(S), NEW t \in Seq(S), IsInjective(s \o t)
    PROVE  IsInjective(s) /\ Range(s) \cap Range(t) = {} /\ Range(s) \subseteq Range(s \o t)
<1> DEFINE g == s \o t
<1>1. /\ Len(s) \in Nat /\ Len(t) \in Nat /\ g \in Seq(S) /\ Len(g) = Len(s) + Len(t)
      /\ \A k \in 1 .. Len(s) : g[k] = s[k]
      /\ \A k \in 1 .. Len(t) : Len(s) + k \in 1 .. Len(g) /\ g[Len(s) + k] = t[k]
  <2>1. Joined(S, s, t, g) BY ConcatIndex
  <2> HIDE DEF g
  <2> QED BY <2>1 DEF Joined
<1> HIDE DEF g
<1>2. IsInjective(g) BY DEF g
<1>3. DOMAIN s = 1 .. Len(s) /\ DOMAIN t = 1 .. Len(t) /\ DOMAIN g = 1 .. Len(g) BY <1>1
<1>4. \A k \in 1 .. Len(s) : k \in 1 .. Len(g) BY <1>1
<1>5. IsInjective(s)
  <2>1. ASSUME NEW i \in 1 .. Len(s), NEW j \in 1 .. Len(s), s[i] = s[j] PROVE i = j
    <3>1. i \in 1 .. Len(g) /\ j \in 1 .. Len(g) /\ g[i] = g[j] BY <1>1, <1>4, <2>1
    <3> QED BY <1>2, <1>3, <3>1 DEF IsInjective
  <2> QED BY <1>3, <2>1 DEF IsInjective
<1>6. Range(s) \subseteq Range(g) BY <1>1, <1>3, <1>4 DEF Range
<1>7. ASSUME NEW i \in 1 .. Len(s), NEW j \in 1 .. Len(t), s[i] = t[j] PROVE FALSE
  <2>1. PICK m \in 1 .. Len(g) : m = Len(s) + j BY <1>1
  <2>2. i \in 1 .. Len(g) /\ g[i] = g[m] BY <1>1, <1>4, <1>7, <2>1
  <2>3. i = m BY <1>2, <1>3, <2>2 DEF IsInjective
  <2> QED BY <1>1, <2>1, <2>3
<1>8. Range(s) \cap Range(t) = {} BY <1>3, <1>7 DEF Range
<1> QED BY <1>5, <1>6, <1>8 DEF g

\* uct_chain_update_chains
LEMMA UpdateChainsStep == ASSUME BufInv, UpdateChains PROVE BufInv'
<1> DEFINE L == Len(bufs)
           h == busy \o out
           k == Spent(h)
           R == Recycled(h, k)[k]
           a == SubSeq(h, 1, k)
           b == SubSeq(h, k + 1, Len(h))
<1>1. /\ busy' = b /\ out' = <<>> /\ free' = R.free /\ spare' = R.spare
      /\ bufs' = bufs /\ filled' = filled /\ flushed' = flushed
  BY DEF UpdateChains, Behind
<1>2. /\ L \in Nat /\ bufs \in Seq(Buffers) /\ filled \in Nat /\ flushed \in Nat
      /\ h \in Seq(1 .. L) /\ Unsent(h) = UnsentOf(bufs, h)
  BY HeldTyped
<1>3. filled = flushed + Total(UnsentOf(bufs, h)) BY <1>2 DEF BufInv
<1>4. Distinct(spare, free, h) BY DEF BufInv
<1>5. Len(h) \in Nat BY <1>2
<1>6. k \in 0 .. Len(h) /\ \A j \in 1 .. k : Unsent(h)[j] = 0
  <2> HIDE DEF h
  <2> QED BY <1>5, SpentIs
<1> HIDE DEF k
<1>7. \A j \in 1 .. k : bufs[h[j]].unsent = 0
  <2> HIDE DEF h
  <2>1. \A j \in 1 .. Len(h) : UnsentOf(bufs, h)[j] = bufs[h[j]].unsent BY <1>2, UnsentTyped
  <2>2. \A j \in 1 .. k : j \in 1 .. Len(h) BY <1>5, <1>6
  <2> QED BY <1>2, <1>6, <2>1, <2>2
<1>8. BackTo(h, R, k) BY <1>6, <1>7, BackAll
<1> HIDE DEF h, R
<1>9. /\ a \in Seq(1 .. L) /\ Len(a) = k /\ \A j \in 1 .. k : a[j] = h[j]
  BY <1>2, <1>4, <1>6, InjFront DEF Distinct
<1>10. /\ b \in Seq(1 .. L) /\ IsInjective(b) /\ Range(b) \subseteq Range(h)
       /\ \A j \in 1 .. k : h[j] \notin Range(b)
  <2>1. IsInjective(h) BY <1>4 DEF Distinct
  <2> QED BY <1>2, <1>6, <2>1, InjRest
<1>11. h = a \o b
  <2>1. \A n \in 0 .. Len(h) : SubSeq(h, 1, n) \o SubSeq(h, n + 1, Len(h)) = h
    <3> DEFINE S == 1 .. L
    <3>1. h \in Seq(S) BY <1>2
    <3> HIDE DEF S
    <3> QED BY <3>1, Rejoined
  <2> QED BY <1>6, <2>1
<1> HIDE DEF a, b
<1>12. /\ free' \in Seq(1 .. L) /\ spare' \in Seq(1 .. L)
       /\ IsInjective(free') /\ IsInjective(spare') /\ Range(free') \cap Range(spare') = {}
       /\ Range(free') \cup Range(spare') \subseteq Range(free) \cup Range(spare) \cup {h[j] : j \in 1 .. k}
       /\ \A l \in Range(free') : bufs[l] = [tag |-> "own", unsent |-> 0]
  BY <1>1, <1>8 DEF BackTo, L
<1>13. Distinct(spare', free', b)
  <2>1. (Range(free) \cup Range(spare)) \cap Range(b) = {} BY <1>4, <1>10 DEF Distinct
  <2>2. {h[j] : j \in 1 .. k} \cap Range(b) = {} BY <1>10
  <2>3. (Range(free') \cup Range(spare')) \cap Range(b) = {} BY <1>12, <2>1, <2>2
  <2> QED BY <1>10, <1>12, <2>3 DEF Distinct
<1>14. Total(UnsentOf(bufs, h)) = Total(UnsentOf(bufs, b))
  <2> DEFINE u == UnsentOf(bufs, a)
             v == UnsentOf(bufs, b)
  <2>1. UnsentOf(bufs, h) = u \o v BY <1>2, <1>9, <1>10, <1>11, UnsentConcat DEF L
  <2>2. u \in Seq(Nat) /\ Len(u) = Len(a) /\ \A j \in 1 .. Len(a) : u[j] = bufs[a[j]].unsent
    BY <1>2, <1>9, UnsentTyped DEF L
  <2>3. v \in Seq(Nat) BY <1>2, <1>10, UnsentTyped DEF L
  <2> HIDE DEF u, v
  <2>4. \A j \in 1 .. Len(u) : u[j] = 0 BY <1>7, <1>9, <2>2
  <2>5. Total(u) = 0 BY <2>2, <2>4, TotalZero
  <2>6. Total(u \o v) = Total(u) + Total(v) /\ Total(v) \in Nat BY <2>2, <2>3, TotalConcat
  <2>7. Total(u \o v) = Total(v) BY <2>5, <2>6
  <2> QED BY <2>1, <2>7 DEF v
<1>15. (busy \o out)' = b
  <2>1. (busy \o out)' = b \o <<>> BY <1>1
  <2>2. b \o <<>> = b
    <3> DEFINE S == 1 .. L
    <3>1. b \in Seq(S) BY <1>10
    <3> HIDE DEF S
    <3> QED BY <3>1, ConcatEmptySeq
  <2> QED BY <2>1, <2>2
<1>16. BufTyped'
  <2>1. out' \in Seq(1 .. L) /\ Len(bufs') = L BY <1>1
  <2> QED BY <1>1, <1>2, <1>10, <1>12, <2>1 DEF BufTyped
<1>17. b \in Seq(1 .. Len(bufs')) BY <1>1, <1>10 DEF L
<1>18. \A l \in Range(free') : bufs'[l] = [tag |-> "own", unsent |-> 0] BY <1>1, <1>12
<1>19. filled' = flushed' + Total(UnsentOf(bufs', b)) BY <1>1, <1>3, <1>14
<1> QED BY <1>13, <1>15, <1>16, <1>17, <1>18, <1>19, NextInv

\* The buffers when sent bytes of busy have gone.
LEMMA SentBufs ==
    ASSUME BufInv, NEW sent \in Nat, UpdateSent(sent)
    PROVE  /\ bufs' \in Seq(Buffers) /\ Len(bufs') = Len(bufs)
           /\ \A k \in 1 .. Len(busy) : bufs'[busy[k]].unsent = Left(UnsentOf(bufs, busy), sent, k)
           /\ \A l \in 1 .. Len(bufs) : l \notin Range(busy) => bufs'[l] = bufs[l]
           /\ sent <= Total(UnsentOf(bufs, busy))
<1> DEFINE L == Len(bufs)
           n == Len(busy)
           u == UnsentOf(bufs, busy)
           Val(l) == IF l \in Range(busy) THEN [bufs[l] EXCEPT !.unsent = Left(u, sent, Position(busy, l))] ELSE bufs[l]
<1>1. L \in Nat /\ bufs \in Seq(Buffers) /\ busy \in Seq(1 .. L) BY HeldTyped
<1>2. DOMAIN bufs = 1 .. L /\ DOMAIN busy = 1 .. n /\ n \in Nat BY <1>1
<1>3. Unsent(busy) = u BY <1>2 DEF Unsent, UnsentOf
<1>4. bufs' = [l \in 1 .. L |-> Val(l)] /\ sent <= Total(u) BY <1>2, <1>3 DEF UpdateSent
<1>5. u \in Seq(Nat) /\ Len(u) = n BY <1>1, UnsentTyped
<1> HIDE DEF u
<1>6. \A k \in 1 .. n : Left(u, sent, k) \in Nat BY <1>5, LeftNat
<1>7. IsInjective(busy)
  <2>1. IsInjective(busy \o out) /\ out \in Seq(1 .. L) BY HeldTyped DEF BufInv, Distinct
  <2> QED BY <1>1, <2>1, InjParts
<1>8. ASSUME NEW k \in 1 .. n PROVE Position(busy, busy[k]) = k
  <2>1. \E j \in DOMAIN busy : busy[j] = busy[k] BY <1>2
  <2>2. Position(busy, busy[k]) \in 1 .. n /\ busy[Position(busy, busy[k])] = busy[k] BY <1>2, <2>1 DEF Position
  <2> QED BY <1>2, <1>7, <2>2 DEF IsInjective
<1>9. \A l \in Range(busy) : \E k \in 1 .. n : busy[k] = l BY <1>2 DEF Range
<1>10. \A k \in 1 .. n : busy[k] \in Range(busy) /\ busy[k] \in 1 .. L BY <1>1, <1>2 DEF Range
<1>11. \A l \in 1 .. L : bufs[l] \in Buffers BY <1>1
<1>12. ASSUME NEW k \in 1 .. n PROVE Val(busy[k]) = [bufs[busy[k]] EXCEPT !.unsent = Left(u, sent, k)]
  BY <1>8, <1>10
<1>13. ASSUME NEW k \in 1 .. n PROVE Val(busy[k]).unsent = Left(u, sent, k) /\ Val(busy[k]) \in Buffers
  <2>1. PICK c \in Buffers : c = bufs[busy[k]] BY <1>10, <1>11
  <2>2. PICK q \in Nat : q = Left(u, sent, k) BY <1>6
  <2>3. [c EXCEPT !.unsent = q].unsent = q /\ [c EXCEPT !.unsent = q] \in Buffers BY DEF Buffers
  <2> HIDE DEF Val
  <2> QED BY <1>12, <2>1, <2>2, <2>3
<1>14. ASSUME NEW l \in 1 .. L PROVE Val(l) \in Buffers
  <2>1. CASE l \in Range(busy)
    <3>1. PICK k \in 1 .. n : busy[k] = l BY <1>9, <2>1
    <3> HIDE DEF Val
    <3> QED BY <1>13, <3>1
  <2>2. CASE l \notin Range(busy) BY <1>11, <2>2
  <2> QED BY <2>1, <2>2
<1>15. \A l \in 1 .. L : l \notin Range(busy) => Val(l) = bufs[l] OBVIOUS
<1> HIDE DEF Val, L
<1>16. bufs' \in Seq(Buffers) /\ Len(bufs') = L BY <1>1, <1>4, <1>14
<1>17. \A l \in 1 .. L : bufs'[l] = Val(l) BY <1>4
<1>18. \A k \in 1 .. n : bufs'[busy[k]].unsent = Left(u, sent, k) BY <1>10, <1>13, <1>17
<1>19. \A l \in 1 .. L : l \notin Range(busy) => bufs'[l] = bufs[l] BY <1>15, <1>17
<1> QED BY <1>4, <1>16, <1>18, <1>19 DEF L, u

\* uct_chain_update_sent
LEMMA UpdateSentStep == ASSUME BufInv, NEW sent \in Nat, UpdateSent(sent) PROVE BufInv'
<1> DEFINE L == Len(bufs)
           h == busy \o out
           u == UnsentOf(bufs, busy)
           v == UnsentOf(bufs, out)
           w == UnsentOf(bufs', busy)
<1>1. /\ bufs' \in Seq(Buffers) /\ Len(bufs') = L
      /\ \A k \in 1 .. Len(busy) : bufs'[busy[k]].unsent = Left(u, sent, k)
      /\ \A l \in 1 .. L : l \notin Range(busy) => bufs'[l] = bufs[l]
      /\ sent <= Total(u)
  BY SentBufs
<1>2. flushed' = flushed + sent /\ spare' = spare /\ free' = free /\ busy' = busy /\ out' = out /\ filled' = filled
  BY DEF UpdateSent
<1>3. /\ L \in Nat /\ bufs \in Seq(Buffers) /\ filled \in Nat /\ flushed \in Nat
      /\ spare \in Seq(1 .. L) /\ free \in Seq(1 .. L) /\ busy \in Seq(1 .. L) /\ out \in Seq(1 .. L)
      /\ Range(free) \subseteq 1 .. L
      /\ \A l \in Range(free) : bufs[l] = [tag |-> "own", unsent |-> 0]
      /\ h \in Seq(1 .. L) /\ Unsent(h) = UnsentOf(bufs, h)
  BY HeldTyped
<1>4. filled = flushed + Total(UnsentOf(bufs, h)) BY <1>3 DEF BufInv
<1>5. Distinct(spare, free, h) BY DEF BufInv
<1>6. Range(busy) \cap Range(out) = {} /\ Range(busy) \subseteq Range(h)
  <2>1. IsInjective(h) BY <1>5 DEF Distinct
  <2> QED BY <1>3, <2>1, InjParts
<1> HIDE DEF L
<1>7. \A l \in Range(free) : bufs'[l] = [tag |-> "own", unsent |-> 0]
  <2>1. \A l \in Range(free) : l \notin Range(busy) BY <1>5, <1>6 DEF Distinct
  <2> QED BY <1>1, <1>3, <2>1
<1>8. UnsentOf(bufs', out) = v
  <2>1. ASSUME NEW k \in 1 .. Len(out) PROVE bufs'[out[k]] = bufs[out[k]]
    <3>1. out[k] \in Range(out) /\ out[k] \in 1 .. L BY <1>3, InRange
    <3> QED BY <1>1, <1>6, <3>1
  <2> QED BY <2>1 DEF UnsentOf
<1>9. UnsentOf(bufs, h) = u \o v BY <1>3, UnsentConcat DEF L
<1>10. UnsentOf(bufs', h) = w \o v BY <1>1, <1>3, <1>8, UnsentConcat
<1>11. u \in Seq(Nat) /\ Len(u) = Len(busy) BY <1>3, UnsentTyped DEF L
<1>12. v \in Seq(Nat) BY <1>3, UnsentTyped DEF L
<1>13. w \in Seq(Nat) /\ Len(w) = Len(busy) /\ \A k \in 1 .. Len(busy) : w[k] = bufs'[busy[k]].unsent
  BY <1>1, <1>3, UnsentTyped
<1> HIDE DEF u, v, w, h
<1>14. Total(w) = Total(u) - sent
  <2>1. Len(w) = Len(u) /\ \A k \in 1 .. Len(u) : w[k] = Left(u, sent, k) BY <1>1, <1>11, <1>13
  <2> QED BY <1>1, <1>11, <1>13, <2>1, TotalLeft
<1>15. Total(u \o v) = Total(u) + Total(v) /\ Total(u) \in Nat /\ Total(v) \in Nat BY <1>11, <1>12, TotalConcat
<1>16. Total(w \o v) = Total(w) + Total(v) BY <1>12, <1>13, TotalConcat
<1>17. filled' = flushed' + Total(UnsentOf(bufs', h))
  <2>1. PICK x \in Nat : x = Total(u) BY <1>15
  <2>2. PICK y \in Nat : y = Total(v) BY <1>15
  <2>3. filled = flushed + (x + y) BY <1>4, <1>9, <1>15, <2>1, <2>2
  <2>4. Total(UnsentOf(bufs', h)) = (x - sent) + y BY <1>10, <1>14, <1>16, <2>1, <2>2
  <2> QED BY <1>2, <1>3, <2>3, <2>4
<1>18. BufTyped'
  <2>1. flushed' \in Nat BY <1>2, <1>3
  <2> QED BY <1>1, <1>2, <1>3, <2>1 DEF BufTyped
<1>19. (busy \o out)' = h BY <1>2 DEF h
<1>20. h \in Seq(1 .. Len(bufs')) /\ Distinct(spare', free', h) BY <1>1, <1>2, <1>3, <1>5
<1>21. \A l \in Range(free') : bufs'[l] = [tag |-> "own", unsent |-> 0] BY <1>2, <1>7
<1> QED BY <1>17, <1>18, <1>19, <1>20, <1>21, NextInv

\* No chain holds anything at first.
LEMMA BufStart == InitBuf => BufInv
<1> SUFFICES ASSUME InitBuf PROVE BufInv OBVIOUS
<1>1. spare = <<>> /\ free = <<>> /\ busy = <<>> /\ out = <<>> /\ bufs = <<>> /\ filled = 0 /\ flushed = 0
  BY DEF InitBuf
<1>2. BufTyped BY <1>1 DEF BufTyped
<1>3. busy \o out = <<>> BY <1>1
<1>4. Distinct(<<>>, <<>>, <<>>) BY DEF Distinct, IsInjective, Range
<1>5. Total(Unsent(<<>>)) = 0
  <2>1. Unsent(<<>>) \in Seq(Nat) /\ Len(Unsent(<<>>)) = 0 BY DEF Unsent
  <2>2. \A k \in 1 .. Len(Unsent(<<>>)) : Unsent(<<>>)[k] = 0 BY <2>1
  <2> QED BY <2>1, <2>2, TotalZero
<1> QED BY <1>1, <1>2, <1>3, <1>4, <1>5 DEF BufInv

\* Every operation on the chains keeps the invariant.
LEMMA BufInvariance == BufSpec => []BufInv
<1>1. BufInv /\ [BufNext]_bufVars => BufInv'
  <2> SUFFICES ASSUME BufInv, [BufNext]_bufVars PROVE BufInv' OBVIOUS
  <2>1. ASSUME NEW n \in 0 .. BufSize, GetFreeBuf(n) PROVE BufInv'
    <3>1. n \in Nat BY BufChainAssumption
    <3> QED BY <2>1, <3>1, GetFreeBufStep
  <2>2. ASSUME NEW sizes \in Fills, CreateChainOfBufs(sizes) PROVE BufInv' BY <2>2, CreateChainStep
  <2>3. ASSUME NEW sizes \in Fills, ChainAddCopy(sizes) PROVE BufInv' BY <2>3, AddCopyStep
  <2>4. ASSUME UpdateChains PROVE BufInv' BY <2>4, UpdateChainsStep
  <2>5. ASSUME NEW sent \in 1 .. MaxFilled, UpdateSent(sent) PROVE BufInv'
    <3>1. sent \in Nat BY BufChainAssumption
    <3> QED BY <2>5, <3>1, UpdateSentStep
  <2>6. ASSUME UNCHANGED bufVars PROVE BufInv'
    BY <2>6 DEF bufVars, BufInv, BufTyped, Distinct, Unsent
  <2> QED BY <2>1, <2>2, <2>3, <2>4, <2>5, <2>6 DEF BufNext
<1> QED BY <1>1, BufStart, PTL DEF BufSpec

\* A link is in one chain and there once, a free buffer is empty and the user's
\* own, and what was put in is what was sent and what out and busy still hold,
\* whatever the sizes of the buffers and however often links are recycled.
THEOREM BufChainsSound == BufSpec => []ChainsSound
<1>1. BufInv => ChainsSound
  <2> SUFFICES ASSUME BufInv PROVE ChainsSound OBVIOUS
  <2> DEFINE S == 1 .. Len(bufs)
             h == busy \o out
             fh == free \o h
  <2>1. spare \in Seq(S) /\ free \in Seq(S) /\ busy \in Seq(S) /\ out \in Seq(S) /\ h \in Seq(S) BY HeldTyped
  <2>2. Distinct(spare, free, h) BY DEF BufInv
  <2> HIDE DEF S
  <2>3. ((spare \o free) \o busy) \o out = spare \o (free \o (busy \o out))
    <3>1. spare \o free \in Seq(S) BY <2>1
    <3>2. Regrouped(spare \o free, busy, out) BY <2>1, <3>1, ConcatThree
    <3>3. Regrouped(spare, free, busy \o out) BY <2>1, ConcatThree
    <3> QED BY <3>2, <3>3 DEF Regrouped
  <2> HIDE DEF h
  <2>4. IsInjective(fh) /\ Range(fh) = Range(free) \cup Range(h) BY <2>1, <2>2, InjConcat DEF Distinct
  <2>5. fh \in Seq(S) BY <2>1
  <2> HIDE DEF fh
  <2>6. Range(spare) \cap Range(fh) = {} /\ IsInjective(spare) BY <2>2, <2>4 DEF Distinct
  <2>7. IsInjective(spare \o fh) BY <2>1, <2>4, <2>5, <2>6, InjConcat
  <2>8. IsInjective(spare \o free \o busy \o out) BY <2>3, <2>7 DEF fh, h
  <2> QED BY <2>8 DEF BufInv, ChainsSound
<1> QED BY <1>1, BufInvariance, PTL
==============================================================================
