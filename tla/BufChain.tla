------------------------------ MODULE BufChain ------------------------------
(***************************************************************************)
(* Chains of buffers (uct_buf.c).  A user fills buffers of its own, or     *)
(* copies a chain of somebody else's, into out; uct_chain_update_chains    *)
(* moves out behind busy and takes what has been sent off busy, its own    *)
(* buffers into free, to be filled again, and the links of the others into *)
(* the spare links of the pool.  A chain is the sequence of its links.     *)
(***************************************************************************)
EXTENDS Integers, Sequences, FiniteSets, Functions

CONSTANTS BufSize,              \* bytes a buffer holds
          MaxLinks, MaxFilled   \* bounds: links allocated, bytes filled

ASSUME BufChainAssumption == {BufSize, MaxLinks, MaxFilled} \subseteq Nat

VARIABLES spare,      \* pool->chain
          free, busy, \* the chains of the user
          out,
          bufs,       \* bufs[l]: the buffer of link l: whose it is and what is unsent
          filled,     \* bytes put in buffers so far
          flushed     \* bytes sent so far

bufVars == <<spare, free, busy, out, bufs, filled, flushed>>

InitBuf ==
    /\ spare = <<>> /\ free = <<>> /\ busy = <<>> /\ out = <<>> /\ bufs = <<>>
    /\ filled = 0 /\ flushed = 0

\* uct_alloc_chain_link: n links, spare ones first, as a sequence.
Take(n) ==
    LET old == IF n < Len(spare) THEN n ELSE Len(spare)
    IN  SubSeq(spare, 1, old) \o [k \in 1 .. n - old |-> Len(bufs) + k]

\* Where in a chain, or among links taken, l is.
Position(links, l) == CHOOSE k \in DOMAIN links : links[k] = l

\* The buffers when the k-th of links has a buffer with sizes[k] bytes, of the
\* tag given.
WithBufs(links, sizes, tag) ==
    [l \in DOMAIN bufs \cup Range(links) |->
        IF l \in Range(links) THEN [tag |-> tag, unsent |-> sizes[Position(links, l)]] ELSE bufs[l]]

\* The running totals of sizes, and the total.
Sums(sizes) ==
    LET sum[k \in 0 .. Len(sizes)] == IF k = 0 THEN 0 ELSE sum[k - 1] + sizes[k] IN sum
Total(sizes) == Sums(sizes)[Len(sizes)]

\* links, which are no longer spare, are filled and join out.
Out(links, sizes, tag) ==
    /\ out' = out \o links
    /\ bufs' = WithBufs(links, sizes, tag)
    /\ filled' = filled + Total(sizes)

\* Links taken when a later allocation fails are in no chain any more.
Dropped(n) ==
    /\ spare' = SubSeq(spare, n + 1, Len(spare))
    /\ bufs' = WithBufs(Take(n), [k \in 1 .. n |-> 0], "none")

\* uct_chain_get_free_buf: the first free link with its buffer, or a new one of
\* each, into which the user puts n bytes; 0 is a buffer that only flushes.
\* uct_calloc_buf may fail when the link has been taken.
GetFreeBuf(n) ==
    \/ /\ free # <<>>
       /\ Out(<<Head(free)>>, <<n>>, "own") /\ free' = Tail(free)
       /\ UNCHANGED <<spare, busy, flushed>>
    \/ /\ free = <<>>
       /\ Out(Take(1), <<n>>, "own") /\ spare' = SubSeq(spare, 2, Len(spare))
       /\ UNCHANGED <<free, busy, flushed>>
    \/ /\ free = <<>> /\ n = 0
       /\ Dropped(1)
       /\ UNCHANGED <<free, busy, out, filled, flushed>>

\* uct_create_chain_of_bufs: a chain of Len(sizes) buffers, as filled by the
\* user, or, after fewer links than that, nothing.
CreateChainOfBufs(sizes) ==
    \/ /\ Out(Take(Len(sizes)), sizes, "own")
       /\ spare' = SubSeq(spare, Len(sizes) + 1, Len(spare))
       /\ UNCHANGED <<free, busy, flushed>>
    \/ \E n \in 0 .. Len(sizes) - 1 : Dropped(n) /\ UNCHANGED <<free, busy, out, filled, flushed>>

\* uct_chain_add_copy of a chain of somebody else's buffers.  When a link
\* cannot be allocated the part copied so far stays.
ChainAddCopy(sizes) ==
    /\ \E n \in 0 .. Len(sizes) :
         /\ Out(Take(n), SubSeq(sizes, 1, n), "other")
         /\ spare' = SubSeq(spare, n + 1, Len(spare))
    /\ UNCHANGED <<free, busy, flushed>>

\* Mutant of Behind: the chain replaces what is still busy.
BehindNot == IF out = <<>> THEN busy ELSE out

\* out is put behind busy.
Behind == busy \o out

\* What the buffers of a chain have not sent.
Unsent(chain) == [k \in DOMAIN chain |-> bufs[chain[k]].unsent]

\* How many links at the front of a chain have empty buffers.
Spent(chain) ==
    CHOOSE k \in 0 .. Len(chain) : /\ \A j \in 1 .. k : Unsent(chain)[j] = 0
                                   /\ k < Len(chain) => Unsent(chain)[k + 1] # 0

\* The free and the spare links when the first k of a chain have been put in
\* front of the ones or the others, for every k up to n.
Recycled(chain, n) ==
    LET lists[k \in 0 .. n] ==
            IF k = 0 THEN [free |-> free, spare |-> spare]
            ELSE IF bufs[chain[k]].tag = "own"
            THEN [free |-> <<chain[k]>> \o lists[k - 1].free, spare |-> lists[k - 1].spare]
            ELSE [free |-> lists[k - 1].free, spare |-> <<chain[k]>> \o lists[k - 1].spare]
    IN  lists

\* uct_chain_update_chains
UpdateChains ==
    LET k == Spent(Behind)
    IN  /\ out # <<>> \/ k > 0
        /\ busy' = SubSeq(Behind, k + 1, Len(Behind))
        /\ out' = <<>>
        /\ free' = Recycled(Behind, k)[k].free
        /\ spare' = Recycled(Behind, k)[k].spare
        /\ UNCHANGED <<bufs, filled, flushed>>

\* What is left of the k-th of sizes when sent bytes have gone, from the front.
Left(sizes, sent, k) ==
    IF sent >= Sums(sizes)[k] THEN 0
    ELSE IF sent > Sums(sizes)[k - 1] THEN Sums(sizes)[k] - sent ELSE sizes[k]

\* uct_chain_update_sent: sent bytes of busy have been sent.
UpdateSent(sent) ==
    /\ sent <= Total(Unsent(busy))
    /\ bufs' = [l \in DOMAIN bufs |->
                  IF l \in Range(busy)
                  THEN [bufs[l] EXCEPT !.unsent = Left(Unsent(busy), sent, Position(busy, l))]
                  ELSE bufs[l]]
    /\ flushed' = flushed + sent
    /\ UNCHANGED <<spare, free, busy, out, filled>>

Fills == [1 .. 2 -> 0 .. BufSize]

BufNext ==
    \/ /\ filled + 2 * BufSize <= MaxFilled /\ Len(bufs) + 2 <= MaxLinks
       /\ \/ \E n \in 0 .. BufSize : GetFreeBuf(n)
          \/ \E sizes \in Fills : CreateChainOfBufs(sizes) \/ ChainAddCopy(sizes)
    \/ UpdateChains
    \/ \E sent \in 1 .. MaxFilled : UpdateSent(sent)

BufSpec == InitBuf /\ [][BufNext]_bufVars

-----------------------------------------------------------------------------
(* Properties *)

\* However fills, copies, partial sends and failed allocations follow one
\* another: a link is in one chain and there once, so that no chain is cyclic
\* and no buffer is filled while it waits to be sent; a free buffer is empty and
\* the user's own; and what was put in is what was sent and what out and busy
\* still hold.
ChainsSound ==
    /\ IsInjective(spare \o free \o busy \o out)
    /\ \A k \in DOMAIN free : bufs[free[k]] = [tag |-> "own", unsent |-> 0]
    /\ filled = flushed + Total(Unsent(busy \o out))
=============================================================================
