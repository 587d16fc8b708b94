------------------------------ MODULE HashRing ------------------------------
(***************************************************************************)
(* The hash ring of the ip_hash policy: how it is built and sorted, the    *)
(* binary search for a client's point, and the search for a point of a     *)
(* server that can take over.  A point is a record of a server and a hash; *)
(* the md5 of a key (md5_hash) is any number, so two points may share one. *)
(*                                                                         *)
(* Indices are those of the code, plus one.                                *)
(***************************************************************************)
EXTENDS Integers, Sequences

LOCAL INSTANCE SequencesExt

\* The j-th point and the next one are put in order.
Ordered(points, j) ==
    IF points[j].hash > points[j + 1].hash
    THEN [points EXCEPT ![j] = points[j + 1], ![j + 1] = points[j]] ELSE points

\* Mutant of BubblePass: the inner loop ends one point early.
BubblePassShort(points, n) ==
    LET pass[j \in 0 .. n] == IF j = 0 THEN points ELSE IF j = n THEN pass[j - 1] ELSE Ordered(pass[j - 1], j)
    IN  pass[n]

\* The inner loop of the bubble sort carries the largest hash of the first n + 1
\* points to the end of them.
BubblePass(points, n) ==
    LET pass[j \in 0 .. n] == IF j = 0 THEN points ELSE Ordered(pass[j - 1], j)
    IN  pass[n]

\* The outer loop.
BubbleSort(points) ==
    LET sort[i \in 0 .. Len(points)] == IF i = 0 THEN points ELSE BubblePass(sort[i - 1], Len(points) - i)
    IN  sort[Len(points)]

\* weight * 160 points for every server, in the order of the servers; hash is
\* md5_hash of the key of a server's j-th point.
RingPoints(servers, npoints, hash) ==
    FlattenSeq([s \in 1 .. Len(servers) |->
        [j \in 1 .. npoints[servers[s]] |-> [srv |-> servers[s], hash |-> hash[<<servers[s], j>>]]]])

InitHashRing(servers, npoints, hash) == BubbleSort(RingPoints(servers, npoints, hash))

\* The loop both searches share: the first point whose hash is not less than h,
\* or the last point.
LowerBound(points, h) ==
    LET search[r \in (1 .. Len(points)) \X (1 .. Len(points))] ==
            LET i == r[1]
                j == r[2]
                k == (i + j) \div 2
            IN  IF i >= j THEN i
                ELSE IF points[k].hash < h THEN search[<<k + 1, j>>] ELSE search[<<i, k>>]
    IN  search[<<1, Len(points)>>]

\* Mutant of GetHashPoint: the end of the ring is not joined to its start.
GetHashPointNoWrap(points, h) == LowerBound(points, h)

GetHashPoint(points, h) ==
    LET i == LowerBound(points, h)
    IN  IF i = Len(points) /\ points[i].hash < h THEN 1 ELSE i

-----------------------------------------------------------------------------
(* What the ring promises *)

Sorted(points) == \A j, k \in DOMAIN points : j < k => points[j].hash <= points[k].hash

\* The owner of h: the first point at or after h, the first of all if none is.
RingOwner(points, h) ==
    LET at == {k \in DOMAIN points : points[k].hash >= h}
    IN  IF at = {} THEN 1 ELSE CHOOSE k \in at : \A q \in at : k <= q
=============================================================================
