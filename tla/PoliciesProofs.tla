----------------------------- MODULE PoliciesProofs -----------------------------
(***************************************************************************)
(* Proofs about Policies: the binary search of the hash ring, the sort     *)
(* that makes the ring fit for it, and what the four policies keep, for    *)
(* any number of servers and workers, any ring and any configuration of    *)
(* the servers.                                                            *)
(***************************************************************************)
EXTENDS Policies, RingBuild, UpstreamProofs

-----------------------------------------------------------------------------
(* The binary search *)

\* A sorted ring, as the searches need it.
RingOK(points) ==
    /\ Len(points) \in Nat /\ Len(points) >= 1
    /\ DOMAIN points = 1 .. Len(points)
    /\ \A k \in 1 .. Len(points) : points[k].hash \in Int
    /\ \A j, k \in 1 .. Len(points) : j < k => points[j].hash <= points[k].hash

\* k is the first point from i on whose hash is not less than h, or j.
IsFirst(points, h, i, j, k) ==
    /\ k \in i .. j
    /\ \A q \in i .. k-1 : points[q].hash < h
    /\ k < j => points[k].hash >= h

Pairs(points) == (1 .. Len(points)) \X (1 .. Len(points))
Mid(r) == (r[1] + r[2]) \div 2
Look(points, h, g, r) ==
    IF r[1] >= r[2] THEN r[1]
    ELSE IF points[Mid(r)].hash < h THEN g[<<Mid(r) + 1, r[2]>>] ELSE g[<<r[1], Mid(r)>>]
IsSearch(points, h, g) == g = [r \in Pairs(points) |-> Look(points, h, g, r)]
Search(points, h) == CHOOSE g : IsSearch(points, h, g)

\* LowerBound is the value of the loop's recursive function at the whole ring.
LEMMA LowerBoundIsSearch ==
    ASSUME NEW points, NEW h
    PROVE  LowerBound(points, h) = Search(points, h)[<<1, Len(points)>>]
BY DEF LowerBound, Search, IsSearch, Look, Pairs, Mid

\* There is exactly one first point.
LEMMA FirstExists ==
    ASSUME NEW points, RingOK(points), NEW h \in Int,
           NEW i \in 1 .. Len(points), NEW j \in 1 .. Len(points), i <= j
    PROVE  \E k \in i .. j : IsFirst(points, h, i, j, k)
<1> DEFINE at == {k \in i .. j : k = j \/ points[k].hash >= h}
<1>1. j \in at /\ at \subseteq Nat BY DEF RingOK
<1>2. PICK k \in at : \A q \in at : k <= q
  <2> HIDE DEF at
  <2> QED BY <1>1, LeastNat
<1>3. \A q \in i .. k-1 : q \notin at /\ q \in i .. j /\ q # j BY <1>2 DEF RingOK
<1>4. \A q \in i .. k-1 : points[q].hash < h BY <1>3 DEF RingOK
<1>5. k \in i .. j /\ (k < j => points[k].hash >= h) BY <1>2 DEF RingOK
<1> QED BY <1>4, <1>5 DEF IsFirst

\* A ring has one first point at or behind a hash.
LEMMA FirstUnique ==
    ASSUME NEW points, RingOK(points), NEW h \in Int,
           NEW i \in 1 .. Len(points), NEW j \in 1 .. Len(points),
           NEW k, NEW m, IsFirst(points, h, i, j, k), IsFirst(points, h, i, j, m)
    PROVE  k = m
<1>1. k \in i .. j /\ m \in i .. j /\ k \in Int /\ m \in Int BY DEF IsFirst, RingOK
<1>2. ASSUME NEW a \in i .. j, NEW b \in i .. j, a < b,
             IsFirst(points, h, i, j, a), IsFirst(points, h, i, j, b)
      PROVE  FALSE
  <2>1. a \in i .. b-1 /\ a < j /\ a \in 1 .. Len(points) BY <1>2 DEF RingOK
  <2>2. points[a].hash < h /\ points[a].hash >= h BY <1>2, <2>1 DEF IsFirst
  <2>3. points[a].hash \in Int BY <2>1 DEF RingOK
  <2> QED BY <2>2, <2>3
<1>3. ~(k < m) /\ ~(m < k) BY <1>1, <1>2
<1> QED BY <1>1, <1>3

\* Halving keeps the first point: what the loop finds in the half it goes on
\* with is the answer for the whole.
LEMMA HalfHasFirst ==
    ASSUME NEW points, RingOK(points), NEW h \in Int,
           NEW i \in 1 .. Len(points), NEW j \in 1 .. Len(points), i < j
    PROVE  LET k == (i + j) \div 2
           IN  /\ k \in i .. j-1
               /\ points[k].hash < h =>
                    \A m : IsFirst(points, h, k+1, j, m) => IsFirst(points, h, i, j, m)
               /\ ~(points[k].hash < h) =>
                    \A m : IsFirst(points, h, i, k, m) => IsFirst(points, h, i, j, m)
<1> DEFINE n == Len(points)
           k == (i + j) \div 2
<1>1. n \in Nat /\ i \in Nat /\ j \in Nat BY DEF RingOK
<1>2. k \in i .. j-1 /\ k \in Nat /\ k \in 1 .. n /\ k+1 \in 1 .. n BY <1>1, SMT
<1> HIDE DEF k
<1>3. points[k].hash \in Int BY <1>2 DEF RingOK
<1>4. ASSUME points[k].hash < h, NEW m, IsFirst(points, h, k+1, j, m) PROVE IsFirst(points, h, i, j, m)
  <2>1. m \in k+1 .. j BY <1>4 DEF IsFirst
  <2>2. m \in i .. j BY <1>1, <1>2, <2>1
  <2>3. ASSUME NEW q \in i .. m-1 PROVE points[q].hash < h
    <3>1. CASE q > k BY <1>4, <3>1, <1>1, <1>2, <2>1 DEF IsFirst
    <3>2. CASE q <= k
      <4>1. q \in 1 .. n BY <1>1, <1>2, <3>2
      <4>2. points[q].hash \in Int /\ points[q].hash <= points[k].hash BY <1>2, <1>3, <3>2, <4>1 DEF RingOK
      <4> QED BY <1>3, <1>4, <4>2
    <3> QED BY <1>1, <1>2, <2>1, <3>1, <3>2
  <2> QED BY <1>4, <2>2, <2>3 DEF IsFirst
<1>5. ASSUME ~(points[k].hash < h), NEW m, IsFirst(points, h, i, k, m) PROVE IsFirst(points, h, i, j, m)
  <2>1. m \in i .. k BY <1>5 DEF IsFirst
  <2>2. m \in i .. j BY <1>1, <1>2, <2>1
  <2>3. points[m].hash >= h BY <1>1, <1>2, <1>3, <1>5, <2>1 DEF IsFirst
  <2> QED BY <1>5, <2>2, <2>3 DEF IsFirst
<1>6. /\ k \in i .. j-1
      /\ points[k].hash < h => \A m : IsFirst(points, h, k+1, j, m) => IsFirst(points, h, i, j, m)
      /\ ~(points[k].hash < h) => \A m : IsFirst(points, h, i, k, m) => IsFirst(points, h, i, j, m)
  BY <1>2, <1>4, <1>5
<1> QED BY <1>6 DEF k

\* The recursion of the loop has a solution.
LEMMA SearchExists ==
    ASSUME NEW points, RingOK(points), NEW h \in Int
    PROVE  IsSearch(points, h, Search(points, h))
<1> DEFINE n == Len(points)
           A(r) == IF r[1] >= r[2] THEN r[1] ELSE CHOOSE k : IsFirst(points, h, r[1], r[2], k)
           G == [r \in Pairs(points) |-> A(r)]
<1>1. n \in Nat BY DEF RingOK
<1>2. ASSUME NEW i \in 1 .. n, NEW j \in 1 .. n, i <= j PROVE IsFirst(points, h, i, j, A(<<i, j>>))
  <2>1. CASE i = j
    <3>1. A(<<i, j>>) = i BY <1>1, <2>1
    <3>2. i \in i .. j /\ i .. i-1 = {} /\ ~(i < j) BY <1>1, <2>1
    <3> QED BY <3>1, <3>2 DEF IsFirst
  <2>2. CASE i # j
    <3>1. A(<<i, j>>) = CHOOSE k : IsFirst(points, h, i, j, k) BY <1>1, <1>2, <2>2
    <3>2. \E k : IsFirst(points, h, i, j, k) BY <1>2, FirstExists
    <3> QED BY <3>1, <3>2
  <2> QED BY <2>1, <2>2
<1>3. ASSUME NEW i \in 1 .. n, NEW j \in 1 .. n PROVE G[<<i, j>>] = Look(points, h, G, <<i, j>>)
  <2>1. <<i, j>> \in Pairs(points) BY DEF Pairs
  <2>2. G[<<i, j>>] = A(<<i, j>>) BY <2>1
  <2>3. CASE i >= j BY <2>2, <2>3 DEF Look
  <2>4. CASE i < j
    <3> DEFINE k == (i + j) \div 2
    <3>1. k = Mid(<<i, j>>) BY DEF Mid
    <3>2. /\ k \in i .. j-1
          /\ points[k].hash < h => \A m : IsFirst(points, h, k+1, j, m) => IsFirst(points, h, i, j, m)
          /\ ~(points[k].hash < h) => \A m : IsFirst(points, h, i, k, m) => IsFirst(points, h, i, j, m)
      BY <2>4, HalfHasFirst
    <3> HIDE DEF k, A, G
    <3>3. k \in 1 .. n /\ k+1 \in 1 .. n /\ k+1 <= j /\ i <= k BY <1>1, <3>2
    <3>4. IsFirst(points, h, i, j, A(<<i, j>>)) BY <1>2, <2>4
    <3>5. CASE points[k].hash < h
      <4>1. IsFirst(points, h, i, j, A(<<k+1, j>>)) BY <1>2, <3>2, <3>3, <3>5
      <4>2. A(<<i, j>>) = A(<<k+1, j>>) BY <3>4, <4>1, FirstUnique
      <4>3. G[<<k+1, j>>] = A(<<k+1, j>>) BY <3>3 DEF G, Pairs
      <4>4. Look(points, h, G, <<i, j>>) = G[<<k+1, j>>] BY <1>1, <2>4, <3>1, <3>5 DEF Look
      <4> QED BY <2>2, <4>2, <4>3, <4>4
    <3>6. CASE ~(points[k].hash < h)
      <4>1. IsFirst(points, h, i, j, A(<<i, k>>)) BY <1>2, <3>2, <3>3, <3>6
      <4>2. A(<<i, j>>) = A(<<i, k>>) BY <3>4, <4>1, FirstUnique
      <4>3. G[<<i, k>>] = A(<<i, k>>) BY <3>3 DEF G, Pairs
      <4>4. Look(points, h, G, <<i, j>>) = G[<<i, k>>] BY <1>1, <2>4, <3>1, <3>6 DEF Look
      <4> QED BY <2>2, <4>2, <4>3, <4>4
    <3> QED BY <3>5, <3>6
  <2> QED BY <1>1, <2>3, <2>4
<1>4. IsSearch(points, h, G)
  <2>1. \A r \in Pairs(points) : G[r] = Look(points, h, G, r)
    <3> SUFFICES ASSUME NEW r \in Pairs(points) PROVE G[r] = Look(points, h, G, r) OBVIOUS
    <3>1. r = <<r[1], r[2]>> /\ r[1] \in 1 .. n /\ r[2] \in 1 .. n BY DEF Pairs
    <3> HIDE DEF G
    <3> QED BY <1>3, <3>1
  <2>2. G = [r \in Pairs(points) |-> G[r]] OBVIOUS
  <2> HIDE DEF G
  <2> QED BY <2>1, <2>2 DEF IsSearch
<1> QED BY <1>4 DEF Search

\* Whatever the loop starts from, it ends at the first point.
LEMMA SearchFinds ==
    ASSUME NEW points, RingOK(points), NEW h \in Int,
           NEW a \in 1 .. Len(points), NEW b \in 1 .. Len(points), a <= b
    PROVE  IsFirst(points, h, a, b, Search(points, h)[<<a, b>>])
<1> DEFINE n == Len(points)
           g == Search(points, h)
           Bad == {d \in Nat : \E i, j \in 1 .. n : j - i = d /\ ~IsFirst(points, h, i, j, g[<<i, j>>])}
<1>1. n \in Nat BY DEF RingOK
<1>2. SUFFICES Bad = {}
  <2>1. b - a \in Nat BY <1>1
  <2> QED BY <1>2, <2>1
<1>3. SUFFICES ASSUME Bad # {} PROVE FALSE OBVIOUS
<1>4. PICK d \in Bad : \A e \in Bad : d <= e
  <2>1. Bad \subseteq Nat OBVIOUS
  <2> HIDE DEF Bad
  <2> QED BY <1>3, <2>1, LeastNat
<1>5. PICK i \in 1 .. n, j \in 1 .. n : j - i = d /\ ~IsFirst(points, h, i, j, g[<<i, j>>]) BY <1>4
<1>6. i <= j BY <1>1, <1>4, <1>5
<1>7. \A x, y \in 1 .. n : x <= y /\ y - x < d => IsFirst(points, h, x, y, g[<<x, y>>])
  <2> SUFFICES ASSUME NEW x \in 1 .. n, NEW y \in 1 .. n, x <= y, y - x < d
               PROVE  IsFirst(points, h, x, y, g[<<x, y>>])
    OBVIOUS
  <2>1. y - x \in Nat BY <1>1
  <2>2. y - x \notin Bad
    <3> HIDE DEF Bad
    <3>1. d \in Nat BY <1>4 DEF Bad
    <3> QED BY <1>4, <2>1, <3>1
  <2> QED BY <2>1, <2>2
<1> HIDE DEF Bad
<1>8. g[<<i, j>>] = Look(points, h, g, <<i, j>>)
  <2>1. IsSearch(points, h, g) BY SearchExists
  <2>2. <<i, j>> \in Pairs(points) BY DEF Pairs
  <2> HIDE DEF g
  <2> QED BY <2>1, <2>2 DEF IsSearch
<1> HIDE DEF g
<1>9. CASE i = j
  <2>1. g[<<i, j>>] = i BY <1>1, <1>8, <1>9 DEF Look
  <2>2. i \in i .. j /\ i .. i-1 = {} /\ ~(i < j) BY <1>1, <1>9
  <2> QED BY <1>5, <2>1, <2>2 DEF IsFirst
<1>10. CASE i < j
  <2> DEFINE k == (i + j) \div 2
  <2>1. k = Mid(<<i, j>>) BY DEF Mid
  <2>2. /\ k \in i .. j-1
        /\ points[k].hash < h => \A m : IsFirst(points, h, k+1, j, m) => IsFirst(points, h, i, j, m)
        /\ ~(points[k].hash < h) => \A m : IsFirst(points, h, i, k, m) => IsFirst(points, h, i, j, m)
    BY <1>10, HalfHasFirst
  <2> HIDE DEF k
  <2>3. /\ k \in 1 .. n /\ k+1 \in 1 .. n /\ k+1 <= j /\ i <= k
        /\ j - (k+1) < d /\ k - i < d
    BY <1>1, <1>5, <2>2
  <2>4. CASE points[k].hash < h
    <3>1. g[<<i, j>>] = g[<<k+1, j>>] BY <1>1, <1>8, <1>10, <2>1, <2>4 DEF Look
    <3>2. IsFirst(points, h, k+1, j, g[<<k+1, j>>]) BY <1>7, <2>3
    <3> QED BY <1>5, <2>2, <2>4, <3>1, <3>2
  <2>5. CASE ~(points[k].hash < h)
    <3>1. g[<<i, j>>] = g[<<i, k>>] BY <1>1, <1>8, <1>10, <2>1, <2>5 DEF Look
    <3>2. IsFirst(points, h, i, k, g[<<i, k>>]) BY <1>7, <2>3
    <3> QED BY <1>5, <2>2, <2>5, <3>1, <3>2
  <2> QED BY <2>4, <2>5
<1> QED BY <1>1, <1>6, <1>9, <1>10

\* The rings of the configuration are what the searches need.
LEMMA RingsOK == \A r \in Rings : RingOK(r) /\ \A k \in 1 .. Len(r) : r[k].srv \in Servers
<1> SUFFICES ASSUME NEW r \in Rings PROVE RingOK(r) /\ \A k \in 1 .. Len(r) : r[k].srv \in Servers OBVIOUS
<1>1. r \in Seq([srv : Servers, hash : Int]) /\ r # <<>> /\ Sorted(r) BY PoliciesAssumption
<1>2. Len(r) \in Nat /\ DOMAIN r = 1 .. Len(r) /\ Len(r) # 0 BY <1>1
<1>3. ASSUME NEW k \in 1 .. Len(r) PROVE r[k].hash \in Int /\ r[k].srv \in Servers
  <2>1. \A R : r \in Seq(R) => r[k] \in R BY <1>2
  <2>2. r[k] \in [srv : Servers, hash : Int] BY <1>1, <2>1
  <2> QED BY <2>2
<1>4. \A j, k \in 1 .. Len(r) : j < k => r[j].hash <= r[k].hash BY <1>1, <1>2 DEF Sorted
<1>5. Len(r) >= 1 BY <1>2
<1> QED BY <1>2, <1>3, <1>4, <1>5, Zenon DEF RingOK

\* The loop both searches share, on a sorted ring.
LEMMA LowerBoundFirst ==
    ASSUME NEW points, RingOK(points), NEW h \in Int
    PROVE  IsFirst(points, h, 1, Len(points), LowerBound(points, h))
<1>1. 1 \in 1 .. Len(points) /\ Len(points) \in 1 .. Len(points) /\ 1 <= Len(points) BY DEF RingOK
<1> QED BY <1>1, SearchFinds, LowerBoundIsSearch

\* What uct_upstream_get_hash_point finds is the owner of the hash, for any
\* sorted ring: the first point at or after it, or the first of all.
LEMMA HashPointIsOwner ==
    ASSUME NEW points, RingOK(points), NEW h \in Int
    PROVE  /\ GetHashPoint(points, h) = RingOwner(points, h)
           /\ RingOwner(points, h) \in 1 .. Len(points)
           /\ \A q \in 1 .. RingOwner(points, h) - 1 : points[q].hash < h
           /\ RingOwner(points, h) # 1 => points[RingOwner(points, h)].hash >= h
<1> DEFINE n == Len(points)
           i == LowerBound(points, h)
           at == {k \in DOMAIN points : points[k].hash >= h}
<1>1. n \in Nat /\ n >= 1 /\ DOMAIN points = 1 .. n BY DEF RingOK
<1>2. IsFirst(points, h, 1, n, i) BY LowerBoundFirst
<1> HIDE DEF i
<1>3. /\ i \in 1 .. n /\ points[i].hash \in Int
      /\ \A q \in 1 .. i-1 : points[q].hash < h /\ points[q].hash \in Int
      /\ i < n => points[i].hash >= h
  BY <1>1, <1>2 DEF IsFirst, RingOK
<1>4. CASE i = n /\ points[i].hash < h
  <2>1. at = {}
    <3> SUFFICES ASSUME NEW k \in at PROVE FALSE OBVIOUS
    <3>0. k \in 1 .. n /\ points[k].hash >= h BY <1>1
    <3>1. points[k].hash \in Int /\ (k = n \/ k \in 1 .. i-1) BY <3>0, <1>1, <1>3, <1>4 DEF RingOK
    <3> QED BY <1>3, <1>4, <3>0, <3>1
  <2>2. RingOwner(points, h) = 1 BY <2>1 DEF RingOwner
  <2>3. GetHashPoint(points, h) = 1 BY <1>4 DEF GetHashPoint, i
  <2> QED BY <1>1, <2>2, <2>3
<1>5. CASE ~(i = n /\ points[i].hash < h)
  <2>1. points[i].hash >= h BY <1>1, <1>3, <1>5
  <2>2. i \in at BY <1>1, <1>3, <2>1
  <2>3. \A q \in at : i <= q
    <3> SUFFICES ASSUME NEW q \in 1 .. n, points[q].hash >= h PROVE i <= q BY <1>1
    <3>1. q \notin 1 .. i-1 BY <1>3
    <3> QED BY <1>1, <1>3, <3>1
  <2>4. (CHOOSE k \in at : \A q \in at : k <= q) = i
    <3> DEFINE c == CHOOSE k \in at : \A q \in at : k <= q
    <3>1. c \in at /\ \A q \in at : c <= q BY <2>2, <2>3
    <3>2. c \in Int /\ i \in Int BY <1>1, <1>3, <3>1
    <3> HIDE DEF c, at
    <3>3. c <= i /\ i <= c BY <2>2, <2>3, <3>1
    <3>4. c = i BY <3>2, <3>3
    <3> QED BY <3>4 DEF c
  <2>5. RingOwner(points, h) = i BY <2>2, <2>4 DEF RingOwner
  <2>6. GetHashPoint(points, h) = i BY <1>5 DEF GetHashPoint, i
  <2> QED BY <1>3, <2>1, <2>5, <2>6
<1> QED BY <1>4, <1>5

\* The search for another point begins at the owner's: no point before it has
\* the same hash.
LEMMA SearchStartsAtHome ==
    ASSUME NEW points, RingOK(points), NEW h \in Int
    PROVE  LowerBound(points, points[RingOwner(points, h)].hash) = RingOwner(points, h)
<1> DEFINE n == Len(points)
<1>1. PICK home : home = RingOwner(points, h) OBVIOUS
<1>2. /\ home \in 1 .. n
      /\ \A q \in 1 .. home - 1 : points[q].hash < h
      /\ home # 1 => points[home].hash >= h
  BY <1>1, HashPointIsOwner
<1>3. n \in Nat /\ n >= 1 /\ points[home].hash \in Int BY <1>2 DEF RingOK
<1>4. ASSUME NEW q \in 1 .. home - 1 PROVE points[q].hash < points[home].hash
  <2>1. home # 1 /\ q \in 1 .. n BY <1>2, <1>3
  <2>2. points[q].hash \in Int BY <2>1 DEF RingOK
  <2> QED BY <1>2, <1>3, <2>1, <2>2
<1>5. IsFirst(points, points[home].hash, 1, n, home) BY <1>2, <1>3, <1>4 DEF IsFirst
<1>6. IsFirst(points, points[home].hash, 1, n, LowerBound(points, points[home].hash)) BY <1>3, LowerBoundFirst
<1>7. 1 \in 1 .. n /\ n \in 1 .. n BY <1>3
<1>8. LowerBound(points, points[home].hash) = home BY <1>3, <1>5, <1>6, <1>7, FirstUnique
<1> QED BY <1>1, <1>8

-----------------------------------------------------------------------------
(* The bubble sort *)

\* Points with numbers for hashes.
Hashed(S) == \A p \in S : p.hash \in Int

\* t is s with the points at j and j + 1 in order.
IsOrdered(S, s, j, t) ==
    /\ t \in Seq(S) /\ Len(t) = Len(s) /\ t[j].hash <= t[j + 1].hash
    /\ \A k \in 1 .. Len(s) : k # j /\ k # j + 1 => t[k] = s[k]
    /\ \/ t[j] = s[j] /\ t[j + 1] = s[j + 1]
       \/ t[j] = s[j + 1] /\ t[j + 1] = s[j]

\* t is s when the inner loop has carried the largest hash up to j + 1: behind
\* it nothing has moved, and before it are the same points as before.
Carried(S, s, j, t) ==
    /\ t \in Seq(S) /\ Len(t) = Len(s)
    /\ \A k \in 1 .. Len(s) : k > j + 1 => t[k] = s[k]
    /\ \A k \in 1 .. j + 1 : t[k].hash <= t[j + 1].hash /\ \E i \in 1 .. j + 1 : t[k] = s[i]
    /\ \A i \in 1 .. Len(s) : \E k \in 1 .. Len(s) : t[k] = s[i]

\* t is s when i points have found their place at the end.
Settled(S, s, i, t) ==
    /\ t \in Seq(S) /\ Len(t) = Len(s)
    /\ \A a, b \in 1 .. Len(s) : a < b /\ b > Len(s) - i => t[a].hash <= t[b].hash
    /\ \A k \in 1 .. Len(s) : \E q \in 1 .. Len(s) : t[q] = s[k]

\* One comparison.
LEMMA OrderedOrders ==
    ASSUME NEW S, Hashed(S), NEW s \in Seq(S), NEW j \in 1 .. Len(s) - 1
    PROVE  IsOrdered(S, s, j, Ordered(s, j))
<1> DEFINE n == Len(s)
<1>1. n \in Nat /\ j \in 1 .. n /\ j + 1 \in 1 .. n /\ j # j + 1 /\ DOMAIN s = 1 .. n OBVIOUS
<1>2. \A k \in 1 .. n : s[k] \in S /\ s[k].hash \in Int BY DEF Hashed
<1>3. PICK q : q = j + 1 OBVIOUS
<1>4. s[j].hash \in Int /\ s[q].hash \in Int /\ s[j] \in S /\ s[q] \in S BY <1>1, <1>2, <1>3
<1>5. CASE s[j].hash > s[q].hash
  <2> DEFINE t == [s EXCEPT ![j] = s[q], ![q] = s[j]]
  <2>1. Ordered(s, j) = t BY <1>3, <1>5 DEF Ordered
  <2>2. t = [k \in 1 .. n |-> IF k = q THEN s[j] ELSE IF k = j THEN s[q] ELSE s[k]] BY <1>1, <1>3
  <2>3. \A k \in 1 .. n : t[k] \in S BY <1>2, <1>4, <2>2
  <2>4. t[j] = s[q] /\ t[q] = s[j] /\ \A k \in 1 .. n : k # j /\ k # q => t[k] = s[k] BY <1>1, <1>3, <2>2
  <2>5. DOMAIN t = 1 .. n BY <1>1
  <2> HIDE DEF t, n
  <2>6. t \in Seq(S) /\ Len(t) = n
    <3>1. t = [k \in 1 .. n |-> t[k]] BY <2>2
    <3> QED BY <1>1, <2>3, <3>1
  <2>7. t[j].hash <= t[q].hash BY <1>4, <1>5, <2>4
  <2> QED BY <1>3, <2>1, <2>4, <2>6, <2>7 DEF IsOrdered, n
<1>6. CASE s[j].hash <= s[q].hash
  <2>1. Ordered(s, j) = s BY <1>3, <1>4, <1>6 DEF Ordered
  <2> QED BY <1>3, <1>6, <2>1 DEF IsOrdered
<1> QED BY <1>4, <1>5, <1>6

\* The next comparison of the inner loop.
LEMMA CarryOn ==
    ASSUME NEW S, Hashed(S), NEW s \in Seq(S), NEW j \in 1 .. Len(s) - 1, NEW u, Carried(S, s, j - 1, u),
           NEW t, IsOrdered(S, u, j, t)
    PROVE  Carried(S, s, j, t)
<1>1. PICK n \in Nat : n = Len(s) OBVIOUS
<1>2. PICK q \in 1 .. n : q = j + 1 /\ j \in 1 .. n /\ j # q BY <1>1
<1>3. /\ u \in Seq(S) /\ Len(u) = n
      /\ \A k \in 1 .. n : k > j => u[k] = s[k]
      /\ \A k \in 1 .. j : u[k].hash <= u[j].hash /\ \E i \in 1 .. j : u[k] = s[i]
      /\ \A i \in 1 .. n : \E k \in 1 .. n : u[k] = s[i]
  <2>1. (j - 1) + 1 = j OBVIOUS
  <2> QED BY <1>1, <2>1 DEF Carried
<1>4. /\ t \in Seq(S) /\ Len(t) = n /\ t[j].hash <= t[q].hash
      /\ \A k \in 1 .. n : k # j /\ k # q => t[k] = u[k]
      /\ \/ t[j] = u[j] /\ t[q] = u[q]
         \/ t[j] = u[q] /\ t[q] = u[j]
  BY <1>2, <1>3 DEF IsOrdered
<1>5. \A k \in 1 .. n : t[k].hash \in Int /\ u[k].hash \in Int
  <2>1. u \in Seq(S) /\ Len(u) = n /\ t \in Seq(S) /\ Len(t) = n BY <1>3, <1>4
  <2>2. \A k \in 1 .. n : u[k] \in S BY <2>1
  <2>3. \A k \in 1 .. n : t[k] \in S BY <2>1
  <2> QED BY <2>2, <2>3 DEF Hashed
<1>6. ASSUME NEW k \in 1 .. n, k > q PROVE t[k] = s[k]
  <2>1. k # j /\ k # q /\ k > j BY <1>2, <1>6
  <2>2. t[k] = u[k] BY <1>4, <2>1
  <2>3. u[k] = s[k] BY <1>3, <2>1
  <2> QED BY <2>2, <2>3
<1>7. u[j].hash <= t[q].hash
  <2>1. t[j].hash \in Int /\ t[q].hash \in Int BY <1>2, <1>5
  <2> QED BY <1>4, <2>1
<1>8. ASSUME NEW k \in 1 .. q PROVE t[k].hash <= t[q].hash
  <2>1. k \in 1 .. n BY <1>2
  <2>2. CASE k = q BY <1>5, <2>1, <2>2
  <2>3. CASE k = j BY <1>4, <2>3
  <2>4. CASE k # j /\ k # q
    <3>1. k \in 1 .. j BY <1>2, <2>4
    <3>2. t[k] = u[k] /\ u[k].hash <= u[j].hash BY <1>3, <1>4, <2>1, <2>4, <3>1
    <3> QED BY <1>2, <1>5, <1>7, <2>1, <3>2
  <2> QED BY <2>2, <2>3, <2>4
<1>9. u[q] = s[q]
  <2>1. q > j BY <1>2
  <2> QED BY <1>3, <2>1
<1>10. \A k \in 1 .. j : \E i \in 1 .. q : u[k] = s[i]
  <2>1. \A i \in 1 .. j : i \in 1 .. q BY <1>2
  <2> QED BY <1>3, <2>1
<1>11. ASSUME NEW k \in 1 .. q PROVE \E i \in 1 .. q : t[k] = s[i]
  <2>1. k \in 1 .. n /\ q \in 1 .. q /\ j \in 1 .. j BY <1>2
  <2>2. \E i \in 1 .. q : u[j] = s[i] BY <1>10, <2>1
  <2>3. \E i \in 1 .. q : u[q] = s[i] BY <1>9, <2>1
  <2>4. CASE k # j /\ k # q
    <3>1. k \in 1 .. j BY <1>2, <2>4
    <3>2. t[k] = u[k] BY <1>4, <2>1, <2>4
    <3> QED BY <1>10, <3>1, <3>2
  <2>5. CASE k = j \/ k = q
    <3>1. t[k] = u[j] \/ t[k] = u[q] BY <1>4, <2>5
    <3> QED BY <2>2, <2>3, <3>1
  <2> QED BY <2>4, <2>5
<1>12. ASSUME NEW i \in 1 .. n PROVE \E k \in 1 .. n : t[k] = s[i]
  <2>1. PICK k \in 1 .. n : u[k] = s[i] BY <1>3
  <2>2. CASE k # j /\ k # q BY <1>4, <2>1, <2>2
  <2>3. CASE k = j \/ k = q BY <1>2, <1>4, <2>1, <2>3
  <2> QED BY <2>2, <2>3
<1> QED BY <1>1, <1>2, <1>4, <1>6, <1>8, <1>11, <1>12 DEF Carried

\* The table of the inner loop.
Turn(points, f, j) == IF j = 0 THEN points ELSE Ordered(f[j - 1], j)
IsPass(points, n, f) == f = [j \in 0 .. n |-> Turn(points, f, j)]

\* There is one, as far as the loop goes.
LEMMA PassExists ==
    ASSUME NEW points, NEW n \in Nat
    PROVE  \E f : IsPass(points, n, f)
<1> DEFINE Bad == {m \in Nat : ~ \E f : IsPass(points, m, f)}
<1>1. SUFFICES ASSUME Bad # {} PROVE FALSE OBVIOUS
<1>2. PICK m \in Bad : \A q \in Bad : m <= q
  <2> HIDE DEF Bad
  <2>1. Bad \subseteq Nat BY DEF Bad
  <2> QED BY <1>1, <2>1, LeastNat
<1>3. CASE m = 0
  <2> DEFINE f == [k \in 0 .. 0 |-> points]
  <2>1. f = [k \in 0 .. 0 |-> Turn(points, f, k)] BY DEF Turn
  <2> QED BY <1>3, <2>1 DEF IsPass
<1>4. CASE m # 0
  <2>1. m - 1 \in Nat /\ m - 1 \notin Bad BY <1>2, <1>4
  <2>2. PICK g : IsPass(points, m - 1, g) BY <2>1
  <2> DEFINE f == [k \in 0 .. m |-> IF k = m THEN Turn(points, g, m) ELSE g[k]]
  <2>3. ASSUME NEW k \in 0 .. m PROVE f[k] = Turn(points, f, k)
    <3>1. CASE k = m
      <4>1. f[m - 1] = g[m - 1] BY <2>1
      <4>2. f[m] = Turn(points, g, m) BY <2>1
      <4> HIDE DEF f
      <4>3. Turn(points, f, m) = Turn(points, g, m) BY <4>1 DEF Turn
      <4> QED BY <3>1, <4>2, <4>3
    <3>2. CASE k # m
      <4>1. k \in 0 .. m - 1 /\ (k # 0 => k - 1 \in 0 .. m - 1 /\ k - 1 # m /\ k - 1 \in 0 .. m) BY <2>1, <3>2
      <4>2. g[k] = Turn(points, g, k) BY <2>2, <4>1 DEF IsPass
      <4>3. k # 0 => f[k - 1] = g[k - 1] BY <4>1
      <4>4. f[k] = g[k] BY <3>2
      <4> HIDE DEF f
      <4>5. Turn(points, f, k) = Turn(points, g, k) BY <4>3 DEF Turn
      <4> QED BY <4>2, <4>4, <4>5
    <3> QED BY <3>1, <3>2
  <2>4. f = [k \in 0 .. m |-> Turn(points, f, k)]
    <3>1. f = [k \in 0 .. m |-> f[k]] OBVIOUS
    <3> HIDE DEF f
    <3> QED BY <2>3, <3>1
  <2> QED BY <2>4 DEF IsPass
<1> QED BY <1>3, <1>4

\* The whole inner loop.
LEMMA PassCarries ==
    ASSUME NEW S, Hashed(S), NEW s \in Seq(S), NEW n \in 0 .. Len(s) - 1
    PROVE  Carried(S, s, n, BubblePass(s, n))
<1> DEFINE F == CHOOSE f : f = [j \in 0 .. n |-> Turn(s, f, j)]
           Bad == {j \in 0 .. n : ~Carried(S, s, j, F[j])}
<1>1. n \in Nat /\ Len(s) \in Nat /\ n <= Len(s) - 1 OBVIOUS
<1>2. BubblePass(s, n) = F[n] BY DEF BubblePass, Turn
<1>3. IsPass(s, n, F) BY <1>1, PassExists DEF IsPass
<1> HIDE DEF F
<1>4. \A j \in 0 .. n : F[j] = Turn(s, F, j) BY <1>3 DEF IsPass
<1>5. F[0] = s
  <2>1. 0 \in 0 .. n BY <1>1
  <2>2. F[0] = Turn(s, F, 0) BY <1>4, <2>1
  <2> QED BY <2>2 DEF Turn
<1>6. Carried(S, s, 0, s)
  <2>1. 1 \in 1 .. Len(s) /\ \A k \in 1 .. 0 + 1 : k = 1 BY <1>1
  <2>2. s[1].hash \in Int BY <2>1 DEF Hashed
  <2> QED BY <2>1, <2>2 DEF Carried
<1>7. \A j \in 0 .. n : Carried(S, s, j, F[j])
  <2>1. SUFFICES ASSUME Bad # {} PROVE FALSE OBVIOUS
  <2>2. PICK j \in Bad : \A q \in Bad : j <= q
    <3>1. Bad \subseteq Nat BY <1>1
    <3> HIDE DEF Bad
    <3> QED BY <2>1, <3>1, LeastNat
  <2>3. j # 0 BY <1>5, <1>6, <2>2
  <2>4. j \in 1 .. n /\ j \in 1 .. Len(s) - 1 /\ j - 1 \in 0 .. n /\ j - 1 \notin Bad
    <3>1. j \in 0 .. n OBVIOUS
    <3>2. j \in 1 .. n /\ j \in 1 .. Len(s) - 1 /\ j - 1 \in 0 .. n /\ ~(j <= j - 1) BY <1>1, <2>3, <3>1
    <3> HIDE DEF Bad
    <3> QED BY <2>2, <3>2
  <2>5. Carried(S, s, j - 1, F[j - 1]) BY <2>4
  <2>6. F[j - 1] \in Seq(S) /\ Len(F[j - 1]) = Len(s) BY <2>5 DEF Carried
  <2>7. F[j] = Ordered(F[j - 1], j) BY <1>4, <2>3, <2>4 DEF Turn
  <2>8. IsOrdered(S, F[j - 1], j, F[j])
    <3>1. PICK u : u = F[j - 1] OBVIOUS
    <3>2. u \in Seq(S) /\ j \in 1 .. Len(u) - 1 BY <2>4, <2>6, <3>1
    <3>3. IsOrdered(S, u, j, Ordered(u, j)) BY <3>2, OrderedOrders
    <3> QED BY <2>7, <3>1, <3>3
  <2>9. Carried(S, s, j, F[j]) BY <2>4, <2>5, <2>8, CarryOn
  <2> QED BY <2>2, <2>9
<1> QED BY <1>1, <1>2, <1>7

\* The table of the outer loop.
Round(points, f, i) == IF i = 0 THEN points ELSE BubblePass(f[i - 1], Len(points) - i)
IsSort(points, n, f) == f = [i \in 0 .. n |-> Round(points, f, i)]

\* There is one, as far as the loop goes.
LEMMA SortExists ==
    ASSUME NEW points, NEW n \in Nat
    PROVE  \E f : IsSort(points, n, f)
<1> DEFINE Bad == {m \in Nat : ~ \E f : IsSort(points, m, f)}
<1>1. SUFFICES ASSUME Bad # {} PROVE FALSE OBVIOUS
<1>2. PICK m \in Bad : \A q \in Bad : m <= q
  <2> HIDE DEF Bad
  <2>1. Bad \subseteq Nat BY DEF Bad
  <2> QED BY <1>1, <2>1, LeastNat
<1>3. CASE m = 0
  <2> DEFINE f == [k \in 0 .. 0 |-> points]
  <2>1. f = [k \in 0 .. 0 |-> Round(points, f, k)] BY DEF Round
  <2> QED BY <1>3, <2>1 DEF IsSort
<1>4. CASE m # 0
  <2>1. m - 1 \in Nat /\ m - 1 \notin Bad BY <1>2, <1>4
  <2>2. PICK g : IsSort(points, m - 1, g) BY <2>1
  <2> DEFINE f == [k \in 0 .. m |-> IF k = m THEN Round(points, g, m) ELSE g[k]]
  <2>3. ASSUME NEW k \in 0 .. m PROVE f[k] = Round(points, f, k)
    <3>1. CASE k = m
      <4>1. f[m - 1] = g[m - 1] BY <2>1
      <4>2. f[m] = Round(points, g, m) BY <2>1
      <4> HIDE DEF f
      <4>3. Round(points, f, m) = Round(points, g, m) BY <4>1 DEF Round
      <4> QED BY <3>1, <4>2, <4>3
    <3>2. CASE k # m
      <4>1. k \in 0 .. m - 1 /\ (k # 0 => k - 1 \in 0 .. m - 1 /\ k - 1 # m /\ k - 1 \in 0 .. m) BY <2>1, <3>2
      <4>2. g[k] = Round(points, g, k) BY <2>2, <4>1 DEF IsSort
      <4>3. k # 0 => f[k - 1] = g[k - 1] BY <4>1
      <4>4. f[k] = g[k] BY <3>2
      <4> HIDE DEF f
      <4>5. Round(points, f, k) = Round(points, g, k) BY <4>3 DEF Round
      <4> QED BY <4>2, <4>4, <4>5
    <3> QED BY <3>1, <3>2
  <2>4. f = [k \in 0 .. m |-> Round(points, f, k)]
    <3>1. f = [k \in 0 .. m |-> f[k]] OBVIOUS
    <3> HIDE DEF f
    <3> QED BY <2>3, <3>1
  <2> QED BY <2>4 DEF IsSort
<1> QED BY <1>3, <1>4

\* One more point in its place.
LEMMA SettleOn ==
    ASSUME NEW S, Hashed(S), NEW s \in Seq(S), NEW i \in 1 .. Len(s), NEW u, Settled(S, s, i - 1, u),
           NEW t, Carried(S, u, Len(s) - i, t)
    PROVE  Settled(S, s, i, t)
<1>1. PICK n \in Nat : n = Len(s) OBVIOUS
<1>2. PICK m \in 1 .. n : m = n - i + 1 /\ (n - i) + 1 = m /\ n - (i - 1) = m
  <2>1. i \in 1 .. n BY <1>1
  <2>2. n - i + 1 \in 1 .. n /\ n - (i - 1) = n - i + 1 BY <2>1
  <2> QED BY <2>2
<1>3. /\ u \in Seq(S) /\ Len(u) = n
      /\ \A a, b \in 1 .. n : a < b /\ b > m => u[a].hash <= u[b].hash
      /\ \A k \in 1 .. n : \E q \in 1 .. n : u[q] = s[k]
  BY <1>1, <1>2 DEF Settled
<1>4. /\ t \in Seq(S) /\ Len(t) = n
      /\ \A k \in 1 .. n : k > m => t[k] = u[k]
      /\ \A k \in 1 .. m : t[k].hash <= t[m].hash /\ \E q \in 1 .. m : t[k] = u[q]
      /\ \A k \in 1 .. n : \E q \in 1 .. n : t[q] = u[k]
  <2>1. PICK d : d = Len(s) - i OBVIOUS
  <2>2. Carried(S, u, d, t) /\ d + 1 = m BY <1>1, <1>2, <2>1
  <2> QED BY <1>3, <2>2 DEF Carried
<1>5. ASSUME NEW a \in 1 .. n, NEW b \in 1 .. n, a < b, b > n - i PROVE t[a].hash <= t[b].hash
  <2>1. b = m \/ b > m BY <1>1, <1>2, <1>5
  <2>2. CASE b = m
    <3>1. a \in 1 .. m BY <1>2, <1>5, <2>2
    <3> QED BY <1>4, <2>2, <3>1
  <2>3. CASE b > m
    <3>1. t[b] = u[b] BY <1>4, <2>3
    <3>2. CASE a > m
      <4>1. t[a] = u[a] BY <1>4, <3>2
      <4>2. u[a].hash <= u[b].hash BY <1>3, <1>5, <2>3
      <4> QED BY <3>1, <4>1, <4>2
    <3>3. CASE a <= m
      <4>1. a \in 1 .. m BY <1>2, <3>3
      <4>2. PICK q \in 1 .. m : t[a] = u[q] BY <1>4, <4>1
      <4>3. q \in 1 .. n /\ q < b BY <1>2, <2>3
      <4>4. u[q].hash <= u[b].hash BY <1>3, <2>3, <4>3
      <4> QED BY <3>1, <4>2, <4>4
    <3> QED BY <1>2, <3>2, <3>3
  <2> QED BY <2>1, <2>2, <2>3
<1>6. ASSUME NEW k \in 1 .. n PROVE \E q \in 1 .. n : t[q] = s[k]
  <2>1. PICK q \in 1 .. n : u[q] = s[k] BY <1>3
  <2>2. PICK p \in 1 .. n : t[p] = u[q] BY <1>4
  <2> QED BY <2>1, <2>2
<1> QED BY <1>1, <1>4, <1>5, <1>6 DEF Settled

\* The bubble sort of uct_upstream_init_hash_ring sorts, and loses no point.
LEMMA SortSettles ==
    ASSUME NEW S, Hashed(S), NEW s \in Seq(S)
    PROVE  Settled(S, s, Len(s), BubbleSort(s))
<1> DEFINE n == Len(s)
           F == CHOOSE f : f = [i \in 0 .. Len(s) |-> Round(s, f, i)]
           Bad == {i \in 0 .. n : ~Settled(S, s, i, F[i])}
<1>1. n \in Nat OBVIOUS
<1>2. BubbleSort(s) = F[n] BY DEF BubbleSort, Round
<1>3. IsSort(s, n, F) BY <1>1, SortExists DEF IsSort
<1> HIDE DEF F
<1>4. \A i \in 0 .. n : F[i] = Round(s, F, i) BY <1>3 DEF IsSort
<1>5. F[0] = s
  <2>1. 0 \in 0 .. n BY <1>1
  <2>2. F[0] = Round(s, F, 0) BY <1>4, <2>1
  <2> QED BY <2>2 DEF Round
<1>6. Settled(S, s, 0, s) BY <1>1 DEF Settled
<1>7. \A i \in 0 .. n : Settled(S, s, i, F[i])
  <2>1. SUFFICES ASSUME Bad # {} PROVE FALSE OBVIOUS
  <2>2. PICK i \in Bad : \A q \in Bad : i <= q
    <3>1. Bad \subseteq Nat BY <1>1
    <3> HIDE DEF Bad
    <3> QED BY <2>1, <3>1, LeastNat
  <2>3. i # 0 BY <1>5, <1>6, <2>2
  <2>4. i \in 1 .. n /\ i - 1 \in 0 .. n /\ i - 1 \notin Bad
    <3>1. i \in 0 .. n OBVIOUS
    <3>2. i \in 1 .. n /\ i - 1 \in 0 .. n /\ ~(i <= i - 1) BY <1>1, <2>3, <3>1
    <3> HIDE DEF Bad
    <3> QED BY <2>2, <3>2
  <2>5. Settled(S, s, i - 1, F[i - 1]) BY <2>4
  <2>6. F[i - 1] \in Seq(S) /\ Len(F[i - 1]) = n BY <2>5 DEF Settled
  <2>7. F[i] = BubblePass(F[i - 1], n - i) BY <1>4, <2>3, <2>4 DEF Round
  <2>8. Carried(S, F[i - 1], n - i, F[i])
    <3>1. PICK u : u = F[i - 1] OBVIOUS
    <3>2. PICK m : m = n - i OBVIOUS
    <3>3. u \in Seq(S) /\ m \in 0 .. Len(u) - 1 BY <1>1, <2>4, <2>6, <3>1, <3>2
    <3>4. Carried(S, u, m, BubblePass(u, m)) BY <3>3, PassCarries
    <3> QED BY <2>7, <3>1, <3>2, <3>4
  <2>9. Settled(S, s, i, F[i]) BY <2>4, <2>5, <2>8, SettleOn
  <2> QED BY <2>2, <2>9
<1>8. n \in 0 .. n BY <1>1
<1> QED BY <1>2, <1>7, <1>8

\* The points pushed so far are a sequence of points.
Pushed == pushed \in Seq([srv : Int, hash : Int])

\* What pushing keeps.
LEMMA PushedInvariance == RingSpec => []Pushed
<1>1. InitRing => Pushed BY DEF InitRing, Pushed
<1>2. Pushed /\ [RingNext]_pushed => Pushed'
  <2> SUFFICES ASSUME Pushed, [RingNext]_pushed PROVE Pushed' OBVIOUS
  <2> DEFINE P == [srv : Int, hash : Int]
  <2>1. CASE RingNext
    <3>1. PICK h \in RingHashes : pushed' = Append(pushed, [srv |-> Len(pushed), hash |-> h])
      BY <2>1 DEF RingNext, PushPoint
    <3>2. pushed \in Seq(P) BY DEF Pushed
    <3>3. h \in Int /\ Len(pushed) \in Int BY <3>2, RingAssumption
    <3>4. [srv |-> Len(pushed), hash |-> h] \in P BY <3>3
    <3> HIDE DEF P
    <3>5. pushed' \in Seq(P) BY <3>1, <3>2, <3>4
    <3> QED BY <3>5 DEF Pushed, P
  <2>2. CASE UNCHANGED pushed BY <2>2 DEF Pushed
  <2> QED BY <2>1, <2>2
<1> QED BY <1>1, <1>2, PTL DEF RingSpec

\* For any number of points with any hashes the ring is sorted and complete, and
\* the binary search of uct_upstream_get_hash_point finds the owner of any key.
THEOREM RingBuiltSound == RingSpec => []RingSound
<1>1. Pushed => RingSound
  <2> SUFFICES ASSUME Pushed PROVE RingSound OBVIOUS
  <2> DEFINE P == [srv : Int, hash : Int]
             t == BubbleSort(pushed)
             n == Len(pushed)
  <2>1. pushed \in Seq(P) BY DEF Pushed
  <2>2. Hashed(P) BY DEF Hashed
  <2> HIDE DEF P
  <2>3. Settled(P, pushed, n, t) BY <2>1, <2>2, SortSettles
  <2>4. n \in Nat /\ DOMAIN pushed = 1 .. n BY <2>1
  <2> HIDE DEF t
  <2>5. /\ t \in Seq(P) /\ Len(t) = n
        /\ \A a, b \in 1 .. n : a < b /\ b > n - n => t[a].hash <= t[b].hash
        /\ \A k \in 1 .. n : \E q \in 1 .. n : t[q] = pushed[k]
    BY <2>3 DEF Settled
  <2>6. DOMAIN t = 1 .. n BY <2>5
  <2>7. \A a, b \in 1 .. n : a < b => t[a].hash <= t[b].hash
    <3>1. \A b \in 1 .. n : b > n - n BY <2>4
    <3> QED BY <2>5, <3>1
  <2>8. Sorted(t) BY <2>6, <2>7 DEF Sorted
  <2>9. \A k \in 1 .. n : t[k].hash \in Int
    <3>1. \A k \in 1 .. n : t[k] \in P BY <2>5
    <3> QED BY <2>2, <3>1 DEF Hashed
  <2>10. ASSUME pushed # <<>>, NEW key \in RingKeys PROVE GetHashPoint(t, key) = RingOwner(t, key)
    <3>1. n # 0 BY <2>1, <2>10
    <3>2. RingOK(t)
      <4>1. Len(t) \in Nat /\ Len(t) >= 1 BY <2>4, <2>5, <3>1
      <4> QED BY <2>5, <2>6, <2>7, <2>9, <4>1 DEF RingOK
    <3>3. key \in Int BY RingAssumption
    <3> QED BY <3>2, <3>3, HashPointIsOwner
  <2> QED BY <2>4, <2>5, <2>6, <2>8, <2>10 DEF RingSound, t
<1> QED BY <1>1, PushedInvariance, PTL

\* Whatever points the servers are given, the sort leaves a ring as the policies
\* assume one (PoliciesAssumption): points of servers, at least one, sorted.
THEOREM SortedRings ==
    \A s \in Seq([srv : Servers, hash : Int]) : s # <<>> =>
        /\ BubbleSort(s) \in Seq([srv : Servers, hash : Int])
        /\ BubbleSort(s) # <<>> /\ Sorted(BubbleSort(s))
<1> DEFINE P == [srv : Servers, hash : Int]
<1>1. Hashed(P) BY DEF Hashed
<1> HIDE DEF P
<1> SUFFICES ASSUME NEW s \in Seq(P), s # <<>>
             PROVE  BubbleSort(s) \in Seq(P) /\ BubbleSort(s) # <<>> /\ Sorted(BubbleSort(s))
  BY DEF P
<1> DEFINE t == BubbleSort(s)
           n == Len(s)
<1>2. n \in Nat /\ n # 0 OBVIOUS
<1>3. Settled(P, s, n, t) BY <1>1, SortSettles
<1> HIDE DEF t
<1>4. /\ t \in Seq(P) /\ Len(t) = n
      /\ \A a, b \in 1 .. n : a < b /\ b > n - n => t[a].hash <= t[b].hash
  BY <1>3 DEF Settled
<1>5. \A b \in 1 .. n : b > n - n BY <1>2
<1>6. t # <<>> BY <1>2, <1>4
<1>7. Sorted(t)
  <2>1. DOMAIN t = 1 .. n BY <1>4
  <2> QED BY <1>4, <1>5, <2>1 DEF Sorted
<1> QED BY <1>4, <1>6, <1>7 DEF t

-----------------------------------------------------------------------------
(* The inductive invariant *)

MinPc    == {"min", "load", "store"}
RandomPc == {"weigh", "probe", "draw", "find"}
RingPc   == {"ring", "turned"}
SentPc   == {"sent", "again", "roll", "add"}
PolPc    == ConnectPc \cup MinPc \cup RandomPc \cup RingPc \cup SentPc

PolTyped ==
    /\ policy \in Policies
    /\ policy = "ip_hash" => ring \in Rings
    /\ wi \in [Workers -> Nat]
    /\ whash \in [Workers -> Int]
    /\ wpass \in [Workers -> SUBSET Servers]
    /\ traffic \in [Servers -> Int]

\* Which policy runs the code at which location, and what is left of the locals
\* of a selection there.
Local(w) ==
    /\ wpc[w] = "min" => policy \in {"least_conn", "heuristic"}
    /\ wpc[w] \in {"load", "store"} => policy = "least_conn"
    /\ wpc[w] \in RandomPc => policy = "random"
    /\ wpc[w] \in RingPc => policy = "ip_hash"
    /\ wpc[w] \in SentPc => policy = "heuristic"
    /\ wpc[w] \in (ConnectPc \cup {"load", "store", "draw", "turned"}) => wi[w] = 0
    /\ wpc[w] \in {"min", "weigh", "probe", "find"} => wi[w] \in Servers
    /\ wpc[w] \in (ConnectPc \ {"connect"}) \cup SentPc \cup {"weigh", "probe", "draw"} => wpass[w] = {}
    /\ wpc[w] \in {"idle"} \cup RandomPc \cup RingPc => wsrv[w] = 0
    /\ wpc[w] \in {"idle", "ring", "turned"} => wreg[w] = 0

\* ip_hash: the search for another point has passed over every point from the
\* owner of the client's hash to where it is, and found one unless it turns the
\* client away.
RingWalk(w) ==
    LET home == RingOwner(ring, whash[w])
        passed(k) == ring[k].srv \in wpass[w]
    IN  policy = "ip_hash" =>
          /\ wpc[w] = "ring" => wi[w] \in home .. Len(ring) /\ \A k \in home .. wi[w]-1 : passed(k)
          /\ wpc[w] = "connect" =>
               \E p \in home .. Len(ring) : ring[p].srv = wsrv[w] /\ \A k \in home .. p-1 : passed(k)
          /\ wpc[w] = "turned" => \A k \in home .. Len(ring) : passed(k)

\* Under every policy but least_conn, connection_n of a server is the number of
\* sockets open to it, but for those just opened or closed.
CountExact == policy # "least_conn" => \A s \in Servers : Counted(s)

ServersInv == Typed(PolPc) /\ LocksHeld /\ WeightInv /\ FailsInv

IInv ==
    /\ ServersInv
    /\ PolTyped
    /\ \A w \in Workers : Local(w) /\ RingWalk(w)
    /\ CountExact

\* least_conn and heuristic: as long as the scan could not choose the server it
\* has as best, that is server 0 and it could choose none of the servers so far.
BestSoFar(w) ==
    /\ wpc[w] = "min" =>
         /\ wpass[w] \subseteq 0 .. wi[w]-1
         /\ wsrv[w] = 0 \/ wsrv[w] \in 0 .. wi[w]-1
         /\ wsrv[w] \in wpass[w] => wsrv[w] = 0 /\ wreg[w] = IntMax /\ wpass[w] = 0 .. wi[w]-1
         /\ wi[w] = 0 => wreg[w] = IntMax
         /\ wreg[w] <= IntMax
    /\ wpc[w] = "find" => wpass[w] \subseteq 0 .. wi[w]-1
    /\ wpc[w] \in {"load", "store", "connect"} /\ policy # "ip_hash" /\ wsrv[w] \in wpass[w] =>
         wsrv[w] = 0 /\ (policy # "random" => wpass[w] = Servers)

\* What the weight of a server can momentarily be, at least, when no health
\* check runs: a reliable server keeps its own.
Low == [s \in Servers |-> IF s \notin Unreliable THEN Weight[s]
                          ELSE IF MaxFails[s] > 0 THEN -(Weight[s] \div MaxFails[s]) ELSE 0]

FloorOf(s) ==
    /\ effective_weight[s] >= Low[s]
    /\ s \notin Unreliable => ~is_down[s] /\ effective_weight[s] = Weight[s]

\* Only a server to which a connect may fail is about to lose weight, or to be
\* given a unit of it.
FloorAt(w) ==
    /\ wpc[w] \in {"refused", "decay", "clamp", "mark"} \cup DownPc => wsrv[w] \in Unreliable
    /\ wpc[w] = "grow" /\ wsrv[w] \notin Unreliable => wreg[w] = Weight[wsrv[w]]
    /\ wpc[w] = "probe" => wi[w] \in Unreliable

\* random: the total so far is at least what the servers so far weigh at least.
TotalFloor(w) ==
    /\ wpc[w] \in {"weigh", "probe"} => wreg[w] >= SumFunctionOnSet(Low, 0 .. wi[w]-1)
    /\ wpc[w] = "draw" => wreg[w] >= SumFunctionOnSet(Low, Servers)

\* No health check is ever begun.
NoChecks ==
    /\ cpc = "wait"
    /\ \A s \in Servers : \A e \in 0 .. CheckTimeout[s] : pending[s][e] = 0

FloorInv ==
    /\ NoChecks
    /\ \A s \in Servers : FloorOf(s)
    /\ \A w \in Workers : FloorAt(w) /\ TotalFloor(w)

-----------------------------------------------------------------------------
(* The steps of the selections *)

\* A step of worker w leaves the other workers and their selections alone.
Elsewhere(w) ==
    \A v \in Workers \ {w} :
        /\ wpc'[v] = wpc[v] /\ wsrv'[v] = wsrv[v] /\ wreg'[v] = wreg[v]
        /\ wi'[v] = wi[v] /\ whash'[v] = whash[v] /\ wpass'[v] = wpass[v]

\* The owner of a client's hash, and where the search for another point begins.
LEMMA HomePoint ==
    ASSUME PolTyped, policy = "ip_hash", NEW h \in Int
    PROVE  /\ RingOK(ring) /\ \A k \in 1 .. Len(ring) : ring[k].srv \in Servers
           /\ RingOwner(ring, h) \in 1 .. Len(ring)
           /\ GetHashPoint(ring, h) = RingOwner(ring, h)
           /\ LowerBound(ring, ring[RingOwner(ring, h)].hash) = RingOwner(ring, h)
           /\ ring[RingOwner(ring, h)].srv \in Servers
<1>1. RingOK(ring) /\ \A k \in 1 .. Len(ring) : ring[k].srv \in Servers BY RingsOK DEF PolTyped
<1>2. /\ RingOwner(ring, h) \in 1 .. Len(ring)
      /\ GetHashPoint(ring, h) = RingOwner(ring, h)
  BY <1>1, HashPointIsOwner
<1>3. LowerBound(ring, ring[RingOwner(ring, h)].hash) = RingOwner(ring, h) BY <1>1, SearchStartsAtHome
<1> QED BY <1>1, <1>2, <1>3 DEF RingOK

\* A selection of ip_hash, in terms of the owner.
LEMMA HashStartCases ==
    ASSUME PolTyped, NEW w \in Workers, HashStart(w)
    PROVE  \E h \in Hashes :
             LET home == RingOwner(ring, h)
             IN  /\ h \in Int
                 /\ whash' = [whash EXCEPT ![w] = h]
                 /\ \/ /\ wsrv' = [wsrv EXCEPT ![w] = ring[home].srv]
                       /\ wpc' = [wpc EXCEPT ![w] = "connect"]
                       /\ wi' = wi /\ wpass' = wpass
                    \/ /\ wpass' = [wpass EXCEPT ![w] = {ring[home].srv}]
                       /\ wi' = [wi EXCEPT ![w] = home]
                       /\ wpc' = [wpc EXCEPT ![w] = "ring"]
                       /\ wsrv' = wsrv
<1>1. policy = "ip_hash" BY DEF HashStart
<1>2. PICK h \in Hashes :
         LET p == ring[GetHashPoint(ring, h)]
         IN  /\ whash' = [whash EXCEPT ![w] = h]
             /\ \/ /\ ~PassOver(w, p.srv)
                   /\ wsrv' = [wsrv EXCEPT ![w] = p.srv]
                   /\ Goto(w, "connect")
                   /\ UNCHANGED <<wi, wpass>>
                \/ /\ PassOver(w, p.srv)
                   /\ wpass' = [wpass EXCEPT ![w] = {p.srv}]
                   /\ wi' = [wi EXCEPT ![w] = LowerBound(ring, p.hash)]
                   /\ Goto(w, "ring")
                   /\ UNCHANGED wsrv
  BY DEF HashStart
<1>3. h \in Int BY PoliciesAssumption
<1>4. /\ GetHashPoint(ring, h) = RingOwner(ring, h)
      /\ LowerBound(ring, ring[RingOwner(ring, h)].hash) = RingOwner(ring, h)
  BY <1>1, <1>3, HomePoint
<1> QED BY <1>2, <1>3, <1>4 DEF Goto

\* What is at hand about a worker in a selection.
LEMMA SelectTypes ==
    ASSUME IInv, NEW w \in Workers
    PROVE  /\ wpc \in [Workers -> PolPc] /\ wsrv \in [Workers -> Servers] /\ wreg \in [Workers -> Int]
           /\ wi \in [Workers -> Nat] /\ whash \in [Workers -> Int] /\ wpass \in [Workers -> SUBSET Servers]
           /\ effective_weight \in [Servers -> Int] /\ connection_n \in [Servers -> Int]
           /\ traffic \in [Servers -> Int]
           /\ Local(w) /\ RingWalk(w) /\ PolTyped
BY DEF IInv, ServersInv, Typed, UpstreamTypeOK, PolTyped

\* The loop index of a search of the ring is one of its points.
LEMMA RingIndex ==
    ASSUME IInv, NEW w \in Workers, wpc[w] = "ring"
    PROVE  /\ policy = "ip_hash" /\ RingOK(ring)
           /\ Len(ring) \in Nat /\ wi[w] \in 1 .. Len(ring) /\ wi[w] \in Nat
           /\ RingOwner(ring, whash[w]) \in 1 .. Len(ring)
           /\ wi[w] \in RingOwner(ring, whash[w]) .. Len(ring)
           /\ ring[wi[w]].srv \in Servers
<1>1. PICK home : home = RingOwner(ring, whash[w]) OBVIOUS
<1>2. policy = "ip_hash" /\ PolTyped /\ whash[w] \in Int
  BY SelectTypes DEF Local, RingPc
<1>3. wi[w] \in home .. Len(ring) BY <1>1, <1>2 DEF IInv, RingWalk
<1>4. /\ home \in 1 .. Len(ring) /\ RingOK(ring)
      /\ \A k \in 1 .. Len(ring) : ring[k].srv \in Servers
  BY <1>1, <1>2, HomePoint
<1>5. Len(ring) \in Nat /\ wi[w] \in 1 .. Len(ring) /\ wi[w] \in Nat BY <1>3, <1>4 DEF RingOK
<1>6. ring[wi[w]].srv \in Servers BY <1>4, <1>5 DEF RingOK
<1> QED BY <1>1, <1>2, <1>3, <1>4, <1>5, <1>6

\* What a step of a selection, or of the traffic statistics, leaves alone.
LEMMA SelectLeaves ==
    ASSUME IInv, NEW w \in Workers, SelectNext(w)
    PROVE  /\ UNCHANGED <<fails, is_down, age, lock, checkVars, open>>
           /\ wpc[w] \notin BusyPc /\ wpc'[w] \notin BusyPc
           /\ Elsewhere(w)
           /\ \/ UNCHANGED effective_weight
              \/ wpc[w] = "probe" /\ effective_weight' = [effective_weight EXCEPT ![wi[w]] = 1]
           /\ policy = "least_conn" \/ UNCHANGED connection_n
<1> USE SelectTypes
<1> USE DEF srvVars, selVars, Goto, Advance, Elsewhere, Idle
<1>1. \A pc \in {"idle", "connect"} \cup MinPc \cup RandomPc \cup RingPc \cup SentPc : pc \notin BusyPc
  BY DEF BusyPc, LockedPc, DownPc, MinPc, RandomPc, RingPc, SentPc
<1> USE <1>1
<1>2. CASE MinStart(w) BY <1>2 DEF MinStart, MinPc
<1>3. CASE MinScan(w) BY <1>3 DEF MinScan, MinPc
<1>4. CASE CountLoad(w) BY <1>4 DEF CountLoad, MinPc
<1>5. CASE CountStore(w) BY <1>5 DEF CountStore, MinPc, Local
<1>6. CASE RandomStart(w) BY <1>6 DEF RandomStart, RandomPc
<1>7. CASE Weigh(w) BY <1>7 DEF Weigh, RandomPc
<1>8. CASE WeighProbe(w) BY <1>8 DEF WeighProbe, RandomPc
<1>9. CASE Draw(w) BY <1>9 DEF Draw, RandomPc
<1>10. CASE Find(w) BY <1>10 DEF Find, RandomPc
<1>11. CASE HashStart(w)
  <2>1. wpc[w] = "idle" BY <1>11 DEF HashStart
  <2>2. wpc'[w] \in {"connect", "ring"} /\ Elsewhere(w)
    <3>1. UNCHANGED wreg BY <1>11 DEF HashStart
    <3> QED BY <1>11, <3>1, HashStartCases
  <2> QED BY <1>11, <2>1, <2>2 DEF HashStart, RingPc
<1>12. CASE RingScan(w) BY <1>12 DEF RingScan, RingPc
<1>13. CASE TurnAway(w) BY <1>13 DEF TurnAway, RingPc
<1>14. CASE TrafficLoad(w) BY <1>14 DEF TrafficLoad, SentPc
<1>15. CASE TrafficStore(w) BY <1>15 DEF TrafficStore, SentPc
<1>16. CASE TrafficReload(w) BY <1>16 DEF TrafficReload, SentPc
<1>17. CASE TrafficEnd(w) BY <1>17 DEF TrafficEnd, SentPc
<1> QED BY <1>2, <1>3, <1>4, <1>5, <1>6, <1>7, <1>8, <1>9, <1>10, <1>11, <1>12, <1>13, <1>14, <1>15,
           <1>16, <1>17 DEF SelectNext

\* Unsigned arithmetic gives numbers.
LEMMA WrapInt == IntMax \in Int /\ \A n \in Int : n % Modulus \in Int
<1>1. Modulus \in Nat /\ Modulus > 0 BY PoliciesAssumption
<1> QED BY <1>1 DEF IntMax

\* A load is a number, whatever it counts.
LEMMA LoadInt ==
    ASSUME IInv, NEW s \in Servers
    PROVE  Load(s) \in Int /\ IntMax \in Int
<1>1. connection_n[s] \in Int /\ traffic[s] \in Int BY DEF IInv, ServersInv, Typed, UpstreamTypeOK, PolTyped
<1> QED BY <1>1, WrapInt DEF Load

\* A step of a selection keeps the types of the servers and of the worker's locals.
LEMMA SelectTyped ==
    ASSUME IInv, NEW w \in Workers, SelectNext(w)
    PROVE  /\ wpc' \in [Workers -> PolPc] /\ wsrv' \in [Workers -> Servers] /\ wreg' \in [Workers -> Int]
           /\ wi' \in [Workers -> Nat] /\ whash' \in [Workers -> Int] /\ wpass' \in [Workers -> SUBSET Servers]
           /\ connection_n' \in [Servers -> Int] /\ traffic' \in [Servers -> Int]
<1> USE SelectTypes
<1> USE DEF srvVars, selVars, flowVars, Goto, Advance
<1>1. /\ "idle" \in PolPc /\ "connect" \in PolPc
      /\ MinPc \subseteq PolPc /\ RandomPc \subseteq PolPc /\ RingPc \subseteq PolPc /\ SentPc \subseteq PolPc
  BY DEF PolPc, ConnectPc
<1> USE <1>1
<1>2. CASE MinStart(w) BY <1>2, WrapInt DEF MinStart, MinPc
<1>3. CASE MinScan(w)
  <2>1. wi[w] \in Servers BY <1>3 DEF MinScan, Local
  <2>2. Load(wi[w]) \in Int BY <2>1, LoadInt
  <2>3. wpc' \in [Workers -> PolPc] BY <1>3 DEF MinScan, MinPc
  <2>4. wi' \in [Workers -> Nat] BY <1>3 DEF MinScan
  <2>5. wpass' \in [Workers -> SUBSET Servers] BY <1>3, <2>1 DEF MinScan
  <2>6. wreg' \in [Workers -> Int] /\ wsrv' \in [Workers -> Servers] BY <1>3, <2>1, <2>2 DEF MinScan
  <2> QED BY <1>3, <2>3, <2>4, <2>5, <2>6 DEF MinScan
<1>4. CASE CountLoad(w) BY <1>4 DEF CountLoad, MinPc
<1>5. CASE CountStore(w) BY <1>5 DEF CountStore, MinPc
<1>6. CASE RandomStart(w) BY <1>6 DEF RandomStart, RandomPc
<1>7. CASE Weigh(w)
  <2>1. wi[w] \in Servers BY <1>7 DEF Weigh, Local
  <2> QED BY <1>7, <2>1 DEF Weigh, RandomPc
<1>8. CASE WeighProbe(w) BY <1>8 DEF WeighProbe, RandomPc
<1>9. CASE Draw(w)
  <2>1. wreg' \in [Workers -> Int]
    <3> DEFINE total == IF wreg[w] < 0 THEN -wreg[w] ELSE wreg[w]
               last  == IF total = 0 THEN 0 ELSE total - 1
    <3>1. last \in Int OBVIOUS
    <3>2. \E r \in 0 .. last : wreg' = [wreg EXCEPT ![w] = r] BY <1>9 DEF Draw
    <3> HIDE DEF last
    <3>3. PICK r \in 0 .. last : wreg' = [wreg EXCEPT ![w] = r] BY <3>2
    <3>4. r \in Int BY <3>1
    <3> QED BY <3>3, <3>4
  <2> QED BY <1>9, <2>1 DEF Draw, RandomPc
<1>10. CASE Find(w)
  <2>1. wi[w] \in Servers BY <1>10 DEF Find, Local, RandomPc
  <2>2. wpc' \in [Workers -> PolPc] /\ wi' \in [Workers -> Nat] BY <1>10 DEF Find, RandomPc
  <2>3. wpass' \in [Workers -> SUBSET Servers] BY <1>10, <2>1 DEF Find
  <2>4. wreg' \in [Workers -> Int] /\ wsrv' \in [Workers -> Servers] BY <1>10, <2>1 DEF Find
  <2> QED BY <1>10, <2>2, <2>3, <2>4 DEF Find
<1>11. CASE HashStart(w)
  <2>1. policy = "ip_hash" /\ UNCHANGED <<wreg, connection_n, traffic>> BY <1>11 DEF HashStart
  <2>2. PICK h \in Hashes :
           LET home == RingOwner(ring, h)
           IN  /\ h \in Int
               /\ whash' = [whash EXCEPT ![w] = h]
               /\ \/ /\ wsrv' = [wsrv EXCEPT ![w] = ring[home].srv]
                     /\ wpc' = [wpc EXCEPT ![w] = "connect"]
                     /\ wi' = wi /\ wpass' = wpass
                  \/ /\ wpass' = [wpass EXCEPT ![w] = {ring[home].srv}]
                     /\ wi' = [wi EXCEPT ![w] = home]
                     /\ wpc' = [wpc EXCEPT ![w] = "ring"]
                     /\ wsrv' = wsrv
    BY <1>11, HashStartCases
  <2>3. PICK home : home = RingOwner(ring, h) OBVIOUS
  <2>4. home \in 1 .. Len(ring) /\ Len(ring) \in Nat /\ ring[home].srv \in Servers
    BY <2>1, <2>2, <2>3, HomePoint DEF RingOK
  <2>5. home \in Nat /\ {ring[home].srv} \in SUBSET Servers BY <2>4
  <2>6. wpc' \in [Workers -> PolPc] BY <2>2 DEF RingPc
  <2>7. wsrv' \in [Workers -> Servers] BY <2>2, <2>3, <2>4
  <2>8. wi' \in [Workers -> Nat] /\ wpass' \in [Workers -> SUBSET Servers] BY <2>2, <2>3, <2>5
  <2>9. whash' \in [Workers -> Int] BY <2>2
  <2> QED BY <2>1, <2>6, <2>7, <2>8, <2>9
<1>12. CASE RingScan(w)
  <2>1. ring[wi[w]].srv \in Servers BY <1>12, RingIndex DEF RingScan
  <2>2. wpass' \in [Workers -> SUBSET Servers] BY <1>12, <2>1 DEF RingScan
  <2>3. wsrv' \in [Workers -> Servers] BY <1>12, <2>1 DEF RingScan
  <2> QED BY <1>12, <2>2, <2>3 DEF RingScan, RingPc
<1>13. CASE TurnAway(w) BY <1>13 DEF TurnAway
<1>14. CASE TrafficLoad(w) BY <1>14, PoliciesAssumption DEF TrafficLoad, SentPc
<1>15. CASE TrafficStore(w)
  <2>1. PICK n : n = (wreg[w] + wi[w]) % Modulus OBVIOUS
  <2>2. n \in Int BY <2>1, WrapInt
  <2>3. traffic' = [traffic EXCEPT ![wsrv[w]] = n] BY <1>15, <2>1 DEF TrafficStore
  <2>4. traffic' \in [Servers -> Int] BY <2>2, <2>3
  <2> QED BY <1>15, <2>4 DEF TrafficStore, SentPc
<1>16. CASE TrafficReload(w) BY <1>16 DEF TrafficReload, SentPc
<1>17. CASE TrafficEnd(w)
  <2>1. PICK n : n = (wi[w] + (IF wpc[w] = "add" THEN wreg[w] ELSE 0)) % Modulus OBVIOUS
  <2>2. n \in Int BY <2>1, WrapInt
  <2>3. traffic' = [traffic EXCEPT ![wsrv[w]] = n] BY <1>17, <2>1 DEF TrafficEnd
  <2>4. traffic' \in [Servers -> Int] BY <2>2, <2>3
  <2> QED BY <1>17, <2>4, ServersNat DEF TrafficEnd
<1> QED BY <1>2, <1>3, <1>4, <1>5, <1>6, <1>7, <1>8, <1>9, <1>10, <1>11, <1>12, <1>13, <1>14, <1>15,
           <1>16, <1>17 DEF SelectNext

\* A loop over the servers goes on with the next one, or has seen them all.
LEMMA LoopStep ==
    ASSUME IInv, NEW w \in Workers, wi[w] \in Servers, NEW here, NEW pc, Advance(w, here, pc)
    PROVE  /\ wi[w] \in Nat /\ N \in Nat
           /\ \/ /\ wpc' = [wpc EXCEPT ![w] = here]
                 /\ wi' = [wi EXCEPT ![w] = wi[w] + 1] /\ wi[w] + 1 \in Servers
              \/ /\ wpc' = [wpc EXCEPT ![w] = pc]
                 /\ wi' = [wi EXCEPT ![w] = 0] /\ Servers = 0 .. wi[w]
<1>1. N \in Nat \ {0} /\ wi[w] \in 0 .. N-1 BY UpstreamAssumption DEF Servers
<1>2. CASE wi[w] + 1 < N BY <1>1, <1>2 DEF Advance, Goto, Servers
<1>3. CASE ~(wi[w] + 1 < N)
  <2>1. wi[w] = N-1 BY <1>1, <1>3
  <2> QED BY <1>1, <1>3, <2>1 DEF Advance, Goto, Servers
<1> QED BY <1>2, <1>3

\* It leaves its worker's locals as its new location needs them.
LEMMA SelectLocal ==
    ASSUME IInv, NEW w \in Workers, SelectNext(w), UNCHANGED confVars
    PROVE  Local(w)'
<1>1. /\ wpc \in [Workers -> PolPc] /\ wsrv \in [Workers -> Servers] /\ wreg \in [Workers -> Int]
      /\ wi \in [Workers -> Nat] /\ wpass \in [Workers -> SUBSET Servers]
      /\ Local(w) /\ policy' = policy /\ 0 \in Servers
  BY SelectTypes, ServersNat DEF confVars
<1> USE <1>1
<1> USE DEF selVars, Goto, Idle, Local, ConnectPc, RandomPc, RingPc, SentPc
<1>2. CASE MinStart(w) BY <1>2 DEF MinStart
<1>3. CASE MinScan(w)
  <2>1. wpc[w] = "min" /\ wi[w] \in Servers BY <1>3 DEF MinScan
  <2>2. Advance(w, "min", IF policy = "least_conn" THEN "load" ELSE "connect") BY <1>3 DEF MinScan
  <2> QED BY <2>1, <2>2, LoopStep
<1>4. CASE CountLoad(w) BY <1>4 DEF CountLoad
<1>5. CASE CountStore(w) BY <1>5 DEF CountStore
<1>6. CASE RandomStart(w) BY <1>6 DEF RandomStart
<1>7. CASE Weigh(w)
  <2>1. wpc[w] = "weigh" /\ wi[w] \in Servers /\ UNCHANGED <<wsrv, wpass>> BY <1>7 DEF Weigh
  <2>2. Advance(w, "weigh", "draw") \/ (Goto(w, "probe") /\ UNCHANGED wi) BY <1>7 DEF Weigh
  <2>3. CASE Advance(w, "weigh", "draw") BY <2>1, <2>3, LoopStep
  <2>4. CASE Goto(w, "probe") /\ UNCHANGED wi BY <2>1, <2>4
  <2> QED BY <2>2, <2>3, <2>4
<1>8. CASE WeighProbe(w)
  <2>1. wpc[w] = "probe" /\ wi[w] \in Servers /\ UNCHANGED <<wsrv, wpass>> /\ Advance(w, "weigh", "draw")
    BY <1>8 DEF WeighProbe
  <2> QED BY <2>1, LoopStep
<1>9. CASE Draw(w) BY <1>9 DEF Draw
<1>10. CASE Find(w)
  <2>1. wpc[w] = "find" /\ wi[w] \in Servers BY <1>10 DEF Find
  <2>2. \/ wi' = [wi EXCEPT ![w] = 0] /\ Goto(w, "connect")
        \/ Advance(w, "find", "connect") /\ UNCHANGED wsrv
    BY <1>10 DEF Find
  <2>3. CASE wi' = [wi EXCEPT ![w] = 0] /\ Goto(w, "connect") BY <2>1, <2>3
  <2>4. CASE Advance(w, "find", "connect") /\ UNCHANGED wsrv BY <2>1, <2>4, LoopStep
  <2> QED BY <2>2, <2>3, <2>4
<1>11. CASE HashStart(w)
  <2>1. wpc[w] = "idle" /\ policy = "ip_hash" /\ UNCHANGED wreg BY <1>11 DEF HashStart
  <2>2. \/ wpc' = [wpc EXCEPT ![w] = "connect"] /\ wi' = wi
        \/ wpc' = [wpc EXCEPT ![w] = "ring"] /\ wsrv' = wsrv
    BY <1>11, HashStartCases DEF IInv
  <2> QED BY <2>1, <2>2
<1>12. CASE RingScan(w) BY <1>12 DEF RingScan
<1>13. CASE TurnAway(w) BY <1>13 DEF TurnAway
<1>14. CASE TrafficLoad(w) BY <1>14 DEF TrafficLoad
<1>15. CASE TrafficStore(w) BY <1>15 DEF TrafficStore
<1>16. CASE TrafficReload(w) BY <1>16 DEF TrafficReload
<1>17. CASE TrafficEnd(w)
  <2>1. wpc[w] \in {"roll", "add"} BY <1>17 DEF TrafficEnd
  <2> QED BY <1>17, <2>1 DEF TrafficEnd
<1> QED BY <1>2, <1>3, <1>4, <1>5, <1>6, <1>7, <1>8, <1>9, <1>10, <1>11, <1>12, <1>13, <1>14, <1>15,
           <1>16, <1>17 DEF SelectNext

\* ip_hash walks forward over points whose servers it found down (RingWalk).
LEMMA SelectRingWalk ==
    ASSUME IInv, NEW w \in Workers, SelectNext(w), UNCHANGED confVars
    PROVE  RingWalk(w)'
<1>1. /\ wpc \in [Workers -> PolPc] /\ wsrv \in [Workers -> Servers]
      /\ wi \in [Workers -> Nat] /\ whash \in [Workers -> Int] /\ wpass \in [Workers -> SUBSET Servers]
      /\ Local(w) /\ PolTyped /\ policy' = policy /\ ring' = ring
  BY SelectTypes DEF confVars
<1> SUFFICES ASSUME policy = "ip_hash" PROVE RingWalk(w)' BY <1>1 DEF RingWalk
<1>2. CASE HashStart(w)
  <2>1. PICK h \in Hashes :
           LET home == RingOwner(ring, h)
           IN  /\ h \in Int
               /\ whash' = [whash EXCEPT ![w] = h]
               /\ \/ /\ wsrv' = [wsrv EXCEPT ![w] = ring[home].srv]
                     /\ wpc' = [wpc EXCEPT ![w] = "connect"]
                     /\ wi' = wi /\ wpass' = wpass
                  \/ /\ wpass' = [wpass EXCEPT ![w] = {ring[home].srv}]
                     /\ wi' = [wi EXCEPT ![w] = home]
                     /\ wpc' = [wpc EXCEPT ![w] = "ring"]
                     /\ wsrv' = wsrv
    BY <1>1, <1>2, HashStartCases
  <2>2. PICK home : home = RingOwner(ring, h) OBVIOUS
  <2>3. whash'[w] = h BY <1>1, <2>1
  <2>4. home \in 1 .. Len(ring) /\ Len(ring) \in Nat BY <1>1, <2>1, <2>2, HomePoint DEF RingOK
  <2>5. home \in home .. Len(ring) /\ home .. home-1 = {} BY <2>4
  <2>6. CASE wpc' = [wpc EXCEPT ![w] = "connect"]
    <3>1. wpc'[w] = "connect" /\ wsrv'[w] = ring[home].srv BY <1>1, <2>1, <2>2, <2>6
    <3> QED BY <1>1, <2>2, <2>3, <2>5, <3>1 DEF RingWalk
  <2>7. CASE wpc' = [wpc EXCEPT ![w] = "ring"]
    <3>1. wpc'[w] = "ring" /\ wi'[w] = home BY <1>1, <2>1, <2>2, <2>7
    <3> QED BY <1>1, <2>2, <2>3, <2>5, <3>1 DEF RingWalk
  <2> QED BY <2>1, <2>6, <2>7
<1>3. CASE RingScan(w)
  <2>1. PICK home, at : home = RingOwner(ring, whash[w]) /\ at = wi[w] OBVIOUS
  <2>2. wpc[w] = "ring" /\ whash' = whash BY <1>3 DEF RingScan
  <2>3. /\ Len(ring) \in Nat /\ at \in home .. Len(ring) /\ at \in Nat /\ home \in Nat
    BY <2>1, <2>2, RingIndex
  <2>4. \A k \in home .. at-1 : ring[k].srv \in wpass[w] BY <2>1, <2>2 DEF IInv, RingWalk
  <2>5. CASE ~is_down[ring[at].srv] /\ IsFallback[ring[at].srv]
    <3>1. wpc'[w] = "connect" /\ wsrv'[w] = ring[at].srv /\ wpass'[w] = wpass[w]
      BY <1>1, <1>3, <2>1, <2>5 DEF RingScan, Goto
    <3> QED BY <1>1, <2>1, <2>2, <2>3, <2>4, <3>1 DEF RingWalk
  <2>6. CASE ~(~is_down[ring[at].srv] /\ IsFallback[ring[at].srv])
    <3>1. wpass'[w] = wpass[w] \cup {ring[at].srv} BY <1>1, <1>3, <2>1, <2>6 DEF RingScan
    <3>2. \A k \in home .. at : ring[k].srv \in wpass'[w] BY <2>3, <2>4, <3>1
    <3>3. CASE at = Len(ring)
      <4>1. wpc'[w] = "turned" BY <1>1, <1>3, <2>1, <2>6, <3>3 DEF RingScan, Goto
      <4> QED BY <1>1, <2>1, <2>2, <3>2, <3>3, <4>1 DEF RingWalk
    <3>4. CASE at # Len(ring)
      <4>1. wpc'[w] = "ring" /\ wi'[w] = at + 1 BY <1>1, <1>3, <2>1, <2>6, <3>4 DEF RingScan, Goto
      <4>2. at + 1 \in home .. Len(ring) /\ (at + 1) - 1 = at BY <2>3, <3>4
      <4> QED BY <1>1, <2>1, <2>2, <3>2, <4>1, <4>2 DEF RingWalk
    <3> QED BY <3>3, <3>4
  <2> QED BY <2>5, <2>6
<1>4. CASE TurnAway(w) BY <1>1, <1>4 DEF TurnAway, Goto, RingWalk
<1>5. wpc[w] \notin MinPc \cup RandomPc \cup SentPc BY <1>1 DEF Local, MinPc
<1> QED BY <1>2, <1>3, <1>4, <1>5
        DEF SelectNext, MinStart, MinScan, CountLoad, CountStore, RandomStart, Weigh, WeighProbe, Draw, Find,
            TrafficLoad, TrafficStore, TrafficReload, TrafficEnd, MinPc, RandomPc, SentPc

\* The workers that do not move keep what is known of their selections.
LEMMA OthersKeep ==
    ASSUME IInv, NEW w, Elsewhere(w), UNCHANGED confVars, NEW v \in Workers \ {w}
    PROVE  Local(v)' /\ RingWalk(v)'
<1>1. /\ wpc'[v] = wpc[v] /\ wsrv'[v] = wsrv[v] /\ wreg'[v] = wreg[v]
      /\ wi'[v] = wi[v] /\ whash'[v] = whash[v] /\ wpass'[v] = wpass[v]
      /\ policy' = policy /\ ring' = ring
  BY DEF Elsewhere, confVars
<1>2. Local(v) /\ RingWalk(v) BY DEF IInv
<1>3. Local(v)' BY <1>1, <1>2 DEF Local
<1>4. RingWalk(v)' BY <1>1, <1>2 DEF RingWalk
<1> QED BY <1>3, <1>4

\* A step of a selection keeps the invariant: of what the counts, the weights and
\* the failures are about it writes connection_n only, and only for least_conn.
LEMMA SelectIInv ==
    ASSUME IInv, NEW w \in Workers, SelectNext(w), UNCHANGED confVars
    PROVE  IInv'
<1>1. /\ UNCHANGED <<fails, is_down, age, lock, checkVars, open>>
      /\ wpc[w] \notin BusyPc /\ wpc'[w] \notin BusyPc
      /\ Elsewhere(w)
      /\ \/ UNCHANGED effective_weight
         \/ wpc[w] = "probe" /\ effective_weight' = [effective_weight EXCEPT ![wi[w]] = 1]
      /\ policy = "least_conn" \/ UNCHANGED connection_n
  BY SelectLeaves
<1>2. /\ wpc' \in [Workers -> PolPc] /\ wsrv' \in [Workers -> Servers] /\ wreg' \in [Workers -> Int]
      /\ wi' \in [Workers -> Nat] /\ whash' \in [Workers -> Int] /\ wpass' \in [Workers -> SUBSET Servers]
      /\ connection_n' \in [Servers -> Int] /\ traffic' \in [Servers -> Int]
  BY SelectTyped
<1>3. wpc[w] = "probe" => wi[w] \in Servers BY DEF IInv, Local
<1>4. effective_weight \in [Servers -> Int] /\ effective_weight' \in [Servers -> Int]
  BY <1>1, <1>3, SelectTypes
<1>5. Typed(PolPc)' BY <1>1, <1>2, <1>4 DEF IInv, ServersInv, Typed, UpstreamTypeOK, checkVars
<1>6. \A v \in Workers : \/ wpc'[v] = wpc[v] /\ wsrv'[v] = wsrv[v] /\ wreg'[v] = wreg[v]
                         \/ wpc[v] \notin BusyPc /\ wpc'[v] \notin BusyPc
  BY <1>1 DEF Elsewhere
<1>7. Outside BY <1>1, <1>3, <1>6 DEF Outside, checkVars
<1>8. LocksHeld' /\ WeightInv' /\ FailsInv' BY <1>7, OutsideServers DEF IInv, ServersInv
<1>9. PolTyped' BY <1>2 DEF IInv, PolTyped, confVars
<1>10. CountExact'
  <2> SUFFICES ASSUME policy # "least_conn", NEW s \in Servers PROVE Counted(s)' BY DEF CountExact, confVars
  <2>1. Counted(s) BY DEF IInv, CountExact
  <2> QED BY <1>1, <1>6, <2>1, OutsideCounted
<1>11. ASSUME NEW v \in Workers PROVE Local(v)' /\ RingWalk(v)'
  <2>1. CASE v = w BY <2>1, SelectLocal, SelectRingWalk
  <2>2. CASE v # w BY <1>1, <2>2, OthersKeep
  <2> QED BY <2>1, <2>2
<1> QED BY <1>5, <1>8, <1>9, <1>10, <1>11 DEF IInv, ServersInv

-----------------------------------------------------------------------------
(* The other steps *)

\* The policies as uct_upstream_init leaves them satisfy the invariant.
LEMMA InitIInv == Init => IInv
<1> SUFFICES ASSUME Init PROVE IInv OBVIOUS
<1> USE DEF Init
<1>1. ConnectPc \subseteq PolPc BY DEF PolPc
<1>2. Typed(PolPc) /\ LocksHeld /\ WeightInv /\ FailsInv BY <1>1, InitServers
<1>3. PolTyped BY DEF InitPolicies, PolTyped
<1>4. ASSUME NEW w \in Workers PROVE Local(w) /\ RingWalk(w)
  <2>1. wpc[w] = "idle" /\ wsrv[w] = 0 /\ wreg[w] = 0 /\ wi[w] = 0 /\ wpass[w] = {}
    BY DEF InitUpstream, InitPolicies
  <2>2. Local(w) BY <2>1 DEF Local, RandomPc, RingPc, SentPc
  <2>3. RingWalk(w) BY <2>1 DEF RingWalk
  <2> QED BY <2>2, <2>3
<1>5. CountExact BY InitCounted DEF CountExact
<1> QED BY <1>2, <1>3, <1>4, <1>5 DEF IInv, ServersInv

\* A step of a connect or a close.
LEMMA ConnectIInv ==
    ASSUME IInv, NEW w \in Workers, ConnectStep(w), UNCHANGED confVars
    PROVE  IInv'
<1>1. ConnectPc \subseteq PolPc BY DEF PolPc
<1>2. Typed(PolPc) /\ LocksHeld /\ WeightInv /\ FailsInv BY DEF IInv, ServersInv
<1>3. ConnectNext(w) /\ UNCHANGED checkVars BY DEF ConnectStep
<1>4. Typed(PolPc)' BY <1>1, <1>2, <1>3, ConnectTyped
<1>5. LocksHeld' /\ WeightInv' /\ FailsInv'
  BY <1>2, <1>3, ConnectLocksHeld, ConnectWeightInv, ConnectFailsInv
<1>6. CountExact' BY <1>2, <1>3, <1>4, ConnectCounted DEF IInv, CountExact, confVars
<1>7. PolTyped' BY DEF IInv, PolTyped, ConnectStep, confVars, flowVars
<1>8. OthersStay(w) BY <1>2, <1>3, ConnectOthersStay
<1>9. Elsewhere(w) BY <1>8 DEF Elsewhere, OthersStay, ConnectStep, IInv, PolTyped
<1>10. /\ wpc \in [Workers -> PolPc] /\ wsrv \in [Workers -> Servers] /\ wreg \in [Workers -> Int]
       /\ wi \in [Workers -> Nat] /\ wpass \in [Workers -> SUBSET Servers] /\ Local(w)
  BY SelectTypes
<1>11. wpass'[w] = {} /\ wi'[w] = wi[w] BY <1>10 DEF ConnectStep
<1>12. /\ wpc[w] \in ConnectPc
       /\ wpc'[w] \in ConnectPc \ {"connect"}
       /\ wpc'[w] = "idle" => wsrv'[w] = 0 /\ wreg'[w] = 0
  <2> USE <1>10
  <2> USE DEF Goto, ConnectPc
  <2>1. CASE OpenClientfd(w) BY <2>1 DEF OpenClientfd
  <2>2. CASE SrvLock(w) BY <2>2 DEF SrvLock
  <2>3. CASE Decay(w) BY <2>3 DEF Decay
  <2>4. CASE Clamp(w) BY <2>4 DEF Clamp
  <2>5. CASE Mark(w) BY <2>5 DEF Mark, SrvUnlock
  <2>6. CASE DownFlag(w) BY <2>6 DEF DownFlag, SrvUnlock
  <2>11. CASE DownZero(w) BY <2>11 DEF DownZero
  <2>12. CASE DownStamp(w) BY <2>12 DEF DownStamp, SrvUnlock
  <2>7. CASE Revive(w) BY <2>7 DEF Revive
  <2>8. CASE Grow(w) BY <2>8 DEF Grow, SrvUnlock
  <2>9. CASE CloseProxy(w) BY <2>9 DEF CloseProxy
  <2>10. CASE Drop(w) BY <2>10 DEF Drop, SrvUnlock
  <2> QED BY <1>3, <2>1, <2>2, <2>3, <2>4, <2>5, <2>6, <2>7, <2>8, <2>9, <2>10, <2>11, <2>12 DEF ConnectNext
<1>13. Local(w)' /\ RingWalk(w)'
  <2>1. wi[w] = 0 BY <1>10, <1>12 DEF Local
  <2>2. Local(w)' BY <1>11, <1>12, <2>1 DEF Local, ConnectPc, RandomPc, RingPc, SentPc
  <2>3. RingWalk(w)' BY <1>12 DEF RingWalk, ConnectPc
  <2> QED BY <2>2, <2>3
<1>14. ASSUME NEW v \in Workers PROVE Local(v)' /\ RingWalk(v)'
  BY <1>9, <1>13, OthersKeep
<1> QED BY <1>4, <1>5, <1>6, <1>7, <1>14 DEF IInv, ServersInv

\* A step that leaves the workers and the counts alone.
LEMMA StillIInv ==
    ASSUME IInv, UNCHANGED <<wpc, wsrv, wreg, open, wi, whash, wpass, traffic, connection_n, confVars>>,
           ServersInv'
    PROVE  IInv'
<1>1. PolTyped' BY DEF IInv, PolTyped, confVars
<1>2. ASSUME NEW w \in Workers PROVE Local(w)' /\ RingWalk(w)'
  <2>1. Local(w) /\ RingWalk(w) BY DEF IInv
  <2>2. Local(w)' BY <2>1 DEF Local, confVars
  <2>3. RingWalk(w)' BY <2>1 DEF RingWalk, confVars
  <2> QED BY <2>2, <2>3
<1>3. CountExact'
  <2> SUFFICES ASSUME policy # "least_conn", NEW s \in Servers PROVE Counted(s)' BY DEF CountExact, confVars
  <2>1. Counted(s) BY DEF IInv, CountExact
  <2> QED BY <2>1, OutsideCounted
<1> QED BY <1>1, <1>2, <1>3 DEF IInv

\* A step of the health checker.
LEMMA CheckerIInv ==
    ASSUME IInv, CheckerNext, UNCHANGED <<connVars, selVars, flowVars, crashed>>, UNCHANGED confVars
    PROVE  IInv'
<1>1. Typed(PolPc) /\ LocksHeld /\ WeightInv /\ FailsInv BY DEF IInv, ServersInv
<1>2. UNCHANGED connVars OBVIOUS
<1>3. Typed(PolPc)' BY <1>1, <1>2, CheckerTyped
<1>4. LocksHeld' BY <1>1, <1>2, CheckerLocksHeld
<1>5. WeightInv' BY <1>1, <1>2, CheckerWeightInv
<1>6. FailsInv' BY <1>1, <1>2, CheckerFailsInv
<1>7. UNCHANGED connection_n
  BY DEF CheckerNext, TimerConnected, TimerDisconnected, TimerConnecting, EventConnected, EventFailed,
         CheckLock, CheckRaise, CheckUp, CheckZero, CheckDown, CheckUnlock, srvVars
<1>8. UNCHANGED <<wpc, wsrv, wreg, open, wi, whash, wpass, traffic>> BY DEF connVars, selVars, flowVars
<1>9. ServersInv' BY <1>3, <1>4, <1>5, <1>6 DEF ServersInv
<1> QED BY <1>7, <1>8, <1>9, StillIInv

\* A tick of the clock.
LEMMA TickIInv ==
    ASSUME IInv, Tick, UNCHANGED confVars
    PROVE  IInv'
<1>1. Typed(PolPc) /\ LocksHeld /\ WeightInv /\ FailsInv BY DEF IInv, ServersInv
<1>2. /\ UNCHANGED <<effective_weight, fails, is_down, connection_n, lock, check_fails, check_successes, cpc, csrv, creg>>
      /\ UNCHANGED <<wpc, wsrv, wreg, open, wi, whash, wpass, traffic>> /\ AgeServers
  BY DEF Tick, connVars
<1>3. age' \in [Servers -> Nat]
  BY <1>1, <1>2, UpstreamAssumption DEF AgeServers, Capped, AgeCap, Typed, UpstreamTypeOK
<1>4. Typed(PolPc)' BY <1>1, <1>2, <1>3 DEF Typed, UpstreamTypeOK
<1>5. Outside BY <1>2 DEF Outside
<1>6. ServersInv' BY <1>1, <1>4, <1>5, OutsideServers DEF ServersInv
<1> QED BY <1>2, <1>6, StillIInv

\* The invariant speaks of the policies' variables only.
LEMMA StutterIInv == IInv /\ UNCHANGED polVars => IInv'
<1> SUFFICES ASSUME IInv, UNCHANGED polVars PROVE IInv' OBVIOUS
<1>1. UNCHANGED <<effective_weight, fails, is_down, connection_n, age, lock, wpc, wsrv, wreg, open,
                  check_fails, check_successes, pending, cpc, csrv, creg, wi, whash, wpass, traffic, confVars>>
  BY DEF polVars, srvVars, connVars, checkVars, selVars, flowVars
<1>2. Typed(PolPc) /\ LocksHeld /\ WeightInv /\ FailsInv BY DEF IInv, ServersInv
<1>3. Typed(PolPc)' BY <1>1, <1>2 DEF Typed, UpstreamTypeOK
<1>4. Outside BY <1>1 DEF Outside
<1>5. ServersInv' BY <1>2, <1>3, <1>4, OutsideServers DEF ServersInv
<1> QED BY <1>1, <1>5, StillIInv

\* Every step keeps the invariant.
LEMMA NextIInv == IInv /\ [Next]_polVars => IInv'
<1> SUFFICES ASSUME IInv, [Next]_polVars PROVE IInv' OBVIOUS
<1>1. CASE UNCHANGED polVars BY <1>1, StutterIInv
<1>2. CASE Next
  <2>1. UNCHANGED confVars BY <1>2 DEF Next
  <2>2. ASSUME NEW w \in Workers, WorkerNext(w) PROVE IInv'
    BY <2>1, <2>2, SelectIInv, ConnectIInv DEF WorkerNext
  <2>3. CASE CheckerNext /\ UNCHANGED <<connVars, selVars, flowVars, crashed>> BY <2>1, <2>3, CheckerIInv
  <2>4. CASE Tick BY <2>1, <2>4, TickIInv
  <2> QED BY <1>2, <2>2, <2>3, <2>4 DEF Next
<1> QED BY <1>1, <1>2

-----------------------------------------------------------------------------

\* The invariant holds in every reachable state, for any number of servers and workers.
THEOREM Invariance == Spec => []IInv
BY InitIInv, NextIInv, PTL DEF Spec

\* Under random, ip_hash and heuristic connection_n of a server is the number of
\* its open connections, whatever the unlocked selections read.
THEOREM CountsExact == Spec => []CountExact
<1>1. IInv => CountExact BY DEF IInv
<1> QED BY <1>1, Invariance, PTL

\* ip_hash answers with a point all of whose predecessors, from the owner of the
\* hash on, it passed over, and turns a client away only if that is so up to the
\* end of the ring.
THEOREM RingAnswered == Spec => []RingAnswer
<1>1. IInv => RingAnswer
  <2> SUFFICES ASSUME IInv, NEW w \in Workers, policy = "ip_hash"
               PROVE  LET home == RingOwner(ring, whash[w])
                          passed(k) == ring[k].srv \in wpass[w]
                      IN  /\ wpc[w] = "connect" =>
                               \E p \in home .. Len(ring) : /\ ring[p].srv = wsrv[w]
                                                            /\ \A k \in home .. p-1 : passed(k)
                          /\ wpc[w] = "turned" => \A k \in home .. Len(ring) : passed(k)
    BY DEF RingAnswer
  <2> QED BY DEF IInv, RingWalk
<1> QED BY <1>1, Invariance, PTL

\* The bounds of effective_weight do not depend on the policy: of the selections
\* here only random writes it, the unit of a probe.
THEOREM PolicyWeightsBounded == Spec => []EffectiveWeightBounds
<1>1. IInv => EffectiveWeightBounds BY DEF IInv, ServersInv, WeightInv
<1> QED BY <1>1, Invariance, PTL

\* Nor does the agreement of fails, is_down and the weight.
THEOREM PolicyFailsMatch == Spec => []FailsMatchState
<1>1. IInv => FailsMatchState BY FailsInvMatch DEF IInv, ServersInv
<1> QED BY <1>1, Invariance, PTL

-----------------------------------------------------------------------------
(* Locks *)

\* cycle->mutex is taken while a worker is in a selection of least_conn, and by
\* that worker; a taken srv->lock is held by a thread between its lock and unlock.
LocksInside ==
    /\ mutex \in Workers \cup {NoThread}
    /\ \A w \in Workers : mutex = w <=> policy = "least_conn" /\ wpc[w] \in MinPc
    /\ LockHolders

\* A selection takes and releases cycle->mutex as it enters and leaves.
LEMMA SelectMutex ==
    ASSUME IInv, LocksInside, NEW w \in Workers, SelectNext(w)
    PROVE  \/ UNCHANGED mutex /\ (wpc'[w] \in MinPc <=> wpc[w] \in MinPc)
           \/ UNCHANGED mutex /\ policy # "least_conn"
           \/ mutex = NoThread /\ mutex' = w /\ policy = "least_conn" /\ wpc'[w] \in MinPc
           \/ mutex = w /\ mutex' = NoThread /\ wpc'[w] \notin MinPc
<1> USE SelectTypes
<1> USE DEF selVars, Goto, Advance, Idle, MinPc
<1>1. CASE MinStart(w) BY <1>1 DEF MinStart
<1>2. CASE MinScan(w) BY <1>2 DEF MinScan
<1>3. CASE CountLoad(w) BY <1>3 DEF CountLoad
<1>4. CASE CountStore(w) BY <1>4 DEF CountStore, Local, LocksInside
<1>5. CASE RandomStart(w) \/ HashStart(w) BY <1>5 DEF RandomStart, HashStart
<1>6. CASE Weigh(w) BY <1>6 DEF Weigh
<1>7. CASE WeighProbe(w) BY <1>7 DEF WeighProbe
<1>8. CASE Draw(w) BY <1>8 DEF Draw
<1>9. CASE Find(w) BY <1>9 DEF Find
<1>10. CASE RingScan(w) BY <1>10 DEF RingScan
<1>11. CASE TurnAway(w) BY <1>11 DEF TurnAway
<1>12. CASE TrafficLoad(w) BY <1>12 DEF TrafficLoad
<1>13. CASE TrafficStore(w) BY <1>13 DEF TrafficStore
<1>14. CASE TrafficReload(w) BY <1>14 DEF TrafficReload
<1>15. CASE TrafficEnd(w) BY <1>15 DEF TrafficEnd
<1> QED BY <1>1, <1>2, <1>3, <1>4, <1>5, <1>6, <1>7, <1>8, <1>9, <1>10, <1>11, <1>12, <1>13, <1>14, <1>15
        DEF SelectNext

\* Every step keeps the locks in the hands of the threads inside.
LEMMA StepLocksInside == IInv /\ LocksInside /\ [Next]_polVars => LocksInside'
<1> SUFFICES ASSUME IInv, LocksInside, [Next]_polVars PROVE LocksInside' OBVIOUS
<1>1. Typed(PolPc) BY DEF IInv, ServersInv
<1>2. NoThread \notin Workers BY UpstreamAssumption
<1>3. policy' = policy BY DEF Next, polVars, confVars
<1>4. ASSUME NEW w \in Workers, SelectNext(w) PROVE LocksInside'
  <2>1. /\ UNCHANGED <<lock, checkVars>>
        /\ wpc[w] \notin BusyPc /\ Elsewhere(w)
    BY <1>4, SelectLeaves
  <2>2. LockHolders' BY <2>1 DEF LocksInside, LockHolders, Elsewhere, BusyPc, checkVars
  <2>3. \A v \in Workers \ {w} : wpc'[v] = wpc[v] BY <2>1 DEF Elsewhere
  <2> QED BY <1>2, <1>3, <1>4, <2>2, <2>3, SelectMutex DEF LocksInside
<1>5. ASSUME NEW w \in Workers, ConnectStep(w) PROVE LocksInside'
  <2>1. ConnectNext(w) /\ UNCHANGED <<checkVars, mutex>> BY <1>5 DEF ConnectStep
  <2>2. LockHolders' BY <1>1, <2>1, ConnectLockHolders DEF LocksInside
  <2>3. OthersStay(w) BY <1>1, <2>1, ConnectOthersStay
  <2>4. wpc[w] \notin MinPc /\ wpc'[w] \notin MinPc
    <3> USE <1>1
    <3> USE DEF Typed, Goto, MinPc
    <3>1. CASE OpenClientfd(w) BY <3>1 DEF OpenClientfd
    <3>2. CASE SrvLock(w) BY <3>2 DEF SrvLock
    <3>3. CASE Decay(w) BY <3>3 DEF Decay
    <3>4. CASE Clamp(w) BY <3>4 DEF Clamp
    <3>5. CASE Mark(w) BY <3>5 DEF Mark, SrvUnlock
    <3>6. CASE DownFlag(w) BY <3>6 DEF DownFlag, SrvUnlock
    <3>11. CASE DownZero(w) BY <3>11 DEF DownZero
    <3>12. CASE DownStamp(w) BY <3>12 DEF DownStamp, SrvUnlock
    <3>7. CASE Revive(w) BY <3>7 DEF Revive
    <3>8. CASE Grow(w) BY <3>8 DEF Grow, SrvUnlock
    <3>9. CASE CloseProxy(w) BY <3>9 DEF CloseProxy
    <3>10. CASE Drop(w) BY <3>10 DEF Drop, SrvUnlock
    <3> QED BY <2>1, <3>1, <3>2, <3>3, <3>4, <3>5, <3>6, <3>7, <3>8, <3>9, <3>10, <3>11, <3>12 DEF ConnectNext
  <2> QED BY <1>3, <2>1, <2>2, <2>3, <2>4 DEF LocksInside, OthersStay
<1>6. CASE CheckerNext /\ UNCHANGED <<connVars, selVars, flowVars, crashed>>
  <2>1. LockHolders' BY <1>1, <1>6, CheckerLockHolders DEF LocksInside
  <2> QED BY <1>3, <1>6, <2>1 DEF LocksInside, connVars, selVars
<1>7. CASE Tick BY <1>3, <1>7 DEF Tick, LocksInside, LockHolders, connVars
<1>8. CASE UNCHANGED polVars
  BY <1>8 DEF polVars, srvVars, connVars, checkVars, selVars, confVars, LocksInside, LockHolders
<1> QED BY <1>4, <1>5, <1>6, <1>7, <1>8 DEF Next, WorkerNext

\* Under these policies too no lock is left behind and nobody spins for a thread
\* that spins: a lock that is taken is held by a thread inside its section.
THEOREM PolicyLocksReleased == Spec => []LocksInside
<1>1. Init => LocksInside
  <2> SUFFICES ASSUME Init PROVE LocksInside OBVIOUS
  <2>1. LockHolders /\ mutex = NoThread /\ \A w \in Workers : wpc[w] = "idle"
    BY InitLockHolders DEF Init, InitUpstream, InitPolicies
  <2> QED BY <2>1, UpstreamAssumption DEF LocksInside, MinPc
<1> QED BY <1>1, StepLocksInside, Invariance, PTL DEF Spec

-----------------------------------------------------------------------------
(* The server a scan ends with *)

\* One server more of the scan of least_conn or heuristic.
LEMMA MinScanBest ==
    ASSUME IInv, NEW w \in Workers, BestSoFar(w), MinScan(w), policy' = policy
    PROVE  BestSoFar(w)'
<1>1. PICK s : s = wi[w] OBVIOUS
<1>2. wpc[w] = "min" BY DEF MinScan
<1>3. /\ wpc \in [Workers -> PolPc] /\ wsrv \in [Workers -> Servers] /\ wreg \in [Workers -> Int]
      /\ wi \in [Workers -> Nat] /\ wpass \in [Workers -> SUBSET Servers]
      /\ policy \in {"least_conn", "heuristic"} /\ s \in Servers /\ s \in Nat /\ wsrv[w] \in Nat
  BY <1>1, <1>2, SelectTypes, ServersNat DEF Local
<1>4. /\ wpass[w] \subseteq 0 .. s-1
      /\ wsrv[w] = 0 \/ wsrv[w] \in 0 .. s-1
      /\ wsrv[w] \in wpass[w] => wsrv[w] = 0 /\ wreg[w] = IntMax /\ wpass[w] = 0 .. s-1
      /\ s = 0 => wreg[w] = IntMax
  BY <1>1, <1>2 DEF BestSoFar
<1>10. wreg[w] <= IntMax BY <1>2 DEF BestSoFar
\* With s seen, the same holds of 0 .. s.
<1>5. /\ wpass'[w] \subseteq 0 .. s
      /\ wsrv'[w] = 0 \/ wsrv'[w] \in 0 .. s
      /\ wsrv'[w] \in wpass'[w] => wsrv'[w] = 0 /\ wreg'[w] = IntMax /\ wpass'[w] = 0 .. s
      /\ wreg'[w] <= IntMax
  <2>1. CASE Barred(w, s) /\ ~Lighter(w, s)
    <3>1. wpass'[w] = wpass[w] \cup {s} /\ wsrv'[w] = wsrv[w] /\ wreg'[w] = wreg[w]
      BY <1>1, <1>3, <2>1 DEF MinScan
    <3>2. 0 .. s = (0 .. s-1) \cup {s} BY <1>3
    <3>3. CASE wsrv[w] \in wpass[w] BY <1>3, <1>4, <1>10, <3>1, <3>2, <3>3
    <3>4. CASE wsrv[w] = s
      <4>1. s = 0 /\ 0 .. s-1 = {} BY <1>3, <1>4, <3>4
      <4> QED BY <1>3, <1>4, <1>10, <3>1, <3>2, <3>4, <4>1
    <3>5. CASE wsrv[w] \notin wpass[w] /\ wsrv[w] # s BY <1>3, <1>4, <1>10, <3>1, <3>2, <3>5
    <3> QED BY <3>3, <3>4, <3>5
  <2>2. CASE Lighter(w, s)
    <3>0. ~Barred(w, s) BY <1>3, <1>4, <1>10, <2>2, LoadInt DEF Lighter, Barred
    <3>1. wpass'[w] = wpass[w] /\ wsrv'[w] = s /\ wreg'[w] = Load(s) BY <1>1, <1>3, <2>2, <3>0 DEF MinScan
    <3>2. wreg'[w] <= IntMax BY <1>3, <3>0, <3>1, LoadInt DEF Barred
    <3> QED BY <1>3, <1>4, <3>1, <3>2
  <2>3. CASE ~Barred(w, s) /\ ~Lighter(w, s)
    <3>1. wpass'[w] = wpass[w] /\ wsrv'[w] = wsrv[w] /\ wreg'[w] = wreg[w]
      BY <1>1, <1>3, <2>3 DEF MinScan
    <3>2. ~(Load(s) < wreg[w]) /\ Load(s) < IntMax BY <1>3, <2>3, LoadInt DEF Lighter, Barred
    <3>3. wsrv[w] \notin wpass[w] BY <1>4, <3>2
    <3> QED BY <1>3, <1>4, <1>10, <3>1, <3>3
  <2> QED BY <2>1, <2>2, <2>3
<1>6. Advance(w, "min", IF policy = "least_conn" THEN "load" ELSE "connect") BY DEF MinScan
<1>7. \/ wpc'[w] = "min" /\ wi'[w] = s + 1
      \/ wpc'[w] \in {"load", "connect"} /\ Servers = 0 .. s
  BY <1>1, <1>3, <1>6, LoopStep
<1>8. CASE wpc'[w] = "min" /\ wi'[w] = s + 1
  <2>1. (s + 1) - 1 = s /\ s + 1 # 0 BY <1>3
  <2> QED BY <1>5, <1>8, <2>1 DEF BestSoFar
<1>9. CASE wpc'[w] \in {"load", "connect"} /\ Servers = 0 .. s BY <1>5, <1>9 DEF BestSoFar
<1> QED BY <1>7, <1>8, <1>9

\* One server more of the second scan of random.
LEMMA FindBest ==
    ASSUME IInv, NEW w \in Workers, BestSoFar(w), Find(w), policy' = policy
    PROVE  BestSoFar(w)'
<1>1. PICK s : s = wi[w] OBVIOUS
<1>2. wpc[w] = "find" BY DEF Find
<1>3. /\ wpc \in [Workers -> PolPc] /\ wsrv \in [Workers -> Servers] /\ wi \in [Workers -> Nat]
      /\ wpass \in [Workers -> SUBSET Servers]
      /\ policy = "random" /\ s \in Servers /\ s \in Nat /\ wsrv[w] = 0
  BY <1>1, <1>2, SelectTypes, ServersNat DEF Local, RandomPc
<1>4. wpass[w] \subseteq 0 .. s-1 BY <1>1, <1>2 DEF BestSoFar
<1>5. CASE ~PassOver(w, s) /\ wreg[w] < effective_weight[s]
  <2>1. wpc'[w] = "connect" /\ wsrv'[w] = s /\ wpass'[w] = wpass[w] BY <1>1, <1>3, <1>5 DEF Find, Goto
  <2>2. wsrv'[w] \notin wpass'[w] BY <1>3, <1>4, <2>1
  <2> QED BY <2>1, <2>2 DEF BestSoFar
<1>6. CASE ~(~PassOver(w, s) /\ wreg[w] < effective_weight[s])
  <2>1. /\ wsrv'[w] = 0
        /\ wpass'[w] \subseteq wpass[w] \cup {s}
        /\ Advance(w, "find", "connect")
    BY <1>1, <1>3, <1>6 DEF Find
  <2>2. (wpc'[w] = "find" /\ wi'[w] = s + 1) \/ wpc'[w] = "connect" BY <1>1, <1>3, <2>1, LoopStep
  <2>3. CASE wpc'[w] = "find" /\ wi'[w] = s + 1
    <3>1. wpass'[w] \subseteq 0 .. (s + 1) - 1 BY <1>3, <1>4, <2>1
    <3> QED BY <2>3, <3>1 DEF BestSoFar
  <2>4. CASE wpc'[w] = "connect" BY <1>3, <2>1, <2>4 DEF BestSoFar
  <2> QED BY <2>2, <2>3, <2>4
<1> QED BY <1>5, <1>6

\* A step keeps what a scan of least_conn or heuristic knows of the servers behind it.
LEMMA NextBestSoFar ==
    ASSUME IInv, \A v \in Workers : BestSoFar(v), [Next]_polVars
    PROVE  \A v \in Workers : BestSoFar(v)'
<1> SUFFICES ASSUME NEW v \in Workers PROVE BestSoFar(v)' OBVIOUS
<1>1. BestSoFar(v) OBVIOUS
<1>2. policy' = policy BY DEF Next, polVars, confVars
<1>3. ASSUME wpc'[v] = wpc[v], wsrv'[v] = wsrv[v], wreg'[v] = wreg[v], wi'[v] = wi[v], wpass'[v] = wpass[v]
      PROVE  BestSoFar(v)'
  BY <1>1, <1>2, <1>3 DEF BestSoFar
<1>4. CASE UNCHANGED <<connVars, wi, wpass>> BY <1>3, <1>4 DEF connVars
<1>5. ASSUME NEW w \in Workers, SelectNext(w), v # w PROVE BestSoFar(v)'
  BY <1>3, <1>5, SelectLeaves DEF Elsewhere
<1>6. ASSUME NEW w \in Workers, ConnectStep(w), v # w PROVE BestSoFar(v)'
  <2>1. OthersStay(w) BY <1>6, ConnectOthersStay DEF IInv, ServersInv, ConnectStep
  <2>2. wi' = wi /\ wpass'[v] = wpass[v] BY <1>6 DEF ConnectStep, IInv, PolTyped
  <2> QED BY <1>3, <1>6, <2>1, <2>2 DEF OthersStay
<1>7. ASSUME ConnectStep(v) PROVE BestSoFar(v)'
  <2>1. wpc'[v] \notin {"min", "find", "load", "store", "connect"}
    BY <1>7, SelectTypes
       DEF ConnectStep, ConnectNext, OpenClientfd, SrvLock, Decay, Clamp, Mark, DownFlag, DownZero, DownStamp,
           Revive, Grow, CloseProxy, Drop, SrvUnlock, Goto
  <2> QED BY <2>1 DEF BestSoFar
<1>8. ASSUME SelectNext(v) PROVE BestSoFar(v)'
  <2>1. /\ wpc \in [Workers -> PolPc] /\ wsrv \in [Workers -> Servers] /\ wreg \in [Workers -> Int]
        /\ wi \in [Workers -> Nat] /\ wpass \in [Workers -> SUBSET Servers] /\ Local(v)
    BY SelectTypes
  <2> USE <2>1
  <2> USE DEF selVars, Goto, Advance, Idle
  <2>2. CASE MinStart(v)
    <3>1. wpass[v] = {} /\ wsrv[v] = 0 /\ wi[v] = 0 BY <2>2 DEF MinStart, Local, ConnectPc
    <3> QED BY <2>2, <3>1, WrapInt DEF MinStart, BestSoFar
  <2>3. CASE MinScan(v) BY <1>1, <1>2, <2>3, MinScanBest
  <2>4. CASE CountLoad(v) BY <1>1, <1>2, <2>4 DEF CountLoad, BestSoFar
  <2>5. CASE CountStore(v) BY <1>1, <1>2, <2>5 DEF CountStore, BestSoFar
  <2>6. CASE RandomStart(v) BY <2>6 DEF RandomStart, BestSoFar
  <2>7. CASE Weigh(v) BY <2>7 DEF Weigh, BestSoFar
  <2>8. CASE WeighProbe(v) BY <2>8 DEF WeighProbe, BestSoFar
  <2>9. CASE Draw(v)
    <3>1. wpass[v] = {} BY <2>9 DEF Draw, Local
    <3> QED BY <2>9, <3>1 DEF Draw, BestSoFar
  <2>10. CASE Find(v) BY <1>1, <1>2, <2>10, FindBest
  <2>11. CASE HashStart(v)
    <3>1. policy = "ip_hash" /\ wpc'[v] \in {"connect", "ring"} BY <2>11, HashStartCases DEF HashStart, IInv
    <3> QED BY <1>2, <3>1 DEF BestSoFar
  <2>12. CASE RingScan(v)
    <3>1. policy = "ip_hash" /\ wpc'[v] \in {"connect", "ring", "turned"} BY <2>12, RingIndex DEF RingScan
    <3> QED BY <1>2, <3>1 DEF BestSoFar
  <2>13. CASE TurnAway(v) BY <2>13 DEF TurnAway, BestSoFar
  <2>14. CASE TrafficLoad(v) BY <2>14 DEF TrafficLoad, BestSoFar
  <2>15. CASE TrafficStore(v) BY <2>15 DEF TrafficStore, BestSoFar
  <2>16. CASE TrafficReload(v) BY <2>16 DEF TrafficReload, BestSoFar
  <2>17. CASE TrafficEnd(v) BY <2>17 DEF TrafficEnd, BestSoFar
  <2> QED BY <1>8, <2>2, <2>3, <2>4, <2>5, <2>6, <2>7, <2>8, <2>9, <2>10, <2>11, <2>12, <2>13, <2>14, <2>15,
             <2>16, <2>17 DEF SelectNext
<1> QED BY <1>4, <1>5, <1>6, <1>7, <1>8 DEF Next, WorkerNext, polVars, selVars, Tick

AllBestSoFar == \A w \in Workers : BestSoFar(w)

\* A server that a scan of least_conn, heuristic or random could not choose is
\* chosen only as the default, server 0, and by the first two only if they could
\* choose no server at all: for any number of servers and workers, and with
\* counts and traffic sums that wrap.
THEOREM PassedOverLast == Spec => []PassedOverIsLast
<1>1. Init => AllBestSoFar
  <2> SUFFICES ASSUME Init, NEW w \in Workers PROVE BestSoFar(w) BY DEF AllBestSoFar
  <2>1. wpc[w] = "idle" BY DEF Init, InitUpstream
  <2> QED BY <2>1 DEF BestSoFar
<1>2. IInv /\ AllBestSoFar /\ [Next]_polVars => AllBestSoFar'
  BY NextBestSoFar DEF AllBestSoFar
<1>3. AllBestSoFar => PassedOverIsLast BY DEF AllBestSoFar, BestSoFar, PassedOverIsLast
<1> QED BY <1>1, <1>2, <1>3, Invariance, PTL DEF Spec

-----------------------------------------------------------------------------
(* The random policy and the reliable servers *)

\* The least weight of a server: its own if every connect to it succeeds, else what
\* one failure before the clamp can leave.
LEMMA LowBounds ==
    /\ Low \in [Servers -> Int]
    /\ \A s \in Servers \ Unreliable : Low[s] = Weight[s]
    /\ \A s \in Unreliable : Low[s] <= 0 /\ s \in Servers
    /\ \A s \in Unreliable : MaxFails[s] # 0 => Low[s] = -(Weight[s] \div MaxFails[s])
<1>1. Unreliable \subseteq Servers /\ \A s \in Servers : MaxFails[s] \in Nat BY UpstreamAssumption
<1>2. ASSUME NEW s \in Servers
      PROVE  /\ Low[s] \in Int
             /\ s \notin Unreliable => Low[s] = Weight[s]
             /\ s \in Unreliable => Low[s] <= 0 /\ (MaxFails[s] # 0 => Low[s] = -(Weight[s] \div MaxFails[s]))
  <2>1. Weight[s] \in Int /\ MaxFails[s] \in Nat BY <1>1, WeightPos
  <2>2. CASE s \notin Unreliable BY <2>1, <2>2 DEF Low
  <2>3. CASE s \in Unreliable /\ MaxFails[s] = 0 BY <2>3 DEF Low
  <2>4. CASE s \in Unreliable /\ MaxFails[s] # 0
    <3>1. PICK d : d = Weight[s] \div MaxFails[s] OBVIOUS
    <3>2. d \in Nat BY <2>4, <3>1, DecayNat
    <3>3. Low[s] = -d BY <2>1, <2>4, <3>1 DEF Low
    <3> QED BY <2>4, <3>1, <3>2, <3>3
  <2> QED BY <2>2, <2>3, <2>4
<1>3. Low \in [Servers -> Int] BY <1>2 DEF Low
<1> QED BY <1>1, <1>2, <1>3

\* What the servers weigh at least is what the property compares.
LEMMA LowTotal ==
    LET reliable == SumFunctionOnSet(Weight, Servers \ Unreliable)
        failing  == {s \in Unreliable : MaxFails[s] > 0}
        owed     == SumFunction([s \in failing |-> Weight[s] \div MaxFails[s]])
    IN  SumFunctionOnSet(Low, Servers) = reliable - owed /\ reliable \in Int /\ owed \in Int
<1> DEFINE failing == {s \in Unreliable : MaxFails[s] > 0}
           owed == [s \in failing |-> Weight[s] \div MaxFails[s]]
<1>1. failing \subseteq Servers /\ Servers \ Unreliable \subseteq Servers BY UpstreamAssumption
<1>2. \A s \in failing : MaxFails[s] # 0 /\ owed[s] = Weight[s] \div MaxFails[s]
  BY <1>1, UpstreamAssumption
<1>3. \A s \in failing : owed[s] \in Int
  <2>1. \A s \in failing : Weight[s] \div MaxFails[s] \in Nat BY <1>1, <1>2, DecayNat
  <2> HIDE DEF owed, failing
  <2> QED BY <1>2, <2>1
<1>4. \A s \in Servers \ Unreliable : Weight[s] \in Int BY WeightPos
<1>5. \A s \in Servers : Low[s] = (IF s \in Servers \ Unreliable THEN Weight[s] ELSE 0)
                                    - (IF s \in failing THEN owed[s] ELSE 0)
  <2> SUFFICES ASSUME NEW s \in Servers
               PROVE  Low[s] = (IF s \in Servers \ Unreliable THEN Weight[s] ELSE 0)
                                 - (IF s \in failing THEN owed[s] ELSE 0)
    OBVIOUS
  <2>1. CASE s \notin Unreliable
    <3>1. Low[s] = Weight[s] /\ Weight[s] \in Int /\ s \notin failing BY <2>1, LowBounds, WeightPos
    <3> HIDE DEF failing, owed
    <3> QED BY <2>1, <3>1
  <2>2. CASE s \in failing
    <3>1. s \in Unreliable BY <2>2
    <3> HIDE DEF failing, owed
    <3>2. Low[s] = -owed[s] /\ owed[s] \in Int BY <1>2, <1>3, <2>2, <3>1, LowBounds
    <3> QED BY <2>2, <3>1, <3>2
  <2>3. CASE s \in Unreliable /\ s \notin failing
    <3>1. ~(MaxFails[s] > 0) BY <2>3
    <3>2. Low[s] = 0 BY <2>3, <3>1 DEF Low
    <3> HIDE DEF failing, owed
    <3> QED BY <2>3, <3>2
  <2> QED BY <2>1, <2>2, <2>3
<1>6. SumFunction(owed) = SumFunctionOnSet(owed, failing)
  <2>1. DOMAIN owed = failing OBVIOUS
  <2> HIDE DEF owed, failing
  <2> QED BY <2>1 DEF SumFunction
<1>7. SumFunctionOnSet(Low, Servers) = SumFunctionOnSet(Weight, Servers \ Unreliable) - SumFunctionOnSet(owed, failing)
  <2> DEFINE reliable == Servers \ Unreliable
  <2>1. \A s \in Servers : Low[s] = (IF s \in reliable THEN Weight[s] ELSE 0) - (IF s \in failing THEN owed[s] ELSE 0)
    BY <1>5
  <2>2. \A s \in reliable : Weight[s] \in Int BY <1>4
  <2>3. failing \subseteq Servers /\ reliable \subseteq Servers /\ IsFiniteSet(Servers) BY <1>1, ServersNat
  <2>4. \A s \in failing : owed[s] \in Int BY <1>3
  <2> HIDE DEF owed, failing, reliable
  <2>5. SumFunctionOnSet(Low, Servers) = SumFunctionOnSet(Weight, reliable) - SumFunctionOnSet(owed, failing)
    BY <2>1, <2>2, <2>3, <2>4, SumDifference
  <2> QED BY <2>5 DEF reliable
<1>8. SumFunctionOnSet(Weight, Servers \ Unreliable) \in Int /\ SumFunctionOnSet(owed, failing) \in Int
  <2>1. IsFiniteSet(Servers \ Unreliable) /\ IsFiniteSet(failing)
    <3> HIDE DEF failing
    <3> QED BY <1>1, ServersNat, FS_Subset
  <2> HIDE DEF owed, failing
  <2> QED BY <1>3, <1>4, <2>1, SumType
<1> QED BY <1>6, <1>7, <1>8

\* Without checks the checker does nothing.
LEMMA NoChecksStep ==
    ASSUME Checked = {}, NoChecks
    PROVE  ~CheckerNext
<1>1. ASSUME NEW s \in Servers PROVE ~EventConnected(s) /\ ~EventFailed(s)
  <2>1. CheckTimeout[s] \in Nat BY AgesFinite
  <2>2. \A e \in 0 .. CheckTimeout[s] : ~(pending[s][e] > 0) BY DEF NoChecks
  <2>3. \A e \in 0 .. CheckTimeout[s]-1 : ~(pending[s][e] > 0) BY <2>1, <2>2
  <2> QED BY <2>2, <2>3 DEF EventConnected, EventFailed
<1> QED BY <1>1 DEF NoChecks, CheckerNext, TimerConnected, TimerDisconnected, TimerConnecting, CheckLock, CheckRaise, CheckUp,
                    CheckZero, CheckDown

\* Without a checked server the checker never acts.
LEMMA NextNoChecks ==
    ASSUME Checked = {}, NoChecks, [Next]_polVars
    PROVE  NoChecks'
<1>1. ASSUME AgePending, UNCHANGED cpc PROVE NoChecks'
  <2> SUFFICES ASSUME NEW s \in Servers, NEW e \in 0 .. CheckTimeout[s] PROVE pending'[s][e] = 0
    BY <1>1 DEF NoChecks
  <2>1. CheckTimeout[s] \in Nat BY AgesFinite
  <2>2. pending[s][e] = 0 BY DEF NoChecks
  <2>3. e # 0 => pending[s][e-1] = 0
    <3> SUFFICES ASSUME e # 0 PROVE pending[s][e-1] = 0 OBVIOUS
    <3>1. e-1 \in 0 .. CheckTimeout[s] BY <2>1
    <3> QED BY <3>1 DEF NoChecks
  <2> QED BY <1>1, <2>2, <2>3 DEF AgePending
<1>2. CASE Tick BY <1>1, <1>2 DEF Tick
<1>3. ASSUME UNCHANGED checkVars PROVE NoChecks' BY <1>3 DEF NoChecks, checkVars
<1>4. ASSUME NEW w \in Workers, WorkerNext(w) PROVE UNCHANGED checkVars
  BY <1>4 DEF WorkerNext, SelectNext, ConnectStep, MinStart, MinScan, CountLoad, CountStore, RandomStart, Weigh,
              WeighProbe, Draw, Find, HashStart, RingScan, TurnAway, TrafficLoad, TrafficStore, TrafficReload,
              TrafficEnd
<1> QED BY <1>2, <1>3, <1>4, NoChecksStep DEF Next, polVars

\* A connect or a close keeps the floors: only the failing ones lower a weight,
\* and by no more than is owed.
LEMMA ConnectFloors ==
    ASSUME IInv, \A s \in Servers : FloorOf(s), \A v \in Workers : FloorAt(v),
           NEW w \in Workers, ConnectStep(w)
    PROVE  (\A s \in Servers : FloorOf(s)') /\ (\A v \in Workers : FloorAt(v)')
<1>1. /\ wpc \in [Workers -> PolPc] /\ wsrv \in [Workers -> Servers] /\ wreg \in [Workers -> Int]
      /\ wi \in [Workers -> Nat] /\ effective_weight \in [Servers -> Int] /\ is_down \in [Servers -> BOOLEAN]
  BY SelectTypes DEF IInv, ServersInv, Typed, UpstreamTypeOK
<1>2. PICK s \in Servers : s = wsrv[w] BY <1>1
<1>3. ConnectNext(w) /\ wi' = wi BY DEF ConnectStep
<1>4. OthersStay(w) BY <1>3, ConnectOthersStay DEF IInv, ServersInv
<1>5. /\ Weight[s] \in Nat /\ Low[s] \in Int
      /\ s \notin Unreliable => Low[s] = Weight[s]
      /\ s \in Unreliable => Low[s] <= 0
  BY WeightPos, LowBounds
<1>6. FloorOf(s) /\ FloorAt(w) OBVIOUS
\* What the step has to show.
<1>7. ASSUME \A t \in Servers : t # s => effective_weight'[t] = effective_weight[t] /\ is_down'[t] = is_down[t],
             FloorOf(s)', FloorAt(w)'
      PROVE  (\A t \in Servers : FloorOf(t)') /\ (\A v \in Workers : FloorAt(v)')
  <2>1. ASSUME NEW t \in Servers, t # s PROVE FloorOf(t)'
    <3>1. FloorOf(t) /\ effective_weight'[t] = effective_weight[t] /\ is_down'[t] = is_down[t] BY <1>7, <2>1
    <3> QED BY <3>1 DEF FloorOf
  <2>2. ASSUME NEW v \in Workers, v # w PROVE FloorAt(v)'
    <3>1. FloorAt(v) OBVIOUS
    <3>2. wpc'[v] = wpc[v] /\ wsrv'[v] = wsrv[v] /\ wreg'[v] = wreg[v] /\ wi'[v] = wi[v]
      BY <1>3, <1>4, <2>2 DEF OthersStay
    <3> QED BY <3>1, <3>2 DEF FloorAt
  <2> QED BY <1>7, <2>1, <2>2
<1>8. ASSUME UNCHANGED <<effective_weight, is_down>>, FloorAt(w)'
      PROVE  (\A t \in Servers : FloorOf(t)') /\ (\A v \in Workers : FloorAt(v)')
  BY <1>6, <1>7, <1>8 DEF FloorOf
<1> USE DEF Goto
<1>9. CASE OpenClientfd(w)
  <2>1. FloorAt(w)' BY <1>1, <1>9 DEF OpenClientfd, FloorAt, DownPc
  <2> QED BY <1>8, <1>9, <2>1 DEF OpenClientfd, srvVars
<1>10. CASE SrvLock(w)
  <2>1. FloorAt(w)' BY <1>1, <1>6, <1>10 DEF SrvLock, FloorAt, DownPc
  <2> QED BY <1>8, <1>10, <2>1 DEF SrvLock
<1>11. CASE Decay(w)
  <2>1. wpc[w] = "decay" /\ s \in Unreliable BY <1>2, <1>6, <1>11 DEF Decay, FloorAt
  <2>2. FloorAt(w)' BY <1>1, <1>2, <1>11, <2>1 DEF Decay, FloorAt
  <2>3. wreg[w] \in 0 .. Weight[s] + 1 BY <1>2, <2>1 DEF IInv, ServersInv, WeightInv, LoadedWeights
  <2>4. effective_weight'[s] >= Low[s]
    <3>1. CASE MaxFails[s] = 0
      <4>1. effective_weight'[s] = effective_weight[s] BY <1>1, <1>2, <1>11, <3>1 DEF Decay
      <4> QED BY <1>6, <4>1 DEF FloorOf
    <3>2. CASE MaxFails[s] # 0
      <4>1. PICK d : d = Weight[s] \div MaxFails[s] OBVIOUS
      <4>2. d \in Nat /\ Low[s] = -d BY <2>1, <3>2, <4>1, DecayNat, LowBounds
      <4>3. effective_weight'[s] = wreg[w] - d BY <1>1, <1>2, <1>11, <3>2, <4>1 DEF Decay
      <4> QED BY <1>5, <2>3, <4>2, <4>3
    <3> QED BY <3>1, <3>2
  <2>5. FloorOf(s)' BY <2>1, <2>4 DEF FloorOf
  <2>6. \A t \in Servers : t # s => effective_weight'[t] = effective_weight[t] /\ is_down'[t] = is_down[t]
    BY <1>1, <1>2, <1>11 DEF Decay
  <2> QED BY <1>7, <2>2, <2>5, <2>6
<1>12. CASE Clamp(w)
  <2>1. wpc[w] = "clamp" /\ s \in Unreliable BY <1>2, <1>6, <1>12 DEF Clamp, FloorAt
  <2>2. FloorAt(w)' BY <1>1, <1>2, <1>12, <2>1 DEF Clamp, FloorAt
  <2>3. effective_weight'[s] = 0 BY <1>1, <1>2, <1>12 DEF Clamp
  <2>4. FloorOf(s)' BY <1>5, <2>1, <2>3 DEF FloorOf
  <2>5. \A t \in Servers : t # s => effective_weight'[t] = effective_weight[t] /\ is_down'[t] = is_down[t]
    BY <1>1, <1>2, <1>12 DEF Clamp
  <2> QED BY <1>7, <2>2, <2>4, <2>5
<1>13. CASE Mark(w)
  <2>1. wpc[w] = "mark" /\ s \in Unreliable BY <1>2, <1>6, <1>13 DEF Mark, FloorAt
  <2>2. FloorAt(w)' BY <1>1, <1>2, <1>13, <2>1 DEF Mark, SrvUnlock, FloorAt, DownPc
  <2>3. effective_weight'[s] = 0 \/ effective_weight'[s] = effective_weight[s] BY <1>1, <1>2, <1>13 DEF Mark
  <2>4. FloorOf(s)' BY <1>5, <1>6, <2>1, <2>3 DEF FloorOf
  <2>5. \A t \in Servers : t # s => effective_weight'[t] = effective_weight[t] /\ is_down'[t] = is_down[t]
    BY <1>1, <1>2, <1>13 DEF Mark
  <2> QED BY <1>7, <2>2, <2>4, <2>5
<1>14. CASE DownFlag(w)
  <2>1. wpc[w] \in DownPc /\ s \in Unreliable BY <1>2, <1>6, <1>14 DEF DownFlag, FloorAt, DownPc
  <2>2. FloorAt(w)' BY <1>1, <1>2, <1>14, <2>1 DEF DownFlag, SrvUnlock, FloorAt, DownPc
  <2>3. effective_weight'[s] = 0 \/ effective_weight'[s] = effective_weight[s] BY <1>1, <1>2, <1>14 DEF DownFlag
  <2>4. FloorOf(s)' BY <1>5, <1>6, <2>1, <2>3 DEF FloorOf
  <2>5. \A t \in Servers : t # s => effective_weight'[t] = effective_weight[t] /\ is_down'[t] = is_down[t]
    BY <1>1, <1>2, <1>14 DEF DownFlag
  <2> QED BY <1>7, <2>2, <2>4, <2>5
<1>19. CASE DownZero(w)
  <2>1. wpc[w] \in DownPc /\ s \in Unreliable BY <1>2, <1>6, <1>19 DEF DownZero, FloorAt, DownPc
  <2>2. FloorAt(w)' BY <1>1, <1>2, <1>19, <2>1 DEF DownZero, FloorAt, DownPc
  <2>3. effective_weight'[s] = 0 \/ effective_weight'[s] = effective_weight[s] BY <1>1, <1>2, <1>19 DEF DownZero
  <2>4. FloorOf(s)' BY <1>5, <1>6, <2>1, <2>3 DEF FloorOf
  <2>5. \A t \in Servers : t # s => effective_weight'[t] = effective_weight[t] /\ is_down'[t] = is_down[t]
    BY <1>1, <1>2, <1>19 DEF DownZero
  <2> QED BY <1>7, <2>2, <2>4, <2>5
<1>20. CASE DownStamp(w)
  <2>1. wpc[w] \in DownPc /\ s \in Unreliable BY <1>2, <1>6, <1>20 DEF DownStamp, FloorAt, DownPc
  <2>2. FloorAt(w)' BY <1>1, <1>2, <1>20, <2>1 DEF DownStamp, SrvUnlock, FloorAt, DownPc
  <2>3. effective_weight'[s] = 0 \/ effective_weight'[s] = effective_weight[s] BY <1>1, <1>2, <1>20 DEF DownStamp
  <2>4. FloorOf(s)' BY <1>5, <1>6, <2>1, <2>3 DEF FloorOf
  <2>5. \A t \in Servers : t # s => effective_weight'[t] = effective_weight[t] /\ is_down'[t] = is_down[t]
    BY <1>1, <1>2, <1>20 DEF DownStamp
  <2> QED BY <1>7, <2>2, <2>4, <2>5
<1>15. CASE Revive(w)
  <2>1. wpc'[w] = "grow" /\ wreg'[w] = effective_weight[s] /\ wsrv'[w] = s BY <1>1, <1>2, <1>15 DEF Revive
  <2>2. FloorAt(w)' BY <1>6, <2>1 DEF FloorAt, FloorOf, DownPc
  <2>3. effective_weight' = effective_weight /\ is_down'[s] = FALSE BY <1>1, <1>2, <1>15 DEF Revive
  <2>4. FloorOf(s)' BY <1>6, <2>3 DEF FloorOf
  <2>5. \A t \in Servers : t # s => effective_weight'[t] = effective_weight[t] /\ is_down'[t] = is_down[t]
    BY <1>1, <1>2, <1>15 DEF Revive
  <2> QED BY <1>7, <2>2, <2>4, <2>5
<1>16. CASE Grow(w)
  <2>1. wpc[w] = "grow" BY <1>16 DEF Grow
  <2>2. FloorAt(w)' BY <1>1, <1>16 DEF Grow, SrvUnlock, FloorAt, DownPc
  <2>3. wreg[w] >= 0 /\ wreg[w] \in Int BY <1>1, <2>1 DEF IInv, ServersInv, WeightInv, LoadedWeights
  <2>4. effective_weight'[s] = IF wreg[w] < Weight[s] THEN wreg[w] + 1 ELSE effective_weight[s]
    BY <1>1, <1>2, <1>16 DEF Grow
  <2>5. s \notin Unreliable => wreg[w] = Weight[s] BY <1>2, <1>6, <2>1 DEF FloorAt
  <2>6. is_down' = is_down BY <1>16 DEF Grow
  <2>7. FloorOf(s)' BY <1>5, <1>6, <2>3, <2>4, <2>5, <2>6 DEF FloorOf
  <2>8. \A t \in Servers : t # s => effective_weight'[t] = effective_weight[t] /\ is_down'[t] = is_down[t]
    BY <1>1, <1>2, <1>16 DEF Grow
  <2> QED BY <1>7, <2>2, <2>7, <2>8
<1>17. CASE CloseProxy(w)
  <2>1. FloorAt(w)' BY <1>1, <1>17 DEF CloseProxy, FloorAt, DownPc
  <2> QED BY <1>8, <1>17, <2>1 DEF CloseProxy, srvVars
<1>18. CASE Drop(w)
  <2>1. FloorAt(w)' BY <1>1, <1>18 DEF Drop, SrvUnlock, FloorAt, DownPc
  <2> QED BY <1>8, <1>18, <2>1 DEF Drop
<1> QED BY <1>3, <1>9, <1>10, <1>11, <1>12, <1>13, <1>14, <1>15, <1>16, <1>17, <1>18, <1>19, <1>20
       DEF ConnectNext

\* A selection keeps the floors: what it probes was down.
LEMMA SelectFloors ==
    ASSUME IInv, \A s \in Servers : FloorOf(s), \A v \in Workers : FloorAt(v),
           NEW w \in Workers, SelectNext(w)
    PROVE  (\A s \in Servers : FloorOf(s)') /\ (\A v \in Workers : FloorAt(v)')
<1>1. /\ UNCHANGED is_down
      /\ wpc'[w] \notin BusyPc
      /\ Elsewhere(w)
      /\ \/ UNCHANGED effective_weight
         \/ wpc[w] = "probe" /\ effective_weight' = [effective_weight EXCEPT ![wi[w]] = 1]
  BY SelectLeaves
<1>2. /\ wpc \in [Workers -> PolPc] /\ wi \in [Workers -> Nat] /\ effective_weight \in [Servers -> Int]
      /\ Local(w)
  BY SelectTypes
<1>3. ASSUME NEW s \in Servers PROVE FloorOf(s)'
  <2>1. FloorOf(s) OBVIOUS
  <2>2. CASE effective_weight'[s] = effective_weight[s] BY <1>1, <2>1, <2>2 DEF FloorOf
  <2>3. CASE effective_weight'[s] # effective_weight[s]
    <3>1. wpc[w] = "probe" /\ s = wi[w] /\ effective_weight'[s] = 1 BY <1>1, <1>2, <2>3
    <3>2. FloorAt(w) OBVIOUS
    <3>3. s \in Unreliable BY <3>1, <3>2 DEF FloorAt
    <3>4. Low[s] <= 0 /\ Low[s] \in Int BY <3>3, LowBounds
    <3> QED BY <3>1, <3>3, <3>4 DEF FloorOf
  <2> QED BY <2>2, <2>3
<1>4. ASSUME NEW v \in Workers PROVE FloorAt(v)'
  <2>1. CASE v # w
    <3>1. FloorAt(v) OBVIOUS
    <3> QED BY <1>1, <2>1, <3>1 DEF FloorAt, Elsewhere
  <2>2. CASE v = w
    <3>1. wpc'[w] \notin {"refused", "decay", "clamp", "mark", "grow"} \cup DownPc BY <1>1 DEF BusyPc, LockedPc
    <3>2. ASSUME wpc'[w] = "probe" PROVE wi'[w] \in Unreliable
      <4>1. Weigh(w)
        <5>1. CASE HashStart(w) BY <1>2, <3>2, <5>1, HashStartCases DEF IInv
        <5> QED BY <1>2, <3>2, <5>1
                DEF SelectNext, Goto, Advance, MinStart, MinScan, CountLoad, CountStore, RandomStart, WeighProbe,
                    Draw, Find, RingScan, TurnAway, TrafficLoad, TrafficStore, TrafficReload, TrafficEnd
      <4>2. PICK s : s = wi[w] OBVIOUS
      <4>3. s \in Servers BY <4>1, <4>2, <1>2 DEF Weigh, Local
      <4>4. Retry(w, s) /\ UNCHANGED wi BY <1>2, <3>2, <4>1, <4>2 DEF Weigh, Goto, Advance
      <4>5. is_down[s] /\ FloorOf(s) BY <4>3, <4>4 DEF Retry
      <4> QED BY <4>2, <4>4, <4>5 DEF FloorOf
    <3> QED BY <2>2, <3>1, <3>2 DEF FloorAt
  <2> QED BY <2>1, <2>2
<1> QED BY <1>3, <1>4

\* One server more of the sum of the floors.
LEMMA LowStep ==
    ASSUME NEW s \in Servers
    PROVE  /\ SumFunctionOnSet(Low, 0 .. s-1) \in Int
           /\ SumFunctionOnSet(Low, 0 .. s) = Low[s] + SumFunctionOnSet(Low, 0 .. s-1)
<1>1. N \in Nat /\ s \in 0 .. N-1 /\ s \in Nat BY UpstreamAssumption DEF Servers
<1>2. \A e \in 0 .. s : e \in Servers BY <1>1 DEF Servers
<1>3. \A e \in 0 .. s : Low[e] \in Int BY <1>2, LowBounds
<1> QED BY <1>1, <1>3, SumInterval

\* The next server of the first scan of random, having counted n for this one.
LEMMA TotalStep ==
    ASSUME IInv, NEW w \in Workers, TotalFloor(w), wpc[w] \in {"weigh", "probe"}, wi[w] \in Servers,
           NEW n \in Int, n >= Low[wi[w]],
           wreg' = [wreg EXCEPT ![w] = wreg[w] + n], Advance(w, "weigh", "draw")
    PROVE  TotalFloor(w)'
<1>1. PICK s \in Servers : s = wi[w] OBVIOUS
<1>2. /\ wpc \in [Workers -> PolPc] /\ wreg \in [Workers -> Int] /\ wi \in [Workers -> Nat] /\ s \in Nat
  BY SelectTypes, ServersNat
<1>3. Low[s] \in Int BY LowBounds
<1>4. PICK a, b : a = SumFunctionOnSet(Low, 0 .. s-1) /\ b = SumFunctionOnSet(Low, 0 .. s) OBVIOUS
<1>5. a \in Int /\ b = Low[s] + a BY <1>4, LowStep
<1>6. wreg[w] >= a BY <1>1, <1>4 DEF TotalFloor
<1>7. wreg'[w] = wreg[w] + n BY <1>2
<1>8. wreg'[w] >= b BY <1>1, <1>2, <1>3, <1>5, <1>6, <1>7
<1>9. \/ wpc'[w] = "weigh" /\ wi'[w] = s + 1
      \/ wpc'[w] = "draw" /\ Servers = 0 .. s
  BY <1>1, <1>2, LoopStep
<1>10. CASE wpc'[w] = "weigh" /\ wi'[w] = s + 1
  <2>1. (s + 1) - 1 = s BY <1>2
  <2> QED BY <1>4, <1>8, <1>10, <2>1 DEF TotalFloor
<1>11. CASE wpc'[w] = "draw" /\ Servers = 0 .. s BY <1>4, <1>8, <1>11 DEF TotalFloor
<1> QED BY <1>9, <1>10, <1>11

\* The sum that random builds up stays above its floor.
LEMMA SelectTotal ==
    ASSUME IInv, \A s \in Servers : FloorOf(s), NEW w \in Workers, FloorAt(w), TotalFloor(w), SelectNext(w)
    PROVE  TotalFloor(w)'
<1>1. /\ wpc \in [Workers -> PolPc] /\ wreg \in [Workers -> Int] /\ wi \in [Workers -> Nat]
      /\ effective_weight \in [Servers -> Int] /\ Local(w)
  BY SelectTypes
<1>2. CASE RandomStart(w)
  <2>1. wpc'[w] = "weigh" /\ wreg'[w] = 0 /\ wi'[w] = 0
    BY <1>1, <1>2 DEF RandomStart, Idle, Goto, selVars, Local, ConnectPc
  <2>2. 0 .. 0-1 = {} OBVIOUS
  <2>3. SumFunctionOnSet(Low, 0 .. wi'[w]-1) = 0 BY <2>1, <2>2, SumEmpty
  <2> QED BY <2>1, <2>3 DEF TotalFloor
<1>3. CASE Weigh(w)
  <2>1. PICK s : s = wi[w] OBVIOUS
  <2>2. wpc[w] = "weigh" /\ s \in Servers BY <1>1, <1>3, <2>1 DEF Weigh, Local
  <2>3. FloorOf(s) /\ effective_weight[s] \in Int /\ Low[s] \in Int BY <1>1, <2>2, LowBounds
  <2>4. CASE ~PassOver(w, s) /\ Retry(w, s)
    <3>1. wpc'[w] = "probe" /\ wi' = wi /\ wreg' = wreg BY <1>1, <1>3, <2>1, <2>4 DEF Weigh, Goto
    <3> QED BY <2>2, <3>1 DEF TotalFloor
  <2>5. CASE PassOver(w, s)
    <3>1. s \in Unreliable BY <2>3, <2>5 DEF PassOver, FloorOf
    <3>2. PICK n \in Int : n = 0 OBVIOUS
    <3>3. n >= Low[s] /\ wreg[w] + n = wreg[w] BY <1>1, <2>3, <3>1, <3>2, LowBounds
    <3>4. wreg' = [wreg EXCEPT ![w] = wreg[w] + n] /\ Advance(w, "weigh", "draw")
      BY <1>3, <2>1, <2>5, <3>3 DEF Weigh
    <3> QED BY <2>1, <2>2, <3>3, <3>4, TotalStep
  <2>6. CASE ~PassOver(w, s) /\ ~Retry(w, s)
    <3>1. wreg' = [wreg EXCEPT ![w] = wreg[w] + effective_weight[s]] /\ Advance(w, "weigh", "draw")
      BY <1>3, <2>1, <2>6 DEF Weigh
    <3>2. effective_weight[s] >= Low[s] BY <2>3 DEF FloorOf
    <3> QED BY <2>1, <2>2, <2>3, <3>1, <3>2, TotalStep
  <2> QED BY <2>4, <2>5, <2>6
<1>4. CASE WeighProbe(w)
  <2>1. wpc[w] = "probe" /\ wi[w] \in Servers BY <1>1, <1>4 DEF WeighProbe, Local
  <2>2. wi[w] \in Unreliable BY <2>1 DEF FloorAt
  <2>3. Low[wi[w]] \in Int /\ Low[wi[w]] <= 0 BY <2>1, <2>2, LowBounds
  <2>4. PICK n \in Int : n = 1 OBVIOUS
  <2>5. n >= Low[wi[w]] BY <2>3, <2>4
  <2>6. wreg' = [wreg EXCEPT ![w] = wreg[w] + n] /\ Advance(w, "weigh", "draw") BY <1>4, <2>4 DEF WeighProbe
  <2> QED BY <2>1, <2>5, <2>6, TotalStep
<1>5. CASE HashStart(w)
  <2>1. wpc'[w] \in {"connect", "ring"} BY <1>1, <1>5, HashStartCases DEF IInv
  <2> QED BY <2>1 DEF TotalFloor
<1>6. CASE ~RandomStart(w) /\ ~Weigh(w) /\ ~WeighProbe(w) /\ ~HashStart(w)
  <2>1. wpc'[w] \notin {"weigh", "probe", "draw"}
    BY <1>1, <1>6
       DEF SelectNext, Goto, Advance, MinStart, MinScan, CountLoad, CountStore, Draw, Find, RingScan, TurnAway,
           TrafficLoad, TrafficStore, TrafficReload, TrafficEnd
  <2> QED BY <2>1 DEF TotalFloor
<1> QED BY <1>2, <1>3, <1>4, <1>5, <1>6

\* Every step keeps the floors.
LEMMA NextFloors ==
    ASSUME IInv, Checked = {}, FloorInv, [Next]_polVars
    PROVE  FloorInv'
<1>1. NoChecks' BY NextNoChecks DEF FloorInv
<1>2. /\ NoChecks
      /\ \A s \in Servers : FloorOf(s)
      /\ \A v \in Workers : FloorAt(v)
      /\ \A v \in Workers : TotalFloor(v)
  BY DEF FloorInv
<1>3. ASSUME UNCHANGED <<effective_weight, is_down, wpc, wsrv, wreg, wi>> PROVE FloorInv'
  <2>1. ASSUME NEW s \in Servers PROVE FloorOf(s)'
    <3>1. FloorOf(s) BY <1>2
    <3> QED BY <1>3, <3>1 DEF FloorOf
  <2>2. ASSUME NEW v \in Workers PROVE FloorAt(v)' /\ TotalFloor(v)'
    <3>1. FloorAt(v) /\ TotalFloor(v) BY <1>2
    <3> QED BY <1>3, <3>1 DEF FloorAt, TotalFloor
  <2> QED BY <1>1, <2>1, <2>2 DEF FloorInv
<1>4. ASSUME NEW w \in Workers, SelectNext(w) PROVE FloorInv'
  <2>1. (\A s \in Servers : FloorOf(s)') /\ (\A v \in Workers : FloorAt(v)') BY <1>2, <1>4, SelectFloors
  <2>2. Elsewhere(w) BY <1>4, SelectLeaves
  <2>3. ASSUME NEW v \in Workers PROVE TotalFloor(v)'
    <3>1. CASE v = w BY <1>2, <1>4, <3>1, SelectTotal
    <3>2. CASE v # w
      <4>1. TotalFloor(v) BY <1>2
      <4> QED BY <2>2, <3>2, <4>1 DEF Elsewhere, TotalFloor
    <3> QED BY <3>1, <3>2
  <2> QED BY <1>1, <2>1, <2>3 DEF FloorInv
<1>5. ASSUME NEW w \in Workers, ConnectStep(w) PROVE FloorInv'
  <2>1. (\A s \in Servers : FloorOf(s)') /\ (\A v \in Workers : FloorAt(v)') BY <1>2, <1>5, ConnectFloors
  <2>2. OthersStay(w) /\ wi' = wi BY <1>5, ConnectOthersStay DEF IInv, ServersInv, ConnectStep
  <2>3. ASSUME NEW v \in Workers PROVE TotalFloor(v)'
    <3>1. CASE v = w
      <4>1. wpc'[w] \notin {"weigh", "probe", "draw"}
        BY <1>5, SelectTypes
           DEF ConnectStep, ConnectNext, OpenClientfd, SrvLock, Decay, Clamp, Mark, DownFlag, DownZero, DownStamp,
               Revive, Grow, CloseProxy, Drop, SrvUnlock, Goto
      <4> QED BY <3>1, <4>1 DEF TotalFloor
    <3>2. CASE v # w
      <4>1. TotalFloor(v) BY <1>2
      <4> QED BY <2>2, <3>2, <4>1 DEF OthersStay, TotalFloor
    <3> QED BY <3>1, <3>2
  <2> QED BY <1>1, <2>1, <2>3 DEF FloorInv
<1>6. CASE Tick BY <1>3, <1>6 DEF Tick, connVars
<1>7. CASE UNCHANGED polVars BY <1>3, <1>7 DEF polVars, srvVars, connVars, selVars
<1> QED BY <1>2, <1>4, <1>5, <1>6, <1>7, NoChecksStep DEF Next, WorkerNext

\* Only a draw from an empty total ends the process.
LEMMA NextSurvives ==
    ASSUME IInv, Checked = {}, FloorInv, SurvivesWithReliable, [Next]_polVars
    PROVE  SurvivesWithReliable'
<1> DEFINE failing == {s \in Unreliable : MaxFails[s] > 0}
           reliable == SumFunctionOnSet(Weight, Servers \ Unreliable)
           owed == SumFunction([s \in failing |-> Weight[s] \div MaxFails[s]])
<1>1. SUFFICES ASSUME reliable > owed PROVE ~crashed' BY DEF SurvivesWithReliable
<1>2. ~crashed BY <1>1 DEF SurvivesWithReliable
<1>3. SumFunctionOnSet(Low, Servers) = reliable - owed /\ reliable \in Int /\ owed \in Int BY LowTotal
<1> HIDE DEF reliable, owed
<1>4. SumFunctionOnSet(Low, Servers) \in Int /\ SumFunctionOnSet(Low, Servers) > 0 BY <1>1, <1>3
<1>7. ASSUME NEW w \in Workers, Draw(w) PROVE ~crashed'
  <2>1. wreg[w] \in Int BY SelectTypes
  <2>2. wpc[w] = "draw" BY <1>7 DEF Draw
  <2>3. wreg[w] >= SumFunctionOnSet(Low, Servers) BY <2>2 DEF FloorInv, TotalFloor
  <2> DEFINE total == IF wreg[w] < 0 THEN -wreg[w] ELSE wreg[w]
  <2>4. total # 0 BY <1>4, <2>1, <2>3
  <2>5. crashed' = (total = 0) BY <1>7, Zenon DEF Draw
  <2> HIDE DEF total
  <2> QED BY <2>4, <2>5, Zenon
<1>8. ASSUME NEW w \in Workers, SelectNext(w), ~Draw(w) PROVE crashed' = crashed
  BY <1>8 DEF SelectNext, MinStart, MinScan, CountLoad, CountStore, RandomStart, Weigh, WeighProbe, Find, HashStart,
              RingScan, TurnAway, TrafficLoad, TrafficStore, TrafficReload, TrafficEnd
<1>9. ASSUME NEW w \in Workers, ConnectStep(w) PROVE crashed' = crashed BY <1>9 DEF ConnectStep
<1>10. Tick => crashed' = crashed BY DEF Tick
<1> QED BY <1>2, <1>7, <1>8, <1>9, <1>10 DEF Next, WorkerNext, polVars

SurvivalInv == Checked = {} => FloorInv /\ SurvivesWithReliable

\* The random policy never divides by zero, and the process never dies of it,
\* as long as no health check runs and the servers to which no connect fails
\* weigh more than failed connects can momentarily take off the others: for any
\* number of servers, workers and connects at once.
THEOREM RandomSurvives == Spec => []SurvivesWithReliable
<1>1. Init => SurvivalInv
  <2> SUFFICES ASSUME Init PROVE FloorInv /\ SurvivesWithReliable BY DEF SurvivalInv
  <2> USE DEF Init
  <2>1. NoChecks BY DEF InitCheck, NoChecks
  <2>2. ASSUME NEW s \in Servers PROVE FloorOf(s)
    <3>1. effective_weight[s] = Weight[s] /\ ~is_down[s] BY DEF InitUpstream
    <3>2. Weight[s] \in Nat /\ Low[s] \in Int /\ (s \notin Unreliable => Low[s] = Weight[s])
            /\ (s \in Unreliable => Low[s] <= 0)
      BY WeightPos, LowBounds
    <3>3. Weight[s] >= Low[s] BY <3>2
    <3> QED BY <3>1, <3>3 DEF FloorOf
  <2>3. ASSUME NEW w \in Workers PROVE FloorAt(w) /\ TotalFloor(w)
    <3>1. wpc[w] = "idle" BY DEF InitUpstream
    <3> QED BY <3>1 DEF FloorAt, TotalFloor, DownPc
  <2>4. SurvivesWithReliable BY DEF InitPolicies, SurvivesWithReliable
  <2> QED BY <2>1, <2>2, <2>3, <2>4 DEF FloorInv
<1>2. IInv /\ SurvivalInv /\ [Next]_polVars => SurvivalInv'
  <2> SUFFICES ASSUME IInv, Checked = {}, FloorInv, SurvivesWithReliable, [Next]_polVars
               PROVE  FloorInv' /\ SurvivesWithReliable'
    BY DEF SurvivalInv
  <2> QED BY NextFloors, NextSurvives
<1>3. SurvivalInv => SurvivesWithReliable BY DEF SurvivalInv, SurvivesWithReliable
<1> QED BY <1>1, <1>2, <1>3, Invariance, PTL DEF Spec
=============================================================================
