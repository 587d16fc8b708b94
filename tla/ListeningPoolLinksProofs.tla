---------------------- MODULE ListeningPoolLinksProofs ----------------------
(***************************************************************************)
(* The doubly linked list of uct_queue.h implements the queue of the       *)
(* listening pool, for any number of workers and connections.              *)
(*                                                                         *)
(* LinksInv says which links are where they should be after each of the    *)
(* stores of an insertion and of a removal.  It needs the pool's own       *)
(* invariants: that only the holder of the spin lock is changing the list, *)
(* that the node being inserted is not in it, and that the list being      *)
(* popped is not empty.  Those are not proved again: ListeningPoolProofs   *)
(* is instantiated with the list that the links spell as its queue, and    *)
(* its lemmas apply because every step of the links is a step of the pool  *)
(* or changes nothing that the pool sees.                                  *)
(***************************************************************************)
EXTENDS ListeningPoolLinks, FiniteSetTheorems, TLAPS

\* What is proved of the pool, with the links as its queue.
PP == INSTANCE ListeningPoolProofs WITH queue <- Chain

-----------------------------------------------------------------------------
(* Lists, and what following the links of one reads. *)

\* The i-th node of the list q, the sentinel being before and behind it.
Nth(q, i) == IF i \in 1 .. Len(q) THEN q[i] ELSE Sentinel

\* A list has each node once.
IsList(q) == q \in Seq(Conns) /\ \A i, j \in 1 .. Len(q) : q[i] = q[j] => i = j

\* The links nx lead through q and back to the sentinel.
NextLinks(nx, q) == \A i \in 0 .. Len(q) : nx[Nth(q, i)] = Nth(q, i+1)

\* What NodeAt and Chain are, for links given.
Follow(nx, f, n) == IF n = 0 THEN Sentinel ELSE IF f[n-1] \in Nodes THEN nx[f[n-1]] ELSE NoNode

IsWalk(nx, N, f) == f = [n \in 0 .. N |-> Follow(nx, f, n)]

Walk(nx) == CHOOSE f : IsWalk(nx, Cardinality(Nodes), f)

ListOf(nx) ==
    LET back == {n \in 1 .. Cardinality(Nodes) : Walk(nx)[n] \notin Conns}
    IN  IF back = {} THEN <<>>
        ELSE [i \in 1 .. ((CHOOSE n \in back : \A m \in back : n <= m) - 1) |-> Walk(nx)[i]]

\* NodeAt, before and after a step, is the walk along the links of that state.
LEMMA NodeAtIs == NodeAt = Walk(next) /\ NodeAt' = Walk(next')
BY DEF NodeAt, Walk, IsWalk, Follow

\* Chain is the list that the links spell, so unchanged links, an unchanged list.
LEMMA ChainIs == Chain = ListOf(next) /\ Chain' = ListOf(next')
BY NodeAtIs DEF Chain, ListOf

\* A set of numbers has a least one: the induction used for the walk.
LEMMA LeastNumber ==
    ASSUME NEW Bad, Bad \subseteq Nat, Bad # {}
    PROVE  \E n \in Bad : \A m \in Bad : n <= m
<1> DEFINE R == {p \in Nat \X Nat : p[1] < p[2]}
<1>1. IsWellFoundedOn(R, Nat) BY NatLessThanWellFounded DEF OpToRel
<1>2. \E n \in Bad : \A m \in Bad : ~(<<m, n>> \in R)
  <2> HIDE DEF R
  <2> QED BY <1>1, WFMin
<1>3. PICK n \in Bad : \A m \in Bad : ~(<<m, n>> \in R) BY <1>2
<1>4. \A m \in Bad : ~(m < n) BY <1>3
<1> QED BY <1>4

\* The recursive definition of the walk has a solution.
LEMMA WalkExists == ASSUME NEW nx, NEW N \in Nat PROVE \E f : IsWalk(nx, N, f)
<1> DEFINE Bad == {m \in Nat : ~ \E f : IsWalk(nx, m, f)}
<1>1. SUFFICES ASSUME Bad # {} PROVE FALSE OBVIOUS
<1>2. PICK m \in Bad : \A q \in Bad : m <= q
  <2> HIDE DEF Bad
  <2>1. Bad \subseteq Nat BY DEF Bad
  <2> QED BY <1>1, <2>1, LeastNumber
<1>3. CASE m = 0
  <2> DEFINE f == [k \in 0 .. 0 |-> Sentinel]
  <2>1. f = [k \in 0 .. 0 |-> Follow(nx, f, k)] BY DEF Follow
  <2> QED BY <1>3, <2>1 DEF IsWalk
<1>4. CASE m # 0
  <2>1. m-1 \in Nat /\ m-1 \notin Bad BY <1>2, <1>4
  <2>2. PICK g : IsWalk(nx, m-1, g) BY <2>1
  <2> DEFINE f == [k \in 0 .. m |-> IF k = m THEN Follow(nx, g, m) ELSE g[k]]
  <2>3. ASSUME NEW k \in 0 .. m PROVE f[k] = Follow(nx, f, k)
    <3>1. CASE k = m
      <4>1. f[m-1] = g[m-1] BY <2>1
      <4> QED BY <1>4, <3>1, <4>1 DEF Follow
    <3>2. CASE k # m
      <4>1. k \in 0 .. m-1 /\ (k # 0 => k-1 \in 0 .. m-1 /\ k-1 # m /\ k-1 \in 0 .. m) BY <2>1, <3>2
      <4>2. g[k] = Follow(nx, g, k) BY <2>2, <4>1 DEF IsWalk
      <4>3. k # 0 => f[k-1] = g[k-1] BY <4>1
      <4>4. Follow(nx, f, k) = Follow(nx, g, k) BY <4>3 DEF Follow
      <4> QED BY <3>2, <4>2, <4>4
    <3> QED BY <3>1, <3>2
  <2>4. f = [k \in 0 .. m |-> Follow(nx, f, k)]
    <3>1. f = [k \in 0 .. m |-> f[k]] OBVIOUS
    <3> HIDE DEF f
    <3> QED BY <2>3, <3>1
  <2> QED BY <2>4 DEF IsWalk
<1> QED BY <1>3, <1>4

\* A list is no longer than there are nodes.
LEMMA ListShort ==
    ASSUME NEW q, IsList(q)
    PROVE  /\ Len(q) \in Nat /\ Cardinality(Nodes) \in Nat /\ Len(q) + 1 <= Cardinality(Nodes)
           /\ \A i \in 0 .. Len(q) + 1 : Nth(q, i) \in Nodes
           /\ \A i \in 1 .. Len(q) : Nth(q, i) \in Conns
<1>1. Len(q) \in Nat /\ q \in [1 .. Len(q) -> Conns] /\ DOMAIN q = 1 .. Len(q) BY DEF IsList
<1>2. q \in Injection(1 .. Len(q), Conns)
  <2>1. \A a, b \in DOMAIN q : q[a] = q[b] => a = b BY <1>1 DEF IsList
  <2> QED BY <1>1, <2>1, Zenon DEF Injection, IsInjective
<1>3. Cardinality(1 .. Len(q)) <= Cardinality(Conns) BY <1>2, FS_Injection, LinksAssumption
<1>4. Cardinality(1 .. Len(q)) = Len(q)
  <2>0. Len(q) \in Int BY <1>1
  <2>1. PICK n \in Int : n = Len(q) BY <2>0, Zenon
  <2>2. PICK a \in Int : a = 1 OBVIOUS
  <2>3. Cardinality(a .. n) = IF a > n THEN 0 ELSE n-a+1 BY FS_Interval
  <2> QED BY <1>1, <2>1, <2>2, <2>3
<1>5. Cardinality(Nodes) = Cardinality(Conns) + 1 BY FS_AddElement, LinksAssumption DEF Nodes
<1>6. Cardinality(Conns) \in Nat BY FS_CardinalityType, LinksAssumption
<1>8. \A i \in 1 .. Len(q) : Nth(q, i) \in Conns BY <1>1 DEF Nth
<1>7. ASSUME NEW i PROVE Nth(q, i) \in Nodes
  <2>1. CASE i \in 1 .. Len(q) BY <1>8, <2>1 DEF Nodes
  <2>2. CASE i \notin 1 .. Len(q) BY <2>2 DEF Nth, Nodes
  <2> QED BY <2>1, <2>2
<1> QED BY <1>1, <1>3, <1>4, <1>5, <1>6, <1>7, <1>8

\* Following the links of a list meets its nodes, and so reads the list.
LEMMA WalkList ==
    ASSUME NEW nx, NEW q, IsList(q), NextLinks(nx, q)
    PROVE  /\ \A n \in 0 .. Len(q) + 1 : Walk(nx)[n] = Nth(q, n)
           /\ ListOf(nx) = q
<1>1. /\ Len(q) \in Nat /\ Cardinality(Nodes) \in Nat /\ Len(q) + 1 <= Cardinality(Nodes)
      /\ \A i \in 0 .. Len(q) + 1 : Nth(q, i) \in Nodes
      /\ \A i \in 1 .. Len(q) : Nth(q, i) \in Conns
  BY ListShort
<1>2. PICK W : W = Walk(nx) OBVIOUS
<1>3. IsWalk(nx, Cardinality(Nodes), W) BY <1>1, <1>2, WalkExists DEF Walk
<1>4. \A n \in 0 .. Cardinality(Nodes) : W[n] = Follow(nx, W, n) BY <1>3 DEF IsWalk
<1> DEFINE Bad == {m \in Nat : m <= Len(q) + 1 /\ W[m] # Nth(q, m)}
<1>5. Bad = {}
  <2>1. SUFFICES ASSUME Bad # {} PROVE FALSE OBVIOUS
  <2>2. PICK m \in Bad : \A k \in Bad : m <= k
    <3> HIDE DEF Bad
    <3>1. Bad \subseteq Nat BY DEF Bad
    <3> QED BY <2>1, <3>1, LeastNumber
  <2>3. m \in 0 .. Cardinality(Nodes) /\ m <= Len(q) + 1 /\ m \in Nat BY <1>1, <2>2
  <2>4. CASE m = 0
    <3>1. W[m] = Sentinel BY <1>4, <2>3, <2>4 DEF Follow
    <3>2. Nth(q, m) = Sentinel BY <2>4 DEF Nth
    <3> QED BY <2>2, <3>1, <3>2
  <2>5. CASE m # 0
    <3>1. m-1 \in Nat /\ m-1 \in 0 .. Len(q) /\ m-1 \in 0 .. Len(q)+1 /\ m-1 \notin Bad BY <1>1, <2>2, <2>3, <2>5
    <3>2. W[m-1] = Nth(q, m-1) BY <1>1, <3>1
    <3>3. W[m-1] \in Nodes BY <1>1, <3>1, <3>2
    <3>4. W[m] = nx[W[m-1]] BY <1>4, <2>3, <2>5, <3>3 DEF Follow
    <3>5. nx[Nth(q, m-1)] = Nth(q, (m-1)+1) BY <3>1 DEF NextLinks
    <3>6. (m-1)+1 = m BY <2>3
    <3> QED BY <2>2, <3>2, <3>4, <3>5, <3>6
  <2> QED BY <2>4, <2>5
<1>6. \A n \in 0 .. Len(q) + 1 : W[n] = Nth(q, n) BY <1>1, <1>5
<1> HIDE DEF Bad
<1>7. ListOf(nx) = q
  <2> DEFINE back == {n \in 1 .. Cardinality(Nodes) : W[n] \notin Conns}
             first == CHOOSE n \in back : \A m \in back : n <= m
  <2>1. Len(q) + 1 \in back
    <3>1. Nth(q, Len(q) + 1) = Sentinel BY <1>1 DEF Nth
    <3>2. Len(q) + 1 \in 1 .. Cardinality(Nodes) /\ Len(q) + 1 \in 0 .. Len(q) + 1 BY <1>1
    <3> QED BY <1>6, <3>1, <3>2, LinksAssumption
  <2>2. \A m \in back : Len(q) + 1 <= m
    <3> SUFFICES ASSUME NEW m \in back, ~(Len(q) + 1 <= m) PROVE FALSE OBVIOUS
    <3>1. m \in 1 .. Len(q) /\ m \in 0 .. Len(q) + 1 BY <1>1
    <3> QED BY <1>1, <1>6, <3>1
  <2>3. \A m \in back : m \in Nat BY <1>1
  <2> HIDE DEF back
  <2>4. first \in back /\ \A m \in back : first <= m BY <2>1, <2>2
  <2>5. first = Len(q) + 1 BY <1>1, <2>1, <2>2, <2>3, <2>4
  <2>6. ListOf(nx) = [i \in 1 .. (first - 1) |-> W[i]] BY <1>2, <2>1 DEF ListOf, back
  <2> HIDE DEF first
  <2>7. first - 1 = Len(q) BY <1>1, <2>5
  <2>8. \A i \in 1 .. Len(q) : W[i] = q[i] BY <1>1, <1>6 DEF Nth
  <2>9. q = [i \in 1 .. Len(q) |-> q[i]] BY DEF IsList
  <2> QED BY <2>6, <2>7, <2>8, <2>9
<1> QED BY <1>2, <1>6, <1>7

-----------------------------------------------------------------------------
(* The list with a node more or less. *)

\* The nodes of a list differ, and from the sentinel and from a node that is
\* not in the list.
LEMMA NthDiffer ==
    ASSUME NEW q, IsList(q)
    PROVE  /\ \A i \in 0 .. Len(q), j \in 0 .. Len(q) : Nth(q, i) = Nth(q, j) => i = j
           /\ \A i \in 1 .. Len(q) + 1, j \in 1 .. Len(q) + 1 : Nth(q, i) = Nth(q, j) => i = j
           /\ Nth(q, 0) = Sentinel /\ Nth(q, Len(q) + 1) = Sentinel
           /\ \A c \in Conns : (\A k \in 1 .. Len(q) : q[k] # c) => \A i \in 0 .. Len(q) + 1 : Nth(q, i) # c
<1>1. Len(q) \in Nat /\ \A i \in 1 .. Len(q) : q[i] \in Conns BY DEF IsList
<1>2. \A i, j \in 1 .. Len(q) : q[i] = q[j] => i = j BY DEF IsList
<1>3. \A i \in 1 .. Len(q) : Nth(q, i) = q[i] /\ Nth(q, i) # Sentinel BY <1>1, LinksAssumption DEF Nth
<1>4. Nth(q, 0) = Sentinel /\ Nth(q, Len(q) + 1) = Sentinel BY <1>1 DEF Nth
<1>5. ASSUME NEW i \in 0 .. Len(q), NEW j \in 0 .. Len(q), Nth(q, i) = Nth(q, j) PROVE i = j
  <2>1. CASE i = 0 /\ j = 0 BY <2>1
  <2>2. CASE i = 0 /\ j # 0
    <3>1. j \in 1 .. Len(q) BY <1>1, <2>2
    <3> QED BY <1>3, <1>4, <1>5, <2>2, <3>1
  <2>3. CASE i # 0 /\ j = 0
    <3>1. i \in 1 .. Len(q) BY <1>1, <2>3
    <3> QED BY <1>3, <1>4, <1>5, <2>3, <3>1
  <2>4. CASE i # 0 /\ j # 0
    <3>1. i \in 1 .. Len(q) /\ j \in 1 .. Len(q) BY <1>1, <2>4
    <3> QED BY <1>2, <1>3, <1>5, <3>1
  <2> QED BY <2>1, <2>2, <2>3, <2>4
<1>6. ASSUME NEW i \in 1 .. Len(q) + 1, NEW j \in 1 .. Len(q) + 1, Nth(q, i) = Nth(q, j) PROVE i = j
  <2>1. CASE i = Len(q) + 1 /\ j = Len(q) + 1 BY <2>1
  <2>2. CASE i = Len(q) + 1 /\ j # Len(q) + 1
    <3>1. j \in 1 .. Len(q) BY <1>1, <2>2
    <3> QED BY <1>3, <1>4, <1>6, <2>2, <3>1
  <2>3. CASE i # Len(q) + 1 /\ j = Len(q) + 1
    <3>1. i \in 1 .. Len(q) BY <1>1, <2>3
    <3> QED BY <1>3, <1>4, <1>6, <2>3, <3>1
  <2>4. CASE i # Len(q) + 1 /\ j # Len(q) + 1
    <3>1. i \in 1 .. Len(q) /\ j \in 1 .. Len(q) BY <1>1, <2>4
    <3> QED BY <1>2, <1>3, <1>6, <3>1
  <2> QED BY <2>1, <2>2, <2>3, <2>4
<1>7. ASSUME NEW c \in Conns, \A k \in 1 .. Len(q) : q[k] # c, NEW i \in 0 .. Len(q) + 1 PROVE Nth(q, i) # c
  <2>1. CASE i \in 1 .. Len(q) BY <1>3, <1>7, <2>1
  <2>2. CASE i \notin 1 .. Len(q) BY <2>2, LinksAssumption DEF Nth
  <2> QED BY <2>1, <2>2
<1> QED BY <1>4, <1>5, <1>6, <1>7

\* A new first node: the links are the same behind it.
LEMMA Prepended ==
    ASSUME NEW q, IsList(q), NEW c \in Conns, \A k \in 1 .. Len(q) : q[k] # c
    PROVE  /\ IsList(<<c>> \o q) /\ Len(<<c>> \o q) = Len(q) + 1
           /\ Nth(<<c>> \o q, 0) = Sentinel /\ Nth(<<c>> \o q, 1) = c
           /\ \A i \in 1 .. Len(q) + 1 : Nth(<<c>> \o q, i + 1) = Nth(q, i)
<1>1. Len(q) \in Nat /\ q \in Seq(Conns) /\ <<c>> \in Seq(Conns) /\ Len(<<c>>) = 1 BY DEF IsList
<1>2. PICK p : p = <<c>> \o q OBVIOUS
<1>3. p \in Seq(Conns) /\ Len(p) = Len(q) + 1 /\ p[1] = c /\ \A i \in 1 .. Len(q) : p[i+1] = q[i] BY <1>1, <1>2
<1>4. ASSUME NEW i \in 1 .. Len(p), NEW j \in 1 .. Len(p), p[i] = p[j] PROVE i = j
  <2>1. \A k \in 2 .. Len(p) : k - 1 \in 1 .. Len(q) /\ p[k] = q[k-1]
    <3> SUFFICES ASSUME NEW k \in 2 .. Len(p) PROVE k - 1 \in 1 .. Len(q) /\ p[k] = q[k-1] OBVIOUS
    <3>1. k - 1 \in 1 .. Len(q) /\ (k-1) + 1 = k BY <1>1, <1>3
    <3> QED BY <1>3, <3>1
  <2>2. CASE i = 1 /\ j = 1 BY <2>2
  <2>3. CASE i = 1 /\ j # 1
    <3>1. j \in 2 .. Len(p) BY <1>1, <1>3, <2>3
    <3> QED BY <1>3, <1>4, <2>1, <2>3, <3>1
  <2>4. CASE i # 1 /\ j = 1
    <3>1. i \in 2 .. Len(p) BY <1>1, <1>3, <2>4
    <3> QED BY <1>3, <1>4, <2>1, <2>4, <3>1
  <2>5. CASE i # 1 /\ j # 1
    <3>1. i \in 2 .. Len(p) /\ j \in 2 .. Len(p) BY <1>1, <1>3, <2>5
    <3>2. i - 1 = j - 1 BY <1>4, <2>1, <3>1 DEF IsList
    <3> QED BY <1>1, <1>3, <3>2
  <2> QED BY <2>2, <2>3, <2>4, <2>5
<1>5. IsList(p) BY <1>3, <1>4 DEF IsList
<1>6. Nth(p, 0) = Sentinel /\ Nth(p, 1) = c BY <1>1, <1>3 DEF Nth
<1>7. ASSUME NEW i \in 1 .. Len(q) + 1 PROVE Nth(p, i + 1) = Nth(q, i)
  <2>1. CASE i = Len(q) + 1
    <3>1. i + 1 \notin 1 .. Len(p) /\ i \notin 1 .. Len(q) BY <1>1, <1>3, <2>1
    <3> QED BY <3>1 DEF Nth
  <2>2. CASE i # Len(q) + 1
    <3>1. i \in 1 .. Len(q) /\ i + 1 \in 1 .. Len(p) BY <1>1, <1>3, <2>2
    <3> QED BY <1>3, <3>1 DEF Nth
  <2> QED BY <2>1, <2>2
<1> QED BY <1>2, <1>3, <1>5, <1>6, <1>7

\* The last node removed: the links are the same before it.
LEMMA LastTaken ==
    ASSUME NEW q, IsList(q), Len(q) > 0
    PROVE  /\ IsList(SubSeq(q, 1, Len(q) - 1)) /\ Len(SubSeq(q, 1, Len(q) - 1)) = Len(q) - 1
           /\ \A i \in 0 .. Len(q) - 1 : Nth(SubSeq(q, 1, Len(q) - 1), i) = Nth(q, i)
           /\ Nth(SubSeq(q, 1, Len(q) - 1), Len(q)) = Sentinel
<1>1. Len(q) \in Nat /\ q \in Seq(Conns) BY DEF IsList
<1>2. PICK p : p = SubSeq(q, 1, Len(q) - 1) OBVIOUS
<1>3. p \in Seq(Conns) /\ Len(p) = Len(q) - 1 /\ \A i \in 1 .. Len(q) - 1 : p[i] = q[i]
  <2>1. PICK n \in Nat : n = Len(q) - 1 BY <1>1
  <2>2. p = SubSeq(q, 1, n) /\ n <= Len(q) BY <1>1, <1>2, <2>1
  <2>3. p \in Seq(Conns) /\ Len(p) = n /\ \A i \in 1 .. n : p[i] = q[i] BY <1>1, <2>2
  <2> QED BY <2>1, <2>3
<1>4. IsList(p) BY <1>1, <1>3 DEF IsList
<1>5. ASSUME NEW i \in 0 .. Len(q) - 1 PROVE Nth(p, i) = Nth(q, i)
  <2>1. CASE i = 0 BY <1>1, <1>3, <2>1 DEF Nth
  <2>2. CASE i # 0
    <3>1. i \in 1 .. Len(p) /\ i \in 1 .. Len(q) BY <1>1, <1>3, <2>2
    <3> QED BY <1>3, <3>1 DEF Nth
  <2> QED BY <2>1, <2>2
<1>6. Nth(p, Len(q)) = Sentinel BY <1>1, <1>3 DEF Nth
<1> QED BY <1>2, <1>3, <1>4, <1>5, <1>6

-----------------------------------------------------------------------------
(* The inductive invariant. *)

\* prev leads back through q.
PrevLinks(pv, q) == \A i \in 0 .. Len(q) : pv[Nth(q, i+1)] = Nth(q, i)

\* The same while c is being inserted before q ...
PrevInserting(pv, q, c) ==
    pv[Nth(q, 1)] = c /\ \A i \in 1 .. Len(q) : pv[Nth(q, i+1)] = Nth(q, i)

\* ... and while the last node of q is being removed.
PrevRemoving(pv, q) ==
    pv[Sentinel] = Nth(q, Len(q) - 1) /\ \A i \in 0 .. Len(q) - 1 : pv[Nth(q, i+1)] = Nth(q, i)

\* The links after each store: next spells a list at every moment; prev agrees
\* with it except between the second and the last store of an insertion, at the
\* old first node, and of a removal, at the list head.  What a thread has loaded
\* or stored stays true until it is done.
LinksInv ==
    /\ DOMAIN next = Nodes /\ DOMAIN prev = Nodes /\ DOMAIN wq = Workers
    /\ mstep \in 0 .. 3 /\ wstep \in [Workers -> 0 .. 2]
    /\ mpc # "insert" => mstep = 0
    /\ \A w \in Workers : wpc[w] # "pop" => wstep[w] = 0
    /\ IsList(Chain) /\ NextLinks(next, Chain)
    /\ mstep \in {0, 1} /\ (\A w \in Workers : wstep[w] # 2) => PrevLinks(prev, Chain)
    /\ mstep \in {1, 2, 3} => next[mconn] = Nth(Chain, 1)
    /\ mstep \in {2, 3} => PrevInserting(prev, Chain, mconn)
    /\ mstep = 3 => prev[mconn] = Sentinel
    /\ \A w \in Workers : wstep[w] \in {1, 2} => wq[w] = Nth(Chain, Len(Chain))
    /\ \A w \in Workers : wstep[w] = 2 => PrevRemoving(prev, Chain)

\* What the pool's invariants say of the thread that is changing the list.
Exclusive ==
    /\ mpc = "insert" => /\ mconn \in Conns /\ \A k \in 1 .. Len(Chain) : Chain[k] # mconn
                         /\ \A w \in Workers : wpc[w] # "pop"
    /\ \A w \in Workers : wpc[w] = "pop" => Len(Chain) > 0 /\ \A v \in Workers : wpc[v] = "pop" => v = w
    /\ DOMAIN wpc = Workers

\* It follows from mutual exclusion, the accounting of the semaphore, and each
\* connection being in one place.
LEMMA PoolExclusive == ASSUME PP!IInv, PP!OnePlace PROVE Exclusive
<1>0. PP!IsFiniteSet(Workers) BY LinksAssumption DEF PP!IsFiniteSet, IsFiniteSet
<1>1. PP!TypeOK /\ PP!MutualExclusion /\ PP!Accounting /\ PP!LocalsOK BY DEF PP!IInv
<1>2. ASSUME mpc = "insert" PROVE mconn \in Conns BY <1>1, <1>2 DEF PP!LocalsOK
<1>3. ASSUME mpc = "insert", NEW k \in 1 .. Len(Chain) PROVE Chain[k] # mconn
  <2>1. PP!MasterHas \cap PP!QueueSet = {} BY DEF PP!OnePlace
  <2>2. mconn \in PP!MasterHas BY <1>3 DEF PP!MasterHas
  <2>3. Chain[k] \in PP!QueueSet BY <1>3 DEF PP!QueueSet
  <2> QED BY <2>1, <2>2, <2>3
<1>4. ASSUME NEW w \in Workers, wpc[w] = "pop" PROVE mpc # "insert" /\ mutex = w
  BY <1>1, <1>4, LinksAssumption DEF PP!MutualExclusion
<1>5. ASSUME NEW w \in Workers, wpc[w] = "pop" PROVE Len(Chain) > 0
  BY <1>0, <1>1, <1>5, PP!PopNonEmpty, LinksAssumption
<1>6. DOMAIN wpc = Workers BY <1>1 DEF PP!TypeOK
<1> QED BY <1>2, <1>3, <1>4, <1>5, <1>6 DEF Exclusive

-----------------------------------------------------------------------------
(* The stores of uct_queue_insert_head. *)

\* x->next = h->next writes into a node that no one reads yet.
LEMMA InsertNextLinks == ASSUME LinksInv, Exclusive, InsertNext PROVE LinksInv' /\ Chain' = Chain
<1>1. PICK q : q = Chain OBVIOUS
<1>2. PICK nx : nx = next OBVIOUS
<1>3. PICK c : c = mconn OBVIOUS
<1>4. IsList(q) /\ NextLinks(nx, q) /\ DOMAIN nx = Nodes /\ Len(q) \in Nat BY <1>1, <1>2 DEF LinksInv, IsList
<1>5. c \in Conns /\ c \in Nodes /\ \A k \in 1 .. Len(q) : q[k] # c
  BY <1>1, <1>3 DEF Exclusive, InsertNext, InsertStep, Nodes
<1>6. nx[Sentinel] = Nth(q, 1)
  <2>1. Nth(q, 0) = Sentinel /\ 0 \in 0 .. Len(q) BY <1>4 DEF Nth
  <2> QED BY <1>4, <2>1 DEF NextLinks
<1>7. PICK ny : ny = [nx EXCEPT ![c] = Nth(q, 1)] OBVIOUS
<1>8. next' = ny BY <1>2, <1>3, <1>6, <1>7 DEF InsertNext
<1>9. DOMAIN ny = Nodes /\ ny[c] = Nth(q, 1) /\ \A n \in Nodes : n # c => ny[n] = nx[n] BY <1>4, <1>5, <1>7
<1>10. NextLinks(ny, q)
  <2> SUFFICES ASSUME NEW i \in 0 .. Len(q) PROVE ny[Nth(q, i)] = Nth(q, i+1) BY DEF NextLinks
  <2>1. i \in 0 .. Len(q) + 1 BY <1>4
  <2>2. Nth(q, i) # c BY <1>4, <1>5, <2>1, NthDiffer
  <2>3. Nth(q, i) \in Nodes BY <1>4, <2>1, ListShort
  <2>4. nx[Nth(q, i)] = Nth(q, i+1) BY <1>4 DEF NextLinks
  <2> QED BY <1>9, <2>2, <2>3, <2>4
<1>11. Chain' = q
  <2>1. ListOf(ny) = q BY <1>4, <1>10, WalkList
  <2> QED BY <1>8, <2>1, ChainIs
<1>12. /\ mpc = "insert" /\ mpc' = mpc /\ mstep = 0 /\ mstep' = 1 /\ mconn' = mconn /\ wpc' = wpc /\ wstep' = wstep
       /\ wq' = wq /\ prev' = prev
  BY DEF InsertNext, InsertStep
<1>13. \A w \in Workers : wstep[w] = 0 BY <1>12 DEF LinksInv, Exclusive
<1>14. PrevLinks(prev, q) BY <1>1, <1>12, <1>13 DEF LinksInv
<1>15. /\ DOMAIN prev = Nodes /\ DOMAIN wq = Workers /\ wstep \in [Workers -> 0 .. 2] BY DEF LinksInv
<1>16. LinksInv'
  BY <1>3, <1>4, <1>8, <1>9, <1>10, <1>11, <1>12, <1>13, <1>14, <1>15 DEF LinksInv
<1> QED BY <1>1, <1>11, <1>16

\* x->next->prev = x is not seen by following next.
LEMMA InsertSuccPrevLinks == ASSUME LinksInv, Exclusive, InsertSuccPrev PROVE LinksInv' /\ Chain' = Chain
<1>1. PICK q : q = Chain OBVIOUS
<1>2. PICK pv : pv = prev OBVIOUS
<1>3. PICK c : c = mconn OBVIOUS
<1>4. IsList(q) /\ NextLinks(next, q) /\ DOMAIN pv = Nodes /\ Len(q) \in Nat BY <1>1, <1>2 DEF LinksInv, IsList
<1>12. /\ mpc = "insert" /\ mpc' = mpc /\ mstep = 1 /\ mstep' = 2 /\ mconn' = mconn /\ wpc' = wpc /\ wstep' = wstep
       /\ wq' = wq /\ next' = next
  BY DEF InsertSuccPrev, InsertStep
<1>13. \A w \in Workers : wstep[w] = 0 BY <1>12 DEF LinksInv, Exclusive
<1>14. PrevLinks(pv, q) BY <1>1, <1>2, <1>12, <1>13 DEF LinksInv
<1>5. next[c] = Nth(q, 1) BY <1>1, <1>3, <1>12 DEF LinksInv
<1>7. PICK py : py = [pv EXCEPT ![Nth(q, 1)] = c] OBVIOUS
<1>8. prev' = py BY <1>2, <1>3, <1>5, <1>7 DEF InsertSuccPrev
<1>n. \A i \in 0 .. Len(q) + 1 : Nth(q, i) \in Nodes BY <1>4, ListShort
<1>9. DOMAIN py = Nodes /\ py[Nth(q, 1)] = c /\ \A n \in Nodes : n # Nth(q, 1) => py[n] = pv[n]
  <2>1. 1 \in 0 .. Len(q) + 1 BY <1>4
  <2>2. Nth(q, 1) \in Nodes BY <2>1, <1>n
  <2> QED BY <1>4, <2>2, <1>7
<1>10. PrevInserting(py, q, c)
  <2> SUFFICES ASSUME NEW i \in 1 .. Len(q) PROVE py[Nth(q, i+1)] = Nth(q, i) BY <1>9 DEF PrevInserting
  <2>1. i+1 \in 0 .. Len(q) + 1 /\ i+1 \in 1 .. Len(q) + 1 /\ 1 \in 1 .. Len(q) + 1 /\ i+1 # 1 /\ i \in 0 .. Len(q) BY <1>4
  <2>2. Nth(q, i+1) # Nth(q, 1) BY <1>4, <2>1, NthDiffer
  <2>3. Nth(q, i+1) \in Nodes BY <1>n, <2>1
  <2>4. pv[Nth(q, i+1)] = Nth(q, i) BY <1>14, <2>1 DEF PrevLinks
  <2> QED BY <1>9, <2>2, <2>3, <2>4
<1>11. Chain' = q BY <1>1, <1>12, ChainIs
<1>15. /\ DOMAIN next = Nodes /\ DOMAIN wq = Workers /\ wstep \in [Workers -> 0 .. 2] BY DEF LinksInv
<1>16. LinksInv'
  BY <1>3, <1>4, <1>5, <1>8, <1>9, <1>10, <1>11, <1>12, <1>13, <1>15 DEF LinksInv
<1> QED BY <1>1, <1>11, <1>16

\* x->prev = h writes into the new node.
LEMMA InsertPrevLinks == ASSUME LinksInv, Exclusive, InsertPrev PROVE LinksInv' /\ Chain' = Chain
<1>1. PICK q : q = Chain OBVIOUS
<1>2. PICK pv : pv = prev OBVIOUS
<1>3. PICK c : c = mconn OBVIOUS
<1>4. IsList(q) /\ NextLinks(next, q) /\ DOMAIN pv = Nodes /\ Len(q) \in Nat BY <1>1, <1>2 DEF LinksInv, IsList
<1>12. /\ mpc = "insert" /\ mpc' = mpc /\ mstep = 2 /\ mstep' = 3 /\ mconn' = mconn /\ wpc' = wpc /\ wstep' = wstep
       /\ wq' = wq /\ next' = next
  BY DEF InsertPrev, InsertStep
<1>13. \A w \in Workers : wstep[w] = 0 BY <1>12 DEF LinksInv, Exclusive
<1>14. PrevInserting(pv, q, c) BY <1>1, <1>2, <1>3, <1>12 DEF LinksInv
<1>5. next[c] = Nth(q, 1) BY <1>1, <1>3, <1>12 DEF LinksInv
<1>6. c \in Conns /\ c \in Nodes /\ \A k \in 1 .. Len(q) : q[k] # c
  BY <1>1, <1>3, <1>12 DEF Exclusive, Nodes
<1>7. PICK py : py = [pv EXCEPT ![c] = Sentinel] OBVIOUS
<1>8. prev' = py BY <1>2, <1>3, <1>7 DEF InsertPrev
<1>9. DOMAIN py = Nodes /\ py[c] = Sentinel /\ \A n \in Nodes : n # c => py[n] = pv[n] BY <1>4, <1>6, <1>7
<1>17. \A i \in 1 .. Len(q) + 1 : py[Nth(q, i)] = pv[Nth(q, i)]
  <2> SUFFICES ASSUME NEW i \in 1 .. Len(q) + 1 PROVE py[Nth(q, i)] = pv[Nth(q, i)] OBVIOUS
  <2>1. i \in 0 .. Len(q) + 1 BY <1>4
  <2>2. Nth(q, i) # c BY <1>4, <1>6, <2>1, NthDiffer
  <2>3. Nth(q, i) \in Nodes BY <1>4, <2>1, ListShort
  <2> QED BY <1>9, <2>2, <2>3
<1>10. PrevInserting(py, q, c)
  <2>1. 1 \in 1 .. Len(q) + 1 /\ \A i \in 1 .. Len(q) : i+1 \in 1 .. Len(q) + 1 BY <1>4
  <2> QED BY <1>14, <1>17, <2>1 DEF PrevInserting
<1>11. Chain' = q BY <1>1, <1>12, ChainIs
<1>15. /\ DOMAIN next = Nodes /\ DOMAIN wq = Workers /\ wstep \in [Workers -> 0 .. 2] BY DEF LinksInv
<1>16. LinksInv'
  BY <1>3, <1>4, <1>5, <1>8, <1>9, <1>10, <1>11, <1>12, <1>13, <1>15 DEF LinksInv
<1> QED BY <1>1, <1>11, <1>16

\* h->next = x: here the list gets its new first node.
LEMMA InsertHeadLinks ==
    ASSUME LinksInv, Exclusive, InsertHead PROVE LinksInv' /\ Chain' = <<mconn>> \o Chain
<1>1. PICK q : q = Chain OBVIOUS
<1>2. PICK nx : nx = next OBVIOUS
<1>3. PICK c : c = mconn OBVIOUS
<1>a. PICK pv : pv = prev OBVIOUS
<1>b. PICK p : p = <<c>> \o q OBVIOUS
<1>4. IsList(q) /\ NextLinks(nx, q) /\ DOMAIN nx = Nodes /\ Len(q) \in Nat BY <1>1, <1>2 DEF LinksInv, IsList
<1>12. /\ mpc = "insert" /\ mpc' = "unlock" /\ mstep = 3 /\ mstep' = 0 /\ mconn' = mconn /\ wpc' = wpc /\ wstep' = wstep
       /\ wq' = wq /\ prev' = prev
  BY DEF InsertHead, InsertStep
<1>13. \A w \in Workers : wstep[w] = 0 BY <1>12 DEF LinksInv, Exclusive
<1>14. PrevInserting(pv, q, c) /\ pv[c] = Sentinel BY <1>1, <1>3, <1>a, <1>12 DEF LinksInv
<1>5. nx[c] = Nth(q, 1) BY <1>1, <1>2, <1>3, <1>12 DEF LinksInv
<1>6. c \in Conns /\ c \in Nodes /\ c # Sentinel /\ \A k \in 1 .. Len(q) : q[k] # c
  BY <1>1, <1>3, <1>12, LinksAssumption DEF Exclusive, Nodes
<1>7. PICK ny : ny = [nx EXCEPT ![Sentinel] = c] OBVIOUS
<1>8. next' = ny BY <1>2, <1>3, <1>7 DEF InsertHead
<1>9. DOMAIN ny = Nodes /\ ny[Sentinel] = c /\ \A n \in Nodes : n # Sentinel => ny[n] = nx[n]
  BY <1>4, <1>7 DEF Nodes
<1>17. /\ IsList(p) /\ Len(p) = Len(q) + 1 /\ Nth(p, 0) = Sentinel /\ Nth(p, 1) = c
       /\ \A i \in 1 .. Len(q) + 1 : Nth(p, i + 1) = Nth(q, i)
  BY <1>4, <1>6, <1>b, Prepended
<1>d. \A i \in 1 .. Len(q) : Nth(q, i) # Sentinel /\ Nth(q, i) \in Nodes
  <2>1. \A i \in 1 .. Len(q) : Nth(q, i) \in Conns BY <1>4, ListShort
  <2> QED BY <2>1, LinksAssumption DEF Nodes
<1>10. NextLinks(ny, p)
  <2> SUFFICES ASSUME NEW i \in 0 .. Len(p) PROVE ny[Nth(p, i)] = Nth(p, i+1) BY DEF NextLinks
  <2>1. CASE i = 0 BY <1>9, <1>17, <2>1
  <2>2. CASE i = 1
    <3>1. 1 \in 1 .. Len(q) + 1 BY <1>4
    <3>2. Nth(p, 1 + 1) = Nth(q, 1) BY <1>17, <3>1
    <3> QED BY <1>5, <1>6, <1>9, <1>17, <2>2, <3>2
  <2>3. CASE i \notin {0, 1}
    <3>1. PICK j \in 1 .. Len(q) : i = j + 1
      <4>1. i - 1 \in 1 .. Len(q) /\ i = (i - 1) + 1 BY <1>4, <1>17, <2>3
      <4> QED BY <4>1
    <3>2. j \in 1 .. Len(q) + 1 /\ j+1 \in 1 .. Len(q) + 1 /\ j \in 0 .. Len(q) BY <1>4, <3>1
    <3>3. Nth(p, i) = Nth(q, j) /\ Nth(p, i + 1) = Nth(q, j+1) BY <1>17, <3>1, <3>2
    <3>4. nx[Nth(q, j)] = Nth(q, j+1) BY <1>4, <3>2 DEF NextLinks
    <3> QED BY <1>9, <1>d, <3>1, <3>3, <3>4
  <2> QED BY <2>1, <2>2, <2>3
<1>18. PrevLinks(pv, p)
  <2> SUFFICES ASSUME NEW i \in 0 .. Len(p) PROVE pv[Nth(p, i+1)] = Nth(p, i) BY DEF PrevLinks
  <2>1. CASE i = 0 BY <1>14, <1>17, <2>1
  <2>2. CASE i = 1
    <3>1. 1 \in 1 .. Len(q) + 1 BY <1>4
    <3>2. Nth(p, 1 + 1) = Nth(q, 1) BY <1>17, <3>1
    <3> QED BY <1>14, <1>17, <2>2, <3>2 DEF PrevInserting
  <2>3. CASE i \notin {0, 1}
    <3>1. PICK j \in 1 .. Len(q) : i = j + 1
      <4>1. i - 1 \in 1 .. Len(q) /\ i = (i - 1) + 1 BY <1>4, <1>17, <2>3
      <4> QED BY <4>1
    <3>2. j \in 1 .. Len(q) + 1 /\ j+1 \in 1 .. Len(q) + 1 BY <1>4, <3>1
    <3>3. Nth(p, i) = Nth(q, j) /\ Nth(p, i + 1) = Nth(q, j+1) BY <1>17, <3>1, <3>2
    <3>4. pv[Nth(q, j+1)] = Nth(q, j) BY <1>14, <3>1 DEF PrevInserting
    <3> QED BY <3>3, <3>4
  <2> QED BY <2>1, <2>2, <2>3
<1>11. Chain' = p
  <2>1. ListOf(ny) = p BY <1>10, <1>17, WalkList
  <2> QED BY <1>8, <2>1, ChainIs
<1>15. /\ DOMAIN prev = Nodes /\ DOMAIN wq = Workers /\ wstep \in [Workers -> 0 .. 2] BY DEF LinksInv
<1>c. prev' = pv BY <1>12, <1>a
<1>16. LinksInv'
  BY <1>8, <1>9, <1>10, <1>11, <1>12, <1>13, <1>15, <1>17, <1>18, <1>c DEF LinksInv
<1> QED BY <1>1, <1>3, <1>b, <1>11, <1>16

-----------------------------------------------------------------------------
(* The load and the stores of uct_queue_last and uct_queue_remove. *)

\* q = h->prev is the last node of the list.
LEMMA RemoveLastLinks ==
    ASSUME LinksInv, Exclusive, NEW w \in Workers, RemoveLast(w) PROVE LinksInv' /\ Chain' = Chain
<1>1. PICK q : q = Chain OBVIOUS
<1>4. IsList(q) /\ NextLinks(next, q) /\ Len(q) \in Nat BY <1>1 DEF LinksInv, IsList
<1>12. /\ wpc[w] = "pop" /\ wpc' = wpc /\ wstep[w] = 0 /\ wstep' = [wstep EXCEPT ![w] = 1] /\ mconn' = mconn /\ mpc' = mpc
       /\ mstep' = mstep /\ next' = next /\ prev' = prev
  BY DEF RemoveLast, RemoveStep
<1>13. mstep = 0 /\ \A v \in Workers : v # w => wpc[v] # "pop" /\ wstep[v] = 0 BY <1>12 DEF LinksInv, Exclusive
<1>14. PrevLinks(prev, q) BY <1>1, <1>12, <1>13 DEF LinksInv
<1>5. prev[Sentinel] = Nth(q, Len(q))
  <2>1. Len(q) \in 0 .. Len(q) BY <1>4
  <2>2. Nth(q, Len(q) + 1) = Sentinel BY <1>4 DEF Nth
  <2> QED BY <1>14, <2>1, <2>2 DEF PrevLinks
<1>15. /\ DOMAIN next = Nodes /\ DOMAIN prev = Nodes /\ DOMAIN wq = Workers /\ wstep \in [Workers -> 0 .. 2] BY DEF LinksInv
<1>6. wstep' \in [Workers -> 0 .. 2] /\ wstep'[w] = 1 /\ \A v \in Workers : v # w => wstep'[v] = 0
  BY <1>12, <1>13, <1>15
<1>7. DOMAIN wq' = Workers /\ wq'[w] = Nth(q, Len(q)) BY <1>5, <1>15 DEF RemoveLast
<1>11. Chain' = q BY <1>1, <1>12, ChainIs
<1>8. \A v \in Workers : wstep'[v] \in {1, 2} => v = w BY <1>6
<1>9. mstep' = 0 /\ \A v \in Workers : wpc'[v] # "pop" => wstep'[v] = 0 BY <1>6, <1>12, <1>13
<1>10. IsList(Chain') /\ NextLinks(next', Chain') /\ PrevLinks(prev', Chain') BY <1>4, <1>11, <1>12, <1>14
<1>17. DOMAIN next' = Nodes /\ DOMAIN prev' = Nodes BY <1>12, <1>15
<1>18. \A v \in Workers : wstep'[v] \in {1, 2} => wq'[v] = Nth(Chain', Len(Chain')) BY <1>7, <1>8, <1>11
<1>19. \A v \in Workers : wstep'[v] # 2 BY <1>6
<1>16. LinksInv'
  BY <1>6, <1>7, <1>9, <1>10, <1>17, <1>18, <1>19 DEF LinksInv
<1> QED BY <1>1, <1>11, <1>16

\* q->next->prev = q->prev is not seen by following next.
LEMMA RemoveSuccPrevLinks ==
    ASSUME LinksInv, Exclusive, NEW w \in Workers, RemoveSuccPrev(w) PROVE LinksInv' /\ Chain' = Chain
<1>1. PICK q : q = Chain OBVIOUS
<1>2. PICK pv : pv = prev OBVIOUS
<1>4. IsList(q) /\ NextLinks(next, q) /\ Len(q) \in Nat /\ DOMAIN pv = Nodes BY <1>1, <1>2 DEF LinksInv, IsList
<1>12. /\ wpc[w] = "pop" /\ wpc' = wpc /\ wstep[w] = 1 /\ wstep' = [wstep EXCEPT ![w] = 2] /\ mconn' = mconn /\ mpc' = mpc
       /\ mstep' = mstep /\ next' = next /\ wq' = wq /\ prev' = [prev EXCEPT ![next[wq[w]]] = prev[wq[w]]]
  BY DEF RemoveSuccPrev, RemoveStep
<1>3. Len(q) > 0 BY <1>1, <1>12 DEF Exclusive
<1>13. mstep = 0 /\ \A v \in Workers : v # w => wpc[v] # "pop" /\ wstep[v] = 0 BY <1>12 DEF LinksInv, Exclusive
<1>14. PrevLinks(pv, q) BY <1>1, <1>2, <1>12, <1>13 DEF LinksInv
<1>5. wq[w] = Nth(q, Len(q)) BY <1>1, <1>12 DEF LinksInv
<1>6. next[Nth(q, Len(q))] = Sentinel
  <2>1. Len(q) \in 0 .. Len(q) BY <1>4
  <2>2. Nth(q, Len(q) + 1) = Sentinel BY <1>4 DEF Nth
  <2> QED BY <1>4, <2>1, <2>2 DEF NextLinks
<1>7. pv[Nth(q, Len(q))] = Nth(q, Len(q) - 1)
  <2>1. Len(q) - 1 \in 0 .. Len(q) /\ (Len(q) - 1) + 1 = Len(q) BY <1>3, <1>4
  <2>2. pv[Nth(q, (Len(q) - 1) + 1)] = Nth(q, Len(q) - 1) BY <1>14, <2>1 DEF PrevLinks
  <2> QED BY <2>1, <2>2
<1>8. PICK py : py = [pv EXCEPT ![Sentinel] = Nth(q, Len(q) - 1)] OBVIOUS
<1>9. prev' = py BY <1>2, <1>5, <1>6, <1>7, <1>8, <1>12
<1>10. DOMAIN py = Nodes /\ py[Sentinel] = Nth(q, Len(q) - 1) /\ \A n \in Nodes : n # Sentinel => py[n] = pv[n]
  BY <1>4, <1>8 DEF Nodes
<1>11. PrevRemoving(py, q)
  <2> SUFFICES ASSUME NEW i \in 0 .. Len(q) - 1 PROVE py[Nth(q, i+1)] = Nth(q, i) BY <1>10 DEF PrevRemoving
  <2>1. i+1 \in 1 .. Len(q) /\ i \in 0 .. Len(q) BY <1>3, <1>4
  <2>2. Nth(q, i+1) \in Conns BY <1>4, <2>1, ListShort
  <2>3. pv[Nth(q, i+1)] = Nth(q, i) BY <1>14, <2>1 DEF PrevLinks
  <2> QED BY <1>10, <2>2, <2>3, LinksAssumption DEF Nodes
<1>15. /\ DOMAIN next = Nodes /\ DOMAIN wq = Workers /\ wstep \in [Workers -> 0 .. 2] BY DEF LinksInv
<1>16. wstep' \in [Workers -> 0 .. 2] /\ wstep'[w] = 2 /\ \A v \in Workers : v # w => wstep'[v] = 0
  BY <1>12, <1>13, <1>15
<1>17. Chain' = q BY <1>1, <1>12, ChainIs
<1>18. mstep' = 0 /\ \A v \in Workers : wpc'[v] # "pop" => wstep'[v] = 0 BY <1>12, <1>13, <1>16
<1>19. IsList(Chain') /\ NextLinks(next', Chain') /\ PrevRemoving(prev', Chain') BY <1>4, <1>9, <1>11, <1>12, <1>17
<1>20. DOMAIN next' = Nodes /\ DOMAIN prev' = Nodes /\ DOMAIN wq' = Workers BY <1>9, <1>10, <1>12, <1>15
<1>21. \A v \in Workers : wstep'[v] \in {1, 2} => wq'[v] = Nth(Chain', Len(Chain')) BY <1>5, <1>12, <1>16, <1>17
<1>22. LinksInv'
  BY <1>16, <1>18, <1>19, <1>20, <1>21 DEF LinksInv
<1> QED BY <1>1, <1>17, <1>22

\* q->prev->next = q->next: here the list loses its last node.
LEMMA RemovePredNextLinks ==
    ASSUME LinksInv, Exclusive, NEW w \in Workers, RemovePredNext(w)
    PROVE  /\ LinksInv' /\ Chain' = SubSeq(Chain, 1, Len(Chain) - 1)
           /\ Chain # <<>> /\ wq[w] = Chain[Len(Chain)]
<1>1. PICK q : q = Chain OBVIOUS
<1>2. PICK pv : pv = prev OBVIOUS
<1>a. PICK nx : nx = next OBVIOUS
<1>b. PICK p : p = SubSeq(q, 1, Len(q) - 1) OBVIOUS
<1>4. IsList(q) /\ NextLinks(nx, q) /\ Len(q) \in Nat /\ DOMAIN nx = Nodes BY <1>1, <1>a DEF LinksInv, IsList
<1>12. /\ wpc[w] = "pop" /\ wpc' = [wpc EXCEPT ![w] = "unlock"] /\ wstep[w] = 2 /\ wstep' = [wstep EXCEPT ![w] = 0]
       /\ mconn' = mconn /\ mpc' = mpc /\ mstep' = mstep /\ prev' = prev /\ wq' = [wq EXCEPT ![w] = NoNode]
       /\ next' = [next EXCEPT ![prev[wq[w]]] = next[wq[w]]]
  BY DEF RemovePredNext, RemoveStep
<1>3. Len(q) > 0 BY <1>1, <1>12 DEF Exclusive
<1>13. mstep = 0 /\ \A v \in Workers : v # w => wpc[v] # "pop" /\ wstep[v] = 0 BY <1>12 DEF LinksInv, Exclusive
<1>14. PrevRemoving(pv, q) BY <1>1, <1>2, <1>12 DEF LinksInv
<1>5. wq[w] = Nth(q, Len(q)) BY <1>1, <1>12 DEF LinksInv
<1>6. nx[Nth(q, Len(q))] = Sentinel
  <2>1. Len(q) \in 0 .. Len(q) BY <1>4
  <2>2. Nth(q, Len(q) + 1) = Sentinel BY <1>4 DEF Nth
  <2> QED BY <1>4, <2>1, <2>2 DEF NextLinks
<1>c. Len(q) - 1 \in 0 .. Len(q) - 1 /\ Len(q) - 1 \in 0 .. Len(q) + 1 /\ (Len(q) - 1) + 1 = Len(q) BY <1>3, <1>4
<1>7. pv[Nth(q, Len(q))] = Nth(q, Len(q) - 1)
  <2>2. pv[Nth(q, (Len(q) - 1) + 1)] = Nth(q, Len(q) - 1) BY <1>14, <1>c DEF PrevRemoving
  <2> QED BY <1>c, <2>2
<1>8. PICK ny : ny = [nx EXCEPT ![Nth(q, Len(q) - 1)] = Sentinel] OBVIOUS
<1>9. next' = ny BY <1>2, <1>a, <1>5, <1>6, <1>7, <1>8, <1>12
<1>10. /\ DOMAIN ny = Nodes /\ ny[Nth(q, Len(q) - 1)] = Sentinel
       /\ \A n \in Nodes : n # Nth(q, Len(q) - 1) => ny[n] = nx[n]
  <2>1. Nth(q, Len(q) - 1) \in Nodes BY <1>4, <1>c, ListShort
  <2> QED BY <1>4, <1>8, <2>1
<1>11. /\ IsList(p) /\ Len(p) = Len(q) - 1 /\ Nth(p, Len(q)) = Sentinel
       /\ \A i \in 0 .. Len(q) - 1 : Nth(p, i) = Nth(q, i)
  BY <1>3, <1>4, <1>b, LastTaken
<1>d. \A i \in 0 .. Len(p) : i # Len(p) =>
         i+1 \in 0 .. Len(q) - 1 /\ i \in 0 .. Len(q) /\ i \in 0 .. Len(q) + 1 /\ i # Len(q) - 1
  BY <1>3, <1>4, <1>11
<1>15. NextLinks(ny, p)
  <2> SUFFICES ASSUME NEW i \in 0 .. Len(p) PROVE ny[Nth(p, i)] = Nth(p, i+1) BY DEF NextLinks
  <2>1. CASE i = Len(p)
    <3>1. Nth(p, i) = Nth(q, Len(q) - 1) BY <1>11, <1>c, <2>1
    <3>2. Nth(p, i + 1) = Sentinel BY <1>11, <1>c, <2>1
    <3> QED BY <1>10, <3>1, <3>2
  <2>2. CASE i # Len(p)
    <3>1. Nth(p, i) = Nth(q, i) /\ Nth(p, i+1) = Nth(q, i+1) BY <1>11, <1>d, <2>2
    <3>2. Nth(q, i) # Nth(q, Len(q) - 1)
      <4>1. i \in 0 .. Len(q) /\ Len(q) - 1 \in 0 .. Len(q) /\ i # Len(q) - 1 BY <1>3, <1>4, <1>d, <2>2
      <4> QED BY <1>4, <4>1, NthDiffer
    <3>3. Nth(q, i) \in Nodes BY <1>4, <1>d, <2>2, ListShort
    <3>4. nx[Nth(q, i)] = Nth(q, i+1) BY <1>4, <1>d, <2>2 DEF NextLinks
    <3> QED BY <1>10, <3>1, <3>2, <3>3, <3>4
  <2> QED BY <2>1, <2>2
<1>16. PrevLinks(pv, p)
  <2> SUFFICES ASSUME NEW i \in 0 .. Len(p) PROVE pv[Nth(p, i+1)] = Nth(p, i) BY DEF PrevLinks
  <2>1. CASE i = Len(p)
    <3>1. Nth(p, i) = Nth(q, Len(q) - 1) BY <1>11, <1>c, <2>1
    <3>2. Nth(p, i + 1) = Sentinel BY <1>11, <1>c, <2>1
    <3> QED BY <1>14, <3>1, <3>2 DEF PrevRemoving
  <2>2. CASE i # Len(p)
    <3>0. i \in 0 .. Len(q) - 1 BY <1>11
    <3>1. Nth(p, i) = Nth(q, i) /\ Nth(p, i+1) = Nth(q, i+1) BY <1>11, <1>d, <2>2
    <3>2. pv[Nth(q, i+1)] = Nth(q, i) BY <1>14, <3>0 DEF PrevRemoving
    <3> QED BY <3>1, <3>2
  <2> QED BY <2>1, <2>2
<1>17. Chain' = p
  <2>1. ListOf(ny) = p BY <1>11, <1>15, WalkList
  <2> QED BY <1>9, <2>1, ChainIs
<1>18. DOMAIN prev = Nodes /\ DOMAIN wq = Workers /\ wstep \in [Workers -> 0 .. 2] BY DEF LinksInv
<1>19. wstep' \in [Workers -> 0 .. 2] /\ (\A v \in Workers : wstep'[v] = 0) /\ DOMAIN wq' = Workers
  BY <1>12, <1>13, <1>18
<1>20. DOMAIN next' = Nodes /\ DOMAIN prev' = Nodes BY <1>9, <1>10, <1>12, <1>18
<1>21. IsList(Chain') /\ NextLinks(next', Chain') /\ PrevLinks(prev', Chain') BY <1>2, <1>9, <1>11, <1>12, <1>15, <1>16, <1>17
<1>22. mstep' = 0 BY <1>12, <1>13
<1>23. LinksInv' BY <1>19, <1>20, <1>21, <1>22 DEF LinksInv
<1>24. Chain # <<>> BY <1>1, <1>3
<1>25. wq[w] = Chain[Len(Chain)] BY <1>1, <1>3, <1>4, <1>5 DEF Nth
<1>26. Chain' = SubSeq(Chain, 1, Len(Chain) - 1) BY <1>1, <1>b, <1>17
<1> QED BY <1>23, <1>24, <1>25, <1>26

-----------------------------------------------------------------------------
(* Every step of the links is a step of the pool. *)

\* A step that leaves the links alone leaves the list alone.
LEMMA OtherLinks ==
    ASSUME LinksInv, DOMAIN wpc = Workers, UNCHANGED linkVars,
           \/ mpc # "insert" /\ wpc' = wpc
           \/ UNCHANGED <<mpc, mconn>> /\ \E w \in Workers : \E pc : wpc[w] # "pop" /\ wpc' = [wpc EXCEPT ![w] = pc]
           \/ UNCHANGED <<mpc, mconn, wpc>>
    PROVE  LinksInv' /\ Chain' = Chain
<1>1. /\ next' = next /\ prev' = prev /\ mstep' = mstep /\ wstep' = wstep /\ wq' = wq BY DEF linkVars
<1>2. Chain' = Chain BY <1>1, ChainIs
<1>3. mpc' # "insert" => mstep = 0 BY DEF LinksInv
<1>4. \A v \in Workers : wpc'[v] # "pop" => wstep[v] = 0 BY DEF LinksInv
<1>5. mstep # 0 => mconn' = mconn BY DEF LinksInv
<1>6. mstep \in 0 .. 3 /\ (mstep \in {1, 2, 3} => mstep # 0) /\ (mstep = 3 => mstep # 0) /\ (mstep \in {2, 3} => mstep # 0)
  BY DEF LinksInv
<1>7. LinksInv' BY <1>1, <1>2, <1>3, <1>4, <1>5, <1>6 DEF LinksInv
<1> QED BY <1>2, <1>7

\* A step of the links is a step of the pool, or invisible to it.
LEMMA StepLinks ==
    ASSUME LinksInv, PP!IInv, PP!OnePlace, Next
    PROVE  LinksInv' /\ (Pool!Next \/ UNCHANGED Pool!poolVars)
<1>1. Exclusive BY PoolExclusive
<1>2. DOMAIN wpc = Workers BY <1>1 DEF Exclusive
<1>3. CASE InsertNext
  <2>1. LinksInv' /\ Chain' = Chain BY <1>1, <1>3, InsertNextLinks
  <2>2. UNCHANGED Pool!poolVars BY <1>3, <2>1 DEF InsertNext, InsertStep, Pool!poolVars
  <2> QED BY <2>1, <2>2
<1>4. CASE InsertSuccPrev
  <2>1. LinksInv' /\ Chain' = Chain BY <1>1, <1>4, InsertSuccPrevLinks
  <2>2. UNCHANGED Pool!poolVars BY <1>4, <2>1 DEF InsertSuccPrev, InsertStep, Pool!poolVars
  <2> QED BY <2>1, <2>2
<1>5. CASE InsertPrev
  <2>1. LinksInv' /\ Chain' = Chain BY <1>1, <1>5, InsertPrevLinks
  <2>2. UNCHANGED Pool!poolVars BY <1>5, <2>1 DEF InsertPrev, InsertStep, Pool!poolVars
  <2> QED BY <2>1, <2>2
<1>6. CASE InsertHead
  <2>1. LinksInv' /\ Chain' = <<mconn>> \o Chain BY <1>1, <1>6, InsertHeadLinks
  <2>2. Pool!AddInsert BY <1>6, <2>1 DEF InsertHead, InsertStep, Pool!AddInsert
  <2> QED BY <2>1, <2>2 DEF Pool!Next, Pool!MasterNext
<1>7. CASE OtherMaster
  <2>1. /\ UNCHANGED linkVars /\ mpc # "insert" /\ wpc' = wpc
    BY <1>7 DEF OtherMaster, Pool!Accept, Pool!AddLock, Pool!AddUnlock, Pool!AddPost
  <2>2. LinksInv' BY <1>2, <2>1, OtherLinks
  <2>3. Pool!Next BY <1>7 DEF OtherMaster, Pool!Next, Pool!MasterNext
  <2> QED BY <2>2, <2>3
<1>8. ASSUME NEW w \in Workers, RemoveLast(w) PROVE LinksInv' /\ UNCHANGED Pool!poolVars
  <2>1. LinksInv' /\ Chain' = Chain BY <1>1, <1>8, RemoveLastLinks
  <2>2. UNCHANGED Pool!poolVars BY <1>8, <2>1 DEF RemoveLast, RemoveStep, Pool!poolVars
  <2> QED BY <2>1, <2>2
<1>9. ASSUME NEW w \in Workers, RemoveSuccPrev(w) PROVE LinksInv' /\ UNCHANGED Pool!poolVars
  <2>1. LinksInv' /\ Chain' = Chain BY <1>1, <1>9, RemoveSuccPrevLinks
  <2>2. UNCHANGED Pool!poolVars BY <1>9, <2>1 DEF RemoveSuccPrev, RemoveStep, Pool!poolVars
  <2> QED BY <2>1, <2>2
<1>10. ASSUME NEW w \in Workers, RemovePredNext(w) PROVE LinksInv' /\ Pool!Next
  <2>1. /\ LinksInv' /\ Chain' = SubSeq(Chain, 1, Len(Chain) - 1)
        /\ Chain # <<>> /\ wq[w] = Chain[Len(Chain)]
    BY <1>1, <1>10, RemovePredNextLinks
  <2>2. Pool!GetPop(w) BY <1>10, <2>1 DEF RemovePredNext, RemoveStep, Pool!GetPop
  <2> QED BY <2>1, <2>2 DEF Pool!Next, Pool!WorkerNext
<1>11. ASSUME NEW w \in Workers, OtherWorker(w) PROVE LinksInv' /\ Pool!Next
  <2>1. UNCHANGED linkVars BY <1>11 DEF OtherWorker
  <2>2. CASE Pool!EventsClose(w)
    <3>1. UNCHANGED <<mpc, mconn, wpc>> BY <2>2 DEF Pool!EventsClose
    <3>2. LinksInv' BY <1>2, <2>1, <3>1, OtherLinks
    <3> QED BY <2>2, <3>2 DEF Pool!Next, Pool!WorkerNext
  <2>3. CASE ~Pool!EventsClose(w)
    <3>1. UNCHANGED <<mpc, mconn>> /\ wpc[w] # "pop" /\ \E pc : wpc' = [wpc EXCEPT ![w] = pc]
      BY <1>11, <2>3 DEF OtherWorker, Pool!GetReserve, Pool!GetDeclined, Pool!GetLock, Pool!GetUnlock,
         Pool!ServeProxy, Pool!ServeRefuse, Pool!EventsDone
    <3>2. LinksInv'
      <4>1. \E v \in Workers : \E pc : wpc[v] # "pop" /\ wpc' = [wpc EXCEPT ![v] = pc] BY <3>1
      <4> QED BY <1>2, <2>1, <3>1, <4>1, OtherLinks
    <3>3. Pool!WorkerNext(w) BY <1>11 DEF OtherWorker, Pool!WorkerNext
    <3> QED BY <3>2, <3>3 DEF Pool!Next
  <2> QED BY <2>2, <2>3
<1> QED BY <1>3, <1>4, <1>5, <1>6, <1>7, <1>8, <1>9, <1>10, <1>11 DEF Next

\* The inductive invariant: the links, and what the pool guarantees of its queue.
FullInv == LinksInv /\ PP!IInv /\ PP!OnePlace

\* The two instances of the pool, with and without its proofs, are the same.
LEMMA SamePool ==
    /\ Pool!Init => PP!Init
    /\ (Pool!Next \/ UNCHANGED Pool!poolVars) => [PP!Next]_(PP!poolVars)
<1>1. Pool!Init => PP!Init BY DEF Pool!Init, PP!Init
<1>2. Pool!Next => PP!Next
  BY DEF Pool!Next, Pool!MasterNext, Pool!WorkerNext, PP!Next, PP!MasterNext, PP!WorkerNext,
     Pool!Accept, Pool!AddLock, Pool!AddInsert, Pool!AddUnlock, Pool!AddPost,
     Pool!GetReserve, Pool!GetDeclined, Pool!GetLock, Pool!GetPop, Pool!GetUnlock,
     Pool!ServeProxy, Pool!ServeRefuse, Pool!EventsClose, Pool!EventsDone,
     PP!Accept, PP!AddLock, PP!AddInsert, PP!AddUnlock, PP!AddPost,
     PP!GetReserve, PP!GetDeclined, PP!GetLock, PP!GetPop, PP!GetUnlock,
     PP!ServeProxy, PP!ServeRefuse, PP!EventsClose, PP!EventsDone
<1>3. UNCHANGED Pool!poolVars => UNCHANGED PP!poolVars BY DEF Pool!poolVars, PP!poolVars
<1> QED BY <1>1, <1>2, <1>3

\* uct_queue_init establishes the invariant ...
LEMMA InitFullInv == Init => FullInv
<1> SUFFICES ASSUME Init PROVE FullInv OBVIOUS
<1>0. PP!IsFiniteSet(Workers) BY LinksAssumption DEF PP!IsFiniteSet, IsFiniteSet
<1>1. Pool!Init /\ InitLinks BY DEF Init
<1>2. PP!Init BY <1>1, SamePool
<1>3. PP!IInv BY <1>0, <1>2, PP!InitIInv, LinksAssumption
<1>4. PP!OnePlace BY <1>0, <1>2, PP!InitOnePlace, LinksAssumption
<1>5. Chain = <<>> /\ Len(Chain) = 0 BY <1>1 DEF Pool!Init
<1>6. IsList(Chain) BY <1>5 DEF IsList
<1>7. NextLinks(next, Chain) /\ PrevLinks(prev, Chain)
  <2>1. next[Sentinel] = Sentinel /\ prev[Sentinel] = Sentinel BY <1>1 DEF InitLinks, Nodes
  <2>2. \A i : Nth(Chain, i) = Sentinel BY <1>5 DEF Nth
  <2> QED BY <2>1, <2>2 DEF NextLinks, PrevLinks
<1>8. LinksInv BY <1>1, <1>6, <1>7 DEF LinksInv, InitLinks
<1> QED BY <1>3, <1>4, <1>8 DEF FullInv

\* ... and every step keeps it, and is a step of the pool or invisible to it.
LEMMA NextFullInv ==
    ASSUME FullInv, [Next]_linksVars
    PROVE  FullInv' /\ [Pool!Next]_(Pool!poolVars)
<1>0. PP!IsFiniteSet(Workers) BY LinksAssumption DEF PP!IsFiniteSet, IsFiniteSet
<1>1. LinksInv /\ PP!IInv /\ PP!OnePlace BY DEF FullInv
<1>2. LinksInv' /\ (Pool!Next \/ UNCHANGED Pool!poolVars)
  <2>1. CASE Next BY <1>1, <2>1, StepLinks
  <2>2. CASE UNCHANGED linksVars
    <3>1. UNCHANGED linkVars /\ UNCHANGED protocolVars /\ UNCHANGED <<mpc, mconn, wpc>>
      BY <2>2 DEF linksVars, protocolVars
    <3>2. DOMAIN wpc = Workers BY <1>1, PoolExclusive DEF Exclusive
    <3>3. LinksInv' /\ Chain' = Chain BY <1>1, <3>1, <3>2, OtherLinks
    <3> QED BY <3>1, <3>3 DEF Pool!poolVars, protocolVars
  <2> QED BY <2>1, <2>2
<1>3. [PP!Next]_(PP!poolVars) BY <1>2, SamePool
<1>4. (PP!IInv)' BY <1>0, <1>1, <1>3, PP!NextIInv, LinksAssumption
<1>5. (PP!OnePlace)' BY <1>0, <1>1, <1>3, PP!NextOnePlace, LinksAssumption
<1> QED BY <1>2, <1>4, <1>5 DEF FullInv

-----------------------------------------------------------------------------
(* The theorems. *)

\* The invariant holds in every reachable state.
THEOREM LinksInvariance == Spec => []FullInv
<1>1. FullInv /\ [Next]_linksVars => FullInv' BY NextFullInv
<1> QED BY <1>1, InitFullInv, PTL DEF Spec

\* The list changed one pointer store at a time implements the queue changed in
\* one step: no thread ever sees a list cut in the middle of
\* uct_queue_insert_head or uct_queue_remove.
THEOREM LinksImplementPool == Spec => ImplementsPool
<1>1. Init => Pool!Init BY DEF Init
<1>2. FullInv /\ [Next]_linksVars => [Pool!Next]_(Pool!poolVars) BY NextFullInv
<1> QED BY <1>1, <1>2, LinksInvariance, PTL DEF Spec, ImplementsPool, Pool!Spec

\* With the spin lock free no store is outstanding.
LEMMA FreeWellLinked == FullInv => WellLinked
<1> SUFFICES ASSUME FullInv, mutex = NoThread PROVE
        LET ring == {Sentinel} \cup {Chain[i] : i \in 1..Len(Chain)}
        IN  /\ NodeAt[Len(Chain) + 1] = Sentinel
            /\ \A n \in ring : /\ next[n] \in ring /\ prev[n] \in ring
                               /\ prev[next[n]] = n /\ next[prev[n]] = n
  BY DEF WellLinked
<1>1. LinksInv /\ PP!MutualExclusion BY DEF FullInv, PP!IInv
<1>2. mstep = 0 /\ \A w \in Workers : wstep[w] = 0
  <2>1. mpc # "insert" /\ \A w \in Workers : wpc[w] # "pop" BY <1>1, LinksAssumption DEF PP!MutualExclusion
  <2> QED BY <1>1, <2>1 DEF LinksInv
<1>3. PICK q : q = Chain OBVIOUS
<1>4. IsList(q) /\ NextLinks(next, q) /\ PrevLinks(prev, q) /\ Len(q) \in Nat
  BY <1>1, <1>2, <1>3 DEF LinksInv, IsList
<1> DEFINE ring == {Sentinel} \cup {q[i] : i \in 1 .. Len(q)}
<1>5. Nth(q, 0) = Sentinel /\ Nth(q, Len(q) + 1) = Sentinel /\ \A i : Nth(q, i) \in ring
  BY <1>4 DEF Nth
<1>6. NodeAt[Len(q) + 1] = Sentinel
  <2>1. Len(q) + 1 \in 0 .. Len(q) + 1 BY <1>4
  <2>2. Walk(next)[Len(q) + 1] = Nth(q, Len(q) + 1) BY <1>4, <2>1, WalkList
  <2> QED BY <1>5, <2>2, NodeAtIs
<1>7. ASSUME NEW n \in ring PROVE (\E i \in 0 .. Len(q) : n = Nth(q, i)) /\ (\E i \in 0 .. Len(q) : n = Nth(q, i+1))
  <2>1. CASE n = Sentinel
    <3>1. 0 \in 0 .. Len(q) /\ Len(q) \in 0 .. Len(q) BY <1>4
    <3> QED BY <1>5, <2>1, <3>1
  <2>2. CASE n # Sentinel
    <3>1. PICK i \in 1 .. Len(q) : n = q[i] BY <2>2
    <3>2. n = Nth(q, i) /\ i \in 0 .. Len(q) /\ i - 1 \in 0 .. Len(q) /\ (i - 1) + 1 = i BY <1>4, <3>1 DEF Nth
    <3>3. n = Nth(q, (i - 1) + 1) BY <3>2
    <3> QED BY <3>2, <3>3
  <2> QED BY <2>1, <2>2
<1> HIDE DEF ring
<1>8. ASSUME NEW n \in ring PROVE next[n] \in ring /\ prev[next[n]] = n
  <2>1. PICK i \in 0 .. Len(q) : n = Nth(q, i) BY <1>7
  <2>2. next[n] = Nth(q, i+1) /\ prev[Nth(q, i+1)] = n BY <1>4, <2>1 DEF NextLinks, PrevLinks
  <2> QED BY <1>5, <2>2
<1>9. ASSUME NEW n \in ring PROVE prev[n] \in ring /\ next[prev[n]] = n
  <2>1. PICK i \in 0 .. Len(q) : n = Nth(q, i+1) BY <1>7
  <2>2. prev[n] = Nth(q, i) /\ next[Nth(q, i)] = n BY <1>4, <2>1 DEF NextLinks, PrevLinks
  <2> QED BY <1>5, <2>2
<1> QED BY <1>3, <1>6, <1>8, <1>9 DEF ring

\* Whenever lpool->mutex is free the list is circular and reads the same along
\* next and prev.
THEOREM LinksWellLinked == Spec => []WellLinked
BY LinksInvariance, FreeWellLinked, PTL

\* With the pointers in place of the queue no worker takes the list head for a
\* client either ...
THEOREM LinksNeverSentinel == Spec => []Pool!NeverSentinel
<1>1. FullInv => Pool!NeverSentinel
  BY LinksAssumption DEF FullInv, PP!IInv, PP!LocalsOK, Pool!NeverSentinel
<1> QED BY <1>1, LinksInvariance, PTL

\* ... and every connection is in one place: with the allocator, the master, the
\* list or one worker.
THEOREM LinksOnePlace == Spec => []Pool!OnePlace
<1>1. FullInv => Pool!OnePlace
  BY DEF FullInv, PP!OnePlace, Pool!OnePlace, PP!QueueSet, Pool!QueueSet,
         PP!MasterHas, Pool!MasterHas, PP!WorkerHas, Pool!WorkerHas
<1> QED BY <1>1, LinksInvariance, PTL

\* The links implement the FIFO hand-off of AcceptQueue: the refinement of the
\* links to the pool composed with that of the pool to the hand-off.
THEOREM LinksFifo == Spec => PP!FifoHandOff
<1>0. PP!IsFiniteSet(Workers) BY LinksAssumption DEF PP!IsFiniteSet, IsFiniteSet
<1>1. Pool!Init => PP!Init BY SamePool
<1>2. [Pool!Next]_(Pool!poolVars) => [PP!Next]_(PP!poolVars) BY SamePool
<1>3. Pool!Spec => PP!Spec BY <1>1, <1>2, PTL DEF Pool!Spec, PP!Spec
<1>4. PP!Spec => PP!FifoHandOff BY <1>0, PP!PoolFifo, LinksAssumption
<1> QED BY <1>3, <1>4, LinksImplementPool, PTL DEF ImplementsPool
=============================================================================
