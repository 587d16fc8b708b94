----------------------------- MODULE RingBuild ------------------------------
(***************************************************************************)
(* uct_upstream_init_hash_ring by itself: the loops over the servers push  *)
(* one point after the other, and what has been pushed is then sorted and  *)
(* searched for clients.  The md5 of a point's key is any of RingHashes;   *)
(* points are numbered, so that one is told from another of the same hash. *)
(***************************************************************************)
EXTENDS HashRing

CONSTANTS RingHashes,   \* what md5_hash gives for a point
          RingKeys,     \* and for a client
          MaxPoints     \* bound: points pushed

ASSUME RingAssumption == RingHashes \cup RingKeys \subseteq Int /\ MaxPoints \in Nat

VARIABLE pushed   \* ring->points before they are sorted

InitRing == pushed = <<>>

\* One turn of the loops over the servers and their points.
PushPoint(h) ==
    /\ Len(pushed) < MaxPoints
    /\ pushed' = Append(pushed, [srv |-> Len(pushed), hash |-> h])

RingNext == \E h \in RingHashes : PushPoint(h)

RingSpec == InitRing /\ [][RingNext]_pushed

-----------------------------------------------------------------------------
(* Properties *)

\* uct_upstream_init_hash_ring leaves its points, each once, in the order of
\* their hashes, and uct_upstream_get_hash_point finds the owner of every key
\* among them, also when the key lies behind the last point or hashes repeat.
RingSound ==
    LET sorted == BubbleSort(pushed)
    IN  /\ Len(sorted) = Len(pushed) /\ Sorted(sorted)
        /\ \A j \in DOMAIN pushed : \E k \in DOMAIN sorted : sorted[k] = pushed[j]
        /\ pushed # <<>> => \A key \in RingKeys : GetHashPoint(sorted, key) = RingOwner(sorted, key)
=============================================================================
