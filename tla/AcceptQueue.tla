---------------------------- MODULE AcceptQueue ----------------------------
(***************************************************************************)
(* What the listening pool promises to the rest of umicat: a connection    *)
(* accepted by the master thread is handed to exactly one worker, in the   *)
(* order of acceptance.  Nothing is said of locks, semaphores or links.    *)
(***************************************************************************)
EXTENDS Naturals, Sequences

CONSTANTS Conns,        \* client connections (uct_connection_t)
          Workers       \* worker threads

VARIABLES pending,      \* accepted and not yet taken, oldest first
          owned         \* owned[w]: taken by worker w and not yet closed

aqVars == <<pending, owned>>

Waiting == {pending[i] : i \in 1..Len(pending)}
Owned   == UNION {owned[w] : w \in Workers}

Init == /\ pending = <<>>
        /\ owned = [w \in Workers |-> {}]

\* A connection that is neither waiting nor owned joins the queue.
Offer(c) == /\ c \notin Waiting \cup Owned
            /\ pending' = Append(pending, c)
            /\ UNCHANGED owned

\* A worker takes the connection that has waited longest.
Take(w) == /\ pending # <<>>
           /\ owned' = [owned EXCEPT ![w] = @ \cup {Head(pending)}]
           /\ pending' = Tail(pending)

\* A worker closes a connection it owns.
Close(w, c) == /\ c \in owned[w]
               /\ owned' = [owned EXCEPT ![w] = @ \ {c}]
               /\ UNCHANGED pending

Next == \/ \E c \in Conns : Offer(c)
        \/ \E w \in Workers : \/ Take(w)
                              \/ \E c \in Conns : Close(w, c)

Spec == Init /\ [][Next]_aqVars
=============================================================================
