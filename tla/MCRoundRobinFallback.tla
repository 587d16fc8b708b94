------------------------ MODULE MCRoundRobinFallback ------------------------
(* The servers the second scan of the selection under way has passed over. *)
EXTENDS MCRoundRobin

VARIABLE skipped

NoteSkipped ==
    skipped' = CASE mutex' = NoThread -> {}
                 [] mutex' # NoThread /\ (\E w \in Workers : wpc[w] = "scan2") /\ i' # i /\ Skip(i) ->
                      skipped \cup {i}
                 [] OTHER -> skipped

FallbackSpec == Init /\ skipped = {} /\ [][Next /\ NoteSkipped]_<<rrVars, skipped>>

\* README, is_fallback: "If the server is down, whether to fallback to the next
\* server."  A selection that passed over a server because it is down, though
\* another server is up, does not end up with that very server.
FallsBack ==
    \A w \in Workers :
        wpc[w] = "charge" => (best \notin skipped \/ \A s \in Servers : is_down[s])
=============================================================================
