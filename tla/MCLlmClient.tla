------------------------------ MODULE MCLlmClient ------------------------------
(***************************************************************************)
(* Model checking of LlmClient with a history of which prompts were used    *)
(* after which, across restarts.                                           *)
(***************************************************************************)
EXTENDS LlmClient

VARIABLES
    since,    \* until then: for each prompt used since a clear, the prompts used after it
    disturbed \* was an entry lost or left unindexed (a file removed, a crash inside put)?

Uses(p) == \E t \in Tasks :
    \/ Complete(t, p) /\ Hit(p)
    \/ \E cost \in 0..MaxCost : Answer(t, cost, TRUE) /\ Caches(t, cost, TRUE) /\ call[t].key = p

Disturbs ==
    \/ \E p \in Prompts : Delete(p)
    \/ up /\ ~up' /\ file' # file

NothingUsed == [p \in {} |-> {}]

Used(p) == [q \in DOMAIN since \cup {p} |-> IF q = p THEN {} ELSE since[q] \cup {p}]

MCInit == Init /\ since = NothingUsed /\ disturbed = FALSE

MCNext ==
    /\ Next
    /\ disturbed' = (disturbed \/ Disturbs)
    /\ since' = IF disturbed' \/ Clear THEN NothingUsed
                ELSE IF \E p \in Prompts : Uses(p) THEN Used(CHOOSE p \in Prompts : Uses(p))
                ELSE since

MCSpec == MCInit /\ [][MCNext]_<<vars, since, disturbed>> /\ Fairness

\* The cache keeps exactly the prompts used last, those after which fewer
\* others were used than fit, and recency survives restarts: index.json carries
\* it and the counter goes on from there (cache.py: the order is persisted so
\* that eviction survives restarts).
CacheKeepsRecent ==
    up /\ ~disturbed =>
        OnDisk(file) = {p \in DOMAIN since : Cardinality(since[p]) < MaxEntries}

================================================================================
