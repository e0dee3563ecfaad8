----------------------------- MODULE MCApprovals -----------------------------
(***************************************************************************)
(* Model checking of Approvals with failing audit writes.  Threads and      *)
(* actors are compared for equality only, so permuting either set maps      *)
(* behaviours to behaviours.                                                *)
(***************************************************************************)
EXTENDS Approvals, TLC

Symmetry == Permutations(Threads) \cup Permutations(Actors)

VARIABLE stranded \* the requests with a quorum whose last audit write raised

Strands(t) ==
    LET r == call[t].request IN
    /\ At(t, "approve", "sign")
    /\ call'[t] = Idle /\ Quorate(r, requests'[r].approvals)

MCInit == Init /\ stranded = {}

MCNext ==
    /\ Next
    /\ stranded' = stranded \cup {call[t].request : t \in {u \in Threads : Strands(u)}}

MCSpec == MCInit /\ [][MCNext]_<<vars, stranded>>

\* Nobody's signature is lost: when no approve is in progress, a request with the
\* required number of signatures has its tokens, unless the trail raised on the
\* signature that completed the quorum (approvals.py approve).
QuorumIsGranted ==
    \A r \in Opened \ stranded :
        lock = Free /\ Len(requests[r].approvals) >= requests[r].required
            => requests[r].tokens # <<>>

=============================================================================
