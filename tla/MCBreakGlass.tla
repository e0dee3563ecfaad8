---------------------------- MODULE MCBreakGlass ----------------------------
(***************************************************************************)
(* Model checking of BreakGlass.  The code takes no lock between the read  *)
(* of a status and the writes that follow, so what it promises depends on  *)
(* which calls overlapped.  The history variable remembers that, and the   *)
(* properties below say exactly which overlaps each promise survives.      *)
(*                                                                         *)
(* Threads and actors are compared for equality only.                      *)
(***************************************************************************)
EXTENDS BreakGlass, TLC

\* together[b]: the pairs of operations of which two calls were in progress on
\* b at the same time, a singleton for two calls of the same operation.
VARIABLE together

Busy(b) == {t \in Threads : call[t] # Idle /\ call[t].activation = b}

Overlaps(b) ==
    {{call[p[1]].op, call[p[2]].op} :
         p \in {q \in Busy(b) \X Busy(b) : q[1] # q[2]}}

MCInit == Init /\ together = [b \in Activations |-> {}]

MCNext ==
    /\ Next
    /\ together' = [b \in Activations |-> together[b] \cup Overlaps(b)']

MCSpec == MCInit /\ [][MCNext]_<<vars, together>>

Symmetry == Permutations(Threads) \cup Permutations(Actors)

\* A revoke kills the override for good unless a countersign overlapped it or
\* another countersign: listings, refused and late countersignatures and other
\* revokes, overlapping it or not, leave no live token behind it, and there is
\* never a second token, which a revoke would not know of, unless two
\* countersigns overlapped.
RevokeKills ==
    \A b \in Opened :
        \/ {"countersign"} \in together[b]
        \/ Len(issued[b]) <= 1 /\ ({"countersign", "revoke"} \in together[b] \/ DeadIfRevoked(b))

\* A revoked or expired activation never changes status again, unless calls of
\* different operations, or two countersigns, overlapped on it.
EndHolds ==
    [][\A b \in Opened :
          \/ together[b] \ {{"revoke"}, {"refresh"}} # {}
          \/ activations[b].status \in Final =>
                 activations'[b].status = activations[b].status
      ]_<<vars, together>>

=============================================================================
