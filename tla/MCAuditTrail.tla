---------------------------- MODULE MCAuditTrail ----------------------------
(***************************************************************************)
(* Model checking of AuditTrail.  What survives a crash depends on what    *)
(* else has happened, which the history variable remembers.                *)
(*                                                                         *)
(* Trails are compared for equality only.                                  *)
(***************************************************************************)
EXTENDS AuditTrail

\* A date is read back as a text.
MCReadBack == [body \in Bodies |-> IF body = "date" THEN "text" ELSE body]

\* Did a write fail, was the file edited, did two processes use it at once, or
\* was a body appended that JSON does not give back?
VARIABLE disturbed

MCInit == Init /\ disturbed = FALSE

MCNext ==
    /\ Next
    /\ disturbed' =
           \/ disturbed
           \/ \E p \in Trails : WriteFails(p)
           \/ edits' > 0
           \/ Cardinality(running') > 1
           \/ \E p \in Trails, body \in Bodies :
                  AppendRecord(p, body) /\ ReadBack[body] # body

MCSpec == MCInit /\ [][MCNext]_<<vars, disturbed>>

Symmetry == Permutations(Trails)

\* Crashes and restarts alone, also between the memory and the file, never
\* harm the chain: it loads, verifies and is numbered from zero at any moment,
\* whichever process takes the file over, and they lose at most the record
\* whose append had not returned.  A line the process dies in is a failed write,
\* and a payload must be one that JSON gives back.
OneRecordAtRisk == disturbed \/ (ChainSurvives /\ MemoryIsOnFile)

=============================================================================
