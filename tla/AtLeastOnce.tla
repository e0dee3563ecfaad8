------------------------------ MODULE AtLeastOnce ------------------------------
(***************************************************************************)
(* What fintwinos/connectors/jsonl_cdc.py promises a pipeline: every line   *)
(* of the source is handed to the consumer at least once before the resume  *)
(* point moves past it, whatever crashes; a line may be handed over again.  *)
(***************************************************************************)
EXTENDS Naturals

CONSTANT Lines \* the lines a source may ever hold

VARIABLES
    written,   \* lines that are in the source
    received,  \* lines the consumer has received
    excused,   \* lines that are no records, or that were given up
    passed     \* lines before the resume point

vars == <<written, received, excused, passed>>

Init == written = {} /\ received = {} /\ excused \in SUBSET Lines /\ passed = {}

\* The source grows; nothing is ever taken back.
Write ==
    /\ written' \in SUBSET Lines /\ written \subseteq written'
    /\ UNCHANGED <<received, excused, passed>>

Receive ==
    /\ received' \in SUBSET written /\ received \subseteq received'
    /\ UNCHANGED <<written, excused, passed>>

\* The resume point may also go back: what is before it then is received again.
\* Lines may be given up by the step that passes them.
Pass ==
    /\ excused' \in SUBSET Lines /\ excused \subseteq excused'
    /\ passed' \in SUBSET (received \cup excused')
    /\ UNCHANGED <<written, received>>

Next == Write \/ Receive \/ Pass

Spec == Init /\ [][Next]_vars

================================================================================
