---------------------------- MODULE MCKillSwitch ----------------------------
(***************************************************************************)
(* Model checking of KillSwitch on two processes, one with two threads.    *)
(* The lock is a process's own, so what the component promises depends on  *)
(* whether writers of two processes overlapped; the history variables      *)
(* remember that, and what has been asked for.                             *)
(***************************************************************************)
EXTENDS KillSwitch, Naturals, FiniteSets, TLC

CONSTANTS p1, p2, a1, a2, b1

Home == (a1 :> p1) @@ (a2 :> p1) @@ (b1 :> p2)

\* The two threads of p1 are compared for equality only.
Symmetry == Permutations({a1, a2})

VARIABLES
    raced,   \* were writers of two processes ever in progress at once?
    asked    \* the requests entered so far, or all once two differed

Writers == {t \in Threads : call[t].pc \in {"loaded", "opened", "filled"}}

Asked(t) == <<call[t].op, call[t].scope>>

MCInit == Init /\ raced = FALSE /\ asked = {}

MCNext ==
    /\ Next
    /\ raced' = (raced \/ \E t, u \in Writers' : ProcessOf[t] # ProcessOf[u])
    /\ LET all == asked \cup {Asked(t)' : t \in {u \in Threads : call'[u].pc = "waiting"}}
       IN asked' = IF Cardinality(all) > 1 THEN Ops \X Scopes ELSE all

MCSpec == MCInit /\ [][MCNext]_<<vars, raced, asked>>

\* Once writers of two processes have overlapped and the requests differ, none of
\* the properties below promises anything: KillSwitch.cfg explores no further.
Promised == raced => Cardinality(asked) = 1

\* _save is atomic, and the flags in force are those of the completed requests,
\* through crashes, failed writes and any number of threads, until writers of
\* two processes overlap.
FlagsHold == raced \/ (FileIsWhole /\ HaltsHold)

\* Until then no call made while its band was halted runs.
HaltsStopCalls == raced \/ HaltedCallsDoNotRun

\* When everybody asked for the same halt, even writers that overlapped, and
\* the half-written files they leave, never let a halted call run: an
\* unreadable file refuses every band.
SameHaltStopsCalls == Cardinality(asked) = 1 => HaltedCallsDoNotRun

=============================================================================
