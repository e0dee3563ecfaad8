------------------------------ MODULE KillSwitch ------------------------------
(***************************************************************************)
(* The kill switch of fintwinos/policy/killswitch.py: a global flag and one *)
(* flag per tool band in a JSON file that several processes share, written  *)
(* as a temporary file that replaces the old one, and a guard around the    *)
(* registry's call that reads the file before every dispatch.               *)
(*                                                                          *)
(* A lock in each KillSwitch object serialises the engage and release calls *)
(* of one process; processes share nothing but the two files.  The          *)
(* temporary file has the same name in every process, so a writer may find  *)
(* that the file it has open was renamed over the state file by another.    *)
(* call[t].file says under which name, if any, the open file is linked.     *)
(*                                                                          *)
(* halted is a history variable: the scopes engaged, and not released since, *)
(* by the operations that completed.  Definitions named Bug_... are mutated  *)
(* forms used to test the properties.  Reasons, the history list and audit   *)
(* records are left out.                                                     *)
(***************************************************************************)
EXTENDS Rbac

CONSTANTS
    Processes,    \* processes sharing the data directory
    Threads,      \* the threads of all of them
    ProcessOf,    \* the process each thread belongs to
    CallRoles,    \* the roles callers pass, Trusted for role=None
    Trusted,
    GuardedBands, \* the bands that are halted and called
    Failures,     \* may processes crash and writes fail?
    Free          \* an unlocked lock

Scopes == {"global"} \cup GuardedBands

ASSUME ProcessAssumption == ProcessOf \in [Threads -> Processes]
ASSUME RolesAssumption == CallRoles \subseteq Roles \cup {Trusted}
ASSUME TrustedAssumption == Trusted \notin Roles
ASSUME BandsAssumption == GuardedBands \subseteq Bands
ASSUME FailuresAssumption == Failures \in BOOLEAN
ASSUME FreeAssumption == Free \notin Threads

VARIABLES
    disk,     \* contents of killswitch.json and of killswitch.json.tmp
    lock,     \* _lock of each process's KillSwitch: a thread, or Free
    guarded,  \* is the process's registry guarded?
    call,     \* what each thread is doing
    halted

vars == <<disk, lock, guarded, call, halted>>

\* A state document: the engaged flags.  A band it does not list is released.
State == [Scopes -> BOOLEAN]

\* A file that does not exist, an empty one, and one that is not valid JSON.
Missing == [file |-> "missing"]
Empty == [file |-> "empty"]
Torn == [file |-> "torn"]
Unreadable == {Empty, Torn}
Contents == State \cup {Missing} \cup Unreadable

default_state == [s \in Scopes |-> FALSE]

\* Bug: an unreadable file is taken for an empty one.
Bug_fail_closed == default_state

fail_closed == [s \in Scopes |-> s = "global"]

\* What a reader of the state file makes of it.
_load ==
    IF disk.main = Missing THEN default_state
    ELSE IF disk.main \in Unreadable THEN fail_closed
    ELSE disk.main

\* Bug: the band's own flag is not looked at.
Bug_blocks(state, band) == state["global"]

blocks(state, band) == state["global"] \/ state[band]

authorise(role, op) ==
    \/ role = Trusted
    \/ can(role, IF op = "engage" THEN "killswitch_engage"
                 ELSE "killswitch_release")

Ops == {"engage", "release"}

Idle == [pc |-> "idle"]

\* engage/release: waiting (for the lock), loaded, opened, filled.
Saving == [pc : {"waiting", "loaded", "opened", "filled"}, op : Ops,
           scope : Scopes, state : State, file : {"none", "tmp", "main", "gone"}]

\* guarded_call: entered, running.  due: the call was made while its band was
\* halted, and the halt has not been released since.
Calling == [pc : {"entered", "running"}, band : GuardedBands, due : BOOLEAN]

At(t, point) == call[t].pc = point
Return(t) == call' = [call EXCEPT ![t] = Idle]
Unlock(t) == lock' = [lock EXCEPT ![ProcessOf[t]] = Free]
Leave(t) == Return(t) /\ Unlock(t)

-----------------------------------------------------------------------------
(* engage and release *)

\* A refused request changes nothing.
Request(t, op, scope, role) ==
    /\ call[t] = Idle
    /\ authorise(role, op)
    /\ call' = [call EXCEPT ![t] =
           [pc |-> "waiting", op |-> op, scope |-> scope,
            state |-> default_state, file |-> "none"]]
    /\ UNCHANGED <<disk, lock, guarded, halted>>

\* Bug: the lock is not waited for.
Bug_Available(p) == TRUE

Available(p) == lock[p] = Free

\* Take the lock, load the state and set the scope's flag in it.
Load(t) ==
    /\ At(t, "waiting")
    /\ Available(ProcessOf[t])
    /\ lock' = [lock EXCEPT ![ProcessOf[t]] = t]
    /\ call' = [call EXCEPT ![t].pc = "loaded", ![t].state =
           [_load EXCEPT ![call[t].scope] = (call[t].op = "engage")]]
    /\ UNCHANGED <<disk, guarded, halted>>

target == "tmp"

\* Writing to a file that has been replaced since it was opened is lost.
Written(file, content) ==
    IF file = "gone" THEN disk ELSE [disk EXCEPT ![file] = content]

\* write_text: open the temporary file, which empties it,
OpenTmp(t) ==
    /\ At(t, "loaded")
    /\ disk' = [disk EXCEPT ![target] = Empty]
    /\ call' = [call EXCEPT ![t].pc = "opened", ![t].file = target]
    /\ UNCHANGED <<lock, guarded, halted>>

\* and write the document.  Over what another writer has put there meanwhile
\* the outcome depends on which document is longer.
FillTmp(t) ==
    LET file == call[t].file IN
    /\ At(t, "opened")
    /\ \/ disk' = Written(file, call[t].state)
       \/ /\ file # "gone"
          /\ disk[file] # Empty
          /\ disk' = Written(file, Torn)
    /\ call' = [call EXCEPT ![t].pc = "filled"]
    /\ UNCHANGED <<lock, guarded, halted>>

\* The temporary file cannot be opened, or the disk is full and a part of the
\* document is written: the exception leaves engage, and the with statement
\* releases the lock.
WriteFails(t) ==
    /\ Failures
    /\ \/ At(t, "loaded") /\ UNCHANGED disk
       \/ /\ At(t, "opened")
          /\ disk' \in {disk, Written(call[t].file, Torn)}
    /\ Leave(t)
    /\ UNCHANGED <<guarded, halted>>

\* Which name a file open elsewhere has once the temporary file has replaced
\* the state file.
Renamed(file) ==
    IF file = "tmp" THEN "main" ELSE IF file = "main" THEN "gone" ELSE file

Covers(scope, band) == scope \in {"global", band}

\* Another thread's view of the completed operation o of t: its open file may
\* have changed names, and a pending call is no longer due for refusal when a
\* flag that covers it was released.
Told(t, u) ==
    IF u = t THEN Idle
    ELSE IF call[u].pc \in {"opened", "filled"}
         THEN [call[u] EXCEPT !.file = Renamed(@)]
    ELSE IF call[u].pc = "entered" /\ call[t].op = "release"
                                   /\ Covers(call[t].scope, call[u].band)
         THEN [call[u] EXCEPT !.due = FALSE]
    ELSE call[u]

\* os.replace: the operation takes effect.
Replace(t) ==
    /\ At(t, "filled")
    /\ disk.tmp # Missing
    /\ disk' = [main |-> disk.tmp, tmp |-> Missing]
    /\ call' = [u \in Threads |-> Told(t, u)]
    /\ halted' = IF call[t].op = "engage" THEN halted \cup {call[t].scope}
                 ELSE halted \ {call[t].scope}
    /\ Unlock(t)
    /\ UNCHANGED guarded

\* Another process has renamed the temporary file: FileNotFoundError.
ReplaceFails(t) ==
    /\ At(t, "filled")
    /\ disk.tmp = Missing
    /\ Leave(t)
    /\ UNCHANGED <<disk, guarded, halted>>

-----------------------------------------------------------------------------
(* The guard around registry.call *)

guard(p) ==
    /\ ~guarded[p]
    /\ guarded' = [guarded EXCEPT ![p] = TRUE]
    /\ UNCHANGED <<disk, lock, call, halted>>

unguard(p) ==
    /\ guarded[p]
    /\ guarded' = [guarded EXCEPT ![p] = FALSE]
    /\ UNCHANGED <<disk, lock, call, halted>>

\* A call of a registered tool of the band, through the guard.
CallTool(t, band) ==
    /\ call[t] = Idle
    /\ guarded[ProcessOf[t]]
    /\ call' = [call EXCEPT ![t] = [pc |-> "entered", band |-> band,
           due |-> \E s \in halted : Covers(s, band)]]
    /\ UNCHANGED <<disk, lock, guarded, halted>>

Refuse(t) ==
    /\ At(t, "entered")
    /\ blocks(_load, call[t].band)
    /\ Return(t)
    /\ UNCHANGED <<disk, lock, guarded, halted>>

Dispatch(t) ==
    /\ At(t, "entered")
    /\ ~blocks(_load, call[t].band)
    /\ call' = [call EXCEPT ![t].pc = "running"]
    /\ UNCHANGED <<disk, lock, guarded, halted>>

Complete(t) ==
    /\ At(t, "running")
    /\ Return(t)
    /\ UNCHANGED <<disk, lock, guarded, halted>>

\* A process dies and starts again: its locks and calls are gone, and it has
\* guarded its registry before it serves calls.
Crash(p) ==
    /\ Failures
    /\ call' = [t \in Threads |-> IF ProcessOf[t] = p THEN Idle ELSE call[t]]
    /\ lock' = [lock EXCEPT ![p] = Free]
    /\ guarded' = [guarded EXCEPT ![p] = TRUE]
    /\ UNCHANGED <<disk, halted>>

-----------------------------------------------------------------------------
(* The specification *)

Init ==
    /\ disk = [main |-> Missing, tmp |-> Missing]
    /\ lock = [p \in Processes |-> Free]
    /\ guarded = [p \in Processes |-> TRUE]
    /\ call = [t \in Threads |-> Idle]
    /\ halted = {}

Step(t) ==
    \/ Load(t)
    \/ OpenTmp(t)
    \/ FillTmp(t)
    \/ WriteFails(t)
    \/ Replace(t)
    \/ ReplaceFails(t)
    \/ Refuse(t)
    \/ Dispatch(t)
    \/ Complete(t)

Next ==
    \/ \E t \in Threads :
           \/ \E op \in Ops, scope \in Scopes, role \in CallRoles :
                  Request(t, op, scope, role)
           \/ \E band \in GuardedBands : CallTool(t, band)
           \/ Step(t)
    \/ \E p \in Processes : guard(p) \/ unguard(p) \/ Crash(p)

Spec == Init /\ [][Next]_vars

-----------------------------------------------------------------------------
(* Properties *)

\* Files, locks and calls have their types; a writer has a file open.
TypeOK ==
    /\ disk \in [main : Contents, tmp : Contents]
    /\ lock \in [Processes -> Threads \cup {Free}]
    /\ guarded \in [Processes -> BOOLEAN]
    /\ call \in [Threads -> Saving \cup Calling \cup {Idle}]
    /\ halted \subseteq Scopes
    /\ \A t \in Threads :
           call[t].pc \in {"opened", "filled"} => call[t].file # "none"

\* "Atomically persist the state file" (_save): whatever crashes or fails, a
\* reader never meets a half-written state file.
FileIsWhole == disk.main \notin Unreadable

\* "State ... survives process restarts and is shared by every process"
\* (module docstring): a scope that was engaged stays engaged in the file
\* until a release of that very scope, and one that is not engaged was never
\* asked to be or was released.
HaltsHold == \A s \in Scopes : _load[s] <=> s \in halted

\* "An engage takes effect in every guarded registry immediately": a guarded
\* call made when its band was halted, globally or by itself, does not run
\* unless the halt was released before the guard looked.
HaltedCallsDoNotRun == \A t \in Threads : At(t, "running") => ~call[t].due

=============================================================================
