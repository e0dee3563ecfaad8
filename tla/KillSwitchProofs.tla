---------------------------- MODULE KillSwitchProofs ----------------------------
(***************************************************************************)
(* Proofs about KillSwitch with the history of MCKillSwitch, for any number *)
(* of processes, threads, bands and failures: until writers of two          *)
(* processes overlap, the flags in the file are those of the completed      *)
(* requests, and no call runs whose band was halted when it was made.       *)
(***************************************************************************)
EXTENDS MCKillSwitch, FiniteSetTheorems, TLAPS

Writing(t) == call[t].pc \in {"loaded", "opened", "filled"}

\* A writer holds the lock of its process.
LockOK == \A t \in Threads : Writing(t) => lock[ProcessOf[t]] = t

OneProcess ==
    \A t, u \in Threads : Writing(t) /\ Writing(u) => ProcessOf[t] = ProcessOf[u]

\* What a writer is about to put in place is the state in force with its
\* scope's flag set or cleared; its open file is the temporary one.
Draft(t) ==
    Writing(t) =>
        /\ call[t].state = [_load EXCEPT ![call[t].scope] = (call[t].op = "engage")]
        /\ At(t, "opened") => call[t].file = "tmp" /\ disk.tmp = Empty
        /\ At(t, "filled") => call[t].file = "tmp" /\ disk.tmp = call[t].state

\* A call that is due for refusal will meet a halt that covers its band.
Met(t) ==
    /\ At(t, "entered") /\ call[t].due => \E s \in halted : Covers(s, call[t].band)
    /\ At(t, "running") => ~call[t].due

Undisturbed == FileIsWhole /\ HaltsHold /\ \A t \in Threads : Draft(t) /\ Met(t)

IInv == TypeOK /\ LockOK /\ (raced \/ (OneProcess /\ Undisturbed))

--------------------------------------------------------------------------------
(* Documents and calls *)

LEMMA LoadedIsState == TypeOK => _load \in State
  BY DEF TypeOK, Contents, Unreadable, _load, State, default_state, fail_closed

LEMMA StateIsReadable ==
    ASSUME NEW s \in State
    PROVE  s # Missing /\ s \notin Unreadable
<1>1. "global" \in DOMAIN s
  BY DEF State, Scopes
<1>2. QED BY <1>1 DEF Missing, Unreadable, Empty, Torn

LEMMA SameMain ==
    ASSUME disk'.main = disk.main
    PROVE  _load' = _load
  BY DEF _load

\* What a call at some point holds.
LEMMA CallTypes ==
    ASSUME TypeOK, NEW t \in Threads
    PROVE  /\ call[t].pc \in {"waiting", "loaded", "opened", "filled"} => call[t] \in Saving
           /\ call[t].pc \in {"entered", "running"} => call[t] \in Calling
           /\ ProcessOf[t] \in Processes
  BY ProcessAssumption DEF TypeOK, Saving, Calling, Idle

LEMMA OnlyWriter ==
    ASSUME LockOK, OneProcess, NEW t \in Threads, NEW u \in Threads, Writing(t), Writing(u)
    PROVE  t = u
  BY DEF LockOK, OneProcess

--------------------------------------------------------------------------------
(* Types *)

LEMMA InitTypeOK == Init => TypeOK
  BY DEF Init, TypeOK, Contents, Idle

LEMMA NextTypeOK == TypeOK /\ [Next]_vars => TypeOK'
<1> SUFFICES ASSUME TypeOK, [Next]_vars PROVE TypeOK'
  OBVIOUS
<1> USE DEF TypeOK
<1>1. ASSUME NEW t \in Threads, NEW op \in Ops, NEW scope \in Scopes, NEW role \in CallRoles,
             Request(t, op, scope, role)
      PROVE  TypeOK'
  <2>1. default_state \in State
    BY DEF default_state, State
  <2>2. [pc |-> "waiting", op |-> op, scope |-> scope, state |-> default_state, file |-> "none"]
          \in Saving
    BY <2>1 DEF Saving
  <2>3. QED BY <1>1, <2>2 DEF Request
<1>2. ASSUME NEW t \in Threads, NEW band \in GuardedBands, CallTool(t, band)
      PROVE  TypeOK'
  <2>1. (\E s \in halted : Covers(s, band)) \in BOOLEAN
    OBVIOUS
  <2>2. [pc |-> "entered", band |-> band, due |-> \E s \in halted : Covers(s, band)] \in Calling
    BY <2>1 DEF Calling
  <2>3. QED BY <1>2, <2>2 DEF CallTool
<1>3. ASSUME NEW t \in Threads, Load(t)
      PROVE  TypeOK'
  <2>1. call[t] \in Saving /\ ProcessOf[t] \in Processes
    BY <1>3, CallTypes DEF Load, At
  <2>2. PICK s \in State : call' = [call EXCEPT ![t].pc = "loaded", ![t].state = s]
    <3>1. [_load EXCEPT ![call[t].scope] = (call[t].op = "engage")] \in State
      BY <2>1, LoadedIsState DEF State, Saving
    <3>2. QED BY <1>3, <3>1 DEF Load
  <2>3. [call[t] EXCEPT !.pc = "loaded", !.state = s] \in Saving
    BY <2>1 DEF Saving
  <2>4. call' = [call EXCEPT ![t] = [call[t] EXCEPT !.pc = "loaded", !.state = s]]
    BY <2>2
  <2>5. /\ call' \in [Threads -> Saving \cup Calling \cup {Idle}]
        /\ \A u \in Threads : call'[u].pc \in {"opened", "filled"} => call'[u].file # "none"
    <3>1. [call[t] EXCEPT !.pc = "loaded", !.state = s].pc = "loaded"
      BY <2>1 DEF Saving
    <3>2. QED BY <2>3, <2>4, <3>1
  <2>6. lock' \in [Processes -> Threads \cup {Free}]
    BY <1>3, <2>1 DEF Load
  <2>7. QED BY <1>3, <2>5, <2>6 DEF Load
<1>4. ASSUME NEW t \in Threads, OpenTmp(t)
      PROVE  TypeOK'
  <2>1. call[t] \in Saving
    BY <1>4, CallTypes DEF OpenTmp, At
  <2>2. [call[t] EXCEPT !.pc = "opened", !.file = "tmp"] \in Saving
    BY <2>1 DEF Saving
  <2>3. call' = [call EXCEPT ![t] = [call[t] EXCEPT !.pc = "opened", !.file = "tmp"]]
    BY <1>4 DEF OpenTmp, target
  <2>4. disk' \in [main : Contents, tmp : Contents]
    BY <1>4 DEF OpenTmp, target, Contents, Unreadable
  <2>5. /\ call' \in [Threads -> Saving \cup Calling \cup {Idle}]
        /\ \A u \in Threads : call'[u].pc \in {"opened", "filled"} => call'[u].file # "none"
    <3>1. [call[t] EXCEPT !.pc = "opened", !.file = "tmp"].file = "tmp"
      BY <2>1 DEF Saving
    <3>2. QED BY <2>2, <2>3, <3>1
  <2>6. QED BY <1>4, <2>4, <2>5 DEF OpenTmp
<1>5. ASSUME NEW t \in Threads, FillTmp(t)
      PROVE  TypeOK'
  <2>1. call[t] \in Saving /\ call[t].file # "none"
    BY <1>5, CallTypes DEF FillTmp, At
  <2>2. [call[t] EXCEPT !.pc = "filled"] \in Saving
    BY <2>1 DEF Saving
  <2>3. call' = [call EXCEPT ![t] = [call[t] EXCEPT !.pc = "filled"]]
    BY <1>5 DEF FillTmp
  <2>4. \A c \in Contents : Written(call[t].file, c) \in [main : Contents, tmp : Contents]
    BY <2>1 DEF Written, Saving
  <2>5. call[t].state \in Contents /\ Torn \in Contents
    BY <2>1 DEF Saving, Contents, Unreadable
  <2>6. disk' \in [main : Contents, tmp : Contents]
    BY <1>5, <2>4, <2>5 DEF FillTmp
  <2>7. /\ call' \in [Threads -> Saving \cup Calling \cup {Idle}]
        /\ \A u \in Threads : call'[u].pc \in {"opened", "filled"} => call'[u].file # "none"
    <3>1. [call[t] EXCEPT !.pc = "filled"].file = call[t].file
      BY <2>1 DEF Saving
    <3>2. QED BY <2>1, <2>2, <2>3, <3>1
  <2>8. QED BY <1>5, <2>6, <2>7 DEF FillTmp
<1>6. ASSUME NEW t \in Threads, WriteFails(t)
      PROVE  TypeOK'
  <2>1. call[t] \in Saving /\ ProcessOf[t] \in Processes
    BY <1>6, CallTypes DEF WriteFails, At
  <2>2. disk' \in [main : Contents, tmp : Contents]
    <3>1. CASE At(t, "loaded")
      BY <1>6, <3>1 DEF WriteFails, At
    <3>2. CASE At(t, "opened")
      <4>1. call[t].file \in {"tmp", "main", "gone"} /\ Torn \in Contents
        BY <2>1, <3>2 DEF At, Saving, Contents, Unreadable
      <4>2. Written(call[t].file, Torn) \in [main : Contents, tmp : Contents]
        BY <4>1 DEF Written
      <4>3. QED BY <1>6, <3>2, <4>2 DEF WriteFails, At
    <3>3. QED BY <1>6, <3>1, <3>2 DEF WriteFails
  <2>3. QED BY <1>6, <2>1, <2>2 DEF WriteFails, Leave, Return, Unlock, Idle
<1>7. ASSUME NEW t \in Threads, Replace(t)
      PROVE  TypeOK'
  <2>1. call[t] \in Saving /\ ProcessOf[t] \in Processes
    BY <1>7, CallTypes DEF Replace, At
  <2>2. ASSUME NEW u \in Threads
        PROVE  /\ Told(t, u) \in Saving \cup Calling \cup {Idle}
               /\ Told(t, u).pc \in {"opened", "filled"} => Told(t, u).file # "none"
    <3>1. CASE u # t /\ call[u].pc \in {"opened", "filled"}
      <4>1. call[u] \in Saving /\ call[u].file # "none"
        BY <3>1, CallTypes
      <4>2. /\ Renamed(call[u].file) \in {"none", "tmp", "main", "gone"}
            /\ Renamed(call[u].file) # "none"
        BY <4>1 DEF Renamed, Saving
      <4>3. Told(t, u) = [call[u] EXCEPT !.file = Renamed(call[u].file)]
        BY <3>1 DEF Told
      <4>4. QED BY <4>1, <4>2, <4>3 DEF Saving
    <3>2. CASE /\ u # t /\ call[u].pc = "entered"
               /\ call[t].op = "release" /\ Covers(call[t].scope, call[u].band)
      <4>1. call[u] \in Calling
        BY <3>2, CallTypes
      <4>2. Told(t, u) = [call[u] EXCEPT !.due = FALSE]
        BY <3>2 DEF Told
      <4>3. Told(t, u) \in Calling /\ Told(t, u).pc = "entered"
        BY <3>2, <4>1, <4>2 DEF Calling
      <4>4. QED BY <4>3
    <3>3. CASE u = t \/ Told(t, u) = call[u]
      BY <3>3 DEF Told, Idle
    <3>4. QED BY <3>1, <3>2, <3>3 DEF Told
  <2>3. halted' \subseteq Scopes
    BY <1>7, <2>1 DEF Replace, Saving
  <2>4. disk' \in [main : Contents, tmp : Contents]
    BY <1>7 DEF Replace, Contents
  <2>5. QED BY <1>7, <2>1, <2>2, <2>3, <2>4 DEF Replace, Unlock
<1>8. ASSUME NEW t \in Threads, ReplaceFails(t)
      PROVE  TypeOK'
  <2>1. ProcessOf[t] \in Processes
    BY CallTypes
  <2>2. QED BY <1>8, <2>1 DEF ReplaceFails, Leave, Return, Unlock, Idle
<1>9. ASSUME NEW t \in Threads, Refuse(t) \/ Complete(t)
      PROVE  TypeOK'
  BY <1>9 DEF Refuse, Complete, Return, Idle
<1>10. ASSUME NEW t \in Threads, Dispatch(t)
       PROVE  TypeOK'
  <2>1. call[t] \in Calling
    BY <1>10, CallTypes DEF Dispatch, At
  <2>2. [call[t] EXCEPT !.pc = "running"] \in Calling
    BY <2>1 DEF Calling
  <2>3. call' = [call EXCEPT ![t] = [call[t] EXCEPT !.pc = "running"]]
    BY <1>10 DEF Dispatch
  <2>4. QED BY <1>10, <2>1, <2>2, <2>3 DEF Dispatch, Calling
<1>11. ASSUME NEW p \in Processes, guard(p) \/ unguard(p) \/ Crash(p)
       PROVE  TypeOK'
  <2>1. CASE guard(p) \/ unguard(p)
    BY <2>1 DEF guard, unguard
  <2>2. CASE Crash(p)
    <3>1. /\ call' \in [Threads -> Saving \cup Calling \cup {Idle}]
          /\ \A t \in Threads : call'[t].pc \in {"opened", "filled"} => call'[t].file # "none"
      BY <2>2 DEF Crash, Idle
    <3>2. QED BY <2>2, <3>1 DEF Crash
  <2>3. QED BY <1>11, <2>1, <2>2
<1>12. CASE UNCHANGED vars
  BY <1>12 DEF vars
<1>13. QED BY <1>1, <1>2, <1>3, <1>4, <1>5, <1>6, <1>7, <1>8, <1>9, <1>10, <1>11, <1>12
           DEF Next, Step

--------------------------------------------------------------------------------
(* The lock *)

LEMMA InitLockOK == Init => LockOK
  BY DEF Init, LockOK, Writing, Idle

\* A thread that holds its process's lock leaves and unlocks.
LEMMA LeaverUnlocks ==
    ASSUME TypeOK, LockOK, NEW t \in Threads, Writing(t), Unlock(t),
           \A u \in Threads : call'[u].pc = IF u = t THEN "idle" ELSE call[u].pc
    PROVE  LockOK'
<1> SUFFICES ASSUME NEW u \in Threads, Writing(u)' PROVE lock'[ProcessOf[u]] = u
  BY DEF LockOK
<1>1. u # t /\ Writing(u)
  BY DEF Writing
<1>2. ProcessOf[u] # ProcessOf[t]
  BY <1>1 DEF LockOK
<1>3. QED BY <1>1, <1>2, CallTypes DEF LockOK, Unlock, TypeOK

LEMMA NextLockOK == TypeOK /\ LockOK /\ [Next]_vars => LockOK'
<1> SUFFICES ASSUME TypeOK, LockOK, [Next]_vars PROVE LockOK'
  OBVIOUS
<1>1. ASSUME NEW t \in Threads, UNCHANGED lock,
             \A u \in Threads \ {t} : call'[u] = call[u],
             Writing(t)' => Writing(t)
      PROVE  LockOK'
  BY <1>1 DEF LockOK, Writing
<1>2. ASSUME NEW t \in Threads, NEW op \in Ops, NEW scope \in Scopes, NEW role \in CallRoles,
             Request(t, op, scope, role)
      PROVE  LockOK'
  BY <1>1, <1>2 DEF Request, Writing, TypeOK
<1>3. ASSUME NEW t \in Threads, NEW band \in GuardedBands, CallTool(t, band)
      PROVE  LockOK'
  BY <1>1, <1>3 DEF CallTool, Writing, TypeOK
<1>4. ASSUME NEW t \in Threads, Load(t)
      PROVE  LockOK'
  <2>1. SUFFICES ASSUME NEW u \in Threads, Writing(u)' PROVE lock'[ProcessOf[u]] = u
    BY DEF LockOK
  <2>2. CASE u = t
    BY <1>4, <2>2, CallTypes DEF Load, TypeOK
  <2>3. CASE u # t
    <3>1. Writing(u)
      BY <1>4, <2>1, <2>3 DEF Load, Writing, TypeOK
    <3>2. ProcessOf[u] # ProcessOf[t]
      BY <1>4, <3>1, FreeAssumption DEF Load, Available, LockOK
    <3>3. QED BY <1>4, <3>1, <3>2, CallTypes DEF Load, LockOK, TypeOK
  <2>4. QED BY <2>2, <2>3
<1>5. ASSUME NEW t \in Threads, OpenTmp(t) \/ FillTmp(t)
      PROVE  LockOK'
  <2>1. Writing(t) /\ UNCHANGED lock
    BY <1>5 DEF OpenTmp, FillTmp, At, Writing
  <2>2. \A u \in Threads \ {t} : call'[u] = call[u]
    BY <1>5 DEF OpenTmp, FillTmp, TypeOK
  <2>3. QED BY <1>1, <2>1, <2>2
<1>6. ASSUME NEW t \in Threads, WriteFails(t) \/ ReplaceFails(t)
      PROVE  LockOK'
  <2>1. Writing(t) /\ Unlock(t)
    BY <1>6 DEF WriteFails, ReplaceFails, Leave, At, Writing
  <2>2. \A u \in Threads : call'[u].pc = IF u = t THEN "idle" ELSE call[u].pc
    BY <1>6 DEF WriteFails, ReplaceFails, Leave, Return, Idle, TypeOK
  <2>3. QED BY <2>1, <2>2, LeaverUnlocks
<1>7. ASSUME NEW t \in Threads, Replace(t)
      PROVE  LockOK'
  <2>1. Writing(t) /\ Unlock(t)
    BY <1>7 DEF Replace, At, Writing
  <2>2. ASSUME NEW u \in Threads
        PROVE  Told(t, u).pc = IF u = t THEN "idle" ELSE call[u].pc
    <3>1. /\ call[u].pc \in {"opened", "filled"} => call[u] \in Saving
          /\ call[u].pc = "entered" => call[u] \in Calling
      BY CallTypes
    <3>2. QED BY <3>1 DEF Told, Idle, Saving, Calling
  <2>3. \A u \in Threads : call'[u].pc = IF u = t THEN "idle" ELSE call[u].pc
    BY <1>7, <2>2 DEF Replace
  <2>4. QED BY <2>1, <2>3, LeaverUnlocks
<1>8. ASSUME NEW t \in Threads, Refuse(t) \/ Complete(t) \/ Dispatch(t)
      PROVE  LockOK'
  <2>1. UNCHANGED lock /\ \A u \in Threads \ {t} : call'[u] = call[u]
    BY <1>8 DEF Refuse, Complete, Dispatch, Return, TypeOK
  <2>2. ~Writing(t)'
    <3>1. CASE Refuse(t) \/ Complete(t)
      BY <3>1 DEF Refuse, Complete, Return, Writing, Idle, TypeOK
    <3>2. CASE Dispatch(t)
      BY <3>2, CallTypes DEF Dispatch, At, Writing, TypeOK, Calling
    <3>3. QED BY <1>8, <3>1, <3>2
  <2>3. QED BY <1>1, <2>1, <2>2
<1>9. ASSUME NEW p \in Processes, Crash(p)
      PROVE  LockOK'
  <2>1. SUFFICES ASSUME NEW u \in Threads, Writing(u)' PROVE lock'[ProcessOf[u]] = u
    BY DEF LockOK
  <2>2. ProcessOf[u] # p /\ Writing(u)
    BY <1>9, <2>1 DEF Crash, Writing, Idle
  <2>3. QED BY <1>9, <2>2, CallTypes DEF Crash, LockOK, TypeOK
<1>10. CASE (\E p \in Processes : guard(p) \/ unguard(p)) \/ UNCHANGED vars
  BY <1>10 DEF guard, unguard, vars, LockOK, Writing
<1>11. QED BY <1>2, <1>3, <1>4, <1>5, <1>6, <1>7, <1>8, <1>9, <1>10 DEF Next, Step

--------------------------------------------------------------------------------
(* The flags and the calls, while the writers are those of one process *)

LEMMA InitUndisturbed == Init => OneProcess /\ Undisturbed
<1> SUFFICES ASSUME Init PROVE OneProcess /\ Undisturbed
  OBVIOUS
<1>1. OneProcess /\ \A t \in Threads : Draft(t) /\ Met(t)
  BY DEF Init, OneProcess, Writing, Draft, Met, At, Idle
<1>2. FileIsWhole
  BY DEF Init, FileIsWhole, Missing, Unreadable, Empty, Torn
<1>3. HaltsHold
  BY DEF Init, HaltsHold, _load, default_state
<1>4. QED BY <1>1, <1>2, <1>3 DEF Undisturbed

\* A step of one thread that leaves the state file as it is, and the temporary
\* file too if somebody else is writing.
LEMMA OneThreadSteps ==
    ASSUME Undisturbed, NEW t \in Threads, UNCHANGED halted, disk'.main = disk.main,
           \A u \in Threads \ {t} : call'[u] = call[u],
           disk'.tmp = disk.tmp \/ \A u \in Threads \ {t} : ~Writing(u),
           Draft(t)', Met(t)'
    PROVE  Undisturbed'
<1>1. _load' = _load
  BY SameMain
<1>2. ASSUME NEW u \in Threads \ {t} PROVE Draft(u)' /\ Met(u)'
  <2>1. Draft(u) /\ Met(u) /\ call'[u] = call[u]
    BY DEF Undisturbed
  <2>2. QED BY <1>1, <2>1 DEF Draft, Met, At, Writing
<1>3. FileIsWhole' /\ HaltsHold'
  BY <1>1 DEF Undisturbed, FileIsWhole, HaltsHold
<1>4. QED BY <1>2, <1>3 DEF Undisturbed

\* Becoming idle is always in order.
LEMMA IdleIsQuiet ==
    ASSUME NEW t \in Threads, call'[t] = Idle
    PROVE  Draft(t)' /\ Met(t)'
  BY DEF Draft, Met, Writing, At, Idle

\* The document a writer has put in place is the state in force from then on.
LEMMA ReplaceTakesEffect ==
    ASSUME TypeOK, Undisturbed, NEW t \in Threads, Replace(t)
    PROVE  FileIsWhole' /\ HaltsHold'
<1>1. call[t] \in Saving /\ Writing(t) /\ Draft(t) /\ _load \in State
  BY CallTypes, LoadedIsState DEF Replace, At, Writing, Undisturbed
<1>2. /\ disk'.main = call[t].state
      /\ call[t].state = [_load EXCEPT ![call[t].scope] = (call[t].op = "engage")]
  BY <1>1 DEF Replace, Draft
<1>3. call[t].state \in State /\ call[t].scope \in Scopes
  BY <1>1 DEF Saving
<1>4. FileIsWhole'
  BY <1>2, <1>3, StateIsReadable DEF FileIsWhole
<1>5. _load' = call[t].state
  BY <1>2, <1>3, StateIsReadable DEF _load
<1>6. ASSUME NEW s \in Scopes PROVE _load'[s] <=> s \in halted'
  <2>1. _load'[s] = IF s = call[t].scope THEN call[t].op = "engage" ELSE _load[s]
    BY <1>1, <1>2, <1>5 DEF State
  <2>2. _load[s] <=> s \in halted
    BY DEF Undisturbed, HaltsHold
  <2>3. halted' = IF call[t].op = "engage" THEN halted \cup {call[t].scope}
                  ELSE halted \ {call[t].scope}
    BY DEF Replace
  <2>4. CASE call[t].op = "engage"
    BY <2>1, <2>2, <2>3, <2>4
  <2>5. CASE call[t].op # "engage"
    BY <2>1, <2>2, <2>3, <2>5
  <2>6. QED BY <2>4, <2>5
<1>7. QED BY <1>4, <1>6 DEF HaltsHold

\* A release clears the debt of the calls it covers, and no others lose the
\* halt they will meet.
LEMMA ReplaceTellsCalls ==
    ASSUME TypeOK, NEW t \in Threads, Replace(t), NEW u \in Threads, Met(u)
    PROVE  Met(u)'
<1>1. call[t] \in Saving /\ call'[u] = Told(t, u) /\ Met(u)
  BY CallTypes DEF Replace, At
<1>2. CASE u = t
  BY <1>1, <1>2 DEF Told, Met, At, Idle
<1>3. CASE u # t /\ call[u].pc \in {"opened", "filled"}
  <2>1. call[u] \in Saving
    BY <1>3, CallTypes
  <2>2. call'[u].pc = call[u].pc
    BY <1>1, <1>3, <2>1 DEF Told, Saving
  <2>3. QED BY <1>3, <2>2 DEF Met, At
<1>4. CASE u # t /\ call[u].pc = "entered" /\ call[t].op = "release"
                 /\ Covers(call[t].scope, call[u].band)
  <2>1. call[u] \in Calling
    BY <1>4, CallTypes
  <2>2. call'[u] = [call[u] EXCEPT !.due = FALSE]
    BY <1>1, <1>4 DEF Told
  <2>3. call'[u].pc = "entered" /\ call'[u].due = FALSE
    BY <1>4, <2>1, <2>2 DEF Calling
  <2>4. QED BY <2>3 DEF Met, At
<1>5. CASE /\ u # t /\ call[u].pc \notin {"opened", "filled"}
           /\ ~(call[u].pc = "entered" /\ call[t].op = "release"
                  /\ Covers(call[t].scope, call[u].band))
  <2>1. call'[u] = call[u]
    BY <1>1, <1>5 DEF Told
  <2>2. At(u, "running") => ~call[u].due
    BY <1>1 DEF Met
  <2>3. ASSUME At(u, "entered"), call[u].due
        PROVE  \E s \in halted' : Covers(s, call[u].band)
    <3>1. PICK s \in halted : Covers(s, call[u].band)
      BY <1>1, <2>3 DEF Met
    <3>2. s \in halted'
      <4>1. CASE call[t].op = "engage"
        BY <4>1 DEF Replace
      <4>2. CASE call[t].op # "engage"
        <5>1. call[t].op = "release"
          BY <1>1, <4>2 DEF Saving, Ops
        <5>2. s # call[t].scope
          BY <1>5, <2>3, <3>1, <5>1 DEF At
        <5>3. QED BY <4>2, <5>2 DEF Replace
      <4>3. QED BY <4>1, <4>2
    <3>3. QED BY <3>1, <3>2
  <2>4. QED BY <2>1, <2>2, <2>3 DEF Met, At
<1>6. QED BY <1>2, <1>3, <1>4, <1>5

LEMMA NextUndisturbed ==
    ASSUME TypeOK, LockOK, OneProcess, OneProcess', Undisturbed, [Next]_vars
    PROVE  Undisturbed'
<1>1. ASSUME NEW t \in Threads, NEW op \in Ops, NEW scope \in Scopes, NEW role \in CallRoles,
             Request(t, op, scope, role)
      PROVE  Undisturbed'
  <2>1. call'[t].pc = "waiting" /\ \A u \in Threads \ {t} : call'[u] = call[u]
    BY <1>1 DEF Request, TypeOK
  <2>2. Draft(t)' /\ Met(t)'
    BY <2>1 DEF Draft, Met, Writing, At
  <2>3. QED BY <1>1, <2>1, <2>2, OneThreadSteps DEF Request
<1>2. ASSUME NEW t \in Threads, NEW band \in GuardedBands, CallTool(t, band)
      PROVE  Undisturbed'
  <2>1. /\ call'[t].pc = "entered" /\ call'[t].band = band
        /\ call'[t].due <=> \E s \in halted : Covers(s, band)
        /\ \A u \in Threads \ {t} : call'[u] = call[u]
        /\ UNCHANGED halted
    BY <1>2 DEF CallTool, TypeOK
  <2>2. Draft(t)' /\ Met(t)'
    BY <2>1 DEF Draft, Met, Writing, At
  <2>3. QED BY <1>2, <2>1, <2>2, OneThreadSteps DEF CallTool
<1>3. ASSUME NEW t \in Threads, Load(t)
      PROVE  Undisturbed'
  <2>1. call[t] \in Saving
    BY <1>3, CallTypes DEF Load, At
  <2>2. /\ call'[t].pc = "loaded" /\ call'[t].scope = call[t].scope
        /\ call'[t].op = call[t].op
        /\ call'[t].state = [_load EXCEPT ![call[t].scope] = (call[t].op = "engage")]
        /\ \A u \in Threads \ {t} : call'[u] = call[u]
    BY <1>3, <2>1 DEF Load, TypeOK, Saving
  <2>3. _load' = _load
    BY <1>3, SameMain DEF Load
  <2>4. Draft(t)' /\ Met(t)'
    BY <2>2, <2>3 DEF Draft, Met, At
  <2>5. QED BY <1>3, <2>2, <2>4, OneThreadSteps DEF Load
<1>4. ASSUME NEW t \in Threads, Writing(t)
      PROVE  \A u \in Threads \ {t} : ~Writing(u)
  BY <1>4, OnlyWriter
<1>5. ASSUME NEW t \in Threads, OpenTmp(t)
      PROVE  Undisturbed'
  <2>1. call[t] \in Saving /\ Writing(t) /\ Draft(t)
    BY <1>5, CallTypes DEF OpenTmp, At, Writing, Undisturbed
  <2>2. /\ call'[t].pc = "opened" /\ call'[t].file = "tmp"
        /\ call'[t].scope = call[t].scope /\ call'[t].op = call[t].op
        /\ call'[t].state = call[t].state
        /\ \A u \in Threads \ {t} : call'[u] = call[u]
    BY <1>5, <2>1 DEF OpenTmp, target, TypeOK, Saving
  <2>3. disk'.main = disk.main /\ disk'.tmp = Empty
    BY <1>5 DEF OpenTmp, target, TypeOK
  <2>4. Draft(t)' /\ Met(t)'
    BY <2>1, <2>2, <2>3, SameMain DEF Draft, Met, At
  <2>5. QED BY <1>4, <1>5, <2>1, <2>2, <2>3, <2>4, OneThreadSteps DEF OpenTmp
<1>6. ASSUME NEW t \in Threads, FillTmp(t)
      PROVE  Undisturbed'
  <2>1. /\ call[t] \in Saving /\ Writing(t) /\ Draft(t)
        /\ call[t].file = "tmp" /\ disk.tmp = Empty
    BY <1>6, CallTypes DEF FillTmp, At, Writing, Undisturbed, Draft
  <2>2. /\ call'[t].pc = "filled" /\ call'[t].file = "tmp"
        /\ call'[t].scope = call[t].scope /\ call'[t].op = call[t].op
        /\ call'[t].state = call[t].state
        /\ \A u \in Threads \ {t} : call'[u] = call[u]
    BY <1>6, <2>1 DEF FillTmp, TypeOK, Saving
  <2>3. disk' = [disk EXCEPT !["tmp"] = call[t].state]
    BY <1>6, <2>1 DEF FillTmp, Written
  <2>4. disk'.main = disk.main /\ disk'.tmp = call[t].state
    BY <2>3 DEF TypeOK
  <2>5. Draft(t)' /\ Met(t)'
    BY <2>1, <2>2, <2>4, SameMain DEF Draft, Met, At
  <2>6. QED BY <1>4, <1>6, <2>1, <2>2, <2>4, <2>5, OneThreadSteps DEF FillTmp
<1>7. ASSUME NEW t \in Threads, WriteFails(t)
      PROVE  Undisturbed'
  <2>1. Writing(t) /\ call'[t] = Idle /\ \A u \in Threads \ {t} : call'[u] = call[u]
    BY <1>7 DEF WriteFails, Leave, Return, At, Writing, TypeOK
  <2>2. disk'.main = disk.main
    <3>1. CASE disk' = disk
      BY <3>1
    <3>2. CASE disk' # disk
      <4>1. At(t, "opened") /\ disk' = Written(call[t].file, Torn)
        BY <1>7, <3>2 DEF WriteFails
      <4>2. call[t].file = "tmp"
        BY <2>1, <4>1 DEF Undisturbed, Draft
      <4>3. disk' = [disk EXCEPT !["tmp"] = Torn]
        BY <4>1, <4>2 DEF Written
      <4>4. QED BY <4>3 DEF TypeOK
    <3>3. QED BY <3>1, <3>2
  <2>3. QED BY <1>4, <1>7, <2>1, <2>2, IdleIsQuiet, OneThreadSteps DEF WriteFails
<1>8. ASSUME NEW t \in Threads, Replace(t)
      PROVE  Undisturbed'
  <2>1. Writing(t)
    BY <1>8 DEF Replace, At, Writing
  <2>2. FileIsWhole' /\ HaltsHold' /\ \A u \in Threads : Met(u)'
    BY <1>8, ReplaceTakesEffect, ReplaceTellsCalls DEF Undisturbed
  <2>3. ASSUME NEW u \in Threads PROVE ~Writing(u)'
    <3>1. CASE u = t
      BY <1>8, <3>1 DEF Replace, Told, Writing, Idle
    <3>2. CASE u # t
      <4>1. ~Writing(u) /\ call'[u] = Told(t, u)
        BY <1>4, <1>8, <2>1, <3>2 DEF Replace
      <4>2. CASE call[u].pc = "entered"
        <5>1. call[u] \in Calling
          BY <4>2, CallTypes
        <5>2. call'[u].pc = "entered"
          BY <3>2, <4>1, <4>2, <5>1 DEF Told, Calling
        <5>3. QED BY <5>2 DEF Writing
      <4>3. CASE call[u].pc # "entered"
        BY <3>2, <4>1, <4>3 DEF Told, Writing
      <4>4. QED BY <4>2, <4>3
    <3>3. QED BY <3>1, <3>2
  <2>4. QED BY <2>2, <2>3 DEF Undisturbed, Draft
<1>9. ASSUME NEW t \in Threads, ReplaceFails(t) \/ Refuse(t) \/ Complete(t)
      PROVE  Undisturbed'
  <2>1. /\ call'[t] = Idle /\ \A u \in Threads \ {t} : call'[u] = call[u]
        /\ UNCHANGED <<disk, halted>>
    BY <1>9 DEF ReplaceFails, Refuse, Complete, Leave, Return, TypeOK
  <2>2. QED BY <2>1, IdleIsQuiet, OneThreadSteps
<1>10. ASSUME NEW t \in Threads, Dispatch(t)
       PROVE  Undisturbed'
  <2>1. call[t] \in Calling /\ Met(t) /\ At(t, "entered")
    BY <1>10, CallTypes DEF Dispatch, At, Undisturbed
  <2>2. /\ call'[t].pc = "running" /\ call'[t].due = call[t].due
        /\ \A u \in Threads \ {t} : call'[u] = call[u]
    BY <1>10, <2>1 DEF Dispatch, TypeOK, Calling
  <2>3. ~call[t].due
    <3>1. SUFFICES ASSUME call[t].due PROVE FALSE
      OBVIOUS
    <3>2. PICK s \in halted : Covers(s, call[t].band)
      BY <2>1, <3>1 DEF Met
    <3>3. s \in Scopes /\ _load[s]
      BY <3>2 DEF TypeOK, Undisturbed, HaltsHold
    <3>4. blocks(_load, call[t].band)
      BY <3>2, <3>3 DEF blocks, Covers
    <3>5. QED BY <1>10, <3>4 DEF Dispatch
  <2>4. Draft(t)' /\ Met(t)'
    BY <2>2, <2>3 DEF Draft, Met, Writing, At
  <2>5. QED BY <1>10, <2>2, <2>4, OneThreadSteps DEF Dispatch
<1>11. ASSUME NEW p \in Processes, Crash(p)
       PROVE  Undisturbed'
  <2>1. _load' = _load /\ UNCHANGED <<disk, halted>>
    BY <1>11, SameMain DEF Crash
  <2>2. ASSUME NEW u \in Threads PROVE Draft(u)' /\ Met(u)'
    <3>1. CASE ProcessOf[u] = p
      BY <1>11, <3>1, IdleIsQuiet DEF Crash
    <3>2. CASE ProcessOf[u] # p
      <4>1. call'[u] = call[u] /\ Draft(u) /\ Met(u)
        BY <1>11, <3>2 DEF Crash, Undisturbed
      <4>2. QED BY <2>1, <4>1 DEF Draft, Met, Writing, At
    <3>3. QED BY <3>1, <3>2
  <2>3. FileIsWhole' /\ HaltsHold'
    BY <2>1 DEF Undisturbed, FileIsWhole, HaltsHold
  <2>4. QED BY <2>2, <2>3 DEF Undisturbed
<1>12. CASE (\E p \in Processes : guard(p) \/ unguard(p)) \/ UNCHANGED vars
  <2>1. UNCHANGED <<disk, call, halted>> /\ _load' = _load
    BY <1>12, SameMain DEF guard, unguard, vars
  <2>2. QED BY <2>1 DEF Undisturbed, FileIsWhole, HaltsHold, Draft, Met, Writing, At
<1>13. QED BY <1>1, <1>2, <1>3, <1>5, <1>6, <1>7, <1>8, <1>9, <1>10, <1>11, <1>12
           DEF Next, Step

--------------------------------------------------------------------------------
(* The theorems *)

LEMMA InitIInv == MCInit => IInv
  BY InitTypeOK, InitLockOK, InitUndisturbed DEF MCInit, IInv

LEMMA NextIInv == IInv /\ [MCNext]_<<vars, raced, asked>> => IInv'
<1> SUFFICES ASSUME IInv, [MCNext]_<<vars, raced, asked>> PROVE IInv'
  OBVIOUS
<1>1. [Next]_vars
  BY DEF MCNext
<1>2. TypeOK' /\ LockOK'
  BY <1>1, NextTypeOK, NextLockOK DEF IInv
<1>3. raced' \/ (~raced /\ OneProcess')
  <2>1. CASE MCNext
    BY <2>1 DEF MCNext, OneProcess, Writers, Writing
  <2>2. CASE UNCHANGED <<vars, raced, asked>>
    BY <2>2 DEF IInv, OneProcess, Writing, vars
  <2>3. QED BY <2>1, <2>2
<1>4. ASSUME ~raced, OneProcess' PROVE Undisturbed'
  BY <1>1, <1>4, NextUndisturbed DEF IInv
<1>5. QED BY <1>2, <1>3, <1>4 DEF IInv

\* The strengthening of TypeOK, FlagsHold and HaltsStopCalls that every step keeps.
THEOREM Invariance == MCSpec => []IInv
  BY InitIInv, NextIInv, PTL DEF MCSpec

\* Every reachable state of the kill switch is well typed.
THEOREM TypeCorrect == MCSpec => []TypeOK
<1>1. IInv => TypeOK
  BY DEF IInv
<1>2. QED BY <1>1, Invariance, PTL

\* Until writers of two processes overlap, the state file is whole and holds
\* the flags of the completed requests, through crashes and failed writes
\* (KillSwitch._save, engage, release).
THEOREM FlagsAreThoseAskedFor == MCSpec => []FlagsHold
<1>1. IInv => FlagsHold
  BY DEF IInv, Undisturbed, FlagsHold
<1>2. QED BY <1>1, Invariance, PTL

\* Until then no call whose band was halted when it was made, and not released
\* since, gets past the guard (KillSwitch.guard).
THEOREM NoHaltedCallRuns == MCSpec => []HaltsStopCalls
<1>1. IInv => HaltsStopCalls
  BY DEF IInv, Undisturbed, Met, HaltsStopCalls, HaltedCallsDoNotRun
<1>2. QED BY <1>1, Invariance, PTL

--------------------------------------------------------------------------------
(* When everybody asks for the same *)

Sets(content, scope) == content \in State => content[scope]

\* What a thread does when everybody asks for op on scope,
Obeys(t, op, scope) ==
    /\ At(t, "waiting") \/ Writing(t) => call[t].op = op /\ call[t].scope = scope
    /\ op = "engage" /\ Writing(t) => call[t].state[scope]
    /\ Met(t)

\* and what comes of it: once that halt is in force the state file exists, and
\* each of the two files is unreadable or a document with the flag set.
Agreed(op, scope) ==
    /\ halted \subseteq {scope}
    /\ op = "release" => halted = {}
    /\ halted # {} => disk.main # Missing
    /\ op = "engage" => Sets(disk.main, scope) /\ Sets(disk.tmp, scope)
    /\ \A t \in Threads : Obeys(t, op, scope)

Uniform ==
    /\ asked \subseteq Ops \X Scopes
    /\ \A op \in Ops, scope \in Scopes : asked \subseteq {<<op, scope>>} => Agreed(op, scope)

LEMMA WrittenSets ==
    ASSUME TypeOK, NEW scope \in Scopes, Sets(disk.main, scope), Sets(disk.tmp, scope),
           NEW file \in {"tmp", "main", "gone"}, NEW content, Sets(content, scope),
           content # Missing
    PROVE  /\ Sets(Written(file, content).main, scope)
           /\ Sets(Written(file, content).tmp, scope)
           /\ disk.main # Missing => Written(file, content).main # Missing
<1>1. /\ Written(file, content).main = IF file = "main" THEN content ELSE disk.main
      /\ Written(file, content).tmp = IF file = "tmp" THEN content ELSE disk.tmp
  BY DEF TypeOK, Written
<1>2. QED BY <1>1

\* An unreadable document, or one with the flag, halts every band it covers.
LEMMA HaltBlocks ==
    ASSUME TypeOK, NEW scope \in Scopes, disk.main # Missing, Sets(disk.main, scope),
           NEW band \in GuardedBands, Covers(scope, band)
    PROVE  blocks(_load, band)
<1>1. CASE disk.main \in Unreadable
  BY <1>1 DEF _load, fail_closed, blocks, Scopes
<1>2. CASE disk.main \notin Unreadable
  <2>1. disk.main \in State /\ _load = disk.main
    BY <1>2 DEF TypeOK, Contents, _load
  <2>2. QED BY <2>1 DEF Sets, blocks, Covers
<1>3. QED BY <1>1, <1>2

LEMMA IdleObeys ==
    ASSUME NEW t \in Threads, call'[t] = Idle, NEW op, NEW scope
    PROVE  Obeys(t, op, scope)'
  BY IdleIsQuiet DEF Obeys, At, Writing, Idle

LEMMA OthersObey ==
    ASSUME NEW u \in Threads, call'[u] = call[u], NEW op, NEW scope,
           Obeys(u, op, scope), halted' = halted
    PROVE  Obeys(u, op, scope)'
  BY DEF Obeys, At, Writing, Met

LEMMA AgreedStep ==
    ASSUME TypeOK, NEW op \in Ops, NEW scope \in Scopes, Agreed(op, scope), Next,
           \A t \in Threads : At(t, "waiting")' =>
               call'[t].op = op /\ call'[t].scope = scope
    PROVE  Agreed(op, scope)'
<1> USE DEF Agreed
<1>1. ASSUME NEW t \in Threads, UNCHANGED <<disk, halted>>,
             \A u \in Threads \ {t} : call'[u] = call[u], Obeys(t, op, scope)'
      PROVE  Agreed(op, scope)'
  BY <1>1, OthersObey
<1>2. ASSUME NEW t \in Threads, NEW o \in Ops, NEW s \in Scopes, NEW role \in CallRoles,
             Request(t, o, s, role)
      PROVE  Agreed(op, scope)'
  <2>1. /\ call'[t].pc = "waiting" /\ \A u \in Threads \ {t} : call'[u] = call[u]
        /\ UNCHANGED <<disk, halted>>
    BY <1>2 DEF Request, TypeOK
  <2>2. Obeys(t, op, scope)'
    BY <2>1 DEF Obeys, Met, Writing, At
  <2>3. QED BY <1>1, <2>1, <2>2
<1>3. ASSUME NEW t \in Threads, NEW band \in GuardedBands, CallTool(t, band)
      PROVE  Agreed(op, scope)'
  <2>1. /\ call'[t].pc = "entered" /\ call'[t].band = band
        /\ call'[t].due <=> \E s \in halted : Covers(s, band)
        /\ \A u \in Threads \ {t} : call'[u] = call[u]
        /\ UNCHANGED <<disk, halted>>
    BY <1>3 DEF CallTool, TypeOK
  <2>2. Obeys(t, op, scope)'
    BY <2>1 DEF Obeys, Met, Writing, At
  <2>3. QED BY <1>1, <2>1, <2>2
<1>4. ASSUME NEW t \in Threads, Load(t)
      PROVE  Agreed(op, scope)'
  <2>1. call[t] \in Saving /\ At(t, "waiting") /\ _load \in State
    BY <1>4, CallTypes, LoadedIsState DEF Load, At
  <2>2. /\ call'[t].pc = "loaded" /\ call'[t].scope = call[t].scope
        /\ call'[t].op = call[t].op
        /\ call'[t].state = [_load EXCEPT ![call[t].scope] = (call[t].op = "engage")]
        /\ \A u \in Threads \ {t} : call'[u] = call[u]
        /\ UNCHANGED <<disk, halted>>
    BY <1>4, <2>1 DEF Load, TypeOK, Saving
  <2>3. call[t].op = op /\ call[t].scope = scope
    BY <2>1 DEF Obeys
  <2>4. op = "engage" => call'[t].state[scope]
    BY <2>1, <2>2, <2>3 DEF State
  <2>5. Obeys(t, op, scope)'
    BY <2>2, <2>3, <2>4 DEF Obeys, Met, Writing, At
  <2>6. QED BY <1>1, <2>2, <2>5
<1>5. ASSUME NEW t \in Threads, OpenTmp(t)
      PROVE  Agreed(op, scope)'
  <2>1. call[t] \in Saving /\ Writing(t) /\ Obeys(t, op, scope)
    BY <1>5, CallTypes DEF OpenTmp, At, Writing
  <2>2. /\ call'[t].pc = "opened" /\ call'[t].scope = call[t].scope
        /\ call'[t].op = call[t].op /\ call'[t].state = call[t].state
        /\ \A u \in Threads \ {t} : call'[u] = call[u]
    BY <1>5, <2>1 DEF OpenTmp, TypeOK, Saving
  <2>3. disk'.main = disk.main /\ disk'.tmp = Empty /\ halted' = halted
    BY <1>5 DEF OpenTmp, target, TypeOK
  <2>4. Obeys(t, op, scope)'
    BY <2>1, <2>2 DEF Obeys, Met, Writing, At
  <2>5. Sets(Empty, scope)
    BY StateIsReadable DEF Sets, Unreadable
  <2>6. QED BY <2>2, <2>3, <2>4, <2>5, OthersObey
<1>6. ASSUME NEW t \in Threads, FillTmp(t)
      PROVE  Agreed(op, scope)'
  <2>1. /\ call[t] \in Saving /\ Writing(t) /\ Obeys(t, op, scope)
        /\ call[t].file \in {"tmp", "main", "gone"} /\ call[t].state \in State
    BY <1>6, CallTypes DEF FillTmp, At, Writing, TypeOK, Saving
  <2>2. /\ call'[t].pc = "filled" /\ call'[t].scope = call[t].scope
        /\ call'[t].op = call[t].op /\ call'[t].state = call[t].state
        /\ \A u \in Threads \ {t} : call'[u] = call[u]
        /\ halted' = halted
    BY <1>6, <2>1 DEF FillTmp, TypeOK, Saving
  <2>3. Obeys(t, op, scope)'
    BY <2>1, <2>2 DEF Obeys, Met, Writing, At
  <2>4. PICK content \in {call[t].state, Torn} : disk' = Written(call[t].file, content)
    BY <1>6 DEF FillTmp
  <2>5. content # Missing /\ (op = "engage" => Sets(content, scope))
    <3>1. Torn # Missing /\ Torn \notin State
      BY StateIsReadable DEF Torn, Missing, Unreadable
    <3>2. call[t].state # Missing /\ (op = "engage" => call[t].state[scope])
      BY <2>1, StateIsReadable DEF Obeys
    <3>3. QED BY <3>1, <3>2 DEF Sets
  <2>6. /\ op = "engage" => Sets(disk'.main, scope) /\ Sets(disk'.tmp, scope)
        /\ disk.main # Missing => disk'.main # Missing
    <3>1. CASE op = "engage"
      BY <2>1, <2>4, <2>5, <3>1, WrittenSets
    <3>2. CASE op # "engage"
      BY <2>4, <2>5, <3>2 DEF Written, TypeOK
    <3>3. QED BY <3>1, <3>2
  <2>7. QED BY <2>2, <2>3, <2>6, OthersObey
<1>7. ASSUME NEW t \in Threads, WriteFails(t)
      PROVE  Agreed(op, scope)'
  <2>1. /\ call'[t] = Idle /\ \A u \in Threads \ {t} : call'[u] = call[u]
        /\ halted' = halted
    BY <1>7 DEF WriteFails, Leave, Return, TypeOK
  <2>2. Obeys(t, op, scope)'
    BY <2>1, IdleObeys
  <2>3. /\ op = "engage" => Sets(disk'.main, scope) /\ Sets(disk'.tmp, scope)
        /\ disk.main # Missing => disk'.main # Missing
    <3>1. CASE disk' = disk
      BY <3>1
    <3>2. CASE disk' # disk
      <4>1. At(t, "opened") /\ disk' = Written(call[t].file, Torn)
        BY <1>7, <3>2 DEF WriteFails
      <4>2. call[t].file \in {"tmp", "main", "gone"}
        BY <4>1, CallTypes DEF At, TypeOK, Saving
      <4>3. Torn # Missing /\ Sets(Torn, scope)
        BY StateIsReadable DEF Torn, Missing, Unreadable, Sets
      <4>4. CASE op = "engage"
        BY <4>1, <4>2, <4>3, <4>4, WrittenSets
      <4>5. CASE op # "engage"
        BY <4>1, <4>3, <4>5 DEF Written, TypeOK
      <4>6. QED BY <4>4, <4>5
    <3>3. QED BY <3>1, <3>2
  <2>4. QED BY <2>1, <2>2, <2>3, OthersObey
<1>8. ASSUME NEW t \in Threads, Replace(t)
      PROVE  Agreed(op, scope)'
  <2>1. /\ call[t] \in Saving /\ Writing(t) /\ call[t].op = op /\ call[t].scope = scope
        /\ disk.tmp # Missing
        /\ disk' = [main |-> disk.tmp, tmp |-> Missing]
        /\ halted' = IF op = "engage" THEN halted \cup {scope} ELSE halted \ {scope}
        /\ \A u \in Threads : call'[u] = Told(t, u)
    BY <1>8, CallTypes DEF Replace, At, Writing, Obeys
  <2>2. ASSUME NEW u \in Threads PROVE Obeys(u, op, scope)'
    <3>1. Met(u)'
      BY <1>8, ReplaceTellsCalls DEF Obeys
    <3>2. CASE u = t
      BY <2>1, <3>2, IdleObeys DEF Told
    <3>3. CASE u # t /\ call[u].pc \in {"opened", "filled"}
      <4>1. call[u] \in Saving /\ Obeys(u, op, scope) /\ Writing(u)
        BY <3>3, CallTypes DEF Writing
      <4>2. call'[u] = [call[u] EXCEPT !.file = Renamed(call[u].file)]
        BY <2>1, <3>3 DEF Told
      <4>3. /\ call'[u].op = call[u].op /\ call'[u].scope = call[u].scope
            /\ call'[u].state = call[u].state
        BY <4>1, <4>2 DEF Saving
      <4>4. QED BY <3>1, <4>1, <4>3 DEF Obeys
    <3>4. CASE u # t /\ call[u].pc = "entered"
      <4>1. call[u] \in Calling
        BY <3>4, CallTypes
      <4>2. call'[u].pc = "entered"
        BY <2>1, <3>4, <4>1 DEF Told, Calling
      <4>3. QED BY <3>1, <4>2 DEF Obeys, Writing, At
    <3>5. CASE u # t /\ call[u].pc \notin {"opened", "filled", "entered"}
      <4>1. call'[u] = call[u]
        BY <2>1, <3>5 DEF Told
      <4>2. QED BY <3>1, <4>1 DEF Obeys, Writing, At
    <3>6. QED BY <3>2, <3>3, <3>4, <3>5
  <2>3. disk'.main = disk.tmp /\ disk'.tmp = Missing
    BY <2>1
  <2>4. Sets(Missing, scope)
    BY StateIsReadable DEF Sets
  <2>5. CASE op = "engage"
    BY <2>1, <2>2, <2>3, <2>4, <2>5
  <2>6. CASE op = "release"
    BY <2>1, <2>2, <2>6
  <2>7. QED BY <2>5, <2>6 DEF Ops
<1>9. ASSUME NEW t \in Threads, ReplaceFails(t) \/ Refuse(t) \/ Complete(t)
      PROVE  Agreed(op, scope)'
  <2>1. /\ call'[t] = Idle /\ \A u \in Threads \ {t} : call'[u] = call[u]
        /\ UNCHANGED <<disk, halted>>
    BY <1>9 DEF ReplaceFails, Refuse, Complete, Leave, Return, TypeOK
  <2>2. QED BY <1>1, <2>1, IdleObeys
<1>10. ASSUME NEW t \in Threads, Dispatch(t)
       PROVE  Agreed(op, scope)'
  <2>1. call[t] \in Calling /\ Obeys(t, op, scope) /\ At(t, "entered")
    BY <1>10, CallTypes DEF Dispatch, At
  <2>2. /\ call'[t].pc = "running" /\ call'[t].due = call[t].due
        /\ \A u \in Threads \ {t} : call'[u] = call[u]
        /\ UNCHANGED <<disk, halted>>
    BY <1>10, <2>1 DEF Dispatch, TypeOK, Calling
  <2>3. ~call[t].due
    <3> SUFFICES ASSUME call[t].due PROVE FALSE
      OBVIOUS
    <3>1. halted # {} /\ Covers(scope, call[t].band) /\ op = "engage"
      BY <2>1 DEF Obeys, Met, Ops
    <3>2. blocks(_load, call[t].band)
      BY <2>1, <3>1, HaltBlocks DEF Calling
    <3>3. QED BY <1>10, <3>2 DEF Dispatch
  <2>4. Obeys(t, op, scope)'
    BY <2>2, <2>3 DEF Obeys, Met, Writing, At
  <2>5. QED BY <1>1, <2>2, <2>4
<1>11. ASSUME NEW p \in Processes, Crash(p)
       PROVE  Agreed(op, scope)'
  <2>1. UNCHANGED <<disk, halted>>
    BY <1>11 DEF Crash
  <2>2. ASSUME NEW u \in Threads PROVE Obeys(u, op, scope)'
    <3>1. call'[u] = Idle \/ call'[u] = call[u]
      BY <1>11 DEF Crash
    <3>2. QED BY <2>1, <3>1, IdleObeys, OthersObey
  <2>3. QED BY <2>1, <2>2
<1>12. ASSUME NEW p \in Processes, guard(p) \/ unguard(p)
       PROVE  Agreed(op, scope)'
  BY <1>12, OthersObey DEF guard, unguard
<1>13. QED BY <1>2, <1>3, <1>4, <1>5, <1>6, <1>7, <1>8, <1>9, <1>10, <1>11, <1>12
           DEF Next, Step

\* The requests that differ are remembered.
LEMMA NextUniform == TypeOK /\ TypeOK' /\ Uniform /\ MCNext => Uniform'
<1> SUFFICES ASSUME TypeOK, TypeOK', Uniform, MCNext PROVE Uniform'
  OBVIOUS
<1> DEFINE new == {Asked(t)' : t \in {u \in Threads : call'[u].pc = "waiting"}}
<1>1. asked' = IF Cardinality(asked \cup new) > 1 THEN Ops \X Scopes ELSE asked \cup new
  BY DEF MCNext
<1>2. new \subseteq Ops \X Scopes
  <2>1. ASSUME NEW u \in Threads, call'[u].pc = "waiting"
        PROVE  call'[u].op \in Ops /\ call'[u].scope \in Scopes
    BY <2>1 DEF TypeOK, Saving, Calling, Idle
  <2>2. QED BY <2>1 DEF Asked
<1> HIDE DEF new
<1>3. asked' \subseteq Ops \X Scopes
  BY <1>1, <1>2 DEF Uniform
<1>4. ASSUME NEW op \in Ops, NEW scope \in Scopes, asked' \subseteq {<<op, scope>>}
      PROVE  Agreed(op, scope)'
  <2>1. asked \cup new \subseteq asked'
    BY <1>1, <1>2 DEF Uniform
  <2>2. Agreed(op, scope)
    BY <1>4, <2>1 DEF Uniform
  <2>3. ASSUME NEW t \in Threads, At(t, "waiting")'
        PROVE  call'[t].op = op /\ call'[t].scope = scope
    <3>1. <<call'[t].op, call'[t].scope>> \in new
      BY <2>3 DEF new, Asked, At
    <3>2. <<call'[t].op, call'[t].scope>> = <<op, scope>>
      BY <1>4, <2>1, <3>1
    <3>3. QED BY <3>2
  <2>4. QED BY <2>2, <2>3, AgreedStep DEF MCNext
<1>5. QED BY <1>3, <1>4 DEF Uniform

LEMMA UniformInvariance == MCSpec => [](TypeOK /\ Uniform)
<1>1. MCInit => Uniform
  <2> SUFFICES ASSUME MCInit, NEW op \in Ops, NEW scope \in Scopes
               PROVE  Agreed(op, scope)
    BY DEF MCInit, Uniform
  <2>1. /\ halted = {} /\ disk.main = Missing /\ disk.tmp = Missing
        /\ \A t \in Threads : call[t] = Idle
    BY DEF MCInit, Init
  <2>2. Sets(Missing, scope)
    BY StateIsReadable DEF Sets
  <2>3. QED BY <2>1, <2>2 DEF Agreed, Obeys, At, Writing, Met, Idle
<1>2. TypeOK /\ TypeOK' /\ Uniform /\ [MCNext]_<<vars, raced, asked>> => Uniform'
  <2>1. TypeOK /\ Uniform /\ UNCHANGED <<vars, raced, asked>> => Uniform'
    BY DEF vars, Uniform, Agreed, Obeys, At, Writing, Met
  <2>2. QED BY <2>1, NextUniform
<1>3. QED BY <1>1, <1>2, TypeCorrect, PTL DEF MCSpec

\* When everybody asked for the same halt no halted call runs, even if writers of
\* any number of processes overlapped and left half-written files behind.
THEOREM SameHaltHolds == MCSpec => []SameHaltStopsCalls
<1>1. Uniform => SameHaltStopsCalls
  <2> SUFFICES ASSUME Uniform, Cardinality(asked) = 1
               PROVE  HaltedCallsDoNotRun
    BY DEF SameHaltStopsCalls
  <2>1. IsFiniteSet(asked)
    <3>1. IsFiniteSet(Ops)
      <4>1. IsFiniteSet({"engage"} \cup {"release"})
        BY FS_Singleton, FS_Union
      <4>2. {"engage"} \cup {"release"} = Ops
        BY DEF Ops
      <4>3. QED BY <4>1, <4>2
    <3>2. IsFiniteSet(Scopes)
      <4>1. IsFiniteSet({"observe"} \cup {"simulate"} \cup {"propose"} \cup {"execute"})
        BY FS_Singleton, FS_Union
      <4>2. Bands = {"observe"} \cup {"simulate"} \cup {"propose"} \cup {"execute"}
        BY DEF Bands
      <4>3. IsFiniteSet(GuardedBands)
        BY <4>1, <4>2, BandsAssumption, FS_Subset
      <4>4. QED BY <4>3, FS_Singleton, FS_Union DEF Scopes
    <3>3. QED BY <3>1, <3>2, FS_Product, FS_Subset DEF Uniform
  <2>2. PICK request : asked = {request}
    BY <2>1, FS_Singleton
  <2>3. PICK op \in Ops, scope \in Scopes : request = <<op, scope>>
    BY <2>2 DEF Uniform
  <2>4. Agreed(op, scope)
    BY <2>2, <2>3 DEF Uniform
  <2>5. QED BY <2>4 DEF Agreed, Obeys, Met, HaltedCallsDoNotRun
<1>2. QED BY <1>1, UniformInvariance, PTL

================================================================================
