------------------------------- MODULE LlmClient -------------------------------
(***************************************************************************)
(* fintwinos/models/llm_routing: LLMClient.complete looks a prompt up in    *)
(* the ResponseCache, asks the BudgetGuard whether anything is left, awaits *)
(* the provider with retries, charges what the answer cost and caches it.   *)
(*                                                                          *)
(* A coroutine suspends only at the awaits of _call_with_retries, so what   *)
(* lies before the first and after the last of them is one step.  The cache *)
(* is a directory: one file per prompt, written in place, and an index that *)
(* is replaced atomically.  A crash may fall between any two of its writes. *)
(* The ticks of the index are kept up to order: MaxTick bounds them.        *)
(*                                                                          *)
(* A prompt is the cache key: model, messages and schema; a call with tools *)
(* has none and skips the cache.  Costs are small integers, the float       *)
(* tolerance _EPS is left out.                                              *)
(***************************************************************************)
EXTENDS Naturals, FiniteSets

CONSTANTS
    Tasks,      \* coroutines calling complete
    Prompts,
    NoKey,
    Ceiling,    \* llm_budget_usd
    MaxCost,    \* bound: what one answer may cost
    MaxRetries, \* settings.max_retries
    MaxEntries, \* capacity of the cache
    MaxTick     \* bound on the cache's counter

ASSUME LlmAssumption ==
    /\ IsFiniteSet(Tasks)
    /\ NoKey \notin Prompts
    /\ Ceiling \in Nat \ {0} /\ MaxCost \in Nat
    /\ MaxRetries \in Nat \ {0} /\ MaxEntries \in Nat \ {0} /\ MaxTick \in Nat

VARIABLES
    up,      \* is the process running?
    spent,   \* BudgetGuard._spent
    file,    \* the entry file of each prompt: none, torn or whole
    index,   \* ResponseCache._index: a tick for each prompt it knows
    counter, \* ResponseCache._counter
    saved,   \* index.json
    call     \* the state of each task

vars == <<up, spent, file, index, counter, saved, call>>

Idle == [pc |-> "idle"]
InFlight(k) == [pc |-> "calling", key |-> k, attempt |-> 0]

Bug_Sleeping(c) == [c EXCEPT !.pc = "sleeping"]

Sleeping(c) == [c EXCEPT !.pc = "sleeping", !.attempt = @ + 1]

Indexes == UNION {[S -> 0..MaxTick] : S \in SUBSET Prompts}
Call == [pc : {"calling", "sleeping"}, key : Prompts \cup {NoKey}, attempt : 0..MaxRetries - 1]
        \cup {Idle}

OnDisk(f) == {p \in Prompts : f[p] # "none"}

\* The greatest tick of an index.
Newest(i) == CHOOSE n \in {i[p] : p \in DOMAIN i} : \A p \in DOMAIN i : i[p] <= n

Without(i, S) == [p \in DOMAIN i \ S |-> i[p]]

--------------------------------------------------------------------------------
(* The cache, called with its lock held *)

\* _touch_locked: the prompt becomes the one used last.
Touched(i, p) == [q \in DOMAIN i \cup {p} |-> IF q = p THEN counter + 1 ELSE i[q]]

Bug_Evictions(i) ==
    {Without(i, S) : S \in {T \in SUBSET DOMAIN i :
        /\ Cardinality(T) = IF Cardinality(DOMAIN i) > MaxEntries
                            THEN Cardinality(DOMAIN i) - MaxEntries ELSE 0
        /\ \A p \in T, q \in DOMAIN i \ T : i[p] >= i[q]}}

\* _evict_locked: what remains of an index; prompts of equal ticks leave in
\* an order that is not determined.
Evictions(i) ==
    {Without(i, S) : S \in {T \in SUBSET DOMAIN i :
        /\ Cardinality(T) = IF Cardinality(DOMAIN i) > MaxEntries
                            THEN Cardinality(DOMAIN i) - MaxEntries ELSE 0
        /\ \A p \in T, q \in DOMAIN i \ T : i[p] <= i[q]}}

\* _load_index: the ticks of index.json for the files there are, and 0 for
\* files it does not know.
Reconciled == [p \in OnDisk(file) |-> IF p \in DOMAIN saved.entries THEN saved.entries[p] ELSE 0]

LoadedCounter(i) ==
    IF DOMAIN i = {} \/ Newest(i) <= saved.counter THEN saved.counter ELSE Newest(i)

\* ResponseCache.__init__, and a client with an unspent budget.
Start ==
    /\ ~up
    /\ \E i \in Evictions(Reconciled) :
        /\ index' = i
        /\ counter' = LoadedCounter(Reconciled)
        /\ file' = [p \in Prompts |-> IF p \in DOMAIN Reconciled \ DOMAIN i THEN "none" ELSE file[p]]
        /\ saved' = [counter |-> counter', entries |-> i]
    /\ up' = TRUE /\ spent' = 0
    /\ UNCHANGED call

\* get: a hit refreshes the prompt's tick; an entry that cannot be read is
\* deleted; both save the index.  A missing file only leaves the index.
Lookup(p) ==
    IF file[p] = "whole"
    THEN /\ counter < MaxTick
         /\ counter' = counter + 1
         /\ index' = Touched(index, p)
         /\ saved' = [counter |-> counter', entries |-> index']
         /\ UNCHANGED file
    ELSE /\ index' = Without(index, {p})
         /\ file' = [file EXCEPT ![p] = "none"]
         /\ saved' = IF file[p] = "torn" THEN [counter |-> counter, entries |-> index'] ELSE saved
         /\ UNCHANGED counter

\* put: write the entry, touch, evict, save the index.
Put(p) ==
    /\ counter < MaxTick
    /\ counter' = counter + 1
    /\ index' \in Evictions(Touched(index, p))
    /\ file' = [q \in Prompts |-> IF q \in DOMAIN index' THEN IF q = p THEN "whole" ELSE file[q]
                                  ELSE IF q \in DOMAIN index \cup {p} THEN "none" ELSE file[q]]
    /\ saved' = [counter |-> counter', entries |-> index']

--------------------------------------------------------------------------------
(* The client *)

Bug_Available == TRUE

\* ensure_available lets a call begin.
Available == spent < Ceiling

\* complete, up to its first await: a hit answers, an exhausted budget raises.
Hit(k) == k # NoKey /\ file[k] = "whole"

Complete(t, k) ==
    /\ up /\ call[t] = Idle
    /\ IF k = NoKey THEN UNCHANGED <<file, index, counter, saved>> ELSE Lookup(k)
    /\ call' = [call EXCEPT ![t] = IF Hit(k) \/ ~Available THEN Idle ELSE InFlight(k)]
    /\ UNCHANGED <<up, spent>>

\* What complete does once the provider has answered: charge, and cache an
\* answer that is neither a refusal nor cut off.  A charge that reaches the
\* ceiling raises first, and the answer is not cached.
Charge(t, cost) ==
    /\ call[t].pc = "calling"
    /\ spent' = spent + cost
    /\ call' = [call EXCEPT ![t] = Idle]
    /\ UNCHANGED up

Caches(t, cost, clean) == spent + cost < Ceiling /\ call[t].key # NoKey /\ clean

Answer(t, cost, clean) ==
    /\ Charge(t, cost)
    /\ IF Caches(t, cost, clean) THEN Put(call[t].key)
       ELSE UNCHANGED <<file, index, counter, saved>>

\* _call_with_retries: a permanent error, or the last attempt, raises.
GivesUp(t) == call[t].attempt = MaxRetries - 1

Fail(t, permanent) ==
    /\ call[t].pc = "calling"
    /\ call' = [call EXCEPT ![t] = IF permanent \/ GivesUp(t) THEN Idle ELSE Sleeping(@)]
    /\ UNCHANGED <<up, spent, file, index, counter, saved>>

Retry(t) ==
    /\ call[t].pc = "sleeping"
    /\ call' = [call EXCEPT ![t].pc = "calling"]
    /\ UNCHANGED <<up, spent, file, index, counter, saved>>

--------------------------------------------------------------------------------
(* Faults *)

Halt ==
    /\ up' = FALSE
    /\ call' = [t \in Tasks |-> Idle]

Crash == up /\ Halt /\ UNCHANGED <<spent, file, index, counter, saved>>

\* A crash inside put: the entry begun, or written, and perhaps some of what
\* is to be evicted already deleted; the index not saved.
CrashInPut(t, cost) ==
    /\ Halt
    /\ call[t].pc = "calling" /\ Caches(t, cost, TRUE)
    /\ LET p == call[t].key IN
       \/ file' = [file EXCEPT ![p] = "torn"]
       \/ \E i \in Evictions(Touched(index, p)) : \E gone \in SUBSET (DOMAIN index \ DOMAIN i) :
            file' = [q \in Prompts |-> IF q = p THEN "whole" ELSE IF q \in gone THEN "none" ELSE file[q]]
    /\ UNCHANGED <<spent, index, counter, saved>>

\* Somebody deletes an entry's file.
Delete(p) ==
    /\ file[p] # "none"
    /\ file' = [file EXCEPT ![p] = "none"]
    /\ UNCHANGED <<up, spent, index, counter, saved, call>>

\* clear
Clear ==
    /\ up
    /\ file' = [p \in Prompts |-> "none"]
    /\ index' = Without(index, DOMAIN index)
    /\ counter' = 0
    /\ saved' = [counter |-> 0, entries |-> index']
    /\ UNCHANGED <<up, spent, call>>

--------------------------------------------------------------------------------

Init ==
    /\ up = TRUE /\ spent = 0 /\ counter = 0
    /\ file = [p \in Prompts |-> "none"]
    /\ index = [p \in {} |-> 0]
    /\ saved = [counter |-> 0, entries |-> index]
    /\ call = [t \in Tasks |-> Idle]

Returns(t) ==
    \/ \E cost \in 0..MaxCost, clean \in BOOLEAN : Answer(t, cost, clean)
    \/ \E permanent \in BOOLEAN : Fail(t, permanent)

Next ==
    \/ \E t \in Tasks :
        \/ \E k \in Prompts \cup {NoKey} : Complete(t, k)
        \/ Returns(t)
        \/ Retry(t)
        \/ \E cost \in 0..MaxCost : CrashInPut(t, cost)
    \/ \E p \in Prompts : Delete(p)
    \/ Clear \/ Crash \/ Start

Spec == Init /\ [][Next]_vars

\* Requests end (the client has a timeout) and sleeps are over some time.
Fairness == \A t \in Tasks : WF_vars(Returns(t)) /\ WF_vars(Retry(t))

FairSpec == Spec /\ Fairness

--------------------------------------------------------------------------------

TypeOK ==
    /\ up \in BOOLEAN /\ spent \in Nat /\ counter \in 0..MaxTick
    /\ file \in [Prompts -> {"none", "torn", "whole"}]
    /\ index \in Indexes
    /\ saved \in [counter : 0..MaxTick, entries : Indexes]
    /\ call \in [Tasks -> Call]

\* The ceiling is passed at most by the calls that were in flight when it was
\* reached: no call starts on a blown budget (budget.py ensure_available).
OverspendIsBounded == spent < Ceiling + Cardinality(Tasks) * MaxCost

\* Every call returns: retries are counted, and no error is retried for ever
\* (client.py _call_with_retries).
CallsReturn == \A t \in Tasks : (call[t] # Idle) ~> (call[t] = Idle)

================================================================================
