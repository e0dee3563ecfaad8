----------------------------- MODULE ToolRegistry -----------------------------
(***************************************************************************)
(* The dispatch pipeline of fintwinos/tools/registry.py: ToolRegistry.call  *)
(* checks a call against the schema, the execute-band gate, the policy gate *)
(* and the approval token, answers a repeated key from its cache, and runs  *)
(* the handler unless the call is a dry run or the deployment shadows.      *)
(*                                                                          *)
(* call is a coroutine that suspends only where it awaits an asynchronous   *)
(* handler.  Everything before that is one step of the event loop, and a    *)
(* synchronous handler holds the loop until it returns (LoopFree).  Tokens, *)
(* rules and settings change under a suspended call.                        *)
(*                                                                          *)
(* Tokens come from the approval workflow (signed when a secret is          *)
(* configured), from break-glass (wildcard, never signed), or from the body *)
(* of a request (asserted by the caller, never signed).  ran is a history   *)
(* variable.  Definitions named Bug_... are mutated forms used to test the  *)
(* properties.  Audit records, timings and result data are left out.        *)
(***************************************************************************)
EXTENDS PolicyGate

CONSTANTS
    Calls,          \* tasks calling the registry
    Keys,           \* idempotency keys
    NoKey,
    Tokens,         \* approval token objects
    NoToken,
    CallRoles,      \* the roles callers state
    ValidArguments, \* the arguments every tool's schema accepts
    AsyncTools,     \* specs of the tools whose handler is a coroutine
    MalformedTools, \* specs of the tools that may return malformed provenance
    DryRuns,        \* the values of dry_run callers pass
    Gates,          \* the policy gate: roles, rules, rules behind roles, or none
    Secret,         \* is an approval secret configured?
    NoResult        \* an empty cache entry

ASSUME CallsAssumption ==
    /\ NoKey \notin Keys
    /\ NoToken \notin Tokens
    /\ ValidArguments \subseteq Arguments
    /\ AsyncTools \subseteq Specs /\ MalformedTools \subseteq Specs
    /\ DryRuns \subseteq BOOLEAN /\ Secret \in BOOLEAN
    /\ Gates \subseteq {"roles", "rules"}

VARIABLES
    registered, \* _specs and _handlers
    settings,   \* execute_tools_enabled and shadow_mode
    token,      \* the token objects, NoToken until minted
    cache,      \* _idempotency_cache
    call,       \* the state of each task
    ran         \* how often this process completed a keyed handler (2: more than once)

vars == <<rules, registered, settings, token, cache, call, ran>>

Kinds == {"workflow", "breakglass", "asserted"}

\* A token is live while it is approved and has not expired.
Token == [kind : Kinds, subject : ToolNames \cup {"*"}, live : BOOLEAN]

\* The ok answers: what a handler returned, or what stands for it.
OkAnswers == {"done", "preview", "shadow"}
Answers == OkAnswers \cup {"refused", "failed", "raised"}

ASSUME NoValuesAssumption == NoToken \notin Token /\ NoResult \notin OkAnswers

Request == [tool : Specs, arguments : Arguments, key : Keys \cup {NoKey},
            dry_run : BOOLEAN, token : Tokens \cup {NoToken}, role : CallRoles]

Call == [pc : {"submitted", "running", "answered"}, request : Request,
         answer : Answers \cup {NoResult}]

Idle == [pc |-> "idle"]

At(c, point) == call[c].pc = point
req(c) == call[c].request

LoopFree(c) ==
    \A d \in Calls \ {c} : At(d, "running") => req(d).tool \in AsyncTools

-----------------------------------------------------------------------------
(* Approval tokens *)

is_valid_for(k, name) ==
    /\ token[k] # NoToken
    /\ token[k].live
    /\ token[k].subject \in {name, "*"}

verify_signature(k) == token[k].kind = "workflow"

_has_valid_approval(k, name) ==
    /\ k # NoToken
    /\ is_valid_for(k, name)
    /\ Secret => verify_signature(k)

-----------------------------------------------------------------------------
(* The gates *)

ExecuteBand(c) == req(c).tool.band = "execute"
DryExecute(c) == ExecuteBand(c) /\ req(c).dry_run
RealExecute(c) == ExecuteBand(c) /\ ~req(c).dry_run
Approved(c) == _has_valid_approval(req(c).token, req(c).tool.name)

_gate_execute(c) ==
    RealExecute(c) => settings.execute_tools_enabled /\ Approved(c)

\* RbacGate, which asks its inner gate if it has one, or a PolicyGate alone.
VerdictOn(c) ==
    IF "roles" \in Gates /\ ~can(req(c).role, req(c).tool.band) THEN Denied
    ELSE IF "rules" \in Gates THEN check_rules(rules, req(c).tool, req(c).arguments)
    ELSE [allowed |-> TRUE, review |-> FALSE]

PolicyAllows(c) ==
    ~DryExecute(c) => VerdictOn(c).allowed /\ (VerdictOn(c).review => Approved(c))

Admitted(c) ==
    /\ req(c).tool \in registered
    /\ req(c).arguments \in ValidArguments
    /\ _gate_execute(c)
    /\ PolicyAllows(c)

\* Bug: the key alone.
Bug_cache_key(tool, key) == <<"", key>>

cache_key(tool, key) == <<tool.name, key>>

CacheKeys == (ToolNames \cup {""}) \X Keys

\* Bug: the cache is never hit.
Bug_Cached(c) == FALSE

Cached(c) ==
    /\ req(c).key # NoKey
    /\ cache[cache_key(req(c).tool, req(c).key)] # NoResult

\* Bug: a repeated key is answered before the gates are asked.
Bug_MayReplay(c) == Cached(c)

MayReplay(c) == Admitted(c) /\ Cached(c)

-----------------------------------------------------------------------------
(* The pipeline *)

Answer(c, answer) ==
    call' = [call EXCEPT ![c].pc = "answered", ![c].answer = answer]

\* The ok result of a keyed call is remembered.
Conclude(c, answer) ==
    /\ Answer(c, answer)
    /\ cache' = IF req(c).key = NoKey THEN cache
                ELSE [cache EXCEPT ![cache_key(req(c).tool, req(c).key)] = answer]

\* The handler of a keyed call has run to its end once more.
CountRun(c) ==
    ran' = IF req(c).key = NoKey THEN ran
           ELSE [ran EXCEPT ![<<req(c).tool.name, req(c).key>>] =
                     IF @ = 0 THEN 1 ELSE 2]

Submit(c, request) ==
    /\ call[c] = Idle
    /\ call' = [call EXCEPT ![c] =
           [pc |-> "submitted", request |-> request, answer |-> NoResult]]
    /\ UNCHANGED <<rules, registered, settings, token, cache, ran>>

\* Unknown tool, schema, execute band disabled, no approval, denied, no review.
Refuse(c) ==
    /\ At(c, "submitted") /\ LoopFree(c)
    /\ ~Admitted(c) /\ ~MayReplay(c)
    /\ Answer(c, "refused")
    /\ UNCHANGED <<rules, registered, settings, token, cache, ran>>

Replay(c) ==
    /\ At(c, "submitted") /\ LoopFree(c)
    /\ MayReplay(c)
    /\ Answer(c, cache[cache_key(req(c).tool, req(c).key)])
    /\ UNCHANGED <<rules, registered, settings, token, cache, ran>>

Preview(c) ==
    /\ At(c, "submitted") /\ LoopFree(c)
    /\ Admitted(c) /\ ~Cached(c)
    /\ DryExecute(c)
    /\ Conclude(c, "preview")
    /\ UNCHANGED <<rules, registered, settings, token, ran>>

Shadow(c) ==
    /\ At(c, "submitted") /\ LoopFree(c)
    /\ Admitted(c) /\ ~Cached(c)
    /\ RealExecute(c)
    /\ settings.shadow_mode
    /\ Conclude(c, "shadow")
    /\ UNCHANGED <<rules, registered, settings, token, ran>>

Invoke(c) ==
    /\ At(c, "submitted") /\ LoopFree(c)
    /\ Admitted(c) /\ ~Cached(c)
    /\ ~DryExecute(c)
    /\ RealExecute(c) => ~settings.shadow_mode
    /\ call' = [call EXCEPT ![c].pc = "running"]
    /\ UNCHANGED <<rules, registered, settings, token, cache, ran>>

HandlerReturns(c) ==
    /\ At(c, "running") /\ LoopFree(c)
    /\ Conclude(c, "done")
    /\ CountRun(c)
    /\ UNCHANGED <<rules, registered, settings, token>>

Failed(c) == Answer(c, "failed") /\ UNCHANGED cache

HandlerRaises(c) ==
    /\ At(c, "running") /\ LoopFree(c)
    /\ Failed(c)
    /\ UNCHANGED <<rules, registered, settings, token, ran>>

\* The handler has done its work, but what it returned as provenance does not
\* validate: the exception is outside the try and leaves call.
ProvenanceRaises(c) ==
    /\ At(c, "running") /\ LoopFree(c)
    /\ req(c).tool \in MalformedTools
    /\ Answer(c, "raised")
    /\ CountRun(c)
    /\ UNCHANGED <<rules, registered, settings, token, cache>>

Return(c) ==
    /\ At(c, "answered")
    /\ call' = [call EXCEPT ![c] = Idle]
    /\ UNCHANGED <<rules, registered, settings, token, cache, ran>>

-----------------------------------------------------------------------------
(* Around the pipeline *)

\* A name that is already registered is refused.
register(spec) ==
    /\ \A other \in registered : other.name # spec.name
    /\ registered' = registered \cup {spec}
    /\ UNCHANGED <<rules, settings, token, cache, call, ran>>

\* The workflow's tokens name a tool, break-glass tokens are wildcards, and a
\* caller may assert anything.
Mint(k, kind, subject) ==
    /\ token[k] = NoToken
    /\ kind = "workflow" => subject # "*"
    /\ kind = "breakglass" => subject = "*"
    /\ token' = [token EXCEPT ![k] =
           [kind |-> kind, subject |-> subject, live |-> TRUE]]
    /\ UNCHANGED <<rules, registered, settings, cache, call, ran>>

\* A token expires, or is rejected by a revoke.
Die(k) ==
    /\ token[k] # NoToken
    /\ token[k].live
    /\ token' = [token EXCEPT ![k].live = FALSE]
    /\ UNCHANGED <<rules, registered, settings, cache, call, ran>>

\* The process assigns to its settings object, as the demonstrations do.
Configure(enabled, shadow) ==
    /\ settings' = [execute_tools_enabled |-> enabled, shadow_mode |-> shadow]
    /\ UNCHANGED <<rules, registered, token, cache, call, ran>>

\* A restart forgets the rules that were added, the cache and the calls.
Restart ==
    /\ rules' = InitialRules
    /\ registered' = {}
    /\ cache' = [k \in CacheKeys |-> NoResult]
    /\ call' = [c \in Calls |-> Idle]
    /\ ran' = [k \in ToolNames \X Keys |-> 0]
    /\ UNCHANGED <<settings, token>>

AddRule ==
    /\ \E rule \in AddedRules, prepend \in BOOLEAN : add_rule(rule, prepend)
    /\ UNCHANGED <<registered, settings, token, cache, call, ran>>

Init ==
    /\ RulesInit
    /\ registered = {}
    /\ settings = [execute_tools_enabled |-> FALSE, shadow_mode |-> TRUE]
    /\ token = [k \in Tokens |-> NoToken]
    /\ cache = [k \in CacheKeys |-> NoResult]
    /\ call = [c \in Calls |-> Idle]
    /\ ran = [k \in ToolNames \X Keys |-> 0]

Step(c) ==
    \/ \E request \in Request :
           request.dry_run \in DryRuns /\ Submit(c, request)
    \/ Refuse(c)
    \/ Replay(c)
    \/ Preview(c)
    \/ Shadow(c)
    \/ Invoke(c)
    \/ HandlerReturns(c)
    \/ HandlerRaises(c)
    \/ ProvenanceRaises(c)
    \/ Return(c)

Next ==
    \/ \E c \in Calls : Step(c)
    \/ \E spec \in Specs : register(spec)
    \/ \E k \in Tokens :
           \/ \E kind \in Kinds, subject \in ToolNames \cup {"*"} :
                  Mint(k, kind, subject)
           \/ Die(k)
    \/ \E enabled, shadow \in BOOLEAN : Configure(enabled, shadow)
    \/ Restart
    \/ AddRule

Spec == Init /\ [][Next]_vars

-----------------------------------------------------------------------------
(* Properties *)

\* The registry's state has its types; only ok results are remembered.
TypeOK ==
    /\ registered \subseteq Specs
    /\ settings \in [execute_tools_enabled : BOOLEAN, shadow_mode : BOOLEAN]
    /\ token \in [Tokens -> Token \cup {NoToken}]
    /\ cache \in [CacheKeys -> OkAnswers \cup {NoResult}]
    /\ call \in [Calls -> Call \cup {Idle}]
    /\ ran \in [ToolNames \X Keys -> 0..2]

\* An execute call gets past the gates, to its handler, to the shadow of it or
\* to a cached result, only while the band is enabled, its token is live for that
\* tool and -- with a secret configured -- minted by the approval workflow, and,
\* of the policy gates there are, no deny rule and some allow rule matches it and
\* its role may execute; and no handler starts in shadow mode ("Hard invariants",
\* module docstring).
Governed(c) ==
    LET k == req(c).token
        spec == req(c).tool IN
    /\ settings.execute_tools_enabled
    /\ "rules" \in Gates => /\ Matching("deny", spec, req(c).arguments) = {}
                           /\ Matching("allow", spec, req(c).arguments) # {}
    /\ "roles" \in Gates => can(req(c).role, "execute")
    /\ k # NoToken /\ token[k] # NoToken /\ token[k].live
    /\ token[k].subject \in {spec.name, "*"}
    /\ Secret => token[k].kind = "workflow"

ExecuteIsGoverned ==
    [][\A c \in Calls :
          At(c, "submitted") /\ RealExecute(c) /\ call'[c] # Idle =>
              /\ call'[c].answer \in OkAnswers \/ call'[c].pc = "running"
                     => Governed(c)
              /\ call'[c].pc = "running" => ~settings.shadow_mode]_vars

\* A keyed call that is told the work was done belongs to a tool whose handler
\* ran to its end under that key, whichever calls shared the key.
DoneMeansRan ==
    \A c \in Calls :
        /\ At(c, "answered") /\ call[c].answer = "done" /\ req(c).key # NoKey
        => ran[<<req(c).tool.name, req(c).key>>] > 0

\* "At-most-once execution is provided uniformly by the registry's
\* CallContext.idempotency_key replay cache" (ToolSpec).
AtMostOnce == \A k \in DOMAIN ran : ran[k] <= 1

=============================================================================
