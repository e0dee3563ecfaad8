-------------------------------- MODULE Cases --------------------------------
(***************************************************************************)
(* One case from objective to decision (fintwinos/agents): handle_case      *)
(* plans, senses, runs the desks of each dependency wave concurrently,      *)
(* lets the critic review their outputs, aggregates a decision and asks     *)
(* the policy gate for its verdict.  A desk observes, simulates, analyses   *)
(* and proposes; any of its steps may raise.                                *)
(*                                                                          *)
(* An objective is the desks its words mention, in order, and whether they  *)
(* match the escalation and execution patterns; a step's own words, which   *)
(* the model may add, match them too.  Metrics are kept up to the           *)
(* thresholds the desks compare them with.  Texts, scores, arguments and    *)
(* confidence, which only the record shows, are left out.                   *)
(* Definitions named Bug_... are mutated forms used to test the properties. *)
(***************************************************************************)
EXTENDS Naturals, Sequences, FiniteSets, Functions, FiniteSetsExt

CONSTANTS
    Objectives,  \* the objectives a case may be opened with
    Refinements  \* the plans a model may answer with; the empty one is no answer

Owners == {"risk", "treasury", "compliance", "customer_ops"}

ObjectiveType == [mentions : Seq(Owners), urgent : BOOLEAN, acts : BOOLEAN]

\* Whatever owners and dependencies the model names and whatever its steps say.
ASSUME CasesAssumption ==
    /\ Objectives \subseteq ObjectiveType
    /\ Refinements \subseteq Seq([owner : STRING, deps : SUBSET Nat, urgent : BOOLEAN, acts : BOOLEAN])

VARIABLES
    objective,   \* [mentions, urgent, acts]
    plan,        \* its steps: owner, numbers of earlier steps, patterns of their own words
    waves,       \* the steps still to be scheduled, wave by wave
    desk,        \* what the running steps have gathered so far
    outputs,     \* the outputs of the steps, in the order they are folded
    status       \* "none", "opened", "planned", "sensed", "abandoned" (its exception
                 \* went to the caller), or how the case was closed

caseVars == <<objective, plan, waves, desk, outputs, status>>

\* RISK_ORDER: low, medium, high
Tiers == 0..2
bump_tier(current, floor) == IF current >= floor THEN current ELSE floor

-----------------------------------------------------------------------------
(* Planning *)

RuleBased(mentions) ==
    LET ordered == IF mentions = <<>> THEN <<"risk">> ELSE mentions IN
    [i \in DOMAIN ordered |-> [owner |-> ordered[i], deps |-> IF i = 1 THEN {} ELSE {1},
                               urgent |-> FALSE, acts |-> FALSE]]

OwnersOf(steps) == {steps[i].owner : i \in DOMAIN steps}

validate_refined(refined, base) ==
    /\ Len(refined) \in 1..8
    /\ \A i \in DOMAIN refined : refined[i].deps \subseteq 1..(i - 1)
    /\ OwnersOf(refined) = OwnersOf(base)

\* Bug: a step joins the first wave in which one of its dependencies is met.
Bug_Ready(steps, done) ==
    {i \in DOMAIN steps \ done :
        steps[i].deps = {} \/ steps[i].deps \cap done # {}}

Ready(steps, done) == {i \in DOMAIN steps \ done : steps[i].deps \subseteq done}

\* Were no step ready, the rest would make one wave.
Wave(steps, done) ==
    IF Ready(steps, done) # {} THEN Ready(steps, done) ELSE DOMAIN steps \ done

\* The waves of the steps that are left.
waves_after(steps) ==
    LET after[done \in SUBSET DOMAIN steps] ==
            IF Wave(steps, done) = {} THEN <<>>
            ELSE <<Wave(steps, done)>> \o after[done \union Wave(steps, done)]
    IN  after

plan_waves(steps) == waves_after(steps)[{}]

\* case.opened and decompose: the rule-based plan, or the model's if it is valid.
Plan ==
    /\ status = "opened"
    /\ \E refined \in Refinements :
           LET base == RuleBased(objective.mentions) IN
           plan' = IF validate_refined(refined, base) THEN refined ELSE base
    /\ status' = "planned"
    /\ UNCHANGED <<objective, waves, desk, outputs>>

\* Sensing only reports; a runtime that cannot be probed becomes a warning.
Sense ==
    /\ status = "planned"
    /\ waves' = plan_waves(plan)
    /\ desk' = [i \in Head(plan_waves(plan)) |-> [at |-> "observe"]]
    /\ status' = "sensed"
    /\ UNCHANGED <<objective, plan, outputs>>

-----------------------------------------------------------------------------
(* The desks *)

\* What a desk may measure, given whether an observation and a simulation
\* succeeded.  Levels are ordered as the thresholds of the desk's module;
\* "none" stands for no metric at all.
Metrics(owner, observed, simulated) ==
    CASE owner = "risk" ->
            [breach : IF simulated THEN BOOLEAN ELSE {FALSE},
             loss : IF observed /\ simulated THEN 0..2 ELSE {0},
             var : IF observed /\ simulated THEN BOOLEAN ELSE {FALSE},
             none : IF observed \/ simulated THEN BOOLEAN ELSE {TRUE}]
      [] owner = "treasury" ->
            [shortfall : IF simulated THEN BOOLEAN ELSE {FALSE},
             coverage : IF observed \/ simulated THEN {"none", "short", "thin", "fine"}
                        ELSE {"none"},
             none : IF observed \/ simulated THEN BOOLEAN ELSE {TRUE}]
      [] owner = "compliance" ->
            [alerts : IF observed THEN 0..2 ELSE {0}, ring : IF observed THEN BOOLEAN ELSE {FALSE}]
      [] owner = "customer_ops" ->
            [breach : IF observed \/ simulated THEN 0..2 ELSE {0},
             deep : IF observed THEN BOOLEAN ELSE {FALSE}]

\* The ladders of candidate actions: whether one of them needs approval.
RiskLadder(m) == m.loss = 2 \/ m.var

TreasuryLadder(m) == m.shortfall \/ m.coverage = "short"

ComplianceLadder(m) == m.alerts = 2 \/ m.ring

CustomerOpsLadder(m) == m.breach = 2

candidate_actions(owner, m) ==
    CASE owner = "risk" -> RiskLadder(m)
      [] owner = "treasury" -> TreasuryLadder(m)
      [] owner = "compliance" -> ComplianceLadder(m)
      [] owner = "customer_ops" -> CustomerOpsLadder(m)

ImpliedRisk(m) ==
    IF m.breach \/ m.loss = 2 \/ m.var THEN 2 ELSE IF m.loss = 1 \/ m.none THEN 1 ELSE 0

ImpliedTreasury(m) ==
    IF m.shortfall \/ m.coverage = "short" THEN 2
    ELSE IF m.coverage = "thin" \/ (m.coverage = "none" /\ m.none) THEN 1 ELSE 0

ImpliedCompliance(m) ==
    IF m.alerts = 2 \/ m.ring THEN 2 ELSE IF m.alerts = 1 THEN 1 ELSE 0

ImpliedCustomerOps(m) ==
    IF m.breach = 2 THEN 2 ELSE IF m.breach = 1 \/ m.deep THEN 1 ELSE 0

implied_tier(owner, m) ==
    CASE owner = "risk" -> ImpliedRisk(m)
      [] owner = "treasury" -> ImpliedTreasury(m)
      [] owner = "compliance" -> ImpliedCompliance(m)
      [] owner = "customer_ops" -> ImpliedCustomerOps(m)

\* An output: every ladder has a candidate, none of them in the execute band.
\* ok says a tool result is there to trace it to, rehearsed that the simulation
\* came with confidence intervals.
Output(i, ok, rehearsed, tier, acts, routed) ==
    [step |-> i, ok |-> ok, rehearsed |-> rehearsed, tier |-> tier, acts |-> acts,
     routed |-> routed, claims |-> TRUE]

\* An agent that raised, or an owner nobody serves: no data, so no tier.
Degraded(i) ==
    [step |-> i, ok |-> FALSE, rehearsed |-> FALSE, tier |-> 1, acts |-> FALSE,
     routed |-> FALSE, claims |-> FALSE]

\* Whether a tool answered: leaner arguments are tried on schema rejections only,
\* and a pattern may match no tool at all.
call_tolerant == BOOLEAN

\* Up to three observe tools are called; what counts is whether one answered.
Observe(i) ==
    /\ i \in DOMAIN desk /\ desk[i].at = "observe"
    /\ \E observed \in call_tolerant :
           desk' = [desk EXCEPT ![i] = [at |-> "simulate", observed |-> observed]]
    /\ UNCHANGED <<objective, plan, waves, outputs, status>>

\* No tool or a failed call, an answer without a simulation block, a block
\* without confidence intervals, or one with them.
Simulate(i) ==
    /\ i \in DOMAIN desk /\ desk[i].at = "simulate"
    /\ \E simulation \in {"none", "odd", "bare", "ci"} :
           desk' = [desk EXCEPT ![i] = [at |-> "propose", observed |-> @.observed,
                                        simulation |-> simulation]]
    /\ UNCHANGED <<objective, plan, waves, outputs, status>>

\* Analysis and proposal: the patterns, matched on the step's words and the
\* objective's after them, raise the tier and route the best candidate.
Propose(i) ==
    /\ i \in DOMAIN desk /\ desk[i].at = "propose"
    /\ \E m \in Metrics(plan[i].owner, desk[i].observed, desk[i].simulation \in {"bare", "ci"}),
          lodged \in call_tolerant :
           LET tier == implied_tier(plan[i].owner, m)
               ok == desk[i].observed \/ desk[i].simulation # "none" \/ lodged
               urgent == objective.urgent \/ plan[i].urgent
               acts == objective.acts \/ plan[i].acts
           IN  desk' = [desk EXCEPT ![i] =
                  [at |-> "done",
                   output |-> Output(i, ok, desk[i].simulation = "ci",
                                     IF urgent THEN bump_tier(tier, 2) ELSE tier,
                                     acts,
                                     candidate_actions(plan[i].owner, m) \/ acts)]]
    /\ UNCHANGED <<objective, plan, waves, outputs, status>>

\* Any step of a desk may raise: an observer's answer of an odd shape, the trail.
Crash(i) ==
    /\ i \in DOMAIN desk /\ desk[i].at # "done"
    /\ desk' = [desk EXCEPT ![i] = [at |-> "done", output |-> Degraded(i)]]
    /\ UNCHANGED <<objective, plan, waves, outputs, status>>

\* Bug: gather without return_exceptions: the wave is never folded.
Bug_Settled(i) == desk[i].at = "done" /\ desk[i].output # Degraded(i)

Settled(i) == desk[i].at = "done"

\* ready.sort: the steps of a wave as the plan orders them.
InOrder(steps) ==
    CHOOSE order \in Bijection(1..Cardinality(steps), steps) :
        \A k, l \in DOMAIN order : k < l => order[k] < order[l]

\* gather has returned: the wave is folded in the plan's order, the next one starts.
Fold ==
    /\ status = "sensed" /\ waves # <<>>
    /\ \A i \in Head(waves) : Settled(i)
    /\ LET order == InOrder(Head(waves)) IN
       outputs' = outputs \o [k \in DOMAIN order |-> desk[order[k]].output]
    /\ waves' = Tail(waves)
    /\ desk' = [i \in (IF Tail(waves) = <<>> THEN {} ELSE Head(Tail(waves))) |-> [at |-> "observe"]]
    /\ UNCHANGED <<objective, plan, status>>

-----------------------------------------------------------------------------
(* Critic, decision, gate *)

\* The challenges of high severity: claims without evidence, candidates without
\* a rehearsal, an execution request no candidate of which is routed to a human.
Challenged(output) ==
    \/ output.claims /\ ~output.ok
    \/ output.claims /\ ~output.rehearsed
    \/ output.acts /\ ~output.routed

requires_human == \E k \in DOMAIN outputs : Challenged(outputs[k])

\* The greatest of the outputs' tiers, at least low.
implied == Max({0} \union {outputs[k].tier : k \in DOMAIN outputs})

\* Bug: the critic's escalation does not raise the tier.
Bug_aggregate ==
    [execute |-> \E k \in DOMAIN outputs : outputs[k].acts, tier |-> implied]

aggregate ==
    [execute |-> \E k \in DOMAIN outputs : outputs[k].acts,
     tier |-> IF requires_human THEN bump_tier(implied, 2) ELSE implied]

\* PolicyGate.check_decision allows every decision and asks for a review.
check_decision(decision) ==
    [allowed |-> TRUE, review |-> decision.execute \/ decision.tier >= 2]

Close ==
    /\ status = "sensed" /\ waves = <<>>
    /\ LET verdict == check_decision(aggregate) IN
       status' = IF ~verdict.allowed THEN "blocked"
                 ELSE IF verdict.review THEN "awaiting_human"
                 ELSE IF ~aggregate.execute THEN "complete" ELSE "blocked"
    /\ UNCHANGED <<objective, plan, waves, desk, outputs>>

CasesInit ==
    /\ objective \in Objectives
    /\ plan = <<>> /\ waves = <<>> /\ desk = <<>> /\ outputs = <<>>
    /\ status = "opened"

Proceed == \/ Plan \/ Sense \/ Fold \/ Close
           \/ \E i \in DOMAIN desk : Observe(i) \/ Simulate(i) \/ Propose(i)

\* Outside the desks nothing is caught: an exception of the planner, of sensing, of
\* the critic or of the trail ends handle_case, once the desks of a wave are done.
Abandon ==
    /\ \/ status \in {"opened", "planned"}
       \/ status = "sensed" /\ \A i \in DOMAIN desk : Settled(i)
    /\ plan' = <<>> /\ waves' = <<>> /\ desk' = <<>> /\ outputs' = <<>>
    /\ status' = "abandoned"
    /\ UNCHANGED objective

CasesNext == Proceed \/ Abandon \/ \E i \in DOMAIN desk : Crash(i)

\* Every await of handle_case returns: the event loop runs the desks on.
CasesSpec == CasesInit /\ [][CasesNext]_caseVars /\ WF_caseVars(Proceed)

-----------------------------------------------------------------------------
(* Properties *)

Closed == status \notin {"none", "opened", "planned", "sensed", "abandoned"}

\* A case that closes without a human has heard every desk its objective
\* mentions, and nobody among them who answered raised a concern: no tier above
\* medium, no candidate without evidence or rehearsal, no request to execute.
CompleteMeansClear ==
    status = "complete" =>
        /\ {objective.mentions[k] : k \in DOMAIN objective.mentions}
               \subseteq {plan[outputs[k].step].owner : k \in DOMAIN outputs}
        /\ \A k \in DOMAIN outputs :
               /\ outputs[k].tier < 2 /\ ~outputs[k].acts
               /\ outputs[k].claims => outputs[k].ok /\ outputs[k].rehearsed

\* However the desks of a wave interleave or fail, each step runs once, after all
\* it depends on has been folded, and the decision reads the outputs of a wave
\* in the plan's order.
RunsFollowThePlan ==
    /\ \A k, l \in DOMAIN outputs : outputs[k].step = outputs[l].step => k = l
    /\ \A k \in DOMAIN outputs : plan[outputs[k].step].deps
                                     \subseteq {outputs[l].step : l \in 1..(k - 1)}
    /\ \A i \in DOMAIN desk :
           plan[i].deps \subseteq {outputs[k].step : k \in DOMAIN outputs}
    /\ Closed => Len(outputs) = Len(plan)

\* Every case is closed, whatever its desks do, unless an exception from outside
\* the desks reaches the caller of handle_case.
EveryCaseCloses == status = "opened" ~> Closed \/ status = "abandoned"

=============================================================================
