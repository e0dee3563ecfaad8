------------------------------ MODULE Evaluation ------------------------------
(***************************************************************************)
(* fintwinos/evals: run_suites assembles the suites it is asked for, runs   *)
(* them one after the other and judges the release gates on their results.  *)
(* A suite whose environment could not be built is skipped, one that raises *)
(* before its cases is in error, and a case that raises counts as failed.   *)
(* The consistency suite runs handle_case, that is the module Cases, several *)
(* times on each of its objectives.  extra_metrics, which no try protects,  *)
(* takes rates and extremes of lists it found nonempty: it does not raise.  *)
(*                                                                          *)
(* The gates count results and take their least and greatest values, so the *)
(* results of a suite are kept as a bag of what happened in its cases.      *)
(* Survival days, recall and breach rate are kept up to their thresholds,   *)
(* rates in percent.  Latencies, reports and the suites that no gate reads  *)
(* are left out.                                                            *)
(***************************************************************************)
EXTENDS Cases, Bags

CONSTANTS
    Requests,       \* the sequences of suites that may be asked for
    Size,           \* the number of cases of each suite
    NRuns,          \* runs of each objective of the consistency suite
    FixedObjectives \* the objectives of that suite

ASSUME EvaluationAssumption ==
    Requests \subseteq Seq(STRING) /\ FixedObjectives \in Seq(ObjectiveType)

VARIABLES
    suites,   \* the suites asked for
    built,    \* what _build_environment has managed to build; "llm" if it is online
    results,  \* of the suite that is running
    runs,     \* of its current objective: how handle_case ended
    summaries \* per suite: skipped, error, or ok with its results

evalVars == <<suites, built, results, runs, summaries>>

evaluationVars == <<caseVars, evalVars>>

Reported == DOMAIN summaries

\* The suites are run in order: the first one that has no summary is running.
Running(s) ==
    \E k \in DOMAIN suites :
        /\ suites[k] = s /\ s \notin Reported
        /\ \A l \in 1..(k - 1) : suites[l] \in Reported

\* The copies a bag holds of the members of S, and of all.
Count(bag, S) == SumFunctionOnSet(bag, DOMAIN bag \cap S)

Total(bag) == SumFunction(bag)

-----------------------------------------------------------------------------
(* What may happen in a case, and what its result says *)

Raised == [raised |-> TRUE]

\* The tool a subject picks, if any, and whether all arguments are as expected.
\* The router that answers offline picks tools of the catalog only.
Predictions ==
    [tool : {"expected"}, exact : BOOLEAN]
    \union [tool : {"other"} \union (IF "llm" \in built THEN {"invented"} ELSE {}), exact : {FALSE}]

\* A simulator's answer: a clean result with metrics, and with a shortfall.
Coverages == [covered : BOOLEAN, es : BOOLEAN]

\* A metric that is missing, or worse than, at, or better than its threshold.
Levels == {[metric |-> FALSE]} \union [metric : {TRUE}, level : 0..2]

Outcomes(s) ==
    CASE s = "function_calls" -> Predictions
      [] s = "domain_risk" -> Coverages
      [] s \in {"domain_treasury", "domain_compliance", "domain_customer_ops"} -> Levels

\* Scores are in twelfths.
Full == 12

\* score_prediction: one half for the tool, one half for the share of its arguments.
PredictionScore(o) == IF o.tool # "expected" THEN 0 ELSE IF o.exact THEN Full ELSE Full \div 2

\* _modal_share: the copies of the most frequent value.
Modal(values, bag) ==
    LET Share(v) == Count(bag, {p \in DOMAIN bag : v \in {p.status, p.action}})
    IN  Max({Share(v) : v \in values})

\* The agreement of the runs on a status and on an action, one half each.
AgreementScore(o) ==
    (6 * (Modal({"complete", "awaiting_human", "blocked"}, o.runs)
          + Modal({"execute", "propose_only"}, o.runs))) \div NRuns

Scored(s, o) ==
    CASE o = Raised -> 0
      [] o # Raised /\ s = "function_calls" -> PredictionScore(o)
      [] o # Raised /\ s = "consistency" -> AgreementScore(o)

-----------------------------------------------------------------------------
(* Metrics and gates *)

AtLeast(percent, n, bag) == bag # EmptyBag /\ 100 * n >= percent * Total(bag)

AtMost(percent, n, bag) == bag # EmptyBag /\ 100 * n <= percent * Total(bag)

\* The values measured: a case that raised or had no metric contributes none.
Measured(bag) == {o.level : o \in {p \in DOMAIN bag \ {Raised} : p.metric}}

Bug_Greatest(bag) == IF Measured(bag) = {} THEN 0 ELSE Max(Measured(bag))

\* min_survival_days and recall, 0 when nothing was measured; sla_breach_rate, 1.0
\* when nothing was.  Levels of the latter grow with the rate.
Least(bag) == IF Measured(bag) = {} THEN 0 ELSE Min(Measured(bag))

Greatest(bag) == IF Measured(bag) = {} THEN 2 ELSE Max(Measured(bag))

Gate(suite, metric, blocks) == [suite |-> suite, metric |-> metric, blocks |-> blocks]

builtin_gates ==
    {Gate("function_calls", "pass_rate", "write-enabled tools"),
     Gate("function_calls", "hallucinated_tool_rate", "write-enabled tools"),
     Gate("consistency", "mean_score", "agent autonomy"),
     Gate("domain_risk", "scenario_coverage", "risk simulator"),
     Gate("domain_risk", "es_present_rate", "risk simulator"),
     Gate("domain_treasury", "min_survival_days", "treasury recommendations"),
     Gate("domain_compliance", "recall", "automated alert triage"),
     Gate("domain_customer_ops", "sla_breach_rate", "staffing proposals")}

Scores(s, bag) == SumFunction([o \in DOMAIN bag |-> bag[o] * Scored(s, o)])

\* The metric of a suite against its threshold.
Clears(metric, bag) ==
    CASE metric = "pass_rate" ->
            AtLeast(95, Count(bag, {o \in DOMAIN bag : Scored("function_calls", o) = Full}), bag)
      [] metric = "hallucinated_tool_rate" ->
            AtMost(2, Count(bag, {o \in DOMAIN bag \ {Raised} : o.tool = "invented"}), bag)
      [] metric = "mean_score" -> AtLeast(90 * Full, Scores("consistency", bag), bag)
      [] metric = "scenario_coverage" ->
            AtLeast(80, Count(bag, {o \in DOMAIN bag \ {Raised} : o.covered}), bag)
      [] metric = "es_present_rate" ->
            AtLeast(100, Count(bag, {o \in DOMAIN bag \ {Raised} : o.covered /\ o.es}), bag)
      [] metric \in {"min_survival_days", "recall"} -> Least(bag) >= 1
      [] metric = "sla_breach_rate" -> Greatest(bag) <= 1

\* release_gates: no evidence, no promotion.
Passed(gate) ==
    /\ gate.suite \in Reported
    /\ summaries[gate.suite].status = "ok"
    /\ Clears(gate.metric, summaries[gate.suite].results)

-----------------------------------------------------------------------------
(* The runner *)

\* preflight: the simulators and the registry hang on the runtime.
Available(s) ==
    CASE s = "function_calls" -> TRUE
      [] s = "consistency" -> {"runtime", "registry"} \subseteq built
      [] s \notin {"function_calls", "consistency"} -> {"runtime", "simulators"} \subseteq built

Summarised(s, summary) ==
    /\ summaries' = [t \in Reported \union {s} |-> IF t = s THEN summary ELSE summaries[t]]
    /\ results' = EmptyBag
    /\ UNCHANGED <<caseVars, suites, built, runs>>

Skip(s) ==
    /\ Running(s) /\ ~Available(s)
    /\ Summarised(s, [status |-> "skipped"])

\* An exception of default_subject or preflight.
Break(s) ==
    /\ Running(s) /\ Total(results) = 0 /\ Total(runs) = 0 /\ status = "none"
    /\ Summarised(s, [status |-> "error"])

summarise(s) ==
    /\ Running(s) /\ Total(results) = Size[s]
    /\ Summarised(s, [status |-> "ok", results |-> results])

CaseIsDue(s) == Running(s) /\ Available(s) /\ Total(results) < Size[s]

Result(o) == results' = results (+) SetToBag({o}) /\ runs' = EmptyBag

evaluate_case(s) ==
    /\ s # "consistency" /\ CaseIsDue(s)
    /\ \E o \in Outcomes(s) : Result(o)
    /\ UNCHANGED <<caseVars, suites, built, summaries>>

\* Between two cases handle_case has no state.
NoCase == [mentions |-> <<>>, urgent |-> FALSE, acts |-> FALSE]

CaseStands(s, o, p) ==
    /\ status' = s /\ objective' = o /\ plan' = p
    /\ waves' = <<>> /\ desk' = <<>> /\ outputs' = <<>>

\* The consistency suite calls handle_case on its next objective.
Call ==
    /\ CaseIsDue("consistency") /\ status = "none" /\ Total(runs) < NRuns
    /\ \E k \in DOMAIN FixedObjectives :
           k = Total(results) + 1 /\ CaseStands("opened", FixedObjectives[k], <<>>)
    /\ UNCHANGED evalVars

\* handle_case returns: its status and its decision's action are kept.
Return ==
    /\ Closed /\ suites # <<>>
    /\ runs' = runs (+) SetToBag({[status |-> status,
                                  action |-> IF aggregate.execute THEN "execute" ELSE "propose_only"]})
    /\ CaseStands("none", NoCase, <<>>)
    /\ UNCHANGED <<suites, built, results, summaries>>

Agree ==
    /\ CaseIsDue("consistency") /\ Total(runs) = NRuns
    /\ Result([runs |-> runs])
    /\ UNCHANGED <<caseVars, suites, built, summaries>>

\* A case that raises (an exhausted budget, a broken simulator, the exception of
\* handle_case) is a failed one.
Raise(s) ==
    /\ CaseIsDue(s) /\ status \in {"none", "abandoned"}
    /\ Result(Raised)
    /\ CaseStands("none", NoCase, <<>>)
    /\ UNCHANGED <<suites, built, summaries>>

\* _build_environment: each part may fail, and no part stands without the runtime.
Environments ==
    {S \in SUBSET {"runtime", "registry", "simulators", "llm"} :
        S \subseteq {"llm"} \/ "runtime" \in S}

\* A case somebody opens, or an evaluation.
Init ==
    /\ results = EmptyBag /\ runs = EmptyBag /\ summaries = <<>>
    /\ \/ /\ CasesInit
          /\ suites = <<>> /\ built = {}
       \/ /\ suites \in Requests
          /\ built \in Environments
          /\ objective = NoCase /\ plan = <<>> /\ waves = <<>> /\ desk = <<>>
          /\ outputs = <<>> /\ status = "none"

EvalProceed ==
    \/ \E k \in DOMAIN suites :
           \/ Skip(suites[k]) \/ Break(suites[k]) \/ summarise(suites[k])
           \/ evaluate_case(suites[k]) \/ Raise(suites[k])
    \/ Call \/ Return \/ Agree
    \/ Proceed /\ UNCHANGED evalVars

Next ==
    \/ EvalProceed
    \/ CasesNext /\ UNCHANGED evalVars

\* The runner awaits one case after the other.
Spec == Init /\ [][Next]_evaluationVars /\ WF_evaluationVars(EvalProceed)

-----------------------------------------------------------------------------
(* Properties *)

\* What a gate blocks stays locked until all gates that block it pass.
Unlocked == {b \in {g.blocks : g \in builtin_gates} :
                \A g \in builtin_gates : g.blocks = b => Passed(g)}

\* The share of a suite's cases that went as wanted.
Share(percent, s, Good(_)) ==
    100 * Count(summaries[s].results, {o \in DOMAIN summaries[s].results \ {Raised} : Good(o)})
        >= percent * Size[s]

\* Some case was measured, and no measured one misses its threshold.
Cleared(s, levels) ==
    Measured(summaries[s].results) # {} /\ Measured(summaries[s].results) \subseteq levels

\* Gates only pass on positive evidence from a suite that ran (harness.py
\* release_gates): whatever could not be built, raised or went unmeasured,
\*   - write-enabled tools need 95 in 100 requests answered with the tool and the
\*     arguments expected,
\*   - autonomy 60 in 100 objectives the runs of which all agree,
\*   - the risk simulator a shortfall for every scenario,
\*   - the others a measured case, and none that misses the threshold.
UnlockedOnEvidence ==
    \A b \in Unlocked :
        CASE b = "write-enabled tools" ->
                Share(95, "function_calls", LAMBDA o : o = [tool |-> "expected", exact |-> TRUE])
          [] b = "agent autonomy" ->
                Share(60, "consistency", LAMBDA o : Cardinality(DOMAIN o.runs) = 1)
          [] b = "risk simulator" ->
                Share(100, "domain_risk", LAMBDA o : o = [covered |-> TRUE, es |-> TRUE])
          [] b = "treasury recommendations" -> Cleared("domain_treasury", {1, 2})
          [] b = "automated alert triage" -> Cleared("domain_compliance", {1, 2})
          [] b = "staffing proposals" -> Cleared("domain_customer_ops", {0, 1})

=============================================================================
