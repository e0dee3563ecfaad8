------------------------------- MODULE MCAgents -------------------------------
(***************************************************************************)
(* Model checking of Evaluation with Cases: objectives that mention none,   *)
(* one, two or three desks, calm, urgent or asking to act; refinements that *)
(* reorder, split, parallelise, sharpen or break the plan; suites alone and *)
(* in a row.                                                                *)
(***************************************************************************)
EXTENDS Evaluation

Mentions ==
    {<<>>, <<"treasury", "compliance">>, <<"risk", "customer_ops">>,
     <<"compliance", "risk", "treasury">>}

MCObjectives ==
    {[mentions |-> m, urgent |-> u, acts |-> a] : m \in Mentions, u \in BOOLEAN, a \in BOOLEAN}

Step(owner, deps) == [owner |-> owner, deps |-> deps, urgent |-> FALSE, acts |-> FALSE]

MCRefinements ==
    {<<>>,
     <<Step("compliance", {}), Step("treasury", {})>>,
     <<[Step("treasury", {}) EXCEPT !.urgent = TRUE],
       [Step("compliance", {1}) EXCEPT !.acts = TRUE]>>,
     <<Step("compliance", {})>>,
     <<Step("compliance", {}), Step("treasury", {3}), Step("compliance", {})>>,
     <<Step("treasury", {}), Step("compliance", {1}), Step("treasury", {1, 2})>>,
     <<Step("risk", {}), Step("compliance", {}), Step("treasury", {1, 2})>>}

\* The suite's own: alerts, liquidity and the complaint backlog.
Calm(owner) == [mentions |-> <<owner>>, urgent |-> FALSE, acts |-> FALSE]

MCFixedObjectives == <<Calm("compliance"), Calm("treasury"), Calm("customer_ops")>>

MCRequests ==
    {<<"function_calls">>, <<"consistency">>, <<"domain_risk">>,
     <<"domain_treasury", "domain_compliance", "domain_customer_ops">>}

\* domain_metrics.py and consistency.py; the benchmark is cut to 20 requests.
MCSize ==
    [function_calls |-> 20, consistency |-> 3, domain_risk |-> 5,
     domain_treasury |-> 3, domain_compliance |-> 3, domain_customer_ops |-> 1]

===============================================================================
