--------------------------------- MODULE Desks ---------------------------------
(***************************************************************************)
(* The tools of the five domain packs (fintwinos/tools/domains): what each  *)
(* reads of the twin t, given its arguments a, and answers.  Only the three *)
(* execute tools write; Workbench has their steps.                          *)
(*                                                                          *)
(* The twin is its graph (nodes with attributes, typed edges), its series   *)
(* and its documents.  An entity is <<type, id>>, an attribute or argument  *)
(* that is not given is not in the record's domain.  Amounts are integers   *)
(* in a unit that makes every rounding of the code exact; rows are sets     *)
(* where the order is only for display.  Texts are left out.                *)
(* Definitions named Bug_... are mutated forms used to test the properties. *)
(***************************************************************************)
EXTENDS Integers, FiniteSets, SequencesExt, FiniteSetsExt, Functions

CONSTANT Simulators   \* the simulators registered on the runtime

\* An argument, or an attribute, with the default the code gives it.
Get(record, field, default) == IF field \in DOMAIN record THEN record[field] ELSE default

Raises == [ok |-> FALSE]
Ok(data) == [ok |-> TRUE, data |-> data]

Magnitude(x) == IF x < 0 THEN -x ELSE x

\* A dictionary updated with the entries of another.
Updated(old, new) == [x \in DOMAIN old \cup DOMAIN new |-> IF x \in DOMAIN new THEN new[x] ELSE old[x]]

\* A list sorted by a key of which no two elements have the same: S in the
\* order of the pairs of `ahead`.
Ranked(S, ahead) ==
    [i \in 1..Cardinality(S) |->
        CHOOSE x \in S : Cardinality({y \in S : <<y, x>> \in ahead}) = i - 1]

\* entities_of_type, over NetworkXGraphStore, which has no listing method.
entities_of_type(t, type) == {ref \in DOMAIN t.nodes : ref[1] = type}

\* run_simulator and simulation_payload: a simulation is a function of its
\* scenario and seed.
run_simulator(name, scenario, seed) ==
    IF name \notin Simulators THEN Raises
    ELSE Ok([simulator |-> name, scenario |-> scenario, seed |-> seed])

\* derive_seed, unless the caller gives a seed.
derive_seed(a, parts) == Get(a, "seed", parts)

\* ToolSpec, its schema being the arguments it requires and those it allows:
\* additionalProperties is false everywhere.
ToolSpec(name, band, tier, effect, required, optional) ==
    [name |-> name, band |-> band, risk_tier |-> tier, side_effect |-> effect,
     required |-> required, allowed |-> required \cup optional]

--------------------------------------------------------------------------------
(* Risk *)

\* The first of a position's own label, its instrument's, and "unknown".
Label(t, p, field) ==
    LET i == <<"instrument", Get(t.nodes[p], "instrument_id", "")>>
        of_instrument == IF i \in DOMAIN t.nodes THEN Get(t.nodes[i], field, "unknown") ELSE "unknown"
    IN  Get(t.nodes[p], field, of_instrument)

load_positions(t) ==
    {[id |-> p[2], asset_class |-> Label(t, p, "asset_class"), currency |-> Label(t, p, "currency"),
      value |-> Get(t.nodes[p], "market_value", 0)] : p \in entities_of_type(t, "position")}

Gross(rows) == SumFunction([r \in rows |-> Magnitude(r.value)])
Net(rows) == SumFunction([r \in rows |-> r.value])

\* _aggregate
aggregate_by(rows, field) ==
    [key \in {r[field] : r \in rows} |->
        LET group == {r \in rows : r[field] = key} IN [gross |-> Gross(group), net |-> Net(group)]]

observe_positions(t, a) ==
    LET rows == {r \in load_positions(t) : r.asset_class = Get(a, "asset_class", r.asset_class)} IN
    Ok([count |-> Cardinality(rows), total |-> Net(rows), gross |-> Gross(rows)])

observe_positions_spec == ToolSpec("observe_positions", "observe", "low", "read", {}, {"account_id", "asset_class", "limit"})

observe_exposures(t, a) ==
    LET rows == load_positions(t) IN
    Ok([gross |-> Gross(rows), net |-> Net(rows),
             by |-> [field \in ({"asset_class", "currency"} \cap Get(a, "by", {"asset_class", "currency"})) |->
                        aggregate_by(rows, field)]])

observe_exposures_spec == ToolSpec("observe_exposures", "observe", "low", "read", {}, {"by"})

\* A limit of a class or a currency nobody holds is measured against zero.
\* warn_threshold is in percent.
observe_limit_utilisation(t, a) ==
    LET rows == load_positions(t)
        Exposure(l) ==
            IF l.scope_type \in {"asset_class", "currency"}
            THEN Gross({r \in rows : r[l.scope_type] = l.scope_value}) ELSE Gross(rows)
        Status(l) ==
            IF l.limit_value <= 0 THEN "invalid_limit"
            ELSE IF Exposure(l) >= l.limit_value THEN "breach"
            ELSE IF Exposure(l) * 100 >= l.limit_value * Get(a, "warn_threshold", 75) THEN "warning"
            ELSE "ok"
    IN Ok([limits |-> {[id |-> ref[2], exposure |-> Exposure(t.nodes[ref]), status |-> Status(t.nodes[ref])] :
                    ref \in {l \in entities_of_type(t, "limit") :
                                t.nodes[l].scope_type = Get(a, "scope_type", t.nodes[l].scope_type)}}])

observe_limit_utilisation_spec ==
    ToolSpec("observe_limit_utilisation", "observe", "medium", "read", {}, {"scope_type", "warn_threshold"})

\* RegimeDetector.detect, on the scores of the points: stressed from a score
\* that reaches enter_z until one that falls to exit_z; the first window of
\* points is calm.
detect(scores, window, enter_z, exit_z) ==
    LET stressed[i \in 0..Len(scores)] ==
            i > window /\ IF stressed[i - 1] THEN scores[i] > exit_z ELSE scores[i] >= enter_z
    IN  [i \in DOMAIN scores |-> stressed[i]]

\* RegimeDetector.__init__: two thresholds that do not cross.
valid_detector(window, enter_z, exit_z) == window >= 2 /\ exit_z >= 0 /\ enter_z > exit_z

\* The series holds the score of each point of the signal.
observe_market_regime(t, a) ==
    LET priced == {key \in DOMAIN t.series : key[1] = "price:"}
        window == Get(a, "window", 20)
        enter_z == Get(a, "enter_z", 3)
        exit_z == Get(a, "exit_z", 1)
        Regime(scores) ==
            IF Len(scores) <= window THEN Ok([regime |-> "too short"])
            ELSE IF ~valid_detector(window, enter_z, exit_z) THEN Raises
            ELSE LET labels == detect(scores, window, enter_z, exit_z) IN
                 Ok([regime |-> IF Last(labels) THEN "stressed" ELSE "calm",
                          change_points |-> {i \in DOMAIN labels \ {1} : labels[i] # labels[i - 1]}])
    IN  IF "series_key" \in DOMAIN a THEN Regime(Get(t.series, a.series_key, <<>>))
        ELSE IF "instrument_id" \in DOMAIN a THEN Regime(Get(t.series, <<"price:", a.instrument_id>>, <<>>))
        ELSE IF priced = {} THEN Ok([regime |-> "no series"])
        ELSE Regime(t.series[CHOOSE key \in priced : TRUE])

observe_market_regime_spec ==
    ToolSpec("observe_market_regime", "observe", "low", "read", {},
         {"instrument_id", "series_key", "on", "window", "enter_z", "exit_z"})

simulate_market_shock(t, a) ==
    run_simulator("market", [shock_pct |-> a.shock_pct, horizon_days |-> Get(a, "horizon_days", 10)],
                  derive_seed(a, <<"market", a.scenario_name, a.shock_pct>>))

simulate_market_shock_spec ==
    ToolSpec("simulate_market_shock", "simulate", "medium", "none", {"scenario_name", "shock_pct"},
         {"asset_classes", "horizon_days", "n_paths", "seed"})

\* Costs in tenths of a basis point, effectiveness in percent.
HEDGE_UNIVERSE ==
    {[id |-> "FUT_ES", asset_class |-> "equity", cost |-> 16, effectiveness |-> 92],
     [id |-> "FUT_SX5E", asset_class |-> "equity", cost |-> 21, effectiveness |-> 85],
     [id |-> "FUT_UST10Y", asset_class |-> "rates", cost |-> 11, effectiveness |-> 90],
     [id |-> "FUT_BUND", asset_class |-> "rates", cost |-> 13, effectiveness |-> 84],
     [id |-> "CDX_IG_5Y", asset_class |-> "credit", cost |-> 32, effectiveness |-> 80],
     [id |-> "ITRX_MAIN_5Y", asset_class |-> "credit", cost |-> 36, effectiveness |-> 78],
     [id |-> "FX_FWD_EURUSD", asset_class |-> "fx", cost |-> 9, effectiveness |-> 95],
     [id |-> "FX_FWD_GBPUSD", asset_class |-> "fx", cost |-> 10, effectiveness |-> 93],
     [id |-> "FUT_BRENT", asset_class |-> "commodity", cost |-> 27, effectiveness |-> 82]}

\* Bug: the hedge takes the side of the exposure.
Bug_hedge_rows(net, ratio, universe) ==
    {[hedge |-> h, direction |-> IF net[h.asset_class] > 0 THEN 1 ELSE -1,
      reduction |-> Magnitude(net[h.asset_class]) * ratio * h.effectiveness] : h \in universe}

\* A candidate's direction, 1 to buy and -1 to sell, and the reduction expected
\* of it; the ratio is in percent.
hedge_rows(net, ratio, universe) ==
    {[hedge |-> h, direction |-> IF net[h.asset_class] > 0 THEN -1 ELSE 1,
      reduction |-> Magnitude(net[h.asset_class]) * ratio * h.effectiveness] : h \in universe}

\* The score is the reduction per unit of cost.
HigherScore(rows) ==
    {p \in rows \X rows : p[1].hedge.effectiveness * p[2].hedge.cost > p[2].hedge.effectiveness * p[1].hedge.cost}

propose_hedge_candidates(t, a) ==
    LET exposures == aggregate_by(load_positions(t), "asset_class")
        net == [class \in DOMAIN exposures |-> exposures[class].net]
        universe == {h \in HEDGE_UNIVERSE :
                        /\ h.asset_class = Get(a, "asset_class", h.asset_class)
                        /\ Get(net, h.asset_class, 0) # 0
                        /\ h.cost <= Get(a, "max_cost_bps", h.cost)}
        rows == hedge_rows(net, Get(a, "hedge_ratio", 80), universe)
        ranked == Ranked(rows, HigherScore(rows))
    IN Ok([candidates |-> SubSeq(ranked, 1, Min({Len(ranked), Get(a, "max_candidates", 5)})),
                considered |-> net])

propose_hedge_candidates_spec ==
    ToolSpec("propose_hedge_candidates", "propose", "medium", "none", {},
         {"asset_class", "hedge_ratio", "max_cost_bps", "max_candidates"})

--------------------------------------------------------------------------------
(* Treasury *)

\* Projected balances: the opening one and what has moved until the day, which is
\* nothing on a day without a bucket.
Balances(ladder, horizon) ==
    [day \in 0..horizon |->
        Get(ladder, "opening", 0) + SumFunction([d \in 1..day |-> Get(Get(ladder, "flows", <<>>), d, 0)])]

\* A ladder is in the currency it says it is in, or in that of its id.
LadderCurrency(t, ref) == Get(t.nodes[ref], "currency", ref[2])

LaddersIn(t, wanted) ==
    {ref \in entities_of_type(t, "cash_ladder") : LadderCurrency(t, ref) \in wanted}

\* _build_ladders: the ladders of the graph, or else, flat, the latest balances
\* of the series called *.cash.<currency>.
build_ladders(t, wanted, horizon) ==
    LET entries == entities_of_type(t, "cash_ladder")
        flat == {key \in DOMAIN t.series : key[1] = ".cash." /\ t.series[key] # <<>>}
        Row(currency, ladder) ==
            [currency |-> currency, trough |-> Min(Range(Balances(ladder, horizon)))]
    IN IF entries # {}
       THEN {Row(LadderCurrency(t, e), t.nodes[e]) : e \in LaddersIn(t, wanted)}
       ELSE {Row(key[2], [opening |-> Last(t.series[key]), flows |-> <<>>]) :
                key \in {x \in flat : x[2] \in wanted}}

CashKeys == {"cash_ladder:", ".cash_ladder.", ".cash."}

\* _find_cash_series: the canonical key or any that mentions cash.
find_cash_series(t, currency) ==
    LET cash == {key \in DOMAIN t.series : key[2] = currency /\ key[1] \in CashKeys} IN
    IF <<"cash_ladder:", currency>> \in cash THEN <<"cash_ladder:", currency>>
    ELSE IF cash = {} THEN "none" ELSE CHOOSE key \in cash : TRUE

observe_cash_ladder(t, a) ==
    Ok([ladders |-> build_ladders(t, Get(a, "currencies", {"USD", "EUR", "GBP", "CHF"}),
                                       Get(a, "horizon_days", 7))])

observe_cash_ladder_spec ==
    ToolSpec("observe_cash_ladder", "observe", "low", "read", {}, {"currencies", "horizon_days"})

\* Too short a history gets the random walk instead of AR(order), one point no
\* forecast; a backtest takes three origins after the training window.
observe_cash_forecast(t, a) ==
    LET key == Get(a, "series_key", find_cash_series(t, Get(a, "currency", "USD")))
        order == Get(a, "order", 2)
        n == IF key = "none" THEN 0 ELSE Len(Get(t.series, key, <<>>))
    IN IF n < 2 THEN Raises
       ELSE Ok([model |-> IF n >= order + 2 THEN "AR" ELSE "naive", series |-> key,
                     backtest |-> n - Max({order + 2, n \div 2}) >= 3])

observe_cash_forecast_spec ==
    ToolSpec("observe_cash_forecast", "observe", "low", "read", {},
         {"currency", "series_key", "horizon_days", "level", "order"})

simulate_liquidity_stress(t, a) ==
    run_simulator("treasury", [horizon_days |-> a.horizon_days, currencies |-> a.currencies,
                               shock_bps |-> Get(a, "shock_bps", 0), ticket_id |-> a.ticket_id],
                  <<"treasury", a.stress_name, a.ticket_id, a.horizon_days, Get(a, "shock_bps", 0)>>)

simulate_liquidity_stress_spec ==
    ToolSpec("simulate_liquidity_stress", "simulate", "high", "none",
         {"horizon_days", "stress_name", "currencies", "assumptions_version", "ticket_id"}, {"shock_bps"})

\* Costs in basis points, capacities in units of fifty million.
FUNDING_SOURCES ==
    {[source |-> "overnight_repo_gc", cost_bps |-> 18, capacity |-> 3, max_tenor_days |-> 7],
     [source |-> "interbank_deposit", cost_bps |-> 24, capacity |-> 2, max_tenor_days |-> 14],
     [source |-> "fx_swap", cost_bps |-> 29, capacity |-> 4, max_tenor_days |-> 30],
     [source |-> "committed_credit_facility", cost_bps |-> 55, capacity |-> 8, max_tenor_days |-> 30]}

Eligible(horizon) == {s \in FUNDING_SOURCES : s.max_tenor_days >= horizon}

\* The loop over the sources: each lends what is left to raise, up to its
\* capacity; an empty tranche stands for one that is not listed.
raise_from(target, order) ==
    LET done[i \in 0..Len(order)] ==
            IF i = 0 THEN [remaining |-> target, tranches |-> <<>>]
            ELSE LET take == Min({done[i - 1].remaining, order[i].capacity}) IN
                 [remaining |-> done[i - 1].remaining - take,
                  tranches |-> Updated(done[i - 1].tranches, [s \in {order[i]} |-> take])]
    IN  done[Len(order)]

Ahead(sources, key) == {p \in sources \X sources : p[1][key] < p[2][key]}

\* Bug: the smallest source first.
Bug_fund(target, horizon) ==
    raise_from(target, Ranked(Eligible(horizon), Ahead(Eligible(horizon), "capacity")))

\* The eligible sources, the cheapest first.
fund(target, horizon) ==
    raise_from(target, Ranked(Eligible(horizon), Ahead(Eligible(horizon), "cost_bps")))

\* The shortfall is the caller's amount or the depth of the trough: none, if
\* the twin has no ladder of the currency; of several it is that of the first, by
\* ids whose order the model does not have.  The buffer is in halves.
propose_funding_plan(t, a) ==
    LET horizon == Get(a, "horizon_days", 7)
        trough == LET ladders == build_ladders(t, {a.currency}, horizon) IN
                  IF ladders = {} THEN 0 ELSE (CHOOSE l \in ladders : TRUE).trough
        amount == Get(a, "amount", Max({0, -trough}))
        target == (amount * (2 + Get(a, "buffer_ratio", 0))) \div 2
        plan == fund(target, horizon)
    IN Ok([funding_required |-> target > 0, horizon_days |-> horizon, shortfall |-> amount, target |-> target,
                tranches |-> IF target > 0 THEN plan.tranches ELSE <<>>,
                uncovered |-> IF target > 0 THEN plan.remaining ELSE 0])

propose_funding_plan_spec ==
    ToolSpec("propose_funding_plan", "propose", "medium", "none", {"currency"}, {"amount", "horizon_days", "buffer_ratio"})

execute_post_transfer_spec ==
    ToolSpec("execute_post_transfer", "execute", "high", "reversible",
         {"from_account", "to_account", "amount", "currency", "ticket_id"}, {"value_date", "reference"})

--------------------------------------------------------------------------------
(* Compliance *)

\* NetworkXGraphStore.neighbors: within depth hops, in either direction.
neighbors(t, start, kinds, depth) ==
    LET reached[d \in 0..depth] ==
            IF d = 0 THEN {start}
            ELSE reached[d - 1] \cup
                 UNION {IF e[2] \notin kinds THEN {} ELSE
                        IF e[1] \in reached[d - 1] THEN {e[3]}
                        ELSE IF e[3] \in reached[d - 1] THEN {e[1]} ELSE {} : e \in t.edges}
    IN  reached[depth] \ {start}

EdgeKinds(t) == {e[2] : e \in t.edges}

\* _load_alerts: an alert's entities are an attribute of its node; scores are
\* low (0), moderate (1) or high (2).
load_alerts(t) ==
    {[id |-> ref[2], kind |-> Get(t.nodes[ref], "kind", "unknown"), score |-> Get(t.nodes[ref], "score", 0),
      severity |-> Get(t.nodes[ref], "severity", "medium"), status |-> Get(t.nodes[ref], "status", "new"),
      entities |-> Get(t.nodes[ref], "entities", {})] : ref \in entities_of_type(t, "alert")}

alerts_touching(t, refs) == {alert \in load_alerts(t) : alert.entities \cap refs # {}}

SEVERITY_ORDER == [low |-> 0, medium |-> 1, high |-> 2, critical |-> 3]

observe_alerts(t, a) ==
    Ok([alerts |-> {r \in load_alerts(t) :
        /\ r.status = Get(a, "status", r.status)
        /\ r.kind = Get(a, "kind", r.kind)
        /\ "min_severity" \in DOMAIN a =>
               Get(SEVERITY_ORDER, r.severity, 0) >= SEVERITY_ORDER[a.min_severity]}])

observe_alerts_spec == ToolSpec("observe_alerts", "observe", "low", "read", {}, {"status", "kind", "min_severity", "limit"})

\* The entities of a case: those of its record and those linked to its node.
CaseEntities(t, case) == Get(t.nodes[case], "entities", {}) \cup neighbors(t, case, EdgeKinds(t), 1)

observe_case(t, a) ==
    LET case == <<"case", a.case_id>> IN
    IF case \notin DOMAIN t.nodes THEN Raises
    ELSE Ok([status |-> Get(t.nodes[case], "status", "open"),
                  linked |-> neighbors(t, case, EdgeKinds(t), 1),
                  related |-> alerts_touching(t, CaseEntities(t, case))])

observe_case_spec == ToolSpec("observe_case", "observe", "low", "read", {"case_id"}, {})

\* _egonet: the subgraph around the centre, or hop by hop along one kind.
egonet(t, centre, depth, kinds) ==
    LET nodes == {centre} \cup neighbors(t, centre, kinds, depth) IN
    [nodes |-> nodes, edges |-> {e \in t.edges : e[2] \in kinds /\ e[1] \in nodes /\ e[3] \in nodes}]

observe_entity_graph(t, a) ==
    LET centre == <<a.entity_type, a.entity_id>> IN
    IF centre \notin DOMAIN t.nodes THEN Raises
    ELSE Ok(egonet(t, centre, Get(a, "depth", 1), IF "kind" \in DOMAIN a THEN {a.kind} ELSE EdgeKinds(t)))

observe_entity_graph_spec ==
    ToolSpec("observe_entity_graph", "observe", "low", "read", {"entity_type", "entity_id"}, {"depth", "kind"})

simulate_alert_threshold(t, a) ==
    run_simulator("compliance", [threshold |-> a.threshold, lookback_days |-> Get(a, "lookback_days", 90)],
                  derive_seed(a, <<"compliance", a.threshold, Get(a, "alert_kind", "all")>>))

simulate_alert_threshold_spec ==
    ToolSpec("simulate_alert_threshold", "simulate", "medium", "none", {"threshold"}, {"alert_kind", "lookback_days", "seed"})

\* _signal_strength: that of the strongest alert.
signal_strength(alerts) == Max({0} \cup {alert.score : alert \in alerts})

\* _RECOMMENDATIONS
Recommendation(strength) ==
    CASE strength = 2 -> "escalate" [] strength = 1 -> "investigate" [] strength = 0 -> "close"

\* The first n of a list sorted by ids, whose order the model does not have.
FirstOf(S, n) == CHOOSE T \in kSubset(Min({n, Cardinality(S)}), S) : TRUE

propose_case_narrative(t, a) ==
    LET case == <<"case", a.case_id>> IN
    IF case \notin DOMAIN t.nodes THEN Raises
    ELSE LET subjects == FirstOf(neighbors(t, case, EdgeKinds(t), 1), Get(a, "max_related_entities", 10))
             alerts == alerts_touching(t, Get(t.nodes[case], "entities", {}) \cup subjects) IN
         Ok([case |-> case, sources |-> alerts,
                  recommended |-> Recommendation(signal_strength(alerts))])

propose_case_narrative_spec ==
    ToolSpec("propose_case_narrative", "propose", "medium", "none", {"case_id"}, {"include_graph", "max_related_entities"})

execute_close_case_spec ==
    ToolSpec("execute_close_case", "execute", "high", "reversible",
         {"case_id", "disposition", "closure_note", "ticket_id"}, {})

--------------------------------------------------------------------------------
(* Customer operations *)

\* _load_queues: a wait is estimated, and an SLA at risk, only if agents are on shift.
load_queues(t) ==
    {LET q == t.nodes[ref]
         staffed == Get(q, "agents_on_shift", 0) > 0 IN
     [id |-> ref[2], agents |-> Get(q, "agents_on_shift", 0),
      arrival |-> Get(q, "arrival_rate_per_hour", 0), sla |-> Get(q, "sla_minutes", 0),
      sla_at_risk |-> /\ staffed /\ Get(q, "sla_minutes", 0) > 0
                      /\ Get(q, "depth", 0) * Get(q, "avg_handle_minutes", 0)
                             > Get(q, "sla_minutes", 0) * q.agents_on_shift]
     : ref \in entities_of_type(t, "queue")}

observe_queue_state(t, a) ==
    LET queues == {q \in load_queues(t) : q.id = Get(a, "queue_id", q.id)} IN
    IF "queue_id" \in DOMAIN a /\ queues = {} THEN Raises ELSE Ok([queues |-> queues])

observe_queue_state_spec == ToolSpec("observe_queue_state", "observe", "low", "read", {}, {"queue_id"})

\* A queue without agents, or no queue at all, is simulated with eight.
simulate_staffing_change(t, a) ==
    LET queues == load_queues(t)
        named == {q \in queues : q.id = a.queue_id}
        agents == IF \E q \in named : q.agents # 0 THEN (CHOOSE q \in named : TRUE).agents ELSE 8
    IN IF queues # {} /\ named = {} THEN Raises
       ELSE run_simulator("customer_ops",
                [queue_id |-> a.queue_id, n_agents |-> Max({agents + a.delta_agents, 1})],
                derive_seed(a, <<"customer_ops", a.queue_id, a.delta_agents, Get(a, "horizon_hours", 8)>>))

simulate_staffing_change_spec ==
    ToolSpec("simulate_staffing_change", "simulate", "low", "none", {"queue_id", "delta_agents"}, {"horizon_hours", "seed"})

\* The greeting names a known customer.
propose_response_draft(t, a) ==
    LET customer == <<"customer", a.customer_id>> IN
    Ok([category |-> a.category, review |-> TRUE,
             greets |-> IF customer \in DOMAIN t.nodes THEN Get(t.nodes[customer], "name", "Customer") ELSE "Customer"])

propose_response_draft_spec ==
    ToolSpec("propose_response_draft", "propose", "low", "none", {"customer_id", "category"}, {"case_id", "key_points"})

execute_send_response_spec ==
    ToolSpec("execute_send_response", "execute", "medium", "reversible",
         {"customer_id", "channel", "subject", "body", "ticket_id"}, {"case_id"})

--------------------------------------------------------------------------------
(* Filings *)

\* What the document store finds for a query, as the rows of _document_row.
document_rows(t, query) == {d \in t.documents : query \in d.terms}

observe_filing_search(t, a) ==
    Ok([results |-> {d \in document_rows(t, a.query) : d.doc_type = Get(a, "doc_type", d.doc_type)}])

observe_filing_search_spec == ToolSpec("observe_filing_search", "observe", "low", "read", {"query"}, {"k", "doc_type"})

\* Documents with the tag, and among them policies, are preferred if there are any.
observe_policy_lookup(t, a) ==
    LET Preferred(rows, some) == IF some # {} THEN some ELSE rows
        rows == document_rows(t, Get(a, "query", Get(a, "tag", "")))
        tagged == Preferred(rows, {d \in rows : "tag" \in DOMAIN a /\ a.tag \in d.tags})
    IN Ok([results |-> Preferred(tagged, {d \in tagged : d.kind = "policy"})])

observe_policy_lookup_spec == ToolSpec("observe_policy_lookup", "observe", "low", "read", {}, {"query", "tag", "k"})

--------------------------------------------------------------------------------
(* The catalogue *)

\* build_default_registry: the packs of ALL_DOMAINS.
Catalogue ==
    {observe_positions_spec, observe_exposures_spec, observe_limit_utilisation_spec,
     observe_market_regime_spec, simulate_market_shock_spec, propose_hedge_candidates_spec,
     observe_cash_ladder_spec, observe_cash_forecast_spec, simulate_liquidity_stress_spec,
     propose_funding_plan_spec, execute_post_transfer_spec,
     observe_alerts_spec, observe_case_spec, observe_entity_graph_spec,
     simulate_alert_threshold_spec, propose_case_narrative_spec, execute_close_case_spec,
     observe_queue_state_spec, simulate_staffing_change_spec, propose_response_draft_spec,
     execute_send_response_spec, observe_filing_search_spec, observe_policy_lookup_spec}

\* The handlers of the tools that only read.
Handle(tool, t, a) ==
    CASE tool = "observe_positions" -> observe_positions(t, a)
      [] tool = "observe_exposures" -> observe_exposures(t, a)
      [] tool = "observe_limit_utilisation" -> observe_limit_utilisation(t, a)
      [] tool = "observe_market_regime" -> observe_market_regime(t, a)
      [] tool = "simulate_market_shock" -> simulate_market_shock(t, a)
      [] tool = "propose_hedge_candidates" -> propose_hedge_candidates(t, a)
      [] tool = "observe_cash_ladder" -> observe_cash_ladder(t, a)
      [] tool = "observe_cash_forecast" -> observe_cash_forecast(t, a)
      [] tool = "simulate_liquidity_stress" -> simulate_liquidity_stress(t, a)
      [] tool = "propose_funding_plan" -> propose_funding_plan(t, a)
      [] tool = "observe_alerts" -> observe_alerts(t, a)
      [] tool = "observe_case" -> observe_case(t, a)
      [] tool = "observe_entity_graph" -> observe_entity_graph(t, a)
      [] tool = "simulate_alert_threshold" -> simulate_alert_threshold(t, a)
      [] tool = "propose_case_narrative" -> propose_case_narrative(t, a)
      [] tool = "observe_queue_state" -> observe_queue_state(t, a)
      [] tool = "simulate_staffing_change" -> simulate_staffing_change(t, a)
      [] tool = "propose_response_draft" -> propose_response_draft(t, a)
      [] tool = "observe_filing_search" -> observe_filing_search(t, a)
      [] tool = "observe_policy_lookup" -> observe_policy_lookup(t, a)

\* The schema the registry checks before the gates; the lookup of a policy
\* needs a query or a tag.
valid_arguments(spec, a) ==
    /\ spec.required \subseteq DOMAIN a /\ DOMAIN a \subseteq spec.allowed
    /\ spec.name = "observe_policy_lookup" => {"query", "tag"} \cap DOMAIN a # {}

================================================================================
