----------------------------- MODULE MCWorkbench -----------------------------
(***************************************************************************)
(* Model checking of Workbench: every tool of the catalogue is called, on a *)
(* small demo twin that events and direct writes change in any order.       *)
(***************************************************************************)
EXTENDS Workbench

MCSimulators == {"market", "treasury", "customer_ops"}

Case == <<"case", "k1">>
Account == <<"account", "a1">>

MCDemo ==
    [nodes |-> (Case :> [status |-> "open", priority |-> "high"]) @@ (Account :> <<>>)
               @@ (<<"customer", "c1">> :> [name |-> "Ann"])
               @@ (<<"instrument", "i1">> :> [asset_class |-> "equity", currency |-> "USD"]),
     edges |-> {<<Case, "involves", Account>>},
     series |-> (<<"cash_ladder:", "USD">> :> <<2, 3, 1, 2, 2, 1, 0>>)
                @@ (<<"price:", "i1">> :> <<0, 0, 3, 2, 1>>),
     documents |-> {[id |-> "p1", terms |-> {"aml", "limits"}, tags |-> {"aml"}, kind |-> "policy", doc_type |-> "policy"],
                    [id |-> "d1", terms |-> {"aml"}, tags |-> {}, kind |-> "other", doc_type |-> "10-K"]}]

MCEvents == {
    [kind |-> "alert", refs |-> <<<<"alert", "l1">>, Account>>, payload |-> [score |-> 2, status |-> "new"]],
    [kind |-> "case", refs |-> <<<<"case", "k2">>, <<"customer", "c1">>>>, payload |-> [status |-> "open"]],
    [kind |-> "position", refs |-> <<Account, <<"instrument", "i1">>>>],
    [kind |-> "market", key |-> <<".cash.", "USD">>, value |-> -3]}

MCUpserts == {
    <<<<"cash_ladder", "USD">>, [opening |-> 2, flows |-> <<-3, -4, 6>>]>>,
    <<<<"cash_ladder", "main">>, [currency |-> "EUR", opening |-> 1, flows |-> <<-20>>]>>,
    <<<<"position", "p1">>, [instrument_id |-> "i1", market_value |-> 5]>>,
    <<<<"position", "p2">>, [asset_class |-> "rates", currency |-> "EUR", market_value |-> -3]>>,
    <<<<"limit", "m1">>, [scope_type |-> "asset_class", scope_value |-> "equity", limit_value |-> 5]>>,
    <<<<"queue", "q1">>, [depth |-> 9, avg_handle_minutes |-> 5, agents_on_shift |-> 2, sla_minutes |-> 10]>>,
    <<<<"alert", "l2">>, [score |-> 1, entities |-> {Account}]>>}

Call(spec, arguments) == [spec |-> spec, arguments |-> arguments]

Transfer(amount, currency) ==
    Call(execute_post_transfer_spec,
         [from_account |-> "a1", to_account |-> "a2", amount |-> amount, currency |-> currency, ticket_id |-> "t"])

Closure(id) ==
    Call(execute_close_case_spec,
         [case_id |-> id, disposition |-> "false_positive", closure_note |-> "note", ticket_id |-> "t"])

\* What only depends on the demo twin is called once of each kind.
MCCalls == {
    Call(observe_positions_spec, [asset_class |-> "rates"]),
    Call(observe_exposures_spec, <<>>),
    Call(observe_limit_utilisation_spec, <<>>),
    Call(observe_market_regime_spec, [window |-> 2]),
    Call(simulate_market_shock_spec, [scenario_name |-> "s", shock_pct |-> 5]),
    Call(propose_hedge_candidates_spec, <<>>),
    Call(propose_hedge_candidates_spec, [asset_class |-> "equity", hedge_ratio |-> 100, max_candidates |-> 1]),
    Call(observe_cash_ladder_spec, <<>>),
    Call(observe_cash_forecast_spec, <<>>),
    Call(observe_cash_forecast_spec, [currency |-> "CHF"]),
    Call(simulate_liquidity_stress_spec, [horizon_days |-> 7, stress_name |-> "s", currencies |-> {"USD"},
                                          assumptions_version |-> "v1", ticket_id |-> "t"]),
    Call(propose_funding_plan_spec, [currency |-> "USD", horizon_days |-> 3]),
    Call(propose_funding_plan_spec, [currency |-> "EUR", horizon_days |-> 14, buffer_ratio |-> 1]),
    Call(propose_funding_plan_spec, [currency |-> "USD", amount |-> 6]),
    Call(observe_alerts_spec, [min_severity |-> "medium"]),
    Call(observe_case_spec, [case_id |-> "k1"]),
    Call(observe_case_spec, [case_id |-> "k2"]),
    Call(observe_entity_graph_spec, [entity_type |-> "account", entity_id |-> "a1", depth |-> 2]),
    Call(observe_entity_graph_spec, [entity_type |-> "alert", entity_id |-> "l1", kind |-> "concerns"]),
    Call(simulate_alert_threshold_spec, [threshold |-> 50]),
    Call(propose_case_narrative_spec, [case_id |-> "k1"]),
    Call(propose_case_narrative_spec, [case_id |-> "k2", max_related_entities |-> 1]),
    Call(observe_queue_state_spec, <<>>),
    Call(simulate_staffing_change_spec, [queue_id |-> "q1", delta_agents |-> -2]),
    Call(propose_response_draft_spec, [customer_id |-> "c1", category |-> "query"]),
    Call(observe_filing_search_spec, [query |-> "aml", doc_type |-> "10-K"]),
    Call(observe_policy_lookup_spec, [tag |-> "aml"]),
    Call(observe_policy_lookup_spec, [k |-> 5]),
    Transfer(2, "USD"), Transfer(3, "USD"), Transfer(1, "CHF"),
    Closure("k1"), Closure("k2"),
    Call(execute_close_case_spec, [Closure("k1").arguments EXCEPT !.ticket_id = "u"] @@ [model_recall |-> 95]),
    Call(execute_send_response_spec, [customer_id |-> "c1", channel |-> "email", subject |-> "s",
                                      body |-> "b", ticket_id |-> "t"])}

\* The gate's properties are evaluated for the tools its rules tell apart.
Governed == {spec \in Catalogue : spec.band \in {"propose", "execute"}}

MCArguments == {c.arguments : c \in {d \in MCCalls : d.spec.band = "execute"}}

MCRules == gate_from_packs

MCAddedRules == {
    YamlRule("allow", {"execute"}, ToolNames, "low", SideEffects, Arguments),
    YamlRule("deny", {"execute"}, ToolNames, "low", SideEffects, Arguments),
    ToolRule("deny", {"propose_funding_plan"}, Where("currency", "eq", "CHF")),
    YamlRule("require_approval", Bands, ToolNames, "low", {"read", "none"}, Arguments)}

=============================================================================
