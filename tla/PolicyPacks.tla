------------------------------ MODULE PolicyPacks ------------------------------
(***************************************************************************)
(* The YAML policy packs (fintwinos/policy/rules.py, policy/packs): rules   *)
(* whose conditions compare arguments of the call with constants, and the   *)
(* list gate_from_packs makes of the shipped packs.                         *)
(*                                                                          *)
(* A rule's conditions are given by the arguments that satisfy them.        *)
(* Amounts of a transfer are in units of 125 000, the recall in percent.    *)
(* Definitions named Bug_... are mutated forms used to test the properties. *)
(***************************************************************************)
EXTENDS PolicyGate, Integers

TransferLimit == 2

ApprovedCurrencies == {"USD", "EUR", "GBP"}

\* _compare; the arguments a schema lets through have the type of the operand.
Compare(operator, actual, expected) ==
    CASE operator = "eq" -> actual = expected
      [] operator = "in" -> actual \in expected
      [] operator = "lt" -> actual < expected
      [] operator = "lte" -> actual <= expected
      [] operator = "gt" -> actual > expected
      [] operator = "gte" -> actual >= expected

\* Bug: a limit is compared as if it were strictly below what it allows.
Bug_Where(field, operator, expected) ==
    {a \in Arguments : field \in DOMAIN a /\
        Compare(IF operator = "gt" THEN "lt" ELSE operator, a[field], expected)}

\* A condition of a YamlRule: a field that is not given satisfies none.
Where(field, operator, expected) ==
    {a \in Arguments : field \in DOMAIN a /\ Compare(operator, a[field], expected)}

\* YamlRule.matches: what is not given accepts everything.
YamlRule(effect, bands, tools, tier, side_effects, conditions) ==
    [effect |-> effect, bands |-> bands, tools |-> tools \cap ToolNames, min_risk_tier |-> tier,
     side_effects |-> side_effects, conditions |-> conditions]

ToolRule(effect, tools, conditions) == YamlRule(effect, Bands, tools, "low", SideEffects, conditions)

\* packs/baseline.yaml, the rules PolicyGate has by default.
BaselinePack ==
    <<YamlRule("deny", {"execute"}, ToolNames, "critical", {"irreversible"}, Arguments),
      YamlRule("require_approval", {"propose"}, ToolNames, "high", SideEffects, Arguments),
      YamlRule("require_approval", {"execute"}, ToolNames, "low", SideEffects, Arguments)>>

\* packs/compliance.yaml
CompliancePack ==
    <<ToolRule("deny", {"execute_close_case", "propose_close_case"}, Where("model_recall", "lt", 92)),
      ToolRule("deny", {"execute_close_case"},
               Where("disposition", "eq", "dismiss") \cap Where("priority", "in", {"high", "critical"})),
      ToolRule("allow", {"execute_close_case"}, Where("model_recall", "gte", 92)),
      ToolRule("require_approval", {"execute_close_case", "propose_close_case"}, Arguments)>>

\* packs/trading_limits.yaml: no tool of the catalogue places or cancels an order.
TradingPack ==
    <<ToolRule("deny", {"execute_place_order"}, Where("notional", "gt", 8)),
      ToolRule("deny", {"execute_place_order"}, Where("instrument_restricted", "eq", TRUE)),
      ToolRule("allow", {"execute_place_order"}, Where("notional", "lte", 8)),
      ToolRule("allow", {"execute_cancel_order"}, Arguments),
      ToolRule("require_approval", {"execute_place_order", "execute_cancel_order"}, Arguments)>>

\* packs/treasury.yaml
TreasuryPack ==
    <<ToolRule("deny", {"execute_post_transfer"}, Where("amount", "gt", TransferLimit)),
      ToolRule("allow", {"execute_post_transfer"},
               Where("amount", "lte", TransferLimit) \cap Where("currency", "in", ApprovedCurrencies)),
      ToolRule("require_approval", {"execute_post_transfer"}, Arguments)>>

\* load_pack_model refuses a pack that has no rule, load_default_packs an empty
\* directory; gate_from_packs: every pack, in the order of their file names.
gate_from_packs == BaselinePack \o CompliancePack \o TradingPack \o TreasuryPack

================================================================================
