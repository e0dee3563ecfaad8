------------------------------ MODULE PolicyGate ------------------------------
(***************************************************************************)
(* The policy gate the tool registry consults before every call:           *)
(* RbacGate (fintwinos/policy/rbac.py) checks the caller's role against the *)
(* tool's band and delegates to PolicyGate (fintwinos/policy/gates.py),     *)
(* which walks an ordered list of rules.  The verdict is a function of the  *)
(* rules, the tool, its arguments and the role; the list itself changes     *)
(* only by add_rule.                                                        *)
(*                                                                          *)
(* A rule's None fields, glob patterns and conditions are given by the      *)
(* bands, tools, side effects and arguments they accept.  A verdict keeps   *)
(* what the registry acts on: allowed and requires_human_review.            *)
(* Definitions named Bug_... are mutated forms used to test the properties. *)
(***************************************************************************)
EXTENDS Naturals, Sequences, Rbac

CONSTANTS
    Specs,         \* the registered tools: a set of tool specs
    Arguments,     \* the arguments calls are made with
    InitialRules,  \* the rule list the gate is built with
    AddedRules,    \* the rules that may be added while it runs
    MaxRules       \* bound of the list's length

RISK_ORDER == [low |-> 0, medium |-> 1, high |-> 2, critical |-> 3]
RiskTiers == DOMAIN RISK_ORDER
SideEffects == {"none", "read", "reversible", "irreversible"}
ReadOnlyEffects == {"none", "read"}

ToolNames == {spec.name : spec \in Specs}

\* ToolSpec, with the band invariants its validator enforces.
BandInvariants(spec) ==
    IF spec.band = "execute" THEN spec.side_effect \notin ReadOnlyEffects
    ELSE spec.side_effect \in ReadOnlyEffects

PolicyRule ==
    [effect : {"allow", "deny", "require_approval"}, bands : SUBSET Bands,
     tools : SUBSET ToolNames, min_risk_tier : RiskTiers,
     side_effects : SUBSET SideEffects, conditions : SUBSET Arguments]

ASSUME SpecsAssumption ==
    \A spec \in Specs :
        /\ spec.band \in Bands
        /\ spec.risk_tier \in RiskTiers
        /\ spec.side_effect \in SideEffects
        /\ BandInvariants(spec)

ASSUME RulesAssumption ==
    AddedRules \subseteq PolicyRule /\ InitialRules \in Seq(PolicyRule)

VARIABLE rules

-----------------------------------------------------------------------------
(* The verdict *)

Verdict == [allowed : BOOLEAN, review : BOOLEAN]

Denied == [allowed |-> FALSE, review |-> TRUE]

\* PolicyRule.matches
matches(rule, spec, arguments) ==
    /\ spec.band \in rule.bands
    /\ spec.name \in rule.tools
    /\ RISK_ORDER[spec.risk_tier] >= RISK_ORDER[rule.min_risk_tier]
    /\ spec.side_effect \in rule.side_effects
    /\ arguments \in rule.conditions

\* One turn of the loop over the rules.  denied stands for the early return.
Consider(seen, rule, spec, arguments) ==
    IF seen.denied \/ ~matches(rule, spec, arguments) THEN seen
    ELSE [denied |-> rule.effect = "deny",
          allowed |-> seen.allowed \/ rule.effect = "allow",
          review |-> seen.review \/ rule.effect = "require_approval"]

\* Bug: an allow rule seen before a deny wins over it.
Bug_Concluded(seen, spec) ==
    IF seen.denied /\ ~seen.allowed THEN Denied
    ELSE IF spec.band = "execute" /\ ~seen.allowed THEN Denied
    ELSE [allowed |-> TRUE, review |-> seen.review]

\* Bug: only irreversible tools are denied by default.
Bug_Concluded_Default(seen, spec) ==
    IF seen.denied THEN Denied
    ELSE IF spec.side_effect = "irreversible" /\ ~seen.allowed THEN Denied
    ELSE [allowed |-> TRUE, review |-> seen.review]

\* After the loop: the execute band is denied without an explicit allow.
Concluded(seen, spec) ==
    IF seen.denied THEN Denied
    ELSE IF spec.band = "execute" /\ ~seen.allowed THEN Denied
    ELSE [allowed |-> TRUE, review |-> seen.review]

check_rules(list, spec, arguments) ==
    LET seen[i \in 0..Len(list)] ==
            IF i = 0 THEN [denied |-> FALSE, allowed |-> FALSE, review |-> FALSE]
            ELSE Consider(seen[i - 1], list[i], spec, arguments)
    IN  Concluded(seen[Len(list)], spec)

\* RbacGate.check_tool_call, the default gate chain: a role that may not act
\* in the band, or that does not exist, is denied before any rule is read.
check_tool_call(list, spec, arguments, role) ==
    IF can(role, spec.band) THEN check_rules(list, spec, arguments) ELSE Denied

-----------------------------------------------------------------------------
(* The rule list *)

Added(rule, prepend) ==
    IF prepend THEN <<rule>> \o rules ELSE Append(rules, rule)

add_rule(rule, prepend) ==
    /\ Len(rules) < MaxRules
    /\ rules' = Added(rule, prepend)

RulesInit == rules = InitialRules

-----------------------------------------------------------------------------
(* Properties *)

Matching(effect, spec, arguments) ==
    {i \in DOMAIN rules : /\ rules[i].effect = effect
                          /\ matches(rules[i], spec, arguments)}

\* The semantics of the module docstring of gates.py: a matching deny denies;
\* the execute band needs a matching allow; anything else is allowed; review is
\* asked for when a matching rule requires it.  The order of the rules decides
\* nothing else.
VerdictIsAsDocumented ==
    \A spec \in Specs, arguments \in Arguments :
        LET verdict == check_rules(rules, spec, arguments) IN
        /\ verdict.allowed <=>
               /\ Matching("deny", spec, arguments) = {}
               /\ \/ spec.band # "execute"
                  \/ Matching("allow", spec, arguments) # {}
        /\ verdict.allowed =>
               (verdict.review <=>
                    Matching("require_approval", spec, arguments) # {})

\* The in-process kill switch of docs/runbooks/incident-response.md: once a deny
\* rule that matches a call has been added, no rule added later lets it pass.
FreezeHolds ==
    [][Len(rules') > Len(rules) =>
         \A spec \in Specs, arguments \in Arguments, role \in Roles :
             Matching("deny", spec, arguments) # {} =>
                 ~check_tool_call(rules', spec, arguments, role).allowed]_rules

=============================================================================
