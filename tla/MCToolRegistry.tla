--------------------------- MODULE MCToolRegistry ---------------------------
(***************************************************************************)
(* Model checking of ToolRegistry: an execute tool and a proposal that the  *)
(* shipped rules flag for review, and rules that open and freeze the        *)
(* execute band.                                                            *)
(***************************************************************************)
EXTENDS ToolRegistry

Transfer == [name |-> "execute_transfer", band |-> "execute",
             risk_tier |-> "high", side_effect |-> "reversible"]

Hedge == [name |-> "propose_hedge", band |-> "propose",
          risk_tier |-> "high", side_effect |-> "none"]

BothTools == {Transfer, Hedge}
OnlyTransfer == {Transfer}

Rule(effect, band, tools) ==
    [effect |-> effect, bands |-> {band}, tools |-> {spec.name : spec \in tools},
     min_risk_tier |-> "low", side_effects |-> SideEffects,
     conditions |-> Arguments]

ReviewRules ==
    <<Rule("require_approval", "execute", Specs),
      Rule("require_approval", "propose", Specs)>>

OpenRules == Append(ReviewRules, Rule("allow", "execute", Specs))

OpenAndFreeze ==
    {Rule("allow", "execute", Specs), Rule("deny", "execute", Specs)}

\* lost: the keyed tools whose handler ran to its end without the result
\* reaching the cache, because the call raised behind the handler.
VARIABLE lost

KeyOf(c) == <<req(c).tool.name, req(c).key>>

MCInit == Init /\ lost = {}

MCNext ==
    /\ Next
    /\ lost' = {k \in DOMAIN ran :
           /\ ran'[k] > 0
           /\ \/ k \in lost
              \/ /\ ran'[k] > ran[k]
                 /\ \E c \in Calls : At(c, "running") /\ KeyOf(c) = k
                                      /\ call'[c].answer = "raised"}

MCSpec == MCInit /\ [][MCNext]_<<vars, lost>>

\* "At-most-once execution is provided uniformly by the registry's ... replay
\* cache" (ToolSpec), as far as calls made one after the other can tell: until
\* the process restarts a key runs a tool's handler once, however often the
\* call is retried, with whatever settings, rules, tokens and dry runs in
\* between, unless a call raised after its handler had finished.
OneRunPerKey == \A k \in DOMAIN ran : k \in lost \/ ran[k] <= 1

=============================================================================
