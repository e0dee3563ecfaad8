------------------------------- MODULE Workbench -------------------------------
(***************************************************************************)
(* Work over the tool catalogue: events and direct writes change the twin,  *)
(* callers run tools on it through the gate of the shipped policy packs,    *)
(* and the execute tools write documents to the outbox, the twin and the    *)
(* audit trail, in that order (tools/domains, tools/catalog.py, policy).    *)
(*                                                                          *)
(* Handlers are synchronous: nothing of the same process comes between the  *)
(* steps of an execute tool but its own failure or the end of the process.  *)
(* A new process starts with the demo twin; the outbox and the trail are    *)
(* files.  ToolRegistry has the rest of the registry's pipeline: here a     *)
(* call either passes it or has no effect.                                  *)
(***************************************************************************)
EXTENDS Desks, PolicyPacks

CONSTANTS
    DemoTwin,      \* the twin a process starts with
    Events,        \* what is ingested
    Upserts,       \* what is written to the graph directly: <<ref, attributes>>
    ToolCalls,         \* the tool calls made: [spec, arguments]
    Callers,       \* the roles of the callers
    MaxWrites,     \* bound on the changes of the twin and of the rules
    MaxDocuments,  \* bound on the outbox
    MaxFaults      \* bound on failures and restarts

\* The gate is that of the shipped packs; what the schemas let through as an
\* amount is a number.
ASSUME WorkbenchAssumption ==
    /\ InitialRules = gate_from_packs
    /\ \A c \in ToolCalls :
           /\ c.spec \in Catalogue
           /\ c.spec.band = "execute" => c.spec \in Specs /\ c.arguments \in Arguments
           /\ "amount" \in DOMAIN c.arguments => c.arguments.amount \in Int

ASSUME EventsAssumption == \A e \in Events : e.kind \in {"position", "alert", "case", "market"}

Nothing == [tool |-> "none"]

VARIABLES
    twin,     \* nodes, edges, series, documents
    hand,     \* the last answer: [tool, arguments, answer]
    doing,    \* the execute tool that is running
    outbox,   \* the documents written, closures being lines of one ledger
    trail,    \* the events execute tools appended to the audit trail
    writes,   \* changes of the twin and of the rules, up to MaxWrites
    faults    \* failures and restarts

benchVars == <<rules, twin, hand, doing, outbox, trail, writes, faults>>

--------------------------------------------------------------------------------
(* The twin *)

\* upsert_entity merges, add_relationship creates the ends that are missing.
Upserted(t, ref, attributes) ==
    [t EXCEPT !.nodes = Updated(@, [r \in {ref} |-> Updated(Get(t.nodes, ref, <<>>), attributes)])]

LinkedTo(t, ref, kind, refs) ==
    [t EXCEPT !.nodes = Updated([r \in refs |-> <<>>], @), !.edges = @ \cup {<<ref, kind, r>> : r \in refs}]

Related(t, from, kind, to) == LinkedTo(Upserted(t, from, <<>>), from, kind, {to})

\* TwinIngestor: the handlers whose writes the desks read, or should.  Positions
\* become edges; what an alert or a case is about becomes edges from its node.
Ingested(t, e) ==
    CASE e.kind = "position" -> Related(t, e.refs[1], "holds", e.refs[2])
      [] e.kind = "alert" -> LinkedTo(Upserted(t, e.refs[1], e.payload), e.refs[1], "concerns", Range(Tail(e.refs)))
      [] e.kind = "case" -> LinkedTo(Upserted(t, e.refs[1], e.payload), e.refs[1], "involves", Range(Tail(e.refs)))
      [] e.kind = "market" -> [t EXCEPT !.series = Updated(@, [k \in {e.key} |-> Append(Get(t.series, k, <<>>), e.value)])]

Quiet == doing = Nothing /\ hand = Nothing

Ingest(e) ==
    /\ Quiet /\ writes < MaxWrites
    /\ twin' = Ingested(twin, e)
    /\ writes' = writes + 1
    /\ UNCHANGED <<rules, hand, doing, outbox, trail, faults>>

Upsert(ref, attributes) ==
    /\ Quiet /\ writes < MaxWrites
    /\ twin' = Upserted(twin, ref, attributes)
    /\ writes' = writes + 1
    /\ UNCHANGED <<rules, hand, doing, outbox, trail, faults>>

--------------------------------------------------------------------------------
(* Tool calls *)

\* ToolRegistry.invoke: validation, the gate chain, and an approval token wherever
\* one is asked for; then Handle answers, or an execute tool begins.
Consult(c) ==
    /\ c.spec.band # "execute"
    /\ hand' = [tool |-> c.spec.name, arguments |-> c.arguments,
                answer |-> Handle(c.spec.name, twin, c.arguments)]
    /\ doing' = doing

\* execute_close_case raises on an unknown case; the others only warn about an
\* unknown account or customer.
Begin(c, token) ==
    /\ c.spec.band = "execute" /\ Cardinality(outbox) < MaxDocuments
    /\ c.spec.name = "execute_close_case" => <<"case", c.arguments.case_id>> \in DOMAIN twin.nodes
    /\ doing' = [tool |-> c.spec.name, arguments |-> c.arguments, approved |-> token, at |-> "write"]
    /\ hand' = hand

invoke(c, role) ==
    /\ Quiet /\ valid_arguments(c.spec, c.arguments)
    /\ LET verdict == check_tool_call(rules, c.spec, c.arguments, role) IN
       /\ verdict.allowed
       /\ \/ Consult(c)
          \/ \E token \in BOOLEAN : (verdict.review \/ c.spec.band = "execute" => token) /\ Begin(c, token)
    /\ UNCHANGED <<rules, twin, outbox, trail, writes, faults>>

\* The caller has read the answer.
PutAway ==
    /\ hand # Nothing /\ hand' = Nothing
    /\ UNCHANGED <<rules, twin, doing, outbox, trail, writes, faults>>

Document == [id |-> Cardinality(outbox) + 1, tool |-> doing.tool, arguments |-> doing.arguments,
             approved |-> doing.approved]

\* Bug: the twin and the trail are updated before the file is written.
Bug_WriteOutbox ==
    /\ doing # Nothing /\ doing.at = "write"
    /\ outbox' = outbox
    /\ trail' = trail \cup {[event |-> "queued", id |-> Cardinality(outbox) + 1]}
    /\ doing' = [doing EXCEPT !.at = IF doing.tool = "execute_close_case" THEN "twin" ELSE "audit"]
    /\ UNCHANGED <<rules, twin, hand, writes, faults>>

\* write_outbox_json, append_outbox_jsonl
WriteOutbox ==
    /\ doing # Nothing /\ doing.at = "write"
    /\ outbox' = outbox \cup {Document}
    /\ doing' = [doing EXCEPT !.at = IF doing.tool = "execute_close_case" THEN "twin" ELSE "audit"]
    /\ UNCHANGED <<rules, twin, hand, trail, writes, faults>>

\* execute_close_case marks the case; whether it is closed already is not asked.
MarkClosed ==
    /\ doing # Nothing /\ doing.at = "twin"
    /\ twin' = Upserted(twin, <<"case", doing.arguments.case_id>>,
                        [status |-> "closed", disposition |-> doing.arguments.disposition])
    /\ doing' = [doing EXCEPT !.at = "audit"]
    /\ UNCHANGED <<rules, hand, outbox, trail, writes, faults>>

\* outbox.transfer_queued, outbox.response_queued, case.closed
Record ==
    /\ doing # Nothing /\ doing.at = "audit"
    /\ trail' = trail \cup {[event |-> IF doing.tool = "execute_close_case" THEN "closed" ELSE "queued",
                             id |-> Cardinality(outbox)]}
    /\ doing' = Nothing
    /\ UNCHANGED <<rules, twin, hand, outbox, writes, faults>>

\* The write of a file, the outbox's or the trail's, fails and the handler raises.
Fail ==
    /\ doing # Nothing /\ doing.at # "twin" /\ faults < MaxFaults
    /\ doing' = Nothing /\ faults' = faults + 1
    /\ UNCHANGED <<rules, twin, hand, outbox, trail, writes>>

NewProcess ==
    /\ hand = Nothing /\ faults < MaxFaults /\ faults' = faults + 1
    /\ twin' = DemoTwin /\ hand' = Nothing /\ doing' = Nothing
    /\ rules' = InitialRules
    /\ UNCHANGED <<outbox, trail, writes>>

\* An operator edits the gate's list; a new process has the shipped one again.
Govern(rule, prepend) ==
    /\ Quiet /\ writes < MaxWrites
    /\ add_rule(rule, prepend)
    /\ writes' = writes + 1
    /\ UNCHANGED <<twin, hand, doing, outbox, trail, faults>>

BenchInit ==
    /\ RulesInit
    /\ twin = DemoTwin
    /\ hand = Nothing /\ doing = Nothing
    /\ outbox = {} /\ trail = {} /\ writes = 0 /\ faults = 0

BenchNext ==
    \/ \E e \in Events : Ingest(e)
    \/ \E w \in Upserts : Upsert(w[1], w[2])
    \/ \E c \in ToolCalls, role \in Callers : invoke(c, role)
    \/ PutAway \/ WriteOutbox \/ MarkClosed \/ Record \/ Fail \/ NewProcess
    \/ \E rule \in AddedRules, prepend \in BOOLEAN : Govern(rule, prepend)

BenchSpec == BenchInit /\ [][BenchNext]_benchVars

--------------------------------------------------------------------------------
(* Properties *)

\* The verdict is a function of the rules alone: it is compared with the
\* documented one before anything else has happened.
VerdictsAreAsDocumented ==
    twin = DemoTwin /\ outbox = {} /\ Quiet /\ faults = 0 => VerdictIsAsDocumented

\* What the trail says was queued or closed is in the outbox, and a document the
\* trail does not know of was left by a failure or a restart, one each; a case
\* the twin shows closed has its line in the ledger (common.py: the outbox is the
\* only place execute tools write).
TrailMatchesOutbox ==
    /\ {r.id : r \in trail} \subseteq {d.id : d \in outbox}
    /\ Cardinality(outbox) <= Cardinality(trail) + faults + (IF doing = Nothing THEN 0 ELSE 1)
    /\ \A ref \in entities_of_type(twin, "case") : Get(twin.nodes[ref], "status", "open") = "closed" =>
           \E d \in outbox : d.tool = "execute_close_case" /\ d.arguments.case_id = ref[2]

\* Under the shipped packs every document was approved by a human, and no
\* transfer is above the desk's limit whatever rules are added; in another than
\* an approved currency, none is queued unless a rule was added (treasury.yaml).
LimitsHold ==
    \A d \in outbox :
        /\ d.approved
        /\ d.tool = "execute_post_transfer" => d.arguments.amount <= TransferLimit
        /\ d.tool = "execute_post_transfer" /\ d.arguments.currency \notin ApprovedCurrencies
               => faults > 0 \/ Len(rules) > Len(InitialRules)

Answered(tool) == hand' # hand /\ hand'.tool = tool /\ hand'.answer.ok

Raised(plan) == SumFunction(plan.tranches)

\* The plan, answered to the arguments a over the twin t, raises the target from
\* sources that lend for so long, none beyond its capacity, and no dearer source
\* before a cheaper one is exhausted; once raised, a shortfall read from a
\* ladder of the currency leaves no day of it overdrawn.
Covers(t, a, plan) ==
    /\ plan.funding_required => Raised(plan) + plan.uncovered = plan.target
    /\ \A s \in DOMAIN plan.tranches :
           /\ plan.tranches[s] \in 0..s.capacity /\ s.max_tenor_days >= plan.horizon_days
           /\ plan.tranches[s] > 0 \/ plan.uncovered > 0 =>
                \A r \in Eligible(plan.horizon_days) :
                    r.cost_bps < s.cost_bps \/ (plan.uncovered > 0) => plan.tranches[r] = r.capacity
    /\ "amount" \notin DOMAIN a /\ plan.uncovered = 0 /\ LaddersIn(t, {a.currency}) # {} =>
           \E ladder \in LaddersIn(t, {a.currency}) : \A day \in 0..plan.horizon_days :
               Balances(t.nodes[ladder], plan.horizon_days)[day] + Raised(plan) >= 0

\* Every funding plan that is answered covers what it says it covers (treasury.py).
PlansCover ==
    [][Answered("propose_funding_plan") => Covers(twin, hand'.arguments, hand'.answer.data)]_hand

\* An exposure made smaller without being turned over.
Reduces(before, after) == Magnitude(after) < Magnitude(before) /\ (before > 0 <=> after > 0)

\* Each candidate of the list reduces the net exposure the twin t has to its
\* class, in units of a basis point of it, and none buys more for its cost than
\* one before it.
Offsets(t, list) ==
    LET NetOf(class) == 10000 * Net({r \in load_positions(t) : r.asset_class = class}) IN
    \A i \in DOMAIN list :
        /\ Reduces(NetOf(list[i].hedge.asset_class),
                   NetOf(list[i].hedge.asset_class) + list[i].direction * list[i].reduction)
        /\ \A j \in 1..(i - 1) : list[j].hedge.effectiveness * list[i].hedge.cost
                                     >= list[i].hedge.effectiveness * list[j].hedge.cost

\* The hedges that are proposed offset, whatever the positions are labelled with (risk.py).
HedgesOffset ==
    [][Answered("propose_hedge_candidates") => Offsets(twin, hand'.answer.data.candidates)]_hand

\* compliance.py, observe_case: "every alert touching those entities".  A case is
\* not proposed for closure while an alert of high score concerns an entity the
\* case involves.
SeriousAlertsAreHeard ==
    [][Answered("propose_case_narrative") /\ hand'.answer.data.recommended = "close" =>
         LET case == hand'.answer.data.case
             involved == {e[3] : e \in {x \in twin.edges : x[1] = case}}
         IN \A e \in twin.edges : e[2] = "concerns" /\ e[3] \in involved =>
                Get(twin.nodes[e[1]], "score", 0) < 2]_hand

================================================================================
