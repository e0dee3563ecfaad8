------------------------------ MODULE ToolsProofs -----------------------------
(***************************************************************************)
(* Proofs about ToolRegistry, the policy gate it consults, and Workbench,   *)
(* for any number of callers, tools, tokens, keys and rules: the verdict of *)
(* a rule list is the documented one whatever its length, a freeze holds,   *)
(* execute calls are governed, what a keyed call is told did happen; the    *)
(* shipped packs keep transfers inside their limits, and the audit trail    *)
(* never tells more than the outbox holds; a funding plan covers what it    *)
(* says it covers, and a hedge reduces the exposure it is proposed for.     *)
(***************************************************************************)
EXTENDS MCToolRegistry, Workbench, SequenceTheorems, FiniteSetTheorems, WellFoundedInduction, TLAPS

-----------------------------------------------------------------------------
(* Induction over the natural numbers, for sets instead of predicates *)

Before == {pair \in Nat \X Nat : pair[1] < pair[2]}

LEMMA LeastNatural ==
    ASSUME NEW S \in SUBSET Nat, S # {}
    PROVE  \E n \in S : \A m \in S : n <= m
<1>1. IsWellFoundedOn(Before, Nat)
  BY NatLessThanWellFounded DEF OpToRel, Before
<1>2. PICK n \in S : \A m \in S : <<m, n>> \notin Before
  BY <1>1, WFMin
<1>3. ASSUME NEW m \in S PROVE n <= m
  <2>1. m \in Nat /\ n \in Nat /\ ~(m < n)
    BY <1>2 DEF Before
  <2>2. QED BY <2>1
<1>4. QED BY <1>3

LEMMA Inductive ==
    ASSUME NEW S \in SUBSET Nat, 0 \in S, \A n \in S : n + 1 \in S
    PROVE  S = Nat
<1>1. SUFFICES ASSUME Nat \ S # {} PROVE FALSE
  OBVIOUS
<1>2. PICK n \in Nat \ S : \A m \in Nat \ S : n <= m
  BY <1>1, LeastNatural
<1>3. n - 1 \in Nat /\ n - 1 \in S
  BY <1>2
<1>4. QED BY <1>2, <1>3

-----------------------------------------------------------------------------
(* The verdict of a rule list *)

NothingSeen == [denied |-> FALSE, allowed |-> FALSE, review |-> FALSE]

\* seen is what check_rules has seen after each of the first n rules.
Walks(seen, n, list, spec, arguments) ==
    seen = [i \in 0..n |->
               IF i = 0 THEN NothingSeen
               ELSE Consider(seen[i - 1], list[i], spec, arguments)]

LEMMA WalkExists ==
    ASSUME NEW list, NEW spec, NEW arguments
    PROVE  \A n \in Nat : \E seen : Walks(seen, n, list, spec, arguments)
<1> DEFINE S == {n \in Nat : \E seen : Walks(seen, n, list, spec, arguments)}
<1>1. 0 \in S
  <2>1. Walks([i \in 0..0 |-> NothingSeen], 0, list, spec, arguments)
    BY DEF Walks
  <2>2. QED BY <2>1
<1>2. ASSUME NEW n \in S PROVE n + 1 \in S
  <2>1. PICK seen : Walks(seen, n, list, spec, arguments)
    OBVIOUS
  <2> DEFINE longer == [i \in 0..(n + 1) |->
                           IF i = n + 1 THEN Consider(seen[n], list[n + 1], spec, arguments)
                           ELSE seen[i]]
  <2>2. ASSUME NEW i \in 0..(n + 1)
        PROVE  longer[i] = IF i = 0 THEN NothingSeen
                           ELSE Consider(longer[i - 1], list[i], spec, arguments)
    <3>1. CASE i = n + 1
      <4>1. n \in 0..(n + 1) /\ n # n + 1 /\ i # 0 /\ i - 1 = n
        BY <3>1
      <4>2. QED BY <3>1, <4>1
    <3>2. CASE i # n + 1
      <4>1. i \in 0..n /\ longer[i] = seen[i]
        BY <3>2
      <4>2. i # 0 => longer[i - 1] = seen[i - 1]
        BY <3>2
      <4>3. seen[i] = IF i = 0 THEN NothingSeen
                      ELSE Consider(seen[i - 1], list[i], spec, arguments)
        BY <2>1, <4>1 DEF Walks
      <4>4. QED BY <4>1, <4>2, <4>3
    <3>3. QED BY <3>1, <3>2
  <2>3. Walks(longer, n + 1, list, spec, arguments)
    BY <2>2 DEF Walks
  <2>4. QED BY <2>3
<1>3. S = Nat
  BY <1>1, <1>2, Inductive
<1>4. QED BY <1>3

LEMMA VerdictWalks ==
    ASSUME NEW list, Len(list) \in Nat, NEW spec, NEW arguments
    PROVE  \E seen :
               /\ Walks(seen, Len(list), list, spec, arguments)
               /\ check_rules(list, spec, arguments) = Concluded(seen[Len(list)], spec)
<1> DEFINE seen == CHOOSE s : Walks(s, Len(list), list, spec, arguments)
<1>1. Walks(seen, Len(list), list, spec, arguments)
  BY WalkExists
<1>2. check_rules(list, spec, arguments) = Concluded(seen[Len(list)], spec)
  BY DEF check_rules, Walks, NothingSeen
<1>3. QED BY <1>1, <1>2

Hit(list, n, effect, spec, arguments) ==
    \E i \in 1..n : list[i].effect = effect /\ matches(list[i], spec, arguments)

\* What has been seen after n rules depends on what they are, not on their
\* order; a deny ends the walk, and what was seen before it does not matter.
Tells(seen, n, list, spec, arguments) ==
    /\ seen[n] \in [denied : BOOLEAN, allowed : BOOLEAN, review : BOOLEAN]
    /\ seen[n].denied <=> Hit(list, n, "deny", spec, arguments)
    /\ ~seen[n].denied =>
           /\ seen[n].allowed <=> Hit(list, n, "allow", spec, arguments)
           /\ seen[n].review <=> Hit(list, n, "require_approval", spec, arguments)

LEMMA HitNext ==
    ASSUME NEW list, NEW n \in Nat, NEW effect, NEW spec, NEW arguments
    PROVE  Hit(list, n + 1, effect, spec, arguments) <=>
               \/ Hit(list, n, effect, spec, arguments)
               \/ /\ list[n + 1].effect = effect
                  /\ matches(list[n + 1], spec, arguments)
<1>1. 1..(n + 1) = (1..n) \cup {n + 1}
  OBVIOUS
<1>2. QED BY <1>1 DEF Hit

LEMMA WalkTells ==
    ASSUME NEW list \in Seq(PolicyRule), NEW spec, NEW arguments, NEW seen,
           Walks(seen, Len(list), list, spec, arguments)
    PROVE  Tells(seen, Len(list), list, spec, arguments)
<1> DEFINE S == {n \in Nat : n <= Len(list) => Tells(seen, n, list, spec, arguments)}
<1>1. 0 \in S
  <2>1. seen[0] = NothingSeen
    BY DEF Walks
  <2>2. \A effect : ~Hit(list, 0, effect, spec, arguments)
    BY DEF Hit
  <2>3. seen[0] \in [denied : BOOLEAN, allowed : BOOLEAN, review : BOOLEAN]
    BY <2>1 DEF NothingSeen
  <2>4. ~seen[0].denied /\ ~seen[0].allowed /\ ~seen[0].review
    BY <2>1 DEF NothingSeen
  <2>5. QED BY <2>2, <2>3, <2>4 DEF Tells
<1>2. ASSUME NEW n \in S PROVE n + 1 \in S
  <2>1. SUFFICES ASSUME n + 1 <= Len(list)
                 PROVE  Tells(seen, n + 1, list, spec, arguments)
    OBVIOUS
  <2>2. Tells(seen, n, list, spec, arguments)
    BY <2>1
  <2>3. seen[n + 1] = Consider(seen[n], list[n + 1], spec, arguments)
    BY <2>1 DEF Walks
  <2> DEFINE rule == list[n + 1]
             fits == matches(rule, spec, arguments)
  <2>4. rule.effect \in {"allow", "deny", "require_approval"}
    <3>1. n + 1 \in 1..Len(list)
      BY <2>1
    <3>2. list[n + 1] \in PolicyRule
      BY <3>1
    <3>3. QED BY <3>2 DEF PolicyRule
  <2>5. \A effect : Hit(list, n + 1, effect, spec, arguments) <=>
                        \/ Hit(list, n, effect, spec, arguments)
                        \/ rule.effect = effect /\ fits
    BY HitNext
  <2>6. CASE seen[n].denied \/ ~fits
    <3>1. seen[n + 1] = seen[n]
      BY <2>3, <2>6 DEF Consider
    <3>2. QED BY <2>2, <2>5, <2>6, <3>1 DEF Tells
  <2>7. CASE ~seen[n].denied /\ fits
    <3> DEFINE d == rule.effect = "deny"
               a == seen[n].allowed \/ rule.effect = "allow"
               r == seen[n].review \/ rule.effect = "require_approval"
    <3>1. seen[n + 1] = [denied |-> d, allowed |-> a, review |-> r]
      BY <2>3, <2>7 DEF Consider
    <3>2. d \in BOOLEAN /\ a \in BOOLEAN /\ r \in BOOLEAN
      BY Zenon
    <3> HIDE DEF d, a, r
    <3>3. /\ seen[n + 1] \in [denied : BOOLEAN, allowed : BOOLEAN, review : BOOLEAN]
          /\ seen[n + 1].denied = d /\ seen[n + 1].allowed = a /\ seen[n + 1].review = r
      BY <3>1, <3>2
    <3>4. /\ seen[n + 1].denied <=> rule.effect = "deny"
          /\ seen[n + 1].allowed <=> (seen[n].allowed \/ rule.effect = "allow")
          /\ seen[n + 1].review <=> (seen[n].review \/ rule.effect = "require_approval")
      BY <3>3, Zenon DEF d, a, r
    <3>5. QED BY <2>2, <2>5, <2>7, <3>3, <3>4 DEF Tells
  <2>8. QED BY <2>6, <2>7
<1>3. S = Nat
  BY <1>1, <1>2, Inductive
<1>4. QED BY <1>3

\* The verdict of a list of any length: no rule's place decides anything.
LEMMA VerdictOfRules ==
    ASSUME NEW list \in Seq(PolicyRule), NEW spec, NEW arguments
    PROVE  LET verdict == check_rules(list, spec, arguments)
               Hits(effect) == Hit(list, Len(list), effect, spec, arguments)
           IN  /\ verdict \in Verdict
               /\ verdict.allowed <=> /\ ~Hits("deny")
                                      /\ spec.band # "execute" \/ Hits("allow")
               /\ verdict.allowed => (verdict.review <=> Hits("require_approval"))
<1>1. PICK seen : /\ Walks(seen, Len(list), list, spec, arguments)
                  /\ check_rules(list, spec, arguments) = Concluded(seen[Len(list)], spec)
  BY VerdictWalks
<1>2. Tells(seen, Len(list), list, spec, arguments)
  BY <1>1, WalkTells
<1>3. QED BY <1>1, <1>2 DEF Tells, Concluded, Denied, Verdict

-----------------------------------------------------------------------------
(* The rule list *)

RulesOK == rules \in Seq(PolicyRule)

LEMMA AddRuleEffect ==
    ASSUME RulesOK, NEW rule \in AddedRules, NEW prepend \in BOOLEAN, add_rule(rule, prepend)
    PROVE  /\ RulesOK'
           /\ Len(rules') = Len(rules) + 1
           /\ \A i \in DOMAIN rules : \E j \in DOMAIN rules' : rules'[j] = rules[i]
<1>1. rule \in PolicyRule
  BY RulesAssumption
<1>2. CASE prepend
  <2>1. rules' = <<rule>> \o rules
    BY <1>2 DEF add_rule, Added
  <2>2. RulesOK' /\ Len(rules') = Len(rules) + 1
    BY <1>1, <2>1 DEF RulesOK
  <2>3. ASSUME NEW i \in DOMAIN rules PROVE i + 1 \in DOMAIN rules' /\ rules'[i + 1] = rules[i]
    BY <1>1, <2>1 DEF RulesOK
  <2>4. QED BY <2>2, <2>3
<1>3. CASE ~prepend
  <2>1. rules' = Append(rules, rule)
    BY <1>3 DEF add_rule, Added
  <2>2. RulesOK' /\ Len(rules') = Len(rules) + 1
    BY <1>1, <2>1 DEF RulesOK
  <2>3. ASSUME NEW i \in DOMAIN rules PROVE i \in DOMAIN rules' /\ rules'[i] = rules[i]
    BY <1>1, <2>1 DEF RulesOK
  <2>4. QED BY <2>2, <2>3
<1>4. QED BY <1>2, <1>3

LEMMA RulesChange ==
    ASSUME RulesOK, [Next]_vars
    PROVE  \/ rules' = rules
           \/ rules' = InitialRules
           \/ \E rule \in AddedRules, prepend \in BOOLEAN : add_rule(rule, prepend)
  BY DEF vars, Next, Step, Submit, Refuse, Replay, Preview, Shadow, Invoke, HandlerReturns,
         HandlerRaises, ProvenanceRaises, Return, register, Mint, Die, Configure, Restart, AddRule

LEMMA RulesAlwaysOK == Spec => []RulesOK
<1>1. Init => RulesOK
  BY RulesAssumption DEF Init, RulesInit, RulesOK
<1>2. RulesOK /\ [Next]_vars => RulesOK'
  <2> SUFFICES ASSUME RulesOK, [Next]_vars PROVE RulesOK'
    OBVIOUS
  <2>1. CASE rules' = rules
    BY <2>1 DEF RulesOK
  <2>2. CASE rules' = InitialRules
    BY <2>2, RulesAssumption DEF RulesOK
  <2>3. CASE \E rule \in AddedRules, prepend \in BOOLEAN : add_rule(rule, prepend)
    BY <2>3, AddRuleEffect
  <2>4. QED BY <2>1, <2>2, <2>3, RulesChange
<1>3. QED BY <1>1, <1>2, PTL DEF Spec

LEMMA MatchingHits ==
    ASSUME RulesOK, NEW effect, NEW spec, NEW arguments
    PROVE  Matching(effect, spec, arguments) # {} <=>
               Hit(rules, Len(rules), effect, spec, arguments)
<1>1. DOMAIN rules = 1..Len(rules)
  BY DEF RulesOK
<1>2. QED BY <1>1 DEF Matching, Hit

\* gates.py, module docstring: a matching deny denies, the execute band needs a
\* matching allow, anything else is allowed, review is asked for when a matching
\* rule requires it, and the order of the rules decides nothing: for rule lists
\* of any length, tools and arguments of any number.
THEOREM VerdictsAreDocumented == Spec => []VerdictIsAsDocumented
<1>1. RulesOK => VerdictIsAsDocumented
  <2> SUFFICES ASSUME RulesOK, NEW spec \in Specs, NEW arguments \in Arguments
               PROVE  LET verdict == check_rules(rules, spec, arguments) IN
                      /\ verdict.allowed <=>
                             /\ Matching("deny", spec, arguments) = {}
                             /\ \/ spec.band # "execute"
                                \/ Matching("allow", spec, arguments) # {}
                      /\ verdict.allowed =>
                             (verdict.review <=>
                                  Matching("require_approval", spec, arguments) # {})
    BY DEF VerdictIsAsDocumented
  <2>1. rules \in Seq(PolicyRule)
    BY DEF RulesOK
  <2>2. QED BY <2>1, VerdictOfRules, MatchingHits
<1>2. QED BY <1>1, RulesAlwaysOK, PTL

RulesGrow == RulesOK /\ Len(rules) >= Len(InitialRules)

LEMMA RulesAlwaysGrow == Spec => []RulesGrow
<1>1. Init => RulesGrow
  BY RulesAssumption DEF Init, RulesInit, RulesOK, RulesGrow
<1>2. RulesGrow /\ [Next]_vars => RulesGrow'
  <2> SUFFICES ASSUME RulesGrow, [Next]_vars PROVE RulesGrow'
    OBVIOUS
  <2> USE DEF RulesGrow
  <2>1. CASE rules' = rules
    BY <2>1 DEF RulesOK
  <2>2. CASE rules' = InitialRules
    BY <2>2, RulesAssumption DEF RulesOK
  <2>3. ASSUME NEW rule \in AddedRules, NEW prepend \in BOOLEAN, add_rule(rule, prepend)
        PROVE  RulesGrow'
    <3>1. RulesOK' /\ Len(rules') = Len(rules) + 1
      BY <2>3, AddRuleEffect
    <3>2. Len(rules) \in Nat /\ Len(InitialRules) \in Nat
      BY RulesAssumption DEF RulesOK
    <3>3. QED BY <3>1, <3>2
  <2>4. QED BY <2>1, <2>2, <2>3, RulesChange
<1>3. QED BY <1>1, <1>2, PTL DEF Spec

\* docs/runbooks/incident-response.md, the in-process freeze: a deny rule that
\* matches a call keeps denying it, wherever and whatever rules are added later.
THEOREM FreezesHold == Spec => FreezeHolds
<1> DEFINE Frozen ==
        \A spec \in Specs, arguments \in Arguments, role \in Roles :
            Matching("deny", spec, arguments) # {} =>
                ~check_tool_call(rules', spec, arguments, role).allowed
<1>1. ASSUME RulesGrow, [Next]_vars, Len(rules') > Len(rules)
      PROVE  Frozen
  <2>1. SUFFICES ASSUME NEW spec \in Specs, NEW arguments \in Arguments, NEW role \in Roles,
                        Matching("deny", spec, arguments) # {}
                 PROVE  ~check_tool_call(rules', spec, arguments, role).allowed
    OBVIOUS
  <2>2. Len(rules) \in Nat /\ Len(InitialRules) \in Nat
    BY <1>1, RulesAssumption DEF RulesOK, RulesGrow
  <2>3. rules' # rules /\ rules' # InitialRules
    BY <1>1, <2>2 DEF RulesGrow
  <2>4. PICK rule \in AddedRules, prepend \in BOOLEAN : add_rule(rule, prepend)
    BY <1>1, <2>3, RulesChange DEF RulesGrow
  <2>5. PICK i \in DOMAIN rules : rules[i].effect = "deny" /\ matches(rules[i], spec, arguments)
    BY <2>1 DEF Matching
  <2>6. PICK j \in DOMAIN rules' : rules'[j] = rules[i]
    BY <1>1, <2>4, AddRuleEffect DEF RulesGrow
  <2>7. rules' \in Seq(PolicyRule)
    BY <1>1, <2>4, AddRuleEffect DEF RulesGrow, RulesOK
  <2>8. Hit(rules', Len(rules'), "deny", spec, arguments)
    BY <2>5, <2>6, <2>7 DEF Hit
  <2>9. ~check_rules(rules', spec, arguments).allowed
    BY <2>7, <2>8, VerdictOfRules
  <2>10. QED BY <2>9 DEF check_tool_call, Denied
<1>2. RulesGrow /\ [Next]_vars => [Len(rules') > Len(rules) => Frozen]_rules
  BY <1>1
<1>3. QED BY <1>2, RulesAlwaysGrow, PTL DEF Spec, FreezeHolds

-----------------------------------------------------------------------------
(* Types *)

\* A call that has not been answered has no answer.
Unanswered ==
    \A c \in Calls : At(c, "submitted") \/ At(c, "running") => call[c].answer = NoResult

\* What a cache entry says was done has run, and so has what a task was told.
CachedRan == \A k \in ToolNames \X Keys : cache[k] = "done" => ran[k] > 0

IInv == TypeOK /\ Unanswered /\ CachedRan /\ DoneMeansRan

LEMMA ActiveCall ==
    ASSUME TypeOK, NEW c \in Calls, call[c].pc # "idle"
    PROVE  /\ call[c] \in Call /\ req(c) \in Request
           /\ req(c).tool \in Specs /\ req(c).tool.name \in ToolNames
           /\ req(c).key # NoKey => <<req(c).tool.name, req(c).key>> \in ToolNames \X Keys
<1>1. call[c] \in Call
  BY DEF TypeOK, Idle
<1>2. req(c) \in Request /\ req(c).tool \in Specs /\ req(c).key \in Keys \cup {NoKey}
  BY <1>1 DEF Call, Request, req
<1>3. QED BY <1>1, <1>2 DEF ToolNames

LEMMA CacheKeyOf ==
    ASSUME TypeOK, NEW c \in Calls, call[c].pc # "idle", req(c).key # NoKey
    PROVE  /\ cache_key(req(c).tool, req(c).key) = KeyOf(c)
           /\ KeyOf(c) \in ToolNames \X Keys
           /\ KeyOf(c) \in CacheKeys
  BY ActiveCall DEF cache_key, KeyOf, CacheKeys

LEMMA AnswerEffect ==
    ASSUME TypeOK, NEW c \in Calls, call[c].pc # "idle",
           NEW answer \in Answers, Answer(c, answer)
    PROVE  /\ call' \in [Calls -> Call \cup {Idle}]
           /\ call'[c].pc = "answered" /\ call'[c].answer = answer
           /\ call'[c].request = call[c].request
           /\ \A d \in Calls \ {c} : call'[d] = call[d]
<1>1. call[c] \in Call
  BY ActiveCall
<1>2. [call[c] EXCEPT !.pc = "answered", !.answer = answer] \in Call
  BY <1>1 DEF Call
<1>3. call' = [call EXCEPT ![c] = [call[c] EXCEPT !.pc = "answered", !.answer = answer]]
  BY DEF Answer, TypeOK
<1>4. QED BY <1>1, <1>2, <1>3 DEF TypeOK, Call

LEMMA ConcludeEffect ==
    ASSUME TypeOK, NEW c \in Calls, call[c].pc # "idle",
           NEW answer \in OkAnswers, Conclude(c, answer)
    PROVE  /\ cache' \in [CacheKeys -> OkAnswers \cup {NoResult}]
           /\ req(c).key # NoKey => cache'[KeyOf(c)] = answer
           /\ \A k \in CacheKeys :
                  cache'[k] # cache[k] => req(c).key # NoKey /\ k = KeyOf(c)
<1>1. CASE req(c).key = NoKey
  BY <1>1 DEF Conclude, TypeOK
<1>2. CASE req(c).key # NoKey
  <2>1. KeyOf(c) \in CacheKeys /\ cache' = [cache EXCEPT ![KeyOf(c)] = answer]
    BY <1>2, CacheKeyOf DEF Conclude
  <2>2. QED BY <1>2, <2>1 DEF TypeOK
<1>3. QED BY <1>1, <1>2

LEMMA CountRunEffect ==
    ASSUME TypeOK, NEW c \in Calls, call[c].pc # "idle", CountRun(c)
    PROVE  /\ ran' \in [ToolNames \X Keys -> 0..2]
           /\ req(c).key # NoKey =>
                  ran'[KeyOf(c)] = IF ran[KeyOf(c)] = 0 THEN 1 ELSE 2
           /\ \A k \in ToolNames \X Keys :
                  ran'[k] # ran[k] => req(c).key # NoKey /\ k = KeyOf(c)
<1>1. CASE req(c).key = NoKey
  BY <1>1 DEF CountRun, TypeOK
<1>2. CASE req(c).key # NoKey
  <2>1. KeyOf(c) \in ToolNames \X Keys
    BY <1>2, CacheKeyOf
  <2>2. ran' = [ran EXCEPT ![KeyOf(c)] = IF ran[KeyOf(c)] = 0 THEN 1 ELSE 2]
    BY <1>2 DEF CountRun, KeyOf, TypeOK
  <2>3. QED BY <1>2, <2>1, <2>2 DEF TypeOK
<1>3. QED BY <1>1, <1>2

\* A call is answered; a run is only forgotten by a restart.
LEMMA CallsAnswered ==
    ASSUME IInv, NEW c \in Calls, call[c].pc # "idle", NEW answer \in Answers,
           Answer(c, answer), UNCHANGED <<registered, settings, token>>,
           cache' \in [CacheKeys -> OkAnswers \cup {NoResult}],
           ran' \in [ToolNames \X Keys -> 0..2],
           \A k \in ToolNames \X Keys : ran[k] > 0 => ran'[k] > 0,
           \A k \in ToolNames \X Keys : cache'[k] = "done" => ran'[k] > 0,
           answer = "done" /\ req(c).key # NoKey => ran'[KeyOf(c)] > 0
    PROVE  IInv'
<1>1. /\ call' \in [Calls -> Call \cup {Idle}]
      /\ call'[c].pc = "answered" /\ call'[c].answer = answer
      /\ call'[c].request = call[c].request
      /\ \A d \in Calls \ {c} : call'[d] = call[d]
  BY AnswerEffect DEF IInv
<1>2. TypeOK'
  BY <1>1 DEF IInv, TypeOK
<1>3. Unanswered' /\ CachedRan'
  BY <1>1 DEF IInv, Unanswered, CachedRan, At
<1>4. DoneMeansRan'
  <2> SUFFICES ASSUME NEW d \in Calls, call'[d].pc = "answered", call'[d].answer = "done",
                      call'[d].request.key # NoKey
               PROVE  ran'[<<call'[d].request.tool.name, call'[d].request.key>>] > 0
    BY DEF DoneMeansRan, At, req
  <2>1. CASE d = c
    BY <1>1, <2>1 DEF KeyOf, req
  <2>2. CASE d # c
    <3>1. call'[d] = call[d]
      BY <1>1, <2>2
    <3>2. ran[KeyOf(d)] > 0
      BY <3>1 DEF IInv, DoneMeansRan, At, req, KeyOf
    <3>3. KeyOf(d) \in ToolNames \X Keys
      BY <3>1, CacheKeyOf DEF IInv, req
    <3>4. QED BY <3>1, <3>2, <3>3 DEF KeyOf, req
  <2>3. QED BY <2>1, <2>2
<1>5. QED BY <1>2, <1>3, <1>4 DEF IInv

LEMMA ReplayStep == ASSUME IInv, NEW c \in Calls, Replay(c) PROVE IInv'
<1>1. call[c].pc # "idle" /\ req(c).key # NoKey /\ cache[KeyOf(c)] # NoResult
  BY DEF Replay, MayReplay, Cached, At, cache_key, KeyOf
<1>2. KeyOf(c) \in CacheKeys /\ KeyOf(c) \in ToolNames \X Keys
  BY <1>1, CacheKeyOf DEF IInv
<1>3. cache[KeyOf(c)] \in OkAnswers
  BY <1>1, <1>2 DEF IInv, TypeOK
<1>4. Answer(c, cache[KeyOf(c)]) /\ UNCHANGED <<registered, settings, token, cache, ran>>
  BY DEF Replay, cache_key, KeyOf
<1>5. cache[KeyOf(c)] = "done" => ran[KeyOf(c)] > 0
  BY <1>2 DEF IInv, CachedRan
<1>6. QED BY <1>1, <1>3, <1>4, <1>5, CallsAnswered DEF IInv, TypeOK, CachedRan, Answers

LEMMA RefuseStep ==
    ASSUME IInv, NEW c \in Calls, Refuse(c) \/ HandlerRaises(c)
    PROVE  IInv'
<1>1. call[c].pc # "idle" /\ UNCHANGED <<registered, settings, token, cache, ran>>
  BY DEF Refuse, HandlerRaises, Failed, At
<1>2. PICK answer \in Answers \ OkAnswers : Answer(c, answer)
  BY DEF Refuse, HandlerRaises, Failed, Answers, OkAnswers
<1>3. QED BY <1>1, <1>2, CallsAnswered DEF IInv, TypeOK, CachedRan, OkAnswers

LEMMA StandInStep ==
    ASSUME IInv, NEW c \in Calls, Preview(c) \/ Shadow(c)
    PROVE  IInv'
<1>1. call[c].pc # "idle" /\ UNCHANGED <<registered, settings, token, ran>>
  BY DEF Preview, Shadow, At
<1>2. PICK answer \in {"preview", "shadow"} : Conclude(c, answer)
  BY DEF Preview, Shadow
<1>3. /\ cache' \in [CacheKeys -> OkAnswers \cup {NoResult}]
      /\ req(c).key # NoKey => cache'[KeyOf(c)] = answer
      /\ \A k \in CacheKeys : cache'[k] # cache[k] => req(c).key # NoKey /\ k = KeyOf(c)
  BY <1>1, <1>2, ConcludeEffect DEF IInv, OkAnswers
<1>4. \A k \in ToolNames \X Keys : cache'[k] = "done" => ran'[k] > 0
  BY <1>1, <1>2, <1>3 DEF IInv, CachedRan, CacheKeys
<1>5. Answer(c, answer)
  BY <1>2 DEF Conclude
<1>6. QED BY <1>1, <1>2, <1>3, <1>4, <1>5, CallsAnswered DEF IInv, TypeOK, Answers, OkAnswers

LEMMA RunStep ==
    ASSUME IInv, NEW c \in Calls, HandlerReturns(c) \/ ProvenanceRaises(c)
    PROVE  IInv'
<1>1. call[c].pc # "idle" /\ UNCHANGED <<registered, settings, token>> /\ CountRun(c)
  BY DEF HandlerReturns, ProvenanceRaises, At
<1>2. /\ ran' \in [ToolNames \X Keys -> 0..2]
      /\ req(c).key # NoKey => ran'[KeyOf(c)] > 0
      /\ \A k \in ToolNames \X Keys : ran[k] > 0 => ran'[k] > 0
      /\ \A k \in ToolNames \X Keys : ran'[k] # ran[k] => req(c).key # NoKey /\ k = KeyOf(c)
  BY <1>1, CountRunEffect DEF IInv, TypeOK
<1>3. CASE HandlerReturns(c)
  <2>1. Conclude(c, "done") /\ Answer(c, "done")
    BY <1>3 DEF HandlerReturns, Conclude
  <2>2. /\ cache' \in [CacheKeys -> OkAnswers \cup {NoResult}]
        /\ \A k \in CacheKeys : cache'[k] # cache[k] => req(c).key # NoKey /\ k = KeyOf(c)
    BY <1>1, <2>1, ConcludeEffect DEF IInv, OkAnswers
  <2>3. \A k \in ToolNames \X Keys : cache'[k] = "done" => ran'[k] > 0
    BY <1>2, <2>2 DEF IInv, CachedRan, CacheKeys
  <2>4. QED BY <1>1, <1>2, <2>1, <2>2, <2>3, CallsAnswered DEF Answers, OkAnswers
<1>4. CASE ProvenanceRaises(c)
  <2>1. Answer(c, "raised") /\ cache' = cache
    BY <1>4 DEF ProvenanceRaises
  <2>2. QED BY <1>1, <1>2, <2>1, CallsAnswered DEF IInv, TypeOK, CachedRan, Answers
<1>5. QED BY <1>3, <1>4

LEMMA SubmitStep ==
    ASSUME IInv, NEW c \in Calls, NEW request \in Request, Submit(c, request)
    PROVE  IInv'
<1> DEFINE new == [pc |-> "submitted", request |-> request, answer |-> NoResult]
<1>1. /\ call' = [call EXCEPT ![c] = new]
      /\ UNCHANGED <<registered, settings, token, cache, ran>>
  BY DEF Submit
<1>2. new \in Call
  BY DEF Call
<1>3. TypeOK'
  BY <1>1, <1>2 DEF IInv, TypeOK
<1>4. Unanswered' /\ CachedRan' /\ DoneMeansRan'
  BY <1>1 DEF IInv, TypeOK, Unanswered, CachedRan, DoneMeansRan, At, req
<1>5. QED BY <1>3, <1>4 DEF IInv

LEMMA InvokeStep == ASSUME IInv, NEW c \in Calls, Invoke(c) PROVE IInv'
<1>1. call[c].pc = "submitted" /\ UNCHANGED <<registered, settings, token, cache, ran>>
  BY DEF Invoke, At
<1>2. call[c] \in Call
  BY <1>1, ActiveCall DEF IInv
<1>3. [call[c] EXCEPT !.pc = "running"] \in Call
  BY <1>2 DEF Call
<1>4. call' = [call EXCEPT ![c] = [call[c] EXCEPT !.pc = "running"]]
  BY DEF Invoke
<1>5. TypeOK'
  BY <1>1, <1>3, <1>4 DEF IInv, TypeOK
<1>6. /\ call'[c].pc = "running" /\ call'[c].answer = call[c].answer
      /\ \A d \in Calls \ {c} : call'[d] = call[d]
  BY <1>2, <1>4 DEF IInv, TypeOK, Call
<1>7. Unanswered' /\ CachedRan' /\ DoneMeansRan'
  BY <1>1, <1>6 DEF IInv, Unanswered, CachedRan, DoneMeansRan, At, req
<1>8. QED BY <1>5, <1>7 DEF IInv

LEMMA ReturnStep == ASSUME IInv, NEW c \in Calls, Return(c) PROVE IInv'
<1>1. TypeOK'
  BY DEF IInv, TypeOK, Return
<1>2. Unanswered' /\ CachedRan' /\ DoneMeansRan'
  BY DEF IInv, TypeOK, Unanswered, CachedRan, DoneMeansRan, At, req, Return, Idle
<1>3. QED BY <1>1, <1>2 DEF IInv

\* Tools, tokens, settings and rules change without touching a call.
LEMMA AroundStep ==
    ASSUME IInv, UNCHANGED <<call, cache, ran>>,
           \/ UNCHANGED <<registered, settings, token>>
           \/ \E spec \in Specs : register(spec)
           \/ \E k \in Tokens :
                  \/ \E kind \in Kinds, subject \in ToolNames \cup {"*"} : Mint(k, kind, subject)
                  \/ Die(k)
           \/ \E enabled, shadow \in BOOLEAN : Configure(enabled, shadow)
    PROVE  IInv'
<1>1. Unanswered' /\ CachedRan' /\ DoneMeansRan'
  BY DEF IInv, Unanswered, CachedRan, DoneMeansRan, At, req
<1>2. /\ registered' \subseteq Specs
      /\ settings' \in [execute_tools_enabled : BOOLEAN, shadow_mode : BOOLEAN]
      /\ token' \in [Tokens -> Token \cup {NoToken}]
  <2>1. ASSUME NEW k \in Tokens, NEW kind \in Kinds, NEW subject \in ToolNames \cup {"*"},
               Mint(k, kind, subject)
        PROVE  token' \in [Tokens -> Token \cup {NoToken}]
    <3>1. [kind |-> kind, subject |-> subject, live |-> TRUE] \in Token
      BY DEF Token
    <3>2. QED BY <2>1, <3>1 DEF Mint, IInv, TypeOK
  <2>2. ASSUME NEW k \in Tokens, Die(k)
        PROVE  token' \in [Tokens -> Token \cup {NoToken}]
    <3>1. token[k] \in Token
      BY <2>2 DEF Die, IInv, TypeOK
    <3>2. [token[k] EXCEPT !.live = FALSE] \in Token
      BY <3>1 DEF Token
    <3>3. token' = [token EXCEPT ![k] = [token[k] EXCEPT !.live = FALSE]]
      BY <2>2 DEF Die
    <3>4. QED BY <3>2, <3>3 DEF IInv, TypeOK
  <2>3. QED BY <2>1, <2>2 DEF IInv, TypeOK, register, Mint, Die, Configure
<1>3. QED BY <1>1, <1>2 DEF IInv, TypeOK

LEMMA RestartStep == ASSUME IInv, Restart PROVE IInv'
<1>1. TypeOK'
  BY DEF IInv, TypeOK, Restart
<1>2. Unanswered' /\ DoneMeansRan'
  BY DEF Restart, Unanswered, DoneMeansRan, At, Idle
<1>3. \A k \in ToolNames \X Keys : k \in CacheKeys
  BY DEF CacheKeys
<1>4. CachedRan'
  BY <1>3, NoValuesAssumption DEF Restart, CachedRan, OkAnswers
<1>5. QED BY <1>1, <1>2, <1>4 DEF IInv

LEMMA InitialState == Init => IInv
<1> SUFFICES ASSUME Init PROVE IInv
  OBVIOUS
<1>1. TypeOK
  BY DEF Init, TypeOK
<1>2. Unanswered /\ DoneMeansRan
  BY DEF Init, Unanswered, DoneMeansRan, At, Idle
<1>3. \A k \in ToolNames \X Keys : k \in CacheKeys
  BY DEF CacheKeys
<1>4. CachedRan
  BY <1>3, NoValuesAssumption DEF Init, CachedRan, OkAnswers
<1>5. QED BY <1>1, <1>2, <1>4 DEF IInv

LEMMA EveryStep == ASSUME IInv, [Next]_vars PROVE IInv'
<1>1. ASSUME NEW c \in Calls, Step(c) PROVE IInv'
  <2>1. CASE \E request \in Request : request.dry_run \in DryRuns /\ Submit(c, request)
    BY <2>1, SubmitStep
  <2>2. CASE Refuse(c) \/ HandlerRaises(c)
    BY <2>2, RefuseStep
  <2>3. CASE Replay(c)
    BY <2>3, ReplayStep
  <2>4. CASE Preview(c) \/ Shadow(c)
    BY <2>4, StandInStep
  <2>5. CASE Invoke(c)
    BY <2>5, InvokeStep
  <2>6. CASE HandlerReturns(c) \/ ProvenanceRaises(c)
    BY <2>6, RunStep
  <2>7. CASE Return(c)
    BY <2>7, ReturnStep
  <2>8. QED BY <1>1, <2>1, <2>2, <2>3, <2>4, <2>5, <2>6, <2>7 DEF Step
<1>2. CASE \E spec \in Specs : register(spec)
  BY <1>2, AroundStep DEF register
<1>3. CASE \E k \in Tokens :
               \/ \E kind \in Kinds, subject \in ToolNames \cup {"*"} : Mint(k, kind, subject)
               \/ Die(k)
  BY <1>3, AroundStep DEF Mint, Die
<1>4. CASE \E enabled, shadow \in BOOLEAN : Configure(enabled, shadow)
  BY <1>4, AroundStep DEF Configure
<1>5. CASE Restart
  BY <1>5, RestartStep
<1>6. CASE AddRule \/ UNCHANGED vars
  BY <1>6, AroundStep DEF AddRule, vars
<1>7. QED BY <1>1, <1>2, <1>3, <1>4, <1>5, <1>6 DEF Next

LEMMA IInvHolds == Spec => []IInv
<1>1. IInv /\ [Next]_vars => IInv'
  BY EveryStep
<1>2. QED BY <1>1, InitialState, PTL DEF Spec

\* Every call, cached result and token of ToolRegistry.call is well typed, for any
\* number of callers, keys and tools.
THEOREM TypeCorrect == Spec => []TypeOK
<1>1. IInv => TypeOK
  BY DEF IInv
<1>2. QED BY <1>1, IInvHolds, PTL

\* ToolRegistry.call, the idempotency cache: whichever calls share a key, a
\* keyed call that is told "done" belongs to a tool whose handler ran to its
\* end under that key since the process started.
THEOREM DoneIsTrue == Spec => []DoneMeansRan
<1>1. IInv => DoneMeansRan
  BY DEF IInv
<1>2. QED BY <1>1, IInvHolds, PTL

-----------------------------------------------------------------------------
(* The execute band *)

LEMMA Admission ==
    ASSUME RulesOK, NEW c \in Calls, RealExecute(c), Admitted(c)
    PROVE  Governed(c)
<1> DEFINE spec == req(c).tool
           arguments == req(c).arguments
<1>1. settings.execute_tools_enabled /\ Approved(c)
  BY DEF Admitted, _gate_execute
<1>2. VerdictOn(c).allowed
  BY DEF Admitted, PolicyAllows, DryExecute, RealExecute
<1>3. /\ "roles" \in Gates => can(req(c).role, "execute")
      /\ "rules" \in Gates => check_rules(rules, spec, arguments).allowed
  BY <1>2 DEF VerdictOn, Denied, RealExecute, ExecuteBand
<1>4. "rules" \in Gates => /\ Matching("deny", spec, arguments) = {}
                           /\ Matching("allow", spec, arguments) # {}
  BY <1>3, VerdictOfRules, MatchingHits DEF RealExecute, ExecuteBand, RulesOK
<1>5. QED BY <1>1, <1>3, <1>4
          DEF Governed, Approved, _has_valid_approval, is_valid_for, verify_signature

\* A step of the pipeline leaves the other tasks alone.
LEMMA OthersWait ==
    ASSUME TypeOK, NEW c \in Calls, NEW d \in Calls \ {c}, Step(d)
    PROVE  call'[c] = call[c]
  BY DEF TypeOK, Step, Submit, Refuse, Replay, Preview, Shadow, Invoke, HandlerReturns,
         HandlerRaises, ProvenanceRaises, Return, Conclude, Failed, Answer

Passes(c) ==
    At(c, "submitted") /\ RealExecute(c) /\ call'[c] # Idle =>
        /\ call'[c].answer \in OkAnswers \/ call'[c].pc = "running" => Governed(c)
        /\ call'[c].pc = "running" => ~settings.shadow_mode

\* registry.py, "Hard invariants": an execute call reaches its handler, its
\* shadow or a cached result only while the band is enabled, the rules allow
\* it, the role may execute and a token is live for it -- whatever happened to
\* tokens, rules and settings since it was submitted -- and no handler starts
\* in shadow mode.
THEOREM ExecuteAlwaysGoverned == Spec => ExecuteIsGoverned
<1>1. ASSUME IInv, RulesOK, [Next]_vars, NEW c \in Calls,
             At(c, "submitted"), RealExecute(c), call'[c] # Idle
      PROVE  /\ call'[c].answer \in OkAnswers \/ call'[c].pc = "running" => Governed(c)
             /\ call'[c].pc = "running" => ~settings.shadow_mode
  <2>1. call[c] \in Call /\ call[c].pc = "submitted" /\ call[c].answer = NoResult
    BY <1>1, ActiveCall DEF IInv, Unanswered, At
  <2>2. CASE call'[c] = call[c]
    BY <2>1, <2>2, NoValuesAssumption
  <2>3. CASE Refuse(c)
    <3>1. Answer(c, "refused")
      BY <2>3 DEF Refuse
    <3>2. call'[c].pc = "answered" /\ call'[c].answer = "refused"
      BY <1>1, <2>1, <3>1, AnswerEffect DEF IInv, Answers
    <3>3. QED BY <3>2 DEF OkAnswers
  <2>4. CASE Replay(c) \/ Preview(c) \/ Shadow(c)
    <3>1. Governed(c)
      BY <1>1, <2>4, Admission DEF Replay, Preview, Shadow, MayReplay
    <3>2. call'[c].pc = "answered"
      <4>1. \E answer : Answer(c, answer)
        BY <2>4 DEF Replay, Preview, Shadow, Conclude
      <4>2. QED BY <1>1, <2>1, <4>1 DEF Answer, Call, IInv, TypeOK
    <3>3. QED BY <3>1, <3>2
  <2>5. CASE Invoke(c)
    <3>1. Governed(c) /\ ~settings.shadow_mode
      BY <1>1, <2>5, Admission DEF Invoke
    <3>2. QED BY <3>1
  <2>6. CASE \E d \in Calls \ {c} : Step(d)
    BY <1>1, <2>2, <2>6, OthersWait DEF IInv
  <2>7. QED
    BY <1>1, <2>1, <2>2, <2>3, <2>4, <2>5, <2>6
    DEF Next, Step, Submit, HandlerReturns, HandlerRaises, ProvenanceRaises, Return, At, Idle,
        register, Mint, Die, Configure, Restart, AddRule, vars
<1>2. IInv /\ RulesOK /\ [Next]_vars => [\A c \in Calls : Passes(c)]_vars
  BY <1>1 DEF Passes
<1>3. QED BY <1>2, IInvHolds, RulesAlwaysOK, PTL DEF Spec, ExecuteIsGoverned, Passes

-----------------------------------------------------------------------------
(* One run per key *)

OneCaller == \A c, d \in Calls : c = d

\* With one caller, a key whose handler runs has no cached result, so a result
\* that was kept answers every later call of the key.
KeptOrLost ==
    \A k \in ToolNames \X Keys :
        k \notin lost =>
            /\ ran[k] <= 1
            /\ ran[k] = 1 => cache[k] # NoResult

RunningIsNew ==
    \A c \in Calls : At(c, "running") /\ req(c).key # NoKey => cache[KeyOf(c)] = NoResult

OInv == IInv /\ KeptOrLost /\ RunningIsNew

LEMMA LostStays ==
    ASSUME IInv, MCNext, NEW k \in ToolNames \X Keys, k \in lost, ran'[k] > 0
    PROVE  k \in lost'
<1>1. k \in DOMAIN ran
  BY DEF IInv, TypeOK
<1>2. QED BY <1>1 DEF MCNext

LEMMA RaisedIsLost ==
    ASSUME OInv, MCNext, NEW c \in Calls, ProvenanceRaises(c), req(c).key # NoKey
    PROVE  KeyOf(c) \in lost'
<1> USE DEF OInv
<1>1. call[c].pc = "running" /\ CountRun(c) /\ Answer(c, "raised")
  BY DEF ProvenanceRaises, At
<1>2. KeyOf(c) \in ToolNames \X Keys
  BY <1>1, CacheKeyOf DEF IInv
<1>3. ran'[KeyOf(c)] = IF ran[KeyOf(c)] = 0 THEN 1 ELSE 2
  BY <1>1, CountRunEffect DEF IInv
<1>4. call'[c].answer = "raised"
  BY <1>1, AnswerEffect DEF IInv, Answers
<1>5. KeyOf(c) \in DOMAIN ran /\ ran[KeyOf(c)] \in 0..2
  BY <1>2 DEF IInv, TypeOK
<1>6. CASE ran'[KeyOf(c)] > ran[KeyOf(c)]
  BY <1>1, <1>3, <1>4, <1>5, <1>6 DEF MCNext, At
<1>7. CASE ~(ran'[KeyOf(c)] > ran[KeyOf(c)])
  <2>1. ran[KeyOf(c)] = 2
    BY <1>3, <1>5, <1>7
  <2>2. KeyOf(c) \in lost
    BY <1>2, <2>1 DEF KeptOrLost
  <2>3. QED BY <1>2, <1>3, <2>2, LostStays
<1>8. QED BY <1>6, <1>7

\* Nothing ran, and no result was forgotten.
LEMMA NothingRan ==
    ASSUME OInv, MCNext, UNCHANGED ran,
           \A k \in ToolNames \X Keys : cache[k] # NoResult => cache'[k] # NoResult
    PROVE  KeptOrLost'
<1>1. ASSUME NEW k \in ToolNames \X Keys, k \notin lost'
      PROVE  /\ ran'[k] <= 1
             /\ ran'[k] = 1 => cache'[k] # NoResult
  <2>1. ran[k] \in 0..2
    BY DEF OInv, IInv, TypeOK
  <2>2. CASE ran[k] = 0
    BY <2>2
  <2>3. CASE ran[k] > 0
    <3>1. k \notin lost
      BY <1>1, <2>3, LostStays DEF OInv
    <3>2. QED BY <3>1 DEF OInv, KeptOrLost
  <2>4. QED BY <2>1, <2>2, <2>3
<1>2. QED BY <1>1 DEF KeptOrLost

\* The only call does something else than run.
LEMMA NobodyRuns ==
    ASSUME OneCaller, NEW c \in Calls, call'[c].pc # "running"
    PROVE  RunningIsNew'
  BY DEF OneCaller, RunningIsNew, At

LEMMA ConcludeKeeps ==
    ASSUME OInv, NEW c \in Calls, call[c].pc # "idle", NEW answer \in OkAnswers,
           Conclude(c, answer)
    PROVE  /\ \A k \in ToolNames \X Keys : cache[k] # NoResult => cache'[k] # NoResult
           /\ call'[c].pc = "answered"
<1>1. /\ req(c).key # NoKey => cache'[KeyOf(c)] = answer
      /\ \A k \in CacheKeys : cache'[k] # cache[k] => req(c).key # NoKey /\ k = KeyOf(c)
  BY ConcludeEffect DEF OInv, IInv
<1>2. ToolNames \X Keys \subseteq CacheKeys
  BY DEF CacheKeys
<1>3. call'[c].pc = "answered"
  BY AnswerEffect DEF OInv, IInv, Conclude, Answers
<1>4. QED BY <1>1, <1>2, <1>3, NoValuesAssumption

LEMMA OneAtATime ==
    ASSUME OneCaller, OInv, MCNext, NEW c \in Calls, Step(c)
    PROVE  KeptOrLost' /\ RunningIsNew'
<1> USE DEF OInv
<1>1. CASE \E request \in Request : request.dry_run \in DryRuns /\ Submit(c, request)
  <2>1. UNCHANGED <<ran, cache>> /\ call'[c].pc = "submitted"
    BY <1>1 DEF Submit, IInv, TypeOK
  <2>2. QED BY <2>1, NothingRan, NobodyRuns
<1>2. CASE Refuse(c) \/ Replay(c) \/ HandlerRaises(c)
  <2>1. UNCHANGED <<ran, cache>> /\ call[c].pc # "idle"
    BY <1>2 DEF Refuse, Replay, HandlerRaises, Failed, At
  <2>2. \E answer : Answer(c, answer)
    BY <1>2 DEF Refuse, Replay, HandlerRaises, Failed
  <2>3. call'[c].pc = "answered"
    BY <2>1, <2>2, ActiveCall DEF Answer, Call, IInv, TypeOK
  <2>4. QED BY <2>1, <2>3, NothingRan, NobodyRuns
<1>3. CASE Preview(c) \/ Shadow(c)
  <2>1. UNCHANGED ran /\ call[c].pc # "idle"
    BY <1>3 DEF Preview, Shadow, At
  <2>2. \E answer \in OkAnswers : Conclude(c, answer)
    BY <1>3 DEF Preview, Shadow, OkAnswers
  <2>3. QED BY <2>1, <2>2, ConcludeKeeps, NothingRan, NobodyRuns
<1>4. CASE Invoke(c)
  <2>1. UNCHANGED <<ran, cache>> /\ call[c].pc # "idle" /\ ~Cached(c)
    BY <1>4 DEF Invoke, At
  <2>2. call'[c].request = call[c].request
    BY <1>4, <2>1, ActiveCall DEF Invoke, IInv, TypeOK, Call
  <2>3. req(c).key # NoKey => cache[KeyOf(c)] = NoResult
    BY <2>1 DEF Cached, cache_key, KeyOf
  <2>4. RunningIsNew'
    BY <2>1, <2>2, <2>3 DEF OneCaller, RunningIsNew, KeyOf, req
  <2>5. QED BY <2>1, <2>4, NothingRan
<1>5. CASE HandlerReturns(c)
  <2>1. call[c].pc = "running" /\ Conclude(c, "done") /\ CountRun(c)
    BY <1>5 DEF HandlerReturns, At
  <2>2. /\ \A k \in ToolNames \X Keys : cache[k] # NoResult => cache'[k] # NoResult
        /\ call'[c].pc = "answered"
    BY <2>1, ConcludeKeeps DEF OkAnswers
  <2>3. ASSUME NEW k \in ToolNames \X Keys, k \notin lost'
        PROVE  /\ ran'[k] <= 1
               /\ ran'[k] = 1 => cache'[k] # NoResult
    <3>1. ran[k] \in 0..2 /\ ran'[k] \in 0..2
      BY <2>1, CountRunEffect DEF IInv, TypeOK
    <3>2. CASE ran'[k] = ran[k]
      <4>1. ran[k] > 0 => k \notin lost
        BY <2>3, <3>2, LostStays
      <4>2. QED BY <2>2, <3>1, <3>2, <4>1 DEF KeptOrLost
    <3>3. CASE ran'[k] # ran[k]
      <4>1. req(c).key # NoKey /\ k = KeyOf(c)
        BY <2>1, <3>3, CountRunEffect DEF IInv
      <4>2. ran'[k] = (IF ran[k] = 0 THEN 1 ELSE 2) /\ cache'[k] = "done"
        BY <2>1, <4>1, CountRunEffect, ConcludeEffect DEF IInv, OkAnswers
      <4>3. k \notin lost
        BY <2>3, <3>1, <4>2, LostStays
      <4>4. cache[k] = NoResult
        BY <2>1, <4>1 DEF RunningIsNew, At
      <4>5. ran[k] = 0
        BY <3>1, <4>3, <4>4 DEF KeptOrLost
      <4>6. QED BY <4>2, <4>5, NoValuesAssumption DEF OkAnswers
    <3>4. QED BY <3>2, <3>3
  <2>4. QED BY <2>2, <2>3, NobodyRuns DEF KeptOrLost
<1>6. CASE ProvenanceRaises(c)
  <2>1. call[c].pc = "running" /\ CountRun(c) /\ Answer(c, "raised") /\ UNCHANGED cache
    BY <1>6 DEF ProvenanceRaises, At
  <2>2. call'[c].pc = "answered"
    BY <2>1, AnswerEffect DEF IInv, Answers
  <2>3. ASSUME NEW k \in ToolNames \X Keys, k \notin lost'
        PROVE  /\ ran'[k] <= 1
               /\ ran'[k] = 1 => cache'[k] # NoResult
    <3>1. ran[k] \in 0..2 /\ ran'[k] = ran[k]
      BY <1>6, <2>1, <2>3, CountRunEffect, RaisedIsLost DEF IInv, TypeOK
    <3>2. ran[k] > 0 => k \notin lost
      BY <2>3, <3>1, LostStays
    <3>3. QED BY <2>1, <3>1, <3>2 DEF KeptOrLost
  <2>4. QED BY <2>2, <2>3, NobodyRuns DEF KeptOrLost
<1>7. CASE Return(c)
  <2>1. UNCHANGED <<ran, cache>> /\ call'[c].pc = "idle"
    BY <1>7 DEF Return, Idle, IInv, TypeOK
  <2>2. QED BY <2>1, NothingRan, NobodyRuns
<1>8. QED BY <1>1, <1>2, <1>3, <1>4, <1>5, <1>6, <1>7 DEF Step

LEMMA OInvStep == ASSUME OneCaller, OInv, [MCNext]_<<vars, lost>> PROVE OInv'
<1>1. IInv'
  BY EveryStep DEF OInv, MCNext, vars
<1>2. KeptOrLost' /\ RunningIsNew'
  <2>1. CASE MCNext /\ \E c \in Calls : Step(c)
    BY <2>1, OneAtATime
  <2>2. CASE MCNext /\ Restart
    <3>1. \A k \in ToolNames \X Keys : ran'[k] = 0
      BY <2>2 DEF Restart
    <3>2. QED BY <2>2, <3>1 DEF Restart, KeptOrLost, RunningIsNew, At, Idle
  <2>3. CASE MCNext /\ UNCHANGED <<call, cache, ran>>
    BY <2>3, NothingRan DEF OInv, RunningIsNew, At, KeyOf, req
  <2>4. CASE UNCHANGED <<vars, lost>>
    BY <2>4 DEF vars, OInv, KeptOrLost, RunningIsNew, At, KeyOf, req
  <2>5. QED
    BY <2>1, <2>2, <2>3, <2>4 DEF MCNext, Next, register, Mint, Die, Configure, AddRule
<1>3. QED BY <1>1, <1>2 DEF OInv

\* ToolSpec: "At-most-once execution is provided uniformly by the registry's
\* CallContext.idempotency_key replay cache".  For calls made one after the
\* other, a key runs a tool's handler once, but for handlers whose provenance
\* raised: however many keys and tools, and whatever happens to settings,
\* rules and tokens in between.
THEOREM OneRunPerKeyInTurn == OneCaller /\ MCSpec => []OneRunPerKey
<1>1. Init /\ lost = {} => OInv
  <2> SUFFICES ASSUME Init, lost = {} PROVE OInv
    OBVIOUS
  <2>1. \A k \in ToolNames \X Keys : ran[k] = 0
    BY DEF Init
  <2>2. QED BY <2>1, InitialState DEF OInv, KeptOrLost, RunningIsNew, Init, At, Idle
<1>2. OneCaller /\ OInv /\ [MCNext]_<<vars, lost>> => OInv'
  BY OInvStep
<1>3. OInv => OneRunPerKey
  BY DEF OInv, IInv, TypeOK, KeptOrLost, OneRunPerKey
<1>4. OneCaller => []OneCaller
  <2>1. OneCaller => OneCaller'
    BY DEF OneCaller
  <2>2. QED BY <2>1, PTL
<1>5. QED BY <1>1, <1>2, <1>3, <1>4, PTL DEF MCSpec, MCInit

-----------------------------------------------------------------------------
(* The workbench: its rule list *)

\* The shipped rules stay in the list, and it is the shipped one until a rule is
\* added to it.
BenchRules ==
    /\ RulesOK
    /\ \A i \in DOMAIN InitialRules : \E j \in DOMAIN rules : rules[j] = InitialRules[i]
    /\ rules = InitialRules \/ Len(rules) > Len(InitialRules)

LEMMA BenchRulesInit == RulesInit => BenchRules
  BY RulesAssumption DEF RulesInit, BenchRules, RulesOK

LEMMA BenchRulesChange ==
    ASSUME BenchRules, [BenchNext]_benchVars
    PROVE  \/ rules' = rules
           \/ rules' = InitialRules /\ faults' = faults + 1
           \/ \E rule \in AddedRules, prepend \in BOOLEAN : add_rule(rule, prepend) /\ faults' = faults
<1>1. CASE \E e \in Events : Ingest(e)
  BY <1>1 DEF Ingest
<1>2. CASE \E w \in Upserts : Upsert(w[1], w[2])
  BY <1>2 DEF Upsert
<1>3. CASE \E c \in ToolCalls, role \in Callers : invoke(c, role)
  BY <1>3 DEF invoke
<1>4. CASE PutAway \/ WriteOutbox \/ MarkClosed \/ Record \/ Fail
  BY <1>4 DEF PutAway, WriteOutbox, MarkClosed, Record, Fail
<1>5. CASE NewProcess
  BY <1>5 DEF NewProcess
<1>6. CASE \E rule \in AddedRules, prepend \in BOOLEAN : Govern(rule, prepend)
  BY <1>6 DEF Govern
<1>7. CASE UNCHANGED benchVars
  BY <1>7 DEF benchVars
<1>8. QED BY <1>1, <1>2, <1>3, <1>4, <1>5, <1>6, <1>7 DEF BenchNext

LEMMA BenchRulesStep ==
    ASSUME BenchRules, [BenchNext]_benchVars
    PROVE  BenchRules'
<1>1. CASE rules' = rules
  BY <1>1 DEF BenchRules, RulesOK
<1>2. CASE rules' = InitialRules
  BY <1>2, RulesAssumption DEF BenchRules, RulesOK
<1>3. ASSUME NEW rule \in AddedRules, NEW prepend \in BOOLEAN, add_rule(rule, prepend)
      PROVE  BenchRules'
  <2>1. RulesOK /\ Len(rules) \in Nat /\ Len(InitialRules) \in Nat
    BY RulesAssumption DEF BenchRules, RulesOK
  <2>2. /\ RulesOK'
        /\ Len(rules') = Len(rules) + 1
        /\ \A j \in DOMAIN rules : \E k \in DOMAIN rules' : rules'[k] = rules[j]
    BY <1>3, <2>1, AddRuleEffect
  <2>3. \A i \in DOMAIN InitialRules : \E k \in DOMAIN rules' : rules'[k] = InitialRules[i]
    BY <2>2 DEF BenchRules
  <2>4. Len(rules') > Len(InitialRules)
    BY <2>1, <2>2 DEF BenchRules
  <2>5. QED BY <2>2, <2>3, <2>4 DEF BenchRules
<1>4. QED BY <1>1, <1>2, <1>3, BenchRulesChange

LEMMA BenchRulesHold == BenchSpec => []BenchRules
<1>1. BenchInit => BenchRules
  BY BenchRulesInit DEF BenchInit
<1>2. QED BY <1>1, BenchRulesStep, PTL DEF BenchSpec

LEMMA RulesOKIsDocumented ==
    ASSUME RulesOK
    PROVE  VerdictIsAsDocumented
<1> SUFFICES ASSUME NEW spec \in Specs, NEW arguments \in Arguments
             PROVE  LET verdict == check_rules(rules, spec, arguments) IN
                    /\ verdict.allowed <=>
                           /\ Matching("deny", spec, arguments) = {}
                           /\ \/ spec.band # "execute"
                              \/ Matching("allow", spec, arguments) # {}
                    /\ verdict.allowed =>
                           (verdict.review <=>
                                Matching("require_approval", spec, arguments) # {})
  BY DEF VerdictIsAsDocumented
<1>1. rules \in Seq(PolicyRule)
  BY DEF RulesOK
<1>2. QED BY <1>1, VerdictOfRules, MatchingHits

\* gates.py, module docstring, for the shipped packs (packs/*.yaml) and whatever
\* rules are added to them: the verdict is the documented one, on every call.
THEOREM PacksAreDocumented == BenchSpec => []VerdictsAreAsDocumented
<1>1. BenchRules => VerdictsAreAsDocumented
  BY RulesOKIsDocumented DEF BenchRules, VerdictsAreAsDocumented
<1>2. QED BY <1>1, BenchRulesHold, PTL

-----------------------------------------------------------------------------
(* The shipped packs on transfers *)

LEMMA ConcatElement ==
    ASSUME NEW s \in Seq(PolicyRule), NEW t \in Seq(PolicyRule)
    PROVE  /\ (s \o t) \in Seq(PolicyRule)
           /\ \A i \in DOMAIN (s \o t) : \/ \E j \in DOMAIN s : (s \o t)[i] = s[j]
                                         \/ \E j \in DOMAIN t : (s \o t)[i] = t[j]
           /\ \A j \in DOMAIN s : \E i \in DOMAIN (s \o t) : (s \o t)[i] = s[j]
           /\ \A j \in DOMAIN t : \E i \in DOMAIN (s \o t) : (s \o t)[i] = t[j]
<1>1. ASSUME NEW i \in DOMAIN (s \o t)
      PROVE  \/ \E j \in DOMAIN s : (s \o t)[i] = s[j]
             \/ \E j \in DOMAIN t : (s \o t)[i] = t[j]
  <2>1. CASE i <= Len(s)
    <3>1. i \in DOMAIN s /\ (s \o t)[i] = s[i]
      BY <2>1
    <3>2. QED BY <3>1
  <2>2. CASE i > Len(s)
    <3>1. i - Len(s) \in DOMAIN t /\ (s \o t)[i] = t[i - Len(s)]
      BY <2>2
    <3>2. QED BY <3>1
  <2>3. QED BY <2>1, <2>2
<1>2. ASSUME NEW j \in DOMAIN s
      PROVE  j \in DOMAIN (s \o t) /\ (s \o t)[j] = s[j]
  OBVIOUS
<1>3. ASSUME NEW j \in DOMAIN t
      PROVE  j + Len(s) \in DOMAIN (s \o t) /\ (s \o t)[j + Len(s)] = t[j]
  OBVIOUS
<1>4. (s \o t) \in Seq(PolicyRule)
  OBVIOUS
<1> DEFINE both == s \o t
<1>5. \A i \in DOMAIN both : \/ \E j \in DOMAIN s : both[i] = s[j]
                            \/ \E j \in DOMAIN t : both[i] = t[j]
  BY <1>1
<1>6. \A j \in DOMAIN s : j \in DOMAIN both /\ both[j] = s[j]
  BY <1>2
<1>7. \A j \in DOMAIN t : j + Len(s) \in DOMAIN both /\ both[j + Len(s)] = t[j]
  BY <1>3
<1>8. QED
  <2> HIDE DEF both
  <2>1. \A j \in DOMAIN s : \E i \in DOMAIN both : both[i] = s[j]
    BY <1>6
  <2>2. \A j \in DOMAIN t : \E i \in DOMAIN both : both[i] = t[j]
    BY <1>7
  <2>3. QED BY <1>4, <1>5, <2>1, <2>2 DEF both

IsTransfer(c) ==
    /\ c.spec = execute_post_transfer_spec /\ c.spec \in Specs
    /\ c.arguments \in Arguments
    /\ {"amount", "currency"} \subseteq DOMAIN c.arguments
    /\ c.arguments.amount \in Int

LEMMA TransferSpec ==
    /\ execute_post_transfer_spec.name = "execute_post_transfer"
    /\ execute_post_transfer_spec.band = "execute"
    /\ execute_post_transfer_spec.risk_tier = "high"
    /\ execute_post_transfer_spec.side_effect = "reversible"
    /\ {"amount", "currency"} \subseteq execute_post_transfer_spec.required
  BY DEF execute_post_transfer_spec, ToolSpec

LEMMA PacksAreRules ==
    /\ BaselinePack \in Seq(PolicyRule) /\ CompliancePack \in Seq(PolicyRule)
    /\ TradingPack \in Seq(PolicyRule) /\ TreasuryPack \in Seq(PolicyRule)
<1>1. ASSUME NEW effect \in {"allow", "deny", "require_approval"}, NEW bands \in SUBSET Bands,
             NEW tools, NEW tier \in RiskTiers, NEW effects \in SUBSET SideEffects,
             NEW conditions \in SUBSET Arguments
      PROVE  YamlRule(effect, bands, tools, tier, effects, conditions) \in PolicyRule
  BY DEF YamlRule, PolicyRule
<1>2. \A field, operator, expected : Where(field, operator, expected) \in SUBSET Arguments
  BY DEF Where
<1>3. /\ {"low", "medium", "high", "critical"} \subseteq RiskTiers
      /\ {{"irreversible"}, SideEffects} \subseteq SUBSET SideEffects
      /\ {{"propose"}, {"execute"}, Bands} \subseteq SUBSET Bands
  BY DEF RiskTiers, RISK_ORDER, SideEffects, Bands
<1>4. ASSUME NEW effect \in {"allow", "deny", "require_approval"}, NEW tools,
             NEW conditions \in SUBSET Arguments
      PROVE  ToolRule(effect, tools, conditions) \in PolicyRule
  BY <1>1, <1>3 DEF ToolRule
<1>5. BaselinePack \in Seq(PolicyRule)
  BY <1>1, <1>3 DEF BaselinePack
<1>6. CompliancePack \in Seq(PolicyRule)
  <2>1. (Where("disposition", "eq", "dismiss") \cap Where("priority", "in", {"high", "critical"})) \in SUBSET Arguments
    BY <1>2
  <2>2. QED BY <1>2, <1>4, <2>1 DEF CompliancePack
<1>7. TradingPack \in Seq(PolicyRule)
  <2>1. DOMAIN TradingPack = 1..5 /\ TradingPack = [i \in 1..5 |-> TradingPack[i]]
    BY DEF TradingPack
  <2>2. TradingPack[1] \in PolicyRule /\ TradingPack[2] \in PolicyRule
    BY <1>2, <1>4 DEF TradingPack
  <2>3. TradingPack[3] \in PolicyRule /\ TradingPack[4] \in PolicyRule
    BY <1>2, <1>4 DEF TradingPack
  <2>4. TradingPack[5] \in PolicyRule
    BY <1>2, <1>4 DEF TradingPack
  <2>5. \A i \in 1..5 : TradingPack[i] \in PolicyRule
    BY <2>2, <2>3, <2>4
  <2>6. TradingPack \in [1..5 -> PolicyRule]
    BY <2>1, <2>5
  <2>7. 5 \in Nat
    OBVIOUS
  <2>8. QED BY <2>6, <2>7, SeqDef
<1>8. TreasuryPack \in Seq(PolicyRule)
  <2>1. (Where("amount", "lte", TransferLimit) \cap Where("currency", "in", ApprovedCurrencies)) \in SUBSET Arguments
    BY <1>2
  <2>2. QED BY <1>2, <1>4, <2>1 DEF TreasuryPack
<1>9. QED BY <1>5, <1>6, <1>7, <1>8

\* A transfer above the limit meets the denial of treasury.yaml.
LEMMA LimitIsDenied ==
    ASSUME NEW c, IsTransfer(c), c.arguments.amount > TransferLimit
    PROVE  \E i \in DOMAIN InitialRules :
               InitialRules[i].effect = "deny" /\ matches(InitialRules[i], c.spec, c.arguments)
<1> DEFINE rule == ToolRule("deny", {"execute_post_transfer"}, Where("amount", "gt", TransferLimit))
<1>1. 1 \in DOMAIN TreasuryPack /\ TreasuryPack[1] = rule
  BY DEF TreasuryPack
<1>2. \E i \in DOMAIN InitialRules : InitialRules[i] = rule
  <2> DEFINE three == BaselinePack \o CompliancePack \o TradingPack
  <2>1. three \in Seq(PolicyRule) /\ TreasuryPack \in Seq(PolicyRule)
    BY PacksAreRules
  <2>2. InitialRules = three \o TreasuryPack
    BY WorkbenchAssumption DEF gate_from_packs
  <2> HIDE DEF three
  <2>3. \A j \in DOMAIN TreasuryPack :
            \E i \in DOMAIN (three \o TreasuryPack) : (three \o TreasuryPack)[i] = TreasuryPack[j]
    BY <2>1, ConcatElement
  <2>4. QED BY <1>1, <2>2, <2>3
<1>3. c.arguments \in Where("amount", "gt", TransferLimit)
  <2>1. Compare("gt", c.arguments["amount"], TransferLimit)
    BY DEF Compare
  <2>2. QED BY <2>1 DEF Where, IsTransfer
<1>4. "execute_post_transfer" \in ToolNames
  BY TransferSpec DEF IsTransfer, ToolNames
<1>5. /\ rule.effect = "deny" /\ rule.bands = Bands
      /\ rule.tools = {"execute_post_transfer"} /\ rule.min_risk_tier = "low"
      /\ rule.side_effects = SideEffects
      /\ rule.conditions = Where("amount", "gt", TransferLimit)
  BY <1>4 DEF ToolRule, YamlRule
<1>6. RISK_ORDER["high"] >= RISK_ORDER["low"]
  BY DEF RISK_ORDER
<1>7. matches(rule, c.spec, c.arguments)
  BY <1>3, <1>5, <1>6, TransferSpec DEF matches, IsTransfer, Bands, SideEffects
<1>8. QED BY <1>2, <1>5, <1>7

\* Of the rules that allow, only that of treasury.yaml is about transfers.
LEMMA OnlyApprovedCurrencies ==
    ASSUME NEW c, IsTransfer(c), NEW i \in DOMAIN InitialRules,
           InitialRules[i].effect = "allow", matches(InitialRules[i], c.spec, c.arguments)
    PROVE  c.arguments.currency \in ApprovedCurrencies
<1> DEFINE rule == InitialRules[i]
<1>1. "execute_post_transfer" \in rule.tools /\ c.arguments \in rule.conditions
  BY TransferSpec DEF matches, IsTransfer
<1>2. /\ \A effect, tools, conditions :
             /\ ToolRule(effect, tools, conditions).effect = effect
             /\ ToolRule(effect, tools, conditions).tools \subseteq tools
             /\ ToolRule(effect, tools, conditions).conditions = conditions
      /\ \A effect, bands, tools, tier, effects, conditions :
             YamlRule(effect, bands, tools, tier, effects, conditions).effect = effect
  BY DEF ToolRule, YamlRule
<1>3. \A j \in DOMAIN BaselinePack : BaselinePack[j].effect # "allow"
  BY <1>2 DEF BaselinePack
<1>4. \A j \in DOMAIN CompliancePack :
          CompliancePack[j].effect = "allow" => "execute_post_transfer" \notin CompliancePack[j].tools
  BY <1>2 DEF CompliancePack
<1>5. \A j \in DOMAIN TradingPack :
          TradingPack[j].effect = "allow" => "execute_post_transfer" \notin TradingPack[j].tools
  <2>1. \A j \in DOMAIN TradingPack : j \in 1..5
    BY DEF TradingPack
  <2>2. /\ TradingPack[1].effect = "deny" /\ TradingPack[2].effect = "deny"
        /\ TradingPack[5].effect = "require_approval"
    <3>1. TradingPack[1] = ToolRule("deny", {"execute_place_order"}, Where("notional", "gt", 8))
      BY DEF TradingPack
    <3>2. TradingPack[2] = ToolRule("deny", {"execute_place_order"}, Where("instrument_restricted", "eq", TRUE))
      BY DEF TradingPack
    <3>3. TradingPack[5] = ToolRule("require_approval", {"execute_place_order", "execute_cancel_order"}, Arguments)
      BY DEF TradingPack
    <3>4. QED BY <3>1, <3>2, <3>3 DEF ToolRule, YamlRule
  <2>3. \A j \in {3, 4} : "execute_post_transfer" \notin TradingPack[j].tools
    BY <1>2 DEF TradingPack
  <2>4. QED BY <2>1, <2>2, <2>3
<1>6. \A j \in DOMAIN TreasuryPack :
          TreasuryPack[j].effect = "allow" =>
              TreasuryPack[j].conditions \subseteq Where("currency", "in", ApprovedCurrencies)
  BY <1>2 DEF TreasuryPack
<1>7. InitialRules = BaselinePack \o CompliancePack \o TradingPack \o TreasuryPack
  BY WorkbenchAssumption DEF gate_from_packs
<1>8. \/ \E j \in DOMAIN BaselinePack : rule = BaselinePack[j]
      \/ \E j \in DOMAIN CompliancePack : rule = CompliancePack[j]
      \/ \E j \in DOMAIN TradingPack : rule = TradingPack[j]
      \/ \E j \in DOMAIN TreasuryPack : rule = TreasuryPack[j]
  <2> DEFINE two == BaselinePack \o CompliancePack
             three == two \o TradingPack
  <2>2. InitialRules = three \o TreasuryPack
    BY <1>7
  <2>3. /\ two \in Seq(PolicyRule)
        /\ \A k \in DOMAIN two : \/ \E j \in DOMAIN BaselinePack : two[k] = BaselinePack[j]
                                 \/ \E j \in DOMAIN CompliancePack : two[k] = CompliancePack[j]
    BY PacksAreRules, ConcatElement
  <2> HIDE DEF two
  <2>4. /\ three \in Seq(PolicyRule)
        /\ \A k \in DOMAIN three : \/ \E j \in DOMAIN two : three[k] = two[j]
                                   \/ \E j \in DOMAIN TradingPack : three[k] = TradingPack[j]
    BY <2>3, PacksAreRules, ConcatElement
  <2> HIDE DEF three
  <2>5. \/ \E j \in DOMAIN three : rule = three[j]
        \/ \E j \in DOMAIN TreasuryPack : rule = TreasuryPack[j]
    BY <2>2, <2>4, PacksAreRules, ConcatElement
  <2>6. QED BY <2>3, <2>4, <2>5
<1>9. c.arguments \in Where("currency", "in", ApprovedCurrencies)
  BY <1>1, <1>3, <1>4, <1>5, <1>6, <1>8
<1>10. QED BY <1>9 DEF Where, Compare

-----------------------------------------------------------------------------
(* The execute tools *)

Tasks == [tool : {c.spec.name : c \in ToolCalls}, arguments : {c.arguments : c \in ToolCalls},
          approved : BOOLEAN, at : {"write", "twin", "audit"}]

BenchTypes ==
    /\ doing \in {Nothing} \cup Tasks
    /\ faults \in Nat

\* What LimitsHold says of a document, of a document or of the tool about to write one.
Permitted(d) ==
    /\ d.approved
    /\ d.tool = "execute_post_transfer" =>
           /\ d.arguments.amount <= TransferLimit
           /\ d.arguments.currency \in ApprovedCurrencies \/ faults > 0 \/ Len(rules) > Len(InitialRules)

Limited ==
    /\ BenchRules /\ BenchTypes
    /\ doing # Nothing => Permitted(doing)
    /\ \A d \in outbox : Permitted(d)

LEMMA CatalogueTransfer ==
    ASSUME NEW spec \in Catalogue, spec.name = "execute_post_transfer"
    PROVE  spec = execute_post_transfer_spec
  BY DEF Catalogue, ToolSpec, observe_positions_spec, observe_exposures_spec, observe_limit_utilisation_spec,
     observe_market_regime_spec, simulate_market_shock_spec, propose_hedge_candidates_spec,
     observe_cash_ladder_spec, observe_cash_forecast_spec, simulate_liquidity_stress_spec,
     propose_funding_plan_spec, observe_alerts_spec, observe_case_spec, observe_entity_graph_spec,
     simulate_alert_threshold_spec, propose_case_narrative_spec, execute_close_case_spec,
     observe_queue_state_spec, simulate_staffing_change_spec, propose_response_draft_spec,
     execute_send_response_spec, observe_filing_search_spec, observe_policy_lookup_spec

\* An execute tool begins only with an approval, and a transfer only if the rules
\* let it pass.
LEMMA BegunIsPermitted ==
    ASSUME BenchRules, NEW c \in ToolCalls, NEW role \in Callers, invoke(c, role), doing' # doing
    PROVE  /\ doing' \in Tasks
           /\ Permitted(doing')
<1> DEFINE verdict == check_tool_call(rules, c.spec, c.arguments, role)
<1>1. /\ valid_arguments(c.spec, c.arguments) /\ verdict.allowed
      /\ \/ Consult(c)
         \/ \E token_ \in BOOLEAN : (verdict.review \/ c.spec.band = "execute" => token_) /\ Begin(c, token_)
  BY DEF invoke
<1>2. c.spec.band = "execute" /\ Begin(c, TRUE)
  BY <1>1 DEF Consult, Begin
<1>3. doing' = [tool |-> c.spec.name, arguments |-> c.arguments, approved |-> TRUE, at |-> "write"]
  BY <1>2 DEF Begin
<1>4. doing' \in Tasks
  BY <1>3 DEF Tasks
<1>5. doing'.tool = c.spec.name /\ doing'.arguments = c.arguments /\ doing'.approved = TRUE
  BY <1>3
<1>6. ASSUME c.spec.name = "execute_post_transfer"
      PROVE  /\ c.arguments.amount <= TransferLimit
             /\ c.arguments.currency \in ApprovedCurrencies \/ Len(rules) > Len(InitialRules)
  <2>1. /\ c.spec \in Catalogue /\ c.spec \in Specs /\ c.arguments \in Arguments
        /\ "amount" \in DOMAIN c.arguments => c.arguments.amount \in Int
    BY <1>2, WorkbenchAssumption
  <2>2. c.spec = execute_post_transfer_spec
    BY <1>6, <2>1, CatalogueTransfer
  <2>3. {"amount", "currency"} \subseteq DOMAIN c.arguments
    BY <1>1, <2>2, TransferSpec DEF valid_arguments
  <2>4. IsTransfer(c)
    BY <2>1, <2>2, <2>3 DEF IsTransfer
  <2>5. check_rules(rules, c.spec, c.arguments).allowed
    BY <1>1 DEF check_tool_call, Denied
  <2>6. rules \in Seq(PolicyRule) /\ DOMAIN rules = 1..Len(rules)
    BY DEF BenchRules, RulesOK
  <2>7. /\ ~Hit(rules, Len(rules), "deny", c.spec, c.arguments)
        /\ Hit(rules, Len(rules), "allow", c.spec, c.arguments)
    BY <1>2, <2>5, <2>6, VerdictOfRules
  <2>8. c.arguments.amount <= TransferLimit
    <3>1. ~(c.arguments.amount > TransferLimit)
      <4>1. SUFFICES ASSUME c.arguments.amount > TransferLimit PROVE FALSE
        OBVIOUS
      <4>2. PICK i \in DOMAIN InitialRules :
                InitialRules[i].effect = "deny" /\ matches(InitialRules[i], c.spec, c.arguments)
        BY <2>4, <4>1, LimitIsDenied
      <4>3. PICK j \in DOMAIN rules : rules[j] = InitialRules[i]
        BY DEF BenchRules
      <4>4. QED BY <2>6, <2>7, <4>2, <4>3 DEF Hit
    <3>2. QED BY <2>1, <2>3, <3>1 DEF TransferLimit
  <2>9. ASSUME rules = InitialRules
        PROVE  c.arguments.currency \in ApprovedCurrencies
    <3>1. PICK i \in DOMAIN InitialRules :
              InitialRules[i].effect = "allow" /\ matches(InitialRules[i], c.spec, c.arguments)
      BY <2>6, <2>7, <2>9 DEF Hit
    <3>2. QED BY <2>4, <3>1, OnlyApprovedCurrencies
  <2>10. QED BY <2>8, <2>9 DEF BenchRules
<1>7. rules' = rules /\ faults' = faults
  BY DEF invoke
<1>8. QED BY <1>4, <1>5, <1>6 DEF Permitted

\* Permission outlasts what happens to rules and faults.
LEMMA PermissionLasts ==
    ASSUME BenchRules, BenchTypes, [BenchNext]_benchVars, NEW d, Permitted(d)
    PROVE  /\ d.approved
           /\ d.tool = "execute_post_transfer" =>
                  /\ d.arguments.amount <= TransferLimit
                  /\ d.arguments.currency \in ApprovedCurrencies \/ faults' > 0 \/ Len(rules') > Len(InitialRules)
<1>1. faults \in Nat /\ faults' \in {faults, faults + 1}
  BY DEF BenchTypes, BenchNext, benchVars, Ingest, Upsert, invoke, PutAway, WriteOutbox, MarkClosed,
         Record, Fail, NewProcess, Govern
<1>2. CASE rules' = rules
  BY <1>1, <1>2 DEF Permitted
<1>3. CASE rules' = InitialRules /\ faults' = faults + 1
  BY <1>1, <1>3 DEF Permitted
<1>4. ASSUME NEW rule \in AddedRules, NEW prepend \in BOOLEAN, add_rule(rule, prepend)
      PROVE  Len(rules') > Len(InitialRules)
  <2>1. Len(rules') = Len(rules) + 1
    BY <1>4, AddRuleEffect DEF BenchRules
  <2>2. Len(rules) \in Nat /\ Len(InitialRules) \in Nat
    BY RulesAssumption DEF BenchRules, RulesOK
  <2>3. QED BY <2>1, <2>2 DEF BenchRules
<1>5. QED BY <1>2, <1>3, <1>4, BenchRulesChange DEF Permitted

LEMMA WorkMoves ==
    ASSUME BenchTypes, [BenchNext]_benchVars
    PROVE  \/ outbox' = outbox /\ doing' = doing
           \/ outbox' = outbox /\ doing' = Nothing
           \/ outbox' = outbox /\ \E c \in ToolCalls, role \in Callers : invoke(c, role) /\ doing' # doing
           \/ MarkClosed
           \/ WriteOutbox
<1>1. CASE \E e \in Events : Ingest(e)
  BY <1>1 DEF Ingest
<1>2. CASE \E w \in Upserts : Upsert(w[1], w[2])
  BY <1>2 DEF Upsert
<1>3. CASE \E c \in ToolCalls, role \in Callers : invoke(c, role)
  <2>1. PICK c \in ToolCalls, role \in Callers : invoke(c, role)
    BY <1>3
  <2>2. outbox' = outbox
    BY <2>1 DEF invoke
  <2>3. QED BY <2>1, <2>2
<1>4. CASE PutAway \/ Record \/ Fail \/ NewProcess
  BY <1>4 DEF PutAway, Record, Fail, NewProcess
<1>5. CASE \E rule \in AddedRules, prepend \in BOOLEAN : Govern(rule, prepend)
  BY <1>5 DEF Govern
<1>6. CASE UNCHANGED benchVars
  BY <1>6 DEF benchVars
<1>7. QED BY <1>1, <1>2, <1>3, <1>4, <1>5, <1>6 DEF BenchNext

LEMMA TaskFields ==
    ASSUME NEW task \in Tasks
    PROVE  /\ task # Nothing
           /\ \A place \in {"write", "twin", "audit"} :
                  /\ [task EXCEPT !.at = place] \in Tasks
                  /\ [task EXCEPT !.at = place].at = place
                  /\ [task EXCEPT !.at = place].tool = task.tool
                  /\ [task EXCEPT !.at = place].arguments = task.arguments
                  /\ [task EXCEPT !.at = place].approved = task.approved
<1>1. "at" \in DOMAIN task /\ "at" \notin DOMAIN Nothing
  BY DEF Tasks, Nothing
<1>2. task # Nothing
  BY <1>1
<1>3. QED BY <1>2 DEF Tasks

LEMMA BenchTypesStep ==
    ASSUME BenchRules, BenchTypes, [BenchNext]_benchVars
    PROVE  BenchTypes'
<1>1. faults' \in Nat
  BY DEF BenchTypes, BenchNext, benchVars, Ingest, Upsert, invoke, PutAway, WriteOutbox, MarkClosed,
         Record, Fail, NewProcess, Govern
<1>2. doing' \in {Nothing} \cup Tasks
  <2>1. CASE doing' = doing \/ doing' = Nothing
    BY <2>1 DEF BenchTypes
  <2>2. CASE \E c \in ToolCalls, role \in Callers : invoke(c, role) /\ doing' # doing
    BY <2>2, BegunIsPermitted
  <2>3. CASE MarkClosed \/ WriteOutbox
    <3>1. doing \in Tasks
      BY <2>3 DEF MarkClosed, WriteOutbox, BenchTypes
    <3>2. PICK place \in {"twin", "audit"} : doing' = [doing EXCEPT !.at = place]
      BY <2>3 DEF MarkClosed, WriteOutbox
    <3>3. [doing EXCEPT !.at = place] \in Tasks
      BY <3>1, TaskFields
    <3>4. QED BY <3>2, <3>3
  <2>4. QED BY <2>1, <2>2, <2>3, WorkMoves
<1>3. QED BY <1>1, <1>2 DEF BenchTypes

LEMMA LimitedStep ==
    ASSUME Limited, [BenchNext]_benchVars
    PROVE  Limited'
<1> DEFINE OK(d) ==
        /\ d.approved
        /\ d.tool = "execute_post_transfer" =>
               /\ d.arguments.amount <= TransferLimit
               /\ d.arguments.currency \in ApprovedCurrencies \/ faults' > 0 \/ Len(rules') > Len(InitialRules)
<1>1. BenchRules' /\ BenchTypes'
  BY BenchRulesStep, BenchTypesStep DEF Limited
<1>2. \A d : Permitted(d) => OK(d)
  BY PermissionLasts DEF Limited
<1>3. /\ doing' # Nothing => OK(doing')
      /\ \A d \in outbox' : OK(d)
  <2>1. \A d \in outbox : OK(d)
    BY <1>2 DEF Limited
  <2>2. CASE outbox' = outbox /\ (doing' = doing \/ doing' = Nothing)
    BY <1>2, <2>1, <2>2 DEF Limited
  <2>3. CASE outbox' = outbox /\ \E c \in ToolCalls, role \in Callers : invoke(c, role) /\ doing' # doing
    <3>1. PICK c \in ToolCalls, role \in Callers : invoke(c, role) /\ doing' # doing
      BY <2>3
    <3>2. Permitted(doing')
      BY <3>1, BegunIsPermitted DEF Limited
    <3>3. QED BY <1>2, <2>1, <2>3, <3>2
  <2>4. CASE MarkClosed
    <3>1. doing \in Tasks /\ doing' = [doing EXCEPT !.at = "audit"] /\ outbox' = outbox
      BY <2>4 DEF MarkClosed, Limited, BenchTypes
    <3>2. /\ doing'.tool = doing.tool /\ doing'.arguments = doing.arguments
          /\ doing'.approved = doing.approved
      BY <3>1, TaskFields
    <3>3. OK(doing)
      BY <1>2, <2>4 DEF MarkClosed, Limited
    <3>4. QED BY <2>1, <3>1, <3>2, <3>3
  <2>5. CASE WriteOutbox
    <3>1. /\ doing \in Tasks /\ outbox' = outbox \cup {Document}
          /\ \E place \in {"twin", "audit"} : doing' = [doing EXCEPT !.at = place]
      BY <2>5 DEF WriteOutbox, Limited, BenchTypes
    <3>2. /\ doing'.tool = doing.tool /\ doing'.arguments = doing.arguments
          /\ doing'.approved = doing.approved
      BY <3>1, TaskFields
    <3>3. OK(doing)
      BY <1>2, <2>5 DEF WriteOutbox, Limited
    <3>4. /\ Document.tool = doing.tool /\ Document.arguments = doing.arguments
          /\ Document.approved = doing.approved
      BY DEF Document
    <3>5. OK(Document)
      BY <3>3, <3>4
    <3>6. QED BY <2>1, <3>1, <3>2, <3>3, <3>5
  <2>6. QED BY <2>2, <2>3, <2>4, <2>5, WorkMoves DEF Limited
<1>4. QED BY <1>1, <1>3 DEF Limited, Permitted

\* packs/treasury.yaml, docs on the execute band: however rules are added, tools
\* fail and processes restart, every document in the outbox was approved, no
\* transfer is above the limit, and in another than an approved currency none is
\* written by the shipped packs alone.
THEOREM TransfersStayInLimits == BenchSpec => []LimitsHold
<1>1. BenchInit => Limited
  BY BenchRulesInit DEF BenchInit, Limited, BenchTypes
<1>2. Limited => LimitsHold
  BY DEF Limited, LimitsHold, Permitted
<1>3. QED BY <1>1, <1>2, LimitedStep, PTL DEF BenchSpec

-----------------------------------------------------------------------------
(* The outbox, the audit trail and the twin *)

\* An execute tool that has written its document and not yet its record.
Pending == doing # Nothing /\ doing.at \in {"twin", "audit"}

OutboxCounts ==
    /\ IsFiniteSet(outbox) /\ IsFiniteSet(trail)
    /\ {d.id : d \in outbox} = 1..Cardinality(outbox)
    /\ {r.id : r \in trail} \subseteq 1..Cardinality(outbox)
    /\ Cardinality(outbox) <= Cardinality(trail) + faults + (IF Pending THEN 1 ELSE 0)
    /\ Pending => /\ Cardinality(outbox) > 0
                  /\ \A r \in trail : r.id # Cardinality(outbox)

OutboxInv == BenchRules /\ BenchTypes /\ OutboxCounts

LEMMA OutboxNumbers ==
    ASSUME OutboxCounts
    PROVE  Cardinality(outbox) \in Nat /\ Cardinality(trail) \in Nat
  BY FS_CardinalityType DEF OutboxCounts

LEMMA WriteCounts ==
    ASSUME OutboxInv, WriteOutbox
    PROVE  OutboxCounts'
<1> DEFINE n == Cardinality(outbox)
<1>1. n \in Nat /\ Cardinality(trail) \in Nat /\ faults \in Nat
  BY OutboxNumbers DEF OutboxInv, BenchTypes
<1>2. outbox' = outbox \cup {Document} /\ trail' = trail /\ faults' = faults
  BY DEF WriteOutbox
<1>3. Document.id = n + 1
  BY DEF Document
<1>4. Document \notin outbox
  BY <1>1, <1>3 DEF OutboxInv, OutboxCounts
<1>5. IsFiniteSet(outbox') /\ Cardinality(outbox') = n + 1
  BY <1>2, <1>4, FS_AddElement DEF OutboxInv, OutboxCounts
<1>6. ~Pending
  BY DEF WriteOutbox, Pending
<1>7. Pending'
  <2>1. doing \in Tasks
    BY DEF WriteOutbox, OutboxInv, BenchTypes
  <2>2. PICK place \in {"twin", "audit"} : doing' = [doing EXCEPT !.at = place]
    BY DEF WriteOutbox
  <2>3. doing' \in Tasks /\ doing'.at = place
    BY <2>1, <2>2 DEF Tasks
  <2>4. QED BY <2>3, TaskFields DEF Pending
<1>8. {d.id : d \in outbox'} = 1..(n + 1)
  <2>1. {d.id : d \in outbox'} = {d.id : d \in outbox} \cup {n + 1}
    BY <1>2, <1>3
  <2>2. 1..(n + 1) = (1..n) \cup {n + 1}
    BY <1>1
  <2>3. QED BY <2>1, <2>2 DEF OutboxInv, OutboxCounts
<1>9. {r.id : r \in trail'} \subseteq 1..(n + 1) /\ \A r \in trail' : r.id # n + 1
  <2>1. \A r \in trail : r.id \in 1..n
    BY DEF OutboxInv, OutboxCounts
  <2>2. \A m \in 1..n : m \in 1..(n + 1) /\ m # n + 1
    BY <1>1
  <2>3. QED BY <1>2, <2>1, <2>2
<1>10. n + 1 <= Cardinality(trail') + faults' + 1
  BY <1>1, <1>2, <1>6 DEF OutboxInv, OutboxCounts
<1>11. IsFiniteSet(trail')
  BY <1>2 DEF OutboxInv, OutboxCounts
<1>12. n + 1 > 0
  BY <1>1
<1>13. QED BY <1>5, <1>7, <1>8, <1>9, <1>10, <1>11, <1>12 DEF OutboxCounts

LEMMA RecordCounts ==
    ASSUME OutboxInv, Record
    PROVE  OutboxCounts'
<1> DEFINE n == Cardinality(outbox)
           entry == [event |-> IF doing.tool = "execute_close_case" THEN "closed" ELSE "queued", id |-> n]
<1>1. n \in Nat /\ Cardinality(trail) \in Nat /\ faults \in Nat
  BY OutboxNumbers DEF OutboxInv, BenchTypes
<1>2. outbox' = outbox /\ trail' = trail \cup {entry} /\ faults' = faults /\ doing' = Nothing
  BY DEF Record
<1>3. Pending /\ ~Pending'
  BY <1>2 DEF Record, Pending
<1>4. entry.id = n /\ entry \notin trail /\ n \in 1..n
  BY <1>1, <1>3 DEF OutboxInv, OutboxCounts
<1>5. IsFiniteSet(trail') /\ Cardinality(trail') = Cardinality(trail) + 1
  BY <1>2, <1>4, FS_AddElement DEF OutboxInv, OutboxCounts
<1> HIDE DEF entry
<1>6. {r.id : r \in trail'} \subseteq 1..n
  BY <1>2, <1>4 DEF OutboxInv, OutboxCounts
<1>7. n <= Cardinality(trail') + faults'
  BY <1>1, <1>2, <1>3, <1>5 DEF OutboxInv, OutboxCounts
<1>8. Cardinality(trail') \in Nat
  BY <1>1, <1>5
<1>9. QED BY <1>1, <1>2, <1>3, <1>5, <1>6, <1>7, <1>8 DEF OutboxInv, OutboxCounts

LEMMA OutboxStep ==
    ASSUME OutboxInv, [BenchNext]_benchVars
    PROVE  OutboxInv'
<1>1. BenchRules' /\ BenchTypes'
  BY BenchRulesStep, BenchTypesStep DEF OutboxInv
<1> SUFFICES OutboxCounts'
  BY <1>1 DEF OutboxInv
<1>2. /\ Cardinality(outbox) \in Nat /\ Cardinality(trail) \in Nat
      /\ faults \in Nat
  BY OutboxNumbers DEF OutboxInv, BenchTypes
<1>3. ASSUME outbox' = outbox, trail' = trail, faults' = faults, Pending' <=> Pending
      PROVE  OutboxCounts'
  BY <1>3 DEF OutboxInv, OutboxCounts
<1>4. ASSUME outbox' = outbox, trail' = trail, faults' = faults + 1, ~Pending'
      PROVE  OutboxCounts'
  BY <1>2, <1>4 DEF OutboxInv, OutboxCounts
<1>5. CASE \E e \in Events : Ingest(e)
  BY <1>3, <1>5 DEF Ingest, Pending
<1>6. CASE \E w \in Upserts : Upsert(w[1], w[2])
  BY <1>3, <1>6 DEF Upsert, Pending
<1>7. CASE \E c \in ToolCalls, role \in Callers : invoke(c, role)
  <2>1. /\ doing = Nothing /\ outbox' = outbox /\ trail' = trail /\ faults' = faults
        /\ doing' = Nothing \/ doing'.at = "write"
    BY <1>7 DEF invoke, Quiet, Consult, Begin
  <2>2. QED BY <1>3, <2>1 DEF Pending
<1>8. CASE PutAway
  BY <1>3, <1>8 DEF PutAway, Pending
<1>9. CASE MarkClosed
  <2>1. doing \in Tasks /\ doing' = [doing EXCEPT !.at = "audit"]
    BY <1>9 DEF MarkClosed, OutboxInv, BenchTypes
  <2>2. doing' \in Tasks /\ doing'.at = "audit"
    BY <2>1 DEF Tasks
  <2>3. Pending /\ Pending'
    BY <1>9, <2>2, TaskFields DEF MarkClosed, Pending
  <2>4. QED BY <1>3, <1>9, <2>3 DEF MarkClosed
<1>10. CASE Fail \/ NewProcess
  <2>1. ~Pending'
    BY <1>10 DEF Fail, NewProcess, Pending
  <2>2. QED BY <1>4, <1>10, <2>1 DEF Fail, NewProcess
<1>11. CASE \E rule \in AddedRules, prepend \in BOOLEAN : Govern(rule, prepend)
  BY <1>3, <1>11 DEF Govern, Pending
<1>12. CASE UNCHANGED benchVars
  BY <1>3, <1>12 DEF benchVars, Pending
<1>13. QED
  BY <1>5, <1>6, <1>7, <1>8, <1>9, <1>10, <1>11, <1>12, WriteCounts, RecordCounts DEF BenchNext

LEMMA OutboxHolds == BenchSpec => []OutboxInv
<1>1. BenchInit => OutboxInv
  <2>1. SUFFICES ASSUME BenchInit PROVE OutboxInv
    OBVIOUS
  <2>2. outbox = {} /\ trail = {} /\ doing = Nothing /\ faults = 0 /\ BenchRules
    BY <2>1, BenchRulesInit DEF BenchInit
  <2>3. IsFiniteSet({}) /\ Cardinality({}) = 0
    BY FS_EmptySet
  <2>4. 1..0 = {}
    OBVIOUS
  <2>5. QED BY <2>2, <2>3, <2>4 DEF OutboxInv, BenchTypes, OutboxCounts, Pending
<1>2. QED BY <1>1, OutboxStep, PTL DEF BenchSpec

-----------------------------------------------------------------------------
(* Closed cases *)

IsTwin(t) == t = [nodes |-> t.nodes, edges |-> t.edges, series |-> t.series, documents |-> t.documents]

Closed(attributes) == Get(attributes, "status", "open") = "closed"

\* What comes from outside closes no case: that is left to the tool.
CasesComeOpen ==
    /\ IsTwin(DemoTwin)
    /\ \A ref \in entities_of_type(DemoTwin, "case") : ~Closed(DemoTwin.nodes[ref])
    /\ \A w \in Upserts : ~Closed(w[2])
    /\ \A e \in Events : e.kind \in {"alert", "case"} => ~Closed(e.payload)

InLedger(id) == \E d \in outbox : d.tool = "execute_close_case" /\ d.arguments.case_id = id

Ledger ==
    /\ BenchTypes
    /\ IsTwin(twin)
    /\ \A ref \in entities_of_type(twin, "case") : Closed(twin.nodes[ref]) => InLedger(ref[2])
    /\ doing # Nothing /\ doing.at = "twin" =>
           doing.tool = "execute_close_case" /\ InLedger(doing.arguments.case_id)

LEMMA ClosedMerge ==
    ASSUME NEW new, NEW old, Closed(Updated(old, new))
    PROVE  Closed(new) \/ Closed(old)
  BY DEF Closed, Get, Updated

LEMMA UpsertedNodes ==
    ASSUME NEW t, IsTwin(t), NEW ref, NEW attributes
    PROVE  /\ IsTwin(Upserted(t, ref, attributes))
           /\ Upserted(t, ref, attributes).documents = t.documents
           /\ \A x \in DOMAIN Upserted(t, ref, attributes).nodes :
                  Closed(Upserted(t, ref, attributes).nodes[x]) =>
                      \/ x \in DOMAIN t.nodes /\ Closed(t.nodes[x])
                      \/ x = ref /\ Closed(attributes)
<1> DEFINE u == Upserted(t, ref, attributes)
           merged == Updated(Get(t.nodes, ref, <<>>), attributes)
<1>1. u = [nodes |-> Updated(t.nodes, [r \in {ref} |-> merged]), edges |-> t.edges, series |-> t.series,
           documents |-> t.documents]
  BY DEF Upserted, IsTwin
<1>2. IsTwin(u) /\ u.documents = t.documents /\ u.nodes = Updated(t.nodes, [r \in {ref} |-> merged])
  BY <1>1 DEF IsTwin
<1>3. ASSUME NEW x \in DOMAIN u.nodes, x # ref
      PROVE  x \in DOMAIN t.nodes /\ u.nodes[x] = t.nodes[x]
  BY <1>2, <1>3 DEF Updated
<1>4. ref \in DOMAIN u.nodes /\ u.nodes[ref] = merged
  BY <1>2 DEF Updated
<1>5. ~Closed(<<>>)
  BY DEF Closed, Get
<1>6. Closed(merged) => Closed(attributes) \/ (ref \in DOMAIN t.nodes /\ Closed(t.nodes[ref]))
  <2>1. SUFFICES ASSUME Closed(merged)
                 PROVE  Closed(attributes) \/ (ref \in DOMAIN t.nodes /\ Closed(t.nodes[ref]))
    OBVIOUS
  <2>2. Closed(attributes) \/ Closed(Get(t.nodes, ref, <<>>))
    BY <2>1, ClosedMerge
  <2>3. QED BY <1>5, <2>2 DEF Get
<1> HIDE DEF u, merged
<1>7. \A x \in DOMAIN u.nodes : Closed(u.nodes[x]) =>
          (x \in DOMAIN t.nodes /\ Closed(t.nodes[x])) \/ (x = ref /\ Closed(attributes))
  BY <1>3, <1>4, <1>6
<1>8. QED BY <1>2, <1>7 DEF u

LEMMA LinkedNodes ==
    ASSUME NEW t, IsTwin(t), NEW ref, NEW kind, NEW refs
    PROVE  /\ IsTwin(LinkedTo(t, ref, kind, refs))
           /\ \A x \in DOMAIN LinkedTo(t, ref, kind, refs).nodes :
                  Closed(LinkedTo(t, ref, kind, refs).nodes[x]) =>
                      x \in DOMAIN t.nodes /\ Closed(t.nodes[x])
<1> DEFINE u == LinkedTo(t, ref, kind, refs)
<1>1. u = [nodes |-> Updated([r \in refs |-> <<>>], t.nodes),
           edges |-> t.edges \cup {<<ref, kind, r>> : r \in refs}, series |-> t.series,
           documents |-> t.documents]
  <2> DEFINE nodes == Updated([r \in refs |-> <<>>], t.nodes)
             edges == t.edges \cup {<<ref, kind, r>> : r \in refs}
  <2>1. u = [t EXCEPT !.nodes = nodes, !.edges = edges]
    BY DEF LinkedTo
  <2> HIDE DEF nodes, edges, u
  <2>2. u = [nodes |-> nodes, edges |-> edges, series |-> t.series, documents |-> t.documents]
    BY <2>1 DEF IsTwin
  <2>3. QED BY <2>2 DEF nodes, edges
<1>2. IsTwin(u) /\ u.nodes = Updated([r \in refs |-> <<>>], t.nodes)
  BY <1>1 DEF IsTwin
<1>3. ASSUME NEW x \in DOMAIN u.nodes
      PROVE  \/ x \in DOMAIN t.nodes /\ u.nodes[x] = t.nodes[x]
             \/ u.nodes[x] = <<>>
  BY <1>2 DEF Updated
<1>4. ~Closed(<<>>)
  BY DEF Closed, Get
<1> HIDE DEF u
<1>5. \A x \in DOMAIN u.nodes : Closed(u.nodes[x]) => x \in DOMAIN t.nodes /\ Closed(t.nodes[x])
  BY <1>3, <1>4
<1>6. QED BY <1>2, <1>5 DEF u

\* An event leaves every case as open as it was.
LEMMA IngestedNodes ==
    ASSUME NEW t, IsTwin(t), NEW e, e.kind \in {"alert", "case", "position", "market"},
           e.kind \in {"alert", "case"} => ~Closed(e.payload)
    PROVE  /\ IsTwin(Ingested(t, e))
           /\ \A x \in DOMAIN Ingested(t, e).nodes :
                  Closed(Ingested(t, e).nodes[x]) => x \in DOMAIN t.nodes /\ Closed(t.nodes[x])
<1>1. ASSUME NEW attributes, ~Closed(attributes), NEW from, NEW kind, NEW refs
      PROVE  LET u == LinkedTo(Upserted(t, from, attributes), from, kind, refs) IN
             /\ IsTwin(u)
             /\ \A x \in DOMAIN u.nodes : Closed(u.nodes[x]) => x \in DOMAIN t.nodes /\ Closed(t.nodes[x])
  <2> DEFINE s == Upserted(t, from, attributes)
  <2>1. /\ IsTwin(s)
        /\ \A x \in DOMAIN s.nodes : Closed(s.nodes[x]) => x \in DOMAIN t.nodes /\ Closed(t.nodes[x])
    BY <1>1, UpsertedNodes
  <2> HIDE DEF s
  <2>2. LET u == LinkedTo(s, from, kind, refs) IN
        /\ IsTwin(u)
        /\ \A x \in DOMAIN u.nodes : Closed(u.nodes[x]) => x \in DOMAIN s.nodes /\ Closed(s.nodes[x])
    BY <2>1, LinkedNodes
  <2>3. QED BY <2>1, <2>2 DEF s
<1>2. ~Closed(<<>>)
  BY DEF Closed, Get
<1>3. CASE e.kind = "position"
  <2>1. Ingested(t, e) = LinkedTo(Upserted(t, e.refs[1], <<>>), e.refs[1], "holds", {e.refs[2]})
    BY <1>3 DEF Ingested, Related
  <2>2. QED BY <1>1, <1>2, <2>1
<1>4. CASE e.kind = "alert"
  <2>1. Ingested(t, e) = LinkedTo(Upserted(t, e.refs[1], e.payload), e.refs[1], "concerns", Range(Tail(e.refs)))
    BY <1>4 DEF Ingested
  <2>2. QED BY <1>1, <1>4, <2>1
<1>5. CASE e.kind = "case"
  <2>1. Ingested(t, e) = LinkedTo(Upserted(t, e.refs[1], e.payload), e.refs[1], "involves", Range(Tail(e.refs)))
    BY <1>5 DEF Ingested
  <2>2. QED BY <1>1, <1>5, <2>1
<1>6. CASE e.kind = "market"
  <2> DEFINE series == Updated(t.series, [k \in {e.key} |-> Append(Get(t.series, k, <<>>), e.value)])
  <2>1. Ingested(t, e) = [nodes |-> t.nodes, edges |-> t.edges, series |-> series, documents |-> t.documents]
    BY <1>6 DEF Ingested, IsTwin
  <2> HIDE DEF series
  <2>2. QED BY <2>1 DEF IsTwin
<1>7. QED BY <1>3, <1>4, <1>5, <1>6

\* Nothing but execute_close_case closes a case, and it writes its line first.
LEMMA LedgerStep ==
    ASSUME CasesComeOpen, BenchRules, Ledger, [BenchNext]_benchVars
    PROVE  Ledger'
<1>1. BenchTypes'
  BY BenchTypesStep DEF Ledger
<1>2. outbox \subseteq outbox'
  BY DEF BenchNext, benchVars, Ingest, Upsert, invoke, PutAway, WriteOutbox, MarkClosed, Record, Fail,
         NewProcess, Govern
<1> DEFINE
    Listed(id) == \E d \in outbox' : d.tool = "execute_close_case" /\ d.arguments.case_id = id
    Known(t) ==
        /\ IsTwin(t)
        /\ \A ref \in entities_of_type(t, "case") : Closed(t.nodes[ref]) => Listed(ref[2])
    Marking == doing' # Nothing /\ doing'.at = "twin" =>
                   doing'.tool = "execute_close_case" /\ Listed(doing'.arguments.case_id)
<1>3. \A id : InLedger(id) => Listed(id)
  BY <1>2 DEF InLedger
<1> SUFFICES Known(twin') /\ Marking
  <2>1. ASSUME Known(twin'), Marking
        PROVE  Ledger'
    BY <1>1, <2>1 DEF Ledger, InLedger, entities_of_type, Closed, IsTwin, Get, Nothing
  <2>2. QED BY <2>1
<1>4. Known(twin)
  BY <1>3 DEF Ledger
<1>4a. doing # Nothing /\ doing.at = "twin" =>
           doing.tool = "execute_close_case" /\ Listed(doing.arguments.case_id)
  BY <1>3 DEF Ledger
<1> HIDE DEF Listed
<1>5. ASSUME NEW t, IsTwin(t),
             \A x \in DOMAIN t.nodes : Closed(t.nodes[x]) =>
                 x \in DOMAIN twin.nodes /\ Closed(twin.nodes[x])
      PROVE  Known(t)
  BY <1>4, <1>5 DEF entities_of_type
<1>6. doing' = doing => Marking
  BY <1>4a
<1>7. CASE \E e \in Events : Ingest(e)
  <2>1. PICK e \in Events : Ingest(e)
    BY <1>7
  <2>2. twin' = Ingested(twin, e) /\ doing' = doing
    BY <2>1 DEF Ingest
  <2>3. IsTwin(twin) /\ (e.kind \in {"alert", "case"} => ~Closed(e.payload))
    BY <1>4 DEF CasesComeOpen
  <2>4. e.kind \in {"alert", "case", "position", "market"}
    BY EventsAssumption
  <2>5. /\ IsTwin(Ingested(twin, e))
        /\ \A x \in DOMAIN Ingested(twin, e).nodes :
               Closed(Ingested(twin, e).nodes[x]) => x \in DOMAIN twin.nodes /\ Closed(twin.nodes[x])
    BY <2>3, <2>4, IngestedNodes
  <2>6. Known(Ingested(twin, e))
    BY <1>5, <2>5
  <2>7. QED BY <1>6, <2>2, <2>6
<1>8. CASE \E w \in Upserts : Upsert(w[1], w[2])
  <2>1. PICK w \in Upserts : Upsert(w[1], w[2])
    BY <1>8
  <2>2. twin' = Upserted(twin, w[1], w[2]) /\ doing' = doing
    BY <2>1 DEF Upsert
  <2>3. IsTwin(twin) /\ ~Closed(w[2])
    BY <1>4 DEF CasesComeOpen
  <2>4. /\ IsTwin(Upserted(twin, w[1], w[2]))
        /\ \A x \in DOMAIN Upserted(twin, w[1], w[2]).nodes :
               Closed(Upserted(twin, w[1], w[2]).nodes[x]) => x \in DOMAIN twin.nodes /\ Closed(twin.nodes[x])
    BY <2>3, UpsertedNodes
  <2>5. Known(Upserted(twin, w[1], w[2]))
    BY <1>5, <2>4
  <2>6. QED BY <1>6, <2>2, <2>5
<1>9. CASE \E c \in ToolCalls, role \in Callers : invoke(c, role)
  <2>1. twin' = twin /\ (doing' = doing \/ doing'.at = "write")
    BY <1>9 DEF invoke, Consult, Begin
  <2>2. QED BY <1>4, <1>6, <2>1
<1>10. CASE PutAway
  BY <1>4, <1>6, <1>10 DEF PutAway
<1>11. CASE WriteOutbox
  <2>1. /\ doing \in Tasks /\ twin' = twin /\ outbox' = outbox \cup {Document}
        /\ doing' = [doing EXCEPT !.at = IF doing.tool = "execute_close_case" THEN "twin" ELSE "audit"]
    BY <1>11 DEF WriteOutbox, Ledger, BenchTypes
  <2>2. ASSUME doing'.at = "twin"
        PROVE  doing'.tool = "execute_close_case" /\ Listed(doing'.arguments.case_id)
    <3>1. doing.tool = "execute_close_case"
      <4>1. CASE doing.tool # "execute_close_case"
        <5>1. doing'.at = "audit"
          BY <2>1, <4>1 DEF Tasks
        <5>2. QED BY <2>2, <5>1
      <4>2. QED BY <4>1
    <3>2. doing'.tool = doing.tool /\ doing'.arguments = doing.arguments
      BY <2>1, <3>1, TaskFields
    <3>3. Document \in outbox' /\ Document.tool = doing.tool /\ Document.arguments = doing.arguments
      BY <2>1 DEF Document
    <3>4. QED BY <3>1, <3>2, <3>3 DEF Listed
  <2>3. QED BY <1>4, <2>1, <2>2
<1>12. CASE MarkClosed
  <2> DEFINE ref == <<"case", doing.arguments.case_id>>
             mark == [status |-> "closed", disposition |-> doing.arguments.disposition]
  <2>1. /\ twin' = Upserted(twin, ref, mark) /\ doing \in Tasks
        /\ doing' = [doing EXCEPT !.at = "audit"] /\ doing.at = "twin" /\ doing # Nothing
    BY <1>12 DEF MarkClosed, Ledger, BenchTypes
  <2>2. Listed(ref[2])
    BY <1>4a, <2>1
  <2>3. doing'.at = "audit"
    BY <2>1, TaskFields
  <2> HIDE DEF ref, mark
  <2>4. /\ IsTwin(Upserted(twin, ref, mark))
        /\ \A x \in DOMAIN Upserted(twin, ref, mark).nodes :
               Closed(Upserted(twin, ref, mark).nodes[x]) =>
                   (x \in DOMAIN twin.nodes /\ Closed(twin.nodes[x])) \/ x = ref
    BY <1>4, UpsertedNodes
  <2>5. Known(Upserted(twin, ref, mark))
    BY <1>4, <2>2, <2>4 DEF entities_of_type
  <2>6. QED BY <2>1, <2>3, <2>5
<1>13. CASE Record \/ Fail
  BY <1>4, <1>13 DEF Record, Fail
<1>14. CASE NewProcess
  <2>1. twin' = DemoTwin /\ doing' = Nothing
    BY <1>14 DEF NewProcess
  <2>2. Known(DemoTwin)
    BY DEF CasesComeOpen
  <2>3. QED BY <2>1, <2>2
<1>15. CASE \E rule \in AddedRules, prepend \in BOOLEAN : Govern(rule, prepend)
  BY <1>4, <1>6, <1>15 DEF Govern
<1>16. CASE UNCHANGED benchVars
  BY <1>4, <1>6, <1>16 DEF benchVars
<1>17. QED
  BY <1>7, <1>8, <1>9, <1>10, <1>11, <1>12, <1>13, <1>14, <1>15, <1>16 DEF BenchNext

\* common.py, the outbox is the only place execute tools write: whatever fails and
\* whenever a process ends, the trail names documents of the outbox only, what it
\* does not name was left by a failure or a restart, one each, and, as long as
\* cases are closed by the tool alone, a closed case has its line in the ledger.
THEOREM TrailIsBacked == CasesComeOpen /\ BenchSpec => []TrailMatchesOutbox
<1>1. BenchInit /\ CasesComeOpen => Ledger
  BY DEF BenchInit, CasesComeOpen, Ledger, BenchTypes
<1>2. OutboxInv /\ Ledger => TrailMatchesOutbox
  <2>1. SUFFICES ASSUME OutboxInv, Ledger PROVE TrailMatchesOutbox
    OBVIOUS
  <2>2. {r.id : r \in trail} \subseteq {d.id : d \in outbox}
    BY <2>1 DEF OutboxInv, OutboxCounts
  <2>3. Cardinality(outbox) <= Cardinality(trail) + faults + (IF doing = Nothing THEN 0 ELSE 1)
    <3>1. /\ Cardinality(outbox) \in Nat /\ Cardinality(trail) \in Nat /\ faults \in Nat
          /\ Cardinality(outbox) <= Cardinality(trail) + faults + (IF Pending THEN 1 ELSE 0)
      BY <2>1, OutboxNumbers DEF OutboxInv, OutboxCounts, BenchTypes
    <3>2. Pending => doing # Nothing
      BY DEF Pending
    <3>3. QED BY <3>1, <3>2
  <2>4. \A ref \in entities_of_type(twin, "case") :
            Closed(twin.nodes[ref]) => InLedger(ref[2])
    BY <2>1 DEF Ledger
  <2>5. QED BY <2>2, <2>3, <2>4 DEF TrailMatchesOutbox, Closed, InLedger
<1>3. CasesComeOpen /\ BenchRules /\ Ledger /\ [BenchNext]_benchVars => Ledger'
  BY LedgerStep
<1>4. CasesComeOpen => []CasesComeOpen
  <2>1. CasesComeOpen => CasesComeOpen'
    BY DEF CasesComeOpen, entities_of_type, Closed, Get, IsTwin
  <2>2. QED BY <2>1, PTL
<1>5. QED BY <1>1, <1>2, <1>3, <1>4, BenchRulesHold, OutboxHolds, PTL DEF BenchSpec

-----------------------------------------------------------------------------
(* Sums over finite sets *)

Choice(S) == CHOOSE x \in S : TRUE

\* g sums f over the subsets of S, as folds do; Part(g, f, C) over those in C.
Part(g, f, C) ==
    g = [s \in C |-> IF s = {} THEN 0 ELSE f[Choice(s)] + g[s \ {Choice(s)}]]

Sums(g, f, S) == Part(g, f, SUBSET S)

SumOf(f, S) == SumFunctionOnSet(f, S)

LEMMA SumIsFold ==
    ASSUME NEW f, NEW S
    PROVE  SumOf(f, S) = (CHOOSE g : Sums(g, f, S))[S]
  BY DEF Sums, SumOf, SumFunctionOnSet, FoldFunctionOnSet, MapThenFoldSet, Part, Choice

LEMMA Chosen ==
    ASSUME NEW S, S # {}
    PROVE  Choice(S) \in S
  BY DEF Choice

\* One element less.
LEMMA OneLess ==
    ASSUME NEW S, IsFiniteSet(S), NEW x \in S
    PROVE  /\ IsFiniteSet(S \ {x}) /\ Cardinality(S) \in Nat \ {0}
           /\ Cardinality(S \ {x}) \in Nat /\ Cardinality(S) = Cardinality(S \ {x}) + 1
<1>1. Cardinality(S) \in Nat /\ S # {}
  BY FS_CardinalityType
<1>2. Cardinality(S) # 0
  BY <1>1, FS_EmptySet
<1>3. IsFiniteSet(S \ {x}) /\ Cardinality(S \ {x}) = Cardinality(S) - 1
  BY FS_RemoveElement
<1>4. Cardinality(S \ {x}) \in Nat
  BY <1>3, FS_CardinalityType
<1>5. QED BY <1>1, <1>2, <1>3, <1>4

Small(S, n) == {s \in SUBSET S : Cardinality(s) <= n}

LEMMA PartsExist ==
    ASSUME NEW f, NEW S, IsFiniteSet(S)
    PROVE  \E g : Sums(g, f, S)
<1> DEFINE Ns == {n \in Nat : \E g : Part(g, f, Small(S, n))}
<1>1. 0 \in Ns
  <2> DEFINE g == [s \in Small(S, 0) |-> 0]
  <2>1. ASSUME NEW s \in Small(S, 0) PROVE s = {}
    <3>1. IsFiniteSet(s) /\ Cardinality(s) \in Nat /\ Cardinality(s) <= 0
      BY FS_Subset, FS_CardinalityType DEF Small
    <3>2. QED BY <3>1, FS_EmptySet
  <2>2. Part(g, f, Small(S, 0))
    BY <2>1 DEF Part
  <2>3. QED BY <2>2
<1>2. ASSUME NEW n \in Ns PROVE n + 1 \in Ns
  <2>1. PICK g : Part(g, f, Small(S, n))
    BY <1>2
  <2> DEFINE h == [s \in Small(S, n + 1) |->
                      IF s = {} THEN 0 ELSE f[Choice(s)] + g[s \ {Choice(s)}]]
  <2>2. ASSUME NEW s \in Small(S, n + 1), s # {}
        PROVE  s \ {Choice(s)} \in Small(S, n)
    <3>1. s \subseteq S /\ IsFiniteSet(s) /\ Choice(s) \in s /\ Cardinality(s) <= n + 1
      BY <2>2, FS_Subset, Chosen DEF Small
    <3>2. Cardinality(s \ {Choice(s)}) \in Nat /\ Cardinality(s) = Cardinality(s \ {Choice(s)}) + 1
      BY <3>1, OneLess
    <3>3. QED BY <3>1, <3>2 DEF Small
  <2>3. ASSUME NEW t \in Small(S, n) PROVE t \in Small(S, n + 1) /\ h[t] = g[t]
    <3>1. t \in SUBSET S /\ Cardinality(t) <= n /\ IsFiniteSet(t)
      BY FS_Subset DEF Small
    <3>2. Cardinality(t) \in Nat /\ n \in Nat
      BY <3>1, FS_CardinalityType
    <3>3. t \in Small(S, n + 1)
      BY <3>1, <3>2 DEF Small
    <3>4. g[t] = IF t = {} THEN 0 ELSE f[Choice(t)] + g[t \ {Choice(t)}]
      BY <2>1 DEF Part
    <3>5. QED BY <3>3, <3>4
  <2>4. \A s \in Small(S, n + 1) :
            h[s] = IF s = {} THEN 0 ELSE f[Choice(s)] + h[s \ {Choice(s)}]
    BY <2>2, <2>3
  <2>5. Part(h, f, Small(S, n + 1))
    <3> HIDE DEF h
    <3>1. h = [s \in Small(S, n + 1) |-> h[s]]
      BY DEF h
    <3>2. QED BY <2>4, <3>1 DEF Part
  <2>6. n + 1 \in Nat
    BY <1>2
  <2>7. QED BY <2>5, <2>6
<1>3. Ns = Nat
  <2> HIDE DEF Ns
  <2>1. Ns \in SUBSET Nat
    BY DEF Ns
  <2>2. QED BY <1>1, <1>2, <2>1, Inductive
<1>4. Cardinality(S) \in Nat
  BY FS_CardinalityType
<1>5. Small(S, Cardinality(S)) = SUBSET S
  <2>1. ASSUME NEW s \in SUBSET S PROVE Cardinality(s) <= Cardinality(S)
    BY FS_Subset
  <2>2. QED BY <2>1 DEF Small
<1>6. PICK g : Part(g, f, Small(S, Cardinality(S)))
  BY <1>3, <1>4
<1>7. QED BY <1>5, <1>6 DEF Sums

\* Two sums of f agree where both are defined.
LEMMA PartsAgree ==
    ASSUME NEW f, NEW S, IsFiniteSet(S), NEW T \in SUBSET S,
           NEW g, Sums(g, f, S), NEW h, Sums(h, f, T)
    PROVE  g[T] = h[T]
<1> DEFINE Ns == {n \in Nat : \A t \in SUBSET T : Cardinality(t) <= n => g[t] = h[t]}
<1>1. ASSUME NEW t \in SUBSET T
      PROVE  IsFiniteSet(t) /\ Cardinality(t) \in Nat
  BY <1>1, FS_Subset, FS_CardinalityType
<1>2. ASSUME NEW t \in SUBSET T
      PROVE  /\ g[t] = IF t = {} THEN 0 ELSE f[Choice(t)] + g[t \ {Choice(t)}]
             /\ h[t] = IF t = {} THEN 0 ELSE f[Choice(t)] + h[t \ {Choice(t)}]
  <2>1. t \in SUBSET S /\ t \subseteq S
    OBVIOUS
  <2>2. QED BY <2>1 DEF Part, Sums
<1>3. 0 \in Ns
  <2>1. ASSUME NEW t \in SUBSET T, Cardinality(t) <= 0 PROVE g[t] = h[t]
    <3>1. Cardinality(t) = 0
      BY <1>1, <2>1
    <3>2. t = {}
      BY <1>1, <3>1, FS_EmptySet
    <3>3. QED BY <1>2, <3>2
  <2>2. QED BY <2>1
<1>4. ASSUME NEW n \in Ns PROVE n + 1 \in Ns
  <2>1. ASSUME NEW t \in SUBSET T, Cardinality(t) <= n + 1, t # {} PROVE g[t] = h[t]
    <3> DEFINE u == t \ {Choice(t)}
    <3>1. Cardinality(u) \in Nat /\ Cardinality(t) = Cardinality(u) + 1 /\ Cardinality(t) \in Nat
      BY <1>1, <2>1, Chosen, OneLess
    <3>2. u \in SUBSET T /\ Cardinality(u) <= n
      BY <2>1, <3>1
    <3>3. g[u] = h[u]
      BY <1>4, <3>2
    <3>4. QED BY <1>2, <2>1, <3>3
  <2>2. ASSUME NEW t \in SUBSET T, t = {} PROVE g[t] = h[t]
    BY <1>2, <2>2
  <2>3. QED BY <2>1, <2>2
<1>5. Ns = Nat
  <2> HIDE DEF Ns
  <2>1. Ns \in SUBSET Nat
    BY DEF Ns
  <2>2. QED BY <1>3, <1>4, <2>1, Inductive
<1>6. Cardinality(T) \in Nat /\ T \in SUBSET T
  BY <1>1
<1>7. QED BY <1>5, <1>6

LEMMA SumOfNone == \A f : SumOf(f, {}) = 0
<1> TAKE f
<1>1. IsFiniteSet({}) /\ {} \in SUBSET {}
  BY FS_EmptySet
<1>2. PICK g : Sums(g, f, {})
  BY <1>1, PartsExist
<1> DEFINE sum == CHOOSE h : Sums(h, f, {})
<1>3. Sums(sum, f, {})
  BY <1>2
<1>4. sum[{}] = 0
  <2> HIDE DEF sum
  <2>1. QED BY <1>1, <1>3 DEF Part, Sums
<1>5. QED BY <1>4, SumIsFold

LEMMA SumChosen ==
    ASSUME NEW f, NEW S, IsFiniteSet(S), S # {}
    PROVE  SumOf(f, S) = f[Choice(S)] + SumOf(f, S \ {Choice(S)})
<1> DEFINE T == S \ {Choice(S)}
           g == CHOOSE h : Sums(h, f, S)
           u == CHOOSE h : Sums(h, f, T)
<1>1. IsFiniteSet(T) /\ T \in SUBSET S
  BY FS_Subset
<1>2. (\E h : Sums(h, f, S)) /\ (\E h : Sums(h, f, T))
  BY <1>1, PartsExist
<1>3. Sums(g, f, S) /\ Sums(u, f, T)
  BY <1>2
<1>4. SumOf(f, S) = g[S] /\ SumOf(f, T) = u[T]
  BY SumIsFold
<1> HIDE DEF g, u
<1>5. g[T] = u[T]
  <2> HIDE DEF T
  <2>1. QED BY <1>1, <1>3, PartsAgree
<1>6. S \in SUBSET S
  OBVIOUS
<1>7. g[S] = f[Choice(S)] + g[T]
  BY <1>3, <1>6 DEF Part, Sums
<1>8. QED BY <1>4, <1>5, <1>7

LEMMA SumIsInteger ==
    ASSUME NEW S, IsFiniteSet(S), NEW f, \A x \in S : f[x] \in Int
    PROVE  SumOf(f, S) \in Int
<1> DEFINE Ns == {n \in Nat : \A T \in SUBSET S : Cardinality(T) = n => SumOf(f, T) \in Int}
<1>1. ASSUME NEW T \in SUBSET S
      PROVE  IsFiniteSet(T) /\ Cardinality(T) \in Nat
  BY FS_Subset, FS_CardinalityType
<1>2. 0 \in Ns
  <2>1. ASSUME NEW T \in SUBSET S, Cardinality(T) = 0 PROVE SumOf(f, T) = 0
    <3>1. T = {}
      BY <1>1, <2>1, FS_EmptySet
    <3>2. QED BY <3>1, SumOfNone
  <2>2. QED BY <2>1
<1>3. ASSUME NEW n \in Ns PROVE n + 1 \in Ns
  <2>1. ASSUME NEW T \in SUBSET S, Cardinality(T) = n + 1 PROVE SumOf(f, T) \in Int
    <3>1. IsFiniteSet(T) /\ T # {}
      BY <1>1, <1>3, <2>1, FS_EmptySet
    <3> DEFINE c == Choice(T)
    <3>2. c \in T /\ SumOf(f, T) = f[c] + SumOf(f, T \ {c})
      BY <3>1, Chosen, SumChosen
    <3>3. Cardinality(T \ {c}) = n /\ T \ {c} \in SUBSET S
      <4>1. /\ n \in Nat /\ Cardinality(T) = n + 1
            /\ Cardinality(T \ {c}) \in Nat /\ Cardinality(T) = Cardinality(T \ {c}) + 1
        BY <1>3, <2>1, <3>1, <3>2, OneLess
      <4>2. QED BY <4>1
    <3>4. SumOf(f, T \ {c}) \in Int /\ f[c] \in Int
      BY <1>3, <3>2, <3>3
    <3>5. QED BY <3>2, <3>4
  <2>2. QED BY <1>3, <2>1
<1>4. Ns = Nat
  <2> HIDE DEF Ns
  <2>1. Ns \in SUBSET Nat
    BY DEF Ns
  <2>2. QED BY <1>2, <1>3, <2>1, Inductive
<1>5. QED BY <1>1, <1>4

\* Any element may be taken out.
LEMMA SumRemove ==
    ASSUME NEW S, IsFiniteSet(S), NEW f, \A x \in S : f[x] \in Int, NEW e \in S
    PROVE  SumOf(f, S) = f[e] + SumOf(f, S \ {e})
<1> DEFINE Ns == {n \in Nat : \A T \in SUBSET S : Cardinality(T) = n =>
                                  \A x \in T : SumOf(f, T) = f[x] + SumOf(f, T \ {x})}
<1>1. ASSUME NEW T \in SUBSET S
      PROVE  IsFiniteSet(T) /\ Cardinality(T) \in Nat /\ SumOf(f, T) \in Int
  BY FS_Subset, FS_CardinalityType, SumIsInteger
<1>2. 0 \in Ns
  <2>1. ASSUME NEW T \in SUBSET S, Cardinality(T) = 0 PROVE T = {}
    BY <1>1, <2>1, FS_EmptySet
  <2>2. QED BY <2>1
<1>3. ASSUME NEW n \in Ns PROVE n + 1 \in Ns
  <2>1. ASSUME NEW T \in SUBSET S, Cardinality(T) = n + 1, NEW x \in T
        PROVE  SumOf(f, T) = f[x] + SumOf(f, T \ {x})
    <3>1. IsFiniteSet(T) /\ T # {}
      BY <1>1
    <3> DEFINE c == Choice(T)
    <3>2. c \in T /\ SumOf(f, T) = f[c] + SumOf(f, T \ {c})
      BY <3>1, Chosen, SumChosen
    <3>3. CASE x = c
      BY <3>2, <3>3
    <3>4. CASE x # c
      <4> HIDE DEF c
      <4>1. /\ Cardinality(T \ {c}) = n /\ T \ {c} \in SUBSET S /\ x \in T \ {c}
            /\ Cardinality(T \ {x}) = n /\ T \ {x} \in SUBSET S /\ c \in T \ {x}
        <5>1. /\ n \in Nat /\ Cardinality(T) = n + 1
              /\ Cardinality(T \ {c}) \in Nat /\ Cardinality(T) = Cardinality(T \ {c}) + 1
              /\ Cardinality(T \ {x}) \in Nat /\ Cardinality(T) = Cardinality(T \ {x}) + 1
          BY <1>3, <2>1, <3>1, <3>2, OneLess
        <5>2. T \ {c} \in SUBSET S /\ x \in T \ {c} /\ T \ {x} \in SUBSET S /\ c \in T \ {x}
          BY <3>2, <3>4
        <5>3. QED BY <5>1, <5>2
      <4>2. /\ SumOf(f, T \ {c}) = f[x] + SumOf(f, (T \ {c}) \ {x})
            /\ SumOf(f, T \ {x}) = f[c] + SumOf(f, (T \ {x}) \ {c})
        BY <1>3, <4>1
      <4>3. (T \ {c}) \ {x} = (T \ {x}) \ {c} /\ (T \ {x}) \ {c} \in SUBSET S
        OBVIOUS
      <4>4. SumOf(f, (T \ {x}) \ {c}) \in Int /\ f[x] \in Int /\ f[c] \in Int
        <5>1. x \in S /\ c \in S
          BY <3>2
        <5>2. SumOf(f, (T \ {x}) \ {c}) \in Int
          BY <1>1, <4>3
        <5>3. QED BY <5>1, <5>2
      <4>5. SumOf(f, (T \ {c}) \ {x}) = SumOf(f, (T \ {x}) \ {c})
        BY <4>3
      <4>6. QED BY <3>2, <4>2, <4>4, <4>5
    <3>5. QED BY <3>3, <3>4
  <2>2. n + 1 \in Nat
    BY <1>3
  <2>3. QED BY <2>1, <2>2
<1>4. Ns = Nat
  <2> HIDE DEF Ns
  <2>1. Ns \in SUBSET Nat
    BY DEF Ns
  <2>2. QED BY <1>2, <1>3, <2>1, Inductive
<1>5. S \in SUBSET S /\ Cardinality(S) \in Nat
  BY FS_CardinalityType
<1>6. QED BY <1>4, <1>5

-----------------------------------------------------------------------------
(* Sorted lists *)

\* `ahead` tells all elements of S apart.
Orders(ahead, S) ==
    \A x, y, z \in S :
        /\ <<x, x>> \notin ahead
        /\ x # y => <<x, y>> \in ahead \/ <<y, x>> \in ahead
        /\ <<x, y>> \in ahead /\ <<y, z>> \in ahead => <<x, z>> \in ahead

\* How many elements of S are ahead of x.
Rank(S, ahead, x) == Cardinality({y \in S : <<y, x>> \in ahead})

LEMMA RanksDiffer ==
    ASSUME NEW S, IsFiniteSet(S), NEW ahead, Orders(ahead, S)
    PROVE  /\ \A x \in S : Rank(S, ahead, x) \in 0..(Cardinality(S) - 1)
           /\ \A x, y \in S : <<x, y>> \in ahead => Rank(S, ahead, x) < Rank(S, ahead, y)
           /\ \A x, y \in S : Rank(S, ahead, x) = Rank(S, ahead, y) => x = y
<1> DEFINE Leading(x) == {y \in S : <<y, x>> \in ahead}
<1>1. ASSUME NEW x \in S
      PROVE  /\ Leading(x) \in SUBSET S /\ Leading(x) # S
             /\ IsFiniteSet(Leading(x)) /\ Cardinality(Leading(x)) \in Nat
             /\ Rank(S, ahead, x) = Cardinality(Leading(x))
  <2>1. Leading(x) \in SUBSET S /\ Leading(x) # S
    BY DEF Orders
  <2>2. IsFiniteSet(Leading(x))
    BY <2>1, FS_Subset
  <2>3. QED BY <2>1, <2>2, FS_CardinalityType DEF Rank
<1> HIDE DEF Leading
<1>2. ASSUME NEW x \in S PROVE Rank(S, ahead, x) \in 0..(Cardinality(S) - 1)
  <2>1. Cardinality(S) \in Nat /\ Cardinality(Leading(x)) <= Cardinality(S)
        /\ Cardinality(S) # Cardinality(Leading(x))
    BY <1>1, FS_Subset, FS_CardinalityType
  <2>2. QED BY <1>1, <2>1
<1>3. ASSUME NEW x \in S, NEW y \in S, <<x, y>> \in ahead
      PROVE  Rank(S, ahead, x) < Rank(S, ahead, y)
  <2>1. Leading(x) \in SUBSET Leading(y) /\ x \in Leading(y) /\ x \notin Leading(x)
    BY <1>3 DEF Leading, Orders
  <2>2. /\ Cardinality(Leading(x)) <= Cardinality(Leading(y))
        /\ Cardinality(Leading(y)) # Cardinality(Leading(x))
    BY <1>1, <2>1, FS_Subset
  <2>3. QED BY <1>1, <2>2
<1>4. ASSUME NEW x \in S, NEW y \in S, Rank(S, ahead, x) = Rank(S, ahead, y)
      PROVE  x = y
  <2>1. <<x, y>> \notin ahead /\ <<y, x>> \notin ahead
    BY <1>2, <1>3, <1>4
  <2>2. QED BY <2>1 DEF Orders
<1>5. QED BY <1>2, <1>3, <1>4

\* A sorted list has each element once, and is sorted.
LEMMA RankedIsSorted ==
    ASSUME NEW S, IsFiniteSet(S), NEW ahead, Orders(ahead, S)
    PROVE  LET q == Ranked(S, ahead) IN
           /\ q \in Seq(S) /\ Len(q) = Cardinality(S) /\ Len(q) \in Nat
           /\ \A x \in S : \E i \in 1..Len(q) : q[i] = x
           /\ \A i, j \in 1..Len(q) : i < j => <<q[i], q[j]>> \in ahead
<1> DEFINE n == Cardinality(S)
           q == Ranked(S, ahead)
           f == [x \in S |-> Rank(S, ahead, x) + 1]
<1>1. n \in Nat
  BY FS_CardinalityType
<1>2. f \in Injection(S, 1..n)
  <2>1. ASSUME NEW x \in S PROVE f[x] \in 1..n /\ Rank(S, ahead, x) \in Nat
    <3>1. Rank(S, ahead, x) \in 0..(n - 1)
      BY RanksDiffer
    <3>2. QED BY <1>1, <3>1
  <2>2. ASSUME NEW x \in S, NEW y \in S, f[x] = f[y] PROVE x = y
    <3>1. Rank(S, ahead, x) = Rank(S, ahead, y)
      BY <2>1, <2>2
    <3>2. QED BY <3>1, RanksDiffer
  <2> HIDE DEF n
  <2>3. f \in [S -> 1..n]
    BY <2>1
  <2> HIDE DEF f
  <2>4. QED BY <2>2, <2>3 DEF Injection, IsInjective
<1>3. IsFiniteSet(1..n) /\ Cardinality(1..n) = n
  <2>1. IsFiniteSet(1..n) /\ Cardinality(1..n) = IF 1 > n THEN 0 ELSE n - 1 + 1
    BY <1>1, FS_Interval
  <2>2. QED BY <1>1, <2>1
<1>4. f \in Surjection(S, 1..n)
  BY <1>2, <1>3, FS_Injection
<1>5. ASSUME NEW i \in 1..n
      PROVE  q[i] \in S /\ Rank(S, ahead, q[i]) = i - 1
  <2>1. PICK x \in S : f[x] = i
    BY <1>4, <1>5 DEF Surjection
  <2>2. Rank(S, ahead, x) \in 0..(n - 1)
    BY RanksDiffer
  <2>3. Rank(S, ahead, x) = i - 1
    BY <1>1, <2>1, <2>2
  <2>4. q[i] = CHOOSE y \in S : Rank(S, ahead, y) = i - 1
    BY <1>5 DEF Ranked, Rank
  <2>5. QED BY <2>3, <2>4
<1>6. q \in Seq(S) /\ Len(q) = n
  <2> DEFINE r == [i \in 1..n |-> q[i]]
             Placed(i) == CHOOSE x \in S : Rank(S, ahead, x) = i - 1
  <2>0. q = [i \in 1..n |-> Placed(i)]
    BY DEF Ranked, Rank
  <2>1. q = r
    <3> HIDE DEF Placed, q, n
    <3>1. QED BY <2>0
  <2>2. r \in [1..n -> S]
    <3> HIDE DEF q, n
    <3>1. QED BY <1>5
  <2> HIDE DEF q, n, r
  <2>3. QED BY <1>1, <2>1, <2>2
<1> HIDE DEF q, f
<1>7. ASSUME NEW x \in S PROVE \E i \in 1..n : q[i] = x
  <2>1. Rank(S, ahead, x) \in 0..(n - 1)
    BY RanksDiffer
  <2> DEFINE i == Rank(S, ahead, x) + 1
  <2>2. i \in 1..n /\ i - 1 = Rank(S, ahead, x)
    BY <1>1, <2>1
  <2> HIDE DEF i
  <2>3. q[i] \in S /\ Rank(S, ahead, q[i]) = Rank(S, ahead, x)
    BY <1>5, <2>2
  <2>4. q[i] = x
    BY <2>3, RanksDiffer
  <2>5. QED BY <2>2, <2>4
<1>8. ASSUME NEW i \in 1..n, NEW j \in 1..n, i < j
      PROVE  <<q[i], q[j]>> \in ahead
  <2>1. /\ q[i] \in S /\ Rank(S, ahead, q[i]) = i - 1
        /\ q[j] \in S /\ Rank(S, ahead, q[j]) = j - 1
    BY <1>5
  <2>2. q[i] # q[j]
    BY <1>1, <1>8, <2>1
  <2>3. <<q[j], q[i]>> \notin ahead
    <3>1. ASSUME <<q[j], q[i]>> \in ahead PROVE FALSE
      <4>1. Rank(S, ahead, q[j]) < Rank(S, ahead, q[i])
        BY <2>1, <3>1, RanksDiffer
      <4>2. QED BY <1>1, <1>8, <2>1, <4>1
    <3>2. QED BY <3>1
  <2>4. QED BY <2>1, <2>2, <2>3 DEF Orders
<1>9. QED BY <1>1, <1>6, <1>7, <1>8 DEF q

LEMMA SumAgrees ==
    ASSUME NEW S, IsFiniteSet(S), NEW f, NEW g, \A x \in S : f[x] = g[x]
    PROVE  SumOf(f, S) = SumOf(g, S)
<1> DEFINE u == CHOOSE h : Sums(h, f, S)
           v == CHOOSE h : Sums(h, g, S)
<1>1. Sums(u, f, S) /\ Sums(v, g, S)
  <2>1. (\E h : Sums(h, f, S)) /\ (\E h : Sums(h, g, S))
    BY PartsExist
  <2>2. QED BY <2>1
<1>2. SumOf(f, S) = u[S] /\ SumOf(g, S) = v[S]
  BY SumIsFold
<1> HIDE DEF u, v
<1>3. Sums(v, f, S)
  <2>1. \A s \in SUBSET S : s # {} => f[Choice(s)] = g[Choice(s)]
    BY Chosen
  <2>2. v = [s \in SUBSET S |-> v[s]]
    BY <1>1 DEF Sums, Part
  <2>3. \A s \in SUBSET S : v[s] = IF s = {} THEN 0 ELSE f[Choice(s)] + v[s \ {Choice(s)}]
    BY <1>1, <2>1 DEF Sums, Part
  <2>4. QED BY <2>2, <2>3 DEF Sums, Part
<1>4. u[S] = v[S]
  BY <1>1, <1>3, PartsAgree
<1>5. QED BY <1>2, <1>4

\* A new entry adds its value.
LEMMA SumGrows ==
    ASSUME NEW f, IsFiniteSet(DOMAIN f), \A x \in DOMAIN f : f[x] \in Int,
           NEW s, s \notin DOMAIN f, NEW v \in Int
    PROVE  SumFunction(Updated(f, [x \in {s} |-> v])) = SumFunction(f) + v
<1> DEFINE g == Updated(f, [x \in {s} |-> v])
           D == DOMAIN f
<1>1. /\ DOMAIN g = D \cup {s} /\ g[s] = v
      /\ \A x \in D : g[x] = f[x]
  BY DEF Updated
<1> HIDE DEF g
<1>2. IsFiniteSet(D \cup {s}) /\ (\A x \in D \cup {s} : g[x] \in Int)
  BY <1>1, FS_AddElement
<1> HIDE DEF D
<1>3. SumOf(g, D \cup {s}) = g[s] + SumOf(g, (D \cup {s}) \ {s})
  BY <1>2, SumRemove
<1>4. (D \cup {s}) \ {s} = D
  BY DEF D
<1>5. SumOf(g, D) = SumOf(f, D)
  BY <1>1, SumAgrees DEF D
<1>6. SumOf(f, D) \in Int
  BY SumIsInteger DEF D
<1>7. SumFunction(g) = SumOf(g, DOMAIN g) /\ SumFunction(f) = SumOf(f, DOMAIN f)
  BY DEF SumFunction, SumOf
<1>8. SumFunction(g) = v + SumOf(f, D) /\ SumFunction(f) = SumOf(f, D)
  BY <1>1, <1>3, <1>4, <1>5, <1>7 DEF D
<1>9. QED BY <1>6, <1>8 DEF g

-----------------------------------------------------------------------------
(* Raising an amount from a list of sources *)

LEMMA MinOfTwo ==
    ASSUME NEW a \in Int, NEW b \in Int
    PROVE  Min({a, b}) = IF a <= b THEN a ELSE b
  BY DEF Min

\* A source lends what is left, up to its capacity.
Lend(state, s) ==
    LET take == Min({state.remaining, s.capacity}) IN
    [remaining |-> state.remaining - take, tranches |-> Updated(state.tranches, [x \in {s} |-> take])]

\* done is what raise_from has after each of the first n sources.
Lends(done, n, target, order) ==
    done = [i \in 0..n |-> IF i = 0 THEN [remaining |-> target, tranches |-> <<>>]
                           ELSE Lend(done[i - 1], order[i])]

LEMMA LendingExists ==
    ASSUME NEW target, NEW order
    PROVE  \A n \in Nat : \E done : Lends(done, n, target, order)
<1> DEFINE Ns == {n \in Nat : \E done : Lends(done, n, target, order)}
           start == [remaining |-> target, tranches |-> <<>>]
<1>1. 0 \in Ns
  <2>1. Lends([i \in 0..0 |-> start], 0, target, order)
    BY DEF Lends
  <2>2. QED BY <2>1
<1>2. ASSUME NEW n \in Ns PROVE n + 1 \in Ns
  <2>1. PICK done : Lends(done, n, target, order)
    BY <1>2
  <2> DEFINE longer == [i \in 0..(n + 1) |-> IF i = n + 1 THEN Lend(done[n], order[n + 1]) ELSE done[i]]
  <2>2. ASSUME NEW i \in 0..(n + 1)
        PROVE  longer[i] = IF i = 0 THEN start ELSE Lend(longer[i - 1], order[i])
    <3>1. CASE i = n + 1
      <4>1. n \in 0..(n + 1) /\ n # n + 1 /\ i # 0 /\ i - 1 = n
        BY <3>1
      <4>2. QED BY <3>1, <4>1
    <3>2. CASE i # n + 1
      <4>1. i \in 0..n /\ longer[i] = done[i]
        BY <3>2
      <4>2. i # 0 => longer[i - 1] = done[i - 1]
        BY <3>2
      <4>3. done[i] = IF i = 0 THEN start ELSE Lend(done[i - 1], order[i])
        BY <2>1, <4>1 DEF Lends
      <4>4. QED BY <4>1, <4>2, <4>3
    <3>3. QED BY <3>1, <3>2
  <2>3. Lends(longer, n + 1, target, order)
    BY <2>2 DEF Lends
  <2>4. QED BY <2>3
<1>3. Ns = Nat
  BY <1>1, <1>2, Inductive
<1>4. QED BY <1>3

LEMMA RaisingLends ==
    ASSUME NEW target, NEW order, Len(order) \in Nat
    PROVE  \E done : /\ Lends(done, Len(order), target, order)
                     /\ raise_from(target, order) = done[Len(order)]
<1> DEFINE done == CHOOSE d : Lends(d, Len(order), target, order)
<1>1. Lends(done, Len(order), target, order)
  BY LendingExists
<1>2. raise_from(target, order) = done[Len(order)]
  BY DEF raise_from, Lends, Lend
<1>3. QED BY <1>1, <1>2

\* What holds after the first n sources.
RaisedSoFar(state, n, target, order) ==
    LET t == state.tranches IN
    /\ state.remaining \in Nat
    /\ DOMAIN t = {order[j] : j \in 1..n} /\ IsFiniteSet(DOMAIN t)
    /\ \A j \in 1..n : t[order[j]] \in 0..order[j].capacity
    /\ \A j, k \in 1..n : j < k /\ t[order[k]] > 0 => t[order[j]] = order[j].capacity
    /\ state.remaining > 0 => \A j \in 1..n : t[order[j]] = order[j].capacity
    /\ SumFunction(t) + state.remaining = target

LEMMA OneMoreLends ==
    ASSUME NEW order, NEW n \in Nat, n + 1 \in 1..Len(order), Len(order) \in Nat, NEW target \in Int,
           \A i \in 1..Len(order) : order[i].capacity \in Nat,
           \A i, j \in 1..Len(order) : i # j => order[i] # order[j],
           NEW state, RaisedSoFar(state, n, target, order)
    PROVE  RaisedSoFar(Lend(state, order[n + 1]), n + 1, target, order)
<1> DEFINE s == order[n + 1]
           t == state.tranches
           left == state.remaining
           take == Min({left, s.capacity})
           u == Updated(t, [x \in {s} |-> take])
<1>1. Lend(state, s) = [remaining |-> left - take, tranches |-> u]
  BY DEF Lend
<1>2. /\ left \in Nat /\ s.capacity \in Nat
      /\ DOMAIN t = {order[j] : j \in 1..n} /\ IsFiniteSet(DOMAIN t)
      /\ \A j \in 1..n : t[order[j]] \in 0..order[j].capacity
      /\ \A j, k \in 1..n : j < k /\ t[order[k]] > 0 => t[order[j]] = order[j].capacity
      /\ left > 0 => \A j \in 1..n : t[order[j]] = order[j].capacity
      /\ SumFunction(t) + left = target
  BY DEF RaisedSoFar
<1>3. /\ take \in 0..s.capacity /\ left - take \in Nat
      /\ take > 0 => left > 0
      /\ left - take > 0 => left > 0 /\ take = s.capacity
  <2> HIDE DEF s, left
  <2>1. left \in Int /\ s.capacity \in Int
    BY <1>2
  <2>2. take = IF left <= s.capacity THEN left ELSE s.capacity
    BY <2>1, MinOfTwo
  <2>3. QED BY <1>2, <2>2
<1> HIDE DEF take
<1>4. \A j \in 1..n : j \in 1..Len(order) /\ order[j] # s /\ order[j].capacity \in Nat
  OBVIOUS
<1>5. DOMAIN u = DOMAIN t \cup {s} /\ u[s] = take /\ \A x \in DOMAIN t : x # s => u[x] = t[x]
  BY DEF Updated
<1>6. s \notin DOMAIN t
  BY <1>2, <1>4
<1>7. \A j \in 1..n : order[j] \in DOMAIN t /\ u[order[j]] = t[order[j]]
  BY <1>2, <1>4, <1>5
<1>8. SumFunction(u) + (left - take) = target
  <2>1. \A x \in DOMAIN t : t[x] \in Int
    BY <1>2, <1>4
  <2>2. SumFunction(u) = SumFunction(t) + take
    <3> HIDE DEF s, t
    <3>1. take \in Int
      BY <1>2, <1>3
    <3>2. QED BY <1>2, <1>6, <2>1, <3>1, SumGrows
  <2>3. SumFunction(t) \in Int
    <3>1. SumFunction(t) = SumOf(t, DOMAIN t)
      BY DEF SumFunction, SumOf
    <3>2. QED BY <1>2, <2>1, <3>1, SumIsInteger
  <2>4. QED BY <1>2, <1>3, <2>2, <2>3
<1> HIDE DEF u, t, left
<1>9. \A j \in 1..(n + 1) : j \in 1..n \/ (j = n + 1 /\ order[j] = s)
  OBVIOUS
<1>10. DOMAIN u = {order[j] : j \in 1..(n + 1)} /\ IsFiniteSet(DOMAIN u)
  <2>1. DOMAIN t \cup {s} = {order[j] : j \in 1..(n + 1)}
    BY <1>2, <1>9
  <2>2. IsFiniteSet(DOMAIN t \cup {s})
    BY <1>2, FS_AddElement
  <2>3. QED BY <1>5, <2>1, <2>2
<1>11. \A j \in 1..(n + 1) : u[order[j]] \in 0..order[j].capacity
  BY <1>2, <1>3, <1>5, <1>7, <1>9
<1>12. ASSUME NEW j \in 1..(n + 1), NEW k \in 1..(n + 1), j < k, u[order[k]] > 0
       PROVE  u[order[j]] = order[j].capacity
  <2>1. j \in 1..n
    BY <1>12
  <2>2. CASE k \in 1..n
    BY <1>2, <1>7, <1>12, <2>1, <2>2
  <2>3. CASE k = n + 1
    <3>1. left > 0
      BY <1>3, <1>5, <1>12, <2>3
    <3>2. QED BY <1>2, <1>7, <2>1, <3>1
  <2>4. QED BY <1>9, <2>2, <2>3
<1>13. ASSUME left - take > 0, NEW j \in 1..(n + 1) PROVE u[order[j]] = order[j].capacity
  BY <1>2, <1>3, <1>5, <1>7, <1>9, <1>13
<1> HIDE DEF s
<1>14. /\ Lend(state, s).remaining = left - take
       /\ Lend(state, s).tranches = u
  BY <1>1
<1>15. RaisedSoFar(Lend(state, s), n + 1, target, order)
  BY <1>3, <1>8, <1>10, <1>11, <1>12, <1>13, <1>14 DEF RaisedSoFar
<1>16. QED BY <1>15 DEF s

LEMMA AllHaveLent ==
    ASSUME NEW target \in Nat, NEW order, Len(order) \in Nat,
           \A i \in 1..Len(order) : order[i].capacity \in Nat,
           \A i, j \in 1..Len(order) : i # j => order[i] # order[j]
    PROVE  RaisedSoFar(raise_from(target, order), Len(order), target, order)
<1>1. PICK done : /\ Lends(done, Len(order), target, order)
                  /\ raise_from(target, order) = done[Len(order)]
  BY RaisingLends
<1> DEFINE Ns == {n \in Nat : n <= Len(order) => RaisedSoFar(done[n], n, target, order)}
<1>2. 0 \in Ns
  <2>1. done[0] = [remaining |-> target, tranches |-> <<>>]
    BY <1>1 DEF Lends
  <2>2. DOMAIN <<>> = {} /\ IsFiniteSet({})
    BY FS_EmptySet
  <2>3. SumFunction(<<>>) = 0
    BY <2>2, SumOfNone DEF SumFunction, SumOf
  <2>4. {order[j] : j \in 1..0} = {} /\ 1..0 = {}
    OBVIOUS
  <2>5. done[0].remaining = target /\ done[0].tranches = <<>>
    BY <2>1
  <2>6. RaisedSoFar(done[0], 0, target, order)
    BY <2>2, <2>3, <2>4, <2>5 DEF RaisedSoFar
  <2>7. QED BY <2>6
<1>3. ASSUME NEW n \in Ns PROVE n + 1 \in Ns
  <2>1. SUFFICES ASSUME n + 1 <= Len(order)
                 PROVE  RaisedSoFar(done[n + 1], n + 1, target, order)
    BY <1>3
  <2>2. n \in Nat /\ n + 1 \in 1..Len(order) /\ n + 1 \in 0..Len(order) /\ n + 1 # 0 /\ n + 1 - 1 = n
    BY <1>3, <2>1
  <2>3. done[n + 1] = Lend(done[n], order[n + 1])
    BY <1>1, <2>2 DEF Lends
  <2>4. RaisedSoFar(done[n], n, target, order)
    BY <1>3, <2>1, <2>2
  <2>5. target \in Int
    OBVIOUS
  <2>6. QED BY <2>2, <2>3, <2>4, <2>5, OneMoreLends
<1>4. Ns = Nat
  <2> HIDE DEF Ns
  <2>1. Ns \in SUBSET Nat
    BY DEF Ns
  <2>2. QED BY <1>2, <1>3, <2>1, Inductive
<1>5. RaisedSoFar(done[Len(order)], Len(order), target, order)
  BY <1>4
<1>6. QED BY <1>1, <1>5

-----------------------------------------------------------------------------
(* Funding plans *)

LEMMA SourcesTold ==
    /\ IsFiniteSet(FUNDING_SOURCES)
    /\ \A s \in FUNDING_SOURCES : s.capacity \in Nat /\ s.cost_bps \in Nat
    /\ \A r, s \in FUNDING_SOURCES : r # s => r.cost_bps # s.cost_bps
<1>1. IsFiniteSet(FUNDING_SOURCES)
  <2>1. \A a, b, c, d : IsFiniteSet({a, b, c, d})
    <3> TAKE a, b, c, d
    <3>1. IsFiniteSet({a}) /\ {a} \cup {b} = {a, b} /\ {a, b} \cup {c} = {a, b, c}
          /\ {a, b, c} \cup {d} = {a, b, c, d}
      BY FS_Singleton
    <3>2. IsFiniteSet({a, b})
      BY <3>1, FS_AddElement
    <3>3. IsFiniteSet({a, b, c})
      BY <3>1, <3>2, FS_AddElement
    <3>4. QED BY <3>1, <3>3, FS_AddElement
  <2>2. QED BY <2>1 DEF FUNDING_SOURCES
<1>2. QED BY <1>1 DEF FUNDING_SOURCES

\* The sources lend in the order of their costs, and what they lend adds up.
LEMMA PlanOfSources ==
    ASSUME NEW target \in Nat, NEW horizon
    PROVE  LET plan == fund(target, horizon)
               t == plan.tranches
           IN  /\ plan.remaining \in Nat /\ DOMAIN t = Eligible(horizon)
               /\ \A s \in Eligible(horizon) : t[s] \in 0..s.capacity
               /\ \A r, s \in Eligible(horizon) : r.cost_bps < s.cost_bps /\ t[s] > 0 => t[r] = r.capacity
               /\ plan.remaining > 0 => \A s \in Eligible(horizon) : t[s] = s.capacity
               /\ SumFunction(t) + plan.remaining = target
<1> DEFINE S == Eligible(horizon)
           ahead == Ahead(S, "cost_bps")
           q == Ranked(S, ahead)
           plan == raise_from(target, q)
           t == plan.tranches
<1>1. /\ S \subseteq FUNDING_SOURCES /\ IsFiniteSet(S)
      /\ \A s \in S : s.capacity \in Nat /\ s.cost_bps \in Nat
      /\ \A r, s \in S : r # s => r.cost_bps # s.cost_bps
  <2>1. S \subseteq FUNDING_SOURCES
    BY DEF Eligible
  <2>2. QED BY <2>1, SourcesTold, FS_Subset
<1> HIDE DEF S
<1>2. \A r, s \in S : <<r, s>> \in ahead <=> r.cost_bps < s.cost_bps
  <2>1. \A r, s \in S : <<r, s>> \in ahead <=> r["cost_bps"] < s["cost_bps"]
    BY DEF Ahead
  <2>2. QED BY <2>1
<1> HIDE DEF ahead
<1>3. Orders(ahead, S)
  <2>1. ASSUME NEW x \in S, NEW y \in S, NEW z \in S
        PROVE  /\ <<x, x>> \notin ahead
               /\ x # y => <<x, y>> \in ahead \/ <<y, x>> \in ahead
               /\ <<x, y>> \in ahead /\ <<y, z>> \in ahead => <<x, z>> \in ahead
    <3>1. x.cost_bps \in Nat /\ y.cost_bps \in Nat /\ z.cost_bps \in Nat
          /\ (x # y => x.cost_bps # y.cost_bps)
      BY <1>1
    <3>2. /\ <<x, x>> \in ahead <=> x.cost_bps < x.cost_bps
          /\ <<x, y>> \in ahead <=> x.cost_bps < y.cost_bps
          /\ <<y, x>> \in ahead <=> y.cost_bps < x.cost_bps
          /\ <<y, z>> \in ahead <=> y.cost_bps < z.cost_bps
          /\ <<x, z>> \in ahead <=> x.cost_bps < z.cost_bps
      BY <1>2
    <3>3. QED BY <3>1, <3>2
  <2>2. QED BY <2>1 DEF Orders
<1>4. /\ q \in Seq(S) /\ Len(q) \in Nat
      /\ \A x \in S : \E i \in 1..Len(q) : q[i] = x
      /\ \A i, j \in 1..Len(q) : i < j => <<q[i], q[j]>> \in ahead
  BY <1>1, <1>3, RankedIsSorted
<1> HIDE DEF q
<1>5. \A i \in 1..Len(q) : q[i] \in S
  BY <1>4
<1>6. \A i, j \in 1..Len(q) : i < j => q[i].cost_bps < q[j].cost_bps
  BY <1>2, <1>4, <1>5
<1>7. \A i, j \in 1..Len(q) : i # j => q[i] # q[j]
  <2>1. \A i, j \in 1..Len(q) : i < j => q[i] # q[j]
    BY <1>1, <1>5, <1>6
  <2>2. \A i, j \in 1..Len(q) : i # j => i < j \/ j < i
    BY <1>4
  <2>3. QED BY <2>1, <2>2
<1>8. RaisedSoFar(plan, Len(q), target, q)
  <2>1. \A i \in 1..Len(q) : q[i].capacity \in Nat
    BY <1>1, <1>5
  <2>2. QED BY <1>4, <1>7, <2>1, AllHaveLent
<1> HIDE DEF plan
<1>9. /\ plan.remaining \in Nat /\ DOMAIN t = {q[j] : j \in 1..Len(q)}
      /\ \A j \in 1..Len(q) : t[q[j]] \in 0..q[j].capacity
      /\ \A j, k \in 1..Len(q) : j < k /\ t[q[k]] > 0 => t[q[j]] = q[j].capacity
      /\ plan.remaining > 0 => \A j \in 1..Len(q) : t[q[j]] = q[j].capacity
      /\ SumFunction(t) + plan.remaining = target
  BY <1>8 DEF RaisedSoFar
<1> HIDE DEF t
<1>10. DOMAIN t = S
  BY <1>4, <1>5, <1>9
<1>11. \A s \in S : t[s] \in 0..s.capacity
  BY <1>4, <1>9
<1>12. ASSUME NEW r \in S, NEW s \in S, r.cost_bps < s.cost_bps, t[s] > 0
       PROVE  t[r] = r.capacity
  <2>1. PICK j \in 1..Len(q) : q[j] = r
    BY <1>4
  <2>2. PICK k \in 1..Len(q) : q[k] = s
    BY <1>4
  <2>3. ~(s.cost_bps < r.cost_bps) /\ r # s
    BY <1>1, <1>12
  <2>4. j < k
    <3>1. ~(k < j)
      BY <1>6, <2>1, <2>2, <2>3
    <3>2. j # k
      BY <2>1, <2>2, <2>3
    <3>3. QED BY <1>4, <3>1, <3>2
  <2>5. QED BY <1>9, <1>12, <2>1, <2>2, <2>4
<1>13. plan.remaining > 0 => \A s \in S : t[s] = s.capacity
  BY <1>4, <1>9
<1>14. fund(target, horizon) = plan
  BY DEF fund, plan, q, S, ahead
<1>15. QED BY <1>9, <1>10, <1>11, <1>12, <1>13, <1>14 DEF t, S

\* What a ladder moves and starts from is a number; so is a market value.
Numeric(attributes) ==
    /\ Get(attributes, "opening", 0) \in Int
    /\ \A day \in DOMAIN Get(attributes, "flows", <<>>) : Get(attributes, "flows", <<>>)[day] \in Int
    /\ Get(attributes, "market_value", 0) \in Int

LEMMA LeastValue ==
    ASSUME NEW f, NEW n \in Nat, \A i \in 0..n : f[i] \in Int
    PROVE  \E i \in 0..n : \A j \in 0..n : f[i] <= f[j]
<1> DEFINE Ns == {m \in Nat : m <= n => \E i \in 0..m : \A j \in 0..m : f[i] <= f[j]}
<1>1. 0 \in Ns
  OBVIOUS
<1>2. ASSUME NEW m \in Ns PROVE m + 1 \in Ns
  <2>1. SUFFICES ASSUME m + 1 <= n PROVE \E i \in 0..(m + 1) : \A j \in 0..(m + 1) : f[i] <= f[j]
    BY <1>2
  <2>2. m \in Nat /\ m <= n
    BY <1>2, <2>1
  <2>3. PICK i \in 0..m : \A j \in 0..m : f[i] <= f[j]
    BY <1>2, <2>2
  <2>4. /\ \A j \in 0..(m + 1) : (j \in 0..m \/ j = m + 1) /\ f[j] \in Int
        /\ i \in 0..(m + 1) /\ m + 1 \in 0..(m + 1)
    BY <2>1, <2>2
  <2>5. CASE f[i] <= f[m + 1]
    BY <2>3, <2>4, <2>5
  <2>6. CASE ~(f[i] <= f[m + 1])
    <3>1. \A j \in 0..(m + 1) : f[m + 1] <= f[j]
      BY <2>3, <2>4, <2>6
    <3>2. QED BY <2>4, <3>1
  <2>7. QED BY <2>5, <2>6
<1>3. Ns = Nat
  <2> HIDE DEF Ns
  <2>1. Ns \in SUBSET Nat
    BY DEF Ns
  <2>2. QED BY <1>1, <1>2, <2>1, Inductive
<1>4. QED BY <1>3

\* No projected balance is below the trough.
LEMMA TroughIsLeast ==
    ASSUME NEW ladder, Numeric(ladder), NEW horizon \in Nat
    PROVE  LET trough == Min(Range(Balances(ladder, horizon))) IN
           /\ trough \in Int
           /\ \A day \in 0..horizon : Balances(ladder, horizon)[day] \in Int
                                      /\ trough <= Balances(ladder, horizon)[day]
<1> DEFINE flow(day) == Get(Get(ladder, "flows", <<>>), day, 0)
           moved(day) == [d \in 1..day |-> flow(d)]
           b == Balances(ladder, horizon)
<1>1. \A day : flow(day) \in Int
  BY DEF Numeric, Get
<1>2. /\ DOMAIN b = 0..horizon
      /\ \A day \in 0..horizon : b[day] = Get(ladder, "opening", 0) + SumFunction(moved(day))
  BY DEF Balances
<1> HIDE DEF b, flow
<1>3. ASSUME NEW day \in 0..horizon PROVE b[day] \in Int
  <2>1. IsFiniteSet(1..day) /\ DOMAIN moved(day) = 1..day /\ (\A d \in 1..day : moved(day)[d] \in Int)
    BY <1>1, FS_Interval
  <2> HIDE DEF moved
  <2>2. SumOf(moved(day), 1..day) \in Int
    BY <2>1, SumIsInteger
  <2>3. SumFunction(moved(day)) = SumOf(moved(day), 1..day)
    BY <2>1 DEF SumFunction, SumOf
  <2>4. Get(ladder, "opening", 0) \in Int
    BY DEF Numeric
  <2>5. QED BY <1>2, <2>2, <2>3, <2>4
<1>4. PICK i \in 0..horizon : \A j \in 0..horizon : b[i] <= b[j]
  BY <1>3, LeastValue
<1>5. Range(b) = {b[day] : day \in 0..horizon}
  BY <1>2 DEF Range
<1>6. b[i] \in Range(b) /\ \A x \in Range(b) : b[i] <= x
  BY <1>4, <1>5
<1>7. Min(Range(b)) \in Range(b) /\ \A x \in Range(b) : Min(Range(b)) <= x
  BY <1>6 DEF Min
<1>8. QED BY <1>3, <1>5, <1>7 DEF b

-----------------------------------------------------------------------------
(* A twin of numbers *)

Refs == STRING \X STRING

\* The graph is finite, and what the desks add up is made of numbers.
Measured(t) ==
    /\ IsTwin(t)
    /\ IsFiniteSet(DOMAIN t.nodes) /\ DOMAIN t.nodes \subseteq Refs
    /\ \A x \in DOMAIN t.nodes : Numeric(t.nodes[x])
    /\ \A key \in DOMAIN t.series : t.series[key] \in Seq(Int)

\* What is written is measured, and the arguments are those the schemas let pass:
\* a ratio of at most one to hedge, in percent, and a buffer that is not negative.
AmountsAreNumbers ==
    /\ Measured(DemoTwin)
    /\ \A w \in Upserts : w[1] \in Refs /\ Numeric(w[2])
    /\ \A e \in Events :
           /\ e.kind = "market" => e.value \in Int
           /\ e.kind # "market" => e.refs \in Seq(Refs)
           /\ e.kind = "position" => Len(e.refs) = 2
           /\ e.kind \in {"alert", "case"} => Len(e.refs) > 0 /\ Numeric(e.payload)
    /\ \A c \in ToolCalls :
           /\ c.spec.name = "propose_funding_plan" =>
                  /\ Get(c.arguments, "horizon_days", 7) \in Nat
                  /\ Get(c.arguments, "buffer_ratio", 0) \in Nat
           /\ c.spec.name = "propose_hedge_candidates" =>
                  /\ Get(c.arguments, "hedge_ratio", 80) \in 1..100
                  /\ Get(c.arguments, "max_candidates", 5) \in Nat

LEMMA NumericMerge ==
    ASSUME NEW old, Numeric(old), NEW new, Numeric(new)
    PROVE  Numeric(Updated(old, new))
<1> DEFINE u == Updated(old, new)
<1>1. \A field, default : Get(u, field, default) = Get(new, field, default)
                          \/ Get(u, field, default) = Get(old, field, default)
  BY DEF Get, Updated
<1> HIDE DEF u
<1>2. Numeric(u)
  <2>1. Get(u, "opening", 0) \in Int /\ Get(u, "market_value", 0) \in Int
    BY <1>1 DEF Numeric
  <2>2. Get(u, "flows", <<>>) \in {Get(new, "flows", <<>>), Get(old, "flows", <<>>)}
    BY <1>1
  <2>3. QED BY <2>1, <2>2 DEF Numeric
<1>3. QED BY <1>2 DEF u

LEMMA EmptyIsNumeric == Numeric(<<>>)
  BY DEF Numeric, Get

LEMMA UpsertMeasured ==
    ASSUME NEW t, Measured(t), NEW ref \in Refs, NEW attributes, Numeric(attributes)
    PROVE  Measured(Upserted(t, ref, attributes))
<1> DEFINE u == Upserted(t, ref, attributes)
           merged == Updated(Get(t.nodes, ref, <<>>), attributes)
           nodes == Updated(t.nodes, [r \in {ref} |-> merged])
<1>1. u = [nodes |-> nodes, edges |-> t.edges, series |-> t.series, documents |-> t.documents]
  BY DEF Upserted, Measured, IsTwin
<1>2. Numeric(merged)
  <2>1. Numeric(Get(t.nodes, ref, <<>>))
    BY EmptyIsNumeric DEF Get, Measured
  <2>2. QED BY <2>1, NumericMerge
<1> HIDE DEF merged
<1>3. /\ DOMAIN nodes = DOMAIN t.nodes \cup {ref}
      /\ \A x \in DOMAIN nodes : Numeric(nodes[x])
  BY <1>2 DEF Updated, Measured
<1> HIDE DEF u, nodes
<1>4. IsFiniteSet(DOMAIN t.nodes \cup {ref})
  BY FS_AddElement DEF Measured
<1>5. IsTwin(u) /\ u.nodes = nodes /\ u.series = t.series
  BY <1>1 DEF IsTwin
<1>6. Measured(u)
  BY <1>3, <1>4, <1>5 DEF Measured
<1>7. QED BY <1>6 DEF u

LEMMA LinkMeasured ==
    ASSUME NEW t, Measured(t), NEW ref, NEW kind, NEW refs, refs \subseteq Refs, IsFiniteSet(refs)
    PROVE  Measured(LinkedTo(t, ref, kind, refs))
<1> DEFINE u == LinkedTo(t, ref, kind, refs)
           nodes == Updated([r \in refs |-> <<>>], t.nodes)
           edges == t.edges \cup {<<ref, kind, r>> : r \in refs}
<1>1. u = [t EXCEPT !.nodes = nodes, !.edges = edges]
  BY DEF LinkedTo
<1>2. /\ DOMAIN nodes = refs \cup DOMAIN t.nodes
      /\ \A x \in DOMAIN nodes : nodes[x] = <<>> \/ (x \in DOMAIN t.nodes /\ nodes[x] = t.nodes[x])
  BY DEF Updated
<1> HIDE DEF u, nodes, edges
<1>3. u = [nodes |-> nodes, edges |-> edges, series |-> t.series, documents |-> t.documents]
  BY <1>1 DEF Measured, IsTwin
<1>4. IsTwin(u) /\ u.nodes = nodes /\ u.series = t.series
  BY <1>3 DEF IsTwin
<1>5. \A x \in DOMAIN nodes : Numeric(nodes[x])
  BY <1>2, EmptyIsNumeric DEF Measured
<1>6. IsFiniteSet(refs \cup DOMAIN t.nodes)
  BY FS_Union DEF Measured
<1>7. Measured(u)
  BY <1>2, <1>4, <1>5, <1>6 DEF Measured
<1>8. QED BY <1>7 DEF u

LEMMA RangeOfTail ==
    ASSUME NEW refs \in Seq(Refs), Len(refs) > 0
    PROVE  refs[1] \in Refs /\ Range(Tail(refs)) \subseteq Refs /\ IsFiniteSet(Range(Tail(refs)))
<1> DEFINE q == Tail(refs)
<1>1. q \in Seq(Refs) /\ refs[1] \in Refs
  <2>1. refs # <<>> /\ 1 \in 1..Len(refs)
    OBVIOUS
  <2>2. QED BY <2>1, HeadTailProperties
<1> HIDE DEF q
<1>2. Len(q) \in Nat /\ DOMAIN q = 1..Len(q) /\ Range(q) = {q[i] : i \in 1..Len(q)}
      /\ q \in [1..Len(q) -> Range(q)]
  BY <1>1 DEF Range
<1>3. q \in Surjection(1..Len(q), Range(q))
  BY <1>2 DEF Surjection
<1>4. IsFiniteSet(1..Len(q))
  <2>1. \A n \in Nat : IsFiniteSet(1..n)
    BY FS_Interval
  <2>2. QED BY <1>2, <2>1
<1>5. IsFiniteSet(Range(q))
  BY <1>3, <1>4, FS_Surjection
<1>6. Range(q) \subseteq Refs
  BY <1>1, <1>2
<1>7. QED BY <1>1, <1>5, <1>6 DEF q

LEMMA IngestMeasured ==
    ASSUME AmountsAreNumbers, NEW t, Measured(t), NEW e \in Events
    PROVE  Measured(Ingested(t, e))
<1>1. /\ e.kind \in {"position", "alert", "case", "market"}
      /\ e.kind = "market" => e.value \in Int
      /\ e.kind # "market" => e.refs \in Seq(Refs)
      /\ e.kind = "position" => Len(e.refs) = 2
      /\ e.kind \in {"alert", "case"} => Len(e.refs) > 0 /\ Numeric(e.payload)
  BY EventsAssumption DEF AmountsAreNumbers
<1>2. ASSUME NEW attributes, Numeric(attributes), NEW from \in Refs, NEW kind,
             NEW refs, refs \subseteq Refs, IsFiniteSet(refs)
      PROVE  Measured(LinkedTo(Upserted(t, from, attributes), from, kind, refs))
  <2>1. Measured(Upserted(t, from, attributes))
    BY <1>2, UpsertMeasured
  <2>2. QED BY <1>2, <2>1, LinkMeasured
<1>3. CASE e.kind = "position"
  <2>1. Ingested(t, e) = LinkedTo(Upserted(t, e.refs[1], <<>>), e.refs[1], "holds", {e.refs[2]})
    BY <1>3 DEF Ingested, Related
  <2>2. e.refs[1] \in Refs /\ e.refs[2] \in Refs
    BY <1>1, <1>3
  <2>3. IsFiniteSet({e.refs[2]}) /\ {e.refs[2]} \subseteq Refs
    BY <2>2, FS_Singleton
  <2>4. QED BY <1>2, <2>1, <2>2, <2>3, EmptyIsNumeric
<1>4. CASE e.kind \in {"alert", "case"}
  <2>1. Ingested(t, e) = LinkedTo(Upserted(t, e.refs[1], e.payload), e.refs[1],
                                  IF e.kind = "alert" THEN "concerns" ELSE "involves", Range(Tail(e.refs)))
    BY <1>4 DEF Ingested
  <2>2. e.refs[1] \in Refs /\ Range(Tail(e.refs)) \subseteq Refs /\ IsFiniteSet(Range(Tail(e.refs)))
    BY <1>1, <1>4, RangeOfTail
  <2>3. Numeric(e.payload)
    BY <1>1, <1>4
  <2>4. QED BY <1>2, <2>1, <2>2, <2>3
<1>5. CASE e.kind = "market"
  <2> DEFINE longer == Append(Get(t.series, e.key, <<>>), e.value)
             series == Updated(t.series, [k \in {e.key} |-> longer])
             u == Ingested(t, e)
  <2>1. u = [nodes |-> t.nodes, edges |-> t.edges, series |-> series, documents |-> t.documents]
    <3>1. [k \in {e.key} |-> Append(Get(t.series, k, <<>>), e.value)] = [k \in {e.key} |-> longer]
      OBVIOUS
    <3>2. u = [t EXCEPT !.series = Updated(@, [k \in {e.key} |-> Append(Get(t.series, k, <<>>), e.value)])]
      BY <1>5 DEF Ingested
    <3>3. u = [t EXCEPT !.series = series]
      BY <3>1, <3>2
    <3> HIDE DEF series, u
    <3>4. QED BY <3>3 DEF Measured, IsTwin
  <2>2. longer \in Seq(Int)
    <3>1. Get(t.series, e.key, <<>>) \in Seq(Int)
      BY DEF Get, Measured
    <3>2. QED BY <1>1, <1>5, <3>1
  <2> HIDE DEF longer
  <2>3. \A key \in DOMAIN series : series[key] \in Seq(Int)
    BY <2>2 DEF Updated, Measured
  <2> HIDE DEF series, u
  <2>4. IsTwin(u) /\ u.nodes = t.nodes /\ u.series = series
    BY <2>1 DEF IsTwin
  <2>5. Measured(u)
    BY <2>3, <2>4 DEF Measured
  <2>6. QED BY <2>5 DEF u
<1>6. QED BY <1>1, <1>3, <1>4, <1>5

\* A case about to be marked is in the graph: nothing else writes there until it is.
MeasuredInv ==
    /\ BenchRules /\ BenchTypes /\ Measured(twin)
    /\ doing # Nothing /\ doing.at = "twin" => doing.tool = "execute_close_case"
    /\ doing # Nothing /\ doing.tool = "execute_close_case" =>
           <<"case", doing.arguments.case_id>> \in DOMAIN twin.nodes

LEMMA MeasuredStep ==
    ASSUME AmountsAreNumbers, MeasuredInv, [BenchNext]_benchVars
    PROVE  MeasuredInv'
<1>1. BenchRules' /\ BenchTypes'
  BY BenchRulesStep, BenchTypesStep DEF MeasuredInv
<1> DEFINE Marked(t) ==
        /\ Measured(t)
        /\ doing' # Nothing /\ doing'.at = "twin" => doing'.tool = "execute_close_case"
        /\ doing' # Nothing /\ doing'.tool = "execute_close_case" =>
               <<"case", doing'.arguments.case_id>> \in DOMAIN t.nodes
<1> SUFFICES Marked(twin')
  BY <1>1 DEF MeasuredInv, Measured, IsTwin, Numeric, Get, Nothing
<1>2. /\ Measured(twin)
      /\ doing' = doing => Marked(twin)
      /\ doing' = Nothing => Marked(twin)
  BY DEF MeasuredInv
<1>3. CASE \E e \in Events : Ingest(e)
  <2>1. Measured(twin') /\ doing' = Nothing
    BY <1>2, <1>3, IngestMeasured DEF Ingest, Quiet
  <2>2. QED BY <2>1
<1>4. CASE \E w \in Upserts : Upsert(w[1], w[2])
  <2>1. PICK w \in Upserts : Upsert(w[1], w[2])
    BY <1>4
  <2>2. twin' = Upserted(twin, w[1], w[2]) /\ w[1] \in Refs /\ Numeric(w[2]) /\ doing' = Nothing
    BY <2>1 DEF Upsert, Quiet, AmountsAreNumbers
  <2>3. Measured(twin')
    BY <1>2, <2>2, UpsertMeasured
  <2>4. QED BY <2>2, <2>3
<1>5. CASE \E c \in ToolCalls, role \in Callers : invoke(c, role)
  <2>1. PICK c \in ToolCalls, role \in Callers : invoke(c, role)
    BY <1>5
  <2>2. CASE doing' = doing
    BY <1>2, <2>1, <2>2 DEF invoke
  <2>3. CASE doing' # doing
    <3>1. PICK token_ \in BOOLEAN : Begin(c, token_)
      BY <2>1, <2>3 DEF invoke, Consult
    <3>2. /\ doing' = [tool |-> c.spec.name, arguments |-> c.arguments, approved |-> token_, at |-> "write"]
          /\ c.spec.name = "execute_close_case" => <<"case", c.arguments.case_id>> \in DOMAIN twin.nodes
      BY <3>1 DEF Begin
    <3>3. doing'.tool = c.spec.name /\ doing'.arguments = c.arguments /\ doing'.at = "write"
      BY <3>2
    <3>4. twin' = twin
      BY <2>1 DEF invoke
    <3>5. QED BY <1>2, <3>2, <3>3, <3>4
  <2>4. QED BY <2>2, <2>3
<1>6. CASE WriteOutbox
  <2>1. /\ doing \in Tasks /\ twin' = twin /\ doing # Nothing
        /\ doing' = [doing EXCEPT !.at = IF doing.tool = "execute_close_case" THEN "twin" ELSE "audit"]
    BY <1>6 DEF WriteOutbox, MeasuredInv, BenchTypes
  <2>2. /\ doing'.tool = doing.tool /\ doing'.arguments = doing.arguments
        /\ doing'.at = IF doing.tool = "execute_close_case" THEN "twin" ELSE "audit"
    BY <2>1 DEF Tasks
  <2>3. QED BY <2>1, <2>2 DEF MeasuredInv
<1>7. CASE MarkClosed
  <2> DEFINE ref == <<"case", doing.arguments.case_id>>
             mark == [status |-> "closed", disposition |-> doing.arguments.disposition]
  <2>1. /\ twin' = Upserted(twin, ref, mark) /\ doing \in Tasks
        /\ doing' = [doing EXCEPT !.at = "audit"] /\ doing.at = "twin" /\ doing # Nothing
    BY <1>7 DEF MarkClosed, MeasuredInv, BenchTypes
  <2>2. Numeric(mark)
    BY DEF Numeric, Get
  <2>3. ref \in DOMAIN twin.nodes /\ ref \in Refs
    BY <2>1 DEF MeasuredInv, Measured
  <2>4. doing'.at = "audit" /\ doing'.arguments = doing.arguments
    BY <2>1, TaskFields
  <2> HIDE DEF mark, ref
  <2>5. Measured(twin')
    BY <1>2, <2>1, <2>2, <2>3, UpsertMeasured
  <2>6. ref \in DOMAIN twin'.nodes
    BY <1>2, <2>1, <2>3 DEF Upserted, Updated, Measured, IsTwin
  <2>7. QED BY <2>4, <2>5, <2>6 DEF ref
<1>8. CASE PutAway
  BY <1>2, <1>8 DEF PutAway
<1>9. CASE Record \/ Fail
  BY <1>2, <1>9 DEF Record, Fail
<1>10. CASE NewProcess
  <2>1. Measured(twin') /\ doing' = Nothing
    BY <1>10 DEF NewProcess, AmountsAreNumbers
  <2>2. QED BY <2>1
<1>11. CASE \E rule \in AddedRules, prepend \in BOOLEAN : Govern(rule, prepend)
  BY <1>2, <1>11 DEF Govern
<1>12. CASE UNCHANGED benchVars
  BY <1>2, <1>12 DEF benchVars
<1>13. QED
  BY <1>3, <1>4, <1>5, <1>6, <1>7, <1>8, <1>9, <1>10, <1>11, <1>12 DEF BenchNext

-----------------------------------------------------------------------------
(* What a funding plan covers *)

LEMMA MaxOfTwo ==
    ASSUME NEW a \in Int, NEW b \in Int
    PROVE  Max({a, b}) = IF a <= b THEN b ELSE a
  BY DEF Max

\* With a buffer the target is not less than the shortfall.
LEMMA TargetIsEnough ==
    ASSUME NEW amount \in Int, NEW buffer \in Nat
    PROVE  LET target == (amount * (2 + buffer)) \div 2 IN
           target \in Int /\ (amount >= 0 => target >= amount)
<1>1. amount * (2 + buffer) \in Int
  OBVIOUS
<1>2. \A n \in Int : n \div 2 \in Int /\ \A m \in Int : n >= 2 * m => n \div 2 >= m
  OBVIOUS
<1>3. ASSUME amount >= 0 PROVE amount * (2 + buffer) >= 2 * amount
  <2>1. \A i, j \in Nat : i * j >= 0 /\ i * j \in Int
    OBVIOUS
  <2>2. amount \in Nat
    BY <1>3
  <2>3. amount * buffer >= 0 /\ amount * buffer \in Int
    BY <2>1, <2>2
  <2>4. amount * (2 + buffer) = 2 * amount + amount * buffer
    OBVIOUS
  <2>5. QED BY <2>3, <2>4
<1> DEFINE n == amount * (2 + buffer)
<1>4. n \in Int /\ (amount >= 0 => n >= 2 * amount)
  BY <1>1, <1>3
<1> HIDE DEF n
<1>5. n \div 2 \in Int /\ (amount >= 0 => n \div 2 >= amount)
  BY <1>2, <1>4
<1>6. QED BY <1>5 DEF n

\* Every row of a ladder has a trough, and the row of a currency with ladders is
\* that of one of them.
LEMMA TroughsOfLadders ==
    ASSUME NEW t, Measured(t), NEW currency, NEW horizon \in Nat
    PROVE  LET rows == build_ladders(t, {currency}, horizon)
               ladders == LaddersIn(t, {currency})
           IN  /\ \A l \in rows : l.trough \in Int
               /\ ladders # {} =>
                      /\ rows # {}
                      /\ \A l \in rows : \E e \in ladders :
                             l.trough = Min(Range(Balances(t.nodes[e], horizon)))
<1> DEFINE entries == entities_of_type(t, "cash_ladder")
           flat == {key \in DOMAIN t.series : key[1] = ".cash." /\ t.series[key] # <<>>}
           Row(c, l) == [currency |-> c, trough |-> Min(Range(Balances(l, horizon)))]
           Latest(key) == [opening |-> Last(t.series[key]), flows |-> <<>>]
           rows == build_ladders(t, {currency}, horizon)
           ladders == LaddersIn(t, {currency})
<1>1. rows = IF entries # {} THEN {Row(LadderCurrency(t, e), t.nodes[e]) : e \in ladders}
             ELSE {Row(key[2], Latest(key)) : key \in {x \in flat : x[2] \in {currency}}}
  BY DEF build_ladders
<1>2. ASSUME NEW l, Numeric(l), NEW c PROVE Row(c, l).trough \in Int
  BY <1>2, TroughIsLeast
<1>3. \A e \in entries : e \in DOMAIN t.nodes /\ e[1] = "cash_ladder" /\ Numeric(t.nodes[e])
  BY DEF entities_of_type, Measured
<1>4. ASSUME NEW key \in flat PROVE Numeric(Latest(key))
  <2>1. t.series[key] \in Seq(Int) /\ t.series[key] # <<>>
    BY DEF Measured
  <2>2. Last(t.series[key]) \in Int
    BY <2>1 DEF Last
  <2>3. QED BY <2>2 DEF Numeric, Get
<1>9. ladders \subseteq entries
  BY DEF LaddersIn
<1> HIDE DEF Row, Latest, rows, entries, flat, ladders
<1>5. ASSUME NEW l \in rows PROVE l.trough \in Int
  BY <1>1, <1>2, <1>3, <1>4, <1>9
<1>6. ASSUME ladders # {}
      PROVE  /\ rows # {}
             /\ \A l \in rows : \E e \in ladders : l = Row(LadderCurrency(t, e), t.nodes[e])
  BY <1>1, <1>6, <1>9
<1>7. ladders # {} =>
          /\ rows # {}
          /\ \A l \in rows : \E e \in ladders : l.trough = Min(Range(Balances(t.nodes[e], horizon)))
  BY <1>6 DEF Row
<1>8. QED BY <1>5, <1>7 DEF rows, ladders

LEMMA FundingCovers ==
    ASSUME NEW t, Measured(t), NEW a, Get(a, "horizon_days", 7) \in Nat, Get(a, "buffer_ratio", 0) \in Nat,
           "amount" \in DOMAIN a => a.amount \in Int
    PROVE  Covers(t, a, propose_funding_plan(t, a).data)
<1> DEFINE horizon == Get(a, "horizon_days", 7)
           rows == build_ladders(t, {a.currency}, horizon)
           trough == IF rows = {} THEN 0 ELSE (CHOOSE l \in rows : TRUE).trough
           amount == Get(a, "amount", Max({0, -trough}))
           target == (amount * (2 + Get(a, "buffer_ratio", 0))) \div 2
           base == fund(target, horizon)
           plan == propose_funding_plan(t, a).data
           ladders == LaddersIn(t, {a.currency})
<1>1. /\ plan.funding_required <=> target > 0
      /\ plan.horizon_days = horizon /\ plan.target = target
      /\ plan.tranches = IF target > 0 THEN base.tranches ELSE <<>>
      /\ plan.uncovered = IF target > 0 THEN base.remaining ELSE 0
  BY DEF propose_funding_plan, Ok
<1>2. /\ \A l \in rows : l.trough \in Int
      /\ ladders # {} =>
             /\ rows # {}
             /\ \A l \in rows : \E e \in ladders :
                    l.trough = Min(Range(Balances(t.nodes[e], horizon)))
  BY TroughsOfLadders
<1>10. \A e \in ladders : e \in DOMAIN t.nodes
  BY DEF LaddersIn, entities_of_type
<1> HIDE DEF rows, ladders
<1>3. trough \in Int
  BY <1>2
<1>4. ladders # {} => \E e \in ladders : trough = Min(Range(Balances(t.nodes[e], horizon)))
  BY <1>2
<1> HIDE DEF trough
<1>5. /\ amount \in Int
      /\ "amount" \notin DOMAIN a => amount >= 0 /\ amount >= -trough
  <2>1. Max({0, -trough}) \in Int /\ Max({0, -trough}) >= 0 /\ Max({0, -trough}) >= -trough
    <3>1. -trough \in Int
      BY <1>3
    <3>2. Max({0, -trough}) = IF 0 <= -trough THEN -trough ELSE 0
      BY <3>1, MaxOfTwo
    <3>3. QED BY <3>1, <3>2
  <2>2. QED BY <2>1 DEF Get
<1> HIDE DEF amount
<1>6. target \in Int /\ (amount >= 0 => target >= amount)
  BY <1>5, TargetIsEnough
<1> HIDE DEF target, plan
<1>7. CASE target > 0
  <2> DEFINE u == base.tranches
  <2>1. target \in Nat
    BY <1>6, <1>7
  <2>2. /\ base.remaining \in Nat /\ DOMAIN u = Eligible(horizon)
        /\ \A s \in Eligible(horizon) : u[s] \in 0..s.capacity
        /\ \A r, s \in Eligible(horizon) : r.cost_bps < s.cost_bps /\ u[s] > 0 => u[r] = r.capacity
        /\ base.remaining > 0 => \A s \in Eligible(horizon) : u[s] = s.capacity
        /\ SumFunction(u) + base.remaining = target
    BY <2>1, PlanOfSources
  <2>3. plan.tranches = u /\ plan.uncovered = base.remaining /\ Raised(plan) = SumFunction(u)
    BY <1>1, <1>7 DEF Raised
  <2> HIDE DEF u, base
  <2>4. Raised(plan) + plan.uncovered = plan.target
    BY <1>1, <2>2, <2>3
  <2>5. ASSUME NEW s \in DOMAIN plan.tranches
        PROVE  /\ plan.tranches[s] \in 0..s.capacity /\ s.max_tenor_days >= horizon
               /\ plan.tranches[s] > 0 \/ plan.uncovered > 0 =>
                    \A r \in Eligible(horizon) :
                        r.cost_bps < s.cost_bps \/ (plan.uncovered > 0) => plan.tranches[r] = r.capacity
    <3>1. s \in Eligible(horizon)
      BY <2>2, <2>3
    <3>2. s.max_tenor_days >= horizon
      BY <3>1 DEF Eligible
    <3>3. QED BY <2>2, <2>3, <3>1, <3>2
  <2>6. ASSUME "amount" \notin DOMAIN a, plan.uncovered = 0,
               NEW ladder \in ladders, trough = Min(Range(Balances(t.nodes[ladder], horizon))),
               NEW day \in 0..horizon
        PROVE  Balances(t.nodes[ladder], horizon)[day] + Raised(plan) >= 0
    <3>1. SumFunction(u) = target /\ target >= -trough
      <4>1. SumFunction(u) \in Int
        <5>1. IsFiniteSet(DOMAIN u)
          BY <2>2, SourcesTold, FS_Subset DEF Eligible
        <5>2. \A s \in DOMAIN u : u[s] \in Int
          <6>1. \A s \in Eligible(horizon) : s.capacity \in Nat
            BY SourcesTold DEF Eligible
          <6>2. QED BY <2>2, <6>1
        <5>3. SumFunction(u) = SumOf(u, DOMAIN u)
          BY DEF SumFunction, SumOf
        <5>4. QED BY <5>1, <5>2, <5>3, SumIsInteger
      <4>2. QED BY <1>3, <1>5, <1>6, <2>2, <2>3, <2>6, <4>1
    <3>2. Numeric(t.nodes[ladder])
      BY <1>10, <2>6 DEF Measured
    <3>3. /\ Balances(t.nodes[ladder], horizon)[day] \in Int
          /\ trough <= Balances(t.nodes[ladder], horizon)[day]
      BY <2>6, <3>2, TroughIsLeast
    <3>4. QED BY <1>3, <1>6, <2>3, <3>1, <3>3
  <2>7. QED BY <1>1, <1>4, <2>4, <2>5, <2>6 DEF Covers, plan, ladders
<1>8. CASE ~(target > 0)
  <2>1. ~plan.funding_required /\ plan.tranches = <<>> /\ plan.uncovered = 0
    BY <1>1, <1>8
  <2>2. Raised(plan) = 0
    BY <2>1, SumOfNone DEF Raised, SumFunction, SumOf
  <2>3. ASSUME "amount" \notin DOMAIN a,
               NEW ladder \in ladders, trough = Min(Range(Balances(t.nodes[ladder], horizon))),
               NEW day \in 0..horizon
        PROVE  Balances(t.nodes[ladder], horizon)[day] + Raised(plan) >= 0
    <3>1. trough >= 0
      BY <1>3, <1>5, <1>6, <1>8, <2>3
    <3>2. Numeric(t.nodes[ladder])
      BY <1>10, <2>3 DEF Measured
    <3>3. /\ Balances(t.nodes[ladder], horizon)[day] \in Int
          /\ trough <= Balances(t.nodes[ladder], horizon)[day]
      BY <2>3, <3>2, TroughIsLeast
    <3>4. QED BY <1>3, <2>2, <3>1, <3>3
  <2>4. DOMAIN plan.tranches = {}
    BY <2>1
  <2>5. "amount" \notin DOMAIN a /\ plan.uncovered = 0 /\ ladders # {} =>
            \E ladder \in ladders : \A day \in 0..horizon :
                Balances(t.nodes[ladder], horizon)[day] + Raised(plan) >= 0
    BY <1>4, <2>3
  <2>6. QED BY <1>1, <2>1, <2>4, <2>5 DEF Covers, plan, ladders
<1>9. QED BY <1>7, <1>8

-----------------------------------------------------------------------------
(* What hedges do to an exposure *)

LEMMA UniverseTold ==
    /\ IsFiniteSet(HEDGE_UNIVERSE)
    /\ \A h \in HEDGE_UNIVERSE : h.cost \in Nat \ {0} /\ h.effectiveness \in 1..99
    /\ \A g, h \in HEDGE_UNIVERSE : g # h => g.effectiveness * h.cost # h.effectiveness * g.cost
<1>1. IsFiniteSet(HEDGE_UNIVERSE)
  <2> DEFINE f == [h \in HEDGE_UNIVERSE |-> h.effectiveness]
  <2>1. \A h \in HEDGE_UNIVERSE : h.effectiveness \in 1..99
    BY DEF HEDGE_UNIVERSE
  <2>2. \A g, h \in HEDGE_UNIVERSE : g.effectiveness = h.effectiveness => g = h
    BY DEF HEDGE_UNIVERSE
  <2>3. f \in [HEDGE_UNIVERSE -> 1..99] /\ \A g, h \in HEDGE_UNIVERSE : f[g] = f[h] => g = h
    BY <2>1, <2>2
  <2> HIDE DEF f
  <2>4. f \in Injection(HEDGE_UNIVERSE, 1..99)
    BY <2>3 DEF Injection, IsInjective
  <2>5. IsFiniteSet(1..99)
    <3>1. \A n \in Nat : IsFiniteSet(1..n)
      BY FS_Interval
    <3>2. QED BY <3>1
  <2>6. QED BY <2>4, <2>5, FS_Injection
<1>2. \A h \in HEDGE_UNIVERSE : h.cost \in Nat \ {0} /\ h.effectiveness \in 1..99
  BY DEF HEDGE_UNIVERSE
<1>3. \A g, h \in HEDGE_UNIVERSE : g # h => g.effectiveness * h.cost # h.effectiveness * g.cost
  BY DEF HEDGE_UNIVERSE
<1>4. QED BY <1>1, <1>2, <1>3

\* Of an exposure n, a part counted in its basis points.
PartOf(part, n) ==
    /\ part \in Int /\ part > 0
    /\ n > 0 => part < 10000 * n
    /\ ~(n > 0) => part < 10000 * (-n)

\* A ratio of an exposure is less than the whole of it.
LEMMA PartIsLess ==
    ASSUME NEW n \in Int, n # 0, NEW ratio \in 1..100, NEW share \in 1..99
    PROVE  PartOf(Magnitude(n) * ratio * share, n)
<1> DEFINE k == ratio * share
           m == Magnitude(n)
           part == m * ratio * share
<1>1. k \in 1..9900
  <2>1. \A i \in 1..100, j \in 1..99 : i * j \in Int /\ i * j >= 1 /\ i * j <= 9900
    <3>1. \A i, j, u, v \in Int : i >= 1 /\ i <= u /\ j >= 1 /\ j <= v => i * j >= 1 /\ i * j <= u * v
      OBVIOUS
    <3>2. QED BY <3>1
  <2>2. QED BY <2>1
<1>2. m \in Nat /\ m > 0 /\ n = (IF n > 0 THEN m ELSE -m)
  BY DEF Magnitude
<1> HIDE DEF m
<1>3. part = m * k
  <2>1. \A x, y, z \in Int : x * y * z = x * (y * z)
    OBVIOUS
  <2>2. QED BY <1>2, <2>1
<1> HIDE DEF k, part
<1>4. m * k \in Int /\ m * k > 0 /\ m * k < 10000 * m
  <2>1. \A x, y \in Int : x > 0 /\ y > 0 => x * y > 0 /\ x * y \in Int
    OBVIOUS
  <2>2. m * k > 0 /\ m * (10000 - k) > 0 /\ m * k \in Int
    BY <1>1, <1>2, <2>1
  <2>3. m * (10000 - k) = 10000 * m - m * k
    BY <1>1, <1>2
  <2>4. QED BY <1>2, <2>2, <2>3
<1>5. PartOf(part, n)
  BY <1>2, <1>3, <1>4 DEF PartOf
<1>6. QED BY <1>5 DEF part, m

\* What is left has the side of the whole.
LEMMA RestKeepsSide ==
    ASSUME NEW n \in Int, NEW part, PartOf(part, n),
           NEW direction, direction = IF n > 0 THEN -1 ELSE 1
    PROVE  Reduces(10000 * n, 10000 * n + direction * part)
<1>1. CASE n > 0
  <2>1. direction * part = -part
    BY <1>1 DEF PartOf
  <2>2. QED BY <1>1, <2>1 DEF Magnitude, PartOf, Reduces
<1>2. CASE ~(n > 0)
  <2>1. direction * part = part
    BY <1>2 DEF PartOf
  <2>2. QED BY <1>2, <2>1 DEF Magnitude, PartOf, Reduces
<1>3. QED BY <1>1, <1>2

\* Scores tell any hedges of the universe apart.
LEMMA ScoresOrder ==
    ASSUME NEW rows, \A r \in rows : r.hedge \in HEDGE_UNIVERSE,
           \A r, s \in rows : r # s => r.hedge # s.hedge
    PROVE  /\ Orders(HigherScore(rows), rows)
           /\ \A r, s \in rows : <<r, s>> \in HigherScore(rows) =>
                  r.hedge.effectiveness * s.hedge.cost >= s.hedge.effectiveness * r.hedge.cost
<1>1. \A r, s \in rows : <<r, s>> \in HigherScore(rows) <=>
          r.hedge.effectiveness * s.hedge.cost > s.hedge.effectiveness * r.hedge.cost
  BY DEF HigherScore
<1>2. \A r, s \in rows :
          /\ r.hedge.effectiveness \in Nat /\ r.hedge.cost \in Nat \ {0}
          /\ r.hedge.effectiveness * s.hedge.cost \in Int
          /\ r # s => r.hedge.effectiveness * s.hedge.cost # s.hedge.effectiveness * r.hedge.cost
  <2>1. \A h \in HEDGE_UNIVERSE : h.cost \in Nat \ {0} /\ h.effectiveness \in Nat
    BY UniverseTold
  <2>2. \A i, j \in Nat : i * j \in Int
    OBVIOUS
  <2>3. QED BY <2>1, <2>2, UniverseTold
<1>3. \A a, b, c \in Nat, x, y, z \in Nat \ {0} :
          a * y > b * x /\ b * z > c * y => a * z > c * x
  <2>1. TAKE a, b, c \in Nat, x, y, z \in Nat \ {0}
  <2>2. SUFFICES ASSUME a * y > b * x, b * z > c * y PROVE a * z > c * x
    OBVIOUS
  <2>3. \A i, j \in Int, k \in Nat \ {0} : (i > j => i * k > j * k) /\ (i * k > j * k => i > j)
    <3>1. TAKE i, j \in Int, k \in Nat \ {0}
    <3>2. \A u, v \in Int : u > 0 /\ v > 0 => u * v > 0
      OBVIOUS
    <3>3. i * k - j * k = (i - j) * k /\ j * k - i * k = (j - i) * k /\ i * k \in Int /\ j * k \in Int
      OBVIOUS
    <3>4. i > j => (i - j) * k > 0
      BY <3>2
    <3>5. j > i => (j - i) * k > 0
      BY <3>2
    <3>6. i = j => i * k = j * k
      OBVIOUS
    <3>7. QED BY <3>3, <3>4, <3>5, <3>6
  <2>4. (a * y) * z > (b * x) * z /\ (b * z) * x > (c * y) * x
    BY <2>2, <2>3
  <2>5. (a * y) * z = (a * z) * y /\ (b * x) * z = (b * z) * x /\ (c * y) * x = (c * x) * y
    OBVIOUS
  <2>6. (a * z) * y > (c * x) * y
    <3>1. (a * z) * y \in Int /\ (b * z) * x \in Int /\ (c * x) * y \in Int
      OBVIOUS
    <3>2. QED BY <2>4, <2>5, <3>1
  <2>7. a * z \in Int /\ c * x \in Int
    OBVIOUS
  <2>8. QED BY <2>3, <2>6, <2>7
<1>4. ASSUME NEW r \in rows, NEW s \in rows, NEW t \in rows
      PROVE  /\ <<r, r>> \notin HigherScore(rows)
             /\ r # s => <<r, s>> \in HigherScore(rows) \/ <<s, r>> \in HigherScore(rows)
             /\ <<r, s>> \in HigherScore(rows) /\ <<s, t>> \in HigherScore(rows)
                    => <<r, t>> \in HigherScore(rows)
  <2>1. <<r, r>> \notin HigherScore(rows)
    BY <1>1, <1>2
  <2>2. r # s => <<r, s>> \in HigherScore(rows) \/ <<s, r>> \in HigherScore(rows)
    <3> DEFINE x == r.hedge.effectiveness * s.hedge.cost
               y == s.hedge.effectiveness * r.hedge.cost
    <3>1. x \in Int /\ y \in Int /\ (r # s => x # y)
      BY <1>2
    <3>2. (<<r, s>> \in HigherScore(rows) <=> x > y) /\ (<<s, r>> \in HigherScore(rows) <=> y > x)
      BY <1>1
    <3> HIDE DEF x, y
    <3>3. QED BY <3>1, <3>2
  <2>3. <<r, s>> \in HigherScore(rows) /\ <<s, t>> \in HigherScore(rows) => <<r, t>> \in HigherScore(rows)
    <3> DEFINE a == r.hedge.effectiveness
               b == s.hedge.effectiveness
               c == t.hedge.effectiveness
               x == r.hedge.cost
               y == s.hedge.cost
               z == t.hedge.cost
    <3>1. a \in Nat /\ b \in Nat /\ c \in Nat /\ x \in Nat \ {0} /\ y \in Nat \ {0} /\ z \in Nat \ {0}
      BY <1>2
    <3>2. /\ <<r, s>> \in HigherScore(rows) <=> a * y > b * x
          /\ <<s, t>> \in HigherScore(rows) <=> b * z > c * y
          /\ <<r, t>> \in HigherScore(rows) <=> a * z > c * x
      BY <1>1
    <3> HIDE DEF a, b, c, x, y, z
    <3>3. QED BY <1>3, <3>1, <3>2
  <2>4. QED BY <2>1, <2>2, <2>3
<1>5. Orders(HigherScore(rows), rows)
  BY <1>4 DEF Orders
<1>6. \A r, s \in rows : <<r, s>> \in HigherScore(rows) =>
          r.hedge.effectiveness * s.hedge.cost >= s.hedge.effectiveness * r.hedge.cost
  BY <1>1, <1>2
<1>7. QED BY <1>5, <1>6

\* A net exposure is a number.
LEMMA NetIsNumber ==
    ASSUME NEW t, Measured(t)
    PROVE  \A group \in SUBSET load_positions(t) : Net(group) \in Int
<1> DEFINE P == entities_of_type(t, "position")
           Row(p) == [id |-> p[2], asset_class |-> Label(t, p, "asset_class"),
                      currency |-> Label(t, p, "currency"), value |-> Get(t.nodes[p], "market_value", 0)]
           rows == load_positions(t)
           f == [p \in P |-> Row(p)]
<1>1. rows = {Row(p) : p \in P}
  BY DEF load_positions
<1>2. \A p \in P : Row(p).value \in Int
  BY DEF entities_of_type, Measured, Numeric
<1>3. IsFiniteSet(P)
  BY FS_Subset DEF entities_of_type, Measured
<1> HIDE DEF Row, rows, P
<1>4. f \in Surjection(P, rows)
  BY <1>1 DEF Surjection
<1>5. IsFiniteSet(rows) /\ \A r \in rows : r.value \in Int
  BY <1>1, <1>2, <1>3, <1>4, FS_Surjection
<1>6. ASSUME NEW group \in SUBSET rows PROVE Net(group) \in Int
  <2> DEFINE g == [r \in group |-> r.value]
  <2>1. IsFiniteSet(group) /\ DOMAIN g = group /\ \A r \in group : g[r] \in Int
    BY <1>5, FS_Subset
  <2>2. Net(group) = SumOf(g, group)
    BY DEF Net, SumFunction, SumOf
  <2> HIDE DEF g
  <2>3. QED BY <2>1, <2>2, SumIsInteger
<1>7. QED BY <1>6 DEF rows

LEMMA HedgesOfTwin ==
    ASSUME NEW t, Measured(t), NEW a, Get(a, "hedge_ratio", 80) \in 1..100, Get(a, "max_candidates", 5) \in Nat
    PROVE  Offsets(t, propose_hedge_candidates(t, a).data.candidates)
<1> DEFINE exposures == aggregate_by(load_positions(t), "asset_class")
           net == [class \in DOMAIN exposures |-> exposures[class].net]
           NetOf(class) == Net({r \in load_positions(t) : r.asset_class = class})
           universe == {h \in HEDGE_UNIVERSE :
                           /\ h.asset_class = Get(a, "asset_class", h.asset_class)
                           /\ Get(net, h.asset_class, 0) # 0
                           /\ h.cost <= Get(a, "max_cost_bps", h.cost)}
           ratio == Get(a, "hedge_ratio", 80)
           rows == hedge_rows(net, ratio, universe)
           Row(h) == [hedge |-> h, direction |-> IF net[h.asset_class] > 0 THEN -1 ELSE 1,
                      reduction |-> Magnitude(net[h.asset_class]) * ratio * h.effectiveness]
           q == Ranked(rows, HigherScore(rows))
           most == Min({Len(q), Get(a, "max_candidates", 5)})
           list == propose_hedge_candidates(t, a).data.candidates
<1>1. list = SubSeq(q, 1, most)
  BY DEF propose_hedge_candidates, Ok
<1>2. \A class : NetOf(class) \in Int
  BY NetIsNumber
<1>3. \A class \in DOMAIN net : net[class] = NetOf(class)
  BY DEF aggregate_by
<1>4. \A h \in universe : /\ h \in HEDGE_UNIVERSE /\ h.effectiveness \in 1..99
                          /\ net[h.asset_class] = NetOf(h.asset_class) /\ net[h.asset_class] # 0
  <2>1. \A h \in universe : h.asset_class \in DOMAIN net /\ net[h.asset_class] # 0
    <3> HIDE DEF net
    <3>1. QED BY DEF Get
  <2>2. QED BY <1>3, <2>1, UniverseTold
<1>5. rows = {Row(h) : h \in universe}
  BY DEF hedge_rows
<1> HIDE DEF net, universe, rows, NetOf, ratio, list
<1>6. \A h \in universe : /\ Row(h).hedge = h
                          /\ Row(h).direction = IF NetOf(h.asset_class) > 0 THEN -1 ELSE 1
                          /\ Row(h).reduction = Magnitude(NetOf(h.asset_class)) * ratio * h.effectiveness
  BY <1>4
<1> HIDE DEF Row
<1>7. /\ \A r \in rows : r.hedge \in universe /\ r.hedge \in HEDGE_UNIVERSE /\ r = Row(r.hedge)
      /\ \A r, s \in rows : r # s => r.hedge # s.hedge
  BY <1>4, <1>5, <1>6
<1>8. IsFiniteSet(rows)
  <2> DEFINE f == [h \in universe |-> Row(h)]
  <2>1. f \in Surjection(universe, rows)
    BY <1>5 DEF Surjection
  <2>2. IsFiniteSet(universe)
    BY UniverseTold, FS_Subset DEF universe
  <2>3. QED BY <2>1, <2>2, FS_Surjection
<1>9. /\ q \in Seq(rows) /\ Len(q) \in Nat
      /\ \A i, j \in 1..Len(q) : i < j => <<q[i], q[j]>> \in HigherScore(rows)
  <2>1. Orders(HigherScore(rows), rows)
    BY <1>7, ScoresOrder
  <2>2. QED BY <1>8, <2>1, RankedIsSorted
<1> HIDE DEF q
<1>10. most \in Nat /\ most <= Len(q)
  <2>1. Get(a, "max_candidates", 5) \in Int /\ Len(q) \in Int
    BY <1>9
  <2>2. most = IF Len(q) <= Get(a, "max_candidates", 5) THEN Len(q) ELSE Get(a, "max_candidates", 5)
    BY <2>1, MinOfTwo
  <2>3. QED BY <1>9, <2>2
<1> HIDE DEF most
<1>11. DOMAIN list = 1..most /\ \A i \in 1..most : list[i] = q[i] /\ q[i] \in rows
  <2>1. \A i \in 1..most : q[i] \in rows /\ i \in 1..Len(q)
    BY <1>9, <1>10
  <2>2. /\ SubSeq(q, 1, most) \in Seq(rows)
        /\ Len(SubSeq(q, 1, most)) = IF 1 <= most THEN most - 1 + 1 ELSE 0
        /\ \A i \in 1..(most - 1 + 1) : SubSeq(q, 1, most)[i] = q[1 + i - 1]
    BY <1>10, <2>1, SubSeqProperties
  <2>3. \A i \in 1..most : i \in 1..(most - 1 + 1) /\ 1 + i - 1 = i
    BY <1>10
  <2>4. Len(list) = most /\ DOMAIN list = 1..Len(list)
    BY <1>1, <1>10, <2>2
  <2>5. QED BY <1>1, <2>1, <2>2, <2>3, <2>4
<1>12. ASSUME NEW i \in DOMAIN list
       PROVE  Reduces(10000 * NetOf(list[i].hedge.asset_class),
                      10000 * NetOf(list[i].hedge.asset_class) + list[i].direction * list[i].reduction)
  <2> DEFINE h == list[i].hedge
             n == NetOf(h.asset_class)
             part == Magnitude(n) * ratio * h.effectiveness
  <2>1. /\ h \in universe /\ list[i].direction = (IF n > 0 THEN -1 ELSE 1)
        /\ list[i].reduction = part
    BY <1>6, <1>7, <1>11
  <2>2. n \in Int /\ n # 0 /\ h.effectiveness \in 1..99 /\ ratio \in 1..100
    BY <1>2, <1>4, <2>1 DEF ratio
  <2> HIDE DEF n, h
  <2>3. PartOf(part, n)
    BY <2>2, PartIsLess
  <2> HIDE DEF part
  <2>4. Reduces(10000 * n, 10000 * n + list[i].direction * list[i].reduction)
    BY <2>1, <2>2, <2>3, RestKeepsSide
  <2>5. QED BY <2>4 DEF n, h
<1>13. ASSUME NEW i \in DOMAIN list, NEW j \in 1..(i - 1)
       PROVE  list[j].hedge.effectiveness * list[i].hedge.cost
                  >= list[i].hedge.effectiveness * list[j].hedge.cost
  <2>1. i \in 1..most /\ j \in 1..most /\ i \in 1..Len(q) /\ j \in 1..Len(q) /\ j < i
    BY <1>9, <1>10, <1>11
  <2>2. <<q[j], q[i]>> \in HigherScore(rows) /\ q[i] \in rows /\ q[j] \in rows
    BY <1>9, <1>11, <2>1
  <2>3. q[j].hedge.effectiveness * q[i].hedge.cost >= q[i].hedge.effectiveness * q[j].hedge.cost
    BY <1>7, <2>2, ScoresOrder
  <2>4. QED BY <1>11, <2>1, <2>3
<1>14. QED BY <1>12, <1>13 DEF Offsets, NetOf, list

\* An answer is what the handler returns for one of the calls.
LEMMA AnswerOfCall ==
    ASSUME NEW tool, tool # "none", [BenchNext]_benchVars, Answered(tool)
    PROVE  \E c \in ToolCalls : /\ c.spec.name = tool /\ hand'.arguments = c.arguments
                                /\ hand'.answer = Handle(tool, twin, c.arguments)
<1>1. hand' # hand /\ hand' # Nothing
  BY DEF Answered, Nothing
<1>2. PICK c \in ToolCalls, role \in Callers : invoke(c, role)
  BY <1>1 DEF BenchNext, benchVars, Ingest, Upsert, PutAway, WriteOutbox, MarkClosed, Record, Fail,
              NewProcess, Govern
<1>3. Consult(c)
  BY <1>1, <1>2 DEF invoke, Begin
<1>4. hand' = [tool |-> c.spec.name, arguments |-> c.arguments,
               answer |-> Handle(c.spec.name, twin, c.arguments)]
  BY <1>3 DEF Consult
<1> DEFINE answer == Handle(c.spec.name, twin, c.arguments)
<1> HIDE DEF answer
<1>5. hand'.tool = c.spec.name /\ hand'.arguments = c.arguments /\ hand'.answer = answer
  BY <1>4 DEF answer
<1>6. c.spec.name = tool
  BY <1>5 DEF Answered
<1>7. QED BY <1>5, <1>6 DEF answer

LEMMA MeasuredHolds == AmountsAreNumbers /\ BenchSpec => []MeasuredInv
<1>1. AmountsAreNumbers /\ BenchInit => MeasuredInv
  BY BenchRulesInit DEF BenchInit, AmountsAreNumbers, MeasuredInv, BenchTypes
<1>2. AmountsAreNumbers => []AmountsAreNumbers
  <2>1. AmountsAreNumbers => AmountsAreNumbers'
    BY DEF AmountsAreNumbers, Measured, IsTwin, Numeric, Get, Refs
  <2>2. QED BY <2>1, PTL
<1>3. AmountsAreNumbers /\ MeasuredInv /\ [BenchNext]_benchVars => MeasuredInv'
  BY MeasuredStep
<1>4. QED BY <1>1, <1>2, <1>3, PTL DEF BenchSpec

\* treasury.py propose_funding_plan: whatever the ladders, the amounts, the buffer
\* and the horizon, a plan raises its target from sources that lend for so long,
\* within their capacities and the cheapest first, and one that covers a shortfall
\* read from a ladder leaves no day of it overdrawn.
THEOREM FundingPlansCover == AmountsAreNumbers /\ BenchSpec => PlansCover
<1>1. ASSUME AmountsAreNumbers, MeasuredInv, [BenchNext]_benchVars, Answered("propose_funding_plan")
      PROVE  Covers(twin, hand'.arguments, hand'.answer.data)
  <2>1. PICK c \in ToolCalls :
            /\ c.spec.name = "propose_funding_plan" /\ hand'.arguments = c.arguments
            /\ hand'.answer = Handle("propose_funding_plan", twin, c.arguments)
    BY <1>1, AnswerOfCall
  <2>2. Handle("propose_funding_plan", twin, c.arguments) = propose_funding_plan(twin, c.arguments)
    BY DEF Handle
  <2>3. /\ Get(c.arguments, "horizon_days", 7) \in Nat /\ Get(c.arguments, "buffer_ratio", 0) \in Nat
        /\ "amount" \in DOMAIN c.arguments => c.arguments.amount \in Int
    BY <1>1, <2>1, WorkbenchAssumption DEF AmountsAreNumbers
  <2>4. Covers(twin, c.arguments, propose_funding_plan(twin, c.arguments).data)
    BY <1>1, <2>3, FundingCovers DEF MeasuredInv
  <2>5. QED BY <2>1, <2>2, <2>4
<1> DEFINE Covered ==
        Answered("propose_funding_plan") => Covers(twin, hand'.arguments, hand'.answer.data)
<1>2. AmountsAreNumbers /\ MeasuredInv /\ [BenchNext]_benchVars => [Covered]_hand
  BY <1>1
<1>3. AmountsAreNumbers => []AmountsAreNumbers
  <2>1. AmountsAreNumbers => AmountsAreNumbers'
    BY DEF AmountsAreNumbers, Measured, IsTwin, Numeric, Get, Refs
  <2>2. QED BY <2>1, PTL
<1>4. QED BY <1>2, <1>3, MeasuredHolds, PTL DEF BenchSpec, PlansCover

\* risk.py propose_hedge_candidates: whatever positions there are and whatever they
\* are labelled with, a candidate makes the exposure of its class smaller and does
\* not turn it over, and no candidate buys more for its cost than one before it.
THEOREM HedgesMakeSmaller == AmountsAreNumbers /\ BenchSpec => HedgesOffset
<1>1. ASSUME AmountsAreNumbers, MeasuredInv, [BenchNext]_benchVars, Answered("propose_hedge_candidates")
      PROVE  Offsets(twin, hand'.answer.data.candidates)
  <2>1. PICK c \in ToolCalls :
            /\ c.spec.name = "propose_hedge_candidates" /\ hand'.arguments = c.arguments
            /\ hand'.answer = Handle("propose_hedge_candidates", twin, c.arguments)
    BY <1>1, AnswerOfCall
  <2>2. Handle("propose_hedge_candidates", twin, c.arguments) = propose_hedge_candidates(twin, c.arguments)
    BY DEF Handle
  <2>3. Get(c.arguments, "hedge_ratio", 80) \in 1..100 /\ Get(c.arguments, "max_candidates", 5) \in Nat
    BY <1>1, <2>1 DEF AmountsAreNumbers
  <2>4. Offsets(twin, propose_hedge_candidates(twin, c.arguments).data.candidates)
    BY <1>1, <2>3, HedgesOfTwin DEF MeasuredInv
  <2>5. QED BY <2>1, <2>2, <2>4
<1> DEFINE Offset == Answered("propose_hedge_candidates") => Offsets(twin, hand'.answer.data.candidates)
<1>2. AmountsAreNumbers /\ MeasuredInv /\ [BenchNext]_benchVars => [Offset]_hand
  BY <1>1
<1>3. AmountsAreNumbers => []AmountsAreNumbers
  <2>1. AmountsAreNumbers => AmountsAreNumbers'
    BY DEF AmountsAreNumbers, Measured, IsTwin, Numeric, Get, Refs
  <2>2. QED BY <2>1, PTL
<1>4. QED BY <1>2, <1>3, MeasuredHolds, PTL DEF BenchSpec, HedgesOffset

=============================================================================
