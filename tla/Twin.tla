--------------------------------- MODULE Twin ---------------------------------
(***************************************************************************)
(* fintwinos/twin_core: TwinIngestor.ingest records an envelope in the      *)
(* replay log, maps its entities to canonical ones (EntityResolver), lets   *)
(* the handler of its kind write to the graph, the time series and the      *)
(* documents, and audits the outcome.  The log has a list for each episode. *)
(* A process starts with empty stores and the episodes of its directory     *)
(* (build_runtime, JsonlReplayEngine).                                     *)
(*                                                                          *)
(* A handler is the sequence of its steps: writes to a store, and checks    *)
(* that stop it.  What it wrote before a check stops it stays written.      *)
(* A payload maps its fields to identifiers, names, Number, Text or Blank   *)
(* (None); the attributes of nodes and edges are left out, but for the      *)
(* counters of transfers.                                                   *)
(***************************************************************************)
EXTENDS Naturals, FiniteSets, SequencesExt

CONSTANTS
    Names,      \* normalised names, a sequence in their order
    Score(_, _),\* name_similarity
    Threshold,
    Episodes,   \* the episodes envelopes are recorded in
    Demo,       \* the demo book: a sequence of envelopes
    MaxLog      \* bound on the envelopes recorded, the demo book aside

DemoEpisode == "demo"
NoName == "no name"
None == <<>>        \* no entity
Missing == "none"   \* a field without a value
Blank == "None"     \* str(None)
Number == "number"
Text == "text"

\* EventEnvelope: entities are a list; without an episode it is recorded in the
\* default one.
IsEnvelope(e) ==
    /\ e = [kind |-> e.kind, refs |-> e.refs, payload |-> e.payload, episode |-> e.episode]
    /\ e.refs \in Seq(Range(e.refs)) /\ None \notin Range(e.refs)
    /\ e.episode \in Episodes

\* name_similarity is a number, in percent here.
ASSUME TwinAssumption ==
    /\ Names \in Seq(Range(Names))
    /\ \A a \in Range(Names) \cup {NoName}, b \in Range(Names) : Score(a, b) \in Nat
    /\ DemoEpisode \in Episodes
    /\ Demo \in Seq(Range(Demo)) /\ \A e \in Range(Demo) : IsEnvelope(e) /\ e.episode = DemoEpisode

VARIABLES
    twin,      \* what ingestion produced: facts, points, resolver, audit
    log,       \* JsonlReplayEngine._episodes
    disk,      \* the episodes' files
    base,      \* history: how long each episode was when this process was built
    restarted, \* history: is this the second process? (Bound: there are two.)
    spoiled,   \* history: was an envelope recorded that could not be written?
    settled    \* history: envelopes ingested since the resolver last changed

twinVars == <<twin, log, disk, base, restarted, spoiled, settled>>

--------------------------------------------------------------------------------
(* The resolver *)

EmptyResolver == [known |-> {}, alias |-> <<>>, names |-> <<>>]

\* setdefault: a key that has a value keeps it.
Default(f, x, y) == [z \in DOMAIN f \cup {x} |-> IF z \in DOMAIN f THEN f[z] ELSE y]

\* register: the first to use a name keeps it.
Registered(r, ref, name) ==
    [r EXCEPT !.known = @ \cup {ref},
              !.names = IF name = NoName THEN @ ELSE Default(@, <<ref[1], name>>, ref)]

\* resolve_name: the entity of the most similar name, the first one if several
\* are; an equal name is the most similar.
ByName(r, type, name) ==
    LET alike == {i \in DOMAIN Names : /\ <<type, Names[i]>> \in DOMAIN r.names
                                       /\ Score(name, Names[i]) >= Threshold}
        best == CHOOSE i \in alike : \A j \in alike :
                    \/ Score(name, Names[i]) > Score(name, Names[j])
                    \/ Score(name, Names[i]) = Score(name, Names[j]) /\ i <= j
    IN IF alike = {} THEN None ELSE r.names[<<type, Names[best]>>]

\* resolve: an identifier, an alias, or else a name.
Resolve(r, type, value) ==
    IF <<type, value>> \in r.known THEN <<type, value>>
    ELSE IF <<type, value>> \in DOMAIN r.alias THEN r.alias[<<type, value>>]
    ELSE ByName(r, type, value)

Bug_Canonicalise(r, ref, name) ==
    LET same == IF name = NoName THEN None ELSE ByName(r, ref[1], name) IN
    IF same # None THEN [r |-> [r EXCEPT !.alias = [z \in DOMAIN @ \cup {ref} |-> IF z = ref THEN same ELSE @[z]]], ref |-> same]
    ELSE IF ref \in r.known THEN [r |-> Registered(r, ref, name), ref |-> ref]
    ELSE IF ref \in DOMAIN r.alias THEN [r |-> r, ref |-> r.alias[ref]]
    ELSE [r |-> Registered(r, ref, name), ref |-> ref]

\* canonicalise: a known entity may take a name, a new one whose name is like a
\* known one's becomes its alias, and otherwise is known from now on.
Canonicalise(r, ref, name) ==
    LET same == IF name = NoName THEN None ELSE ByName(r, ref[1], name) IN
    IF ref \in r.known THEN [r |-> Registered(r, ref, name), ref |-> ref]
    ELSE IF ref \in DOMAIN r.alias THEN [r |-> r, ref |-> r.alias[ref]]
    ELSE IF same # None THEN [r |-> [r EXCEPT !.alias = Default(@, ref, same)], ref |-> same]
    ELSE [r |-> Registered(r, ref, name), ref |-> ref]

\* The type a kind names: the first segment of the kind.
Prefix(kind) == IF kind = "transfer" THEN "account" ELSE IF kind = "instrument" THEN "market" ELSE kind

Field(e, f) == IF f \in DOMAIN e.payload THEN e.payload[f] ELSE Missing
NameIn(e) == IF Field(e, "name") \in Range(Names) THEN Field(e, "name") ELSE NoName

\* canonicalise for one of the entities: the payload's name belongs to those of
\* the type the kind names.
Canonical(r, e, ref) == Canonicalise(r, ref, IF ref[1] = Prefix(e.kind) THEN NameIn(e) ELSE NoName)

\* _resolve_entities
ResolveEntities(r, e) ==
    LET done[i \in 0..Len(e.refs)] ==
            IF i = 0 THEN [r |-> r, refs |-> <<>>]
            ELSE LET c == Canonical(done[i - 1].r, e, e.refs[i])
                 IN [r |-> c.r, refs |-> Append(done[i - 1].refs, c.ref)]
    IN done[Len(e.refs)]

--------------------------------------------------------------------------------
(* The steps of a handler *)

Node(ref) == <<[put |-> {<<"node", ref>>}, add |-> <<>>]>>
\* An edge creates its ends when they are missing.
Edge(a, kind, b) == <<[put |-> {<<"node", a>>, <<"node", b>>, <<"edge", a, kind, b>>}, add |-> <<>>]>>
Doc(id) == <<[put |-> {<<"doc", id>>}, add |-> <<>>]>>
Point(series) == <<[put |-> {}, add |-> <<series>>]>>
Stop(how) == <<[stop |-> how]>>
When(condition, steps) == IF condition THEN steps ELSE <<>>

\* _require, before anything is written.
Require(found, steps) == IF found THEN steps ELSE Stop("rejected")

\* float(payload[f]): only a missing field is turned into a rejection.
ReadNumber(e, f) ==
    When(f \notin DOMAIN e.payload, Stop("rejected")) \o When(Field(e, f) # Number, Stop("raised"))

FirstOf(found, otherwise) == IF found = None THEN otherwise ELSE found

Bug_FromPayload(r, type, e, f) ==
    IF Field(e, f) = Missing THEN None ELSE <<type, Field(e, f)>>

\* _account_from_payload, and what _entity does with a payload's identifier.
FromPayload(r, type, e, f) ==
    IF Field(e, f) = Missing THEN None
    ELSE FirstOf(Resolve(r, type, Field(e, f)), <<type, Field(e, f)>>)

\* _entity: the first entity of the type, or else the payload's.
Entity(r, type, e, f) ==
    LET i == SelectInSeq(e.refs, LAMBDA ref : ref[1] = type) IN
    IF i # 0 THEN e.refs[i] ELSE FromPayload(r, type, e, f)

\* Edges to all other entities of the envelope.
Links(a, kind, e) ==
    LET others == Range(e.refs) \ {a} IN
    When(others # {}, <<[put |-> {<<"node", ref>> : ref \in others \cup {a}}
                                 \cup {<<"edge", a, kind, ref>> : ref \in others}, add |-> <<>>]>>)

--------------------------------------------------------------------------------
(* The handlers; r is the resolver, e the envelope with canonical entities *)

OnCustomer(r, e) ==
    LET c == Entity(r, "customer", e, "customer_id") IN Require(c # None, Node(c))

OnTransfer(r, e) ==
    LET src == FromPayload(r, "account", e, "from_account_id")
        dst == FromPayload(r, "account", e, "to_account_id") IN
    Require(None \notin {src, dst},
        ReadNumber(e, "amount") \o Edge(src, "transfers_to", dst)
        \o Point(<<"count", src, dst>>) \o Point(<<"transfers", src>>))

OnAccount(r, e) ==
    LET a == Entity(r, "account", e, "account_id")
        owner == Entity(r, "customer", e, "customer_id") IN
    Require(a # None,
        Node(a) \o When(owner # None, Edge(owner, "owns", a))
        \o When("balance" \in DOMAIN e.payload, ReadNumber(e, "balance") \o Point(<<"balance", a>>)))

OnTrade(r, e) ==
    LET t == Entity(r, "trade", e, "trade_id")
        a == Entity(r, "account", e, "account_id")
        i == Entity(r, "instrument", e, "instrument_id") IN
    Require(None \notin {t, a, i},
        Node(t) \o Edge(a, "placed", t) \o Edge(t, "on", i)
        \o ReadNumber(e, "quantity") \o ReadNumber(e, "price") \o Point(<<"trade_notional", i>>))

OnPosition(r, e) ==
    LET a == Entity(r, "account", e, "account_id")
        i == Entity(r, "instrument", e, "instrument_id") IN
    Require(None \notin {a, i},
        ReadNumber(e, "quantity") \o ReadNumber(e, "market_value")
        \o Edge(a, "holds", i) \o Point(<<"position", a, i>>))

OnCase(r, e) ==
    LET c == Entity(r, "case", e, "case_id") IN
    Require(c # None,
        Node(c) \o Links(c, "involves", e) \o When(Field(e, "narrative") \notin {Missing, Blank}, Doc(c)))

OnAlert(r, e) ==
    LET a == Entity(r, "alert", e, "alert_id") IN
    Require(a # None,
        Node(a) \o Links(a, "concerns", e)
        \o When("score" \in DOMAIN e.payload, ReadNumber(e, "score")) \o Point(<<"alerts">>))

OnPolicy(r, e) ==
    LET p == Entity(r, "policy", e, "policy_id") IN
    Require(p # None /\ Field(e, "body") \notin {Missing, Blank}, Doc(p) \o Node(p))

\* The first of the fields that has a value.
FirstGiven(e, fields) ==
    LET i == SelectInSeq(fields, LAMBDA f : Field(e, f) \notin {Missing, Blank})
    IN IF i = 0 THEN Missing ELSE fields[i]

OnMarket(r, e) ==
    LET i == Entity(r, "instrument", e, "instrument_id")
        key == FirstGiven(e, <<"series_key", "instrument_id", "symbol">>)
        value == FirstGiven(e, <<"value", "mid", "price">>) IN
    IF e.kind = "instrument" THEN Require(i # None, Node(i))
    ELSE Require(Missing \notin {key, value}, ReadNumber(e, value) \o Point(<<"price", Field(e, key)>>))

OnDocument(r, e) ==
    LET d == Entity(r, "document", e, IF Field(e, "doc_id") # Missing THEN "doc_id" ELSE "document_id") IN
    Require(d # None /\ FirstGiven(e, <<"text", "body">>) # Missing,
        Doc(d) \o Node(d) \o Links(d, "references", e))

\* TwinIngestor._routes
Handler(r, e) ==
    CASE e.kind = "customer" -> OnCustomer(r, e)
      [] e.kind = "account" -> OnAccount(r, e)
      [] e.kind = "transfer" -> OnTransfer(r, e)
      [] e.kind = "trade" -> OnTrade(r, e)
      [] e.kind = "position" -> OnPosition(r, e)
      [] e.kind = "case" -> OnCase(r, e)
      [] e.kind = "alert" -> OnAlert(r, e)
      [] e.kind = "policy" -> OnPolicy(r, e)
      [] e.kind \in {"market", "instrument"} -> OnMarket(r, e)
      [] e.kind \in {"document", "filing"} -> OnDocument(r, e)

Routes == {"customer", "account", "transfer", "trade", "position", "case", "alert",
           "policy", "market", "instrument", "document", "filing"}

--------------------------------------------------------------------------------
(* ingest *)

EmptyTwin == [facts |-> {}, points |-> EmptyBag, resolver |-> EmptyResolver, outcomes |-> <<>>]

\* The handler's steps up to the first stop, with what became of the envelope.
Handled(t, steps) ==
    LET stops == {i \in DOMAIN steps : "stop" \in DOMAIN steps[i]}
        taken == {i \in DOMAIN steps : \A j \in stops : i < j}
        added(series) == {i \in taken : steps[i].add = <<series>>}
    IN [t EXCEPT !.facts = @ \cup UNION {steps[i].put : i \in taken},
                 !.points = @ (+) [series \in UNION {Range(steps[i].add) : i \in taken} |-> Cardinality(added(series))],
                 !.outcomes = Append(@, IF stops = {} THEN "ingested" ELSE steps[Min(stops)].stop)]

\* The route of an envelope whose entities are resolved.
Routed(t, e, resolved) ==
    Handled([t EXCEPT !.resolver = resolved.r],
            Handler(resolved.r, [e EXCEPT !.refs = resolved.refs]))

\* ingest, after the envelope was recorded.
Ingested(t, e) ==
    IF e.kind \in Routes THEN Routed(t, e, ResolveEntities(t.resolver, e))
    ELSE [t EXCEPT !.outcomes = Append(@, "unrouted")]

Refused(t) == \E i \in DOMAIN t.outcomes : t.outcomes[i] \in {"rejected", "raised"}

\* Envelopes ingested one after the other; a strict replay stops at the first
\* that is refused.
Replay(t, envelopes, strict) ==
    LET after[i \in 0..Len(envelopes)] ==
            IF i = 0 THEN t
            ELSE IF strict /\ Refused(after[i - 1]) THEN after[i - 1]
            ELSE Ingested(after[i - 1], envelopes[i])
    IN after[Len(envelopes)]

\* A replay whose handler goes on after an envelope that is refused.
Replayed(t, envelopes) == Replay(t, envelopes, FALSE)

EventsRecorded == FoldSet(LAMBDA ep, n : n + Len(log[ep]), 0, Episodes \ {DemoEpisode})

\* record: to the list of the envelope's episode.
Recorded(episodes, e) == [episodes EXCEPT ![e.episode] = Append(@, e)]

\* What an ingestion that leaves the resolver as it was adds to.
Settles(e) == IF twin'.resolver = twin.resolver THEN settled \cup {e} ELSE {e}

Bug_Ingest(e) ==
    /\ EventsRecorded < MaxLog
    /\ twin' = Ingested(twin, e)
    /\ log' = IF Last(twin'.outcomes) = "rejected" THEN log ELSE Recorded(log, e)
    /\ disk' = IF Last(twin'.outcomes) = "rejected" THEN disk ELSE Recorded(disk, e)
    /\ settled' = Settles(e)
    /\ UNCHANGED <<base, restarted, spoiled>>

Ingest(e) ==
    /\ EventsRecorded < MaxLog
    /\ log' = Recorded(log, e) /\ disk' = Recorded(disk, e)
    /\ twin' = Ingested(twin, e)
    /\ settled' = Settles(e)
    /\ UNCHANGED <<base, restarted, spoiled>>

\* record fails to write: the envelope is in memory, and ingest has raised.
IngestUnwritten(e) ==
    /\ EventsRecorded < MaxLog
    /\ log' = Recorded(log, e)
    /\ spoiled' = TRUE
    /\ UNCHANGED <<twin, disk, base, restarted, settled>>

\* build_runtime with the demo book or without: in an empty directory, or in a
\* new process, which reads the episodes and ingests the demo book again.
Book == {<<>>, Demo}
EmptyLog == [ep \in Episodes |-> <<>>]
Opened(episodes, book) == [episodes EXCEPT ![DemoEpisode] = @ \o book]

TwinInit ==
    \E book \in Book :
        /\ log = Opened(EmptyLog, book) /\ disk = log
        /\ twin = Replayed(EmptyTwin, book)
        /\ base = [ep \in Episodes |-> Len(log[ep])]
        /\ restarted = FALSE /\ spoiled = FALSE /\ settled = {}

Build ==
    \E book \in Book :
        /\ ~restarted /\ restarted' = TRUE
        /\ log' = Opened(disk, book) /\ disk' = log'
        /\ twin' = Replayed(EmptyTwin, book)
        /\ base' = [ep \in Episodes |-> Len(log'[ep])]
        /\ spoiled' = FALSE /\ settled' = {}

--------------------------------------------------------------------------------

\* take_snapshot: what of the twin a snapshot shows.
Snapshot(t) == [facts |-> t.facts, points |-> t.points]

Identifiers == {"customer_id", "account_id", "from_account_id", "to_account_id",
    "trade_id", "instrument_id", "case_id", "alert_id", "policy_id", "doc_id", "document_id"}

\* The names an envelope gives its entities.
Claims(e) ==
    {<<ref, NameIn(e)>> : ref \in {ref \in Range(e.refs) :
        e.kind \in Routes /\ ref[1] = Prefix(e.kind) /\ NameIn(e) # NoName}}

\* Nothing recorded is to be taken for something else by its name.
Unmistakable ==
    LET envelopes == UNION {Range(log[ep]) : ep \in Episodes}
        claims == UNION {Claims(e) : e \in envelopes}
    IN /\ \A c, d \in claims : c[1] # d[1] /\ c[1][1] = d[1][1] => Score(c[2], d[2]) < Threshold
       /\ \A e \in envelopes, c \in claims : \A f \in Identifiers \cap DOMAIN e.payload :
              Score(Field(e, f), c[2]) < Threshold

\* As long as no name can be mistaken, a process that found no episodes and
\* wrote all it recorded can be rebuilt: replayed into an empty twin one after
\* the other, in any order and not as they were recorded, its episodes give the
\* graph, series and documents, what refused envelopes wrote included; a
\* replay that stops at a refusal does if there was none (replay.py: episodes
\* rebuild twin state from scratch; verify_replay).  Attributes of nodes and
\* edges, of which the last one written stays, are not compared.
EpisodesRebuild ==
    ~restarted /\ ~spoiled /\ Unmistakable =>
        \A order \in SetToSeqs({ep \in Episodes : log[ep] # <<>>}), strict \in BOOLEAN :
            LET rebuilt[i \in 0..Len(order)] ==
                    IF i = 0 THEN EmptyTwin ELSE Replay(rebuilt[i - 1], log[order[i]], strict)
            IN ~strict \/ ~Refused(twin) => Snapshot(rebuilt[Len(order)]) = Snapshot(twin)

\* What is delivered again before anything new was learnt about identities
\* changes no node, edge, document or identity: an ingestion resolves its
\* entities to what it has just made of them (jsonl_cdc.py delivers at least
\* once, and the ingestor does not know an event again).  The points of a series
\* are appended again.
RedeliveryAddsNoFacts ==
    \A e \in settled : /\ Ingested(twin, e).facts = twin.facts
                       /\ Ingested(twin, e).resolver = twin.resolver

\* No entity gets a node after it is known to be the duplicate of another, nor
\* in the step that finds out, whether an envelope's entities or its payload
\* name it (ingestion.py: stale duplicate ids inside payloads still land on
\* canonical entities).
DuplicatesGetNoNodes ==
    [][Build \/ \A ref \in DOMAIN twin'.resolver.alias :
          <<"node", ref>> \in twin'.facts => <<"node", ref>> \in twin.facts]_twinVars

\* An entity once known stays what it is, and a duplicate stays the duplicate
\* of the same known entity, whatever names come later (resolution.py).
Identity(r, ref) == IF ref \in DOMAIN r.alias THEN r.alias[ref] ELSE ref
Seen(r) == r.known \cup DOMAIN r.alias

IdentityIsStable ==
    [][Build \/ \A ref \in Seen(twin.resolver) :
          /\ Identity(twin'.resolver, ref) = Identity(twin.resolver, ref)
          /\ Identity(twin.resolver, ref) \in twin'.resolver.known]_twinVars

================================================================================
