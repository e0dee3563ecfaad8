--------------------------------- MODULE Feeds ---------------------------------
(***************************************************************************)
(* The sources of the twin's events, composed with it: the webhook's queue  *)
(* with the server's pump or a QueueConnector behind it (tools/server.py,   *)
(* connectors/webhook.py), and the batch jobs of connectors/ingest.py over  *)
(* CSV rows, EDGAR filings and synthetic ticks.                             *)
(*                                                                          *)
(* ingest never awaits, so taking an event from the queue and ingesting it  *)
(* is one step.  A batch job runs in a process of its own without a queue.  *)
(***************************************************************************)
EXTENDS Twin

CONSTANTS
    Events,    \* what is posted
    QueueSize,
    Jobs       \* the batches: source, episode, rows, mapping, strict, limit, forms

STOP == [kind |-> "stop"]
Junk == [kind |-> "junk"]    \* a dictionary that is no envelope

\* A batch under way: rows, columns and a filing's tickers come in an order.
IsBatch(j) ==
    /\ j.source \in {"csv", "edgar", "market"} /\ j.episode \in Episodes
    /\ j.rows \in Seq(Range(j.rows)) /\ j.mapping.refs \in Seq(Range(j.mapping.refs))
    /\ j.source = "edgar" => \A row \in Range(j.rows) : row.tickers \in Seq(Range(row.tickers))

\* What is posted is an envelope without an episode, and STOP an object of the
\* connector's own.
ASSUME FeedsAssumption ==
    /\ "default" \in Episodes
    /\ \A e \in Events : IsEnvelope(e) /\ e.episode = "default" /\ e \notin {STOP, Junk}
    /\ \A j \in Jobs : /\ DOMAIN j = {"source", "episode", "rows", "mapping", "strict", "limit", "forms"}
                       /\ IsBatch(j) /\ j.limit \in Nat

VARIABLES
    queue,     \* the asyncio.Queue
    consumer,  \* who takes from it: the server's pump, a stream, or nobody; or
               \* "batch", in a process without a queue
    cached,    \* jobs whose EDGAR response is in the cache
    job,       \* the batch under way
    accepted   \* history: events accepted since the process began

feedVars == <<twinVars, queue, consumer, cached, job, accepted>>

NoJob == [source |-> "none"]

--------------------------------------------------------------------------------
(* The webhook *)

\* ingest_event: a full queue answers 503, nothing is accepted and the producer
\* is to retry.  Junk is put where a stream takes it.  (Bound: no more is posted
\* than the log may record.)
Post(e) ==
    /\ consumer # "batch" /\ Len(queue) < QueueSize
    /\ e = Junk => consumer = "stream"
    /\ EventsRecorded + Len(queue) < MaxLog
    /\ queue' = Append(queue, e)
    /\ accepted' = IF e = Junk THEN accepted ELSE Append(accepted, e)
    /\ UNCHANGED <<twinVars, consumer, cached, job>>

\* QueueConnector.close
Close ==
    /\ consumer = "stream" /\ Len(queue) < QueueSize
    /\ queue' = Append(queue, STOP)
    /\ UNCHANGED <<twinVars, consumer, cached, job, accepted>>

\* _pump and QueueConnector.stream with pump: a refused event ends neither;
\* junk is skipped; STOP ends the stream and leaves what is behind it.
Take ==
    /\ queue # <<>> /\ consumer \in {"server", "stream"}
    /\ queue' = Tail(queue)
    /\ IF Head(queue) \in {STOP, Junk}
       THEN UNCHANGED twinVars
       ELSE Ingest(Head(queue)) \/ IngestUnwritten(Head(queue))
    /\ consumer' = IF Head(queue) = STOP THEN "nobody" ELSE consumer
    /\ UNCHANGED <<cached, job, accepted>>

Bug_Ends ==
    /\ consumer = "stream"
    /\ consumer' = "nobody"
    /\ queue' = SubSeq(queue, 2, Len(queue))
    /\ UNCHANGED <<twinVars, cached, job, accepted>>

\* A stream ends when idle, or at max_events: what waits in the queue stays.
Ends ==
    /\ consumer = "stream"
    /\ consumer' = "nobody"
    /\ UNCHANGED <<twinVars, queue, cached, job, accepted>>

\* The server starts with a queue of its own.
Listen(how) ==
    /\ consumer = "nobody"
    /\ how = "server" => queue = <<>>
    /\ consumer' = how
    /\ UNCHANGED <<twinVars, queue, cached, job, accepted>>

\* _stop_pump and the end of the process: the queue is in memory.
Restart ==
    /\ Build
    /\ queue' = <<>> /\ consumer' \in {"nobody", "batch"} /\ job' = NoJob
    /\ accepted' = <<>>
    /\ UNCHANGED cached

--------------------------------------------------------------------------------
(* The batches *)

\* A sequence without the elements of a set.
Without(q, S) ==
    LET kept[i \in 0..Len(q)] ==
            IF i = 0 THEN <<>> ELSE IF q[i] \in S THEN kept[i - 1] ELSE Append(kept[i - 1], q[i])
    IN kept[Len(q)]

Filled(row, c) == c \in DOMAIN row /\ row[c] # Blank

\* coerce_value: a number written with leading zeros loses them.
Coerced(cell) == IF cell = "007" THEN "7" ELSE cell

\* _csv_mapping: the columns inferred from the header, of each kind the first
\* of the candidates.
Mapping(header, kind, type) ==
    LET First(candidates) ==
            LET i == SelectInSeq(candidates, LAMBDA c : c \in header)
            IN IF i = 0 THEN Missing ELSE candidates[i]
        id == First(<<type \o "_id", type, "id", "entity_id">>)
    IN [kind |-> kind, refs |-> IF id = Missing THEN <<>> ELSE <<<<type, id>>>>,
        ts |-> First(<<"occurred_at", "timestamp", "ts", "event_time", "datetime", "date", "time">>)]

\* row_to_envelope: the entities of the cells that are filled, the payload of
\* the columns; a row whose time is missing or unreadable fails.
RowEnvelope(mapping, row) ==
    IF mapping.ts # Missing /\ (~Filled(row, mapping.ts) \/ row[mapping.ts] = Text) THEN Junk
    ELSE LET columns == Without(mapping.refs, {m \in Range(mapping.refs) : ~Filled(row, m[2])}) IN
         [kind |-> mapping.kind,
          refs |-> [i \in DOMAIN columns |-> <<columns[i][1], row[columns[i][2]]>>],
          payload |-> [c \in DOMAIN row \ {mapping.ts} |-> Coerced(row[c])]]

\* EdgarConnector._filing_envelope
FilingEnvelope(filing) ==
    [kind |-> "filing",
     refs |-> <<<<"legal_entity", filing.cik>>>> \o [i \in DOMAIN filing.tickers |-> <<"instrument", filing.tickers[i]>>],
     payload |-> [doc_id |-> filing.accession, text |-> Text, title |-> Text]]

\* SyntheticMarketConnector.stream
TickEnvelope(tick) ==
    [kind |-> "market", refs |-> <<<<"instrument", tick.instrument>>>>,
     payload |-> [instrument |-> tick.instrument, mid |-> Number]]

\* What the stream yields for a row, with the episode stamped on it.
EnvelopeOf(j, row) ==
    LET e == CASE j.source = "csv" -> RowEnvelope(j.mapping, row)
               [] j.source = "edgar" -> FilingEnvelope(row)
               [] j.source = "market" -> TickEnvelope(row)
    IN IF e = Junk THEN Junk
       ELSE [kind |-> e.kind, refs |-> e.refs, payload |-> e.payload, episode |-> j.episode]

\* EdgarConnector.stream: the filings of the wanted forms.
Wanted(j) ==
    IF j.source = "edgar" THEN Without(j.rows, {f \in Range(j.rows) : f.form \notin j.forms}) ELSE j.rows

\* EdgarConnector.fetch: from the cache, or from the network into the cache, or
\* not at all.
fetch(j, online) ==
    /\ online \/ j \in cached
    /\ cached' = cached \cup {j}

\* ingest_path, ingest_edgar
Start(j, online) ==
    /\ job = NoJob /\ consumer = "batch"
    /\ IF j.source = "edgar" THEN fetch(j, online) ELSE UNCHANGED cached
    /\ job' = [j EXCEPT !.rows = Wanted(j)]
    /\ UNCHANGED <<twinVars, queue, consumer, accepted>>

\* pump: a row that gives no envelope is skipped, or ends the job if strict; a
\* refused envelope is only counted; the limit is on what was emitted.
Feed ==
    /\ job # NoJob /\ job.rows # <<>> /\ job.limit > 0
    /\ LET e == EnvelopeOf(job, Head(job.rows)) IN
       \/ /\ e = Junk
          /\ job' = IF job.strict THEN NoJob ELSE [job EXCEPT !.rows = Tail(@)]
          /\ UNCHANGED twinVars
       \/ /\ e # Junk
          /\ job' = [job EXCEPT !.rows = Tail(@), !.limit = @ - 1]
          /\ Ingest(e) \/ IngestUnwritten(e)
    /\ UNCHANGED <<queue, consumer, cached, accepted>>

Finish ==
    /\ job # NoJob
    /\ job.rows = <<>> \/ job.limit = 0
    /\ job' = NoJob
    /\ UNCHANGED <<twinVars, queue, consumer, cached, accepted>>

--------------------------------------------------------------------------------

FeedsInit ==
    /\ TwinInit
    /\ queue = <<>> /\ consumer \in {"nobody", "batch"} /\ cached = {} /\ job = NoJob
    /\ accepted = <<>>

FeedsNext ==
    \/ \E e \in Events \cup {Junk} : Post(e)
    \/ Close \/ Take \/ Ends \/ Restart
    \/ \E how \in {"server", "stream"} : Listen(how)
    \/ \E j \in Jobs, online \in BOOLEAN : Start(j, online)
    \/ Feed \/ Finish

FeedsSpec == FeedsInit /\ [][FeedsNext]_feedVars

--------------------------------------------------------------------------------

\* The default episode, from where this process began.
Since == SubSeq(log["default"], base["default"] + 1, Len(log["default"]))

\* Every event that was accepted is recorded or still in the queue, once and in
\* order, whoever consumes, idles, stops or is refused by the twin; what a
\* restart loses was in the queue (webhook.py: immediate backpressure instead of
\* silent loss).  A post that is answered 503 leaves nothing.
AcceptedIsKept ==
    consumer # "batch" => accepted = Since \o Without(queue, {STOP, Junk})

================================================================================
