-------------------------------- MODULE MCFeeds --------------------------------
(***************************************************************************)
(* Model checking of Feeds: events of every kind, whole and with each of    *)
(* the defects a handler meets, and one batch of each source.               *)
(***************************************************************************)
EXTENDS Feeds

MCNames == <<"acme", "acme co", "zenith">>

\* "acme co" is like both others, which are unlike each other.
MCScore(a, b) ==
    IF a = b THEN 3 ELSE IF {a, b} = {"acme", "acme co"} THEN 2
    ELSE IF {a, b} = {"acme co", "zenith"} THEN 1 ELSE 0

In(episode, kind, refs, payload) ==
    [kind |-> kind, refs |-> refs, payload |-> payload, episode |-> episode]
Event(kind, refs, payload) == In("default", kind, refs, payload)

C(id, name) == Event("customer", <<<<"customer", id>>>>, [name |-> name])

MCDemo == <<In("demo", "account", <<<<"account", "a1">>>>, [customer_id |-> "c1", balance |-> Number]),
            In("demo", "customer", <<<<"customer", "c3">>>>, [name |-> "zenith"])>>

MCEpisodes == {"default", "demo", "ingest:accounts", "ingest:trades", "edgar:1"}

MCEvents == {
    C("c1", "acme"), C("c2", "acme co"), C("c3", "acme"),
    Event("transfer", <<>>, [from_account_id |-> "a1", to_account_id |-> "a2", amount |-> Number]),
    Event("transfer", <<>>, [from_account_id |-> "a1", to_account_id |-> "a2"]),
    Event("account", <<<<"account", "a2">>>>, [customer_id |-> "acme", balance |-> Text]),
    Event("account", <<<<"account", "a2">>>>, [customer_id |-> "c2"]),
    Event("trade", <<<<"trade", "t1">>, <<"account", "a1">>, <<"instrument", "i1">>>>,
          [quantity |-> Number]),
    Event("case", <<<<"case", "k1">>, <<"customer", "c2">>>>, [narrative |-> Text]),
    Event("alert", <<<<"alert", "l1">>, <<"account", "a1">>>>, [score |-> Text]),
    Event("policy", <<<<"policy", "p1">>>>, [body |-> Blank]),
    Event("market", <<>>, [symbol |-> "i1", mid |-> Blank, price |-> Number]),
    Event("document", <<<<"customer", "c2">>>>, [document_id |-> "d1", body |-> Text]),
    Event("login", <<<<"customer", "c9">>>>, [name |-> "acme"])}

MCJobs == {
    [source |-> "csv", mapping |-> Mapping({"account_id", "balance", "ts", "date"}, "account", "account"),
     episode |-> "ingest:accounts",
     strict |-> FALSE, limit |-> 1, forms |-> {},
     rows |-> <<[account_id |-> "007", balance |-> Number, ts |-> Text, date |-> Blank],
                [account_id |-> "007", balance |-> Number, ts |-> Number, date |-> Blank],
                [account_id |-> Blank, balance |-> Number, ts |-> Number, date |-> Blank]>>],
    [source |-> "csv", mapping |-> Mapping({"id", "quantity", "time"}, "trade", "trade"),
     episode |-> "ingest:trades", strict |-> TRUE, limit |-> 9, forms |-> {},
     rows |-> <<[id |-> "t1", quantity |-> Number, time |-> Number],
                [id |-> "t2", quantity |-> Number, time |-> Text]>>],
    [source |-> "edgar", mapping |-> Mapping({}, "filing", "document"),
     episode |-> "edgar:1", strict |-> TRUE, limit |-> 1, forms |-> {"10-K"},
     rows |-> <<[form |-> "8-K", cik |-> "1", tickers |-> <<>>, accession |-> "d2"],
                [form |-> "10-K", cik |-> "1", tickers |-> <<"i1">>, accession |-> "d1"],
                [form |-> "10-K", cik |-> "1", tickers |-> <<"i1">>, accession |-> "d3"]>>],
    [source |-> "market", mapping |-> Mapping({}, "market", "market"),
     episode |-> "default", strict |-> TRUE, limit |-> 9, forms |-> {},
     rows |-> <<[instrument |-> "i1"], [instrument |-> "i2"]>>]}

================================================================================
