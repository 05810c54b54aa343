------------------------------ MODULE SourceCache ------------------------------
(***************************************************************************)
(* The cache of news items (runtime/ingestion/source_item_store.py) and    *)
(* what is made of it: which items are stored, which are read, and whether *)
(* what is read is fresh enough to answer from (rss_adequacy.py,           *)
(* insufficient_coverage.py).                                              *)
(*                                                                         *)
(* An item's id is a hash of its source, link, title and date of           *)
(* publication, so an entry of a feed that stays as it is keeps its id and *)
(* is stored once, with the time at which it was first fetched.            *)
(***************************************************************************)
EXTENDS Naturals, FiniteSets, Sequences, SequencesExt

CONSTANTS
    Entries,        \* the entries the feeds may carry, by their ids (Nat)
    EntrySource(_), \* the source of an entry
    EntryTopic(_),  \* the topic its title is about
    EntryDate(_),   \* when it was published, 0 when that cannot be parsed
    MaxItemAge, MaxFetchAge, MinFresh, MinSources, MaxItems,
    MaxLatest       \* how many items are looked at without a topic

Item == [id : Entries, fetched : Nat]

\* Items are compared by their publication date, or else by their fetch.
SortTime(item) == IF EntryDate(item.id) # 0 THEN EntryDate(item.id) ELSE item.fetched

Later(a, b) ==
    \/ SortTime(a) > SortTime(b)
    \/ SortTime(a) = SortTime(b) /\ a.id > b.id

\* append_source_items: what an append would add to the ids it has read, in an
\* order of its own.
NewItems(ids, known, now) ==
    [i \in 1 .. Cardinality(ids \ known) |->
        [id |-> SetToSeq(ids \ known)[i], fetched |-> now]]

StoredIds(store) == {store[i].id : i \in DOMAIN store}

DedupeItemsNot(store) == {store[i] : i \in DOMAIN store}

\* Of the copies of one item the last in the file wins, unless an earlier
\* one has a later time.
DedupeItems(store) ==
    {store[i] : i \in {k \in DOMAIN store :
        \A j \in DOMAIN store : store[j].id = store[k].id /\ j # k =>
            \/ SortTime(store[j]) < SortTime(store[k])
            \/ SortTime(store[j]) = SortTime(store[k]) /\ j < k}}

\* The n latest of a set of items.
Latest(items, n) ==
    {x \in items : Cardinality({y \in items : Later(y, x)}) < n}

\* Without a topic only the latest items are candidates.
Candidates(store, topic) ==
    IF topic = "" THEN Latest(DedupeItems(store), MaxLatest)
    ELSE {x \in DedupeItems(store) : EntryTopic(x.id) = topic}

\* A date in the future counts as current.
WithinAge(t, now, age) == t + age >= now

\* evaluate_source_item_freshness
EvaluateFreshness(items, topic, now) ==
    LET valid   == {x \in items : EntryDate(x.id) # 0}
        fetched == {x \in valid : WithinAge(x.fetched, now, MaxFetchAge)}
        current == {x \in fetched : WithinAge(EntryDate(x.id), now, MaxItemAge)}
        fresh   == Latest(current, MaxItems)
        sources == {EntrySource(x.id) : x \in fresh}
        status  ==
            IF fetched = {} /\ items # {} THEN "fetch_health_failed"
            ELSE IF Cardinality(fresh) < MinFresh
                THEN IF topic # "" THEN "insufficient_topic_coverage"
                     ELSE IF items # {} THEN "stale_items" ELSE "stale_sources"
            ELSE IF Cardinality(sources) < MinSources THEN "insufficient_source_diversity"
            ELSE "adequate"
    IN [status |-> status, fresh |-> fresh]

\* materialize_rss_coverage_adequacy
Adequacy(evaluation) ==
    IF evaluation.status = "adequate"
        THEN [outcome |-> "adequate", reason |-> ""]
        ELSE [outcome |-> "inadequate", reason |-> evaluation.status]

=============================================================================
