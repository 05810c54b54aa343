------------------------------- MODULE SearchApi -------------------------------
(***************************************************************************)
(* The older search adapter (runtime/adapters/search_api.py): when it      *)
(* calls and what it makes of the payload of its provider; and the         *)
(* artifact a caller makes of that (runtime/artifacts/                     *)
(* search_api_result.py), which is checked before it is taken apart into   *)
(* the source items of a summary.                                          *)
(*                                                                         *)
(* An item of a payload is [object, id, title, url]: whether it is an      *)
(* object and has a title, the id it comes with or "", and <<>> or         *)
(* <<[page, web]>>, the page and whether its address is one of the web.    *)
(***************************************************************************)
EXTENDS Integers, Sequences, SequencesExt

-----------------------------------------------------------------------------
(* The adapter.                                                            *)

\* Why no provider is called, "" if it is: the first reason there is.
SearchRefused(config, switchAllowed, env) ==
    CASE config.dry                                       -> "dry_run_no_live_call"
      [] ~config.dry /\ ~config.live                      -> "live_call_not_allowed"
      [] ~config.dry /\ config.live /\ ~switchAllowed     -> "runtime_governance_blocked"
      [] OTHER ->
            IF ~config.credential THEN "missing_credential_config"
            ELSE IF ~env.key THEN "missing_credentials"
            ELSE IF ~config.invoker THEN "provider_invoker_not_configured"
            ELSE ""

ClosedResult(reason) ==
    [performed |-> FALSE, dry |-> reason = "dry_run_no_live_call", reason |-> reason,
     results |-> <<>>, refs |-> <<>>, rejected |-> 0]

HasSource(item) == item.object /\ item.title /\ item.url # <<>>

\* An item without an id is known by its place.
ResultId(item, place) ==
    IF item.id = "" THEN "tavily-result-" \o ToString(place) ELSE item.id

\* What the items say that have a source, however many were asked for; a
\* payload that is no object closes the result as if nothing had been called.
ResultFromPayload(payload) ==
    LET kept == SelectSeq([i \in DOMAIN payload.items |-> i],
                          LAMBDA i : HasSource(payload.items[i]))
        named == [k \in DOMAIN kept |->
                    LET item == payload.items[kept[k]] IN
                    [id |-> ResultId(item, kept[k]), url |-> item.url]]
    IN IF ~payload.object THEN ClosedResult("invalid_provider_payload")
       ELSE [performed |-> TRUE, dry |-> FALSE,
             reason |-> IF kept = <<>> THEN "provider_response_missing_required_sources"
                        ELSE "",
             results |-> named, refs |-> named,
             rejected |-> Len(payload.items) - Len(kept)]

-----------------------------------------------------------------------------
(* The artifact.                                                           *)

\* A caller passes on what the adapter said; claims are what it adds to it.
SearchArtifact(result, refs, claims) ==
    [performed |-> result.performed, dry |-> result.dry, results |-> result.results,
     refs |-> refs, rejected |-> result.rejected, claims |-> claims]

OnTheWeb(url) == url # <<>> /\ url[1].web

\* A call that was made has something to show.
PayloadShown(a) == a.performed /\ ~a.dry => a.results # <<>> /\ a.refs # <<>>

\* Every result is of the web and has a reference of its own.
AcceptedHaveSources(a) ==
    /\ \A r \in ToSet(a.results) :
        OnTheWeb(r.url) /\ \E ref \in ToSet(a.refs) : ref.id = r.id
    /\ \A ref \in ToSet(a.refs) : OnTheWeb(ref.url)

\* Nothing derived is in it, and its provenance says what it says itself.
ClaimsNothing(a) == a.claims \cap {"derived_field", "provenance_mismatch"} = {}

SearchArtifactValid(a) == PayloadShown(a) /\ AcceptedHaveSources(a) /\ ClaimsNothing(a)

\* Of references with one id the last.
RefOf(refs, id) == refs[SelectLastInSeq(refs, LAMBDA ref : ref.id = id)]

\* All results of an artifact that is valid, or none.
SummaryItems(a) ==
    IF ~SearchArtifactValid(a) THEN <<>>
    ELSE [k \in DOMAIN a.results |->
            [id |-> a.results[k].id, url |-> a.results[k].url,
             ref |-> RefOf(a.refs, a.results[k].id)]]

================================================================================
