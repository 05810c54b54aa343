---------------------------- MODULE MCNewsRetrieval ----------------------------
(***************************************************************************)
(* NewsRetrieval for TLC: two fetchers and two entries of two sources, two *)
(* operators who change two controls, one of them until a time.            *)
(***************************************************************************)
EXTENDS NewsRetrieval

MCSource(e) == e
MCTopic(e) == IF e = 1 THEN "film" ELSE ""
MCDate(e) == e

MCChanges ==
    {[control |-> "tavily_execution", target |-> "", on |-> TRUE, expires |-> 3],
     [control |-> "tavily_execution", target |-> "", on |-> FALSE, expires |-> 0],
     [control |-> "provider_authorization", target |-> "tavily", on |-> TRUE, expires |-> 0]}

Allowing(state) ==
    [contract |-> {}, policy |-> {},
     governance |-> [flaws |-> {}, default |-> "blocked",
                     state |-> [p \in Providers |-> state]],
     bindings |-> [readable |-> TRUE,
                   list |-> <<[id |-> "b1", provider |-> "tavily", sound |-> TRUE]>>]]

\* A second binding, with the id of the first; and a contract that is refused.
Doubled ==
    [Allowing("allowed") EXCEPT !.bindings.list =
        Append(@, [id |-> "b1", provider |-> "other", sound |-> TRUE])]
Refused == [Allowing("allowed") EXCEPT !.contract = {"grants_authority"}]

MCPolicies == {Allowing("allowed"), Allowing("audit_only"), Doubled, Refused}

Env(flag, dry) ==
    [CLOUD_DRY_RUN |-> dry, JUNIPER_DRY_RUN |-> FALSE, key |-> TRUE,
     flag |-> [s \in Switches |-> flag]]

Missing == [Shipped EXCEPT !.kind = "missing"]

Scenario(file, policies, flag, dry, until, fetched, changed, edited, asked, merges) ==
    [controls |-> file, policy |-> policies, env |-> Env(flag, dry),
     clock |-> until, fetches |-> fetched, changes |-> changed, edits |-> edited, runs |-> asked, merges |-> merges]

\* The fetchers at work; the operators, with a policy file edited meanwhile; two
\* requests where all is allowed; the environment alone deciding; two policy
\* files edited, so that those the bot keeps were never there together; one that
\* allows nothing until it is edited, or is edited before the bot starts anew; no
\* change.
MCScenarios ==
    {Scenario(Missing, Allowing("allowed"), "unset", FALSE, 3, 2, 0, 0, 1, 0),
     Scenario(Shipped, Allowing("allowed"), "on", FALSE, 3, 0, 2, 0, 1, 0),
     Scenario(Shipped, Allowing("audit_only"), "on", FALSE, 1, 0, 2, 1, 1, 0),
     Scenario(Missing, Allowing("allowed"), "on", FALSE, 1, 0, 0, 0, 2, 2),
     Scenario(Missing, Allowing("allowed"), "on", TRUE, 1, 0, 0, 1, 2, 0),
     Scenario(Missing, Allowing("audit_only"), "on", FALSE, 1, 0, 0, 2, 1, 0),
     Scenario(Missing, Doubled, "on", FALSE, 1, 0, 0, 1, 1, 0),
     Scenario(Missing, Refused, "on", FALSE, 1, 0, 0, 1, 1, 0),
     Scenario(Missing, Allowing("allowed"), "on", FALSE, 1, 0, 0, 1, 2, 0),
     Scenario([Shipped EXCEPT !.kind = "malformed"], Allowing("allowed"), "unset", FALSE,
              1, 0, 1, 0, 1, 0)}

MCAnswers == {<<"good", "bad", "good">>, <<"bad">>}

\* Dry, not live, and live with all there is or without somebody to call.
SearchConfig(dry, live, invoker) ==
    [dry |-> dry, live |-> live, credential |-> TRUE, invoker |-> invoker]

MCSearchConfigs ==
    {SearchConfig(TRUE, TRUE, TRUE), SearchConfig(FALSE, FALSE, TRUE),
     SearchConfig(FALSE, TRUE, FALSE), SearchConfig(FALSE, TRUE, TRUE)}

Found(id, page, web) ==
    [object |-> TRUE, id |-> id, title |-> TRUE, url |-> <<[page |-> page, web |-> web]>>]

Untitled == [Found("a", "p", TRUE) EXCEPT !.title = FALSE]

\* No object; nothing usable; one id twice, with an item left out between;
\* an id that is the place of another; and an address not of the web.
MCPayloads ==
    {[object |-> FALSE, items |-> <<>>],
     [object |-> TRUE, items |-> <<Untitled>>],
     [object |-> TRUE, items |-> <<Found("a", "p", TRUE), Untitled, Found("a", "q", TRUE)>>],
     [object |-> TRUE, items |-> <<Found("tavily-result-2", "p", TRUE), Found("", "q", TRUE)>>],
     [object |-> TRUE, items |-> <<Found("a", "p", TRUE), Found("", "q", TRUE)>>],
     [object |-> TRUE, items |-> <<Found("a", "p", TRUE), Found("b", "q", FALSE)>>]}

\* No limits of the caller; or one result, and two of the sets.
MCLimits ==
    {[sets |-> 0, per_set |-> 0, total |-> 0], [sets |-> 2, per_set |-> 1, total |-> 1]}
================================================================================
