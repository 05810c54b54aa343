---------------------------- MODULE GuestDiscovery ----------------------------
(***************************************************************************)
(* A request for guests, from the candidates of the database to the list   *)
(* that is shown: the database is judged, by its number (the workflow      *)
(* search_db_then_web) or by what is known of its candidates (the contact  *)
(* fallback); where it falls short the search goes outside, to a cloud     *)
(* model or to Tavily; the lists are merged and ranked.                    *)
(*                                                                         *)
(* Operators edit the registries and switch the control while a bot runs.  *)
(* The bot reads each registry once and keeps it; it reads the control at  *)
(* every request.                                                          *)
(***************************************************************************)
EXTENDS GuestCandidates, ExternalDiscovery

CONSTANTS
    Requests,       \* what may be asked for, with the candidates found for it
    Payloads,       \* what the model may answer
    Pages,          \* what Tavily may find: pages with a title and a word
    FileSets,       \* what the registries may hold
    ControlFiles,   \* what the file of controls may hold
    Environments,   \* the environments a bot may be started in
    Allowed,        \* the values the code allows in a provider declaration
    Agent,          \* the agent whose pilots are read
    MaxShown, MaxReceipts,
    MaxEdits, MaxRequests

Registries == {"providers", "pilots", "policy", "safety", "contract"}

ASSUME GuestAssumption ==
    /\ \A f \in FileSets : DOMAIN f = Registries
    /\ ControlFiles \subseteq ControlFile /\ Environments \subseteq Environment
    /\ \A f \in FileSets, r \in {"providers", "pilots"} :
            IsList(f[r].entries)
    /\ \A r \in Requests :
            /\ r.way \in {"cloud", "tavily"}
            /\ {r.limits.max_queries, r.limits.max_results} \subseteq Int
            /\ IsList(r.local.candidates) /\ IsList(r.fixture)
    /\ \A payload \in Payloads : payload = "not_object" \/ IsList(payload)
    /\ \A pages \in Pages : IsList(pages)
    /\ {MaxShown, MaxReceipts, MaxEdits, MaxRequests} \subseteq Nat

VARIABLES
    files,      \* the registries as they are installed
    known,      \* those the bot has read, as it read them
    controls,   \* the file of controls
    env,        \* the environment of the bot
    edits,      \* how many edits were made
    run,        \* the request the bot is at
    ended,      \* how many requests it has ended
    seen        \* history: what the registries allowed since the bot was
                \* started, and the control since the request was taken

vars == <<files, known, controls, env, edits, run, ended, seen>>

Now == 1

Idle ==
    [pc |-> "idle", request |-> <<>>, adequacy |-> <<>>, handoff |-> <<>>,
     asked |-> <<>>, called |-> FALSE, raised |-> FALSE, answer |-> <<>>,
     receipt |-> <<>>, web |-> <<>>, observed |-> <<>>, lists |-> <<>>, shown |-> <<>>]

\* Told from the installed files alone: what they allow a live call of a
\* provider, and, in AllInstalled, the policy that is in force.
Installed(provider) ==
    LET p == files.providers
        q == files.pilots
    IN {a \in {"declared"} :
            /\ p.readable /\ \A e \in Range(p.entries) : DeclarationValid(e, Allowed)
            /\ \E e \in Range(p.entries) : e.provider_id = provider}
       \cup {a \in {"pilot"} :
            /\ q.readable /\ \A e \in Range(q.entries) : PilotValid(e, Agent)
            /\ \E e \in Range(q.entries) : e.provider_id = provider}
       \cup {a \in {"control"} :
            \/ controls.kind = "missing" /\ env.flag["cloud_execution"] = "on"
                                         /\ ~env.CLOUD_DRY_RUN
            \/ controls.kind = "controls"
               /\ controls.switch["cloud_execution"].state = "enabled"}

AllInstalled ==
    {<<"policy", CloudPolicy(files.policy)>>} \cup
    UNION {{<<a, p>> : a \in Installed(p)} : p \in {r.provider : r \in Requests}}

Init ==
    /\ files \in FileSets /\ controls \in ControlFiles /\ env \in Environments
    /\ known = [f \in Registries |-> <<>>]
    /\ edits = 0 /\ run = Idle /\ ended = 0
    /\ seen = AllInstalled

\* A restart forgets it all, the next request what the control said.
Remembered ==
    IF run'.pc = "stopped" THEN {}
    ELSE IF run'.pc = "judge" /\ run.pc # "judge" THEN {s \in seen : s[1] # "control"}
    ELSE seen

\* Part of every step.
History == seen' = Remembered \cup AllInstalled'

-----------------------------------------------------------------------------
(* What the bot reads: the files it has not read are read now.             *)

Read(f) == IF known[f] = <<>> THEN files[f] ELSE known[f][1]

Keep(names) ==
    known' = [f \in Registries |-> IF f \in names THEN <<Read(f)>> ELSE known[f]]

-----------------------------------------------------------------------------
(* The database.                                                           *)

TakeRequest ==
    /\ run.pc \in {"idle", "done"} /\ ended < MaxRequests
    /\ \E r \in Requests : run' = [Idle EXCEPT !.pc = "judge", !.request = <<r>>]
    /\ UNCHANGED <<files, known, controls, env, edits, ended>>
    /\ History

\* The judgement and the handoff are made in any case; which of them opens
\* the search outside depends on the way the request came.
Judge ==
    /\ run.pc = "judge"
    /\ LET r == run.request[1]
           coverage == CandidateAdequacy(r.local, MinRequired(<<>>, <<r.ask.min>>))
           adequacy == GuestDbAdequacy(r.local, r.ask)
           handoff  == Handoff(adequacy, r.governed, r.query)
           outside  == IF r.way = "cloud" THEN coverage.transition = "inadequate"
                       ELSE handoff.eligible /\ r.operator_live
       IN run' = [run EXCEPT !.pc = IF outside THEN r.way ELSE "merge",
                             !.adequacy = <<adequacy>>, !.handoff = <<handoff>>]
    /\ UNCHANGED <<files, known, controls, env, edits, ended>>
    /\ History

-----------------------------------------------------------------------------
(* The cloud model.                                                        *)

\* What of a result becomes a candidate: what identifies it, and no contact.
WebCandidate(x, origin, state) ==
    [form |-> "object", keys |-> x.keys, name |-> "", score |-> <<>>,
     matched |-> FALSE, channels |-> {}, age |-> <<>>, restricted |-> FALSE,
     suitable |-> "unknown", email_refs |-> FALSE, has_email |-> FALSE,
     video |-> FALSE, confidence |-> <<>>, signals |-> 0,
     origin |-> origin, state |-> state]

WebCandidates(set, origin, state) ==
    LET named == NormalizeDiscovery(set) IN
    [i \in DOMAIN named |-> WebCandidate(named[i], origin, state)]

DeclarationFor(provider) ==
    LET loaded == LoadDeclarations(Read("providers"), Allowed) IN
    FirstOf(loaded, {i \in DOMAIN loaded : loaded[i].provider_id = provider})

\* What a request is looked at for: it is declared, and its plan is valid.
Declarable ==
    DeclarationFor(run.request[1].provider) # <<>> /\ QueryPlanValid(run.request[1].plan)

\* Closed before the pilots are read; the receipt asks the policy all the same.
OpenClosed ==
    /\ run.pc = "cloud" /\ ~Declarable
    /\ Keep({"providers", "policy"})
    /\ run' = [run EXCEPT !.pc = "merge",
                          !.receipt = <<DiscoveryClosed(env.CLOUD_DRY_RUN).receipt>>]
    /\ UNCHANGED <<files, controls, env, edits, ended>>
    /\ History

Declare ==
    /\ run.pc = "cloud" /\ Declarable
    /\ Keep({"providers"})
    /\ run' = [run EXCEPT !.pc = "pilots"]
    /\ UNCHANGED <<files, controls, env, edits, ended>>
    /\ History

ReadPilots ==
    /\ run.pc = "pilots"
    /\ Keep({"pilots"})
    /\ run' = [run EXCEPT !.pc = "decide"]
    /\ UNCHANGED <<files, controls, env, edits, ended>>
    /\ History

\* What the boundary asks of the policy; mode and governance are filled in.
CloudAsk(r) ==
    [channel |-> r.channel, source |-> r.source, dry |-> env.CLOUD_DRY_RUN,
     test |-> r.test, mode |-> "blocked", listed |-> r.listed, governance |-> ""]

\* The decision, of the policy and the control: closed, empty and dry, empty
\* for want of an adapter, or a call.
Open ==
    /\ run.pc = "decide"
    /\ LET r == run.request[1]
           found == DeclarationFor(r.provider)
           control == EvaluateSwitch("cloud_execution", controls, env, Now)
           authorization ==
               PilotAuthorization(LoadPilots(Read("pilots"), Agent),
                                  CloudPolicy(Read("policy")), Head(found), control,
                                  CloudAsk(r))
           state == ExecutionState(authorization)
       IN run' =
            IF state = "blocked"
                THEN [run EXCEPT !.pc = "merge",
                                 !.receipt = <<DiscoveryClosed(FALSE).receipt>>]
            ELSE IF state = "dry_run" \/ r.adapter = "none"
                THEN [run EXCEPT !.pc = "merge",
                                 !.receipt = <<DiscoveryNotExecuted(state, authorization).receipt>>]
            ELSE [run EXCEPT !.pc = "calling",
                     !.asked = <<PreparedRequest(Head(found).max_results,
                                    ExecutionLimits(Head(found), authorization, r.limits))>>]
    /\ Keep({"policy"})
    /\ UNCHANGED <<files, controls, env, edits, ended>>
    /\ History

\* The adapter has ended: its receipt, and the candidates of its results.
Answered(result, called, raised) ==
    LET found == AdapterResult(run.request[1].adapter = "fake", result) IN
    /\ run' = [run EXCEPT !.pc = "merge", !.called = called, !.raised = raised,
                          !.answer = <<result>>, !.receipt = <<found.receipt>>,
                          !.web = WebCandidates(found.set, "", "")]
    /\ UNCHANGED <<files, known, controls, env, edits, ended>>
    /\ History

\* The fixture of a test takes the place of the provider.
FakeAnswers ==
    /\ run.pc = "calling" /\ run.request[1].adapter = "fake"
    /\ Answered([results |-> run.request[1].fixture, performed |-> FALSE, failure |-> ""],
                FALSE, FALSE)

\* Without a key nothing is called.
NoCredentials ==
    /\ run.pc = "calling" /\ run.request[1].adapter = "real" /\ ~env.key
    /\ Answered(ClosedResult("missing_credentials"), FALSE, FALSE)

ModelAnswers ==
    /\ run.pc = "calling" /\ run.request[1].adapter = "real" /\ env.key
    /\ \E payload \in Payloads : Answered(ResultFromPayload(payload), TRUE, FALSE)

\* The call ends in an exception, which the boundary turns into a result.
ModelRaises ==
    /\ run.pc = "calling" /\ run.request[1].adapter = "real" /\ env.key
    /\ Answered(ClosedResult("adapter_exception"), TRUE, TRUE)

-----------------------------------------------------------------------------
(* Tavily.  The provider's execution is NewsRetrieval's; here it completes *)
(* or not.                                                                 *)

TavilyMayRun ==
    /\ EvaluateSwitch("tavily_execution", controls, env, Now).allowed
    /\ EvaluateProvider(Tavily, controls, Now).allowed
    /\ env.key /\ ClassAllowed("paid_external_provider", DryRunRequested(env))

NotSearched ==
    /\ run.pc = "tavily"
    /\ run' = [run EXCEPT !.pc = "merge"]
    /\ UNCHANGED <<files, known, controls, env, edits, ended>>
    /\ History

\* Every page becomes a candidate that its title identifies.  What its words
\* say of a contact is judged and written down, and stops no candidate.
SearchContacts ==
    /\ run.pc = "tavily" /\ TavilyMayRun
    /\ \E pages \in Pages :
       LET results == [i \in DOMAIN pages |->
                          RawResult(i, TRUE, TRUE, TRUE, {pages[i].title})]
           receipt == DiscoveryReceipt("live_adapter_executed", FALSE, TRUE, TRUE,
                                       TRUE, TRUE, FALSE)
           set == DiscoverySet(receipt, TRUE, results)
       IN run' = [run EXCEPT !.pc = "merge", !.called = TRUE,
                     !.answer = <<[results |-> results, performed |-> TRUE, failure |-> ""]>>,
                     !.receipt = <<receipt>>,
                     !.observed = [i \in DOMAIN pages |->
                         ContactSafety(ContactRecord(pages[i].word), Read("safety"))],
                     !.web = WebCandidates(<<set>>, "external_public_source",
                                           "public_source_observed")]
    /\ Keep({"safety"})
    /\ UNCHANGED <<files, controls, env, edits, ended>>
    /\ History

-----------------------------------------------------------------------------
(* The lists.                                                              *)

WebList ==
    [type |-> "guest_candidate_list", scope |-> "web", listed |-> TRUE,
     candidates |-> run.web, count |-> <<Len(run.web)>>]

\* The caller chooses the order; the contract of receipts is read for a
\* duplicate alone, and one it refuses makes the merge raise.
MergeLists ==
    /\ run.pc = "merge"
    /\ LET r == run.request[1]
           lists == IF run.web = <<>> THEN <<r.local>>
                    ELSE IF r.local_first THEN <<r.local, WebList>>
                    ELSE <<WebList, r.local>>
           merged == Merge(lists, MaxShown, MaxReceipts, Read("contract"))
       IN /\ run' = [run EXCEPT !.pc = IF merged.raised THEN "done" ELSE "rank",
                                !.lists = lists,
                                !.shown = IF merged.raised THEN <<>> ELSE merged.list.candidates]
          /\ ended' = IF merged.raised THEN ended + 1 ELSE ended
          /\ IF merged.list.receipts # <<>> THEN Keep({"contract"}) ELSE UNCHANGED known
    /\ UNCHANGED <<files, controls, env, edits>>
    /\ History

Rank ==
    /\ run.pc = "rank"
    /\ LET order == Ranked([g \in DOMAIN run.shown |-> run.shown[g].candidate]) IN
       run' = [run EXCEPT !.pc = "done",
                          !.shown = [g \in DOMAIN order |-> run.shown[order[g]]]]
    /\ ended' = ended + 1
    /\ UNCHANGED <<files, known, controls, env, edits>>
    /\ History

-----------------------------------------------------------------------------
(* Operators, and the bot's own end.                                       *)

EditFiles ==
    /\ edits < MaxEdits
    /\ \E f \in FileSets \ {files} : files' = f
    /\ edits' = edits + 1
    /\ UNCHANGED <<known, controls, env, run, ended>>
    /\ History

ChangeControl ==
    /\ edits < MaxEdits
    /\ \E c \in ControlFiles \ {controls} : controls' = c
    /\ edits' = edits + 1
    /\ UNCHANGED <<files, known, env, run, ended>>
    /\ History

Stop ==
    /\ run.pc # "stopped" /\ edits < MaxEdits
    /\ run' = [Idle EXCEPT !.pc = "stopped"]
    /\ known' = [f \in Registries |-> <<>>]
    /\ edits' = edits + 1
    /\ UNCHANGED <<files, controls, env, ended>>
    /\ History

Restart ==
    /\ run.pc = "stopped"
    /\ env' \in Environments /\ run' = Idle
    /\ UNCHANGED <<files, known, controls, edits, ended>>
    /\ History

Asking == TakeRequest \/ Judge \/ MergeLists \/ Rank

Calling ==
    \/ OpenClosed \/ Declare \/ ReadPilots \/ Open
    \/ FakeAnswers \/ NoCredentials \/ ModelAnswers \/ ModelRaises
    \/ NotSearched \/ SearchContacts

Operating == EditFiles \/ ChangeControl \/ Stop \/ Restart

Next == Asking \/ Calling \/ Operating

Spec == Init /\ [][Next]_vars

-----------------------------------------------------------------------------

\* The bot is at one request at a time, which goes outside only from the
\* judgement and is asked for a result at least; a registry is read once.
TypeOK ==
    /\ run.pc \in {"idle", "judge", "cloud", "pilots", "decide", "calling", "tavily",
                  "merge", "rank", "done", "stopped"}
    /\ run.pc \notin {"idle", "stopped"} => run.request # <<>>
    /\ \A a \in Range(run.asked) : a.max_results >= 1
    /\ \A f \in Registries : Len(known[f]) <= 1
    /\ edits <= MaxEdits /\ ended <= MaxRequests

\* Whether a policy bears a request of a provider in this state of governance.
Bears(policy, state, r) ==
    /\ state \in policy.live_states
    /\ r.test => ~policy.test_blocked
    /\ r.channel \notin policy.blocked_channels /\ r.source \notin policy.blocked_sources

\* Whether a policy lets whoever asks call a provider that has no pilot.
OpenTo(policy, r) ==
    /\ ModeOf(policy, r.provider) # "blocked"
    /\ ModeOf(policy, r.provider) = "allowlisted" => r.listed

\* A provider is called only when, since the bot was started, a file of
\* declarations that was valid as a whole has held it, a policy has been in
\* force that bears the request, and, since the request was taken, the control
\* has allowed it; each of them at a moment of its own, for files are edited
\* between the readings. What state of governance is live, and whether a test
\* may call, is the policy's to say; the state is that of the first pilot of the
\* provider in a file of pilots that was valid as a whole, and only without a
\* pilot that of the declaration, under the policy's own mode. And never are
\* more results asked for than the declaration, the caller and the pilot each
\* allow (external_discovery_boundary.py, cloud_provider_pilot_authorization.py,
\* cloud_provider_authorization.py).
CallsWereAuthorized ==
    \A a \in Range(run.asked) :
        LET r == run.request[1]
            within(n) == n > 0 => a.max_results <= n
            declared == {e \in Range(known["providers"][1].entries) :
                            e.provider_id = r.provider}
            pilots == LoadPilots(known["pilots"][1], Agent)
            own == {i \in DOMAIN pilots : pilots[i].provider_id = r.provider}
            policies == {s[2] : s \in {t \in seen : t[1] = "policy"}}
        IN /\ \A what \in {"declared", "control"} : <<what, r.provider>> \in seen
           /\ r.channel = "telegram"
           /\ within(r.limits.max_results) /\ \A e \in declared : within(e.max_results)
           /\ own # {} =>
                 /\ <<"pilot", r.provider>> \in seen
                 /\ \E i \in own, policy \in policies :
                       /\ \A j \in own : i <= j
                       /\ within(pilots[i].max_results)
                       /\ Bears(policy, pilots[i].governance_state, r)
           /\ own = {} =>
                 \E e \in declared, policy \in policies :
                    Bears(policy, e.governance_state, r) /\ OpenTo(policy, r)

\* A receipt never claims a call that was not made, and denies one that was
\* made only where it raised or the answer was no object: there the cost is
\* not accounted for (external_discovery_boundary.py:203, cloud_web_ai.py:275).
ReceiptsOwnUpToCalls ==
    \A c \in Range(run.receipt) :
        /\ c.performed => run.called
        /\ run.called /\ ~c.performed =>
              run.raised \/ run.answer[1].failure = "invalid_provider_payload"

\* Two occurrences are shown as one candidate exactly when no set of
\* occurrences separates them, whatever the order in which they came; the one
\* that is shown came first, and no more are shown than may be
\* (candidate_merge.py).
MergeGroupsByIdentity ==
    /\ Len(run.shown) <= MaxShown
    /\ run.pc = "rank" =>
           LET occurrences == Range(Occurrences(run.lists))
               connected(o, p) ==
                   \A S \in SUBSET occurrences : o \in S /\ p \notin S =>
                       \E x \in S, y \in occurrences \ S : x.keys \cap y.keys # {}
               together(o, p) ==
                   \E m \in Range(run.shown) : {o.at, p.at} \subseteq Range(m.lineage)
               listed == UNION {Range(m.lineage) : m \in Range(run.shown)}
           IN /\ \A o, p \in occurrences : o.at \in listed =>
                    (together(o, p) <=> connected(o, p))
              /\ \A m \in Range(run.shown) : \A at \in Range(m.lineage) :
                    \/ m.lineage[1][1] < at[1]
                    \/ m.lineage[1][1] = at[1] /\ m.lineage[1][2] <= at[2]
===============================================================================
