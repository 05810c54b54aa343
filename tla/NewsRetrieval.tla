----------------------------- MODULE NewsRetrieval -----------------------------
(***************************************************************************)
(* News and contacts: fetchers fill the cache of news items, a bot answers *)
(* from it, and where the cache falls short, or a guest is not in the      *)
(* database, an operator may let the bot call a search provider            *)
(* (agents/alexis/workflows/latest_news_*.py and guest_contact_*.py).      *)
(* Meanwhile operators change the controls that allow it.                  *)
(*                                                                         *)
(* There is no lock on any file: the cache is appended to, the file of     *)
(* controls is replaced whole, and of the policy files each is read once   *)
(* by a process, on its own, and kept.                                     *)
(***************************************************************************)
EXTENDS ProviderPolicy, SourceCache, SearchApi

CONSTANTS
    Fetchers,       \* processes that fetch, overlapping as they please
    Operators,      \* those who change the controls
    OfferedChanges, \* the changes they make
    OfferedPolicies,\* what the policy files may say, each of them on its own
    Answers,        \* what a provider may answer: sequences of good and bad items
    SearchConfigs,  \* how a caller may configure the older search adapter
    Payloads,       \* what its provider may answer
    Topics,         \* the topics asked about, "" for none
    Requested,      \* how many results a request may ask for, 0 for no number
    ContractResults, MaxResults, \* the bounds of the contract and of the pilot
    Limits,         \* the limits a caller may set for a merge
    Scenarios       \* what is there at the start, and how often each may act

ASSUME NewsAssumption ==
    /\ OfferedChanges \subseteq Change
    /\ OfferedPolicies \subseteq PolicyFiles
    /\ \A e \in Entries : e \in Nat /\ EntryDate(e) \in Nat
    /\ {MaxItemAge, MaxFetchAge, MaxLatest, MaxItems, MinFresh, MinSources} \subseteq Nat
    /\ {ContractResults, MaxResults} \subseteq Nat \ {0}
    /\ Requested \subseteq Int
    /\ \A l \in Limits : DOMAIN l = DOMAIN DefaultLimits
    /\ Scenarios \subseteq
        [controls : ControlFile, policy : OfferedPolicies, env : Environment,
         clock : Nat \ {0}, fetches : Nat, changes : Nat, edits : Nat, runs : Nat, merges : Nat]
    /\ "tavily" \in Providers /\ MaxExpiry \in Nat

VARIABLES
    clock,
    budget,     \* the scenario, with the bounds of this behaviour
    feed,       \* the entries the feeds carry now
    store,      \* the item file, in the order of its lines
    torn,       \* a line of it was cut short: reading it raises
    ingest,     \* the audit of fetches
    fetcher,    \* what each fetcher is doing
    fetches,    \* how many fetches were begun
    controls,   \* the file of operational controls
    version,    \* how many times it was replaced
    operator,   \* what each operator has loaded
    receipts,   \* the receipts handed to operators
    policy,     \* the policy files
    edits,      \* how many times one of them was edited
    cached,     \* each of them as the bot has read it, if it has
    env,        \* the environment of the bot
    run,        \* the request the bot is at
    log,        \* the requests it has ended
    merged,     \* the result sets merged, each with the sets it was made of
    seen        \* what was allowed at some moment since the run began, and by
                \* each policy file since the process of the bot began

cache == <<feed, store, torn, ingest, fetcher, fetches>>
control == <<controls, version, operator, receipts>>
vars == <<clock, budget, cache, control, policy, edits, cached, env, run, log, merged, seen>>

-----------------------------------------------------------------------------
(* What is allowed now, told from the files alone, and what was allowed at *)
(* some moment since the bot's request, or its process, began.             *)

Lasting(e) == e.expires = 0 \/ e.expires > clock

SwitchOn ==
    LET s == controls.switch["tavily_execution"] IN
    \/ controls.kind = "missing" /\ env.flag["tavily_execution"] = "on"
    \/ controls.kind = "controls" /\ s.state = "enabled" /\ Lasting(s)

GrantOn ==
    LET g == controls.provider["tavily"] IN
    \/ controls.kind = "missing"
    \/ /\ controls.kind = "controls"
       /\ \/ g.state = "allowed" /\ Lasting(g)
          \/ g.state = "none" /\ controls.provider_default = "allowed"

\* In the order in which they are loaded.
LoadOrder == <<"contract", "governance", "policy", "bindings">>

PolicyNames == {"contract", "governance", "policy", "bindings"}

\* What each policy file has to say, for itself.
AllowsAlone(name, file) ==
    \/ name \in {"contract", "policy"} /\ file = {}
    \/ name = "governance" /\ file.flaws = {} /\ file.state["tavily"] = "allowed"
    \/ /\ name = "bindings" /\ file.readable
       /\ \A b \in ToSet(file.list) : b.sound
       /\ \A i, j \in DOMAIN file.list : file.list[i].id = file.list[j].id => i = j
       /\ file.list = <<>> \/ \E b \in ToSet(file.list) : b.provider = "tavily"

Allowed ==
    {a \in {"switch", "grant"} :
        (a = "switch" /\ SwitchOn) \/ (a = "grant" /\ GrantOn)}
    \cup {name \in PolicyNames : AllowsAlone(name, policy[name])}

-----------------------------------------------------------------------------
(* What is there at the start.                                             *)

NoFetch == [pc |-> "idle", at |-> 0, ids |-> {}, known |-> {}, stored |-> 0]

Shipped ==
    [kind |-> "controls",
     switch |-> [s \in Switches |-> [state |-> "disabled", expires |-> 0]],
     provider_default |-> "blocked",
     provider |-> [p \in Providers |-> [state |-> "none", expires |-> 0]],
     user_default |-> "blocked",
     user |-> [u \in Users |-> [state |-> "none", expires |-> 0]]]

\* Operators load a file only to change it.
NotLoaded == [loaded |-> FALSE, from |-> 0, file |-> Shipped]

\* No execution was attempted, so that there is no receipt.
NoReceipt == <<>>

Idle ==
    [pc |-> "idle", kind |-> "news", live |-> FALSE, topic |-> "", at |-> 0,
     reason |-> "", served |-> {}, boundary |-> FALSE, grant |-> FALSE,
     asked |-> 0, authorization |-> Undecided,
     offers |-> Offers([outcome |-> "unknown", reason |-> ""]),
     called |-> FALSE, receipt |-> NoReceipt, results |-> <<>>, found |-> <<>>,
     escalation |-> ""]

Init ==
    /\ clock = 1 /\ budget \in Scenarios
    /\ feed = {} /\ store = <<>> /\ torn = FALSE /\ ingest = <<>>
    /\ fetcher = [f \in Fetchers |-> NoFetch] /\ fetches = 0
    /\ controls = budget.controls
    /\ version = 0
    /\ operator = [o \in Operators |-> NotLoaded]
    /\ receipts = {}
    /\ policy = budget.policy /\ edits = 0
    /\ cached = [name \in PolicyNames |-> <<>>]
    /\ env = budget.env
    /\ run = Idle /\ log = <<>>
    /\ merged = <<>>
    /\ seen = Allowed

\* A request keeps what it has seen, and a process what its policy files were.
Remembered ==
    IF run.pc # "idle" /\ run'.pc = "idle" /\ Last(log').pc = "crashed" THEN {}
    ELSE IF run'.pc = "idle" THEN seen \cap PolicyNames
    ELSE seen

\* Part of every step.
History ==
    /\ seen' = Remembered \cup Allowed'
    /\ UNCHANGED budget

-----------------------------------------------------------------------------
(* The fetchers: ingestion/source_execution.py.                            *)

FetcherOnly ==
    /\ UNCHANGED <<clock, control, policy, edits, cached, env, run, log, merged>>
    /\ History

\* A new entry appears in the feed, no later than its date (one that no fetch
\* of this behaviour could see is left out).
Publish(e) ==
    /\ e \notin feed
    /\ fetches < budget.fetches
    /\ EntryDate(e) <= clock
    /\ feed' = feed \cup {e}
    /\ UNCHANGED <<store, torn, ingest, fetcher, fetches>>
    /\ FetcherOnly

Audited(f, status, stored) ==
    Append(ingest, [status |-> status, at |-> fetcher[f].at, stored |-> stored])

\* The feed is read; a timeout, a malformed or too large feed is audited as
\* failed and stores nothing.
FetchFeed(f) ==
    /\ fetcher[f].pc = "idle"
    /\ fetches < budget.fetches
    /\ fetches' = fetches + 1
    /\ \/ /\ feed # {}
          /\ fetcher' = [fetcher EXCEPT ![f] =
                [NoFetch EXCEPT !.pc = "read", !.at = clock, !.ids = feed]]
          /\ UNCHANGED ingest
       \/ /\ ingest' = Append(ingest, [status |-> "failed", at |-> clock, stored |-> 0])
          /\ UNCHANGED fetcher
    /\ UNCHANGED <<feed, store, torn>>
    /\ FetcherOnly

\* The ids already stored are read; a torn line raises, and the exception
\* leaves the fetch without an audit line.
LoadIds(f) ==
    /\ fetcher[f].pc = "read"
    /\ fetcher' = [fetcher EXCEPT ![f] =
            IF torn THEN NoFetch
            ELSE [@ EXCEPT !.pc = "loaded", !.known = StoredIds(store)]]
    /\ UNCHANGED <<feed, store, torn, ingest, fetches>>
    /\ FetcherOnly

AppendItems(f) ==
    LET new == NewItems(fetcher[f].ids, fetcher[f].known, fetcher[f].at) IN
    /\ fetcher[f].pc = "loaded"
    /\ store' = store \o new
    /\ fetcher' = [fetcher EXCEPT ![f].pc = "stored", ![f].stored = Len(new)]
    /\ UNCHANGED <<feed, torn, ingest, fetches>>
    /\ FetcherOnly

AuditFetch(f) ==
    /\ fetcher[f].pc = "stored"
    /\ ingest' = Audited(f, "fetched", fetcher[f].stored)
    /\ fetcher' = [fetcher EXCEPT ![f] = NoFetch]
    /\ UNCHANGED <<feed, store, torn, fetches>>
    /\ FetcherOnly

\* A fetcher dies; while it appends, a prefix of its lines may be left, the
\* last of them cut short.
CrashFetch(f) ==
    /\ fetcher[f].pc # "idle"
    /\ \/ UNCHANGED <<store, torn>>
       \/ /\ fetcher[f].pc = "loaded"
          /\ LET new == NewItems(fetcher[f].ids, fetcher[f].known, fetcher[f].at) IN
             \E n \in 0 .. Len(new) :
                /\ store' = store \o SubSeq(new, 1, n)
                /\ torn' \in {torn, n < Len(new) \/ torn}
    /\ fetcher' = [fetcher EXCEPT ![f] = NoFetch]
    /\ UNCHANGED <<feed, ingest, fetches>>
    /\ FetcherOnly

Fetching ==
    \/ \E e \in Entries : Publish(e)
    \/ \E f \in Fetchers :
        FetchFeed(f) \/ LoadIds(f) \/ AppendItems(f) \/ AuditFetch(f) \/ CrashFetch(f)

-----------------------------------------------------------------------------
(* The operators: load, change and replace the file, keep the receipt.     *)

OperatorOnly ==
    /\ UNCHANGED <<clock, cache, policy, edits, cached, env, run, log, merged>>
    /\ History

LoadControls(o) ==
    /\ ~operator[o].loaded
    /\ version < budget.changes
    /\ CanLoadForChange(controls)
    /\ operator' = [operator EXCEPT ![o] =
            [loaded |-> TRUE, from |-> version, file |-> controls]]
    /\ UNCHANGED <<controls, version, receipts>>
    /\ OperatorOnly

SaveControls(o) ==
    /\ operator[o].loaded
    /\ version < budget.changes
    /\ \E c \in OfferedChanges :
        /\ controls' = ApplyChange(operator[o].file, c)
        /\ receipts' = receipts \cup
            {[receipt |-> ChangeReceipt(c), from |-> operator[o].from, to |-> version + 1]}
    /\ version' = version + 1
    /\ operator' = [operator EXCEPT ![o] = NotLoaded]
    /\ OperatorOnly

Operating == \E o \in Operators : LoadControls(o) \/ SaveControls(o)

\* A policy file is edited in place, whatever the others say.
EditPolicy ==
    /\ edits < budget.edits
    /\ edits' = edits + 1
    /\ \E name \in PolicyNames, p \in OfferedPolicies :
            /\ p[name] # policy[name]
            /\ policy' = [policy EXCEPT ![name] = p[name]]
    /\ UNCHANGED <<clock, cache, control, cached, env, run, log, merged>>
    /\ History

Tick ==
    /\ clock < budget.clock
    /\ clock' = clock + 1
    /\ UNCHANGED <<cache, control, policy, edits, cached, env, run, log, merged>>
    /\ History

-----------------------------------------------------------------------------
(* The bot, one request after the other.                                   *)

Bot ==
    /\ UNCHANGED <<clock, cache, control, policy, edits, env, merged>>
    /\ History

\* A request is over; what it reports is kept.
End(r) ==
    /\ run' = Idle
    /\ log' = Append(log, r)

\* Latest news: the cache is read once and judged; a torn file raises.
StartNews ==
    /\ run.pc = "idle" /\ Len(log) < budget.runs
    /\ \E topic \in Topics, live \in BOOLEAN :
        LET evaluation == EvaluateFreshness(Candidates(store, topic), topic, clock)
            adequacy   == Adequacy(evaluation)
            r == [Idle EXCEPT !.kind = "news", !.live = live, !.topic = topic,
                              !.at = clock, !.reason = adequacy.reason,
                              !.offers = Offers(adequacy)]
        IN IF torn THEN End([r EXCEPT !.pc = "raised"])
           ELSE IF adequacy.outcome = "adequate"
               THEN End([r EXCEPT !.pc = "answered", !.served = evaluation.fresh])
           ELSE /\ run' = [r EXCEPT !.pc = IF live THEN "pilot" ELSE "escalate"]
                /\ UNCHANGED log
    /\ UNCHANGED cached
    /\ Bot

\* Guest contacts: the caller has judged the database; the query is made
\* only for what the handoff found eligible and the operator lets go live.
StartGuest ==
    /\ run.pc = "idle" /\ Len(log) < budget.runs
    /\ \E eligible, live \in BOOLEAN, asked \in Requested :
        LET r == [Idle EXCEPT !.kind = "guest", !.live = live, !.at = clock] IN
        IF eligible /\ live
            THEN /\ run' = [r EXCEPT !.pc = "authorize", !.boundary = TRUE, !.asked = asked]
                 /\ UNCHANGED log
            ELSE End([r EXCEPT !.pc = "not_attempted"])
    /\ UNCHANGED cached
    /\ Bot

\* The older search adapter: the caller's configuration, then the switch and
\* the key, but no authorization of the provider.
StartSearch ==
    /\ run.pc = "idle" /\ Len(log) < budget.runs
    /\ \E config \in SearchConfigs :
        LET refused == SearchRefused(config,
                EvaluateSwitch("tavily_execution", controls, env, clock).allowed, env)
            r == [Idle EXCEPT !.kind = "search", !.live = config.live, !.at = clock]
        IN IF refused = "" THEN run' = [r EXCEPT !.pc = "call"] /\ UNCHANGED log
           ELSE End([r EXCEPT !.pc = "closed", !.found = <<ClosedResult(refused)>>])
    /\ UNCHANGED cached
    /\ Bot

\* The pilot's own governance and handoff, then the switch and the dry run.
PilotBoundary ==
    LET adequacy == [outcome |-> "inadequate", reason |-> run.reason] IN
    /\ run.pc = "pilot"
    /\ run' = [run EXCEPT
            !.boundary = EvaluateSwitch("tavily_execution", controls, env, clock).allowed
                            /\ ClassAllowed("paid_external_provider", DryRunRequested(env)),
            !.pc = IF HandoffEligible(adequacy, PilotGovernanceReasons(adequacy, run.live))
                       THEN "authorize" ELSE "escalate"]
    /\ UNCHANGED <<log, cached>>
    /\ Bot

\* execute_external_search_provider loads the policy files one after the other,
\* but for those that the process has ...
LoadPolicyFile ==
    /\ run.pc = "authorize"
    /\ \E k \in DOMAIN LoadOrder :
        LET name == LoadOrder[k] IN
        /\ cached[name] = <<>> /\ \A j \in 1 .. k - 1 : cached[LoadOrder[j]] # <<>>
        /\ cached' = [cached EXCEPT ![name] = <<policy[name]>>]
    /\ UNCHANGED <<run, log>>
    /\ Bot

\* ... then reads the grant of the provider ...
ReadGrant ==
    /\ run.pc = "authorize" /\ \A name \in PolicyNames : cached[name] # <<>>
    /\ run' = [run EXCEPT !.pc = "granted",
            !.grant = EvaluateControl("provider_authorization", Tavily,
                                      controls, env, clock).allowed]
    /\ UNCHANGED <<log, cached>>
    /\ Bot

\* What comes after the provider: the news go on to the escalation.
AfterProvider(r) ==
    IF r.kind = "news" THEN run' = [r EXCEPT !.pc = "escalate"] /\ UNCHANGED log
    ELSE End([r EXCEPT !.pc = "handled"])

Receipt(state, performed, response, error, authorization) ==
    <<ExecutionReceipt(state, performed, authorization,
        [requested |-> run.asked,
         normalized |-> NormalizeRequest(run.asked, ContractResults, MaxResults)],
        response, error)>>

\* ... and the switch once more, and decides by the files it keeps.
ReadSwitch ==
    LET files == [name \in PolicyNames |-> cached[name][1]]
        allow == run.grant
                    /\ EvaluateControl("tavily_execution", Tavily, controls, env, clock).allowed
        authorization == Authorize(Tavily, files, allow)
        reasons == DisabledReasons(PilotConfig(run.boundary), authorization,
                                   DryRunRequested(env))
    IN /\ run.pc = "granted"
       /\ IF reasons = {}
            THEN /\ run' = [run EXCEPT !.pc = "call", !.authorization = authorization]
                 /\ UNCHANGED log
            ELSE AfterProvider([run EXCEPT
                    !.authorization = authorization,
                    !.receipt = Receipt("provider_execution_disabled", FALSE, NoResponse,
                                        "", authorization)])
       /\ UNCHANGED cached
       /\ Bot

\* The call: it raises, also without a key, or answers; no usable result is
\* a failure too.  Only a completed call makes a result set.
CallProvider ==
    /\ run.pc = "call" /\ run.kind # "search"
    /\ \E raises \in BOOLEAN, answer \in Answers :
        LET failed == raises \/ ~env.key
            response == IF failed THEN NoResponse
                        ELSE NormalizeResponse(answer,
                                NormalizeRequest(run.asked, ContractResults, MaxResults))
            done == response.raw # <<>>
        IN AfterProvider([run EXCEPT
                !.called = TRUE,
                !.receipt = Receipt(
                    IF done THEN "provider_execution_completed"
                    ELSE "provider_execution_failed",
                    TRUE, response, IF done THEN "" ELSE "error",
                    run.authorization),
                !.results = IF done THEN <<ResultSet(Len(log) + 1, response)>>
                            ELSE <<>>])
    /\ UNCHANGED cached
    /\ Bot

\* The adapter's call: what its provider raises goes on to the caller, and so
\* does what a payload raises whose results are no list.
CallSearchProvider ==
    /\ run.pc = "call" /\ run.kind = "search"
    /\ \/ End([run EXCEPT !.pc = "raised", !.called = TRUE])
       \/ \E payload \in Payloads :
            End([run EXCEPT !.pc = "handled", !.called = TRUE,
                            !.found = <<ResultFromPayload(payload)>>])
    /\ UNCHANGED cached
    /\ Bot

\* The cloud escalation is only ever a dry run, from the channel "runtime". Its
\* provider is no cloud model, so it is not eligible whatever the policy says.
RuntimeAsk ==
    [channel |-> "runtime", source |-> "runtime", dry |-> TRUE, test |-> FALSE,
     mode |-> "blocked", listed |-> FALSE, governance |-> "audit_only"]

Escalate ==
    LET adequacy == [outcome |-> "inadequate", reason |-> run.reason] IN
    /\ run.pc = "escalate"
    /\ End([run EXCEPT !.pc = "insufficient",
            !.escalation = EscalationStatus(adequacy, FALSE, FallbackPolicy,
                EvaluateSwitch("cloud_execution", controls, env, clock), RuntimeAsk)])
    /\ UNCHANGED cached
    /\ Bot

\* The bot dies: what it was doing is forgotten, and so is what it had read.
CrashBot ==
    /\ run.pc # "idle"
    /\ End([run EXCEPT !.pc = "crashed"])
    /\ cached' = [name \in PolicyNames |-> <<>>]
    /\ Bot

\* A set as it was made, or as a caller has altered it on the way.
Altered(s) ==
    {s} \cup {[s EXCEPT !.claims = {c}] : c \in {"external_call_performed", "provider_stage"}}
        \cup {[s EXCEPT !.lineage = SubSeq(@, 2, Len(@))]}
        \cup {[s EXCEPT !.merge = <<[@[1] EXCEPT !.raw_count = @ + 1]>>] :
                m \in ToSet(s.merge)}

\* A caller merges what it was given: the sets of the requests, and those it
\* has merged before, one of them perhaps altered, within limits it may set
\* (as a bound, when all its requests are over).
Merge ==
    LET own   == SelectSeq(log, LAMBDA r : r.results # <<>> /\ r.pc # "crashed")
        given == [i \in DOMAIN merged |-> merged[i].set]
                    \o [i \in DOMAIN own |-> own[i].results[1]]
    IN /\ Len(log) = budget.runs /\ given # <<>> /\ Len(merged) < budget.merges
       /\ \E at \in DOMAIN given, limits \in Limits :
          \E s \in Altered(given[at]) :
            LET sets == [given EXCEPT ![at] = s] IN
            merged' = Append(merged, [given |-> sets, set |-> MergeResultSets(sets, limits)])
       /\ UNCHANGED <<clock, cache, control, policy, edits, cached, env, run, log>>
       /\ History

Answering ==
    \/ StartNews \/ StartGuest \/ StartSearch \/ PilotBoundary \/ LoadPolicyFile
    \/ ReadGrant \/ ReadSwitch \/ CallProvider \/ CallSearchProvider \/ Escalate \/ CrashBot \/ Merge

-----------------------------------------------------------------------------

Next == Fetching \/ Operating \/ EditPolicy \/ Tick \/ Answering

Spec == Init /\ [][Next]_vars

-----------------------------------------------------------------------------
(* Properties.                                                             *)

\* Everything has its type.
TypeOK ==
    /\ clock \in 1 .. budget.clock /\ budget \in Scenarios
    /\ feed \subseteq Entries
    /\ store \in Seq(Item) /\ torn \in BOOLEAN
    /\ ingest \in Seq([status : {"fetched", "failed"}, at : Nat, stored : Nat])
    /\ fetcher \in [Fetchers ->
            [pc : {"idle", "read", "loaded", "stored"}, at : Nat, ids : SUBSET Entries,
             known : SUBSET Entries, stored : Nat]]
    /\ controls \in ControlFile
    /\ operator \in [Operators -> [loaded : BOOLEAN, from : Nat, file : ControlFile]]
    /\ \A r \in receipts : r.receipt.change \in OfferedChanges /\ r.from < r.to
    /\ DOMAIN policy = PolicyNames /\ DOMAIN cached = PolicyNames
    /\ \A name \in PolicyNames :
        LET offered == {p[name] : p \in OfferedPolicies} IN
        policy[name] \in offered
            /\ (cached[name] = <<>> \/ \E file \in offered : cached[name] = <<file>>)
    /\ env = budget.env
    /\ run.pc \in {"idle", "pilot", "authorize", "granted", "call", "escalate"}
    /\ seen \subseteq {"switch", "grant"} \cup PolicyNames

\* News are answered from items that are all different, all published and
\* fetched lately, and as many as the policy asks for, however many fetchers
\* have appended the same item (latest_news_renderer, source_item_store).
ServedIsFresh ==
    \A i \in DOMAIN log : log[i].pc = "answered" =>
        LET items == log[i].served IN
        /\ Cardinality({x.id : x \in items}) = Cardinality(items)
        /\ Cardinality(items) >= MinFresh
        /\ \A x \in items :
            /\ log[i].at <= EntryDate(x.id) + MaxItemAge
            /\ log[i].at <= x.fetched + MaxFetchAge

\* No provider is called unless the operators' switch was on at some moment of
\* the request; and, where the call goes through the authorization of the
\* provider, its grant was too, and each policy file for itself has allowed it
\* at some moment since the process began: however the controls, the files and
\* the clock change in between. The four files are loaded one after the other
\* and kept, so that they may never have allowed it together
\* (external_search_provider_authorization.py:201-204, and lru_cache, 397-516).
CallsFollowControls ==
    run.pc = "call" =>
        /\ "switch" \in seen
        /\ run.kind # "search" => {"grant"} \cup PolicyNames \subseteq seen

\* What the state of the file says of the control a change is about.
Shown(c) ==
    CASE c.control \in Switches -> controls.switch[c.control].state = "enabled"
      [] c.control = "provider_authorization" ->
            (IF c.target = "" THEN controls.provider_default
             ELSE controls.provider[c.target].state) = "allowed"
      [] OTHER ->
            (IF c.target = "" THEN controls.user_default
             ELSE controls.user[c.target].state) = "allowed"

\* The newest receipt for a control tells what the file says of it, unless
\* another operator had loaded the file before that change and saved it
\* after: changes of operators who take turns are never lost.
ChangesLostOnlyByOverlap ==
    \A r \in receipts :
        LET c == r.receipt.change IN
        \/ r.receipt.effective = Shown(c)
        \/ \E later \in receipts :
            /\ later.to > r.to
            /\ \/ later.from < r.to
               \/ /\ later.receipt.change.control = c.control
                  /\ later.receipt.change.target = c.target

\* What a caller may do to what the adapter found: pass it on, lose a
\* reference, or claim more of it.
Passed(found) ==
    {SearchArtifact(found, found.refs, claims) :
        claims \in {{}, {"derived_field"}, {"provenance_mismatch"}}}
    \cup {SearchArtifact(found, RemoveAt(found.refs, k), {}) : k \in DOMAIN found.refs}

\* The adapter tells of a call if and only if it was made, but for a payload
\* that is no object; what is taken from its artifact is all that it found or
\* nothing, each with a reference of the same id, to the same page unless the
\* provider gave one id twice.
SearchesRestOnCalls ==
    \A i \in DOMAIN log : \A found \in ToSet(log[i].found) :
        /\ found.performed <=> log[i].called /\ found.reason # "invalid_provider_payload"
        /\ \A a \in Passed(found) :
            LET items == SummaryItems(a)
                Twice(id) == Cardinality({k \in DOMAIN a.results : a.results[k].id = id}) > 1
            IN /\ items # <<>> =>
                    /\ log[i].called /\ a.claims = {}
                    /\ Len(items) = Len(found.results)
               /\ \A x \in ToSet(items) :
                    /\ [id |-> x.id, url |-> x.url] \in ToSet(found.results)
                    /\ x.ref.id = x.id /\ x.ref \in ToSet(found.results)
                    /\ Twice(x.id) \/ x.ref.url = x.url

\* Results rest on a call that was made and came back, under the authorization
\* their receipt shows, and the receipt hides neither a failure nor a result.
\* A merge takes no result but from sets that are valid; it tells where each
\* one comes from, and why any was left out; each keeps its own lineage; and
\* what comes of it is a valid set again, so that it can be merged once more.
\* So it is with the older adapter.
ResultsRestOnCalls ==
    /\ SearchesRestOnCalls
    /\ \A i \in DOMAIN log : \A r \in ToSet(log[i].receipt) :
        /\ ReceiptValid(r)
        /\ r.performed = log[i].called /\ (r.performed => r.authorization.live)
        /\ r.failed = (log[i].results = <<>>) \/ log[i].pc = "crashed"
        /\ \A s \in ToSet(log[i].results) : r.raw = Len(s.results) /\ ResultSetValid(s)
    /\ \A i \in DOMAIN merged :
        LET s == merged[i].set
            account == s.merge[1]
            Slice(seq, n) == SubSeq(seq, n.start + 1, n.end)
        IN
        /\ ResultSetValid(s) /\ s.results = s.lineage
        /\ \A x \in ToSet(s.results) :
            x[1] \in ToSet(s.receipts) /\ x \in ToSet(log[x[1]].results[1].results)
        /\ FoldLeft(LAMBDA n, input : IF input.start = n THEN input.end ELSE -1,
                    0, account.inputs) = Len(s.results)
        /\ \A n \in ToSet(account.inputs) :
            LET from == merged[i].given[n.index] IN
            /\ ResultSetValid(from)
            /\ Slice(s.results, n) = SubSeq(from.results, 1, n.accepted)
        /\ LET taken == FoldLeft(LAMBDA m, input : m + input.accepted, 0, account.inputs)
               there == FoldLeft(LAMBDA m, set : m + Len(set.results), 0, merged[i].given)
           IN taken < there => account.skipped # {}

=============================================================================
