# Juniper runtime: verification project

TLA+ modules that model the parts of the Juniper runtime in which order,
overlap, failure, restarts and edited files matter, TLC configurations that check
them, and proofs that TLAPS checks. Paths below are relative to `src/`.

## The system

Two bots (`gateway/`, not in the repository) receive messages and hand each to
`run_request`, which answers it by a local workflow, by a direct path, or by a
model. What a message asks for is planned first; the plan may look things up, and
what is found is injected into the model's messages. A model's answer may contain
actions, which are queued for the owner to approve. News and guests are answered
from local data and, where an operator allows it, from outside. Declared workflows
retrieve, notify and suspend until someone approves them; some run on a schedule.

All state that outlives a call is in JSON and JSONL files. There is no database
and there is not one lock on a file; some files are replaced atomically, others are
appended to. Operators and administrators edit the files while the processes run;
some files are read again at each use, others once in a process.

| Component | State | Operations | Talks to |
|---|---|---|---|
| Workflow instances, suspension, approval, continuation, delivery (`runtime/workflows`) | instance file, transition audit file | suspend, approve, deny, resume, prepare a delivery | callers in the gateway; several processes share the files |
| Declared workflows (`declarations`, `nesting`, `transitions`, `trust_*`, `approval_progression`, `materialization`, `execution`, `notification`) | declaration files; trust beside an instance | load, nest, follow a transition, retrieve, notify, inherit trust | workflow instances, bindings, executors |
| Lookup batch (`runtime/lookup/execution.py`) | a thread pool, a thread per lookup off the main thread, an alarm on it | execute planned lookups, time out, collect | executors of the agents |
| Request planner and gate (`planner`, `runtime/request_planner.py`, `runtime/policies/model_*`) | none | gate, plan, choose engines | request pipeline, bindings |
| Lookup planning, context and summary (`runtime/lookup`, `runtime/bindings.py`, registries) | binding files, registries kept by the process | declare, create, check, materialize, render, budget, inject, summarize | planner, lookup batch, trace |
| Scheduler loop (`runtime/scheduling`, task and source registries) | window locks in memory, audit file, status file, manifests, contracts kept by the process | poll, lock, run, audit, write a heartbeat | local workflows; the operator edits manifests and registries |
| Request pipeline (`runtime/request_runner.py`, the managers) | trace of the turn, memory file, active artifact | call engines with fallbacks, retry, repair, validate, queue actions, save, remember | engines (LiteLLM), operational controls, action queue |
| Action queue (`runtime/actions`, `runtime/action_manager.py`) | queue file | append, list, set a status, execute | bots in processes of their own; the owner |
| Stop-asking policies (`runtime/governance/stop_asking.py`) | policy file | create, revoke, evaluate | action queue |
| Operational controls (`runtime/governance/operational_controls.py`) | control file | change, evaluate | everything that calls out |
| Source ingestion (`runtime/ingestion`) | item file, audit file | fetch, append, read the latest, judge freshness | news workflows |
| News workflows and external search (`agents/alexis/workflows`, `runtime/workflows/rss_*`, `runtime/adapters`, `runtime/artifacts/external_search*`, `runtime/policies`) | policy files kept by the process | judge the cache, authorize, call a provider, build receipts and result sets, merge them | item store, controls, providers |
| Guest discovery (`adequacy`, `candidate_merge`, `ranking`, `external_discovery_boundary`, `adapters/cloud_web_ai.py`, two registries) | registries kept by the process | judge the database, open a discovery, call a model, merge, rank | controls, providers |
| Runner (`runner/dev.py`) | service processes and their restarts | start, monitor, stop | the bots |
| Other registries, contracts, artifacts, context adapters, semantics, agents' tools | manifests, read once | validate, select, render | everything |

What makes each of them correct, and is hard to test:

- the store of instances must stay sound when two callers load it and each
  replaces it whole, and when one dies before it has audited what it wrote; a
  decision counts once, a resumption hands its actions out once;
- a workflow that is loaded must not run itself through others; a retrieval runs
  under the bindings as they are when it runs; trust verified for one step must
  not reach another workflow or agent over an approval and a resumption;
- a lookup that times out leaves a thread behind whose late answer must not be
  taken; results must come back in planner order; a batch must end even if an
  executor never does;
- the bindings are read again at each step of a turn, while they are edited one
  file at a time: what is looked up and injected must follow what the turn itself
  resolved, and the summary must tell what was injected and why nothing was;
- a window is locked before anything is run, by locks that are forgotten with
  the process; what the audit says must be what was run, after any crash; one
  entry of a manifest that is not sound must not silence the others;
- fallbacks, the retry of an empty artifact, and repairs are three nested ways
  of calling an engine again, during which cloud execution may be switched off;
  what is remembered and traced must agree with the reply;
- the queue is replaced whole by one process while another appends to it;
- the controls are replaced whole by operators, expire, and are read one after
  the other before a call: a call must rest on what was allowed, its receipt must
  tell whether it was made, and results must rest on such receipts;
- two fetchers append the same item twice, and a reader must not count it twice;
- candidates are the same guest if keys connect them, in whatever order they come.

`PROJECT.json` lists each of these at its line, with the properties that watch it.

## Modules

| Composed module | Is made of | MC module |
|---|---|---|
| `WorkflowApproval` (implements `WorkflowLifecycle`) | | `MCWorkflowApproval` |
| `DeclaredWorkflow` | `WorkflowActions` <- `WorkflowDeclarations` <- `LookupRequests`, `WorkflowTrust` | `MCDeclaredWorkflow` |
| `LookupExecution` | | `MCLookupExecution` |
| `LookupPlanning` | `RequestPlanning` <- `LookupContext` <- `LookupRequests` <- `LookupPolicies` <- `Lists` | `MCLookupPlanning` |
| `SchedulerLoop` | `ScheduledTasks` <- `Manifests`; an instance of `SourceDeclarations` | `MCSchedulerLoop` |
| `RequestRun` | | `MCRequestRun` |
| `ActionQueue` | | `MCActionQueue` |
| `NewsRetrieval` | `SourceCache`, `SearchApi`; `ProviderPolicy` <- `OperationalControls`, `SearchResults` | `MCNewsRetrieval` |
| `GuestDiscovery` | `GuestCandidates`; `ExternalDiscovery` <- `ProviderPolicy`; both <- `Lists` | `MCGuestDiscovery` |

The modules on the right of an arrow hold the pure decisions of the code as
operators; those on the left have the state and the steps. A text is what the
properties tell apart of it: a name, a length, the set of the fields it has, the
classifications it gets. A decision of the code collects reasons against itself and
allows what has none; so do the operators.

### WorkflowLifecycle and WorkflowApproval

`WorkflowLifecycle` is what the approval workflow promises for one suspended
step: it is suspended, decided at most once, resumed at most once, and a denial
ends it until the step is suspended again.

`WorkflowApproval` is the code. `store` is the instance file and `audit` the
file of transitions. Each call is cut where another caller or a crash can come
in between, and `calls` holds what a caller has seen so far:
`StartSuspension`, `StartDecision` and `StartResumption` are the checks of
`suspension.py`, `approval.py` and `continuation.py` on an instance that was
read; `Load` and `Write` are `update_workflow_instance` and
`append_workflow_instance` of `instances.py`, which read the file again and
replace it; `AppendAudit` is the audit line. `Crash` ends a call at any of these
points, and, while the line is written, may leave the beginning of it (`torn`): the
line of the next caller is then written onto it, and the reader
(`load_workflow_transition_audit_records`) drops both. An entry of `audit` therefore
says which torn line, if any, it stands `after`. `PrepareDelivery` is `delivery.py`.

Abstractions: the instance id is always the one derived from the continuation; a
lineage hash is a fresh number; a refused call changes nothing and is no step;
the governance of the call, the workflow and the step is one switch; a line is short
enough for one `write`, so that two live callers do not mix theirs, and one torn just
before its newline is taken as torn; `atomic_write_text` replaces the file in one step; the `approved` flag with which
a caller resumes a pending instance is its caller's to give. Receipts and
artifacts are left out; trust is `DeclaredWorkflow`'s.

### WorkflowDeclarations, WorkflowTrust, WorkflowActions and DeclaredWorkflow

`WorkflowDeclarations` has what a file may declare, which references are found,
the cycle check with its path and its set of visited workflows, the transitions,
and the graph of the workflows that a workflow runs. `WorkflowTrust` has the
lineage of a trust, its inheritance over a boundary, and what an approval makes of
it. `WorkflowActions` makes the retrieval, the notice and the suspension of a step.

`DeclaredWorkflow` walks through them. `walk` is what a caller has loaded and where
it is, `instance` the suspended instance. `LoadWorkflow`, `MakeRetrieval`,
`Retrieve`, `Notify`, `TakeTransition` and `Suspend` are the caller's,
`Verify`, `Decide` and `Resume` the operator's, `EditFile` and `EditAgent` the
administrator's: the caller goes on with what it has loaded, the operator's steps
read the files anew.

Abstractions: nothing under `src/` but tests drives these operations, so the driver
is an external caller that takes one operation at a time and stops at a suspension.
Nothing under `src/` writes `provenance.trust_state` either; `Verify` is
external. There is one instance and the operator's steps are not interleaved, as
the store is `WorkflowApproval`'s. The graph is expanded when a workflow is loaded;
the texts of templates are well-formed.

### LookupExecution

One batch in one of three modes: in a pool, one by one on the main thread with an
alarm, or one by one on another thread. `StartExecutor`, `JoinTimesOut`, `Look`,
`Alarm` and `Collect` are the steps of `execute_lookup_request(s)`; executors
answer, raise, hang or answer late. The alarm goes off once and raises an `Exception`
into the executor, which may catch it and go on: `AlarmSwallowed`. Abstractions: the planner requires a lookup
capability, so a lookup without policy is refused; the pool is first in, first out;
how the alarm handler of the main thread is set and put back, and what that would do to
an alarm of somebody else, are left out. What a batch's results become is `LookupContext`'s.

### LookupPolicies, LookupRequests, LookupContext, RequestPlanning and LookupPlanning

`LookupPolicies` reads the contract all agents share and the seven files an agent's
bindings are split over, and makes a capability of the two. `LookupRequests` has
the contracts of the two types of lookup, what a planner declares, and the requests
made of it. `LookupContext` goes from results to packets, the gate before they may
be shown, blocks, the budget, the injection behind the attachment guard, the status
of the batch (`lifecycle.py`) and the summary. `RequestPlanning` has the gate, the
plan, its capability and its engines.

`LookupPlanning` is a bot's turns up to the messages its model gets: `TakeMessage`,
`MakePlan`, `ResolveCapability`, `CreateLookupRequest`, `AllCreated`,
`ExecuteLookupRequest`, `AttachResults`, and `ReplyDirectly` or
`InjectLookupContext`. `agent` and `shared` are the files, edited by `EditAgent` and
`EditShared`; `cache` is what the process keeps of the shared ones until `Restart`.

Abstractions: a message is what the classifiers find in it; what a model answers
when it is asked to classify or plan is any value of the type it must have; turns
answered otherwise than by the model are `RequestRun`'s, and so is what the engines
do; `gateway.context_resolver.resolve_followup` is external. What a file says is
optional, so files and the code's defaults are records laid one `Over` the other.
Lists are filtered by the set of what is `Wanted`, and what the code computes in a
loop is a recursive function or a fold, so that it can be reasoned about.

Three assumptions are about what the planner is given. The names of a message are a
list of names (`MessagesAssumption`). An agent that says the web is needed, and which
engine at the least, says a web engine, as the one place where the agents say so does
(`agents/alexis/semantics/guest_intent.py`; `HintsAssumption`). The executor of exact
lookups finds one record and gives no reason, or none and gives one
(`guest_db/exact_entity_lookup_adapter.py`; `OutcomesAssumption`); that of bounded
searches may give as many as it likes.

### Manifests, ScheduledTasks, SourceDeclarations and SchedulerLoop

`Manifests` is how a registry reads its files: contracts, sound as a whole or not
used at all, and an agent's manifest of entries, each of which is sound or left out,
and which is empty if two have one id. `ScheduledTasks` and `SourceDeclarations`
say what is sound, and which tasks the executor runs.

`SchedulerLoop` has the iterations of `run_scheduler_loop`: `Poll` reads the clock
and the manifest and locks all windows that are due and enabled, `Skip`, `Execute`
and `ExecuteRaises` serve them one by one, `AppendAudit` audits, and the heartbeat
actions write the status file. `queue` holds the positions, in the manifest, of the
tasks whose windows this iteration has locked and not yet served; a manifest is
loaded by leaving its unsound entries out and the others at their positions. `Crash`
ends the process anywhere; a new life has
empty locks and has read no contracts. The audit may be left with an unfinished
line, onto which the first one of the next life is written, so that neither can be
read (`readable`).

Abstractions: a cron expression is the set of minutes it matches; the clock is read
once per iteration; one scheduler process lives at a time; edits are bounded; of the
workflows only the feed check is more than a result, and it never fetches, its plans
being dry runs; an audit line cut off just before its newline, which could be read until
the next one is written, is taken as unreadable; an entry that raises where it is judged
(a list or an object as `governance_state` or as the type of the schedule) is not among
the entries. Registry audits, the validation of readiness, the payloads of
heartbeats and telemetry reports are left out.

### RequestRun

The turns of one user. `pc` is where `run_request` is, `queue` the engines that
the current call has still to try, `call` whether that is the first call, the
retry of an empty artifact or a repair; `acts`, `memory`, `saved` and `trace` are
the action queue, the memory file, the artifacts and the states of the trace. The
operator switches cloud execution at any time (`cloud`); whatever is called may
raise, and the process may die. Abstractions: the turns of one user follow one
another (the callers are in the gateway); prompts, context injection and failures
of the event log are left out; a transform always has an active artifact and
makes one; an answer without an artifact type is not saved; the second validation
of one answer says what the first said; an event that maps to the state the trace
is in adds no state.

### ActionQueue

`file` is the queue file, as a function from ids to statuses, since nothing relies
on its order; `torn` says that a bot died in the middle of a line, which loses
that line and the one appended to it. Bots `Enqueue`, `Evaluate` the stop-asking
policies and `NotifyOwner`. The keeper (the bot the owner replies to) decides and
executes; its update of a status is two steps, `LoadQueue` and `ReplaceQueue`.
Processes end anywhere and are restarted a limited number of times, as
`runner/dev.py` does. Abstractions: ids are fresh (eight hex digits of a UUID; a
collision is not modelled); all policies have the scope of all actions; the
keeper is the only process that updates statuses and policies.

### OperationalControls, SourceCache, SearchResults, SearchApi, ProviderPolicy and NewsRetrieval

`OperationalControls` has the file of controls, the questions asked of it and the
change of it. `SourceCache` has which items are stored, read, fresh and enough.
`SearchResults` has a provider's answer, its receipt, the result set made of it, the
validators of both, and the bounded merge. `SearchApi` has when the older adapter
calls, what it makes of a payload, and the artifact and the source items of a summary
that a caller makes of that. `ProviderPolicy` has the decisions before
a call: pilot, handoff, escalation, authorization, execution class.

`NewsRetrieval` runs them together. Fetchers `FetchFeed`, `LoadIds`, `AppendItems`,
`AuditFetch` and may die in any of these; operators `LoadControls` and
`SaveControls`; the policy files are edited in place, one at a time (`EditPolicy`).
A bot answers one request after the other: news (`StartNews`, `PilotBoundary`), contacts of guests
(`StartGuest`) or a search by the older adapter (`StartSearch`), and before it calls
(`CallProvider`) it loads those of the four policy files that it does not keep yet
(`cached`), each in a step of its own (`LoadPolicyFile`), then reads the grant and the
switch one after the other (`ReadGrant`, `ReadSwitch`); the older adapter calls with `CallSearchProvider`.

Abstractions: an item's id is its entry, since the hash is over what an entry has; the
new items of one fetch are appended in an arbitrary order; an
entry that no fetch could still see is not published (bound); result sets are merged
by an external caller once all its requests are over (bound), and one of them may
have been altered on the way, which is what the validator is for; so may what the older adapter found; timings and lists
of failure reasons are left out of receipts; quotas are stored and read by nothing.

### GuestCandidates, ExternalDiscovery and GuestDiscovery

`GuestCandidates` has what is made of lists of candidates: whether the database has
answered, which candidates are the same guest, their order. `ExternalDiscovery` has
the declarations and pilots, the authorization of a live discovery, the adapter, the
boundary and its receipt, and the candidates that come of an answer.

`GuestDiscovery` takes a request through them: `TakeRequest`, `Judge`, then outside
by a cloud model (`Declare` or `OpenClosed`, `ReadPilots`, `Open`, and the answers of the
adapter) or by Tavily (`NotSearched`, `SearchContacts`), then `MergeLists` and `Rank`.
`known` is what the bot keeps of the registries it has read. The policy of cloud
providers is one of them, with all that it sets: modes, live states, whether a dry run
is forced and tests are blocked, blocked channels and sources; what stands in for one
that cannot be read is `FallbackPolicy`. Operators edit the registries
(`EditFiles`), switch the control (`ChangeControl`) and end and restart the bot.

That candidates, results, pages and the entries of a registry are lists is in
`GuestAssumption`: the code asks `isinstance` before it looks into them.

Abstractions: scores count in halves; a candidate from the web is what identifies it;
the execution of Tavily is `NewsRetrieval`'s and here completes or not; query texts,
prompts and explanations are left out. Declarations, pilots and the policy are read in
steps of their own; the policy and the control, read one right after the other, in one
step. The three files of contact safety are one record, and so are the registries as an
operator edits them: the property asks each registry for itself, at a moment of its
own, so a mixture is not taken for a state that was in force.

The MC modules hold the files, messages, answers and requests that TLC is given, and
the symmetric sets. A module `X_proofs` has the theorems about `X`.

## Runs

| Run | Instance | Distinct states | Question |
|---|---|---|---|
| WorkflowSerial | 1 caller, 2 continuations, 4 transitions | 507,530 | do calls that do not overlap, but may crash, keep the promised life (`LifecycleSpec`), tell the truth in their provenance and deliver only what is approved? |
| WorkflowOverlap | 2 callers, 2 continuations, 3 transitions, callers symmetric | 958,018 | does the store stay sound, and the audit without unexplained gaps, when calls overlap and die, in mid-line too? |
| DeclaredWorkflow | 3 workflows that run one another, 2 walks of 2 transitions, 2 edits | 69,852 | is exactly what has no cycle loaded, do retrievals run under the bindings as they are, does trust stay in the scope it was verified for, but for what a decision says was lost? |
| LookupBatch | 3 lookups, 1 or 2 workers, all three modes | 299,250 | are the results of a batch complete and in order, are no more executors than workers waited for, and does every batch end that can? |
| LookupPlanning | 2 turns, 2 edits of 7 files, restarts | 342,908 | do lookups and what is injected follow what the turn resolved, does the budget cut from the end, does the summary tell why, do engines follow the needs of the plan? |
| SchedulerLoop | 3 tasks (cron, interval, feed check), 4 instants, 2 lives, 1 edit | 132,070 | is a window run once per process, is every sound task served, is what can be read of the audit true, are feeds judged alike? |
| RequestRun | 2 turns, 3 engines, 2 routes, 2 repairs, 1 switch | 782,343 | do replies, memory and trace agree, and does every turn end? |
| RequestDryRepair | 1 turn | violation | is a blocked answer ever kept? |
| ActionQueue | 1 bot and the keeper, 3 ids, 1 policy, 1 restart each, symmetric ids | 4,443,165 | does what was read stay, and is nobody asked about what is muted? |
| ActionQueueRace | the same | violation | is every queued action in the queue? |
| NewsRetrieval | 10 scenarios of 2 fetchers, 2 operators and 1 bot, 3 instants | 709,443 | is what is answered fresh, do calls follow the controls, are changes lost only by overlap, do results rest on calls? |
| GuestDiscovery | 2 requests of 9, 6 states of the registries, 3 of the control, 2 environments, 2 edits | 323,368 | were calls authorized, do receipts own up to them, does the merge group by identity? |

Why the bounds are enough. What can go wrong between callers needs two of them and
one instance; the second continuation is there because the file is replaced whole,
so that one continuation's update can undo another's. Four transitions are a
suspension, a decision, a resumption, and a new suspension. Three workflows can run
one another twice on different ways and in a circle; two edits change a declaration
and a binding between a step and the next. Three lookups and two workers make one
lookup wait. Two turns and two edits have a file change between any two readings of
a turn, and a registry that is kept from the turn before. Two lives and four
instants, two to a minute, have polls within a window, at its edge, and a restart
within it. Two turns of `RequestRun` are what it takes for the memory and the
artifact of one to meet the other. Three actions are one that is decided, one whose
status a replacement could revert, and one that is appended meanwhile. The scenarios
of `NewsRetrieval` each let one part move at a time, as the parts meet only in
what a request reads, and the clock where the point is time: fetchers that overlap and die, operators who overlap with each
other and with a request, one policy file edited between the loads of two others or while a process keeps
it, results of two requests merged twice. Among its policy files are all that allow the
call, a governance that does not, a list of bindings with an id twice, and a contract
with a flaw; with two edits the bot comes to keep a mixture that was never in force. Two edits of `GuestDiscovery` are a change and a change
back, or a change and a restart; two of the states of its registries have a lenient
policy, with a pilot that is only audited and without a pilot; its longest list has a candidate that joins two
groups. Deadlock is checked in SchedulerLoop, LookupBatch and the Workflow runs; it
is not where the system may rest: between turns, requests and walks, and when every
service has used up its restarts.

### Fairness

Two properties are of liveness. `BatchEnds` assumes weak fairness of what the
runtime does itself (`FairSpec`): its threads run, its join times out, its alarm goes
off. It assumes nothing of the executors, which may hang for ever, and fairness does not
choose what the alarm does to one: it ends it or is swallowed. A batch whose executor on
the main thread has swallowed its only alarm and does not answer (`Unstoppable`) does not
end, so the property is of the batches that are, again and again, not in that state. `TurnsEnd` assumes weak
fairness of the turn's next step; an engine call is such a step because
`execute_litellm` gives every call a timeout. Neither assumes that the process
survives or that the operator does anything. That a scheduled workflow ends is not
claimed, since `max_runtime_ms` is declared and never enforced.

### What the violations show

- A repair that the cloud control blocks returns a notice whose `dry_run` is
  dropped: the notice is saved as the artifact and remembered (RequestDryRepair).
- `update_action_status` replaces the queue by what it read before: an action that
  another process appends in between is lost, after its owner was told of it
  (ActionQueueRace). `SeenNeverLost` is what does hold: nothing that was read is.

### What the code does that a reader might not expect

These are in the models, and the properties are stated around them.

- `process_workflow_approval_event` checks the state it has read, and
  `update_workflow_instance` writes over the state it then finds: of two overlapping
  decisions the second changes the first. `LifecycleSpec` therefore holds only of
  calls that do not overlap; `LineageSound` is what holds of those that do.
- The window locks are in memory: a scheduler restarted within a window runs a due
  task again. `OncePerWindow` is of one process.
- A direct answer takes the trace from `planned` to `completed`, which
  `lifecycle.py` does not allow; nothing calls `validate_transition`.
- An approval stores the lineage of the step as it is then beside a trust that was
  verified for the step as it was: edited in between, the step inherits a trust
  that was verified for another capability, although the decision's own diagnosis said
  that nothing of it is left, and although `trust_lineage.py:45`
  (`"cross_scope_trust_inheritance_allowed": False`), `trust_inheritance.py:138` and
  `docs/semantic_runtime_architecture.md:151` exclude it. `TrustStaysInScope` names this
  way as its only exception: without it TLC finds Verify, EditFile, Decide, Resume.
- A crash in the middle of a line of the transition audit costs two transitions: the
  next caller's line is joined onto what is left, and the reader drops what the two make,
  though that caller finished its call. The audit of the scheduler has the same, and its
  loader raises. `AuditGapsAreCrashes` and `AuditMatchesRuns` say that nothing else is
  missing, and that one crash takes at most one other line along.
- The alarm of a lookup on the main thread is an `Exception`, and there is only one: an
  executor that catches `Exception` and goes on has no timeout any more (`BatchEnds`).
- The four policy files of the search provider are loaded one after the other and kept,
  so a bot may decide for good by a mixture that was never in force.
  `CallsFollowControls` asks each file for itself; asked of the four together, TLC finds
  it false.
- The policy of cloud providers may let tests call, and pilots that are only audited:
  `CallsWereAuthorized` asks for a policy that was in force and bears the request,
  whatever that policy says.
- A search by the older adapter asks the switch but no authorization of the
  provider, so `CallsFollowControls` asks more of the other two ways.
- A discovery whose adapter raises after its provider was called, or whose answer is
  no object, leaves a receipt without the call: `ReceiptsOwnUpToCalls`. So does a search
  by the older adapter whose payload is no object: `SearchesRestOnCalls`.
- Of two pilots that a registry has for one provider the first that matches counts
  (`runtime/policies/cloud_provider_pilot_registry.py:354`), so that a smaller limit of
  the second bounds nothing: `CallsWereAuthorized` speaks of the first.
- A change of a control without an expiry keeps the one the entry had: a control
  switched on again after it expired stays expired.

## Proofs

Every theorem holds for all values of the constants under the assumptions that the
modules name. These are of types and bounds: numbers of callers, turns, edits and
lives are numbers, files have the entries of their registries, the limits of a
request are numbers. `LookupPlanning` adds the three of its section above. Sets (of
callers, bots, actions, fetchers, operators, entries,
requests, engines, files) are arbitrary, and so are what files say. TLC evaluates
the assumptions in the runs. The one hypothesis besides is `OneCaller`, below.

Each module proves an inductive invariant in which the properties stand beside what
they rest on; `Init` has it, every action keeps it, and the theorems follow. A proof
has a lemma for a group of actions that change the same state, and one for each
operator whose value decides what a step may do.

`WorkflowApproval_proofs`, however calls overlap and crash:

- `TypeCorrect`: `TypeOK`.
- `LineageAlwaysSound`: `LineageSound`. It is not inductive by itself, because a
  call writes a file it has loaded earlier: the invariant also says that every
  loaded file is sound. A write then replaces one sound file by another in which
  one lineage is longer by a transition that starts where the lineage ended.
- `AuditGapsOnlyCrashes`: `AuditGapsAreCrashes`. The invariant (`AuditInv`) also
  accounts for the transitions in the files that callers have loaded, since a write can
  bring back an older file. `TornInv` says that a torn line is of a caller that crashed,
  that no finished line stands on it yet, and that no two stand on the same one.

and, if there is one caller (`OneCaller`), who may crash in any call while the
governance is edited:

- `ProvenanceAlwaysTells`: `ProvenanceTellsDecision`;
  `DeliveriesFollowApprovals`: `DeliveryFollowsApproval`.
- `ImplementsLifecycle`: `LifecycleSpec`, that every step of `WorkflowApproval` is a
  step of `WorkflowLifecycle` or none, where the phase of a continuation is the state
  that the file has of it (`PhaseOf`).

All three rest on `CallsAreCurrent`: what a call has checked of an instance and
loaded of the file is still so when it writes. That is false of two callers, and so
are the three properties (the first of "What the code does that a reader might not
expect"), so the hypothesis cannot be dropped; WorkflowSerial checks one caller, too.

`ActionQueue_proofs`, for any number of bots, actions, policies and restarts:

- `TypeCorrect`: `TypeOK`.
- `QueueAlwaysSound`: `SeenNeverLost`, `StatusesNeverReverted`,
  `StatusesTellOutcomes`. What makes them inductive is `ReadIsSound`: the copy the
  keeper is about to write back has every action ever read, with its last status,
  and the status to be set is the outcome of a tool that ended; and
  `UnseenAreFresh`: what was never read has never been written, so an appended
  action cannot disagree with a status written before. This is the argument why
  losing appended actions is the only damage that the race can do.
- `NeverAskedAndMuted`: `AskedOrMuted`, from `BotsAskOnce`: no two bots are busy with
  the same action, and a busy bot's action is not yet asked about or kept back.

`LookupExecution_proofs`, for any number of lookups and workers, in all three modes:

- `TypeCorrect`: `TypeOK`; `ResultsInPlannerOrder`: `PlannerOrder`;
  `OnlyTimeoutsAbandon`: `OrphansTimedOut`.
- `OutcomesAreFinal`, of steps: a lookup that is over stays over with its outcome, and
  a batch that has returned keeps its results, whatever an abandoned executor answers.
- The invariant (`StageTellsExecutor`, `AnswersAreHeard`, `OutcomeIsFinal`) relates how
  far a lookup is, its executor and the answer there is: only the executor of a lookup
  that timed out can still go on, so that no other can answer late. `WaitedForAreFew`
  bounds those that are waited for; of those left behind there is no bound.
  `NoneIsLeftActive` says why a batch that raised leaves no lookup half done.

`RequestRun_proofs`, for any engines, routes, turns and repairs:

- `TypeCorrect`: `TypeOK`; `DeliveredAnswersWereAccepted`: `DeliveredWereAccepted`;
  `RecordsTellHowTurnsEnded`: `RecordsTellTurns`.
- The invariant carries the acceptance of an answer from validation to the reply
  (`AnswersArePlanned`), says which lines of the memory the current turn can have
  written so far (`LinesAreInTime`), and that the trace of a turn that is not over has
  no last state (`TraceIsOpen`). The ends of a turn are one lemma (`TurnEnds`), since an
  exception can end it anywhere.

`SchedulerLoop_proofs`, for any manifests, clocks, edits, and numbers of processes:

- `TypeCorrect`: `TypeOK`; `RunsOncePerWindow`: `OncePerWindow`; `AuditTellsRuns`:
  `AuditMatchesRuns`; `FeedsAreJudgedAlike`: `FeedVerdictsAgree`; `SoundTasksServed`:
  `SoundTasksAreServed`.
- `OncePerWindow` follows from two facts: the windows that were run in this life are
  locked (`RunsAreLocked`), and those in the queue are locked but not run
  (`QueueIsLocked`), so that a poll, which takes unlocked windows, cannot take one
  twice. `LocksAreServed` is the converse: no lock is without a run, a refusal or a
  place in the queue, and after a poll no eligible task is without a lock.
  `AuditIsDue` says which run the next line is of. `LinesMatchRuns` is of all lines; that
  one which cannot be read is the first of a life after one that died is `TornInv`. `ChecksFollowContracts` reduces two
  equal verdicts on the same feeds to the contracts that a process keeps for its life.
- `SoundEntriesAreLoaded` is the lemma that an entry which is sound by itself is
  loaded, whatever its neighbours are, unless two have one id.

`NewsRetrieval_proofs`, for any fetchers, operators, controls, policy files and
requests:

- `TypeCorrect`: `TypeOK`; `CallsAreAllowed`: `CallsFollowControls`;
  `LostChangesOverlapped`: `ChangesLostOnlyByOverlap`; `AnswersServeFresh`:
  `ServedIsFresh`.
- A request that calls has read what allows it at different times: `AllowedWasSeen`
  says that the grant and the switch were so when they were read, in this request, and
  `KeptWasSeen` that each policy file the process keeps was installed as it is kept, at a
  moment of its own in the life of the process. The lemmas `SwitchAllows`, `GrantAllows`
  and `DecisionPermits` say what the file of controls and each policy file must be like
  for the three decisions to be positive.
- A change that does not show in the file must be overtaken (`Overtaken`) by one that
  is later and of the same control, or that was made on a file loaded before it.
  `LoadedShowsChanges` says the same of the files that operators have loaded, up to
  when they loaded them, which is what a save needs.
- `AnswersAreFresh` is the lemma that what is selected from the cache is fresh, read,
  and has each id once, though the file may have an item twice.

`LookupPlanning_proofs`, for any files, edits, messages, answers of the models and
results of lookups within the three assumptions:

- `TypeTheorem`: `TypeOK`; `EnginesTheorem`: `EnginesFollowNeeds`; `SummaryTheorem`:
  `SummaryTellsWhy`; `BudgetTheorem`: `BudgetDropsTheTail`; `RulesTheorem`:
  `LookupsFollowTurnsRules`.
- `TurnSteps` says what each step of a turn computes and keeps. The invariant is one
  conjunct for each stage: `PlanInv` (a direct answer has no capability; metadata that
  come of the text declare names only), `RequestsInv` (each request is the root of its
  number, and what is made of a text is an exact lookup), `BundleInv` (the rules a turn
  resolved are sound), `ResultsInv` (a result is of a request, and one that was executed
  under the rules of the turn), `AttachedInv` and `InjectionWell` (what is shown is what
  the counts, then the length, leave of the blocks rendered of those results). Each
  needs the one before, as a turn reads what the stage before it left.
- Each stage has a lemma that says what its operator gives for every argument. That
  the budget cuts from the end is `DropTailStep` (one cut of blocks that are a cut of
  the first ones is again one) along the recursion of `WithinLength`; that no engine
  is tried twice and the web engines come first when the web is needed is
  `ByScoreOrders` and `SelectEngineSound`, of a ranking that counts who is ahead.
- The recursive functions and folds are unrolled (`Recursion`, `Unrolls`) by a least
  counterexample (`LeastNumber`), as the induction theorems of the library take an
  operator as a parameter, which the provers cannot instantiate.

`GuestDiscovery_proofs`, for any registries, requests, environments and controls:

- `TypeCorrect`: `TypeOK`; `CallsAuthorized`: `CallsWereAuthorized`;
  `ReceiptsTellOfCalls`: `ReceiptsOwnUpToCalls`; `MergedByIdentity`:
  `MergeGroupsByIdentity`.
- As the bot keeps the registries it has read, what allows a call may be gone from the
  files by then. `AllowedWasSeen` covers both, what is installed and what is kept;
  `KnownFiles` says that what is kept was once installed. `RunShapes` says how far
  into a request something can have been called. `OpensAuthorized` is the lemma that an
  open discovery has a declaration, a control that allows it, and a policy that bears the
  request under the governance of the first pilot, or, without one, of the declaration
  (`LiveByPilot`, `CallBorne`), and asks for no more than each of them allows; its first
  version spoke of every pilot of the provider, failed to be proved, and TLC confirmed
  why (see above). The policy is any: what it says is not assumed.

- That the merge groups by identity is an invariant of its loop (`Grouped`): each group
  made so far is joined, that is no part of it is apart from the rest; two groups share
  no key; the first of a group stands before its others; and the firsts stand in the
  order of the groups. The last is why the group that others are emptied into is led by
  the first of them all, and would be lost if an occurrence joined another group than
  the least. `PlaceAlone` and `PlaceJoins` are the two ways an occurrence is placed,
  `GroupsFacts` the loop. `GroupsShowIdentity` needs of it that the occurrences of the
  lists are read in their order (`OccurrencesInOrder`), so that a place tells one from
  another; `MergeInv` carries to the merge that the lists are lists.

What stays with TLC, and why:

- `BatchEnds` and `TurnsEnd`: liveness under fairness, and ENABLED.
- `ResultsRestOnCalls`: the bounded merge of results and the accounts it is compared with
  are folds over `SelectSeq`, of which the provers know nothing for a list of any length.
  Written with the sets and recursive functions of `Lists`, as `GuestDiscovery` is, they
  could be reasoned about; this has not been done, so the property is model-checked only.
- The properties of `DeclaredWorkflow`, which reaches the recursive `Visit` and `Graph`
  of the search for cycles. A theorem cannot be in a module that reaches a recursive
  operator; and that the search finds every cycle is what `LoadsWhatIsAcyclic` is about,
  so the recursion is not a detail to be abstracted.
- The two violations, which are counterexamples.

In `SchedulerLoop` a list is filtered by its positions, in `GuestDiscovery` and
`LookupPlanning` by the set of what is wanted, and not by `SelectSeq`, where it is
reasoned about; the groups of a merge are a recursive function, and a ranking counts
who is ahead.

## Not modelled

Whole parts, with the reason, are in `PROJECT.json` with status `not_modelled`. They
keep no state that several steps share (static registries, validation by shape,
rendering, text parsing, audits of source text, telemetry that nothing reads), or
only read what others keep, or are not in the repository (`gateway`, `memory`,
`tools/executor`, the engines). They are most of the lines the map does not cover;
most others are, in files that are modelled, dataclasses that carry values from one
function to the next, conversions to and from JSON, wording of reasons, and
validators of finished records that repeat the checks of those who made them.

Hazards that no property watches, as the code promises nothing there:

- a store of instances that cannot be read is taken for an empty one, and the next
  suspension replaces it (`runtime/workflows/instances.py:378`);
- a crash after the store says resumed and before the receipt is returned loses the
  remaining actions (`runtime/workflows/continuation.py:228`);
- the alarm of a lookup can go off in the `finally` that cancels it
  (`runtime/lookup/execution.py:279`);
- the status file is emptied before it is written
  (`runtime/scheduling/workflow_telemetry.py:177`): the model has the step, but no
  reader relies on the file;
- an interval task is due only at an instant its interval divides
  (`runtime/scheduling/workflow_orchestration.py:308`): a poll that misses it skips
  the window, so no property says that every window is run;
- `max_runtime_ms` of a task is never enforced
  (`runtime/scheduling/workflow_executor.py:214`);
- `execute_action` does not look at the status, so that an action can be run twice
  (`runtime/actions/executor.py:6`);
- a bot that dies between queueing an action and notifying the owner leaves one that
  nobody hears of (`runtime/action_manager.py:114`);
- actions of an answer are queued before its artifact is saved, and stay queued if
  saving fails (`runtime/request_runner.py:841`);
- the active artifact is loaded again when a transform is saved
  (`runtime/persistence_manager.py:44`): turns of one user are taken to follow one
  another;
- one declaration file that is not JSON stops all of an agent's workflows from
  loading (`runtime/workflows/declarations.py:127`).

## Plan

1. Core (done): workflow store, lookup batch, scheduler, request pipeline, action
   queue; the proofs of the store and the queue.
2. Extension (done): operational controls, ingestion, news retrieval, guest
   discovery, lookup planning, declared workflows with their trust, and the
   registries behind the scheduler.
3. Proofs (done): the store for one caller and its refinement, the lookup batch, the
   request pipeline, the scheduler, news retrieval, guest discovery, lookup planning.
4. Left: lemmas on `WorkflowTrust` (an inherited trust has the scope it was verified
   for), as `TrustStaysInScope` itself is of a module that reaches recursive
   operators; the merge of results, `ResultsRestOnCalls`.

## Running

    tlc -config WorkflowSerial.cfg MCWorkflowApproval.tla
    tlapm WorkflowApproval_proofs.tla

and likewise for each configuration in the table of runs, with the MC module of its
specification, and for each module whose name ends in `_proofs`.
