------------------------------ MODULE LookupPlanning ------------------------------
(***************************************************************************)
(* The turns of a bot, one after another, up to the messages its model     *)
(* gets: the gate, the plan, the lookups that are declared, created,       *)
(* executed, attached and injected (runtime/request_planner.py and the     *)
(* part of request_runner.py that injects).                                *)
(*                                                                         *)
(* An administrator edits the files meanwhile, one at a time. The bindings *)
(* are read anew each time they are asked for; the contract and the two    *)
(* registries are kept by the process from their first reading on.         *)
(***************************************************************************)
EXTENDS RequestPlanning

CONSTANTS InstalledAgent, InstalledShared,   \* the files at the start
          AgentEdits,     \* for each file of bindings, what it may become
          SharedEdits,    \* for each shared file, what it may become
          Messages, Answers, Artifacts,
          Hints,          \* what the agent and the models say when a turn is planned
          Outcomes,       \* for each type of lookup, what comes of calling its executor
          MaxTurns, MaxEdits                  \* bounds

ASSUME BoundsAssumption == MaxTurns \in Nat /\ MaxEdits \in Nat

\* Whom a message mentions is a list of names.
ASSUME MessagesAssumption == \A message \in Messages : message.names \in Seq(STRING)

\* An agent that says a task needs the web, and which engine it takes at the
\* least, names one of the web (agents/alexis/semantics/guest_intent.py).
ASSUME HintsAssumption ==
    \A hint \in Hints :
        hint.intent # <<>> =>
            LET told == hint.intent[1] IN
            Over(told.needs, DefaultNeeds).web /\ told.tier \in EngineNames
                => told.tier \in WebEngines

\* The executor of exact lookups finds one record and gives no reason, or finds
\* none and gives one (guest_db/exact_entity_lookup_adapter.py); that of bounded
\* searches finds as many as it may.
ASSUME OutcomesAssumption ==
    \A outcome \in Outcomes["exact_entity_lookup"] :
        /\ outcome.kind \in OutcomeKinds
        /\ outcome.kind = "answer" /\ outcome.ok =>
              /\ outcome.executed /\ outcome.reasons = {}
              /\ outcome.payloads = <<>> \/ outcome.payloads = <<outcome.payloads[1]>>

VARIABLES agent,      \* the agent's files
          shared,     \* the contract's sections, and the files of the registries
          cache,      \* what the process has read of them: <<>> or <<it>>
          turn,       \* the turn that runs, or the last one
          turns, edits
vars == <<agent, shared, cache, turn, turns, edits>>

NothingRead == [contract |-> <<>>, exact |-> <<>>, bounded |-> <<>>]

NoDecision == [allowed |-> FALSE, reasons |-> {}, mode |-> "none", ids |-> {}]

NoTurn ==
    [pc |-> "idle", message |-> <<>>, gate |-> DefaultGate, artifact |-> <<>>,
     plan |-> <<>>, bundle |-> <<>>, todo |-> <<>>, traces |-> <<>>, requests |-> <<>>,
     results |-> <<>>, packets |-> <<>>, decision |-> NoDecision, rendered |-> <<>>,
     injection |-> <<>>, summary |-> <<>>]

Init ==
    /\ agent = InstalledAgent /\ shared = InstalledShared
    /\ cache = NothingRead /\ turn = NoTurn /\ turns = 0 /\ edits = 0

-----------------------------------------------------------------------------
(* What the process reads.                                                 *)

Cached(kept, read) == IF kept = <<>> THEN <<read>> ELSE kept

Contract == Cached(cache.contract, LoadContract(shared.contract))[1]

Registries ==
    [exact |-> Cached(cache.exact, LoadExactContracts(shared.exact))[1],
     bounded |->
        Cached(cache.bounded, LoadBoundedContracts(shared.bounded))[1]]

\* The contract is asked for once all else of the binding is in order.
AsksForContract(capability) ==
    LET manifest == Manifest(agent)
        ids == Registered(manifest, capability)
    IN /\ capability # "" /\ Cardinality(ids) = 1
       /\ \A id \in ids : RegistrationNormal(manifest.bindings[id])

WithContract(kept, capability) ==
    IF AsksForContract(capability) THEN [kept EXCEPT !.contract = Cached(@, Contract)]
    ELSE kept

\* A registry is asked for where a request of its type is to be checked.
WithRegistry(kept, type) ==
    IF type = "bounded_entity_search"
    THEN [kept EXCEPT !.bounded = Cached(@, Registries.bounded)]
    ELSE [kept EXCEPT !.exact = Cached(@, Registries.exact)]

Resolve(capability) == ResolveLookupCapability(agent, capability, Contract)

-----------------------------------------------------------------------------
(* A turn.                                                                 *)

Environment == UNCHANGED <<agent, shared, edits>>

\* For TakeMessage: what the last turn left is not cleared.
TakeMessageOver ==
    /\ turn.pc \in {"idle", "done", "failed"}
    /\ turns < MaxTurns
    /\ turns' = turns + 1
    /\ \E message \in Messages, history \in BOOLEAN, answer \in Answers :
          turn' = [turn EXCEPT !.pc = "gated", !.message = <<message>>,
                      !.gate = AnalyzeRequestGate(message, history, answer)]
    /\ UNCHANGED cache /\ Environment

TakeMessage ==
    /\ turn.pc \in {"idle", "done", "failed"}
    /\ turns < MaxTurns
    /\ turns' = turns + 1
    /\ \E message \in Messages, history \in BOOLEAN, answer \in Answers :
          turn' = [NoTurn EXCEPT !.pc = "gated", !.message = <<message>>,
                      !.gate = AnalyzeRequestGate(message, history, answer)]
    /\ UNCHANGED cache /\ Environment

MakePlan ==
    /\ turn.pc = "gated"
    /\ \E artifact \in Artifacts, hint \in Hints :
          LET loaded == LoadedArtifact(turn.gate, artifact)
              plan == BuildExecutionPlan(turn.gate, loaded, turn.message[1],
                                         hint.followup, hint.intent, hint.said, agent)
              resolves == turn.gate.followup /\ ~ArtifactOperation(turn.gate.mode)
          IN turn' = IF ~MayGround(loaded) \/ (resolves /\ hint.followup = "raises") \/ plan = <<>>
                     THEN [turn EXCEPT !.pc = "failed"]
                     ELSE [turn EXCEPT !.pc = "planned", !.artifact = loaded,
                              !.plan = <<LockOffTheWeb(plan[1])>>]
    /\ UNCHANGED <<cache, turns>> /\ Environment

\* Without a capability of lookups the turn goes on without one.
ResolveCapability ==
    /\ turn.pc = "planned"
    /\ cache' = WithContract(cache, turn.plan[1].capability)
    /\ turn' = [turn EXCEPT !.pc = "creating", !.bundle = Resolve(turn.plan[1].capability),
                   !.todo = Todo(turn.plan[1].metadata)]
    /\ UNCHANGED turns /\ Environment

Summarized(t) ==
    [t EXCEPT !.summary =
        <<Summary(t.traces, t.requests, t.results, t.packets, t.decision, t.injection)>>]

\* A request for which nothing was resolved resolves the capability itself.
CreateLookupRequest ==
    /\ turn.pc = "creating" /\ turn.todo # <<>>
    /\ LET capability == turn.plan[1].capability
           resolved == IF turn.bundle # <<>> THEN turn.bundle ELSE Resolve(capability)
           planned == CreateRequest(capability, Head(turn.todo).item, resolved, Registries,
                                    Head(turn.todo).ordinal, Len(turn.requests) + 1)
           read == IF turn.bundle # <<>> THEN cache ELSE WithContract(cache, capability)
           checked == planned.request # <<>>
                      \/ planned.reasons \intersect {"invalid_exact_entity_lookup_request",
                                                     "invalid_bounded_entity_search_request"} # {}
       IN /\ cache' = IF checked THEN WithRegistry(read, resolved[1].request.lookup_type)
                      ELSE read
          /\ turn' = [turn EXCEPT !.todo = Tail(@), !.requests = @ \o planned.request,
                         !.traces = IF planned.status = "lookup_not_declared" THEN @
                                    ELSE Append(@, [reasons |-> planned.reasons])]
    /\ UNCHANGED turns /\ Environment

AllCreated ==
    /\ turn.pc = "creating" /\ turn.todo = <<>>
    /\ turn' = Summarized([turn EXCEPT !.pc = "executing"])
    /\ UNCHANGED <<cache, turns>> /\ Environment

-----------------------------------------------------------------------------
(* Execution, under what the turn resolved when it was planned.            *)

ExecuteLookupRequest ==
    /\ turn.pc = "executing"
    /\ Len(turn.results) < Len(turn.requests)
    /\ LET request == turn.requests[Len(turn.results) + 1]
           refused == Refused(request, turn.bundle, Registries)
       IN /\ cache' = WithRegistry(cache, request.lookup_type)
          /\ \E outcome \in Outcomes[request.lookup_type] :
                turn' = [turn EXCEPT !.results = Append(@,
                            IF refused # {} THEN Result(request, FALSE, <<>>, refused)
                            ELSE FromExecutor(request, outcome))]
    /\ UNCHANGED turns /\ Environment

-----------------------------------------------------------------------------
(* Attachment and injection: by the policies of the turn, if its           *)
(* capability lets lookups into the context.                               *)

ContextPolicy(bundle, section) ==
    IF bundle = <<>> THEN <<>>
    ELSE IF ~ContextAllowed(bundle[1].governance) THEN <<>>
    ELSE <<bundle[1][section]>>

AttachResults ==
    /\ turn.pc = "executing"
    /\ Len(turn.results) = Len(turn.requests)
    /\ LET packets == Materialize(turn.results, ContextPolicy(turn.bundle, "materialization"))
           policy == ContextPolicy(turn.bundle, "render")
           decision == RenderGate(packets, policy)
       IN turn' = Summarized([turn EXCEPT !.pc = "attached", !.packets = packets,
                                 !.decision = decision,
                                 !.rendered = Render(packets, decision, policy)])
    /\ UNCHANGED <<cache, turns>> /\ Environment

DirectReply(t) ==
    /\ t.gate.fast /\ t.gate.mode = "ANSWER_QUESTION"
    /\ t.gate.direct /\ t.plan[1].direct = t.gate.direct_type
    /\ t.plan[1].engine = "fast_path_direct_response"

\* A direct response needs no messages.
ReplyDirectly ==
    /\ turn.pc = "attached" /\ DirectReply(turn)
    /\ turn' = [turn EXCEPT !.pc = "done"]
    /\ UNCHANGED <<cache, turns>> /\ Environment

InjectLookupContext ==
    /\ turn.pc = "attached" /\ ~DirectReply(turn)
    /\ turn' = Summarized([turn EXCEPT !.pc = "done",
            !.injection = <<Inject(turn.rendered, turn.decision,
                                   ContextPolicy(turn.bundle, "injection"))>>])
    /\ UNCHANGED <<cache, turns>> /\ Environment

-----------------------------------------------------------------------------
(* The administrator, and the bot's process.                               *)

EditAgent ==
    /\ edits < MaxEdits
    /\ edits' = edits + 1
    /\ \E i \in DOMAIN AgentEdits : \E file \in AgentEdits[i] :
          agent' = [agent EXCEPT !.files[i] = file]
    /\ UNCHANGED <<shared, cache, turn, turns>>

EditShared ==
    /\ edits < MaxEdits
    /\ edits' = edits + 1
    /\ \E name \in DOMAIN SharedEdits : \E file \in SharedEdits[name] :
          shared' = [shared EXCEPT ![name] = file]
    /\ UNCHANGED <<agent, cache, turn, turns>>

Restart ==
    /\ turn # NoTurn \/ cache # NothingRead
    /\ cache' = NothingRead /\ turn' = NoTurn
    /\ UNCHANGED turns /\ Environment

Next ==
    \/ TakeMessage \/ MakePlan \/ ResolveCapability \/ CreateLookupRequest \/ AllCreated
    \/ ExecuteLookupRequest \/ AttachResults \/ ReplyDirectly \/ InjectLookupContext
    \/ EditAgent \/ EditShared \/ Restart

Spec == Init /\ [][Next]_vars

-----------------------------------------------------------------------------
(* Properties.                                                             *)

Steps == {"idle", "gated", "planned", "creating", "executing", "attached", "done", "failed"}

\* The variables keep their shape, and a step of a turn has what it needs
\* of the steps before it.
TypeOK ==
    /\ turns \in 0 .. MaxTurns /\ edits \in 0 .. MaxEdits
    /\ turn.pc \in Steps
    /\ (turn.message = <<>>) <=> (turn.pc = "idle")
    /\ (turn.plan = <<>>) <=> (turn.pc \in {"idle", "gated", "failed"})
    /\ turn.gate.mode \in Modes
    /\ \A name \in DOMAIN cache : Len(cache[name]) <= 1
    /\ Len(turn.results) <= Len(turn.requests)
    /\ turn.pc \in {"executing", "attached", "done"} => turn.todo = <<>>

\* Whatever becomes of the files during a turn, a lookup runs only under the
\* capability the turn resolved when it was planned, enabled and of that
\* scope, and what is injected are allowed fields of what such a lookup
\* found, in no more blocks, facts and characters than that capability has.
LookupsFollowTurnsRules ==
    /\ \A r \in Range(turn.results) : r.executed =>
          /\ turn.bundle # <<>>
          /\ LET b == turn.bundle[1] IN
             /\ b.governance = "enabled"
             /\ r.request.lookup_type = b.request.lookup_type
             /\ r.request.fields.source_scope \in b.request.allowed_source_scopes
    /\ turn.injection # <<>> /\ turn.injection[1].allowed =>
          LET b == turn.bundle[1]
              blocks == turn.injection[1].fragment[1].blocks
          IN /\ b.governance = "enabled"
             /\ Len(blocks) <= b.injection.max_blocks
             /\ LengthOf(blocks) <= b.injection.max_total_characters
             /\ \A block \in Range(blocks) :
                   /\ Len(block.facts) <= b.injection.max_facts_per_block
                   /\ {fact.field : fact \in Range(block.facts)}
                         \subseteq Range(b.materialization.allowed_fields)
                   /\ \E r \in Range(turn.results) :
                         r.executed /\ r.request.id = block.id /\ r.request.root = block.root

\* The budget takes from the end: what is injected begins as what was
\* rendered begins, block by block and fact by fact; a block is shortened
\* below what the policy counts only when those after it are down to one fact
\* each, and a block is dropped for its length only when all are.
BudgetDropsTheTail ==
    turn.injection # <<>> /\ turn.injection[1].allowed =>
        LET policy == turn.bundle[1].injection
            counted == WithinCounts(turn.rendered[1].blocks, policy)
            blocks == turn.injection[1].fragment[1].blocks
            shortened(i) == Len(blocks[i].facts) < Len(counted[i].facts)
            single(i) == Len(blocks[i].facts) = 1
        IN /\ LengthOf(counted) <= policy.max_total_characters => blocks = counted
           /\ Len(blocks) \in 1 .. Len(counted)
           /\ \A i \in DOMAIN blocks :
                 /\ blocks[i].root = counted[i].root
                 /\ blocks[i].facts # <<>> /\ IsPrefix(blocks[i].facts, counted[i].facts)
                 /\ shortened(i) => \A j \in i + 1 .. Len(blocks) : single(j)
           /\ Len(blocks) < Len(counted) => \A i \in DOMAIN blocks : single(i)

\* A turn that set out to look something up and injected nothing says why,
\* and one that injected something reports a success; each request is the
\* root of a lineage of its own.
SummaryTellsWhy ==
    turn.pc = "done" =>
        LET s == turn.summary[1] IN
        /\ s.attempted /\ s.injected = 0 => s.reasons # {}
        /\ s.injected > 0 => s.status \in {"success", "partial_success"}
        /\ s.successful + s.failed = Cardinality(s.roots)
        /\ s.status = "success" => s.failed = 0 /\ s.records = Cardinality(s.roots)

\* The engines of a plan: one that asks for the web has engines of the web
\* and no others, one that makes an artifact offline has none of them, and no
\* plan falls back to an engine it has tried.
EnginesFollowNeeds ==
    turn.plan # <<>> /\ turn.plan[1].direct = "" =>
        LET plan == turn.plan[1]
            tried == <<plan.engine>> \o plan.fallbacks
        IN /\ IsInjective(tried)
           /\ plan.web => Range(tried) \subseteq WebEngines
           /\ plan.output = "artifact" /\ ~plan.online =>
                 Range(tried) \intersect WebEngines = {}
================================================================================
