------------------------------ MODULE RequestRun ------------------------------
(***************************************************************************)
(* One user's conversation with one agent: run_request of                  *)
(* runtime/request_runner.py and the managers it calls.  A turn is         *)
(* answered by a local workflow, by a direct path, or by a model, whose    *)
(* answer is validated and repaired, whose actions are queued, and which   *)
(* is saved as an artifact and remembered.                                 *)
(*                                                                         *)
(* Turns follow one another.  During a turn the operator may switch cloud  *)
(* execution on or off, what is called may raise, and the process may die. *)
(***************************************************************************)
EXTENDS Naturals, Sequences, FiniteSets, SequencesExt

CONSTANTS
    LocalEngines,   \* the engines of ENGINES that are not cloud engines
    CloudEngines,   \* and those that cloud execution control may block
    RecoveryOrder,  \* DEFAULT_ARTIFACT_RECOVERY_ORDER
    Routes,         \* what plans may have: a target and its fallbacks
    RepairEngine,   \* JUNIPER_STRUCTURED_REPAIR_ENGINE, or NotSet
    NotSet,
    Types,          \* the artifact types
    StrictTypes,    \* those whose contract the governance notice breaks
    MaxRepairs,     \* MAX_CONTRACT_REPAIR_ATTEMPTS
    MaxActions,     \* bound on the actions of one answer
    MaxTurns,       \* bound on the turns explored
    MaxToggles      \* bound on the operator's changes

Engines == LocalEngines \cup CloudEngines

ASSUME ConstantsAssumption ==
    /\ LocalEngines \cap CloudEngines = {}
    /\ RecoveryOrder \in Seq(Engines)
    /\ \A r \in Routes : Len(r) \in Nat \ {0}
    /\ StrictTypes \subseteq Types
    /\ MaxRepairs \in Nat /\ MaxActions \in Nat \ {0}
    /\ MaxTurns \in Nat /\ MaxToggles \in Nat

VARIABLES
    cloud,     \* whether the controls allow cloud execution
    toggles,   \* how often the operator changed that
    turn,      \* how many turns have begun
    pc,        \* what the turn does next, "idle" between turns
    plan,      \* the plan of the turn
    queue,     \* the engines that the current call has still to try
    call,      \* why they are called: "primary", "retry" or "repair"
    presence,  \* whether the user is shown that an engine is at work
    result,    \* the last answer of an engine
    dry,       \* is_dry_run, of the answer to be repaired or delivered
    repairs,   \* repairs begun in the turn
    left,      \* actions of the accepted answer not queued yet
    trace,     \* the states that the trace of the turn went through
    acts,      \* the action queue: the turns its records are of
    memory,    \* the conversation memory: turn and role of its lines
    saved,     \* the artifacts saved, the active one last
    said       \* how each turn ended

controlVars == <<cloud, toggles>>
callVars == <<queue, call, presence, result, repairs>>
fileVars == <<acts, memory, saved>>
vars == <<controlVars, turn, pc, plan, callVars, dry, left, trace, fileVars, said>>

--------------------------------------------------------------------------------
(* Plans, answers and what validation makes of them. *)

ArtifactKinds == {"create", "transform"}
ModelKinds == ArtifactKinds \cup {"answer"}

NoPlan == [kind |-> "none", type |-> NotSet, route |-> <<>>]

\* The plans of a turn.  Only an artifact has a type, which the planner may not
\* know when it makes a new one; a transform has that of the active artifact.
\* Direct paths call no engine.
Plans ==
    [kind : {"local", "direct"}, type : {NotSet}, route : {<<>>}]
        \cup [kind : {"materialized"}, type : Types, route : {<<>>}]
        \cup [kind : {"answer", "create"}, type : {NotSet}, route : Routes]
        \cup [kind : ArtifactKinds, type : Types, route : Routes]

\* Text in order, with actions, actions without text, text that breaks the
\* contract, text that tells of the task instead of doing it (or has actions
\* that cannot be read), and nothing.
\* The notice replaces the answer of a blocked engine, and one that would
\* leak the payload of a call.
Answers == {"text", "acting", "silent", "broken", "meta", "nothing", "notice"}

NoResult == [engine |-> NotSet, answer |-> "nothing", live |-> TRUE]
OwnResult == [NoResult EXCEPT !.answer = "text"]

Known(e) == e \in Engines

\* The engines tried again after an empty artifact.
RetryEngines(failed) == SelectSeq(RecoveryOrder, LAMBDA e : e # failed)

RepairTarget(attempt) ==
    IF attempt > 1 /\ RepairEngine # NotSet THEN RepairEngine ELSE plan.route[1]

Rejected(answer) ==
    \/ answer = "broken"
    \/ plan.type # NotSet /\ answer \in {"nothing", "silent"}
    \/ plan.type \in StrictTypes /\ answer = "notice"

\* How many actions an accepted answer may carry: an artifact has none.
ActionCounts(answer) ==
    IF answer \in {"acting", "silent"} /\ plan.kind \notin ArtifactKinds
    THEN 1..MaxActions
    ELSE {0}

Enter(s) == IF Last(trace) = s THEN trace ELSE Append(trace, s)

--------------------------------------------------------------------------------
Init ==
    /\ cloud \in BOOLEAN
    /\ toggles = 0
    /\ turn = 0
    /\ pc = "idle"
    /\ plan = NoPlan
    /\ queue = <<>>
    /\ call = "primary"
    /\ presence = FALSE
    /\ result = NoResult
    /\ dry = FALSE
    /\ repairs = 0
    /\ left = 0
    /\ trace = <<"received">>
    /\ acts = <<>>
    /\ memory = <<>>
    /\ saved = <<>>
    /\ said = <<>>

\* The operator switches cloud execution, or its grant expires.
Toggle ==
    /\ toggles < MaxToggles
    /\ cloud' = ~cloud
    /\ toggles' = toggles + 1
    /\ UNCHANGED <<turn, pc, plan, callVars, dry, left, trace, fileVars, said>>

\* The end of a turn: what it says to the user.
End(how) ==
    /\ said' = Append(said, [how |-> how, answer |-> result.answer])
    /\ pc' = "idle"
    /\ plan' = NoPlan
    /\ queue' = <<>>
    /\ call' = "primary"
    /\ result' = NoResult
    /\ dry' = FALSE
    /\ repairs' = 0
    /\ left' = 0

\* A mutant of Failed: the error is not reported.
FailedSilently ==
    /\ End("error")
    /\ presence' = presence
    /\ trace' = trace

\* The handler around the pipeline reports an error and apologises.
Failed ==
    /\ End("error")
    /\ presence' = presence
    /\ trace' = Enter("failed")

Receive ==
    /\ pc = "idle"
    /\ turn < MaxTurns
    /\ turn' = turn + 1
    /\ trace' = <<"received">>
    /\ pc' = "start"
    /\ UNCHANGED <<controlVars, plan, callVars, dry, left, fileVars, said>>

EmptyMessage ==
    /\ pc = "start"
    /\ End("blank")
    /\ UNCHANGED <<controlVars, turn, presence, trace, fileVars>>

\* The handlers of local workflows run before the pipeline and outside of its
\* handler of errors: one that raises ends the turn without a reply.
HandlerRaises ==
    /\ pc = "start"
    /\ End("raised")
    /\ UNCHANGED <<controlVars, turn, presence, trace, fileVars>>

LocalWorkflow ==
    /\ pc = "start"
    /\ plan' = [NoPlan EXCEPT !.kind = "local"]
    /\ result' = OwnResult
    /\ pc' = "remember"
    /\ UNCHANGED <<controlVars, turn, queue, call, presence, dry, repairs, left,
                   trace, fileVars, said>>

PlanTurn(p) ==
    /\ pc = "start"
    /\ p.kind # "local"
    /\ p.kind = "transform" => saved # <<>> /\ p.type = Last(saved).type
    /\ plan' = p
    /\ trace' = trace \o <<"routed", "context_resolved", "planned">>
    /\ result' = IF p.kind \in ModelKinds THEN NoResult ELSE OwnResult
    /\ pc' = IF p.kind \in ModelKinds THEN "prepare" ELSE "persist"
    /\ UNCHANGED <<controlVars, turn, queue, call, presence, dry, repairs, left,
                   fileVars, said>>

PlanFails ==
    /\ pc = "start"
    /\ Failed
    /\ UNCHANGED <<controlVars, turn, fileVars>>

--------------------------------------------------------------------------------
(* Calls of engines. *)

Call(engines, why) ==
    /\ queue' = engines
    /\ call' = why
    /\ pc' = "engines"

\* The messages are built, which may fail, and the primary call begins.
Prepare ==
    /\ pc = "prepare"
    /\ \/ /\ Call(plan.route, "primary")
          /\ UNCHANGED <<plan, presence, result, dry, repairs, left, trace, said>>
       \/ Failed
    /\ UNCHANGED <<controlVars, turn, fileVars>>

\* A name that is not an engine's is passed over.
UnknownEngine ==
    /\ pc = "engines"
    /\ queue # <<>>
    /\ ~Known(Head(queue))
    /\ queue' = Tail(queue)
    /\ UNCHANGED <<controlVars, turn, pc, plan, call, presence, result, dry, repairs,
                   left, trace, fileVars, said>>

\* An engine raises, or does not answer within its timeout: the next is tried.
EngineFails ==
    /\ pc = "engines"
    /\ queue # <<>>
    /\ Known(Head(queue))
    /\ Head(queue) \in CloudEngines => cloud
    /\ presence' = TRUE
    /\ trace' = Enter("executing")
    /\ queue' = Tail(queue)
    /\ UNCHANGED <<controlVars, turn, pc, plan, call, result, dry, repairs, left,
                   fileVars, said>>

\* An engine answers.  The controls are read for every attempt: a cloud engine
\* they do not allow is not called, and the notice stands for its answer.
EngineAnswers ==
    /\ pc = "engines"
    /\ queue # <<>>
    /\ Known(Head(queue))
    /\ LET blocked == Head(queue) \in CloudEngines /\ ~cloud
       IN \E a \in IF blocked THEN {"notice"} ELSE Answers :
              result' = [engine |-> Head(queue), answer |-> a, live |-> ~blocked]
    /\ trace' = Enter("executing")
    /\ presence' = FALSE
    /\ queue' = <<>>
    /\ pc' = "answered"
    /\ UNCHANGED <<controlVars, turn, plan, call, dry, repairs, left, fileVars, said>>

\* No engine is left, whether or not one was called: the call raises.
AllFailed ==
    /\ pc = "engines"
    /\ queue = <<>>
    /\ End("error")
    /\ presence' = FALSE
    /\ trace' = Enter("failed")
    /\ UNCHANGED <<controlVars, turn, fileVars>>

DryRun == ~result.live

\* An artifact that came back empty is asked for again, once; the answer to
\* be delivered says whether the turn is a dry run.  A repair does not.
Answered ==
    /\ pc = "answered"
    /\ \/ /\ call = "primary"
          /\ plan.kind \in ArtifactKinds
          /\ result.answer = "nothing"
          /\ result.live
          /\ RetryEngines(result.engine) # <<>>
          /\ Call(RetryEngines(result.engine), "retry")
          /\ UNCHANGED dry
       \/ /\ \/ call # "primary"
             \/ plan.kind \notin ArtifactKinds
             \/ result.answer # "nothing"
             \/ RetryEngines(result.engine) = <<>>
          /\ dry' = IF call = "repair" THEN dry ELSE DryRun
          /\ pc' = "validate"
          /\ UNCHANGED <<queue, call>>
    /\ UNCHANGED <<controlVars, turn, plan, presence, result, repairs, left, trace,
                   fileVars, said>>

--------------------------------------------------------------------------------
(* Validation and repair. *)

\* The answer is accepted; a dry run is not looked into.  A repaired answer is
\* validated a second time, with the same outcome.
Accept ==
    /\ pc = "validate"
    /\ dry \/ (result.answer # "meta" /\ ~Rejected(result.answer))
    /\ left' \in ActionCounts(result.answer)
    /\ pc' = "act"
    /\ UNCHANGED <<controlVars, turn, plan, callVars, dry, trace, fileVars, said>>

\* An answer that tells of the task fails the turn, in a repair too.
RejectMeta ==
    /\ pc = "validate"
    /\ ~dry /\ result.answer = "meta"
    /\ Failed
    /\ UNCHANGED <<controlVars, turn, fileVars>>

\* A mutant of Repair: the attempts are not counted.
RepairUncounted ==
    /\ pc = "validate"
    /\ ~dry /\ Rejected(result.answer)
    /\ repairs < MaxRepairs
    /\ repairs' = repairs
    /\ Call(<<RepairTarget(1)>>, "repair")
    /\ UNCHANGED <<controlVars, turn, plan, presence, result, dry, left, trace,
                   fileVars, said>>

\* A mutant of Repair: one attempt too many.
RepairOnceMore ==
    /\ pc = "validate"
    /\ ~dry /\ Rejected(result.answer)
    /\ repairs <= MaxRepairs
    /\ repairs' = repairs + 1
    /\ Call(<<RepairTarget(repairs + 1)>>, "repair")
    /\ UNCHANGED <<controlVars, turn, plan, presence, result, dry, left, trace,
                   fileVars, said>>

\* An answer that breaks its contract is repaired, by one engine and without
\* fallbacks.
Repair ==
    /\ pc = "validate"
    /\ ~dry /\ Rejected(result.answer)
    /\ repairs < MaxRepairs
    /\ repairs' = repairs + 1
    /\ Call(<<RepairTarget(repairs + 1)>>, "repair")
    /\ UNCHANGED <<controlVars, turn, plan, presence, result, dry, left, trace,
                   fileVars, said>>

\* A mutant of RepairsExhausted: the last answer is delivered as it is.
RepairsExhaustedDelivers ==
    /\ pc = "validate"
    /\ ~dry /\ Rejected(result.answer)
    /\ repairs = MaxRepairs
    /\ pc' = "act"
    /\ UNCHANGED <<controlVars, turn, plan, callVars, dry, left, trace, fileVars, said>>

RepairsExhausted ==
    /\ pc = "validate"
    /\ ~dry /\ Rejected(result.answer)
    /\ repairs = MaxRepairs
    /\ Failed
    /\ UNCHANGED <<controlVars, turn, fileVars>>

--------------------------------------------------------------------------------
(* What an accepted answer leaves behind. *)

\* The next action is put into the queue.  It may not be one that the agent
\* can take, and the owner may not be reached once it is queued.
QueueAction ==
    /\ pc = "act"
    /\ left > 0
    /\ \/ /\ Failed
          /\ UNCHANGED acts
       \/ /\ acts' = Append(acts, turn)
          /\ left' = left - 1
          /\ trace' = Enter("action_pending")
          /\ UNCHANGED <<pc, plan, callVars, dry, said>>
       \/ /\ acts' = Append(acts, turn)
          /\ End("error")
          /\ presence' = presence
          /\ trace' = Enter("action_pending") \o <<"failed">>
    /\ UNCHANGED <<controlVars, turn, memory, saved>>

ActionsQueued ==
    /\ pc = "act"
    /\ left = 0
    /\ pc' = IF dry THEN "complete" ELSE "persist"
    /\ UNCHANGED <<controlVars, turn, plan, callVars, dry, left, trace, fileVars, said>>

Artifact == [turn |-> turn, type |-> plan.type, live |-> result.live,
             repaired |-> call = "repair"]

\* The answer is saved if it is an artifact of a type that is known; that, and
\* recording afterwards what a transform led to, may fail.
Persist ==
    /\ pc = "persist"
    /\ \/ /\ saved' = IF plan.type # NotSet THEN Append(saved, Artifact) ELSE saved
          /\ pc' = "remember"
          /\ UNCHANGED <<plan, callVars, dry, left, trace, said>>
       \/ /\ Failed
          /\ UNCHANGED saved
       \/ /\ plan.kind = "transform"
          /\ saved' = Append(saved, Artifact)
          /\ Failed
    /\ UNCHANGED <<controlVars, turn, acts, memory>>

Line(role) == [turn |-> turn, role |-> role, live |-> result.live,
               repaired |-> call = "repair"]

\* A line that cannot be written fails the turn, but for a local workflow's,
\* which replies all the same.
MemoryFails ==
    IF plan.kind = "local"
    THEN /\ pc' = "complete"
         /\ UNCHANGED <<plan, callVars, dry, left, trace, said>>
    ELSE Failed

\* The user's line, then the assistant's, are appended to the memory.
RememberLine(at, role, then) ==
    /\ pc = at
    /\ \/ /\ memory' = Append(memory, Line(role))
          /\ pc' = then
          /\ UNCHANGED <<plan, callVars, dry, left, trace, said>>
       \/ /\ MemoryFails
          /\ UNCHANGED memory
    /\ UNCHANGED <<controlVars, turn, acts, saved>>

\* A mutant of Remember: the reply is remembered before the user's text.
RememberReversed ==
    \/ RememberLine("remember", "assistant", "remember reply")
    \/ RememberLine("remember reply", "user", "complete")

Remember ==
    \/ RememberLine("remember", "user", "remember reply")
    \/ RememberLine("remember reply", "assistant", "complete")

\* The reply is returned.  Local workflows do not complete their trace.
Complete ==
    /\ pc = "complete"
    /\ End(IF plan.kind \in ModelKinds THEN "model" ELSE plan.kind)
    /\ trace' = IF plan.kind = "local" THEN trace ELSE Enter("completed")
    /\ UNCHANGED <<controlVars, turn, presence, fileVars>>

\* The process ends during a turn, and is started again.
Crash ==
    /\ pc # "idle"
    /\ End("lost")
    /\ presence' = FALSE
    /\ UNCHANGED <<controlVars, turn, trace, fileVars>>

Advance ==
    \/ EmptyMessage \/ HandlerRaises \/ LocalWorkflow
    \/ \E p \in Plans : PlanTurn(p)
    \/ PlanFails \/ Prepare
    \/ UnknownEngine \/ EngineFails \/ EngineAnswers \/ AllFailed \/ Answered
    \/ Accept \/ RejectMeta \/ Repair \/ RepairsExhausted
    \/ QueueAction \/ ActionsQueued \/ Persist \/ Remember \/ Complete

Next == Toggle \/ Receive \/ Advance \/ Crash

Spec == Init /\ [][Next]_vars /\ WF_vars(Advance)

--------------------------------------------------------------------------------
(* Properties. *)

\* The types of the variables.
TypeOK ==
    /\ cloud \in BOOLEAN /\ toggles \in 0..MaxToggles
    /\ turn \in 0..MaxTurns
    /\ pc \in {"idle", "start", "prepare", "engines", "answered", "validate", "act",
               "persist", "remember", "remember reply", "complete"}
    /\ plan \in Plans \cup {NoPlan}
    /\ call \in {"primary", "retry", "repair"}
    /\ presence \in BOOLEAN /\ dry \in BOOLEAN
    /\ result \in [engine : Engines \cup {NotSet}, answer : Answers, live : BOOLEAN]
    /\ repairs \in 0..MaxRepairs /\ left \in 0..MaxActions
    /\ \A i \in 1..Len(acts) : acts[i] \in 1..turn
    /\ Len(said) = IF pc = "idle" THEN turn ELSE turn - 1

\* What a model is reported to have said kept its contract and did what was
\* asked, however it was retried and repaired (validate_runtime_response).
DeliveredWereAccepted ==
    \A i \in 1..Len(said) :
        said[i].how = "model" => said[i].answer \notin {"broken", "meta"}

\* What a turn leaves behind tells how it ended.  The memory has the turns in
\* their order, each user's line before the assistant's, and an assistant's
\* line only for a reply that was given or was lost with the process, never
\* for an error; the trace is completed exactly if the pipeline answered, and
\* failed exactly if the turn ended in an error (run_request).
RecordsTellTurns ==
    /\ \A i, j \in 1..Len(memory) : i < j =>
          \/ memory[i].turn < memory[j].turn
          \/ /\ memory[i].turn = memory[j].turn
             /\ memory[i].role = "user" /\ memory[j].role = "assistant"
    /\ \A i \in 1..Len(memory) :
          memory[i].role = "assistant" /\ memory[i].turn \in 1..Len(said) =>
              said[memory[i].turn].how \in {"model", "direct", "materialized", "local", "lost"}
    /\ pc = "idle" /\ turn > 0 =>
          /\ Last(trace) = "completed" <=>
                said[turn].how \in {"model", "direct", "materialized"}
          /\ Last(trace) = "failed" <=> said[turn].how = "error"

\* Every turn ends: fallbacks, retries and repairs are bounded, and an engine
\* answers or times out (execute_litellm).
TurnsEnd == pc # "idle" ~> pc = "idle"

\* What a disabled cloud engine stood in for is neither saved nor remembered,
\* as persist_runtime_result and run_request say of dry runs.  Refuted: a
\* repair that is blocked leaves is_dry_run as the first answer set it.
DryRunsNeverKept ==
    /\ \A i \in 1..Len(saved) : saved[i].live
    /\ \A i \in 1..Len(memory) : memory[i].live

================================================================================
