----------------------------- MODULE RequestPlanning -----------------------------
(***************************************************************************)
(* What a message is taken to ask for (planner/request_gate.py), the plan  *)
(* that comes of it (runtime/request_planner.py, planner/execution.py), the *)
(* capability it uses (planner/capability_mapping.py) and the engines that *)
(* may carry it out (policies/model_selector.py).                          *)
(*                                                                         *)
(* A message is what the classifiers find in it:                           *)
(*   empty, direct (the type of small talk, or ""), simple, long,          *)
(*   explicit, inferred (the type of artifact it asks for, or ""),         *)
(*   transform ("none", "unplanned", or the engine of a known transform),  *)
(*   names, topic (whom it mentions, and about what).                      *)
(* What a model answers is any value of the type it must have.             *)
(***************************************************************************)
EXTENDS LookupContext

CONSTANTS Capabilities,        \* capabilities: does it need approval
          FallbacksDisabled    \* the environment of the bot turns fallbacks off

ASSUME CapabilitiesAssumption ==
    Capabilities \in [DOMAIN Capabilities -> BOOLEAN] /\ FallbacksDisabled \in BOOLEAN

Known(capability) == IF capability \in DOMAIN Capabilities THEN capability ELSE ""

-----------------------------------------------------------------------------
(* The gate.                                                               *)

Modes == {"NEW_REQUEST", "TRANSFORM_EXISTING", "CONVERT_ARTIFACT", "CONTINUE_WORKFLOW",
          "ANSWER_QUESTION"}

DefaultGate ==
    [mode |-> "NEW_REQUEST", uses_artifact |-> FALSE, requires_context |-> FALSE,
     needs_capability |-> FALSE, needs_full |-> FALSE, followup |-> FALSE, fast |-> FALSE,
     direct |-> FALSE, direct_type |-> "", explicit |-> "", capability |-> "",
     model |-> TRUE, lookup |-> TRUE, workflow |-> TRUE]

\* The policies of the operations: what each mode makes of an answer.
ArtifactOperation(mode) == mode \in {"TRANSFORM_EXISTING", "CONVERT_ARTIFACT"}

NotDirect(gate) == [gate EXCEPT !.direct = FALSE, !.direct_type = "", !.model = TRUE]

OnArtifact(gate) ==
    [NotDirect(gate) EXCEPT !.capability = "", !.lookup = TRUE, !.workflow = FALSE,
        !.uses_artifact = TRUE, !.requires_context = TRUE, !.needs_capability = FALSE,
        !.followup = TRUE, !.fast = FALSE]

OnWorkflow(gate) ==
    [NotDirect(gate) EXCEPT !.lookup = TRUE, !.workflow = TRUE,
        !.requires_context = FALSE, !.needs_capability = TRUE,
        !.followup = TRUE, !.fast = FALSE]

OnQuestion(gate) ==
    [gate EXCEPT !.followup = FALSE, !.requires_context = FALSE,
        !.needs_capability = FALSE, !.uses_artifact = FALSE,
        !.model = @ /\ ~gate.direct, !.lookup = @ /\ ~gate.direct,
        !.workflow = @ /\ ~gate.direct]

OnNewRequest(gate) ==
    [NotDirect(gate) EXCEPT !.lookup = gate.needs_capability, !.workflow = FALSE,
        !.uses_artifact = FALSE, !.requires_context = FALSE, !.needs_capability = FALSE,
        !.followup = FALSE]

ByMode(gate) ==
    CASE ArtifactOperation(gate.mode)        -> OnArtifact(gate)
      [] gate.mode = "CONTINUE_WORKFLOW"     -> OnWorkflow(gate)
      [] gate.mode = "ANSWER_QUESTION"       -> OnQuestion(gate)
      [] OTHER -> OnNewRequest([gate EXCEPT !.mode = "NEW_REQUEST"])

\* A direct response is the fast path, unless something else is needed.
Settled(gate) ==
    LET busy == gate.needs_capability \/ gate.needs_full \/ gate.requires_context
        kept == IF busy THEN [NotDirect(gate) EXCEPT !.fast = FALSE] ELSE gate
        direct == kept.direct /\ kept.direct_type # ""
    IN [kept EXCEPT !.direct = direct, !.fast = @ \/ direct, !.model = @ /\ ~direct,
           !.lookup = @ /\ ~direct, !.workflow = @ /\ ~direct]

DeriveGate(answer) ==
    Settled(ByMode([answer EXCEPT !.capability = Known(@)]))

\* answer: <<>> where the model fails. What the classifiers find comes first.
AnalyzeRequestGate(message, history, answer) ==
    DeriveGate(
        IF message.empty THEN DefaultGate
        ELSE IF message.direct # ""
        THEN [DefaultGate EXCEPT !.mode = "ANSWER_QUESTION", !.fast = TRUE,
                 !.direct = TRUE, !.direct_type = message.direct, !.model = FALSE,
                 !.lookup = FALSE, !.workflow = FALSE]
        ELSE IF ~history /\ message.simple THEN [DefaultGate EXCEPT !.fast = TRUE]
        ELSE IF message.explicit # "" THEN [DefaultGate EXCEPT !.explicit = message.explicit]
        ELSE IF message.long
        THEN [DefaultGate EXCEPT !.needs_capability = TRUE, !.needs_full = TRUE]
        ELSE IF answer = <<>> THEN [DefaultGate EXCEPT !.needs_full = TRUE]
        ELSE Over(answer[1], DefaultGate))

-----------------------------------------------------------------------------
(* The active artifact: <<>> or <<[id, names, type, grounding]>>.          *)

LoadedArtifact(gate, artifact) == IF gate.uses_artifact THEN artifact ELSE <<>>

MayGround(artifact) ==
    ArtifactAttaches(artifact) /\ (artifact # <<>> => artifact[1].grounding)

-----------------------------------------------------------------------------
(* The capability.                                                         *)

ArtifactCreationCapability(type) ==
    CASE type = "email_draft"   -> "draft_email"
      [] type = "lower_third"   -> "create_lower_third"
      [] type = "producer_note" -> "producer_note"
      [] OTHER                  -> ""

\* A capability that acts is not used for what only makes an artifact.
PlannedCapability(operation, type, explicit) ==
    IF Known(explicit) = "send_email" /\ operation = "ACTION" THEN explicit
    ELSE IF Known(explicit) \notin {"", "send_email"} THEN explicit
    ELSE ArtifactCreationCapability(type)

-----------------------------------------------------------------------------
(* The engines, in the order of the registry. What is not said is 1 for    *)
(* reasoning and 0 for translation and speed.                              *)

EngineOf(name, cloud, web, reasoning, creative, translation, speed) ==
    [name |-> name, cloud |-> cloud, web |-> web, reasoning |-> reasoning,
     creative |-> creative, translation |-> translation, speed |-> speed]

Engines ==
    <<EngineOf("local_router_primary",    FALSE, FALSE, 1, 1, 0, 0),
      EngineOf("local_agent",             FALSE, FALSE, 1, 2, 0, 0),
      EngineOf("local_reasoner_fallback", FALSE, FALSE, 4, 4, 3, 1),
      EngineOf("cloud_fast",              TRUE,  FALSE, 4, 4, 5, 3),
      EngineOf("cloud_deep",              TRUE,  FALSE, 5, 5, 5, 1),
      EngineOf("cloud_web_fast",          TRUE,  TRUE,  4, 4, 4, 2),
      EngineOf("cloud_web_deep",          TRUE,  TRUE,  5, 5, 4, 1)>>

EngineNames == {e.name : e \in Range(Engines)}
WebEngines == {e.name : e \in {f \in Range(Engines) : f.web}}

If(condition, points) == IF condition THEN points ELSE 0
Lacking(required, quality) == If(quality < required, required - quality)

OfTheWeb(needs) == needs.current \/ needs.web
NeedsCloud(needs) == OfTheWeb(needs) \/ needs.fidelity \/ needs.depth = "deep"
RequiredQuality(level) ==
    CASE level \in {"deep", "high"} -> 5 [] level = "medium" -> 3 [] OTHER -> 1

Score(e, needs) ==
    LET deep == needs.depth = "deep"
        artifact == needs.output = "artifact"
        heavy == needs.depth \in {"medium", "deep"} \/ needs.style = "high" \/ artifact
    IN  (IF e.cloud THEN -10 ELSE 20)
      + If(NeedsCloud(needs), IF e.cloud THEN 35 ELSE -10)
      + If(OfTheWeb(needs), IF e.web THEN 50 ELSE -80)
      + If(needs.fidelity, e.translation * 8 - If(e.translation < 4, 40))
      + If(artifact, If(e.name = "local_agent", 18)
                     + If(e.name = "local_reasoner_fallback", 22)
                     - If(e.cloud /\ ~deep, 15))
      + e.creative * 4 - 6 * Lacking(RequiredQuality(needs.style), e.creative)
      + e.reasoning * 3 - 8 * Lacking(RequiredQuality(needs.depth), e.reasoning)
      + If(e.name = "local_reasoner_fallback", IF heavy THEN 14 ELSE -10)
      - If(e.name \in {"cloud_deep", "cloud_web_deep"} /\ ~deep, 35)
      + If(NeedsCloud(needs) /\ ~deep /\ e.name \in {"cloud_fast", "cloud_web_fast"}, 15)
      + CASE needs.latency = "fast"     -> e.speed * 2
          [] needs.latency = "balanced" -> e.speed
          [] OTHER                      -> 0

\* The best first; of two that score the same, the first in the registry.
ByScore(needs) ==
    LET scored == {<<Score(Engines[i], needs), i>> : i \in DOMAIN Engines}
        ahead(e) == {f \in scored : f[1] > e[1] \/ (f[1] = e[1] /\ f[2] < e[2])}
        ranked(n) == CHOOSE e \in scored : Cardinality(ahead(e)) = n - 1
    IN [n \in DOMAIN Engines |-> Engines[ranked(n)[2]]]

Names(engines) == [i \in DOMAIN engines |-> engines[i].name]

\* What makes an artifact stays local unless it asks for the web itself.
SelectEngine(needs) ==
    IF (needs.output \in {"artifact", "translation", "summary"} \/ needs.semantic)
       /\ ~needs.web
    THEN [engine |-> "local_agent",
          fallbacks |-> <<"local_router_primary", "cloud_fast", "cloud_deep">>]
    ELSE LET ranked == ByScore(needs)
             rest == Wanted(Tail(ranked), {e \in Range(Engines) : OfTheWeb(needs) => e.web})
         IN [engine |-> ranked[1].name, fallbacks |-> Names(FirstOf(rest, 3))]

\* An agent may ask for an engine of its own.
AtLeast(tier, selected) ==
    IF tier \notin EngineNames \/ tier = selected.engine THEN selected
    ELSE [engine |-> tier,
          fallbacks |-> Wanted(<<selected.engine>> \o selected.fallbacks, EngineNames \ {tier})]

\* For LockOffTheWeb: the fallbacks stay as they are.
LockTargetOnly(plan) ==
    IF plan.output # "artifact" \/ plan.online THEN plan
    ELSE [plan EXCEPT !.engine = CASE @ = "cloud_web_fast" -> "cloud_fast"
                                   [] @ = "cloud_web_deep" -> "cloud_deep"
                                   [] OTHER                -> @]

\* What needs no web is kept off it.
LockOffTheWeb(plan) ==
    LET engine == CASE plan.engine = "cloud_web_fast" -> "cloud_fast"
                    [] plan.engine = "cloud_web_deep" -> "cloud_deep"
                    [] OTHER                          -> plan.engine
    IN IF plan.output # "artifact" \/ plan.online THEN plan
       ELSE [plan EXCEPT !.engine = engine,
                !.fallbacks = Wanted(@, Range(@) \ (WebEngines \union {engine}))]

-----------------------------------------------------------------------------
(* The plan. What a model or an agent says of the task may not speak of    *)
(* governance, but for a block that can be observed and nothing more.      *)
(* paths: the kinds of the keys on each path through what it says.         *)

Observational(block) ==
    block.keys \subseteq {"visible"} /\ block.safe /\ ~block.reinterpreted /\ block.attaches

GovernanceIntrudes(said) ==
    \/ \E path \in said.paths : Range(path) \intersect {"governance", "diagnostic"} # {}
    \/ \E block \in said.visibility : ~Observational(block)

DefaultNeeds ==
    [output |-> "artifact", semantic |-> TRUE, current |-> FALSE, web |-> FALSE,
     fidelity |-> FALSE, depth |-> "low", style |-> "high", latency |-> "fast"]

Plan(capability, metadata, needs, selected) ==
    [capability |-> capability, metadata |-> metadata, direct |-> "",
     output |-> needs.output, online |-> OfTheWeb(needs) \/ needs.fidelity,
     web |-> needs.web,
     engine |-> selected.engine,
     fallbacks |-> IF FallbacksDisabled THEN <<>> ELSE selected.fallbacks]

DirectPlan(type) ==
    [Plan("", NoMetadata, [DefaultNeeds EXCEPT !.output = "general_answer"],
          [engine |-> "fast_path_direct_response", fallbacks |-> <<>>])
        EXCEPT !.direct = type]

ContinuePlan(capability) ==
    LET needs == [DefaultNeeds EXCEPT !.output = "action", !.semantic = FALSE,
                                      !.style = "medium"]
    IN Plan(PlannedCapability("ACTION", "", capability), NoMetadata, needs,
            SelectEngine(needs))

\* A transform uses no capability, and looks nothing up.
TransformPlan(engine) ==
    Plan("", NoMetadata, DefaultNeeds,
         [engine |-> engine,
          fallbacks |-> Wanted(<<"local_agent", "cloud_deep">>,
                               {"local_agent", "cloud_deep"} \ {engine})])

\* said: what the agent says of the task, if it says anything.
SemanticPlan(type, capability, said, message, agent) ==
    LET planned == PlannedCapability("NEW_REQUEST", type, capability)
        needs == IF said = <<>> THEN DefaultNeeds ELSE Over(said[1].needs, DefaultNeeds)
        tier == IF said = <<>> THEN "" ELSE said[1].tier
    IN Plan(planned,
            DeclareLookupMetadata(AgentBinding(agent, planned, Capabilities), message),
            needs, AtLeast(tier, SelectEngine(needs)))

\* The model may say what to look up, and never with which capability.
ModelPlan(said) ==
    LET needs == [said.needs EXCEPT !.semantic = FALSE] IN
    Plan("", said.metadata, needs, SelectEngine(needs))

\* The type of what is to be made; intent: what the agent takes the message for.
SemanticType(gate, artifact, message, intent) ==
    CASE gate.mode = "TRANSFORM_EXISTING" -> IF artifact = <<>> THEN "" ELSE artifact[1].type
      [] gate.mode = "CONVERT_ARTIFACT"   -> message.inferred
      [] gate.mode = "NEW_REQUEST"        ->
            IF gate.explicit # "" THEN gate.explicit
            ELSE IF intent # <<>> THEN intent[1].type ELSE ""
      [] OTHER                            -> ""

Continues(gate, artifact, followup) ==
    gate.mode = "CONTINUE_WORKFLOW" /\ (artifact # <<>> \/ followup = "CONTINUE")

\* <<>> where planning fails; said: the planner's model, <<>> where it fails.
BuildExecutionPlan(gate, artifact, message, followup, intent, said, agent) ==
    LET asked == gate.mode = "NEW_REQUEST" /\ gate.explicit = ""
        told == IF asked THEN intent ELSE <<>>
        capability == IF told # <<>> /\ told[1].capability # "" THEN told[1].capability
                      ELSE gate.capability
        transform == IF ArtifactOperation(gate.mode) THEN message.transform ELSE "none"
        type == SemanticType(gate, artifact, message, told)
        made == IF type # "" THEN type ELSE message.inferred
    IN CASE gate.direct -> <<DirectPlan(gate.direct_type)>>
         [] ~gate.direct /\ Continues(gate, artifact, followup) ->
                <<ContinuePlan(capability)>>
         [] ~gate.direct /\ transform # "none" /\ type = "" -> <<>>
         [] ~gate.direct /\ transform \notin {"none", "unplanned"} /\ type # "" ->
                <<TransformPlan(transform)>>
         [] OTHER ->
                IF made # ""
                THEN IF told # <<>> /\ GovernanceIntrudes(told[1].said) THEN <<>>
                     ELSE <<SemanticPlan(made, capability, told, message, agent)>>
                ELSE IF said = <<>> \/ GovernanceIntrudes(said[1].said) THEN <<>>
                     ELSE <<ModelPlan(said[1])>>
================================================================================
