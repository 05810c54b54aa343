--------------------------- MODULE WorkflowDeclarations ---------------------------
(***************************************************************************)
(* The workflows an agent declares: what a file may declare, which of them *)
(* may refer to which (workflows/declarations.py), where a result leads    *)
(* (workflows/transitions.py), and the graph of the workflows that a       *)
(* workflow runs (workflows/nesting.py).                                   *)
(*                                                                         *)
(* A file is [form, workflow, type, owner, governance, steps], form being  *)
(* "object" where the file can be read. A step is a record of the fields   *)
(* below; "" stands for a field that is not there.                         *)
(***************************************************************************)
EXTENDS LookupRequests, WorkflowTrust

CONSTANT MaxDepth      \* how deep a graph is followed

ASSUME DepthAssumption == MaxDepth \in Nat

StepKinds ==
    {"retrieval", "selection", "artifact_generation", "action_generation",
     "approval_handoff", "delivery_placeholder", "workflow_call"}

OperationKinds ==
    {"retrieval", "selection", "artifact_generation", "action_generation",
     "delivery_preparation", "wait_for_approval", "notify_and_continue",
     "rank_candidates", "draft_artifact", "run_workflow"}

OutputTypes ==
    {"lookup_result_set", "ranked_entity", "artifact", "typed_action", "approval_request",
     "placeholder", "workflow_result"}

DeclaredGovernance == {"enabled", "disabled", "audit_only"}

-----------------------------------------------------------------------------
(* What a step may declare.                                                *)

\* What kind of operation a step is, if it does not say.
OperationKind(step) ==
    IF step.given # "" THEN step.given
    ELSE CASE step.kind = "approval_handoff"     -> "wait_for_approval"
           [] step.kind = "delivery_placeholder" -> "delivery_preparation"
           [] step.kind = "workflow_call"        -> "run_workflow"
           [] OTHER                              -> step.kind

Suspending(step) == OperationKind(step) = "wait_for_approval"

\* The ways to retrieve, each with the type of its lookups.
LookupTypeOf ==
    [exact_lookup |-> "exact_entity_lookup", bounded_lookup |-> "bounded_entity_search",
     semantic_lookup |-> "semantic_entity_search"]

\* Semantic lookups stay on this machine.
SemanticModeSound(m) ==
    /\ m.local /\ ~m.live_embeddings /\ ~m.cloud_embeddings /\ m.backend # ""
    /\ Field(m, "threshold", 0) \in 0 .. 100
    /\ m.max_candidates >= 0
    /\ m.status = "implemented" => m.enabled /\ m.max_candidates >= 1

ModeSound(mode, m) ==
    /\ m.lookup_type = LookupTypeOf[mode]
    /\ m.status \in {"implemented", "declared_only", "not_implemented"}
    /\ mode = "semantic_lookup" => SemanticModeSound(m)

RetrievalModesSound(modes) ==
    modes # <<>> =>
        LET supported == modes[1].supported IN
        /\ DOMAIN supported \subseteq DOMAIN LookupTypeOf
        /\ modes[1].default \in DOMAIN supported
        /\ \A mode \in DOMAIN supported : ModeSound(mode, supported[mode])

\* What acts needs approval; what is only a placeholder never delivers.
StepSound(step) ==
    /\ step.id # "" /\ step.operation # ""
    /\ step.kind \in StepKinds /\ OperationKind(step) \in OperationKinds
    /\ step.output \in OutputTypes /\ step.governance \in DeclaredGovernance
    /\ step.output = "typed_action" => step.action # ""
    /\ step.action = "send_email" => step.approval
    /\ step.kind = "delivery_placeholder" => ~step.delivers /\ step.approval
    /\ OperationKind(step) = "run_workflow" <=> step.ref # ""
    /\ step.kind = "retrieval" => RetrievalModesSound(step.modes)

-----------------------------------------------------------------------------
(* What a file may declare.                                                *)

Terminate == "__terminate__"
Outcomes == {"success", "failure", "inadequate"}

Targets(step) == Range(step.next) \ {""}

TransitionsKnown(steps) ==
    \A s \in Range(steps) :
        Targets(s) \subseteq {t.operation : t \in Range(steps)} \union {Terminate}

DeclarationSound(d) ==
    /\ d.workflow # "" /\ d.owner # "" /\ d.type = "semantic_workflow_skeleton"
    /\ d.governance \in DeclaredGovernance
    /\ d.steps # <<>> /\ \A s \in Range(d.steps) : StepSound(s) /\ s.ref # d.workflow
    /\ TransitionsKnown(d.steps)

-----------------------------------------------------------------------------
(* An agent's declarations: <<>> where loading raises. Of two files that   *)
(* declare the same workflow the last by name counts.                      *)

References(d) == SelectSeq([i \in DOMAIN d.steps |-> d.steps[i].ref], LAMBDA r : r # "")

\* Depth first, path being the calls that lead here; seen is what has been
\* visited on any path.
RECURSIVE Visit(_, _, _, _)

\* For Visit: what was seen before is taken for a cycle.
VisitOnce(declarations, workflow, path, visit) ==
    IF ~visit.acyclic \/ workflow \in visit.seen THEN [visit EXCEPT !.acyclic = FALSE]
    ELSE FoldLeft(LAMBDA v, ref : Visit(declarations, ref, path \union {workflow}, v),
                  [visit EXCEPT !.seen = @ \union {workflow}],
                  References(declarations[workflow]))

Visit(declarations, workflow, path, visit) ==
    IF ~visit.acyclic THEN visit
    ELSE IF workflow \in path THEN [visit EXCEPT !.acyclic = FALSE]
    ELSE IF workflow \in visit.seen THEN visit
    ELSE FoldLeft(LAMBDA v, ref : Visit(declarations, ref, path \union {workflow}, v),
                  [visit EXCEPT !.seen = @ \union {workflow}],
                  References(declarations[workflow]))

ReferencesFound(declarations) ==
    \A d \in Range(declarations) : Range(References(d)) \subseteq DOMAIN declarations

NoCycles(declarations) ==
    FoldSet(LAMBDA workflow, visit : Visit(declarations, workflow, {}, visit),
            [acyclic |-> TRUE, seen |-> {}], DOMAIN declarations).acyclic

LoadDeclarations(files, agent) ==
    LET declarations ==
            FoldLeft(LAMBDA loaded, d : (d.workflow :> d) @@ loaded, <<>>, files)
    IN IF /\ \A f \in Range(files) : f.form = "object" /\ DeclarationSound(f) /\ f.owner = agent
          /\ ReferencesFound(declarations) /\ NoCycles(declarations)
       THEN <<declarations>> ELSE <<>>

\* <<>> where there is no such declaration.
ResolveDeclaration(files, agent, workflow) ==
    LET loaded == LoadDeclarations(files, agent) IN
    IF loaded # <<>> /\ workflow \in DOMAIN loaded[1] THEN <<loaded[1][workflow]>> ELSE <<>>

-----------------------------------------------------------------------------
(* Steps of a workflow, and where their results lead.                      *)

First(found) == IF found = <<>> THEN <<>> ELSE <<found[1]>>

StepOfOperation(d, operation) == First(SelectSeq(d.steps, LAMBDA s : s.operation = operation))
FirstOfKind(d, kind) == First(SelectSeq(d.steps, LAMBDA s : s.kind = kind))
StepById(d, id) == First(SelectSeq(d.steps, LAMBDA s : s.id = id))

OutcomeOf(status) ==
    CASE status \in {"success", "succeeded", "completed"} -> "success"
      [] status \in {"failure", "failed", "error"}        -> "failure"
      [] status \in {"inadequate", "insufficient"}        -> "inadequate"
      [] OTHER                                            -> status

Transition(resolved, operation, reason) ==
    [resolved |-> resolved, next |-> operation, reason |-> reason]

ResolveTransition(d, operation, status) ==
    LET current == StepOfOperation(d, operation)
        outcome == OutcomeOf(status)
    IN IF current = <<>> THEN Transition(FALSE, "", "operation_not_found")
       ELSE IF outcome \notin Outcomes
       THEN Transition(FALSE, "", "unsupported_transition_outcome")
       ELSE IF current[1].next[outcome] = ""
       THEN Transition(FALSE, "", "transition_not_declared")
       ELSE IF /\ current[1].next[outcome] # Terminate
               /\ StepOfOperation(d, current[1].next[outcome]) = <<>>
       THEN Transition(FALSE, "", "transition_target_not_found")
       ELSE Transition(TRUE, current[1].next[outcome], "")

-----------------------------------------------------------------------------
(* The graph of the workflows a workflow runs. Every call is an edge, with *)
(* the decision whether it takes trust along; a workflow called on two     *)
(* ways is followed twice.                                                 *)

StepLineage(d, step) == Lineage(d.owner, d.workflow, d.type, step.capability, step.action)

CallInheritance(parent, step, child) ==
    Inheritance("nested_workflow", "workflow_call_boundary", StepLineage(parent, step),
                StepLineage(child, child.steps[1]), FALSE)

Edge(parent, step, child) ==
    [parent |-> parent.workflow, operation |-> step.operation, child |-> child.workflow,
     trust |-> CallInheritance(parent, step, child)]

Joined(graph, other) ==
    [workflows |-> graph.workflows \union other.workflows,
     nodes |-> graph.nodes \union other.nodes, edges |-> graph.edges \o other.edges]

RECURSIVE Graph(_, _, _)

Graph(declarations, workflow, depth) ==
    LET d == declarations[workflow]
        called(s) == Joined([workflows |-> {}, nodes |-> {},
                             edges |-> <<Edge(d, s, declarations[s.ref])>>],
                            Graph(declarations, s.ref, depth + 1))
        own == [workflows |-> {workflow}, edges |-> <<>>,
                nodes |-> {<<workflow, s.operation>> : s \in Range(d.steps)}]
    IN IF depth > MaxDepth THEN [own EXCEPT !.nodes = {}]
       ELSE FoldLeft(LAMBDA graph, s : IF s.ref = "" THEN graph ELSE Joined(graph, called(s)),
                     own, d.steps)
================================================================================
