----------------------------- MODULE DeclaredWorkflow -----------------------------
(***************************************************************************)
(* A workflow as an agent declares it, from its file to its resumption: a  *)
(* caller loads the declarations and takes their operations one by one,    *)
(* retrieving, notifying, suspending (workflows/declarations.py,           *)
(* nesting.py, transitions.py, and what WorkflowActions models), an        *)
(* operator verifies, decides and resumes (workflows/approval.py,          *)
(* continuation.py), and an administrator edits the files meanwhile: the   *)
(* caller goes on with the declarations it has loaded, the operator's      *)
(* steps read them anew.                                                   *)
(*                                                                         *)
(* There is one suspended instance, and the operator's steps are not       *)
(* interleaved: WorkflowApproval is about the store.                       *)
(***************************************************************************)
EXTENDS WorkflowActions

R == INSTANCE Relation

CONSTANTS AgentName, InstalledFiles, InstalledAgent,
          FileEdits,      \* for each file of declarations, what it may become
          AgentEdits,     \* for each file of bindings, what it may become
          ContractFiles, RegistryFiles,
          Items,          \* what a planner asks a retrieval for
          Answers,        \* what comes of calling an executor
          Statuses,       \* what a caller reports of an operation
          TrustStates,
          MaxWalks, MaxSteps, MaxEdits        \* bounds

ASSUME StepsAssumption == {MaxWalks, MaxSteps, MaxEdits} \subseteq Nat

VARIABLES files,      \* the declarations
          agent,      \* the files of the bindings
          walk,       \* <<>> or <<what the caller has>>
          instance,   \* <<>> or <<the suspended instance>>
          verified,   \* <<>> or <<the lineage its trust was verified for>> (history)
          inherited,  \* the decisions on trust of its resumption
          walks, steps, edits
vars == <<files, agent, walk, instance, verified, inherited, walks, steps, edits>>

Init ==
    /\ files = InstalledFiles /\ agent = InstalledAgent
    /\ walk = <<>> /\ instance = <<>> /\ verified = <<>> /\ inherited = {}
    /\ walks = 0 /\ steps = 0 /\ edits = 0

Contract == LoadContract(ContractFiles)

Registries ==
    [exact |-> LoadExactContracts(RegistryFiles.exact),
     bounded |-> LoadBoundedContracts(RegistryFiles.bounded)]

-----------------------------------------------------------------------------
(* The caller.                                                             *)

Stored == UNCHANGED <<instance, verified, inherited>>
Installed == UNCHANGED <<files, agent, edits>>

Walk(declarations, workflow) ==
    [declarations |-> declarations, workflow |-> workflow,
     operation |-> declarations[workflow].steps[1].operation,
     graph |-> Graph(declarations, workflow, 0), action |-> <<>>, receipt |-> <<>>, under |-> <<>>, outcome |-> ""]

Declared == walk[1].declarations[walk[1].workflow]
CurrentStep == StepOfOperation(Declared, walk[1].operation)
Walking == walk # <<>>

LoadWorkflow ==
    /\ walk = <<>> /\ walks < MaxWalks
    /\ walks' = walks + 1 /\ steps' = 0
    /\ LET loaded == LoadDeclarations(files, AgentName) IN
       /\ loaded # <<>>
       /\ \E workflow \in DOMAIN loaded[1] : walk' = <<Walk(loaded[1], workflow)>>
    /\ Stored /\ Installed

MakeRetrieval ==
    /\ Walking /\ walk[1].action = <<>>
    /\ \E item \in Items :
          walk' = [walk EXCEPT ![1].action =
                      MaterializeRetrieval(Declared, item, agent, Contract, Registries).action]
    /\ UNCHANGED <<walks, steps>> /\ Stored /\ Installed

Retrieve ==
    /\ Walking /\ walk[1].action # <<>> /\ walk[1].receipt = <<>>
    /\ LET action == walk[1].action[1] IN
       \E answer \in Answers :
          walk' = [walk EXCEPT
              ![1].receipt = <<ExecuteRetrieval(action, answer, agent, Contract, Registries)>>,
              ![1].under = ResolveLookupCapability(agent, action.capability, Contract)]
    /\ UNCHANGED <<walks, steps>> /\ Stored /\ Installed

Notify ==
    /\ Walking /\ walk[1].outcome = ""
    /\ OperationKind(CurrentStep[1]) = "notify_and_continue"
    /\ \E adequacy \in {"guest_candidate_adequacy", "workflow_result"} :
          walk' = [walk EXCEPT ![1].outcome =
                      MaterializeNotification(CurrentStep[1], adequacy).outcome]
    /\ UNCHANGED <<walks, steps>> /\ Stored /\ Installed

\* A notice says its outcome; of all else the caller does. Without an
\* operation to go to the caller is done.
TakeTransition ==
    /\ Walking /\ steps < MaxSteps
    /\ steps' = steps + 1
    /\ \E status \in IF walk[1].outcome # "" THEN {walk[1].outcome} ELSE Statuses :
          LET to == ResolveTransition(Declared, walk[1].operation, status) IN
          walk' = IF to.next \in {"", Terminate} THEN <<>>
                  ELSE [walk EXCEPT ![1].operation = to.next, ![1].outcome = ""]
    /\ UNCHANGED walks /\ Stored /\ Installed

\* The instance is stored anew, whatever became of the last one, and the
\* caller stops there.
Suspend ==
    /\ Walking /\ Suspending(CurrentStep[1])
    /\ \E id \in {"", CurrentStep[1].id} :
          LET step == ApprovalStep(Declared, id) IN
          /\ Suspendable(step)
          /\ instance' = <<SuspendedInstance(Declared, step[1])>>
    /\ walk' = <<>> /\ verified' = <<>> /\ inherited' = {}
    /\ UNCHANGED <<walks, steps>> /\ Installed

-----------------------------------------------------------------------------
(* The operator.                                                           *)

\* The declaration and the step an instance waits at, as they are now.
DeclarationNow == ResolveDeclaration(files, AgentName, instance[1].workflow)
StepNow == IF DeclarationNow = <<>> THEN <<>> ELSE StepById(DeclarationNow[1], instance[1].step)
LineageNow == StepLineage(DeclarationNow[1], StepNow[1])

\* Where decisions and resumptions go on.
GovernedNow ==
    /\ StepNow # <<>>
    /\ DeclarationNow[1].governance = "enabled" /\ StepNow[1].governance = "enabled"

Pending ==
    /\ instance # <<>>
    /\ instance[1].status = "suspended" /\ instance[1].approval = "pending_approval"

\* Trust is verified for the step as it is declared; who stores it may note
\* what a retrieval found beside it.
Verify ==
    /\ Pending /\ verified = <<>> /\ StepNow # <<>> /\ LineageNow # <<>>
    /\ \E state \in TrustStates, requested \in TrustStates \union {""},
          fields \in {{}, {"retrieval"}} :
          LET lineage == <<[LineageNow[1] EXCEPT !.fields = fields]>> IN
          /\ instance' = [instance EXCEPT ![1].trust =
                            [state |-> state, requested |-> requested, lineage |-> lineage]]
          /\ verified' = lineage
    /\ UNCHANGED <<walk, inherited, walks, steps>> /\ Installed

\* Whatever came of the stored trust, the lineage is that of the step now.
Decide ==
    /\ Pending /\ instance[1].suspended /\ GovernedNow
    /\ \E decision \in {"approve", "deny"} :
          LET i == instance[1]
              trust == TrustProgression(i.trust.state, i.trust.requested, FALSE,
                                        i.trust.lineage, LineageNow)
              progression == GovernedProgression(i, decision,
                                {DeclarationNow[1].governance, StepNow[1].governance}, trust)
          IN instance' = <<[i EXCEPT !.status = progression.to.status,
                               !.approval = progression.to.approval,
                               !.suspended = decision = "approve",
                               !.trust.lineage = LineageNow]
                           @@ [progression |-> progression]>>
    /\ UNCHANGED <<walk, verified, inherited, walks, steps>> /\ Installed

\* For CarriedTrust: the lineage of the step, whatever the trust was stored for.
CarriedByStep(boundary, i, d, s, integrity) ==
    Inheritance(boundary, i.trust.state, StepLineage(d, s), StepLineage(d, s), integrity)

\* What a boundary lets a step have of the trust an instance is stored with.
CarriedTrust(boundary, i, d, s, integrity) ==
    Inheritance(boundary, i.trust.state, i.trust.lineage, StepLineage(d, s), integrity)

\* An instance is resumed only where it was suspended; the rest of what is
\* stored has its integrity, being written by one at a time.
ResumeIntegrity(i, d, s) ==
    LET passed == i.workflow = d.workflow /\ i.step = s.id
    IN [passed |-> passed, inheritance |-> CarriedTrust("resumption", i, d, s, passed)]

\* An action is handed out as its step is declared now, enabled or not.
ActionDescriptor(i, d, s) ==
    [step |-> s.id, operation |-> s.operation, action |-> s.action, output |-> s.output,
     approval |-> s.approval, governance |-> s.governance,
     inheritance |-> CarriedTrust("delegated_workflow_step", i, d, s, TRUE)]

RemainingActions(i, d, id) ==
    LET at == SelectInSeq(d.steps, LAMBDA s : s.id = id)
        acting == SelectSeq(SubSeq(d.steps, at + 1, Len(d.steps)), LAMBDA s : s.action # "")
    IN [k \in DOMAIN acting |-> ActionDescriptor(i, d, acting[k])]

\* Who resumes vouches for the approval.
Resume ==
    /\ instance # <<>> /\ instance[1].suspended
    /\ instance[1].status \in {"suspended", "approved_pending_resume"}
    /\ GovernedNow
    /\ LET d == DeclarationNow[1]
           integrity == ResumeIntegrity(instance[1], d, StepNow[1])
           actions == RemainingActions(instance[1], d, instance[1].step)
       IN /\ integrity.passed
          /\ inherited' = {integrity.inheritance} \union
                             {a.inheritance : a \in Range(actions)}
    /\ instance' = [instance EXCEPT ![1].status = "resumed_pending_execution",
                       ![1].approval = "approved", ![1].suspended = FALSE]
    /\ UNCHANGED <<walk, verified, walks, steps>> /\ Installed

-----------------------------------------------------------------------------
(* The administrator.                                                      *)

EditFile ==
    /\ edits < MaxEdits
    /\ edits' = edits + 1
    /\ \E i \in DOMAIN FileEdits : \E f \in FileEdits[i] : files' = [files EXCEPT ![i] = f]
    /\ UNCHANGED <<agent, walk, walks, steps>> /\ Stored

EditAgent ==
    /\ edits < MaxEdits
    /\ edits' = edits + 1
    /\ \E i \in DOMAIN AgentEdits : \E f \in AgentEdits[i] :
          agent' = [agent EXCEPT !.files[i] = f]
    /\ UNCHANGED <<files, walk, walks, steps>> /\ Stored

Next ==
    \/ LoadWorkflow \/ MakeRetrieval \/ Retrieve \/ Notify
    \/ TakeTransition \/ Suspend
    \/ Verify \/ Decide \/ Resume
    \/ EditFile \/ EditAgent

Spec == Init /\ [][Next]_vars

-----------------------------------------------------------------------------
(* Properties.                                                             *)

\* The decision on the instance said that nothing of its trust is left.
LostInDecision ==
    "progression" \in DOMAIN instance[1] /\ instance[1].progression.trust.resulting = ""

\* The variables keep their shape; a walk is at an operation of its workflow
\* or over, and an instance is in one of the states the store knows.
TypeOK ==
    /\ walks \in 0 .. MaxWalks /\ steps \in 0 .. MaxSteps /\ edits \in 0 .. MaxEdits
    /\ Walking => CurrentStep # <<>>
    /\ walk # <<>> => walk[1].outcome \in {"", "success", "failure"}
    /\ instance # <<>> =>
          /\ <<instance[1].status, instance[1].approval, instance[1].suspended>> \in
                {<<"suspended", "pending_approval", TRUE>>,
                 <<"approved_pending_resume", "approved", TRUE>>,
                 <<"terminated_denied", "denied", FALSE>>,
                 <<"resumed_pending_execution", "approved", FALSE>>}
          /\ instance[1].trust.state \in TrustStates \union {""}
    /\ instance = <<>> => verified = <<>> /\ inherited = {}

\* Files that are sound, each of the agent, and whose references are found
\* are loaded if and only if no workflow runs itself through others, however
\* often one is called on different ways.
LoadsWhatIsAcyclic ==
    LET declarations == [w \in {f.workflow : f \in Range(files)} |->
                            CHOOSE f \in Range(files) : f.workflow = w]
        runs == [c \in (DOMAIN declarations) \X (DOMAIN declarations) |->
                    c[2] \in Range(References(declarations[c[1]]))]
        closure == R!TransitiveClosure(runs, DOMAIN declarations)
    IN (\A f \in Range(files) : f.form = "object" /\ DeclarationSound(f))
          /\ ReferencesFound(declarations) =>
       (LoadDeclarations(files, AgentName) # <<>>
          <=> \A w \in DOMAIN declarations : ~closure[w, w])

\* A retrieval runs only under the bindings as they are when it runs: its
\* capability enabled and of its type and scope, however they were when its
\* action was made; no more is taken from it than the step or anything else
\* lets it have.
RetrievalUnderRulesNow ==
    walk # <<>> /\ walk[1].receipt # <<>> =>
        LET receipt == walk[1].receipt[1]
            request == walk[1].action[1].request
        IN /\ receipt.executed =>
                 /\ walk[1].under # <<>> /\ walk[1].under[1].governance = "enabled"
                 /\ request.lookup_type = walk[1].under[1].request.lookup_type
                 /\ request.fields.source_scope
                       \in walk[1].under[1].request.allowed_source_scopes
           /\ request.lookup_type = "bounded_entity_search" =>
                 receipt.candidates <=
                    MaxResults(StepById(Declared, walk[1].action[1].step)[1])
           /\ receipt.status = "executed" => receipt.executed /\ receipt.reasons = {}

\* No call takes trust along, and what a resumption lets its steps inherit was
\* verified for the very scope (agent, workflow, type, capability, action) that
\* the step has now, unless a decision in between diagnosed that the trust was
\* lost and yet left it stored beside the lineage of the step as it was then.
\* The code claims the scope without exception (trust_lineage.py:45,
\* trust_inheritance.py:138); approval.py:247 makes this one, by which trust
\* that was verified for a capability is inherited under another.
TrustStaysInScope ==
    /\ walk # <<>> =>
          \A edge \in Range(walk[1].graph.edges) : ~edge.trust.allowed
    /\ \A i \in inherited : i.allowed =>
          /\ verified # <<>>
          /\ i.scope[1].scope = verified[1].scope \/ LostInDecision

================================================================================
