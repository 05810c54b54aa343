------------------------------- MODULE WorkflowTrust -------------------------------
(***************************************************************************)
(* Trust: the scope it belongs to (workflows/trust_lineage.py), whether it *)
(* is carried over a boundary (workflows/trust_inheritance.py), and what   *)
(* an approval makes of it (workflows/approval_progression.py), which no   *)
(* retrieval may have a say in (governance/retrieval_trust_decoupling.py). *)
(*                                                                         *)
(* A trust state is a name, "" where there is none. A lineage is <<>> or   *)
(* <<[scope, fields]>>: the scope it was built for, and the kinds of       *)
(* fields that whoever stored it added.                                    *)
(***************************************************************************)
EXTENDS Sequences

Scope(agent, workflow, type, capability, action) ==
    [agent |-> agent, workflow |-> workflow, type |-> type, capability |-> capability,
     action |-> action]

\* A step without a capability has no scope.
Lineage(agent, workflow, type, capability, action) ==
    IF "" \in {agent, workflow, type, capability} THEN <<>>
    ELSE <<[scope |-> Scope(agent, workflow, type, capability, action), fields |-> {}]>>

ScopesMatch(prior, current) ==
    prior # <<>> /\ current # <<>> /\ prior[1].scope = current[1].scope

\* Whether a trust state is carried over a boundary. All callers say that the
\* boundary is bounded and explicit; a resumption needs its integrity, too.
Inheritance(boundary, state, prior, current, integrity) ==
    LET allowed == /\ state # "" /\ ScopesMatch(prior, current)
                   /\ boundary = "resumption" => integrity
    IN [boundary |-> boundary, allowed |-> allowed,
        inherited |-> IF allowed THEN state ELSE "", scope |-> current]

-----------------------------------------------------------------------------
(* What an approval makes of trust.                                        *)

\* Fields that speak of a retrieval, or keep a score.
RetrievalFields == {"retrieval", "score"}

RetrievalIsolated(lineage) == lineage # <<>> => lineage[1].fields \intersect RetrievalFields = {}

Isolated(lineage) == IF RetrievalIsolated(lineage) THEN lineage ELSE <<>>

\* Only an explicit verification makes a requested state the new one.
TrustProgression(state, requested, explicit, stored, built) ==
    LET prior == Isolated(stored)
        current == Isolated(built)
        known == IF RetrievalIsolated(stored) THEN state ELSE ""
        match == ScopesMatch(prior, current)
        kept == IF current # <<>> /\ ~match THEN "" ELSE known
        moved == explicit /\ requested # ""
    IN [prior |-> kept,
        resulting |-> IF moved THEN requested ELSE kept,
        allowed |-> moved /\ requested # kept /\ (current = <<>> \/ match),
        prevented |-> current # <<>> /\ IF prior # <<>> THEN ~match ELSE known # ""]

\* For GovernedProgression: a denial leaves the statuses as they are.
ProgressionByApprovals(instance, decision, governances, trust) ==
    [allowed |-> TRUE, trust |-> trust,
     to |-> IF decision = "approve"
            THEN [status |-> "approved_pending_resume", approval |-> "approved"]
            ELSE [status |-> instance.status, approval |-> instance.approval]]

\* The state a decision leads to, if nothing stands against it.
GovernedProgression(instance, decision, governances, trust) ==
    LET allowed == /\ governances \subseteq {"enabled"}
                   /\ instance.status = "suspended" /\ instance.approval = "pending_approval"
                   /\ decision \in {"approve", "deny"}
    IN [allowed |-> allowed, trust |-> trust,
        to |-> CASE allowed /\ decision = "approve" ->
                      [status |-> "approved_pending_resume", approval |-> "approved"]
                 [] allowed /\ decision = "deny" ->
                      [status |-> "terminated_denied", approval |-> "denied"]
                 [] OTHER -> [status |-> instance.status, approval |-> instance.approval]]
================================================================================
