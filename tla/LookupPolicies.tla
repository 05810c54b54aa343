----------------------------- MODULE LookupPolicies -----------------------------
(***************************************************************************)
(* What an agent may look up and under which rules: the contract that all  *)
(* agents share (lookup/policy_validation.py), the seven files an agent's  *)
(* bindings are split over (bindings.py), and the capability that comes of *)
(* the two (registries/lookup_capability_registry.py).                     *)
(*                                                                         *)
(* A file is [form, parts]: "absent", "bad" (not JSON, or not of the shape *)
(* it must have) or "object", with what it says of each id: a function     *)
(* from fields to values. A field that is not there is not in the domain.  *)
(***************************************************************************)
EXTENDS Integers, Sequences, FiniteSets, TLC, SequencesExt, Functions, Lists

IsObject(x) == DOMAIN x # {}            \* a section that is there
Field(record, name, default) == IF name \in DOMAIN record THEN record[name] ELSE default
Positive(n) == n \in Nat \ {0}
Strings(list) == list # <<>> /\ list \in Seq(STRING)

\* The first n of a sequence.
FirstOf(seq, n) == SubSeq(seq, 1, IF Len(seq) < n THEN Len(seq) ELSE n)

\* A recursive function, and not a fold over a set, for the proofs.
Total(numbers) ==
    LET sum[n \in 0 .. Len(numbers)] == IF n = 0 THEN 0 ELSE sum[n - 1] + numbers[n]
    IN sum[Len(numbers)]

\* What the first of two records says, and of the rest what the second says.
Over(f, g) ==
    [x \in DOMAIN f \union DOMAIN g |-> IF x \in DOMAIN f THEN f[x] ELSE g[x]]

FieldsOf(records, id) == IF id \in DOMAIN records THEN DOMAIN records[id] ELSE {}

\* Files are laid over each other id by id; no two may define the same field.
Lay(below, above) ==
    [id \in DOMAIN below \union DOMAIN above |->
        IF id \notin DOMAIN above THEN below[id]
        ELSE IF id \notin DOMAIN below THEN above[id] ELSE Over(below[id], above[id])]

OverlapIn(sequence, except) ==
    \E j \in DOMAIN sequence : \E i \in 1 .. j - 1 : \E id \in DOMAIN sequence[i].parts :
        ~(FieldsOf(sequence[i].parts, id) \intersect FieldsOf(sequence[j].parts, id)
            \subseteq except)

Overlaid(sequence) == FoldSeq(LAMBDA file, below : Lay(file.parts, below), <<>>, sequence)

-----------------------------------------------------------------------------
(* The contract.                                                           *)

ContractVersion == 1
RuntimeVersion == 1
ContractId == "bounded_lookup_context_capability"

\* An entry that is not sound is left out; files that are not sound leave
\* no entry at all.
ContractSound(k) ==
    /\ FALSE \notin k.fail_closed
    /\ k.retrieval = <<"retrieval", "lookup", "bounded">>
    /\ Positive(k.contract_version) /\ Positive(k.runtime_version)
    /\ k.features # {} /\ k.required # {} /\ k.governance_states # {}
    /\ k.cancellations # {}

SectionsReadable(sections) == \A f \in Range(sections) : f.form = "object" /\ f.version = 1

LoadContract(sections) ==
    IF ~SectionsReadable(sections) \/ OverlapIn(sections, {"id"}) THEN <<>>
    ELSE LET entries == Overlaid(sections) IN
         IF ContractId \in DOMAIN entries /\ ContractSound(entries[ContractId])
         THEN <<entries[ContractId]>> ELSE <<>>

-----------------------------------------------------------------------------
(* Policies: each is checked against the contract k.                       *)

LookupTypes == {"exact_entity_lookup", "bounded_entity_search"}

\* Which fields the planner has to fill is fixed, by the type of lookup.
PlannerFieldsAgreed(p, k) ==
    /\ IF p.lookup_type = "bounded_entity_search"
       THEN Field(p, "required_any", <<>>) = <<"search_topic", "query_intent">>
       ELSE Field(p, "required", <<>>) = k.required_planner_fields
    /\ Field(p, "optional", {}) \subseteq
          IF p.lookup_type = "bounded_entity_search" THEN {"constraints", "max_results"}
          ELSE k.optional_planner_fields

RequestPolicyValid(p, k) ==
    /\ IsObject(p) /\ p.enabled
    /\ p.lookup_type \in k.lookup_types
    /\ p.source_scope # "" /\ p.allowed_source_scopes # {}
    /\ p.source_scope \in p.allowed_source_scopes
    /\ Field(p, "entity_type", "any") # ""
    /\ PlannerFieldsAgreed(p, k)

MaterializationPolicyValid(p, k) ==
    /\ IsObject(p) /\ p.enabled
    /\ p.context_type \in k.context_types
    /\ Strings(p.allowed_fields)
    /\ p.max_fields \in 1 .. Len(p.allowed_fields)

OptionalWithin(p, name, known) ==
    name \in DOMAIN p => p[name] # {} /\ p[name] \subseteq known

RenderPolicyValid(p, k) ==
    /\ IsObject(p) /\ p.allowed
    /\ Strings(p.render_modes) /\ Range(p.render_modes) \subseteq k.render_modes
    /\ Positive(p.max_packets)
    /\ p.require_successful_retrieval \in BOOLEAN
    /\ p.context_types # {} /\ p.context_types \subseteq k.context_types
    /\ OptionalWithin(p, "lookup_types", k.lookup_types)
    /\ Field(p, "source_scopes", {"any"}) # {} /\ Field(p, "entity_types", {"any"}) # {}
    /\ Strings(p.field_order)

BudgetPolicyValid(p, k) ==
    /\ Positive(p.max_blocks) /\ Positive(p.max_facts_per_block)
    /\ Positive(p.max_total_characters)
    /\ p.truncation_mode \in k.truncation_modes

InjectionPolicyValid(p, k) ==
    /\ IsObject(p) /\ p.allowed
    /\ p.require_render_decision /\ p.require_rendered_context
    /\ p.content_types # {} /\ p.content_types \subseteq k.content_types
    /\ p.render_modes # {} /\ p.render_modes \subseteq k.render_modes
    /\ BudgetPolicyValid(p, k)

MaxTimeout == 60000
MaxConcurrent == 16
DefaultExecution == [timeout_ms |-> 3000, cancellation |-> "fail_closed", max_concurrent |-> 1]

ExecutionNormal(p) ==
    /\ p.timeout_ms \in 1 .. MaxTimeout
    /\ p.cancellation = "fail_closed"
    /\ Field(p, "max_concurrent", 1) \in 1 .. MaxConcurrent

ExecutionPolicyValid(p, k) == ExecutionNormal(p) /\ p.cancellation \in k.cancellations

SupportedFeatures ==
    {"exact_entity_lookup", "bounded_entity_search", "bounded_context_materialization",
     "structured_fact_rendering", "audited_context_injection", "lineage", "governance",
     "execution_timeout", "bounded_concurrency"}

CompatibilityNormal(p, features) ==
    /\ IsObject(p)
    /\ p.contract_version = ContractVersion
    /\ Positive(p.min_version) /\ Positive(p.max_version)
    /\ RuntimeVersion \in p.min_version .. p.max_version
    /\ IsInjective(p.features) /\ Range(p.features) \subseteq features

CompatibilityValid(p, k) ==
    /\ k.contract_version = ContractVersion
    /\ k.runtime_version = RuntimeVersion
    /\ CompatibilityNormal(p, k.features)

GovernanceStates == {"enabled", "disabled", "audit_only", "blocked"}
RequestAllowed(state) == state \in {"enabled", "audit_only"}
ExecutionAllowed(state) == state = "enabled"
ContextAllowed(state) == state = "enabled"

Governance(binding) == Field(binding, "governance", "enabled")
Execution(binding) == Field(binding, "execution", DefaultExecution)

\* All policies of a binding.
PoliciesValid(binding, contract) ==
    /\ contract # <<>>
    /\ LET k == Head(contract) IN
       /\ CompatibilityValid(Field(binding, "compatibility", <<>>), k)
       /\ Governance(binding) \in GovernanceStates \intersect k.governance_states
       /\ ExecutionPolicyValid(Execution(binding), k)
       /\ k.required \subseteq DOMAIN binding
       /\ RequestPolicyValid(Field(binding, "request", <<>>), k)
       /\ MaterializationPolicyValid(Field(binding, "materialization", <<>>), k)
       /\ RenderPolicyValid(Field(binding, "render", <<>>), k)
       /\ InjectionPolicyValid(Field(binding, "injection", <<>>), k)

-----------------------------------------------------------------------------
(* The manifest: an agent's bindings.                                      *)

NoManifest == [form |-> "bad", bindings |-> <<>>]

SplitManifest(files) ==
    IF /\ \A f \in Range(files) : f.form = "object"
       /\ ~OverlapIn(files, {})
    THEN [form |-> "object", bindings |-> Overlaid(files)]
    ELSE NoManifest

\* The one old file counts only where none of the seven is there.
Manifest(agent) ==
    IF ~agent.exists THEN NoManifest
    ELSE IF \E f \in Range(agent.files) : f.form # "absent" THEN SplitManifest(agent.files)
    ELSE IF agent.legacy.form = "object"
         THEN [form |-> "object", bindings |-> agent.legacy.parts]
    ELSE NoManifest

OfCapability(manifest, capability) ==
    {id \in DOMAIN manifest.bindings :
        Field(manifest.bindings[id], "shared_capability", "") = capability}

StrictApproval == {"always_require_approval", "requires_approval", "shared_capability_required"}
WeakApproval == {"approval_not_required", "auto_approve", "disabled", "false", "none",
                 "no_approval", "not_required"}

\* A binding may ask for more approval than the capability, not for less.
ApprovalKept(binding, needsApproval) ==
    "approval_policy" \in DOMAIN binding =>
        \/ binding.approval_policy = "yes"                 \* a flag
        \/ binding.approval_policy = "no" /\ ~needsApproval
        \/ binding.approval_policy \in StrictApproval
        \/ binding.approval_policy \in WeakApproval /\ ~needsApproval

ReferencesExist(binding, agent) ==
    /\ "skills" \in DOMAIN binding => binding.skills \subseteq agent.skills
    /\ "resources" \in DOMAIN binding => binding.resources \subseteq agent.resources

\* The binding of a capability, for who plans; capabilities: those that need
\* approval and those that do not.
AgentBinding(agent, capability, capabilities) ==
    LET ids == OfCapability(Manifest(agent), capability)
        binding == Manifest(agent).bindings[CHOOSE id \in ids : TRUE]
    IN IF /\ capability \in DOMAIN capabilities
          /\ Cardinality(ids) = 1
          /\ ReferencesExist(binding, agent)
          /\ ApprovalKept(binding, capabilities[capability])
       THEN <<binding>> ELSE <<>>

-----------------------------------------------------------------------------
(* The lookup capability, for who plans lookups and who executes them.     *)

LookupSections == {"request", "materialization", "render", "injection"}

HasLookupPolicy(binding) == DOMAIN binding \intersect LookupSections # {}

\* Of two bindings of the capability only one may have lookup policies.
Registered(manifest, capability) ==
    {id \in OfCapability(manifest, capability) : HasLookupPolicy(manifest.bindings[id])}

RegistrationNormal(binding) ==
    /\ CompatibilityNormal(Field(binding, "compatibility", <<>>), SupportedFeatures)
    /\ Governance(binding) \in GovernanceStates
    /\ ExecutionNormal(Execution(binding))

Registration(binding, contract) ==
    IF RegistrationNormal(binding) /\ PoliciesValid(binding, contract)
    THEN <<[governance |-> Governance(binding), execution |-> Execution(binding),
            request |-> binding.request, materialization |-> binding.materialization,
            render |-> binding.render, injection |-> binding.injection]>>
    ELSE <<>>

ResolveLookupCapability(agent, capability, contract) ==
    LET ids == Registered(Manifest(agent), capability) IN
    IF capability # "" /\ Cardinality(ids) = 1
    THEN Registration(Manifest(agent).bindings[CHOOSE id \in ids : TRUE], contract)
    ELSE <<>>
================================================================================
