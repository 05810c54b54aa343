---------------------------- MODULE SourceDeclarations ----------------------------
(***************************************************************************)
(* The feeds an agent declares (registries/source_ingestion_registry.py).  *)
(* A declaration is a record; fields names all fields it has at any depth, *)
(* and what it allows and requires are functions of the names it gives.    *)
(***************************************************************************)
EXTENDS Manifests

SourceTypes == {"rss_feed"}
SourceGovernance == {"enabled", "disabled", "audit_only"}
RefreshTypes == {"manual", "scheduled"}
PriorityLevels == {"low", "normal", "high", "critical"}

ForbiddenSourceFields ==
    {"autonomous", "autonomous_source_creation", "background_retrieval", "fetch",
     "fetch_callable", "hidden_prompt", "hidden_prompt_injection", "memory_write",
     "memory_writes", "runner", "telegram_delivery"}

SourceFields ==
    {"source_id", "contract_id", "source_type", "url", "owning_agent", "governance_state",
     "refresh_policy", "source_category", "priority_policy", "provenance_policy",
     "provenance_audit", "content_safety", "storage_policy"}

\* What a contract must require of a declaration.
RequiredSections ==
    {"source_category", "priority_policy", "provenance_policy", "content_safety",
     "storage_policy"}

SourceContractSound(c) ==
    /\ c.form = "object" /\ c.id # "" /\ c.version = 1 /\ c.type \in SourceTypes
    /\ c.declaration_fields = SourceFields
    /\ c.governance_states = SourceGovernance
    /\ c.static /\ c.refresh_types = RefreshTypes
    /\ RequiredSections \subseteq c.required
    /\ c.closed \subseteq {TRUE}
    /\ ForbiddenSourceFields \subseteq c.forbidden

CategorySound(d) == d.category # "" /\ d.tags # {}
PrioritySound(d) == d.priority \in PriorityLevels /\ d.rationale

AllFalse(policy, fields) == \A f \in fields : f \in DOMAIN policy /\ policy[f] = FALSE

\* What a declaration must promise of what is taken from the feed.
ProvenanceSound(p) ==
    /\ \A f \in {"citation_required", "source_url_required", "attribution_required"} :
          f \in DOMAIN p /\ p[f] = TRUE
    /\ AllFalse(p, {"prose_only_output_allowed"})

ContentSafe(policy) ==
    AllFalse(policy, {"raw_content_storage_allowed", "prompt_injection_surface_allowed",
                      "summary_generation_allowed"})

StorageSafe(policy) ==
    /\ AllFalse(policy, {"memory_write_allowed", "article_storage_allowed"})
    /\ "metadata_storage_allowed" \in DOMAIN policy

SourceSound(d, contracts) ==
    /\ d.form = "object" /\ d.id # ""
    /\ d.fields \intersect ForbiddenSourceFields = {}
    /\ d.type \in SourceTypes
    /\ \E c \in ToSet(contracts) : c.id = d.contract /\ c.type = d.type
    /\ d.url \in {"http", "https"} /\ d.owner # ""
    /\ d.governance \in SourceGovernance
    /\ d.refresh \in RefreshTypes
    /\ CategorySound(d) /\ PrioritySound(d)
    /\ ProvenanceSound(d.provenance) /\ d.audited
    /\ ContentSafe(d.content) /\ StorageSafe(d.storage)

\* <<>> where anything in the file is amiss; ids may be repeated. A file that
\* declares feeds registers contracts.
LoadSourceContracts(file) ==
    IF /\ Readable(file)
       /\ \A c \in ToSet(file.contracts) : SourceContractSound(c)
       /\ \A d \in ToSet(file.entries) : SourceSound(d, file.contracts)
    THEN file.contracts ELSE <<>>

SourcesOf(manifest, contracts) ==
    LoadManifest(manifest, {d \in ToSet(manifest.entries) : SourceSound(d, contracts)})

LoadSources(manifest, contracts) ==
    IF contracts = <<>> THEN Declared(<<>>, TRUE) ELSE SourcesOf(manifest, contracts)
==================================================================================
