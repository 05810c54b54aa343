SPECIFICATION Spec
CONSTANTS
    Callers = {k1}
    Continuations = {c1, c2}
    MaxTransitions = 4
INVARIANTS
    TypeOK
    ProvenanceTellsDecision
    DeliveryFollowsApproval
PROPERTIES
    LifecycleSpec
