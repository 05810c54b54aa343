SPECIFICATION Spec
CONSTANTS
    Callers = {k1, k2}
    Continuations = {c1, c2}
    MaxTransitions = 3
SYMMETRY CallerSymmetry
INVARIANTS
    LineageSound
    AuditGapsAreCrashes
