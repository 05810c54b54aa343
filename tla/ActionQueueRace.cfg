SPECIFICATION Spec
CONSTANTS
    Bots = {"alexis_bot"}
    Keeper = "juniper_bot"
    Ids = {a1, a2, a3}
    Policies = {p1}
    MaxRestarts = 1
SYMMETRY MCSymmetry
CHECK_DEADLOCK FALSE
INVARIANTS
    QueuedAreListed
