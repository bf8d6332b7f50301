SPECIFICATION Spec
CONSTANTS
    Request = {r1, r2, r3}
    MaxChunks = 3
    MaxSessions = 3
    MaxLosses = 1
SYMMETRY Symmetry
INVARIANTS OldSessionNeverBack
PROPERTIES ResponseRepairs
