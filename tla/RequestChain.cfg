SPECIFICATION Spec
CONSTANTS
    Subject = {s1, s2}
    None = None
    Route <- Routes
SYMMETRY Symmetry
INVARIANTS GatesFirst FirstCredentialWins BackendSeesPrincipal AlwaysAnswered
