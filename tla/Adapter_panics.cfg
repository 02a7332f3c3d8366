CONSTANTS
    Backends = {"ValidatorWithFullnode", "Simulacrum"}
    MaxCommands = 4
    MaxEvents = 2
    Limits = {1, 2}
    Durations = {1}

SPECIFICATION Spec

INVARIANT ContractNeverPanics

\* A test script ends after its last command, or when a call panics.
CHECK_DEADLOCK FALSE
