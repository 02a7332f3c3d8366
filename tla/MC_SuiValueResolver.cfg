CONSTANTS
    clock = clock
    gas = gas
    fresh = fresh
    pkg = pkg
    d1 = d1
    Ids <- MC_Ids
    Genesis <- MC_Genesis
    SharedGenesis <- MC_SharedGenesis
    Names <- MC_Names
    Digests <- MC_Digests
    MaxTasks = 3
    MaxInputs = 1
    MaxVec = 2
    Refs <- MC_Refs
    VecRefs <- MC_VecRefs
    NoVersion = NoVersion
    None = None

SPECIFICATION Spec

INVARIANT TypeOK
INVARIANT ResolutionIsExact
PROPERTY ArgumentStepIsAtomic
\* The script ends after MaxTasks commands: the final states have no successor.
CHECK_DEADLOCK FALSE
