CONSTANTS
    a = a
    b = b
    pkg = pkg
    Ids <- MC_Ids
    Packages <- MC_Packages
    Requests <- MC_Requests
    MaxVersion = 1
    MaxResultLimit = 2
    None = None

SPECIFICATION Spec

INVARIANT TypeOK
PROPERTY MultiGetIsExact
