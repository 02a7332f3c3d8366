CONSTANTS
    p1 = p1
    p2 = p2
    o1 = o1
    g1 = g1
    g2 = g2
    Pkgs <- MC_Pkgs
    NonPkg = o1
    Getters <- MC_Getters
    MaxVersion = 2
    MaxLog = 4
    NotFound = NotFound
    StoreError = StoreError
    Concurrent = FALSE

SPECIFICATION Spec

PROPERTY StoreNeverRegresses

\* Once every checkpoint is out and processed and every get has finished,
\* the store may still answer gets, so no state is a deadlock.
