--------------------------- MODULE MC_PackageStore ---------------------------
EXTENDS PackageStore

CONSTANTS p1, p2, o1, g1, g2

MC_Pkgs == {p1, p2}
MC_Getters == {g1, g2}
=============================================================================
