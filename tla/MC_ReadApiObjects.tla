-------------------------- MODULE MC_ReadApiObjects --------------------------
EXTENDS ReadApiObjects

CONSTANTS a, b, pkg

MC_Ids == {a, b, pkg}
MC_Packages == {pkg}
(* an object and a package, the same id twice, and a request over the limit *)
MC_Requests == {<<a, pkg>>, <<a, a>>, <<a, b, pkg>>}
=============================================================================
