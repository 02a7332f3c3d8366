------------------------ MODULE MC_SuiValueResolver ------------------------
(* One shared genesis object (the clock), one owned genesis object and one *)
(* id left for a command to create; three commands, so that an object can *)
(* be created, written and deleted, or a package staged, before inputs    *)
(* are resolved.  Versions: genesis 1, the k-th command writes k + 1.     *)
EXTENDS SuiValueResolver

CONSTANTS clock, gas, fresh, pkg, d1

MC_Ids           == {clock, gas, fresh}
MC_Genesis       == {clock, gas}
MC_SharedGenesis == {clock}
MC_Names         == {pkg}
MC_Digests       == {d1}

(* Literals: the clock and the created object, unpinned and pinned to     *)
(* their first two versions, the owned genesis object, a handle no command *)
(* binds; in vectors, a reference that always resolves next to ones that   *)
(* may not.                                                                *)
MC_Refs ==
    {[id |-> h, version |-> v] : h \in {Known(clock), Enumerated(0, 0)}, v \in {NoVersion, 1, 2}}
      \cup {[id |-> Known(gas), version |-> NoVersion], [id |-> Enumerated(1, 0), version |-> NoVersion]}
MC_VecRefs ==
    {[id |-> Known(clock), version |-> NoVersion], [id |-> Enumerated(0, 0), version |-> NoVersion],
     [id |-> Known(gas), version |-> 1]}
=============================================================================
