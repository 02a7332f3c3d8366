---------------------------- MODULE PackageStore ----------------------------
(***************************************************************************)
(* LocalDBPackageStore (sui-analytics-indexer, package_store.rs): a local  *)
(* table of package objects, written by the checkpoint processor through   *)
(* update() and read by get(), which on a miss fetches the object from a   *)
(* fullnode and writes it into the table.                                  *)
(*                                                                         *)
(* The chain is the sequence `log` of objects output by checkpoints; the   *)
(* fullnode knows all of it, the processor has handled log[1..processed].  *)
(* A package id can be written at several versions (system packages are    *)
(* upgraded in place).  The local table maps an id to the version it holds *)
(* (0 when absent).  A get is split at its await: the read and the fetch,  *)
(* then the write of what was fetched.  With Concurrent = FALSE the        *)
(* checkpoint processor waits while a get is in flight, as when gets never *)
(* overlap checkpoint processing.                                          *)
(***************************************************************************)
EXTENDS Naturals, Sequences

CONSTANTS
    Pkgs,         \* package ids
    NonPkg,       \* an id of an object that is not a package
    MaxVersion,   \* versions a package id reaches on chain
    MaxLog,       \* objects the checkpoints output
    Getters,      \* concurrent callers of get / version / fetch
    NotFound,     \* the PackageNotFound error of a get
    StoreError,   \* a TypedStore error of the packages table
    Concurrent    \* whether a get may overlap checkpoint processing

ASSUME /\ NonPkg \notin Pkgs /\ MaxVersion \in Nat \ {0} /\ MaxLog \in Nat
       /\ Concurrent \in BOOLEAN

VARIABLES
    log,          \* objects output by checkpoints, oldest first
    processed,    \* log[1..processed] has gone through update()
    local,        \* packages table: id -> stored version, 0 when absent
    pending,      \* getter -> the object its fallback fetch returned, or None
    answer        \* getter -> version its last get returned, or its error

vars == <<log, processed, local, pending, answer>>

None == [id |-> NonPkg, version |-> 0]

Ids == Pkgs \cup {NonPkg}

(* The latest version of id among the first n objects of the log          *)
VersionIn(id, n) ==
    LET vs == {log[k].version : k \in {k \in 1..n : log[k].id = id}}
    IN  IF vs = {} THEN 0 ELSE CHOOSE v \in vs : \A w \in vs : w <= v

(* What the fullnode answers for id: its latest object, all checkpoints in *)
FullnodeVersion(id) == VersionIn(id, Len(log))

-----------------------------------------------------------------------------
(* A checkpoint outputs an object: a new package, a new version of an      *)
(* existing one, or an object that is not a package.                       *)
Checkpoint ==
    /\ Len(log) < MaxLog
    /\ \E id \in Ids :
          LET v == FullnodeVersion(id) + 1
          IN  /\ v <= MaxVersion
              /\ log' = Append(log, [id |-> id, version |-> v])
    /\ UNCHANGED <<processed, local, pending, answer>>

(* Mutant: the stored version is one past the object's *)
update_next_version(object) ==
    IF object.id \in Pkgs
    THEN [local EXCEPT ![object.id] = object.version + 1]
    ELSE local

(* Mutant: a package already in the table is not overwritten *)
update_insert_if_absent(object) ==
    IF object.id \in Pkgs /\ local[object.id] = 0
    THEN [local EXCEPT ![object.id] = object.version]
    ELSE local

(* LocalDBPackageStore::update: anything but a package is ignored; a       *)
(* package is written over whatever the table holds for its id.            *)
update(object) ==
    IF object.id \in Pkgs
    THEN [local EXCEPT ![object.id] = object.version]
    ELSE local

(* The checkpoint processor hands the next output object to update()       *)
ProcessObject ==
    /\ processed < Len(log)
    /\ Concurrent \/ \A g \in Getters : pending[g] = None
    /\ processed' = processed + 1
    /\ local' = update(log[processed + 1])
    /\ UNCHANGED <<log, pending, answer>>

(* The version the packages table holds for id (none for a non-package)   *)
Stored(id) == IF id \in Pkgs THEN local[id] ELSE 0

(* LocalDBPackageStore::get, up to its await: a failing table read is an   *)
(* error; a hit answers the stored object; a miss asks the fullnode, whose *)
(* failure is PackageNotFound.                                             *)
GetStart(g, id) ==
    /\ pending[g] = None
    /\ \E readOk \in BOOLEAN :
          CASE ~readOk ->
                 /\ answer' = [answer EXCEPT ![g] = StoreError]
                 /\ UNCHANGED pending
            [] Stored(id) # 0 ->
                 /\ answer' = [answer EXCEPT ![g] = Stored(id)]
                 /\ UNCHANGED pending
            [] FullnodeVersion(id) = 0 ->
                 /\ answer' = [answer EXCEPT ![g] = NotFound]
                 /\ UNCHANGED pending
            [] OTHER ->
                 /\ pending' = [pending EXCEPT ![g] = [id |-> id, version |-> FullnodeVersion(id)]]
                 /\ UNCHANGED answer
    /\ UNCHANGED <<log, processed, local>>

(* LocalDBPackageStore::get, after its await: self.update(&object)?, then  *)
(* the fetched object is returned; a failing batch write of a package     *)
(* returns the error and drops the object.                                 *)
GetFinish(g) ==
    /\ pending[g] # None
    /\ \/ /\ local' = update(pending[g])
          /\ answer' = [answer EXCEPT ![g] = pending[g].version]
       \/ /\ pending[g].id \in Pkgs
          /\ answer' = [answer EXCEPT ![g] = StoreError]
          /\ UNCHANGED local
    /\ pending' = [pending EXCEPT ![g] = None]
    /\ UNCHANGED <<log, processed>>

(* The local database is deleted; the store refills it from the fullnode  *)
Wipe ==
    /\ \E id \in Pkgs : local[id] # 0
    /\ local' = [id \in Pkgs |-> 0]
    /\ UNCHANGED <<log, processed, pending, answer>>

Init ==
    /\ log = <<>> /\ processed = 0
    /\ local = [id \in Pkgs |-> 0]
    /\ pending = [g \in Getters |-> None]
    /\ answer = [g \in Getters |-> NotFound]

Next ==
    \/ Checkpoint
    \/ ProcessObject
    \/ \E g \in Getters, id \in Ids : GetStart(g, id)
    \/ \E g \in Getters : GetFinish(g)
    \/ Wipe

Spec == Init /\ [][Next]_vars

-----------------------------------------------------------------------------
(* The tables hold versions that exist on chain.                           *)
TypeOK ==
    /\ processed \in 0..Len(log) /\ Len(log) <= MaxLog
    /\ \A id \in Pkgs : local[id] \in 0..FullnodeVersion(id)
    /\ \A g \in Getters : answer[g] \in (0..MaxVersion) \cup {NotFound, StoreError}

(* The store is kept up to date with the checkpoints processed so far (the *)
(* doc comment of LocalDBPackageStore): a package the table holds is never *)
(* older than the latest version the processor has handed to update().    *)
StoreNotBehindCheckpoints ==
    \A id \in Pkgs : local[id] # 0 => local[id] >= VersionIn(id, processed)
(* The store is kept updated with the latest version of package objects   *)
(* (the doc comment of LocalDBPackageStore): no step of get() or of the    *)
(* checkpoint processor's update() replaces a stored package by an older   *)
(* version; only the deletion of the local database empties the table.    *)
StoreNeverRegresses ==
    [][Wipe \/ \A id \in Pkgs : local'[id] >= local[id]]_vars
=============================================================================
