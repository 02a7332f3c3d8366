-------------------------- MODULE SuiValueResolver --------------------------
(***************************************************************************)
(* Resolution of symbolic values into transaction inputs (args.rs,         *)
(* impl SuiValue): resolve_object, object_arg, receiving_arg,              *)
(* into_call_arg and into_argument, run against a scenario whose object    *)
(* store, handle table and staged-package table change between commands.   *)
(*                                                                         *)
(* The scenario side (the test adapter's handle enumeration, stage-package *)
(* and the effects of executed transactions) is not under src/ and is      *)
(* modelled from the spec: each executed command creates, mutates, freezes, *)
(* wraps or deletes one object.  A content digest is abstracted into the   *)
(* (id, version) pair it is determined by.                                 *)
(***************************************************************************)
EXTENDS Naturals, Sequences, FiniteSets, TLC

CONSTANTS
    Ids,          \* real object ids
    Genesis,      \* ids present before the first command
    SharedGenesis,\* the genesis objects that are shared (the clock, the system state)
    Names,        \* staged-package names a script may write
    Digests,      \* package content digests
    MaxTasks,     \* commands executed
    MaxInputs,    \* builder inputs per programmable transaction
    MaxVec,       \* elements of an object vector literal
    Refs,         \* (handle, pin) pairs the script writes in object/receiving literals
    VecRefs,      \* (handle, pin) pairs it writes inside object vectors
    NoVersion,    \* model value: no @V pin
    None          \* model value: Option::None

ASSUME /\ Genesis \subseteq Ids /\ SharedGenesis \subseteq Genesis
       /\ MaxTasks \in Nat /\ MaxInputs \in Nat /\ MaxVec >= 2

VARIABLES
    store,        \* every object version written: [id, version, owner]
    live,         \* ids whose latest version exists (not deleted or wrapped away)
    enumeration,  \* FakeID::Enumerated handles bound to the ids their command created
    staged,       \* staged package name -> digest, or None
    task,         \* number of commands run
    builder,      \* the ProgrammableTransactionBuilder of the current command
    last          \* the last resolution: the value and its result (history)

vars == <<store, live, enumeration, staged, task, builder, last>>

-----------------------------------------------------------------------------
(* FakeID *)
Known(id)        == [kind |-> "Known", addr |-> id]
Enumerated(i, j) == [kind |-> "Enumerated", i |-> i, j |-> j]
Handles == {Known(id) : id \in Ids} \cup {Enumerated(t, 0) : t \in 0..MaxTasks - 1}

Versions == 1..MaxTasks + 1
Pins     == {NoVersion} \cup Versions

(* Owner *)
AddressOwner == [kind |-> "AddressOwner"]
ObjectOwner  == [kind |-> "ObjectOwner"]
Immutable    == [kind |-> "Immutable"]
Shared(isv)  == [kind |-> "Shared", initial_shared_version |-> isv]
Owners == {AddressOwner, ObjectOwner, Immutable} \cup {Shared(v) : v \in Versions}

Object(id, v, owner) == [id |-> id, version |-> v, owner |-> owner]

(* SuiValue *)
ObjRefs == [id : Handles, version : Pins]
ASSUME Refs \subseteq ObjRefs /\ VecRefs \subseteq ObjRefs

SuiValues ==
    {[kind |-> "MoveValue"]}
      \cup {[kind |-> k, id |-> r.id, version |-> r.version]
              : k \in {"Object", "Receiving"}, r \in Refs}
      \cup {[kind |-> "ObjVec", elems |-> e] : e \in UNION {[1..n -> VecRefs] : n \in 1..MaxVec}}
      \cup {[kind |-> "Digest", pkg |-> x] : x \in Names}

(* ObjectArg and CallArg *)
SharedObject(id, isv, mut) ==
    [kind |-> "SharedObject", id |-> id, initial_shared_version |-> isv, mutable |-> mut]
ImmOrOwnedObject(ref) == [kind |-> "ImmOrOwnedObject", ref |-> ref]
Receiving(ref)        == [kind |-> "Receiving", ref |-> ref]
PureArg(bytes)        == [kind |-> "Pure", bytes |-> bytes]
ObjectCallArg(a)      == [kind |-> "Object", arg |-> a]

Ok(x)  == [ok |-> TRUE, val |-> x]
Err(e) == [ok |-> FALSE, err |-> e]

EmptyBuilder == [inputs |-> <<>>, commands |-> <<>>]

-----------------------------------------------------------------------------
(* Scenario state consumed by the resolver (spec section 6)                *)

(* SuiTestAdapter::fake_to_real_object_id: a Known handle is bound to its   *)
(* address, an Enumerated one to what its command created                   *)
fake_to_real_object_id(h) ==
    IF h.kind = "Known" THEN h.addr
    ELSE IF h \in DOMAIN enumeration THEN enumeration[h] ELSE None

LatestVersion(id) == CHOOSE v \in {o.version : o \in {x \in store : x.id = id}} :
                        \A o \in store : o.id = id => o.version <= v

(* ObjectStore::get_object: the latest version of a live object *)
get_object(id) ==
    IF id \in live THEN CHOOSE o \in store : o.id = id /\ o.version = LatestVersion(id)
    ELSE None

(* ObjectStore::get_object_by_key: exactly that stored version *)
get_object_by_key(id, v) ==
    IF \E o \in store : o.id = id /\ o.version = v
    THEN CHOOSE o \in store : o.id = id /\ o.version = v
    ELSE None

-----------------------------------------------------------------------------
(* Mutant: a pinned version that is not stored falls back to the latest *)
resolve_object_fallback(fake_id, version) ==
    LET id  == fake_to_real_object_id(fake_id)
        pinned == IF version # NoVersion THEN get_object_by_key(id, version) ELSE None
        obj == IF pinned # None THEN pinned ELSE get_object(id)
    IN  CASE id = None  -> Err("Unknown object")
          [] obj = None -> Err("Could not load object argument")
          [] OTHER      -> Ok(obj)

(* SuiValue::resolve_object *)
resolve_object(fake_id, version) ==
    LET id  == fake_to_real_object_id(fake_id)
        obj == IF version # NoVersion THEN get_object_by_key(id, version) ELSE get_object(id)
    IN  CASE id = None  -> Err("Unknown object")
          [] obj = None -> Err("Could not load object argument")
          [] OTHER      -> Ok(obj)

(* Object::compute_object_reference *)
compute_object_reference(obj) == [id |-> obj.id, version |-> obj.version]

(* SuiValue::receiving_arg: Receiving whatever the owner *)
receiving_arg(fake_id, version) ==
    LET r == resolve_object(fake_id, version)
    IN  IF r.ok THEN Ok(Receiving(compute_object_reference(r.val))) ELSE r

(* SuiValue::object_arg: a shared object at its initial shared version,    *)
(* always mutable; any other owner at its exact reference                  *)
object_arg(fake_id, version) ==
    LET r == resolve_object(fake_id, version)
        obj == r.val
    IN  CASE ~r.ok -> r
          [] obj.owner.kind = "Shared" ->
                Ok(SharedObject(obj.id, obj.owner.initial_shared_version, TRUE))
          [] OTHER -> Ok(ImmOrOwnedObject(compute_object_reference(obj)))

(* SuiValue::into_call_arg *)
into_call_arg(v) ==
    CASE v.kind = "Object"    -> LET a == object_arg(v.id, v.version)
                                 IN  IF a.ok THEN Ok(ObjectCallArg(a.val)) ELSE a
      [] v.kind = "MoveValue" -> Ok(PureArg("simple_serialize"))
      [] v.kind = "Receiving" -> LET a == receiving_arg(v.id, v.version)
                                 IN  IF a.ok THEN Ok(ObjectCallArg(a.val)) ELSE a
      [] v.kind = "ObjVec"    -> Err("obj vec is not supported as an input")
      [] v.kind = "Digest"    -> IF staged[v.pkg] = None
                                 THEN Err("Unbound staged package")
                                 ELSE Ok(PureArg(staged[v.pkg]))

(* ProgrammableTransactionBuilder::input and ::make_obj_vec: each object   *)
(* becomes an input, the vector a MakeMoveVec command over those inputs    *)
builder_input(b, ca) == [b EXCEPT !.inputs = Append(@, ca)]

(* Mutant: the MakeMoveVec command counts its inputs from 0 *)
make_obj_vec_offbyone(b, objs) ==
    [inputs   |-> b.inputs \o [k \in DOMAIN objs |-> ObjectCallArg(objs[k])],
     commands |-> Append(b.commands, [k \in DOMAIN objs |-> Len(b.inputs) + k - 1])]

make_obj_vec(b, objs) ==
    [inputs   |-> b.inputs \o [k \in DOMAIN objs |-> ObjectCallArg(objs[k])],
     commands |-> Append(b.commands, [k \in DOMAIN objs |-> Len(b.inputs) + k])]

(* Mutant: each element is registered with the builder as it resolves,   *)
(* so a later failing element leaves the earlier ones behind              *)
into_argument_partial(v, b) ==
    IF v.kind = "ObjVec"
    THEN LET args == [k \in DOMAIN v.elems |-> object_arg(v.elems[k].id, v.elems[k].version)]
             bad  == {k \in DOMAIN args : ~args[k].ok}
             first == CHOOSE k \in bad : \A m \in bad : k <= m
         IN  IF bad = {}
             THEN [builder |-> make_obj_vec(b, [k \in DOMAIN args |-> args[k].val]),
                   result  |-> Ok([k \in DOMAIN args |-> ObjectCallArg(args[k].val)])]
             ELSE [builder |-> [b EXCEPT !.inputs = @ \o [k \in 1..first - 1 |-> ObjectCallArg(args[k].val)]],
                   result  |-> args[first]]
    ELSE LET ca == into_call_arg(v)
         IN  IF ca.ok THEN [builder |-> builder_input(b, ca.val), result |-> Ok(<<ca.val>>)]
                      ELSE [builder |-> b, result |-> ca]

(* SuiValue::into_argument: the builder after the call (it is borrowed     *)
(* mutably) and the result.  An object vector is resolved completely,      *)
(* the first failing element failing the call, before the builder is       *)
(* touched.                                                                 *)
into_argument(v, b) ==
    IF v.kind = "ObjVec"
    THEN LET args == [k \in DOMAIN v.elems |-> object_arg(v.elems[k].id, v.elems[k].version)]
             bad  == {k \in DOMAIN args : ~args[k].ok}
         IN  IF bad = {}
             THEN [builder |-> make_obj_vec(b, [k \in DOMAIN args |-> args[k].val]),
                   result  |-> Ok([k \in DOMAIN args |-> ObjectCallArg(args[k].val)])]
             ELSE [builder |-> b,
                   result  |-> args[CHOOSE k \in bad : \A m \in bad : k <= m]]
    ELSE LET ca == into_call_arg(v)
         IN  IF ca.ok THEN [builder |-> builder_input(b, ca.val), result |-> Ok(<<ca.val>>)]
                      ELSE [builder |-> b, result |-> ca]

-----------------------------------------------------------------------------
(* Scenario commands                                                       *)

Init ==
    /\ store = {Object(g, 1, IF g \in SharedGenesis THEN Shared(1) ELSE AddressOwner)
                 : g \in Genesis}
    /\ live = Genesis
    /\ enumeration = [h \in {} |-> None]
    /\ staged = [x \in Names |-> None]
    /\ task = 0
    /\ builder = EmptyBuilder
    /\ last = [value |-> None]

(* A programmable transaction input: into_argument on the builder *)
ResolveArgument(v) ==
    /\ Len(builder.inputs) < MaxInputs
    /\ LET r == into_argument(v, builder)
       IN  /\ builder' = r.builder
           /\ last' = [entry |-> "into_argument", value |-> v, result |-> r.result]
    /\ UNCHANGED <<store, live, enumeration, staged, task>>

(* An argument of a `run` command: into_call_arg *)
ResolveCallArg(v) ==
    /\ LET r == into_call_arg(v)
       IN  last' = [entry |-> "into_call_arg", value |-> v,
                    result |-> IF r.ok THEN Ok(<<r.val>>) ELSE r]
    /\ UNCHANGED <<store, live, enumeration, staged, task, builder>>

(* The command's transaction is executed (TransactionalAdapter::execute_txn) *)
(* and commits a new version for every object it writes; the command ends   *)
(* and its builder is dropped.                                              *)
Committed(newStore, newLive, newEnum) ==
    /\ task < MaxTasks
    /\ store' = newStore /\ live' = newLive /\ enumeration' = newEnum
    /\ task' = task + 1
    /\ builder' = EmptyBuilder /\ last' = [value |-> None]
    /\ UNCHANGED staged

NewVersion == task + 2

CreateObject ==
    \E id \in Ids \ {o.id : o \in store}, owner \in {AddressOwner, Immutable, Shared(NewVersion)} :
        Committed(store \cup {Object(id, NewVersion, owner)}, live \cup {id},
                  enumeration @@ (Enumerated(task, 0) :> id))

(* A mutable live object is written: a shared one stays shared; an owned  *)
(* one may be transferred, made a child of another object or frozen; a    *)
(* child may be taken out again.                                           *)
WriteObject ==
    \E id \in live :
        LET o == get_object(id)
            next == CASE o.owner.kind = "Shared" -> {o.owner}
                      [] o.owner = ObjectOwner   -> {AddressOwner, ObjectOwner}
                      [] OTHER                   -> {AddressOwner, ObjectOwner, Immutable}
        IN  /\ o.owner # Immutable
            /\ \E owner \in next :
                  Committed(store \cup {Object(id, NewVersion, owner)}, live, enumeration)

DeleteObject ==
    \E id \in live :
        /\ get_object(id).owner # Immutable
        /\ Committed(store, live \ {id}, enumeration)

(* stage-package NAME: the package is compiled and its digest recorded *)
StagePackage ==
    /\ task < MaxTasks
    /\ \E x \in Names, d \in Digests : staged' = [staged EXCEPT ![x] = d]
    /\ task' = task + 1
    /\ builder' = EmptyBuilder /\ last' = [value |-> None]
    /\ UNCHANGED <<store, live, enumeration>>

Next ==
    \/ \E v \in SuiValues : ResolveArgument(v) \/ ResolveCallArg(v)
    \/ CreateObject \/ WriteObject \/ DeleteObject
    \/ StagePackage

Spec == Init /\ [][Next]_vars

-----------------------------------------------------------------------------
(* The state is well formed and every builder command refers to inputs    *)
(* the builder holds.                                                      *)
TypeOK ==
    /\ store \subseteq [id : Ids, version : Versions, owner : Owners]
    /\ live \subseteq {o.id : o \in store}
    /\ enumeration \in [DOMAIN enumeration -> Ids] /\ DOMAIN enumeration \subseteq Handles
    /\ staged \in [Names -> Digests \cup {None}]
    /\ task \in 0..MaxTasks
    /\ Len(builder.inputs) <= MaxInputs + MaxVec
    /\ \A c \in 1..Len(builder.commands) :
          \A k \in DOMAIN builder.commands[c] : builder.commands[c][k] \in 1..Len(builder.inputs)

(* The version an object was created at: objects are shared only when created *)
FirstVersion(id) == CHOOSE v \in {o.version : o \in {x \in store : x.id = id}} :
                       \A o \in store : o.id = id => v <= o.version

(* The stored object a reference denotes: the pinned version, or the live   *)
(* latest one; None when the handle is unbound or that version is absent    *)
Denoted(r) ==
    LET id == fake_to_real_object_id(r.id)
        vs == IF r.version # NoVersion
              THEN {o \in store : o.id = id /\ o.version = r.version}
              ELSE {o \in store : o.id = id /\ id \in live /\ o.version = LatestVersion(id)}
    IN  IF id = None \/ vs = {} THEN None ELSE CHOOSE o \in vs : TRUE

(* The input spec section 4.2 prescribes for a resolved object *)
Prescribed(kind, o) ==
    CASE kind = "Receiving"         -> Receiving([id |-> o.id, version |-> o.version])
      [] o.owner.kind = "Shared"    -> SharedObject(o.id, FirstVersion(o.id), TRUE)
      [] OTHER                      -> ImmOrOwnedObject([id |-> o.id, version |-> o.version])

References(v) ==
    CASE v.kind \in {"Object", "Receiving"} -> <<[id |-> v.id, version |-> v.version]>>
      [] v.kind = "ObjVec"                  -> v.elems
      [] OTHER                              -> <<>>

(* Every resolution is exact against the store as it is when it runs: it   *)
(* succeeds exactly when every handle is bound, every pinned version is    *)
(* stored (never falling back to the latest), every unpinned object is     *)
(* live and a digest's package is staged; it then yields, in order, a      *)
(* Receiving input for a receiving reference whatever the owner, a mutable *)
(* shared input at the creation version for a shared object and the exact  *)
(* pinned-or-latest reference otherwise, and the staged digest's bytes.    *)
(* An object vector is an input only through into_argument.               *)
ResolutionIsExact ==
    LET v == last.value
        refs == References(v)
        kind == IF v.kind = "ObjVec" THEN "Object" ELSE v.kind
    IN  v # None =>
        /\ last.result.ok <=>
              /\ \A k \in DOMAIN refs : Denoted(refs[k]) # None
              /\ v.kind = "Digest" => staged[v.pkg] # None
              /\ v.kind = "ObjVec" => last.entry = "into_argument"
        /\ last.result.ok /\ refs # <<>> =>
              last.result.val = [k \in DOMAIN refs |-> ObjectCallArg(Prescribed(kind, Denoted(refs[k])))]
        /\ last.result.ok /\ v.kind = "Digest" => last.result.val = <<PureArg(staged[v.pkg])>>

(* Resolving a value into the builder is all or nothing: a failed          *)
(* resolution leaves the builder as it was, and a successful one adds one  *)
(* input, or one MakeMoveVec command over exactly the inputs it adds.      *)
ArgumentStepIsAtomic ==
    [][task' = task =>
         IF last'.result.ok
         THEN \/ builder' = builder
              \/ /\ builder'.commands = builder.commands
                 /\ builder'.inputs = Append(builder.inputs, last'.result.val[1])
              \/ /\ builder'.inputs = builder.inputs \o last'.result.val
                 /\ builder'.commands = Append(builder.commands,
                        [k \in DOMAIN last'.result.val |-> Len(builder.inputs) + k])
         ELSE builder' = builder]_vars
=============================================================================
