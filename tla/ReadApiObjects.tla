--------------------------- MODULE ReadApiObjects ---------------------------
(***************************************************************************)
(* The object reads of ReadApiV2 (sui-indexer, read_api_v2.rs):            *)
(* get_object with its display branch, and multi_get_objects, which runs   *)
(* one get_object per id under join_all and collects the results, while    *)
(* the indexer keeps writing objects.                                      *)
(*                                                                         *)
(* An object's history in the index is a stage that only grows: 0 is      *)
(* NotExists, 1..MaxVersion the version that exists, Deleted after that.   *)
(* A display template for the object's type may be indexed at any time.   *)
(***************************************************************************)
EXTENDS Naturals, Sequences, SequencesExt

CONSTANTS
    Ids,            \* object ids
    Packages,       \* ids of package objects (no Move struct, no display)
    MaxVersion,     \* versions an object reaches
    MaxResultLimit, \* QUERY_MAX_RESULT_LIMIT
    Requests,       \* object_ids arguments a client sends
    None            \* no response yet / no display fields

ASSUME /\ Packages \subseteq Ids /\ MaxVersion \in Nat \ {0}
       /\ MaxResultLimit \in Nat /\ Requests \subseteq Seq(Ids)

Deleted == MaxVersion + 1

VARIABLES
    stage,      \* id -> its state in the index
    display,    \* ids whose type has an indexed display template
    call,       \* the multi_get_objects in flight: its ids, show_display and
                \* the stages of its objects when it started, or None
    responses,  \* index -> the get_object result for call.ids[index], or None
    result      \* what the last multi_get_objects returned, or None

vars == <<stage, display, call, responses, result>>

Err(e) == [ok |-> FALSE, err |-> e]
Ok(v) == [ok |-> TRUE, val |-> v]

-----------------------------------------------------------------------------
(* ReadApiV2::get_display_fields: no struct type (a package) gives no      *)
(* fields; a display template for the type is rendered, which may fail; no *)
(* template gives no fields.                                               *)
get_display_fields(id, renders) ==
    CASE id \in Packages       -> Ok(None)
      [] id \notin display     -> Ok(None)
      [] renders               -> Ok("Fields")
      [] OTHER                 -> Err("DisplayError")

Response(id, s, data, disp, err) ==
    [id |-> id, stage |-> s, data |-> data, display |-> disp, error |-> err]

(* ReadApiV2::get_object: the object read (which may fail) decides the    *)
(* response; an existing object asked with show_display gets its display   *)
(* fields, and a display failure is reported next to the object's data.    *)
get_object(id, show, readOk, renders) ==
    LET s == stage[id]
        d == get_display_fields(id, renders)
    IN  CASE ~readOk   -> Err("IndexerError")
          [] s = 0     -> Ok(Response(id, s, FALSE, None, "NotExists"))
          [] s = Deleted -> Ok(Response(id, s, FALSE, None, "Deleted"))
          [] ~show     -> Ok(Response(id, s, TRUE, None, None))
          [] d.ok      -> Ok(Response(id, s, TRUE, d.val, None))
          [] OTHER     -> Ok(Response(id, s, TRUE, None, "DisplayError"))

(* Mutant: the results are collected keeping only the successful ones *)
collect_ok_only(rs) ==
    Ok(SelectSeq([k \in DOMAIN rs |-> rs[k]], LAMBDA r : r.ok))

(* .collect::<Result<Vec<_>, _>>(): the first failure in order is the      *)
(* answer; otherwise every response, in the order of the ids.              *)
collect(rs) ==
    LET bad == {k \in DOMAIN rs : ~rs[k].ok}
    IN  IF bad = {} THEN Ok([k \in DOMAIN rs |-> rs[k].val])
        ELSE rs[Min(bad)]

-----------------------------------------------------------------------------
(* The indexer writes the next state of an object: created, a new version, *)
(* or deleted.                                                             *)
IndexObject ==
    /\ \E id \in Ids : stage[id] < Deleted /\ stage' = [stage EXCEPT ![id] = @ + 1]
    /\ UNCHANGED <<display, call, responses, result>>

(* The indexer writes a display template for an object's type *)
IndexDisplay ==
    /\ \E id \in Ids \ (Packages \cup display) : display' = display \cup {id}
    /\ UNCHANGED <<stage, call, responses, result>>

(* Mutant: the size limit is not checked *)
StartMultiGet_unchecked(ids, show) ==
    /\ call = None
    /\ call' = [ids |-> ids, show |-> show, start |-> stage]
    /\ responses' = [k \in DOMAIN ids |-> None]
    /\ UNCHANGED <<result, stage, display>>

(* multi_get_objects: more ids than QUERY_MAX_RESULT_LIMIT is rejected at  *)
(* once; otherwise one get_object per id is started.                       *)
StartMultiGet(ids, show) ==
    /\ call = None
    /\ IF Len(ids) > MaxResultLimit
       THEN /\ result' = Err("SizeLimitExceeded")
            /\ UNCHANGED <<call, responses>>
       ELSE /\ call' = [ids |-> ids, show |-> show, start |-> stage]
            /\ responses' = [k \in DOMAIN ids |-> None]
            /\ UNCHANGED result
    /\ UNCHANGED <<stage, display>>

(* join_all polls the get_object futures in any order; each reads the      *)
(* index as it is when it runs.                                            *)
ReadOne(k) ==
    /\ call # None /\ responses[k] = None
    /\ \E readOk, renders \in BOOLEAN :
          responses' = [responses EXCEPT ![k] = get_object(call.ids[k], call.show, readOk, renders)]
    /\ UNCHANGED <<stage, display, call, result>>

(* join_all completes once every future has; the results are collected    *)
FinishMultiGet ==
    /\ call # None /\ \A k \in DOMAIN responses : responses[k] # None
    /\ result' = collect(responses)
    /\ call' = None
    /\ UNCHANGED <<stage, display, responses>>

Init ==
    /\ stage = [id \in Ids |-> 0] /\ display = {}
    /\ call = None /\ responses = <<>> /\ result = None

Next ==
    \/ IndexObject
    \/ IndexDisplay
    \/ \E ids \in Requests, show \in BOOLEAN : StartMultiGet(ids, show)
    \/ \E k \in 1..Len(responses) : ReadOne(k)
    \/ FinishMultiGet

Spec == Init /\ [][Next]_vars

-----------------------------------------------------------------------------
(* The state is well formed, and a multi-get in flight never has more ids  *)
(* than QUERY_MAX_RESULT_LIMIT, nor a response slot per id missing.        *)
TypeOK ==
    /\ stage \in [Ids -> 0..Deleted] /\ display \subseteq Ids \ Packages
    /\ call # None =>
          /\ call.ids \in Requests /\ Len(call.ids) <= MaxResultLimit
          /\ DOMAIN responses = DOMAIN call.ids

(* A multi-get is all or nothing and element-wise current, however its    *)
(* reads interleave with the indexer: a completed call fails exactly when *)
(* some read failed (one failure discards every other response), or        *)
(* answers exactly one                                                     *)
(* response per requested id, in request order, each showing a state the  *)
(* object had at some moment during the call, with data exactly when the   *)
(* object exists and display fields only when they were asked for.         *)
MultiGetIsExact ==
    [][FinishMultiGet =>
         LET ids == call.ids
             r   == result'
         IN  /\ r.ok <=> \A k \in DOMAIN responses : responses[k].ok
             /\ r.ok =>
                  /\ Len(r.val) = Len(ids)
                  /\ \A k \in DOMAIN ids :
                        LET x == r.val[k]
                        IN  /\ x.id = ids[k]
                            /\ call.start[ids[k]] <= x.stage /\ x.stage <= stage[ids[k]]
                            /\ x.data <=> x.stage \in 1..MaxVersion
                            /\ x.display # None => call.show]_vars
=============================================================================
