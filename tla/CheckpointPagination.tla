------------------------- MODULE CheckpointPagination -------------------------
(***************************************************************************)
(* ReadApiV2::get_checkpoints (sui-indexer, read_api_v2.rs): cursor-based  *)
(* pagination over the indexer's checkpoints, read by a client walking     *)
(* page after page while the indexer keeps appending checkpoints.          *)
(*                                                                         *)
(* Checkpoints are their sequence numbers 0..count-1.  The indexer store's *)
(* get_checkpoints(cursor, n, descending) answers the first n checkpoints  *)
(* strictly after the cursor in the walk's direction (from the start or    *)
(* the end when there is no cursor).                                       *)
(***************************************************************************)
EXTENDS Naturals, Sequences, SequencesExt

CONSTANTS
    MaxCheckpoints,  \* checkpoints the indexer writes
    MaxResultLimit,  \* QUERY_MAX_RESULT_LIMIT_CHECKPOINTS
    Limits,          \* page sizes a client asks for (0 and too large included)
    NoLimit,         \* the request gives no limit
    NoCursor         \* the request (or the answer) has no cursor

ASSUME /\ MaxCheckpoints \in Nat /\ MaxResultLimit \in Nat \ {0}
       /\ Limits \subseteq Nat

VARIABLES
    count,      \* checkpoints the indexer has written: 0..count-1
    descending, \* direction of the client's walk
    cursor,     \* cursor of the client's next request
    seen,       \* checkpoints the walk has received, in order
    done,       \* the last page said there is no next page
    page,       \* the last page: its data and the limit it was asked with
    countAtEnd  \* checkpoints written when the last page of the walk was read

vars == <<count, descending, cursor, seen, done, page, countAtEnd>>

(* sui_json_rpc::api::validate_limit: no limit is the maximum; 0 and more  *)
(* than the maximum are rejected.                                          *)
validate_limit(limit) ==
    CASE limit = NoLimit       -> [ok |-> TRUE, n |-> MaxResultLimit]
      [] limit = 0             -> [ok |-> FALSE, n |-> 0]
      [] limit > MaxResultLimit -> [ok |-> FALSE, n |-> 0]
      [] OTHER                 -> [ok |-> TRUE, n |-> limit]

(* Mutant: a descending walk without a cursor starts one past the top *)
After_from_count(c, desc) ==
    IF desc
    THEN Reverse([k \in 1..(IF c = NoCursor THEN count + 1 ELSE c) |-> k - 1])
    ELSE LET from == IF c = NoCursor THEN 0 ELSE c + 1
         IN  [k \in 1..(IF from >= count THEN 0 ELSE count - from) |-> from + k - 1]

(* The checkpoints after the cursor, in the walk's order                   *)
After(c, desc) ==
    IF desc
    THEN Reverse([k \in 1..(IF c = NoCursor THEN count ELSE c) |-> k - 1])
    ELSE LET from == IF c = NoCursor THEN 0 ELSE c + 1
         IN  [k \in 1..(IF from >= count THEN 0 ELSE count - from) |-> from + k - 1]

(* IndexerReader::get_checkpoints(cursor, n, descending_order)             *)
store_get_checkpoints(c, n, desc) == SubSeq(After(c, desc), 1, Min({n, Len(After(c, desc))}))

(* Mutant: the store is asked for `limit` rows instead of limit + 1 *)
get_checkpoints_exact_fetch(c, limit, desc) ==
    LET rows == store_get_checkpoints(c, limit, desc)
        data == SubSeq(rows, 1, Min({limit, Len(rows)}))
    IN  [data |-> data, has_next_page |-> Len(rows) > limit,
         next_cursor |-> IF data = <<>> THEN NoCursor ELSE Last(data)]

(* Mutant: the next cursor is taken from the first row of the page *)
get_checkpoints_first_cursor(c, limit, desc) ==
    LET rows == store_get_checkpoints(c, limit + 1, desc)
        data == SubSeq(rows, 1, Min({limit, Len(rows)}))
    IN  [data |-> data, has_next_page |-> Len(rows) > limit,
         next_cursor |-> IF data = <<>> THEN NoCursor ELSE Head(data)]

(* ReadApiV2::get_checkpoints after validate_limit: limit + 1 rows are     *)
(* fetched, has_next_page is whether more than limit came back, the page   *)
(* is truncated to limit and the next cursor is its last checkpoint.       *)
get_checkpoints(c, limit, desc) ==
    LET rows == store_get_checkpoints(c, limit + 1, desc)
        data == SubSeq(rows, 1, Min({limit, Len(rows)}))
    IN  [data |-> data, has_next_page |-> Len(rows) > limit,
         next_cursor |-> IF data = <<>> THEN NoCursor ELSE Last(data)]

-----------------------------------------------------------------------------
(* The indexer commits the next checkpoint                                 *)
IndexCheckpoint ==
    /\ count < MaxCheckpoints
    /\ count' = count + 1
    /\ UNCHANGED <<descending, cursor, seen, done, page, countAtEnd>>

(* The client asks for the next page (get_checkpoints, or                  *)
(* get_checkpoints_deprecated_limit, whose u64 limit is cast to usize).   *)
(* An invalid limit is an InvalidParams error and changes nothing.         *)
RequestPage(limit) ==
    /\ ~done
    /\ LET v == validate_limit(limit)
           r == get_checkpoints(cursor, v.n, descending)
       IN  /\ v.ok
           /\ seen' = seen \o r.data
           /\ cursor' = r.next_cursor
           /\ done' = ~r.has_next_page
           /\ page' = [data |-> r.data, limit |-> v.n]
           /\ countAtEnd' = count
    /\ UNCHANGED <<count, descending>>

(* The client starts a new walk, in either direction                       *)
StartWalk ==
    /\ done
    /\ \E desc \in BOOLEAN :
          /\ descending' = desc
          /\ cursor' = NoCursor /\ seen' = <<>> /\ done' = FALSE
          /\ page' = [data |-> <<>>, limit |-> 0]
    /\ UNCHANGED <<count, countAtEnd>>

Init ==
    /\ count = 0 /\ descending \in BOOLEAN
    /\ cursor = NoCursor /\ seen = <<>> /\ done = FALSE
    /\ page = [data |-> <<>>, limit |-> 0] /\ countAtEnd = 0

Next ==
    \/ IndexCheckpoint
    \/ \E limit \in Limits \cup {NoLimit} : RequestPage(limit)
    \/ StartWalk

Spec == Init /\ [][Next]_vars

(* A client that has not finished its walk keeps asking for pages: every   *)
(* request with a valid limit is answered (the reader call blocks only on  *)
(* the store), so asking is continuously possible.                         *)
FairSpec == Spec /\ WF_vars(\E limit \in Limits \cup {NoLimit} : RequestPage(limit))

(* Cursors and pages refine the abstract walk: the client sees the same    *)
(* checkpoints, the same direction and the same end of walk.               *)
Walk == INSTANCE CheckpointWalk
            WITH count <- count, descending <- descending, seen <- seen, done <- done

-----------------------------------------------------------------------------
(* The state is well formed and a page only names checkpoints already     *)
(* written.                                                                *)
TypeOK ==
    /\ count \in 0..MaxCheckpoints /\ descending \in BOOLEAN /\ done \in BOOLEAN
    /\ cursor \in 0..MaxCheckpoints \cup {NoCursor}
    /\ seen \in Seq(0..count - 1) /\ countAtEnd \in 0..count

(* A walk is exact however the indexer's writes interleave with its pages: *)
(* no page is longer than its limit; an ascending walk has received        *)
(* 0, 1, 2, ... with no gap and no repeat, and when it ends it has received *)
(* every checkpoint written when its last page was read; a descending walk *)
(* receives consecutive checkpoints downwards and ends at checkpoint 0.    *)
PaginationIsExact ==
    /\ Len(page.data) <= page.limit
    /\ ~descending =>
          /\ seen = [k \in 1..Len(seen) |-> k - 1]
          /\ done => Len(seen) = countAtEnd
    /\ descending =>
          /\ \A k \in 1..Len(seen) - 1 : seen[k + 1] = seen[k] - 1
          /\ done /\ seen # <<>> => Last(seen) = 0

(* The pagination implements the abstract walk (CheckpointWalk): no page   *)
(* skips or repeats a checkpoint, a walk is only told it is done when      *)
(* nothing is left, and a client that keeps asking is eventually told so.  *)
WalkRefinement == Walk!Spec
=============================================================================
