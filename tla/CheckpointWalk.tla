--------------------------- MODULE CheckpointWalk ---------------------------
(***************************************************************************)
(* What a paginated checkpoint read promises a client, with no cursors or  *)
(* pages: a walk receives the checkpoints in its direction one block at a  *)
(* time, never skipping or repeating one, and it may only be told it is    *)
(* finished once nothing is left to receive.  A client that keeps asking   *)
(* is eventually told so.  CheckpointPagination implements this walk.      *)
(***************************************************************************)
EXTENDS Naturals, Sequences, SequencesExt

CONSTANT MaxCheckpoints

VARIABLES count, descending, seen, done

walkVars == <<count, descending, seen, done>>

(* The checkpoints the walk has still to receive, in its order             *)
Remaining ==
    IF descending
    THEN LET top == IF seen = <<>> THEN count ELSE Last(seen)
         IN  [k \in 1..top |-> top - k]
    ELSE [k \in 1..count - Len(seen) |-> Len(seen) + k - 1]

Index ==
    /\ count < MaxCheckpoints
    /\ count' = count + 1
    /\ UNCHANGED <<descending, seen, done>>

(* The walk receives the next k checkpoints; it may be finished with them  *)
(* only if they were all that was left.                                    *)
Receive ==
    /\ ~done
    /\ \E k \in 0..Len(Remaining), fin \in BOOLEAN :
          /\ k > 0 \/ fin
          /\ fin => k = Len(Remaining)
          /\ seen' = seen \o SubSeq(Remaining, 1, k)
          /\ done' = fin
    /\ UNCHANGED <<count, descending>>

Restart ==
    /\ done
    /\ \E desc \in BOOLEAN : descending' = desc
    /\ seen' = <<>> /\ done' = FALSE
    /\ UNCHANGED count

Init == count = 0 /\ descending \in BOOLEAN /\ seen = <<>> /\ done = FALSE

Next == Index \/ Receive \/ Restart

(* A client that keeps asking for pages is eventually told the walk is done *)
Spec == Init /\ [][Next]_walkVars /\ WF_walkVars(Receive)
=============================================================================
