------------------------ MODULE TransactionalAdapter ------------------------
(***************************************************************************)
(* The TransactionalAdapter trait (lib.rs) and its two implementations,    *)
(* ValidatorWithFullnode and Simulacrum<StdRng>, driven by a test script   *)
(* that issues one adapter call at a time (spec section 5).                *)
(*                                                                         *)
(* The chain behind an adapter is abstracted into the sequence of          *)
(* committed transactions with the events each emitted, the event store    *)
(* the backend answers queries from, and (simulator only) the checkpoint   *)
(* watermark, the clock and the epoch.  What the authority pipeline and    *)
(* the simulator do inside a call is not under src/ and is modelled from   *)
(* the spec; which call each trait method makes, and what it does with the *)
(* result, is modelled from lib.rs.                                        *)
(***************************************************************************)
EXTENDS Naturals, Sequences

CONSTANTS
    Backends,     \* the backends a test may run on: "ValidatorWithFullnode", "Simulacrum"
    MaxCommands,  \* adapter calls the script makes
    MaxEvents,    \* events one transaction may emit
    Limits,       \* `limit` arguments of query_tx_events_asc
    Durations     \* advance-clock durations

ASSUME /\ Backends \subseteq {"ValidatorWithFullnode", "Simulacrum"}
       /\ MaxCommands \in Nat /\ MaxEvents \in Nat
       /\ Limits \subseteq Nat \ {0} /\ Durations \subseteq Nat

VARIABLES
    backend,      \* the backend this test runs on
    txs,          \* committed transactions: txs[d] = events emitted by digest d
    eventStore,   \* what the backend's event store holds per digest
    checkpointed, \* txs[1..checkpointed] are in checkpoints (simulator)
    checkpoint,   \* sequence number of the last checkpoint (simulator)
    clock,        \* clock timestamp (simulator)
    epoch,        \* current epoch (simulator)
    calls,        \* adapter calls made so far
    outcome       \* result of the last call

vars == <<backend, txs, eventStore, checkpointed, checkpoint, clock, epoch, calls, outcome>>

Event(d, k) == <<d, k>>

(* The events a transaction emits: Move aborts emit none *)
Emitted(d, n) == [k \in 1..n |-> Event(d, k)]

Outcome(op, status) == [op |-> op, status |-> status]

Panicked == outcome.status = "panic"

(* One adapter call of the script; a panic (unimplemented!) ends the test  *)
Call == calls < MaxCommands /\ ~Panicked /\ calls' = calls + 1

(* A transaction committed by the backend *)
Commit(n) ==
    LET d == Len(txs) + 1
    IN  /\ txs' = Append(txs, Emitted(d, n))
        /\ eventStore' = Append(eventStore, Emitted(d, n))

Min2(a, b) == IF a <= b THEN a ELSE b

(* The result of executing a transaction: rejected before execution (an    *)
(* Err, nothing committed), aborted during execution (committed, with the  *)
(* ExecutionError and no events) or committed with its events.            *)
Executed ==
    /\ \/ /\ outcome' = Outcome("execute_txn", "error")
          /\ UNCHANGED <<txs, eventStore>>
       \/ /\ Commit(0)
          /\ outcome' = Outcome("execute_txn", "execution_error")
       \/ \E n \in 0..MaxEvents :
             /\ Commit(n)
             /\ outcome' = Outcome("execute_txn", "ok")

-----------------------------------------------------------------------------
(* ValidatorWithFullnode                                                   *)

(* execute_txn: send_and_confirm_transaction_with_execution_error through  *)
(* the validator and the fullnode (the consensus path when the transaction *)
(* touches a shared object).                                                *)
VFN_execute_txn ==
    /\ Call
    /\ Executed
    /\ UNCHANGED <<checkpointed, checkpoint, clock, epoch>>

(* dev_inspect_transaction_block: forwarded to the fullnode, nothing is    *)
(* committed                                                               *)
VFN_dev_inspect_transaction_block ==
    /\ Call
    /\ \E status \in {"ok", "error"} : outcome' = Outcome("dev_inspect", status)
    /\ UNCHANGED <<txs, eventStore, checkpointed, checkpoint, clock, epoch>>

(* query_tx_events_asc: validator.query_events(kv_store,                   *)
(* EventFilter::Transaction(d), None, limit, false), ascending, and         *)
(* .unwrap_or_default(): a failing query answers Ok(empty).                 *)
VFN_query_tx_events_asc ==
    /\ Call
    /\ \E d \in 1..Len(txs) + 1, limit \in Limits :
          LET stored == IF d <= Len(eventStore) THEN eventStore[d] ELSE <<>>
              found  == SubSeq(stored, 1, Min2(limit, Len(stored)))
          IN  \E failed \in BOOLEAN :
                 outcome' = [op |-> "query_tx_events_asc", status |-> "ok", digest |-> d,
                             limit |-> limit, events |-> IF failed THEN <<>> ELSE found]
    /\ UNCHANGED <<txs, eventStore, checkpointed, checkpoint, clock, epoch>>

(* create_checkpoint, advance_clock, advance_epoch, request_gas:           *)
(* unimplemented!("... not supported")                                     *)
VFN_unsupported ==
    /\ Call
    /\ \E op \in {"create_checkpoint", "advance_clock", "advance_epoch", "request_gas"} :
          outcome' = Outcome(op, "panic")
    /\ UNCHANGED <<txs, eventStore, checkpointed, checkpoint, clock, epoch>>

ValidatorNext ==
    \/ VFN_execute_txn
    \/ VFN_dev_inspect_transaction_block
    \/ VFN_query_tx_events_asc
    \/ VFN_unsupported

-----------------------------------------------------------------------------
(* Simulacrum<StdRng>                                                      *)

(* execute_txn: Simulacrum::execute_transaction, its error propagated by ? *)
Sim_execute_txn ==
    /\ Call
    /\ Executed
    /\ UNCHANGED <<checkpointed, checkpoint, clock, epoch>>

(* dev_inspect_transaction_block:                                          *)
(* unimplemented!("dev_inspect_transaction_block not supported in          *)
(* simulator mode")                                                        *)
Sim_dev_inspect_transaction_block ==
    /\ Call
    /\ outcome' = Outcome("dev_inspect", "panic")
    /\ UNCHANGED <<txs, eventStore, checkpointed, checkpoint, clock, epoch>>

(* query_tx_events_asc: store().get_transaction_events_by_tx_digest(d),    *)
(* all of them (the limit is ignored), or empty for an unknown digest      *)
Sim_query_tx_events_asc ==
    /\ Call
    /\ \E d \in 1..Len(txs) + 1, limit \in Limits :
          outcome' = [op |-> "query_tx_events_asc", status |-> "ok", digest |-> d,
                      limit |-> limit,
                      events |-> IF d <= Len(eventStore) THEN eventStore[d] ELSE <<>>]
    /\ UNCHANGED <<txs, eventStore, checkpointed, checkpoint, clock, epoch>>

(* Mutant: the checkpoint watermark runs one transaction ahead *)
Sim_create_checkpoint_ahead ==
    /\ Call
    /\ checkpointed' = Len(txs) + 1
    /\ checkpoint' = checkpoint + 1
    /\ outcome' = Outcome("create_checkpoint", "ok")
    /\ UNCHANGED <<txs, eventStore, clock, epoch>>

(* create_checkpoint: every transaction not yet in a checkpoint goes into  *)
(* a new one                                                               *)
Sim_create_checkpoint ==
    /\ Call
    /\ checkpointed' = Len(txs)
    /\ checkpoint' = checkpoint + 1
    /\ outcome' = Outcome("create_checkpoint", "ok")
    /\ UNCHANGED <<txs, eventStore, clock, epoch>>

(* advance_clock: a consensus commit prologue moves the clock forward      *)
Sim_advance_clock ==
    /\ Call
    /\ \E dur \in Durations :
          /\ Commit(0)
          /\ clock' = clock + dur
    /\ outcome' = Outcome("advance_clock", "ok")
    /\ UNCHANGED <<checkpointed, checkpoint, epoch>>

(* advance_epoch: the change-epoch transaction is executed and sealed in   *)
(* the epoch's last checkpoint                                             *)
Sim_advance_epoch ==
    /\ Call
    /\ Commit(0)
    /\ checkpointed' = Len(txs) + 1
    /\ checkpoint' = checkpoint + 1
    /\ epoch' = epoch + 1
    /\ outcome' = Outcome("advance_epoch", "ok")
    /\ UNCHANGED clock

(* request_gas: a faucet transfer, or its error                            *)
Sim_request_gas ==
    /\ Call
    /\ \/ /\ Commit(0)
          /\ outcome' = Outcome("request_gas", "ok")
       \/ /\ outcome' = Outcome("request_gas", "error")
          /\ UNCHANGED <<txs, eventStore>>
    /\ UNCHANGED <<checkpointed, checkpoint, clock, epoch>>

SimulatorNext ==
    \/ Sim_execute_txn
    \/ Sim_dev_inspect_transaction_block
    \/ Sim_query_tx_events_asc
    \/ Sim_create_checkpoint
    \/ Sim_advance_clock
    \/ Sim_advance_epoch
    \/ Sim_request_gas

-----------------------------------------------------------------------------
Init ==
    /\ backend \in Backends
    /\ txs = <<>> /\ eventStore = <<>>
    /\ checkpointed = 0 /\ checkpoint = 0
    /\ clock = 0 /\ epoch = 0
    /\ calls = 0
    /\ outcome = Outcome("none", "ok")

Next ==
    /\ IF backend = "Simulacrum" THEN SimulatorNext ELSE ValidatorNext
    /\ UNCHANGED backend

Spec == Init /\ [][Next]_vars

-----------------------------------------------------------------------------
(* The state is well formed: checkpoints never cover a transaction that   *)
(* was not committed.                                                      *)
TypeOK ==
    /\ txs \in Seq(Seq(Nat \X Nat)) /\ eventStore \in Seq(Seq(Nat \X Nat))
    /\ checkpointed \in 0..Len(txs) /\ checkpoint \in Nat
    /\ clock \in Nat /\ epoch \in Nat /\ calls \in 0..MaxCommands
    /\ outcome.status \in {"ok", "error", "execution_error", "panic"}

Queried == outcome.op = "query_tx_events_asc"

Expected(d) == IF d <= Len(txs) THEN txs[d] ELSE <<>>

(* No adapter call panics: an operation a backend does not support answers *)
(* with a "not supported" result the script can branch on (spec 4.3, 8).   *)
ContractNeverPanics == ~Panicked

(* A query never answers more than `limit` events (spec 4.3).              *)
EventQueryRespectsLimit == Queried => Len(outcome.events) <= outcome.limit

(* Events are never lost: a successful query for a committed transaction   *)
(* returns its first events, oldest first, as many as the limit allows,    *)
(* whatever checkpoints, clock or epoch changes happened since (spec 8).   *)
EventsNeverLost ==
    Queried =>
        LET want == Expected(outcome.digest)
            n    == Min2(outcome.limit, Len(want))
        IN  Len(outcome.events) >= n /\ SubSeq(outcome.events, 1, n) = SubSeq(want, 1, n)
=============================================================================
