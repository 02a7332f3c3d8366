---------------------------- MODULE ReadApiChain ----------------------------
(***************************************************************************)
(* The chain-state reads of ReadApiV2 (sui-indexer, read_api_v2.rs): the   *)
(* checkpoint helpers get_checkpoint, get_latest_checkpoint and            *)
(* get_chain_identifier, and the RPC methods built on them                 *)
(* (get_latest_checkpoint_sequence_number, get_total_transaction_blocks,   *)
(* get_checkpoint, get_protocol_config), with the transaction reads        *)
(* (get_transaction_block, multi_get_transaction_blocks, get_events),      *)
(* answered while the indexer keeps appending checkpoints and epochs.      *)
(*                                                                         *)
(* Checkpoint k (k = 0, 1, ...) is cps[k + 1]: its digest is k and it     *)
(* carries network_total_transactions.  Transactions are                 *)
(* their digests 1..network_total_transactions of the latest checkpoint.   *)
(* Every reader call may fail (a database error).                          *)
(***************************************************************************)
EXTENDS Naturals, Sequences, SequencesExt

CONSTANTS
    MaxCheckpoints,   \* checkpoints the indexer writes
    MaxTxs,           \* transactions one checkpoint holds
    MaxEpochs,        \* epochs the indexer writes
    ProtocolVersions, \* protocol versions an indexed epoch may have
    Supported,        \* versions ProtocolConfig::get_for_version_if_supported knows
    MaxResultLimit,   \* QUERY_MAX_RESULT_LIMIT
    DigestRequests,   \* digests arguments of multi_get_transaction_blocks
    MaxCalls,         \* RPC calls the client makes
    None              \* no version argument / no reply yet

ASSUME /\ MaxCheckpoints \in Nat /\ MaxTxs \in Nat /\ MaxEpochs \in Nat
       /\ Supported \subseteq ProtocolVersions /\ MaxResultLimit \in Nat
       /\ MaxCalls \in Nat

VARIABLES
    cps,      \* the checkpoints table, checkpoint k at index k + 1
    epochs,   \* protocol version of each indexed epoch, oldest first
    calls,    \* RPC calls made so far
    reply,    \* the last call: its method, argument, and result
    answers   \* successful answers of the checkpoint reads, in order

vars == <<cps, epochs, calls, reply, answers>>

Err(e) == [ok |-> FALSE, err |-> e]
Ok(v) == [ok |-> TRUE, val |-> v]

Digest(k) == k
Checkpoint(k, total) == [seq |-> k, digest |-> Digest(k), total |-> total]
NetworkTotal == IF cps = <<>> THEN 0 ELSE Last(cps).total
Digests == 1..MaxCheckpoints * MaxTxs

-----------------------------------------------------------------------------
(* ReadApiV2::get_checkpoint: the reader's answer, None as               *)
(* InvalidArgumentError("Checkpoint .. not found").                        *)
get_checkpoint(id, readOk) ==
    CASE ~readOk        -> Err("IndexerError")
      [] id < Len(cps)  -> Ok(cps[id + 1])
      [] OTHER          -> Err("InvalidArgumentError")

(* ReadApiV2::get_latest_checkpoint: the reader's latest row, an error on *)
(* an empty table.                                                         *)
get_latest_checkpoint(readOk) ==
    IF readOk /\ cps # <<>> THEN Ok(Last(cps)) ELSE Err("IndexerError")

(* Mutant: the chain is identified by the latest checkpoint *)
get_chain_identifier_latest(readOk) ==
    LET c == get_latest_checkpoint(readOk)
    IN  IF c.ok THEN Ok(c.val.digest) ELSE c

(* ReadApiV2::get_chain_identifier: the digest of checkpoint 0             *)
get_chain_identifier(readOk) ==
    LET c == get_checkpoint(0, readOk)
    IN  IF c.ok THEN Ok(c.val.digest) ELSE c

(* Mutant: the total is read from the sequence number *)
get_total_transaction_blocks_seq(readOk) ==
    LET c == get_latest_checkpoint(readOk)
    IN  IF c.ok THEN Ok(c.val.seq) ELSE c

(* ReadApiServer::get_total_transaction_blocks                             *)
get_total_transaction_blocks(readOk) ==
    LET c == get_latest_checkpoint(readOk)
    IN  IF c.ok THEN Ok(c.val.total) ELSE c

(* Mutant: the number of checkpoints is answered as the latest one        *)
get_latest_checkpoint_sequence_number_count(readOk) ==
    LET c == get_latest_checkpoint(readOk)
    IN  IF c.ok THEN Ok(Len(cps)) ELSE c

(* ReadApiServer::get_latest_checkpoint_sequence_number                    *)
get_latest_checkpoint_sequence_number(readOk) ==
    LET c == get_latest_checkpoint(readOk)
    IN  IF c.ok THEN Ok(c.val.seq) ELSE c

(* ReadApiServer::get_protocol_config: the chain first, then the version  *)
(* asked for or the latest epoch's, which this binary must support.        *)
get_protocol_config(version, chainOk, epochOk) ==
    LET chain == get_chain_identifier(chainOk)
        v     == IF version # None THEN Ok(version)
                 ELSE IF epochOk /\ epochs # <<>> THEN Ok(Last(epochs))
                 ELSE Err("IndexerError")
    IN  CASE ~chain.ok           -> chain
          [] ~v.ok               -> v
          [] v.val \in Supported -> Ok(v.val)
          [] OTHER               -> Err("ProtocolVersionUnsupported")

(* IndexerReader::multi_get_transaction_block_response_in_blocking_task:  *)
(* the responses of the digests that are indexed, in order, or an error.  *)
read_transactions(ds, readOk) ==
    IF readOk THEN Ok(SelectSeq(ds, LAMBDA d : d \in 1..NetworkTotal))
    ELSE Err("IndexerError")

(* ReadApiServer::multi_get_transaction_blocks                             *)
multi_get_transaction_blocks(ds, readOk) ==
    IF Len(ds) > MaxResultLimit THEN Err("SizeLimitExceeded")
    ELSE read_transactions(ds, readOk)

(* Mutant: the single-block lookup misses the newest indexed transaction  *)
get_transaction_block_offbyone(d, readOk) ==
    CASE ~readOk                  -> Err("IndexerError")
      [] d \in 1..NetworkTotal - 1 -> Ok(d)
      [] OTHER                    -> Err("InvalidArgumentError")

(* ReadApiServer::get_transaction_block: a multi-get of the one digest,   *)
(* whose last response is popped; none is InvalidArgumentError.           *)
get_transaction_block(d, readOk) ==
    LET r == multi_get_transaction_blocks(<<d>>, readOk)
    IN  CASE ~r.ok        -> r
          [] r.val # <<>> -> Ok(Last(r.val))
          [] OTHER        -> Err("InvalidArgumentError")

(* ReadApiServer::get_events: the reader's events of the transaction       *)
get_events(d, readOk) ==
    IF readOk /\ d \in 1..NetworkTotal THEN Ok(d) ELSE Err("IndexerError")

-----------------------------------------------------------------------------
(* The indexer commits the next checkpoint with its transactions           *)
IndexCheckpoint ==
    /\ Len(cps) < MaxCheckpoints
    /\ \E n \in 0..MaxTxs : cps' = Append(cps, Checkpoint(Len(cps), NetworkTotal + n))
    /\ UNCHANGED <<epochs, calls, reply, answers>>

(* The indexer commits a new epoch                                         *)
IndexEpoch ==
    /\ Len(epochs) < MaxEpochs
    /\ \E v \in ProtocolVersions : epochs' = Append(epochs, v)
    /\ UNCHANGED <<cps, calls, reply, answers>>

(* The methods whose answers tell how far the indexed chain reaches        *)
CheckpointReads == {"get_latest_checkpoint_sequence_number",
                    "get_total_transaction_blocks", "get_checkpoint",
                    "get_chain_identifier", "get_transaction_block"}

(* The answer a call adds to the client's record: a successful chain read, *)
(* or a transaction block reported missing.                                *)
Recorded(method, arg, result) ==
    CASE result.ok /\ method \in CheckpointReads ->
           <<[kind |-> method, val |-> result.val]>>
      [] method = "get_transaction_block" /\ result = Err("InvalidArgumentError") ->
           <<[kind |-> "transaction_not_found", val |-> arg]>>
      [] OTHER -> <<>>

(* One RPC call of the client, answered against the index as it is now    *)
Call(method, arg, result) ==
    /\ calls < MaxCalls
    /\ calls' = calls + 1
    /\ reply' = [method |-> method, arg |-> arg, result |-> result]
    /\ answers' = answers \o Recorded(method, arg, result)
    /\ UNCHANGED <<cps, epochs>>

GetLatestCheckpointSequenceNumber ==
    \E ok \in BOOLEAN :
        Call("get_latest_checkpoint_sequence_number", None,
             get_latest_checkpoint_sequence_number(ok))

GetTotalTransactionBlocks ==
    \E ok \in BOOLEAN :
        Call("get_total_transaction_blocks", None, get_total_transaction_blocks(ok))

GetCheckpoint ==
    \E id \in 0..MaxCheckpoints, ok \in BOOLEAN :
        Call("get_checkpoint", id, get_checkpoint(id, ok))

(* ReadApiServer::get_chain_identifier: the identifier as a string        *)
GetChainIdentifier ==
    \E ok \in BOOLEAN : Call("get_chain_identifier", None, get_chain_identifier(ok))

GetProtocolConfig ==
    \E v \in ProtocolVersions \cup {None}, chainOk, epochOk \in BOOLEAN :
        Call("get_protocol_config", v, get_protocol_config(v, chainOk, epochOk))

GetTransactionBlock ==
    \E d \in Digests, ok \in BOOLEAN :
        Call("get_transaction_block", d, get_transaction_block(d, ok))

MultiGetTransactionBlocks ==
    \E ds \in DigestRequests, ok \in BOOLEAN :
        Call("multi_get_transaction_blocks", ds, multi_get_transaction_blocks(ds, ok))

GetEvents ==
    \E d \in Digests, ok \in BOOLEAN : Call("get_events", d, get_events(d, ok))

(* try_get_past_object, try_multi_get_past_objects and                    *)
(* get_loaded_child_objects answer MethodNotFound                          *)
GetUnsupported ==
    \E m \in {"try_get_past_object", "try_multi_get_past_objects",
              "get_loaded_child_objects"} :
        Call(m, None, Err("MethodNotFound"))

Init ==
    /\ cps = <<>> /\ epochs = <<>>
    /\ calls = 0 /\ reply = None /\ answers = <<>>

Next ==
    \/ IndexCheckpoint
    \/ IndexEpoch
    \/ GetLatestCheckpointSequenceNumber
    \/ GetTotalTransactionBlocks
    \/ GetCheckpoint
    \/ GetChainIdentifier
    \/ GetProtocolConfig
    \/ GetTransactionBlock
    \/ MultiGetTransactionBlocks
    \/ GetEvents
    \/ GetUnsupported

Spec == Init /\ [][Next]_vars

-----------------------------------------------------------------------------
(* The state is well formed: the table's totals never decrease, and the  *)
(* sequence number and total reads answer numbers within the table.       *)
TypeOK ==
    /\ Len(cps) <= MaxCheckpoints /\ Len(epochs) <= MaxEpochs
    /\ \A k \in 1..Len(cps) : cps[k] = Checkpoint(k - 1, cps[k].total)
    /\ \A k \in 1..Len(cps) - 1 : cps[k].total <= cps[k + 1].total
    /\ epochs \in Seq(ProtocolVersions) /\ calls \in 0..MaxCalls
    /\ Len(answers) <= calls
    /\ \A i \in 1..Len(answers) :
          /\ answers[i].kind = "get_latest_checkpoint_sequence_number" =>
                answers[i].val \in 0..Len(cps) - 1
          /\ answers[i].kind = "get_total_transaction_blocks" =>
                answers[i].val \in 0..NetworkTotal

(* The checkpoints an answer is consistent with: the one whose sequence    *)
(* number or transaction total it reports, any at or after the one it      *)
(* returned by id, any for the genesis digest.                             *)
(* The transactions in the first p checkpoints                            *)
TotalAt(p) == IF p = 0 THEN 0 ELSE cps[p].total

(* The prefixes of the table (its first p checkpoints, p = 0 before        *)
(* genesis) an answer is consistent with: the one ending at the sequence   *)
(* number or transaction total it reports, any holding the checkpoint it   *)
(* returned by id, any for the genesis digest, any holding a transaction   *)
(* it found, any not yet holding a transaction it reported missing.        *)
Match(a) ==
    LET some == 1..Len(cps)
    IN  CASE a.kind = "get_latest_checkpoint_sequence_number" -> {a.val + 1} \cap some
          [] a.kind = "get_total_transaction_blocks" -> {p \in some : TotalAt(p) = a.val}
          [] a.kind = "get_checkpoint" -> {p \in some : p > a.val.seq /\ cps[a.val.seq + 1] = a.val}
          [] a.kind = "get_chain_identifier" -> IF a.val = Digest(0) THEN some ELSE {}
          [] a.kind = "get_transaction_block" -> {p \in some : TotalAt(p) >= a.val}
          [] OTHER -> {p \in 0..Len(cps) : TotalAt(p) < a.val}

(* The chain reads a client makes one after another (latest sequence       *)
(* number, total transactions, a checkpoint by id, the chain identifier,   *)
(* a transaction block found or reported missing) are consistent with one  *)
(* table that only grows: each answer fits a prefix of the table, and no   *)
(* later answer fits only a shorter prefix than an earlier one, however    *)
(* the reads interleave with the indexer.                                  *)
ChainReadsAreConsistent ==
    \A i \in 1..Len(answers) :
        /\ Match(answers[i]) # {}
        /\ \A j \in i + 1..Len(answers) :
              \E ci \in Match(answers[i]), cj \in Match(answers[j]) : ci <= cj
=============================================================================
