# TLA+ models of the Sui transactional test runner, package store and checkpoint API

This directory holds TLA+ specifications of the code under `src/`. TLC checks them.
Every definition translates the Rust source. `PROJECT.json` maps each definition to the lines it models. It also lists:
- every run;
- every mutant that shows a property can fail;
- the findings;
- the hazards the properties are aimed at.

## The system

| Part | Source | What it does |
|---|---|---|
| Value literal parser | `sui-transactional-test-runner/src/args.rs` 166-240, 354-414 | Reads `object(N)`, `object(I,J)`, `object(..)@V`, `receiving(..)` and `digest(NAME)` from a token stream. Builds `FakeID`s: `Known` (a u256 turned into an address) or `Enumerated` (a pair of u64). Turns vectors and structs of values into `SuiValue`s. |
| Value resolver | `args.rs` 242-352 | Turns a `SuiValue` into a transaction input: a `CallArg`, or an `Argument` of the programmable transaction builder. It looks the object up through the test adapter's object store, at the pinned version or the latest. It then branches on the object's ownership: shared ⇒ `SharedObject` at its initial shared version, mutable; otherwise ⇒ `ImmOrOwnedObject` with its reference. A `digest(NAME)` reads the staged-package table. |
| TransactionalAdapter and its two backends | `lib.rs` 58-168, 233-301 | The contract every backend offers to the test runner: execute, dev-inspect, event query, checkpoint, clock, epoch, gas. `ValidatorWithFullnode` drives a validator and a fullnode. `Simulacrum` is an in-process simulated chain. |
| LocalDBPackageStore | `sui-analytics-indexer/src/package_store.rs` | A RocksDB table of package objects. The checkpoint processor writes it through `update`. `get` reads it, and on a miss fetches the object from a fullnode and writes it in. |
| ReadApiV2 | `sui-indexer/src/apis/read_api_v2.rs` | The indexer's JSON-RPC read surface. Most methods forward to the indexer reader. `get_checkpoints` paginates with a cursor. |
| CLI command records | `args.rs` 21-163, 416-424 | clap records of the script verbs' flags. They have no behaviour. |

How the parts interact:
1. A test script's command line is parsed into `SuiValue`s (the parser).
2. Each value is resolved against the state of the chain behind the adapter (the resolver, through `ObjectStore::get_object`/`get_object_by_key` of `lib.rs`).
3. The transaction that results is executed through the `TransactionalAdapter`.
4. The next command resolves against the state that execution left behind.

The package store and the read API belong to the indexers. They share only the chain with the test runner: the store reads it through checkpoints and a fullnode, and the API reads the indexer's checkpoint table.

## Modules

| Module | Models | State | Actions |
|---|---|---|---|
| `SuiValueParser` (+ `MC_SuiValueParser`) | The parser functions of `args.rs` as operators over token sequences: `parse_value`, `parse_object_value`, `parse_receiving_value`, `parse_digest_value`, `parse_receiving_or_object_value`, `parse_fake_id`, `concrete_vector`, `concrete_struct`. The u256 → address conversion is modelled by what it does (`to_le_bytes`, then the reversal) at a reduced width: `AddrBytes` bytes of base `ByteBase`, with `U64Max` as the u64 bound. | `toks`, the token stream the lexer has delivered so far; `values`, the kinds of the elements of a vector or struct literal parsed so far | `ReadToken`: the lexer delivers one more token while the parser still needs input. `ParseElement`: the base grammar parses one more element. |
| `SuiValueResolver` (+ `MC_SuiValueResolver`) | `resolve_object`, `receiving_arg`, `object_arg`, `into_call_arg` and `into_argument` against a store of object versions. The script changes the store between resolutions. | `store` (every object version ever written), `live`, `enumeration` (the handle table), `staged`, `task`, `builder`, `last` | `ResolveArgument`, `ResolveCallArg`; and, modelled from the spec, `CreateObject`, `WriteObject`, `DeleteObject`, `StagePackage` |
| `TransactionalAdapter` | Every trait method of both backends. `backend` is chosen at `Init` from the constant `Backends` and never changes, as a scenario binds one backend for its lifetime (spec §3). The chain is the sequence of committed transactions with their events. | `backend`, `txs`, `eventStore`, `checkpointed`, `checkpoint`, `clock`, `epoch`, `calls`, `outcome` | `VFN_*` (validator) and `Sim_*` (simulator), one per method |
| `PackageStore` (+ `MC_PackageStore`) | `update`, and `get` with its fallback fetch split at the `await`. The fault model is the code's own error paths: a failing table read, `PackageNotFound` from the fetch, and a failing write after the fetch, which drops the object and returns the error. `get` may be asked for an id that is not a package. The local db can be deleted. | `log` (objects output by checkpoints), `processed`, `local` (the packages table), `pending` (fetched, not yet written), `answer` | `Checkpoint`, `ProcessObject`, `GetStart`, `GetFinish`, `Wipe` |
| `CheckpointPagination` | `validate_limit`, `get_checkpoints` (limit+1 rows, `has_next_page`, truncate, `next_cursor`) and `get_checkpoints_deprecated_limit` | `count`, and the client's walk: `descending`, `cursor`, `seen`, `done`, `page` | `IndexCheckpoint`, `RequestPage`, `StartWalk` |
| `CheckpointWalk` | The abstract promise of the checkpoint pagination, with no cursors or pages. A walk receives the checkpoints of its direction a block at a time, and is told it is done only when nothing is left. `CheckpointPagination` instantiates it as `Walk` and checks `Walk!Spec`. | `count`, `descending`, `seen`, `done` | `Index`, `Receive`, `Restart` |
| `ReadApiChain` (+ `MC_ReadApiChain`) | The checkpoint helpers `get_checkpoint`, `get_latest_checkpoint` and `get_chain_identifier`. The methods built on them: `get_latest_checkpoint_sequence_number`, `get_total_transaction_blocks`, `get_checkpoint`, `get_chain_identifier` and `get_protocol_config`. The transaction reads `get_transaction_block` (a one-digest multi-get, then `pop`), `multi_get_transaction_blocks` and `get_events`. The three methods that answer `MethodNotFound`. Every reader call may fail. | `cps` (the checkpoints table: sequence number, digest, `network_total_transactions`), `epochs` (protocol version per epoch), `calls`, `reply`, `answers` (the client's successful checkpoint reads, in order) | `IndexCheckpoint`, `IndexEpoch`, and one action per RPC method |
| `ReadApiObjects` (+ `MC_ReadApiObjects`) | `get_display_fields`, `get_object` and `multi_get_objects` (the size check, one `get_object` per id under `join_all`, and the `collect` into one `Result`). The indexer keeps writing objects and display templates meanwhile. | `stage` (each object's state in the index: not existing, a version, deleted), `display`, `call` (the multi-get in flight), `responses`, `result` | `IndexObject`, `IndexDisplay`, `StartMultiGet`, `ReadOne`, `FinishMultiGet` |

Some state belongs to collaborators that are not under `src/`. It is modelled from `spec.md` and marked `spec_modelled` in the map:
- the handle table (`fake_to_real_object_id`);
- the staged-package table;
- the effects of executed transactions on the object store;
- the way a committed transaction's events enter the store.

## Runs

| Run | Expect | Properties | What it shows |
|---|---|---|---|
| `parser` | pass | `TypeOK`, `ParseAgreesWithGrammar`, `FakeIdSyntaxesAgree`, `CompositesNeverCoerced` | Every token stream of up to 9 tokens parses to exactly the literal it spells, with no other outcome. That covers the comma and `@` lookaheads, truncated input, the u64 bound on `I` and the byte order of addresses. The CLI `parse_fake_id` and the literal syntax agree at the u64 boundary. A vector is never coerced: a mixed vector panics, it never filters. |
| `resolver` | pass | `TypeOK`, `ResolutionIsExact`, `ArgumentStepIsAtomic` | Across creations, writes, ownership changes, deletions and stagings, a value is accepted exactly when what it names exists. It then yields exactly the input its ownership mode prescribes, at the pinned version or the latest, and a shared object yields its initial shared version. A failing resolution, an object vector included, leaves the builder unchanged. A successful one adds exactly its inputs, plus one `MakeMoveVec` for a vector. |
| `adapter` | pass | `TypeOK` | On either backend, every sequence of up to 4 adapter calls leaves the adapter state well formed. The simulator's checkpoint watermark never covers a transaction that was not committed. The event properties are not checked on a passing run. On the simulator the event store is appended in step with the transactions, and the validator's query takes a prefix of at most `limit` events, so both would hold by construction. They are checked only where the code breaks them: the two violation runs below. |
| `adapter_panics` | violation | `ContractNeverPanics` | Both backends are possible at `Init`, and each has methods that panic (`unimplemented!`): the validator's `create_checkpoint`, `advance_clock`, `advance_epoch` and `request_gas`, and the simulator's `dev_inspect_transaction_block`. TLC reports the first panic it reaches; both are one call from the initial state. |
| `adapter_simulator_limit` | violation | `EventQueryRespectsLimit` | The simulator ignores `_limit`. |
| `adapter_validator_events` | violation | `EventsNeverLost` | `.unwrap_or_default()` answers an empty event list when the query fails. |
| `package_store_sequential` | pass | `TypeOK`, `StoreNotBehindCheckpoints` | Checkpoint processing waits while a `get` is in flight, but two gets interleave with each other. In that setting only versions that exist on chain are stored or answered. The table is never behind the processed checkpoints. That holds through in-place upgrades of a package, failed table reads and writes, and deletion of the local db. |
| `package_store_race` | violation | `StoreNotBehindCheckpoints` | A `get` fetches version 1. The processor then stores the upgrade to version 2. The `get` resumes and writes version 1 over it. |
| `package_store_regress` | violation | `StoreNeverRegresses` | No `get` overlaps processing here. A `get` misses and stores the fullnode's latest version, 2. The processor, still behind, then reaches version 1 and `update()` writes it over version 2. Later gets answer the older package. |
| `checkpoint_pagination` | pass | `TypeOK`, `PaginationIsExact`, `WalkRefinement` | Pages never overrun their limit. Ascending walks see 0, 1, 2, … with no gap or repeat, and end having seen everything written when they ended. Descending walks go down to 0. This holds while the indexer appends. The pagination refines `CheckpointWalk`: every page is a legal `Receive`, and a client that keeps asking is eventually told the walk is done. |
| `read_api_chain` | pass | `TypeOK`, `ChainReadsAreConsistent` | Each method reads the checkpoints table in its own blocking task while the indexer appends. The answers still agree with one table that only grows. Each answer fits a prefix of the table, and no answer fits only a shorter prefix than an earlier answer did. This covers a transaction block found or reported missing: one reported missing after a total that already counts it breaks the property, and so does one found before any total counts it. The chain identifier is always the genesis digest. `multi_get_transaction_blocks` and `get_protocol_config` are called too, and every branch of each fires. No property restates their single guards. |
| `read_api_objects` | pass | `TypeOK`, `MultiGetIsExact` | A request over `QUERY_MAX_RESULT_LIMIT` never starts. A completed `multi_get_objects` fails exactly when one of its reads failed. Otherwise it answers one response per id, in request order. Each response shows a state the object had during the call, has data exactly when the object exists, and has display fields only when they were asked for. This holds however the reads interleave with the indexer. |

Each property of a passing run has a mutant in `PROJECT.json`. The mutant is a plausible bug in the code it replaces, and TLC finds the property violated under it. Some examples:
- the u64 check done with `<` in place of `<=`;
- the byte reversal dropped;
- a pinned version that falls back to the latest;
- an object vector registered element by element;
- the store asked for `limit` rows in place of `limit + 1`;
- the next cursor taken from the first row of a page;
- `multi_get_objects` keeping only the successful reads;
- the size limit not checked;
- the chain identifier taken from the latest checkpoint;
- the total read from the sequence number;
- the count of checkpoints answered as the latest one;
- `get_transaction_block` missing the newest indexed transaction;
- a package update that does not overwrite.

The findings, with the run that exhibits each:
- validator panics and the simulator dev-inspect panic: `adapter_panics`;
- ignored limit: `adapter_simulator_limit`;
- swallowed query error: `adapter_validator_events`;
- package-store regression when a fetch races an upgrade: `package_store_race`;
- package-store regression after a fetch ahead of the processor: `package_store_regress`.

`PROJECT.json` gives the source line and the text of the spec or comment that each finding contradicts.

## Bounds, and why they are enough

- **Parser.**
  - Addresses are 2 bytes of base 4, and U64Max = 3, with numerals {0,1,3,4,15,16}. That gives values below, at and above the u64 bound, and at and above the address bound.
  - Streams are at most 9 tokens. The longest literal, `object(I,J)@V`, is 8 tokens, so every literal, every truncation and one trailing token are covered.
  - Vectors have up to 3 elements, enough for a mixed vector whose bad element is not the first.
- **Resolver.**
  - 3 commands. One object is pre-existing and shared, one is owned, and one is created by command 1 (enumerated `(1,0)`).
  - Pins are absent, 1 or 2. Version 2 is the first written version, and it exists only after a write. A pin of 1 names the genesis version, which exists even after the object is written or deleted.
  - MaxInputs = 1 and vectors of 2 elements. With these bounds a vector can have one element that resolves and one that does not.
- **Adapter.** 4 calls, up to 2 events per transaction, limits {1,2}. A limit below the event count, and an epoch change between a commit and its query, are both reachable.
- **Package store.**
  - 2 packages and one object that is not a package.
  - 2 versions per package, so an in-place upgrade happens.
  - 4 checkpoint outputs and 2 getters. The race needs one getter, one upgrade and one processing step, so this bound exceeds what it needs.
- **Pagination.**
  - 5 checkpoints, with the maximum page size 2.
  - Limits {0,1,2,3} and no limit, so the invalid 0, the invalid 3 and the default all happen.
  - Appends can happen between any two pages, and a last page can be exactly full.
- **Chain reads.**
  - 3 checkpoints of 0 to 2 transactions each, so totals and sequence numbers differ. 2 epochs with versions {1, 2}, of which only 1 is supported.
  - 3 calls, enough for a read before genesis is indexed, followed by two reads separated by appends.
  - The run reaches about 4.4 million distinct states in about a minute.
  - The digest requests are `[1]`, `[3, 1]` and `[1, 2, 3]`. `[3, 1]` is at the limit of 2 and contains a digest that may not be indexed yet; `[1, 2, 3]` is one over the limit.
- **Object reads.**
  - Two objects and a package, with one version each. Every branch of `get_object` is reachable: not existing, existing, deleted, with or without display, and a display that fails to render.
  - QUERY_MAX_RESULT_LIMIT = 2. The requests are `[a, pkg]`, `[a, a]` (a duplicate id, read twice) and `[a, b, pkg]`, which is over the limit.
  - A read can fail, and the indexer can write between any two reads of one call.

## Fairness

One property is a liveness property.

`WalkRefinement` includes `CheckpointWalk`'s `WF(Receive)`, so a walk that is not done is eventually told it is done.

It is checked under `FairSpec`, which is `WF_vars` of a page request. A client that has not finished its walk keeps asking. A request with a valid limit is always enabled, and `get_checkpoints` answers it: the handler has no lock, and no wait beyond the store read. Without this fairness, TLC finds a walk that stutters forever.

The indexer's appends are not fair, and need not be. A walk ends even if the indexer keeps appending: an ascending page that is shorter than `limit + 1` ends the walk, and `MaxCheckpoints` bounds the appends.

`multi_get_objects` has no liveness property. Under the fairness `join_all` gives its reads, completion would follow from that fairness alone, and the code has no retry or wait that could stop it.

Every other property is a safety property. The test runner runs a script's commands one at a time (spec §5), and a script may stop after any command. The package store makes no promise about when a get happens. So those modules assume no fairness. The configurations that may stop say `CHECK_DEADLOCK FALSE` with the reason:
- the parser stops when a literal is complete;
- a script stops after its last command or after a panic.

## Not modelled

- The lexer and the base Move value grammar (`MoveCLParser`, external). Tokens are abstracted to their kinds, and numerals to their values.
- The CLI flag records (`args.rs` 21-163) and `parse_policy`: records with no behaviour.
- `run_test` (`lib.rs` 45-56), the harness entry point.
- ReadApiV2's response conversions (`SuiObjectData` and its options, `BigInt`, the chain identifier's string form) are abstracted to the fields the properties compare. The RPC registration (`SuiRpcModule`) has no behaviour.
- The `NodeStateGetter` methods of `ValidatorWithFullnode` (`lib.rs` 172-231) each forward one call to the validator, and nothing in `src/` calls them. `ObjectStore::get_object` and `get_object_by_key` are modelled as the resolver's store reads.
- The write order of the indexer's tables is not under `src/`. Checkpoints, with their transactions, and epochs are appended independently and atomically.
- Transaction execution, consensus and storage internals. They are abstracted to the effects the resolver and adapter can observe.
- The builder's deduplication of identical inputs, which is external. The model appends every input.

## Plan for further work

1. Compose the resolver with the adapter: resolve against the objects that `execute_txn` on each backend commits, instead of the spec-modelled effects.
2. Write an abstract ledger contract that both backends implement, with the simulator shown to refine it through `INSTANCE ... WITH`. Today the divergences above block the validator from refining it.
3. Settle which version the package table should follow. `package_store_regress` shows that the table can go backwards when a fetch gets ahead of the processor. A fix that compares versions before writing would make `StoreNeverRegresses` a passing property. `StoreNotBehindCheckpoints` would then still need to hold.
4. The project has the maximum of 12 runs. A new question needs an existing run merged or retired first.
