# A TLA+ model of ICN v3

The repository is a Rust workspace for a network of cooperatives: members post
jobs, nodes of a mesh bid for and run them, receipts of the work are anchored in
a DAG, and "mana" pays for it. `agoranet` keeps federations' money and
deliberation, and contracts are written in a language of their own, CCL. This
directory holds a specification of the parts in which several tasks, requests,
messages or transactions meet over shared state, and of the translations whose
output others rely on; TLC configurations that check them on small instances;
and TLAPS proofs that hold for every instance.

Paths below are relative to `src/crates/` unless they begin with `src/`.

## 1. Inventory

| Component | State | Operations | What is hard | What makes it correct |
|---|---|---|---|---|
| **Mana manager** `common/icn-economics/src/mana.rs` 1-225 | one `ManaPool` (current, max, rate, last_updated) per scope; a metrics gauge | `ensure_pool`, `balance`, `spend`, `transfer`; each regenerates lazily first | the wall clock is not monotonic; a transfer to a missing pool or to itself; every path has to report to the gauge | caps hold; nobody spends what was not granted or regenerated; transfers are all or nothing; the gauge is current |
| **Distribution worker** `runtime/icn-runtime/src/distribution_worker.rs` | period, the shared manager, the DAG | `tick`: read the balance, query the DAG, pay each originator | a balance used after an await; a burst of missed ticks | never short half way; at most a tenth |
| **Mana ledger, regenerator, repository adapter** `icn-economics/src/mana.rs` 226-330, `sled_mana_ledger.rs`, `lib.rs` 320-400 | did -> `ManaState`, in memory and in sled | `get_mana_state`, `update_mana_state`, `ManaRegenerator::tick`, `record_usage` | read, await, write back; I/O failures in the middle of a tick; sled flushes later | caps hold; books balance; one rate per tick; a tick ends |
| **Resource policy enforcer, token ledger** `icn-economics/src/lib.rs` 1-300, `economics.rs` | usage per did and resource, policy, token usage per account | `check_authorization`, `record_usage`; `mint`, `transfer`, `record` | check and use are two calls; windows of a rate limit; a transfer to oneself | limits hold without races and are passed by a known margin with them; transfers create nothing |
| **Job service** `services/icn-mesh-jobs/src/` | tables jobs and bids, a cache of profiles | create, begin bidding, bid, assign, start, complete, fail; the choice of the best bid | handlers interleave at every await and are dropped when the client leaves; unconditional UPDATEs; a reputation service that may fail, be slow or be cached | one executor where no write is stale; status goes forward; records are earned and not lost; a choice rests on recent profiles |
| **Reputation service** `services/icn-reputation/src/` | records and profiles, two locks | submit, profile, summary, history | a record logged and applied under different locks | the three views of one log agree |
| **Agoranet transfer ledger** `services/icn-agoranet/src/transfers.rs`, `handlers.rs` 1560-1980 | balances, transfers, federation_stats behind one `RwLock`; WebSocket channels | single and batch transfer, query, statistics | lock scope differs between the endpoints; events after unlock; derived totals | transfers explain balances; batches are isolated; answers and events are true; pages tile |
| **Agoranet Postgres ledger** `services/icn-agoranet/src/ledger/pg_store.rs` | tables balances, transfers, federation_stats | `process_transfer`, `process_batch_transfer` | transactions, row locks in opposite orders, deadlock, lost COMMIT answers, races to insert a row | implements the same ledger; covered; nothing left locked; calls end |
| **Agoranet tokens, deliberation, WebSockets** `auth.rs`, `auth/revocation.rs`, `auth_handlers.rs`, `handlers.rs`, `websocket.rs` | tokens out, revocations with two indices; threads, proposals, votes; channels and connections | issue, revoke, rotate, clean up, authenticate; post, vote, list, count; publish, subscribe, forward | three maps updated one after the other and read in two look-ups; a deadline nobody enforces until somebody votes; broadcast lag | a revoked token stays dead, an issued one works (a rotated one does not); power is inherited; counts are votes; no gaps |
| **DAG store** `common/icn-types/src/dag_store.rs`, `dag/mod.rs` | cid -> `DagNode` behind an async `RwLock` | insert, remove, get, list; batches: stage, commit, roll back | a batch is applied entry by entry; a commit may be dropped while it waits | readers see whole batches; keys are the nodes' cids |
| **Identity, trust, signed documents** `common/icn-identity/src/`, `icn-types`, `icn-mesh-receipts`, `icn-crypto` | trusted keys, the bundle in force | sign, send, verify; quorum proofs, `set_trust_bundle`, `is_authorized_signer` | maps serialised in iteration order; duplicate and foreign signers; 16-bit weights | what verifies was signed; a quorum is one of distinct members |
| **Runtime** `runtime/icn-runtime/src/lib.rs`, `sled_storage.rs`, `reputation_integration.rs` | proposals, modules and receipts in sled, DAG, the node's key | `execute_proposal`, `issue_receipt`, `anchor_receipt`, `run_forever` | clones run concurrently; four effects in a row, two of which only log failures; crashes between write and flush; a receipt anchored on two paths | executions overlap or are one; what is anchored is signed; one charge per execution (there are two) |
| **Host environment, VM** `icn-runtime/src/host_environment.rs`, `job_execution_context.rs`, `wasm/`, `icn-core-vm` | open sections, the caller's mana; records and metrics of a VM | host calls, fuel | an execution that traps leaves state to the next; signed 32-bit lengths | sections, spending and metrics are exact |
| **CCL compiler** `ccl/*` | none (pure) | lower, generate, emit | recursion over syntax trees; one cursor for all texts | nesting and order are kept; the module can be instantiated (it cannot) |
| **Planetary mesh node** `p2p/planetary-mesh/src/node.rs`, `src/planetary-mesh/src/node.rs` | announced jobs, interests, bids, assignments, receipts, a DHT query; the libp2p swarm | announce, express interest, bid, select, assign, execute, announce receipt, settle; one event loop | gossip lost, repeated, reordered; the loop awaits what only it can deliver | one bidder wins; whoever is paid has bid and executed; the loop resumes |
| **Tools and front ends** `tools/*`, wallet, dashboard | none of their own | I/O | - | - |

How they interact: the job service tells a mesh node of an assignment (HTTP)
and the reputation service of an outcome (HTTP), and asks the latter for
profiles. A mesh node runs jobs through the runtime. The runtime anchors
receipts in the DAG store, submits reputation, and spends mana through the
repository adapter; the distribution worker reads the same DAG store and moves
mana in the manager, whose mutex it shares with everyone else. The regenerator
runs on a timer of the runtime. Contracts are compiled to calls of host
functions. Agoranet is a service of its own with its own ledger.

What is hard to test in each is listed, at its line, under `hazards` in
`PROJECT.json`; the properties are aimed at that list.

## 2. Modules

| Module | Models | State and actions |
|---|---|---|
| `ManaManager` | `mana.rs`, pools and manager | `pools` is the `HashMap`, each pool with the value last given to the metrics hook; `EnsurePool`, `Balance`, `Spend`, `Transfer`, and `SetClock` for the system clock, which may go back |
| `Distribution` (extends `ManaManager`) | `distribution_worker.rs` | `phase` says whether the tick holds the manager's mutex and where it is; `TickBegin`, `QueryEvents` or `QueryFails`, `PayOne`; other operations of the manager wait for the mutex, `Anchor` does not |
| `ManaLedger` | `ManaLedger` trait, sled, `ManaRegenerator::tick`, `record_usage` | each await is a step: `RecordUsageRead`/`Write`/`Fails`, `TickFetch`, `TickUpdate`, their failures, `Flush`, `Crash` |
| `ResourceUse` | `ResourcePolicyEnforcer`, `InMemoryResourceRepository`, `Economics` | `call[c]` is an authorised use that is not yet recorded; the check is one action, `RecordUse` another; token actions `MintTokens`, `TransferTokens` |
| `Economy` | both | `part` chooses which of the two runs: they share no state |
| `JobService` | handlers of `main.rs` over `sqlite_store.rs` | `pc[h]` is the await at which request `h` is; one action per segment between awaits; `Abandon` drops a handler |
| `Reputation` | `icn-reputation`, `icn-types/src/reputation.rs` | `SubmitLog` and `SubmitApply` are the two locks of `submit_record`, `RequestDropped` a client that leaves between them; profile, summary and history are operators. The stable `sort_by_key` of the history is a rank, the list of endorsers a set |
| `BidSelection` (extends `Reputation`) | `assign_best_bid_handler` in `main.rs`, the selectors of `job_assignment.rs`, `reputation_client.rs`, `reputation_cache.rs` | `sel[q]` is where request `q` is: it has its own selector and its own cache, made for the request, and goes through the bidders one per step. `ReadJob`, `ListBids`; `CacheHit`, `CacheMiss`, `ServiceReads`, `FetchArrives` and a failing fetch are the client; `NoWinner`, `AssignJob` and `NotifyMesh` end it, `AbandonRequest` drops it; the clock runs between |
| `LedgerBook` | what a transfer ledger promises | one atomic `Apply` per transfer. An abstract specification |
| `TransferApi` (extends `LedgerBook`) | transfer endpoints and the in-memory `Ledger` | `writer` is the held `RwLock`; requests pass permission, membership and fee computation, then take the lock; events are sent after it; `todo` and `notices` are sets, the first ordered by the transfers' timestamps; queries are the operator `QueryTransfers`, in which the stable `sort_by` is a rank |
| `PgLedger` (`INSTANCE LedgerBook WITH`) | `pg_store.rs` over PostgreSQL at READ COMMITTED | one action per SQL statement; `rowLock`, `inserting` and `statsLock` are the server's locks; an uncommitted write is visible to its own transaction only and is applied at commit |
| `DagStore` | `dag_store.rs` | `inner` is the map, `writer` the write lock kept by a commit, `staged` the batches; `CidOf` stands for `DagNode::cid` |
| `Trust` | receipts, credentials, quorum proofs, trust bundles, the validator | a document is composed, signed, sent and verified; its `map` is the iteration order of its `HashMap`, new in every instance; a signature is the pair of its key and payload |
| `Evidence` | `DagStore` and `Trust` | `part` chooses: store, documents or validator |
| `Runtime` | `icn-runtime` | `db` is what sled shows, `disk` what a crash leaves; tasks are clones of the runtime at an await; `loop` is `run_forever`; `Crash` may fall between any two steps |
| `JobLifecycle` | what the mesh promises of a job | announced, offered, assigned once; paid to somebody who executed it, at a price it bid. An abstract specification |
| `MeshNode` (`INSTANCE JobLifecycle WITH`) | both `node.rs` | `net` is the set of published messages, each delivered never, once or often; `query` is the Kademlia query an arm of the event loop awaits, and `InSelect` says that the loop takes no other event meanwhile; `alive` ends with a panic. An executor runs any job it knows of; `PeerBids`, a bid on the topic the originator listens to, is another implementation's |
| `AccessTokens` | tokens and their revocation | each connection has a request in flight, in three steps: the look-up by jti, the look-up by subject and issuer, the endpoint; others' requests and the clean-up come between. A revocation names any issuer, and a token signed outside may lack a jti |
| `Forum` | threads, proposals, votes; scoped lists and statistics | each handler is one step under the store's lock |
| `EventHub` | `websocket.rs` | `sent[s]` is what a channel carried; an event is sent to each enclosing scope in a step of its own; `Lagged` ends a connection |
| `Agoranet` | the three together behind one router | one clock; a scoped read or an upgrade needs an authenticated request |
| `CclLowering`, `CclCodegen` | `lower.rs`; `emit.rs` and the generator | functions from parse trees to DSL modules, to opcodes, to texts in memory |
| `HostEnvironment` | host functions and the job's context | `GuestCall` is accepted or traps; the context outlives the execution |
| `CoVm` | `icn-core-vm` | compilation and instantiation may fail, the latter after a start function has made host calls; five host functions over a shared context, fuel, words whose top bit weighs `SignBit`; `early` is the history of what start functions recorded since counters were last collected |
| `Execution` (extends both) | guests over one host environment, and over one VM | a step of either; nothing is shared |
| `Contract` (extends `CclCodegen`, `Execution`) | the compiler and what becomes of its module; executions of guests of any make | `process` chooses; `LoadContract` puts the order of the sections and the names of the imports to `Module::new` and to the linker |

`MC...` modules give TLC its instances; three of them put side by side parts that
share no state, with a constant that says which of them a behaviour may be of:
`MCNode` (`JobService`, `Runtime`, `Contract`), `MCEvidence` (`Evidence`,
`BidSelection`) and `MCAgoranet` (`Agoranet`, `TransferApi`). `InductionTheorems` and the `...Proofs`
modules hold the theorems, each of the latter about one group of modules:
`NodeProofs` (manager, distribution, runtime), `EconomyProofs`,
`JobServiceProofs`, `PgLedgerProofs`, `EvidenceProofs` (store, documents,
quorums, reputation, selection), `MeshNodeProofs` (mesh, executions),
`AgoranetProofs` (tokens, forum, hub, transfers).
Definitions whose comment begins with "Mutant:" are not part of a
specification: each is a definition as a plausible mistake would have left it,
and `PROJECT.json` pairs it with the property that notices.

### Where the models follow the code rather than its intent

* `DagNode::cid` returns an error for every node at this commit
  (`dag/mod.rs:179`), so the store refuses every insertion. `DagStore` takes the
  function as a constant, `CidOf`, and is checked with one like that which its
  tests are written for: it gives distinct nodes distinct cids and fails for some
  nodes. `Distribution` assumes a store that accepts nodes.
  `RuntimeExecutionReceipt::cid` is a stub of the same kind; `Runtime` has
  `CidOk` for the receipts where it succeeds.
* `icn-mesh-jobs` and `planetary-mesh` do not build as they stand (calls into
  APIs that are absent, such as `clone_for_async_tasks`); the handlers are
  modelled as written. `JobService` has requests name jobs by the stored id,
  because the id `create_job` answers with is not the key of the row: the two are
  hashes of different inputs.
* The handlers of the mesh node that fetch from the DHT await inside the event
  loop, so that nothing can answer them: `receipt_fetched` reports it. `MeshNode`
  has them so in mode `loop`; mode `task` runs them beside the loop, so that what
  comes after a fetch is checked too.
* `src/planetary-mesh/src/node.rs:279` publishes a bid on `job-bids/{id}`, and the
  originator listens on the job's interest topic (`p2p/planetary-mesh/src/node.rs:302`):
  `SendBid` reaches nobody. `PeerBids` is a node that publishes where it is heard.
* `SelectByScore` stops the node: it calls `block_on` inside the runtime that polls
  it (`p2p/planetary-mesh/src/node.rs:1204`), which panics.
* Nothing constructs `JobProcessor` and nothing writes the status `Posted` that it
  looks for: jobs are assigned by the handlers only, and it is not modelled.
* `min_reputation` is read by the Hybrid selector alone.
* `create_app` of agoranet installs neither the JWT configuration nor the
  revocation store, and nobody calls `start_revocation_cleanup`: `Agoranet` is a
  deployment that does. `handlers.rs` 1370-1566 duplicates other handlers and no
  route leads to it.
* `process_entity_transfer` has mismatched types between `handlers.rs` and
  `transfers.rs`; the model follows the statements. `ledger/postgres.rs` is a
  second Postgres store that no module declares.
* In `TransferApi` each recorded transfer has its own timestamp; the code's
  are `Utc::now()` and could coincide, which matters to no property but the
  order of a query's answer.
* The WASM module that `emit.rs` writes is refused at this commit: its sections are
  in another order than the format asks for, and most of what it imports is not
  registered (`contract_runs`); its type indices are shifted too, and it exports no
  memory. So no property is about a contract at run time: the compiler's are about
  the opcodes and their texts, and those of executions about guests of any make.
  The lowering is followed as it is: a block whose first key is `function_name` is
  taken for a call, the value of a function call keeps its key, both branches of a
  conditional are emitted, keys of nested maps are lost.
* `Economics` counts usage: "tokens" are what is left of an allowance.
* PostgreSQL, sqlx, sled, tokio, axum, libp2p, wasmtime and Ed25519 are
  external: modelled by what the code relies on. PostgreSQL: a row lock lasts to
  the end of the transaction, a duplicate key waits for and then fails on the
  first insertion, a cycle of waiting transactions loses one member. Ed25519: a
  signature verifies under its key and payload only.

## 3. Runs

Every bound is a constant of the configuration. Where a property is a
conjunction, its parts are definitions of their own with a comment each; they
are named in brackets.

| Run | Checks | Shows |
|---|---|---|
| `mana` | `PoolsSound` (`TypeOK`, `WithinMax`, `GaugeTracksBalance`, `WithinBudget`), `TransferAtomic`, `TickCovered` (`DTypeOK`, `NeverShort`, `Covered`), `FractionHeld` | two pools, any order of operations, a clock that goes both ways, also between the steps of a tick: because the mutex is kept across the await, a tick never runs short half way and hands out at most its tenth |
| `economy` | `LedgerSound` (`TypeOK`, `CapHeld`, `Accounted`, `RatePerTick`), `TickEnds`, `LimitsHeld` (`UseTypeOK`, `QuotaHeld`, `OvershootBounded`, `RateHeld`), `TokensNotCreated` | two spenders, the regenerator, failing I/O, delayed flush and crashes; two callers of the enforcer under each policy; the token ledger |
| `node` | `JobsSound` (`TypeOK`, `ExecutorsBid`, `RecordsEarned`, `CompletedRecorded`, `SoleExecutor`), `Forward`; `ProposalsSound` (`RuntimeTypeOK`, `ExecutionsOverlap`, `ExecutedWasApproved`), `ReceiptsSound` (`AnchoredIsSigned`, `ReportedIsAnchored`); `CompilerSound` (`CompilerTypeOK`, `WellNested`, `DocumentOrder`, `ArgumentsReadBack`), `ExecutionSound` (`OpenSectionsUnended`, `SpendingExact`, `MetricsAgree`, `IoExact`) | two handlers of the job service interleaved at every await and dropped at any (`SoleExecutor` and `Forward` are about jobs that are `fresh`: no handler wrote to their row after somebody else had changed what it read); clones of the runtime, the job loop and a crash between any two steps; every contract of up to two definitions over the statement shapes of the grammar; executions that trap anywhere, over one host and over one VM context |
| `evidence` | `StoreSound` (`TypeOK`, `ReadersSeeWholeBatches`, `CommitOnTrack`, `KeyedByCid`), `CommitsEnd`; `DocumentsSound` (`TrustTypeOK`, `VerifiedIsSigned`, `SurvivesTransport`), `QuorumsSound` (`AcceptedByQuorum`, `MajoritiesAgree`, `AuthorizedForGood`); `ReputationSound` (`RepTypeOK`, `ProfileMatchesLog`, `AverageWithinRange`, `HistoryAgrees`), `ChoiceSound` (`SelTypeOK`, `UsedIsRecent`, `FirstBestWins`, `MinimumExcludesUnknown`, `ManaJobsUnassigned`), `RequestEnds` | batches that interleave and are dropped; documents of every signature scheme, carried and altered; quorum proofs with repeated, foreign and bad signatures; two clients' records applied in another order than they are logged in; selection over a reputation service that keeps changing, through a cache and a network that fails |
| `pg_ledger` | `LocksHeld` (`TypeOK`, `Covered`, `NothingLeaked`), `StatsExact`, `ImplementsBook`, `CallsEnd` | transactions in opposite directions, new rows, lost answers, errors at any statement, deadlocks; every call ends, and the whole implements `LedgerBook` |
| `mesh_node` | `ImplementsLifecycle`, `WorkAccounted` (`TypeOK`, `SettledPerDelivery`), `CapPrefersCheaper`, `LoopResumes` | gossip lost, repeated and reordered, every way to select, executors that run jobs they were not given: the mesh implements `JobLifecycle`, and the loop resumes after a fetch it awaits |
| `agoranet` | `TokensSound` (`TokenTypeOK`, `RevokedStaysDead`, `FoundUnlessRepeated`, `PowerIsInherited`), `ForumSound` (`ForumTypeOK`, `CountsAreVotes`, `OutcomeFixedAtDeadline`, `StatsAgreeWithLists`), `HubSound` (`HubTypeOK`, `NoGaps`, `ReachesAncestors`); `BooksBalance` (`ApiTypeOK`, `Explained`, `FeesAccounted`), `RequestsIsolated` (`BatchesIsolated`, `AnswersMatch`), `LastEventTrue`, `PagesTile` | two requests in flight between revocations, rotations and clean-ups; votes against deadlines; a client that falls behind; single transfers and batches of two clients with permissions, membership, fees, events, and queries with every filter, offset and limit |
| `receipt_order` (violated) | `ReceiptVerifies` | a receipt with two resource types, carried unchanged, is refused by its receiver: `get_receipt_signing_payload` serialises a `HashMap` in iteration order while its comment promises a deterministic payload |
| `one_charge` (violated) | `OneChargePerExecution` | a polled job that ran once is charged twice: `process_polled_job` and `run_forever` both anchor its receipt. `full_loop_test.rs:516` expects one deduction |
| `receipt_fetched` (violated) | `ReceiptFetched` | on a network that delivers and answers everything, no announced receipt is ever fetched: the loop awaits the answer it would have to deliver. `full_job_lifecycle.rs:486, 1207` expect the settlement |
| `contract_runs` (violated) | `ContractsInstantiate` | the module of any contract is refused before its first instruction. `emit_test.rs:16` says that it must validate |
| `issued_tokens` (violated) | `IssuedTokensWork` | the token that a rotation hands out is refused, because the revocation of the old one covers the subject and issuer they share. `auth_tests.rs:559, 645` say that it works. There is a second cause: the endpoints issue under `did:icn:federation:...`, and `main.rs:165` configures `icn-agoranet` |

### What the runs say that a reader may not expect

Some properties state how the code behaves where a reader of its docs would hope
for more; the difference is in their words.

* Two `assign` requests that both read `Bidding` assign one job to two executors:
  `SoleExecutor` has the proviso `fresh`. Two calls of `record_usage` can spend
  one balance: `Accounted` has the proviso `clean`. Concurrent checks pass one
  quota: `OvershootBounded` says by how much.
* The window of a distribution tick is measured from now, so that ticks in a
  burst, and a receipt on the boundary, are paid for more than once; nothing
  records what was paid. One tick pays at most its tenth.
* `federation_stats` grows by every fee (`FeesAccounted` says by exactly that).
* `LastEventTrue` leaves out channels on which an older event overtook a newer
  one: a single transfer announces after it has unlocked, so two clients' events
  may cross, and the channel then shows an old balance until the next transfer.
* Two executions of an approved proposal may run at once; none begins after the
  mark of an earlier one is stored (`ExecutionsOverlap`). A crash may take back a
  mark that sled had not flushed. `execute_proposal` loads the module and does
  not run it.
* A repeated revocation can be forgotten early (`FoundUnlessRepeated` excludes it,
  `RevokedStaysDead` counts from the first).
* An executor that was not assigned a job, but has bid for it, is paid when it runs
  the job and announces a receipt: the originator compares neither executor nor job
  (`p2p/planetary-mesh/src/node.rs:1464-1546`). `JobLifecycle` says no more than that.
* `planetary-mesh/src/reputation_integration.rs:279` tests that a high reputation
  scores better in spite of its price, on the 0 to 100 of its README; the service's
  profiles are within 0 to 10, on which the price decides. No property is about that
  score: the selection by score panics before it is used.
* A job with a mana requirement is never assigned by a scoring selector
  (`ManaJobsUnassigned`): the service's profiles hold no mana.
* A quorum proof carries its own rule, and `Threshold` 0 is a rule. The weights
  are doubled in 16 bits: `AcceptedByQuorum` speaks of weights whose doubled sum
  fits, and beyond it a heavy quorum may be refused or a light one accepted.
  `Threshold` is a number of signers in icn-identity and a percentage in
  icn-types. A signer registered later does not make the bundle be verified again.
* Runtime receipts bind their identifiers only; two signature schemes exist for
  `ExecutionReceipt` and neither verifies the other's. `TrustBundle::verify` of
  icn-types checks no signature of a credential.
* `host_calls`, `io_bytes` and the lists of a VM go on from one execution to the
  next, since the context is shared. What a start function recorded before it
  trapped is counted with the next execution that gets past it (`MetricsAgree` has
  `early`). An execution that traps leaves its section open.
* `TrustBundle::calculate_hash` (`icn-types/src/trust_bundle.rs:76-89`) calls itself
  deterministic and serialises maps in iteration order, like the payload of
  `receipt_order`. In `Trust` a bundle's form is a member of the constant `Forms`,
  and no property depends on how it is computed.
* A cheaper admitted bid wins only under a policy that weighs the price
  (`CapPrefersCheaper` has `priceWeight > 0`): with a weight of 0 reputation alone
  decides.
* The originator empties its queue at once, so `JobLifecycle.Announce` takes a set
  of jobs.

### Bounds, and why they are enough

* Two of everything that competes (scopes, spenders, callers, handlers, workers,
  clients, tasks, executors): the hazards listed are between two actors.
  `PgLedger` has three entities so that a batch can chain payments and meet a new
  row; `Trust` three signers so that a majority is not everybody.
* `mana`: a pool of 20 so that a tenth is 2, shared by one or two receipts, three
  instants so that two windows overlap. Cap reached, cap missed, exact spend,
  failed spend, clock back and forth all occur.
* `economy`: two accepted spends and two ticks, enough for a stale write between
  two others and for a crash after a flushed and an unflushed one; three records
  of use against a quota of 3 and a rate of 2 in a second.
* `node`: one job for two handlers (jobs do not interact), `MaxRecords` bounds
  repeated reports only; one proposal for two tasks, one receipt, a job that runs and
  one that cannot, one crash, five calls; all pairs of definitions, each around one
  statement of every shape, nested ranges and conditionals among them; three
  executions of three calls over the host, two with two units of fuel over the VM,
  whose words have three bits (`SignBit` 4) and whose memory five bytes, so that
  lengths turn negative and sums of lengths pass the sign.
* `evidence`: seven operations on the store (two batches of two entries, and single
  operations between); two bundles; proofs of up to three signatures. Two clients of
  the reputation service, two records, two stamps; three jobs, one for each selector,
  the first with two bids (of one bidder too) at equal prices so that reputation
  decides; a TTL and a timeout of one unit over three instants. `MCBounded` keeps two
  things at a time in flight: two submitting clients alone, or one selection beside
  one client, or two selections by price. `RequestEnds` is thus checked on the
  behaviours that stay within it.
* `pg_ledger`: three calls, so that a row created by one is used by a second
  while a third waits.
* `mesh_node`: one originator, two executors of which one does not suit, two bids, two
  deliveries of a receipt, one execution at a time, by the winner or not; the event
  loop with each way to select, and the handlers beside it with a capped policy.
  `receipt_fetched`: one delivery is enough to show it.
* `agoranet`: two connections, four tokens (two signed outside, one of them without a
  jti), three calls of any kind, three instants, a retention of one; a channel that
  keeps one event, so that two make a client fall behind. `OneConcern` explores the
  administration of tokens, the deliberations and the channels one at a time: they
  share the clock and the tokens the instance starts with. `MCBounded` goes no further
  from the answer of a read, which changes nothing else. Three transfer requests of two
  clients, single or in batches of two and three; pages of one and two transfers.

`CHECK_DEADLOCK FALSE` is used where such a bound stops the model; elsewhere the
absence of deadlock is checked. Symmetry is used for receipts, dids, handlers,
connections and callers, in runs without liveness properties, and only where `Init` and the
constants treat the members alike.

### Fairness

* `ManaLedger`: weak fairness of `TickStep`. The regenerator is one async task;
  the runtime polls it until it returns, and each ledger call returns with a
  result or an error. No fairness is assumed of spenders, flushes or crashes.
* `PgLedger`: weak fairness of each worker's next `Statement` and of
  `DeadlockAbort`: the server runs a statement that need not wait and its
  deadlock detector ends every cycle. Nothing is assumed of errors.
* `DagStore`: weak fairness of `Committing`: once it has the lock `commit` does
  not await again. That a task gets the lock is not claimed.
* `BidSelection`: weak fairness of each request's `RequestStep`: a handler is one async
  task, and a fetch ends with an answer, an error or the client's timeout
  (`reputation_client.rs:161-163`).
* `Runtime`: none. The HTTP client of the job loop has no timeout (`lib.rs:998`), so that
  a silent peer stops `run_forever`, and nothing is claimed of its return.
* `MeshNode`: weak fairness of `FetchTimeout`, `VerifyReceipt` and
  `VerifyRecord`: tokio's timer fires and a handler that has its answer runs on.
  Nothing is assumed of gossip. `receipt_fetched` grants more, `DeliverySpec`: strong
  fairness of `HearReceipt` and `AnswerArrives`, so that its counterexample is not the
  network's fault.

The other runs check safety only and assume none.

## 4. Proofs

Each proof module shows, for every value of the constants, `Init => IInv`,
`IInv /\ [Next]_vars => IInv'` and `IInv => P`, part by part. The assumptions are
those named in the modules that declare the constants, and TLC evaluates them in
the runs:

* `AmountsAssumption`, `RatesAssumption`, `BoundsAssumption`,
  `NodeScopeAssumption`, `IntervalAssumption`, `LedgerAssumption`,
  `UseAssumption`, `PgAssumption`, `BookAssumption`: amounts, rates, limits and
  bounds are naturals, and the sets that are summed over are finite.
* `JobsAssumption`, `DagAssumption`, `RuntimeAssumption`, `TrustAssumption`,
  `AbsentAssumption`: markers for "none" are not members of the sets they are
  compared with, distinct nodes have distinct cids, a DID has one key, and weights
  fit their 16 bits.
* `TokenAssumption`: a federation is called neither like the service nor like the absence
  of an issuer, placeholders for subjects are no subjects, and a token signed outside
  that makes its holder a federation's administrator was signed with that federation's
  consent.
* `ForumAssumption`: the example proposal's votes are of distinct voters, in time.
  `HubAssumption`: with a scope all those around it are scopes, at most three deep.
* `MeshAssumption`: bids are at prices, which are naturals, as are a policy's weights and
  minimum; its cap is within the resolution of a score.
* `ApiAssumption`: entity types are the four of the enumeration, bodies are
  lists of requests, and a page has room for at least one transfer.
* `ReputationAssumption`, `SelectionAssumption`: events are those of the
  enumeration, durations, prices, resources, weights and stamps are naturals, requests
  in flight are finitely many, and a cached profile lives for some time.
* `HostAssumption`, `VmAssumption`: what a guest asks for is a natural (`u64`),
  pointers and lengths are words, and the memory is not longer than a word can
  address.

Bounds on steps are arbitrary naturals, so they restrict nothing.

| Module | Inductive invariant | Theorems |
|---|---|---|
| `InductionTheorems` | lemmas the others share: induction over a finite set or the naturals, extreme elements, sums over finite sets, how often a sequence has a value, what a recursive function on the naturals computes | - |
| `NodeProofs`: mana manager | `TypeOK` and `Books`: every pool is capped, reported to the gauge and covered by its history (`Sound`), and a scope without a pool has spent nothing. The last part is what the properties lack: it makes the endowment of a new pool cover all that the scope ever spent | `TypeCorrect`, `NeverAboveMax`, `GaugeExact`, `NothingFromNothing`, together `PoolsAreSound`; `TransferIsAtomic` |
| - distribution | that and `Kept`: what a tick has promised is in the node's pool itself, not only in what the pool would regenerate, since the clock may be set back before it is paid | `TicksAreCovered`; `FractionIsHeld` |
| - runtime | `RuntimeInv`: sled's content and what a crash would leave are each sound, a task's copy of a proposal is one the store had when it was read (`CallSound`), and receipts in the DAG, in sled and on disk are signed | `ProposalsAreSound`, `ReceiptsAreSound`; `ChargesAreDouble`: each execution of a job with a cost is charged twice, less what a crash cut off, which is by how much the claim of `one_charge` fails |
| `EconomyProofs`: ledger | `TypeOK`, `CapHeld`, `FetchedCapped` (the regenerator's copy is capped too), `Accounted`, `Reserved` (a did that the running tick has still to serve has this tick's rate in reserve), `VisitedOnce` (the did being visited is not left to visit) | `LedgerTypeCorrect`, `LedgerCapped`, `LedgerAccounted`, `RateBounded`, together `LedgerIsSound` |
| - limits | `CallsCovered`: a call that nothing has overtaken would be authorised again, also after the window of a rate limit has moved. The overshoot of those that were overtaken is a sum over callers | `LimitsAreHeld`; `TokensAreNotCreated` |
| `JobServiceProofs` | `TypeOK`, `AssignedBid`, `HolderAssigned`, `HandlerKnows` (what a handler carries across an await is still justified by the history of bids and assignments), `RecordsEarned`, `CompletedRecorded`; for the last two parts also `HandlerSaw` (the status it was let in with) and `AssignedOnce` (a fresh job not past `Bidding` has not been assigned) | `JobsTypeCorrect`, `ExecutorsAreBidders`, `RecordsAreEarned`, `CompletionIsRecorded`, `OneExecutorIfFresh`, together `JobsAreSound`; `FreshGoesForward` |
| `PgLedgerProofs` | `TypeOK`, `Covered` (past the check, the payer's row is locked by this transaction and holds enough), `Positive` (past the debit the amount is not 0); `NothingLeaked` and `StatsExact` are inductive beside these | `PgTypeCorrect`, `CheckedStaysCovered`, `EndedHoldsNothing`, together `LocksAreHeld`; `StatisticsAreExact`; `PgImplementsBook`: a commit is an `Apply` of `LedgerBook`, everything else a stutter |
| `EvidenceProofs`: store | `TypeOK`, `OneWriter` (who commits is the writer, and conversely), `ReadersSeeWholeBatches`, `CommitOnTrack` (the map with what is still staged is the version that the commit announced), `KeyedByCid` | `DagTypeCorrect`, `BatchesAreAtomic`, `CommitsStayOnTrack`, `ContentAddressed`, together `StoreIsSound` |
| - documents, quorums | `DocInv` ties the receiver's instance to the signer's and a verdict to the receiver's instance; `ValidatorInv` says that the bundle in force had its quorum. That two majorities share a member is a lemma about cardinalities | `DocumentsAreSound`, `QuorumsAreSound` |
| - reputation | `RepInv`: a request in flight has logged its record (`PendingLogged`), which is what lets its duration enter the average; beside it `ProfileMatchesLog` and `AverageWithinRange` are inductive. `HistoryAgrees` holds of every log: ranks are a permutation, so that sorting keeps the counts, and unclamped points are a sum | `ReputationAgrees` |
| - selection | `SelInv`: a cached profile was read within a timeout of its arrival (`EntryOk`, `CacheOk`), a fetch under way began within one (`FetchOk`, `AnswerOk`), the best so far is the first of the best among those scored (`SelOk`), a handler is at one of these places or holds no selection (`HandlerOk`), and whom the service knows it does not forget: that is why a bidder who passed a minimum is still known when fetched again to be scored | `ChoiceIsSound` |
| `MeshNodeProofs`: mesh | `NetJustified` (what a message says was true when it was published and stays true: a bid's price was offered, an announced receipt is of an execution), `WorkJustified` (who executes or has executed, and what was settled), `QueryJustified` and `TasksJustified` (what an awaited fetch or a spawned task carries), `LoopQuiet` (no query of the loop is answered) | `WorkAccountedAlways`, `CapPrefersCheaperAlways`; `LoopStarvesAlways`: in the event loop no fetch is ever answered, which is why `receipt_fetched` fails; `LifecycleImplemented`: every step is one of `JobLifecycle` or a stutter |
| - executions | `HostInv`: at most one section is open, and the execution that opened it has not ended one since; mana and accepted calls are complementary. `VmInv`: every call is recorded or has failed at any instant, and between executions the collected counters lag by `early`, what start functions recorded since | `ExecutionsAreSound`, of `ExecSpec` |
| `AgoranetProofs`: tokens | `StoreInv` (a jti that is no longer found has a revocation that outlived the retention; the first revocation of an entry is found through the subject's index), `RequestInv` (a request past a look-up was let past it with a token that had not been revoked by then) | `TokensAreSound` |
| - forum | `VotesInv`: counts are the votes, nobody votes twice or late; lists and statistics are sums over the same positions | `ForumIsSound` |
| - hub | `ChannelInv`: of an event announced around a scope, the copies sent on a channel and those still to send are together as many as `broadcast_event` makes; `ConnectionInv`: what a connection forwarded lies without a gap on its channel | `HubIsSound` |
| - transfers | `HandlerInv` (what a handler has in hand at each await), `SumsInv` (balances, fees and answers add up), `CallInv` (no two requests have a number in common, and what the batch at work has recorded comes last), `EventInv` (an event carries the balance after the transfers it knows of, and every transfer is shown, pending, or of the batch at work) | `BooksAreBalanced`, `RequestsAreIsolated`, `LastEventsAreTrue` |
| - queries | `StampInv`: timestamps tell apart all transfers, recorded or prepared. Then ranks are a permutation, a page is a window of the sorted answer, and windows of one size cover every position once | `PagesTileAlways` |

Induction over data is used where the library's theorems, which take a predicate
as a parameter, cannot be: `InductionTheorems` gives the predicate as a set and
draws induction from the well-foundedness of strict inclusion. A finite sum is
the cardinality of the set of its units (`SumIsUnits`), so that sums over callers,
rows, votes and fees can be reasoned about for any number of them.

What a recursive function computes is had the same way (`RecursionOnNumbers`); a
sort is had from ranks, which are injective, hence onto.

`ExecutionsAreSound` is about `ExecSpec`, the two kinds of execution side by side;
the run `node` checks the same property in `Contract`, whose `HostRuns` and `VmRuns` are
the steps of `ExecSpec`.

Proving found the following, and the models say so now:

* The guards of two `CASE`s in `HostEnvironment` overlapped, which leaves open
  which arm is taken (TLC takes the first): they are `IF`s, in the order of the
  code's checks.
* `SpendingExact` and the books of `BidSelection` need amounts, prices and weights
  to be the unsigned numbers that the code's types make them; the assumptions name
  them.
* `AverageWithinRange` is not inductive by itself: the duration in hand has to be
  one of the log's (`PendingLogged`).
* `PagesTile` rests on distinct timestamps, as section 2 says.

Only model-checked: the liveness properties (`TickEnds`, `CallsEnd`, `LoopResumes`,
`CommitsEnd`, `RequestEnds`: fairness and `ENABLED` are out of the
prover's reach), and `CompilerSound`, which is about translations that recur over
syntax trees: their operators are `RECURSIVE`, and no module that reaches one can
be reasoned about.

## 5. Not modelled

* 64-bit overflow: `Ledger` adds `u64`s without a check and the Postgres store
  casts to `i64`; amounts are naturals here. Widths are modelled where the code
  is near their end: lengths in `CoVm`, weights in `Trust`.
* Floating point: scores are integers in thousandths, prices and weights in per
  cent; the logarithm of a stake is a constant.
* The bid stream: `SqliteStore` never makes the channel it would need
  (`sqlite_store.rs:249`), so a stream ends after the bids there are. `insert_bid`
  does not store a reputation score.
* `ManaRepositoryAdapter::get_usage` answers with the balance that is left, and
  its history is empty: quotas and rate limits over mana mean nothing, and
  `ResourceUse` is about the in-memory repository.
* Limits of `ResourceLimits` other than fuel: written and never read.
* That a WebSocket connection outlives its token: it is checked at the upgrade
  only.
* `JobProcessor`, which nobody constructs, and contracts at run time, since none can be
  instantiated.
* That `run_forever` returns: its HTTP client has no timeout.
* `set_balance` and the read queries of the Postgres store; `IdentityIndex` and
  scope keys; the pest parser and the encoding of WASM; libp2p's own protocols;
  the interactive host functions and `governance_execute_wasm`, which is not
  implemented.
* Command-line tools, wallet and dashboard are input and output; metrics,
  devnet scripts and deployment files hold no logic of the system.

## 6. Plan

Every invariant and action property of the passing runs but `CompilerSound` is proved.
What would come next:

1. The compiler as recursive functions over trees of bounded depth, so that
   `WellNested` and `ArgumentsReadBack` can be proved by induction on the depth.
2. The ledgers' arithmetic at the ends of `u64` and `i64`, and a composition of
   `Runtime` with `ManaLedger` through the calls that spend mana.
