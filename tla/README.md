# A verification project for librustzcash

TLA+ specifications of the stateful core of the `librustzcash` workspace, the TLC
configurations that check them on small instances, and TLAPS proofs for every value
of the constants. The reference is the code under `src/`; `PROJECT.json` maps every
definition to the lines it stands for.

## 1. Inventory

The workspace is a set of Rust crates for building Zcash wallets. Most of it is pure
(encodings, keys, transaction construction, circuits). What keeps state and can go
wrong over time is below.

| Component | State | Operations | Interacts with | Hard behaviour | What makes it correct |
|---|---|---|---|---|---|
| Pool migration kernel (`zcash_pool_migration/src/state.rs`, `engine.rs`) | one `MigrationState`: status, and per transaction a lifecycle state, schedule, expiry, anchor boundary, unsatisfiability mark, broadcast-failure report | `mark_*`, `record_satisfiability`, `truncate_to_height`, `shift_schedule`, `apply_signature`, `next_step` | driven by `advance_migration`, persisted by a store | terminal states against reorgs; marks that only a reorg clears; a closure over dependencies | marks rest on chain state still held; nothing live is ever marked; nothing dead is ever offered |
| `advance_migration` (`satisfiability.rs`) | its call-local deferrals and dirtiness | sweep, adjudicate, plan, verify, save | asks the store two oracles, mutates the state, saves it | a loop that re-plans after its own changes; two oracles that must agree | it ends; what it records is durable before the step is surfaced; an inclusion is never missed |
| Proving, broadcasting, rebuilding (`engine.rs`, `orchard_ironwood.rs`) | the stored record, the wallet's spend records | `prove_transfer`, `prove_preparation`, `take_transaction_for_broadcast`, `rebuild_expired_transfer` | the wallet database; a node | crash between submission and its record; a rebuild racing the transaction it replaces | never two live transactions for one funding note; proofs only against trees that hold the note |
| Migration store (`zcash_client_sqlite/src/pool_migration/`) | the persisted row, with history | `replace_migration`, `truncate_to_height`, `cancel_migration`, the two oracles | the wallet's scan and its reorg handling | whole-record saves of a copy loaded earlier; snapshots that differ | wallet and migration never disagree |
| Output locking (`wallet/locking.rs`, `data_api/locking.rs`) | `lock_owner`, `lock_expiry_height` per output | `lock_outputs`, `unlock_output`, `clear_locked_outputs`, `unlock_spent_notes` | selection in `propose_transfer`; storing a transaction takes over | time of check against time of use; locks and transactions that lapse; reorgs lower the tip | no two live transactions for one note; no lock is stolen or left behind |
| Scan queue (`wallet/scanning.rs`, `data_api/scanning/`) | a table of disjoint prioritised ranges | `suggest_scan_ranges`, `replace_queue_entries`, `update_chain_tip`, `scan_complete`, truncation | the sync loop, block scanning, account birthdays | ranges merged by dominance; scans out of order; reorgs and rescans | the ranges stay a partition; nothing unscanned is forgotten |
| Block scanning (`scanning.rs`, `data_api/ll/wallet.rs`) | received notes, spends, nullifier map, tree checkpoints | `put_blocks`, `store_decrypted_tx`, `detect` | the scan queue, the tree store | out-of-order scanning; a spend seen before its note | every spend is linked, every note witnessed |
| Sync loop and batch decryptor (`sync.rs`, `sync/decryptor.rs`) | queues between worker threads | `run`, `running`, `queue_*`, `shutdown` | block source, scanning | threads and channels; rewinds in the middle of a batch | it ends; no block's result is lost |
| Tree store and rewinds (`wallet/commitment_tree.rs`, `wallet.rs`) | shards and checkpoints per pool | checkpoint, prune, `truncate_to_height`, `rewind_to_chain_state` | scanning, migration truncation | checkpoints that differ between pools | a rewind leaves tree, blocks and queue at one height, or refuses |
| Transparent gap limits (`wallet/transparent.rs`, `ephemeral.rs`) | exposed and reserved address indices | generate, reserve, observe | proposals, recovery from seed | indices reserved by transactions that never mine | no address is reused; recovery finds everything |
| PCZT roles (`pczt/src/roles/`) | a partially created transaction in several copies | construct, update, sign, combine, finalize, extract | signers on several devices | copies merged in any order | the merge is a join; what was signed cannot change |
| MMR history tree (`zcash_history`) | a mountain range of nodes | append, truncate | consensus code | truncation is the inverse of append | the root is a function of the leaves |

Stateless or out of scope: denominations and preparation planning, signing rounds, fees
and input selection, the transaction builder, keys, addresses, encodings, payment URIs,
proofs, proof of work, transport, schema migrations, wallet export. `PROJECT.json`
lists each with its reason.

The hazards (what here is hard to test, at its line) are in `PROJECT.json`; each names
the properties that would catch it.

## 2. Plan

Done, in this order:

1. `MigrationState`, `MigrationDrive`: the migration against a scanning wallet — the
   youngest and most concurrent code.
2. `OutputLocking` and its proofs.
3. `ScanRanges`, `SpanningTree`, `ScanWallet`, `ScanQueue`: the scan queue and its tree;
   `ScanPriorities`: one priority per height, which the rows refine.
4. `BatchDecryptor`: the engine, its queue and its batches; `DecryptService`: what it
   promises, which it refines.
5. `SpendTracking`: how the wallet learns of spends when blocks come in any order.
6. `GapLimits`: transparent addresses handed out by one wallet and recovered by another.
7. `NoteTrees`: checkpoints, pruning and the truncation of several pools to one height.
8. `Pczt`, `PcztRoles`: copies of a transaction that roles change and combine.
9. Proofs about `OutputLocking`, `MigrationDrive`, `BatchDecryptor` (its refinement included),
   `NoteTrees`, `PcztRoles`, `SpendTracking` and `ScanPriorities`: section 7.

Left, in this order of worth:

1. `SyncLoop`: the downloads, the ranges suggested before a rewind and the block cache,
   composing `ScanQueue` with `SpendTracking`; `NoteTrees` composed with `ScanQueue`, so that
   a refused truncation is refused there too.
2. `HistoryTree`, `SigningRounds`, `WakeupSchedule`: pure algorithms against a reference.
3. Proofs: `NothingHidden` of `GapLimits`.

The abstract specifications are `ScanPriorities` and `DecryptService`. A third worth stating is
a migration store as an atomic register per account, which the races of section 6 show the code
is not.

## 3. Modules

**`MigrationState`** — the persisted record and the pure methods on it. A migration is a
record of functions over transaction ids; each operator is a whole method with its
trailing `recompute_status`. Operators that draw at random (`ShiftSchedule`,
`DrawableBoundaries`) return the set of outcomes. Heights start at 1 so that 0 stands for
`None`. `DeadSet` is stated as a least fixpoint; the code iterates to it.

**`MigrationDrive`** — a consumer process with a program counter, the stored row
(`store`), its copy (`mem`), and the wallet's view of the chain. That view has two heights, because
blocks are scanned out of order: `scanned`, the fully scanned height, and `Tip`, where the scan queue ends,
with the blocks scanned between them in `ahead`. `check_step_satisfiability`, `mined_height` and the stamp of a
mark go by the first, the notes a prover or a rebuild selects (`NoteAvailable`) by the second. `rival` is the expiry of
an unmined transaction the wallet holds that spends the same inputs: an ordinary payment, what a rebuild
replaced, or a spend that a reorg took out of its block. `advance_migration` is
cut at its calls on the store, because that is where another thread of the wallet can
come between:

| Action | Code |
|---|---|
| `BeginAdvance` | the consumer loads the pending row and picks the dueness targets |
| `SweepMined`, `SweepOracle` | `mined_height` of everything that may be on chain, then the viability of what is still in flight |
| `ClosePass` | one pass of the durable closure in `record_satisfiability` |
| `Adjudicate` | broadcast-failure reports against the scan |
| `PlanSettle`, `PlanShift`, `PlanVerify` | the three ways one round of the planning loop ends |
| `Persist` | `replace_migration` if anything was recorded |
| `Prove`, `ProveNotYet`, `ProveInputNotAvailable` | `prove_transfer`/`prove_preparation` and `store_proved_transaction` |
| `TakeForBroadcast`, `SubmitAccepted`, `SubmitRejected` | the hand-over to a node and its recorded answer |
| `Rebuild`, `RebuildRefused`, `Supersede`, `Sign` | the other steps a consumer serves |
| `Scan` | the block above the fully scanned height, which covers the blocks scanned ahead up to the next gap |
| `ScanAhead` | a block above a gap, as `suggest_scan_ranges` has the tip scanned first |
| `Pay`, `Truncate`, `Cancel`, `Crash` | the rest of the wallet, and the consumer's death |

`ScanPoints`, `TruncatePoints` and `CancelPoints` say at which control points of the
consumer the other threads may act. The passing runs describe a wallet that serialises
its sessions (scanning between steps and while a submission is in flight). Section 6 says
what one more point, which the API and the store allow, breaks.

**`OutputLocking`** — flows that propose, lock, build and store, each operation a database
transaction as in `zcash_client_sqlite`. `Shared` says whether all calls go through one
exclusively borrowed handle (`&mut WalletDb` for the whole of `propose_transfer`) or
through several connections. `exposed`, `died` and `crashed` are history variables no
guard reads: a proposal is *exposed* once its lock lapsed or was cleared from outside.

**`ScanRanges`** — ranges, the order and the dominance of priorities, and the *edit* each
operation makes of the queue: the range it queries, the entries it inserts in order, and
whether rescans are forced. Heights are counted from Sapling activation, which is 1.

**`SpanningTree`** — `join_nonoverlapping`, `join_overlapping`, the seven orderings of two
ranges, insertion into a tree and `into_vec`, as in `spanning_tree.rs`. `SplitsWithin` is the
condition under which `from_split` does not panic.

**`ScanWallet`** — what surrounds the queue: the chain, the `blocks` table, birthdays and
subtree ends. Every operation is given as a guard, an effect on these and an edit of the
queue, written against the priorities the queue gives. `stale` marks blocks of a chain that
was reorganised away; `told` and `seen` are history (the tip the wallet was told, and the
accounts a block was last scanned for).

**`ScanQueue`** — the rows of the `scan_queue` table. `ReplaceQueueEntries` reads the rows that
overlap or touch the queried range, inserts them and the entries into a tree, and writes its
ranges back. Each action is one database transaction:

| Action | Code |
|---|---|
| `UpdateChainTip` | `update_chain_tip` with the subtree ends, the birthday and the greatest scanned block |
| `ScanBlocks` | a batch from the front of a suggested range: `scan_cached_blocks`, `put_blocks`, `scan_complete` |
| `Truncate` | `truncate_to_height`, `truncate_to_chain_state`, and the rewind of the sync loop after a continuity error |
| `RewindToChainState` | `rewind_to_chain_state`, with any set of birthdays reset |
| `AddAccount`, `LeaveAccount` | `add_account` with its rewind and its Ignored range, `delete_account` |
| `QueueRescan`, `Prune` | `queue_rescan`, `prune_scan_queue_below` |
| `Chain` | blocks mined or replaced, subtree roots stored by `put_shard_roots` |

**`ScanPriorities`** — the abstract specification: the same operations on one priority per
height, changed by dominance, gap filling and trimming alone. `ScanQueue` implements it under
the mapping `pri`, the priority the rows give. The properties of the priorities are stated here and
proved in `ScanPrioritiesProofs`; `MCScanAccounts` checks them here, where two accounts are within
reach, `MCScanReorg` that the rows implement the priorities, whoever causes the edit.

**`BatchDecryptor`** — the decryption engine. A request is a block, a transaction or a key
reload, made through a `Handle`; its `status` follows the send, the place in the queue, the task
that waits for its outputs and the answer. Time is a countdown of the idle timer.

| Action | Code |
|---|---|
| `Send`, `TrySend`, `Acquire`, `Push` | `queue_block`, `queue_tx`, `reload_keys` and their `try_` forms, through the bounded channel: a permit first, then the push |
| `Start`, `StartFails` | the first call of the reload closure in `Engine::run` |
| `ReceiveData`, `ReceiveReload`, `ReloadFails` | the branches of `select!` that take a request |
| `Tick`, `IdleFlush` | the idle-flush timer |
| `Abandoned` | `recv` returns `None`: every Handle is gone and the queue is empty |
| `Run` | `Batch::run` on the thread pool |
| `Deliver` | the task of a request, once all its outputs are answered |
| `Consume`, `DropHandle`, `ChangeAccounts` | the callers, and the wallet database |

**`DecryptService`** — the abstract specification: requests are taken in the order they were
accepted and answered with what the keys then in force decrypt; nothing is batched and nothing
runs on another thread. `Resolved` and `TakenIsAnswered` say what the refinement, a safety
statement, does not: that the answers come.

**`SpendTracking`** — the wallet's outputs and the transactions that create and spend them. A
block is known by the chain that ends in it, as by its hash. `db` holds the tables: blocks, mined
heights, received outputs, the nullifiers known, spend records, locators and the spend maps, and
the two queues of what to ask servers.

| Action | Code |
|---|---|
| `Scan` | `scan_cached_blocks` and `put_blocks` on one batch, with `spend_tracking_floor` and `prune_tracked_spends` |
| `SyncRewind`, `Truncate` | `scan_blocks` after a continuity error; `truncate_to_height` |
| `QueueRescan`, `AddAccount` | `queue_rescan`, `add_account` |
| `Enhance`, `NotRecognized`, `SeeUnmined` | `store_decrypted_tx` and `set_transaction_status` for transactions a server or the mempool answers with |
| `MineBlock`, `Reorg` | the chain |

**`GapLimits`** — the rows of `addresses`, which of them were handed out, and what is known of
payments to them, for each wallet that holds one seed.

| Action | Code |
|---|---|
| `NextAddress` | `get_next_available_address`, with the indices at which the requested unified address exists |
| `Reserve` | `reserve_next_n_addresses` for internal and ephemeral addresses |
| `Refresh` | `refresh_utxos` over a stream that may break after any output, `put_received_transparent_utxo`, `generate_transparent_gap_addresses` |
| `SeeUnmined` | `store_decrypted_tx` of an unmined payment |
| `Rewind` | `truncate_to_height` |
| `Pay`, `MineBlock`, `Spend`, `Reorg` | the network |

**`NoteTrees`** — the commitments and checkpoints of each pool's tree. The operations are
functions from a wallet to the set of wallets they may leave, empty when they refuse.

| Action | Code |
|---|---|
| `Scan` | `put_blocks` and `update_tree`, with the checkpoints every pool is given and those kept as anchors |
| `Truncate` | `truncate_to_height`: the greatest height every tree can go back to |
| `TruncateToState` | `truncate_to_chain_state`, which makes room for a checkpoint at its target |
| `Rewind` | `rewind_to_chain_state` |

**`Pczt`** — a partially created transaction, what a signature commits to, the lock time and the
Combiner's merge. **`PcztRoles`** — devices that each hold at most one copy:

| Action | Code |
|---|---|
| `Create` | `Creator::build`, or `build_from_parts` for a transaction the Builder made |
| `AddInput` … `AddAction` | the Constructor, which the crate documents and does not implement (`roles.rs`) |
| `SetAnchor` | the Updater's anchors of the bundles the transaction uses |
| `Redact` | the Redactor on all signatures, all proofs, the binding keys or the anchors |
| `FinalizeIo` | the IO Finalizer: checks the sums, closes the transaction, signs the dummies |
| `ProveSapling`, `ProveOrchard` | the Prover |
| `SignTransparent`, `SignShielded` | the Signer, and the flags a signature clears |
| `FinalizeSpends` | the Spend Finalizer |
| `Send`, `Combine` | a copy handed to another device; the Combiner on two copies, in either order |

**`MC…`** — the values of the constants, one module for each module that a run checks.

**`…Proofs`**, and **`DataInduction`**, on which they draw — section 7.

## 4. Runs

| Run | Question | Instance |
|---|---|---|
| `MCDriveSafety` | is an inclusion, a mark, a replan or a deadline mishandled when blocks come out of order, the consumer dies anywhere, or a reorg comes? is the closure of a discovery closed over dependents of dependents, until a reorg? is a transfer proved only where its note exists? | a preparation, a second one that it funds, and the transfer the second funds, signed outside or in process; another wallet of the seed may spend the input of the first, the user that of the second, until height 4; heights to 6, one block scanned ahead, the estimate one ahead, one reorg of any depth and a cancel between sessions, one crash anywhere |
| `MCDriveStale` | does a mark of the prover fall with the spend it was made for? | a preparation that another wallet of the seed may spend, and its transfer; heights to 5, one block scanned ahead, one reorg, no crash; refuted, section 6 |
| `MCDriveLive` | does every call return, is every report discharged? | a pair, scanning at every point, one reorg, a payment from the transfer's funding note that expires beyond the horizon, a transfer that expires early and is rebuilt |
| `MCLocks` | types; no double spend, no lock stolen or orphaned on one handle | two notes, two flows, two transactions, heights to 3; one flow retries after a crash, may draw on the other's locks and asks for a window of zero blocks |
| `MCScanAccounts` | is every scanned block scanned for every account? is a height left out? | one priority per height (`ScanPriorities`); two accounts, joining at any height up to the tip, one leaving; one rewind, truncation or rescan; one pool with a subtree that ends at block 2; four blocks, pruning depth 3, verify lookahead 1 |
| `MCScanReorg` | can a synced wallet hold blocks of two chains? is a run of scanned blocks one row? do rows and tree give the priorities the rules give? is what a truncation or a rewind drops queued again? | the rows (`ScanQueue`); one account that joins and may leave, one reorg of any depth, one rewind, truncation or rescan (of block 2, or from it on), and the rewinds of the sync loop; any blocks may lack a checkpoint; pruning depth 3 and a subtree that ends at block 4, so that tip updates leave gaps to fill |
| `MCDecrypt` | does the engine answer as if it decrypted in order and at once? is everything accepted resolved? | two Handles; a block with an output in each of two pools, a transaction that fills a batch, a reload; a queue of two, a threshold of two, an idle delay of one; one account and a second that comes and goes; every request made again and again |
| `MCSpends` | is a spend missed, or a transaction believed mined that is not? are blocks ever refused? | a payment with a note, a note of a later account and a transparent output; a sweep and a rival for the note, a spend of the transparent output in the block of its receipt; four blocks, one empty, one reorg of up to two blocks or one request; retention 1, rewinds of 3 |
| `MCGapRestore` | can an unspent output stay hidden from a wallet that asked for everything? | the wallet that hands out addresses and one restored from its seed; an external scope with limit 2 and 4 indices (unified addresses at two of them), an internal scope with limit 1 and 2; three payments, four heights, one event |
| `MCTrees` | is a witness lost, a removed block's commitment kept, a shared checkpoint missing? | a pool with commitments in every block but an anchor boundary and one empty block, and a pool with them in one block at most; five blocks, batches of up to three, pruning depth 2, the anchor at 2; the wallet's notes in any one block of each |
| `MCPczt` | does a signature outlive what it signed? do proofs and sums fit their bundle? does the order of combining matter? | ten transactions, by two devices or three: every sighash kind, a 2-of-2 script, inputs alone, Sapling, Orchard, dummies, mixed; two anchors, two draws of randomness, anchors set late |
| `MCPcztLockTime` | is a required lock time that was signed still there when the transaction is extracted? | one input that requires a height, one that does not; refuted, section 6 |

The bounds are small because the hazards are: two transactions are enough for a producer
and a dependent, three in a row for a closure that has to go on to the dependents of dependents; one block above a gap
is enough to tell the two heights apart; the heights of an instance leave a
transaction room to be scheduled, proved, expire, be rebuilt and mine or expire again;
one reorg of any depth and one crash at any point already reach every control point, and
the second one repeats the first from a state the first already reaches. In the locking
run two flows are enough to conflict; the theorems remove the bounds. In the scan
runs four blocks with a pruning depth of 3 have a stable and an unstable region, a complete and
an incomplete subtree and room for three ranges beside each other; a rewind meets every order
of scans, tip updates and accounts before it, and every continuation after it. `Bounds` limits
reorgs, accounts joining and leaving, and what the user requests (rewinds, truncations, rescans);
scans, tip updates, prunes and the rewinds of the sync loop are not limited.

In the decryptor nothing but the queue is bounded: requests are made for ever. Two pools show that
one pool's full batch leaves the other's output waiting, and a queue of two with three requests
that a sender waits for a permit. In `MCSpends` a batch has up to four blocks and the retention is
one, so spends are remembered, pruned, and not remembered below the floor of a batch; the reorg
comes before or after every scan. In `MCGapRestore` three payments are what it takes to use an address
at the edge of the window, one beyond the first window, and one that the stream's end cuts off; four
heights let a payment be mined before or after each. In `MCTrees` a chain of five blocks outgrows a
pruning depth of two by batches in either order, and a pool with one commitment is one that a
truncation finds with checkpoints and without. In `MCPczt` each transaction joins a few hazards
(another signer, another item, another copy); all of them at once would only multiply the states.

Deadlock is checked in `MCLocks` and `MCTrees`. It is not in the migration runs: a finished
migration at the last height has no next step; nor in the scan runs: a synced wallet without
accounts at the last height has none either; nor in the decryptor, where all callers may leave;
nor in `MCSpends` and `MCGapRestore`, which end when everything is known at the last height; nor
for the PCZT, which is at some point complete.

## 5. Fairness

`LiveSpec` assumes weak fairness of the consumer's own code (`BeginAdvance`, `Advance`,
`Serve`) and of `Scan`: a wallet application keeps calling `advance_migration` and keeps
scanning until the height bound. The liveness run lets scanning happen at every control point, so that
weak fairness of `Scan` is the statement that the wallet keeps up with the chain and not
an assumption on when the consumer lets it. Nothing is assumed of miners, nodes, users,
reorgs or crashes.

In `BatchDecryptor` weak fairness stands for the executor and the clock: the engine's task, the
push of a permitted send, every batch on the thread pool and every answering task are scheduled,
and time passes. `EngineStep` and `IdleFlush` are fair each, because `select!` polls its branches
in a random order and neither starves the other. The permits of the channel are granted in the
order they were asked for. Callers promise nothing: they may stop asking, drop their Handle, or
keep the engine busy for ever.

## 6. Findings

`MCPcztLockTime` refutes `LockTimeHonoured`. `finalize_spends` clears the required lock times of
every input (`zcash_transparent/src/pczt/spend_finalizer.rs:155`), and whatever computes the lock
time afterwards, the Transaction Extractor included, takes the fallback. The signatures were made
over the required one. `transparent.rs:60` says the input *requires* it, and `common.rs:128` that the
lock time of the transaction takes the inputs' required ones into account.

`MCDriveStale` refutes `MarkFallsWithEvidence`. A prover that does not find an input is answered from the notes
selected at the known tip (`zcash_pool_migration/src/wallet.rs:730`), and its refusal is stamped with the fully scanned
height (`wallet.rs:890`). The documentation there (`wallet.rs:876`) weighs that "an understated stamp clears LESS
readily, retaining a mark whose evidence was rolled back", and says that "reaching that case needs the wallet to scan new
blocks between two adjacent queries of one prove call". It does not: the wallet scans a block above a gap that
spends an input, a session fails to prove and stamps the mark below the gap, and a truncation down to that stamp takes the
spend back and leaves the mark, with no block scanned while the session runs. `MarkEvidence` says what such a mark
does rest on: at the stamp every producer was mined, so the input had come to exist, and no artifact had been handed
out that the mark could strand.

The rest are disagreements between the code and its comments that need another instance of a module
or a statement that no run checks. Each is reproduced by changing the constants named.

Migration:

- The absence that a prover reports need not be a spend on the chain at all: `interpret_input_not_available`
  (`engine.rs:3057`) reads it as a mined one, but `select_unspent_notes` also
  drops notes with an unmined, unexpired spender (`common.rs:135`), and so an ordinary payment, an artifact that a
  rebuild replaced or a spend that a reorg un-mined marks a transaction for good. `state.rs:934` has every mark rest
  on chain state that was scanned, and `store.rs:1560` has unmined spends not obstruct. `AbsenceIsSpend` as an invariant of
  `MCDriveSafety` is refuted.
- The mined sweep and the viability query are two database transactions (`store.rs:1508`), though the
  trait asks for answers from one view (`engine.rs:209`); a scan between them makes a transaction look
  spent by itself. `"swept"` in `ScanPoints` of `MCDriveSafety` refutes `InheritedJustified`. So does `"serve"`, by the
  closure that a failed proof runs at a newer height than the sweep, where a third transfer is funded by no
  preparation and contested (`Preparations = {1}`, `Transfers = {2, 3}`, no dependency of 3, schedules 2, 4, 4,
  expiries 4, 6, 5, boundaries 0, 2, 2, `AnchorInterval = 2`, `InitStates = {"Signed"}`, `Contested = {3}`, `Payable = {}`, `MaxReorgs = 0`);
  and `HandedOutLive`, since a spend may be scanned between the plan and the hand-over.
- `replace_migration` overwrites the row whatever happened to it since the copy was read
  (`store.rs:1785`), a reorg's truncation included: `"serve"` or `"persist"` in `TruncatePoints` of
  `MCDriveSafety` refutes `MinedTruth`. `"serve"` in `CancelPoints` is the same for a cancel: the save stores a pending
  migration again, and `PolicyFinal` is refuted.
- `record_satisfiability` closes a discovery pass by pass, and a transaction keeps the stamp of the
  pass that first finds a dead direct dependency (`state.rs:1061`). Behind two expired producers it takes
  the expiry of the nearer one, which in that same pass inherits an earlier stamp from the further one. Its
  documentation has an inherited stamp be "the earliest height whose rollback would revive the
  dependent", where "the inherited mark clears exactly then" (`state.rs:1018`); a truncation between the
  two stamps clears it earlier, and leaves the producer marked and the first one expired.
  `ClosureSurvivesReorg` as an invariant of `MCDriveSafety` is refuted. Planning derives the death again from the dependency, so no step goes wrong; the stored
  mark, and the marked value that `replan_required` adds up, do. `MarksClosed` holds until the
  first reorg.
- The store's truncation skips policy-terminal migrations, while a comment of the state
  (`state.rs:1137`) says that their transactions still demote; `MinedTruth` therefore speaks of
  revisable migrations only.
- `NotYetProvable` is documented as leaving the state alone, yet a redrawn boundary has
  already been written by then.

Locks:

- `lock_outputs` does not look at spends (`locking.rs:257`), so a selection that is older
  than another flow's stored transaction can still be locked: `Shared = FALSE` in `MCLocks` refutes
  `NoDoubleSpend`. A comment in `store_transaction_to_be_sent` does assume that sends never run in
  parallel; the lock documentation claims the storage layer resolves exactly this race.
- `unlock_spent_notes` clears locks of other owners, while `data_api/locking.rs:238` says only
  an owner or `clear_locked_outputs` releases one; `LockHeld` excepts notes spent by a
  transaction stored after its own lock lapsed (`Disciplined`).

Scan queue:

- `add_account` marks everything below the birthday Ignored (`wallet.rs:645`). If the birthday is
  above the tip the wallet knows, that includes blocks no row covered yet, and an older account
  never has them scanned: `update_chain_tip` counts on gaps becoming Historic (`scanning.rs:747`), but
  an Ignored row is no gap. `AheadAllowed` is FALSE in the passing runs: callers update the tip before
  they add an account; TRUE refutes `NoGapForgotten`. `told` counts only what no truncation has taken
  back. The other way to reach it is an account that is the first to join a wallet that has scanned
  blocks of a deleted one.
- With the birthday at the new tip + 1 and queued rows below (an older account was deleted), the
  ChainTip entry of `update_chain_tip` is empty, becomes a leaf of the tree, and the next
  insertion splits at its own end: `expect("Split point is within the range of to_insert")`
  (`spanning_tree.rs:285`) panics. `UpdateChainTip` is guarded by `Returns`, because a panic rolls
  the transaction back; that every update returns is refuted when `MCScanReorg` has two accounts. A birthday
  above the new tip + 1 fails already in `ScanRange::from_parts` (`WellFormed`).
- Where no block from the target up has a checkpoint, `rewind_to_chain_state` truncates to the
  pruning floor below its target and queues only what is above the target, while its comment
  (`wallet.rs:4978`) has the queued range cover what the truncation dropped: the blocks between the floor
  and the target are then neither stored nor queued. The same happens when an account joins. `DroppedIsRequeued` therefore says
  of a rewind what it does promise, the blocks above its target, and of every other truncation all it drops;
  without that exception `MCScanReorg`, where `Checkpointed = FALSE`, refutes it. A height
  so lost is not found again: `MCScanAccounts` takes every block to have a shielded output and so a checkpoint;
  `Checkpointed = FALSE` there refutes `NoGapForgotten`.
- `prune_scan_queue_below` without a priority to retain, or at a height above the known tip, may
  empty the queue. The wallet then knows no tip, an account that joins below what was scanned
  queues no rescan, and `update_chain_tip` starts above the greatest scanned block. In the runs
  prunes stay below the birthday and retain what is `OpenAdjacent` or higher (`Retains`). Even such a
  prune drops Historic rows of stored blocks: with two requests in `MCScanAccounts`, an account leaves, the
  queue is pruned up to the birthday of the other, a truncation below that leaves nothing queued, a
  rewind then lowers the birthday with no tip to queue up to, and `NoGapForgotten` is refuted.
- Scanning before the tip was ever updated leaves blocks below it Ignored or unqueued;
  `StoreBlocks` requires a tip update first, as the sync loop does.
- The documentation of `rewind_to_chain_state` takes the pruning floor from the wallet's view of
  the chain tip "rather than from `MAX(blocks.height)`" (`wallet.rs:4829`); the code takes the
  greatest scanned block (`wallet.rs:4928`).
- A reorg that leaves the tip at the same height is noticed only when the next block does not
  connect; `SyncedToOneChain` speaks of wallets whose tip block is of the best chain.
- `fully_scanned_height` reads the first scanned row only. A scanned run that lies wholly below
  the birthday hides the run at the birthday until the gap is scanned; the code accepts a height
  that is too low.

Decryptor:

- Once every Handle is dropped, `run` returns without a flush (`decryptor.rs:463`) and the outputs it
  had accumulated count as not decrypted, while `scan.rs:155` has the completion of a receiver
  "correspond to complete knowledge". `CompleteKnowledge` is refuted in `MCDecrypt`; no caller of the
  repository reads an answer after it dropped its last Handle.
- Between a permit and its push the engine may close its queue; the receiver of that request resolves
  only when the last Handle goes. `Resolved` therefore counts a closed engine, which `Handle::closed`
  reports.

Spends:

- The sync loop rewinds by ten blocks where blocks do not connect (`sync.rs:429`, `RewindDepth`). A reorg
  that is deeper leaves a spend of the lost branch recorded while its rival is scanned:
  `RewindDepth = 1` refutes `NoMissedSpend`. In the run the rewind exceeds the reorg.
- Nor does it help to rewind deep enough for each reorg if a second one, or a requested truncation, comes
  before the first is rewound: a block of a lost branch then still has a spend of a note, the rival of that
  spend is scanned lower and only its locator is kept, or takes the row of the one before, and a rewind
  to between the two takes away the first and the row, and scans nothing again below. With
  `MaxEvents = 2` `NoMissedSpend` is refuted either way (two reorgs: `MaxHeight = 5`).
- `put_transparent_output` asks the stored spends (`transparent_spend_map`) before the locators of the
  scanned blocks. An unmined spend that is stored hides a mined rival of it: in `MCSpends` with `rival`
  spending `p` and `sweep` (in `Unconfirmed`) too, `NoMissedSpend` is refuted.
- `AheadOfScan = TRUE` lets servers report a transaction as mined in a block that was not scanned; the
  note in `put_block` (`wallet.rs:5165`) warns that a rollback then has to clear a height no block is
  stored for, and `MinedIsStored` is refuted. With `sweep` spending `p` too and `MaxEvents = 2`, so is
  `NeverRefused`: after a requested truncation a server reports the sweep above the scan, a reorg puts
  its rival there, and the rescan meets a mined spend that no longer exists.
- A spend without an expiry height keeps its note out of `Nullifiers::unspent` even while it is not
  mined. After a truncation its block is scanned again, the spend is remembered as one of an unknown
  note, and its transaction stays unmined: `NonExpiring = {sweep}` refutes `NoMissedSpend`.
- A transparent output received and spent in one block is linked by the queue of searches alone, and a
  transaction of the wallet that is seen unmined deletes that search (`transparent.rs:2047`).
  `NoMissedSpend` asks no more than the queued search in that case.

Gap limits:

- `SpentUnseen = TRUE`: an output spent before the restored wallet saw it moves no gap, because a
  server only reports unspent outputs; addresses beyond it stay unknown, and `NothingHidden` is refuted.
- `Scattered = TRUE`: the issuing wallet hands out addresses after a use that a reorg took back; one
  of them is paid and mined before the first use is again, and until then a restored wallet does not
  look that far. Refuted likewise.
- `find_gap_start` sees no gap before the first used index: a first use beyond the limit, which a wallet
  with a greater limit may make, moves the window past it, as if everything below were used.
- A rewind by another connection in the middle of a stream is outside the model.

Note commitment trees:

- `truncate_to_chain_state` "enables precise truncation even when the target height's checkpoint has
  been pruned" (`wallet.rs:4662`, `4677`), but where some height below the target qualifies
  no room is made ("but that's fine", `wallet.rs:4717`), the checkpoint inserted at the target is pruned at
  once, and the truncation is refused: `MCTrees` with `MaxHeight = 4` and `Anchors = {}` refutes
  `ChainStateReached`. The test in `pool.rs:5109` has its note in the first block
  only. With a retained anchor below, the same path ends in `DivergedCheckpoints`.
- `NeverDiverged` and `SafeHeightQualifies` state two more comments, that diverged checkpoints mean
  corrupt data and that the height an error suggests qualifies. Neither holds in `MCTrees`.
- "In a fully-scanned wallet every pool retains the same checkpoint heights" (`wallet.rs:4935`), and after
  a batch "all three trees end up checkpointed at the same set of heights" (`ll/wallet.rs:1738`): both hold
  within the pruning depth of the end only, which is what `PoolsAligned` says. Counted in heights that
  want a checkpoint it is not so: the checkpoint an earlier scan left at its end, where no pool
  has commitments, counts against the limit of a tree that adds its own commitments and is gone from one
  that ensures theirs. `MCTrees` refutes `NewestAligned`.

PCZT:

- An input added with a required lock height changes the lock time that an ANYONECANPAY signature on another
  input commits to, with the inputs flag still set: `HeightLock <- Locks` and `Offers <- LockedCoin` in
  `MCPczt` refute `SignaturesValid`; the passing run has no lock times. The comment on
  `determine_lock_time` has a rule for inputs that require both kinds, which is unreachable: with both
  kinds present it returns `None`.
- The Redactor may clear an anchor under a proof (`RedactProven`), and the Prover may prove Orchard
  actions before the bundle is closed (`ProveEarly`); a new anchor or a longer bundle then stands beside
  the old proof. Either TRUE refutes `BundlesFit`. No comment forbids it; extraction fails.
- A merge drops the right copy's binding key where the left has none (`sapling.rs:298`,
  `orchard.rs:1799`), under "Destructure `other` to ensure we handle everything." (`sapling.rs:286`). Such copies
  exist once `clear_bsk` was used, and the order of the copies decides whether the key survives;
  `CombineOrder` compares without the keys.
- Where one copy has more outputs of a bundle and the other more spends, the merge fails; `[A, B, C]` may
  fail where `[A, C, B]` succeeds. `CombineOrder` compares what succeeds.
- The IO Finalizer on a transparent transaction sets the Sapling binding key and leaves the shielded flag
  set; a spend added afterwards makes the key stale.
- "Signers MUST reject PCZTs that contain `dummy_ask`" (`sapling.rs:168`, `orchard.rs:618`): nothing
  under `src/pczt` checks it.

## 7. Proofs

The theorems hold for every value of the constants that the `ASSUME` of the module allows: any
number of transactions, notes, accounts, Handles, devices, pools, blocks, crashes and reorgs. Where
a theorem has a further hypothesis it is named below, with the counterexample that shows it is needed
where there is one.
Every strengthening was first checked by TLC as an invariant of a run, and each step lemma has one
case per action.

**`DataInduction`** has the induction that the others need. The library's induction theorems take an
operator as a parameter, which the provers cannot instantiate; here they are stated about sets
(`NumberInduction`, `FiniteInduction` and `SubsetInduction`, after `LeastNumber` from the well-founded order of
finite sets), and `RecursionExists` says that a function defined step by step along `0..n` exists.

**`OutputLockingProofs`**

- `TypeCorrect`: `Spec => []TypeOK`.
- `LocksHeld`: `Spec => []LockHeld`. `LockHeld` alone is not inductive: a lock could be
  taken over if its expiry lay at or below the tip while its flow is not exposed. `HeldInv`
  adds `InWindow`: an unexposed proposal's expiry is above the tip.
- `LocksAccounted`: `Spec => []NoOrphanLock`, with the phases in which a flow owns nothing.
- `NoDoubleSpending`: `ASSUME Shared PROVE Spec => []NoDoubleSpend`. The induction needs to know
  what a fresh selection implies until it is stored (`FreshSelection`: nothing live spends a
  selected note), that a transaction not seen dead is still unexpired (`ExpiredDied`), that mined
  heights are at most the tip (`MinedBelow`), and who may follow whom on a note (`Succession`).
  TLC's counterexample with `Shared = FALSE` is in section 6; the other theorems cover one handle and
  several.

**`MigrationDriveProofs`**. `TypeCorrect` holds of every composition. The rest assumes `Serial`, a wallet
that scans only between sessions and while a node is asked, and truncates and cancels only
between sessions: what the passing safety runs describe. Section 6 says which property each
further point breaks.

- The invariant `IInv` relates the two copies of the migration at every control point (`Control`: they
  are equal unless something is to be persisted, and the states of their transactions differ by promotions
  only), says what the
  sweep has established (`Swept`: nothing recorded as under way is on the scanned chain), what a
  planned step still promises while it is persisted and served (`Surfaced`), and that either copy's inclusions,
  hand-outs and status are the chain's (`Told`). None of these is inductive without the others: that
  `Persist` stores a true record needs that no reorg came since the copy was read, which is `Control`.
  From it follow `SurfacedInFullKnowledge` (`InclusionKnown`), `BroadcastsKeepTheSchedule` (`NotServedLate`),
  `InclusionsAreTrue` (`MinedTruth`, for a migration with a transaction: an empty one is
  never `Complete`), and the action properties `HandOutsAreLive` (`HandedOutLive`),
  `RebuildsReplaceTheDead` (`RebuildReplacesDead`), `PolicyIsFinal` (`PolicyFinal`) and `ProofsAreAnchored`
  (`ProvedAnchored`).
- `DurableClosureIsClosed` (`MarksClosed`): `ClosedSoFar` says that until the first reorg the row is closed, and
  the copy but while the loop of `record_satisfiability` runs on it. A promotion keeps it,
  because it takes only the marks of what is mined; a rebuild, because what it replaces is unmarked; the loop
  itself, because it ends at a fixpoint. `QuietOrNot` shows that every other step changes no mark.
- `MarksHaveEvidence` (`MarkEvidence`) and `InheritedDeathIsReal` (`InheritedJustified`), over any reorgs, payments and
  blocks scanned ahead. `AllBacked` says of either copy what a mark rests on, according to its kind (`Backed`): of the
  oracle's, that the spend or the boundary of the lost anchor lies at or below the stamp; of the prover's, whose evidence may lie
  above it or be no spend at all, that every producer is mined at or below the stamp and the transaction was never handed
  out; and of an inherited one, that it has an unmined producer that is expired, spent, refused by a prover or itself
  inheriting, at or below its stamp (`Inherits`). The stamps are what
  makes a truncation take the mark with its evidence; without them the invariant is not preserved by
  `Truncate`. Where a mark of the prover outlives its spend (`MCDriveStale`), what is proved of it stands: producers mined
  at or below its stamp are kept by any truncation that keeps the mark.
- `ReplansAreHonest` (`ReplanHonest`) assumes besides `Serial` that transactions are `Layered`, which is how preparations are planned
  (`preparation.rs:187`): a transaction spends outputs of earlier layers only. Then a chain of inherited marks ends
  in a producer that is dead of itself (`MarkedIsHeld`), and what the kernel counts as dead cannot mine on the scanned chain
  (`DeadSetIsDead`). `Replanning` says that a Replan is served on the very copy it was planned for. That more marked
  transfers weigh no less is `TotalGrows`: `Total` folds a set in an order that `CHOOSE` makes, so the
  function it recurs by is first shown to exist (`SumsExist`) and its value not to depend on the order (`TotalOfAny`).
  No counterexample without `Layered` is known.

**`BatchDecryptorProofs`**

- `TypeCorrect`: with the lines of senders and requests (no request twice, `Lines`), the queue and the permits
  handed out stay within the capacity.
- `Refinement`: `Spec => ImplementsService`, the step simulation behind `DecryptService`. `TakenRight` says where
  the outputs of a request that was taken may be (an accumulator under the keys then in force, a batch that
  carries them, or found), `NoTrace` that a request not taken has none anywhere. `Grows` summarises what adding
  transactions and flushing do to the runners, so that a reload's flush, a full batch, the idle timer and the abandoned
  engine are one lemma each.

**`NoteTreesProofs`**

- `WitnessesAreKept`, `LeavesAreCheckpointed` (`LeavesCheckpointed`) and `PoolsAreAligned` (`PoolsAligned`), all from
  `Sound`: every pool's leaves are covered by a checkpoint at or above them, and its notes are among its leaves or
  in a block to be scanned again. A truncation that leaves a tree without a checkpoint untouched is right because of
  the first. `UpdateAligns` counts the checkpoints above a height against the pruning depth.

**`PcztProofs`**, for both formats (`Deferred` or not; before version 6 the anchors of a bundle without spends are
not signed, `SignedAnchors`):

- `BundlesStayFit` (`BundlesFit`) assumes `Honest` (`~ProveEarly /\ ~RedactProven`) and `SignaturesStayValid`
  (`SignaturesValid`) assumes `Unlocked`, no input with a required lock time. Section 6 refutes both without.
  A copy is `Good` if its lists have their shape, its sums are those of its items, its proofs are of its anchors and
  every signature is over what the copy would become; the flags say what may still be added
  (`Carries`). A merge needs all of it at once.
- `OrderOfCombining` (`CombineOrder`): `Joined` describes a merge of two or three copies as what any of them has, item by
  item, without mentioning an order, and determines the result up to the binding keys.

**`SpendTrackingProofs`**

- `TypeCorrect`: `Spec => []TypeOK`, the foreign keys included. `Keys` adds that a spend record, a remembered row and
  a stored spend are of a transaction that spends the output; `ChainOK`, that the chain has no transaction and no spend
  twice. `Batch` is a recursive function whose depth depends on the batch: `BatchInduction` shows
  that it is well defined and that a family of sets of states, one for each height, which every block leads along holds of
  the result. Each theorem instantiates it with its own family.
- `SpendsRecorded` (`NoMissedSpend`) and, with less to assume of the transactions, `NoteSpendsRecorded`
  (`NoMissedNote`, its first conjunct). Both assume `~AheadOfScan`, that every transaction expires, that a rewind of
  the sync loop is deeper than a reorg, and `ReorgsApart`: a reorg or a requested truncation comes when the stored blocks
  are of the best chain. The first also assumes `Traceable(Notes)`: a transparent output has one possible spender,
  which pays the wallet, or spends nothing else of it and is not seen unmined. Section 6 has the counterexamples
  without expiry, with a shallow rewind, without `ReorgsApart`, and with a mined rival of a stored spend; `~AheadOfScan`
  is what `MinedIsStored` needs, on which the induction rests. `MCSpends`, where one reorg or truncation may
  happen, meets them all.

  The property speaks of a wallet whose blocks are of one chain, and is not inductive: what is scanned while blocks of two
  branches are stored must be right once one of them is gone. `Followed` therefore speaks of each scanned block
  that is in line (`InLine`) with all that is stored. What such a block pays is received (`Received`), and each
  spend in it is `Caught`: linked and mined there, or remembered by its locator while the wallet does not have the
  output, or searched for. That a remembered row is neither pruned nor missing because of the floor below which spends are
  not tracked follows from the blocks below being scanned: the output would have been received
  (`PruneFollowed`, `FloorTracks`). `PutBlock` is followed in four lemmas: the spends of the new block (`PutNew`), those of
  blocks scanned before (`PutOld`), what it receives, and what the batch knows as unspent after it (`Aware`).
  `Settled` is what `ReorgsApart` and the depth of the rewind buy: up to some height the stored blocks agree
  with the best chain, and what left it lies within the rewind's reach above, so that what a rewind leaves is in line
  (`RewindInLine`), and `TruncateFollowed` applies.
- `MinedAreStored` (`MinedIsStored`) and `BestChainAccepted` (`NeverRefused`) assume `~AheadOfScan`; section 6 refutes
  both without. `AllStored` adds the locators to `MinedIsStored`, since heights are copied from them
  (`LocatedAt`). That nothing of the best chain is refused follows block by block: what is recorded as mined, or located,
  is on the chain with the block (`OnBest`), where no transaction and no spend occurs twice.

**`ScanPrioritiesProofs`**, about one priority per height; that the rows of `ScanQueue` give such priorities is what
TLC checks (`Refinement`), and carries the theorems over.

- `MergedKeeps` says what merging any edit leaves: nothing queued becomes unqueued, nothing scanned or to be scanned
  becomes less, and only a height in an entry that says so becomes scanned. `SpanQueues` and `MergedBelow` say how
  far gap filling reaches: everything between the start of one entry and the end of another is queued, nothing
  above the entries and the old tip is. Each edit of the code is shown to be such an edit (`TipEditIs`, `ScanEditIs`,
  `RescanIs`, `IgnoreIs`), with all subtree ends, birthdays and boundaries.
- `TypeCorrect`; `ScannedMeansSeen` (`AllAccountsScanned`), which is inductive: an account that joins, or a birthday that is
  lowered, below what was scanned has everything from there to the tip queued again (`RewoundIs`), and what a
  truncation spares is below the target.
- `SyncedIsOneChain` (`SyncedToOneChain`): `LostUpward` says that the stored block above a block of a lost chain is of it
  too. It holds though ranges are scanned in any order, because a batch must connect to the block below it and
  may not overwrite one of another hash.
- `DroppedQueuedAgain` (`DroppedIsRequeued`), whichever blocks have a checkpoint: what a truncation drops
  lies above the tip that the queue then shows, and a rewind queues from its target to the tip it was told, whatever height it
  truncated to.
- `NothingIsForgotten` (`NoGapForgotten`) assumes `Checkpointed`, so that the truncation of a rewind is at or above its
  target (`TargetsAre`), `~AheadAllowed`, and `RetainsToScan`, that pruning retains
  what is Historic. Any one of them dropped, TLC finds a height that is forgotten (with two requests at most); section 6
  describes each. `Full` adds that a stored block is queued, so that `update_chain_tip`, which starts after the
  greatest stored block, starts at or below the end of the queue, and that nothing from a birthday to the end of
  the queue is left out, told or not. The four operations that may move the end are one lemma each.

Only model-checked:

- Liveness (`AdvanceTerminates`, `ReportDischarged`, `Resolved`, `TakenIsAnswered`): fairness and
  `ENABLED` are outside the prover's reach.
- The rows of `ScanQueue`, `TypeOK`, `ScannedRowsMaximal` and the refinement of `ScanPriorities`: its tree is a
  recursive datatype with recursive operators.
- `GapLimits`: next in section 2.

## 8. What the models leave out

Transaction contents, proofs, witnesses, values other than crossing values, and wording.
Errors of the database other than a crash. Several accounts, where they share no state. An
exclusively borrowed handle is assumed wherever the code takes `&mut WalletDb`; two connections to one
database are considered in `OutputLocking` and `MigrationDrive` only.

- `MigrationDrive`: at most `MaxAhead` blocks are scanned above the fully scanned height. Which of the migration's own
  transactions they include is chosen when `Scan` covers them, since nothing before reads it: `mined_height` and the
  oracle answer up to the fully scanned height. The scan queue ends with the last block scanned, and the estimate of
  the chain may run ahead by `MaxLead`. A demotion of a `Complete` migration whose account has a newer
  pending one fails the whole truncation by design (`store.rs`, "Known sharp edge"); only one migration
  is modelled.
- `OutputLocking`: the target height is read with the selection, in the same call but an earlier
  query than the notes.
- The scan modules: scanning takes the accounts' keys and stores its result in one step. A rewind
  refused because of the note commitment trees is in `NoteTrees`, which is not composed with
  `ScanQueue`; `TruncateWallet` allows every number of surviving subtree ends that this could leave.
- `BatchDecryptor`: the payloads of blocks and answers, and which thread runs a batch.
- `SpendTracking`: the order of transactions in a block, the queue of status requests, the
  `max_observed_unspent` height of an output, memos and fees. One account joins later; deletions are in
  `ScanQueue`.
- `GapLimits`: shielded receipts, imported keys, `get_address_for_index`, checks of ephemeral
  addresses on a schedule, coinbase maturity; one account.
- `NoteTrees`: reorgs, subtree roots received from a server, marks that were removed, the
  computation of witnesses, the release of retained anchors.
- `PcztRoles`: witnesses and metadata, the low-level and the batch signer, compaction of fields,
  encodings, sequence numbers, whether a redeem script is there, the Verifier and the Transaction
  Extractor, which change no copy. Version 5 transactions fix their anchors at creation
  (`Deferred = FALSE`); no run has that. Ironwood bundles go through the Orchard code.

Not modelled at all, with the reasons in `PROJECT.json`: planning and denominations, the
MMR history tree, the transaction builder, keys and encodings, transport, schema migrations, export.
