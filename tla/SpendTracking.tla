--------------------------- MODULE SpendTracking ---------------------------
(***************************************************************************)
(* How the wallet learns which of its outputs are spent.  Blocks are       *)
(* scanned in any order, so a spend may be seen before the output it       *)
(* spends: scan_cached_blocks matches the inputs of a block against the    *)
(* outputs the wallet held when the batch began, put_blocks_rows remembers *)
(* the inputs that matched nothing by the locator (height and index) of    *)
(* their transaction, and looks received outputs up there.  Transactions   *)
(* also arrive complete, from a server or the mempool                      *)
(* (store_decrypted_tx).  Truncation, account creation, the floor below    *)
(* which spends are not remembered and the pruning of what was remembered  *)
(* all happen in between.                                                  *)
(*                                                                         *)
(* A block is identified with the chain that ends in it, as by its hash: a *)
(* sequence of sets of transactions.  The scan queue is the set of heights *)
(* scanned; ScanQueue has its detail.  The order of transactions within a  *)
(* block is not modelled, nor are the outputs of other wallets.            *)
(***************************************************************************)
EXTENDS Integers, FiniteSets, Sequences

CONSTANTS
  Txs,            \* the transactions that may be mined
  Notes,          \* the outputs that belong to the wallet's keys
  Transparent,    \* those of them that are transparent
  Late,           \* those of an account that joins later
  Outputs,        \* the wallet's outputs that a transaction creates,
  Inputs,         \* and those that it spends
  NonExpiring,    \* the transactions with expiry height zero
  Unconfirmed,    \* the transactions the wallet may see before they are mined
  AheadOfScan,    \* whether servers report transactions above what was scanned
  Retention,      \* SPEND_MAP_RETENTION_BLOCKS, which equals PRUNING_DEPTH
  RewindDepth,    \* by how much the sync loop rewinds when blocks do not connect
  MaxReorgDepth, MaxHeight, MaxEmpty, MaxEvents

ASSUME Bounds ==
  /\ Transparent \subseteq Notes /\ Late \subseteq Notes
  /\ Outputs \in [Txs -> SUBSET Notes] /\ Inputs \in [Txs -> SUBSET Notes]
  /\ \A n \in Notes : \E t \in Txs : {u \in Txs : n \in Outputs[u]} = {t}
  /\ NonExpiring \subseteq Txs /\ Unconfirmed \subseteq Txs
  /\ AheadOfScan \in BOOLEAN
  /\ {Retention, RewindDepth, MaxReorgDepth, MaxHeight, MaxEmpty, MaxEvents} \subseteq Nat

VARIABLES
  chain,     \* the best chain, one set of transactions for each height
  db,        \* the tables of the wallet
  scanned,   \* the heights whose range has priority Scanned
  joined,    \* whether the later account was added
  events     \* how many reorgs, new accounts, requested rewinds and rescans

vars == <<chain, db, scanned, joined, events>>

Heights == 1..MaxHeight
Block(h) == SubSeq(chain, 1, h)
Content(block) == block[Len(block)]
NoBlock == << >>
Creator(n) == CHOOSE t \in Txs : n \in Outputs[t]
Mine == IF joined THEN Notes ELSE Notes \ Late

\* The tables.  An entry of nfmap is a row of nullifier_map or, for a
\* transparent output, of transparent_spend_locator_map.
EmptyDb ==
  [blocks   |-> [h \in Heights |-> NoBlock],
   mined    |-> [t \in Txs |-> 0],   \* transactions.mined_height, 0 for NULL
   raw      |-> {},                  \* transactions stored in full
   received |-> {},                  \* received notes and outputs,
   nfs      |-> {},                  \* the notes whose nullifier is known,
   links    |-> {},                  \* and which transaction spends which
   locators |-> {},                  \* tx_locator_map
   nfmap    |-> {},
   spendmap |-> {},                  \* transparent_spend_map
   search   |-> {},                  \* transparent_spend_search_queue
   retrieve |-> {}]                  \* tx_retrieval_queue, enhancement only

------------------------------------------------------------------------------
(* The network. *)

OnChain == UNION {chain[h] : h \in DOMAIN chain}
HeightOf(t) == CHOOSE h \in DOMAIN chain : t \in chain[h]

\* Shielded outputs can be spent from the next block on, transparent ones in
\* the same block; nothing is spent twice.
Minable(S) ==
  /\ S \cap OnChain = {}
  /\ \A t \in S : \A n \in Inputs[t] :
        \/ Creator(n) \in OnChain
        \/ n \in Transparent /\ Creator(n) \in S
  /\ \A t \in S : \A u \in (S \cup OnChain) \ {t} : Inputs[t] \cap Inputs[u] = {}

MineBlock(S) ==
  /\ Len(chain) < MaxHeight /\ Minable(S)
  /\ S = {} => Cardinality({h \in DOMAIN chain : chain[h] = {}}) < MaxEmpty
  /\ chain' = Append(chain, S)
  /\ UNCHANGED <<db, scanned, joined, events>>

Reorg(h) ==
  /\ events < MaxEvents
  /\ h < Len(chain) /\ Len(chain) <= h + MaxReorgDepth
  /\ chain' = Block(h)
  /\ events' = events + 1
  /\ UNCHANGED <<db, scanned, joined>>

------------------------------------------------------------------------------
(* Scanning. *)

LinkedBy(d, n) == {t \in Txs : <<n, t>> \in d.links}
MinedSpend(d, n) == \E t \in LinkedBy(d, n) : d.mined[t] # 0

\* Nullifiers::unspent and get_unspent_transparent_outpoints.
Unspent(d) ==
  {n \in d.nfs : /\ d.mined[Creator(n)] # 0
                 /\ ~MinedSpend(d, n)
                 /\ LinkedBy(d, n) \cap NonExpiring = {}}
  \cup {n \in d.received \cap Transparent : ~MinedSpend(d, n)}

\* fully_scanned_height, with the birthday at height 1; 0 stands for None.
FullyScanned == CHOOSE h \in 0..MaxHeight :
  /\ 1..h \subseteq scanned
  /\ h + 1 \notin scanned

\* Mutated form: a floor also for a batch that leaves a gap below it.
SpendTrackingFloorAnywhere(first, last) ==
  IF last > Retention + first THEN last - Retention ELSE 0

\* The height from which a batch's spends are remembered.
SpendTrackingFloor(first, last) ==
  IF first > 1 /\ FullyScanned = first - 1 /\ last > Retention + first
  THEN last - Retention
  ELSE 0

\* The transaction that spends a received output, as found before: the first
\* mined one that was stored, else the one whose locator was remembered.
Claims(d, n) ==
  LET stored == {t \in Txs : <<n, t>> \in d.spendmap}
      mined  == {t \in stored : d.mined[t] # 0}
      best   == {t \in mined : \A u \in mined : d.mined[t] <= d.mined[u]}
  IN  IF best # {} THEN {CHOOSE t \in best : TRUE}
      ELSE IF stored # {} THEN {CHOOSE t \in stored : TRUE} ELSE {}

Remembered(d, n) == {row \in d.nfmap : row.note = n}

\* Mutated form: the rows remembered by locator are never consulted.
DetectedStored(d, n) == Claims(d, n)

\* find_or_create_spending_tx_for_nullifier, and what put_transparent_output
\* asks first.
Detected(d, n) ==
  IF Claims(d, n) # {} THEN Claims(d, n)
                       ELSE {row.tx : row \in Remembered(d, n)}

\* put_tx_meta through a locator: the spender is now known to be mined.
LocatedAt(d, t, received) ==
  {row.at : row \in {r \in d.nfmap :
                       r.tx = t /\ r.note \in received /\ Claims(d, r.note) = {}}}

\* A locator may not be taken by two transactions, nor a transaction have two.
LocatorsFree(d, h, B) == \A row \in d.locators : row.tx \in B => row.at = h

\* mark_sapling_note_spent and its siblings refuse a second mined spend.
NoCollision(d, spends) ==
  \A s \in spends : s[1] \notin Transparent =>
    \A t \in LinkedBy(d, s[1]) \ {s[2]} : d.mined[t] = 0

Track(d, h, B, unlinked) ==
  [d EXCEPT
    !.locators = @ \cup [at : {h}, tx : B],
    !.nfmap = {row \in @ : row.note \notin {u[1] : u \in unlinked}}
              \cup {[note |-> u[1], at |-> h, tx |-> u[2]] : u \in unlinked}]

\* One block of a batch: scan_block_with_runners against the outputs `unspent`
\* at the start of the block, then the body of the loop of put_blocks_rows.
PutBlock(s, h, tracked) ==
  LET d        == s.db
      B        == chain[h]
      inputs   == {x \in Notes \X B : x[1] \in Inputs[x[2]]}
      spends   == {x \in inputs : x[1] \in s.unspent}
      unlinked == inputs \ spends
      received == Mine \cap UNION {Outputs[t] : t \in B}
      wtxs     == {t \in B : Outputs[t] \cap received # {}} \cup {x[2] : x \in spends}
      found    == {x \in received \X Txs : x[2] \in Detected(d, x[1])}
      rows     == [d EXCEPT
        !.blocks[h] = Block(h),
        !.mined = [t \in Txs |->
                     IF t \in wtxs THEN h
                     ELSE IF LocatedAt(d, t, received) # {}
                          THEN CHOOSE at \in LocatedAt(d, t, received) : TRUE
                          ELSE @[t]],
        !.received = @ \cup received,
        !.nfs = @ \cup (received \ Transparent),
        !.links = @ \cup spends \cup found,
        !.search = (@ \ {x[1] : x \in spends}) \cup (received \cap Transparent),
        !.retrieve = @ \cup (wtxs \ d.raw)]
  IN  [ok |-> /\ s.ok
              /\ d.blocks[h] \in {NoBlock, Block(h)}
              /\ NoCollision(d, spends)
              /\ tracked => LocatorsFree(d, h, B),
       db |-> IF tracked THEN Track(rows, h, B, unlinked) ELSE rows,
       unspent |-> (s.unspent \ {x[1] : x \in spends}) \cup received]

Below(rows, h) == {row \in rows : row.at < h}

\* Mutated form: prunes below the greatest scanned block.
PruneSpendsBelowTip(d) ==
  LET top == CHOOSE h \in scanned \cup {0} : \A k \in scanned : k <= h
  IN  [d EXCEPT !.locators = @ \ Below(@, top), !.nfmap = @ \ Below(@, top)]

\* prune_tracked_spends; the rows of the maps go with their locators.  The batch
\* is not yet marked as scanned when this runs.
PruneSpends(d) ==
  LET floor == FullyScanned - Retention
  IN  [d EXCEPT !.locators = @ \ Below(@, floor), !.nfmap = @ \ Below(@, floor)]

Batch(first, last) ==
  LET floor == SpendTrackingFloor(first, last)
      state[h \in (first - 1)..last] ==
        IF h = first - 1
        THEN [ok |-> TRUE, db |-> db, unspent |-> Unspent(db)]
        ELSE LET before == state[h - 1] IN PutBlock(before, h, h >= floor)
  IN  state[last]

Connects(h) == h > 1 => db.blocks[h - 1] \in {NoBlock, Block(h - 1)}
Due(first, last) == first..last \subseteq (DOMAIN chain) \ scanned

\* scan_cached_blocks on a batch of a suggested range.  The handle is borrowed
\* exclusively from the reading of keys and outputs to the last write; what
\* fails writes nothing.
Scan(first, last) ==
  /\ first <= last /\ Due(first, last) /\ Connects(first)
  /\ LET batch == Batch(first, last)
     IN  batch.ok /\ db' = PruneSpends(batch.db)
  /\ scanned' = scanned \cup (first..last)
  /\ UNCHANGED <<chain, joined, events>>

------------------------------------------------------------------------------
(* Rewinds and accounts. *)

\* Mutated forms: the locators stay; the transactions stay mined; the spend
\* maps outlive the locators.
TruncatedKeepsLocators(d, h) ==
  [d EXCEPT
    !.blocks = [k \in Heights |-> IF k > h THEN NoBlock ELSE @[k]],
    !.mined = [t \in Txs |-> IF @[t] > h THEN 0 ELSE @[t]]]
TruncatedKeepsMined(d, h) ==
  [d EXCEPT
    !.blocks = [k \in Heights |-> IF k > h THEN NoBlock ELSE @[k]],
    !.locators = Below(@, h + 1),
    !.nfmap = Below(@, h + 1)]
TruncatedKeepsMap(d, h) ==
  [TruncatedKeepsLocators(d, h) EXCEPT !.locators = Below(@, h + 1)]

\* truncate_to_height_internal, as far as transactions and spends go: received
\* outputs, spend records, the queues and transparent_spend_map stay.
Truncated(d, h) ==
  [d EXCEPT
    !.blocks = [k \in Heights |-> IF k > h THEN NoBlock ELSE @[k]],
    !.mined = [t \in Txs |-> IF @[t] > h THEN 0 ELSE @[t]],
    !.locators = Below(@, h + 1),
    !.nfmap = Below(@, h + 1)]

TruncateTo(h) ==
  /\ db' = Truncated(db, h)
  /\ scanned' = scanned \cap (1..h)
  /\ UNCHANGED <<chain, joined>>

\* scan_blocks: a batch that does not connect rewinds, to a checkpoint at or
\* below the height chosen.
SyncRewind(first, h) ==
  /\ Due(first, first) /\ ~Connects(first)
  /\ h = 0 \/ h + RewindDepth <= first
  /\ TruncateTo(h)
  /\ UNCHANGED events

\* A truncation or a rescan of scanned heights that the user asks for.
Truncate(h) ==
  /\ events < MaxEvents /\ h < Len(chain)
  /\ TruncateTo(h)
  /\ events' = events + 1

QueueRescan(h) ==
  /\ events < MaxEvents /\ h \in scanned
  /\ scanned' = scanned \ {k \in scanned : k >= h}
  /\ events' = events + 1
  /\ UNCHANGED <<chain, db, joined>>

\* add_account of an account as old as the wallet: everything is due again.
AddAccount ==
  /\ events < MaxEvents /\ Late # {} /\ ~joined
  /\ joined' = TRUE
  /\ scanned' = {}
  /\ events' = events + 1
  /\ UNCHANGED <<chain, db>>

------------------------------------------------------------------------------
(* Complete transactions. *)

\* get_funding_accounts and the detected outputs: what the wallet has to do
\* with the transaction.
Relevant(t) ==
  \/ Inputs[t] \cap (db.nfs \cup (db.received \cap Transparent)) # {}
  \/ Outputs[t] \cap Mine # {}

\* store_decrypted_tx, of a transaction mined at h or, for 0, not mined.  A note
\* decrypted here has no nullifier yet.  Every transparent input is recorded,
\* also of outputs the wallet does not hold.
StoreDecryptedTx(t, h) ==
  LET m        == IF h = 0 THEN db.mined ELSE [db.mined EXCEPT ![t] = h]
      d        == [db EXCEPT !.mined = m]
      outpts   == Inputs[t] \cap Transparent
      spent    == (Inputs[t] \cap db.nfs) \cup (outpts \cap db.received)
      received == Outputs[t] \cap Mine
      found    == {x \in (received \cap Transparent) \X Txs : x[2] \in Detected(d, x[1])}
  IN  IF ~Relevant(t)
      THEN db' = [db EXCEPT !.retrieve = @ \ {t}]
      ELSE /\ m[t] # 0 => NoCollision(d, spent \X {t})
           /\ db' = [d EXCEPT
                !.mined = [u \in Txs |->
                             IF LocatedAt(d, u, received \cap Transparent) # {}
                             THEN CHOOSE at \in LocatedAt(d, u, received \cap Transparent) : TRUE
                             ELSE @[u]],
                !.raw = @ \cup {t},
                !.received = @ \cup received,
                !.links = @ \cup (spent \X {t}) \cup found,
                !.spendmap = @ \cup ((outpts \ db.received) \X {t}),
                !.search = (@ \ outpts) \cup (received \cap Transparent),
                !.retrieve = (@ \cup (IF received = {} THEN {}
                                      ELSE {Creator(n) : n \in outpts} \ db.raw)) \ {t}]

\* What the wallet asks servers for: the transactions of the retrieval queue,
\* and the spender of a queued output that has no recorded spend.
Requested(t) ==
  \/ t \in db.retrieve
  \/ \E n \in db.search : LinkedBy(db, n) = {} /\ n \in Inputs[t]

Enhance(t) ==
  /\ Requested(t) /\ t \in OnChain
  /\ LET h == HeightOf(t)
     IN  /\ AheadOfScan \/ db.blocks[h] = Block(h)
         /\ StoreDecryptedTx(t, h)
  /\ UNCHANGED <<chain, scanned, joined, events>>

\* set_transaction_status with TxidNotRecognized.
NotRecognized(t) ==
  /\ t \in db.retrieve /\ t \notin OnChain
  /\ db' = [db EXCEPT !.retrieve = @ \ {t}]
  /\ UNCHANGED <<chain, scanned, joined, events>>

\* A transaction of the mempool, or one the wallet sends.
SeeUnmined(t) ==
  /\ t \in Unconfirmed \ db.raw /\ Minable({t})
  /\ StoreDecryptedTx(t, 0)
  /\ UNCHANGED <<chain, scanned, joined, events>>

------------------------------------------------------------------------------
Init ==
  /\ chain = << >>
  /\ db = EmptyDb
  /\ scanned = {}
  /\ joined = FALSE
  /\ events = 0

Next ==
  \/ \E S \in SUBSET Txs : MineBlock(S)
  \/ \E h \in 0..MaxHeight : Reorg(h) \/ Truncate(h) \/ QueueRescan(h)
  \/ \E first, last \in Heights : Scan(first, last)
  \/ \E first \in Heights, h \in 0..MaxHeight : SyncRewind(first, h)
  \/ AddAccount
  \/ \E t \in Txs : Enhance(t) \/ NotRecognized(t) \/ SeeUnmined(t)

Spec == Init /\ [][Next]_vars

------------------------------------------------------------------------------
(* Properties. *)

Rows == [at : Heights, tx : Txs]

\* Types, and what foreign keys promise: a row of the spend maps has its
\* locator, and a spend record has its output.
TypeOK ==
  /\ chain \in Seq(SUBSET Txs) /\ Len(chain) <= MaxHeight
  /\ \A h \in Heights : db.blocks[h] # NoBlock => Len(db.blocks[h]) = h
  /\ db.mined \in [Txs -> 0..MaxHeight]
  /\ db.nfs \subseteq db.received \ Transparent
  /\ db.received \subseteq Mine
  /\ db.links \subseteq db.received \X Txs
  /\ db.locators \subseteq Rows
  /\ \A row \in db.nfmap : [at |-> row.at, tx |-> row.tx] \in db.locators
  /\ db.spendmap \subseteq Transparent \X Txs
  /\ db.search \subseteq db.received \cap Transparent
  /\ db.retrieve \subseteq Txs \ db.raw
  /\ \A h \in scanned : db.blocks[h] # NoBlock

Stored == {h \in Heights : db.blocks[h] # NoBlock}
OneChain == \A h, k \in Stored : h < k => db.blocks[h] = SubSeq(db.blocks[k], 1, h)

\* The notes whose receipt the wallet has scanned.
HeldNotes == {n \in db.nfs : \E h \in scanned : Creator(n) \in Content(db.blocks[h])}

Recorded(h, t, n) == <<n, t>> \in db.links /\ db.mined[t] = h

\* Every spend in a scanned block of a note the wallet holds is recorded, by the
\* transaction of that block and as mined there.
NoMissedNote ==
  OneChain => \A h \in scanned : \A t \in Content(db.blocks[h]) :
    \A n \in Inputs[t] \cap HeldNotes : Recorded(h, t, n)

\* So is every spend of a transparent output it knows of, received in a scanned
\* block or not; where the output is received in the same block, a server is at
\* least asked for the spend.
NoMissedOutput ==
  OneChain => \A h \in scanned : \A t \in Content(db.blocks[h]) :
    \A n \in Inputs[t] \cap db.received \cap Transparent :
      Recorded(h, t, n) \/ (Creator(n) \in Content(db.blocks[h]) /\ Requested(t))

\* Every spend in a scanned block of an output the wallet holds is known.
NoMissedSpend == NoMissedNote /\ NoMissedOutput

\* A transaction that counts as mined is in the block stored at that height.
MinedIsStored ==
  \A t \in Txs : db.mined[t] # 0 =>
    /\ db.blocks[db.mined[t]] # NoBlock
    /\ t \in Content(db.blocks[db.mined[t]])

\* Blocks of the best chain are never refused: no locator is left over that
\* conflicts with theirs, and no spend record collides.
NeverRefused ==
  (\A h \in Stored : h <= Len(chain) /\ db.blocks[h] = Block(h)) =>
    \A first, last \in Heights :
      first <= last /\ Due(first, last) => Batch(first, last).ok
==============================================================================
