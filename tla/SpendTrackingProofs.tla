------------------------ MODULE SpendTrackingProofs ------------------------
(***************************************************************************)
(* Theorems about SpendTracking, for any transactions, outputs, reorgs and *)
(* orders of scanning: the tables are well typed and their foreign keys    *)
(* hold; where servers report only what was scanned, what counts as mined  *)
(* is in a stored block, and blocks of the best chain are never refused;   *)
(* and where besides every transaction expires and a reorg is rewound      *)
(* before the next, no spend in a scanned block is missed.                 *)
(***************************************************************************)
EXTENDS SpendTracking, DataInduction

-----------------------------------------------------------------------------
(* The tables *)

MapRows == [note : Notes, at : Heights, tx : Txs]

Dbs == [blocks   : [Heights -> Seq(SUBSET Txs)],
        mined    : [Txs -> 0..MaxHeight],
        raw      : SUBSET Txs,
        received : SUBSET Notes,
        nfs      : SUBSET Notes,
        links    : SUBSET (Notes \X Txs),
        locators : SUBSET Rows,
        nfmap    : SUBSET MapRows,
        spendmap : SUBSET (Transparent \X Txs),
        search   : SUBSET Notes,
        retrieve : SUBSET Txs]

\* The foreign keys, and that a spend record is of a transaction that spends the output.
Keys(d) ==
  /\ \A h \in Heights : d.blocks[h] # NoBlock => Len(d.blocks[h]) = h
  /\ d.nfs \subseteq d.received \ Transparent
  /\ d.received \subseteq Mine
  /\ \A n, t : <<n, t>> \in d.links => n \in d.received /\ n \in Inputs[t]
  /\ \A row \in d.nfmap : [at |-> row.at, tx |-> row.tx] \in d.locators /\ row.note \in Inputs[row.tx]
  /\ \A n, t : <<n, t>> \in d.spendmap => n \in Inputs[t]
  /\ d.search \subseteq d.received \cap Transparent
  /\ d.retrieve \subseteq Txs \ d.raw

Tables == {d \in Dbs : Keys(d)}

\* The best chain: no transaction twice, no output spent twice.
ChainOK ==
  /\ chain \in Seq(SUBSET Txs) /\ Len(chain) <= MaxHeight
  /\ \A h, k \in DOMAIN chain : \A t \in chain[h], u \in chain[k] :
       /\ t = u => h = k
       /\ t # u => Inputs[t] \cap Inputs[u] = {}

LEMMA BlockIs ==
  ASSUME ChainOK, NEW h \in Nat, h <= Len(chain)
  PROVE  /\ Block(h) \in Seq(SUBSET Txs) /\ Len(Block(h)) = h
         /\ DOMAIN Block(h) = 1..h /\ \A k \in 1..h : Block(h)[k] = chain[k]
<1>1. chain \in Seq(SUBSET Txs) /\ Len(chain) \in Nat /\ DOMAIN chain = 1..Len(chain)
  BY DEF ChainOK
<1>2. Block(h) = [k \in 1..h |-> chain[k]]
  BY <1>1 DEF Block
<1>3. \A k \in 1..h : chain[k] \in SUBSET Txs
  BY <1>1
<1>4. Block(h) \in [1..h -> SUBSET Txs]
  BY <1>2, <1>3
<1> QED BY <1>2, <1>4

LEMMA StoredBlock ==
  ASSUME ChainOK, NEW h \in Heights, h <= Len(chain)
  PROVE  /\ Block(h) \in Seq(SUBSET Txs) /\ Len(Block(h)) = h /\ Block(h) # NoBlock
         /\ h \in DOMAIN chain /\ chain[h] \in SUBSET Txs /\ Content(Block(h)) = chain[h]
<1>1. h \in Nat /\ h \in 1..h /\ Len(chain) \in Nat
  BY Bounds DEF Heights, ChainOK
<1>2. /\ Block(h) \in Seq(SUBSET Txs) /\ Len(Block(h)) = h /\ Block(h)[h] = chain[h]
  BY <1>1, BlockIs
<1>3. Len(NoBlock) = 0
  BY DEF NoBlock
<1>4. h \in DOMAIN chain /\ chain[h] \in SUBSET Txs
  BY <1>1 DEF ChainOK, Heights
<1> QED BY <1>1, <1>2, <1>3, <1>4 DEF Content, Heights

-----------------------------------------------------------------------------
(* Looking spends up *)

LEMMA CreatorIs == \A n \in Notes : Creator(n) \in Txs /\ n \in Outputs[Creator(n)]
<1> SUFFICES ASSUME NEW n \in Notes PROVE Creator(n) \in Txs /\ n \in Outputs[Creator(n)]
  OBVIOUS
<1>1. \E t \in Txs : n \in Outputs[t]
  BY Bounds
<1> QED BY <1>1 DEF Creator

LEMMA ClaimsAre ==
  ASSUME NEW d, NEW n
  PROVE  \A t \in Claims(d, n) : t \in Txs /\ <<n, t>> \in d.spendmap
<1> DEFINE stored == {t \in Txs : <<n, t>> \in d.spendmap}
           mined  == {t \in stored : d.mined[t] # 0}
           best   == {t \in mined : \A u \in mined : d.mined[t] <= d.mined[u]}
<1>1. Claims(d, n) = IF best # {} THEN {CHOOSE t \in best : TRUE}
                     ELSE IF stored # {} THEN {CHOOSE t \in stored : TRUE} ELSE {}
  BY DEF Claims
<1>2. best \subseteq stored
  OBVIOUS
<1> HIDE DEF best
<1>3. Claims(d, n) \subseteq stored
  BY <1>1, <1>2
<1> QED BY <1>3

LEMMA DetectedAre ==
  ASSUME NEW d \in Tables, NEW n \in Notes
  PROVE  \A t \in Detected(d, n) : t \in Txs /\ n \in Inputs[t]
<1>1. \A t \in Claims(d, n) : t \in Txs /\ n \in Inputs[t]
  BY ClaimsAre DEF Tables, Keys
<1>2. \A row \in Remembered(d, n) : row.tx \in Txs /\ n \in Inputs[row.tx]
  BY DEF Remembered, Tables, Keys, Dbs, MapRows
<1> QED BY <1>1, <1>2 DEF Detected

LEMMA LocatedAre ==
  ASSUME NEW d \in Tables, NEW t, NEW received
  PROVE  \A at \in LocatedAt(d, t, received) : at \in Heights /\ [at |-> at, tx |-> t] \in d.locators
<1>1. \A row \in d.nfmap : row.at \in Heights /\ [at |-> row.at, tx |-> row.tx] \in d.locators
  BY DEF Tables, Keys, Dbs, MapRows
<1> QED BY <1>1 DEF LocatedAt

-----------------------------------------------------------------------------
(* One block of a batch *)

States == {s \in [ok : BOOLEAN, db : Tables, unspent : SUBSET Notes] : s.unspent \subseteq s.db.received}

InputsOf(h) == {x \in Notes \X chain[h] : x[1] \in Inputs[x[2]]}
Matched(s, h) == {x \in InputsOf(h) : x[1] \in s.unspent}
Missed(s, h)  == InputsOf(h) \ Matched(s, h)
Receipts(h) == Mine \cap UNION {Outputs[t] : t \in chain[h]}
Found(d, h) == {x \in Receipts(h) \X Txs : x[2] \in Detected(d, x[1])}
Ours(s, h)  == {t \in chain[h] : Outputs[t] \cap Receipts(h) # {}} \cup {x[2] : x \in Matched(s, h)}

\* d with the block at h put into the tables, before its spends are remembered.
PutRows(s, h) ==
  LET d == s.db
  IN  [d EXCEPT
        !.blocks[h] = Block(h),
        !.mined = [t \in Txs |->
                     IF t \in Ours(s, h) THEN h
                     ELSE IF LocatedAt(d, t, Receipts(h)) # {}
                          THEN CHOOSE at \in LocatedAt(d, t, Receipts(h)) : TRUE
                          ELSE @[t]],
        !.received = @ \cup Receipts(h),
        !.nfs = @ \cup (Receipts(h) \ Transparent),
        !.links = @ \cup Matched(s, h) \cup Found(d, h),
        !.search = (@ \ {x[1] : x \in Matched(s, h)}) \cup (Receipts(h) \cap Transparent),
        !.retrieve = @ \cup (Ours(s, h) \ d.raw)]

LEMMA PutBlockIs ==
  ASSUME NEW s, NEW h, NEW tracked
  PROVE  PutBlock(s, h, tracked) =
           [ok |-> /\ s.ok
                   /\ s.db.blocks[h] \in {NoBlock, Block(h)}
                   /\ NoCollision(s.db, Matched(s, h))
                   /\ tracked => LocatorsFree(s.db, h, chain[h]),
            db |-> IF tracked THEN Track(PutRows(s, h), h, chain[h], Missed(s, h)) ELSE PutRows(s, h),
            unspent |-> (s.unspent \ {x[1] : x \in Matched(s, h)}) \cup Receipts(h)]
BY Zenon DEF PutBlock, PutRows, Matched, Missed, InputsOf, Receipts, Found, Ours

LEMMA Pieces ==
  ASSUME ChainOK, NEW s \in States, NEW h \in Heights, h <= Len(chain)
  PROVE  /\ chain[h] \in SUBSET Txs /\ Receipts(h) \subseteq Mine /\ Mine \subseteq Notes
         /\ Ours(s, h) \subseteq chain[h]
         /\ Matched(s, h) \subseteq Notes \X Txs /\ Missed(s, h) \subseteq Notes \X Txs
         /\ Found(s.db, h) \subseteq Notes \X Txs
         /\ \A n, t : <<n, t>> \in Matched(s, h) =>
              n \in s.db.received /\ t \in chain[h] /\ n \in Inputs[t]
         /\ \A n, t : <<n, t>> \in Missed(s, h) => n \in Notes /\ t \in chain[h] /\ n \in Inputs[t]
         /\ \A n, t : <<n, t>> \in Found(s.db, h) => n \in Receipts(h) /\ n \in Inputs[t]
<1>1. chain[h] \in SUBSET Txs
  BY StoredBlock
<1>2. Receipts(h) \subseteq Mine /\ Mine \subseteq Notes
  BY DEF Receipts, Mine
<1>3. InputsOf(h) \subseteq Notes \X Txs
  BY <1>1 DEF InputsOf
<1>4. Matched(s, h) \subseteq InputsOf(h) /\ Missed(s, h) \subseteq InputsOf(h)
  BY DEF Matched, Missed
<1>5. Ours(s, h) \subseteq chain[h]
  BY DEF Ours, Matched, InputsOf
<1>6. \A n, t : <<n, t>> \in InputsOf(h) => n \in Notes /\ t \in chain[h] /\ n \in Inputs[t]
  BY DEF InputsOf
<1>7. \A n, t : <<n, t>> \in Matched(s, h) => n \in s.db.received
  BY DEF Matched, States
<1>8. Found(s.db, h) \subseteq Notes \X Txs
  BY <1>2 DEF Found
<1>9. ASSUME NEW n, NEW t, <<n, t>> \in Found(s.db, h)
      PROVE  n \in Receipts(h) /\ n \in Inputs[t]
  <2>1. n \in Receipts(h) /\ t \in Detected(s.db, n)
    BY <1>9 DEF Found
  <2> QED BY <1>2, <2>1, DetectedAre DEF States
<1> QED BY <1>1, <1>2, <1>3, <1>4, <1>5, <1>6, <1>7, <1>8, <1>9

\* What putting a block leaves of the tables.
Put(s, h, q) ==
  /\ q.blocks = [s.db.blocks EXCEPT ![h] = Block(h)]
  /\ q.locators = s.db.locators /\ q.nfmap = s.db.nfmap
  /\ \A t \in Txs : \/ q.mined[t] = s.db.mined[t]
                    \/ q.mined[t] = h /\ t \in chain[h]
                    \/ q.mined[t] \in Heights /\ [at |-> q.mined[t], tx |-> t] \in s.db.locators

\* What it adds to them.
Added(s, h, q) ==
  /\ q.received = s.db.received \cup Receipts(h)
  /\ q.nfs = s.db.nfs \cup (Receipts(h) \ Transparent)
  /\ q.links = s.db.links \cup Matched(s, h) \cup Found(s.db, h)
  /\ q.search = (s.db.search \ {x[1] : x \in Matched(s, h)}) \cup (Receipts(h) \cap Transparent)
  /\ q.spendmap = s.db.spendmap
  /\ \A t \in Txs : q.mined[t] = IF t \in Ours(s, h) THEN h
                                 ELSE IF LocatedAt(s.db, t, Receipts(h)) # {}
                                      THEN CHOOSE at \in LocatedAt(s.db, t, Receipts(h)) : TRUE
                                      ELSE s.db.mined[t]

LEMMA RowsPut ==
  ASSUME ChainOK, NEW s \in States, NEW h \in Heights, h <= Len(chain)
  PROVE  /\ PutRows(s, h) \in Tables /\ Put(s, h, PutRows(s, h))
         /\ Added(s, h, PutRows(s, h))
<1> DEFINE d == s.db
           q == PutRows(s, h)
           found(t) == LocatedAt(d, t, Receipts(h))
           mined == [t \in Txs |-> IF t \in Ours(s, h) THEN h
                                   ELSE IF found(t) # {} THEN CHOOSE at \in found(t) : TRUE
                                   ELSE d.mined[t]]
           away == {x[1] : x \in Matched(s, h)}
<1>1. d \in Dbs /\ Keys(d)
  BY DEF States, Tables
<1>2. \A t \in Txs : \A at \in found(t) : at \in Heights /\ [at |-> at, tx |-> t] \in d.locators
  <2>1. d \in Tables
    BY DEF States
  <2> QED BY <2>1, LocatedAre
<1> HIDE DEF d, found
<1>3. \A t \in Txs : \/ mined[t] = d.mined[t]
                     \/ mined[t] = h /\ t \in chain[h]
                     \/ mined[t] \in Heights /\ [at |-> mined[t], tx |-> t] \in d.locators
  <2> SUFFICES ASSUME NEW t \in Txs
               PROVE  \/ mined[t] = d.mined[t]
                      \/ mined[t] = h /\ t \in chain[h]
                      \/ mined[t] \in Heights /\ [at |-> mined[t], tx |-> t] \in d.locators
    OBVIOUS
  <2>1. CASE t \in Ours(s, h)
    BY <2>1, Pieces
  <2>2. CASE t \notin Ours(s, h) /\ found(t) = {}
    BY <2>2
  <2>3. CASE t \notin Ours(s, h) /\ found(t) # {}
    <3>1. mined[t] \in found(t)
      BY <2>3
    <3> QED BY <1>2, <3>1
  <2> QED BY <2>1, <2>2, <2>3
<1>4. mined \in [Txs -> 0..MaxHeight]
  <2>1. \A t \in Txs : d.mined[t] \in 0..MaxHeight
    BY <1>1 DEF Dbs
  <2>2. Heights \subseteq 0..MaxHeight
    BY Bounds DEF Heights
  <2>3. \A t \in Txs : mined[t] \in 0..MaxHeight
    BY <1>3, <2>1, <2>2
  <2> QED BY <2>3
<1> DEFINE r == [d EXCEPT
        !.blocks[h] = Block(h),
        !.mined = mined,
        !.received = @ \cup Receipts(h),
        !.nfs = @ \cup (Receipts(h) \ Transparent),
        !.links = @ \cup Matched(s, h) \cup Found(d, h),
        !.search = (@ \ away) \cup (Receipts(h) \cap Transparent),
        !.retrieve = @ \cup (Ours(s, h) \ d.raw)]
<1>5. q = r
  BY <1>1 DEF PutRows, d, found, Dbs
<1> HIDE DEF q, mined, away
<1>6. /\ r.blocks = [d.blocks EXCEPT ![h] = Block(h)] /\ r.mined = mined
      /\ r.received = d.received \cup Receipts(h)
      /\ r.nfs = d.nfs \cup (Receipts(h) \ Transparent)
      /\ r.links = d.links \cup Matched(s, h) \cup Found(d, h)
      /\ r.search = (d.search \ away) \cup (Receipts(h) \cap Transparent)
      /\ r.retrieve = d.retrieve \cup (Ours(s, h) \ d.raw)
      /\ r.raw = d.raw /\ r.locators = d.locators /\ r.nfmap = d.nfmap /\ r.spendmap = d.spendmap
      /\ r = [blocks |-> r.blocks, mined |-> r.mined, raw |-> r.raw, received |-> r.received,
              nfs |-> r.nfs, links |-> r.links, locators |-> r.locators, nfmap |-> r.nfmap,
              spendmap |-> r.spendmap, search |-> r.search, retrieve |-> r.retrieve]
  <2> DEFINE b == [d.blocks EXCEPT ![h] = Block(h)]
             c == d.received \cup Receipts(h)
             n == d.nfs \cup (Receipts(h) \ Transparent)
             l == d.links \cup Matched(s, h) \cup Found(d, h)
             e == (d.search \ away) \cup (Receipts(h) \cap Transparent)
             f == d.retrieve \cup (Ours(s, h) \ d.raw)
  <2>1. r = [d EXCEPT !.blocks = b, !.mined = mined, !.received = c, !.nfs = n, !.links = l,
                      !.search = e, !.retrieve = f]
    BY <1>1 DEF Dbs
  <2> HIDE DEF b, c, n, l, e, f, r
  <2>2. /\ r.blocks = b /\ r.mined = mined /\ r.received = c /\ r.nfs = n /\ r.links = l
        /\ r.search = e /\ r.retrieve = f
        /\ r.raw = d.raw /\ r.locators = d.locators /\ r.nfmap = d.nfmap /\ r.spendmap = d.spendmap
        /\ r = [blocks |-> r.blocks, mined |-> r.mined, raw |-> r.raw, received |-> r.received,
                nfs |-> r.nfs, links |-> r.links, locators |-> r.locators, nfmap |-> r.nfmap,
                spendmap |-> r.spendmap, search |-> r.search, retrieve |-> r.retrieve]
    BY <1>1, <2>1 DEF Dbs
  <2> QED BY <2>2 DEF b, c, n, l, e, f
<1> HIDE DEF r
<1>7. /\ r.blocks \in [Heights -> Seq(SUBSET Txs)]
      /\ \A k \in Heights : r.blocks[k] # NoBlock => Len(r.blocks[k]) = k
  <2>1. Block(h) \in Seq(SUBSET Txs) /\ Len(Block(h)) = h
    BY StoredBlock
  <2> QED BY <1>1, <1>6, <2>1 DEF Dbs, Keys
<1>8. r.links \subseteq Notes \X Txs
  BY <1>1, <1>6, Pieces DEF Dbs, d
<1>9. \A n, t : <<n, t>> \in r.links => n \in r.received /\ n \in Inputs[t]
  BY <1>1, <1>6, Pieces DEF Keys, d
<1>10. /\ r.received \subseteq Mine /\ r.nfs \subseteq r.received \ Transparent
       /\ r.search \subseteq r.received \cap Transparent
       /\ r.retrieve \subseteq Txs \ r.raw /\ Mine \subseteq Notes
  BY <1>1, <1>6, Pieces DEF Keys, Dbs
<1>11. r \in Dbs
  <2>1. r.received \in SUBSET Notes /\ r.nfs \in SUBSET Notes /\ r.search \in SUBSET Notes
        /\ r.retrieve \in SUBSET Txs
    BY <1>10
  <2>2. /\ r.raw \in SUBSET Txs /\ r.locators \in SUBSET Rows /\ r.nfmap \in SUBSET MapRows
        /\ r.spendmap \in SUBSET (Transparent \X Txs)
    BY <1>1, <1>6 DEF Dbs
  <2> QED BY <1>4, <1>6, <1>7, <1>8, <2>1, <2>2 DEF Dbs
<1>12. Keys(r)
  BY <1>1, <1>6, <1>7, <1>9, <1>10 DEF Keys
<1>13. Put(s, h, r)
  BY <1>3, <1>6 DEF Put, d
<1>14. Added(s, h, r)
  <2>1. \A t \in Txs : mined[t] = IF t \in Ours(s, h) THEN h
                                 ELSE IF found(t) # {} THEN CHOOSE at \in found(t) : TRUE
                                 ELSE d.mined[t]
    BY DEF mined
  <2> QED BY <1>6, <2>1 DEF Added, d, found, away
<1> QED BY <1>5, <1>11, <1>12, <1>13, <1>14 DEF Tables, q

Tracked(q, h, new) ==
  /\ new.blocks = q.blocks /\ new.mined = q.mined /\ new.received = q.received
  /\ new.links = q.links /\ new.spendmap = q.spendmap
  /\ new.locators = q.locators \cup [at : {h}, tx : chain[h]]
  /\ new.nfs = q.nfs /\ new.search = q.search

LEMMA TrackIs ==
  ASSUME ChainOK, NEW s \in States, NEW h \in Heights, h <= Len(chain), NEW q \in Tables
  PROVE  /\ Track(q, h, chain[h], Missed(s, h)) \in Tables
         /\ Tracked(q, h, Track(q, h, chain[h], Missed(s, h)))
         /\ Track(q, h, chain[h], Missed(s, h)).nfmap =
              {row \in q.nfmap : row.note \notin {u[1] : u \in Missed(s, h)}}
              \cup {[note |-> u[1], at |-> h, tx |-> u[2]] : u \in Missed(s, h)}
<1> DEFINE kept == {row \in q.nfmap : row.note \notin {u[1] : u \in Missed(s, h)}}
           added == {[note |-> u[1], at |-> h, tx |-> u[2]] : u \in Missed(s, h)}
           new == [at : {h}, tx : chain[h]]
           locs == q.locators \cup new
           map == kept \cup added
           r == [q EXCEPT !.locators = locs, !.nfmap = map]
<1>1. Track(q, h, chain[h], Missed(s, h)) = r
  BY DEF Track, Tables, Dbs
<1>2. chain[h] \in SUBSET Txs /\ Missed(s, h) \subseteq Notes \X Txs
  BY Pieces
<1>3. \A row \in added : /\ row \in MapRows /\ [at |-> row.at, tx |-> row.tx] \in new
                         /\ row.note \in Inputs[row.tx]
  <2> SUFFICES ASSUME NEW u \in Missed(s, h)
               PROVE  LET row == [note |-> u[1], at |-> h, tx |-> u[2]]
                      IN  /\ row \in MapRows /\ [at |-> row.at, tx |-> row.tx] \in new
                          /\ row.note \in Inputs[row.tx]
    OBVIOUS
  <2>1. u = <<u[1], u[2]>>
    BY <1>2
  <2>2. u[1] \in Notes /\ u[2] \in chain[h] /\ u[1] \in Inputs[u[2]]
    BY <2>1, Pieces
  <2>3. u[2] \in Txs
    BY <1>2, <2>2
  <2> QED BY <2>2, <2>3 DEF MapRows
<1>4. new \subseteq Rows
  BY <1>2 DEF Rows
<1>5. kept \subseteq q.nfmap
  OBVIOUS
<1> HIDE DEF kept, added, new, locs, map
<1>6. q \in Dbs /\ Keys(q)
  BY DEF Tables
<1>7. /\ r.blocks = q.blocks /\ r.mined = q.mined /\ r.received = q.received /\ r.nfs = q.nfs
      /\ r.links = q.links /\ r.spendmap = q.spendmap /\ r.raw = q.raw
      /\ r.search = q.search /\ r.retrieve = q.retrieve
      /\ r.locators = locs /\ r.nfmap = map
      /\ r = [blocks |-> r.blocks, mined |-> r.mined, raw |-> r.raw, received |-> r.received,
              nfs |-> r.nfs, links |-> r.links, locators |-> r.locators, nfmap |-> r.nfmap,
              spendmap |-> r.spendmap, search |-> r.search, retrieve |-> r.retrieve]
  <2>1. r = [q EXCEPT !.locators = locs, !.nfmap = map]
    OBVIOUS
  <2> HIDE DEF r
  <2> QED BY <1>6, <2>1 DEF Dbs
<1> HIDE DEF r
<1> USE DEF locs, map
<1>8. r \in Dbs
  BY <1>3, <1>4, <1>5, <1>6, <1>7 DEF Dbs
<1>9. Keys(r)
  BY <1>3, <1>5, <1>6, <1>7 DEF Keys
<1> QED BY <1>1, <1>7, <1>8, <1>9 DEF Tables, Tracked, new, map, kept, added

LEMMA PutBlockTyped ==
  ASSUME ChainOK, NEW s \in States, NEW h \in Heights, h <= Len(chain), NEW tracked \in BOOLEAN
  PROVE  PutBlock(s, h, tracked) \in States
<1> DEFINE rows == PutRows(s, h)
           new == IF tracked THEN Track(rows, h, chain[h], Missed(s, h)) ELSE rows
           ok == /\ s.ok
                 /\ s.db.blocks[h] \in {NoBlock, Block(h)}
                 /\ NoCollision(s.db, Matched(s, h))
                 /\ tracked => LocatorsFree(s.db, h, chain[h])
           left == (s.unspent \ {x[1] : x \in Matched(s, h)}) \cup Receipts(h)
<1>1. PutBlock(s, h, tracked) = [ok |-> ok, db |-> new, unspent |-> left]
  BY PutBlockIs
<1>2. rows \in Tables /\ new \in Tables
  BY RowsPut, TrackIs
<1>3. ok \in BOOLEAN
  BY DEF States, NoCollision, LocatorsFree
<1>4. new.received = s.db.received \cup Receipts(h)
  <2>1. rows.received = s.db.received \cup Receipts(h)
    BY DEF PutRows, States, Tables, Dbs
  <2>2. Track(rows, h, chain[h], Missed(s, h)).received = rows.received
    BY <1>2, TrackIs DEF Tracked
  <2> QED BY <2>1, <2>2
<1>5. left \subseteq new.received /\ left \subseteq Notes
  BY <1>4, Pieces DEF States
<1> HIDE DEF new, ok, left, rows
<1> QED BY <1>1, <1>2, <1>3, <1>5 DEF States

-----------------------------------------------------------------------------
(* What is mined is stored *)

InBlock(d, k, t) == d.blocks[k] # NoBlock /\ t \in Content(d.blocks[k])

AllStored(d) ==
  /\ \A row \in d.locators : InBlock(d, row.at, row.tx)
  /\ \A t \in Txs : d.mined[t] # 0 => InBlock(d, d.mined[t], t)

LEMMA RowsStored ==
  ASSUME ChainOK, NEW s \in States, NEW h \in Heights, h <= Len(chain), AllStored(s.db),
         s.db.blocks[h] \in {NoBlock, Block(h)}
  PROVE  AllStored(PutRows(s, h))
<1> DEFINE d == s.db
           q == PutRows(s, h)
<1>1. Put(s, h, q)
  BY RowsPut
<1>2. d.blocks \in [Heights -> Seq(SUBSET Txs)] /\ d.locators \subseteq Rows /\ d.mined \in [Txs -> 0..MaxHeight]
  BY DEF States, Tables, Dbs
<1> HIDE DEF q
<1>3. \A k \in Heights : \A t : InBlock(d, k, t) => InBlock(q, k, t)
  BY <1>1, <1>2, StoredBlock DEF Put, InBlock
<1>4. \A t \in chain[h] : InBlock(q, h, t)
  BY <1>1, <1>2, StoredBlock DEF Put, InBlock
<1>5. \A row \in q.locators : InBlock(q, row.at, row.tx)
  BY <1>1, <1>2, <1>3 DEF Put, AllStored, Rows
<1>6. ASSUME NEW t \in Txs, q.mined[t] # 0 PROVE InBlock(q, q.mined[t], t)
  <2>1. CASE q.mined[t] = d.mined[t]
    <3>1. d.mined[t] \in Heights
      BY <1>2, <1>6, <2>1, Bounds DEF Heights
    <3> QED BY <1>3, <1>6, <2>1, <3>1 DEF AllStored
  <2>2. CASE q.mined[t] = h /\ t \in chain[h]
    BY <1>4, <2>2
  <2>3. CASE q.mined[t] \in Heights /\ [at |-> q.mined[t], tx |-> t] \in d.locators
    BY <1>3, <2>3 DEF AllStored
  <2> QED BY <1>1, <2>1, <2>2, <2>3 DEF Put
<1> QED BY <1>5, <1>6 DEF AllStored, q

LEMMA PutBlockStored ==
  ASSUME ChainOK, NEW s \in States, NEW h \in Heights, h <= Len(chain), NEW tracked \in BOOLEAN,
         AllStored(s.db), PutBlock(s, h, tracked).ok
  PROVE  s.ok /\ AllStored(PutBlock(s, h, tracked).db)
<1> DEFINE rows == PutRows(s, h)
           new == Track(rows, h, chain[h], Missed(s, h))
           q == PutBlock(s, h, tracked)
<1>1. s.ok /\ s.db.blocks[h] \in {NoBlock, Block(h)}
  BY PutBlockIs
<1>2. q.db = IF tracked THEN new ELSE rows
  BY PutBlockIs
<1>3. AllStored(rows) /\ rows \in Tables /\ Put(s, h, rows)
  BY <1>1, RowsStored, RowsPut
<1>4. Tracked(rows, h, new)
  BY <1>3, TrackIs
<1> HIDE DEF new, rows
<1>5. \A t \in chain[h] : InBlock(rows, h, t)
  BY <1>3, StoredBlock DEF Put, InBlock, States, Tables, Dbs
<1>6. AllStored(new)
  BY <1>3, <1>4, <1>5 DEF AllStored, Tracked, InBlock
<1> QED BY <1>1, <1>2, <1>3, <1>6

-----------------------------------------------------------------------------
(* A batch *)

Start == [ok |-> TRUE, db |-> db, unspent |-> Unspent(db)]

LEMMA StartIs == db \in Tables => Start \in States
BY DEF Start, States, Unspent, Tables, Keys, Dbs

LEMMA FloorIs ==
  ASSUME NEW first \in Heights, NEW last \in Heights
  PROVE  \A h \in Heights : (h >= SpendTrackingFloor(first, last)) \in BOOLEAN
<1>1. first \in Int /\ last \in Int /\ Retention \in Int /\ \A h \in Heights : h \in Int
  BY Bounds DEF Heights
<1>2. SpendTrackingFloor(first, last) \in Int
  BY <1>1 DEF SpendTrackingFloor
<1> QED BY <1>1, <1>2

LEMMA StatesRecursion ==
  ASSUME NEW a \in States, NEW n \in Nat, NEW step \in [1..n -> [States -> States]]
  PROVE  \E f \in [0..n -> States] : f[0] = a /\ \A i \in 1..n : f[i] = step[i][f[i - 1]]
BY RecursionExists

\* The recursion over the blocks of a batch is well defined: what holds of the state a batch
\* begins with, and of the state after each block if it held before, holds of the batch.
LEMMA BatchInduction ==
  ASSUME ChainOK, db \in Tables, NEW first \in Heights, NEW last \in Heights,
         first <= last, last <= Len(chain),
         NEW P \in [(first - 1)..last -> SUBSET States], Start \in P[first - 1],
         \A h \in first..last : \A s \in P[h - 1] :
           PutBlock(s, h, h >= SpendTrackingFloor(first, last)) \in P[h]
  PROVE  Batch(first, last) \in P[last]
<1> DEFINE floor == SpendTrackingFloor(first, last)
           Is(g) == g = [h \in (first - 1)..last |->
             IF h = first - 1 THEN [ok |-> TRUE, db |-> db, unspent |-> Unspent(db)]
             ELSE LET before == g[h - 1] IN PutBlock(before, h, h >= floor)]
           n == last - first + 1
           step == [i \in 1..n |-> [s \in States |-> PutBlock(s, first - 1 + i, first - 1 + i >= floor)]]
<1>1. first \in Nat \ {0} /\ last \in Nat /\ n \in Nat /\ first..last \subseteq Heights
      /\ \A h \in first..last : h <= Len(chain)
  <2>1. MaxHeight \in Nat /\ Len(chain) \in Nat
    BY Bounds DEF ChainOK
  <2>2. first \in Nat \ {0} /\ last \in Nat /\ last <= MaxHeight
    BY <2>1 DEF Heights
  <2> QED BY <2>1, <2>2 DEF Heights
<1>2. ASSUME NEW s \in States, NEW h \in first..last PROVE PutBlock(s, h, h >= floor) \in States
  BY <1>1, FloorIs, PutBlockTyped
<1> HIDE DEF floor
<1>3. \E g : Is(g)
  <2>1. step \in [1..n -> [States -> States]]
    <3>1. ASSUME NEW i \in 1..n, NEW s \in States
          PROVE  PutBlock(s, first - 1 + i, first - 1 + i >= floor) \in States
      <4>1. first - 1 + i \in first..last
        BY <1>1
      <4> QED BY <1>2, <4>1
    <3> QED BY <3>1
  <2>2. Start \in States
    BY StartIs
  <2>3. PICK f \in [0..n -> States] : f[0] = Start /\ \A i \in 1..n : f[i] = step[i][f[i - 1]]
    <3>1. n \in Nat
      BY <1>1
    <3> HIDE DEF step, n, Start, States
    <3> QED BY <2>1, <2>2, <3>1, StatesRecursion
  <2> DEFINE g == [h \in (first - 1)..last |-> f[h - (first - 1)]]
  <2>4. ASSUME NEW h \in (first - 1)..last
        PROVE  g[h] = IF h = first - 1 THEN Start ELSE PutBlock(g[h - 1], h, h >= floor)
    <3>1. CASE h = first - 1
      <4>1. h - (first - 1) = 0
        BY <1>1, <3>1
      <4> QED BY <2>3, <3>1, <4>1
    <3>2. CASE h # first - 1
      <4> DEFINE i == h - (first - 1)
      <4>1. i \in 1..n /\ i - 1 \in 0..n /\ first - 1 + i = h /\ h - 1 \in (first - 1)..last
            /\ (h - 1) - (first - 1) = i - 1
        BY <1>1, <3>2
      <4>2. f[i - 1] \in States /\ g[h - 1] = f[i - 1] /\ g[h] = f[i]
        BY <2>3, <4>1
      <4> HIDE DEF i, g
      <4>3. step[i][f[i - 1]] = PutBlock(f[i - 1], h, h >= floor)
        BY <4>1, <4>2
      <4>4. f[i] = step[i][f[i - 1]]
        BY <2>3, <4>1
      <4> QED BY <3>2, <4>2, <4>3, <4>4
    <3> QED BY <3>1, <3>2
  <2>5. Is(g)
    BY <2>4 DEF Start
  <2> QED BY <2>5
<1> DEFINE f == CHOOSE g : Is(g)
<1>4. Is(f)
  <2> HIDE DEF Is
  <2> QED BY <1>3
<1>5. Batch(first, last) = f[last]
  BY Zenon DEF Batch, floor
<1> HIDE DEF f
<1>6. f[first - 1] = Start
  <2>1. first - 1 \in (first - 1)..last
    BY <1>1
  <2> QED BY <1>4, <2>1 DEF Start
<1>7. ASSUME NEW h \in first..last PROVE f[h] = PutBlock(f[h - 1], h, h >= floor)
  <2>1. h \in (first - 1)..last /\ h # first - 1
    BY <1>1
  <2> QED BY <1>4, <2>1
<1> HIDE DEF Is, step
<1> DEFINE N == {k \in Nat : k <= n => f[first - 1 + k] \in P[first - 1 + k]}
<1>8. 0 \in N
  <2>1. first - 1 + 0 = first - 1
    BY <1>1
  <2> QED BY <1>6, <2>1
<1>9. ASSUME NEW k \in N \intersect Nat PROVE k + 1 \in N
  <2>1. ASSUME k + 1 <= n PROVE f[first - 1 + (k + 1)] \in P[first - 1 + (k + 1)]
    <3> DEFINE h == first - 1 + (k + 1)
    <3>1. h \in first..last /\ h - 1 = first - 1 + k /\ k <= n
      BY <1>1, <2>1
    <3>2. f[h - 1] \in P[h - 1]
      BY <3>1
    <3> HIDE DEF h
    <3>3. f[h] \in P[h]
      BY <1>7, <3>1, <3>2 DEF floor
    <3> QED BY <3>3 DEF h
  <2>2. k + 1 \in Nat
    OBVIOUS
  <2> QED BY <2>1, <2>2
<1>10. n \in N
  <2> HIDE DEF N, n
  <2> QED BY <1>1, <1>8, <1>9, NumberInduction
<1>11. f[first - 1 + n] \in P[first - 1 + n]
  BY <1>1, <1>10
<1>12. first - 1 + n = last
  BY <1>1
<1> QED BY <1>5, <1>11, <1>12

-----------------------------------------------------------------------------
(* The other operations on the tables *)

\* The tables of outputs and their spends are the same.
SameOutputs(d, q) ==
  /\ q.received = d.received /\ q.nfs = d.nfs /\ q.links = d.links
  /\ q.spendmap = d.spendmap /\ q.search = d.search

LEMMA PruneIs ==
  ASSUME NEW d \in Tables
  PROVE  /\ PruneSpends(d) \in Tables /\ PruneSpends(d).blocks = d.blocks
         /\ PruneSpends(d).mined = d.mined /\ PruneSpends(d).locators \subseteq d.locators
         /\ SameOutputs(d, PruneSpends(d))
         /\ PruneSpends(d).nfmap = {row \in d.nfmap : ~(row.at < FullyScanned - Retention)}
<1> DEFINE floor == FullyScanned - Retention
           locs == d.locators \ Below(d.locators, floor)
           map == d.nfmap \ Below(d.nfmap, floor)
           q == [d EXCEPT !.locators = locs, !.nfmap = map]
<1>1. d \in Dbs /\ Keys(d)
  BY DEF Tables
<1>2. PruneSpends(d) = q
  BY <1>1 DEF PruneSpends, Dbs
<1>3. \A row \in map : row \in d.nfmap /\ [at |-> row.at, tx |-> row.tx] \in locs
  BY <1>1 DEF Below, Keys
<1>4. /\ locs \subseteq d.locators /\ map \subseteq d.nfmap
      /\ map = {row \in d.nfmap : ~(row.at < floor)}
  BY DEF Below
<1> HIDE DEF locs, map
<1>5. /\ q.blocks = d.blocks /\ q.mined = d.mined /\ q.received = d.received /\ q.nfs = d.nfs
      /\ q.links = d.links /\ q.spendmap = d.spendmap /\ q.raw = d.raw
      /\ q.search = d.search /\ q.retrieve = d.retrieve /\ q.locators = locs /\ q.nfmap = map
      /\ q = [blocks |-> q.blocks, mined |-> q.mined, raw |-> q.raw, received |-> q.received,
              nfs |-> q.nfs, links |-> q.links, locators |-> q.locators, nfmap |-> q.nfmap,
              spendmap |-> q.spendmap, search |-> q.search, retrieve |-> q.retrieve]
  <2>1. q = [d EXCEPT !.locators = locs, !.nfmap = map]
    OBVIOUS
  <2> HIDE DEF q
  <2> QED BY <1>1, <2>1 DEF Dbs
<1> HIDE DEF q
<1>6. q \in Dbs
  BY <1>1, <1>4, <1>5 DEF Dbs
<1>7. Keys(q)
  BY <1>1, <1>3, <1>5 DEF Keys
<1> QED BY <1>2, <1>4, <1>5, <1>6, <1>7 DEF Tables, SameOutputs

LEMMA TruncatedIs ==
  ASSUME NEW d \in Tables, NEW h \in Int
  PROVE  LET q == Truncated(d, h)
         IN  /\ q \in Tables
             /\ \A k \in Heights : q.blocks[k] = IF k > h THEN NoBlock ELSE d.blocks[k]
             /\ \A t \in Txs : q.mined[t] = IF d.mined[t] > h THEN 0 ELSE d.mined[t]
             /\ q.locators = {row \in d.locators : row.at <= h}
             /\ q.nfmap = {row \in d.nfmap : row.at <= h}
             /\ SameOutputs(d, q)
<1> DEFINE blocks == [k \in Heights |-> IF k > h THEN NoBlock ELSE d.blocks[k]]
           mined == [t \in Txs |-> IF d.mined[t] > h THEN 0 ELSE d.mined[t]]
           locs == Below(d.locators, h + 1)
           map == Below(d.nfmap, h + 1)
           q == [d EXCEPT !.blocks = blocks, !.mined = mined, !.locators = locs, !.nfmap = map]
<1>1. d \in Dbs /\ Keys(d)
  BY DEF Tables
<1>2. Truncated(d, h) = q
  BY <1>1 DEF Truncated, Dbs
<1>3. \A row \in map : row \in d.nfmap /\ [at |-> row.at, tx |-> row.tx] \in locs
  BY <1>1 DEF Below, Keys
<1>4. locs \subseteq d.locators /\ map \subseteq d.nfmap
  BY DEF Below
<1>5. locs = {row \in d.locators : row.at <= h} /\ map = {row \in d.nfmap : row.at <= h}
  <2>1. \A row \in d.locators : row.at \in Nat
    BY <1>1, Bounds DEF Dbs, Rows, Heights
  <2>2. \A row \in d.nfmap : row.at \in Nat
    BY <1>1, Bounds DEF Dbs, MapRows, Heights
  <2> QED BY <2>1, <2>2 DEF Below
<1>6. mined \in [Txs -> 0..MaxHeight]
  BY <1>1, Bounds DEF Dbs
<1>7. /\ blocks \in [Heights -> Seq(SUBSET Txs)]
      /\ \A k \in Heights : blocks[k] # NoBlock => Len(blocks[k]) = k
  <2>1. NoBlock \in Seq(SUBSET Txs)
    BY DEF NoBlock
  <2> QED BY <1>1, <2>1 DEF Dbs, Keys
<1>8. /\ \A k \in Heights : blocks[k] = IF k > h THEN NoBlock ELSE d.blocks[k]
      /\ \A t \in Txs : mined[t] = IF d.mined[t] > h THEN 0 ELSE d.mined[t]
  OBVIOUS
<1> HIDE DEF locs, map, blocks, mined
<1>9. /\ q.blocks = blocks /\ q.mined = mined /\ q.received = d.received /\ q.nfs = d.nfs
      /\ q.links = d.links /\ q.spendmap = d.spendmap /\ q.raw = d.raw
      /\ q.search = d.search /\ q.retrieve = d.retrieve /\ q.locators = locs /\ q.nfmap = map
      /\ q = [blocks |-> q.blocks, mined |-> q.mined, raw |-> q.raw, received |-> q.received,
              nfs |-> q.nfs, links |-> q.links, locators |-> q.locators, nfmap |-> q.nfmap,
              spendmap |-> q.spendmap, search |-> q.search, retrieve |-> q.retrieve]
  <2>1. q = [d EXCEPT !.blocks = blocks, !.mined = mined, !.locators = locs, !.nfmap = map]
    OBVIOUS
  <2> HIDE DEF q
  <2> QED BY <1>1, <2>1 DEF Dbs
<1> HIDE DEF q
<1>10. q \in Dbs
  BY <1>1, <1>4, <1>6, <1>7, <1>9 DEF Dbs
<1>11. Keys(q)
  BY <1>1, <1>3, <1>7, <1>9 DEF Keys
<1> QED BY <1>2, <1>5, <1>8, <1>9, <1>10, <1>11 DEF Tables, SameOutputs

\* What store_decrypted_tx does to the blocks, the locators and the heights.
StoredTx(t, h, q) ==
  /\ q \in Tables /\ q.blocks = db.blocks /\ q.locators = db.locators
  /\ \A u \in Txs : \/ q.mined[u] = db.mined[u]
                    \/ u = t /\ h # 0 /\ q.mined[u] = h
                    \/ q.mined[u] \in Heights /\ [at |-> q.mined[u], tx |-> u] \in db.locators

\* Nothing but the retrieval queue has changed.
Unread(q) == SameOutputs(db, q) /\ q.mined = db.mined /\ q.nfmap = db.nfmap

LEMMA RetrieveIs ==
  ASSUME db \in Tables, NEW t, NEW h
  PROVE  LET q == [db EXCEPT !.retrieve = @ \ {t}] IN StoredTx(t, h, q) /\ Unread(q)
<1> DEFINE retrieve == db.retrieve \ {t}
           q == [db EXCEPT !.retrieve = retrieve]
<1>1. db \in Dbs /\ Keys(db)
  BY DEF Tables
<1>2. [db EXCEPT !.retrieve = @ \ {t}] = q
  BY <1>1 DEF Dbs
<1>3. retrieve \subseteq db.retrieve
  OBVIOUS
<1> HIDE DEF retrieve
<1>4. /\ q.blocks = db.blocks /\ q.mined = db.mined /\ q.received = db.received /\ q.nfs = db.nfs
      /\ q.links = db.links /\ q.spendmap = db.spendmap /\ q.raw = db.raw /\ q.search = db.search
      /\ q.locators = db.locators /\ q.nfmap = db.nfmap /\ q.retrieve = retrieve
      /\ q = [blocks |-> q.blocks, mined |-> q.mined, raw |-> q.raw, received |-> q.received,
              nfs |-> q.nfs, links |-> q.links, locators |-> q.locators, nfmap |-> q.nfmap,
              spendmap |-> q.spendmap, search |-> q.search, retrieve |-> q.retrieve]
  <2>1. q = [db EXCEPT !.retrieve = retrieve]
    OBVIOUS
  <2> HIDE DEF q
  <2> QED BY <1>1, <2>1 DEF Dbs
<1> HIDE DEF q
<1>5. q \in Dbs
  BY <1>1, <1>3, <1>4 DEF Dbs
<1>6. Keys(q)
  BY <1>1, <1>3, <1>4 DEF Keys
<1> QED BY <1>2, <1>4, <1>5, <1>6 DEF StoredTx, Tables, Unread, SameOutputs

LEMMA MinedAt ==
  ASSUME db \in Tables, NEW t \in Txs, NEW h \in {0} \cup Heights
  PROVE  LET m == IF h = 0 THEN db.mined ELSE [db.mined EXCEPT ![t] = h]
             d == [db EXCEPT !.mined = m]
         IN  /\ m \in [Txs -> 0..MaxHeight]
             /\ \A u \in Txs : m[u] = db.mined[u] \/ (u = t /\ h # 0 /\ m[u] = h)
             /\ d \in Tables /\ d.mined = m /\ d.blocks = db.blocks /\ d.received = db.received
             /\ d.nfs = db.nfs /\ d.links = db.links /\ d.spendmap = db.spendmap
             /\ d.raw = db.raw /\ d.search = db.search /\ d.retrieve = db.retrieve
             /\ d.locators = db.locators /\ d.nfmap = db.nfmap
<1> DEFINE m == IF h = 0 THEN db.mined ELSE [db.mined EXCEPT ![t] = h]
           d == [db EXCEPT !.mined = m]
<1>1. db \in Dbs /\ Keys(db)
  BY DEF Tables
<1>2. /\ m \in [Txs -> 0..MaxHeight]
      /\ \A u \in Txs : m[u] = db.mined[u] \/ (u = t /\ h # 0 /\ m[u] = h)
  BY <1>1, Bounds DEF Dbs, Heights
<1> HIDE DEF m
<1>3. /\ d.blocks = db.blocks /\ d.mined = m /\ d.received = db.received /\ d.nfs = db.nfs
      /\ d.links = db.links /\ d.spendmap = db.spendmap /\ d.raw = db.raw /\ d.search = db.search
      /\ d.locators = db.locators /\ d.nfmap = db.nfmap /\ d.retrieve = db.retrieve
      /\ d = [blocks |-> d.blocks, mined |-> d.mined, raw |-> d.raw, received |-> d.received,
              nfs |-> d.nfs, links |-> d.links, locators |-> d.locators, nfmap |-> d.nfmap,
              spendmap |-> d.spendmap, search |-> d.search, retrieve |-> d.retrieve]
  <2>1. d = [db EXCEPT !.mined = m]
    OBVIOUS
  <2> HIDE DEF d
  <2> QED BY <1>1, <2>1 DEF Dbs
<1> HIDE DEF d
<1>4. d \in Dbs
  BY <1>1, <1>2, <1>3 DEF Dbs
<1>5. Keys(d)
  BY <1>1, <1>3 DEF Keys
<1> QED BY <1>2, <1>3, <1>4, <1>5 DEF Tables, m, d

\* The tables with a transaction mined at h, and what they tell of its outputs.
MarkedAt(t, h) == [db EXCEPT !.mined = IF h = 0 THEN db.mined ELSE [db.mined EXCEPT ![t] = h]]
Shown(t) == Outputs[t] \cap Mine \cap Transparent
FoundFor(t, h) == {x \in Shown(t) \X Txs : x[2] \in Detected(MarkedAt(t, h), x[1])}

\* What store_decrypted_tx does to the tables of outputs.
StoredOutputs(t, h, q) ==
  /\ q.nfs = db.nfs /\ q.nfmap = db.nfmap
  /\ q.received = db.received \cup (Outputs[t] \cap Mine)
  /\ q.links = db.links \cup (((Inputs[t] \cap db.nfs)
                                \cup (Inputs[t] \cap Transparent \cap db.received)) \X {t})
                        \cup FoundFor(t, h)
  /\ q.spendmap = db.spendmap \cup (((Inputs[t] \cap Transparent) \ db.received) \X {t})
  /\ q.search = (db.search \ (Inputs[t] \cap Transparent)) \cup Shown(t)
  /\ \A u \in Txs : q.mined[u] = IF LocatedAt(MarkedAt(t, h), u, Shown(t)) # {}
                                 THEN CHOOSE at \in LocatedAt(MarkedAt(t, h), u, Shown(t)) : TRUE
                                 ELSE MarkedAt(t, h).mined[u]

LEMMA StoreDecryptedTxIs ==
  ASSUME db \in Tables, NEW t \in Txs, NEW h \in {0} \cup Heights, StoreDecryptedTx(t, h)
  PROVE  StoredTx(t, h, db') /\ IF Relevant(t) THEN StoredOutputs(t, h, db') ELSE Unread(db')
<1> DEFINE m        == IF h = 0 THEN db.mined ELSE [db.mined EXCEPT ![t] = h]
           d        == [db EXCEPT !.mined = m]
           outpts   == Inputs[t] \cap Transparent
           spent    == (Inputs[t] \cap db.nfs) \cup (outpts \cap db.received)
           received == Outputs[t] \cap Mine
           found    == {x \in (received \cap Transparent) \X Txs : x[2] \in Detected(d, x[1])}
           mined    == [u \in Txs |->
                         IF LocatedAt(d, u, received \cap Transparent) # {}
                         THEN CHOOSE at \in LocatedAt(d, u, received \cap Transparent) : TRUE
                         ELSE d.mined[u]]
           raw      == d.raw \cup {t}
           rec      == d.received \cup received
           links    == d.links \cup (spent \X {t}) \cup found
           spendmap == d.spendmap \cup ((outpts \ db.received) \X {t})
           search   == (d.search \ outpts) \cup (received \cap Transparent)
           retrieve == (d.retrieve \cup (IF received = {} THEN {}
                                         ELSE {Creator(n) : n \in outpts} \ db.raw)) \ {t}
           q == [d EXCEPT !.mined = mined, !.raw = raw, !.received = rec, !.links = links,
                          !.spendmap = spendmap, !.search = search, !.retrieve = retrieve]
<1>1. CASE ~Relevant(t)
  <2>1. db' = [db EXCEPT !.retrieve = @ \ {t}]
    BY <1>1 DEF StoreDecryptedTx
  <2> QED BY <1>1, <2>1, RetrieveIs
<1>2. CASE Relevant(t)
  <2>1. /\ m \in [Txs -> 0..MaxHeight]
        /\ \A u \in Txs : m[u] = db.mined[u] \/ (u = t /\ h # 0 /\ m[u] = h)
        /\ d \in Tables /\ d.mined = m /\ d.blocks = db.blocks /\ d.received = db.received
        /\ d.nfs = db.nfs /\ d.links = db.links /\ d.spendmap = db.spendmap
        /\ d.raw = db.raw /\ d.search = db.search /\ d.retrieve = db.retrieve
        /\ d.locators = db.locators /\ d.nfmap = db.nfmap
    BY MinedAt
  <2>2. db' = [d EXCEPT
                !.mined = [u \in Txs |->
                             IF LocatedAt(d, u, received \cap Transparent) # {}
                             THEN CHOOSE at \in LocatedAt(d, u, received \cap Transparent) : TRUE
                             ELSE @[u]],
                !.raw = @ \cup {t},
                !.received = @ \cup received,
                !.links = @ \cup (spent \X {t}) \cup found,
                !.spendmap = @ \cup ((outpts \ db.received) \X {t}),
                !.search = (@ \ outpts) \cup (received \cap Transparent),
                !.retrieve = (@ \cup (IF received = {} THEN {}
                                      ELSE {Creator(n) : n \in outpts} \ db.raw)) \ {t}]
    BY <1>2, Zenon DEF StoreDecryptedTx
  <2> HIDE DEF m, d, outpts, spent, received, found
  <2>3. d \in Dbs /\ Keys(d)
    BY <2>1 DEF Tables
  <2>4. db' = q
    BY <2>2, <2>3 DEF Dbs
  <2>5. /\ outpts \subseteq Transparent /\ outpts \subseteq Inputs[t] /\ outpts \subseteq Notes
        /\ received \subseteq Mine /\ received \subseteq Notes
        /\ spent \subseteq db.received /\ spent \subseteq Inputs[t] /\ spent \subseteq Notes
    BY <2>1, <2>3, Bounds DEF Keys, Dbs, Mine, outpts, received, spent
  <2>6. \A x \in found : x[1] \in received /\ x[2] \in Txs /\ x = <<x[1], x[2]>> /\ x[1] \in Inputs[x[2]]
    BY <2>1, <2>5, DetectedAre DEF found
  <2>7. \A u \in Txs : \/ mined[u] = d.mined[u]
                       \/ mined[u] \in Heights /\ [at |-> mined[u], tx |-> u] \in d.locators
    BY <2>1, LocatedAre
  <2>8. mined \in [Txs -> 0..MaxHeight]
    <3>1. DOMAIN mined = Txs /\ mined = [u \in Txs |-> mined[u]]
      OBVIOUS
    <3>2. \A u \in Txs : d.mined[u] \in 0..MaxHeight
      BY <2>3 DEF Dbs
    <3>3. Heights \subseteq 0..MaxHeight
      BY Bounds DEF Heights
    <3> HIDE DEF mined
    <3>4. \A u \in Txs : mined[u] \in 0..MaxHeight
      BY <2>7, <3>2, <3>3
    <3> QED BY <3>1, <3>4
  <2>9. /\ d.links \subseteq links
        /\ \A n, u : <<n, u>> \in links => \/ <<n, u>> \in d.links
                                           \/ n \in rec /\ n \in Inputs[u] /\ n \in Notes /\ u \in Txs
        /\ links \in SUBSET (Notes \X Txs)
    <3>1. \A x \in spent \X {t} : x = <<x[1], x[2]>> /\ x[1] \in spent /\ x[2] = t
      OBVIOUS
    <3>2. spent \subseteq rec /\ received \subseteq rec
      BY <2>1, <2>5
    <3>3. d.links \subseteq Notes \X Txs
      BY <2>3 DEF Dbs
    <3> HIDE DEF rec
    <3>4. \A x \in links : \/ x \in d.links
                           \/ /\ x = <<x[1], x[2]>> /\ x[1] \in rec /\ x[1] \in Inputs[x[2]]
                              /\ x[1] \in Notes /\ x[2] \in Txs
      BY <2>5, <2>6, <3>1, <3>2
    <3> HIDE DEF links
    <3>5. links \in SUBSET (Notes \X Txs)
      BY <3>3, <3>4
    <3>6. ASSUME NEW n, NEW u, <<n, u>> \in links, <<n, u>> \notin d.links
          PROVE  n \in rec /\ n \in Inputs[u] /\ n \in Notes /\ u \in Txs
      BY <3>4, <3>6
    <3>7. d.links \subseteq links
      BY DEF links
    <3> QED BY <3>5, <3>6, <3>7
  <2>10. /\ spendmap \in SUBSET (Transparent \X Txs)
         /\ \A n, u : <<n, u>> \in spendmap => <<n, u>> \in d.spendmap \/ (u = t /\ n \in Inputs[t])
    BY <2>3, <2>5 DEF Dbs
  <2>11. /\ search \subseteq rec \cap Transparent /\ search \subseteq Notes /\ rec \subseteq Mine
         /\ rec \subseteq Notes /\ d.received \subseteq rec /\ raw \subseteq Txs
    BY <2>3, <2>5 DEF Dbs, Keys
  <2>12. retrieve \subseteq Txs \ raw
    <3>1. \A n \in outpts : Creator(n) \in Txs
      BY <2>5, CreatorIs
    <3>2. (IF received = {} THEN {} ELSE {Creator(n) : n \in outpts} \ db.raw) \subseteq Txs \ d.raw
      BY <2>1, <3>1
    <3>3. d.retrieve \subseteq Txs \ d.raw
      BY <2>3 DEF Keys
    <3> QED BY <3>2, <3>3
  <2> HIDE DEF mined, raw, rec, links, spendmap, search, retrieve
  <2>13. /\ q.blocks = d.blocks /\ q.mined = mined /\ q.received = rec /\ q.nfs = d.nfs
         /\ q.links = links /\ q.spendmap = spendmap /\ q.raw = raw /\ q.search = search
         /\ q.locators = d.locators /\ q.nfmap = d.nfmap /\ q.retrieve = retrieve
         /\ q = [blocks |-> q.blocks, mined |-> q.mined, raw |-> q.raw, received |-> q.received,
                 nfs |-> q.nfs, links |-> q.links, locators |-> q.locators, nfmap |-> q.nfmap,
                 spendmap |-> q.spendmap, search |-> q.search, retrieve |-> q.retrieve]
    <3>1. q = [d EXCEPT !.mined = mined, !.raw = raw, !.received = rec, !.links = links,
                        !.spendmap = spendmap, !.search = search, !.retrieve = retrieve]
      OBVIOUS
    <3> HIDE DEF q
    <3> QED BY <2>3, <3>1 DEF Dbs
  <2> HIDE DEF q
  <2>14. q \in Dbs
    BY <2>3, <2>8, <2>9, <2>10, <2>11, <2>12, <2>13 DEF Dbs
  <2>15. Keys(q)
    <3>1. \A n, u : <<n, u>> \in q.links => n \in q.received /\ n \in Inputs[u]
      BY <2>3, <2>9, <2>11, <2>13 DEF Keys
    <3>2. \A n, u : <<n, u>> \in q.spendmap => n \in Inputs[u]
      BY <2>3, <2>10, <2>13 DEF Keys
    <3> QED BY <2>3, <2>11, <2>12, <2>13, <3>1, <3>2 DEF Keys
  <2>16. \A u \in Txs : \/ q.mined[u] = db.mined[u]
                        \/ u = t /\ h # 0 /\ q.mined[u] = h
                        \/ q.mined[u] \in Heights /\ [at |-> q.mined[u], tx |-> u] \in db.locators
    BY <2>1, <2>7, <2>13 DEF mined
  <2>17. StoredOutputs(t, h, q)
    <3>1. d = MarkedAt(t, h) /\ received \cap Transparent = Shown(t) /\ outpts = Inputs[t] \cap Transparent
          /\ received = Outputs[t] \cap Mine
      BY DEF d, m, MarkedAt, Shown, received, outpts
    <3>2. found = FoundFor(t, h)
      BY <3>1 DEF found, FoundFor
    <3>3. spent = (Inputs[t] \cap db.nfs) \cup (Inputs[t] \cap Transparent \cap db.received)
      BY DEF spent, outpts
    <3>4. q.links = db.links \cup (spent \X {t}) \cup found
      BY <2>1, <2>13 DEF links
    <3>5. \A u \in Txs : q.mined[u] = IF LocatedAt(d, u, Shown(t)) # {}
                                    THEN CHOOSE at \in LocatedAt(d, u, Shown(t)) : TRUE
                                    ELSE d.mined[u]
      <4>1. received \cap Transparent = Shown(t) /\ q.mined = mined
        BY <2>13, <3>1
      <4> QED BY <4>1 DEF mined
    <3>6. q.spendmap = db.spendmap \cup ((outpts \ db.received) \X {t})
      BY <2>1, <2>13 DEF spendmap
    <3>7. q.search = (db.search \ outpts) \cup Shown(t)
      BY <2>1, <2>13, <3>1 DEF search
    <3>8. q.received = db.received \cup (Outputs[t] \cap Mine) /\ q.nfs = db.nfs /\ q.nfmap = db.nfmap
      BY <2>1, <2>13, <3>1 DEF rec
    <3> QED BY <3>1, <3>2, <3>3, <3>4, <3>5, <3>6, <3>7, <3>8 DEF StoredOutputs
  <2> QED BY <1>2, <2>1, <2>4, <2>13, <2>14, <2>15, <2>16, <2>17 DEF StoredTx, Tables
<1> QED BY <1>1, <1>2

-----------------------------------------------------------------------------
(* Types *)

TypeInv ==
  /\ ChainOK /\ db \in Tables /\ joined \in BOOLEAN
  /\ scanned \subseteq Heights /\ \A h \in scanned : db.blocks[h] # NoBlock

LEMMA PutBlockBlocks ==
  ASSUME ChainOK, NEW s \in States, NEW h \in Heights, h <= Len(chain), NEW tracked \in BOOLEAN
  PROVE  PutBlock(s, h, tracked).db.blocks = [s.db.blocks EXCEPT ![h] = Block(h)]
<1>1. PutRows(s, h) \in Tables /\ Put(s, h, PutRows(s, h))
  BY RowsPut
<1>2. Tracked(PutRows(s, h), h, Track(PutRows(s, h), h, chain[h], Missed(s, h)))
  BY <1>1, TrackIs
<1>3. PutBlock(s, h, tracked).db = IF tracked THEN Track(PutRows(s, h), h, chain[h], Missed(s, h))
                                              ELSE PutRows(s, h)
  BY PutBlockIs
<1> QED BY <1>1, <1>2, <1>3 DEF Put, Tracked

LEMMA DueBounds ==
  ASSUME ChainOK, NEW first \in Heights, NEW last \in Heights, first <= last, Due(first, last)
  PROVE  last <= Len(chain)
<1>1. last \in first..last
  BY Bounds DEF Heights
<1> QED BY <1>1 DEF Due, ChainOK

LEMMA BatchTyped ==
  ASSUME TypeInv, NEW first \in Heights, NEW last \in Heights, first <= last, last <= Len(chain)
  PROVE  /\ Batch(first, last) \in States
         /\ \A k \in scanned \cup (first..last) : Batch(first, last).db.blocks[k] # NoBlock
<1> DEFINE S(h) == {s \in States : \A k \in scanned \cup (first..h) : s.db.blocks[k] # NoBlock}
           P == [h \in (first - 1)..last |-> S(h)]
           floor == SpendTrackingFloor(first, last)
<1>1. ChainOK /\ db \in Tables /\ scanned \subseteq Heights /\ \A k \in scanned : db.blocks[k] # NoBlock
  BY DEF TypeInv
<1>2. /\ first \in Nat \ {0} /\ last \in Nat /\ MaxHeight \in Nat /\ last <= MaxHeight
      /\ Heights = 1..MaxHeight /\ Len(chain) \in Nat
  BY <1>1, Bounds DEF Heights, ChainOK
<1>3. P \in [(first - 1)..last -> SUBSET States]
  OBVIOUS
<1>4. Start \in P[first - 1]
  <2>1. first - 1 \in (first - 1)..last /\ first..(first - 1) = {}
    BY <1>2
  <2>2. Start.db = db
    BY DEF Start
  <2>3. Start \in S(first - 1)
    BY <1>1, <2>1, <2>2, StartIs
  <2> QED BY <2>1, <2>3
<1>5. ASSUME NEW h \in first..last, NEW s \in P[h - 1]
      PROVE  PutBlock(s, h, h >= floor) \in P[h]
  <2>1. h \in Heights /\ h <= Len(chain) /\ h - 1 \in (first - 1)..last /\ h \in (first - 1)..last
    BY <1>2
  <2>2. (h >= floor) \in BOOLEAN
    BY <2>1, FloorIs
  <2>3. s \in S(h - 1)
    BY <2>1
  <2> HIDE DEF floor
  <2>4. /\ PutBlock(s, h, h >= floor) \in States
        /\ PutBlock(s, h, h >= floor).db.blocks = [s.db.blocks EXCEPT ![h] = Block(h)]
    BY <1>1, <2>1, <2>2, <2>3, PutBlockTyped, PutBlockBlocks
  <2>5. \A k \in scanned \cup (first..h) : k = h \/ k \in scanned \cup (first..(h - 1))
    BY <1>2
  <2>6. s.db.blocks \in [Heights -> Seq(SUBSET Txs)] /\ Block(h) # NoBlock
    BY <1>1, <2>1, <2>3, StoredBlock DEF States, Tables, Dbs
  <2>7. \A k \in scanned \cup (first..h) : k \in Heights
    BY <1>1, <1>2
  <2>8. \A k \in scanned \cup (first..h) : PutBlock(s, h, h >= floor).db.blocks[k] # NoBlock
    BY <2>3, <2>4, <2>5, <2>6, <2>7
  <2> QED BY <2>1, <2>4, <2>8
<1> HIDE DEF P
<1>6. Batch(first, last) \in P[last]
  BY <1>1, <1>3, <1>4, <1>5, BatchInduction DEF floor
<1>7. P[last] = S(last)
  BY <1>2 DEF P
<1> QED BY <1>6, <1>7

LEMMA MineGrows ==
  ASSUME joined \in BOOLEAN, joined' = joined \/ joined' = TRUE
  PROVE  Tables \subseteq Tables'
<1>1. Mine \subseteq Mine'
  BY DEF Mine
<1>2. ASSUME NEW d \in Tables PROVE d \in Tables'
  <2>1. d \in Dbs /\ Keys(d)
    BY DEF Tables
  <2>2. d \in Dbs'
    BY <2>1 DEF Dbs, Rows, MapRows, Heights
  <2>3. Keys(d)'
    BY <1>1, <2>1 DEF Keys, Heights, NoBlock
  <2> QED BY <2>2, <2>3 DEF Tables
<1> QED BY <1>2

LEMMA MineChain ==
  ASSUME ChainOK, NEW S \in SUBSET Txs, MineBlock(S)
  PROVE  ChainOK'
<1> DEFINE l == Len(chain)
<1>1. chain \in Seq(SUBSET Txs) /\ l \in Nat /\ DOMAIN chain = 1..l /\ l < MaxHeight
  BY DEF ChainOK, MineBlock
<1>2. /\ chain' \in Seq(SUBSET Txs) /\ Len(chain') = l + 1 /\ DOMAIN chain' = 1..(l + 1)
      /\ \A k \in DOMAIN chain : chain'[k] = chain[k]
      /\ chain'[l + 1] = S
  BY <1>1 DEF MineBlock
<1>3. \A k \in DOMAIN chain : \A u \in chain[k] : u \in OnChain
  BY <1>1 DEF OnChain
<1>4. /\ \A t \in S : t \notin OnChain
      /\ \A t \in S : \A u \in (S \cup OnChain) \ {t} : Inputs[t] \cap Inputs[u] = {}
  BY DEF MineBlock, Minable
<1>5. \A k \in DOMAIN chain' : k \in DOMAIN chain \/ k = l + 1
  BY <1>1, <1>2
<1>6. ASSUME NEW h \in DOMAIN chain', NEW k \in DOMAIN chain', NEW t \in chain'[h], NEW u \in chain'[k]
      PROVE  (t = u => h = k) /\ (t # u => Inputs[t] \cap Inputs[u] = {})
  <2>1. CASE h \in DOMAIN chain /\ k \in DOMAIN chain
    BY <1>2, <1>6, <2>1 DEF ChainOK
  <2>2. CASE h \in DOMAIN chain /\ k = l + 1
    <3>1. t \in OnChain /\ u \in S
      BY <1>2, <1>3, <1>6, <2>2
    <3> QED BY <1>4, <3>1
  <2>3. CASE h = l + 1 /\ k \in DOMAIN chain
    <3>1. u \in OnChain /\ t \in S
      BY <1>2, <1>3, <1>6, <2>3
    <3> QED BY <1>4, <3>1
  <2>4. CASE h = l + 1 /\ k = l + 1
    <3>1. t \in S /\ u \in S
      BY <1>2, <1>6, <2>4
    <3> QED BY <1>4, <2>4, <3>1
  <2> QED BY <1>5, <2>1, <2>2, <2>3, <2>4
<1>7. Len(chain') <= MaxHeight
  BY <1>1, <1>2, Bounds
<1> QED BY <1>2, <1>6, <1>7 DEF ChainOK

LEMMA ReorgChain ==
  ASSUME ChainOK, NEW h \in 0..MaxHeight, Reorg(h)
  PROVE  ChainOK'
<1>1. h \in Nat /\ h <= Len(chain) /\ Len(chain) \in Nat /\ DOMAIN chain = 1..Len(chain)
  BY DEF Reorg, ChainOK
<1>2. /\ chain' \in Seq(SUBSET Txs) /\ Len(chain') = h
      /\ DOMAIN chain' = 1..h /\ \A k \in 1..h : chain'[k] = chain[k]
  BY <1>1, BlockIs DEF Reorg
<1>3. \A k \in DOMAIN chain' : k \in DOMAIN chain /\ chain'[k] = chain[k]
  BY <1>1, <1>2
<1>4. Len(chain') <= MaxHeight
  BY <1>1, <1>2, Bounds
<1> QED BY <1>2, <1>3, <1>4 DEF ChainOK

LEMMA StateKept == ASSUME chain' = chain, ChainOK PROVE ChainOK'
BY DEF ChainOK

LEMMA TypeStep ==
  ASSUME TypeInv, [Next]_vars
  PROVE  TypeInv'
<1>1. /\ ChainOK /\ db \in Tables /\ joined \in BOOLEAN
      /\ scanned \subseteq Heights /\ \A h \in scanned : db.blocks[h] # NoBlock
  BY DEF TypeInv
<1>2. /\ MaxHeight \in Nat /\ Heights = 1..MaxHeight
  BY Bounds DEF Heights
<1>3. Heights' = Heights /\ NoBlock' = NoBlock
  BY DEF Heights, NoBlock
\* A step that leaves the account as it was.
<1>4. ASSUME joined' = joined, ChainOK', db' \in Tables, scanned' \subseteq Heights,
             \A h \in scanned' : db'.blocks[h] # NoBlock
      PROVE  TypeInv'
  <2>1. db' \in Tables'
    BY <1>1, <1>4, MineGrows
  <2> QED BY <1>1, <1>3, <1>4, <2>1 DEF TypeInv
<1>5. ASSUME NEW S \in SUBSET Txs, MineBlock(S) PROVE TypeInv'
  BY <1>1, <1>4, <1>5, MineChain DEF MineBlock
<1>6. ASSUME NEW h \in 0..MaxHeight, Reorg(h) PROVE TypeInv'
  BY <1>1, <1>4, <1>6, ReorgChain DEF Reorg
<1>7. ASSUME NEW h \in Int, TruncateTo(h) PROVE TypeInv'
  <2>1. /\ Truncated(db, h) \in Tables
        /\ \A k \in Heights : Truncated(db, h).blocks[k] = IF k > h THEN NoBlock ELSE db.blocks[k]
    BY <1>1, TruncatedIs
  <2>2. \A k \in scanned' : k \in scanned /\ k \in Heights /\ ~(k > h)
    BY <1>1, <1>2, <1>7 DEF TruncateTo
  <2> QED BY <1>1, <1>4, <1>7, <2>1, <2>2, StateKept DEF TruncateTo
<1>8. ASSUME NEW h \in 0..MaxHeight, QueueRescan(h) PROVE TypeInv'
  BY <1>1, <1>4, <1>8, StateKept DEF QueueRescan
<1>9. ASSUME NEW first \in Heights, NEW last \in Heights, Scan(first, last) PROVE TypeInv'
  <2>1. first <= last /\ last <= Len(chain)
    BY <1>1, <1>9, DueBounds DEF Scan
  <2> DEFINE batch == Batch(first, last)
  <2>2. batch \in States /\ \A k \in scanned \cup (first..last) : batch.db.blocks[k] # NoBlock
    BY <2>1, BatchTyped
  <2>3. db' = PruneSpends(batch.db) /\ scanned' = scanned \cup (first..last)
    BY <1>9 DEF Scan
  <2> HIDE DEF batch
  <2>4. db' \in Tables /\ db'.blocks = batch.db.blocks
    BY <2>2, <2>3, PruneIs DEF States
  <2>5. scanned' \subseteq Heights
    BY <1>1, <1>2, <2>3
  <2> QED BY <1>1, <1>4, <1>9, <2>2, <2>3, <2>4, <2>5, StateKept DEF Scan
<1>10. ASSUME AddAccount PROVE TypeInv'
  <2>1. db \in Tables'
    BY <1>1, <1>10, MineGrows DEF AddAccount
  <2> QED BY <1>1, <1>10, <2>1, StateKept DEF AddAccount, TypeInv
<1>11. ASSUME NEW t \in Txs, NEW h \in {0} \cup Heights, StoreDecryptedTx(t, h),
              UNCHANGED <<chain, scanned, joined>>
       PROVE  TypeInv'
  BY <1>1, <1>4, <1>11, StateKept, StoreDecryptedTxIs DEF StoredTx
<1>12. ASSUME NEW t \in Txs, Enhance(t) PROVE TypeInv'
  <2>1. \E h \in DOMAIN chain : t \in chain[h]
    BY <1>12 DEF Enhance, OnChain
  <2>2. HeightOf(t) \in DOMAIN chain
    BY <2>1 DEF HeightOf
  <2>3. HeightOf(t) \in Heights
    BY <1>1, <1>2, <2>2 DEF ChainOK
  <2> QED BY <1>11, <1>12, <2>3 DEF Enhance
<1>13. ASSUME NEW t \in Txs, NotRecognized(t) PROVE TypeInv'
  <2>1. db' \in Tables /\ db'.blocks = db.blocks
    BY <1>1, <1>13, RetrieveIs DEF NotRecognized, StoredTx
  <2> QED BY <1>1, <1>4, <1>13, <2>1, StateKept DEF NotRecognized
<1>14. ASSUME NEW t \in Txs, SeeUnmined(t) PROVE TypeInv'
  BY <1>11, <1>14 DEF SeeUnmined
<1>15. CASE UNCHANGED vars
  BY <1>1, <1>4, <1>15, StateKept DEF vars
<1>16. ASSUME NEW h \in 0..MaxHeight, Reorg(h) \/ Truncate(h) \/ QueueRescan(h) PROVE TypeInv'
  BY <1>2, <1>6, <1>7, <1>8, <1>16 DEF Truncate
<1>17. ASSUME NEW first \in Heights, NEW h \in 0..MaxHeight, SyncRewind(first, h) PROVE TypeInv'
  BY <1>2, <1>7, <1>17 DEF SyncRewind
<1> QED BY <1>5, <1>9, <1>10, <1>12, <1>13, <1>14, <1>15, <1>16, <1>17 DEF Next

LEMMA EmptyTables == EmptyDb \in Tables
<1>1. EmptyDb \in Dbs
  BY Bounds DEF EmptyDb, Dbs, NoBlock
<1>2. Keys(EmptyDb)
  BY DEF EmptyDb, Keys, NoBlock
<1> QED BY <1>1, <1>2 DEF Tables

LEMMA TypeInit == Init => TypeInv
<1> SUFFICES ASSUME Init PROVE TypeInv
  OBVIOUS
<1>1. chain = << >> /\ db = EmptyDb /\ scanned = {} /\ joined = FALSE
  BY DEF Init
<1>2. ChainOK
  BY <1>1, Bounds DEF ChainOK
<1> QED BY <1>1, <1>2, EmptyTables DEF TypeInv

LEMMA TypeIs == TypeInv => TypeOK
<1> SUFFICES ASSUME TypeInv PROVE TypeOK
  OBVIOUS
<1>1. ChainOK /\ db \in Dbs /\ Keys(db) /\ \A h \in scanned : db.blocks[h] # NoBlock
  BY DEF TypeInv, Tables
<1>2. db.links \subseteq db.received \X Txs
  BY <1>1 DEF Dbs, Keys
<1> QED BY <1>1, <1>2 DEF TypeOK, ChainOK, Dbs, Keys

LEMMA Typed == Spec => []TypeInv
BY TypeInit, TypeStep, PTL DEF Spec

\* The tables are well typed in every state and their foreign keys hold: no
\* row of the spend maps without its locator, no spend record without its
\* output, no retrieval of a transaction stored already, and a stored block at
\* every scanned height, whatever put_blocks, truncate_to_height,
\* store_decrypted_tx and add_account do in between.
THEOREM TypeCorrect == Spec => []TypeOK
BY Typed, TypeIs, PTL

-----------------------------------------------------------------------------
(* What is mined is stored, in every state *)

\* The tables after a batch that is not refused.
LEMMA BatchStored ==
  ASSUME TypeInv, AllStored(db), NEW first \in Heights, NEW last \in Heights,
         first <= last, last <= Len(chain), Batch(first, last).ok
  PROVE  AllStored(Batch(first, last).db)
<1> DEFINE S == {s \in States : s.ok => AllStored(s.db)}
           P == [h \in (first - 1)..last |-> S]
           floor == SpendTrackingFloor(first, last)
<1>1. ChainOK /\ db \in Tables
  BY DEF TypeInv
<1>2. /\ first \in Nat \ {0} /\ last \in Nat /\ MaxHeight \in Nat /\ last <= MaxHeight
      /\ Heights = 1..MaxHeight /\ Len(chain) \in Nat
  BY <1>1, Bounds DEF Heights, ChainOK
<1>3. P \in [(first - 1)..last -> SUBSET States] /\ \A h \in (first - 1)..last : P[h] = S
  OBVIOUS
<1>4. Start \in P[first - 1]
  <2>1. first - 1 \in (first - 1)..last /\ Start.db = db
    BY <1>2 DEF Start
  <2> QED BY <1>1, <1>3, <2>1, StartIs
<1>5. ASSUME NEW h \in first..last, NEW s \in P[h - 1]
      PROVE  PutBlock(s, h, h >= floor) \in P[h]
  <2>1. h \in Heights /\ h <= Len(chain) /\ h - 1 \in (first - 1)..last /\ h \in (first - 1)..last
    BY <1>2
  <2>2. (h >= floor) \in BOOLEAN
    BY <2>1, FloorIs
  <2>3. s \in S
    BY <1>3, <2>1
  <2> HIDE DEF floor
  <2> DEFINE q == PutBlock(s, h, h >= floor)
  <2>4. q \in States
    BY <1>1, <2>1, <2>2, <2>3, PutBlockTyped
  <2>5. ASSUME q.ok PROVE AllStored(q.db)
    <3>1. s.ok
      BY <2>5, PutBlockIs
    <3> QED BY <1>1, <2>1, <2>2, <2>3, <2>5, <3>1, PutBlockStored
  <2> QED BY <1>3, <2>1, <2>4, <2>5
<1> HIDE DEF P
<1>6. Batch(first, last) \in P[last]
  BY <1>1, <1>3, <1>4, <1>5, BatchInduction DEF floor
<1>7. last \in (first - 1)..last
  BY <1>2
<1> QED BY <1>3, <1>6, <1>7

LEMMA PruneStored ==
  ASSUME NEW d \in Tables, AllStored(d)
  PROVE  AllStored(PruneSpends(d))
BY PruneIs DEF AllStored, InBlock

LEMMA TruncateStored ==
  ASSUME NEW d \in Tables, NEW h \in Int, AllStored(d)
  PROVE  AllStored(Truncated(d, h))
<1> DEFINE q == Truncated(d, h)
<1>1. /\ \A k \in Heights : q.blocks[k] = IF k > h THEN NoBlock ELSE d.blocks[k]
      /\ \A t \in Txs : q.mined[t] = IF d.mined[t] > h THEN 0 ELSE d.mined[t]
      /\ q.locators = {row \in d.locators : row.at <= h}
  BY TruncatedIs
<1>2. d.mined \in [Txs -> 0..MaxHeight] /\ d.locators \subseteq Rows
  BY DEF Tables, Dbs
<1>3. \A k \in Heights : k \in Int
  BY DEF Heights
<1> HIDE DEF q
<1>4. \A k \in Heights : \A t : k <= h /\ InBlock(d, k, t) => InBlock(q, k, t)
  BY <1>1, <1>3 DEF InBlock
<1>5. ASSUME NEW row \in q.locators PROVE InBlock(q, row.at, row.tx)
  BY <1>1, <1>2, <1>4 DEF AllStored, Rows
<1>6. ASSUME NEW t \in Txs, q.mined[t] # 0 PROVE InBlock(q, q.mined[t], t)
  <2>1. q.mined[t] = d.mined[t] /\ ~(d.mined[t] > h)
    BY <1>1, <1>6
  <2>2. d.mined[t] \in Heights /\ d.mined[t] <= h
    BY <1>2, <1>6, <2>1, Bounds DEF Heights
  <2>3. InBlock(d, d.mined[t], t)
    BY <1>6, <2>1 DEF AllStored
  <2> QED BY <1>4, <2>1, <2>2, <2>3
<1> QED BY <1>5, <1>6 DEF AllStored, q

LEMMA StoredTxStored ==
  ASSUME db \in Tables, AllStored(db), NEW t \in Txs, NEW h \in {0} \cup Heights,
         h # 0 => InBlock(db, h, t), NEW q, StoredTx(t, h, q)
  PROVE  AllStored(q)
<1>1. \A k, u : InBlock(db, k, u) => InBlock(q, k, u)
  BY DEF StoredTx, InBlock
<1>2. \A row \in q.locators : InBlock(q, row.at, row.tx)
  BY <1>1 DEF StoredTx, AllStored
<1>3. ASSUME NEW u \in Txs, q.mined[u] # 0 PROVE InBlock(q, q.mined[u], u)
  <2>1. CASE q.mined[u] = db.mined[u]
    BY <1>1, <1>3, <2>1 DEF AllStored
  <2>2. CASE u = t /\ h # 0 /\ q.mined[u] = h
    BY <1>1, <2>2
  <2>3. CASE [at |-> q.mined[u], tx |-> u] \in db.locators
    BY <1>1, <2>3 DEF AllStored
  <2> QED BY <2>1, <2>2, <2>3 DEF StoredTx
<1> QED BY <1>2, <1>3 DEF AllStored

\* Where servers report only what was scanned, a reported block is stored.
LEMMA StoredStep ==
  ASSUME ~AheadOfScan, TypeInv, AllStored(db), [Next]_vars
  PROVE  AllStored(db)'
<1>1. ChainOK /\ db \in Tables /\ MaxHeight \in Nat /\ Heights = 1..MaxHeight
  BY Bounds DEF TypeInv, Heights
<1>2. CASE UNCHANGED db
  BY <1>2 DEF AllStored, InBlock, NoBlock, Content
<1>3. ASSUME NEW d, AllStored(d), db' = d PROVE AllStored(db)'
  BY <1>3 DEF AllStored, InBlock, NoBlock, Content
<1>4. ASSUME NEW h \in Int, TruncateTo(h) PROVE AllStored(db)'
  BY <1>1, <1>3, <1>4, TruncateStored DEF TruncateTo
<1>5. ASSUME NEW first \in Heights, NEW last \in Heights, Scan(first, last) PROVE AllStored(db)'
  <2>1. first <= last /\ last <= Len(chain)
    BY <1>1, <1>5, DueBounds DEF Scan
  <2> DEFINE batch == Batch(first, last)
  <2>2. batch.ok /\ db' = PruneSpends(batch.db)
    BY <1>5 DEF Scan
  <2>3. batch \in States /\ AllStored(batch.db)
    BY <2>1, <2>2, BatchTyped, BatchStored
  <2> HIDE DEF batch
  <2>4. AllStored(PruneSpends(batch.db))
    BY <2>3, PruneStored DEF States
  <2> QED BY <1>3, <2>2, <2>4
<1>6. ASSUME NEW t \in Txs, Enhance(t) PROVE AllStored(db)'
  <2> DEFINE h == HeightOf(t)
  <2>1. \E k \in DOMAIN chain : t \in chain[k]
    BY <1>6 DEF Enhance, OnChain
  <2>2. h \in DOMAIN chain /\ t \in chain[h]
    BY <2>1 DEF HeightOf
  <2>3. h \in Heights /\ h <= Len(chain)
    BY <1>1, <2>2 DEF ChainOK
  <2>4. db.blocks[h] = Block(h) /\ StoreDecryptedTx(t, h)
    BY <1>6 DEF Enhance
  <2> HIDE DEF h
  <2>5. InBlock(db, h, t)
    BY <1>1, <2>2, <2>3, <2>4, StoredBlock DEF InBlock
  <2>6. StoredTx(t, h, db')
    BY <1>1, <2>3, <2>4, StoreDecryptedTxIs
  <2>7. AllStored(db')
    BY <1>1, <2>3, <2>5, <2>6, StoredTxStored
  <2> QED BY <1>3, <2>7
<1>7. ASSUME NEW t \in Txs, NotRecognized(t) PROVE AllStored(db)'
  <2>1. StoredTx(t, 0, db')
    BY <1>1, <1>7, RetrieveIs DEF NotRecognized
  <2> QED BY <1>1, <1>3, <2>1, StoredTxStored
<1>8. ASSUME NEW t \in Txs, SeeUnmined(t) PROVE AllStored(db)'
  <2>1. StoredTx(t, 0, db')
    BY <1>1, <1>8, StoreDecryptedTxIs DEF SeeUnmined
  <2> QED BY <1>1, <1>3, <2>1, StoredTxStored
<1>9. ASSUME NEW S \in SUBSET Txs, MineBlock(S) PROVE AllStored(db)'
  BY <1>2, <1>9 DEF MineBlock
<1>10. ASSUME NEW h \in 0..MaxHeight, Reorg(h) \/ Truncate(h) \/ QueueRescan(h) PROVE AllStored(db)'
  BY <1>1, <1>2, <1>4, <1>10 DEF Reorg, Truncate, QueueRescan
<1>11. ASSUME NEW first \in Heights, NEW h \in 0..MaxHeight, SyncRewind(first, h) PROVE AllStored(db)'
  BY <1>1, <1>4, <1>11 DEF SyncRewind
<1>12. CASE AddAccount
  BY <1>2, <1>12 DEF AddAccount
<1>13. CASE UNCHANGED vars
  BY <1>2, <1>13 DEF vars
<1> QED BY <1>5, <1>6, <1>7, <1>8, <1>9, <1>10, <1>11, <1>12, <1>13 DEF Next

LEMMA StoredInit == Init => AllStored(db)
BY DEF Init, EmptyDb, AllStored

LEMMA StoredAlways ==
  ASSUME ~AheadOfScan
  PROVE  Spec => [](TypeInv /\ AllStored(db))
<1>1. Init => TypeInv /\ AllStored(db)
  BY TypeInit, StoredInit
<1>2. TypeInv /\ AllStored(db) /\ [Next]_vars => (TypeInv /\ AllStored(db))'
  BY TypeStep, StoredStep
<1> QED BY <1>1, <1>2, PTL DEF Spec

\* Where servers report transactions only of blocks the wallet has scanned, a
\* transaction with a mined_height is in the block stored at that height:
\* truncate_to_height unmines what it takes away, and the locators from which
\* put_blocks and store_decrypted_tx take heights are of stored blocks.
THEOREM MinedAreStored ==
  ASSUME ~AheadOfScan
  PROVE  Spec => []MinedIsStored
<1>1. TypeInv /\ AllStored(db) => MinedIsStored
  BY DEF AllStored, InBlock, MinedIsStored
<1> QED BY <1>1, StoredAlways, PTL

-----------------------------------------------------------------------------
(* Blocks of the best chain are not refused *)

\* The stored blocks are of the best chain.
OnBest(d) == \A h \in Heights : d.blocks[h] # NoBlock => h <= Len(chain) /\ d.blocks[h] = Block(h)

LEMMA InBest ==
  ASSUME ChainOK, NEW d \in Tables, OnBest(d), NEW k \in Heights, NEW t, InBlock(d, k, t)
  PROVE  k \in DOMAIN chain /\ t \in chain[k]
BY StoredBlock DEF InBlock, OnBest

\* No locator of another height, and no other mined spend of what the block spends.
LEMMA PutBlockAccepted ==
  ASSUME ChainOK, NEW s \in States, NEW h \in Heights, h <= Len(chain), NEW tracked \in BOOLEAN,
         s.ok, AllStored(s.db), OnBest(s.db)
  PROVE  PutBlock(s, h, tracked).ok /\ OnBest(PutBlock(s, h, tracked).db)
<1> DEFINE d == s.db
<1>1. /\ d \in Tables /\ d \in Dbs /\ Keys(d) /\ h \in DOMAIN chain /\ chain[h] \subseteq Txs
      /\ Block(h) # NoBlock
  BY StoredBlock DEF States, Tables
<1> HIDE DEF d
<1>2. d.blocks[h] \in {NoBlock, Block(h)}
  BY DEF OnBest, d
<1>3. ASSUME NEW row \in d.locators, row.tx \in chain[h] PROVE row.at = h
  <2>1. row.at \in Heights /\ InBlock(d, row.at, row.tx)
    BY <1>1, <1>3 DEF AllStored, Dbs, Rows, d
  <2>2. row.at \in DOMAIN chain /\ row.tx \in chain[row.at]
    BY <1>1, <2>1, InBest DEF d
  <2> QED BY <1>1, <1>3, <2>2 DEF ChainOK
<1>4. ASSUME NEW x \in Matched(s, h), NEW t \in LinkedBy(d, x[1]) \ {x[2]} PROVE d.mined[t] = 0
  <2>1. x[2] \in chain[h] /\ x[1] \in Inputs[x[2]]
    BY <1>4 DEF Matched, InputsOf
  <2>2. t \in Txs /\ x[1] \in Inputs[t] /\ t # x[2]
    BY <1>1, <1>4 DEF LinkedBy, Keys
  <2>3. SUFFICES ASSUME d.mined[t] # 0 PROVE FALSE
    OBVIOUS
  <2>4. d.mined[t] \in Heights
    BY <1>1, <2>2, <2>3, Bounds DEF Dbs, Heights
  <2>5. InBlock(d, d.mined[t], t)
    BY <2>2, <2>3 DEF AllStored, d
  <2>6. d.mined[t] \in DOMAIN chain /\ t \in chain[d.mined[t]]
    BY <1>1, <2>4, <2>5, InBest DEF d
  <2>7. Inputs[t] \cap Inputs[x[2]] = {}
    BY <1>1, <2>1, <2>2, <2>6 DEF ChainOK
  <2> QED BY <2>1, <2>2, <2>7
<1>5. NoCollision(d, Matched(s, h)) /\ LocatorsFree(d, h, chain[h])
  BY <1>3, <1>4 DEF NoCollision, LocatorsFree
<1>6. PutBlock(s, h, tracked).ok
  BY <1>2, <1>5, PutBlockIs DEF d
<1>7. PutBlock(s, h, tracked).db.blocks = [d.blocks EXCEPT ![h] = Block(h)]
  BY PutBlockBlocks DEF d
<1>8. d.blocks \in [Heights -> Seq(SUBSET Txs)]
  BY <1>1 DEF Dbs
<1>9. OnBest(PutBlock(s, h, tracked).db)
  BY <1>7, <1>8 DEF OnBest, d
<1> QED BY <1>6, <1>9

LEMMA BatchAccepted ==
  ASSUME TypeInv, AllStored(db), OnBest(db), NEW first \in Heights, NEW last \in Heights,
         first <= last, last <= Len(chain)
  PROVE  Batch(first, last).ok
<1> DEFINE S == {s \in States : s.ok /\ AllStored(s.db) /\ OnBest(s.db)}
           P == [h \in (first - 1)..last |-> S]
           floor == SpendTrackingFloor(first, last)
<1>1. ChainOK /\ db \in Tables
  BY DEF TypeInv
<1>2. /\ first \in Nat \ {0} /\ last \in Nat /\ MaxHeight \in Nat /\ last <= MaxHeight
      /\ Heights = 1..MaxHeight /\ Len(chain) \in Nat
  BY <1>1, Bounds DEF Heights, ChainOK
<1>3. P \in [(first - 1)..last -> SUBSET States] /\ \A h \in (first - 1)..last : P[h] = S
  OBVIOUS
<1>4. Start \in P[first - 1]
  <2>1. first - 1 \in (first - 1)..last /\ Start.db = db /\ Start.ok
    BY <1>2 DEF Start
  <2> QED BY <1>1, <1>3, <2>1, StartIs
<1>5. ASSUME NEW h \in first..last, NEW s \in P[h - 1]
      PROVE  PutBlock(s, h, h >= floor) \in P[h]
  <2>1. h \in Heights /\ h <= Len(chain) /\ h - 1 \in (first - 1)..last /\ h \in (first - 1)..last
    BY <1>2
  <2>2. (h >= floor) \in BOOLEAN
    BY <2>1, FloorIs
  <2>3. s \in S
    BY <1>3, <2>1
  <2> HIDE DEF floor
  <2>4. PutBlock(s, h, h >= floor) \in S
    BY <1>1, <2>1, <2>2, <2>3, PutBlockTyped, PutBlockAccepted, PutBlockStored
  <2> QED BY <1>3, <2>1, <2>4
<1> HIDE DEF P
<1>6. Batch(first, last) \in P[last]
  BY <1>1, <1>3, <1>4, <1>5, BatchInduction DEF floor
<1>7. last \in (first - 1)..last
  BY <1>2
<1> QED BY <1>3, <1>6, <1>7

\* Where servers report only what was scanned, put_blocks accepts every batch
\* of the best chain while the blocks it holds are of that chain: no locator
\* is left of another block with the same transaction, and no spend record of
\* a mined transaction collides with a spend in the batch.
THEOREM BestChainAccepted ==
  ASSUME ~AheadOfScan
  PROVE  Spec => []NeverRefused
<1>1. ASSUME TypeInv, AllStored(db) PROVE NeverRefused
  <2>1. SUFFICES ASSUME \A h \in Stored : h <= Len(chain) /\ db.blocks[h] = Block(h),
                        NEW first \in Heights, NEW last \in Heights,
                        first <= last, Due(first, last)
                 PROVE  Batch(first, last).ok
    BY DEF NeverRefused
  <2>2. OnBest(db)
    BY <2>1 DEF OnBest, Stored
  <2>3. last <= Len(chain)
    BY <1>1, <2>1, DueBounds DEF TypeInv
  <2> QED BY <1>1, <2>1, <2>2, <2>3, BatchAccepted
<1>2. TypeInv /\ AllStored(db) => NeverRefused
  BY <1>1
<1> QED BY <1>2, StoredAlways, PTL
-----------------------------------------------------------------------------
(* Blocks that agree *)

Agree(b, c) == \A i \in DOMAIN b \cap DOMAIN c : b[i] = c[i]

\* The block stored at h is of one chain with every other.
InLine(d, h) == \A k \in Heights : d.blocks[k] # NoBlock => Agree(d.blocks[h], d.blocks[k])

\* A chain has no transaction twice, spends nothing twice, and spends only what
\* exists, notes from an earlier block.
Valid(c) ==
  /\ \A i, k \in DOMAIN c : \A t \in c[i], u \in c[k] :
       /\ t = u => i = k
       /\ t # u => Inputs[t] \cap Inputs[u] = {}
  /\ \A i \in DOMAIN c : \A t \in c[i] : \A n \in Inputs[t] :
       \E k \in 1..i : Creator(n) \in c[k] /\ (n \notin Transparent => k < i)

ValidBlocks(d) == \A h \in Heights : d.blocks[h] # NoBlock => Valid(d.blocks[h])

LEMMA BlockShape ==
  ASSUME NEW d \in Tables, NEW h \in Heights, d.blocks[h] # NoBlock
  PROVE  /\ h \in Nat \ {0} /\ DOMAIN d.blocks[h] = 1..h /\ Content(d.blocks[h]) = d.blocks[h][h]
         /\ \A i \in 1..h : d.blocks[h][i] \subseteq Txs
<1>1. d.blocks[h] \in Seq(SUBSET Txs) /\ Len(d.blocks[h]) = h
  BY DEF Tables, Dbs, Keys
<1>2. h \in Nat \ {0}
  BY Bounds DEF Heights
<1> QED BY <1>1, <1>2 DEF Content

\* A transaction of a block in line, at its height i, and one of any stored block.
LEMMA OnceInLine ==
  ASSUME NEW d \in Tables, ValidBlocks(d), NEW h \in Heights, d.blocks[h] # NoBlock, InLine(d, h),
         NEW i \in 1..h, NEW t \in d.blocks[h][i], NEW k \in Heights, NEW u, InBlock(d, k, u)
  PROVE  (t = u => i = k) /\ (t # u => Inputs[t] \cap Inputs[u] = {})
<1> DEFINE b == d.blocks[h]
           c == d.blocks[k]
<1>1. c # NoBlock /\ u \in c[k] /\ DOMAIN b = 1..h /\ DOMAIN c = 1..k /\ h \in Nat /\ k \in Nat \ {0} /\ i \in Nat
  BY BlockShape DEF InBlock
<1>2. Agree(b, c) /\ Valid(b) /\ Valid(c)
  BY <1>1 DEF InLine, ValidBlocks
<1>3. CASE k <= h
  <2>1. k \in DOMAIN b /\ k \in DOMAIN c /\ i \in DOMAIN b
    BY <1>1, <1>3
  <2>2. u \in b[k]
    BY <1>1, <1>2, <2>1 DEF Agree
  <2> QED BY <1>2, <2>1, <2>2 DEF Valid
<1>4. CASE h < k
  <2>1. i \in DOMAIN b /\ i \in DOMAIN c /\ k \in DOMAIN c
    BY <1>1, <1>4
  <2>2. t \in c[i]
    BY <1>2, <2>1 DEF Agree
  <2> QED BY <1>1, <1>2, <2>1, <2>2 DEF Valid
<1> QED BY <1>1, <1>3, <1>4

LEMMA OnceEach ==
  ASSUME NEW d \in Tables, ValidBlocks(d), NEW h \in Heights, InLine(d, h), NEW t, InBlock(d, h, t),
         NEW k \in Heights, NEW u, InBlock(d, k, u)
  PROVE  (t = u => h = k) /\ (t # u => Inputs[t] \cap Inputs[u] = {})
<1>1. d.blocks[h] # NoBlock /\ h \in 1..h /\ t \in d.blocks[h][h]
  BY BlockShape DEF InBlock
<1> QED BY <1>1, OnceInLine

\* What a block in line spends was created in one place, of one chain with it.
LEMMA CreatedOnce ==
  ASSUME NEW d \in Tables, ValidBlocks(d), NEW h \in Heights, InLine(d, h), NEW t, InBlock(d, h, t),
         NEW n \in Inputs[t]
  PROVE  \E j \in 1..h :
           /\ j \in Heights /\ (n \notin Transparent => j < h)
           /\ Creator(n) \in d.blocks[h][j]
           /\ d.blocks[j] # NoBlock => InLine(d, j) /\ InBlock(d, j, Creator(n))
           /\ \A k \in Heights : InBlock(d, k, Creator(n)) => k = j
<1> DEFINE b == d.blocks[h]
<1>1. b # NoBlock /\ h \in Nat \ {0} /\ t \in b[h] /\ DOMAIN b = 1..h
  BY BlockShape DEF InBlock
<1>2. Valid(b)
  BY <1>1 DEF ValidBlocks
<1>3. PICK j \in 1..h : Creator(n) \in b[j] /\ (n \notin Transparent => j < h)
  BY <1>1, <1>2 DEF Valid
<1>4. j \in Heights
  BY <1>1, <1>3, Bounds DEF Heights
<1>5. ASSUME d.blocks[j] # NoBlock PROVE InLine(d, j) /\ InBlock(d, j, Creator(n))
  <2> DEFINE c == d.blocks[j]
  <2>1. DOMAIN c = 1..j /\ Content(c) = c[j] /\ j \in Nat \ {0}
    BY <1>4, <1>5, BlockShape
  <2>2. \A i \in 1..j : i \in 1..h /\ c[i] = b[i]
    <3>1. Agree(b, c)
      BY <1>4, <1>5 DEF InLine
    <3>2. \A i \in 1..j : i \in 1..h
      BY <1>1, <1>3, <2>1
    <3> QED BY <1>1, <2>1, <3>1, <3>2 DEF Agree
  <2>3. InBlock(d, j, Creator(n))
    <3>1. j \in 1..j
      BY <2>1
    <3> QED BY <1>3, <1>5, <2>1, <2>2, <3>1 DEF InBlock
  <2>4. ASSUME NEW k \in Heights, d.blocks[k] # NoBlock PROVE Agree(c, d.blocks[k])
    <3>1. Agree(b, d.blocks[k])
      BY <2>4 DEF InLine
    <3> QED BY <1>1, <2>1, <2>2, <3>1 DEF Agree
  <2> QED BY <2>3, <2>4 DEF InLine
<1>6. \A k \in Heights : InBlock(d, k, Creator(n)) => k = j
  BY <1>1, <1>3, OnceInLine
<1> QED BY <1>3, <1>4, <1>5, <1>6

\* Two stored blocks are of one chain when the longer begins with the shorter.
LEMMA ChainInLine ==
  ASSUME db \in Tables, OneChain, NEW h \in Stored
  PROVE  InLine(db, h)
<1> SUFFICES ASSUME NEW k \in Heights, db.blocks[k] # NoBlock PROVE Agree(db.blocks[h], db.blocks[k])
  BY DEF InLine
<1>1. h \in Heights /\ db.blocks[h] # NoBlock /\ k \in Stored /\ h \in Nat /\ k \in Nat
  BY Bounds DEF Stored, Heights
<1>2. ASSUME NEW i \in Stored, NEW j \in Stored, i < j
      PROVE  \A m \in 1..i : m \in 1..j /\ db.blocks[i][m] = db.blocks[j][m]
  <2>1. i \in Nat /\ j \in Nat /\ db.blocks[i] = SubSeq(db.blocks[j], 1, i)
        /\ db.blocks[j] \in Seq(SUBSET Txs) /\ Len(db.blocks[j]) = j
    <3>1. db.blocks[i] = SubSeq(db.blocks[j], 1, i)
      BY <1>2 DEF OneChain
    <3>2. i \in Heights /\ j \in Heights /\ db.blocks[j] # NoBlock
      BY DEF Stored
    <3>3. db.blocks[j] \in Seq(SUBSET Txs) /\ Len(db.blocks[j]) = j
      BY <3>2 DEF Tables, Dbs, Keys
    <3> QED BY <3>1, <3>2, <3>3, Bounds DEF Heights
  <2> QED BY <1>2, <2>1
<1>3. DOMAIN db.blocks[h] = 1..h /\ DOMAIN db.blocks[k] = 1..k
  BY <1>1, BlockShape
<1>4. CASE h < k
  BY <1>1, <1>2, <1>3, <1>4 DEF Agree
<1>5. CASE k < h
  BY <1>1, <1>2, <1>3, <1>5 DEF Agree
<1>6. CASE h = k
  BY <1>6 DEF Agree
<1> QED BY <1>1, <1>4, <1>5, <1>6

-----------------------------------------------------------------------------
(* What is known of the spends in the blocks scanned *)

\* The wallet counts the output n as its own: a note once its receipt is scanned,
\* a transparent output as soon as it is stored.
Has(d, done, n) == IF n \in Transparent THEN n \in d.received
                                        ELSE \E j \in done : InBlock(d, j, Creator(n))

RowOf(n, h, t) == [note |-> n, at |-> h, tx |-> t]
Linked(d, h, t, n) == <<n, t>> \in d.links /\ d.mined[t] = h

\* The spend of n by t in the block at h is recorded, or remembered for when n is
\* received, or searched for.
Caught(d, done, h, t, n) ==
  \/ Linked(d, h, t, n)
  \/ RowOf(n, h, t) \in d.nfmap /\ ~Has(d, done, n)
  \/ /\ n \in Transparent /\ n \in d.search /\ LinkedBy(d, n) = {}
     /\ InBlock(d, h, Creator(n))

\* What scanned blocks pay is received, and counts as mined there.
Received(d, done) ==
  \A h \in done : InLine(d, h) => \A t \in Content(d.blocks[h]) : \A n \in Outputs[t] \cap Mine :
    /\ n \in d.received /\ (n \notin Transparent => n \in d.nfs)
    /\ d.mined[t] = h

\* Of the outputs K: every spend in a scanned block is caught, and the stored
\* spends of outputs not yet received are by transactions that pay the wallet.
Spends(K, d, done) ==
  \A h \in done : InLine(d, h) => \A t \in Content(d.blocks[h]) : \A n \in Inputs[t] \cap Mine \cap K :
    Caught(d, done, h, t, n)
Pays(K, d) == \A n, t : <<n, t>> \in d.spendmap /\ n \in K => Outputs[t] \cap Mine # {}

Followed(K, d, done) ==
  /\ done \subseteq Heights /\ \A h \in done : d.blocks[h] # NoBlock
  /\ AllStored(d) /\ ValidBlocks(d)
  /\ Received(d, done) /\ Spends(K, d, done) /\ Pays(K, d)

\* For the notes, nothing more is asked of the transactions; a transparent output
\* has one transaction that may spend it, and that one pays the wallet, or spends
\* nothing else of the wallet's and is not seen before it is mined.
Traceable(K) ==
  /\ K \subseteq Notes
  /\ \A n \in K \cap Transparent : \A t, u \in Txs : n \in Inputs[t] /\ n \in Inputs[u] => t = u
  /\ \A t \in Txs : \A n \in Inputs[t] \cap K \cap Transparent :
       Outputs[t] \ Late # {} \/ (Inputs[t] = {n} /\ t \notin Unconfirmed)

Extends(d, q) == \A k \in Heights : d.blocks[k] # NoBlock => q.blocks[k] = d.blocks[k]

\* What is mined in a block in line is mined there.
LEMMA MinedHere ==
  ASSUME NEW q \in Tables, ValidBlocks(q), AllStored(q), NEW h \in Heights, InLine(q, h),
         NEW t, InBlock(q, h, t), q.mined[t] # 0
  PROVE  q.mined[t] = h
<1>1. t \in Txs
  BY BlockShape DEF InBlock, Heights
<1>2. q.mined[t] \in Heights /\ InBlock(q, q.mined[t], t)
  BY <1>1, Bounds DEF AllStored, Tables, Dbs, Heights
<1> QED BY <1>2, OnceEach

\* Tables that keep the blocks stored and the transactions mined.
LEMMA Kept ==
  ASSUME NEW d \in Tables, NEW q \in Tables, Extends(d, q), NEW h \in Heights, d.blocks[h] # NoBlock,
         InLine(q, h)
  PROVE  InLine(d, h) /\ \A t : InBlock(q, h, t) <=> InBlock(d, h, t)
BY DEF Extends, InLine, InBlock

\* What put_blocks does to the tables with the block at h.
After(s, h, tracked, q) ==
  /\ q \in Tables /\ AllStored(q) /\ ValidBlocks(q) /\ Extends(s.db, q)
  /\ q.blocks[h] = Block(h) /\ Block(h) # NoBlock /\ \A k \in Heights \ {h} : q.blocks[k] = s.db.blocks[k]
  /\ \A t : InBlock(q, h, t) <=> t \in chain[h]
  /\ q.received = s.db.received \cup Receipts(h)
  /\ q.nfs = s.db.nfs \cup (Receipts(h) \ Transparent)
  /\ q.links = s.db.links \cup Matched(s, h) \cup Found(s.db, h)
  /\ q.search = (s.db.search \ {x[1] : x \in Matched(s, h)}) \cup (Receipts(h) \cap Transparent)
  /\ q.spendmap = s.db.spendmap
  /\ \A row \in s.db.nfmap : row.note \notin {u[1] : u \in Missed(s, h)} => row \in q.nfmap
  /\ tracked => \A n, t : <<n, t>> \in Missed(s, h) => RowOf(n, h, t) \in q.nfmap
  /\ \A t \in Ours(s, h) : q.mined[t] = h
  /\ \A t \in Txs : LocatedAt(s.db, t, Receipts(h)) # {} \/ s.db.mined[t] # 0 => q.mined[t] # 0

LEMMA PutBlockAfter ==
  ASSUME ChainOK, Valid(chain), NEW s \in States, NEW h \in Heights, h <= Len(chain), NEW tracked \in BOOLEAN,
         AllStored(s.db), ValidBlocks(s.db), PutBlock(s, h, tracked).ok
  PROVE  /\ s.ok /\ After(s, h, tracked, PutBlock(s, h, tracked).db)
         /\ PutBlock(s, h, tracked) \in States
         /\ PutBlock(s, h, tracked).unspent = (s.unspent \ {x[1] : x \in Matched(s, h)}) \cup Receipts(h)
<1> DEFINE d == s.db
           rows == PutRows(s, h)
           new == Track(rows, h, chain[h], Missed(s, h))
           p == PutBlock(s, h, tracked)
           q == p.db
<1>1. s.ok /\ d.blocks[h] \in {NoBlock, Block(h)}
  BY PutBlockIs
<1>2. q = (IF tracked THEN new ELSE rows) /\ p.unspent = (s.unspent \ {x[1] : x \in Matched(s, h)}) \cup Receipts(h)
  BY PutBlockIs
<1>3. p \in States /\ AllStored(q)
  BY PutBlockTyped, PutBlockStored
<1>4. rows \in Tables /\ Put(s, h, rows) /\ Added(s, h, rows)
  BY RowsPut
<1>5. /\ Tracked(rows, h, new)
      /\ new.nfmap = {row \in rows.nfmap : row.note \notin {u[1] : u \in Missed(s, h)}}
                     \cup {[note |-> u[1], at |-> h, tx |-> u[2]] : u \in Missed(s, h)}
  BY <1>4, TrackIs
<1> HIDE DEF new, rows
<1>6. /\ q.blocks = rows.blocks /\ q.mined = rows.mined /\ q.received = rows.received
      /\ q.links = rows.links /\ q.spendmap = rows.spendmap /\ q.nfs = rows.nfs /\ q.search = rows.search
  BY <1>2, <1>5 DEF Tracked
<1>7. /\ \A row \in d.nfmap : row.note \notin {u[1] : u \in Missed(s, h)} => row \in q.nfmap
      /\ tracked => \A n, t : <<n, t>> \in Missed(s, h) => RowOf(n, h, t) \in q.nfmap
  <2>1. rows.nfmap = d.nfmap
    BY <1>4 DEF Put
  <2>2. ASSUME NEW n, NEW t, <<n, t>> \in Missed(s, h) PROVE RowOf(n, h, t) \in new.nfmap
    <3>1. RowOf(n, h, t) = [note |-> <<n, t>>[1], at |-> h, tx |-> <<n, t>>[2]]
      BY DEF RowOf
    <3> QED BY <1>5, <2>2, <3>1
  <2> QED BY <1>2, <1>5, <2>1, <2>2
<1>8. d \in Tables /\ d.blocks \in [Heights -> Seq(SUBSET Txs)] /\ h \in Nat \ {0} /\ 0 \notin Heights
  <2>1. d \in Tables
    BY DEF States
  <2>2. h \in Nat \ {0} /\ 0 \notin Heights
    BY Bounds DEF Heights
  <2> QED BY <2>1, <2>2 DEF Tables, Dbs
<1>9. q.blocks = [d.blocks EXCEPT ![h] = Block(h)]
  BY <1>4, <1>6 DEF Put
<1>10. /\ q.blocks[h] = Block(h) /\ Block(h) # NoBlock /\ Extends(d, q)
       /\ \A k \in Heights \ {h} : q.blocks[k] = d.blocks[k]
  BY <1>1, <1>8, <1>9, StoredBlock DEF Extends
<1>11. \A t : InBlock(q, h, t) <=> t \in chain[h]
  BY <1>10, StoredBlock DEF InBlock
<1>12. ValidBlocks(q)
  <2>1. Valid(Block(h))
    <3>1. DOMAIN Block(h) = 1..h /\ \A k \in 1..h : Block(h)[k] = chain[k]
      BY <1>8, BlockIs
    <3>2. \A k \in 1..h : k \in DOMAIN chain
      BY <1>8 DEF ChainOK
    <3> QED BY <3>1, <3>2, <1>8 DEF Valid
  <2> QED BY <1>10, <2>1 DEF ValidBlocks
<1>13. \A t \in Ours(s, h) : q.mined[t] = h
  <2>1. Ours(s, h) \subseteq Txs
    BY Pieces
  <2> QED BY <1>4, <1>6, <2>1 DEF Added
<1>14. ASSUME NEW t \in Txs, LocatedAt(d, t, Receipts(h)) # {} \/ d.mined[t] # 0 PROVE q.mined[t] # 0
  <2>1. CASE t \in Ours(s, h)
    BY <1>8, <1>13, <2>1
  <2>2. CASE t \notin Ours(s, h) /\ LocatedAt(d, t, Receipts(h)) # {}
    <3>1. q.mined[t] \in LocatedAt(d, t, Receipts(h))
      BY <1>4, <1>6, <2>2 DEF Added
    <3>2. q.mined[t] \in Heights
      BY <1>8, <3>1, LocatedAre
    <3> QED BY <1>8, <3>2
  <2>3. CASE t \notin Ours(s, h) /\ LocatedAt(d, t, Receipts(h)) = {}
    BY <1>4, <1>6, <1>14, <2>3 DEF Added
  <2> QED BY <2>1, <2>2, <2>3
<1>15. /\ q.received = d.received \cup Receipts(h)
       /\ q.nfs = d.nfs \cup (Receipts(h) \ Transparent)
       /\ q.links = d.links \cup Matched(s, h) \cup Found(d, h)
       /\ q.search = (d.search \ {x[1] : x \in Matched(s, h)}) \cup (Receipts(h) \cap Transparent)
       /\ q.spendmap = d.spendmap
  BY <1>4, <1>6 DEF Added
<1>16. q \in Tables
  BY <1>3 DEF States
<1> HIDE DEF p
<1> QED BY <1>1, <1>2, <1>3, <1>7, <1>10, <1>11, <1>12, <1>13, <1>14, <1>15, <1>16 DEF After, p

\* During a batch, an output that the wallet has is unspent or has a mined spend.
Aware(K, s, done) ==
  \A n \in K \cap Mine :
    (IF n \in Transparent THEN n \in s.db.received
                          ELSE \E j \in done : InLine(s.db, j) /\ InBlock(s.db, j, Creator(n)))
    => n \in s.unspent \/ MinedSpend(s.db, n)

\* In the block put, a spend of an output the wallet has is recorded.
LEMMA PutLinked ==
  ASSUME NEW s \in States, NEW h \in Heights, NEW tracked \in BOOLEAN, AllStored(s.db),
         NEW q, After(s, h, tracked, q), InLine(q, h), NEW t \in chain[h],
         NEW n \in Inputs[t] \cap Notes, n \in s.unspent \/ MinedSpend(s.db, n)
  PROVE  Linked(q, h, t, n)
<1> DEFINE d == s.db
<1>1. q \in Tables /\ AllStored(q) /\ ValidBlocks(q) /\ Extends(d, q)
  BY DEF After
<1>2. d \in Tables /\ InBlock(q, h, t)
  BY DEF After, States
<1>3. CASE n \in s.unspent
  <2>1. <<n, t>> \in Matched(s, h)
    BY <1>3 DEF Matched, InputsOf
  <2>2. t \in Ours(s, h)
    BY <2>1 DEF Ours
  <2>3. q.links = d.links \cup Matched(s, h) \cup Found(d, h) /\ q.mined[t] = h
    BY <2>2 DEF After
  <2> QED BY <2>1, <2>3 DEF Linked
<1>4. CASE MinedSpend(d, n)
  <2>1. PICK u : <<n, u>> \in d.links /\ d.mined[u] # 0
    BY <1>4 DEF MinedSpend, LinkedBy
  <2>2. u \in Txs /\ n \in Inputs[u]
    BY <1>2, <2>1 DEF Tables, Dbs, Keys
  <2>3. d.mined[u] \in Heights /\ InBlock(d, d.mined[u], u)
    BY <1>2, <2>1, <2>2, Bounds DEF AllStored, Tables, Dbs, Heights
  <2>4. InBlock(q, d.mined[u], u)
    BY <1>1, <2>3 DEF Extends, InBlock
  <2>5. u = t
    BY <1>1, <1>2, <2>2, <2>3, <2>4, OnceEach
  <2>6. q.mined[t] # 0 /\ <<n, t>> \in q.links
    BY <2>1, <2>2, <2>5 DEF After
  <2> QED BY <1>1, <1>2, <2>6, MinedHere DEF Linked
<1> QED BY <1>3, <1>4

\* What was remembered of a spend is found when the output is received.
LEMMA FoundRow ==
  ASSUME NEW d \in Tables, NEW n, NEW h, NEW t, RowOf(n, h, t) \in d.nfmap, NEW got, n \in got,
         Claims(d, n) = {}
  PROVE  t \in Detected(d, n) /\ LocatedAt(d, t, got) # {}
<1> DEFINE row == RowOf(n, h, t)
<1>1. row.note = n /\ row.tx = t /\ row.at = h
  BY DEF RowOf
<1>2. row \in Remembered(d, n)
  BY <1>1 DEF Remembered
<1>3. t \in Detected(d, n)
  BY <1>1, <1>2 DEF Detected
<1>4. row.at \in LocatedAt(d, t, got)
  BY <1>1 DEF LocatedAt
<1> QED BY <1>3, <1>4

\* The only transaction that can be found for a transparent output.
LEMMA OnlySpender ==
  ASSUME NEW K, Traceable(K), NEW d \in Tables, NEW n \in K \cap Transparent, NEW t \in Txs, n \in Inputs[t]
  PROVE  /\ \A u \in Detected(d, n) : u = t
         /\ Claims(d, n) # {} => t \in Detected(d, n) /\ <<n, t>> \in d.spendmap
<1>1. n \in Notes
  BY DEF Traceable
<1>2. \A u \in Detected(d, n) : u = t
  BY <1>1, DetectedAre DEF Traceable
<1>3. ASSUME Claims(d, n) # {} PROVE t \in Detected(d, n) /\ <<n, t>> \in d.spendmap
  <2>1. PICK u : u \in Claims(d, n)
    BY <1>3
  <2>2. Detected(d, n) = Claims(d, n)
    BY <1>3 DEF Detected
  <2>3. u = t
    BY <1>2, <2>1, <2>2
  <2>4. <<n, u>> \in d.spendmap
    BY <2>1, ClaimsAre
  <2> QED BY <2>1, <2>2, <2>3, <2>4
<1> QED BY <1>2, <1>3

LEMMA NoClaims ==
  ASSUME NEW d \in Tables, NEW n, n \notin Transparent
  PROVE  Claims(d, n) = {}
<1>1. \A t : <<n, t>> \notin d.spendmap
  BY DEF Tables, Dbs
<1> QED BY <1>1, ClaimsAre

\* A receipt in the block put is that of the transaction that creates the output.
LEMMA ReceiptIs ==
  ASSUME ChainOK, NEW h \in Heights, h <= Len(chain), NEW n \in Mine
  PROVE  n \in Receipts(h) <=> Creator(n) \in chain[h]
<1>1. n \in Notes /\ chain[h] \in SUBSET Txs
  BY StoredBlock DEF Mine
<1>2. Creator(n) \in Txs /\ n \in Outputs[Creator(n)]
  BY <1>1, CreatorIs
<1>3. \A t \in Txs : n \in Outputs[t] => t = Creator(n)
  BY <1>1, <1>2, Bounds
<1> QED BY <1>1, <1>2, <1>3 DEF Receipts

\* The spends of the block put are caught.
LEMMA PutNew ==
  ASSUME NEW K, Traceable(K), ChainOK, NEW s \in States, NEW h \in Heights, h <= Len(chain),
         NEW tracked \in BOOLEAN, NEW done, Followed(K, s.db, done), Aware(K, s, done), h \notin done,
         tracked \/ \A j \in Heights : j < h => j \in done,
         NEW q, After(s, h, tracked, q), InLine(q, h),
         NEW t \in chain[h], NEW n \in Inputs[t] \cap Mine \cap K
  PROVE  Caught(q, done \cup {h}, h, t, n)
<1> DEFINE d == s.db
<1>1. /\ q \in Tables /\ AllStored(q) /\ ValidBlocks(q) /\ Extends(d, q) /\ InBlock(q, h, t)
      /\ \A k \in Heights \ {h} : q.blocks[k] = d.blocks[k]
      /\ \A u : InBlock(q, h, u) <=> u \in chain[h]
  BY DEF After
<1>2. /\ d \in Tables /\ AllStored(d) /\ done \subseteq Heights /\ \A j \in done : d.blocks[j] # NoBlock
      /\ Received(d, done)
  BY DEF States, Followed
<1>3. t \in Txs /\ n \in Notes /\ h \in Nat \ {0} /\ n \in Mine
  BY StoredBlock, Bounds DEF Mine, Heights
<1>4. CASE n \in s.unspent \/ MinedSpend(d, n)
  BY <1>2, <1>3, <1>4, PutLinked DEF Caught
<1>5. CASE ~(n \in s.unspent \/ MinedSpend(d, n))
  <2>1. <<n, t>> \in Missed(s, h) /\ <<n, t>> \notin Matched(s, h)
    BY <1>3, <1>5 DEF Missed, Matched, InputsOf
  <2>2. PICK j \in 1..h :
           /\ j \in Heights /\ (n \notin Transparent => j < h)
           /\ Creator(n) \in q.blocks[h][j]
           /\ q.blocks[j] # NoBlock => InLine(q, j) /\ InBlock(q, j, Creator(n))
           /\ \A k \in Heights : InBlock(q, k, Creator(n)) => k = j
    BY <1>1, CreatedOnce
  <2>3. ASSUME j \in done PROVE InLine(d, j) /\ InBlock(d, j, Creator(n))
    <3>1. d.blocks[j] # NoBlock /\ q.blocks[j] = d.blocks[j]
      BY <1>1, <1>2, <2>3 DEF Extends
    <3>2. InLine(q, j) /\ InBlock(q, j, Creator(n))
      BY <2>2, <3>1
    <3> QED BY <1>1, <1>2, <2>2, <3>1, <3>2, Kept
  <2>4. j \notin done
    <3>1. SUFFICES ASSUME j \in done PROVE FALSE
      OBVIOUS
    <3>2. InLine(d, j) /\ InBlock(d, j, Creator(n))
      BY <2>3, <3>1
    <3>3. CASE n \notin Transparent
      BY <1>5, <3>1, <3>2, <3>3 DEF Aware
    <3>4. CASE n \in Transparent
      <4>1. n \in Outputs[Creator(n)] /\ Creator(n) \in Content(d.blocks[j])
        BY <1>3, <3>2, CreatorIs DEF InBlock
      <4>2. n \in d.received
        BY <1>2, <1>3, <3>1, <3>2, <4>1 DEF Received
      <4> QED BY <1>5, <3>4, <4>2 DEF Aware
    <3> QED BY <3>3, <3>4
  <2>5. CASE j # h
    <3>1. tracked
      <4>1. j < h
        BY <1>3, <2>2, <2>5
      <4> QED BY <2>2, <2>4, <4>1
    <3>2. RowOf(n, h, t) \in q.nfmap
      BY <2>1, <3>1 DEF After
    <3>3. Creator(n) \notin chain[h]
      BY <1>1, <2>2, <2>5
    <3>4. \A k \in done \cup {h} : ~InBlock(q, k, Creator(n))
      BY <1>2, <2>2, <2>4, <2>5
    <3>5. n \notin Transparent \/ n \notin q.received
      <4>1. SUFFICES ASSUME n \in Transparent PROVE n \notin q.received
        OBVIOUS
      <4>2. n \notin d.received
        BY <1>5, <4>1 DEF Aware
      <4>3. n \notin Receipts(h)
        BY <1>3, <3>3, ReceiptIs
      <4> QED BY <4>2, <4>3 DEF After
    <3> QED BY <3>2, <3>4, <3>5 DEF Caught, Has
  <2>6. CASE j = h
    <3>1. n \in Transparent /\ InBlock(q, h, Creator(n)) /\ Creator(n) \in chain[h]
      <4>1. n \in Transparent
        BY <1>3, <2>2, <2>6
      <4>2. q.blocks[h] # NoBlock
        BY DEF After
      <4> QED BY <1>1, <2>2, <2>6, <4>1, <4>2
    <3>2. n \in Receipts(h)
      BY <1>3, <3>1, ReceiptIs
    <3>3. n \notin d.received
      BY <1>5, <3>1 DEF Aware
    <3>4. n \in q.search
      BY <3>1, <3>2 DEF After
    <3>5. ASSUME NEW u, <<n, u>> \in q.links PROVE u = t /\ t \in Detected(d, n)
      <4>1. <<n, u>> \notin d.links
        BY <1>2, <3>3 DEF Tables, Keys
      <4>2. <<n, u>> \notin Matched(s, h)
        BY <1>5 DEF Matched
      <4>3. <<n, u>> \in Found(d, h)
        BY <3>5, <4>1, <4>2 DEF After
      <4>4. u \in Detected(d, n)
        BY <4>3 DEF Found
      <4> QED BY <1>2, <1>3, <3>1, <4>4, OnlySpender
    <3>6. CASE Detected(d, n) = {}
      <4>1. LinkedBy(q, n) = {}
        BY <3>5, <3>6 DEF LinkedBy
      <4> QED BY <3>1, <3>4, <4>1 DEF Caught
    <3>7. CASE Detected(d, n) # {}
      <4>1. t \in Detected(d, n)
        <5>1. PICK u : u \in Detected(d, n)
          BY <3>7
        <5>2. u = t
          BY <1>2, <1>3, <3>1, <5>1, OnlySpender
        <5> QED BY <5>1, <5>2
      <4>2. <<n, t>> \in q.links
        BY <1>3, <3>2, <4>1 DEF After, Found
      <4>3. q.mined[t] # 0
        <5>1. CASE Claims(d, n) # {}
          <6>1. <<n, t>> \in d.spendmap
            BY <1>2, <1>3, <3>1, <5>1, OnlySpender
          <6>2. Outputs[t] \cap Mine # {}
            BY <1>3, <6>1 DEF Followed, Pays
          <6>3. t \in Ours(s, h)
            BY <6>2 DEF Ours, Receipts
          <6> QED BY <1>3, <6>3 DEF After
        <5>2. CASE Claims(d, n) = {}
          <6>1. PICK row \in d.nfmap : row.note = n /\ row.tx = t
            BY <4>1, <5>2 DEF Detected, Remembered
          <6>2. LocatedAt(d, t, Receipts(h)) # {}
            BY <3>2, <5>2, <6>1 DEF LocatedAt
          <6> QED BY <1>3, <6>2 DEF After
        <5> QED BY <5>1, <5>2
      <4> QED BY <1>1, <4>2, <4>3, MinedHere DEF Caught, Linked
    <3> QED BY <3>6, <3>7
  <2> QED BY <2>5, <2>6
<1> QED BY <1>4, <1>5

\* The spends of the blocks scanned before stay caught.
LEMMA PutOld ==
  ASSUME NEW K, Traceable(K), ChainOK, NEW s \in States, NEW h \in Heights, h <= Len(chain),
         NEW tracked \in BOOLEAN, NEW done, Followed(K, s.db, done), h \notin done,
         NEW q, After(s, h, tracked, q), NEW k \in done, InLine(q, k),
         NEW t \in Content(q.blocks[k]), NEW n \in Inputs[t] \cap Mine \cap K
  PROVE  Caught(q, done \cup {h}, k, t, n)
<1> DEFINE d == s.db
<1>1. /\ q \in Tables /\ AllStored(q) /\ ValidBlocks(q) /\ Extends(d, q)
      /\ \A i \in Heights \ {h} : q.blocks[i] = d.blocks[i]
      /\ \A u : InBlock(q, h, u) <=> u \in chain[h]
  BY DEF After
<1>2. /\ d \in Tables /\ AllStored(d) /\ done \subseteq Heights /\ \A j \in done : d.blocks[j] # NoBlock
      /\ Received(d, done) /\ Spends(K, d, done) /\ Pays(K, d)
  BY DEF States, Followed
<1>3. /\ k \in Heights /\ k # h /\ d.blocks[k] # NoBlock /\ q.blocks[k] = d.blocks[k]
      /\ InBlock(d, k, t) /\ InBlock(q, k, t) /\ InLine(d, k)
  <2>1. k \in Heights /\ k # h /\ d.blocks[k] # NoBlock /\ q.blocks[k] = d.blocks[k]
    BY <1>1, <1>2
  <2> QED BY <1>1, <1>2, <2>1, Kept DEF InBlock
<1>4. t \in Txs /\ n \in Notes /\ n \in Mine
  <2>1. t \in Txs
    BY <1>2, <1>3, BlockShape DEF InBlock
  <2> QED BY <2>1 DEF Mine
\* A block at another height holds neither t nor a rival of it.
<1>5. ASSUME NEW u \in chain[h] PROVE u # t /\ n \notin Inputs[u]
  BY <1>1, <1>3, <1>5, OnceEach
<1>6. <<n, t>> \in q.links /\ q.mined[t] # 0 => Linked(q, k, t, n)
  BY <1>1, <1>3, MinedHere DEF Linked
<1>7. Caught(d, done, k, t, n)
  BY <1>2, <1>3 DEF Spends
<1>8. \A u : <<n, u>> \notin Matched(s, h) /\ <<n, u>> \notin Missed(s, h)
  BY <1>5 DEF Matched, Missed, InputsOf
<1>9. CASE Linked(d, k, t, n)
  <2>1. <<n, t>> \in q.links
    BY <1>9 DEF Linked, After
  <2>2. d.mined[t] # 0
    BY <1>3, <1>9, BlockShape, <1>2 DEF Linked
  <2>3. q.mined[t] # 0
    BY <1>4, <2>2 DEF After
  <2> QED BY <1>6, <2>1, <2>3 DEF Caught
<1>10. CASE RowOf(n, k, t) \in d.nfmap /\ ~Has(d, done, n)
  <2>1. CASE n \in Receipts(h)
    <3>1. t \in Detected(d, n)
      BY <1>2, <1>4, <1>10, NoClaims, FoundRow, OnlySpender
    <3>2. <<n, t>> \in q.links
      BY <1>4, <2>1, <3>1 DEF After, Found
    <3>3. CASE Claims(d, n) = {}
      <4>1. LocatedAt(d, t, Receipts(h)) # {}
        BY <1>2, <1>10, <2>1, <3>3, FoundRow
      <4>2. q.mined[t] # 0
        BY <1>4, <4>1 DEF After
      <4> QED BY <1>6, <3>2, <4>2 DEF Caught
    <3>4. CASE Claims(d, n) # {}
      <4>1. n \in K \cap Transparent
        BY <1>2, <3>4, NoClaims
      <4>2. <<n, t>> \in d.spendmap
        BY <1>2, <1>4, <3>4, <4>1, OnlySpender
      <4>3. Outputs[t] \cap Mine # {}
        BY <1>2, <4>2 DEF Pays
      <4>4. d.mined[t] = k
        BY <1>2, <1>3, <4>3 DEF Received, InBlock
      <4>5. q.mined[t] # 0
        <5>1. d.mined[t] # 0
          BY <1>2, <1>3, <4>4, BlockShape
        <5> QED BY <1>4, <5>1 DEF After
      <4> QED BY <1>6, <3>2, <4>5 DEF Caught
    <3> QED BY <3>3, <3>4
  <2>2. CASE n \notin Receipts(h)
    <3>1. RowOf(n, k, t) \in q.nfmap
      <4>1. RowOf(n, k, t).note \notin {u[1] : u \in Missed(s, h)}
        <5>1. RowOf(n, k, t).note = n
          BY DEF RowOf
        <5>2. SUFFICES ASSUME NEW u \in Missed(s, h), u[1] = n PROVE FALSE
          BY <5>1
        <5>3. u = <<u[1], u[2]>>
          BY <5>2 DEF Missed, InputsOf
        <5> QED BY <1>8, <5>2, <5>3
      <4> QED BY <1>10, <4>1 DEF After
    <3>2. Creator(n) \notin chain[h]
      BY <1>4, <2>2, ReceiptIs
    <3>3. ~Has(q, done \cup {h}, n)
      <4>1. CASE n \in Transparent
        <5>1. n \notin d.received
          BY <1>10, <4>1 DEF Has
        <5> QED BY <2>2, <4>1, <5>1 DEF Has, After
      <4>2. CASE n \notin Transparent
        <5>1. \A j \in done : ~InBlock(d, j, Creator(n))
          BY <1>10, <4>2 DEF Has
        <5>2. \A j \in done : ~InBlock(q, j, Creator(n))
          BY <1>1, <1>2, <5>1 DEF Extends, InBlock
        <5> QED BY <1>1, <3>2, <4>2, <5>2 DEF Has
      <4> QED BY <4>1, <4>2
    <3> QED BY <3>1, <3>3 DEF Caught
  <2> QED BY <2>1, <2>2
<1>11. CASE n \in Transparent /\ n \in d.search /\ LinkedBy(d, n) = {} /\ InBlock(d, k, Creator(n))
  <2>1. InBlock(q, k, Creator(n))
    BY <1>3, <1>11 DEF InBlock
  <2>2. n \in q.search
    <3>1. n \notin {x[1] : x \in Matched(s, h)}
      <4>1. SUFFICES ASSUME NEW x \in Matched(s, h), x[1] = n PROVE FALSE
        OBVIOUS
      <4>2. x = <<x[1], x[2]>>
        BY <4>1 DEF Matched, InputsOf
      <4> QED BY <1>8, <4>1, <4>2
    <3> QED BY <1>11, <3>1 DEF After
  <2>3. n \notin Receipts(h)
    <3>1. Creator(n) \notin chain[h]
      BY <1>1, <1>3, <2>1, OnceEach
    <3> QED BY <1>4, <3>1, ReceiptIs
  <2>4. ASSUME NEW u \in Txs, <<n, u>> \in q.links PROVE FALSE
    <3>1. <<n, u>> \notin d.links
      BY <1>11, <2>4 DEF LinkedBy
    <3>2. <<n, u>> \notin Found(d, h)
      BY <2>3 DEF Found
    <3> QED BY <1>8, <2>4, <3>1, <3>2 DEF After
  <2>5. LinkedBy(q, n) = {}
    <3>1. \A u : <<n, u>> \in q.links => u \in Txs
      BY <1>1 DEF Tables, Dbs
    <3> QED BY <2>4, <3>1 DEF LinkedBy
  <2> QED BY <1>11, <2>1, <2>2, <2>5 DEF Caught
<1> QED BY <1>7, <1>9, <1>10, <1>11 DEF Caught

\* What scanned blocks pay stays received and mined, and so it is in the block put.
LEMMA PutReceived ==
  ASSUME ChainOK, NEW s \in States, NEW h \in Heights, h <= Len(chain), NEW tracked \in BOOLEAN,
         NEW done, done \subseteq Heights, \A j \in done : s.db.blocks[j] # NoBlock,
         Received(s.db, done), h \notin done, NEW q, After(s, h, tracked, q)
  PROVE  Received(q, done \cup {h})
<1> DEFINE d == s.db
<1>1. /\ q \in Tables /\ AllStored(q) /\ ValidBlocks(q) /\ Extends(d, q) /\ d \in Tables
      /\ \A i \in Heights \ {h} : q.blocks[i] = d.blocks[i]
      /\ \A u : InBlock(q, h, u) <=> u \in chain[h]
      /\ q.received = d.received \cup Receipts(h) /\ q.nfs = d.nfs \cup (Receipts(h) \ Transparent)
      /\ q.blocks[h] # NoBlock
  BY DEF After, States
<1> SUFFICES ASSUME NEW k \in done \cup {h}, InLine(q, k), NEW t \in Content(q.blocks[k]),
                    NEW n \in Outputs[t] \cap Mine
             PROVE  /\ n \in q.received /\ (n \notin Transparent => n \in q.nfs)
                    /\ q.mined[t] = k
  BY DEF Received
<1>2. CASE k = h
  <2>1. t \in chain[h]
    BY <1>1, <1>2 DEF InBlock
  <2>2. n \in Receipts(h)
    BY <2>1 DEF Receipts
  <2>3. t \in Ours(s, h)
    BY <2>1, <2>2 DEF Ours
  <2>4. q.mined[t] = h
    BY <2>3 DEF After
  <2> QED BY <1>1, <1>2, <2>2, <2>4
<1>3. CASE k \in done
  <2>1. k \in Heights /\ d.blocks[k] # NoBlock /\ q.blocks[k] = d.blocks[k] /\ k # h
    BY <1>1, <1>3
  <2>2. InLine(d, k) /\ InBlock(q, k, t) /\ InBlock(d, k, t)
    BY <1>1, <2>1, Kept DEF InBlock
  <2>3. n \in d.received /\ (n \notin Transparent => n \in d.nfs) /\ d.mined[t] = k
    BY <1>3, <2>2 DEF Received, InBlock
  <2>4. t \in Txs /\ d.mined[t] # 0
    BY <1>1, <2>1, <2>2, <2>3, BlockShape DEF InBlock
  <2>5. q.mined[t] # 0
    BY <2>4 DEF After
  <2>6. q.mined[t] = k
    BY <1>1, <2>1, <2>2, <2>5, MinedHere
  <2> QED BY <1>1, <2>3, <2>6
<1> QED BY <1>2, <1>3

LEMMA PutAware ==
  ASSUME NEW K, ChainOK, NEW s \in States, NEW h \in Heights, h <= Len(chain), NEW tracked \in BOOLEAN,
         NEW done, done \subseteq Heights, \A j \in done : s.db.blocks[j] # NoBlock, Aware(K, s, done),
         NEW p \in States, After(s, h, tracked, p.db),
         p.unspent = (s.unspent \ {x[1] : x \in Matched(s, h)}) \cup Receipts(h)
  PROVE  Aware(K, p, done \cup {h})
<1> DEFINE d == s.db
           q == p.db
<1>1. /\ q \in Tables /\ Extends(d, q) /\ d \in Tables
      /\ \A u : InBlock(q, h, u) <=> u \in chain[h]
      /\ q.received = d.received \cup Receipts(h)
      /\ q.links = d.links \cup Matched(s, h) \cup Found(d, h)
  BY DEF After, States
<1> SUFFICES ASSUME NEW n \in K \cap Mine,
                    IF n \in Transparent THEN n \in q.received
                    ELSE \E j \in done \cup {h} : InLine(q, j) /\ InBlock(q, j, Creator(n)),
                    n \notin p.unspent
             PROVE  MinedSpend(q, n)
  BY DEF Aware
<1>2. n \notin Receipts(h) /\ Creator(n) \notin chain[h]
  BY ReceiptIs
<1>3. n \in s.unspent \/ MinedSpend(d, n)
  <2>1. CASE n \in Transparent
    BY <1>1, <1>2, <2>1 DEF Aware
  <2>2. CASE n \notin Transparent
    <3>1. PICK j \in done \cup {h} : InLine(q, j) /\ InBlock(q, j, Creator(n))
      BY <2>2
    <3>2. j \in done /\ j \in Heights /\ d.blocks[j] # NoBlock
      BY <1>1, <1>2, <3>1
    <3>3. InLine(d, j) /\ InBlock(d, j, Creator(n))
      BY <1>1, <3>1, <3>2, Kept
    <3> QED BY <2>2, <3>2, <3>3 DEF Aware
  <2> QED BY <2>1, <2>2
<1>4. CASE MinedSpend(d, n)
  <2>1. PICK u : u \in Txs /\ <<n, u>> \in d.links /\ d.mined[u] # 0
    BY <1>4 DEF MinedSpend, LinkedBy
  <2>2. q.mined[u] # 0
    BY <2>1 DEF After
  <2> QED BY <1>1, <2>1, <2>2 DEF MinedSpend, LinkedBy
<1>5. CASE n \in s.unspent
  <2>1. PICK x \in Matched(s, h) : x[1] = n
    BY <1>5
  <2>2. x = <<n, x[2]>> /\ x[2] \in Ours(s, h) /\ x[2] \in Txs
    BY <2>1, Pieces DEF Matched, InputsOf, Ours
  <2>3. q.mined[x[2]] = h /\ h # 0
    BY <2>2, Bounds DEF After, Heights
  <2> QED BY <1>1, <2>1, <2>2, <2>3 DEF MinedSpend, LinkedBy
<1> QED BY <1>3, <1>4, <1>5

LEMMA PutFollowed ==
  ASSUME NEW K, Traceable(K), ChainOK, Valid(chain), NEW s \in States, NEW h \in Heights, h <= Len(chain),
         NEW tracked \in BOOLEAN, PutBlock(s, h, tracked).ok,
         NEW done, Followed(K, s.db, done), Aware(K, s, done), h \notin done,
         tracked \/ \A j \in Heights : j < h => j \in done
  PROVE  /\ Followed(K, PutBlock(s, h, tracked).db, done \cup {h})
         /\ Aware(K, PutBlock(s, h, tracked), done \cup {h})
<1> DEFINE p == PutBlock(s, h, tracked)
           q == p.db
<1>1. AllStored(s.db) /\ ValidBlocks(s.db) /\ done \subseteq Heights /\ Received(s.db, done) /\ Pays(K, s.db)
      /\ \A j \in done : s.db.blocks[j] # NoBlock
  BY DEF Followed
<1>2. /\ After(s, h, tracked, q) /\ p \in States
      /\ p.unspent = (s.unspent \ {x[1] : x \in Matched(s, h)}) \cup Receipts(h)
  BY <1>1, PutBlockAfter
<1> HIDE DEF p
<1>3. Aware(K, p, done \cup {h})
  <2>1. /\ done \subseteq Heights /\ \A j \in done : s.db.blocks[j] # NoBlock
        /\ p \in States /\ After(s, h, tracked, p.db)
        /\ p.unspent = (s.unspent \ {x[1] : x \in Matched(s, h)}) \cup Receipts(h)
    BY <1>1, <1>2
  <2> QED BY <2>1, PutAware, SMTT(40)
<1>4. Received(q, done \cup {h})
  BY <1>1, <1>2, PutReceived
<1>5. Spends(K, q, done \cup {h})
  <2> SUFFICES ASSUME NEW k \in done \cup {h}, InLine(q, k), NEW t \in Content(q.blocks[k]),
                      NEW n \in Inputs[t] \cap Mine \cap K
               PROVE  Caught(q, done \cup {h}, k, t, n)
    BY DEF Spends
  <2>1. CASE k = h
    <3>1. t \in chain[h]
      BY <1>2, <2>1 DEF After, InBlock
    <3> QED BY <1>2, <2>1, <3>1, PutNew
  <2>2. CASE k \in done
    BY <1>2, <2>2, PutOld
  <2> QED BY <2>1, <2>2
<1>6. Pays(K, q)
  BY <1>1, <1>2 DEF After, Pays
<1>7. \A j \in done \cup {h} : q.blocks[j] # NoBlock
  BY <1>1, <1>2 DEF After, Extends
<1>8. AllStored(q) /\ ValidBlocks(q)
  BY <1>2 DEF After
<1> QED BY <1>1, <1>3, <1>4, <1>5, <1>6, <1>7, <1>8 DEF Followed, p

LEMMA FullyScannedIs ==
  ASSUME scanned \subseteq Heights
  PROVE  FullyScanned \in 0..MaxHeight /\ 1..FullyScanned \subseteq scanned
<1> DEFINE M == {h \in 1..(MaxHeight + 1) : h \notin scanned}
<1>1. MaxHeight \in Nat
  BY Bounds
<1>2. M \subseteq Nat /\ MaxHeight + 1 \in M
  BY <1>1 DEF Heights
<1>3. PICK m \in M : \A i \in M : m <= i
  BY <1>2, LeastNumber
<1>4. /\ m - 1 \in 0..MaxHeight /\ 1..(m - 1) \subseteq scanned
      /\ (m - 1) + 1 \notin scanned
  <2>1. m \in 1..(MaxHeight + 1) /\ m \notin scanned
    BY <1>3
  <2>2. \A i \in 1..(m - 1) : i \in 1..(MaxHeight + 1) /\ i < m /\ i \in Nat
    BY <1>1, <2>1
  <2>3. \A i \in 1..(m - 1) : i \notin M
    BY <1>2, <1>3, <2>1, <2>2
  <2> QED BY <1>1, <2>1, <2>2, <2>3
<1>5. \E h \in 0..MaxHeight : 1..h \subseteq scanned /\ h + 1 \notin scanned
  BY <1>4
<1> QED BY <1>5 DEF FullyScanned

\* Before the batch, an output the wallet has is unspent or has a mined spend.
LEMMA StartAware ==
  ASSUME NonExpiring = {}, NEW K, K \subseteq Notes, db \in Tables, Followed(K, db, scanned)
  PROVE  Aware(K, Start, scanned)
<1>1. Start.db = db /\ Start.unspent = Unspent(db)
  BY DEF Start
<1> SUFFICES ASSUME NEW n \in K \cap Mine,
                    IF n \in Transparent THEN n \in db.received
                    ELSE \E j \in scanned : InLine(db, j) /\ InBlock(db, j, Creator(n)),
                    ~MinedSpend(db, n)
             PROVE  n \in Unspent(db)
  BY <1>1 DEF Aware
<1>2. CASE n \in Transparent
  BY <1>2 DEF Unspent
<1>3. CASE n \notin Transparent
  <2>1. PICK j \in scanned : InLine(db, j) /\ InBlock(db, j, Creator(n))
    BY <1>3
  <2>2. n \in Outputs[Creator(n)] \cap Mine
    BY CreatorIs
  <2>3. n \in db.nfs /\ db.mined[Creator(n)] = j /\ j # 0
    <3>1. Received(db, scanned) /\ j \in Heights
      BY DEF Followed
    <3> QED BY <1>3, <2>1, <2>2, <3>1, Bounds DEF Received, InBlock, Heights
  <2> QED BY <2>3 DEF Unspent
<1> QED BY <1>2, <1>3

\* A batch keeps its spends unless everything before it was scanned.
LEMMA FloorTracks ==
  ASSUME scanned \subseteq Heights, NEW first \in Heights, NEW last \in Heights, NEW h \in first..last,
         ~(h >= SpendTrackingFloor(first, last))
  PROVE  \A j \in Heights : j < first => j \in scanned
<1>1. first \in Nat /\ last \in Nat /\ h \in Nat /\ Retention \in Nat /\ \A j \in Heights : j \in Nat \ {0}
  BY Bounds DEF Heights
<1>2. FullyScanned = first - 1
  BY <1>1 DEF SpendTrackingFloor
<1>3. 1..(first - 1) \subseteq scanned
  BY <1>2, FullyScannedIs
<1>4. \A j \in Heights : j < first => j \in 1..(first - 1)
  BY <1>1
<1> QED BY <1>3, <1>4

LEMMA BatchFollowed ==
  ASSUME NonExpiring = {}, NEW K, Traceable(K), TypeInv, Valid(chain), Followed(K, db, scanned),
         NEW first \in Heights, NEW last \in Heights, first <= last, last <= Len(chain),
         Due(first, last), Batch(first, last).ok
  PROVE  /\ Batch(first, last) \in States
         /\ Followed(K, Batch(first, last).db, scanned \cup (first..last))
         /\ \A k \in Heights : Batch(first, last).db.blocks[k] =
              IF k \in first..last THEN Block(k) ELSE db.blocks[k]
<1> DEFINE D(h) == scanned \cup (first..h)
           Blocks(d, h) == \A k \in Heights : d.blocks[k] = IF k \in first..h THEN Block(k) ELSE db.blocks[k]
           S(h) == {s \in States : s.ok => /\ Followed(K, s.db, D(h)) /\ Aware(K, s, D(h))
                                           /\ Blocks(s.db, h)}
           P == [h \in (first - 1)..last |-> S(h)]
           floor == SpendTrackingFloor(first, last)
<1>1. ChainOK /\ db \in Tables /\ scanned \subseteq Heights /\ K \subseteq Notes
  BY DEF TypeInv, Traceable
<1>2. /\ first \in Nat \ {0} /\ last \in Nat /\ MaxHeight \in Nat /\ last <= MaxHeight
      /\ Heights = 1..MaxHeight /\ Len(chain) \in Nat
  BY <1>1, Bounds DEF Heights, ChainOK
<1>3. P \in [(first - 1)..last -> SUBSET States] /\ \A h \in (first - 1)..last : P[h] = S(h)
  OBVIOUS
<1>4. Start \in P[first - 1]
  <2>1. first - 1 \in (first - 1)..last /\ first..(first - 1) = {}
    BY <1>2
  <2>2. Start \in States /\ Start.db = db
    BY <1>1, StartIs DEF Start
  <2>3. D(first - 1) = scanned /\ Blocks(db, first - 1)
    BY <2>1
  <2>4. Aware(K, Start, scanned)
    BY <1>1, StartAware
  <2>5. Start \in S(first - 1)
    BY <2>2, <2>3, <2>4
  <2> QED BY <1>3, <2>1, <2>5
<1>5. ASSUME NEW h \in first..last, NEW s \in P[h - 1]
      PROVE  PutBlock(s, h, h >= floor) \in P[h]
  <2> DEFINE p == PutBlock(s, h, h >= floor)
  <2>1. h \in Heights /\ h <= Len(chain) /\ h - 1 \in (first - 1)..last /\ h \in (first - 1)..last
        /\ h \notin D(h - 1) /\ first..h = (first..(h - 1)) \cup {h}
    BY <1>2 DEF Due
  <2>2. (h >= floor) \in BOOLEAN
    BY <2>1, FloorIs
  <2>3. s \in S(h - 1)
    BY <1>3, <2>1
  <2>4. p \in States
    BY <1>1, <2>1, <2>2, <2>3, PutBlockTyped
  <2>5. (h >= floor) \/ \A j \in Heights : j < h => j \in D(h - 1)
    <3>1. SUFFICES ASSUME ~(h >= floor) PROVE \A j \in Heights : j < h => j \in D(h - 1)
      OBVIOUS
    <3>2. \A j \in Heights : j < first => j \in scanned
      BY <1>1, <3>1, FloorTracks
    <3>3. \A j \in Heights : j < h => j < first \/ j \in first..(h - 1)
      BY <1>2
    <3> QED BY <3>2, <3>3
  <2>6. ASSUME p.ok PROVE Followed(K, p.db, D(h)) /\ Aware(K, p, D(h)) /\ Blocks(p.db, h)
    <3>1. s.ok
      BY <2>6, PutBlockIs
    <3>2. Followed(K, s.db, D(h - 1)) /\ Aware(K, s, D(h - 1)) /\ Blocks(s.db, h - 1)
      BY <2>3, <3>1
    <3>3. D(h) = D(h - 1) \cup {h}
      BY <2>1
    <3>4. s \in States /\ h \notin D(h - 1)
      BY <2>1, <2>3
    <3>5. p.db.blocks = [s.db.blocks EXCEPT ![h] = Block(h)] /\ s.db.blocks \in [Heights -> Seq(SUBSET Txs)]
      <4>1. s.db \in Tables
        BY <3>4 DEF States
      <4> DEFINE tr == h >= floor
      <4>2. p.db.blocks = [s.db.blocks EXCEPT ![h] = Block(h)]
        <5>1. tr \in BOOLEAN /\ p = PutBlock(s, h, tr)
          BY <2>2
        <5>2. h \in Heights /\ h <= Len(chain) /\ ChainOK /\ s \in States
          BY <1>1, <2>1, <3>4
        <5> HIDE DEF tr, p
        <5>3. PutBlock(s, h, tr).db.blocks = [s.db.blocks EXCEPT ![h] = Block(h)]
          BY <5>1, <5>2, PutBlockBlocks
        <5> QED BY <5>1, <5>3
      <4> QED BY <4>1, <4>2 DEF Tables, Dbs
    <3>6. Blocks(p.db, h)
      BY <2>1, <3>2, <3>5
    <3>7. Followed(K, p.db, D(h - 1) \cup {h}) /\ Aware(K, p, D(h - 1) \cup {h})
      <4> DEFINE tr == h >= floor
                 done == D(h - 1)
      <4>1. tr \in BOOLEAN /\ PutBlock(s, h, tr).ok /\ (tr \/ \A j \in Heights : j < h => j \in done)
        BY <2>2, <2>5, <2>6
      <4>2. Followed(K, s.db, done) /\ Aware(K, s, done) /\ h \notin done /\ s \in States
        BY <3>2, <3>4
      <4> HIDE DEF tr, done
      <4>3. Followed(K, PutBlock(s, h, tr).db, done \cup {h}) /\ Aware(K, PutBlock(s, h, tr), done \cup {h})
        BY <1>1, <2>1, <4>1, <4>2, PutFollowed
      <4> QED BY <4>3 DEF tr, done
    <3> HIDE DEF p, D, Blocks
    <3> QED BY <3>3, <3>6, <3>7
  <2> HIDE DEF p, floor
  <2>7. p \in S(h)
    BY <2>4, <2>6
  <2> QED BY <1>3, <2>1, <2>7 DEF p
<1> HIDE DEF P
<1>6. Batch(first, last) \in P[last]
  BY <1>1, <1>3, <1>4, <1>5, BatchInduction DEF floor
<1>7. last \in (first - 1)..last
  BY <1>2
<1>8. Batch(first, last) \in S(last)
  BY <1>3, <1>6, <1>7
<1> QED BY <1>8

-----------------------------------------------------------------------------
(* The other operations follow the spends *)

LEMMA SameBlocks ==
  ASSUME NEW d, NEW q, q.blocks = d.blocks
  PROVE  /\ \A h \in Heights : InLine(q, h) <=> InLine(d, h)
         /\ \A h, t : InBlock(q, h, t) <=> InBlock(d, h, t)
         /\ ValidBlocks(q) <=> ValidBlocks(d)
BY DEF InLine, InBlock, ValidBlocks

\* What is pruned is below blocks that were all scanned, so the wallet has the output.
LEMMA PruneFollowed ==
  ASSUME NEW K, K \subseteq Notes, NEW d \in Tables, NEW done, scanned \subseteq done, Followed(K, d, done)
  PROVE  Followed(K, PruneSpends(d), done)
<1> DEFINE q == PruneSpends(d)
<1>1. /\ q \in Tables /\ q.blocks = d.blocks /\ q.mined = d.mined
      /\ SameOutputs(d, q) /\ AllStored(q)
      /\ q.nfmap = {row \in d.nfmap : ~(row.at < FullyScanned - Retention)}
  BY PruneIs, PruneStored DEF Followed
<1> HIDE DEF q
<1>2. /\ done \subseteq Heights /\ \A h \in done : d.blocks[h] # NoBlock
      /\ ValidBlocks(d) /\ Received(d, done) /\ Spends(K, d, done) /\ Pays(K, d)
  BY DEF Followed
<1>3. /\ \A h \in Heights : InLine(q, h) <=> InLine(d, h)
      /\ \A h, t : InBlock(q, h, t) <=> InBlock(d, h, t)
      /\ ValidBlocks(q)
  BY <1>1, <1>2, SameBlocks
<1>4. Received(q, done)
  BY <1>1, <1>2, <1>3 DEF Received, SameOutputs
<1>5. Spends(K, q, done)
  <2> SUFFICES ASSUME NEW h \in done, InLine(d, h), NEW t \in Content(d.blocks[h]),
                      NEW n \in Inputs[t] \cap Mine \cap K
               PROVE  Caught(q, done, h, t, n)
    BY <1>1, <1>2, <1>3 DEF Spends
  <2>1. Caught(d, done, h, t, n) /\ InBlock(d, h, t) /\ h \in Heights
    BY <1>2 DEF Spends, InBlock
  <2>2. CASE Linked(d, h, t, n)
    BY <1>1, <2>2 DEF Linked, SameOutputs, Caught
  <2>3. CASE n \in Transparent /\ n \in d.search /\ LinkedBy(d, n) = {} /\ InBlock(d, h, Creator(n))
    BY <1>1, <1>3, <2>3 DEF LinkedBy, SameOutputs, Caught
  <2>4. CASE RowOf(n, h, t) \in d.nfmap /\ ~Has(d, done, n)
    <3>1. ~Has(q, done, n)
      BY <1>1, <1>3, <2>4 DEF Has, SameOutputs
    <3>2. ~(h < FullyScanned - Retention)
      <4>1. SUFFICES ASSUME h < FullyScanned - Retention PROVE FALSE
        OBVIOUS
      <4>2. scanned \subseteq Heights
        BY <1>2
      <4>3. 1..h \subseteq done
        <5>1. h \in Nat /\ Retention \in Nat /\ FullyScanned \in Nat /\ 1..FullyScanned \subseteq scanned
          BY <2>1, <4>2, FullyScannedIs, Bounds DEF Heights
        <5> QED BY <4>1, <5>1
      <4>4. PICK j \in 1..h : /\ j \in Heights
                             /\ d.blocks[j] # NoBlock => InLine(d, j) /\ InBlock(d, j, Creator(n))
        BY <1>2, <2>1, CreatedOnce
      <4>5. j \in done /\ InLine(d, j) /\ InBlock(d, j, Creator(n))
        BY <1>2, <4>3, <4>4
      <4>6. CASE n \in Transparent
        <5>1. n \in Outputs[Creator(n)] \cap Mine /\ Creator(n) \in Content(d.blocks[j])
          BY <4>5, CreatorIs DEF InBlock
        <5>2. n \in d.received
          BY <1>2, <4>5, <5>1 DEF Received
        <5> QED BY <2>4, <4>6, <5>2 DEF Has
      <4>7. CASE n \notin Transparent
        BY <2>4, <4>5, <4>7 DEF Has
      <4> QED BY <4>6, <4>7
    <3>3. RowOf(n, h, t) \in q.nfmap
      <4>1. RowOf(n, h, t).at = h
        BY DEF RowOf
      <4> QED BY <1>1, <2>4, <3>2, <4>1
    <3> QED BY <3>1, <3>3 DEF Caught
  <2> QED BY <2>1, <2>2, <2>3, <2>4 DEF Caught
<1>6. Pays(K, q)
  BY <1>1, <1>2 DEF Pays, SameOutputs
<1> QED BY <1>1, <1>2, <1>3, <1>4, <1>5, <1>6 DEF Followed, q

\* A rewind that leaves no block which was out of line.
LEMMA TruncateFollowed ==
  ASSUME NEW K, NEW d \in Tables, NEW done, NEW x \in Int, Followed(K, d, done),
         \A h \in Heights : h <= x /\ d.blocks[h] # NoBlock => InLine(d, h)
  PROVE  Followed(K, Truncated(d, x), done \cap (1..x))
<1> DEFINE q == Truncated(d, x)
           left == done \cap (1..x)
<1>1. /\ q \in Tables /\ SameOutputs(d, q)
      /\ \A k \in Heights : q.blocks[k] = IF k > x THEN NoBlock ELSE d.blocks[k]
      /\ \A t \in Txs : q.mined[t] = IF d.mined[t] > x THEN 0 ELSE d.mined[t]
      /\ q.nfmap = {row \in d.nfmap : row.at <= x}
  BY TruncatedIs
<1>2. /\ done \subseteq Heights /\ \A h \in done : d.blocks[h] # NoBlock
      /\ AllStored(d) /\ ValidBlocks(d) /\ Received(d, done) /\ Spends(K, d, done) /\ Pays(K, d)
  BY DEF Followed
<1>3. AllStored(q)
  BY <1>2, TruncateStored
<1> HIDE DEF q
<1>4. \A h \in Heights : h \in Nat
  BY Bounds DEF Heights
<1>5. ValidBlocks(q)
  BY <1>1, <1>2 DEF ValidBlocks
<1>6. \A h \in left : /\ h \in done /\ h \in Heights /\ h <= x /\ q.blocks[h] = d.blocks[h]
                      /\ d.blocks[h] # NoBlock /\ InLine(d, h)
  BY <1>1, <1>2, <1>4
<1>7. \A h \in Heights : \A t : InBlock(q, h, t) => InBlock(d, h, t)
  BY <1>1 DEF InBlock
<1>8. \A h \in left : \A t \in Txs : d.mined[t] = h => q.mined[t] = h
  BY <1>1, <1>4, <1>6
<1>9. \A h \in left : \A t \in Content(d.blocks[h]) : t \in Txs
  BY <1>6, BlockShape
<1>10. Received(q, left)
  <2> SUFFICES ASSUME NEW h \in left, NEW t \in Content(d.blocks[h]), NEW n \in Outputs[t] \cap Mine
               PROVE  /\ n \in q.received /\ (n \notin Transparent => n \in q.nfs) /\ q.mined[t] = h
    BY <1>6 DEF Received
  <2>1. n \in d.received /\ (n \notin Transparent => n \in d.nfs) /\ d.mined[t] = h
    BY <1>2, <1>6 DEF Received
  <2> QED BY <1>1, <1>8, <1>9, <2>1 DEF SameOutputs
<1>11. Spends(K, q, left)
  <2> SUFFICES ASSUME NEW h \in left, NEW t \in Content(d.blocks[h]), NEW n \in Inputs[t] \cap Mine \cap K
               PROVE  Caught(q, left, h, t, n)
    BY <1>6 DEF Spends
  <2>1. Caught(d, done, h, t, n) /\ t \in Txs
    BY <1>2, <1>6, <1>9 DEF Spends
  <2>2. CASE Linked(d, h, t, n)
    BY <1>1, <1>8, <2>1, <2>2 DEF Linked, SameOutputs, Caught
  <2>3. CASE n \in Transparent /\ n \in d.search /\ LinkedBy(d, n) = {} /\ InBlock(d, h, Creator(n))
    BY <1>1, <1>6, <2>3 DEF LinkedBy, SameOutputs, Caught, InBlock
  <2>4. CASE RowOf(n, h, t) \in d.nfmap /\ ~Has(d, done, n)
    <3>1. RowOf(n, h, t) \in q.nfmap
      <4>1. RowOf(n, h, t).at = h
        BY DEF RowOf
      <4> QED BY <1>1, <1>6, <2>4, <4>1
    <3>2. ~Has(q, left, n)
      BY <1>1, <1>6, <1>7, <2>4 DEF Has, SameOutputs
    <3> QED BY <3>1, <3>2 DEF Caught
  <2> QED BY <2>1, <2>2, <2>3, <2>4 DEF Caught
<1>12. Pays(K, q)
  BY <1>1, <1>2 DEF Pays, SameOutputs
<1>13. left \subseteq Heights /\ \A h \in left : q.blocks[h] # NoBlock
  BY <1>6
<1> QED BY <1>3, <1>5, <1>10, <1>11, <1>12, <1>13 DEF Followed, q

\* A rescan.
LEMMA FewerFollowed ==
  ASSUME NEW K, NEW d, NEW done, NEW left, left \subseteq done, Followed(K, d, done)
  PROVE  Followed(K, d, left)
<1>1. Received(d, left)
  BY DEF Followed, Received
<1>2. \A n : Has(d, left, n) => Has(d, done, n)
  BY DEF Has
<1>3. Spends(K, d, left)
  BY <1>2 DEF Followed, Spends, Caught
<1> QED BY <1>1, <1>3 DEF Followed

LEMMA PaysWallet ==
  ASSUME NEW t \in Txs, Outputs[t] \ Late # {}
  PROVE  Outputs[t] \cap Mine # {}
<1>1. Outputs[t] \subseteq Notes
  BY Bounds
<1> QED BY <1>1 DEF Mine

\* Nothing of what is followed has changed.
LEMMA UnreadFollowed ==
  ASSUME NEW K, NEW q, Unread(q), q.blocks = db.blocks, AllStored(q), Followed(K, db, scanned)
  PROVE  Followed(K, q, scanned)
<1>1. /\ \A h \in Heights : InLine(q, h) <=> InLine(db, h)
      /\ \A h, t : InBlock(q, h, t) <=> InBlock(db, h, t)
      /\ ValidBlocks(q)
  BY SameBlocks DEF Followed
<1>2. /\ q.received = db.received /\ q.nfs = db.nfs /\ q.links = db.links /\ q.spendmap = db.spendmap
      /\ q.search = db.search /\ q.mined = db.mined /\ q.nfmap = db.nfmap
  BY DEF Unread, SameOutputs
<1>3. /\ scanned \subseteq Heights /\ \A h \in scanned : q.blocks[h] # NoBlock
      /\ Received(db, scanned) /\ Spends(K, db, scanned) /\ Pays(K, db)
  BY DEF Followed
<1>4. Received(q, scanned)
  BY <1>1, <1>2, <1>3 DEF Received
<1>5. \A n : Has(q, scanned, n) <=> Has(db, scanned, n)
  BY <1>1, <1>2 DEF Has
<1>6. \A h, t, n : Caught(db, scanned, h, t, n) => Caught(q, scanned, h, t, n)
  BY <1>1, <1>2, <1>5 DEF Caught, Linked, LinkedBy
<1>7. Spends(K, q, scanned)
  BY <1>1, <1>3, <1>6 DEF Spends
<1>8. Pays(K, q)
  BY <1>2, <1>3 DEF Pays
<1> QED BY <1>1, <1>3, <1>4, <1>7, <1>8 DEF Followed

\* A transaction stored in full records the spends it makes, those remembered of
\* the outputs it creates, and hides none.
LEMMA StoreFollowed ==
  ASSUME NEW K, Traceable(K), db \in Tables, Followed(K, db, scanned), NEW u \in Txs, Relevant(u),
         NEW at \in {0} \cup Heights, at # 0 => InBlock(db, at, u), at = 0 => u \in Unconfirmed,
         NEW q, StoredTx(u, at, q), StoredOutputs(u, at, q), AllStored(q)
  PROVE  Followed(K, q, scanned)
<1> DEFINE e == MarkedAt(u, at)
<1>1. /\ scanned \subseteq Heights /\ \A h \in scanned : db.blocks[h] # NoBlock
      /\ ValidBlocks(db) /\ Received(db, scanned) /\ Spends(K, db, scanned) /\ Pays(K, db)
  BY DEF Followed
<1>2. q \in Tables /\ q.blocks = db.blocks
  BY DEF StoredTx
<1>3. /\ \A h \in Heights : InLine(q, h) <=> InLine(db, h)
      /\ \A h, t : InBlock(q, h, t) <=> InBlock(db, h, t)
      /\ ValidBlocks(q)
  BY <1>1, <1>2, SameBlocks
<1>4. /\ e \in Tables /\ e.nfmap = db.nfmap /\ e.spendmap = db.spendmap
      /\ at # 0 => e.mined[u] = at
  <2>1. e \in Tables /\ e.nfmap = db.nfmap /\ e.spendmap = db.spendmap
        /\ e.mined = IF at = 0 THEN db.mined ELSE [db.mined EXCEPT ![u] = at]
    BY MinedAt DEF MarkedAt
  <2> QED BY <2>1 DEF Tables, Dbs
<1> HIDE DEF e
<1>5. 0 \notin Heights
  BY Bounds DEF Heights
<1>6. \A t \in Txs : db.mined[t] # 0 => q.mined[t] # 0
  BY <1>5 DEF StoredTx
<1>7. \A t \in Txs : q.mined[t] = IF LocatedAt(e, t, Shown(u)) # {}
                                 THEN CHOOSE k \in LocatedAt(e, t, Shown(u)) : TRUE
                                 ELSE e.mined[t]
  BY DEF StoredOutputs, e
<1>8. \A t \in Txs : LocatedAt(e, t, Shown(u)) # {} => q.mined[t] # 0
  <2> SUFFICES ASSUME NEW t \in Txs, LocatedAt(e, t, Shown(u)) # {} PROVE q.mined[t] # 0
    OBVIOUS
  <2>1. q.mined[t] \in LocatedAt(e, t, Shown(u))
    BY <1>7
  <2>2. q.mined[t] \in Heights
    BY <1>4, <2>1, LocatedAre
  <2> QED BY <1>5, <2>2
<1>9. at # 0 => q.mined[u] # 0
  BY <1>4, <1>7, <1>8
\* What counted as mined in a block in line still does.
<1>10. ASSUME NEW h \in scanned, InLine(db, h), NEW t \in Content(db.blocks[h])
       PROVE  t \in Txs /\ InBlock(q, h, t) /\ h # 0 /\ (q.mined[t] # 0 => q.mined[t] = h)
  <2>1. h \in Heights /\ InBlock(q, h, t) /\ InBlock(db, h, t) /\ InLine(q, h)
    BY <1>1, <1>3, <1>10 DEF InBlock
  <2>2. t \in Txs /\ h # 0
    BY <2>1, BlockShape, <1>5 DEF InBlock
  <2> QED BY <1>2, <1>3, <2>1, <2>2, MinedHere
<1>11. Received(q, scanned)
  <2> SUFFICES ASSUME NEW h \in scanned, InLine(db, h), NEW t \in Content(db.blocks[h]),
                      NEW n \in Outputs[t] \cap Mine
               PROVE  /\ n \in q.received /\ (n \notin Transparent => n \in q.nfs) /\ q.mined[t] = h
    BY <1>1, <1>2, <1>3 DEF Received
  <2>1. n \in db.received /\ (n \notin Transparent => n \in db.nfs) /\ db.mined[t] = h
    BY <1>1 DEF Received
  <2>2. q.mined[t] = h
    BY <1>6, <1>10, <2>1
  <2> QED BY <2>1, <2>2 DEF StoredOutputs
<1>12. ASSUME NEW h \in scanned, InLine(db, h), NEW t \in Content(db.blocks[h]), Outputs[t] \cap Mine # {}
       PROVE  q.mined[t] # 0
  <2>1. db.mined[t] = h
    BY <1>1, <1>12 DEF Received
  <2> QED BY <1>6, <1>10, <1>12, <2>1
<1>13. Spends(K, q, scanned)
  <2> SUFFICES ASSUME NEW h \in scanned, InLine(db, h), NEW t \in Content(db.blocks[h]),
                      NEW n \in Inputs[t] \cap Mine \cap K
               PROVE  Caught(q, scanned, h, t, n)
    BY <1>1, <1>2, <1>3 DEF Spends
  <2>1. /\ Caught(db, scanned, h, t, n) /\ t \in Txs /\ n \in Notes /\ h \in Heights
        /\ InBlock(db, h, t) /\ InBlock(q, h, t)
    BY <1>1, <1>3, <1>10 DEF Spends, Traceable
  <2>2. <<n, t>> \in q.links /\ q.mined[t] # 0 => Linked(q, h, t, n)
    BY <1>10 DEF Linked
  \* The output is received from the transaction stored.
  <2>3. ASSUME n \in Shown(u), t \in Detected(e, n) PROVE Linked(q, h, t, n)
    <3>1. <<n, t>> \in q.links
      BY <2>1, <2>3 DEF StoredOutputs, FoundFor, e
    <3>2. CASE Claims(e, n) = {}
      <4>1. PICK row \in e.nfmap : row.note = n /\ row.tx = t
        BY <2>3, <3>2 DEF Detected, Remembered
      <4>2. LocatedAt(e, t, Shown(u)) # {}
        BY <2>3, <3>2, <4>1 DEF LocatedAt
      <4> QED BY <1>8, <2>1, <2>2, <3>1, <4>2
    <3>3. CASE Claims(e, n) # {}
      <4>1. <<n, t>> \in db.spendmap
        BY <1>4, <2>1, <2>3, <3>3, OnlySpender DEF Shown
      <4>2. q.mined[t] # 0
        BY <1>1, <1>12, <4>1 DEF Pays
      <4> QED BY <2>2, <3>1, <4>2
    <3> QED BY <3>2, <3>3
  <2>4. CASE Linked(db, h, t, n)
    BY <1>6, <1>10, <2>1, <2>2, <2>4 DEF Linked, StoredOutputs, Caught
  <2>5. CASE RowOf(n, h, t) \in db.nfmap /\ ~Has(db, scanned, n)
    <3>1. CASE n \in Shown(u)
      <4>1. t \in Detected(e, n)
        <5>1. RowOf(n, h, t) \in e.nfmap
          BY <1>4, <2>5
        <5>2. n \in K \cap Transparent
          BY <3>1 DEF Shown
        <5> QED BY <1>4, <2>1, <3>1, <5>1, <5>2, FoundRow, OnlySpender
      <4> QED BY <2>3, <3>1, <4>1 DEF Caught
    <3>2. CASE n \notin Shown(u)
      <4>1. ~Has(q, scanned, n)
        BY <1>3, <2>5, <3>2 DEF Has, StoredOutputs, Shown
      <4> QED BY <2>5, <4>1 DEF Caught, StoredOutputs
    <3> QED BY <3>1, <3>2
  <2>6. CASE n \in Transparent /\ n \in db.search /\ LinkedBy(db, n) = {} /\ InBlock(db, h, Creator(n))
    <3>1. n \in db.received /\ n \in K \cap Transparent
      BY <2>6 DEF Tables, Keys
    <3>2. CASE n \in Inputs[u]
      <4>1. u = t
        BY <2>1, <3>1, <3>2 DEF Traceable
      <4>2. <<n, t>> \in q.links
        BY <2>6, <3>1, <3>2, <4>1 DEF StoredOutputs
      <4>3. q.mined[t] # 0
        <5>1. CASE at # 0
          BY <1>9, <4>1, <5>1
        <5>2. CASE at = 0
          <6>1. Outputs[t] \ Late # {}
            BY <2>1, <3>1, <4>1, <5>2 DEF Traceable
          <6> QED BY <1>12, <2>1, <6>1, PaysWallet
        <5> QED BY <5>1, <5>2
      <4> QED BY <2>2, <4>2, <4>3 DEF Caught
    <3>3. CASE n \notin Inputs[u]
      <4>1. n \in q.search
        BY <2>6, <3>3 DEF StoredOutputs
      <4>2. ASSUME NEW v \in Txs, <<n, v>> \in q.links PROVE n \in Shown(u) /\ v \in Detected(e, n)
        <5>1. <<n, v>> \notin db.links
          BY <2>6, <4>2 DEF LinkedBy
        <5>2. <<n, v>> \in FoundFor(u, at)
          BY <3>3, <4>2, <5>1 DEF StoredOutputs
        <5> QED BY <5>2 DEF FoundFor, e
      <4>3. CASE \E v \in Txs : <<n, v>> \in q.links
        <5>1. PICK v \in Txs : <<n, v>> \in q.links
          BY <4>3
        <5>2. v = t
          BY <1>4, <2>1, <3>1, <4>2, <5>1, OnlySpender
        <5> QED BY <2>3, <4>2, <5>1, <5>2 DEF Caught
      <4>4. CASE ~\E v \in Txs : <<n, v>> \in q.links
        <5>1. LinkedBy(q, n) = {}
          BY <4>4 DEF LinkedBy
        <5> QED BY <1>3, <2>6, <4>1, <5>1 DEF Caught
      <4> QED BY <4>3, <4>4
    <3> QED BY <3>2, <3>3
  <2> QED BY <2>1, <2>4, <2>5, <2>6 DEF Caught
<1>14. Pays(K, q)
  <2> SUFFICES ASSUME NEW n, NEW t, <<n, t>> \in q.spendmap, n \in K PROVE Outputs[t] \cap Mine # {}
    BY DEF Pays
  <2>1. CASE <<n, t>> \in db.spendmap
    BY <1>1, <2>1 DEF Pays
  <2>2. CASE <<n, t>> \notin db.spendmap
    <3>1. t = u /\ n \in Inputs[u] /\ n \in Transparent /\ n \notin db.received
      BY <2>2 DEF StoredOutputs
    <3>2. CASE Outputs[u] \ Late # {}
      BY <3>1, <3>2, PaysWallet
    <3>3. CASE Inputs[u] = {n}
      <4>1. n \notin db.nfs
        BY <3>1 DEF Tables, Keys
      <4> QED BY <3>1, <3>3, <4>1 DEF Relevant
    <3> QED BY <3>1, <3>2, <3>3 DEF Traceable
  <2> QED BY <2>1, <2>2
<1> QED BY <1>1, <1>2, <1>3, <1>11, <1>13, <1>14 DEF Followed

-----------------------------------------------------------------------------
(* The best chain and the blocks that left it *)

LEMMA MineValid ==
  ASSUME ChainOK, Valid(chain), NEW S \in SUBSET Txs, MineBlock(S)
  PROVE  Valid(chain')
<1> DEFINE l == Len(chain)
<1>1. ChainOK'
  BY MineChain
<1>2. chain \in Seq(SUBSET Txs) /\ l \in Nat /\ DOMAIN chain = 1..l /\ chain' = Append(chain, S)
  BY DEF ChainOK, MineBlock
<1>3. /\ DOMAIN chain' = 1..(l + 1) /\ chain'[l + 1] = S
      /\ \A k \in 1..l : chain'[k] = chain[k]
  BY <1>2
<1>4. Minable(S)
  BY DEF MineBlock
<1>5. ASSUME NEW i \in 1..(l + 1), NEW t \in chain'[i], NEW n \in Inputs[t]
      PROVE  \E k \in 1..i : Creator(n) \in chain'[k] /\ (n \notin Transparent => k < i)
  <2>1. CASE i \in 1..l
    <3>1. t \in chain[i] /\ i \in DOMAIN chain
      BY <1>2, <1>3, <2>1
    <3>2. PICK k \in 1..i : Creator(n) \in chain[k] /\ (n \notin Transparent => k < i)
      BY <1>5, <3>1 DEF Valid
    <3>3. k \in 1..l
      BY <1>2, <2>1
    <3> QED BY <1>3, <3>2, <3>3
  <2>2. CASE i = l + 1
    <3>1. t \in S
      BY <1>3, <2>2
    <3>2. Creator(n) \in OnChain \/ (n \in Transparent /\ Creator(n) \in S)
      BY <1>4, <1>5, <3>1 DEF Minable
    <3>3. CASE Creator(n) \in OnChain
      <4>1. PICK k \in 1..l : Creator(n) \in chain[k]
        BY <1>2, <3>3 DEF OnChain
      <4>2. k \in 1..i /\ k < i
        BY <1>2, <2>2
      <4> QED BY <1>3, <4>1, <4>2
    <3>4. CASE n \in Transparent /\ Creator(n) \in S
      BY <1>2, <1>3, <2>2, <3>4
    <3> QED BY <3>2, <3>3, <3>4
  <2> QED BY <1>2, <2>1, <2>2
<1> QED BY <1>1, <1>3, <1>5 DEF Valid, ChainOK

LEMMA BlockValid ==
  ASSUME ChainOK, Valid(chain), NEW h \in Nat, h <= Len(chain)
  PROVE  Valid(Block(h))
<1>1. DOMAIN Block(h) = 1..h /\ \A k \in 1..h : Block(h)[k] = chain[k]
  BY BlockIs
<1>2. \A k \in 1..h : k \in DOMAIN chain
  BY DEF ChainOK
<1>3. \A i \in 1..h : \A k \in 1..i : k \in 1..h
  OBVIOUS
<1> QED BY <1>1, <1>2, <1>3 DEF Valid

\* A stored block is of the best chain, or left it above r and is below the height
\* from which a rewind reaches r.
OfChain(k) == k <= Len(chain) /\ db.blocks[k] = Block(k)
LeftAbove(r, k) ==
  r < k /\ k < r + RewindDepth /\ \A i \in 1..r : db.blocks[k][i] = chain[i]
Settled == \E r \in 0..Len(chain) : \A k \in Heights : db.blocks[k] # NoBlock => OfChain(k) \/ LeftAbove(r, k)

\* Up to where the chains part, what is stored is of one chain.
LEMMA CommonInLine ==
  ASSUME ChainOK, db \in Tables, NEW r \in 0..Len(chain), NEW h \in Heights, db.blocks[h] # NoBlock, h <= r,
         \A k \in Heights : db.blocks[k] # NoBlock => OfChain(k) \/ LeftAbove(r, k)
  PROVE  InLine(db, h)
<1> SUFFICES ASSUME NEW k \in Heights, db.blocks[k] # NoBlock PROVE Agree(db.blocks[h], db.blocks[k])
  BY DEF InLine
<1>1. h \in Nat /\ k \in Nat /\ r \in Nat /\ r <= Len(chain) /\ Len(chain) \in Nat
  BY Bounds DEF Heights, ChainOK
<1>2. db.blocks[h] = Block(h) /\ h <= Len(chain)
  BY <1>1 DEF OfChain, LeftAbove
<1>3. DOMAIN db.blocks[h] = 1..h /\ DOMAIN db.blocks[k] = 1..k
  BY BlockShape
<1>4. \A i \in 1..h : db.blocks[h][i] = chain[i]
  BY <1>1, <1>2, BlockIs
<1>5. CASE OfChain(k)
  <2>1. \A i \in 1..k : db.blocks[k][i] = chain[i]
    BY <1>1, <1>5, BlockIs DEF OfChain
  <2> QED BY <1>3, <1>4, <2>1 DEF Agree
<1>6. CASE LeftAbove(r, k)
  <2>1. \A i \in 1..h : i \in 1..r
    BY <1>1
  <2> QED BY <1>3, <1>4, <1>6, <2>1 DEF Agree, LeftAbove
<1> QED BY <1>5, <1>6

LEMMA BestInLine ==
  ASSUME ChainOK, db \in Tables, OnBest(db), NEW h \in Heights, db.blocks[h] # NoBlock
  PROVE  InLine(db, h)
<1>1. Len(chain) \in 0..Len(chain)
  BY DEF ChainOK
<1> QED BY <1>1, CommonInLine DEF OnBest, OfChain

\* A batch that does not connect rewinds to where the chains part, or below.
LEMMA RewindInLine ==
  ASSUME ChainOK, db \in Tables, Settled, NEW first \in Heights, NEW x \in 0..MaxHeight,
         SyncRewind(first, x), NEW h \in Heights, h <= x, db.blocks[h] # NoBlock
  PROVE  InLine(db, h)
<1> DEFINE k == first - 1
<1>1. PICK r \in 0..Len(chain) : \A j \in Heights : db.blocks[j] # NoBlock => OfChain(j) \/ LeftAbove(r, j)
  BY DEF Settled
<1>2. first > 1 /\ db.blocks[k] # NoBlock /\ db.blocks[k] # Block(k)
  BY DEF SyncRewind, Connects
<1>3. x = 0 \/ x + RewindDepth <= first
  BY DEF SyncRewind
<1>4. /\ h \in Nat \ {0} /\ x \in Nat /\ first \in Nat /\ r \in Nat /\ RewindDepth \in Nat /\ k \in Heights
  BY <1>2, Bounds DEF Heights, ChainOK
<1>5. LeftAbove(r, k)
  BY <1>1, <1>2, <1>4 DEF OfChain
<1>6. h <= r
  BY <1>3, <1>4, <1>5 DEF LeftAbove
<1> QED BY <1>1, <1>6, CommonInLine

LEMMA MineSettled ==
  ASSUME ChainOK, db \in Tables, Settled, NEW S \in SUBSET Txs, MineBlock(S)
  PROVE  Settled'
<1> DEFINE l == Len(chain)
<1>1. PICK r \in 0..l : \A j \in Heights : db.blocks[j] # NoBlock => OfChain(j) \/ LeftAbove(r, j)
  BY DEF Settled
<1>2. /\ chain \in Seq(SUBSET Txs) /\ l \in Nat /\ DOMAIN chain = 1..l /\ chain' = Append(chain, S)
      /\ db' = db /\ Heights' = Heights /\ NoBlock' = NoBlock
  BY DEF ChainOK, MineBlock, Heights, NoBlock
<1>3. ChainOK' /\ Len(chain') = l + 1 /\ \A i \in 1..l : chain'[i] = chain[i]
  BY <1>2, MineChain
<1>4. r \in Nat /\ r <= l /\ r \in 0..Len(chain')
  BY <1>2, <1>3
<1>5. ASSUME NEW k \in Heights, OfChain(k) PROVE OfChain(k)'
  <2>1. k \in Nat /\ k <= l /\ k <= l + 1
    BY <1>2, <1>5, Bounds DEF Heights, OfChain
  <2>2. Block(k) = Block(k)'
    BY <1>2, <2>1 DEF Block
  <2> QED BY <1>2, <1>3, <1>5, <2>1, <2>2 DEF OfChain
<1>6. ASSUME NEW k \in Heights, LeftAbove(r, k) PROVE LeftAbove(r, k)'
  <2>1. \A i \in 1..r : chain'[i] = chain[i]
    BY <1>2, <1>3, <1>4
  <2> QED BY <1>2, <1>6, <2>1 DEF LeftAbove
<1> QED BY <1>1, <1>2, <1>4, <1>5, <1>6 DEF Settled

LEMMA ReorgSettled ==
  ASSUME MaxReorgDepth < RewindDepth, ChainOK, db \in Tables, OnBest(db), NEW h \in 0..MaxHeight, Reorg(h)
  PROVE  Settled'
<1>1. /\ chain \in Seq(SUBSET Txs) /\ Len(chain) \in Nat /\ h \in Nat /\ h < Len(chain)
      /\ Len(chain) <= h + MaxReorgDepth /\ chain' = Block(h) /\ db' = db
      /\ Heights' = Heights /\ NoBlock' = NoBlock /\ MaxReorgDepth \in Nat /\ RewindDepth \in Nat
  BY Bounds DEF ChainOK, Reorg, Heights, NoBlock
<1>2. Len(chain') = h /\ \A i \in 1..h : chain'[i] = chain[i]
  BY <1>1, BlockIs
<1>3. ASSUME NEW k \in Heights, db.blocks[k] # NoBlock
      PROVE  OfChain(k)' \/ LeftAbove(h, k)'
  <2>1. k \in Nat /\ k <= Len(chain) /\ db.blocks[k] = Block(k)
    BY <1>3, Bounds DEF Heights, OnBest
  <2>2. CASE k <= h
    <3>1. Block(k) = Block(k)'
      BY <1>1, <1>2, <2>1, <2>2 DEF Block
    <3> QED BY <1>1, <1>2, <2>1, <2>2, <3>1 DEF OfChain
  <2>3. CASE h < k
    <3>1. \A i \in 1..h : db.blocks[k][i] = chain'[i]
      <4>1. \A i \in 1..h : i \in 1..k
        BY <1>1, <2>1, <2>3
      <4> QED BY <1>2, <2>1, <4>1, BlockIs
    <3>2. k < h + RewindDepth
      BY <1>1, <2>1
    <3> QED BY <1>1, <2>3, <3>1, <3>2 DEF LeftAbove
  <2> QED BY <1>1, <2>1, <2>2, <2>3
<1>4. h \in 0..Len(chain')
  BY <1>1, <1>2
<1> QED BY <1>1, <1>3, <1>4 DEF Settled

\* What is stored new is of the best chain.
LEMMA SettledKept ==
  ASSUME Settled, chain' = chain,
         \A k \in Heights : \/ db'.blocks[k] \in {NoBlock, db.blocks[k]}
                            \/ k <= Len(chain) /\ db'.blocks[k] = Block(k)
  PROVE  Settled'
<1>1. PICK r \in 0..Len(chain) : \A j \in Heights : db.blocks[j] # NoBlock => OfChain(j) \/ LeftAbove(r, j)
  BY DEF Settled
<1>2. Heights' = Heights /\ NoBlock' = NoBlock /\ \A k : Block(k)' = Block(k)
  BY DEF Heights, NoBlock, Block
<1>3. ASSUME NEW k \in Heights, db'.blocks[k] # NoBlock PROVE OfChain(k)' \/ LeftAbove(r, k)'
  <2>1. CASE db'.blocks[k] = db.blocks[k]
    BY <1>1, <1>2, <1>3, <2>1 DEF OfChain, LeftAbove
  <2>2. CASE k <= Len(chain) /\ db'.blocks[k] = Block(k)
    BY <1>2, <2>2 DEF OfChain
  <2> QED BY <1>3, <2>1, <2>2
<1> QED BY <1>1, <1>2, <1>3 DEF Settled

-----------------------------------------------------------------------------
(* Every step follows the spends *)

\* The later reorg, or the truncation asked for, waits until the wallet is back on
\* the best chain.
ReorgsApart == \A h \in 0..MaxHeight : Reorg(h) \/ Truncate(h) => OnBest(db)

FollowInv(K) == TypeInv /\ Valid(chain) /\ Settled /\ Followed(K, db, scanned)

LEMMA Carry ==
  ASSUME NEW K, NEW d, NEW done, Followed(K, d, done), db' = d, scanned' = done, joined' = joined
  PROVE  Followed(K, db, scanned)'
<1>1. /\ \A h : InLine(d, h) <=> InLine(db, h)'
      /\ \A h, t : InBlock(d, h, t) <=> InBlock(db, h, t)'
  BY DEF InLine, InBlock, Heights, NoBlock, Content, Agree
<1>2. AllStored(db)'
  BY <1>1 DEF Followed, AllStored, InBlock, NoBlock, Content
<1>3. ValidBlocks(db)'
  <2>1. \A c : Valid(c)' <=> Valid(c)
    BY DEF Valid, Creator
  <2> QED BY <2>1 DEF Followed, ValidBlocks, Heights, NoBlock
<1>4. Mine' = Mine /\ \A n : Creator(n)' = Creator(n)
  BY DEF Mine, Creator
<1>5. Received(db, scanned)'
  BY <1>1, <1>4 DEF Followed, Received, Content
<1>6. \A n : Has(db, scanned, n)' <=> Has(d, done, n)
  BY <1>1, <1>4 DEF Has
<1>7. \A h, t, n : Caught(d, done, h, t, n) => Caught(db, scanned, h, t, n)'
  BY <1>1, <1>4, <1>6 DEF Caught, Linked, LinkedBy, RowOf
<1>8. Spends(K, db, scanned)'
  BY <1>1, <1>4, <1>7 DEF Followed, Spends, Content
<1>9. Pays(K, db)'
  BY <1>4 DEF Followed, Pays
<1> QED BY <1>2, <1>3, <1>5, <1>8, <1>9 DEF Followed, Heights, NoBlock

\* A new account has all blocks scanned again.
LEMMA JoinFollowed ==
  ASSUME NEW K, TypeInv, Followed(K, db, scanned), AddAccount
  PROVE  Followed(K, db, scanned)'
<1>1. db' = db /\ scanned' = {} /\ joined' = TRUE
  BY DEF AddAccount
<1>2. Mine \subseteq Mine'
  BY <1>1 DEF Mine, TypeInv
<1>3. AllStored(db)'
  BY <1>1 DEF Followed, AllStored, InBlock, NoBlock, Content
<1>4. ValidBlocks(db)'
  <2>1. \A c : Valid(c)' <=> Valid(c)
    BY DEF Valid, Creator
  <2> QED BY <1>1, <2>1 DEF Followed, ValidBlocks, Heights, NoBlock
<1>5. Received(db, scanned)' /\ Spends(K, db, scanned)'
  BY <1>1 DEF Received, Spends
<1>6. Pays(K, db)'
  BY <1>1, <1>2 DEF Followed, Pays
<1> QED BY <1>1, <1>3, <1>4, <1>5, <1>6 DEF Followed

LEMMA FollowStep ==
  ASSUME ~AheadOfScan, NonExpiring = {}, NEW K, Traceable(K), FollowInv(K), ReorgsApart, [Next]_vars
  PROVE  Followed(K, db, scanned)'
<1>1. /\ TypeInv /\ ChainOK /\ db \in Tables /\ Valid(chain) /\ Settled /\ Followed(K, db, scanned)
      /\ AllStored(db) /\ K \subseteq Notes
  BY DEF FollowInv, TypeInv, Followed, Traceable
<1>2. MaxHeight \in Nat /\ Heights = 1..MaxHeight
  BY Bounds DEF Heights
<1>3. CASE UNCHANGED <<db, scanned, joined>>
  BY <1>1, <1>3, Carry
<1>4. ASSUME NEW x \in Int, TruncateTo(x), UNCHANGED joined,
             \A h \in Heights : h <= x /\ db.blocks[h] # NoBlock => InLine(db, h)
      PROVE  Followed(K, db, scanned)'
  <2>1. Followed(K, Truncated(db, x), scanned \cap (1..x))
    BY <1>1, <1>4, TruncateFollowed
  <2> QED BY <1>4, <2>1, Carry DEF TruncateTo
<1>5. ASSUME NEW h \in 0..MaxHeight, Truncate(h) PROVE Followed(K, db, scanned)'
  <2>1. OnBest(db)
    BY <1>5 DEF ReorgsApart
  <2>2. \A k \in Heights : k <= h /\ db.blocks[k] # NoBlock => InLine(db, k)
    BY <1>1, <2>1, BestInLine
  <2>3. h \in Int /\ TruncateTo(h) /\ UNCHANGED joined
    BY <1>5 DEF Truncate, TruncateTo
  <2> QED BY <1>4, <2>2, <2>3
<1>6. ASSUME NEW first \in Heights, NEW x \in 0..MaxHeight, SyncRewind(first, x)
      PROVE  Followed(K, db, scanned)'
  <2>1. \A h \in Heights : h <= x /\ db.blocks[h] # NoBlock => InLine(db, h)
    BY <1>1, <1>6, RewindInLine
  <2>2. x \in Int /\ TruncateTo(x) /\ UNCHANGED joined
    BY <1>6 DEF SyncRewind, TruncateTo
  <2> QED BY <1>4, <2>1, <2>2
<1>7. ASSUME NEW h \in 0..MaxHeight, QueueRescan(h) PROVE Followed(K, db, scanned)'
  <2>1. scanned' \subseteq scanned /\ db' = db /\ joined' = joined
    BY <1>7 DEF QueueRescan
  <2>2. Followed(K, db, scanned')
    BY <1>1, <2>1, FewerFollowed
  <2> QED BY <2>1, <2>2, Carry
<1>8. ASSUME NEW first \in Heights, NEW last \in Heights, Scan(first, last)
      PROVE  Followed(K, db, scanned)'
  <2> DEFINE batch == Batch(first, last)
             done == scanned \cup (first..last)
  <2>1. first <= last /\ last <= Len(chain) /\ Due(first, last)
    BY <1>1, <1>8, DueBounds DEF Scan
  <2>2. batch.ok /\ db' = PruneSpends(batch.db) /\ scanned' = done /\ joined' = joined
    BY <1>8 DEF Scan
  <2>3. batch \in States /\ Followed(K, batch.db, done)
    BY <1>1, <2>1, <2>2, BatchFollowed
  <2> HIDE DEF batch
  <2>4. batch.db \in Tables /\ scanned \subseteq done
    BY <2>3 DEF States
  <2> HIDE DEF done
  <2>5. Followed(K, PruneSpends(batch.db), done)
    BY <1>1, <2>3, <2>4, PruneFollowed
  <2> QED BY <2>2, <2>5, Carry
<1>9. ASSUME NEW t \in Txs, NEW h \in {0} \cup Heights, StoreDecryptedTx(t, h),
             h # 0 => InBlock(db, h, t), h = 0 => t \in Unconfirmed, UNCHANGED <<scanned, joined>>
      PROVE  Followed(K, db, scanned)'
  <2>1. StoredTx(t, h, db') /\ IF Relevant(t) THEN StoredOutputs(t, h, db') ELSE Unread(db')
    BY <1>1, <1>9, StoreDecryptedTxIs
  <2>2. AllStored(db') /\ db'.blocks = db.blocks
    BY <1>1, <1>9, <2>1, StoredTxStored DEF StoredTx
  <2>3. Followed(K, db', scanned)
    <3>1. CASE Relevant(t)
      BY <1>1, <1>9, <2>1, <2>2, <3>1, StoreFollowed
    <3>2. CASE ~Relevant(t)
      BY <1>1, <2>1, <2>2, <3>2, UnreadFollowed
    <3> QED BY <3>1, <3>2
  <2> QED BY <1>9, <2>3, Carry
<1>10. ASSUME NEW t \in Txs, Enhance(t) PROVE Followed(K, db, scanned)'
  <2> DEFINE h == HeightOf(t)
  <2>1. \E k \in DOMAIN chain : t \in chain[k]
    BY <1>10 DEF Enhance, OnChain
  <2>2. h \in DOMAIN chain /\ t \in chain[h]
    BY <2>1 DEF HeightOf
  <2>3. h \in Heights /\ h <= Len(chain)
    BY <1>1, <1>2, <2>2 DEF ChainOK
  <2>4. db.blocks[h] = Block(h) /\ StoreDecryptedTx(t, h) /\ UNCHANGED <<scanned, joined>>
    BY <1>10 DEF Enhance
  <2> HIDE DEF h
  <2>5. InBlock(db, h, t) /\ h # 0
    BY <1>1, <1>2, <2>2, <2>3, <2>4, StoredBlock DEF InBlock
  <2> QED BY <1>9, <2>3, <2>4, <2>5
<1>11. ASSUME NEW t \in Txs, NotRecognized(t) PROVE Followed(K, db, scanned)'
  <2>1. StoredTx(t, 0, db') /\ Unread(db') /\ UNCHANGED <<scanned, joined>>
    BY <1>1, <1>11, RetrieveIs DEF NotRecognized
  <2>2. AllStored(db') /\ db'.blocks = db.blocks
    BY <1>1, <2>1, StoredTxStored DEF StoredTx
  <2>3. Followed(K, db', scanned)
    BY <1>1, <2>1, <2>2, UnreadFollowed
  <2> QED BY <2>1, <2>3, Carry
<1>12. ASSUME NEW t \in Txs, SeeUnmined(t) PROVE Followed(K, db, scanned)'
  BY <1>9, <1>12 DEF SeeUnmined
<1>13. ASSUME NEW S \in SUBSET Txs, MineBlock(S) PROVE Followed(K, db, scanned)'
  BY <1>3, <1>13 DEF MineBlock
<1>14. ASSUME NEW h \in 0..MaxHeight, Reorg(h) PROVE Followed(K, db, scanned)'
  BY <1>3, <1>14 DEF Reorg
<1>15. CASE AddAccount
  BY <1>1, <1>15, JoinFollowed
<1>16. CASE UNCHANGED vars
  BY <1>3, <1>16 DEF vars
<1> QED BY <1>5, <1>6, <1>7, <1>8, <1>10, <1>11, <1>12, <1>13, <1>14, <1>15, <1>16 DEF Next

LEMMA ChainStep ==
  ASSUME TypeInv, Valid(chain), [Next]_vars
  PROVE  Valid(chain)'
<1>1. ASSUME NEW S \in SUBSET Txs, MineBlock(S) PROVE Valid(chain')
  BY <1>1, MineValid DEF TypeInv
<1>2. ASSUME NEW h \in 0..MaxHeight, Reorg(h) PROVE Valid(chain')
  <2>1. h \in Nat /\ h <= Len(chain) /\ chain' = Block(h)
    BY <1>2 DEF Reorg, TypeInv, ChainOK
  <2> QED BY <2>1, BlockValid DEF TypeInv
<1>3. CASE UNCHANGED chain
  BY <1>3
<1>4. Valid(chain')
  BY <1>1, <1>2, <1>3 DEF Next, vars, Truncate, TruncateTo, QueueRescan, Scan, SyncRewind, AddAccount,
     Enhance, NotRecognized, SeeUnmined
<1> QED BY <1>4 DEF Valid, Creator

LEMMA SettledStep ==
  ASSUME ~AheadOfScan, NonExpiring = {}, MaxReorgDepth < RewindDepth, NEW K, Traceable(K), FollowInv(K),
         ReorgsApart, [Next]_vars
  PROVE  Settled'
<1>1. /\ TypeInv /\ ChainOK /\ db \in Tables /\ Valid(chain) /\ Settled /\ Followed(K, db, scanned)
  BY DEF FollowInv, TypeInv
<1>2. MaxHeight \in Nat /\ Heights = 1..MaxHeight
  BY Bounds DEF Heights
<1>3. CASE db'.blocks = db.blocks /\ chain' = chain
  BY <1>1, <1>3, SettledKept
<1>4. ASSUME NEW S \in SUBSET Txs, MineBlock(S) PROVE Settled'
  BY <1>1, <1>4, MineSettled
<1>5. ASSUME NEW h \in 0..MaxHeight, Reorg(h) PROVE Settled'
  BY <1>1, <1>5, ReorgSettled DEF ReorgsApart
<1>6. ASSUME NEW x \in Int, TruncateTo(x) PROVE Settled'
  <2>1. \A k \in Heights : Truncated(db, x).blocks[k] \in {NoBlock, db.blocks[k]}
    BY <1>1, TruncatedIs
  <2> QED BY <1>1, <1>6, <2>1, SettledKept DEF TruncateTo
<1>7. ASSUME NEW first \in Heights, NEW last \in Heights, Scan(first, last) PROVE Settled'
  <2> DEFINE batch == Batch(first, last)
  <2>1. first <= last /\ last <= Len(chain) /\ Due(first, last)
    BY <1>1, <1>7, DueBounds DEF Scan
  <2>2. batch.ok /\ db' = PruneSpends(batch.db) /\ chain' = chain
    BY <1>7 DEF Scan
  <2>3. batch \in States
        /\ \A k \in Heights : batch.db.blocks[k] = IF k \in first..last THEN Block(k) ELSE db.blocks[k]
    BY <1>1, <2>1, <2>2, BatchFollowed
  <2> HIDE DEF batch
  <2>4. db'.blocks = batch.db.blocks
    BY <2>2, <2>3, PruneIs DEF States
  <2>5. \A k \in first..last : k <= Len(chain)
    BY <1>1, <1>2, <2>1 DEF ChainOK
  <2> QED BY <1>1, <2>2, <2>3, <2>4, <2>5, SettledKept
<1>8. ASSUME NEW t \in Txs, NEW h \in {0} \cup Heights, StoreDecryptedTx(t, h), UNCHANGED chain PROVE Settled'
  BY <1>1, <1>3, <1>8, StoreDecryptedTxIs DEF StoredTx
<1>9. ASSUME NEW t \in Txs, Enhance(t) PROVE Settled'
  <2>1. \E k \in DOMAIN chain : t \in chain[k]
    BY <1>9 DEF Enhance, OnChain
  <2>2. HeightOf(t) \in DOMAIN chain
    BY <2>1 DEF HeightOf
  <2>3. HeightOf(t) \in Heights
    BY <1>1, <1>2, <2>2 DEF ChainOK
  <2> QED BY <1>8, <1>9, <2>3 DEF Enhance
<1>10. ASSUME NEW t \in Txs, NotRecognized(t) PROVE Settled'
  <2>1. db'.blocks = db.blocks
    BY <1>1, <1>10, RetrieveIs DEF NotRecognized, StoredTx
  <2> QED BY <1>3, <1>10, <2>1 DEF NotRecognized
<1>11. ASSUME NEW t \in Txs, SeeUnmined(t) PROVE Settled'
  BY <1>8, <1>11 DEF SeeUnmined
<1>12. ASSUME NEW h \in 0..MaxHeight, Truncate(h) \/ QueueRescan(h) PROVE Settled'
  BY <1>2, <1>3, <1>6, <1>12 DEF Truncate, QueueRescan
<1>13. ASSUME NEW first \in Heights, NEW x \in 0..MaxHeight, SyncRewind(first, x) PROVE Settled'
  BY <1>2, <1>6, <1>13 DEF SyncRewind
<1>14. CASE AddAccount
  BY <1>3, <1>14 DEF AddAccount
<1>15. CASE UNCHANGED vars
  BY <1>3, <1>15 DEF vars
<1> QED BY <1>4, <1>5, <1>7, <1>9, <1>10, <1>11, <1>12, <1>13, <1>14, <1>15 DEF Next

LEMMA FollowInit == ASSUME NEW K, Init PROVE FollowInv(K)
<1>1. chain = << >> /\ db = EmptyDb /\ scanned = {} /\ TypeInv
  BY TypeInit DEF Init
<1>2. Valid(chain)
  BY <1>1 DEF Valid
<1>3. \A h \in Heights : db.blocks[h] = NoBlock
  BY <1>1 DEF EmptyDb
<1>4. Settled
  <2>1. 0 \in 0..Len(chain)
    BY <1>1
  <2> QED BY <1>3, <2>1 DEF Settled
<1>5. Followed(K, db, scanned)
  <2>1. AllStored(db) /\ ValidBlocks(db) /\ Pays(K, db)
    BY <1>1, <1>3, StoredInit DEF ValidBlocks, Pays, EmptyDb
  <2> QED BY <1>1, <2>1 DEF Followed, Received, Spends
<1> QED BY <1>1, <1>2, <1>4, <1>5 DEF FollowInv

LEMMA FollowInvStep ==
  ASSUME ~AheadOfScan, NonExpiring = {}, MaxReorgDepth < RewindDepth, NEW K, Traceable(K)
  PROVE  FollowInv(K) /\ [Next]_vars /\ [ReorgsApart]_vars => FollowInv(K)'
<1> SUFFICES ASSUME FollowInv(K), [Next]_vars, [ReorgsApart]_vars PROVE FollowInv(K)'
  OBVIOUS
<1>1. TypeInv /\ Valid(chain)
  BY DEF FollowInv
<1>2. TypeInv' /\ Valid(chain)'
  BY <1>1, TypeStep, ChainStep
<1>3. CASE ReorgsApart
  <2>1. Followed(K, db, scanned)' /\ Settled'
    BY <1>3, FollowStep, SettledStep
  <2> QED BY <1>2, <2>1 DEF FollowInv
<1>4. CASE UNCHANGED vars
  <2>1. Followed(K, db, scanned)'
    BY <1>4, Carry DEF vars, FollowInv
  <2>2. Settled'
    BY <1>4, SettledKept DEF vars, FollowInv
  <2> QED BY <1>2, <2>1, <2>2 DEF FollowInv
<1> QED BY <1>3, <1>4

-----------------------------------------------------------------------------
(* No spend is missed *)

LEMMA NotesAre ==
  ASSUME NEW K, Notes \ Transparent \subseteq K, FollowInv(K)
  PROVE  NoMissedNote
<1> SUFFICES ASSUME OneChain, NEW h \in scanned, NEW t \in Content(db.blocks[h]),
                    NEW n \in Inputs[t] \cap HeldNotes
             PROVE  Recorded(h, t, n)
  BY DEF NoMissedNote
<1>1. /\ db \in Tables /\ scanned \subseteq Heights /\ \A k \in scanned : db.blocks[k] # NoBlock
      /\ Spends(K, db, scanned)
  BY DEF FollowInv, TypeInv, Followed
<1>2. InLine(db, h)
  BY <1>1, ChainInLine DEF Stored
<1>3. n \in Notes \ Transparent /\ n \in Mine
  BY <1>1 DEF HeldNotes, Tables, Dbs, Keys
<1>4. Caught(db, scanned, h, t, n)
  BY <1>1, <1>2, <1>3 DEF Spends
<1>5. Has(db, scanned, n)
  BY <1>1, <1>3 DEF HeldNotes, Has, InBlock
<1> QED BY <1>3, <1>4, <1>5 DEF Caught, Linked, Recorded

LEMMA OutputsAre ==
  ASSUME NEW K, Transparent \subseteq K, FollowInv(K)
  PROVE  NoMissedOutput
<1> SUFFICES ASSUME OneChain, NEW h \in scanned, NEW t \in Content(db.blocks[h]),
                    NEW n \in Inputs[t] \cap db.received \cap Transparent
             PROVE  Recorded(h, t, n) \/ (Creator(n) \in Content(db.blocks[h]) /\ Requested(t))
  BY DEF NoMissedOutput
<1>1. /\ db \in Tables /\ scanned \subseteq Heights /\ \A k \in scanned : db.blocks[k] # NoBlock
      /\ Spends(K, db, scanned)
  BY DEF FollowInv, TypeInv, Followed
<1>2. InLine(db, h)
  BY <1>1, ChainInLine DEF Stored
<1>3. n \in Mine /\ Has(db, scanned, n)
  BY <1>1 DEF Tables, Keys, Has
<1>4. Caught(db, scanned, h, t, n)
  BY <1>1, <1>2, <1>3 DEF Spends
<1> QED BY <1>3, <1>4 DEF Caught, Linked, Recorded, InBlock, Requested

\* Where servers report only what was scanned and every transaction expires, no
\* spend of a note is missed, whatever the order in which scan_cached_blocks,
\* store_decrypted_tx, rescans, rewinds and a new account come: the nullifier is
\* in nullifier_map until the note is received, or unspent when the spend is
\* scanned.  A rewind of the sync loop reaches below a reorg, and the next reorg or
\* requested truncation comes when the wallet is back on the best chain.
THEOREM NoteSpendsRecorded ==
  ASSUME ~AheadOfScan, NonExpiring = {}, MaxReorgDepth < RewindDepth
  PROVE  Spec /\ [][ReorgsApart]_vars => []NoMissedNote
<1>1. Traceable(Notes \ Transparent)
  BY DEF Traceable
<1>2. Init => FollowInv(Notes \ Transparent)
  BY FollowInit
<1>3. FollowInv(Notes \ Transparent) /\ [Next]_vars /\ [ReorgsApart]_vars
        => FollowInv(Notes \ Transparent)'
  BY <1>1, FollowInvStep
<1>4. FollowInv(Notes \ Transparent) => NoMissedNote
  BY NotesAre
<1> QED BY <1>2, <1>3, <1>4, PTL DEF Spec

\* Nor is a spend of a transparent output, as put_transparent_output finds it in
\* transparent_spend_locator_map or in transparent_spend_map, where each output has
\* one possible spender, which pays the wallet or spends nothing else of it and is
\* not seen unmined.  Any other spender may be stored first for what else it spends:
\* put_transparent_output then links it by transparent_spend_map and does not look
\* for the block it was scanned in.
THEOREM SpendsRecorded ==
  ASSUME ~AheadOfScan, NonExpiring = {}, MaxReorgDepth < RewindDepth, Traceable(Notes)
  PROVE  Spec /\ [][ReorgsApart]_vars => []NoMissedSpend
<1>1. Init => FollowInv(Notes)
  BY FollowInit
<1>2. FollowInv(Notes) /\ [Next]_vars /\ [ReorgsApart]_vars => FollowInv(Notes)'
  BY FollowInvStep
<1>3. ASSUME FollowInv(Notes) PROVE NoMissedSpend
  <2>1. Transparent \subseteq Notes
    BY Bounds
  <2> QED BY <1>3, <2>1, NotesAre, OutputsAre DEF NoMissedSpend
<1>4. FollowInv(Notes) => NoMissedSpend
  BY <1>3
<1> QED BY <1>1, <1>2, <1>4, PTL DEF Spec

=============================================================================
