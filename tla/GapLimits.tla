----------------------------- MODULE GapLimits -----------------------------
(***************************************************************************)
(* Transparent addresses under gap limits.  A wallet derives addresses by  *)
(* index from a seed, keeps a row for every address it would recognise,    *)
(* hands out only addresses within a window that follows the used ones,    *)
(* and asks a server for the unspent outputs of its rows, from a height it *)
(* derives from the uses it knows.  Several wallets may hold the same      *)
(* seed: the one that hands out addresses, and one restored later, which   *)
(* has nothing but the seed and has to find what was paid.                 *)
(*                                                                         *)
(* One account is modelled.  Indices stand for the non-hardened child      *)
(* indices of each key scope, so the window is cut off at the last index   *)
(* as saturating_add does.  Shielded receipts at a unified address, which  *)
(* count as uses too, and imported keys are not modelled.                  *)
(***************************************************************************)
EXTENDS Integers, FiniteSets, Sequences, Functions

CONSTANTS
  Wallets,      \* the databases that hold the seed
  Issuers,      \* those that hand out addresses
  Scopes,       \* the key scopes the server is queried for
  External,     \* the one whose addresses are parts of unified addresses
  Limit,        \* the gap limit of each scope
  MaxIndex,     \* the last child index of each scope
  Conforming,   \* the external indices at which a unified address exists
  Payments,     \* the outputs that may be paid to the wallet
  MaxHeight,
  SpentUnseen,  \* whether one may be spent before every wallet saw it
  Scattered,    \* whether payments that a reorg takes back may be mined apart
  MaxEvents     \* how many spends, reorgs, rewinds and sightings in the mempool

Indices(s) == 0..MaxIndex[s]
Addresses == UNION {{s} \X Indices(s) : s \in Scopes}
Nowhere == <<External, -1>>

ASSUME Bounds ==
  /\ Issuers \subseteq Wallets /\ External \in Scopes
  /\ MaxIndex \in [Scopes -> Nat] /\ Limit \in [Scopes -> Nat \ {0}]
  /\ Conforming \subseteq Indices(External)
  /\ {SpentUnseen, Scattered} \subseteq BOOLEAN
  /\ {MaxHeight, MaxEvents} \subseteq Nat

VARIABLES
  tip,      \* the height of the best chain
  to,       \* the address each payment goes to, Nowhere before it is made
  at,       \* the height it is mined at, 0 for none
  spent,    \* the payments spent on the best chain
  evicted,  \* those a reorg has taken back
  rows,     \* the rows of `addresses`, for each wallet,
  exposed,  \* those of them with an exposure height
  seen,     \* the payments in transparent_received_outputs
  mined,    \* and the mined_height of their transactions, 0 for NULL
  events    \* how many of those there were

network == <<tip, to, at, spent, evicted>>
tables == <<rows, exposed, seen, mined>>
vars == <<network, tables, events>>

------------------------------------------------------------------------------
(* The gap.  m is what a wallet knows to be mined. *)

MinedAt(m, s) == {p \in Payments : m[p] # 0 /\ to[p][1] = s}
Used(m, s) == {to[p][2] : p \in MinedAt(m, s)}

\* find_gap_start: the successor of the first used index that no used index
\* follows within the limit.
GapStart(U, limit) ==
  LET ends == {u \in U : U \cap (u + 1)..(u + limit) = {}}
  IN  IF U = {} THEN 0 ELSE (CHOOSE u \in ends : \A v \in ends : u <= v) + 1

Start(m, s) == GapStart(Used(m, s), Limit[s])
Window(m, s) ==
  LET start == Start(m, s) IN {s} \X (Indices(s) \cap start..(start + Limit[s] - 1))

Least(S) == CHOOSE h \in S : \A k \in S : h <= k

\* A mutated form: only the last use counts.
QueriedFromLast(w) ==
  LET m       == mined[w]
      last(s) == {m[p] : p \in {q \in MinedAt(m, s) : to[q][2] = Start(m, s) - 1}}
      heights == UNION {last(s) : s \in Scopes}
  IN  IF heights = {} THEN 1 ELSE Least(heights)

\* utxo_query_height, with the birthday at height 1.
QueriedFrom(w) ==
  LET m       == mined[w]
      late(s) == LET from == Start(m, s) - (Limit[s] + 1)
                 IN  {m[p] : p \in {q \in MinedAt(m, s) : to[q][2] >= from}}
      heights == UNION {late(s) : s \in Scopes}
  IN  IF heights = {} THEN 1 ELSE Least(heights)

------------------------------------------------------------------------------
(* The network. *)

Pay(p, a) ==
  /\ to[p] = Nowhere
  /\ \E w \in Wallets : a \in exposed[w]
  /\ to' = [to EXCEPT ![p] = a]
  /\ UNCHANGED <<tip, at, spent, evicted, tables, events>>

\* Payments may wait in the mempool for any time; blocks without one do not
\* matter.
MineBlock(S) ==
  /\ tip < MaxHeight /\ S # {}
  /\ \A p \in S : to[p] # Nowhere
  /\ Scattered \/ evicted \subseteq S
  /\ tip' = tip + 1
  /\ at' = [p \in Payments |-> IF p \in S THEN tip + 1 ELSE at[p]]
  /\ evicted' = evicted \ S
  /\ UNCHANGED <<to, spent, tables, events>>

Spend(p) ==
  /\ events < MaxEvents /\ p \notin spent /\ at[p] # 0
  /\ SpentUnseen \/ \A w \in Wallets : p \in seen[w] /\ mined[w][p] = at[p]
  /\ spent' = spent \cup {p}
  /\ events' = events + 1
  /\ UNCHANGED <<tip, to, at, evicted, tables>>

Reorg(h) ==
  /\ 0 < h /\ h < tip /\ events < MaxEvents
  /\ LET lost == {p \in Payments : at[p] > h}
     IN  /\ at' = [p \in Payments |-> IF p \in lost THEN 0 ELSE at[p]]
         /\ evicted' = evicted \cup lost
         /\ spent' = spent \ lost
  /\ tip' = h
  /\ events' = events + 1
  /\ UNCHANGED <<to, tables>>

------------------------------------------------------------------------------
(* Addresses. *)

Expose(w, new) ==
  /\ exposed' = [exposed EXCEPT ![w] = @ \cup new]
  /\ UNCHANGED <<network, seen, mined, events>>

\* The first n addresses of the window that were never handed out.
Reservable(w, s, n, among) ==
  LET free == {a \in Window(mined[w], s) \ exposed[w] : a \in among}
  IN  {a \in free : Cardinality({b \in free : b[2] < a[2]}) < n}

\* get_next_available_address for a request that needs a transparent receiver,
\* of the unified addresses that exist at the indices `valid`.
NextAddress(w, valid) ==
  LET s         == External
      generated == rows[w] \cup Window(mined[w], s)
      new       == Reservable(w, s, 1, {s} \X valid)
  IN  /\ w \in Issuers /\ new # {}
      /\ rows' = [rows EXCEPT ![w] = generated]
      /\ Expose(w, new)

\* reserve_next_n_addresses: only what was generated before, and all or nothing.
Reserve(w, s, n) ==
  LET new == Reservable(w, s, n, rows[w])
  IN  /\ w \in Issuers /\ s # External
      /\ Cardinality(new) = n
      /\ UNCHANGED rows
      /\ Expose(w, new)

------------------------------------------------------------------------------
(* Learning of payments. *)

\* What get_address_utxos_stream answers.
Unspent(w) ==
  LET from == QueriedFrom(w)
  IN  {p \in Payments \ spent : at[p] >= from /\ to[p] \in rows[w]}

\* What of it has arrived, in order of height, when the stream ends or breaks;
\* an end that is stored already changes nothing and is left out.
Streams(w) ==
  LET all       == Unspent(w)
      news      == {p \in all : mined[w][p] # at[p]}
      arrived   == {Q \in SUBSET all : \A p \in all \ Q, q \in Q : at[q] <= at[p]}
      sorted(Q) == {o \in [1..Cardinality(Q) -> Q] :
                      /\ o[Len(o)] \in news
                      /\ \A i, j \in DOMAIN o : i < j => o[i] # o[j] /\ at[o[i]] <= at[o[j]]}
  IN  IF news = {} THEN {} ELSE UNION {sorted(Q) : Q \in arrived \ {{}}}

\* The rows that the gap asks for after each output of o; known[k] is what the
\* wallet knows to be mined once the k-th is stored.
GapRows(o, known) == UNION {Window(known[k], to[o[k]][1]) : k \in DOMAIN o}

\* put_transparent_output for each output of o, in order.
PutOutputs(w, o, known) ==
  /\ seen' = [seen EXCEPT ![w] = @ \cup Range(o)]
  /\ mined' = [mined EXCEPT ![w] = known[Len(o)]]
  /\ exposed' = [exposed EXCEPT ![w] = @ \cup {to[p] : p \in Range(o)}]
  /\ rows' = [rows EXCEPT ![w] = @ \cup GapRows(o, known)]
  /\ UNCHANGED network

\* refresh_utxos: every output of the stream is stored as it comes.
Refresh(w, o) ==
  LET first(k) == {o[i] : i \in 1..k}
      known(k) == [p \in Payments |-> IF p \in first(k) THEN at[p] ELSE mined[w][p]]
  IN  /\ PutOutputs(w, o, [k \in DOMAIN o |-> known(k)])
      /\ UNCHANGED events

\* store_decrypted_tx of an unmined transaction.
SeeUnmined(w, p) ==
  /\ events < MaxEvents
  /\ p \notin seen[w] /\ at[p] = 0 /\ to[p] \in rows[w]
  /\ PutOutputs(w, <<p>>, <<mined[w]>>)
  /\ events' = events + 1

\* truncate_to_height, for the wallet's own sake or after a reorg.
Rewind(w, h) ==
  /\ events < MaxEvents
  /\ \E p \in Payments : mined[w][p] > h
  /\ mined' = [mined EXCEPT ![w] = [p \in Payments |-> IF @[p] > h THEN 0 ELSE @[p]]]
  /\ events' = events + 1
  /\ UNCHANGED <<network, rows, exposed, seen>>

------------------------------------------------------------------------------
\* add_account generates the first window of every scope.
Init ==
  /\ tip = 1
  /\ to = [p \in Payments |-> Nowhere]
  /\ at = [p \in Payments |-> 0]
  /\ spent = {} /\ evicted = {}
  /\ rows = [w \in Wallets |-> {a \in Addresses : a[2] < Limit[a[1]]}]
  /\ exposed = [w \in Wallets |-> {}]
  /\ seen = [w \in Wallets |-> {}]
  /\ mined = [w \in Wallets |-> [p \in Payments |-> 0]]
  /\ events = 0

Next ==
  \/ \E p \in Payments, a \in Addresses : Pay(p, a)
  \/ \E S \in SUBSET {p \in Payments : at[p] = 0} : MineBlock(S)
  \/ \E p \in Payments : Spend(p)
  \/ \E h \in 0..MaxHeight : Reorg(h)
  \/ \E w \in Wallets :
       \/ \E valid \in {Indices(External), Conforming} : NextAddress(w, valid)
       \/ \E s \in Scopes : \E n \in 1..Limit[s] : Reserve(w, s, n)
       \/ \E o \in Streams(w) : Refresh(w, o)
       \/ \E p \in Payments : SeeUnmined(w, p)
       \/ \E h \in 0..MaxHeight : Rewind(w, h)

Spec == Init /\ [][Next]_vars

------------------------------------------------------------------------------
(* Properties. *)

\* The wallet's heights are those of the best chain.
Current(w) == \A p \in seen[w] : mined[w][p] \in {0, at[p]}

\* A wallet to which a query would bring nothing new knows every unspent output
\* that was paid to the seed, whichever wallet handed its address out.
NothingHidden ==
  \A w \in Wallets :
    Current(w) /\ (\A p \in Unspent(w) : mined[w][p] = at[p]) =>
      \A p \in Payments \ spent : at[p] # 0 => mined[w][p] = at[p]
==============================================================================
