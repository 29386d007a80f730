--------------------------- MODULE BatchDecryptor ---------------------------
(***************************************************************************)
(* The full block batch decryption engine (zcash_client_backend/src/sync/   *)
(* decryptor.rs) and the batch runners it drives (scanning/full.rs,         *)
(* scan.rs): cloneable Handles sending into a bounded queue, one engine     *)
(* task selecting between the queue and an idle-flush timer, batches of     *)
(* outputs running on a thread pool, and one lightweight task per request   *)
(* that waits for the outputs of that request.                              *)
(*                                                                          *)
(* The channel is tokio's bounded mpsc: a send first acquires a permit, in  *)
(* the order of arrival, then pushes. Dropping the receiver closes the      *)
(* channel and drains it, so a push whose permit was acquired before is     *)
(* left behind in a queue nobody reads.                                     *)
(***************************************************************************)
EXTENDS Naturals, SequencesExt

CONSTANTS
  Handle, Request, Reload,
  Owner,            \* request -> the Handle it is made through
  Account, Wallets, \* accounts, and the sets of them the database goes through
  Pool, PoolOf,     \* the runners, and output -> the runner that takes it
  Contents, Recipient,
  QueueSize, Threshold, StartDelay, Nothing

Outputs == DOMAIN Recipient
OutputsOf(r) == UNION {Contents[r][i] : i \in DOMAIN Contents[r]}

ASSUME Bounds == /\ QueueSize \in Nat \ {0} /\ Threshold \in Nat \ {0}
                 /\ StartDelay \in Nat \ {0}

\* An output is the copy one request carries, even when two requests are made for
\* the same block; a reload carries none.
ASSUME Payloads ==
  /\ Reload \subseteq Request /\ Wallets \subseteq SUBSET Account
  /\ PoolOf \in [Outputs -> Pool]
  /\ Contents \in [Request -> Seq(SUBSET Outputs)]
  /\ \A r \in Reload : Contents[r] = <<>>
  /\ \A r, s \in Request : r # s => OutputsOf(r) \intersect OutputsOf(s) = {}

\* Nothing is neither a set of keys nor an answer.
ASSUME Absence == /\ \A ks \in SUBSET Account : Nothing # ks
                  /\ \A ks \in SUBSET Account, os \in SUBSET Outputs :
                       Nothing # [keys |-> ks, found |-> os]

VARIABLES
  wallet,           \* accounts the reload closure would load
  handles,          \* Handles not dropped yet
  status,           \* request -> how far its send and its answer have come
  waiters,          \* requests waiting for a permit, first come first
  queue,
  engine,           \* "unstarted", "running", "failed" or "abandoned"
  keys,             \* the engine's scanning_keys
  runners,          \* [keys, acc]: the keys of the runners, pool -> outputs accumulated
  timer,            \* ticks until idle_flush completes; Nothing: not pending
  batches,          \* batches spawned on the thread pool and not run: [keys, outs]
  applied,          \* request -> scanning_keys cloned into its task
  found             \* outputs a batch has decrypted

clients == <<handles, waiters>>
work    == <<keys, runners, timer, batches, applied, found>>
vars    == <<wallet, handles, status, waiters, queue, engine, keys, runners,
             timer, batches, applied, found>>

Idle     == {"idle", "answered", "error", "refused"}
Closed   == engine \in {"failed", "abandoned"}
Permits  == {r \in Request : status[r] = "permit"}
HasRoomUnreserved == Len(queue) < QueueSize
HasRoom  == Len(queue) + Cardinality(Permits) < QueueSize
EmptyAcc == [p \in Pool |-> {}]

\* Outputs whose sender is still alive: accumulated, or in a batch not yet run.
Outstanding == (UNION Range(runners.acc)) \union (UNION {b.outs : b \in batches})

TypeOK ==
  /\ wallet \subseteq Account /\ handles \subseteq Handle
  /\ status \in [Request -> Idle \union {"waiting", "permit", "queued", "taken"}]
  /\ Range(waiters) = {r \in Request : status[r] = "waiting"}
  /\ Range(queue) = {r \in Request : status[r] = "queued"}
  /\ Len(queue) + Cardinality(Permits) <= QueueSize
  /\ engine \in {"unstarted", "running", "failed", "abandoned"}
  /\ keys \subseteq Account
  /\ runners \in [keys : SUBSET Account, acc : [Pool -> SUBSET Outputs]]
  /\ timer \in 0..StartDelay \union {Nothing}
  /\ \A b \in batches : b.keys \subseteq Account /\ b.outs \subseteq Outputs
  /\ applied \in [Request -> SUBSET Account] /\ found \subseteq Outputs

Init ==
  /\ wallet \in Wallets
  /\ handles = Handle
  /\ status = [r \in Request |-> "idle"]
  /\ waiters = <<>> /\ queue = <<>>
  /\ engine = "unstarted"
  /\ keys = {} /\ runners = [keys |-> {}, acc |-> EmptyAcc]
  /\ timer = Nothing
  /\ batches = {}
  /\ applied = [r \in Request |-> {}] /\ found = {}

----------------------------------------------------------------------------
(* The callers.                                                             *)

\* Accounts are added to and deleted from the wallet database.
ChangeAccounts ==
  /\ wallet' \in Wallets
  /\ UNCHANGED <<clients, status, queue, engine, work>>

\* queue_block, queue_tx and reload_keys: wait for a permit, or learn at once
\* that the channel is closed.
Send(r) ==
  /\ Owner[r] \in handles /\ status[r] = "idle"
  /\ IF Closed
     THEN status' = [status EXCEPT ![r] = "refused"] /\ UNCHANGED waiters
     ELSE /\ status' = [status EXCEPT ![r] = "waiting"]
          /\ waiters' = Append(waiters, r)
  /\ UNCHANGED <<wallet, handles, queue, engine, work>>

\* try_queue_block, try_queue_tx: a permit now, or the payload back.
TrySend(r) ==
  /\ Owner[r] \in handles /\ status[r] = "idle" /\ r \notin Reload
  /\ \/ /\ Closed
        /\ status' = [status EXCEPT ![r] = "refused"]
     \/ /\ ~Closed /\ waiters = <<>> /\ HasRoom
        /\ status' = [status EXCEPT ![r] = "permit"]
  /\ UNCHANGED <<wallet, clients, queue, engine, work>>

Acquire ==
  /\ ~Closed /\ waiters # <<>> /\ HasRoom
  /\ status' = [status EXCEPT ![Head(waiters)] = "permit"]
  /\ waiters' = Tail(waiters)
  /\ UNCHANGED <<wallet, handles, queue, engine, work>>

\* The push that follows the permit, whatever happened to the engine meanwhile.
Push(r) ==
  /\ status[r] = "permit"
  /\ status' = [status EXCEPT ![r] = "queued"]
  /\ queue' = Append(queue, r)
  /\ UNCHANGED <<wallet, clients, engine, work>>

\* The caller reads what its receiver resolved to, and may ask again.
Consume(r) ==
  /\ status[r] \in Idle \ {"idle"}
  /\ status' = [status EXCEPT ![r] = "idle"]
  /\ applied' = [applied EXCEPT ![r] = {}]
  /\ found' = found \ OutputsOf(r)
  /\ UNCHANGED <<wallet, clients, queue, engine, keys, runners, timer, batches>>

\* A Handle is dropped; it cannot be while one of its sends is in progress. The
\* last one to go takes the requests stranded in a closed queue with it.
DropHandle(h) ==
  /\ h \in handles
  /\ \A r \in Request : Owner[r] = h => status[r] \notin {"waiting", "permit"}
  /\ handles' = handles \ {h}
  /\ IF Closed /\ handles = {h}
     THEN /\ queue' = <<>>
          /\ status' = [r \in Request |-> IF status[r] = "queued" THEN "error" ELSE status[r]]
     ELSE UNCHANGED <<queue, status>>
  /\ UNCHANGED <<wallet, waiters, engine, work>>

----------------------------------------------------------------------------
(* The runners. Each function maps [acc, out] to [acc, out]: the outputs    *)
(* accumulated per pool, and the batches handed to the thread pool.         *)

\* BatchRunner::flush on the pools in ps.
FlushPools(rs, ps, ks) ==
  [acc |-> [p \in Pool |-> IF p \in ps THEN {} ELSE rs.acc[p]],
   out |-> rs.out \union {[keys |-> ks, outs |-> rs.acc[p]] : p \in {q \in ps : rs.acc[q] # {}}}]

\* BatchRunners::process_transaction: add the outputs of each pool, and run a
\* pool's batch as soon as it has reached the threshold.
ProcessTransaction(rs, outs, ks) ==
  LET added == [acc |-> [p \in Pool |-> rs.acc[p] \union {o \in outs : PoolOf[o] = p}],
                out |-> rs.out]
  IN  FlushPools(added, {p \in Pool : Cardinality(added.acc[p]) >= Threshold}, ks)

\* The runners after each of the first transactions of a request.
Progress(r) ==
  LET run[i \in 0..Len(Contents[r])] ==
        IF i = 0 THEN [acc |-> runners.acc, out |-> batches]
        ELSE ProcessTransaction(run[i - 1], Contents[r][i], runners.keys)
  IN  run

Process(r) ==
  /\ runners' = [runners EXCEPT !.acc = Progress(r)[Len(Contents[r])].acc]
  /\ batches' = Progress(r)[Len(Contents[r])].out

Flushed == FlushPools([acc |-> runners.acc, out |-> batches], Pool, runners.keys)

Flush ==
  /\ runners' = [runners EXCEPT !.acc = Flushed.acc]
  /\ batches' = Flushed.out

----------------------------------------------------------------------------
(* The engine: Engine::run.                                                 *)

\* Drop of the queue's receiver when run returns: the channel is closed and
\* drained, and the callers waiting for a permit are refused.
CloseChannel(unread) ==
  /\ queue' = <<>> /\ waiters' = <<>>
  /\ status' = [r \in Request |-> CASE status[r] = "waiting" -> "refused"
                                    [] r \in unread          -> "error"
                                    [] OTHER                 -> status[r]]

\* The first call of the reload closure; its error ends the engine.
Start ==
  /\ engine = "unstarted"
  /\ engine' = "running"
  /\ keys' = wallet
  /\ runners' = [keys |-> wallet, acc |-> EmptyAcc]
  /\ UNCHANGED <<wallet, clients, status, queue, timer, batches, applied, found>>

StartFails ==
  /\ engine = "unstarted"
  /\ engine' = "failed"
  /\ CloseChannel(Range(queue))
  /\ UNCHANGED <<wallet, handles, work>>

ArmAlways == timer' = StartDelay

\* Armed by the first request after a flush, and not by later ones.
Arm == timer' = IF timer = Nothing THEN StartDelay ELSE timer

\* A block or a transaction: its outputs go to the runners and a task is
\* spawned to wait for them, with the keys of this moment.
ReceiveData ==
  /\ engine = "running" /\ queue # <<>> /\ Head(queue) \notin Reload
  /\ Process(Head(queue))
  /\ applied' = [applied EXCEPT ![Head(queue)] = keys]
  /\ status' = [status EXCEPT ![Head(queue)] = "taken"]
  /\ queue' = Tail(queue)
  /\ Arm
  /\ UNCHANGED <<wallet, clients, engine, keys, found>>

\* (variant, used only to check that the properties can fail: the reply is kept)
ReceiveReloadUnanswered ==
  /\ engine = "running" /\ queue # <<>> /\ Head(queue) \in Reload
  /\ keys' = wallet
  /\ runners' = [keys |-> wallet, acc |-> EmptyAcc]
  /\ batches' = Flushed.out
  /\ timer' = Nothing
  /\ queue' = Tail(queue)
  /\ UNCHANGED <<wallet, clients, status, engine, applied, found>>

\* Flush under the old keys, then new keys, new runners, and the reply.
ReceiveReload ==
  /\ engine = "running" /\ queue # <<>> /\ Head(queue) \in Reload
  /\ keys' = wallet
  /\ runners' = [keys |-> wallet, acc |-> EmptyAcc]
  /\ batches' = Flushed.out
  /\ timer' = Nothing
  /\ applied' = [applied EXCEPT ![Head(queue)] = wallet]
  /\ status' = [status EXCEPT ![Head(queue)] = "answered"]
  /\ queue' = Tail(queue)
  /\ UNCHANGED <<wallet, clients, engine, found>>

\* The closure fails after the flush: run returns the error.
ReloadFails ==
  /\ engine = "running" /\ queue # <<>> /\ Head(queue) \in Reload
  /\ Flush
  /\ engine' = "failed"
  /\ CloseChannel(Range(queue))
  /\ UNCHANGED <<wallet, handles, keys, timer, applied, found>>

Tick ==
  /\ engine = "running" /\ timer # Nothing /\ timer > 0
  /\ timer' = timer - 1
  /\ UNCHANGED <<wallet, clients, status, queue, engine, keys, runners, batches, applied, found>>

IdleFlush ==
  /\ engine = "running" /\ timer = 0
  /\ Flush
  /\ timer' = Nothing
  /\ UNCHANGED <<wallet, clients, status, queue, engine, keys, applied, found>>

\* recv returns None once every Handle is gone and the queue is empty. run
\* returns without a flush, dropping the runners and what they accumulated.
Abandoned ==
  /\ engine = "running" /\ handles = {} /\ queue = <<>>
  /\ engine' = "abandoned"
  /\ runners' = [runners EXCEPT !.acc = EmptyAcc]
  /\ UNCHANGED <<wallet, clients, status, queue, keys, timer, batches, applied, found>>

----------------------------------------------------------------------------
(* The thread pool and the tasks.                                           *)

\* Batch::run: the outputs the batch's keys decrypt are sent to their
\* receivers, and every sender of the batch is dropped.
Run(b) ==
  /\ b \in batches
  /\ batches' = batches \ {b}
  /\ found' = found \union {o \in b.outs : Recipient[o] \in b.keys}
  /\ UNCHANGED <<wallet, clients, status, queue, engine, keys, runners, timer, applied>>

\* (variant: the task reads the engine's keys when it answers)
DeliverLateKeys(r) ==
  /\ status[r] = "taken"
  /\ OutputsOf(r) \intersect Outstanding = {}
  /\ status' = [status EXCEPT ![r] = "answered"]
  /\ applied' = [applied EXCEPT ![r] = keys]
  /\ UNCHANGED <<wallet, clients, queue, engine, keys, runners, timer, batches, found>>

\* The request's receivers have all disconnected: its task sends the answer.
Deliver(r) ==
  /\ status[r] = "taken"
  /\ OutputsOf(r) \intersect Outstanding = {}
  /\ status' = [status EXCEPT ![r] = "answered"]
  /\ UNCHANGED <<wallet, clients, queue, engine, work>>

----------------------------------------------------------------------------
EngineStep == Start \/ StartFails \/ ReceiveData \/ ReceiveReload \/ ReloadFails \/ Abandoned

Next ==
  \/ ChangeAccounts \/ Acquire
  \/ \E r \in Request : Send(r) \/ TrySend(r) \/ Push(r) \/ Consume(r) \/ Deliver(r)
  \/ \E h \in Handle : DropHandle(h)
  \/ Start \/ StartFails \/ ReceiveData \/ ReceiveReload \/ ReloadFails
  \/ Tick \/ IdleFlush \/ Abandoned
  \/ \E b \in batches : Run(b)

\* Every task of the program is scheduled, time passes, and select! polls its
\* branches in random order, so neither starves the other; the callers promise
\* nothing.
Fairness ==
  /\ WF_vars(EngineStep) /\ WF_vars(Tick) /\ WF_vars(IdleFlush) /\ WF_vars(Acquire)
  /\ \A r \in Request : WF_vars(Push(r)) /\ WF_vars(Deliver(r))
  /\ \A o \in Outputs : WF_vars(\E b \in batches : o \in b.outs /\ Run(b))

Spec == Init /\ [][Next]_vars /\ Fairness

----------------------------------------------------------------------------
(* The answer a caller holds.                                               *)
AnswerOf(r) == [keys |-> applied[r], found |-> found \intersect OutputsOf(r)]

\* scan.rs:155-158, of the receiver of a batch: its completion "corresponds to
\* complete knowledge of the outputs of this transaction that could be
\* decrypted". Not so once every Handle is dropped: the engine then drops the
\* batch it has accumulated. No run checks this.
CompleteKnowledge ==
  \A r \in Request : status[r] = "answered" =>
    {o \in OutputsOf(r) : Recipient[o] \in AnswerOf(r).keys} \subseteq AnswerOf(r).found

\* A request that won its place in the queue is resolved, or the engine is
\* closed: racing the receiver against Handle::closed never waits forever, even
\* while other callers keep the engine busy (decryptor.rs:290-309).
Resolved ==
  \A r \in Request : (status[r] \in {"waiting", "permit", "queued"}) ~>
                       (status[r] \in {"taken", "answered", "error", "refused"} \/ Closed)

\* What the engine has taken is answered, whatever the stream of other requests
\* and even when the engine stops: an aging batch is not postponed forever
\* (decryptor.rs:377-379).
TakenIsAnswered == \A r \in Request : (status[r] = "taken") ~> (status[r] = "answered")

\* The engine, its batches, threads and timer implement the service that
\* answers in order and decrypts on the spot.
Service == INSTANCE DecryptService WITH
  inbox  <- queue,
  due    <- [r \in Request |-> IF status[r] = "taken" THEN applied[r] ELSE Nothing],
  answer <- [r \in Request |-> IF status[r] = "answered" THEN AnswerOf(r) ELSE Nothing],
  state  <- engine

ImplementsService == Service!SSpec
=============================================================================
