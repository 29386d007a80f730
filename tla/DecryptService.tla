--------------------------- MODULE DecryptService ---------------------------
(***************************************************************************)
(* What the batch decryption engine of zcash_client_backend (sync/          *)
(* decryptor.rs) promises to the holders of its Handles, with no batches,   *)
(* no threads and no timer: requests are taken in the order they were       *)
(* accepted, a reload changes the keys of everything accepted after it and  *)
(* of nothing accepted before, and the answer to a block or transaction is  *)
(* what decrypting it on the spot (scanning/full.rs, decrypt_block) with    *)
(* the keys in force when it was taken would have returned.                 *)
(*                                                                          *)
(* One weakness is part of the promise, because the code has it: when the   *)
(* engine stops because the last Handle was dropped ("abandoned"), an       *)
(* answer still outstanding may miss outputs.                               *)
(***************************************************************************)
EXTENDS Sequences, FiniteSets

CONSTANTS
  Request,        \* the requests clients make
  Reload,         \* those of them that are Handle::reload_keys
  Account,        \* accounts with scanning keys
  Wallets,        \* the sets of accounts the reload closure can load
  Contents,       \* request -> its transactions, a sequence of sets of outputs
  Recipient,      \* output -> the account able to decrypt it
  Nothing         \* no keys, no answer

VARIABLES
  wallet,         \* accounts the reload closure would return now
  inbox,          \* accepted requests, oldest first
  keys,           \* scanning keys in force
  due,            \* request -> keys it was taken under, until it is answered
  answer,         \* request -> its answer, until the caller consumes it
  state           \* "unstarted", "running", "failed" or "abandoned"

svars == <<wallet, inbox, keys, due, answer, state>>

OutputsOf(r) == UNION {Contents[r][i] : i \in DOMAIN Contents[r]}

\* scanning/full.rs, decrypt_block: every output the keys can decrypt.
Inline(r, ks) == {o \in OutputsOf(r) : Recipient[o] \in ks}

Answers == [keys : SUBSET Account, found : SUBSET DOMAIN Recipient]

SInit ==
  /\ wallet \in Wallets
  /\ inbox = <<>>
  /\ keys = {}
  /\ due = [r \in Request |-> Nothing]
  /\ answer = [r \in Request |-> Nothing]
  /\ state = "unstarted"

ChangeAccounts ==
  /\ wallet' \in Wallets
  /\ UNCHANGED <<inbox, keys, due, answer, state>>

Accept(r) ==
  /\ inbox' = Append(inbox, r)
  /\ UNCHANGED <<wallet, keys, due, answer, state>>

Start ==
  /\ state = "unstarted"
  /\ state' = "running"
  /\ keys' = wallet
  /\ UNCHANGED <<wallet, inbox, due, answer>>

TakeData ==
  /\ state = "running" /\ inbox # <<>> /\ Head(inbox) \notin Reload
  /\ due' = [due EXCEPT ![Head(inbox)] = keys]
  /\ inbox' = Tail(inbox)
  /\ UNCHANGED <<wallet, keys, answer, state>>

TakeReload ==
  /\ state = "running" /\ inbox # <<>> /\ Head(inbox) \in Reload
  /\ keys' = wallet
  /\ answer' = [answer EXCEPT ![Head(inbox)] = [keys |-> wallet, found |-> {}]]
  /\ inbox' = Tail(inbox)
  /\ UNCHANGED <<wallet, due, state>>

\* Complete answers, unless the engine was abandoned.
Reply(r) ==
  /\ due[r] # Nothing
  /\ \E found \in SUBSET Inline(r, due[r]) :
       /\ state # "abandoned" => found = Inline(r, due[r])
       /\ answer' = [answer EXCEPT ![r] = [keys |-> due[r], found |-> found]]
  /\ due' = [due EXCEPT ![r] = Nothing]
  /\ UNCHANGED <<wallet, inbox, keys, state>>

Consume(r) ==
  /\ answer[r] # Nothing
  /\ answer' = [answer EXCEPT ![r] = Nothing]
  /\ UNCHANGED <<wallet, inbox, keys, due, state>>

\* A reload that fails stops the service; what was accepted is not answered.
Fail ==
  /\ state \in {"unstarted", "running"}
  /\ state' = "failed"
  /\ inbox' = <<>>
  /\ UNCHANGED <<wallet, keys, due, answer>>

Abandon ==
  /\ state = "running" /\ inbox = <<>>
  /\ state' = "abandoned"
  /\ UNCHANGED <<wallet, inbox, keys, due, answer>>

\* Requests stranded in a stopped service go when the last Handle does.
DropStranded ==
  /\ state = "failed"
  /\ inbox' = <<>>
  /\ UNCHANGED <<wallet, keys, due, answer, state>>

SNext ==
  \/ ChangeAccounts \/ Start \/ TakeData \/ TakeReload
  \/ \E r \in Request : Accept(r) \/ Reply(r) \/ Consume(r)
  \/ Fail \/ Abandon \/ DropStranded

SSpec == SInit /\ [][SNext]_svars
=============================================================================
