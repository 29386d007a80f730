-------------------------- MODULE MCBatchDecryptor --------------------------
(* A block whose two transactions have an output in a pool each, a mempool  *)
(* transaction with enough outputs to run a batch of the first pool, and a  *)
(* reload, made through two Handles.                                        *)
EXTENDS BatchDecryptor, TLC

CONSTANTS h1, h2, block, tx, reload, a1, a2, sapling, orchard, o1, o2, o3, o4

MCWallets   == {{a1}, {a1, a2}}
MCOwner     == block :> h1 @@ tx :> h2 @@ reload :> h2
MCContents  == block :> <<{o1}, {o2}>> @@ tx :> <<{o3, o4}>> @@ reload :> <<>>
MCPoolOf    == o1 :> sapling @@ o2 :> orchard @@ o3 :> sapling @@ o4 :> sapling
MCRecipient == o1 :> a1 @@ o2 :> a2 @@ o3 :> a2 @@ o4 :> a1
=============================================================================
