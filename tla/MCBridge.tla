------------------------------ MODULE MCBridge ------------------------------
(***************************************************************************)
(* Instances of Bridge for TLC: two daemons, both needed for a majority, or *)
(* three.                                                                   *)
(***************************************************************************)
EXTENDS Bridge

CONSTANTS alice, bob, carol, user, wallet, h1, h2, sender, other, vault, good, bad

MCDaemons == Account \ {user, wallet}

MCGenesis == [validator_accounts |-> MCDaemons, fee_account |-> wallet,
              withdraw_fee |-> 1, deposit_fee |-> 1]
MCNothing == [a \in Account |-> 0]
MCBalance == [a \in Account |-> IF a = user THEN 7 ELSE 0]

\* A validator's account stands for the key it holds.
MCKeyOf == [d \in MCDaemons |-> d]

MCSeqNo == 1..6
MCSig == {SignatureOf(d, StellarTx(t, a, m, n)) :
            d \in MCDaemons, t \in StellarAddress, a \in 1..5,
            m \in RefundHash \cup {None}, n \in MCSeqNo}

MCNoFaults == {[breaks |-> 0, lossy |-> FALSE, flaky |-> FALSE, rescan |-> FALSE]}

MCMintId == BurnId \cup RefundHash

MCTft == [code |-> "TFT", issuer |-> "threefold"]
Lumen == [code |-> "", issuer |-> ""]
MCMemoAccount == [twin |-> user]

\* The fields of these records are in the order in which TLC sorts them, that of
\* the first occurrence of their names: no worker has to sort what others read.
Pay(from, amount) ==
    [from |-> from, amount |-> amount, type |-> "payment", to |-> vault]
Credit(asset) ==
    [type |-> "account_credited", asset |-> asset, account |-> vault]
Tx(hash, operations, effects) ==
    [hash |-> hash, operations |-> operations, effects |-> effects,
     memo |-> "twin", successful |-> TRUE]

Good(hash) == Tx(hash, <<Pay(sender, 5)>>, <<Credit(MCTft)>>)
\* To be returned: too small, or with a second sender, who pays in lumens.
Small(hash) == Tx(hash, <<Pay(sender, 1)>>, <<Credit(MCTft)>>)
TwoSenders(hash) ==
    Tx(hash, <<Pay(sender, 2), Pay(other, 1)>>, <<Credit(MCTft), Credit(Lumen)>>)

MCEither == {Good(h1), Small(h1)}
MCAny == {Good(h1), TwoSenders(h1)}

\* Bound: two swaps for as long as nothing can expire, or one.
MCShortOrSingle == block <= RetryInterval + 1 \/ burn_transaction_id <= 1

MCDaemonSymmetry == Permutations(MCDaemons)
=============================================================================
