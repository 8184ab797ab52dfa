----------------------------- MODULE MCWithdraw -----------------------------
(***************************************************************************)
(* Instances of BridgeWithdraw for TLC: two or three daemons, one signer of *)
(* the bridge wallet each, and a majority that is also the threshold of the *)
(* wallet.                                                                  *)
(***************************************************************************)
EXTENDS BridgeWithdraw

CONSTANTS alice, bob, carol, user, good, bad, MaxSeq

MCDaemons == Account \ {user}

MCGenesis == [validator_accounts |-> MCDaemons, fee_account |-> None,
              withdraw_fee |-> 1, deposit_fee |-> 0]
MCBalance == [a \in Account |-> IF a = user THEN 10 ELSE 0]
MCFrozen == [a \in Account |-> 0]

\* A validator's account stands for the key it holds.
MCKeyOf == [d \in MCDaemons |-> d]

\* What the daemons can sign: amounts are what is left after the fee.
MCSeqNo == 1..MaxSeq
MCSig == {SignatureOf(d, StellarTx(t, a - 1, None, n)) :
            d \in MCDaemons, t \in {good}, a \in Amount, n \in MCSeqNo}
MCMintId == BurnId

\* A daemon or its subscription breaks once and replies are lost, or queries
\* fail; or nothing goes wrong.
NoFault == [breaks |-> 0, lossy |-> FALSE, flaky |-> FALSE,
            rescan |-> FALSE]
MCFaults == {[NoFault EXCEPT !.breaks = 1, !.lossy = TRUE],
             [NoFault EXCEPT !.flaky = TRUE]}
MCNoFaults == {NoFault}

MCDaemonSymmetry == Permutations(MCDaemons)
=============================================================================
