------------------------------ MODULE MCDeposit ------------------------------
(***************************************************************************)
(* Instances of BridgeDeposit for TLC: three daemons, each with a signer of *)
(* the bridge wallet, and deposits of the shapes processTransaction tells    *)
(* apart.                                                                   *)
(***************************************************************************)
EXTENDS BridgeDeposit

CONSTANTS alice, bob, carol, user, h1, h2, sender, other, vault

MCDaemons == {alice, bob, carol}

MCGenesis == [validator_accounts |-> MCDaemons, fee_account |-> None,
              withdraw_fee |-> 0, deposit_fee |-> 1]
MCBalance == [a \in Account |-> 0]

\* A validator's account stands for the key it holds.
MCKeyOf == [d \in MCDaemons |-> d]

MCSeqNo == 1..6
MCSig == {SignatureOf(d, StellarTx(t, a, h, n)) :
            d \in MCDaemons, t \in StellarAddress, a \in Amount,
            h \in RefundHash, n \in MCSeqNo}

NoFault == [breaks |-> 0, lossy |-> FALSE, flaky |-> FALSE,
            rescan |-> FALSE]
\* A daemon or its subscription breaks once, or replies are lost, or queries
\* fail.
MCFaults == {[NoFault EXCEPT !.breaks = 1, !.rescan = TRUE],
             [NoFault EXCEPT !.lossy = TRUE],
             [NoFault EXCEPT !.flaky = TRUE]}
MCFlaky == {[NoFault EXCEPT !.flaky = TRUE]}
MCNoFaults == {NoFault}

-----------------------------------------------------------------------------
(* The deposits. *)

MCTft == [code |-> "TFT", issuer |-> "threefold"]
MCMemoAccount == [twin |-> user, junk |-> None]

\* The fields of these records are in the order in which TLC sorts them, that of
\* the first occurrence of their names: no worker has to sort what others read.
Pay(from, to, amount) ==
    [from |-> from, to |-> to, amount |-> amount, type |-> "payment"]
\* An operation that pays nobody, such as a change of trust.
NoPayment == [type |-> "change_trust"]

Credit(account, asset) ==
    [type |-> "account_credited", account |-> account, asset |-> asset]

Tx(hash, memo, operations, effects) ==
    [hash |-> hash, memo |-> memo, operations |-> operations,
     effects |-> effects, successful |-> TRUE]

Plain(hash, memo) == Tx(hash, memo, <<Pay(sender, vault, 2)>>, <<Credit(vault, MCTft)>>)
\* Two payments of one sender and one to somebody else.
Split(hash) ==
    Tx(hash, "twin",
       <<Pay(sender, vault, 1), Pay(sender, other, 1), Pay(sender, vault, 2)>>,
       <<Credit(vault, MCTft), Credit(other, MCTft), Credit(vault, MCTft)>>)
Unpaid(hash) ==
    Tx(hash, "twin", <<Pay(sender, vault, 2), NoPayment>>, <<Credit(vault, MCTft)>>)

MCOneOfAll == {Plain(h1, "twin"), Plain(h1, "junk"), Plain(h1, "return"),
               Split(h1), Unpaid(h1)}
MCPlain == {Plain(h1, "twin")}
MCSplit == {Split(h1)}

\* Bound: the fee changes, and queries fail, only for the deposit on which daemons
\* can disagree for that.
MCDisagreement ==
    \A tx \in Deposited :
      tx \in MCPlain \/ (deposit_fee = Genesis.deposit_fee /\ ~faults.flaky)

MCDaemonSymmetry == Permutations(MCDaemons)
=============================================================================
