------------------------------- MODULE Bridge -------------------------------
(***************************************************************************)
(* The whole bridge: deposits and swaps at once.  Each daemon handles both  *)
(* in one loop (tfchain_bridge/pkg/bridge/bridge.go), and the refunds of     *)
(* deposits and the payments of swaps share the sequence numbers of one      *)
(* Stellar account.                                                         *)
(***************************************************************************)
EXTENDS BridgeWithdraw, BridgeDeposit

BridgeNext ==
    \/ /\ \/ \E target \in StellarAddress, amount \in Amount : Swap(target, amount)
          \/ \E d \in Daemon : \/ HandleWithdraw(d)
                               \/ RetryProposeWithdrawOrAddSig(d)
                               \/ RetrySetWithdrawExecuted(d)
       /\ UNCHANGED depositVars
    \/ DepositNext

BridgeSpec == DepositInit /\ [][BridgeNext]_bridgeVars

\* The loop of a daemon, which waits for the chain and for Stellar at once.
Handle(d) ==
    \/ (HandleWithdraw(d) \/ Submit(d)) /\ UNCHANGED depositVars
    \/ HandleDeposit(d)

Call(d) == (CallWithdraw(d) \/ CallDeposit(d)) /\ UNCHANGED depositVars

\* Blocks go on being produced, a running daemon goes on with its loop, and
\* one that ended is started again by its supervisor.
FairBridgeSpec ==
    /\ BridgeSpec
    /\ WF_bridgeVars(EndBlock /\ UNCHANGED depositVars)
    /\ \A d \in Daemon : /\ WF_bridgeVars(Handle(d))
                         /\ WF_bridgeVars(Call(d))
                         /\ WF_bridgeVars(RestartBridge(d))

-----------------------------------------------------------------------------
(* Properties. *)

DepositedTotal ==
    MapThenSumSet(LAMBDA i : MapThenSumSet(LAMBDA sender : SentBy(account_txs[i], sender),
                                           StellarAddress),
                  DOMAIN account_txs)

PaidTotal == MapThenSumSet(LAMBDA i : payments[i].tx.amount, DOMAIN payments)

\* Burns that their users still wait for.
OwedTotal ==
    AmountsOf({id \in BurnId : ~Paid(id) /\ ~Minted(id)},
              LAMBDA id : burn_transactions[id])

\* As long as nothing breaks and nothing expires, the bridge account holds on Stellar
\* all that the accounts of tfchain hold and that swaps wait to be paid: the
\* fees stay in, a deposit is minted or returned but not both, a swap is paid or
\* minted back but not both, whatever order the daemons work in and whichever
\* of them fails on a sequence number that another payment took.
Solvent ==
    (\A id \in DOMAIN rounds : rounds[id] = 0) =>
      TotalBalance(balances) + OwedTotal
        <= TotalBalance(GenesisBalance) + DepositedTotal - PaidTotal
=============================================================================
