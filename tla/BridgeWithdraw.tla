--------------------------- MODULE BridgeWithdraw ---------------------------
(***************************************************************************)
(* A swap from tfchain to Stellar from end to end: the handlers of          *)
(* tfchain_bridge/pkg/bridge/withdraw.go on top of the daemon, the pallet   *)
(* and the bridge account on Stellar.                                       *)
(***************************************************************************)
EXTENDS BridgeDaemon

CONSTANTS
    BadTarget,          \* addresses without an account or a trustline
    User                \* the account that swaps

\* The mint "refund-<id>" of handleBadWithdraw has the id of its burn.
ASSUME WithdrawAssumption ==
    BadTarget \subseteq StellarAddress /\ User \in Account /\ BurnId \subseteq MintId

Swap(target, amount) ==
    /\ SwapToStellar(User, target, amount)
    /\ UNCHANGED <<loopVars, stellarVars, faultVars>>

-----------------------------------------------------------------------------
(* The handlers. *)

\* CheckAccount: any error of Horizon reads as a bad account.
CheckFails(target) == target \in BadTarget \/ faults.flaky
CheckSucceeds(target) == target \notin BadTarget

SetsBurnExecuted(id) == [pc |-> "set_burn_executed", id |-> id, then |-> Idle]

SignsBurn(d, event) ==
    /\ CheckSucceeds(event.target)
    /\ SignsAndCalls(d, "propose_burn", event.id, event.target, event.amount,
                     None, Idle)

HandleWithdrawCreated(d) ==
    LET event == Head(inbox[d]) IN
    /\ Takes(d, "BurnTransactionCreated")
    /\ \/ Burned(event.id) /\ Does(d, Idle)
       \/ ~Burned(event.id) /\ SignsBurn(d, event)

RefundMint_Gross(event) ==
    [pc |-> "propose_mint", id |-> event.id, target |-> event.source,
     amount |-> event.amount + withdraw_fee,
     then |-> SetsBurnExecuted(event.id)]
\* What handleBadWithdraw proposes to mint.
RefundMint(event) ==
    [pc |-> "propose_mint", id |-> event.id, target |-> event.source,
     amount |-> event.amount, then |-> SetsBurnExecuted(event.id)]

HandleBadWithdraw(d) ==
    LET event == Head(inbox[d]) IN
    /\ Takes(d, "BurnTransactionCreated")
    /\ ~Burned(event.id)
    /\ CheckFails(event.target)
    /\ Does(d, IF Minted(event.id) THEN Idle ELSE RefundMint(event))

\* No look at whether the burn was paid or executed meanwhile.
HandleWithdrawExpired(d) ==
    LET event == Head(inbox[d]) IN
    /\ Takes(d, "BurnTransactionExpired")
    /\ \/ SignsBurn(d, event)
       \/ CheckFails(event.target) /\ Does(d, SetsBurnExecuted(event.id))

HandleWithdrawReady(d) ==
    LET id == Head(inbox[d]).id IN
    /\ Takes(d, "BurnTransactionReady")
    /\ Does(d, IF Burned(id) THEN Idle ELSE [pc |-> "fetch_burn", id |-> id])

\* GetBurnTransaction, after IsBurnedAlready said no.
FetchBurn(d) ==
    LET id == job[d].id
        burn == burn_transactions[id]
    IN
    /\ job[d].pc = "fetch_burn"
    /\ Does(d, IF burn = None THEN Down("not_found")
               ELSE IF burn.signatures = <<>> THEN Down("no_signatures")
               ELSE ToSubmit(id, burn, None, SetsBurnExecuted(id)))
    /\ UNCHANGED <<palletVars, inbox, stellarVars, faultVars>>

HandleWithdraw(d) ==
    \/ HandleWithdrawCreated(d) \/ HandleBadWithdraw(d)
    \/ HandleWithdrawExpired(d) \/ HandleWithdrawReady(d) \/ FetchBurn(d)

CallWithdraw(d) ==
    \/ RetryProposeWithdrawOrAddSig(d) \/ RetryProposeMintOrVote(d)
    \/ RetrySetWithdrawExecuted(d)

WithdrawNext ==
    \/ \E target \in StellarAddress, amount \in Amount : Swap(target, amount)
    \/ EndBlock
    \/ \E d \in Daemon : \/ HandleWithdraw(d) \/ Submit(d) \/ CallWithdraw(d)
                         \/ Crash(d) \/ Restart(d)

WithdrawSpec == DaemonInit /\ [][WithdrawNext]_daemonVars

\* Blocks go on being produced, a running daemon goes on with its loop, and
\* one that ended is started again by its supervisor.
FairWithdrawSpec ==
    /\ WithdrawSpec
    /\ WF_daemonVars(EndBlock)
    /\ \A d \in Daemon : /\ WF_daemonVars(HandleWithdraw(d) \/ Submit(d))
                         /\ WF_daemonVars(CallWithdraw(d))
                         /\ WF_daemonVars(Restart(d))

-----------------------------------------------------------------------------
(* Properties. *)

\* With a Horizon that fails only for bad accounts, a burn is set executed only
\* after a payment of its amount to its target, unless the target is bad: no
\* crash, retry or error of a daemon closes a burn that nothing was paid for
\* (withdraw.go:82 after :77).  It need not be the payment of this burn: the
\* transactions of two equal burns with one sequence number are the same, and
\* the second submission is told of the success of the first.
ExecutedMeansPaid ==
    ~faults.flaky =>
      \A id \in BurnId :
        Burned(id) =>
          LET burn == executed_burn_transactions[id] IN
          \/ burn.target \in BadTarget
          \/ \E i \in DOMAIN payments :
               /\ payments[i].tx.target = burn.target
               /\ payments[i].tx.amount = burn.amount

\* As long as no daemon breaks or repeats a vote, a burn is never both paid on
\* Stellar and minted back on tfchain, although each daemon decides by its own
\* CheckAccount which of the two it works for (withdraw.go:27).
NotPaidAndRefunded ==
    breaks = 0 /\ ~faults.lossy =>
      \A id \in BurnId : ~(Paid(id) /\ Minted(id))

\* withdraw.go:102: what handleBadWithdraw mints back goes to the source of the
\* burn, and is what was burned.
RefundsTheBurn ==
    \A id \in BurnId :
      LET mint == BurnRecord(mint_transactions, executed_mint_transactions, id)
          burn == BurnRecord(burn_transactions, executed_burn_transactions, id)
      IN  mint # None => /\ burn # None
                         /\ mint.target = User /\ mint.amount = burn.amount

\* Every swap ends: its burn is executed, and paid if it can be.
SwapsSettle ==
    \A id \in BurnId :
      id <= burn_transaction_id ~>
        /\ Burned(id)
        /\ Paid(id) \/ executed_burn_transactions[id].target \in BadTarget

\* bridge.go:107 "If the TX is already withdrawn or refunded (minted on tfchain)
\* skip": a burn found executed, which is skipped, is withdrawn or refunded in
\* the end.
WithdrawnOrRefunded ==
    \A id \in BurnId : Burned(id) ~> (Paid(id) \/ Minted(id))
=============================================================================
