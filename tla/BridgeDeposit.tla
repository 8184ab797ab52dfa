---------------------------- MODULE BridgeDeposit ----------------------------
(***************************************************************************)
(* A deposit from Stellar to tfchain from end to end: the stream of the     *)
(* transactions of the bridge account, the handlers of                      *)
(* tfchain_bridge/pkg/bridge/mint.go and refund.go, and the cursor that     *)
(* pkg/persistency.go keeps in a file, on top of the daemon.                *)
(***************************************************************************)
EXTENDS BridgeDaemon, StellarTransaction

CONSTANTS
    StellarTxs,         \* the transactions that may be sent to the bridge
    MemoAccount,        \* the account a memo text decodes into, or None
    MaxDeposits         \* bound: the number of transactions

\* A transaction as Horizon gives it: its payments name a sender and an amount.
WellFormed(tx) ==
    /\ tx.memo \in DOMAIN MemoAccount \cup {"", "return"}
    /\ Len(tx.operations) \in Nat /\ DOMAIN tx.operations = 1..Len(tx.operations)
    /\ \A i \in DOMAIN tx.operations :
         tx.operations[i].type = "payment"
           => /\ tx.operations[i].from \in StellarAddress
              /\ tx.operations[i].amount \in Nat
    /\ IsFiniteSet(DOMAIN tx.effects)

ASSUME DepositAssumption ==
    /\ \A tx \in StellarTxs : tx.hash \in RefundHash /\ WellFormed(tx)
    /\ RefundHash \subseteq MintId
    /\ \A text \in DOMAIN MemoAccount : MemoAccount[text] \in Account \cup {None}
    /\ MaxDeposits \in Nat

VARIABLES
    account_txs,    \* the transactions of the bridge account, in order
    stream,         \* per daemon, how many its loop has taken off the stream
    cursor,         \* per daemon, StellarCursor in the file; None: a torn file
    start_fee       \* per daemon, Bridge.depositFee, read when it started

depositVars == <<account_txs, stream, cursor, start_fee>>
bridgeVars == <<daemonVars, depositVars>>

DepositInit ==
    /\ DaemonInit
    /\ account_txs = <<>>
    /\ stream = [d \in Daemon |-> 0]
    /\ cursor = [d \in Daemon |-> 0]
    /\ start_fee = [d \in Daemon |-> deposit_fee]

-----------------------------------------------------------------------------
(* The surroundings. *)

Deposit(tx) ==
    /\ Len(account_txs) < MaxDeposits
    /\ \A i \in DOMAIN account_txs : account_txs[i].hash # tx.hash
    /\ account_txs' = Append(account_txs, tx)
    /\ UNCHANGED <<daemonVars, stream, cursor, start_fee>>

ChangeFee(fee) ==
    /\ fee # deposit_fee
    /\ SetDepositFee(fee)
    /\ UNCHANGED <<loopVars, stellarVars, faultVars, depositVars>>

-----------------------------------------------------------------------------
(* The handler of mint events. *)

\* What the loop does with n mint events of a transaction.
ToMint(tx, n) == IF n = 0 THEN Idle ELSE [pc |-> "mint", tx |-> tx, left |-> n]

\* The loop takes the next transaction off the stream, whose channel has no
\* buffer.  Operations that cannot be fetched are passed over (stellar.go:422);
\* effects that cannot be fetched end the process, as a crash does.
TakeTransaction(d) ==
    LET tx == account_txs[stream[d] + 1] IN
    /\ job[d] = Idle
    /\ stream[d] < Len(account_txs)
    /\ stream' = [stream EXCEPT ![d] = @ + 1]
    /\ \E n \in {MintEvents(tx)} \cup (IF faults.flaky THEN 0..MintEvents(tx) ELSE {}) :
         job' = [job EXCEPT ![d] = ToMint(tx, n)]
    /\ UNCHANGED <<palletVars, inbox, wallet_seq, stellarVars, faultVars,
                   account_txs, cursor, start_fee>>

TooSmall(d, amount) == amount <= start_fee[d]

\* getSubstrateAddressFromMemo fails for a bad text and for a failing query.
MayRefund(d, tx) ==
    \/ Cardinality(DOMAIN Senders(tx)) > 1
    \/ tx.memo = ""
    \/ /\ tx.memo \notin {"", "return"}
       /\ \/ \E sender \in DOMAIN Senders(tx) :
               TooSmall(d, Senders(tx)[sender])
          \/ MemoAccount[tx.memo] = None
          \/ faults.flaky

MayMint(d, tx) ==
    /\ Cardinality(DOMAIN Senders(tx)) = 1
    /\ tx.memo \notin {"", "return"}
    /\ \A sender \in DOMAIN Senders(tx) : ~TooSmall(d, Senders(tx)[sender])
    /\ MemoAccount[tx.memo] # None

MustSkip(tx) ==
    \/ Senders(tx) = <<>>
    \/ Cardinality(DOMAIN Senders(tx)) = 1 /\ tx.memo = "return"

\* handleRefundExpired, up to its call.
SignsRefund(d, hash, target, amount, then) ==
    \/ Refunded(hash) /\ Does(d, then)
    \/ ~Refunded(hash) /\ SignsAndCalls(d, "create_refund", hash, target, amount,
                                        hash, then)

\* The cursor is saved after the vote, the refund or the look at the memo, but
\* not when the transaction is minted already or has no sender.  Of several
\* senders any one is refunded: the iteration over a map has no order.
Mint(d) ==
    LET tx == job[d].tx
        next == ToMint(tx, job[d].left - 1)
        save == [pc |-> "save", then |-> next]
    IN
    /\ job[d].pc = "mint"
    /\ \/ Minted(tx.hash) /\ Does(d, next)
       \/ ~Minted(tx.hash) /\ MustSkip(tx)
            /\ Does(d, IF Senders(tx) = <<>> THEN next ELSE save)
       \/ ~Minted(tx.hash) /\ MayRefund(d, tx)
            /\ \E sender \in DOMAIN Senders(tx) :
                 SignsRefund(d, tx.hash, sender, Senders(tx)[sender], save)
       \/ ~Minted(tx.hash) /\ MayMint(d, tx)
            /\ \E sender \in DOMAIN Senders(tx) :
                 Does(d, [pc |-> "propose_mint", id |-> tx.hash,
                          target |-> MemoAccount[tx.memo],
                          amount |-> Senders(tx)[sender], then |-> save])
    /\ UNCHANGED <<palletVars, inbox, stellarVars, faultVars, depositVars>>

SavedCursor_Next(d) == stream[d] + 1
\* PagingToken of the transaction the loop handles.
SavedCursor(d) == stream[d]

SaveStellarCursor(d) ==
    /\ job[d].pc = "save"
    /\ job' = [job EXCEPT ![d] = @.then]
    /\ cursor' = [cursor EXCEPT ![d] = SavedCursor(d)]
    /\ UNCHANGED <<palletVars, inbox, wallet_seq, stellarVars, faultVars,
                   account_txs, stream, start_fee>>

-----------------------------------------------------------------------------
(* The handlers of refund events. *)

HandleRefundExpired(d) ==
    LET event == Head(inbox[d]) IN
    /\ Takes(d, "RefundTransactionExpired")
    /\ SignsRefund(d, event.hash, event.target, event.amount, Idle)

HandleRefundReady(d) ==
    LET hash == Head(inbox[d]).hash IN
    /\ Takes(d, "RefundTransactionReady")
    /\ Does(d, IF Refunded(hash) THEN Idle
               ELSE [pc |-> "fetch_refund", id |-> hash])

\* GetRefundTransaction, after IsRefundedAlready said no.
FetchRefund(d) ==
    LET hash == job[d].id
        refund == refund_transactions[hash]
    IN
    /\ job[d].pc = "fetch_refund"
    /\ Does(d, IF refund = None THEN Down("not_found")
               ELSE ToSubmit(hash, refund, hash,
                             [pc |-> "set_refund_executed", id |-> hash,
                              then |-> Idle]))
    /\ UNCHANGED <<palletVars, inbox, stellarVars, faultVars>>

-----------------------------------------------------------------------------
(* The process. *)

\* os.WriteFile truncates the file before it writes it.
CrashBridge(d) ==
    /\ Crash(d)
    /\ \E left \in {cursor[d]} \cup (IF job[d].pc = "save" THEN {None} ELSE {}) :
         cursor' = [cursor EXCEPT ![d] = left]
    /\ UNCHANGED <<account_txs, stream, start_fee>>

\* NewBridge and Start: a torn file ends the process again, and a rescan, which
\* reads the file before it writes it, does so too.
RestartBridge(d) ==
    /\ cursor[d] # None
    /\ Restart(d)
    /\ \E from \in {cursor[d]} \cup (IF faults.rescan THEN {0} ELSE {}) :
         /\ cursor' = [cursor EXCEPT ![d] = from]
         /\ stream' = [stream EXCEPT ![d] = from]
    /\ start_fee' = [start_fee EXCEPT ![d] = deposit_fee]
    /\ UNCHANGED account_txs

HandleRefund(d) ==
    HandleRefundExpired(d) \/ HandleRefundReady(d) \/ FetchRefund(d)

HandleDeposit(d) ==
    \/ TakeTransaction(d) \/ Mint(d) \/ SaveStellarCursor(d)
    \/ HandleRefund(d) /\ UNCHANGED depositVars

CallDeposit(d) ==
    \/ RetryProposeMintOrVote(d) \/ RetryCreateRefundTransactionOrAddSig(d)
    \/ RetrySetRefundTransactionExecuted(d)

DepositNext ==
    \/ \E tx \in StellarTxs : Deposit(tx)
    \/ \E fee \in Fee : ChangeFee(fee)
    \/ EndBlock /\ UNCHANGED depositVars
    \/ \E d \in Daemon :
         \/ HandleDeposit(d)
         \/ (Submit(d) \/ CallDeposit(d)) /\ UNCHANGED depositVars
         \/ CrashBridge(d) \/ RestartBridge(d)

DepositSpec == DepositInit /\ [][DepositNext]_bridgeVars

-----------------------------------------------------------------------------
(* Properties. *)

\* A daemon has saved no cursor beyond the transactions it has taken.
DepositTypeOK ==
    /\ account_txs \in Seq(StellarTxs) /\ Len(account_txs) <= MaxDeposits
    /\ \A d \in Daemon :
         /\ stream[d] \in 0..Len(account_txs)
         /\ cursor[d] \in 0..stream[d] \cup {None}
         /\ start_fee[d] \in Nat

Deposited == {account_txs[i] : i \in DOMAIN account_txs}

\* What a validator mints by its vote it has read on Stellar, although every
\* vote after the first ignores the target and amount it comes with
\* (lib.rs:600): an executed mint is of one deposit, its target the account its
\* memo names, its amount all that its only sender has sent.
MintedAsDeposited ==
    \A h \in RefundHash :
      Minted(h) =>
        \E tx \in Deposited, sender \in StellarAddress :
          /\ tx.hash = h
          /\ executed_mint_transactions[h].target = MemoAccount[tx.memo]
          /\ executed_mint_transactions[h].amount = SentBy(tx, sender)

\* A refund is set executed only after a payment on Stellar, with the hash of
\* the deposit as its memo, that returns to one of its senders all that it has
\* sent (refund.go:69 after :65), whatever breaks or is repeated.
RefundMeansPaid ==
    \A h \in RefundHash :
      Refunded(h) =>
        \E i \in DOMAIN payments, tx \in Deposited :
          /\ tx.hash = h /\ payments[i].tx.memo = h
          /\ payments[i].tx.amount = SentBy(tx, payments[i].tx.target)

\* As long as no daemon breaks, rescans or repeats a vote and no refund expires,
\* a deposit is never both minted and returned, although each daemon decides by
\* the fee it read at its start (mint.go:67) and its own look at the memo
\* (mint.go:71) which of the two it works for.  A transaction with several
\* credits is handled several times (stellar.go:449) and left out here.
NotMintedAndRefunded ==
    breaks = 0 /\ ~faults.lossy /\ ~faults.rescan =>
      \A tx \in Deposited :
        MintEvents(tx) = 1 /\ rounds[tx.hash] = 0
          => ~(Minted(tx.hash) /\ Paid(tx.hash))

\* transfers.md:26 "If the object is not found on chain, a refund is issued": a
\* deposit to an object that is found, and minted to it, is not refunded too.
MintedOrReturned ==
    \A tx \in Deposited :
      tx.memo \in DOMAIN MemoAccount /\ MemoAccount[tx.memo] # None
        => ~(Minted(tx.hash) /\ Paid(tx.hash))

\* The transactions that call for a mint or a refund.
Claims(tx) == MintEvents(tx) > 0 /\ ~MustSkip(tx)

\* With a Horizon that answers, a saved cursor is never beyond a deposit that
\* the daemon has done nothing for: whatever breaks between a vote or a
\* signature and the cursor (mint.go:85, refund.go:24), the deposit is minted, or
\* holds the vote of this validator, or is being refunded.
NothingSkipped ==
    ~faults.flaky =>
      \A d \in Daemon : cursor[d] # None =>
        \A i \in 1..cursor[d] :
          LET h == account_txs[i].hash IN
          \/ ~Claims(account_txs[i])
          \/ Minted(h)
          \/ mint_transactions[h] # None /\ d \in voters[h]
          \/ refund_transactions[h] # None \/ Refunded(h)

\* Every deposit that calls for it is minted, or returned to its sender, in the
\* end (transfers.md:31: "If the object is not found on chain, a refund is
\* issued").
DepositsSettle ==
    \A tx \in StellarTxs :
      tx \in Deposited /\ Claims(tx) ~>
        Minted(tx.hash) \/ (Refunded(tx.hash) /\ Paid(tx.hash))
=============================================================================
