----------------------------- MODULE BridgeDaemon -----------------------------
(***************************************************************************)
(* What the handlers of a bridge daemon work with: the events of the chain  *)
(* (pkg/substrate/events.go), the calls to the pallet with their retries    *)
(* (pkg/substrate/client.go), the wallet (pkg/stellar/stellar.go) and the   *)
(* bridge account on Stellar, one daemon per validator.                     *)
(*                                                                         *)
(* A daemon is one loop that handles one event at a time (bridge.go).  Its  *)
(* steps are the calls that leave the process; what it computes between two *)
(* of them belongs to the earlier one.                                      *)
(*                                                                         *)
(* Any error a handler returns ends the process (main.go:62); it is started *)
(* again with the sequence number the account then has and without the      *)
(* events of the blocks it missed (events.go:67 subscribes to new heads).   *)
(***************************************************************************)
EXTENDS TftBridgePallet, SequencesExt

CONSTANTS
    KeyOf,              \* the signer of the bridge wallet each validator holds
    SignatureCount,     \* MedThreshold of the bridge account
    Faults              \* the faults of the surroundings, one of them at a time

Daemon == Genesis.validator_accounts

\* breaks bounds how often a process or its subscription breaks; lossy: a call
\* may be done and yet return an error; flaky: a query may fail; rescan: a
\* process may be started with --rescan.
ASSUME DaemonAssumption ==
    /\ KeyOf \in [Daemon -> StellarKey]
    /\ SignatureCount \in Nat \ {0}
    /\ Faults \subseteq [breaks : Nat, lossy : BOOLEAN, flaky : BOOLEAN,
                       rescan : BOOLEAN]

VARIABLES
    inbox,          \* per daemon, the events it has still to handle
    job,            \* per daemon, what its loop is doing
    wallet_seq,     \* per daemon, StellarWallet.sequenceNumber
    account_seq,    \* the sequence number of the bridge account
    payments,       \* the payments applied on Stellar, in order
    faults,         \* the faults of this behaviour
    breaks,         \* how often a process or a subscription broke
    rounds          \* history: per burn and refund, how often it was reset

loopVars == <<inbox, job, wallet_seq>>
stellarVars == <<account_seq, payments>>
faultVars == <<faults, breaks, rounds>>
daemonVars == <<palletVars, loopVars, stellarVars, faultVars>>

Idle == [pc |-> "idle"]
Down(why) == [pc |-> "down", why |-> why]

DaemonInit ==
    /\ Init
    /\ inbox = [d \in Daemon |-> <<>>]
    /\ job = [d \in Daemon |-> Idle]
    /\ wallet_seq = [d \in Daemon |-> 0]
    /\ account_seq = 0
    /\ payments = <<>>
    /\ faults \in Faults
    /\ breaks = 0
    /\ rounds = [e \in BurnId \cup RefundHash |-> 0]

-----------------------------------------------------------------------------
(* The events of the chain. *)

\* The order in which the loop takes the events of a block: by type, those of
\* one type as they were deposited.
TypeOrder == [BurnTransactionCreated |-> 1, BurnTransactionExpired |-> 2,
              BurnTransactionReady |-> 3, RefundTransactionExpired |-> 4,
              RefundTransactionReady |-> 5]

TakenBefore(block_events, j, i) ==
    LET s == TypeOrder[block_events[j].type]
        t == TypeOrder[block_events[i].type]
    IN  s < t \/ (s = t /\ j < i)

Place(block_events, i) ==
    1 + Cardinality({j \in DOMAIN block_events : TakenBefore(block_events, j, i)})

ByType(block_events) ==
    [k \in DOMAIN block_events |->
       block_events[CHOOSE i \in DOMAIN block_events : Place(block_events, i) = k]]

\* The end of a block, whose events reach the daemons that run, except those
\* that have lost their subscription.  Expired entries come in any order.
\* Blocks that neither announce nor can expire anything are left out.
EndBlock ==
    /\ events # <<>> \/ RetryInterval < MaxBlock
    /\ FinalizeBlock
    /\ \E ids \in SetToSeqs(ExpiredBurns), hashes \in SetToSeqs(ExpiredRefunds),
          deaf \in SUBSET {d \in Daemon : job[d].pc # "down"} :
         LET expired ==
               [i \in DOMAIN ids |->
                  BurnExpired(ids[i], burn_transactions[ids[i]])]
               \o [i \in DOMAIN hashes |->
                     RefundExpired(hashes[i], refund_transactions[hashes[i]])]
             sorted == ByType(events \o expired)
         IN  /\ inbox' = [d \in Daemon |->
                            IF job[d].pc = "down" \/ d \in deaf THEN inbox[d]
                            ELSE inbox[d] \o sorted]
             /\ breaks' = breaks + Cardinality(deaf)
             /\ breaks' <= faults.breaks
    /\ rounds' = [e \in DOMAIN rounds |->
                    IF e \in ExpiredBurns \cup ExpiredRefunds
                    THEN rounds[e] + 1 ELSE rounds[e]]
    /\ UNCHANGED <<job, wallet_seq, stellarVars, faults>>

\* The loop takes the next event off its inbox.
Takes(d, type) ==
    /\ job[d] = Idle
    /\ inbox[d] # <<>> /\ Head(inbox[d]).type = type
    /\ inbox' = [inbox EXCEPT ![d] = Tail(@)]
    /\ UNCHANGED <<palletVars, stellarVars, faultVars>>

Does(d, todo) ==
    /\ job' = [job EXCEPT ![d] = todo]
    /\ UNCHANGED wallet_seq

-----------------------------------------------------------------------------
(* The wallet. *)

\* The bytes a validator signs.  Only a refund has a memo: the hash of the
\* deposit; nothing in the payment of a burn names the burn.
StellarTx(target, amount, memo, seqno) ==
    [target |-> target, amount |-> amount, memo |-> memo, seqno |-> seqno]
SignatureOf(key, tx) == <<key, tx>>

\* Sign with the next number of the wallet, then call the pallet.
SignsAndCalls(d, pc, id, target, amount, memo, then) ==
    LET seqno == wallet_seq[d] + 1
        tx == StellarTx(target, amount, memo, seqno)
    IN
    /\ wallet_seq' = [wallet_seq EXCEPT ![d] = seqno]
    /\ job' = [job EXCEPT ![d] =
                 [pc |-> pc, id |-> id, tx |-> tx, then |-> then]]

\* A burn or refund fetched from the pallet, to be submitted.
ToSubmit(id, entry, memo, then) ==
    [pc |-> "submit", id |-> id, signatures |-> entry.signatures, then |-> then,
     tx |-> StellarTx(entry.target, entry.amount, memo, entry.sequence_number)]

\* AddSignatureBase64 verifies each of the signatures it adds.
Verified(signatures, tx) ==
    /\ Len(signatures) >= SignatureCount
    /\ \A i \in 1..SignatureCount :
         signatures[i].signature = SignatureOf(signatures[i].stellar_pub_key, tx)

\* Stellar (external): a transaction has the next number of its account.
InSequence_Any(tx) == TRUE
InSequence(tx) == tx.seqno = account_seq + 1

\* What an error of the submission leads to.
AfterError_Ignored(todo) == todo.then
AfterError(todo) == Down("submit")

\* Whoever sends again what was applied is told of its success, or gets an
\* error.
Submit(d) ==
    LET tx == job[d].tx
        verified == Verified(job[d].signatures, tx)
        applies == verified /\ InSequence(tx)
        applied == \E i \in DOMAIN payments : payments[i].tx = tx
    IN
    /\ job[d].pc = "submit"
    /\ wallet_seq' = [wallet_seq EXCEPT ![d] = tx.seqno]
    /\ IF applies
       THEN /\ account_seq' = tx.seqno
            /\ payments' = Append(payments, [id |-> job[d].id, tx |-> tx])
       ELSE UNCHANGED stellarVars
    /\ \/ /\ applies \/ (verified /\ applied)
          /\ job' = [job EXCEPT ![d] = @.then]
       \/ /\ ~applies \/ faults.lossy
          /\ job' = [job EXCEPT ![d] = AfterError(@)]
    /\ UNCHANGED <<palletVars, inbox, faultVars>>

-----------------------------------------------------------------------------
(* The calls to the pallet.  One that returns an error is repeated unless    *)
(* what it is for is done; a refusal alone changes nothing and is no step.   *)

Burned(id) == executed_burn_transactions[id] # None
Minted(id) == executed_mint_transactions[id] # None
Refunded(hash) == executed_refund_transactions[hash] # None

Retries(d, pc, call, done) ==
    /\ job[d].pc = pc
    /\ \/ call /\ job' = [job EXCEPT ![d] = @.then]
       \/ call /\ faults.lossy /\ UNCHANGED job
       \/ done /\ job' = [job EXCEPT ![d] = @.then] /\ UNCHANGED palletVars
    /\ UNCHANGED <<inbox, wallet_seq, stellarVars, faultVars>>

RetryProposeWithdrawOrAddSig(d) ==
    LET id == job[d].id
        tx == job[d].tx
    IN  Retries(d, "propose_burn",
                ProposeBurnOrAddSig(d, id, tx.target, tx.amount,
                                    SignatureOf(KeyOf[d], tx), KeyOf[d], tx.seqno),
                Burned(id))

RetrySetWithdrawExecuted(d) ==
    Retries(d, "set_burn_executed", SetBurnExecuted(d, job[d].id),
            Burned(job[d].id))

RetryProposeMintOrVote_Once(d) ==
    Retries(d, "propose_mint",
            ProposeOrVoteMint(d, job[d].id, job[d].target, job[d].amount), TRUE)
RetryProposeMintOrVote(d) ==
    Retries(d, "propose_mint",
            ProposeOrVoteMint(d, job[d].id, job[d].target, job[d].amount),
            Minted(job[d].id))

RetryCreateRefundTransactionOrAddSig(d) ==
    LET hash == job[d].id
        tx == job[d].tx
    IN  Retries(d, "create_refund",
                CreateRefundOrAddSig(d, hash, tx.target, tx.amount,
                                     SignatureOf(KeyOf[d], tx), KeyOf[d], tx.seqno),
                Refunded(hash))

RetrySetRefundTransactionExecuted(d) ==
    Retries(d, "set_refund_executed", SetRefundExecuted(d, job[d].id),
            Refunded(job[d].id))

-----------------------------------------------------------------------------
(* The process. *)

Crash(d) ==
    /\ breaks < faults.breaks
    /\ job[d].pc # "down"
    /\ job' = [job EXCEPT ![d] = Down("crash")]
    /\ breaks' = breaks + 1
    /\ UNCHANGED <<palletVars, inbox, wallet_seq, stellarVars, faults, rounds>>

\* NewBridge and NewStellarWallet
Restart(d) ==
    /\ job[d].pc = "down"
    /\ job' = [job EXCEPT ![d] = Idle]
    /\ inbox' = [inbox EXCEPT ![d] = <<>>]
    /\ wallet_seq' = [wallet_seq EXCEPT ![d] = account_seq]
    /\ UNCHANGED <<palletVars, stellarVars, faultVars>>

-----------------------------------------------------------------------------
(* Properties. *)

\* The loop of a daemon is in one of its known places, and events are of burns
\* and refunds the pallet knows.
DaemonTypeOK ==
    /\ \A d \in Daemon :
         /\ job[d].pc \in {"idle", "down", "propose_burn", "set_burn_executed",
                           "propose_mint", "create_refund",
                           "set_refund_executed", "fetch_burn", "fetch_refund",
                           "submit", "mint", "save"}
         /\ \A i \in DOMAIN inbox[d] :
              LET e == inbox[d][i] IN
              IF e.type \in {"RefundTransactionExpired", "RefundTransactionReady"}
              THEN refund_transactions[e.hash] # None \/ Refunded(e.hash)
              ELSE e.id \in 1..burn_transaction_id
    /\ wallet_seq \in [Daemon -> Nat] /\ account_seq \in Nat
    /\ rounds \in [BurnId \cup RefundHash -> Nat]
    /\ faults \in Faults /\ breaks \in 0..faults.breaks

PaymentsOf(id) == {i \in DOMAIN payments : payments[i].id = id}
Paid(id) == PaymentsOf(id) # {}

\* A burn or a refund is paid at most once for each time its signatures were
\* collected, whoever submits it, how often, and whatever breaks in between: to
\* pay twice takes an expiry (on_finalize, lib.rs:251).  For a refund it also
\* needs that any two sets of SignatureCount signers have one in common:
\* create_refund does not look at the executed refunds (lib.rs:550), so late
\* signers sign once more, and must not be enough for a second payment.
PaidOncePerRound ==
    \A id \in DOMAIN rounds : Cardinality(PaymentsOf(id)) <= 1 + rounds[id]

\* specs/bridge.md:65 "stellar has a double spend protection mechanism": a burn
\* is paid once.
PaidAtMostOnce == \A id \in DOMAIN rounds : Cardinality(PaymentsOf(id)) <= 1
=============================================================================
