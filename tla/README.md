# A TLA+ model of the TFT bridge

The bridge moves TFT between Stellar and tfchain. A deposit to the bridge
account on Stellar is minted on tfchain; a `swap_to_stellar` on tfchain burns
the tokens and pays them out on Stellar. There is no central party: every
validator runs a daemon, the daemons vote for mints and sign payments, and a
pallet of the chain counts votes and collects signatures.

## The system

### Components

| Component | State | Operations | Where |
|---|---|---|---|
| Pallet, administration | `Validators`, `FeeAccount`, `WithdrawFee`, `DepositFee` | add/remove a validator, set the fees and the fee account | `pallet-tft-bridge/src/lib.rs` |
| Pallet, mints | `MintTransactions`, `ExecutedMintTransactions` | propose or vote; the deciding vote mints | same |
| Pallet, burns | `BurnTransactions`, `ExecutedBurnTransactions`, `BurnTransactionID` | swap, add a signature, set executed | same |
| Pallet, refunds | `RefundTransactions`, `ExecutedRefundTransactions` | create or add a signature, set executed | same |
| Pallet, end of block | `block` of every burn and refund | `on_finalize`: expiry and reset | same |
| Daemon, main loop | two channels | take the events of a block, by type; take deposits; start, start with `--rescan` | `tfchain_bridge/pkg/bridge/bridge.go`, `main.go` |
| Daemon, withdraw handlers | – | created, expired, ready, bad withdraw | `pkg/bridge/withdraw.go` |
| Daemon, mint and refund handlers | deposit fee read at start | mint, refund, refund expired, refund ready | `pkg/bridge/mint.go`, `refund.go` |
| Daemon, wallet | local sequence number, number of signatures to use | sign, submit, check an account | `pkg/stellar/stellar.go` |
| Daemon, Stellar stream | cursor | fetch transactions, sum up the senders | `pkg/stellar/stellar.go` |
| Daemon, chain client | – | call and retry; subscribe to heads, fetch events | `pkg/substrate/client.go`, `events.go` |
| Daemon, persistency | Stellar cursor in a file | save, load | `pkg/persistency.go` |
| Stellar, `pallet_balances`, `substrate-client` | accounts, balances | external, modelled from their use | – |

The tools, the chart, the configuration structs and the test runtime keep no
state of the protocol and are not modelled.

### Interaction

A swap: the pallet emits `BurnTransactionCreated`; each daemon checks the
target account, signs a payment with the next sequence number of its *local*
counter and sends the signature to the pallet. With a majority of signatures
the pallet emits `BurnTransactionReady`; every daemon then submits the payment
with the collected signatures, and sets the burn executed. A burn that is not
executed within `RetryInterval` blocks loses its signatures and is announced
`BurnTransactionExpired`, for which the daemons sign again. A burn whose target
cannot be paid is minted back by votes for the mint `refund-<id>`.

A deposit: each daemon reads it from its Stellar stream and votes for its mint,
or signs a refund (no memo, several senders, too small), and saves its cursor.

### What is hard

* Daemons act on events they read some time ago, between calls that other
  daemons' calls and the end of a block can overtake.
* Each daemon counts the sequence numbers of one shared account by itself.
* A daemon can end between any two calls, and then misses blocks for good.
* A call can be done although its reply is lost, and is then repeated.
* The expiry races signatures, submissions and executions.
* Root can change the number of validators, and the fees, under way.

What makes each component correct: the pallet loses and duplicates nothing,
counts signers once, mints and burns what the ledger says; the daemons pay a
burn once, close it only when it is paid, do not pay and refund the same one,
and settle every swap. The list `hazards` of `PROJECT.json` names the lines
where these can go wrong.

## The modules

| Module | Content |
|---|---|
| `TftBridgePallet` | the pallet: one action per extrinsic and one for the end of a block; its properties |
| `TftBridgePalletProofs` | theorems about it |
| `EntryLedger` | what the pallet promises of its entries, abstractly |
| `PalletLedgers` | the refinement mappings from the pallet to three such ledgers |
| `PalletLedgersProofs` | theorems that they are implemented |
| `Sums` | lemmas about sums over finite sets |
| `MCPallet` | instances of the pallet and its ledgers for TLC |
| `BridgeDaemon` | on top of the pallet: a daemon per validator with its events, retried calls, wallet and process, and the bridge account on Stellar |
| `BridgeWithdraw` | the handlers of swaps (`withdraw.go`) on top of the daemon |
| `BridgeWithdrawProofs` | a theorem about it |
| `MCWithdraw` | instances of it |
| `StellarTransaction` | `processTransaction` as operators: the credits and the senders of a transaction |
| `BridgeDeposit` | the stream of deposits, the handlers of `mint.go` and `refund.go`, the saved cursor, on top of the daemon |
| `MCDeposit` | instances of it |
| `Bridge` | swaps and deposits at once, in one loop and on one account |
| `BridgeProofs` | theorems about the senders of a transaction, and about the stream and the cursors |
| `BridgeTermsProofs` | theorems about what the daemons ask for and close, and that the bridge implements the pallet |
| `BridgeOneWayProofs` | the theorem that a burn is not both paid and minted back |
| `BridgeSolventProofs` | theorems that a deposit is not both minted and returned, that nothing is paid twice, and that the bridge is solvent |
| `MCBridge` | instances of it |

```
TftBridgePallet ── PalletLedgers (INSTANCE EntryLedger, three times) ── MCPallet
      │
BridgeDaemon ──┬── BridgeWithdraw ── MCWithdraw
               │         └──────────┐
               └── BridgeDeposit ───┴── Bridge ── MCBridge
                    │    └── MCDeposit
        StellarTransaction
```

### `TftBridgePallet`

State and actions have the names of the code. A storage map is a function into
records or `None`. FRAME rolls back the storage of a dispatchable that returns
an error (polkadot v0.9.36), so an action is enabled exactly when the call
returns `Ok`; in particular the deciding vote that `mint_tft` refuses
(`lib.rs:446`) changes nothing, not even the vote count. Three history
variables no guard reads record who voted (`voters`) and what was announced
Ready since its last reset (`burn_ready`, `refund_ready`).

* `SwapToStellar` is `burn_tft` with its three refusals (address, fee, usable
  balance) and the `KeepAlive` withdrawal. `PublicKey` stands for the byte
  strings the decoding accepts.
* `ProposeBurnOrAddSig` and `CreateRefundOrAddSig` include the signature
  function they end in. The code after the return at `lib.rs:684` cannot be
  reached.
* `FinalizeBlock` is `on_finalize` and the start of the next block.
* `balances` are the free balances of `pallet_balances`; `DepositCreating` and
  `CanWithdraw` are what `lib.rs` uses of it, with the existential deposit and
  locked balances. Transaction fees are left out.

Left out of the pallet: events without a reader in the repository, call weights,
the sortedness of the validators' vector, and the upper bounds of `u64` and
`u32` (amounts above 2^64 saturate; no instance gets near).

### `EntryLedger` and `PalletLedgers`

`EntryLedger` knows open and closed entries and their terms (who gets how
much), and nothing of votes, signatures, fees and blocks. An entry is opened
once, closed with the terms it was opened with, and one entry changes at a
time. Two switches tell the three ledgers of the pallet apart: a mint may be
closed in the step that opens it (a majority of one), a refund may be opened
again after it was closed (the code does not look, `lib.rs:550`).
`PalletLedgers` maps the storage to them; a reset by `on_finalize` is a stutter,
and so is a vote that does not decide.

### `BridgeDaemon`

A daemon is `inbox` (events it has still to handle), `job` (where its loop is)
and `wallet_seq`. A step is a call that leaves the process together with what
is computed from it until the next such call.

* `EndBlock` ends a block and puts its events, by type, into the inboxes of
  the daemons that run and are subscribed. The expired entries come in any
  order (the storage map iterates by hash). Blocks in which nothing is announced
  are skipped when the interval is longer than the instance. Finalized and best
  block are one.
* A payment is `[target, amount, memo, seqno]`: only the refund of a deposit has
  a memo, and nothing in the payment of a burn names the burn. A signature is
  the key and the payment.
* `Submit` verifies the first `SignatureCount` signatures against the payment
  built from the record, as `AddSignatureBase64` does, and Stellar takes it if
  its number is the next. Whoever sends again what was applied is told of the
  success or gets an error; with `lossy` an applied payment may be answered by
  an error. Any error ends the process (`AfterError`), although
  `specs/bridge.md:65` says that the ones who come second can ignore it.
* A refused call to the pallet is repeated until what it is for is done
  (`client.go`), so the refusal is no step. A vote that the fee makes fail is
  repeated for as long as the fee stays. When what it is for is done already, a
  loop may stop without having called: that is the call whose transport failed.
* `Crash` stands for any end of the process between two steps, an error of a
  query that a handler returns included; so `flaky` covers only the queries whose
  errors the code swallows. `Restart` reads the sequence number of the account
  and starts with an empty inbox: it merges that reading (`stellar.go`) and the
  subscription to new heads, so a payment that another daemon submits between
  the two is not told apart.

`Faults` is the set of the faults of the surroundings, of which a behaviour has
one: how often a process or a subscription breaks, whether replies are lost,
whether queries fail, whether a restart may be a rescan.

### `BridgeWithdraw`

`HandleWithdrawCreated`, `HandleBadWithdraw` and `HandleWithdrawExpired` are one
step each up to their call to the pallet; `handleWithdrawReady` has three
(`HandleWithdrawReady`, `FetchBurn`, `Submit`) and the call, because other
daemons and the expiry can come between. The mint `refund-<id>` of a bad target
has the id of its burn.

### `StellarTransaction` and `BridgeDeposit`

A transaction has a hash, a memo, effects and operations. `MintEvents` is the
number of mint events the code makes of it: one for each of its `Credits`, none when one
of its operations is no payment. `Senders` is the fold of its payments to the
bridge; `SentBy` is the reference it is compared with, the sum by comprehension.
The filter of `stellar.go:400` passes over an asset only when code and issuer both
differ, and the assets of the operations are not looked at: both are in the
model as they are in the code.

* A deposit of the instances has any of the shapes the code tells apart: a memo
  that names a twin, one that does not, `return`, too small, several
  credits, several senders, an operation that is no payment.
* `Mint` merges the questions whether the deposit is minted or refunded with the
  decoding of the memo into one step; the vote, the signature and the save of
  the cursor are steps of their own.
* Of several senders the first of a map iteration is refunded, so any of them;
  daemons may pick different ones.
* The stream hands over one transaction at a time. `cursor` is the number of the
  last saved one, or `None` for a file that a crash left torn: no start reads it
  again, and a rescan reads it before it writes it.
* The payments of the bridge itself come back on the stream, make no mint event
  and move only the cursor in memory; they are left out.

### `Bridge`

The same daemons with both kinds of work in one loop. `BridgeNext` adds the
handlers of swaps to `DepositNext`; the bridge account, its sequence number and
the wallets are shared.

### Mutants

An operator `X_Y` before an operator `X` is `X` with a plausible bug. For every
property of a passing run, TLC finds the property violated with one of them in
the place of `X`: `PROJECT.json` pairs them.

## The runs

`tlc -config <cfg> <module>`; the passing runs end within a minute each on two cores: their
instances are as small as their questions allow, some hundred thousand states.

| cfg | Properties | Instance |
|---|---|---|
| `MCPallet_mint` | `NeverPendingAndExecuted`, `VotesDecide`, `Backed`, `ExecutedIsFinal`, `MoneyMovesWithLedgerEntry`, `MintsLedgered` | 2 deposits; 3 fixed validators, a majority is 2; fees 1 and 2 against amounts 1 and 3, so that a fee can eat the amount; a fee account that may be set; existential deposit 2, so that dust occurs |
| `MCPallet_burn` | `TypeOK`, `NeverPendingAndExecuted`, `BurnIdsAccounted`, `SignersDistinct`, `RetryWindow`, `Backed`, `BurnTermsFrozen`, `BurnsLedgered` | 2 swaps, 2 validators, one of which root removes and adds again, 3 keys, 2 signatures, interval 1, 4 blocks: a burn can expire, be signed again and expire again |
| `MCPallet_ready` | `SignersDistinct`, `RetryWindow`, `MajorityIsReady`, `ExecutedIsFinal`, `RefundsLedgered` | a burn and a refund without fees, 2 fixed validators, 3 keys for a majority of 2, so that a signature beyond it is offered; 3 blocks and interval 1, so that both can expire, and the refund be created again after its execution |
| `MCWithdraw_faults` | `DaemonTypeOK`, `PaidOncePerRound`, `ExecutedMeansPaid`, `NotPaidAndRefunded`, `RefundsTheBurn` | 3 daemons, 1 swap to a good or a bad target, interval 2 and 5 blocks: the burn expires, and what is signed after that is paid; one break and lost replies, or a Horizon that fails at random |
| `MCDeposit_faults` | `DepositTypeOK`, `PaidOncePerRound`, `MintedAsDeposited`, `RefundMeansPaid`, `NotMintedAndRefunded`, `NothingSkipped` | 3 daemons, 1 deposit of any of 5 shapes, interval 1 and 3 blocks: a refund that expired is paid again; one break with a torn cursor or a rescan, or lost replies; and for the plain deposit a fee that root raises to its amount, and a Horizon that fails (`MCDisagreement`) |
| `MCBridge_two` | `Solvent`, `ExecutedMeansPaid`, `RefundMeansPaid`, `PaidOncePerRound` | 2 daemons, both needed; a deposit to mint or to return to one of two senders, and 2 swaps, all on one account, for the 3 blocks in which nothing expires: all three can be paid; or 1 swap and 4 blocks, in which swap and refund expire while daemons hold their signatures (`MCShortOrSingle`) |
| `MCBridge_live` | `SwapsSettle`, `DepositsSettle` | 3 daemons; a deposit that is minted and then swapped to a good or a bad target, or one that is returned; fairness, no fault, no expiry |

The bounds are enough for what the properties tell apart: a majority that is
neither one nor all (2 of 3) wherever daemons disagree, an entry that expires
and expires again, two entries of each kind that share the wallet or the fee
account. A second payment, after an expiry, happens in `MCWithdraw_faults` for the
burn and in `MCDeposit_faults` for the refund. Two constraints, named in the table,
leave out combinations that multiply the states: other deposits do not depend on the
fee's change, except for being too small, which is one of the ways to ask for
a refund; and two swaps are in `MCBridge_two` for what they do to each other's
numbers, for which nothing need expire. Every
instance has a `SignatureCount` that is the majority, as a deployment must.
Symmetric validators, keys and signatures are permuted; no property with
fairness is checked under symmetry. Deadlock is checked for the
pallet; the instances with daemons do stop, when the blocks are used up and the
daemons have nothing to do.

What the passing runs show, and where it ends:

* `PaidOncePerRound` and `ExecutedMeansPaid` are what crashes, lost replies
  and retries leave of "a burn is paid once": a second payment takes an expiry.
  For a refund that is so only if two sets of `SignatureCount` signers have one in
  common, as in every instance: the pallet takes signatures for an executed refund
  again (finding `refund_again`), and those of the daemons that come late must
  not be enough for a second payment.
  A burn that is executed need not have been paid itself: two equal burns whose
  payments get the same number are one Stellar transaction, so the property asks
  for a payment of its amount to its target.
* `RefundMeansPaid` asks for more, because the memo of a refund names its
  deposit. For several senders it asks for the money of one of them: the code
  returns no more than that.
* `NotPaidAndRefunded` and `NotMintedAndRefunded` hold for daemons that disagree,
  because each daemon works for an entry in one way only and votes once. They
  need that no daemon restarts or repeats a vote, since the votes of one daemon
  then count twice; for deposits also that the refund does not expire (finding
  `mint_and_refund`) and that the transaction has one credit (finding
  `vote_again`).
* `NothingSkipped` needs a Horizon that answers: operations that cannot be
  fetched are passed over (`stellar.go:414`), and the cursor of the next deposit
  moves beyond them.
* `Solvent` is about the bridge as a whole: what accounts hold on tfchain and
  what swaps wait for never exceeds what was deposited less what was paid. It
  needs that nothing expires, since a burn that expires can be paid twice.
* `SwapsSettle` and `DepositsSettle` are shown where a swap follows the deposit it
  spends. When two payments are signed at once, the submission of the one
  with the later number first ends daemons, and only an expiry brings both back.

### What the code does otherwise

Five runs show, each with one property that quotes a comment or document, where
the code does something else; `findings` of `PROJECT.json` has the lines.

| cfg | Property | What happens |
|---|---|---|
| `MCPallet_refund_again` | `RefundNotDuplicated` | an executed refund is created again by a late validator |
| `MCDeposit_vote_again` | `MintedByMajority` | a deposit in two payments is voted for twice by each daemon |
| `MCWithdraw_double_pay` | `PaidAtMostOnce` | a burn expires between payment and execution and is paid again |
| `MCWithdraw_bad_target` | `WithdrawnOrRefunded` | the burn is closed after one vote for its refund and the others skip it |
| `MCDeposit_mint_and_refund` | `MintedOrReturned` | a daemon that cannot look up a twin asks for a refund; when that expires all daemons sign it, although the deposit was minted |

### Fairness

`FairWithdrawSpec` and `FairBridgeSpec` assume that blocks go on being produced
(`EndBlock`), that a running daemon goes on with its loop (`Handle`, `Call`: the
loop of `Start` takes whatever its channels hold, and a retry loop repeats its
call every ten seconds) and that a daemon that ended is started again (the
chart's deployment). All of it is weak fairness of each daemon by itself.
Crashes, swaps, deposits and changes of the fee are not fair.

## What is proved

For every value of the constants that satisfies the assumptions of the modules,
with any number of accounts, validators, burns, mints, refunds and blocks, and of
daemons, deposits and breaks where these occur:

| Theorem | Statement |
|---|---|
| `TypeCorrect` | `Spec => []TypeOK` |
| `BurnIdsAreAccounted` | `Spec => []BurnIdsAccounted` |
| `NothingPendingAndExecuted` | `Spec => []NeverPendingAndExecuted` |
| `RetryWindowHolds` | `Spec => []RetryWindow` |
| `SignersAreDistinct` | `Spec => []SignersDistinct` |
| `ReadyWithFixedValidators` | `Candidate = {}` implies `Spec => []MajorityIsReady` |
| `ExecutedStaysExecuted` | `Spec => ExecutedIsFinal` |
| `BurnTermsAreFrozen` | `Spec => BurnTermsFrozen` |
| `VotesDecideWithFixedValidators` | `Candidate = {}` implies `Spec => []VotesDecide` |
| `MoneyMovesOnlyWithEntries` | `Spec => MoneyMovesWithLedgerEntry` |
| `MintsAreLedgered` | `Spec => MintsLedgered` |
| `BurnsAreLedgered` | `Spec => BurnsLedgered` |
| `RefundsAreLedgered` | `Spec => RefundsLedgered` |
| `TokensAreBacked` | `MintId` finite implies `Spec => []Backed` |
| `PaidOnceEachRound` | `RefundHash = {}` implies `WithdrawSpec => []PaidOncePerRound` |
| `CursorsFollowTheStream` | `BridgeSpec => []DepositTypeOK` |
| `NothingIsSkipped` | `BridgeSpec => []NothingSkipped` |
| `NothingIsSkippedAlone` | `DepositSpec => []NothingSkipped` |
| `SendersSent` | `Senders` has each sender of a transaction with the sum of its payments |
| `EventsOfABlockInOrder` | `ByType` is a permutation, by type and stable |
| `BridgeImplementsPallet` | `BridgeSpec => Spec` |
| `BackedInTheBridge` | `BridgeSpec => []Backed` |
| `DaemonsAreTypeCorrect` | `BridgeSpec => []DaemonTypeOK` |
| `ExecutedBurnsArePaid` | `BridgeSpec => []ExecutedMeansPaid` |
| `MintsGiveBackTheBurn` | `BridgeSpec => []RefundsTheBurn` |
| `MintsAreDeposits` | `BridgeSpec => []MintedAsDeposited` |
| `ExecutedRefundsArePaid` | `BridgeSpec => []RefundMeansPaid` |
| `DepositsAloneAreTrue` | `DepositSpec => [](DaemonTypeOK /\ MintedAsDeposited /\ RefundMeansPaid)` |
| `BurnsGoOneWay` | `QuorumsMeet` implies `BridgeSpec => []NotPaidAndRefunded` |
| `DepositsGoOneWay` | `QuorumsMeet` implies `BridgeSpec => []NotMintedAndRefunded` |
| `DepositsGoOneWayAlone` | `QuorumsMeet` implies `DepositSpec => []NotMintedAndRefunded` |
| `BurnsArePaidOnceEachRound` | `BridgeSpec => []BurnsPaidOnce`, which is `PaidOncePerRound` for burns |
| `RefundsArePaidOnce` | `SignaturesMeet` implies `BridgeSpec => []RefundsPaidOnce` |
| `BridgeIsSolvent` | `QuorumsMeet`, `SignaturesMeet` and `HandledOnce` imply `BridgeSpec => [](Still => Solvent)` |
| `BridgeIsSolventWithoutFaults` | these and `NothingBreaks` imply `BridgeSpec => []Solvent` |

The hypotheses of each are given with its argument.

The first ten are in `TftBridgePalletProofs`. The argument: `TypeOK` is
inductive by itself; that balances stay natural
numbers needs the guard of the swap. For the others, `BurnSteps` and
`RefundSteps` say once what any step does to one burn or refund (left alone,
created, signed, executed, reset), and each invariant is a case analysis over
these. Three need a strengthening. `BurnIdsAccounted` and
`NeverPendingAndExecuted` are proved together as `BurnLedger`, because that a new
id is free follows from the first and that an executed burn is not pending again
from the second. `MajorityIsReady` speaks of pending entries only and is not
inductive: an entry that is not there could be announced already; `ReadyInvariant`
adds that only pending entries are. It also needs the fixed validators: Ready
is announced only when a signature is added (`lib.rs:714` and `:746`), so when root
removes a validator the signatures of the others can be a majority that nothing
announces before the expiry. Candidates are the accounts root may add or remove,
so `Candidate = {}` fixes them.

The next three, in `PalletLedgersProofs`, show that initial states map to the
initial ledger and that every step of the pallet is a step of the ledger or
leaves it alone. Per entry, `BurnSteps`, `RefundSteps` and `MintSteps` say which
of the two maps changes; that a step changes one entry only is a lemma for each
ledger (`OneBurnExecuted`, `OneRefundChanged` and the like), and that a vote, a
signature or a reset keeps the terms of an entry another (`VoteKeepsTerms`,
`KeepsTermsOf`). That an entry is not opened while closed comes from
`NothingPendingAndExecuted`. They assume that `None` is not itself a pair of terms
(`TermsAssumption`).

`TokensAreBacked`, in `TftBridgePalletProofs`, is about sums over all accounts and
all entries. The library has no theorem on its folds over sets that the prover
can use, and an induction theorem takes an operator as its parameter. `Sums`
therefore proves by the least number of a set of natural numbers what is needed:
that the sum of a finite set is the sum without one element and that element
(`SumTakeOut`, `SumChanges` and the lemmas under them), for any function. A step of the
pallet changes the sums in at most two summands, the target and the fee account
or the source, so that each action is a comparison of a few numbers; the deposit
that mints, the fee that is taken out of it and the dust that is lost are in
`Backed` as an inequality. It assumes finitely many mint ids; accounts and burns
are finite by the assumptions of the modules.

`PaidOnceEachRound`, in `BridgeWithdrawProofs`, is about `WithdrawSpec`. All
signatures that Stellar verifies are over one transaction (`Verified`), so a
payment has the sequence number that the first signature of its burn was made
for. `PaidOncePerRound` alone is not inductive: it does not see the daemons
that fetched signatures and have not submitted them. `RoundInvariant` says that
some numbers, not more than there were rounds before, and the number of the first
signature of the present round are all that the burn was paid with or that a
daemon holds for it. A signature that is added leaves the first one alone
(`ProposeStep`), an expiry turns the present number into one of the earlier
(`EndBlockBurnStep`), and the account uses a number once, so the payments of a burn
are not more than these numbers. The theorem assumes `RefundHash = {}`, as
`MCWithdraw_faults` does; `BurnsArePaidOnceEachRound` below is without it.

Those in `BridgeProofs` are about the whole bridge, crashes, torn files,
rescans and lost replies included. `NothingSkipped` is not inductive either:
that a saved cursor is right depends on what the daemon did before it saves.
`Cautious` says of each daemon that all it has taken off the stream is handled,
except for the last one while the daemon works on it (`TakenIsHandled`), that the
work is for the last one (`WorkShape`), and that what is saved is handled
(`SavedIsHandled`). It is inductive because nothing a daemon did is undone
(`KnownStays`): a vote stays counted or the mint executed, a refund pending or
executed. `NothingIsSkipped` holds where `faults.flaky` is false, as the
property says; `NothingIsSkippedAlone` is the same for `DepositSpec`, which
`MCDeposit_faults` checks.

Those in `BridgeTermsProofs` are about the whole bridge as well, with all its
faults. Their common invariant is `BridgeTerms`: what every daemon is about to do
(`JobsTrue`), every event it has still to read (`EventsTrue`) and every entry of
the pallet (`LedgersTrue`, `MintsTrue`) is true of the burns, the deposits and the
payments there are. A job that signs for a burn has its target and amount; one
that signs for a refund, or votes for a mint, has what a sender of the deposit
sent (`Owed`, `Mintable`); one that sets an entry executed has the payment behind
it (`Closable`, `Returned`). None of the properties is inductive without the jobs
and the events, since a daemon carries what it read across the steps of all others.
The invariant stays because these facts only grow (`TruthStays`): terms of a
burn are frozen, deposits and payments are not taken back, and a refund that is
known stays known. So what the others do is one lemma for all jobs and events
(`JobsOutlive`, `EventsOutlive`), and there is one for each handler's own turn.
Two theorems on the way say what two loops compute, for any length:
`SendersSent`, in `BridgeProofs`, that the senders of a transaction are entered with the sums of
its payments, and `EventsOfABlockInOrder`, that the grouping by type loses and
doubles no event. For these, `AddSender` and `ByType` are written without a
recursive operator, the one as a fold and the other by the place of each event.
In every step the pallet makes one of its own steps or none, which is
`BridgeImplementsPallet`: all that is proved of `Spec` holds in the bridge, and
`BackedInTheBridge` is an instance.

`BurnsGoOneWay`, in `BridgeOneWayProofs`, needs to know what a daemon reads of a
burn, and when. A daemon is `Settled` on a burn when it has no more to read of its
creation, has not voted to mint it back and is not about to: only the handling of
the creation leads to such a vote, so it never votes (`SettledStays`). That the
creation is read once, and before every expiry, is `ReadInOrder`: ids are not used twice, the events
of one block are read by type, and a burn cannot expire in the block it was
created in, since the interval is not zero (`BlockReadInOrder`). A daemon that votes
goes on to set the burn executed (`VotersClose`), so when it reads of an expiry
after that, its signature is for a burn that is executed and is refused
(`lib.rs:664`). Hence all signatures of a burn, in the pallet and in what was fetched,
are of settled daemons (`SettledSign`), a payment takes `SignatureCount` of them
with different keys (`PaidBySettled`), and a mint a majority of the others
(`VotesAreOfVoters`). `QuorumsMeet` says that these two numbers are together more than
the daemons are; it holds when `SignatureCount` is the majority. `OneWay`, the
conjunction, holds in `MCWithdraw_faults` as well. `ReadInOrder` holds with all
faults; the rest needs that nothing breaks and no reply is lost, as the property
says.

`BridgeSolventProofs` begins with deposits. A deposit that makes one event is handled
once by each daemon: the cursor never goes back as long as nothing restarts, and
the save that ends the handling leaves nothing to do (`InHand`). So a daemon that
voted for it or signed its refund is `Past` it, and those that are past it
without a vote are its `Returners`. The signatures of the refund are of different returners
(`SignersReturn`), and the votes of others; with `QuorumsMeet` there are not
enough daemons for both, which is `DepositsGoOneWay`. Only an expiry makes a
daemon sign the refund of a deposit it voted for (finding `mint_and_refund`), so
the invariant speaks of refunds in their first round (`NotAskedAgain`).

`SignersReturn` counts two sets of signatures together: those collected until the
execution, and those of a refund that is created again after it (`lib.rs:550`).
Hence when two sets of `SignatureCount` signers always meet (`SignaturesMeet`, true of a
majority), one of them is enough at most. What was paid, and what a
daemon holds and has not submitted, has the sequence number of a set that is enough
(`PaidAsSigned`), and the account uses a number once (`AccountInOrder`). That is
`RefundsArePaidOnce`; `RefundsPaidOnce` is for a `Single` refund that has not
expired, while no daemon broke, rescanned or repeated a vote (`Still`). For burns, `PaidInRounds`
is the invariant of `PaidOnceEachRound`, for `BridgeSpec` with its refunds and rescans;
that several hashes share the account is no harm, since the first signature of a
burn still fixes the number of its payment.

`BridgeIsSolvent` puts these together. In the first round each burn and each deposit is
paid at most once and not minted besides, or minted and not paid (`SettledOnce`),
of the amount it should be (`PaymentsTrue`, which `BridgeTerms` keeps of jobs and
this of payments). So what one of them takes out of the bridge, as a mint, a
payment or what its user still waits for, is no more than what it brought in
(`BurnSettled`, `DepositSettled`). The five totals of `Solvent` run over burns,
payments and transactions; they are brought to sums over the entries (`SumInto`:
where every payment is the one of its entry, the sum of the payments is that of the
entries), added up (`SumAdds`) and compared one by one
(`TakenOut`, `BroughtIn`, `TotalsBalance`). `Backed` then says that the accounts
hold no more than the genesis, the mints and what was burned allow
(`BackedIsSolvent`). The sums need `MintId` and `StellarAddress` finite. The theorem
assumes `HandledOnce`, that the transactions sent to the bridge have one credit: a deposit
of two is handled twice by each daemon (finding `vote_again`), and the quorums count
a daemon once. `Still` is in
the statement of `BridgeIsSolvent`, so it holds in the part of a behaviour with
faults that comes before the first break; `BridgeIsSolventWithoutFaults` has it as the
hypothesis that the surroundings have none, which the comment of `Solvent` says and
`MCBridge_two` has.

The theorems of these three modules have three hypotheses. `CallsAreFree`: the constants
`Amount`, `SeqNo` and `Sig` are what a caller may pass to the pallet, and the code
lets it pass any number and any signature; they are finite in the instances only
because TLC has to enumerate them, and there they hold all that occurs.
`IdsDiffer`: the mint `refund-<id>` of a burn is not the hash of a Stellar
transaction. And there are finitely many hashes (for `BackedInTheBridge`,
finitely many mint ids), of which any number may be deposited.

`BridgeWithdrawProofs` and `BridgeProofs` assume that `None` is not a record of the
pallet (`NoneAssumption`: its domain has no `votes` and no `signatures`). `None`
is a model value, whose domain TLC does not evaluate, so this is a hypothesis of
the theorems and not an `ASSUME`. The numbers of daemons, deposits, swaps, blocks
and breaks are any.

Only model-checked: liveness (`SwapsSettle`, `DepositsSettle`), which is out of
the prover's reach; and `PaidOncePerRound` for refunds that expire, or where
daemons break, rescan or repeat a call: there a daemon may handle a refund more
than once, and `RefundsArePaidOnce` argues from signing once.

## Not modelled

* The vector of validators with its binary search (`lib.rs:858`): the validators
  are a set. An unsorted genesis would make a validator unknown to the pallet.
* `LastHeight` of the persisted file: a rescan writes it and nothing reads it.
* The configuration structs, the tools `eventParser` and `keygen`, the chart and
  the test runtime of the pallet: no state of the protocol.
* A wallet threshold that differs from the majority of the pallet.

## The plan

Done: the pallet, its ledgers and their proofs; the daemon with swaps, deposits
and both at once; the process with its faults. Left, in this order:

1. A run with `SignatureCount` and the majority different, on both sides of
   `QuorumsMeet` and `SignaturesMeet`.
2. `ValidatorList`: the vector of validators with binary search, shown to
   implement the set when it is sorted.
3. `PaidOncePerRound` for refunds that expire: the rounds of a refund as in
   `PaidInRounds`, with a number for each of its two entries.
