---------------------------- MODULE PalletLedgers ----------------------------
(***************************************************************************)
(* The pallet implements three ledgers of entries.  The open entries are     *)
(* those of MintTransactions, BurnTransactions and RefundTransactions, the   *)
(* closed ones those of the Executed maps, and the terms are what a record   *)
(* says apart from its votes, signatures, sequence number and block.         *)
(***************************************************************************)
EXTENDS TftBridgePallet

ASSUME TermsAssumption ==
    None \notin [target : Account \cup StellarAddress, amount : Nat]

TermsOf(tx) ==
    IF tx = None THEN None ELSE [target |-> tx.target, amount |-> tx.amount]

\* A mint may be closed by its first vote, when that is a majority.
Mints == INSTANCE EntryLedger WITH
    Id <- MintId,
    Terms <- [target : Account, amount : Nat],
    AtOnce <- TRUE,
    MayReopen <- FALSE,
    open <- [m \in MintId |-> TermsOf(mint_transactions[m])],
    closed <- [m \in MintId |-> TermsOf(executed_mint_transactions[m])]

Burns == INSTANCE EntryLedger WITH
    Id <- BurnId,
    Terms <- [target : StellarAddress, amount : Nat],
    AtOnce <- FALSE,
    MayReopen <- FALSE,
    open <- [id \in BurnId |-> TermsOf(burn_transactions[id])],
    closed <- [id \in BurnId |-> TermsOf(executed_burn_transactions[id])]

\* create_stellar_refund_transaction_or_add_sig does not look for an executed
\* refund (lib.rs:548).
Refunds == INSTANCE EntryLedger WITH
    Id <- RefundHash,
    Terms <- [target : StellarAddress, amount : Nat],
    AtOnce <- FALSE,
    MayReopen <- TRUE,
    open <- [h \in RefundHash |-> TermsOf(refund_transactions[h])],
    closed <- [h \in RefundHash |-> TermsOf(executed_refund_transactions[h])]

\* Whatever the validators vote and in which order, a mint is opened once, with
\* the terms of its first vote (lib.rs:600), and closed with those terms.
MintsLedgered == Mints!LedgerSpec

\* Whatever is signed, expires or is executed (lib.rs:253, :651, :754), a burn is
\* opened once, by its swap, and closed once, with the terms of the swap.
BurnsLedgered == Burns!LedgerSpec

\* A refund keeps the terms of its first signature until it is closed, and is
\* closed at most once, although it may be opened again after that (lib.rs:548).
RefundsLedgered == Refunds!LedgerSpec
=============================================================================
