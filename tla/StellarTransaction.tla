------------------------- MODULE StellarTransaction -------------------------
(***************************************************************************)
(* What a daemon makes of a transaction of the bridge account:              *)
(* processTransaction of tfchain_bridge/pkg/stellar/stellar.go.             *)
(*                                                                         *)
(* A transaction is a record [hash, memo, successful, effects, operations]; *)
(* an effect has an account, a type and an asset, an operation a type and,   *)
(* when it is a payment, from, to and amount.                               *)
(***************************************************************************)
EXTENDS Integers, Sequences, SequencesExt, FiniteSetsExt

CONSTANTS
    BridgeAccount,      \* the account of the bridge on Stellar
    Tft                 \* the asset [code, issuer]

\* An asset is passed over only when its code and its issuer both differ.
PassedOver(asset) == asset.code # Tft.code /\ asset.issuer # Tft.issuer

Credits(tx) ==
    {i \in DOMAIN tx.effects : /\ tx.effects[i].account = BridgeAccount
                               /\ tx.effects[i].type = "account_credited"
                               /\ ~PassedOver(tx.effects[i].asset)}

\* One mint event for each credit, all with the senders of the transaction;
\* none when one of its operations is not a payment.
MintEvents(tx) ==
    IF ~tx.successful \/ \E i \in DOMAIN tx.operations :
                            tx.operations[i].type # "payment"
    THEN 0
    ELSE Cardinality(Credits(tx))

\* The amount entered for a sender of the map.
Enter(senders, from, amount) ==
    [s \in DOMAIN senders \cup {from} |-> IF s = from THEN amount ELSE senders[s]]

AddSender_Last(senders, op) ==
    IF op.to # BridgeAccount THEN senders ELSE Enter(senders, op.from, op.amount)
\* The loop over the operations: payments to others are passed over.
AddSender(senders, op) ==
    IF op.to # BridgeAccount THEN senders
    ELSE IF op.from \in DOMAIN senders
    THEN [senders EXCEPT ![op.from] = @ + op.amount]
    ELSE Enter(senders, op.from, op.amount)

\* The deposited amount of each sender.
Senders(tx) ==
    FoldLeft(LAMBDA senders, op : AddSender(senders, op), <<>>, tx.operations)

\* What a sender has sent, for the properties: the sum of its payments.
SentBy(tx, sender) ==
    MapThenSumSet(LAMBDA i : tx.operations[i].amount,
                  {i \in DOMAIN tx.operations :
                     /\ tx.operations[i].type = "payment"
                     /\ tx.operations[i].to = BridgeAccount
                     /\ tx.operations[i].from = sender})
=============================================================================
