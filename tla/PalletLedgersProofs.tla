------------------------ MODULE PalletLedgersProofs ------------------------
(***************************************************************************)
(* The pallet implements its three ledgers: the initial state is that of     *)
(* empty ledgers, and every step of the pallet is a step of a ledger or      *)
(* leaves it as it was.                                                     *)
(***************************************************************************)
EXTENDS PalletLedgers, TftBridgePalletProofs

(* An entry has terms, and they are of the type of the ledger.               *)
LEMMA TermsOfBurn ==
    ASSUME NEW tx \in BurnTransaction
    PROVE  /\ TermsOf(tx) = [target |-> tx.target, amount |-> tx.amount]
           /\ TermsOf(tx) \in [target : StellarAddress, amount : Nat]
           /\ TermsOf(tx) # None
  BY PalletAssumption, TermsAssumption DEF TermsOf, BurnTransaction

(* And so for the mints.                                                     *)
LEMMA TermsOfMint ==
    ASSUME NEW tx \in MintTransaction
    PROVE  /\ TermsOf(tx) = [target |-> tx.target, amount |-> tx.amount]
           /\ TermsOf(tx) \in [target : Account, amount : Nat]
           /\ TermsOf(tx) # None
  BY PalletAssumption, TermsAssumption DEF TermsOf, MintTransaction

(* Neither a signature nor a reset changes them.                             *)
LEMMA KeepsTermsOf ==
    ASSUME NEW old \in BurnTransaction, NEW new, KeepsTerms(old, new)
    PROVE  TermsOf(new) = TermsOf(old)
  BY PalletAssumption DEF TermsOf, KeepsTerms

(* What a step does to the terms of one burn: nothing, open it, or close it. *)
LEMMA BurnTermsStep ==
    ASSUME TypeOK, BurnLedger, [Next]_palletVars, NEW id \in BurnId
    PROVE  LET open == TermsOf(burn_transactions[id])
               closed == TermsOf(executed_burn_transactions[id])
               openAfter == TermsOf(burn_transactions'[id])
               closedAfter == TermsOf(executed_burn_transactions'[id])
           IN  \/ openAfter = open /\ closedAfter = closed
               \/ /\ id = burn_transaction_id + 1 /\ burn_transaction_id' = id
                  /\ open = None /\ closed = None /\ closedAfter = closed
               \/ /\ open # None /\ closed = None
                  /\ openAfter = None /\ closedAfter = open
                  /\ executed_burn_transactions'[id] # executed_burn_transactions[id]
  <1>1. /\ burn_transactions[id] \in BurnTransaction \cup {None}
        /\ executed_burn_transactions[id] \in BurnTransaction \cup {None}
        /\ block \in Nat /\ burn_transaction_id \in Nat
    BY PalletAssumption DEF TypeOK
  <1>2. CASE BurnLeft(id)
    BY <1>2 DEF BurnLeft
  <1>3. CASE BurnCreated(id)
    <2>1. burn_transactions[id] = None /\ executed_burn_transactions[id] = None
      BY <1>1, <1>3 DEF BurnCreated, BurnLedger, BurnId
    <2> QED BY <2>1, <1>3 DEF BurnCreated, TermsOf
  <1>4. CASE BurnSigned(id)
    <2>1. burn_transactions[id] \in BurnTransaction
      BY <1>1, <1>4 DEF BurnSigned, SignedTx
    <2>2. KeepsTerms(burn_transactions[id], burn_transactions'[id])
      BY <2>1, <1>4, SignedTerms DEF BurnSigned
    <2> QED BY <2>1, <2>2, <1>4, KeepsTermsOf DEF BurnSigned
  <1>5. CASE BurnExecuted(id)
    BY <1>1, <1>5, TermsOfBurn DEF BurnExecuted, TermsOf
  <1>6. CASE BurnReset(id)
    <2>1. burn_transactions[id] \in BurnTransaction
      BY <1>1, <1>6 DEF BurnReset
    <2>2. KeepsTerms(burn_transactions[id], burn_transactions'[id])
      BY <1>1, <2>1, <1>6, ResetTerms DEF BurnReset
    <2> QED BY <2>1, <2>2, <1>6, KeepsTermsOf DEF BurnReset
  <1> QED BY <1>2, <1>3, <1>4, <1>5, <1>6, BurnSteps DEF BurnStep

(* The map of executed burns changes at one burn at a time.                   *)
LEMMA OneBurnExecuted ==
    ASSUME TypeOK, [Next]_palletVars
    PROVE  \E b \in BurnId \cup {None} : \A id \in BurnId \ {b} :
             executed_burn_transactions'[id] = executed_burn_transactions[id]
  <1>1. CASE UNCHANGED executed_burn_transactions
    BY <1>1
  <1>2. ASSUME NEW validator \in Account, NEW b \in BurnId,
               SetBurnExecuted(validator, b)
        PROVE  \A id \in BurnId \ {b} :
                 executed_burn_transactions'[id] = executed_burn_transactions[id]
    BY <1>2 DEF SetBurnExecuted, TypeOK
  <1>3. ASSUME NEW source \in Account, NEW target \in StellarAddress,
               NEW amount \in Amount, SwapToStellar(source, target, amount)
        PROVE  UNCHANGED executed_burn_transactions
    BY <1>3 DEF SwapToStellar
  <1>4. ASSUME NEW validator \in Account, NEW b \in BurnId,
               NEW target \in StellarAddress, NEW amount \in Amount,
               NEW signature \in Sig, NEW key \in StellarKey, NEW seqno \in SeqNo,
               ProposeBurnOrAddSig(validator, b, target, amount, signature,
                                   key, seqno)
        PROVE  UNCHANGED executed_burn_transactions
    BY <1>4 DEF ProposeBurnOrAddSig
  <1>5. ASSUME NEW validator \in Account, NEW h \in RefundHash,
               \/ \E target \in StellarAddress, amount \in Amount,
                     signature \in Sig, key \in StellarKey, seqno \in SeqNo :
                    CreateRefundOrAddSig(validator, h, target, amount,
                                         signature, key, seqno)
               \/ SetRefundExecuted(validator, h)
        PROVE  UNCHANGED executed_burn_transactions
    BY ZenonT(40), <1>5 DEF CreateRefundOrAddSig, SetRefundExecuted, burnVars
  <1>6. FinalizeBlock => UNCHANGED executed_burn_transactions
    BY DEF FinalizeBlock
  <1>7. UNCHANGED burnVars => UNCHANGED executed_burn_transactions
    BY DEF burnVars
  <1> QED BY <1>1, <1>2, <1>3, <1>4, <1>5, <1>6, <1>7, OtherStep DEF Next

(* Every step of the pallet is a step of the ledger of burns, or none.        *)
LEMMA BurnsStep ==
    ASSUME TypeOK, TypeOK', BurnLedger, [Next]_palletVars
    PROVE  [Burns!LedgerNext]_<<[id \in BurnId |-> TermsOf(burn_transactions[id])],
             [id \in BurnId |-> TermsOf(executed_burn_transactions[id])]>>
  <1> DEFINE open == [id \in BurnId |-> TermsOf(burn_transactions[id])]
             closed == [id \in BurnId |-> TermsOf(executed_burn_transactions[id])]
  <1>1. CASE \A id \in BurnId : open'[id] = open[id] /\ closed'[id] = closed[id]
    BY <1>1
  <1>2. ASSUME NEW id \in BurnId,
               id = burn_transaction_id + 1, burn_transaction_id' = id,
               open[id] = None, closed[id] = None, closed'[id] = closed[id],
               open'[id] # None
        PROVE  Burns!Open(id)
    <2>1. \A b \in BurnId \ {id} : open'[b] = open[b] /\ closed'[b] = closed[b]
      <3> SUFFICES ASSUME NEW b \in BurnId \ {id}
                   PROVE  open'[b] = open[b] /\ closed'[b] = closed[b]
        OBVIOUS
      <3>1. b # burn_transaction_id + 1
        BY <1>2
      <3>2. CASE executed_burn_transactions'[b] = executed_burn_transactions[b]
        BY <3>1, <3>2, BurnTermsStep
      <3>3. CASE executed_burn_transactions'[b] # executed_burn_transactions[b]
        <4>1. burn_transaction_id' = burn_transaction_id
          BY <3>3, BurnSteps
             DEF BurnStep, BurnLeft, BurnCreated, BurnSigned, BurnExecuted, BurnReset
        <4>2. burn_transaction_id \in Nat
          BY DEF TypeOK
        <4> QED BY <4>1, <4>2, <1>2
      <3> QED BY <3>2, <3>3
    <2>2. open'[id] \in [target : StellarAddress, amount : Nat]
      BY <1>2, TermsOfBurn DEF TypeOK, TermsOf
    <2> QED BY <1>2, <2>1, <2>2 DEF Burns!Open
  <1>3. ASSUME NEW id \in BurnId,
               open[id] # None, closed[id] = None,
               open'[id] = None, closed'[id] = open[id],
               executed_burn_transactions'[id] # executed_burn_transactions[id]
        PROVE  Burns!Close(id)
    <2>1. \A b \in BurnId \ {id} :
            executed_burn_transactions'[b] = executed_burn_transactions[b]
      BY <1>3, OneBurnExecuted
    <2>2. \A b \in BurnId \ {id} : open'[b] = open[b] /\ closed'[b] = closed[b]
      <3> SUFFICES ASSUME NEW b \in BurnId \ {id}
                   PROVE  open'[b] = open[b] /\ closed'[b] = closed[b]
        OBVIOUS
      <3>1. burn_transaction_id' = burn_transaction_id
        BY <1>3, BurnSteps
           DEF BurnStep, BurnLeft, BurnCreated, BurnSigned, BurnExecuted, BurnReset
      <3>2. burn_transaction_id \in Nat
        BY DEF TypeOK
      <3> QED BY <2>1, <3>1, <3>2, BurnTermsStep
    <2> QED BY <1>3, <2>2 DEF Burns!Close
  <1> QED BY <1>1, <1>2, <1>3, BurnTermsStep DEF Burns!LedgerNext

(* Whatever is signed, expires or is executed, a burn is opened once, by its  *)
(* swap, and closed once, with the terms of the swap.                        *)
THEOREM BurnsAreLedgered == Spec => BurnsLedgered
  <1>1. Init => Burns!LedgerInit
    BY DEF Init, TermsOf, Burns!LedgerInit, Burns!Empty
  <1>2. TypeOK /\ TypeOK' /\ BurnLedger /\ [Next]_palletVars
          => [Burns!LedgerNext]_<<[id \in BurnId |-> TermsOf(burn_transactions[id])],
               [id \in BurnId |-> TermsOf(executed_burn_transactions[id])]>>
    BY BurnsStep
  <1> QED BY <1>1, <1>2, TypeCorrect, BurnLedgerInvariant, PTL
         DEF Spec, BurnsLedgered, Burns!LedgerSpec

-----------------------------------------------------------------------------
(* Mints. *)

(* What a vote is added to, and what becomes of it: it stays pending, or is    *)
(* executed, with the terms it has.                                          *)
LEMMA VoteKeepsTerms ==
    ASSUME TypeOK, NEW validator \in Account, NEW target \in Account,
           NEW m \in MintId, NEW amount \in Amount,
           ProposeOrVoteMint(validator, m, target, amount)
    PROVE  /\ executed_mint_transactions[m] = None
           /\ \E tx \in MintTransaction :
                /\ mint_transactions[m] # None
                     => TermsOf(tx) = TermsOf(mint_transactions[m])
                /\ \/ /\ mint_transactions' = [mint_transactions EXCEPT ![m] = tx]
                      /\ UNCHANGED executed_mint_transactions
                   \/ /\ mint_transactions' = [mint_transactions EXCEPT ![m] = None]
                      /\ executed_mint_transactions'
                           = [executed_mint_transactions EXCEPT ![m] = tx]
  <1> DEFINE found == IF mint_transactions[m] # None
                      THEN mint_transactions[m]
                      ELSE [amount |-> amount, target |-> target,
                            block |-> block, votes |-> 0]
             voted == [found EXCEPT !.votes = @ + 1]
             done == [voted EXCEPT !.block = block]
  <1>1. VoteMint(m, found) /\ executed_mint_transactions[m] = None
    BY DEF ProposeOrVoteMint, MintOpen
  <1>2. found \in MintTransaction
    BY PalletAssumption DEF TypeOK, MintTransaction
  <1>3. mint_transactions[m] # None => found = mint_transactions[m]
    OBVIOUS
  <1> HIDE DEF found
  <1>4. voted \in MintTransaction
    BY <1>2, VotedType
  <1>5. voted.target = found.target /\ voted.amount = found.amount
    BY <1>2 DEF MintTransaction
  <1> HIDE DEF voted
  <1>6. done \in MintTransaction
    BY <1>4, VotedType DEF TypeOK
  <1>7. done.target = voted.target /\ done.amount = voted.amount
    BY <1>4 DEF MintTransaction
  <1>8. TermsOf(voted) = TermsOf(found)
    BY <1>2, <1>4, <1>5, TermsOfMint
  <1>9. \/ /\ mint_transactions' = [mint_transactions EXCEPT ![m] = voted]
           /\ UNCHANGED executed_mint_transactions
        \/ MintTft(m, voted)
    BY <1>1 DEF VoteMint, voted
  <1>10. MintTft(m, voted) =>
           /\ mint_transactions' = [mint_transactions EXCEPT ![m] = None]
           /\ executed_mint_transactions'
                = [executed_mint_transactions EXCEPT ![m] = done]
    BY DEF MintTft, Without, done
  <1> HIDE DEF done
  <1>11. TermsOf(done) = TermsOf(voted)
    BY <1>4, <1>6, <1>7, TermsOfMint
  <1> QED BY <1>1, <1>3, <1>4, <1>6, <1>8, <1>9, <1>10, <1>11

(* Every vote is a step of the ledger of mints, or none.                      *)
LEMMA VoteIsLedgerStep ==
    ASSUME TypeOK, NEW validator \in Account, NEW target \in Account,
           NEW m \in MintId, NEW amount \in Amount,
           ProposeOrVoteMint(validator, m, target, amount)
    PROVE  [Mints!LedgerNext]_<<[n \in MintId |-> TermsOf(mint_transactions[n])],
             [n \in MintId |-> TermsOf(executed_mint_transactions[n])]>>
  <1> DEFINE open == [n \in MintId |-> TermsOf(mint_transactions[n])]
             closed == [n \in MintId |-> TermsOf(executed_mint_transactions[n])]
  <1>1. PICK tx \in MintTransaction :
          /\ mint_transactions[m] # None
               => TermsOf(tx) = TermsOf(mint_transactions[m])
          /\ \/ /\ mint_transactions' = [mint_transactions EXCEPT ![m] = tx]
                /\ UNCHANGED executed_mint_transactions
             \/ /\ mint_transactions' = [mint_transactions EXCEPT ![m] = None]
                /\ executed_mint_transactions'
                     = [executed_mint_transactions EXCEPT ![m] = tx]
    BY VoteKeepsTerms
  <1>2. closed[m] = None
    <2>1. executed_mint_transactions[m] = None
      BY VoteKeepsTerms
    <2> QED BY <2>1 DEF TermsOf
  <1>3. /\ TermsOf(tx) \in [target : Account, amount : Nat]
        /\ TermsOf(tx) # None
    BY TermsOfMint
  <1>4. open[m] = None <=> mint_transactions[m] = None
    BY TermsOfMint DEF TypeOK, TermsOf
  <1>5. TermsOf(None) = None
    BY DEF TermsOf
  <1>6. CASE /\ mint_transactions' = [mint_transactions EXCEPT ![m] = tx]
             /\ UNCHANGED executed_mint_transactions
    <2>1. open' = [open EXCEPT ![m] = TermsOf(tx)] /\ closed' = closed
      BY <1>6 DEF TypeOK
    <2>2. CASE mint_transactions[m] = None
      <3>1. open'[m] = TermsOf(tx)
        BY <2>1
      <3> HIDE DEF open, closed
      <3>2. Mints!Open(m)
        BY <1>2, <1>3, <1>4, <2>1, <2>2, <3>1 DEF Mints!Open, open, closed
      <3> QED BY <3>2 DEF Mints!LedgerNext, open, closed
    <2>3. CASE mint_transactions[m] # None
      BY <1>1, <2>1, <2>3
    <2> QED BY <2>2, <2>3
  <1>7. CASE /\ mint_transactions' = [mint_transactions EXCEPT ![m] = None]
             /\ executed_mint_transactions'
                  = [executed_mint_transactions EXCEPT ![m] = tx]
    <2>1. /\ open' = [open EXCEPT ![m] = None]
          /\ closed' = [closed EXCEPT ![m] = TermsOf(tx)]
      BY <1>5, <1>7 DEF TypeOK
    <2>2. CASE mint_transactions[m] = None
      <3>1. open' = open /\ closed'[m] = TermsOf(tx)
        BY <1>4, <2>1, <2>2
      <3>2. Mints!OpenAndClose(m)
        BY <1>2, <1>3, <1>4, <2>1, <2>2, <3>1 DEF Mints!OpenAndClose
      <3> QED BY <3>2 DEF Mints!LedgerNext
    <2>3. CASE mint_transactions[m] # None
      <3>1. TermsOf(tx) = open[m]
        BY <1>1, <2>3
      <3>2. Mints!Close(m)
        BY <1>2, <1>4, <2>1, <2>3, <3>1 DEF Mints!Close
      <3> QED BY <3>2 DEF Mints!LedgerNext
    <2> QED BY <2>2, <2>3
  <1> QED BY <1>1, <1>6, <1>7

(* Whatever the validators vote and in which order, a mint is opened once,    *)
(* with the terms of its first vote, and closed once, with those terms.      *)
THEOREM MintsAreLedgered == Spec => MintsLedgered
  <1>1. Init => Mints!LedgerInit
    BY DEF Init, TermsOf, Mints!LedgerInit, Mints!Empty
  <1>2. TypeOK /\ TypeOK' /\ [Next]_palletVars
          => [Mints!LedgerNext]_<<[m \in MintId |-> TermsOf(mint_transactions[m])],
               [m \in MintId |-> TermsOf(executed_mint_transactions[m])]>>
    <2>1. ASSUME UNCHANGED <<mint_transactions, executed_mint_transactions>>
          PROVE  UNCHANGED <<[m \in MintId |-> TermsOf(mint_transactions[m])],
                   [m \in MintId |-> TermsOf(executed_mint_transactions[m])]>>
      BY <2>1
    <2> QED BY <2>1, NotMintStep, VoteIsLedgerStep
  <1> QED BY <1>1, <1>2, TypeCorrect, PTL DEF Spec, MintsLedgered, Mints!LedgerSpec

-----------------------------------------------------------------------------
(* Refunds. *)

(* What a step does to the terms of one refund: nothing, open it, or close it. *)
LEMMA RefundTermsStep ==
    ASSUME TypeOK, TypeOK', [Next]_palletVars, NEW h \in RefundHash
    PROVE  LET open == TermsOf(refund_transactions[h])
               closed == TermsOf(executed_refund_transactions[h])
               openAfter == TermsOf(refund_transactions'[h])
               closedAfter == TermsOf(executed_refund_transactions'[h])
           IN  \/ openAfter = open /\ closedAfter = closed
               \/ /\ open = None /\ closedAfter = closed
                  /\ openAfter \in [target : StellarAddress, amount : Nat]
               \/ /\ open # None /\ closed = None
                  /\ openAfter = None /\ closedAfter = open
  <1>1. /\ refund_transactions[h] \in BurnTransaction \cup {None}
        /\ executed_refund_transactions[h] \in BurnTransaction \cup {None}
        /\ refund_transactions'[h] \in BurnTransaction \cup {None}
        /\ block \in Nat
    BY DEF TypeOK, RefundTransaction
  <1>2. CASE RefundLeft(h)
    BY <1>2 DEF RefundLeft
  <1>3. CASE RefundSigned(h) /\ refund_transactions[h] # None
    <2>1. KeepsTerms(refund_transactions[h], refund_transactions'[h])
      BY <1>1, <1>3, SignedTerms DEF RefundSigned
    <2> QED BY <1>1, <1>3, <2>1, KeepsTermsOf DEF RefundSigned
  <1>4. CASE RefundSigned(h) /\ refund_transactions[h] = None
    <2>1. refund_transactions'[h] \in BurnTransaction
      BY <1>4, FirstSignedTxType DEF RefundSigned, SignedTx, TypeOK
    <2> QED BY <1>4, <2>1, TermsOfBurn DEF RefundSigned, TermsOf
  <1>5. CASE RefundExecuted(h)
    BY <1>1, <1>5, TermsOfBurn DEF RefundExecuted, TermsOf
  <1>6. CASE RefundReset(h)
    <2>1. refund_transactions[h] \in BurnTransaction
      BY <1>1, <1>6 DEF RefundReset
    <2>2. KeepsTerms(refund_transactions[h], refund_transactions'[h])
      BY <1>1, <1>6, <2>1, ResetTerms DEF RefundReset
    <2> QED BY <1>6, <2>1, <2>2, KeepsTermsOf DEF RefundReset
  <1> QED BY <1>2, <1>3, <1>4, <1>5, <1>6, RefundSteps DEF RefundStep

(* The terms of at most one refund change: a signature and an execution are    *)
(* of one refund, and the end of a block resets many but keeps their terms.  *)
LEMMA OneRefundChanged ==
    ASSUME TypeOK, [Next]_palletVars
    PROVE  \E r \in RefundHash \cup {None} : \A h \in RefundHash \ {r} :
             /\ TermsOf(refund_transactions'[h]) = TermsOf(refund_transactions[h])
             /\ executed_refund_transactions'[h] = executed_refund_transactions[h]
  <1>1. CASE UNCHANGED refundVars
    BY <1>1 DEF refundVars
  <1>2. ASSUME NEW validator \in Account, NEW r \in RefundHash,
               NEW target \in StellarAddress, NEW amount \in Amount,
               NEW signature \in Sig, NEW key \in StellarKey, NEW seqno \in SeqNo,
               CreateRefundOrAddSig(validator, r, target, amount, signature,
                                    key, seqno)
        PROVE  \A h \in RefundHash \ {r} :
                 /\ refund_transactions'[h] = refund_transactions[h]
                 /\ executed_refund_transactions'[h] = executed_refund_transactions[h]
    BY <1>2 DEF CreateRefundOrAddSig, TypeOK
  <1>3. ASSUME NEW validator \in Account, NEW r \in RefundHash,
               SetRefundExecuted(validator, r)
        PROVE  \A h \in RefundHash \ {r} :
                 /\ refund_transactions'[h] = refund_transactions[h]
                 /\ executed_refund_transactions'[h] = executed_refund_transactions[h]
    BY <1>3 DEF SetRefundExecuted, Without, TypeOK
  <1>4. ASSUME FinalizeBlock, NEW h \in RefundHash
        PROVE  /\ TermsOf(refund_transactions'[h]) = TermsOf(refund_transactions[h])
               /\ executed_refund_transactions'[h] = executed_refund_transactions[h]
    <2>1. CASE h \in ExpiredRefunds
      <3>1. /\ refund_transactions[h] \in BurnTransaction
            /\ refund_transactions'[h] = Reset(refund_transactions[h])
        BY <1>4, <2>1 DEF FinalizeBlock, ExpiredRefunds, Expires, TypeOK, RefundTransaction
      <3>2. KeepsTerms(refund_transactions[h], refund_transactions'[h])
        BY <3>1, ResetTerms DEF TypeOK
      <3> QED BY <1>4, <3>1, <3>2, KeepsTermsOf DEF FinalizeBlock
    <2>2. CASE h \notin ExpiredRefunds
      BY <1>4, <2>2 DEF FinalizeBlock
    <2> QED BY <2>1, <2>2
  <1>5. ASSUME NEW source \in Account, NEW target \in StellarAddress,
               NEW amount \in Amount, SwapToStellar(source, target, amount)
        PROVE  UNCHANGED refundVars
    BY <1>5 DEF SwapToStellar
  <1>6. ASSUME NEW validator \in Account, NEW id \in BurnId,
               \/ \E target \in StellarAddress, amount \in Amount,
                     signature \in Sig, key \in StellarKey, seqno \in SeqNo :
                    ProposeBurnOrAddSig(validator, id, target, amount,
                                        signature, key, seqno)
               \/ SetBurnExecuted(validator, id)
        PROVE  UNCHANGED refundVars
    BY <1>6 DEF ProposeBurnOrAddSig, SetBurnExecuted
  <1>7. FinalizeBlock =>
          \A h \in RefundHash \ {None} :
            /\ TermsOf(refund_transactions'[h]) = TermsOf(refund_transactions[h])
            /\ executed_refund_transactions'[h] = executed_refund_transactions[h]
    BY <1>4
  <1> QED BY <1>1, <1>2, <1>3, <1>5, <1>6, <1>7, OtherStep DEF Next

(* Every step of the pallet is a step of the ledger of refunds, or none.      *)
LEMMA RefundsStep ==
    ASSUME TypeOK, TypeOK', [Next]_palletVars
    PROVE  [Refunds!LedgerNext]_<<
             [h \in RefundHash |-> TermsOf(refund_transactions[h])],
             [h \in RefundHash |-> TermsOf(executed_refund_transactions[h])]>>
  <1> DEFINE open == [h \in RefundHash |-> TermsOf(refund_transactions[h])]
             closed == [h \in RefundHash |-> TermsOf(executed_refund_transactions[h])]
  <1>1. PICK r \in RefundHash \cup {None} : \A h \in RefundHash \ {r} :
          open'[h] = open[h] /\ closed'[h] = closed[h]
    <2>1. PICK r \in RefundHash \cup {None} : \A h \in RefundHash \ {r} :
            /\ TermsOf(refund_transactions'[h]) = TermsOf(refund_transactions[h])
            /\ executed_refund_transactions'[h] = executed_refund_transactions[h]
      BY OneRefundChanged
    <2> QED BY <2>1
  <1>2. CASE \A h \in RefundHash : open'[h] = open[h] /\ closed'[h] = closed[h]
    BY <1>2
  <1>3. ASSUME NEW h \in RefundHash, h = r, open[h] = None, closed'[h] = closed[h],
               open'[h] \in [target : StellarAddress, amount : Nat]
        PROVE  Refunds!Open(h)
    BY <1>1, <1>3 DEF Refunds!Open
  <1>4. ASSUME NEW h \in RefundHash, h = r, open[h] # None, closed[h] = None,
               open'[h] = None, closed'[h] = open[h]
        PROVE  Refunds!Close(h)
    BY <1>1, <1>4 DEF Refunds!Close
  <1>5. ASSUME NEW h \in RefundHash, ~(open'[h] = open[h] /\ closed'[h] = closed[h])
        PROVE  Refunds!Open(h) \/ Refunds!Close(h)
    <2>1. h = r
      BY <1>1, <1>5
    <2> QED BY <1>3, <1>4, <1>5, <2>1, RefundTermsStep
  <1> QED BY <1>2, <1>5 DEF Refunds!LedgerNext

(* A refund keeps the terms of its first signature until it is closed, and is *)
(* closed at most once, although it may be opened again after that.          *)
THEOREM RefundsAreLedgered == Spec => RefundsLedgered
  <1>1. Init => Refunds!LedgerInit
    BY DEF Init, TermsOf, Refunds!LedgerInit, Refunds!Empty
  <1>2. TypeOK /\ TypeOK' /\ [Next]_palletVars
          => [Refunds!LedgerNext]_<<
               [h \in RefundHash |-> TermsOf(refund_transactions[h])],
               [h \in RefundHash |-> TermsOf(executed_refund_transactions[h])]>>
    BY RefundsStep
  <1> QED BY <1>1, <1>2, TypeCorrect, PTL
         DEF Spec, RefundsLedgered, Refunds!LedgerSpec
=============================================================================
