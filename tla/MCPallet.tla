------------------------------ MODULE MCPallet ------------------------------
(***************************************************************************)
(* Instances of TftBridgePallet for TLC.  Each cfg takes one direction of   *)
(* the bridge: the constants of the others are empty sets there.            *)
(***************************************************************************)
EXTENDS PalletLedgers, TLC

CONSTANTS alice, bob, carol, user, wallet

MCValidators == {alice, bob, carol}

\* No fee account yet.
MCGenesis == [validator_accounts |-> MCValidators, fee_account |-> None,
              withdraw_fee |-> 1, deposit_fee |-> 1]

\* Two validators to start with.
MCSmallGenesis == [validator_accounts |-> {alice, bob}, fee_account |-> None,
                   withdraw_fee |-> 1, deposit_fee |-> 1]

MCNoFeeGenesis == [MCSmallGenesis EXCEPT !.withdraw_fee = 0, !.deposit_fee = 0]

MCBalance == [a \in Account |-> IF a = user THEN 8 ELSE 0]
MCNoBalance == [a \in Account |-> 0]
MCFrozen == [a \in Account |-> IF a = user THEN 1 ELSE 0]

MCValidatorSymmetry == Permutations(MCValidators)
MCSignerSymmetry == Permutations(StellarKey) \cup Permutations(Sig)
=============================================================================
