\* A swap to a bad target is executed and never minted back.
CONSTANTS
    None = None
    alice = alice  bob = bob  carol = carol  user = user
    good = good  bad = bad
    Account = {alice, bob, user}
    Candidate = {}  FeeCandidate = {}  Fee = {}
    Amount = {2}
    StellarAddress = {bad}  PublicKey = {bad}
    MintId <- MCMintId  RefundHash = {}
    StellarKey = {alice, bob}  Sig <- MCSig  SeqNo <- MCSeqNo
    MaxSeq = 6
    Genesis <- MCGenesis
    GenesisBalance <- MCBalance
    Frozen <- MCFrozen
    ExistentialDeposit = 1
    RetryInterval = 9
    MaxBurnId = 1
    MaxBlock = 4
    KeyOf <- MCKeyOf
    SignatureCount = 2
    BadTarget = {bad}
    User = user
    Faults <- MCNoFaults
SPECIFICATION FairWithdrawSpec
CHECK_DEADLOCK FALSE
PROPERTIES WithdrawnOrRefunded
