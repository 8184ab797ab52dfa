\* A swap that expires between its payment and its execution is paid again.
CONSTANTS
    None = None
    alice = alice  bob = bob  carol = carol  user = user
    good = good  bad = bad
    Account = {alice, bob, carol, user}
    Candidate = {}  FeeCandidate = {}  Fee = {}
    Amount = {2}
    StellarAddress = {good}  PublicKey = {good}
    MintId <- MCMintId  RefundHash = {}
    StellarKey = {alice, bob, carol}  Sig <- MCSig  SeqNo <- MCSeqNo
    MaxSeq = 6
    Genesis <- MCGenesis
    GenesisBalance <- MCBalance
    Frozen <- MCFrozen
    ExistentialDeposit = 1
    RetryInterval = 2
    MaxBurnId = 1
    MaxBlock = 6
    KeyOf <- MCKeyOf
    SignatureCount = 2
    BadTarget = {}
    User = user
    Faults <- MCNoFaults
SPECIFICATION WithdrawSpec
SYMMETRY MCDaemonSymmetry
CHECK_DEADLOCK FALSE
INVARIANTS PaidAtMostOnce
