\* One swap that may expire, and be paid after that; one break and lost replies,
\* or a Horizon that fails at random, so that daemons disagree on the target.
CONSTANTS
    None = None
    alice = alice  bob = bob  carol = carol  user = user
    good = good  bad = bad
    Account = {alice, bob, carol, user}
    Candidate = {}  FeeCandidate = {}  Fee = {}
    Amount = {2}
    StellarAddress = {good, bad}  PublicKey = {good, bad}
    MintId <- MCMintId  RefundHash = {}
    StellarKey = {alice, bob, carol}  Sig <- MCSig  SeqNo <- MCSeqNo
    MaxSeq = 6
    Genesis <- MCGenesis
    GenesisBalance <- MCBalance
    Frozen <- MCFrozen
    ExistentialDeposit = 1
    RetryInterval = 2
    MaxBurnId = 1
    MaxBlock = 5
    KeyOf <- MCKeyOf
    SignatureCount = 2
    Faults <- MCFaults
    BadTarget = {bad}
    User = user
SPECIFICATION WithdrawSpec
SYMMETRY MCDaemonSymmetry
CHECK_DEADLOCK FALSE
INVARIANTS DaemonTypeOK  ExecutedMeansPaid NotPaidAndRefunded RefundsTheBurn
