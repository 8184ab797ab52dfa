\* One deposit of any shape, handled by three daemons; one break and a rescan, or
\* lost replies.  A plain deposit also while the deposit fee changes, and with a
\* Horizon that fails at random.
CONSTANTS
    None = None
    alice = alice  bob = bob  carol = carol  user = user
    h1 = h1  h2 = h2  sender = sender  other = other  vault = vault
    Account = {alice, bob, carol, user}
    Candidate = {}  FeeCandidate = {}
    Fee = {2}
    Amount = {1, 2, 3}
    StellarAddress = {sender, other}  PublicKey = {sender, other}
    MintId = {h1}  RefundHash = {h1}
    StellarKey = {alice, bob, carol}  Sig <- MCSig  SeqNo <- MCSeqNo
    Genesis <- MCGenesis
    GenesisBalance <- MCBalance
    Frozen <- MCBalance
    ExistentialDeposit = 1
    RetryInterval = 1
    MaxBurnId = 0
    MaxBlock = 3
    KeyOf <- MCKeyOf
    SignatureCount = 2
    Faults <- MCFaults
    BridgeAccount = vault
    Tft <- MCTft
    StellarTxs <- MCOneOfAll
    MemoAccount <- MCMemoAccount
    MaxDeposits = 1
SPECIFICATION DepositSpec
SYMMETRY MCDaemonSymmetry
CONSTRAINT MCDisagreement
CHECK_DEADLOCK FALSE
INVARIANTS DepositTypeOK  MintedAsDeposited RefundMeansPaid NotMintedAndRefunded NothingSkipped
