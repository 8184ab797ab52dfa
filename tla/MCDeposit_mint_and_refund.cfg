\* A daemon that cannot look up the twin of a deposit asks for its refund.
CONSTANTS
    None = None
    alice = alice  bob = bob  carol = carol  user = user
    h1 = h1  h2 = h2  sender = sender  other = other  vault = vault
    Account = {alice, bob, carol, user}
    Candidate = {}  FeeCandidate = {}
    Fee = {}
    Amount = {1, 2, 3}
    StellarAddress = {sender, other}  PublicKey = {sender, other}
    MintId = {h1}  RefundHash = {h1}
    StellarKey = {alice, bob, carol}  Sig <- MCSig  SeqNo <- MCSeqNo
    Genesis <- MCGenesis
    GenesisBalance <- MCBalance
    Frozen <- MCBalance
    ExistentialDeposit = 1
    RetryInterval = 2
    MaxBurnId = 0
    MaxBlock = 5
    KeyOf <- MCKeyOf
    SignatureCount = 2
    Faults <- MCFlaky
    BridgeAccount = vault
    Tft <- MCTft
    StellarTxs <- MCPlain
    MemoAccount <- MCMemoAccount
    MaxDeposits = 1
SPECIFICATION DepositSpec
SYMMETRY MCDaemonSymmetry
INVARIANTS MintedOrReturned
CHECK_DEADLOCK FALSE
