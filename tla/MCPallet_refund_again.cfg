\* A refund that was executed is created again by a late signature.
CONSTANTS
    None = None
    alice = alice  bob = bob  carol = carol  user = user  wallet = wallet
    Account = {alice, bob, user, wallet}
    Candidate = {bob}
    FeeCandidate = {wallet}
    Fee = {}
    Amount = {1}
    StellarAddress = {addr}  PublicKey = {}
    MintId = {}
    RefundHash = {h1}
    StellarKey = {k1, k2, k3}  Sig = {s1, s2, s3}  SeqNo = {1}
    Genesis <- MCSmallGenesis
    GenesisBalance <- MCBalance
    Frozen <- MCFrozen
    ExistentialDeposit = 2
    RetryInterval = 2
    MaxBurnId = 0
    MaxBlock = 5
SPECIFICATION Spec
INVARIANTS RefundNotDuplicated
