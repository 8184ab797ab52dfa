\* A burn and a refund at once, the validators fixed: signatures and Ready.
CONSTANTS
    None = None
    alice = alice  bob = bob  carol = carol  user = user  wallet = wallet
    Account = {alice, bob, user, wallet}
    Candidate = {}
    FeeCandidate = {}
    Fee = {0}
    Amount = {3}
    StellarAddress = {addr}  PublicKey = {addr}
    MintId = {}
    RefundHash = {h1}
    StellarKey = {k1, k2, k3}  Sig = {s1, s2, s3}  SeqNo = {1}
    Genesis <- MCNoFeeGenesis
    GenesisBalance <- MCBalance
    Frozen <- MCFrozen
    ExistentialDeposit = 2
    RetryInterval = 1
    MaxBurnId = 1
    MaxBlock = 3
SPECIFICATION Spec
SYMMETRY MCSignerSymmetry
INVARIANTS SignersDistinct RetryWindow 
PROPERTIES ExecutedIsFinal RefundsLedgered
