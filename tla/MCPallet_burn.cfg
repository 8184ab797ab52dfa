\* Withdrawals: two burns, signed by validators that come and go.
CONSTANTS
    None = None
    alice = alice  bob = bob  carol = carol  user = user  wallet = wallet
    Account = {alice, bob, user, wallet}
    Candidate = {bob}
    FeeCandidate = {wallet}
    Fee = {1}
    Amount = {2, 3, 5}
    StellarAddress = {addr, junk}  PublicKey = {addr}
    MintId = {}
    RefundHash = {}
    StellarKey = {k1, k2, k3}  Sig = {s1, s2}  SeqNo = {1}
    Genesis <- MCSmallGenesis
    GenesisBalance <- MCBalance
    Frozen <- MCFrozen
    ExistentialDeposit = 1
    RetryInterval = 1
    MaxBurnId = 2
    MaxBlock = 4
SPECIFICATION Spec
SYMMETRY MCSignerSymmetry
INVARIANTS TypeOK NeverPendingAndExecuted BurnIdsAccounted SignersDistinct RetryWindow Backed
PROPERTIES BurnTermsFrozen BurnsLedgered
