\* Deposits: two mints, three fixed validators, fees that change under way.
CONSTANTS
    None = None
    alice = alice  bob = bob  carol = carol  user = user  wallet = wallet
    Account = {alice, bob, carol, user, wallet}
    Candidate = {}
    FeeCandidate = {wallet}
    Fee = {2}
    Amount = {1, 3}
    StellarAddress = {}  PublicKey = {}
    MintId = {m1, m2}
    RefundHash = {}
    StellarKey = {}  Sig = {}  SeqNo = {}
    Genesis <- MCGenesis
    GenesisBalance <- MCNoBalance
    Frozen <- MCFrozen
    ExistentialDeposit = 2
    RetryInterval = 2
    MaxBurnId = 0
    MaxBlock = 2
SPECIFICATION Spec
SYMMETRY MCValidatorSymmetry
INVARIANTS NeverPendingAndExecuted VotesDecide Backed
PROPERTIES ExecutedIsFinal MoneyMovesWithLedgerEntry MintsLedgered
