\* A deposit to mint or to return and two swaps at once, one bridge account, for
\* as long as nothing can expire; or one swap, and the signatures expire.
CONSTANTS
    None = None
    alice = alice  bob = bob  carol = carol  user = user  wallet = wallet
    h1 = h1  h2 = h2  sender = sender  other = other  vault = vault
    good = good  bad = bad
    Account = {alice, bob, user, wallet}
    Candidate = {}  FeeCandidate = {}  Fee = {}
    Amount = {3}
    StellarAddress = {sender, other, good, bad}  PublicKey = {good, bad}
    MintId <- MCMintId  RefundHash = {h1}
    StellarKey = {alice, bob}  Sig <- MCSig  SeqNo <- MCSeqNo
    Genesis <- MCGenesis
    GenesisBalance <- MCBalance
    Frozen <- MCNothing
    ExistentialDeposit = 1
    RetryInterval = 2
    MaxBurnId = 2
    MaxBlock = 4
    KeyOf <- MCKeyOf
    SignatureCount = 2
    Faults <- MCNoFaults
    BadTarget = {bad}
    User = user
    BridgeAccount = vault
    Tft <- MCTft
    StellarTxs <- MCAny
    MemoAccount <- MCMemoAccount
    MaxDeposits = 1
SPECIFICATION BridgeSpec
CONSTRAINT MCShortOrSingle
CHECK_DEADLOCK FALSE
INVARIANTS Solvent ExecutedMeansPaid RefundMeansPaid 
SYMMETRY MCDaemonSymmetry
