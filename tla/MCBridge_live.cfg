\* A deposit that is minted and then swapped back, to a good or a bad target,
\* or that is returned; nothing breaks and no signature expires.
CONSTANTS
    None = None
    alice = alice  bob = bob  carol = carol  user = user  wallet = wallet
    h1 = h1  h2 = h2  sender = sender  other = other  vault = vault
    good = good  bad = bad
    Account = {alice, bob, carol, user, wallet}
    Candidate = {}  FeeCandidate = {}  Fee = {}
    Amount = {3}
    StellarAddress = {sender, other, good, bad}  PublicKey = {good, bad}
    MintId <- MCMintId  RefundHash = {h1}
    StellarKey = {alice, bob, carol}  Sig <- MCSig  SeqNo <- MCSeqNo
    Genesis <- MCGenesis
    GenesisBalance <- MCNothing
    Frozen <- MCNothing
    ExistentialDeposit = 1
    RetryInterval = 9
    MaxBurnId = 1
    MaxBlock = 9
    KeyOf <- MCKeyOf
    SignatureCount = 2
    Faults <- MCNoFaults
    BadTarget = {bad}
    User = user
    BridgeAccount = vault
    Tft <- MCTft
    StellarTxs <- MCEither
    MemoAccount <- MCMemoAccount
    MaxDeposits = 1
SPECIFICATION FairBridgeSpec
CHECK_DEADLOCK FALSE
PROPERTIES SwapsSettle DepositsSettle
