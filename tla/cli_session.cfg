SPECIFICATION ClientSpec
CONSTANTS
    admin = admin team = team p1 = p1 p2 = p2 p3 = p3
    NoWallet = NoWallet NoForce = NoForce f1 = f1 f2 = f2
    s1 = s1 s2 = s2 s3 = s3
    Wallets = {admin, team, p1, p2}
    Players = {p1, p2}
    Users = {p1}
    FeePayer = admin
    CliSettings <- CliWrites
    Configs <- FeeChanges
    CounterResets = {0, 1}
    RoundTimes = {1}
    MinDeposits = {1}
    JoinerLimits = {1, 2}
    DepositAmounts = {1, 2}
    RandomValues = {1}
    Donors = {}
    Gifts = {}
    InitialLamports <- SessionBalances
    VrfCost = 1000
    HashLife = 1
    MaxU64 = 4
    Forces = {f1}
    Runs = {s1, s2}
    Commands <- SessionCommands
    MaxRound = 1
    MaxI64 = 3
CHECK_DEADLOCK FALSE
SYMMETRY RunSymmetry
INVARIANTS BalanceFollowsTransactions PrintedWinnerIsTheWinner SignatureMeansEffect FinalRefusalsStay ClaimedMeansPaid WinnersCanClaim
PROPERTIES WritesAreDeclared
