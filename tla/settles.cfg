SPECIFICATION FairSpec
CONSTANTS
    admin = admin team = team p1 = p1 p2 = p2 p3 = p3
    NoWallet = NoWallet NoForce = NoForce f1 = f1 f2 = f2
    VrfCost = 1000
    Wallets = {admin, team, p1, p2, p3}
    Players = {p1, p2, p3}
    Forces = {f1}
    Configs <- NoFee
    CounterResets = {}
    RoundTimes = {1}
    MinDeposits = {1}
    JoinerLimits = {1, 3}
    DepositAmounts = {1, 2}
    RandomValues = {1, 2}
    Donors = {team}
    Gifts <- OneGift
    InitialLamports <- Balances
    MaxRound = 1
    MaxU64 = 4
    MaxI64 = 4
CHECK_DEADLOCK FALSE
PROPERTIES EveryPotIsPaid
