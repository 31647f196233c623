SPECIFICATION Spec
CONSTANTS
    admin = admin team = team p1 = p1 p2 = p2 p3 = p3
    NoWallet = NoWallet NoForce = NoForce f1 = f1 f2 = f2
    VrfCost = 1000
    Wallets = {admin, team, p1, p2}
    Players = {p1, p2}
    Forces = {f1}
    Configs <- NoFee
    CounterResets = {}
    RoundTimes = {1}
    MinDeposits = {1}
    JoinerLimits = {2}
    DepositAmounts = {1}
    RandomValues = {1}
    Donors = {}
    Gifts = {}
    InitialLamports <- Balances
    MaxRound = 1
    MaxU64 = 4
    MaxI64 = 4
CHECK_DEADLOCK FALSE
PROPERTY StartDateIsFinal
