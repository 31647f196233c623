SPECIFICATION Spec
CONSTANTS
    admin = admin team = team p1 = p1 p2 = p2 p3 = p3
    NoWallet = NoWallet NoForce = NoForce f1 = f1 f2 = f2
    VrfCost = 1000
    Wallets = {admin, team, p1, p2}
    Players = {p1, p2}
    Forces = {f1, f2}
    Configs <- SharedKey
    CounterResets = {0, 1, 2}
    RoundTimes = {1}
    MinDeposits = {1}
    JoinerLimits = {2}
    DepositAmounts = {2, 3}
    RandomValues = {1}
    Donors = {admin}
    Gifts <- OneGift
    InitialLamports <- SharedKeyBalances
    MaxRound = 2
    MaxU64 = 3
    MaxI64 = 2
SYMMETRY ForceSymmetry
CHECK_DEADLOCK FALSE
INVARIANTS VaultBalanced ClaimsAreFunded LamportsAreConserved
PROPERTIES DepositsAreNeverLost RoundsWaitForTheCounter EscrowSpec
