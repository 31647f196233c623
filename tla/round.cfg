SPECIFICATION Spec
CONSTANTS
    admin = admin team = team p1 = p1 p2 = p2 p3 = p3
    NoWallet = NoWallet NoForce = NoForce f1 = f1 f2 = f2
    Wallets = {admin, team, p1, p2, p3}
    Players = {p1, p2, p3}
    Forces = {f1}
    Configs <- EdgeFees
    CounterResets = {}
    RoundTimes = {0, 2, 9}
    MinDeposits = {0, 1}
    JoinerLimits = {2, 3, 4}
    DepositAmounts = {0, 1, 2}
    RandomValues = {0, 1, 2}
    Donors = {team}
    Gifts <- OneGift
    InitialLamports <- Balances
    VrfCost = 1000
    MaxRound = 1
    MaxU64 = 5
    MaxI64 = 4
SYMMETRY PlayerSymmetry
CHECK_DEADLOCK FALSE
INVARIANTS TypeOK PotIsSumOfDeposits SeatsRespected DrawnWinnerHasStake FitsInAccount ClockRunsWithTwoUsers
PROPERTIES DrawIsFinal PaysPotOnceToWinner DrawsWaitForTheClock FullRoundsClose OutcomeIsFixed
