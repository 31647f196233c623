SPECIFICATION Spec
CONSTANTS
    Users = {u1, u2, u3}
    MaxEntries = 3
    MaxAmount = 3
    FeeChoices = {1, 3333, 10000, 12500}
    MaxValue = 9
    WordCount = 16
CHECK_DEADLOCK FALSE
INVARIANTS DrawIsOneSlipPerLamport DrawIsProportional FeeIsFair LayoutFitsAllocation
