\* A borrower defaults on an unsecured loan and clears its local state.
SPECIFICATION Spec
CONSTANTS
    Accounts = {u1}
    Creator = admin
    MaxUInt = 8
    MinBalance = 1
    DailyInterestBps = 1
    BpsScale = 2
    MicroalgosPerAlgo = 1
    MinAuraForUnsecured = 1
    LimitBpsOfAura = 4
    SecondsPerDay = 1
    PaymentAmounts = {3, 4}
    LoanAmounts = {2, 3}
    ShareAmounts = {3}
    UsdcAmounts = {1}
    LoanDays = {1}
    MaxFunding = 2
    MaxAgain = 0
    MaxTime = 3
PROPERTIES
    BanIsPermanent
