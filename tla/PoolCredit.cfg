\* One borrower through several loans: AURA is earned, spent as credit, lost by
\* default and forgotten by a clear-state, and calls of a group name a payment or
\* a transfer once or again. One unit of interest is one point.
SPECIFICATION Spec
CONSTANTS
    Accounts = {u1}
    Creator = admin
    MaxUInt = 8
    MinBalance = 0
    DailyInterestBps = 1
    BpsScale = 2
    MicroalgosPerAlgo = 1
    MinAuraForUnsecured = 1
    LimitBpsOfAura = 4
    SecondsPerDay = 1
    PaymentAmounts = {4}
    LoanAmounts = {2, 3}
    ShareAmounts = {4}
    UsdcAmounts = {4}
    LoanDays = {1}
    MaxFunding = 0
    MaxAgain = 4
    MaxTime = 2
INVARIANTS
    TypeOK
    LoanWellFormed
    UnsecuredStaysCreditworthy
    Solvency
    CollateralBacked
PROPERTIES
    LoanEndsPaidOrOverdue
    ImplementsLoanBook
