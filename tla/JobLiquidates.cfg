\* Wallet w2 never opted in; the ledger runs any call the contract accepts.
\* There is no minimum balance: the pool is funded by its first payment.
SPECIFICATION JobSpec
CONSTANTS
    Accounts = {u1}
    Creator = admin
    MaxUInt = 4
    MinBalance = 0
    DailyInterestBps = 0
    BpsScale = 2
    MicroalgosPerAlgo = 1
    MinAuraForUnsecured = 1
    LimitBpsOfAura = 4
    SecondsPerDay = 2
    PaymentAmounts = {3}
    LoanAmounts = {3}
    ShareAmounts = {}
    UsdcAmounts = {1, 2}
    LoanDays = {1}
    MaxFunding = 0
    MaxAgain = 0
    MaxTime = 4
    Users = {u1, w2}
    MinSwapUsdc = 2
    ResourcesChecked = FALSE
    MaxSkew = 1
    MaxFaults = 1
INVARIANTS
    JobTypeOK
    SwapsWhatWasSeized

    
