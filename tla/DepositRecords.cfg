\* Two users; a group, a payment and a call, each signed by either; two requests
\* at once.
SPECIFICATION Spec
CONSTANTS
    Wallets = {u1, u2}
    Groups = {g1}
    Payments = {p1}
    Calls = {c1}
    Requests = {r1, r2}
    MaxFaults = 1
INVARIANTS
    DepositTypeOK
    RecordedOnce
    RecordedIsConfirmed
    DepositsAccounted
PROPERTIES
    DepositsSettle
