\* Two applications of any of the four programs, one of them possibly bound by
\* the wrong client, and groups of up to two calls of one account.
SPECIFICATION ClientSpec
CONSTANTS
    AppIds = {app1, app2}
    Senders = {alice}
    MaxGroup = 2
SYMMETRY AppSymmetry
INVARIANTS
    ClientTypeOK
    OfferedCallsRouted
    TypedStateWhole
PROPERTIES
    AppsKept
