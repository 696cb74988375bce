\* Two contracts, the second without a specification; a source that is edited
\* and edited back; up to three applications of a name, found through an indexer
\* that lags.
SPECIFICATION DeploySpec
CONSTANTS
    Contracts = {algocrefi_pool, logicsig}
    SpecLess = {logicsig}
    Versions = {v1, v2}
    MaxEdits = 2
    MaxApps = 3
    MaxFaults = 2
SYMMETRY VersionSymmetry
INVARIANTS
    DeployTypeOK
    SpecAndClientAgree
    TwinsOnlyUnseen
    FinishedDeployIsLive
PROPERTIES
    OldAppsStay
