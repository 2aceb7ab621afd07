CONSTANTS
    none = none
    None = none
    Urls = {"http://a"}
    Proxies = {"http://proxy"}
    CaCerts = {"/ca.pem"}
    Costs = {0, 50, 1000}
    DefaultCost = 1000
    MaxRounds = 3

SPECIFICATION Spec

\* The cycle ends: a bounded number of installations read the kickstart.
CHECK_DEADLOCK FALSE

INVARIANT TypeOK
INVARIANT ConfigurationReproduced
