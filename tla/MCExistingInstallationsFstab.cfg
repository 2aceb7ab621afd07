CONSTANTS
    d1 = d1
    d2 = d2
    d3 = d3
    none = none
    None = none
    Devices <- MCDevices
    Eligible = {d1, d3}
    MaxLines = 2

SPECIFICATION Spec

\* A scan returns or raises: the loop visits each device once.
CHECK_DEADLOCK FALSE

INVARIANT InstallationsFound
