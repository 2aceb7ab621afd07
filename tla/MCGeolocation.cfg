CONSTANTS
    w1 = w1
    w2 = w2
    fedora = fedora
    hostip = hostip
    other = other
    none = none
    zero = zero
    Waiters <- MCWaiters
    Options <- MCOptions
    NoOption = none
    Zero = zero
    Fedora = fedora
    Hostip = hostip
    MaxRefreshes = 2

SPECIFICATION Spec

\* The run ends: refresh() is called a bounded number of times and every
\* waiter returns once.
CHECK_DEADLOCK FALSE

INVARIANTS
    TypeOK
    WaitedForLookup

PROPERTIES
    WaitersWake
