SPECIFICATION Spec
CONSTANTS
    n1 = n1
    n2 = n2
    Nonces = {n1, n2}
    Launches = {t1, t2, t3}
    Directories = {d1, d2}
    Original = 3
    Target <- MCTarget
SYMMETRY AnyNames
CHECK_DEADLOCK FALSE
INVARIANTS
    OwedRestoration
    SpentOnce
    OneTrialPerDirectory
    CapKeptWithinDirectory
