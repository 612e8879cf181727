SPECIFICATION Spec
CONSTANTS
    Producers = {c1, c2}
    f1 = f1
    f2 = f2
    FileOrder <- ReleaseFiles
    None = None
    Cut = Cut
    MaxDamages = 1
SYMMETRY AnyCall
CHECK_DEADLOCK FALSE
INVARIANTS
    OneCallWrites
    FinishedReleaseVerifies
    ValidMeansProven
    IndependentlyRefused
