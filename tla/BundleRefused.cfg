SPECIFICATION BundleSpec
CONSTANTS
    fam = fam
    other = other
    opt = opt
    Package <- RefusedPackages
    MaxNumberOfPackages = 3
    MaxBatch = 2
    Null = Null
INVARIANTS
    ContainsApplication
CHECK_DEADLOCK FALSE
