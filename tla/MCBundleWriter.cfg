SPECIFICATION BundleSpec
CONSTANTS
    fam = fam
    other = other
    opt = opt
    Package <- MCPackage
    MaxNumberOfPackages = 3
    MaxBatch = 2
    Null = Null
INVARIANTS
    BundleTypeOK
    BundleValid
    ManifestShape
CHECK_DEADLOCK FALSE
