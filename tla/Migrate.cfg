SPECIFICATION MigrateFairSpec
CONSTANTS
    s1 = s1
    s2 = s2
    d1 = d1
    d2 = d2
    None = None
    Schemas <- TwoSchemas
    Databases <- TwoDatabases
    Source <- GappedSource
    Targets <- SomeTargets
INVARIANTS MigrateTypeOK OneMigrationPerDatabase BeliefsAgree CleanMeansApplied OkMeansThere NeverRunsOut
PROPERTIES CallsGetOn ImplementsVersioned CallsReturn
