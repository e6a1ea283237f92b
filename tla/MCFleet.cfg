SPECIFICATION FairSpec
CONSTANTS
    Task = {t1, t2}
    Client = {c1}
    Browser = {c1}
    Shared = dynamodb
    InitialEnv <- MCInitialEnv
INVARIANT TypeOK
PROPERTIES LoginsSurviveDeploys SealedStays SignsIn SilentRefresh
