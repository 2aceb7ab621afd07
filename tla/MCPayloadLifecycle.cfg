CONSTANTS
    s1 = s1  s2 = s2  s3 = s3
    t1 = t1  tS = tS  tT = tT  i1 = i1  i2 = i2
    TDisk = TDisk  TUrl = TUrl  TOther = TOther
    none = none
    None <- none
    Sources <- MCSources
    UiTasks <- MCUiTasks
    Tasks <- MCTasks
    TypeOf <- MCTypeOf
    SpaceOf <- MCSpaceOf
    InstallTasks <- MCInstallTasks
    SupportedTypes = {TDisk, TUrl}
    NeedsSetUp = {s1}
    NetworkRequired = {s2}
    MaxSources = 2
    SetUpTask = tS
    TearDownTask = tT
    KernelTask = i2

SPECIFICATION Spec
\* the installation ends; the user may also never start it
CHECK_DEADLOCK FALSE
INVARIANT TypeOK
 
 
PROPERTY ImplementsContract
