SPECIFICATION Spec
CONSTANTS
    Bootmgfw = bootmgfw
    RecoveryBoot = {shimx64}
    Callers = {"cli"}
    CrashKinds = {"kill"}
PROPERTY
    NoRestoreOverLock
