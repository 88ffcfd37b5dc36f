SPECIFICATION Spec
CONSTANTS
    Bootmgfw = bootmgfw
    RecoveryBoot = {shimx64}
    Callers = {"menu"}
    CrashKinds = {"power"}
INVARIANT
    PowerLossIsRecorded
