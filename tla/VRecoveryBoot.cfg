SPECIFICATION Spec
CONSTANTS
    Bootmgfw = bootmgfw
    RecoveryBoot = {shimx64}
    Callers = {"menu"}
    CrashKinds = {"kill"}
INVARIANT
    CompletedRestoreHasRecoveryBoot
