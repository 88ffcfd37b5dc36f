SPECIFICATION Spec
CONSTANTS
    Bootmgfw = bootmgfw
    RecoveryBoot = {shimx64}
    Callers = {"cli"}
    CrashKinds = {"kill", "power"}
INVARIANTS
    DamageIsRecorded
    SuccessMeansRestored
PROPERTIES
    ImplementsIntent
