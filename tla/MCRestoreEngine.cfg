SPECIFICATION FairSpec
CONSTANTS
    Bootmgfw = bootmgfw
    RecoveryBoot = {shimx64, grubx64}
    Callers = {"menu"}
    CrashKinds = {"kill"}
INVARIANTS
    TypeOK
    DamageIsRecorded
    SuccessMeansRestored
    RecoveryBootPutBack
PROPERTIES
    IntentBeforeDamage
    ImplementsIntent
    MenuRespectsLock
    JobsEnd
