SPECIFICATION Spec
CONSTANTS
    Runs = {r1, r2}
    NoRun = NoRun
    Erasures = {"delete", "reset"}
    CrashKinds = {"kill"}
SYMMETRY RunSymmetry
INVARIANTS
    TypeOK
    AcceptedIsOneRun
    MarkerCoversBackup
    OfferedIsRestorable
    ReadersAgree
PROPERTIES
    ImplementsContract
    PublishedAtTheEnd
