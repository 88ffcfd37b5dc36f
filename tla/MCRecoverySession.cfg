SPECIFICATION FairSpec
CONSTANTS
    Starts = 2
    Kinds = {"gtk", "tui"}
    Ops = {"backup", "restore", "delete", "clear", "reboot"}
INVARIANTS
    TypeOK
    NoFalseSuccess
    RebootCutsNoJob
    ResetSparesBackup
    OfferedIsWhole
PROPERTIES
    OneJobPerInterface
    RestoreReadsWholeImage
    BusyEnds
