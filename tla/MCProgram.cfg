CONSTANTS
    Client = {m1, m2}
    Starts <- MCStarts
    LAST_BPF = 1
    MAX_ANSWERS = 2
SPECIFICATION ProgramSpec
INVARIANTS
    ProgramTypeOK
    GuardedWhileRunning
    ReleasedAtMostOnce
    ExitIsClean
    FamilyAgrees
    Precedence
    DeviceFound
PROPERTIES
    WatchdogCleansUp
    KeepsGuard
    SettlesCleanly
