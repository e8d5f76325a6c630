CONSTANTS
    Payload = {0, 1, 2, 6, 7, 1440, 1441, 1460, 1461, 1500}
    Tags = {0, 1, 2}
    MAX_RECORDS = 2
SPECIFICATION Spec
INVARIANTS
    DeliveredExactly
    OnlyCutBuffersFail
    StaysOnRecords
    SentAsBuilt
CHECK_DEADLOCK FALSE
