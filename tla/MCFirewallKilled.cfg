CONSTANT
    Client = {m1}
SPECIFICATION FairSpec
PROPERTIES
    KilledIsCleaned
