CONSTANTS
    i1 = i1
    i2 = i2
    Ids = {i1, i2}
    NoId = NoId
    MaxFragments = 2
    Streams <- MCStreams
SPECIFICATION Spec
INVARIANTS TypeOK CallsAreThoseSent ErrorsAreEarned
PROPERTIES CallsKeepTheirIds
CHECK_DEADLOCK FALSE
