\* One contract, saves that overlap; writes, chmod and reads may fail.
CONSTANTS
    a = a
    w1 = w1
    w2 = w2
    i1 = i1
    i2 = i2
    i3 = i3
    NoInode = NoInode
    Ids <- MCIds
    Writers <- MCWriters
    Inodes <- MCInodes
    FailingOps <- Failures
    MaxVersion = 2
SPECIFICATION Spec
INVARIANTS
    AckedSavesSurvive
    StorageIsSound
PROPERTIES
    CallsReturn
