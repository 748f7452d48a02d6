CONSTANTS
    Pool = 16
    Scratch = 4
    Top = 4
    Size <- MCSize
    Requests <- MCRequests
    Aligns <- MCAligns
    MaxAllocs = 4
SPECIFICATION Spec
CHECK_DEADLOCK FALSE
INVARIANTS FirstFitApart ApartUntilMerged NothingLost
