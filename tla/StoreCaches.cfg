CONSTANTS
    Threads = {t1, t2}
    Names <- MCNames
    Canon <- MCCanon
    Refused = Refused
    ArrayDocs <- MCArrayDocs
    Described <- MCDescribed
    Consolidations <- MCConsolidations
    OwnDocs <- MCOwnDocs
    None = None
    Asked = {"verified_arrays", "string_arrays", "inventory"}
    MaxCalls = 2
    MaxRewrites = 1
SPECIFICATION FairSpec
INVARIANTS NodeReadOnce FailureForgotten VerifiedAgrees InventoryStands
PROPERTIES AnswersStand EveryCallReturns
