SPECIFICATION Spec
CONSTANTS
    v1 = v1
    v2 = v2
    a1 = a1
    a2 = a2
    None = None
    Views <- MCViews
    Accounts <- MCAccounts
    Teams <- MCTeams
    Flows = {"swap", "payment", "create", "cancel", "publish", "approve", "deactivate", "funding"}
    MaxTx = 2
    MaxDisturb = 1
SYMMETRY Symmetry
INVARIANTS
    HashKeyedRecordSurvives
    UnstoredHashIsShown
    SwapBacklogBounded
    ShownReviewIsSigned
CHECK_DEADLOCK FALSE
