SPECIFICATION Spec
CONSTANTS
    v1 = v1
    v2 = v2
    a1 = a1
    a2 = a2
    None = None
    Views <- MCViews
    Accounts <- MCAccounts
    Teams <- MCTeams
    Flows = {"payment"}
    MaxTx = 3
    MaxDisturb = 0
SYMMETRY Symmetry
INVARIANT RecordSurvives
CHECK_DEADLOCK FALSE
