SPECIFICATION Spec
CONSTANTS
    u1 = u1  u2 = u2  None = None
    Users = {u1, u2}
    Rows <- MCRows
    Overrides <- MCOverrides
    Asked = {"read", "seal", "grant", "revoke", "updateCase", "assign", "remove"}
    RequestBudget = 2
    EventBudget = 1
SYMMETRY Interchangeable
INVARIANTS TypeOK DecisionsAreCurrent
PROPERTIES GrantsWereDue PolicyMovesForward
CHECK_DEADLOCK FALSE
