SPECIFICATION Spec
CONSTANTS
    None = None
    Tabs = {t1, t2}
    Jars = {j1, j2}
    Pairs <- MCPairs
    RequestBudget = 3
    EventBudget = 1
SYMMETRY Symmetry
INVARIANT DisabledHasNoSession
CHECK_DEADLOCK FALSE
