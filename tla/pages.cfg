SPECIFICATION Spec
CONSTANTS
    None = None
    Keys = {k1, k2}
    ClickBudget = 2
    EventBudget = 1
PROPERTY PageComesBack
INVARIANTS TypeOK NoButtonLost PreviewIsCurrent ReadYourWrites
CHECK_DEADLOCK FALSE
