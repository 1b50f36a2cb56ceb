CONSTANTS
    Groceries = Groceries
    Food = Food
    None = None
    c1 = c1
    c2 = c2
    Callers = {c1, c2}
    People = {1, 2, 3}
    MaxLists = 3
    MaxTokens = 1
    MaxTime = 2
    Valid = 2
    Names = {Groceries, Food}
    Requests <- MCRequests
    Stored <- MCStored
SPECIFICATION MCSpec
INVARIANTS
    MembershipTypeOK
    ActsWereAllowed
    EndedLinksSeatNobody
    RolesAreAsSaid
PROPERTIES
    HandoverKeepsTheList
CHECK_DEADLOCK FALSE
