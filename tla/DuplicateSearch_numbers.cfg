SPECIFICATION Spec
CONSTANTS
    Paths = {"a", "b", "c", "d"}
    Radius = 1
    Groups <- MCGroups
    Dtos <- MCDtos
INVARIANTS DeletesTheNumbered
CHECK_DEADLOCK FALSE
