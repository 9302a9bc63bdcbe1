\* Two properties, few leaves: a keyword that the baseline did not have.
SPECIFICATION SchemaSpec
CONSTANTS
    a = a
    b = b
    x = x
    y = y
    Absent = Absent
    Names <- MCNames
    Numbers = {0, 1, 2, 3}
    Texts <- MCTexts
    Leaves <- MCFewLeaves
    Policies <- MCClosed
INVARIANT AcceptedBreaksNothing
CHECK_DEADLOCK FALSE
