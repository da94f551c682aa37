\* A schema is changed and changed back, and a statement fails once.
SPECIFICATION Spec
CONSTANTS
    Daemons = {d1}
    Sources = {"dates"}
    ParentOf <- OwnDatabase
    FormsOf <- OneSource
    StartsAs <- PlainFirst
    NoForm = NoForm
    Timed = {"later"}
    Reverting = TRUE
    MaxEdits = 2
    MaxFaults = 1
PROPERTIES
    QueriesCatchUp
