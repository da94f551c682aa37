\* A daemon is started while another one serves; nothing fails.
SPECIFICATION Spec
CONSTANTS
    Daemons = {d1, d2}
    Sources = {"dates"}
    ParentOf <- OwnDatabase
    FormsOf <- OneSource
    StartsAs <- PlainFirst
    NoForm = NoForm
    Timed = {"later"}
    Reverting = FALSE
    MaxEdits = 1
    MaxFaults = 0
INVARIANTS
    ViewIsCurrent
