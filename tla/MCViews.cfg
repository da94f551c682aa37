\* One daemon, two data sources; statements or requests fail or the daemon dies, twice in all.
SPECIFICATION Spec
CONSTANTS
    Daemons = {d1}
    Sources = {"dates", "values"}
    ParentOf <- OwnDatabase
    FormsOf <- TwoSources
    StartsAs <- DatesLater
    NoForm = NoForm
    Timed = {"later"}
    Reverting = FALSE
    MaxEdits = 1
    MaxFaults = 2
INVARIANTS
    TypeOK
    ViewIsCurrent
    QueryTellsProperties
PROPERTIES
    QueriesCatchUp
