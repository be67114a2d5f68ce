CONSTANTS
    Calls = {c1, c2}
    Reads = {g1}
    Subjects = {dana, ada}
    Entries <- MCEntries
    DaysArgs <- MCDaysArgs
    MaxDays <- MCMaxDays
    Instants <- MCInstants
    Paths = {"file", ":memory:"}
    StoreFaults = TRUE
SPECIFICATION Spec
SYMMETRY Symmetric
CHECK_DEADLOCK FALSE
INVARIANTS
    TypeOK
    UsageNested
    UsageComplete
    UsageTrue
