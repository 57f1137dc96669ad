\* One request and the job; three entries on pages of one, two synchronisations, a change, a crash.
CONSTANTS
    e1 = e1
    e2 = e2
    e3 = e3
    w1 = w1
    job = job
    Entries = {e1, e2, e3}
    Day <- MonthEdge
    Rank <- ByDate
    PageSize = 1
    MaxPages = 2
    Gone = Gone
    Initial = {TRUE, Gone}
    MonthLength = 2
    Today = 4
    ManualEnds = {3}
    Web = {w1}
    Job = job
    NoCaller = NoCaller
    NoStore = NoStore
    MaxRuns = 2
    MaxChanges = 1
    MaxCrashes = 1
SPECIFICATION Spec
INVARIANTS
    TypeOK
    StoreCoversItsRun
PROPERTIES
    QuietSyncShowsTeamwork
    SyncsEnd
CHECK_DEADLOCK FALSE
