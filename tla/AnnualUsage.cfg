\* One page, one draft at a time and the two scripts.
CONSTANTS
    c1 = c1
    c2 = c2
    corp = corp
    cit = cit
    other = other
    n1 = n1
    n2 = n2
    n3 = n3
    nobody = nobody
    Clients = {c1, c2}
    ClientOrder <- Order
    Linked = {c1}
    NoClient = NoClient
    Names = {n1, n2, n3, nobody}
    DisplayKey <- Display
    XeroKey <- Xero
    ProjectKey <- Project
    Within <- Parts
    Services = {corp, cit}
    Corp = corp
    NoService = other
    Years = {1, 2}
    NoYear = 0
    Window <- HalfOfYear2
    NoPeriod = NoPeriod
    DefaultMax = 2
    NoMax = NoMax
    Detected <- DetectedPeriods
    Needs <- Wanted
    NoNeed = NoNeed
    NoScript = NoScript
    TypedMax = {2}
    TypedUsed = {1}
    Workbooks <- Books
    Sheets <- PrepaidSheets
    Entries <- Logged
    MaxTyped = 2
    MaxRequests = 3
    MaxRuns = 2
SPECIFICATION Spec
INVARIANTS
    UsageTypeOK
    PreparedIsBookable
PROPERTIES
    TypedIsKept
    ScriptsRestate
    HoursLeaveByHand
CHECK_DEADLOCK FALSE
