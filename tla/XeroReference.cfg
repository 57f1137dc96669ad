CONSTANTS
    t1 = t1
    t2 = t2
    Tenants = {t1, t2}
    Callers = {"contacts", "accounts", "send"}
    Callback = "callback"
    NoTenant = NoTenant
    NoToken = NoToken
    MaxTokens = 3
    MaxRestarts = 1
    Collections = {"contacts", "accounts"}
    Contacts = "contacts"
    Paged = {"contacts"}
    PageSize = 1
    MaxPages = 2
    Unlisted <- NotShown
    Lists <- XeroLists
    FirstBooks <- AtXero
    Sheet <- FromSheet
    Stored <- Tables
    MaxSyncs = 1
    MaxChanges = 1
SPECIFICATION Spec
INVARIANTS
    ConnectionTypeOK
    RowIsAlive
    FreshIsRecent
PROPERTIES
    QuietSyncShowsXero
CHECK_DEADLOCK FALSE
