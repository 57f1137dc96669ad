\* Two drafts that share a number, prepaid hours for one of them.
CONSTANTS
    d1 = d1
    d2 = d2
    s1 = s1
    job = job
    draft_invoice = draft_invoice
    Drafts = {d1, d2}
    Sessions = {s1, job}
    Job = job
    NoSession = NoSession
    DocTypes = {draft_invoice}
    NoType = NoType
    NoDoc = NoDoc
    LockTtl = 1
    MaxVersion = 1
    Number <- SharedNumber
    Need <- OneHour
    Allowance = 1
    JobRuns = TRUE
    TypeOverride = FALSE
    LateDelivery = FALSE
    MaxSends = 1
    MaxSendCrashes = 1
    MaxReconcileCrashes = 0
SPECIFICATION SendSpec
INVARIANTS
    BooksBalance
