\* One draft, one editor and the job, both going on; late requests, a send dies.
CONSTANTS
    d1 = d1
    s1 = s1
    job = job
    draft_invoice = draft_invoice
    Drafts = {d1}
    Sessions = {s1, job}
    Job = job
    NoSession = NoSession
    DocTypes = {draft_invoice}
    NoType = NoType
    NoDoc = NoDoc
    LockTtl = 1
    MaxVersion = 2
    Number <- OwnNumber
    Need <- OneHour
    Allowance = 1
    JobRuns = TRUE
    TypeOverride = FALSE
    LateDelivery = TRUE
    MaxSends = 2
    MaxSendCrashes = 1
    MaxReconcileCrashes = 0
SPECIFICATION FairSendSpec
INVARIANTS
    SendTypeOK
    UnresolvedIsReconcilable
PROPERTIES
    ImplementsLedger
    UnresolvedGetsSettled
