\* Two editors and two document types, no job: edits, archivals and restorations
\* around a send and a reconciliation that may die.
CONSTANTS
    d1 = d1
    s1 = s1
    s2 = s2
    job = job
    draft_invoice = draft_invoice
    draft_quote = draft_quote
    Drafts = {d1}
    Sessions = {s1, s2, job}
    Job = job
    NoSession = NoSession
    DocTypes = {draft_invoice, draft_quote}
    NoType = NoType
    NoDoc = NoDoc
    LockTtl = 1
    MaxVersion = 3
    Number <- OwnNumber
    Need <- OneHour
    Allowance = 1
    JobRuns = FALSE
    TypeOverride = FALSE
    LateDelivery = FALSE
    MaxSends = 2
    MaxSendCrashes = 1
    MaxReconcileCrashes = 1
SYMMETRY Symmetry
SPECIFICATION SendSpec
INVARIANTS
    TypeOK
    ArchivedHasNoEditor
    EditingPausedInDoubt
    NotFoundMeansNotSent
    FrozenWhileSending
PROPERTIES
    LockIsNotStolen
    RevisionsAreVersioned
    ImplementsLedger
