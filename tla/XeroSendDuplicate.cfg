\* One editor, two document types, nobody overrides the draft's type.
CONSTANTS
    d1 = d1
    s1 = s1
    job = job
    draft_invoice = draft_invoice
    draft_quote = draft_quote
    Drafts = {d1}
    Sessions = {s1, job}
    Job = job
    NoSession = NoSession
    DocTypes = {draft_invoice, draft_quote}
    NoType = NoType
    NoDoc = NoDoc
    LockTtl = 1
    MaxVersion = 2
    Number <- OwnNumber
    Need <- OneHour
    Allowance = 1
    JobRuns = FALSE
    TypeOverride = FALSE
    LateDelivery = FALSE
    MaxSends = 2
    MaxSendCrashes = 0
    MaxReconcileCrashes = 0
SPECIFICATION SendSpec
INVARIANTS
    OneDocumentPerDraft
