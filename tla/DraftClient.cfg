\* One draft, two tabs, versions up to 3.
CONSTANTS
    d1 = d1
    s1 = s1
    s2 = s2
    Drafts = {d1}
    Shared = d1
    Sessions = {s1, s2}
    NoSession = NoSession
    draft_invoice = draft_invoice
    DocTypes = {draft_invoice}
    NoType = NoType
    LockTtl = 1
    MaxVersion = 3
    MaxPreviews = 1
SYMMETRY Symmetry
VIEW WithoutHistory
SPECIFICATION ClientSpec
INVARIANTS
    ClientTypeOK
    SameVersionSameContent
PROPERTIES
    NeverRepaintsOlder
