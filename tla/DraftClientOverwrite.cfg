\* The same tabs; two edits are enough for a retry to replace an unseen one.
CONSTANTS
    d1 = d1
    s1 = s1
    s2 = s2
    Drafts = {d1}
    Shared = d1
    Sessions = {s1, s2}
    NoSession = NoSession
    draft_invoice = draft_invoice
    DocTypes = {draft_invoice}
    NoType = NoType
    LockTtl = 1
    MaxVersion = 3
    MaxPreviews = 0
SPECIFICATION ClientSpec
PROPERTIES
    NoBlindOverwrite
