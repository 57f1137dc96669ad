----------------------------- MODULE DraftClient -----------------------------
(***************************************************************************)
(* The browser side of a draft: tabs that save edits of the draft they     *)
(* show through a serial queue, renew or reacquire the lock behind it, and *)
(* fold the answers, in whatever order they come, into the version they    *)
(* will send next.  src/client/App.jsx (QuotePreview).                     *)
(***************************************************************************)
EXTENDS QuoteDraft

CONSTANTS
    Shared,       \* the draft every tab of the model has open
    MaxPreviews   \* bound: Xero previews on their way to the tabs

ASSUME SharedAssumption == Shared \in Drafts
ASSUME MaxPreviewsAssumption == MaxPreviews \in Nat

VARIABLES
    tab,       \* [Sessions -> Tab]
    inbox,     \* the answer to a reacquisition of the lock that is on its way
    previews,  \* the versions the Xero previews on their way will answer with
    author     \* last_edited_by: the session whose edit the row shows

clientVars == <<draft, logout, tab, inbox, previews, author>>

-----------------------------------------------------------------------------
(* What a tab knows. *)

\* The parts of an answer that matter: preview.version and preview's lines.
Answer == [version : Nat \ {0}, content : Nat]

NoAnswer == [version |-> 0, content |-> 0]

\* Where the tab's queued operation is: no operation (idle), sent (saving),
\* sent and committed (answered), refused for the lock (locked), sent again
\* after reacquiring it (resent).  An operation is known by its base: what the
\* tab showed when it was composed.
Tab ==
    [ pc       : {"closed", "idle", "saving", "answered", "locked", "resent"},
      version  : Nat,      \* versionRef: what the next request will send
      shown    : Nat,      \* currentDraft.version: what the tab shows
      content  : Nat,      \* and its content
      base     : Nat,      \* of the queued operation
      retried  : BOOLEAN,  \* the queued operation is the kept one
      kept     : SUBSET Nat,  \* base of the operation kept for Retry, if any
      conflict : BOOLEAN,  \* the banner that stops editing
      answer   : Answer \cup {NoAnswer} ]  \* the save's, while pc = "answered"

\* Mutation of RowAnswer: an answer with the version the caller had sent.
OldRowAnswer(row) == [version |-> row.version - 1, content |-> row.content]

RowAnswer(row) == [version |-> row.version, content |-> row.content]

ClosedTab ==
    [ pc |-> "closed", version |-> 0, shown |-> 0, content |-> 0, base |-> 0,
      retried |-> FALSE, kept |-> {}, conflict |-> FALSE, answer |-> NoAnswer ]

\* Mutation of ResponseIsCurrent: every response repaints.
AnyResponse(current, response) == TRUE

\* draftResponseIsCurrent
ResponseIsCurrent(current, response) == response >= current

\* Mutation of Painted: the parent's own version is not compared.
PaintedAnyway(t, answer) == [t EXCEPT !.content = answer.content]

\* mergeCurrentDraft
Painted(t, answer) ==
    IF ResponseIsCurrent(t.shown, answer.version)
    THEN [t EXCEPT !.shown = answer.version, !.content = answer.content]
    ELSE t

\* mergePreviewForParent: a response older than the next request is dropped.
Merged(t, answer) ==
    IF ResponseIsCurrent(t.version, answer.version)
    THEN [Painted(t, answer) EXCEPT !.version = answer.version]
    ELSE t

SetTab(s, t) == tab' = [tab EXCEPT ![s] = t]

\* The queue is empty.
Idle(t) == [t EXCEPT !.pc = "idle", !.base = 0, !.retried = FALSE, !.answer = NoAnswer]

\* The operation succeeded; one that failed before it stays kept, and so does
\* one whose answer came too late.
Settled(t) ==
    IF t.retried /\ ResponseIsCurrent(t.version, t.answer.version)
    THEN [Idle(t) EXCEPT !.kept = {}]
    ELSE Idle(t)

\* The operation failed and is kept for Retry, instead of one kept before.
Failed(t) == [Idle(t) EXCEPT !.kept = {t.base}]

Open(s) == tab[s].pc # "closed"

Sent(s) == tab[s].pc \in {"saving", "resent"}

-----------------------------------------------------------------------------
(* Tabs and the draft. *)

ClientInit ==
    /\ Init
    /\ tab = [s \in Sessions |-> ClosedTab]
    /\ inbox = [s \in Sessions |-> {}]
    /\ previews = [s \in Sessions |-> {}]
    /\ author = NoSession

OpenDraft(s) ==
    /\ ~Open(s)
    /\ AcquireLock(Shared, s)
    /\ SetTab(s, Idle(Merged(ClosedTab, RowAnswer(draft[Shared]))))
    /\ UNCHANGED <<inbox, previews, author>>

\* The user edits what the tab shows; the save is queued at once.
Compose(s) ==
    /\ tab[s].pc = "idle"
    /\ ~tab[s].conflict
    /\ SetTab(s, [tab[s] EXCEPT !.pc = "saving", !.base = tab[s].content])
    /\ UNCHANGED <<draft, logout, inbox, previews, author>>

SaveCommits(s) ==
    /\ Sent(s)
    /\ \/ UpdateTimeEntries(Shared, s, tab[s].version)
       \/ \E type \in DocTypes : UpdateMetadata(Shared, s, tab[s].version, type)
    /\ SetTab(s, [tab[s] EXCEPT !.pc = "answered", !.answer = RowAnswer(draft'[Shared])])
    /\ author' = s
    /\ UNCHANGED <<inbox, previews>>

SaveAnswered(s) ==
    /\ tab[s].pc = "answered"
    /\ SetTab(s, Merged(Settled(tab[s]), tab[s].answer))
    /\ UNCHANGED <<draft, logout, inbox, previews, author>>

\* The request or its answer is lost, or the server refuses the draft's
\* state; the operation stays behind the Retry button.
SaveFails(s) ==
    /\ Sent(s) \/ tab[s].pc = "answered"
    /\ SetTab(s, Failed(tab[s]))
    /\ UNCHANGED <<draft, logout, inbox, previews, author>>

\* DRAFT_VERSION_CONFLICT: assertDraftMutation compares versions before locks.
SaveConflicts(s) ==
    /\ Sent(s)
    /\ ~draft[Shared].archived
    /\ draft[Shared].version # tab[s].version
    /\ SetTab(s, [Failed(tab[s]) EXCEPT !.conflict = TRUE])
    /\ UNCHANGED <<draft, logout, inbox, previews, author>>

\* DRAFT_LOCKED: the queue reacquires the lock once before giving up.
SaveFindsLockGone(s) ==
    /\ Sent(s)
    /\ ~draft[Shared].archived
    /\ draft[Shared].version = tab[s].version
    /\ ~HoldsLock(draft[Shared], s)
    /\ SetTab(s, IF tab[s].pc = "saving" THEN [tab[s] EXCEPT !.pc = "locked"]
                                         ELSE Failed(tab[s]))
    /\ UNCHANGED <<draft, logout, inbox, previews, author>>

\* reacquireEditorLock, then the same operation with the version it returned.
ReacquireAndResend(s) ==
    /\ tab[s].pc = "locked"
    /\ inbox[s] = {}
    /\ AcquireLock(Shared, s)
    /\ SetTab(s, [Merged(tab[s], RowAnswer(draft[Shared]))
                    EXCEPT !.pc = "resent", !.conflict = FALSE])
    /\ UNCHANGED <<inbox, previews, author>>

ReacquireFails(s) ==
    /\ tab[s].pc = "locked"
    /\ SetTab(s, Failed(tab[s]))
    /\ UNCHANGED <<draft, logout, inbox, previews, author>>

\* Retry runs the kept operation again with the tab's current version.
Retry(s) ==
    /\ tab[s].pc = "idle"
    /\ \E base \in tab[s].kept :
           SetTab(s, [tab[s] EXCEPT !.pc = "saving", !.base = base, !.retried = TRUE])
    /\ UNCHANGED <<draft, logout, inbox, previews, author>>

\* A key or pointer event renews the lock ...
TouchRenews(s) ==
    /\ Open(s)
    /\ RenewLock(Shared, s)
    /\ UNCHANGED <<tab, inbox, previews, author>>

\* ... or, when it has run out, reacquires it behind the queue's back, unless
\* a reacquisition is already on its way (lockReacquisitionRef).
TouchReacquires(s) ==
    /\ Open(s)
    /\ inbox[s] = {}
    /\ ~HoldsLock(draft[Shared], s)
    /\ AcquireLock(Shared, s)
    /\ inbox' = [inbox EXCEPT ![s] = {RowAnswer(draft[Shared])}]
    /\ UNCHANGED <<tab, previews, author>>

\* Its answer arrives: the banner goes away whatever the answer says, and a
\* save that waits for the lock shares it.
TouchAnswered(s) ==
    \E answer \in inbox[s] :
        /\ SetTab(s, [Merged(tab[s], answer) EXCEPT
                        !.pc = IF @ = "locked" THEN "resent" ELSE @,
                        !.conflict = FALSE])
        /\ inbox' = [inbox EXCEPT ![s] = {}]
        /\ UNCHANGED <<draft, logout, previews, author>>

\* `Reload latest' on the conflict banner drops the kept operation.
ReloadLatest(s) ==
    /\ tab[s].conflict
    /\ tab[s].pc = "idle"
    /\ inbox[s] = {}
    /\ AcquireLock(Shared, s)
    /\ SetTab(s, [Merged(tab[s], RowAnswer(draft[Shared]))
                    EXCEPT !.kept = {}, !.conflict = FALSE])
    /\ UNCHANGED <<inbox, previews, author>>

\* `Preview' asks for the Xero document of the version shown, once nothing is
\* queued; a request the draft's state refuses changes nothing.
OpenPreview(s) ==
    /\ tab[s].pc = "idle"
    /\ tab[s].kept = {}
    /\ ~tab[s].conflict
    /\ Cardinality(UNION { {t} \X previews[t] : t \in Sessions }) < MaxPreviews
    /\ draft[Shared].status = "preview"
    /\ MayMutate(draft[Shared], s, tab[s].version)
    /\ previews' = [previews EXCEPT ![s] = @ \cup {tab[s].version}]
    /\ UNCHANGED <<draft, logout, tab, inbox, author>>

\* The dialog can be closed while it loads; whenever its answer comes, the
\* version it was asked with is the one the next request will send.
PreviewAnswered(s) ==
    \E v \in previews[s] :
        /\ SetTab(s, [tab[s] EXCEPT !.version = v])
        /\ previews' = [previews EXCEPT ![s] = @ \ {v}]
        /\ UNCHANGED <<draft, logout, inbox, author>>

\* Leaving the draft: to the list, archiving it first, or by logging out.
Leave(s) ==
    /\ tab[s].pc = "idle"
    /\ \/ UNCHANGED <<draft, logout>>
       \/ Archive(Shared, s, tab[s].version)
       \/ LogoutSelects(s)
    /\ SetTab(s, ClosedTab)
    /\ inbox' = [inbox EXCEPT ![s] = {}]
    /\ previews' = [previews EXCEPT ![s] = {}]
    /\ UNCHANGED author

\* Restoring from the list of archived drafts opens the draft again.
RestoreAndOpen(s) ==
    /\ ~Open(s)
    /\ Restore(Shared, s, draft[Shared].version)
    /\ SetTab(s, Idle(Merged(ClosedTab, RowAnswer(draft'[Shared]))))
    /\ UNCHANGED <<inbox, previews, author>>

Elsewhere ==
    /\ LockAges(Shared) \/ \E s \in Sessions : LogoutReleases(s)
    /\ UNCHANGED <<tab, inbox, previews, author>>

ClientNext ==
    \/ \E s \in Sessions :
         \/ OpenDraft(s) \/ Compose(s) \/ Leave(s) \/ RestoreAndOpen(s)
         \/ SaveCommits(s) \/ SaveAnswered(s) \/ SaveFails(s)
         \/ SaveConflicts(s) \/ SaveFindsLockGone(s)
         \/ ReacquireAndResend(s) \/ ReacquireFails(s)
         \/ Retry(s) \/ ReloadLatest(s)
         \/ OpenPreview(s) \/ PreviewAnswered(s)
         \/ TouchRenews(s) \/ TouchReacquires(s) \/ TouchAnswered(s)
    \/ Elsewhere

ClientSpec == ClientInit /\ [][ClientNext]_clientVars

-----------------------------------------------------------------------------
(* Properties. *)

ClientTypeOK ==
    /\ TypeOK
    /\ tab \in [Sessions -> Tab]
    /\ inbox \in [Sessions -> SUBSET Answer]
    /\ previews \in [Sessions -> SUBSET (Nat \ {0})]
    /\ author \in Sessions \cup {NoSession}

\* A version number stands for one content: whatever a tab or an answer on its
\* way holds under the row's version is what the row says, so a save that
\* passes the server's version check was made by a tab that shows the latest
\* draft (assertDraftMutation, quotePreviewRepository.js:83).
SameVersionSameContent ==
    \A s \in Sessions :
        LET exact(version, content) ==
                /\ version <= draft[Shared].version
                /\ version = draft[Shared].version => content = draft[Shared].content
        IN  /\ Open(s) => /\ exact(tab[s].version, tab[s].content)
                          /\ exact(tab[s].shown, tab[s].content)
            /\ tab[s].pc = "answered" => exact(tab[s].answer.version, tab[s].answer.content)
            /\ \A a \in inbox[s] : exact(a.version, a.content)

\* `Stale browser responses can no longer repaint newer draft state'
\* (CHANGELOG.md): while a tab stays open what it shows never goes back,
\* however late an answer arrives.
NeverRepaintsOlder ==
    [][\A s \in Sessions :
         Open(s) /\ tab'[s].pc # "closed" => tab'[s].shown >= tab[s].shown]_clientVars

\* `version conflicts now stop editing and offer an explicit reload of the
\* latest draft' (CHANGELOG.md): no save replaces what another tab wrote
\* unless its edit was composed on that very content.
NoBlindOverwrite ==
    [][\A s \in Sessions :
         Sent(s) /\ tab'[s].pc = "answered" /\ author \notin {s, NoSession}
             => tab[s].base = draft[Shared].content]_clientVars

=============================================================================
