----------------------------- MODULE QuoteDraft -----------------------------
(***************************************************************************)
(* A row of quote_previews: the lifecycle of a billing draft and the       *)
(* ten-minute editing lock that serialises its editors.                    *)
(* server/quotePreviewRepository.js.                                       *)
(*                                                                         *)
(* Each handler is one database transaction under the draft's advisory     *)
(* lock, so each is one action.  A session stands for the pair (user,      *)
(* editor session id) the code compares.  Lines and metadata are           *)
(* abstracted to `content', the number of edits that produced them; a lock *)
(* expiry is abstracted to `ttl', the clock periods the lock still has.    *)
(***************************************************************************)
EXTENDS Naturals, FiniteSets

CONSTANTS
    Drafts,      \* ids of quote_previews rows
    Sessions,    \* editor session ids
    NoSession,   \* editing_session_id is null
    DocTypes,    \* {draft_invoice, draft_quote}
    NoType,      \* active_send_attempt_id is null
    LockTtl,     \* periods in the ten minutes of a fresh lock
    MaxVersion   \* bound: versions explored per draft

ASSUME LockTtlAssumption == LockTtl \in Nat \ {0}
ASSUME MaxVersionAssumption == MaxVersion \in Nat \ {0}
ASSUME NoSessionAssumption == NoSession \notin Sessions
ASSUME NoTypeAssumption == NoType \notin DocTypes

VARIABLES
    draft,       \* [Drafts -> DraftRow]
    logout       \* [Sessions -> drafts a logout selected and still has to release]

draftVars == <<draft, logout>>

-----------------------------------------------------------------------------
(* The row. *)

Statuses == {"preview", "sent_to_xero", "approved_for_xero"}
SendStates == {"idle", "sending", "unknown", "succeeded", "failed"}

DraftRow ==
    [ status    : Statuses,
      version   : Nat \ {0},
      content   : Nat,
      archived  : BOOLEAN,
      docType   : DocTypes,
      holder    : Sessions \cup {NoSession},
      ttl       : 0..LockTtl,
      sendState : SendStates,
      attempt   : DocTypes \cup {NoType} ]

\* What createQuotePreview inserts; it gives the creator the lock.
NewDraft(s, type) ==
    [ status |-> "preview", version |-> 1, content |-> 0, archived |-> FALSE,
      docType |-> type, holder |-> s, ttl |-> LockTtl, sendState |-> "idle",
      attempt |-> NoType ]

Put(d, row) == draft' = [draft EXCEPT ![d] = row]

-----------------------------------------------------------------------------
(* The checks the handlers share. *)

Locked(row) == row.holder # NoSession /\ row.ttl > 0

HoldsLock(row, s) == Locked(row) /\ row.holder = s

SendSettled(row) == row.sendState \in {"idle", "failed"}

\* Mutation of MayMutate: the lock is no longer compared with the caller.
MayMutateIfLocked(row, s, v) ==
    ~row.archived /\ SendSettled(row) /\ row.version = v /\ Locked(row)

\* Mutation of MayMutate: the state of the send is not looked at.
MayMutateWhileSending(row, s, v) ==
    ~row.archived /\ row.version = v /\ HoldsLock(row, s)

\* assertDraftMutation, once the session and the user are known.
MayMutate(row, s, v) ==
    /\ ~row.archived
    /\ SendSettled(row)
    /\ row.version = v
    /\ HoldsLock(row, s)

\* Mutation of Granted: a fresh lock lasts one period too long.
GrantedTooLong(row, s) == [row EXCEPT !.holder = s, !.ttl = LockTtl + 1]

Granted(row, s) == [row EXCEPT !.holder = s, !.ttl = LockTtl]

\* Mutation of Released: the lock runs out but keeps its holder.
Expired(row) == [row EXCEPT !.ttl = 0]

Released(row) == [row EXCEPT !.holder = NoSession, !.ttl = 0]

\* Mutation of NextVersion: an update that forgets version = version + 1.
SameVersion(row) == row

NextVersion(row) == [row EXCEPT !.version = @ + 1]

\* No logout of the session is in progress.
NotLeaving == [leaving |-> FALSE, drafts |-> {}]

-----------------------------------------------------------------------------
(* The handlers.  s is the calling session, v the version it sends. *)

Init ==
    /\ draft \in [Drafts -> { NewDraft(s, t) : s \in Sessions, t \in DocTypes }]
    /\ logout = [s \in Sessions |-> NotLeaving]

\* Opening a draft, or reopening it to get an expired lock back.
AcquireLock(d, s) ==
    LET row == draft[d] IN
    /\ row.status = "preview"
    /\ SendSettled(row) \/ HoldsLock(row, s)
    /\ ~row.archived
    /\ Locked(row) => row.holder = s
    /\ Put(d, Granted(row, s))
    /\ UNCHANGED logout

\* One UPDATE, without the advisory lock and without looking at the send.
RenewLock(d, s) ==
    LET row == draft[d] IN
    /\ row.status = "preview"
    /\ ~row.archived
    /\ HoldsLock(row, s)
    /\ Put(d, Granted(row, s))
    /\ UNCHANGED logout

\* The ten minutes run out, one period at a time.
LockAges(d) ==
    /\ draft[d].ttl > 0
    /\ Put(d, [draft[d] EXCEPT !.ttl = @ - 1])
    /\ UNCHANGED logout

Revised(row, s) == NextVersion([Granted(row, s) EXCEPT !.content = @ + 1])

\* Metadata and line edits; they may also change the document type.
UpdateMetadata(d, s, v, type) ==
    LET row == draft[d] IN
    /\ v < MaxVersion
    /\ row.status = "preview"
    /\ MayMutate(row, s, v)
    /\ Put(d, [Revised(row, s) EXCEPT !.docType = type])
    /\ UNCHANGED logout

\* Billable switches and rates of the source time entries.
UpdateTimeEntries(d, s, v) ==
    LET row == draft[d] IN
    /\ v < MaxVersion
    /\ row.status = "preview"
    /\ MayMutate(row, s, v)
    /\ Put(d, Revised(row, s))
    /\ UNCHANGED logout

\* The bound leaves the last version to the restoration.
Archive(d, s, v) ==
    LET row == draft[d] IN
    /\ v + 1 < MaxVersion
    /\ row.status = "preview"
    /\ MayMutate(row, s, v)
    /\ Put(d, NextVersion([Released(row) EXCEPT !.archived = TRUE]))
    /\ UNCHANGED logout

\* Restoring looks at neither the lock nor the send state.
Restore(d, s, v) ==
    LET row == draft[d] IN
    /\ v < MaxVersion
    /\ row.status = "preview"
    /\ row.archived
    /\ row.version = v
    /\ Put(d, NextVersion([Granted(row, s) EXCEPT !.archived = FALSE]))
    /\ UNCHANGED logout

\* Logout first reads which drafts the session holds ...
LogoutSelects(s) ==
    /\ ~logout[s].leaving
    /\ logout' = [logout EXCEPT ![s] =
                     [leaving |-> TRUE,
                      drafts  |-> { d \in Drafts : draft[d].holder = s }]]
    /\ UNCHANGED draft

\* ... then, under the advisory locks of those drafts, one UPDATE releases
\* every row the session holds by now, selected or not.
LogoutReleases(s) ==
    /\ logout[s].leaving
    /\ draft' = [d \in Drafts |->
                   IF draft[d].holder = s THEN Released(draft[d]) ELSE draft[d]]
    /\ logout' = [logout EXCEPT ![s] = NotLeaving]

\* Everything session s may ask of draft d.
EditorStep(d, s, v) ==
    \/ UpdateTimeEntries(d, s, v)
    \/ \E type \in DocTypes : UpdateMetadata(d, s, v, type)
    \/ Archive(d, s, v)
    \/ Restore(d, s, v)

Next ==
    \/ \E d \in Drafts, s \in Sessions, v \in 1..MaxVersion : EditorStep(d, s, v)
    \/ \E d \in Drafts, s \in Sessions : AcquireLock(d, s) \/ RenewLock(d, s)
    \/ \E d \in Drafts : LockAges(d)
    \/ \E s \in Sessions : LogoutSelects(s) \/ LogoutReleases(s)

Spec == Init /\ [][Next]_draftVars

-----------------------------------------------------------------------------
(* Properties. *)

\* Every row is a quote_previews row the schema admits.
TypeOK ==
    /\ draft \in [Drafts -> DraftRow]
    /\ logout \in [Sessions -> [leaving : BOOLEAN, drafts : SUBSET Drafts]]

\* An archived draft has no editor: archiving gives the lock up and neither
\* acquiring nor renewing hands it out again (quotePreviewRepository.js:1718).
ArchivedHasNoEditor ==
    \A d \in Drafts : draft[d].archived => draft[d].holder = NoSession

\* An unexpired lock never passes from one session straight to another: it
\* is released or runs out first (quotePreviewRepository.js:1719).
LockIsNotStolen ==
    [][\A d \in Drafts :
         Locked(draft[d]) /\ Locked(draft'[d])
             => draft[d].holder = draft'[d].holder]_draftVars

\* Version numbers name contents: a step that changes what the draft says or
\* the document type moves to a version never used before, and only while one
\* session holds the lock before and after it (quotePreviewRepository.js:3056).
RevisionsAreVersioned ==
    [][\A d \in Drafts :
         \/ /\ draft'[d].content = draft[d].content
            /\ draft'[d].docType = draft[d].docType
         \/ /\ draft'[d].version > draft[d].version
            /\ Locked(draft[d])
            /\ draft'[d].holder = draft[d].holder]_draftVars

=============================================================================
