------------------------------ MODULE XeroSend ------------------------------
(***************************************************************************)
(* Sending a draft to Xero and reconciling a send whose outcome is not     *)
(* known: sendQuotePreviewToXero, reconcileQuotePreviewXeroSend and the    *)
(* scheduled reconcileStaleXeroSendAttempts of                             *)
(* server/quotePreviewRepository.js, over the rows of QuoteDraft.          *)
(*                                                                         *)
(* A send holds the draft's session-level advisory lock from its first     *)
(* statement to its last, so a draft has at most one send call past that   *)
(* lock and every transaction of an editor waits for it.  A reconciliation *)
(* holds the advisory lock only in its first transaction; its lookup and   *)
(* its two updates run with no lock at all.                                *)
(***************************************************************************)
EXTENDS QuoteDraft

CONSTANTS
    Job,                 \* the session id a scheduled reconciliation makes up
    NoDoc,               \* no Xero document
    Number,              \* [Drafts -> document numbers]
    Need,                \* [Drafts -> annual hours the draft's lines are covered by]
    Allowance,           \* max_hours of the annual usage row the drafts share
    JobRuns,             \* whether the reconciliation job is scheduled
    TypeOverride,        \* whether callers send a documentType of their own
    LateDelivery,        \* whether Xero may still get a request given up on
    MaxSends,            \* bound: sends the editors ask for, per draft
    MaxSendCrashes,      \* bound: send calls that die half-way
    MaxReconcileCrashes  \* bound: reconciliations that die half-way

ASSUME JobAssumption == Job \in Sessions
ASSUME SomeAssumption == Drafts # {} /\ DocTypes # {}
ASSUME NumberAssumption == Drafts = DOMAIN Number
ASSUME NeedAssumption == Need \in [Drafts -> Nat] /\ Allowance \in Nat
ASSUME FlagAssumption == {JobRuns, TypeOverride, LateDelivery} \subseteq BOOLEAN
ASSUME BoundAssumption == {MaxSends, MaxSendCrashes, MaxReconcileCrashes} \subseteq Nat

VARIABLES
    attempt,     \* [Drafts -> [DocTypes -> xero_send_attempts row]]
    sender,      \* [Drafts -> the send call past the draft's advisory lock]
    recon,       \* [Sessions -> the reconciliation call of that session]
    wire,        \* requests on their way to Xero
    docs,        \* documents Xero holds
    ledger,      \* [Drafts -> xero_quotes row of the draft, or NoEntry]
    used,        \* used_hours of the annual usage row
    doubt,       \* history: a request went out and nobody asked about it since
    sends, sendCrashes, reconcileCrashes   \* what the bounds count

callVars == <<attempt, sender, recon>>
xeroVars == <<wire, docs>>
bookVars == <<ledger, used>>
boundVars == <<sends, sendCrashes, reconcileCrashes>>
sendVars == <<attempt, sender, recon, wire, docs, ledger, used, doubt,
              sends, sendCrashes, reconcileCrashes>>
vars == <<draft, logout, sendVars>>

Users == Sessions \ {Job}

-----------------------------------------------------------------------------
(* Rows, calls and documents. *)

AttemptRow ==
    [ state : {"none", "sending", "unknown", "failed", "succeeded"},
      stale : BOOLEAN ]    \* last_attempt_at is more than ten minutes ago

NoAttempt == [state |-> "none", stale |-> FALSE]

\* The idempotency key of a request is the draft and the document type.
Doc == [draft : Drafts, type : DocTypes, content : Nat]

ASSUME NoDocAssumption == NoDoc \notin Doc

\* No send call holds the advisory lock.
NoSend ==
    [ pc |-> "idle", session |-> NoSession, version |-> 0, content |-> 0,
      type |-> NoType, reply |-> "none", mode |-> "none", doc |-> NoDoc ]

\* A send call: before the request (posting), waiting for Xero (waiting, with
\* the reply once there is one), back with a transport (returned), and in the
\* catch block (undoing the attempt, then the draft).
Sender ==
    [ pc      : {"posting", "waiting", "returned", "undoAttempt", "undoDraft"},
      session : Sessions,
      version : Nat,
      content : Nat,
      type    : DocTypes,
      reply   : {"none", "accepted", "rejected"},
      mode    : {"none", "live", "prepared"},
      doc     : Doc \cup {NoDoc} ]

\* A reconciliation: the job's picked and claimed, then past its transaction
\* (lookup), with the answer of Xero (settleAttempt, settleDraft), about to
\* finalise a found document (resend); the job's waits for that send
\* (resending) and gives its lock back (release).
Recon ==
    [ pc       : {"idle", "picked", "claimed", "lookup", "settleAttempt",
                  "settleDraft", "resend", "resending", "release"},
      draft    : Drafts,
      version  : Nat,
      type     : DocTypes \cup {NoType},   \* of the active attempt
      lookType : DocTypes,                 \* of the draft
      found    : Doc \cup {NoDoc} ]

\* What the fields of an idle reconciliation hold.
SomeDraft == CHOOSE d \in Drafts : TRUE
SomeType == CHOOSE t \in DocTypes : TRUE

NoRecon ==
    [ pc |-> "idle", draft |-> SomeDraft, version |-> 0, type |-> NoType,
      lookType |-> SomeType, found |-> NoDoc ]

LedgerEntry == [type : DocTypes, content : Nat, doc : Doc \cup {NoDoc}]

NoEntry == [type |-> NoType, content |-> 0, doc |-> NoDoc]

\* A send call of the draft is between its first statement and its last ...
Sending(d) == sender[d].pc # "idle"

\* Mutation of AdvisoryFree: transactions that do not take the advisory lock.
NoAdvisoryLock(d) == TRUE

\* ... and holds the session-level advisory lock on it.
AdvisoryFree(d) == ~Sending(d)

Unresolved(row) == row.sendState \in {"sending", "unknown"}

SetAttempt(d, type, state) ==
    attempt' = [attempt EXCEPT ![d][type] = [state |-> state, stale |-> FALSE]]

SetSend(d, send) == sender' = [sender EXCEPT ![d] = send]

SetRecon(r, call) == recon' = [recon EXCEPT ![r] = call]

\* A request given up on: Xero may get it later, or never.
WireWithout(d) ==
    IF LateDelivery THEN wire ELSE { m \in wire : m.draft # d }

-----------------------------------------------------------------------------
(* The editors, past the advisory lock they share with a send. *)

SendInit ==
    /\ draft \in [Drafts -> { NewDraft(s, t) : s \in Users, t \in DocTypes }]
    /\ logout = [s \in Sessions |-> NotLeaving]
    /\ attempt = [d \in Drafts |-> [t \in DocTypes |-> NoAttempt]]
    /\ sender = [d \in Drafts |-> NoSend]
    /\ recon = [r \in Sessions |-> NoRecon]
    /\ wire = {} /\ docs = {}
    /\ ledger = [d \in Drafts |-> NoEntry] /\ used = 0
    /\ doubt = [d \in Drafts |-> FALSE]
    /\ sends = [d \in Drafts |-> 0] /\ sendCrashes = 0 /\ reconcileCrashes = 0

EditorActs(d, s) ==
    /\ AdvisoryFree(d)
    /\ EditorStep(d, s, draft[d].version) \/ AcquireLock(d, s)
    /\ UNCHANGED sendVars

\* Renewing a lock and reading what a logout will release take no lock.
EditorActsUnlocked(s) ==
    /\ LogoutSelects(s) \/ \E d \in Drafts : RenewLock(d, s)
    /\ UNCHANGED sendVars

\* A logout takes the advisory locks of the drafts it selected; the rows the
\* session has got since are released too.
EditorLeaves(s) ==
    /\ \A d \in logout[s].drafts : AdvisoryFree(d)
    /\ LogoutReleases(s)
    /\ UNCHANGED sendVars

TimePasses(d) ==
    \/ LockAges(d) /\ UNCHANGED sendVars
    \/ \E type \in DocTypes :
         /\ attempt[d][type].state \in {"sending", "unknown"}
         /\ ~attempt[d][type].stale
         /\ attempt' = [attempt EXCEPT ![d][type].stale = TRUE]
         /\ UNCHANGED <<draftVars, sender, recon, xeroVars, bookVars, doubt, boundVars>>

-----------------------------------------------------------------------------
(* Sending. *)

CanSend(d, s, v) ==
    /\ draft[d].status = "preview"
    /\ ~Unresolved(draft[d])
    /\ MayMutate(draft[d], s, v)
    /\ ledger[d] = NoEntry

\* The first transaction.  A reconciliation brings the document it found; any
\* other call has the request to make.
SendBegins(d, s, v, type, found) ==
    /\ CanSend(d, s, v)
    /\ SetSend(d, [NoSend EXCEPT
                      !.pc = IF found = NoDoc THEN "posting" ELSE "returned",
                      !.session = s, !.version = v, !.type = type,
                      !.content = draft[d].content,
                      !.mode = IF found = NoDoc THEN "none" ELSE "live",
                      !.doc = found])
    /\ SetAttempt(d, type, "sending")
    /\ Put(d, [draft[d] EXCEPT !.sendState = "sending", !.attempt = type])

\* The caller's documentType wins over the draft's.
UserSends(d, s, type) ==
    /\ sends[d] < MaxSends
    /\ AdvisoryFree(d)
    /\ type = draft[d].docType \/ TypeOverride
    /\ SendBegins(d, s, draft[d].version, type, NoDoc)
    /\ sends' = [sends EXCEPT ![d] = @ + 1]
    /\ UNCHANGED <<logout, recon, xeroVars, bookVars, doubt, sendCrashes, reconcileCrashes>>

SendPosts(d) ==
    LET send == sender[d] IN
    /\ send.pc = "posting"
    /\ wire' = wire \cup {[draft |-> d, type |-> send.type, content |-> send.content]}
    /\ SetSend(d, [send EXCEPT !.pc = "waiting"])
    /\ doubt' = [doubt EXCEPT ![d] = TRUE]
    /\ UNCHANGED <<draftVars, attempt, recon, docs, bookVars, boundVars>>

\* Xero is not connected: the document is approved locally and never sent.
SendPrepares(d) ==
    /\ sender[d].pc = "posting"
    /\ SetSend(d, [sender[d] EXCEPT !.pc = "returned", !.mode = "prepared"])
    /\ UNCHANGED <<draftVars, attempt, recon, xeroVars, bookVars, doubt, boundVars>>

\* The transaction that records what became of the request, and the exit.
SendEnds(d, state) ==
    /\ SetAttempt(d, sender[d].type, state)
    /\ Put(d, IF draft[d].attempt = sender[d].type
                 THEN [draft[d] EXCEPT !.sendState = state] ELSE draft[d])
    /\ SetSend(d, NoSend)
    /\ UNCHANGED <<logout, recon, docs, bookVars, boundVars>>

\* No usable token (an error of the token endpoint below 500, or of the network).
SendCannotPost(d) ==
    /\ sender[d].pc = "posting"
    /\ \E state \in {"failed", "unknown"} : SendEnds(d, state)
    /\ UNCHANGED <<wire, doubt>>

SendIsAccepted(d) ==
    /\ sender[d].pc = "waiting" /\ sender[d].reply = "accepted"
    /\ SetSend(d, [sender[d] EXCEPT !.pc = "returned", !.mode = "live"])
    /\ doubt' = [doubt EXCEPT ![d] = FALSE]
    /\ UNCHANGED <<draftVars, attempt, recon, xeroVars, bookVars, boundVars>>

SendIsRejected(d) ==
    /\ sender[d].pc = "waiting" /\ sender[d].reply = "rejected"
    /\ SendEnds(d, "failed")
    /\ doubt' = [doubt EXCEPT ![d] = FALSE]
    /\ UNCHANGED wire

\* Mutation of SendTimesOut: a lost answer is taken for a refusal.
TimeoutMeansRefused(d) ==
    /\ sender[d].pc = "waiting"
    /\ SendEnds(d, "failed")
    /\ wire' = WireWithout(d)
    /\ UNCHANGED doubt

\* Whatever Xero made of the request, its answer does not arrive, or is a 5xx.
SendTimesOut(d) ==
    /\ sender[d].pc = "waiting"
    /\ SendEnds(d, "unknown")
    /\ wire' = WireWithout(d)
    /\ UNCHANGED doubt

\* Mutation of HoursFit: the annual hours are booked whatever their maximum.
HoursAlwaysFit(d) == TRUE

HoursFit(d) == used + Need[d] <= Allowance

\* The expiry of the lock and the send state are not looked at.
CanFinalize(d) ==
    LET row == draft[d] IN
    /\ row.status = "preview"
    /\ row.version = sender[d].version
    /\ ~row.archived
    /\ row.holder = sender[d].session
    /\ HoursFit(d)

\* The last transaction: the draft, its ledger entry and the annual hours.
SendFinalizes(d) ==
    LET send == sender[d] IN
    /\ send.pc = "returned"
    /\ CanFinalize(d)
    /\ used' = used + Need[d]
    /\ SetAttempt(d, send.type, "succeeded")
    /\ ledger' = [ledger EXCEPT ![d] =
                     [type |-> send.type, content |-> send.content, doc |-> send.doc]]
    /\ Put(d, NextVersion([Released(draft[d]) EXCEPT
                 !.status = IF send.mode = "live" THEN "sent_to_xero" ELSE "approved_for_xero",
                 !.docType = send.type,
                 !.sendState = "succeeded"]))
    /\ SetSend(d, NoSend)
    /\ UNCHANGED <<logout, recon, xeroVars, doubt, boundVars>>

\* A refused last transaction is undone by two statements of the catch block.
SendCannotFinalize(d) ==
    /\ sender[d].pc = "returned"
    /\ ~CanFinalize(d)
    /\ SetSend(d, [sender[d] EXCEPT !.pc = "undoAttempt"])
    /\ UNCHANGED <<draftVars, attempt, recon, xeroVars, bookVars, doubt, boundVars>>

\* Mutation of SendUndoesAttempt: a refused last transaction fails the attempt.
UndoFailsAttempt(d) ==
    /\ sender[d].pc = "undoAttempt"
    /\ SetSend(d, [sender[d] EXCEPT !.pc = "undoDraft"])
    /\ attempt' = [attempt EXCEPT ![d][sender[d].type].state =
                      IF @ = "sending" THEN "failed" ELSE @]
    /\ UNCHANGED <<draftVars, recon, xeroVars, bookVars, doubt, boundVars>>

SendUndoesAttempt(d) ==
    /\ sender[d].pc = "undoAttempt"
    /\ SetSend(d, [sender[d] EXCEPT !.pc = "undoDraft"])
    /\ attempt' = [attempt EXCEPT ![d][sender[d].type].state =
                      IF @ = "sending" THEN "unknown" ELSE @]
    /\ UNCHANGED <<draftVars, recon, xeroVars, bookVars, doubt, boundVars>>

SendUndoesDraft(d) ==
    /\ sender[d].pc = "undoDraft"
    /\ SetSend(d, NoSend)
    /\ Put(d, IF draft[d].sendState = "sending" /\ draft[d].attempt = sender[d].type
                 THEN [draft[d] EXCEPT !.sendState = "unknown"] ELSE draft[d])
    /\ UNCHANGED <<logout, attempt, recon, xeroVars, bookVars, doubt, boundVars>>

\* The process or its database connection dies; the advisory lock goes with it.
SendCrashes(d) ==
    /\ sendCrashes < MaxSendCrashes
    /\ Sending(d)
    /\ SetSend(d, NoSend)
    /\ wire' = WireWithout(d)
    /\ sendCrashes' = sendCrashes + 1
    /\ UNCHANGED <<draftVars, attempt, recon, docs, bookVars, doubt, sends, reconcileCrashes>>

-----------------------------------------------------------------------------
(* Xero: one document per idempotency key, no two of a type with one number. *)

\* Mutation of Answered: an answer nobody waits for is taken nevertheless.
AnsweredAnyway(m, reply, doc) ==
    sender' = [sender EXCEPT ![m.draft].reply = reply, ![m.draft].doc = doc]

Answered(m, reply, doc) ==
    sender' = [d \in Drafts |->
                 IF /\ d = m.draft
                    /\ sender[d].pc = "waiting" /\ sender[d].reply = "none"
                    /\ sender[d].type = m.type /\ sender[d].content = m.content
                 THEN [sender[d] EXCEPT !.reply = reply, !.doc = doc]
                 ELSE sender[d]]

SameKey(m) == { x \in docs : x.draft = m.draft /\ x.type = m.type }

NumberTaken(m) ==
    \E x \in docs : x.draft # m.draft /\ x.type = m.type /\ Number[x.draft] = Number[m.draft]

XeroAccepts(m) ==
    /\ SameKey(m) # {} \/ ~NumberTaken(m)
    /\ docs' = IF SameKey(m) = {} THEN docs \cup {m} ELSE docs
    /\ \E doc \in IF SameKey(m) = {} THEN {m} ELSE SameKey(m) :
           Answered(m, "accepted", doc)
    /\ wire' = wire \ {m}
    /\ UNCHANGED <<draftVars, attempt, recon, bookVars, doubt, boundVars>>

XeroRejects(m) ==
    /\ Answered(m, "rejected", NoDoc)
    /\ wire' = wire \ {m}
    /\ UNCHANGED <<draftVars, attempt, recon, docs, bookVars, doubt, boundVars>>

-----------------------------------------------------------------------------
(* Reconciling.  r is the session of the caller; the job is one too. *)

\* Where a call goes when it ends without finalising: the job still has its
\* lock to give back.
Over(r) ==
    IF r = Job THEN [recon[r] EXCEPT !.pc = "release", !.found = NoDoc] ELSE NoRecon

\* Mutation of NeedsReconciling: an attempt left `sending' is never too old.
NeedsAnUnknownAttempt(d, r, v) ==
    LET row == draft[d] IN
    /\ row.status = "preview"
    /\ row.attempt # NoType
    /\ attempt[d][row.attempt].state = "unknown"
    /\ MayMutate([row EXCEPT !.sendState = "failed"], r, v)

NeedsReconciling(d, r, v) ==
    LET row == draft[d] IN
    /\ row.status = "preview"
    /\ row.attempt # NoType
    /\ LET a == attempt[d][row.attempt]
       IN  a.state = "unknown" \/ (a.state = "sending" /\ a.stale)
    /\ MayMutate([row EXCEPT !.sendState = "failed"], r, v)

\* The first transaction, the only one under the advisory lock.
ReconBegins(d, r, v) ==
    /\ AdvisoryFree(d)
    /\ NeedsReconciling(d, r, v)
    /\ SetRecon(r, [pc |-> "lookup", draft |-> d, version |-> v,
                    type |-> draft[d].attempt, lookType |-> draft[d].docType,
                    found |-> NoDoc])
    /\ UNCHANGED <<draftVars, attempt, sender, xeroVars, bookVars, doubt, boundVars>>

UserReconciles(d, r) ==
    /\ recon[r].pc = "idle"
    /\ ReconBegins(d, r, draft[d].version)

\* Xero is asked for the draft's number among the documents of its type.
Matches(call) ==
    { x \in docs : Number[x.draft] = Number[call.draft] /\ x.type = call.lookType }

ReconLooksUp(r) ==
    LET call == recon[r] IN
    /\ call.pc = "lookup"
    /\ \E x \in IF Matches(call) = {} THEN {NoDoc} ELSE Matches(call) :
           SetRecon(r, [call EXCEPT !.pc = "settleAttempt", !.found = x])
    /\ doubt' = [doubt EXCEPT ![call.draft] = @ /\ Sending(call.draft)]
    /\ UNCHANGED <<draftVars, attempt, sender, xeroVars, bookVars, boundVars>>

\* Mutation of ReconCannotLookUp: no connection is taken for no document.
NoAnswerMeansNotFound(r) ==
    /\ recon[r].pc = "lookup"
    /\ SetRecon(r, [recon[r] EXCEPT !.pc = "settleAttempt"])
    /\ UNCHANGED <<draftVars, attempt, sender, xeroVars, bookVars, doubt, boundVars>>

ReconCannotLookUp(r) ==
    /\ recon[r].pc = "lookup"
    /\ SetRecon(r, Over(r))
    /\ UNCHANGED <<draftVars, attempt, sender, xeroVars, bookVars, doubt, boundVars>>

\* Two autocommitted updates, whatever happened to the draft since the lookup.
ReconSettlesAttempt(r) ==
    LET call == recon[r] IN
    /\ call.pc = "settleAttempt"
    /\ attempt' = [attempt EXCEPT ![call.draft][call.type].state =
                      IF @ \in {"unknown", "sending"} THEN "failed" ELSE @]
    /\ SetRecon(r, [call EXCEPT !.pc = "settleDraft"])
    /\ UNCHANGED <<draftVars, sender, xeroVars, bookVars, doubt, boundVars>>

ReconSettlesDraft(r) ==
    LET call == recon[r] IN
    /\ call.pc = "settleDraft"
    /\ Put(call.draft, IF draft[call.draft].attempt = call.type
                         THEN [draft[call.draft] EXCEPT !.sendState = "failed"]
                         ELSE draft[call.draft])
    /\ SetRecon(r, IF call.found = NoDoc THEN Over(r) ELSE [call EXCEPT !.pc = "resend"])
    /\ UNCHANGED <<logout, attempt, sender, xeroVars, bookVars, doubt, boundVars>>

\* sendQuotePreviewToXero with the document found, if the draft may be sent.
ReconResends(r) ==
    LET call == recon[r] IN
    /\ call.pc = "resend"
    /\ AdvisoryFree(call.draft)
    /\ \/ /\ SendBegins(call.draft, r, call.version, call.lookType, call.found)
          /\ SetRecon(r, IF r = Job THEN [call EXCEPT !.pc = "resending"] ELSE NoRecon)
       \/ /\ ~CanSend(call.draft, r, call.version)
          /\ SetRecon(r, Over(r))
          /\ UNCHANGED <<draft, attempt, sender>>
    /\ UNCHANGED <<logout, xeroVars, bookVars, doubt, boundVars>>

\* The caller's process dies; its lock on the draft stays until it expires.
ReconCrashes(r) ==
    /\ reconcileCrashes < MaxReconcileCrashes
    /\ recon[r].pc \notin {"idle", "resending"}
    /\ SetRecon(r, NoRecon)
    /\ reconcileCrashes' = reconcileCrashes + 1
    /\ UNCHANGED <<draftVars, attempt, sender, xeroVars, bookVars, doubt, sends, sendCrashes>>

\* The job picks the drafts with an old unresolved attempt ...
JobPicks(d) ==
    /\ JobRuns
    /\ recon[Job].pc = "idle"
    /\ \E type \in DocTypes :
         attempt[d][type].state \in {"sending", "unknown"} /\ attempt[d][type].stale
    /\ draft[d].status = "preview"
    /\ Unresolved(draft[d])
    /\ SetRecon(Job, [NoRecon EXCEPT !.pc = "picked", !.draft = d,
                                     !.version = draft[d].version])
    /\ UNCHANGED <<draftVars, attempt, sender, xeroVars, bookVars, doubt, boundVars>>

\* ... and takes the lock of each, whoever holds it and whatever is going on.
JobClaims ==
    LET d == recon[Job].draft IN
    /\ recon[Job].pc = "picked"
    /\ Put(d, IF draft[d].status = "preview" /\ Unresolved(draft[d])
                 THEN Granted(draft[d], Job) ELSE draft[d])
    /\ SetRecon(Job, [recon[Job] EXCEPT !.pc = "claimed"])
    /\ UNCHANGED <<logout, attempt, sender, xeroVars, bookVars, doubt, boundVars>>

JobReconciles ==
    LET call == recon[Job] IN
    /\ call.pc = "claimed"
    /\ \/ ReconBegins(call.draft, Job, call.version)
       \/ /\ AdvisoryFree(call.draft)
          /\ ~NeedsReconciling(call.draft, Job, call.version)
          /\ SetRecon(Job, Over(Job))
          /\ UNCHANGED <<draftVars, attempt, sender, xeroVars, bookVars, doubt, boundVars>>

JobIsDone ==
    LET d == recon[Job].draft IN
    /\ \/ recon[Job].pc = "release"
       \/ recon[Job].pc = "resending" /\ sender[d].session # Job
    /\ Put(d, IF draft[d].holder = Job THEN Released(draft[d]) ELSE draft[d])
    /\ SetRecon(Job, NoRecon)
    /\ UNCHANGED <<logout, attempt, sender, xeroVars, bookVars, doubt, boundVars>>

-----------------------------------------------------------------------------

SendStep(d) ==
    \/ SendPosts(d) \/ SendPrepares(d) \/ SendCannotPost(d)
    \/ SendIsAccepted(d) \/ SendIsRejected(d) \/ SendTimesOut(d)
    \/ SendFinalizes(d) \/ SendCannotFinalize(d)
    \/ SendUndoesAttempt(d) \/ SendUndoesDraft(d) \/ SendCrashes(d)

ReconStep(r) ==
    \/ ReconLooksUp(r) \/ ReconCannotLookUp(r)
    \/ ReconSettlesAttempt(r) \/ ReconSettlesDraft(r)
    \/ ReconResends(r) \/ ReconCrashes(r)

JobStep == (\E d \in Drafts : JobPicks(d)) \/ JobClaims \/ JobReconciles \/ JobIsDone

EditorOrClock ==
    \/ \E d \in Drafts, s \in Users : EditorActs(d, s)
    \/ \E s \in Users : EditorActsUnlocked(s) \/ EditorLeaves(s)
    \/ \E d \in Drafts : TimePasses(d)

SendNext ==
    \/ EditorOrClock
    \/ \E d \in Drafts, s \in Users, type \in DocTypes : UserSends(d, s, type)
    \/ \E d \in Drafts : SendStep(d)
    \/ \E m \in wire : XeroAccepts(m) \/ XeroRejects(m)
    \/ \E d \in Drafts, r \in Users : UserReconciles(d, r)
    \/ \E r \in Sessions : ReconStep(r)
    \/ JobStep

SendSpec == SendInit /\ [][SendNext]_vars

\* A running call goes on, and the job keeps being scheduled: Xero answers it
\* sooner or later, and a step of its ten minutes comes before they are over.
SendFairness ==
    /\ \A d \in Drafts :
         /\ WF_vars(SendPosts(d) \/ SendIsAccepted(d) \/ SendIsRejected(d) \/ SendTimesOut(d))
         /\ WF_vars(SendCannotFinalize(d) \/ SendUndoesAttempt(d) \/ SendUndoesDraft(d))
         /\ WF_vars(TimePasses(d) /\ draft[d].ttl = draft'[d].ttl)
         /\ WF_vars(JobPicks(d))
         /\ WF_vars(SendFinalizes(d))
    /\ \A r \in Sessions :
         /\ WF_vars(ReconSettlesAttempt(r) \/ ReconSettlesDraft(r) \/ ReconResends(r))
         /\ SF_vars(ReconLooksUp(r))
    /\ WF_vars(JobClaims \/ JobIsDone)
    /\ SF_vars(\E d \in Drafts : recon[Job].draft = d /\ ReconBegins(d, Job, recon[Job].version))
    /\ WF_vars(JobReconciles)

FairSendSpec == SendSpec /\ SendFairness

-----------------------------------------------------------------------------
(* Properties. *)

SendTypeOK ==
    /\ TypeOK
    /\ attempt \in [Drafts -> [DocTypes -> AttemptRow]]
    /\ sender \in [Drafts -> Sender \cup {NoSend}]
    /\ recon \in [Sessions -> Recon]
    /\ wire \subseteq Doc /\ docs \subseteq Doc
    /\ ledger \in [Drafts -> LedgerEntry \cup {NoEntry}] /\ used \in Nat
    /\ doubt \in [Drafts -> BOOLEAN]
    /\ sends \in [Drafts -> Nat] /\ sendCrashes \in Nat /\ reconcileCrashes \in Nat

\* A reconciliation of the draft is past its transaction.
BeingReconciled(d) ==
    \E r \in Sessions :
        /\ recon[r].draft = d
        /\ recon[r].pc \in {"lookup", "settleAttempt", "settleDraft", "resend"}

\* From its first transaction to its last a send finds the draft it read, even
\* when a reconciliation declares it failed meanwhile: nobody edits, archives
\* or sends it, so the checks at quotePreviewRepository.js:3602 and 3606 that
\* look for such a change never refuse the last transaction.
FrozenWhileSending ==
    \A d \in Drafts : Sending(d) =>
        /\ draft[d].status = "preview" /\ ~draft[d].archived
        /\ draft[d].version = sender[d].version
        /\ draft[d].content = sender[d].content
        /\ ledger[d] = NoEntry

\* A draft has a ledger entry exactly when it left the status in which it can
\* be edited, sent or reconciled (quotePreviewRepository.js:3739).
BilledIsFinal ==
    \A d \in Drafts : ledger[d] # NoEntry <=> draft[d].status # "preview"

\* `Editing is paused until reconciliation confirms whether the remote document
\* exists' (App.jsx:3962): while a request went out and Xero neither answered
\* it nor was asked about it since, the draft stays unresolved.
EditingPausedInDoubt ==
    \A d \in Drafts : doubt[d] /\ ~Sending(d) => Unresolved(draft[d])

\* No two calls reconcile one draft at once: each ends its two updates before
\* another one's transaction.  The code does not see to it: an editor's call and
\* the job's may overlap, and EditingPausedInDoubt holds as long as none do.
Reconciling(r) == recon[r].pc \in {"lookup", "settleAttempt", "settleDraft"}

OneAtATime ==
    \A q, r \in Sessions :
        Reconciling(q) /\ Reconciling(r) /\ recon[q].draft = recon[r].draft => q = r

\* `No matching Xero document was found. The draft is unlocked for a safe
\* retry' (quotePreviewRepository.js:3896): when a reconciliation that found
\* nothing unlocks the draft, the attempt it settles has made no document.
NotFoundMeansNotSent ==
    \A r \in Sessions :
        recon[r].pc \in {"settleAttempt", "settleDraft"} /\ recon[r].found = NoDoc
            => \A x \in docs : ~(x.draft = recon[r].draft /\ x.type = recon[r].type)

\* `Prevent duplicate sends by locking quote previews after Send to Xero'
\* (INVOICE_INTEGRATION_PLAN.md:697): Xero never holds two documents of a draft.
OneDocumentPerDraft ==
    \A x, y \in docs : x.draft = y.draft => x = y

\* `The persisted sending attempt remains available for the monitor to
\* reconcile' (quotePreviewRepository.js:3803): a draft left unresolved has an
\* attempt that a reconciliation accepts, now or when it is ten minutes old.
UnresolvedIsReconcilable ==
    \A d \in Drafts :
        Unresolved(draft[d]) /\ ~Sending(d) /\ ~BeingReconciled(d)
            => /\ draft[d].attempt # NoType
               /\ attempt[d][draft[d].attempt].state \in {"sending", "unknown"}

\* `Multiple unsent drafts may share the same suggested document number; Xero
\* remains authoritative when sending' (CHANGELOG.md:60): a ledger entry names
\* the document made for its own draft.
LedgerNamesOwnDocument ==
    \A d \in Drafts : ledger[d].doc # NoDoc => ledger[d].doc.draft = d

\* The draft's send is recorded, or the draft is given back to its editors.
Resolved(d) == ~Unresolved(draft[d]) /\ ~Sending(d) /\ ~BeingReconciled(d)

\* With the job scheduled a draft stays unresolved only while its hours are used
\* up by other documents, when the send that records the document found is
\* refused each time (quotePreviewRepository.js:2132, 3900).
UnresolvedGetsSettled ==
    \A d \in Drafts :
        Unresolved(draft[d]) ~> Resolved(d) \/ (ledger[d] = NoEntry /\ ~HoursFit(d))

\* `Editing is paused until reconciliation confirms whether the remote document
\* exists' (App.jsx:3962), and the job reconciles every five minutes
\* (OPERATIONS_RUNBOOK.md:35): the pause ends.
PauseEnds == \A d \in Drafts : Unresolved(draft[d]) ~> Resolved(d)

\* Sending as BillingLedger promises it.
Phase(d) ==
    IF ledger[d] # NoEntry THEN "billed"
    ELSE IF Sending(d) THEN "sending"
    ELSE IF Unresolved(draft[d]) THEN "doubtful"
    ELSE "open"

Ledger == INSTANCE BillingLedger WITH
    phase   <- [d \in Drafts |-> Phase(d)],
    content <- [d \in Drafts |-> draft[d].content],
    billed  <- [d \in Drafts |-> IF ledger[d] = NoEntry THEN {} ELSE {ledger[d].content}],
    hours   <- used

\* Every step of the code is a step of the ledger or changes nothing of it
\* (quotePreviewRepository.js:3350-3814).
ImplementsLedger == Ledger!Spec

\* The books kept by the last transaction add up (quotePreviewRepository.js:3616).
BooksBalance ==
    Ledger!Balanced /\ BilledIsFinal

=============================================================================
