---------------------------- MODULE XeroSendProofs ----------------------------
(***************************************************************************)
(* What sending and reconciling guarantee for any number of drafts,        *)
(* editors, document types, sends and crashes, with or without the job:    *)
(* types, frozen drafts, the ledger of BillingLedger, balanced books, and  *)
(* when a reconciliation can be trusted.                                   *)
(***************************************************************************)
EXTENDS XeroSend, DraftClientProofs, SumTheorems

\* The send and reconciliation columns of a row.
LEMMA SendColumnsStayTyped ==
    ASSUME NEW row \in DraftRow
    PROVE  /\ \A state \in SendStates : [row EXCEPT !.sendState = state] \in DraftRow
           /\ \A type \in DocTypes :
                [row EXCEPT !.sendState = "sending", !.attempt = type] \in DraftRow
           /\ \A status \in Statuses, type \in DocTypes :
                [row EXCEPT !.status = status, !.docType = type,
                            !.sendState = "succeeded"] \in DraftRow
<1>1. \A state \in SendStates : [row EXCEPT !.sendState = state] \in DraftRow
    BY Zenon DEF DraftRow
<1>2. "sending" \in SendStates /\ "succeeded" \in SendStates
    BY DEF SendStates
<1>3. \A type \in DocTypes :
        [row EXCEPT !.sendState = "sending", !.attempt = type] \in DraftRow
    BY <1>2, Zenon DEF DraftRow
<1>4. \A status \in Statuses, type \in DocTypes :
        [row EXCEPT !.status = status, !.docType = type,
                    !.sendState = "succeeded"] \in DraftRow
    BY <1>2, Zenon DEF DraftRow
<1>5. QED
    BY <1>1, <1>3, <1>4

\* What a send writes into its own record.
LEMMA SenderStaysTyped ==
    ASSUME NEW send \in Sender
    PROVE  /\ \A pc \in {"waiting", "returned", "undoAttempt", "undoDraft"} :
                [send EXCEPT !.pc = pc] \in Sender
           /\ \A mode \in {"live", "prepared"} :
                [send EXCEPT !.pc = "returned", !.mode = mode] \in Sender
           /\ \A reply \in {"accepted", "rejected"}, doc \in Doc \cup {NoDoc} :
                [send EXCEPT !.reply = reply, !.doc = doc] \in Sender
BY Zenon DEF Sender

LEMMA AttemptStaysTyped ==
    ASSUME attempt \in [Drafts -> [DocTypes -> AttemptRow]],
           NEW d \in Drafts, NEW type,
           NEW state \in {"none", "sending", "unknown", "failed", "succeeded"}
    PROVE  /\ [attempt EXCEPT ![d][type] = [state |-> state, stale |-> FALSE]]
                \in [Drafts -> [DocTypes -> AttemptRow]]
           /\ [attempt EXCEPT ![d][type].state = state]
                \in [Drafts -> [DocTypes -> AttemptRow]]
           /\ [attempt EXCEPT ![d][type].stale = TRUE]
                \in [Drafts -> [DocTypes -> AttemptRow]]
<1>1. [state |-> state, stale |-> FALSE] \in AttemptRow
    BY Zenon DEF AttemptRow
<1>2. ASSUME NEW row \in AttemptRow
      PROVE  [row EXCEPT !.state = state] \in AttemptRow /\ [row EXCEPT !.stale = TRUE] \in AttemptRow
    BY Zenon DEF AttemptRow
<1>3. ASSUME NEW t \in DocTypes
      PROVE  attempt[d][t] \in AttemptRow
    OBVIOUS
<1>4. QED
    BY <1>1, <1>2, <1>3

\* A send past the advisory lock knows its session and its document type.
LEMMA ActiveSender ==
    ASSUME SendTypeOK, NEW d \in Drafts, sender[d].pc # "idle"
    PROVE  sender[d] \in Sender
BY DEF SendTypeOK, NoSend

-----------------------------------------------------------------------------
(* Type correctness. *)

\* What editors and clocks do to the rows they do in QuoteDraft too.
LEMMA EditorsAreDrafts ==
    ASSUME SendTypeOK, NEW d \in Drafts, NEW s \in Users, EditorActs(d, s)
    PROVE  Next
<1>1. s \in Sessions /\ draft[d].version \in Nat \ {0}
    BY DEF Users, SendTypeOK, TypeOK, DraftRow
<1>2. CASE AcquireLock(d, s)
    BY <1>1, <1>2 DEF Next
<1>3. CASE EditorStep(d, s, draft[d].version)
    <2>1. draft[d].version \in 1..MaxVersion
        <3>1. ASSUME NEW v \in Nat \ {0}, EditorStep(d, s, v)
              PROVE  v < MaxVersion
            <4>1. CASE UpdateTimeEntries(d, s, v)
                BY <4>1 DEF UpdateTimeEntries
            <4>2. ASSUME NEW type \in DocTypes, UpdateMetadata(d, s, v, type)
                  PROVE  v < MaxVersion
                BY <4>2 DEF UpdateMetadata
            <4>3. CASE Archive(d, s, v)
                BY <4>3, MaxVersionAssumption DEF Archive
            <4>4. CASE Restore(d, s, v)
                BY <4>4 DEF Restore
            <4>5. QED
                BY <3>1, <4>1, <4>2, <4>3, <4>4 DEF EditorStep
        <3>2. QED
            BY <1>1, <1>3, <3>1, MaxVersionAssumption
    <2>2. QED
        BY <1>1, <1>3, <2>1 DEF Next
<1>4. QED
    BY <1>2, <1>3 DEF EditorActs

LEMMA OthersAreDrafts ==
    /\ \A s \in Users : EditorActsUnlocked(s) => Next
    /\ \A s \in Users : EditorLeaves(s) => Next
    /\ \A d \in Drafts : TimePasses(d) => Next \/ UNCHANGED draftVars
BY DEF Users, EditorActsUnlocked, EditorLeaves, TimePasses, Next, draftVars

LEMMA EditorTypeStep ==
    ASSUME SendTypeOK, EditorOrClock
    PROVE  SendTypeOK'
<1>1. ASSUME Next \/ UNCHANGED draftVars, UNCHANGED sendVars
      PROVE  SendTypeOK'
    <2>1. TypeOK'
        BY <1>1, TypeStep DEF SendTypeOK, TypeOK, draftVars
    <2>2. QED
        BY <1>1, <2>1 DEF SendTypeOK, sendVars
<1>2. ASSUME NEW d \in Drafts, NEW s \in Users, EditorActs(d, s)
      PROVE  SendTypeOK'
    BY <1>1, <1>2, EditorsAreDrafts DEF EditorActs
<1>3. ASSUME NEW s \in Users, EditorActsUnlocked(s) \/ EditorLeaves(s)
      PROVE  SendTypeOK'
    BY <1>1, <1>3, OthersAreDrafts DEF EditorActsUnlocked, EditorLeaves
<1>4. ASSUME NEW d \in Drafts, TimePasses(d)
      PROVE  SendTypeOK'
    <2>1. CASE LockAges(d) /\ UNCHANGED sendVars
        BY <1>1, <2>1 DEF Next
    <2>2. ASSUME NEW type \in DocTypes,
                 attempt' = [attempt EXCEPT ![d][type].stale = TRUE],
                 UNCHANGED <<draftVars, sender, recon, xeroVars, bookVars, doubt, boundVars>>
          PROVE  SendTypeOK'
        <3>1. attempt' \in [Drafts -> [DocTypes -> AttemptRow]]
            BY <2>2, AttemptStaysTyped DEF SendTypeOK
        <3>2. TypeOK'
            BY <2>2 DEF SendTypeOK, TypeOK, draftVars
        <3>3. QED
            BY <2>2, <3>1, <3>2 DEF SendTypeOK, xeroVars, bookVars, boundVars
    <2>3. QED
        BY <1>4, <2>1, <2>2 DEF TimePasses
<1>5. QED
    BY <1>2, <1>3, <1>4 DEF EditorOrClock

LEMMA BeginTypeStep ==
    ASSUME SendTypeOK, NEW d \in Drafts, NEW s \in Sessions, NEW v \in Nat,
           NEW type \in DocTypes, NEW found \in Doc \cup {NoDoc},
           SendBegins(d, s, v, type, found)
    PROVE  /\ draft' \in [Drafts -> DraftRow]
           /\ attempt' \in [Drafts -> [DocTypes -> AttemptRow]]
           /\ sender' \in [Drafts -> Sender \cup {NoSend}]
<1>1. draft' \in [Drafts -> DraftRow]
    BY SendColumnsStayTyped, PutKeepsRows DEF SendBegins, SendTypeOK, TypeOK
<1>2. attempt' \in [Drafts -> [DocTypes -> AttemptRow]]
    BY AttemptStaysTyped DEF SendBegins, SetAttempt, SendTypeOK
<1>3. ASSUME NEW pc \in {"posting", "returned"}, NEW mode \in {"none", "live"}
      PROVE  [NoSend EXCEPT !.pc = pc, !.session = s, !.version = v, !.type = type,
                            !.content = draft[d].content, !.mode = mode, !.doc = found]
                \in Sender
    <2>1. draft[d].content \in Nat
        BY DEF SendTypeOK, TypeOK, DraftRow
    <2>2. QED
        BY <2>1 DEF NoSend, Sender
<1>4. QED
    BY <1>1, <1>2, <1>3 DEF SendBegins, SetSend, SendTypeOK

LEMMA UserSendsTypeStep ==
    ASSUME SendTypeOK, NEW d \in Drafts, NEW s \in Users, NEW type \in DocTypes,
           UserSends(d, s, type)
    PROVE  SendTypeOK'
<1>1. s \in Sessions /\ draft[d].version \in Nat
    BY DEF Users, SendTypeOK, TypeOK, DraftRow
<1>2. /\ draft' \in [Drafts -> DraftRow]
      /\ attempt' \in [Drafts -> [DocTypes -> AttemptRow]]
      /\ sender' \in [Drafts -> Sender \cup {NoSend}]
    BY <1>1, BeginTypeStep DEF UserSends
<1>3. sends' \in [Drafts -> Nat]
    BY DEF UserSends, SendTypeOK
<1>4. QED
    BY <1>2, <1>3 DEF UserSends, SendTypeOK, TypeOK, xeroVars, bookVars

\* A step that only moves the send on.
LEMMA SenderTypeStep ==
    ASSUME SendTypeOK, NEW d \in Drafts, NEW send \in Sender \cup {NoSend},
           SetSend(d, send)
    PROVE  sender' \in [Drafts -> Sender \cup {NoSend}]
BY DEF SendTypeOK, SetSend

\* Leaving the send with a state of the attempt and of the row.
LEMMA EndTypeStep ==
    ASSUME SendTypeOK, NEW d \in Drafts, NEW state \in {"failed", "unknown"},
           sender[d].pc # "idle", SendEnds(d, state)
    PROVE  /\ draft' \in [Drafts -> DraftRow]
           /\ attempt' \in [Drafts -> [DocTypes -> AttemptRow]]
           /\ sender' \in [Drafts -> Sender \cup {NoSend}]
<1>1. draft[d] \in DraftRow /\ state \in SendStates
    BY DEF SendTypeOK, TypeOK, SendStates
<1>2. draft' \in [Drafts -> DraftRow]
    BY <1>1, SendColumnsStayTyped, PutKeepsRows DEF SendEnds, SendTypeOK, TypeOK
<1>3. attempt' \in [Drafts -> [DocTypes -> AttemptRow]]
    BY AttemptStaysTyped DEF SendEnds, SetAttempt, SendTypeOK
<1>4. QED
    BY <1>2, <1>3, SenderTypeStep DEF SendEnds

LEMMA SendStepTypeStep ==
    ASSUME SendTypeOK, NEW d \in Drafts, SendStep(d)
    PROVE  SendTypeOK'
<1>1. /\ sender[d].pc # "idle"
      /\ sender[d] \in Sender
    BY ActiveSender DEF SendStep, SendPosts, SendPrepares, SendCannotPost, SendIsAccepted,
        SendIsRejected, SendTimesOut, SendFinalizes, SendCannotFinalize,
        SendUndoesAttempt, SendUndoesDraft, SendCrashes, Sending
<1>2. CASE SendPosts(d)
    <2>1. [draft |-> d, type |-> sender[d].type, content |-> sender[d].content] \in Doc
        BY <1>1 DEF Sender, Doc
    <2>2. sender' \in [Drafts -> Sender \cup {NoSend}]
        BY <1>1, <1>2, SenderStaysTyped, SenderTypeStep DEF SendPosts
    <2>3. QED
        BY <1>2, <2>1, <2>2 DEF SendPosts, SendTypeOK, TypeOK, draftVars, bookVars, boundVars
<1>3. CASE SendPrepares(d)
    <2>1. sender' \in [Drafts -> Sender \cup {NoSend}]
        BY <1>1, <1>3, SenderStaysTyped, SenderTypeStep DEF SendPrepares
    <2>2. QED
        BY <1>3, <2>1 DEF SendPrepares, SendTypeOK, TypeOK, draftVars, xeroVars, bookVars, boundVars
<1>4. CASE SendCannotPost(d)
    BY <1>1, <1>4, EndTypeStep DEF SendCannotPost, SendEnds, SendTypeOK, TypeOK, bookVars, boundVars
<1>5. CASE SendIsAccepted(d)
    <2>1. sender' \in [Drafts -> Sender \cup {NoSend}]
        BY <1>1, <1>5, SenderStaysTyped, SenderTypeStep DEF SendIsAccepted
    <2>2. QED
        BY <1>5, <2>1 DEF SendIsAccepted, SendTypeOK, TypeOK, draftVars, xeroVars, bookVars, boundVars
<1>6. CASE SendIsRejected(d)
    <2>1. SendEnds(d, "failed")
        BY <1>6 DEF SendIsRejected
    <2>2. QED
        BY <1>1, <1>6, <2>1, EndTypeStep
        DEF SendIsRejected, SendEnds, SendTypeOK, TypeOK, bookVars, boundVars
<1>7. CASE SendTimesOut(d)
    <2>1. SendEnds(d, "unknown")
        BY <1>7 DEF SendTimesOut
    <2>2. wire' \subseteq Doc
        BY <1>7 DEF SendTimesOut, WireWithout, SendTypeOK
    <2>3. QED
        BY <1>1, <1>7, <2>1, <2>2, EndTypeStep
        DEF SendTimesOut, SendEnds, SendTypeOK, TypeOK, bookVars, boundVars
<1>8. CASE SendFinalizes(d)
    <2>1. draft[d] \in DraftRow /\ sender[d].type \in DocTypes /\ sender[d].content \in Nat
          /\ sender[d].doc \in Doc \cup {NoDoc}
        BY <1>1 DEF SendTypeOK, TypeOK, Sender
    <2>2. draft' \in [Drafts -> DraftRow]
        <3> DEFINE status == IF sender[d].mode = "live"
                             THEN "sent_to_xero" ELSE "approved_for_xero"
        <3> DEFINE row == [Released(draft[d]) EXCEPT !.status = status,
                             !.docType = sender[d].type, !.sendState = "succeeded"]
        <3>1. status \in Statuses /\ Released(draft[d]) \in DraftRow
            BY <2>1, RowsStayRows DEF Statuses
        <3>2. row \in DraftRow
            BY <2>1, <3>1, SendColumnsStayTyped
        <3>3. Put(d, NextVersion(row))
            BY <1>8 DEF SendFinalizes
        <3> HIDE DEF row
        <3>4. NextVersion(row) \in DraftRow
            BY <3>2, RowsStayRows
        <3>5. QED
            BY <3>3, <3>4, PutKeepsRows DEF SendTypeOK, TypeOK
    <2>3. attempt' \in [Drafts -> [DocTypes -> AttemptRow]]
        BY <1>8, AttemptStaysTyped DEF SendFinalizes, SetAttempt, SendTypeOK
    <2>4. ledger' \in [Drafts -> LedgerEntry \cup {NoEntry}]
        BY <1>8, <2>1 DEF SendFinalizes, SendTypeOK, LedgerEntry
    <2>5. used' \in Nat
        <3>1. used' = used + Need[d]
            BY <1>8 DEF SendFinalizes
        <3>2. used \in Nat /\ Need[d] \in Nat
            BY NeedAssumption DEF SendTypeOK
        <3>3. QED
            BY <3>1, <3>2
    <2>6. sender' \in [Drafts -> Sender \cup {NoSend}]
        BY <1>8, SenderTypeStep DEF SendFinalizes
    <2>7. QED
        BY <1>8, <2>2, <2>3, <2>4, <2>5, <2>6
        DEF SendFinalizes, SendTypeOK, TypeOK, xeroVars, boundVars
<1>9. CASE SendCannotFinalize(d)
    <2>1. sender' \in [Drafts -> Sender \cup {NoSend}]
        BY <1>1, <1>9, SenderStaysTyped, SenderTypeStep DEF SendCannotFinalize
    <2>2. QED
        BY <1>9, <2>1 DEF SendCannotFinalize, SendTypeOK, TypeOK, draftVars, xeroVars, bookVars, boundVars
<1>10. CASE SendUndoesAttempt(d)
    <2>1. sender' \in [Drafts -> Sender \cup {NoSend}]
        BY <1>1, <1>10, SenderStaysTyped, SenderTypeStep DEF SendUndoesAttempt
    <2>2. attempt[d][sender[d].type].state
            \in {"none", "sending", "unknown", "failed", "succeeded"}
        BY <1>1 DEF SendTypeOK, Sender, AttemptRow
    <2>3. attempt' \in [Drafts -> [DocTypes -> AttemptRow]]
        BY <1>10, <2>2, AttemptStaysTyped DEF SendUndoesAttempt, SendTypeOK
    <2>4. QED
        BY <1>10, <2>1, <2>3 DEF SendUndoesAttempt, SendTypeOK, TypeOK, draftVars, xeroVars, bookVars, boundVars
<1>11. CASE SendUndoesDraft(d)
    <2>1. sender' \in [Drafts -> Sender \cup {NoSend}]
        BY <1>11, SenderTypeStep DEF SendUndoesDraft
    <2>2. draft' \in [Drafts -> DraftRow]
        <3>1. draft[d] \in DraftRow /\ "unknown" \in SendStates
            BY DEF SendTypeOK, TypeOK, SendStates
        <3>2. QED
            BY <1>11, <3>1, SendColumnsStayTyped, PutKeepsRows DEF SendUndoesDraft, SendTypeOK, TypeOK
    <2>3. QED
        BY <1>11, <2>1, <2>2 DEF SendUndoesDraft, SendTypeOK, TypeOK, xeroVars, bookVars, boundVars
<1>12. CASE SendCrashes(d)
    <2>1. sender' \in [Drafts -> Sender \cup {NoSend}]
        BY <1>12, SenderTypeStep DEF SendCrashes
    <2>2. QED
        BY <1>12, <2>1 DEF SendCrashes, WireWithout, SendTypeOK, TypeOK, draftVars, bookVars
<1>13. QED
    BY <1>2, <1>3, <1>4, <1>5, <1>6, <1>7, <1>8, <1>9, <1>10, <1>11, <1>12 DEF SendStep

LEMMA XeroTypeStep ==
    ASSUME SendTypeOK, NEW m \in wire, XeroAccepts(m) \/ XeroRejects(m)
    PROVE  SendTypeOK'
<1>1. m \in Doc
    BY DEF SendTypeOK
<1>2. ASSUME NEW reply \in {"accepted", "rejected"}, NEW doc \in Doc \cup {NoDoc},
             Answered(m, reply, doc)
      PROVE  sender' \in [Drafts -> Sender \cup {NoSend}]
    <2>1. ASSUME NEW d \in Drafts, sender[d].pc = "waiting"
          PROVE  [sender[d] EXCEPT !.reply = reply, !.doc = doc] \in Sender
        BY <2>1, ActiveSender, SenderStaysTyped
    <2>2. QED
        BY <1>2, <2>1 DEF Answered, SendTypeOK
<1>3. CASE XeroAccepts(m)
    <2>1. docs' \subseteq Doc
        BY <1>1, <1>3 DEF XeroAccepts, SendTypeOK
    <2>2. sender' \in [Drafts -> Sender \cup {NoSend}]
        <3>1. PICK doc \in Doc \cup {NoDoc} : Answered(m, "accepted", doc)
            BY <1>1, <1>3 DEF XeroAccepts, SameKey, SendTypeOK
        <3>2. QED
            BY <1>2, <3>1
    <2>3. QED
        BY <1>3, <2>1, <2>2
        DEF XeroAccepts, SendTypeOK, TypeOK, draftVars, bookVars, boundVars
<1>4. CASE XeroRejects(m)
    <2>1. sender' \in [Drafts -> Sender \cup {NoSend}]
        BY <1>2, <1>4 DEF XeroRejects
    <2>2. QED
        BY <1>4, <2>1 DEF XeroRejects, SendTypeOK, TypeOK, draftVars, bookVars, boundVars
<1>5. QED
    BY <1>3, <1>4

\* What a reconciliation writes into its own record.
LEMMA ReconStaysTyped ==
    ASSUME SendTypeOK
    PROVE  /\ NoRecon \in Recon
           /\ \A r \in Sessions : recon[r] \in Recon /\ Over(r) \in Recon
           /\ \A call \in Recon :
                /\ \A x \in Doc \cup {NoDoc} :
                     [call EXCEPT !.pc = "settleAttempt", !.found = x] \in Recon
                /\ \A pc \in {"claimed", "settleDraft", "resend", "resending"} :
                     [call EXCEPT !.pc = pc] \in Recon
           /\ \A d \in Drafts, v \in Nat :
                [NoRecon EXCEPT !.pc = "picked", !.draft = d, !.version = v] \in Recon
<1>1. SomeDraft \in Drafts /\ SomeType \in DocTypes
    BY SomeAssumption DEF SomeDraft, SomeType
<1>2. NoRecon \in Recon
    BY <1>1 DEF NoRecon, Recon
<1>3. \A r \in Sessions : recon[r] \in Recon
    BY DEF SendTypeOK
<1>4. ASSUME NEW call \in Recon
      PROVE  /\ [call EXCEPT !.pc = "release", !.found = NoDoc] \in Recon
             /\ \A x \in Doc \cup {NoDoc} :
                  [call EXCEPT !.pc = "settleAttempt", !.found = x] \in Recon
             /\ \A pc \in {"claimed", "settleDraft", "resend", "resending"} :
                  [call EXCEPT !.pc = pc] \in Recon
    BY Zenon DEF Recon
<1>5. \A d \in Drafts, v \in Nat :
         [NoRecon EXCEPT !.pc = "picked", !.draft = d, !.version = v] \in Recon
    BY <1>2, Zenon DEF Recon
<1>6. QED
    BY <1>2, <1>3, <1>4, <1>5 DEF Over

LEMMA BeginReconTypeStep ==
    ASSUME SendTypeOK, NEW d \in Drafts, NEW r \in Sessions, NEW v \in Nat,
           ReconBegins(d, r, v)
    PROVE  SendTypeOK'
<1>1. draft[d].attempt \in DocTypes \cup {NoType} /\ draft[d].docType \in DocTypes
    BY DEF SendTypeOK, TypeOK, DraftRow
<1>2. [pc |-> "lookup", draft |-> d, version |-> v, type |-> draft[d].attempt,
       lookType |-> draft[d].docType, found |-> NoDoc] \in Recon
    BY <1>1 DEF Recon
<1>3. QED
    BY <1>2 DEF ReconBegins, SetRecon, SendTypeOK, TypeOK, draftVars, xeroVars, bookVars, boundVars

LEMMA ReconStepTypeStep ==
    ASSUME SendTypeOK, NEW r \in Sessions, ReconStep(r)
    PROVE  SendTypeOK'
<1> DEFINE call == recon[r]
<1>1. call \in Recon /\ call.draft \in Drafts /\ call.lookType \in DocTypes
      /\ call.version \in Nat /\ call.found \in Doc \cup {NoDoc}
    BY DEF SendTypeOK, Recon
<1>2. ASSUME NEW c \in Recon, SetRecon(r, c) PROVE recon' \in [Sessions -> Recon]
    BY <1>2 DEF SetRecon, SendTypeOK
<1>3. CASE ReconLooksUp(r)
    <2>1. PICK x \in Doc \cup {NoDoc} :
             SetRecon(r, [call EXCEPT !.pc = "settleAttempt", !.found = x])
        BY <1>3 DEF ReconLooksUp, Matches, SendTypeOK
    <2>2. recon' \in [Sessions -> Recon]
        BY <1>1, <1>2, <2>1, ReconStaysTyped
    <2>3. doubt' \in [Drafts -> BOOLEAN]
        <3>1. (doubt[call.draft] /\ Sending(call.draft)) \in BOOLEAN
            OBVIOUS
        <3>2. QED
            BY <1>1, <1>3, <3>1, Zenon DEF ReconLooksUp, SendTypeOK
    <2>4. QED
        BY <1>3, <2>2, <2>3 DEF ReconLooksUp, SendTypeOK, TypeOK, draftVars, xeroVars, bookVars, boundVars
<1>4. CASE ReconCannotLookUp(r)
    BY <1>2, <1>4, ReconStaysTyped
    DEF ReconCannotLookUp, SendTypeOK, TypeOK, draftVars, xeroVars, bookVars, boundVars
<1>5. CASE ReconSettlesAttempt(r)
    <2>1. recon' \in [Sessions -> Recon]
        BY <1>1, <1>2, <1>5, ReconStaysTyped DEF ReconSettlesAttempt
    <2>2. attempt' \in [Drafts -> [DocTypes -> AttemptRow]]
        <3>1. CASE call.type \in DocTypes
            <4>1. attempt[call.draft][call.type].state
                    \in {"none", "sending", "unknown", "failed", "succeeded"}
                BY <1>1, <3>1 DEF SendTypeOK, AttemptRow
            <4>2. QED
                BY <1>1, <1>5, <4>1, AttemptStaysTyped DEF ReconSettlesAttempt, SendTypeOK
        <3>2. CASE call.type \notin DocTypes
            BY <1>1, <1>5, <3>2 DEF ReconSettlesAttempt, SendTypeOK
        <3>3. QED
            BY <3>1, <3>2
    <2>3. QED
        BY <1>5, <2>1, <2>2 DEF ReconSettlesAttempt, SendTypeOK, TypeOK, draftVars, xeroVars, bookVars, boundVars
<1>6. CASE ReconSettlesDraft(r)
    <2>1. recon' \in [Sessions -> Recon]
        BY <1>1, <1>2, <1>6, ReconStaysTyped DEF ReconSettlesDraft
    <2>2. draft' \in [Drafts -> DraftRow]
        <3>1. draft[call.draft] \in DraftRow /\ "failed" \in SendStates
            BY <1>1 DEF SendTypeOK, TypeOK, SendStates
        <3>2. QED
            BY <1>1, <1>6, <3>1, SendColumnsStayTyped, PutKeepsRows
            DEF ReconSettlesDraft, SendTypeOK, TypeOK
    <2>3. QED
        BY <1>6, <2>1, <2>2 DEF ReconSettlesDraft, SendTypeOK, TypeOK, xeroVars, bookVars, boundVars
<1>7. CASE ReconResends(r)
    <2>1. recon' \in [Sessions -> Recon]
        BY <1>1, <1>2, <1>7, ReconStaysTyped DEF ReconResends
    <2>2. /\ draft' \in [Drafts -> DraftRow]
          /\ attempt' \in [Drafts -> [DocTypes -> AttemptRow]]
          /\ sender' \in [Drafts -> Sender \cup {NoSend}]
        <3>1. CASE SendBegins(call.draft, r, call.version, call.lookType, call.found)
            BY <1>1, <3>1, BeginTypeStep
        <3>2. CASE UNCHANGED <<draft, attempt, sender>>
            BY <3>2 DEF SendTypeOK, TypeOK
        <3>3. QED
            BY <1>7, <3>1, <3>2 DEF ReconResends
    <2>3. QED
        BY <1>7, <2>1, <2>2 DEF ReconResends, SendTypeOK, TypeOK, xeroVars, bookVars, boundVars
<1>8. CASE ReconCrashes(r)
    <2>1. recon' \in [Sessions -> Recon]
        BY <1>2, <1>8, ReconStaysTyped DEF ReconCrashes
    <2>2. QED
        BY <1>8, <2>1 DEF ReconCrashes, SendTypeOK, TypeOK, draftVars, xeroVars, bookVars
<1>9. QED
    BY <1>3, <1>4, <1>5, <1>6, <1>7, <1>8 DEF ReconStep

LEMMA JobTypeStep ==
    ASSUME SendTypeOK, JobStep
    PROVE  SendTypeOK'
<1> DEFINE d == recon[Job].draft
<1>1. /\ Job \in Sessions /\ d \in Drafts /\ recon[Job].version \in Nat
      /\ draft[d] \in DraftRow
    BY JobAssumption DEF SendTypeOK, TypeOK, Recon
<1>2. ASSUME NEW c \in Recon, SetRecon(Job, c) PROVE recon' \in [Sessions -> Recon]
    BY <1>2 DEF SetRecon, SendTypeOK
<1>3. ASSUME NEW e \in Drafts, JobPicks(e) PROVE SendTypeOK'
    <2>1. draft[e].version \in Nat
        BY DEF SendTypeOK, TypeOK, DraftRow
    <2>2. recon' \in [Sessions -> Recon]
        BY <1>2, <1>3, <2>1, ReconStaysTyped DEF JobPicks
    <2>3. QED
        BY <1>3, <2>2 DEF JobPicks, SendTypeOK, TypeOK, draftVars, xeroVars, bookVars, boundVars
<1>4. CASE JobClaims
    <2>1. recon' \in [Sessions -> Recon]
        BY <1>1, <1>2, <1>4, ReconStaysTyped DEF JobClaims
    <2>2. draft' \in [Drafts -> DraftRow]
        BY <1>1, <1>4, RowsStayRows, PutKeepsRows DEF JobClaims, SendTypeOK, TypeOK
    <2>3. QED
        BY <1>4, <2>1, <2>2 DEF JobClaims, SendTypeOK, TypeOK, xeroVars, bookVars, boundVars
<1>5. CASE JobReconciles
    <2>1. CASE ReconBegins(d, Job, recon[Job].version)
        BY <1>1, <2>1, BeginReconTypeStep
    <2>2. CASE /\ SetRecon(Job, Over(Job))
               /\ UNCHANGED <<draftVars, attempt, sender, xeroVars, bookVars, doubt, boundVars>>
        <3>1. recon' \in [Sessions -> Recon]
            BY <1>1, <1>2, <2>2, ReconStaysTyped
        <3>2. QED
            BY <2>2, <3>1 DEF SendTypeOK, TypeOK, draftVars, xeroVars, bookVars, boundVars
    <2>3. QED
        BY <1>5, <2>1, <2>2 DEF JobReconciles
<1>6. CASE JobIsDone
    <2>1. recon' \in [Sessions -> Recon]
        BY <1>2, <1>6, ReconStaysTyped DEF JobIsDone
    <2>2. draft' \in [Drafts -> DraftRow]
        BY <1>1, <1>6, RowsStayRows, PutKeepsRows DEF JobIsDone, SendTypeOK, TypeOK
    <2>3. QED
        BY <1>6, <2>1, <2>2 DEF JobIsDone, SendTypeOK, TypeOK, xeroVars, bookVars, boundVars
<1>7. QED
    BY <1>3, <1>4, <1>5, <1>6 DEF JobStep

\* Type correctness, for every number of editors, drafts, sends and crashes.
THEOREM SendTypeCorrect == SendSpec => []SendTypeOK
<1>1. SendInit => SendTypeOK
    <2> SUFFICES ASSUME SendInit PROVE SendTypeOK
        OBVIOUS
    <2>1. ASSUME NEW s \in Users, NEW type \in DocTypes
          PROVE  NewDraft(s, type) \in DraftRow
        BY LockTtlAssumption DEF NewDraft, DraftRow, Statuses, SendStates, Users
    <2>2. TypeOK
        BY <2>1 DEF SendInit, TypeOK, NotLeaving
    <2>3. NoRecon \in Recon
        BY SomeAssumption DEF NoRecon, Recon, SomeDraft, SomeType
    <2>4. NoAttempt \in AttemptRow
        BY DEF NoAttempt, AttemptRow
    <2>5. QED
        BY <2>2, <2>3, <2>4 DEF SendInit, SendTypeOK
<1>2. SendTypeOK /\ SendNext => SendTypeOK'
    <2> SUFFICES ASSUME SendTypeOK, SendNext PROVE SendTypeOK'
        OBVIOUS
    <2>1. ASSUME NEW d \in Drafts, NEW r \in Users, UserReconciles(d, r)
          PROVE  SendTypeOK'
        <3>1. r \in Sessions /\ draft[d].version \in Nat
            BY DEF Users, SendTypeOK, TypeOK, DraftRow
        <3>2. QED
            BY <2>1, <3>1, BeginReconTypeStep DEF UserReconciles
    <2>2. QED
        BY <2>1, EditorTypeStep, UserSendsTypeStep, SendStepTypeStep, XeroTypeStep,
           ReconStepTypeStep, JobTypeStep DEF SendNext
<1>3. SendTypeOK /\ UNCHANGED vars => SendTypeOK'
    BY DEF SendTypeOK, TypeOK, vars, sendVars
<1>4. QED
    BY <1>1, <1>2, <1>3, PTL DEF SendSpec

-----------------------------------------------------------------------------
(* What a send has read stays as it is. *)

\* The columns no helper of the lock or of the send writes.
Text(row) == <<row.status, row.archived, row.version, row.content>>

\* Nothing of the draft but its lock and send columns changes, nor its ledger
\* entry, nor what a send of it remembers.
Calm(d) ==
    /\ Text(draft'[d]) = Text(draft[d])
    /\ ledger'[d] = ledger[d]
    /\ \/ sender'[d].pc = "idle"
       \/ /\ sender[d].pc # "idle"
          /\ sender'[d].version = sender[d].version
          /\ sender'[d].content = sender[d].content

Frozen(d) ==
    Sending(d) =>
        /\ draft[d].status = "preview" /\ ~draft[d].archived
        /\ draft[d].version = sender[d].version
        /\ draft[d].content = sender[d].content
        /\ ledger[d] = NoEntry

LEMMA CalmKeepsFrozen ==
    ASSUME NEW d \in Drafts, Frozen(d), Calm(d)
    PROVE  Frozen(d)'
BY DEF Frozen, Calm, Text, Sending

\* Granting, giving up or ageing a lock and setting a send column are calm.
LEMMA LockColumnsAreCalm ==
    ASSUME NEW row \in DraftRow
    PROVE  /\ \A s : Text(Granted(row, s)) = Text(row)
           /\ Text(Released(row)) = Text(row)
           /\ \A n : Text([row EXCEPT !.ttl = n]) = Text(row)
           /\ \A state : Text([row EXCEPT !.sendState = state]) = Text(row)
BY DEF DraftRow, Text, Granted, Released

\* A step that puts a calm row in place and leaves the rest alone.
LEMMA CalmPut ==
    ASSUME SendTypeOK, NEW d \in Drafts, NEW row, Put(d, row),
           Text(row) = Text(draft[d])
    PROVE  \A e \in Drafts : Text(draft'[e]) = Text(draft[e])
BY DEF Put, SendTypeOK, TypeOK

\* A step that moves one send on, or ends it.
LEMMA CalmSender ==
    ASSUME SendTypeOK, NEW d \in Drafts, sender[d].pc # "idle", NEW send,
           SetSend(d, send),
           send.pc = "idle" \/ (send.version = sender[d].version /\ send.content = sender[d].content)
    PROVE  \A e \in Drafts :
              \/ sender'[e].pc = "idle"
              \/ /\ sender[e].pc # "idle"
                 /\ sender'[e].version = sender[e].version
                 /\ sender'[e].content = sender[e].content
BY DEF SetSend, SendTypeOK

\* The first transaction of a send reads what it is going to bill.
LEMMA BeginFreezes ==
    ASSUME SendTypeOK, NEW d \in Drafts, NEW s, NEW type, NEW found,
           NEW v, SendBegins(d, s, v, type, found), UNCHANGED ledger,
           FrozenWhileSending
    PROVE  FrozenWhileSending'
<1>1. draft[d] \in DraftRow
    BY DEF SendTypeOK, TypeOK
<1>2. /\ draft[d].status = "preview" /\ ~draft[d].archived
      /\ draft[d].version = v /\ ledger[d] = NoEntry
    BY DEF SendBegins, CanSend, MayMutate
<1>3. Text(draft'[d]) = Text(draft[d]) /\ sender'[d].version = v
      /\ sender'[d].content = draft[d].content
    <2>1. draft'[d] = [draft[d] EXCEPT !.sendState = "sending", !.attempt = type]
        BY DEF SendBegins, Put, SendTypeOK, TypeOK
    <2>2. Text([draft[d] EXCEPT !.sendState = "sending", !.attempt = type]) = Text(draft[d])
        BY <1>1 DEF Text, DraftRow
    <2>3. sender'[d].version = v /\ sender'[d].content = draft[d].content
        BY DEF SendBegins, SetSend, NoSend, SendTypeOK
    <2>4. QED
        BY <2>1, <2>2, <2>3
<1>4. Frozen(d)'
    BY <1>2, <1>3 DEF Frozen, Text
<1>5. ASSUME NEW e \in Drafts \ {d} PROVE Frozen(e)'
    BY DEF SendBegins, Put, SetSend, SendTypeOK, TypeOK, Frozen, FrozenWhileSending, Sending
<1>6. QED
    BY <1>4, <1>5 DEF Frozen, FrozenWhileSending

\* Editors wait for the advisory lock, and what runs without it is calm.
LEMMA EditorsKeepFrozen ==
    ASSUME SendTypeOK, FrozenWhileSending, EditorOrClock
    PROVE  FrozenWhileSending'
<1>1. ASSUME \A d \in Drafts : Text(draft'[d]) = Text(draft[d]),
             UNCHANGED <<ledger, sender>>
      PROVE  FrozenWhileSending'
    BY <1>1, CalmKeepsFrozen DEF FrozenWhileSending, Frozen, Calm
<1>2. ASSUME NEW d \in Drafts, NEW s \in Users, EditorActs(d, s)
      PROVE  FrozenWhileSending'
    <2>1. \A e \in Drafts \ {d} : draft'[e] = draft[e]
        <3>1. PICK row : Put(d, row)
            BY <1>2 DEF EditorActs, EditorStep, AcquireLock, UpdateTimeEntries,
                        UpdateMetadata, Archive, Restore
        <3>2. QED
            BY <3>1 DEF Put, SendTypeOK, TypeOK
    <2>2. QED
        BY <1>2, <2>1 DEF EditorActs, sendVars, FrozenWhileSending, AdvisoryFree, Sending
<1>3. ASSUME NEW s \in Users, EditorActsUnlocked(s) PROVE FrozenWhileSending'
    <2>1. ASSUME NEW d \in Drafts, RenewLock(d, s)
          PROVE  \A e \in Drafts : Text(draft'[e]) = Text(draft[e])
        <3>1. Text(Granted(draft[d], s)) = Text(draft[d])
            BY LockColumnsAreCalm DEF SendTypeOK, TypeOK
        <3>2. QED
            BY <2>1, <3>1, CalmPut DEF RenewLock
    <2>2. \A e \in Drafts : Text(draft'[e]) = Text(draft[e])
        BY <1>3, <2>1 DEF EditorActsUnlocked, LogoutSelects
    <2>3. QED
        BY <1>1, <1>3, <2>2 DEF EditorActsUnlocked, sendVars
<1>4. ASSUME NEW s \in Users, EditorLeaves(s) PROVE FrozenWhileSending'
    <2>1. \A e \in Drafts : Text(draft'[e]) = Text(draft[e])
        BY <1>4, LockColumnsAreCalm DEF EditorLeaves, LogoutReleases, SendTypeOK, TypeOK
    <2>2. QED
        BY <1>1, <1>4, <2>1 DEF EditorLeaves, sendVars
<1>5. ASSUME NEW d \in Drafts, TimePasses(d) PROVE FrozenWhileSending'
    <2>1. \A e \in Drafts : Text(draft'[e]) = Text(draft[e])
        <3>1. CASE LockAges(d)
            <4>1. Text([draft[d] EXCEPT !.ttl = draft[d].ttl - 1]) = Text(draft[d])
                BY LockColumnsAreCalm DEF SendTypeOK, TypeOK
            <4>2. QED
                BY <3>1, <4>1, CalmPut DEF LockAges
        <3>2. CASE UNCHANGED draftVars
            BY <3>2 DEF draftVars
        <3>3. QED
            BY <1>5, <3>1, <3>2 DEF TimePasses
    <2>2. QED
        BY <1>1, <1>5, <2>1 DEF TimePasses, sendVars, bookVars
<1>6. QED
    BY <1>2, <1>3, <1>4, <1>5 DEF EditorOrClock

LEMMA SendStepKeepsFrozen ==
    ASSUME SendTypeOK, FrozenWhileSending, NEW d \in Drafts, SendStep(d)
    PROVE  FrozenWhileSending'
<1>1. /\ sender[d].pc # "idle"
      /\ sender[d] \in Sender
      /\ draft[d] \in DraftRow
    BY ActiveSender DEF SendStep, SendPosts, SendPrepares, SendCannotPost, SendIsAccepted,
        SendIsRejected, SendTimesOut, SendFinalizes, SendCannotFinalize,
        SendUndoesAttempt, SendUndoesDraft, SendCrashes, Sending, SendTypeOK, TypeOK
<1>2. ASSUME \A e \in Drafts : Text(draft'[e]) = Text(draft[e]),
             UNCHANGED ledger,
             NEW send, SetSend(d, send),
             \/ send.pc = "idle"
             \/ send.version = sender[d].version /\ send.content = sender[d].content
      PROVE  FrozenWhileSending'
    <2>1. \A e \in Drafts : Calm(e)
        BY <1>1, <1>2, CalmSender DEF Calm
    <2>2. QED
        BY <2>1, CalmKeepsFrozen DEF FrozenWhileSending, Frozen
<1>3. CASE SendFinalizes(d)
    <2>1. \A e \in Drafts \ {d} : /\ draft'[e] = draft[e] /\ sender'[e] = sender[e]
                                  /\ ledger'[e] = ledger[e]
        BY <1>3 DEF SendFinalizes, Put, SetSend, SendTypeOK, TypeOK
    <2>2. sender'[d].pc = "idle"
        BY <1>3 DEF SendFinalizes, SetSend, NoSend, SendTypeOK
    <2>3. QED
        BY <2>1, <2>2 DEF FrozenWhileSending, Sending
<1>4. ASSUME SendPosts(d) \/ SendPrepares(d) \/ SendIsAccepted(d) \/ SendCannotFinalize(d)
                \/ SendUndoesAttempt(d)
      PROVE  FrozenWhileSending'
    <2>1. PICK pc, mode :
             \/ SetSend(d, [sender[d] EXCEPT !.pc = pc])
             \/ SetSend(d, [sender[d] EXCEPT !.pc = pc, !.mode = mode])
        BY <1>4 DEF SendPosts, SendPrepares, SendIsAccepted, SendCannotFinalize,
                    SendUndoesAttempt
    <2>2. UNCHANGED <<draft, ledger>>
        BY <1>4 DEF SendPosts, SendPrepares, SendIsAccepted, SendCannotFinalize,
                    SendUndoesAttempt, draftVars, bookVars
    <2>3. /\ [sender[d] EXCEPT !.pc = pc].version = sender[d].version
          /\ [sender[d] EXCEPT !.pc = pc].content = sender[d].content
          /\ [sender[d] EXCEPT !.pc = pc, !.mode = mode].version = sender[d].version
          /\ [sender[d] EXCEPT !.pc = pc, !.mode = mode].content = sender[d].content
        BY <1>1 DEF Sender
    <2>4. CASE SetSend(d, [sender[d] EXCEPT !.pc = pc])
        BY <1>2, <2>2, <2>3, <2>4
    <2>5. CASE SetSend(d, [sender[d] EXCEPT !.pc = pc, !.mode = mode])
        BY <1>2, <2>2, <2>3, <2>5
    <2>6. QED
        BY <2>1, <2>4, <2>5
<1>5. ASSUME NEW state, SendEnds(d, state) PROVE FrozenWhileSending'
    <2>1. PICK row : Put(d, row) /\ Text(row) = Text(draft[d])
        BY <1>1, <1>5, LockColumnsAreCalm DEF SendEnds
    <2>2. \A e \in Drafts : Text(draft'[e]) = Text(draft[e])
        BY <2>1, CalmPut
    <2>3. SetSend(d, NoSend) /\ NoSend.pc = "idle" /\ UNCHANGED ledger
        BY <1>5 DEF SendEnds, NoSend, bookVars
    <2>4. QED
        BY <1>2, <2>2, <2>3
<1>6. CASE SendUndoesDraft(d)
    <2>1. PICK row : Put(d, row) /\ Text(row) = Text(draft[d])
        <3>1. Text([draft[d] EXCEPT !.sendState = "unknown"]) = Text(draft[d])
            BY <1>1, LockColumnsAreCalm
        <3>2. \/ Put(d, [draft[d] EXCEPT !.sendState = "unknown"])
              \/ Put(d, draft[d])
            BY <1>6 DEF SendUndoesDraft
        <3>3. QED
            BY <3>1, <3>2
    <2>2. \A e \in Drafts : Text(draft'[e]) = Text(draft[e])
        BY <2>1, CalmPut
    <2>3. SetSend(d, NoSend) /\ NoSend.pc = "idle" /\ UNCHANGED ledger
        BY <1>6 DEF SendUndoesDraft, NoSend, bookVars
    <2>4. QED
        BY <1>2, <2>2, <2>3
<1>7. CASE SendCrashes(d)
    <2>1. SetSend(d, NoSend) /\ NoSend.pc = "idle" /\ UNCHANGED <<draft, ledger>>
        BY <1>7 DEF SendCrashes, NoSend, draftVars, bookVars
    <2>2. QED
        BY <1>2, <2>1
<1>8. QED
    BY <1>3, <1>4, <1>5, <1>6, <1>7
    DEF SendStep, SendCannotPost, SendIsRejected, SendTimesOut

LEMMA XeroKeepsFrozen ==
    ASSUME SendTypeOK, FrozenWhileSending, NEW m \in wire, XeroAccepts(m) \/ XeroRejects(m)
    PROVE  FrozenWhileSending'
<1>1. UNCHANGED <<draft, ledger>>
    BY DEF XeroAccepts, XeroRejects, draftVars, bookVars
<1>2. PICK reply, doc : Answered(m, reply, doc)
    BY DEF XeroAccepts, XeroRejects
<1>3. ASSUME NEW e \in Drafts, sender'[e].pc # "idle"
      PROVE  /\ sender[e].pc # "idle"
             /\ sender'[e].version = sender[e].version
             /\ sender'[e].content = sender[e].content
    <2>1. \/ sender'[e] = sender[e]
          \/ /\ sender[e].pc = "waiting"
             /\ sender'[e] = [sender[e] EXCEPT !.reply = reply, !.doc = doc]
        BY <1>2 DEF Answered
    <2>2. QED
        BY <1>3, <2>1, ActiveSender DEF Sender
<1>4. \A e \in Drafts : Calm(e)
    BY <1>1, <1>3 DEF Calm
<1>5. QED
    BY <1>4, CalmKeepsFrozen DEF FrozenWhileSending, Frozen

LEMMA ReconKeepsFrozen ==
    ASSUME SendTypeOK, FrozenWhileSending, NEW r \in Sessions, ReconStep(r)
    PROVE  FrozenWhileSending'
<1> DEFINE call == recon[r]
<1>1. call.draft \in Drafts /\ draft[call.draft] \in DraftRow
    BY DEF SendTypeOK, TypeOK, Recon
<1>2. ASSUME \A d \in Drafts : Text(draft'[d]) = Text(draft[d]),
             UNCHANGED <<ledger, sender>>
      PROVE  FrozenWhileSending'
    <2>1. \A d \in Drafts : Calm(d)
        BY <1>2 DEF Calm
    <2>2. QED
        BY <2>1, CalmKeepsFrozen DEF FrozenWhileSending, Frozen
<1>3. ASSUME ReconLooksUp(r) \/ ReconCannotLookUp(r) \/ ReconSettlesAttempt(r) \/ ReconCrashes(r)
      PROVE  FrozenWhileSending'
    <2>1. UNCHANGED <<draft, ledger, sender>>
        BY <1>3 DEF ReconLooksUp, ReconCannotLookUp, ReconSettlesAttempt, ReconCrashes,
                    draftVars, bookVars
    <2>2. QED
        BY <1>2, <2>1
<1>4. CASE ReconSettlesDraft(r)
    <2>1. PICK row : Put(call.draft, row) /\ Text(row) = Text(draft[call.draft])
        <3>1. Text([draft[call.draft] EXCEPT !.sendState = "failed"]) = Text(draft[call.draft])
            BY <1>1, LockColumnsAreCalm
        <3>2. \/ Put(call.draft, [draft[call.draft] EXCEPT !.sendState = "failed"])
              \/ Put(call.draft, draft[call.draft])
            BY <1>4 DEF ReconSettlesDraft
        <3>3. QED
            BY <3>1, <3>2
    <2>2. \A d \in Drafts : Text(draft'[d]) = Text(draft[d])
        BY <1>1, <2>1, CalmPut
    <2>3. UNCHANGED <<ledger, sender>>
        BY <1>4 DEF ReconSettlesDraft, bookVars
    <2>4. QED
        BY <1>2, <2>2, <2>3
<1>5. CASE ReconResends(r)
    <2>1. UNCHANGED ledger
        BY <1>5 DEF ReconResends, bookVars
    <2>2. CASE SendBegins(call.draft, r, call.version, call.lookType, call.found)
        BY <1>1, <2>1, <2>2, BeginFreezes
    <2>3. CASE UNCHANGED <<draft, attempt, sender>>
        BY <1>2, <2>1, <2>3
    <2>4. QED
        BY <1>5, <2>2, <2>3 DEF ReconResends
<1>6. QED
    BY <1>3, <1>4, <1>5 DEF ReconStep

LEMMA JobKeepsFrozen ==
    ASSUME SendTypeOK, FrozenWhileSending, JobStep
    PROVE  FrozenWhileSending'
<1> DEFINE d == recon[Job].draft
<1>1. d \in Drafts /\ draft[d] \in DraftRow
    BY JobAssumption DEF SendTypeOK, TypeOK, Recon
<1>2. UNCHANGED <<ledger, sender>>
    BY DEF JobStep, JobPicks, JobClaims, JobReconciles, JobIsDone, ReconBegins, bookVars
<1>3. \A e \in Drafts : Text(draft'[e]) = Text(draft[e])
    <2>1. CASE JobClaims \/ JobIsDone
        <3>1. PICK row : Put(d, row) /\ Text(row) = Text(draft[d])
            <4>1. /\ Text(Granted(draft[d], Job)) = Text(draft[d])
                  /\ Text(Released(draft[d])) = Text(draft[d])
                BY <1>1, LockColumnsAreCalm
            <4>2. \/ Put(d, Granted(draft[d], Job))
                  \/ Put(d, Released(draft[d]))
                  \/ Put(d, draft[d])
                BY <2>1 DEF JobClaims, JobIsDone
            <4>3. QED
                BY <4>1, <4>2
        <3>2. QED
            BY <1>1, <3>1, CalmPut
    <2>2. CASE JobReconciles \/ \E e \in Drafts : JobPicks(e)
        BY <2>2 DEF JobReconciles, JobPicks, ReconBegins, draftVars
    <2>3. QED
        BY <2>1, <2>2 DEF JobStep
<1>4. \A e \in Drafts : Calm(e)
    BY <1>2, <1>3 DEF Calm
<1>5. QED
    BY <1>4, CalmKeepsFrozen DEF FrozenWhileSending, Frozen

\* While a send call is past the draft's advisory lock, nothing it read changes,
\* although reconciliations run without that lock.
THEOREM SendsAreFrozen == SendSpec => []FrozenWhileSending
<1>1. SendInit => FrozenWhileSending
    BY DEF SendInit, FrozenWhileSending, Sending, NoSend
<1>2. SendTypeOK /\ FrozenWhileSending /\ SendNext => FrozenWhileSending'
    <2> SUFFICES ASSUME SendTypeOK, FrozenWhileSending, SendNext
                 PROVE  FrozenWhileSending'
        OBVIOUS
    <2>1. ASSUME NEW d \in Drafts, NEW s \in Users, NEW type \in DocTypes,
                 UserSends(d, s, type)
          PROVE  FrozenWhileSending'
        BY <2>1, BeginFreezes DEF UserSends, bookVars
    <2>2. ASSUME NEW d \in Drafts, NEW r \in Users, UserReconciles(d, r)
          PROVE  FrozenWhileSending'
        BY <2>2 DEF UserReconciles, ReconBegins, draftVars, bookVars,
                    FrozenWhileSending, AdvisoryFree, Sending
    <2>3. QED
        BY <2>1, <2>2, EditorsKeepFrozen, SendStepKeepsFrozen, XeroKeepsFrozen,
           ReconKeepsFrozen, JobKeepsFrozen DEF SendNext
<1>3. FrozenWhileSending /\ UNCHANGED vars => FrozenWhileSending'
    BY DEF FrozenWhileSending, Sending, vars, sendVars
<1>4. QED
    BY <1>1, <1>2, <1>3, SendTypeCorrect, PTL DEF SendSpec

-----------------------------------------------------------------------------
(* What a step may do to what the ledger shows of a draft. *)

\* The columns of the row the ledger looks at.
Columns(row) == <<row.status, row.content, row.sendState>>

\* Nothing.
Still(d) ==
    /\ Columns(draft'[d]) = Columns(draft[d])
    /\ ledger'[d] = ledger[d]
    /\ sender'[d].pc # "idle" <=> sender[d].pc # "idle"

\* The row stays but for its send state.
Stays(d) ==
    /\ draft'[d].status = draft[d].status
    /\ draft'[d].content = draft[d].content
    /\ ledger'[d] = ledger[d]
    /\ used' = used

\* An editor revises it.
Edits(d) ==
    /\ draft[d].status = "preview" /\ SendSettled(draft[d]) /\ sender[d].pc = "idle"
    /\ draft'[d].status = draft[d].status
    /\ draft'[d].content = draft[d].content + 1
    /\ draft'[d].sendState = draft[d].sendState
    /\ ledger'[d] = ledger[d] /\ sender'[d].pc = "idle" /\ used' = used

\* The first transaction of a send.
Begins(d) ==
    /\ sender[d].pc = "idle" /\ ~Unresolved(draft[d]) /\ ledger[d] = NoEntry
    /\ sender'[d].pc # "idle" /\ Stays(d)

\* A send that ends without billing, in whatever state it leaves the draft.
Ends(d) == sender[d].pc # "idle" /\ sender'[d].pc = "idle" /\ Stays(d)

\* A reconciliation declares its send failed.
Settles(d) ==
    /\ draft'[d].sendState = "failed"
    /\ sender'[d].pc # "idle" <=> sender[d].pc # "idle"
    /\ Stays(d)

\* The last transaction of a send.
Bills(d) ==
    /\ sender[d].pc # "idle" /\ sender'[d].pc = "idle"
    /\ draft'[d].status # "preview"
    /\ draft'[d].content = draft[d].content
    /\ ledger'[d].type \in DocTypes /\ ledger'[d].content = sender[d].content
    /\ used' = used + Need[d] /\ used' <= Allowance

\* At most one draft moves.
LedgerStep ==
    \/ used' = used /\ \A d \in Drafts : Still(d)
    \/ \E d \in Drafts :
         /\ Edits(d) \/ Begins(d) \/ Ends(d) \/ Settles(d) \/ Bills(d)
         /\ \A e \in Drafts \ {d} : Still(e)

-----------------------------------------------------------------------------
(* The rows. *)

\* Locks, ages and the archive leave the columns alone.
LEMMA LockColumnsAreStill ==
    ASSUME NEW row \in DraftRow
    PROVE  /\ \A s : Columns(Granted(row, s)) = Columns(row)
           /\ Columns(Released(row)) = Columns(row)
           /\ \A n : Columns([row EXCEPT !.ttl = n]) = Columns(row)
           /\ Columns(NextVersion([Released(row) EXCEPT !.archived = TRUE])) = Columns(row)
           /\ \A s : Columns(NextVersion([Granted(row, s) EXCEPT !.archived = FALSE])) = Columns(row)
BY DEF DraftRow, Columns, Granted, Released, NextVersion

\* A revision counts the content up.
LEMMA RevisionColumns ==
    ASSUME NEW row \in DraftRow, NEW s, NEW type
    PROVE  /\ Columns(Revised(row, s)) = <<row.status, row.content + 1, row.sendState>>
           /\ Columns([Revised(row, s) EXCEPT !.docType = type])
                = <<row.status, row.content + 1, row.sendState>>
BY DEF DraftRow, Columns, Granted, NextVersion, Revised

\* A row with the same columns put in its place.
LEMMA StillPut ==
    ASSUME SendTypeOK, NEW d \in Drafts, NEW row, Put(d, row),
           Columns(row) = Columns(draft[d]), UNCHANGED <<sender, ledger>>
    PROVE  \A e \in Drafts : Still(e)
BY DEF Put, SendTypeOK, TypeOK, Still

\* What editors and clocks do.
LEMMA EditorsStep ==
    ASSUME SendTypeOK, EditorOrClock
    PROVE  LedgerStep
<1>1. \A d \in Drafts : draft[d] \in DraftRow
    BY DEF SendTypeOK, TypeOK
<1>2. used' = used /\ UNCHANGED <<sender, ledger>>
    BY DEF EditorOrClock, EditorActs, EditorActsUnlocked, EditorLeaves, TimePasses,
           sendVars, bookVars
<1>3. SUFFICES ASSUME \A d \in Drafts : ~Edits(d) \/ \E e \in Drafts \ {d} : ~Still(e)
               PROVE  \A d \in Drafts : Still(d)
    BY <1>2 DEF LedgerStep
<1>4. ASSUME NEW d \in Drafts, NEW s \in Users, EditorActs(d, s)
      PROVE  \A e \in Drafts : Still(e)
    <2> DEFINE v == draft[d].version
    <2>1. CASE AcquireLock(d, s)
        BY <1>1, <1>2, <2>1, LockColumnsAreStill, StillPut DEF AcquireLock
    <2>2. CASE Archive(d, s, v)
        BY <1>1, <1>2, <2>2, LockColumnsAreStill, StillPut DEF Archive
    <2>3. CASE Restore(d, s, v)
        BY <1>1, <1>2, <2>3, LockColumnsAreStill, StillPut DEF Restore
    <2>4. ASSUME UpdateTimeEntries(d, s, v) \/ \E type \in DocTypes : UpdateMetadata(d, s, v, type)
          PROVE  FALSE
        <3>1. PICK row : /\ Put(d, row)
                         /\ Columns(row) = <<draft[d].status, draft[d].content + 1, draft[d].sendState>>
            BY <1>1, <2>4, RevisionColumns DEF UpdateTimeEntries, UpdateMetadata
        <3>2. draft'[d] = row /\ \A e \in Drafts \ {d} : draft'[e] = draft[e]
            BY <3>1 DEF Put, SendTypeOK, TypeOK
        <3>3. \A e \in Drafts \ {d} : Still(e)
            BY <1>2, <3>2 DEF Still
        <3>4. Edits(d)
            BY <1>2, <1>4, <2>4, <3>1, <3>2 DEF Edits, Columns, EditorActs, AdvisoryFree, Sending,
               UpdateTimeEntries, UpdateMetadata, MayMutate
        <3>5. QED
            BY <1>3, <3>3, <3>4
    <2>5. QED
        BY <1>4, <2>1, <2>2, <2>3, <2>4 DEF EditorActs, EditorStep
<1>5. ASSUME NEW s \in Users, EditorActsUnlocked(s) PROVE \A e \in Drafts : Still(e)
    <2>1. ASSUME NEW d \in Drafts, RenewLock(d, s) PROVE \A e \in Drafts : Still(e)
        BY <1>1, <1>2, <2>1, LockColumnsAreStill, StillPut DEF RenewLock
    <2>2. CASE LogoutSelects(s)
        BY <1>2, <2>2 DEF LogoutSelects, Still
    <2>3. QED
        BY <1>5, <2>1, <2>2 DEF EditorActsUnlocked
<1>6. ASSUME NEW s \in Users, EditorLeaves(s) PROVE \A e \in Drafts : Still(e)
    <2>1. \A e \in Drafts : Columns(draft'[e]) = Columns(draft[e])
        BY <1>1, <1>6, LockColumnsAreStill DEF EditorLeaves, LogoutReleases
    <2>2. QED
        BY <1>2, <2>1 DEF Still
<1>7. ASSUME NEW d \in Drafts, TimePasses(d) PROVE \A e \in Drafts : Still(e)
    <2>1. CASE LockAges(d)
        BY <1>1, <1>2, <2>1, LockColumnsAreStill, StillPut DEF LockAges
    <2>2. CASE UNCHANGED draftVars
        BY <1>2, <2>2 DEF draftVars, Still
    <2>3. QED
        BY <1>7, <2>1, <2>2 DEF TimePasses
<1>8. QED
    BY <1>4, <1>5, <1>6, <1>7 DEF EditorOrClock

-----------------------------------------------------------------------------
(* Sending. *)

\* A step that puts one row in place and moves or ends one send.
LEMMA OneDraftMoves ==
    ASSUME SendTypeOK, NEW d \in Drafts, NEW row, Put(d, row), NEW send, SetSend(d, send)
    PROVE  /\ draft'[d] = row /\ sender'[d] = send
           /\ UNCHANGED ledger => \A e \in Drafts \ {d} : Still(e)
BY DEF Put, SetSend, SendTypeOK, TypeOK, Still

\* A step that only moves a send on, or changes nothing the ledger looks at.
LEMMA StillSend ==
    ASSUME SendTypeOK, NEW d \in Drafts, NEW send, SetSend(d, send),
           send.pc # "idle" <=> sender[d].pc # "idle", UNCHANGED <<draft, ledger>>
    PROVE  \A e \in Drafts : Still(e)
BY DEF SetSend, SendTypeOK, Still

\* The first transaction of a send, from an editor or a reconciliation.
LEMMA BeginStep ==
    ASSUME SendTypeOK, NEW d \in Drafts, NEW s, NEW type, NEW found, NEW v,
           SendBegins(d, s, v, type, found), AdvisoryFree(d), UNCHANGED <<ledger, used>>
    PROVE  LedgerStep
<1> DEFINE row == [draft[d] EXCEPT !.sendState = "sending", !.attempt = type]
           send == [NoSend EXCEPT
                      !.pc = IF found = NoDoc THEN "posting" ELSE "returned",
                      !.session = s, !.version = v, !.type = type,
                      !.content = draft[d].content,
                      !.mode = IF found = NoDoc THEN "none" ELSE "live",
                      !.doc = found]
<1>1. Put(d, row) /\ SetSend(d, send)
    BY DEF SendBegins
<1>2. send.pc # "idle"
    BY DEF NoSend
<1>3. row.status = draft[d].status /\ row.content = draft[d].content
    BY DEF SendTypeOK, TypeOK, DraftRow
<1> HIDE DEF row, send
<1>4. /\ draft'[d] = row /\ sender'[d] = send
      /\ \A e \in Drafts \ {d} : Still(e)
    BY <1>1, OneDraftMoves
<1>5. Begins(d)
    BY <1>2, <1>3, <1>4 DEF Begins, Stays, SendBegins, CanSend, AdvisoryFree, Sending
<1>6. QED
    BY <1>4, <1>5 DEF LedgerStep

\* A call past the advisory lock moves on, ends or bills.
LEMMA SendStepStep ==
    ASSUME SendTypeOK, NEW d \in Drafts, SendStep(d)
    PROVE  LedgerStep
<1>1. /\ sender[d].pc # "idle"
      /\ sender[d] \in Sender
      /\ draft[d] \in DraftRow
    BY ActiveSender DEF SendStep, SendPosts, SendPrepares, SendCannotPost, SendIsAccepted,
        SendIsRejected, SendTimesOut, SendFinalizes, SendCannotFinalize,
        SendUndoesAttempt, SendUndoesDraft, SendCrashes, Sending, SendTypeOK, TypeOK
<1>2. ASSUME NEW row, Put(d, row), row.status = draft[d].status,
             row.content = draft[d].content, SetSend(d, NoSend), UNCHANGED <<ledger, used>>
      PROVE  LedgerStep
    <2>1. /\ draft'[d] = row /\ sender'[d] = NoSend
          /\ \A e \in Drafts \ {d} : Still(e)
        BY <1>2, OneDraftMoves
    <2>2. Ends(d)
        BY <1>1, <1>2, <2>1 DEF Ends, Stays, NoSend
    <2>3. QED
        BY <2>1, <2>2 DEF LedgerStep
<1>3. \A state : /\ [draft[d] EXCEPT !.sendState = state].status = draft[d].status
                 /\ [draft[d] EXCEPT !.sendState = state].content = draft[d].content
    BY <1>1 DEF DraftRow
<1>4. ASSUME NEW state, SendEnds(d, state) PROVE LedgerStep
    <2>1. PICK row : /\ Put(d, row) /\ row.status = draft[d].status
                     /\ row.content = draft[d].content
        BY <1>3, <1>4 DEF SendEnds
    <2>2. SetSend(d, NoSend) /\ UNCHANGED <<ledger, used>>
        BY <1>4 DEF SendEnds, bookVars
    <2>3. QED
        BY <1>2, <2>1, <2>2
<1>5. CASE SendUndoesDraft(d)
    <2>1. PICK row : /\ Put(d, row) /\ row.status = draft[d].status
                     /\ row.content = draft[d].content
        BY <1>3, <1>5 DEF SendUndoesDraft
    <2>2. SetSend(d, NoSend) /\ UNCHANGED <<ledger, used>>
        BY <1>5 DEF SendUndoesDraft, bookVars
    <2>3. QED
        BY <1>2, <2>1, <2>2
<1>6. CASE SendCrashes(d)
    <2>1. Put(d, draft[d]) /\ SetSend(d, NoSend) /\ UNCHANGED <<ledger, used>>
        BY <1>6 DEF SendCrashes, draftVars, bookVars, Put, SendTypeOK, TypeOK
    <2>2. QED
        BY <1>2, <2>1
<1>7. ASSUME SendPosts(d) \/ SendPrepares(d) \/ SendIsAccepted(d) \/ SendCannotFinalize(d)
                \/ SendUndoesAttempt(d)
      PROVE  LedgerStep
    <2>1. PICK pc \in {"waiting", "returned", "undoAttempt", "undoDraft"}, mode \in {"live", "prepared"} :
             \/ SetSend(d, [sender[d] EXCEPT !.pc = pc])
             \/ SetSend(d, [sender[d] EXCEPT !.pc = pc, !.mode = mode])
        BY <1>7 DEF SendPosts, SendPrepares, SendIsAccepted, SendCannotFinalize,
                    SendUndoesAttempt
    <2>2. UNCHANGED <<draft, ledger, used>>
        BY <1>7 DEF SendPosts, SendPrepares, SendIsAccepted, SendCannotFinalize,
                    SendUndoesAttempt, draftVars, bookVars
    <2>3. /\ [sender[d] EXCEPT !.pc = pc].pc # "idle"
          /\ [sender[d] EXCEPT !.pc = pc, !.mode = mode].pc # "idle"
        BY <1>1 DEF Sender
    <2>4. \A e \in Drafts : Still(e)
        BY <1>1, <2>1, <2>2, <2>3, StillSend
    <2>5. QED
        BY <2>2, <2>4 DEF LedgerStep
<1>8. CASE SendFinalizes(d)
    <2> DEFINE status == IF sender[d].mode = "live" THEN "sent_to_xero" ELSE "approved_for_xero"
               freed == Released(draft[d])
               row == NextVersion([freed EXCEPT !.status = status, !.docType = sender[d].type,
                                                !.sendState = "succeeded"])
    <2>1. Put(d, row) /\ SetSend(d, NoSend)
        BY <1>8 DEF SendFinalizes
    <2>2. row.status = status /\ row.content = draft[d].content
        <3>1. freed \in DraftRow /\ freed.content = draft[d].content
            BY <1>1, RowsStayRows, HelperColumns
        <3> HIDE DEF freed
        <3>2. QED
            BY <3>1 DEF DraftRow, NextVersion
    <2>3. status # "preview"
        OBVIOUS
    <2> HIDE DEF row, status
    <2>4. draft'[d] = row /\ sender'[d] = NoSend
        BY <2>1, OneDraftMoves
    <2>5. /\ ledger'[d].type = sender[d].type /\ ledger'[d].content = sender[d].content
          /\ \A e \in Drafts \ {d} : ledger'[e] = ledger[e]
        BY <1>8 DEF SendFinalizes, SendTypeOK
    <2>6. used' = used + Need[d] /\ used' <= Allowance
        BY <1>8 DEF SendFinalizes, CanFinalize, HoursFit
    <2>7. Bills(d)
        BY <1>1, <2>2, <2>3, <2>4, <2>5, <2>6 DEF Bills, NoSend, Sender
    <2>8. \A e \in Drafts \ {d} : Still(e)
        BY <2>1, <2>5 DEF Put, SetSend, SendTypeOK, TypeOK, Still
    <2>9. QED
        BY <2>7, <2>8 DEF LedgerStep
<1>9. QED
    BY <1>4, <1>5, <1>6, <1>7, <1>8 DEF SendStep, SendCannotPost, SendIsRejected, SendTimesOut

\* Xero moves nothing but the reply of a waiting call.
LEMMA XeroStep ==
    ASSUME SendTypeOK, NEW m \in wire, XeroAccepts(m) \/ XeroRejects(m)
    PROVE  LedgerStep
<1>1. UNCHANGED <<draft, ledger, used>>
    BY DEF XeroAccepts, XeroRejects, draftVars, bookVars
<1>2. PICK reply, doc : Answered(m, reply, doc)
    BY DEF XeroAccepts, XeroRejects
<1>3. ASSUME NEW e \in Drafts
      PROVE  sender'[e].pc = sender[e].pc
    <2>1. \/ sender'[e] = sender[e]
          \/ /\ sender[e].pc = "waiting"
             /\ sender'[e] = [sender[e] EXCEPT !.reply = reply, !.doc = doc]
        BY <1>2 DEF Answered
    <2>2. QED
        BY <2>1, ActiveSender DEF Sender
<1>4. QED
    BY <1>1, <1>3 DEF Still, LedgerStep

-----------------------------------------------------------------------------
(* Reconciling. *)

\* A reconciliation settles a draft, sends it again, or leaves the rows alone.
LEMMA ReconciliationStep ==
    ASSUME SendTypeOK, NEW r \in Sessions, ReconStep(r)
    PROVE  LedgerStep
<1> DEFINE call == recon[r]
           d == call.draft
<1>1. d \in Drafts /\ draft[d] \in DraftRow
    BY DEF SendTypeOK, TypeOK, Recon
<1>2. UNCHANGED <<ledger, used>>
    BY DEF ReconStep, ReconLooksUp, ReconCannotLookUp, ReconSettlesAttempt, ReconSettlesDraft,
           ReconResends, ReconCrashes, bookVars
<1>3. ASSUME UNCHANGED <<draft, sender>> PROVE LedgerStep
    BY <1>2, <1>3 DEF LedgerStep, Still
<1>4. CASE ReconSettlesDraft(r)
    <2>1. CASE Put(d, draft[d])
        <3>1. UNCHANGED draft
            BY <1>1, <2>1 DEF Put, SendTypeOK, TypeOK
        <3>2. QED
            BY <1>3, <1>4, <3>1 DEF ReconSettlesDraft
    <2>2. CASE Put(d, [draft[d] EXCEPT !.sendState = "failed"])
        <3> DEFINE row == [draft[d] EXCEPT !.sendState = "failed"]
        <3>1. /\ row.status = draft[d].status /\ row.content = draft[d].content
              /\ row.sendState = "failed"
            BY <1>1 DEF DraftRow
        <3> HIDE DEF row
        <3>2. /\ draft'[d] = row
              /\ \A e \in Drafts \ {d} : draft'[e] = draft[e]
            BY <1>1, <2>2 DEF Put, SendTypeOK, TypeOK, row
        <3>3. UNCHANGED sender
            BY <1>4 DEF ReconSettlesDraft
        <3>4. Settles(d) /\ \A e \in Drafts \ {d} : Still(e)
            BY <1>2, <3>1, <3>2, <3>3 DEF Settles, Stays, Still
        <3>5. QED
            BY <1>1, <3>4 DEF LedgerStep
    <2>3. QED
        BY <1>4, <2>1, <2>2 DEF ReconSettlesDraft
<1>5. CASE ReconResends(r)
    <2>1. CASE SendBegins(d, r, call.version, call.lookType, call.found)
        BY <1>1, <1>2, <1>5, <2>1, BeginStep DEF ReconResends
    <2>2. CASE UNCHANGED <<draft, attempt, sender>>
        BY <1>3, <2>2
    <2>3. QED
        BY <1>5, <2>1, <2>2 DEF ReconResends
<1>6. ASSUME ReconLooksUp(r) \/ ReconCannotLookUp(r) \/ ReconSettlesAttempt(r) \/ ReconCrashes(r)
      PROVE  LedgerStep
    <2>1. UNCHANGED <<draft, sender>>
        BY <1>6 DEF ReconLooksUp, ReconCannotLookUp, ReconSettlesAttempt, ReconCrashes, draftVars
    <2>2. QED
        BY <1>3, <2>1
<1>7. QED
    BY <1>4, <1>5, <1>6 DEF ReconStep

\* The job takes and gives back locks.
LEMMA JobsStep ==
    ASSUME SendTypeOK, JobStep
    PROVE  LedgerStep
<1> DEFINE d == recon[Job].draft
<1>1. d \in Drafts /\ draft[d] \in DraftRow
    BY JobAssumption DEF SendTypeOK, TypeOK, Recon
<1>2. UNCHANGED <<ledger, used, sender>>
    BY DEF JobStep, JobPicks, JobClaims, JobReconciles, JobIsDone, ReconBegins, bookVars
<1>3. CASE JobClaims \/ JobIsDone
    <2>1. PICK row : Put(d, row) /\ Columns(row) = Columns(draft[d])
        <3>1. /\ Columns(Granted(draft[d], Job)) = Columns(draft[d])
              /\ Columns(Released(draft[d])) = Columns(draft[d])
            BY <1>1, LockColumnsAreStill
        <3>2. \/ Put(d, Granted(draft[d], Job))
              \/ Put(d, Released(draft[d]))
              \/ Put(d, draft[d])
            BY <1>3 DEF JobClaims, JobIsDone
        <3>3. QED
            BY <3>1, <3>2
    <2>2. \A e \in Drafts : Still(e)
        BY <1>1, <1>2, <2>1, StillPut
    <2>3. QED
        BY <1>2, <2>2 DEF LedgerStep
<1>4. CASE JobReconciles \/ \E e \in Drafts : JobPicks(e)
    BY <1>2, <1>4 DEF JobReconciles, JobPicks, ReconBegins, draftVars, LedgerStep, Still
<1>5. QED
    BY <1>3, <1>4 DEF JobStep

\* So every step is one the ledger can look at.
LEMMA SendNextStep ==
    ASSUME SendTypeOK, SendNext
    PROVE  LedgerStep
<1>1. ASSUME NEW d \in Drafts, NEW s \in Users, NEW type \in DocTypes, UserSends(d, s, type)
      PROVE  LedgerStep
    BY <1>1, BeginStep DEF UserSends, bookVars
<1>2. ASSUME NEW d \in Drafts, NEW r \in Users, UserReconciles(d, r)
      PROVE  LedgerStep
    BY <1>2 DEF UserReconciles, ReconBegins, draftVars, bookVars, LedgerStep, Still
<1>3. QED
    BY <1>1, <1>2, EditorsStep, SendStepStep, XeroStep, ReconciliationStep, JobsStep DEF SendNext

-----------------------------------------------------------------------------
(* What is billed stays billed. *)

\* A draft has a ledger entry exactly when its status says so, at all times.
THEOREM BilledDraftsAreFinal == SendSpec => []BilledIsFinal
<1>1. SendInit => BilledIsFinal
    BY DEF SendInit, BilledIsFinal, NewDraft
<1>2. ASSUME SendTypeOK, BilledIsFinal, SendNext PROVE BilledIsFinal'
    <2>1. ASSUME NEW d \in Drafts, Still(d) \/ Stays(d) \/ Edits(d)
          PROVE  draft'[d].status = draft[d].status /\ ledger'[d] = ledger[d]
        BY <2>1 DEF Still, Columns, Stays, Edits
    <2>2. ASSUME NEW d \in Drafts, Bills(d)
          PROVE  draft'[d].status # "preview" /\ ledger'[d] # NoEntry
        BY <2>2, NoTypeAssumption DEF Bills, NoEntry
    <2>3. \A d \in Drafts : Begins(d) \/ Ends(d) \/ Settles(d) => Stays(d)
        BY DEF Begins, Ends, Settles
    <2>4. LedgerStep
        BY <1>2, SendNextStep
    <2>5. ASSUME NEW d \in Drafts
          PROVE  \/ draft'[d].status = draft[d].status /\ ledger'[d] = ledger[d]
                 \/ draft'[d].status # "preview" /\ ledger'[d] # NoEntry
        BY <2>1, <2>2, <2>3, <2>4 DEF LedgerStep
    <2>6. QED
        BY <1>2, <2>5 DEF BilledIsFinal
<1>3. BilledIsFinal /\ UNCHANGED vars => BilledIsFinal'
    BY DEF BilledIsFinal, vars, sendVars
<1>4. QED
    BY <1>1, <1>2, <1>3, SendTypeCorrect, PTL DEF SendSpec

-----------------------------------------------------------------------------
(* The ledger's steps. *)

\* What the ledger shows as billed of a draft.
Billed(d) == IF ledger[d] = NoEntry THEN {} ELSE {ledger[d].content}

\* The ledger shows the same of a draft.
Same(d) ==
    Phase(d)' = Phase(d) /\ draft'[d].content = draft[d].content /\ Billed(d)' = Billed(d)

\* So it does when nothing it looks at moves.
LEMMA StillIsSame ==
    ASSUME NEW d \in Drafts, Still(d)
    PROVE  Same(d)
BY DEF Still, Columns, Same, Phase, Billed, Sending, Unresolved

\* A step in which the ledger shows the same of every draft is a stutter.
LEMMA SameIsStutter ==
    ASSUME \A d \in Drafts : Same(d), used' = used
    PROVE  UNCHANGED Ledger!ledgerVars
BY DEF Same, Billed, Ledger!ledgerVars

\* One that moves a draft between phases before it is billed.
LEMMA MoveIsLedgerStep ==
    ASSUME NEW d \in Drafts, \A e \in Drafts \ {d} : Same(e), used' = used,
           draft'[d].content = draft[d].content, Billed(d)' = Billed(d),
           \/ Phase(d)' = Phase(d)
           \/ Phase(d) = "open" /\ Phase(d)' = "sending"
           \/ Phase(d) = "sending" /\ Phase(d)' \in {"open", "doubtful"}
           \/ Phase(d) = "doubtful" /\ Phase(d)' = "open"
    PROVE  Ledger!Next \/ UNCHANGED Ledger!ledgerVars
<1>1. ASSUME Phase(d)' = Phase(d) PROVE UNCHANGED Ledger!ledgerVars
    BY <1>1, SameIsStutter DEF Same
<1>2. /\ [e \in Drafts |-> Phase(e)]' = [[e \in Drafts |-> Phase(e)] EXCEPT ![d] = Phase(d)']
      /\ [e \in Drafts |-> draft[e].content]' = [e \in Drafts |-> draft[e].content]
      /\ [e \in Drafts |-> Billed(e)]' = [e \in Drafts |-> Billed(e)]
    BY DEF Same
<1>3. ASSUME Phase(d) = "open", Phase(d)' = "sending" PROVE Ledger!Send(d)
    BY <1>2, <1>3 DEF Ledger!Send, Ledger!Move, Billed
<1>4. ASSUME Phase(d) = "sending", Phase(d)' \in {"open", "doubtful"} PROVE Ledger!GiveUp(d)
    BY <1>2, <1>4 DEF Ledger!GiveUp, Ledger!Move, Billed
<1>5. ASSUME Phase(d) = "doubtful", Phase(d)' = "open" PROVE Ledger!Reconcile(d)
    BY <1>2, <1>5 DEF Ledger!Reconcile, Ledger!Move, Billed
<1>6. QED
    BY <1>1, <1>3, <1>4, <1>5 DEF Ledger!Next

\* An edit revises an open draft.
LEMMA EditIsLedgerStep ==
    ASSUME BilledIsFinal, NEW d \in Drafts, Edits(d), \A e \in Drafts \ {d} : Same(e)
    PROVE  Ledger!Next
<1>1. Phase(d) = "open" /\ Phase(d)' = "open" /\ Billed(d)' = Billed(d)
    <2>1. ledger[d] = NoEntry /\ ledger'[d] = NoEntry
        BY DEF Edits, BilledIsFinal
    <2>2. ~Unresolved(draft[d]) /\ ~Unresolved(draft'[d])
        BY DEF Edits, SendSettled, Unresolved
    <2>3. QED
        BY <2>1, <2>2 DEF Edits, Phase, Sending, Billed
<1>2. /\ [e \in Drafts |-> Phase(e)]' = [e \in Drafts |-> Phase(e)]
      /\ [e \in Drafts |-> draft[e].content]'
            = [[e \in Drafts |-> draft[e].content] EXCEPT ![d] = @ + 1]
      /\ [e \in Drafts |-> Billed(e)]' = [e \in Drafts |-> Billed(e)]
      /\ used' = used
    BY <1>1 DEF Same, Edits
<1>3. Ledger!Revise(d)
    BY <1>1, <1>2 DEF Ledger!Revise, Billed
<1>4. QED
    BY <1>3 DEF Ledger!Next

\* The last transaction bills what the send started from.
LEMMA BillIsLedgerStep ==
    ASSUME FrozenWhileSending, NEW d \in Drafts, Bills(d), \A e \in Drafts \ {d} : Same(e)
    PROVE  Ledger!Next
<1>1. /\ ledger[d] = NoEntry /\ ledger'[d] # NoEntry
      /\ ledger'[d].content = draft[d].content
    BY NoTypeAssumption DEF FrozenWhileSending, Sending, Bills, NoEntry
<1>2. /\ Phase(d) = "sending" /\ Phase(d)' = "billed"
      /\ Billed(d)' = Billed(d) \cup {draft[d].content}
    BY <1>1 DEF Bills, Phase, Sending, Billed
<1>3. /\ [e \in Drafts |-> Phase(e)]' = [[e \in Drafts |-> Phase(e)] EXCEPT ![d] = "billed"]
      /\ [e \in Drafts |-> draft[e].content]' = [e \in Drafts |-> draft[e].content]
      /\ [e \in Drafts |-> Billed(e)]'
            = [[e \in Drafts |-> Billed(e)] EXCEPT ![d] = @ \cup {draft[d].content}]
      /\ used' = used + Need[d] /\ used' <= Allowance
    BY <1>2 DEF Same, Bills
<1>4. Ledger!Bill(d)
    BY <1>2, <1>3 DEF Ledger!Bill, Ledger!Move, Billed
<1>5. QED
    BY <1>4 DEF Ledger!Next

\* Every step of sending is a step of the ledger or a stutter.
LEMMA StepsAreLedgerSteps ==
    ASSUME SendTypeOK, FrozenWhileSending, BilledIsFinal, SendNext
    PROVE  Ledger!Next \/ UNCHANGED Ledger!ledgerVars
<1>1. CASE used' = used /\ \A d \in Drafts : Still(d)
    BY <1>1, StillIsSame, SameIsStutter
<1>2. ASSUME NEW d \in Drafts,
             Edits(d) \/ Begins(d) \/ Ends(d) \/ Settles(d) \/ Bills(d),
             \A e \in Drafts \ {d} : Still(e)
      PROVE  Ledger!Next \/ UNCHANGED Ledger!ledgerVars
    <2>1. \A e \in Drafts \ {d} : Same(e)
        BY <1>2, StillIsSame
    <2>2. CASE Edits(d)
        BY <2>1, <2>2, EditIsLedgerStep
    <2>3. CASE Bills(d)
        BY <2>1, <2>3, BillIsLedgerStep
    <2>4. CASE Begins(d) \/ Ends(d) \/ Settles(d)
        <3>1. draft'[d].content = draft[d].content /\ used' = used /\ ledger'[d] = ledger[d]
            BY <2>4 DEF Begins, Ends, Settles, Stays
        <3>2. Billed(d)' = Billed(d)
            BY <3>1 DEF Billed
        <3>3. CASE Begins(d)
            <4>1. Phase(d) = "open" /\ Phase(d)' = "sending"
                BY <3>1, <3>3 DEF Begins, Phase, Sending
            <4>2. QED
                BY <2>1, <3>1, <3>2, <4>1, MoveIsLedgerStep
        <3>4. CASE Ends(d)
            <4>1. Phase(d) = "sending" /\ Phase(d)' \in {"open", "doubtful"}
                BY <3>1, <3>4 DEF Ends, Phase, Sending, FrozenWhileSending
            <4>2. QED
                BY <2>1, <3>1, <3>2, <4>1, MoveIsLedgerStep
        <3>5. CASE Settles(d)
            <4>1. Phase(d)' = Phase(d) \/ (Phase(d) = "doubtful" /\ Phase(d)' = "open")
                BY <3>1, <3>5 DEF Settles, Phase, Sending, Unresolved
            <4>2. QED
                BY <2>1, <3>1, <3>2, <4>1, MoveIsLedgerStep
        <3>6. QED
            BY <2>4, <3>3, <3>4, <3>5
    <2>5. QED
        BY <1>2, <2>2, <2>3, <2>4
<1>3. LedgerStep
    BY SendNextStep
<1>4. QED
    BY <1>1, <1>2, <1>3 DEF LedgerStep

\* Sending keeps the ledger's promise: whatever times out, dies, arrives late or
\* is reconciled, a draft is billed once, for what its send started from, within
\* the prepaid hours, and revised only while no send of it is open or in doubt.
THEOREM SendingImplementsLedger == SendSpec => ImplementsLedger
<1>1. SendInit => Ledger!Init
    <2> SUFFICES ASSUME SendInit PROVE Ledger!Init
        OBVIOUS
    <2>1. \A d \in Drafts : Phase(d) = "open" /\ draft[d].content = 0 /\ ledger[d] = NoEntry
        BY DEF SendInit, Phase, Sending, NoSend, Unresolved, NewDraft
    <2>2. QED
        BY <2>1 DEF SendInit, Ledger!Init
<1>2. SendTypeOK /\ FrozenWhileSending /\ BilledIsFinal /\ [SendNext]_vars
        => [Ledger!Next]_(Ledger!ledgerVars)
    <2>1. ASSUME UNCHANGED vars PROVE UNCHANGED Ledger!ledgerVars
        BY <2>1 DEF vars, sendVars, Ledger!ledgerVars, Phase, Sending, Unresolved
    <2>2. QED
        BY <2>1, StepsAreLedgerSteps
<1>3. QED
    BY <1>1, <1>2, SendTypeCorrect, SendsAreFrozen, BilledDraftsAreFinal, PTL
    DEF SendSpec, ImplementsLedger, Ledger!Spec


-----------------------------------------------------------------------------
(* The books. *)

BilledDrafts == { d \in Drafts : ledger[d] # NoEntry }

\* What is billed is what the draft still says, and the hours booked are those
\* of the billed drafts; these are finitely many, whatever there is to bill.
BooksInv ==
    /\ BilledIsFinal
    /\ \A d \in BilledDrafts : ledger[d].content = draft[d].content
    /\ IsFiniteSet(BilledDrafts)
    /\ used = SumFunctionOnSet(Need, BilledDrafts)
    /\ used <= Allowance

\* The ledger's sum is that of the proofs.
LEMMA LedgerSums ==
    ASSUME NEW S
    PROVE  MapThenSumSet(LAMBDA d : Need[d], S) = SumFunctionOnSet(Need, S)
BY DEF MapThenSumSet, SumFunctionOnSet, FoldFunctionOnSet

\* Nobody but a last transaction touches the books, and it adds one draft.
LEMMA BooksStep ==
    ASSUME SendTypeOK, FrozenWhileSending, BooksInv, LedgerStep
    PROVE  BooksInv'
<1>1. ASSUME NEW d \in Drafts, Still(d) \/ Stays(d) \/ Edits(d)
      PROVE  draft'[d].status = draft[d].status /\ ledger'[d] = ledger[d]
    BY <1>1 DEF Still, Columns, Stays, Edits
<1>2. ASSUME NEW d \in Drafts, Still(d) \/ Stays(d)
      PROVE  draft'[d].content = draft[d].content
    BY <1>2 DEF Still, Columns, Stays
<1>3. ASSUME NEW d \in Drafts, Edits(d) PROVE ledger[d] = NoEntry
    BY <1>3 DEF Edits, BooksInv, BilledIsFinal
<1>4. \A d \in Drafts : Begins(d) \/ Ends(d) \/ Settles(d) => Stays(d)
    BY DEF Begins, Ends, Settles
<1>5. CASE used' = used /\ \A d \in Drafts : Still(d) \/ Stays(d) \/ Edits(d)
    <2>1. BilledDrafts' = BilledDrafts
        BY <1>1, <1>5 DEF BilledDrafts
    <2>2. \A d \in BilledDrafts : ledger'[d] = ledger[d] /\ draft'[d].content = draft[d].content
        BY <1>1, <1>2, <1>3, <1>5 DEF BilledDrafts
    <2>3. BilledIsFinal'
        BY <1>1, <1>5 DEF BooksInv, BilledIsFinal
    <2>4. QED
        BY <1>5, <2>1, <2>2, <2>3 DEF BooksInv
<1>6. ASSUME NEW d \in Drafts, Bills(d), \A e \in Drafts \ {d} : Still(e)
      PROVE  BooksInv'
    <2>1. /\ ledger[d] = NoEntry /\ ledger'[d] # NoEntry /\ ledger'[d].content = draft'[d].content
          /\ draft'[d].status # "preview"
        BY <1>6, NoTypeAssumption DEF Bills, NoEntry, FrozenWhileSending, Sending
    <2>2. BilledDrafts' = BilledDrafts \cup {d} /\ d \notin BilledDrafts
        BY <1>1, <1>6, <2>1 DEF BilledDrafts
    <2>3. IsFiniteSet(BilledDrafts \cup {d})
        BY FS_AddElement DEF BooksInv
    <2>4. SumFunctionOnSet(Need, BilledDrafts \cup {d}) = Need[d] + SumFunctionOnSet(Need, BilledDrafts)
        <3>1. \A e \in BilledDrafts \cup {d} : Need[e] \in Int
            BY NeedAssumption DEF BilledDrafts
        <3>2. QED
            BY <2>2, <3>1, SumAdds DEF BooksInv
    <2>5. used' = used + Need[d] /\ used' <= Allowance /\ used \in Nat /\ Need[d] \in Nat
        BY <1>6, NeedAssumption DEF Bills, SendTypeOK
    <2>6. used' = SumFunctionOnSet(Need, BilledDrafts')
        BY <2>2, <2>4, <2>5 DEF BooksInv
    <2>7. \A e \in BilledDrafts' : ledger'[e].content = draft'[e].content
        BY <1>1, <1>2, <1>6, <2>1, <2>2 DEF BooksInv, BilledDrafts
    <2>8. BilledIsFinal'
        BY <1>1, <1>6, <2>1 DEF BooksInv, BilledIsFinal
    <2>9. QED
        BY <2>2, <2>3, <2>5, <2>6, <2>7, <2>8 DEF BooksInv
<1>7. QED
    BY <1>4, <1>5, <1>6 DEF LedgerStep, Begins, Ends, Settles, Stays, Edits

\* The books add up at all times, however many drafts share the prepaid hours
\* and whatever was sent, lost, repeated or reconciled before.
THEOREM BooksAddUp == SendSpec => []BooksBalance
<1>1. SendInit => BooksInv
    <2> SUFFICES ASSUME SendInit PROVE BooksInv
        OBVIOUS
    <2>1. BilledDrafts = {} /\ used = 0
        BY DEF SendInit, BilledDrafts
    <2>2. IsFiniteSet({}) /\ SumFunctionOnSet(Need, {}) = 0
        BY FS_EmptySet, SumUnfolds
    <2>3. BilledIsFinal
        BY DEF SendInit, BilledIsFinal, NewDraft
    <2>4. QED
        BY <2>1, <2>2, <2>3, NeedAssumption DEF BooksInv
<1>2. SendTypeOK /\ FrozenWhileSending /\ BooksInv /\ [SendNext]_vars => BooksInv'
    <2>1. BooksInv /\ UNCHANGED vars => BooksInv'
        BY DEF BooksInv, BilledDrafts, BilledIsFinal, vars, sendVars
    <2>2. QED
        BY <2>1, BooksStep, SendNextStep
<1>3. BooksInv => BooksBalance
    <2> SUFFICES ASSUME BooksInv PROVE BooksBalance
        OBVIOUS
    <2> DEFINE B == { d \in Drafts : [e \in Drafts |-> Phase(e)][d] = "billed" }
    <2>1. \A d \in Drafts : Phase(d) = "billed" <=> ledger[d] # NoEntry
        BY DEF Phase
    <2>2. B = BilledDrafts
        BY <2>1 DEF BilledDrafts
    <2>3. used = MapThenSumSet(LAMBDA d : Need[d], B)
        BY <2>2, LedgerSums DEF BooksInv
    <2>4. \A d \in Drafts :
             (IF ledger[d] = NoEntry THEN {} ELSE {ledger[d].content})
                = IF Phase(d) = "billed" THEN {draft[d].content} ELSE {}
        BY <2>1 DEF BooksInv, BilledDrafts
    <2>5. Ledger!Balanced
        <3>1. used = Ledger!MapThenSumSet(LAMBDA d : Need[d], B)
            BY <2>3 DEF MapThenSumSet, MapThenFoldSet, Ledger!MapThenSumSet, Ledger!MapThenFoldSet
        <3>2. QED
            BY <2>4, <3>1 DEF Ledger!Balanced, BooksInv
    <2>6. QED
        BY <2>5 DEF BooksBalance, BooksInv
<1>4. QED
    BY <1>1, <1>2, <1>3, SendTypeCorrect, SendsAreFrozen, PTL DEF SendSpec

-----------------------------------------------------------------------------
(* What a reconciliation finds is still so when it acts. *)

\* What editors, clocks and locks may do to a row: nothing to its send, and to
\* what a reconciliation read of it only while the send is settled.
Drifts(old, new) ==
    /\ new.sendState = old.sendState /\ new.attempt = old.attempt
    /\ \/ new.version = old.version /\ new.docType = old.docType
       \/ new.version > old.version /\ (new.docType = old.docType \/ SendSettled(old))
    /\ new.archived => old.archived \/ SendSettled(old)
    /\ new.holder \in {old.holder, NoSession} \/ SendSettled(old) \/ old.archived

\* Each way a row is written does so.
LEMMA HelpersDrift ==
    ASSUME NEW row \in DraftRow
    PROVE  /\ Drifts(row, row)
           /\ \A n : Drifts(row, [row EXCEPT !.ttl = n])
           /\ Drifts(row, Released(row))
           /\ \A s : \/ row.holder = s \/ SendSettled(row)
                     \/ row.archived
                     => Drifts(row, Granted(row, s))
           /\ \A s : row.archived
                     => Drifts(row, NextVersion([Granted(row, s) EXCEPT !.archived = FALSE]))
           /\ SendSettled(row)
                => /\ Drifts(row, NextVersion([Released(row) EXCEPT !.archived = TRUE]))
                   /\ \A s : Drifts(row, Revised(row, s))
                   /\ \A s, type : Drifts(row, [Revised(row, s) EXCEPT !.docType = type])
<1>1. row.version \in Nat
    BY DEF DraftRow
<1>2. Drifts(row, row)
    BY <1>1 DEF Drifts
<1>3. \A n : Drifts(row, [row EXCEPT !.ttl = n])
    BY <1>1 DEF Drifts, DraftRow
<1>4. Drifts(row, Released(row))
    BY <1>1 DEF Drifts, DraftRow, Released
<1>5. ASSUME NEW s, row.holder = s \/ SendSettled(row) \/ row.archived
      PROVE  Drifts(row, Granted(row, s))
    BY <1>1, <1>5 DEF Drifts, DraftRow, Granted
<1>6. ASSUME NEW s, row.archived
      PROVE  Drifts(row, NextVersion([Granted(row, s) EXCEPT !.archived = FALSE]))
    BY <1>1, <1>6 DEF Drifts, DraftRow, Granted, NextVersion
<1>7. ASSUME SendSettled(row)
      PROVE  Drifts(row, NextVersion([Released(row) EXCEPT !.archived = TRUE]))
    BY <1>1, <1>7 DEF Drifts, DraftRow, Released, NextVersion
<1>8. ASSUME SendSettled(row), NEW s
      PROVE  Drifts(row, Revised(row, s))
    BY <1>1, <1>8 DEF Drifts, DraftRow, Granted, NextVersion, Revised
<1>9. ASSUME SendSettled(row), NEW s, NEW type
      PROVE  Drifts(row, [Revised(row, s) EXCEPT !.docType = type])
    BY <1>1, <1>9 DEF Drifts, DraftRow, Granted, NextVersion, Revised
<1>10. QED
    BY <1>2, <1>3, <1>4, <1>5, <1>6, <1>7, <1>8, <1>9

\* One row is put in place, the others stay.
LEMMA PutDrifts ==
    ASSUME SendTypeOK, NEW d \in Drafts, NEW row, Put(d, row), Drifts(draft[d], row)
    PROVE  \A e \in Drafts : Drifts(draft[e], draft'[e])
<1>1. \A e \in Drafts : draft[e] \in DraftRow /\ draft'[e] = IF e = d THEN row ELSE draft[e]
    BY DEF Put, SendTypeOK, TypeOK
<1>2. \A e \in Drafts : Drifts(draft[e], draft[e])
    BY <1>1, HelpersDrift
<1>3. QED
    BY <1>1, <1>2

\* The state of each attempt, whatever its age.
State(rows, d, type) == rows[d][type].state

SameStates ==
    \A d \in Drafts, type \in DocTypes : State(attempt', d, type) = State(attempt, d, type)

\* Editors and clocks.
LEMMA EditorsDrift ==
    ASSUME SendTypeOK, EditorOrClock
    PROVE  /\ \A d \in Drafts : Drifts(draft[d], draft'[d])
           /\ SameStates
           /\ UNCHANGED <<sender, recon, wire, docs, doubt>>
<1>1. \A d \in Drafts : draft[d] \in DraftRow
    BY DEF SendTypeOK, TypeOK
<1>2. UNCHANGED <<sender, recon, wire, docs, doubt>>
    BY DEF EditorOrClock, EditorActs, EditorActsUnlocked, EditorLeaves, TimePasses,
           sendVars, xeroVars
<1>3. ASSUME UNCHANGED draft PROVE \A d \in Drafts : Drifts(draft[d], draft'[d])
    BY <1>1, <1>3, HelpersDrift
<1>4. ASSUME UNCHANGED attempt PROVE SameStates
    BY <1>4 DEF SameStates, State
<1>5. ASSUME NEW d \in Drafts, NEW s \in Users, EditorActs(d, s)
      PROVE  \A e \in Drafts : Drifts(draft[e], draft'[e])
    <2> DEFINE v == draft[d].version
    <2>1. CASE AcquireLock(d, s)
        <3>1. draft[d].holder = s \/ SendSettled(draft[d])
            BY <2>1 DEF AcquireLock, HoldsLock
        <3>2. Put(d, Granted(draft[d], s))
            BY <2>1 DEF AcquireLock
        <3>3. QED
            BY <1>1, <3>1, <3>2, HelpersDrift, PutDrifts
    <2>2. CASE Archive(d, s, v)
        BY <1>1, <2>2, HelpersDrift, PutDrifts DEF Archive, MayMutate
    <2>3. CASE Restore(d, s, v)
        BY <1>1, <2>3, HelpersDrift, PutDrifts DEF Restore
    <2>4. CASE UpdateTimeEntries(d, s, v)
        BY <1>1, <2>4, HelpersDrift, PutDrifts DEF UpdateTimeEntries, MayMutate
    <2>5. ASSUME NEW type \in DocTypes, UpdateMetadata(d, s, v, type)
          PROVE  \A e \in Drafts : Drifts(draft[e], draft'[e])
        BY <1>1, <2>5, HelpersDrift, PutDrifts DEF UpdateMetadata, MayMutate
    <2>6. QED
        BY <1>5, <2>1, <2>2, <2>3, <2>4, <2>5 DEF EditorActs, EditorStep
<1>6. ASSUME NEW s \in Users, EditorActsUnlocked(s)
      PROVE  \A e \in Drafts : Drifts(draft[e], draft'[e])
    <2>1. ASSUME NEW d \in Drafts, RenewLock(d, s)
          PROVE  \A e \in Drafts : Drifts(draft[e], draft'[e])
        BY <1>1, <2>1, HelpersDrift, PutDrifts DEF RenewLock, HoldsLock
    <2>2. QED
        BY <1>3, <1>6, <2>1 DEF EditorActsUnlocked, LogoutSelects
<1>7. ASSUME NEW s \in Users, EditorLeaves(s)
      PROVE  \A e \in Drafts : Drifts(draft[e], draft'[e])
    BY <1>1, <1>7, HelpersDrift DEF EditorLeaves, LogoutReleases
<1>8. ASSUME NEW d \in Drafts, TimePasses(d)
      PROVE  (\A e \in Drafts : Drifts(draft[e], draft'[e])) /\ SameStates
    <2>1. CASE LockAges(d) /\ UNCHANGED sendVars
        BY <1>1, <1>4, <2>1, HelpersDrift, PutDrifts DEF LockAges, sendVars
    <2>2. ASSUME NEW type \in DocTypes, attempt' = [attempt EXCEPT ![d][type].stale = TRUE]
          PROVE  SameStates
        BY <2>2 DEF SameStates, State, SendTypeOK, AttemptRow
    <2>3. QED
        BY <1>3, <1>8, <2>1, <2>2 DEF TimePasses, draftVars
<1>9. EditorOrClock /\ ~(\E d \in Drafts : TimePasses(d)) => SameStates
    BY <1>4 DEF EditorOrClock, EditorActs, EditorActsUnlocked, EditorLeaves, sendVars
<1>10. QED
    BY <1>2, <1>5, <1>6, <1>7, <1>8, <1>9 DEF EditorOrClock

\* Nothing happens to a draft's row, send and attempts.
Untouched(d) == draft'[d] = draft[d] /\ sender'[d] = sender[d] /\ attempt'[d] = attempt[d]

\* The columns a reconciliation has read, and the lock.
Kept(old, new) ==
    /\ new.attempt = old.attempt /\ new.docType = old.docType /\ new.version = old.version
    /\ new.archived = old.archived /\ new.holder = old.holder

\* A send has begun.
Opened(d, v, type, found) ==
    /\ SendSettled(draft[d]) /\ ~draft[d].archived /\ draft[d].version = v
    /\ draft'[d].sendState = "sending" /\ draft'[d].attempt = type
    /\ draft'[d].docType = draft[d].docType /\ draft'[d].version = draft[d].version
    /\ draft'[d].archived = draft[d].archived
    /\ sender'[d].pc = IF found = NoDoc THEN "posting" ELSE "returned"
    /\ sender'[d].type = type /\ sender'[d].reply = "none"
    /\ State(attempt', d, type) = "sending"
    /\ \A t \in DocTypes \ {type} : State(attempt', d, t) = State(attempt, d, t)
    /\ \A e \in Drafts \ {d} : Untouched(e)

\* The first transaction of a send, whoever asks for it.
LEMMA BeginOpens ==
    ASSUME SendTypeOK, NEW d \in Drafts, NEW s, NEW v, NEW type \in DocTypes, NEW found,
           SendBegins(d, s, v, type, found)
    PROVE  Opened(d, v, type, found)
<1> DEFINE row == [draft[d] EXCEPT !.sendState = "sending", !.attempt = type]
           send == [NoSend EXCEPT
                      !.pc = IF found = NoDoc THEN "posting" ELSE "returned",
                      !.session = s, !.version = v, !.type = type,
                      !.content = draft[d].content,
                      !.mode = IF found = NoDoc THEN "none" ELSE "live",
                      !.doc = found]
<1>1. Put(d, row) /\ SetSend(d, send) /\ SetAttempt(d, type, "sending")
    BY DEF SendBegins
<1>2. /\ row.sendState = "sending" /\ row.attempt = type /\ row.docType = draft[d].docType
      /\ row.version = draft[d].version /\ row.archived = draft[d].archived
    BY DEF SendTypeOK, TypeOK, DraftRow
<1>3. /\ send.pc = IF found = NoDoc THEN "posting" ELSE "returned"
      /\ send.type = type /\ send.reply = "none"
    BY DEF NoSend
<1> HIDE DEF row, send
<1>4. /\ draft'[d] = row /\ sender'[d] = send
      /\ \A e \in Drafts \ {d} : draft'[e] = draft[e] /\ sender'[e] = sender[e]
    BY <1>1 DEF Put, SetSend, SendTypeOK, TypeOK
<1>5. /\ State(attempt', d, type) = "sending"
      /\ \A t \in DocTypes \ {type} : State(attempt', d, t) = State(attempt, d, t)
      /\ \A e \in Drafts \ {d} : attempt'[e] = attempt[e]
    BY <1>1 DEF SetAttempt, State, SendTypeOK
<1>6. SendSettled(draft[d]) /\ ~draft[d].archived /\ draft[d].version = v
    BY DEF SendBegins, CanSend, MayMutate
<1>7. QED
    BY <1>2, <1>3, <1>4, <1>5, <1>6 DEF Opened, Untouched

\* A send goes on.
Proceeds(d) ==
    LET send == sender[d] IN
    /\ draft'[d] = draft[d]
    /\ sender'[d].type = send.type /\ sender'[d].content = send.content
    /\ sender'[d].reply = send.reply
    /\ \/ State(attempt', d, send.type) = State(attempt, d, send.type)
       \/ State(attempt, d, send.type) = "sending" /\ State(attempt', d, send.type) = "unknown"
    /\ \/ /\ send.pc = "posting" /\ sender'[d].pc = "waiting" /\ doubt'[d]
          /\ wire' = wire \cup {[draft |-> d, type |-> send.type, content |-> send.content]}
       \/ /\ send.pc = "posting" /\ sender'[d].pc = "returned"
          /\ doubt'[d] = doubt[d] /\ wire' = wire
       \/ /\ send.pc = "waiting" /\ send.reply = "accepted" /\ sender'[d].pc = "returned"
          /\ ~doubt'[d] /\ wire' = wire
       \/ /\ send.pc \in {"returned", "undoAttempt"}
          /\ sender'[d].pc \in {"undoAttempt", "undoDraft"}
          /\ doubt'[d] = doubt[d] /\ wire' = wire

\* A send is over, with what it records.
Leaves(d) ==
    LET send == sender[d] IN
    /\ sender'[d] = NoSend
    /\ \/ wire' = WireWithout(d)
       \/ wire' = wire /\ (send.pc # "waiting" \/ send.reply = "rejected")
    /\ \/ \E state \in {"failed", "unknown"} :
            /\ State(attempt', d, send.type) = state
            /\ IF draft[d].attempt = send.type
                  THEN draft'[d].sendState = state /\ Kept(draft[d], draft'[d])
                  ELSE draft'[d] = draft[d]
            /\ doubt'[d] => doubt[d] /\ (state = "unknown" \/ send.pc = "posting")
       \/ /\ send.pc = "returned"
          /\ State(attempt', d, send.type) = "succeeded" /\ draft'[d].sendState = "succeeded"
          /\ draft'[d].attempt = draft[d].attempt /\ draft'[d].version > draft[d].version
          /\ doubt'[d] = doubt[d]
       \/ /\ send.pc = "undoDraft"
          /\ State(attempt', d, send.type) = State(attempt, d, send.type)
          /\ IF draft[d].sendState = "sending" /\ draft[d].attempt = send.type
                THEN draft'[d].sendState = "unknown" /\ Kept(draft[d], draft'[d])
                ELSE draft'[d] = draft[d]
          /\ doubt'[d] = doubt[d]
       \/ /\ State(attempt', d, send.type) = State(attempt, d, send.type)
          /\ draft'[d] = draft[d] /\ doubt'[d] = doubt[d]

SendMoves(d) ==
    /\ sender[d] \in Sender
    /\ UNCHANGED <<recon, docs>>
    /\ \A e \in Drafts \ {d} : Untouched(e) /\ doubt'[e] = doubt[e]
    /\ \A t \in DocTypes \ {sender[d].type} : State(attempt', d, t) = State(attempt, d, t)
    /\ Proceeds(d) \/ Leaves(d)

\* Each step of a send past its first transaction is one of these.
LEMMA SendStepMoves ==
    ASSUME SendTypeOK, NEW d \in Drafts, SendStep(d)
    PROVE  SendMoves(d)
<1> DEFINE send == sender[d]
           row == draft[d]
           type == send.type
<1>1. send \in Sender /\ row \in DraftRow /\ type \in DocTypes
    <2>1. send \in Sender
        BY ActiveSender DEF SendStep, SendPosts, SendPrepares, SendCannotPost, SendIsAccepted,
            SendIsRejected, SendTimesOut, SendFinalizes, SendCannotFinalize,
            SendUndoesAttempt, SendUndoesDraft, SendCrashes, Sending
    <2>2. QED
        BY <2>1 DEF SendTypeOK, TypeOK, Sender
<1>2. UNCHANGED <<recon, docs>>
    BY DEF SendStep, SendPosts, SendPrepares, SendCannotPost, SendIsAccepted,
       SendIsRejected, SendTimesOut, SendFinalizes, SendCannotFinalize,
       SendUndoesAttempt, SendUndoesDraft, SendCrashes, SendEnds, xeroVars
<1>3. ASSUME NEW new, SetSend(d, new)
      PROVE  sender'[d] = new /\ \A e \in Drafts \ {d} : sender'[e] = sender[e]
    BY <1>3 DEF SetSend, SendTypeOK
<1>4. ASSUME NEW new, Put(d, new)
      PROVE  draft'[d] = new /\ \A e \in Drafts \ {d} : draft'[e] = draft[e]
    BY <1>4 DEF Put, SendTypeOK, TypeOK
<1>5. ASSUME NEW state, SetAttempt(d, type, state)
      PROVE  /\ State(attempt', d, type) = state
             /\ \A t \in DocTypes \ {type} : State(attempt', d, t) = State(attempt, d, t)
             /\ \A e \in Drafts \ {d} : attempt'[e] = attempt[e]
    BY <1>1, <1>5 DEF SetAttempt, State, SendTypeOK
<1>6. ASSUME NEW state PROVE Kept(row, [row EXCEPT !.sendState = state])
                             /\ [row EXCEPT !.sendState = state].sendState = state
    BY <1>1 DEF DraftRow, Kept
<1>7. ASSUME UNCHANGED <<draft, attempt>>
      PROVE  /\ \A e \in Drafts : draft'[e] = draft[e] /\ attempt'[e] = attempt[e]
             /\ \A t \in DocTypes : State(attempt', d, t) = State(attempt, d, t)
    BY <1>7 DEF State
<1>8. ASSUME NEW state \in {"failed", "unknown"}, SendEnds(d, state),
             wire' = WireWithout(d)
             \/ (wire' = wire /\ (send.pc # "waiting" \/ send.reply = "rejected")),
             \A e \in Drafts \ {d} : doubt'[e] = doubt[e],
             doubt'[d] => doubt[d] /\ (state = "unknown" \/ send.pc = "posting")
      PROVE  SendMoves(d)
    <2>1. /\ sender'[d] = NoSend
          /\ \A e \in Drafts \ {d} : sender'[e] = sender[e]
        BY <1>3, <1>8 DEF SendEnds
    <2>2. /\ State(attempt', d, type) = state
          /\ \A t \in DocTypes \ {type} : State(attempt', d, t) = State(attempt, d, t)
          /\ \A e \in Drafts \ {d} : attempt'[e] = attempt[e]
        BY <1>5, <1>8 DEF SendEnds
    <2>3. /\ draft'[d] = IF row.attempt = type THEN [row EXCEPT !.sendState = state] ELSE row
          /\ \A e \in Drafts \ {d} : draft'[e] = draft[e]
        BY <1>4, <1>8 DEF SendEnds
    <2>4. IF row.attempt = type
             THEN draft'[d].sendState = state /\ Kept(row, draft'[d])
             ELSE draft'[d] = row
        BY <1>6, <2>3
    <2>5. QED
        BY <1>1, <1>2, <1>8, <2>1, <2>2, <2>3, <2>4 DEF SendMoves, Leaves, Untouched
<1>9. CASE SendCannotPost(d)
    BY <1>8, <1>9 DEF SendCannotPost
<1>10. CASE SendIsRejected(d)
    <2>1. /\ \A e \in Drafts \ {d} : doubt'[e] = doubt[e]
          /\ ~doubt'[d]
        BY <1>10 DEF SendIsRejected, SendTypeOK
    <2>2. QED
        BY <1>8, <1>10, <2>1 DEF SendIsRejected
<1>11. CASE SendTimesOut(d)
    BY <1>8, <1>11 DEF SendTimesOut
<1>12. CASE SendPosts(d)
    <2> DEFINE new == [send EXCEPT !.pc = "waiting"]
    <2>1. /\ new.pc = "waiting" /\ new.type = type /\ new.content = send.content
          /\ new.reply = send.reply
        BY <1>1 DEF Sender
    <2>2. SetSend(d, new)
        BY <1>12 DEF SendPosts
    <2> HIDE DEF new
    <2>3. sender'[d] = new /\ \A e \in Drafts \ {d} : sender'[e] = sender[e]
        BY <1>3, <2>2
    <2>4. UNCHANGED <<draft, attempt>> /\ send.pc = "posting"
          /\ wire' = wire \cup {[draft |-> d, type |-> send.type, content |-> send.content]}
        BY <1>12 DEF SendPosts, draftVars
    <2>5. doubt'[d] /\ \A e \in Drafts \ {d} : doubt'[e] = doubt[e]
        BY <1>12 DEF SendPosts, SendTypeOK
    <2>6. QED
        BY <1>1, <1>2, <1>7, <2>1, <2>3, <2>4, <2>5 DEF SendMoves, Proceeds, Untouched
<1>13. CASE SendPrepares(d) \/ SendIsAccepted(d)
    <2> DEFINE new(mode) == [send EXCEPT !.pc = "returned", !.mode = mode]
    <2>1. \A mode : /\ new(mode).pc = "returned" /\ new(mode).type = type
                    /\ new(mode).content = send.content /\ new(mode).reply = send.reply
        BY <1>1 DEF Sender
    <2>2. SetSend(d, new("prepared")) \/ SetSend(d, new("live"))
        BY <1>13 DEF SendPrepares, SendIsAccepted
    <2> HIDE DEF new
    <2>3. /\ sender'[d].pc = "returned" /\ sender'[d].type = type
          /\ sender'[d].content = send.content /\ sender'[d].reply = send.reply
          /\ \A e \in Drafts \ {d} : sender'[e] = sender[e]
        BY <1>3, <2>1, <2>2
    <2>4. UNCHANGED <<draft, attempt, wire>>
        BY <1>13 DEF SendPrepares, SendIsAccepted, draftVars, xeroVars
    <2>5. /\ \A e \in Drafts \ {d} : doubt'[e] = doubt[e]
          /\ \/ send.pc = "posting" /\ doubt'[d] = doubt[d]
             \/ send.pc = "waiting" /\ send.reply = "accepted" /\ ~doubt'[d]
        BY <1>13 DEF SendPrepares, SendIsAccepted, SendTypeOK
    <2>6. QED
        BY <1>1, <1>2, <1>7, <2>3, <2>4, <2>5 DEF SendMoves, Proceeds, Untouched
<1>14. CASE SendCannotFinalize(d) \/ SendUndoesAttempt(d)
    <2> DEFINE new(pc) == [send EXCEPT !.pc = pc]
    <2>1. \A pc : /\ new(pc).pc = pc /\ new(pc).type = type
                  /\ new(pc).content = send.content /\ new(pc).reply = send.reply
        BY <1>1 DEF Sender
    <2>2. SetSend(d, new("undoAttempt")) \/ SetSend(d, new("undoDraft"))
        BY <1>14 DEF SendCannotFinalize, SendUndoesAttempt
    <2> HIDE DEF new
    <2>3. /\ sender'[d].pc \in {"undoAttempt", "undoDraft"} /\ sender'[d].type = type
          /\ sender'[d].content = send.content /\ sender'[d].reply = send.reply
          /\ \A e \in Drafts \ {d} : sender'[e] = sender[e]
        BY <1>3, <2>1, <2>2
    <2>4. UNCHANGED <<draft, wire, doubt>> /\ send.pc \in {"returned", "undoAttempt"}
        BY <1>14 DEF SendCannotFinalize, SendUndoesAttempt, draftVars, xeroVars
    <2>5. /\ \/ State(attempt', d, type) = State(attempt, d, type)
             \/ State(attempt, d, type) = "sending" /\ State(attempt', d, type) = "unknown"
          /\ \A t \in DocTypes \ {type} : State(attempt', d, t) = State(attempt, d, t)
          /\ \A e \in Drafts \ {d} : attempt'[e] = attempt[e]
        <3>1. CASE UNCHANGED attempt
            BY <1>1, <3>1 DEF State
        <3>2. CASE attempt' = [attempt EXCEPT ![d][type].state =
                                  IF @ = "sending" THEN "unknown" ELSE @]
            BY <1>1, <3>2 DEF State, SendTypeOK, AttemptRow
        <3>3. QED
            BY <1>14, <3>1, <3>2 DEF SendCannotFinalize, SendUndoesAttempt
    <2>6. QED
        BY <1>1, <1>2, <2>3, <2>4, <2>5 DEF SendMoves, Proceeds, Untouched
<1>15. CASE SendUndoesDraft(d) \/ SendCrashes(d)
    <2>1. /\ sender'[d] = NoSend
          /\ \A e \in Drafts \ {d} : sender'[e] = sender[e]
        BY <1>3, <1>15 DEF SendUndoesDraft, SendCrashes
    <2>2. UNCHANGED <<attempt, doubt>>
        BY <1>15 DEF SendUndoesDraft, SendCrashes
    <2>3. \/ wire' = WireWithout(d)
          \/ wire' = wire /\ send.pc # "waiting"
        BY <1>15 DEF SendUndoesDraft, SendCrashes, xeroVars
    <2>4. /\ \A e \in Drafts \ {d} : draft'[e] = draft[e]
          /\ \/ draft'[d] = row
             \/ /\ send.pc = "undoDraft"
                /\ draft'[d] = IF row.sendState = "sending" /\ row.attempt = type
                                  THEN [row EXCEPT !.sendState = "unknown"] ELSE row
        BY <1>4, <1>15 DEF SendUndoesDraft, SendCrashes, draftVars
    <2>5. \/ draft'[d] = row
          \/ /\ send.pc = "undoDraft"
             /\ IF row.sendState = "sending" /\ row.attempt = type
                   THEN draft'[d].sendState = "unknown" /\ Kept(row, draft'[d])
                   ELSE draft'[d] = row
        <3> DEFINE new == [row EXCEPT !.sendState = "unknown"]
        <3>1. Kept(row, new) /\ new.sendState = "unknown"
            BY <1>6
        <3>2. ASSUME draft'[d] = new
              PROVE  draft'[d].sendState = "unknown" /\ Kept(row, draft'[d])
            BY <3>1, <3>2 DEF Kept
        <3> HIDE DEF new
        <3>3. QED
            BY <2>4, <3>2 DEF new
    <2>6. /\ \A t \in DocTypes : State(attempt', d, t) = State(attempt, d, t)
          /\ \A e \in Drafts : attempt'[e] = attempt[e] /\ doubt'[e] = doubt[e]
        BY <2>2 DEF State
    <2>7. QED
        BY <1>1, <1>2, <2>1, <2>3, <2>4, <2>5, <2>6 DEF SendMoves, Leaves, Untouched
<1>16. CASE SendFinalizes(d)
    <2> DEFINE status == IF send.mode = "live" THEN "sent_to_xero" ELSE "approved_for_xero"
               freed == Released(row)
               new == NextVersion([freed EXCEPT !.status = status, !.docType = type,
                                                !.sendState = "succeeded"])
    <2>1. Put(d, new) /\ SetSend(d, NoSend) /\ SetAttempt(d, type, "succeeded")
        BY <1>16 DEF SendFinalizes
    <2>2. /\ new.sendState = "succeeded" /\ new.attempt = row.attempt
          /\ new.version > row.version
        <3>1. freed \in DraftRow /\ freed.attempt = row.attempt /\ freed.version = row.version
            BY <1>1, RowsStayRows DEF DraftRow, Released
        <3> HIDE DEF freed
        <3>2. QED
            BY <3>1 DEF DraftRow, NextVersion
    <2> HIDE DEF new, status
    <2>3. /\ draft'[d] = new /\ sender'[d] = NoSend
          /\ \A e \in Drafts \ {d} : draft'[e] = draft[e] /\ sender'[e] = sender[e]
        BY <1>3, <1>4, <2>1
    <2>4. send.pc = "returned" /\ UNCHANGED <<wire, doubt>>
        BY <1>16 DEF SendFinalizes, xeroVars
    <2>5. /\ State(attempt', d, type) = "succeeded"
          /\ \A t \in DocTypes \ {type} : State(attempt', d, t) = State(attempt, d, t)
          /\ \A e \in Drafts \ {d} : attempt'[e] = attempt[e]
        BY <1>5, <2>1
    <2>6. QED
        BY <1>1, <1>2, <2>2, <2>3, <2>4, <2>5 DEF SendMoves, Leaves, Untouched
<1>17. QED
    BY <1>9, <1>10, <1>11, <1>12, <1>13, <1>14, <1>15, <1>16 DEF SendStep

\* A reconciliation is given another step.
GoesOn(r, pc) ==
    /\ recon'[r].pc = pc
    /\ recon'[r].draft = recon[r].draft /\ recon'[r].version = recon[r].version
    /\ recon'[r].type = recon[r].type /\ recon'[r].lookType = recon[r].lookType

\* A reconciliation ends, or has only the job's lock to give back.
IsOver(r) == recon'[r].pc \in {"idle", "release"} /\ (r # Job => recon'[r].pc = "idle")

ReconMoves(r, d) ==
    LET call == recon[r] IN
    /\ call \in Recon /\ call.draft = d /\ call.pc # "idle"
    /\ UNCHANGED <<wire, docs>>
    /\ \A q \in Sessions \ {r} : recon'[q] = recon[q]
    /\ \A e \in Drafts \ {d} : Untouched(e) /\ doubt'[e] = doubt[e]
    /\ doubt'[d] = doubt[d] \/ (doubt'[d] = FALSE /\ ~Sending(d))
    /\ \/ /\ call.pc = "lookup" /\ Untouched(d) /\ GoesOn(r, "settleAttempt")
          /\ doubt'[d] => Sending(d)
          /\ recon'[r].found = NoDoc => Matches(call) = {}
       \/ /\ IsOver(r) /\ Untouched(d) /\ doubt'[d] = doubt[d]
          /\ call.pc \in {"lookup", "resend"} \/ reconcileCrashes < MaxReconcileCrashes
       \/ /\ call.pc = "settleAttempt" /\ GoesOn(r, "settleDraft")
          /\ recon'[r].found = call.found
          /\ draft'[d] = draft[d] /\ sender'[d] = sender[d]
          /\ \A t \in DocTypes :
               State(attempt', d, t) =
                   IF t = call.type /\ State(attempt, d, t) \in {"unknown", "sending"}
                      THEN "failed" ELSE State(attempt, d, t)
       \/ /\ call.pc = "settleDraft"
          /\ GoesOn(r, "resend") \/ IsOver(r)
          /\ sender'[d] = sender[d] /\ attempt'[d] = attempt[d]
          /\ IF draft[d].attempt = call.type
                THEN draft'[d].sendState = "failed" /\ Kept(draft[d], draft'[d])
                ELSE draft'[d] = draft[d]
       \/ /\ call.pc = "resend" /\ ~Sending(d)
          /\ Opened(d, call.version, call.lookType, call.found)
          /\ recon'[r].pc \in {"idle", "resending"} /\ (r # Job => recon'[r].pc = "idle")

\* Each step of a reconciliation is one of these.
LEMMA ReconStepMoves ==
    ASSUME SendTypeOK, NEW r \in Sessions, ReconStep(r)
    PROVE  ReconMoves(r, recon[r].draft)
<1> DEFINE call == recon[r]
           d == call.draft
           row == draft[d]
<1>1. call \in Recon /\ d \in Drafts /\ row \in DraftRow /\ call.pc # "idle"
    BY DEF SendTypeOK, TypeOK, Recon, ReconStep, ReconLooksUp, ReconCannotLookUp,
       ReconSettlesAttempt, ReconSettlesDraft, ReconResends, ReconCrashes
<1>2. UNCHANGED <<wire, docs>>
    BY DEF ReconStep, ReconLooksUp, ReconCannotLookUp, ReconSettlesAttempt, ReconSettlesDraft,
           ReconResends, ReconCrashes, xeroVars
<1>3. ASSUME NEW new, SetRecon(r, new)
      PROVE  recon'[r] = new /\ \A q \in Sessions \ {r} : recon'[q] = recon[q]
    BY <1>3 DEF SetRecon, SendTypeOK
<1>4. ASSUME UNCHANGED <<draft, sender, attempt>> PROVE \A e \in Drafts : Untouched(e)
    BY <1>4 DEF Untouched
<1>5. ASSUME UNCHANGED doubt PROVE \A e \in Drafts : doubt'[e] = doubt[e]
    BY <1>5
<1>6. /\ NoRecon.pc = "idle"
      /\ Over(r).pc \in {"idle", "release"} /\ (r # Job => Over(r).pc = "idle")
    BY <1>1 DEF NoRecon, Over, Recon
<1>7. ASSUME NEW new \in {NoRecon, Over(r)}, SetRecon(r, new)
      PROVE  IsOver(r) /\ \A q \in Sessions \ {r} : recon'[q] = recon[q]
    BY <1>3, <1>6, <1>7 DEF IsOver
<1>8. CASE ReconLooksUp(r)
    <2>1. PICK x \in IF Matches(call) = {} THEN {NoDoc} ELSE Matches(call) :
             SetRecon(r, [call EXCEPT !.pc = "settleAttempt", !.found = x])
        BY <1>8 DEF ReconLooksUp
    <2> DEFINE new == [call EXCEPT !.pc = "settleAttempt", !.found = x]
    <2>2. /\ new.pc = "settleAttempt" /\ new.draft = d /\ new.version = call.version
          /\ new.type = call.type /\ new.lookType = call.lookType /\ new.found = x
        BY <1>1 DEF Recon
    <2> HIDE DEF new
    <2>3. GoesOn(r, "settleAttempt") /\ recon'[r].found = x
          /\ \A q \in Sessions \ {r} : recon'[q] = recon[q]
        BY <1>3, <2>1, <2>2 DEF GoesOn, new
    <2>4. x = NoDoc => Matches(call) = {}
        BY <2>1, NoDocAssumption DEF Matches, SendTypeOK
    <2>5. /\ \A e \in Drafts \ {d} : doubt'[e] = doubt[e]
          /\ doubt'[d] = (doubt[d] /\ Sending(d))
          /\ doubt[d] \in BOOLEAN /\ Sending(d) \in BOOLEAN
        BY <1>1, <1>8 DEF ReconLooksUp, SendTypeOK, Sending
    <2>6. /\ doubt'[d] = doubt[d] \/ (doubt'[d] = FALSE /\ ~Sending(d))
          /\ doubt'[d] => Sending(d)
        BY <2>5
    <2>7. \A e \in Drafts : Untouched(e)
        BY <1>4, <1>8 DEF ReconLooksUp, draftVars
    <2>8. call.pc = "lookup"
        BY <1>8 DEF ReconLooksUp
    <2>9. QED
        BY <1>1, <1>2, <2>3, <2>4, <2>5, <2>6, <2>7, <2>8 DEF ReconMoves
<1>9. ASSUME UNCHANGED <<draft, sender, attempt, doubt>>,
             call.pc \in {"lookup", "resend"} \/ reconcileCrashes < MaxReconcileCrashes,
             NEW new \in {NoRecon, Over(r)}, SetRecon(r, new)
      PROVE  ReconMoves(r, recon[r].draft)
    BY <1>1, <1>2, <1>4, <1>5, <1>7, <1>9 DEF ReconMoves
<1>10. CASE ReconCannotLookUp(r) \/ ReconCrashes(r)
    BY <1>9, <1>10 DEF ReconCannotLookUp, ReconCrashes, draftVars
<1>11. CASE ReconSettlesAttempt(r)
    <2> DEFINE new == [call EXCEPT !.pc = "settleDraft"]
    <2>1. /\ new.pc = "settleDraft" /\ new.draft = d /\ new.version = call.version
          /\ new.type = call.type /\ new.lookType = call.lookType /\ new.found = call.found
        BY <1>1 DEF Recon
    <2>2. SetRecon(r, new)
        BY <1>11 DEF ReconSettlesAttempt
    <2> HIDE DEF new
    <2>3. GoesOn(r, "settleDraft") /\ recon'[r].found = call.found
          /\ \A q \in Sessions \ {r} : recon'[q] = recon[q]
        BY <1>3, <2>1, <2>2 DEF GoesOn
    <2>4. UNCHANGED <<draft, sender, doubt>> /\ call.pc = "settleAttempt"
        BY <1>11 DEF ReconSettlesAttempt, draftVars
    <2>5. /\ \A e \in Drafts \ {d} : attempt'[e] = attempt[e]
          /\ \A t \in DocTypes :
               State(attempt', d, t) =
                   IF t = call.type /\ State(attempt, d, t) \in {"unknown", "sending"}
                      THEN "failed" ELSE State(attempt, d, t)
        BY <1>1, <1>11 DEF ReconSettlesAttempt, State, SendTypeOK, AttemptRow
    <2>6. QED
        BY <1>1, <1>2, <1>5, <2>3, <2>4, <2>5 DEF ReconMoves, Untouched
<1>12. CASE ReconSettlesDraft(r)
    <2> DEFINE failed == [row EXCEPT !.sendState = "failed"]
               new == [call EXCEPT !.pc = "resend"]
    <2>1. /\ new.pc = "resend" /\ new.draft = d /\ new.version = call.version
          /\ new.type = call.type /\ new.lookType = call.lookType
        BY <1>1 DEF Recon
    <2>2. Kept(row, failed) /\ failed.sendState = "failed"
        BY <1>1 DEF DraftRow, Kept
    <2>3. SetRecon(r, new) \/ SetRecon(r, Over(r))
        BY <1>12 DEF ReconSettlesDraft
    <2>4. /\ draft'[d] = IF row.attempt = call.type THEN failed ELSE row
          /\ \A e \in Drafts \ {d} : draft'[e] = draft[e]
        BY <1>1, <1>12 DEF ReconSettlesDraft, Put, SendTypeOK, TypeOK
    <2> HIDE DEF new, failed
    <2>5. /\ GoesOn(r, "resend") \/ IsOver(r)
          /\ \A q \in Sessions \ {r} : recon'[q] = recon[q]
        BY <1>3, <1>7, <2>1, <2>3 DEF GoesOn
    <2>6. UNCHANGED <<sender, attempt, doubt>> /\ call.pc = "settleDraft"
        BY <1>12 DEF ReconSettlesDraft
    <2>7. IF row.attempt = call.type
             THEN draft'[d].sendState = "failed" /\ Kept(row, draft'[d])
             ELSE draft'[d] = row
        BY <2>2, <2>4 DEF Kept
    <2>8. QED
        BY <1>1, <1>2, <1>5, <2>4, <2>5, <2>6, <2>7 DEF ReconMoves, Untouched
<1>13. CASE ReconResends(r)
    <2>1. UNCHANGED doubt /\ call.pc = "resend" /\ ~Sending(d)
        BY <1>13 DEF ReconResends, AdvisoryFree
    <2>2. CASE SendBegins(d, r, call.version, call.lookType, call.found)
               /\ SetRecon(r, IF r = Job THEN [call EXCEPT !.pc = "resending"] ELSE NoRecon)
        <3>1. Opened(d, call.version, call.lookType, call.found)
            BY <1>1, <2>2, BeginOpens DEF Recon
        <3>2. /\ recon'[r].pc \in {"idle", "resending"} /\ (r # Job => recon'[r].pc = "idle")
              /\ \A q \in Sessions \ {r} : recon'[q] = recon[q]
            <4> DEFINE new == [call EXCEPT !.pc = "resending"]
            <4>1. new.pc = "resending"
                BY <1>1 DEF Recon
            <4> HIDE DEF new
            <4>2. QED
                BY <1>3, <1>6, <2>2, <4>1 DEF new
        <3>3. QED
            BY <1>1, <1>2, <1>5, <2>1, <3>1, <3>2 DEF ReconMoves, Opened
    <2>3. CASE SetRecon(r, Over(r)) /\ UNCHANGED <<draft, attempt, sender>>
        BY <1>9, <2>1, <2>3
    <2>4. QED
        BY <1>13, <2>2, <2>3 DEF ReconResends
<1>14. QED
    BY <1>8, <1>10, <1>11, <1>12, <1>13 DEF ReconStep

\* Xero takes a request off the wire and answers the send that waits for it.
AnswerMoves(m) ==
    /\ UNCHANGED <<draft, attempt, recon, doubt>>
    /\ wire' = wire \ {m} /\ docs' \in {docs, docs \cup {m}}
    /\ \A e \in Drafts :
         \/ sender'[e] = sender[e]
         \/ /\ e = m.draft /\ sender[e].pc = "waiting" /\ sender'[e].pc = "waiting"
            /\ sender'[e].type = sender[e].type /\ sender'[e].content = sender[e].content

\* Both answers of Xero are.
LEMMA XeroMoves ==
    ASSUME SendTypeOK, NEW m \in wire, XeroAccepts(m) \/ XeroRejects(m)
    PROVE  AnswerMoves(m)
<1>1. /\ UNCHANGED <<draft, attempt, recon, doubt>>
      /\ wire' = wire \ {m} /\ docs' \in {docs, docs \cup {m}}
    BY DEF XeroAccepts, XeroRejects, draftVars
<1>2. PICK reply, doc : Answered(m, reply, doc)
    BY DEF XeroAccepts, XeroRejects
<1>3. ASSUME NEW e \in Drafts
      PROVE  \/ sender'[e] = sender[e]
             \/ /\ e = m.draft /\ sender[e].pc = "waiting" /\ sender'[e].pc = "waiting"
                /\ sender'[e].type = sender[e].type /\ sender'[e].content = sender[e].content
    <2>1. \/ sender'[e] = sender[e]
          \/ /\ sender[e].pc = "waiting" /\ e = m.draft
             /\ sender'[e] = [sender[e] EXCEPT !.reply = reply, !.doc = doc]
        BY <1>2 DEF Answered
    <2>2. QED
        BY <2>1, ActiveSender DEF Sender, Sending
<1>4. QED
    BY <1>1, <1>3 DEF AnswerMoves

\* A reconciliation is past its transaction: what it reads of the draft.
ReconOpened(d, r) ==
    /\ ~Sending(d)
    /\ draft[d].attempt # NoType /\ State(attempt, d, draft[d].attempt) \in {"unknown", "sending"}
    /\ draft[d].holder = r
    /\ recon'[r].pc = "lookup" /\ recon'[r].draft = d
    /\ recon'[r].version = draft[d].version
    /\ recon'[r].type = draft[d].attempt /\ recon'[r].lookType = draft[d].docType
    /\ \A q \in Sessions \ {r} : recon'[q] = recon[q]
    /\ UNCHANGED <<draft, attempt, sender, wire, docs, doubt>>

\* So is the first transaction of every reconciliation.
LEMMA ReconBeginOpens ==
    ASSUME SendTypeOK, NEW d \in Drafts, NEW r \in Sessions, NEW v, ReconBegins(d, r, v)
    PROVE  ReconOpened(d, r)
<1> DEFINE call == [pc |-> "lookup", draft |-> d, version |-> v,
                    type |-> draft[d].attempt, lookType |-> draft[d].docType,
                    found |-> NoDoc]
           probe == [draft[d] EXCEPT !.sendState = "failed"]
<1>1. SetRecon(r, call)
    BY DEF ReconBegins
<1>2. probe.version = draft[d].version /\ probe.holder = draft[d].holder
    BY DEF SendTypeOK, TypeOK, DraftRow
<1>3. MayMutate(probe, r, v)
    BY DEF ReconBegins, NeedsReconciling
<1> HIDE DEF probe
<1>4. draft[d].version = v /\ draft[d].holder = r
    BY <1>2, <1>3 DEF MayMutate, HoldsLock
<1>5. recon'[r] = call /\ \A q \in Sessions \ {r} : recon'[q] = recon[q]
    BY <1>1 DEF SetRecon, SendTypeOK
<1>6. UNCHANGED <<draft, attempt, sender, wire, docs, doubt>> /\ ~Sending(d)
    BY DEF ReconBegins, AdvisoryFree, draftVars, xeroVars
<1>7. draft[d].attempt # NoType /\ State(attempt, d, draft[d].attempt) \in {"unknown", "sending"}
    BY DEF ReconBegins, NeedsReconciling, State
<1>8. QED
    BY <1>4, <1>5, <1>6, <1>7 DEF ReconOpened

-----------------------------------------------------------------------------
(* A draft left unresolved can be reconciled. *)

\* A reconciliation has failed the draft's attempt and is about to tell the draft.
Settling(d) ==
    \E r \in Sessions : /\ recon[r].draft = d /\ recon[r].pc = "settleDraft"
                        /\ recon[r].type = draft[d].attempt

\* The draft names the attempt that keeps it unresolved.
NamesAttempt(d) ==
    /\ Sending(d) => draft[d].attempt = sender[d].type
    /\ Unresolved(draft[d])
         => /\ draft[d].attempt # NoType
            /\ State(attempt, d, draft[d].attempt) \in {"sending", "unknown"} \/ Settling(d)

\* So it does when its attempt stays and no reconciliation of it moves on.
LEMMA StillNames ==
    ASSUME SendTypeOK, NEW d \in Drafts, NamesAttempt(d),
           draft'[d].sendState = draft[d].sendState, draft'[d].attempt = draft[d].attempt,
           \A t \in DocTypes : State(attempt', d, t) = State(attempt, d, t),
           \/ sender'[d].pc = "idle"
           \/ Sending(d) /\ sender'[d].type = sender[d].type,
           \A r \in Sessions : recon[r].draft = d /\ recon[r].pc = "settleDraft"
               => recon'[r] = recon[r] \/ recon[r].type # draft[d].attempt
    PROVE  NamesAttempt(d)'
<1>1. draft[d].attempt \in DocTypes \cup {NoType}
    BY DEF SendTypeOK, TypeOK, DraftRow
<1>2. Settling(d) => Settling(d)'
    BY DEF Settling
<1>3. (Sending(d) => draft[d].attempt = sender[d].type)'
    BY DEF NamesAttempt, Sending
<1>4. Unresolved(draft'[d]) = Unresolved(draft[d])
    BY DEF Unresolved
<1>5. QED
    BY <1>1, <1>2, <1>3, <1>4 DEF NamesAttempt

\* Nothing happens to the draft.
LEMMA UntouchedNames ==
    ASSUME SendTypeOK, NEW d \in Drafts, NamesAttempt(d), Untouched(d),
           \A r \in Sessions : recon[r].draft = d /\ recon[r].pc = "settleDraft"
               => recon'[r] = recon[r]
    PROVE  NamesAttempt(d)'
<1>1. \A t \in DocTypes : State(attempt', d, t) = State(attempt, d, t)
    BY DEF Untouched, State
<1>2. sender'[d].pc = "idle" \/ (Sending(d) /\ sender'[d].type = sender[d].type)
    BY DEF Untouched, Sending
<1>3. QED
    BY <1>1, <1>2, StillNames DEF Untouched

\* The first transaction of a send names its attempt.
LEMMA OpenedNames ==
    ASSUME SendTypeOK, \A d \in Drafts : NamesAttempt(d),
           NEW d \in Drafts, NEW v, NEW type \in DocTypes, NEW found, Opened(d, v, type, found),
           \A r \in Sessions : recon[r].pc = "settleDraft" => recon'[r] = recon[r]
    PROVE  \A e \in Drafts : NamesAttempt(e)'
<1>1. NamesAttempt(d)'
    BY NoTypeAssumption DEF Opened, NamesAttempt, Sending
<1>2. \A e \in Drafts \ {d} : NamesAttempt(e)'
    BY UntouchedNames DEF Opened
<1>3. QED
    BY <1>1, <1>2

\* A send settles the attempt with the draft.
LEMMA SendStepNames ==
    ASSUME SendTypeOK, \A d \in Drafts : NamesAttempt(d), NEW d \in Drafts, SendMoves(d)
    PROVE  \A e \in Drafts : NamesAttempt(e)'
<1> DEFINE type == sender[d].type
<1>1. /\ Sending(d) /\ type \in DocTypes /\ draft[d].attempt = type
      /\ UNCHANGED recon
    <2>1. sender[d] \in Sender /\ UNCHANGED recon
        BY DEF SendMoves
    <2>2. Sending(d) /\ type \in DocTypes
        BY <2>1 DEF Sender, Sending
    <2>3. QED
        BY <2>1, <2>2 DEF NamesAttempt
<1>2. \A e \in Drafts \ {d} : NamesAttempt(e)'
    BY <1>1, UntouchedNames DEF SendMoves
<1>3. CASE Proceeds(d)
    <2>1. draft'[d] = draft[d] /\ sender'[d].type = type
        BY <1>3 DEF Proceeds
    <2>2. State(attempt', d, type) = State(attempt, d, type)
          \/ State(attempt', d, type) = "unknown"
        BY <1>3 DEF Proceeds
    <2>3. Settling(d)' <=> Settling(d)
        BY <1>1, <2>1 DEF Settling
    <2>4. NamesAttempt(d)'
        BY <1>1, <2>1, <2>2, <2>3 DEF NamesAttempt, State, Unresolved
    <2>5. QED
        BY <1>2, <2>4
<1>4. CASE Leaves(d)
    <2>1. ~Sending(d)'
        BY <1>4 DEF Leaves, NoSend, Sending
    <2>2. ASSUME draft'[d] = draft[d], State(attempt', d, type) = State(attempt, d, type)
          PROVE  NamesAttempt(d)'
        <3>1. \A t \in DocTypes : State(attempt', d, t) = State(attempt, d, t)
            BY <2>2 DEF SendMoves
        <3>2. sender'[d].pc = "idle"
            BY <2>1 DEF Sending
        <3>3. QED
            BY <1>1, <2>2, <3>1, <3>2, StillNames
    <2>3. ASSUME NEW state \in {"failed", "unknown"}, State(attempt', d, type) = state,
                 draft'[d].sendState = state, draft'[d].attempt = type
          PROVE  NamesAttempt(d)'
        BY <1>1, <2>1, <2>3, NoTypeAssumption DEF NamesAttempt, Unresolved
    <2>4. ASSUME draft'[d].sendState = "succeeded" PROVE NamesAttempt(d)'
        BY <2>1, <2>4 DEF NamesAttempt, Unresolved
    <2>5. ASSUME State(attempt', d, type) = State(attempt, d, type),
                 draft[d].sendState = "sending", draft'[d].sendState = "unknown",
                 draft'[d].attempt = type
          PROVE  NamesAttempt(d)'
        <3>1. Settling(d)' <=> Settling(d)
            BY <1>1, <2>5 DEF Settling
        <3>2. QED
            BY <1>1, <2>1, <2>5, <3>1 DEF NamesAttempt, Unresolved
    <2>6. CASE \E state \in {"failed", "unknown"} :
                 /\ State(attempt', d, type) = state
                 /\ draft'[d].sendState = state /\ Kept(draft[d], draft'[d])
        BY <1>1, <1>2, <2>3, <2>6 DEF Kept
    <2>7. CASE /\ State(attempt', d, type) = State(attempt, d, type)
               /\ IF draft[d].sendState = "sending"
                     THEN draft'[d].sendState = "unknown" /\ Kept(draft[d], draft'[d])
                     ELSE draft'[d] = draft[d]
        BY <1>1, <1>2, <2>2, <2>5, <2>7 DEF Kept
    <2>8. QED
        BY <1>1, <1>2, <1>4, <2>2, <2>4, <2>6, <2>7 DEF Leaves
<1>5. QED
    BY <1>2, <1>3, <1>4 DEF SendMoves

\* A reconciliation fails the attempt, then the draft, and lives to do both.
LEMMA ReconStepNames ==
    ASSUME MaxReconcileCrashes = 0, SendTypeOK, \A d \in Drafts : NamesAttempt(d),
           NEW r \in Sessions, NEW d \in Drafts, ReconMoves(r, d)
    PROVE  \A e \in Drafts : NamesAttempt(e)'
<1> DEFINE call == recon[r]
<1>1. call.draft = d /\ \A q \in Sessions \ {r} : recon'[q] = recon[q]
    BY DEF ReconMoves, Recon
<1>2. ~(reconcileCrashes < MaxReconcileCrashes)
    BY DEF SendTypeOK
<1>3. \A e \in Drafts \ {d} : NamesAttempt(e)'
    <2>1. \A e \in Drafts \ {d} : Untouched(e)
        BY DEF ReconMoves
    <2>2. \A e \in Drafts \ {d}, q \in Sessions :
            recon[q].draft = e /\ recon[q].pc = "settleDraft" => recon'[q] = recon[q]
        BY <1>1
    <2>3. QED
        BY <2>1, <2>2, UntouchedNames
<1>4. ASSUME Untouched(d), call.pc # "settleDraft"
      PROVE  NamesAttempt(d)'
    <2>1. \A q \in Sessions : recon[q].pc = "settleDraft" => recon'[q] = recon[q]
        BY <1>1, <1>4
    <2>2. QED
        BY <1>1, <1>4, <2>1, UntouchedNames
<1>5. ASSUME call.pc = "settleAttempt", GoesOn(r, "settleDraft"),
             draft'[d] = draft[d], sender'[d] = sender[d],
             \A t \in DocTypes :
               State(attempt', d, t) =
                   IF t = call.type /\ State(attempt, d, t) \in {"unknown", "sending"}
                      THEN "failed" ELSE State(attempt, d, t)
      PROVE  NamesAttempt(d)'
    <2>1. draft[d].attempt \in DocTypes \cup {NoType}
        BY <1>1 DEF SendTypeOK, TypeOK, DraftRow
    <2>2. Settling(d) => Settling(d)'
        BY <1>1, <1>5 DEF Settling
    <2>3. call.type = draft[d].attempt => Settling(d)'
        <3>1. ASSUME call.type = draft[d].attempt
              PROVE  recon'[r].draft = d /\ recon'[r].pc = "settleDraft"
                     /\ recon'[r].type = draft'[d].attempt
            BY <1>1, <1>5, <3>1 DEF GoesOn
        <3>2. QED
            BY <3>1 DEF Settling
    <2>4. /\ Sending(d)' = Sending(d)
          /\ Unresolved(draft'[d]) = Unresolved(draft[d])
        BY <1>5 DEF Sending
    <2>5. Unresolved(draft[d]) =>
            State(attempt', d, draft[d].attempt) \in {"sending", "unknown"} \/ Settling(d)'
        BY <1>1, <1>5, <2>1, <2>2, <2>3 DEF NamesAttempt
    <2>6. QED
        BY <1>1, <1>5, <2>4, <2>5 DEF NamesAttempt
<1>6. ASSUME call.pc = "settleDraft", sender'[d] = sender[d], attempt'[d] = attempt[d],
             IF draft[d].attempt = call.type
                THEN draft'[d].sendState = "failed" /\ Kept(draft[d], draft'[d])
                ELSE draft'[d] = draft[d]
      PROVE  NamesAttempt(d)'
    <2>1. CASE draft[d].attempt = call.type
        BY <1>1, <1>6, <2>1 DEF NamesAttempt, Kept, Unresolved, Sending
    <2>2. CASE draft[d].attempt # call.type
        <3>1. \A q \in Sessions : recon[q].draft = d /\ recon[q].pc = "settleDraft"
               => recon'[q] = recon[q] \/ recon[q].type # draft[d].attempt
            BY <1>1, <2>2
        <3>2. draft'[d] = draft[d]
            BY <1>6, <2>2
        <3>3. \A t \in DocTypes : State(attempt', d, t) = State(attempt, d, t)
            BY <1>6 DEF State
        <3>4. sender'[d].pc = "idle" \/ (Sending(d) /\ sender'[d].type = sender[d].type)
            BY <1>6 DEF Sending
        <3>5. QED
            BY <1>1, <3>1, <3>2, <3>3, <3>4, StillNames
    <2>3. QED
        BY <2>1, <2>2
<1>7. ASSUME call.pc = "resend", Opened(d, call.version, call.lookType, call.found)
      PROVE  \A e \in Drafts : NamesAttempt(e)'
    <2>1. \A q \in Sessions : recon[q].pc = "settleDraft" => recon'[q] = recon[q]
        BY <1>1, <1>7
    <2>2. call.lookType \in DocTypes
        BY DEF ReconMoves, Recon
    <2>3. QED
        BY <1>1, <1>7, <2>1, <2>2, OpenedNames
<1>8. QED
    BY <1>2, <1>3, <1>4, <1>5, <1>6, <1>7 DEF ReconMoves

\* The job takes and gives back locks; new reconciliations read.
LEMMA JobNames ==
    ASSUME SendTypeOK, \A d \in Drafts : NamesAttempt(d), JobStep
    PROVE  \A e \in Drafts : NamesAttempt(e)'
<1> DEFINE call == recon[Job]
           d == call.draft
<1>1. call \in Recon /\ d \in Drafts /\ draft[d] \in DraftRow
    BY JobAssumption DEF SendTypeOK, TypeOK, Recon
<1>2. UNCHANGED <<attempt, sender>>
    BY DEF JobStep, JobPicks, JobClaims, JobReconciles, JobIsDone, ReconBegins
<1>3. call.pc # "settleDraft" /\ \A q \in Sessions \ {Job} : recon'[q] = recon[q]
    BY <1>1 DEF JobStep, JobPicks, JobClaims, JobReconciles, JobIsDone, ReconBegins, SetRecon,
       SendTypeOK
<1>4. ASSUME NEW e \in Drafts
      PROVE  draft'[e].sendState = draft[e].sendState /\ draft'[e].attempt = draft[e].attempt
    <2>1. /\ Granted(draft[d], Job).sendState = draft[d].sendState
          /\ Granted(draft[d], Job).attempt = draft[d].attempt
          /\ Released(draft[d]).sendState = draft[d].sendState
          /\ Released(draft[d]).attempt = draft[d].attempt
        BY <1>1 DEF Granted, Released, DraftRow
    <2>2. \/ Put(d, Granted(draft[d], Job)) \/ Put(d, Released(draft[d])) \/ Put(d, draft[d])
          \/ UNCHANGED draft
        BY DEF JobStep, JobPicks, JobClaims, JobReconciles, JobIsDone, ReconBegins, draftVars
    <2>3. \/ draft'[e] = draft[e]
          \/ e = d /\ draft'[d] \in {Granted(draft[d], Job), Released(draft[d])}
        BY <1>1, <2>2 DEF Put, SendTypeOK, TypeOK
    <2>4. QED
        BY <2>1, <2>3
<1>5. ASSUME NEW e \in Drafts PROVE NamesAttempt(e)'
    <2>1. \A t \in DocTypes : State(attempt', e, t) = State(attempt, e, t)
        BY <1>2 DEF State
    <2>2. sender'[e].pc = "idle" \/ (Sending(e) /\ sender'[e].type = sender[e].type)
        BY <1>2 DEF Sending
    <2>3. \A q \in Sessions : recon[q].pc = "settleDraft" => recon'[q] = recon[q]
        BY <1>3
    <2>4. QED
        BY <1>4, <2>1, <2>2, <2>3, StillNames
<1>6. QED
    BY <1>5

\* While no reconciliation dies half-way, whatever is left unresolved can be
\* reconciled: sends may die, the job may run, requests may come late.
THEOREM UnresolvedCanBeReconciled ==
    ASSUME MaxReconcileCrashes = 0
    PROVE  SendSpec => []UnresolvedIsReconcilable
<1> DEFINE Inv == \A d \in Drafts : NamesAttempt(d)
<1>1. SendInit => Inv
    <2>1. \A s \in Users, t \in DocTypes : ~Unresolved(NewDraft(s, t))
        BY DEF NewDraft, Unresolved
    <2>2. QED
        BY <2>1 DEF SendInit, NamesAttempt, Sending, NoSend
<1>2. ASSUME SendTypeOK, Inv, SendNext PROVE Inv'
    <2>1. ASSUME \A d \in Drafts : Drifts(draft[d], draft'[d]), SameStates, UNCHANGED <<sender, recon>>
          PROVE  Inv'
        <3>1. \A d \in Drafts : draft'[d].sendState = draft[d].sendState
                                /\ draft'[d].attempt = draft[d].attempt
            BY <2>1 DEF Drifts
        <3>2. \A d \in Drafts : sender'[d].pc = "idle"
                                \/ (Sending(d) /\ sender'[d].type = sender[d].type)
            BY <2>1 DEF Sending
        <3>3. \A d \in Drafts, t \in DocTypes : State(attempt', d, t) = State(attempt, d, t)
            BY <2>1 DEF SameStates
        <3>4. \A r \in Sessions : recon'[r] = recon[r]
            BY <2>1
        <3>5. QED
            BY <1>2, <3>1, <3>2, <3>3, <3>4, StillNames
    <2>2. ASSUME NEW d \in Drafts, NEW s \in Users, NEW type \in DocTypes, UserSends(d, s, type)
          PROVE  Inv'
        <3>1. Opened(d, draft[d].version, type, NoDoc) /\ UNCHANGED recon
            BY <1>2, <2>2, BeginOpens DEF UserSends
        <3>2. QED
            BY <1>2, <3>1, OpenedNames
    <2>3. ASSUME NEW m \in wire, XeroAccepts(m) \/ XeroRejects(m)
          PROVE  Inv'
        <3>1. AnswerMoves(m)
            BY <1>2, <2>3, XeroMoves
        <3>2. /\ UNCHANGED <<draft, recon>>
              /\ \A d \in Drafts : sender'[d].pc = "idle"
                                   \/ (Sending(d) /\ sender'[d].type = sender[d].type)
            BY <3>1 DEF AnswerMoves, Sending
        <3>3. \A d \in Drafts, t \in DocTypes : State(attempt', d, t) = State(attempt, d, t)
            BY <3>1 DEF AnswerMoves, State
        <3>4. QED
            BY <1>2, <3>2, <3>3, StillNames
    <2>4. ASSUME NEW d \in Drafts, NEW r \in Users, UserReconciles(d, r) PROVE Inv'
        <3>1. ReconOpened(d, r) /\ recon[r].pc = "idle" /\ r \in Sessions
            BY <1>2, <2>4, ReconBeginOpens DEF UserReconciles, Users
        <3>2. \A e \in Drafts : Untouched(e)
            BY <3>1 DEF ReconOpened, Untouched
        <3>3. \A q \in Sessions : recon[q].pc = "settleDraft" => recon'[q] = recon[q]
            BY <3>1 DEF ReconOpened
        <3>4. QED
            BY <1>2, <3>2, <3>3, UntouchedNames
    <2>5. ASSUME NEW r \in Sessions, ReconStep(r) PROVE Inv'
        <3>1. ReconMoves(r, recon[r].draft) /\ recon[r].draft \in Drafts
            BY <1>2, <2>5, ReconStepMoves DEF SendTypeOK, Recon
        <3>2. PICK d \in Drafts : ReconMoves(r, d)
            BY <3>1
        <3>3. QED
            BY <1>2, <3>2, ReconStepNames
    <2>6. QED
        BY <1>2, <2>1, <2>2, <2>3, <2>4, EditorsDrift, SendStepMoves, SendStepNames,
           <2>5, JobNames DEF SendNext
<1>3. Inv /\ UNCHANGED vars => Inv'
    BY DEF NamesAttempt, Sending, Settling, vars, sendVars
<1>4. Inv => UnresolvedIsReconcilable
    BY DEF NamesAttempt, Settling, UnresolvedIsReconcilable, BeingReconciled, State
<1>5. QED
    BY <1>1, <1>2, <1>3, <1>4, SendTypeCorrect, PTL DEF SendSpec

-----------------------------------------------------------------------------
(* While no two reconciliations of a draft overlap, none runs beside a send. *)

\* A draft is unresolved while its attempt is, and while a request of it is in doubt.
Paused(d) ==
    /\ Sending(d) => draft[d].sendState = "sending" /\ draft[d].attempt = sender[d].type
    /\ doubt[d] /\ Sending(d) => sender[d].pc = "waiting"
    /\ doubt[d] /\ ~Sending(d) => Unresolved(draft[d])
    /\ Unresolved(draft[d]) => ~draft[d].archived
    /\ draft[d].attempt # NoType /\ State(attempt, d, draft[d].attempt) \in {"unknown", "sending"}
         => Unresolved(draft[d])

\* What a reconciliation that has yet to settle its draft can rely on.
Relies(r, d) ==
    /\ Unresolved(draft[d]) /\ ~Sending(d)
    /\ draft[d].attempt = recon[r].type /\ draft[d].attempt # NoType
    /\ recon[r].pc # "lookup" => ~doubt[d]
    /\ recon[r].pc = "settleDraft"
         => State(attempt, d, draft[d].attempt) \notin {"unknown", "sending"}

PauseInv ==
    /\ \A d \in Drafts : Paused(d)
    /\ \A r \in Sessions, d \in Drafts : Reconciling(r) /\ recon[r].draft = d => Relies(r, d)

\* What is said of a draft stays so while nothing of it changes.
LEMMA UntouchedPauses ==
    ASSUME NEW d \in Drafts, Untouched(d), doubt'[d] = doubt[d]
    PROVE  /\ Paused(d)' <=> Paused(d)
           /\ \A r \in Sessions : recon'[r] = recon[r] => (Relies(r, d)' <=> Relies(r, d))
BY DEF Untouched, Paused, Relies, Sending, State

\* Editors do not settle a draft.
LEMMA EditorsPause ==
    ASSUME SendTypeOK, PauseInv, EditorOrClock
    PROVE  PauseInv'
<1>1. /\ \A d \in Drafts : Drifts(draft[d], draft'[d])
      /\ SameStates
      /\ UNCHANGED <<sender, recon, doubt>>
    BY EditorsDrift
<1>2. ASSUME NEW d \in Drafts
      PROVE  /\ draft[d].attempt \in DocTypes \cup {NoType}
             /\ draft'[d].attempt = draft[d].attempt
             /\ draft'[d].sendState = draft[d].sendState
             /\ Sending(d)' <=> Sending(d)
             /\ Unresolved(draft[d]) => ~SendSettled(draft[d])
             /\ \A t \in DocTypes : State(attempt', d, t) = State(attempt, d, t)
    BY <1>1 DEF Drifts, SameStates, SendTypeOK, TypeOK, DraftRow, Sending, Unresolved, SendSettled
<1>3. \A d \in Drafts : Paused(d)'
    BY <1>1, <1>2 DEF PauseInv, Paused, Drifts, Unresolved
<1>4. ASSUME NEW r \in Sessions, NEW d \in Drafts, Reconciling(r), recon[r].draft = d
      PROVE  Relies(r, d)'
    <2>1. Relies(r, d)
        BY <1>4 DEF PauseInv
    <2>2. QED
        BY <1>1, <1>2, <2>1 DEF Relies, Unresolved
<1>5. QED
    BY <1>1, <1>3, <1>4 DEF PauseInv, Reconciling

\* Of a draft whose send has begun no reconciliation is under way.
LEMMA OpenedPauses ==
    ASSUME SendTypeOK, PauseInv, NEW d \in Drafts, NEW v, NEW type \in DocTypes, NEW found,
           Opened(d, v, type, found), \A e \in Drafts : doubt'[e] = doubt[e],
           \A q \in Sessions : recon'[q] = recon[q] \/ ~Reconciling(q)'
    PROVE  PauseInv'
<1>1. /\ ~Unresolved(draft[d])
      /\ draft'[d].sendState = "sending" /\ ~draft'[d].archived /\ draft'[d].attempt = type
      /\ sender'[d].type = type /\ Sending(d)'
    BY DEF Opened, SendSettled, Unresolved, Sending
<1>2. Sending(d) => draft[d].sendState = "sending"
    BY DEF PauseInv, Paused
<1>3. ~Sending(d) /\ ~doubt[d]
    BY <1>1, <1>2 DEF PauseInv, Paused, Unresolved
<1>4. Paused(d)'
    <2>1. ~doubt'[d]
        BY <1>3
    <2>2. Unresolved(draft'[d])
        BY <1>1 DEF Unresolved
    <2>3. (Sending(d) => draft[d].sendState = "sending" /\ draft[d].attempt = sender[d].type)'
        BY <1>1
    <2>4. (Unresolved(draft[d]) => ~draft[d].archived)'
        BY <1>1
    <2>5. QED
        BY <2>1, <2>2, <2>3, <2>4, Zenon DEF Paused
<1>5. \A e \in Drafts \ {d} : Paused(e)'
    BY UntouchedPauses DEF Opened, PauseInv
<1>6. \A r \in Sessions : Reconciling(r)' => Reconciling(r) /\ recon'[r] = recon[r]
    BY DEF Reconciling
<1>7. ASSUME NEW r \in Sessions, NEW e \in Drafts, Reconciling(r)', recon'[r].draft = e
      PROVE  Relies(r, e)'
    <2>1. Relies(r, e) /\ recon'[r] = recon[r]
        BY <1>6, <1>7 DEF PauseInv
    <2>2. e # d
        BY <1>1, <2>1 DEF Relies
    <2>3. QED
        BY <2>1, <2>2, UntouchedPauses DEF Opened
<1>8. QED
    BY <1>4, <1>5, <1>6, <1>7 DEF PauseInv

\* A send in progress, beside no reconciliation.
LEMMA SendStepPauses ==
    ASSUME SendTypeOK, PauseInv, NEW d \in Drafts, SendMoves(d)
    PROVE  PauseInv'
<1> DEFINE type == sender[d].type
<1>1. /\ Sending(d) /\ type \in DocTypes /\ type # NoType
      /\ draft[d].sendState = "sending" /\ draft[d].attempt = type /\ ~draft[d].archived
      /\ doubt[d] => sender[d].pc = "waiting"
      /\ UNCHANGED recon
    <2>1. sender[d] \in Sender /\ UNCHANGED recon
        BY DEF SendMoves
    <2>2. Sending(d) /\ type \in DocTypes /\ type # NoType
        BY <2>1, NoTypeAssumption DEF Sender, Sending
    <2>3. QED
        BY <2>1, <2>2 DEF PauseInv, Paused, Unresolved
<1>2. Paused(d)'
    <2>1. CASE Proceeds(d)
        <3>1. draft'[d] = draft[d] /\ sender'[d].type = type
            BY <2>1 DEF Proceeds
        <3>2. doubt'[d] => sender'[d].pc = "waiting"
            BY <1>1, <2>1 DEF Proceeds
        <3>3. QED
            BY <1>1, <3>1, <3>2 DEF Paused, Unresolved, Sending
    <2>2. CASE Leaves(d)
        <3>1. ~Sending(d)'
            BY <2>2 DEF Leaves, NoSend, Sending
        <3>2. ASSUME draft'[d] = draft[d] PROVE Paused(d)'
            BY <1>1, <3>1, <3>2 DEF Paused, Unresolved
        <3>3. ASSUME NEW state \in {"failed", "unknown"}, State(attempt', d, type) = state,
                     draft'[d].sendState = state, Kept(draft[d], draft'[d]),
                     doubt'[d] => doubt[d] /\ (state = "unknown" \/ sender[d].pc = "posting")
              PROVE  Paused(d)'
            <4>1. doubt'[d] => state = "unknown"
                BY <1>1, <3>3
            <4>2. draft'[d].attempt = type /\ ~draft'[d].archived
                BY <1>1, <3>3 DEF Kept
            <4>3. QED
                BY <1>1, <3>1, <3>3, <4>1, <4>2 DEF Paused, Unresolved
        <3>4. ASSUME draft'[d].sendState = "succeeded", State(attempt', d, type) = "succeeded",
                     draft'[d].attempt = draft[d].attempt,
                     sender[d].pc = "returned", doubt'[d] = doubt[d]
              PROVE  Paused(d)'
            BY <1>1, <3>1, <3>4 DEF Paused, Unresolved, State
        <3>5. ASSUME draft'[d].sendState = "unknown", Kept(draft[d], draft'[d])
              PROVE  Paused(d)'
            BY <1>1, <3>1, <3>5 DEF Paused, Unresolved, Kept
        <3>6. CASE \E state \in {"failed", "unknown"} :
                 /\ State(attempt', d, type) = state
                 /\ draft'[d].sendState = state /\ Kept(draft[d], draft'[d])
                 /\ doubt'[d] => doubt[d] /\ (state = "unknown" \/ sender[d].pc = "posting")
            BY <3>3, <3>6
        <3>7. QED
            BY <1>1, <2>2, <3>2, <3>4, <3>5, <3>6 DEF Leaves
    <2>3. QED
        BY <2>1, <2>2 DEF SendMoves
<1>3. \A e \in Drafts \ {d} : Paused(e)'
    BY UntouchedPauses DEF SendMoves, PauseInv
<1>4. ASSUME NEW r \in Sessions, NEW e \in Drafts, Reconciling(r), recon[r].draft = e
      PROVE  Relies(r, e)'
    <2>1. Relies(r, e)
        BY <1>4 DEF PauseInv
    <2>2. e # d
        BY <1>1, <2>1 DEF Relies
    <2>3. QED
        BY <1>1, <2>1, <2>2, UntouchedPauses DEF SendMoves
<1>5. QED
    BY <1>1, <1>2, <1>3, <1>4 DEF PauseInv, Reconciling

\* Xero answers a send that waits.
LEMMA AnswersPause ==
    ASSUME SendTypeOK, PauseInv, NEW m, AnswerMoves(m)
    PROVE  PauseInv'
<1>1. UNCHANGED <<draft, attempt, recon, doubt>>
    BY DEF AnswerMoves
<1>2. ASSUME NEW d \in Drafts
      PROVE  /\ Sending(d)' <=> Sending(d)
             /\ sender'[d].type = sender[d].type /\ sender'[d].pc = sender[d].pc
    BY DEF AnswerMoves, Sending
<1>3. ASSUME NEW d \in Drafts
      PROVE  (Paused(d)' <=> Paused(d)) /\ \A r \in Sessions : Relies(r, d)' <=> Relies(r, d)
    BY <1>1, <1>2 DEF Paused, Relies, State
<1>4. QED
    BY <1>1, <1>3 DEF PauseInv, Reconciling

\* Reconciliations: each settles its own draft.
LEMMA ReconStepPauses ==
    ASSUME SendTypeOK, PauseInv, OneAtATime,
           NEW r \in Sessions, NEW d \in Drafts, ReconMoves(r, d)
    PROVE  PauseInv'
<1> DEFINE call == recon[r]
<1>1. /\ call.draft = d
      /\ \A q \in Sessions \ {r} : recon'[q] = recon[q]
      /\ \A e \in Drafts \ {d} : Untouched(e) /\ doubt'[e] = doubt[e]
      /\ doubt'[d] = doubt[d] \/ (doubt'[d] = FALSE /\ ~Sending(d))
    BY DEF ReconMoves, PauseInv
<1> DEFINE Others(e) == \A q \in Sessions \ {r} : Reconciling(q) /\ recon[q].draft = e => Relies(q, e)'
<1>3. ASSUME NEW e \in Drafts \ {d}
      PROVE  Paused(e)' /\ Others(e)
    BY <1>1, UntouchedPauses DEF PauseInv
<1>4. ASSUME Paused(d)', Others(d),
             Reconciling(r)' => Reconciling(r) /\ recon'[r].draft = d /\ Relies(r, d)'
      PROVE  PauseInv'
    <2>1. \A e \in Drafts : Paused(e)' /\ Others(e)
        BY <1>3, <1>4
    <2>2. \A q \in Sessions \ {r} : Reconciling(q)' <=> Reconciling(q)
        BY <1>1 DEF Reconciling
    <2>3. ASSUME NEW q \in Sessions, Reconciling(q)'
          PROVE  Reconciling(q) /\ recon'[q].draft = recon[q].draft
        <3>1. CASE q = r
            BY <1>1, <1>4, <2>3, <3>1
        <3>2. CASE q # r
            BY <1>1, <2>2, <2>3, <3>2
        <3>3. QED
            BY <3>1, <3>2
    <2>4. \A q \in Sessions, e \in Drafts :
            Reconciling(q)' /\ recon'[q].draft = e => Relies(q, e)'
        <3>1. ASSUME NEW q \in Sessions \ {r}, NEW e \in Drafts,
                     Reconciling(q)', recon'[q].draft = e
              PROVE  Relies(q, e)'
            BY <2>1, <2>3, <3>1
        <3>2. ASSUME NEW e \in Drafts, Reconciling(r)', recon'[r].draft = e
              PROVE  Relies(r, e)'
            BY <1>4, <3>2
        <3>3. QED
            BY <3>1, <3>2
    <2>5. QED
        BY <2>1, <2>4 DEF PauseInv
<1>5. Reconciling(r) =>
        /\ Relies(r, d)
        /\ \A q \in Sessions \ {r} : ~(Reconciling(q) /\ recon[q].draft = d)
    <2>1. recon[r].draft = d
        BY <1>1
    <2>2. QED
        BY <2>1 DEF PauseInv, OneAtATime
<1>6. Reconciling(r) => Others(d)
    BY <1>5
<1>7. CASE call.pc = "lookup" /\ Untouched(d) /\ GoesOn(r, "settleAttempt") /\ (doubt'[d] => Sending(d))
    <2>1. Reconciling(r) /\ Relies(r, d) /\ Paused(d)
        BY <1>5, <1>7 DEF Reconciling, PauseInv
    <2>2. ~Sending(d) /\ ~doubt'[d] /\ recon'[r].pc = "settleAttempt"
          /\ recon'[r].draft = d /\ recon'[r].type = call.type
        <3>1. ~Sending(d)
            BY <2>1 DEF Relies
        <3>2. ~doubt'[d]
            BY <1>7, <3>1
        <3>3. recon[r].draft = d
            BY <1>1
        <3>4. QED
            BY <1>7, <3>1, <3>2, <3>3 DEF GoesOn
    <2>3. Paused(d)' /\ Relies(r, d)'
        BY <1>7, <2>1, <2>2 DEF Paused, Relies, Untouched, Sending
    <2>4. QED
        BY <1>4, <1>6, <2>1, <2>2, <2>3
<1>8. CASE IsOver(r) /\ Untouched(d) /\ doubt'[d] = doubt[d]
    <2>1. ~Reconciling(r)'
        BY <1>8 DEF IsOver, Reconciling
    <2>2. Paused(d)' /\ Others(d)
        BY <1>1, <1>8, UntouchedPauses DEF PauseInv
    <2>3. QED
        BY <1>4, <2>1, <2>2
<1>9. CASE /\ call.pc = "settleAttempt" /\ GoesOn(r, "settleDraft")
           /\ draft'[d] = draft[d] /\ sender'[d] = sender[d]
           /\ \A t \in DocTypes :
                State(attempt', d, t) =
                    IF t = call.type /\ State(attempt, d, t) \in {"unknown", "sending"}
                       THEN "failed" ELSE State(attempt, d, t)
    <2>1. Reconciling(r) /\ Relies(r, d) /\ Paused(d)
        BY <1>5, <1>9 DEF Reconciling, PauseInv
    <2>2. /\ ~Sending(d)' /\ ~doubt'[d] /\ recon'[r].pc = "settleDraft"
          /\ recon'[r].draft = d /\ recon'[r].type = call.type
        <3>1. ~Sending(d) /\ ~doubt[d]
            BY <1>9, <2>1 DEF Relies
        <3>2. ~doubt'[d]
            BY <1>1, <3>1
        <3>3. recon[r].draft = d
            BY <1>1
        <3>4. QED
            BY <1>9, <3>1, <3>2, <3>3 DEF GoesOn, Sending
    <2>3. /\ draft[d].attempt \in DocTypes /\ draft[d].attempt = call.type
        BY <2>1 DEF Relies, SendTypeOK, TypeOK, DraftRow
    <2>4. State(attempt', d, draft[d].attempt) \notin {"unknown", "sending"}
        BY <1>9, <2>3
    <2>5. Paused(d)' /\ Relies(r, d)'
        BY <1>9, <2>1, <2>2, <2>3, <2>4 DEF Paused, Relies, Sending
    <2>6. QED
        BY <1>4, <1>6, <2>1, <2>2, <2>5
<1>10. CASE /\ call.pc = "settleDraft"
            /\ GoesOn(r, "resend") \/ IsOver(r)
            /\ sender'[d] = sender[d] /\ attempt'[d] = attempt[d]
            /\ IF draft[d].attempt = call.type
                  THEN draft'[d].sendState = "failed" /\ Kept(draft[d], draft'[d])
                  ELSE draft'[d] = draft[d]
    <2>1. Reconciling(r) /\ Relies(r, d) /\ Paused(d)
        BY <1>5, <1>10 DEF Reconciling, PauseInv
    <2>2. ~Sending(d)' /\ ~doubt'[d] /\ ~Reconciling(r)'
        BY <1>1, <1>10, <2>1 DEF Relies, GoesOn, IsOver, Sending, Reconciling
    <2>3. draft'[d].sendState = "failed" /\ draft'[d].attempt = draft[d].attempt
        BY <1>10, <2>1 DEF Relies, Kept
    <2>4. State(attempt, d, draft[d].attempt)' = State(attempt, d, draft[d].attempt)
        BY <1>10, <2>3 DEF State
    <2>5. Paused(d)'
        BY <1>10, <2>1, <2>2, <2>3, <2>4 DEF Paused, Relies, Unresolved
    <2>6. QED
        BY <1>4, <1>6, <2>1, <2>2, <2>5
<1>11. CASE /\ call.pc = "resend" /\ ~Sending(d)
            /\ Opened(d, call.version, call.lookType, call.found)
            /\ recon'[r].pc \in {"idle", "resending"} /\ (r # Job => recon'[r].pc = "idle")
    <2>1. \A e \in Drafts : doubt'[e] = doubt[e]
        <3>1. ~doubt[d]
            BY <1>11 DEF Opened, PauseInv, Paused, Unresolved, SendSettled
        <3>2. doubt[d] \in BOOLEAN
            BY DEF SendTypeOK
        <3>3. QED
            BY <1>1, <3>1, <3>2
    <2>2. \A q \in Sessions : recon'[q] = recon[q] \/ ~Reconciling(q)'
        BY <1>1, <1>11 DEF Reconciling
    <2>3. call.lookType \in DocTypes
        BY DEF ReconMoves, Recon
    <2>4. QED
        BY <1>11, <2>1, <2>2, <2>3, OpenedPauses
<1>12. QED
    BY <1>7, <1>8, <1>9, <1>10, <1>11 DEF ReconMoves

\* A reconciliation begins, of a draft no other one is reconciling.
LEMMA ReconBeginPauses ==
    ASSUME SendTypeOK, PauseInv, OneAtATime',
           NEW d \in Drafts, NEW r \in Sessions, ReconOpened(d, r)
    PROVE  PauseInv'
<1>1. /\ \A e \in Drafts : Untouched(e) /\ doubt'[e] = doubt[e]
      /\ \A q \in Sessions \ {r} : recon'[q] = recon[q]
      /\ Reconciling(r)' /\ recon'[r].draft = d
    BY DEF ReconOpened, Untouched, Reconciling
<1>2. \A e \in Drafts : Paused(e)'
    BY <1>1, UntouchedPauses DEF PauseInv
<1>3. Relies(r, d)'
    <2>1. Unresolved(draft[d])
        BY DEF ReconOpened, PauseInv, Paused
    <2>2. QED
        BY <2>1 DEF ReconOpened, Relies, Sending
<1>4. ASSUME NEW q \in Sessions \ {r}, NEW e \in Drafts, Reconciling(q)', recon'[q].draft = e
      PROVE  Relies(q, e)'
    <2>1. Reconciling(q) /\ recon[q].draft = e
        BY <1>1, <1>4 DEF Reconciling
    <2>2. Relies(q, e)
        BY <2>1 DEF PauseInv
    <2>3. QED
        BY <1>1, <2>2, UntouchedPauses
<1>5. QED
    BY <1>1, <1>2, <1>3, <1>4 DEF PauseInv

\* The job only takes and gives back the lock, or its reconciliation begins.
LEMMA JobPauses ==
    ASSUME SendTypeOK, PauseInv, OneAtATime', JobStep
    PROVE  PauseInv'
<1> DEFINE call == recon[Job]
           d == call.draft
<1>1. call \in Recon /\ d \in Drafts /\ draft[d] \in DraftRow
    BY JobAssumption DEF SendTypeOK, TypeOK, Recon
<1>2. CASE ReconBegins(d, Job, call.version)
    <2>1. ReconOpened(d, Job)
        BY <1>1, <1>2, JobAssumption, ReconBeginOpens
    <2>2. QED
        BY <1>1, <2>1, JobAssumption, ReconBeginPauses
<1>3. CASE ~ReconBegins(d, Job, call.version)
    <2>1. /\ UNCHANGED <<attempt, sender, doubt>>
          /\ \A q \in Sessions \ {Job} : recon'[q] = recon[q]
          /\ ~Reconciling(Job)'
        <3>1. UNCHANGED <<attempt, sender, doubt>>
            BY <1>3 DEF JobStep, JobPicks, JobClaims, JobReconciles, JobIsDone
        <3>2. ASSUME NEW next, SetRecon(Job, next),
                     next.pc \notin {"lookup", "settleAttempt", "settleDraft"}
              PROVE  (\A q \in Sessions \ {Job} : recon'[q] = recon[q]) /\ ~Reconciling(Job)'
            BY <3>2, JobAssumption DEF SetRecon, SendTypeOK, Reconciling
        <3>3. ASSUME NEW e \in Drafts, JobPicks(e)
              PROVE  (\A q \in Sessions \ {Job} : recon'[q] = recon[q]) /\ ~Reconciling(Job)'
            <4> DEFINE next == [NoRecon EXCEPT !.pc = "picked", !.draft = e,
                                               !.version = draft[e].version]
            <4>1. SetRecon(Job, next)
                BY <3>3 DEF JobPicks
            <4>2. next.pc = "picked"
                BY DEF NoRecon
            <4>3. QED
                BY <3>2, <4>1, <4>2
        <3>4. [call EXCEPT !.pc = "claimed"].pc = "claimed" /\ NoRecon.pc = "idle"
              /\ Over(Job).pc = "release"
            BY <1>1 DEF Recon, NoRecon, Over
        <3>5. CASE JobClaims
            BY <3>2, <3>4, <3>5 DEF JobClaims
        <3>6. CASE JobReconciles
            BY <1>3, <3>2, <3>4, <3>6 DEF JobReconciles
        <3>7. CASE JobIsDone
            BY <3>2, <3>4, <3>7 DEF JobIsDone
        <3>8. QED
            BY <3>1, <3>3, <3>5, <3>6, <3>7 DEF JobStep
    <2>2. /\ Granted(draft[d], Job).sendState = draft[d].sendState
          /\ Granted(draft[d], Job).attempt = draft[d].attempt
          /\ Granted(draft[d], Job).archived = draft[d].archived
          /\ Released(draft[d]).sendState = draft[d].sendState
          /\ Released(draft[d]).attempt = draft[d].attempt
          /\ Released(draft[d]).archived = draft[d].archived
        BY <1>1 DEF Granted, Released, DraftRow
    <2>3. \/ Put(d, Granted(draft[d], Job)) \/ Put(d, Released(draft[d])) \/ Put(d, draft[d])
          \/ UNCHANGED draft
        BY <1>3 DEF JobStep, JobPicks, JobClaims, JobReconciles, JobIsDone, draftVars
    <2>4. ASSUME NEW e \in Drafts
          PROVE  /\ draft'[e].sendState = draft[e].sendState
                 /\ draft'[e].attempt = draft[e].attempt
                 /\ draft'[e].archived = draft[e].archived
        <3>1. \/ draft'[e] = draft[e]
              \/ e = d /\ draft'[d] \in {Granted(draft[d], Job), Released(draft[d])}
            BY <1>1, <2>3 DEF Put, SendTypeOK, TypeOK
        <3>2. QED
            BY <2>2, <3>1
    <2>5. \A e \in Drafts : Paused(e)'
        BY <2>1, <2>4 DEF PauseInv, Paused, Sending, State, Unresolved
    <2>6. ASSUME NEW q \in Sessions, NEW e \in Drafts, Reconciling(q)', recon'[q].draft = e
          PROVE  Relies(q, e)'
        <3>1. recon'[q] = recon[q] /\ Reconciling(q) /\ Relies(q, e)
            BY <2>1, <2>6 DEF PauseInv, Reconciling
        <3>2. QED
            BY <2>1, <2>4, <3>1 DEF Relies, Sending, State, Unresolved
    <2>7. QED
        BY <2>5, <2>6 DEF PauseInv
<1>4. QED
    BY <1>2, <1>3

\* So every step between states without overlapping reconciliations keeps it.
LEMMA PauseStep ==
    ASSUME OneAtATime, OneAtATime', SendTypeOK, PauseInv, SendNext
    PROVE  PauseInv'
<1>1. ASSUME NEW d \in Drafts, NEW s \in Users, NEW type \in DocTypes, UserSends(d, s, type)
      PROVE  PauseInv'
    <2>1. Opened(d, draft[d].version, type, NoDoc) /\ UNCHANGED <<recon, doubt>>
        BY <1>1, BeginOpens DEF UserSends
    <2>2. QED
        BY <2>1, OpenedPauses
<1>2. ASSUME NEW r \in Sessions, ReconStep(r) PROVE PauseInv'
    <2>1. ReconMoves(r, recon[r].draft) /\ recon[r].draft \in Drafts
        BY <1>2, ReconStepMoves DEF SendTypeOK, Recon
    <2>2. PICK d \in Drafts : ReconMoves(r, d)
        BY <2>1
    <2>3. QED
        BY <2>2, ReconStepPauses
<1>3. ASSUME NEW d \in Drafts, NEW r \in Users, UserReconciles(d, r) PROVE PauseInv'
    <2>1. ReconOpened(d, r) /\ r \in Sessions
        BY <1>3, ReconBeginOpens DEF UserReconciles, Users
    <2>2. QED
        BY <2>1, ReconBeginPauses
<1>4. QED
    BY <1>1, <1>2, <1>3, EditorsPause, SendStepMoves, SendStepPauses, XeroMoves, AnswersPause,
       JobPauses DEF SendNext

\* A draft stays locked until it is known what became of its request, as long as
\* no two reconciliations of it overlap: however many editors send, reconcile,
\* leave and come back, with the job, late requests and types of the callers' own,
\* and whatever dies half-way.
THEOREM EditingIsPausedInDoubt == SendSpec /\ []OneAtATime => []EditingPausedInDoubt
<1>1. SendInit => PauseInv
    <2> SUFFICES ASSUME SendInit PROVE PauseInv
        OBVIOUS
    <2>1. ASSUME NEW d \in Drafts
          PROVE  ~Unresolved(draft[d]) /\ draft[d].attempt = NoType /\ ~Sending(d) /\ ~doubt[d]
        <3>1. PICK s \in Users, t \in DocTypes : draft[d] = NewDraft(s, t)
            BY DEF SendInit
        <3>2. ~Unresolved(draft[d]) /\ draft[d].attempt = NoType
            BY <3>1 DEF NewDraft, Unresolved
        <3>3. ~Sending(d)
            BY DEF SendInit, Sending, NoSend
        <3>4. ~doubt[d]
            BY DEF SendInit
        <3>5. QED
            BY <3>2, <3>3, <3>4
    <2>2. \A r \in Sessions : recon[r].pc = "idle"
        BY DEF SendInit, NoRecon
    <2>3. ASSUME NEW d \in Drafts PROVE Paused(d)
        <3>1. ~Sending(d) /\ ~doubt[d] /\ ~Unresolved(draft[d]) /\ draft[d].attempt = NoType
            BY <2>1
        <3>2. QED
            BY <3>1, Zenon DEF Paused
    <2>4. QED
        BY <2>2, <2>3 DEF PauseInv, Reconciling
<1>2. PauseInv /\ UNCHANGED vars => PauseInv'
    BY DEF PauseInv, Paused, Relies, Reconciling, Sending, State, vars, sendVars
<1>3. PauseInv => EditingPausedInDoubt
    BY DEF PauseInv, Paused, EditingPausedInDoubt
<1>4. QED
    BY <1>1, <1>2, <1>3, PauseStep, SendTypeCorrect, PTL DEF SendSpec

=============================================================================
