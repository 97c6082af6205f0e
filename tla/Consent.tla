------------------------------- MODULE Consent -------------------------------
(***************************************************************************)
(* The path of one consequential page action through BrowserService: the   *)
(* client asks, the worker prepares, the service proposes or consumes a    *)
(* human approval, records the dispatch, sends it to the worker and        *)
(* settles the reply.  The path is a coroutine: every await is a step of   *)
(* its own, and between two of them the clock runs, pages change, browsers *)
(* die, the console purges proposals and the whole service may crash.      *)
(*                                                                         *)
(* One command holds the service's lock from its first check to its last   *)
(* reply, so `cmd' is both the lock and the frame of the coroutine.        *)
(*                                                                         *)
(* What is abstracted: a tab is part of its session; a session's idle TTL  *)
(* is module Works's (a live session may be used at any time here);        *)
(* `place' is what a target binding holds beside the document and the node *)
(* (address, frame, viewport); a request the service refuses before its    *)
(* first await changes nothing and is not a step.                          *)
(***************************************************************************)
EXTENDS Naturals, FiniteSets

CONSTANTS
    Sessions,     \* pool of work ids, each random and used once
    Actions,      \* exact action arguments a client may send
    Passive,      \* the actions of a passive type: they leave no dispatch record
    Tokens,       \* pool of confirmation tokens, each random and issued once
    Places,       \* addresses a document can show
    Home,         \* the place a new page shows
    NoSession, NoAction, NoToken,
    Automatic,    \* the policy: where an action needs no approval, as <<action, place>>
    ApprovalTTL,  \* cfg.approval_ttl: of a proposal, and anew of an approval
    ConsumedTTL,  \* 86400: of a consumed approval
    RecordTTL,    \* max(86400, cfg.session_ttl): of a dispatch record
    MaxPending,   \* open proposals at once (32 in the code)
    MaxRev,       \* bound: revisions per page
    MaxEpoch,     \* bound: control transitions per session
    MaxTime       \* bound: the clock

ASSUME ConsentConstants ==
    /\ Passive \subseteq Actions
    /\ Home \in Places /\ Automatic \subseteq Actions \X Places
    /\ NoSession \notin Sessions /\ NoAction \notin Actions /\ NoToken \notin Tokens
    /\ ApprovalTTL \in Nat \ {0} /\ ConsumedTTL \in Nat \ {0}
    /\ RecordTTL \in Nat /\ RecordTTL >= ConsumedTTL
    /\ MaxPending \in Nat /\ MaxRev \in Nat /\ MaxEpoch \in Nat /\ MaxTime \in Nat

VARIABLES
    now,        \* time.time()
    status,     \* sessions: "unopened", "live", "gone"
    epoch,      \* sessions[sid]["approval_epoch"]
    uncertain,  \* sessions[sid]["uncertain"]
    page,       \* the browser: current revision, first revision of its document, place
    lease,      \* leases[sid]["state"], "none" when there is no lease
    approval,   \* store kind "approval", by token
    pending,    \* pending: when the token's review item expires, 0 when there is none
    execution,  \* store kind "execution", by binding: when it expires, 0 when there is none
    cmd,        \* the command that holds self.lock
    running,    \* journal entries of finished commands left in state "running"
    \* history; only the freshness of a token reads it
    effects,    \* what browsers did
    answer,     \* what became of each token's question, and when it was answered
    unresolved  \* sessions with a dispatch whose outcome nobody has learned

vars == <<now, status, epoch, uncertain, page, lease, approval, pending, execution,
          cmd, running, effects, answer, unresolved>>

memory  == <<status, epoch, uncertain, lease>>
records == <<approval, pending, execution>>
history == <<effects, answer, unresolved>>

Revisions == 0..MaxRev
Targets   == [doc : Revisions, place : Places]
Pages     == [rev : Revisions, doc : Revisions, place : Places]
Bindings  == [sid : Sessions, rev : Revisions, act : Actions]
Stages    == {"idle", "preparing", "dispatched", "completing",
              "focusing", "resuming", "closing"}
LeaseStates == {"none", "active", "returning", "cancelled", "completed"}

BlankPage  == [rev |-> 0, doc |-> 0, place |-> Home]
NoTarget   == [doc |-> 0, place |-> Home]
NoApproval == [state |-> "none", sid |-> NoSession, epoch |-> 0, act |-> NoAction,
               target |-> NoTarget, expires |-> 0]
Approvals  == [state : {"none", "pending", "approved", "denied", "consumed"},
               sid : Sessions \cup {NoSession}, epoch : 0..MaxEpoch,
               act : Actions \cup {NoAction}, target : Targets, expires : Nat]
Idle       == [stage |-> "idle", sid |-> NoSession, rev |-> 0, act |-> NoAction,
               token |-> NoToken, target |-> NoTarget, at |-> 0,
               done |-> FALSE, window |-> 0, item |-> 0]
Commands   == [stage : Stages, sid : Sessions \cup {NoSession}, rev : Revisions,
               act : Actions \cup {NoAction}, token : Tokens \cup {NoToken},
               target : Targets, at : Nat,
               done : BOOLEAN, window : Nat, item : Nat]
Effects    == [sid : Sessions, rev : Revisions, act : Actions, at : Nat,
               token : Tokens \cup {NoToken}]
Answers    == [word : {"unasked", "asked", "yes", "no", "withdrawn"}, at : Nat]
-----------------------------------------------------------------------------
\* Reading the state

\* Store.get: a row whose time has come does not exist.
Lives(expires) == expires > now

Live(t) == approval[t].state # "none" /\ Lives(approval[t].expires)

\* approval.decide, on the page as it is.
Gated(a, target) == <<a, target.place>> \notin Automatic

\* _check_control: any active or returning lease pauses every session.
Uncontrolled_OwnOnly(s) == lease[s] \notin {"active", "returning"}
Uncontrolled(s) == \A o \in Sessions : lease[o] \notin {"active", "returning"}

Unlocked == cmd.stage = "idle"

Binding(c) == [sid |-> c.sid, rev |-> c.rev, act |-> c.act]
BindingOf(e) == [sid |-> e.sid, rev |-> e.rev, act |-> e.act]

Undispatched_Unrecorded(b) == TRUE
Undispatched(b) == ~Lives(execution[b])

\* What _act demands of a token before it prepares.
Authorised_AnySession(t, s, a) ==
    t # NoToken => /\ Live(t)
                   /\ approval[t].act = a /\ approval[t].epoch = epoch[s]
                   /\ approval[t].state = "approved"
Authorised(t, s, a) ==
    t # NoToken => /\ Live(t)
                   /\ approval[t].sid = s /\ approval[t].act = a
                   /\ approval[t].epoch = epoch[s]
                   /\ approval[t].state = "approved"

\* The worker's staleness test: the revision was seen on the current document.
Current(c) == page[c.sid].doc <= c.rev

Target(s) == [doc |-> page[s].doc, place |-> page[s].place]

\* Review items about the same session, epoch, action and target.
Duplicate_PendingOnly(t) ==
    /\ Lives(pending[t]) /\ Live(t)
    /\ approval[t].sid = cmd.sid /\ approval[t].epoch = epoch[cmd.sid]
    /\ approval[t].act = cmd.act /\ approval[t].target = Target(cmd.sid)
    /\ approval[t].state = "pending"
Duplicate(t) ==
    /\ Lives(pending[t]) /\ Live(t)
    /\ approval[t].sid = cmd.sid /\ approval[t].epoch = epoch[cmd.sid]
    /\ approval[t].act = cmd.act /\ approval[t].target = Target(cmd.sid)

Full == Cardinality({t \in Tokens : Lives(pending[t])}) >= MaxPending

\* Rows and review items that expired are as good as gone: every read tests the
\* time, Store.put deletes the rows, and _approval_summaries and _act the items.
Unexpired(expires, time) == IF expires > time THEN expires ELSE 0
-----------------------------------------------------------------------------
\* Parts of steps

\* The handler ends and releases the lock.
Finish_KeepFrame == cmd' = [cmd EXCEPT !.stage = "idle"]
Finish == cmd' = Idle

\* The state of a session that ended is gone, and so are its page and its doubts.
Cleared(S) ==
    /\ status' = [s \in Sessions |-> IF s \in S THEN "gone" ELSE status[s]]
    /\ epoch' = [s \in Sessions |-> IF s \in S THEN 0 ELSE epoch[s]]
    /\ uncertain' = [s \in Sessions |-> s \notin S /\ uncertain[s]]
    /\ page' = [s \in Sessions |-> IF s \in S THEN BlankPage ELSE page[s]]
    /\ lease' = [s \in Sessions |-> IF s \in S THEN "none" ELSE lease[s]]
    /\ unresolved' = unresolved \ S

LiveSessions == {s \in Sessions : status[s] = "live"}

Without(s) == [t \in Tokens |-> IF approval[t].sid = s THEN 0 ELSE pending[t]]

\* _forget: a session ends, and its review items with it.
Forget(s) == Cleared({s}) /\ pending' = Without(s)

\* _rpc, when the worker itself failed: every session and lease goes; the review
\* items stay until they expire.
ForgetAll == Cleared(LiveSessions)

\* _invalidate_approvals: a control transition of session s.
Invalidate_Keep(s) ==
    UNCHANGED <<epoch, approval, pending>>
Invalidate(s) ==
    /\ epoch' = [epoch EXCEPT ![s] = @ + 1]
    /\ approval' = [t \in Tokens |-> IF pending[t] > 0 /\ approval[t].sid = s
                                     THEN NoApproval ELSE approval[t]]
    /\ pending' = Without(s)

\* The human takes session s over: no earlier answer about it counts any more.
TakeOver(s) ==
    answer' = [t \in Tokens |-> IF approval[t].sid = s
                                THEN [word |-> "withdrawn", at |-> 0] ELSE answer[t]]

\* Nobody learned whether the dispatch took place: the session is closed to
\* further actions until a human has looked.
LoseOutcome(s) ==
    /\ uncertain' = [uncertain EXCEPT ![s] = TRUE]
    /\ unresolved' = unresolved \cup {s}

Settled_Ignored(s) == TRUE
Settled(s) == ~uncertain[s]

\* The worker guaranteed that nothing was sent: take the dispatch record back,
\* and the approval too, for what is left of its window.
RestoredExpiry(window) == window

LeavesRecord == cmd.token # NoToken \/ cmd.act \notin Passive

Restore ==
    /\ execution' = IF LeavesRecord THEN [execution EXCEPT ![Binding(cmd)] = 0] ELSE execution
    /\ approval' =
         IF cmd.token # NoToken /\ Live(cmd.token)
              /\ approval[cmd.token].state = "consumed" /\ Lives(cmd.window)
         THEN [approval EXCEPT ![cmd.token].state = "approved",
                               ![cmd.token].expires = RestoredExpiry(cmd.window)]
         ELSE approval

\* The review item put back with the approval, whatever happened to its session.
RestoredItems(items) ==
    IF cmd.token # NoToken /\ Live(cmd.token)
         /\ approval[cmd.token].state = "consumed" /\ Lives(cmd.window) /\ cmd.item > 0
    THEN [items EXCEPT ![cmd.token] = cmd.item]
    ELSE items
-----------------------------------------------------------------------------
Init ==
    /\ now = 0
    /\ status = [s \in Sessions |-> "unopened"]
    /\ epoch = [s \in Sessions |-> 0]
    /\ uncertain = [s \in Sessions |-> FALSE]
    /\ page = [s \in Sessions |-> BlankPage]
    /\ lease = [s \in Sessions |-> "none"]
    /\ approval = [t \in Tokens |-> NoApproval]
    /\ pending = [t \in Tokens |-> 0]
    /\ execution = [b \in Bindings |-> 0]
    /\ cmd = Idle
    /\ running = 0
    /\ effects = {}
    /\ answer = [t \in Tokens |-> [word |-> "unasked", at |-> 0]]
    /\ unresolved = {}
-----------------------------------------------------------------------------
\* Sessions and their pages

\* _open: a session under a fresh random id.
OpenSession(s) ==
    /\ Unlocked /\ Uncontrolled(s) /\ status[s] = "unopened"
    /\ status' = [status EXCEPT ![s] = "live"]
    /\ UNCHANGED <<now, epoch, uncertain, page, lease, records, cmd, running, history>>

\* _close, and _reap_expired of an idle session.
CloseSession(s) ==
    /\ Unlocked /\ Uncontrolled(s) /\ status[s] = "live"
    /\ Forget(s)
    /\ UNCHANGED <<now, approval, execution, cmd, running, effects, answer>>

\* Any other command's RPC finds the session's browser gone.
BrowserDisconnects(s) ==
    /\ Unlocked /\ status[s] = "live"
    /\ Forget(s)
    /\ UNCHANGED <<now, approval, execution, cmd, running, effects, answer>>

\* Any other command's RPC finds the worker gone.
WorkerStops ==
    /\ Unlocked
    /\ ForgetAll
    /\ UNCHANGED <<now, records, cmd, running, effects, answer>>

\* The page runs on its own: a new revision, perhaps a new document or place.
PageDrifts(s, newDocument, place) ==
    LET rev == page[s].rev + 1
    IN  /\ status[s] = "live" /\ rev <= MaxRev
        /\ page' = [page EXCEPT ![s] =
                      [rev |-> rev, place |-> place,
                       doc |-> IF newDocument THEN rev ELSE page[s].doc]]
        /\ UNCHANGED <<now, memory, records, cmd, running, history>>
-----------------------------------------------------------------------------
\* _act, from the client's request to the worker's answer to "prepare"

ActBegins(s, rev, a, t) ==
    LET c == [Idle EXCEPT !.stage = "preparing", !.sid = s, !.rev = rev, !.act = a, !.token = t]
    IN  /\ Unlocked /\ Uncontrolled(s)
        /\ status[s] = "live" /\ Settled(s)
        /\ rev <= page[s].rev
        /\ Undispatched(Binding(c))
        /\ Authorised(t, s, a)
        /\ cmd' = c
        /\ UNCHANGED <<now, memory, page, records, running, history>>

\* The worker refuses: a stale revision or node, or another error of this page.
PrepareFails ==
    /\ cmd.stage = "preparing"
    /\ Finish
    /\ UNCHANGED <<now, memory, page, records, running, history>>

BrowserLostInPrepare ==
    /\ cmd.stage = "preparing"
    /\ Forget(cmd.sid)
    /\ Finish
    /\ UNCHANGED <<now, approval, execution, running, effects, answer>>

Prepared == cmd.stage = "preparing" /\ Current(cmd)

\* The approval's time ran out while the worker prepared: record is None, and
\* None.get is an AttributeError, which no handler up to the journal catches.
ApprovalLapsesInFlight ==
    /\ Prepared /\ cmd.token # NoToken /\ ~Live(cmd.token)
    /\ running' = running + 1
    /\ Finish
    /\ UNCHANGED <<now, memory, page, records, history>>

\* CONFIRMATION_STALE: the target is not the approved one.
TargetChanged ==
    /\ Prepared /\ cmd.token # NoToken /\ Live(cmd.token)
    /\ approval[cmd.token].target # Target(cmd.sid)
    /\ Finish
    /\ UNCHANGED <<now, memory, page, records, running, history>>

\* A gated action without a token asks for one.
Asking == Prepared /\ cmd.token = NoToken /\ Gated(cmd.act, Target(cmd.sid))

\* The same proposal is open or decided already, or too many are open.
ProposalNotAdded ==
    /\ Asking
    /\ (\E t \in Tokens : Duplicate(t)) \/ Full
    /\ Finish
    /\ UNCHANGED <<now, memory, page, records, running, history>>

Propose(t) ==
    /\ Asking
    /\ ~\E u \in Tokens : Duplicate(u)
    /\ ~Full
    /\ answer[t].word = "unasked"
    /\ answer' = [answer EXCEPT ![t].word = "asked"]
    /\ approval' = [approval EXCEPT ![t] =
                      [state |-> "pending", sid |-> cmd.sid, epoch |-> epoch[cmd.sid],
                       act |-> cmd.act, target |-> Target(cmd.sid),
                       expires |-> now + ApprovalTTL]]
    /\ pending' = [pending EXCEPT ![t] = now + ApprovalTTL]
    /\ Finish
    /\ UNCHANGED <<now, memory, page, execution, running, effects, unresolved>>

\* The dispatch record of this binding, then the RPC "act".
Dispatch(window, item) ==
    /\ execution' = IF LeavesRecord
                    THEN [execution EXCEPT ![Binding(cmd)] = now + RecordTTL]
                    ELSE execution
    /\ cmd' = [cmd EXCEPT !.stage = "dispatched", !.at = now, !.target = Target(cmd.sid),
                          !.window = window, !.item = item]

\* The approval as it is stored before the action is sent.
Spent_Not(record) == record
Spent(record) == [record EXCEPT !.state = "consumed", !.expires = now + ConsumedTTL]

\* Consume the approval and record the dispatch in one transaction.
DispatchApproved ==
    /\ Prepared /\ cmd.token # NoToken /\ Live(cmd.token)
    /\ approval[cmd.token].target = Target(cmd.sid)
    /\ approval[cmd.token].state = "approved"
    /\ approval' = [approval EXCEPT ![cmd.token] = Spent(approval[cmd.token])]
    /\ pending' = [pending EXCEPT ![cmd.token] = 0]
    /\ Dispatch(approval[cmd.token].expires, pending[cmd.token])
    /\ UNCHANGED <<now, memory, page, running, history>>

\* The policy asks no approval for this action on this page.
DispatchAutomatic ==
    /\ Prepared /\ cmd.token = NoToken /\ ~Gated(cmd.act, Target(cmd.sid))
    /\ Dispatch(0, 0)
    /\ UNCHANGED <<now, memory, page, approval, pending, running, history>>
-----------------------------------------------------------------------------
\* The worker's "act", and its replies

Dispatched == cmd.stage = "dispatched"

\* The worker prepares once more, drops the new binding, and drives the browser.
BrowserActs ==
    /\ Dispatched /\ ~cmd.done /\ Current(cmd)
    /\ cmd' = [cmd EXCEPT !.done = TRUE]
    /\ effects' = effects \cup
         {[sid |-> cmd.sid, rev |-> cmd.rev, act |-> cmd.act, at |-> cmd.at,
           token |-> cmd.token]}
    /\ UNCHANGED <<now, memory, page, records, running, answer, unresolved>>

\* performed true, or ACTION_GOAL_NOT_MET after the dispatch, or a no-change success.
ActReported ==
    /\ Dispatched
    /\ Finish
    /\ UNCHANGED <<now, memory, page, records, running, history>>

\* performed true, and the client asked for a completion condition.
AwaitCompletion ==
    /\ Dispatched /\ cmd.done
    /\ cmd' = [cmd EXCEPT !.stage = "completing"]
    /\ UNCHANGED <<now, memory, page, records, running, history>>

\* An error with performed false.
ActNotPerformed ==
    /\ Dispatched /\ ~cmd.done
    /\ Restore
    /\ pending' = RestoredItems(pending)
    /\ Finish
    /\ UNCHANGED <<now, memory, page, running, history>>

\* The same error because the browser is gone: _rpc forgets the session first,
\* and the handler then puts the approval and its review item back.
BrowserGoneBeforeAct ==
    /\ Dispatched /\ ~cmd.done
    /\ Cleared({cmd.sid})
    /\ Restore
    /\ pending' = RestoredItems(Without(cmd.sid))
    /\ Finish
    /\ UNCHANGED <<now, running, effects, answer>>

\* The same error because the browser cannot be reached though it may be running:
\* its scope is the worker, so _rpc forgets every session first.
BrowserUnreachableBeforeAct ==
    /\ Dispatched /\ ~cmd.done
    /\ ForgetAll
    /\ Restore
    /\ pending' = RestoredItems(pending)
    /\ Finish
    /\ UNCHANGED <<now, running, effects, answer>>

\* The browser is found gone while the result is put together, after the last
\* handler that would have said whether anything was performed.
BrowserLostInAct ==
    /\ Dispatched
    /\ Forget(cmd.sid)
    /\ Finish
    /\ UNCHANGED <<now, approval, execution, running, effects, answer>>

\* RESULT_UNCERTAIN: a timeout, a broken pipe, or a failure after the dispatch.
ActUncertain ==
    /\ Dispatched
    /\ LoseOutcome(cmd.sid)
    /\ Finish
    /\ UNCHANGED <<now, status, epoch, lease, page, records, running, effects, answer>>

\* SESSION_EXPIRED of the worker: its process was dead, its reply uncorrelated, or
\* the browser unreachable once nothing is said of the performance any more.
WorkerLostInAct ==
    /\ cmd.stage \in {"preparing", "dispatched"}
    /\ ForgetAll
    /\ Finish
    /\ UNCHANGED <<now, records, running, effects, answer>>

\* The completion wait matched, or it ended unmatched but fully observed.
CompletionKnown ==
    /\ cmd.stage = "completing"
    /\ Finish
    /\ UNCHANGED <<now, memory, page, records, running, history>>

\* A partial observation, or a wait that failed while the session lives on.
CompletionUnknown ==
    /\ cmd.stage = "completing"
    /\ LoseOutcome(cmd.sid)
    /\ Finish
    /\ UNCHANGED <<now, status, epoch, lease, page, records, running, effects, answer>>

\* The wait failed because the session ended: sessions[session_id] is a KeyError,
\* which no handler up to the journal catches.
BrowserLostInWait ==
    /\ cmd.stage = "completing"
    /\ Forget(cmd.sid)
    /\ running' = running + 1
    /\ Finish
    /\ UNCHANGED <<now, approval, execution, effects, answer>>

WorkerLostInWait ==
    /\ cmd.stage = "completing"
    /\ ForgetAll
    /\ running' = running + 1
    /\ Finish
    /\ UNCHANGED <<now, records, effects, answer>>
-----------------------------------------------------------------------------
\* The human: the private console

Decidable(t) ==
    /\ Unlocked
    /\ Lives(pending[t]) /\ Live(t) /\ approval[t].state = "pending"
    /\ approval[t].sid \in LiveSessions /\ approval[t].epoch = epoch[approval[t].sid]

\* approve(review_id, True): a window of its own from now on.
Approve(t) ==
    /\ Decidable(t)
    /\ approval' = [approval EXCEPT ![t].state = "approved", ![t].expires = now + ApprovalTTL]
    /\ pending' = [pending EXCEPT ![t] = now + ApprovalTTL]
    /\ answer' = [answer EXCEPT ![t] = [word |-> "yes", at |-> now]]
    /\ UNCHANGED <<now, memory, page, execution, cmd, running, effects, unresolved>>

\* approve(review_id, False): the denial lasts as long as the proposal would have.
Deny(t) ==
    /\ Decidable(t)
    /\ approval' = [approval EXCEPT ![t].state = "denied", ![t].expires = pending[t]]
    /\ answer' = [answer EXCEPT ![t] = [word |-> "no", at |-> now]]
    /\ UNCHANGED <<now, memory, page, pending, execution, cmd, running, effects, unresolved>>

\* _start_handoff: revoke, take the lease, then ask the worker for the focus.
StartHandoff(s) ==
    /\ Unlocked /\ Uncontrolled(s) /\ status[s] = "live" /\ epoch[s] < MaxEpoch
    /\ Invalidate(s)
    /\ TakeOver(s)
    /\ lease' = [lease EXCEPT ![s] = "active"]
    /\ cmd' = [Idle EXCEPT !.stage = "focusing", !.sid = s]
    /\ UNCHANGED <<now, status, uncertain, page, execution, running, effects, unresolved>>

\* Whether or not the focus succeeds the lease stays active.
FocusAnswered ==
    /\ cmd.stage = "focusing"
    /\ Finish
    /\ UNCHANGED <<now, memory, page, records, running, history>>

\* complete_handoff: revoke again, gate the desktop, then resume automation.
CompleteHandoff(s) ==
    /\ Unlocked /\ lease[s] = "active" /\ status[s] = "live" /\ epoch[s] < MaxEpoch
    /\ Invalidate(s)
    /\ TakeOver(s)
    /\ lease' = [lease EXCEPT ![s] = "returning"]
    /\ cmd' = [Idle EXCEPT !.stage = "resuming", !.sid = s]
    /\ UNCHANGED <<now, status, uncertain, page, execution, running, effects, unresolved>>

Resumed ==
    /\ cmd.stage = "resuming"
    /\ lease' = [lease EXCEPT ![cmd.sid] = "completed"]
    /\ uncertain' = [uncertain EXCEPT ![cmd.sid] = FALSE]
    /\ unresolved' = unresolved \ {cmd.sid}
    /\ Finish
    /\ UNCHANGED <<now, status, epoch, page, records, running, effects, answer>>

\* A desktop that does not disconnect in time, or a failed resume.
ResumeFails ==
    /\ cmd.stage = "resuming"
    /\ lease' = [lease EXCEPT ![cmd.sid] = "active"]
    /\ Finish
    /\ UNCHANGED <<now, status, epoch, uncertain, page, records, running, history>>

\* cancel_handoff and reclaim_session: close the session instead of resuming it.
CancelHandoff(s) ==
    /\ Unlocked /\ lease[s] = "active"
    /\ lease' = [lease EXCEPT ![s] = "cancelled"]
    /\ cmd' = [Idle EXCEPT !.stage = "closing", !.sid = s]
    /\ UNCHANGED <<now, status, epoch, uncertain, page, records, running, history>>

ReclaimSession(s) ==
    /\ Unlocked /\ status[s] = "live"
    /\ lease' = [lease EXCEPT ![s] = IF lease[s] = "none" THEN "none" ELSE "returning"]
    /\ cmd' = [Idle EXCEPT !.stage = "closing", !.sid = s]
    /\ UNCHANGED <<now, status, epoch, uncertain, page, records, running, history>>

\* The session is closed, or its browser was found gone.
SessionClosed ==
    /\ cmd.stage = "closing"
    /\ Forget(cmd.sid)
    /\ Finish
    /\ UNCHANGED <<now, approval, execution, running, effects, answer>>

CloseFails ==
    /\ cmd.stage = "closing"
    /\ lease' = [lease EXCEPT ![cmd.sid] = IF lease[cmd.sid] = "none" THEN "none" ELSE "active"]
    /\ Finish
    /\ UNCHANGED <<now, status, epoch, uncertain, page, records, running, history>>

\* The RPC of a control transition finds the browser, or the worker, gone.
BrowserLostInControl ==
    /\ cmd.stage \in {"focusing", "resuming"}
    /\ Forget(cmd.sid)
    /\ Finish
    /\ UNCHANGED <<now, approval, execution, running, effects, answer>>

WorkerLostInControl ==
    /\ cmd.stage \in {"focusing", "resuming", "closing"}
    /\ ForgetAll
    /\ Finish
    /\ UNCHANGED <<now, records, running, effects, answer>>
-----------------------------------------------------------------------------
\* Time passes: rows and review items expire.
Tick ==
    /\ now < MaxTime
    /\ now' = now + 1
    /\ approval' = [t \in Tokens |-> IF approval[t].expires > now'
                                     THEN approval[t] ELSE NoApproval]
    /\ pending' = [t \in Tokens |-> Unexpired(pending[t], now')]
    /\ execution' = [b \in Bindings |-> Unexpired(execution[b], now')]
    /\ UNCHANGED <<memory, page, cmd, running, history>>

\* The process dies and starts again: the store survives, memory does not.
Crash ==
    /\ ForgetAll
    /\ pending' = [t \in Tokens |-> 0]
    /\ running' = 0
    /\ cmd' = Idle
    /\ UNCHANGED <<now, approval, execution, effects, answer>>
-----------------------------------------------------------------------------
ClientRequests ==
    \E s \in Sessions, rev \in Revisions, a \in Actions, t \in Tokens \cup {NoToken} :
        ActBegins(s, rev, a, t)

PrepareReplies ==
    \/ PrepareFails \/ BrowserLostInPrepare \/ ApprovalLapsesInFlight \/ TargetChanged
    \/ ProposalNotAdded \/ (\E t \in Tokens : Propose(t))
    \/ DispatchApproved \/ DispatchAutomatic

ActReplies ==
    \/ ActReported \/ AwaitCompletion
    \/ ActNotPerformed \/ BrowserGoneBeforeAct \/ BrowserUnreachableBeforeAct
    \/ BrowserLostInAct \/ ActUncertain \/ WorkerLostInAct

WaitReplies ==
    \/ CompletionKnown \/ CompletionUnknown \/ BrowserLostInWait \/ WorkerLostInWait

ControlReplies ==
    \/ FocusAnswered \/ Resumed \/ ResumeFails \/ SessionClosed \/ CloseFails
    \/ BrowserLostInControl \/ WorkerLostInControl

Human ==
    \/ \E t \in Tokens : Approve(t) \/ Deny(t)
    \/ \E s \in Sessions : \/ StartHandoff(s) \/ CompleteHandoff(s)
                           \/ CancelHandoff(s) \/ ReclaimSession(s)

Environment ==
    \/ \E s \in Sessions : OpenSession(s) \/ CloseSession(s) \/ BrowserDisconnects(s)
    \/ \E s \in Sessions, newDocument \in BOOLEAN, place \in Places :
          PageDrifts(s, newDocument, place)
    \/ BrowserActs \/ WorkerStops \/ Tick \/ Crash

Next ==
    \/ ClientRequests \/ PrepareReplies \/ ActReplies \/ WaitReplies
    \/ ControlReplies \/ Human \/ Environment

Spec == Init /\ [][Next]_vars
-----------------------------------------------------------------------------
\* Safety

\* The shape of the state; a command that ended leaves nothing of its frame.
TypeOK ==
    /\ now \in Nat
    /\ status \in [Sessions -> {"unopened", "live", "gone"}]
    /\ epoch \in [Sessions -> 0..MaxEpoch]
    /\ uncertain \in [Sessions -> BOOLEAN]
    /\ page \in [Sessions -> Pages]
    /\ lease \in [Sessions -> LeaseStates]
    /\ approval \in [Tokens -> Approvals]
    /\ pending \in [Tokens -> Nat]
    /\ execution \in [Bindings -> Nat]
    /\ cmd \in Commands
    /\ cmd.stage = "idle" => cmd = Idle
    /\ running \in Nat
    /\ effects \subseteq Effects
    /\ answer \in [Tokens -> Answers]
    /\ unresolved \subseteq Sessions

\* The step that sends "act", and the step in which the browser does it.
Sends == cmd.stage = "preparing" /\ cmd'.stage = "dispatched"
Acts  == ~cmd.done /\ cmd'.done

\* A gated action is sent only under a yes of the human to this very session,
\* action and target, within the window the yes opened (a restored approval
\* included), and only if no human took the session over since.
GatedByHuman ==
    [][Sends /\ Gated(cmd.act, cmd'.target) =>
         /\ cmd.token # NoToken
         /\ answer[cmd.token].word = "yes"
         /\ answer[cmd.token].at <= now /\ now < answer[cmd.token].at + ApprovalTTL
         /\ approval[cmd.token].sid = cmd.sid /\ approval[cmd.token].act = cmd.act
         /\ approval[cmd.token].target = cmd'.target]_vars

\* "One dispatch per exact binding, including a no-change result or a lost
\* response": while a dispatch record can live, no action that leaves one is
\* done twice for the same session, revision and arguments, whatever was
\* restored, lost or restarted in between.
OncePerBinding ==
    [][Acts /\ cmd.act \notin Passive =>
         \A e \in effects : BindingOf(e) = Binding(cmd) => e.at + RecordTTL <= cmd.at]_vars

\* No browser is driven while a human holds any desktop.
NoEffectUnderControl ==
    [][Acts => \A s \in Sessions : lease[s] \notin {"active", "returning", "cancelled"}]_vars

\* After a dispatch whose outcome nobody learned, the session sends nothing
\* more until a human completed a control of it.
UnresolvedBlocks == [][Sends => cmd.sid \notin unresolved]_vars

\* One open proposal per session, epoch, action and target: a denial cannot be
\* dodged, nor a human be asked twice, by asking again.
OneOpenProposal ==
    \A t, u \in Tokens :
        /\ t # u
        /\ Lives(pending[t]) /\ Lives(pending[u]) /\ Live(t) /\ Live(u)
        /\ status[approval[t].sid] = "live"
        => \/ approval[t].sid # approval[u].sid \/ approval[t].epoch # approval[u].epoch
           \/ approval[t].act # approval[u].act \/ approval[t].target # approval[u].target

\* "Execution-result recording must finish": no command ends with its journal
\* entry still in state "running".
ResultsRecorded == running = 0

\* "An approval is discarded when target, form or path changed": what the
\* browser does happens at the place that was approved.
ApprovedPlace ==
    [][Acts /\ cmd.token # NoToken => page[cmd.sid].place = cmd.target.place]_vars
=============================================================================
