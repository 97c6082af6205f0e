---------------------------- MODULE ConsentProofs ----------------------------
(***************************************************************************)
(* Theorems about Consent, for every pool of sessions, actions and tokens, *)
(* every policy, all times-to-live and all bounds: its types, that a       *)
(* binding is dispatched once, what a human's answer is worth (ConsentKept)*)
(* and that Consent implements ConsentPromise.                             *)
(*                                                                         *)
(* For the last two the cases of Next are reduced to a few kinds of steps, *)
(* once; the invariant and the refinement are proved for each kind.        *)
(***************************************************************************)
EXTENDS ConsentKept, TLAPS

\* What a command's stage says of its frame.
FrameOK ==
    /\ cmd.stage # "idle" => cmd.sid \in Sessions
    /\ cmd.stage \in {"preparing", "dispatched", "completing"} => cmd.act \in Actions

TypeInv == TypeOK /\ FrameOK
-----------------------------------------------------------------------------
\* The parts of a state and of the types, as the lemmas below use them.

\* A finished command leaves the idle frame, which is a command.
LEMMA IdleFrame == Idle \in Commands /\ Idle.stage = "idle"
  BY ConsentConstants DEF Idle, Commands, Stages, NoTarget, Targets, Revisions

\* The initial state has the types of all states.
LEMMA TypeInit == Init => TypeInv
<1> SUFFICES ASSUME Init PROVE TypeInv
  OBVIOUS
<1>1. cmd = Idle /\ cmd \in Commands /\ cmd.stage = "idle"
  BY IdleFrame DEF Init
<1>2. NoApproval \in Approvals
  BY ConsentConstants DEF NoApproval, Approvals, NoTarget, Targets, Revisions
<1>3. BlankPage \in Pages
  BY ConsentConstants DEF BlankPage, Pages, Revisions
<1> QED
  BY <1>1, <1>2, <1>3, ConsentConstants
     DEF Init, TypeInv, TypeOK, FrameOK, Bindings, LeaseStates, Answers

\* Ending sessions keeps every part of the state it touches in its type.
LEMMA ClearedType ==
    ASSUME TypeInv, NEW S \in SUBSET Sessions, Cleared(S)
    PROVE  /\ status' \in [Sessions -> {"unopened", "live", "gone"}]
           /\ epoch' \in [Sessions -> 0..MaxEpoch]
           /\ uncertain' \in [Sessions -> BOOLEAN]
           /\ page' \in [Sessions -> Pages]
           /\ lease' \in [Sessions -> LeaseStates]
           /\ unresolved' \subseteq Sessions
<1>1. BlankPage \in Pages
  BY ConsentConstants DEF BlankPage, Pages, Revisions
<1> QED
  BY <1>1, ConsentConstants DEF Cleared, TypeInv, TypeOK, LeaseStates

\* Dropping the review items of a session keeps the items' type.
LEMMA WithoutType == ASSUME TypeInv, NEW s PROVE Without(s) \in [Tokens -> Nat]
  BY DEF Without, TypeInv, TypeOK

\* The two ends of a session and of all sessions, as they appear in the steps.
LEMMA ForgetType ==
    ASSUME TypeInv, NEW s \in Sessions, Forget(s)
    PROVE  /\ status' \in [Sessions -> {"unopened", "live", "gone"}]
           /\ epoch' \in [Sessions -> 0..MaxEpoch]
           /\ uncertain' \in [Sessions -> BOOLEAN]
           /\ page' \in [Sessions -> Pages]
           /\ lease' \in [Sessions -> LeaseStates]
           /\ unresolved' \subseteq Sessions
           /\ pending' \in [Tokens -> Nat]
<1>1. Cleared({s}) /\ pending' = Without(s) /\ {s} \in SUBSET Sessions
  BY DEF Forget
<1> QED
  BY <1>1, ClearedType, WithoutType

LEMMA ForgetAllType ==
    ASSUME TypeInv, ForgetAll
    PROVE  /\ status' \in [Sessions -> {"unopened", "live", "gone"}]
           /\ epoch' \in [Sessions -> 0..MaxEpoch]
           /\ uncertain' \in [Sessions -> BOOLEAN]
           /\ page' \in [Sessions -> Pages]
           /\ lease' \in [Sessions -> LeaseStates]
           /\ unresolved' \subseteq Sessions
<1>1. Cleared(LiveSessions) /\ LiveSessions \in SUBSET Sessions
  BY DEF ForgetAll, LiveSessions
<1> QED
  BY <1>1, ClearedType

\* A control transition advances the epoch and revokes the session's approvals.
LEMMA InvalidateType ==
    ASSUME TypeInv, NEW s \in Sessions, epoch[s] < MaxEpoch, Invalidate(s)
    PROVE  /\ epoch' \in [Sessions -> 0..MaxEpoch]
           /\ approval' \in [Tokens -> Approvals]
           /\ pending' \in [Tokens -> Nat]
<1>1. NoApproval \in Approvals
  BY ConsentConstants DEF NoApproval, Approvals, NoTarget, Targets, Revisions
<1>2. epoch[s] + 1 \in 0..MaxEpoch
  BY ConsentConstants DEF TypeInv, TypeOK
<1>3. epoch' \in [Sessions -> 0..MaxEpoch]
  BY <1>2 DEF Invalidate, TypeInv, TypeOK
<1>4. approval' \in [Tokens -> Approvals]
  BY <1>1 DEF Invalidate, TypeInv, TypeOK
<1> QED
  BY <1>3, <1>4, WithoutType DEF Invalidate

USE DEF TypeInv, TypeOK, FrameOK, memory, records, history, Finish
-----------------------------------------------------------------------------
\* Sessions and pages keep the types.
LEMMA TypeSessions ==
    ASSUME TypeInv, NEW s \in Sessions,
           \/ OpenSession(s) \/ CloseSession(s) \/ BrowserDisconnects(s)
           \/ \E newDocument \in BOOLEAN, place \in Places : PageDrifts(s, newDocument, place)
    PROVE  TypeInv'
<1>1. CASE OpenSession(s)
  BY <1>1 DEF OpenSession
<1>2. CASE CloseSession(s) \/ BrowserDisconnects(s)
  BY <1>2, ForgetType DEF CloseSession, BrowserDisconnects
<1>3. CASE \E newDocument \in BOOLEAN, place \in Places : PageDrifts(s, newDocument, place)
  <2>1. PICK newDocument \in BOOLEAN, place \in Places : PageDrifts(s, newDocument, place)
    BY <1>3
  <2>2. page' \in [Sessions -> Pages]
    BY <2>1, ConsentConstants DEF PageDrifts, Pages, Revisions
  <2> QED
    BY <2>1, <2>2 DEF PageDrifts
<1> QED
  BY <1>1, <1>2, <1>3

\* A client's request keeps the types.
LEMMA TypeClient == ASSUME TypeInv, ClientRequests PROVE TypeInv'
<1>1. PICK s \in Sessions, rev \in Revisions, a \in Actions, t \in Tokens \cup {NoToken} :
        ActBegins(s, rev, a, t)
  BY DEF ClientRequests
<1>2. /\ cmd' \in Commands /\ cmd'.stage = "preparing"
      /\ cmd'.sid \in Sessions /\ cmd'.act \in Actions
  BY <1>1, IdleFrame DEF ActBegins, Idle, Commands, Stages
<1> QED
  BY <1>1, <1>2 DEF ActBegins

\* What follows the worker's answer to "prepare" keeps the types.
LEMMA TypePrepare == ASSUME TypeInv, PrepareReplies PROVE TypeInv'
<1>1. CASE PrepareFails \/ ApprovalLapsesInFlight \/ TargetChanged \/ ProposalNotAdded
  BY <1>1, IdleFrame DEF PrepareFails, ApprovalLapsesInFlight, TargetChanged, ProposalNotAdded
<1>2. CASE BrowserLostInPrepare
  <2>1. cmd.sid \in Sessions
    BY <1>2 DEF BrowserLostInPrepare
  <2> QED
    BY <1>2, <2>1, ForgetType, IdleFrame DEF BrowserLostInPrepare
<1>3. ASSUME NEW t \in Tokens, Propose(t)
      PROVE  TypeInv'
  <2>1. cmd.sid \in Sessions /\ cmd.act \in Actions
    BY <1>3 DEF Propose, Asking, Prepared
  <2>2. Target(cmd.sid) \in Targets
    BY <2>1 DEF Target, Targets, Pages
  <2>3. approval' \in [Tokens -> Approvals]
    BY <1>3, <2>1, <2>2, ConsentConstants DEF Propose, Approvals
  <2>4. pending' \in [Tokens -> Nat] /\ answer' \in [Tokens -> Answers]
    BY <1>3, ConsentConstants DEF Propose, Answers
  <2> QED
    BY <1>3, <2>3, <2>4, IdleFrame DEF Propose
<1>4. ASSUME NEW window \in Nat, NEW item \in Nat, Prepared, Dispatch(window, item)
      PROVE  /\ execution' \in [Bindings -> Nat]
             /\ cmd' \in Commands /\ cmd'.stage = "dispatched"
             /\ cmd'.sid \in Sessions /\ cmd'.act \in Actions
  <2>1. cmd.sid \in Sessions /\ cmd.act \in Actions
    BY <1>4 DEF Prepared
  <2>2. Target(cmd.sid) \in Targets
    BY <2>1 DEF Target, Targets, Pages
  <2>3. execution' \in [Bindings -> Nat]
    <3>1. now + RecordTTL \in Nat
      BY ConsentConstants
    <3>2. \A b : [execution EXCEPT ![b] = now + RecordTTL] \in [Bindings -> Nat]
      BY <3>1
    <3> QED
      BY <1>4, <3>2 DEF Dispatch
  <2> QED
    BY <1>4, <2>1, <2>2, <2>3 DEF Dispatch, Commands, Stages
<1>5. CASE DispatchApproved
  <2>1. cmd.token \in Tokens
    BY <1>5 DEF DispatchApproved, Commands
  <2>2. approval[cmd.token].expires \in Nat /\ pending[cmd.token] \in Nat
    BY <2>1 DEF Approvals
  <2>3. Spent(approval[cmd.token]) \in Approvals
    <3>1. now + ConsumedTTL \in Nat
      BY ConsentConstants
    <3>2. \A r \in Approvals, e \in Nat :
             [r EXCEPT !.state = "consumed", !.expires = e] \in Approvals
      BY DEF Approvals
    <3> QED
      BY <2>1, <3>1, <3>2 DEF Spent
  <2>4. approval' \in [Tokens -> Approvals] /\ pending' \in [Tokens -> Nat]
    BY <1>5, <2>1, <2>3 DEF DispatchApproved
  <2> QED
    BY <1>4, <1>5, <2>2, <2>4 DEF DispatchApproved
<1>6. CASE DispatchAutomatic
  BY <1>4, <1>6 DEF DispatchAutomatic
<1> QED
  BY <1>1, <1>2, <1>3, <1>5, <1>6 DEF PrepareReplies

\* What follows the dispatch keeps the types.
LEMMA TypeReplies ==
    ASSUME TypeInv, ActReplies \/ WaitReplies \/ BrowserActs
    PROVE  TypeInv'
<1>1. CASE ActReported \/ CompletionKnown
  BY <1>1, IdleFrame DEF ActReported, CompletionKnown
<1>2. CASE ActUncertain \/ CompletionUnknown
  <2>1. cmd.sid \in Sessions /\ LoseOutcome(cmd.sid)
    BY <1>2 DEF ActUncertain, CompletionUnknown, Dispatched
  <2>2. uncertain' \in [Sessions -> BOOLEAN] /\ unresolved' \subseteq Sessions
    BY <2>1 DEF LoseOutcome
  <2> QED
    BY <1>2, <2>2, IdleFrame DEF ActUncertain, CompletionUnknown
<1>3. CASE WorkerLostInAct \/ WorkerLostInWait
  BY <1>3, ForgetAllType, IdleFrame DEF WorkerLostInAct, WorkerLostInWait
<1>4. CASE BrowserLostInAct \/ BrowserLostInWait
  <2>1. cmd.sid \in Sessions
    BY <1>4 DEF BrowserLostInAct, BrowserLostInWait, Dispatched
  <2> QED
    BY <1>4, <2>1, ForgetType, IdleFrame DEF BrowserLostInAct, BrowserLostInWait
<1>5. CASE AwaitCompletion \/ BrowserActs
  <2>1. cmd.sid \in Sessions /\ cmd.act \in Actions
    BY <1>5 DEF AwaitCompletion, BrowserActs, Dispatched
  <2>2. /\ cmd' \in Commands /\ cmd'.stage # "idle"
        /\ cmd'.sid \in Sessions /\ cmd'.act \in Actions
    BY <1>5, <2>1 DEF AwaitCompletion, BrowserActs, Dispatched, Commands, Stages
  <2>3. effects' \subseteq Effects
    BY <1>5, <2>1 DEF AwaitCompletion, BrowserActs, Effects, Commands
  <2> QED
    BY <1>5, <2>2, <2>3 DEF AwaitCompletion, BrowserActs
<1>6. ASSUME NEW items \in [Tokens -> Nat], Dispatched, Restore, pending' = RestoredItems(items)
      PROVE  /\ execution' \in [Bindings -> Nat]
             /\ approval' \in [Tokens -> Approvals]
             /\ pending' \in [Tokens -> Nat]
  <2>1. cmd.window \in Nat /\ cmd.item \in Nat
    BY DEF Commands
  <2>2. execution' \in [Bindings -> Nat]
    BY <1>6 DEF Restore
  <2>3. approval' \in [Tokens -> Approvals]
    <3>1. \A r \in Approvals : [r EXCEPT !.state = "approved", !.expires = cmd.window] \in Approvals
      BY <2>1 DEF Approvals
    <3>2. CASE approval' = [approval EXCEPT ![cmd.token].state = "approved",
                                           ![cmd.token].expires = RestoredExpiry(cmd.window)]
      <4>1. CASE cmd.token \in Tokens
        <5>1. approval' = [approval EXCEPT ![cmd.token] =
                 [approval[cmd.token] EXCEPT !.state = "approved", !.expires = cmd.window]]
          BY <3>2, <4>1 DEF RestoredExpiry
        <5> QED
          BY <3>1, <4>1, <5>1
      <4>2. CASE cmd.token \notin Tokens
        BY <3>2, <4>2
      <4> QED
        BY <4>1, <4>2
    <3> QED
      BY <1>6, <3>2 DEF Restore
  <2>4. pending' \in [Tokens -> Nat]
    BY <1>6, <2>1 DEF RestoredItems
  <2> QED
    BY <2>2, <2>3, <2>4
<1>7. CASE ActNotPerformed \/ BrowserUnreachableBeforeAct
  BY <1>6, <1>7, ForgetAllType, IdleFrame DEF ActNotPerformed, BrowserUnreachableBeforeAct
<1>8. CASE BrowserGoneBeforeAct
  <2>1. cmd.sid \in Sessions
    BY <1>8 DEF BrowserGoneBeforeAct, Dispatched
  <2>2. {cmd.sid} \in SUBSET Sessions /\ Cleared({cmd.sid})
    BY <1>8, <2>1 DEF BrowserGoneBeforeAct
  <2> QED
    BY <1>6, <1>8, <2>2, ClearedType, WithoutType, IdleFrame DEF BrowserGoneBeforeAct
<1> QED
  BY <1>1, <1>2, <1>3, <1>4, <1>5, <1>7, <1>8 DEF ActReplies, WaitReplies

\* The human and the control transitions keep the types.
LEMMA TypeHuman ==
    ASSUME TypeInv, Human \/ ControlReplies
    PROVE  TypeInv'
<1>1. ASSUME NEW t \in Tokens, Approve(t) \/ Deny(t)
      PROVE  TypeInv'
  <2>1. answer' \in [Tokens -> Answers]
    BY <1>1 DEF Approve, Deny, Answers
  <2>2. pending[t] \in Nat /\ now + ApprovalTTL \in Nat
    BY ConsentConstants
  <2>3. \A e \in Nat :
           /\ [approval[t] EXCEPT !.state = "approved", !.expires = e] \in Approvals
           /\ [approval[t] EXCEPT !.state = "denied", !.expires = e] \in Approvals
    BY DEF Approvals
  <2>4. CASE Approve(t)
    <3>1. approval' = [approval EXCEPT ![t] =
             [approval[t] EXCEPT !.state = "approved", !.expires = now + ApprovalTTL]]
      BY <2>4 DEF Approve
    <3>2. approval' \in [Tokens -> Approvals] /\ pending' \in [Tokens -> Nat]
      BY <2>2, <2>3, <2>4, <3>1 DEF Approve
    <3> QED
      BY <2>1, <2>4, <3>2 DEF Approve
  <2>5. CASE Deny(t)
    <3>1. approval' = [approval EXCEPT ![t] =
             [approval[t] EXCEPT !.state = "denied", !.expires = pending[t]]]
      BY <2>5 DEF Deny
    <3>2. approval' \in [Tokens -> Approvals]
      BY <2>2, <2>3, <3>1
    <3> QED
      BY <2>1, <2>5, <3>2 DEF Deny
  <2> QED
    BY <1>1, <2>4, <2>5
<1>2. ASSUME NEW s \in Sessions, StartHandoff(s) \/ CompleteHandoff(s)
      PROVE  TypeInv'
  <2>1. /\ epoch' \in [Sessions -> 0..MaxEpoch]
        /\ approval' \in [Tokens -> Approvals]
        /\ pending' \in [Tokens -> Nat]
    BY <1>2, InvalidateType DEF StartHandoff, CompleteHandoff
  <2>2. answer' \in [Tokens -> Answers]
    BY <1>2 DEF StartHandoff, CompleteHandoff, TakeOver, Answers
  <2>3. lease' \in [Sessions -> LeaseStates]
    BY <1>2 DEF StartHandoff, CompleteHandoff, LeaseStates
  <2>4. cmd' \in Commands /\ cmd'.sid \in Sessions /\ cmd'.stage \in {"focusing", "resuming"}
    BY <1>2, IdleFrame DEF StartHandoff, CompleteHandoff, Idle, Commands, Stages
  <2> QED
    BY <1>2, <2>1, <2>2, <2>3, <2>4 DEF StartHandoff, CompleteHandoff
<1>3. ASSUME NEW s \in Sessions, CancelHandoff(s) \/ ReclaimSession(s)
      PROVE  TypeInv'
  <2>1. lease' \in [Sessions -> LeaseStates]
    BY <1>3 DEF CancelHandoff, ReclaimSession, LeaseStates
  <2>2. cmd' \in Commands /\ cmd'.sid \in Sessions /\ cmd'.stage = "closing"
    BY <1>3, IdleFrame DEF CancelHandoff, ReclaimSession, Idle, Commands, Stages
  <2> QED
    BY <1>3, <2>1, <2>2 DEF CancelHandoff, ReclaimSession
<1>4. CASE FocusAnswered \/ Resumed \/ ResumeFails \/ CloseFails
  <2>1. lease' \in [Sessions -> LeaseStates] /\ uncertain' \in [Sessions -> BOOLEAN]
        /\ unresolved' \subseteq Sessions
    BY <1>4 DEF FocusAnswered, Resumed, ResumeFails, CloseFails, LeaseStates
  <2> QED
    BY <1>4, <2>1, IdleFrame DEF FocusAnswered, Resumed, ResumeFails, CloseFails
<1>5. CASE SessionClosed \/ BrowserLostInControl
  <2>1. cmd.sid \in Sessions
    BY <1>5 DEF SessionClosed, BrowserLostInControl
  <2> QED
    BY <1>5, <2>1, ForgetType, IdleFrame DEF SessionClosed, BrowserLostInControl
<1>6. CASE WorkerLostInControl
  BY <1>6, ForgetAllType, IdleFrame DEF WorkerLostInControl
<1> QED
  BY <1>1, <1>2, <1>3, <1>4, <1>5, <1>6 DEF Human, ControlReplies

\* Time, a lost worker and a crash keep the types.
LEMMA TypeTime == ASSUME TypeInv, WorkerStops \/ Tick \/ Crash PROVE TypeInv'
<1>1. CASE Tick
  <2>1. now' \in Nat
    BY <1>1 DEF Tick
  <2>2. NoApproval \in Approvals
    BY ConsentConstants DEF NoApproval, Approvals, NoTarget, Targets, Revisions
  <2>3. approval' \in [Tokens -> Approvals]
    BY <1>1, <2>2 DEF Tick
  <2>4. pending' \in [Tokens -> Nat] /\ execution' \in [Bindings -> Nat]
    BY <1>1 DEF Tick, Unexpired
  <2> QED
    BY <1>1, <2>1, <2>3, <2>4 DEF Tick
<1>2. CASE Crash
  BY <1>2, ForgetAllType, IdleFrame DEF Crash
<1>3. CASE WorkerStops
  BY <1>3, ForgetAllType DEF WorkerStops
<1> QED
  BY <1>1, <1>2, <1>3

\* Every step keeps the types.
LEMMA TypeStep == TypeInv /\ [Next]_vars => TypeInv'
<1> SUFFICES ASSUME TypeInv, [Next]_vars PROVE TypeInv'
  OBVIOUS
<1>1. CASE UNCHANGED vars
  BY <1>1 DEF vars
<1>2. CASE Environment
  <2>1. CASE \E s \in Sessions : OpenSession(s) \/ CloseSession(s) \/ BrowserDisconnects(s)
    BY <2>1, TypeSessions
  <2>2. CASE \E s \in Sessions, newDocument \in BOOLEAN, place \in Places :
                PageDrifts(s, newDocument, place)
    <3>1. PICK s \in Sessions :
             \E newDocument \in BOOLEAN, place \in Places : PageDrifts(s, newDocument, place)
      BY <2>2
    <3> QED
      BY <3>1, TypeSessions
  <2> QED
    BY <1>2, <2>1, <2>2, TypeReplies, TypeTime DEF Environment
<1>3. CASE Next /\ ~Environment
  BY <1>3, TypeClient, TypePrepare, TypeReplies, TypeHuman DEF Next
<1> QED
  BY <1>1, <1>2, <1>3

\* In every reachable state, whatever the service was asked and whatever failed,
\* the state is well-typed and a finished command leaves nothing of its frame.
THEOREM Types == Spec => []TypeInv
  BY TypeInit, TypeStep, PTL DEF Spec

THEOREM TypeCorrect == Spec => []TypeOK
<1>1. TypeInv => TypeOK
  OBVIOUS
<1> QED
  BY <1>1, Types, PTL
-----------------------------------------------------------------------------
(***************************************************************************)
(* No effect under control.  A command is let in only when no human holds  *)
(* a desktop, a lease is taken only while no command runs, and a lease     *)
(* marked cancelled ends with the command that cancelled it.               *)
(***************************************************************************)

\* Only a live session has a lease: its end takes the lease with it.
LeaseOfLive == \A s \in Sessions : lease[s] # "none" => status[s] = "live"

\* "cancelled" lasts no longer than the closing of the session.
CancelledCloses ==
    \A s \in Sessions : lease[s] = "cancelled" => cmd.stage = "closing" /\ cmd.sid = s

\* No lease while an action is under way.
Free == \A s \in Sessions : lease[s] \notin {"active", "returning", "cancelled"}

ActFree == cmd.stage \in {"preparing", "dispatched", "completing"} => Free

\* The session a human is returning is there until the return ends.
ResumedLive == cmd.stage = "resuming" => status[cmd.sid] = "live"

ControlInv == LeaseOfLive /\ CancelledCloses /\ ActFree /\ ResumedLive

\* Ending sessions S leaves no lease of theirs and touches no other.
LEMMA ClearedLease ==
    ASSUME TypeInv, LeaseOfLive, NEW S \in SUBSET Sessions, Cleared(S)
    PROVE  /\ LeaseOfLive'
           /\ Free => Free'
           /\ \A s \in Sessions : lease'[s] # "none" => s \notin S /\ lease'[s] = lease[s]
  BY DEF Cleared, LeaseOfLive, Free

\* Ending every live session leaves no lease at all.
LEMMA ForgetAllLease ==
    ASSUME TypeInv, LeaseOfLive, ForgetAll
    PROVE  \A s \in Sessions : lease'[s] = "none"
  BY DEF ForgetAll, Cleared, LiveSessions, LeaseOfLive

\* The lease discipline holds initially and in every step.
LEMMA ControlInit == Init => ControlInv
  BY DEF Init, ControlInv, LeaseOfLive, CancelledCloses, ActFree, ResumedLive, Idle

LEMMA ControlStep == TypeInv /\ ControlInv /\ [Next]_vars => ControlInv'
<1> SUFFICES ASSUME TypeInv, ControlInv, [Next]_vars PROVE ControlInv'
  OBVIOUS
<1> USE DEF ControlInv
<1>1. ASSUME UNCHANGED <<status, lease>>,
             cmd'.stage \in {"idle", cmd.stage} \/ (cmd.stage = "preparing" /\ cmd'.stage = "dispatched")
               \/ (cmd.stage = "dispatched" /\ cmd'.stage = "completing"),
             cmd'.sid = cmd.sid \/ cmd'.stage = "idle",
             cmd.stage # "closing" \/ cmd' = cmd
      PROVE  ControlInv'
  BY <1>1 DEF LeaseOfLive, CancelledCloses, ActFree, ResumedLive, Free
<1>2. ASSUME NEW s \in Sessions, Cleared({s}),
             \/ cmd' = cmd /\ cmd.stage = "idle"
             \/ cmd'.stage = "idle" /\ (cmd.stage # "closing" \/ cmd.sid = s)
      PROVE  ControlInv'
  BY <1>2, ClearedLease DEF CancelledCloses, ActFree, ResumedLive, Free
<1>3. ASSUME ForgetAll, cmd'.stage = "idle"
      PROVE  ControlInv'
  BY <1>3, ForgetAllLease DEF LeaseOfLive, CancelledCloses, ActFree, ResumedLive, Free
<1>4. CASE UNCHANGED vars
  BY <1>1, <1>4 DEF vars
<1>5. CASE ClientRequests
  <2>1. PICK s \in Sessions, rev \in Revisions, a \in Actions, t \in Tokens \cup {NoToken} :
          ActBegins(s, rev, a, t)
    BY <1>5 DEF ClientRequests
  <2>2. cmd.stage = "idle" /\ cmd'.stage = "preparing" /\ UNCHANGED <<status, lease>>
    BY <2>1, IdleFrame DEF ActBegins, Unlocked, Idle
  <2>3. \A o \in Sessions : lease[o] \notin {"active", "returning"}
    BY <2>1 DEF ActBegins, Uncontrolled
  <2> QED
    BY <2>2, <2>3 DEF LeaseOfLive, CancelledCloses, ActFree, ResumedLive, Free
<1>6. CASE PrepareReplies
  <2>1. CASE BrowserLostInPrepare
    BY <1>2, <2>1, IdleFrame DEF BrowserLostInPrepare, Forget
  <2>2. CASE PrepareReplies /\ ~BrowserLostInPrepare
    <3>1. cmd.stage = "preparing" /\ UNCHANGED <<status, lease>>
      BY <2>2 DEF PrepareReplies, PrepareFails, ApprovalLapsesInFlight, TargetChanged,
                  ProposalNotAdded, Propose, DispatchApproved, DispatchAutomatic, Prepared, Asking
    <3>2. cmd' = Idle \/ (\E window, item : Dispatch(window, item))
      BY <2>2 DEF PrepareReplies, PrepareFails, ApprovalLapsesInFlight, TargetChanged,
                  ProposalNotAdded, Propose, DispatchApproved, DispatchAutomatic
    <3>3. cmd'.stage = "idle" \/ (cmd'.stage = "dispatched" /\ cmd'.sid = cmd.sid)
      BY <3>2, IdleFrame DEF Dispatch, Commands
    <3> QED
      BY <1>1, <3>1, <3>3
  <2> QED
    BY <1>6, <2>1, <2>2
<1>7. CASE ActReplies \/ WaitReplies \/ BrowserActs
  <2>1. CASE BrowserGoneBeforeAct \/ BrowserLostInAct \/ BrowserLostInWait
    <3>1. cmd.sid \in Sessions /\ Cleared({cmd.sid}) /\ cmd'.stage = "idle" /\ cmd.stage # "closing"
      BY <2>1, IdleFrame DEF BrowserGoneBeforeAct, BrowserLostInAct, BrowserLostInWait, Forget,
                             Dispatched
    <3> QED
      BY <1>2, <3>1
  <2>2. CASE BrowserUnreachableBeforeAct \/ WorkerLostInAct \/ WorkerLostInWait
    BY <1>3, <2>2, IdleFrame DEF BrowserUnreachableBeforeAct, WorkerLostInAct, WorkerLostInWait
  <2>3. CASE ActReported \/ ActNotPerformed \/ ActUncertain \/ CompletionKnown \/ CompletionUnknown
    BY <1>1, <2>3, IdleFrame DEF ActReported, ActNotPerformed, ActUncertain, CompletionKnown,
                                 CompletionUnknown, Dispatched
  <2>4. CASE AwaitCompletion \/ BrowserActs
    BY <1>1, <2>4 DEF AwaitCompletion, BrowserActs, Dispatched, Commands
  <2> QED
    BY <1>7, <2>1, <2>2, <2>3, <2>4 DEF ActReplies, WaitReplies
<1>8. CASE ControlReplies
  <2>1. CASE SessionClosed \/ BrowserLostInControl
    BY <1>2, <2>1, IdleFrame DEF SessionClosed, BrowserLostInControl, Forget
  <2>2. CASE WorkerLostInControl
    BY <1>3, <2>2, IdleFrame DEF WorkerLostInControl
  <2>3. CASE FocusAnswered
    BY <1>1, <2>3, IdleFrame DEF FocusAnswered
  <2>4. CASE Resumed \/ ResumeFails \/ CloseFails
    <3>1. cmd.sid \in Sessions /\ cmd'.stage = "idle" /\ UNCHANGED status
      BY <2>4, IdleFrame DEF Resumed, ResumeFails, CloseFails
    <3>2. \A s \in Sessions : s # cmd.sid => lease'[s] = lease[s]
      BY <2>4 DEF Resumed, ResumeFails, CloseFails
    <3>3. lease'[cmd.sid] # "cancelled"
      BY <2>4, <3>1 DEF Resumed, ResumeFails, CloseFails
    <3>4. status[cmd.sid] = "live" \/ lease'[cmd.sid] = "none"
      BY <2>4, <3>1 DEF Resumed, ResumeFails, CloseFails, LeaseOfLive, ResumedLive
    <3> QED
      BY <3>1, <3>2, <3>3, <3>4 DEF LeaseOfLive, CancelledCloses, ActFree, ResumedLive
  <2> QED
    BY <1>8, <2>1, <2>2, <2>3, <2>4 DEF ControlReplies
<1>9. CASE Human
  <2>1. ASSUME NEW t \in Tokens, Approve(t) \/ Deny(t)
        PROVE  ControlInv'
    BY <1>1, <2>1 DEF Approve, Deny
  <2>2. ASSUME NEW s \in Sessions, StartHandoff(s) \/ CompleteHandoff(s)
        PROVE  ControlInv'
    BY <2>2 DEF StartHandoff, CompleteHandoff, Unlocked, LeaseOfLive, CancelledCloses, ActFree, ResumedLive,
                Idle
  <2>3. ASSUME NEW s \in Sessions, CancelHandoff(s) \/ ReclaimSession(s)
        PROVE  ControlInv'
    <3>1. cmd.stage = "idle" /\ cmd'.stage = "closing" /\ cmd'.sid = s /\ UNCHANGED status
      BY <2>3 DEF CancelHandoff, ReclaimSession, Unlocked, Idle
    <3>2. \A o \in Sessions : o # s => lease'[o] = lease[o]
      BY <2>3 DEF CancelHandoff, ReclaimSession
    <3>3. lease'[s] # "none" => lease[s] # "none"
      BY <2>3 DEF CancelHandoff, ReclaimSession
    <3> QED
      BY <3>1, <3>2, <3>3 DEF LeaseOfLive, CancelledCloses, ActFree, ResumedLive
  <2> QED
    BY <1>9, <2>1, <2>2, <2>3 DEF Human
<1>10. CASE Environment
  <2>1. ASSUME NEW s \in Sessions, OpenSession(s)
        PROVE  ControlInv'
    BY <2>1 DEF OpenSession, LeaseOfLive, CancelledCloses, ActFree, ResumedLive, Free
  <2>2. ASSUME NEW s \in Sessions, CloseSession(s) \/ BrowserDisconnects(s)
        PROVE  ControlInv'
    BY <1>2, <2>2 DEF CloseSession, BrowserDisconnects, Forget, Unlocked
  <2>3. CASE \E s \in Sessions, newDocument \in BOOLEAN, place \in Places :
                PageDrifts(s, newDocument, place)
    BY <1>1, <2>3 DEF PageDrifts
  <2>4. CASE WorkerStops \/ Crash
    BY <1>3, <2>4, IdleFrame DEF WorkerStops, Crash, Unlocked
  <2>5. CASE Tick
    BY <1>1, <2>5 DEF Tick
  <2> QED
    BY <1>7, <1>10, <2>1, <2>2, <2>3, <2>4, <2>5 DEF Environment
<1> QED
  BY <1>4, <1>5, <1>6, <1>7, <1>8, <1>9, <1>10 DEF Next

\* The browser acts in one step only, and then for a command that was dispatched.
LEMMA ActsDispatched ==
    ASSUME TypeInv, [Next]_vars, Acts
    PROVE  BrowserActs
<1> USE DEF Acts
<1>1. ~UNCHANGED vars
  BY DEF vars
<1>2. ~(cmd' = Idle)
  BY DEF Idle
<1>3. ~Human /\ ~ClientRequests
  BY DEF Human, ClientRequests, Approve, Deny, StartHandoff, CompleteHandoff, CancelHandoff,
         ReclaimSession, ActBegins, Idle
<1>4. ~(\E window, item : Dispatch(window, item))
  BY DEF Dispatch, Commands
<1>5. ~PrepareReplies
  BY <1>2, <1>4 DEF PrepareReplies, PrepareFails, BrowserLostInPrepare, ApprovalLapsesInFlight,
     TargetChanged, ProposalNotAdded, Propose, DispatchApproved, DispatchAutomatic
<1>6. ~ActReplies /\ ~WaitReplies
  BY <1>2 DEF ActReplies, WaitReplies, ActReported, AwaitCompletion, ActNotPerformed,
     BrowserGoneBeforeAct, BrowserUnreachableBeforeAct, BrowserLostInAct, ActUncertain,
     WorkerLostInAct, CompletionKnown, CompletionUnknown,
     BrowserLostInWait, WorkerLostInWait
<1>7. ~ControlReplies
  BY <1>2 DEF ControlReplies, FocusAnswered, Resumed, ResumeFails, SessionClosed, CloseFails,
     BrowserLostInControl, WorkerLostInControl
<1>8. Environment => BrowserActs
  BY <1>2 DEF Environment, OpenSession, CloseSession, BrowserDisconnects, PageDrifts,
     WorkerStops, Tick, Crash
<1> QED
  BY <1>1, <1>3, <1>5, <1>6, <1>7, <1>8 DEF Next

\* Whatever the interleaving of commands, control transitions and failures, no
\* browser is driven while a human holds any desktop.
THEOREM ControlExcludesEffects == Spec => NoEffectUnderControl
<1>1. TypeInv /\ ControlInv /\ [Next]_vars =>
        [Acts => \A s \in Sessions : lease[s] \notin {"active", "returning", "cancelled"}]_vars
  BY ActsDispatched DEF ControlInv, ActFree, Free, BrowserActs, Dispatched
<1> QED
  BY <1>1, TypeInit, TypeStep, ControlInit, ControlStep, PTL DEF Spec, NoEffectUnderControl
-----------------------------------------------------------------------------
(***************************************************************************)
(* While a dispatch record can live, a browser does no action of one exact *)
(* binding twice.                                                          *)
(*                                                                         *)
(* OncePerBinding alone is not inductive: the record that forbids a second *)
(* dispatch may be overwritten, expire, or be taken back.  The invariant   *)
(* says that an effect is remembered by its record or has outlived it, and *)
(* that a record is taken back only when no effect needs it any more.      *)
(***************************************************************************)

\* The effects that the command in flight must not repeat.
Same(e) == e.act \notin Passive /\ BindingOf(e) = Binding(cmd)

\* What must be remembered from time `at' on has a record, or its time is over.
Remembered(b, at) == execution[b] >= at + RecordTTL \/ now >= at + RecordTTL

\* Nothing happened after the present.
PastOnly == cmd.at <= now /\ \A e \in effects : e.at <= now

\* Every effect that counts is remembered.
EffectsRemembered ==
    \A e \in effects : e.act \notin Passive => Remembered(BindingOf(e), e.at)

\* A command that was let in repeats no effect whose time is not over.
LetIn == cmd.stage = "preparing" => \A e \in effects : Same(e) => e.at + RecordTTL <= now

\* So does one that was dispatched and has not acted; its own record stands.
SentOnce ==
    cmd.stage = "dispatched" /\ ~cmd.done =>
        /\ LeavesRecord => Remembered(Binding(cmd), cmd.at)
        /\ \A e \in effects : Same(e) => e.at + RecordTTL <= cmd.at

OnceInv == PastOnly /\ EffectsRemembered /\ LetIn /\ SentOnce
-----------------------------------------------------------------------------
\* The invariant holds in the initial state.
LEMMA OnceInit == Init => OnceInv
  BY ConsentConstants DEF Init, OnceInv, PastOnly, EffectsRemembered, LetIn, SentOnce, Idle

USE DEF OnceInv

\* A step that leaves the records and effects alone and lets nobody in keeps it.
LEMMA OnceQuiet ==
    ASSUME TypeInv, OnceInv, UNCHANGED <<now, execution, effects>>, cmd' = cmd \/ cmd' = Idle
    PROVE  OnceInv'
  BY ConsentConstants
     DEF TypeInv, TypeOK, PastOnly, EffectsRemembered, LetIn, SentOnce, Same, Remembered,
         LeavesRecord, Binding, BindingOf, Idle

\* Being let in reads the record: an effect of this binding has outlived it.
LEMMA OnceLetIn == ASSUME TypeInv, OnceInv, ClientRequests PROVE OnceInv'
<1>1. PICK s \in Sessions, rev \in Revisions, a \in Actions, t \in Tokens \cup {NoToken} :
        ActBegins(s, rev, a, t)
  BY DEF ClientRequests
<1> DEFINE b == [sid |-> s, rev |-> rev, act |-> a]
<1>2. /\ cmd'.stage = "preparing" /\ Binding(cmd)' = b /\ cmd'.at = 0
      /\ UNCHANGED <<now, execution, effects>>
  BY <1>1, IdleFrame DEF ActBegins, Idle, Binding, records, history
<1>3. b \in Bindings /\ execution[b] \in Nat /\ now \in Nat
  BY DEF Bindings, TypeInv, TypeOK
<1>4. ~(execution[b] > now)
  BY <1>1 DEF ActBegins, Undispatched, Lives, Binding
<1>5. ASSUME NEW e \in effects, e.act \notin Passive, BindingOf(e) = b
      PROVE  e.at + RecordTTL <= now
  <2>1. Remembered(b, e.at) /\ e.at \in Nat
    BY <1>5 DEF EffectsRemembered, TypeInv, TypeOK, Effects
  <2> QED
    BY <1>3, <1>4, <2>1, ConsentConstants DEF Remembered
<1>6. LetIn'
  BY <1>2, <1>5 DEF LetIn, Same, BindingOf
<1>7. PastOnly' /\ EffectsRemembered' /\ SentOnce'
  BY <1>2, <1>3 DEF PastOnly, EffectsRemembered, SentOnce, Remembered, BindingOf
<1> QED
  BY <1>6, <1>7

\* A dispatch writes the record of its binding before the browser is asked.
LEMMA OnceDispatch ==
    ASSUME TypeInv, OnceInv, Prepared, NEW window, NEW item, Dispatch(window, item),
           UNCHANGED <<now, effects>>
    PROVE  OnceInv'
<1> DEFINE b == Binding(cmd)
<1>1. now \in Nat /\ RecordTTL \in Nat /\ cmd.stage = "preparing"
  BY ConsentConstants DEF TypeInv, TypeOK, Prepared
<1>2. /\ cmd'.stage = "dispatched" /\ cmd'.at = now
      /\ Binding(cmd)' = b /\ (LeavesRecord' <=> LeavesRecord)
  BY DEF Dispatch, TypeInv, TypeOK, Commands, Binding, LeavesRecord
<1>3. b \in Bindings
  BY <1>1 DEF TypeInv, TypeOK, FrameOK, Binding, Bindings, Commands
<1>4. \A c \in Bindings : execution[c] \in Nat
  BY DEF TypeInv, TypeOK
<1>5. \A c \in Bindings : execution'[c] = IF LeavesRecord /\ c = b THEN now + RecordTTL ELSE execution[c]
  BY <1>3 DEF Dispatch, TypeInv, TypeOK
<1>6. \A e \in effects : e.at \in Nat /\ e.at <= now /\ BindingOf(e) \in Bindings
  BY DEF PastOnly, TypeInv, TypeOK, Effects, BindingOf, Bindings
<1>7. PastOnly'
  BY <1>1, <1>2, <1>6 DEF PastOnly
<1>8. EffectsRemembered'
  BY <1>1, <1>3, <1>4, <1>5, <1>6 DEF EffectsRemembered, Remembered, BindingOf
<1>9. SentOnce'
  <2>1. LeavesRecord' => Remembered(Binding(cmd), cmd.at)'
    BY <1>1, <1>2, <1>3, <1>5 DEF Remembered
  <2>2. \A e \in effects : Same(e)' => e.at + RecordTTL <= now
    BY <1>1, <1>2 DEF LetIn, Same, BindingOf
  <2> QED
    BY <1>2, <2>1, <2>2 DEF SentOnce, Same, BindingOf
<1> QED
  BY <1>2, <1>7, <1>8, <1>9 DEF LetIn

\* The effect itself is remembered by the record its dispatch wrote.
LEMMA OnceActs == ASSUME TypeInv, OnceInv, BrowserActs PROVE OnceInv'
<1> DEFINE f == [sid |-> cmd.sid, rev |-> cmd.rev, act |-> cmd.act, at |-> cmd.at,
                 token |-> cmd.token]
<1>1. effects' = effects \cup {f} /\ UNCHANGED <<now, execution>>
  BY DEF BrowserActs, records
<1>2. cmd'.done /\ cmd'.stage = "dispatched" /\ cmd'.at = cmd.at /\ cmd.stage = "dispatched" /\ ~cmd.done
  BY DEF BrowserActs, Dispatched, TypeInv, TypeOK, Commands
<1>3. f.at <= now /\ BindingOf(f) = Binding(cmd)
  BY DEF PastOnly, BindingOf, Binding
<1>4. f.act \notin Passive => Remembered(BindingOf(f), f.at)
  BY <1>2, <1>3 DEF SentOnce, LeavesRecord
<1>5. PastOnly'
  BY <1>1, <1>2, <1>3 DEF PastOnly
<1>6. EffectsRemembered'
  BY <1>1, <1>4 DEF EffectsRemembered, Remembered, BindingOf
<1> QED
  BY <1>2, <1>5, <1>6 DEF LetIn, SentOnce

\* The record is taken back only when the browser was not asked: no effect needs it.
LEMMA OnceRestore ==
    ASSUME TypeInv, OnceInv, cmd.stage = "dispatched", ~cmd.done, Restore, cmd' = Idle,
           UNCHANGED <<now, effects>>
    PROVE  OnceInv'
<1> DEFINE b == Binding(cmd)
<1>1. now \in Nat /\ RecordTTL \in Nat /\ cmd.at \in Nat /\ cmd.at <= now
  BY ConsentConstants DEF TypeInv, TypeOK, PastOnly, Commands
<1>2. b \in Bindings
  BY DEF TypeInv, TypeOK, FrameOK, Binding, Bindings, Commands
<1>3. \A c \in Bindings : execution'[c] = IF LeavesRecord /\ c = b THEN 0 ELSE execution[c]
  BY <1>2 DEF Restore, TypeInv, TypeOK
<1>4. \A e \in effects : e.at \in Nat /\ e.at <= now /\ BindingOf(e) \in Bindings
  BY DEF PastOnly, TypeInv, TypeOK, Effects, BindingOf, Bindings
<1>5. \A e \in effects : Same(e) => now >= e.at + RecordTTL
  BY <1>1, <1>4 DEF SentOnce
<1>6. EffectsRemembered'
  BY <1>3, <1>4, <1>5 DEF EffectsRemembered, Remembered, Same, BindingOf
<1>7. PastOnly'
  BY <1>1, <1>4 DEF PastOnly, Idle
<1> QED
  BY <1>6, <1>7, IdleFrame DEF LetIn, SentOnce

\* A record that expires has done its work.
LEMMA OnceTick == ASSUME TypeInv, OnceInv, Tick PROVE OnceInv'
<1>1. now \in Nat /\ now' = now + 1 /\ RecordTTL \in Nat /\ cmd.at \in Nat
  BY ConsentConstants DEF Tick, TypeInv, TypeOK, Commands
<1>2. UNCHANGED <<cmd, effects>>
  BY DEF Tick, history
<1>3. \A c \in Bindings : execution[c] \in Nat
                           /\ execution'[c] = IF execution[c] > now' THEN execution[c] ELSE 0
  BY DEF Tick, Unexpired, TypeInv, TypeOK
<1>4. \A c \in Bindings, at \in Nat : Remembered(c, at) => Remembered(c, at)'
  BY <1>1, <1>3 DEF Remembered
<1>5. \A e \in effects : e.at \in Nat /\ e.at <= now /\ BindingOf(e) \in Bindings
  BY DEF PastOnly, TypeInv, TypeOK, Effects, BindingOf, Bindings
<1>6. PastOnly'
  BY <1>1, <1>2, <1>5 DEF PastOnly
<1>7. EffectsRemembered'
  BY <1>2, <1>4, <1>5 DEF EffectsRemembered, BindingOf
<1>8. LetIn'
  BY <1>1, <1>2, <1>5 DEF LetIn, Same, BindingOf, Binding
<1>9. SentOnce'
  <2>1. cmd.stage = "dispatched" => Binding(cmd) \in Bindings
    BY DEF TypeInv, TypeOK, FrameOK, Binding, Bindings, Commands
  <2> QED
    BY <1>1, <1>2, <1>4, <2>1 DEF SentOnce, Same, LeavesRecord, BindingOf, Binding
<1> QED
  BY <1>6, <1>7, <1>8, <1>9

\* Once every effect is in, waiting for a completion adds nothing.
LEMMA OnceWait == ASSUME TypeInv, OnceInv, AwaitCompletion PROVE OnceInv'
<1>1. /\ UNCHANGED <<now, execution, effects>>
      /\ cmd'.stage = "completing" /\ cmd'.at = cmd.at
  BY DEF AwaitCompletion, records, history, TypeInv, TypeOK, Commands
<1> QED
  BY <1>1 DEF PastOnly, EffectsRemembered, Remembered, BindingOf, LetIn, SentOnce

\* A human's command has no effects to repeat.
LEMMA OnceHuman == ASSUME TypeInv, OnceInv, Human PROVE OnceInv'
<1>1. UNCHANGED <<now, execution, effects>>
  BY DEF Human, Approve, Deny, StartHandoff, CompleteHandoff, CancelHandoff, ReclaimSession, records,
         history
<1>2. cmd' = cmd \/ (cmd'.stage \in {"focusing", "resuming", "closing"} /\ cmd'.at = 0)
  BY DEF Human, Approve, Deny, StartHandoff, CompleteHandoff, CancelHandoff, ReclaimSession, Idle
<1>3. CASE cmd' = cmd
  BY <1>1, <1>3, OnceQuiet
<1>4. CASE cmd'.stage \in {"focusing", "resuming", "closing"} /\ cmd'.at = 0
  BY <1>1, <1>4 DEF PastOnly, EffectsRemembered, Remembered, BindingOf, LetIn, SentOnce, TypeInv, TypeOK
<1> QED
  BY <1>2, <1>3, <1>4

\* Every step keeps the invariant.
LEMMA OnceStep == TypeInv /\ OnceInv /\ [Next]_vars => OnceInv'
<1> SUFFICES ASSUME TypeInv, OnceInv, [Next]_vars PROVE OnceInv'
  OBVIOUS
<1>1. CASE UNCHANGED vars
  BY <1>1, OnceQuiet DEF vars
<1>2. CASE ClientRequests
  BY <1>2, OnceLetIn
<1>3. CASE PrepareReplies
  <2>1. CASE DispatchApproved \/ DispatchAutomatic
    BY <2>1, OnceDispatch DEF DispatchApproved, DispatchAutomatic, history
  <2>2. CASE PrepareReplies /\ ~DispatchApproved /\ ~DispatchAutomatic
    BY <2>2, OnceQuiet
       DEF PrepareReplies, PrepareFails, BrowserLostInPrepare, ApprovalLapsesInFlight,
           TargetChanged, ProposalNotAdded, Propose, Finish, records, history
  <2> QED
    BY <1>3, <2>1, <2>2
<1>4. CASE ActReplies
  <2>1. CASE ActNotPerformed \/ BrowserGoneBeforeAct \/ BrowserUnreachableBeforeAct
    BY <2>1, OnceRestore DEF ActNotPerformed, BrowserGoneBeforeAct, BrowserUnreachableBeforeAct,
                             Dispatched, Finish, history
  <2>2. CASE AwaitCompletion
    BY <2>2, OnceWait
  <2>3. CASE ActReported \/ BrowserLostInAct \/ ActUncertain \/ WorkerLostInAct
    BY <2>3, OnceQuiet DEF ActReported, BrowserLostInAct, ActUncertain, WorkerLostInAct, Finish, records, history
  <2> QED
    BY <1>4, <2>1, <2>2, <2>3 DEF ActReplies
<1>5. CASE WaitReplies
  BY <1>5, OnceQuiet DEF WaitReplies, CompletionKnown, CompletionUnknown, BrowserLostInWait,
     WorkerLostInWait, Finish, records, history
<1>6. CASE ControlReplies
  BY <1>6, OnceQuiet DEF ControlReplies, FocusAnswered, Resumed, ResumeFails, SessionClosed,
     CloseFails, BrowserLostInControl, WorkerLostInControl, Finish, records, history
<1>7. CASE Human
  BY <1>7, OnceHuman
<1>8. CASE Environment
  <2>1. CASE BrowserActs
    BY <2>1, OnceActs
  <2>2. CASE Tick
    BY <2>2, OnceTick
  <2>3. CASE Environment /\ ~BrowserActs /\ ~Tick
    BY <2>3, OnceQuiet DEF Environment, OpenSession, CloseSession, BrowserDisconnects,
       PageDrifts, WorkerStops, Crash, records, history
  <2> QED
    BY <1>8, <2>1, <2>2, <2>3
<1> QED
  BY <1>1, <1>2, <1>3, <1>4, <1>5, <1>6, <1>7, <1>8 DEF Next

\* For every policy and all times-to-live: while a dispatch record can live, no
\* action that leaves one is done twice for the same session, revision and
\* arguments, whatever was restored, lost, revoked or restarted in between.
THEOREM DispatchedOnce == Spec => OncePerBinding
<1>1. TypeInv /\ OnceInv /\ [Next]_vars =>
        [Acts /\ cmd.act \notin Passive =>
           \A e \in effects : BindingOf(e) = Binding(cmd) => e.at + RecordTTL <= cmd.at]_vars
  <2> SUFFICES ASSUME TypeInv, OnceInv, [Next]_vars, Acts, cmd.act \notin Passive,
                      NEW e \in effects, BindingOf(e) = Binding(cmd)
               PROVE  e.at + RecordTTL <= cmd.at
    OBVIOUS
  <2>1. cmd.stage = "dispatched" /\ ~cmd.done
    BY ActsDispatched DEF BrowserActs, Dispatched
  <2>2. e.act = cmd.act
    BY DEF BindingOf, Binding
  <2> QED
    BY <2>1, <2>2 DEF SentOnce, Same
<1> QED
  BY <1>1, TypeInit, TypeStep, OnceInit, OnceStep, PTL DEF Spec, OncePerBinding
-----------------------------------------------------------------------------
\* What a human's answer is worth.
ActStages == {"preparing", "dispatched", "completing"}

\* Every approval is of a session that was opened, in an epoch it has reached, and its
\* question was asked.
Asked ==
    \A t \in Tokens :
        /\ approval[t].state # "none" => approval[t].sid \in Sessions
        /\ approval[t].sid \in Sessions =>
             /\ answer[t].word # "unasked" /\ status[approval[t].sid] # "unopened"
             /\ status[approval[t].sid] = "live" => approval[t].epoch <= epoch[approval[t].sid]

\* The human's yes stands behind every approval the service would act on, and the
\* approval ends no later than the window of the yes.
SaidYes(t, until) ==
    answer[t].word = "yes" /\ answer[t].at <= now /\ until <= answer[t].at + ApprovalTTL
YesStands ==
    \A t \in Tokens : Honoured(t) /\ approval[t].state = "approved" => SaidYes(t, approval[t].expires)

\* A command that presented a token does so for its own session, epoch and action, and
\* nothing but time changes the approval meanwhile.
Presented ==
    cmd.stage = "preparing" =>
        /\ status[cmd.sid] = "live"
        /\ cmd.token # NoToken /\ approval[cmd.token].state # "none" =>
             /\ approval[cmd.token].state = "approved"
             /\ approval[cmd.token].sid = cmd.sid /\ approval[cmd.token].act = cmd.act
             /\ approval[cmd.token].epoch = epoch[cmd.sid]

\* A command that was sent under a token has spent it, and remembers the window of a yes.
InHand ==
    cmd.stage \in {"dispatched", "completing"} /\ cmd.token # NoToken =>
        /\ \/ approval[cmd.token].state = "none"
           \/ approval[cmd.token].state = "consumed" /\ approval[cmd.token].sid = cmd.sid
        /\ SaidYes(cmd.token, cmd.window)

\* Whatever paid for an action is spent for good; what was sent has not yet paid for one
\* while the browser has not acted.
Paid ==
    \A e \in effects : e.token # NoToken =>
        /\ approval[e.token].state \in {"consumed", "none"} /\ answer[e.token].word # "unasked"
        /\ cmd.stage = "dispatched" /\ ~cmd.done => e.token # cmd.token

\* A review item is open, or will be if the command in flight gives it back.
Open(t) ==
    /\ Live(t)
    /\ Lives(pending[t]) \/ (cmd.stage = "dispatched" /\ cmd.token = t /\ Lives(cmd.item))
Alike(t, u) ==
    /\ approval[t].sid = approval[u].sid /\ approval[t].epoch = approval[u].epoch
    /\ approval[t].act = approval[u].act /\ approval[t].target = approval[u].target
OneOpen ==
    \A t, u \in Tokens :
        t # u /\ Open(t) /\ Open(u) /\ status[approval[t].sid] = "live" => ~Alike(t, u)

HumanInv == Asked /\ YesStands /\ Presented /\ InHand /\ Paid /\ OneOpen
-----------------------------------------------------------------------------
\* The kinds of steps

\* Sessions may end; none begins, and no epoch of one that goes on changes.
Ends ==
    \A s \in Sessions : status'[s] = "gone" \/ (status'[s] = status[s] /\ epoch'[s] = epoch[s])
Fewer(items) == \A t \in Tokens : items[t] \in {0, pending[t]}

\* Nobody answers, asks, spends or acts.
Quiet ==
    /\ UNCHANGED <<now, approval, answer, effects>> /\ Ends /\ Fewer(pending')
    /\ \/ cmd'.stage \notin ActStages
       \/ cmd' = cmd /\ UNCHANGED <<status, epoch>>
       \/ cmd.stage = "dispatched" /\ cmd'.stage = "completing" /\ cmd'.token = cmd.token
          /\ cmd'.window = cmd.window /\ cmd'.sid = cmd.sid

\* Decided(t) is the answer of a human.
Decided(t) == Approve(t) \/ Deny(t)

\* A dispatch is taken back, though its session may be gone.
Returned ==
    /\ Dispatched /\ ~cmd.done /\ Restore /\ cmd' = Idle
    /\ UNCHANGED <<now, answer, effects>> /\ Ends
    /\ UNCHANGED <<status, epoch>> \/ status'[cmd.sid] = "gone" \/ \A s \in Sessions : status'[s] # "live"
    /\ \E items \in [Tokens -> Nat] : Fewer(items) /\ pending' = RestoredItems(items)

\* A human takes session s over.
TakenOver(s) ==
    /\ status[s] = "live" /\ cmd.stage = "idle" /\ cmd'.stage \notin ActStages
    /\ Invalidate(s) /\ TakeOver(s) /\ UNCHANGED <<now, status, effects>>

\* One step of the service is one of these.
Kind ==
    \/ Quiet \/ ClientRequests \/ DispatchApproved \/ DispatchAutomatic \/ BrowserActs
    \/ Returned \/ Tick
    \/ \E t \in Tokens : Propose(t) \/ Decided(t)
    \/ \E s \in Sessions : TakenOver(s) \/ OpenSession(s)

USE DEF TypeInv, TypeOK, FrameOK, memory, records, history, Finish

\* The idle frame is of no action.
LEMMA IdleStage == Idle.stage \notin ActStages /\ Idle.stage = "idle"
  BY DEF Idle, ActStages

\* Ending sessions ends nothing else.
LEMMA ClearedEnds ==
    /\ \A S \in SUBSET Sessions : Cleared(S) => Ends
    /\ ForgetAll => Ends
<1>1. ASSUME NEW S \in SUBSET Sessions, Cleared(S) PROVE Ends
  BY <1>1 DEF Cleared, Ends
<1>2. LiveSessions \in SUBSET Sessions
  BY DEF LiveSessions
<1> QED
  BY <1>1, <1>2 DEF ForgetAll

\* Dropping the review items of a session adds none.
LEMMA WithoutFewer == ASSUME TypeInv, NEW s PROVE Fewer(Without(s)) /\ Fewer(pending)
  BY DEF Without, Fewer

\* There are no other steps.
LEMMA Kinds == ASSUME TypeInv, [Next]_vars PROVE Kind
<1> USE IdleStage DEF Kind
<1>1. CASE UNCHANGED vars
  BY <1>1 DEF vars, Quiet, Ends, Fewer
<1>2. CASE PrepareReplies
  <2>1. CASE PrepareFails \/ ApprovalLapsesInFlight \/ TargetChanged \/ ProposalNotAdded
    BY <2>1 DEF PrepareFails, ApprovalLapsesInFlight, TargetChanged, ProposalNotAdded, Quiet, Ends,
       Fewer
  <2>2. CASE BrowserLostInPrepare
    BY <2>2, ClearedEnds, WithoutFewer DEF BrowserLostInPrepare, Forget, Quiet
  <2> QED
    BY <1>2, <2>1, <2>2 DEF PrepareReplies
<1>3. CASE ActReplies \/ WaitReplies
  <2>1. CASE ActReported \/ ActUncertain \/ CompletionKnown \/ CompletionUnknown
    BY <2>1 DEF ActReported, ActUncertain, CompletionKnown, CompletionUnknown, LoseOutcome, Quiet,
       Ends, Fewer
  <2>2. CASE AwaitCompletion
    BY <2>2 DEF AwaitCompletion, Dispatched, Commands, Quiet, Ends, Fewer
  <2>3. CASE BrowserLostInAct \/ BrowserLostInWait
    BY <2>3, ClearedEnds, WithoutFewer DEF BrowserLostInAct, BrowserLostInWait, Dispatched, Forget, Quiet
  <2>4. CASE WorkerLostInAct \/ WorkerLostInWait
    BY <2>4, ClearedEnds, WithoutFewer DEF WorkerLostInAct, WorkerLostInWait, Quiet
  <2>5. CASE ActNotPerformed
    BY <2>5, WithoutFewer DEF ActNotPerformed, Returned, Ends
  <2>6. CASE BrowserUnreachableBeforeAct
    <3>1. \A s \in Sessions : status'[s] # "live"
      BY <2>6 DEF BrowserUnreachableBeforeAct, ForgetAll, Cleared, LiveSessions
    <3> QED
      BY <2>6, <3>1, ClearedEnds, WithoutFewer DEF BrowserUnreachableBeforeAct, Returned
  <2>7. CASE BrowserGoneBeforeAct
    <3>1. Without(cmd.sid) \in [Tokens -> Nat] /\ {cmd.sid} \in SUBSET Sessions
      BY <2>7, WithoutType DEF BrowserGoneBeforeAct, Dispatched
    <3>2. Ends /\ Fewer(Without(cmd.sid))
      BY <2>7, <3>1, ClearedEnds, WithoutFewer DEF BrowserGoneBeforeAct
    <3>3. status'[cmd.sid] = "gone"
      BY <2>7, <3>1 DEF BrowserGoneBeforeAct, Cleared
    <3> QED
      BY <2>7, <3>1, <3>2, <3>3 DEF BrowserGoneBeforeAct, Returned
  <2> QED
    BY <1>3, <2>1, <2>2, <2>3, <2>4, <2>5, <2>6, <2>7 DEF ActReplies, WaitReplies
<1>4. CASE ControlReplies
  <2>1. CASE FocusAnswered \/ Resumed \/ ResumeFails \/ CloseFails
    BY <2>1 DEF FocusAnswered, Resumed, ResumeFails, CloseFails, Quiet, Ends, Fewer
  <2>2. CASE SessionClosed \/ BrowserLostInControl
    BY <2>2, ClearedEnds, WithoutFewer DEF SessionClosed, BrowserLostInControl, Forget, Quiet
  <2>3. CASE WorkerLostInControl
    BY <2>3, ClearedEnds, WithoutFewer DEF WorkerLostInControl, Quiet
  <2> QED
    BY <1>4, <2>1, <2>2, <2>3 DEF ControlReplies
<1>5. CASE Human
  <2>1. ASSUME NEW s \in Sessions, StartHandoff(s) \/ CompleteHandoff(s) PROVE TakenOver(s)
    BY <2>1 DEF StartHandoff, CompleteHandoff, Unlocked, Idle, ActStages, TakenOver
  <2>2. ASSUME NEW s \in Sessions, CancelHandoff(s) \/ ReclaimSession(s) PROVE Quiet
    BY <2>2 DEF CancelHandoff, ReclaimSession, Idle, ActStages, Quiet, Ends, Fewer
  <2> QED
    BY <1>5, <2>1, <2>2 DEF Human, Decided
<1>6. CASE Environment
  <2>1. ASSUME NEW s \in Sessions, CloseSession(s) \/ BrowserDisconnects(s) PROVE Quiet
    <3>1. Ends
      BY <2>1, ClearedEnds DEF CloseSession, BrowserDisconnects, Forget
    <3>2. cmd.stage \notin ActStages /\ cmd' = cmd
      BY <2>1 DEF CloseSession, BrowserDisconnects, Unlocked, ActStages
    <3> QED
      BY <2>1, <3>1, <3>2, WithoutFewer DEF CloseSession, BrowserDisconnects, Forget, Quiet
  <2>2. CASE \E s \in Sessions, newDocument \in BOOLEAN, place \in Places :
                PageDrifts(s, newDocument, place)
    BY <2>2 DEF PageDrifts, Quiet, Ends, Fewer
  <2>3. CASE WorkerStops \/ Crash
    <3>1. cmd'.stage \notin ActStages
      BY <2>3 DEF WorkerStops, Crash, Unlocked, ActStages
    <3> QED
      BY <2>3, <3>1, ClearedEnds, WithoutFewer DEF WorkerStops, Crash, Quiet, Fewer
  <2> QED
    BY <1>6, <2>1, <2>2, <2>3 DEF Environment
<1> QED
  BY <1>1, <1>2, <1>3, <1>4, <1>5, <1>6 DEF Next, PrepareReplies, Environment
-----------------------------------------------------------------------------
\* The inductive invariant

\* What the store and the windows are.
LEMMA Fields ==
    ASSUME TypeInv
    PROVE  /\ now \in Nat /\ ApprovalTTL \in Nat /\ ConsumedTTL \in Nat /\ ApprovalTTL > 0
           /\ \A t \in Tokens : /\ approval[t] \in Approvals /\ approval[t].expires \in Nat
                                /\ approval[t].epoch \in Nat /\ pending[t] \in Nat
                                /\ answer[t] \in Answers /\ answer[t].at \in Nat
           /\ \A s \in Sessions : epoch[s] \in Nat
           /\ NoToken \notin Tokens /\ NoSession \notin Sessions
           /\ cmd.window \in Nat /\ cmd.item \in Nat /\ cmd.token \in Tokens \cup {NoToken}
           /\ \A e \in effects : e.token \in Tokens \cup {NoToken}
  BY ConsentConstants DEF Approvals, Answers, Commands, Effects

\* Nothing is asked at first.
LEMMA HumanInit == Init => HumanInv
  BY ConsentConstants DEF Init, HumanInv, Asked, YesStands, Presented, InHand, Paid, OneOpen,
     Honoured, Live, Lives, Open, NoApproval, Idle

\* Steps in which nobody asks, answers, spends or acts.
LEMMA HumanQuiet == ASSUME TypeInv, HumanInv, Quiet PROVE HumanInv'
<1> USE Fields DEF HumanInv, Quiet, Ends, Fewer, ActStages, Live, Lives
<1>1. Asked'
  BY DEF Asked
<1>2. YesStands'
  BY DEF YesStands, Honoured, LiveSessions, SaidYes, Asked
<1>3. Presented'
  BY DEF Presented
<1>4. InHand'
  BY DEF InHand, SaidYes
<1>5. Paid'
  BY DEF Paid
<1>6. \A t \in Tokens : Open(t)' => Open(t)
  BY DEF Open
<1>7. \A t \in Tokens : Open(t) /\ status'[approval[t].sid] = "live" => status[approval[t].sid] = "live"
  BY DEF Open, Asked
<1>8. \A t, u \in Tokens : Alike(t, u)' <=> Alike(t, u)
  BY DEF Alike
<1>9. OneOpen'
  BY <1>6, <1>7, <1>8 DEF OneOpen
<1> QED
  BY <1>1, <1>2, <1>3, <1>4, <1>5, <1>9

\* A client is let in with the token it presents.
LEMMA HumanLetIn == ASSUME TypeInv, HumanInv, ClientRequests PROVE HumanInv'
<1> USE Fields DEF HumanInv, Live, Lives
<1>1. PICK s \in Sessions, rev \in Revisions, a \in Actions, t \in Tokens \cup {NoToken} :
        ActBegins(s, rev, a, t)
  BY DEF ClientRequests
<1>2. /\ cmd'.stage = "preparing" /\ cmd'.sid = s /\ cmd'.act = a /\ cmd'.token = t
      /\ UNCHANGED <<now, status, epoch, approval, pending, answer, effects>>
  BY <1>1 DEF ActBegins, Idle
<1>3. /\ Authorised(t, s, a) /\ status[s] = "live" /\ cmd.stage = "idle"
  BY <1>1 DEF ActBegins, Unlocked
<1>4. Presented'
  BY <1>2, <1>3 DEF Presented, Authorised
<1>5. Asked' /\ YesStands' /\ InHand' /\ Paid'
  BY <1>2 DEF Asked, YesStands, Honoured, LiveSessions, SaidYes, InHand, Paid
<1>6. OneOpen'
  BY <1>2, <1>3 DEF OneOpen, Open, Alike
<1> QED
  BY <1>4, <1>5, <1>6

\* A question is asked: of a session that lives, in its epoch, and of no other item open.
LEMMA HumanPropose == ASSUME TypeInv, HumanInv, NEW t \in Tokens, Propose(t) PROVE HumanInv'
<1> USE Fields DEF HumanInv, Live, Lives
<1>1. /\ cmd.stage = "preparing" /\ cmd'.stage = "idle" /\ status[cmd.sid] = "live"
      /\ cmd.sid \in Sessions /\ answer[t].word = "unasked" /\ answer'[t].word = "asked"
      /\ UNCHANGED <<now, status, epoch, effects>>
      /\ \A u \in Tokens \ {t} : approval'[u] = approval[u] /\ pending'[u] = pending[u]
                                 /\ answer'[u] = answer[u]
  BY IdleStage DEF Propose, Asking, Prepared, Presented, Answers
<1>2. /\ approval'[t].state = "pending" /\ approval'[t].sid = cmd.sid
      /\ approval'[t].epoch = epoch[cmd.sid] /\ approval'[t].act = cmd.act
      /\ approval'[t].target = Target(cmd.sid)
  BY DEF Propose
<1>3. Asked'
  BY <1>1, <1>2 DEF Asked
<1>4. YesStands'
  BY <1>1, <1>2 DEF YesStands, Honoured, LiveSessions, SaidYes
<1>5. Presented' /\ InHand'
  BY <1>1 DEF Presented, InHand
<1>6. Paid'
  BY <1>1 DEF Paid
<1>7. ASSUME NEW u \in Tokens \ {t}, Open(u)' PROVE Open(u) /\ ~Duplicate(u)
  BY <1>1, <1>7 DEF Open, Propose
<1>8. ASSUME NEW u \in Tokens \ {t}, Open(u)' PROVE ~Alike(t, u)' /\ ~Alike(u, t)'
  <2>1. ~(/\ approval[u].sid = cmd.sid /\ approval[u].epoch = epoch[cmd.sid]
          /\ approval[u].act = cmd.act /\ approval[u].target = Target(cmd.sid))
    BY <1>1, <1>7, <1>8 DEF Duplicate, Open
  <2> QED
    BY <1>1, <1>2, <2>1 DEF Alike
<1>9. \A u, v \in Tokens \ {t} : Alike(u, v)' <=> Alike(u, v)
  BY <1>1 DEF Alike
<1>10. OneOpen'
  <2> SUFFICES ASSUME NEW u \in Tokens, NEW v \in Tokens, u # v, Open(u)', Open(v)',
                      status'[approval'[u].sid] = "live"
               PROVE  ~Alike(u, v)'
    BY DEF OneOpen
  <2>1. CASE u = t \/ v = t
    BY <1>8, <2>1
  <2>2. CASE u # t /\ v # t
    <3>1. Open(u) /\ Open(v) /\ status[approval[u].sid] = "live"
      BY <1>1, <1>7, <2>2
    <3> QED
      BY <1>9, <2>2, <3>1 DEF OneOpen
  <2> QED
    BY <2>1, <2>2
<1> QED
  BY <1>3, <1>4, <1>5, <1>6, <1>10

\* The human answers a question that is open.
LEMMA HumanDecided == ASSUME TypeInv, HumanInv, NEW t \in Tokens, Decided(t) PROVE HumanInv'
<1> USE Fields DEF HumanInv, Live, Lives
<1>1. /\ cmd.stage = "idle" /\ cmd' = cmd
      /\ UNCHANGED <<now, status, epoch, effects>>
      /\ \A u \in Tokens \ {t} : approval'[u] = approval[u] /\ pending'[u] = pending[u]
                                 /\ answer'[u] = answer[u]
  BY DEF Decided, Approve, Deny, Decidable, Unlocked
<1>2. /\ approval[t].state = "pending" /\ pending[t] > now /\ approval[t].expires > now
      /\ approval[t].sid \in LiveSessions /\ approval[t].epoch = epoch[approval[t].sid]
  BY DEF Decided, Approve, Deny, Decidable
<1>3. /\ approval'[t].sid = approval[t].sid /\ approval'[t].epoch = approval[t].epoch
      /\ approval'[t].act = approval[t].act /\ approval'[t].target = approval[t].target
      /\ approval'[t].state \in {"approved", "denied"}
  BY DEF Decided, Approve, Deny, Approvals
<1>4. /\ answer'[t].word \in {"yes", "no"}
      /\ approval'[t].state = "approved" =>
           answer'[t] = [word |-> "yes", at |-> now] /\ approval'[t].expires = now + ApprovalTTL
  BY DEF Decided, Approve, Deny, Approvals
<1>5. Asked'
  BY <1>1, <1>2, <1>3, <1>4 DEF Asked, LiveSessions
<1>6. YesStands'
  BY <1>1, <1>2, <1>3, <1>4 DEF YesStands, Honoured, LiveSessions, SaidYes
<1>7. Presented' /\ InHand'
  BY <1>1 DEF Presented, InHand
<1>8. Paid'
  BY <1>1, <1>2 DEF Paid
<1>9. \A u \in Tokens : Open(u)' => Open(u)
  BY <1>1, <1>2 DEF Open
<1>10. \A u, v \in Tokens : Alike(u, v)' <=> Alike(u, v)
  <2>1. \A u \in Tokens : /\ approval'[u].sid = approval[u].sid /\ approval'[u].epoch = approval[u].epoch
                          /\ approval'[u].act = approval[u].act /\ approval'[u].target = approval[u].target
    BY <1>1, <1>3
  <2> QED
    BY <2>1 DEF Alike
<1>11. OneOpen'
  BY <1>1, <1>3, <1>9, <1>10 DEF OneOpen
<1> QED
  BY <1>5, <1>6, <1>7, <1>8, <1>11

\* A human takes a session over: what was answered about it belongs to an epoch that is over.
LEMMA HumanTakenOver ==
    ASSUME TypeInv, HumanInv, NEW s \in Sessions, TakenOver(s) PROVE HumanInv'
<1> USE Fields DEF HumanInv, Live, Lives, TakenOver
<1>1. /\ \A t \in Tokens : approval'[t] = IF pending[t] > 0 /\ approval[t].sid = s
                                          THEN NoApproval ELSE approval[t]
      /\ \A t \in Tokens : pending'[t] = IF approval[t].sid = s THEN 0 ELSE pending[t]
      /\ \A o \in Sessions : epoch'[o] = IF o = s THEN epoch[s] + 1 ELSE epoch[o]
  BY DEF Invalidate, Without
<1>2. \A t \in Tokens : answer'[t] = IF approval[t].sid = s THEN [word |-> "withdrawn", at |-> 0]
                                     ELSE answer[t]
  BY DEF TakeOver
<1>3. NoApproval.state = "none" /\ NoApproval.sid = NoSession
  BY DEF NoApproval
<1>4. Asked'
  BY <1>1, <1>2, <1>3 DEF Asked
<1>5. YesStands'
  BY <1>1, <1>2, <1>3 DEF YesStands, Honoured, LiveSessions, SaidYes, Asked
<1>6. Presented' /\ InHand'
  BY DEF Presented, InHand, ActStages
<1>7. Paid'
  BY <1>1, <1>2, <1>3 DEF Paid, ActStages
<1>8. \A t \in Tokens : Open(t)' => Open(t) /\ approval'[t] = approval[t]
  BY <1>1, <1>3 DEF Open, ActStages
<1>9. OneOpen'
  BY <1>8 DEF OneOpen, Alike
<1> QED
  BY <1>4, <1>5, <1>6, <1>7, <1>9

\* An action is sent under an approval, which it spends.
LEMMA HumanSpends == ASSUME TypeInv, HumanInv, DispatchApproved PROVE HumanInv'
<1> USE Fields DEF HumanInv, Live, Lives
<1> DEFINE t == cmd.token
<1>1. /\ cmd.stage = "preparing" /\ t \in Tokens /\ t # NoToken
      /\ approval[t].state = "approved" /\ approval[t].expires > now
      /\ UNCHANGED <<now, status, epoch, answer, effects>>
  BY DEF DispatchApproved, Prepared
<1>2. /\ cmd'.stage = "dispatched" /\ cmd'.token = t /\ cmd'.sid = cmd.sid /\ cmd'.done = cmd.done
      /\ cmd'.window = approval[t].expires /\ cmd'.item = pending[t]
  BY DEF DispatchApproved, Dispatch, Commands
<1>3. /\ \A u \in Tokens \ {t} : approval'[u] = approval[u] /\ pending'[u] = pending[u]
      /\ approval'[t].state = "consumed" /\ pending'[t] = 0
  BY <1>1 DEF DispatchApproved, Spent, Approvals
<1>4. \A u \in Tokens : /\ approval'[u].sid = approval[u].sid /\ approval'[u].epoch = approval[u].epoch
                        /\ approval'[u].act = approval[u].act /\ approval'[u].target = approval[u].target
  BY <1>1, <1>3 DEF DispatchApproved, Spent, Approvals
<1>5. SaidYes(t, approval[t].expires)
  <2>1. Honoured(t)
    BY <1>1 DEF Honoured, Presented, LiveSessions
  <2> QED
    BY <1>1, <2>1 DEF YesStands
<1>6. Asked'
  BY <1>1, <1>3, <1>4 DEF Asked
<1>7. YesStands'
  BY <1>1, <1>3 DEF YesStands, Honoured, LiveSessions, SaidYes
<1>8. Presented' /\ InHand'
  BY <1>1, <1>2, <1>3, <1>4, <1>5 DEF Presented, InHand, SaidYes
<1>9. Paid'
  BY <1>1, <1>2, <1>3 DEF Paid
<1>10. \A u \in Tokens : Open(u)' => Open(u)
  BY <1>1, <1>2, <1>3 DEF Open
<1>11. \A u, v \in Tokens : Alike(u, v)' <=> Alike(u, v)
  BY <1>4 DEF Alike
<1>12. OneOpen'
  BY <1>1, <1>4, <1>10, <1>11 DEF OneOpen
<1> QED
  BY <1>6, <1>7, <1>8, <1>9, <1>12

\* An action is sent that needs no approval, and the browser acts.
LEMMA HumanSends ==
    ASSUME TypeInv, HumanInv, DispatchAutomatic \/ BrowserActs PROVE HumanInv'
<1> USE Fields DEF HumanInv, Live, Lives
<1>1. /\ UNCHANGED <<now, status, epoch, approval, pending, answer>>
      /\ cmd'.stage = "dispatched" /\ cmd'.token = cmd.token /\ cmd'.sid = cmd.sid
  BY DEF DispatchAutomatic, Dispatch, BrowserActs, Dispatched, Commands
<1>2. \/ cmd.token = NoToken /\ UNCHANGED effects
      \/ /\ cmd.stage = "dispatched" /\ cmd'.window = cmd.window /\ cmd'.item = cmd.item /\ cmd'.done
         /\ \A e \in effects' : e \in effects \/ e.token = cmd.token
  BY DEF DispatchAutomatic, BrowserActs, Dispatched, Commands
<1>3. Asked' /\ Presented'
  BY <1>1 DEF Asked, Presented
<1>4. YesStands'
  BY <1>1 DEF YesStands, Honoured, LiveSessions, SaidYes
<1>5. InHand'
  BY <1>1, <1>2 DEF InHand, SaidYes
<1>6. Paid'
  BY <1>1, <1>2 DEF Paid, InHand, SaidYes
<1>7. \A u \in Tokens : Open(u)' => Open(u)
  BY <1>1, <1>2 DEF Open
<1>8. OneOpen'
  BY <1>1, <1>7 DEF OneOpen, Alike
<1> QED
  BY <1>3, <1>4, <1>5, <1>6, <1>8

\* What is given back was the human's yes, for what is left of its window.
LEMMA HumanReturned == ASSUME TypeInv, HumanInv, Returned PROVE HumanInv'
<1> USE Fields DEF HumanInv, Live, Lives
<1> DEFINE t == cmd.token
<1>1. /\ cmd.stage = "dispatched" /\ ~cmd.done /\ cmd' = Idle /\ cmd'.stage = "idle"
      /\ UNCHANGED <<now, answer, effects>> /\ Ends
  BY IdleStage DEF Returned, Dispatched
<1>2. \A u \in Tokens : /\ u # t => approval'[u] = approval[u]
                        /\ pending'[u] \in {0, pending[u]} \/ (u = t /\ pending'[u] = cmd.item)
  BY DEF Returned, Restore, RestoredItems, Fewer
<1>3. CASE approval' = approval
  <2>1. Asked'
    BY <1>1, <1>3 DEF Asked, Ends
  <2>2. YesStands'
    BY <1>1, <1>3 DEF YesStands, Honoured, LiveSessions, SaidYes, Ends, Asked
  <2>3. Paid' /\ Presented' /\ InHand'
    BY <1>1, <1>3 DEF Paid, Presented, InHand
  <2>4. \A u \in Tokens : Open(u)' => Open(u)
    BY <1>1, <1>2, <1>3 DEF Open
  <2>5. \A u \in Tokens : Open(u) /\ status'[approval[u].sid] = "live" => status[approval[u].sid] = "live"
    BY <1>1 DEF Open, Asked, Ends
  <2>6. OneOpen'
    BY <1>3, <2>4, <2>5 DEF OneOpen, Alike
  <2> QED
    BY <2>1, <2>2, <2>3, <2>6
<1>4. CASE approval' # approval
  <2>1. /\ t \in Tokens /\ t # NoToken
        /\ approval[t].state = "consumed" /\ approval[t].expires > now
    BY <1>4 DEF Returned, Restore
  <2>2. approval' = [approval EXCEPT ![t].state = "approved", ![t].expires = cmd.window]
    BY <1>4 DEF Returned, Restore, RestoredExpiry
  <2>3. approval'[t] = [approval[t] EXCEPT !.state = "approved", !.expires = cmd.window]
    BY <2>1, <2>2
  <2>4. /\ approval'[t].state = "approved" /\ approval'[t].expires = cmd.window
        /\ \A u \in Tokens :
             /\ approval'[u].sid = approval[u].sid /\ approval'[u].epoch = approval[u].epoch
             /\ approval'[u].act = approval[u].act /\ approval'[u].target = approval[u].target
    <3>1. /\ approval'[t].state = "approved" /\ approval'[t].expires = cmd.window
          /\ approval'[t].sid = approval[t].sid /\ approval'[t].epoch = approval[t].epoch
          /\ approval'[t].act = approval[t].act /\ approval'[t].target = approval[t].target
      BY <2>1, <2>3 DEF Approvals
    <3> QED
      BY <1>2, <3>1
  <2>5. SaidYes(t, cmd.window)
    BY <1>1, <2>1 DEF InHand
  <2>6. Asked'
    BY <1>1, <1>2, <2>1, <2>4 DEF Asked, Ends
  <2>7. YesStands'
    BY <1>1, <1>2, <2>4, <2>5 DEF YesStands, Honoured, LiveSessions, SaidYes, Ends, Asked
  <2>8. Paid' /\ Presented' /\ InHand'
    BY <1>1, <1>2, <2>1 DEF Paid, Presented, InHand
  <2>9. \A u \in Tokens : Open(u)' => Open(u)
    BY <1>1, <1>2, <2>1 DEF Open
  <2>10. \A u \in Tokens : Open(u) /\ status'[approval[u].sid] = "live" => status[approval[u].sid] = "live"
    BY <1>1 DEF Open, Asked, Ends
  <2>11. \A u, v \in Tokens : Alike(u, v)' <=> Alike(u, v)
    BY <2>4 DEF Alike
  <2>12. OneOpen'
    BY <2>4, <2>9, <2>10, <2>11 DEF OneOpen
  <2> QED
    BY <2>6, <2>7, <2>8, <2>12
<1> QED
  BY <1>3, <1>4

\* Time passes: rows and review items end.
LEMMA HumanTick == ASSUME TypeInv, HumanInv, Tick PROVE HumanInv'
<1> USE Fields DEF HumanInv, Live, Lives
<1>1. /\ now' = now + 1 /\ UNCHANGED <<status, epoch, cmd, answer, effects>>
      /\ \A t \in Tokens : approval'[t] = NoApproval \/ approval'[t] = approval[t]
      /\ \A t \in Tokens : pending'[t] \in {0, pending[t]}
  BY DEF Tick, Unexpired
<1>2. NoApproval.state = "none" /\ NoApproval.sid = NoSession
  BY DEF NoApproval
<1>3. Asked'
  BY <1>1, <1>2 DEF Asked
<1>4. YesStands'
  BY <1>1, <1>2 DEF YesStands, Honoured, LiveSessions, SaidYes
<1>5. Presented' /\ InHand'
  BY <1>1, <1>2 DEF Presented, InHand, SaidYes
<1>6. Paid'
  BY <1>1, <1>2 DEF Paid
<1>7. \A t \in Tokens : Open(t)' => Open(t) /\ approval'[t] = approval[t]
  BY <1>1, <1>2 DEF Open
<1>8. OneOpen'
  BY <1>1, <1>7 DEF OneOpen, Alike
<1> QED
  BY <1>3, <1>4, <1>5, <1>6, <1>8

\* A session is opened: nothing was asked of it before.
LEMMA HumanOpens ==
    ASSUME TypeInv, HumanInv, NEW s \in Sessions, OpenSession(s) PROVE HumanInv'
<1> USE Fields DEF HumanInv, Live, Lives
<1>1. /\ status[s] = "unopened" /\ cmd.stage = "idle"
      /\ UNCHANGED <<now, epoch, approval, pending, cmd, answer, effects>>
      /\ \A o \in Sessions : status'[o] = IF o = s THEN "live" ELSE status[o]
  BY DEF OpenSession, Unlocked
<1>2. \A t \in Tokens : approval[t].sid # s
  BY <1>1 DEF Asked
<1>3. Asked' /\ Presented' /\ InHand' /\ Paid'
  BY <1>1, <1>2 DEF Asked, Presented, InHand, Paid
<1>4. YesStands'
  BY <1>1, <1>2 DEF YesStands, Honoured, LiveSessions, SaidYes
<1>5. \A t \in Tokens : Open(t)' => Open(t) /\ approval[t].sid \in Sessions
  BY <1>1 DEF Open, Asked
<1>6. OneOpen'
  BY <1>1, <1>2, <1>5 DEF OneOpen, Alike
<1> QED
  BY <1>3, <1>4, <1>6

\* Every step keeps the invariant.
LEMMA HumanStep == TypeInv /\ HumanInv /\ [Next]_vars => HumanInv'
  BY Kinds, HumanQuiet, HumanLetIn, HumanPropose, HumanDecided, HumanTakenOver, HumanSpends, HumanSends,
     HumanReturned, HumanTick, HumanOpens DEF Kind

\* The invariant holds in every reachable state.
LEMMA HumanInvariant == Spec => [](TypeInv /\ HumanInv)
  BY TypeInit, TypeStep, HumanInit, HumanStep, PTL DEF Spec
-----------------------------------------------------------------------------
\* Asking the same thing again does not open a second question, whatever was restored,
\* taken over or restarted: a denial cannot be dodged, nor a human be asked twice.
THEOREM AskedOnce == Spec => []OneOpenProposal
<1>1. TypeInv /\ HumanInv => OneOpenProposal
  BY DEF HumanInv, OneOpen, Open, Alike, OneOpenProposal
<1> QED
  BY <1>1, HumanInvariant, PTL

\* What an approval has to say when the action is sent.
LEMMA Sending ==
    ASSUME TypeInv, HumanInv, [Next]_vars, Sends
    PROVE  DispatchApproved \/ DispatchAutomatic
<1> USE DEF Sends
<1>1. cmd.stage = "preparing" /\ cmd'.stage = "dispatched" /\ cmd' # cmd
  OBVIOUS
<1>2. ~Quiet /\ ~ClientRequests /\ ~BrowserActs /\ ~Returned /\ ~Tick
  BY <1>1 DEF Quiet, ActStages, ClientRequests, ActBegins, Unlocked, BrowserActs, Returned, Dispatched, Tick
<1>3. \A t \in Tokens : ~Propose(t) /\ ~Decided(t)
  BY <1>1, IdleStage DEF Propose, Decided, Approve, Deny, Decidable, Unlocked
<1>4. \A s \in Sessions : ~TakenOver(s) /\ ~OpenSession(s)
  BY <1>1 DEF TakenOver, OpenSession, Unlocked
<1> QED
  BY <1>2, <1>3, <1>4, Kinds DEF Kind

\* An action that needs an approval is sent only under the human's own yes to this very
\* session, action and target, within the window of that yes, and not after a takeover.
THEOREM SentUnderConsent == Spec => GatedByHuman
<1> DEFINE Consented ==
      Sends /\ Gated(cmd.act, cmd'.target) =>
         /\ cmd.token # NoToken
         /\ answer[cmd.token].word = "yes"
         /\ answer[cmd.token].at <= now /\ now < answer[cmd.token].at + ApprovalTTL
         /\ approval[cmd.token].sid = cmd.sid /\ approval[cmd.token].act = cmd.act
         /\ approval[cmd.token].target = cmd'.target
<1>1. ASSUME TypeInv, HumanInv, [Next]_vars, Sends, Gated(cmd.act, cmd'.target) PROVE Consented
  <2> USE Fields DEF HumanInv, Live, Lives
  <2>1. cmd'.target = Target(cmd.sid)
    BY <1>1, Sending DEF DispatchApproved, DispatchAutomatic, Dispatch, Commands
  <2>2. DispatchApproved
    BY <1>1, <2>1, Sending DEF DispatchAutomatic
  <2>3. /\ cmd.stage = "preparing" /\ cmd.token \in Tokens /\ cmd.token # NoToken
        /\ approval[cmd.token].state = "approved" /\ approval[cmd.token].expires > now
        /\ approval[cmd.token].target = Target(cmd.sid)
    BY <1>1, <2>2 DEF DispatchApproved, Prepared
  <2>4. approval[cmd.token].sid = cmd.sid /\ approval[cmd.token].act = cmd.act /\ Honoured(cmd.token)
    BY <1>1, <2>3 DEF Presented, Honoured, LiveSessions
  <2>5. SaidYes(cmd.token, approval[cmd.token].expires)
    BY <1>1, <2>3, <2>4 DEF YesStands
  <2> QED
    BY <1>1, <2>1, <2>3, <2>4, <2>5 DEF SaidYes
<1>2. TypeInv /\ HumanInv /\ [Next]_vars => [Consented]_vars
  BY <1>1
<1> QED
  BY <1>2, HumanInvariant, PTL DEF Spec, GatedByHuman
-----------------------------------------------------------------------------
(***************************************************************************)
(* Doubts.  A dispatch without an outcome marks its session, only a human  *)
(* who looked at it takes the mark away, and who is let in has none.       *)
(***************************************************************************)
Doubts ==
    /\ \A s \in unresolved : uncertain[s]
    /\ cmd.stage = "preparing" => cmd.sid \notin unresolved

\* There are no doubts at first.
LEMMA DoubtsInit == Init => Doubts
  BY DEF Init, Doubts, Idle

\* Losing an outcome doubts, a completed control clears, being let in asks for neither.
LEMMA DoubtsStep == ASSUME TypeInv, Doubts, [Next]_vars PROVE Doubts'
<1> USE IdleStage DEF Doubts, ActStages
<1> DEFINE Settles == \A s \in unresolved' : s \in Sessions /\ uncertain'[s]
           Stays == cmd'.stage = "preparing" => cmd' = cmd /\ unresolved' \subseteq unresolved
<1>1. ASSUME Settles, Stays PROVE Doubts'
  BY <1>1
<1>2. ASSUME NEW S \in SUBSET Sessions, Cleared(S) PROVE Settles
  BY <1>2 DEF Cleared
<1>3. CASE UNCHANGED vars
  BY <1>3 DEF vars
<1>4. CASE ClientRequests
  BY <1>4 DEF ClientRequests, ActBegins, Idle, Settled
<1>5. CASE PrepareReplies
  <2>1. CASE BrowserLostInPrepare
    BY <1>1, <1>2, <2>1 DEF BrowserLostInPrepare, Forget
  <2>2. CASE ~BrowserLostInPrepare
    <3>1. UNCHANGED <<uncertain, unresolved>>
      BY <1>5, <2>2 DEF PrepareReplies, PrepareFails, ApprovalLapsesInFlight, TargetChanged,
         ProposalNotAdded, Propose, DispatchApproved, DispatchAutomatic
    <3>2. cmd'.stage # "preparing"
      BY <1>5, <2>2 DEF PrepareReplies, PrepareFails, ApprovalLapsesInFlight, TargetChanged,
         ProposalNotAdded, Propose, DispatchApproved, DispatchAutomatic, Dispatch, Commands
    <3> QED
      BY <3>1, <3>2
  <2> QED
    BY <2>1, <2>2
<1>6. CASE ActReplies \/ WaitReplies
  <2>1. CASE ActReported \/ AwaitCompletion \/ ActNotPerformed \/ CompletionKnown
    BY <2>1 DEF ActReported, AwaitCompletion, ActNotPerformed, CompletionKnown, Dispatched, Commands
  <2>2. CASE ActUncertain \/ CompletionUnknown
    BY <2>2 DEF ActUncertain, CompletionUnknown, Dispatched, LoseOutcome
  <2>3. CASE BrowserGoneBeforeAct \/ BrowserLostInAct \/ BrowserLostInWait
    BY <1>1, <1>2, <2>3 DEF BrowserGoneBeforeAct, BrowserLostInAct, BrowserLostInWait, Dispatched, Forget
  <2>4. CASE BrowserUnreachableBeforeAct \/ WorkerLostInAct \/ WorkerLostInWait
    BY <1>1, <1>2, <2>4 DEF BrowserUnreachableBeforeAct, WorkerLostInAct, WorkerLostInWait,
       ForgetAll, LiveSessions
  <2> QED
    BY <1>6, <2>1, <2>2, <2>3, <2>4 DEF ActReplies, WaitReplies
<1>7. CASE ControlReplies
  <2>1. CASE FocusAnswered \/ ResumeFails \/ CloseFails
    BY <2>1 DEF FocusAnswered, ResumeFails, CloseFails
  <2>2. CASE Resumed
    BY <2>2 DEF Resumed
  <2>3. CASE SessionClosed \/ BrowserLostInControl
    BY <1>1, <1>2, <2>3 DEF SessionClosed, BrowserLostInControl, Forget
  <2>4. CASE WorkerLostInControl
    BY <1>1, <1>2, <2>4 DEF WorkerLostInControl, ForgetAll, LiveSessions
  <2> QED
    BY <1>7, <2>1, <2>2, <2>3, <2>4 DEF ControlReplies
<1>8. CASE Human
  <2>1. UNCHANGED <<uncertain, unresolved>>
    BY <1>8 DEF Human, Approve, Deny, StartHandoff, CompleteHandoff, CancelHandoff, ReclaimSession
  <2>2. cmd' = cmd \/ cmd'.stage # "preparing"
    BY <1>8 DEF Human, Approve, Deny, StartHandoff, CompleteHandoff, CancelHandoff, ReclaimSession, Idle
  <2> QED
    BY <2>1, <2>2
<1>9. CASE Environment
  <2>1. CASE Tick \/ BrowserActs \/ \E s \in Sessions : OpenSession(s)
    BY <2>1 DEF Tick, BrowserActs, Dispatched, OpenSession, Commands
  <2>2. ASSUME NEW s \in Sessions, CloseSession(s) \/ BrowserDisconnects(s) PROVE Doubts'
    BY <1>1, <1>2, <2>2 DEF CloseSession, BrowserDisconnects, Forget, Unlocked
  <2>3. CASE WorkerStops \/ Crash
    BY <1>1, <1>2, <2>3 DEF WorkerStops, Crash, ForgetAll, LiveSessions, Unlocked
  <2>4. CASE \E s \in Sessions, newDocument \in BOOLEAN, place \in Places :
                PageDrifts(s, newDocument, place)
    BY <2>4 DEF PageDrifts
  <2> QED
    BY <1>9, <2>1, <2>2, <2>3, <2>4 DEF Environment
<1> QED
  BY <1>3, <1>4, <1>5, <1>6, <1>7, <1>8, <1>9 DEF Next

\* A session with a dispatch whose outcome nobody learned sends nothing more, until a human
\* has taken it over and returned it.
THEOREM DoubtsBlock == Spec => UnresolvedBlocks
<1>1. Doubts => [Sends => cmd.sid \notin unresolved]_vars
  BY DEF Doubts, Sends
<1>2. TypeInv /\ Doubts /\ [Next]_vars => Doubts'
  BY DoubtsStep
<1> QED
  BY <1>1, <1>2, TypeInit, TypeStep, DoubtsInit, PTL DEF Spec, UnresolvedBlocks
-----------------------------------------------------------------------------
(***************************************************************************)
(* Refinement.  Every kind of step moves the word of at most one token, or *)
(* lets some lapse; the browser's action uses one.                         *)
(***************************************************************************)
Used == {t \in Tokens : \E e \in effects : e.token = t}

\* The word of one token moves.
LEMMA Moving ==
    ASSUME NEW t \in Tokens, NEW from, NEW to, WordOf(t) = from, WordOf(t)' = to,
           \A u \in Tokens \ {t} : WordOf(u)' = WordOf(u), UNCHANGED effects
    PROVE  Promise!Moves(t, from, to)
  BY DEF Promise!Moves

\* The words of some tokens, asked before, lapse.
LEMMA Lapsing ==
    ASSUME \A t \in Tokens : \/ WordOf(t)' = WordOf(t)
                             \/ WordOf(t) # "unasked" /\ WordOf(t)' = "void",
           UNCHANGED effects
    PROVE  Promise!Next
<1> DEFINE T == {t \in Tokens : WordOf(t)' # WordOf(t)}
<1>1. Promise!Lapse(T)
  BY DEF Promise!Lapse
<1> QED
  BY <1>1 DEF Promise!Next

\* Nobody has asked anything at first.
LEMMA PromiseInit == Init => Promise!Init
  BY DEF Init, Promise!Init, WordOf

\* What the word of a token can be.
LEMMA WordIs ==
    ASSUME TypeInv, NEW t \in Tokens, answer[t].word # "unasked"
    PROVE  /\ WordOf(t) = IF InFlight(t) THEN "spent"
                          ELSE IF Honoured(t) THEN Standing[approval[t].state] ELSE "void"
           /\ Honoured(t) => approval[t].state \in {"pending", "approved", "denied", "consumed"}
           /\ Standing["pending"] = "asked" /\ Standing["approved"] = "granted"
           /\ Standing["denied"] = "denied" /\ Standing["consumed"] = "spent"
           /\ WordOf(t) # "unasked"
<1>1. Honoured(t) => approval[t].state \in {"pending", "approved", "denied", "consumed"}
  BY DEF Honoured, Live, Approvals
<1>2. /\ Standing["pending"] = "asked" /\ Standing["approved"] = "granted"
      /\ Standing["denied"] = "denied" /\ Standing["consumed"] = "spent"
  BY DEF Standing
<1> QED
  BY <1>1, <1>2 DEF WordOf

\* A token whose approval, question and session stay keeps its word; and it lapses where
\* its session or its time ends.
LEMMA WordStays ==
    ASSUME TypeInv, TypeInv', NEW t \in Tokens, answer'[t] = answer[t],
           InFlight(t)' <=> InFlight(t), Honoured(t)' => Honoured(t) /\ approval'[t].state = approval[t].state
    PROVE  WordOf(t)' = WordOf(t) \/ (WordOf(t) # "unasked" /\ WordOf(t)' = "void")
  BY WordIs DEF WordOf

\* Steps in which nobody asks, answers, spends or acts.
LEMMA KeptQuiet == ASSUME TypeInv, TypeInv', HumanInv, Quiet PROVE Promise!Next
<1> USE DEF HumanInv, Quiet, ActStages
<1>1. ASSUME NEW t \in Tokens, Honoured(t)' PROVE Honoured(t)
  BY <1>1 DEF Honoured, LiveSessions, Ends, Live, Lives
<1>2. ASSUME NEW t \in Tokens, InFlight(t), ~InFlight(t)'
      PROVE  WordOf(t)' = WordOf(t) \/ (WordOf(t) # "unasked" /\ WordOf(t)' = "void")
  <2>1. /\ approval[t].state \in {"consumed", "none"} /\ answer[t].word = "yes"
    BY <1>2, Fields DEF InFlight, InHand, SaidYes
  <2>2. WordOf(t) = "spent"
    BY <1>2, <2>1, WordIs
  <2>3. WordOf(t)' = IF Honoured(t)' THEN "spent" ELSE "void"
    BY <1>2, <2>1 DEF WordOf, Honoured, Live, Standing
  <2> QED
    BY <2>2, <2>3
<1>3. ASSUME NEW t \in Tokens, ~(InFlight(t) /\ ~InFlight(t)')
      PROVE  WordOf(t)' = WordOf(t) \/ (WordOf(t) # "unasked" /\ WordOf(t)' = "void")
  <2>1. InFlight(t)' <=> InFlight(t)
    BY <1>3 DEF InFlight
  <2> QED
    BY <1>1, <2>1, WordStays
<1> QED
  BY <1>2, <1>3, Lapsing

\* A client is let in: nothing becomes of its token yet.
LEMMA KeptLetIn == ASSUME TypeInv, ClientRequests PROVE UNCHANGED Promise!promise
<1>1. UNCHANGED <<now, approval, answer, effects, status, epoch>>
  BY DEF ClientRequests, ActBegins
<1>2. cmd.stage = "idle" /\ cmd'.stage = "preparing"
  BY DEF ClientRequests, ActBegins, Unlocked, Idle
<1>3. \A t \in Tokens : WordOf(t)' = WordOf(t)
  BY <1>1, <1>2 DEF WordOf, InFlight, Honoured, Live, Lives, LiveSessions
<1> QED
  BY <1>1, <1>3 DEF Promise!promise

\* A question is asked.
LEMMA KeptPropose ==
    ASSUME TypeInv, TypeInv', HumanInv, NEW t \in Tokens, Propose(t) PROVE Promise!Next
<1> USE Fields DEF HumanInv, Live, Lives
<1>1. /\ cmd.stage = "preparing" /\ cmd'.stage = "idle" /\ status[cmd.sid] = "live"
      /\ cmd.sid \in Sessions /\ answer[t].word = "unasked" /\ answer'[t].word = "asked"
      /\ UNCHANGED <<now, status, epoch, effects>>
      /\ \A u \in Tokens \ {t} : approval'[u] = approval[u] /\ pending'[u] = pending[u]
                                 /\ answer'[u] = answer[u]
  BY IdleStage DEF Propose, Asking, Prepared, Presented, Answers
<1>2. /\ approval'[t].state = "pending" /\ approval'[t].sid = cmd.sid
      /\ approval'[t].epoch = epoch[cmd.sid] /\ approval'[t].expires = now + ApprovalTTL
  BY DEF Propose
<1>3. Honoured(t)' /\ ~InFlight(t)'
  BY <1>1, <1>2 DEF Honoured, LiveSessions, InFlight
<1>4. WordOf(t) = "unasked" /\ WordOf(t)' = "asked"
  BY <1>1, <1>2, <1>3 DEF WordOf, Standing
<1>5. \A u \in Tokens \ {t} : WordOf(u)' = WordOf(u)
  BY <1>1 DEF WordOf, InFlight, Honoured, LiveSessions
<1>6. Promise!Ask(t)
  BY <1>1, <1>4, <1>5, Moving DEF Promise!Ask
<1> QED
  BY <1>6 DEF Promise!Next

\* The human answers.
LEMMA KeptDecided ==
    ASSUME TypeInv, TypeInv', HumanInv, NEW t \in Tokens, Decided(t) PROVE Promise!Next
<1> USE Fields DEF HumanInv, Live, Lives
<1>1. /\ cmd.stage = "idle" /\ cmd' = cmd
      /\ UNCHANGED <<now, status, epoch, effects>>
      /\ \A u \in Tokens \ {t} : approval'[u] = approval[u] /\ answer'[u] = answer[u]
  BY DEF Decided, Approve, Deny, Decidable, Unlocked
<1>2. /\ approval[t].state = "pending" /\ Honoured(t) /\ ~InFlight(t) /\ answer[t].word # "unasked"
  BY <1>1 DEF Decided, Approve, Deny, Decidable, Honoured, InFlight, LiveSessions, Asked
<1>3. WordOf(t) = "asked"
  BY <1>2, WordIs
<1>4. \A u \in Tokens \ {t} : WordOf(u)' = WordOf(u)
  BY <1>1 DEF WordOf, InFlight, Honoured, LiveSessions
<1>5. /\ approval'[t].sid = approval[t].sid /\ approval'[t].epoch = approval[t].epoch
      /\ approval'[t].expires > now /\ answer'[t].word # "unasked"
      /\ approval'[t].state = IF Approve(t) THEN "approved" ELSE "denied"
  BY DEF Decided, Approve, Deny, Approvals, Decidable
<1>6. Honoured(t)' /\ ~InFlight(t)'
  BY <1>1, <1>2, <1>5 DEF Honoured, LiveSessions, InFlight
<1>7. WordOf(t)' = IF Approve(t) THEN "granted" ELSE "denied"
  BY <1>5, <1>6 DEF WordOf, Standing
<1>8. Promise!Grant(t) \/ Promise!Deny(t)
  BY <1>1, <1>3, <1>4, <1>7, Moving DEF Promise!Grant, Promise!Deny
<1> QED
  BY <1>8 DEF Promise!Next

\* A human takes a session over: every answer about it lapses.
LEMMA KeptTakenOver ==
    ASSUME TypeInv, TypeInv', HumanInv, NEW s \in Sessions, TakenOver(s) PROVE Promise!Next
<1> USE Fields DEF HumanInv, Live, Lives, TakenOver
<1>1. /\ \A t \in Tokens : approval'[t] = IF pending[t] > 0 /\ approval[t].sid = s
                                          THEN NoApproval ELSE approval[t]
      /\ \A o \in Sessions : epoch'[o] = IF o = s THEN epoch[s] + 1 ELSE epoch[o]
  BY DEF Invalidate
<1>2. \A t \in Tokens : answer'[t] = IF approval[t].sid = s THEN [word |-> "withdrawn", at |-> 0]
                                     ELSE answer[t]
  BY DEF TakeOver
<1>3. NoApproval.state = "none" /\ NoApproval.sid = NoSession
  BY DEF NoApproval
<1>4. \A t \in Tokens : ~InFlight(t) /\ ~InFlight(t)'
  BY DEF InFlight, ActStages
<1>5. ASSUME NEW t \in Tokens, approval[t].sid = s
      PROVE  WordOf(t) # "unasked" /\ WordOf(t)' = "void"
  <2>1. answer[t].word # "unasked" /\ answer'[t].word = "withdrawn"
    BY <1>2, <1>5 DEF Asked
  <2>2. ~Honoured(t)'
    BY <1>1, <1>3, <1>5 DEF Honoured, LiveSessions, Asked
  <2> QED
    BY <1>4, <2>1, <2>2, WordIs DEF WordOf
<1>6. ASSUME NEW t \in Tokens, approval[t].sid # s PROVE WordOf(t)' = WordOf(t)
  <2>1. approval'[t] = approval[t] /\ answer'[t] = answer[t]
    BY <1>1, <1>2, <1>6
  <2>2. Honoured(t)' <=> Honoured(t)
    BY <1>1, <1>6, <2>1 DEF Honoured, LiveSessions
  <2> QED
    BY <1>4, <2>1, <2>2 DEF WordOf
<1> QED
  BY <1>5, <1>6, Lapsing

\* An action is sent under an approval.
LEMMA KeptSpends == ASSUME TypeInv, TypeInv', HumanInv, DispatchApproved PROVE Promise!Next
<1> USE Fields DEF HumanInv, Live, Lives
<1>0. PICK t \in Tokens \cup {NoToken} : t = cmd.token
  OBVIOUS
<1>1. /\ cmd.stage = "preparing" /\ t \in Tokens /\ t # NoToken
      /\ approval[t].state = "approved" /\ approval[t].expires > now
      /\ UNCHANGED <<now, status, epoch, answer, effects>>
      /\ \A u \in Tokens \ {t} : approval'[u] = approval[u]
  BY <1>0 DEF DispatchApproved, Prepared
<1>2. cmd'.stage = "dispatched" /\ cmd'.token = t
  BY <1>0 DEF DispatchApproved, Dispatch, Commands
<1>3. Honoured(t) /\ ~InFlight(t) /\ answer[t].word # "unasked"
  BY <1>0, <1>1 DEF Honoured, Presented, LiveSessions, InFlight, Asked
<1>4. WordOf(t) = "granted" /\ WordOf(t)' = "spent"
  BY <1>1, <1>2, <1>3, WordIs DEF WordOf, InFlight
<1>5. \A u \in Tokens \ {t} : WordOf(u)' = WordOf(u)
  BY <1>0, <1>1, <1>2 DEF WordOf, InFlight, Honoured, LiveSessions
<1>6. Promise!Spend(t)
  BY <1>1, <1>4, <1>5, Moving DEF Promise!Spend
<1> QED
  BY <1>1, <1>6 DEF Promise!Next

\* An action is sent that needs no approval.
LEMMA KeptSends == ASSUME TypeInv, DispatchAutomatic PROVE UNCHANGED Promise!promise
<1>1. /\ UNCHANGED <<now, status, epoch, approval, answer, effects>>
      /\ cmd'.token = NoToken /\ cmd.token = NoToken
  BY DEF DispatchAutomatic, Dispatch, Commands
<1>2. \A t \in Tokens : WordOf(t)' = WordOf(t)
  BY <1>1, Fields DEF WordOf, InFlight, Honoured, Live, Lives, LiveSessions
<1> QED
  BY <1>1, <1>2 DEF Promise!promise

\* The browser acts, and uses the token it was sent under.
LEMMA KeptActs == ASSUME TypeInv, HumanInv, BrowserActs PROVE [Promise!Next]_Promise!promise
<1> USE Fields DEF HumanInv
<1>0. PICK t \in Tokens \cup {NoToken} : t = cmd.token
  OBVIOUS
<1>1. /\ UNCHANGED <<now, status, epoch, approval, answer>> /\ cmd.stage = "dispatched" /\ ~cmd.done
      /\ cmd'.token = t /\ cmd'.stage = "dispatched"
  BY <1>0 DEF BrowserActs, Dispatched, Commands
<1>2. \A u \in Tokens : WordOf(u)' = WordOf(u)
  BY <1>0, <1>1 DEF WordOf, InFlight, Honoured, Live, Lives, LiveSessions
<1>3. \A u \in Tokens : (\E e \in effects' : e.token = u) <=> (u = t \/ \E e \in effects : e.token = u)
  <2>1. PICK f : effects' = effects \cup {f} /\ f.token = t
    BY <1>0 DEF BrowserActs
  <2> QED
    BY <2>1
<1>4. CASE t \in Tokens
  <2>1. ~\E e \in effects : e.token = t
    BY <1>0, <1>1, <1>4 DEF Paid
  <2>2. WordOf(t) = "spent"
    BY <1>0, <1>1, <1>4 DEF InHand, SaidYes, WordOf, InFlight
  <2>3. Promise!Act(t)
    BY <1>2, <1>3, <1>4, <2>1, <2>2 DEF Promise!Act
  <2> QED
    BY <1>4, <2>3 DEF Promise!Next
<1>5. CASE t = NoToken
  BY <1>2, <1>3, <1>5 DEF Promise!promise
<1> QED
  BY <1>0, <1>4, <1>5

\* A dispatch is taken back: the approval is granted again, or lapses with its session.
LEMMA KeptReturned == ASSUME TypeInv, TypeInv', HumanInv, Returned PROVE Promise!Next
<1> USE Fields DEF HumanInv, Live, Lives
<1>0. PICK t \in Tokens \cup {NoToken} : t = cmd.token
  OBVIOUS
<1>1. /\ cmd.stage = "dispatched" /\ ~cmd.done /\ cmd'.stage = "idle"
      /\ UNCHANGED <<now, answer, effects>> /\ Ends
  BY IdleStage DEF Returned, Dispatched
<1>2. ASSUME NEW u \in Tokens \ {t}
      PROVE  WordOf(u)' = WordOf(u) \/ (WordOf(u) # "unasked" /\ WordOf(u)' = "void")
  <2>1. approval'[u] = approval[u]
    BY <1>0 DEF Returned, Restore
  <2>2. Honoured(u)' => Honoured(u)
    BY <1>1, <2>1 DEF Honoured, LiveSessions, Ends
  <2>3. ~InFlight(u) /\ ~InFlight(u)'
    BY <1>0, <1>1 DEF InFlight
  <2> QED
    BY <1>1, <2>1, <2>2, <2>3, WordStays
<1>3. CASE t = NoToken
  BY <1>1, <1>2, <1>3, Lapsing
<1>4. CASE t \in Tokens
  <2>1. answer[t].word = "yes" /\ approval[t].state \in {"consumed", "none"}
    BY <1>0, <1>1, <1>4 DEF InHand, SaidYes
  <2>2. WordOf(t) = "spent" /\ ~InFlight(t)'
    BY <1>0, <1>1, <1>4, <2>1 DEF WordOf, InFlight
  <2>3. approval'[t].state \in {"consumed", "none", "approved"}
    BY <1>0, <1>4, <2>1 DEF Returned, Restore, Approvals
  <2>4. WordOf(t)' = IF Honoured(t)' THEN Standing[approval'[t].state] ELSE "void"
    BY <1>1, <2>1, <2>2 DEF WordOf
  <2>5. CASE ~(Honoured(t)' /\ approval'[t].state = "approved")
    <3>1. WordOf(t)' \in {"spent", "void"}
      BY <2>3, <2>4, <2>5 DEF Standing, Honoured, Live
    <3>2. \A u \in Tokens : WordOf(u)' = WordOf(u) \/ (WordOf(u) # "unasked" /\ WordOf(u)' = "void")
      BY <1>2, <2>2, <3>1
    <3> QED
      BY <1>1, <3>2, Lapsing
  <2>6. CASE Honoured(t)' /\ approval'[t].state = "approved"
    <3>1. approval[t].state = "consumed" /\ approval[t].sid = cmd.sid /\ approval'[t].sid = approval[t].sid
      BY <1>0, <1>1, <1>4, <2>1, <2>6 DEF InHand, Returned, Restore
    <3>2. UNCHANGED <<status, epoch>>
      BY <2>6, <3>1 DEF Returned, Honoured, LiveSessions
    <3>3. ASSUME NEW u \in Tokens \ {t} PROVE WordOf(u)' = WordOf(u)
      <4>1. approval'[u] = approval[u]
        BY <1>0 DEF Returned, Restore
      <4>2. ~InFlight(u) /\ ~InFlight(u)'
        BY <1>0, <1>1 DEF InFlight
      <4> QED
        BY <1>1, <3>2, <4>1, <4>2 DEF WordOf, Honoured, LiveSessions
    <3>4. WordOf(t)' = "granted"
      BY <2>4, <2>6 DEF Standing
    <3>5. ~\E e \in effects : e.token = t
      BY <1>0, <1>1, <1>4 DEF Paid
    <3>6. Promise!Refund(t)
      BY <1>1, <1>4, <2>2, <3>3, <3>4, <3>5, Moving DEF Promise!Refund
    <3> QED
      BY <1>4, <3>6 DEF Promise!Next
  <2> QED
    BY <2>5, <2>6
<1> QED
  BY <1>3, <1>4

\* Time passes: what ends is void, except in flight.
LEMMA KeptTick == ASSUME TypeInv, TypeInv', Tick PROVE Promise!Next
<1> USE Fields DEF Live, Lives
<1>1. /\ now' = now + 1 /\ UNCHANGED <<status, epoch, cmd, answer, effects>>
      /\ \A t \in Tokens : approval'[t] = NoApproval \/ approval'[t] = approval[t]
  BY DEF Tick
<1>2. NoApproval.state = "none"
  BY DEF NoApproval
<1>3. \A t \in Tokens : Honoured(t)' => Honoured(t) /\ approval'[t].state = approval[t].state
  BY <1>1, <1>2 DEF Honoured, LiveSessions
<1>4. \A t \in Tokens : InFlight(t)' <=> InFlight(t)
  BY <1>1 DEF InFlight
<1> QED
  BY <1>1, <1>3, <1>4, WordStays, Lapsing

\* A session is opened: nothing was asked of it.
LEMMA KeptOpens ==
    ASSUME TypeInv, HumanInv, NEW s \in Sessions, OpenSession(s) PROVE UNCHANGED Promise!promise
<1> USE Fields DEF HumanInv, Live, Lives
<1>1. /\ status[s] = "unopened" /\ UNCHANGED <<now, epoch, approval, cmd, answer, effects>>
      /\ \A o \in Sessions : status'[o] = IF o = s THEN "live" ELSE status[o]
  BY DEF OpenSession
<1>2. \A t \in Tokens : approval[t].sid # s
  BY <1>1 DEF Asked
<1>3. \A t \in Tokens : WordOf(t)' = WordOf(t)
  BY <1>1, <1>2 DEF WordOf, InFlight, Honoured, LiveSessions
<1> QED
  BY <1>1, <1>3 DEF Promise!promise

\* One step of the service is one step of the promise, or none.
LEMMA KeptStep ==
    ASSUME TypeInv, HumanInv, [Next]_vars PROVE [Promise!Next]_Promise!promise
<1>1. TypeInv' /\ Kind
  BY TypeStep, Kinds
<1> QED
  BY <1>1, KeptQuiet, KeptLetIn, KeptPropose, KeptDecided, KeptTakenOver, KeptSpends, KeptSends,
     KeptActs, KeptReturned, KeptTick, KeptOpens DEF Kind

\* The service implements the promise: every question is asked once and answered once, a
\* yes pays for at most one action of the browser, is handed back only if it paid for none,
\* and what lapsed never comes back, whatever fails in between.
THEOREM PromiseImplemented == Spec => PromiseKept
<1>1. TypeInv /\ HumanInv /\ [Next]_vars => [Promise!Next]_Promise!promise
  BY KeptStep
<1> QED
  BY <1>1, HumanInvariant, PromiseInit, PTL DEF Spec, PromiseKept, Promise!Spec
=============================================================================
