-------------------------------- MODULE Works --------------------------------
(***************************************************************************)
(* The life of works in service.py: a work is opened when there is room,   *)
(* used, navigated, taken over by a human, closed, reclaimed, or reaped    *)
(* when nobody has used it for a while; and the worker, which owns the     *)
(* browsers of all works, fails, is cleaned up and is stopped when idle.   *)
(*                                                                         *)
(* `cmd' is the coroutine that holds self.lock and the await it is         *)
(* suspended at.  Its stage "scanning" is the head of _reap_expired's      *)
(* loop, where nobody else runs.  Commands differ only in what they do to  *)
(* works.  The reader's own work is left out.                              *)
(***************************************************************************)
EXTENDS Integers, FiniteSets

CONSTANTS
    Works,       \* pool of session ids, each random and used once
    NoWork,      \* None: the key of calls that open a new work
    MaxWorks,    \* cfg.max_sessions
    MaxQueued,   \* cfg.max_queued_per_work
    WorkTTL,     \* cfg.session_ttl
    IdleTimeout, \* cfg.worker_idle_timeout
    MaxCalls,    \* bound: calls, private transitions and navigations
    MaxFaults    \* bound: failures of browsers, the worker and replies

ASSUME WorkConstants ==
    /\ NoWork \notin Works /\ MaxWorks \in Nat \ {0} /\ MaxQueued \in Nat \ {0}
    /\ WorkTTL \in Nat \ {0} /\ IdleTimeout \in Nat \ {0}
    /\ MaxCalls \in Nat /\ MaxFaults \in Nat

VARIABLES
    live,      \* self.sessions: the works in memory
    age,       \* how long ago each work was touched, up to its TTL
    owned,     \* self.owners: the works whose owner is in memory
    saved,     \* store kind "session": the state, and whether it names the owner
    navs,      \* self.navigations: works with a navigation under way
    queued,    \* self.queued, of works and of None
    lease,     \* self.leases: the state of each work's lease of the desktop
    cmd,       \* who holds self.lock, and where it is suspended
    idle,      \* how long ago worker_idle_since was set; Unarmed is None
    cleanupRequired,
    worker,    \* the worker process: none, up, or dead unnoticed
    cleanupFailed, \* worker.cleanup_failed
    browser,   \* the adapter's sessions, and whether their process runs
    \* history and bounds
    why,       \* why each work ended
    rest,      \* how long ago each work last did something
    calls, faults

memory  == <<live, age, owned, navs, lease, idle, cleanupRequired>>
process == <<worker, cleanupFailed, browser>>
bounds  == <<calls, faults>>
worksVars == <<memory, saved, queued, cmd, process, why, rest, bounds>>

Unarmed == -1
NoLease == [s \in Works |-> "none"]
Unsaved == [state |-> "none", owner |-> FALSE]
Frame(op, s, stage) ==
    [op |-> op, work |-> s, stage |-> stage, left |-> {}, was |-> "none", late |-> FALSE]
Idle    == Frame("none", NoWork, "none")

Calls  == {"open", "use", "navigate", "close", "handoff"}
Ops    == Calls \cup {"poll", "complete", "cancel", "reclaim", "sweep"}
Stages == {"scanning", "reaping", "opening", "using", "polling", "cancelling", "listing",
           "focusing", "disconnecting", "resuming", "closing", "losing", "stopping"}
Ends   == {"explicit", "idle", "disconnected", "worker", "cancelled", "reclaimed",
           "shutdown", "crash"}
-----------------------------------------------------------------------------
\* Reading the state

Free == cmd = Idle
At(stage) == cmd.stage = stage

\* No code of others runs while _reap_expired decides what to close.
Suspended == ~At("scanning")

\* _active_control: a lease being cancelled or completed does not count, an expired
\* one does.
Control == \E s \in Works : lease[s] \in {"active", "returning"}

\* _session: a work with a navigation under way is not refused for its age.
Usable(s) == s \in live /\ (age[s] < WorkTTL \/ s \in navs)

\* _reap_expired looks at the records it copied, also of works gone meanwhile.
Reapable_Navigating(s) == age[s] = WorkTTL /\ queued[s] = 0
Reapable(s) == age[s] = WorkTTL /\ queued[s] = 0 /\ s \notin navs

\* What _reap_idle_worker asks for.
WorkerIdle ==
    /\ idle = IdleTimeout /\ live = {} /\ navs = {} /\ \A k \in DOMAIN queued : queued[k] = 0
    /\ ~Control /\ ~cleanupFailed

CanCall  == calls < MaxCalls
Counted  == calls' = calls + 1 /\ UNCHANGED faults
CanFault == faults < MaxFaults
Faulted  == faults' = faults + 1 /\ UNCHANGED calls
-----------------------------------------------------------------------------
\* Pieces of handlers.  Each says what becomes of some variables.

\* _touch
Touched(S) == age' = [s \in Works |-> IF s \in S \cap live THEN 0 ELSE age[s]]
Did(s) == rest' = [rest EXCEPT ![s] = 0]

\* _forget, with _remember_session: the record keeps the owner.
Forgotten(s, state, reason) ==
    /\ live' = live \ {s} /\ owned' = owned \ {s} /\ navs' = navs \ {s}
    /\ saved' = [saved EXCEPT ![s] = [state |-> state, owner |-> s \in owned]]
    /\ lease' = [lease EXCEPT ![s] = "none"]
    /\ idle' = IF live = {s} THEN 0 ELSE idle
    /\ why' = [why EXCEPT ![s] = reason]
    /\ UNCHANGED <<age, cleanupRequired>>

\* _rpc on a failure of the worker: every work ends and keeps its owner in the
\* store; who shuts the worker down still holds the lock.
AllLost_Anonymous(late) ==
    /\ saved' = [s \in Works |-> IF s \in live THEN [state |-> "expired", owner |-> FALSE]
                                 ELSE saved[s]]
    /\ why' = [s \in Works |-> IF s \in live THEN "worker" ELSE why[s]]
    /\ live' = {} /\ owned' = {} /\ navs' = {} /\ lease' = NoLease
    /\ cmd' = [cmd EXCEPT !.stage = "losing", !.was = cmd.stage, !.late = late]
    /\ UNCHANGED <<age, idle, cleanupRequired, queued>>
AllLost(late) ==
    /\ saved' = [s \in Works |-> IF s \in live THEN [state |-> "expired", owner |-> s \in owned]
                                 ELSE saved[s]]
    /\ why' = [s \in Works |-> IF s \in live THEN "worker" ELSE why[s]]
    /\ live' = {} /\ owned' = {} /\ navs' = {} /\ lease' = NoLease
    /\ cmd' = [cmd EXCEPT !.stage = "losing", !.was = cmd.stage, !.late = late]
    /\ UNCHANGED <<age, idle, cleanupRequired, queued>>

\* The lock is released; a call also leaves its queue.
QueueOf(c) == IF c.op = "open" THEN NoWork ELSE c.work
Released ==
    /\ cmd' = Idle
    /\ queued' = IF cmd.op \in Calls THEN [queued EXCEPT ![QueueOf(cmd)] = @ - 1] ELSE queued
Goes(stage) == cmd' = [cmd EXCEPT !.stage = stage] /\ UNCHANGED queued

\* reclaim_session takes the desktop, also from a lease that was completed; what was
\* to be taken or cancelled, and was not, is active.
Taken(s) == lease' = IF lease[s] = "none" THEN lease ELSE [lease EXCEPT ![s] = "returning"]
NotTaken(s) == lease' = [lease EXCEPT ![s] = IF @ \in {"returning", "cancelled"} THEN "active" ELSE @]

\* Worker.call starts a worker where there is none, unless a cleanup failed.
Sent == worker' = IF worker = "none" /\ ~cleanupFailed THEN "up" ELSE worker
-----------------------------------------------------------------------------
Init_Works ==
    /\ live = {} /\ owned = {} /\ navs = {}
    /\ age = [s \in Works |-> 0] /\ rest = [s \in Works |-> 0]
    /\ saved = [s \in Works |-> Unsaved] /\ why = [s \in Works |-> "none"]
    /\ queued = [s \in Works \cup {NoWork} |-> 0]
    /\ lease = NoLease /\ cmd = Idle /\ idle = Unarmed /\ cleanupRequired = FALSE
    /\ worker = "none" /\ cleanupFailed = FALSE /\ browser = [s \in Works |-> "none"]
    /\ calls = 0 /\ faults = 0
-----------------------------------------------------------------------------
\* Calls: _call_owned and _serialized_call

\* A call is let in and waits for the lock.
Ask(s) ==
    /\ Suspended /\ CanCall /\ queued[s] < MaxQueued /\ ~Control
    /\ s \in Works => saved[s].owner
    /\ queued' = [queued EXCEPT ![s] = @ + 1] /\ Counted
    /\ UNCHANGED <<memory, saved, cmd, process, why, rest>>

\* It waited too long, or is refused or was abandoned when it gets the lock.
GiveUp_Running(s) ==
    /\ Suspended /\ queued[s] > 0
    /\ queued' = [queued EXCEPT ![s] = @ - 1]
    /\ UNCHANGED <<memory, saved, cmd, process, why, rest, bounds>>
GiveUp(s) ==
    /\ Suspended
    /\ queued[s] > (IF cmd.op \in Calls /\ QueueOf(cmd) = s THEN 1 ELSE 0)
    /\ queued' = [queued EXCEPT ![s] = @ - 1]
    /\ UNCHANGED <<memory, saved, cmd, process, why, rest, bounds>>

\* It has the lock.  A new work is preceded by _reap_expired; a close does not
\* mind the age; closes and takeovers first end a navigation.
Begin_Unchecked(s) ==
    /\ Free /\ queued[s] > 0
    /\ \/ /\ s = NoWork /\ cmd' = [Frame("open", NoWork, "scanning") EXCEPT !.left = live]
          /\ UNCHANGED worker
       \/ /\ Usable(s) /\ Sent
          /\ \/ cmd' = Frame("use", s, "using")
             \/ s \notin navs /\ cmd' = Frame("navigate", s, "using")
             \/ cmd' = Frame("handoff", s, IF s \in navs THEN "cancelling" ELSE "listing")
       \/ /\ s \in live /\ Sent
          /\ cmd' = Frame("close", s, IF s \in navs THEN "cancelling" ELSE "closing")
    /\ UNCHANGED <<memory, saved, queued, cleanupFailed, browser, why, rest, bounds>>
Begin(s) ==
    /\ Free /\ queued[s] > 0 /\ ~Control
    /\ \/ /\ s = NoWork /\ cmd' = [Frame("open", NoWork, "scanning") EXCEPT !.left = live]
          /\ UNCHANGED worker
       \/ /\ Usable(s) /\ Sent
          /\ \/ cmd' = Frame("use", s, "using")
             \/ s \notin navs /\ cmd' = Frame("navigate", s, "using")
             \/ cmd' = Frame("handoff", s, IF s \in navs THEN "cancelling" ELSE "listing")
       \/ /\ s \in live /\ Sent
          /\ cmd' = Frame("close", s, IF s \in navs THEN "cancelling" ELSE "closing")
    /\ UNCHANGED <<memory, saved, queued, cleanupFailed, browser, why, rest, bounds>>

\* _drive_navigation probes; nobody is asked during private control.
Poll(s) ==
    /\ Free /\ s \in navs /\ ~Control
    /\ cmd' = Frame("poll", s, "polling") /\ Sent
    /\ UNCHANGED <<memory, saved, queued, cleanupFailed, browser, why, rest, bounds>>
-----------------------------------------------------------------------------
\* What any command meets: failures of its browser, of the worker, of the reply.

RpcStages == Stages \ {"scanning", "disconnecting", "losing", "stopping"}

\* What follows the end of a navigation, also of one that is gone with its work.
AfterCancelling == [close |-> "closing", handoff |-> "listing", reclaim |-> "disconnecting"]

\* The adapter has no such session, or finds its process gone and forgets it.
\* Every command of the work ends here, but the reaper goes on.
Gone ==
    /\ cmd.stage \in RpcStages \ {"opening"} /\ worker = "up" /\ browser[cmd.work] # "up"
    /\ browser' = [browser EXCEPT ![cmd.work] = "none"]
    /\ IF cmd.work \in live THEN Forgotten(cmd.work, "expired", "disconnected")
       ELSE UNCHANGED <<memory, saved, why>>
    /\ \/ At("reaping") /\ Goes("scanning")
       \/ At("cancelling") /\ Goes(AfterCancelling[cmd.op])
       \/ ~At("reaping") /\ ~At("cancelling") /\ Released
    /\ UNCHANGED <<worker, cleanupFailed, rest, bounds>>

\* The worker is dead, answers too late and is terminated, or cannot tell what
\* became of a browser.
Lost ==
    /\ cmd.stage \in RpcStages
    /\ \/ worker = "dead" /\ AllLost(FALSE) /\ UNCHANGED <<worker, bounds>>
       \/ worker = "up" /\ CanFault /\ Faulted /\ \E late \in BOOLEAN :
            /\ late => cmd.op # "use"
            /\ AllLost(late) /\ worker' = IF late THEN "dead" ELSE "up"
    /\ UNCHANGED <<cleanupFailed, browser, rest>>

\* worker.shutdown ends: nothing of the worker runs any more, or the cleanup
\* failed and browsers may.  Unless the reply was late, the reaper goes on, and
\* so does whoever wanted a navigation to end.
ShutDown ==
    /\ At("losing")
    /\ \/ /\ browser' = [s \in Works |-> "none"] /\ UNCHANGED <<cleanupFailed, bounds>>
          /\ \/ /\ ~cmd.late /\ cmd.was = "reaping" /\ Goes("scanning")
                /\ worker' = "none" /\ UNCHANGED cleanupRequired
             \/ /\ ~cmd.late /\ cmd.was = "cancelling" /\ Goes(AfterCancelling[cmd.op])
                /\ worker' = (IF cmd.op = "reclaim" THEN "none" ELSE "up")
                /\ UNCHANGED cleanupRequired
             \/ /\ cmd.late \/ cmd.was \notin {"reaping", "cancelling"}
                /\ Released /\ worker' = "none"
                /\ cleanupRequired' = (cleanupRequired \/ cmd.was = "reaping")
       \/ /\ CanFault /\ Faulted /\ cleanupFailed' = TRUE /\ worker' = "none"
          /\ \E left \in SUBSET Works :
               browser' = [s \in Works |-> IF s \in left THEN browser[s] ELSE "none"]
          /\ Released /\ cleanupRequired' = (cleanupRequired \/ cmd.was = "reaping")
    /\ UNCHANGED <<live, age, owned, navs, lease, idle, saved, why, rest>>

\* A command is refused: the adapter reports an error, or no worker is started.
\* An act without an answer ends like this, and its worker is terminated.  The
\* desktop stays with the human if it was to be taken back.
Refused ==
    /\ cmd.stage \in RpcStages \ {"reaping", "opening", "polling"}
    /\ \/ worker = "none" /\ UNCHANGED <<worker, bounds>>
       \/ worker = "up" /\ CanFault /\ Faulted
          /\ worker' \in (IF cmd.op = "use" THEN {"up", "dead"} ELSE {"up"})
    /\ NotTaken(cmd.work) /\ Released
    /\ UNCHANGED <<live, age, owned, navs, idle, cleanupRequired, saved, cleanupFailed, browser,
                   why, rest>>
-----------------------------------------------------------------------------
\* Opening

\* After the reaping: there is room, the work is in memory and in the store
\* before its browser is asked for.
Scanned == At("scanning") /\ \A s \in cmd.left : ~Reapable(s)
Admit(s) ==
    /\ cmd.op = "open" /\ Scanned /\ Cardinality(live) < MaxWorks
    /\ saved[s] = Unsaved
    /\ saved' = [saved EXCEPT ![s] = [state |-> "active", owner |-> TRUE]]
    /\ live' = live \cup {s} /\ owned' = owned \cup {s}
    /\ age' = [age EXCEPT ![s] = 0] /\ Did(s)
    /\ idle' = Unarmed /\ cleanupRequired' = cleanupFailed
    /\ cmd' = Frame("open", s, "opening")
    /\ Sent /\ UNCHANGED <<queued, navs, lease, cleanupFailed, browser, why, bounds>>

\* There is no room, no memory, or the call was abandoned.
NotAdmitted ==
    /\ cmd.op = "open" /\ Scanned
    /\ cleanupRequired' = cleanupFailed /\ Released
    /\ UNCHANGED <<live, age, owned, navs, lease, idle, saved, process, why, rest, bounds>>

\* The browser runs; with an address, a navigation of it may be under way.
Opened ==
    /\ At("opening") /\ worker = "up"
    /\ browser' = [browser EXCEPT ![cmd.work] = "up"]
    /\ navs' \in {navs, navs \cup {cmd.work}}
    /\ Touched({cmd.work}) /\ Did(cmd.work) /\ Released
    /\ UNCHANGED <<live, owned, saved, lease, idle, cleanupRequired, worker, cleanupFailed, why,
                   bounds>>

\* The work stays, with or without a browser, for its owner to inspect or close.
OpenFails ==
    /\ At("opening")
    /\ \/ worker = "none" /\ UNCHANGED <<browser, bounds>>
       \/ worker = "up" /\ CanFault /\ Faulted
          /\ \E b \in {"none", "up"} : browser' = [browser EXCEPT ![cmd.work] = b]
    /\ Released
    /\ UNCHANGED <<memory, saved, worker, cleanupFailed, why, rest>>
-----------------------------------------------------------------------------
\* Using, navigating, closing

\* A command on a work, or a navigation begun, is answered.
Answered ==
    /\ At("using") /\ worker = "up" /\ browser[cmd.work] = "up"
    /\ navs' \in IF cmd.op = "navigate" THEN {navs, navs \cup {cmd.work}} ELSE {navs}
    /\ Touched({cmd.work}) /\ Did(cmd.work) /\ Released
    /\ UNCHANGED <<live, owned, saved, lease, idle, cleanupRequired, process, why, bounds>>

\* A probe finds the navigation pending, which touches nothing.
Pending ==
    /\ At("polling") /\ worker = "up" /\ browser[cmd.work] = "up"
    /\ Released
    /\ UNCHANGED <<memory, saved, process, why, rest, bounds>>

\* It is over, well or badly: by its deadline at the latest.
NavigationOver ==
    /\ At("polling") /\ (worker = "none" \/ (worker = "up" /\ browser[cmd.work] = "up"))
    /\ navs' = navs \ {cmd.work} /\ Touched({cmd.work}) /\ Did(cmd.work)
    /\ Released
    /\ UNCHANGED <<live, owned, saved, lease, idle, cleanupRequired, process, why, bounds>>

\* The navigation is cancelled, and counts as an activity of the work.
Cancelled ==
    /\ At("cancelling") /\ worker = "up" /\ browser[cmd.work] = "up"
    /\ navs' = navs \ {cmd.work} /\ Touched({cmd.work}) /\ Did(cmd.work)
    /\ Goes(AfterCancelling[cmd.op])
    /\ IF cmd.op = "reclaim" THEN Taken(cmd.work) ELSE UNCHANGED lease
    /\ UNCHANGED <<live, owned, saved, idle, cleanupRequired, process, why, bounds>>

\* The browser is closed, and with it the work: by a call, the human's
\* cancellation, or the administrator.
Closed ==
    /\ At("closing") /\ worker = "up" /\ browser[cmd.work] # "none"
    /\ browser' = [browser EXCEPT ![cmd.work] = "none"]
    /\ Forgotten(cmd.work, "closed", CASE cmd.op = "close"   -> "explicit"
                                       [] cmd.op = "cancel"  -> "cancelled"
                                       [] cmd.op = "reclaim" -> "reclaimed")
    /\ Released
    /\ UNCHANGED <<worker, cleanupFailed, rest, bounds>>
-----------------------------------------------------------------------------
\* Private control

\* _start_handoff: the tab is there, the lease exists before the focus is asked for.
Listed ==
    /\ At("listing") /\ worker = "up" /\ browser[cmd.work] = "up"
    /\ lease' = [lease EXCEPT ![cmd.work] = "active"] /\ Goes("focusing")
    /\ UNCHANGED <<live, age, owned, navs, idle, cleanupRequired, saved, process, why, rest, bounds>>
Focused ==
    /\ At("focusing") /\ worker = "up" /\ browser[cmd.work] = "up"
    /\ Touched({cmd.work}) /\ Did(cmd.work) /\ Released
    /\ UNCHANGED <<live, owned, navs, lease, idle, cleanupRequired, saved, process, why, bounds>>

\* The human completes, renews or cancels; the administrator reclaims any work.  All
\* wait for the lock, and then for the desktop's viewers to be gone.
Complete(s) ==
    /\ Free /\ lease[s] = "active"
    /\ lease' = [lease EXCEPT ![s] = "returning"]
    /\ Touched({s}) /\ Did(s)
    /\ cmd' = Frame("complete", s, "disconnecting")
    /\ UNCHANGED <<live, owned, navs, idle, cleanupRequired, saved, queued, process, why, bounds>>
Renew(s) ==
    /\ Free /\ lease[s] = "active"
    /\ Touched({s}) /\ Did(s)
    /\ UNCHANGED <<live, owned, navs, lease, idle, cleanupRequired, saved, queued, cmd, process, why, bounds>>
CancelHandoff(s) ==
    /\ Free /\ lease[s] = "active"
    /\ lease' = [lease EXCEPT ![s] = "cancelled"]
    /\ cmd' = Frame("cancel", s, "disconnecting")
    /\ UNCHANGED <<live, age, owned, navs, idle, cleanupRequired, saved, queued, process, why, rest, bounds>>
Reclaim(s) ==
    /\ Free /\ CanCall /\ Counted /\ s \in live
    /\ \/ /\ s \in navs /\ cmd' = Frame("reclaim", s, "cancelling") /\ Sent /\ UNCHANGED lease
       \/ /\ s \notin navs /\ cmd' = Frame("reclaim", s, "disconnecting") /\ UNCHANGED worker
          /\ Taken(s)
    /\ UNCHANGED <<live, age, owned, navs, idle, cleanupRequired, saved, queued, cleanupFailed,
                   browser, why, rest>>

\* The viewers are gone.
Disconnected ==
    /\ At("disconnecting")
    /\ Goes(IF cmd.op = "complete" THEN "resuming" ELSE "closing") /\ Sent
    /\ UNCHANGED <<memory, saved, cleanupFailed, browser, why, rest, bounds>>

\* They are not, within five seconds: the lease is active, also one that was completed.
\* cancel_handoff has no such limit.
DisconnectFails ==
    /\ At("disconnecting") /\ cmd.op # "cancel" /\ CanFault /\ Faulted
    /\ NotTaken(cmd.work) /\ Released
    /\ UNCHANGED <<live, age, owned, navs, idle, cleanupRequired, saved, process, why, rest>>

\* Automation is back, and every work was in use by the pause.  The lease is kept,
\* as completed, until the work is forgotten or controlled again.
Resumed ==
    /\ At("resuming") /\ worker = "up" /\ browser[cmd.work] = "up"
    /\ lease' = [lease EXCEPT ![cmd.work] = "completed"]
    /\ Touched(live) /\ rest' = [s \in Works |-> IF s \in live THEN 0 ELSE rest[s]]
    /\ Released
    /\ UNCHANGED <<live, owned, navs, idle, cleanupRequired, saved, process, why, bounds>>
-----------------------------------------------------------------------------
\* The sweeper

Sweep_Blocked ==
    /\ Free /\ ~Control /\ \A k \in DOMAIN queued : queued[k] = 0
    /\ ~cleanupRequired
    /\ cmd' = [Frame("sweep", NoWork, "scanning") EXCEPT !.left = live]
    /\ UNCHANGED <<memory, saved, queued, process, why, rest, bounds>>
Sweep ==
    /\ Free /\ ~Control /\ \A k \in DOMAIN queued : queued[k] = 0
    /\ cmd' = [Frame("sweep", NoWork, "scanning") EXCEPT !.left = live]
    /\ UNCHANGED <<memory, saved, queued, process, why, rest, bounds>>

\* _reap_expired closes the next work that is due, and passes those before it.
Reap(s) ==
    /\ At("scanning") /\ s \in cmd.left /\ Reapable(s)
    /\ \E passed \in SUBSET {o \in cmd.left \ {s} : ~Reapable(o)} :
         cmd' = [cmd EXCEPT !.stage = "reaping", !.work = s, !.left = @ \ ({s} \cup passed)]
    /\ Sent
    /\ UNCHANGED <<memory, saved, queued, cleanupFailed, browser, why, rest, bounds>>
Reaped ==
    /\ At("reaping") /\ worker = "up" /\ browser[cmd.work] # "none"
    /\ browser' = [browser EXCEPT ![cmd.work] = "none"]
    /\ Forgotten(cmd.work, "expired", "idle") /\ Goes("scanning")
    /\ UNCHANGED <<worker, cleanupFailed, rest, bounds>>
ReapFails_Forgets ==
    /\ At("reaping")
    /\ \/ worker = "none" /\ UNCHANGED bounds
       \/ worker = "up" /\ CanFault /\ Faulted
    /\ Forgotten(cmd.work, "expired", "idle") /\ Released
    /\ UNCHANGED <<process, rest>>
ReapFails ==
    /\ At("reaping")
    /\ \/ worker = "none" /\ UNCHANGED bounds
       \/ worker = "up" /\ CanFault /\ Faulted
    /\ cleanupRequired' = TRUE /\ Released
    /\ UNCHANGED <<live, age, owned, navs, lease, idle, saved, process, why, rest>>

\* The end of a sweep: _reap_idle_worker stops a worker nobody has needed for long.
Swept ==
    /\ cmd.op = "sweep" /\ Scanned
    /\ cleanupRequired' = cleanupFailed
    /\ IF WorkerIdle
       THEN idle' = Unarmed /\ cmd' = [cmd EXCEPT !.stage = "stopping"]
       ELSE cmd' = Idle /\ UNCHANGED idle
    /\ UNCHANGED <<live, age, owned, navs, lease, saved, queued, process, why, rest, bounds>>
Stopped ==
    /\ At("stopping")
    /\ worker' = "none" /\ browser' = [s \in Works |-> "none"] /\ cmd' = Idle
    /\ \/ UNCHANGED <<cleanupFailed, cleanupRequired, bounds>>
       \/ worker # "none" /\ CanFault /\ Faulted /\ cleanupFailed' = TRUE /\ cleanupRequired' = TRUE
    /\ UNCHANGED <<live, age, owned, navs, lease, idle, saved, queued, why, rest>>
-----------------------------------------------------------------------------
\* Time, failures and the end of the process

Tick ==
    /\ Suspended
    /\ age' = [s \in Works |-> IF s \in live /\ age[s] < WorkTTL THEN age[s] + 1 ELSE age[s]]
    /\ rest' = [s \in Works |-> IF s \in live /\ rest[s] < WorkTTL THEN rest[s] + 1 ELSE rest[s]]
    /\ idle' = IF idle \in 0..(IdleTimeout - 1) THEN idle + 1 ELSE idle
    /\ UNCHANGED <<live, owned, saved, navs, queued, lease, cmd, cleanupRequired, process, why,
                   bounds>>

BrowserDies(s) ==
    /\ Suspended /\ CanFault /\ Faulted
    /\ browser[s] = "up" /\ browser' = [browser EXCEPT ![s] = "dead"]
    /\ UNCHANGED <<memory, saved, queued, cmd, worker, cleanupFailed, why, rest>>

WorkerDies ==
    /\ Suspended /\ CanFault /\ Faulted
    /\ worker = "up" /\ worker' = "dead"
    /\ UNCHANGED <<memory, saved, queued, cmd, cleanupFailed, browser, why, rest>>

\* A new process knows nothing but the store.
Restarted(reason) ==
    /\ live' = {} /\ owned' = {} /\ navs' = {} /\ lease' = NoLease /\ cmd' = Idle
    /\ queued' = [k \in DOMAIN queued |-> 0] /\ idle' = Unarmed /\ cleanupRequired' = FALSE
    /\ worker' = "none" /\ cleanupFailed' = FALSE /\ browser' = [s \in Works |-> "none"]
    /\ why' = [s \in Works |-> IF s \in live THEN reason ELSE why[s]]
    /\ UNCHANGED <<age, rest>>

Crash ==
    /\ Suspended /\ CanFault /\ Faulted /\ Restarted("crash") /\ UNCHANGED saved

\* shutdown: calls end, the worker is stopped, and then the works are remembered,
\* unless the cleanup of the worker fails.  A close the sweeper waits for is
\* cancelled, and remembers the works itself.
Shutdown ==
    /\ Free \/ (At("reaping") /\ cmd.op = "sweep")
    /\ \A k \in DOMAIN queued : queued[k] = 0
    /\ CanFault /\ Faulted /\ Restarted("shutdown")
    /\ \/ saved' = [s \in Works |-> IF s \in live THEN [state |-> "expired", owner |-> s \in owned]
                                    ELSE saved[s]]
       \/ worker # "none" /\ Free /\ UNCHANGED saved
-----------------------------------------------------------------------------
\* Behaviours

Holder == Gone \/ Lost \/ ShutDown \/ Refused
          \/ (\E s \in Works : Admit(s)) \/ NotAdmitted \/ Opened \/ OpenFails
          \/ Answered \/ Pending \/ NavigationOver \/ Cancelled \/ Closed
          \/ Listed \/ Focused \/ Resumed \/ (Disconnected /\ cmd.op # "cancel")
          \/ (\E s \in Works : Reap(s)) \/ Reaped \/ ReapFails \/ Swept \/ Stopped

Next_Works ==
    \/ \E s \in Works \cup {NoWork} : Ask(s) \/ GiveUp(s) \/ Begin(s)
    \/ \E s \in Works : \/ Poll(s) \/ Reclaim(s) \/ BrowserDies(s)
                       \/ Complete(s) \/ Renew(s) \/ CancelHandoff(s)
    \/ Disconnected \/ DisconnectFails
    \/ Holder \/ Sweep \/ Tick \/ WorkerDies \/ Crash \/ Shutdown

\* The lock is handed on first come first served, waits for it and for replies are
\* bounded, the sweeper keeps trying, and a navigation has a deadline.  Nothing
\* makes a human move, or a viewer that cancel_handoff disconnects.
Fairness_Works ==
    /\ WF_worksVars(Holder) /\ SF_worksVars(NavigationOver)
    /\ WF_worksVars(Sweep) /\ SF_worksVars(Tick)
    /\ \A s \in Works : SF_worksVars(Poll(s))
    /\ \A s \in Works \cup {NoWork} : SF_worksVars(GiveUp(s) \/ Begin(s))

Spec_Works == Init_Works /\ [][Next_Works]_worksVars /\ Fairness_Works
-----------------------------------------------------------------------------
LeaseStates == {"none", "active", "returning", "cancelled", "completed"}
Commands ==
    [op : Ops \cup {"none"}, work : Works \cup {NoWork}, stage : Stages \cup {"none"},
     left : SUBSET Works, was : Stages \cup {"none"}, late : BOOLEAN]

WorksTypeOK ==
    /\ live \subseteq Works /\ owned \subseteq Works /\ navs \subseteq Works
    /\ age \in [Works -> 0..WorkTTL] /\ rest \in [Works -> 0..WorkTTL]
    /\ saved \in [Works -> [state : {"none", "active", "expired", "closed"}, owner : BOOLEAN]]
    /\ queued \in [Works \cup {NoWork} -> 0..MaxQueued]
    /\ lease \in [Works -> LeaseStates]
    /\ cmd \in Commands
    /\ idle \in Unarmed..IdleTimeout /\ cleanupRequired \in BOOLEAN
    /\ worker \in {"none", "up", "dead"} /\ cleanupFailed \in BOOLEAN
    /\ browser \in [Works -> {"none", "up", "dead"}]
    /\ why \in [Works -> Ends \cup {"none"}]
    /\ calls \in 0..MaxCalls /\ faults \in 0..MaxFaults

\* Every browser the adapter keeps is one of a work its owner, the sweeper or the
\* administrator can close: whenever the lock is free, and when the idle worker is
\* about to be stopped; a failed cleanup may leave others.
NoStrayBrowser ==
    (Free \/ At("stopping")) /\ ~cleanupFailed => \A s \in Works : browser[s] # "none" => s \in live

\* Whoever was given a work is known as its owner, in memory while it lives and in
\* the store for ever: after a restart, and however the work ended.
OwnerRemembered ==
    \A s \in Works : /\ saved[s] # Unsaved => saved[s].owner
                     /\ s \in live => s \in owned /\ saved[s].state = "active"

\* While a human has the desktop only private transitions hold the lock: no
\* command let in before, no probe and no sweep runs beside the human.
DesktopPrivate == Control => cmd.op \in {"none", "handoff", "complete", "cancel", "reclaim"}

\* A work ends as idle only when it did nothing for its whole time to live, and
\* has no navigation; and a work that ended stays ended, for its first reason.
EndsOnceForAReason ==
    [][\A s \in Works :
         /\ why'[s] = "idle" /\ why[s] # "idle" => rest[s] = WorkTTL /\ s \notin navs
         /\ why[s] # "none" => why'[s] = why[s] /\ s \notin live'
         /\ saved[s].state \in {"expired", "closed"} => saved'[s] = saved[s]]_worksVars

\* When calls cease, every work ends and its browser is closed, unless the desktop is
\* under a lease or a cleanup failed.  A lease that was completed is no excuse, until
\* a reclaim that fails makes it active again.
IdleWorksEnd ==
    \A s \in Works : s \in live ~> \/ s \notin live \/ cleanupFailed
                                  \/ Control \/ \E o \in Works : lease[o] = "cancelled"
=============================================================================
