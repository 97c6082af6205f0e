------------------------------ MODULE Desktop ------------------------------
(***************************************************************************)
(* The private desktop: the leases and console operations of service.py,   *)
(* the websockets of console.py, and the browsers, displays and VNC        *)
(* bridges of the worker (drission.py, runtime.py) with a managed display. *)
(*                                                                         *)
(* The worker executes one command at a time and nobody sees it half done, *)
(* so a command and its reply are one action; the console's operations are *)
(* one action for each of their awaits, between which the viewers move.    *)
(***************************************************************************)
EXTENDS Integers, FiniteSets

CONSTANTS
    Works,       \* session ids
    Viewers,     \* websockets of the remote desktop
    Numbers,     \* display_number .. display_number + max_sessions - 1
    DeskFaults   \* bound: failures of the worker, a browser or a disconnection

ASSUME DesktopConstants == Numbers \subseteq Nat \ {0} /\ DeskFaults \in Nat

VARIABLES
    known,    \* service.sessions
    lease,    \* the state of service.leases[w]
    expired,  \* leases whose time of access is over
    console,  \* the operation that has the lock, and the await it is in
    viewer,   \* the websockets, and the bridge each is connected to
    \* in the worker
    browser,  \* adapter.sessions
    display,  \* the display of adapter.runtimes[w], 0 if there is none
    screens,  \* X servers that run
    paused,   \* session["paused"]
    bridge,   \* runtimes whose x11vnc and websockify run
    \* history and bound
    unstarted, \* leases whose control never started
    deskFaults

service == <<known, lease, expired, unstarted>>
adapter == <<browser, display, screens, paused, bridge>>
deskVars == <<known, lease, expired, unstarted, console, viewer, adapter, deskFaults>>

Free == [does |-> "none"]
Absent == [at |-> "none"]
-----------------------------------------------------------------------------
\* Reading the state

Controlled == \E w \in Works : lease[w] \in {"active", "returning"}
Allowed == \E w \in Works : lease[w] = "active" /\ w \notin expired
Failing == deskFaults < DeskFaults /\ deskFaults' = deskFaults + 1

Unchanged_Leases == UNCHANGED <<lease, expired, unstarted>>
Return(w, state) == lease' = [lease EXCEPT ![w] = state] /\ UNCHANGED <<expired, unstarted>>

\* _forget: the work and its lease are gone from the service.
Forget(w) ==
    /\ known' = known \ {w} /\ lease' = [lease EXCEPT ![w] = "none"]
    /\ expired' = expired \ {w} /\ unstarted' = unstarted \ {w}

\* quit, then runtime.close, which stops the bridge and the display.
Ended(w) ==
    /\ browser' = [browser EXCEPT ![w] = "none"] /\ display' = [display EXCEPT ![w] = 0]
    /\ screens' = screens \ {display[w]}
    /\ paused' = paused \ {w} /\ bridge' = bridge \ {w}

\* The whole worker is lost with its children, and the service starts anew.
AllLost ==
    /\ browser' = [w \in Works |-> "none"] /\ display' = [w \in Works |-> 0]
    /\ screens' = {} /\ paused' = {} /\ bridge' = {}
    /\ known' = {} /\ lease' = [w \in Works |-> "none"] /\ expired' = {} /\ unstarted' = {}
-----------------------------------------------------------------------------
Init_Desktop ==
    /\ known = {} /\ lease = [w \in Works |-> "none"] /\ expired = {} /\ unstarted = {}
    /\ console = Free /\ viewer = [v \in Viewers |-> Absent]
    /\ browser = [w \in Works |-> "none"] /\ display = [w \in Works |-> 0]
    /\ screens = {} /\ paused = {} /\ bridge = {} /\ deskFaults = 0
-----------------------------------------------------------------------------
\* Commands of a client: each has the lock, and nobody has control

Command(w) == console = Free /\ ~Controlled /\ UNCHANGED <<console, viewer>>

\* The lowest number that no runtime has, unless an X server has it.
Least(S) == CHOOSE n \in S : \A m \in S : n <= m
Unused == {n \in Numbers : \A w \in Works : display[w] # n}
Startable == Unused # {} /\ Least(Unused) \notin screens

\* open of a work without a browser: a new one, or one whose opening failed.
Open(w) ==
    /\ Command(w) /\ browser[w] = "none" /\ known' = known \cup {w} /\ Startable
    /\ display' = [display EXCEPT ![w] = Least(Unused)]
    /\ screens' = screens \cup {Least(Unused)}
    /\ browser' = [browser EXCEPT ![w] = "up"]
    /\ Unchanged_Leases /\ UNCHANGED <<paused, bridge, deskFaults>>

\* The display does not start, or Chromium does not and its runtime is closed;
\* the service keeps the work.
OpenFails(w) ==
    /\ Command(w) /\ browser[w] = "none" /\ known' = known \cup {w}
    /\ Startable => Failing
    /\ ~Startable => UNCHANGED deskFaults
    /\ Unchanged_Leases /\ UNCHANGED adapter

\* The profile directory or the port fails after the display was registered: the
\* runtime stays, without a browser.
OpenHalf(w) ==
    /\ Command(w) /\ browser[w] = "none" /\ known' = known \cup {w} /\ Startable /\ Failing
    /\ display' = [display EXCEPT ![w] = Least(Unused)]
    /\ screens' = screens \cup {Least(Unused)}
    /\ Unchanged_Leases /\ UNCHANGED <<browser, paused, bridge>>

\* close: the browser ends, or is found dead (_sync), or was never there.
Close(w) ==
    /\ Command(w) /\ w \in known /\ Forget(w) /\ UNCHANGED deskFaults
    /\ IF browser[w] = "none" THEN UNCHANGED adapter ELSE Ended(w)
Synced(w) ==
    /\ Command(w) /\ w \in known /\ browser[w] = "dead" /\ Forget(w) /\ Ended(w)
    /\ UNCHANGED deskFaults

BrowserDies(w) ==
    /\ browser[w] = "up" /\ Failing /\ browser' = [browser EXCEPT ![w] = "dead"]
    /\ UNCHANGED <<service, console, viewer, display, screens, paused, bridge>>
WorkerDies ==
    /\ known # {} /\ Failing /\ AllLost /\ UNCHANGED viewer
    /\ console' = Free
-----------------------------------------------------------------------------
\* Taking control

\* _start_handoff up to focus: the lease is there before control starts.
Handoff(w) ==
    /\ console = Free /\ ~Controlled /\ w \in known /\ browser[w] = "up"
    /\ lease' = [lease EXCEPT ![w] = "active"] /\ expired' = expired \ {w}
    /\ unstarted' = unstarted \cup {w}
    /\ console' = [does |-> "focus", work |-> w]
    /\ UNCHANGED <<known, viewer, adapter, deskFaults>>

\* Every tab stops collecting before the bridge is started; the one pair of ports
\* must be free.
Focused(w) ==
    /\ console = [does |-> "focus", work |-> w] /\ console' = Free /\ browser[w] = "up"
    /\ bridge \subseteq {w}
    /\ paused' = paused \cup {w}
    /\ bridge' = bridge \cup {w} /\ unstarted' = unstarted \ {w}
    /\ UNCHANGED <<known, lease, expired, viewer, browser, display, screens, deskFaults>>

\* It fails before or after it paused the work; the lease stays.
FocusFails(w) ==
    /\ console = [does |-> "focus", work |-> w] /\ console' = Free /\ browser[w] = "up"
    /\ Failing /\ paused' \in {paused, paused \cup {w}}
    /\ UNCHANGED <<service, viewer, browser, display, screens, bridge>>
FocusedDead(w) ==
    /\ console = [does |-> "focus", work |-> w] /\ console' = Free /\ browser[w] = "dead"
    /\ Forget(w) /\ Ended(w) /\ UNCHANGED <<viewer, deskFaults>>

Expire(w) ==
    /\ lease[w] = "active" /\ w \notin expired /\ expired' = expired \cup {w}
    /\ UNCHANGED <<known, lease, unstarted, console, viewer, adapter, deskFaults>>
Renew(w) ==
    /\ console = Free /\ lease[w] = "active" /\ w \in known /\ expired' = expired \ {w}
    /\ UNCHANGED <<known, lease, unstarted, console, viewer, adapter, deskFaults>>
-----------------------------------------------------------------------------
\* The websockets of /desktop

Connected == {v \in Viewers : viewer[v].at = "relaying"}
Reaches(v, w) == viewer[v] = [at |-> "relaying", bridge |-> w]

Connect(v) ==
    /\ viewer[v] = Absent /\ Allowed
    /\ viewer' = [viewer EXCEPT ![v] = [at |-> "connecting"]]
    /\ UNCHANGED <<service, console, adapter, deskFaults>>

\* The upstream answers, whoever's it is by now, and the disconnector is registered.
Join(v) ==
    /\ viewer[v].at = "connecting"
    /\ viewer' \in {[viewer EXCEPT ![v] = [at |-> "relaying", bridge |-> w]] : w \in bridge}
    /\ UNCHANGED <<service, console, adapter, deskFaults>>
Unreachable(v) ==
    /\ viewer[v].at = "connecting" /\ viewer' = [viewer EXCEPT ![v] = Absent]
    /\ UNCHANGED <<service, console, adapter, deskFaults>>

\* The guard finds that access is over, the bridge stopped, or the user left.
Leave(v) ==
    /\ viewer[v].at = "relaying" /\ viewer' = [viewer EXCEPT ![v] = Absent]
    /\ UNCHANGED <<service, console, adapter, deskFaults>>
-----------------------------------------------------------------------------
\* Giving control back

\* New viewers are kept out before those that are there are disconnected.
Gate(w, does, state) ==
    /\ console = Free
    /\ console' = [does |-> does, work |-> w, closing |-> Connected]
    /\ Return(w, state) /\ UNCHANGED <<known, viewer, adapter, deskFaults>>
Complete(w) == lease[w] = "active" /\ w \in known /\ Gate(w, "resume", "returning")
Cancel(w) == lease[w] = "active" /\ Gate(w, "cancel", "cancelled")
Reclaim(w) ==
    w \in known /\ Gate(w, "reclaim", IF lease[w] = "none" THEN "none" ELSE "returning")

Ending(w) == console.does \in {"resume", "cancel", "reclaim"} /\ console.work = w
Disconnected(w) == Ending(w) /\ console.closing \cap Connected = {}

Disconnect(v) ==
    /\ \E w \in Works : Ending(w) /\ v \in console.closing \cap Connected
    /\ viewer' = [viewer EXCEPT ![v] = Absent]
    /\ UNCHANGED <<service, console, adapter, deskFaults>>

\* A lease that was there becomes active again.
Regained(w) == Return(w, IF lease[w] = "none" THEN "none" ELSE "active")

\* Five seconds are over, or a disconnection failed; cancel_handoff takes no heed.
DisconnectFails(w) ==
    /\ Ending(w) /\ console.does # "cancel" /\ Failing /\ console' = Free
    /\ Regained(w) /\ UNCHANGED <<known, viewer, adapter>>

\* resume: the bridge is stopped first, then the held input is released and the page
\* looked at, then collection goes on.
Stopped_Late(w) == bridge
Stopped(w) == bridge \ {w}
Resumed(w) ==
    /\ Disconnected(w) /\ console.does = "resume" /\ console' = Free /\ browser[w] = "up"
    /\ bridge' = Stopped(w) /\ paused' = paused \ {w}
    /\ Return(w, "completed")
    /\ UNCHANGED <<known, viewer, browser, display, screens, deskFaults>>

\* The page is still sensitive, input is held, or collection half restarted.
ResumeFails(w) ==
    /\ Disconnected(w) /\ console.does = "resume" /\ console' = Free /\ browser[w] = "up"
    /\ bridge' = Stopped(w) /\ paused' \in {paused, paused \ {w}} /\ Failing
    /\ Return(w, "active")
    /\ UNCHANGED <<known, viewer, browser, display, screens>>
ResumedDead(w) ==
    /\ Disconnected(w) /\ console.does = "resume" /\ console' = Free /\ browser[w] = "dead"
    /\ Forget(w) /\ Ended(w) /\ UNCHANGED <<viewer, deskFaults>>

\* close of the whole session, which a browser that does not quit refuses.
SessionEnds(w) ==
    /\ Disconnected(w) /\ console.does # "resume" /\ console' = Free
    /\ Forget(w) /\ (IF browser[w] = "none" THEN UNCHANGED adapter ELSE Ended(w))
    /\ UNCHANGED <<viewer, deskFaults>>
SessionStays(w) ==
    /\ Disconnected(w) /\ console.does # "resume" /\ console' = Free /\ browser[w] # "none"
    /\ Failing /\ Regained(w) /\ UNCHANGED <<known, viewer, adapter>>
-----------------------------------------------------------------------------
Next_Desktop ==
    \/ \E w \in Works :
         \/ Open(w) \/ OpenFails(w) \/ OpenHalf(w) \/ Close(w) \/ Synced(w) \/ BrowserDies(w)
         \/ Handoff(w) \/ Focused(w) \/ FocusFails(w) \/ FocusedDead(w) \/ Expire(w) \/ Renew(w)
         \/ Complete(w) \/ Cancel(w) \/ Reclaim(w) \/ DisconnectFails(w)
         \/ Resumed(w) \/ ResumeFails(w) \/ ResumedDead(w) \/ SessionEnds(w) \/ SessionStays(w)
    \/ \E v \in Viewers : Connect(v) \/ Join(v) \/ Unreachable(v) \/ Leave(v) \/ Disconnect(v)
    \/ WorkerDies

Spec_Desktop == Init_Desktop /\ [][Next_Desktop]_deskVars
-----------------------------------------------------------------------------
DesktopTypeOK ==
    /\ known \subseteq Works /\ expired \subseteq Works /\ unstarted \subseteq Works
    /\ lease \in [Works -> {"none", "active", "returning", "completed", "cancelled"}]
    /\ browser \in [Works -> {"none", "up", "dead"}] /\ display \in [Works -> Numbers \cup {0}]
    /\ screens \subseteq Numbers /\ paused \subseteq Works /\ bridge \subseteq Works
    /\ deskFaults \in 0..DeskFaults

\* A desktop is served only of the work that is in private control, or whose control
\* is just being ended, and while the program does not read that work; each display is
\* one work's.
PrivateDesktop ==
    /\ \A w \in bridge : /\ w \in paused /\ display[w] \in screens
                         /\ bridge = {w}
                         /\ lease[w] \in {"active", "returning"} \/ Ending(w)
    /\ \A w \in Works : browser[w] = "up" =>
         /\ display[w] \in screens
         /\ \A x \in Works \ {w} : display[x] # display[w]

\* Who has control has the desktop: while a lease that started is active and not
\* expired, its screen can be opened.
ControlIsReachable ==
    \A w \in Works : console = Free /\ lease[w] = "active" /\ w \notin unstarted => w \in bridge
=============================================================================
