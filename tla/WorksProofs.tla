----------------------------- MODULE WorksProofs -----------------------------
(***************************************************************************)
(* Theorems about Works, for every pool of works, all limits and all       *)
(* times-to-live.                                                          *)
(***************************************************************************)
EXTENDS Works, FiniteSetTheorems, TLAPS

\* Which command may be at which await, and which of them have a work.
FrameOK ==
    /\ cmd.stage \notin {"none", "scanning", "stopping", "losing"} => cmd.work \in Works
    /\ cmd.op \in Calls \ {"open"} => cmd.work \in Works
    /\ cmd.op \in Calls => queued[QueueOf(cmd)] > 0
    /\ At("scanning") => cmd.op \in {"open", "sweep"}
    /\ At("reaping") => cmd.op \in {"open", "sweep"}
    /\ At("opening") => cmd.op = "open" /\ cmd.work \in live
    /\ At("polling") => cmd.op = "poll"
    /\ At("cancelling") => cmd.op \in {"close", "handoff", "reclaim"}
    /\ At("listing") \/ At("focusing") => cmd.op = "handoff"
    /\ At("disconnecting") => cmd.op \in {"complete", "cancel", "reclaim"}
    /\ At("resuming") => cmd.op = "complete"
    /\ At("closing") => cmd.op \in {"close", "cancel", "reclaim"}
    /\ At("stopping") => cmd.op = "sweep"
    /\ At("losing") => cmd.was \in RpcStages
                       /\ (cmd.was = "cancelling" => cmd.op \in {"close", "handoff", "reclaim"}
                                                     /\ cmd.work \in Works)
                       /\ (cmd.was = "reaping" => cmd.op \in {"open", "sweep"})

\* A work that lives has its owner in memory and in the store, and a work that
\* ended is remembered and does not live.
StoreOK ==
    /\ \A s \in live : s \in owned /\ saved[s] = [state |-> "active", owner |-> TRUE]
    /\ \A s \in Works : saved[s] # Unsaved => saved[s].owner
    /\ \A s \in Works : why[s] # "none" => s \notin live /\ saved[s] # Unsaved

\* A browser without a work exists only until the worker is shut down, and
\* after a failed cleanup no worker runs.
BrowsersOK ==
    /\ cleanupFailed => worker = "none" /\ ~At("losing")
    /\ ~cleanupFailed /\ ~At("losing") => \A s \in Works : browser[s] # "none" => s \in live

\* What the sweeper decided on stays true until the browser is closed, because
\* whoever could use the work would need the lock.
AgeOK ==
    /\ \A s \in live : rest[s] = age[s]
    /\ At("reaping") => age[cmd.work] = WorkTTL /\ cmd.work \notin navs

WorksInv == WorksTypeOK /\ FrameOK /\ StoreOK /\ BrowsersOK /\ DesktopPrivate /\ AgeOK
-----------------------------------------------------------------------------

USE WorkConstants
    DEF WorksInv, memory, process, bounds, Free, At, Control, NoLease, Unsaved,
        Unarmed, Calls, Ops, Stages, Ends, RpcStages, QueueOf, LeaseStates

\* A new command is one.
LEMMA FrameType ==
    ASSUME NEW op \in Ops \cup {"none"}, NEW s \in Works \cup {NoWork}, NEW stage \in Stages \cup {"none"}
    PROVE  /\ Frame(op, s, stage) \in Commands
           /\ Frame(op, s, stage).op = op /\ Frame(op, s, stage).work = s
           /\ Frame(op, s, stage).stage = stage
  BY DEF Frame, Commands

\* Idle is a frame of no command, at no await.
LEMMA IdleFrame == Idle \in Commands /\ Idle.op = "none" /\ Idle.stage = "none" /\ Idle.work = NoWork
  BY FrameType DEF Idle

\* The initial state.
LEMMA WorksInit == Init_Works => WorksInv
<1> SUFFICES ASSUME Init_Works PROVE WorksInv
  OBVIOUS
<1>1. idle \in Unarmed..IdleTimeout /\ calls \in 0..MaxCalls /\ faults \in 0..MaxFaults
  BY DEF Init_Works
<1>2. age \in [Works -> 0..WorkTTL] /\ queued \in [Works \cup {NoWork} -> 0..MaxQueued]
  BY DEF Init_Works
<1>3. WorksTypeOK
  BY <1>1, <1>2, IdleFrame DEF Init_Works, WorksTypeOK
<1> QED
  BY <1>3, IdleFrame DEF Init_Works, FrameOK, StoreOK, BrowsersOK, DesktopPrivate, AgeOK

\* A call gets the lock: what its frame is.
LEMMA BeginFrame ==
    ASSUME WorksTypeOK, NEW s \in Works \cup {NoWork}, Begin(s)
    PROVE  /\ cmd' \in Commands /\ cmd'.work = s /\ cmd'.op \in Calls
           /\ cmd'.op = "open" <=> s = NoWork
           /\ cmd'.stage \in {"scanning", "using", "cancelling", "listing", "closing"}
           /\ cmd'.stage = "scanning" <=> cmd'.op = "open"
           /\ cmd'.stage = "cancelling" => cmd'.op \in {"handoff", "close"}
           /\ cmd'.stage = "listing" => cmd'.op = "handoff"
           /\ cmd'.stage = "closing" => cmd'.op = "close"
<1>1. CASE s = NoWork
  <2>1. cmd' = [Frame("open", NoWork, "scanning") EXCEPT !.left = live]
    BY <1>1 DEF Begin, Usable, WorksTypeOK
  <2> QED
    BY <1>1, <2>1 DEF Frame, Commands, WorksTypeOK
<1>2. CASE s \in Works
  <2>1. PICK op \in Calls \ {"open"}, stage \in {"using", "cancelling", "listing", "closing"} :
          /\ cmd' = Frame(op, s, stage)
          /\ stage = "cancelling" => op \in {"handoff", "close"}
          /\ stage = "listing" => op = "handoff"
          /\ stage = "closing" => op = "close"
    BY <1>2 DEF Begin
  <2> QED
    BY <1>2, <2>1, FrameType
<1> QED
  BY <1>1, <1>2

\* A call gets the lock.
LEMMA StepBegin ==
    ASSUME WorksInv, NEW s \in Works \cup {NoWork}, Begin(s) PROVE WorksInv'
<1>1. WorksTypeOK'
  BY BeginFrame DEF Begin, Sent, WorksTypeOK
<1>2. UNCHANGED <<live, queued, lease>> /\ queued[s] > 0
  BY DEF Begin
<1>3. FrameOK'
  BY <1>2, BeginFrame DEF FrameOK
<1>4. StoreOK' /\ DesktopPrivate' /\ BrowsersOK' /\ AgeOK'
  BY BeginFrame, IdleFrame DEF Begin, Sent, StoreOK, DesktopPrivate, BrowsersOK, AgeOK
<1> QED
  BY <1>1, <1>3, <1>4

-----------------------------------------------------------------------------
\* Pieces of handlers

\* The holder goes on to another await.
LEMMA GoesType ==
    ASSUME WorksTypeOK, NEW stage \in Stages, Goes(stage)
    PROVE  /\ cmd' \in Commands /\ cmd'.stage = stage /\ cmd'.op = cmd.op /\ cmd'.work = cmd.work
           /\ cmd'.left = cmd.left /\ cmd'.was = cmd.was /\ UNCHANGED queued
  BY DEF Goes, WorksTypeOK, Commands

\* Whoever releases the lock leaves nothing of its frame.
LEMMA ReleasedKeeps ==
    ASSUME WorksInv, Released
    PROVE  /\ cmd' \in Commands /\ queued' \in [Works \cup {NoWork} -> 0..MaxQueued]
           /\ FrameOK' /\ DesktopPrivate' /\ cmd'.stage = "none"
<1>1. cmd.op \in Calls => QueueOf(cmd) \in Works \cup {NoWork} /\ queued[QueueOf(cmd)] > 0
  BY DEF FrameOK
<1>2. queued' \in [Works \cup {NoWork} -> 0..MaxQueued]
  BY <1>1 DEF Released, WorksTypeOK
<1> QED
  BY <1>2, IdleFrame DEF Released, FrameOK, DesktopPrivate

\* Whoever goes on keeps its place and stays who it was.
LEMMA GoesKeeps ==
    ASSUME WorksInv, NEW stage \in {"scanning", "closing", "listing", "disconnecting"}, Goes(stage),
           Control' => Control \/ cmd.op = "reclaim",
           stage = "scanning" => cmd.op \in {"open", "sweep"},
           stage # "scanning" => cmd.work \in Works,
           stage = "closing" => cmd.op \in {"close", "cancel", "reclaim"},
           stage = "listing" => cmd.op = "handoff",
           stage = "disconnecting" => cmd.op \in {"complete", "cancel", "reclaim"}
    PROVE  /\ cmd' \in Commands /\ queued' \in [Works \cup {NoWork} -> 0..MaxQueued]
           /\ FrameOK' /\ DesktopPrivate' /\ cmd'.stage = stage
<1>1. /\ cmd' \in Commands /\ cmd'.stage = stage /\ cmd'.op = cmd.op /\ cmd'.work = cmd.work
      /\ UNCHANGED queued
  BY GoesType
<1> QED
  BY <1>1 DEF FrameOK, DesktopPrivate, WorksTypeOK

\* What follows the end of a navigation.
LEMMA AfterCancellingKeeps ==
    ASSUME WorksInv, cmd.op \in {"close", "handoff", "reclaim"}, cmd.work \in Works,
           Goes(AfterCancelling[cmd.op]), Control' => Control \/ cmd.op = "reclaim"
    PROVE  /\ cmd' \in Commands /\ queued' \in [Works \cup {NoWork} -> 0..MaxQueued]
           /\ FrameOK' /\ DesktopPrivate' /\ cmd'.stage \in {"closing", "listing", "disconnecting"}
<1>1. AfterCancelling[cmd.op] = CASE cmd.op = "close" -> "closing" [] cmd.op = "handoff" -> "listing"
                                  [] cmd.op = "reclaim" -> "disconnecting"
  BY DEF AfterCancelling
<1> QED
  BY <1>1, GoesKeeps

\* A holder whose browser is gone goes on to another await, or releases the lock.
LEMMA GoneFrame ==
    ASSUME WorksInv, Gone, Control' => Control
    PROVE  /\ cmd' \in Commands /\ queued' \in [Works \cup {NoWork} -> 0..MaxQueued]
           /\ FrameOK' /\ DesktopPrivate'
           /\ cmd'.stage \in {"none", "scanning", "closing", "listing", "disconnecting"}
<1>1. CASE At("reaping") /\ Goes("scanning")
  BY <1>1, GoesKeeps DEF FrameOK
<1>2. CASE At("cancelling") /\ Goes(AfterCancelling[cmd.op])
  BY <1>2, AfterCancellingKeeps DEF FrameOK
<1>3. CASE Released
  BY <1>3, ReleasedKeeps
<1> QED
  BY <1>1, <1>2, <1>3 DEF Gone

\* A work that lived is forgotten: the store keeps its owner, and others are not touched.
LEMMA ForgottenKeeps ==
    ASSUME WorksInv, NEW s \in live, NEW state \in {"expired", "closed"}, NEW reason \in Ends,
           Forgotten(s, state, reason)
    PROVE  /\ live' = live \ {s} /\ owned' \subseteq Works /\ navs' \subseteq Works
           /\ saved' \in [Works -> [state : {"none", "active", "expired", "closed"}, owner : BOOLEAN]]
           /\ lease' \in [Works -> LeaseStates]
           /\ idle' \in Unarmed..IdleTimeout /\ why' \in [Works -> Ends \cup {"none"}]
           /\ Control' => Control
           /\ StoreOK' /\ UNCHANGED <<age, cleanupRequired>>
<1>1. s \in Works /\ s \in owned /\ saved[s] = [state |-> "active", owner |-> TRUE]
  BY DEF WorksTypeOK, StoreOK
<1>2. \A o \in Works :
        /\ saved'[o] = IF o = s THEN [state |-> state, owner |-> TRUE] ELSE saved[o]
        /\ why'[o] = IF o = s THEN reason ELSE why[o]
  BY <1>1 DEF Forgotten, WorksTypeOK
<1>3. live' = live \ {s} /\ owned' = owned \ {s}
  BY DEF Forgotten
<1>4. StoreOK'
  <2>1. \A o \in live' : o \in owned' /\ saved'[o] = [state |-> "active", owner |-> TRUE]
    BY <1>2, <1>3 DEF StoreOK, WorksTypeOK
  <2>2. \A o \in Works : saved'[o] # Unsaved => saved'[o].owner
    BY <1>2 DEF StoreOK
  <2>3. \A o \in Works : why'[o] # "none" => o \notin live' /\ saved'[o] # Unsaved
    BY <1>2, <1>3 DEF StoreOK
  <2> QED
    BY <2>1, <2>2, <2>3 DEF StoreOK
<1>5. lease' = [lease EXCEPT ![s] = "none"]
  BY DEF Forgotten
<1>6. lease' \in [Works -> LeaseStates] /\ (Control' => Control)
  BY <1>1, <1>5 DEF WorksTypeOK
<1> QED
  BY <1>1, <1>2, <1>4, <1>6 DEF Forgotten, WorksTypeOK

\* The worker failed: every work is forgotten, and the browsers stay until the
\* worker has been shut down.
LEMMA AllLostKeeps ==
    ASSUME WorksInv, cmd.stage \in RpcStages, NEW late \in BOOLEAN, AllLost(late)
    PROVE  /\ live' = {} /\ owned' = {} /\ navs' = {} /\ lease' = NoLease
           /\ saved' \in [Works -> [state : {"none", "active", "expired", "closed"}, owner : BOOLEAN]]
           /\ why' \in [Works -> Ends \cup {"none"}]
           /\ cmd' \in Commands /\ cmd'.stage = "losing" /\ FrameOK' /\ StoreOK'
           /\ UNCHANGED <<age, idle, cleanupRequired, queued>>
<1>1. /\ cmd' \in Commands /\ cmd'.stage = "losing" /\ cmd'.was = cmd.stage
      /\ cmd'.op = cmd.op /\ cmd'.work = cmd.work
  BY DEF AllLost, WorksTypeOK, Commands
<1>2. \A s \in Works : saved'[s] = IF s \in live THEN [state |-> "expired", owner |-> TRUE] ELSE saved[s]
  BY DEF AllLost, StoreOK
<1>3. StoreOK'
  BY <1>2 DEF AllLost, StoreOK, WorksTypeOK
<1>4. FrameOK'
  BY <1>1 DEF AllLost, FrameOK
<1> QED
  BY <1>1, <1>3, <1>4 DEF AllLost, WorksTypeOK

\* What becomes of a lease that is taken, or was to be taken and was not.
LEMMA LeaseType ==
    ASSUME WorksTypeOK, NEW s \in Works, Taken(s) \/ NotTaken(s) PROVE lease' \in [Works -> LeaseStates]
  BY DEF Taken, NotTaken, WorksTypeOK

\* A use of a work sets its two clocks back together.
LEMMA UsedKeeps ==
    ASSUME WorksInv, NEW s \in Works, Touched({s}), Did(s)
    PROVE  /\ age' \in [Works -> 0..WorkTTL] /\ rest' \in [Works -> 0..WorkTTL]
           /\ \A o \in live : rest'[o] = age'[o]
  BY DEF Touched, Did, WorksTypeOK, AgeOK
-----------------------------------------------------------------------------
\* Each action keeps the invariant.

\* A call that waits, or leaves its queue, changes its queue only; the holder keeps
\* its own place.
LEMMA StepQueue ==
    ASSUME WorksInv, NEW s \in Works \cup {NoWork}, Ask(s) \/ GiveUp(s) PROVE WorksInv'
<1>1. WorksTypeOK'
  BY DEF Ask, GiveUp, Suspended, CanCall, Counted, WorksTypeOK
<1>2. cmd.op \in Calls => queued'[QueueOf(cmd)] > 0
  <2>1. cmd.op \in Calls => QueueOf(cmd) \in Works \cup {NoWork} /\ queued[QueueOf(cmd)] > 0
    BY DEF FrameOK
  <2>2. CASE Ask(s)
    BY <2>1, <2>2 DEF Ask, WorksTypeOK
  <2>3. CASE GiveUp(s)
    BY <2>1, <2>3 DEF GiveUp, WorksTypeOK
  <2> QED
    BY <2>2, <2>3
<1>3. UNCHANGED <<memory, saved, cmd, process, why, rest>>
  BY DEF Ask, GiveUp
<1> QED
  BY <1>1, <1>2, <1>3 DEF FrameOK, StoreOK, BrowsersOK, DesktopPrivate, AgeOK

\* A probe gets the lock.
LEMMA StepPoll ==
    ASSUME WorksInv, NEW s \in Works, Poll(s) PROVE WorksInv'
<1>1. cmd' \in Commands /\ cmd'.op = "poll" /\ cmd'.work = s /\ cmd'.stage = "polling"
  BY FrameType DEF Poll
<1>2. WorksTypeOK'
  BY <1>1 DEF Poll, Sent, WorksTypeOK
<1>3. FrameOK' /\ StoreOK' /\ BrowsersOK' /\ DesktopPrivate' /\ AgeOK'
  BY <1>1, IdleFrame DEF Poll, Sent, WorksTypeOK, FrameOK, StoreOK, BrowsersOK, DesktopPrivate, AgeOK
<1> QED
  BY <1>1, <1>2, <1>3

\* A browser was gone: its work is forgotten with it, and the holder goes on or ends.
LEMMA StepGone == ASSUME WorksInv, Gone PROVE WorksInv'
<1>1. cmd.work \in Works /\ cmd.stage \in RpcStages \ {"opening"} /\ ~cleanupFailed
  BY DEF Gone, FrameOK, BrowsersOK
<1>2. CASE cmd.work \in live
  <2>1. Forgotten(cmd.work, "expired", "disconnected")
    BY <1>2 DEF Gone
  <2>2. WorksTypeOK' /\ FrameOK' /\ DesktopPrivate'
    BY <1>1, <1>2, <2>1, ForgottenKeeps, GoneFrame DEF Gone, WorksTypeOK
  <2>3. live' = live \ {cmd.work} /\ StoreOK' /\ age' = age /\ rest' = rest
        /\ cmd'.stage # "reaping"
    BY <1>1, <1>2, <2>1, <2>2, ForgottenKeeps, GoneFrame DEF Gone
  <2>4. BrowsersOK'
    BY <1>1, <2>3 DEF Gone, BrowsersOK, WorksTypeOK
  <2>5. AgeOK'
    BY <2>3 DEF AgeOK
  <2> QED
    BY <2>2, <2>3, <2>4, <2>5
<1>3. CASE cmd.work \notin live
  <2>1. UNCHANGED <<memory, saved, why>>
    BY <1>3 DEF Gone
  <2>2. WorksTypeOK' /\ FrameOK' /\ DesktopPrivate'
    BY <1>1, <2>1, GoneFrame DEF Gone, WorksTypeOK, FrameOK
  <2>3. cmd'.stage \notin {"reaping", "losing"}
    BY <1>1, <2>1, GoneFrame DEF FrameOK
  <2>4. BrowsersOK'
    BY <1>1, <1>3, <2>1, <2>3 DEF Gone, BrowsersOK, WorksTypeOK
  <2> QED
    BY <2>1, <2>2, <2>3, <2>4 DEF Gone, AgeOK, StoreOK
<1> QED
  BY <1>2, <1>3

\* The worker was lost, with every work.
LEMMA StepLost == ASSUME WorksInv, Lost PROVE WorksInv'
<1>1. PICK late \in BOOLEAN : AllLost(late)
  BY DEF Lost
<1>2. /\ worker' \in {"up", "dead"} /\ worker # "none"
      /\ cmd.stage \in RpcStages /\ UNCHANGED <<cleanupFailed, browser, rest>>
  BY DEF Lost
<1>3. calls' \in 0..MaxCalls /\ faults' \in 0..MaxFaults
  <2>1. calls' = calls /\ (faults' = faults \/ (faults < MaxFaults /\ faults' = faults + 1))
    BY DEF Lost, CanFault, Faulted
  <2> QED
    BY <2>1 DEF WorksTypeOK
<1>4. WorksTypeOK'
  BY <1>1, <1>2, <1>3, AllLostKeeps DEF WorksTypeOK
<1> QED
  BY <1>1, <1>2, <1>4, AllLostKeeps DEF BrowsersOK, DesktopPrivate, AgeOK

\* The worker is shut down: no browser is left, or no worker is started any more.
LEMMA StepShutDown == ASSUME WorksInv, ShutDown PROVE WorksInv'
<1>1. /\ cmd.stage = "losing" /\ ~cleanupFailed
      /\ UNCHANGED <<live, age, owned, navs, lease, idle, saved, why, rest>>
  BY DEF ShutDown, BrowsersOK
<1>2. calls' \in 0..MaxCalls /\ faults' \in 0..MaxFaults /\ cleanupRequired' \in BOOLEAN
  <2>1. calls' = calls /\ (faults' = faults \/ (faults < MaxFaults /\ faults' = faults + 1))
    BY DEF ShutDown, CanFault, Faulted
  <2>2. cleanupRequired' = cleanupRequired \/ cleanupRequired' = (cleanupRequired \/ cmd.was = "reaping")
    BY DEF ShutDown
  <2>3. cleanupRequired \in BOOLEAN /\ calls \in 0..MaxCalls /\ faults \in 0..MaxFaults
    BY DEF WorksTypeOK
  <2>4. cleanupRequired' \in BOOLEAN
    BY <2>2, <2>3, Zenon
  <2> QED
    BY <2>1, <2>3, <2>4
<1>3. /\ worker' \in {"none", "up"} /\ cleanupFailed' \in BOOLEAN
      /\ cleanupFailed' => worker' = "none"
      /\ ~cleanupFailed' => browser' = [s \in Works |-> "none"]
      /\ browser' \in [Works -> {"none", "up", "dead"}]
  <2>1. browser \in [Works -> {"none", "up", "dead"}] /\ cleanupFailed \in BOOLEAN
    BY DEF WorksTypeOK
  <2>2. CASE /\ browser' = [s \in Works |-> "none"] /\ cleanupFailed' = cleanupFailed
             /\ worker' \in {"none", "up"}
    BY <1>1, <2>1, <2>2
  <2>3. CASE /\ cleanupFailed' = TRUE /\ worker' = "none"
             /\ \E left \in SUBSET Works :
                  browser' = [s \in Works |-> IF s \in left THEN browser[s] ELSE "none"]
    BY <2>1, <2>3
  <2> QED
    BY <2>2, <2>3 DEF ShutDown
<1>4. /\ cmd' \in Commands /\ queued' \in [Works \cup {NoWork} -> 0..MaxQueued]
      /\ FrameOK' /\ DesktopPrivate' /\ cmd'.stage \notin {"losing", "reaping"}
  <2>1. CASE cmd.was = "reaping" /\ Goes("scanning")
    BY <1>1, <2>1, GoesKeeps DEF FrameOK
  <2>2. CASE cmd.was = "cancelling" /\ Goes(AfterCancelling[cmd.op])
    BY <1>1, <2>2, AfterCancellingKeeps DEF FrameOK
  <2>3. CASE Released
    BY <2>3, ReleasedKeeps
  <2> QED
    BY <2>1, <2>2, <2>3 DEF ShutDown
<1>5. WorksTypeOK'
  BY <1>1, <1>2, <1>3, <1>4 DEF WorksTypeOK
<1>6. StoreOK' /\ AgeOK'
  BY <1>1, <1>4 DEF StoreOK, AgeOK
<1>7. BrowsersOK'
  BY <1>3, <1>4 DEF BrowsersOK
<1> QED
  BY <1>4, <1>5, <1>6, <1>7

\* The command is refused, or answered without a change of its work; the desktop is as before,
\* or the human's.
LEMMA StepRefused ==
    ASSUME WorksInv, Refused PROVE WorksInv'
<1>1. lease' \in [Works -> LeaseStates]
  BY LeaseType DEF Refused, FrameOK
<1>2. calls' \in 0..MaxCalls /\ faults' \in 0..MaxFaults
  BY DEF Refused, CanFault, Faulted, WorksTypeOK
<1>3. WorksTypeOK' /\ FrameOK' /\ DesktopPrivate'
  BY <1>1, <1>2, ReleasedKeeps DEF Refused, WorksTypeOK
<1>4. StoreOK' /\ BrowsersOK' /\ AgeOK'
  BY <1>1, ReleasedKeeps DEF Refused, StoreOK, BrowsersOK, AgeOK
<1> QED
  BY <1>1, <1>2, <1>3, <1>4

\* A work is let in: new to the store, with an owner.
LEMMA StepAdmit ==
    ASSUME WorksInv, NEW s \in Works, Admit(s) PROVE WorksInv'
<1>1. s \notin live /\ why[s] = "none"
  BY DEF Admit, StoreOK
<1>2. cmd' \in Commands /\ cmd'.op = "open" /\ cmd'.work = s /\ cmd'.stage = "opening"
  BY FrameType DEF Admit
<1>3. WorksTypeOK'
  BY <1>2 DEF Admit, Did, Sent, WorksTypeOK
<1>4. FrameOK' /\ DesktopPrivate'
  BY <1>2 DEF Admit, FrameOK, DesktopPrivate, Scanned
<1>5. StoreOK'
  BY <1>1 DEF Admit, StoreOK, WorksTypeOK
<1>6. BrowsersOK' /\ AgeOK'
  BY <1>1, <1>2 DEF Admit, Did, Sent, Scanned, BrowsersOK, AgeOK, WorksTypeOK
<1> QED
  BY <1>1, <1>2, <1>3, <1>4, <1>5, <1>6

\* There is no room.
LEMMA StepNotAdmitted ==
    ASSUME WorksInv, NotAdmitted PROVE WorksInv'
<1>1. WorksTypeOK' /\ FrameOK' /\ DesktopPrivate'
  BY ReleasedKeeps DEF NotAdmitted, WorksTypeOK, FrameOK
<1>2. StoreOK' /\ BrowsersOK' /\ AgeOK'
  BY ReleasedKeeps DEF NotAdmitted, Scanned, FrameOK, StoreOK, BrowsersOK, AgeOK
<1> QED
  BY <1>1, <1>2

\* The browser of a work that lives runs.
LEMMA StepOpened ==
    ASSUME WorksInv, Opened PROVE WorksInv'
<1>1. cmd.work \in live /\ cmd.work \in Works
  BY DEF Opened, FrameOK
<1>2. WorksTypeOK' /\ FrameOK' /\ DesktopPrivate'
  BY <1>1, ReleasedKeeps, UsedKeeps DEF Opened, WorksTypeOK, FrameOK
<1>3. StoreOK' /\ BrowsersOK' /\ AgeOK'
  BY <1>1, ReleasedKeeps, UsedKeeps DEF Opened, WorksTypeOK, FrameOK, StoreOK, BrowsersOK, AgeOK
<1> QED
  BY <1>1, <1>2, <1>3

\* It may run or not when the opening failed.
LEMMA StepOpenFails ==
    ASSUME WorksInv, OpenFails PROVE WorksInv'
<1>1. cmd.work \in live /\ cmd.work \in Works
  BY DEF OpenFails, FrameOK
<1>2. calls' \in 0..MaxCalls /\ faults' \in 0..MaxFaults
  BY DEF OpenFails, CanFault, Faulted, WorksTypeOK
<1>3. WorksTypeOK' /\ FrameOK' /\ DesktopPrivate'
  BY <1>1, <1>2, ReleasedKeeps DEF OpenFails, WorksTypeOK, FrameOK
<1>4. StoreOK' /\ BrowsersOK' /\ AgeOK'
  BY <1>1, ReleasedKeeps DEF OpenFails, WorksTypeOK, FrameOK, StoreOK, BrowsersOK, AgeOK
<1> QED
  BY <1>1, <1>2, <1>3, <1>4

\* A work is used, or its navigation ends.
LEMMA StepUsed ==
    ASSUME WorksInv, Answered \/ NavigationOver PROVE WorksInv'
<1>1. cmd.work \in Works
  BY DEF Answered, NavigationOver, FrameOK
<1>2. Released /\ Touched({cmd.work}) /\ Did(cmd.work) /\ UNCHANGED <<live, owned, saved, lease, idle, cleanupRequired, process, why, bounds>>
  BY DEF Answered, NavigationOver
<1>3. cmd.stage \in {"using", "polling"} /\ navs' \subseteq Works
  BY <1>1 DEF Answered, NavigationOver, WorksTypeOK
<1>4. WorksTypeOK' /\ FrameOK' /\ DesktopPrivate'
  BY <1>1, <1>2, <1>3, ReleasedKeeps, UsedKeeps DEF WorksTypeOK, FrameOK
<1>5. cmd'.stage = "none"
  BY <1>2, ReleasedKeeps DEF FrameOK
<1>6. StoreOK' /\ BrowsersOK'
  BY <1>2, <1>3, <1>5 DEF StoreOK, BrowsersOK
<1>7. AgeOK'
  BY <1>1, <1>2, <1>5, UsedKeeps DEF AgeOK
<1> QED
  BY <1>4, <1>6, <1>7

\* A probe that finds its navigation pending.
LEMMA StepPending ==
    ASSUME WorksInv, Pending PROVE WorksInv'
<1>1. WorksTypeOK' /\ FrameOK' /\ DesktopPrivate'
  BY ReleasedKeeps DEF Pending, WorksTypeOK, FrameOK
<1>2. cmd'.stage = "none" /\ cmd.stage = "polling" /\ UNCHANGED <<memory, saved, process, why, rest>>
  BY ReleasedKeeps DEF Pending, FrameOK
<1>3. StoreOK' /\ BrowsersOK' /\ AgeOK'
  BY <1>2 DEF StoreOK, BrowsersOK, AgeOK
<1> QED
  BY <1>1, <1>3

\* A navigation is cancelled, and its command goes on.
LEMMA StepCancelled ==
    ASSUME WorksInv, Cancelled PROVE WorksInv'
<1>1. cmd.work \in Works /\ cmd.op \in {"close", "handoff", "reclaim"}
  BY DEF Cancelled, FrameOK
<1>2. cmd' \in Commands /\ FrameOK' /\ DesktopPrivate' /\ cmd'.stage \in {"closing", "listing", "disconnecting"} /\ queued' \in [Works \cup {NoWork} -> 0..MaxQueued]
      /\ lease' \in [Works -> LeaseStates]
  <2>1. CASE cmd.op = "reclaim"
    BY <1>1, <2>1, AfterCancellingKeeps, LeaseType DEF Cancelled
  <2>2. CASE cmd.op # "reclaim"
    BY <1>1, <2>2, AfterCancellingKeeps DEF Cancelled, WorksTypeOK
  <2> QED
    BY <2>1, <2>2
<1>3. WorksTypeOK'
  BY <1>1, <1>2, UsedKeeps DEF Cancelled, WorksTypeOK
<1>4. StoreOK' /\ BrowsersOK' /\ AgeOK'
  BY <1>1, <1>2, UsedKeeps DEF Cancelled, WorksTypeOK, StoreOK, BrowsersOK, AgeOK
<1> QED
  BY <1>1, <1>2, <1>3, <1>4

\* A work is closed: its browser was there, so it lived.
LEMMA StepClosed ==
    ASSUME WorksInv, Closed PROVE WorksInv'
<1>1. cmd.work \in live /\ ~cleanupFailed
  BY DEF Closed, FrameOK, BrowsersOK
<1>2. PICK reason \in {"explicit", "cancelled", "reclaimed"} : Forgotten(cmd.work, "closed", reason)
  BY DEF Closed, FrameOK
<1>3. WorksTypeOK' /\ FrameOK' /\ DesktopPrivate'
  BY <1>1, <1>2, ForgottenKeeps, ReleasedKeeps DEF Closed, WorksTypeOK
<1>4. StoreOK' /\ AgeOK'
  BY <1>1, <1>2, <1>3, ForgottenKeeps, ReleasedKeeps DEF Closed, AgeOK
<1>5. BrowsersOK'
  BY <1>1, <1>2, ForgottenKeeps, ReleasedKeeps DEF Closed, BrowsersOK, WorksTypeOK
<1> QED
  BY <1>1, <1>2, <1>3, <1>4, <1>5

\* The tab is there: the human has the desktop, and the handoff still holds the lock.
LEMMA StepListed ==
    ASSUME WorksInv, Listed PROVE WorksInv'
<1>1. cmd.op = "handoff" /\ cmd.work \in Works /\ lease' \in [Works -> LeaseStates]
  BY DEF Listed, FrameOK, WorksTypeOK
<1>2. cmd' \in Commands /\ cmd'.stage = "focusing" /\ cmd'.op = "handoff" /\ cmd'.work = cmd.work /\ queued' = queued
  BY <1>1, GoesType DEF Listed
<1>3. WorksTypeOK'
  BY <1>1, <1>2 DEF Listed, WorksTypeOK
<1>4. FrameOK' /\ DesktopPrivate'
  BY <1>1, <1>2 DEF Listed, FrameOK, DesktopPrivate
<1>5. StoreOK' /\ BrowsersOK' /\ AgeOK'
  BY <1>2 DEF Listed, StoreOK, BrowsersOK, AgeOK
<1> QED
  BY <1>1, <1>2, <1>3, <1>4, <1>5

\* The window is focused.
LEMMA StepFocused ==
    ASSUME WorksInv, Focused PROVE WorksInv'
<1>1. cmd.work \in Works
  BY DEF Focused, FrameOK
<1>2. WorksTypeOK' /\ FrameOK' /\ DesktopPrivate'
  BY <1>1, ReleasedKeeps, UsedKeeps DEF Focused, WorksTypeOK, FrameOK
<1>3. cmd'.stage = "none"
  BY ReleasedKeeps DEF Focused, FrameOK
<1>4. StoreOK' /\ BrowsersOK' /\ AgeOK'
  BY <1>1, <1>3, UsedKeeps DEF Focused, StoreOK, BrowsersOK, AgeOK
<1> QED
  BY <1>1, <1>2, <1>3, <1>4

\* The human completes.
LEMMA StepComplete ==
    ASSUME WorksInv, NEW s \in Works, Complete(s) PROVE WorksInv'
<1>1. lease' \in [Works -> LeaseStates]
  BY DEF Complete, WorksTypeOK
<1>2. cmd' \in Commands /\ cmd'.op = "complete" /\ cmd'.work = s /\ cmd'.stage = "disconnecting"
  BY FrameType DEF Complete
<1>3. WorksTypeOK'
  BY <1>1, <1>2, UsedKeeps DEF Complete, WorksTypeOK
<1>4. FrameOK' /\ DesktopPrivate'
  BY <1>2 DEF Complete, FrameOK, DesktopPrivate
<1>5. StoreOK' /\ BrowsersOK' /\ AgeOK'
  BY <1>2, UsedKeeps, IdleFrame DEF Complete, StoreOK, BrowsersOK, AgeOK
<1> QED
  BY <1>3, <1>4, <1>5

\* The human stays.
LEMMA StepRenew ==
    ASSUME WorksInv, NEW s \in Works, Renew(s) PROVE WorksInv'
<1>1. WorksTypeOK'
  BY UsedKeeps DEF Renew, WorksTypeOK
<1>2. FrameOK' /\ DesktopPrivate'
  BY DEF Renew, FrameOK, DesktopPrivate
<1>3. StoreOK' /\ BrowsersOK' /\ AgeOK'
  BY UsedKeeps, IdleFrame DEF Renew, StoreOK, BrowsersOK, AgeOK
<1> QED
  BY <1>1, <1>2, <1>3

\* The human cancels.
LEMMA StepCancelHandoff ==
    ASSUME WorksInv, NEW s \in Works, CancelHandoff(s) PROVE WorksInv'
<1>1. lease' \in [Works -> LeaseStates]
  BY DEF CancelHandoff, WorksTypeOK
<1>2. cmd' \in Commands /\ cmd'.op = "cancel" /\ cmd'.work = s /\ cmd'.stage = "disconnecting"
  BY FrameType DEF CancelHandoff
<1>3. WorksTypeOK'
  BY <1>1, <1>2 DEF CancelHandoff, WorksTypeOK
<1>4. FrameOK' /\ DesktopPrivate'
  BY <1>2 DEF CancelHandoff, FrameOK, DesktopPrivate
<1>5. StoreOK' /\ BrowsersOK' /\ AgeOK'
  BY <1>2, IdleFrame DEF CancelHandoff, StoreOK, BrowsersOK, AgeOK
<1> QED
  BY <1>3, <1>4, <1>5

\* The administrator reclaims a work.
LEMMA StepReclaim ==
    ASSUME WorksInv, NEW s \in Works, Reclaim(s) PROVE WorksInv'
<1>1. cmd' \in Commands /\ cmd'.op = "reclaim" /\ cmd'.work = s /\ cmd'.stage \in {"cancelling", "disconnecting"}
  BY FrameType DEF Reclaim
<1>2. WorksTypeOK'
  <2>1. lease' \in [Works -> LeaseStates]
    BY LeaseType DEF Reclaim, WorksTypeOK
  <2> QED
    BY <1>1, <2>1 DEF Reclaim, Sent, Counted, CanCall, WorksTypeOK
<1>3. FrameOK' /\ DesktopPrivate'
  BY <1>1 DEF Reclaim, FrameOK, DesktopPrivate, WorksTypeOK
<1>4. StoreOK' /\ BrowsersOK' /\ AgeOK'
  BY <1>1, IdleFrame DEF Reclaim, Sent, StoreOK, BrowsersOK, AgeOK
<1> QED
  BY <1>1, <1>2, <1>3, <1>4

\* The viewers are gone.
LEMMA StepDisconnected ==
    ASSUME WorksInv, Disconnected PROVE WorksInv'
<1>1. cmd' \in Commands /\ cmd'.op = cmd.op /\ cmd'.work = cmd.work /\ queued' = queued
      /\ cmd'.stage = IF cmd.op = "complete" THEN "resuming" ELSE "closing"
  BY GoesType DEF Disconnected
<1>2. WorksTypeOK'
  BY <1>1 DEF Disconnected, Sent, WorksTypeOK
<1>3. FrameOK' /\ DesktopPrivate'
  BY <1>1 DEF Disconnected, FrameOK, DesktopPrivate
<1>4. StoreOK' /\ BrowsersOK' /\ AgeOK'
  BY <1>1 DEF Disconnected, Sent, StoreOK, BrowsersOK, AgeOK
<1> QED
  BY <1>1, <1>2, <1>3, <1>4

\* The viewers are not gone in time.
LEMMA StepDisconnectFails ==
    ASSUME WorksInv, DisconnectFails PROVE WorksInv'
<1>1. lease' \in [Works -> LeaseStates]
  BY LeaseType DEF DisconnectFails, FrameOK
<1>2. calls' \in 0..MaxCalls /\ faults' \in 0..MaxFaults
  BY DEF DisconnectFails, CanFault, Faulted, WorksTypeOK
<1>3. WorksTypeOK' /\ FrameOK' /\ DesktopPrivate'
  BY <1>1, <1>2, ReleasedKeeps DEF DisconnectFails, WorksTypeOK
<1>4. StoreOK' /\ BrowsersOK' /\ AgeOK'
  BY <1>1, ReleasedKeeps DEF DisconnectFails, StoreOK, BrowsersOK, AgeOK
<1> QED
  BY <1>1, <1>2, <1>3, <1>4

\* Automation is back, and every work was in use.
LEMMA StepResumed ==
    ASSUME WorksInv, Resumed PROVE WorksInv'
<1>1. age' \in [Works -> 0..WorkTTL] /\ rest' \in [Works -> 0..WorkTTL] /\ \A o \in live : rest'[o] = age'[o]
  BY DEF Resumed, Touched, WorksTypeOK
<1>2. WorksTypeOK' /\ FrameOK' /\ DesktopPrivate'
  BY <1>1, ReleasedKeeps DEF Resumed, WorksTypeOK
<1>3. StoreOK' /\ BrowsersOK' /\ AgeOK'
  BY <1>1, ReleasedKeeps DEF Resumed, StoreOK, BrowsersOK, AgeOK
<1> QED
  BY <1>1, <1>2, <1>3

\* The sweeper gets the lock.
LEMMA StepSweep ==
    ASSUME WorksInv, Sweep PROVE WorksInv'
<1>1. cmd' \in Commands /\ cmd'.op = "sweep" /\ cmd'.stage = "scanning"
  BY DEF Sweep, Frame, Commands, WorksTypeOK
<1>2. WorksTypeOK'
  BY <1>1 DEF Sweep, WorksTypeOK
<1>3. FrameOK' /\ DesktopPrivate'
  BY <1>1 DEF Sweep, FrameOK, DesktopPrivate
<1>4. StoreOK' /\ BrowsersOK' /\ AgeOK'
  BY <1>1, IdleFrame DEF Sweep, StoreOK, BrowsersOK, AgeOK
<1> QED
  BY <1>1, <1>2, <1>3, <1>4

\* A work is due, and its close is sent.
LEMMA StepReap ==
    ASSUME WorksInv, NEW s \in Works, Reap(s) PROVE WorksInv'
<1>1. cmd' \in Commands /\ cmd'.op = cmd.op /\ cmd'.work = s /\ cmd'.stage = "reaping"
  <2>1. PICK passed \in SUBSET {o \in cmd.left \ {s} : ~Reapable(o)} :
          cmd' = [cmd EXCEPT !.stage = "reaping", !.work = s, !.left = @ \ ({s} \cup passed)]
    BY DEF Reap
  <2> QED
    BY <2>1 DEF WorksTypeOK, Commands
<1>2. WorksTypeOK'
  BY <1>1 DEF Reap, Sent, WorksTypeOK
<1>3. FrameOK'
  BY <1>1 DEF Reap, FrameOK
<1>4. DesktopPrivate'
  BY <1>1 DEF Reap, FrameOK, DesktopPrivate
<1>5. StoreOK' /\ BrowsersOK' /\ AgeOK'
  BY <1>1 DEF Reap, Reapable, Sent, StoreOK, BrowsersOK, AgeOK
<1> QED
  BY <1>1, <1>2, <1>3, <1>4, <1>5

\* It is closed, and ends as idle.
LEMMA StepReaped ==
    ASSUME WorksInv, Reaped PROVE WorksInv'
<1>1. cmd.work \in live /\ ~cleanupFailed /\ cmd.op \in {"open", "sweep"}
  BY DEF Reaped, FrameOK, BrowsersOK
<1>2. Forgotten(cmd.work, "expired", "idle")
  BY DEF Reaped
<1>3. WorksTypeOK' /\ FrameOK' /\ DesktopPrivate'
  BY <1>1, <1>2, ForgottenKeeps, GoesKeeps DEF Reaped, WorksTypeOK
<1>4. cmd'.stage = "scanning"
  BY GoesType DEF Reaped
<1>5. StoreOK' /\ AgeOK'
  BY <1>1, <1>2, <1>4, ForgottenKeeps DEF Reaped, AgeOK
<1>6. BrowsersOK'
  BY <1>1, <1>2, <1>4, ForgottenKeeps DEF Reaped, BrowsersOK, WorksTypeOK
<1> QED
  BY <1>1, <1>2, <1>3, <1>4, <1>5, <1>6

\* It cannot be closed, and stays.
LEMMA StepReapFails ==
    ASSUME WorksInv, ReapFails PROVE WorksInv'
<1>1. calls' \in 0..MaxCalls /\ faults' \in 0..MaxFaults
  BY DEF ReapFails, CanFault, Faulted, WorksTypeOK
<1>2. WorksTypeOK' /\ FrameOK' /\ DesktopPrivate'
  BY <1>1, ReleasedKeeps DEF ReapFails, WorksTypeOK, FrameOK
<1>3. cmd'.stage = "none" /\ cmd.stage = "reaping" /\ UNCHANGED <<live, owned, saved, why, age, rest, process>>
  BY ReleasedKeeps DEF ReapFails, FrameOK
<1>4. StoreOK' /\ BrowsersOK' /\ AgeOK'
  BY <1>3 DEF StoreOK, BrowsersOK, AgeOK
<1> QED
  BY <1>1, <1>2, <1>3, <1>4

\* The sweep ends, or goes on to stop the idle worker.
LEMMA StepSwept ==
    ASSUME WorksInv, Swept PROVE WorksInv'
<1>1. cmd' \in Commands /\ cmd'.stage \in {"none", "stopping"} /\ (cmd'.stage = "stopping" => cmd'.op = "sweep") /\ cmd'.op \notin Calls
      /\ (Control => cmd'.op = "none")
  BY IdleFrame DEF Swept, WorksTypeOK, Commands, DesktopPrivate
<1>2. idle' \in Unarmed..IdleTimeout
  BY DEF Swept, WorksTypeOK
<1>3. WorksTypeOK'
  BY <1>1, <1>2 DEF Swept, WorksTypeOK
<1>4. FrameOK' /\ DesktopPrivate'
  BY <1>1 DEF Swept, FrameOK, DesktopPrivate
<1>5. StoreOK' /\ BrowsersOK' /\ AgeOK'
  BY <1>1 DEF Swept, Scanned, StoreOK, BrowsersOK, AgeOK
<1> QED
  BY <1>1, <1>2, <1>3, <1>4, <1>5

\* The idle worker is stopped, when no work lives.
LEMMA StepStopped ==
    ASSUME WorksInv, Stopped PROVE WorksInv'
<1>1. calls' \in 0..MaxCalls /\ faults' \in 0..MaxFaults
  BY DEF Stopped, CanFault, Faulted, WorksTypeOK
<1>2. WorksTypeOK'
  BY <1>1, IdleFrame DEF Stopped, WorksTypeOK
<1>3. FrameOK' /\ DesktopPrivate'
  BY IdleFrame DEF Stopped, FrameOK, DesktopPrivate
<1>4. StoreOK' /\ BrowsersOK' /\ AgeOK'
  BY IdleFrame DEF Stopped, StoreOK, BrowsersOK, AgeOK
<1> QED
  BY <1>1, <1>2, <1>3, <1>4

\* Time passes for works that live; a work that is due stays so.
LEMMA StepTick ==
    ASSUME WorksInv, Tick PROVE WorksInv'
<1>1. age' \in [Works -> 0..WorkTTL] /\ rest' \in [Works -> 0..WorkTTL] /\ idle' \in Unarmed..IdleTimeout
  BY DEF Tick, WorksTypeOK
<1>2. WorksTypeOK'
  BY <1>1 DEF Tick, WorksTypeOK
<1>3. FrameOK' /\ DesktopPrivate' /\ StoreOK' /\ BrowsersOK'
  BY DEF Tick, FrameOK, DesktopPrivate, StoreOK, BrowsersOK
<1>4. AgeOK'
  BY DEF Tick, AgeOK, FrameOK, WorksTypeOK
<1> QED
  BY <1>1, <1>2, <1>3, <1>4

\* A browser or the worker dies, unnoticed.
LEMMA StepDies ==
    ASSUME WorksInv, NEW s, BrowserDies(s) \/ WorkerDies PROVE WorksInv'
<1>1. calls' \in 0..MaxCalls /\ faults' \in 0..MaxFaults
  BY DEF BrowserDies, WorkerDies, CanFault, Faulted, WorksTypeOK
<1>2. WorksTypeOK'
  BY <1>1 DEF BrowserDies, WorkerDies, WorksTypeOK
<1>3. UNCHANGED <<memory, saved, queued, cmd, cleanupFailed, why, rest>>
  BY DEF BrowserDies, WorkerDies
<1>4. FrameOK' /\ DesktopPrivate' /\ StoreOK' /\ AgeOK'
  BY <1>3 DEF FrameOK, DesktopPrivate, StoreOK, AgeOK
<1>5. BrowsersOK'
  BY <1>3 DEF BrowserDies, WorkerDies, BrowsersOK, WorksTypeOK
<1> QED
  BY <1>1, <1>2, <1>3, <1>4, <1>5

\* A new process knows nothing but the store, which a shutdown may bring up to date.
LEMMA StepRestarts ==
    ASSUME WorksInv, Crash \/ Shutdown PROVE WorksInv'
<1>1. calls' \in 0..MaxCalls /\ faults' \in 0..MaxFaults
  BY DEF Crash, Shutdown, CanFault, Faulted, WorksTypeOK
<1>2. PICK reason \in {"crash", "shutdown"} : Restarted(reason)
  BY DEF Crash, Shutdown
<1>3. \/ saved' = saved
      \/ saved' = [s \in Works |-> IF s \in live THEN [state |-> "expired", owner |-> s \in owned]
                                  ELSE saved[s]]
  BY DEF Crash, Shutdown
<1>4. \A s \in Works : \/ saved'[s] = saved[s]
                       \/ s \in live /\ saved'[s] = [state |-> "expired", owner |-> TRUE]
  BY <1>3 DEF StoreOK
<1>5. saved' \in [Works -> [state : {"none", "active", "expired", "closed"}, owner : BOOLEAN]]
  <2>1. saved' = [s \in Works |-> saved'[s]]
    BY <1>3 DEF WorksTypeOK
  <2>2. [state |-> "expired", owner |-> TRUE] \in [state : {"none", "active", "expired", "closed"}, owner : BOOLEAN]
    OBVIOUS
  <2>3. \A s \in Works : saved[s] \in [state : {"none", "active", "expired", "closed"}, owner : BOOLEAN]
    BY DEF WorksTypeOK
  <2> QED
    BY <1>4, <2>1, <2>2, <2>3
<1>6. WorksTypeOK'
  <2>1. queued' \in [Works \cup {NoWork} -> 0..MaxQueued] /\ why' \in [Works -> Ends \cup {"none"}]
    BY <1>2 DEF Restarted, WorksTypeOK
  <2>2. /\ live' = {} /\ owned' = {} /\ navs' = {} /\ lease' = NoLease /\ cmd' = Idle
        /\ idle' = Unarmed /\ cleanupRequired' = FALSE /\ worker' = "none" /\ cleanupFailed' = FALSE
        /\ browser' = [s \in Works |-> "none"] /\ age' = age /\ rest' = rest
    BY <1>2 DEF Restarted
  <2>3. idle' \in Unarmed..IdleTimeout
    BY <2>2
  <2> QED
    BY <1>1, <1>5, <2>1, <2>2, <2>3, IdleFrame DEF WorksTypeOK
<1>7. FrameOK' /\ DesktopPrivate'
  BY <1>2, IdleFrame DEF Restarted, FrameOK, DesktopPrivate
<1>8. StoreOK'
  <2>1. \A s \in Works : saved'[s] # Unsaved => saved'[s].owner
    BY <1>4 DEF StoreOK
  <2>2. \A s \in Works : why'[s] # "none" => saved'[s] # Unsaved
    BY <1>2, <1>4 DEF Restarted, StoreOK
  <2> QED
    BY <1>2, <2>1, <2>2 DEF Restarted, StoreOK
<1>9. BrowsersOK' /\ AgeOK'
  BY <1>2, IdleFrame DEF Restarted, BrowsersOK, AgeOK
<1> QED
  BY <1>6, <1>7, <1>8, <1>9

-----------------------------------------------------------------------------
\* Nothing changes.
LEMMA StepStutter == ASSUME WorksInv, UNCHANGED worksVars PROVE WorksInv'
<1>1. WorksTypeOK' /\ FrameOK'
  BY DEF worksVars, WorksTypeOK, FrameOK
<1> QED
  BY <1>1 DEF worksVars, StoreOK, BrowsersOK, DesktopPrivate, AgeOK

\* Every step keeps the invariant.
LEMMA WorksStep == WorksInv /\ [Next_Works]_worksVars => WorksInv'
<1> SUFFICES ASSUME WorksInv, [Next_Works]_worksVars PROVE WorksInv'
  OBVIOUS
<1>1. CASE UNCHANGED worksVars
  BY <1>1, StepStutter
<1>2. ASSUME NEW s \in Works \cup {NoWork}, Ask(s) \/ GiveUp(s) \/ Begin(s) PROVE WorksInv'
  BY <1>2, StepQueue, StepBegin
<1>3. ASSUME NEW s \in Works, Poll(s) \/ Reclaim(s) \/ BrowserDies(s) PROVE WorksInv'
  BY <1>3, StepPoll, StepReclaim, StepDies
<1>4. ASSUME NEW s \in Works, Complete(s) \/ Renew(s) \/ CancelHandoff(s) PROVE WorksInv'
  BY <1>4, StepComplete, StepRenew, StepCancelHandoff
<1>5. CASE Holder
  BY <1>5, StepGone, StepLost, StepShutDown, StepRefused, StepAdmit, StepNotAdmitted, StepOpened,
     StepOpenFails, StepUsed, StepPending, StepCancelled, StepClosed, StepListed, StepFocused,
     StepResumed, StepDisconnected, StepReap, StepReaped, StepReapFails, StepSwept, StepStopped
     DEF Holder
<1>6. CASE Disconnected \/ DisconnectFails \/ Sweep \/ Tick \/ WorkerDies \/ Crash \/ Shutdown
  BY <1>6, StepDisconnected, StepDisconnectFails, StepSweep, StepTick, StepDies, StepRestarts
<1> QED
  BY <1>1, <1>2, <1>3, <1>4, <1>5, <1>6 DEF Next_Works

\* The inductive invariant holds of every reachable state.
LEMMA WorksInvariant == Spec_Works => []WorksInv
  BY WorksInit, WorksStep, PTL DEF Spec_Works
-----------------------------------------------------------------------------
\* Every reachable state has the types of the code's variables: no queue is longer
\* than its limit or shorter than nothing, whoever leaves it and however.
THEOREM WorksTypeCorrect == Spec_Works => []WorksTypeOK
<1>1. WorksInv => WorksTypeOK
  OBVIOUS
<1> QED
  BY <1>1, WorksInvariant, PTL

\* When the lock is free, and before the idle worker is stopped, every browser of
\* the adapter belongs to a work somebody can close, unless a cleanup failed: no
\* failure between opening, losing and reaping leaves one behind.
THEOREM BrowsersAreOwned == Spec_Works => []NoStrayBrowser
<1>1. WorksInv => NoStrayBrowser
  BY IdleFrame DEF BrowsersOK, NoStrayBrowser
<1> QED
  BY <1>1, WorksInvariant, PTL

\* The store names the owner of every work that was ever let in, and the memory of
\* every work that lives, across failures of the worker, crashes and shutdowns.
THEOREM OwnersAreKept == Spec_Works => []OwnerRemembered
<1>1. WorksInv => OwnerRemembered
  BY DEF StoreOK, OwnerRemembered, WorksTypeOK
<1> QED
  BY <1>1, WorksInvariant, PTL

\* While a human has the desktop, nobody holds the lock but a private transition.
THEOREM DesktopIsPrivate == Spec_Works => []DesktopPrivate
<1>1. WorksInv => DesktopPrivate
  OBVIOUS
<1> QED
  BY <1>1, WorksInvariant, PTL
-----------------------------------------------------------------------------
\* How works begin and end

\* One work ends, for this reason.
Ending(s, reason) ==
    /\ s \in live /\ live' = live \ {s}
    /\ why' = [why EXCEPT ![s] = reason] /\ \A o \in Works \ {s} : saved'[o] = saved[o]
    /\ reason = "idle" => rest[s] = WorkTTL /\ s \notin navs

\* All works end, for no fault of theirs.
EndingAll ==
    /\ live' = {}
    /\ \E reason \in Ends \ {"idle"} :
         why' = [s \in Works |-> IF s \in live THEN reason ELSE why[s]]
    /\ \A s \in Works \ live : saved'[s] = saved[s]

\* One work begins, that never was before, where there is room for it.
Beginning(s) ==
    /\ saved[s] = Unsaved /\ Cardinality(live) < MaxWorks /\ live' = live \cup {s} /\ UNCHANGED why
    /\ \A o \in Works \ {s} : saved'[o] = saved[o]

\* Forgetting a work that lived is an end.
LEMMA ForgottenEnds ==
    ASSUME WorksInv, NEW s \in live, NEW state, NEW reason, Forgotten(s, state, reason),
           reason = "idle" => rest[s] = WorkTTL /\ s \notin navs
    PROVE  Ending(s, reason)
  BY DEF Forgotten, Ending, WorksTypeOK

\* No other step changes which works there are, what the store says of them, or why they
\* ended.
LEMMA OnlyEndings ==
    ASSUME WorksInv, [Next_Works]_worksVars
    PROVE  \/ UNCHANGED <<live, saved, why>>
           \/ \E s \in Works : Beginning(s) \/ \E reason \in Ends : Ending(s, reason)
           \/ EndingAll
<1> DEFINE Goal == \/ UNCHANGED <<live, saved, why>>
                   \/ \E s \in Works : Beginning(s) \/ \E reason \in Ends : Ending(s, reason)
                   \/ EndingAll
<1>1. CASE UNCHANGED worksVars
  BY <1>1 DEF worksVars
<1>2. ASSUME NEW s \in Works \cup {NoWork}, Ask(s) \/ GiveUp(s) \/ Begin(s) PROVE Goal
  BY <1>2 DEF Ask, GiveUp, Begin
<1>3. ASSUME NEW s \in Works, \/ Poll(s) \/ Reclaim(s) \/ BrowserDies(s) \/ Reap(s)
                             \/ Complete(s) \/ Renew(s) \/ CancelHandoff(s) PROVE Goal
  BY <1>3 DEF Poll, Reclaim, BrowserDies, Reap, Complete, Renew, CancelHandoff
<1>4. CASE Disconnected \/ DisconnectFails \/ Sweep \/ Tick
             \/ WorkerDies \/ Listed \/ Focused \/ Resumed
  BY <1>4 DEF Disconnected, DisconnectFails, Sweep, Tick, WorkerDies,
     Listed, Focused, Resumed
<1>5. CASE ShutDown \/ Refused \/ NotAdmitted \/ Opened \/ OpenFails \/ Answered \/ Pending
             \/ NavigationOver \/ Cancelled \/ ReapFails \/ Swept \/ Stopped
  BY <1>5 DEF ShutDown, Refused, NotAdmitted, Opened, OpenFails, Answered, Pending, NavigationOver,
     Cancelled, ReapFails, Swept, Stopped
<1>6. ASSUME NEW s \in Works, Admit(s) PROVE Goal
  BY <1>6 DEF Admit, Beginning, WorksTypeOK
<1>7. CASE Gone
  <2>1. CASE cmd.work \in live
    BY <1>7, <2>1, ForgottenEnds DEF Gone, WorksTypeOK
  <2>2. CASE cmd.work \notin live
    BY <1>7, <2>2 DEF Gone
  <2> QED
    BY <2>1, <2>2
<1>8. CASE Closed
  <2>1. cmd.work \in live
    BY <1>8 DEF Closed, FrameOK, BrowsersOK
  <2>2. PICK reason \in {"explicit", "cancelled", "reclaimed"} : Forgotten(cmd.work, "closed", reason)
    BY <1>8 DEF Closed, FrameOK
  <2> QED
    BY <2>1, <2>2, ForgottenEnds DEF WorksTypeOK
<1>9. CASE Reaped
  <2>1. cmd.work \in live /\ rest[cmd.work] = WorkTTL /\ cmd.work \notin navs
    BY <1>9 DEF Reaped, FrameOK, BrowsersOK, AgeOK
  <2> QED
    BY <1>9, <2>1, ForgottenEnds DEF Reaped, WorksTypeOK
<1>10. CASE Lost
  BY <1>10 DEF Lost, AllLost, EndingAll
<1>11. CASE Crash \/ Shutdown
  BY <1>11 DEF Crash, Shutdown, Restarted, EndingAll
<1> QED
  BY <1>1, <1>2, <1>3, <1>4, <1>5, <1>6, <1>7, <1>8, <1>9, <1>10, <1>11 DEF Next_Works, Holder

\* A work ends as idle only after a whole time to live without use and outside a navigation,
\* and it ends once: nothing brings it back or changes what the store says of its end.
THEOREM WorksEndOnce == Spec_Works => EndsOnceForAReason
<1> DEFINE Kept(s) ==
             /\ why'[s] = "idle" /\ why[s] # "idle" => rest[s] = WorkTTL /\ s \notin navs
             /\ why[s] # "none" => why'[s] = why[s] /\ s \notin live'
             /\ saved[s].state \in {"expired", "closed"} => saved'[s] = saved[s]
<1>1. ASSUME WorksInv, [Next_Works]_worksVars, NEW s \in Works
      PROVE  Kept(s)
  <2>1. /\ why[s] # "none" => s \notin live /\ saved[s] # Unsaved
        /\ saved[s].state \in {"expired", "closed"} => s \notin live /\ saved[s] # Unsaved
    BY <1>1 DEF StoreOK
  <2>2. CASE UNCHANGED <<live, saved, why>>
    BY <2>1, <2>2
  <2>3. ASSUME NEW o \in Works, Beginning(o) PROVE Kept(s)
    <3>1. s = o => why[s] = "none" /\ saved[s].state = "none"
      BY <2>1, <2>3 DEF Beginning
    <3> QED
      BY <2>1, <2>3, <3>1 DEF Beginning
  <2>4. ASSUME NEW o \in Works, NEW reason \in Ends, Ending(o, reason) PROVE Kept(s)
    BY <1>1, <2>1, <2>4 DEF Ending, WorksTypeOK
  <2>5. CASE EndingAll
    BY <2>1, <2>5 DEF EndingAll
  <2> QED
    BY <1>1, <2>2, <2>3, <2>4, <2>5, OnlyEndings
<1>2. WorksInv /\ [Next_Works]_worksVars =>
        [\A s \in Works :
           /\ why'[s] = "idle" /\ why[s] # "idle" => rest[s] = WorkTTL /\ s \notin navs
           /\ why[s] # "none" => why'[s] = why[s] /\ s \notin live'
           /\ saved[s].state \in {"expired", "closed"} => saved'[s] = saved[s]]_worksVars
  BY <1>1
<1> QED
  BY <1>2, WorksInit, WorksStep, PTL DEF Spec_Works, EndsOnceForAReason
-----------------------------------------------------------------------------
\* Capacity

\* There are never more works than there is room for.
Capacity == IsFiniteSet(live) /\ Cardinality(live) <= MaxWorks

\* Ending works makes room, and only admission, which looks first, takes it: _reap_expired
\* and the check of max_sessions are one stretch of the lock, so no two openings pass together.
THEOREM CapacityKept == Spec_Works => []Capacity
<1>1. Init_Works => Capacity
  BY FS_EmptySet, WorkConstants DEF Init_Works, Capacity
<1>2. WorksInv /\ Capacity /\ [Next_Works]_worksVars => Capacity'
  <2> SUFFICES ASSUME WorksInv, Capacity, [Next_Works]_worksVars PROVE Capacity'
    OBVIOUS
  <2>1. CASE UNCHANGED <<live, saved, why>>
    BY <2>1 DEF Capacity
  <2>2. ASSUME NEW s \in Works, Beginning(s) PROVE Capacity'
    <3>1. IsFiniteSet(live) /\ Cardinality(live) \in Nat /\ Cardinality(live) < MaxWorks
      BY <2>2, FS_CardinalityType DEF Capacity, Beginning
    <3>2. /\ IsFiniteSet(live \cup {s})
          /\ Cardinality(live \cup {s}) = Cardinality(live) \/ Cardinality(live \cup {s}) = Cardinality(live) + 1
      BY <3>1, FS_AddElement
    <3>3. live' = live \cup {s}
      BY <2>2 DEF Beginning
    <3> QED
      BY <3>1, <3>2, <3>3, WorkConstants DEF Capacity
  <2>3. ASSUME NEW s \in Works, NEW reason \in Ends, Ending(s, reason) PROVE Capacity'
    <3>1. IsFiniteSet(live) /\ Cardinality(live) \in Nat /\ Cardinality(live) <= MaxWorks
      BY FS_CardinalityType DEF Capacity
    <3>2. /\ IsFiniteSet(live \ {s})
          /\ Cardinality(live \ {s}) = Cardinality(live) \/ Cardinality(live \ {s}) = Cardinality(live) - 1
      BY <3>1, FS_RemoveElement
    <3>3. live' = live \ {s}
      BY <2>3 DEF Ending
    <3> QED
      BY <3>1, <3>2, <3>3, WorkConstants DEF Capacity
  <2>4. CASE EndingAll
    BY <2>4, FS_EmptySet, WorkConstants DEF EndingAll, Capacity
  <2> QED
    BY <2>1, <2>2, <2>3, <2>4, OnlyEndings
<1> QED
  BY <1>1, <1>2, WorksInit, WorksStep, PTL DEF Spec_Works
=============================================================================
