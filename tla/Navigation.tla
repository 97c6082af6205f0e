----------------------------- MODULE Navigation -----------------------------
(***************************************************************************)
(* Navigations of one work and the operation journal of service.py.  A     *)
(* call of browser_open or browser_navigate answers within five seconds;   *)
(* what it started goes on without it, is probed by _drive_navigation, and *)
(* is found again in the journal under the client's operation id and under *)
(* the id that the server gave the navigation.                             *)
(*                                                                         *)
(* The key of the navigation that request c begins is c itself.  `holder'  *)
(* is who has self.lock and the await it is suspended at; only finishing a *)
(* navigation needs nobody's lock, and whoever finishes one has it.        *)
(***************************************************************************)
EXTENDS Integers, FiniteSets

CONSTANTS
    Requests,   \* calls of open and navigate, in any order
    OpIds,      \* operation ids that clients choose
    NoOp,       \* operation_id=None
    Arguments,  \* what the digest of a request tells apart
    MaxEntries, \* capacity of the journal, 128 in the code
    NavFaults   \* bound: failures of the adapter and the worker

ASSUME NavigationConstants ==
    /\ NoOp \notin OpIds /\ OpIds \cap Requests = {} /\ NoOp \notin Requests
    /\ {"none", "drive", "cancel"} \cap Requests = {}
    /\ MaxEntries \in Nat \ {0} /\ NavFaults \in Nat

VARIABLES
    request,  \* the calls: where each is, and what its context holds
    told,     \* what each client was answered
    journal,  \* self.operations
    current,  \* self.navigations[sid]: the request that began it, or NoOp
    keys,     \* nav["keys"]
    holder,   \* who has self.lock: a request, "drive", "cancel" or "none"
    alive,    \* the work is in self.sessions
    controlled, \* _active_control(): some work's lease is active or returning
    \* history and bounds
    sent,     \* requests whose page command may have been sent
    ended,    \* navigations whose "done" is set
    evicted,  \* client ids whose record was dropped
    navFaults

navVars == <<request, told, journal, current, keys, holder, alive, controlled, sent, ended, evicted, navFaults>>

JournalKeys == OpIds \cup Requests
Results == {"done", "failed", "cancelled", "worker", "refused"}
NoRecord == [state |-> "none", digest |-> "none", result |-> "none"]
Running(digest) == [state |-> "running", digest |-> digest, result |-> "none"]
Unasked == [at |-> "none", op |-> NoOp, digest |-> "none", context |-> "none", abandoned |-> FALSE]
NoHolder == [who |-> "none", at |-> "none"]
-----------------------------------------------------------------------------
\* Reading the state

LockFree == holder = NoHolder
Entries == {k \in JournalKeys : journal[k].state # "none"}
CanFail == navFaults < NavFaults
Failing == navFaults' = navFaults + 1

\* _reserve_operations: completed records make room, running ones never do.
Evictions_Running(needed) ==
    {S \in SUBSET Entries :
        \/ S = {} /\ Cardinality(Entries) + needed <= MaxEntries
        \/ Cardinality(Entries \ S) + needed = MaxEntries}
Evictions(needed) ==
    {S \in SUBSET {k \in Entries : journal[k].state = "completed"} :
        \/ S = {} /\ Cardinality(Entries) + needed <= MaxEntries
        \/ Cardinality(Entries \ S) + needed = MaxEntries}
Without(S) == [k \in JournalKeys |-> IF k \in S THEN NoRecord ELSE journal[k]]

\* A record is completed with a result, for those of the keys that have one.
Completed(j, K, result) ==
    [k \in JournalKeys |-> IF k \in K /\ j[k].state # "none"
                           THEN [j[k] EXCEPT !.state = "completed", !.result = result] ELSE j[k]]

Answered(c, how) == told' = [told EXCEPT ![c] = IF @ = "nothing" THEN how ELSE @]

\* The end of a request with a result of its own: the client's record and the
\* provisional one are completed, and the client is told unless it left.
Concludes(c, result) ==
    /\ request' = [request EXCEPT ![c].at = "over", ![c].context = "result"]
    /\ journal' = Completed(journal, ({request[c].op} \cap OpIds) \cup {c}, result)
    /\ Answered(c, "final")
-----------------------------------------------------------------------------
Init_Navigation ==
    /\ request = [c \in Requests |-> Unasked] /\ told = [c \in Requests |-> "nothing"]
    /\ journal = [k \in JournalKeys |-> NoRecord]
    /\ current = NoOp /\ keys = {} /\ holder = NoHolder /\ alive = TRUE
    /\ controlled = FALSE
    /\ sent = {} /\ ended = {} /\ evicted = {} /\ navFaults = 0
-----------------------------------------------------------------------------
\* _call_owned, up to its wait for the lock

Reuse(c, op) == op \in OpIds /\ journal[op].state # "none"

\* The record of the same operation is replayed, or other arguments refused.
Replay(c, op, digest) ==
    /\ request[c] = Unasked /\ Reuse(c, op)
    /\ request' = [request EXCEPT ![c] = [Unasked EXCEPT !.at = "over", !.op = op, !.digest = digest]]
    /\ Answered(c, IF journal[op].digest = digest THEN "replay" ELSE "conflict")
    /\ UNCHANGED <<journal, current, keys, holder, alive, controlled, sent, ended, evicted, navFaults>>

\* There is room for its records, or none is left and it is refused.
Enter_Forgetful(c, op, digest) ==
    /\ request[c] = Unasked /\ ~Reuse(c, op)
    /\ \E S \in Evictions(IF op = NoOp THEN 1 ELSE 2) :
         /\ journal' = Without(S)
         /\ evicted' = evicted \cup (S \cap OpIds)
    /\ request' = [request EXCEPT ![c] = [Unasked EXCEPT !.at = "queued", !.op = op, !.digest = digest]]
    /\ UNCHANGED <<told, current, keys, holder, alive, controlled, sent, ended, navFaults>>
Enter(c, op, digest) ==
    /\ request[c] = Unasked /\ ~Reuse(c, op)
    /\ \E S \in Evictions(IF op = NoOp THEN 1 ELSE 2) :
         /\ journal' = IF op = NoOp THEN Without(S) ELSE [Without(S) EXCEPT ![op] = Running(digest)]
         /\ evicted' = evicted \cup (S \cap OpIds)
    /\ request' = [request EXCEPT ![c] = [Unasked EXCEPT !.at = "queued", !.op = op, !.digest = digest]]
    /\ UNCHANGED <<told, current, keys, holder, alive, controlled, sent, ended, navFaults>>
TurnAway(c, op, digest) ==
    /\ request[c] = Unasked /\ ~Reuse(c, op) /\ Evictions(IF op = NoOp THEN 1 ELSE 2) = {}
    /\ request' = [request EXCEPT ![c] = [Unasked EXCEPT !.at = "over", !.op = op, !.digest = digest]]
    /\ Answered(c, "final")
    /\ UNCHANGED <<journal, current, keys, holder, alive, controlled, sent, ended, evicted, navFaults>>

\* An invalid address, no turn at the host, or too long a wait for the lock.
Undispatched(c) ==
    /\ request[c].at = "queued" /\ Concludes(c, "refused")
    /\ UNCHANGED <<current, keys, holder, alive, controlled, sent, ended, evicted, navFaults>>

\* Five seconds are over: the client gets what the context holds, or is told that
\* nothing was dispatched, and then nothing may be.
TimeUp_Unmarked(c) ==
    /\ request[c].at # "none" /\ told[c] = "nothing"
    /\ Answered(c, IF request[c].context = "none" THEN "busy" ELSE "pending")
    /\ UNCHANGED <<request, journal, current, keys, holder, alive, controlled, sent, ended, evicted, navFaults>>
TimeUp(c) ==
    /\ request[c].at # "none" /\ told[c] = "nothing"
    /\ Answered(c, IF request[c].context = "none" THEN "busy" ELSE "pending")
    /\ request' = [request EXCEPT ![c].abandoned = request[c].context = "none"]
    /\ UNCHANGED <<journal, current, keys, holder, alive, controlled, sent, ended, evicted, navFaults>>
-----------------------------------------------------------------------------
\* Under the lock: _serialized_call, _open, _navigate, _begin_navigation

\* The request has the lock and is refused: it was abandoned, a human has the desktop,
\* the work is gone or has a navigation under way, there is no memory, or no room in the
\* journal.
Refuse(c) ==
    /\ LockFree /\ request[c].at = "queued" /\ Concludes(c, "refused")
    /\ UNCHANGED <<current, keys, holder, alive, controlled, sent, ended, evicted, navFaults>>

\* A provisional record and answer exist before the adapter is asked for a tab
\* (_open) or for the navigation.
Dispatch(c) ==
    /\ LockFree /\ request[c].at = "queued" /\ ~request[c].abandoned /\ ~controlled
    /\ alive /\ current = NoOp
    /\ \E S \in Evictions(1) :
         /\ journal' = [Without(S) EXCEPT ![c] = Running("initialization")]
         /\ evicted' = evicted \cup (S \cap OpIds)
    /\ request' = [request EXCEPT ![c].at = "held", ![c].context = "provisional"]
    /\ \E at \in {"open", "begin"} : holder' = [who |-> c, at |-> at]
    /\ UNCHANGED <<told, current, keys, alive, controlled, sent, ended, navFaults>>

\* The tab is there, and an address is to be visited.
TabOpened(c) ==
    /\ holder = [who |-> c, at |-> "open"] /\ holder' = [holder EXCEPT !.at = "begin"]
    /\ UNCHANGED <<request, told, journal, current, keys, alive, controlled, sent, ended, evicted, navFaults>>

\* The adapter opens a tab without an address, finds nothing to go to, or
\* refuses; the page command was not sent.
NothingBegun(c) ==
    /\ holder \in {[who |-> c, at |-> at] : at \in {"open", "begin"}} /\ holder' = NoHolder
    /\ \E result \in {"done", "refused"} : Concludes(c, result)
    /\ UNCHANGED <<current, keys, alive, controlled, sent, ended, evicted, navFaults>>

\* The page command is sent.  The records of the navigation are its keys, and its
\* caller waits for its end for the rest of the five seconds.
Begun_AnyKey(c) ==
    /\ holder = [who |-> c, at |-> "begin"] /\ holder' = NoHolder
    /\ current' = c /\ keys' = {request[c].op, c}
    /\ journal' = [k \in JournalKeys |-> IF k \in keys' THEN Running(request[c].digest)
                                         ELSE journal[k]]
    /\ request' = [request EXCEPT ![c].at = "hanging", ![c].context = "result"]
    /\ sent' = sent \cup {c}
    /\ UNCHANGED <<told, alive, controlled, ended, evicted, navFaults>>
Begun(c) ==
    /\ holder = [who |-> c, at |-> "begin"] /\ holder' = NoHolder
    /\ current' = c /\ keys' = ({request[c].op} \cap OpIds) \cup {c}
    /\ journal' = [k \in JournalKeys |-> IF k \in keys' THEN Running(request[c].digest)
                                         ELSE journal[k]]
    /\ request' = [request EXCEPT ![c].at = "hanging", ![c].context = "result"]
    /\ sent' = sent \cup {c}
    /\ UNCHANGED <<told, alive, controlled, ended, evicted, navFaults>>
-----------------------------------------------------------------------------
\* The end of a navigation

\* _finish_navigation, of the navigation that n began.  It may be called again.
Finish_Half(n, K, result) ==
    /\ journal' = Completed(journal, {n}, result)
    /\ ended' = ended \cup {n}
    /\ current' = IF current = n THEN NoOp ELSE current
Finish(n, K, result) ==
    /\ journal' = Completed(journal, K, result)
    /\ ended' = ended \cup {n}
    /\ current' = IF current = n THEN NoOp ELSE current

\* The caller that still waits is told the result.
Hear(c) ==
    /\ request[c].at = "hanging" /\ c \in ended
    /\ request' = [request EXCEPT ![c].at = "over"]
    /\ Answered(c, "final")
    /\ UNCHANGED <<journal, current, keys, holder, alive, controlled, sent, ended, evicted, navFaults>>

\* _drive_navigation probes, except while a human has the desktop, be it for another
\* work; _cancel_navigation cancels for a close, a takeover of this work, a reclaim or
\* the shutdown.
Probe ==
    /\ LockFree /\ current # NoOp /\ ~controlled /\ holder' = [who |-> "drive", at |-> "poll"]
    /\ UNCHANGED <<request, told, journal, current, keys, alive, controlled, sent, ended, evicted, navFaults>>
Cancel ==
    /\ LockFree /\ current # NoOp /\ holder' = [who |-> "cancel", at |-> "stop"]
    /\ UNCHANGED <<request, told, journal, current, keys, alive, controlled, sent, ended, evicted, navFaults>>

StillPending ==
    /\ holder.who = "drive" /\ holder.at = "poll" /\ holder' = NoHolder
    /\ UNCHANGED <<request, told, journal, current, keys, alive, controlled, sent, ended, evicted, navFaults>>
Over ==
    /\ holder.who = "drive" /\ holder.at = "poll" /\ holder' = NoHolder
    /\ \E result \in {"done", "failed"} : Finish(current, keys, result)
    /\ UNCHANGED <<request, told, keys, alive, controlled, sent, evicted, navFaults>>
CancelDone ==
    /\ holder.who = "cancel" /\ holder.at = "stop" /\ holder' = NoHolder
    /\ Finish(current, keys, "cancelled")
    /\ \E a \in BOOLEAN : alive' = a
    /\ UNCHANGED <<request, told, keys, controlled, sent, evicted, navFaults>>
CancelRefused ==
    /\ holder.who = "cancel" /\ holder.at = "stop" /\ holder' = NoHolder
    /\ CanFail /\ Failing
    /\ UNCHANGED <<request, told, journal, current, keys, alive, controlled, sent, ended, evicted>>

\* The browser is gone: the work is forgotten, which ends its navigation, and
\* then the probe or the cancellation ends it again.
WorkGone ==
    /\ holder.at \in {"poll", "stop"} /\ CanFail /\ Failing
    /\ alive' = FALSE /\ holder' = NoHolder
    /\ Finish(current, keys, IF holder.who = "drive" THEN "failed" ELSE "cancelled")
    /\ UNCHANGED <<request, told, keys, controlled, sent, evicted>>

\* The worker failed: _rpc ends every navigation and lease, shuts the worker down, and only
\* then the one that asked goes on; a page command may have been sent.
WorkerFails ==
    /\ ~LockFree /\ holder.at # "losing" /\ CanFail /\ Failing
    /\ alive' = FALSE /\ controlled' = FALSE /\ holder' = [holder EXCEPT !.at = "losing"]
    /\ IF current # NoOp THEN Finish(current, keys, "worker")
       ELSE UNCHANGED <<journal, ended, current>>
    /\ sent' = sent \cup (IF holder.at = "begin" THEN {holder.who} ELSE {})
    /\ UNCHANGED <<request, told, keys, evicted>>

\* The worker is down.  The probe ends the navigation again, and the cancellation
\* too unless the reply was late; a request reports the failure.
WorkerDown ==
    /\ holder.at = "losing" /\ holder' = NoHolder
    /\ \/ /\ holder.who = "drive"
          /\ journal' = Completed(journal, keys, "worker") /\ UNCHANGED <<request, told>>
       \/ /\ holder.who = "cancel"
          /\ journal' \in {journal, Completed(journal, keys, "cancelled")}
          /\ UNCHANGED <<request, told>>
       \/ holder.who \in Requests /\ Concludes(holder.who, "refused")
    /\ UNCHANGED <<current, keys, alive, controlled, sent, ended, evicted, navFaults>>
\* Under the lock, a human takes or gives back the desktop of some work; of this one
\* only after its navigation was cancelled.
ControlMoves ==
    /\ LockFree /\ controlled' = ~controlled
    /\ UNCHANGED <<request, told, journal, current, keys, holder, alive, sent, ended, evicted, navFaults>>
-----------------------------------------------------------------------------
Moves(c) == Undispatched(c) \/ TabOpened(c) \/ NothingBegun(c) \/ Begun(c) \/ Hear(c)
            \/ Refuse(c) \/ Dispatch(c)

Next_Navigation ==
    \/ \E c \in Requests : \/ \E op \in OpIds \cup {NoOp}, d \in Arguments :
                                Replay(c, op, d) \/ Enter(c, op, d) \/ TurnAway(c, op, d)
                           \/ TimeUp(c) \/ Moves(c)
    \/ Probe \/ StillPending \/ Over
    \/ Cancel \/ CancelDone \/ CancelRefused \/ WorkGone \/ WorkerFails \/ WorkerDown
    \/ ControlMoves

\* The lock is handed on first come first served and replies come in bounded time; a
\* navigation has a deadline, so one of its probes is the last.  Nothing makes a human
\* give the desktop back, and only where that happened are there probes.
Fairness_Navigation ==
    /\ \A c \in Requests : SF_navVars(Undispatched(c) \/ Refuse(c) \/ Dispatch(c))
    /\ \A c \in Requests : WF_navVars(TabOpened(c) \/ NothingBegun(c) \/ Begun(c))
    /\ \A c \in Requests : WF_navVars(Hear(c))
    /\ SF_navVars(Probe) /\ WF_navVars(StillPending \/ Over) /\ SF_navVars(Over)
    /\ WF_navVars(CancelDone \/ CancelRefused) /\ WF_navVars(WorkerDown)

Spec_Navigation == Init_Navigation /\ [][Next_Navigation]_navVars /\ Fairness_Navigation
-----------------------------------------------------------------------------
NavigationTypeOK ==
    /\ request \in [Requests -> [at : {"none", "queued", "held", "hanging", "over"},
                                 op : OpIds \cup {NoOp}, digest : Arguments \cup {"none"},
                                 context : {"none", "provisional", "result"}, abandoned : BOOLEAN]]
    /\ told \in [Requests -> {"nothing", "busy", "pending", "final", "replay", "conflict"}]
    /\ journal \in [JournalKeys -> [state : {"none", "running", "completed"},
                                    digest : Arguments \cup {"none", "initialization"},
                                    result : Results \cup {"none"}]]
    /\ current \in Requests \cup {NoOp} /\ keys \subseteq JournalKeys
    /\ holder \in [who : Requests \cup {"none", "drive", "cancel"},
                   at : {"none", "open", "begin", "poll", "stop", "losing"}]
    /\ alive \in BOOLEAN /\ controlled \in BOOLEAN /\ sent \subseteq Requests /\ ended \subseteq Requests
    /\ evicted \subseteq OpIds /\ navFaults \in 0..NavFaults

\* A client that was told "not dispatched" is right for ever: its request never
\* reaches a page, whatever it was waiting for when it was told.
BusyIsFinal == \A c \in sent : told[c] # "busy"

\* While its record is kept, requests that share an operation id send one page
\* command between them, however often the client repeats itself.
OneDispatchPerOperation ==
    \A op \in OpIds \ evicted : Cardinality({c \in sent : request[c].op = op}) <= 1

\* The journal stays within its bound without losing what is under way: whoever
\* was told to ask again finds the record until it has the result.
JournalKeepsRunning ==
    /\ Cardinality(Entries) <= MaxEntries
    /\ \A c \in Requests :
         /\ told[c] = "pending" /\ journal[c].state = "none" => request[c].at = "over" \/ c \in ended
         /\ request[c].at \in {"held", "hanging"} /\ c \notin ended =>
              \A k \in {c, request[c].op} \ {NoOp} : journal[k].state = "running"

\* When no human has the desktop any more, what a client was told is pending comes to an
\* end that it can read, under the server's id and under its own.
PendingResolves ==
    <>[]~controlled =>
        \A c \in Requests : told[c] = "pending" ~>
            \A k \in {c, request[c].op} \ {NoOp} : journal[k].state # "running"

\* A completed operation keeps its result: who replays it reads the same again.
ResultsKept ==
    [][\A k \in JournalKeys : journal[k].state = "completed" /\ journal'[k].state = "completed"
         => journal'[k].result = journal[k].result]_navVars
=============================================================================
