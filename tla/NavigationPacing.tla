-------------------------- MODULE NavigationPacing --------------------------
(***************************************************************************)
(* NavigationPacer.pace: navigations to one host take turns, keep their    *)
(* distance and are limited per minute.  A caller waits for the host's     *)
(* turn, sleeps until its time, waits for the service's command lock while *)
(* it holds the turn, and gives the turn up when the worker has answered.  *)
(*                                                                         *)
(* Callers are coroutines of one event loop: each action is all the code   *)
(* from one await to the next.  A record of `hosts' is an object the       *)
(* callers hold by reference, so one that was dropped while somebody held  *)
(* it would live on beside its successor; `records' are these objects.     *)
(*                                                                         *)
(* The turn is an asyncio.Lock.  Releasing it wakes the first waiter, who  *)
(* takes it when it runs; until then the lock is open and yet a newcomer   *)
(* has to queue.                                                           *)
(***************************************************************************)
EXTENDS Naturals, Sequences, FiniteSets

CONSTANTS
    Callers,     \* commands and readers that navigate
    Hosts,       \* normalized host names
    Records,     \* pool of host records
    NoHost, NoRecord,
    MinInterval, \* cfg.navigation_min_interval_ms, at most 60 seconds
    PerMinute,   \* cfg.navigation_per_host_per_minute
    Minute,      \* 60
    Budget,      \* 5: the longest a caller waits for its turn
    MaxTime      \* bound: the last arrival; the clock runs Budget longer

ASSUME PacingConstants ==
    /\ NoHost \notin Hosts /\ NoRecord \notin Records
    /\ MinInterval \in Nat /\ PerMinute \in Nat \ {0} /\ Minute \in Nat \ {0}
    /\ Budget \in Nat /\ MaxTime \in Nat
    /\ MinInterval <= Minute

VARIABLES
    now,     \* self.clock()
    hosts,   \* self.hosts: the record of each host, or NoRecord
    record,  \* what a record holds: dispatches, users and the lock
    caller,  \* each caller's coroutine
    \* history, read by properties only
    log      \* hosts: the last navigations, when sent and when noted

vars == <<now, hosts, record, caller, log>>

Blank == [dispatches |-> <<>>, users |-> 0, locked |-> FALSE, waiters |-> <<>>]
Away  == [at |-> "away", host |-> NoHost, record |-> NoRecord, deadline |-> 0,
          timed |-> FALSE, wake |-> 0]
Stages == {"away", "queued", "sleeping", "entering", "sent", "loading"}

\* The stages in which a caller holds the turn of its host.
Turn == {"sleeping", "entering", "sent"}
-----------------------------------------------------------------------------
\* Reading and writing records

\* Dispatches are dropped from the left as long as they are a minute old.
Young(d) ==
    LET old == CHOOSE k \in 1..Len(d) :
                 /\ \A i \in 1..k : d[i] + Minute <= now
                 /\ k < Len(d) => d[k + 1] + Minute > now
    IN IF d = <<>> \/ d[1] + Minute > now THEN d ELSE SubSeq(d, old + 1, Len(d))
Recent(r) == Young(record[r].dispatches)

\* expire(): old dispatches go, then records with neither dispatches nor users.
\* R is the records as the caller leaves them and H the table of hosts.
Unused_NoDispatches(row) == row.dispatches = <<>>
Unused(row) == row.dispatches = <<>> /\ row.users = 0

Expire(R, H) ==
    LET swept == [r \in Records |->
                    IF \E h \in Hosts : H[h] = r
                    THEN [R[r] EXCEPT !.dispatches = Young(@)] ELSE R[r]]
    IN /\ record' = swept
       /\ hosts' = [h \in Hosts |->
                      IF H[h] # NoRecord /\ Unused(swept[H[h]]) THEN NoRecord ELSE H[h]]

\* The way out of pace(), without the turn and with it.
Left(R, r) == [R EXCEPT ![r].users = @ - 1]
Released_KeepTurn(R, r) == [R EXCEPT ![r].users = @ - 1]
Released_KeepUser(R, r) == [R EXCEPT ![r].locked = FALSE]
Released(R, r) == [R EXCEPT ![r].users = @ - 1, ![r].locked = FALSE]

\* The record a caller of host h finds after expire(), or else makes: setdefault.
Kept(h) == /\ hosts[h] # NoRecord
           /\ ~Unused([record[hosts[h]] EXCEPT !.dispatches = Recent(hosts[h])])

\* Which of the unused ones is made the new record makes no difference.
Free(h) == {r \in Records : /\ \A c \in Callers : caller[c].record # r
                            /\ \A o \in Hosts \ {h} : hosts[o] # r}
Found(h, r) ==
    IF Kept(h) THEN r = hosts[h]
    ELSE Free(h) # {} /\ r = CHOOSE q \in Free(h) : TRUE

Rows(h, r) == IF Kept(h) THEN record ELSE [record EXCEPT ![r] = Blank]

\* How long after the last dispatch the next one must wait.
Due_NoInterval(d) == IF d = <<>> THEN now ELSE d[Len(d)]
Due(d) == IF d = <<>> THEN now ELSE d[Len(d)] + MinInterval
-----------------------------------------------------------------------------
Init ==
    /\ now = 0
    /\ hosts = [h \in Hosts |-> NoRecord]
    /\ record = [r \in Records |-> Blank]
    /\ caller = [c \in Callers |-> Away]
    /\ log = [h \in Hosts |-> <<>>]

\* The caller has the lock: it is refused, sleeps, or goes on.  R and H are the
\* records and hosts before; k is the caller's frame.
Crowded_OneMore(d) == Len(d) > PerMinute
Crowded(d) == Len(d) >= PerMinute

TakeTurn(c, k, R, H) ==
    LET d == Young(R[k.record].dispatches)
        due == Due(d)
    IN \/ /\ Crowded(d) \/ (due > now /\ due > k.deadline)
          /\ Expire(Released(R, k.record), H)
          /\ caller' = [caller EXCEPT ![c] = Away]
       \/ /\ ~Crowded(d) /\ due > now /\ due <= k.deadline
          /\ Expire([R EXCEPT ![k.record].locked = TRUE], H)
          /\ caller' = [caller EXCEPT ![c] = [k EXCEPT !.at = "sleeping", !.timed = FALSE,
                                                       !.wake = due]]
       \/ /\ ~Crowded(d) /\ due <= now
          /\ Expire([R EXCEPT ![k.record].locked = TRUE], H)
          /\ caller' = [caller EXCEPT ![c] = [k EXCEPT !.at = "entering", !.timed = FALSE]]

\* A caller arrives with what is left of its time.
Arrive(c, h, r, budget) ==
    /\ caller[c].at = "away" /\ now <= MaxTime /\ Found(h, r)
    /\ LET k == [Away EXCEPT !.host = h, !.record = r, !.deadline = now + budget]
           R == [Rows(h, r) EXCEPT ![r].users = @ + 1]
           H == [hosts EXCEPT ![h] = r]
       IN \/ \* the host's turn is taken and there is no time to wait for it
             /\ R[r].locked /\ budget = 0
             /\ Expire(Rows(h, r), H)
             /\ UNCHANGED caller
          \/ \* wait for it, for what is left
             /\ R[r].locked /\ budget > 0
             /\ Expire([R EXCEPT ![r].waiters = Append(@, c)], H)
             /\ caller' = [caller EXCEPT ![c] = [k EXCEPT !.at = "queued", !.timed = TRUE]]
          \/ \* the lock is open but promised to another: wait for it without a limit
             /\ ~R[r].locked /\ R[r].waiters # <<>>
             /\ Expire([R EXCEPT ![r].waiters = Append(@, c)], H)
             /\ caller' = [caller EXCEPT ![c] = [k EXCEPT !.at = "queued"]]
          \/ \* it is free
             /\ ~R[r].locked /\ R[r].waiters = <<>>
             /\ TakeTurn(c, k, R, H)
    /\ UNCHANGED <<now, log>>

\* The first waiter of an open lock runs.
Awake(c) ==
    LET r == caller[c].record
    IN /\ caller[c].at = "queued" /\ ~record[r].locked
       /\ record[r].waiters # <<>> /\ Head(record[r].waiters) = c
       /\ TakeTurn(c, caller[c], [record EXCEPT ![r].waiters = Tail(@)], hosts)
       /\ UNCHANGED <<now, log>>

\* A waiter's time is over before it has the lock.
Without(s, c) ==
    LET i == CHOOSE i \in DOMAIN s : s[i] = c
    IN SubSeq(s, 1, i - 1) \o SubSeq(s, i + 1, Len(s))
GiveUp(c) ==
    LET r == caller[c].record
    IN /\ caller[c].at = "queued" /\ caller[c].timed /\ now >= caller[c].deadline
       /\ Expire([Left(record, r) EXCEPT ![r].waiters = Without(@, c)], hosts)
       /\ caller' = [caller EXCEPT ![c] = Away]
       /\ UNCHANGED <<now, log>>

\* The sleep is over; the caller joins those who wait for the command lock.
WakeUp(c) ==
    /\ caller[c].at = "sleeping" /\ now >= caller[c].wake
    /\ caller' = [caller EXCEPT ![c].at = "entering"]
    /\ UNCHANGED <<now, hosts, record, log>>

\* Before it was sent: the command lock was not to be had, the call was
\* abandoned, or the service refused.
Refused(c) ==
    /\ caller[c].at = "entering"
    /\ Expire(Released(record, caller[c].record), hosts)
    /\ caller' = [caller EXCEPT ![c] = Away]
    /\ UNCHANGED <<now, log>>

\* The caller has the command lock and sends; the worker navigates.
Send(c) ==
    /\ caller[c].at = "entering"
    /\ \A o \in Callers : caller[o].at # "sent"
    /\ caller' = [caller EXCEPT ![c].at = "sent", ![c].wake = now]
    /\ UNCHANGED <<now, hosts, record, log>>

\* The worker refused, or its answer was lost: nothing is noted.
Unanswered(c) ==
    /\ caller[c].at = "sent"
    /\ Expire(Released(record, caller[c].record), hosts)
    /\ caller' = [caller EXCEPT ![c] = Away]
    /\ UNCHANGED <<now, log>>

\* dispatched(): the answer is noted and the turn given up.
Last(s) == IF Len(s) <= PerMinute + 1 THEN s ELSE Tail(s)

Dispatched_Leaves(c) ==
    LET r == caller[c].record
        h == caller[c].host
    IN /\ caller[c].at = "sent"
       /\ record' = [record EXCEPT ![r].dispatches = Append(@, now), ![r].locked = FALSE,
                                   ![r].users = @ - 1]
       /\ caller' = [caller EXCEPT ![c].at = "loading"]
       /\ log' = [log EXCEPT ![h] = Last(Append(@, [sent |-> caller[c].wake, noted |-> now]))]
       /\ UNCHANGED <<now, hosts>>

Dispatched(c) ==
    LET r == caller[c].record
        h == caller[c].host
    IN /\ caller[c].at = "sent"
       /\ record' = [record EXCEPT ![r].dispatches = Append(@, now), ![r].locked = FALSE]
       /\ caller' = [caller EXCEPT ![c].at = "loading"]
       /\ log' = [log EXCEPT ![h] = Last(Append(@, [sent |-> caller[c].wake, noted |-> now]))]
       /\ UNCHANGED <<now, hosts>>

\* The page is there, or the command is over: the caller leaves pace().
Leave(c) ==
    /\ caller[c].at = "loading"
    /\ Expire(Left(record, caller[c].record), hosts)
    /\ caller' = [caller EXCEPT ![c] = Away]
    /\ UNCHANGED <<now, log>>

\* A periodic caller of expire().
Sweep ==
    /\ Expire(record, hosts)
    /\ UNCHANGED <<now, caller, log>>

\* The event loop runs what is due before the next tick.
Overdue(c) ==
    LET k == caller[c]
    IN \/ k.at = "sleeping" /\ now >= k.wake
       \/ k.at = "queued" /\ k.timed /\ now >= k.deadline
       \/ k.at = "queued" /\ ~record[k.record].locked

Tick ==
    /\ now < MaxTime + Budget
    /\ \A c \in Callers : ~Overdue(c)
    /\ now' = now + 1
    /\ UNCHANGED <<hosts, record, caller, log>>

Next ==
    \/ \E c \in Callers :
         \/ \E h \in Hosts, r \in Records, budget \in 0..Budget : Arrive(c, h, r, budget)
         \/ Awake(c) \/ GiveUp(c) \/ WakeUp(c) \/ Refused(c) \/ Send(c)
         \/ Unanswered(c) \/ Dispatched(c) \/ Leave(c)
    \/ Sweep
    \/ Tick

Spec == Init /\ [][Next]_vars

\* A coroutine that can run runs; the clock runs; the command lock's wait and the
\* worker's answer are bounded, so a caller that entered goes on or is refused.
Fairness ==
    /\ WF_vars(Tick)
    /\ \A c \in Callers :
         WF_vars(Awake(c) \/ GiveUp(c) \/ WakeUp(c) \/ Refused(c) \/ Unanswered(c)
                 \/ Dispatched(c) \/ Leave(c))

FairSpec == Spec /\ Fairness
-----------------------------------------------------------------------------
\* Properties

\* Each variable has its kind of value.
TypeOK ==
    /\ now \in 0..(MaxTime + Budget)
    /\ hosts \in [Hosts -> Records \cup {NoRecord}]
    /\ \A r \in Records :
         /\ DOMAIN record[r] = DOMAIN Blank
         /\ record[r].users \in Nat /\ record[r].locked \in BOOLEAN
         /\ \A i \in DOMAIN record[r].dispatches : record[r].dispatches[i] \in 0..now
         /\ \A i \in DOMAIN record[r].waiters : record[r].waiters[i] \in Callers
    /\ caller \in [Callers -> [at : Stages, host : Hosts \cup {NoHost},
                               record : Records \cup {NoRecord}, deadline : Nat,
                               timed : BOOLEAN, wake : Nat]]

\* One caller at a time has the turn of a host, though the host's record may be
\* dropped and made again while callers come and go.
OneTurn ==
    \A c, o \in Callers :
        /\ caller[c].at \in Turn /\ caller[o].at \in Turn
        /\ caller[c].host = caller[o].host
        => c = o

\* No navigation is sent to a host sooner than MinInterval after the worker's
\* answer to the one before, whatever was waiting, refused or lost in between.
Spaced ==
    \A h \in Hosts : \A i \in 1..(Len(log[h]) - 1) :
        log[h][i + 1].sent >= log[h][i].noted + MinInterval

\* Of answered navigations to a host no minute holds more than PerMinute.
RateKept ==
    \A h \in Hosts :
        Len(log[h]) = PerMinute + 1 => log[h][PerMinute + 1].sent >= log[h][1].noted + Minute

\* The pace a host is promised: a distance between two navigations and a rate over a
\* minute, counted over all the records that the host had meanwhile.
PaceKept == Spaced /\ RateKept

\* A host is remembered only while somebody navigates there or did recently: a
\* caller that was refused, or gave up, leaves nothing behind.
HostsForgotten ==
    \A h \in Hosts :
        hosts[h] # NoRecord => \/ record[hosts[h]].dispatches # <<>>
                              \/ \E c \in Callers : caller[c].host = h

\* Every caller leaves in the end: no turn is kept by one who failed, and no wait
\* for a turn is lost.
EveryoneLeaves == \A c \in Callers : caller[c].at # "away" ~> caller[c].at = "away"
=============================================================================
