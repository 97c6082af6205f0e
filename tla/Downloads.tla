----------------------------- MODULE Downloads -----------------------------
(***************************************************************************)
(* The artifacts of one work: artifacts.py, and the download callbacks of  *)
(* drission.py.  Chromium downloads on its own and tells of it in events;  *)
(* one thread handles them in order while the worker's commands list,      *)
(* export and delete, and while private control begins and ends.           *)
(*                                                                         *)
(* An artifact is named by what it holds: a download or the export.  Sizes *)
(* are in units of the limits.                                             *)
(***************************************************************************)
EXTENDS Integers, Sequences, FiniteSets

CONSTANTS
    Guids,      \* downloads that may begin
    Export,     \* the one export of the page
    MaxItems, MaxBytes, FileBytes, \* limits of the store, of the work, of a file
    MaxSize,    \* bound: units of a download
    MaxEvents   \* bound: events that are not handled yet, beyond which nothing happens

ASSUME DownloadsConstants ==
    /\ Export \notin Guids
    /\ {MaxItems, MaxBytes, FileBytes, MaxSize, MaxEvents} \subseteq Nat \ {0}

VARIABLES
    running,  \* Chromium's downloads
    private,  \* downloads that began under private control
    disk,     \* files in the artifact directory
    events,   \* download events on their way to the callbacks
    handler,  \* the callback under way
    item,     \* artifacts.items
    tracked,  \* session["downloads"]
    filesPaused, \* session["paused"]
    behavior, \* Browser.setDownloadBehavior
    control   \* the command of private control under way, "held", or "closed" for good

fileVars == <<running, private, disk, events, handler, item, tracked, filesPaused, behavior, control>>

Names == Guids \cup {Export}
NoItem == [state |-> "none", size |-> 0]
Unstarted == [state |-> "none", got |-> 0]
Resting == [at |-> "idle"]
-----------------------------------------------------------------------------
Init_Downloads ==
    /\ running = [g \in Guids |-> Unstarted] /\ private = {} /\ disk = {} /\ events = <<>>
    /\ handler = Resting /\ item = [n \in Names |-> NoItem] /\ tracked = {}
    /\ filesPaused = FALSE /\ behavior = "allow" /\ control = "none"
-----------------------------------------------------------------------------
\* Chromium

Told(kind, g, state, got) == Append(events, [kind |-> kind, guid |-> g, state |-> state, got |-> got])
Happens == Len(events) < MaxEvents /\ control # "closed"
Adapter == <<handler, item, tracked, filesPaused, behavior, control>>

\* A download that is denied is announced all the same.
DownloadBegins(g) ==
    /\ Happens /\ running[g].state = "none"
    /\ private' = IF control = "held" THEN private \cup {g} ELSE private
    /\ running' = [running EXCEPT ![g].state = IF behavior = "deny" THEN "canceled" ELSE "inProgress"]
    /\ disk' = IF behavior = "deny" THEN disk ELSE disk \cup {g}
    /\ events' = Told("began", g, running'[g].state, 0) /\ UNCHANGED Adapter

DownloadProceeds(g) ==
    /\ Happens /\ running[g].state = "inProgress"
    /\ \E got \in running[g].got..MaxSize, state \in {"inProgress", "completed"} :
         /\ running' = [running EXCEPT ![g] = [state |-> state, got |-> got]]
         /\ running' # running
         /\ events' = Told("progress", g, state, got)
    /\ UNCHANGED <<private, disk, Adapter>>

\* cancelDownload of some of them: no longer running, and its partial file is gone.
Cancels(S) ==
    LET stopped == {g \in S : running[g].state = "inProgress"} IN
    /\ running' = [g \in Guids |-> IF g \in stopped THEN [running[g] EXCEPT !.state = "canceled"]
                                   ELSE running[g]]
    /\ disk' = disk \ stopped
CancelFails == UNCHANGED <<running, disk>>
-----------------------------------------------------------------------------
\* The callbacks.  A cancellation that fails is dropped: the next event tries again.

Handles(kind) == handler = Resting /\ events # <<>> /\ Head(events).kind = kind /\ events' = Tail(events)
Event == Head(events)
Refuses(g) == (Cancels({g}) \/ CancelFails) /\ handler' = Resting
\* How much the artifacts of S hold, counted in units.
HeldUnits(items, S) == {u \in S \X (1..MaxSize) : u[2] <= items[u[1]].size}
Held(items, S) == Cardinality(HeldUnits(items, S))
Total(items) == Held(items, Names)
Count == Cardinality({n \in Names : item[n] # NoItem})
Rest == <<private, filesPaused, behavior, control>>

Began ==
    /\ Handles("began") /\ UNCHANGED <<item, tracked, Rest>>
    /\ IF filesPaused THEN Refuses(Event.guid)
       ELSE handler' = [at |-> "reserve", guid |-> Event.guid] /\ UNCHANGED <<running, disk>>

\* reserve: what is in progress counts with the size that is known of it so far.
Reserves ==
    /\ handler.at = "reserve" /\ UNCHANGED <<events, tracked, Rest>>
    /\ IF Count >= MaxItems \/ Total(item) >= MaxBytes
       THEN Refuses(handler.guid) /\ UNCHANGED item
       ELSE /\ item' = [item EXCEPT ![handler.guid] = [state |-> "inProgress", size |-> 0]]
            /\ handler' = [handler EXCEPT !.at = "track"] /\ UNCHANGED <<running, disk>>
Tracks ==
    /\ handler.at = "track" /\ tracked' = tracked \cup {handler.guid} /\ handler' = Resting
    /\ UNCHANGED <<events, item, running, disk, Rest>>

\* Its owner has it no more, a human has control, or it is known to be too large.
Progressed ==
    /\ Handles("progress") /\ UNCHANGED <<item, tracked, Rest>>
    /\ IF Event.guid \notin tracked \/ filesPaused THEN Refuses(Event.guid)
       ELSE handler' = [at |-> "account", guid |-> Event.guid, state |-> Event.state, got |-> Event.got]
            /\ UNCHANGED <<running, disk>>

\* progress: an event that takes the file or the work over its limit ends the file.
Accepted(g, state, sized) ==
    [state |-> IF sized[g].size > FileBytes \/ Total(sized) > MaxBytes THEN "size_limit" ELSE state,
     size |-> sized[g].size]
Accounts ==
    /\ handler.at = "account" /\ UNCHANGED <<events, tracked, Rest>>
    /\ LET g == handler.guid
           sized == [item EXCEPT ![g].size = handler.got] IN
       IF item[g] = NoItem THEN Refuses(g) /\ UNCHANGED item
       ELSE /\ item' = [sized EXCEPT ![g] = Accepted(g, handler.state, sized)]
            /\ IF item'[g].state = "size_limit" THEN Refuses(g)
               ELSE handler' = Resting /\ UNCHANGED <<running, disk>>
-----------------------------------------------------------------------------
\* Commands of the client and the end of an artifact's life

Commandable == control = "none"
Removed(S) == item' = [n \in Names |-> IF n \in S THEN NoItem ELSE item[n]]

\* put: reserved, accounted and written in one hold of the lock.
Exports(size) ==
    /\ Commandable /\ item[Export] = NoItem /\ Count < MaxItems /\ Total(item) < MaxBytes
    /\ size <= FileBytes /\ Total(item) + size <= MaxBytes
    /\ item' = [item EXCEPT ![Export] = [state |-> "completed", size |-> size]]
    /\ disk' = disk \cup {Export}
    /\ UNCHANGED <<running, events, handler, tracked, Rest>>

\* delete: what is tracked and in progress is canceled first.
Deletes(n) ==
    /\ Commandable /\ item[n] # NoItem /\ Removed({n}) /\ tracked' = tracked \ {n}
    /\ LET stopped == {n} \cap {g \in tracked : item[g].state = "inProgress"} IN
       /\ running' = [g \in Guids |-> IF g \in stopped /\ running[g].state = "inProgress"
                                      THEN [running[g] EXCEPT !.state = "canceled"] ELSE running[g]]
       /\ disk' = disk \ {n}
    /\ UNCHANGED <<events, handler, Rest>>

\* expire, on whatever call comes next: the download itself is not told.
Expires(n) ==
    /\ item[n] # NoItem /\ control # "closed" /\ Removed({n}) /\ disk' = disk \ {n}
    /\ UNCHANGED <<running, events, handler, tracked, Rest>>

\* close: Chromium has quit before the files are removed.
ClosesWork ==
    /\ control \in {"none", "held"} /\ control' = "closed" /\ handler = Resting /\ events' = <<>>
    /\ running' = [g \in Guids |-> IF running[g].state = "inProgress"
                                   THEN [running[g] EXCEPT !.state = "canceled"] ELSE running[g]]
    /\ Removed(Names) /\ disk' = disk \ {n \in Names : item[n] # NoItem}
    /\ UNCHANGED <<private, handler, tracked, filesPaused, behavior>>

\* reap_orphans, when another session opens and these files are old enough.
Reaps ==
    /\ control = "closed" /\ disk # {} /\ disk' = {}
    /\ UNCHANGED <<running, private, events, handler, item, tracked, filesPaused, behavior, control>>
-----------------------------------------------------------------------------
\* Private control: focus and resume

Focus ==
    /\ control = "none" /\ control' = "pausing" /\ filesPaused' = TRUE
    /\ UNCHANGED <<running, private, disk, events, handler, item, tracked, behavior>>
Denied_Not == behavior
Denied == "deny"
Denies ==
    /\ control = "pausing" /\ control' = "denying" /\ behavior' = Denied
    /\ UNCHANGED <<running, private, disk, events, handler, item, tracked, filesPaused>>
CancelsAll ==
    /\ control = "denying" /\ control' = "held"
    /\ Cancels({g \in tracked : item[g].state = "inProgress"})
    /\ UNCHANGED <<private, events, handler, item, tracked, filesPaused, behavior>>

\* resume, or a focus that failed on its way and is given back.
Resume ==
    /\ control \in {"pausing", "denying", "held"} /\ control' = "resuming" /\ filesPaused' = FALSE
    /\ UNCHANGED <<running, private, disk, events, handler, item, tracked, behavior>>
Allows ==
    /\ control = "resuming" /\ control' = "none" /\ behavior' = "allow"
    /\ UNCHANGED <<running, private, disk, events, handler, item, tracked, filesPaused>>
-----------------------------------------------------------------------------
Next_Downloads ==
    \/ \E g \in Guids : DownloadBegins(g) \/ DownloadProceeds(g)
    \/ Began \/ Reserves \/ Tracks \/ Progressed \/ Accounts
    \/ \E size \in 1..MaxSize : Exports(size)
    \/ \E n \in Names : Deletes(n) \/ Expires(n)
    \/ ClosesWork \/ Reaps \/ Focus \/ Denies \/ CancelsAll \/ Resume \/ Allows

Spec_Downloads == Init_Downloads /\ [][Next_Downloads]_fileVars
-----------------------------------------------------------------------------
DownloadsTypeOK ==
    /\ running \in [Guids -> [state : {"none", "inProgress", "completed", "canceled"}, got : 0..MaxSize]]
    /\ private \subseteq Guids /\ disk \subseteq Names /\ tracked \subseteq Guids
    /\ handler.at \in {"idle", "reserve", "track", "account"}
    /\ \A n \in Names : item[n].size \in 0..MaxSize
    /\ filesPaused \in BOOLEAN /\ behavior \in {"allow", "deny"}
    /\ control \in {"none", "pausing", "denying", "held", "resuming", "closed"}

\* What a client can read is a whole file that the work, and not the human who had
\* control of it, downloaded; and all that can be read is within the limits of the
\* work, however the events of downloads, commands and expiry came to interleave.
ReadableIsOwn ==
    LET readable == {n \in Names : item[n].state = "completed"} IN
    /\ \A g \in readable \cap Guids : /\ g \notin private /\ running[g].state = "completed"
                                      /\ item[g].size = running[g].got
    /\ \A n \in readable : item[n].size <= FileBytes
    /\ Held(item, readable) <= MaxBytes
=============================================================================
