------------------------------- MODULE Reader -------------------------------
(***************************************************************************)
(* Public reading: _read of service.py, the reader's resource choices      *)
(* (reader_resources.py) and the one browser tab that all reads share.     *)
(*                                                                         *)
(* A read holds the reader lock from its start to its end, but the command *)
(* lock only while it starts the navigation, polls it and observes the     *)
(* page; in between other works open, close, are controlled by a human or  *)
(* lose the worker, and the page of an earlier read may still be loading.  *)
(* A url that differs from the shown one in its fragment loads no document *)
(* of its own: the browser moves within the one that an earlier read left. *)
(***************************************************************************)
EXTENDS Integers, FiniteSets

CONSTANTS
    Reads,       \* calls of browser_read with a url
    Callers,     \* principals
    MaxWorks,    \* max_sessions
    MaxKept,     \* results kept for one caller: 4 in the code
    MaxMishaps   \* bound: human controls, losses of the worker or the reader's browser

ASSUME ReaderConstants ==
    0 \notin Reads /\ {MaxWorks, MaxKept} \subseteq Nat \ {0} /\ MaxMishaps \in Nat

VARIABLES
    read,       \* the calls
    readerLock, \* reader_lock: the read that holds it, 0 if none
    readerSid,  \* reader_sid, if it is in sessions: the read that opened it, else 0
    readerTid,  \* its tab is known
    others,     \* how many other sessions there are
    humanHas,   \* one of them is controlled by a human
    cache,      \* read_cache: the place of each read whose result is kept, else 0
    places,     \* how many results got a place in it
    heldBy,     \* the callers who were given text of a read
    \* the reader's tab
    shown,      \* the read whose page it shows, 0 for a blank or an error page
    loadedBy,   \* the read whose navigation loaded the document in it, 0 if none
    coming,     \* the read whose page was asked for and is not there yet, 0 if none
    within,     \* that page is reached within the document in the tab
    skipped,    \* ReaderResources: images are in the types to block
    stopped,    \* reads whose document has a request for an image in the dispatcher's queue
    pictured,   \* reads whose document got an image
    mishaps

calls == <<read, readerLock, cache, places, heldBy>>
readerTab == <<shown, loadedBy, coming, within, skipped, stopped, pictured>>
sessions_ == <<readerSid, readerTid, others, humanHas, mishaps>>
readVars == <<calls, readerTab, sessions_>>

NotAsked == [at |-> "none"]
Asked(caller, images) ==
    [at |-> "waiting", caller |-> caller, images |-> images, sid |-> 0, complete |-> FALSE,
     text |-> 0, doc |-> 0, pictured |-> FALSE]
Init_Reader ==
    /\ read = [r \in Reads |-> NotAsked] /\ readerLock = 0 /\ readerSid = 0 /\ readerTid = FALSE
    /\ others = 0 /\ humanHas = FALSE /\ cache = [r \in Reads |-> 0] /\ places = 0 /\ heldBy = [r \in Reads |-> {}]
    /\ shown = 0 /\ loadedBy = 0 /\ coming = 0 /\ within = FALSE
    /\ skipped = FALSE /\ stopped = {} /\ pictured = {} /\ mishaps = 0
-----------------------------------------------------------------------------
\* A read waits for its turn, and gives up at queue_timeout.

Is(r, at) == read[r].at = at
Moves(r, at) == read' = [read EXCEPT ![r].at = at]
ReadFails(r) == Moves(r, "failed") /\ readerLock' = 0 /\ UNCHANGED <<cache, places, heldBy>>

AskRead(r, caller, images) ==
    /\ Is(r, "none") /\ ~humanHas
    /\ read' = [read EXCEPT ![r] = Asked(caller, images)]
    /\ UNCHANGED <<readerLock, cache, places, heldBy, readerTab, sessions_>>
GivesUpReading(r) ==
    /\ Is(r, "waiting") /\ Moves(r, "failed")
    /\ UNCHANGED <<readerLock, cache, places, heldBy, readerTab, sessions_>>

ReaderFree_Presumed == TRUE
ReaderFree == readerLock = 0
TakesTurn(r) ==
    /\ Is(r, "waiting") /\ ReaderFree /\ readerLock' = r /\ Moves(r, "starting")
    /\ UNCHANGED <<cache, places, heldBy, readerTab, sessions_>>
-----------------------------------------------------------------------------
\* The first section under the command lock: open, configure, begin.

Opens(r) ==
    /\ Is(r, "starting") /\ ~humanHas /\ (readerSid = 0 => others < MaxWorks)
    /\ readerSid' = IF readerSid = 0 THEN r ELSE readerSid
    /\ UNCHANGED <<others, humanHas, mishaps, shown, loadedBy, stopped, pictured>>
Configures(r) == skipped' = ~read[r].images

\* A human has control, every session is in use, or the lock was not free in time.
StartRefused(r) == Is(r, "starting") /\ ReadFails(r) /\ UNCHANGED <<readerTab, sessions_>>

\* The browser does not open; or what still loads was stopped, but memory is short
\* or navigation_begin fails before the page command.
StartFails(r) ==
    /\ Opens(r) /\ ReadFails(r) /\ UNCHANGED within
    /\ \/ ~readerTid /\ UNCHANGED <<readerTid, coming, skipped>>
       \/ readerTid' = TRUE /\ coming' \in {coming, 0} /\ (UNCHANGED skipped \/ Configures(r))
StartRead(r) ==
    /\ Opens(r) /\ readerTid' = TRUE /\ Configures(r) /\ coming' = r
    /\ within' \in BOOLEAN /\ (within' => loadedBy # 0)
    /\ read' = [read EXCEPT ![r].sid = readerSid', ![r].at = "driving"]
    /\ UNCHANGED <<readerLock, cache, places, heldBy>>
-----------------------------------------------------------------------------
\* _drive_navigation: a section of the command lock for every poll.

SessionLives(r) == readerSid # 0 /\ readerSid = read[r].sid
Drives(r) == Is(r, "driving") /\ SessionLives(r) /\ ~humanHas
Ready(r, complete) ==
    /\ read' = [read EXCEPT ![r].complete = complete, ![r].at = "observing"]
    /\ UNCHANGED <<readerLock, cache, places, heldBy, shown, loadedBy, within, skipped, stopped, pictured, sessions_>>

\* The document is the one of the reply; or, if that names none, another than before or
\* a movement within it was seen.
PollCompletes(r) == Drives(r) /\ shown = r /\ Ready(r, TRUE) /\ UNCHANGED coming

\* The rest of the page is not waited for.  stopLoading itself may fail.
PollTimesOut(r) == Drives(r) /\ coming' \in {coming, 0} /\ Ready(r, FALSE)

\* The navigation failed; or the session or the command lock was lost, or a human
\* took control, and the worker's navigation goes on.
ReadPollFails(r) ==
    /\ Is(r, "driving") /\ ReadFails(r)
    /\ UNCHANGED <<shown, loadedBy, within, skipped, stopped, pictured, sessions_>>
    /\ coming' \in {coming, 0}
-----------------------------------------------------------------------------
\* The second section: the tab is observed, and the result kept and returned.

\* Of the results of the caller all but the latest MaxKept - 1 make room.
IsKept(r) == cache[r] # 0
Owned(caller) == {q \in Reads : IsKept(q) /\ read[q].caller = caller}
Later(r, caller) == {q \in Owned(caller) : cache[q] > cache[r]}
Superseded(caller) == {q \in Owned(caller) : Cardinality(Later(q, caller)) >= MaxKept - 1}
Keeps(r) ==
    /\ places' = places + 1
    /\ cache' = [q \in Reads |-> IF q = r THEN places'
                                ELSE IF q \in Superseded(read[r].caller) THEN 0 ELSE cache[q]]

ObserveRead(r) ==
    /\ Is(r, "observing") /\ SessionLives(r) /\ ~humanHas
    /\ read' = [read EXCEPT ![r].text = shown, ![r].doc = loadedBy, ![r].pictured = loadedBy \in pictured,
                            ![r].at = "done"]
    /\ Keeps(r) /\ heldBy' = [heldBy EXCEPT ![r] = @ \cup {read[r].caller}]
    /\ readerLock' = 0 /\ UNCHANGED <<readerTab, sessions_>>
ObserveFails(r) == Is(r, "observing") /\ ReadFails(r) /\ UNCHANGED <<readerTab, sessions_>>

\* A call with a read_id needs neither lock.
Continue(r, caller) ==
    /\ IsKept(r) /\ read[r].caller = caller /\ ~humanHas
    /\ heldBy' = [heldBy EXCEPT ![r] = @ \cup {caller}]
    /\ UNCHANGED <<read, readerLock, cache, places, readerTab, sessions_>>

\* Every result is kept for as long: the oldest is the next to expire.
CacheExpires ==
    /\ \E r \in Reads : /\ IsKept(r) /\ \A q \in Reads : IsKept(q) => cache[r] <= cache[q]
                        /\ cache' = [cache EXCEPT ![r] = 0]
    /\ UNCHANGED <<read, readerLock, places, heldBy, readerTab, sessions_>>
-----------------------------------------------------------------------------
\* The other works, under the command lock between the sections of a read

WorkOpens ==
    /\ ~humanHas /\ others + (IF readerSid = 0 THEN 0 ELSE 1) < MaxWorks /\ others' = others + 1
    /\ UNCHANGED <<calls, readerTab, readerSid, readerTid, humanHas, mishaps>>
WorkCloses ==
    /\ ~humanHas /\ others > 0 /\ others' = others - 1
    /\ UNCHANGED <<calls, readerTab, readerSid, readerTid, humanHas, mishaps>>

Mishap == mishaps < MaxMishaps /\ mishaps' = mishaps + 1
HumanTakes ==
    /\ others > 0 /\ ~humanHas /\ humanHas' = TRUE /\ Mishap
    /\ UNCHANGED <<calls, readerTab, readerSid, readerTid, others>>
HumanReturns ==
    /\ humanHas /\ humanHas' = FALSE
    /\ UNCHANGED <<calls, readerTab, readerSid, readerTid, others, mishaps>>

\* The next browser starts with a blank tab and the first policy.
ReaderGone ==
    /\ readerSid' = 0 /\ readerTid' = FALSE /\ shown' = 0 /\ loadedBy' = 0 /\ coming' = 0 /\ within' = FALSE
    /\ skipped' = FALSE /\ stopped' = {} /\ UNCHANGED <<calls, pictured>>
ReaderIdles ==
    /\ readerSid # 0 /\ ReaderFree /\ ~humanHas /\ ReaderGone /\ UNCHANGED <<others, humanHas, mishaps>>
ReaderLost == readerSid # 0 /\ Mishap /\ ReaderGone /\ UNCHANGED <<others, humanHas>>
WorkerLost ==
    /\ readerSid # 0 /\ others > 0 /\ Mishap /\ ReaderGone /\ others' = 0 /\ humanHas' = FALSE
-----------------------------------------------------------------------------
\* The tab

\* A page of its own takes the document's place, or the document moves on within itself.
PageComes ==
    /\ coming # 0 /\ shown' = coming /\ coming' = 0 /\ within' = FALSE
    /\ loadedBy' = IF within THEN loadedBy ELSE coming
    /\ UNCHANGED <<calls, skipped, stopped, pictured, sessions_>>
PageErrs ==
    /\ coming # 0 /\ ~within /\ shown' = 0 /\ loadedBy' = 0 /\ coming' = 0
    /\ UNCHANGED <<calls, within, skipped, stopped, pictured, sessions_>>

\* Fetch pauses a request of a type to block; the dispatcher asks the policy again.
PageWantsImage ==
    /\ loadedBy # 0
    /\ IF skipped THEN stopped' = stopped \cup {loadedBy} /\ UNCHANGED pictured
       ELSE pictured' = pictured \cup {loadedBy} /\ UNCHANGED stopped
    /\ UNCHANGED <<calls, shown, loadedBy, coming, within, skipped, sessions_>>
Dispatches(r) ==
    /\ r \in stopped /\ stopped' = stopped \ {r}
    /\ pictured' = IF skipped THEN pictured ELSE pictured \cup {r}
    /\ UNCHANGED <<calls, shown, loadedBy, coming, within, skipped, sessions_>>
-----------------------------------------------------------------------------
Next_Reader ==
    \/ \E r \in Reads :
          \/ \E caller \in Callers, images \in BOOLEAN : AskRead(r, caller, images)
          \/ GivesUpReading(r) \/ TakesTurn(r) \/ StartRefused(r) \/ StartFails(r) \/ StartRead(r)
          \/ PollCompletes(r) \/ PollTimesOut(r) \/ ReadPollFails(r)
          \/ ObserveRead(r) \/ ObserveFails(r) \/ Dispatches(r)
          \/ \E caller \in Callers : Continue(r, caller)
    \/ CacheExpires \/ WorkOpens \/ WorkCloses \/ HumanTakes \/ HumanReturns
    \/ ReaderIdles \/ ReaderLost \/ WorkerLost \/ PageComes \/ PageErrs \/ PageWantsImage

Spec_Reader == Init_Reader /\ [][Next_Reader]_readVars
-----------------------------------------------------------------------------
\* Every call is where _read can be, and every lock, tab and result is a read's.
ReaderTypeOK ==
    /\ \A r \in Reads : read[r].at \in {"none", "waiting", "starting", "driving", "observing", "done", "failed"}
    /\ {readerLock, readerSid, shown, loadedBy, coming} \subseteq Reads \cup {0}
    /\ cache \in [Reads -> Nat] /\ places \in Nat /\ others \in 0..MaxWorks /\ heldBy \in [Reads -> SUBSET Callers]
    /\ {readerTid, humanHas, within, skipped} \subseteq BOOLEAN /\ stopped \cup pictured \subseteq Reads

\* _read: a read that is said to be complete returns the page that it asked for itself,
\* and if it loaded a document for that, without images unless it chose them - a page
\* within the document of an earlier read comes with the images of that one; only its
\* caller is ever given that text, and no caller keeps more than MaxKept results.
ReadIsOwn ==
    /\ \A r \in Reads : Is(r, "done") =>
          /\ read[r].complete => read[r].text = r
          /\ read[r].complete /\ read[r].doc = r /\ read[r].pictured => read[r].images
          /\ heldBy[r] \subseteq {read[r].caller}
    /\ \A caller \in Callers : Cardinality(Owned(caller)) <= MaxKept

\* docs/CONTRACT.md:84: at a timeout the text so far is returned with complete=false -
\* of the page that was asked for, and not of the page of another read.
ReadsWhatWasAsked == \A r \in Reads : Is(r, "done") => read[r].text \in {0, r}
=============================================================================
