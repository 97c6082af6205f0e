------------------------------ MODULE PageLoad ------------------------------
(***************************************************************************)
(* One navigation of one tab: navigation_job.py and the navigation_begin,  *)
(* _poll and _cancel of drission.py.  The page command is sent by a thread *)
(* that waits for its reply; the worker probes the page with one command   *)
(* after another, and the page goes on between them as it likes.           *)
(*                                                                         *)
(* A document is known by its loader id, numbered in the order of loading; *)
(* the command's own document has the number that `asked' tells.  Of the   *)
(* tab's history only one thing is told apart: whether its current entry   *)
(* is the one that a back or forward is to reach ("wanted").               *)
(***************************************************************************)
EXTENDS Integers, FiniteSets

CONSTANTS
    Loaders,  \* bound: documents that the tab may load
    NoLoader

ASSUME PageLoadConstants == Loaders \subseteq Nat \ {0} /\ 1 \in Loaders /\ NoLoader = 0

VARIABLES
    tab,      \* the document in the tab, and how far it has loaded
    loaded,   \* loader ids given out
    cached,   \* complete documents that the browser can bring back
    asked,    \* the document of the page command, once the browser has it
    job,      \* state.navigation_job
    thread,   \* the dispatching thread: what it has heard
    probe,    \* the poll under way: its next command and what it has learnt
    report,   \* how the navigation ended, of which document, and what the tab then showed
    strayed   \* the tab went to another document or entry since the probe began

loadVars == <<tab, loaded, cached, asked, job, thread, probe, report, strayed>>

Operations == {"goto", "fragment", "history", "reload"}
Entries == {"wanted", "other"}
NoJob == [operation |-> "none", before |-> NoLoader, phase |-> "none"]
Nothing == [doc |-> NoLoader, entry |-> "other", state |-> "loading"]
Idle == [at |-> "none", frame |-> NoLoader, world |-> NoLoader, found |-> Nothing]
Unreported == [end |-> "none", of |-> NoJob, frame |-> NoLoader, titled |-> NoLoader, found |-> Nothing]
-----------------------------------------------------------------------------
Init_PageLoad ==
    /\ tab = [doc |-> 1, entry |-> "other", state |-> "complete"] /\ loaded = {1} /\ cached = {}
    /\ asked = NoLoader /\ job = NoJob /\ thread = "none" /\ probe = Idle /\ report = Unreported
    /\ strayed = FALSE
-----------------------------------------------------------------------------
\* The browser and the page

Next_Loader == {n \in Loaders : n \notin loaded /\ \A m \in Loaders \ loaded : n <= m}
Browser == <<job, probe, report>>

Leaves == IF tab.state = "complete" THEN cached \cup {[tab EXCEPT !.state = "complete"]} ELSE cached
Goes(n, entry) ==
    /\ tab' = [doc |-> n, entry |-> entry, state |-> "loading"]
    /\ loaded' = loaded \cup {n} /\ cached' = Leaves
Turns(entry) == tab' = [tab EXCEPT !.entry = entry] /\ UNCHANGED <<loaded, cached>>
Strays == strayed' = (strayed \/ probe # Idle)

\* The document gets further; or the page loads another, comes to another entry within
\* its document, or one that was left comes back as it was.
Progresses ==
    /\ tab' \in {[tab EXCEPT !.state = s] :
                   s \in IF tab.state = "loading" THEN {"interactive", "complete"}
                         ELSE {"complete"}}
    /\ tab' # tab /\ UNCHANGED <<loaded, cached, asked, thread, strayed, Browser>>
Redirects ==
    /\ \E n \in Next_Loader, entry \in Entries : Goes(n, entry)
    /\ Strays /\ UNCHANGED <<asked, thread, Browser>>
TurnsWithin ==
    /\ \E entry \in Entries \ {tab.entry} : Turns(entry)
    /\ Strays /\ UNCHANGED <<asked, thread, Browser>>
Restores ==
    /\ \E old \in cached : tab' = old /\ cached' = Leaves \ {old}
    /\ Strays /\ UNCHANGED <<loaded, asked, thread, Browser>>

\* The browser carries the page command out; only to a goto of another document does
\* the reply name it, so that the document is known by then.
Executes ==
    /\ thread \in {"sent", "ack"} /\ asked = NoLoader /\ job.operation # "none"
    /\ \/ /\ job.operation \in {"fragment", "history"} /\ asked' = tab.doc
          /\ Turns(IF job.operation = "history" THEN "wanted" ELSE "other")
       \/ /\ job.operation # "fragment"
          /\ \E n \in Next_Loader :
                /\ asked' = n
                /\ Goes(n, CASE job.operation = "history" -> "wanted"
                             [] job.operation = "reload" -> tab.entry
                             [] OTHER -> "other")
    /\ Strays /\ UNCHANGED <<thread, Browser>>

\* It is answered, late or not at all; or it is an error or a download.
Answers ==
    /\ thread = "sent"
    /\ thread' \in {"ack", "lost", "refused"}
    /\ thread' = "ack" /\ job.operation = "goto" => asked # NoLoader
    /\ UNCHANGED <<tab, loaded, cached, asked, strayed, Browser>>
-----------------------------------------------------------------------------
\* navigation_begin

\* Nothing to go back to: an answer without a job.  Otherwise all that was known of
\* the page is dropped, and the thread sends the one command of this navigation.
Begin(operation) ==
    /\ job = NoJob /\ thread = "none" /\ report = Unreported
    /\ job' = [operation |-> operation, before |-> tab.doc, phase |-> "command_response"]
    /\ thread' = "sent"
    /\ UNCHANGED <<tab, loaded, cached, asked, probe, report, strayed>>

\* The job ends: nothing is sent again, whatever the thread hears afterwards.
Ends(end) ==
    /\ report' = [end |-> end, of |-> job, frame |-> probe.frame, titled |-> probe.world, found |-> probe.found]
    /\ job' = NoJob /\ probe' = Idle /\ UNCHANGED strayed
JobFails == Ends("failed")

CancelJob ==
    /\ job # NoJob /\ probe = Idle /\ Ends("cancelled")
    /\ UNCHANGED <<tab, loaded, cached, asked, thread>>

\* The deadline passes, in whatever phase: it is looked at before a probe and at its end.
DeadlineOver ==
    /\ job # NoJob /\ (probe = Idle \/ probe.at = "history") /\ JobFails
    /\ UNCHANGED <<tab, loaded, cached, asked, thread>>
-----------------------------------------------------------------------------
\* navigation_poll

LoadedPage == <<tab, loaded, cached, asked, thread>>
At(at) == probe.at = at /\ job # NoJob /\ UNCHANGED LoadedPage

\* A failure of the thread ends the job; before its reply there is nothing to see.
PollStarts ==
    /\ job # NoJob /\ probe = Idle /\ thread = "ack" /\ probe' = [Idle EXCEPT !.at = "frame"]
    /\ job' = [job EXCEPT !.phase = "document_transition"] /\ strayed' = FALSE
    /\ UNCHANGED <<LoadedPage, report>>
PollFails ==
    /\ job # NoJob /\ probe = Idle /\ thread \in {"lost", "refused"} /\ JobFails
    /\ UNCHANGED LoadedPage

\* A probe that is not answered in 0.2 seconds, or whose context is gone, proves
\* nothing; the next one begins anew.
NotYet == probe' = Idle /\ UNCHANGED <<job, report, strayed>>
ProbeLost == At(probe.at) /\ probe # Idle /\ NotYet
Sees(at) == probe' = [probe EXCEPT !.at = at] /\ UNCHANGED <<job, report, strayed>>

\* The frame tree: is it the document that was asked for?  A fragment has shown itself
\* by an event, which another thread counts, or by another document.
Matches ==
    CASE job.operation = "goto" -> tab.doc = asked
      [] job.operation = "reload" -> tab.doc # job.before
      [] OTHER -> TRUE
SeeFrame ==
    /\ At("frame") /\ Matches /\ UNCHANGED <<job, report, strayed>>
    /\ probe' = [probe EXCEPT !.frame = tab.doc, !.at = IF job.operation = "history" THEN "entry" ELSE "world"]
SeeOther == At("frame") /\ (~Matches \/ job.operation = "fragment") /\ NotYet
ErrorPage == At("frame") /\ JobFails

\* The history, by a command of its own: by now the page may be another.
SeeEntry == At("entry") /\ tab.entry = "wanted" /\ Sees("world")
SeeOtherEntry == At("entry") /\ tab.entry # "wanted" /\ NotYet

\* The state of whatever document the isolated world was made in, and is gone with.
InWorld == tab.doc = probe.world
MakeWorld ==
    /\ At("world") /\ job' = [job EXCEPT !.phase = "loading"] /\ UNCHANGED <<report, strayed>>
    /\ probe' = [probe EXCEPT !.at = "ready", !.world = tab.doc]
SeeReady ==
    /\ At("ready") /\ InWorld /\ tab.state = "complete" /\ probe' = [probe EXCEPT !.at = "final"]
    /\ job' = [job EXCEPT !.phase = "final_verification"] /\ UNCHANGED <<report, strayed>>
SeeLoading == At("ready") /\ InWorld /\ tab.state # "complete" /\ NotYet

\* The tree is read again: a document that took its place inherits nothing.
StillThere_Assumed == TRUE
StillThere == tab.doc = probe.frame
SeeFinal ==
    /\ At("final") /\ StillThere /\ UNCHANGED <<job, report, strayed>>
    /\ probe' = [probe EXCEPT !.at = "title", !.found = tab]
SeeReplaced == At("final") /\ ~StillThere /\ NotYet

\* Title and history are of whatever is there by then, and nothing is compared again.
SeeTitle == At("title") /\ InWorld /\ Sees("history")
SeeHistory == At("history") /\ Ends("loaded")
-----------------------------------------------------------------------------
Next_PageLoad ==
    \/ Progresses \/ Redirects \/ TurnsWithin \/ Restores \/ Executes \/ Answers
    \/ \E operation \in Operations : Begin(operation)
    \/ CancelJob \/ DeadlineOver \/ PollStarts \/ PollFails \/ ProbeLost
    \/ SeeFrame \/ SeeOther \/ ErrorPage \/ SeeEntry \/ SeeOtherEntry \/ MakeWorld \/ SeeReady \/ SeeLoading
    \/ SeeFinal \/ SeeReplaced \/ SeeTitle \/ SeeHistory

Spec_PageLoad == Init_PageLoad /\ [][Next_PageLoad]_loadVars
-----------------------------------------------------------------------------
PageLoadTypeOK ==
    /\ tab \in [doc : Loaders, entry : Entries, state : {"loading", "interactive", "complete"}]
    /\ loaded \subseteq Loaders /\ asked \in loaded \cup {NoLoader}
    /\ \A old \in cached : old.doc \in loaded /\ old.state = "complete"
    /\ job.operation \in Operations \cup {"none"} /\ job.before \in loaded \cup {NoLoader}
    /\ thread \in {"none", "sent", "ack", "lost", "refused"}
    /\ report.end \in {"none", "loaded", "failed", "cancelled"} /\ strayed \in BOOLEAN

\* A navigation is reported complete of a document that was in the tab and had loaded
\* completely when the tree was read last, however often the page replaced itself between
\* the commands of the probe: of a goto that of the command's reply, of a reload another
\* than before.  That a back or forward reached its entry, and that the title is of that
\* document, is sure only if the page stayed where it was since the probe began.
LoadedAsAsked ==
    report.end = "loaded" =>
        /\ report.found.doc = report.frame /\ report.found.state = "complete"
        /\ report.of.operation = "goto" => report.frame = asked
        /\ report.of.operation = "reload" => report.frame # report.of.before
        /\ ~strayed =>
              /\ report.titled = report.frame
              /\ report.of.operation = "history" => report.found.entry = "wanted"
=============================================================================
