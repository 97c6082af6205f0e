---------------------------- MODULE BrowserProofs ----------------------------
(***************************************************************************)
(* Proofs about the browser adapter: the load of one page (PageLoad), the  *)
(* observation with its picture (Capture), one action in a tab (Acts), and *)
(* the downloads of a work with their artifacts (Downloads).  Each has an  *)
(* inductive invariant of its own; the four share no state.                *)
(***************************************************************************)
EXTENDS PageLoad, Capture, Acts, Downloads, SequenceTheorems, FiniteSetTheorems, TLAPS

-----------------------------------------------------------------------------
\* A document in the tab, or one that the browser can bring back.
Pages == [doc : Loaders, entry : Entries, state : {"loading", "interactive", "complete"}]
Present == {tab} \cup cached

\* Every document was loaded, and what was left can only come back complete.
DocumentsOK ==
    /\ tab \in Pages /\ cached \subseteq Pages
    /\ \A p \in Present : p.doc \in loaded

\* The one page command belongs to the one job; that of a goto has its document before the
\* thread hears of it.
CommandOK ==
    /\ job \in [operation : Operations \cup {"none"}, before : loaded \cup {NoLoader},
                phase : {"none", "command_response", "document_transition", "loading", "final_verification"}]
    /\ job.operation = "none" => job = NoJob
    /\ thread = "none" => job = NoJob /\ report = Unreported
    /\ job # NoJob => report = Unreported
    /\ report.end = "none" <=> report = Unreported
    /\ thread = "ack" /\ job.operation = "goto" => asked # NoLoader

\* How far a probe is: it knows the frame, the entry, the world, the frame once more.
KnowsFrame == {"entry", "world", "ready", "final", "title", "history"}
KnowsEntry == KnowsFrame \ {"entry"}
KnowsWorld == KnowsEntry \ {"world"}
KnowsFound == {"title", "history"}

\* What a probe has learnt is so for as long as its document is in the tab: a document that
\* was seen complete stays so.  And what it learnt of several commands is of one document
\* and entry if the tab never went to another.
ProbeOK ==
    /\ probe \in [at : {"none", "frame"} \cup KnowsFrame, frame : loaded \cup {NoLoader},
                  world : loaded \cup {NoLoader}, found : Pages \cup {Nothing}]
    /\ strayed \in BOOLEAN
    /\ probe.at = "none" => probe = Idle
    /\ probe.at # "none" => thread = "ack" /\ job # NoJob
    /\ probe.at \in KnowsFrame =>
         /\ job.operation = "goto" => probe.frame = asked
         /\ job.operation = "reload" => probe.frame # job.before
         /\ ~strayed => tab.doc = probe.frame
    /\ probe.at \in KnowsEntry /\ job.operation = "history" /\ ~strayed => tab.entry = "wanted"
    /\ probe.at \in KnowsWorld /\ ~strayed => tab.doc = probe.world
    /\ probe.at = "final" /\ tab.doc = probe.frame => tab.state = "complete"
    /\ probe.at \in KnowsFound =>
         /\ probe.found.doc = probe.frame /\ probe.found.state = "complete"
         /\ job.operation = "history" /\ ~strayed => probe.found.entry = "wanted"

LoadInv == PageLoadTypeOK /\ DocumentsOK /\ CommandOK /\ ProbeOK /\ LoadedAsAsked

\* At first there is one document, and nothing was asked for.
LEMMA LoadStarts == Init_PageLoad => LoadInv
<1> SUFFICES ASSUME Init_PageLoad PROVE LoadInv
  OBVIOUS
<1>1. DocumentsOK
  BY PageLoadConstants DEF Init_PageLoad, DocumentsOK, Pages, Present, Entries
<1>2. PageLoadTypeOK
  BY PageLoadConstants DEF Init_PageLoad, PageLoadTypeOK, NoJob, Unreported, Entries
<1>3. CommandOK
  BY PageLoadConstants DEF Init_PageLoad, CommandOK, NoJob, Unreported
<1>4. ProbeOK
  BY PageLoadConstants DEF Init_PageLoad, ProbeOK, Idle, KnowsFrame, KnowsEntry, KnowsWorld, KnowsFound
<1>5. LoadedAsAsked
  BY DEF Init_PageLoad, LoadedAsAsked, Unreported
<1> QED
  BY <1>1, <1>2, <1>3, <1>4, <1>5 DEF LoadInv

\* What the browser may do to the documents: none is forgotten, and one that is in the tab
\* anew, or further, is complete.
DocumentsKeep ==
    /\ DocumentsOK' /\ loaded \subseteq loaded' /\ loaded' \subseteq Loaders
    /\ \A old \in cached' : old.doc \in loaded' /\ old.state = "complete"
    /\ tab'.doc \in loaded => tab'.state = "complete" \/ (tab'.doc = tab.doc /\ (tab.state = "complete" => tab'.state = "complete"))

\* Whether the tab went elsewhere is kept while a probe is under way.
Tracked ==
    \/ Strays
    \/ strayed' = strayed /\ tab'.doc = tab.doc /\ tab'.entry = tab.entry

\* A document that is left is remembered if it is complete, and as it is.
LEMMA LeavesFacts ==
    ASSUME DocumentsOK PROVE Leaves \subseteq Present /\ \A p \in Leaves : p \in cached \/ p.state = "complete"
<1>1. tab.state = "complete" => [tab EXCEPT !.state = "complete"] = tab
  BY DEF DocumentsOK, Pages
<1> QED
  BY <1>1 DEF Leaves, Present

\* Another document, with a number of its own, takes the place of the one in the tab.
LEMMA GoesFacts ==
    ASSUME LoadInv, NEW n \in Next_Loader, NEW entry \in Entries, Goes(n, entry)
    PROVE  DocumentsKeep /\ n \in loaded'
<1>1. /\ n \in Loaders \ loaded /\ tab' = [doc |-> n, entry |-> entry, state |-> "loading"]
      /\ loaded' = loaded \cup {n} /\ cached' = Leaves
  BY DEF Goes, Next_Loader
<1>2. Leaves \subseteq Present /\ \A p \in Leaves : p \in cached \/ p.state = "complete"
  BY LeavesFacts DEF LoadInv
<1>3. Present \subseteq Pages /\ \A p \in Present : p.doc \in loaded
  BY DEF LoadInv, DocumentsOK, Present
<1>4. tab' \in Pages /\ tab'.doc = n
  BY <1>1 DEF Pages
<1>5. DocumentsOK'
  BY <1>1, <1>2, <1>3, <1>4 DEF DocumentsOK, Present
<1>6. \A old \in cached' : old.doc \in loaded' /\ old.state = "complete"
  BY <1>1, <1>2, <1>3 DEF LoadInv, PageLoadTypeOK
<1>7. loaded \subseteq loaded' /\ loaded' \subseteq Loaders
  BY <1>1 DEF LoadInv, PageLoadTypeOK
<1> QED
  BY <1>1, <1>4, <1>5, <1>6, <1>7 DEF DocumentsKeep

\* The tab comes to another entry of its history with the same document.
LEMMA TurnsFacts == ASSUME LoadInv, NEW entry \in Entries, Turns(entry) PROVE DocumentsKeep
<1>1. /\ tab' = [tab EXCEPT !.entry = entry] /\ UNCHANGED <<loaded, cached>>
  BY DEF Turns
<1>2. tab' \in Pages /\ tab'.doc = tab.doc /\ tab'.state = tab.state
  BY <1>1 DEF LoadInv, DocumentsOK, Pages
<1>3. DocumentsOK'
  BY <1>1, <1>2 DEF LoadInv, DocumentsOK, Present
<1> QED
  BY <1>1, <1>2, <1>3 DEF LoadInv, PageLoadTypeOK, DocumentsKeep

\* The document gets further, or one that was left comes back.
LEMMA TabFacts == ASSUME LoadInv, Progresses \/ Restores PROVE DocumentsKeep /\ Tracked
<1>1. CASE Progresses
  <2>1. PICK s \in IF tab.state = "loading" THEN {"interactive", "complete"} ELSE {"complete"} :
          tab' = [tab EXCEPT !.state = s]
    BY <1>1 DEF Progresses
  <2>2. UNCHANGED <<loaded, cached, strayed>>
    BY <1>1 DEF Progresses
  <2>3. s \in {"interactive", "complete"} /\ (s = "complete" \/ tab.state = "loading")
    BY <2>1
  <2>4. /\ tab' \in Pages /\ tab'.doc = tab.doc /\ tab'.entry = tab.entry /\ tab'.state = s
    BY <2>1, <2>3 DEF LoadInv, DocumentsOK, Pages
  <2>5. DocumentsOK'
    BY <2>2, <2>4 DEF LoadInv, DocumentsOK, Present
  <2> QED
    BY <2>2, <2>3, <2>4, <2>5 DEF LoadInv, PageLoadTypeOK, DocumentsKeep, Tracked
<1>2. CASE Restores
  <2>1. PICK old \in cached : tab' = old /\ cached' = Leaves \ {old} /\ loaded' = loaded /\ Strays
    BY <1>2 DEF Restores
  <2>2. Leaves \subseteq Present /\ \A p \in Leaves : p \in cached \/ p.state = "complete"
    BY LeavesFacts DEF LoadInv
  <2>3. Present' \subseteq Present
    BY <2>1, <2>2 DEF Present
  <2>4. DocumentsOK'
    BY <2>1, <2>3 DEF LoadInv, DocumentsOK, Present
  <2>5. \A p \in cached' : p.doc \in loaded' /\ p.state = "complete"
    BY <2>1, <2>2 DEF LoadInv, PageLoadTypeOK, DocumentsOK, Present
  <2>6. tab'.state = "complete"
    BY <2>1 DEF LoadInv, PageLoadTypeOK
  <2> QED
    BY <2>1, <2>4, <2>5, <2>6 DEF LoadInv, PageLoadTypeOK, DocumentsKeep, Tracked
<1> QED
  BY <1>1, <1>2

\* Whatever the browser puts into the tab, the probe has learnt nothing false; only before
\* the probe of a goto the command itself is carried out.
LEMMA ActTabKeeps ==
    ASSUME LoadInv, DocumentsKeep, Tracked, UNCHANGED <<thread, Browser>>,
           \/ asked' = asked
           \/ asked = NoLoader /\ job # NoJob /\ asked' \in loaded' /\ asked' # NoLoader
    PROVE  LoadInv'
<1>0. UNCHANGED <<thread, job, probe, report>>
  BY DEF Browser
<1>1. PageLoadTypeOK'
  BY <1>0 DEF LoadInv, PageLoadTypeOK, DocumentsOK, Pages, DocumentsKeep, Tracked, Strays
<1>2. CommandOK'
  BY <1>0 DEF LoadInv, CommandOK, DocumentsKeep
<1>3. ProbeOK'
  <2>1. /\ probe \in [at : {"none", "frame"} \cup KnowsFrame, frame : loaded' \cup {NoLoader},
                      world : loaded' \cup {NoLoader}, found : Pages \cup {Nothing}]
        /\ strayed' \in BOOLEAN
    BY DEF LoadInv, ProbeOK, DocumentsKeep, Tracked, Strays
  <2>2. ASSUME probe.at \in KnowsFrame, ~strayed'
        PROVE  ~strayed /\ tab'.doc = tab.doc /\ tab'.entry = tab.entry
    <3>1. probe.at # "none" /\ Idle.at = "none"
      BY <2>2 DEF KnowsFrame, Idle
    <3>2. probe # Idle
      BY <3>1
    <3>3. ~Strays
      BY <2>2, <3>2 DEF Strays
    <3>4. strayed' = strayed /\ tab'.doc = tab.doc /\ tab'.entry = tab.entry
      BY <3>3 DEF Tracked
    <3> QED
      BY <2>2, <3>4
  <2>3. ASSUME probe.at = "final", tab'.doc = probe.frame PROVE tab'.state = "complete"
    <3>1. CASE tab'.doc \in loaded
      BY <2>3, <3>1 DEF LoadInv, ProbeOK, DocumentsKeep
    <3>2. CASE probe.frame = NoLoader
      BY <2>3, <3>2, PageLoadConstants DEF DocumentsKeep, DocumentsOK, Pages
    <3> QED
      BY <2>3, <3>1, <3>2 DEF LoadInv, ProbeOK
  <2>4. ASSUME probe.at \in KnowsFrame
        PROVE  /\ job.operation = "goto" => probe.frame = asked'
               /\ job.operation = "reload" => probe.frame # job.before
               /\ ~strayed' => tab'.doc = probe.frame
    <3>1. probe.at # "none"
      BY <2>4 DEF KnowsFrame
    <3>2. job.operation = "goto" => asked' = asked
      BY <3>1 DEF LoadInv, ProbeOK, CommandOK
    <3> QED
      BY <2>2, <2>4, <3>2 DEF LoadInv, ProbeOK
  <2>5. ASSUME probe.at \in KnowsEntry, job.operation = "history", ~strayed' PROVE tab'.entry = "wanted"
    BY <2>2, <2>5 DEF LoadInv, ProbeOK, KnowsEntry
  <2>6. ASSUME probe.at \in KnowsWorld, ~strayed' PROVE tab'.doc = probe.world
    BY <2>2, <2>6 DEF LoadInv, ProbeOK, KnowsEntry, KnowsWorld
  <2>7. ASSUME probe.at \in KnowsFound
        PROVE  /\ probe.found.doc = probe.frame /\ probe.found.state = "complete"
               /\ job.operation = "history" /\ ~strayed' => probe.found.entry = "wanted"
    <3>1. probe.at \in KnowsFrame
      BY <2>7 DEF KnowsFound, KnowsFrame
    <3> QED
      BY <2>2, <2>7, <3>1 DEF LoadInv, ProbeOK
  <2>8. (probe.at = "none" => probe = Idle) /\ (probe.at # "none" => thread = "ack" /\ job # NoJob)
    BY DEF LoadInv, ProbeOK
  <2> QED
    BY <1>0, <2>1, <2>3, <2>4, <2>5, <2>6, <2>7, <2>8 DEF ProbeOK
<1>4. LoadedAsAsked'
  <2>1. CASE job # NoJob
    BY <1>0, <2>1 DEF LoadInv, CommandOK, LoadedAsAsked, Unreported
  <2>2. CASE job = NoJob
    <3>1. asked' = asked /\ (~strayed' => ~strayed)
      BY <2>2 DEF LoadInv, ProbeOK, Tracked, Strays
    <3> QED
      BY <1>0, <3>1 DEF LoadInv, LoadedAsAsked
  <2> QED
    BY <2>1, <2>2
<1> QED
  BY <1>1, <1>2, <1>3, <1>4 DEF LoadInv, DocumentsKeep

\* The browser carries the page command out.
LEMMA CommandKeeps == ASSUME LoadInv, Executes PROVE LoadInv'
<1>1. /\ asked = NoLoader /\ job.operation # "none" /\ Strays /\ UNCHANGED <<thread, Browser>>
  BY DEF Executes
<1>2. tab.doc \in loaded /\ tab.entry \in Entries /\ loaded \subseteq Nat \ {0}
  BY PageLoadConstants DEF LoadInv, PageLoadTypeOK, DocumentsOK, Present, Pages
<1>3. DocumentsKeep /\ asked' \in loaded'
  <2>1. ASSUME NEW entry \in Entries, Turns(entry), asked' = tab.doc PROVE DocumentsKeep /\ asked' \in loaded'
    <3>1. loaded' = loaded
      BY <2>1 DEF Turns
    <3> QED
      BY <1>2, <2>1, <3>1, TurnsFacts
  <2>2. ASSUME NEW n \in Next_Loader, NEW entry \in Entries, Goes(n, entry), asked' = n
        PROVE  DocumentsKeep /\ asked' \in loaded'
    BY <2>2, GoesFacts
  <2>3. (IF job.operation = "history" THEN "wanted" ELSE "other") \in Entries
        /\ (CASE job.operation = "history" -> "wanted"
              [] job.operation = "reload" -> tab.entry [] OTHER -> "other") \in Entries
    BY <1>2 DEF Entries
  <2> QED
    BY <2>1, <2>2, <2>3 DEF Executes
<1>4. asked' # NoLoader
  BY <1>3, PageLoadConstants DEF DocumentsKeep
<1>5. job # NoJob
  BY <1>1 DEF NoJob
<1> QED
  BY <1>1, <1>3, <1>4, <1>5, ActTabKeeps DEF Tracked

\* The job ends: what it reports of a complete load is what the probe has seen.
LEMMA JobEnds ==
    ASSUME LoadInv, NEW end \in {"loaded", "failed", "cancelled"},
           job # NoJob, Ends(end), UNCHANGED LoadedPage, end = "loaded" => probe.at = "history"
    PROVE  LoadInv'
<1>1. /\ report' = [end |-> end, of |-> job, frame |-> probe.frame, titled |-> probe.world, found |-> probe.found]
      /\ job' = NoJob /\ probe' = Idle /\ UNCHANGED <<tab, loaded, cached, asked, thread, strayed>>
  BY DEF Ends, LoadedPage
<1>2. thread # "none"
  BY DEF LoadInv, CommandOK
<1>3. /\ report'.end = end /\ report'.of = job /\ report'.frame = probe.frame
      /\ report'.titled = probe.world /\ report'.found = probe.found
  BY <1>1
<1>4. PageLoadTypeOK'
  BY <1>1, <1>3 DEF LoadInv, PageLoadTypeOK, NoJob
<1>5. DocumentsOK'
  BY <1>1 DEF LoadInv, DocumentsOK, Present
<1>6. ProbeOK'
  BY <1>1 DEF LoadInv, ProbeOK, Idle, KnowsFrame, KnowsEntry, KnowsWorld, KnowsFound
<1>7. CommandOK'
  BY <1>1, <1>2, <1>3 DEF LoadInv, CommandOK, NoJob, Unreported
<1>8. LoadedAsAsked'
  <2> SUFFICES ASSUME end = "loaded"
               PROVE  /\ probe.found.doc = probe.frame /\ probe.found.state = "complete"
                      /\ job.operation = "goto" => probe.frame = asked
                      /\ job.operation = "reload" => probe.frame # job.before
                      /\ ~strayed => /\ probe.world = probe.frame
                                     /\ job.operation = "history" => probe.found.entry = "wanted"
    BY <1>1, <1>3 DEF LoadedAsAsked
  <2>1. probe.at \in KnowsFrame /\ probe.at \in KnowsWorld /\ probe.at \in KnowsFound
    BY DEF KnowsFrame, KnowsEntry, KnowsWorld, KnowsFound
  <2> QED
    BY <2>1 DEF LoadInv, ProbeOK
<1> QED
  BY <1>4, <1>5, <1>6, <1>7, <1>8 DEF LoadInv

\* The thread hears of its command, or a navigation begins.
LEMMA JobBegins == ASSUME LoadInv, Answers \/ \E operation \in Operations : Begin(operation) PROVE LoadInv'
<1>1. UNCHANGED <<tab, loaded, cached, asked, probe, report, strayed>>
  BY DEF Answers, Begin, Browser
<1>2. DocumentsOK' /\ LoadedAsAsked'
  BY <1>1 DEF LoadInv, DocumentsOK, LoadedAsAsked, Present
<1>3. CASE Answers
  <2>1. /\ thread = "sent" /\ thread' \in {"ack", "lost", "refused"} /\ job' = job
        /\ thread' = "ack" /\ job.operation = "goto" => asked # NoLoader
    BY <1>3 DEF Answers, Browser
  <2>2. probe.at = "none"
    BY <2>1 DEF LoadInv, ProbeOK
  <2>3. PageLoadTypeOK' /\ CommandOK'
    BY <1>1, <2>1 DEF LoadInv, PageLoadTypeOK, CommandOK
  <2>4. ProbeOK'
    BY <1>1, <2>1, <2>2 DEF LoadInv, ProbeOK
  <2> QED
    BY <1>2, <2>3, <2>4 DEF LoadInv
<1>4. ASSUME NEW operation \in Operations, Begin(operation) PROVE LoadInv'
  <2>1. /\ job = NoJob /\ report = Unreported /\ thread' = "sent"
        /\ job' = [operation |-> operation, before |-> tab.doc, phase |-> "command_response"]
    BY <1>4 DEF Begin
  <2>2. tab.doc \in loaded /\ operation # "none" /\ operation \in Operations
    BY DEF LoadInv, DocumentsOK, Present, Operations
  <2>3. job'.operation = operation /\ job'.before = tab.doc
    BY <2>1
  <2>4. probe = Idle /\ probe.at = "none"
    BY <2>1 DEF LoadInv, ProbeOK
  <2>5. PageLoadTypeOK' /\ CommandOK'
    BY <1>1, <2>1, <2>2, <2>3 DEF LoadInv, PageLoadTypeOK, CommandOK, NoJob
  <2>6. ProbeOK'
    BY <1>1, <2>4 DEF LoadInv, ProbeOK, KnowsFrame, KnowsEntry, KnowsWorld, KnowsFound
  <2> QED
    BY <1>2, <2>5, <2>6 DEF LoadInv
<1> QED
  BY <1>3, <1>4

\* The stages of a probe that only look and remember.
ProbeLooks ==
    \/ SeeFrame \/ SeeEntry \/ MakeWorld \/ SeeReady \/ SeeFinal \/ SeeTitle

\* What a probe learns of the tab is so at that moment.
LEMMA ProbeLooksKeep == ASSUME LoadInv, ProbeLooks PROVE ProbeOK'
<1>1. /\ UNCHANGED <<tab, loaded, cached, asked, thread, report, strayed>> /\ job # NoJob
      /\ probe.at # "none" /\ thread = "ack"
  BY DEF ProbeLooks, SeeFrame, SeeEntry, MakeWorld, SeeReady, SeeFinal, SeeTitle, Sees, At, LoadedPage, LoadInv, ProbeOK
<1>2. job' \in {job} \cup {[job EXCEPT !.phase = p] : p \in {"loading", "final_verification"}}
  BY DEF ProbeLooks, SeeFrame, SeeEntry, MakeWorld, SeeReady, SeeFinal, SeeTitle, Sees
<1>3. job'.operation = job.operation /\ job'.before = job.before /\ job' # NoJob
  BY <1>1, <1>2 DEF LoadInv, CommandOK, NoJob
<1>4. tab \in Pages /\ tab.doc \in loaded
  BY DEF LoadInv, DocumentsOK, Present
<1>5. probe \in [at : {"none", "frame"} \cup KnowsFrame, frame : loaded \cup {NoLoader},
                 world : loaded \cup {NoLoader}, found : Pages \cup {Nothing}]
      /\ strayed \in BOOLEAN
  BY DEF LoadInv, ProbeOK
<1>6. CASE SeeFrame
  <2>1. probe.at = "frame" /\ Matches
        /\ probe' = [probe EXCEPT !.frame = tab.doc, !.at = IF job.operation = "history" THEN "entry" ELSE "world"]
    BY <1>6 DEF SeeFrame, At
  <2>2. PICK at \in {"entry", "world"} : /\ probe' = [probe EXCEPT !.frame = tab.doc, !.at = at]
                                         /\ job.operation = "history" => at = "entry"
    BY <2>1
  <2>3. /\ probe' \in [at : {"none", "frame"} \cup KnowsFrame, frame : loaded \cup {NoLoader},
                      world : loaded \cup {NoLoader}, found : Pages \cup {Nothing}]
        /\ probe'.at = at /\ probe'.frame = tab.doc
    BY <1>4, <1>5, <2>2 DEF KnowsFrame
  <2>4. /\ job.operation = "goto" => tab.doc = asked
        /\ job.operation = "reload" => tab.doc # job.before
    BY <2>1 DEF Matches
  <2> QED
    BY <1>1, <1>3, <1>5, <2>2, <2>3, <2>4 DEF ProbeOK, KnowsFrame, KnowsEntry, KnowsWorld, KnowsFound
<1>7. CASE SeeEntry
  <2>1. probe.at = "entry" /\ tab.entry = "wanted" /\ probe' = [probe EXCEPT !.at = "world"]
    BY <1>7 DEF SeeEntry, At, Sees
  <2>2. /\ probe' \in [at : {"none", "frame"} \cup KnowsFrame, frame : loaded \cup {NoLoader},
                      world : loaded \cup {NoLoader}, found : Pages \cup {Nothing}]
        /\ probe'.at = "world" /\ probe'.frame = probe.frame
    BY <1>5, <2>1 DEF KnowsFrame
  <2> QED
    BY <1>1, <1>3, <2>1, <2>2 DEF LoadInv, ProbeOK, KnowsFrame, KnowsEntry, KnowsWorld, KnowsFound
<1>8. CASE MakeWorld
  <2>1. probe.at = "world" /\ probe' = [probe EXCEPT !.at = "ready", !.world = tab.doc]
    BY <1>8 DEF MakeWorld, At
  <2>2. /\ probe' \in [at : {"none", "frame"} \cup KnowsFrame, frame : loaded \cup {NoLoader},
                      world : loaded \cup {NoLoader}, found : Pages \cup {Nothing}]
        /\ probe'.at = "ready" /\ probe'.frame = probe.frame /\ probe'.world = tab.doc
    BY <1>4, <1>5, <2>1 DEF KnowsFrame
  <2> QED
    BY <1>1, <1>3, <2>1, <2>2 DEF LoadInv, ProbeOK, KnowsFrame, KnowsEntry, KnowsWorld, KnowsFound
<1>9. CASE SeeReady
  <2>1. probe.at = "ready" /\ tab.state = "complete" /\ probe' = [probe EXCEPT !.at = "final"]
    BY <1>9 DEF SeeReady, At
  <2>2. /\ probe' \in [at : {"none", "frame"} \cup KnowsFrame, frame : loaded \cup {NoLoader},
                      world : loaded \cup {NoLoader}, found : Pages \cup {Nothing}]
        /\ probe'.at = "final" /\ probe'.frame = probe.frame /\ probe'.world = probe.world
    BY <1>5, <2>1 DEF KnowsFrame
  <2> QED
    BY <1>1, <1>3, <2>1, <2>2 DEF LoadInv, ProbeOK, KnowsFrame, KnowsEntry, KnowsWorld, KnowsFound
<1>10. CASE SeeFinal
  <2>1. probe.at = "final" /\ tab.doc = probe.frame /\ probe' = [probe EXCEPT !.at = "title", !.found = tab]
    BY <1>10 DEF SeeFinal, At, StillThere
  <2>2. /\ probe' \in [at : {"none", "frame"} \cup KnowsFrame, frame : loaded \cup {NoLoader},
                      world : loaded \cup {NoLoader}, found : Pages \cup {Nothing}]
        /\ probe'.at = "title" /\ probe'.frame = probe.frame /\ probe'.world = probe.world /\ probe'.found = tab
    BY <1>4, <1>5, <2>1 DEF KnowsFrame
  <2> QED
    BY <1>1, <1>3, <2>1, <2>2 DEF LoadInv, ProbeOK, KnowsFrame, KnowsEntry, KnowsWorld, KnowsFound
<1>11. CASE SeeTitle
  <2>1. probe.at = "title" /\ probe' = [probe EXCEPT !.at = "history"]
    BY <1>11 DEF SeeTitle, At, Sees
  <2>2. /\ probe' \in [at : {"none", "frame"} \cup KnowsFrame, frame : loaded \cup {NoLoader},
                      world : loaded \cup {NoLoader}, found : Pages \cup {Nothing}]
        /\ probe'.at = "history" /\ probe'.frame = probe.frame /\ probe'.world = probe.world
        /\ probe'.found = probe.found
    BY <1>5, <2>1 DEF KnowsFrame
  <2> QED
    BY <1>1, <1>3, <2>1, <2>2 DEF LoadInv, ProbeOK, KnowsFrame, KnowsEntry, KnowsWorld, KnowsFound
<1> QED
  BY <1>6, <1>7, <1>8, <1>9, <1>10, <1>11 DEF ProbeLooks

\* A probe begins, goes one command further or is given up.
GivenUp == ProbeLost \/ SeeOther \/ SeeOtherEntry \/ SeeLoading \/ SeeReplaced
LEMMA ProbeKeeps == ASSUME LoadInv, PollStarts \/ ProbeLooks \/ GivenUp PROVE LoadInv'
<1>1. UNCHANGED <<tab, loaded, cached, asked, thread, report>> /\ job # NoJob /\ strayed' \in BOOLEAN
  <2>1. strayed \in BOOLEAN
    BY DEF LoadInv, ProbeOK
  <2> QED
    BY <2>1 DEF PollStarts, ProbeLooks, GivenUp, ProbeLost, SeeFrame, SeeOther, SeeEntry, SeeOtherEntry, MakeWorld, SeeReady,
         SeeLoading, SeeFinal, SeeReplaced, SeeTitle, Sees, At, NotYet, LoadedPage
<1>2. \/ job' = job
      \/ \E phase \in {"document_transition", "loading", "final_verification"} : job' = [job EXCEPT !.phase = phase]
  BY DEF PollStarts, ProbeLooks, GivenUp, ProbeLost, SeeFrame, SeeOther, SeeEntry, SeeOtherEntry, MakeWorld, SeeReady,
         SeeLoading, SeeFinal, SeeReplaced, SeeTitle, Sees, NotYet
<1>3. /\ job' \in [operation : Operations \cup {"none"}, before : loaded \cup {NoLoader},
                   phase : {"none", "command_response", "document_transition", "loading", "final_verification"}]
      /\ job'.operation = job.operation /\ job'.before = job.before
  BY <1>2 DEF LoadInv, CommandOK
<1>4. job.operation # "none" /\ job' # NoJob /\ report = Unreported
  BY <1>1, <1>3 DEF LoadInv, CommandOK, NoJob
<1>5. PageLoadTypeOK' /\ CommandOK'
  BY <1>1, <1>3, <1>4 DEF LoadInv, PageLoadTypeOK, CommandOK
<1>6. DocumentsOK' /\ LoadedAsAsked'
  BY <1>1, <1>4 DEF LoadInv, DocumentsOK, LoadedAsAsked, Present, Unreported
<1>7. ProbeOK'
  <2>1. CASE ProbeLooks
    BY <2>1, ProbeLooksKeep
  <2>2. CASE PollStarts
    <3>1. probe' = [Idle EXCEPT !.at = "frame"] /\ thread = "ack"
      BY <2>2 DEF PollStarts
    <3>2. probe' = [at |-> "frame", frame |-> NoLoader, world |-> NoLoader, found |-> Nothing]
      BY <3>1 DEF Idle
    <3>3. /\ probe' \in [at : {"none", "frame"} \cup KnowsFrame, frame : loaded \cup {NoLoader},
                          world : loaded \cup {NoLoader}, found : Pages \cup {Nothing}]
          /\ probe'.at = "frame"
      BY <3>2
    <3> QED
      BY <1>1, <1>4, <3>1, <3>3 DEF ProbeOK, KnowsFrame, KnowsEntry, KnowsWorld, KnowsFound
  <2>3. CASE GivenUp
    <3>1. probe' = Idle
      BY <2>3 DEF GivenUp, ProbeLost, SeeOther, SeeOtherEntry, SeeLoading, SeeReplaced, NotYet
    <3> QED
      BY <1>1, <3>1 DEF ProbeOK, Idle, KnowsFrame, KnowsEntry, KnowsWorld, KnowsFound
  <2> QED
    BY <2>1, <2>2, <2>3
<1> QED
  BY <1>5, <1>6, <1>7 DEF LoadInv

\* Every step of the browser, of the thread and of a probe keeps the invariant.
LEMMA LoadSteps == LoadInv /\ [Next_PageLoad]_loadVars => LoadInv'
<1> SUFFICES ASSUME LoadInv, [Next_PageLoad]_loadVars PROVE LoadInv'
  OBVIOUS
<1>1. CASE Progresses \/ Restores
  <2>1. UNCHANGED <<asked, thread, Browser>>
    BY <1>1 DEF Progresses, Restores
  <2> QED
    BY <1>1, <2>1, TabFacts, ActTabKeeps
<1>2. CASE Redirects \/ TurnsWithin
  <2>1. Strays /\ UNCHANGED <<asked, thread, Browser>>
    BY <1>2 DEF Redirects, TurnsWithin
  <2>2. DocumentsKeep
    BY <1>2, GoesFacts, TurnsFacts DEF Redirects, TurnsWithin
  <2> QED
    BY <2>1, <2>2, ActTabKeeps DEF Tracked
<1>3. CASE Executes
  BY <1>3, CommandKeeps
<1>4. CASE Answers \/ \E operation \in Operations : Begin(operation)
  BY <1>4, JobBegins
<1>5. CASE CancelJob \/ DeadlineOver \/ PollFails \/ ErrorPage
  <2>1. job # NoJob /\ UNCHANGED LoadedPage /\ \E end \in {"failed", "cancelled"} : Ends(end)
    BY <1>5 DEF CancelJob, DeadlineOver, PollFails, ErrorPage, JobFails, At, LoadedPage
  <2> QED
    BY <2>1, JobEnds
<1>6. CASE SeeHistory
  BY <1>6, JobEnds DEF SeeHistory, At
<1>7. CASE PollStarts \/ ProbeLooks \/ GivenUp
  BY <1>7, ProbeKeeps
<1>8. CASE UNCHANGED loadVars
  BY <1>8 DEF loadVars, LoadInv, PageLoadTypeOK, DocumentsOK, Present, CommandOK, ProbeOK, LoadedAsAsked
<1> QED
  BY <1>1, <1>2, <1>3, <1>4, <1>5, <1>6, <1>7, <1>8 DEF Next_PageLoad, ProbeLooks, GivenUp

\* The tab, its documents, the job and its probe only hold what the code puts there.
THEOREM PageLoadTypeCorrect == Spec_PageLoad => []PageLoadTypeOK
<1>1. LoadInv => PageLoadTypeOK
  BY DEF LoadInv
<1> QED
  BY <1>1, LoadStarts, LoadSteps, PTL DEF Spec_PageLoad

\* A navigation is reported complete only of a complete document that was asked for, and of
\* the wanted history entry if the page stayed where it was.
THEOREM CompleteMeansLoaded == Spec_PageLoad => []LoadedAsAsked
<1>1. LoadInv => LoadedAsAsked
  BY DEF LoadInv
<1> QED
  BY <1>1, LoadStarts, LoadSteps, PTL DEF Spec_PageLoad
-----------------------------------------------------------------------------
\* What is kept of a document, and what is on the screen of the page and of the frame.
Kept == [Documents -> [secret : BOOLEAN, epoch : Nat]]
Screens == [doc : Documents, at : Places, kept : Kept]
PageViews == [doc : Documents, at : Places, secret : BOOLEAN, epoch : Nat]
Readings == [page : PageViews, frame : PageViews, life : Nat]

\* The counters of the documents are within the steps of the page.
CountersOK ==
    /\ page \in Screens /\ frame \in Screens
    /\ policy \in {"allow", "mask", "block"} /\ wanted \in {"image", "extra"}
    /\ pageSteps \in 0..PageSteps /\ life \in Nat /\ uncounted \in Nat /\ life + uncounted <= pageSteps
    /\ \A d \in Documents : page.kept[d].epoch <= pageSteps /\ frame.kept[d].epoch <= pageSteps

\* What was read of a document is past: its counter has gone on since, or it is still so.
Past(view, kept) ==
    /\ view.epoch <= kept[view.doc].epoch
    /\ view.epoch = kept[view.doc].epoch => view.secret = kept[view.doc].secret

\* The observation: what has been read is there when it is needed, and nothing of it is newer
\* than the page.
ReadingsOK ==
    /\ step \in [at : {"text", "pixels", "after", "again"}, attempt : {1, 2}]
    /\ step.at = "again" => step.attempt = 1
    /\ step.at = "pixels" => reading = NotRead /\ framed = NotRead
    /\ answer \in {"none", "image", "text", "error"} /\ text \in Documents \cup {0}
    /\ reading = NotRead \/ \E r \in PageViews : reading = {r} /\ Past(r, page.kept)
    /\ framed = NotRead \/ (reading # NotRead /\ \E f \in PageViews : framed = {f} /\ Past(f, frame.kept))
    /\ step.at \in {"pixels", "after"} =>
         /\ seen \in Readings /\ text = seen.page.doc
         /\ Past(seen.page, page.kept) /\ Past(seen.frame, frame.kept) /\ seen.life <= life
    /\ step.at = "after" => proof = Consistency(seen) /\ policy # "block"
    /\ step.at = "again" => \E data \in Readings : proof = Consistency(data) /\ data.page.doc = text
    /\ picture \subseteq {"page", "frame"}

\* A document took the place of another since the first reading, counted or not yet.
Displaced == life > seen.life \/ uncounted > 0

\* When something protected got onto the pixels, then what shows it is there for good: another
\* document took the place of the one that was read, or its counter has gone on.  The second
\* reading saw that, or another document came after it.
PictureOK ==
    step.at = "after" =>
        /\ "page" \in picture =>
             /\ Displaced \/ page.doc # seen.page.doc \/ page.kept[page.doc].epoch > seen.page.epoch
             /\ \A r \in reading : Displaced \/ r.doc # seen.page.doc \/ r.epoch > seen.page.epoch
        /\ "frame" \in picture =>
             /\ ~seen.frame.secret
             /\ Displaced \/ frame.doc # seen.frame.doc \/ frame.kept[frame.doc].epoch > seen.frame.epoch
             /\ \A f \in framed : Displaced \/ f.doc # seen.frame.doc \/ f.epoch > seen.frame.epoch

CaptureInv == CountersOK /\ ReadingsOK /\ PictureOK /\ NothingExposed
-----------------------------------------------------------------------------
\* What a reading of the page or of the frame has of it.
LEMMA Views ==
    ASSUME NEW w \in Screens
    PROVE  /\ View(w) \in PageViews /\ View(w).doc = w.doc /\ View(w).epoch = w.kept[w.doc].epoch
           /\ View(w).secret = w.kept[w.doc].secret /\ Past(View(w), w.kept)
<1>1. View(w) \in PageViews /\ View(w).doc = w.doc /\ View(w).epoch = w.kept[w.doc].epoch
      /\ View(w).secret = w.kept[w.doc].secret
  BY DEF View, PageViews, Screens, Kept
<1>2. w.kept[w.doc].epoch \in Nat
  BY DEF Screens, Kept
<1> QED
  BY <1>1, <1>2 DEF Past

\* Two readings agree where the code compares them.
LEMMA Agreement ==
    ASSUME NEW a \in Readings, NEW b \in Readings,
           NEW keys \in SUBSET Retryable, Changed(Consistency(a), Consistency(b)) \subseteq keys
    PROVE  /\ a.page.doc = b.page.doc /\ a.page.epoch = b.page.epoch
           /\ a.life = b.life /\ a.frame.secret = b.frame.secret
           /\ ~a.frame.secret => a.frame.doc = b.frame.doc /\ a.frame.epoch = b.frame.epoch
<1> DEFINE A == Consistency(a)  B == Consistency(b)
<1>1. A.document = B.document /\ A.frame_document = B.frame_document
      /\ A.protected_geometry = B.protected_geometry /\ A.privacy_history = B.privacy_history
  BY DEF Changed, Consistency, Retryable
<1> QED
  BY <1>1 DEF Consistency, Readings, PageViews
-----------------------------------------------------------------------------
\* The page runs

\* What the page may do to its documents and to the frame's: counters go on, and they do when a
\* protected input comes or goes; another document is an event of the driver, handled or not.
Runs_On ==
    /\ CountersOK' /\ life <= life'
    /\ uncounted > 0 => uncounted' > 0 \/ life' > life
    /\ \A d \in Documents : /\ page.kept[d].epoch <= page'.kept[d].epoch
                            /\ page.kept[d].epoch = page'.kept[d].epoch =>
                                 page.kept[d].secret = page'.kept[d].secret
                            /\ frame.kept[d].epoch <= frame'.kept[d].epoch
                            /\ frame.kept[d].epoch = frame'.kept[d].epoch =>
                                 frame.kept[d].secret = frame'.kept[d].secret
    /\ uncounted' > 0 \/ (page'.doc = page.doc /\ frame'.doc = frame.doc)

\* What was kept of one document changes, and its counter goes on.
Counts(kept, d, changed) ==
    /\ changed \in Kept /\ changed[d].epoch = kept[d].epoch + 1
    /\ \A o \in Documents : o # d => changed[o] = kept[o]

\* A protected input comes or goes, or something else counts, in the document of the page or
\* of the frame.
LEMMA MutatedKept ==
    ASSUME NEW kept \in Kept, NEW d \in Documents, NEW counted,
           counted = [kept EXCEPT ![d].epoch = @ + 1]
    PROVE  Counts(kept, d, counted) /\ Counts(kept, d, [counted EXCEPT ![d].secret = ~@])
<1>1. \A o \in Documents : kept[o] \in [secret : BOOLEAN, epoch : Nat]
  BY DEF Kept
<1>2. LET c == [kept[d] EXCEPT !.epoch = @ + 1] IN
      c \in [secret : BOOLEAN, epoch : Nat] /\ c.epoch = kept[d].epoch + 1
  BY <1>1
<1>3. counted \in Kept /\ counted[d] = [kept[d] EXCEPT !.epoch = @ + 1]
      /\ \A o \in Documents : o # d => counted[o] = kept[o]
  BY <1>2 DEF Kept
<1>4. LET c == [counted[d] EXCEPT !.secret = ~@] IN
      c \in [secret : BOOLEAN, epoch : Nat] /\ c.epoch = counted[d].epoch
  BY <1>2, <1>3
<1>5. LET changed == [counted EXCEPT ![d].secret = ~@] IN
      /\ changed \in Kept /\ changed[d] = [counted[d] EXCEPT !.secret = ~@]
      /\ \A o \in Documents : o # d => changed[o] = counted[o]
  BY <1>3, <1>4 DEF Kept
<1> QED
  BY <1>2, <1>3, <1>4, <1>5 DEF Counts

\* Every step of the page is one of these.
LEMMA PageRuns ==
    ASSUME CountersOK, PageInput \/ FrameInput \/ PageScrolls \/ FrameMoves \/ PageGoes \/ FrameGoes
    PROVE  Runs_On /\ UNCHANGED Observer /\ answer = "none"
<1>0. /\ page \in Screens /\ frame \in Screens /\ page.kept \in Kept /\ frame.kept \in Kept
      /\ page.doc \in Documents /\ frame.doc \in Documents
      /\ pageSteps \in Nat /\ life \in Nat /\ uncounted \in Nat /\ life + uncounted <= pageSteps
  BY CaptureConstants DEF CountersOK, Screens
<1>1. /\ UNCHANGED Observer /\ answer = "none" /\ pageSteps' = pageSteps + 1 /\ pageSteps' \in 0..PageSteps
  <2>1. UNCHANGED Observer
    BY DEF PageInput, FrameInput, PageScrolls, FrameMoves, PageGoes, FrameGoes, Stays, Swaps
  <2>2. Runs
    BY DEF PageInput, FrameInput, PageScrolls, FrameMoves, PageGoes, FrameGoes
  <2> QED
    BY <1>0, <2>1, <2>2, CaptureConstants DEF Runs
<1>2. UNCHANGED <<policy, wanted>>
  BY <1>1 DEF Observer
<1>3. \A p \in Places : Other(p) \in Places
  BY DEF Other, Places
<1>4. \A d \in Documents : page.kept[d].epoch \in Nat /\ frame.kept[d].epoch \in Nat
  BY <1>0 DEF Kept
<1>a. ASSUME Stays PROVE life' = life /\ uncounted' = uncounted
  BY <1>a DEF Stays
<1>5. CASE PageInput
  <2>1. PICK counted : counted = [page.kept EXCEPT ![page.doc].epoch = @ + 1]
    OBVIOUS
  <2>2. page' = [page EXCEPT !.kept = [counted EXCEPT ![page.doc].secret = ~@]] /\ frame' = frame
        /\ life' = life /\ uncounted' = uncounted
    BY <1>0, <1>5, <1>a, <2>1 DEF PageInput, Mutated, Screens
  <2>3. Counts(page.kept, page.doc, [counted EXCEPT ![page.doc].secret = ~@])
    BY <1>0, <2>1, MutatedKept
  <2>4. page' \in Screens /\ page'.doc = page.doc /\ Counts(page.kept, page.doc, page'.kept)
    BY <1>0, <2>2, <2>3 DEF Screens, Counts
  <2> QED
    BY <1>0, <1>1, <1>2, <1>4, <2>2, <2>4 DEF Runs_On, CountersOK, Counts
<1>6. CASE FrameInput
  <2>1. PICK counted : counted = [frame.kept EXCEPT ![frame.doc].epoch = @ + 1]
    OBVIOUS
  <2>2. frame' = [frame EXCEPT !.kept = [counted EXCEPT ![frame.doc].secret = ~@]] /\ page' = page
        /\ life' = life /\ uncounted' = uncounted
    BY <1>0, <1>6, <1>a, <2>1 DEF FrameInput, Mutated, Screens
  <2>3. Counts(frame.kept, frame.doc, [counted EXCEPT ![frame.doc].secret = ~@])
    BY <1>0, <2>1, MutatedKept
  <2>4. frame' \in Screens /\ frame'.doc = frame.doc /\ Counts(frame.kept, frame.doc, frame'.kept)
    BY <1>0, <2>2, <2>3 DEF Screens, Counts
  <2> QED
    BY <1>0, <1>1, <1>2, <1>4, <2>2, <2>4 DEF Runs_On, CountersOK, Counts
<1>7. CASE PageScrolls
  <2>1. page' = [page EXCEPT !.at = Other(@)] /\ frame' = frame /\ life' = life /\ uncounted' = uncounted
    BY <1>7, <1>a DEF PageScrolls
  <2>2. page' \in Screens /\ page'.doc = page.doc /\ page'.kept = page.kept
    BY <1>0, <1>3, <2>1 DEF Screens
  <2> QED
    BY <1>0, <1>1, <1>2, <1>4, <2>1, <2>2 DEF Runs_On, CountersOK
<1>8. CASE FrameMoves
  <2>1. frame' = [frame EXCEPT !.at = Other(@)] /\ life' = life /\ uncounted' = uncounted
    BY <1>8, <1>a DEF FrameMoves
  <2>2. /\ frame' \in Screens /\ frame'.doc = frame.doc /\ frame'.kept = frame.kept
        /\ life' = life /\ uncounted' = uncounted
    BY <1>0, <1>3, <2>1 DEF Screens
  <2>3. CASE page' = page
    BY <1>0, <1>1, <1>2, <1>4, <2>2, <2>3 DEF Runs_On, CountersOK
  <2>4. CASE page' = Mutated(page)
    <3>1. PICK counted : counted = [page.kept EXCEPT ![page.doc].epoch = @ + 1]
      OBVIOUS
    <3>2. page' = [page EXCEPT !.kept = counted]
      BY <1>0, <2>4, <3>1 DEF Mutated, Screens
    <3>3. Counts(page.kept, page.doc, counted)
      BY <1>0, <3>1, MutatedKept
    <3>4. page' \in Screens /\ page'.doc = page.doc /\ Counts(page.kept, page.doc, page'.kept)
      BY <1>0, <3>2, <3>3 DEF Screens, Counts
    <3> QED
      BY <1>0, <1>1, <1>2, <1>4, <2>2, <3>4 DEF Runs_On, CountersOK, Counts
  <2> QED
    BY <1>8, <2>3, <2>4 DEF FrameMoves
<1>9. CASE PageGoes \/ FrameGoes
  <2>1. PICK d \in Documents, f \in Documents :
          /\ page' = [page EXCEPT !.doc = d] /\ frame' = [frame EXCEPT !.doc = f]
    <3>1. page = [page EXCEPT !.doc = page.doc]
      BY <1>0 DEF Screens
    <3> QED
      BY <1>0, <1>9, <3>1 DEF PageGoes, FrameGoes
  <2>2. /\ page' \in Screens /\ page'.kept = page.kept
        /\ frame' \in Screens /\ frame'.kept = frame.kept
    BY <1>0, <2>1 DEF Screens
  <2>3. uncounted' = uncounted + 1 /\ life' = life
    BY <1>9 DEF PageGoes, FrameGoes, Swaps
  <2> QED
    BY <1>0, <1>1, <1>2, <1>4, <2>2, <2>3 DEF Runs_On, CountersOK
<1> QED
  BY <1>1, <1>5, <1>6, <1>7, <1>8, <1>9

\* The driver handles an event: what was not counted is.
LEMMA SwapCounted == ASSUME CountersOK, CountsSwap PROVE Runs_On /\ UNCHANGED Observer /\ answer = "none"
<1>1. /\ UNCHANGED <<page, frame, pageSteps, policy, wanted>> /\ answer = "none" /\ UNCHANGED Observer
      /\ uncounted > 0 /\ uncounted' = uncounted - 1 /\ life' = life + 1
  BY DEF CountsSwap, Observer
<1>2. life \in Nat /\ uncounted \in Nat /\ pageSteps \in Nat
  BY CaptureConstants DEF CountersOK
<1>3. CountersOK'
  BY <1>1, <1>2 DEF CountersOK
<1>4. \A d \in Documents : page.kept[d].epoch \in Nat /\ frame.kept[d].epoch \in Nat
  BY DEF CountersOK, Screens, Kept
<1> QED
  BY <1>1, <1>2, <1>3, <1>4 DEF Runs_On

\* What the page does takes nothing back of what was read or is on the pixels.
LEMMA PageKeeps == ASSUME CaptureInv, Runs_On, UNCHANGED Observer, answer = "none" PROVE CaptureInv'
<1>0. UNCHANGED <<policy, wanted, step, text, seen, reading, framed, proof, picture, answer>>
  BY DEF Observer
<1>1. CountersOK /\ CountersOK'
  BY DEF CaptureInv, Runs_On
<1>2. /\ \A d \in Documents : page.kept[d].epoch \in Nat /\ frame.kept[d].epoch \in Nat
                              /\ page'.kept[d].epoch \in Nat /\ frame'.kept[d].epoch \in Nat
      /\ page'.doc \in Documents /\ frame'.doc \in Documents
      /\ life \in Nat /\ life' \in Nat /\ uncounted \in Nat /\ uncounted' \in Nat
  BY <1>1 DEF CountersOK, Screens, Kept
<1>3. \A v \in PageViews : v.doc \in Documents /\ v.epoch \in Nat
  BY DEF PageViews
<1>4. \A v \in PageViews : Past(v, page.kept) => Past(v, page.kept')
  <2> SUFFICES ASSUME NEW v \in PageViews, Past(v, page.kept) PROVE Past(v, page'.kept)
    OBVIOUS
  <2>1. v.doc \in Documents /\ v.epoch \in Nat
    BY <1>3
  <2>2. /\ page.kept[v.doc].epoch <= page'.kept[v.doc].epoch
        /\ page.kept[v.doc].epoch = page'.kept[v.doc].epoch
           => page.kept[v.doc].secret = page'.kept[v.doc].secret
    BY <2>1 DEF Runs_On
  <2>3. page.kept[v.doc].epoch \in Nat /\ page'.kept[v.doc].epoch \in Nat
    BY <1>2, <2>1
  <2> QED
    BY <2>1, <2>2, <2>3 DEF Past
<1>5. \A v \in PageViews : Past(v, frame.kept) => Past(v, frame.kept')
  <2> SUFFICES ASSUME NEW v \in PageViews, Past(v, frame.kept) PROVE Past(v, frame'.kept)
    OBVIOUS
  <2>1. v.doc \in Documents /\ v.epoch \in Nat
    BY <1>3
  <2>2. /\ frame.kept[v.doc].epoch <= frame'.kept[v.doc].epoch
        /\ frame.kept[v.doc].epoch = frame'.kept[v.doc].epoch
           => frame.kept[v.doc].secret = frame'.kept[v.doc].secret
    BY <2>1 DEF Runs_On
  <2>3. frame.kept[v.doc].epoch \in Nat /\ frame'.kept[v.doc].epoch \in Nat
    BY <1>2, <2>1
  <2> QED
    BY <2>1, <2>2, <2>3 DEF Past
<1>6. step.at \in {"pixels", "after"} => seen.page \in PageViews /\ seen.frame \in PageViews
                                       /\ seen.life \in Nat /\ seen.life <= life
  BY DEF CaptureInv, ReadingsOK, Readings
<1>7. life <= life'
  BY DEF Runs_On
<1>8. ReadingsOK'
  BY <1>0, <1>2, <1>4, <1>5, <1>6, <1>7 DEF CaptureInv, ReadingsOK
<1>9. PictureOK'
  <2> SUFFICES ASSUME step.at = "after" PROVE PictureOK'
    BY <1>0 DEF PictureOK
  <2>1. seen.page \in PageViews /\ seen.frame \in PageViews /\ seen.life \in Nat /\ seen.life <= life
    BY <1>6
  <2>2. seen.page.epoch \in Nat /\ seen.frame.epoch \in Nat
    BY <1>3, <2>1
  <2>3. Displaced => Displaced'
    BY <1>0, <1>2, <2>1 DEF Displaced, Runs_On
  <2>4. ASSUME page.doc # seen.page.doc \/ page.kept[page.doc].epoch > seen.page.epoch
        PROVE  Displaced' \/ page'.doc # seen.page.doc \/ page'.kept[page'.doc].epoch > seen.page.epoch
    <3>1. CASE uncounted' > 0
      BY <3>1 DEF Displaced
    <3>2. CASE page'.doc = page.doc
      BY <1>2, <2>2, <2>4, <3>2 DEF Runs_On
    <3> QED
      BY <3>1, <3>2 DEF Runs_On
  <2>5. ASSUME frame.doc # seen.frame.doc \/ frame.kept[frame.doc].epoch > seen.frame.epoch
        PROVE  Displaced' \/ frame'.doc # seen.frame.doc \/ frame'.kept[frame'.doc].epoch > seen.frame.epoch
    <3>1. CASE uncounted' > 0
      BY <3>1 DEF Displaced
    <3>2. CASE frame'.doc = frame.doc
      BY <1>2, <2>2, <2>5, <3>2 DEF Runs_On
    <3> QED
      BY <3>1, <3>2 DEF Runs_On
  <2> QED
    BY <1>0, <2>3, <2>4, <2>5 DEF CaptureInv, PictureOK
<1> QED
  BY <1>0, <1>1, <1>8, <1>9 DEF CaptureInv, NothingExposed
-----------------------------------------------------------------------------
\* The observation

\* A complete reading: the page and the frame as they were read before, and the lifetimes as counted.
LEMMA ReadFacts ==
    ASSUME CaptureInv, framed # NotRead
    PROVE  /\ Read \in Readings /\ Read.page \in reading /\ Past(Read.page, page.kept)
           /\ Read.frame \in framed /\ Past(Read.frame, frame.kept) /\ Read.life = life
<1>1. PICK f \in PageViews : framed = {f} /\ Past(f, frame.kept)
  BY DEF CaptureInv, ReadingsOK
<1>2. PICK r \in PageViews : reading = {r} /\ Past(r, page.kept)
  BY DEF CaptureInv, ReadingsOK
<1>3. (CHOOSE p \in reading : TRUE) = r /\ (CHOOSE g \in framed : TRUE) = f
  BY <1>1, <1>2
<1>4. Read = [page |-> r, frame |-> f, life |-> life]
  BY <1>3 DEF Read, PageRead
<1>5. life \in Nat
  BY DEF CaptureInv, CountersOK
<1> QED
  BY <1>1, <1>2, <1>4, <1>5 DEF Readings

\* The first half of a reading, and the second.
LEMMA HalfRead == ASSUME CaptureInv, ReadPage PROVE CaptureInv'
<1>1. /\ answer = "none" /\ step.at # "pixels" /\ reading = NotRead /\ reading' = {View(page)}
      /\ UNCHANGED <<page, frame, life, uncounted, policy, wanted, pageSteps, step, text, seen, framed, proof, picture,
                     answer>>
  BY DEF ReadPage, Page
<1>2. /\ View(page) \in PageViews /\ View(page).doc = page.doc
      /\ View(page).epoch = page.kept[page.doc].epoch /\ Past(View(page), page.kept)
  BY Views DEF CaptureInv, CountersOK
<1>3. CountersOK' /\ NothingExposed'
  BY <1>1 DEF CaptureInv, CountersOK, NothingExposed
<1>4. framed = NotRead
  BY <1>1 DEF CaptureInv, ReadingsOK
<1>5. ReadingsOK'
  BY <1>1, <1>2, <1>4 DEF CaptureInv, ReadingsOK
<1>6. PictureOK'
  BY <1>1, <1>2 DEF CaptureInv, PictureOK, Displaced
<1> QED
  BY <1>3, <1>5, <1>6 DEF CaptureInv

LEMMA FrameRead == ASSUME CaptureInv, ReadFrame PROVE CaptureInv'
<1>1. /\ answer = "none" /\ reading # NotRead /\ framed = NotRead /\ framed' = {View(frame)}
      /\ UNCHANGED <<page, frame, life, uncounted, policy, wanted, pageSteps, step, text, seen, reading, proof, picture,
                     answer>>
  BY DEF ReadFrame, Page
<1>2. /\ View(frame) \in PageViews /\ View(frame).doc = frame.doc
      /\ View(frame).epoch = frame.kept[frame.doc].epoch /\ Past(View(frame), frame.kept)
  BY Views DEF CaptureInv, CountersOK
<1>3. CountersOK' /\ NothingExposed'
  BY <1>1 DEF CaptureInv, CountersOK, NothingExposed
<1>4. step.at # "pixels"
  BY <1>1 DEF CaptureInv, ReadingsOK
<1>5. ReadingsOK'
  BY <1>1, <1>2, <1>4 DEF CaptureInv, ReadingsOK
<1>6. PictureOK'
  BY <1>1, <1>2 DEF CaptureInv, PictureOK, Displaced
<1> QED
  BY <1>3, <1>5, <1>6 DEF CaptureInv

\* A first or a third reading: the pixels may be taken after it.
LEMMA ReadWhole ==
    ASSUME CaptureInv, framed # NotRead, seen' = Read, step'.at = "pixels", reading' = NotRead, framed' = NotRead,
           step' \in [at : {"text", "pixels", "after", "again"}, attempt : {1, 2}],
           text' = Read.page.doc, UNCHANGED <<Page, proof, picture, answer>>, answer = "none"
    PROVE  CaptureInv'
<1>1. UNCHANGED <<page, frame, life, uncounted, policy, wanted, pageSteps, proof, picture, answer>>
  BY DEF Page
<1>2. /\ seen' \in Readings /\ Past(seen'.page, page.kept) /\ Past(seen'.frame, frame.kept)
      /\ seen'.life = life /\ text' = seen'.page.doc
  BY ReadFacts
<1>3. CountersOK' /\ NothingExposed'
  BY <1>1 DEF CaptureInv, CountersOK, NothingExposed
<1>4. life \in Nat /\ text' \in Documents
  BY <1>2 DEF CaptureInv, CountersOK, Readings, PageViews
<1>5. ReadingsOK'
  BY <1>1, <1>2, <1>4 DEF CaptureInv, ReadingsOK
<1>6. PictureOK'
  BY DEF PictureOK
<1> QED
  BY <1>3, <1>5, <1>6 DEF CaptureInv

\* The pixels are taken: what is on them unmasked was not there, or not protected, when it was read.
LEMMA PixelsTaken == ASSUME CaptureInv, Pixels PROVE CaptureInv'
<1>1. /\ answer = "none" /\ step.at = "pixels" /\ policy # "block" /\ step' = [step EXCEPT !.at = "after"]
      /\ proof' = Consistency(seen) /\ picture' = Shown \ Masks(seen)
      /\ UNCHANGED <<page, frame, life, uncounted, policy, wanted, pageSteps, text, seen, reading, framed, answer>>
  BY DEF Pixels, To, Page
<1>2. /\ step' \in [at : {"text", "pixels", "after", "again"}, attempt : {1, 2}] /\ step'.at = "after"
  BY <1>1 DEF CaptureInv, ReadingsOK
<1>3. /\ seen \in Readings /\ Past(seen.page, page.kept) /\ Past(seen.frame, frame.kept)
      /\ seen.page.doc \in Documents /\ seen.frame.doc \in Documents
      /\ seen.page.epoch \in Nat /\ seen.frame.epoch \in Nat
  BY <1>1 DEF CaptureInv, ReadingsOK, Readings, PageViews
<1>4. /\ page.doc \in Documents /\ frame.doc \in Documents
      /\ page.kept[page.doc].epoch \in Nat /\ frame.kept[frame.doc].epoch \in Nat
      /\ page.kept[page.doc].secret \in BOOLEAN /\ frame.kept[frame.doc].secret \in BOOLEAN
  BY DEF CaptureInv, CountersOK, Screens, Kept
<1>5. /\ "page" \in picture' => page.kept[page.doc].secret /\ ~seen.page.secret
      /\ "frame" \in picture' => frame.kept[frame.doc].secret /\ ~seen.frame.secret
      /\ picture' \subseteq {"page", "frame"}
  BY <1>1 DEF Shown, Masks, View
<1>6. "page" \in picture' => page.doc # seen.page.doc \/ page.kept[page.doc].epoch > seen.page.epoch
  BY <1>3, <1>4, <1>5 DEF Past
<1>7. "frame" \in picture' => frame.doc # seen.frame.doc \/ frame.kept[frame.doc].epoch > seen.frame.epoch
  BY <1>3, <1>4, <1>5 DEF Past
<1>8. CountersOK' /\ NothingExposed'
  BY <1>1 DEF CaptureInv, CountersOK, NothingExposed
<1>9. ReadingsOK'
  BY <1>1, <1>2, <1>5 DEF CaptureInv, ReadingsOK
<1>10. reading = NotRead /\ framed = NotRead
  BY <1>1 DEF CaptureInv, ReadingsOK
<1>11. PictureOK'
  BY <1>1, <1>5, <1>6, <1>7, <1>10 DEF PictureOK, NotRead
<1> QED
  BY <1>8, <1>9, <1>11 DEF CaptureInv

\* The second reading agrees with the first: something protected can only be on the pixels
\* of a document whose coming or going was not counted yet.
LEMMA Agrees == ASSUME CaptureInv, Agreed PROVE CaptureInv'
<1>1. /\ step.at = "after" /\ framed # NotRead /\ reading' = NotRead /\ framed' = NotRead /\ answer' = "image"
      /\ Changed(proof, Consistency(Read)) = {}
      /\ UNCHANGED <<page, frame, life, uncounted, policy, wanted, pageSteps, step, text, seen, proof, picture>>
  BY DEF Agreed, CanRead, Page
<1>2. /\ seen \in Readings /\ proof = Consistency(seen) /\ text = seen.page.doc /\ policy # "block"
  BY <1>1 DEF CaptureInv, ReadingsOK
<1>3. Read \in Readings /\ Read.page \in reading /\ Read.frame \in framed /\ Read.life = life
  BY <1>1, ReadFacts
<1>4. /\ seen.page.doc = Read.page.doc /\ seen.page.epoch = Read.page.epoch
      /\ seen.life = Read.life /\ seen.frame.secret = Read.frame.secret
      /\ ~seen.frame.secret => seen.frame.doc = Read.frame.doc /\ seen.frame.epoch = Read.frame.epoch
  <2>1. {} \in SUBSET Retryable /\ Changed(Consistency(seen), Consistency(Read)) \subseteq {}
    BY <1>1, <1>2
  <2> QED
    BY <1>2, <1>3, <2>1, Agreement
<1>5. seen.page.epoch \in Nat /\ seen.frame.epoch \in Nat /\ seen.life \in Nat
  BY <1>2 DEF Readings, PageViews
<1>6. Displaced => uncounted > 0
  BY <1>3, <1>4, <1>5 DEF Displaced
<1>7. "page" \in picture => uncounted > 0
  BY <1>1, <1>3, <1>4, <1>5, <1>6 DEF CaptureInv, PictureOK
<1>8. "frame" \in picture => uncounted > 0
  BY <1>1, <1>3, <1>4, <1>5, <1>6 DEF CaptureInv, PictureOK
<1>9. (picture = {} \/ uncounted > 0) /\ proof.document = text
  BY <1>2, <1>7, <1>8 DEF CaptureInv, ReadingsOK, Consistency
<1>10. NothingExposed'
  BY <1>1, <1>2, <1>9 DEF NothingExposed
<1>11. CountersOK'
  BY <1>1 DEF CaptureInv, CountersOK
<1>12. ReadingsOK'
  BY <1>1 DEF CaptureInv, ReadingsOK
<1>13. PictureOK'
  BY <1>1 DEF CaptureInv, PictureOK, Displaced, NotRead
<1> QED
  BY <1>10, <1>11, <1>12, <1>13 DEF CaptureInv

\* The second reading differs only in what is shown, and another attempt is allowed.
LEMMA TriesAgain == ASSUME CaptureInv, Retry PROVE CaptureInv'
<1>1. /\ step.at = "after" /\ framed # NotRead /\ reading' = NotRead /\ framed' = NotRead /\ answer = "none"
      /\ proof' = Consistency(Read) /\ step' = [step EXCEPT !.at = "again"] /\ step.attempt = 1
      /\ Changed(proof, Consistency(Read)) \subseteq Retryable
      /\ UNCHANGED <<page, frame, life, uncounted, policy, wanted, pageSteps, text, seen, picture, answer>>
  BY DEF Retry, MayRetry, CanRead, To, Page
<1>2. seen \in Readings /\ proof = Consistency(seen) /\ text = seen.page.doc
  BY <1>1 DEF CaptureInv, ReadingsOK
<1>3. Read \in Readings
  BY <1>1, ReadFacts
<1>4. seen.page.doc = Read.page.doc
  BY <1>1, <1>2, <1>3, Agreement
<1>5. /\ step' \in [at : {"text", "pixels", "after", "again"}, attempt : {1, 2}]
      /\ step'.at = "again" /\ step'.attempt = 1
  BY <1>1 DEF CaptureInv, ReadingsOK
<1>6. \E data \in Readings : proof' = Consistency(data) /\ data.page.doc = text
  BY <1>1, <1>2, <1>3, <1>4
<1>7. ReadingsOK'
  BY <1>1, <1>5, <1>6 DEF CaptureInv, ReadingsOK
<1>8. CountersOK' /\ NothingExposed' /\ PictureOK'
  BY <1>1, <1>5 DEF CaptureInv, CountersOK, NothingExposed, PictureOK
<1> QED
  BY <1>7, <1>8 DEF CaptureInv

\* The third reading is still of the page whose text the answer has.
LEMMA ReadsAgain == ASSUME CaptureInv, Again PROVE CaptureInv'
<1>1. /\ step.at = "again" /\ framed # NotRead /\ reading' = NotRead /\ framed' = NotRead /\ answer = "none"
      /\ Changed(proof, Consistency(Read)) \subseteq Retryable
      /\ seen' = Read /\ step' = [at |-> "pixels", attempt |-> step.attempt + 1]
      /\ UNCHANGED <<Page, text, proof, picture, answer>>
  BY DEF Again, GapAllowed, CanRead
<1>2. PICK data \in Readings : proof = Consistency(data) /\ data.page.doc = text
  BY <1>1 DEF CaptureInv, ReadingsOK
<1>3. Read \in Readings
  BY <1>1, ReadFacts
<1>4. text = Read.page.doc
  BY <1>1, <1>2, <1>3, Agreement
<1>5. step.attempt = 1
  BY <1>1 DEF CaptureInv, ReadingsOK
<1>6. step' \in [at : {"text", "pixels", "after", "again"}, attempt : {1, 2}] /\ step'.at = "pixels"
  BY <1>1, <1>5
<1> QED
  BY <1>1, <1>4, <1>6, ReadWhole

\* No picture is given.
LEMMA PictureFails == ASSUME CaptureInv, Refuse \/ TimeOver \/ Disagreed \/ GapRefused PROVE CaptureInv'
<1>1. /\ answer' \in {"error", "text"} /\ answer = "none"
      /\ (UNCHANGED <<reading, framed>> \/ (reading' = NotRead /\ framed' = NotRead))
      /\ UNCHANGED <<page, frame, life, uncounted, policy, wanted, pageSteps, step, text, seen, proof, picture>>
  BY DEF Refuse, TimeOver, Disagreed, GapRefused, CanRead, Fails, Omitted, Page
<1>2. CountersOK' /\ NothingExposed'
  BY <1>1 DEF CaptureInv, CountersOK, NothingExposed
<1>3. ReadingsOK'
  BY <1>1 DEF CaptureInv, ReadingsOK
<1>4. PictureOK'
  BY <1>1 DEF CaptureInv, PictureOK, Displaced, NotRead
<1> QED
  BY <1>2, <1>3, <1>4 DEF CaptureInv

\* Nothing was read yet.
LEMMA CaptureStarts == Init_Capture => CaptureInv
<1> SUFFICES ASSUME Init_Capture PROVE CaptureInv
  OBVIOUS
<1>1. /\ page \in [doc : {1}, at : {"here"}, kept : [Documents -> Fresh]]
      /\ frame \in [doc : {1}, at : {"here"}, kept : [Documents -> Fresh]] /\ life = 0 /\ uncounted = 0
      /\ policy \in {"allow", "mask", "block"} /\ wanted \in {"image", "extra"} /\ pageSteps = 0
      /\ step = [at |-> "text", attempt |-> 1] /\ reading = NotRead /\ framed = NotRead /\ picture = {} /\ answer = "none" /\ text = 0
  BY DEF Init_Capture
<1>2. \A kept \in [Documents -> Fresh] : kept \in Kept /\ \A d \in Documents : kept[d].epoch = 0
  BY DEF Fresh, Kept
<1>3. /\ page \in Screens /\ \A d \in Documents : page.kept[d].epoch = 0
      /\ frame \in Screens /\ \A d \in Documents : frame.kept[d].epoch = 0
  BY <1>1, <1>2 DEF Screens, Documents, Places
<1>4. CountersOK
  BY <1>1, <1>3, CaptureConstants DEF CountersOK
<1>5. ReadingsOK /\ PictureOK /\ NothingExposed
  BY <1>1 DEF ReadingsOK, PictureOK, NothingExposed
<1> QED
  BY <1>4, <1>5 DEF CaptureInv

\* Every step of the page and of the observation keeps the invariant.
LEMMA CaptureSteps == CaptureInv /\ [Next_Capture]_capVars => CaptureInv'
<1> SUFFICES ASSUME CaptureInv, [Next_Capture]_capVars PROVE CaptureInv'
  OBVIOUS
<1>1. CASE PageInput \/ FrameInput \/ PageScrolls \/ FrameMoves \/ PageGoes \/ FrameGoes \/ CountsSwap
  <2>1. CountersOK
    BY DEF CaptureInv
  <2> QED
    BY <1>1, <2>1, PageRuns, SwapCounted, PageKeeps
<1>2. CASE ReadPage \/ ReadFrame \/ Pixels \/ Agreed \/ Retry \/ Again
  BY <1>2, HalfRead, FrameRead, PixelsTaken, Agrees, TriesAgain, ReadsAgain
<1>3. CASE ReadText
  <2>1. /\ framed # NotRead /\ reading' = NotRead /\ framed' = NotRead /\ answer = "none" /\ seen' = Read /\ text' = Read.page.doc
        /\ step' = [step EXCEPT !.at = "pixels"] /\ UNCHANGED <<Page, proof, picture, answer>>
    BY <1>3 DEF ReadText, CanRead, To
  <2>2. step' \in [at : {"text", "pixels", "after", "again"}, attempt : {1, 2}] /\ step'.at = "pixels"
    BY <2>1 DEF CaptureInv, ReadingsOK
  <2> QED
    BY <2>1, <2>2, ReadWhole
<1>4. CASE Refuse \/ TimeOver \/ Disagreed \/ GapRefused
  BY <1>4, PictureFails
<1>5. CASE UNCHANGED capVars
  BY <1>5 DEF capVars, CaptureInv, CountersOK, ReadingsOK, PictureOK, Displaced, NothingExposed
<1> QED
  BY <1>1, <1>2, <1>3, <1>4, <1>5 DEF Next_Capture

\* The documents, the readings and the answer only hold what the code puts there.
THEOREM CaptureTypeCorrect == Spec_Capture => []CaptureTypeOK
<1>1. CaptureInv => CaptureTypeOK
  <2> SUFFICES ASSUME CaptureInv PROVE CaptureTypeOK
    OBVIOUS
  <2>1. /\ page \in Screens /\ frame \in Screens /\ pageSteps \in 0..PageSteps
        /\ life \in Nat /\ uncounted \in Nat /\ life + uncounted <= pageSteps
        /\ \A d \in Documents : page.kept[d].epoch <= pageSteps /\ frame.kept[d].epoch <= pageSteps
    BY DEF CaptureInv, CountersOK
  <2>2. \A n \in Nat : n <= pageSteps => n \in 0..PageSteps
    BY <2>1, CaptureConstants
  <2>3. \A w \in Screens : (\A d \in Documents : w.kept[d].epoch <= pageSteps) =>
          w \in [doc : Documents, at : Places, kept : [Documents -> [secret : BOOLEAN, epoch : 0..PageSteps]]]
    <3>1. \A kept \in Kept : (\A d \in Documents : kept[d].epoch <= pageSteps) =>
            kept \in [Documents -> [secret : BOOLEAN, epoch : 0..PageSteps]]
      BY <2>2 DEF Kept
    <3> QED
      BY <3>1 DEF Screens
  <2>4. life <= pageSteps /\ uncounted <= pageSteps
    BY <2>1, CaptureConstants
  <2>5. {life, uncounted, pageSteps} \subseteq 0..PageSteps
    BY <2>1, <2>2, <2>4
  <2> QED
    BY <2>1, <2>3, <2>5 DEF CaptureTypeOK, CaptureInv, CountersOK, ReadingsOK
<1> QED
  BY <1>1, CaptureStarts, CaptureSteps, PTL DEF Spec_Capture

\* A picture that is given shows nothing protected unmasked, except of a document whose coming or
\* going the driver has not counted yet, and is of the page it comes with.
THEOREM PicturesAreMasked == Spec_Capture => []NothingExposed
<1>1. CaptureInv => NothingExposed
  BY DEF CaptureInv
<1> QED
  BY <1>1, CaptureStarts, CaptureSteps, PTL DEF Spec_Capture
-----------------------------------------------------------------------------
Elements == Meanings \cup {Vanished}
Before == {"capture", "inspect", "locate", "hit", "focus", "press"}
After == {"release", "settle", "verify"}
ActPlaces == Before \cup After \cup {"idle", "answer", "answered"}
ActType == [kind : Kinds \cup {"none", "dialog"}, at : ActPlaces]
Observed == [doc : 0..MaxDocuments, meaning : Elements, generation : 0..MaxControls]

\* Documents, dialogs and generations are numbered as they come; a dialog that is open has
\* not been closed.
TabOK ==
    /\ doc \in 1..MaxDocuments /\ docKey \in 0..MaxDocuments /\ meaning \in Elements
    /\ hit \in {"element", "other"} /\ focused \in {"element", "other"}
    /\ dialogs \in 0..MaxDialogs /\ dialog \in 0..dialogs /\ knownDialog \in 0..dialogs /\ closings \in 0..dialogs
    /\ (dialog # 0 => closings < dialogs)
    /\ generation \in 0..MaxControls
    /\ seenAs \in Observed /\ seenAs.doc <= doc
\* An action is where an action of its kind may be.
PlaceOK ==
    /\ act \in ActType
    /\ (act.kind = "none" <=> act.at = "idle")
    /\ (act.kind = "dialog" <=> act.at \in {"answer", "answered"})
    /\ reply \in {"none", "not sent", "dialog", "done", "goal not met", "uncertain"}
FlagsOK ==
    /\ down \in BOOLEAN /\ evicted \in BOOLEAN /\ pendingInput \in BOOLEAN /\ held \in BOOLEAN /\ sent \in BOOLEAN
    /\ asSeen \in BOOLEAN /\ reached \in BOOLEAN /\ uncertain \in BOOLEAN /\ controlled \in BOOLEAN

\* What the element now is, the history has noted; past its inspection an action has found it
\* as the client saw it, in the generation of before, and past its test has reached it.
SeenOK ==
    act.kind \in Kinds =>
        /\ (seenAs.doc = doc /\ meaning = seenAs.meaning => asSeen)
        /\ (act.at \in (Before \cup After) \ {"capture", "inspect"} => asSeen /\ seenAs.generation = generation)
        /\ (act.kind = "node" \/ act.at \in {"press"} \cup After => reached)

\* Nothing was sent before the press, nor by a call that said so; what is pressed is held by
\* the action, or the tab remembers it.
PressedOK ==
    /\ (act.at \in Before \cup {"answer"} => ~sent)
    /\ (reply = "not sent" => act = NoAct /\ ~sent)
    /\ (held => act.at = "release")
    /\ (down => held \/ pendingInput)

ActsInv == TabOK /\ PlaceOK /\ FlagsOK /\ SeenOK /\ PressedOK

\* At first nothing was observed and nothing pressed.
LEMMA ActsStart == Init_Acts => ActsInv
<1> SUFFICES ASSUME Init_Acts PROVE ActsInv
  OBVIOUS
<1>1. act = [kind |-> "none", at |-> "idle"] /\ seenAs = [doc |-> 0, meaning |-> Vanished, generation |-> 0]
  BY DEF Init_Acts, NoAct
<1>2. seenAs \in Observed
  BY <1>1, ActsConstants DEF Observed, Elements
<1>3. TabOK
  BY <1>1, <1>2, ActsConstants DEF Init_Acts, TabOK, Elements
<1>4. PlaceOK /\ FlagsOK
  <2> PlaceOK
    BY <1>1 DEF Init_Acts, PlaceOK, ActType, ActPlaces, Kinds
  <2> FlagsOK
    BY <1>1 DEF Init_Acts, FlagsOK, ActType, ActPlaces, Kinds
  <2> QED OBVIOUS
<1>5. SeenOK /\ PressedOK
  BY <1>1 DEF Init_Acts, SeenOK, PressedOK, Kinds, Before
<1> QED
  BY <1>3, <1>4, <1>5 DEF ActsInv

\* An action that goes to another place keeps its kind.
LEMMA ActGoes ==
    ASSUME act \in ActType, NEW place \in ActPlaces, act' = [act EXCEPT !.at = place]
    PROVE  act' \in ActType /\ act'.kind = act.kind /\ act'.at = place
BY DEF ActType

\* Nothing is under way exactly in the place of rest.
LEMMA AtNoAct == act = NoAct => act.kind = "none" /\ act.at = "idle"
BY DEF NoAct

\* The steps of the page and of its dialogs.
LEMMA PageStepsKeep ==
    ASSUME ActsInv, PageChanges \/ PageMoves \/ FocusMoves \/ DialogOpens \/ NewDocument \/ DialogClosed PROVE ActsInv'
<1> USE ActsConstants
<1>1. UNCHANGED <<act, reply, evicted, pendingInput, held, sent, uncertain, controlled, seenAs, generation, docKey>>
  <2>1. CASE PageChanges BY <2>1 DEF PageChanges, Elsewhere
  <2>2. CASE PageMoves BY <2>2 DEF PageMoves, Elsewhere
  <2>3. CASE FocusMoves BY <2>3 DEF FocusMoves, Elsewhere
  <2>4. CASE DialogOpens BY <2>4 DEF DialogOpens, Elsewhere
  <2>5. CASE NewDocument BY <2>5 DEF NewDocument, records
  <2>6. CASE DialogClosed BY <2>6 DEF DialogClosed, input
  <2> QED BY <2>1, <2>2, <2>3, <2>4, <2>5, <2>6
<1>2. TabOK'
  <2>1. CASE PageChanges BY <2>1, <1>1 DEF PageChanges, Elsewhere, ActsInv, TabOK, Elements
  <2>2. CASE PageMoves BY <2>2, <1>1 DEF PageMoves, Elsewhere, ActsInv, TabOK, Swapped
  <2>3. CASE FocusMoves BY <2>3, <1>1 DEF FocusMoves, Elsewhere, ActsInv, TabOK, Swapped
  <2>4. CASE DialogOpens BY <2>4, <1>1 DEF DialogOpens, Elsewhere, ActsInv, TabOK
  <2>5. CASE NewDocument
    <3>1. /\ doc' = doc + 1 /\ doc < MaxDocuments /\ meaning' = Vanished /\ hit' = "other" /\ focused' = "other"
          /\ dialog' = 0 /\ closings' = closings + (IF dialog = 0 THEN 0 ELSE 1)
          /\ UNCHANGED <<dialogs, knownDialog>>
      BY <2>5 DEF NewDocument, records, Closes
    <3>2. closings' \in 0..dialogs /\ doc' \in 1..MaxDocuments /\ seenAs.doc <= doc'
      BY <3>1 DEF ActsInv, TabOK, Observed
    <3> QED BY <3>1, <3>2, <1>1 DEF ActsInv, TabOK, Elements
  <2>6. CASE DialogClosed BY <2>6, <1>1 DEF DialogClosed, tabPage, ActsInv, TabOK
  <2> QED BY <2>1, <2>2, <2>3, <2>4, <2>5, <2>6
<1>3. /\ asSeen' \in BOOLEAN /\ reached' \in BOOLEAN /\ (asSeen => asSeen') /\ (reached => reached')
      /\ down' \in BOOLEAN /\ (down' => down)
  <2> asSeen \in BOOLEAN /\ reached \in BOOLEAN /\ down \in BOOLEAN
    BY DEF ActsInv, FlagsOK
  <2>1. CASE PageChanges BY <2>1 DEF PageChanges, Elsewhere
  <2>2. CASE PageMoves BY <2>2 DEF PageMoves, Elsewhere
  <2>3. CASE FocusMoves BY <2>3 DEF FocusMoves, Elsewhere
  <2>4. CASE DialogOpens BY <2>4 DEF DialogOpens, Elsewhere
  <2>5. CASE NewDocument BY <2>5 DEF NewDocument
  <2>6. CASE DialogClosed BY <2>6 DEF DialogClosed, input
  <2> QED BY <2>1, <2>2, <2>3, <2>4, <2>5, <2>6
<1>4. seenAs.doc = doc' /\ meaning' = seenAs.meaning => asSeen' \/ (seenAs.doc = doc /\ meaning = seenAs.meaning)
  <2>1. CASE PageChanges BY <2>1 DEF PageChanges
  <2>2. CASE PageMoves BY <2>2 DEF PageMoves
  <2>3. CASE FocusMoves BY <2>3 DEF FocusMoves
  <2>4. CASE DialogOpens BY <2>4 DEF DialogOpens
  <2>5. CASE NewDocument
    <3>1. seenAs.doc \in Int /\ doc \in Int /\ seenAs.doc <= doc /\ doc' = doc + 1
      BY <2>5 DEF NewDocument, ActsInv, TabOK, Observed
    <3> QED BY <3>1
  <2>6. CASE DialogClosed BY <2>6 DEF DialogClosed, tabPage
  <2> QED BY <2>1, <2>2, <2>3, <2>4, <2>5, <2>6
<1>5. PlaceOK' /\ FlagsOK'
  <2> PlaceOK'
    BY <1>1, <1>3 DEF ActsInv, PlaceOK
  <2> FlagsOK'
    BY <1>1, <1>3 DEF ActsInv, FlagsOK
  <2> QED OBVIOUS
<1>6. SeenOK'
  BY <1>1, <1>3, <1>4 DEF ActsInv, SeenOK
<1>7. PressedOK'
  BY <1>1, <1>3 DEF ActsInv, PressedOK
<1> QED
  BY <1>2, <1>5, <1>6, <1>7 DEF ActsInv

\* The steps while no action is under way: observations, the registry and private control.
LEMMA RestStepsKeep ==
    ASSUME ActsInv, Observe \/ Evicts \/ FocusTab \/ HumanAnswers \/ ResumeTab PROVE ActsInv'
<1> USE ActsConstants
<1>1. UNCHANGED <<act, reply, held, sent, asSeen, reached>>
  <2>1. CASE Observe BY <2>1 DEF Observe, input
  <2>2. CASE Evicts BY <2>2 DEF Evicts, input
  <2>3. CASE FocusTab BY <2>3 DEF FocusTab, input
  <2>4. CASE HumanAnswers BY <2>4 DEF HumanAnswers, input
  <2>5. CASE ResumeTab BY <2>5 DEF ResumeTab
  <2> QED BY <2>1, <2>2, <2>3, <2>4, <2>5
<1>2. TabOK'
  <2>1. CASE Observe
    <3>1. seenAs' \in Observed /\ seenAs'.doc = doc /\ meaning' \in Elements
      BY <2>1 DEF Observe, ActsInv, TabOK, Observed, Elements
    <3> QED BY <2>1, <3>1 DEF Observe, ActsInv, TabOK
  <2>2. CASE Evicts BY <2>2 DEF Evicts, tabPage, ActsInv, TabOK
  <2>3. CASE FocusTab BY <2>3 DEF FocusTab, tabPage, ActsInv, TabOK
  <2>4. CASE HumanAnswers BY <2>4 DEF HumanAnswers, records, Closes, ActsInv, TabOK
  <2>5. CASE ResumeTab
    <3>1. UNCHANGED <<tabPage, closings, knownDialog, generation, seenAs>>
      BY <2>5 DEF ResumeTab
    <3>2. docKey' = doc \/ docKey' = docKey
      BY <2>5 DEF ResumeTab
    <3> QED BY <3>1, <3>2 DEF tabPage, ActsInv, TabOK
  <2> QED BY <2>1, <2>2, <2>3, <2>4, <2>5
<1>3. /\ down' \in BOOLEAN /\ evicted' \in BOOLEAN /\ pendingInput' \in BOOLEAN /\ uncertain' \in BOOLEAN
      /\ controlled' \in BOOLEAN /\ (down' => held \/ pendingInput')
  <2> /\ down \in BOOLEAN /\ evicted \in BOOLEAN /\ pendingInput \in BOOLEAN /\ uncertain \in BOOLEAN
      /\ controlled \in BOOLEAN /\ (down => held \/ pendingInput)
    BY DEF ActsInv, FlagsOK, PressedOK
  <2>1. CASE Observe BY <2>1 DEF Observe, input
  <2>2. CASE Evicts BY <2>2 DEF Evicts, input
  <2>3. CASE FocusTab BY <2>3 DEF FocusTab, input
  <2>4. CASE HumanAnswers BY <2>4 DEF HumanAnswers, input, records
  <2>5. CASE ResumeTab
    <3>1. (down' = down /\ pendingInput' = pendingInput) \/ (down' = FALSE /\ pendingInput' = FALSE)
      BY <2>5 DEF ResumeTab, LetsGo
    <3>2. evicted' = evicted
      BY <2>5 DEF ResumeTab
    <3>3. (controlled' = FALSE /\ uncertain' = FALSE) \/ (controlled' = controlled /\ uncertain' = uncertain)
      BY <2>5 DEF ResumeTab
    <3>4. held' = held
      BY <1>1
    <3>5. controlled' \in BOOLEAN /\ uncertain' \in BOOLEAN
      <4>1. CASE controlled' = FALSE /\ uncertain' = FALSE BY <4>1
      <4>2. CASE controlled' = controlled /\ uncertain' = uncertain BY <4>2
      <4> QED BY <3>3, <4>1, <4>2
    <3>6. down' \in BOOLEAN /\ pendingInput' \in BOOLEAN /\ (down' => held \/ pendingInput')
      <4>1. CASE down' = down /\ pendingInput' = pendingInput BY <4>1
      <4>2. CASE down' = FALSE /\ pendingInput' = FALSE BY <4>2
      <4> QED BY <3>1, <4>1, <4>2
    <3> QED BY <3>2, <3>5, <3>6
  <2> QED BY <2>1, <2>2, <2>3, <2>4, <2>5
<1>4. PlaceOK' /\ FlagsOK'
  <2> PlaceOK'
    BY <1>1, <1>3 DEF ActsInv, PlaceOK
  <2> FlagsOK'
    BY <1>1, <1>3 DEF ActsInv, FlagsOK
  <2> QED OBVIOUS
<1>5. SeenOK'
  <2>1. CASE Observe \/ Evicts \/ FocusTab
    BY <2>1, <1>1, AtNoAct DEF Observe, Evicts, FocusTab, AtRest, SeenOK, Kinds
  <2>2. CASE HumanAnswers \/ ResumeTab
    <3>1. UNCHANGED <<doc, meaning, seenAs, generation>>
      BY <2>2 DEF HumanAnswers, ResumeTab, records, tabPage
    <3> QED BY <3>1, <1>1 DEF ActsInv, SeenOK
  <2> QED BY <2>1, <2>2
<1>6. PressedOK'
  BY <1>1, <1>3 DEF ActsInv, PressedOK
<1> QED
  BY <1>2, <1>4, <1>5, <1>6 DEF ActsInv

\* The steps of the client's action change neither the generation nor what was observed.
\* An action that is asked for begins with a clean history.
LEMMA AsksKeep ==
    ASSUME ActsInv, NEW kind \in Kinds, Asks(kind) \/ AsksDialog PROVE ActsInv'
<1>1. UNCHANGED <<tabPage, records, down, pendingInput, held, closings, uncertain, controlled>> /\ AtRest
      /\ reply' = "none" /\ sent' = FALSE
  BY DEF Asks, AsksDialog
<1>2. TabOK'
  BY <1>1 DEF tabPage, records, ActsInv, TabOK
<1>3. ~held
  BY <1>1, AtNoAct DEF AtRest, ActsInv, PressedOK
<1>4. CASE Asks(kind)
  <2>1. act' = [kind |-> kind, at |-> "capture"] /\ reached' = (kind = "node")
        /\ asSeen' = (seenAs.doc = doc /\ meaning = seenAs.meaning)
    BY <1>4 DEF Asks
  <2>2. PlaceOK' /\ FlagsOK'
    <3> PlaceOK'
      BY <1>1, <2>1 DEF records, ActsInv, PlaceOK, ActType, ActPlaces, Before, Kinds
    <3> FlagsOK'
      BY <1>1, <2>1 DEF records, ActsInv, FlagsOK, ActType, ActPlaces, Before, Kinds
    <3> QED OBVIOUS
  <2>3. SeenOK'
    BY <1>1, <2>1 DEF tabPage, records, SeenOK, After, Before, Kinds
  <2>4. PressedOK'
    BY <1>1, <1>3, <2>1 DEF ActsInv, PressedOK
  <2> QED BY <1>2, <2>2, <2>3, <2>4 DEF ActsInv
<1>5. CASE AsksDialog
  <2>1. act' = [kind |-> "dialog", at |-> "answer"] /\ UNCHANGED <<asSeen, reached>>
    BY <1>5 DEF AsksDialog
  <2>2. PlaceOK' /\ FlagsOK'
    <3> PlaceOK'
      BY <1>1, <2>1 DEF records, ActsInv, PlaceOK, ActType, ActPlaces
    <3> FlagsOK'
      BY <1>1, <2>1 DEF records, ActsInv, FlagsOK, ActType, ActPlaces
    <3> QED OBVIOUS
  <2>3. SeenOK'
    BY <2>1 DEF SeenOK, Kinds
  <2>4. PressedOK'
    BY <1>1, <1>3, <2>1 DEF ActsInv, PressedOK
  <2> QED BY <1>2, <2>2, <2>3, <2>4 DEF ActsInv
<1> QED
  BY <1>4, <1>5

\* An action that ends holds nothing; only one that sent nothing says so.
LEMMA EndsActKeeps ==
    ASSUME ActsInv, NEW says \in {"not sent", "dialog", "done", "goal not met", "uncertain"}, EndsAct(says),
           says = "not sent" => ~sent
    PROVE  ActsInv'
<1>1. act' = NoAct /\ reply' = says /\ uncertain' = (uncertain \/ says = "uncertain") /\ held' = FALSE
      /\ UNCHANGED <<tabPage, records, closings, sent, asSeen, reached, controlled>>
  BY DEF EndsAct, Reply
<1>2. TabOK'
  BY <1>1 DEF tabPage, records, ActsInv, TabOK
<1>3. down' \in BOOLEAN /\ pendingInput' \in BOOLEAN /\ (down' => pendingInput')
  <2>1. down \in BOOLEAN /\ pendingInput \in BOOLEAN /\ (down => held \/ pendingInput)
    BY DEF ActsInv, FlagsOK, PressedOK
  <2>2. \/ ~held /\ down' = down /\ pendingInput' = pendingInput
        \/ down' = FALSE /\ pendingInput' = pendingInput
        \/ pendingInput' = TRUE /\ down' = down
    BY DEF EndsAct, LetsGo
  <2>3. CASE ~held /\ down' = down /\ pendingInput' = pendingInput BY <2>1, <2>3
  <2>4. CASE down' = FALSE /\ pendingInput' = pendingInput BY <2>1, <2>4
  <2>5. CASE pendingInput' = TRUE /\ down' = down BY <2>1, <2>5
  <2> QED BY <2>2, <2>3, <2>4, <2>5
<1>4. act'.kind = "none" /\ act'.at = "idle" /\ act' \in ActType
  BY <1>1 DEF NoAct, ActType, ActPlaces
<1>5. PlaceOK' /\ FlagsOK'
  <2> PlaceOK'
    BY <1>1, <1>3, <1>4 DEF records, ActsInv, PlaceOK
  <2> FlagsOK'
    BY <1>1, <1>3, <1>4 DEF records, ActsInv, FlagsOK
  <2> QED OBVIOUS
<1>6. SeenOK'
  BY <1>4 DEF SeenOK, Kinds
<1>7. PressedOK'
  BY <1>1, <1>3, <1>4 DEF PressedOK, Before
<1> QED
  BY <1>2, <1>5, <1>6, <1>7 DEF ActsInv

\* The ways an action ends.
LEMMA EndsKeep ==
    ASSUME ActsInv, Refusal \/ Verifies \/ CallFails PROVE ActsInv'
<1>1. CASE Refusal
  BY <1>1, EndsActKeeps DEF Refusal, ActsInv, PressedOK, Before
<1>2. CASE Verifies
  BY <1>2, EndsActKeeps DEF Verifies
<1>3. CASE CallFails
  BY <1>3, EndsActKeeps DEF CallFails
<1> QED
  BY <1>1, <1>2, <1>3

\* A call that only looks leaves the page and the input as they are.
LEMMA LooksKeep ==
    ASSUME ActsInv, NEW place \in ActPlaces, Looks(place), act.kind \in Kinds,
           UNCHANGED <<asSeen, reached>>, docKey' \in 0..MaxDocuments,
           place \in {"inspect", "locate", "press", "verify"},
           place = "inspect" => act.at \in Before,
           place = "locate" => act.at \in Before /\ asSeen /\ seenAs.generation = generation,
           place = "press" => act.at \in Before /\ reached /\ asSeen /\ seenAs.generation = generation,
           place = "verify" => act.at \in After /\ ~held
    PROVE  ActsInv'
<1>1. act' = [act EXCEPT !.at = place] /\ UNCHANGED <<tabPage, closings, knownDialog, generation, evicted, seenAs, input, reply, uncertain, controlled>>
  BY DEF Looks, Steps
<1>2. act' \in ActType /\ act'.kind = act.kind /\ act'.at = place
  BY <1>1, ActGoes DEF ActsInv, PlaceOK
<1>3. TabOK'
  BY <1>1 DEF tabPage, ActsInv, TabOK
<1>4. PlaceOK' /\ FlagsOK'
  <2> PlaceOK'
    BY <1>1, <1>2 DEF input, ActsInv, PlaceOK, Kinds
  <2> FlagsOK'
    BY <1>1, <1>2 DEF input, ActsInv, FlagsOK, Kinds
  <2> QED OBVIOUS
<1>5. SeenOK'
  BY <1>1, <1>2 DEF tabPage, ActsInv, SeenOK, Before, After
<1>6. PressedOK'
  <2>1. act # NoAct
    BY AtNoAct DEF Kinds
  <2>2. place \in Before => ~sent
    BY DEF ActsInv, PressedOK, Before
  <2>3. reply' # "not sent"
    BY <1>1, <2>1 DEF ActsInv, PressedOK
  <2>4. ~held
    BY DEF ActsInv, PressedOK, Before
  <2> QED BY <1>1, <1>2, <2>2, <2>3, <2>4 DEF input, ActsInv, PressedOK
<1> QED
  BY <1>3, <1>4, <1>5, <1>6 DEF ActsInv

\* The kind of what is under way, by where it is.
LEMMA KindByPlace ==
    ASSUME ActsInv, act.at \in Before \cup After PROVE act.kind \in Kinds /\ act # NoAct
<1>1. act.kind \in Kinds
  BY DEF ActsInv, PlaceOK, ActType, Before, After
<1> QED BY <1>1, AtNoAct DEF Kinds

\* capture, _node_target, settle: the calls that look.  An inspection that passes finds
\* the element as the client saw it.
LEMMA PrepareKeeps ==
    ASSUME ActsInv, Captures \/ Inspects \/ Settles PROVE ActsInv'
<1>1. doc \in 0..MaxDocuments
  BY DEF ActsInv, TabOK
<1>2. CASE Captures
  <2>1. act.at = "capture" /\ Looks("inspect") /\ docKey' = doc /\ UNCHANGED <<asSeen, reached>>
    BY <1>2 DEF Captures, ActAt
  <2>2. act.kind \in Kinds
    BY <2>1, KindByPlace DEF Before
  <2> QED BY <1>1, <2>1, <2>2, LooksKeep DEF Before, ActPlaces
<1>3. CASE Inspects
  <2>1. /\ act.at = "inspect" /\ Looks(IF act.kind = "node" THEN "press" ELSE "locate")
        /\ UNCHANGED <<docKey, asSeen, reached>> /\ doc = docKey /\ seenAs.generation = generation
        /\ seenAs.doc = docKey /\ meaning = seenAs.meaning
    BY <1>3 DEF Inspects, ActAt, Recorded, Unchanged
  <2>2. act.kind \in Kinds
    BY <2>1, KindByPlace DEF Before
  <2>3. asSeen /\ (act.kind = "node" => reached)
    BY <2>1, <2>2 DEF ActsInv, SeenOK
  <2>4. docKey' \in 0..MaxDocuments
    BY <2>1, <1>1
  <2>5. CASE act.kind = "node"
    BY <2>1, <2>2, <2>3, <2>4, <2>5, LooksKeep DEF Before, ActPlaces
  <2>6. CASE act.kind # "node"
    BY <2>1, <2>2, <2>3, <2>4, <2>6, LooksKeep DEF Before, ActPlaces
  <2> QED BY <2>5, <2>6
<1>4. CASE Settles
  <2>1. act.at \in After /\ ~held
    BY <1>4 DEF Settles, After
  <2>2. act.kind \in Kinds
    BY <2>1, KindByPlace
  <2>3. CASE knownDialog # 0
    BY <1>4, <2>3, EndsActKeeps DEF Settles
  <2>4. CASE knownDialog = 0
    <3>1. Looks("verify") /\ docKey' = doc /\ UNCHANGED <<asSeen, reached>>
      BY <1>4, <2>4 DEF Settles
    <3> QED BY <1>1, <2>1, <2>2, <3>1, LooksKeep DEF After, ActPlaces
  <2> QED BY <2>3, <2>4
<1> QED
  BY <1>2, <1>3, <1>4

\* Finding the element: the place or the focus is tested before anything is pressed.
LEMMA FindingKeeps ==
    ASSUME ActsInv, Locates \/ Focuses \/ Tests PROVE ActsInv'
<1>1. PICK place \in {"hit", "focus", "press"} : Located(place) /\ (place = "press" => reached' = TRUE)
  BY DEF Locates, Focuses, Tests
<1>2. /\ act.at \in Before \ {"capture", "inspect"} /\ act.kind \in Kinds
      /\ hit' \in {"element", "other"} /\ focused' \in {"element", "other"} /\ reached' \in BOOLEAN
      /\ (act.kind = "node" => reached')
  <2>1. act.at \in Before \ {"capture", "inspect"}
    BY DEF Locates, Focuses, Tests, ActAt, Before
  <2>2. act.kind \in Kinds
    BY <2>1, KindByPlace
  <2>3. hit \in {"element", "other"} /\ focused \in {"element", "other"}
    BY DEF ActsInv, TabOK
  <2> QED BY <2>1, <2>2, <2>3 DEF Locates, Focuses, Tests
<1>3. /\ act' = [act EXCEPT !.at = place]
      /\ UNCHANGED <<doc, meaning, dialog, dialogs, records, input, closings, asSeen, reply, uncertain, controlled>>
  BY <1>1 DEF Located, Steps
<1>4. act' \in ActType /\ act'.kind = act.kind /\ act'.at = place
  BY <1>3, ActGoes DEF ActsInv, PlaceOK, ActPlaces, Before
<1>5. TabOK'
  BY <1>2, <1>3 DEF records, ActsInv, TabOK
<1>6. PlaceOK' /\ FlagsOK'
  <2> PlaceOK'
    BY <1>2, <1>3, <1>4 DEF records, input, ActsInv, PlaceOK, Kinds
  <2> FlagsOK'
    BY <1>2, <1>3, <1>4 DEF records, input, ActsInv, FlagsOK, Kinds
  <2> QED OBVIOUS
<1>7. SeenOK'
  BY <1>1, <1>2, <1>3, <1>4 DEF records, ActsInv, SeenOK, Before, After
<1>8. PressedOK'
  <2>1. act # NoAct /\ ~sent
    BY <1>2, AtNoAct DEF ActsInv, PressedOK, Before, Kinds
  <2>2. reply' # "not sent" /\ ~held
    BY <1>2, <1>3, <2>1 DEF ActsInv, PressedOK, Before
  <2> QED BY <1>3, <1>4, <2>1, <2>2 DEF input, ActsInv, PressedOK
<1> QED
  BY <1>5, <1>6, <1>7, <1>8 DEF ActsInv

\* The press and the release: whoever presses holds what it pressed until it lets go.
LEMMA InputKeeps ==
    ASSUME ActsInv, Press \/ Release PROVE ActsInv'
<1>1. PICK place \in {"release", "settle"} : act' = [act EXCEPT !.at = place] /\ (held' => place = "release")
  BY DEF Press, Release, Steps
<1>2. UNCHANGED <<tabPage, records, pendingInput, closings, asSeen, reached, reply, uncertain, controlled>>
  BY DEF Press, Release
<1>3. act.at \in {"press"} \cup After /\ act.kind \in Kinds /\ act # NoAct
  BY KindByPlace DEF Press, Release, ActAt, Before, After
<1>4. act' \in ActType /\ act'.kind = act.kind /\ act'.at = place
  BY <1>1, ActGoes DEF ActsInv, PlaceOK, ActPlaces, After
<1>5. held' \in BOOLEAN /\ down' \in BOOLEAN /\ sent' \in BOOLEAN /\ (down' => held' \/ pendingInput)
  <2>1. held \in BOOLEAN /\ down \in BOOLEAN /\ sent \in BOOLEAN /\ (down => held \/ pendingInput)
    BY DEF ActsInv, FlagsOK, PressedOK
  <2>2. CASE Press
    <3>1. ~held
      BY <2>2 DEF Press, ActAt, ActsInv, PressedOK
    <3>2. held' \in BOOLEAN
      BY <2>2 DEF Press
    <3>3. (down' = down /\ sent' = sent) \/ (sent' = TRUE /\ down' = held')
      BY <2>2 DEF Press
    <3>4. CASE down' = down /\ sent' = sent BY <2>1, <3>1, <3>2, <3>4
    <3>5. CASE sent' = TRUE /\ down' = held' BY <2>1, <3>2, <3>5
    <3> QED BY <3>3, <3>4, <3>5
  <2>3. CASE Release
    BY <2>1, <2>3 DEF Release
  <2> QED BY <2>2, <2>3
<1>6. TabOK'
  BY <1>2 DEF tabPage, records, ActsInv, TabOK
<1>7. PlaceOK' /\ FlagsOK'
  <2> PlaceOK'
    BY <1>1, <1>2, <1>3, <1>4, <1>5 DEF records, ActsInv, PlaceOK, Kinds
  <2> FlagsOK'
    BY <1>1, <1>2, <1>3, <1>4, <1>5 DEF records, ActsInv, FlagsOK, Kinds
  <2> QED OBVIOUS
<1>8. SeenOK'
  BY <1>1, <1>2, <1>3, <1>4 DEF tabPage, records, ActsInv, SeenOK, Before, After
<1>9. PressedOK'
  <2>1. reply' # "not sent"
    BY <1>2, <1>3 DEF ActsInv, PressedOK
  <2> QED BY <1>1, <1>2, <1>4, <1>5, <2>1 DEF PressedOK, Before
<1> QED
  BY <1>6, <1>7, <1>8, <1>9 DEF ActsInv

\* The answer to a dialog, and what is let go after it.
LEMMA AnswersKeep ==
    ASSUME ActsInv, AnswersDialog \/ LetsGoPending PROVE ActsInv'
<1>1. act.kind = "dialog" /\ act # NoAct /\ ~held /\ reply # "not sent"
  <2>1. act.at \in {"answer", "answered"}
    BY DEF AnswersDialog, LetsGoPending, ActAt
  <2>2. act.kind = "dialog"
    BY <2>1 DEF ActsInv, PlaceOK
  <2>3. act # NoAct
    BY <2>2, AtNoAct
  <2> QED BY <2>1, <2>2, <2>3 DEF ActsInv, PressedOK
<1>2. CASE AnswersDialog
  <2>1. act' = [act EXCEPT !.at = "answered"] /\ sent' = (dialog # 0) /\ Closes
        /\ UNCHANGED <<doc, meaning, hit, focused, dialogs, records, down, pendingInput, held, asSeen, reached, reply, uncertain, controlled>>
    BY <1>2 DEF AnswersDialog, Steps
  <2>2. act' \in ActType /\ act'.kind = "dialog" /\ act'.at = "answered"
    BY <1>1, <2>1, ActGoes DEF ActsInv, PlaceOK, ActPlaces
  <2>3. TabOK'
    BY <2>1 DEF Closes, records, ActsInv, TabOK
  <2>4. PlaceOK' /\ FlagsOK'
    <3> PlaceOK'
      BY <2>1, <2>2 DEF records, ActsInv, PlaceOK
    <3> FlagsOK'
      BY <2>1, <2>2 DEF records, ActsInv, FlagsOK
    <3> QED OBVIOUS
  <2>5. SeenOK'
    BY <2>2 DEF SeenOK, Kinds
  <2>6. PressedOK'
    BY <1>1, <2>1, <2>2 DEF ActsInv, PressedOK, Before
  <2> QED BY <2>3, <2>4, <2>5, <2>6 DEF ActsInv
<1>3. CASE LetsGoPending
  <2>1. act' = NoAct /\ UNCHANGED <<tabPage, records, held, sent, closings, asSeen, reached, controlled>>
    BY <1>3 DEF LetsGoPending
  <2>2. act' \in ActType /\ act'.kind = "none" /\ act'.at = "idle"
    BY <2>1 DEF NoAct, ActType, ActPlaces
  <2>3. /\ reply' \in {"done", "uncertain"} /\ uncertain' \in BOOLEAN /\ down' \in BOOLEAN /\ pendingInput' \in BOOLEAN
        /\ (down' => pendingInput')
    <3>1. down \in BOOLEAN /\ pendingInput \in BOOLEAN /\ uncertain \in BOOLEAN /\ (down => pendingInput)
      BY <1>1 DEF ActsInv, FlagsOK, PressedOK
    <3>2. \/ ~pendingInput /\ down' = down /\ pendingInput' = pendingInput
          \/ down' = FALSE /\ pendingInput' = FALSE
          \/ down' = down /\ pendingInput' = pendingInput
      BY <1>3 DEF LetsGoPending, LetsGo
    <3>3. PICK says \in {"done", "uncertain"} : reply' = says /\ uncertain' = (uncertain \/ says = "uncertain")
      BY <1>3 DEF LetsGoPending, Reply
    <3>4. uncertain' \in BOOLEAN /\ reply' \in {"done", "uncertain"}
      BY <3>1, <3>3
    <3>5. CASE ~pendingInput /\ down' = down /\ pendingInput' = pendingInput BY <3>1, <3>4, <3>5
    <3>6. CASE down' = FALSE /\ pendingInput' = FALSE BY <3>4, <3>6
    <3>7. CASE down' = down /\ pendingInput' = pendingInput BY <3>1, <3>4, <3>7
    <3> QED BY <3>2, <3>5, <3>6, <3>7
  <2>4. TabOK'
    BY <2>1 DEF tabPage, records, ActsInv, TabOK
  <2>5. PlaceOK' /\ FlagsOK'
    <3> PlaceOK'
      BY <2>1, <2>2, <2>3 DEF records, ActsInv, PlaceOK
    <3> FlagsOK'
      BY <2>1, <2>2, <2>3 DEF records, ActsInv, FlagsOK
    <3> QED OBVIOUS
  <2>6. SeenOK'
    BY <2>2 DEF SeenOK, Kinds
  <2>7. PressedOK'
    BY <1>1, <2>1, <2>2, <2>3 DEF ActsInv, PressedOK, Before
  <2> QED BY <2>4, <2>5, <2>6, <2>7 DEF ActsInv
<1> QED
  BY <1>2, <1>3

\* A step that changes nothing.
LEMMA ActsStutter ==
    ASSUME ActsInv, UNCHANGED actVars PROVE ActsInv'
<1>1. UNCHANGED <<tabPage, records, input, closings, act, asSeen, reached, reply, uncertain, controlled>>
  BY DEF actVars
<1>2. TabOK'
  BY <1>1 DEF tabPage, records, ActsInv, TabOK
<1>3. PlaceOK' /\ FlagsOK'
  <2> PlaceOK'
    BY <1>1 DEF records, input, ActsInv, PlaceOK
  <2> FlagsOK'
    BY <1>1 DEF records, input, ActsInv, FlagsOK
  <2> QED OBVIOUS
<1>4. SeenOK' /\ PressedOK'
  BY <1>1 DEF tabPage, records, input, ActsInv, SeenOK, PressedOK
<1> QED
  BY <1>2, <1>3, <1>4 DEF ActsInv

\* The inductive invariant of an action in a tab.
LEMMA ActsAlways == Spec_Acts => []ActsInv
<1>1. ActsInv /\ [Next_Acts]_actVars => ActsInv'
  <2> SUFFICES ASSUME ActsInv, [Next_Acts]_actVars PROVE ActsInv'
    OBVIOUS
  <2>1. CASE PageChanges \/ PageMoves \/ FocusMoves \/ DialogOpens \/ DialogClosed \/ NewDocument
    BY <2>1, PageStepsKeep
  <2>2. CASE Observe \/ Evicts \/ FocusTab \/ HumanAnswers \/ ResumeTab
    BY <2>2, RestStepsKeep
  <2>3. CASE \E kind \in Kinds : Asks(kind)
    BY <2>3, AsksKeep
  <2>4. CASE AsksDialog
    BY <2>4, AsksKeep DEF Kinds
  <2>5. CASE Refusal \/ Verifies \/ CallFails
    BY <2>5, EndsKeep
  <2>6. CASE Captures \/ Inspects \/ Settles
    BY <2>6, PrepareKeeps
  <2>7. CASE Locates \/ Focuses \/ Tests
    BY <2>7, FindingKeeps
  <2>8. CASE Press \/ Release
    BY <2>8, InputKeeps
  <2>9. CASE AnswersDialog \/ LetsGoPending
    BY <2>9, AnswersKeep
  <2>10. CASE UNCHANGED actVars
    BY <2>10, ActsStutter
  <2> QED
    BY <2>1, <2>2, <2>3, <2>4, <2>5, <2>6, <2>7, <2>8, <2>9, <2>10 DEF Next_Acts
<1> QED
  BY ActsStart, <1>1, PTL DEF Spec_Acts

\* Every variable of an action in a tab keeps to its type.
THEOREM ActsTypeCorrect == Spec_Acts => []ActsTypeOK
<1>1. ActsInv => ActsTypeOK
  BY DEF ActsInv, TabOK, PlaceOK, FlagsOK, ActType, ActsTypeOK, Elements
<1> QED
  BY ActsAlways, <1>1, PTL

\* act, prepare, input_driver.py: input reaches only an element that was as the client saw
\* it, "not sent" is true, and whatever the page takes for pressed is held or remembered.
THEOREM ActsKeepTheirWord == Spec_Acts => []ActKeepsItsWord
<1>1. ASSUME ActsInv PROVE ActKeepsItsWord
  <2>1. SentAsSeen
    <3> SUFFICES ASSUME sent, act.kind \in Kinds PROVE asSeen /\ reached /\ seenAs.generation = generation
      BY DEF SentAsSeen
    <3>1. act.at \in After
      BY <1>1 DEF ActsInv, PlaceOK, PressedOK, ActType, ActPlaces, Kinds
    <3> QED BY <1>1, <3>1 DEF ActsInv, SeenOK, Before, After
  <2>2. NotSentIsTrue
    BY <1>1 DEF ActsInv, PressedOK, NotSentIsTrue
  <2>3. NothingLeftPressed
    BY <1>1, AtNoAct DEF ActsInv, PressedOK, NothingLeftPressed
  <2> QED BY <2>1, <2>2, <2>3 DEF ActKeepsItsWord
<1> QED
  BY ActsAlways, <1>1, PTL

-----------------------------------------------------------------------------
(***************************************************************************)
(* Downloads.                                                              *)
(*                                                                         *)
(* What an event says of a whole file stays so, and a download that began  *)
(* under private control never runs; with the limits that every step       *)
(* checks, this is what a client can read.                                 *)
(***************************************************************************)
FileEnds == {"inProgress", "completed", "canceled"}
FileEvents == [kind : {"began", "progress"}, guid : Guids, state : FileEnds, got : 0..MaxSize]
Callbacks == [at : {"idle"}] \cup [at : {"reserve", "track"}, guid : Guids]
             \cup [at : {"account"}, guid : Guids, state : FileEnds, got : 0..MaxSize]
Artifacts == [state : {"none", "size_limit"} \cup FileEnds, size : 0..MaxSize]

FilesTyped ==
    /\ running \in [Guids -> [state : {"none"} \cup FileEnds, got : 0..MaxSize]]
    /\ private \subseteq Guids /\ disk \subseteq Names /\ tracked \subseteq Guids
    /\ events \in Seq(FileEvents) /\ handler \in Callbacks
    /\ item \in [Names -> Artifacts]
    /\ filesPaused \in BOOLEAN /\ behavior \in {"allow", "deny"}
    /\ control \in {"none", "pausing", "denying", "held", "resuming", "closed"}

\* Who is told that a file is whole is told its size.
ToldWhole(e) == e.state = "completed" => running[e.guid] = [state |-> "completed", got |-> e.got]
EventsTrue ==
    /\ \A i \in 1..Len(events) : events[i].kind = "progress" => ToldWhole(events[i])
    /\ handler.at = "account" => ToldWhole(handler)

\* While a human has control no download runs that began then.
PrivateStopped ==
    /\ control \in {"denying", "held"} => behavior = "deny"
    /\ \A g \in private : running[g].state = "canceled"

\* A completed download is the whole file.
Readable(items) == {n \in Names : items[n].state = "completed"}
FilesWhole ==
    \A g \in Readable(item) \cap Guids : running[g].state = "completed" /\ item[g].size = running[g].got

\* All that is readable is within the limits.
Filled(items) == {n \in Names : items[n].size # 0}
WithinLimits ==
    /\ IsFiniteSet(Filled(item))
    /\ \A n \in Readable(item) : item[n].size <= FileBytes
    /\ Held(item, Readable(item)) <= MaxBytes

FilesInv == FilesTyped /\ EventsTrue /\ PrivateStopped /\ FilesWhole /\ WithinLimits
-----------------------------------------------------------------------------
\* How much artifacts hold

\* Finitely many artifacts hold finitely many units.
LEMMA FiniteUnits ==
    ASSUME NEW it \in [Names -> Artifacts], IsFiniteSet(Filled(it)), NEW S \in SUBSET Names
    PROVE  IsFiniteSet(HeldUnits(it, S)) /\ Held(it, S) \in Nat
<1>1. IsFiniteSet(1..MaxSize) /\ MaxSize \in Nat
  BY FS_Interval, DownloadsConstants
<1>2. IsFiniteSet(Filled(it) \X (1..MaxSize))
  BY <1>1, FS_Product
<1>3. HeldUnits(it, S) \subseteq Filled(it) \X (1..MaxSize)
  <2> SUFFICES ASSUME NEW u \in HeldUnits(it, S) PROVE u \in Filled(it) \X (1..MaxSize)
    OBVIOUS
  <2>1. u \in S \X (1..MaxSize) /\ u[2] <= it[u[1]].size
    BY DEF HeldUnits
  <2>2. u[1] \in Names /\ u[2] \in 1..MaxSize /\ it[u[1]].size \in 0..MaxSize
    BY <2>1 DEF Artifacts
  <2>3. it[u[1]].size # 0
    BY <1>1, <2>1, <2>2
  <2> QED
    BY <2>1, <2>2, <2>3 DEF Filled
<1>4. IsFiniteSet(HeldUnits(it, S))
  BY <1>2, <1>3, FS_Subset
<1> QED
  BY <1>4, FS_CardinalityType DEF Held

\* More artifacts, or larger ones, hold no less.
LEMMA HeldGrows ==
    ASSUME NEW it \in [Names -> Artifacts], IsFiniteSet(Filled(it)),
           NEW jt \in [Names -> Artifacts], NEW S \in SUBSET Names, NEW T \in SUBSET Names,
           T \subseteq S, \A n \in T : jt[n].size = it[n].size
    PROVE  Held(jt, T) <= Held(it, S)
<1>1. IsFiniteSet(HeldUnits(it, S))
  BY FiniteUnits
<1>2. HeldUnits(jt, T) \subseteq HeldUnits(it, S)
  <2> SUFFICES ASSUME NEW u \in HeldUnits(jt, T) PROVE u \in HeldUnits(it, S)
    OBVIOUS
  <2>1. u \in T \X (1..MaxSize) /\ u[2] <= jt[u[1]].size
    BY DEF HeldUnits
  <2>2. u[1] \in T /\ u \in S \X (1..MaxSize)
    BY <2>1
  <2> QED
    BY <2>1, <2>2 DEF HeldUnits
<1> QED
  BY <1>1, <1>2, FS_Subset DEF Held

\* One artifact more, of so many units.
LEMMA HeldWithOne ==
    ASSUME NEW it \in [Names -> Artifacts], IsFiniteSet(Filled(it)), NEW x \in Names,
           NEW size \in 0..MaxSize, NEW jt \in [Names -> Artifacts], jt[x].size = size,
           NEW T \in SUBSET Names, \A n \in T \ {x} : jt[n].size = it[n].size
    PROVE  Held(jt, T) <= Held(it, Names) + size
<1>0. MaxSize \in Nat
  BY DownloadsConstants
<1> DEFINE A == HeldUnits(it, Names)
           B == {x} \X (1..size)
<1>1. IsFiniteSet(A) /\ Cardinality(A) = Held(it, Names)
  BY FiniteUnits DEF Held
<1>2. IsFiniteSet(B) /\ Cardinality(B) = size
  <2>1. IsFiniteSet({x}) /\ Cardinality({x}) = 1
    BY FS_Singleton
  <2>2. IsFiniteSet(1..size) /\ Cardinality(1..size) = size
    BY <1>0, FS_Interval
  <2>3. Cardinality(B) = Cardinality({x}) * Cardinality(1..size) /\ IsFiniteSet(B)
    BY <2>1, <2>2, FS_Product
  <2> QED
    BY <1>0, <2>1, <2>2, <2>3
<1>3. HeldUnits(jt, T) \subseteq A \cup B
  <2> SUFFICES ASSUME NEW u \in HeldUnits(jt, T), u \notin B PROVE u \in A
    OBVIOUS
  <2>1. u \in T \X (1..MaxSize) /\ u[2] <= jt[u[1]].size
    BY DEF HeldUnits
  <2>2. u[1] # x
    BY <1>0, <2>1
  <2>3. u[1] \in T \ {x} /\ u \in Names \X (1..MaxSize)
    BY <2>1, <2>2
  <2> QED
    BY <2>1, <2>3 DEF HeldUnits
<1> HIDE DEF A, B
<1>4. /\ IsFiniteSet(A \cup B)
      /\ Cardinality(A \cup B) = Cardinality(A) + Cardinality(B) - Cardinality(A \cap B)
  BY <1>1, <1>2, FS_Union
<1>5. Cardinality(A \cap B) \in Nat /\ Cardinality(A) \in Nat
  <2>1. IsFiniteSet(A \cap B)
    BY <1>1, FS_Subset
  <2> QED
    BY <1>1, <2>1, FS_CardinalityType
<1>6. Cardinality(HeldUnits(jt, T)) <= Cardinality(A \cup B) /\ Cardinality(HeldUnits(jt, T)) \in Nat
  BY <1>3, <1>4, FS_Subset, FS_CardinalityType
<1>7. Cardinality(A \cup B) <= Held(it, Names) + size
  BY <1>0, <1>1, <1>2, <1>4, <1>5
<1> QED
  BY <1>0, <1>1, <1>2, <1>4, <1>5, <1>6, <1>7 DEF Held
-----------------------------------------------------------------------------
\* What the actions do to a download

\* A download is ahead or behind, and what has ended stays as it ended.
Onward == \A g \in Guids : running'[g] = running[g] \/ running[g].state \in {"none", "inProgress"}

\* Canceling ends what runs, and removes files.
LEMMA CancelFacts ==
    ASSUME FilesTyped, NEW S, Cancels(S) \/ CancelFails
    PROVE  /\ running' \in [Guids -> [state : {"none"} \cup FileEnds, got : 0..MaxSize]]
           /\ Onward /\ disk' \subseteq Names
<1>1. running \in [Guids -> [state : {"none"} \cup FileEnds, got : 0..MaxSize]] /\ disk \subseteq Names
  BY DEF FilesTyped
<1>2. CASE Cancels(S)
  <2> DEFINE stopped == {g \in S : running[g].state = "inProgress"}
  <2>1. /\ running' = [g \in Guids |-> IF g \in stopped
                                      THEN [running[g] EXCEPT !.state = "canceled"] ELSE running[g]]
        /\ disk' = disk \ stopped
    BY <1>2 DEF Cancels
  <2>2. \A g \in Guids : [running[g] EXCEPT !.state = "canceled"]
                         \in [state : {"none"} \cup FileEnds, got : 0..MaxSize]
    BY <1>1 DEF FileEnds
  <2>3. Onward
    BY <2>1 DEF Onward
  <2> HIDE DEF stopped
  <2> QED
    BY <1>1, <2>1, <2>2, <2>3
<1>3. CASE CancelFails
  BY <1>1, <1>3 DEF CancelFails, Onward
<1> QED
  BY <1>2, <1>3

\* What was true of a download that has ended stays true.
LEMMA OnwardKeeps ==
    ASSUME FilesInv, Onward
    PROVE  /\ \A i \in 1..Len(events) :
                events[i].kind = "progress" => (events[i].state = "completed" =>
                  running'[events[i].guid] = [state |-> "completed", got |-> events[i].got])
           /\ handler.at = "account" => (handler.state = "completed" =>
                running'[handler.guid] = [state |-> "completed", got |-> handler.got])
           /\ \A g \in private : running'[g].state = "canceled"
           /\ \A g \in Readable(item) \cap Guids :
                running'[g].state = "completed" /\ item[g].size = running'[g].got
<1>1. FilesTyped /\ EventsTrue /\ PrivateStopped /\ FilesWhole
  BY DEF FilesInv
<1>2. ASSUME NEW i \in 1..Len(events), events[i].kind = "progress", events[i].state = "completed"
      PROVE  running'[events[i].guid] = [state |-> "completed", got |-> events[i].got]
  <2>1. events[i].guid \in Guids
    <3>1. events \in Seq(FileEvents)
      BY <1>1 DEF FilesTyped
    <3>2. events[i] \in FileEvents
      BY <3>1, ElementOfSeq
    <3> QED
      BY <3>2 DEF FileEvents
  <2>2. running[events[i].guid] = [state |-> "completed", got |-> events[i].got]
    BY <1>1, <1>2 DEF EventsTrue, ToldWhole
  <2> QED
    BY <2>1, <2>2 DEF Onward
<1>3. ASSUME handler.at = "account", handler.state = "completed"
      PROVE  running'[handler.guid] = [state |-> "completed", got |-> handler.got]
  <2>1. handler.guid \in Guids
    BY <1>1, <1>3 DEF FilesTyped, Callbacks
  <2>2. running[handler.guid] = [state |-> "completed", got |-> handler.got]
    BY <1>1, <1>3 DEF EventsTrue, ToldWhole
  <2> QED
    BY <2>1, <2>2 DEF Onward
<1>4. \A g \in private : running'[g].state = "canceled"
  BY <1>1 DEF FilesTyped, PrivateStopped, Onward
<1>5. \A g \in Readable(item) \cap Guids :
        running'[g].state = "completed" /\ item[g].size = running'[g].got
  BY <1>1 DEF FilesWhole, Onward
<1> QED
  BY <1>2, <1>3, <1>4, <1>5

\* The head of the queue, and what is left of it.
LEMMA EventFacts ==
    ASSUME FilesInv, NEW kind, Handles(kind)
    PROVE  /\ Event \in FileEvents /\ Event.kind = kind /\ events' \in Seq(FileEvents)
           /\ kind = "progress" => ToldWhole(Event)
           /\ \A i \in 1..Len(events') : \E j \in 1..Len(events) : events'[i] = events[j]
<1>1. events \in Seq(FileEvents) /\ events # <<>> /\ events' = Tail(events) /\ Head(events).kind = kind
  BY DEF FilesInv, FilesTyped, Handles
<1>2. /\ Head(events) \in FileEvents /\ events' \in Seq(FileEvents) /\ Len(events) \in Nat
      /\ Len(events') = Len(events) - 1 /\ \A i \in 1..Len(events') : events'[i] = events[i + 1]
      /\ Head(events) = events[1] /\ Len(events) # 0
  BY <1>1, HeadTailProperties, LenProperties, EmptySeq
<1>3. kind = "progress" => ToldWhole(Event)
  <2>1. 1 \in 1..Len(events)
    BY <1>2
  <2> QED
    BY <1>1, <1>2, <2>1 DEF FilesInv, EventsTrue, Event
<1>4. ASSUME NEW i \in 1..Len(events') PROVE \E j \in 1..Len(events) : events'[i] = events[j]
  <2>1. i + 1 \in 1..Len(events)
    BY <1>2
  <2> QED
    BY <1>2, <2>1
<1> QED
  BY <1>1, <1>2, <1>3, <1>4 DEF Event

\* A new event is the last of the queue.
LEMMA ToldFacts ==
    ASSUME FilesInv, NEW e \in FileEvents, events' = Append(events, e)
    PROVE  /\ events' \in Seq(FileEvents) /\ Len(events) \in Nat /\ Len(events') = Len(events) + 1
           /\ events'[Len(events) + 1] = e /\ \A i \in 1..Len(events) : events'[i] = events[i]
BY AppendProperties, LenProperties DEF FilesInv, FilesTyped

\* If no other artifact can be read than before, what can be read is right.
LEMMA FewerKeeps ==
    ASSUME FilesInv, FilesTyped', Onward, NEW x \in Names,
           \A n \in Names : item'[n].state = "completed" => item'[n] = item[n],
           \A n \in Names \ {x} : item'[n].size # 0 => item[n].size # 0
    PROVE  FilesWhole' /\ WithinLimits'
<1>1. item \in [Names -> Artifacts] /\ item' \in [Names -> Artifacts]
  BY DEF FilesInv, FilesTyped
<1>2. Readable(item') \subseteq Readable(item) /\ \A n \in Readable(item') : item'[n] = item[n]
  BY DEF Readable
<1>3. FilesWhole'
  <2>1. \A g \in Readable(item) \cap Guids :
          running'[g].state = "completed" /\ item[g].size = running'[g].got
    BY OnwardKeeps
  <2> QED
    BY <1>2, <2>1 DEF FilesWhole
<1>4. IsFiniteSet(Filled(item')) /\ IsFiniteSet(Filled(item))
  <2>1. IsFiniteSet(Filled(item))
    BY DEF FilesInv, WithinLimits
  <2>2. IsFiniteSet(Filled(item) \cup {x})
    BY <2>1, FS_AddElement
  <2>3. Filled(item') \subseteq Filled(item) \cup {x}
    BY DEF Filled
  <2> QED
    BY <2>1, <2>2, <2>3, FS_Subset
<1>5. Held(item', Readable(item')) <= Held(item, Readable(item))
  <2>1. Readable(item) \subseteq Names /\ Readable(item') \subseteq Names
    BY DEF Readable
  <2> QED
    BY <1>1, <1>2, <1>4, <2>1, HeldGrows
<1>6. /\ Held(item, Readable(item)) <= MaxBytes
      /\ Held(item, Readable(item)) \in Nat /\ Held(item', Readable(item')) \in Nat
  <2>1. Readable(item) \subseteq Names /\ Readable(item') \subseteq Names
    BY DEF Readable
  <2>2. Held(item, Readable(item)) \in Nat
    BY <1>1, <1>4, <2>1, FiniteUnits
  <2>3. Held(item', Readable(item')) \in Nat
    BY <1>1, <1>4, <2>1, FiniteUnits
  <2> QED
    BY <2>2, <2>3 DEF FilesInv, WithinLimits
<1>7. Held(item', Readable(item')) <= MaxBytes
  BY <1>5, <1>6, DownloadsConstants
<1>8. \A n \in Readable(item') : item'[n].size <= FileBytes
  BY <1>2 DEF FilesInv, WithinLimits
<1> QED
  BY <1>3, <1>4, <1>7, <1>8 DEF WithinLimits

\* The same artifacts are as right as they were.
LEMMA SameKeeps ==
    ASSUME FilesInv, FilesTyped', Onward, item' = item
    PROVE  FilesWhole' /\ WithinLimits'
<1>1. Export \in Names
  BY DEF Names
<1> QED
  BY <1>1, FewerKeeps

\* The events that were true are true, and a callback that accounts is told of one.
LEMMA EventsKeep ==
    ASSUME FilesInv, Onward, events' = events,
           handler'.at = "account" => handler' = handler
    PROVE  EventsTrue'
BY OnwardKeeps DEF EventsTrue, ToldWhole

LEMMA TakenKeeps ==
    ASSUME FilesInv, Onward, NEW kind, Handles(kind),
           handler'.at = "account" =>
             /\ kind = "progress"
             /\ handler'.state = Event.state /\ handler'.guid = Event.guid /\ handler'.got = Event.got
    PROVE  EventsTrue'
<1>1. /\ Event \in FileEvents /\ Event.kind = kind /\ events' \in Seq(FileEvents)
      /\ kind = "progress" => ToldWhole(Event)
      /\ \A i \in 1..Len(events') : \E j \in 1..Len(events) : events'[i] = events[j]
  BY EventFacts
<1>2. \A i \in 1..Len(events') : events'[i].kind = "progress" => (events'[i].state = "completed" =>
        running'[events'[i].guid] = [state |-> "completed", got |-> events'[i].got])
  <2> TAKE i \in 1..Len(events')
  <2>1. PICK j \in 1..Len(events) : events'[i] = events[j]
    BY <1>1
  <2>2. events[j].kind = "progress" => (events[j].state = "completed" =>
          running'[events[j].guid] = [state |-> "completed", got |-> events[j].got])
    BY OnwardKeeps
  <2> QED
    BY <2>1, <2>2
<1>3. kind = "progress" => (Event.state = "completed" =>
        running'[Event.guid] = [state |-> "completed", got |-> Event.got])
  <2>1. Event.guid \in Guids
    BY <1>1 DEF FileEvents
  <2> QED
    BY <1>1, <2>1 DEF Onward, ToldWhole
<1> QED
  BY <1>2, <1>3 DEF EventsTrue, ToldWhole

LEMMA ToldKeeps ==
    ASSUME FilesInv, Onward, NEW e \in FileEvents, events' = Append(events, e), handler' = handler,
           e.kind = "progress" => (e.state = "completed" =>
             running'[e.guid] = [state |-> "completed", got |-> e.got])
    PROVE  EventsTrue'
<1>1. /\ Len(events) \in Nat /\ Len(events') = Len(events) + 1
      /\ events'[Len(events) + 1] = e /\ \A i \in 1..Len(events) : events'[i] = events[i]
  BY ToldFacts
<1>2. \A i \in 1..Len(events') : events'[i].kind = "progress" => (events'[i].state = "completed" =>
        running'[events'[i].guid] = [state |-> "completed", got |-> events'[i].got])
  <2> TAKE i \in 1..Len(events')
  <2>1. CASE i = Len(events) + 1
    BY <1>1, <2>1
  <2>2. CASE i \in 1..Len(events)
    BY <1>1, <2>2, OnwardKeeps
  <2> QED
    BY <1>1, <2>1, <2>2
<1>3. handler'.at = "account" => (handler'.state = "completed" =>
        running'[handler'.guid] = [state |-> "completed", got |-> handler'.got])
  BY OnwardKeeps
<1> QED
  BY <1>2, <1>3 DEF EventsTrue, ToldWhole

\* Private control: nothing that it stopped runs again.
LEMMA ControlKeeps ==
    ASSUME FilesInv, Onward, control' \in {"denying", "held"} => behavior' = "deny",
           \A g \in private' : g \in private \/ running'[g].state = "canceled"
    PROVE  PrivateStopped'
BY OnwardKeeps DEF PrivateStopped
-----------------------------------------------------------------------------
\* The actions

LEMMA BeginsKeeps == ASSUME FilesInv, NEW g \in Guids, DownloadBegins(g) PROVE FilesInv'
<1>1. FilesTyped /\ PrivateStopped
  BY DEF FilesInv
<1>2. /\ running[g].state = "none"
      /\ private' = IF control = "held" THEN private \cup {g} ELSE private
      /\ running' = [running EXCEPT ![g].state = IF behavior = "deny" THEN "canceled" ELSE "inProgress"]
      /\ disk' = IF behavior = "deny" THEN disk ELSE disk \cup {g}
      /\ UNCHANGED Adapter
  BY DEF DownloadBegins
<1>3. /\ running \in [Guids -> [state : {"none"} \cup FileEnds, got : 0..MaxSize]]
      /\ running' \in [Guids -> [state : {"none"} \cup FileEnds, got : 0..MaxSize]]
      /\ running'[g].state = IF behavior = "deny" THEN "canceled" ELSE "inProgress"
      /\ \A o \in Guids \ {g} : running'[o] = running[o]
  BY <1>1, <1>2 DEF FilesTyped, FileEnds
<1>4. Onward
  BY <1>2, <1>3 DEF Onward
<1> DEFINE e == [kind |-> "began", guid |-> g, state |-> running'[g].state, got |-> 0]
<1>5. e \in FileEvents /\ e.kind = "began" /\ events' = Append(events, e)
  <2>1. running'[g].state \in FileEnds /\ 0 \in 0..MaxSize
    BY <1>3, DownloadsConstants DEF FileEnds
  <2> QED
    BY <2>1 DEF FileEvents, DownloadBegins, Told
<1> HIDE DEF e
<1>6. FilesTyped'
  <2>1. events' \in Seq(FileEvents)
    BY <1>5, ToldFacts
  <2> QED
    BY <1>1, <1>2, <1>3, <2>1 DEF FilesTyped, Adapter, Names
<1>7. EventsTrue'
  BY <1>2, <1>4, <1>5, ToldKeeps DEF Adapter
<1>8. PrivateStopped'
  <2>1. control = "held" => running'[g].state = "canceled"
    BY <1>1, <1>3 DEF PrivateStopped
  <2>2. \A o \in private' : o \in private \/ running'[o].state = "canceled"
    BY <1>2, <2>1
  <2>3. control' \in {"denying", "held"} => behavior' = "deny"
    BY <1>1, <1>2 DEF PrivateStopped, Adapter
  <2> QED
    BY <1>4, <2>2, <2>3, ControlKeeps
<1> QED
  BY <1>2, <1>4, <1>6, <1>7, <1>8, SameKeeps DEF FilesInv, Adapter

LEMMA ProceedsKeeps == ASSUME FilesInv, NEW g \in Guids, DownloadProceeds(g) PROVE FilesInv'
<1>1. FilesTyped /\ PrivateStopped
  BY DEF FilesInv
<1>2. PICK got \in running[g].got..MaxSize, state \in {"inProgress", "completed"} :
        /\ running' = [running EXCEPT ![g] = [state |-> state, got |-> got]]
        /\ events' = Append(events, [kind |-> "progress", guid |-> g, state |-> state, got |-> got])
  BY DEF DownloadProceeds, Told
<1>3. running[g].state = "inProgress" /\ UNCHANGED <<private, disk, Adapter>>
  BY DEF DownloadProceeds
<1>4. got \in 0..MaxSize
  BY <1>1, DownloadsConstants DEF FilesTyped
<1>5. /\ running \in [Guids -> [state : {"none"} \cup FileEnds, got : 0..MaxSize]]
      /\ running' \in [Guids -> [state : {"none"} \cup FileEnds, got : 0..MaxSize]]
      /\ running'[g] = [state |-> state, got |-> got]
      /\ \A o \in Guids \ {g} : running'[o] = running[o]
  BY <1>1, <1>2, <1>4 DEF FilesTyped, FileEnds
<1>6. Onward
  BY <1>3, <1>5 DEF Onward
<1> DEFINE e == [kind |-> "progress", guid |-> g, state |-> state, got |-> got]
<1>7. /\ e \in FileEvents /\ events' = Append(events, e)
      /\ e.state = "completed" => running'[e.guid] = [state |-> "completed", got |-> e.got]
  BY <1>2, <1>4, <1>5 DEF FileEvents, FileEnds
<1> HIDE DEF e
<1>8. FilesTyped'
  <2>1. events' \in Seq(FileEvents)
    BY <1>7, ToldFacts
  <2> QED
    BY <1>1, <1>3, <1>5, <2>1 DEF FilesTyped, Adapter
<1>9. EventsTrue'
  BY <1>3, <1>6, <1>7, ToldKeeps DEF Adapter
<1>10. PrivateStopped'
  BY <1>1, <1>3, <1>6, ControlKeeps DEF PrivateStopped, Adapter
<1> QED
  BY <1>3, <1>6, <1>8, <1>9, <1>10, SameKeeps DEF FilesInv, Adapter

\* The callbacks that take an event from the queue.
LEMMA CallbackKeeps == ASSUME FilesInv, Began \/ Progressed PROVE FilesInv'
<1>1. FilesTyped /\ PrivateStopped
  BY DEF FilesInv
<1>2. PICK kind : Handles(kind) /\ kind = IF Began THEN "began" ELSE "progress"
  BY DEF Began, Progressed
<1>3. UNCHANGED <<item, tracked, Rest>>
  BY DEF Began, Progressed
<1>4. Event \in FileEvents /\ events' \in Seq(FileEvents)
  BY <1>2, EventFacts
<1>5. /\ running' \in [Guids -> [state : {"none"} \cup FileEnds, got : 0..MaxSize]]
      /\ Onward /\ disk' \subseteq Names
  <2>1. Refuses(Event.guid) \/ CancelFails
    BY DEF Began, Progressed, CancelFails
  <2> QED
    BY <1>1, <2>1, CancelFacts DEF Refuses
<1>6. \/ handler' = Resting
      \/ handler' = [at |-> "reserve", guid |-> Event.guid]
      \/ /\ ~Began
         /\ handler' = [at |-> "account", guid |-> Event.guid, state |-> Event.state, got |-> Event.got]
  BY DEF Began, Progressed, Refuses, Handles
<1>7. handler' \in Callbacks
  BY <1>4, <1>6 DEF Callbacks, FileEvents, Resting
<1>8. FilesTyped'
  BY <1>1, <1>3, <1>4, <1>5, <1>7 DEF FilesTyped, Rest
<1>9. handler'.at = "account" =>
        /\ kind = "progress"
        /\ handler'.state = Event.state /\ handler'.guid = Event.guid /\ handler'.got = Event.got
  BY <1>2, <1>6 DEF Resting
<1>10. EventsTrue'
  BY <1>2, <1>5, <1>9, TakenKeeps
<1>11. PrivateStopped'
  BY <1>1, <1>3, <1>5, ControlKeeps DEF PrivateStopped, Rest
<1> QED
  BY <1>3, <1>5, <1>8, <1>10, <1>11, SameKeeps DEF FilesInv

LEMMA ReservesKeeps == ASSUME FilesInv, Reserves PROVE FilesInv'
<1>1. FilesTyped /\ PrivateStopped
  BY DEF FilesInv
<1>2. handler.at = "reserve" /\ UNCHANGED <<events, tracked, Rest>>
  BY DEF Reserves
<1>3. handler \in [at : {"reserve", "track"}, guid : Guids] /\ handler.guid \in Guids
  BY <1>1, <1>2 DEF FilesTyped, Callbacks
<1>4. \/ Refuses(handler.guid) /\ item' = item
      \/ /\ item' = [item EXCEPT ![handler.guid] = [state |-> "inProgress", size |-> 0]]
         /\ handler' = [handler EXCEPT !.at = "track"] /\ UNCHANGED <<running, disk>>
  BY DEF Reserves
<1>5. /\ running' \in [Guids -> [state : {"none"} \cup FileEnds, got : 0..MaxSize]]
      /\ Onward /\ disk' \subseteq Names
  <2>1. Refuses(handler.guid) \/ CancelFails
    BY <1>4 DEF CancelFails
  <2> QED
    BY <1>1, <2>1, CancelFacts DEF Refuses
<1>6. handler' \in Callbacks /\ handler'.at # "account"
  BY <1>3, <1>4 DEF Callbacks, Refuses, Resting
<1>7. /\ item' \in [Names -> Artifacts]
      /\ \A n \in Names : item'[n].state = "completed" => item'[n] = item[n]
      /\ \A n \in Names : item'[n].size # 0 => item[n].size # 0
  <2>1. item \in [Names -> Artifacts] /\ handler.guid \in Names
    BY <1>1, <1>3 DEF FilesTyped, Names
  <2>2. [state |-> "inProgress", size |-> 0] \in Artifacts
    BY DownloadsConstants DEF Artifacts, FileEnds
  <2> QED
    BY <1>4, <2>1, <2>2
<1>8. FilesTyped'
  BY <1>1, <1>2, <1>5, <1>6, <1>7 DEF FilesTyped, Rest
<1>9. EventsTrue'
  BY <1>2, <1>5, <1>6, EventsKeep
<1>10. PrivateStopped'
  BY <1>1, <1>2, <1>5, ControlKeeps DEF PrivateStopped, Rest
<1>11. FilesWhole' /\ WithinLimits'
  <2>1. Export \in Names
    BY DEF Names
  <2> QED
    BY <1>5, <1>7, <1>8, <2>1, FewerKeeps
<1> QED
  BY <1>8, <1>9, <1>10, <1>11 DEF FilesInv

LEMMA TracksKeeps == ASSUME FilesInv, Tracks PROVE FilesInv'
<1>1. FilesTyped /\ PrivateStopped
  BY DEF FilesInv
<1>2. /\ handler.at = "track" /\ tracked' = tracked \cup {handler.guid} /\ handler' = Resting
      /\ UNCHANGED <<events, item, running, disk, Rest>>
  BY DEF Tracks
<1>3. handler.guid \in Guids
  BY <1>1, <1>2 DEF FilesTyped, Callbacks
<1>4. FilesTyped'
  BY <1>1, <1>2, <1>3 DEF FilesTyped, Rest, Callbacks, Resting
<1>5. Onward
  BY <1>2 DEF Onward
<1>6. EventsTrue'
  BY <1>2, <1>5, EventsKeep DEF Resting
<1>7. PrivateStopped'
  BY <1>1, <1>2, <1>5, ControlKeeps DEF PrivateStopped, Rest
<1> QED
  BY <1>2, <1>4, <1>5, <1>6, <1>7, SameKeeps DEF FilesInv

\* A callback accounts what an event told; if it makes a file readable, it has checked
\* the limits with all that there is.
LEMMA AccountsKeeps == ASSUME FilesInv, Accounts PROVE FilesInv'
<1> DEFINE g == handler.guid
           sized == [item EXCEPT ![g].size = handler.got]
<1>1. FilesTyped /\ PrivateStopped /\ EventsTrue /\ WithinLimits
  BY DEF FilesInv
<1>2. handler.at = "account" /\ UNCHANGED <<events, tracked, Rest>>
  BY DEF Accounts
<1>3. /\ handler.guid \in Guids /\ handler.state \in FileEnds /\ handler.got \in 0..MaxSize
      /\ handler.state = "completed" => running[g] = [state |-> "completed", got |-> handler.got]
  BY <1>1, <1>2 DEF FilesTyped, Callbacks, EventsTrue, ToldWhole
<1>4. \/ Refuses(g) /\ item' = item
      \/ /\ item' = [sized EXCEPT ![g] = Accepted(g, handler.state, sized)]
         /\ Refuses(g) \/ (handler' = Resting /\ CancelFails)
  BY DEF Accounts, CancelFails
<1>5. /\ running' \in [Guids -> [state : {"none"} \cup FileEnds, got : 0..MaxSize]]
      /\ Onward /\ disk' \subseteq Names /\ handler' = Resting
  <2>1. handler' = Resting /\ (Cancels({g}) \/ CancelFails)
    BY <1>4 DEF Refuses
  <2> QED
    BY <1>1, <2>1, CancelFacts
<1>6. handler' \in Callbacks /\ handler'.at # "account"
  BY <1>5 DEF Callbacks, Resting
<1>7. item \in [Names -> Artifacts] /\ g \in Names
  BY <1>1, <1>3 DEF FilesTyped, Names
<1>8. /\ sized \in [Names -> Artifacts] /\ sized[g].size = handler.got
      /\ \A n \in Names \ {g} : sized[n] = item[n]
  BY <1>3, <1>7 DEF Artifacts
<1> HIDE DEF sized, g
<1>9. EventsTrue'
  BY <1>2, <1>5, <1>6, EventsKeep
<1>10. PrivateStopped'
  BY <1>1, <1>2, <1>5, ControlKeeps DEF PrivateStopped, Rest
<1>11. CASE item' = item
  <2>1. FilesTyped'
    BY <1>1, <1>2, <1>5, <1>6, <1>11 DEF FilesTyped, Rest
  <2> QED
    BY <1>5, <1>9, <1>10, <1>11, <2>1, SameKeeps DEF FilesInv
<1>12. CASE item' = [sized EXCEPT ![g] = Accepted(g, handler.state, sized)]
  <2> DEFINE row == Accepted(g, handler.state, sized)
  <2>1. /\ row \in Artifacts /\ row.size = handler.got
        /\ row.state = "completed" =>
             /\ handler.state = "completed"
             /\ ~(sized[g].size > FileBytes) /\ ~(Total(sized) > MaxBytes)
    BY <1>3, <1>8 DEF Accepted, Artifacts
  <2> HIDE DEF row
  <2>2. /\ item' \in [Names -> Artifacts] /\ item'[g] = row
        /\ \A n \in Names \ {g} : item'[n] = item[n]
        /\ \A n \in Names : item'[n].size = sized[n].size
    BY <1>7, <1>8, <1>12, <2>1 DEF row
  <2>3. FilesTyped'
    BY <1>1, <1>2, <1>5, <1>6, <2>2 DEF FilesTyped, Rest
  <2>4. CASE row.state # "completed"
    <3>1. \A n \in Names : item'[n].state = "completed" => item'[n] = item[n]
      BY <2>2, <2>4
    <3>2. \A n \in Names \ {g} : item'[n].size # 0 => item[n].size # 0
      BY <2>2
    <3>3. FilesWhole' /\ WithinLimits'
      BY <1>5, <1>7, <2>3, <3>1, <3>2, FewerKeeps
    <3> QED
      BY <1>9, <1>10, <2>3, <3>3 DEF FilesInv
  <2>5. CASE row.state = "completed"
    <3>1. FilesWhole'
      <4>1. \A o \in Readable(item) \cap Guids :
              running'[o].state = "completed" /\ item[o].size = running'[o].got
        BY <1>5, OnwardKeeps
      <4>2. running'[g].state = "completed" /\ item'[g].size = running'[g].got
        BY <1>3, <1>5, <2>1, <2>2, <2>5 DEF Onward, g
      <4>3. \A o \in Readable(item') : o = g \/ (o \in Readable(item) /\ item'[o] = item[o])
        BY <2>2 DEF Readable
      <4> QED
        BY <4>1, <4>2, <4>3 DEF FilesWhole
    <3>2. IsFiniteSet(Filled(item')) /\ IsFiniteSet(Filled(sized))
      <4>1. IsFiniteSet(Filled(item) \cup {g})
        BY <1>1, FS_AddElement DEF WithinLimits
      <4>2. Filled(item') \subseteq Filled(item) \cup {g} /\ Filled(sized) \subseteq Filled(item) \cup {g}
        BY <1>8, <2>2 DEF Filled
      <4> QED
        BY <4>1, <4>2, FS_Subset
    <3>3. Held(item', Readable(item')) <= MaxBytes
      <4>1. Readable(item') \subseteq Names
        BY DEF Readable
      <4>2. Held(item', Readable(item')) <= Held(sized, Names)
        BY <1>8, <2>2, <3>2, <4>1, HeldGrows
      <4>3. Held(item', Readable(item')) \in Nat /\ Held(sized, Names) \in Nat
        BY <1>8, <2>2, <3>2, <4>1, FiniteUnits
      <4>4. Held(sized, Names) <= MaxBytes
        BY <2>1, <2>5, <4>3, DownloadsConstants DEF Total
      <4> QED
        BY <4>2, <4>3, <4>4, DownloadsConstants
    <3>4. \A n \in Readable(item') : item'[n].size <= FileBytes
      <4>1. item'[g].size <= FileBytes
        BY <1>3, <1>8, <2>1, <2>2, <2>5, DownloadsConstants
      <4>2. \A o \in Readable(item') : o = g \/ (o \in Readable(item) /\ item'[o] = item[o])
        BY <2>2 DEF Readable
      <4> QED
        BY <1>1, <4>1, <4>2 DEF WithinLimits
    <3> QED
      BY <1>9, <1>10, <2>3, <3>1, <3>2, <3>3, <3>4 DEF FilesInv, WithinLimits
  <2> QED
    BY <2>4, <2>5
<1> QED
  BY <1>4, <1>11, <1>12

LEMMA ExportsKeeps == ASSUME FilesInv, NEW size \in 1..MaxSize, Exports(size) PROVE FilesInv'
<1>1. FilesTyped /\ PrivateStopped /\ WithinLimits
  BY DEF FilesInv
<1>2. /\ item[Export] = NoItem /\ size <= FileBytes /\ Total(item) + size <= MaxBytes
      /\ item' = [item EXCEPT ![Export] = [state |-> "completed", size |-> size]]
      /\ disk' = disk \cup {Export}
      /\ UNCHANGED <<running, events, handler, tracked, Rest>>
  BY DEF Exports
<1>3. Export \in Names /\ Export \notin Guids /\ size \in 0..MaxSize
  BY DownloadsConstants DEF Names
<1>4. /\ item \in [Names -> Artifacts] /\ item' \in [Names -> Artifacts]
      /\ item'[Export] = [state |-> "completed", size |-> size]
      /\ \A n \in Names \ {Export} : item'[n] = item[n]
  <2>1. [state |-> "completed", size |-> size] \in Artifacts
    BY <1>3 DEF Artifacts, FileEnds
  <2> QED
    BY <1>1, <1>2, <1>3, <2>1 DEF FilesTyped
<1>5. FilesTyped'
  BY <1>1, <1>2, <1>3, <1>4 DEF FilesTyped, Rest
<1>6. Onward
  BY <1>2 DEF Onward
<1>7. EventsTrue' /\ PrivateStopped'
  BY <1>1, <1>2, <1>6, EventsKeep, ControlKeeps DEF PrivateStopped, Rest
<1>8. \A o \in Readable(item') : o = Export \/ (o \in Readable(item) /\ item'[o] = item[o])
  BY <1>4 DEF Readable
<1>9. FilesWhole'
  <2>1. \A o \in Readable(item) \cap Guids :
          running'[o].state = "completed" /\ item[o].size = running'[o].got
    BY <1>6, OnwardKeeps
  <2> QED
    BY <1>3, <1>8, <2>1 DEF FilesWhole
<1>10. IsFiniteSet(Filled(item)) /\ IsFiniteSet(Filled(item'))
  <2>1. IsFiniteSet(Filled(item)) /\ IsFiniteSet(Filled(item) \cup {Export})
    BY <1>1, FS_AddElement DEF WithinLimits
  <2>2. Filled(item') \subseteq Filled(item) \cup {Export}
    BY <1>4 DEF Filled
  <2> QED
    BY <2>1, <2>2, FS_Subset
<1>11. Held(item', Readable(item')) <= MaxBytes
  <2>1. Readable(item') \subseteq Names
    BY DEF Readable
  <2>2. item'[Export].size = size /\ \A n \in Readable(item') \ {Export} : item'[n].size = item[n].size
    BY <1>4, <2>1
  <2>3. Held(item', Readable(item')) <= Held(item, Names) + size
    BY <1>3, <1>4, <1>10, <2>1, <2>2, HeldWithOne
  <2>4. Held(item', Readable(item')) \in Nat /\ Held(item, Names) \in Nat
    BY <1>4, <1>10, <2>1, FiniteUnits
  <2>5. Held(item, Names) + size <= MaxBytes
    BY <1>2 DEF Total
  <2> QED
    BY <2>3, <2>4, <2>5, DownloadsConstants
<1>12. \A n \in Readable(item') : item'[n].size <= FileBytes
  <2>1. item'[Export].size <= FileBytes
    BY <1>2, <1>4
  <2> QED
    BY <1>1, <1>8, <2>1 DEF WithinLimits
<1> QED
  BY <1>5, <1>7, <1>9, <1>10, <1>11, <1>12 DEF FilesInv, WithinLimits

\* Artifacts that are removed are read by nobody.
LEMMA RemovedFacts ==
    ASSUME item \in [Names -> Artifacts], NEW S, Removed(S)
    PROVE  /\ item' \in [Names -> Artifacts]
           /\ \A n \in Names : item'[n].state = "completed" => item'[n] = item[n]
           /\ \A n \in Names : item'[n].size # 0 => item[n].size # 0
<1>1. item' = [n \in Names |-> IF n \in S THEN NoItem ELSE item[n]]
  BY DEF Removed
<1>2. NoItem \in Artifacts /\ NoItem.state = "none" /\ NoItem.size = 0
  BY DownloadsConstants DEF NoItem, Artifacts, FileEnds
<1> QED
  BY <1>1, <1>2

\* Ending some of the running downloads.
LEMMA StoppedFacts ==
    ASSUME running \in [Guids -> [state : {"none"} \cup FileEnds, got : 0..MaxSize]], NEW S,
           running' = [g \in Guids |-> IF g \in S /\ running[g].state = "inProgress"
                                       THEN [running[g] EXCEPT !.state = "canceled"] ELSE running[g]]
    PROVE  running' \in [Guids -> [state : {"none"} \cup FileEnds, got : 0..MaxSize]] /\ Onward
<1>1. \A g \in Guids : [running[g] EXCEPT !.state = "canceled"]
                       \in [state : {"none"} \cup FileEnds, got : 0..MaxSize]
  BY DEF FileEnds
<1>2. running' \in [Guids -> [state : {"none"} \cup FileEnds, got : 0..MaxSize]]
  BY <1>1
<1> QED
  BY <1>2 DEF Onward

\* A step that removes artifacts.
LEMMA ArtifactsGone ==
    ASSUME FilesInv, NEW S, Removed(S), Onward,
           running' \in [Guids -> [state : {"none"} \cup FileEnds, got : 0..MaxSize]],
           disk' \subseteq disk, tracked' \subseteq tracked,
           events' = events \/ events' = <<>>, handler' = handler,
           UNCHANGED <<private, filesPaused, behavior>>,
           control' = control \/ control' = "closed"
    PROVE  FilesInv'
<1>1. FilesTyped /\ PrivateStopped
  BY DEF FilesInv
<1>2. /\ item' \in [Names -> Artifacts]
      /\ \A n \in Names : item'[n].state = "completed" => item'[n] = item[n]
      /\ \A n \in Names : item'[n].size # 0 => item[n].size # 0
  BY <1>1, RemovedFacts DEF FilesTyped
<1>3. FilesTyped'
  <2>1. events' \in Seq(FileEvents)
    <3>1. CASE events' = events
      BY <3>1, <1>1 DEF FilesTyped
    <3>2. CASE events' = <<>>
      <4>1. <<>> \in Seq(FileEvents)
        OBVIOUS
      <4> QED
        BY <3>2, <4>1
    <3> QED
      BY <3>1, <3>2
  <2> QED
    BY <1>1, <1>2, <2>1 DEF FilesTyped
<1>4. EventsTrue'
  <2>1. CASE events' = events
    BY <2>1, EventsKeep
  <2>2. CASE events' = <<>>
    <3>1. Len(events') = 0
      BY <2>2
    <3>2. handler'.at = "account" => (handler'.state = "completed" =>
            running'[handler'.guid] = [state |-> "completed", got |-> handler'.got])
      BY OnwardKeeps
    <3> QED
      BY <3>1, <3>2 DEF EventsTrue, ToldWhole
  <2> QED
    BY <2>1, <2>2
<1>5. PrivateStopped'
  BY <1>1, ControlKeeps DEF PrivateStopped
<1>6. FilesWhole' /\ WithinLimits'
  <2>1. Export \in Names
    BY DEF Names
  <2> QED
    BY <1>2, <1>3, <2>1, FewerKeeps
<1> QED
  BY <1>3, <1>4, <1>5, <1>6 DEF FilesInv

LEMMA DeletesKeeps == ASSUME FilesInv, NEW n \in Names, Deletes(n) \/ Expires(n) PROVE FilesInv'
<1>1. running \in [Guids -> [state : {"none"} \cup FileEnds, got : 0..MaxSize]]
  BY DEF FilesInv, FilesTyped
<1>2. Removed({n}) /\ disk' = disk \ {n} /\ UNCHANGED <<events, handler, Rest>>
  BY DEF Deletes, Expires
<1>3. tracked' \subseteq tracked
  BY DEF Deletes, Expires
<1>4. running' \in [Guids -> [state : {"none"} \cup FileEnds, got : 0..MaxSize]] /\ Onward
  <2>1. CASE Expires(n)
    BY <1>1, <2>1 DEF Expires, Onward
  <2>2. CASE Deletes(n)
    <3>1. PICK S : running' = [g \in Guids |-> IF g \in S /\ running[g].state = "inProgress"
                                THEN [running[g] EXCEPT !.state = "canceled"] ELSE running[g]]
      BY <2>2 DEF Deletes
    <3> QED
      BY <1>1, <3>1, StoppedFacts
  <2> QED
    BY <2>1, <2>2
<1> QED
  BY <1>2, <1>3, <1>4, ArtifactsGone DEF Rest

LEMMA ClosesKeeps == ASSUME FilesInv, ClosesWork PROVE FilesInv'
<1>1. running \in [Guids -> [state : {"none"} \cup FileEnds, got : 0..MaxSize]]
  BY DEF FilesInv, FilesTyped
<1>2. /\ Removed(Names) /\ disk' \subseteq disk /\ control' = "closed" /\ events' = <<>>
      /\ UNCHANGED <<private, handler, tracked, filesPaused, behavior>>
      /\ running' = [g \in Guids |-> IF running[g].state = "inProgress"
                                     THEN [running[g] EXCEPT !.state = "canceled"] ELSE running[g]]
  BY DEF ClosesWork
<1>3. running' = [g \in Guids |-> IF g \in Guids /\ running[g].state = "inProgress"
                                  THEN [running[g] EXCEPT !.state = "canceled"] ELSE running[g]]
  BY <1>2
<1>4. running' \in [Guids -> [state : {"none"} \cup FileEnds, got : 0..MaxSize]] /\ Onward
  BY <1>1, <1>3, StoppedFacts
<1> QED
  BY <1>2, <1>4, ArtifactsGone

\* Private control, and the files that are left of a closed work.
LEMMA ControlStepKeeps ==
    ASSUME FilesInv, Reaps \/ Focus \/ Denies \/ CancelsAll \/ Resume \/ Allows
    PROVE  FilesInv'
<1>1. FilesTyped /\ PrivateStopped
  BY DEF FilesInv
<1>2. UNCHANGED <<private, events, handler, item, tracked>>
  BY DEF Reaps, Focus, Denies, CancelsAll, Resume, Allows
<1>3. /\ running' \in [Guids -> [state : {"none"} \cup FileEnds, got : 0..MaxSize]]
      /\ Onward /\ disk' \subseteq Names
  <2>1. CASE CancelsAll
    <3>1. PICK S : Cancels(S)
      BY <2>1 DEF CancelsAll
    <3> QED
      BY <1>1, <3>1, CancelFacts
  <2>2. CASE Reaps \/ Focus \/ Denies \/ Resume \/ Allows
    BY <1>1, <2>2 DEF Reaps, Focus, Denies, Resume, Allows, FilesTyped, Onward
  <2> QED
    BY <2>1, <2>2
<1>4. /\ filesPaused' \in BOOLEAN /\ behavior' \in {"allow", "deny"}
      /\ control' \in {"none", "pausing", "denying", "held", "resuming", "closed"}
      /\ control' \in {"denying", "held"} => behavior' = "deny"
  BY <1>1 DEF Reaps, Focus, Denies, CancelsAll, Resume, Allows, Denied, FilesTyped, PrivateStopped
<1>5. FilesTyped'
  BY <1>1, <1>2, <1>3, <1>4 DEF FilesTyped
<1>6. EventsTrue' /\ PrivateStopped' /\ FilesWhole' /\ WithinLimits'
  BY <1>2, <1>3, <1>4, <1>5, EventsKeep, ControlKeeps, SameKeeps
<1> QED
  BY <1>5, <1>6 DEF FilesInv

LEMMA FilesStart == Init_Downloads => FilesInv
<1> SUFFICES ASSUME Init_Downloads PROVE FilesInv
  OBVIOUS
<1>1. /\ running = [g \in Guids |-> Unstarted] /\ private = {} /\ disk = {} /\ events = <<>>
      /\ handler = Resting /\ item = [n \in Names |-> NoItem] /\ tracked = {}
      /\ filesPaused = FALSE /\ behavior = "allow" /\ control = "none"
  BY DEF Init_Downloads
<1>2. /\ NoItem \in Artifacts /\ NoItem.state = "none" /\ NoItem.size = 0
      /\ Unstarted \in [state : {"none"} \cup FileEnds, got : 0..MaxSize]
      /\ Resting \in Callbacks /\ Resting.at = "idle"
  BY DownloadsConstants DEF NoItem, Artifacts, FileEnds, Unstarted, Resting, Callbacks
<1>3. FilesTyped
  <2>1. events \in Seq(FileEvents)
    <3>1. <<>> \in Seq(FileEvents)
      OBVIOUS
    <3> QED
      BY <1>1, <3>1
  <2>2. running \in [Guids -> [state : {"none"} \cup FileEnds, got : 0..MaxSize]]
    BY <1>1, <1>2
  <2>3. item \in [Names -> Artifacts]
    BY <1>1, <1>2
  <2> QED
    BY <1>1, <1>2, <2>1, <2>2, <2>3 DEF FilesTyped
<1>4. EventsTrue
  <2>1. Len(events) = 0
    BY <1>1
  <2> QED
    BY <1>1, <1>2, <2>1 DEF EventsTrue
<1>5. Readable(item) = {} /\ Filled(item) = {}
  BY <1>1, <1>2 DEF Readable, Filled
<1>6. WithinLimits
  <2>1. HeldUnits(item, {}) = {}
    BY DEF HeldUnits
  <2>2. Held(item, {}) = 0 /\ IsFiniteSet(Filled(item))
    BY <1>5, <2>1, FS_EmptySet DEF Held
  <2> QED
    BY <1>5, <2>2, DownloadsConstants DEF WithinLimits
<1> QED
  BY <1>1, <1>3, <1>4, <1>5, <1>6 DEF FilesInv, PrivateStopped, FilesWhole

LEMMA FilesSteps == FilesInv /\ [Next_Downloads]_fileVars => FilesInv'
<1> SUFFICES ASSUME FilesInv, [Next_Downloads]_fileVars PROVE FilesInv'
  OBVIOUS
<1>1. ASSUME NEW g \in Guids, DownloadBegins(g) \/ DownloadProceeds(g) PROVE FilesInv'
  BY <1>1, BeginsKeeps, ProceedsKeeps
<1>2. CASE Began \/ Progressed
  BY <1>2, CallbackKeeps
<1>3. CASE Reserves \/ Tracks \/ Accounts
  BY <1>3, ReservesKeeps, TracksKeeps, AccountsKeeps
<1>4. ASSUME NEW size \in 1..MaxSize, Exports(size) PROVE FilesInv'
  BY <1>4, ExportsKeeps
<1>5. ASSUME NEW n \in Names, Deletes(n) \/ Expires(n) PROVE FilesInv'
  BY <1>5, DeletesKeeps
<1>6. CASE ClosesWork
  BY <1>6, ClosesKeeps
<1>7. CASE Reaps \/ Focus \/ Denies \/ CancelsAll \/ Resume \/ Allows
  BY <1>7, ControlStepKeeps
<1>8. CASE UNCHANGED fileVars
  <2>1. UNCHANGED <<running, private, disk, events, handler, item, tracked, filesPaused, behavior, control>>
    BY <1>8 DEF fileVars
  <2> QED
    BY <2>1 DEF FilesInv, FilesTyped, EventsTrue, ToldWhole, PrivateStopped, FilesWhole, WithinLimits,
                Readable, Filled, Held, HeldUnits
<1> QED
  BY <1>1, <1>2, <1>3, <1>4, <1>5, <1>6, <1>7, <1>8 DEF Next_Downloads

LEMMA FilesAlways == Spec_Downloads => []FilesInv
BY FilesStart, FilesSteps, PTL DEF Spec_Downloads

\* Downloads, artifacts and the state of private control keep their kinds of values.
THEOREM DownloadsTypeCorrect == Spec_Downloads => []DownloadsTypeOK
<1>1. FilesInv => DownloadsTypeOK
  <2> SUFFICES ASSUME FilesInv PROVE DownloadsTypeOK
    OBVIOUS
  <2>1. FilesTyped
    BY DEF FilesInv
  <2>2. handler.at \in {"idle", "reserve", "track", "account"}
    BY <2>1 DEF FilesTyped, Callbacks
  <2>3. \A n \in Names : item[n].size \in 0..MaxSize
    BY <2>1 DEF FilesTyped, Artifacts
  <2>4. running \in [Guids -> [state : {"none", "inProgress", "completed", "canceled"}, got : 0..MaxSize]]
    BY <2>1 DEF FilesTyped, FileEnds
  <2> QED
    BY <2>1, <2>2, <2>3, <2>4 DEF DownloadsTypeOK, FilesTyped
<1> QED
  BY <1>1, FilesAlways, PTL

\* What a client can read is a whole file that was not downloaded under private control,
\* and all of it is within the limits, for any number of downloads.
THEOREM DownloadsAreOwn == Spec_Downloads => []ReadableIsOwn
<1>1. FilesInv => ReadableIsOwn
  <2> SUFFICES ASSUME FilesInv PROVE ReadableIsOwn
    OBVIOUS
  <2>1. FilesTyped /\ PrivateStopped /\ FilesWhole /\ WithinLimits
    BY DEF FilesInv
  <2>2. \A g \in Readable(item) \cap Guids :
          g \notin private /\ running[g].state = "completed" /\ item[g].size = running[g].got
    BY <2>1 DEF PrivateStopped, FilesWhole
  <2> QED
    BY <2>1, <2>2 DEF ReadableIsOwn, WithinLimits, Readable
<1> QED
  BY <1>1, FilesAlways, PTL
=============================================================================
