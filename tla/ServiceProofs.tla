---------------------------- MODULE ServiceProofs ----------------------------
(***************************************************************************)
(* Proofs about four parts around the service: the pipe to the worker      *)
(* (WorkerPipe), the private desktop (Desktop), public reading (Reader)    *)
(* and the native installation (Install).  Each has an inductive invariant *)
(* of its own; the four share no state.                                    *)
(***************************************************************************)
EXTENDS WorkerPipe, Desktop, Reader, Install, SequenceTheorems, FiniteSetTheorems, TLAPS

-----------------------------------------------------------------------------
\* The two directions of the pipe hold requests.
PipeShape ==
    /\ PipeTypeOK /\ executed \subseteq Requests /\ toWorker \in Seq(Requests)
    /\ toService = <<>> \/ (doing = NoRequest /\ \E q \in executed : toService = <<q>>)

\* A worker that still takes commands has the one that is waited for, or none.
OneInFlight ==
    /\ proc = "none" => caller = NoRequest
    /\ proc \in {"none", "up"} =>
        IF caller = NoRequest
        THEN toWorker = <<>> /\ doing = NoRequest /\ toService = <<>>
        ELSE \/ toWorker = <<caller>> /\ doing = NoRequest /\ toService = <<>>
             \/ toWorker = <<>> /\ doing = caller /\ toService = <<>>
             \/ toWorker = <<>> /\ doing = NoRequest /\ toService = <<caller>>

\* Who waits was not answered.  If its command began, nobody else's answer is under way;
\* and a request that was never called, or is said to have expired, has not begun.
NoneElse ==
    /\ caller # NoRequest => heard[caller] = Unheard
    /\ caller \in executed => /\ doing \in {NoRequest, caller}
                              /\ toService # <<>> => toService = <<caller>>
    /\ \A r \in Requests : heard[r] = Unheard /\ r # caller => r \notin executed

PipeInv == PipeShape /\ OneInFlight /\ NoneElse /\ OwnReply

\* The first request goes into the pipe of a new worker.
LEMMA PipeStarts == Init_WorkerPipe => PipeInv
<1> SUFFICES ASSUME Init_WorkerPipe PROVE PipeInv
  OBVIOUS
<1>1. PipeShape
  BY EmptySeq DEF Init_WorkerPipe, PipeShape, PipeTypeOK, Unheard
<1>2. OneInFlight /\ NoneElse
  BY DEF Init_WorkerPipe, OneInFlight, NoneElse
<1>3. OwnReply
  BY DEF Init_WorkerPipe, OwnReply, Unheard
<1> QED
  BY <1>1, <1>2, <1>3 DEF PipeInv

\* What a call hears is of the kinds of endings that there are.
LEMMA HearsFacts ==
    ASSUME PipeTypeOK, NEW r \in Requests, NEW how \in Endings, NEW of \in Requests,
           Hears(r, [how |-> how, of |-> of])
    PROVE  /\ heard' \in [Requests -> [how : Endings \cup {"none"}, of : Requests \cup {NoRequest}]]
           /\ \A q \in Requests \ {r} : heard'[q] = heard[q]
           /\ heard'[r].how = how /\ heard'[r].of = of /\ heard'[r] # Unheard /\ caller' = NoRequest
BY PipeConstants DEF PipeTypeOK, Hears, Unheard, Endings

\* The end of a call that ends the worker with it keeps the invariant.
LEMMA FatalKeeps ==
    ASSUME PipeInv, NEW r \in Requests, NEW how \in Endings \ {"answer"}, Fatal(r, how),
           how = "expired" => r \notin executed,
           heard[r] = Unheard, caller \in {r, NoRequest}, UNCHANGED <<kind, executed>>
    PROVE  PipeInv'
<1>1. PICK said \in Endings \ {"answer"} :
        /\ Hears(r, [how |-> said, of |-> r])
        /\ said = "expired" => r \notin executed
        /\ cleanupFailed' \in BOOLEAN
  BY DEF Fatal, EndsCall, PipeInv, PipeShape, PipeTypeOK, Endings
<1>2. /\ heard' \in [Requests -> [how : Endings \cup {"none"}, of : Requests \cup {NoRequest}]]
      /\ \A q \in Requests \ {r} : heard'[q] = heard[q]
      /\ heard'[r].how = said /\ heard'[r] # Unheard /\ caller' = NoRequest
  BY <1>1, HearsFacts DEF PipeInv, PipeShape
<1>3. /\ sessions' = FALSE /\ proc' = "none" /\ toWorker' = <<>> /\ toService' = <<>> /\ doing' = NoRequest
  BY DEF Fatal, Replaced
<1>4. PipeShape'
  BY <1>1, <1>2, <1>3, EmptySeq DEF PipeInv, PipeShape, PipeTypeOK
<1>5. OneInFlight'
  BY <1>2, <1>3 DEF OneInFlight
<1>6. NoneElse'
  BY <1>2, <1>3, PipeConstants DEF PipeInv, PipeShape, NoneElse
<1>7. OwnReply'
  BY <1>1, <1>2 DEF PipeInv, OwnReply
<1> QED
  BY <1>4, <1>5, <1>6, <1>7 DEF PipeInv

\* The end of a call that leaves the worker as it is, or tells it to stop.
LEMMA Unknown ==
    ASSUME PipeInv, NEW r \in Requests, EndsCall(r, "uncertain"), caller = r, toService = <<>>,
           proc' \in {"stopping", "dead"},
           UNCHANGED <<kind, executed, cleanupFailed, toWorker, toService, doing, sessions>>
    PROVE  PipeInv'
<1>1. /\ heard' \in [Requests -> [how : Endings \cup {"none"}, of : Requests \cup {NoRequest}]]
      /\ \A q \in Requests \ {r} : heard'[q] = heard[q]
      /\ heard'[r].how = "uncertain" /\ heard'[r] # Unheard /\ caller' = NoRequest
  BY HearsFacts DEF PipeInv, PipeShape, EndsCall, Endings
<1>2. PipeShape'
  BY <1>1 DEF PipeInv, PipeShape, PipeTypeOK
<1>3. OneInFlight' /\ NoneElse'
  BY <1>1, PipeConstants DEF PipeInv, PipeShape, OneInFlight, NoneElse
<1>4. OwnReply'
  BY <1>1 DEF PipeInv, OwnReply
<1> QED
  BY <1>2, <1>3, <1>4 DEF PipeInv

\* The worker takes a command only when it is the one waited for, and replies to it.
LEMMA WorkerKeeps ==
    ASSUME PipeInv, Takes \/ Replies \/ Exits PROVE PipeInv'
<1>0. /\ doing \in executed \cup {NoRequest} /\ NoRequest \notin executed
      /\ UNCHANGED <<kind, heard, caller, cleanupFailed, sessions>>
  BY PipeConstants DEF PipeInv, PipeShape, PipeTypeOK, Takes, Replies, Exits, Child
<1>1. CASE Takes
  <2>1. /\ proc = "up" /\ proc' = "up" /\ doing = NoRequest /\ toWorker # <<>> /\ toService' = toService
        /\ doing' = Head(toWorker) /\ toWorker' = Tail(toWorker) /\ executed' = executed \cup {doing'}
    BY <1>1 DEF Takes
  <2>2. caller # NoRequest /\ toWorker = <<caller>> /\ toService = <<>>
    BY <2>1 DEF PipeInv, OneInFlight
  <2>3. doing' = caller /\ toWorker' = <<>> /\ caller \in Requests
    BY <2>1, <2>2 DEF PipeInv, PipeShape, PipeTypeOK
  <2>4. PipeShape'
    BY <1>0, <2>1, <2>2, <2>3, EmptySeq DEF PipeInv, PipeShape, PipeTypeOK
  <2>5. OneInFlight' /\ NoneElse'
    BY <1>0, <2>1, <2>2, <2>3 DEF PipeInv, OneInFlight, NoneElse
  <2>6. OwnReply'
    BY <1>0, <2>1, <2>2, <2>3 DEF PipeInv, NoneElse, OwnReply, Unheard
  <2> QED
    BY <2>4, <2>5, <2>6 DEF PipeInv
<1>2. CASE Replies
  <2>1. /\ doing # NoRequest /\ doing' = NoRequest /\ toService' = Append(toService, doing)
        /\ UNCHANGED <<proc, toWorker, executed>>
    BY <1>2 DEF Replies
  <2>2. toService = <<>> /\ doing \in executed
    BY <1>0, <2>1 DEF PipeInv, PipeShape
  <2>9. toService' = <<doing>>
    BY <2>1, <2>2
  <2>3. PipeShape'
    BY <1>0, <2>1, <2>2, <2>9 DEF PipeInv, PipeShape, PipeTypeOK
  <2>4. OneInFlight' /\ NoneElse'
    BY <1>0, <2>1, <2>2, <2>9 DEF PipeInv, OneInFlight, NoneElse
  <2>5. OwnReply'
    BY <1>0, <2>1 DEF PipeInv, OwnReply
  <2> QED
    BY <2>3, <2>4, <2>5 DEF PipeInv
<1>3. CASE Exits
  <2>1. proc' = "dead" /\ doing' = NoRequest /\ UNCHANGED <<toWorker, toService, executed>>
    BY <1>3 DEF Exits
  <2> QED
    BY <1>0, <2>1 DEF PipeInv, PipeShape, PipeTypeOK, OneInFlight, NoneElse, OwnReply
<1> QED
  BY <1>1, <1>2, <1>3

\* A call goes into the pipe, of a new worker if there is none.
LEMMA BeginCallKeeps ==
    ASSUME PipeInv, NEW r \in Requests, Call(r) PROVE PipeInv'
<1>1. /\ caller = NoRequest /\ heard[r] = Unheard /\ proc \in {"none", "up", "stopping"}
      /\ caller' = r /\ sessions' = TRUE /\ toWorker' = Append(toWorker, r)
      /\ proc' \in {"up", "stopping"} /\ (proc' = "up" => proc \in {"none", "up"})
      /\ UNCHANGED <<kind, executed, heard, cleanupFailed, toService, doing>>
  BY DEF Call, Callable
<1>2. toWorker \in Seq(Requests) /\ toWorker' \in Seq(Requests)
  BY <1>1 DEF PipeInv, PipeShape
<1>3. PipeShape'
  BY <1>1, <1>2 DEF PipeInv, PipeShape, PipeTypeOK
<1>4. proc' = "up" => toWorker' = <<r>> /\ doing' = NoRequest /\ toService' = <<>>
  <2> SUFFICES ASSUME proc' = "up" PROVE toWorker' = <<r>> /\ doing' = NoRequest /\ toService' = <<>>
    OBVIOUS
  <2>1. toWorker = <<>> /\ doing = NoRequest /\ toService = <<>>
    BY <1>1 DEF PipeInv, OneInFlight
  <2>2. Append(toWorker, r) = <<r>>
    BY <2>1
  <2> QED
    BY <1>1, <2>1, <2>2
<1>5. OneInFlight'
  BY <1>1, <1>4, PipeConstants DEF OneInFlight
<1>6. r \notin executed
  BY <1>1, PipeConstants DEF PipeInv, NoneElse
<1>7. NoneElse'
  BY <1>1, <1>6, PipeConstants DEF PipeInv, NoneElse
<1>8. OwnReply'
  BY <1>1 DEF PipeInv, OwnReply
<1> QED
  BY <1>3, <1>5, <1>7, <1>8 DEF PipeInv

\* No worker is started any more: the call ends at once.
LEMMA RefusalKeeps ==
    ASSUME PipeInv, NEW r \in Requests, CallRefused(r) PROVE PipeInv'
<1>1. /\ caller = NoRequest /\ EndsCall(r, "cleanup failed") /\ heard[r] = Unheard
      /\ UNCHANGED <<kind, executed, proc, cleanupFailed, toWorker, toService, doing, sessions>>
  BY DEF CallRefused, Callable
<1>2. /\ heard' \in [Requests -> [how : Endings \cup {"none"}, of : Requests \cup {NoRequest}]]
      /\ \A q \in Requests \ {r} : heard'[q] = heard[q]
      /\ heard'[r].how = "cleanup failed" /\ heard'[r] # Unheard /\ caller' = NoRequest
  BY <1>1, HearsFacts DEF PipeInv, PipeShape, EndsCall, Endings
<1>3. PipeShape'
  BY <1>1, <1>2 DEF PipeInv, PipeShape, PipeTypeOK
<1>4. OneInFlight' /\ NoneElse'
  BY <1>1, <1>2 DEF PipeInv, OneInFlight, NoneElse
<1>5. OwnReply'
  BY <1>1, <1>2 DEF PipeInv, OwnReply
<1> QED
  BY <1>3, <1>4, <1>5 DEF PipeInv

\* The answer that is read is the caller's own.
LEMMA AnswerKeeps ==
    ASSUME PipeInv, NEW r \in Requests, Answered(r) PROVE PipeInv'
<1>1. /\ caller = r /\ r # NoRequest /\ toService # <<>> /\ Head(toService) = r
      /\ Hears(r, [how |-> "answer", of |-> Head(toService)]) /\ toService' = Tail(toService)
      /\ UNCHANGED <<kind, executed, proc, cleanupFailed, toWorker, doing, sessions>>
  BY DEF Answered, Waiting, Correlates
<1>2. PICK q \in executed : toService = <<q>> /\ doing = NoRequest
  BY <1>1 DEF PipeInv, PipeShape
<1>3. q = r /\ toService' = <<>>
  BY <1>1, <1>2
<1>4. /\ heard' \in [Requests -> [how : Endings \cup {"none"}, of : Requests \cup {NoRequest}]]
      /\ \A o \in Requests \ {r} : heard'[o] = heard[o]
      /\ heard'[r].how = "answer" /\ heard'[r].of = r /\ heard'[r] # Unheard /\ caller' = NoRequest
  BY <1>1, HearsFacts DEF PipeInv, PipeShape, Endings
<1>5. PipeShape'
  BY <1>1, <1>2, <1>3, <1>4 DEF PipeInv, PipeShape, PipeTypeOK
<1>6. OneInFlight'
  BY <1>1, <1>2, <1>3, <1>4 DEF PipeInv, OneInFlight
<1>7. NoneElse'
  BY <1>1, <1>3, <1>4, PipeConstants DEF PipeInv, PipeShape, NoneElse
<1>8. OwnReply'
  BY <1>1, <1>2, <1>3, <1>4 DEF PipeInv, OwnReply
<1> QED
  BY <1>5, <1>6, <1>7, <1>8 DEF PipeInv

\* The worker is shut down between two calls.
LEMMA ShutdownKeeps == ASSUME PipeInv, Shutdown PROVE PipeInv'
<1>1. /\ caller = NoRequest /\ proc' = "none" /\ toWorker' = <<>> /\ toService' = <<>> /\ doing' = NoRequest
      /\ sessions' = FALSE /\ cleanupFailed' \in BOOLEAN /\ UNCHANGED <<kind, heard, caller, executed>>
  BY DEF Shutdown, Replaced, PipeInv, PipeShape, PipeTypeOK
<1> QED
  BY <1>1, EmptySeq DEF PipeInv, PipeShape, PipeTypeOK, OneInFlight, NoneElse, OwnReply

\* Every step of the worker and of its callers keeps the invariant.
LEMMA PipeSteps == PipeInv /\ [Next_WorkerPipe]_pipeVars => PipeInv'
<1> SUFFICES ASSUME PipeInv, [Next_WorkerPipe]_pipeVars PROVE PipeInv'
  OBVIOUS
<1>1. CASE Takes \/ Replies \/ Exits
  BY <1>1, WorkerKeeps
<1>2. CASE Shutdown
  BY <1>2, ShutdownKeeps
<1>3. CASE \E r \in Requests : Call(r) \/ CallRefused(r) \/ Answered(r)
  BY <1>3, BeginCallKeeps, RefusalKeeps, AnswerKeeps
<1>4. ASSUME NEW r \in Requests, CallOfDead(r) PROVE PipeInv'
  <2>1. /\ Fatal(r, "expired") /\ caller = NoRequest /\ heard[r] = Unheard /\ UNCHANGED <<kind, executed>>
    BY <1>4 DEF CallOfDead, Callable
  <2>2. r \notin executed
    BY <2>1, PipeConstants DEF PipeInv, NoneElse
  <2> QED
    BY <2>1, <2>2, FatalKeeps DEF Endings
<1>5. ASSUME NEW r \in Requests, Mismatch(r) PROVE PipeInv'
  <2>1. /\ Fatal(r, "expired") /\ caller = r /\ r # NoRequest /\ UNCHANGED <<kind, executed>>
        /\ toService # <<>> /\ Head(toService) # r
    BY <1>5 DEF Mismatch, Waiting, Correlates
  <2>2. heard[r] = Unheard /\ (r \in executed => toService = <<r>>)
    BY <2>1 DEF PipeInv, NoneElse
  <2>3. r \notin executed
    BY <2>1, <2>2
  <2> QED
    BY <2>1, <2>2, <2>3, FatalKeeps DEF Endings
<1>6. ASSUME NEW r \in Requests, TimesOut(r) \/ PipeBroken(r) \/ Cancelled(r) PROVE PipeInv'
  <2>1. caller = r /\ r # NoRequest /\ heard[r] = Unheard /\ UNCHANGED <<kind, executed>>
    BY <1>6 DEF TimesOut, PipeBroken, Cancelled, Waiting, PipeInv, NoneElse
  <2>2. CASE \E how \in {"timeout", "disconnected", "cancelled"} : Fatal(r, how)
    BY <2>1, <2>2, FatalKeeps DEF Endings
  <2>3. CASE ~ \E how \in {"timeout", "disconnected", "cancelled"} : Fatal(r, how)
    <3>1. /\ EndsCall(r, "uncertain") /\ toService = <<>>
          /\ UNCHANGED <<cleanupFailed, toWorker, toService, doing, sessions>>
      BY <1>6, <2>3 DEF TimesOut, PipeBroken, Cancelled
    <3>2. proc' \in {"stopping", "dead"}
      BY <1>6, <2>1, <2>3 DEF TimesOut, PipeBroken, Cancelled, ToldWorker, PipeInv, PipeShape, PipeTypeOK, OneInFlight
    <3> QED
      BY <2>1, <3>1, <3>2, Unknown
  <2> QED
    BY <2>2, <2>3
<1>7. CASE UNCHANGED pipeVars
  BY <1>7 DEF pipeVars, PipeInv, PipeShape, PipeTypeOK, OneInFlight, NoneElse, OwnReply
<1> QED
  BY <1>1, <1>2, <1>3, <1>4, <1>5, <1>6, <1>7 DEF Next_WorkerPipe

\* The pipe, its two ends and what each caller heard only hold what the code puts there.
THEOREM PipeTypeCorrect == Spec_WorkerPipe => []PipeTypeOK
<1>1. PipeInv => PipeTypeOK
  BY DEF PipeInv, PipeShape
<1> QED
  BY <1>1, PipeStarts, PipeSteps, PTL DEF Spec_WorkerPipe

\* Who is answered has the answer to its own request; what is said to have expired was
\* never begun.
THEOREM AnswersAreOwn == Spec_WorkerPipe => []OwnReply
<1>1. PipeInv => OwnReply
  BY DEF PipeInv
<1> QED
  BY <1>1, PipeStarts, PipeSteps, PTL DEF Spec_WorkerPipe
-----------------------------------------------------------------------------
\* A display that a runtime has runs, and no other runtime has it; a browser has one.
ScreensOK ==
    /\ \A w \in Works : display[w] # 0 =>
          display[w] \in screens /\ \A x \in Works \ {w} : display[x] # display[w]
    /\ \A w \in Works : browser[w] # "none" => display[w] # 0

\* The lease that an operation of the console began with is the one it still has.
ConsoleOK ==
    /\ console.does = "focus" => lease[console.work] = "active"
    /\ console.does = "cancel" => lease[console.work] = "cancelled"

\* The one bridge is that of a paused browser, whose control is being ended at the latest.
Handed(w) == lease[w] \in {"active", "returning"} \/ (console.does = "cancel" /\ console.work = w)
BridgeOK ==
    \A w \in bridge : w \in paused /\ browser[w] # "none" /\ bridge = {w} /\ Handed(w)

DeskInv == DesktopTypeOK /\ ScreensOK /\ ConsoleOK /\ BridgeOK

\* The number that is taken for a display is one that no runtime has.
LEMMA LeastUnused == Startable => Least(Unused) \in Unused /\ Least(Unused) \in Numbers /\ Least(Unused) # 0
<1> SUFFICES ASSUME Startable PROVE Least(Unused) \in Unused /\ Least(Unused) \in Numbers /\ Least(Unused) # 0
  OBVIOUS
<1>1. Unused \subseteq Numbers /\ Unused \in SUBSET Nat /\ Unused # {}
  BY DesktopConstants DEF Startable, Unused
<1>2. \E n \in Unused : \A m \in Unused : n <= m
  <2> DEFINE below == {0..n : n \in Unused}
  <2>1. below \subseteq FiniteSubsetsOf(Nat) /\ below # {}
    <3>1. \A n \in Unused : 0..n \subseteq Nat /\ IsFiniteSet(0..n)
      BY <1>1, FS_Interval
    <3> QED
      BY <1>1, <3>1 DEF FiniteSubsetsOf
  <2>2. PICK T \in below : \A U \in below : <<U, T>> \notin StrictSubsetOrdering(Nat)
    <3> HIDE DEF below
    <3> QED
      BY <2>1, FS_StrictSubsetOrderingWellFounded, WFMin
  <2>3. PICK n \in Unused : T = 0..n
    OBVIOUS
  <2>4. ASSUME NEW m \in Unused, m < n PROVE FALSE
    <3>1. 0..m \in below /\ 0..m \subseteq Nat /\ 0..n \subseteq Nat
      BY <1>1
    <3>2. 0..m \subseteq 0..n /\ 0..m # 0..n
      BY <1>1, <2>4
    <3> QED
      BY <2>2, <2>3, <3>1, <3>2 DEF StrictSubsetOrdering
  <2> QED
    BY <1>1, <2>4
<1>3. Least(Unused) \in Unused
  BY <1>2 DEF Least
<1> QED
  BY <1>1, <1>3, DesktopConstants

\* At first there is nothing.
LEMMA DeskStarts == Init_Desktop => DeskInv
BY DesktopConstants DEF Init_Desktop, DeskInv, DesktopTypeOK, ScreensOK, ConsoleOK, BridgeOK, Free

\* While a client has a command, nobody has control and no desktop is served.
LEMMA NothingServed == ASSUME DeskInv, console = Free, ~Controlled PROVE bridge = {}
<1>1. \A w \in bridge : w \in Works /\ lease[w] \in {"active", "returning"}
  BY DEF DeskInv, DesktopTypeOK, BridgeOK, Handed, Free
<1> QED
  BY <1>1 DEF Controlled

\* What ends with a browser is its own display, screen and bridge.
LEMMA EndedKeeps ==
    ASSUME DeskInv, NEW w \in Works, Ended(w)
    PROVE  /\ browser' \in [Works -> {"none", "up", "dead"}] /\ display' \in [Works -> Numbers \cup {0}]
           /\ screens' \subseteq Numbers /\ paused' \subseteq Works /\ bridge' \subseteq Works
           /\ ScreensOK'
           /\ \A x \in bridge' : x # w /\ x \in bridge /\ x \in paused' /\ browser'[x] # "none" /\ bridge' = {x}
<1>1. /\ browser' \in [Works -> {"none", "up", "dead"}] /\ display' \in [Works -> Numbers \cup {0}]
      /\ screens' \subseteq Numbers /\ paused' \subseteq Works /\ bridge' \subseteq Works
  BY DesktopConstants DEF DeskInv, DesktopTypeOK, Ended
<1>2. \A x \in Works : /\ browser'[x] = (IF x = w THEN "none" ELSE browser[x])
                       /\ display'[x] = (IF x = w THEN 0 ELSE display[x])
  BY DEF DeskInv, DesktopTypeOK, Ended
<1>3. ScreensOK'
  <2>1. \A x \in Works : display'[x] # 0 => display'[x] \in screens'
    BY <1>2 DEF DeskInv, ScreensOK, Ended
  <2> QED
    BY <1>2, <2>1 DEF DeskInv, ScreensOK
<1>4. \A x \in bridge' : x # w /\ x \in bridge /\ x \in paused' /\ browser'[x] # "none" /\ bridge' = {x}
  BY <1>2 DEF DeskInv, DesktopTypeOK, BridgeOK, Ended
<1> QED
  BY <1>1, <1>3, <1>4

\* A work that is forgotten has no lease; the others keep theirs.
LEMMA ForgetKeeps ==
    ASSUME DeskInv, NEW w \in Works, Forget(w)
    PROVE  /\ known' \subseteq Works /\ expired' \subseteq Works /\ unstarted' \subseteq Works
           /\ lease' \in [Works -> {"none", "active", "returning", "completed", "cancelled"}]
           /\ \A x \in Works \ {w} : lease'[x] = lease[x]
BY DEF DeskInv, DesktopTypeOK, Forget

\* A work ends while the console is or becomes free of its operation: who remains keeps what it had.
LEMMA WorkEnds ==
    ASSUME DeskInv, NEW w \in Works, Forget(w), Ended(w) \/ (browser[w] = "none" /\ UNCHANGED adapter),
           console' = Free, console = Free \/ console.work = w, deskFaults' = deskFaults
    PROVE  DeskInv'
<1>1. /\ browser' \in [Works -> {"none", "up", "dead"}] /\ display' \in [Works -> Numbers \cup {0}]
      /\ screens' \subseteq Numbers /\ paused' \subseteq Works /\ bridge' \subseteq Works
      /\ ScreensOK'
      /\ \A x \in bridge' : x # w /\ x \in bridge /\ x \in paused' /\ browser'[x] # "none" /\ bridge' = {x}
  <2>1. CASE Ended(w)
    BY <2>1, EndedKeeps
  <2>2. CASE browser[w] = "none" /\ UNCHANGED adapter
    BY <2>2 DEF adapter, DeskInv, DesktopTypeOK, ScreensOK, BridgeOK
  <2> QED BY <2>1, <2>2
<1>2. DesktopTypeOK'
  BY <1>1, ForgetKeeps DEF DeskInv, DesktopTypeOK
<1>3. ConsoleOK'
  BY DEF ConsoleOK, Free
<1>4. BridgeOK'
  <2> SUFFICES ASSUME NEW x \in bridge' PROVE Handed(x)'
    BY <1>1 DEF BridgeOK
  <2>1. x \in bridge /\ x # w /\ x \in Works /\ lease'[x] = lease[x]
    BY <1>1, ForgetKeeps
  <2>2. lease[x] \in {"active", "returning"}
    BY <2>1 DEF DeskInv, BridgeOK, Handed, Free
  <2> QED BY <2>1, <2>2 DEF Handed
<1> QED
  BY <1>1, <1>2, <1>3, <1>4 DEF DeskInv

\* A new display has a number that no runtime has.
LEMMA DisplayStarts ==
    ASSUME DeskInv, NEW w \in Works, Startable, bridge = {}, known' = known \cup {w},
           UNCHANGED <<lease, expired, unstarted, console, viewer, paused, bridge>>, deskFaults' \in 0..DeskFaults,
           display' = [display EXCEPT ![w] = Least(Unused)], screens' = screens \cup {Least(Unused)},
           browser' \in {browser, [browser EXCEPT ![w] = "up"]}
    PROVE  DeskInv'
<1>1. Least(Unused) \in Numbers /\ Least(Unused) # 0 /\ \A x \in Works : display[x] # Least(Unused)
  BY LeastUnused DEF Unused
<1>2. DesktopTypeOK'
  BY <1>1 DEF DeskInv, DesktopTypeOK
<1>3. \A x \in Works : display'[x] = IF x = w THEN Least(Unused) ELSE display[x]
  BY DEF DeskInv, DesktopTypeOK
<1>4. \A x \in Works \ {w} : browser'[x] = browser[x]
  BY DEF DeskInv, DesktopTypeOK
<1>5. ScreensOK'
  BY <1>1, <1>3, <1>4 DEF DeskInv, ScreensOK
<1>6. ConsoleOK' /\ BridgeOK'
  BY DEF DeskInv, ConsoleOK, BridgeOK
<1> QED
  BY <1>2, <1>5, <1>6 DEF DeskInv

\* The commands of a client, which nobody in control keeps out.
LEMMA CommandsKeep ==
    ASSUME DeskInv, NEW w \in Works, Open(w) \/ OpenFails(w) \/ OpenHalf(w) \/ Close(w) \/ Synced(w) PROVE DeskInv'
<1>1. Command(w)
  BY DEF Open, OpenFails, OpenHalf, Close, Synced
<1>2. bridge = {} /\ console' = Free /\ console = Free /\ viewer' = viewer
  BY <1>1, NothingServed DEF Command
<1>3. deskFaults \in 0..DeskFaults /\ (Failing => deskFaults' \in 0..DeskFaults)
  BY DesktopConstants DEF DeskInv, DesktopTypeOK, Failing
<1>4. CASE Open(w)
  BY <1>2, <1>3, <1>4, DisplayStarts DEF Open, Unchanged_Leases
<1>5. CASE OpenHalf(w)
  BY <1>2, <1>3, <1>5, DisplayStarts DEF OpenHalf, Unchanged_Leases
<1>6. CASE OpenFails(w)
  <2>1. known' = known \cup {w} /\ UNCHANGED <<lease, expired, unstarted, console, viewer, adapter>> /\ deskFaults' \in 0..DeskFaults
    BY <1>2, <1>3, <1>6 DEF OpenFails, Unchanged_Leases
  <2> QED
    BY <2>1 DEF adapter, DeskInv, DesktopTypeOK, ScreensOK, ConsoleOK, BridgeOK, Handed
<1>7. CASE Close(w) \/ Synced(w)
  <2>1. Forget(w) /\ (Ended(w) \/ (browser[w] = "none" /\ UNCHANGED adapter)) /\ deskFaults' = deskFaults
    BY <1>7 DEF Close, Synced
  <2> QED
    BY <1>2, <2>1, WorkEnds
<1> QED
  BY <1>4, <1>5, <1>6, <1>7

\* A browser or the whole worker is lost.
LEMMA LossesKeep ==
    ASSUME DeskInv, WorkerDies \/ \E w \in Works : BrowserDies(w) PROVE DeskInv'
<1>1. deskFaults' \in 0..DeskFaults
  BY DesktopConstants DEF WorkerDies, BrowserDies, Failing, DeskInv, DesktopTypeOK
<1>2. CASE WorkerDies
  <2>1. AllLost /\ console' = Free
    BY <1>2 DEF WorkerDies
  <2> QED
    BY <1>1, <2>1, DesktopConstants DEF AllLost, Free, DeskInv, DesktopTypeOK, ScreensOK, ConsoleOK, BridgeOK
<1>3. ASSUME NEW w \in Works, BrowserDies(w) PROVE DeskInv'
  <2>1. browser[w] = "up" /\ browser' = [browser EXCEPT ![w] = "dead"]
        /\ UNCHANGED <<service, console, viewer, display, screens, paused, bridge>>
    BY <1>3 DEF BrowserDies
  <2>2. \A x \in Works : browser'[x] = "none" <=> browser[x] = "none"
    BY <2>1 DEF DeskInv, DesktopTypeOK
  <2>3. DesktopTypeOK'
    BY <1>1, <2>1 DEF service, DeskInv, DesktopTypeOK
  <2>4. ScreensOK'
    BY <2>1, <2>2 DEF DeskInv, ScreensOK
  <2>5. ConsoleOK' /\ BridgeOK'
    BY <2>1, <2>2 DEF service, DeskInv, DesktopTypeOK, ConsoleOK, BridgeOK, Handed
  <2> QED BY <2>3, <2>4, <2>5 DEF DeskInv
<1> QED
  BY <1>2, <1>3

\* Control is taken: the lease comes first, and the desktop is served of a paused browser.
LEMMA TakingKeeps ==
    ASSUME DeskInv, NEW w \in Works, Handoff(w) \/ Focused(w) \/ FocusFails(w) \/ FocusedDead(w) PROVE DeskInv'
<1>1. CASE Handoff(w)
  <2>1. bridge = {}
    BY <1>1, NothingServed DEF Handoff
  <2>2. lease' = [lease EXCEPT ![w] = "active"] /\ console' = [does |-> "focus", work |-> w]
        /\ expired' = expired \ {w} /\ unstarted' = unstarted \cup {w} /\ UNCHANGED <<known, viewer, adapter, deskFaults>>
    BY <1>1 DEF Handoff
  <2>3. DesktopTypeOK'
    BY <2>2 DEF adapter, DeskInv, DesktopTypeOK
  <2>4. ConsoleOK'
    BY <2>2 DEF DeskInv, DesktopTypeOK, ConsoleOK
  <2>5. ScreensOK' /\ BridgeOK'
    BY <2>1, <2>2 DEF adapter, DeskInv, ScreensOK, BridgeOK
  <2> QED BY <2>3, <2>4, <2>5 DEF DeskInv
<1>2. CASE Focused(w)
  <2>1. /\ console = [does |-> "focus", work |-> w] /\ console' = Free /\ browser[w] = "up" /\ bridge \subseteq {w}
        /\ paused' = paused \cup {w} /\ bridge' = bridge \cup {w} /\ unstarted' = unstarted \ {w}
        /\ UNCHANGED <<known, lease, expired, viewer, browser, display, screens, deskFaults>>
    BY <1>2 DEF Focused
  <2>2. bridge' = {w} /\ lease[w] = "active"
    BY <2>1 DEF DeskInv, ConsoleOK
  <2>3. DesktopTypeOK'
    BY <2>1 DEF DeskInv, DesktopTypeOK
  <2>4. ScreensOK' /\ ConsoleOK'
    BY <2>1 DEF DeskInv, ScreensOK, ConsoleOK, Free
  <2>5. BridgeOK'
    BY <2>1, <2>2 DEF BridgeOK, Handed
  <2> QED BY <2>3, <2>4, <2>5 DEF DeskInv
<1>3. CASE FocusFails(w)
  <2>1. /\ console' = Free /\ console.does = "focus" /\ deskFaults' \in 0..DeskFaults /\ paused \subseteq paused' /\ paused' \subseteq Works
        /\ UNCHANGED <<service, viewer, browser, display, screens, bridge>>
    BY <1>3, DesktopConstants DEF FocusFails, Failing, DeskInv, DesktopTypeOK
  <2>2. DesktopTypeOK'
    BY <2>1 DEF service, DeskInv, DesktopTypeOK
  <2>3. ScreensOK' /\ ConsoleOK'
    BY <2>1 DEF DeskInv, ScreensOK, ConsoleOK, Free
  <2>4. BridgeOK'
    BY <2>1 DEF service, DeskInv, BridgeOK, Handed
  <2> QED BY <2>2, <2>3, <2>4 DEF DeskInv
<1>4. CASE FocusedDead(w)
  BY <1>4, WorkEnds DEF FocusedDead
<1> QED
  BY <1>1, <1>2, <1>3, <1>4

\* The viewers and the time of access change nothing of the desktop itself.
LEMMA ViewersKeep ==
    ASSUME DeskInv, UNCHANGED <<known, lease, unstarted, console, adapter, deskFaults>>, expired' \subseteq Works PROVE DeskInv'
<1>1. DesktopTypeOK'
  BY DEF adapter, DeskInv, DesktopTypeOK
<1>2. ScreensOK' /\ ConsoleOK' /\ BridgeOK'
  BY DEF adapter, DeskInv, ScreensOK, ConsoleOK, BridgeOK, Handed
<1> QED
  BY <1>1, <1>2 DEF DeskInv

\* An operation of the console is done with a work, whose lease changes with its bridge.
LEMMA LeaseReturns ==
    ASSUME DeskInv, NEW w \in Works, NEW state \in {"none", "active", "returning", "completed", "cancelled"},
           Return(w, state), UNCHANGED <<known, browser, display, screens>>, deskFaults' \in 0..DeskFaults,
           paused' \subseteq paused, paused \ {w} \subseteq paused', bridge' \in {bridge, bridge \ {w}},
           w \in bridge' => w \in paused' /\ (state \in {"active", "returning"} \/ (console'.does = "cancel" /\ console'.work = w)),
           console = Free \/ (console.work = w /\ console.does # "focus"), console'.does = "focus" => FALSE,
           console'.does = "cancel" => console'.work = w /\ state = "cancelled"
    PROVE  DeskInv'
<1>1. lease' = [lease EXCEPT ![w] = state] /\ expired' = expired /\ unstarted' = unstarted
  BY DEF Return
<1>2. DesktopTypeOK'
  BY <1>1 DEF DeskInv, DesktopTypeOK
<1>3. \A x \in Works : lease'[x] = IF x = w THEN state ELSE lease[x]
  BY <1>1 DEF DeskInv, DesktopTypeOK
<1>4. ScreensOK' /\ ConsoleOK'
  BY <1>3 DEF DeskInv, ScreensOK, ConsoleOK
<1>5. BridgeOK'
  <2> SUFFICES ASSUME NEW x \in bridge' PROVE x \in paused' /\ browser'[x] # "none" /\ bridge' = {x} /\ Handed(x)'
    BY DEF BridgeOK
  <2>1. x \in bridge /\ x \in Works /\ x \in paused /\ browser[x] # "none" /\ bridge = {x} /\ Handed(x)
    BY DEF DeskInv, DesktopTypeOK, BridgeOK
  <2>2. CASE x = w
    BY <1>3, <2>1, <2>2 DEF Handed
  <2>3. CASE x # w
    BY <1>3, <2>1, <2>3 DEF Handed, Free
  <2> QED BY <2>2, <2>3
<1> QED
  BY <1>2, <1>4, <1>5 DEF DeskInv

\* Giving control back keeps new viewers out first.
LEMMA GatesKeep ==
    ASSUME DeskInv, NEW w \in Works, Complete(w) \/ Cancel(w) \/ Reclaim(w) PROVE DeskInv'
<1>1. PICK does \in {"resume", "cancel", "reclaim"}, state \in {"none", "returning", "cancelled"} :
        /\ Gate(w, does, state) /\ (does = "cancel" <=> state = "cancelled")
        /\ (state = "none" => lease[w] = "none")
  BY DEF Complete, Cancel, Reclaim
<1>2. /\ console = Free /\ console'.does = does /\ console'.work = w
      /\ Return(w, state) /\ UNCHANGED <<known, viewer, adapter, deskFaults>>
  BY <1>1 DEF Gate
<1>3. w \in bridge => w \in paused /\ lease[w] # "none"
  BY <1>2 DEF DeskInv, BridgeOK, Handed, Free
<1>4. deskFaults' \in 0..DeskFaults
  BY <1>2 DEF DeskInv, DesktopTypeOK
<1> QED
  BY <1>1, <1>2, <1>3, <1>4, LeaseReturns DEF adapter

\* The end of an operation of the console.
LEMMA ReturnsKeep ==
    ASSUME DeskInv, NEW w \in Works,
           DisconnectFails(w) \/ Resumed(w) \/ ResumeFails(w) \/ ResumedDead(w) \/ SessionEnds(w) \/ SessionStays(w)
    PROVE  DeskInv'
<1>1. console.does \in {"resume", "cancel", "reclaim"} /\ console.work = w /\ console' = Free
  BY DEF DisconnectFails, Resumed, ResumeFails, ResumedDead, SessionEnds, SessionStays, Disconnected, Ending
<1>2. deskFaults \in 0..DeskFaults /\ (Failing => deskFaults' \in 0..DeskFaults)
  BY DesktopConstants DEF DeskInv, DesktopTypeOK, Failing
<1>3. w \in bridge => w \in paused /\ lease[w] # "none"
  BY <1>1 DEF DeskInv, ConsoleOK, BridgeOK, Handed
<1>4. CASE DisconnectFails(w) \/ SessionStays(w)
  <2>1. Regained(w) /\ UNCHANGED <<known, viewer, adapter>> /\ deskFaults' \in 0..DeskFaults
    BY <1>2, <1>4 DEF DisconnectFails, SessionStays
  <2>2. CASE lease[w] = "none"
    <3>1. Return(w, "none")
      BY <2>1, <2>2 DEF Regained
    <3> QED BY <1>1, <1>3, <2>1, <2>2, <3>1, LeaseReturns DEF adapter, Free
  <2>3. CASE lease[w] # "none"
    <3>1. Return(w, "active")
      BY <2>1, <2>3 DEF Regained
    <3> QED BY <1>1, <1>3, <2>1, <3>1, LeaseReturns DEF adapter, Free
  <2> QED BY <2>2, <2>3
<1>5. CASE Resumed(w)
  BY <1>1, <1>2, <1>5, LeaseReturns DEF Resumed, Stopped, Free
<1>6. CASE ResumeFails(w)
  BY <1>1, <1>2, <1>6, LeaseReturns DEF ResumeFails, Stopped, Free
<1>7. CASE ResumedDead(w) \/ SessionEnds(w)
  <2>1. Forget(w) /\ (Ended(w) \/ (browser[w] = "none" /\ UNCHANGED adapter)) /\ deskFaults' = deskFaults
    BY <1>7 DEF ResumedDead, SessionEnds
  <2> QED
    BY <1>1, <2>1, WorkEnds
<1> QED
  BY <1>4, <1>5, <1>6, <1>7

\* The inductive invariant of the private desktop.
LEMMA DeskAlways == Spec_Desktop => []DeskInv
<1>1. DeskInv /\ [Next_Desktop]_deskVars => DeskInv'
  <2> SUFFICES ASSUME DeskInv, [Next_Desktop]_deskVars PROVE DeskInv'
    OBVIOUS
  <2>1. ASSUME NEW w \in Works, Open(w) \/ OpenFails(w) \/ OpenHalf(w) \/ Close(w) \/ Synced(w) PROVE DeskInv'
    BY <2>1, CommandsKeep
  <2>2. ASSUME NEW w \in Works, BrowserDies(w) PROVE DeskInv'
    BY <2>2, LossesKeep
  <2>3. CASE WorkerDies
    BY <2>3, LossesKeep
  <2>4. ASSUME NEW w \in Works, Handoff(w) \/ Focused(w) \/ FocusFails(w) \/ FocusedDead(w) PROVE DeskInv'
    BY <2>4, TakingKeeps
  <2>5. ASSUME NEW w \in Works, Expire(w) \/ Renew(w) PROVE DeskInv'
    <3>1. UNCHANGED <<known, lease, unstarted, console, adapter, deskFaults>> /\ expired' \subseteq Works
      BY <2>5 DEF Expire, Renew, DeskInv, DesktopTypeOK
    <3> QED BY <3>1, ViewersKeep
  <2>6. ASSUME NEW w \in Works, Complete(w) \/ Cancel(w) \/ Reclaim(w) PROVE DeskInv'
    BY <2>6, GatesKeep
  <2>7. ASSUME NEW w \in Works,
               DisconnectFails(w) \/ Resumed(w) \/ ResumeFails(w) \/ ResumedDead(w) \/ SessionEnds(w) \/ SessionStays(w)
        PROVE  DeskInv'
    BY <2>7, ReturnsKeep
  <2>8. ASSUME NEW v \in Viewers, Connect(v) \/ Join(v) \/ Unreachable(v) \/ Leave(v) \/ Disconnect(v) PROVE DeskInv'
    <3>1. UNCHANGED <<service, console, adapter, deskFaults>>
      BY <2>8 DEF Connect, Join, Unreachable, Leave, Disconnect
    <3> QED BY <3>1, ViewersKeep DEF service, DeskInv, DesktopTypeOK
  <2>9. CASE UNCHANGED deskVars
    BY <2>9, ViewersKeep DEF deskVars, DeskInv, DesktopTypeOK
  <2> QED
    BY <2>1, <2>2, <2>3, <2>4, <2>5, <2>6, <2>7, <2>8, <2>9 DEF Next_Desktop
<1> QED
  BY DeskStarts, <1>1, PTL DEF Spec_Desktop

\* Every variable of the private desktop keeps to its type.
THEOREM DesktopTypeCorrect == Spec_Desktop => []DesktopTypeOK
<1>1. DeskInv => DesktopTypeOK
  BY DEF DeskInv
<1> QED
  BY DeskAlways, <1>1, PTL

\* console.py, runtime.py, _start_handoff, resume: whatever fails or dies, one desktop at most is
\* served, of a paused work whose control is somebody's or just being ended, and no two browsers
\* share a display.
THEOREM DesktopsArePrivate == Spec_Desktop => []PrivateDesktop
<1>1. ASSUME DeskInv PROVE PrivateDesktop
  <2>1. ASSUME NEW w \in bridge
        PROVE  w \in paused /\ display[w] \in screens /\ bridge = {w} /\ (lease[w] \in {"active", "returning"} \/ Ending(w))
    BY <1>1, <2>1 DEF DeskInv, DesktopTypeOK, BridgeOK, ScreensOK, Handed, Ending
  <2>2. ASSUME NEW w \in Works, browser[w] = "up"
        PROVE  display[w] \in screens /\ \A x \in Works \ {w} : display[x] # display[w]
    BY <1>1, <2>2 DEF DeskInv, ScreensOK
  <2> QED
    BY <2>1, <2>2 DEF PrivateDesktop
<1> QED
  BY DeskAlways, <1>1, PTL
-----------------------------------------------------------------------------
\* A read that was asked for.
Asking == {"waiting", "starting", "driving", "observing", "done", "failed"}
AskedReads == [at : Asking, caller : Callers, images : BOOLEAN, sid : Reads \cup {0}, complete : BOOLEAN,
               text : Reads \cup {0}, doc : Reads \cup {0}, pictured : BOOLEAN]
Navigated == {"driving", "observing", "done", "failed"}

\* The read that is between its start and its end has the lock of the reader; a page, an
\* image or a request is of a read whose navigation began.
TurnsOK ==
    /\ read \in [Reads -> {NotAsked} \cup AskedReads]
    /\ {readerLock, readerSid, shown, loadedBy, coming} \subseteq Reads \cup {0}
    /\ stopped \subseteq Reads /\ pictured \subseteq Reads
    /\ \A r \in Reads : read[r].at \in {"starting", "driving", "observing"} <=> readerLock = r
    /\ \A r \in Reads : r \in {shown, loadedBy, coming} \cup stopped \cup pictured => read[r].at \in Navigated
RestOK ==
    /\ readerTid \in BOOLEAN /\ humanHas \in BOOLEAN /\ within \in BOOLEAN /\ skipped \in BOOLEAN /\ others \in 0..MaxWorks

\* As long as the browser of a read lives, its tab loads and shows no page of a later read,
\* and has the policy and the images of this one.
TabOK_Read(r) ==
    read[r].at \in {"driving", "observing"} /\ SessionLives(r) =>
        /\ coming \in {0, r} /\ (shown = r => coming = 0)
        /\ (read[r].at = "observing" /\ read[r].complete => shown = r)
        /\ skipped = ~read[r].images /\ (r \in pictured => read[r].images)
TabsOK == \A r \in Reads : TabOK_Read(r)

\* A result is what was observed, and only its caller has it.
Own(r) ==
    /\ (read[r].at = "done" /\ read[r].complete => read[r].text = r)
    /\ (read[r].at = "done" /\ read[r].complete /\ read[r].doc = r /\ read[r].pictured => read[r].images)
    /\ (read[r].at = "none" => heldBy[r] = {}) /\ (read[r].at # "none" => heldBy[r] \subseteq {read[r].caller})
ResultsOK ==
    /\ heldBy \in [Reads -> SUBSET Callers]
    /\ \A r \in Reads : Own(r)

\* Every result that is kept has a place of its own, and no caller has too many.
CacheOK ==
    /\ cache \in [Reads -> Nat] /\ places \in Nat
    /\ \A r \in Reads : IsKept(r) => read[r].at = "done" /\ cache[r] <= places
    /\ \A q, r \in Reads : IsKept(r) /\ cache[q] = cache[r] => q = r
    /\ \A who \in Callers : IsFiniteSet(Owned(who)) /\ Cardinality(Owned(who)) <= MaxKept

ReadInv == TurnsOK /\ RestOK /\ TabsOK /\ ResultsOK /\ CacheOK

\* What is known of a call whose record is replaced.
LEMMA CallChanges ==
    ASSUME TurnsOK, NEW r \in Reads, NEW new \in AskedReads, read' = [read EXCEPT ![r] = new]
    PROVE  /\ read' \in [Reads -> {NotAsked} \cup AskedReads] /\ read'[r] = new
           /\ \A q \in Reads : q # r => read'[q] = read[q]
BY DEF TurnsOK

\* A call that moves on keeps everything but its place.
LEMMA CallMoves ==
    ASSUME TurnsOK, NEW r \in Reads, NEW place \in Asking, read[r].at # "none", Moves(r, place)
    PROVE  /\ read' \in [Reads -> {NotAsked} \cup AskedReads]
           /\ read[r] \in AskedReads /\ read'[r] \in AskedReads /\ read'[r].at = place
           /\ read'[r].caller = read[r].caller /\ read'[r].images = read[r].images /\ read'[r].sid = read[r].sid
           /\ read'[r].complete = read[r].complete
           /\ \A q \in Reads : q # r => read'[q] = read[q]
<1>1. read[r] \in AskedReads
  BY DEF TurnsOK, NotAsked
<1>2. PICK new : new = [read[r] EXCEPT !.at = place]
  OBVIOUS
<1>3. /\ new \in AskedReads /\ new.at = place /\ new.caller = read[r].caller /\ new.images = read[r].images
      /\ new.sid = read[r].sid /\ new.complete = read[r].complete
  BY <1>1, <1>2 DEF AskedReads
<1>4. read' = [read EXCEPT ![r] = new]
  BY <1>2 DEF Moves
<1> QED
  BY <1>1, <1>3, <1>4, CallChanges

\* At first nobody asked for anything.
LEMMA ReadStarts == Init_Reader => ReadInv
<1> SUFFICES ASSUME Init_Reader PROVE ReadInv
  OBVIOUS
<1>1. /\ \A r \in Reads : read[r] = NotAsked /\ read[r].at = "none" /\ cache[r] = 0 /\ heldBy[r] = {}
      /\ read \in [Reads -> {NotAsked} \cup AskedReads]
  BY DEF Init_Reader, NotAsked
<1>2. TurnsOK
  BY <1>1, ReaderConstants DEF Init_Reader, TurnsOK
<1>3. RestOK /\ TabsOK /\ ResultsOK
  <2>1. RestOK
    <3>1. 0 \in 0..MaxWorks
      BY ReaderConstants
    <3> QED BY <3>1 DEF Init_Reader, RestOK
  <2>2. TabsOK
    BY <1>1 DEF TabsOK, TabOK_Read
  <2>3. heldBy \in [Reads -> SUBSET Callers]
    BY DEF Init_Reader
  <2>4. ResultsOK
    BY <1>1, <2>3 DEF ResultsOK, Own
  <2> QED BY <2>1, <2>2, <2>4
<1>4. CacheOK
  <2>1. \A who \in Callers : Owned(who) = {}
    BY <1>1 DEF Owned, IsKept
  <2> QED
    BY <1>1, <2>1, FS_EmptySet, ReaderConstants DEF Init_Reader, CacheOK, IsKept
<1> QED
  BY <1>2, <1>3, <1>4 DEF ReadInv

\* Results stay where they are while nobody changes a call that is done.
LEMMA CacheStays ==
    ASSUME CacheOK, UNCHANGED <<cache, places>>, \A r \in Reads : read[r].at = "done" => read'[r] = read[r]
    PROVE  CacheOK'
<1>1. \A who \in Callers : Owned(who)' = Owned(who)
  BY DEF CacheOK, Owned, IsKept
<1> QED
  BY <1>1 DEF CacheOK, IsKept

\* A call that is not done, and is not done now, leaves results and cache as they are.
LEMMA CallKeeps ==
    ASSUME ReadInv, NEW r \in Reads, NEW new \in AskedReads, read' = [read EXCEPT ![r] = new],
           new.at # "done", read[r].at # "done", read[r].at = "none" \/ new.caller = read[r].caller,
           UNCHANGED <<cache, places, heldBy>>
    PROVE  /\ read' \in [Reads -> {NotAsked} \cup AskedReads] /\ read'[r] = new
           /\ \A q \in Reads : q # r => read'[q] = read[q]
           /\ ResultsOK' /\ CacheOK'
<1>1. /\ read' \in [Reads -> {NotAsked} \cup AskedReads] /\ read'[r] = new
      /\ \A q \in Reads : q # r => read'[q] = read[q]
  BY CallChanges DEF ReadInv
<1>2. CacheOK'
  BY <1>1, CacheStays DEF ReadInv
<1>3. new.at # "none"
  BY DEF AskedReads, Asking
<1>4. heldBy[r] \subseteq {new.caller}
  BY DEF ReadInv, ResultsOK, Own
<1>5. Own(r)'
  BY <1>1, <1>3, <1>4 DEF Own
<1>6. ResultsOK'
  BY <1>1, <1>5 DEF ReadInv, ResultsOK, Own
<1> QED
  BY <1>1, <1>2, <1>6

\* A call is asked for, or gives up before its turn.
LEMMA WaitingKeeps ==
    ASSUME ReadInv, NEW r \in Reads,
           GivesUpReading(r) \/ \E who \in Callers, images \in BOOLEAN : AskRead(r, who, images)
    PROVE  ReadInv'
<1>1. UNCHANGED <<readerLock, cache, places, heldBy, readerTab, sessions_>> /\ read[r].at \in {"none", "waiting"}
  BY DEF GivesUpReading, AskRead, Is
<1>2. PICK new \in AskedReads : /\ read' = [read EXCEPT ![r] = new] /\ new.at \in {"waiting", "failed"}
                                /\ (read[r].at = "none" \/ new.caller = read[r].caller)
  <2>1. CASE GivesUpReading(r)
    <3>1. read[r].at = "waiting" /\ Moves(r, "failed")
      BY <2>1 DEF GivesUpReading, Is
    <3>2. read'[r] \in AskedReads /\ read'[r].at = "failed" /\ read'[r].caller = read[r].caller
      BY <3>1, CallMoves DEF ReadInv, Asking
    <3>3. read' = [read EXCEPT ![r] = read'[r]]
      BY <3>1 DEF Moves, ReadInv, TurnsOK
    <3> QED BY <3>2, <3>3
  <2>2. ASSUME NEW who \in Callers, NEW images \in BOOLEAN, AskRead(r, who, images)
        PROVE  read' = [read EXCEPT ![r] = Asked(who, images)] /\ read[r].at = "none"
               /\ Asked(who, images) \in AskedReads /\ Asked(who, images).at = "waiting"
    BY <2>2 DEF AskRead, Is, Asked, AskedReads, Asking
  <2> QED BY <2>1, <2>2
<1>3. /\ read' \in [Reads -> {NotAsked} \cup AskedReads] /\ read'[r] = new
      /\ \A q \in Reads : q # r => read'[q] = read[q]
      /\ ResultsOK' /\ CacheOK'
  BY <1>1, <1>2, CallKeeps
<1>4. TurnsOK'
  BY <1>1, <1>2, <1>3 DEF readerTab, sessions_, ReadInv, TurnsOK, Navigated
<1>5. RestOK' /\ TabsOK'
  BY <1>1, <1>2, <1>3 DEF readerTab, sessions_, ReadInv, RestOK, TabsOK, TabOK_Read, SessionLives
<1> QED
  BY <1>3, <1>4, <1>5 DEF ReadInv

\* A read takes its turn when the reader is free.
LEMMA TurnKeeps == ASSUME ReadInv, NEW r \in Reads, TakesTurn(r) PROVE ReadInv'
<1>1. /\ read[r].at = "waiting" /\ readerLock = 0 /\ readerLock' = r /\ Moves(r, "starting")
      /\ UNCHANGED <<cache, places, heldBy, readerTab, sessions_>>
  BY DEF TakesTurn, ReaderFree, Is
<1>2. read'[r] \in AskedReads /\ read'[r].at = "starting" /\ read'[r].caller = read[r].caller
  BY <1>1, CallMoves DEF ReadInv, Asking
<1>3. read' = [read EXCEPT ![r] = read'[r]]
  BY <1>1 DEF Moves, ReadInv, TurnsOK
<1>4. /\ read' \in [Reads -> {NotAsked} \cup AskedReads] /\ \A q \in Reads : q # r => read'[q] = read[q]
      /\ ResultsOK' /\ CacheOK'
  BY <1>1, <1>2, <1>3, CallKeeps
<1>5. TurnsOK'
  BY <1>1, <1>2, <1>4, ReaderConstants DEF readerTab, sessions_, ReadInv, TurnsOK, Navigated
<1>6. RestOK' /\ TabsOK'
  BY <1>1, <1>2, <1>4 DEF readerTab, sessions_, ReadInv, RestOK, TabsOK, TabOK_Read, SessionLives
<1> QED
  BY <1>4, <1>5, <1>6 DEF ReadInv

\* A read fails: whatever it leaves in the tab, it lets go of the reader.
LEMMA FailsKeeps ==
    ASSUME ReadInv, NEW r \in Reads, read[r].at \in {"starting", "driving", "observing"}, ReadFails(r),
           readerSid' \in {readerSid, r}, readerTid' \in BOOLEAN, coming' \in {coming, 0},
           within' \in BOOLEAN, skipped' \in BOOLEAN,
           UNCHANGED <<others, humanHas, shown, loadedBy, stopped, pictured>>
    PROVE  ReadInv'
<1>1. Moves(r, "failed") /\ readerLock' = 0 /\ UNCHANGED <<cache, places, heldBy>>
  BY DEF ReadFails
<1>2. read'[r] \in AskedReads /\ read'[r].at = "failed" /\ read'[r].caller = read[r].caller
  BY <1>1, CallMoves DEF ReadInv, Asking
<1>3. read' = [read EXCEPT ![r] = read'[r]]
  BY <1>1 DEF Moves, ReadInv, TurnsOK
<1>4. /\ read' \in [Reads -> {NotAsked} \cup AskedReads] /\ \A q \in Reads : q # r => read'[q] = read[q]
      /\ ResultsOK' /\ CacheOK'
  BY <1>1, <1>2, <1>3, CallKeeps
<1>5. \A q \in Reads : read'[q].at \notin {"starting", "driving", "observing"}
  BY <1>2, <1>4 DEF ReadInv, TurnsOK
<1>6. TurnsOK'
  <2>1. \A q \in Reads : read'[q].at \in {"starting", "driving", "observing"} <=> readerLock' = q
    BY <1>1, <1>5, ReaderConstants
  <2>2. \A q \in Reads : q \in {shown, loadedBy, coming} \cup stopped \cup pictured => read'[q].at \in Navigated
    BY <1>2, <1>4 DEF ReadInv, TurnsOK, Navigated
  <2>3. {readerLock', readerSid', shown', loadedBy', coming'} \subseteq Reads \cup {0}
    BY <1>1 DEF ReadInv, TurnsOK
  <2>4. \A q \in Reads : q \in {shown', loadedBy', coming'} \cup stopped' \cup pictured' => read'[q].at \in Navigated
    BY <2>2, ReaderConstants
  <2> QED BY <1>4, <2>1, <2>3, <2>4 DEF ReadInv, TurnsOK
<1>7. RestOK' /\ TabsOK'
  BY <1>5 DEF ReadInv, RestOK, TabsOK, TabOK_Read
<1> QED
  BY <1>4, <1>6, <1>7 DEF ReadInv

\* The ways a read fails.
LEMMA FailuresKeep ==
    ASSUME ReadInv, NEW r \in Reads, StartRefused(r) \/ StartFails(r) \/ ReadPollFails(r) \/ ObserveFails(r) PROVE ReadInv'
<1>1. readerTid \in BOOLEAN /\ skipped \in BOOLEAN /\ within \in BOOLEAN
  BY DEF ReadInv, RestOK
<1>2. CASE StartRefused(r) \/ ObserveFails(r)
  BY <1>1, <1>2, FailsKeeps DEF StartRefused, ObserveFails, Is, readerTab, sessions_
<1>3. CASE ReadPollFails(r)
  BY <1>1, <1>3, FailsKeeps DEF ReadPollFails, Is, sessions_
<1>4. CASE StartFails(r)
  <2>1. /\ read[r].at = "starting" /\ readerSid' \in {readerSid, r} /\ ReadFails(r)
        /\ UNCHANGED <<others, humanHas, shown, loadedBy, stopped, pictured>>
    BY <1>4 DEF StartFails, Opens, Is
  <2>2. readerTid' \in BOOLEAN /\ coming' \in {coming, 0} /\ skipped' \in BOOLEAN /\ within' \in BOOLEAN
    BY <1>1, <1>4 DEF StartFails, Configures
  <2> QED BY <2>1, <2>2, FailsKeeps
<1> QED
  BY <1>2, <1>3, <1>4

\* A navigation begins: the tab loads this read's page next, under this read's policy.
LEMMA StartKeeps == ASSUME ReadInv, NEW r \in Reads, StartRead(r) PROVE ReadInv'
<1>1. /\ read[r].at = "starting" /\ readerSid' = (IF readerSid = 0 THEN r ELSE readerSid)
      /\ readerTid' = TRUE /\ skipped' = ~read[r].images /\ coming' = r /\ within' \in BOOLEAN
      /\ read' = [read EXCEPT ![r].sid = readerSid', ![r].at = "driving"]
      /\ UNCHANGED <<readerLock, cache, places, heldBy, others, humanHas, mishaps, shown, loadedBy, stopped, pictured>>
  BY DEF StartRead, Opens, Configures, Is
<1>2. PICK new : new = [read[r] EXCEPT !.sid = readerSid', !.at = "driving"]
  OBVIOUS
<1>3. read[r] \in AskedReads
  BY <1>1 DEF ReadInv, TurnsOK, NotAsked
<1>4. readerSid' \in Reads \cup {0}
  BY <1>1 DEF ReadInv, TurnsOK
<1>5. /\ new \in AskedReads /\ new.at = "driving" /\ new.caller = read[r].caller /\ new.images = read[r].images
      /\ new.sid = readerSid'
  BY <1>2, <1>3, <1>4 DEF AskedReads, Asking
<1>6. read' = [read EXCEPT ![r] = new]
  BY <1>1, <1>2 DEF ReadInv, TurnsOK
<1>7. /\ read' \in [Reads -> {NotAsked} \cup AskedReads] /\ read'[r] = new
      /\ \A q \in Reads : q # r => read'[q] = read[q]
      /\ ResultsOK' /\ CacheOK'
  BY <1>1, <1>5, <1>6, CallKeeps
<1>8. readerLock = r /\ r # shown /\ r \notin pictured /\ r \notin stopped
  BY <1>1 DEF ReadInv, TurnsOK, Navigated
<1>9. TurnsOK'
  <2>1. \A q \in Reads : read'[q].at \in {"starting", "driving", "observing"} <=> readerLock' = q
    BY <1>1, <1>5, <1>7, <1>8 DEF ReadInv, TurnsOK
  <2>2. \A q \in Reads : q \in {shown', loadedBy', coming'} \cup stopped' \cup pictured' => read'[q].at \in Navigated
    BY <1>1, <1>5, <1>7 DEF ReadInv, TurnsOK, Navigated
  <2> QED BY <1>1, <1>4, <1>7, <2>1, <2>2 DEF ReadInv, TurnsOK
<1>10. TabsOK'
  <2>1. TabOK_Read(r)'
    BY <1>1, <1>5, <1>7, <1>8 DEF TabOK_Read, AskedReads
  <2>2. ASSUME NEW q \in Reads, q # r PROVE TabOK_Read(q)'
    BY <1>7, <1>8, <2>2 DEF TabOK_Read, ReadInv, TurnsOK
  <2> QED BY <2>1, <2>2 DEF TabsOK
<1>11. RestOK'
  BY <1>1 DEF ReadInv, RestOK
<1> QED
  BY <1>7, <1>9, <1>10, <1>11 DEF ReadInv

\* A navigation ends: a page that is complete is the one that is shown.
LEMMA ReadyKeeps == ASSUME ReadInv, NEW r \in Reads, PollCompletes(r) \/ PollTimesOut(r) PROVE ReadInv'
<1>1. PICK complete \in BOOLEAN :
        /\ read' = [read EXCEPT ![r].complete = complete, ![r].at = "observing"]
        /\ (complete => shown = r) /\ coming' \in {coming, 0} /\ SessionLives(r) /\ read[r].at = "driving"
        /\ UNCHANGED <<readerLock, cache, places, heldBy, shown, loadedBy, within, skipped, stopped, pictured, sessions_>>
  BY DEF PollCompletes, PollTimesOut, Drives, Is, Ready
<1>2. PICK new : new = [read[r] EXCEPT !.complete = complete, !.at = "observing"]
  OBVIOUS
<1>3. read[r] \in AskedReads
  BY <1>1 DEF ReadInv, TurnsOK, NotAsked
<1>4. /\ new \in AskedReads /\ new.at = "observing" /\ new.caller = read[r].caller /\ new.images = read[r].images
      /\ new.sid = read[r].sid /\ new.complete = complete
  BY <1>2, <1>3 DEF AskedReads, Asking
<1>5. read' = [read EXCEPT ![r] = new]
  BY <1>1, <1>2 DEF ReadInv, TurnsOK
<1>6. /\ read' \in [Reads -> {NotAsked} \cup AskedReads] /\ read'[r] = new
      /\ \A q \in Reads : q # r => read'[q] = read[q]
      /\ ResultsOK' /\ CacheOK'
  BY <1>1, <1>4, <1>5, CallKeeps
<1>7. TurnsOK'
  <2>1. \A q \in Reads : read'[q].at \in {"starting", "driving", "observing"} <=> readerLock' = q
    BY <1>1, <1>4, <1>6 DEF ReadInv, TurnsOK
  <2>2. \A q \in Reads : q \in {shown', loadedBy', coming'} \cup stopped' \cup pictured' => read'[q].at \in Navigated
    BY <1>1, <1>4, <1>6, ReaderConstants DEF ReadInv, TurnsOK, Navigated
  <2> QED BY <1>1, <1>6, <2>1, <2>2 DEF sessions_, ReadInv, TurnsOK
<1>8. TabsOK'
  <2>1. TabOK_Read(r)'
    BY <1>1, <1>4, <1>6 DEF sessions_, TabOK_Read, SessionLives, ReadInv, TabsOK
  <2>2. ASSUME NEW q \in Reads, q # r PROVE TabOK_Read(q)'
    BY <1>1, <1>6, <2>2 DEF TabOK_Read, ReadInv, TurnsOK
  <2> QED BY <2>1, <2>2 DEF TabsOK
<1>9. RestOK'
  BY <1>1 DEF sessions_, ReadInv, RestOK
<1> QED
  BY <1>6, <1>7, <1>8, <1>9 DEF ReadInv

\* Of a set of numbers that is not empty, one is the least.
LEMMA LeastOne == ASSUME NEW S \in SUBSET Nat, S # {} PROVE \E n \in S : \A m \in S : n <= m
<1> DEFINE below == {0..n : n \in S}
<1>1. below \subseteq FiniteSubsetsOf(Nat) /\ below # {}
  <2>1. \A n \in S : 0..n \subseteq Nat /\ IsFiniteSet(0..n)
    BY FS_Interval
  <2> QED
    BY <2>1 DEF FiniteSubsetsOf
<1>2. PICK T \in below : \A U \in below : <<U, T>> \notin StrictSubsetOrdering(Nat)
  <2> HIDE DEF below
  <2> QED
    BY <1>1, FS_StrictSubsetOrderingWellFounded, WFMin
<1>3. PICK n \in S : T = 0..n
  OBVIOUS
<1>4. ASSUME NEW m \in S, m < n PROVE FALSE
  <2>1. 0..m \in below /\ 0..m \subseteq Nat /\ 0..n \subseteq Nat
    OBVIOUS
  <2>2. 0..m \subseteq 0..n /\ 0..m # 0..n
    BY <1>4
  <2> QED
    BY <1>2, <1>3, <2>1, <2>2 DEF StrictSubsetOrdering
<1> QED
  BY <1>4

\* Of the results of a caller, the latest MaxKept - 1 are not superseded.
LEMMA LatestStay ==
    ASSUME CacheOK, NEW who \in Callers
    PROVE  LET stay == Owned(who) \ Superseded(who)
           IN  IsFiniteSet(stay) /\ Cardinality(stay) <= MaxKept - 1
<1> DEFINE owned == Owned(who)
           stay == owned \ Superseded(who)
<1>1. IsFiniteSet(owned) /\ owned \subseteq Reads /\ \A q \in owned : cache[q] \in Nat /\ IsKept(q)
  BY DEF CacheOK, Owned
<1>2. \A q \in stay : Cardinality(Later(q, who)) < MaxKept - 1
  <2>1. \A q \in owned : Later(q, who) \subseteq owned
    BY DEF Later
  <2>2. \A q \in owned : Cardinality(Later(q, who)) \in Nat
    BY <1>1, <2>1, FS_Subset, FS_CardinalityType
  <2> QED
    BY <2>2, ReaderConstants DEF Superseded
<1>3. IsFiniteSet(stay)
  BY <1>1, FS_Subset
<1>4. CASE stay = {}
  BY <1>3, <1>4, FS_EmptySet, ReaderConstants
<1>5. CASE stay # {}
  <2>1. PICK n \in {cache[q] : q \in stay} : \A m \in {cache[q] : q \in stay} : n <= m
    BY <1>1, <1>5, LeastOne
  <2>2. PICK e \in stay : cache[e] = n
    BY <2>1
  <2>3. \A q \in stay \ {e} : q \in Later(e, who)
    <3> SUFFICES ASSUME NEW q \in stay, q # e PROVE q \in Later(e, who)
      OBVIOUS
    <3>1. cache[e] <= cache[q] /\ cache[q] # cache[e]
      BY <1>1, <2>1, <2>2 DEF CacheOK
    <3> QED BY <1>1, <3>1 DEF Later
  <2>4. IsFiniteSet(Later(e, who)) /\ Cardinality(Later(e, who)) \in Nat
    <3>1. Later(e, who) \subseteq owned
      BY DEF Later
    <3> QED BY <1>1, <3>1, FS_Subset, FS_CardinalityType
  <2>5. Cardinality(stay \ {e}) <= Cardinality(Later(e, who))
    BY <2>3, <2>4, FS_Subset
  <2>6. Cardinality(stay \ {e}) = Cardinality(stay) - 1 /\ Cardinality(stay) \in Nat /\ Cardinality(stay \ {e}) \in Nat
    BY <1>3, <2>2, FS_RemoveElement, FS_CardinalityType
  <2>7. Cardinality(Later(e, who)) < MaxKept - 1
    BY <1>2, <2>2
  <2> QED
    BY <1>3, <2>4, <2>5, <2>6, <2>7, ReaderConstants
<1> QED
  BY <1>4, <1>5

\* A result is kept: it is what the tab shows, and the oldest of the caller make room.
LEMMA ObserveKeeps == ASSUME ReadInv, NEW r \in Reads, ObserveRead(r) PROVE ReadInv'
<1>1. /\ read' = [read EXCEPT ![r].text = shown, ![r].doc = loadedBy, ![r].pictured = loadedBy \in pictured,
                          ![r].at = "done"]
      /\ read[r].at = "observing" /\ SessionLives(r) /\ Keeps(r)
      /\ heldBy' = [heldBy EXCEPT ![r] = @ \cup {read[r].caller}] /\ readerLock' = 0
      /\ UNCHANGED <<readerTab, sessions_>>
  BY DEF ObserveRead, Is
<1>2. PICK new : new = [read[r] EXCEPT !.text = shown, !.doc = loadedBy, !.pictured = loadedBy \in pictured, !.at = "done"]
  OBVIOUS
<1>3. read[r] \in AskedReads
  BY <1>1 DEF ReadInv, TurnsOK, NotAsked
<1>4. /\ new \in AskedReads /\ new.at = "done" /\ new.caller = read[r].caller /\ new.images = read[r].images
      /\ new.complete = read[r].complete /\ new.text = shown /\ new.doc = loadedBy
      /\ new.pictured = (loadedBy \in pictured)
  <2>1. {shown, loadedBy} \subseteq Reads \cup {0} /\ (loadedBy \in pictured) \in BOOLEAN
    BY DEF ReadInv, TurnsOK
  <2> QED BY <1>2, <1>3, <2>1 DEF AskedReads, Asking
<1>5. read' = [read EXCEPT ![r] = new]
  BY <1>1, <1>2 DEF ReadInv, TurnsOK
<1>6. /\ read' \in [Reads -> {NotAsked} \cup AskedReads] /\ read'[r] = new
      /\ \A q \in Reads : q # r => read'[q] = read[q]
  BY <1>4, <1>5, CallChanges DEF ReadInv
<1>7. \A q \in Reads : read'[q].at \notin {"starting", "driving", "observing"}
  BY <1>1, <1>4, <1>6 DEF ReadInv, TurnsOK
<1>8. TurnsOK'
  <2>1. \A q \in Reads : read'[q].at \in {"starting", "driving", "observing"} <=> readerLock' = q
    BY <1>1, <1>7, ReaderConstants
  <2>2. \A q \in Reads : q \in {shown', loadedBy', coming'} \cup stopped' \cup pictured' => read'[q].at \in Navigated
    BY <1>1, <1>4, <1>6 DEF readerTab, ReadInv, TurnsOK, Navigated
  <2> QED BY <1>1, <1>6, <2>1, <2>2 DEF readerTab, sessions_, ReadInv, TurnsOK
<1>9. RestOK' /\ TabsOK'
  BY <1>1, <1>7 DEF readerTab, sessions_, ReadInv, RestOK, TabsOK, TabOK_Read
<1>10. ResultsOK'
  <2>1. heldBy[r] \subseteq {read[r].caller} /\ read[r].caller \in Callers
    BY <1>1, <1>3 DEF ReadInv, ResultsOK, Own, AskedReads
  <2>2. heldBy' \in [Reads -> SUBSET Callers] /\ heldBy'[r] \subseteq {read[r].caller}
        /\ \A q \in Reads : q # r => heldBy'[q] = heldBy[q]
    BY <1>1, <2>1 DEF ReadInv, ResultsOK
  <2>3. read[r].complete => shown = r /\ (r \in pictured => read[r].images)
    BY <1>1 DEF ReadInv, TabsOK, TabOK_Read
  <2>4. Own(r)'
    BY <1>4, <1>6, <2>2, <2>3 DEF Own
  <2> QED
    BY <1>6, <2>2, <2>4 DEF ReadInv, ResultsOK, Own
<1>11. CacheOK'
  <2> DEFINE mine == read[r].caller
  <2>1. /\ places' = places + 1 /\ mine \in Callers /\ places \in Nat
        /\ cache' = [q \in Reads |-> IF q = r THEN places' ELSE IF q \in Superseded(mine) THEN 0 ELSE cache[q]]
    BY <1>1, <1>3 DEF Keeps, AskedReads, ReadInv, CacheOK
  <2>2. cache \in [Reads -> Nat] /\ cache[r] = 0 /\ \A q \in Reads : cache[q] # 0 => read[q].at = "done" /\ cache[q] <= places
    BY <1>1 DEF ReadInv, CacheOK, IsKept
  <2>3. cache' \in [Reads -> Nat] /\ places' \in Nat
    BY <2>1, <2>2
  <2>4. \A q \in Reads : cache'[q] # 0 => q = r \/ (cache'[q] = cache[q] /\ q \notin Superseded(mine) /\ q # r)
    BY <2>1
  <2>5. cache'[r] = places + 1
    BY <2>1
  <2>6. \A q \in Reads : cache'[q] # 0 => read'[q].at = "done" /\ cache'[q] <= places'
    BY <1>4, <1>6, <2>1, <2>2, <2>4, <2>5
  <2>7. \A p, q \in Reads : cache'[q] # 0 /\ cache'[p] = cache'[q] => p = q
    <3> SUFFICES ASSUME NEW p \in Reads, NEW q \in Reads, cache'[q] # 0, cache'[p] = cache'[q], p # q PROVE FALSE
      OBVIOUS
    <3>1. CASE p = r \/ q = r
      BY <2>1, <2>2, <2>4, <2>5, <3>1
    <3>2. CASE p # r /\ q # r
      BY <2>4, <3>2 DEF ReadInv, CacheOK, IsKept
    <3> QED BY <3>1, <3>2
  <2>8. ASSUME NEW who \in Callers PROVE IsFiniteSet(Owned(who)') /\ Cardinality(Owned(who)') <= MaxKept
    <3>1. CASE who = mine
      <4> DEFINE stay == Owned(mine) \ Superseded(mine)
      <4>1. IsFiniteSet(stay) /\ Cardinality(stay) <= MaxKept - 1 /\ Cardinality(stay) \in Nat
        BY <2>1, LatestStay, FS_CardinalityType DEF ReadInv
      <4>2. Owned(who)' \subseteq stay \cup {r}
        BY <1>6, <2>4, <3>1 DEF Owned, IsKept
      <4> HIDE DEF stay
      <4>3. IsFiniteSet(stay \cup {r}) /\ Cardinality(stay \cup {r}) <= MaxKept
        <5>1. MaxKept \in Nat
          BY ReaderConstants
        <5>2. IsFiniteSet(stay \cup {r}) /\ Cardinality(stay \cup {r}) \in {Cardinality(stay), Cardinality(stay) + 1}
          BY <4>1, FS_AddElement
        <5> QED BY <4>1, <5>1, <5>2
      <4>4. IsFiniteSet(Owned(who)') /\ Cardinality(Owned(who)') <= Cardinality(stay \cup {r})
        BY <4>2, <4>3, FS_Subset
      <4> QED
        BY <4>3, <4>4, FS_CardinalityType, ReaderConstants
    <3>2. CASE who # mine
      <4>1. Owned(who)' \subseteq Owned(who)
        BY <1>4, <1>6, <2>4, <3>2 DEF Owned, IsKept
      <4>2. IsFiniteSet(Owned(who)) /\ Cardinality(Owned(who)) <= MaxKept
        BY DEF ReadInv, CacheOK
      <4>3. IsFiniteSet(Owned(who)') /\ Cardinality(Owned(who)') <= Cardinality(Owned(who))
        BY <4>1, <4>2, FS_Subset
      <4> QED
        BY <4>2, <4>3, FS_CardinalityType, ReaderConstants
    <3> QED BY <3>1, <3>2
  <2> QED
    BY <2>3, <2>6, <2>7, <2>8 DEF CacheOK, IsKept
<1> QED
  BY <1>8, <1>9, <1>10, <1>11 DEF ReadInv

\* A caller goes on with a result of its own, and results expire.
LEMMA ResultStepsKeep ==
    ASSUME ReadInv, CacheExpires \/ \E r \in Reads, who \in Callers : Continue(r, who) PROVE ReadInv'
<1>1. UNCHANGED <<read, readerLock, places, readerTab, sessions_>>
  BY DEF CacheExpires, Continue
<1>2. TurnsOK' /\ RestOK' /\ TabsOK'
  BY <1>1 DEF readerTab, sessions_, ReadInv, TurnsOK, RestOK, TabsOK, TabOK_Read, SessionLives
<1>3. CASE CacheExpires
  <2>1. PICK r \in Reads : cache' = [cache EXCEPT ![r] = 0]
    BY <1>3 DEF CacheExpires
  <2>2. cache' \in [Reads -> Nat] /\ heldBy' = heldBy /\ \A q \in Reads : cache'[q] # 0 => cache'[q] = cache[q] 
    BY <1>3, <2>1 DEF CacheExpires, ReadInv, CacheOK
  <2>3. \A who \in Callers : Owned(who)' \subseteq Owned(who)
    BY <1>1, <2>2 DEF Owned, IsKept
  <2>4. ASSUME NEW who \in Callers PROVE IsFiniteSet(Owned(who)') /\ Cardinality(Owned(who)') <= MaxKept
    <3>1. IsFiniteSet(Owned(who)) /\ Cardinality(Owned(who)) <= MaxKept
      BY DEF ReadInv, CacheOK
    <3>2. IsFiniteSet(Owned(who)') /\ Cardinality(Owned(who)') <= Cardinality(Owned(who))
      BY <2>3, <3>1, FS_Subset
    <3> QED BY <3>1, <3>2, FS_CardinalityType, ReaderConstants
  <2>5. \A p, q \in Reads : cache'[q] # 0 /\ cache'[p] = cache'[q] => p = q
    BY <2>2 DEF ReadInv, CacheOK, IsKept
  <2>6. \A q \in Reads : cache'[q] # 0 => read'[q].at = "done" /\ cache'[q] <= places'
    BY <1>1, <2>2 DEF ReadInv, CacheOK, IsKept
  <2>7. CacheOK'
    BY <1>1, <2>2, <2>4, <2>5, <2>6 DEF CacheOK, IsKept, ReadInv
  <2>8. ResultsOK'
    BY <1>1, <2>2 DEF ReadInv, ResultsOK, Own
  <2> QED BY <1>2, <2>7, <2>8 DEF ReadInv
<1>4. ASSUME NEW r \in Reads, NEW who \in Callers, Continue(r, who) PROVE ReadInv'
  <2>1. /\ cache' = cache /\ read[r].at = "done" /\ read[r].caller = who
        /\ heldBy' = [heldBy EXCEPT ![r] = @ \cup {who}]
    BY <1>4 DEF Continue, ReadInv, CacheOK
  <2>2. CacheOK'
    BY <1>1, <2>1, CacheStays DEF ReadInv
  <2>3. heldBy' \in [Reads -> SUBSET Callers] /\ heldBy'[r] = heldBy[r] \cup {who}
        /\ \A q \in Reads : q # r => heldBy'[q] = heldBy[q]
    BY <2>1 DEF ReadInv, ResultsOK
  <2>4. ResultsOK'
    BY <1>1, <2>1, <2>3 DEF ReadInv, ResultsOK, Own
  <2> QED BY <1>2, <2>2, <2>4 DEF ReadInv
<1> QED
  BY <1>3, <1>4

\* The works beside the reader, and the loss of its browser: a read whose browser is gone
\* lives no more, since the next one has another name.
LEMMA WorksKeep ==
    ASSUME ReadInv, WorkOpens \/ WorkCloses \/ HumanTakes \/ HumanReturns \/ ReaderIdles \/ ReaderLost \/ WorkerLost PROVE ReadInv'
<1>1. UNCHANGED calls /\ others' \in 0..MaxWorks /\ humanHas' \in BOOLEAN /\ (UNCHANGED <<readerTab, readerSid, readerTid>> \/ ReaderGone)
  <2> others \in 0..MaxWorks /\ humanHas \in BOOLEAN
    BY DEF ReadInv, RestOK
  <2>1. CASE WorkOpens \/ WorkCloses
    <3>1. MaxWorks \in Nat
      BY ReaderConstants
    <3>2. others' \in 0..MaxWorks
      BY <2>1, <3>1 DEF WorkOpens, WorkCloses
    <3> QED BY <2>1, <3>2 DEF WorkOpens, WorkCloses
  <2>2. CASE HumanTakes \/ HumanReturns
    BY <2>2 DEF HumanTakes, HumanReturns
  <2>3. CASE ReaderIdles \/ ReaderLost
    BY <2>3 DEF ReaderIdles, ReaderLost, ReaderGone
  <2>4. CASE WorkerLost
    <3>1. others' = 0 /\ MaxWorks \in Nat /\ humanHas' = FALSE /\ ReaderGone
      BY <2>4, ReaderConstants DEF WorkerLost
    <3>2. UNCHANGED calls
      BY <3>1 DEF ReaderGone
    <3>3. others' \in 0..MaxWorks
      BY <3>1
    <3>4. humanHas' \in BOOLEAN
      BY <3>1, Zenon
    <3> QED BY <3>1, <3>2, <3>3, <3>4
  <2> QED
    BY <2>1, <2>2, <2>3, <2>4
<1>2. ResultsOK' /\ CacheOK'
  <2>1. CacheOK'
    BY <1>1, CacheStays DEF calls, ReadInv
  <2> QED
    BY <1>1, <2>1 DEF calls, ReadInv, ResultsOK, Own
<1>3. CASE UNCHANGED <<readerTab, readerSid, readerTid>>
  BY <1>1, <1>2, <1>3 DEF calls, readerTab, ReadInv, TurnsOK, RestOK, TabsOK, TabOK_Read, SessionLives
<1>4. CASE ReaderGone
  <2>1. /\ readerSid' = 0 /\ readerTid' = FALSE /\ shown' = 0 /\ loadedBy' = 0 /\ coming' = 0 /\ within' = FALSE
        /\ skipped' = FALSE /\ stopped' = {} /\ pictured' = pictured
    BY <1>4 DEF ReaderGone
  <2>2. TurnsOK'
    BY <1>1, <2>1, ReaderConstants DEF calls, ReadInv, TurnsOK
  <2>3. RestOK' /\ TabsOK'
    BY <1>1, <2>1 DEF RestOK, TabsOK, TabOK_Read, SessionLives
  <2> QED BY <1>2, <2>2, <2>3 DEF ReadInv
<1> QED
  BY <1>1, <1>3, <1>4

\* The tab: a page comes, or asks for an image.
LEMMA TabKeeps ==
    ASSUME ReadInv, PageComes \/ PageErrs \/ PageWantsImage \/ \E r \in Reads : Dispatches(r) PROVE ReadInv'
<1>1. UNCHANGED <<calls, skipped, sessions_>>
  BY DEF PageComes, PageErrs, PageWantsImage, Dispatches
<1>2. ResultsOK' /\ CacheOK' /\ RestOK'
  <2>1. CacheOK'
    BY <1>1, CacheStays DEF calls, ReadInv
  <2>2. within' \in BOOLEAN
    BY DEF PageComes, PageErrs, PageWantsImage, Dispatches, ReadInv, RestOK
  <2> QED
    BY <1>1, <2>1, <2>2 DEF calls, sessions_, ReadInv, ResultsOK, Own, RestOK
<1>3. CASE PageComes \/ PageErrs
  <2>1. /\ coming # 0 /\ shown' \in {coming, 0} /\ loadedBy' \in {loadedBy, coming, 0} /\ coming' = 0
        /\ UNCHANGED <<stopped, pictured>>
    BY <1>3 DEF PageComes, PageErrs
  <2>2. TurnsOK'
    BY <1>1, <2>1, ReaderConstants DEF calls, sessions_, ReadInv, TurnsOK
  <2>3. TabsOK'
    <3> SUFFICES ASSUME NEW r \in Reads PROVE TabOK_Read(r)'
      BY DEF TabsOK
    <3>1. TabOK_Read(r)
      BY DEF ReadInv, TabsOK
    <3> QED BY <1>1, <2>1, <3>1, ReaderConstants DEF calls, sessions_, TabOK_Read, SessionLives
  <2> QED BY <1>2, <2>2, <2>3 DEF ReadInv
<1>4. CASE PageWantsImage \/ \E r \in Reads : Dispatches(r)
  <2>1. PICK r \in Reads : /\ r \in {loadedBy} \cup stopped /\ stopped' \subseteq stopped \cup {r}
                           /\ pictured' \subseteq pictured \cup {r} /\ (skipped => pictured' = pictured)
    <3>1. CASE PageWantsImage
      <4>1. loadedBy \in Reads /\ stopped' \subseteq stopped \cup {loadedBy}
            /\ pictured' \subseteq pictured \cup {loadedBy} /\ (skipped => pictured' = pictured)
        BY <3>1 DEF PageWantsImage, ReadInv, TurnsOK
      <4> QED BY <4>1
    <3>2. ASSUME NEW q \in Reads, Dispatches(q)
          PROVE  /\ q \in {loadedBy} \cup stopped /\ stopped' \subseteq stopped \cup {q}
                 /\ pictured' \subseteq pictured \cup {q} /\ (skipped => pictured' = pictured)
      BY <3>2 DEF Dispatches
    <3> QED BY <1>4, <3>1, <3>2
  <2>2. UNCHANGED <<shown, loadedBy, coming>>
    BY <1>4 DEF PageWantsImage, Dispatches
  <2>3. TurnsOK'
    <3>1. stopped' \subseteq Reads /\ pictured' \subseteq Reads
      BY <2>1 DEF ReadInv, TurnsOK
    <3>2. \A q \in Reads : q \in {shown', loadedBy', coming'} \cup stopped' \cup pictured' => q \in {shown, loadedBy, coming} \cup stopped \cup pictured
      BY <2>1, <2>2
    <3> QED BY <1>1, <2>2, <3>1, <3>2 DEF calls, sessions_, ReadInv, TurnsOK
  <2>4. TabsOK'
    <3> SUFFICES ASSUME NEW q \in Reads PROVE TabOK_Read(q)'
      BY DEF TabsOK
    <3>1. TabOK_Read(q)
      BY DEF ReadInv, TabsOK
    <3>2. skipped = ~read[q].images /\ q \in pictured' => q \in pictured \/ read[q].images
      <4>1. CASE skipped BY <2>1, <4>1
      <4>2. CASE ~skipped
        <5>1. read[q] \in AskedReads \/ read[q] = NotAsked
          BY DEF ReadInv, TurnsOK
        <5> QED BY <4>2
      <4> QED BY <4>1, <4>2
    <3> QED BY <1>1, <2>2, <3>1, <3>2 DEF calls, sessions_, TabOK_Read, SessionLives
  <2> QED BY <1>2, <2>3, <2>4 DEF ReadInv
<1> QED
  BY <1>3, <1>4

\* The inductive invariant of public reading.
LEMMA ReadAlways == Spec_Reader => []ReadInv
<1>1. ReadInv /\ [Next_Reader]_readVars => ReadInv'
  <2> SUFFICES ASSUME ReadInv, [Next_Reader]_readVars PROVE ReadInv'
    OBVIOUS
  <2>1. ASSUME NEW r \in Reads, GivesUpReading(r) \/ \E who \in Callers, images \in BOOLEAN : AskRead(r, who, images)
        PROVE  ReadInv'
    BY <2>1, WaitingKeeps
  <2>2. ASSUME NEW r \in Reads, TakesTurn(r) PROVE ReadInv'
    BY <2>2, TurnKeeps
  <2>3. ASSUME NEW r \in Reads, StartRefused(r) \/ StartFails(r) \/ ReadPollFails(r) \/ ObserveFails(r) PROVE ReadInv'
    BY <2>3, FailuresKeep
  <2>4. ASSUME NEW r \in Reads, StartRead(r) PROVE ReadInv'
    BY <2>4, StartKeeps
  <2>5. ASSUME NEW r \in Reads, PollCompletes(r) \/ PollTimesOut(r) PROVE ReadInv'
    BY <2>5, ReadyKeeps
  <2>6. ASSUME NEW r \in Reads, ObserveRead(r) PROVE ReadInv'
    BY <2>6, ObserveKeeps
  <2>7. CASE CacheExpires \/ \E r \in Reads, who \in Callers : Continue(r, who)
    BY <2>7, ResultStepsKeep
  <2>8. CASE WorkOpens \/ WorkCloses \/ HumanTakes \/ HumanReturns \/ ReaderIdles \/ ReaderLost \/ WorkerLost
    BY <2>8, WorksKeep
  <2>9. CASE PageComes \/ PageErrs \/ PageWantsImage \/ \E r \in Reads : Dispatches(r)
    BY <2>9, TabKeeps
  <2>10. CASE UNCHANGED readVars
    <3>1. CacheOK'
      BY <2>10, CacheStays DEF readVars, calls, ReadInv
    <3> QED
      BY <2>10, <3>1 DEF readVars, calls, readerTab, sessions_, ReadInv, TurnsOK, RestOK, TabsOK, TabOK_Read, SessionLives, ResultsOK, Own
  <2> QED
    BY <2>1, <2>2, <2>3, <2>4, <2>5, <2>6, <2>7, <2>8, <2>9, <2>10 DEF Next_Reader
<1> QED
  BY ReadStarts, <1>1, PTL DEF Spec_Reader

\* Every variable of public reading keeps to its type.
THEOREM ReaderTypeCorrect == Spec_Reader => []ReaderTypeOK
<1>1. ASSUME ReadInv PROVE ReaderTypeOK
  <2>1. \A r \in Reads : read[r].at \in {"none"} \cup Asking
    BY <1>1 DEF ReadInv, TurnsOK, AskedReads, NotAsked
  <2> QED
    BY <1>1, <2>1 DEF ReadInv, TurnsOK, RestOK, ResultsOK, CacheOK, ReaderTypeOK, Asking
<1> QED
  BY ReadAlways, <1>1, PTL

\* _read, reader_resources.py: a read that is said to be complete returns its own page, with no
\* image it did not choose in a document of its own, to its caller alone; and no caller keeps more than MaxKept results.
THEOREM ReadsAreOwn == Spec_Reader => []ReadIsOwn
<1>1. ReadInv => ReadIsOwn
  BY DEF ReadInv, ResultsOK, Own, CacheOK, ReadIsOwn, Is
<1> QED
  BY ReadAlways, <1>1, PTL
-----------------------------------------------------------------------------
\* No step comes twice.
LEMMA StepsDiffer == DOMAIN Procedure = 1..17 /\ \A i, j \in 1..17 : Procedure[i] = Procedure[j] => i = j
BY DEF Procedure

\* The step after another is the next one.
LEMMA StepAfter == ASSUME NEW i \in 1..16, installer.at = Procedure[i] PROVE NextStep = Procedure[i + 1]
<1>1. (CHOOSE j \in DOMAIN Procedure : Procedure[j] = installer.at) = i
  BY StepsDiffer
<1> QED
  BY <1>1 DEF NextStep

\* Where an installation is, and what is behind it there.
AtCopy == {"code", "venv", "uv", "packages", "tested"}
AtWrite == {"native.json", "browser-stop", "network", "api"}
AtEnd == {"unlink", "link", "manifest", "reload", "start"}
WithData == {"stop", "down"} \cup AtWrite \cup AtEnd
Installing == [at : AtCopy \cup {"data"} \cup WithData, source : Sources, setting : Settings, start : BOOLEAN,
               active : BOOLEAN, old : Contents \cup {Missing, Edited}]
Removing == [at : {"remove", "purge"}, purge : BOOLEAN]

\* Whoever is at a step has the steps before it behind: the release is whole before anything
\* else, the data are there before a file is written, and every file is there at the end.
BehindOK ==
    installer \in Installing =>
        LET has == prepared[installer.source] IN
        /\ (installer.at \in {"venv", "uv", "packages", "tested"} => "code" \in has)
        /\ (installer.at \in {"uv", "packages", "tested"} => "venv" \in has)
        /\ (installer.at = "tested" => {"uv", "packages"} \subseteq has)
        /\ (installer.at \notin AtCopy => Whole \subseteq has)
        /\ (installer.at \in WithData => data)
        /\ (installer.at \in {"browser-stop", "network", "api"} \cup AtEnd => managed["native.json"] \in Contents)
        /\ (installer.at \in {"network", "api"} \cup AtEnd => managed["browser-stop"] \in Contents)
        /\ (installer.at \in {"api"} \cup AtEnd => managed["network"] \in Contents)
        /\ (installer.at \in AtEnd => managed["api"] \in Contents)
InstallerOK ==
    /\ installer = NoInstaller \/ installer \in Installing \/ (installer \in Removing /\ manifest # Missing)
    /\ BehindOK

\* An edited file is one an operator edited, and no installation begins over one: without a
\* manifest there are files only beside the data of an installation that was interrupted.
FilesOK ==
    /\ managed \in [Managed -> Contents \cup {Missing, Edited}] /\ edits \subseteq Managed
    /\ manifest = Missing \/ manifest \in [Managed -> Contents]
    /\ \A f \in Managed : managed[f] = Edited <=> f \in edits
    /\ manifest = Missing /\ (\E f \in Managed : managed[f] # Missing) => data
    /\ installer # NoInstaller => edits = {}

\* Files, units and processes are of releases that are whole.
Trusted(c) == c \in Contents => c.source \in Sources /\ Whole \subseteq prepared[c.source]
ReleasesOK ==
    /\ prepared \in [Sources -> SUBSET Whole] /\ current \in Sources \cup {Missing}
    /\ \A s \in Sources : "packages" \in prepared[s] => "uv" \in prepared[s]
    /\ \A u \in Units : Trusted(managed[u]) /\ Trusted(unitsIn[u])
    /\ api = Missing \/ (api \in Contents /\ Trusted(api))
SystemOK ==
    /\ data \in BOOLEAN /\ restarting \in BOOLEAN /\ networkOn \in BOOLEAN /\ enabled \in BOOLEAN
    /\ unitsIn \in [Units -> Contents \cup {Missing, Edited}]
    /\ network \in [at : {"none", "part", "up"}, setting : Settings \cup {Missing}, marker : BOOLEAN]
    /\ (api # Missing => data)

InstallInv == InstallerOK /\ FilesOK /\ ReleasesOK /\ SystemOK

\* At first nothing is installed.
LEMMA InstallStarts == Init_Install => InstallInv
<1> SUFFICES ASSUME Init_Install PROVE InstallInv
  OBVIOUS
<1>1. managed = [f \in Managed |-> Missing] /\ unitsIn = [u \in Units |-> Missing] /\ Units \subseteq Managed
      /\ Missing \notin Contents /\ Missing # Edited
  BY InstallConstants DEF Init_Install, Managed
<1>2. installer \notin Installing /\ installer = NoInstaller
  BY DEF Init_Install, NoInstaller, Installing, AtCopy, WithData, AtWrite, AtEnd
<1>3. InstallerOK
  BY <1>2 DEF InstallerOK, BehindOK
<1>4. FilesOK
  BY <1>1 DEF Init_Install, FilesOK
<1>5. ReleasesOK
  BY <1>1 DEF Init_Install, ReleasesOK, Trusted
<1>6. network \in [at : {"none", "part", "up"}, setting : Settings \cup {Missing}, marker : BOOLEAN]
  BY DEF Init_Install, Offline
<1>7. SystemOK
  BY <1>1, <1>6 DEF Init_Install, SystemOK
<1> QED
  BY <1>3, <1>4, <1>5, <1>7 DEF InstallInv

\* The steps by name.
LEMMA NextIs ==
    /\ (installer.at = "code" => NextStep = "venv")
    /\ (installer.at = "venv" => NextStep = "uv")
    /\ (installer.at = "uv" => NextStep = "packages")
    /\ (installer.at = "packages" => NextStep = "tested")
    /\ (installer.at = "tested" => NextStep = "data")
    /\ (installer.at = "data" => NextStep = "stop")
    /\ (installer.at = "stop" => NextStep = "down")
    /\ (installer.at = "down" => NextStep = "native.json")
    /\ (installer.at = "native.json" => NextStep = "browser-stop")
    /\ (installer.at = "browser-stop" => NextStep = "network")
    /\ (installer.at = "network" => NextStep = "api")
    /\ (installer.at = "api" => NextStep = "unlink")
    /\ (installer.at = "unlink" => NextStep = "link")
    /\ (installer.at = "link" => NextStep = "manifest")
    /\ (installer.at = "manifest" => NextStep = "reload")
<1>1. \A i \in 1..16 : installer.at = Procedure[i] => NextStep = Procedure[i + 1]
  BY StepAfter
<1>2. Procedure[1] = "code" /\ Procedure[2] = "venv" /\ Procedure[3] = "uv" /\ Procedure[4] = "packages" /\ Procedure[5] = "tested" /\ Procedure[6] = "data" /\ Procedure[7] = "stop" /\ Procedure[8] = "down"
  BY DEF Procedure
<1>3. Procedure[9] = "native.json" /\ Procedure[10] = "browser-stop" /\ Procedure[11] = "network" /\ Procedure[12] = "api" /\ Procedure[13] = "unlink" /\ Procedure[14] = "link" /\ Procedure[15] = "manifest" /\ Procedure[16] = "reload"
  BY DEF Procedure
<1> QED
  BY <1>1, <1>2, <1>3

\* An installation that goes to another step keeps everything else.
LEMMA InstallGoes ==
    ASSUME installer \in Installing, NEW place \in AtCopy \cup {"data"} \cup WithData, installer' = [installer EXCEPT !.at = place]
    PROVE  /\ installer' \in Installing /\ installer'.at = place /\ installer'.source = installer.source
           /\ installer.source \in Sources /\ installer.setting \in Settings /\ installer # NoInstaller /\ installer' # NoInstaller
<1>1. installer' \in Installing /\ installer'.at = place /\ installer'.source = installer.source
  BY DEF Installing
<1>2. installer.source \in Sources /\ installer.setting \in Settings
  BY DEF Installing
<1>3. \A i \in Installing : i # NoInstaller
  BY DEF Installing, NoInstaller, AtCopy, WithData, AtWrite, AtEnd
<1> QED
  BY <1>1, <1>2, <1>3

\* Nobody is installing when nothing is under way, and when something is removed.
LEMMA NotInstalling ==
    /\ NoInstaller \notin Installing /\ NoInstaller.at = "none"
    /\ \A i \in Removing : i \notin Installing /\ i # NoInstaller
BY DEF NoInstaller, Installing, Removing, AtCopy, WithData, AtWrite, AtEnd

\* Whoever is at a step of the installation is installing.
LEMMA IsInstalling ==
    ASSUME InstallInv, installer.at \in AtCopy \cup {"data"} \cup WithData PROVE installer \in Installing
BY NotInstalling DEF InstallInv, InstallerOK, Removing, NoInstaller, AtCopy, WithData, AtWrite, AtEnd

\* What neither the installer's place nor a file or a release changes.
LEMMA InstallerStays ==
    ASSUME InstallInv, installer' \in {installer, NoInstaller}, UNCHANGED <<prepared, managed, manifest, data>> PROVE InstallerOK'
BY NotInstalling DEF InstallInv, InstallerOK, BehindOK

\* A removal is nobody's installation.
LEMMA RemovalOK == ASSUME installer' \in Removing, manifest' # Missing PROVE InstallerOK' /\ installer' # NoInstaller
BY NotInstalling DEF InstallerOK, BehindOK

\* The files, when no one touches them.
LEMMA FilesStay ==
    ASSUME InstallInv, UNCHANGED <<managed, manifest, data, edits>>, installer' # NoInstaller => edits = {} PROVE FilesOK'
BY DEF InstallInv, FilesOK

\* What is known to systemd and what it runs, when no file and no release changes.
LEMMA ReleasesStay ==
    ASSUME InstallInv, UNCHANGED <<releases, managed>>, api' \in {api, Missing, unitsIn["api"]},
           api' # Missing => api' \in Contents,
           unitsIn' = unitsIn \/ unitsIn' = [u \in Units |-> managed[u]]
    PROVE  ReleasesOK'
<1>1. UNCHANGED <<prepared, current>>
  BY DEF releases
<1>2. \A u \in Units : Trusted(managed[u])' /\ Trusted(unitsIn[u])'
  BY <1>1 DEF InstallInv, ReleasesOK, Trusted
<1>3. api' = Missing \/ (api' \in Contents /\ Trusted(api)')
  BY <1>1 DEF InstallInv, ReleasesOK, Trusted, Units
<1> QED
  BY <1>1, <1>2, <1>3 DEF InstallInv, ReleasesOK

\* The network, brought up or taken down, half or whole.
NetworkType == [at : {"none", "part", "up"}, setting : Settings \cup {Missing}, marker : BOOLEAN]
LEMMA NetworkKept ==
    ASSUME InstallInv
    PROVE  Offline \in NetworkType /\ Half \in NetworkType /\ network \in NetworkType
<1>1. network \in NetworkType /\ Offline \in NetworkType
  BY DEF InstallInv, SystemOK, NetworkType, Offline
<1> QED
  BY <1>1 DEF NetworkType, Half

\* The services are stopped, by the installer of a new release or of none.
LEMMA Stopping ==
    ASSUME InstallInv, StopsServices
    PROVE  api' = Missing /\ restarting' \in BOOLEAN /\ networkOn' \in BOOLEAN /\ network' \in NetworkType
BY NetworkKept DEF StopsServices, NetworkDown

\* An installation begins, over no edited file.
LEMMA BeginsKeep ==
    ASSUME InstallInv, NEW source \in Sources, NEW setting \in Settings, NEW start \in BOOLEAN, Installs(source, setting, start)
    PROVE  InstallInv'
<1>1. /\ installer = NoInstaller /\ AsInstalled /\ OwnData
      /\ installer' = [at |-> "code", source |-> source, setting |-> setting, start |-> start,
                       active |-> api # Missing, old |-> managed["native.json"]]
      /\ UNCHANGED <<releases, services, managed, data, edits, troubles>>
  BY DEF Installs, Accepts
<1>2. managed["native.json"] \in Contents \cup {Missing, Edited}
  BY DEF InstallInv, FilesOK, Managed
<1>3. installer' \in Installing /\ installer'.at = "code"
  BY <1>1, <1>2 DEF Installing, AtCopy
<1>4. InstallerOK'
  BY <1>3 DEF InstallerOK, BehindOK, AtCopy, WithData, AtWrite, AtEnd
<1>5. edits = {}
  <2>1. CASE manifest = Missing
    BY <1>1, <2>1, InstallConstants DEF OwnData, InstallInv, FilesOK
  <2>2. CASE manifest # Missing
    BY <1>1, <2>2, InstallConstants DEF AsInstalled, InstallInv, FilesOK
  <2> QED BY <2>1, <2>2
<1>6. FilesOK'
  BY <1>1, <1>5, FilesStay DEF releases
<1>7. ReleasesOK' /\ SystemOK'
  <2>1. UNCHANGED <<prepared, current, managed, unitsIn, api, data, restarting, networkOn, enabled, network>>
    BY <1>1 DEF releases, services
  <2> QED BY <2>1 DEF InstallInv, ReleasesOK, SystemOK, Trusted
<1> QED
  BY <1>4, <1>6, <1>7 DEF InstallInv

\* A release is prepared: one thing more is there of it.
LEMMA PreparesKeeps == ASSUME InstallInv, NEW thing \in Whole, Prepares(thing) PROVE InstallInv'
<1> DEFINE s == installer.source
<1>1. /\ installer.at = thing /\ UNCHANGED <<manifest, current, services, managed, data, edits, troubles>>
      /\ prepared' = [prepared EXCEPT ![s] = @ \cup {thing}]
      /\ (thing = "packages" => {"packages", "uv"} \cap prepared[s] # {})
  BY DEF Prepares, Doing, IsThere
<1>2. installer \in Installing /\ s \in Sources
  <2>1. installer \in Installing
    BY <1>1, IsInstalling DEF Whole, AtCopy
  <2> QED BY <2>1 DEF Installing
<1>3. PICK place \in {"venv", "uv", "packages", "tested", "data"} :
        /\ installer' = [installer EXCEPT !.at = place]
        /\ place = "venv" => thing = "code"
        /\ place = "uv" => thing = "venv"
        /\ place = "packages" => thing \in {"venv", "uv"}
        /\ place = "tested" => thing = "packages"
        /\ place = "data" => thing = "tested"
  <2>1. CASE thing = "venv" /\ IsThere("venv")
    BY <2>1 DEF Prepares
  <2>2. CASE ~(thing = "venv" /\ IsThere("venv"))
    BY <1>1, <2>2, NextIs DEF Prepares, Proceeds, Whole
  <2> QED BY <2>1, <2>2
<1>4. /\ installer' \in Installing /\ installer'.at = place /\ installer'.source = s
      /\ installer # NoInstaller /\ installer' # NoInstaller
  BY <1>2, <1>3, InstallGoes DEF AtCopy
<1>5. /\ prepared' \in [Sources -> SUBSET Whole] /\ prepared'[s] = prepared[s] \cup {thing}
      /\ \A x \in Sources : prepared[x] \subseteq prepared'[x] /\ (x # s => prepared'[x] = prepared[x])
  BY <1>1, <1>2 DEF InstallInv, ReleasesOK
<1>6. \A x \in Sources : "packages" \in prepared'[x] => "uv" \in prepared'[x]
  BY <1>1, <1>2, <1>5 DEF InstallInv, ReleasesOK
<1>7. BehindOK'
  <2>1. CASE thing = "code"
    BY <1>1, <1>2, <1>3, <1>4, <1>5, <2>1 DEF BehindOK, AtCopy, WithData, AtWrite, AtEnd
  <2>2. CASE thing \in {"venv", "uv"}
    BY <1>1, <1>2, <1>3, <1>4, <1>5, <2>2 DEF InstallInv, InstallerOK, BehindOK, AtCopy, WithData, AtWrite, AtEnd
  <2>3. CASE thing = "packages"
    BY <1>1, <1>2, <1>3, <1>4, <1>5, <1>6, <2>3 DEF InstallInv, InstallerOK, BehindOK, AtCopy, WithData, AtWrite, AtEnd
  <2>4. CASE thing = "tested"
    <3>1. Whole \subseteq prepared'[s]
      BY <1>1, <1>2, <1>5, <2>4 DEF InstallInv, InstallerOK, BehindOK, Whole
    <3> QED BY <1>3, <1>4, <2>4, <3>1 DEF BehindOK, AtCopy, WithData, AtWrite, AtEnd
  <2> QED BY <2>1, <2>2, <2>3, <2>4 DEF Whole
<1>8. InstallerOK'
  BY <1>4, <1>7 DEF InstallerOK
<1>9. FilesOK'
  BY <1>1, <1>4, FilesStay DEF InstallInv, FilesOK
<1>10. ReleasesOK'
  BY <1>1, <1>5, <1>6 DEF services, InstallInv, ReleasesOK, Trusted
<1>11. SystemOK'
  BY <1>1 DEF services, InstallInv, SystemOK
<1> QED
  BY <1>8, <1>9, <1>10, <1>11 DEF InstallInv

\* The steps between the release and its files: the data, the old services and their network.
LEMMA MiddleKeeps == ASSUME InstallInv, MakesData \/ StopsOld \/ TakesNetworkDown PROVE InstallInv'
<1>1. PICK place \in {"stop", "down", "native.json"} :
        /\ installer' = [installer EXCEPT !.at = place]
        /\ installer.at \in {"data", "stop", "down"} /\ (installer.at = "data" \/ (data /\ data' = data))
  <2>1. CASE MakesData
    BY <2>1, NextIs DEF MakesData, Proceeds, Doing
  <2>2. CASE StopsOld
    <3>1. installer.at = "stop" /\ data' = data /\ installer' = [installer EXCEPT !.at = "down"]
      BY <2>2, NextIs DEF StopsOld, Proceeds, Doing
    <3>2. data
      BY <3>1, IsInstalling DEF InstallInv, InstallerOK, BehindOK, WithData
    <3> QED BY <3>1, <3>2
  <2>3. CASE TakesNetworkDown
    <3>1. installer.at = "down" /\ data' = data /\ installer' = [installer EXCEPT !.at = "native.json"]
      BY <2>3, NextIs DEF TakesNetworkDown, Proceeds, Doing
    <3>2. data
      BY <3>1, IsInstalling DEF InstallInv, InstallerOK, BehindOK, WithData
    <3> QED BY <3>1, <3>2
  <2> QED BY <2>1, <2>2, <2>3
<1>2. UNCHANGED <<releases, unitsIn, enabled, managed, edits>> /\ data' \in BOOLEAN /\ data' /\ (data' = TRUE \/ data' = data)
  <2>1. CASE MakesData
    BY <2>1 DEF MakesData, services
  <2>2. CASE StopsOld
    <3>1. data \in BOOLEAN
      BY DEF InstallInv, SystemOK
    <3>2. data' = data /\ installer.at = "stop"
      BY <2>2 DEF StopsOld, Doing
    <3> QED BY <1>1, <2>2, <3>1, <3>2 DEF StopsOld
  <2>3. CASE TakesNetworkDown
    <3>1. data \in BOOLEAN
      BY DEF InstallInv, SystemOK
    <3>2. data' = data /\ installer.at = "down"
      BY <2>3 DEF TakesNetworkDown, Doing
    <3> QED BY <1>1, <2>3, <3>1, <3>2 DEF TakesNetworkDown
  <2> QED BY <2>1, <2>2, <2>3
<1>3. api' \in {api, Missing} /\ restarting' \in BOOLEAN /\ networkOn' \in BOOLEAN /\ network' \in NetworkType
  <2>1. restarting \in BOOLEAN /\ networkOn \in BOOLEAN
    BY DEF InstallInv, SystemOK
  <2>2. CASE MakesData
    BY <2>1, <2>2, NetworkKept DEF MakesData, services
  <2>3. CASE StopsOld
    <3>1. CASE StopsServices
      BY <3>1, Stopping
    <3>2. CASE UNCHANGED <<api, restarting, network, networkOn>>
      BY <2>1, <3>2, NetworkKept
    <3> QED BY <2>3, <3>1, <3>2 DEF StopsOld
  <2>4. CASE TakesNetworkDown
    <3>1. network' \in {Offline, network} /\ UNCHANGED <<api, restarting, networkOn>>
      BY <2>4 DEF TakesNetworkDown
    <3> QED BY <2>1, <3>1, NetworkKept
  <2> QED BY <2>2, <2>3, <2>4
<1>4. installer \in Installing
  BY <1>1, IsInstalling DEF WithData
<1>5. installer' \in Installing /\ installer'.at = place /\ installer'.source = installer.source
      /\ installer # NoInstaller /\ installer' # NoInstaller
  BY <1>1, <1>4, InstallGoes DEF WithData, AtWrite
<1>6. InstallerOK'
  <2>1. prepared' = prepared /\ Whole \subseteq prepared[installer.source]
    BY <1>1, <1>2, <1>4 DEF releases, InstallInv, InstallerOK, BehindOK, AtCopy
  <2> QED BY <1>2, <1>5, <2>1 DEF InstallerOK, BehindOK, AtCopy, WithData, AtWrite, AtEnd
<1>7. FilesOK'
  BY <1>2, <1>5 DEF releases, InstallInv, FilesOK
<1>8. ReleasesOK'
  <2>1. api' # Missing => api' \in Contents
    BY <1>3 DEF InstallInv, ReleasesOK
  <2> QED BY <1>2, <1>3, <2>1, ReleasesStay
<1>9. SystemOK'
  BY <1>2, <1>3 DEF InstallInv, SystemOK, NetworkType
<1> QED
  BY <1>6, <1>7, <1>8, <1>9 DEF InstallInv

\* A file is written: it is of the release that was tested.
LEMMA WritesKeep == ASSUME InstallInv, NEW f \in Managed, Writes(f) PROVE InstallInv'
<1>1. /\ installer.at = f /\ managed' = [managed EXCEPT ![f] = Rendered(f)]
      /\ UNCHANGED <<releases, services, data, edits, troubles>>
  BY DEF Writes, Doing
<1>2. installer \in Installing
  BY <1>1, IsInstalling DEF Managed, Units, WithData, AtWrite
<1>3. PICK place \in {"browser-stop", "network", "api", "unlink"} :
        /\ installer' = [installer EXCEPT !.at = place]
        /\ place = "browser-stop" => f = "native.json"
        /\ place = "network" => f = "browser-stop"
        /\ place = "api" => f = "network"
        /\ place = "unlink" => f = "api"
  BY <1>1, NextIs DEF Writes, Proceeds, Managed, Units
<1>4. /\ installer' \in Installing /\ installer'.at = place /\ installer'.source = installer.source
      /\ installer.source \in Sources /\ installer.setting \in Settings
      /\ installer # NoInstaller /\ installer' # NoInstaller
  BY <1>2, <1>3, InstallGoes DEF WithData, AtWrite, AtEnd
<1>5. Rendered(f) \in Contents /\ (f \in Units => Rendered(f).source = installer.source)
  BY <1>4 DEF Rendered, Contents, Units
<1>6. managed' \in [Managed -> Contents \cup {Missing, Edited}] /\ managed'[f] = Rendered(f)
      /\ \A g \in Managed : g # f => managed'[g] = managed[g]
  BY <1>1, <1>5 DEF InstallInv, FilesOK
<1>7. Whole \subseteq prepared[installer.source] /\ data
  BY <1>1, <1>2 DEF InstallInv, InstallerOK, BehindOK, Managed, Units, AtCopy, WithData, AtWrite
<1>8. BehindOK'
  <2>1. UNCHANGED <<prepared, data>>
    BY <1>1 DEF releases
  <2>2. /\ (place \in {"browser-stop", "network", "api", "unlink"} => managed'["native.json"] \in Contents)
        /\ (place \in {"network", "api", "unlink"} => managed'["browser-stop"] \in Contents)
        /\ (place \in {"api", "unlink"} => managed'["network"] \in Contents)
        /\ (place \in {"unlink"} => managed'["api"] \in Contents)
    BY <1>1, <1>2, <1>3, <1>5, <1>6 DEF InstallInv, InstallerOK, BehindOK, Managed, Units, AtEnd
  <2> QED BY <1>4, <1>7, <2>1, <2>2 DEF BehindOK, AtCopy, AtEnd
<1>9. InstallerOK'
  BY <1>4, <1>8 DEF InstallerOK
<1>10. FilesOK'
  <2>1. edits' = {} /\ UNCHANGED <<manifest, data>>
    BY <1>1, <1>4 DEF releases, InstallInv, FilesOK
  <2>2. Rendered(f) # Edited
    BY <1>5, InstallConstants
  <2>3. \A g \in Managed : managed'[g] # Edited
    BY <1>4, <1>6, <2>2 DEF InstallInv, FilesOK
  <2> QED BY <1>6, <1>7, <2>1, <2>3 DEF InstallInv, FilesOK
<1>11. ReleasesOK'
  <2>1. UNCHANGED <<prepared, current, unitsIn, api>>
    BY <1>1 DEF releases, services
  <2>2. \A u \in Units : Trusted(managed[u])'
    BY <1>4, <1>5, <1>6, <1>7, <2>1 DEF InstallInv, ReleasesOK, Trusted, Managed
  <2> QED BY <2>1, <2>2 DEF InstallInv, ReleasesOK, Trusted
<1>12. SystemOK'
  BY <1>1 DEF services, InstallInv, SystemOK
<1> QED
  BY <1>9, <1>10, <1>11, <1>12 DEF InstallInv

\* The link and the manifest: what is recorded is what was written.
LEMMA RecordsKeep == ASSUME InstallInv, Links \/ Records PROVE InstallInv'
<1>1. PICK place \in AtEnd : installer' = [installer EXCEPT !.at = place] /\ installer.at \in {"unlink", "link", "manifest"}
  BY NextIs DEF Links, Records, Proceeds, Doing, AtEnd
<1>2. installer \in Installing
  BY <1>1, IsInstalling DEF WithData, AtEnd
<1>3. /\ installer' \in Installing /\ installer'.at = place /\ installer'.source = installer.source
      /\ installer.source \in Sources /\ installer # NoInstaller /\ installer' # NoInstaller
  BY <1>1, <1>2, InstallGoes DEF WithData
<1>4. UNCHANGED <<prepared, services, managed, data, edits>> /\ current' \in {current, installer.source, Missing}
  BY DEF Links, Records
<1>5. InstallerOK'
  BY <1>1, <1>2, <1>3, <1>4 DEF InstallInv, InstallerOK, BehindOK, AtCopy, WithData, AtWrite, AtEnd
<1>6. FilesOK'
  <2>1. CASE Links
    <3>1. manifest' = manifest
      BY <2>1 DEF Links
    <3> QED BY <1>3, <1>4, <3>1, FilesStay DEF InstallInv, FilesOK
  <2>2. CASE Records
    <3>1. manifest' = [f \in Managed |-> managed[f]]
      BY <2>2 DEF Records
    <3>2. \A f \in Managed : managed[f] \in Contents
      BY <1>1, <1>2 DEF InstallInv, InstallerOK, BehindOK, Managed, Units, AtEnd
    <3>3. manifest' \in [Managed -> Contents] /\ manifest' # Missing
      BY <3>1, <3>2, InstallConstants
    <3>4. edits' = {}
      BY <1>3, <1>4 DEF InstallInv, FilesOK
    <3> QED BY <1>4, <3>3, <3>4 DEF InstallInv, FilesOK
  <2> QED BY <2>1, <2>2
<1>7. ReleasesOK' /\ SystemOK'
  BY <1>3, <1>4 DEF services, InstallInv, ReleasesOK, SystemOK, Trusted
<1> QED
  BY <1>5, <1>6, <1>7 DEF InstallInv

\* The end of an installation, by itself or by a crash.
LEMMA FinishKeeps == ASSUME InstallInv, ReloadsNew \/ Reports \/ Interrupted PROVE InstallInv'
<1>1. UNCHANGED <<releases, managed, data, edits, restarting, networkOn, api>>
  BY DEF ReloadsNew, Reports, Interrupted, services
<1>2. network' \in NetworkType /\ enabled' \in BOOLEAN
  <2>1. enabled \in BOOLEAN
    BY DEF InstallInv, SystemOK
  <2>2. CASE ReloadsNew
    <3>1. installer.start \in BOOLEAN
      BY <2>2, IsInstalling DEF ReloadsNew, Doing, WithData, AtEnd, Installing
    <3> QED BY <2>1, <2>2, <3>1, NetworkKept DEF ReloadsNew
  <2>3. CASE Reports
    BY <2>1, <2>3, NetworkKept DEF Reports, services
  <2>4. CASE Interrupted
    <3>1. network' \in {network, Half} /\ enabled' = enabled
      BY <2>4 DEF Interrupted
    <3> QED BY <2>1, <3>1, NetworkKept
  <2> QED BY <2>2, <2>3, <2>4
<1>3. unitsIn' = unitsIn \/ unitsIn' = [u \in Units |-> managed[u]]
  BY DEF ReloadsNew, Reports, Interrupted, Reloads, services
<1>4. ReleasesOK'
  <2>1. api' # Missing => api' \in Contents
    BY <1>1 DEF InstallInv, ReleasesOK
  <2> QED BY <1>1, <1>3, <2>1, ReleasesStay
<1>5. SystemOK'
  <2>1. unitsIn' \in [Units -> Contents \cup {Missing, Edited}]
    BY <1>3 DEF InstallInv, SystemOK, FilesOK, Managed
  <2> QED BY <1>1, <1>2, <2>1 DEF InstallInv, SystemOK, NetworkType
<1>6. InstallerOK' /\ (installer' # NoInstaller => installer # NoInstaller)
  <2>1. CASE installer' = NoInstaller
    BY <1>1, <2>1, InstallerStays DEF releases
  <2>2. CASE installer' # NoInstaller
    <3>1. installer' = [installer EXCEPT !.at = "start"] /\ installer.at = "reload"
      BY <2>2 DEF ReloadsNew, Reports, Interrupted, Doing
    <3>2. installer \in Installing
      BY <3>1, IsInstalling DEF WithData, AtEnd
    <3>3. /\ installer' \in Installing /\ installer'.at = "start" /\ installer'.source = installer.source
          /\ installer # NoInstaller
      BY <3>1, <3>2, InstallGoes DEF WithData, AtEnd
    <3> QED BY <1>1, <3>1, <3>2, <3>3 DEF releases, InstallInv, InstallerOK, BehindOK, AtCopy, WithData, AtWrite, AtEnd
  <2> QED BY <2>1, <2>2
<1>7. FilesOK'
  BY <1>1, <1>6, FilesStay DEF releases, InstallInv, FilesOK
<1> QED
  BY <1>4, <1>5, <1>6, <1>7 DEF InstallInv

\* It is removed: no edited file, and no data that are in use.
LEMMA RemovalKeeps ==
    ASSUME InstallInv,
           UnitsRemoved \/ Purges \/ (\E purge \in BOOLEAN : Uninstalls(purge)) \/ \E u \in Units : RemovesUnit(u)
    PROVE  InstallInv'
<1>1. ASSUME NEW purge \in BOOLEAN, Uninstalls(purge) PROVE InstallInv'
  <2>1. /\ installer = NoInstaller /\ manifest # Missing /\ AsInstalled
        /\ installer' = [at |-> "remove", purge |-> purge]
        /\ UNCHANGED <<releases, unitsIn, managed, data, edits, troubles>>
    BY <1>1 DEF Uninstalls
  <2>2. installer' \in Removing
    BY <2>1 DEF Removing
  <2>3. edits = {}
    BY <2>1, InstallConstants DEF AsInstalled, InstallInv, FilesOK
  <2>4. FilesOK'
    BY <2>1, <2>3, FilesStay DEF releases
  <2>5. /\ api' \in {api, Missing} /\ restarting' \in BOOLEAN /\ networkOn' \in BOOLEAN /\ enabled' \in BOOLEAN
        /\ network' \in NetworkType
    <3>1. CASE StopsServices /\ enabled' = FALSE
      BY <3>1, Stopping
    <3>2. CASE UNCHANGED <<api, restarting, network, networkOn, enabled>>
      BY <3>2, NetworkKept DEF InstallInv, SystemOK
    <3> QED BY <1>1, <3>1, <3>2 DEF Uninstalls
  <2>6. ReleasesOK'
    <3>1. api' # Missing => api' \in Contents
      BY <2>5 DEF InstallInv, ReleasesOK
    <3> QED BY <2>1, <2>5, <3>1, ReleasesStay
  <2>7. SystemOK'
    BY <2>1, <2>5 DEF InstallInv, SystemOK, NetworkType
  <2> QED BY <2>1, <2>2, <2>4, <2>6, <2>7, RemovalOK DEF InstallInv, releases
<1>2. ASSUME installer.at \in {"remove", "purge"} PROVE installer \in Removing /\ edits = {} /\ installer # NoInstaller /\ manifest # Missing
  <2>1. installer \in Removing /\ manifest # Missing
    BY <1>2 DEF InstallInv, InstallerOK, NoInstaller, Installing, AtCopy, WithData, AtWrite, AtEnd
  <2> QED BY <2>1, NotInstalling DEF InstallInv, FilesOK
<1>3. ASSUME NEW u \in Units, RemovesUnit(u) PROVE InstallInv'
  <2>1. /\ installer.at = "remove" /\ managed' = [managed EXCEPT ![u] = Missing]
        /\ managed[u] # Missing /\ UNCHANGED <<releases, services, data, installer, edits, troubles>>
    BY <1>3 DEF RemovesUnit, Doing
  <2>2. installer' \in Removing /\ edits' = {} /\ manifest' # Missing
    BY <1>2, <2>1 DEF releases
  <2>3. managed' \in [Managed -> Contents \cup {Missing, Edited}] /\ managed'[u] = Missing
        /\ \A g \in Managed : g # u => managed'[g] = managed[g]
    BY <2>1 DEF InstallInv, FilesOK, Managed
  <2>4. FilesOK'
    <3>1. \A g \in Managed : managed'[g] # Edited
      BY <1>2, <2>1, <2>3, InstallConstants DEF InstallInv, FilesOK
    <3>2. manifest' = Missing /\ (\E g \in Managed : managed'[g] # Missing) => data'
      BY <2>1, <2>3 DEF releases, InstallInv, FilesOK
    <3> QED BY <2>1, <2>2, <2>3, <3>1, <3>2 DEF releases, InstallInv, FilesOK
  <2>5. ReleasesOK'
    <3>1. \A v \in Units : Trusted(managed[v])' /\ Trusted(unitsIn[v])'
      BY <2>1, <2>3, InstallConstants DEF releases, services, InstallInv, ReleasesOK, Trusted, Managed
    <3> QED BY <2>1, <3>1 DEF releases, services, InstallInv, ReleasesOK, Trusted
  <2>6. SystemOK'
    BY <2>1 DEF services, InstallInv, SystemOK
  <2> QED BY <2>2, <2>4, <2>5, <2>6, RemovalOK DEF InstallInv
<1>4. CASE UnitsRemoved
  <2>1. /\ installer.at = "remove" /\ unitsIn' = [u \in Units |-> managed[u]]
        /\ (installer' = [installer EXCEPT !.at = "purge"] \/ installer' = NoInstaller)
        /\ UNCHANGED <<releases, api, restarting, network, networkOn, enabled, managed, data, edits, troubles>>
    BY <1>4 DEF UnitsRemoved, Reloads, Doing
  <2>2. installer \in Removing /\ edits = {} /\ manifest # Missing /\ manifest' = manifest
    BY <1>2, <2>1 DEF releases
  <2>3. InstallerOK'
    <3>1. CASE installer' = [installer EXCEPT !.at = "purge"]
      <4>1. installer' \in Removing
        BY <2>2, <3>1 DEF Removing
      <4> QED BY <2>2, <4>1, RemovalOK
    <3>2. CASE installer' = NoInstaller
      BY <2>1, <3>2, InstallerStays DEF releases
    <3> QED BY <2>1, <3>1, <3>2
  <2>4. FilesOK'
    BY <2>1, <2>2, FilesStay DEF releases
  <2>5. ReleasesOK'
    <3>1. api' # Missing => api' \in Contents
      BY <2>1 DEF InstallInv, ReleasesOK
    <3> QED BY <2>1, <3>1, ReleasesStay
  <2>6. SystemOK'
    <3>1. unitsIn' \in [Units -> Contents \cup {Missing, Edited}]
      BY <2>1 DEF InstallInv, FilesOK, Managed
    <3> QED BY <2>1, <3>1 DEF InstallInv, SystemOK
  <2> QED BY <2>3, <2>4, <2>5, <2>6 DEF InstallInv
<1>5. CASE Purges
  <2>1. /\ installer.at = "purge" /\ api = Missing /\ data' = FALSE /\ installer' = NoInstaller
        /\ UNCHANGED <<releases, services, managed, edits, troubles>>
    BY <1>5 DEF Purges, Unlocked, Doing
  <2>2. edits = {} /\ manifest # Missing
    BY <1>2, <2>1
  <2>3. InstallerOK'
    BY <2>1, NotInstalling DEF InstallerOK, BehindOK
  <2>4. ReleasesOK' /\ SystemOK'
    BY <2>1 DEF releases, services, InstallInv, ReleasesOK, SystemOK, Trusted
  <2>5. FilesOK'
    BY <2>1, <2>2 DEF releases, InstallInv, FilesOK
  <2> QED BY <2>3, <2>4, <2>5 DEF InstallInv
<1> QED
  BY <1>1, <1>3, <1>4, <1>5

\* An outdated network, and the one that is brought up.
LEMMA NetworkComesUp ==
    ASSUME InstallInv, NEW setting \in Settings \cup {Missing}, NetworkUp(setting)
    PROVE  network' \in NetworkType /\ networkOn' \in BOOLEAN
<1>1. [at |-> "up", setting |-> setting, marker |-> TRUE] \in NetworkType
      /\ [at |-> "part", setting |-> setting, marker |-> FALSE] \in NetworkType
  BY DEF NetworkType
<1>2. networkOn \in BOOLEAN
  BY DEF InstallInv, SystemOK
<1> QED
  BY <1>1, <1>2, NetworkKept DEF NetworkUp

\* systemd starts and stops what it knows; the machine reboots.
LEMMA SystemKeeps == ASSUME InstallInv, StartNetwork \/ StartApi \/ ApiFails \/ Reboots PROVE InstallInv'
<1>1. UNCHANGED <<releases, managed, data, edits>> /\ installer' \in {installer, NoInstaller}
  BY DEF StartNetwork, StartApi, ApiFails, Reboots
<1>2. InstallerOK'
  BY <1>1, InstallerStays DEF releases
<1>3. FilesOK'
  BY <1>1, FilesStay DEF releases, InstallInv, FilesOK
<1>4. unitsIn' = unitsIn \/ unitsIn' = [u \in Units |-> managed[u]]
  BY DEF StartNetwork, StartApi, ApiFails, Reboots, Reloads
<1>5. api' \in {api, Missing, unitsIn["api"]} /\ (api' # Missing => api' \in Contents)
  BY DEF StartNetwork, StartApi, ApiFails, Reboots, KnownUnit, InstallInv, ReleasesOK
<1>6. ReleasesOK'
  BY <1>1, <1>4, <1>5, ReleasesStay
<1>7. restarting' \in BOOLEAN /\ enabled' \in BOOLEAN /\ networkOn' \in BOOLEAN /\ network' \in NetworkType
  <2>1. restarting \in BOOLEAN /\ enabled \in BOOLEAN /\ networkOn \in BOOLEAN
    BY DEF InstallInv, SystemOK
  <2>2. CASE StartNetwork
    <3>1. managed["native.json"].setting \in Settings \cup {Missing}
      BY <2>2 DEF StartNetwork, Contents
    <3>2. network' \in NetworkType /\ networkOn' \in BOOLEAN
      BY <2>2, <3>1, NetworkComesUp DEF StartNetwork
    <3> QED BY <2>1, <2>2, <3>2 DEF StartNetwork
  <2>3. CASE StartApi
    BY <2>1, <2>3, NetworkKept DEF StartApi
  <2>4. CASE ApiFails
    BY <2>1, <2>4, NetworkKept DEF ApiFails
  <2>5. CASE Reboots
    BY <2>1, <2>5, NetworkKept DEF Reboots
  <2> QED BY <2>2, <2>3, <2>4, <2>5
<1>8. SystemOK'
  <2>1. unitsIn' \in [Units -> Contents \cup {Missing, Edited}]
    BY <1>4 DEF InstallInv, SystemOK, FilesOK, Managed
  <2>2. api' # Missing => data'
    BY <1>1 DEF StartNetwork, StartApi, ApiFails, Reboots, InstallInv, SystemOK
  <2> QED BY <1>1, <1>7, <2>1, <2>2 DEF InstallInv, SystemOK, NetworkType
<1> QED
  BY <1>2, <1>3, <1>6, <1>8 DEF InstallInv

\* An operator changes a file or deletes it, while no installer runs.
LEMMA OperatorKeeps ==
    ASSUME InstallInv, NEW f \in Managed, OperatorEdits(f) \/ OperatorDeletes(f)
    PROVE  InstallInv'
<1>1. PICK c \in {Edited, Missing} :
        /\ managed' = [managed EXCEPT ![f] = c]
        /\ edits' = IF c = Edited THEN edits \cup {f} ELSE edits \ {f}
  BY InstallConstants DEF OperatorEdits, OperatorDeletes
<1>2. installer = NoInstaller /\ managed[f] # Missing /\ UNCHANGED <<releases, services, data, installer>>
  BY DEF OperatorEdits, OperatorDeletes
<1>3. /\ managed' \in [Managed -> Contents \cup {Missing, Edited}] /\ managed'[f] = c
      /\ \A g \in Managed : g # f => managed'[g] = managed[g]
  BY <1>1 DEF InstallInv, FilesOK
<1>4. InstallerOK'
  BY <1>2, NotInstalling DEF InstallerOK, BehindOK
<1>5. FilesOK'
  <2>1. edits' \subseteq Managed
    BY <1>1 DEF InstallInv, FilesOK
  <2>2. \A g \in Managed : managed'[g] = Edited <=> g \in edits'
    BY <1>1, <1>3, InstallConstants DEF InstallInv, FilesOK
  <2>3. manifest' = Missing /\ (\E g \in Managed : managed'[g] # Missing) => data'
    BY <1>2 DEF releases, InstallInv, FilesOK
  <2> QED BY <1>2, <1>3, <2>1, <2>2, <2>3 DEF releases, InstallInv, FilesOK
<1>6. ReleasesOK'
  <2>1. \A u \in Units : Trusted(managed[u])' /\ Trusted(unitsIn[u])'
    BY <1>2, <1>3, InstallConstants DEF releases, services, InstallInv, ReleasesOK, Trusted, Managed
  <2> QED BY <1>2, <2>1 DEF releases, services, InstallInv, ReleasesOK, Trusted
<1>7. SystemOK'
  BY <1>2 DEF services, InstallInv, SystemOK
<1> QED
  BY <1>4, <1>5, <1>6, <1>7 DEF InstallInv

\* Every step keeps what every installation relies on.
LEMMA InstallSteps == ASSUME InstallInv, [Next_Install]_installVars PROVE InstallInv'
<1>1. CASE UNCHANGED installVars
  <2>1. UNCHANGED <<prepared, current, manifest, managed, data, installer, edits, unitsIn, api, restarting, network,
                    networkOn, enabled>>
    BY <1>1 DEF installVars, releases, services
  <2>2. InstallerOK' /\ FilesOK'
    BY <2>1 DEF InstallInv, InstallerOK, BehindOK, FilesOK
  <2>3. ReleasesOK' /\ SystemOK'
    BY <2>1 DEF InstallInv, ReleasesOK, SystemOK, Trusted
  <2> QED BY <2>2, <2>3 DEF InstallInv
<1>2. CASE Next_Install
  <2>1. CASE \E s \in Sources, c \in Settings, start \in BOOLEAN : Installs(s, c, start)
    BY <2>1, BeginsKeep
  <2>2. CASE \E thing \in Whole : Prepares(thing)
    BY <2>2, PreparesKeeps
  <2>3. CASE MakesData \/ StopsOld \/ TakesNetworkDown
    BY <2>3, MiddleKeeps
  <2>4. CASE Links \/ Records
    BY <2>4, RecordsKeep
  <2>5. CASE ReloadsNew \/ Reports \/ Interrupted
    BY <2>5, FinishKeeps
  <2>6. CASE \E f \in Managed : Writes(f) \/ OperatorEdits(f) \/ OperatorDeletes(f)
    BY <2>6, WritesKeep, OperatorKeeps
  <2>7. CASE UnitsRemoved \/ Purges \/ (\E purge \in BOOLEAN : Uninstalls(purge)) \/ \E u \in Units : RemovesUnit(u)
    BY <2>7, RemovalKeeps
  <2>8. CASE StartNetwork \/ StartApi \/ ApiFails \/ Reboots
    BY <2>8, SystemKeeps
  <2> QED
    BY <1>2, <2>1, <2>2, <2>3, <2>4, <2>5, <2>6, <2>7, <2>8 DEF Next_Install
<1> QED
  BY <1>1, <1>2

\* The invariant of the installation.
THEOREM InstallAlways == Spec_Install => []InstallInv
<1>1. Init_Install => InstallInv
  BY InstallStarts
<1>2. InstallInv /\ [Next_Install]_installVars => InstallInv'
  BY InstallSteps
<1> QED
  BY <1>1, <1>2, PTL DEF Spec_Install

\* Releases, files and units hold what the installer or an operator puts there.
THEOREM InstallTypeCorrect == Spec_Install => []InstallTypeOK
<1>1. InstallInv => InstallTypeOK
  <2> SUFFICES ASSUME InstallInv PROVE InstallTypeOK
    OBVIOUS
  <2>1. {data, restarting, networkOn, enabled} \subseteq BOOLEAN
    BY DEF InstallInv, SystemOK
  <2> QED
    BY <2>1 DEF InstallInv, FilesOK, ReleasesOK, SystemOK, InstallTypeOK
<1> QED
  BY <1>1, InstallAlways, PTL

\* Whatever was interrupted before: units on disk and a running API are of releases that
\* were tested, an operator's edits survive, and the data of a running API are there.
THEOREM InstallationIsSafe == Spec_Install => []InstallIsSafe
<1>1. InstallInv => InstallIsSafe
  <2> SUFFICES ASSUME InstallInv PROVE InstallIsSafe
    OBVIOUS
  <2>1. TestedBeforeUse
    BY DEF InstallInv, ReleasesOK, Trusted, TestedBeforeUse
  <2>2. EditsKept
    BY DEF InstallInv, FilesOK, EditsKept
  <2>3. DataInUse
    BY DEF InstallInv, SystemOK, DataInUse
  <2> QED
    BY <2>1, <2>2, <2>3 DEF InstallIsSafe
<1> QED
  BY <1>1, InstallAlways, PTL
=============================================================================
