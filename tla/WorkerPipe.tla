----------------------------- MODULE WorkerPipe -----------------------------
(***************************************************************************)
(* The pipe between the service and its worker process: Worker.call and    *)
(* shutdown of worker.py, worker_main, and what _rpc of service.py does    *)
(* with each end of a call.  One call at a time has the lock; the worker   *)
(* answers when it likes, also after the caller stopped waiting.           *)
(***************************************************************************)
EXTENDS Integers, Sequences, FiniteSets

CONSTANTS
    Requests,  \* request ids: each call draws a new one
    NoRequest

ASSUME PipeConstants == NoRequest \notin Requests

VARIABLES
    kind,      \* the method of each request: "act" or another
    heard,     \* how each call ended
    caller,    \* the request whose answer is awaited
    proc,      \* the worker: none, up, told to stop (SIGTERM), or dead
    cleanupFailed, \* Worker.cleanup_failed
    toWorker, toService, \* the two directions of the pipe
    doing,     \* the command the worker is in
    executed,  \* commands that the worker began
    sessions   \* the service believes in its sessions

pipeVars == <<kind, heard, caller, proc, cleanupFailed, toWorker, toService, doing, executed, sessions>>

Endings == {"answer", "expired", "uncertain", "timeout", "disconnected", "cancelled", "cleanup failed"}
Unheard == [how |-> "none", of |-> NoRequest]
-----------------------------------------------------------------------------
Init_WorkerPipe ==
    /\ kind \in [Requests -> {"act", "other"}]
    /\ heard = [r \in Requests |-> Unheard] /\ caller = NoRequest
    /\ proc = "none" /\ cleanupFailed = FALSE /\ toWorker = <<>> /\ toService = <<>>
    /\ doing = NoRequest /\ executed = {} /\ sessions = FALSE
-----------------------------------------------------------------------------
\* The worker process

Child == <<kind, heard, caller, cleanupFailed, sessions>>

Takes ==
    /\ proc = "up" /\ doing = NoRequest /\ toWorker # <<>>
    /\ doing' = Head(toWorker) /\ toWorker' = Tail(toWorker) /\ executed' = executed \cup {doing'}
    /\ UNCHANGED <<Child, proc, toService>>

\* The reply may get out before the signal is heeded.
Replies ==
    /\ proc \in {"up", "stopping"} /\ doing # NoRequest
    /\ toService' = Append(toService, doing) /\ doing' = NoRequest
    /\ UNCHANGED <<Child, proc, toWorker, executed>>

\* SystemExit at the next bytecode, or a crash; the adapter is shut down.
Exits ==
    /\ proc \in {"up", "stopping"} /\ proc' = "dead" /\ doing' = NoRequest
    /\ UNCHANGED <<Child, toWorker, toService, executed>>
-----------------------------------------------------------------------------
\* Worker.call

Hears(r, end) == heard' = [heard EXCEPT ![r] = end] /\ caller' = NoRequest
EndsCall(r, how) == Hears(r, [how |-> how, of |-> r])
Callable(r) == caller = NoRequest /\ heard[r] = Unheard /\ UNCHANGED <<kind, executed>>

\* shutdown: nobody reads this pipe again, and the next call starts a new worker.
Replaced == proc' = "none" /\ toWorker' = <<>> /\ toService' = <<>> /\ doing' = NoRequest

\* SESSION_EXPIRED and WORKER_TIMEOUT end every session and the worker.  The helper that
\* kills its browsers may fail, which is then what the caller hears; and no worker is
\* started any more.
Fatal(r, how) ==
    /\ sessions' = FALSE /\ Replaced
    /\ \/ EndsCall(r, how) /\ UNCHANGED cleanupFailed
       \/ EndsCall(r, "cleanup failed") /\ cleanupFailed' = TRUE

Call(r) ==
    /\ Callable(r) /\ proc \in {"none", "up", "stopping"} /\ (proc = "none" => ~cleanupFailed)
    /\ caller' = r /\ sessions' = TRUE
    /\ proc' = IF proc = "none" THEN "up" ELSE proc
    /\ toWorker' = Append(toWorker, r) /\ UNCHANGED <<heard, cleanupFailed, toService, doing>>
CallOfDead(r) == Callable(r) /\ proc = "dead" /\ Fatal(r, "expired")
CallRefused(r) ==
    /\ Callable(r) /\ proc = "none" /\ cleanupFailed /\ EndsCall(r, "cleanup failed")
    /\ UNCHANGED <<proc, cleanupFailed, toWorker, toService, doing, sessions>>

Waiting(r) == caller = r /\ r # NoRequest /\ UNCHANGED <<kind, executed>>
ToldWorker == proc' = IF proc = "up" THEN "stopping" ELSE proc

Correlates_Not(r) == TRUE
Correlates(r) == Head(toService) = r

Answered(r) ==
    /\ Waiting(r) /\ toService # <<>> /\ Correlates(r)
    /\ Hears(r, [how |-> "answer", of |-> Head(toService)]) /\ toService' = Tail(toService)
    /\ UNCHANGED <<proc, cleanupFailed, toWorker, doing, sessions>>

\* The answer of a call that was given up: the worker is not to be used again.
Mismatch(r) ==
    /\ Waiting(r) /\ toService # <<>> /\ ~Correlates(r) /\ Fatal(r, "expired")

\* 45 seconds.  An action's session is marked uncertain and nothing else happens.
TimesOut(r) ==
    /\ Waiting(r) /\ toService = <<>>
    /\ IF kind[r] = "act"
       THEN /\ EndsCall(r, "uncertain") /\ ToldWorker
            /\ UNCHANGED <<cleanupFailed, toWorker, toService, doing, sessions>>
       ELSE Fatal(r, "timeout")
PipeBroken(r) ==
    /\ Waiting(r) /\ toService = <<>> /\ proc = "dead"
    /\ IF kind[r] = "act"
       THEN /\ EndsCall(r, "uncertain")
            /\ UNCHANGED <<proc, cleanupFailed, toWorker, toService, doing, sessions>>
       ELSE Fatal(r, "disconnected")

\* A caller that is cancelled leaves no reply for the next one.
Cancelled(r) == Waiting(r) /\ Fatal(r, "cancelled")

\* The idle worker is stopped, or the service is.
Shutdown ==
    /\ caller = NoRequest /\ proc # "none" /\ Replaced /\ sessions' = FALSE
    /\ cleanupFailed' \in {cleanupFailed, TRUE}
    /\ UNCHANGED <<kind, heard, caller, executed>>
-----------------------------------------------------------------------------
Next_WorkerPipe ==
    \/ Takes \/ Replies \/ Exits \/ Shutdown
    \/ \E r \in Requests :
         \/ Call(r) \/ CallOfDead(r) \/ CallRefused(r)
         \/ Answered(r) \/ Mismatch(r) \/ TimesOut(r) \/ PipeBroken(r) \/ Cancelled(r)

Spec_WorkerPipe == Init_WorkerPipe /\ [][Next_WorkerPipe]_pipeVars
-----------------------------------------------------------------------------
PipeTypeOK ==
    /\ kind \in [Requests -> {"act", "other"}] /\ caller \in Requests \cup {NoRequest}
    /\ heard \in [Requests -> [how : Endings \cup {"none"}, of : Requests \cup {NoRequest}]]
    /\ proc \in {"none", "up", "stopping", "dead"} /\ doing \in executed \cup {NoRequest}
    /\ cleanupFailed \in BOOLEAN /\ sessions \in BOOLEAN

\* A call that is answered has the answer to its own request, and an action whose
\* session is said to have expired has not been begun and never will be: its consent
\* is handed back on the strength of that.
OwnReply ==
    \A r \in Requests :
        /\ heard[r].how = "answer" => heard[r].of = r /\ r \in executed
        /\ heard[r].how = "expired" => r \notin executed
=============================================================================
