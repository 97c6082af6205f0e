# cloud-browser-mcp in TLA+

cloud-browser-mcp gives an MCP client (ChatGPT) a real browser on a private server.
The client proposes actions, a human approves the consequential ones in a private
console, and the same human may take the desktop over at any time.  This directory
holds TLA+ modules of that program, the TLC runs that check them and the theorems
that TLAPS proves about them.  Every definition is read off the code under `src/`;
`PROJECT.json` names the lines of each (`map`).

## The system

One Python process runs the service on one asyncio loop.  A second process, the
worker, owns the browsers; a pipe carries one request at a time.  A SQLite file
holds the rows that must survive a restart.

| Part | State it keeps | Operations |
| --- | --- | --- |
| `service.py` BrowserService | sessions (expiry, uncertain mark, approval epoch), leases of private control, review items, owners, queues, navigations, the operation journal, one lock | one coroutine per MCP tool, the console's operations, a sweeper |
| `store.py` Store | rows by kind and key with an expiry: approvals, executions, sessions, OAuth rows, throttles | put, get, pop, delete, transaction |
| `worker.py` Worker | the process, the pipe, its lock, the children to clean up | start, call (45 s), shutdown |
| `drission.py` adapter | browsers, tabs, document keys, revisions, node handles | prepare, act, observe, wait, navigation_begin/poll/cancel, focus, resume, close |
| `approval.py` | none | decide: does an action on a page need approval |
| `navigation_job.py`, `navigation.py` | one dispatched navigation | poll, cancel |
| `navigation_pacing.py` | per host: a lock, users, times of dispatch | pace, dispatched, expire |
| `node_registry.py` | node handles, LRU order, index, evicted, pinned | remember, get, synchronize |
| `oauth.py` | codes, grants, access and refresh tokens in the store | authorize, token, revoke |
| `ownership.py` | none | who may use a work |
| `console.py` | websockets of the desktop | approve, complete, cancel, reclaim, renew, relay |
| `uploads.py`, `artifacts.py` | staged files, downloads | stage, resolve, discard, expire |
| `server.py`, `models.py`, `output_models.py` | none | the MCP tools and their schemas |
| `resources.py`, `reader_resources.py`, `capture_budget.py` | measured memory, the reader's requests | admission |
| `egress.py`, `ingress.py`, `security.py` | none beyond a connection | filtering |
| `runtime.py`, `input_driver.py`, `events.py` | display processes, keys held, the open dialog | start, stop, press, release |
| `scripts/native_install.py`, `native.py` | files, units, releases, the network namespace | install, update, uninstall, network up and down |
| `diagnostics.py`, `http_diagnostics.py`, `operation_diagnostics.py`, `error_policy.py`, `client_progress.py` | reports | nothing decides on them |
| `deploy/passkey-auth` | a separate login service | challenge, verify |

How they interact: an MCP call becomes a task that outlives its HTTP request, takes
the service's lock (for navigation first a turn of the host), calls the worker one
RPC at a time and releases the lock.  The console's operations take the same lock.
The worker's errors say whether they concern one browser (`failure_scope: session`)
or all of them; `_rpc` drops the sessions concerned before the handler sees the
error.  Callbacks go the other way only for the desktop: closing websockets is
awaited by the service.

What makes it hard: every await is a point where pages change, time runs out, the
browser or the worker dies, or the process is killed; a reply can be lost after the
action took place; consent crosses four stores (approval rows, review items, dispatch
records, the memory of the session) that do not fail together.  The `hazards` of
`PROJECT.json` list these at their lines.

What makes each part correct: the path of an action never acts without consent it
still has, never twice, never while a human holds the desktop; works end exactly once
and never while they are used; every navigation ends with its journal entries; the
pacer's intervals hold between dispatches; a refresh token is good once and a revoked
grant stays revoked; a reply answers the request it belongs to; input reaches the
element the client saw; a picture shows nothing that had to be masked; a file or a page
that is read is the caller's own; a desktop is served only while its work is in private
control; and an interrupted installation leaves nothing untested in use.

## Modules

| Module | What it is |
| --- | --- |
| `Consent` | one consequential action through the service: prepare, propose or consume, dispatch, settle; approvals, control transitions, failures, crashes |
| `ConsentPromise` | what a human who answers a question is promised, without any mechanism |
| `ConsentKept` | the refinement of `ConsentPromise` by `Consent` |
| `ConsentProofs` | proved of `Consent`: its types and safety properties, and that it implements `ConsentPromise` |
| `Works` | the life of works: capacity, queues, idle expiry, sweeper, private control, loss of browsers and worker, the idle worker, shutdown and restart |
| `Navigation` | navigations of one work and the operation journal |
| `NavigationPacing` | turns, intervals and rate of navigations to one host |
| `Grants` | the authorization server over the store: forms, codes, grants, tokens, revocation, restarts |
| `WorksProofs`, `NavigationProofs`, `PacingProofs`, `GrantsProofs` | the safety properties of `Works`, `Navigation`, `NavigationPacing` and `Grants`, proved |
| `Desktop` | private control from the console to the display: leases, websockets, browsers, bridges |
| `Capture` | one screenshot against a page that goes on changing |
| `PageLoad` | one page command in one tab, the commands of its probes, deadline and cancellation |
| `Downloads` | the artifacts of one work and Chromium's download events |
| `WorkerPipe` | the pipe to the worker: timeouts, late replies, correlation, restart |
| `Acts` | one action in one tab: what the client saw, what is pressed, what is left pressed |
| `Reader` | public reading in one shared tab |
| `Install` | the native installation and what systemd makes of it |
| `BrowserProofs` | the safety properties of `PageLoad`, `Capture`, `Acts` and `Downloads`, proved |
| `ServiceProofs` | the safety properties of `WorkerPipe`, `Desktop`, `Reader` and `Install`, proved |
| `PartsProofs` | that the specification of `MCParts` implements that of each of its parts |
| `MCConsent`, `MCWorks`, `MCNavigation`, `MCNavigationPacing`, `MCServer`, `MCParts` | the instances TLC checks |

`MCParts` holds small instances of the six modules from `Desktop` to `Acts` and of `Install`,
`MCServer` of `Grants` and `Reader`.  These share
no variable, and a variable `part`, chosen at the start, says which of them a behaviour is
about; the others stay in their initial states.  So a run explores the sum of the state
spaces, not their product, and a property of one part is checked in all of its states.

The modules meet at interfaces where one takes the other's outcome as a choice.  `Works` takes from
`WorkerPipe` that a call ends with an answer, a dead browser or a dead worker; `Navigation`
takes from `PageLoad` that a probe says pending or over; `Consent` takes from `Acts` that an
action was performed, was not, or nobody knows; all take from `Works` that a work may end
between two of their steps.

### Consent

`cmd` is the frame of the coroutine that holds `self.lock`, so it is the lock too;
its stage says at which await the coroutine is suspended:

| Stage | Suspended at | Ends by |
| --- | --- | --- |
| `preparing` | `_rpc("prepare")` in `_act` | `PrepareReplies` |
| `dispatched` | `_rpc("act")` | `ActReplies` |
| `completing` | `_wait` after the action | `WaitReplies` |
| `focusing`, `resuming`, `closing` | the RPC of a control transition | `ControlReplies` |

Between two awaits a coroutine runs alone, so each action of the module is all the
code from one await to the next.  `approval`, `execution` are rows of the store and
survive `Crash`; `status`, `epoch`, `uncertain`, `lease`, `pending` are memory.
`page` is the browser's side: the revision, the revision at which its document was
first seen, and its place.  `BrowserActs` is the worker's own step, between the
request and the reply; whether it took place before a failure is what the service
cannot know.  The three history variables (`effects`, `answer`, `unresolved`) record
what happened; no action is guarded by them, except that a new token is one never
issued.

Abstractions: a tab is part of its session.  The policy is a constant relation of
actions and places; what `approval.py` classifies is data.  A target is the document
and the place (the address and whatever else the binding hashes).  The idle time of a
session belongs to `Works`, so a live session may be used at any time.  Other commands appear as their effects on
consent: a session may end, a browser may be found gone, the worker may fail.  Other
commands may also set the uncertain mark, which only refuses more; that is left out.

### ConsentPromise and ConsentKept

A question is unasked, asked, granted, denied, spent or void.  A yes pays for one
action of the browser and is handed back only if it paid for none; anything may
lapse, and nothing comes back from that.  `ConsentKept` reads a question's standing
off the approval row, its session and epoch, and the command in flight: a consumed row
is spent, a row nobody would act on any more is void.  In the refinement the
handing-back after a browser died maps to a lapse, not to a refund, because the
session is gone.

### Works

`cmd` is the coroutine that holds `self.lock`, with its operation, its work and the await it is
suspended at.  `Ask`, `GiveUp` and `Begin` are the three things that happen at `_command_lock`:
a place in the queue, a wait that ends, a lock that is got; `Begin` makes every test the code
makes before its first await and goes on to that await.  `Holder` collects the ends of an RPC:
`Gone` (a browser), `Lost` (the worker), `ShutDown`, `Refused`, and the answers.  `Sweep` is
one pass of the sweeper; in the stage "scanning" it stands at the head of its loop, where
nobody else runs.  `age` and `rest` count alike, but `age` is set back by what calls `_touch`
and `rest` by what is use of the work, so `EndsOnceForAReason` compares the code's account with
the fact.  `saved` is the row of the store; `Crash` keeps it and nothing else.

`lease` has a state for each work, as `self.leases` has: a completed lease stays (`Resumed`) until
its work is forgotten or controlled again, and is no control (`Control`).  But `reclaim_session` takes
any lease (`Taken`), and what it took is active when it fails (`NotTaken`), also one that was
completed.  So `IdleWorksEnd` excepts every lease that is active, returning or being cancelled, be
there a human behind it or not; a completed one it does not except.

`Admit` is the two commits of an opening (`service.py:1274`, the row, and 1284, its owner) in one
step.  A kill between them leaves a row without an owner, of a work whose id nobody was told.

`NoStrayBrowser` speaks of the moments at which the lock is free: in between an opened browser may
be in the adapter only.  It excepts a cleanup that failed: from then on every open that fails
leaves a browser nobody can close until the service restarts, as the code means by
`cleanup_required`.

### Navigation

A request is where its coroutine is: waiting for the lock, in the RPC that opens a tab or
that begins the navigation, or over.  `TimeUp` is the five-second answer of `call`: what is
known by then is answered, otherwise `abandoned` is set.  `Dispatch`, `Undispatched` and
`Refuse` are the ways out of the wait.  `Probe` takes the lock for `_drive_navigation`, and
`StillPending`, `Over` and `WorkGone` end the RPC; `Cancel` is what a handoff, a close,
the start of a read, a reclaim and the shutdown do first.  `controlled` says that the desktop of some
work is in human hands (`ControlMoves`): as long as it is, nothing is dispatched and nothing probed
(`service.py:932-933`), so that a navigation of another work outlives its deadline.  The journal is a function of client and server ids;
`Evictions` is `_reserve_operations`, `Finish` is `_finish_navigation`.

The worker's failure is two actions: `WorkerFails` is `_rpc` up to the await of
`worker.shutdown()`, by when every navigation is finished, and `WorkerDown` what its caller does
afterwards, which may finish one a second time.  This is the finding `navigation_results`;
`PendingResolves` and `JournalKeepsRunning` hold all the same.  `PendingResolves` begins when no human has the
desktop any more: before, nothing in the code bounds how long a navigation is pending.

### Desktop

A worker command and its reply are one action, because the worker does one command at a time and
nothing else reads what it does half; a console operation is one action for each of its awaits
(`console`: disconnecting, resuming, closing).  Between them viewers come and go.  A viewer
is connecting (it has passed the tests, and is not registered yet), joining, or relaying, and
holds the bridge it was connected to.  `PrivateDesktop` is about bridges: there is one at most, of a
paused work whose control lasts or is being ended, on a display that is this work's.  It says nothing of
viewers; one that registers late or relays on is cut off because its bridge is stopped.  `ControlIsReachable` is violated (finding `desktop_unreachable`).

### Capture

One observation is a sequence of commands (`step`): page, frame, text, pixels, page, frame,
compare, and at most one second attempt.  The page acts between any two.  `seen` is data read
completely, `reading` and `framed` the parts of a reading that is under way, `proof` what has to be the same
after the pixels.  `Consistency` is what `capture_consistency.py` compares.  A protected
input is there or not; where its mask is painted is geometry and left out, and so are the
scroll position's own field (a change of the viewport counts as a scroll) and what secret text is
replaced by in the answer.

Inputs that come or go are counted by `snapshot.js` in the document itself.  That a document took the
place of another is counted by callbacks on the driver's event thread, and nobody waits for that
thread: `uncounted` are the changes whose event it has yet to handle (`Swaps`), `CountsSwap` is its next
turn, at any time.  A change there and back during the pixels therefore escapes the comparison if its
events are handled after the last reading; `NothingExposed` promises the picture only if they were
handled by then.

### PageLoad

The page command is sent by a thread and answered later than its effect may be seen.  A probe is
up to seven commands of the browser, each a step: frame tree, history, isolated world, readiness,
frame tree again, title, history again.  Before each the page may replace its document, move to another
history entry within it, or go back to one it left.  `asked` is the document the browser made for the
command; `strayed` is history: the tab was elsewhere since the probe began.  The frame tree is compared
twice, the history once, and in a command of its own: that a back or forward is at its entry, and that
the title is of the document reported, `LoadedAsAsked` claims only of a tab that stayed where it
was.  What it claims of every load reported complete is the document: in the tab and complete at the last
look, for a goto the one of the command's reply, for a reload another than before.  `settle_ms` and
`readiness=interactive` are left out: the reader uses the latter.

### Downloads

Chromium's downloads, their files, the queue of events, the one handler thread and the
artifact store are state of their own; the worker's commands and private control act between
any two steps of the handler (`handler` is the callback under way).  `private` is a history
variable: downloads that began under private control.  Sizes are small numbers against the
limits, and what is in progress counts with what is known of it.

### WorkerPipe

`toWorker` and `toService` are the two directions of the pipe; a worker that is told to stop may
still answer.  `heard` is how each call ended for the service, `executed` which commands the
worker began: `OwnReply` relates the two.

### Acts

One element that the client knows, one tab, one action after the other.  The steps of `act` are
in the order of the code: refusal, capture, inspection, place or focus, hit test, press,
release, settling, verification; the page changes what the element means, covers it, moves the
focus, opens a dialog or loads another document between any two.  `asSeen` and `reached` are
history: at some moment since the client asked, the element was what it observed, and was the
one the pointer or the keyboard would reach.  That both held at one moment cannot be promised by
separate calls and is not claimed.  Left out: actions by coordinates, page tools, drag, double
click and the fields of a form.

### Reader

Reads share one tab and follow one another under the reader's lock, but hold the command lock
only in three sections, so works open, close, are controlled and lose the worker in between.
`shown` is the read whose page the tab shows, `coming` the one whose page is asked for.  A url that
differs from the shown one only in its fragment loads no document (`within`): the job completes on the
document that an earlier read loaded (`loadedBy`), with the images that one got.  That a
read which timed out observes whatever is shown is the finding `reader_other_page`; `ReadIsOwn`
says that a read which calls itself complete has its own page, and no images against its wish if it
loaded the document itself.  `cache` gives
each kept result the number of its place (`places` counts them, as a dictionary keeps the order
of insertion), so the latest results of a caller are those with the highest numbers.  Left out: the counters of blocked
requests, the slicing of text, selectors, and the cancellation of a read (calls are shielded).

### Install

The installer is a sequence (`Procedure`) of commands, each of which may be the last
(`Interrupted`, `Reboots`); its next run starts from what it finds.  A file is what it was
rendered from.  systemd knows the units as they were at the last reload, restarts a failed
service and starts what is enabled.  The operator edits or deletes files while no installer
runs.  Folded: the runtime environment with `native.json`, the launchers and sudoers with
`browser-stop`, egress and ingress with the network and the API.  Left out: accounts, packages,
permissions, and `--data-dir`: there is one data directory.  (With a fresh one, an
interrupted first installation has no digests to compare with and a rerun overwrites edits.)

### Grants

`Grants` models `oauth.py` over the rows of `store.py`.  A nonce is shown with a form
(`Authorize`), comes back once (`Submit`), is consented to or refused after the password
was checked in a thread (`Consent`, `Refuse`), and is then a code, redeemed or wasted at
`/token`.  A form and the code it becomes have one name, and so have the access and the
refresh token of one `issue()`: the module cares who descends from whom.

A handler of `/token` awaits nothing between its writes, so no other handler of the server
comes between them.  But each write is a commit of its own, and `running` is the handler
that has made some: at that point the server may stop (`Restart`), the clock may run, and
the command line's `revoke-all`, a process of its own on the same file, may delete the
grants (`RevokeAll`).  Consuming a refresh token and renewing its grant are one
transaction and one action (`Renew`); the two tokens of the answer are two writes after it
(`IssueAccess`, `IssueRefresh`), so a stop between them loses the connection, never
doubles it.

`Restart` may change `cfg.resource`: an operator may move the origin or the path prefix.
`OlderStore` is a database from before absolute limits, whose grant has no limit until it
is first renewed; the limit of such a grant runs from then.

`since`, `origin` and `revoked` are history; no action is guarded by them, except that a
new grant's name is one never used.  Deleting a row and letting it expire are the same to
every reader of the store, so its periodic removal is not a step.  What the module
leaves out: the password and the throttle of wrong ones (planned), the verifier and the
redirect (their mismatch is `WasteCode`), the clients and the scope.

A code that is pending when everything is revoked still becomes a grant: `revoke-all`
deletes grants, and this one does not exist yet.  `RevokedForGood` speaks of grants that
existed.

### NavigationPacing

| Stage of a caller | Suspended at |
| --- | --- |
| `queued` | the host's `asyncio.Lock`, with what is left of its time (`timed`) or without a limit |
| `sleeping` | `asyncio.sleep` until its time, with the host's turn |
| `entering` | the wait for the service's command lock, still with the turn |
| `sent` | the RPC of the worker, with the turn and the command lock |
| `loading` | what follows `dispatched()`: the turn is given up, the record still used |

A record of `hosts` is an object which its callers hold by reference: after it was dropped
from the table and made again, callers of the old one and of the new one could
coexist.  Hence records are a pool and `hosts` a table of names into it; `OneTurn` is
about hosts, and so is false of a table that drops a record somebody uses (the
mutant `Unused_NoDispatches`).

The lock is asyncio's, modelled as external: it is open after a release although the
first waiter has yet to run, and a newcomer who finds it open while somebody is promised
it queues.  An answer of the worker that is lost or refuses charges nothing to the host
(`Unanswered`), so `PaceKept` (`Spaced` and `RateKept`) is about answered navigations
(`log`, with the time each was sent and the time it was noted).  A caller that finds the
lock open but promised to a waiter queues without its time limit
(`navigation_pacing.py:67`) and may go on to the command queue later than its deadline;
the comment at line 55 wants it there in time.

`Overdue`: the clock does not pass a timer or a promised lock whose coroutine has not
run.  One tick is long against a turn of the event loop.  This is also what a `WakeUp`
or `GiveUp` that is late by less than a tick comes to.

## Runs

| Run | Instance | What it shows |
| --- | --- | --- |
| `consent` | 1 session, 1 action, 2 tokens, 2 revisions, 2 places, 2 control transitions, time 0..4, windows 2 and 3 | types; one open question per target; every gated send is under a live yes to this very target; one effect per binding; an unresolved outcome blocks; the refinement of `ConsentPromise` |
| `consent_works` | 2 sessions, 2 actions (one passive), 1 token, time 0..2 | consent does not cross sessions; control of one desktop stops all browsers |
| `consent_results` | as `consent` without control transitions | the journal entry left running (finding) |
| `consent_place` | the same | an approved action performed at another place (finding) |
| `server` | 2 forms, 2 grants, 3 pairs of tokens, 2 resources, time 0..4; or 2 reads, 2 callers, 2 works, 1 kept result, 1 mishap | a revoked grant stays revoked; a refresh token continues once; one grant for one consent; no request past the absolute limit; no change of audience. A complete read is its own page, and the document it loaded is under its own policy, for its own caller; no more results are kept than allowed |
| `pacing` | 3 callers, 1 host, 2 records, distance 1, 2 per minute of 3, arrivals up to time 3, with fairness | turns exclude each other; the pace is kept; nothing is remembered needlessly; everybody leaves |
| `works` | 2 works of a capacity of 2, a queue of 1, times to live of 1, 3 calls, 2 faults, with fairness | no browser without somebody who can close it; owners are remembered; nobody beside the human; works end for a reason, and in the end unless under a lease |
| `navigation` | 2 requests, 1 client id, 2 digests, a journal of 2, 2 faults, with fairness | a request refused as busy is never sent; one page command per operation id; what is under way stays in the journal; what is pending resolves once no human has the desktop |
| `navigation_results` | the same | a completed result changes (finding) |
| `parts` | the constants of `MCParts.cfg`, one part at a time | a desktop is served only under control; nothing protected is shown once the driver has counted; a load is of the document asked for; files and replies are one's own; input is what was seen and is released; nothing untested is installed or run, edits survive, the data of a running API stay |
| `desktop_unreachable` | the desktop of `parts` | control without a screen (finding) |
| `reader_other_page` | the reader of `server` | a read answered with another read's page (finding) |

Why the bounds are enough for the interesting cases.  `consent`: two tokens give a question, its
successor after a lapse, and a denied one beside a new one.  Two revisions and two
places give a page that changes in place, a new document, and both in one RPC.  Two
control transitions give a handoff and its return, so that an answer of before, one
between them and one of after exist.  The windows are shorter than the time: proposals,
approvals, consumed rows and dispatch records all expire within a run, and a record
(3) outlives a window (2) as 86400 outlives 120.  In the code `ConsumedTTL` is 86400
and `RecordTTL` is `max(86400, session_ttl)`: equal for every `session_ttl` up to a
day, which the configurations use.  Once its record has expired, the same binding can be
dispatched again on a session that is still used: `OncePerBinding` ends with the record,
although `docs/APPROVAL_POLICY.md:81-82` sets no such term.

`server`: two forms and grants let one descend from another's consent by mistake; three
pairs are a first issue, a renewal and a second use of the old token (or a third
renewal).  An access token (1) dies before a refresh token (2), this before the absolute
limit (3), and the time (4) goes beyond it; a renewal at time 1 or 2 is shortened by the
limit.  Names are random in the code, so symmetric here.  Two reads share the tab, by two
callers or by one whose first result must make room.

`pacing`: with three callers one holds the turn, one waits for it and one arrives.  Two
records suffice for one host: an old one still in use and a new one.  Hosts do not interact
but for `expire`, which goes over all of them.  Two navigations fill the minute, a third is
refused or waits, and the clock goes past the minute.

`works`: two works fill the capacity, so a third open reclaims or is refused; one waits in a
queue of one while the other holds the lock, and one more is refused.  Three calls are an
open, a use and a control, or two opens and a navigation; two faults are a browser or the
worker lost, and a cleanup that fails after it.  A time to live of 1 lets every combination of
used, resting and overdue works meet the sweeper.

`navigation`: two requests with one client id are a repetition; with two digests a conflict;
without an id two navigations in a row.  A journal of two is filled by one navigation under two
ids, so a second must evict or be refused.  Two faults give a failed probe and a dead worker.

`parts`: two works, viewers and displays let a viewer of one meet the bridge of another; two
changes of the page during an observation are one before and one after the pixels, or away and
back; three loaders are the page before, the one asked for and a redirect, each of which may be brought
back; two downloads and an export
meet limits of two; three requests leave a late reply behind a restart; two
documents, two dialogs and one control are an action interrupted and settled later; two
troubles in two releases and two settings are an edit and an interruption, or two
interruptions, before an update, a rollback or a removal.

Deadlock is checked in every run but `works` and `parts`, whose calls and faults are bounded and may all
be spent; in `Consent` and `Grants` the service may always crash, in `NavigationPacing` `Sweep` may always
run, in `Reader` other works may always come or go, and in `Navigation` the desktop may always be taken
or given back.  What must go on is said by liveness properties instead.

Fairness.  `Consent` and `Grants` assume none: what they promise is safety.  That each command that
was let in ends is read off the code and no property: `Worker.call` waits 45 seconds and then raises,
and the completion's loop tests its deadline.

In `NavigationPacing` the clock runs and each caller's coroutine runs when it can: a sleep
and a timed wait end by themselves, a released lock wakes its first waiter, a caller that
waits for the command lock gets it or is refused within its wait, and the
worker's answer or its loss comes within 45 seconds.  Nothing is assumed of arrivals, and
that a caller is let in (`Send`) is not assumed either: that it goes on or is refused is
enough.

In `Works` the holder of the lock goes on (each of its awaits is an RPC with a timeout), the
sweeper runs (it sleeps and begins again) and the clock; who waits for the lock gets it or gives
up, which is strong fairness, because others take the lock in between: `command_queue_timeout`
bounds the wait.  A navigation's probes get the lock for the same reason while no desktop is under
control, and a navigation ends (its deadline).  Nothing is assumed of humans, of calls, of faults, or of `cancel_handoff`, which
waits for the viewers without a timeout.

In `Navigation` a request leaves its wait for the lock (strong: the lock is taken and freed),
RPCs are answered, a client hears its answer, and probes go on until one finds the navigation
over, which its deadline brings about (strong fairness of `Over`).  There are probes only while no human has
the desktop, and nothing is assumed of humans: an expired lease still is one.

Each property of a passing run has a mutant in `PROJECT.json`: a plausible slip in
one definition under which TLC finds the property violated.

### Findings

1. `consent_results`: a command can end without completing its journal entry: the completion
   wait that loses its session raises `KeyError` (`service.py:1726`), an approval that expires
   while `prepare` runs an `AttributeError` (`service.py:1525`).
2. `consent_place`: `act` prepares a second time but ignores the binding this yields, so a page
   whose address changes in place after the comparison is acted on under the old approval.
3. `navigation_results`: a worker that fails while a navigation is cancelled completes its records
   twice, with different results (`service.py:364-374`, then 980).
4. `desktop_unreachable`: a return of control that the page refuses leaves the lease active and
   its bridge stopped (`drission.py:3169`); nothing starts it again.
5. `reader_other_page`: a read whose navigation timed out before its page arrived returns the page
   of an earlier read (`service.py:731-746`).

Noticed while modelling, without a run:

* A read of the shown url with another fragment is answered complete on the document of the earlier
  read, with that one's images although it asked for none (`navigation_job.py:85-93`; `Reader`).
* A back or forward may be reported complete at another entry, and a load with the title of another
  document, if the page goes away and back within a probe (`navigation_job.py:94-144`; `PageLoad`).
* A protected input of a document that came and went during the pixels is given in the picture if the
  driver handles the events too late (`drission.py:230-257`, read at 799; `Capture`).
* A reclaim that fails makes a completed lease active again (`service.py:2297-2315`): automation and
  sweeper stop, the other works stay alive, and nobody is in control (`Works`).
* While any work is under control no navigation of another work is probed and no deadline looked at
  (`service.py:932-933`); an expired lease does not end that (`Navigation`).
* A reader tab closed by its page leaves a stale `reader_tid`: every later read fails with
  `TAB_NOT_FOUND`, and its `_touch` keeps the session from expiring.
* The sweeper's loop catches `BrowserError` only; any other exception ends it for good.
* After a failed cleanup each open that fails leaves a browser that nobody can close before a
  restart.
* A download deleted between its reservation and its tracking leaves its file until
  `reap_orphans`.
* `handle_alert`'s result is ignored, and a "closed" event that is handled late clears the dialog
  that opened after it (`drission.py:281`).
* An interrupted installation cannot always be run again, nor rolled back with `update --start` as
  `docs/NATIVE_INSTALL.md:106-109` says: written files differ from the manifest
  (`native_install.py:305-314`); without a manifest the data (328-335) and units (456) are unowned;
  a virtual environment without its tool is never completed (417-421).
* `active` is read once (`native_install.py:317`): a service restarted by systemd afterwards is not
  stopped, and the update reports success while the old release runs.

## Proofs

Every safety property that a passing run checks, invariant, action property or refinement, is
also a theorem, for every value of the constants.  What is assumed of the constants are the `ASSUME`s of these
modules, which TLC evaluates in every run: the kinds of the constants, that a value that stands
for "none" is not one of the others (`NoRequest`, `NoWork`, `Missing`, and in `Navigation` the
holders of the lock that are no request), that capacities and times to live are
positive, and three facts about settings: a refresh token lasts no longer than the absolute limit
(`config.py:136` refuses others), a dispatch record lasts as long as a consumed approval, and the
interval between two navigations is at most a minute (`config.py:56`).
The bounds on faults, calls and time (`MaxFaults`, `DeskFaults`, `MaxTroubles`, `MaxTime` ...) are
any numbers: so the theorems hold however long the system runs.

None of the properties is inductive as it stands.  Each module has one inductive invariant, a
conjunction of named parts; below is what each part is for.  The proof that a step keeps it
has a lemma for each action or for a group of actions that change the same variables, and the
theorem combines `Init => Inv`, `Inv /\ [Next]_vars => Inv'` and `Inv => Property`.

### Consent

* `TypeCorrect`: that a command in flight has a session and an action (`FrameOK`) is needed
  wherever a step indexes by them.
* `ControlExcludesEffects`: `ControlInv` says that only a live session has a lease, that a lease
  marked cancelled lasts no longer than the closing, that no lease is held while an action
  is under way, and that a session being returned is there.  The first and the last
  are what make the second and third inductive: a worker's failure clears the leases
  of live sessions only.
* `DispatchedOnce`: the record that forbids a second dispatch may be overwritten, expire or be
  taken back.  `OnceInv` says that an effect is remembered by its record or has outlived it, that
  a command let in repeats no effect whose time is not over, and that the record of a command
  that has not acted stands.  Taking it back is then harmless: no effect needs it.
* `AskedOnce`, `SentUnderConsent`, from `HumanInv`.  `Asked`: an approval is of a session that was
  opened, in an epoch it reached.  `YesStands`: behind every approval the service would honour
  there is a yes, and the approval ends within its window; a restored one too, because `InHand`
  makes the command in flight remember that window.  `Presented`: while `prepare` is awaited only
  time can change the approval that was presented, so the comparison after the await is with what
  the human saw.  `Paid`: what paid for an effect is consumed or gone.  `OneOpen` counts
  a question as open also while the command in flight may give it back: without this
  part, `OneOpenProposal` is not kept by `ActReplies`.
* `DoubtsBlock`: `Doubts` says that an unresolved session carries the uncertain mark, and that no
  command in preparation is of one: the mark cannot come while `prepare` is awaited.
* `PromiseImplemented`: `Spec => PromiseKept`, the refinement.  The cases of `Next` are
  reduced once to a few kinds of steps (`Kind`): quiet ones, letting in, asking, deciding, taking over,
  sending with a token or without one, acting, handing back, the clock, opening.  A quiet step is a lapse of some
  questions (`Lapsing`), asking and deciding are those of the promise, spending is its use; the
  browser's effect is a step of its own, and handing back is a refund if the effect was never done
  (`Paid`) or a lapse.  The mapping needs `TypeInv` in both states and `HumanInv` in the first.

### Works and Navigation

* `WorksTypeCorrect`, `BrowsersAreOwned`, `OwnersAreKept`, `DesktopIsPrivate`, from `WorksInv`.
  `FrameOK` says which operation can stand at which await, and that who is at one has its work and
  its place in the queue.  `BrowsersOK` is `NoStrayBrowser` without its restriction to a free lock:
  a browser without a work lives only from a failure (`losing`) to the shutdown of its worker.
  `StoreOK` ties memory, store and history; `AgeOK` says that the code's account of idleness is
  the fact, and stays true from the sweeper's decision to the close it awaits.
* `WorksEndOnce` (an action property): each step ends some works for a reason of its own, or none,
  and an ended one stays ended (`OnlyEndings`).  The sweeper's step is the one that needs `AgeOK`.
* `CapacityKept`: never more than `max_sessions` works, although the sweeper ends works between
  the test and the opening; not a property of a run.
* `NavigationTypeCorrect`, `NotDispatchedIsFinal`, `RepetitionIsSafe`, `RunningIsKept`, from `NavInv`
  (`NavigationInvariant`).  `HolderOK` and `CurrentOK` tie the lock, the navigation under way and the
  request that hangs on it; `ContextOK` says that an empty context was not dispatched, which is what
  makes "not dispatched" final; `ClaimsOK` says that an operation id past the reservation is
  claimed by one request while its record is kept; `RunningOK`, that the records of what is under
  way run and nobody else completes them; `CapacityOK` keeps the journal finite and within its size.

### NavigationPacing

* `PacingTypeCorrect`, `TurnsExclude`, `PaceIsKept`, `HostsAreForgotten`, from `PacingInv`.  Most actions
  end with `expire()`, which goes over all hosts; so the invariant is an operator on records, hosts,
  frames, logs and the time (`Good`): an action is shown to leave values of which it holds, and
  `expire()` to keep it, once.
* For the turns: `Known` says that whoever is in `pace()` holds the record the table has of its host,
  which needs `Counted` (`users` is the number of callers that hold the record, a cardinality) because
  `expire()` drops a record only at zero; `Apart`, that two hosts never share one.  `Held` then
  makes the lock of the record that of the host.  Waiters and the lock of `asyncio` are in it as far as
  they decide who is next: who queues is among the waiters (`Waits`).
* For the pace: `History` ties a record's dispatches to the log of its host: they are its end, and
  what the record has no more is a minute old (`Matches`).  So a record that was dropped and made
  again, or a deque cut from the left, still decides as if it held everything.  This is where the
  interval may not exceed a minute: a forgotten dispatch must be no reason to wait.  `Timely` says that
  whoever has the turn is in time at its waking; in between, nobody else
  sends to that host.

### Grants

* `GrantsTypeCorrect`, `RevocationIsFinal`, `ContinuedOnce`, `ConsentSpentOnce`,
  `LimitIsAbsolute`, `AudienceIsFixed`, from `SafeInv`.  `FormsInv` says that a form is in one place
  at a time and that whatever led to a grant was consented to and has left every earlier place;
  without it nothing keeps a code from being redeemed twice.  `TokensInv` ties a token to a known
  grant and to the resource its form was shown for, and does the same for a handler
  between its writes, which is what lets `IssueAccess` and `IssueRefresh` preserve it.
  `LimitInv` bounds the row of a grant by its birth, `RevokedInv` says that what is revoked
  has no row; a renewal needs a row, hence finality.  `OneContinuation` is inductive
  beside them.

### The browser adapter (BrowserProofs)

* `CompleteMeansLoaded`, from `LoadInv`.  `DocumentsOK`: a document that was left comes back complete, if
  at all.  `CommandOK`: when the thread hears of a goto its document is known.  `ProbeOK`: what a
  probe has learnt at each of its commands holds while that document is in the tab, and the second
  frame tree finds out whether it is; what was learnt of two things together, of document and entry or
  document and title, holds while the tab did not stray.
* `PicturesAreMasked`, from `CaptureInv`.  `ReadingsOK`: what was read of a document is past
  (`Past`): its counter has gone on, or it is still as it was read.  `PictureOK` is the heart: if
  something protected got onto the pixels, then a counter or a document has gone on beyond the first
  reading, or an event that will make one go on is still in the driver's queue (`Displaced`); so readings
  that agree prove the picture when the queue has been handled.
* `ActsKeepTheirWord`, from `ActsInv`.  `SeenOK`: past its inspection an action has found the
  element as it was seen, in the same generation of control, and past the hit test has reached it.
  `PressedOK`: nothing is sent before the press, and what is down is held by the action or remembered
  by the tab.
* `DownloadsAreOwn`, from `FilesInv`.  `EventsTrue`: an event in the queue, or in its handler, that says
  "completed" is true of the file and stays so, however late it is handled.  `PrivateStopped`: a
  download that began under private control never runs.  `FilesWhole` follows for what is readable.
  `WithinLimits`: what an artifact holds is counted in units (`HeldUnits`), pairs of an artifact and a
  number up to its size, so that a sum is the cardinality of a finite set: replacing one artifact
  changes it by at most the units of that one, and removing some only makes it smaller.

### Around the service (ServiceProofs)

* `AnswersAreOwn`, from `PipeInv`.  `OneInFlight`: a worker that still takes commands has the one
  that is waited for or none.  `NoneElse`: whoever waits can only receive its own answer once
  its command began, and what never began never will.  A timeout ends the worker, which is why the
  answer it leaves behind is nobody's.
* `DesktopsArePrivate`, from `DeskInv`.  `ScreensOK`: each display is one work's and runs.
  `ConsoleOK`: the lease an operation began with is still its own after each await.  `BridgeOK`: the
  one bridge is of a paused browser whose control lasts or is being ended.
* `ReadsAreOwn`, from `ReadInv`.  `TurnsOK`: the read between its start and its end has the reader's
  lock.  `TabsOK`: while the browser that a read began in lives, its tab loads and shows no later page;
  a browser opened since is another one, and the read does not go on with it (`SessionLives`).
  Who loaded the document is kept apart from whose page it shows, and `Own` compares the images of a result
  with the document's reader only.  `CacheOK`: every kept result
  has a place of its own, so that those which stay after an eviction are at most `MaxKept - 1`
  (`LatestStay`, by the least element of a set of numbers, `LeastOne`, and finite cardinality).
* `InstallationIsSafe`, from `InstallInv`.  `BehindOK`: whoever is at a step of the procedure has the
  steps before it behind.  `FilesOK`: an edited file is one an operator edited, and no installation or
  removal begins over one: with a manifest the comparison finds it, without one there are files
  only beside the data of an installation that was interrupted, and `OwnData` refuses those.  `ReleasesOK`: files,
  units and processes are of whole releases, and a release never becomes less than whole.

### The parts as they are run (PartsProofs)

* `PartsTypeCorrect`.  A behaviour of `MCParts` is one of each part, because a step of one leaves the
  variables of the others alone (`PartsAreParts`); so what is proved of every part alone
  holds of the specification that TLC runs.  `ReaderTypeOK` is a theorem and in no run.

### Only model-checked

* Liveness (`IdleWorksEnd`, `PendingResolves`, `EveryoneLeaves`): out of the prover's reach,
  with the fairness and `ENABLED` they rest on.
* What runs with `expect` "violation" refute has no theorem, of course.

## Plan

Done: `Consent` with its refinement; `Works`; `Navigation`; `NavigationPacing`; `Grants`;
`WorkerPipe`; `Desktop`; `Capture`; `PageLoad`; `Downloads`; `Acts`; `Reader`; `Install`; theorems
about all of them.

Left: `Throttle` (`limited` in `oauth.py` and the login's failures) beside `Grants`, and the bounds
of the node registry, as operators checked against a reference.

## Not modelled

* What depends on data only: policy rules, redaction, URL filtering, schemas, the text of a page.
* Uploads: staging, checking and use all run under the service's lock on a file with a random name,
  whose digest is compared again; only the removal of expired files is free of the lock, and it
  makes a use fail.
* Admission by measured memory, and the capture's budget: their outcome is a choice in the modules.
* The node registry's bounds by bytes and entries: an eviction only makes a client look again
  (`Evicts` in `Acts`).
* Network code without state (egress, ingress, security), diagnostics that nothing decides on,
  configuration, page tools.
* The passkey deployment: a login service of its own, whose challenge is a row that one
  transaction consumes.
* Benchmarks, canaries and CI scripts.
