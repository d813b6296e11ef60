# A formal model of the KEGE server and its pages

The repository is a contest system: a C++ server (`api/`) written with
coroutines on an event loop, one loop per worker thread, a PostgreSQL database
behind it, and a TypeScript interface (`ui/`) in front of it. This directory
holds TLA+ modules for the parts of it where the order of events decides
correctness, TLC configurations that check them on small instances, and proofs
of the most important invariants for instances of every size.

    tlc -config ConnectionPool.cfg MCConnectionPool     # a model-checking run
    tlapm ConnectionPoolProofs.tla                       # a proof

## 1. Inventory

| Part | State it keeps | Operations | Hard because |
|---|---|---|---|
| **Connection pool** `api/src/async/pq.cc` | idle connections, queue of waiting futures, `conns_alive`, cooldown, `stop_requested`; per handler a connection and `has_active_transaction` | `get_connection`, `return_connection`, `populate_pool`, transactions, the rollback of `~connection`, `on_stop` | connections die at any time; a return resumes another handler in the middle of the call; a rollback outlives its handler |
| **Event loop and coroutines** `api/src/async/{coro,event-loop,libev-event-loop,future}.cc`, `main.cc` | work queue, `alive_coroutines`, timeouts, `until_complete`, the chains of coroutines | `schedule_work`, `worker_cb`, `schedule_detached`, final suspension, `stop_notify` | counts and wake-ups are spread over callbacks; the stop races with requests and with the start |
| **Sessions** `api/src/routes/session.cc` | a persistent trie behind an atomic root, one lock for writers, flags in each session | `save`, `require_auth`, `run_session_gc`, logout | all workers share it, readers take no lock, three parties write |
| **Id ranges** `api/routes/user.cc`, `session.cc` | a list of ranges per session, one database sequence | `handle_request_id_range`, `is_owner_of` | lock-free, across threads, and suspended in the middle |
| Asynchronous mutex `api/src/async/mutex.cc` | owner, queue of waiters, cancellation | lock, try_lock, unlock, cancel_all | hand-over resumes the next owner inside unlock; unused by the server |
| Sockets, HTTP client, FastCGI `api/src/async/{socket,curl}.cc`, `fcgx.cc` | watchers, transfers, open requests | accept, read, write, transfer states | edge between callbacks and coroutines |
| **Contests** `api/routes/contestant.cc` | `users_kims`, `users_answers`, signed tokens | status, start, answer, end | start and end race, stateless tokens outlive what they prove |
| **Standings** `api/routes/standings.cc`, `ui/src/pages/admin/standings.tsx` | sync tag, the table | full and incremental update | ids are not committed in order; requests of the page overlap |
| **Kims** `api/routes/kims.cc`, `ui/src/pages/admin/kims/edit.tsx`, `components/lists.ts` | positions of tasks, times of groups; the page's list and dialog | reorder, remove, add, save | two administrators with different lists, deferred constraints, rows merged from fields |
| **List of tasks** `ui/src/components/task-select.tsx`, `utils/selection-controller.ts`, `pages/admin/tasks/list.tsx` | elements, selection, rows, boxes, epoch | filter, tick, delete, add to a kim | overtaking answers, listeners that change what others just changed |
| **Tasks** `api/routes/tasks.cc`, `ui/src/pages/admin/tasks/edit.tsx`, `components/text-editor.tsx`, `utils/editor-transforms.ts` | three tabs with versions, images, links; the stored text | type, switch, upload, delete, save | a text in three formats, images in four states, a sanitizer at the server |
| **Saving of edits** `ui/src/utils/{sync-controller,future,diff}.ts` | local and remote copy, flags, a future | change, save, leave the page | edits during a save, failed saves |
| **Router and pages of a contestant** `ui/src/utils/router.ts`, `pages/{main,solve,login}.tsx` | current page, timers, intervals; tasks, answers | `goTo`, `redirect`, mount, countdown, answer | navigations overlap, two clocks |
| **Grading** `api/src/routes/grading.cc`, `components/answer-table.tsx` | none | cells to bytes, bytes to scores | three programs must agree on bytes |
| Id cache `ui/src/utils/common.ts` | one range | `dbId` | the check is outside the mutex |
| Filter, encodings `api/src/utils` | none | pure functions | boundaries |
| Routing, configuration, diagnostics, build tools, user and group queries, layout | none that changes at run time, or one statement of SQL | | |

How they interact: `main` creates the workers, each with an event loop and its
own pool, FastCGI server and HTTP client as event sources. `accept_cb` detaches
a coroutine per request; the handler asks the pool for a connection, then
`require_auth` for the session, works, and drops the connection. Sessions, and
the id ranges inside them, are the only memory the workers share. The pages
talk to the server with single requests, and keep caches of ids and of edits.

What makes the parts correct, and which hazards they are exposed to, is listed
with lines in `PROJECT.json` under `hazards`.

## 2. Modules

| Module | Stands for |
|---|---|
| `FifoResource` | abstract: units lent to clients, one FIFO queue, nobody overtakes it |
| `ConnectionPool` | the pool and the `connection` objects of one worker; implements `FifoResource` |
| `ConnectionPoolProofs` | its inductive invariant and seven theorems, the refinement among them |
| `EventLoop` | main thread, worker threads, loops, coroutine chains |
| `EventLoopProofs` | its inductive invariant and five theorems |
| `SessionStore`, `SessionStoreProofs` | login, collection, authentication, logout; three theorems |
| `IdAllocator` | abstract: every answer gives ids nobody was given |
| `IdRanges`, `IdRangesProofs` | the lists of ranges; implements `IdAllocator`, proved |
| `Diffable` | operators: a page's local copy, its differences and their counts |
| `SyncController`, `SyncControllerProofs` | the save loop, the requests, the navigation that leaves the page; five theorems |
| `Contest`, `ContestProofs` | the participation of one contestant in one kim; four theorems |
| `Standings`, `StandingsProofs` | submissions of contestants, the incremental answer, the administrator's page; three theorems |
| `Lists` | operators: `SetComponent` and `OrderedSetComponent`, a list and its rows |
| `GroupDialog` | operators: the dialog of a group's times, the row the server makes of them |
| `KimEditing` | pages of one kim, the updates they send, and the route that handles them |
| `TaskSelect` | the table of tasks with filter, selection and deletion |
| `KimDesk` | composition of `KimEditing` and `TaskSelect`: a selection is added to the kim |
| `KimDeskProofs` | its invariants and four theorems |
| `EditorTransforms` | operators: code, preview and rich text, and what leads from one to another |
| `Quill` | external: what the rich editor makes of HTML and HTML of its document |
| `TextEditor` | the tabs, the images, the route that stores both |
| `Grading` | operators: cells, bytes, scores |
| `ContestPages` | the tab of a contestant: router, list, contest, login; the answers it sends |
| `MC*` | the instances TLC checks |

Definitions keep the source's names; operators whose comment begins with
"Fault:" are not part of any specification: they are plausible mistakes in the
operator that follows them, used to see that a property notices.

### ConnectionPool

One worker is one thread: between two suspension points a coroutine runs to its
end while only the database, the network and the clock act. Connecting blocks
the thread but a connection may be lost meanwhile, so the loops of
`get_connection` (dropping lost connections) and `populate_pool` (connecting)
take one step per iteration, with `busy` naming the loop, and no coroutine
moves until it is "no". Setting a waiter's future resumes its
`get_connection` to the end; the handler itself goes on later from the queue of
the event loop, hence the states "granted" and "holding".

* `status` is libpq's. An idle connection may turn "bad" without being used:
  libpq notices only when it reads, which is earlier or later than the model's
  step and never distinguishable by the pool.
* `on_stop` may come at any moment without a pool call in progress. In this
  program the event loop calls it only with no coroutine alive; the pool does
  not rely on it and neither does the model.
* A connection that breaks in the middle of a statement may also end the
  process in an assertion (pq.cc:244, 252, 261); that, and `db_error` on a
  nested transaction, are not modelled.
* Identities of connections are reused after `PQfinish`.
* `leaked` counts the connections of failed rollbacks (section 4).

### EventLoop

A request is a chain of coroutines (`depth`) of which the innermost waits for
something (`at`); what it does between two suspensions is one step with every
outcome: suspend again, possibly deeper, return to its parent (queued), or
finish. `rollback_and_return`, detached by a request that drops its connection
in a transaction, is scheduled like a request and is another member of `Reqs`.
The exception a coroutine ends with is not modelled; section 4 says where it
gets lost.
`WakeFromCoroutine` stands for a future set by another coroutine: the waiter's
part runs inside that coroutine's step, and is a step next to it here.
The comment of event-loop.h:118-119 says that libev_event_loop executes work
before `schedule_work` returns; the code (libev-event-loop.cc:226-228) queues it,
and the model follows the code.

### SessionStore

The trie is persistent, so a root is a set of sessions; every load, store, lock
and unlock is a step. Session ids are 32 random bytes and never collide.
`require_auth` does not look at the idle time: only the collection ends idle
sessions. `seen_idle` names the sessions it ended for that reason, among them,
possibly, one that a request was just refreshing.

### IdRanges

A range is named by the value of the sequence it begins at. Each `load`,
`fetch_add` and `store` is a step, and so is the database's UPDATE, which is
atomic there. A handler that is refused by its own new range ends with
EXTREMELY_SORRY; others have taken all its ids meanwhile.

### Diffable and SyncController

`Diffable` is the generated class of a message together with `DiffableSet`: each
operator maps a copy to the copy after one synchronous call. What `onDeltaChange`
closures conclude from `(fields, fieldsDelta)` is `Edge`, so the counts are
updated by the code's rule and can be compared with the cells (`CountsAreExact`).
The position of a task is a cell like any other here; how the server swaps
positions is the matter of `KimEditing`.

The page is one thread, so an edit with everything `onDeltaChange` does up to the
request is one step, and so is an answer with everything up to the next request,
the end of the handler, and the continuation of the navigation that waits
(`Settle`): nothing else can run in between. An exception of `clear()` leaves
`onDeltaChange` before the handler starts (`threw`). The page can be edited while
it is being left: the loading screen is a small box that covers nothing.
A request fails as a whole; `unsure` names the cells the server took from a
request whose answer was lost, about which the page cannot know anything.
`catchAllLastFields` is always the copy's own count and is not a variable.
Entries of `New` are added once (`added`); an entry starts with two attributes.

### Contest

A handler takes `current_time` first and then makes its queries, each of them a
step; the answer is judged by that time, not by the time it is written. A token
is signed and complete in itself, so a device holds what it was given, whatever
the database says later: `after_end`, a mark of the model and not of the code,
says that the request for it came after the participation was ended.
Deleting the kim, moving its start, changing `virtual` or the duration, and
exams, which hide the other kims, are left out. A response may be lost after
`users_kims` or `users_answers` was written (`RequestFails`).

### Standings

The server answers with the submissions above the sync tag, of each task and
user the latest by time, and the next tag. `late` names the submissions that
became visible after one with a greater id: the automatic update skips them for
good, and only another choice or the button shows them. `troubled` names the
other exception, which ends with the next full answer: requests that overtook
each other, a full one that failed, an answer that could not be shown because it
is another kim's. The assertion of standings.tsx:118 fails when the selection is
emptied while a request is in flight; the model does what the code does then,
nothing. An installation without any submission answers a full request with tag
2, so the submission with id 1 would be skipped: `Init` has one submission.
The order of the rows (167-242) and the window of one participant's submissions
(195-235) are not modelled; neither is the choice of the group.

### Lists, GroupDialog, KimEditing

`Lists` keeps components, rows of the document, and the place each row was last
told of, separately: they are updated by different calls, and `Consistent` says
that they agree. Times are half minutes, so that rounding the duration to
minutes matters. `KimEditing` gives each administrator a page; the update is one
step because its first statement locks the row of the kim. `disturbed` names
pages whose tasks or group somebody else changed, `unsure` pages whose update
was saved without their knowing: sent again, a swap is undone, and the row of
the group may not be sane. The properties promise nothing to them, which is what
the code does. Deleting a group and adding it again, the FIXME of
kims/edit.tsx:639, is not done by one page here.

### TaskSelect and KimDesk

`PopRows` is what the table's own listener does when the document does not show
the selection yet. An answer sets the epoch to 0, so that the next request takes
the number of one that may still be under way; `recycled` is the exception of
`ShownIsLastFilter`. `KimDesk` adds a selection to the kim of `KimEditing`; the
redirect that follows opens the list anew.

### EditorTransforms, Quill, TextEditor

A fragment is a sequence of nodes, and a rule of `traverse` a record that names
its tags, its condition and its handler. What Quill does (lines, leaves with
formats, an empty last line) and the browser's parser and serializer are external,
modelled as far as the transformations use them. `Read` and `Write` are the two
halves of `onTabSwitch`; `meant` is what the user typed last, or found when the
page was opened, and `unread` says that no tab has been asked for it yet.
`hidden` and `early` are exceptions of the code: an image whose upload ends when
the rich editor is not shown, and a text saved while the contents of an image
are being read. `VisitsSettle` says what a visit of the rich editor does to a
text that a visit left: nothing, but for aligned lines without a letter
(`Textless`), which `isElementCreatingBr` takes for empty. After such a line
that shows an image every visit adds one more blank line (`BreaksAdded`), and one
that holds nothing goes with the first visit; the instance has both kinds.
In a text with such a line `TypedIsText` leaves the number of blank lines open.
That the first visit may change more is Quill's nature (it knows no
nested formats). RECURSIVE operators keep these modules out of TLAPS's reach.

### Grading and ContestPages

`Grading` has the bytes of an answer as the contestant's page makes them, as the
administrator's table makes them, and as the server splits and compares them.
`Deserved` is the reference: the score by the cells themselves. A letter of two
bytes is one unit of a JavaScript string, and `EncodedInto` writes only what
fits. In `ContestPages` the router's synchronous parts are operators on the tab
(`goTo`, `Redirect`, `Unmounted`, `Enter`), so each callback is one step: a timer
of `redirect`, the answer of a request, an interval, the user. `overtaken` names
pages whose mount was under way when the next navigation unmounted them: their
mount goes on, fills the document, and starts an interval nobody stops.
`clock` is the contestant's (solve.tsx uses it), `time` the server's (main.tsx
corrects by it). `troubled` marks a page whose requests failed, crossed each
other, or were not the only ones. The two requests of a mount are one step, and
write tokens and times of acceptance are left to `Contest`.

## 3. Runs

| Run | Instance | Shows |
|---|---|---|
| `pool` | 2 connections, 3 handlers, unbounded length | `FutureSetOnce`, `SingleOwner`, `AliveCount`, `NoInheritedTransaction`, `NoIdleWhileWaiting`; refinement `ImplementsFifo`; `WaitersAnswered` |
| `event_loop` | 2 workers, 2 coroutine chains of depth 2 with 2 suspensions | `AliveIsExact`, `OneWakeUp`, `NothingAbandoned`, `NoWorkSleeps`; `RequestsFinish`, `ShutdownEnds` |
| `sessions` | 2 logins, 2 concurrent requests, collection without end | `NoSessionLost`, `LogoutIsFinal`; `LoggedOutCollected` |
| `id_ranges` | 2 sessions, 2 handlers, ranges of 2 and 4 ids, answers of at most 3 | refinement `IdsAreFresh` |
| `id_ranges_owned` | same | violates `GivenIsOwned` |
| `saving` | a scalar, an old and a new entry of 2 attributes, 2 values, 3 edits | `CountsAreExact`, `RemoteIsServer`, `SynchronizedIsSaved`, `UnsavedIsReported`, `SilentLeave`; `NavigationsEnd` |
| `saving_clear` | same | violates `ClearNeverThrows` |
| `contest` | 2 devices, a contest from 1 to 3 or 4, a duration of 2, one revocation | `AnswersInTime`, `EndBinds`, `RevokedAreRechecked` |
| `standings` | 2 kims that share one of 2 tasks, 2 users, 3 submissions, 2 requests in flight | `TableIsOfSelection`, `NothingMissing`, `TotalsAddUp` |
| `kims` | 3 tasks, 2 administrators, 1 group, 2 filters | `SavedIsShown`, `SaveAccepted`, `SelectionIsShown`, `ShownIsLastFilter` |
| `editor` | 2 images, 2 codes, 2 documents, 2 stored texts, 2 edits, texts of at most 7 nodes are opened again | `TypedIsText`, `VisitsSettle`, `ImagesAreStored` |
| `solve` | 2 tasks of 1 and 2 cells, 4 policies, a contestant or an administrator | `PagesAreOwned`, `AnswersAreStored`, `GradedAsDeserved`; `LeftAtTheEnd` |

Bounds. `Conns` in the pool is as large as `conns_desired`: the invariant
`AliveCount` shows that more are never open. Two connections and three handlers make
a handler wait while one holds and one rolls back, which every hazard of the list
needs. Depth 2 and two suspensions give a chain a parent to return to and a second
wake-up. `MaxSeq` = 10 leaves room for a list of ranges of lengths 2 and 4 in one
session and another range besides; the code doubles without bound. `MAX_IDS` is 3,
not 20, so that an answer is cut by the end of a range and a range serves more than
one answer. Only the first SIGINT is modelled. Three edits are an edit, another one
or its undoing during the request, and one more after a failure; two attributes make
the counts of an entry differ from the set's. A contest is shorter or longer than
its start plus the duration, and the clock reaches its last end, so each status of a
participation occurs on each side of its bounds; two devices start together, or one
answers while the other ends. A page that was left, or whose edits are used up,
stops, so `saving` and the runs of the other pages do not check deadlock. Three
submissions let the second become visible before the first while a request is under
way, and two requests can overtake each other. Two administrators and three tasks
give every pair of moves an order in which they meet; steps are shared out by
`Budgets` between the page, its dialog and the list, because a sum of all three at
once repeats the same cases. Four half minutes hold a start, an end, and a duration
of zero, one or two minutes, rounded or not. Two edits of a text are an upload and a
removal, or a change and its correction; the codes and documents have every handler
but links, subscripts and formulas, whose handlers treat their tag like bold. A
contestant has one or two navigations, up to four steps in the contest, and a
failure, again shared out by `Budgets`; two tasks of one and two cells meet all four
policies. The event loop may deadlock in the sense of TLC only when the process has
exited or waits for a SIGINT that need not come, so its run does not check deadlock
either; the others do.

Fairness. Timers and intervals of a page go off (`LeftAtTheEnd` needs nothing else).
The thread of a worker goes on, a server answers or its connection breaks, a request
of a page ends (in success or failure), a resumed handler comes to its end, an
`ev_async` is delivered, a lock is passed on to the collection in the end. Nothing
is assumed of users: nobody need ask for a connection, log in or send SIGINT. Strong
fairness is assumed for the steps of handlers and rollbacks in the pool, because the
pool's own loops disable them again and again, for the delivery of the stop, which
is enabled only while the loop polls, and for the collection, because logins compete
for its lock.

## 4. What the runs found

* **Ids that are given and not owned** (`id_ranges_owned`). Two concurrent
  requests of one session store their ranges in the same link; the first one is
  lost, and a page that uses its ids is refused. No id is given twice, though:
  that is proved.

* **An awaited future is cleared** (`saving_clear`). An edit that is undone while
  a navigation waits for it, followed by a failure of the request, ends the
  handler without telling the navigation; the next edit throws out of
  `onDeltaChange`, and no edit of the page is saved after that.
  `NavigationsEnd` and `UnsavedIsReported` say that this is the only way.

The rest does not contradict anything the repository says, but is worth knowing.

* **A failed rollback leaks its place in the pool.** A connection that is lost
  while `rollback_and_return` runs (pq.cc:19-22) is closed without
  `--conns_alive`; `leaked` counts these. After `conns_desired` of them every
  request waits for ever. `AliveCount` says that this is the only way to miscount.
* **An exception that reaches nobody.** A detached coroutine that throws before
  its first suspension is dropped with its exception (coro.impl.h:110).
* A participation that is over can be ended again, and `END_PARTICIPATION_REQUEST`
  then moves its end to the later time. A request that took its time before
  that, and reads the row after it, is let in although the duration was over:
  the exception of `AnswersInTime`. Ending a participation that never began
  leaves a row without a start, and it can then not be begun. Tokens that were
  given out before the end are good until their own end; `RevokedAreRechecked`
  is what revoking them adds.
* **Submissions that are never shown.** `late` submissions are skipped by every
  automatic update of the standings.
* **An update whose answer is lost is sent again.** A swap of two tasks is then made
  twice, and the times of a group may merge into a row that is refused (`unsure`).
* **A list for the wrong filter.** Two requests with the same epoch can be under
  way, and the first answer wins (`recycled`).
* **An image lost at the server.** A text saved between the insertion of an image
  and the reading of its contents is stored without it, and the page believes
  otherwise (`early`).
* **A blank line for every visit.** An aligned line that holds nothing but an
  image counts as empty (`isElementCreatingBr`, editor-transforms.ts:159-172,
  looks at its text only), so the break after it stays, contrary to the comment
  in line 178, and every visit of the rich editor adds a blank line there.
  `VisitsSettle` has it as its exception and `MaxNodes` bounds it: otherwise a
  text that is opened again and again grows without end.
* Two attachments with equal contents share a link, and `BidirectionalMap` knows
  only the later one; the model names links by their attachment.
* **Intervals that nobody stops** (`overtaken`): a page whose mount was overtaken
  goes on counting down, and the contest's redirects to the list from wherever
  the contestant is, five times a second.
* A request for an answer that fails leaves the task marked as answered, with the
  number of answers to match (`troubled`).
* A page of a contestant that could not be opened (its request is refused) stays
  `pageInstance` with `unloadable` false: it cannot be left but by loading the tab
  again.
* **Letters of two bytes.** Answers of several cells, and every right answer, get
  room for the letters and not for the bytes: what does not fit is cut, in an
  answer table of one cell too (`Plain` exempts them). With an empty right answer
  `INDEPENDENT` gives a score of 0 of 0.

## 5. Proofs

Each theorem holds for every value of the constants that satisfies the ASSUME
of its module. They follow one pattern: an inductive invariant `IInv`, the
lemmas `InitIInv` (it holds initially), `NextIInv` (every step keeps it, one
step of the proof per action) and `Invariance`, and theorems that read the
property off it.

* **ConnectionPoolProofs**: `TypeCorrect`, `NoFutureSetTwice`,
  `ConnectionsHaveOneOwner`, `ConnectionsAreCounted`,
  `TransactionsAreNotInherited`, `NobodyWaitsForAnIdleConnection`, and
  `PoolIsFifo`, the refinement `ImplementsFifo`. The checked
  properties are almost inductive together; `Control` adds what the loops of the
  pool know (while `populate_pool` runs, `left` iterations are enough to reach
  but not to pass `conns_desired`; the caller is suspended in its call; a
  handler without a connection has no transaction), and `Ownership` restates
  `SingleOwner` without set unions. `HandOverEffect` is the lemma the three
  places that hand a connection over share; `OpenCount` turns opening or
  closing one connection into plus or minus one. For the refinement, every
  served handler owns an open connection and no two own the same one, so the
  served are never more than the connections there are (`HoldersHaveUnits`), and
  when one is free to hand over they are strictly fewer (`FreeUnit`); `HandOver`
  then serves the head of the queue, and every other step takes, cancels or
  returns at most one unit, or is a stutter of `FifoResource`.
* **EventLoopProofs**: `TypeCorrect`, `AliveCoroutinesAreCounted`,
  `OneWakeUpPerSuspension`, `StoppedLoopsAreFinished`,
  `WorkIsDoneBeforeWaiting`. The checked properties are inductive together with
  `Control` (a request has a worker from its arrival on). The set of requests in
  progress changes by one element where the counter changes by one
  (`AliveChange`); `RunEffect` says what one resumption may leave behind, whatever
  the coroutine does, and is used by every action that resumes one. `StopLoop`
  needs an empty queue and a count of zero, so every request of the worker has
  ended (count) and been destroyed (nothing queued, by `OneWakeUp`).
* **SessionStoreProofs**: `TypeCorrect` (which contains the mutual exclusion of
  the writers), `SessionsSurvive`, `LogoutHolds`. The invariant describes the
  collection half-way: what it has not visited is in the root, what it has
  visited is kept, logged out or seen idle.
* **IdRangesProofs**: `TypeCorrect`, `FreshIds`. The invariant says that ranges
  are disjoint and below the sequence, and that a range's ids are given exactly
  up to `ptr`; the refinement step is then the answer of one handler.
* **ContestProofs**: `TypeCorrect`, `AnswersAreInTime`, `EndsBind`,
  `RevocationBinds`, and `PagesStayOwned` and `AnswersStayMarked` of the pages that
  talk to it. `IInv` says what every token that was given out has in common
  (`TokenOK`): its end is no later than `limit` if its version is in force, it has expired if it was made after the end, and in a virtual contest it
  has the start of the row. `RequestOK` says what each stage of a request has
  established; `RowOK` that an end is either of the contest or in the past. All
  of it survives whatever only lets the clock, the version, `latest_end` and
  `limit` grow (`Grows`, with `TokensStayRight` and `RequestsStayRight`), so a
  step has to show `Grows` and its one new request and token. `Revoke` is the
  exception that shows why the version counts: it may lower `limit`, but leaves
  no token of the new version. The last sections are about an instance of
  `ContestPages`. For `PagesStayOwned`, `TabInv` adds that a mount under way
  belongs to the current page or to one that was overtaken, and that intervals
  belong to the current page as long as nothing was overtaken. `AnswersStayMarked`
  is for kims that have a task (`SomeTasks`). Its invariant (`MarksOK`) says of every
  page that was given the answers, shown or not, that the marks and their number are
  those of the answers it has (`Tallied`), and that these are the server's or will be
  when a request of the page is served, each of which carries what the page has for
  its task (`Known`), unless the page is troubled. Most steps leave that alone
  (`Carries`); what has to be argued is a page that is served while requests are
  under way, a request that crosses another, and an answer of another page.
* **SyncControllerProofs**: `CountsStayExact`, `RemoteStaysServer`,
  `NoEditIsDropped`, `FailuresAreShown`, `NoSilentLoss`.
  A count that `Edge` maintains is exact because a call changes the cell sets it
  counts by the cells that change sides, no more; this is proved once for each
  operator of `Diffable` (`AssignedExact`, `CommitExact` and their like), by
  cardinalities. `InFlight` says what the page knows of its request: it carries
  only differences, and all of them as long as no edit was noted since. `Notes`
  says what the handler's flags are worth: `lastFields` is the number of
  differences, and a handler that is not running has none to save or shows
  "unsaved". `RemoteIsServer` holds outside `unsure`, the cells of a request
  whose answer was lost.
* **StandingsProofs**: `TableFollowsSelection`, `NoHoleBelowTag`, `TagsStaySound`,
  `TotalsStayExact`.
  A tag is sound if every visible submission up to it that is not `late` is known to
  its owner. It is inductive because a submission that becomes visible below a sound
  tag is `late` by definition (`OldIsStable`), and because a full answer contains
  everything visible (`MaxExists`, a finite set of ids has a greatest).
  `ResponsesAnswer` keeps the same for what is on its way, `PageFollows` ties the
  page's table to the selection it was asked for. A total changes by the
  differences of the cells an answer rewrites, each counted once because the
  answer holds one submission per cell (`SumInv`). The sums are folds; that they
  are defined, and grow by one summand with one task, is proved over the smallest
  set without the property, so the set of tasks has to be finite.
* **KimDeskProofs**: `PagesStaySound`, `SavedStaysShown`, `SavesStayAccepted`,
  `ShownStaysLastFilter`, `SelectionStaysShown`. The inductive invariant `EditingInv` has three parts.
  *The list*: rows, components and places agree (`ListOK`), and the components
  are the tasks of the local copy that are not removed, in the order of their
  positions (`LocalOK`); proved for the list operators one at a time, the way the
  document is changed included (`SwapKeepsList`, `PopKeepsList`).
  *The positions*: what the page believes the server to have, what it will have
  after the update in flight (`Carried`) and what the page shows each use only
  positions of the one before (`Within`): an edit permutes or drops positions and
  never makes one. So an update introduces no position (`UpdateOfPage`), and if
  the kim orders the tasks as the page believes (`Agree`), renaming the positions
  keeps them unique and leads to the order that was sent (`UpdateIsUnique`).
  *The group*: `Absent`, then `Present` with sane times, then `Removed`, never back
  (`Leads`); `born` remembers whether the group was there when the page was
  opened, since the times 0 of one that was not are not sent. Merging what
  differs into a row that is what the page believes gives the sane row that was
  sent (`GroupUpdate`). `Follows` is required only of pages outside `disturbed`
  and `unsure`; typing and the lists are required of all. That `Order` returns a
  sequence for every finite set of tasks is proved from the well-foundedness of
  the numbers (`OrderExists`). For the table of tasks the invariant says that no
  rows are shown while an answer is awaited, and that the request with the
  table's epoch is the one for the last filter (`TableInv`). For the selection it
  adds that the sets and the list have no repetitions, the list is consistent, and
  there are no elements without rows (`Tidy`), so that an answer that counts always
  meets empty sets (`AnswerShows`). The two loops, over the rows that are popped
  and over the tasks that are deleted, are recursive functions in the model; that
  they exist is `LoopExists`, and what they compute follows turn by turn from
  `StepByStep` (`PoppedRows`, `DeletedElements`). `DeskAssumption` says that the
  filters are for tasks.

Only model-checked: every liveness property, which needs fairness; the text
editor, whose operators are recursive; and of `ContestPages` `GradedAsDeserved`
and what `AnswersAreStored` says beyond `AnswersAreMarked`, that the cells of an
answer come back from its bytes: both are about folds over sequences of any
length, which need induction.

## 6. What is left

1. `SyncController`: closing the tab, and an abstract "what was edited is saved
   or reported" that it implements; `KimEditing` has its own, shorter copy of
   the loop, which could be an instance of it.
2. `Contest`: exams that hide other kims, deleted kims. Its tokens could be
   composed with `ContestPages`, which leaves them out.
3. `AsyncMutex` as a `FifoResource` with one unit, and the transfer states of
   the HTTP client; no route uses either.
4. Filter and encodings as operators against reference definitions.
5. Proofs: the cells of `AnswersAreStored`, with lemmas about the folds that encode
   and decode an answer.

## 7. Not modelled

Input and output of sockets and files, SQL beyond its effect on the modelled
state, the tokenizer and the virtual machine of the filter, cryptography
(signatures are unforgeable, random ids never collide), user and group
administration, import and export of kims, rejudging, layout of the pages,
generated code and build tools. Each is listed with its reason in `PROJECT.json`.
