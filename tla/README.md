# BGERP in TLA+: processes and their links, locks, caches, the shell

BGERP is a CRM: a Java web application on Tomcat over MySQL, with a user
interface in JavaScript. Its centre is the *process* (a request, an order, a
task): a row with a type, a status, groups and executors, linked to other
processes. These modules model what the code does where requests, threads and
callbacks overlap: the card of a process, the links between processes, the lock
of a message that is edited with the sender of mail that asks for it, the caches
of the server, and the shell of the user interface that opens tools and objects
one after another. TLC checks them on small instances, and TLAPS proves the most
important results for every value of the constants.

Paths below are relative to `src/src/ru/bgcrm/` unless they begin with `src/`.

## 1. Inventory

### Components

| component | state | operations | what must be true | modelled |
|---|---|---|---|---|
| Process card: `struts/action/ProcessAction`, `ProcessCommandExecutor`, `dao/process/ProcessDAO`, `StatusChangeDAO` | tables `process`, `process_group`, `process_executor`, `process_status` | create (also as a wizard's temporary process), finish, change status, type, priority, description, groups, executors, delete | columns repeat the link tables; history and status agree; executors go with their groups; close time follows the status; deleted stays deleted | `ProcessCard` |
| Process links: `struts/action/LinkAction`, `ProcessLinkAction`, `dao/process/ProcessLinkDAO`, `dao/CommonLinkDAO`, `event/listener/ProcessClosingListener`, `src/src/ru/bgerp/plugin/blow/action/BoardAction` | table `process_link`, close time of the processes | add, remove, move on the board, create as a link, search for cycles, close | no cycle of a controlled type; a process closes after those it waits for; links go with a deleted process; the search ends | `ProcessLinks` |
| Shell of the user interface: `src/webapps/js/kernel.shell.js`, `kernel.ajax.js` | the queue of `contentLoad`, windows and titles, the task panel, the buffer, the global `$$.closeObject` | open a tool or an object, click and close buttons, titles and buffered objects, load a page and its parts | items open one after another; an object that is left can be found again; a title acts on its own object; open editors survive | `Shell` |
| Edit locks: `dao/Locker`, `model/Lock`, `struts/action/LockAction`, the polls of `src/webapps/js/kernel.js` | two maps in memory, locks by id and by user, with a time | add, free, check, prolong by a poll | one editor at a time; a lock outlives no editor for long | `EditLock` |
| Mail: `src/src/org/bgerp/plugin/msg/email/MessageTypeEmail`, `MessageAction`, `MessageDAO` | table `message` | edit, send, read a box | mail is not sent while it is edited, and is sent in the end | the sender's loop, in `EditLock` |
| Caches: `cache/CacheHolder`, `ProcessTypeCache`, `ProcessQueueCache`, `util/sql/ConnectionPool` | one object and one date per cache, a pool of connections | read, fill, flush after a commit | no reader sees a value older than the last flush for good; nobody waits for ever | `Caches` |
| News of users, temporary objects: `cache/UserNewsCache`, `event/listener/TemporaryObjectOpenListener` | a map by user, a set of users | count, flush; add, load | as the caches | no, see section 2 |
| Scheduler: `Scheduler`, `plugin/task/TaskRunner` | map of running tasks, a flag | start, end, skip | no task runs twice at once; a task that failed runs again | no, see section 2 |
| Request transaction: `struts/action/BaseAction`, `util/sql/ConnectionSet` | connection of the request | commit after the handler, nothing on an exception | all or nothing | as atomic actions |
| Events and dynamic classes: `event/EventProcessor`, `dynamic/` | listeners by event class | subscribe, notify with a timeout | a listener may refuse a request | as action `Fail` |
| Queues, parameters, permissions, configuration, interface, plugins | SQL and text | mostly reads | | no, see section 7 |

### How they interact

A request reaches a handler of an `Action` class through `BaseAction.execute`,
with a connection whose transaction begins at its first query. The handler
reads the process (`getProcess`), sends a "changing" event, writes through the
DAO, sends a "changed" event. A listener of either event, a check or a
permission stops it with an exception; then nothing is committed.
`ProcessClosingListener` is such a listener: it connects the card to the links.
`BaseAction` commits, then frees an edit lock named in the form. Handlers that
change a cached table flush its cache; whoever reads a cache fills it when it is
empty or of an earlier day, with a connection of its own. The mail sender and
the scheduler run on threads of their own and share only the database and the
static maps. In the browser all goes through `contentLoad`, which opens an item
when the load of the one before it is over; every tab polls the server, which
prolongs the locks of its user and names them in the reply.

### What is hard

* The transaction isolation is InnoDB's REPEATABLE READ: a handler decides on a
  snapshot and writes over rows as they are by then. Nothing locks a process
  between reading and writing it. Every read-check-write of the card is exposed
  (lost updates), and so is every check over several rows (write skew).
* `updateProcess` writes all scalar columns whatever the handler changed, and
  turns into an INSERT when the isolation of the user hides the process.
* Groups and executors are stored twice.
* A temporary process lives under a negated id, and finishing it moves some
  tables and not others.
* `checkCycles` is a breadth-first search, one query per generation, over a
  table to which overlapping requests add.
* `Locker` keeps two maps that nothing keeps together, and frees a lock only by
  the reply to a poll or by time.
* `CacheHolder` fills in a monitor and flushes in none.
* In the shell what comes next hangs on one Deferred, and where the current
  object goes on a function in a global variable.

`PROJECT.json` lists these hazards, each at its line, with the properties that
would catch it.

## 2. Plan

1. `ProcessCard`, `ProcessLinks` and their proofs: done, sections 3 to 6.
2. `AtomicCard` and `ProcessGraph`, what the card and the links promise, and the
   proofs that `ProcessCard` and `ProcessLinks` implement them: done.
3. `EditLock` with the polls of the browser and the sender of mail, `Lease` that
   it implements, `Caches` with the pool of connections, and their proofs: done.
4. `Shell` and the proofs of its safety properties, those of the buffer by
   induction over its sequence: done.
5. Left: `Scheduler` with the liveness of a task that failed;
   the loader of temporary objects and the news of users, which add a map by
   user to the shape of `Caches`; of the shell, wizards and pinned tools.

## 3. The modules

| module | what it is |
|---|---|
| `ProcessCard` | the card: one action per handler, `Spec` and `SerialSpec` |
| `ProcessLinks` | the links, the search for cycles, closing: `Spec`, `FairSpec` and `SerialSpec` |
| `AtomicCard` | what the card promises: one copy of each fact, changed in one step by each request |
| `ProcessGraph` | what the links promise: a graph without cycles, changed in one step |
| `EditLock` | the lock of a message, the tabs that poll, the sender of mail: `Spec` and `CareSpec` |
| `Lease` | what the lock promises: an owner who is not replaced while he edits |
| `Caches` | two caches, one filled from the other, and the pool of connections |
| `Shell` | the shell in the browser and the load it waits for |
| `MCProcessCard`, `MCProcessLinks`, `MCEditLock`, `MCCaches`, `MCShell` | values of their constants for TLC |
| `ProcessCardProofs`, `ProcessCardSerialProofs`, `ProcessLinksProofs`, `EditLockProofs`, `CachesProofs`, `ShellProofs`, `ShellBufferProofs` | theorems about them |

The modules of one side of the system meet in these places: `ProcessLinks`
contains what the listener makes of closing a card and refines `ProcessGraph`;
`ProcessCard` refines `AtomicCard`; `EditLock` composes browsers, `Locker` and
the sender and refines `Lease`; `Caches` composes two
caches with the pool. The card does not depend on the others for what is said
of it, so it is not multiplied with them.

### ProcessCard

| variable | code |
|---|---|
| `process` | table `process`; text columns `groups` and `executors` as sets; `closed` is `close_dt IS NOT NULL` |
| `groupRows`, `executorRows` | tables `process_group`, `process_executor` |
| `history` | table `process_status` in order of `dt`, with the flag `last` |
| `nextId` | AUTO_INCREMENT (it survives restarts on MySQL 8, `src/srcx/doc/kernel/install.adoc:72`) |
| `req` | per user, the `Process` object his handler holds between reading and committing |

A request is two steps. `Open` is `getProcess` and fixes the snapshot; the
second step is the rest of the handler with all the writes it makes, up to the
commit. That the writes and the commit are one step is what row locks give:
the first write takes the row (or, on the link tables, the gap) and holds it to
the commit, so the writes of two requests about one process do not interleave;
what does interleave is one request's writes with another's reading, and this
is modelled. `Fail` is every exception. Two auxiliary fields have no column:
`statusType` (the type when the status was set) and `copied` (a row inserted by
`updateProcess` for a user who did not see the process); no action reads them.

| action | code |
|---|---|
| `Create` | `processCreate`, `doCreateWizard` |
| `FinishCreate` | `processFinishCreateTmp`, `processIdInvert` |
| `StatusUpdate` | `processStatusUpdate`, command `setStatus`, `changeStatus` |
| `RowUpdate` | updates of priority and description |
| `TypeUpdate` | `processTypeUpdate` |
| `PriorityCommand` | commands `increasePriority`, `decreasePriority` |
| `GroupsUpdate`, `GroupsCommand` | `processGroupsUpdate`, commands `addGroups`, `addGroupsInRole`, `clearGroups` |
| `ExecutorsUpdate`, `ExecutorsCommand` | `processExecutorsUpdate`, the commands on executors |
| `Delete` | `processDelete`, `processDeleteTmp`, the end of `processMerge` |

`SerialSpec` allows a request to begin only when no other is in progress: what
the handlers guarantee of themselves, before concurrency.

`ImplementsCard` maps the tables to `AtomicCard`: the card of a process is its
row, under the one sign of its id or the other; it is finished when the row is
under the positive one; the numbers given out are those below `nextId`. Requests,
their copies, the link tables and the history disappear. `AtomicCard` has an
action for each thing that may become of a card. `Copy` is among them: the code
does it, and no document forbids it.

### ProcessLinks

`links` is the committed table, `state` what of the table `process` matters
here (`new` before it is created, then `open`, `closed`, `deleted`), `tx` the
open transactions. A transaction that adds a link carries its view (the
snapshot and its own INSERT and DELETE) and the two maps of `checkCycles`;
`Visit` is one turn of its loop, `Refuse` and `Commit` its two results. A
transaction that closes a process carries the result of
`ProcessClosingListener`, which is computed on the snapshot. Creation, deletion
and removal decide nothing on what they read and are one step.

| action | code |
|---|---|
| `AddLink`, `Move` (through `Begin`) | `LinkAction.addLink`, `BoardAction.move` |
| `Visit`, `Refuse`, `Commit` | `checkCycles`, `getLinkProcessIds` |
| `CreateLinked` | `linkProcessCreate` |
| `OpenToClose`, `Close`, `Reopen` | `processStatusUpdate` with `ProcessClosingListener` |
| `RemoveSome` | `deleteLink`, `deleteLinksTo`, `deleteLinksWithType` |
| `Create`, `Delete` | `processCreate`, `deleteProcess` |

`Up` and `Down` are the link types by the direction that
`process.close.check.<type>` or its default gives them.

`ImplementsGraph` maps `ProcessLinks` to `ProcessGraph`: `links` and `state` are
the same, the transactions vanish. `Begin`, `Visit`, `Refuse` and `OpenToClose`
are stutters; `Commit` is `Add`, and that it may be is what the search is for.

### EditLock

| variable | code |
|---|---|
| `lock.stored` | the `Lock` in `locksById`, with the time it has left |
| `lock.sets` | per user, whether the set in `locksByUser` holds that `Lock`, an equal one, or none |
| `tab` | a page of a user: its editor, the request `addLock` it waits for, the reply of a poll on its way, the time since the last poll |
| `unsent`, `sender` | the message has no `to_dt`; the loop of the sender |

| action | code |
|---|---|
| `Open`, `Poll` | `shell.jsp`, the timer of `kernel.js`, the listener of `GetPoolTasksEvent` in `Locker` |
| `Reply` | `processClientEvents` with a `LockEvent` |
| `Ask`, `Take` | `addLock`, in two steps: what it decides on and what it writes |
| `Edit`, `EndEdit`, `Leave` | the editor is loaded and closed; the page is closed |
| `Tick` | time |
| `List`, `Skip`, `Send`, `Mark` | `sendMessages` with `checkLock` |

`FreeLock` frees the lock whoever asks. A poll prolongs what is in the set of
the user, and others look at what is in `locksById`: the value `"other"` of
`sets` is the case where these are two objects.

A user has as many pages as the set `Tab` gives him. `CareSpec` states the
conditions under which the lock does what it is for; the code enforces none of
them, and without any one of them `EditorHoldsLock` or `PollsProlong` fails in a
way the code allows:

* between the two accesses of an `addLock` to the maps no other `addLock` begins,
  and no poll prolongs the Lock that was found expired (nothing in `Locker` is
  synchronized). Anything else may come between them: the reply to a poll that
  frees the lock, the sender that frees it, polls of others, time, a page that
  is opened or closed;
* a user has one page open while he has the lock (another page has no editor for
  the lock it is named, and frees it). Pages that are open while he has no lock,
  and the pages of others, do no harm;
* the editor is loaded before a reply to a poll comes (or that reply frees the
  lock at once);
* the page of the user who has the lock polls in time: a lock lives 20 seconds and
  a poll comes 5 seconds after the reply to the one before, unless
  `pooling.enable` switches polls off.

They hold in ordinary use, by timing and by habit. `OwnerProlongs` needs none of
them, and is proved of `Spec`.

`ImplementsLease` maps the lock and the tabs to `Lease`: the owner is the user of
the stored Lock while it has time left, and the users who edit are those with an
editor. `Obtain` is an `addLock` that finds the message free, or a poll that
prolongs a Lock which has expired but is still stored; `Lapse` is a free or the
end of the time; what else tabs, polls and the sender do is a stutter.

### Caches

| variable | code |
|---|---|
| `cache`, `day` | `cache` and `lastAccess` of a `CacheHolder` |
| `phase`, `topic` | per request thread: asking a cache, or how far it is with changing and flushing one |
| `place`, `image` | where in `getInstance` the thread is, and what `newInstance` has read |
| `crossed` | auxiliary, read by no action: a flush came during the fill |

| action | code |
|---|---|
| `Ask`, `Change`, `Fail` | a request begins, or is rolled back |
| `Commit`, `Drop`, `Forget` | `flush`: the commit and its two assignments, in no monitor |
| `Enter`, `CheckDay` | `getInstance`, `synchronized` |
| `Borrow`, `Read`, `ReadFails` | `newInstance` with its connection |
| `Store`, `Stamp`, `Return` | the assignments, and the field read again after the monitor |

The queues ask the types while they are filled (`ProcessQueueCache:84` and the
lines after it), in the monitor of both and with two connections beside the one
of the request.

### Shell

| variable | code |
|---|---|
| `queue` | calls of `contentLoad` that wait for the Deferred of the one before |
| `loading` | the load behind that Deferred: its page, then its parts; `dead` when nothing will resolve it |
| `page.windows`, `page.shown` | divs of `#content` and `#title`, and the visible one |
| `page.editing` | windows with a visible `.editorStopReload` |
| `page.bound` | titles and the object their cross and click act on |
| `page.buffer`, `page.current` | `#objectBuffer`; the object that `$$.closeObject` would put there |
| `panel` | the buttons of the task panel |
| `order` | `iface.buffer.behavior` |

| action | code |
|---|---|
| `Ask`, `Start...` | `contentLoad` and, when its turn comes, `contentLoadAsync` |
| `Html`, `Part`, `Fail` | the replies to the requests of `$$.ajax.load`; `Finish` is what follows the last |
| `ClickButton`, `CloseTool` | button and cross of a tool |
| `CloseShown`, `CloseBuffered`, `Refresh` | cross of the title, cross in the buffer, click on the title |
| `Edit`, `EndEdit` | an editor in the object that is shown |

## 4. The runs

| run | specification, bounds | result |
|---|---|---|
| `card_sessions` | `Spec`; 2 users (one isolated by group, one by executor), 2 types (one with a wizard and restricted groups, one with a closing status and a limit), 2 statuses, 1 group-role, 1 process, 3 history rows | holds, 1,069,000 states |
| `card_serial` | `SerialSpec`; 1 user, 2 group-roles, 2 processes, 3 history rows; with the refinement of `AtomicCard` | holds, 338,000 states |
| `card_limit` | `SerialSpec`; as `card_sessions` with 2 processes | `ExecutorsWithinLimit` fails |
| `card_lost_update` | `Spec`; as `card_sessions` | `StatusMovesEnabled` fails |
| `links_serial` | `SerialSpec`; 3 processes, 3 link types, 3 links, symmetry of the processes; with the refinement of `ProcessGraph` | holds, 65,500 states |
| `links_sessions` | `FairSpec`; 2 processes, 2 sessions, 1 link type, 3 links | holds, 30,500 states |
| `links_refusal` | `SerialSpec`; 3 processes, 1 link type | `RefusesOnlyCycles` fails |
| `edit_lock` | `CareSpec`; 3 users, one of them with two pages, a life of 2 units, polls within 1; with the refinement of `Lease` | holds, 59,300 states |
| `mail_lock` | `Spec`; 2 users with a page each, a life of 3, polls within 2 | `MailWaitsForEditor` fails |
| `caches` | `Spec`; 2 requests, 4 connections | holds, 167,000 states |
| `shell` | `Spec`; 3 tools (one forbidden), 2 processes and a customer, a buffer for none, 1 call that waits, 1 part, 1 editor | holds, 522,000 states |
| `shell_buffer` | `Spec`; 1 tool, 2 processes and a customer, a buffer for one | `BufferWithinLimit` fails |

**What holds however requests overlap** (`card_sessions`, `links_sessions`).
`LastMarksNewest`: the flag `last` is right, because the UPDATE and the INSERT
of `changeStatus` work on current rows. `CloseMatchesStatus`: a lost update
takes status and close time together. `ColumnsWithinRows`: the card never shows
a group or executor that the queues do not find; the converse fails, because a
change made after the deletion of a process leaves rows. `OneSign`,
`DeletedStaysDeleted`: neither two finishes nor a stale copy double a process or
bring it back. `CommitsNoCycle`: `checkCycles` misses no cycle of its own view.
`CheckEnds`: it ends, also over a cycle that two overlapping requests committed.

**What holds when requests do not overlap** (`card_serial`, `links_serial`) and
fails when they do: `ColumnsMatchTables`, `NoOrphanRows`, `StatusIsNewest`,
`StatusMovesEnabled`, `LinksAcyclic`, `ClosesLast`, and the refinements `ImplementsCard` and `ImplementsGraph`. That
each needs the restriction is what the snapshot isolation means here: two requests
each add half of a cycle, a process is reopened while the one that waits for it
closes, groups are removed while an executor is added. `card_lost_update` records
the one that contradicts what the system tells its users.

**What holds of the lock** (`edit_lock`), under `CareSpec`: `EditorHoldsLock`,
whoever edits has a lock that has not expired, so there is one editor at a time;
`PollsProlong`, the two maps agree; `ImplementsLease`, the ownership passes to
nobody else directly and does not lapse while the owner edits; `OwnerProlongs`,
a lock gains time only by an open page of its owner, so that nobody else keeps the
lock of a user who has left; `AbandonedLockEnds`, a lock nobody edits under is freed or expires, though nothing
frees it when the editor is closed; `MailGoesOut`, the message is sent when nobody
edits it any more, though an expired lock makes the sender skip it once.

**What holds of the caches** (`caches`). `OldOnlyIfCrossed`: the commit before
`cache = null` leaves old data in a cache only if a flush came during a fill.
`FillersGoOn`: with two connections more than requests nobody waits for one in a
monitor. `NeverAllWait`: nor do requests wait for each other, in whatever monitors
they are, because the two monitors are entered in one order. `StaleEnds`: a cache
that is stale, or broken because reading failed once, is filled anew the next day.
Deadlock is checked.

**What holds of the shell** (`shell`). `NothingLost`: an object with a window is
the current one or has a visible line in the buffer. `BufferOfHidden`: once, and
not while it is shown. `OwnTitle`: the cross and the refresh of a title are
those of its own object, because objects open one after another. `EditorsKept`:
opening and switching take away only the editors of objects that fall out of
the buffer. `BufferBounded`: the buffer does not grow for ever, though it exceeds
the limit that is set, which `shell_buffer` shows. `Served`: what waits is opened,
unless a load is dead.

**What is violated, and by what.**

* `ExecutorsWithinLimit`: `processExecutorsUpdate` checks `maxCount` on the
  executors before the update, so a second executor is added where one is
  allowed (and a later reduction is refused).
* `StatusMovesEnabled` under `Spec`: a description saved over a status that
  another request has changed since.
* `RefusesOnlyCycles`: with p1-p2 and p2-p3, the link p1-p3 is refused as a
  cycle, because the search takes meeting a process again for a cycle.
* `BufferWithinLimit`: the profile of the user calls `iface.buffer.maxObjects` the
  greatest number of objects in the buffer (`src/webapps/WEB-INF/jspf/user/profile/default.jsp:66`).
  The buffer is cut before the object that is left is added, and `li:gt(n)` keeps
  n + 1, so it holds up to three more than that (two with behaviour 2). In the run
  it holds two objects where one is allowed.
* `MailWaitsForEditor`: the sender logs "Skipping message on lock" for locks
  that have expired; a message that is locked is sent.

**What contradicts a document and has no run.**

* `src/srcx/doc/kernel/process/index.adoc:409` says that links of the type
  `processLink` ("Ссылается") are not allowed to form cycles.
  `CYCLES_CONTROL_LINK_TYPES` (`ProcessLinkDAO.java:38`) does not have that type,
  so the code never looks: the link of a process to itself is committed. In
  `links_serial` the type is outside `Controlled`, and its cycles do arise.
* The profile calls behaviour 2 of the buffer "Сохранять порядок объектов", to
  keep the order of objects (`default.jsp:59`). A process card without an editor
  is loaded anew when it is opened again, and its line goes to the end
  of the buffer: it loses its place. `Reloaded` and `Removed` of `Shell` have this.

**What the models show besides**, which no document denies:

* A fill that a flush crosses is kept, old, until the next flush or day. A
  `Store` between the two assignments of `flush` leaves a cache without a date,
  and `isSameDay(null)` throws for everybody until the next flush. The field
  that `getInstance` returns is read outside the monitor and may be null. An
  instance that could not be read is kept, empty or in part, until the next day.
  Queues are not flushed when their types change.
* With fewer connections requests may take all of them and wait for the monitor
  of a cache whose filler waits for a connection, without a limit of time.
* In the shell nothing opens any more until the page is reloaded after a load
  whose request failed, whose window was removed before it came, or of a tool
  that is not allowed: no one resolves its Deferred. A click on a tool while an
  object loads gives the object's handlers to the tool's title, and the title of
  the object has none. With behaviour 2 the cut may remove the window that is
  being opened.
* `processFinishCreateTmp` sent again for a finished process makes it temporary
  (`AtomicCard` has this step: `Finish` may go back). The form of executors may
  store executors in group-roles it does not name, and in some the process does
  not have. A link may lead to a process that was deleted, by a page older than
  the deletion.
* Two calls of `addLock` that overlap both get the message; a second page of a
  user frees the lock under the editor of the first.

**Why the bounds are enough.** A lost update, a duplicate `last`, a doubled
process need two requests about one process: two users, one process. The handlers
do not compare processes with each other, so a second process matters only for
what `updateProcess` inserts and for ids (`card_serial`). Two group-roles are the
least with which groups are removed in part and executors are updated in one
group-role and kept in another. Two statuses and two types separate every branch
of `changeStatus`. Three history rows in the table are a process whose status
returns to what it was (`card_sessions`), or two processes of which one changes
it; what a wizard leaves is kept under two ids. In `card_serial` tasks are done
once and orders keep their status, but an order may become a task, so that a
status changes also under a negated id. The executors
that requests name are one user there and in `card_sessions`; `card_limit` has
two, which its limit needs. Three
processes are the least with a cycle that is not found in the first turn of the
search and with a shortcut; three links close it. Two sessions commit a cycle
between two processes, over which the search of a third transaction must then end.

Three users are an owner, one who takes over and one whose late free could hit
the third; the second page of one is open before he gets the lock or after he
lost it. A life of 2 and polls within 1 are the least where a lock outlives
one poll and not two missed ones; with a life of 3 and polls within 2 the safety
properties hold too (258,000 states), and with two users of two pages each all do
(106,000 states). Two requests are one that fills and one that
flushes or waits; 4 connections are two for the requests and two for the nested
fill, the case `Active >= requests + 2` which the defaults give (`maxActive` 300
against 25 threads of the connector, `Server.java:147`). A buffer for none
overflows at the second object it gets, so three objects show every cut; two
processes and a customer separate what is reloaded from what is kept; two
allowed tools are the least with "the last of the others".

`CHECK_DEADLOCK FALSE` stands in the configurations of the card and the links
because the bounds on ids, history and links make a model stop where the system
would go on, and in that of the shell because a dead load with a full queue
leaves a user nothing to do. The lock and the caches are checked for deadlock.

**Fairness.** `FairSpec` assumes weak fairness of the steps of one transaction
that searches (`Visit`, `Refuse` or `Commit`), for each session: they are
consecutive statements of the thread that serves the request, which nothing
blocks. Requests themselves are never assumed to come.
`CareSpec` assumes that time passes, that a page polls, that the sender, a call
of `Locker` and the load of an editor go on (all weak), and strongly that the
reply to a poll comes: a user could close every page before its first reply and
open another, but not for ever. `Caches` assumes that a thread in a flush or in
a fill goes on, that a free monitor is entered by someone who waits (Java
promises no order among them, so it is per cache and not per request), that days
pass, and strongly that each cache is asked again and again. `Shell` assumes
that a callback which can run runs (`TakesNext` is what all starts of an item have
in common) and that a request is answered, if it does not fail; failing is not excluded, so `Served` has the dead load as a way out.

**Mutants.** Each property of a passing run has a mutated definition beside the
original that breaks it; their names say what they get wrong
(`StatusSetNeverReopens`, `BeginBeforeInsert`, `ReadEachOther`, ...). They are
used by no action.

## 5. What is proved

The proofs hold for all values of the constants that satisfy the named
assumptions: the constant functions have their types (`TypesAssumption`,
`UsersAssumption`), the bounds are natural numbers (`BoundsAssumption`,
`LinksAssumption`, `EditLockAssumption`, `CachesAssumption`, `ShellAssumption`)
and the null values are no other values (`NullAssumption`, `IdleAssumption`,
`NoneAssumption`). Sets of users, processes, sessions, types, tools and objects
may be infinite; the threads of `Caches` are finitely many.

`ProcessCardProofs`, about `Spec`:

* `TypeCorrect`: `[]TypeOK`.
* `LastIsNewest`: `[]LastMarksNewest`. Inductive as it is; a lemma about
  `HistoryAdded` carries it.
* `ClosedTruly`: `[]CloseMatchesStatus`. Not inductive: a request writes the row
  it holds. The invariant adds that the held rows are closed truly too.
* `NeverTwoSigns`: `[]OneSign`. The invariant adds that no row of either sign
  exists for an id not yet given out; without it `Create` could double one.
* `DeletedForGood`: `DeletedStaysDeleted`, from the same invariant.
* `ColumnsCovered`: `[]ColumnsWithinRows`. Inductive as it is: no handler writes
  a column without its table, and `updateProcess` writes neither.

`ProcessLinksProofs`:

* `TypeCorrect`: `Spec => []TypeOK`.
* `CommitsWithoutCycle`: `Spec => CommitsNoCycle`. The invariant is that of the
  search: of each type, what was visited and is not in front has all its links
  inside what was visited, and has no cycle; so when the front is empty
  the visited processes are closed under links and acyclic.
* `NeverCyclic`: `SerialSpec => []LinksAcyclic`. Adds that the view of a running
  search is the table with the one change; a new cycle would pass through the
  new link and be reachable from where the search began.
* `ClosedInOrder`: `SerialSpec => ClosesLast`.
* `LinksImplementGraph`: `SerialSpec => ImplementsGraph`. Step refinement: the
  invariant of the search gives that a commit leaves no cycle, that of the view
  that the graph it is about is the committed one. The invariant adds that no
  link names a process that was not yet created, or the first link of a new
  process could close a cycle; links to deleted processes it admits.

`ProcessCardSerialProofs`, about `SerialSpec` of the card: `ColumnsRepeatTables`,
`NothingOrphaned`, `HistoryAgrees`, `MovesAreEnabled`.
One invariant for all: the copy a request holds is the row as it is and no other
request holds one (`Fresh`); each row agrees with its link rows, and an id
without a row has none (`Sound`); the newest status of either sign is that of
the row. With `Fresh` what a handler computes from its copy is computed from the
row. `CardImplementsAtomic` is the step refinement that follows: a lemma says what
one written row makes of the cards (`CardWritten`, which needs `OneSign` to know
that the other sign has no row), and each handler is shown to write one row, or
none, that `AtomicCard` allows.

`EditLockProofs`: of `Spec`, without any condition, `TypeCorrect` and
`OnlyOwnersProlong` (`OwnerProlongs`): the Lock in the set of a user is the stored
one only if he owns it (`SetsKnow`), so a poll prolongs the lock of nobody else.
Of `CareSpec`, for any number of pages of each user, `EditorsAreLocked`,
`PollsProlongTheLock` and `LockImplementsLease`: their hypotheses are the four
conditions of section 3, as `CareSpec` states them, and the code does not enforce
these. The invariant `CareInv` says how they hang together: only the owner edits,
the set of the owner holds the stored lock, the time it has left and the time
since the owner's page polled are together at least its life, and one page at
most is between the two accesses of `addLock`, with the stored Lock still the
expired one it saw, or none. The refinement of `Lease` needs in addition only
that the lock is held after a unit of time if there is an editor, which is
`EditorsAreLocked` in the next state.

`CachesProofs`: `TypeCorrect`; `FillsGoOn`, assuming a pool with two connections
more than requests: at most one thread is inside each monitor, so at most one
reads for each cache, and the one who is about to has not counted yet;
`OldIsCrossed`: what has been read and grew old, or is kept so, was crossed by a
flush, or the request that changed it has committed and is about to flush;
`NoDeadlock`: `[]NeverAllWait`, from how a call nests. A thread that has begun is
inside a monitor, waits for one or has left both; who is in the inner one can go
on, as there is a connection for it, who is in the outer one can enter the inner
one if nobody else is in it, and if both are empty whoever waits can enter.

`ShellProofs`: `TitlesApart`, `Spec => []OwnTitle`. The invariant adds that an
object which loads is the one shown, unless a tool or nothing is; what a load
finds visible when it ends is then its own window or a tool. It needs no bound
on queue, parts or editors.

`ShellBufferProofs`: `TypeCorrect`, `ObjectsStay` (`[]NothingLost`),
`BufferHoldsHidden` (`[]BufferOfHidden`), `BufferHasLimit` (`[]BufferBounded`) and
`EditorsStay` (`EditorsKept`). None of the four is inductive. `BufferInv` says
that a window that is shown exists, that a shown object is the current one and
that the buffer has one line for an object (`Standing`); that every object with a
window is the current one or has a line to be seen (`Found`); and, with the
default order, that the lines are of windows that exist and are not of the current
object (`LisHidden`), that the current object is shown (`CurrentShown`), and that
the buffer holds one line less than its limit while an object is current
(`Bounded`): its line is still to come. The buffer is a sequence that is filtered,
so the proofs need what a filter keeps and in which order. They get it by the
least-number principle of the library, applied to sets of places in a sequence:
`Places` are the places of the lines that are kept, and `KeptLemma` embeds what is
kept into what was there.

## 6. What is only model-checked

`CheckEnds`, `AbandonedLockEnds`, `MailGoesOut`, `StaleEnds` and `Served` stay
with TLC: liveness under fairness is beyond the prover. Every other property of
the runs that pass is a theorem. The violations are counterexamples and need no
proof. The three refinements are of safety only: neither `AtomicCard` nor
`ProcessGraph` nor `Lease` promises that a request is served.

## 7. Abstractions and what is not modelled

* Command lists hold one command. A list of several runs them on one `Process`
  object in one transaction.
* Executors of group 0 (old data, from before group-roles) do not exist in the
  model; group-roles with an id of zero or less are not modelled.
* A request stores executors in any group-role, as the handler does; those the
  form names must be of the process, as the handler checks. The users it names are
  the bound `Named`.
* Neither `move` nor, for the linked process, `addLink` looks whether a process
  exists; the model links any that were ever created (`Given`), deleted ones as
  well. A number that was not given out yet is not sent: nobody could know it, and
  over such a link `linkProcessCreate`, which does not search, could close a cycle.
* The isolation by executor for some types only and the end date of a group
  membership are left out: they narrow `Sees`, which the properties take as
  given. Permission checks of the form `allowOnly...` are a cause of `Fail`.
* The time of a status change is its place in the history; two changes in one
  second are not told apart by `dt` in the code.
* Widths: the text columns `groups` and `executors` are `char(100)`; the model
  keeps sets.
* Event listeners are configured code. They may refuse a request (`Fail`); what
  else they may do is not known.
* `EditLock`: one message. The Lock objects of different messages are independent
  but for the set of a user, from which a poll takes them one by one. SMTP and
  IMAP are not modelled, nor a crash between sending and marking.
* `Caches`: data are new, old or broken, nothing else. A request does one thing,
  asks one cache or changes the data of one. Changes are visible from the commit
  on. The other caches with a `CacheHolder` have the shape of the types. Slave
  pools, the time between tests of the master and the map of `UserNewsCache`
  are left out.
* `Shell`: wizards (their cross only alerts), pinned tools, opening a tool again
  with another url, urls that nothing matches (an empty step), the contents of
  the history (a state of it is an `Ask`), and scrolling are left out. What is
  called when a load is done runs with its last reply. Two defects stand outside:
  `iface.buffer.openOnLongPress` is compared with the number 1 as a setting
  (`src/webapps/js/kernel.shell.js:415`), and the handler of `ProcessCloseEvent`
  calls a global `removeCommandDiv` that is not there
  (`src/webapps/js/kernel.process.js:915`).
* The libraries under `src/webapps/lib` (echarts, jQuery and its widgets,
  CodeMirror, inputmask, timepicker) are third-party code kept with the source,
  most of its JavaScript by far, and are not modelled. The other scripts of the
  interface (`kernel.process.js`, `kernel.ui.js` and the plugins) draw and send
  single requests.
* Parameters, queues, the change log, interface state, users and permissions,
  configuration, dispatch, fulltext and the other plugins are not modelled: they
  are reads, text or I/O, or hold no invariant between several pieces of state.
