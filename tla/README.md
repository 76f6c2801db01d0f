# Verification of Crystal's browser tools, its debugger and its concurrent core

This directory is a TLA+ development beside the sources in `src/`. It covers the
parts of the repository whose correctness depends on the order in which several
actors take their steps. Those are, first, the JavaScript programs of the
repository: the page of `crystal play` with the server session behind it, the
search box of the generated API docs, and the VS Code extension that starts debug
sessions. Second, the parts of Crystal's own runtime that they or any program
stand on: the debug server (Debug Adapter Protocol) that this fork adds to the
interpreter, the fiber mutex, the channels with `select`, and the multi-threaded
fiber scheduler. The rest, by far the larger part, is a compiler and a library:
sequential transformations of data, which are not modelled.

Line numbers below are those of `src/`. The Crystal standard library is
`src/src/`, the compiler `src/src/compiler/crystal/`, the playground
`src/src/compiler/crystal/tools/playground/`, the scripts of the API docs
`src/src/compiler/crystal/tools/doc/html/js/`, and the extension
`src/vscode-extension/`.

## 1. The system

### 1.1 Components, their state and their operations

| Component | Source | State | Operations |
|---|---|---|---|
| Playground page | `public/session.js`, `application.js`, `settings.js` | editor, `isRunning`, `runTag`, timers, formatter, buttons, output, inspectors, errors, web socket, storage | buttons, keys, edits, one handler per message, timers, load and unload |
| Playground server | `server.cr` (`Session`) | `@tag`, `@process` | `run`, `format`, `stop`, fibers that forward output, values and the end of the process |
| API docs search | `doc.js`, `_navigator.js`, `_search.js`, `_usage-modal.js` | index, text, debounce, `lastSearchText`, list, highlighted element, `performingSearch`, focus | typing, search, keys, index arrives, ranking |
| VS Code extension | `extension.js`, `activate.js` | the last child process, configurations | prompts, `resolveDebugConfiguration`, `createDebugAdapterDescriptor`, `dispose` |
| Mutex | `src/src/mutex.cr`, `crystal/spin_lock.cr` | `@state`, `@mutex_fiber`, `@lock_count`, `@queue`, `@queue_count`, a spin lock | `lock`, `lock_slow`, `try_lock`, `unlock`, `synchronize` |
| Channel, select | `channel.cr`, `crystal/pointer_linked_list.cr` | `@closed`, `@queue`, lists of waiting senders and receivers, spin lock; per select a shared `SelectContext` | `send`, `receive`, `receive?`, `close`, `select` with and without `else`, timeouts |
| Fiber | `fiber.cr`, `concurrent.cr` | context, stack, resume and timeout events, home thread | `spawn`, `enqueue`, `resume`, `run`, `timeout` |
| Scheduler | `crystal/scheduler.cr`, `crystal/fiber_channel.cr`, event loop | per thread: `@runnables`, `@sleeping`, `@current`, `@free_stacks`, a pipe | `enqueue`, `send_fiber`, `reschedule`, `resume`, `sleep`, `yield`, `run_loop` |
| Fiber stacks | `fiber/stack_pool.cr` | pool of stacks | `checkout`, `release`, `collect` |
| Debug server | `compiler/crystal/interpreter/debug_adapter_protocol/adapter.cr` | class variables of `Data`: breakpoints, expressions, the value callback, the stopped breakpoint, `ready` | one handler per request of the protocol, `subscription_loop` |
| Debug hook | `compiler/crystal/interpreter/repl.cr` | position in the program | `run_file`, the `on_emit` block |
| Evented IO | `io/evented.cr` | waiting readers and writers per thread, time-out flags | `wait_readable`, `resume_read`, `evented_close`, … |
| RWLock, Once | `crystal/rw_lock.cr`, `crystal/once.cr` | atomic flags and counters | read/write lock of the GC; one-time initialization |
| Log dispatch | `log/dispatch.cr` | a channel of entries, a channel `done` | `dispatch`, `write_logs`, `close` |
| Signals, child processes | `crystal/system/unix/signal.cr`, `process.cr` | signal pipe, tables of pending and awaited pids | `trap`, `process`, `wait`, `call` |
| HTTP server | `http/server.cr` | sockets, `@closed`, `@listening` | `listen`, `close` |
| Compiler, collections, text, serialization | everything else | trees, buffers | sequential |

Interaction: a page of the playground and its session on the server exchange
JSON messages over one web socket; the session compiles, starts the program as a
process, and forwards what its pipes and, over another web socket, its agent
report. A message names a run by its tag. The scripts of the docs share one
browser page and talk through DOM events, timers and the document. The extension
spawns `crystal i --debug-port`, waits four seconds and has VS Code connect to the
debug server, whose requests the module `DebugAdapter` takes from there.

In Crystal's runtime, fibers call mutexes and channels; these suspend the calling fiber
with `Scheduler.reschedule` and wake another with `Fiber#enqueue`. In the build
with `preview_mt` the fiber that is woken may belong to another thread, whose
scheduler gets it through its queue or its pipe. A select's timeout is an event
of the event loop of the fiber's thread. The debug server runs one fiber per
connection, beside the fiber that interprets the program, and the two talk only
through the class variables of `Data`, polled every few milliseconds.

### 1.2 What is hard, and what makes each component correct

* **Playground.** Messages of old runs arrive late, in an order that four fibers of
  the server make; the tag is all that tells runs apart, `stop` does not even look
  at it, and `format` reuses it; an edit, a click and a timer may each start a run.
  Correct means: each run ends on the page exactly once, nothing of an old run
  shows, only the program the user sees is stopped, and the code survives a reload
  (an emptied editor does not: the page starts over).
* **API docs search.** Keys, a debounce, an index that loads, and Enter that waits
  for results run into each other; elements of the list are replaced under the
  keyboard's cursor; the comparison function is intricate. Correct means: list and
  cursor belong to the text searched last, no state "busy" is left behind (an emptied
  text does leave it), and the ranking is well defined.
* **Extension.** Any number of launches share ports and one blocking host, prompts
  may be dismissed, interpreters end by themselves. Correct means: nothing is
  spawned without a program, and a session knows whom it talks to.
* **Mutex.** Four ways to win race with each other; `unlock` clears `@state`
  with a plain store and looks at the queue outside the spin lock; the fiber it
  takes off is enqueued after the spin lock was left. Correct means: one owner
  at a time, the recorded owner is the true one, nothing but suspended fibers in
  the queue, and no fiber left asleep.
* **Channel.** Nodes of one select lie on several lists, and stay there after
  the select was decided; `close` walks detached lists without a lock; timeouts
  come from another place. Correct means: values in order and exactly once,
  each fiber woken once and for a reason, no waiter beside what it waits for, no
  node of a call that has returned, no deadlock on the spin locks of several
  channels, and each call as if it had happened at one instant.
* **Scheduler.** A fiber may be enqueued by another thread before it has given
  up its own; a sleeping thread does not look at its queue; a fiber that ends
  still runs on the stack it returns. Correct means: no fiber lost, doubled or
  resumed while running, none put where a sleeping thread would not see it, no
  stack in two hands.
* **Debug server.** Client and program advance independently; requests are read
  only in some states; `evaluate` is answered by the other fiber; expressions
  raise; clients hang up. Correct means: every stop reported, nothing executed
  while stopped, requests answered in order, every session getting on. An expression
  that raises breaks the first two (section 5).

`PROJECT.json` lists under `hazards` each place in the code where one of these
can go wrong, with the properties that would show it.

## 2. The modules

| Module | Content |
|---|---|
| `Playground` | a page and its session on the server, composed by two message queues |
| `Inspector` | the values of a line and their table, used by `Playground` |
| `DocQuery` | what a query matches and in which order: operators only |
| `DocSearch` | the search box over `DocQuery` |
| `DebugExtension` | the extension and the interpreters it spawns |
| `PlaygroundProofs`, `DocSearchProofs`, `DebugExtensionProofs` | inductive invariants and twelve theorems about these |
| `DebugAdapterProofs` | inductive invariants and four theorems about `DebugAdapter` |
| `Mutex` | `mutex.cr`, one step per access to shared state |
| `MutexProofs` | inductive invariants and five theorems about `Mutex` |
| `Channel` | `channel.cr`: calls, select, close, timeouts |
| `ChannelSpec` | what a channel promises: every call takes effect at one instant |
| `ChannelProofs` | the inductive invariant of `Channel` and five theorems about it |
| `ChannelRefinement` | the theorem that `Channel` implements `ChannelSpec` |
| `Scheduler` | the multi-threaded scheduler with stacks and the event loop |
| `SchedulerProofs` | inductive invariants and four theorems about `Scheduler` |
| `DebugAdapter` | the debug server together with the interpreter's hook |
| `MCPlayground`, `MCDocSearch`, `MCMutex`, `MCChannel`, `MCScheduler`, `MCDebugAdapter` | instances for TLC: pages, an index, fibers, calls, requests, symmetry |

Definitions called "faulty variant of X" are not part of the model: each is X
with a plausible mistake, used to confirm that the property it is paired with in
`PROJECT.json` ("mutants") would detect it.

### 2.1 Playground and Inspector

A step is one callback of the browser (JavaScript runs each to its end), or what the
server does for one request or one event of a process. Sources are versions: each
edit makes the next one, and formatting keeps the version. `Play`, `Stop`, `Format`,
`Edit`, `ClickEditor`, `ClickLine`, `CloseLeft` and `Reload` are the user; `RunTimer` and `BlinkTimer`
the timers of `_scheduleRun` and of the output indicator; `Open` and `Close` the web
socket with `onReady` and `onDisconnect`; `Discard` and the `Receive…` actions the
cases of `ws.onmessage`. `Run` is `Session.run` behind its two guards, and is part of
three actions (button, timer, `onReady`). `Change` is the handler of the editor's
change event, and part of an edit and of the formatter's answer. Of the server,
`CompileFails`, `Execute`, `StopRequest` and `FormatRequest` serve one request each, in
order; `Report` and `Exit` are the fibers of a process.

A page (`PageType`) says what differs between the main page and a demo of the about
page, whether storage works, whether the run debounce is a number, and what source
the server was started with. The inspectors of all lines are represented by one, the
errors and the output by the tags of the runs they stem from, so that a leftover of an
old run can be seen. What a session had in its storage before the first load is
nothing: a reload produces the other case. The last code in `localStorage` and the
default source are one version, `Default`: whichever is there, it is what a new tab gets.
The empty text is a version of its own, `Emptied`: it is stored like any other, but the chain
of `||` in application.js:18-21 passes over it, so `InitialCode` treats it as if nothing were stored.
A table covers the page while it is open. Clearing the inspectors does not close it: `left` says
that one shows whose inspector is gone, until the user closes it (`CloseLeft`).
`Inspector` keeps the values of a line with their type and parts, and the table with
the columns it was opened with; a row whose value has no parts raises in a table with
columns (session.js:192).

### 2.2 DocQuery and DocSearch

`DocQuery` translates `runQuery`, `rankResults` and `Query`. Texts are sequences of words
and a match is one of whole words: what is lost is a match inside a word and the
distance in characters. `args_string` is what indexOf finds in the arguments as they are
written, with types and defaults: the place of each term that occurs there. `Compare` is the
comparison of `sort` with its branches in
their order; `aHasDocs` reads `b`, as in _search.js:176. A comparison that contradicts
itself leaves the result to the engine, so `InOrder` allows every order in which no
neighbours are known to be the wrong way round, and `RankResults` is a set. It does so in two cases:
between a type that matches in one field and a member, where docs are involved (`Contested`), and
among entries of one name found by arguments, which the last criterion compares only if both
are. `OneOrder` says that there are no others.

`DocSearch` is the state of doc.js, _navigator.js and the list. `SearchTimer` is the end of
the 200 ms of `performSearch` with its three branches; `SameText` is its `text == lastSearchText`,
loose and false at first, which some texts equal (`LikeFalse`: "0", blanks); `SearchFor` and `Load` perform or
queue searches; `Enter` is `delayWhileSearching`; `OpenTimer` its 100 ms; `Move`, `Escape`,
`Sidebar…`, `Short…`, `Click` and `HideModal` the other events. The highlighted element is
its place and whether it is still in the document: an emptied list leaves it
detached, without siblings. A hidden element cannot keep the focus.

### 2.3 DebugExtension

A launch goes through the two prompts, `resolveDebugConfiguration` (`Filled`, `Outcome`),
`createDebugAdapterDescriptor` (`Create`, which spawns and blocks the host, and `Connect`, the
end of `sleep 4`), and the session. `Listen` and `Exit` are the interpreters: one listener
per port, an interpreter that finds its port taken ends, and any may end at any
time. `Dispose` kills the last child and forgets the others, as the code does.

### 2.4 Mutex

Each fiber has a `pc`; the values name the points of `lock`, `lock_slow` and
`unlock` between two accesses to shared memory. `LockFast` is the swap of
mutex.cr:37, `Relock` and `Contend` the recursion check, `TryLock` the
bounded spin of `try_lock`, `EnterLockSync` … `Push` the block under the spin
lock, `Resume` the scheduler resuming the fiber. `UnlockChecks` is the owner
check and the recursion count, `Release` the store `@state.lazy_set(0)`,
`CheckQueue` the unprotected read of `@queue_count`, `EnterWakeSync`, `Pop` and
`Wake` the rest.

`lazy_set` is a plain store. The constant `StoreBuffers` says what the build
makes of it: FALSE when it is visible at once (all fibers on one thread), TRUE
when it may stay in the store buffer of the unlocking thread (`delayed[f]`) until
that thread's next read-modify-write or an arbitrary later time (x86 threads).
Weaker memory models, with which the compiler or an ARM core may also reorder
loads, are not modelled. `depth` and `locks` belong to the client that calls
`lock` and `unlock`. The client is arbitrary, except that an unchecked mutex is
unlocked only by a fiber that holds it and not locked twice by the same one. The
comment at mutex.cr:15-17 allows any fiber to unlock it and says that relocking
deadlocks; neither mutual exclusion nor ownership means anything of such a client.

### 2.5 Channel

A call is a record with its form (`plain`, `select`, `poll` for a select with
`else`, `close`) and its arms. `Begin` starts one; `Lock` takes the spin locks
of the channels it names, one per step, in the order of their object ids;
`ExecuteSend`, `ExecuteReceive`, `ExecuteTimeout` and `ExecuteClose` try one arm;
`NotReady` is the `else` branch; `Wait` pushes one node per arm and suspends;
`Resume`, `Unwait`, `UnwaitTimeout` and `Result` are what a woken fiber does;
`Return` unlocks what is still locked and forgets the call. `CloseMark` and
`CloseWake` visit the detached nodes one at a time, without a lock, as
channel.cr:129-136 does. `Expire` is the timeout event.

Abstractions: the value sent is the identity of the call that sends it, so that
order and delivery can be observed; a section of code under the spin locks that
touches only the locked channels is one step, and several locks are released
together. A node is the record (fiber, call number, arm): the nodes of an
earlier call of the fiber are other objects, or, for plain calls, a dead stack
frame, which is what `NoDanglingNode` is about. `receive?` is `receive`: the
two differ in what they make of a closed channel.

`ChannelSpec` has no locks, lists, contexts or wake-ups: a closed flag, a bounded
queue, and for each fiber its request and its reply. `Channel` implements it
under the mapping at its end: the reply of a call appears at the step that
settles it (`Settled`), which for a waiting call is a step of the partner, of
`close` or of the timer. It is the contract that models of users of channels
can be written against.

### 2.6 Scheduler

One scheduler per thread. `Spawn` creates a fiber with a stack from the pool and
enqueues it; `Claim` takes a waiting fiber off some channel or mutex, abstracted
to the set `waiting`, and enqueues it; `Enqueue` is `Scheduler.enqueue` with
`find_target_thread` and `send_fiber`. `Await` and `Sleep` make the fiber known
to whoever will wake it, and only then enter `reschedule`: between the two, another
thread can already enqueue it. `Reschedule`, `Poll` and `RunEventLoop` are the
loop of scheduler.cr:156-165; `Loop`, `Receive` and `Wake` are `run_loop`;
`Finish` is the end of `Fiber#run`; `Resume` and `ReleaseStacks` are used by all
of them. `fatal` is `fatal_resume_error`, which ends the process.

A thread that has entered its event loop (`polling`) does nothing until one of
its events happens, whatever stands in its queue. `saved[f]` is
`@context.resumable`; `thread[f]` is `@current_thread`.

Abstractions: a section under a scheduler's spin lock is one step, as is the pair
of a dequeue and the switch that follows it (only the thread itself dequeues);
the round robin of `find_target_thread` picks any thread; the pipe is never
full (its capacity is thousands of fibers, and there are three); a fiber does at
most `MaxSteps` things before it ends, except the main fiber, which may always
wait. The single-threaded build is the case of one thread.

### 2.7 DebugAdapter

All fibers involved run on one thread, so a step is what a fiber does from one
sleep, read or write to the next. A request has a command and the type its
arguments parse as. `Send` and `HangUp` are the client; `ReceiveInitialize`,
`ReceiveLaunch`, `ConfigurationDone` and `Configure` the opening of the session;
`Watch` is `subscription_loop`, which reads nothing until the program has stopped;
`Evaluate`, `Answered`, `Continue`, `Resume`, `ReplBreakpoints` and `Invalid` are
the loop of `handle_stopped_breakpoint`; `EndOfStream` and `WriteFails` are the
two ways in which a fiber of the server dies of a client that is gone (a write
to it may still succeed once or raise). `Start`, `Emit`, `Leave`,
`EvaluateValue`, `EvaluateNothing` and `EvaluateRaises` are the interpreter.

Abstractions: one source file; the program is the list of the lines of the
instructions that belong to a node, in order of execution (a loop is unrolled; the
interpreter calls the hook before each of them, but not while it evaluates an
expression of the debugger); a response is its command, the `seq` it
answers and whether it is a success; JSON and the wire format are left out.

## 3. The runs

TLC checks each run exhaustively. All sizes are of the reachable graph (up to
symmetry where the cfg names it).

| Run | Distinct states, bounds | Question |
|---|---|---|
| `playground` | 548 164; the main page with and without a file and a demo without debounce, 1 edit or emptying, 2 runs, 1 or 2 reports, fair | Does each run end once, does the screen show one run only, does stop hit it and nothing else, is the formatter answered, does the code survive a reload? |
| `playground_typing` | 7 887; 1 edit or emptying, 2 runs, every program ends | Finding: what is typed during a run is not run (section 5) |
| `docs_search` | 134 554; 6 entries, 5 texts, one of them like false, 3 changes, 2 waiting Enters, fair | Do list, cursor and busy flag follow the text, is the order well defined, is no full match left out? |
| `docs_enter` | 15 264; 1 change, 1 Enter, the index arrives | Finding: an Enter that is never answered (section 5) |
| `extension` | 16 502; 2 launches, 2 ports, fair | Whom is a session connected to, what is spawned, does each launch end up somewhere? |
| `debug_session` | 418 000; 8 requests of 7 kinds, none of which raises, 5 nodes, fair | Are stops reported and the program held, are answers in order and once, is no expression left over? |
| `mutex_checked` | 5 700; 3 fibers, 2 locks each, store buffers | Do mutual exclusion, ownership and the queue hold though the clearing store may land late? |
| `mutex_reentrant` | 24 626; 3 fibers, 2 locks each, stores visible at once, fair | Is no wake-up lost, and is every waiter resumed? |
| `mutex_lost` | as `mutex_checked`, fair | Finding: with store buffers a waiter can sleep forever (section 5) |
| `channel_buffer` | 132 000; capacity 2, 3 fibers, 2 calls each | Order, close, timeouts, leftovers of an earlier call, and the refinement of `ChannelSpec` |
| `channel_cross` | 43 000; 2 channels, 3 fibers, 1 call each, fair | Selects that meet each other with channels in opposite orders: deadlock, release of waiters, refinement |
| `scheduler_threads` | 119 872; 2 threads, 3 fibers, 2 steps each, fair | Is any fiber lost, doubled, resumed while running, or left with a sleeping thread; is a stack shared? |

**Properties.** Playground: `AnswerDue` (while the stop button shows, exactly one thing that
will end this run is under way), `ShownIsCurrent`, `TableComplete`, `CodeKept`, `StopKillsOwn`, and
the liveness properties `StopEnds` and `FormatAnswered`. Docs: `HighlightIsShown`,
`ShownIsLastSearch`, `DelayEnds`, `OneOrder`, `AllTermsShown` and `EnterAnswered`. Extension:
`OwnOrEarlier`, `SpawnedWithProgram`, `LaunchEnds`. Mutex: `MutualExclusion`, `OwnerRecorded`,
`WaitersSuspended`, `NoLostWakeup`, `WaitersResume`. Channel: `WokenOnce`, `WokenForAReason`,
`NoMissedRendezvous`, `NoDanglingNode`, `Released`, `NoLockDeadlock`, and
`ImplementsChannelSpec`, which includes order (first in, first out), delivery exactly once
and what close means. Scheduler: `NeverFatal`, `AccountedFor` (each fiber that wants to run
is in exactly one place), `SleepersListen`, `NoSharedStack`, `EnqueuedRuns`. Debugger:
`EveryStopReported`, `HeldWhileStopped`, `AnsweredInOrder`, `NoStaleExpression`, `EvaluateAnswered`.

**Bounds.** `MaxEdits`, `MaxRuns`, `MaxReports`, `MaxTyped`, `MaxEnters`, `MaxLocks`, `MaxCalls`, `MaxSteps`,
`MaxRequests` and `MaxInFlight` are guards on what users, clients and programs do; the code's own
counters need none. One page element, the timers that can not be cancelled, is bounded by the
reports that start them; `Stop` sends one stop request at a time. Two runs are an
old one and a new one, and everything about tags is about these two; a reload starts
over, any number of times. How many reports there are depends on the page (`MaxReports`), and so
does whether the editor may be emptied (`Emptying`: the main page with a file, where the code that
comes back is not the empty one's): tables do not depend on the page, nor does storage on reports. Two
reports make a table with a row added to it, of the
same kind of value or of another. Three changes of a text let a search be replaced by
another and by the first again; two Enters can wait at once. The index has a nested type, two
methods, a constructor and a constant with the words of the queries in names, arguments and docs, so that
each criterion of the comparison decides between some two of them. Two launches are an
earlier one and a later one. Three fibers are
needed for the interesting cases: an owner, a waiter and a newcomer that overtakes
it; a select between a sender and a closer; a fiber, its waker and the main one.
Two calls each let a fiber meet what its first call left behind. Two channels make
opposite lock orders possible; capacity 2 makes a full, a partly filled and an
empty queue different, and order visible. Two threads give every cross-thread
case of the scheduler, since a fiber only ever concerns its waker's thread and
its own. The program of the debugger has a line with two nodes, executed again
after another one, and eight requests suffice to open a session, set breakpoints,
stop, evaluate and continue more than once.

**Deadlock** is not checked: in all these systems the actors may have done all they
have to do, or wait for a partner that never comes, and both are legal.

**Fairness.** Playground: timers fire, messages are delivered and served while the connection
lasts, and a program that was terminated ends; any other may run forever, users owe nothing, and
`playground_typing` alone assumes that programs end by themselves. Docs: timers fire; the index
may never arrive, except in `docs_enter`. A search timer is restarted by each key, so its
fairness says that between two keys there is a pause of 200 ms some time. Extension: prompts are answered or
dismissed and the host does what is due. Mutex: every fiber inside a call, and every store buffer, gets on, and a
client that holds the mutex unlocks it; nobody has to lock. The acquisition of a
spin lock is a step of its own and only weakly fair: that suffices because
each fiber calls a bounded number of times, so the lock is finally free for good.
Channel: every begun call gets on, `close` visits its whole list, timers elapse, and
an enqueued fiber is resumed (what `Scheduler` shows as `EnqueuedRuns`); nobody has to
call. Scheduler: the operating system runs every thread; timers elapse when the
thread is in its event loop. Debugger: each fiber sleeps between two steps and
is resumed after that; the client owes nothing.

## 4. What is proved

Eight modules of proofs, each about one component and each from the assumption that
the component's module names. What the runs of section 3 check of small instances
holds, by these theorems, for all values of the constants.

`PlaygroundProofs`: for all pages, any number of changes, runs and reports.

* `StopButtonComesBack`: `AnswerDue`.
* `OnlyOwnProgramStopped`: `StopKillsOwn`.
* `ScreenIsOfLastRun`: `ShownIsCurrent`.
* `ReloadBringsCode`: `CodeKept`.
* `AllValuesInTable`: `TableComplete`.

`AnswerDue` says nothing of what happens when the stop button does *not* show, so a
step from there could break it. `ConnectionInv` adds that without a connection
nothing is under way and a lost page starts nothing; `TagInv` that no tag is ahead of
the page, that a request to run in the queue is of the run that shows the button, that
a request to format is of an earlier one (this is what the guard of `Format` is for),
and that the only living program is that run's. `DueInv` is `AnswerDue` with
quantifiers over indices, which `Append` and `Tail` shift by lemmas of their own
(`SendFacts`, `ServeFacts`, `AnswerFacts`, `ReceiveFacts`). For `StopKillsOwn` `StopInv`
adds the order of the queue: a stop behind a request to run is of that run, and one
that meets a living program too. The conjunction, `PlaygroundInv`, is inductive, one
lemma for each kind of message. `ShownIsCurrent` and `CodeKept` need the types only. For
`TableComplete` `TableInv` counts: the rows of an open table are as many as the positions of
`messages` whose value has a part under each column (`RowsAdded` is the step), the columns stay
while it is open, and whatever is on its way as a value is one.

`DocSearchProofs`: for every index, all texts, any number of keys.

* `DelayIsFinite`: `DelayEnds`.
* `ListIsOfLastSearch`: `ShownIsLastSearch`.
* `HighlightOfList`: `HighlightIsShown`.
* `FullMatchesShown`: `AllTermsShown`.
* `OrderIsOne`: `OneOrder`.

The first is inductive with the types of the queue and the text. The second needs `SearchedInv`,
that before the first timer nothing was searched: a text like false is then the last one without
a list, and with any other text before it there is a list of that. The third needs
`HighlightInv`: before the index is there nothing is listed or highlighted, or else
`Load`, which detaches what was highlighted without a new highlight, would break it.

The other two are about the ranking, and hold in each state because what is listed is one of
the lists of its text (`ListedInv`). `FullMatchesShown`: no result has more terms than the query, so
the first one has not, and the filter, which keeps what has at most one term less than the first,
keeps what has all of them. `OrderIsOne`: all criteria but the last (`Rough`) are a lexicographic order
of numbers, where `ByTitle` counts only among results that all match by name; so `Rough` is
transitive and changes its sign with its arguments (`RoughOrders`). Where nothing is contested the
comparison is `Rough`, and only then the arguments (`CompareRough`); so what is in order with its
neighbours is in order with all (`SortedThroughout`), the least counterexample being found with
`WFMin`, and the filter keeps the order (`KeptElements`). These proofs need `IndexAssumption`: the
index, its names and its lists of arguments are finite. That the words of a full name are a
sequence is assumed there, as they are collected by recursion.

`DebugExtensionProofs`: for any number of launches, programs and ports.

* `ConnectedToOwnOrEarlier`: `OwnOrEarlier`.
* `NothingSpawnedWithoutProgram`: `SpawnedWithProgram`.

The strengthening is `SleepInv`, that while the host is blocked the last child is that of
the launch that blocks it (so whoever listens was spawned before), and `PhaseInv`,
what the phase of a launch says of its configuration and its child.

`DebugAdapterProofs`: for every program and all requests, of a single client.

* `OneClientInOrder`: `AnsweredInOrder`.
* `OneClientNoneStale`: `NoStaleExpression`.
* `OneClientStopsReported`: `EveryStopReported`, if no expression raises.
* `OneClientHeld`: `HeldWhileStopped`, if no expression raises.

The two hypotheses are what the code needs, not what the proof needs: a second client
takes over the block that answers the first, and an expression that raises ends the
block that holds the program (the hazard of repl.cr:66, and section 5). `OrderInv` counts what was
read: the requests in the inbox go on from there, an answer is not beyond it, and the
one expression that may wait is the last that was read, while its fiber reads nothing.
`StopInv` says that a fiber at a stop leaves it by `resume!` only, `HoldInv` that the
program is held while it is stopped and has not begun before `configurationDone`.

`MutexProofs` holds machine-checked proofs for every set of fibers, every bound and
every protection, from `MutexAssumption` (the types of the constants) alone:

* `TypeCorrect`: `TypeOK`.
* `Exclusion`: `MutualExclusion`, with or without store buffers.
* `OwnershipSound`: `OwnerRecorded`.
* `QueueSound`: `WaitersSuspended`.
* `WakeupNotLost`: `NoLostWakeup`, assuming `~StoreBuffers`; with store buffers it is
  false, as `mutex_lost` shows.

None of these is inductive as it stands. `MutualExclusion` speaks of `depth`, but
what excludes others is `state`: so `HoldInv` says that `state` is 1 exactly while some
fiber *holds* the mutex (from the swap that won to the moment its store becomes
visible) and that one fiber at most does. `PhaseInv` ties the locals of a fiber
to its step; `OwnerInv` adds to the owner record that a free mutex has no count;
`CountInv` makes `queue_count` the length of the queue plus the one fiber that
announced itself. Their conjunction with `TypeOK` is `LockInv`, which is inductive
(`LockInvInit`, `LockInvStep`, one step per action). `QueueInv` adds that a fiber an
unlock has taken off is suspended, in no queue and in one unlock's hands only;
it is inductive relative to `LockInv`. `WakeInv` says that while a fiber is queued or
about to queue itself and the mutex is free, some fiber is on its way to the mutex or
to the queue; it needs the other two and that stores are visible at once.

`ChannelProofs`: for any numbers of fibers and channels, all capacities, all calls with
any number of arms.

* `ChannelInvariant`: the conjunction `ChannelInv`, on which the others rest.
* `EnqueuedOnce`: `WokenOnce`.
* `AwakenedForAReason`: `WokenForAReason`.
* `NodesOutlived`: `NoDanglingNode`.
* `EveryRendezvous`: `NoMissedRendezvous`.

None of the four properties is inductive; that they hold depends on each other. A node is a
record of fiber, call and arm, and what a step may do with it depends on what its owner
is doing, so `LocalInv` first says what each step of a call implies of its own
variables: a plain call is enqueued only with a delivery, a select exactly when its context
was triggered, a timer is set only until its arm is unwaited. `ListInv` says that a node on
a list is of a call that waits, undelivered and not yet taken back; `ListedInv` the
converse, that each such arm is on its list. `DetachedInv` is about the lists that
`close` walks after it gave the lock back: a node of a plain call there is still
undelivered, that of a select may be of a call that is over (this is why the context
is a heap object), and no two closes walk lists of one channel. `LockInv` says who holds a lock,
`TriedInv` that what a call tried in vain stays in vain as long as it holds the locks: it is
what a `Wait` needs to establish `MeetInv`, the property that nobody waits for what is
there. `ChannelInv` is shown with one lemma per action; most of them go through a
common frame (`Quiet`, `Bystanders`, `Stays`) that says what a step leaves alone, so that
only what the step does is left to show. What
is left of a list (`Rest`, `Without`, `NodesOn`) is defined by positions and ranks, so that lemmas
can say which nodes it holds without induction.

`ChannelRefinement`: under the same assumptions.

* `ChannelImplements`: `ImplementsChannelSpec`, with the refinement mapping of `Channel`.

A call is open from its start until it is settled, and what settles it is the step after which its
outcome can no longer change: a delivery by a partner, a close that marks or triggers its node,
a timer that fires, or its own step. For the steps that settle nothing (`Lock`, `Wait`, `Resume`,
`Unwait`, `Result`, the end of a `close`) the mapped state does not change; each
of the others is one action of `ChannelSpec`: `ExecuteSend` is `Meet`, `Put`, `FailClosed` or nothing,
`ExecuteReceive` is `Meet`, `TakeAndRefill`, `Take`, `FailClosed` or nothing, the visits of a
`close` are one `FailClosed` each. `ChannelInv` supplies what the abstract guards ask for: that
a live node is of an open call, that a sender behind a full queue is the first one, and
that values leave in the order they came.

`SchedulerProofs`: for any finite sets of threads and fibers.

* `ResumesNeverFatal`: `NeverFatal`.
* `EveryFiberAccountedFor`: `AccountedFor`.
* `SleepersWakeable`: `SleepersListen`.
* `StacksUnshared`: `NoSharedStack`.

`Homes` (part of `TypeInv`) says that a worker loop is known to its own thread only.
`LoopInv` follows that loop: while the thread can go on, the loop has it, is queued, or
waits for the pipe, and from its last look at the queue on the thread is marked
sleeping. `StackInv` adds to `NoSharedStack` that a fiber that runs has not saved its
context, and that each stack is in use, in the pool, or with the one thread that will
release it after the switch. `WhereInv` is what makes a resume safe although a fiber is
enqueued before it has given up its thread: a fiber is held in at most one place (a
queue, a pipe, the hands of another fiber, a wait list, an event), one that is held is
neither unborn nor ended and gave up its thread or is about to, whoever has a thread is
queued and received there only, and who is not current has saved its context. So the
fiber taken off a queue is the current one itself or one that can be resumed.
`SomewhereInv` is the other half: who gave up its thread, or is about to, is held somewhere, and
whoever has another fiber in its hands is about to enqueue or to resume it, so that none is dropped.
`AccountedFor`, which counts places, follows from both and from the injectivity of the queues.

Every safety property that a run expects to hold is stated by a theorem, those of `DebugAdapter` for a single
client. Only model-checked, by TLC, are the liveness properties, which are out of the prover's reach.

## 5. Disagreements found

1. **A lost wake-up in `Mutex`** (`mutex_lost`). `unlock` stores 0 to `@state` with
   `lazy_set` and then reads `@queue_count` (mutex.cr:110-112). On threads with store
   buffers the read may be performed first. A fiber in `lock_slow` that increments
   `@queue_count` and still reads `@state` as 1 queues itself and suspends; the unlock
   saw 0 and wakes nobody. `WakeupNotLost` shows that the delayed store is what it
   takes: with the store visible at once no wake-up is lost.
2. **What is typed during a run is not run** (`playground_typing`). The timer of a scheduled
   run calls `run`, which returns because a program is running (session.js:424,
   517-519), and nothing schedules it again. The about page says that the code is
   run when you stop typing.
3. **An Enter that opens nothing, and then something else** (`docs_enter`). A keyup in the search box
   starts the debounce even when the text is unchanged. An Enter within the 200 ms
   waits for `searchPerformed`, but the debounce of an unchanged text ends in
   `searchDebounceStopped` (doc.js:84-85). The listener stays, and opens a result of
   the next search. `EnterAnswered` shows that with a changed text this does not happen, unless it is
   the first and `==` takes it for the initial false of `lastSearchText`, as "0" is (doc.js:74, 84).

More are visible in the modules and described without a run of their own.

In `DebugAdapter`: the guard of adapter.cr:173 is `type != "request" && command != "setBreakpoints"`, so
during configuration any request that parses is answered as `setBreakpoints`
(`Configure`). The rescue of repl.cr:66 encloses the whole hold loop, so an expression that raises
is never answered, the client's fiber waits forever, and the program runs on from its
breakpoint though nobody sent `continue` (`EvaluateRaises`). `HeldWhileStopped`,
`EveryStopReported` and `EvaluateAnswered` are therefore about expressions that raise nothing;
with one that raises among the requests of `debug_session`, TLC finds the first two violated.

In `Playground`:

* The about page says that all values a line produced "are collected and can be inspected in a
  table" (_about.html:42). A line that produces values with parts and values without (a number and
  a tuple, say) has no such table: making the row of a value without parts raises under columns
  (session.js:192), so the table does not open, or misses the row when it is open already.
  `TableComplete` is about all other rows.
* An emptied editor does not survive a reload (application.js:18-21): the file, the saved or the
  default code takes its place. `CodeKept` states both cases.
* Ctrl-Enter before the connection is open leaves the session "running" with nothing sent (`Run`
  in the state `connecting`), the formatter's answer replaces what was typed since, and
  `connectLostShown` of one demo refuses the runs of the others.

In `DocSearch` and `DocQuery`: a first text "0" is not searched at all until it is changed
(`SameText`); a text that is emptied leaves `performingSearch` set (doc.js:82); and the order
between a type and a member found only by their docs is left to the engine.

## 6. Not modelled

* Playground: rendering, the settings form, saving as a file or a gist, workbook pages. A page whose
  storage refuses writes is part of `PageType` but of no run.
* Docs: opening and closing of types in the sidebar, scrolling, highlighting of words, the
  version menu; matches inside words.
* Extension: what VS Code does with a configuration beyond the fields the code reads; the time an
  interpreter takes (it may take any).
* Several debug clients at once: `DebugAdapter` covers them (all of `Data` is shared),
  the runs use one, since nothing says that two may connect.
* Two timeout arms in one select: `Wait` keeps the last one, as `Fiber#timeout`
  does; the runs use one.
* A full scheduler pipe, and starvation of the event loop by fibers that are
  always runnable.
* An expression that raises is part of `DebugAdapter` (`EvaluateRaises`), but no request of
  `debug_session` is one: what the run asks does not hold then (section 5).
* Program behaviour after the debug client has hung up: modelled, promised nowhere.
* The components listed as `not_modelled` in `PROJECT.json`, with the reason for each.

## 7. Plan

The order is that of importance: what everything else stands on comes first.

| Stage | Modules | Status |
|---|---|---|
| 1 | `Playground`, `Inspector`, `PlaygroundProofs` | done |
| 2 | `DocQuery`, `DocSearch`, `DocSearchProofs` | done |
| 3 | `DebugExtension`, `DebugAdapter`, `DebugExtensionProofs`, `DebugAdapterProofs` | done |
| 4 | `Mutex`, `MutexProofs` | done |
| 5 | `ChannelSpec`, `Channel`, `ChannelProofs`, `ChannelRefinement` | done |
| 6 | `Scheduler`, `SchedulerProofs` | done |
| 7 | `EventedIO`, `Once`, `RWLock`, the log dispatcher over `ChannelSpec`, `SignalChild` | open |

Abstract specifications worth stating: a run of the playground as a request and one answer, implemented
by `Playground`; a lock with an owner, implemented by `Mutex`; a set of runnable
fibers, implemented by `Scheduler`.

Theorems worth proving next: for `DebugAdapter`, the theorems with several clients that agree
on one session. All modules are written without recursive operators for that reason.
