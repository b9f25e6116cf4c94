# IDA debugger back ends in TLA+

The repository is the source of IDA's open parts: the SDK with its debugger
modules and the remote debugger server, a PIN tool that is another debugger
back end, processor modules and loaders, and the graph viewer. This project
specifies the debugger back ends, because that is where threads, processes and
network peers meet: the PIN tool (`src/idadbg.cpp`), a self-contained debugger with
the densest concurrency of the repository; the connection between IDA and a remote
debugger server; and the Linux debugger module behind that server.

Contents: [components](#1-components), [plan](#2-plan), [modules and
code](#3-modules-and-code), [runs](#4-what-the-runs-check),
[bounds](#5-bounds), [fairness](#6-fairness), [proofs](#7-what-is-proved),
[where code and comments disagree](#8-where-the-code-and-its-comments-disagree),
[what is left out](#9-what-is-not-modelled).

## 1. Components

`PROJECT.json` lists every part; these are the ones with behaviour of their own.

### PIN tool: stop and resume (`idadbg.cpp`)

The tool lives in the debugged process. IDA is its only client and speaks a
protocol of packets over one socket.

- *State*: `process_state` with its lock, the semaphore `run_app_sem`, the event
  queue with the event retrieved last, the table of threads (suspended or not,
  a counter of suspended ones).
- *Who runs*: application threads, which enter the tool through PIN callbacks
  (thread start and end, exceptions, images, exit) and analysis routines
  (`ctrl_rtn` and `bpt_rtn`, called before instructions); the listener thread, which
  serves one packet at a time; the reinstrumenter thread.
- *Interaction*: a thread that has something to report queues an event, suspends
  the process and blocks on `run_app_sem`. IDA polls (`READ_EVENT`), handles
  one event at a time and answers each with `RESUME`. Only the answer to the last
  queued event resumes the process ("buffered resume").
- *Hard*: `exit_process` and `detach_process` write the state without the lock;
  `prepare_pause` looks at the queue before it takes the lock; threads test the state
  first and block later; callbacks return to the application and are stopped at
  a later instruction, by `ctrl_rtn`, which must not be switched off meanwhile.
- *Correct means*: the semaphore agrees with the state; a report keeps the
  process suspended and its thread inside the tool until it is answered; a
  suspended process always has an event that will get it going again; pauses are
  kept and answered; the end is final.

### PIN tool: breakpoints and reinstrumentation

- *State*: installed and pending breakpoints, the thread to be stepped, the flag
  `control_enabled` that `ctrl_rtn` depends on; `instrumenter_t::state` and the
  semaphore of the reinstrumenter; outside of the tool, PIN's code cache.
- *Operations*: IDA adds and deletes breakpoints; PIN compiles instructions
  (`add_rtns`), which makes pending breakpoints installed ones; a resume may ask the
  reinstrumenter to throw all code away.
- *Hard*: a breakpoint works in three ways in turn (`ctrl_rtn` looks for it, the
  code is thrown away, new code calls `bpt_rtn`), and each hand-over can leave a gap.
- *Correct means*: no thread runs over a breakpoint.

### PIN tool: trace buffer

- *State*: the buffer, its limit, `tracebuf_sem`, and `WAIT_FLUSH`, the process
  state while the buffer waits to be read.
- *Hard*: `WAIT_FLUSH` counts as suspended but has a semaphore of its own, which
  every `RESUME` sets outside of the lock; several threads can find the buffer full.
- *Correct means*: nothing but the answer to `TRACE_FULL` ends `WAIT_FLUSH`, and
  waiting threads are always let go.

### RPC engine, client and server (`rpc_*.cpp`), server sessions (`server.cpp`)

- *State*: on the client `pending_event`, `poll_debug_events`, the network
  error; on the server `poll_debug_events`, `broken_connection`, and the C++ stack of
  nested calls of `process_request`; between them two directions of a TCP
  connection; in the server program the list of sessions.
- *Interaction*: either side may send a request and serves the other's requests
  while it waits for the answer. An event is the answer to `GET_DEBUG_EVENT`
  or, once such an answer was "no event", an `EVENT` packet that the server
  sends whenever it finds its socket empty and the module has one.
- *Hard*: three flags on two ends say who fetches the next event; messages of
  the module cross with requests of IDA; a receive may fail at any time; the
  client object is used again for the next connection.
- *Correct means*: each event is given to IDA once and in order; each answer
  finds the call it answers; a connection closed in order is not taken for a broken one.

### Debugger module core and Linux module (`debmod.cpp`, `linux_debmod.cpp`)

- *State*: for each thread its state, suspension counts, an expected `SIGSTOP`, a
  status kept for later; the queue of events, the event IDA handles, `may_run`, the
  breakpoints and the ones removed lately. The kernel has a state, a pending
  `SIGSTOP` and a status to report for each thread.
- *Interaction*: whenever a thread reports something, and for each access to
  memory, the module stops all threads with `SIGSTOP`, collects what `waitpid`
  says, and resumes them.
- *Hard*: while it waits for a `SIGSTOP` a thread may report something else,
  or die; the status is kept and the `SIGSTOP` arrives later. Freezes for events,
  accesses and the user's suspensions share one counter.
- *Correct means*: no stop is lost or told twice, and the thread stands still until
  it is told; when IDA handles an event or reads the memory all threads are
  stopped; a thread that nobody wants stopped runs.

The Windows, Windows CE, Mac and Symbian modules have the same interface over
other operating systems. Processor modules, loaders, symbol readers and
the graph viewer are sequential functions over files.

## 2. Plan

In order of importance; each builds on the ones before it.

| module | what | state |
|---|---|---|
| `StopGo` | what the PIN tool promises a debugger, abstractly | written |
| `PinSuspend`, `PinSuspendMC` | stop and resume, the core; implements `StopGo` | written, model-checked |
| `PinSuspendProofs` | the core's invariants for every session and every number of threads | proved: types and six properties |
| `PinPromiseProofs` | the core implements `StopGo` | proved |
| `PinWatchProofs` | what needs `ctrl_rtn` is watched for, in every session | proved: three properties |
| `PinTrace`, `PinTraceMC` | the core composed with the trace buffer | written, model-checked |
| `PinTraceProofs` | its invariants, for every buffer and number of threads | proved: types and six properties |
| `PinBpt`, `PinBptMC` | the core composed with PIN's code cache | written, model-checked |
| `PinBptProofs` | no breakpoint is missed that is set in time; `PinBpt` implements `PinSuspend` | proved |
| `EventStream` | what a connection promises, abstractly: each event once, in order, none kept for ever | written |
| `RpcSession` | both ends of one connection and the next one; implements `EventStream` | written, model-checked |
| `RpcProofs` | its invariants and the refinement's safety, for all bounds | proved: types, five properties, safety of `EventStream` |
| `ThreadReports` | what a debugger module promises IDA of the threads, abstractly: what each does is told once, and it stands still until then | written |
| `LinuxThreads`, `LinuxThreadsMC` | the Linux module, its freezes, kept statuses, breakpoints, over the kernel's ptrace; implements `ThreadReports` | written, model-checked |
| `LinuxProofs` | its invariants for any number of threads, addresses and happenings | proved: types and six properties |
| `LinuxPromiseProofs` | who stands still during a freeze; the Linux module implements `ThreadReports` | proved |
| `PinStartup` | the hand-over from the main thread's `handle_packets` to the listener, `get_any_stopped_thread`, entries of threads that do not exist | to do |
| `ServerSessions` | list of sessions, threads, broken connections | to do |
| `SegmentList` | `handle_memory_info`, `add_segment` as a function on sequences, against a definition by sets | to do |

Every invariant and every action property of the runs that pass is proved. Proofs still
wanted belong to the modules to come: the invariants of `ServerSessions` for any number
of clients, and that `add_segment` keeps the list of segments sorted and apart, as far
as that can be said without induction over the list.

## 3. Modules and code

`PROJECT.json` maps every definition to the lines it stands for.

**StopGo** has four variables: is the process stopped, how many reports are open,
which threads are held, is it over. A report opens and stops; only the
answer to the last open report lets the process go; a held thread is released
only while the process is not stopped.

**PinSuspend.** A step is what one thread does between two points at which
another one can interfere.

- A section under `process_state_lock` is one step, with one exception: since
  `exit_process` and `detach_process` write the state without the lock, the
  sections that test the state and then suspend the process are cut in two,
  `Enter` (lock taken, state tested, event decided) and `Emit` (event queued,
  process suspended, lock released); `process_state_lock` is the owner in between.
  (`PinTrace` cuts the section that writes `WAIT_FLUSH` the same way.)
  `Enter` and `Emit` stand for both `emit_event`, used by the analysis
  routines, and `suspend_at_event`, used by callbacks; `EnterIdle` is the
  same section when it finds nothing to do.
- An application thread goes (`pc`) from `run` through `lock` and `emit` to
  `cb_wait` (`wait_after_callback`, then back to the application), to `thr_wait`,
  `app_wait`, `sem_wait` (analysis routines: `thread_data_t::wait`, then the two
  halves of `wait_app_resume`), or to `app_wait` (`context_change_cb`). `rtn`
  is the routine it is in, `ev` the event it will emit. The callback decides on
  its event before it takes the lock, and `do_ctrl` does so under `bpt_lock`;
  pauses and `do_bpt`'s breakpoints are looked at under `process_state_lock`
  (`EventUnderLock`).
- The listener (`lpc`) serves one packet per step, except where the code can be
  interrupted: `prepare_pause` looks at the queue (`prepare_pause_begin`) and then
  takes the lock; `exit_process` and `detach_process` write the state and then set the
  semaphore; the loop condition is tested last.
- IDA (`ida`) is an environment that follows its protocol: it polls, holds one
  event, edits breakpoints, steps and threads only while it holds one, and
  answers with `RESUME`. It may ask for a pause when it holds none. It edits while
  the process runs, too, when the event it holds did not stop it (`LIBRARY_LOAD`).
- `thread_suspend`, `thread_resume` and `release_thread_data` change the flag of a
  thread and `suspeded_cnt` as unconditionally as the code does.
  `SuspensionPackets` is where IDA comes in, as an assumption: it sends
  `THREAD_SUSPEND` for "a running thread" and `THREAD_RESUME` for "a suspended
  thread", as `idd.hpp:727` says of the two calls. If it resumed a thread twice, the
  counter would become negative: nothing in the tool prevents that.
- The reinstrumenter (`rpc`) waits, removes, and only then clears its semaphore.
- `Init` is the state after `app_start_cb` has queued `PROCESS_START`.
- `session`, chosen by `Init` and constant, says which callbacks and packets
  occur; with all kinds of sessions together the specification is the whole tool.
- Analysis routines are offered liberally here: `do_ctrl` for any address,
  `do_bpt` for any address ever compiled with a breakpoint, `add_rtns` at any time.

**PinTrace** extends it: `store_trace_entry` in its parts (`tr`), `TRACE_FULL`
with a thread id that no constructor sets, reading and clearing the buffer. Testing
the state and writing `WAIT_FLUSH` are two steps (`prepare_trace_flush`, which takes the
lock, and `write_trace_flush`, which releases it), so an `EXITING` or `DETACHED`
written in between is overwritten, as in the code. `do_resume` is two steps since `instrumenter_t::resume` is called after the lock
is released.

**PinBpt** extends it by the code cache (`cache`): an instruction is compiled
once and its code calls `bpt_rtn` or does not. `PIN_RemoveInstrumentation` is the one
operation of PIN itself that is modelled: it empties the cache.

**EventStream** counts the events of the debuggee and lists those given to IDA: the
next one may be given, and while the connection is up it will be.

**RpcSession** holds both ends. A step is what one end does between two uses of its
socket.

- The server's stack is a sequence of frames: a `process_request` that waits for the
  answer to RPC_OPEN (`open`), to a message (`MSG`, `SET_DEBUG_NAMES`) or, as
  the main loop, to nothing (`loop`); `perform_request` at work on a request of IDA
  (`GET_DEBUG_EVENT`, or `CALL` for all others), with `saved_poll_mode`; and
  `poll_events` in the debugger module (`poll`).
- A frame that waits serves what arrives (`Serve`, `GetEvok`), returns on an `RPC_OK`
  (`Answered`), polls the module when nothing has arrived and the flag says so
  (`poll_events`), or fails when the client has gone (`ServerReceiveFails`). A module
  asked for an event has one, has none, or sends a message first (`FetchEvent`,
  `FetchNothing`, `FetchNote`); the message leaves it in the middle of its call.
- `has_pending_event` of the server is set, sent and cleared within `poll_events`,
  so it is true only inside one step and needs no variable.
- The client is at one place of `open_remote`, `process_request` or
  `dbg_get_debug_event` (`cpc`). `GetAnswer`, `GetEvent` and `GetMessage` are its
  loop; a receive may fail by timeout at any point (`ReceiveFails`). `OpenAgain` makes a
  new server object and keeps the client's.
- A module that has told the user of something (`noted`) may say "no event"
  although a later one has come: `FetchNothing`.

**ThreadReports** knows neither signals nor freezes nor kept statuses. Of each thread
it has where it is (`at`: it runs, stands still, or its end was told) and what it did
that nobody handled yet (`untold`); of IDA the `line` of events, the first of which it
may be `handling`, whether it `asked` for a pause, and the threads it `suspended`. Only
a running thread does something (`Occur`); then it stands still. `Tell` puts what one
or two threads did into the line, under the name the kind of report allows
(`Tells`); what is no event, a `SIGSTOP` of the module or a signal that is
only logged, may be forgotten instead. A thread goes on (`GoOn`) only when nothing of it is
untold, the line is empty and the user has not suspended it.

`LinuxThreads` maps to it thus: what a thread did is `untold` from the moment the
kernel has a status of it, through its being kept with the thread (`pending_status`) and its
being handled (`job`), to the moment an event of it enters the queue
(`Untold`). `line` is the event that IDA handles followed by `events`. Freezes, collecting
a status and taking up a kept one are steps that the abstract specification does not see;
that they move a status and neither lose nor copy it is what the refinement says.

**LinuxThreads** has the kernel beside the module. `exec`, `sigstop` and `status` are the
kernel's: a running thread reports something of its own (`Happens`) or stops
for a `SIGSTOP` (`Stops`); what it reports waits for `waitpid`.

- A freeze has three parts. `StartEvent` or `StartAccess` does the first loop of
  `dbg_freeze_threads` and notes in `job` what it is for; `CollectStatus` is one turn of
  its second loop; `HandleStatus` or `FinishAccess` is the rest of the caller, with the
  removal of threads found dead. The module has one thread: while `job` is set
  nothing else of the module happens, but the debuggee goes on.
- `HandleStatus` has one disjunct per outcome of `get_debug_event`: a stop that
  was waited for or not, a signal that suspends or is logged, a hit of a breakpoint that
  is known or not any more, an exit.
- `Thaw` is `dbg_thaw_threads` as a function of the thread infos, with `Continued` the
  threads it resumes; it serves `resume_app`, `resume_all_threads` and
  `dbg_thread_continue`.
- IDA polls when it handles no event, and otherwise requests in any order:
  memory, breakpoints, a pause, suspending and continuing threads.
- The thread that waits for the exits of others holds at most one status; it is the
  set `reaped` in `Freeze`.

**LinuxThreadsMC** holds one statement of a comment that the code does not keep.

**PinSuspendMC, PinTraceMC, PinBptMC** hold the sessions and the statements that
the code is found not to keep. Definitions commented "Mutant" are used by no
specification: each is a plausible slip in the definition below it, and
`PROJECT.json` says which property notices it.

## 4. What the runs check

| run | question | size |
|---|---|---|
| `Stop` | Safety in nine kinds of session: types; state and semaphore agree; an unanswered report keeps the process suspended (`UnansweredMeansSuspended`) and its thread in the tool (`ReporterWaits`); no stop without an event (`NoSilentStop`); `ctrl_rtn` is switched on by each resume, and stays on, while a pending breakpoint, a step or a suspended thread needs it (`PendingAreWatched`, `StepIsArmed`, `SuspendedAreWatched`); pauses are kept; the end is final; and the tool implements `StopGo`. | 667,249 states |
| `Live` | With fair threads and an IDA that answers: pauses are answered, stops end, and both internal threads leave at the exit so that `fini_cb` meets neither timeout. | 86,456 states |
| `TraceFlush` | The buffer fills while threads stop, IDA pauses, and the process exits or is detached: only the answer to `TRACE_FULL` ends `WAIT_FLUSH`, a report made meanwhile keeps the process stopped, and waiting threads go on. | 456,360 states |
| `Bpt` | No breakpoint set before the application runs is ever run over, also when the `RESUME` of `PROCESS_START` is refused because of a suspended thread; one set later, one reinstrumentation at a time, is run over at most until the cache has been cleaned. That happens once a resume has taken the request, which only one that follows a stop does. | 1,093,592 states |
| `Rpc` | Both ends, two connections: events are neither lost, doubled nor overtaken (`EventsConserved`); `GET_DEBUG_EVENT` never meets an unacknowledged event; one end is in charge of the next event (`OneFetcher`); answers find their calls; a proper end leaves no broken connection; each request returns; and the connection implements `EventStream`, liveness included. | 182,116 states |
| `Linux` | Two threads that hit breakpoints, get signals and exit at any moment of a freeze: the module's assertions hold; kept statuses are counted; each stop and each `SIGSTOP` is known in one place; nobody runs while IDA handles an event or accesses the memory (`StandStill`); threads the user suspended do not run, all others do; a hit is reported; and the module implements `ThreadReports`. | 168,534 states |
| `PauseLost`, `SuspendNobody`, `DetachLost`, `FlushRuns`, `BptMissed`, `HitForgotten` | Six statements of comments that the code does not keep, see section 8. | short counterexamples |

`PendingAreWatched`, `StepIsArmed` and `SuspendedAreWatched` are action properties,
because they except one step. Whatever runs (`Going`) with a pending breakpoint,
a step or a suspended thread has `ctrl_rtn` on, and no step may end that: neither a
compilation, a callback, a resume nor another packet. The exception is an edit by
IDA *while the process runs*: a breakpoint, step or suspension asked for while it
handles `LIBRARY_LOAD`, or an event that came late. `do_resume` calls
`prepare_resume` only if the process was suspended, so nothing looks for it
until the next stop (hazard at `idadbg.cpp:1654`, and TLC shows it at once when the
exception is dropped). From that stop on the property applies to it as well, and it
goes on for all others. `LoadEditSession` has library loads with breakpoints, steps,
suspensions and pauses, `CatchSession` suspended threads with breakpoints and steps
of another thread.
`UnansweredMeansSuspended` and the other properties of the core were also
checked in larger sessions with more callbacks and packets at once
(20 million states) before they were proved.

`Linux` was also run by hand with three threads, once with three happenings and
two requests (1.1 million states) and once with two and three (595,000), with
the same result.

`~Ending` in a property: from the moment `exit_process` or `detach_process` is
called, or `PROCESS_EXIT` is answered, the tool promises nothing about stops;
what holds then is `OverIsFinal`.

## 5. Bounds

| bound | value | why enough |
|---|---|---|
| `Threads` | two (one in `BptMissed`) | every race is of one application thread with another, or of one with the listener; the proofs are for any number |
| `Addrs` | one, two in `Bpt` and `BptMissed` | one with and without a breakpoint; two so that compiling one moves another's pending breakpoint |
| `MaxQueue` | 2 | only `image_load_cb`, the one callback that may be repeated without an answer, is held up by it; the queue still grows to six events |
| `TraceLimit`, `ChunkSize`, `MaxTrace` | 1, 1, 2 | full after one entry, one more can slip in, two packets to read them |
| `Sessions` | 9 (`Stop`), 2 (`Live`), 2 (`TraceFlush`), 5 (`Bpt`), one in the rest | each joins what one question is about; all at once has too many states |
| `MaxEvents`, `MaxMessages` | 3, 3 | one event in the module, one on its way and one held; a message inside a call, inside a poll, and one more while either waits |
| `MaxCalls` | 6 | enough for requests to nest in messages twice; `GET_DEBUG_EVENT` is not bounded |
| `MaxFailures`, `MaxSessions` | 1, 2 | a failed receive ends a connection; what it leaves behind shows in the next one |
| `Thread`, `Addr` in `Linux` | two, one | one thread reports while the other is being stopped; the least thread, `Main`, gets the pauses; one breakpoint can be set, hit and removed |
| `MaxHappenings`, `MaxRequests` | 3, 3 (2, 2 in `HitForgotten`) | both threads report and one of them again; a breakpoint is added, removed, and one request comes in between |

Symmetry is not used: the main thread differs from the others. `Linux` may
deadlock: when the bounds are used up, and when the user has suspended all threads.

## 6. Fairness

`FairSpec` assumes weak fairness of

- the steps of a thread inside the tool, of the listener's own steps and of
  the reinstrumenter: they are threads of the operating system, and PIN's locks are
  given to waiters;
- `do_ctrl` of a running thread: an application thread executes instructions,
  so it meets `ctrl_rtn` while this is enabled;
- `READ_EVENT`: IDA polls; `RESUME`: it answers what it is given (`Answers`);
- `fini_cb`: PIN calls it when the last thread has gone.

Callbacks, pauses and all other packets are not fair: nothing forces them.
`PausesEnd`, a hypothesis of two properties, excludes only a user who asks for
pauses for ever. `TraceFairSpec` adds that IDA reads the buffer, `BptFairSpec` assumes
just the reinstrumenter and PIN's own removal of code. Liveness is
checked in sessions where IDA suspends no thread: what IDA does with a refused
`RESUME` is not in this repository.

`FairSpec` of `RpcSession`: the server's thread runs, IDA's reads its socket, and IDA
asks for events again and again (`GetsEvents`), which is how its debugger loop works.
Other requests, failures and happenings are not fair. `FairSpec` of
`LinuxThreads`: the module goes on with what it has begun (`Works`), IDA polls,
the kernel delivers a `SIGSTOP` to a thread that runs, and `waitpid` reports
each thread in the end. That IDA goes on after an event is a premise of `HitReported`,
not assumed by the specification.

## 7. What is proved

`PinSuspendProofs` proves with TLAPS, for every finite set of threads, every
non-empty set of addresses, every set of sessions and every `MaxQueue`
(`ConstantsAssumption`, the only assumption):

| theorem | property |
|---|---|
| `TypeCorrect` | `TypeOK` |
| `SemaphoreAlwaysMatches` | `SemaphoreMatchesState` |
| `BufferedResume` | `UnansweredMeansSuspended` |
| `NeverSilent` | `NoSilentStop` |
| `ReportersWait` | `ReporterWaits` |
| `PauseKept` | `PauseIsKept` |
| `FinalWhenOver` | `OverIsFinal` |

Types need more than types: `suspeded_cnt` is decremented, so that it stays a
natural number needs `CountInv` (it is the cardinality of the set of threads whose
flag is set, gone ones among them); `CountInv` in turn rests on `SuspensionPackets`,
the assumption that IDA resumes no thread it has not suspended. And an emitted event must be an event, so `EmitInv` says that a thread at
`emit` owns the lock and has one. `TypeInv` joins the three and is
inductive.

The safety properties need two more facts. `EndInv` says how a session ends:
`PROCESS_EXIT` comes only from `fini_cb`, which is called when no thread is left,
and `EXITING` and `DETACHED` go with what the listener does next; without it the
answer to an invented `PROCESS_EXIT` could end anything. `RtnInv`: the routine a
thread is in fits the event it reports, so that a thread that reports a
breakpoint, a step or an exception is one that will wait.
`SafetyInv`, the conjunction of these with the four state properties, is
inductive: the semaphore is set only by a resume, which needs an empty queue
and is the answer to the event IDA holds (so nothing is unanswered
afterwards), and queueing a stop event suspends the process in the same step.
TLC checked `SafetyInv` in wide sessions before it was proved.

`NoFlush`, the third part, says that the core alone never reaches `WAIT_FLUSH`. It is
a part by itself because `PinTrace` does reach that state, and its theorems reuse
whatever does not need `NoFlush`.

Lemmas about the queue (`QueueAppend`, `QueueTake`, `QueueRange`) say what
appending and taking do to the set of queued events; there is one lemma per group of
actions and part of the invariant, and one leaf per action below it.

`PinPromiseProofs` proves `PromiseKept`: every behaviour of `PinSuspend` is one of
`StopGo` under the mapping of section 3. The argument is a count: the number of open
reports is the number of queued events that stop the process, and one more while IDA
holds such an event. Appending a report raises it by one, taking one from the queue moves it into
IDA's hand, and the answer lowers it by one (`OpenAppend`, `OpenSame`).
Each step is then one of the steps of `StopGo` or a stutter.

`PinWatchProofs` proves three properties, for every session:

| theorem | property |
|---|---|
| `PendingAlwaysWatched` | `PendingAreWatched` |
| `StepAlwaysArmed` | `StepIsArmed` |
| `SuspendedAlwaysWatched` | `SuspendedAreWatched` |

`Watched` says what any step does, edits of a running process apart: afterwards the
process does not run, or the flag is on, or it was computed anew and nothing needs it
(`Lowered`), or flag and needs are `Kept`. A resume of a stopped process computes the
flag in the step that lets it run; compilations and `ctrl_rtn` itself compute it
whenever they change what it depends on. `SafetyInv` supplies the rest (types, and
that a thread that queues a stop suspends the process in the same step).

`PinTraceProofs` proves, for every number of threads and every
size of the buffer (`TraceAssumption`), with no premise on sessions:

| theorem | property |
|---|---|
| `TraceTypeCorrect` | `TraceTypeOK` |
| `FullAlwaysWaits` | `FullMeansWaiting` |
| `FlushNeverSilent` | `NoSilentFlush` |
| `ReportsOutlastFlush` | `UnansweredMeansStopped` |
| `SemaphoreMatchesInFlush` | `SemaphoreMatchesState` |
| `PauseKeptInFlush` | `PauseIsKept` |
| `FinalInFlush` | `OverIsFinal` |

Each step of `PinTrace` is a step of `PinSuspend`, `prepare_trace_flush` or `write_trace_flush`
(`StepsOfTrace`), so `TypeInv` and `EndInv` carry over and only
`FlushInv` (`FullMeansWaiting`, `NoSilentFlush` and `SemaphoreMatchesState`) has to be
shown again: while a `TRACE_FULL` is in the queue or in IDA's hand only its answer ends
`WAIT_FLUSH`, also when a thread meanwhile queues another event. `UnansweredMeansStopped`
is what is left of `UnansweredMeansSuspended` with flushes: a report made in `WAIT_FLUSH`
leaves that state as it is, so the process is `SUSPENDED` *or* `WAIT_FLUSH` until IDA
has answered everything. That its thread waits meanwhile is not true (`FlushRuns`), so
`PinTrace` does not implement `StopGo`. `FlushLock` says that a thread between `prepare_trace_flush` and `write_trace_flush`
owns `process_state_lock` and has found the process running, so that what it overwrites
is `RUNNING`, or an `EXITING` or `DETACHED` that came without the lock. The two action
properties follow from it and from the steps proved for the core (`PauseStep`,
`OverStep`): a pause is never overwritten, an end is not once the lock is free.
`FinalInFlush` says no more than that: a thread that is inside does write
`WAIT_FLUSH` over the end of the session.

`PinBptProofs` proves first that the code cache only takes steps away:
`CoreIsRefined` (every behaviour of `PinBpt` is one of `PinSuspend`) and with it
`PromiseKeptByCache` (`KeepsStopGoPromise`), for every session and every order of setting
breakpoints. It then proves `NeverBlind`: `NoBlindCode` in every session not in `Late`, with library
loads and suspended threads as well. What it says is this: a breakpoint set before the
application runs is never run over; one that IDA sets later, while nothing is being
reinstrumented, may be run over, but only while its reinstrumentation is still to be
requested (`need_reinst`) or under way. It says nothing of breakpoints set at any other
moment; those are the `Late` sessions, where `BptMissed` shows the property to be
false.
`StartInv` says that while the main thread is in `app_start_cb` nothing has been
compiled and no other thread is there. `CleanInv` is the heart: code that does not check
a breakpoint exists only where one change is made at a time, and only as long as the
request to clean the cache is still to come or under way and the cache not yet flushed.

`LinuxProofs` proves, for every finite set of thread ids of which `Main` is the least
(`ThreadAssumption`), every set of addresses (`AddrAssumption` keeps them apart from
the names of the other statuses) and all bounds (`BoundsAssumption`):

| theorem | property |
|---|---|
| `TypeCorrect` | `TypeOK` |
| `AssertionsAlwaysHold` | `AssertionsHold` |
| `PendingAlwaysCounted` | `PendingCounted` |
| `StopsAlwaysAccounted` | `StopsAccounted` |
| `SigstopsAlwaysAccounted` | `SigstopAccounted` |
| `SuspendedAlwaysStaysSo` | `SuspendedStaysSo` |
| `NobodyEverForgotten` | `NobodyForgotten` |

Its inductive invariant `IInv` says of each thread where its stop is known
(`Places`), whose `SIGSTOP` it expects (`Sigstops`), and that `suspend_count` is at most
the user's suspensions and one more for a freeze under way (`Suspensions`: without the
bound a freeze could leave a count behind and the thread would never
run again). Of the whole, it says what a freeze waits for (`Freezing`); that no thread
counts as running while IDA handles an event, one is queued or a freeze is complete
(`Frozenness`); and that a process that may not run has something to tell: an
event, a pause under way, or a kept status that will be reported
(`Resumption`, which `NobodyForgotten` rests on). Kept statuses are counted by
cardinality, so `PendingCounted` is part of it. TLC checked `IInv` before it was proved.
One lemma per action (`...Keeps`) shows that the parts are kept; the freeze, the
thaw, giving an event and the end of handling a status are lemmas of their own because
several actions share them. That the first thread with a kept status exists is
the well-foundedness of the natural numbers.

`LinuxPromiseProofs` proves, from the same assumptions:

| theorem | property |
|---|---|
| `AlwaysStandStill` | `StandStill` |
| `ReportsKept` | `KeepsReports`: `LinuxThreads` implements `ThreadReports` |

`IInv` says that no thread counts as running while IDA handles an event or a freeze is
complete; one that does not count may still run towards its `SIGSTOP`. `Still` adds that
such a thread is one the freeze still waits for, or the main thread after a
pause, and that the queue of a freeze is empty when IDA handles an event. It is
inductive together with `IInv`, because a thaw lets a thread with a pending
`SIGSTOP` find it at once. What remains of the exception is real: the memory may be
accessed while the main thread runs towards the `SIGSTOP` of a pause.

The refinement goes by steps. `ThreadFacts` says that at most one place has something
of a thread, so `Untold` reads the right one. `GoesOn` and `ThawGoesOn` turn a thaw into
`GoOn`, whichever of `resume_app`, `resume_all_threads` and `dbg_thread_continue`
it serves; that the line is empty when a thread goes on is `Frozenness`. `HandledTold` and
`DeadTold` turn the end of a freeze into `Tell`: a thread found dead has its exit untold
(`DeadFacts`, from `Places`), and there is one at most (`Still`), so one or two events are told.
Each action then has a lemma (`...Promised`): a step of `ThreadReports` or one it
does not see.

`RpcProofs` proves, for every number of events, messages, requests, failures
and connections (`BoundsAssumption`, which says that the bounds are naturals):

| theorem | property |
|---|---|
| `SessionTypes` | `TypeOK` |
| `NoEventIsLost` | `EventsConserved` |
| `FetchesAreAcknowledged` | `NoFetchWhileUnacknowledged` |
| `OneEndFetches` | `OneFetcher` |
| `AnswersReachTheirCall` | `AnswersFindTheirCall` |
| `OnlyFailureBreaks` | `BrokenOnlyByFailure` |
| `SessionImplementsStream` | the safety part of `EventStream` |

The queues and the server's stack have no bound in the proof, so the invariant counts
what is in them (`Count`, a cardinality of positions). `CallInv`: the client's
request is in one place, a packet, a frame that serves it, or an answer.
`TurnInv`: so is the turn to report the next event, which is the server's flag or its
saved copy, an `EVENT` packet or the acknowledgement of one, or `pending_event`; while
`GET_DEBUG_EVENT` is on its way or being served nobody has it. `NoteInv`: each message of
the server has one frame that waits and one packet, the message or its answer.
With at most one packet that carries an event, `Sent` has at most one element, and
`StreamInv` follows the next event from `due` through `Sent` and `Held` to `got`.
`HandshakeInv`, `GoodbyeInv` and `TermInv` say what is on the way when a connection opens,
is closed and ends the debugging; `AckInv` and `IdInv` speak of the order of packets. Pushing and
popping frames, sending and receiving are lemmas on what they do to the counts, which
the lemmas of single actions (`...Keeps`) use. `IInv` was checked by TLC before it was
proved. Each step then gives IDA the event that `StreamInv` puts next, or none.

Only model-checked are the liveness properties, which are out of TLAPS's reach:
`PauseIsAnswered`, `StopIsTemporary`, `FiniReturns`, `FlushEnds`, `BlindnessEnds`,
`RequestReturns`, `HitReported`, and the fairness part of `ImplementsStream` (no event
waits for ever). The constants of `Live`, `TraceFlush`, `Bpt`, `Rpc` and `Linux` bound what
these say. The refutations of section 8 are counterexamples and need no proof.

## 8. Where the code and its comments disagree

Each has a run that ends in a counterexample.

- **A pause can be forgotten** (`PauseLost`). `add_rtns` switches `ctrl_rtn` off when
  the last pending breakpoint becomes installed, though a pause is wanted:
  `need_control_cb` does not look at it. No thread enters `control_cb`, as the
  comment at `idadbg.cpp:1754` says it will.
- **A pause reports nobody** (`SuspendNobody`). A suspended thread that ends is
  not taken off `suspeded_cnt`; the pause then queues an event for "at least one
  suspended thread" that does not exist.
- **A detach can end the process** (`DetachLost`). A thread about to suspend the
  process overwrites `DETACHED`; the listener goes on, finds the socket closed and
  calls `exit_process`.
- **An exception during a flush stops nothing** (`FlushRuns`). `WAIT_FLUSH` counts
  as suspended but `run_app_sem` is set: the thread goes on with the exception
  unanswered.
- **A breakpoint is missed** (`BptMissed`). The first call of
  `reinit_instrumentations` cleans nothing; if code was compiled before it, `add_rtns`
  nevertheless takes the cache for clean.

- **A hit of a removed breakpoint becomes a signal of the program** (`HitForgotten`).
  The comment at `linux_debmod.cpp:767` says that only traps the program makes
  itself are passed on, and `removed_bpts` exists to tell them apart. A hit that is kept
  with a thread while the others are frozen is not a pending event for
  `has_pending_events`, which looks for threads with `suspend_count` 0; so
  `resume_app` forgets the removed breakpoint before the hit of it is reported, and the
  process gets a `SIGTRAP`. When `has_pending_events` does not look at
  `suspend_count`, TLC finds no such behaviour.

Seen while modelling, kept as hazards only: a breakpoint, step or suspension
asked for while an event that stopped nothing is handled is unwatched until the next stop
(1654); a pause with such an event in the
queue reports a suspended process that runs (1593); compiling code while suspended may
switch off `ctrl_rtn` for threads that have not stopped yet (2453); a request
to reinstrument that arrives between the end of one and the clearing of the
semaphore is lost (2779); a detach does not let threads go that wait for the trace
buffer to be read (718).

## 9. What is not modelled

- The start-up hand-over: `PinSuspend` has one listener from the beginning;
  it only distinguishes whether the main thread is still in `app_start_cb`.
- Packets that only read or write memory, registers, modules; wire formats;
  filters of the tracer; contents of trace entries.
- PIN's VM lock: a thread sees a finished compilation or removal at once.
- `TRY_TO_SUPPORT_REATTACH`, which the sources leave undefined.
- IDA itself: what it does after a refused `RESUME`, and packets it has no reason to send
  (editing without holding an event, suspending a thread twice, resuming one that it
  has not suspended).
- Of the connection: `RPC_ERROR`, `RPC_MEM`, the data of requests, and running out of memory.
  `TERM` is sent when the process is gone or detached, so no event can follow it.
- Of the Linux module: births of threads, single stepping, hardware breakpoints,
  low level conditions, library events, the exit of the main thread, detaching and
  `exit_process`. IDA suspends a thread only while it handles an event, and one
  that it has not suspended.
- Seen in these files and in no model: `retrieve_pending_signal` has priorities
  that have no effect (`linux_debmod.cpp:433`); `requested_to_suspend` is cleared by any event
  (897); a signal is passed on again when its thread is resumed for another reason (846);
  the trace buffer may pass its limit (`idadbg.cpp:3039`).
- The components marked to do in the plan, and those that `PROJECT.json` lists
  as not modelled, with the reason for each.
