------------------------------ MODULE LinuxThreads ------------------------------
(***************************************************************************)
(* The Linux debugger module and the threads of the debuggee               *)
(* (src/idasdk66/plugins/debugger: linux_debmod.cpp, linux_wait.cpp,       *)
(* linux_threads.cpp).                                                     *)
(*                                                                         *)
(* The module stops all threads, with a SIGSTOP for each, whenever one of  *)
(* them reports something, and to access the memory.  While it waits for   *)
(* the SIGSTOPs the threads may report other things; such a status is kept *)
(* with its thread and reported later, and the SIGSTOP arrives later too.  *)
(* The kernel's side of ptrace is the environment.                         *)
(*                                                                         *)
(* Left out: births of threads, single stepping, hardware breakpoints,     *)
(* low level conditions, library events, the exit of the main thread,      *)
(* detaching.  The module has one thread, so IDA's requests and its        *)
(* polling exclude each other; only the debuggee runs beside it.           *)
(***************************************************************************)
EXTENDS Naturals, Sequences, FiniteSets

CONSTANTS
  Thread,        \* thread ids
  Main,          \* process_handle, the id of the main thread
  Addr,          \* addresses IDA may put a breakpoint at
  MaxHappenings, \* bound: what the debuggee does on its own
  MaxRequests    \* bound: requests of IDA other than those about events

None == "none"

ASSUME ThreadAssumption ==
  /\ Thread \subseteq Nat /\ IsFiniteSet(Thread)
  /\ Main \in Thread /\ \A t \in Thread : Main <= t
ASSUME AddrAssumption ==
  Addr \intersect {None, "stop", "quiet", "loud", "exit"} = {}
ASSUME BoundsAssumption == MaxHappenings \in Nat /\ MaxRequests \in Nat

VARIABLES
  exec,          \* kernel: is the thread running, stopped or gone
  sigstop,       \* kernel: a SIGSTOP is pending for the thread
  status,        \* kernel: what waitpid will report of the thread
  code,          \* addresses where the memory of the debuggee has a breakpoint
  threads,       \* threads the module knows
  info,          \* thread_info_t of each
  npending,      \* npending_signals
  events,        \* queue of events for IDA
  current,       \* the event IDA handles; in_event
  last_tid,      \* last_event.tid
  requested,     \* requested_to_suspend
  may_run,
  bpts, removed, \* bpts, removed_bpts
  job,           \* what dbg_freeze_threads was called for
  queue,         \* its queue: threads whose SIGSTOP it waits for
  deadtids,      \* its threads found dead
  happenings, requests  \* what the bounds count

kernel  == <<exec, sigstop, status>>
counts  == <<happenings, requests>>
freezer == <<job, queue, deadtids>>
vars == <<kernel, code, threads, info, npending, events, current, last_tid,
          requested, may_run, bpts, removed, freezer, counts>>

(* What waitpid reports: the SIGSTOP, a breakpoint hit (as its address), a
   signal that suspends the process, one that is only logged, the exit.     *)
Signals  == {"quiet", "loud"}
Statuses == Addr \cup Signals \cup {"stop", "exit"}

Info == [state : {"RUNNING", "STOPPED"}, suspend_count : Nat, user_suspend : Nat,
         waiting_sigstop : BOOLEAN, pending_status : Statuses \cup {None},
         child_signum : {None, "SIGTRAP", "other"}]
Event(eid, tid) == [eid |-> eid, tid |-> tid]
Eids   == {"PROCESS_START", "BREAKPOINT", "EXCEPTION", "PROCESS_SUSPEND", "THREAD_EXIT"}
Events == [eid : Eids, tid : Thread]
Job(op, tid, arg) == [op |-> op, tid |-> tid, arg |-> arg]
Jobs == [op : {"event"}, tid : Thread, arg : Statuses]
        \cup [op : {"access"}, tid : Thread, arg : {None}]
        \cup [op : {"add_bpt", "del_bpt"}, tid : Thread, arg : Addr]

NoEvent == Event(None, Main)
NoJob   == Job(None, Main, None)
Idle     == job = NoJob
in_event == current # NoEvent

got_pending_status(i) == i.pending_status # None
\* Mutant: a thread may be told to stop twice.
is_running_waiting(i) == i.state = "RUNNING" /\ ~got_pending_status(i)
is_running(i) ==
  i.state = "RUNNING" /\ ~i.waiting_sigstop /\ ~got_pending_status(i)
MayReport(i) == got_pending_status(i) /\ i.user_suspend = 0 /\ i.suspend_count = 0
has_pending_events(f) == \E t \in threads : MayReport(f[t])

\* The module has attached and IDA was not told yet: all threads are stopped.
Init ==
  /\ exec = [t \in Thread |-> "stop"] /\ sigstop = [t \in Thread |-> FALSE]
  /\ status = [t \in Thread |-> None] /\ code = {}
  /\ threads = Thread
  /\ info = [t \in Thread |->
               [state |-> "STOPPED", suspend_count |-> 0, user_suspend |-> 0,
                waiting_sigstop |-> FALSE, pending_status |-> None,
                child_signum |-> None]]
  /\ npending = 0
  /\ events = <<Event("PROCESS_START", Main)>> /\ current = NoEvent
  /\ last_tid = Main /\ requested = FALSE /\ may_run = FALSE
  /\ bpts = {} /\ removed = {}
  /\ job = NoJob /\ queue = {} /\ deadtids = {}
  /\ happenings = 0 /\ requests = 0

(***************************************************************************)
(* The debuggee and the kernel                                             *)
(***************************************************************************)
Reports(t, st) ==
  /\ exec[t] = "run"
  /\ exec' = [exec EXCEPT ![t] = IF st = "exit" THEN "gone" ELSE "stop"]
  /\ status' = [status EXCEPT ![t] = st]

Stops(t) ==
  /\ sigstop[t] /\ Reports(t, "stop")
  /\ sigstop' = [sigstop EXCEPT ![t] = FALSE]
  /\ UNCHANGED <<code, threads, info, npending, events, current, last_tid,
                 requested, may_run, bpts, removed, freezer, counts>>

\* A thread hits a breakpoint, gets a signal or exits.
Happens(t, st) ==
  /\ happenings < MaxHappenings
  /\ happenings' = happenings + 1
  /\ st \in code \cup Signals \/ (st = "exit" /\ t # Main)
  /\ Reports(t, st)
  /\ UNCHANGED <<sigstop, code, threads, info, npending, events, current,
                 last_tid, requested, may_run, bpts, removed, freezer, requests>>

\* PTRACE_CONT.  A thread with a pending SIGSTOP stops again at once.
Cont(ts) ==
  /\ exec' = [t \in Thread |-> IF t \in ts /\ ~sigstop[t] THEN "run" ELSE exec[t]]
  /\ status' = [t \in Thread |-> IF t \in ts /\ sigstop[t] THEN "stop" ELSE status[t]]
  /\ sigstop' = [t \in Thread |-> sigstop[t] /\ t \notin ts]

(***************************************************************************)
(* dbg_freeze_threads, dbg_thaw_threads, resume_app                        *)
(***************************************************************************)
\* The first loop of dbg_freeze_threads, with the thread infos f.  The kill
\* fails for a dead thread whose exit the waiter has already collected; the
\* waiter holds one status at most.
Freeze(f, what) ==
  LET running == {t \in threads : is_running(f[t])}
      dead    == {t \in running : exec[t] = "gone"}
  IN  \E reaped \in {{}} \cup {{t} : t \in dead} :
        /\ job' = what
        /\ queue' = running \ reaped
        /\ deadtids' = reaped
        /\ sigstop' = [t \in Thread |-> sigstop[t] \/ t \in running \ dead]
        /\ info' = [t \in Thread |->
             IF t \in threads \ reaped
             THEN [f[t] EXCEPT !.suspend_count = @ + 1,
                               !.waiting_sigstop = @ \/ t \in running]
             ELSE f[t]]

\* dbg_thaw_threads: what becomes of the infos f, and whom it continues
\* Mutant: a thread that was frozen once stays so.
Thawed_late(f, t) == f[t].suspend_count = 0 /\ ~is_running(f[t])
Thawed(f, t) == f[t].suspend_count < 2 /\ ~is_running(f[t])
\* Mutants: may_run is ignored; the user's suspensions are.
Continued_always(f, who, may) ==
  {t \in who : /\ Thawed(f, t) /\ f[t].user_suspend = 0
               /\ ~got_pending_status(f[t]) /\ f[t].state = "STOPPED"}
Continued_user(f, who, may) ==
  {t \in who : /\ may /\ Thawed(f, t)
               /\ ~got_pending_status(f[t]) /\ f[t].state = "STOPPED"}
Continued(f, who, may) ==
  {t \in who : /\ may /\ Thawed(f, t) /\ f[t].user_suspend = 0
               /\ ~got_pending_status(f[t]) /\ f[t].state = "STOPPED"}
\* Mutant: the count is decremented although it is zero.
Thaw_below(f, who, may) ==
  [t \in Thread |->
     IF t \notin who \/ is_running(f[t]) THEN f[t]
     ELSE [f[t] EXCEPT !.suspend_count = @ - 1,
                       !.state = IF t \in Continued(f, who, may) THEN "RUNNING" ELSE @]]
Thaw(f, who, may) ==
  [t \in Thread |->
     IF t \notin who \/ is_running(f[t]) THEN f[t]
     ELSE [f[t] EXCEPT !.suspend_count = IF @ = 0 THEN 0 ELSE @ - 1,
                       !.state = IF t \in Continued(f, who, may) THEN "RUNNING" ELSE @]]

\* resume_app(NO_THREAD), with the infos f of the threads who and the events q
resume_app(f, who, q) ==
  LET may == q = <<>> /\ ~has_pending_events(f)
  IN  /\ may_run' = may
      /\ info' = Thaw(f, who, may)
      /\ Cont(Continued(f, who, may))
      /\ bpts' = IF may THEN bpts \ removed ELSE bpts
      /\ removed' = IF may THEN {} ELSE removed

\* The second loop of dbg_freeze_threads takes what waitpid reports, of the
\* threads in its queue or of others (store_pending_signal).
CollectStatus(t) ==
  /\ ~Idle /\ queue # {} /\ status[t] # None
  /\ status' = [status EXCEPT ![t] = None]
  /\ queue' = queue \ {t}
  /\ IF t \notin threads THEN UNCHANGED <<info, npending>>
     ELSE IF info[t].waiting_sigstop /\ status[t] = "stop"
     THEN /\ info' = [info EXCEPT ![t].waiting_sigstop = FALSE,
                                  ![t].state = "STOPPED"]
          /\ UNCHANGED npending
     ELSE /\ info' = [info EXCEPT ![t].pending_status = status[t]]
          /\ npending' = npending + 1
  /\ UNCHANGED <<exec, sigstop, code, threads, events, current, last_tid,
                 requested, may_run, bpts, removed, job, deadtids, counts>>

\* The end of dbg_freeze_threads: no SIGSTOP is awaited any more, and the
\* threads found dead are removed (dead_thread), each with an event.
Frozen == ~Idle /\ queue = {}
EventsOfDead ==
  IF deadtids = {} THEN events
  ELSE Append(events, Event("THREAD_EXIT", CHOOSE t \in deadtids : TRUE))
FreezeReturns == job' = NoJob /\ queue' = {} /\ deadtids' = {}

\* Mutants: the count of kept statuses is not corrected, or always.
del_thread_not == UNCHANGED npending
del_thread_always == npending' = npending - Cardinality(threads \ threads')
\* del_thread, of the threads that this step removes
del_thread ==
  npending' = npending -
    Cardinality({t \in threads \ threads' : got_pending_status(info[t])})

(***************************************************************************)
(* Events                                                                  *)
(***************************************************************************)
\* Mutant: the event given to IDA stays in the queue.
GiveEvent_again(q) ==
  /\ current' = Head(q)
  /\ events' = q
  /\ requested' = FALSE
\* dbg_get_debug_event gives IDA the first of the events q.
GiveEvent(q) ==
  /\ current' = Head(q)
  /\ events' = Tail(q)
  /\ requested' = FALSE

GiveQueued ==
  /\ Idle /\ ~in_event /\ events # <<>>
  /\ GiveEvent(events)
  /\ UNCHANGED <<kernel, code, threads, info, npending, last_tid, may_run, bpts,
                 removed, freezer, counts>>

\* Mutant: the thread is not marked STOPPED.
StartEvent_running(f, t, st) == Freeze(f, Job("event", t, st))
\* get_debug_event has a status of the thread t, and stops the others.
StartEvent(f, t, st) ==
  Freeze([f EXCEPT ![t].state = "STOPPED"], Job("event", t, st))

Polls == Idle /\ ~in_event /\ events = <<>>

\* check_for_new_events: waitpid has a status; one of a removed thread is dropped.
NewStatus(t) ==
  /\ Polls /\ status[t] # None
  /\ status' = [status EXCEPT ![t] = None]
  /\ IF t \in threads THEN StartEvent(info, t, status[t])
     ELSE UNCHANGED <<freezer, sigstop, info>>
  /\ UNCHANGED <<exec, code, threads, npending, events, current, last_tid,
                 requested, may_run, bpts, removed, counts>>

\* retrieve_pending_signal: nothing was seen by waitpid (yet); a status kept
\* earlier is taken, of the thread of the last event or of the first one.
PendingStatus ==
  LET ready == {t \in threads : MayReport(info[t])}
      t == IF last_tid \in ready THEN last_tid
           ELSE CHOOSE u \in ready : \A v \in ready : u <= v
  IN  /\ Polls /\ npending # 0 /\ ready # {}
      /\ npending' = npending - 1
      /\ StartEvent([info EXCEPT ![t].pending_status = None], t,
                    info[t].pending_status)
      /\ UNCHANGED <<exec, status, code, threads, events, current, last_tid,
                     requested, may_run, bpts, removed, counts>>

\* The rest of get_debug_event, for a status that is an event: the event goes
\* to the end of the queue and the first one there to IDA.
Report(eid, signum) ==
  /\ info' = [info EXCEPT ![job.tid].child_signum = signum]
  /\ GiveEvent(Append(EventsOfDead, Event(eid, job.tid)))
  /\ last_tid' = job.tid
  /\ threads' = threads \ deadtids
  /\ may_run' = FALSE
  /\ UNCHANGED <<kernel, bpts, removed>>

\* RESUME: nothing to report.  The process is resumed, unless IDA asked for a
\* pause; then it is told that the process is suspended.
Resume(f) ==
  /\ threads' = threads \ deadtids
  /\ IF requested
     THEN /\ info' = f
          /\ GiveEvent(Append(EventsOfDead, Event("PROCESS_SUSPEND", job.tid)))
          /\ may_run' = FALSE
          /\ UNCHANGED <<kernel, bpts, removed>>
     ELSE /\ resume_app(f, threads \ deadtids, EventsOfDead)
          /\ events' = EventsOfDead
          /\ UNCHANGED <<current, requested>>
  /\ UNCHANGED last_tid

HandleStatus ==
  /\ Frozen /\ job.op = "event"
  /\ FreezeReturns
  /\ LET i == info[job.tid]
     IN  \/ /\ job.arg = "stop" /\ i.waiting_sigstop
            /\ Resume([info EXCEPT ![job.tid].waiting_sigstop = FALSE])
         \/ /\ job.arg = "stop" /\ ~i.waiting_sigstop
            /\ Report("EXCEPTION", "other")
         \/ job.arg = "loud" /\ Report("EXCEPTION", "other")
         \/ /\ job.arg = "quiet"
            /\ Resume([info EXCEPT ![job.tid].child_signum = "other"])
         \/ job.arg \in Addr \intersect bpts /\ Report("BREAKPOINT", None)
         \* taken for a trap of the program itself; SIGTRAP may be masked
         \/ /\ job.arg \in Addr \ bpts
            /\ \E signum \in {None, "SIGTRAP"} : Report("EXCEPTION", signum)
         \/ /\ job.arg = "exit"
            /\ threads' = threads \ (deadtids \cup {job.tid})
            /\ GiveEvent(Append(EventsOfDead, Event("THREAD_EXIT", job.tid)))
            /\ last_tid' = job.tid /\ may_run' = FALSE
            /\ UNCHANGED <<kernel, info, bpts, removed>>
  /\ del_thread
  /\ UNCHANGED <<code, counts>>

\* IDA has handled its event.  A signal it handled is not passed on.  An event
\* of a thread that is gone is refused, but for its exit.
dbg_continue_after_event(handled) ==
  /\ Idle /\ in_event
  /\ current.tid \in threads \/ current.eid = "THREAD_EXIT"
  /\ current' = NoEvent
  /\ LET t == current.tid
         resets == t \in threads /\ current.eid # "THREAD_EXIT"
                   /\ (current.eid # "EXCEPTION" \/ handled)
     IN  resume_app(IF resets THEN [info EXCEPT ![t].child_signum = None] ELSE info,
                    threads, events)
  /\ UNCHANGED <<code, threads, npending, events, last_tid, requested, freezer,
                 counts>>

(***************************************************************************)
(* Requests of IDA                                                         *)
(***************************************************************************)
Request == Idle /\ requests < MaxRequests /\ requests' = requests + 1

\* Main is the first thread, so it is the one marked as well.
dbg_prepare_to_pause_process ==
  /\ Request /\ ~in_event
  /\ IF events = <<>>
     THEN /\ sigstop' = [sigstop EXCEPT ![Main] = TRUE]
          /\ info' = [info EXCEPT ![Main].waiting_sigstop = TRUE]
     ELSE UNCHANGED <<sigstop, info>>
  /\ may_run' = FALSE
  /\ requested' = TRUE
  /\ UNCHANGED <<exec, status, code, threads, npending, events, current,
                 last_tid, bpts, removed, freezer, happenings>>

\* The memory is read or written, a breakpoint is added or deleted: all with
\* the threads frozen.  (dbg_add_bpt reads in a freeze of its own first: that
\* is access_memory before it.)
StartAccess(op, ea) ==
  /\ Request
  /\ Freeze(info, Job(op, Main, ea))
  /\ UNCHANGED <<exec, status, code, threads, npending, events, current,
                 last_tid, requested, may_run, bpts, removed, happenings>>

access_memory   == StartAccess("access", None)
dbg_add_bpt(ea) == ea \notin code /\ StartAccess("add_bpt", ea)
dbg_del_bpt(ea) == ea \in code /\ StartAccess("del_bpt", ea)

\* IDA suspends a thread while it handles an event, and only one that it has
\* not suspended.  No thread counts as running then: dbg_freeze_threads has
\* none to stop.
dbg_thread_suspend(t) ==
  /\ Request /\ in_event
  /\ t \in threads /\ info[t].user_suspend = 0
  /\ info' = [info EXCEPT ![t].suspend_count = @ + 1, ![t].user_suspend = @ + 1]
  /\ UNCHANGED <<kernel, code, threads, npending, events, current, last_tid,
                 requested, may_run, bpts, removed, freezer, happenings>>

\* The access itself, resume_all_threads, and what add_bpt and del_bpt note.
FinishAccess ==
  /\ Frozen /\ job.op # "event"
  /\ FreezeReturns
  /\ threads' = threads \ deadtids
  /\ events' = EventsOfDead
  /\ LET may == may_run /\ deadtids = {}
     IN  /\ may_run' = may
         /\ info' = Thaw(info, threads \ deadtids, may)
         /\ Cont(Continued(info, threads \ deadtids, may))
  /\ \/ job.op = "access" /\ UNCHANGED <<code, bpts, removed>>
     \/ /\ job.op = "add_bpt"
        /\ code' = code \cup {job.arg}
        /\ bpts' = bpts \cup {job.arg}
        /\ removed' = removed \ {job.arg}
     \/ /\ job.op = "del_bpt"
        /\ code' = code \ {job.arg}
        /\ removed' = removed \cup {job.arg}
        /\ UNCHANGED bpts
  /\ del_thread
  /\ UNCHANGED <<current, last_tid, requested, counts>>

dbg_thread_continue(t) ==
  /\ Request /\ t \in threads /\ info[t].user_suspend > 0
  /\ LET f == [info EXCEPT ![t].user_suspend = @ - 1]
     IN  IF f[t].user_suspend > 0
         THEN info' = f /\ UNCHANGED kernel
         ELSE /\ info' = Thaw(f, {t}, may_run)
              /\ Cont(Continued(f, {t}, may_run))
  /\ UNCHANGED <<code, threads, npending, events, current, last_tid, requested,
                 may_run, bpts, removed, freezer, happenings>>

(***************************************************************************)
Debuggee == \E t \in Thread : Stops(t) \/ \E st \in Statuses : Happens(t, st)

GetDebugEvent ==
  GiveQueued \/ PendingStatus \/ \E t \in Thread : NewStatus(t)

Works ==
  \/ HandleStatus \/ FinishAccess
  \/ \E t \in Thread : CollectStatus(t)

Requests ==
  \/ dbg_prepare_to_pause_process \/ access_memory
  \/ \E ea \in Addr : dbg_add_bpt(ea) \/ dbg_del_bpt(ea)
  \/ \E t \in Thread : dbg_thread_suspend(t) \/ dbg_thread_continue(t)

Continue == \E handled \in BOOLEAN : dbg_continue_after_event(handled)

Next == Debuggee \/ GetDebugEvent \/ Works \/ Requests \/ Continue

Spec == Init /\ [][Next]_vars

(***************************************************************************)
(* Fairness: the module runs while it has something to do, IDA polls it,   *)
(* and the kernel delivers SIGSTOP.  IDA need not continue after an event  *)
(* nor request anything, and nothing need happen in the debuggee.          *)
(***************************************************************************)
FairSpec ==
  /\ Spec
  /\ WF_vars(Works)
  /\ WF_vars(GetDebugEvent)
  /\ \A t \in Thread : WF_vars(Stops(t)) /\ WF_vars(NewStatus(t))

-----------------------------------------------------------------------------
(***************************************************************************)
(* Properties                                                              *)
(***************************************************************************)
TypeOK ==
  /\ exec \in [Thread -> {"run", "stop", "gone"}]
  /\ sigstop \in [Thread -> BOOLEAN]
  /\ status \in [Thread -> Statuses \cup {None}]
  /\ code \subseteq Addr /\ bpts \subseteq Addr /\ removed \subseteq Addr
  /\ threads \subseteq Thread /\ info \in [Thread -> Info]
  /\ npending \in Nat
  /\ events \in Seq(Events) /\ current \in Events \cup {NoEvent}
  /\ last_tid \in Thread /\ requested \in BOOLEAN /\ may_run \in BOOLEAN
  /\ job \in Jobs \cup {NoJob}
  /\ queue \subseteq Thread /\ deadtids \subseteq Thread
  /\ happenings \in Nat /\ requests \in Nat

\* QASSERTs 30188, 30057 and 30185: a thread that counts as running is not
\* suspended; what waitpid reports or has reported is of a thread that was
\* not stopped yet; and there is one status of a thread at a time, unless the
\* thread exits.
AssertionsHold ==
  \A t \in threads :
    /\ is_running(info[t]) => info[t].suspend_count = 0
    /\ status[t] \notin {None, "exit"} =>
         info[t].state # "STOPPED" /\ ~got_pending_status(info[t])
    /\ got_pending_status(info[t]) => info[t].state # "STOPPED"

\* npending_signals counts the statuses kept with the threads: else one is
\* never looked for, or looked for in vain (and QASSERT 30186 fails).
PendingCounted ==
  npending = Cardinality({t \in threads : got_pending_status(info[t])})

\* Each stop of a thread is known in one place: it waits to be collected, is
\* kept with the thread, or is handled and the thread marked STOPPED.  A
\* thread that no place knows would stay stopped for ever.
StopsAccounted ==
  \A t \in threads :
    LET places == {status[t] # None, got_pending_status(info[t]),
                   info[t].state = "STOPPED"}
    IN  /\ exec[t] = "stop" => TRUE \in places
        /\ exec[t] = "run" => TRUE \notin places

\* waiting_sigstop is set only while a SIGSTOP is on its way, else a real stop
\* would be ignored; and no SIGSTOP is on its way to a thread that does not
\* expect it, else the user sees it as an exception.  (The second does not
\* hold of the main thread: a pause sends one although another may be there.)
SigstopAccounted ==
  \A t \in threads : exec[t] # "gone" =>
    LET coming == \/ sigstop[t] \/ status[t] = "stop"
                  \/ ~Idle /\ job.op = "event" /\ job.tid = t /\ job.arg = "stop"
    IN  /\ info[t].waiting_sigstop => coming
        /\ coming /\ t # Main => info[t].waiting_sigstop

\* Memory is read and written, and IDA is told of an event, while no thread
\* runs, but the main one when a pause has sent it a SIGSTOP
\* (linux_debmod.cpp:1211: "all threads are stopped").
StandStill ==
  Frozen \/ in_event =>
    \A t \in threads : exec[t] = "run" => t = Main /\ sigstop[t]

\* A thread that the user suspended does not run, however often the others
\* are stopped and resumed, ...
SuspendedStaysSo ==
  Idle => \A t \in threads :
            info[t].user_suspend > 0 /\ exec[t] = "run" => sigstop[t]

\* ... and one that he did not is not held back: unless IDA handles an event
\* or asked for a pause, or there is something to report, every such thread
\* runs.
NobodyForgotten ==
  Polls /\ ~requested /\ (\A t \in Thread : status[t] = None /\ ~sigstop[t])
        /\ ~has_pending_events(info) =>
    \A t \in threads : info[t].user_suspend = 0 => exec[t] # "stop"

\* A breakpoint that is hit is reported to IDA as an event of that thread, if
\* IDA goes on after each event and the user does not keep the thread
\* suspended.
HitReported ==
  []<>~in_event =>
    \A t \in Thread :
      status[t] \in Addr ~>
        \/ in_event /\ current.tid = t /\ current.eid \in {"BREAKPOINT", "EXCEPTION"}
        \/ info[t].user_suspend > 0

(* The module keeps the promise of ThreadReports.                           *)
Kind(st) == IF st \in Addr THEN "hit" ELSE st
Untold(t) ==
  IF t \notin threads THEN None
  ELSE IF job.op = "event" /\ job.tid = t THEN Kind(job.arg)
  ELSE IF got_pending_status(info[t]) THEN Kind(info[t].pending_status)
  ELSE Kind(status[t])
At(t) == IF t \notin threads THEN "gone"
         ELSE IF exec[t] = "run" THEN "runs" ELSE "stands"
Line == (IF in_event THEN <<current>> ELSE <<>>) \o events
Suspended == {t \in threads : info[t].user_suspend > 0}
Promise ==
  INSTANCE ThreadReports
    WITH Threads <- Thread, at <- [t \in Thread |-> At(t)],
         untold <- [t \in Thread |-> Untold(t)], line <- Line,
         handling <- in_event, asked <- requested, suspended <- Suspended

\* What a thread does is told once or, for a signal that is logged or a
\* SIGSTOP, forgotten; the thread does not go on before.
KeepsReports == Promise!Spec
=============================================================================
