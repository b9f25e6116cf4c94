------------------------------ MODULE PinSuspend ------------------------------
(***************************************************************************)
(* Stopping and resuming of the application by the IDA PIN tool            *)
(* (src/idadbg.cpp).                                                       *)
(*                                                                         *)
(* The tool runs inside the debugged process.  Application threads enter   *)
(* it through PIN callbacks and analysis routines; there they queue debug  *)
(* events, suspend the process and block on run_app_sem.  The listener     *)
(* thread serves one packet of IDA at a time; the reinstrumenter thread    *)
(* flushes PIN's code cache on request.  A step below is what one of these *)
(* threads does between two points where another one can interfere: a      *)
(* critical section of process_state_lock is one step, except that         *)
(* exit_process and detach_process write process_state without the lock,   *)
(* so a section that suspends the process is cut in two (Enter, Emit; in   *)
(* PinTrace prepare_trace_flush, write_trace_flush).                       *)
(*                                                                         *)
(* Trace buffering (state WAIT_FLUSH) is added by PinTrace, the code cache *)
(* by PinBpt.                                                              *)
(***************************************************************************)
EXTENDS Integers, Sequences, FiniteSets, Functions

CONSTANTS
  Threads,     \* application threads that may exist during the session
  MainThread,  \* the thread that runs app_start_cb
  NoThread,    \* INVALID_THREADID, NO_THREAD, and "nobody" as a lock owner
  Addrs,       \* instruction addresses the session distinguishes
  Sessions,    \* what may happen in a session: the PIN callbacks that occur and
               \* the packets IDA sends, besides READ_EVENT and RESUME
  MaxQueue     \* bound: events a callback may find queued when it adds one

CallbackKinds == {"thread_start", "thread_fini", "exception", "image_load",
                  "fini", "attach"}
RequestKinds  == {"PAUSE", "STEP", "THREAD_SUSPEND", "ADD_BPT", "DEL_BPT",
                  "SET_TRACE", "EXIT_PROCESS", "DETACH"}

ASSUME ConstantsAssumption ==
  /\ IsFiniteSet(Threads)
  /\ MainThread \in Threads
  /\ NoThread \notin Threads
  /\ Addrs # {}
  /\ Sessions \subseteq [callbacks : SUBSET CallbackKinds,
                         requests : SUBSET RequestKinds]
  /\ MaxQueue \in Nat

VARIABLES
  process_state,       \* process_state_t; NONE is left before Init
  process_state_lock,  \* the thread inside a section cut in two, or NoThread
  run_app_sem,         \* is the semaphore set?
  events,              \* ev_queue_t::queue
  last_ev,             \* ev_queue_t::last_retrieved_ev
  control_enabled,     \* bpt_mgr_t: is ctrl_rtn called before instructions?
  bpts, pending_bpts,  \* bpt_mgr_t: installed and not yet installed
  stepping_thread,     \* bpt_mgr_t: thread of the last STEP request
  break_at_next_inst,  \* stop at the next instruction (attaching)
  need_reinst,         \* bpt_mgr_t: reinstrument when the process resumes
  bpt_code,            \* addresses that were compiled with a call of bpt_rtn
  thr_data,            \* thread_data_t: threads that have an entry
  susp,                \* thread_data_t::susp; thr_sem is set iff it is FALSE
  suspeded_cnt,        \* thread_data_t::suspeded_cnt
  instr_state,         \* instrumenter_t::state
  reinstr_sem,         \* is the reinstrumenter's semaphore set?
  rpc,                 \* where the reinstrumenter thread is
  pc,                  \* where each application thread is
  rtn,                 \* the callback or analysis routine it is in
  ev,                  \* the event this routine is about to emit
  at,                  \* the address do_bpt was called for
  lpc,                 \* where the listener thread is
  ida,                 \* what IDA is doing
  ida_threads,         \* the threads IDA has been told of
  session,             \* the member of Sessions that this session is
  fini                 \* what fini_cb waits for (PIN_IsProcessExiting: not "no")

stateVars == <<process_state, process_state_lock, run_app_sem>>
queueVars == <<events, last_ev>>
bptVars   == <<control_enabled, bpts, pending_bpts, stepping_thread,
               break_at_next_inst, need_reinst, bpt_code>>
thrVars   == <<thr_data, susp, suspeded_cnt>>
insVars   == <<instr_state, reinstr_sem, rpc>>
appVars   == <<pc, rtn, ev, at>>
idaVars   == <<lpc, ida, ida_threads, fini>>
vars == <<stateVars, queueVars, bptVars, thrVars, insVars, appVars, idaVars,
          session>>

-----------------------------------------------------------------------------
ProcessStates == {"RUNNING", "PAUSE", "SUSPENDED", "WAIT_FLUSH", "EXITING",
                  "DETACHED"}

\* Events of a thread that the process is stopped for
StopEvents == {"BREAKPOINT", "STEP", "EXCEPTION", "THREAD_START",
               "THREAD_EXIT", "PROCESS_ATTACH", "PROCESS_START"}
EventIds   == StopEvents \cup {"PROCESS_SUSPEND", "LIBRARY_LOAD",
                               "PROCESS_EXIT", "TRACE_FULL"}
\* Only events that no thread reports may lack a thread.
Events     == [eid : EventIds, tid : Threads]
              \cup [eid : {"PROCESS_SUSPEND", "TRACE_FULL"}, tid : {NoThread}]
Event(eid, tid) == [eid |-> eid, tid |-> tid]

\* Mutant: waiting for a flush is no suspension.
process_suspended_no_flush == process_state = "SUSPENDED"

process_suspended == process_state \in {"SUSPENDED", "WAIT_FLUSH"}
process_over      == process_state \in {"EXITING", "DETACHED"}

\* thread_data_t
have_suspended_threads == suspeded_cnt # 0
all_threads_suspended  == /\ thr_data # {}
                          /\ suspeded_cnt = Cardinality(thr_data)

\* Mutants: a reason to call ctrl_rtn is forgotten.
need_control_cb_no_step(pending, brk) ==
  brk \/ have_suspended_threads \/ pending # {}
need_control_cb_no_susp(pending, brk) ==
  stepping_thread # NoThread \/ brk \/ pending # {}
need_control_cb_no_pending(pending, brk) ==
  stepping_thread # NoThread \/ brk \/ have_suspended_threads

\* bpt_mgr_t::need_control_cb, for given values of the two members that a
\* caller may have just changed
need_control_cb(pending, brk) ==
  \/ stepping_thread # NoThread
  \/ brk
  \/ have_suspended_threads
  \/ pending # {}

Init ==
  /\ session \in Sessions
  /\ process_state = "SUSPENDED"
  /\ process_state_lock = NoThread
  /\ run_app_sem = FALSE
  /\ events = <<Event("PROCESS_START", MainThread)>>
  /\ last_ev = Event("PROCESS_START", MainThread)
  /\ control_enabled = TRUE
  /\ bpts = {} /\ pending_bpts = {} /\ bpt_code = {}
  /\ stepping_thread = NoThread
  /\ break_at_next_inst = ("attach" \in session.callbacks)
  /\ need_reinst = FALSE
  /\ thr_data = {MainThread}
  /\ susp = [t \in Threads |-> FALSE]
  /\ suspeded_cnt = 0
  /\ instr_state = "INITIAL" /\ reinstr_sem = FALSE /\ rpc = "unstarted"
  /\ pc = [t \in Threads |-> IF t = MainThread THEN "app_start" ELSE "unborn"]
  /\ rtn = [t \in Threads |-> "none"]
  /\ ev = [t \in Threads |-> "NO_EVENT"]
  /\ at = [t \in Threads |-> CHOOSE a \in Addrs : TRUE]
  /\ lpc = "recv" /\ ida = "wait" /\ ida_threads = {} /\ fini = "no"

-----------------------------------------------------------------------------
(* Application threads: callbacks and analysis routines                    *)

\* Thread t enters the tool in routine r, to emit event e.
Call(t, r, e) ==
  /\ pc' = [pc EXCEPT ![t] = "lock"]
  /\ rtn' = [rtn EXCEPT ![t] = r]
  /\ ev' = [ev EXCEPT ![t] = e]

\* A thread is born: its data is created and THREAD_START is to be reported.
thread_start_cb(t) ==
  /\ "thread_start" \in session.callbacks
  /\ pc[t] = "unborn" /\ pc[MainThread] # "app_start" /\ fini = "no"
  /\ Call(t, "thread_start_cb", "THREAD_START")
  /\ thr_data' = thr_data \cup {t}
  /\ UNCHANGED <<stateVars, queueVars, bptVars, susp, suspeded_cnt, insVars,
                 at, idaVars>>

thread_fini_cb(t) ==
  /\ "thread_fini" \in session.callbacks
  /\ pc[t] = "run"
  /\ Call(t, "thread_fini_cb", "THREAD_EXIT")
  /\ UNCHANGED <<stateVars, queueVars, bptVars, thrVars, insVars, at, idaVars>>

\* A signal or exception, an exception inside PIN included.
context_change_cb(t) ==
  /\ "exception" \in session.callbacks
  /\ pc[t] = "run"
  /\ Call(t, "context_change_cb", "EXCEPTION")
  /\ UNCHANGED <<stateVars, queueVars, bptVars, thrVars, insVars, at, idaVars>>

\* The event is queued without process_state_lock and without a stop.
image_load_cb(t) ==
  /\ "image_load" \in session.callbacks
  /\ pc[t] = "run"
  /\ Len(events) < MaxQueue
  /\ events' = Append(events, Event("LIBRARY_LOAD", t))
  /\ UNCHANGED <<stateVars, last_ev, bptVars, thrVars, insVars, appVars,
                 idaVars>>

\* The last thread has gone; PROCESS_EXIT is queued for IDA and fini_cb waits
\* for the listener to leave.
fini_cb ==
  /\ "fini" \in session.callbacks
  /\ fini = "no"
  /\ \A t \in Threads : pc[t] \in {"unborn", "gone"}
  /\ fini' = "listener"
  /\ events' = Append(events, Event("PROCESS_EXIT", MainThread))
  /\ thr_data' = thr_data \cup {MainThread}
  /\ UNCHANGED <<stateVars, last_ev, bptVars, susp, suspeded_cnt, insVars,
                 appVars, lpc, ida, ida_threads>>

\* ... then instrumenter_t::finish tells the reinstrumenter to leave, too.
finish ==
  /\ fini = "listener" /\ lpc = "done"
  /\ fini' = "reinstrumenter"
  /\ reinstr_sem' = TRUE
  /\ UNCHANGED <<stateVars, queueVars, bptVars, thrVars, instr_state, rpc,
                 appVars, lpc, ida, ida_threads>>

\* ctrl_rtn is called before the instruction at a: under bpt_lock it decides
\* which event there is to emit.
do_ctrl(t, a) ==
  /\ pc[t] = "run" /\ control_enabled /\ process_state # "EXITING"
  /\ Call(t, "do_ctrl",
          IF a \in pending_bpts                        THEN "BREAKPOINT"
          ELSE IF stepping_thread = t
               THEN IF a \notin bpts                   THEN "STEP"
                                                       ELSE "NO_EVENT"
          ELSE IF break_at_next_inst /\ a \notin bpts  THEN "PROCESS_ATTACH"
                                                       ELSE "NO_EVENT")
  /\ UNCHANGED <<stateVars, queueVars, bptVars, thrVars, insVars, at, idaVars>>

\* bpt_rtn, inserted into the compiled instruction at a, is called.
do_bpt(t, a) ==
  /\ pc[t] = "run" /\ a \in bpt_code /\ process_state # "EXITING"
  /\ Call(t, "do_bpt", "NO_EVENT")
  /\ at' = [at EXCEPT ![t] = a]
  /\ UNCHANGED <<stateVars, queueVars, bptVars, thrVars, insVars, idaVars>>

\* Where thread t goes when it leaves the section of process_state_lock.
Leave(t) == CASE rtn[t] \in {"do_ctrl", "do_bpt"}   -> "thr_wait"
              [] rtn[t] = "context_change_cb"       -> "app_wait"
              [] OTHER                              -> "cb_wait"

\* Mutant: pause requests are not looked at.
EventUnderLock_no_pause(t) ==
  IF rtn[t] = "do_bpt" /\ at[t] \in bpts THEN "BREAKPOINT" ELSE ev[t]

\* The event to emit, decided once the lock is held.
EventUnderLock(t) ==
  CASE rtn[t] = "do_bpt" /\ at[t] \in bpts                 -> "BREAKPOINT"
    [] /\ rtn[t] = "do_ctrl" /\ ev[t] = "NO_EVENT"
       /\ process_state = "PAUSE"                          -> "PROCESS_SUSPEND"
    [] OTHER                                               -> ev[t]

\* Mutant: events are emitted when the process is over, too.
Emits_over(t) == EventUnderLock(t) # "NO_EVENT"

Emits(t) == EventUnderLock(t) # "NO_EVENT" /\ ~process_over

\* Thread t takes process_state_lock and finds nothing to emit, or finds that
\* the process is exiting or detached.
EnterIdle(t) ==
  /\ pc[t] = "lock" /\ process_state_lock = NoThread
  /\ ~Emits(t)
  /\ pc' = [pc EXCEPT ![t] = Leave(t)]
  /\ ev' = [ev EXCEPT ![t] = "NO_EVENT"]
  /\ UNCHANGED <<stateVars, queueVars, bptVars, thrVars, insVars, rtn, at,
                 idaVars>>

\* Thread t takes process_state_lock and decides to emit its event.
Enter(t) ==
  /\ pc[t] = "lock" /\ process_state_lock = NoThread
  /\ Emits(t)
  /\ process_state_lock' = t
  /\ pc' = [pc EXCEPT ![t] = "emit"]
  /\ ev' = [ev EXCEPT ![t] = EventUnderLock(t)]
  /\ UNCHANGED <<process_state, run_app_sem, queueVars, bptVars, thrVars,
                 insVars, rtn, at, idaVars>>

\* Suspend the process, unless it is suspended already.
do_suspend_nolock(new_state) ==
  IF process_suspended
  THEN UNCHANGED <<process_state, run_app_sem, control_enabled>>
  ELSE /\ run_app_sem' = FALSE
       /\ process_state' = new_state
       /\ control_enabled' = TRUE

\* emit_event (analysis routines) or suspend_at_event (callbacks): the event
\* is queued, the process is suspended and the lock is released.
Emit(t) ==
  /\ pc[t] = "emit"
  /\ do_suspend_nolock("SUSPENDED")
  /\ IF rtn[t] \in {"do_ctrl", "do_bpt"}
     THEN stepping_thread' = NoThread /\ break_at_next_inst' = FALSE
     ELSE UNCHANGED <<stepping_thread, break_at_next_inst>>
  /\ events' = Append(events, Event(ev[t], t))
  /\ process_state_lock' = NoThread
  /\ pc' = [pc EXCEPT ![t] = Leave(t)]
  /\ ev' = [ev EXCEPT ![t] = "NO_EVENT"]
  /\ UNCHANGED <<last_ev, bpts, pending_bpts, need_reinst, bpt_code, thrVars, insVars,
                 rtn, at, idaVars>>

\* wait_after_callback: the callback returns; the thread is to be stopped at
\* its next instruction.
wait_after_callback(t) ==
  /\ pc[t] = "cb_wait" /\ process_state_lock = NoThread
  /\ control_enabled' = (control_enabled \/ ~process_over)
  /\ pc' = [pc EXCEPT ![t] = IF rtn[t] = "thread_fini_cb" THEN "gone"
                                                          ELSE "run"]
  /\ rtn' = [rtn EXCEPT ![t] = "none"]
  /\ UNCHANGED <<stateVars, queueVars, bpts, pending_bpts, stepping_thread,
                 break_at_next_inst, need_reinst, bpt_code, thrVars, insVars,
                 ev, at, idaVars>>

\* thread_data_t::wait: blocks while IDA keeps this thread suspended.
thread_wait(t) ==
  /\ pc[t] = "thr_wait" /\ ~susp[t]
  /\ pc' = [pc EXCEPT ![t] = "app_wait"]
  /\ UNCHANGED <<stateVars, queueVars, bptVars, thrVars, insVars, rtn, ev, at,
                 idaVars>>

\* Mutant: serve_sync fails while the process is suspended.
serve_sync_fails_suspended == process_over \/ process_suspended

serve_sync_fails == process_over

\* wait_app_resume, first part: with the listener running, serve_sync only
\* looks at the state, and the semaphore is set if the process is over.
serve_sync(t) ==
  /\ pc[t] = "app_wait" /\ process_state_lock = NoThread
  /\ run_app_sem' = (run_app_sem \/ serve_sync_fails)
  /\ pc' = [pc EXCEPT ![t] = "sem_wait"]
  /\ UNCHANGED <<process_state, process_state_lock, queueVars, bptVars,
                 thrVars, insVars, rtn, ev, at, idaVars>>

\* Mutant: the thread does not wait.
sema_wait_not(t) ==
  /\ pc[t] = "sem_wait"
  /\ pc' = [pc EXCEPT ![t] = "run"]
  /\ rtn' = [rtn EXCEPT ![t] = "none"]
  /\ UNCHANGED <<stateVars, queueVars, bptVars, thrVars, insVars, ev, at,
                 idaVars>>

\* wait_app_resume, second part: the thread returns to the application.
sema_wait(t) ==
  /\ pc[t] = "sem_wait" /\ run_app_sem
  /\ pc' = [pc EXCEPT ![t] = "run"]
  /\ rtn' = [rtn EXCEPT ![t] = "none"]
  /\ UNCHANGED <<stateVars, queueVars, bptVars, thrVars, insVars, ev, at,
                 idaVars>>

\* PIN compiles the instruction at a, which thread t is about to execute:
\* pending breakpoints become installed ones, and the instruction gets a
\* call of bpt_rtn if it has one.
add_rtns(t, a) ==
  /\ pc[t] = "run"
  /\ LET lazy  == \/ stepping_thread # NoThread
                  \/ have_suspended_threads
                  \/ instr_state # "OK"
         moved == IF lazy THEN pending_bpts \cap {a} ELSE pending_bpts
     IN /\ bpts' = bpts \cup moved
        /\ pending_bpts' = pending_bpts \ moved
        /\ bpt_code' = bpt_code \cup ({a} \cap bpts')
        /\ control_enabled' = IF moved = {} THEN control_enabled
                              ELSE need_control_cb(pending_bpts',
                                                   break_at_next_inst)
  /\ UNCHANGED <<stateVars, queueVars, stepping_thread, break_at_next_inst,
                 need_reinst, thrVars, insVars, appVars, idaVars>>

-----------------------------------------------------------------------------
(* The listener thread: packets of IDA.  IDA answers every event with      *)
(* RESUME; it holds one event at a time ("handling") and sends the packets *)
(* that change breakpoints, stepping or threads only while it holds one    *)
(* that is not the exit of the process ("Editing").                        *)

ListenerIdle == lpc = "recv" /\ ida # "closed"
Handling     == ListenerIdle /\ ida = "handling"
Editing      == Handling /\ last_ev.eid # "PROCESS_EXIT"

\* PTT_READ_EVENT
pop_debug_event ==
  /\ ListenerIdle /\ ida \in {"wait", "pausing"}
  /\ events # <<>>
  /\ last_ev' = Head(events)
  /\ events' = Tail(events)
  /\ ida' = "handling"
  /\ ida_threads' = IF Head(events).eid \in {"PROCESS_START", "THREAD_START"}
                    THEN ida_threads \cup {Head(events).tid} ELSE ida_threads
  /\ UNCHANGED <<stateVars, bptVars, thrVars, insVars, appVars, lpc, fini>>

\* instrumenter_t::reinit_instrumentations
reinit_instrumentations ==
  IF instr_state = "INITIAL"
  THEN instr_state' = "OK" /\ UNCHANGED <<reinstr_sem, rpc>>
  ELSE /\ instr_state' = "NEED_REINIT"
       /\ reinstr_sem' = (reinstr_sem \/ rpc # "unstarted")
       /\ UNCHANGED rpc

\* Mutants: the queue is not looked at; looked at the wrong way round; the
\* state is not looked at.
ResumeNow_early   == process_suspended
ResumeNow_swapped == events # <<>> /\ process_suspended
ResumeNow_always  == events = <<>>

\* Buffered resume: does this RESUME resume the process?
ResumeNow == events = <<>> /\ process_suspended

\* Mutant: the end of the process is not noted.
StateAfterResume_no_exit == IF ResumeNow THEN "RUNNING" ELSE process_state

StateAfterResume ==
  IF last_ev.eid = "PROCESS_EXIT" THEN "EXITING"
  ELSE IF ResumeNow THEN "RUNNING" ELSE process_state

\* The part of do_resume that resumes the process.
ActualResume ==
  /\ run_app_sem' = (run_app_sem \/ process_state # "WAIT_FLUSH")
  /\ control_enabled' = need_control_cb(pending_bpts, break_at_next_inst)
  /\ need_reinst' = FALSE
  /\ IF need_reinst THEN reinit_instrumentations ELSE UNCHANGED insVars

NoResume == UNCHANGED <<run_app_sem, control_enabled, need_reinst, insVars>>

\* Mutant: a thread that goes is counted out, suspended or not.
release_thread_data_counts(t) ==
  /\ thr_data' = thr_data \ {t}
  /\ suspeded_cnt' = suspeded_cnt - 1
  /\ UNCHANGED susp

\* The entry is erased; the counter is left as it is, also if the thread was
\* suspended.
release_thread_data(t) ==
  /\ thr_data' = thr_data \ {t}
  /\ UNCHANGED <<susp, suspeded_cnt>>

\* PTT_RESUME.  While all threads are suspended the request is refused and
\* IDA keeps the event.  RESUME of PROCESS_START also lets the main thread
\* leave app_start_cb.
do_resume ==
  /\ Handling /\ process_state_lock = NoThread
  /\ ~all_threads_suspended
  /\ IF ResumeNow THEN ActualResume ELSE NoResume
  /\ process_state' = StateAfterResume
  /\ IF last_ev.eid = "THREAD_EXIT" THEN release_thread_data(last_ev.tid)
                                    ELSE UNCHANGED thrVars
  /\ ida_threads' = IF last_ev.eid = "THREAD_EXIT"
                    THEN ida_threads \ {last_ev.tid} ELSE ida_threads
  /\ pc' = IF last_ev.eid = "PROCESS_START" /\ pc[MainThread] = "app_start"
           THEN [pc EXCEPT ![MainThread] = "run"] ELSE pc
  /\ ida' = "wait"
  /\ UNCHANGED <<process_state_lock, queueVars, bpts, pending_bpts,
                 stepping_thread, break_at_next_inst, bpt_code, rtn, ev, at,
                 lpc, fini>>

\* The refused RESUME of PROCESS_START: handle_packets, which serves packets
\* in the main thread until then, looks at the request only, and returns.
resume_refused ==
  /\ Handling /\ all_threads_suspended
  /\ last_ev.eid = "PROCESS_START" /\ pc[MainThread] = "app_start"
  /\ pc' = [pc EXCEPT ![MainThread] = "run"]
  /\ UNCHANGED <<stateVars, queueVars, bptVars, thrVars, insVars, rtn, ev, at,
                 idaVars>>

\* IDA asks for no pause after the answer to PROCESS_EXIT.
MayPause == /\ ListenerIdle /\ ida = "wait"
            /\ process_state # "EXITING"

\* PTT_PAUSE with events in the queue: prepare_pause only queues SUSPEND.
prepare_pause_queued ==
  /\ "PAUSE" \in session.requests
  /\ MayPause
  /\ events # <<>>
  /\ events' = Append(events, Event("PROCESS_SUSPEND",
                                    events[Len(events)].tid))
  /\ ida' = "pausing"
  /\ UNCHANGED <<stateVars, last_ev, bptVars, thrVars, insVars, appVars, lpc,
                 ida_threads, fini>>

\* PTT_PAUSE with an empty queue: the queue was looked at without the lock.
prepare_pause_begin ==
  /\ "PAUSE" \in session.requests
  /\ MayPause
  /\ events = <<>>
  /\ lpc' = "pause"
  /\ ida' = "pausing"
  /\ UNCHANGED <<stateVars, queueVars, bptVars, thrVars, insVars, appVars,
                 ida_threads, fini>>

\* ... then the lock is taken.
PauseUnderLock ==
  /\ lpc = "pause" /\ process_state_lock = NoThread
  /\ lpc' = "recv"
  /\ UNCHANGED <<process_state_lock, last_ev, bpts, pending_bpts,
                 stepping_thread, break_at_next_inst, need_reinst, bpt_code,
                 thrVars, insVars, appVars, ida, ida_threads, fini>>

prepare_pause_ignored ==
  /\ PauseUnderLock
  /\ process_state # "RUNNING"
  /\ UNCHANGED <<process_state, run_app_sem, control_enabled, events>>

\* Mutant: the event is forgotten.
prepare_pause_suspend_silent ==
  /\ PauseUnderLock
  /\ process_state = "RUNNING" /\ have_suspended_threads
  /\ do_suspend_nolock("SUSPENDED")
  /\ UNCHANGED events

\* IDA keeps a thread suspended: stop at once.
prepare_pause_suspend ==
  /\ PauseUnderLock
  /\ process_state = "RUNNING" /\ have_suspended_threads
  /\ events' = Append(events, Event("PROCESS_SUSPEND", NoThread))
  /\ do_suspend_nolock("SUSPENDED")

\* Otherwise the threads are to stop in do_ctrl.
prepare_pause_request ==
  /\ PauseUnderLock
  /\ process_state = "RUNNING" /\ ~have_suspended_threads
  /\ control_enabled' = TRUE
  /\ process_state' = "PAUSE"
  /\ UNCHANGED <<run_app_sem, events>>

prepare_pause_locked ==
  prepare_pause_ignored \/ prepare_pause_suspend \/ prepare_pause_request

\* PTT_STEP
set_step(t) ==
  /\ "STEP" \in session.requests
  /\ Editing /\ t \in ida_threads
  /\ stepping_thread' = t
  /\ UNCHANGED <<stateVars, queueVars, control_enabled, bpts, pending_bpts,
                 break_at_next_inst, need_reinst, bpt_code, thrVars, insVars,
                 appVars, idaVars>>

\* PTT_THREAD_SUSPEND: flag and counter are changed whatever they are.
thread_suspend(t) ==
  /\ "THREAD_SUSPEND" \in session.requests
  /\ Editing /\ t \in ida_threads
  /\ susp' = [susp EXCEPT ![t] = TRUE]
  /\ suspeded_cnt' = suspeded_cnt + 1
  /\ UNCHANGED <<stateVars, queueVars, bptVars, thr_data, insVars, appVars,
                 idaVars>>

\* PTT_THREAD_RESUME: the same.
thread_resume(t) ==
  /\ Editing /\ t \in ida_threads
  /\ susp' = [susp EXCEPT ![t] = FALSE]
  /\ suspeded_cnt' = suspeded_cnt - 1
  /\ UNCHANGED <<stateVars, queueVars, bptVars, thr_data, insVars, appVars,
                 idaVars>>

\* PTT_ADD_BPT
add_soft_bpt(a) ==
  /\ "ADD_BPT" \in session.requests
  /\ Editing /\ a \notin bpts \cup pending_bpts
  /\ pending_bpts' = pending_bpts \cup {a}
  /\ need_reinst' = TRUE
  /\ UNCHANGED <<stateVars, queueVars, control_enabled, bpts, stepping_thread,
                 break_at_next_inst, bpt_code, thrVars, insVars, appVars,
                 idaVars>>

\* PTT_DEL_BPT
del_soft_bpt(a) ==
  /\ "DEL_BPT" \in session.requests
  /\ Editing /\ a \in bpts \cup pending_bpts
  /\ bpts' = bpts \ {a}
  /\ pending_bpts' = IF a \in bpts THEN pending_bpts ELSE pending_bpts \ {a}
  /\ need_reinst' = TRUE
  /\ UNCHANGED <<stateVars, queueVars, control_enabled, stepping_thread,
                 break_at_next_inst, bpt_code, thrVars, insVars, appVars,
                 idaVars>>

\* PTT_SET_TRACE with other trace types than the current ones
update_instrumentation ==
  /\ "SET_TRACE" \in session.requests
  /\ Editing
  /\ reinit_instrumentations
  /\ UNCHANGED <<stateVars, queueVars, bptVars, thrVars, appVars, idaVars>>

\* PTT_EXIT_PROCESS, or the connection was closed: exit_process writes the
\* state without process_state_lock.
exit_process ==
  /\ lpc = "recv"
  /\ ida = "closed" \/ "EXIT_PROCESS" \in session.requests
  /\ process_state' = "EXITING"
  /\ lpc' = "exit_set"
  /\ UNCHANGED <<process_state_lock, run_app_sem, queueVars, bptVars, thrVars,
                 insVars, appVars, ida, ida_threads, fini>>

\* PTT_DETACH: detach_process also writes the state without the lock.
detach_process ==
  /\ "DETACH" \in session.requests
  /\ ListenerIdle
  /\ process_state' = "DETACHED"
  /\ lpc' = "detach_set"
  /\ ida' = "closed"
  /\ UNCHANGED <<process_state_lock, run_app_sem, queueVars, bptVars, thrVars,
                 insVars, appVars, ida_threads, fini>>

\* ... then either sets the semaphore and leaves: PIN_ExitProcess ends the
\* process, after PIN_Detach the listener goes on.
set_run_app_sem ==
  /\ lpc \in {"exit_set", "detach_set"}
  /\ run_app_sem' = TRUE
  /\ lpc' = IF lpc = "exit_set" THEN "exited" ELSE "check_detached"
  /\ UNCHANGED <<process_state, process_state_lock, queueVars, bptVars,
                 thrVars, insVars, appVars, ida, ida_threads, fini>>

\* The listener's loop: it ends when the process is detached (the loop of
\* handle_packets in app_start_cb does not look) ...
listener_detached ==
  /\ lpc = "check_detached"
  /\ lpc' = IF process_state = "DETACHED" /\ pc[MainThread] # "app_start"
            THEN "done" ELSE "recv"
  /\ UNCHANGED <<stateVars, queueVars, bptVars, thrVars, insVars, appVars, ida,
                 ida_threads, fini>>

\* ... or exiting, with every event delivered.
listener_exiting ==
  /\ lpc = "recv" /\ fini # "no"
  /\ events = <<>> /\ process_state = "EXITING"
  /\ lpc' = "done"
  /\ UNCHANGED <<stateVars, queueVars, bptVars, thrVars, insVars, appVars, ida,
                 ida_threads, fini>>

-----------------------------------------------------------------------------
(* The reinstrumenter thread                                               *)

ReinstrStep(from, to) ==
  /\ rpc = from /\ rpc' = to
  /\ UNCHANGED <<stateVars, queueVars, bptVars, thrVars, appVars, idaVars>>

reinstr_start ==
  /\ ReinstrStep("unstarted", "wait")
  /\ UNCHANGED <<instr_state, reinstr_sem>>

\* remove_instrumentations before and after PIN_RemoveInstrumentation
remove_begin ==
  /\ reinstr_sem
  /\ ReinstrStep("wait", "remove")
  /\ instr_state' = "REINIT_STARTED"
  /\ UNCHANGED reinstr_sem

remove_end ==
  /\ ReinstrStep("remove", "clear")
  /\ instr_state' = "OK"
  /\ UNCHANGED reinstr_sem

reinstr_clear ==
  /\ ReinstrStep("clear", "wait")
  /\ reinstr_sem' = FALSE
  /\ UNCHANGED instr_state

reinstr_exit ==
  /\ process_over
  /\ ReinstrStep("wait", "done")
  /\ UNCHANGED <<instr_state, reinstr_sem>>

-----------------------------------------------------------------------------
\* The steps of thread t inside the tool: nothing but the lock, IDA and other
\* threads can hold them up.
InsideTool(t) ==
  \/ EnterIdle(t) \/ Enter(t) \/ Emit(t)
  \/ wait_after_callback(t) \/ thread_wait(t) \/ serve_sync(t) \/ sema_wait(t)

AppThread(t) ==
  \/ InsideTool(t)
  \/ thread_start_cb(t) \/ thread_fini_cb(t) \/ context_change_cb(t)
  \/ image_load_cb(t)
  \/ \E a \in Addrs : do_ctrl(t, a) \/ do_bpt(t, a) \/ add_rtns(t, a)

Application == fini_cb \/ finish \/ \E t \in Threads : AppThread(t)

\* An assumption on IDA, which the tool does not check: IDA suspends "a running
\* thread" and resumes "a suspended thread" (idd.hpp:727), no other.
SuspensionPackets(t) ==
  \/ ~susp[t] /\ thread_suspend(t)
  \/ susp[t] /\ thread_resume(t)

OtherPackets ==
  \/ pop_debug_event \/ resume_refused
  \/ prepare_pause_queued \/ prepare_pause_begin \/ prepare_pause_locked
  \/ \E t \in Threads : set_step(t) \/ SuspensionPackets(t)
  \/ \E a \in Addrs : add_soft_bpt(a) \/ del_soft_bpt(a)
  \/ update_instrumentation
  \/ exit_process \/ detach_process \/ set_run_app_sem
  \/ listener_detached \/ listener_exiting

Listener == do_resume \/ OtherPackets

Reinstrumenter ==
  \/ reinstr_start
  \/ remove_begin \/ remove_end \/ reinstr_clear \/ reinstr_exit

\* PIN_ExitProcess has ended every thread, or the listener has left.
Terminated == lpc \in {"exited", "done"}

Next ==
  \/ /\ lpc # "exited" /\ (Application \/ Listener \/ Reinstrumenter)
     /\ UNCHANGED session
  \/ Terminated /\ UNCHANGED vars

Spec == Init /\ [][Next]_vars

\* Threads are scheduled, application threads execute instructions (so one
\* that may be checked by ctrl_rtn is checked), IDA polls for events, and PIN
\* calls fini_cb when the last thread has gone.
Alive(A) == lpc # "exited" /\ A /\ UNCHANGED session
Fairness ==
  /\ \A t \in Threads : /\ WF_vars(Alive(InsideTool(t)))
                        /\ WF_vars(Alive(\E a \in Addrs : do_ctrl(t, a)))
  /\ WF_vars(Alive(pop_debug_event))
  /\ WF_vars(Alive(prepare_pause_locked))
  /\ WF_vars(Alive(set_run_app_sem))
  /\ WF_vars(Alive(listener_detached))
  /\ WF_vars(Alive(listener_exiting))
  /\ WF_vars(Alive(Reinstrumenter))
  /\ WF_vars(Alive(fini_cb)) /\ WF_vars(Alive(finish))

\* IDA also answers every event it is given.
Answers == WF_vars(Alive(do_resume))

FairSpec == Spec /\ Fairness /\ Answers

-----------------------------------------------------------------------------
(* Properties                                                              *)

\* Every variable holds a value of its C++ type; that the counter of suspended
\* threads, an int, is a natural number rests on SuspensionPackets.
TypeOK ==
  /\ session \in Sessions
  /\ process_state \in ProcessStates
  /\ process_state_lock \in Threads \cup {NoThread}
  /\ run_app_sem \in BOOLEAN
  /\ events \in Seq(Events)
  /\ last_ev \in Events
  /\ control_enabled \in BOOLEAN
  /\ bpts \subseteq Addrs /\ pending_bpts \subseteq Addrs
  /\ bpt_code \subseteq Addrs
  /\ stepping_thread \in Threads \cup {NoThread}
  /\ break_at_next_inst \in BOOLEAN
  /\ need_reinst \in BOOLEAN
  /\ thr_data \subseteq Threads
  /\ susp \in [Threads -> BOOLEAN]
  /\ suspeded_cnt \in Nat
  /\ instr_state \in {"INITIAL", "NEED_REINIT", "REINIT_STARTED", "OK"}
  /\ reinstr_sem \in BOOLEAN
  /\ rpc \in {"unstarted", "wait", "remove", "clear", "done"}
  /\ pc \in [Threads -> {"unborn", "app_start", "run", "lock", "emit", "cb_wait",
                         "thr_wait", "app_wait", "sem_wait", "gone"}]
  /\ rtn \in [Threads -> {"none", "do_ctrl", "do_bpt", "thread_start_cb",
                          "thread_fini_cb", "context_change_cb"}]
  /\ ev \in [Threads -> StopEvents \cup {"PROCESS_SUSPEND", "NO_EVENT"}]
  /\ at \in [Threads -> Addrs]
  /\ lpc \in {"recv", "pause", "exit_set", "detach_set", "check_detached",
              "exited", "done"}
  /\ ida \in {"wait", "pausing", "handling", "closed"}
  /\ ida_threads \subseteq Threads
  /\ fini \in {"no", "listener", "reinstrumenter"}

\* exit_process or detach_process has been called, or PROCESS_EXIT answered.
Ending == \/ lpc \in {"exit_set", "detach_set", "check_detached", "exited"}
          \/ ida = "closed"
          \/ process_state = "EXITING"

\* The state and the semaphore agree: the semaphore that threads block on is
\* clear exactly while the process is suspended (do_suspend_nolock clears it,
\* do_resume sets it, and nothing else may come between).
SemaphoreMatchesState ==
  ~Ending => (process_state = "SUSPENDED" <=> ~run_app_sem)

\* Events of a stopped thread that IDA has not answered yet
Unanswered ==
  {e \in Range(events) \cup (IF ida = "handling" THEN {last_ev} ELSE {}) :
     e.eid \in StopEvents}

\* Buffered resume: while an event that a thread was stopped for is queued, or
\* is held by IDA without an answer, the process stays suspended.  This is
\* what the comment above do_resume promises, whatever other events, pauses
\* and refused or premature resumes come in between.
UnansweredMeansSuspended ==
  ~Ending /\ Unanswered # {} => process_state = "SUSPENDED"

\* A thread that reported a breakpoint, a step or an exception waits in the
\* tool until IDA has answered the report.
ReporterWaits ==
  \A e \in Unanswered :
    ~Ending /\ e.eid \in {"BREAKPOINT", "STEP", "EXCEPTION", "PROCESS_ATTACH"}
      => pc[e.tid] \in {"app_wait", "sem_wait", "thr_wait"}

\* The process is never suspended without an event that makes IDA send
\* RESUME: a silent stop would hang the session.
NoSilentStop ==
  ~Ending /\ process_state = "SUSPENDED" => events # <<>> \/ ida = "handling"

\* Application code may be executed.
Going == ~Ending /\ process_state \in {"RUNNING", "PAUSE"}

\* While the process runs, ctrl_rtn stays active as long as there are
\* breakpoints that no compiled code checks yet (class comment of
\* pending_bpts): every resume sees to it, and neither compiling nor a callback
\* nor another packet undoes it.  One edit is excepted.  A breakpoint that IDA
\* adds while the process runs (it handles a LIBRARY_LOAD then, or a SUSPEND
\* that came late) may stay unwatched until the next stop, since do_resume
\* calls prepare_resume only if the process was suspended.
PendingWatched == Going /\ pending_bpts # {} => control_enabled
PendingAreWatched ==
  [][PendingWatched /\ (Going => pending_bpts' \subseteq pending_bpts)
       => PendingWatched']_vars

\* A pause request is forgotten only when the process stops for another
\* reason or ends: the answer to an event that did not stop the process must
\* not cancel it (do_resume tests process_suspended).
PauseIsKept ==
  [][process_state = "PAUSE"
       => process_state' \in {"PAUSE", "SUSPENDED", "EXITING", "DETACHED"}]_vars

\* The end is final.  Once the process is exiting or detached while no thread
\* is inside a section that suspends it, no thread starts to report a stop any
\* more, and no packet, pause or answer brings the process back.  (A thread
\* inside such a section has tested the state before: exit_process and
\* detach_process write it without the lock that the test is made under.)
OverIsFinal ==
  [][process_over /\ process_state_lock = NoThread
       => process_over' /\ process_state_lock' = NoThread]_vars

\* A thread that IDA has suspended is caught at its next instruction when the
\* process goes on: ctrl_rtn is active while there is one, whatever breakpoints,
\* steps and pauses do to the flag.  Excepted as above: a suspension that IDA
\* asks for while the process runs.
SuspendedWatched == Going /\ have_suspended_threads => control_enabled
SuspendedAreWatched ==
  [][SuspendedWatched /\ (Going => suspeded_cnt' <= suspeded_cnt)
       => SuspendedWatched']_vars

\* A single step is not lost: until the thread (or another one) stops, ctrl_rtn
\* is active while the process runs.  Excepted as above: a step that IDA asks
\* for while the process runs.
StepWatched == Going /\ stepping_thread # NoThread => control_enabled
StepIsArmed ==
  [][StepWatched /\ (Going => stepping_thread' \in {stepping_thread, NoThread})
       => StepWatched']_vars

\* The PIN tool keeps the promise of buffered resume.
Held == {t \in Threads : pc[t] \in {"thr_wait", "app_wait", "sem_wait"}}
Open ==
  Cardinality({i \in DOMAIN events : events[i].eid \in StopEvents})
  + (IF ida = "handling" /\ last_ev.eid \in StopEvents THEN 1 ELSE 0)

StopGoPromise == INSTANCE StopGo WITH
  stopped <- process_state = "SUSPENDED",
  open    <- Open,
  held    <- Held,
  over    <- Ending
KeepsStopGoPromise == StopGoPromise!Spec

\* IDA, having asked for a pause, gets an event to handle: a thread stops in
\* ctrl_rtn, or something else is reported first.
PauseIsAnswered == ida = "pausing" ~> ida # "pausing"

\* The user of IDA stops asking for pauses at some time.
PausesEnd == <>[](ida # "pausing")

\* If IDA answers what it is given and does not ask for pauses for ever, a
\* suspended process goes on: the queue runs empty and do_resume lets it run.
StopIsTemporary ==
  PausesEnd => (process_state = "SUSPENDED" ~> process_state # "SUSPENDED")

\* When the process exits, the listener delivers the events that are left and
\* leaves, and the reinstrumenter leaves: fini_cb does not run into either of
\* its timeouts.
FiniReturns == PausesEnd => (fini # "no" ~> lpc = "done" /\ rpc = "done")
=============================================================================
