---------------------------- MODULE PinSuspendMC ----------------------------
(***************************************************************************)
(* Sessions of PinSuspend for TLC: two threads, one address, and in each   *)
(* session the callbacks and packets that one question is about.  All of   *)
(* them together would be too many states.                                 *)
(***************************************************************************)
EXTENDS PinSuspend

CONSTANTS t1, t2, a1, a2, none

TwoThreads == {t1, t2}
OneAddr    == {a1}

Session(cbs, reqs) == [callbacks |-> cbs, requests |-> reqs]

\* Every callback that reports an event, with pauses in between
EventSession  == Session({"exception", "image_load", "thread_start"}, {"PAUSE"})
\* Threads that come and go until the process exits
ExitSession   == Session({"thread_start", "thread_fini", "fini"}, {"PAUSE"})
\* Breakpoints, steps and pauses after attaching to a process
AttachSession == Session({"thread_start", "attach"}, {"STEP", "ADD_BPT"})
PauseSession  == Session({}, {"PAUSE", "STEP", "ADD_BPT"})
\* Breakpoints and trace types changed
EditSession   == Session({"thread_start"}, {"ADD_BPT", "DEL_BPT", "SET_TRACE"})
\* Threads suspended by IDA
ThreadSession == Session({"thread_start"}, {"PAUSE", "THREAD_SUSPEND"})
\* One thread; edits while it runs (IDA handles a library load) and while it
\* stands, so that breakpoints, steps, suspensions and pauses meet
LoadEditSession == Session({"image_load"},
                           {"ADD_BPT", "STEP", "THREAD_SUSPEND", "PAUSE"})
\* Two threads, one of which may be suspended while the other one is stepped or
\* stopped at a breakpoint
CatchSession  == Session({"thread_start"}, {"ADD_BPT", "STEP", "THREAD_SUSPEND"})
\* Exit and detach requests
EndSession    == Session({"thread_start"}, {"PAUSE", "EXIT_PROCESS", "DETACH"})

StopSessions == {EventSession, ExitSession, AttachSession, PauseSession,
                 EditSession, ThreadSession, LoadEditSession, CatchSession, EndSession}

LoadSession  == Session({"thread_start", "image_load"}, {"PAUSE"})
LiveSessions == {LoadSession, ExitSession}

LostThreadSessions == {Session({"thread_start", "thread_fini"},
                               {"PAUSE", "THREAD_SUSPEND"})}
LostPauseSessions  == {Session({"thread_start"}, {"PAUSE", "ADD_BPT"})}
DetachSessions     == {Session({"thread_start"}, {"DETACH"})}
-----------------------------------------------------------------------------
(* What comments of the code say and the code does not keep                *)

\* idadbg.cpp:1754, PTT_PAUSE: "execution thread will be suspended later in
\* control_cb()".  Then ctrl_rtn must stay active while the pause is wanted.
PauseIsArmed == process_state = "PAUSE" => control_enabled

\* prepare_pause: "have at least one suspended thread: generate SUSPEND event
\* with undefined ea/tid": there is a thread to take them from.
SuspendHasThread ==
  \A i \in DOMAIN events :
    events[i].tid = NoThread => \E t \in thr_data : susp[t]

\* idd.hpp, detach_process: "Must detach from the process in any case": the
\* process goes on without the debugger, it is not ended.
DetachKeepsProcess ==
  ida = "closed" /\ pc[MainThread] # "app_start" => process_state # "EXITING"
=============================================================================
