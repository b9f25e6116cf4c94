------------------------------- MODULE PinTrace -------------------------------
(***************************************************************************)
(* The trace buffer of the IDA PIN tool (instrumenter_t of                 *)
(* src/idadbg.cpp).  Application threads store an entry for each traced    *)
(* instruction; a thread that finds the buffer full stops the process with *)
(* state WAIT_FLUSH and waits until IDA has read the buffer.  This module  *)
(* adds these steps to PinSuspend: a thread that stores an entry does      *)
(* nothing else, and do_resume ends with a step of its own that lets the   *)
(* waiting threads go, outside of process_state_lock.                      *)
(***************************************************************************)
EXTENDS PinSuspend

CONSTANTS
  TraceLimit,  \* instrumenter_t::enqueue_limit
  ChunkSize,   \* TRACE_EVENTS_SIZE, the entries of one packet
  MaxTrace     \* bound: entries the buffer may hold in the model

ASSUME TraceAssumption ==
  /\ TraceLimit \in Nat \ {0}
  /\ ChunkSize \in Nat \ {0}
  /\ MaxTrace \in Nat

VARIABLES
  trace_len,     \* how many entries trace_addrs has
  tracebuf_sem,  \* is the semaphore set?
  tr,            \* where each thread is in store_trace_entry
  resuming,      \* the listener has left the lock in do_resume
  drained        \* has IDA read everything since it got the event?

traceVars == <<trace_len, tracebuf_sem, tr, resuming, drained>>
tvars     == <<vars, traceVars>>

TraceInit ==
  /\ Init
  /\ trace_len = 0
  /\ tracebuf_sem = TRUE
  /\ tr = [t \in Threads |-> "out"]
  /\ resuming = FALSE
  /\ drained = FALSE

tracebuf_is_full == trace_len >= TraceLimit

Goto(t, where) == tr' = [tr EXCEPT ![t] = where]

-----------------------------------------------------------------------------
(* Application threads                                                     *)

\* An instruction is traced: ctrl_rtn, which is called first, was disabled.
store_trace_entry(t) ==
  /\ pc[t] = "run" /\ tr[t] = "out" /\ ~control_enabled
  /\ trace_len < MaxTrace
  /\ Goto(t, "wait")
  /\ UNCHANGED <<vars, trace_len, tracebuf_sem, resuming, drained>>

\* The instruction that thread t has been stopped at is traced when the
\* thread goes on.
store_after_stop(t) ==
  /\ tr[t] = "out" /\ rtn[t] \in {"do_ctrl", "do_bpt"}
  /\ trace_len < MaxTrace
  /\ sema_wait(t)
  /\ Goto(t, "wait")
  /\ UNCHANGED <<session, trace_len, tracebuf_sem, resuming, drained>>

\* app_wait(&tracebuf_sem), first part: as in serve_sync, the semaphore is set
\* if the process is over.
sync_tracebuf(t) ==
  /\ tr[t] \in {"wait", "flush"} /\ process_state_lock = NoThread
  /\ tracebuf_sem' = (tracebuf_sem \/ serve_sync_fails)
  /\ Goto(t, IF tr[t] = "wait" THEN "sem" ELSE "flush_sem")
  /\ UNCHANGED <<vars, trace_len, resuming, drained>>

\* ... second part: before the buffer is looked at,
wait_tracebuf(t) ==
  /\ tr[t] = "sem" /\ tracebuf_sem
  /\ Goto(t, "check")
  /\ UNCHANGED <<vars, trace_len, tracebuf_sem, resuming, drained>>

check_tracebuf(t) ==
  /\ tr[t] = "check"
  /\ Goto(t, IF tracebuf_is_full THEN "full" ELSE "push")
  /\ UNCHANGED <<vars, trace_len, tracebuf_sem, resuming, drained>>

\* Mutant: the buffer is flushed whatever state the process is in.
prepare_trace_flush_always(t) ==
  /\ tr[t] = "full" /\ process_state_lock = NoThread
  /\ process_state_lock' = t
  /\ Goto(t, "flushing")
  /\ UNCHANGED <<process_state, run_app_sem, queueVars, bptVars, thrVars,
                 insVars, appVars, idaVars, session, trace_len, tracebuf_sem,
                 resuming, drained>>

\* The buffer is full: thread t takes process_state_lock and finds the process
\* running, as far as exit_process and detach_process have not written yet.
prepare_trace_flush(t) ==
  /\ tr[t] = "full" /\ process_state_lock = NoThread
  /\ process_state = "RUNNING"
  /\ process_state_lock' = t
  /\ Goto(t, "flushing")
  /\ UNCHANGED <<process_state, run_app_sem, queueVars, bptVars, thrVars,
                 insVars, appVars, idaVars, session, trace_len, tracebuf_sem,
                 resuming, drained>>

\* IDA is told first of all, with a thread id that nobody has set; the state is
\* written over whatever it is by now, and the lock is released.
write_trace_flush(t) ==
  /\ tr[t] = "flushing"
  /\ \E who \in Threads \cup {NoThread} :
       events' = <<Event("TRACE_FULL", who)>> \o events
  /\ process_state' = "WAIT_FLUSH"
  /\ tracebuf_sem' = FALSE
  /\ process_state_lock' = NoThread
  /\ Goto(t, "flush")
  /\ UNCHANGED <<run_app_sem, last_ev, bptVars, thrVars, insVars, appVars,
                 idaVars, session, trace_len, resuming, drained>>

\* Another thread has told IDA, or the process is stopped anyway.
join_trace_flush(t) ==
  /\ tr[t] = "full" /\ process_state_lock = NoThread
  /\ process_state # "RUNNING"
  /\ Goto(t, "flush")
  /\ UNCHANGED <<vars, trace_len, tracebuf_sem, resuming, drained>>

\* ... and while it is full.
wait_trace_flush(t) ==
  /\ tr[t] = "flush_sem" /\ tracebuf_sem
  /\ Goto(t, "push")
  /\ UNCHANGED <<vars, trace_len, tracebuf_sem, resuming, drained>>

push_entry(t) ==
  /\ tr[t] = "push"
  /\ trace_len' = trace_len + 1
  /\ Goto(t, "out")
  /\ UNCHANGED <<vars, tracebuf_sem, resuming, drained>>

-----------------------------------------------------------------------------
(* The listener: IDA reads the buffer packet by packet while it handles an *)
(* event, to the end before it answers TRACE_FULL.                         *)

\* Mutant: as if every packet were full.
get_trace_events_short ==
  /\ Handling /\ ~resuming
  /\ trace_len' = trace_len - ChunkSize
  /\ drained' = (trace_len < ChunkSize)
  /\ UNCHANGED <<vars, tracebuf_sem, tr, resuming>>

get_trace_events ==
  /\ Handling /\ ~resuming
  /\ trace_len' = IF trace_len > ChunkSize THEN trace_len - ChunkSize ELSE 0
  /\ drained' = (trace_len < ChunkSize)
  /\ UNCHANGED <<vars, tracebuf_sem, tr, resuming>>

clear_trace ==
  /\ Editing /\ ~resuming
  /\ trace_len' = 0
  /\ UNCHANGED <<vars, tracebuf_sem, tr, resuming, drained>>

\* The section of do_resume under process_state_lock.
trace_do_resume ==
  /\ ~resuming
  /\ last_ev.eid = "TRACE_FULL" => drained
  /\ do_resume
  /\ resuming' = TRUE
  /\ drained' = FALSE
  /\ UNCHANGED <<session, trace_len, tracebuf_sem, tr>>

\* Mutant: the threads that wait for the flush are forgotten.
resume_forgets ==
  /\ resuming
  /\ resuming' = FALSE
  /\ UNCHANGED <<vars, trace_len, tracebuf_sem, tr, drained>>

\* ... and instrumenter_t::resume after it.
resume ==
  /\ resuming
  /\ resuming' = FALSE
  /\ tracebuf_sem' = TRUE
  /\ UNCHANGED <<vars, trace_len, tr, drained>>

-----------------------------------------------------------------------------
TraceInTool(t) ==
  \/ sync_tracebuf(t) \/ wait_tracebuf(t) \/ check_tracebuf(t)
  \/ prepare_trace_flush(t) \/ write_trace_flush(t) \/ join_trace_flush(t)
  \/ wait_trace_flush(t) \/ push_entry(t)

Untraced(A) == A /\ UNCHANGED <<session, traceVars>>

TraceNext ==
  \/ /\ lpc # "exited"
     /\ \/ \E t \in Threads :
             \/ store_trace_entry(t) \/ store_after_stop(t) \/ TraceInTool(t)
             \/ tr[t] = "out" /\ Untraced(AppThread(t))
        \/ get_trace_events \/ clear_trace \/ trace_do_resume \/ resume
        \/ ~resuming /\ Untraced(OtherPackets)
        \/ Untraced(fini_cb) \/ Untraced(finish)
        \/ Untraced(Reinstrumenter)
  \/ Terminated /\ UNCHANGED tvars

TraceSpec == TraceInit /\ [][TraceNext]_tvars

Alone(A) == lpc # "exited" /\ A

\* As in PinSuspend; IDA reads what there is and answers.
TraceFairSpec ==
  /\ TraceSpec
  /\ \A t \in Threads :
       /\ WF_tvars(Alone(TraceInTool(t)))
       /\ WF_tvars(Alone(tr[t] = "out" /\ Untraced(InsideTool(t))))
       /\ WF_tvars(Alone(/\ tr[t] = "out"
                         /\ Untraced(\E a \in Addrs : do_ctrl(t, a))))
  /\ WF_tvars(Alone(~resuming /\ Untraced(pop_debug_event)))
  /\ WF_tvars(Alone(~resuming /\ Untraced(prepare_pause_locked)))
  /\ WF_tvars(Alone(trace_do_resume)) /\ WF_tvars(Alone(resume))
  /\ WF_tvars(Alone(get_trace_events))
  /\ WF_tvars(Alone(Untraced(Reinstrumenter)))

-----------------------------------------------------------------------------
(* Properties                                                              *)

TraceTypeOK ==
  /\ trace_len \in Nat
  /\ tracebuf_sem \in BOOLEAN
  /\ tr \in [Threads -> {"out", "wait", "sem", "check", "full",
                         "flushing", "flush", "flush_sem", "push"}]
  /\ resuming \in BOOLEAN
  /\ drained \in BOOLEAN

TraceFullUnanswered ==
  \/ \E i \in DOMAIN events : events[i].eid = "TRACE_FULL"
  \/ ida = "handling" /\ last_ev.eid = "TRACE_FULL"

\* While TRACE_FULL has no answer the process is not taken for running and not
\* for suspended by another event: only the answer ends WAIT_FLUSH.
FullMeansWaiting ==
  ~Ending /\ TraceFullUnanswered => process_state = "WAIT_FLUSH"

\* WAIT_FLUSH ends: there is always an event whose answer will end it.
NoSilentFlush ==
  ~Ending /\ process_state = "WAIT_FLUSH" => events # <<>> \/ ida = "handling"

\* Buffered resume, with flushes: while a report has no answer the process is
\* not taken for running.  One made during a flush outlasts WAIT_FLUSH, which
\* the answer to TRACE_FULL ends only if nothing else is queued.
UnansweredMeansStopped == ~Ending /\ Unanswered # {} => process_suspended

\* The threads that wait for the buffer to be read are let go: no order of
\* full buffers, pauses and answers leaves tracebuf_sem clear for ever, unless
\* the session ends (detach_process does not set this semaphore).
FlushEnds == PausesEnd => (~tracebuf_sem ~> tracebuf_sem \/ Ending)
=============================================================================
