---------------------------- MODULE PinTraceProofs ----------------------------
(***************************************************************************)
(* Theorems about PinTrace, for every set of threads, every buffer limit   *)
(* and every set of sessions.  Every step of PinTrace is a step of         *)
(* PinSuspend, or half of a flush (prepare_trace_flush, then               *)
(* write_trace_flush); but WAIT_FLUSH is now a state like the others, so   *)
(* what PinSuspendProofs shows of SUSPENDED is shown here of the two       *)
(* suspended states together.                                              *)
(***************************************************************************)
EXTENDS PinTrace, PinSuspendProofs

USE ConstantsAssumption, TraceAssumption

\* A queue with an event put before all others
LEMMA QueueFront ==
  ASSUME NEW q \in Seq(Events), NEW e \in Events
  PROVE  /\ <<e>> \o q \in Seq(Events)
         /\ <<e>> \o q # <<>>
         /\ Range(<<e>> \o q) = {e} \cup Range(q)
<1> DEFINE r == <<e>> \o q
<1>1. <<e>> \in Seq(Events) /\ Len(<<e>>) = 1 /\ <<e>>[1] = e
  OBVIOUS
<1>2. Len(q) \in Nat /\ DOMAIN q = 1 .. Len(q)
  BY LenProperties
<1>3. /\ r \in Seq(Events)
      /\ Len(r) = 1 + Len(q)
      /\ \A i \in 1 .. 1 + Len(q) : r[i] = IF i <= 1 THEN <<e>>[i] ELSE q[i - 1]
  BY <1>1, ConcatProperties
<1>4. DOMAIN r = 1 .. 1 + Len(q)
  BY <1>3, LenProperties
<1>5. r # <<>>
  BY <1>2, <1>3
<1> HIDE DEF r
<1>6. r[1] = e /\ 1 \in DOMAIN r
  BY <1>1, <1>2, <1>3, <1>4
<1>7. ASSUME NEW i \in DOMAIN q PROVE r[i + 1] = q[i] /\ i + 1 \in DOMAIN r
  BY <1>2, <1>3, <1>4
<1>8. ASSUME NEW i \in DOMAIN r PROVE r[i] \in {e} \cup Range(q)
  <2>1. CASE i = 1
    BY <2>1, <1>6
  <2>2. CASE i # 1
    <3>1. i - 1 \in DOMAIN q /\ r[i] = q[i - 1]
      BY <1>2, <1>3, <1>4, <2>2
    <3> QED
      BY <3>1 DEF Range
  <2> QED
    BY <2>1, <2>2
<1>9. Range(r) = {e} \cup Range(q)
  BY <1>6, <1>7, <1>8 DEF Range
<1> QED
  BY <1>3, <1>5, <1>9 DEF r

-----------------------------------------------------------------------------
(* Steps                                                                   *)

LEMMA StepsOfTrace ==
  ASSUME [TraceNext]_tvars
  PROVE  \/ [Next]_vars
         \/ \E t \in Threads : prepare_trace_flush(t) \/ write_trace_flush(t)
<1>1. CASE UNCHANGED tvars
  BY <1>1 DEF tvars
<1>2. ASSUME NEW t \in Threads, TraceInTool(t)
      PROVE  UNCHANGED vars \/ prepare_trace_flush(t) \/ write_trace_flush(t)
  BY <1>2 DEF TraceInTool, sync_tracebuf, wait_tracebuf, check_tracebuf,
     join_trace_flush, wait_trace_flush, push_entry
<1>3. ASSUME NEW t \in Threads, store_trace_entry(t)
      PROVE  UNCHANGED vars
  BY <1>3 DEF store_trace_entry
<1>4. ASSUME NEW t \in Threads, store_after_stop(t)
      PROVE  AppThread(t) /\ UNCHANGED session
  BY <1>4 DEF store_after_stop, AppThread, InsideTool
<1>5. ASSUME get_trace_events \/ clear_trace \/ resume
      PROVE  UNCHANGED vars
  BY <1>5 DEF get_trace_events, clear_trace, resume
<1>6. trace_do_resume => Listener /\ UNCHANGED session
  BY DEF trace_do_resume, Listener
<1>7. CASE TraceNext
  <2>1. CASE Terminated /\ UNCHANGED tvars
    BY <2>1, <1>1
  <2>2. CASE ~(Terminated /\ UNCHANGED tvars)
    <3>1. lpc # "exited"
      BY <1>7, <2>2 DEF TraceNext
    <3> DEFINE Claim == \/ UNCHANGED vars
                        \/ (Application \/ Listener \/ Reinstrumenter) /\ UNCHANGED session
                        \/ \E t \in Threads :
                             prepare_trace_flush(t) \/ write_trace_flush(t)
    <3>2. ASSUME NEW t \in Threads,
                 \/ store_trace_entry(t) \/ store_after_stop(t) \/ TraceInTool(t)
                 \/ tr[t] = "out" /\ Untraced(AppThread(t))
          PROVE  Claim
      BY <1>2, <1>3, <1>4, <3>2 DEF Untraced, Application
    <3>3. ASSUME get_trace_events \/ clear_trace \/ trace_do_resume \/ resume
          PROVE  Claim
      BY <1>5, <1>6, <3>3 DEF Claim
    <3>4. ASSUME \/ ~resuming /\ Untraced(OtherPackets)
                 \/ Untraced(fini_cb) \/ Untraced(finish)
                 \/ Untraced(Reinstrumenter)
          PROVE  Claim
      BY <3>4 DEF Untraced, Application, Listener
    <3>5. Claim
      <4> HIDE DEF Claim
      <4> QED
        BY <1>7, <2>2, <3>2, <3>3, <3>4 DEF TraceNext
    <3> QED
      BY <3>1, <3>5 DEF Next, Claim
  <2> QED
    BY <2>1, <2>2
<1> QED
  BY <1>1, <1>7

\* What prepare_trace_flush does: the lock is taken while the process runs.
LEMMA PrepareEffect ==
  ASSUME NEW t \in Threads, prepare_trace_flush(t)
  PROVE  /\ process_state = "RUNNING" /\ process_state_lock = NoThread
         /\ process_state_lock' = t
         /\ UNCHANGED <<process_state, run_app_sem, queueVars, bptVars, thrVars,
                        insVars, appVars, idaVars, session>>
BY DEF prepare_trace_flush

\* What write_trace_flush does: one event of no report is put first, and the
\* state is WAIT_FLUSH whatever it was.
LEMMA FlushEffect ==
  ASSUME TypeOK, NEW t \in Threads, write_trace_flush(t)
  PROVE  /\ tr[t] = "flushing"
         /\ process_state' = "WAIT_FLUSH" /\ process_state_lock' = NoThread
         /\ UNCHANGED <<run_app_sem, last_ev, bptVars, thrVars, insVars, appVars,
                        idaVars, session>>
         /\ events' \in Seq(Events) /\ events' # <<>>
         /\ \E who \in Threads \cup {NoThread} :
              Range(events') = {Event("TRACE_FULL", who)} \cup Range(events)
<1>1. PICK who \in Threads \cup {NoThread} :
        events' = <<Event("TRACE_FULL", who)>> \o events
  BY DEF write_trace_flush
<1>2. Event("TRACE_FULL", who) \in Events
  BY DEF Event, Events, EventIds
<1> QED
  BY <1>1, <1>2, QueueFront DEF write_trace_flush, TypeOK

-----------------------------------------------------------------------------
(* Types of the buffer                                                     *)

Places == {"out", "wait", "sem", "check", "full", "flushing", "flush",
           "flush_sem", "push"}

LEMMA BufferTypes ==
  ASSUME TraceTypeOK, TypeOK, [TraceNext]_tvars
  PROVE  TraceTypeOK'
<1> USE DEF TraceTypeOK
<1>1. ASSUME NEW t \in Threads,
             \/ store_trace_entry(t) \/ store_after_stop(t) \/ TraceInTool(t)
      PROVE  TraceTypeOK'
  <2>1. resuming' = resuming /\ drained' = drained
    BY <1>1 DEF store_trace_entry, store_after_stop, TraceInTool, sync_tracebuf,
       wait_tracebuf, check_tracebuf, prepare_trace_flush,
       write_trace_flush, join_trace_flush,
       wait_trace_flush, push_entry
  <2>2. trace_len' \in Nat
    BY <1>1 DEF store_trace_entry, store_after_stop, TraceInTool, sync_tracebuf,
       wait_tracebuf, check_tracebuf, prepare_trace_flush,
       write_trace_flush, join_trace_flush,
       wait_trace_flush, push_entry
  <2>3. tracebuf_sem' \in BOOLEAN
    BY <1>1 DEF store_trace_entry, store_after_stop, TraceInTool, sync_tracebuf,
       wait_tracebuf, check_tracebuf, prepare_trace_flush,
       write_trace_flush, join_trace_flush,
       wait_trace_flush, push_entry
  <2>4. \E where \in Places : Goto(t, where)
    BY <1>1 DEF store_trace_entry, store_after_stop, TraceInTool, sync_tracebuf,
       wait_tracebuf, check_tracebuf, prepare_trace_flush,
       write_trace_flush, join_trace_flush,
       wait_trace_flush, push_entry, Places
  <2> QED
    BY <2>1, <2>2, <2>3, <2>4 DEF Goto, Places
<1>2. CASE get_trace_events
  <2>1. (trace_len < ChunkSize) \in BOOLEAN
    OBVIOUS
  <2> QED
    BY <1>2, <2>1, TraceAssumption DEF get_trace_events
<1>3. CASE clear_trace
  BY <1>3 DEF clear_trace
<1>4. CASE trace_do_resume
  BY <1>4 DEF trace_do_resume
<1>5. CASE resume
  BY <1>5 DEF resume
<1>6. ASSUME \/ \E t \in Threads : Untraced(AppThread(t))
             \/ Untraced(OtherPackets) \/ Untraced(fini_cb) \/ Untraced(finish)
             \/ Untraced(Reinstrumenter) \/ UNCHANGED tvars
      PROVE  UNCHANGED traceVars
  BY <1>6 DEF Untraced, tvars
<1>7. UNCHANGED traceVars => TraceTypeOK'
  BY DEF traceVars
<1> HIDE DEF TraceTypeOK
<1>8. CASE TraceNext
  <2>1. CASE Terminated /\ UNCHANGED tvars
    BY <1>6, <1>7, <2>1
  <2>2. CASE ~(Terminated /\ UNCHANGED tvars)
    <3>1. \/ \E t \in Threads :
               \/ store_trace_entry(t) \/ store_after_stop(t) \/ TraceInTool(t)
               \/ tr[t] = "out" /\ Untraced(AppThread(t))
          \/ get_trace_events \/ clear_trace \/ trace_do_resume \/ resume
          \/ ~resuming /\ Untraced(OtherPackets)
          \/ Untraced(fini_cb) \/ Untraced(finish)
          \/ Untraced(Reinstrumenter)
      BY <1>8, <2>2 DEF TraceNext
    <3>2. \/ \E t \in Threads :
               \/ store_trace_entry(t) \/ store_after_stop(t) \/ TraceInTool(t)
          \/ get_trace_events \/ clear_trace \/ trace_do_resume \/ resume
          \/ UNCHANGED traceVars
      BY <1>6, <3>1
    <3> QED
      BY <1>1, <1>2, <1>3, <1>4, <1>5, <1>7, <3>2
  <2> QED
    BY <2>1, <2>2
<1>9. CASE UNCHANGED tvars
  BY <1>7, <1>9 DEF tvars
<1> QED
  BY <1>8, <1>9

-----------------------------------------------------------------------------
(* The lock between the two halves of a flush                              *)

\* A thread that stores an entry is in the application's code, and one that is
\* about to write WAIT_FLUSH holds the lock: since it found the process running
\* only exit_process and detach_process can have written the state.
FlushLock ==
  \A t \in Threads :
    /\ tr[t] # "out" => pc[t] = "run"
    /\ tr[t] = "flushing" =>
         /\ process_state_lock = t
         /\ process_state \in {"RUNNING", "EXITING", "DETACHED"}

\* While a thread that emits nothing holds the lock, nobody else gets it, and
\* nobody else writes the state but exit_process and detach_process.
LEMMA LockKeepsState ==
  ASSUME TypeInv, [Next]_vars, NEW t \in Threads,
         process_state_lock = t, pc[t] = "run"
  PROVE  /\ process_state_lock' = t
         /\ process_state' \in {process_state, "EXITING", "DETACHED"}
<1> USE DEF TypeInv
<1>1. t # NoThread
  OBVIOUS
<1>2. ASSUME NEW u \in Threads, AppThread(u)
      PROVE  UNCHANGED <<process_state, process_state_lock>>
  <2>1. ~Enter(u) /\ ~Emit(u)
    BY <1>1 DEF Enter, Emit, EmitInv
  <2> QED
    BY <1>2, <2>1 DEF AppThread, InsideTool, thread_start_cb, thread_fini_cb,
       context_change_cb, image_load_cb, do_ctrl, do_bpt, EnterIdle,
       wait_after_callback, thread_wait, serve_sync, sema_wait, add_rtns,
       stateVars
<1>3. CASE Listener
  BY <1>1, <1>3 DEF Listener, do_resume, OtherPackets, pop_debug_event,
     resume_refused, prepare_pause_queued, prepare_pause_begin,
     prepare_pause_locked, prepare_pause_ignored, prepare_pause_suspend,
     prepare_pause_request, PauseUnderLock, set_step, SuspensionPackets,
     thread_suspend, thread_resume, add_soft_bpt, del_soft_bpt,
     update_instrumentation, exit_process, detach_process, set_run_app_sem,
     listener_detached, listener_exiting, stateVars
<1>4. CASE UNCHANGED vars \/ fini_cb \/ finish \/ Reinstrumenter
  BY <1>4 DEF vars, fini_cb, finish, Reinstrumenter, ReinstrStep, reinstr_start,
     remove_begin, remove_end, reinstr_clear, reinstr_exit, stateVars
<1> QED
  BY <1>2, <1>3, <1>4 DEF Next, Application

\* Where a step leaves the threads: a thread that stores an entry stays in the
\* application's code, and starts to do so there.
LEMMA StorersRun ==
  ASSUME TypeInv, TraceTypeOK, FlushLock, [TraceNext]_tvars
  PROVE  /\ \A t \in Threads : tr'[t] # "out" => pc'[t] = "run"
         /\ \/ UNCHANGED tr
            \/ \E t \in Threads : prepare_trace_flush(t)
            \/ \E t \in Threads, where \in Places \ {"flushing"} : Goto(t, where)
<1> USE DEF TypeInv, TypeOK, TraceTypeOK
<1>1. ASSUME NEW t \in Threads, NEW where \in Places, Goto(t, where),
             pc'[t] = "run", \A u \in Threads \ {t} : pc'[u] = pc[u]
      PROVE  \A u \in Threads : tr'[u] # "out" => pc'[u] = "run"
  BY <1>1 DEF Goto, FlushLock
<1>2. ASSUME UNCHANGED tr, \A u \in Threads : tr[u] # "out" => pc'[u] = pc[u]
      PROVE  \A u \in Threads : tr'[u] # "out" => pc'[u] = "run"
  BY <1>2 DEF FlushLock
<1>3. ASSUME NEW t \in Threads,
             \/ store_trace_entry(t) \/ store_after_stop(t) \/ TraceInTool(t)
      PROVE  /\ \E where \in Places : Goto(t, where)
             /\ pc'[t] = "run"
             /\ \A u \in Threads \ {t} : pc'[u] = pc[u]
             /\ \/ prepare_trace_flush(t)
                \/ \E where \in Places \ {"flushing"} : Goto(t, where)
  <2>1. CASE store_after_stop(t)
    BY <2>1 DEF store_after_stop, sema_wait, Places
  <2>2. CASE store_trace_entry(t)
    BY <2>2 DEF store_trace_entry, vars, appVars, Places
  <2>3. CASE TraceInTool(t)
    <3>1. UNCHANGED pc /\ tr[t] # "out"
      BY <2>3 DEF TraceInTool, sync_tracebuf, wait_tracebuf, check_tracebuf,
         prepare_trace_flush, write_trace_flush, join_trace_flush,
         wait_trace_flush, push_entry, vars, appVars
    <3>2. \/ prepare_trace_flush(t)
          \/ \E where \in Places \ {"flushing"} : Goto(t, where)
      BY <2>3 DEF TraceInTool, sync_tracebuf, wait_tracebuf, check_tracebuf,
         write_trace_flush, join_trace_flush, wait_trace_flush, push_entry, Places
    <3>3. prepare_trace_flush(t) => \E where \in Places : Goto(t, where)
      BY DEF prepare_trace_flush, Places
    <3> QED
      BY <3>1, <3>2, <3>3 DEF FlushLock
  <2> QED
    BY <1>3, <2>1, <2>2, <2>3
<1>4. ASSUME NEW t \in Threads, tr[t] = "out", Untraced(AppThread(t))
      PROVE  UNCHANGED tr /\ \A u \in Threads : tr[u] # "out" => pc'[u] = pc[u]
  BY <1>4, ThreadIsAlone DEF Untraced, traceVars
<1>5. ASSUME Listener, UNCHANGED tr
      PROVE  \A u \in Threads : tr[u] # "out" => pc'[u] = pc[u]
  BY <1>5, ListenerMovesMain DEF FlushLock
<1>6. ASSUME \/ UNCHANGED tvars
             \/ Untraced(fini_cb) \/ Untraced(finish) \/ Untraced(Reinstrumenter)
             \/ get_trace_events \/ clear_trace \/ resume
      PROVE  UNCHANGED <<tr, pc>>
  BY <1>6 DEF tvars, Untraced, fini_cb, finish, Reinstrumenter, ReinstrStep,
     reinstr_start, remove_begin, remove_end, reinstr_clear, reinstr_exit,
     get_trace_events, clear_trace, resume, vars, appVars, traceVars
<1>7. ASSUME trace_do_resume \/ (~resuming /\ Untraced(OtherPackets))
      PROVE  Listener /\ UNCHANGED tr
  BY <1>7 DEF trace_do_resume, Untraced, Listener, traceVars
<1> HIDE DEF TypeInv, TypeOK, TraceTypeOK
<1>8. CASE \E t \in Threads :
             store_trace_entry(t) \/ store_after_stop(t) \/ TraceInTool(t)
  BY <1>1, <1>3, <1>8
<1>9. CASE ~\E t \in Threads :
             store_trace_entry(t) \/ store_after_stop(t) \/ TraceInTool(t)
  <2>1. UNCHANGED tr /\ \A u \in Threads : tr[u] # "out" => pc'[u] = pc[u]
    <3> DEFINE Quiet == \/ UNCHANGED tvars
                        \/ Untraced(fini_cb) \/ Untraced(finish)
                        \/ Untraced(Reinstrumenter)
                        \/ get_trace_events \/ clear_trace \/ resume
               Answer == trace_do_resume \/ (~resuming /\ Untraced(OtherPackets))
    <3>1. \/ \E t \in Threads : tr[t] = "out" /\ Untraced(AppThread(t))
          \/ Quiet \/ Answer
      BY <1>9 DEF TraceNext
    <3>2. Quiet => UNCHANGED <<tr, pc>>
      BY <1>6
    <3>3. Answer => Listener /\ UNCHANGED tr
      BY <1>7
    <3> HIDE DEF Quiet, Answer
    <3> QED
      BY <1>4, <1>5, <3>1, <3>2, <3>3
  <2> QED
    BY <1>2, <2>1
<1> QED
  BY <1>8, <1>9

LEMMA FlushLockStep ==
  ASSUME TypeInv, TraceTypeOK, FlushLock, [TraceNext]_tvars
  PROVE  FlushLock'
<1> USE DEF TypeInv, TypeOK, TraceTypeOK
<1>1. ASSUME NEW t \in Threads, tr'[t] = "flushing"
      PROVE  /\ process_state_lock' = t
             /\ process_state' \in {"RUNNING", "EXITING", "DETACHED"}
  <2>1. ASSUME NEW u \in Threads, prepare_trace_flush(u)
        PROVE  t = u
    BY <1>1, <2>1, PrepareEffect DEF prepare_trace_flush, Goto, FlushLock
  <2>2. CASE prepare_trace_flush(t)
    BY <2>2, PrepareEffect
  <2>3. CASE ~prepare_trace_flush(t)
    <3>1. tr[t] = "flushing"
      BY <1>1, <2>1, <2>3, StorersRun DEF Goto
    <3>2. process_state_lock = t /\ pc[t] = "run"
      BY <3>1 DEF FlushLock
    <3>3. ASSUME NEW u \in Threads, write_trace_flush(u) PROVE FALSE
      <4>1. tr[u] = "flushing" /\ tr'[u] = "flush"
        BY <3>3 DEF write_trace_flush, Goto
      <4> QED
        BY <1>1, <3>2, <4>1 DEF FlushLock
    <3>4. [Next]_vars
      BY <2>1, <2>3, <3>3, StepsOfTrace
    <3> QED
      BY <3>1, <3>2, <3>4, LockKeepsState DEF FlushLock
  <2> QED
    BY <2>2, <2>3
<1> QED
  BY <1>1, StorersRun DEF FlushLock

-----------------------------------------------------------------------------
(* Types of the core                                                       *)

LEMMA TraceTypeInv ==
  ASSUME TypeInv, FlushLock, [TraceNext]_tvars
  PROVE  TypeInv'
<1>1. CASE [Next]_vars
  BY <1>1, TypeStep, CountStep, EmitStep DEF TypeInv
<1>2. ASSUME NEW t \in Threads, prepare_trace_flush(t)
      PROVE  TypeInv'
  <2>1. TypeOK'
    BY <1>2, PrepareEffect DEF TypeInv, TypeOK, queueVars, bptVars, thrVars,
       insVars, appVars, idaVars
  <2>2. CountInv' /\ EmitInv'
    BY <1>2, PrepareEffect DEF TypeInv, CountInv, SuspendedSet, EmitInv, thrVars,
       appVars
  <2> QED
    BY <2>1, <2>2 DEF TypeInv
<1>3. ASSUME NEW t \in Threads, write_trace_flush(t)
      PROVE  TypeInv'
  <2>1. TypeOK'
    BY <1>3, FlushEffect DEF TypeInv, TypeOK, ProcessStates, bptVars, thrVars,
       insVars, appVars, idaVars
  <2>2. CountInv'
    BY <1>3, FlushEffect DEF TypeInv, CountInv, SuspendedSet, thrVars
  <2>3. \A u \in Threads : pc[u] # "emit"
    BY <1>3, FlushEffect DEF TypeInv, EmitInv, FlushLock
  <2>4. EmitInv'
    BY <1>3, <2>3, FlushEffect DEF TypeInv, EmitInv, appVars
  <2> QED
    BY <2>1, <2>2, <2>4 DEF TypeInv
<1> QED
  BY <1>1, <1>2, <1>3, StepsOfTrace

LEMMA TraceEndInv ==
  ASSUME TypeInv, EndInv, [TraceNext]_tvars
  PROVE  EndInv'
<1>1. CASE [Next]_vars
  BY <1>1, EndStep
<1>2. ASSUME NEW t \in Threads, prepare_trace_flush(t)
      PROVE  EndInv'
  BY <1>2, PrepareEffect DEF EndInv, NoThreadLeft, queueVars, appVars, idaVars
<1>3. ASSUME NEW t \in Threads, write_trace_flush(t)
      PROVE  EndInv'
  <2>1. PICK who \in Threads \cup {NoThread} :
          Range(events') = {Event("TRACE_FULL", who)} \cup Range(events)
    BY <1>3, FlushEffect DEF TypeInv
  <2> QED
    BY <1>3, <2>1, FlushEffect DEF TypeInv, EndInv, NoThreadLeft, Event,
       appVars, idaVars
<1> QED
  BY <1>1, <1>2, <1>3, StepsOfTrace

-----------------------------------------------------------------------------
(* Flushing                                                                *)

Fulls == {e \in Range(events) \cup (IF ida = "handling" THEN {last_ev} ELSE {}) :
            e.eid = "TRACE_FULL"}

FlushInv == SemaphoreMatchesState /\ FullMeansWaiting /\ NoSilentFlush

LEMMA FullsUnanswered == TypeOK => (TraceFullUnanswered <=> Fulls # {})
BY DEF TraceFullUnanswered, Fulls, Range

LEMMA FullsUnanswered2 == TypeOK' => (TraceFullUnanswered' <=> Fulls' # {})
BY DEF TraceFullUnanswered, Fulls, Range

\* Steps that leave state and semaphore alone, queue no TRACE_FULL and give
\* IDA nothing
LEMMA QuietFlush ==
  ASSUME TypeOK, TypeOK', FlushInv, ~Ending,
         UNCHANGED <<process_state, run_app_sem>>,
         Fulls' \subseteq Fulls,
         events # <<>> \/ ida = "handling" => events' # <<>> \/ ida' = "handling"
  PROVE  FlushInv'
<1>1. SemaphoreMatchesState' /\ NoSilentFlush'
  BY DEF FlushInv, SemaphoreMatchesState, NoSilentFlush
<1>2. FullMeansWaiting'
  BY FullsUnanswered, FullsUnanswered2 DEF FlushInv, FullMeansWaiting
<1> QED
  BY <1>1, <1>2 DEF FlushInv

LEMMA FlushOfApp ==
  ASSUME TypeInv, TypeOK', EndInv, FlushInv, ~Ending,
         NEW t \in Threads, AppThread(t)
  PROVE  FlushInv'
<1> USE DEF TypeInv
<1>1. UNCHANGED <<lpc, ida, last_ev>>
  BY AppBeforeFini
<1>2. CASE UNCHANGED <<process_state, run_app_sem, events>>
  BY <1>1, <1>2, QuietFlush DEF Fulls
<1>3. CASE serve_sync(t)
  <2>1. ~process_over
    BY AppBeforeFini DEF process_over, EndInv, Ending
  <2>2. UNCHANGED <<process_state, run_app_sem, events>>
    BY <1>3, <2>1 DEF serve_sync, serve_sync_fails, queueVars, TypeOK
  <2> QED
    BY <1>2, <2>2
<1>4. CASE image_load_cb(t)
  <2>1. Event("LIBRARY_LOAD", t) \in Events
    BY EventType DEF EventIds
  <2>2. /\ events' # <<>>
        /\ Range(events') = Range(events) \cup {Event("LIBRARY_LOAD", t)}
    BY <1>4, <2>1, QueueAppend DEF image_load_cb, TypeOK
  <2>3. UNCHANGED <<process_state, run_app_sem>>
    BY <1>4 DEF image_load_cb, stateVars
  <2> QED
    BY <1>1, <2>2, <2>3, QuietFlush DEF Fulls, Event
<1>5. CASE Emit(t)
  <2>1. /\ Event(ev[t], t) \in Events
        /\ ev[t] # "TRACE_FULL"
    BY <1>5, EventType DEF Emit, EmitInv, EventIds, StopEvents, TypeOK
  <2>2. /\ events' # <<>>
        /\ Range(events') = Range(events) \cup {Event(ev[t], t)}
    BY <1>5, <2>1, QueueAppend DEF Emit, TypeOK
  <2>3. Fulls' \subseteq Fulls
    BY <1>1, <2>1, <2>2 DEF Fulls, Event
  <2>4. CASE process_suspended
    <3>1. UNCHANGED <<process_state, run_app_sem>>
      BY <1>5, <2>4 DEF Emit, do_suspend_nolock
    <3> QED
      BY <2>2, <2>3, <3>1, QuietFlush
  <2>5. CASE ~process_suspended
    <3>1. process_state' = "SUSPENDED" /\ ~run_app_sem'
      BY <1>5, <2>5 DEF Emit, do_suspend_nolock
    <3>2. Fulls = {}
      BY <2>5, FullsUnanswered DEF FlushInv, FullMeansWaiting, process_suspended
    <3>3. FullMeansWaiting'
      BY <2>3, <3>2, FullsUnanswered2 DEF FullMeansWaiting
    <3> QED
      BY <3>1, <3>3 DEF FlushInv, SemaphoreMatchesState, NoSilentFlush
  <2> QED
    BY <2>4, <2>5
<1> QED
  BY <1>2, <1>3, <1>4, <1>5, AppEffect

\* The answer to TRACE_FULL ends WAIT_FLUSH if it is the last one.
LEMMA FlushOfResume ==
  ASSUME TypeInv, TypeOK', FlushInv, ~Ending, ~Ending', do_resume
  PROVE  FlushInv'
<1> USE DEF TypeInv
<1>1. /\ UNCHANGED <<events, last_ev>>
      /\ ida = "handling" /\ ida' = "wait"
  BY DEF do_resume, queueVars, Handling
<1>2. process_state' # "EXITING"
  BY DEF Ending
<1>3. Fulls' \subseteq Fulls
  BY <1>1 DEF Fulls
<1>4. CASE ResumeNow
  <2>1. events = <<>> /\ process_state' = "RUNNING"
    BY <1>2, <1>4 DEF do_resume, ResumeNow, StateAfterResume
  <2>2. run_app_sem'
    BY <1>4 DEF do_resume, ActualResume, FlushInv, SemaphoreMatchesState
  <2>3. Fulls' = {}
    BY <1>1, <2>1, QueueRange DEF Fulls, TypeOK
  <2> QED
    BY <2>1, <2>2, <2>3, FullsUnanswered2 DEF FlushInv, SemaphoreMatchesState,
       FullMeansWaiting, NoSilentFlush
<1>5. CASE ~ResumeNow
  <2>1. UNCHANGED <<process_state, run_app_sem>>
    BY <1>2, <1>5 DEF do_resume, NoResume, StateAfterResume
  <2>2. SemaphoreMatchesState'
    BY <2>1 DEF FlushInv, SemaphoreMatchesState
  <2>3. FullMeansWaiting'
    BY <1>3, <2>1, FullsUnanswered, FullsUnanswered2 DEF FlushInv,
       FullMeansWaiting
  <2>4. NoSilentFlush'
    BY <1>1, <1>5, <2>1 DEF ResumeNow, process_suspended, NoSilentFlush
  <2> QED
    BY <2>2, <2>3, <2>4 DEF FlushInv
<1> QED
  BY <1>4, <1>5

LEMMA FlushOfPacket ==
  ASSUME TypeInv, TypeOK', FlushInv, ~Ending, ~Ending', OtherPackets
  PROVE  FlushInv'
<1> USE DEF TypeInv
<1>1. CASE pop_debug_event
  <2>1. /\ Range(events) = Range(events') \cup {last_ev'}
        /\ ida' = "handling"
        /\ UNCHANGED <<process_state, run_app_sem>>
    BY <1>1, QueueTake DEF pop_debug_event, stateVars, TypeOK
  <2>2. Fulls' \subseteq Fulls
    BY <2>1 DEF Fulls
  <2> QED
    BY <2>1, <2>2, QuietFlush
<1>2. CASE prepare_pause_queued
  <2> DEFINE e == Event("PROCESS_SUSPEND", events[Len(events)].tid)
  <2>1. e \in Events
    BY <1>2, PauseEvent
  <2>2. events' # <<>> /\ Range(events') = Range(events) \cup {e}
    BY <1>2, <2>1, QueueAppend DEF prepare_pause_queued, TypeOK
  <2>3. /\ UNCHANGED <<process_state, run_app_sem, last_ev>>
        /\ ida = "wait" /\ ida' = "pausing"
    BY <1>2 DEF prepare_pause_queued, MayPause, stateVars
  <2>4. Fulls' \subseteq Fulls
    BY <2>2, <2>3 DEF Fulls, Event
  <2> QED
    BY <2>2, <2>3, <2>4, QuietFlush
<1>3. CASE prepare_pause_suspend
  <2>1. Event("PROCESS_SUSPEND", NoThread) \in Events
    BY EventType DEF EventIds
  <2>2. Range(events') = Range(events) \cup {Event("PROCESS_SUSPEND", NoThread)}
    BY <1>3, <2>1, QueueAppend DEF prepare_pause_suspend, TypeOK
  <2>3. /\ process_state = "RUNNING" /\ process_state' = "SUSPENDED"
        /\ ~run_app_sem' /\ UNCHANGED <<ida, last_ev>>
    BY <1>3 DEF prepare_pause_suspend, PauseUnderLock, do_suspend_nolock,
       process_suspended
  <2>4. Fulls = {} /\ Fulls' \subseteq Fulls
    BY <2>2, <2>3, FullsUnanswered DEF Fulls, Event, FlushInv, FullMeansWaiting
  <2> QED
    BY <2>3, <2>4, FullsUnanswered2 DEF FlushInv, SemaphoreMatchesState,
       NoSilentFlush, FullMeansWaiting
<1>4. CASE prepare_pause_request
  <2>1. /\ process_state = "RUNNING" /\ process_state' = "PAUSE"
        /\ UNCHANGED <<run_app_sem, events, ida, last_ev>>
    BY <1>4 DEF prepare_pause_request, PauseUnderLock
  <2>2. Fulls = {} /\ Fulls' = Fulls
    BY <2>1, FullsUnanswered DEF Fulls, FlushInv, FullMeansWaiting
  <2> QED
    BY <2>1, <2>2, FullsUnanswered2 DEF FlushInv, SemaphoreMatchesState,
       NoSilentFlush, FullMeansWaiting
<1>5. CASE exit_process \/ detach_process \/ set_run_app_sem
  BY <1>5 DEF exit_process, detach_process, set_run_app_sem, Ending
<1>6. CASE ~(\/ pop_debug_event \/ prepare_pause_queued
             \/ prepare_pause_suspend \/ prepare_pause_request
             \/ exit_process \/ detach_process \/ set_run_app_sem)
  <2>1. /\ UNCHANGED <<process_state, run_app_sem, events, last_ev>>
        /\ ida' = "handling" <=> ida = "handling"
    BY <1>6 DEF OtherPackets, resume_refused, prepare_pause_begin, MayPause,
       prepare_pause_locked, prepare_pause_ignored, PauseUnderLock, set_step,
       SuspensionPackets,
       thread_suspend, thread_resume, add_soft_bpt, del_soft_bpt,
       update_instrumentation, listener_detached, listener_exiting, stateVars,
       queueVars, idaVars
  <2>2. Fulls' \subseteq Fulls
    BY <2>1 DEF Fulls
  <2> QED
    BY <2>1, <2>2, QuietFlush
<1> QED
  BY <1>1, <1>2, <1>3, <1>4, <1>5, <1>6

LEMMA FlushOfCore ==
  ASSUME TypeInv, TypeOK', EndInv, EndInv', FlushInv, [Next]_vars
  PROVE  FlushInv'
<1> USE DEF TypeInv
<1>1. CASE Ending'
  BY <1>1 DEF FlushInv, SemaphoreMatchesState, FullMeansWaiting, NoSilentFlush
<1>2. CASE UNCHANGED vars
  BY <1>2 DEF vars, stateVars, queueVars, idaVars, FlushInv, Ending,
     SemaphoreMatchesState, FullMeansWaiting, NoSilentFlush, TraceFullUnanswered
<1>3. CASE ~Ending' /\ Next /\ ~UNCHANGED vars
  <2>1. /\ Application \/ Listener \/ Reinstrumenter
        /\ lpc # "exited"
    BY <1>3 DEF Next
  <2>2. ~Ending
    BY <1>3, <2>1, EndingIsStable
  <2>3. CASE fini_cb
    <3>1. Event("PROCESS_EXIT", MainThread) \in Events
      BY EventType DEF EventIds
    <3>2. /\ events' # <<>>
          /\ Range(events') = Range(events) \cup {Event("PROCESS_EXIT", MainThread)}
      BY <2>3, <3>1, QueueAppend DEF fini_cb, TypeOK
    <3>3. UNCHANGED <<process_state, run_app_sem, last_ev, ida>>
      BY <2>3 DEF fini_cb, stateVars
    <3> QED
      BY <2>2, <3>2, <3>3, QuietFlush DEF Fulls, Event
  <2>4. CASE finish \/ Reinstrumenter
    <3>1. UNCHANGED <<process_state, run_app_sem, events, last_ev, ida>>
      BY <2>4 DEF finish, Reinstrumenter, ReinstrStep, reinstr_start,
         remove_begin, remove_end, reinstr_clear, reinstr_exit, stateVars,
         queueVars, idaVars
    <3> QED
      BY <2>2, <3>1, QuietFlush DEF Fulls
  <2> QED
    BY <1>3, <2>1, <2>2, <2>3, <2>4, FlushOfApp, FlushOfResume, FlushOfPacket
    DEF Application, Listener
<1> QED
  BY <1>1, <1>2, <1>3

-----------------------------------------------------------------------------
(* Reports during flushes                                                  *)

LEMMA StoppedByApp ==
  ASSUME TypeInv, EndInv, UnansweredMeansStopped, ~Ending,
         NEW t \in Threads, AppThread(t)
  PROVE  UnansweredMeansStopped'
<1> USE DEF TypeInv
<1>1. UNCHANGED <<ida, last_ev>>
  BY AppBeforeFini
<1>2. CASE UNCHANGED <<process_state, run_app_sem, events>> \/ serve_sync(t)
  <2>1. Unanswered' = Unanswered /\ UNCHANGED process_state
    BY <1>1, <1>2 DEF Unanswered, serve_sync, queueVars
  <2> QED
    BY <2>1 DEF UnansweredMeansStopped, process_suspended
<1>3. CASE image_load_cb(t)
  <2>1. Event("LIBRARY_LOAD", t) \in Events
    BY EventType DEF EventIds
  <2>2. Range(events') = Range(events) \cup {Event("LIBRARY_LOAD", t)}
    BY <1>3, <2>1, QueueAppend DEF image_load_cb, TypeOK
  <2>3. Unanswered' \subseteq Unanswered /\ UNCHANGED process_state
    BY <1>1, <1>3, <2>2 DEF Unanswered, Event, StopEvents, image_load_cb, stateVars
  <2> QED
    BY <2>3 DEF UnansweredMeansStopped, process_suspended
<1>4. CASE Emit(t)
  BY <1>4 DEF Emit, do_suspend_nolock, process_suspended, UnansweredMeansStopped
<1> QED
  BY <1>2, <1>3, <1>4, AppEffect

\* Only an answer that finds the queue empty lets the process go.
LEMMA StoppedByListener ==
  ASSUME TypeInv, UnansweredMeansStopped, ~Ending, ~Ending', Listener
  PROVE  UnansweredMeansStopped'
<1> USE DEF TypeInv
<1>1. CASE do_resume
  <2>1. /\ UNCHANGED <<events, last_ev>>
        /\ ida = "handling" /\ ida' = "wait"
    BY <1>1 DEF do_resume, queueVars, Handling
  <2>2. CASE ResumeNow
    <3>1. Unanswered' = {}
      BY <2>1, <2>2, QueueRange DEF ResumeNow, Unanswered, TypeOK
    <3> QED
      BY <3>1 DEF UnansweredMeansStopped
  <2>3. CASE ~ResumeNow
    <3>1. process_state' = process_state /\ Unanswered' \subseteq Unanswered
      BY <1>1, <2>1, <2>3 DEF do_resume, StateAfterResume, Ending, Unanswered
    <3> QED
      BY <3>1 DEF UnansweredMeansStopped, process_suspended
  <2> QED
    BY <2>2, <2>3
<1>2. CASE pop_debug_event
  <2>1. /\ Range(events) = Range(events') \cup {last_ev'}
        /\ ida' = "handling" /\ UNCHANGED process_state
    BY <1>2, QueueTake DEF pop_debug_event, stateVars, TypeOK
  <2>2. Unanswered' \subseteq Unanswered
    BY <2>1 DEF Unanswered
  <2> QED
    BY <2>1, <2>2 DEF UnansweredMeansStopped, process_suspended
<1>3. CASE prepare_pause_queued
  <2> DEFINE e == Event("PROCESS_SUSPEND", events[Len(events)].tid)
  <2>1. e \in Events
    BY <1>3, PauseEvent
  <2>2. Range(events') = Range(events) \cup {e}
    BY <1>3, <2>1, QueueAppend DEF prepare_pause_queued, TypeOK
  <2>3. /\ UNCHANGED <<process_state, last_ev>>
        /\ ida = "wait" /\ ida' = "pausing"
    BY <1>3 DEF prepare_pause_queued, MayPause, stateVars
  <2>4. Unanswered' \subseteq Unanswered
    BY <2>2, <2>3 DEF Unanswered, Event, StopEvents
  <2> QED
    BY <2>3, <2>4 DEF UnansweredMeansStopped, process_suspended
<1>4. CASE prepare_pause_suspend
  BY <1>4 DEF prepare_pause_suspend, PauseUnderLock, do_suspend_nolock,
     process_suspended, UnansweredMeansStopped
<1>5. CASE prepare_pause_request
  <2>1. Unanswered' = Unanswered /\ ~process_suspended
    BY <1>5 DEF prepare_pause_request, PauseUnderLock, Unanswered,
       process_suspended
  <2> QED
    BY <2>1 DEF UnansweredMeansStopped
<1>6. CASE exit_process \/ detach_process \/ set_run_app_sem
  BY <1>6 DEF exit_process, detach_process, set_run_app_sem, Ending
<1>7. CASE ~(\/ do_resume \/ pop_debug_event \/ prepare_pause_queued
             \/ prepare_pause_suspend \/ prepare_pause_request
             \/ exit_process \/ detach_process \/ set_run_app_sem)
  <2>1. /\ UNCHANGED <<process_state, events, last_ev>>
        /\ (ida' = "handling") = (ida = "handling")
    BY <1>7 DEF Listener, OtherPackets, resume_refused, prepare_pause_begin,
       MayPause, prepare_pause_locked, prepare_pause_ignored, PauseUnderLock,
       set_step, SuspensionPackets,
       thread_suspend, thread_resume, add_soft_bpt, del_soft_bpt,
       update_instrumentation, listener_detached, listener_exiting, stateVars,
       queueVars, idaVars
  <2>2. Unanswered' = Unanswered
    BY <2>1 DEF Unanswered
  <2> QED
    BY <2>1, <2>2 DEF UnansweredMeansStopped, process_suspended
<1> QED
  BY <1>1, <1>2, <1>3, <1>4, <1>5, <1>6, <1>7

LEMMA StoppedByCore ==
  ASSUME TypeInv, EndInv, EndInv', UnansweredMeansStopped, [Next]_vars
  PROVE  UnansweredMeansStopped'
<1> USE DEF TypeInv
<1>1. CASE Ending'
  BY <1>1 DEF UnansweredMeansStopped
<1>2. CASE UNCHANGED vars
  BY <1>2 DEF vars, stateVars, queueVars, idaVars, UnansweredMeansStopped,
     Ending, Unanswered, process_suspended
<1>3. CASE ~Ending' /\ Next /\ ~UNCHANGED vars
  <2>1. /\ Application \/ Listener \/ Reinstrumenter
        /\ lpc # "exited"
    BY <1>3 DEF Next
  <2>2. ~Ending
    BY <1>3, <2>1, EndingIsStable
  <2>3. CASE fini_cb
    <3>1. Event("PROCESS_EXIT", MainThread) \in Events
      BY EventType DEF EventIds
    <3>2. Range(events') = Range(events) \cup {Event("PROCESS_EXIT", MainThread)}
      BY <2>3, <3>1, QueueAppend DEF fini_cb, TypeOK
    <3>3. UNCHANGED <<process_state, last_ev, ida>>
      BY <2>3 DEF fini_cb, stateVars
    <3>4. Unanswered' \subseteq Unanswered
      BY <3>2, <3>3 DEF Unanswered, Event, StopEvents
    <3> QED
      BY <2>2, <3>3, <3>4 DEF UnansweredMeansStopped, process_suspended
  <2>4. CASE finish \/ Reinstrumenter
    <3>1. UNCHANGED <<process_state, events, last_ev, ida>>
      BY <2>4 DEF finish, Reinstrumenter, ReinstrStep, reinstr_start,
         remove_begin, remove_end, reinstr_clear, reinstr_exit, stateVars,
         queueVars, idaVars
    <3>2. Unanswered' = Unanswered
      BY <3>1 DEF Unanswered
    <3> QED
      BY <2>2, <3>1, <3>2 DEF UnansweredMeansStopped, process_suspended
  <2> QED
    BY <1>3, <2>1, <2>2, <2>3, <2>4, StoppedByApp, StoppedByListener
    DEF Application
<1> QED
  BY <1>1, <1>2, <1>3

-----------------------------------------------------------------------------
(* The invariant                                                           *)

TraceInv ==
  /\ TypeInv /\ EndInv /\ TraceTypeOK /\ FlushLock
  /\ FlushInv /\ UnansweredMeansStopped

LEMMA TraceInitInv == TraceInit => TraceInv
<1> SUFFICES ASSUME TraceInit PROVE TraceInv
  OBVIOUS
<1>1. SafetyInv /\ Init
  BY SafetyInit DEF TraceInit
<1>2. FullMeansWaiting /\ NoSilentFlush
  BY <1>1 DEF Init, FullMeansWaiting, TraceFullUnanswered, NoSilentFlush, Event
<1>3. UnansweredMeansStopped
  BY <1>1 DEF Init, UnansweredMeansStopped, process_suspended
<1>4. /\ trace_len = 0 /\ tracebuf_sem = TRUE
      /\ tr = [t \in Threads |-> "out"]
      /\ resuming = FALSE /\ drained = FALSE
  BY DEF TraceInit
<1>5. TraceTypeOK /\ FlushLock
  BY <1>4 DEF TraceTypeOK, FlushLock
<1> QED
  BY <1>1, <1>2, <1>3, <1>5 DEF SafetyInv, TraceInv, FlushInv

\* When WAIT_FLUSH is written the process runs, or the session is ending and
\* that is not undone by writing over EXITING.
LEMMA FlushOfWrite ==
  ASSUME TraceInv, NEW t \in Threads, write_trace_flush(t)
  PROVE  FlushInv' /\ UnansweredMeansStopped'
<1> USE DEF TraceInv, TypeInv
<1>1. /\ tr[t] = "flushing" /\ process_state' = "WAIT_FLUSH"
      /\ UNCHANGED <<run_app_sem, lpc, ida>> /\ events' # <<>>
  BY FlushEffect DEF idaVars
<1>2. pc[t] = "run" /\ process_state \in {"RUNNING", "EXITING", "DETACHED"}
  BY <1>1 DEF FlushLock
<1>3. fini = "no"
  BY <1>2 DEF EndInv, NoThreadLeft
<1>4. ~Ending' => process_state = "RUNNING" /\ ~Ending
  BY <1>1, <1>2, <1>3 DEF Ending, EndInv
<1>5. SemaphoreMatchesState'
  BY <1>1, <1>4 DEF FlushInv, SemaphoreMatchesState
<1> QED
  BY <1>1, <1>5 DEF FlushInv, FullMeansWaiting, NoSilentFlush,
     UnansweredMeansStopped, process_suspended

LEMMA TraceStep ==
  ASSUME TraceInv, [TraceNext]_tvars
  PROVE  TraceInv'
<1> USE DEF TraceInv
<1>1. TypeInv' /\ EndInv' /\ TraceTypeOK' /\ FlushLock'
  BY TraceTypeInv, TraceEndInv, BufferTypes, FlushLockStep DEF TypeInv
<1>2. CASE [Next]_vars
  BY <1>1, <1>2, FlushOfCore, StoppedByCore DEF TypeInv
<1>3. ASSUME NEW t \in Threads, prepare_trace_flush(t)
      PROVE  FlushInv' /\ UnansweredMeansStopped'
  <2>1. UNCHANGED <<process_state, run_app_sem, events, last_ev, lpc, ida>>
    BY <1>3, PrepareEffect DEF queueVars, idaVars
  <2> QED
    BY <2>1 DEF FlushInv, SemaphoreMatchesState, FullMeansWaiting, NoSilentFlush,
       TraceFullUnanswered, UnansweredMeansStopped, Unanswered, process_suspended,
       Ending
<1> QED
  BY <1>1, <1>2, <1>3, FlushOfWrite, StepsOfTrace

LEMMA TraceHolds == TraceSpec => []TraceInv
BY TraceInitInv, TraceStep, PTL DEF TraceSpec

-----------------------------------------------------------------------------
\* Every variable of the trace buffer holds a value of its type: the number of
\* entries does not become negative, whichever packet is the last.
THEOREM TraceTypeCorrect == TraceSpec => []TraceTypeOK
<1>1. TraceInv => TraceTypeOK
  BY DEF TraceInv
<1> QED
  BY <1>1, TraceHolds, PTL

\* While TRACE_FULL has no answer nothing else ends WAIT_FLUSH, neither other
\* events and their answers, nor pauses, nor another thread that finds the
\* buffer full.
THEOREM FullAlwaysWaits == TraceSpec => []FullMeansWaiting
<1>1. TraceInv => FullMeansWaiting
  BY DEF TraceInv, FlushInv
<1> QED
  BY <1>1, TraceHolds, PTL

\* WAIT_FLUSH never lasts without an event whose answer will end it.
THEOREM FlushNeverSilent == TraceSpec => []NoSilentFlush
<1>1. TraceInv => NoSilentFlush
  BY DEF TraceInv, FlushInv
<1> QED
  BY <1>1, TraceHolds, PTL

\* Buffered resume across flushes: what a thread reports while others wait for
\* the buffer keeps the process stopped after TRACE_FULL has been answered.
THEOREM ReportsOutlastFlush == TraceSpec => []UnansweredMeansStopped
<1>1. TraceInv => UnansweredMeansStopped
  BY DEF TraceInv
<1> QED
  BY <1>1, TraceHolds, PTL

\* A pause request is not cancelled by a full buffer: a thread that finds it
\* full then only waits, until the pause has been answered, and none that found
\* the process running before still has WAIT_FLUSH to write.
THEOREM PauseKeptInFlush == TraceSpec => PauseIsKept
<1>1. ASSUME TraceInv, [TraceNext]_tvars, process_state = "PAUSE"
      PROVE  process_state' \in {"PAUSE", "SUSPENDED", "EXITING", "DETACHED"}
  <2>1. ~\E t \in Threads : prepare_trace_flush(t) \/ write_trace_flush(t)
    BY <1>1 DEF prepare_trace_flush, write_trace_flush, TraceInv, FlushLock
  <2> QED
    BY <1>1, <2>1, PauseStep, StepsOfTrace DEF TraceInv
<1> QED
  BY <1>1, TraceHolds, PTL DEF TraceSpec, PauseIsKept

\* Once the process is exiting or detached and no thread is inside a section
\* that suspends or flushes it, no full buffer brings it back.  (A thread inside
\* one does, as in FinalWhenOver: it writes WAIT_FLUSH over EXITING or DETACHED.)
THEOREM FinalInFlush == TraceSpec => OverIsFinal
<1>1. ASSUME TraceInv, [TraceNext]_tvars,
             process_over, process_state_lock = NoThread
      PROVE  process_over' /\ process_state_lock' = NoThread
  <2>1. ~\E t \in Threads : prepare_trace_flush(t) \/ write_trace_flush(t)
    BY <1>1 DEF prepare_trace_flush, write_trace_flush, process_over, TraceInv,
       FlushLock
  <2> QED
    BY <1>1, <2>1, OverStep, StepsOfTrace DEF TraceInv
<1> QED
  BY <1>1, TraceHolds, PTL DEF TraceSpec, OverIsFinal

\* With flushes, too, the application's semaphore is clear exactly while the
\* process is suspended.
THEOREM SemaphoreMatchesInFlush == TraceSpec => []SemaphoreMatchesState
<1>1. TraceInv => SemaphoreMatchesState
  BY DEF TraceInv, FlushInv
<1> QED
  BY <1>1, TraceHolds, PTL
=============================================================================
