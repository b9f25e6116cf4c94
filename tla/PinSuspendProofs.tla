--------------------------- MODULE PinSuspendProofs ---------------------------
(***************************************************************************)
(* Theorems about PinSuspend, for every set of threads and addresses and   *)
(* every set of sessions.                                                  *)
(***************************************************************************)
EXTENDS PinSuspend, FiniteSetTheorems, SequenceTheorems, TLAPS

USE ConstantsAssumption

-----------------------------------------------------------------------------
(* Events, queues and counts                                               *)

\* What Event makes is an event.
LEMMA EventType ==
  ASSUME NEW eid \in EventIds, NEW tid \in Threads \cup {NoThread},
         tid = NoThread => eid = "PROCESS_SUSPEND"
  PROVE  Event(eid, tid) \in Events
BY DEF Event, Events

\* An appended event: the queue is a queue, and holds the event besides.
LEMMA QueueAppend ==
  ASSUME NEW q \in Seq(Events), NEW e \in Events
  PROVE  /\ Append(q, e) \in Seq(Events)
         /\ Append(q, e) # <<>>
         /\ Append(q, e)[Len(Append(q, e))] = e
         /\ Range(Append(q, e)) = Range(q) \cup {e}
<1>1. /\ Append(q, e) \in Seq(Events)
      /\ Append(q, e) # <<>>
      /\ Len(Append(q, e)) = Len(q) + 1
      /\ \A i \in 1 .. Len(q) : Append(q, e)[i] = q[i]
      /\ Append(q, e)[Len(q) + 1] = e
  BY AppendProperties
<1>2. DOMAIN q = 1 .. Len(q) /\ Len(q) \in Nat
  BY LenProperties
<1>3. DOMAIN Append(q, e) = 1 .. Len(q) + 1
  BY <1>1, LenProperties
<1>4. 1 .. Len(q) + 1 = (1 .. Len(q)) \cup {Len(q) + 1}
  BY <1>2
<1>5. Range(Append(q, e)) = Range(q) \cup {e}
  BY <1>1, <1>2, <1>3, <1>4 DEF Range
<1> QED
  BY <1>1, <1>5

\* The first event is taken out of a queue.
LEMMA QueueTake ==
  ASSUME NEW q \in Seq(Events), q # <<>>
  PROVE  /\ Head(q) \in Events
         /\ Tail(q) \in Seq(Events)
         /\ Len(Tail(q)) < Len(q)
         /\ Range(q) = Range(Tail(q)) \cup {Head(q)}
<1>1. /\ Head(q) \in Events
      /\ Tail(q) \in Seq(Events)
      /\ Len(Tail(q)) = Len(q) - 1
      /\ \A i \in 1 .. Len(Tail(q)) : Tail(q)[i] = q[i + 1]
  BY HeadTailProperties
<1>2. DOMAIN q = 1 .. Len(q) /\ Len(q) \in Nat \ {0}
  BY LenProperties, EmptySeq
<1>3. DOMAIN Tail(q) = 1 .. Len(q) - 1
  BY <1>1, LenProperties
<1>4. Head(q) = q[1]
  OBVIOUS
<1>5. ASSUME NEW i \in 1 .. Len(q) PROVE q[i] \in Range(Tail(q)) \cup {Head(q)}
  <2>1. CASE i = 1
    BY <2>1, <1>4
  <2>2. CASE i # 1
    <3>1. i - 1 \in 1 .. Len(q) - 1 /\ Tail(q)[i - 1] = q[i]
      BY <1>1, <1>2, <2>2
    <3> QED
      BY <3>1, <1>3 DEF Range
  <2> QED
    BY <2>1, <2>2
<1>6. ASSUME NEW i \in 1 .. Len(q) - 1 PROVE Tail(q)[i] \in Range(q)
  <2>1. i + 1 \in 1 .. Len(q) /\ Tail(q)[i] = q[i + 1]
    BY <1>1, <1>2
  <2> QED
    BY <2>1, <1>2 DEF Range
<1>7. Head(q) \in Range(q)
  BY <1>2, <1>4 DEF Range
<1>8. Range(q) = Range(Tail(q)) \cup {Head(q)}
  BY <1>2, <1>3, <1>5, <1>6, <1>7 DEF Range
<1> QED
  BY <1>1, <1>2, <1>8

\* Everything in a queue of events is an event, and the last is in it.
LEMMA QueueRange ==
  ASSUME NEW q \in Seq(Events)
  PROVE  /\ Range(q) \subseteq Events
         /\ q = <<>> => Range(q) = {}
         /\ q # <<>> => q[Len(q)] \in Range(q)
<1>1. DOMAIN q = 1 .. Len(q) /\ Len(q) \in Nat
  BY LenProperties
<1>2. Range(q) \subseteq Events
  BY <1>1, ElementOfSeq DEF Range
<1>3. q = <<>> => Range(q) = {}
  BY <1>1 DEF Range
<1>4. q # <<>> => q[Len(q)] \in Range(q)
  BY <1>1, EmptySeq DEF Range
<1> QED
  BY <1>2, <1>3, <1>4

\* A pause request with events queued is answered by one more event.
LEMMA PauseEvent ==
  ASSUME TypeOK, prepare_pause_queued
  PROVE  Event("PROCESS_SUSPEND", events[Len(events)].tid) \in Events
<1>1. events # <<>> /\ events \in Seq(Events)
  BY DEF prepare_pause_queued, TypeOK
<1>2. PICK e \in Events : e = events[Len(events)]
  BY <1>1, QueueRange
<1>3. e.tid \in Threads \cup {NoThread}
  BY DEF Events
<1> QED
  BY <1>2, <1>3, EventType DEF EventIds

-----------------------------------------------------------------------------
(* Type correctness                                                        *)

SuspendedSet == {t \in Threads : susp[t]}

\* suspeded_cnt counts the threads whose flag is set, as long as IDA suspends
\* and resumes threads in turn (SuspensionPackets).  release_thread_data touches
\* neither, so threads that are gone may be among them.
CountInv == suspeded_cnt = Cardinality(SuspendedSet)

\* A thread that is about to emit an event has one, and holds the lock.
EmitInv ==
  \A t \in Threads :
    pc[t] = "emit" => process_state_lock = t /\ ev[t] # "NO_EVENT"

TypeInv == TypeOK /\ CountInv /\ EmitInv

LEMMA TypeInit == Init => TypeInv
<1> SUFFICES ASSUME Init PROVE TypeInv
  OBVIOUS
<1>1. SuspendedSet = {}
  BY DEF Init, SuspendedSet
<1>2. CountInv
  BY <1>1, FS_EmptySet DEF Init, CountInv
<1>3. EmitInv
  BY DEF Init, EmitInv
<1>4. Event("PROCESS_START", MainThread) \in Events
  BY EventType DEF EventIds, StopEvents
<1>5. events \in Seq(Events) /\ last_ev \in Events
  BY <1>4 DEF Init
<1>6. at \in [Threads -> Addrs]
  BY DEF Init
<1>7. pc \in [Threads -> {"unborn", "app_start", "run", "lock", "emit",
                         "cb_wait", "thr_wait", "app_wait", "sem_wait", "gone"}]
  BY DEF Init
<1>8. rtn \in [Threads -> {"none", "do_ctrl", "do_bpt", "thread_start_cb",
                          "thread_fini_cb", "context_change_cb"}]
  BY DEF Init
<1>9. break_at_next_inst \in BOOLEAN
  BY DEF Init
<1>10. TypeOK
  BY <1>5, <1>6, <1>7, <1>8, <1>9 DEF Init, TypeOK, ProcessStates
<1> QED
  BY <1>2, <1>3, <1>10 DEF TypeInv

\* The flag of ctrl_rtn and the state of the instrumentation stay Booleans and
\* states when do_resume or update_instrumentation compute them.
LEMMA ComputedTypes ==
  ASSUME TypeOK, NEW pending, NEW brk \in BOOLEAN
  PROVE  /\ need_control_cb(pending, brk) \in BOOLEAN
         /\ reinit_instrumentations =>
              /\ instr_state' \in {"OK", "NEED_REINIT"}
              /\ reinstr_sem' \in BOOLEAN
              /\ rpc' = rpc
<1>1. need_control_cb(pending, brk) \in BOOLEAN
  BY DEF need_control_cb
<1>2. (reinstr_sem \/ rpc # "unstarted") \in BOOLEAN
  OBVIOUS
<1>3. ASSUME reinit_instrumentations
      PROVE  /\ instr_state' \in {"OK", "NEED_REINIT"}
             /\ reinstr_sem' \in BOOLEAN
             /\ rpc' = rpc
  <2>1. CASE instr_state = "INITIAL"
    BY <1>3, <2>1 DEF reinit_instrumentations, TypeOK
  <2>2. CASE instr_state # "INITIAL"
    BY <1>2, <1>3, <2>2 DEF reinit_instrumentations
  <2> QED
    BY <2>1, <2>2
<1> QED
  BY <1>1, <1>3

LEMMA TypeOfAppStep ==
  ASSUME TypeInv, UNCHANGED session, NEW t \in Threads, AppThread(t)
  PROVE  TypeOK'
<1> USE DEF TypeInv, TypeOK, stateVars, queueVars, bptVars, thrVars, insVars,
            appVars, idaVars
<1>1. CASE thread_start_cb(t)
  BY <1>1 DEF thread_start_cb, Call, EventIds, StopEvents
<1>2. CASE thread_fini_cb(t)
  BY <1>2 DEF thread_fini_cb, Call, EventIds, StopEvents
<1>3. CASE context_change_cb(t)
  BY <1>3 DEF context_change_cb, Call, EventIds, StopEvents
<1>4. CASE image_load_cb(t)
  <2>1. Event("LIBRARY_LOAD", t) \in Events
    BY EventType DEF EventIds
  <2>2. events' \in Seq(Events)
    BY <1>4, <2>1, QueueAppend DEF image_load_cb
  <2> QED
    BY <1>4, <2>2 DEF image_load_cb
<1>5. CASE EnterIdle(t)
  BY <1>5 DEF EnterIdle, Leave
<1>6. CASE Enter(t)
  BY <1>6 DEF Enter, EventUnderLock, EventIds, StopEvents
<1>7. CASE Emit(t)
  <2>1. Event(ev[t], t) \in Events
    BY <1>7, EventType DEF Emit, EmitInv, EventIds
  <2>2. events' \in Seq(Events)
    BY <1>7, <2>1, QueueAppend DEF Emit
  <2>3. /\ process_state' \in ProcessStates
        /\ run_app_sem' \in BOOLEAN
        /\ control_enabled' \in BOOLEAN
    BY <1>7 DEF Emit, do_suspend_nolock, ProcessStates
  <2>4. /\ stepping_thread' \in Threads \cup {NoThread}
        /\ break_at_next_inst' \in BOOLEAN
    BY <1>7 DEF Emit
  <2>5. /\ pc' = [pc EXCEPT ![t] = Leave(t)]
        /\ ev' = [ev EXCEPT ![t] = "NO_EVENT"]
        /\ process_state_lock' = NoThread
        /\ UNCHANGED <<last_ev, bpts, pending_bpts, need_reinst, bpt_code, thrVars,
                       insVars, rtn, at, idaVars>>
    BY <1>7 DEF Emit
  <2> QED
    BY <2>2, <2>3, <2>4, <2>5 DEF Leave
<1>8. CASE wait_after_callback(t)
  BY <1>8 DEF wait_after_callback
<1>9. CASE thread_wait(t)
  BY <1>9 DEF thread_wait
<1>10. CASE serve_sync(t)
  BY <1>10 DEF serve_sync
<1>11. CASE sema_wait(t)
  BY <1>11 DEF sema_wait
<1>12. ASSUME NEW a \in Addrs, do_ctrl(t, a) PROVE TypeOK'
  BY <1>12 DEF do_ctrl, Call, EventIds, StopEvents
<1>13. ASSUME NEW a \in Addrs, do_bpt(t, a) PROVE TypeOK'
  BY <1>13 DEF do_bpt, Call
<1>14. ASSUME NEW a \in Addrs, add_rtns(t, a) PROVE TypeOK'
  <2>1. /\ bpts' \subseteq Addrs /\ pending_bpts' \subseteq Addrs
        /\ bpt_code' \subseteq Addrs
    BY <1>14 DEF add_rtns
  <2>2. control_enabled' \in BOOLEAN
    BY <1>14, ComputedTypes DEF add_rtns
  <2> QED
    BY <1>14, <2>1, <2>2 DEF add_rtns
<1> QED
  BY <1>1, <1>2, <1>3, <1>4, <1>5, <1>6, <1>7, <1>8, <1>9, <1>10, <1>11, <1>12,
     <1>13, <1>14 DEF AppThread, InsideTool

LEMMA TypeOfExit ==
  ASSUME TypeInv, UNCHANGED session, fini_cb \/ finish
  PROVE  TypeOK'
<1> USE DEF TypeInv, TypeOK, stateVars, queueVars, bptVars, thrVars, insVars,
            appVars, idaVars
<1>1. CASE fini_cb
  <2>1. Event("PROCESS_EXIT", MainThread) \in Events
    BY EventType DEF EventIds
  <2>2. events' \in Seq(Events)
    BY <1>1, <2>1, QueueAppend DEF fini_cb
  <2> QED
    BY <1>1, <2>2 DEF fini_cb
<1>2. CASE finish
  BY <1>2 DEF finish
<1> QED
  BY <1>1, <1>2

LEMMA TypeOfResume ==
  ASSUME TypeInv, UNCHANGED session, do_resume
  PROVE  TypeOK'
<1> USE DEF TypeInv, TypeOK
<1>1. /\ run_app_sem' \in BOOLEAN
      /\ control_enabled' \in BOOLEAN
      /\ need_reinst' \in BOOLEAN
      /\ instr_state' \in {"INITIAL", "NEED_REINIT", "REINIT_STARTED", "OK"}
      /\ reinstr_sem' \in BOOLEAN
      /\ rpc' \in {"unstarted", "wait", "remove", "clear", "done"}
  <2>1. CASE ResumeNow
    <3>1. ActualResume
      BY <2>1 DEF do_resume
    <3>2. /\ run_app_sem' \in BOOLEAN
          /\ control_enabled' \in BOOLEAN
          /\ need_reinst' \in BOOLEAN
      BY <3>1, ComputedTypes DEF ActualResume
    <3>3. reinit_instrumentations \/ UNCHANGED insVars
      BY <3>1 DEF ActualResume
    <3> QED
      BY <3>2, <3>3, ComputedTypes DEF insVars
  <2>2. CASE ~ResumeNow
    BY <2>2 DEF do_resume, NoResume, insVars
  <2> QED
    BY <2>1, <2>2
<1>2. process_state' \in ProcessStates
  BY DEF do_resume, StateAfterResume, ProcessStates
<1>3. pc' \in [Threads -> {"unborn", "app_start", "run", "lock", "emit",
                          "cb_wait", "thr_wait", "app_wait", "sem_wait", "gone"}]
  BY DEF do_resume
<1>4. /\ thr_data' \subseteq Threads /\ ida_threads' \subseteq Threads
      /\ UNCHANGED <<susp, suspeded_cnt>>
  BY DEF do_resume, release_thread_data, thrVars
<1>5. ida' = "wait"
  BY DEF do_resume
<1>6. UNCHANGED <<process_state_lock, queueVars, bpts, pending_bpts,
                 stepping_thread, break_at_next_inst, bpt_code, rtn, ev, at,
                 lpc, fini>>
  BY DEF do_resume
<1> QED
  BY <1>1, <1>2, <1>3, <1>4, <1>5, <1>6 DEF queueVars

LEMMA TypeOfPause ==
  ASSUME TypeInv, UNCHANGED session,
         prepare_pause_queued \/ prepare_pause_begin \/ prepare_pause_locked
  PROVE  TypeOK'
<1> USE DEF TypeInv, TypeOK, stateVars, queueVars, bptVars, thrVars, insVars,
            appVars, idaVars
<1>1. CASE prepare_pause_queued
  <2>1. events[Len(events)] \in Events
    BY <1>1, QueueRange DEF prepare_pause_queued
  <2>2. Event("PROCESS_SUSPEND", events[Len(events)].tid) \in Events
    BY <2>1, EventType DEF Events, EventIds
  <2>3. events' \in Seq(Events)
    BY <1>1, <2>2, QueueAppend DEF prepare_pause_queued
  <2> QED
    BY <1>1, <2>3 DEF prepare_pause_queued
<1>2. CASE prepare_pause_begin
  BY <1>2 DEF prepare_pause_begin
<1>3. CASE prepare_pause_ignored
  BY <1>3 DEF prepare_pause_ignored, PauseUnderLock
<1>4. CASE prepare_pause_suspend
  <2>1. Event("PROCESS_SUSPEND", NoThread) \in Events
    BY EventType DEF EventIds
  <2>2. events' \in Seq(Events)
    BY <1>4, <2>1, QueueAppend DEF prepare_pause_suspend
  <2>3. /\ process_state' \in ProcessStates
        /\ run_app_sem' \in BOOLEAN
        /\ control_enabled' \in BOOLEAN
    BY <1>4 DEF prepare_pause_suspend, do_suspend_nolock, ProcessStates
  <2> QED
    BY <1>4, <2>2, <2>3 DEF prepare_pause_suspend, PauseUnderLock
<1>5. CASE prepare_pause_request
  BY <1>5 DEF prepare_pause_request, PauseUnderLock, ProcessStates
<1> QED
  BY <1>1, <1>2, <1>3, <1>4, <1>5 DEF prepare_pause_locked

LEMMA TypeOfPacket ==
  ASSUME TypeInv, UNCHANGED session, OtherPackets
  PROVE  TypeOK'
<1> USE DEF TypeInv, TypeOK, stateVars, queueVars, bptVars, thrVars, insVars,
            appVars, idaVars
<1>1. CASE pop_debug_event
  <2>1. /\ Head(events) \in Events
        /\ Tail(events) \in Seq(Events)
    BY <1>1, QueueTake DEF pop_debug_event
  <2>2. ida_threads' \subseteq Threads
    <3>1. Head(events).eid \in {"PROCESS_START", "THREAD_START"}
            => Head(events).tid \in Threads
      BY <2>1 DEF Events
    <3> QED
      BY <1>1, <3>1 DEF pop_debug_event
  <2> QED
    BY <1>1, <2>1, <2>2 DEF pop_debug_event
<1>2. CASE resume_refused
  BY <1>2 DEF resume_refused
<1>3. CASE prepare_pause_queued \/ prepare_pause_begin \/ prepare_pause_locked
  BY <1>3, TypeOfPause
<1>4. ASSUME NEW t \in Threads, set_step(t) PROVE TypeOK'
  BY <1>4 DEF set_step
<1>5. ASSUME NEW t \in Threads, ~susp[t], thread_suspend(t) PROVE TypeOK'
  BY <1>5 DEF thread_suspend
<1>6. ASSUME NEW t \in Threads, susp[t], thread_resume(t) PROVE TypeOK'
  <2>1. IsFiniteSet(SuspendedSet) /\ t \in SuspendedSet
    BY <1>6, FS_Subset DEF thread_resume, SuspendedSet
  <2>2. suspeded_cnt # 0
    BY <2>1, FS_EmptySet DEF CountInv
  <2>3. suspeded_cnt - 1 \in Nat
    BY <2>2
  <2> QED
    BY <1>6, <2>3 DEF thread_resume
<1>7. ASSUME NEW a \in Addrs, add_soft_bpt(a) PROVE TypeOK'
  BY <1>7 DEF add_soft_bpt
<1>8. ASSUME NEW a \in Addrs, del_soft_bpt(a) PROVE TypeOK'
  BY <1>8 DEF del_soft_bpt
<1>9. CASE update_instrumentation
  <2>1. /\ instr_state' \in {"INITIAL", "NEED_REINIT", "REINIT_STARTED", "OK"}
        /\ reinstr_sem' \in BOOLEAN
        /\ rpc' = rpc
    BY <1>9, ComputedTypes DEF update_instrumentation
  <2> QED
    BY <1>9, <2>1 DEF update_instrumentation
<1>10. CASE exit_process
  BY <1>10 DEF exit_process, ProcessStates
<1>11. CASE detach_process
  BY <1>11 DEF detach_process, ProcessStates
<1>12. CASE set_run_app_sem
  BY <1>12 DEF set_run_app_sem
<1>13. CASE listener_detached
  BY <1>13 DEF listener_detached
<1>14. CASE listener_exiting
  BY <1>14 DEF listener_exiting
<1> QED
  BY <1>1, <1>2, <1>3, <1>4, <1>5, <1>6, <1>7, <1>8, <1>9, <1>10, <1>11, <1>12,
     <1>13, <1>14 DEF OtherPackets, SuspensionPackets

LEMMA TypeOfReinstr ==
  ASSUME TypeInv, UNCHANGED session, Reinstrumenter
  PROVE  TypeOK'
<1>1. /\ instr_state' \in {"INITIAL", "NEED_REINIT", "REINIT_STARTED", "OK"}
      /\ reinstr_sem' \in BOOLEAN
      /\ rpc' \in {"unstarted", "wait", "remove", "clear", "done"}
      /\ UNCHANGED <<stateVars, queueVars, bptVars, thrVars, appVars, idaVars>>
  BY DEF Reinstrumenter, ReinstrStep, reinstr_start, remove_begin, remove_end,
         reinstr_clear, reinstr_exit, TypeInv, TypeOK
<1> QED
  BY <1>1 DEF TypeInv, TypeOK, stateVars, queueVars, bptVars, thrVars, appVars,
              idaVars

LEMMA TypeStep ==
  ASSUME TypeInv, [Next]_vars
  PROVE  TypeOK'
<1>1. CASE UNCHANGED vars
  BY <1>1 DEF vars, TypeInv, TypeOK, stateVars, queueVars, bptVars, thrVars,
              insVars, appVars, idaVars
<1>2. CASE Application /\ UNCHANGED session
  BY <1>2, TypeOfAppStep, TypeOfExit DEF Application
<1>3. CASE Listener /\ UNCHANGED session
  BY <1>3, TypeOfResume, TypeOfPacket DEF Listener
<1>4. CASE Reinstrumenter /\ UNCHANGED session
  BY <1>4, TypeOfReinstr
<1> QED
  BY <1>1, <1>2, <1>3, <1>4 DEF Next

\* Only PTT_THREAD_SUSPEND and PTT_THREAD_RESUME touch flags and counter.
LEMMA OnlyPacketsSuspend ==
  ASSUME [Next]_vars
  PROVE  \/ UNCHANGED <<susp, suspeded_cnt>>
         \/ \E t \in Threads : SuspensionPackets(t)
<1>1. CASE UNCHANGED vars
  BY <1>1 DEF vars, thrVars
<1>2. CASE Application
  BY <1>2 DEF Application, AppThread, InsideTool, thread_start_cb,
     thread_fini_cb, context_change_cb, image_load_cb, fini_cb, finish, do_ctrl,
     do_bpt, EnterIdle, Enter, Emit, wait_after_callback, thread_wait,
     serve_sync, sema_wait, add_rtns, thrVars
<1>3. CASE Listener
  BY <1>3 DEF Listener, do_resume, release_thread_data, OtherPackets,
     pop_debug_event, resume_refused, prepare_pause_queued, prepare_pause_begin,
     prepare_pause_locked, prepare_pause_ignored, prepare_pause_suspend,
     prepare_pause_request, PauseUnderLock, set_step, add_soft_bpt,
     del_soft_bpt, update_instrumentation, exit_process, detach_process,
     set_run_app_sem, listener_detached, listener_exiting, thrVars
<1>4. CASE Reinstrumenter
  BY <1>4 DEF Reinstrumenter, ReinstrStep, reinstr_start, remove_begin,
     remove_end, reinstr_clear, reinstr_exit, thrVars
<1> QED
  BY <1>1, <1>2, <1>3, <1>4 DEF Next

LEMMA CountStep ==
  ASSUME TypeInv, [Next]_vars
  PROVE  CountInv'
<1> IsFiniteSet(SuspendedSet)
  BY FS_Subset DEF SuspendedSet
<1>1. CASE UNCHANGED <<susp, suspeded_cnt>>
  BY <1>1 DEF TypeInv, CountInv, SuspendedSet
<1>2. ASSUME NEW t \in Threads, ~susp[t], thread_suspend(t) PROVE CountInv'
  <2>1. t \notin SuspendedSet /\ SuspendedSet' = SuspendedSet \cup {t}
    BY <1>2 DEF thread_suspend, SuspendedSet, TypeInv, TypeOK
  <2>2. Cardinality(SuspendedSet') = Cardinality(SuspendedSet) + 1
    BY <2>1, FS_AddElement
  <2> QED
    BY <1>2, <2>2 DEF thread_suspend, CountInv, TypeInv
<1>3. ASSUME NEW t \in Threads, susp[t], thread_resume(t) PROVE CountInv'
  <2>1. t \in SuspendedSet /\ SuspendedSet' = SuspendedSet \ {t}
    BY <1>3 DEF thread_resume, SuspendedSet, TypeInv, TypeOK
  <2>2. Cardinality(SuspendedSet') = Cardinality(SuspendedSet) - 1
    BY <2>1, FS_RemoveElement
  <2> QED
    BY <1>3, <2>2 DEF thread_resume, CountInv, TypeInv
<1> QED
  BY <1>1, <1>2, <1>3, OnlyPacketsSuspend DEF SuspensionPackets

\* A step of thread t leaves the program counter and the event of others alone.
LEMMA ThreadIsAlone ==
  ASSUME TypeOK, NEW t \in Threads, AppThread(t)
  PROVE  \A u \in Threads \ {t} : pc'[u] = pc[u] /\ ev'[u] = ev[u] /\ rtn'[u] = rtn[u]
BY DEF TypeOK, AppThread, InsideTool, thread_start_cb, thread_fini_cb,
   context_change_cb, image_load_cb, do_ctrl, do_bpt, Call, EnterIdle, Enter,
   Emit, wait_after_callback, thread_wait, serve_sync, sema_wait, add_rtns,
   appVars

\* Packets move no thread but the main one, out of app_start_cb.
LEMMA ListenerMovesMain ==
  ASSUME TypeOK, Listener
  PROVE  /\ UNCHANGED <<ev, rtn, process_state_lock>>
         /\ \/ pc' = pc
            \/ /\ pc[MainThread] = "app_start"
               /\ pc' = [pc EXCEPT ![MainThread] = "run"]
BY DEF Listener, do_resume, OtherPackets, pop_debug_event, resume_refused,
   prepare_pause_queued, prepare_pause_begin, prepare_pause_locked,
   prepare_pause_ignored, prepare_pause_suspend, prepare_pause_request,
   PauseUnderLock, set_step, SuspensionPackets,
   thread_suspend, thread_resume, add_soft_bpt,
   del_soft_bpt, update_instrumentation, exit_process, detach_process,
   set_run_app_sem, listener_detached, listener_exiting, stateVars, appVars

LEMMA EmitStep ==
  ASSUME TypeInv, [Next]_vars
  PROVE  EmitInv'
<1> USE DEF TypeInv, TypeOK
<1>1. CASE UNCHANGED vars
  BY <1>1 DEF vars, stateVars, appVars, EmitInv
<1>2. ASSUME NEW t \in Threads, AppThread(t) PROVE EmitInv'
  <2>1. CASE Enter(t)
    <3>1. \A u \in Threads : pc[u] # "emit"
      BY <2>1 DEF Enter, EmitInv
    <3>2. process_state_lock' = t /\ ev'[t] # "NO_EVENT"
      BY <2>1 DEF Enter, Emits, EventUnderLock, EventIds, StopEvents
    <3> QED
      BY <1>2, <3>1, <3>2, ThreadIsAlone DEF EmitInv
  <2>2. CASE Emit(t)
    <3>1. \A u \in Threads \ {t} : pc[u] # "emit"
      BY <2>2 DEF Emit, EmitInv
    <3>2. pc'[t] # "emit"
      BY <2>2 DEF Emit, Leave
    <3> QED
      BY <1>2, <3>1, <3>2, ThreadIsAlone DEF EmitInv
  <2>3. CASE ~Enter(t) /\ ~Emit(t)
    <3>1. /\ process_state_lock' = process_state_lock
          /\ \/ pc'[t] = pc[t] /\ ev'[t] = ev[t]
             \/ pc'[t] # "emit"
      BY <1>2, <2>3 DEF AppThread, InsideTool, thread_start_cb, thread_fini_cb,
         context_change_cb, image_load_cb, do_ctrl, do_bpt, Call, EnterIdle,
         Leave, wait_after_callback, thread_wait, serve_sync, sema_wait,
         add_rtns, stateVars, appVars
    <3> QED
      BY <1>2, <3>1, ThreadIsAlone DEF EmitInv
  <2> QED
    BY <2>1, <2>2, <2>3
<1>3. CASE Listener
  BY <1>3, ListenerMovesMain DEF EmitInv
<1>4. CASE fini_cb \/ finish \/ Reinstrumenter
  BY <1>4 DEF fini_cb, finish, Reinstrumenter, ReinstrStep, reinstr_start,
     remove_begin, remove_end, reinstr_clear, reinstr_exit, stateVars, appVars,
     EmitInv
<1> QED
  BY <1>1, <1>2, <1>3, <1>4 DEF Next, Application

\* Every variable keeps a value of its type, whatever callbacks, packets and
\* internal threads do in whatever order; in particular a thread that emit_event
\* or suspend_at_event lets pass has an event to emit.  That the count of
\* suspended threads does not become negative follows from what is assumed of
\* IDA (SuspensionPackets): the tool itself decrements it unasked.
THEOREM TypeCorrect == Spec => []TypeOK
<1>1. TypeInv /\ [Next]_vars => TypeInv'
  BY TypeStep, CountStep, EmitStep DEF TypeInv
<1>2. TypeInv => TypeOK
  BY DEF TypeInv
<1> QED
  BY <1>1, <1>2, TypeInit, PTL DEF Spec

-----------------------------------------------------------------------------
(* Buffered resume                                                         *)

\* How the session ends: fini_cb is called when no thread is left, PROCESS_EXIT
\* comes from fini_cb only, and the state EXITING or DETACHED goes with what
\* the listener does next.
NoThreadLeft == \A t \in Threads : pc[t] \in {"unborn", "gone"}

EndInv ==
  /\ fini # "no" => NoThreadLeft
  /\ \A e \in Range(events) \cup {last_ev} :
       e.eid = "PROCESS_EXIT" => fini # "no"
  /\ process_state = "EXITING" => fini # "no" \/ lpc \in {"exit_set", "exited"}
  /\ process_state = "DETACHED" => ida = "closed"
  /\ lpc \in {"detach_set", "check_detached"} => ida = "closed"

\* The state WAIT_FLUSH belongs to PinTrace.
NoFlush == process_state # "WAIT_FLUSH"

\* The routine a thread is in tells what it may report.
RtnInv ==
  \A t \in Threads : pc[t] \in {"lock", "emit"} =>
    /\ ev[t] \in {"BREAKPOINT", "STEP", "PROCESS_ATTACH"}
         => rtn[t] \in {"do_ctrl", "do_bpt"}
    /\ ev[t] = "EXCEPTION" => rtn[t] = "context_change_cb"

\* The inductive invariant: semaphore, state, queue and waiting threads fit
\* together.
SafetyInv ==
  /\ TypeInv /\ EndInv /\ NoFlush /\ RtnInv
  /\ SemaphoreMatchesState
  /\ UnansweredMeansSuspended
  /\ NoSilentStop
  /\ ReporterWaits

\* Once threads are gone no callback comes, so while one comes fini_cb has not
\* been called.
LEMMA AppBeforeFini ==
  ASSUME TypeInv, EndInv, NEW t \in Threads, AppThread(t)
  PROVE  fini = "no" /\ UNCHANGED <<fini, lpc, ida, last_ev>>
<1>1. UNCHANGED <<fini, lpc, ida, last_ev>>
  BY DEF AppThread, InsideTool, thread_start_cb, thread_fini_cb,
     context_change_cb, image_load_cb, do_ctrl, do_bpt, EnterIdle, Enter, Emit,
     wait_after_callback, thread_wait, serve_sync, sema_wait, add_rtns,
     idaVars, queueVars
<1>2. fini # "no" => pc[t] \in {"unborn", "gone"}
  BY DEF EndInv, NoThreadLeft
<1>3. fini = "no"
  BY <1>2 DEF AppThread, InsideTool, thread_start_cb, thread_fini_cb,
     context_change_cb, image_load_cb, do_ctrl, do_bpt, EnterIdle, Enter, Emit,
     wait_after_callback, thread_wait, serve_sync, sema_wait, add_rtns
<1> QED
  BY <1>1, <1>3

\* What an application thread does to state, semaphore and queue.
LEMMA AppEffect ==
  ASSUME TypeInv, NEW t \in Threads, AppThread(t)
  PROVE  \/ UNCHANGED <<process_state, run_app_sem, events>>
         \/ image_load_cb(t)
         \/ serve_sync(t)
         \/ Emit(t)
BY DEF AppThread, InsideTool, thread_start_cb, thread_fini_cb,
   context_change_cb, do_ctrl, do_bpt, EnterIdle, Enter, wait_after_callback,
   thread_wait, sema_wait, add_rtns, stateVars, queueVars

LEMMA EndOfAppStep ==
  ASSUME TypeInv, EndInv, NEW t \in Threads, AppThread(t)
  PROVE  EndInv'
<1>1. fini = "no" /\ UNCHANGED <<fini, lpc, ida, last_ev>>
  BY AppBeforeFini
<1>2. CASE UNCHANGED <<process_state, events>>
  BY <1>1, <1>2 DEF EndInv
<1>3. CASE image_load_cb(t)
  <2>1. Event("LIBRARY_LOAD", t) \in Events
    BY EventType DEF EventIds
  <2>2. Range(events') = Range(events) \cup {Event("LIBRARY_LOAD", t)}
    BY <1>3, <2>1, QueueAppend DEF image_load_cb, TypeInv, TypeOK
  <2>3. process_state' = process_state
    BY <1>3 DEF image_load_cb, stateVars
  <2> QED
    BY <1>1, <2>2, <2>3 DEF EndInv, Event
<1>4. CASE serve_sync(t)
  BY <1>1, <1>4 DEF serve_sync, EndInv, queueVars
<1>5. CASE Emit(t)
  <2>1. ev[t] \in StopEvents \cup {"PROCESS_SUSPEND"}
    BY <1>5 DEF Emit, TypeInv, TypeOK, EmitInv
  <2>2. Event(ev[t], t) \in Events
    BY <2>1, EventType DEF EventIds
  <2>3. Range(events') = Range(events) \cup {Event(ev[t], t)}
    BY <1>5, <2>2, QueueAppend DEF Emit, TypeInv, TypeOK
  <2>4. process_state' \in {process_state, "SUSPENDED"}
    BY <1>5 DEF Emit, do_suspend_nolock
  <2> QED
    BY <1>1, <2>1, <2>3, <2>4 DEF EndInv, Event, StopEvents
<1> QED
  BY <1>2, <1>3, <1>4, <1>5, AppEffect

LEMMA EndOfResume ==
  ASSUME TypeInv, EndInv, do_resume
  PROVE  EndInv'
<1>1. UNCHANGED <<fini, events, last_ev, lpc>> /\ ida' = "wait"
  BY DEF do_resume, queueVars
<1>2. ida # "closed" /\ lpc = "recv"
  BY DEF do_resume, Handling, ListenerIdle
<1>3. \/ last_ev.eid = "PROCESS_EXIT" /\ process_state' = "EXITING"
      \/ process_state' \in {"RUNNING", process_state}
  BY DEF do_resume, StateAfterResume
<1>4. fini # "no" => pc' = pc
  BY DEF do_resume, EndInv, NoThreadLeft
<1> QED
  BY <1>1, <1>2, <1>3, <1>4 DEF EndInv, NoThreadLeft

LEMMA EndOfPacket ==
  ASSUME TypeInv, EndInv, OtherPackets
  PROVE  EndInv'
<1> USE DEF EndInv, NoThreadLeft, Event, stateVars, queueVars, appVars, idaVars
<1>1. CASE pop_debug_event
  <2>1. Range(events') \cup {last_ev'} \subseteq Range(events)
    BY <1>1, QueueTake DEF pop_debug_event, TypeInv, TypeOK
  <2> QED
    BY <1>1, <2>1 DEF pop_debug_event, ListenerIdle
<1>2. CASE resume_refused
  BY <1>2 DEF resume_refused
<1>3. CASE prepare_pause_queued
  <2>1. events[Len(events)] \in Events
    BY <1>3, QueueRange DEF prepare_pause_queued, TypeInv, TypeOK
  <2>2. Event("PROCESS_SUSPEND", events[Len(events)].tid) \in Events
    BY <2>1, EventType DEF Events, EventIds
  <2>3. Range(events') = Range(events)
                           \cup {Event("PROCESS_SUSPEND", events[Len(events)].tid)}
    BY <1>3, <2>2, QueueAppend DEF prepare_pause_queued, TypeInv, TypeOK
  <2> QED
    BY <1>3, <2>3 DEF prepare_pause_queued, MayPause, ListenerIdle
<1>4. CASE prepare_pause_begin
  BY <1>4 DEF prepare_pause_begin, MayPause, ListenerIdle
<1>5. CASE prepare_pause_ignored \/ prepare_pause_request
  BY <1>5 DEF prepare_pause_ignored, prepare_pause_request, PauseUnderLock
<1>6. CASE prepare_pause_suspend
  <2>1. Event("PROCESS_SUSPEND", NoThread) \in Events
    BY EventType DEF EventIds
  <2>2. Range(events') = Range(events) \cup {Event("PROCESS_SUSPEND", NoThread)}
    BY <1>6, <2>1, QueueAppend DEF prepare_pause_suspend, TypeInv, TypeOK
  <2> QED
    BY <1>6, <2>2 DEF prepare_pause_suspend, PauseUnderLock, do_suspend_nolock
<1>7. ASSUME NEW t \in Threads, set_step(t) \/ thread_suspend(t) \/ thread_resume(t)
      PROVE  EndInv'
  BY <1>7 DEF set_step, thread_suspend, thread_resume
<1>8. ASSUME NEW a \in Addrs, add_soft_bpt(a) \/ del_soft_bpt(a)
      PROVE  EndInv'
  BY <1>8 DEF add_soft_bpt, del_soft_bpt
<1>9. CASE update_instrumentation
  BY <1>9 DEF update_instrumentation
<1>10. CASE exit_process \/ detach_process \/ set_run_app_sem
  BY <1>10 DEF exit_process, detach_process, set_run_app_sem
<1>11. CASE listener_detached \/ listener_exiting
  BY <1>11 DEF listener_detached, listener_exiting
<1> QED
  BY <1>1, <1>2, <1>3, <1>4, <1>5, <1>6, <1>7, <1>8, <1>9, <1>10, <1>11
  DEF OtherPackets, SuspensionPackets, prepare_pause_locked

LEMMA EndStep ==
  ASSUME TypeInv, EndInv, [Next]_vars
  PROVE  EndInv'
<1>1. CASE UNCHANGED vars
  BY <1>1 DEF vars, EndInv, NoThreadLeft, stateVars, queueVars, appVars, idaVars
<1>2. CASE fini_cb
  <2>1. Event("PROCESS_EXIT", MainThread) \in Events
    BY EventType DEF EventIds
  <2>2. events' \in Seq(Events)
    BY <1>2, <2>1, QueueAppend DEF fini_cb, TypeInv, TypeOK
  <2>3. fini' # "no" /\ NoThreadLeft'
    BY <1>2 DEF fini_cb, NoThreadLeft, appVars
  <2> QED
    BY <1>2, <2>3 DEF fini_cb, EndInv, stateVars
<1>3. CASE finish \/ Reinstrumenter
  BY <1>3 DEF finish, Reinstrumenter, ReinstrStep, reinstr_start, remove_begin,
     remove_end, reinstr_clear, reinstr_exit, EndInv, NoThreadLeft, stateVars,
     queueVars, appVars, idaVars
<1>4. CASE Listener
  BY <1>4, EndOfResume, EndOfPacket DEF Listener
<1> QED
  BY <1>1, <1>2, <1>3, <1>4, EndOfAppStep DEF Next, Application

LEMMA RtnStep ==
  ASSUME TypeInv, RtnInv, [Next]_vars
  PROVE  RtnInv'
<1> USE DEF TypeInv, TypeOK
<1>1. CASE UNCHANGED vars
  BY <1>1 DEF vars, appVars, RtnInv
<1>2. ASSUME NEW t \in Threads, AppThread(t) PROVE RtnInv'
  <2>1. pc'[t] \in {"lock", "emit"} =>
          /\ ev'[t] \in {"BREAKPOINT", "STEP", "PROCESS_ATTACH"}
               => rtn'[t] \in {"do_ctrl", "do_bpt"}
          /\ ev'[t] = "EXCEPTION" => rtn'[t] = "context_change_cb"
    BY <1>2 DEF AppThread, InsideTool, thread_start_cb, thread_fini_cb,
       context_change_cb, image_load_cb, do_ctrl, do_bpt, Call, EnterIdle,
       Enter, EventUnderLock, Emit, Leave, wait_after_callback, thread_wait,
       serve_sync, sema_wait, add_rtns, appVars, RtnInv
  <2> QED
    BY <1>2, <2>1, ThreadIsAlone DEF RtnInv
<1>3. CASE Listener
  BY <1>3, ListenerMovesMain DEF RtnInv
<1>4. CASE fini_cb \/ finish \/ Reinstrumenter
  BY <1>4 DEF fini_cb, finish, Reinstrumenter, ReinstrStep, reinstr_start,
     remove_begin, remove_end, reinstr_clear, reinstr_exit, appVars, RtnInv
<1> QED
  BY <1>1, <1>2, <1>3, <1>4 DEF Next, Application

LEMMA NoFlushStep ==
  ASSUME TypeInv, NoFlush, [Next]_vars
  PROVE  NoFlush'
<1> USE DEF NoFlush
<1>1. ASSUME NEW t \in Threads, AppThread(t) PROVE NoFlush'
  BY <1>1, AppEffect DEF image_load_cb, serve_sync, Emit, do_suspend_nolock,
     stateVars
<1>2. CASE Listener
  BY <1>2 DEF Listener, do_resume, StateAfterResume, OtherPackets,
     pop_debug_event, resume_refused, prepare_pause_queued, prepare_pause_begin,
     prepare_pause_locked, prepare_pause_ignored, prepare_pause_suspend,
     prepare_pause_request, PauseUnderLock, do_suspend_nolock, set_step,
     SuspensionPackets,
     thread_suspend, thread_resume, add_soft_bpt, del_soft_bpt,
     update_instrumentation, exit_process, detach_process, set_run_app_sem,
     listener_detached, listener_exiting, stateVars
<1>3. CASE UNCHANGED vars \/ fini_cb \/ finish \/ Reinstrumenter
  BY <1>3 DEF vars, fini_cb, finish, Reinstrumenter, ReinstrStep, reinstr_start,
     remove_begin, remove_end, reinstr_clear, reinstr_exit, stateVars
<1> QED
  BY <1>1, <1>2, <1>3 DEF Next, Application

\* Once the session is ending it stays so.
LEMMA EndingIsStable ==
  ASSUME TypeInv, EndInv, EndInv', Ending, [Next]_vars, lpc # "exited"
  PROVE  Ending'
<1>1. CASE UNCHANGED vars
  BY <1>1 DEF vars, stateVars, idaVars, Ending
<1>2. ASSUME NEW t \in Threads, AppThread(t) PROVE Ending'
  <2>1. fini = "no" /\ UNCHANGED <<lpc, ida>>
    BY <1>2, AppBeforeFini
  <2>2. process_state = "EXITING" => lpc \in {"exit_set", "exited"}
    BY <2>1 DEF EndInv
  <2> QED
    BY <2>1, <2>2 DEF Ending
<1>3. CASE fini_cb \/ finish \/ Reinstrumenter
  BY <1>3 DEF fini_cb, finish, Reinstrumenter, ReinstrStep, reinstr_start,
     remove_begin, remove_end, reinstr_clear, reinstr_exit, stateVars, idaVars,
     Ending
<1>4. CASE do_resume
  BY <1>4 DEF do_resume, Handling, ListenerIdle, StateAfterResume, ResumeNow,
     process_suspended, Ending
<1>5. CASE OtherPackets
  BY <1>5 DEF OtherPackets, pop_debug_event, resume_refused,
     prepare_pause_queued, prepare_pause_begin, prepare_pause_locked,
     prepare_pause_ignored, prepare_pause_suspend, prepare_pause_request,
     PauseUnderLock, MayPause, Editing, Handling, ListenerIdle, set_step,
     SuspensionPackets,
     thread_suspend, thread_resume, add_soft_bpt, del_soft_bpt,
     update_instrumentation, exit_process, detach_process, set_run_app_sem,
     listener_detached, listener_exiting, Ending, stateVars, idaVars, EndInv
<1> QED
  BY <1>1, <1>2, <1>3, <1>4, <1>5 DEF Next, Application, Listener

Waiting(t) == pc[t] \in {"app_wait", "sem_wait", "thr_wait"}

BufferInv ==
  /\ SemaphoreMatchesState
  /\ UnansweredMeansSuspended
  /\ NoSilentStop
  /\ ReporterWaits

Reports == {"BREAKPOINT", "STEP", "EXCEPTION", "PROCESS_ATTACH"}

\* A report is the report of a thread.
LEMMA ReportHasThread ==
  ASSUME TypeOK, NEW e \in Unanswered, e.eid \in Reports
  PROVE  e.tid \in Threads
<1>1. Range(events) \subseteq Events
  BY QueueRange DEF TypeOK
<1> QED
  BY <1>1 DEF Unanswered, Reports, Events, TypeOK

\* Steps that add no report, leave state and semaphore alone, give IDA nothing
\* and let no waiting thread go.
LEMMA QuietStep ==
  ASSUME TypeOK, BufferInv, ~Ending,
         UNCHANGED <<process_state, run_app_sem, last_ev>>,
         (ida' = "handling") = (ida = "handling"),
         events' = <<>> => events = <<>>,
         Unanswered' \subseteq Unanswered,
         \A t \in Threads : Waiting(t) => Waiting(t)'
  PROVE  BufferInv'
<1>1. SemaphoreMatchesState' /\ NoSilentStop'
  BY DEF BufferInv, SemaphoreMatchesState, NoSilentStop
<1>2. UnansweredMeansSuspended'
  BY DEF BufferInv, UnansweredMeansSuspended
<1>3. ASSUME NEW e \in Unanswered', e.eid \in Reports
      PROVE  Waiting(e.tid)'
  <2>1. e \in Unanswered /\ Waiting(e.tid)
    BY <1>3 DEF BufferInv, ReporterWaits, Waiting, Reports
  <2> QED
    BY <2>1, <1>3, ReportHasThread
<1>4. ReporterWaits'
  BY <1>3 DEF ReporterWaits, Waiting, Reports
<1> QED
  BY <1>1, <1>2, <1>4 DEF BufferInv

\* Only the answer lets a waiting thread return to the application.
LEMMA WaitersStay ==
  ASSUME TypeOK, NEW t \in Threads, AppThread(t), ~sema_wait(t)
  PROVE  \A u \in Threads : Waiting(u) => Waiting(u)'
<1>1. Waiting(t) => Waiting(t)'
  BY DEF AppThread, InsideTool, thread_start_cb, thread_fini_cb,
     context_change_cb, image_load_cb, do_ctrl, do_bpt, Call, EnterIdle, Enter,
     Emit, wait_after_callback, thread_wait, serve_sync, add_rtns, appVars,
     Waiting, TypeOK
<1> QED
  BY <1>1, ThreadIsAlone DEF Waiting

LEMMA BufferOfApp ==
  ASSUME SafetyInv, BufferInv, ~Ending, NEW t \in Threads, AppThread(t)
  PROVE  BufferInv'
<1> USE DEF SafetyInv, TypeInv
<1>1. UNCHANGED <<fini, lpc, ida, last_ev>>
  BY AppBeforeFini
<1>2. CASE sema_wait(t)
  <2>1. run_app_sem /\ UNCHANGED <<process_state, run_app_sem, events>>
    BY <1>2 DEF sema_wait, stateVars, queueVars
  <2>2. process_state # "SUSPENDED"
    BY <2>1 DEF SemaphoreMatchesState
  <2>3. Unanswered' = {}
    BY <1>1, <2>1, <2>2 DEF UnansweredMeansSuspended, Unanswered
  <2> QED
    BY <1>1, <2>1, <2>2, <2>3 DEF BufferInv, SemaphoreMatchesState, Ending,
       UnansweredMeansSuspended, NoSilentStop, ReporterWaits
<1>3. CASE ~sema_wait(t) /\ UNCHANGED <<process_state, run_app_sem, events>>
  <2>1. Unanswered' = Unanswered
    BY <1>1, <1>3 DEF Unanswered
  <2> QED
    BY <1>1, <1>3, <2>1, WaitersStay, QuietStep
<1>4. CASE serve_sync(t)
  <2>1. ~process_over
    BY DEF process_over, Ending, EndInv
  <2>2. UNCHANGED <<process_state, run_app_sem, events>>
    BY <1>4, <2>1 DEF serve_sync, serve_sync_fails, queueVars, TypeOK
  <2>3. ~sema_wait(t)
    BY <1>4 DEF serve_sync, sema_wait
  <2> QED
    BY <1>3, <2>2, <2>3
<1>5. CASE image_load_cb(t)
  <2>1. Event("LIBRARY_LOAD", t) \in Events
    BY EventType DEF EventIds
  <2>2. /\ events' # <<>>
        /\ Range(events') = Range(events) \cup {Event("LIBRARY_LOAD", t)}
    BY <1>5, <2>1, QueueAppend DEF image_load_cb, TypeOK
  <2>3. Unanswered' \subseteq Unanswered
    BY <1>1, <2>2 DEF Unanswered, Event, StopEvents
  <2>4. UNCHANGED <<process_state, run_app_sem>> /\ ~sema_wait(t)
    BY <1>5 DEF image_load_cb, sema_wait, stateVars
  <2> QED
    BY <1>1, <2>2, <2>3, <2>4, WaitersStay, QuietStep
<1>6. CASE Emit(t)
  <2>1. Event(ev[t], t) \in Events
    BY <1>6, EventType DEF Emit, EmitInv, EventIds, TypeOK
  <2>2. /\ events' # <<>>
        /\ Range(events') = Range(events) \cup {Event(ev[t], t)}
    BY <1>6, <2>1, QueueAppend DEF Emit, TypeOK
  <2>3. process_state' = "SUSPENDED" /\ ~run_app_sem'
    BY <1>6 DEF Emit, do_suspend_nolock, process_suspended, NoFlush,
       SemaphoreMatchesState
  <2>4. ~sema_wait(t)
    BY <1>6 DEF Emit, sema_wait
  <2>5. ASSUME NEW e \in Unanswered', e.eid \in Reports
        PROVE  Waiting(e.tid)'
    <3>1. CASE e \in Unanswered
      <4>1. Waiting(e.tid) /\ e.tid \in Threads
        BY <2>5, <3>1, ReportHasThread DEF ReporterWaits, Waiting, Reports
      <4> QED
        BY <2>4, <4>1, WaitersStay
    <3>2. CASE e = Event(ev[t], t)
      <4>1. e.tid = t /\ ev[t] \in Reports
        BY <2>5, <3>2 DEF Event
      <4>2. rtn[t] \in {"do_ctrl", "do_bpt", "context_change_cb"}
        BY <1>6, <4>1 DEF Emit, RtnInv, Reports
      <4>3. pc'[t] \in {"thr_wait", "app_wait"}
        BY <1>6, <4>2 DEF Emit, Leave, TypeOK
      <4> QED
        BY <4>1, <4>3 DEF Waiting
    <3> QED
      BY <1>1, <2>2, <2>5, <3>1, <3>2 DEF Unanswered
  <2> QED
    BY <2>2, <2>3, <2>5 DEF BufferInv, SemaphoreMatchesState, Waiting, Reports,
       UnansweredMeansSuspended, NoSilentStop, ReporterWaits
<1> QED
  BY <1>2, <1>3, <1>4, <1>5, <1>6, AppEffect

LEMMA BufferOfResume ==
  ASSUME SafetyInv, BufferInv, ~Ending, ~Ending', do_resume
  PROVE  BufferInv'
<1> USE DEF SafetyInv, TypeInv
<1>1. /\ UNCHANGED <<events, last_ev>>
      /\ ida = "handling" /\ ida' = "wait"
  BY DEF do_resume, queueVars, Handling
<1>2. process_state' # "EXITING"
  BY DEF Ending
<1>3. \A t \in Threads : Waiting(t) => Waiting(t)'
  BY DEF do_resume, Waiting, TypeOK
<1>4. CASE ResumeNow
  <2>1. events = <<>> /\ process_state' = "RUNNING"
    BY <1>2, <1>4 DEF do_resume, ResumeNow, StateAfterResume
  <2>2. run_app_sem'
    BY <1>4 DEF do_resume, ActualResume, NoFlush
  <2>3. Unanswered' = {}
    BY <1>1, <2>1, QueueRange DEF Unanswered, TypeOK
  <2> QED
    BY <2>1, <2>2, <2>3 DEF BufferInv, SemaphoreMatchesState, NoSilentStop,
       UnansweredMeansSuspended, ReporterWaits
<1>5. CASE ~ResumeNow
  <2>1. UNCHANGED <<process_state, run_app_sem>>
    BY <1>2, <1>5 DEF do_resume, NoResume, StateAfterResume
  <2>2. Unanswered' \subseteq Unanswered
    BY <1>1 DEF Unanswered
  <2>3. SemaphoreMatchesState' /\ UnansweredMeansSuspended'
    BY <2>1, <2>2 DEF BufferInv, SemaphoreMatchesState,
       UnansweredMeansSuspended
  <2>4. NoSilentStop'
    BY <1>1, <1>5, <2>1 DEF ResumeNow, process_suspended, NoSilentStop
  <2>5. ASSUME NEW e \in Unanswered', e.eid \in Reports
        PROVE  Waiting(e.tid)'
    <3>1. e \in Unanswered /\ Waiting(e.tid)
      BY <2>2, <2>5 DEF BufferInv, ReporterWaits, Waiting, Reports
    <3> QED
      BY <1>3, <2>5, <3>1, ReportHasThread
  <2>6. ReporterWaits'
    BY <2>5 DEF ReporterWaits, Waiting, Reports
  <2> QED
    BY <2>3, <2>4, <2>6 DEF BufferInv
<1> QED
  BY <1>4, <1>5

LEMMA BufferOfPacket ==
  ASSUME SafetyInv, BufferInv, ~Ending, ~Ending', OtherPackets
  PROVE  BufferInv'
<1> USE DEF SafetyInv, TypeInv
<1>1. \A t \in Threads : Waiting(t) => Waiting(t)'
  BY ListenerMovesMain DEF Listener, Waiting, TypeOK
<1>2. CASE pop_debug_event
  <2>1. /\ Range(events) = Range(events') \cup {last_ev'}
        /\ events # <<>> /\ ida' = "handling"
        /\ UNCHANGED <<process_state, run_app_sem>>
    BY <1>2, QueueTake DEF pop_debug_event, stateVars, TypeOK
  <2>2. Unanswered' \subseteq Unanswered
    BY <2>1 DEF Unanswered
  <2>3. SemaphoreMatchesState' /\ UnansweredMeansSuspended'
    BY <2>1, <2>2 DEF BufferInv, SemaphoreMatchesState,
       UnansweredMeansSuspended
  <2>4. ASSUME NEW e \in Unanswered', e.eid \in Reports
        PROVE  Waiting(e.tid)'
    <3>1. e \in Unanswered /\ Waiting(e.tid)
      BY <2>2, <2>4 DEF BufferInv, ReporterWaits, Waiting, Reports
    <3> QED
      BY <1>1, <2>4, <3>1, ReportHasThread
  <2> QED
    BY <2>1, <2>3, <2>4 DEF BufferInv, NoSilentStop, ReporterWaits, Waiting,
       Reports
<1>3. CASE prepare_pause_queued
  <2> DEFINE e == Event("PROCESS_SUSPEND", events[Len(events)].tid)
  <2>1. e \in Events
    BY <1>3, PauseEvent
  <2>2. events' # <<>> /\ Range(events') = Range(events) \cup {e}
    BY <1>3, <2>1, QueueAppend DEF prepare_pause_queued, TypeOK
  <2>3. /\ UNCHANGED <<process_state, run_app_sem, last_ev>>
        /\ ida = "wait" /\ ida' = "pausing"
    BY <1>3 DEF prepare_pause_queued, MayPause, stateVars
  <2>4. Unanswered' \subseteq Unanswered
    BY <2>2, <2>3 DEF Unanswered, Event, StopEvents
  <2> QED
    BY <1>1, <2>2, <2>3, <2>4, QuietStep
<1>4. CASE prepare_pause_suspend
  <2>1. Event("PROCESS_SUSPEND", NoThread) \in Events
    BY EventType DEF EventIds
  <2>2. /\ events' # <<>>
        /\ Range(events') = Range(events) \cup {Event("PROCESS_SUSPEND", NoThread)}
    BY <1>4, <2>1, QueueAppend DEF prepare_pause_suspend, TypeOK
  <2>3. /\ process_state = "RUNNING" /\ process_state' = "SUSPENDED"
        /\ ~run_app_sem' /\ UNCHANGED <<ida, last_ev>>
    BY <1>4 DEF prepare_pause_suspend, PauseUnderLock, do_suspend_nolock,
       process_suspended
  <2>4. Unanswered' = {}
    BY <2>2, <2>3 DEF Unanswered, Event, StopEvents, UnansweredMeansSuspended
  <2> QED
    BY <2>2, <2>3, <2>4 DEF BufferInv, SemaphoreMatchesState, NoSilentStop,
       UnansweredMeansSuspended, ReporterWaits
<1>5. CASE prepare_pause_request
  <2>1. /\ process_state = "RUNNING" /\ process_state' = "PAUSE"
        /\ UNCHANGED <<run_app_sem, events, ida, last_ev>>
    BY <1>5 DEF prepare_pause_request, PauseUnderLock
  <2>2. Unanswered' = {}
    BY <2>1 DEF Unanswered, UnansweredMeansSuspended
  <2> QED
    BY <2>1, <2>2 DEF BufferInv, SemaphoreMatchesState, NoSilentStop,
       UnansweredMeansSuspended, ReporterWaits
<1>6. CASE exit_process \/ detach_process \/ set_run_app_sem
  BY <1>6 DEF exit_process, detach_process, set_run_app_sem, Ending
<1>7. CASE ~(\/ pop_debug_event \/ prepare_pause_queued
             \/ prepare_pause_suspend \/ prepare_pause_request
             \/ exit_process \/ detach_process \/ set_run_app_sem)
  <2>1. /\ UNCHANGED <<process_state, run_app_sem, events, last_ev>>
        /\ (ida' = "handling") = (ida = "handling")
    BY <1>7 DEF OtherPackets, resume_refused, prepare_pause_begin, MayPause,
       prepare_pause_locked, prepare_pause_ignored, PauseUnderLock, set_step,
       SuspensionPackets,
       thread_suspend, thread_resume, add_soft_bpt, del_soft_bpt,
       update_instrumentation, listener_detached, listener_exiting, stateVars,
       queueVars, idaVars
  <2>2. Unanswered' = Unanswered
    BY <2>1 DEF Unanswered
  <2> QED
    BY <1>1, <2>1, <2>2, QuietStep
<1> QED
  BY <1>2, <1>3, <1>4, <1>5, <1>6, <1>7

LEMMA BufferStep ==
  ASSUME SafetyInv, EndInv', [Next]_vars
  PROVE  BufferInv'
<1> USE DEF SafetyInv, TypeInv
<1>1. CASE Ending'
  BY <1>1 DEF BufferInv, SemaphoreMatchesState, UnansweredMeansSuspended,
     NoSilentStop, ReporterWaits
<1>2. CASE UNCHANGED vars
  BY <1>2 DEF vars, stateVars, queueVars, appVars, idaVars, BufferInv, Ending,
     SemaphoreMatchesState, UnansweredMeansSuspended, NoSilentStop,
     ReporterWaits, Unanswered
<1>3. CASE ~Ending' /\ Next /\ ~UNCHANGED vars
  <2>1. /\ Application \/ Listener \/ Reinstrumenter
        /\ lpc # "exited"
    BY <1>3 DEF Next
  <2>2. ~Ending
    BY <1>3, <2>1, EndingIsStable
  <2>3. BufferInv
    BY DEF BufferInv
  <2>4. CASE fini_cb
    <3>1. Event("PROCESS_EXIT", MainThread) \in Events
      BY EventType DEF EventIds
    <3>2. /\ events' # <<>>
          /\ Range(events') = Range(events) \cup {Event("PROCESS_EXIT", MainThread)}
      BY <2>4, <3>1, QueueAppend DEF fini_cb, TypeOK
    <3>3. UNCHANGED <<process_state, run_app_sem, last_ev, ida, pc>>
      BY <2>4 DEF fini_cb, stateVars, appVars
    <3>4. Unanswered' \subseteq Unanswered
      BY <3>2, <3>3 DEF Unanswered, Event, StopEvents
    <3> QED
      BY <2>2, <2>3, <3>2, <3>3, <3>4, QuietStep DEF Waiting
  <2>5. CASE finish \/ Reinstrumenter
    <3>1. UNCHANGED <<process_state, run_app_sem, events, last_ev, ida, pc>>
      BY <2>5 DEF finish, Reinstrumenter, ReinstrStep, reinstr_start,
         remove_begin, remove_end, reinstr_clear, reinstr_exit, stateVars,
         queueVars, appVars, idaVars
    <3>2. Unanswered' = Unanswered
      BY <3>1 DEF Unanswered
    <3> QED
      BY <2>2, <2>3, <3>1, <3>2, QuietStep DEF Waiting
  <2> QED
    BY <1>3, <2>1, <2>2, <2>3, <2>4, <2>5, BufferOfApp, BufferOfResume,
       BufferOfPacket DEF Application, Listener
<1> QED
  BY <1>1, <1>2, <1>3

LEMMA SafetyInit == Init => SafetyInv
<1> SUFFICES ASSUME Init PROVE SafetyInv
  OBVIOUS
<1>1. TypeInv
  BY TypeInit
<1>2. EndInv
  <2>1. Range(events) \cup {last_ev} = {Event("PROCESS_START", MainThread)}
    BY DEF Init, Range
  <2> QED
    BY <2>1 DEF Init, EndInv, Event
<1>3. RtnInv /\ NoFlush
  BY DEF Init, RtnInv, NoFlush
<1>4. events # <<>> /\ ~Ending
  BY DEF Init, Ending
<1>5. SemaphoreMatchesState /\ UnansweredMeansSuspended /\ NoSilentStop
  BY <1>4 DEF Init, SemaphoreMatchesState, UnansweredMeansSuspended,
     NoSilentStop
<1>6. ReporterWaits
  <2>1. \A e \in Unanswered : e.eid = "PROCESS_START"
    BY DEF Init, Unanswered, Range, Event
  <2> QED
    BY <2>1 DEF ReporterWaits
<1> QED
  BY <1>1, <1>2, <1>3, <1>5, <1>6 DEF SafetyInv

LEMMA SafetyStep ==
  ASSUME SafetyInv, [Next]_vars
  PROVE  SafetyInv'
<1>1. TypeInv'
  BY TypeStep, CountStep, EmitStep DEF SafetyInv, TypeInv
<1>2. EndInv'
  BY EndStep DEF SafetyInv
<1>3. RtnInv' /\ NoFlush'
  BY RtnStep, NoFlushStep DEF SafetyInv
<1>4. BufferInv'
  BY <1>2, BufferStep
<1> QED
  BY <1>1, <1>2, <1>3, <1>4 DEF SafetyInv, BufferInv

LEMMA SafetyHolds == Spec => []SafetyInv
BY SafetyInit, SafetyStep, PTL DEF Spec

\* The state the tool believes in and the semaphore that the application's
\* threads block on never disagree while the session lasts.
THEOREM SemaphoreAlwaysMatches == Spec => []SemaphoreMatchesState
<1>1. SafetyInv => SemaphoreMatchesState
  BY DEF SafetyInv
<1> QED
  BY <1>1, SafetyHolds, PTL

\* Buffered resume (the comment above do_resume): while a report of a stopped
\* thread has no answer the process stays suspended.
THEOREM BufferedResume == Spec => []UnansweredMeansSuspended
<1>1. SafetyInv => UnansweredMeansSuspended
  BY DEF SafetyInv
<1> QED
  BY <1>1, SafetyHolds, PTL

\* A suspended process always has an event that makes IDA send RESUME.
THEOREM NeverSilent == Spec => []NoSilentStop
<1>1. SafetyInv => NoSilentStop
  BY DEF SafetyInv
<1> QED
  BY <1>1, SafetyHolds, PTL

\* A thread that reported a breakpoint, a step or an exception does not return
\* to the application before IDA has answered.
THEOREM ReportersWait == Spec => []ReporterWaits
<1>1. SafetyInv => ReporterWaits
  BY DEF SafetyInv
<1> QED
  BY <1>1, SafetyHolds, PTL

-----------------------------------------------------------------------------
(* Action properties                                                       *)

\* What a step does to a pause request
LEMMA PauseStep ==
  ASSUME TypeInv, [Next]_vars, process_state = "PAUSE"
  PROVE  process_state' \in {"PAUSE", "SUSPENDED", "EXITING", "DETACHED"}
<1>1. CASE UNCHANGED vars
  BY <1>1 DEF vars, stateVars
<1>2. ASSUME NEW t \in Threads, AppThread(t)
      PROVE  process_state' \in {"PAUSE", "SUSPENDED"}
  BY <1>2, AppEffect DEF image_load_cb, serve_sync, Emit,
     do_suspend_nolock, stateVars
<1>3. CASE fini_cb \/ finish \/ Reinstrumenter
  BY <1>3 DEF fini_cb, finish, Reinstrumenter, ReinstrStep,
     reinstr_start, remove_begin, remove_end, reinstr_clear, reinstr_exit,
     stateVars
<1>4. CASE do_resume
  BY <1>4 DEF do_resume, StateAfterResume, ResumeNow,
     process_suspended
<1>5. CASE OtherPackets
  BY <1>5 DEF OtherPackets, pop_debug_event, resume_refused,
     prepare_pause_queued, prepare_pause_begin, prepare_pause_locked,
     prepare_pause_ignored, prepare_pause_suspend, prepare_pause_request,
     set_step, SuspensionPackets,
     thread_suspend, thread_resume, add_soft_bpt, del_soft_bpt,
     update_instrumentation, exit_process, detach_process, set_run_app_sem,
     listener_detached, listener_exiting, stateVars
<1> QED
  BY <1>1, <1>2, <1>3, <1>4, <1>5 DEF Next, Application, Listener

\* ... and to the end of the process
LEMMA OverStep ==
  ASSUME TypeInv, [Next]_vars,
         process_over, process_state_lock = NoThread
  PROVE  process_over' /\ process_state_lock' = NoThread
<1> USE DEF process_over
<1>1. ASSUME NEW t \in Threads, AppThread(t)
      PROVE  UNCHANGED <<process_state, process_state_lock>>
  <2>1. t # NoThread
    BY ConstantsAssumption
  <2>2. ~Emit(t)
    BY <2>1 DEF Emit, TypeInv, EmitInv
  <2>3. ~Enter(t)
    BY DEF Enter, Emits
  <2> QED
    BY <1>1, <2>2, <2>3 DEF AppThread, InsideTool, thread_start_cb,
       thread_fini_cb, context_change_cb, image_load_cb, do_ctrl, do_bpt,
       EnterIdle, wait_after_callback, thread_wait, serve_sync, sema_wait,
       add_rtns, stateVars
<1>2. CASE do_resume
  BY <1>2 DEF do_resume, StateAfterResume, ResumeNow, process_suspended
<1>3. CASE OtherPackets
  <2>1. ~prepare_pause_suspend /\ ~prepare_pause_request
    BY DEF prepare_pause_suspend, prepare_pause_request
  <2> QED
    BY <1>3, <2>1 DEF OtherPackets, pop_debug_event, resume_refused,
       prepare_pause_queued, prepare_pause_begin, prepare_pause_locked,
       prepare_pause_ignored, PauseUnderLock, set_step, SuspensionPackets,
       thread_suspend,
       thread_resume, add_soft_bpt, del_soft_bpt, update_instrumentation,
       exit_process, detach_process, set_run_app_sem, listener_detached,
       listener_exiting, stateVars
<1>4. UNCHANGED vars \/ fini_cb \/ finish \/ Reinstrumenter
      => process_over' /\ process_state_lock' = NoThread
  BY DEF vars, fini_cb, finish, Reinstrumenter, ReinstrStep, reinstr_start,
     remove_begin, remove_end, reinstr_clear, reinstr_exit, stateVars
<1> QED
  BY <1>1, <1>2, <1>3, <1>4 DEF Next, Application, Listener

\* Types, by themselves, are kept by every step.
LEMMA TypeInvStep == TypeInv /\ [Next]_vars => TypeInv'
BY TypeStep, CountStep, EmitStep DEF TypeInv

\* A pause request is never cancelled by the answer to another event: it ends
\* in a stop, or with the session.
THEOREM PauseKept == Spec => PauseIsKept
BY PauseStep, TypeInvStep, TypeInit, PTL DEF Spec, PauseIsKept

\* Once the process is exiting or detached and no thread is about to suspend
\* it, it stays so, and no thread reports a stop.
THEOREM FinalWhenOver == Spec => OverIsFinal
BY OverStep, TypeInvStep, TypeInit, PTL DEF Spec, OverIsFinal
=============================================================================
