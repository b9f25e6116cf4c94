---------------------------- MODULE PinWatchProofs ----------------------------
(***************************************************************************)
(* ctrl_rtn stays switched on while something depends on it: a breakpoint  *)
(* that no code checks, a single step, a thread that IDA has suspended.    *)
(* Proved for every session, the edits that IDA makes while the process    *)
(* runs excepted (see PinSuspend).                                         *)
(***************************************************************************)
EXTENDS PinSuspendProofs

USE ConstantsAssumption

-----------------------------------------------------------------------------
(* What a step does to ctrl_rtn                                            *)

\* The flag may be lowered only if nothing depends on it afterwards.
Lowered ==
  /\ stepping_thread' = NoThread
  /\ suspeded_cnt' = 0
  /\ pending_bpts' = {}

\* The process is not resumed, and nothing more depends on the flag.
Kept ==
  /\ Going' => Going
  /\ stepping_thread' \in {stepping_thread, NoThread}
  /\ suspeded_cnt' # 0 => suspeded_cnt # 0
  /\ pending_bpts' \subseteq pending_bpts

\* Flag, state and what depends on the flag stay as they are.
Untouched ==
  UNCHANGED <<process_state, control_enabled, stepping_thread, suspeded_cnt,
              pending_bpts>>

\* The flag is raised, or it is computed anew or left alone.
Watched ==
  \/ ~Going'
  \/ control_enabled'
  \/ Lowered
  \/ Kept /\ control_enabled' = control_enabled

LEMMA ComputedIsWatched ==
  ASSUME control_enabled' = need_control_cb(pending_bpts', break_at_next_inst),
         UNCHANGED <<stepping_thread, suspeded_cnt>>
  PROVE  control_enabled' \/ Lowered
BY DEF need_control_cb, have_suspended_threads, Lowered

LEMMA UntouchedIsWatched ==
  ASSUME Untouched, ~Ending, TypeOK
  PROVE  Watched
BY DEF Untouched, Watched, Kept, Going, TypeOK

LEMMA WatchedByApp ==
  ASSUME SafetyInv, ~Ending, NEW t \in Threads, AppThread(t)
  PROVE  Watched
<1> USE DEF SafetyInv, TypeInv
<1>1. CASE Emit(t)
  <2>1. process_state' = "SUSPENDED"
    BY <1>1 DEF Emit, do_suspend_nolock, process_suspended, NoFlush
  <2> QED
    BY <2>1 DEF Watched, Going
<1>2. CASE wait_after_callback(t)
  <2>1. ~process_over
    BY DEF process_over, EndInv, Ending
  <2> QED
    BY <1>2, <2>1 DEF wait_after_callback, Watched
<1>3. ASSUME NEW a \in Addrs, add_rtns(t, a)
      PROVE  Watched
  <2>1. /\ UNCHANGED <<process_state, stepping_thread, suspeded_cnt,
                      break_at_next_inst>>
        /\ pending_bpts' \subseteq pending_bpts
    BY <1>3 DEF add_rtns, stateVars, thrVars
  <2>2. \/ control_enabled' = control_enabled
        \/ control_enabled' = need_control_cb(pending_bpts', break_at_next_inst)
    BY <1>3 DEF add_rtns
  <2>3. control_enabled' = control_enabled => Watched
    BY <2>1 DEF Watched, Kept, Going, TypeOK
  <2> QED
    BY <2>1, <2>2, <2>3, ComputedIsWatched DEF Watched
<1>4. CASE ~Emit(t) /\ ~wait_after_callback(t) /\ \A a \in Addrs : ~add_rtns(t, a)
  <2>1. Untouched
    BY <1>4 DEF AppThread, InsideTool, thread_start_cb, thread_fini_cb,
       context_change_cb, image_load_cb, do_ctrl, do_bpt, EnterIdle, Enter,
       thread_wait, serve_sync, sema_wait, stateVars, bptVars, thrVars, Untouched
  <2> QED
    BY <2>1, UntouchedIsWatched
<1> QED
  BY <1>1, <1>2, <1>3, <1>4

\* The edits that are excepted
Edited ==
  Going /\ \/ \E t \in Threads : set_step(t) \/ thread_suspend(t)
           \/ \E a \in Addrs : add_soft_bpt(a)

LEMMA WatchedByListener ==
  ASSUME SafetyInv, ~Ending, ~Ending', Listener, ~Edited
  PROVE  Watched
<1> USE DEF SafetyInv, TypeInv
<1>1. CASE do_resume
  <2>1. UNCHANGED <<stepping_thread, pending_bpts, suspeded_cnt>>
    BY <1>1 DEF do_resume, release_thread_data, thrVars
  <2>2. CASE ResumeNow
    <3>1. control_enabled' = need_control_cb(pending_bpts', break_at_next_inst)
      BY <1>1, <2>1, <2>2 DEF do_resume, ActualResume
    <3> QED
      BY <2>1, <3>1, ComputedIsWatched DEF Watched
  <2>3. CASE ~ResumeNow
    <3>1. Untouched
      BY <1>1, <2>1, <2>3 DEF do_resume, NoResume, StateAfterResume, Ending, Untouched
    <3> QED
      BY <3>1, UntouchedIsWatched
  <2> QED
    BY <2>2, <2>3
<1>2. ASSUME \/ \E t \in Threads : set_step(t) \/ thread_suspend(t)
             \/ \E a \in Addrs : add_soft_bpt(a)
      PROVE  Watched
  <2>1. ~Going /\ UNCHANGED process_state
    BY <1>2 DEF Edited, set_step, thread_suspend, add_soft_bpt, stateVars
  <2> QED
    BY <2>1 DEF Watched, Going
<1>3. ASSUME NEW t \in Threads, susp[t], thread_resume(t)
      PROVE  Watched
  <2>1. UNCHANGED <<process_state, control_enabled, stepping_thread, pending_bpts>>
    BY <1>3 DEF thread_resume, stateVars, bptVars
  <2>2. suspeded_cnt # 0
    <3>1. IsFiniteSet(SuspendedSet) /\ t \in SuspendedSet
      BY <1>3, FS_Subset DEF SuspendedSet
    <3> QED
      BY <3>1, FS_EmptySet DEF CountInv
  <2> QED
    BY <2>1, <2>2 DEF Watched, Kept, Going, TypeOK
<1>4. ASSUME NEW a \in Addrs, del_soft_bpt(a)
      PROVE  Watched
  <2>1. /\ UNCHANGED <<process_state, control_enabled, stepping_thread, suspeded_cnt>>
        /\ pending_bpts' \subseteq pending_bpts
    BY <1>4 DEF del_soft_bpt, stateVars, thrVars
  <2> QED
    BY <2>1 DEF Watched, Kept, Going, TypeOK
<1>5. CASE prepare_pause_suspend \/ prepare_pause_request
  BY <1>5 DEF prepare_pause_suspend, do_suspend_nolock, process_suspended,
     prepare_pause_request, Watched
<1>6. CASE exit_process \/ detach_process
  BY <1>6 DEF exit_process, detach_process, Ending
<1>7. CASE \/ pop_debug_event \/ resume_refused \/ prepare_pause_queued
           \/ prepare_pause_begin \/ prepare_pause_ignored
           \/ update_instrumentation \/ set_run_app_sem
           \/ listener_detached \/ listener_exiting
  <2>1. Untouched
    BY <1>7 DEF pop_debug_event, resume_refused, prepare_pause_queued,
       prepare_pause_begin, prepare_pause_ignored, PauseUnderLock,
       update_instrumentation, set_run_app_sem, listener_detached,
       listener_exiting, stateVars, bptVars, thrVars, Untouched
  <2> QED
    BY <2>1, UntouchedIsWatched
<1> QED
  BY <1>1, <1>2, <1>3, <1>4, <1>5, <1>6, <1>7
  DEF Listener, OtherPackets, SuspensionPackets, prepare_pause_locked

LEMMA WatchedStep ==
  ASSUME SafetyInv, SafetyInv', [Next]_vars, ~Edited
  PROVE  Watched
<1> USE DEF SafetyInv, TypeInv
<1>1. CASE UNCHANGED vars
  BY <1>1 DEF vars, stateVars, bptVars, thrVars, idaVars, Ending, Going, Watched,
     Kept, TypeOK
<1>2. CASE Ending'
  BY <1>2 DEF Watched, Going
<1>3. CASE ~Ending' /\ Next /\ ~UNCHANGED vars
  <2>1. /\ Application \/ Listener \/ Reinstrumenter
        /\ lpc # "exited"
    BY <1>3 DEF Next
  <2>2. ~Ending
    BY <1>3, <2>1, EndingIsStable
  <2>3. CASE fini_cb \/ finish \/ Reinstrumenter
    <3>1. Untouched
      BY <2>3 DEF fini_cb, finish, Reinstrumenter, ReinstrStep, reinstr_start,
         remove_begin, remove_end, reinstr_clear, reinstr_exit, stateVars,
         bptVars, thrVars, Untouched
    <3> QED
      BY <2>2, <3>1, UntouchedIsWatched
  <2> QED
    BY <1>3, <2>1, <2>2, <2>3, WatchedByApp, WatchedByListener DEF Application
<1> QED
  BY <1>1, <1>2, <1>3

\* Each edit adds to what depends on the flag, and to nothing else.
LEMMA EditEffect ==
  ASSUME TypeInv, Edited
  PROVE  /\ UNCHANGED <<process_state, control_enabled>>
         /\ Ending' => ~Going'
         /\ \/ stepping_thread' \in Threads /\ UNCHANGED <<suspeded_cnt, pending_bpts>>
            \/ suspeded_cnt' > suspeded_cnt /\ UNCHANGED <<stepping_thread, pending_bpts>>
            \/ /\ ~(pending_bpts' \subseteq pending_bpts)
               /\ UNCHANGED <<stepping_thread, suspeded_cnt>>
BY DEF Edited, set_step, thread_suspend, add_soft_bpt, stateVars, bptVars, thrVars,
   TypeInv, TypeOK, Going

-----------------------------------------------------------------------------
(* The three actions                                                       *)

LEMMA PendingStep ==
  ASSUME SafetyInv, SafetyInv', [Next]_vars, PendingWatched,
         Going => pending_bpts' \subseteq pending_bpts
  PROVE  PendingWatched'
<1>1. CASE Edited
  BY <1>1, EditEffect DEF SafetyInv, Edited, PendingWatched
<1>2. CASE ~Edited
  BY <1>2, WatchedStep DEF Watched, Lowered, Kept, PendingWatched
<1> QED
  BY <1>1, <1>2

LEMMA SuspendedStep ==
  ASSUME SafetyInv, SafetyInv', [Next]_vars, SuspendedWatched,
         Going => suspeded_cnt' <= suspeded_cnt
  PROVE  SuspendedWatched'
<1>1. CASE Edited
  <2>1. ~(suspeded_cnt' > suspeded_cnt)
    BY <1>1 DEF Edited, SafetyInv, TypeInv, TypeOK
  <2> QED
    BY <1>1, <2>1, EditEffect
    DEF SafetyInv, Edited, SuspendedWatched, have_suspended_threads
<1>2. CASE ~Edited
  BY <1>2, WatchedStep
  DEF Watched, Lowered, Kept, SuspendedWatched, have_suspended_threads
<1> QED
  BY <1>1, <1>2

LEMMA ArmedStep ==
  ASSUME SafetyInv, SafetyInv', [Next]_vars, StepWatched,
         Going => stepping_thread' \in {stepping_thread, NoThread}
  PROVE  StepWatched'
<1>1. CASE Edited
  BY <1>1, EditEffect DEF SafetyInv, Edited, StepWatched
<1>2. CASE ~Edited
  BY <1>2, WatchedStep DEF Watched, Lowered, Kept, StepWatched
<1> QED
  BY <1>1, <1>2

-----------------------------------------------------------------------------
\* A pending breakpoint goes on being looked for by ctrl_rtn while the process
\* runs, whatever is compiled, reported, paused or answered: only a breakpoint
\* that IDA adds to a running process is not looked for from the start.
THEOREM PendingAlwaysWatched == Spec => PendingAreWatched
BY PendingStep, SafetyHolds, PTL DEF Spec, PendingAreWatched

\* Likewise a step is not lost ...
THEOREM StepAlwaysArmed == Spec => StepIsArmed
BY ArmedStep, SafetyHolds, PTL DEF Spec, StepIsArmed

\* ... and a thread that IDA has suspended is caught at its next instruction.
THEOREM SuspendedAlwaysWatched == Spec => SuspendedAreWatched
BY SuspendedStep, SafetyHolds, PTL DEF Spec, SuspendedAreWatched
=============================================================================
