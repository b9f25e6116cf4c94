----------------------------- MODULE PinBptProofs -----------------------------
(***************************************************************************)
(* Theorems about PinBpt, for every set of threads and addresses and every *)
(* set of sessions.  PinBpt implements PinSuspend and keeps its promise.   *)
(* No breakpoint is missed as long as IDA sets them before the application *)
(* runs or, later, while nothing is being reinstrumented; one that is set  *)
(* later may be missed until the code cache has been cleaned.              *)
(***************************************************************************)
EXTENDS PinBpt, PinPromiseProofs

USE ConstantsAssumption, BptAssumption

-----------------------------------------------------------------------------
(* The invariant                                                           *)

CodeTypes ==
  /\ cache \in [Addrs -> {"none", "plain", "checked"}]
  /\ flushed \in BOOLEAN

\* While the main thread is in app_start_cb no other thread is there and nothing
\* has been compiled.
StartInv ==
  pc[MainThread] = "app_start" =>
    /\ cache = NoCode
    /\ \A t \in Threads \ {MainThread} : pc[t] = "unborn"

\* Breakpoints at code that does not call bpt_rtn
Unchecked == {a \in bpts \cup pending_bpts : cache[a] = "plain"}

\* They are there only while the code cache is going to be cleaned, or the
\* request for that is going to be made.
CleanInv ==
  Unchecked # {} /\ session \notin Late =>
    /\ session \in Quiet
    /\ instr_state # "INITIAL"
    /\ ~(rpc = "remove" /\ flushed)
    /\ need_reinst \/ instr_state # "OK"

BptInv == TypeInv /\ CodeTypes /\ StartInv /\ CleanInv

-----------------------------------------------------------------------------
(* Steps                                                                   *)

LEMMA StepsOfBpt ==
  ASSUME [BptNext]_bvars
  PROVE  [Next]_vars
<1>1. CASE UNCHANGED bvars
  BY <1>1 DEF bvars
<1>2. CASE BptNext /\ ~UNCHANGED bvars
  <2>1. lpc # "exited"
    BY <1>2 DEF BptNext
  <2> DEFINE Claim == \/ UNCHANGED vars
                      \/ (Application \/ Listener \/ Reinstrumenter) /\ UNCHANGED session
  <2>2. ASSUME NEW t \in Threads, Uncached(InsideTool(t)) \/ callback(t)
        PROVE  Claim
    BY <2>2 DEF Uncached, callback, Application, AppThread
  <2>3. ASSUME NEW t \in Threads, NEW a \in Addrs,
               compile(t, a) \/ analysis(t, a) \/ execute(t, a)
        PROVE  Claim
    <3>1. CASE execute(t, a)
      BY <3>1 DEF execute, bvars
    <3>2. CASE compile(t, a) \/ analysis(t, a)
      <4>1. /\ UNCHANGED session
            /\ do_ctrl(t, a) \/ do_bpt(t, a) \/ add_rtns(t, a)
        BY <3>2 DEF compile, analysis, Uncached
      <4> QED
        BY <4>1 DEF Application, AppThread
    <3> QED
      BY <2>3, <3>1, <3>2
  <2>4. ASSUME Uncached(fini_cb) \/ Uncached(finish)
        PROVE  Claim
    BY <2>4 DEF Uncached, Application
  <2>5. ASSUME \/ SettingInTime /\ Uncached(\E a \in Addrs : add_soft_bpt(a))
               \/ Uncached(Listener /\ pending_bpts' \subseteq pending_bpts)
        PROVE  Claim
    BY <2>5 DEF Uncached, Listener, OtherPackets
  <2>6. ASSUME \/ start_remove \/ PIN_RemoveInstrumentation
               \/ flushed /\ Uncached(remove_end)
               \/ Uncached(reinstr_start) \/ Uncached(reinstr_clear)
               \/ Uncached(reinstr_exit)
        PROVE  Claim
    BY <2>6 DEF Uncached, start_remove, PIN_RemoveInstrumentation, Reinstrumenter
  <2>7. Claim
    <3> HIDE DEF Claim
    <3> QED
      BY <1>2, <2>1, <2>2, <2>3, <2>4, <2>5, <2>6 DEF BptNext
  <2> QED
    BY <2>1, <2>7 DEF Next, Claim
<1> QED
  BY <1>1, <1>2

\* PinBpt implements PinSuspend: the code cache only takes steps away, so what
\* is proved of the core (types, buffered resume, the end) holds here, too.
THEOREM CoreIsRefined == BptSpec => Spec
<1>1. BptInit => Init
  BY DEF BptInit
<1>2. [BptNext]_bvars => [Next]_vars
  BY StepsOfBpt
<1> QED
  BY <1>1, <1>2, PTL DEF BptSpec, Spec

\* So does the promise of buffered resume, which a cached breakpoint that calls
\* bpt_rtn directly must keep as well as one that ctrl_rtn finds.
THEOREM PromiseKeptByCache == BptSpec => KeepsStopGoPromise
BY CoreIsRefined, PromiseKept, PTL

\* What a step may do to the cache: an instruction is compiled, the cache is
\* cleaned, or it stays as it is.
LEMMA CacheEffect ==
  ASSUME [BptNext]_bvars
  PROVE  \/ UNCHANGED <<cache, flushed>>
         \/ start_remove \/ PIN_RemoveInstrumentation
         \/ \E t \in Threads, a \in Addrs : compile(t, a)
<1>1. ASSUME NEW t \in Threads, NEW a \in Addrs,
             analysis(t, a) \/ execute(t, a)
      PROVE  UNCHANGED <<cache, flushed>>
  BY <1>1 DEF analysis, Uncached, execute, bvars
<1>2. ASSUME NEW t \in Threads, Uncached(InsideTool(t)) \/ callback(t)
      PROVE  UNCHANGED <<cache, flushed>>
  BY <1>2 DEF callback, Uncached
<1>3. ASSUME \/ Uncached(fini_cb) \/ Uncached(finish)
             \/ SettingInTime /\ Uncached(\E a \in Addrs : add_soft_bpt(a))
             \/ Uncached(Listener /\ pending_bpts' \subseteq pending_bpts)
             \/ flushed /\ Uncached(remove_end)
             \/ Uncached(reinstr_start) \/ Uncached(reinstr_clear)
             \/ Uncached(reinstr_exit)
      PROVE  UNCHANGED <<cache, flushed>>
  BY <1>3 DEF Uncached
<1> QED
  BY <1>1, <1>2, <1>3 DEF BptNext, bvars

LEMMA CodeTypesStep ==
  ASSUME CodeTypes, [BptNext]_bvars
  PROVE  CodeTypes'
<1>1. ASSUME NEW t \in Threads, NEW a \in Addrs, compile(t, a)
      PROVE  CodeTypes'
  BY <1>1 DEF compile, CodeFor, CodeTypes
<1>2. CASE PIN_RemoveInstrumentation
  BY <1>2 DEF PIN_RemoveInstrumentation, NoCode, CodeTypes
<1>3. CASE start_remove
  BY <1>3 DEF start_remove, CodeTypes
<1> QED
  BY <1>1, <1>2, <1>3, CacheEffect DEF CodeTypes

-----------------------------------------------------------------------------
(* The start                                                               *)

\* No step of the application breaks the order of the start.
LEMMA StartOfApp ==
  ASSUME TypeOK, StartInv, NEW t \in Threads, AppThread(t),
         cache' = cache \/ pc[t] = "run"
  PROVE  StartInv'
<1>1. CASE pc[MainThread] = "app_start"
  <2>1. pc[t] \in {"unborn", "app_start"}
    BY <1>1 DEF StartInv
  <2> QED
    BY <1>1, <2>1 DEF AppThread, InsideTool, thread_start_cb, thread_fini_cb,
       context_change_cb, image_load_cb, do_ctrl, do_bpt, EnterIdle, Enter, Emit,
       wait_after_callback, thread_wait, serve_sync, sema_wait, add_rtns
<1>2. CASE pc[MainThread] # "app_start"
  <2>1. pc'[MainThread] # "app_start"
    BY <1>2 DEF AppThread, InsideTool, thread_start_cb, thread_fini_cb,
       context_change_cb, image_load_cb, do_ctrl, do_bpt, EnterIdle, Enter, Emit,
       wait_after_callback, thread_wait, serve_sync, sema_wait, add_rtns, Call,
       Leave, appVars, TypeOK
  <2> QED
    BY <2>1 DEF StartInv
<1> QED
  BY <1>1, <1>2

\* Code is compiled by a thread that runs; cleaning leaves no code.
LEMMA CompilerRuns ==
  ASSUME [BptNext]_bvars, cache' # cache, cache' # NoCode
  PROVE  \E t \in Threads : AppThread(t) /\ pc[t] = "run"
<1>1. PICK t \in Threads, a \in Addrs : compile(t, a)
  BY CacheEffect DEF start_remove, PIN_RemoveInstrumentation
<1> QED
  BY <1>1 DEF compile, add_rtns, AppThread

\* The pieces of a step of PinBpt that are none of the application's: the
\* answer of IDA, PIN and the reinstrumenter.
LEMMA BptCases ==
  ASSUME [BptNext]_bvars
  PROVE  \/ UNCHANGED vars
         \/ /\ lpc # "exited" /\ UNCHANGED session
            /\ \/ \E t \in Threads :
                    /\ AppThread(t)
                    /\ UNCHANGED cache \/ \E a \in Addrs : compile(t, a)
               \/ /\ UNCHANGED <<cache, flushed>>
                  /\ \/ fini_cb \/ finish
                     \/ SettingInTime /\ \E a \in Addrs : add_soft_bpt(a)
                     \/ Listener /\ pending_bpts' \subseteq pending_bpts
                     \/ flushed /\ remove_end
                     \/ reinstr_start \/ reinstr_clear \/ reinstr_exit
               \/ start_remove
<1> DEFINE Other == \/ fini_cb \/ finish
                    \/ SettingInTime /\ \E a \in Addrs : add_soft_bpt(a)
                    \/ Listener /\ pending_bpts' \subseteq pending_bpts
                    \/ flushed /\ remove_end
                    \/ reinstr_start \/ reinstr_clear \/ reinstr_exit
<1>1. ASSUME NEW t \in Threads, NEW a \in Addrs, compile(t, a) \/ analysis(t, a)
      PROVE  /\ UNCHANGED session /\ AppThread(t)
             /\ UNCHANGED cache \/ \E b \in Addrs : compile(t, b)
  BY <1>1 DEF compile, analysis, Uncached, AppThread
<1>2. ASSUME NEW t \in Threads, Uncached(InsideTool(t)) \/ callback(t)
      PROVE  UNCHANGED <<session, cache>> /\ AppThread(t)
  BY <1>2 DEF callback, Uncached, AppThread
<1>3. ASSUME \/ Uncached(fini_cb) \/ Uncached(finish)
             \/ SettingInTime /\ Uncached(\E a \in Addrs : add_soft_bpt(a))
             \/ Uncached(Listener /\ pending_bpts' \subseteq pending_bpts)
             \/ flushed /\ Uncached(remove_end)
             \/ Uncached(reinstr_start) \/ Uncached(reinstr_clear)
             \/ Uncached(reinstr_exit)
      PROVE  UNCHANGED <<session, cache, flushed>> /\ Other
  BY <1>3 DEF Uncached
<1>4. start_remove => UNCHANGED session
  BY DEF start_remove
<1>5. ASSUME NEW t \in Threads, NEW a \in Addrs, execute(t, a)
      PROVE  UNCHANGED vars
  BY <1>5 DEF execute, bvars
<1>6. PIN_RemoveInstrumentation => UNCHANGED vars
  BY DEF PIN_RemoveInstrumentation
<1>7. CASE UNCHANGED bvars
  BY <1>7 DEF bvars
<1>8. CASE BptNext /\ ~UNCHANGED bvars
  <2>1. lpc # "exited"
    BY <1>8 DEF BptNext
  <2>2. \/ \E t \in Threads : Uncached(InsideTool(t)) \/ callback(t)
        \/ \E t \in Threads, a \in Addrs :
             compile(t, a) \/ analysis(t, a) \/ execute(t, a)
        \/ Uncached(fini_cb) \/ Uncached(finish)
        \/ SettingInTime /\ Uncached(\E a \in Addrs : add_soft_bpt(a))
        \/ Uncached(Listener /\ pending_bpts' \subseteq pending_bpts)
        \/ flushed /\ Uncached(remove_end)
        \/ Uncached(reinstr_start) \/ Uncached(reinstr_clear)
        \/ Uncached(reinstr_exit)
        \/ start_remove \/ PIN_RemoveInstrumentation
    BY <1>8 DEF BptNext
  <2> HIDE DEF Other
  <2>3. \/ UNCHANGED vars
        \/ /\ UNCHANGED session
           /\ \/ \E t \in Threads :
                   /\ AppThread(t)
                   /\ UNCHANGED cache \/ \E a \in Addrs : compile(t, a)
              \/ UNCHANGED <<cache, flushed>> /\ Other
              \/ start_remove
    BY <2>2, <1>1, <1>2, <1>3, <1>4, <1>5, <1>6
  <2> QED
    BY <2>1, <2>3 DEF Other
<1> QED
  BY <1>7, <1>8

LEMMA StartStep ==
  ASSUME TypeOK, StartInv, [BptNext]_bvars
  PROVE  StartInv'
<1>1. ASSUME UNCHANGED pc PROVE StartInv'
  <2>1. CASE cache' = NoCode \/ cache' = cache
    BY <1>1, <2>1 DEF StartInv, NoCode
  <2>2. CASE cache' # NoCode /\ cache' # cache
    <3>1. PICK t \in Threads : AppThread(t) /\ pc[t] = "run"
      BY <2>2, CompilerRuns
    <3>2. pc[MainThread] # "app_start"
      BY <3>1 DEF StartInv
    <3> QED
      BY <1>1, <3>2 DEF StartInv
  <2> QED
    BY <2>1, <2>2
<1>2. ASSUME NEW t \in Threads, AppThread(t),
             UNCHANGED cache \/ \E a \in Addrs : compile(t, a)
      PROVE  StartInv'
  <2>1. cache' = cache \/ pc[t] = "run"
    BY <1>2 DEF compile, add_rtns
  <2> QED
    BY <1>2, <2>1, StartOfApp
<1>3. CASE Listener /\ UNCHANGED cache
  <2>1. \/ pc' = pc
        \/ pc'[MainThread] # "app_start"
    BY <1>3, ListenerMovesMain DEF TypeOK
  <2> QED
    BY <1>1, <2>1 DEF StartInv
<1>4. ASSUME NEW a \in Addrs, add_soft_bpt(a) PROVE Listener
  BY <1>4 DEF Listener, OtherPackets
<1>5. ASSUME \/ UNCHANGED vars \/ fini_cb \/ finish \/ remove_end
             \/ reinstr_start \/ reinstr_clear \/ reinstr_exit \/ start_remove
      PROVE  UNCHANGED pc
  BY <1>5 DEF vars, fini_cb, finish, remove_end, reinstr_start, reinstr_clear,
     reinstr_exit, start_remove, remove_begin, ReinstrStep, appVars
<1> QED
  BY <1>1, <1>2, <1>3, <1>4, <1>5, BptCases

-----------------------------------------------------------------------------
(* The code                                                                *)

\* Compiling an instruction leaves no breakpoint there unchecked.
LEMMA CompileChecks ==
  ASSUME TypeOK, CodeTypes, NEW t \in Threads, NEW a \in Addrs, compile(t, a)
  PROVE  Unchecked' \subseteq Unchecked
<1>1. /\ bpts' \cup pending_bpts' = bpts \cup pending_bpts
      /\ a \in bpts \cup pending_bpts => a \in bpts'
  BY DEF compile, add_rtns
<1>2. \A b \in Addrs : cache'[b] = IF b = a THEN CodeFor(a) ELSE cache[b]
  BY DEF compile, CodeTypes
<1>3. ASSUME NEW b \in Unchecked' PROVE b \in Unchecked
  <2>1. b \in bpts \cup pending_bpts /\ cache'[b] = "plain"
    BY <1>1, <1>3 DEF Unchecked
  <2>2. b # a
    BY <1>1, <1>2, <2>1 DEF CodeFor
  <2>3. cache[b] = "plain"
    BY <1>2, <2>1, <2>2 DEF TypeOK
  <2> QED
    BY <2>1, <2>3 DEF Unchecked
<1> QED
  BY <1>3

\* Nothing but ADD_BPT makes an unchecked breakpoint, and cleaning leaves none.
LEMMA UncheckedShrinks ==
  ASSUME TypeOK, CodeTypes, [BptNext]_bvars,
         bpts' \cup pending_bpts' \subseteq bpts \cup pending_bpts
  PROVE  /\ Unchecked' \subseteq Unchecked
         /\ PIN_RemoveInstrumentation => Unchecked' = {}
<1>1. UNCHANGED cache => Unchecked' \subseteq Unchecked
  BY DEF Unchecked
<1>2. PIN_RemoveInstrumentation => Unchecked' = {}
  <2>1. ASSUME PIN_RemoveInstrumentation PROVE Unchecked' = {}
    <3>1. \A a \in Addrs : cache'[a] = "none"
      BY <2>1 DEF PIN_RemoveInstrumentation, NoCode
    <3>2. bpts' \cup pending_bpts' \subseteq Addrs
      BY DEF TypeOK
    <3> QED
      BY <3>1, <3>2 DEF Unchecked
  <2> QED
    BY <2>1
<1>3. start_remove => UNCHANGED cache
  BY DEF start_remove
<1> QED
  BY <1>1, <1>2, <1>3, CacheEffect, CompileChecks

\* Requests to reinstrument stay requests.
LEMMA CleanByRequest ==
  ASSUME TypeOK, CleanInv, UNCHANGED session, UNCHANGED flushed,
         Unchecked' \subseteq Unchecked,
         do_resume \/ update_instrumentation
  PROVE  CleanInv'
<1>1. CASE reinit_instrumentations
  BY <1>1 DEF reinit_instrumentations, CleanInv
<1>2. CASE ~reinit_instrumentations
  <2>1. UNCHANGED insVars
    BY <1>2 DEF do_resume, update_instrumentation, ActualResume, NoResume
  <2>2. UNCHANGED need_reinst
    <3>1. CASE do_resume /\ ResumeNow
      BY <1>2, <3>1 DEF do_resume, ActualResume, TypeOK
    <3>2. CASE do_resume /\ ~ResumeNow
      BY <3>2 DEF do_resume, NoResume
    <3>3. CASE update_instrumentation
      BY <3>3 DEF update_instrumentation, bptVars
    <3> QED
      BY <3>1, <3>2, <3>3
  <2> QED
    BY <2>1, <2>2 DEF insVars, CleanInv
<1> QED
  BY <1>1, <1>2

LEMMA CleanStep ==
  ASSUME TypeInv, CodeTypes, StartInv, CleanInv, [BptNext]_bvars
  PROVE  CleanInv'
<1> USE DEF TypeInv
<1>1. ASSUME UNCHANGED <<session, instr_state, rpc, need_reinst>>,
             bpts' \cup pending_bpts' \subseteq bpts \cup pending_bpts,
             ~start_remove
      PROVE  CleanInv'
  <2>1. CASE PIN_RemoveInstrumentation
    BY <1>1, <2>1, UncheckedShrinks DEF CleanInv
  <2>2. CASE ~PIN_RemoveInstrumentation
    <3>1. UNCHANGED flushed
      BY <1>1, <2>2, CacheEffect DEF compile
    <3> QED
      BY <1>1, <3>1, UncheckedShrinks DEF CleanInv
  <2> QED
    BY <2>1, <2>2
<1>2. CASE UNCHANGED vars
  <2>1. ~start_remove
    BY <1>2 DEF start_remove, remove_begin, ReinstrStep, vars, insVars
  <2> QED
    BY <1>1, <1>2, <2>1 DEF vars, bptVars, insVars
<1>3. ASSUME NEW t \in Threads, AppThread(t), UNCHANGED session
      PROVE  CleanInv'
  <2>1. /\ UNCHANGED <<instr_state, rpc, need_reinst>>
        /\ bpts' \cup pending_bpts' \subseteq bpts \cup pending_bpts
    <3>1. ASSUME NEW a \in Addrs, add_rtns(t, a)
          PROVE  /\ UNCHANGED <<instr_state, rpc, need_reinst>>
                 /\ bpts' \cup pending_bpts' \subseteq bpts \cup pending_bpts
      BY <3>1 DEF add_rtns, insVars
    <3>2. CASE \A a \in Addrs : ~add_rtns(t, a)
      BY <1>3, <3>2 DEF AppThread, InsideTool, thread_start_cb, thread_fini_cb,
         context_change_cb, image_load_cb, do_ctrl, do_bpt, EnterIdle, Enter,
         Emit, wait_after_callback, thread_wait, serve_sync, sema_wait, bptVars,
         insVars
    <3> QED
      BY <3>1, <3>2
  <2>2. ~start_remove
    BY <1>3, <2>1 DEF start_remove, remove_begin, ReinstrStep
  <2> QED
    BY <1>1, <1>3, <2>1, <2>2
<1>4. ASSUME NEW a \in Addrs, add_soft_bpt(a), SettingInTime,
             UNCHANGED <<session, cache, flushed>>
      PROVE  CleanInv'
  <2>1. need_reinst' /\ UNCHANGED <<instr_state, rpc>>
    BY <1>4 DEF add_soft_bpt, insVars
  <2>2. CASE pc[MainThread] = "app_start"
    <3>1. cache' = NoCode
      BY <1>4, <2>2 DEF StartInv
    <3>2. bpts' \cup pending_bpts' \subseteq Addrs
      BY <1>4 DEF add_soft_bpt, TypeOK
    <3>3. Unchecked' = {}
      BY <3>1, <3>2 DEF Unchecked, NoCode
    <3> QED
      BY <3>3 DEF CleanInv
  <2>3. CASE pc[MainThread] # "app_start"
    <3>1. \/ session \in Late
          \/ session \in Quiet /\ instr_state = "OK" /\ rpc = "wait"
      BY <1>4, <2>3 DEF SettingInTime
    <3> QED
      BY <1>4, <2>1, <3>1 DEF CleanInv
  <2> QED
    BY <2>2, <2>3
<1>5. CASE /\ Listener /\ pending_bpts' \subseteq pending_bpts
           /\ UNCHANGED <<session, cache, flushed>>
  <2>1. bpts' \cup pending_bpts' \subseteq bpts \cup pending_bpts
    BY <1>5 DEF Listener, do_resume, OtherPackets, pop_debug_event,
       resume_refused, prepare_pause_queued, prepare_pause_begin,
       prepare_pause_locked, prepare_pause_ignored, prepare_pause_suspend,
       prepare_pause_request, PauseUnderLock, set_step, SuspensionPackets,
       thread_suspend,
       thread_resume, add_soft_bpt, del_soft_bpt, update_instrumentation,
       exit_process, detach_process, set_run_app_sem, listener_detached,
       listener_exiting, bptVars
  <2>2. Unchecked' \subseteq Unchecked
    BY <2>1, UncheckedShrinks
  <2>3. CASE do_resume \/ update_instrumentation
    BY <1>5, <2>2, <2>3, CleanByRequest
  <2>4. ASSUME NEW a \in Addrs, add_soft_bpt(a)
        PROVE  CleanInv'
    BY <1>5, <2>4 DEF add_soft_bpt
  <2>5. ASSUME NEW a \in Addrs, del_soft_bpt(a)
        PROVE  CleanInv'
    <3>1. need_reinst' /\ UNCHANGED <<instr_state, rpc>>
      BY <2>5 DEF del_soft_bpt, insVars
    <3> QED
      BY <1>5, <2>2, <3>1 DEF CleanInv
  <2>6. CASE \/ pop_debug_event \/ resume_refused \/ prepare_pause_queued
             \/ prepare_pause_begin \/ prepare_pause_locked
             \/ exit_process \/ detach_process \/ set_run_app_sem
             \/ listener_detached \/ listener_exiting
             \/ \E t \in Threads : set_step(t) \/ thread_suspend(t) \/ thread_resume(t)
    <3>1. UNCHANGED <<instr_state, rpc, need_reinst>>
      BY <2>6 DEF pop_debug_event, resume_refused, prepare_pause_queued,
         prepare_pause_begin, prepare_pause_locked, prepare_pause_ignored,
         prepare_pause_suspend, prepare_pause_request, PauseUnderLock,
         exit_process, detach_process, set_run_app_sem, listener_detached,
         listener_exiting, set_step, SuspensionPackets,
         thread_suspend, thread_resume, bptVars,
         insVars
    <3> QED
      BY <1>5, <2>2, <3>1 DEF CleanInv
  <2> QED
    BY <1>5, <2>3, <2>4, <2>5, <2>6 DEF Listener, OtherPackets, SuspensionPackets
<1>6. CASE /\ UNCHANGED <<session, cache, flushed>>
           /\ fini_cb \/ finish \/ reinstr_start \/ reinstr_clear \/ reinstr_exit
  <2>1. /\ UNCHANGED <<bpts, pending_bpts, need_reinst, instr_state>>
        /\ rpc' = "remove" => rpc = "remove"
    BY <1>6 DEF fini_cb, finish, reinstr_start, reinstr_clear, reinstr_exit,
       ReinstrStep, bptVars, insVars
  <2>2. Unchecked' = Unchecked
    BY <1>6, <2>1 DEF Unchecked
  <2> QED
    BY <1>6, <2>1, <2>2 DEF CleanInv
<1>7. CASE /\ UNCHANGED <<session, cache, flushed>>
           /\ flushed /\ remove_end
  <2>1. UNCHANGED <<bpts, pending_bpts>> /\ rpc = "remove"
    BY <1>7 DEF remove_end, ReinstrStep, bptVars
  <2>2. Unchecked' = Unchecked
    BY <1>7, <2>1 DEF Unchecked
  <2> QED
    BY <1>7, <2>1, <2>2 DEF CleanInv
<1>8. CASE start_remove
  <2>1. UNCHANGED <<bpts, pending_bpts, cache, session, need_reinst>>
    BY <1>8 DEF start_remove, remove_begin, ReinstrStep, bptVars
  <2>2. Unchecked' = Unchecked
    BY <2>1 DEF Unchecked
  <2> QED
    BY <1>8, <2>1, <2>2 DEF start_remove, remove_begin, CleanInv
<1>9. CASE ~UNCHANGED vars
  <2>1. UNCHANGED session
    BY <1>9, BptCases
  <2>2. CASE \E t \in Threads : AppThread(t)
    BY <1>3, <2>1, <2>2
  <2>3. CASE start_remove
    BY <1>8, <2>3
  <2>4. CASE ~start_remove /\ \A t \in Threads : ~AppThread(t)
    <3> DEFINE Add     == SettingInTime /\ \E a \in Addrs : add_soft_bpt(a)
               Listens == Listener /\ pending_bpts' \subseteq pending_bpts
               Ends    == flushed /\ remove_end
    <3>1. /\ UNCHANGED <<session, cache, flushed>>
          /\ \/ fini_cb \/ finish \/ Add \/ Listens \/ Ends
             \/ reinstr_start \/ reinstr_clear \/ reinstr_exit
      BY <1>9, <2>1, <2>4, BptCases
    <3>2. Add => CleanInv'
      BY <1>4, <3>1
    <3>3. Listens => CleanInv'
      BY <1>5, <3>1
    <3>4. CASE fini_cb \/ finish \/ reinstr_start \/ reinstr_clear \/ reinstr_exit
      BY <1>6, <3>1, <3>4
    <3>5. Ends => CleanInv'
      BY <1>7, <3>1
    <3> HIDE DEF Add, Listens, Ends
    <3> QED
      BY <3>1, <3>2, <3>3, <3>4, <3>5
  <2> QED
    BY <2>2, <2>3, <2>4
<1> QED
  BY <1>2, <1>9

-----------------------------------------------------------------------------
LEMMA BptInitInv == BptInit => BptInv
<1> SUFFICES ASSUME BptInit PROVE BptInv
  OBVIOUS
<1>1. TypeInv /\ Init
  BY TypeInit DEF BptInit
<1>2. CodeTypes
  BY DEF BptInit, CodeTypes, NoCode
<1>3. StartInv
  BY <1>1 DEF BptInit, Init, StartInv
<1>4. CleanInv
  BY <1>1 DEF Init, CleanInv, Unchecked
<1> QED
  BY <1>1, <1>2, <1>3, <1>4 DEF BptInv

LEMMA BptStep ==
  ASSUME BptInv, [BptNext]_bvars
  PROVE  BptInv'
<1>1. TypeInv'
  BY StepsOfBpt, TypeInvStep DEF BptInv
<1>2. CodeTypes'
  BY CodeTypesStep DEF BptInv
<1>3. StartInv'
  BY StartStep DEF BptInv, TypeInv
<1>4. CleanInv'
  BY CleanStep DEF BptInv
<1> QED
  BY <1>1, <1>2, <1>3, <1>4 DEF BptInv

\* No breakpoint that IDA sets before the application runs is missed, in any
\* session; one set later, with nothing being reinstrumented, is missed only
\* while its reinstrumentation is requested or under way.  Sessions in which IDA
\* sets breakpoints whenever it likes (Late) are left out: there it is false.
THEOREM NeverBlind == BptSpec => [](session \notin Late => NoBlindCode)
<1>1. BptInv => (session \notin Late => NoBlindCode)
  <2> SUFFICES ASSUME BptInv, session \notin Late, Blind
               PROVE  session \in Quiet /\ (instr_state # "OK" \/ need_reinst)
    BY DEF NoBlindCode
  <2>1. Unchecked # {}
    BY DEF Blind, Unchecked
  <2> QED
    BY <2>1 DEF BptInv, CleanInv
<1> QED
  BY <1>1, BptInitInv, BptStep, PTL DEF BptSpec
=============================================================================
