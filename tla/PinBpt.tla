-------------------------------- MODULE PinBpt --------------------------------
(***************************************************************************)
(* Breakpoints and PIN's code cache (bpt_mgr_t and instrumenter_t of       *)
(* src/idadbg.cpp).  PIN compiles an instruction when a thread first comes *)
(* to it and keeps the code; a call of bpt_rtn is in the code only if the  *)
(* instruction had a breakpoint then.  Breakpoints set later rely on       *)
(* ctrl_rtn until the reinstrumenter has thrown the code away.  This       *)
(* module adds the cache to PinSuspend and makes its steps exact: an       *)
(* instruction is compiled once, and do_bpt runs only in code that calls   *)
(* it.                                                                     *)
(***************************************************************************)
EXTENDS PinSuspend

CONSTANTS
  Late,  \* sessions in which IDA sets breakpoints whenever it may
  Quiet  \* sessions in which it does so while nothing is being reinstrumented
\* In the others it does so only before the application runs.

ASSUME BptAssumption == Late \subseteq Sessions /\ Quiet \subseteq Sessions

VARIABLES
  cache,   \* the code of each instruction: none, plain, or with bpt_rtn
  flushed  \* has PIN_RemoveInstrumentation done its work?

bvars == <<vars, cache, flushed>>

NoCode == [a \in Addrs |-> "none"]

BptInit == Init /\ cache = NoCode /\ flushed = FALSE

\* Mutant: PIN is asked for a call of bpt_rtn before pending breakpoints are
\* looked at.
CodeFor_early(a) == IF a \in bpts THEN "checked" ELSE "plain"

\* The code add_rtns makes, once it has moved pending breakpoints.
CodeFor(a) == IF a \in bpts' THEN "checked" ELSE "plain"

\* PIN compiles the instruction at a.
compile(t, a) ==
  /\ cache[a] = "none"
  /\ add_rtns(t, a)
  /\ cache' = [cache EXCEPT ![a] = CodeFor(a)]
  /\ UNCHANGED <<flushed, session>>

Uncached(A) == A /\ UNCHANGED <<cache, flushed, session>>

\* Compiled code calls the analysis routines.
analysis(t, a) ==
  \/ cache[a] # "none" /\ Uncached(do_ctrl(t, a))
  \/ cache[a] = "checked" /\ Uncached(do_bpt(t, a))

\* Code that calls neither: ctrl_rtn_enabled says no, and there is no bpt_rtn.
execute(t, a) ==
  /\ pc[t] = "run" /\ cache[a] = "plain" /\ ~control_enabled
  /\ UNCHANGED bvars

callback(t) ==
  Uncached(\/ thread_start_cb(t) \/ thread_fini_cb(t) \/ context_change_cb(t)
           \/ image_load_cb(t))

\* When IDA sets a breakpoint.  While the main thread is in app_start_cb no
\* application code has been executed (comment there).
SettingInTime ==
  \/ pc[MainThread] = "app_start"
  \/ session \in Late
  \/ /\ session \in Quiet
     /\ instr_state = "OK" /\ rpc = "wait" /\ ~reinstr_sem

start_remove ==
  /\ remove_begin
  /\ flushed' = FALSE
  /\ UNCHANGED <<cache, session>>

\* Mutant: the code is kept.
PIN_RemoveInstrumentation_not ==
  /\ rpc = "remove" /\ ~flushed
  /\ flushed' = TRUE
  /\ UNCHANGED <<vars, cache>>

PIN_RemoveInstrumentation ==
  /\ rpc = "remove" /\ ~flushed
  /\ cache' = NoCode
  /\ flushed' = TRUE
  /\ UNCHANGED vars

BptNext ==
  \/ /\ lpc # "exited"
     /\ \/ \E t \in Threads :
             \/ Uncached(InsideTool(t)) \/ callback(t)
             \/ \E a \in Addrs : compile(t, a) \/ analysis(t, a) \/ execute(t, a)
        \/ Uncached(fini_cb) \/ Uncached(finish)
        \/ SettingInTime /\ Uncached(\E a \in Addrs : add_soft_bpt(a))
        \/ Uncached(Listener /\ pending_bpts' \subseteq pending_bpts)
        \/ start_remove \/ PIN_RemoveInstrumentation
        \/ flushed /\ Uncached(remove_end)
        \/ Uncached(reinstr_start) \/ Uncached(reinstr_clear)
        \/ Uncached(reinstr_exit)
  \/ Terminated /\ UNCHANGED bvars

BptSpec == BptInit /\ [][BptNext]_bvars

\* The reinstrumenter thread is scheduled and PIN cleans its cache.
BptFairSpec ==
  /\ BptSpec
  /\ WF_bvars(lpc # "exited" /\ (start_remove \/ PIN_RemoveInstrumentation))
  /\ WF_bvars(/\ lpc # "exited"
              /\ \/ flushed /\ Uncached(remove_end)
                 \/ Uncached(reinstr_start) \/ Uncached(reinstr_clear))

-----------------------------------------------------------------------------
(* Properties                                                              *)

\* Code of an instruction with a breakpoint that neither calls bpt_rtn nor is
\* preceded by ctrl_rtn looking for the breakpoint: a thread runs over it.
Blind ==
  /\ ~Ending /\ process_state \in {"RUNNING", "PAUSE"}
  /\ \E a \in bpts \cup pending_bpts :
       cache[a] = "plain" /\ ~(control_enabled /\ a \in pending_bpts)

\* No breakpoint is missed: never one that was set before the application ran,
\* and one that was set later only until the code cache is clean again, or has
\* to wait for the next stop and resume to be cleaned at all (set while the
\* process runs, when IDA handles a LIBRARY_LOAD).
NoBlindCode ==
  Blind => session \in Quiet /\ (instr_state # "OK" \/ need_reinst)

\* ... and once a resume has taken the request the code does get clean.
BlindnessEnds == Blind /\ ~need_reinst ~> ~Blind \/ need_reinst
=============================================================================
