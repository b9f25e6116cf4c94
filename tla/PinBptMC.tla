------------------------------ MODULE PinBptMC ------------------------------
(***************************************************************************)
(* Sessions of PinBpt for TLC.                                             *)
(***************************************************************************)
EXTENDS PinBpt

CONSTANTS t1, t2, a1, a2, none

OneThread  == {t1}
TwoThreads == {t1, t2}
TwoAddrs   == {a1, a2}

Session(cbs, reqs) == [callbacks |-> cbs, requests |-> reqs]
\* Two threads, breakpoints set early
EarlySession == Session({"thread_start"}, {"ADD_BPT", "SET_TRACE"})
\* One thread, which IDA may suspend (the RESUME of PROCESS_START is refused
\* then), and library loads
HeldSession  == Session({"image_load"}, {"ADD_BPT", "THREAD_SUSPEND"})
\* One thread, set before or after, but one change at a time
QuietSession == Session({}, {"ADD_BPT", "DEL_BPT", "SET_TRACE", "PAUSE"})
\* ... until the process exits
ExitSession  == Session({"thread_fini", "fini"}, {"ADD_BPT", "DEL_BPT", "SET_TRACE"})
\* ... also set while the process runs, when IDA handles a library load
LoadSession  == Session({"image_load"}, {"ADD_BPT", "PAUSE"})
BptQuiet     == {QuietSession, ExitSession, LoadSession}
BptSessions  == {EarlySession, HeldSession} \cup BptQuiet
\* One thread, set at any time
LateSessions == {Session({}, {"ADD_BPT", "PAUSE"})}
Nothing == {}
=============================================================================
