----------------------------- MODULE PinTraceMC -----------------------------
(***************************************************************************)
(* Sessions of PinTrace for TLC: a buffer of two entries.                  *)
(***************************************************************************)
EXTENDS PinTrace

CONSTANTS t1, t2, a1, none

TwoThreads == {t1, t2}
OneAddr    == {a1}

Session(cbs, reqs) == [callbacks |-> cbs, requests |-> reqs]
\* Two threads and pauses; one thread, until the process exits or
\* is detached
TraceSessions == {Session({"thread_start"}, {"PAUSE"}),
                  Session({"thread_fini", "fini"}, {"PAUSE", "DETACH"})}
ExceptionSessions == {Session({"exception", "thread_start"}, {})}
=============================================================================
