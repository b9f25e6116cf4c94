---------------------------- MODULE LinuxThreadsMC ----------------------------
(***************************************************************************)
(* What a comment of the Linux debugger module says of breakpoint traps,   *)
(* and the code does not keep.                                             *)
(***************************************************************************)
EXTENDS LinuxThreads

\* linux_debmod.cpp:767-769: "by default, reset the code so we don't send any
\* SIGTRAP signal to the debugged process *except* in the case where the
\* program generated the signal by itself".  All traps of the model are hits
\* of breakpoints that IDA has set, so none may be passed on.
OwnTrapsMasked == \A t \in threads : info[t].child_signum # "SIGTRAP"
=============================================================================
