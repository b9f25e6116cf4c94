-------------------------------- MODULE StopGo --------------------------------
(***************************************************************************)
(* What the PIN tool promises a debugger, without locks, semaphores,       *)
(* queues or packets: "buffered resume".  Threads report stops; the        *)
(* debugger answers reports one by one; the process goes on only when no   *)
(* report is without an answer, and a thread that waits in the tool        *)
(* returns to the application only when the process goes on.               *)
(***************************************************************************)
EXTENDS Naturals

CONSTANT Threads

VARIABLES
  stopped,  \* is the process suspended?
  open,     \* how many reports wait for an answer
  held,     \* threads that wait in the tool
  over      \* the process is exiting or the debugger leaves: no more promises

vars == <<stopped, open, held, over>>

Init == stopped = TRUE /\ open = 1 /\ held = {} /\ over = FALSE

\* A report stops the process; an analysis routine then waits, a callback
\* about a new or an ending thread returns.
Report(t) ==
  /\ open' = open + 1
  /\ stopped' = TRUE
  /\ held' \in {held, held \cup {t}}

\* Any other reason to stop (a pause request)
Stop(t) ==
  /\ stopped' = TRUE
  /\ held' \in {held, held \cup {t}}
  /\ UNCHANGED open

\* A thread comes to wait without a report of its own.
Join(t) == held' = held \cup {t} /\ UNCHANGED <<stopped, open>>

\* The debugger answers; only the last answer can let the process go.
Answer ==
  /\ open > 0
  /\ open' = open - 1
  /\ stopped' \in IF open' = 0 THEN BOOLEAN ELSE {stopped}
  /\ UNCHANGED held

\* The answer to an event that stopped no thread lets a paused process go.
Go == open = 0 /\ stopped' = FALSE /\ UNCHANGED <<open, held>>

Release(t) ==
  /\ t \in held /\ ~stopped
  /\ held' = held \ {t}
  /\ UNCHANGED <<stopped, open>>

Next ==
  \/ /\ ~over /\ ~over'
     /\ \/ \E t \in Threads : Report(t) \/ Stop(t) \/ Join(t) \/ Release(t)
        \/ Answer \/ Go
  \/ over'

Spec == Init /\ [][Next]_vars

\* No step of this specification lets the process go, or a thread of it, with
\* a report open.
OpenMeansStopped == ~over /\ open > 0 => stopped
===============================================================================
