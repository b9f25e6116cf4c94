----------------------------- MODULE ThreadReports -----------------------------
(***************************************************************************)
(* What a debugger module promises IDA of the threads of the debuggee,     *)
(* without signals, freezes and kept statuses: what a thread does is told  *)
(* once, in a line of events that IDA handles one by one; the thread       *)
(* stands still until then; and no thread goes on while an event is in     *)
(* the line or the user wants the thread suspended.                        *)
(***************************************************************************)
EXTENDS Naturals, Sequences

CONSTANT Threads

VARIABLES
  at,        \* does the thread run, stand still, or was its end told
  untold,    \* what the thread did and nobody handled yet
  line,      \* the events IDA was not told of, or handles (the first one)
  handling,  \* does IDA handle an event?
  asked,     \* did IDA ask for a pause?
  suspended  \* threads the user has suspended

vars == <<at, untold, line, handling, asked, suspended>>

Event(eid, tid) == [eid |-> eid, tid |-> tid]

\* A hit of a breakpoint, a signal that IDA is told of and one that is only
\* logged, the end of the thread, and a SIGSTOP of the module itself.
Reports == {"hit", "loud", "quiet", "exit", "stop"}

\* As which event a report may be told.  When IDA asked for a pause a stop that
\* is none will do.
Tells(report, eid) ==
  \/ report = "hit" /\ eid \in {"BREAKPOINT", "EXCEPTION"}
  \/ report \in {"loud", "stop"} /\ eid = "EXCEPTION"
  \/ report = "exit" /\ eid = "THREAD_EXIT"
  \/ asked /\ report \in {"quiet", "stop"} /\ eid = "PROCESS_SUSPEND"

Init ==
  /\ at = [t \in Threads |-> "stands"]
  /\ untold = [t \in Threads |-> "none"]
  /\ \E t \in Threads : line = <<Event("PROCESS_START", t)>>
  /\ handling = FALSE /\ asked = FALSE /\ suspended = {}

\* A running thread does something, or takes a SIGSTOP of the module.
Occur(t, report) ==
  /\ at[t] = "runs"
  /\ at' = [at EXCEPT ![t] = "stands"]
  /\ untold' = [untold EXCEPT ![t] = report]
  /\ UNCHANGED <<line, handling, asked, suspended>>

\* Threads are told of, and others need not be.  IDA may get the first event
\* in the same step.
Tell(news, forgotten) ==
  LET told == {news[i].tid : i \in DOMAIN news}
  IN  /\ \A i \in DOMAIN news : Tells(untold[news[i].tid], news[i].eid)
      /\ \A i, j \in DOMAIN news : news[i].tid = news[j].tid => i = j
      /\ \A t \in forgotten : t \notin told /\ untold[t] \in {"quiet", "stop"}
      /\ line' = line \o news
      /\ untold' = [t \in Threads |-> IF t \in told \cup forgotten THEN "none"
                                      ELSE untold[t]]
      /\ at' = [t \in Threads |-> IF t \in told /\ untold[t] = "exit" THEN "gone"
                                  ELSE at[t]]
      /\ suspended' = {t \in suspended : at'[t] # "gone"}
      /\ \/ UNCHANGED <<handling, asked>>
         \/ ~handling /\ handling' = TRUE /\ asked' = FALSE

\* What may be told at once: two events at most.
News ==
  LET Item == [eid : {"BREAKPOINT", "EXCEPTION", "PROCESS_SUSPEND", "THREAD_EXIT"},
               tid : Threads]
  IN  {<<a>> : a \in Item} \cup {<<a, b>> : a \in Item, b \in Item}

Give ==
  /\ ~handling /\ line # <<>>
  /\ handling' = TRUE /\ asked' = FALSE
  /\ UNCHANGED <<at, untold, line, suspended>>

\* Threads go on: some run, others find a SIGSTOP of the module at once.  What
\* the threads forgotten did is not an event.
GoOn(forgotten, run, stop) ==
  /\ \A t \in forgotten : untold[t] \in {"quiet", "stop"}
  /\ \A t \in run \cup stop :
       /\ at[t] = "stands" /\ t \notin suspended'
       /\ untold[t] = "none" \/ t \in forgotten
  /\ run \cap stop = {}
  /\ run \cup stop # {} => line' = <<>>
  /\ at' = [t \in Threads |-> IF t \in run THEN "runs" ELSE at[t]]
  /\ untold' = [t \in Threads |-> IF t \in stop THEN "stop"
                                  ELSE IF t \in forgotten THEN "none"
                                  ELSE untold[t]]

Go(forgotten, run, stop) ==
  GoOn(forgotten, run, stop) /\ UNCHANGED <<line, handling, asked, suspended>>

\* IDA has handled the first event of the line.
Answer(run, stop) ==
  /\ handling /\ handling' = FALSE
  /\ line' = Tail(line)
  /\ GoOn({}, run, stop)
  /\ UNCHANGED <<asked, suspended>>

Ask == asked' = TRUE /\ UNCHANGED <<at, untold, line, handling, suspended>>

Suspend(t) ==
  /\ handling
  /\ suspended' = suspended \cup {t}
  /\ UNCHANGED <<at, untold, line, handling, asked>>

Release(t, run, stop) ==
  /\ t \in suspended /\ suspended' = suspended \ {t}
  /\ run \cup stop \subseteq {t}
  /\ GoOn({}, run, stop)
  /\ UNCHANGED <<line, handling, asked>>

Next ==
  \/ \E t \in Threads : \E report \in Reports : Occur(t, report)
  \/ \E news \in News : \E forgotten \in SUBSET Threads : Tell(news, forgotten)
  \/ Give \/ Ask
  \/ \E run, stop \in SUBSET Threads :
       \/ \E forgotten \in SUBSET Threads : Go(forgotten, run, stop)
       \/ Answer(run, stop)
       \/ \E t \in Threads : Release(t, run, stop)
  \/ \E t \in Threads : Suspend(t)

Spec == Init /\ [][Next]_vars
================================================================================
