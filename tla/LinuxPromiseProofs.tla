-------------------------- MODULE LinuxPromiseProofs --------------------------
(***************************************************************************)
(* LinuxThreads implements ThreadReports, for every finite set of threads, *)
(* every set of addresses and every bound; and who stands still while IDA  *)
(* handles an event or reads the memory.                                   *)
(***************************************************************************)
EXTENDS LinuxProofs

-----------------------------------------------------------------------------
(* What stands still                                                       *)

\* A thread that runs towards a SIGSTOP is awaited by the freeze that sent
\* it, but for the main thread, which a pause may have sent it.  One thread
\* at most is found dead in a freeze.
Still ==
  /\ \A t \in threads : exec[t] = "run" /\ sigstop[t] => t = Main \/ t \in queue
  /\ in_event => queue = {}
  /\ \A t, u \in deadtids : t = u

LEMMA ContStill ==
  ASSUME NEW ts \in SUBSET Thread, Cont(ts), NEW T \in SUBSET threads, threads' = T,
         \A t \in T : exec[t] = "run" /\ sigstop[t] => t = Main,
         threads \subseteq Thread
  PROVE  \A t \in T : exec'[t] = "run" /\ sigstop'[t] => t = Main
BY DEF Cont

LEMMA FreezeStill ==
  ASSUME IInv, Still, Idle,
         NEW f \in [Thread -> Info], in_event => f = info,
         NEW what, Freeze(f, what),
         UNCHANGED <<exec, threads, current>>
  PROVE  Still'
<1> DEFINE running == {t \in threads : is_running(f[t])}
           dead == {t \in running : exec[t] = "gone"}
<1>1. PICK reaped \in {{}} \cup {{t} : t \in dead} :
        /\ queue' = running \ reaped
        /\ deadtids' = reaped
        /\ sigstop' = [t \in Thread |-> sigstop[t] \/ t \in running \ dead]
  BY DEF Freeze
<1>2. /\ threads \subseteq Thread /\ queue = {}
      /\ in_event => running = {}
  BY DEF IInv, TypeOK, Freezing, Frozenness
<1>3. reaped \subseteq dead /\ \A t, u \in reaped : t = u
  <2> HIDE DEF dead
  <2> QED
    OBVIOUS
<1>4. ASSUME NEW t \in threads, exec[t] = "run", sigstop'[t] PROVE t = Main \/ t \in queue'
  BY <1>1, <1>2, <1>3, <1>4 DEF Still
<1>5. in_event' <=> in_event
  BY DEF in_event
<1> QED
  BY <1>1, <1>2, <1>3, <1>4, <1>5 DEF Still

LEMMA StillKeeps ==
  ASSUME IInv, Still, [Next]_vars
  PROVE  Still'
<1>1. /\ threads \subseteq Thread /\ info \in [Thread -> Info]
      /\ exec \in [Thread -> {"run", "stop", "gone"}] /\ sigstop \in [Thread -> BOOLEAN]
  BY DEF IInv, TypeOK
<1>2. Idle => queue = {} /\ deadtids = {}
  BY DEF IInv, Freezing
<1>3. queue = {} => \A t \in threads : exec[t] = "run" /\ sigstop[t] => t = Main
  BY DEF Still
<1>4. ASSUME NEW t \in Thread, Stops(t) PROVE Still'
  BY <1>1, <1>4 DEF Still, Stops, Reports, freezer, in_event
<1>5. ASSUME NEW t \in Thread, NEW st \in Statuses, Happens(t, st) PROVE Still'
  BY <1>1, <1>5 DEF Still, Happens, Reports, freezer, in_event
<1>6. ASSUME NEW t \in Thread, CollectStatus(t) PROVE Still'
  <2>1. t \in threads => exec[t] # "run"
    BY <1>6 DEF CollectStatus, IInv, ThreadInv, Places
  <2> QED
    BY <1>6, <2>1 DEF Still, CollectStatus, in_event
<1>7. CASE GiveQueued
  BY <1>2, <1>7 DEF Still, GiveQueued, kernel, freezer
<1>8. ASSUME NEW t \in Thread, NewStatus(t) PROVE Still'
  <2>1. CASE t \in threads
    <3>1. StartEvent(info, t, status[t]) /\ UNCHANGED <<exec, threads, current>>
          /\ Idle /\ ~in_event
      BY <1>8, <2>1 DEF NewStatus, Polls
    <3>2. [info EXCEPT ![t].state = "STOPPED"] \in [Thread -> Info]
      BY <1>1 DEF Info
    <3> QED
      BY <3>1, <3>2, FreezeStill DEF StartEvent
  <2>2. CASE t \notin threads
    BY <1>8, <2>2 DEF Still, NewStatus, freezer, in_event
  <2> QED
    BY <2>1, <2>2
<1>9. CASE PendingStatus
  <2>1. PICK t \in threads : \E st :
          /\ StartEvent([info EXCEPT ![t].pending_status = None], t, st)
          /\ UNCHANGED <<exec, threads, current>>
          /\ Idle /\ ~in_event
    <3> DEFINE ready == {u \in threads : MayReport(info[u])}
    <3>1. \A u \in ready : u \in Nat
      BY <1>1, ThreadAssumption
    <3>2. ready # {}
      BY <1>9 DEF PendingStatus
    <3>3. (CHOOSE u \in ready : \A v \in ready : u <= v) \in ready
      BY <3>1, <3>2, LeastThread
    <3> QED
      BY <1>9, <3>3 DEF PendingStatus, Polls
  <2>2. PICK st :
          /\ StartEvent([info EXCEPT ![t].pending_status = None], t, st)
          /\ UNCHANGED <<exec, threads, current>>
          /\ Idle /\ ~in_event
    BY <2>1
  <2>3. [[info EXCEPT ![t].pending_status = None] EXCEPT ![t].state = "STOPPED"]
          \in [Thread -> Info]
    BY <1>1 DEF Info
  <2> QED
    BY <2>2, <2>3, FreezeStill DEF StartEvent
<1>10. CASE HandleStatus
  <2>1. queue = {} /\ queue' = {} /\ deadtids' = {}
    BY <1>10 DEF HandleStatus, Frozen, FreezeReturns
  <2>2. \/ UNCHANGED kernel
        \/ \E f : Cont(Continued(f, threads \ deadtids,
                                 EventsOfDead = <<>> /\ ~has_pending_events(f)))
    BY <1>10 DEF HandleStatus, Report, Resume, resume_app
  <2>3. threads' \subseteq threads
    BY <1>10 DEF HandleStatus, Report, Resume
  <2>4. ASSUME NEW ts, ts \subseteq threads, Cont(ts)
        PROVE  \A t \in threads' : exec'[t] = "run" /\ sigstop'[t] => t = Main
    BY <1>1, <1>3, <2>1, <2>3, <2>4, ContStill
  <2>5. \A t \in threads' : exec'[t] = "run" /\ sigstop'[t] => t = Main
    <3>1. CASE UNCHANGED kernel
      BY <1>3, <2>1, <2>3, <3>1 DEF kernel
    <3>2. ASSUME NEW f, NEW may, Cont(Continued(f, threads \ deadtids, may))
          PROVE  \A t \in threads' : exec'[t] = "run" /\ sigstop'[t] => t = Main
      BY <2>4, <3>2 DEF Continued
    <3> QED
      BY <2>2, <3>1, <3>2
  <2> QED
    BY <2>1, <2>5 DEF Still
<1>11. CASE FinishAccess
  <2>1. /\ queue = {} /\ queue' = {} /\ deadtids' = {} /\ threads' \subseteq threads
        /\ Cont(Continued(info, threads \ deadtids, may_run /\ deadtids = {}))
    BY <1>11 DEF FinishAccess, Frozen, FreezeReturns
  <2>2. \A t \in threads' : exec'[t] = "run" /\ sigstop'[t] => t = Main
    <3>1. Continued(info, threads \ deadtids, may_run /\ deadtids = {}) \subseteq threads
      BY DEF Continued
    <3> QED
      BY <1>1, <1>3, <2>1, <3>1, ContStill
  <2> QED
    BY <2>1, <2>2 DEF Still
<1>12. ASSUME NEW op, NEW ea, StartAccess(op, ea) PROVE Still'
  <2>1. Freeze(info, Job(op, Main, ea)) /\ UNCHANGED <<exec, threads, current>> /\ Idle
    BY <1>12 DEF StartAccess, Request
  <2> QED
    BY <1>1, <2>1, FreezeStill
<1>13. CASE dbg_prepare_to_pause_process
  BY <1>1, <1>2, <1>13, ThreadAssumption
     DEF Still, dbg_prepare_to_pause_process, Request, freezer, in_event
<1>14. ASSUME NEW t \in Thread, dbg_thread_suspend(t) PROVE Still'
  BY <1>14 DEF Still, dbg_thread_suspend, kernel, freezer, in_event
<1>15. ASSUME NEW t \in Thread, dbg_thread_continue(t) PROVE Still'
  <2>1. /\ Idle /\ UNCHANGED <<threads, current, queue, deadtids>> /\ t \in threads
        /\ \/ UNCHANGED kernel
           \/ \E f : Cont(Continued(f, {t}, may_run))
    BY <1>15 DEF dbg_thread_continue, Request, freezer
  <2>2. \A u \in threads' : exec'[u] = "run" /\ sigstop'[u] => u = Main
    <3>1. CASE UNCHANGED kernel
      BY <1>2, <1>3, <2>1, <3>1 DEF kernel
    <3>2. ASSUME NEW f, Cont(Continued(f, {t}, may_run))
          PROVE  \A u \in threads' : exec'[u] = "run" /\ sigstop'[u] => u = Main
      <4>1. Continued(f, {t}, may_run) \subseteq threads
        BY <2>1 DEF Continued
      <4> QED
        BY <1>1, <1>2, <1>3, <2>1, <3>2, <4>1, ContStill
    <3> QED
      BY <2>1, <3>1, <3>2
  <2> QED
    BY <1>2, <2>1, <2>2 DEF Still, in_event
<1>16. ASSUME NEW handled \in BOOLEAN, dbg_continue_after_event(handled) PROVE Still'
  <2>1. /\ Idle /\ UNCHANGED <<threads, queue, deadtids>>
        /\ \E f, may : Cont(Continued(f, threads, may))
    BY <1>16 DEF dbg_continue_after_event, resume_app, freezer
  <2>2. PICK f, may : Cont(Continued(f, threads, may))
    BY <2>1
  <2>3. Continued(f, threads, may) \subseteq threads
    BY DEF Continued
  <2>4. \A t \in threads' : exec'[t] = "run" /\ sigstop'[t] => t = Main
    BY <1>1, <1>2, <1>3, <2>1, <2>2, <2>3, ContStill
  <2> QED
    BY <1>2, <2>1, <2>4 DEF Still
<1>17. CASE UNCHANGED vars
  BY <1>17 DEF Still, vars, kernel, freezer, in_event
<1> QED
  BY <1>4, <1>5, <1>6, <1>7, <1>8, <1>9, <1>10, <1>11, <1>12, <1>13, <1>14, <1>15,
     <1>16, <1>17
     DEF Next, Debuggee, GetDebugEvent, Works, Requests, Continue, access_memory,
         dbg_add_bpt, dbg_del_bpt

THEOREM StillAlways == Spec => [](IInv /\ Still)
<1>1. Init => Still
  BY DEF Init, Still, in_event
<1>2. IInv /\ Still /\ [Next]_vars => Still'
  BY StillKeeps
<1> QED
  BY <1>1, <1>2, Invariance, PTL DEF Spec

\* No thread runs while IDA handles an event, nor while the memory is read or
\* written, but the main one towards the SIGSTOP of a pause.
THEOREM AlwaysStandStill == Spec => []StandStill
<1>1. ASSUME IInv, Still PROVE StandStill
  <2>1. SUFFICES ASSUME Frozen \/ in_event, NEW t \in threads, exec[t] = "run"
                 PROVE  t = Main /\ sigstop[t]
    BY DEF StandStill
  <2>2. ~Idle \/ in_event
    BY <2>1 DEF Frozen
  <2>3. t \notin deadtids /\ ~is_running(info[t])
    BY <1>1, <2>1, <2>2 DEF IInv, Freezing, Frozenness
  <2>4. sigstop[t]
    BY <1>1, <2>1, <2>3, AboutToStop
  <2> QED
    BY <1>1, <2>1, <2>4 DEF Still, Frozen
<1> QED
  BY <1>1, StillAlways, PTL

-----------------------------------------------------------------------------
(***************************************************************************)
(* The promise.  Its variables are functions of the module's: what a       *)
(* thread does and has not been told is in the kernel, with the thread or  *)
(* in the freezer's job.                                                   *)
(***************************************************************************)
LEMMA KindFields ==
  /\ Kind(None) = None
  /\ \A st \in {"stop", "quiet", "loud", "exit"} : Kind(st) = st
  /\ \A st \in Addr : Kind(st) = "hit"
  /\ \A st \in Statuses : Kind(st) \in Promise!Reports
BY AddrAssumption DEF Kind, None, Statuses, Signals, Promise!Reports

\* At most one place has something to tell of a thread.
LEMMA ThreadFacts ==
  ASSUME IInv, NEW t \in threads
  PROVE  /\ t \in Thread /\ info[t] \in Info
         /\ exec[t] = "run" \/ status[t] # None =>
              info[t].state = "RUNNING" /\ ~got_pending_status(info[t])
         /\ exec[t] = "run" => status[t] = None
         /\ got_pending_status(info[t]) => info[t].state = "RUNNING"
         /\ job.op = "event" /\ job.tid = t => info[t].state = "STOPPED"
<1>1. t \in Thread /\ info[t] \in Info
  BY DEF IInv, TypeOK
<1>2. Places(status, info, job, t)
  BY DEF IInv, ThreadInv
<1> QED
  BY <1>1, <1>2 DEF Places, IInv, Freezing

\* What the promise says of a thread is the same if its places are.
LEMMA SameThread ==
  ASSUME NEW t, t \in threads' <=> t \in threads,
         t \in threads =>
           /\ exec'[t] = "run" <=> exec[t] = "run"
           /\ status'[t] = status[t]
           /\ info'[t].pending_status = info[t].pending_status
           /\ ~(job.op = "event" /\ job.tid = t) \/ job' = job
           /\ ~(job'.op = "event" /\ job'.tid = t) \/ job' = job
  PROVE  At(t)' = At(t) /\ Untold(t)' = Untold(t)
BY DEF At, Untold, got_pending_status

LEMMA SameLine ==
  ASSUME UNCHANGED <<current, events>>
  PROVE  Line' = Line /\ in_event' = in_event
BY DEF Line, in_event

LEMMA SameSuspended ==
  ASSUME threads' = threads, \A t \in threads : info'[t].user_suspend = info[t].user_suspend
  PROVE  Suspended' = Suspended
BY DEF Suspended

\* A step of the module that the promise does not see
LEMMA Unseen ==
  ASSUME threads' = threads,
         \A t \in threads : At(t)' = At(t) /\ Untold(t)' = Untold(t),
         UNCHANGED <<current, events, requested>>,
         \A t \in threads : info'[t].user_suspend = info[t].user_suspend
  PROVE  UNCHANGED Promise!vars
<1>1. \A t \in Thread : At(t)' = At(t) /\ Untold(t)' = Untold(t)
  <2>1. ASSUME NEW t \in Thread, t \notin threads
        PROVE  At(t)' = At(t) /\ Untold(t)' = Untold(t)
    BY <2>1 DEF At, Untold
  <2> QED
    BY <2>1
<1>2. [t \in Thread |-> At(t)]' = [t \in Thread |-> At(t)]
  BY <1>1
<1>3. [t \in Thread |-> Untold(t)]' = [t \in Thread |-> Untold(t)]
  BY <1>1
<1> QED
  BY <1>2, <1>3, SameLine, SameSuspended DEF Promise!vars

Promised == [Promise!Next]_(Promise!vars)

LEMMA Occurs ==
  ASSUME NEW t \in Thread, NEW report \in Promise!Reports,
         At(t) = "runs", At(t)' = "stands", Untold(t)' = report,
         \A u \in Thread \ {t} : At(u)' = At(u) /\ Untold(u)' = Untold(u),
         UNCHANGED <<current, events, requested, threads, info>>
  PROVE  Promised
<1>1. [u \in Thread |-> At(u)]' = [[u \in Thread |-> At(u)] EXCEPT ![t] = "stands"]
  OBVIOUS
<1>2. [u \in Thread |-> Untold(u)]' = [[u \in Thread |-> Untold(u)] EXCEPT ![t] = report]
  OBVIOUS
<1>3. Promise!Occur(t, report)
  BY <1>1, <1>2, SameLine, SameSuspended DEF Promise!Occur
<1> QED
  BY <1>3 DEF Promised, Promise!Next

LEMMA ReportsStep ==
  ASSUME IInv, NEW t \in Thread, NEW st \in Statuses, Reports(t, st),
         UNCHANGED <<current, events, requested, threads, info, job>>
  PROVE  Promised
<1>1. ASSUME NEW u \in Thread \ {t} PROVE At(u)' = At(u) /\ Untold(u)' = Untold(u)
  BY <1>1, SameThread DEF Reports, IInv, TypeOK
<1>2. CASE t \in threads
  <2>1. At(t) = "runs" /\ At(t)' = "stands"
    BY <1>2 DEF At, Reports, IInv, TypeOK
  <2>2. ~got_pending_status(info[t]) /\ ~(job.op = "event" /\ job.tid = t)
    BY <1>2, ThreadFacts DEF Reports
  <2>3. Untold(t)' = Kind(st)
    BY <1>2, <2>2 DEF Untold, Reports, IInv, TypeOK, Kind
  <2> QED
    BY <1>1, <2>1, <2>3, KindFields, Occurs
<1>3. CASE t \notin threads
  BY <1>1, <1>3, Unseen DEF Promised, IInv, TypeOK
<1> QED
  BY <1>2, <1>3

LEMMA StopsPromised ==
  ASSUME IInv, NEW t \in Thread, Stops(t)
  PROVE  Promised
BY ReportsStep DEF Stops, Statuses, freezer

LEMMA HappensPromised ==
  ASSUME IInv, NEW t \in Thread, NEW st \in Statuses, Happens(t, st)
  PROVE  Promised
BY ReportsStep DEF Happens, freezer

\* What the threads forgotten did is no event, and the threads of C go on; those
\* of them that find a SIGSTOP stop at once.
LEMMA GoesOn ==
  ASSUME NEW forgotten \in SUBSET Thread, NEW C \in SUBSET threads,
         threads \subseteq Thread, threads' = threads,
         sigstop \in [Thread -> BOOLEAN],
         \A t \in forgotten : Untold(t) \in {"quiet", "stop"},
         \A t \in C : /\ At(t) = "stands" /\ ~(info'[t].user_suspend > 0)
                      /\ Untold(t) = None \/ t \in forgotten,
         C # {} => Line' = <<>>,
         \A t \in threads :
           /\ At(t)' = IF t \in C /\ ~sigstop[t] THEN "runs" ELSE At(t)
           /\ Untold(t)' = IF t \in C /\ sigstop[t] THEN "stop"
                           ELSE IF t \in forgotten THEN None ELSE Untold(t)
  PROVE  Promise!GoOn(forgotten, {t \in C : ~sigstop[t]}, {t \in C : sigstop[t]})
<1> DEFINE run == {t \in C : ~sigstop[t]}
           stop == {t \in C : sigstop[t]}
<1>1. \A t \in Thread : t \notin threads =>
        /\ At(t) = "gone" /\ Untold(t) = None /\ At(t)' = "gone" /\ Untold(t)' = None
        /\ t \notin C
  BY DEF At, Untold
<1>2. /\ run \cap stop = {} /\ run \cup stop = C
      /\ \A t \in Thread : /\ t \in run <=> t \in C /\ ~sigstop[t]
                           /\ t \in stop <=> t \in C /\ sigstop[t]
  OBVIOUS
<1>3. \A t \in C : t \notin Suspended'
  BY DEF Suspended
<1> HIDE DEF run, stop
<1>4. [t \in Thread |-> At(t)]' =
        [t \in Thread |-> IF t \in run THEN "runs" ELSE [u \in Thread |-> At(u)][t]]
  BY <1>1, <1>2
<1>5. [t \in Thread |-> Untold(t)]' =
        [t \in Thread |-> IF t \in stop THEN "stop" ELSE IF t \in forgotten THEN "none"
                          ELSE [u \in Thread |-> Untold(u)][t]]
  BY <1>1, <1>2 DEF None
<1>6. Promise!GoOn(forgotten, run, stop)
  BY <1>2, <1>3, <1>4, <1>5 DEF Promise!GoOn, None
<1> QED
  BY <1>6 DEF run, stop

\* dbg_thaw_threads with the edited infos f: the promise's threads go on.
LEMMA ThawGoesOn ==
  ASSUME IInv, NEW f \in [Thread -> Info], NEW who \in SUBSET threads, NEW may \in BOOLEAN,
         \A t \in threads : f[t].state = info[t].state
                            /\ f[t].pending_status = info[t].pending_status,
         info' = Thaw(f, who, may), Cont(Continued(f, who, may)),
         threads' = threads, job' = NoJob, may => Line' = <<>>,
         NEW forgotten \in SUBSET Thread,
         IF job.op = "event" THEN forgotten = {job.tid} ELSE forgotten = {},
         \A t \in forgotten : Untold(t) \in {"quiet", "stop"}
  PROVE  /\ \E run, stop \in SUBSET who : Promise!GoOn(forgotten, run, stop)
         /\ \A t \in threads : info'[t].user_suspend = f[t].user_suspend
<1> DEFINE C == Continued(f, who, may)
<1>1. /\ threads \subseteq Thread /\ sigstop \in [Thread -> BOOLEAN]
      /\ exec \in [Thread -> {"run", "stop", "gone"}]
      /\ status \in [Thread -> Statuses \cup {None}]
  BY DEF IInv, TypeOK
<1>2. /\ C \in SUBSET threads
      /\ \A t \in threads : /\ info'[t].user_suspend = f[t].user_suspend
                            /\ info'[t].pending_status = info[t].pending_status
  BY <1>1, ThawFields
<1>3. ASSUME NEW t \in C
      PROVE  /\ may /\ info'[t].user_suspend = 0 /\ info[t].state = "STOPPED"
             /\ ~got_pending_status(info[t])
  BY <1>1, <1>2 DEF Continued, got_pending_status
<1>4. ASSUME NEW t \in threads
      PROVE  job'.op # "event"
  BY DEF NoJob, Job, None
<1>5. ASSUME NEW t \in C
      PROVE  /\ At(t) = "stands" /\ ~(info'[t].user_suspend > 0)
             /\ Untold(t) = None \/ t \in forgotten
  <2>1. exec[t] # "run" /\ status[t] = None /\ t \in threads
    BY <1>2, <1>3, ThreadFacts
  <2> QED
    BY <1>3, <2>1, KindFields DEF At, Untold
<1>6. ASSUME NEW t \in threads
      PROVE  /\ exec'[t] = IF t \in C /\ ~sigstop[t] THEN "run" ELSE exec[t]
             /\ status'[t] = IF t \in C /\ sigstop[t] THEN "stop" ELSE status[t]
  BY <1>1, <1>6 DEF Cont
<1>7. ASSUME NEW t \in threads
      PROVE  /\ At(t)' = IF t \in C /\ ~sigstop[t] THEN "runs" ELSE At(t)
             /\ Untold(t)' = IF t \in C /\ sigstop[t] THEN "stop"
                             ELSE IF t \in forgotten THEN None ELSE Untold(t)
  <2> HIDE DEF C
  <2>1. At(t)' = IF t \in C /\ ~sigstop[t] THEN "runs" ELSE At(t)
    BY <1>6 DEF At
  <2>2. Untold(t)' = IF got_pending_status(info[t]) THEN Kind(info[t].pending_status)
                     ELSE Kind(status'[t])
    BY <1>2, <1>4 DEF Untold, got_pending_status, Kind
  <2>3. CASE t \in C /\ sigstop[t]
    BY <1>3, <1>6, <2>1, <2>2, <2>3, KindFields
  <2>4. CASE ~(t \in C /\ sigstop[t]) /\ t \in forgotten
    <3>1. job.op = "event" /\ job.tid = t
      BY <2>4
    <3>2. status[t] = None /\ ~got_pending_status(info[t])
      BY <3>1, ThreadFacts
    <3> QED
      BY <1>6, <2>1, <2>2, <2>4, <3>2, KindFields
  <2>5. CASE ~(t \in C /\ sigstop[t]) /\ t \notin forgotten
    BY <1>6, <2>1, <2>2, <2>5 DEF Untold
  <2> QED
    BY <2>1, <2>3, <2>4, <2>5
<1>8. Promise!GoOn(forgotten, {t \in C : ~sigstop[t]}, {t \in C : sigstop[t]})
  <2> HIDE DEF C
  <2>1. C # {} => Line' = <<>>
    BY <1>3
  <2> QED
    BY <1>1, <1>2, <1>5, <1>7, <2>1, GoesOn
<1>9. C \subseteq who
  BY DEF Continued
<1> HIDE DEF C
<1> QED
  BY <1>2, <1>8, <1>9

MayBeGiven ==
  \/ UNCHANGED <<current, requested>>
  \/ ~in_event /\ in_event' /\ requested' = FALSE

\* The threads told are told of as news, what the threads forgotten did is not.
Telling(news, told, forgotten) ==
  /\ \A i \in DOMAIN news :
       /\ news[i].tid \in told
       /\ Promise!Tells(Untold(news[i].tid), news[i].eid)
  /\ \A t \in told : \E i \in DOMAIN news : news[i].tid = t
  /\ \A i, j \in DOMAIN news : news[i].tid = news[j].tid => i = j
  /\ \A t \in forgotten : t \notin told /\ Untold(t) \in {"quiet", "stop"}
  /\ Line' = Line \o news
  /\ threads' = threads \ {t \in told : Untold(t) = "exit"}
  /\ \A t \in threads' :
       /\ At(t)' = At(t)
       /\ Untold(t)' = IF t \in told \cup forgotten THEN None ELSE Untold(t)
       /\ info'[t].user_suspend = info[t].user_suspend
  /\ MayBeGiven

LEMMA Tells ==
  ASSUME NEW news \in Promise!News, NEW forgotten \in SUBSET Thread,
         NEW told \in SUBSET threads,
         threads \subseteq Thread, Telling(news, told, forgotten)
  PROVE  Promised
<1> USE DEF Telling
<1>1. \A t \in Thread : t \notin threads =>
        At(t) = "gone" /\ Untold(t) = None /\ At(t)' = "gone" /\ Untold(t)' = None
  BY DEF At, Untold
<1>2. \A t \in threads : t \notin threads' => At(t)' = "gone" /\ Untold(t)' = None
  BY DEF At, Untold
<1>3. \A t \in threads' : At(t) # "gone" /\ t \in threads
  BY DEF At
<1>4. [t \in Thread |-> At(t)]' =
        [t \in Thread |-> IF t \in told /\ [u \in Thread |-> Untold(u)][t] = "exit"
                          THEN "gone" ELSE [u \in Thread |-> At(u)][t]]
  BY <1>1, <1>2, <1>3
<1>5. [t \in Thread |-> Untold(t)]' =
        [t \in Thread |-> IF t \in told \cup forgotten THEN "none"
                          ELSE [u \in Thread |-> Untold(u)][t]]
  BY <1>1, <1>2, <1>3 DEF None
<1>6. Suspended' = {t \in Suspended : [u \in Thread |-> At(u)]'[t] # "gone"}
  <2>1. \A t \in threads : [u \in Thread |-> At(u)]'[t] # "gone" <=> t \in threads'
    BY <1>2, <1>3
  <2> QED
    BY <1>3, <2>1 DEF Suspended
<1>7. \/ in_event' = in_event /\ UNCHANGED requested
      \/ ~in_event /\ in_event' = TRUE /\ requested' = FALSE
  BY DEF MayBeGiven, in_event
<1>8. \A i \in DOMAIN news : news[i].tid \in Thread
  OBVIOUS
<1>9. /\ \A i \in DOMAIN news :
           Promise!Tells([t \in Thread |-> Untold(t)][news[i].tid], news[i].eid)
      /\ \A i, j \in DOMAIN news : news[i].tid = news[j].tid => i = j
      /\ told = {news[i].tid : i \in DOMAIN news}
      /\ Line' = Line \o news
  BY <1>8
<1>10. \A t \in forgotten : t \notin told
                            /\ [u \in Thread |-> Untold(u)][t] \in {"quiet", "stop"}
  OBVIOUS
<1>11. Promise!Tell(news, forgotten)
  BY <1>4, <1>5, <1>6, <1>7, <1>9, <1>10 DEF Promise!Tell
<1> QED
  BY <1>11 DEF Promised, Promise!Next

-----------------------------------------------------------------------------
(* The line of events                                                      *)
LEMMA LineGiven ==
  ASSUME NEW q \in Seq(Events), q # <<>>, GiveEvent(q)
  PROVE  Line' = q /\ in_event'
<1>1. current' = Head(q) /\ events' = Tail(q) /\ in_event'
  BY GiveEventFields DEF GiveEvent, in_event
<1>2. <<Head(q)>> \o Tail(q) = q
  OBVIOUS
<1> QED
  BY <1>1, <1>2 DEF Line

\* The lines of events that are there
LEMMA LineFields ==
  ASSUME IInv
  PROVE  /\ Line \in Seq(Events) /\ events \in Seq(Events)
         /\ in_event => Line # <<>> /\ Tail(Line) = events
         /\ ~in_event => Line = events
<1>1. events \in Seq(Events) /\ (in_event => current \in Events)
  BY DEF IInv, TypeOK, in_event
<1>2. CASE in_event
  <2>1. Line = <<current>> \o events
    BY <1>2 DEF Line
  <2> QED
    BY <1>1, <1>2, <2>1
<1>3. CASE ~in_event
  <2>1. Line = <<>> \o events
    BY <1>3 DEF Line
  <2> QED
    BY <1>1, <1>3, <2>1
<1> QED
  BY <1>2, <1>3

\* The one thread found dead exits, and was not told of.
LEMMA DeadFacts ==
  ASSUME IInv, Still, NEW d \in deadtids
  PROVE  /\ d \in threads /\ deadtids = {d} /\ Untold(d) = "exit"
         /\ ~(job.op = "event" /\ job.tid = d)
         /\ EventsOfDead = Append(events, Event("THREAD_EXIT", d))
         /\ Event("THREAD_EXIT", d) \in Events
<1>1. d \in threads /\ d \in Thread /\ exec[d] = "gone"
      /\ ~(job.op = "event" /\ job.tid = d)
  BY DEF IInv, TypeOK, Freezing
<1>2. deadtids = {d}
  BY DEF Still
<1>3. Places(status, info, job, d)
  BY <1>1 DEF IInv, ThreadInv
<1>4. info[d].state # "STOPPED"
  <2>1. job # Job("event", d, "exit")
    BY <1>1 DEF Job
  <2> QED
    BY <1>1, <1>3, <2>1 DEF Places
<1>5. IF got_pending_status(info[d]) THEN info[d].pending_status = "exit"
      ELSE status[d] = "exit"
  BY <1>1, <1>3, <1>4 DEF Places, got_pending_status
<1>6. Untold(d) = "exit"
  BY <1>1, <1>5, KindFields DEF Untold
<1>7. (CHOOSE t \in deadtids : TRUE) = d
  BY <1>2
<1> QED
  BY <1>1, <1>2, <1>6, <1>7 DEF EventsOfDead, Event, Events, Eids

\* One or two events are told.
LEMMA OneTold ==
  ASSUME NEW e \in Events, e.eid # "PROCESS_START"
  PROVE  \E news \in Promise!News : news = <<e>> /\ DOMAIN news = {1} /\ news[1] = e
<1>1. e \in [eid : {"BREAKPOINT", "EXCEPTION", "PROCESS_SUSPEND", "THREAD_EXIT"}, tid : Thread]
  BY DEF Events, Eids
<1>2. <<e>> \in Promise!News
  BY <1>1 DEF Promise!News
<1>3. DOMAIN <<e>> = {1} /\ <<e>>[1] = e
  OBVIOUS
<1> QED
  BY <1>2, <1>3

LEMMA TwoTold ==
  ASSUME NEW x \in Events, x.eid # "PROCESS_START", NEW e \in Events, e.eid # "PROCESS_START"
  PROVE  \E news \in Promise!News : /\ news = <<x, e>> /\ DOMAIN news = {1, 2}
                                    /\ news[1] = x /\ news[2] = e
<1> DEFINE Item == [eid : {"BREAKPOINT", "EXCEPTION", "PROCESS_SUSPEND", "THREAD_EXIT"},
                    tid : Thread]
<1>1. x \in Item /\ e \in Item
  BY DEF Events, Eids
<1> HIDE DEF Item
<1>2. <<x, e>> \in {<<a, b>> : a \in Item, b \in Item}
  BY <1>1
<1>3. <<x, e>> \in Promise!News
  BY <1>2 DEF Promise!News, Item
<1>4. DOMAIN <<x, e>> = {1, 2} /\ <<x, e>>[1] = x /\ <<x, e>>[2] = e
  OBVIOUS
<1> QED
  BY <1>3, <1>4

LEMMA AppendTwo ==
  ASSUME NEW S, NEW x \in S, NEW e \in S
  PROVE  Append(<<x>>, e) = <<x, e>>
<1>1. <<x>> \in Seq(S) /\ <<x, e>> \in Seq(S)
  OBVIOUS
<1>2. PICK s \in Seq(S) : s = <<x>>
  BY <1>1
<1>3. PICK p \in Seq(S) : p = <<x, e>>
  BY <1>1
<1>4. PICK a : a = Append(s, e)
  OBVIOUS
<1>5. s[1] = x /\ Len(s) = 1
  BY <1>2
<1>6. Len(p) = 2 /\ p[1] = x /\ p[2] = e
  <2>1. Len(<<x, e>>) = 2 /\ <<x, e>>[1] = x /\ <<x, e>>[2] = e
    OBVIOUS
  <2> QED
    BY <1>3, <2>1
<1>7. a \in Seq(S) /\ Len(a) = 2
  <2>1. a \in Seq(S)
    BY <1>4
  <2>2. Len(a) = Len(s) + 1
    BY <1>4
  <2> QED
    BY <1>5, <2>1, <2>2
<1>8. a[1] = x /\ a[2] = e
  <2>1. \A i \in 1 .. Len(s) : Append(s, e)[i] = s[i]
    BY AppendProperties
  <2>2. Append(s, e)[Len(s) + 1] = e
    BY AppendProperties
  <2> QED
    BY <1>4, <1>5, <2>1, <2>2
<1>9. a = p
  BY <1>6, <1>7, <1>8, SeqEqual
<1> QED
  BY <1>2, <1>3, <1>4, <1>9

\* IDA is told of the thread that is handled, after the thread found dead.
LEMMA HandledTold ==
  ASSUME IInv, Still, job.op = "event", job' = NoJob,
         NEW eid \in {"BREAKPOINT", "EXCEPTION", "PROCESS_SUSPEND", "THREAD_EXIT"},
         Promise!Tells(Kind(job.arg), eid),
         GiveEvent(Append(EventsOfDead, Event(eid, job.tid))),
         threads' = threads \ (deadtids \cup IF job.arg = "exit" THEN {job.tid} ELSE {}),
         UNCHANGED <<exec, status>>,
         \A t \in threads : /\ info'[t].user_suspend = info[t].user_suspend
                            /\ info'[t].pending_status = info[t].pending_status
  PROVE  Promised
<1>1. PICK k \in threads : k = job.tid
  BY DEF IInv, Freezing
<1>2. PICK e : e = Event(eid, k)
  OBVIOUS
<1>3. /\ e \in Events /\ e.tid = k /\ e.eid = eid /\ e.eid # "PROCESS_START"
      /\ threads \subseteq Thread
  BY <1>2 DEF Event, Events, Eids, IInv, TypeOK
<1>4. /\ k \notin deadtids /\ ~in_event /\ events = <<>> /\ job \in Jobs
  BY <1>1 DEF IInv, Freezing, TypeOK, NoJob, Job, None
<1>5. Line' = Append(EventsOfDead, e) /\ Line = <<>> /\ MayBeGiven
  <2>1. Append(EventsOfDead, e) \in Seq(Events) /\ Append(EventsOfDead, e) # <<>>
    BY <1>3, EventsOfDeadType
  <2>2. GiveEvent(Append(EventsOfDead, e))
    BY <1>1, <1>2
  <2>3. Line' = Append(EventsOfDead, e) /\ in_event' /\ requested' = FALSE
    BY <2>1, <2>2, LineGiven, GiveEventFields
  <2> QED
    BY <1>4, <2>3, LineFields DEF MayBeGiven
<1>6. Untold(k) = Kind(job.arg) /\ (Untold(k) = "exit" <=> job.arg = "exit")
  BY <1>1, <1>4, AddrAssumption DEF Untold, Kind, Jobs, Statuses, Signals
<1>7. job'.op # "event"
  BY DEF NoJob, Job, None
<1>8. ASSUME NEW t \in threads'
      PROVE  /\ At(t)' = At(t)
             /\ Untold(t)' = IF t = k THEN None ELSE Untold(t)
             /\ info'[t].user_suspend = info[t].user_suspend
  <2>1. t \in threads
    OBVIOUS
  <2>2. CASE t # k
    BY <1>1, <1>7, <2>1, <2>2, SameThread
  <2>3. CASE t = k
    <3>1. status[t] = None /\ ~got_pending_status(info[t])
      BY <1>1, <2>1, <2>3, ThreadFacts
    <3>2. Untold(t)' = Kind(status[t])
      BY <1>7, <2>1, <3>1 DEF Untold, got_pending_status, Kind
    <3>3. At(t)' = At(t)
      BY <2>1 DEF At
    <3> QED
      BY <2>1, <2>3, <3>1, <3>2, <3>3, KindFields
  <2> QED
    BY <2>2, <2>3
<1>9. Promise!Tells(Untold(k), e.eid)
  BY <1>3, <1>6
<1>10. CASE deadtids = {}
  <2>1. Line' = Line \o <<e>>
    BY <1>4, <1>5, <1>10 DEF EventsOfDead
  <2>2. threads' = threads \ {t \in {k} : Untold(t) = "exit"}
    BY <1>1, <1>6, <1>10
  <2>3. PICK news \in Promise!News : news = <<e>> /\ DOMAIN news = {1} /\ news[1] = e
    BY <1>3, OneTold
  <2>4. Line' = Line \o news
    BY <2>1, <2>3
  <2>5. Telling(news, {k}, {})
    BY <1>3, <1>5, <1>8, <1>9, <2>2, <2>3, <2>4 DEF Telling
  <2> QED
    BY <1>1, <1>3, <2>5, Tells
<1>11. ASSUME NEW d \in deadtids PROVE Promised
  <2>1. PICK x : x = Event("THREAD_EXIT", d)
    OBVIOUS
  <2>2. /\ d \in threads /\ deadtids = {d} /\ Untold(d) = "exit" /\ d # k
        /\ EventsOfDead = Append(<<>>, x) /\ x \in Events
        /\ x.tid = d /\ x.eid = "THREAD_EXIT"
    BY <1>1, <1>4, <2>1, DeadFacts DEF Event
  <2>3. Line' = Line \o <<x, e>>
    <3>1. <<x>> \in Seq(Events)
      BY <2>2
    <3>2. Append(<<>>, x) = <<x>>
      OBVIOUS
    <3>3. Append(<<x>>, e) = <<x, e>>
      BY <1>3, <2>2, AppendTwo
    <3>4. <<x, e>> \in Seq(Events)
      BY <1>3, <2>2
    <3>5. <<>> \o <<x, e>> = <<x, e>>
      BY <3>4
    <3> QED
      BY <1>5, <2>2, <3>5, <3>2, <3>3
  <2>4. threads' = threads \ {t \in {d, k} : Untold(t) = "exit"}
    BY <1>1, <1>6, <2>2
  <2>5. Promise!Tells(Untold(d), x.eid)
    BY <2>2 DEF Promise!Tells
  <2>6. PICK news \in Promise!News : /\ news = <<x, e>> /\ DOMAIN news = {1, 2}
                                    /\ news[1] = x /\ news[2] = e
    BY <1>3, <2>2, TwoTold
  <2>7. Line' = Line \o news
    BY <2>3, <2>6
  <2>8. ASSUME NEW t \in threads'
        PROVE  Untold(t)' = IF t \in {d, k} \cup {} THEN None ELSE Untold(t)
    BY <1>8, <2>2
  <2>9. Telling(news, {d, k}, {})
    <3>1. \A i \in DOMAIN news : /\ news[i].tid \in {d, k}
                                 /\ Promise!Tells(Untold(news[i].tid), news[i].eid)
      BY <1>3, <1>9, <2>2, <2>5, <2>6
    <3>2. \A t \in {d, k} : \E i \in DOMAIN news : news[i].tid = t
      BY <1>3, <2>2, <2>6
    <3>3. \A i, j \in DOMAIN news : news[i].tid = news[j].tid => i = j
      BY <1>3, <2>2, <2>6
    <3> QED
      BY <1>5, <1>8, <2>4, <2>7, <2>8, <3>1, <3>2, <3>3 DEF Telling
  <2> QED
    BY <1>1, <1>3, <2>2, <2>9, Tells
<1> QED
  BY <1>10, <1>11

\* IDA will be told of the thread found dead; the status of a thread that was
\* handled is forgotten.
LEMMA DeadTold ==
  ASSUME IInv, Still, NEW d \in deadtids, job' = NoJob,
         NEW forgotten \in SUBSET threads,
         IF job.op = "event" THEN forgotten = {job.tid} ELSE forgotten = {},
         \A t \in forgotten : Untold(t) \in {"quiet", "stop"},
         events' = EventsOfDead, UNCHANGED <<current, requested>>,
         threads' = threads \ deadtids,
         \A t \in threads' : exec'[t] = exec[t] /\ status'[t] = status[t],
         \A t \in threads : /\ info'[t].user_suspend = info[t].user_suspend
                            /\ info'[t].pending_status = info[t].pending_status
  PROVE  Promised
<1>1. PICK x : x = Event("THREAD_EXIT", d)
  OBVIOUS
<1>2. /\ d \in threads /\ deadtids = {d} /\ Untold(d) = "exit"
      /\ ~(job.op = "event" /\ job.tid = d)
      /\ EventsOfDead = Append(events, x) /\ x \in Events
      /\ x.tid = d /\ x.eid = "THREAD_EXIT"
      /\ threads \subseteq Thread
  BY <1>1, DeadFacts DEF IInv, TypeOK, Event
<1>3. Line' = Line \o <<x>>
  <2>1. events \in Seq(Events) /\ (in_event => current \in Events)
    BY DEF IInv, TypeOK, in_event
  <2>2. in_event' <=> in_event
    BY DEF in_event
  <2>3. events' = events \o <<x>>
    BY <1>2, <2>1
  <2>4. CASE in_event
    <3>1. <<current>> \in Seq(Events) /\ <<x>> \in Seq(Events)
      BY <1>2, <2>1, <2>4
    <3>2. <<current>> \o (events \o <<x>>) = (<<current>> \o events) \o <<x>>
      BY <2>1, <3>1
    <3> QED
      BY <2>2, <2>3, <2>4, <3>2 DEF Line
  <2>5. CASE ~in_event
    <3>1. Line = events
      BY <2>5, LineFields
    <3>2. Line' = <<>> \o (events \o <<x>>)
      BY <2>2, <2>3, <2>5 DEF Line
    <3>3. events \o <<x>> \in Seq(Events)
      BY <1>2, <2>1
    <3> QED
      BY <3>1, <3>2, <3>3
  <2> QED
    BY <2>4, <2>5
<1>4. job'.op # "event"
  BY DEF NoJob, Job, None
<1>5. ASSUME NEW t \in threads'
      PROVE  /\ At(t)' = At(t) /\ t # d
             /\ Untold(t)' = IF t \in forgotten THEN None ELSE Untold(t)
             /\ info'[t].user_suspend = info[t].user_suspend
  <2>1. t \in threads /\ t # d
    BY <1>2
  <2>2. CASE t \notin forgotten
    <3>1. ~(job.op = "event" /\ job.tid = t)
      BY <2>2
    <3> QED
      BY <1>4, <2>1, <2>2, <3>1, SameThread
  <2>3. CASE t \in forgotten
    <3>1. job.op = "event" /\ job.tid = t
      BY <2>3
    <3>2. status[t] = None /\ ~got_pending_status(info[t])
      BY <2>1, <3>1, ThreadFacts
    <3>3. Untold(t)' = Kind(status[t])
      BY <1>4, <2>1, <3>2 DEF Untold, got_pending_status, Kind
    <3>4. At(t)' = At(t)
      BY <2>1 DEF At
    <3> QED
      BY <2>1, <2>3, <3>2, <3>3, <3>4, KindFields
  <2> QED
    BY <2>2, <2>3
<1>6. threads' = threads \ {t \in {d} : Untold(t) = "exit"}
  BY <1>2
<1>7. Promise!Tells(Untold(d), x.eid)
  BY <1>2 DEF Promise!Tells
<1>8. PICK news \in Promise!News : news = <<x>> /\ DOMAIN news = {1} /\ news[1] = x
  BY <1>2, OneTold
<1>9. Line' = Line \o news
  BY <1>3, <1>8
<1>10. MayBeGiven /\ d \notin forgotten
  BY <1>2 DEF MayBeGiven
<1>11. Telling(news, {d}, forgotten)
  BY <1>2, <1>5, <1>6, <1>7, <1>8, <1>9, <1>10 DEF Telling
<1> QED
  BY <1>2, <1>11, Tells

-----------------------------------------------------------------------------
(***************************************************************************)
(* Each step of the module is a step of the promise, or one that it does   *)
(* not see.                                                                *)
(***************************************************************************)
LEMMA CollectStatusPromised ==
  ASSUME IInv, NEW t \in Thread, CollectStatus(t)
  PROVE  Promised
<1>1. /\ status \in [Thread -> Statuses \cup {None}] /\ info \in [Thread -> Info]
      /\ threads \subseteq Thread
  BY DEF IInv, TypeOK
<1>2. /\ status[t] # None /\ status' = [status EXCEPT ![t] = None]
      /\ UNCHANGED <<exec, threads, events, current, requested, job>>
  BY DEF CollectStatus
<1>3. CASE t \notin threads
  <2>1. ASSUME NEW u \in threads PROVE At(u)' = At(u) /\ Untold(u)' = Untold(u)
    BY <1>1, <1>2, <1>3, SameThread DEF CollectStatus
  <2> QED
    BY <1>2, <1>3, <2>1, Unseen DEF CollectStatus, Promised
<1>4. ASSUME t \in threads PROVE Promised
  <2>1. ~got_pending_status(info[t]) /\ ~(job.op = "event" /\ job.tid = t)
    BY <1>2, <1>4, ThreadFacts
  <2>2. At(t)' = At(t)
    BY <1>2 DEF At
  <2>3. Untold(t) = Kind(status[t])
    BY <1>4, <2>1 DEF Untold
  <2>4. CASE info[t].waiting_sigstop /\ status[t] = "stop"
    <3>1. info' = [info EXCEPT ![t].waiting_sigstop = FALSE, ![t].state = "STOPPED"]
      BY <1>4, <2>4 DEF CollectStatus
    <3>2. \A u \in Thread : /\ info'[u].pending_status = info[u].pending_status
                            /\ info'[u].user_suspend = info[u].user_suspend
      BY <1>1, <3>1 DEF Info
    <3>3. ASSUME NEW u \in threads
          PROVE  At(u)' = At(u) /\ Untold(u)' = IF u = t THEN None ELSE Untold(u)
      <4>1. CASE u # t
        BY <1>1, <1>2, <3>2, <4>1, SameThread
      <4>2. CASE u = t
        <5>1. Untold(t)' = Kind(status'[t])
          BY <1>2, <1>4, <2>1, <3>2 DEF Untold, got_pending_status, Kind
        <5> QED
          BY <1>1, <1>2, <2>2, <4>2, <5>1, KindFields
      <4> QED
        BY <4>1, <4>2
    <3>4. Untold(t) = "stop"
      BY <2>3, <2>4, KindFields
    <3>5. Promise!GoOn({t}, {u \in {} : ~sigstop[u]}, {u \in {} : sigstop[u]})
      <4>1. sigstop \in [Thread -> BOOLEAN] /\ threads' = threads
        BY <1>2 DEF IInv, TypeOK
      <4>2. PICK C : C = {}
        OBVIOUS
      <4>3. PICK f : f = {t}
        OBVIOUS
      <4>4. Promise!GoOn(f, {u \in C : ~sigstop[u]}, {u \in C : sigstop[u]})
        BY <1>1, <3>3, <3>4, <4>1, <4>2, <4>3, GoesOn
      <4> QED
        BY <4>2, <4>3, <4>4
    <3>6. Promise!GoOn({t}, {}, {})
      <4>1. {u \in {} : ~sigstop[u]} = {} /\ {u \in {} : sigstop[u]} = {}
        OBVIOUS
      <4> QED
        BY <3>5, <4>1
    <3>7. Promise!Go({t}, {}, {})
      BY <1>1, <1>2, <3>2, <3>6, SameLine, SameSuspended DEF Promise!Go
    <3> QED
      BY <1>1, <1>4, <3>7 DEF Promised, Promise!Next
  <2>5. CASE ~(info[t].waiting_sigstop /\ status[t] = "stop")
    <3>1. info' = [info EXCEPT ![t].pending_status = status[t]]
      BY <1>4, <2>5 DEF CollectStatus
    <3>2. /\ \A u \in Thread : info'[u].user_suspend = info[u].user_suspend
          /\ \A u \in Thread \ {t} : info'[u].pending_status = info[u].pending_status
          /\ info'[t].pending_status = status[t]
      BY <1>1, <3>1 DEF Info
    <3>3. Untold(t)' = Kind(status[t])
      BY <1>2, <1>4, <2>1, <3>2 DEF Untold, got_pending_status, Kind
    <3>4. ASSUME NEW u \in threads PROVE At(u)' = At(u) /\ Untold(u)' = Untold(u)
      <4>1. CASE u # t
        BY <1>1, <1>2, <3>2, <4>1, SameThread
      <4>2. CASE u = t
        BY <2>2, <2>3, <3>3, <4>2
      <4> QED
        BY <4>1, <4>2
    <3> QED
      BY <1>1, <1>2, <3>2, <3>4, Unseen DEF Promised
  <2> QED
    BY <2>4, <2>5
<1> QED
  BY <1>3, <1>4

LEMMA GiveQueuedPromised ==
  ASSUME IInv, GiveQueued
  PROVE  Promised
<1>1. /\ Line = events /\ events # <<>> /\ events \in Seq(Events) /\ ~in_event
  BY LineFields DEF GiveQueued
<1>2. Line' = Line /\ in_event' /\ requested' = FALSE
  BY <1>1, LineGiven, GiveEventFields DEF GiveQueued
<1>3. \A t : At(t)' = At(t) /\ Untold(t)' = Untold(t)
  BY DEF GiveQueued, kernel, freezer, At, Untold
<1>4. Suspended' = Suspended
  BY DEF GiveQueued, Suspended
<1>5. in_event' = TRUE
  BY <1>2 DEF in_event
<1>6. Promise!Give
  BY <1>1, <1>2, <1>3, <1>4, <1>5 DEF Promise!Give
<1> QED
  BY <1>6 DEF Promised, Promise!Next

\* A status moves from the kernel, or from its thread, to the freezer's job.
LEMMA FreezePromised ==
  ASSUME IInv, Idle, NEW f \in [Thread -> Info], NEW what, Freeze(f, what),
         UNCHANGED <<exec, threads, events, current, requested>>,
         \A t \in threads : f[t].user_suspend = info[t].user_suspend,
         \A t \in threads :
           Untold(t) = IF what.op = "event" /\ what.tid = t THEN Kind(what.arg)
                       ELSE IF got_pending_status(f[t]) THEN Kind(f[t].pending_status)
                       ELSE Kind(status'[t])
  PROVE  Promised
<1>1. threads \subseteq Thread /\ sigstop \in [Thread -> BOOLEAN]
  BY DEF IInv, TypeOK
<1>2. job' = what /\ \A t \in threads : /\ info'[t].pending_status = f[t].pending_status
                                        /\ info'[t].user_suspend = f[t].user_suspend
  BY <1>1, FreezeFields
<1>3. ASSUME NEW t \in threads PROVE At(t)' = At(t) /\ Untold(t)' = Untold(t)
  <2>1. At(t)' = At(t)
    BY DEF At
  <2>2. t \in threads'
    OBVIOUS
  <2> QED
    BY <1>2, <2>1, <2>2 DEF Untold, got_pending_status, Kind
<1>4. threads' = threads /\ \A t \in threads : info'[t].user_suspend = info[t].user_suspend
  BY <1>2
<1> QED
  BY <1>3, <1>4, Unseen DEF Promised

LEMMA NewStatusPromised ==
  ASSUME IInv, NEW t \in Thread, NewStatus(t)
  PROVE  Promised
<1>1. /\ status \in [Thread -> Statuses \cup {None}] /\ info \in [Thread -> Info]
      /\ threads \subseteq Thread
  BY DEF IInv, TypeOK
<1>2. /\ status[t] # None /\ status' = [status EXCEPT ![t] = None] /\ Idle
      /\ UNCHANGED <<exec, threads, events, current, requested>>
  BY DEF NewStatus, Polls
<1>3. CASE t \notin threads
  <2>1. UNCHANGED <<job, info>>
    BY <1>3 DEF NewStatus, freezer
  <2>2. ASSUME NEW u \in threads PROVE At(u)' = At(u) /\ Untold(u)' = Untold(u)
    BY <1>1, <1>2, <1>3, <2>1, SameThread
  <2> QED
    BY <1>2, <2>1, <2>2, Unseen DEF Promised
<1>4. CASE t \in threads
  <2> DEFINE f == [info EXCEPT ![t].state = "STOPPED"]
             what == Job("event", t, status[t])
  <2>1. Freeze(f, what)
    BY <1>4 DEF NewStatus, StartEvent
  <2>2. f \in [Thread -> Info]
        /\ \A u \in Thread : /\ f[u].user_suspend = info[u].user_suspend
                             /\ f[u].pending_status = info[u].pending_status
    BY <1>1 DEF Info
  <2>3. what.op = "event" /\ what.tid = t /\ what.arg = status[t]
    BY DEF Job
  <2>4. job.op # "event"
    BY <1>2 DEF Idle, NoJob, Job, None
  <2>5. ~got_pending_status(info[t])
    BY <1>2, <1>4, ThreadFacts
  <2> HIDE DEF f, what
  <2>6. ASSUME NEW u \in threads
        PROVE  Untold(u) = IF what.op = "event" /\ what.tid = u THEN Kind(what.arg)
                           ELSE IF got_pending_status(f[u]) THEN Kind(f[u].pending_status)
                           ELSE Kind(status'[u])
    BY <1>1, <1>2, <2>2, <2>3, <2>4, <2>5 DEF Untold, got_pending_status
  <2> QED
    BY <1>1, <1>2, <2>1, <2>2, <2>6, FreezePromised
<1> QED
  BY <1>3, <1>4

LEMMA PendingStatusPromised ==
  ASSUME IInv, PendingStatus
  PROVE  Promised
<1>1. /\ info \in [Thread -> Info] /\ threads \subseteq Thread
  BY DEF IInv, TypeOK
<1>2. PICK t \in threads :
        /\ MayReport(info[t])
        /\ StartEvent([info EXCEPT ![t].pending_status = None], t,
                      info[t].pending_status)
  <2> DEFINE ready == {u \in threads : MayReport(info[u])}
  <2>1. \A u \in ready : u \in Nat
    BY <1>1, ThreadAssumption
  <2>2. ready # {}
    BY DEF PendingStatus
  <2>3. (CHOOSE u \in ready : \A v \in ready : u <= v) \in ready
    BY <2>1, <2>2, LeastThread
  <2> QED
    BY <2>3 DEF PendingStatus
<1>3. Idle /\ UNCHANGED <<exec, status, threads, events, current, requested>>
  BY DEF PendingStatus, Polls
<1> DEFINE g == [info EXCEPT ![t].pending_status = None]
           f == [g EXCEPT ![t].state = "STOPPED"]
           what == Job("event", t, info[t].pending_status)
<1>4. Freeze(f, what)
  BY <1>2 DEF StartEvent
<1>5. g \in [Thread -> Info]
      /\ \A u \in Thread : /\ g[u].user_suspend = info[u].user_suspend
                           /\ u # t => g[u].pending_status = info[u].pending_status
  <2>1. /\ g \in [Thread -> Info]
        /\ \A u \in Thread \ {t} : g[u] = info[u]
        /\ g[t] = [info[t] EXCEPT !.pending_status = None]
    BY <1>1, SetReported
  <2> HIDE DEF g
  <2>2. g[t].user_suspend = info[t].user_suspend
    BY <1>1, <2>1 DEF Info
  <2> QED
    BY <2>1, <2>2
<1> HIDE DEF g
<1>6. f \in [Thread -> Info]
      /\ \A u \in Thread : /\ f[u].user_suspend = g[u].user_suspend
                           /\ f[u].pending_status = g[u].pending_status
  <2>1. /\ f \in [Thread -> Info]
        /\ \A u \in Thread \ {t} : f[u] = g[u]
        /\ f[t] = [g[t] EXCEPT !.state = "STOPPED"]
    BY <1>1, <1>5, SetStopped
  <2> HIDE DEF f
  <2>2. f[t].user_suspend = g[t].user_suspend /\ f[t].pending_status = g[t].pending_status
    BY <1>1, <1>5, <2>1 DEF Info
  <2> QED
    BY <2>1, <2>2
<1>7. what.op = "event" /\ what.tid = t /\ what.arg = info[t].pending_status
  BY DEF Job
<1>8. job.op # "event"
  BY <1>3 DEF Idle, NoJob, Job, None
<1>9. got_pending_status(info[t])
  BY <1>2 DEF MayReport
<1> HIDE DEF f, what
<1>10. ASSUME NEW u \in threads
       PROVE  Untold(u) = IF what.op = "event" /\ what.tid = u THEN Kind(what.arg)
                          ELSE IF got_pending_status(f[u]) THEN Kind(f[u].pending_status)
                          ELSE Kind(status'[u])
  BY <1>1, <1>3, <1>5, <1>6, <1>7, <1>8, <1>9 DEF Untold, got_pending_status
<1> QED
  BY SMTT(30), <1>1, <1>3, <1>4, <1>5, <1>6, <1>10, FreezePromised

LEMMA StartAccessPromised ==
  ASSUME IInv, NEW op \in {"access", "add_bpt", "del_bpt"}, NEW ea, StartAccess(op, ea)
  PROVE  Promised
<1>1. PICK what : what = Job(op, Main, ea)
  OBVIOUS
<1>2. /\ Freeze(info, what) /\ Idle
      /\ UNCHANGED <<exec, status, threads, events, current, requested>>
  BY <1>1 DEF StartAccess, Request
<1>3. what.op # "event" /\ info \in [Thread -> Info]
  BY <1>1 DEF Job, IInv, TypeOK
<1>4. job.op # "event"
  BY <1>2 DEF Idle, NoJob, Job, None
<1>5. ASSUME NEW u \in threads
      PROVE  Untold(u) = IF what.op = "event" /\ what.tid = u THEN Kind(what.arg)
                         ELSE IF got_pending_status(info[u]) THEN Kind(info[u].pending_status)
                         ELSE Kind(status'[u])
  BY <1>2, <1>3, <1>4 DEF Untold
<1> QED
  BY <1>2, <1>3, <1>5, FreezePromised

\* An event of the thread handled is told.
LEMMA ReportPromised ==
  ASSUME IInv, Still, job.op = "event", FreezeReturns, NEW eid, NEW signum,
         Report(eid, signum), signum \in {None, "SIGTRAP", "other"},
         eid \in {"BREAKPOINT", "EXCEPTION"}, job.arg # "exit",
         Promise!Tells(Kind(job.arg), eid)
  PROVE  Promised
<1>1. OnlySignum(info', info, job.tid)
  BY SignumFields DEF Report, IInv, TypeOK
<1>2. \A t \in threads : /\ info'[t].user_suspend = info[t].user_suspend
                         /\ info'[t].pending_status = info[t].pending_status
  BY <1>1 DEF OnlySignum, IInv, TypeOK
<1> QED
  BY <1>2, HandledTold DEF Report, kernel, FreezeReturns

\* The status of the thread handled is no event: the threads go on, or a thread
\* found dead is told of, or a pause that IDA asked for.
LEMMA ResumePromised ==
  ASSUME IInv, Still, job.op = "event", FreezeReturns,
         NEW f \in [Thread -> Info],
         \A t \in threads : /\ f[t].user_suspend = info[t].user_suspend
                            /\ f[t].pending_status = info[t].pending_status
                            /\ f[t].state = info[t].state,
         Resume(f), Kind(job.arg) \in {"quiet", "stop"}, job.arg # "exit"
  PROVE  Promised
<1>1. /\ job.tid \in threads \ deadtids /\ threads \subseteq Thread
      /\ ~in_event /\ events = <<>>
  BY DEF IInv, Freezing, TypeOK
<1>2. job' = NoJob /\ job'.op # "event"
  BY DEF FreezeReturns, NoJob, Job, None
<1>3. CASE requested
  <2>1. Promise!Tells(Kind(job.arg), "PROCESS_SUSPEND")
    BY <1>3 DEF Promise!Tells
  <2> QED
    BY <1>2, <1>3, <2>1, HandledTold DEF Resume, kernel
<1>4. ASSUME ~requested PROVE Promised
  <2>1. /\ resume_app(f, threads \ deadtids, EventsOfDead)
        /\ events' = EventsOfDead
        /\ UNCHANGED <<current, requested>>
        /\ threads' = threads \ deadtids
    BY <1>4 DEF Resume
  <2>2. PICK may \in BOOLEAN : may = (EventsOfDead = <<>> /\ ~has_pending_events(f))
    OBVIOUS
  <2>3. /\ info' = Thaw(f, threads \ deadtids, may)
        /\ Cont(Continued(f, threads \ deadtids, may))
    BY <2>1, <2>2 DEF resume_app
  <2>4. PICK forgotten : forgotten = {job.tid}
    OBVIOUS
  <2>5. /\ forgotten \in SUBSET threads
        /\ IF job.op = "event" THEN forgotten = {job.tid} ELSE forgotten = {}
        /\ \A t \in forgotten : Untold(t) \in {"quiet", "stop"}
    BY <1>1, <2>4 DEF Untold
  <2>6. CASE deadtids = {}
    <3>1. threads' = threads /\ threads \ deadtids = threads /\ Line' = Line /\ Line = <<>>
          /\ in_event' = in_event /\ events' = events
      BY <1>1, <2>1, <2>6, SameLine, LineFields DEF EventsOfDead
    <3>2. info' = Thaw(f, threads, may) /\ Cont(Continued(f, threads, may))
      BY <2>3, <3>1
    <3>3. /\ \E run, stop \in SUBSET threads : Promise!GoOn(forgotten, run, stop)
          /\ \A t \in threads : info'[t].user_suspend = f[t].user_suspend
      <4>1. forgotten \in SUBSET Thread /\ (may => Line' = <<>>)
        BY <1>1, <2>5, <3>1
      <4>2. \A t \in threads : /\ f[t].state = info[t].state
                              /\ f[t].pending_status = info[t].pending_status
        OBVIOUS
      <4>3. threads \in SUBSET threads
        OBVIOUS
      <4> QED
        BY <1>2, <2>5, <3>1, <3>2, <4>1, <4>2, <4>3, ThawGoesOn
    <3>4. PICK run, stop \in SUBSET threads : Promise!GoOn(forgotten, run, stop)
      BY <3>3
    <3>5. Suspended' = Suspended
      BY <3>1, <3>3, SameSuspended
    <3>6. Promise!Go(forgotten, run, stop)
      BY <2>1, <3>1, <3>4, <3>5 DEF Promise!Go
    <3> QED
      BY <1>1, <2>5, <3>6 DEF Promised, Promise!Next
  <2>7. ASSUME NEW d \in deadtids PROVE Promised
    <3>1. ~may
      BY <2>2, EventsOfDeadType
    <3>2. Continued(f, threads \ deadtids, may) = {}
      BY <3>1 DEF Continued
    <3>3. \A t \in threads' : exec'[t] = exec[t] /\ status'[t] = status[t]
      BY <1>1, <2>1, <2>3, <3>2 DEF Cont, IInv, TypeOK
    <3>4. \A t \in threads : /\ info'[t].user_suspend = info[t].user_suspend
                             /\ info'[t].pending_status = info[t].pending_status
      BY <1>1, <2>3, ThawFields
    <3> QED
      BY <1>2, <2>1, <2>5, <3>3, <3>4, DeadTold
  <2> QED
    BY <2>6, <2>7
<1> QED
  BY <1>3, <1>4

LEMMA HandleStatusPromised ==
  ASSUME IInv, Still, HandleStatus
  PROVE  Promised
<1>1. job.op = "event" /\ FreezeReturns /\ info \in [Thread -> Info]
      /\ bpts \subseteq Addr /\ job \in Jobs
  BY DEF HandleStatus, IInv, TypeOK, NoJob, Job, None
<1>2. CASE /\ job.arg = "stop" /\ info[job.tid].waiting_sigstop
           /\ Resume([info EXCEPT ![job.tid].waiting_sigstop = FALSE])
  <2>1. /\ [info EXCEPT ![job.tid].waiting_sigstop = FALSE] \in [Thread -> Info]
        /\ \A t \in Thread :
             LET g == [info EXCEPT ![job.tid].waiting_sigstop = FALSE]
             IN  /\ g[t].user_suspend = info[t].user_suspend
                 /\ g[t].pending_status = info[t].pending_status
                 /\ g[t].state = info[t].state
    <3> DEFINE g == [info EXCEPT ![job.tid].waiting_sigstop = FALSE]
    <3>1. job.tid \in Thread
      BY <1>1 DEF Jobs
    <3>2. /\ g \in [Thread -> Info]
          /\ \A t \in Thread \ {job.tid} : g[t] = info[t]
          /\ g[job.tid] = [info[job.tid] EXCEPT !.waiting_sigstop = FALSE]
      BY <1>1, <3>1, SetCollected
    <3> HIDE DEF g
    <3>3. /\ g[job.tid].user_suspend = info[job.tid].user_suspend
          /\ g[job.tid].pending_status = info[job.tid].pending_status
          /\ g[job.tid].state = info[job.tid].state
      BY <1>1, <3>1, <3>2 DEF Info
    <3>4. \A t \in Thread : /\ g[t].user_suspend = info[t].user_suspend
                            /\ g[t].pending_status = info[t].pending_status
                            /\ g[t].state = info[t].state
      BY <3>2, <3>3
    <3> QED
      BY <3>2, <3>4 DEF g
  <2>2. threads \subseteq Thread /\ Kind(job.arg) = "stop"
    BY <1>2, KindFields DEF IInv, TypeOK
  <2> QED
    BY <1>1, <1>2, <2>1, <2>2, ResumePromised
<1>3. CASE /\ job.arg = "quiet"
           /\ Resume([info EXCEPT ![job.tid].child_signum = "other"])
  <2>1. OnlySignum([info EXCEPT ![job.tid].child_signum = "other"], info, job.tid)
    BY <1>1, SignumFields
  <2>2. threads \subseteq Thread /\ Kind(job.arg) = "quiet"
    BY <1>3, KindFields DEF IInv, TypeOK
  <2> QED
    BY <1>1, <1>3, <2>1, <2>2, ResumePromised DEF OnlySignum
<1>4. CASE job.arg \in {"stop", "loud"} /\ Report("EXCEPTION", "other")
  <2>1. Promise!Tells(Kind(job.arg), "EXCEPTION")
    BY <1>4, KindFields DEF Promise!Tells
  <2> QED
    BY <1>1, <1>4, <2>1, ReportPromised
<1>5. CASE job.arg \in Addr /\ \E eid \in {"BREAKPOINT", "EXCEPTION"},
                                   signum \in {None, "SIGTRAP"} : Report(eid, signum)
  <2>1. PICK eid \in {"BREAKPOINT", "EXCEPTION"}, signum \in {None, "SIGTRAP"} :
          Report(eid, signum)
    BY <1>5
  <2>2. Promise!Tells(Kind(job.arg), eid) /\ job.arg # "exit"
    BY <1>5, KindFields, AddrAssumption DEF Promise!Tells
  <2> QED
    BY <1>1, <2>1, <2>2, ReportPromised
<1>6. CASE /\ job.arg = "exit"
           /\ threads' = threads \ (deadtids \cup {job.tid})
           /\ GiveEvent(Append(EventsOfDead, Event("THREAD_EXIT", job.tid)))
           /\ UNCHANGED <<kernel, info>>
  <2>1. Promise!Tells(Kind(job.arg), "THREAD_EXIT")
    BY <1>6, KindFields DEF Promise!Tells
  <2> QED
    BY <1>1, <1>6, <2>1, HandledTold DEF kernel, FreezeReturns
<1> QED
  BY <1>1, <1>2, <1>3, <1>4, <1>5, <1>6 DEF HandleStatus

LEMMA ContinueAfterEventPromised ==
  ASSUME IInv, NEW handled \in BOOLEAN, dbg_continue_after_event(handled)
  PROVE  Promised
<1>1. /\ Idle /\ in_event /\ ~in_event' /\ job' = NoJob
      /\ UNCHANGED <<threads, events, requested>> /\ threads \subseteq Thread
  BY DEF dbg_continue_after_event, in_event, freezer, Idle, IInv, TypeOK
<1>2. PICK f \in [Thread -> Info], may \in BOOLEAN :
        /\ \A t \in threads : /\ f[t].state = info[t].state
                              /\ f[t].pending_status = info[t].pending_status
                              /\ f[t].user_suspend = info[t].user_suspend
        /\ info' = Thaw(f, threads, may) /\ Cont(Continued(f, threads, may))
        /\ may => events = <<>>
  <2>1. PICK f : /\ f \in {info, [info EXCEPT ![current.tid].child_signum = None]}
                 /\ resume_app(f, threads, events)
    BY DEF dbg_continue_after_event
  <2>2. info \in [Thread -> Info]
    BY DEF IInv, TypeOK
  <2>3. f = info \/ OnlySignum(f, info, current.tid)
    BY <2>1, <2>2, SignumFields
  <2>4. /\ f \in [Thread -> Info]
        /\ \A t \in threads : /\ f[t].state = info[t].state
                              /\ f[t].pending_status = info[t].pending_status
                              /\ f[t].user_suspend = info[t].user_suspend
    BY <1>1, <2>2, <2>3 DEF OnlySignum
  <2>5. PICK may \in BOOLEAN : may = (events = <<>> /\ ~has_pending_events(f))
    OBVIOUS
  <2>6. /\ info' = Thaw(f, threads, may) /\ Cont(Continued(f, threads, may))
        /\ may => events = <<>>
    BY <2>1, <2>5 DEF resume_app
  <2> QED
    BY <2>4, <2>6
<1>3. Line' = events /\ Tail(Line) = events
  <2>1. events \in Seq(Events) /\ Tail(Line) = events
    BY <1>1, LineFields
  <2>2. Line' = <<>> \o events
    BY <1>1 DEF Line
  <2> QED
    BY <2>1, <2>2
<1>4. job.op # "event"
  BY <1>1 DEF Idle, NoJob, Job, None
<1>5. PICK forgotten : forgotten = {}
  OBVIOUS
<1>6. /\ \E run, stop \in SUBSET threads : Promise!GoOn(forgotten, run, stop)
      /\ \A t \in threads : info'[t].user_suspend = f[t].user_suspend
  <2>1. /\ may => Line' = <<>>
        /\ forgotten \in SUBSET Thread
        /\ IF job.op = "event" THEN forgotten = {job.tid} ELSE forgotten = {}
        /\ \A t \in forgotten : Untold(t) \in {"quiet", "stop"}
        /\ threads' = threads /\ job' = NoJob
    BY <1>1, <1>2, <1>3, <1>4, <1>5
  <2>2. /\ \A t \in threads : f[t].state = info[t].state
                              /\ f[t].pending_status = info[t].pending_status
        /\ info' = Thaw(f, threads, may) /\ Cont(Continued(f, threads, may))
        /\ threads \in SUBSET threads
    BY <1>2
  <2>3. /\ \E run, stop \in SUBSET threads : Promise!GoOn(forgotten, run, stop)
        /\ \A t \in threads : info'[t].user_suspend = f[t].user_suspend
    BY <2>1, <2>2, ThawGoesOn
  <2> QED
    BY <2>3
<1>7. PICK run, stop \in SUBSET threads : Promise!GoOn({}, run, stop)
  BY <1>5, <1>6
<1>8. Suspended' = Suspended
  BY <1>1, <1>2, <1>6, SameSuspended
<1>9. in_event' = FALSE
  BY <1>1 DEF in_event
<1>10. Promise!Answer(run, stop)
  BY <1>1, <1>3, <1>7, <1>8, <1>9 DEF Promise!Answer
<1> QED
  BY <1>1, <1>10 DEF Promised, Promise!Next

LEMMA PausePromised ==
  ASSUME IInv, dbg_prepare_to_pause_process
  PROVE  Promised
<1>1. /\ UNCHANGED <<exec, status, threads, events, current, job>> /\ requested' = TRUE
  BY DEF dbg_prepare_to_pause_process, freezer
<1>2. info \in [Thread -> Info] /\ threads \subseteq Thread
  BY DEF IInv, TypeOK
<1>3. \A t \in threads : /\ info'[t].pending_status = info[t].pending_status
                         /\ info'[t].user_suspend = info[t].user_suspend
  <2>1. \/ info' = info
        \/ info' = [info EXCEPT ![Main].waiting_sigstop = TRUE]
    BY DEF dbg_prepare_to_pause_process
  <2> QED
    BY <1>2, <2>1 DEF Info
<1>4. \A t \in threads : At(t)' = At(t) /\ Untold(t)' = Untold(t)
  BY <1>1, <1>3, SameThread
<1>5. \A t \in Thread : At(t)' = At(t) /\ Untold(t)' = Untold(t)
  BY <1>1, <1>4 DEF At, Untold
<1>6. Promise!Ask
  BY <1>1, <1>3, <1>5, SameLine, SameSuspended DEF Promise!Ask
<1> QED
  BY <1>6 DEF Promised, Promise!Next

LEMMA SuspendPromised ==
  ASSUME IInv, NEW t \in Thread, dbg_thread_suspend(t)
  PROVE  Promised
<1>1. /\ UNCHANGED <<exec, status, threads, events, current, job, requested>>
      /\ t \in threads /\ in_event /\ info[t].user_suspend = 0
      /\ info' = [info EXCEPT ![t].suspend_count = @ + 1, ![t].user_suspend = @ + 1]
  BY DEF dbg_thread_suspend, kernel, freezer
<1>2. info \in [Thread -> Info] /\ threads \subseteq Thread
  BY DEF IInv, TypeOK
<1>3. /\ \A u \in threads : info'[u].pending_status = info[u].pending_status
      /\ \A u \in threads \ {t} : info'[u].user_suspend = info[u].user_suspend
      /\ info'[t].user_suspend = 1
  <2>1. \A u \in Thread \ {t} : info'[u] = info[u]
    BY <1>1, <1>2
  <2>2. info'[t] = [info[t] EXCEPT !.suspend_count = @ + 1, !.user_suspend = @ + 1]
    BY <1>1, <1>2
  <2>3. info'[t].pending_status = info[t].pending_status
    BY <1>1, <1>2, <2>2 DEF Info
  <2>4. info'[t].user_suspend = 1
    BY <1>1, <1>2, <2>2 DEF Info
  <2> QED
    BY <1>2, <2>1, <2>3, <2>4
<1>4. \A u \in threads : At(u)' = At(u) /\ Untold(u)' = Untold(u)
  BY <1>1, <1>3, SameThread
<1>5. \A u \in Thread : At(u)' = At(u) /\ Untold(u)' = Untold(u)
  BY <1>1, <1>4 DEF At, Untold
<1>6. Suspended' = Suspended \cup {t}
  <2>1. \A u \in threads : info'[u].user_suspend > 0 <=> info[u].user_suspend > 0 \/ u = t
    BY <1>3
  <2> QED
    BY <1>1, <2>1 DEF Suspended
<1>7. Promise!Suspend(t)
  BY <1>1, <1>5, <1>6, SameLine DEF Promise!Suspend
<1> QED
  BY <1>7 DEF Promised, Promise!Next

LEMMA FinishAccessPromised ==
  ASSUME IInv, Still, FinishAccess
  PROVE  Promised
<1>1. /\ job.op # "event" /\ job' = NoJob /\ events' = EventsOfDead
      /\ UNCHANGED <<current, requested>> /\ threads' = threads \ deadtids
      /\ threads \subseteq Thread /\ info \in [Thread -> Info]
  BY DEF FinishAccess, FreezeReturns, IInv, TypeOK
<1>2. PICK may \in BOOLEAN : may = (may_run /\ deadtids = {})
  OBVIOUS
<1>3. /\ info' = Thaw(info, threads \ deadtids, may)
      /\ Cont(Continued(info, threads \ deadtids, may))
  BY <1>2 DEF FinishAccess
<1>4. PICK forgotten : forgotten = {}
  OBVIOUS
<1>5. /\ forgotten \in SUBSET threads
      /\ IF job.op = "event" THEN forgotten = {job.tid} ELSE forgotten = {}
      /\ \A t \in forgotten : Untold(t) \in {"quiet", "stop"}
  BY <1>1, <1>4
<1>6. CASE deadtids = {}
  <2>1. /\ threads' = threads /\ threads \ deadtids = threads /\ events' = events
        /\ Line' = Line /\ in_event' = in_event
    BY <1>1, <1>6, SameLine DEF EventsOfDead
  <2>2. may => Line' = <<>>
    BY <1>2, <2>1, LineFields DEF IInv, Frozenness
  <2>3. info' = Thaw(info, threads, may) /\ Cont(Continued(info, threads, may))
    BY <1>3, <2>1
  <2>4. /\ \E run, stop \in SUBSET threads : Promise!GoOn(forgotten, run, stop)
        /\ \A t \in threads : info'[t].user_suspend = info[t].user_suspend
    BY <1>1, <1>5, <2>1, <2>2, <2>3, ThawGoesOn
  <2>5. PICK run, stop \in SUBSET threads : Promise!GoOn(forgotten, run, stop)
    BY <2>4
  <2>6. Suspended' = Suspended
    BY <2>1, <2>4, SameSuspended
  <2>7. Promise!Go(forgotten, run, stop)
    BY <1>1, <2>1, <2>5, <2>6 DEF Promise!Go
  <2> QED
    BY <1>1, <1>5, <2>7 DEF Promised, Promise!Next
<1>7. ASSUME NEW d \in deadtids PROVE Promised
  <2>1. Continued(info, threads \ deadtids, may) = {}
    BY <1>2 DEF Continued
  <2>2. \A t \in threads' : exec'[t] = exec[t] /\ status'[t] = status[t]
    BY <1>1, <1>3, <2>1 DEF Cont, IInv, TypeOK
  <2>3. \A t \in threads : /\ info'[t].user_suspend = info[t].user_suspend
                           /\ info'[t].pending_status = info[t].pending_status
    BY <1>1, <1>3, ThawFields
  <2> QED
    BY <1>1, <1>5, <2>2, <2>3, DeadTold
<1> QED
  BY <1>6, <1>7

LEMMA ThreadContinuePromised ==
  ASSUME IInv, NEW t \in Thread, dbg_thread_continue(t)
  PROVE  Promised
<1>1. /\ UNCHANGED <<threads, events, current, job, requested>> /\ Idle
      /\ t \in threads /\ info[t].user_suspend > 0
      /\ threads \subseteq Thread /\ info \in [Thread -> Info] /\ may_run \in BOOLEAN
  BY DEF dbg_thread_continue, Request, freezer, IInv, TypeOK
<1>2. info[t].user_suspend = 1
  <2>1. Suspensions(info, Freezes, t)
    BY <1>1 DEF IInv, ThreadInv
  <2> QED
    BY <1>1, <2>1 DEF Suspensions
<1>3. PICK f : f = [info EXCEPT ![t].user_suspend = @ - 1]
  OBVIOUS
<1>4. /\ f \in [Thread -> Info]
      /\ \A u \in threads : /\ f[u].state = info[u].state
                            /\ f[u].pending_status = info[u].pending_status
      /\ \A u \in threads \ {t} : f[u].user_suspend = info[u].user_suspend
      /\ f[t].user_suspend = 0
  <2>1. f = [info EXCEPT ![t].user_suspend = 0]
    BY <1>1, <1>2, <1>3
  <2> QED
    BY <1>1, <2>1 DEF Info
<1>5. info' = Thaw(f, {t}, may_run) /\ Cont(Continued(f, {t}, may_run))
  BY <1>3, <1>4 DEF dbg_thread_continue
<1>6. /\ job.op # "event" /\ job' = NoJob /\ threads' = threads
      /\ Line' = Line /\ in_event' = in_event
  BY <1>1, SameLine DEF Idle, NoJob, Job, None
<1>7. may_run => Line' = <<>>
  BY <1>6, LineFields DEF IInv, Frozenness
<1>8. PICK forgotten : forgotten = {}
  OBVIOUS
<1>9. PICK who \in SUBSET threads : who = {t}
  BY <1>1
<1>10. /\ \E run, stop \in SUBSET who : Promise!GoOn(forgotten, run, stop)
       /\ \A u \in threads : info'[u].user_suspend = f[u].user_suspend
  <2>1. /\ forgotten \in SUBSET Thread
        /\ IF job.op = "event" THEN forgotten = {job.tid} ELSE forgotten = {}
        /\ \A u \in forgotten : Untold(u) \in {"quiet", "stop"}
        /\ info' = Thaw(f, who, may_run) /\ Cont(Continued(f, who, may_run))
    BY <1>5, <1>6, <1>8, <1>9
  <2> QED
    BY <1>1, <1>4, <1>6, <1>7, <2>1, ThawGoesOn
<1>11. PICK run, stop \in SUBSET who : Promise!GoOn({}, run, stop)
  BY <1>8, <1>10
<1>12. Suspended' = Suspended \ {t} /\ t \in Suspended
  BY <1>1, <1>4, <1>6, <1>10 DEF Suspended
<1>13. Promise!Release(t, run, stop)
  BY <1>1, <1>6, <1>9, <1>11, <1>12 DEF Promise!Release
<1> QED
  BY <1>1, <1>9, <1>13 DEF Promised, Promise!Next

LEMMA StutterPromised ==
  ASSUME UNCHANGED vars
  PROVE  Promised
<1>1. \A t : At(t)' = At(t) /\ Untold(t)' = Untold(t)
  BY DEF vars, kernel, freezer, At, Untold
<1> QED
  BY <1>1, Unseen DEF vars, Promised

LEMMA NextPromised ==
  ASSUME IInv, Still, [Next]_vars
  PROVE  Promised
<1>1. CASE Debuggee
  BY <1>1, StopsPromised, HappensPromised DEF Debuggee
<1>2. CASE GetDebugEvent
  BY <1>2, GiveQueuedPromised, PendingStatusPromised, NewStatusPromised DEF GetDebugEvent
<1>3. CASE Works
  BY <1>3, HandleStatusPromised, FinishAccessPromised, CollectStatusPromised DEF Works
<1>4. CASE Requests
  BY <1>4, PausePromised, SuspendPromised, ThreadContinuePromised, StartAccessPromised
     DEF Requests, access_memory, dbg_add_bpt, dbg_del_bpt
<1>5. CASE Continue
  BY <1>5, ContinueAfterEventPromised DEF Continue
<1>6. CASE UNCHANGED vars
  BY <1>6, StutterPromised
<1> QED
  BY <1>1, <1>2, <1>3, <1>4, <1>5, <1>6 DEF Next

LEMMA InitPromised == Init => Promise!Init
<1> SUFFICES ASSUME Init PROVE Promise!Init
  OBVIOUS
<1>1. \A t \in Thread : At(t) = "stands" /\ Untold(t) = "none"
  BY KindFields DEF Init, At, Untold, NoJob, Job, None, got_pending_status
<1>2. ~in_event /\ Suspended = {}
  BY DEF Init, in_event, Suspended
<1>3. Line = <<[eid |-> "PROCESS_START", tid |-> Main]>>
  <2>1. Event("PROCESS_START", Main) \in Events
    BY ThreadAssumption DEF Event, Events, Eids
  <2>2. Line = <<>> \o <<Event("PROCESS_START", Main)>>
    BY <1>2 DEF Line, Init
  <2> QED
    BY <2>1, <2>2 DEF Event
<1>4. requested = FALSE
  BY DEF Init
<1>5. Main \in Thread
  BY ThreadAssumption
<1> QED
  BY <1>1, <1>2, <1>3, <1>4, <1>5 DEF Promise!Init, Promise!Event

\* The Linux module keeps the promise of ThreadReports: what a thread does is
\* told once, while the thread stands still, or forgotten if it was a SIGSTOP of
\* the module or a signal that is only logged; a thread goes on only when it has
\* nothing untold, no event waits and the user has not suspended it.
THEOREM ReportsKept == Spec => KeepsReports
<1>1. Init => Promise!Init
  BY InitPromised
<1>2. IInv /\ Still /\ [Next]_vars => [Promise!Next]_(Promise!vars)
  BY NextPromised DEF Promised
<1> QED
  BY <1>1, <1>2, StillAlways, PTL DEF Spec, KeepsReports, Promise!Spec
=============================================================================
