------------------------------ MODULE LinuxProofs ------------------------------
(***************************************************************************)
(* Theorems about LinuxThreads, for every finite set of threads, every set *)
(* of addresses and every bound on what the debuggee does and IDA asks.    *)
(***************************************************************************)
EXTENDS LinuxThreads, FiniteSetTheorems, SequenceTheorems, TLAPS

-----------------------------------------------------------------------------
(***************************************************************************)
(* The inductive invariant.  What it says of one thread is stated for any  *)
(* statuses st, infos f and job j, since a step of the module goes from    *)
(* the variables to edited infos and from them to the next state.          *)
(***************************************************************************)
\* A stop of the thread is known in just one place: it waits to be collected,
\* is kept with the thread, or was handled.  A dead thread is reported.
Places(st, f, j, t) ==
  /\ exec[t] = "run" => st[t] = None
  /\ exec[t] # "run" => \/ st[t] # None \/ got_pending_status(f[t])
                        \/ f[t].state = "STOPPED"
  /\ st[t] # None \/ exec[t] = "run" =>
       ~got_pending_status(f[t]) /\ f[t].state = "RUNNING"
  /\ got_pending_status(f[t]) => f[t].state = "RUNNING"
  /\ exec[t] = "gone" =>
       /\ st[t] \in {None, "exit"} /\ f[t].pending_status \in {None, "exit"}
       /\ f[t].state = "STOPPED" => j = Job("event", t, "exit")

\* A SIGSTOP that is awaited is on its way; to a thread other than the main
\* one there is one at most, and only when it is awaited.
Handled(j, t) == j = Job("event", t, "stop")
Sigstops(st, f, j, t) ==
  exec[t] # "gone" =>
    /\ f[t].waiting_sigstop => sigstop[t] \/ st[t] = "stop" \/ Handled(j, t)
    /\ t # Main =>
         /\ sigstop[t] \/ st[t] = "stop" \/ Handled(j, t) => f[t].waiting_sigstop
         /\ ~(sigstop[t] /\ (st[t] = "stop" \/ Handled(j, t)))
         /\ f[t].pending_status # "stop"

\* The counts of suspensions, when the threads are frozen n times
Suspensions(f, n, t) ==
  /\ f[t].user_suspend \in {0, 1}
  /\ f[t].user_suspend = 1 => ~is_running(f[t])
  /\ is_running(f[t]) => f[t].suspend_count = 0
  /\ f[t].suspend_count <= f[t].user_suspend + n

ThreadInv(st, f, j, n, t) ==
  Places(st, f, j, t) /\ Sigstops(st, f, j, t) /\ Suspensions(f, n, t)

Freezes == (IF Idle THEN 0 ELSE 1) + (IF in_event THEN 1 ELSE 0)

Freezing ==
  /\ Idle => queue = {} /\ deadtids = {}
  /\ deadtids \subseteq threads
  /\ \A t \in deadtids : exec[t] = "gone"
  /\ job.op = "event" =>
       /\ ~in_event /\ events = <<>>
       /\ job.tid \in threads \ deadtids /\ info[job.tid].state = "STOPPED"

\* No thread counts as running while the threads are frozen, while IDA handles
\* an event, and while there is one to give to it.
Frozenness ==
  /\ ~Idle \/ in_event \/ events # <<>> =>
       \A t \in threads \ deadtids : ~is_running(info[t])
  /\ in_event \/ events # <<>> => ~may_run

\* If the process may run then all threads do that the user lets run, and if it
\* may not then there is a reason that will end.
Resumption ==
  /\ Idle /\ may_run =>
       \A t \in threads : info[t].state = "STOPPED" => info[t].user_suspend = 1
  /\ ~in_event /\ events = <<>> /\ ~requested /\ ~may_run /\ job.op # "event" =>
       \E t \in threads \ deadtids :
         got_pending_status(info[t]) /\ info[t].user_suspend = 0

IInv ==
  /\ TypeOK
  /\ PendingCounted
  /\ \A t \in threads : ThreadInv(status, info, job, Freezes, t)
  /\ Freezing
  /\ Frozenness
  /\ Resumption

-----------------------------------------------------------------------------
(***************************************************************************)
(* What freezing and thawing do to the thread infos                        *)
(***************************************************************************)
LEMMA InfoFields ==
  ASSUME NEW i \in Info
  PROVE  /\ i.state \in {"RUNNING", "STOPPED"} /\ i.waiting_sigstop \in BOOLEAN
         /\ i.suspend_count \in Nat /\ i.user_suspend \in Nat
         /\ i.pending_status \in Statuses \cup {None}
         /\ i.child_signum \in {None, "SIGTRAP", "other"}
BY DEF Info

\* Assignments to a field of one entry: the others stay as they are.
LEMMA SetStopped ==
  ASSUME NEW f \in [Thread -> Info], NEW u \in Thread
  PROVE  /\ [f EXCEPT ![u].state = "STOPPED"] \in [Thread -> Info]
         /\ \A t \in Thread \ {u} : [f EXCEPT ![u].state = "STOPPED"][t] = f[t]
         /\ [f EXCEPT ![u].state = "STOPPED"][u] = [f[u] EXCEPT !.state = "STOPPED"]
<1>1. PICK i \in Info : i = f[u]
  OBVIOUS
<1>2. PICK j \in Info : j = [i EXCEPT !.state = "STOPPED"]
  BY DEF Info
<1>3. [f EXCEPT ![u].state = "STOPPED"] = [f EXCEPT ![u] = j]
  BY <1>1, <1>2
<1> QED
  BY <1>1, <1>2, <1>3

LEMMA SetReported ==
  ASSUME NEW f \in [Thread -> Info], NEW u \in Thread
  PROVE  /\ [f EXCEPT ![u].pending_status = None] \in [Thread -> Info]
         /\ \A t \in Thread \ {u} : [f EXCEPT ![u].pending_status = None][t] = f[t]
         /\ [f EXCEPT ![u].pending_status = None][u] = [f[u] EXCEPT !.pending_status = None]
<1>1. PICK i \in Info : i = f[u]
  OBVIOUS
<1>2. PICK j \in Info : j = [i EXCEPT !.pending_status = None]
  BY DEF Info
<1>3. [f EXCEPT ![u].pending_status = None] = [f EXCEPT ![u] = j]
  BY <1>1, <1>2
<1> QED
  BY <1>1, <1>2, <1>3

LEMMA SetCollected ==
  ASSUME NEW f \in [Thread -> Info], NEW u \in Thread
  PROVE  /\ [f EXCEPT ![u].waiting_sigstop = FALSE] \in [Thread -> Info]
         /\ \A t \in Thread \ {u} : [f EXCEPT ![u].waiting_sigstop = FALSE][t] = f[t]
         /\ [f EXCEPT ![u].waiting_sigstop = FALSE][u]
              = [f[u] EXCEPT !.waiting_sigstop = FALSE]
<1>1. PICK i \in Info : i = f[u]
  OBVIOUS
<1>2. PICK j \in Info : j = [i EXCEPT !.waiting_sigstop = FALSE]
  BY DEF Info
<1>3. [f EXCEPT ![u].waiting_sigstop = FALSE] = [f EXCEPT ![u] = j]
  BY <1>1, <1>2
<1> QED
  BY <1>1, <1>2, <1>3

\* dbg_thaw_threads changes the state and suspend_count only.
LEMMA ThawFields ==
  ASSUME NEW f \in [Thread -> Info], NEW who, NEW may \in BOOLEAN
  PROVE  /\ Thaw(f, who, may) \in [Thread -> Info]
         /\ Continued(f, who, may) \subseteq who
         /\ \A t \in Thread :
              /\ Thaw(f, who, may)[t].user_suspend = f[t].user_suspend
              /\ Thaw(f, who, may)[t].waiting_sigstop = f[t].waiting_sigstop
              /\ Thaw(f, who, may)[t].pending_status = f[t].pending_status
              /\ Thaw(f, who, may)[t].state =
                   IF t \in Continued(f, who, may) THEN "RUNNING" ELSE f[t].state
              /\ Thaw(f, who, may)[t].suspend_count =
                   IF t \notin who \/ is_running(f[t]) \/ f[t].suspend_count = 0
                   THEN f[t].suspend_count ELSE f[t].suspend_count - 1
<1> DEFINE g == Thaw(f, who, may)
           C == Continued(f, who, may)
<1>1. C \subseteq who /\ \A t \in C : ~is_running(f[t])
  BY DEF Continued, Thawed
<1>2. ASSUME NEW t \in Thread
      PROVE  /\ g[t] \in Info
             /\ g[t].user_suspend = f[t].user_suspend
             /\ g[t].waiting_sigstop = f[t].waiting_sigstop
             /\ g[t].pending_status = f[t].pending_status
             /\ g[t].state = IF t \in C THEN "RUNNING" ELSE f[t].state
             /\ g[t].suspend_count =
                  IF t \notin who \/ is_running(f[t]) \/ f[t].suspend_count = 0
                  THEN f[t].suspend_count ELSE f[t].suspend_count - 1
  <2> HIDE DEF C
  <2>1. f[t] \in Info
    OBVIOUS
  <2>2. CASE t \notin who \/ is_running(f[t])
    <3>1. g[t] = f[t]
      BY <2>2 DEF Thaw
    <3> QED
      BY <1>1, <2>1, <2>2, <3>1
  <2>3. CASE ~(t \notin who \/ is_running(f[t]))
    <3>1. g[t] = [f[t] EXCEPT !.suspend_count = IF @ = 0 THEN 0 ELSE @ - 1,
                              !.state = IF t \in C THEN "RUNNING" ELSE @]
      BY <2>3 DEF Thaw, C
    <3>2. PICK i \in Info, n \in Nat, st \in {"RUNNING", "STOPPED"} :
            /\ i = f[t]
            /\ n = (IF i.suspend_count = 0 THEN 0 ELSE i.suspend_count - 1)
            /\ st = (IF t \in C THEN "RUNNING" ELSE i.state)
      BY <2>1, InfoFields
    <3>3. g[t] = [i EXCEPT !.suspend_count = n, !.state = st]
      BY <3>1, <3>2
    <3>6. g[t] \in Info
      BY <3>3 DEF Info
    <3>4. /\ g[t].user_suspend = f[t].user_suspend
          /\ g[t].waiting_sigstop = f[t].waiting_sigstop
          /\ g[t].pending_status = f[t].pending_status
      BY <2>1, <3>1 DEF Info
    <3>5. /\ g[t].state = IF t \in C THEN "RUNNING" ELSE f[t].state
          /\ g[t].suspend_count = IF f[t].suspend_count = 0 THEN 0
                                  ELSE f[t].suspend_count - 1
      BY <2>1, <3>1 DEF Info
    <3> QED
      BY <2>3, <3>6, <3>4, <3>5
  <2> QED
    BY <2>2, <2>3
<1>3. g \in [Thread -> Info]
  BY <1>2 DEF Thaw
<1> QED
  BY <1>1, <1>2, <1>3

\* dbg_freeze_threads counts a suspension of each thread, and tells those that
\* run to stop; the ones it finds dead are put aside.
LEMMA FreezeFields ==
  ASSUME NEW f \in [Thread -> Info], NEW what,
         threads \subseteq Thread, sigstop \in [Thread -> BOOLEAN],
         Freeze(f, what)
  PROVE  /\ job' = what
         /\ info' \in [Thread -> Info] /\ sigstop' \in [Thread -> BOOLEAN]
         /\ queue' \subseteq threads /\ deadtids' \subseteq threads
         /\ \A t \in Thread :
              /\ info'[t].state = f[t].state
              /\ info'[t].user_suspend = f[t].user_suspend
              /\ info'[t].pending_status = f[t].pending_status
              /\ info'[t].child_signum = f[t].child_signum
         /\ \A t \in deadtids' :
              /\ exec[t] = "gone" /\ is_running(f[t])
              /\ info'[t] = f[t] /\ (sigstop'[t] <=> sigstop[t])
         /\ \A t \in threads \ deadtids' :
              /\ info'[t].suspend_count = f[t].suspend_count + 1
              /\ (info'[t].waiting_sigstop <=> f[t].waiting_sigstop \/ is_running(f[t]))
              /\ (sigstop'[t] <=> sigstop[t] \/ (is_running(f[t]) /\ exec[t] # "gone"))
<1> DEFINE running == {t \in threads : is_running(f[t])}
           dead == {t \in running : exec[t] = "gone"}
<1>1. PICK reaped \in {{}} \cup {{t} : t \in dead} :
        /\ job' = what
        /\ queue' = running \ reaped
        /\ deadtids' = reaped
        /\ sigstop' = [t \in Thread |-> sigstop[t] \/ t \in running \ dead]
        /\ info' = [t \in Thread |->
             IF t \in threads \ reaped
             THEN [f[t] EXCEPT !.suspend_count = @ + 1,
                               !.waiting_sigstop = @ \/ t \in running]
             ELSE f[t]]
  BY DEF Freeze
<1>2. reaped \subseteq dead
  <2> HIDE DEF dead
  <2> QED
    OBVIOUS
<1>3. ASSUME NEW t \in Thread
      PROVE  /\ info'[t] \in Info
             /\ info'[t].state = f[t].state
             /\ info'[t].user_suspend = f[t].user_suspend
             /\ info'[t].pending_status = f[t].pending_status
             /\ info'[t].child_signum = f[t].child_signum
             /\ t \in reaped => info'[t] = f[t]
             /\ t \in threads \ reaped =>
                  /\ info'[t].suspend_count = f[t].suspend_count + 1
                  /\ (info'[t].waiting_sigstop <=> f[t].waiting_sigstop \/ t \in running)
  <2>1. f[t] \in Info
    OBVIOUS
  <2>2. CASE t \in threads \ reaped
    <3>1. info'[t] = [f[t] EXCEPT !.suspend_count = @ + 1,
                                  !.waiting_sigstop = @ \/ t \in running]
      BY <1>1, <2>2
    <3> HIDE DEF running
    <3>2. PICK i \in Info, n \in Nat : i = f[t] /\ n = i.suspend_count + 1
      BY <2>1, InfoFields
    <3>3. info'[t] = [i EXCEPT !.suspend_count = n,
                               !.waiting_sigstop = @ \/ t \in running]
      BY <3>1, <3>2
    <3>6. info'[t] \in Info
      BY <3>3 DEF Info
    <3>4. /\ info'[t].state = f[t].state
          /\ info'[t].user_suspend = f[t].user_suspend
          /\ info'[t].pending_status = f[t].pending_status
          /\ info'[t].child_signum = f[t].child_signum
      BY <2>1, <3>1 DEF Info
    <3>5. /\ info'[t].suspend_count = f[t].suspend_count + 1
          /\ info'[t].waiting_sigstop <=> (f[t].waiting_sigstop \/ t \in running)
      BY <2>1, <3>1 DEF Info
    <3> QED
      BY <2>2, <3>6, <3>4, <3>5
  <2>3. CASE t \notin threads \ reaped
    <3>1. info'[t] = f[t]
      BY <1>1, <2>3
    <3> QED
      BY <2>1, <2>3, <3>1
  <2> QED
    BY <2>2, <2>3
<1>4. info' \in [Thread -> Info]
  BY <1>1, <1>3
<1>5. sigstop' \in [Thread -> BOOLEAN]
      /\ \A t \in Thread : sigstop'[t] <=> sigstop[t] \/ t \in running \ dead
  BY <1>1
<1>6. deadtids' = reaped /\ queue' \subseteq threads /\ job' = what
  BY <1>1
<1>7. reaped \subseteq threads /\ \A t \in reaped : exec[t] = "gone" /\ is_running(f[t])
  BY <1>2
<1>8. ASSUME NEW t \in reaped PROVE sigstop'[t] <=> sigstop[t]
  BY <1>2, <1>5, <1>8
<1> QED
  BY <1>3, <1>4, <1>5, <1>6, <1>7, <1>8

\* More freezes only weaken what is said of a thread.
LEMMA MoreFreezes ==
  ASSUME NEW st, NEW f, NEW j, NEW n \in Nat, NEW m \in Nat, n <= m, NEW t,
         f[t] \in Info, ThreadInv(st, f, j, n, t)
  PROVE  ThreadInv(st, f, j, m, t)
BY InfoFields DEF ThreadInv, Suspensions

\* A freeze keeps what is known of each thread, and none counts as running.
LEMMA FreezeThread ==
  ASSUME NEW f \in [Thread -> Info], NEW what, NEW n \in Nat,
         TypeOK, Freeze(f, what), UNCHANGED exec,
         NEW t \in threads, ThreadInv(status', f, what, n, t), Freezes' = n + 1
  PROVE  /\ ThreadInv(status, info, job, Freezes, t)'
         /\ t \notin deadtids' => ~is_running(info'[t])
<1>0. /\ threads \subseteq Thread /\ sigstop \in [Thread -> BOOLEAN]
      /\ t \in Thread
  BY DEF TypeOK
<1>1. f[t] \in Info /\ f[t].suspend_count \in Nat /\ f[t].user_suspend \in Nat
  BY <1>0, InfoFields
<1>2. /\ job' = what
      /\ info'[t].state = f[t].state
      /\ info'[t].user_suspend = f[t].user_suspend
      /\ info'[t].pending_status = f[t].pending_status
      /\ t \in deadtids' =>
           /\ exec[t] = "gone"
           /\ info'[t] = f[t]
      /\ t \notin deadtids' =>
           /\ info'[t].suspend_count = f[t].suspend_count + 1
           /\ (info'[t].waiting_sigstop <=> f[t].waiting_sigstop \/ is_running(f[t]))
           /\ (sigstop'[t] <=> sigstop[t] \/ (is_running(f[t]) /\ exec[t] # "gone"))
  BY <1>0, FreezeFields
<1>3. Places(status, info, job, t)'
  BY <1>2 DEF ThreadInv, Places, got_pending_status
<1>4. CASE t \in deadtids'
  BY <1>1, <1>2, <1>3, <1>4 DEF ThreadInv, Sigstops, Suspensions
<1>5. CASE t \notin deadtids'
  <2>1. ~is_running(info'[t])
    BY <1>2, <1>5 DEF is_running, got_pending_status
  <2>2. Suspensions(info, Freezes, t)'
    BY <1>1, <1>2, <1>5, <2>1 DEF ThreadInv, Suspensions
  <2>3. Sigstops(status, info, job, t)'
    BY <1>2, <1>5 DEF ThreadInv, Sigstops, Handled, is_running
  <2> QED
    BY <1>3, <2>1, <2>2, <2>3 DEF ThreadInv
<1> QED
  BY <1>4, <1>5

\* Thawing a thread keeps what is known of it, with one freeze less.
LEMMA ThawThread ==
  ASSUME NEW f \in [Thread -> Info], NEW who, NEW may \in BOOLEAN, NEW n \in Nat,
         TypeOK, NEW t \in who, t \in Thread, ~is_running(f[t]),
         info' = Thaw(f, who, may), Cont(Continued(f, who, may)),
         ThreadInv(status, f, NoJob, n + 1, t), job' = NoJob, Freezes' = n
  PROVE  ThreadInv(status, info, job, Freezes, t)'
<1> DEFINE C == Continued(f, who, may)
<1>0. sigstop \in [Thread -> BOOLEAN] /\ exec \in [Thread -> {"run", "stop", "gone"}]
  BY DEF TypeOK
<1>1. f[t] \in Info /\ f[t].suspend_count \in Nat /\ f[t].user_suspend \in Nat
  BY InfoFields
<1>2. /\ info'[t].user_suspend = f[t].user_suspend
      /\ info'[t].waiting_sigstop = f[t].waiting_sigstop
      /\ info'[t].pending_status = f[t].pending_status
      /\ info'[t].state = IF t \in C THEN "RUNNING" ELSE f[t].state
      /\ info'[t].suspend_count =
           IF f[t].suspend_count = 0 THEN 0 ELSE f[t].suspend_count - 1
  BY ThawFields
<1>3. t \in C => /\ f[t].suspend_count < 2 /\ f[t].user_suspend = 0
                 /\ ~got_pending_status(f[t]) /\ f[t].state = "STOPPED"
  BY DEF Continued, Thawed
<1> HIDE DEF C
<1>4. /\ exec'[t] = IF t \in C /\ ~sigstop[t] THEN "run" ELSE exec[t]
      /\ status'[t] = IF t \in C /\ sigstop[t] THEN "stop" ELSE status[t]
      /\ sigstop'[t] <=> sigstop[t] /\ t \notin C
  BY DEF Cont, C
<1>5. NoJob # Job("event", t, "exit") /\ NoJob # Job("event", t, "stop")
  BY DEF NoJob, Job, None
<1>6. t \in C => exec[t] = "stop" /\ status[t] = None
  BY <1>0, <1>3, <1>5 DEF ThreadInv, Places, got_pending_status
<1>7. Places(status, info, job, t)'
  BY <1>2, <1>3, <1>4, <1>6 DEF ThreadInv, Places, got_pending_status, None
<1>8. Sigstops(status, info, job, t)'
  BY <1>2, <1>3, <1>4, <1>5, <1>6 DEF ThreadInv, Sigstops, Handled, None
<1>9. Suspensions(info, Freezes, t)'
  <2>1. CASE t \in C
    BY <2>1, <1>1, <1>2, <1>3 DEF ThreadInv, Suspensions
  <2>2. CASE t \notin C
    <3>1. ~is_running(info'[t])
      BY <2>2, <1>2 DEF is_running, got_pending_status
    <3> QED
      BY <2>2, <3>1, <1>1, <1>2 DEF ThreadInv, Suspensions
  <2> QED
    BY <2>1, <2>2
<1> QED
  BY <1>7, <1>8, <1>9 DEF ThreadInv

-----------------------------------------------------------------------------
(* The count of kept statuses *)

LEMMA ThreadsFinite ==
  ASSUME NEW T, T \subseteq Thread, NEW f
  PROVE  /\ IsFiniteSet({t \in T : got_pending_status(f[t])})
         /\ Cardinality({t \in T : got_pending_status(f[t])}) \in Nat
<1>1. {t \in T : got_pending_status(f[t])} \subseteq Thread
  OBVIOUS
<1> QED
  BY <1>1, ThreadAssumption, FS_Subset, FS_CardinalityType

\* Steps that neither keep a status, nor take one, nor remove a thread
LEMMA SamePending ==
  ASSUME PendingCounted, npending' = npending, threads' = threads,
         \A t \in threads : info'[t].pending_status = info[t].pending_status
  PROVE  PendingCounted'
<1>1. {t \in threads' : got_pending_status(info'[t])}
        = {t \in threads : got_pending_status(info[t])}
  BY DEF got_pending_status
<1> QED
  BY <1>1 DEF PendingCounted

\* del_thread corrects the count for the threads that are removed.
LEMMA DeletedPending ==
  ASSUME TypeOK, PendingCounted, threads' \subseteq threads, del_thread,
         \A t \in threads' : info'[t].pending_status = info[t].pending_status
  PROVE  PendingCounted' /\ npending' \in Nat
<1> DEFINE P == {t \in threads : got_pending_status(info[t])}
           Q == {t \in threads \ threads' : got_pending_status(info[t])}
           R == {t \in threads' : got_pending_status(info'[t])}
<1>1. threads \subseteq Thread
  BY DEF TypeOK
<1>2. IsFiniteSet(P) /\ Cardinality(P) \in Nat
  BY <1>1, ThreadsFinite
<1>3. Q \subseteq P /\ R = P \ Q
  BY DEF got_pending_status
<1>4. /\ IsFiniteSet(Q) /\ Cardinality(Q) \in Nat
      /\ Cardinality(P \ Q) = Cardinality(P) - Cardinality(Q)
      /\ Cardinality(P \ Q) \in Nat
  <2>1. IsFiniteSet(Q) /\ P \cap Q = Q
    BY <1>2, <1>3, FS_Subset
  <2> HIDE DEF P, Q
  <2> QED
    BY <2>1, <1>2, FS_Difference, FS_CardinalityType
<1>5. npending' = Cardinality(P) - Cardinality(Q)
  BY DEF PendingCounted, del_thread
<1>6. npending' = Cardinality(R)
  <2> HIDE DEF P, Q, R
  <2> QED
    BY <1>3, <1>4, <1>5
<1> QED
  BY <1>4, <1>5, <1>6 DEF PendingCounted

-----------------------------------------------------------------------------
(***************************************************************************)
(* Each step keeps the invariant                                           *)
(***************************************************************************)
LEMMA InitInvariant == Init => IInv
<1> SUFFICES ASSUME Init PROVE IInv
  OBVIOUS
<1>1. TypeOK
  <2>1. Event("PROCESS_START", Main) \in Events /\ Main \in Thread
    BY ThreadAssumption DEF Events, Event, Eids
  <2>2. events \in Seq(Events)
    BY <2>1 DEF Init
  <2>3. info \in [Thread -> Info]
    BY DEF Init, Info
  <2> QED
    BY <2>1, <2>2, <2>3 DEF Init, TypeOK
<1>2. \A t \in Thread :
        /\ exec[t] = "stop" /\ ~sigstop[t] /\ status[t] = None
        /\ info[t].state = "STOPPED" /\ info[t].suspend_count = 0
        /\ info[t].user_suspend = 0 /\ ~info[t].waiting_sigstop
        /\ info[t].pending_status = None
  BY DEF Init
<1>3. PendingCounted
  <2>1. {t \in threads : got_pending_status(info[t])} = {}
    BY <1>2 DEF Init, got_pending_status
  <2> QED
    BY <2>1, FS_EmptySet DEF PendingCounted, Init
<1>4. Idle /\ ~in_event
  BY DEF Init, Idle, in_event
<1>5. ASSUME NEW t \in threads PROVE ThreadInv(status, info, job, Freezes, t)
  <2>1. t \in Thread
    BY <1>1 DEF TypeOK
  <2>2. Freezes = 0
    BY <1>4 DEF Freezes
  <2>3. ~is_running(info[t]) /\ ~got_pending_status(info[t])
    BY <2>1, <1>2 DEF is_running, got_pending_status
  <2>4. ~Handled(job, t)
    BY DEF Init, Handled, NoJob, Job, None
  <2> QED
    BY <1>2, <2>1, <2>2, <2>3, <2>4
    DEF ThreadInv, Places, Sigstops, Suspensions, None
<1>6. Freezing
  BY DEF Init, Freezing, NoJob, Job, None
<1>7. Frozenness
  BY <1>2 DEF Init, Frozenness, is_running
<1>8. Resumption
  BY DEF Init, Resumption
<1> QED
  BY <1>1, <1>3, <1>5, <1>6, <1>7, <1>8 DEF IInv

LEMMA StopsKeeps ==
  ASSUME IInv, NEW u \in Thread, Stops(u)
  PROVE  IInv'
<1> USE DEF IInv
<1>0. /\ exec[u] = "run" /\ sigstop[u]
      /\ exec' = [exec EXCEPT ![u] = "stop"]
      /\ status' = [status EXCEPT ![u] = "stop"]
      /\ sigstop' = [sigstop EXCEPT ![u] = FALSE]
      /\ UNCHANGED <<code, threads, info, npending, events, current, last_tid,
                     requested, may_run, bpts, removed, freezer, counts>>
  BY DEF Stops, Reports
<1>1. TypeOK'
  BY <1>0 DEF TypeOK, Statuses, freezer, counts
<1>2. PendingCounted'
  BY <1>0, SamePending
<1>3. Freezes' = Freezes
  BY <1>0 DEF Freezes, Idle, in_event, freezer
<1>4. ASSUME NEW t \in threads PROVE ThreadInv(status, info, job, Freezes, t)'
  <2>1. t \in Thread /\ ThreadInv(status, info, job, Freezes, t)
    BY DEF TypeOK
  <2>2. Suspensions(info, Freezes, t)'
    BY <1>0, <1>3, <2>1 DEF ThreadInv, Suspensions
  <2>3. CASE t # u
    <3>1. exec'[t] = exec[t] /\ status'[t] = status[t] /\ sigstop'[t] = sigstop[t]
      BY <1>0, <2>1, <2>3 DEF TypeOK
    <3> QED
      BY <1>0, <2>1, <2>2, <3>1 DEF ThreadInv, Places, Sigstops, freezer
  <2>4. CASE t = u
    <3>1. exec'[t] = "stop" /\ status'[t] = "stop" /\ ~sigstop'[t]
      BY <1>0, <2>1, <2>4 DEF TypeOK
    <3>2. job # Job("event", t, "stop")
      BY <1>0, <2>4, <2>1 DEF Freezing, ThreadInv, Places, Job
    <3> QED
      BY <1>0, <2>1, <2>2, <2>4, <3>1, <3>2
      DEF ThreadInv, Places, Sigstops, Handled, freezer, None
  <2> QED
    BY <2>3, <2>4
<1>5. Freezing' /\ Frozenness' /\ Resumption'
  <2>1. \A t \in deadtids : exec'[t] = "gone"
    BY <1>0 DEF Freezing, TypeOK
  <2> QED
    BY <1>0, <2>1 DEF Freezing, Frozenness, Resumption, Idle, in_event, freezer
<1> QED
  BY <1>0, <1>1, <1>2, <1>4, <1>5

LEMMA HappensKeeps ==
  ASSUME IInv, NEW u \in Thread, NEW st \in Statuses, Happens(u, st)
  PROVE  IInv'
<1> USE DEF IInv
<1>0. /\ exec[u] = "run" /\ st # "stop"
      /\ exec' = [exec EXCEPT ![u] = IF st = "exit" THEN "gone" ELSE "stop"]
      /\ status' = [status EXCEPT ![u] = st]
      /\ happenings' = happenings + 1
      /\ UNCHANGED <<sigstop, code, threads, info, npending, events, current,
                     last_tid, requested, may_run, bpts, removed, freezer, requests>>
  BY AddrAssumption DEF Happens, Reports, TypeOK, Signals
<1>1. TypeOK'
  BY <1>0 DEF TypeOK, freezer
<1>2. PendingCounted'
  BY <1>0, SamePending
<1>3. Freezes' = Freezes
  BY <1>0 DEF Freezes, Idle, in_event, freezer
<1>4. ASSUME NEW t \in threads PROVE ThreadInv(status, info, job, Freezes, t)'
  <2>1. t \in Thread /\ ThreadInv(status, info, job, Freezes, t)
    BY DEF TypeOK
  <2>2. Suspensions(info, Freezes, t)'
    BY <1>0, <1>3, <2>1 DEF ThreadInv, Suspensions
  <2>3. CASE t # u
    <3>1. exec'[t] = exec[t] /\ status'[t] = status[t] /\ sigstop'[t] = sigstop[t]
      BY <1>0, <2>1, <2>3 DEF TypeOK
    <3> QED
      BY <1>0, <2>1, <2>2, <3>1 DEF ThreadInv, Places, Sigstops, freezer
  <2>4. CASE t = u
    <3>1. /\ exec'[t] = IF st = "exit" THEN "gone" ELSE "stop"
          /\ status'[t] = st /\ sigstop'[t] = sigstop[t]
      BY <1>0, <2>1, <2>4 DEF TypeOK
    <3>2. st # None
      BY AddrAssumption DEF Statuses, Signals, None
    <3>3. status[t] = None /\ ~got_pending_status(info[t]) /\ info[t].state = "RUNNING"
      BY <1>0, <2>1, <2>4 DEF ThreadInv, Places
    <3> QED
      BY <1>0, <2>1, <2>2, <2>4, <3>1, <3>2, <3>3
      DEF ThreadInv, Places, Sigstops, Handled, freezer, None, got_pending_status
  <2> QED
    BY <2>3, <2>4
<1>5. Freezing' /\ Frozenness' /\ Resumption'
  <2>1. \A t \in deadtids : exec'[t] = "gone"
    BY <1>0 DEF Freezing, TypeOK
  <2> QED
    BY <1>0, <2>1 DEF Freezing, Frozenness, Resumption, Idle, in_event, freezer
<1> QED
  BY <1>0, <1>1, <1>2, <1>4, <1>5

LEMMA CollectStatusKeeps ==
  ASSUME IInv, NEW u \in Thread, CollectStatus(u)
  PROVE  IInv'
<1> USE DEF IInv
<1>0. /\ ~Idle /\ status[u] # None
      /\ status' = [status EXCEPT ![u] = None]
      /\ queue' = queue \ {u}
      /\ UNCHANGED <<exec, sigstop, code, threads, events, current, last_tid,
                     requested, may_run, bpts, removed, job, deadtids, counts>>
  BY DEF CollectStatus
<1>a. CASE u \notin threads
  <2>1. UNCHANGED <<info, npending>>
    BY <1>a DEF CollectStatus
  <2>2. TypeOK'
    BY <1>0, <2>1 DEF TypeOK, counts
  <2>3. PendingCounted'
    BY <1>0, <2>1, SamePending
  <2>4. ASSUME NEW t \in threads PROVE ThreadInv(status, info, job, Freezes, t)'
    <3>1. status'[t] = status[t]
      BY <1>0, <1>a DEF TypeOK
    <3> QED
      BY <1>0, <2>1, <3>1
      DEF ThreadInv, Places, Sigstops, Suspensions, Freezes, Idle, in_event
  <2>5. Freezing' /\ Frozenness' /\ Resumption'
    BY <1>0, <2>1 DEF Freezing, Frozenness, Resumption, Idle, in_event
  <2> QED
    BY <1>0, <2>2, <2>3, <2>4, <2>5
<1>b. CASE u \in threads
  <2> DEFINE expected == info[u].waiting_sigstop /\ status[u] = "stop"
  <2>0. /\ ThreadInv(status, info, job, Freezes, u) /\ info[u] \in Info
        /\ status[u] \in Statuses
    BY <1>0, <1>b DEF TypeOK
  <2>1. ~got_pending_status(info[u]) /\ info[u].state = "RUNNING"
    BY <1>0, <2>0 DEF ThreadInv, Places
  <2>2. /\ info' \in [Thread -> Info]
        /\ \A t \in Thread \ {u} : info'[t] = info[t]
        /\ info'[u].user_suspend = info[u].user_suspend
        /\ info'[u].suspend_count = info[u].suspend_count
        /\ info'[u].waiting_sigstop <=> info[u].waiting_sigstop /\ ~expected
        /\ info'[u].state = IF expected THEN "STOPPED" ELSE "RUNNING"
        /\ info'[u].pending_status = IF expected THEN None ELSE status[u]
        /\ npending' = IF expected THEN npending ELSE npending + 1
    <3>1. CASE expected
      <4>1. /\ info' = [info EXCEPT ![u].waiting_sigstop = FALSE, ![u].state = "STOPPED"]
            /\ npending' = npending
        BY <1>b, <3>1 DEF CollectStatus
      <4> QED
        BY <2>0, <2>1, <3>1, <4>1 DEF TypeOK, Info, got_pending_status
    <3>2. CASE ~expected
      <4>1. /\ info' = [info EXCEPT ![u].pending_status = status[u]]
            /\ npending' = npending + 1
        BY <1>b, <3>2 DEF CollectStatus
      <4> QED
        BY <2>0, <2>1, <3>2, <4>1 DEF TypeOK, Info
    <3> QED
      BY <3>1, <3>2
  <2>3. TypeOK'
    <3>1. info' \in [Thread -> Info] /\ npending' \in Nat
      <4> HIDE DEF expected
      <4> QED
        BY <2>2 DEF TypeOK
    <3>2. status' \in [Thread -> Statuses \cup {None}] /\ queue' \subseteq Thread
      BY <1>0 DEF TypeOK
    <3> QED
      BY <1>0, <3>1, <3>2 DEF TypeOK, counts
  <2>4. PendingCounted'
    <3> DEFINE P == {t \in threads : got_pending_status(info[t])}
               R == {t \in threads' : got_pending_status(info'[t])}
    <3>1. R = IF expected THEN P ELSE P \cup {u}
      BY <1>0, <1>b, <2>1, <2>2 DEF TypeOK, got_pending_status
    <3>2. u \notin P
      BY <2>1
    <3>3. IsFiniteSet(P) /\ Cardinality(P) \in Nat
      BY ThreadsFinite DEF TypeOK
    <3>4. npending = Cardinality(P)
      BY DEF PendingCounted
    <3>5. Cardinality(P \cup {u}) = Cardinality(P) + 1
      <4> HIDE DEF P
      <4> QED
        BY <3>2, <3>3, FS_AddElement
    <3> HIDE DEF P, R
    <3>6. npending' = Cardinality(R)
      BY <2>2, <3>1, <3>4, <3>5
    <3> QED
      BY <3>6 DEF R, PendingCounted
  <2>5. ASSUME NEW t \in threads
        PROVE  /\ ThreadInv(status, info, job, Freezes, t)'
               /\ t \notin deadtids => ~is_running(info'[t])
    <3>1. /\ ThreadInv(status, info, job, Freezes, t) /\ Freezes' = Freezes
          /\ t \notin deadtids => ~is_running(info[t])
      BY <1>0 DEF Frozenness, Freezes, Idle, in_event
    <3>2. CASE t # u
      <4>1. status'[t] = status[t] /\ info'[t] = info[t]
        BY <1>0, <2>2, <3>2 DEF TypeOK
      <4> QED
        BY <1>0, <3>1, <4>1 DEF ThreadInv, Places, Sigstops, Suspensions
    <3>3. CASE t = u
      <4>1. status'[u] = None
        BY <1>0 DEF TypeOK
      <4>2. ~is_running(info'[u])
        BY <1>0, <2>2 DEF is_running, got_pending_status
      <4>3. Suspensions(info, Freezes, t)'
        BY <2>2, <3>1, <3>3, <4>2 DEF ThreadInv, Suspensions
      <4>4. exec[u] # "run" /\ (exec[u] = "gone" => status[u] = "exit")
        BY <1>0, <2>0 DEF ThreadInv, Places
      <4>5. Places(status, info, job, t)'
        BY <1>0, <2>1, <2>2, <3>1, <3>3, <4>1, <4>4
        DEF ThreadInv, Places, got_pending_status
      <4>6. job # Job("event", u, "stop")
        BY <2>1 DEF Freezing, Job
      <4>7. Sigstops(status, info, job, t)'
        BY <1>0, <2>2, <3>1, <3>3, <4>1, <4>4, <4>6
        DEF ThreadInv, Sigstops, Handled, None
      <4> QED
        BY <3>3, <4>2, <4>3, <4>5, <4>7 DEF ThreadInv
    <3> QED
      BY <3>2, <3>3
  <2>6. Freezing'
    <3>1. job.op = "event" => job.tid # u
      BY <2>1 DEF Freezing
    <3> QED
      BY <1>0, <2>2, <3>1 DEF Freezing, Idle, in_event, TypeOK
  <2>7. Frozenness'
    BY <1>0, <2>5 DEF Frozenness, in_event, Idle
  <2>8. Resumption'
    <3>1. ASSUME NEW t \in threads, got_pending_status(info[t]), info[t].user_suspend = 0
          PROVE  got_pending_status(info'[t]) /\ info'[t].user_suspend = 0
      BY <3>1, <2>1, <2>2 DEF TypeOK
    <3> QED
      BY <1>0, <3>1 DEF Resumption, Idle, in_event
  <2> QED
    BY <1>0, <2>3, <2>4, <2>5, <2>6, <2>7, <2>8
<1> QED
  BY <1>a, <1>b

\* IDA gets the first event of a queue.
LEMMA GiveEventFields ==
  ASSUME NEW q \in Seq(Events), q # <<>>, GiveEvent(q)
  PROVE  /\ current' \in Events /\ current' # NoEvent
         /\ events' \in Seq(Events) /\ requested' = FALSE
<1>1. Head(q) \in Events /\ Tail(q) \in Seq(Events)
  OBVIOUS
<1>2. NoEvent \notin Events
  BY DEF NoEvent, Event, Events, Eids, None
<1> QED
  BY <1>1, <1>2 DEF GiveEvent

LEMMA GiveQueuedKeeps ==
  ASSUME IInv, GiveQueued
  PROVE  IInv'
<1> USE DEF IInv
<1>0. /\ Idle /\ ~in_event /\ events # <<>>
      /\ UNCHANGED <<kernel, code, threads, info, npending, last_tid, may_run, bpts,
                     removed, freezer, counts>>
      /\ current' \in Events /\ current' # NoEvent
      /\ events' \in Seq(Events) /\ requested' = FALSE
  BY GiveEventFields DEF GiveQueued, TypeOK
<1>1. TypeOK'
  BY <1>0 DEF TypeOK, kernel, freezer, counts
<1>2. PendingCounted'
  BY <1>0, SamePending
<1>3. Freezes = 0 /\ Freezes' = 1 /\ in_event' /\ Idle'
  BY <1>0 DEF Freezes, Idle, in_event, freezer
<1>4. ASSUME NEW t \in threads PROVE ThreadInv(status, info, job, Freezes, t)'
  <2>1. ThreadInv(status, info, job, 1, t)
    BY <1>3, MoreFreezes DEF TypeOK
  <2> QED
    BY <1>0, <1>3, <2>1
    DEF ThreadInv, Places, Sigstops, Suspensions, kernel, freezer
<1>5. Freezing' /\ Frozenness' /\ Resumption'
  <2>1. job.op # "event"
    BY <1>0 DEF Idle, NoJob, Job, None
  <2>2. Freezing' /\ Frozenness'
    BY <1>0, <2>1 DEF Freezing, Frozenness, Idle, kernel, freezer
  <2>3. Resumption'
    BY <1>0, <1>3 DEF Resumption, Frozenness
  <2> QED
    BY <2>2, <2>3
<1> QED
  BY <1>0, <1>1, <1>2, <1>4, <1>5

\* The threads are frozen, after the infos were edited to g, for one job.
LEMMA FreezeKeeps ==
  ASSUME IInv, Idle, NEW g \in [Thread -> Info], NEW what \in Jobs, Freeze(g, what),
         UNCHANGED <<exec, code, threads, events, current, last_tid, requested,
                     may_run, bpts, removed>>,
         status' \in [Thread -> Statuses \cup {None}],
         happenings' \in Nat, requests' \in Nat,
         npending' \in Nat,
         npending' = Cardinality({t \in threads : got_pending_status(g[t])}),
         \A t \in threads : ThreadInv(status', g, what, Freezes, t),
         \/ /\ what.op = "event" /\ ~in_event /\ events = <<>>
            /\ what.tid \in threads /\ g[what.tid].state = "STOPPED"
         \/ what.op # "event" /\ g = info
  PROVE  IInv'
<1> USE DEF IInv
<1>0. /\ threads \subseteq Thread /\ sigstop \in [Thread -> BOOLEAN]
      /\ job.op # "event"
  BY DEF TypeOK, Idle, NoJob, Job, None
<1>1. ~Idle' /\ Freezes' = Freezes + 1 /\ Freezes \in Nat
  <2>1. what # NoJob
    BY DEF Jobs, NoJob, Job, None
  <2>2. job' = what
    BY DEF Freeze
  <2> QED
    BY <2>1, <2>2 DEF Idle, Freezes, in_event
<1>2. /\ job' = what
      /\ info' \in [Thread -> Info] /\ sigstop' \in [Thread -> BOOLEAN]
      /\ queue' \subseteq threads /\ deadtids' \subseteq threads
      /\ \A t \in Thread :
           /\ info'[t].state = g[t].state
           /\ info'[t].user_suspend = g[t].user_suspend
           /\ info'[t].pending_status = g[t].pending_status
      /\ \A t \in deadtids' : exec[t] = "gone" /\ is_running(g[t])
  BY <1>0, FreezeFields
<1>3. TypeOK'
  BY <1>0, <1>2 DEF TypeOK
<1>4. PendingCounted'
  <2>1. {t \in threads' : got_pending_status(info'[t])}
          = {t \in threads : got_pending_status(g[t])}
    BY <1>0, <1>2 DEF got_pending_status
  <2> QED
    BY <2>1 DEF PendingCounted
<1>5. \A t \in threads :
        /\ ThreadInv(status, info, job, Freezes, t)'
        /\ t \notin deadtids' => ~is_running(info'[t])
  BY <1>1, FreezeThread
<1>6. Freezing'
  <2>1. what.op = "event" => what.tid \notin deadtids'
    BY <1>0, <1>2 DEF is_running
  <2> QED
    BY <1>0, <1>1, <1>2, <2>1 DEF Freezing, in_event
<1>7. Frozenness'
  BY <1>5 DEF Frozenness, in_event
<1>8. Resumption'
  <2>1. SUFFICES ASSUME what.op # "event", g = info, ~in_event, events = <<>>,
                        ~requested, ~may_run
                 PROVE  \E t \in threads \ deadtids' :
                          got_pending_status(info'[t]) /\ info'[t].user_suspend = 0
    BY <1>1, <1>2 DEF Resumption, in_event
  <2>2. PICK t \in threads : got_pending_status(info[t]) /\ info[t].user_suspend = 0
    BY <1>0, <2>1 DEF Resumption
  <2>3. t \notin deadtids'
    BY <1>2, <2>1, <2>2 DEF is_running
  <2> QED
    BY <1>0, <1>2, <2>1, <2>2, <2>3 DEF got_pending_status
<1> QED
  BY <1>3, <1>4, <1>5, <1>6, <1>7, <1>8

LEMMA NewStatusKeeps ==
  ASSUME IInv, NEW u \in Thread, NewStatus(u)
  PROVE  IInv'
<1> USE DEF IInv
<1>0. /\ Idle /\ ~in_event /\ events = <<>> /\ status[u] # None
      /\ status' = [status EXCEPT ![u] = None]
      /\ UNCHANGED <<exec, code, threads, npending, events, current, last_tid,
                     requested, may_run, bpts, removed, counts>>
  BY DEF NewStatus, Polls
<1>1. Freezes = 0 /\ job = NoJob
  BY <1>0 DEF Freezes, Idle
<1>2. /\ status' \in [Thread -> Statuses \cup {None}]
      /\ status'[u] = None /\ \A t \in Thread \ {u} : status'[t] = status[t]
      /\ status[u] \in Statuses
  BY <1>0 DEF TypeOK
<1>a. CASE u \notin threads
  <2>1. UNCHANGED <<freezer, sigstop, info>>
    BY <1>a DEF NewStatus
  <2>2. TypeOK'
    BY <1>0, <1>2, <2>1 DEF TypeOK, counts, freezer
  <2>3. PendingCounted'
    BY <1>0, <2>1, SamePending
  <2>4. ASSUME NEW t \in threads PROVE ThreadInv(status, info, job, Freezes, t)'
    <3>1. status'[t] = status[t]
      BY <1>2, <1>a DEF TypeOK
    <3> QED
      BY <1>0, <2>1, <3>1
      DEF ThreadInv, Places, Sigstops, Suspensions, Freezes, Idle, in_event, freezer
  <2>5. Freezing' /\ Frozenness' /\ Resumption'
    BY <1>0, <2>1 DEF Freezing, Frozenness, Resumption, Idle, in_event, freezer
  <2> QED
    BY <1>0, <2>2, <2>3, <2>4, <2>5
<1>b. CASE u \in threads
  <2> DEFINE g == [info EXCEPT ![u].state = "STOPPED"]
             what == Job("event", u, status[u])
  <2>1. Freeze(g, what)
    BY <1>b DEF NewStatus, StartEvent
  <2>2. what \in Jobs /\ what.op = "event" /\ what.tid = u /\ what.arg = status[u]
    BY <1>2 DEF Jobs, Job
  <2>3. /\ g \in [Thread -> Info]
        /\ \A t \in Thread \ {u} : g[t] = info[t]
        /\ g[u] = [info[u] EXCEPT !.state = "STOPPED"]
        /\ info[u] \in Info
    BY <1>0, SetStopped DEF TypeOK
  <2>4. /\ g[u].state = "STOPPED" /\ g[u].pending_status = info[u].pending_status
        /\ g[u].user_suspend = info[u].user_suspend
        /\ g[u].suspend_count = info[u].suspend_count
        /\ g[u].waiting_sigstop = info[u].waiting_sigstop
    BY <2>3 DEF Info
  <2> HIDE DEF g, what
  <2>5. npending = Cardinality({t \in threads : got_pending_status(g[t])})
    <3>1. {t \in threads : got_pending_status(g[t])}
            = {t \in threads : got_pending_status(info[t])}
      BY <2>3, <2>4 DEF got_pending_status, TypeOK
    <3> QED
      BY <3>1 DEF PendingCounted
  <2>6. ASSUME NEW t \in threads PROVE ThreadInv(status', g, what, Freezes, t)
    <3>1. ThreadInv(status, info, NoJob, 0, t) /\ t \in Thread
      BY <1>1 DEF TypeOK
    <3>2. NoJob # Job("event", t, "stop")
      BY DEF NoJob, Job, None
    <3>3. CASE t # u
      <4>1. what # Job("event", t, "stop")
        BY <2>2, <3>3 DEF Job
      <4>2. Places(status', g, what, t) /\ Suspensions(g, Freezes, t)
        BY <1>1, <1>2, <2>3, <3>1, <3>3
        DEF ThreadInv, Places, Suspensions, NoJob, Job, None
      <4>3. Sigstops(status', g, what, t)
        BY <1>2, <2>3, <3>1, <3>2, <3>3, <4>1 DEF ThreadInv, Sigstops, Handled
      <4> QED
        BY <4>2, <4>3 DEF ThreadInv
    <3>4. CASE t = u
      <4>1. /\ exec[u] # "run" /\ ~got_pending_status(info[u])
            /\ exec[u] = "gone" => what = Job("event", u, "exit")
        BY <1>0, <3>1, <3>4 DEF ThreadInv, Places, what
      <4>2. Places(status', g, what, t)
        BY <1>2, <2>4, <3>4, <4>1 DEF Places, got_pending_status
      <4>3. Suspensions(g, Freezes, t)
        <5>1. ~is_running(g[u])
          BY <2>4 DEF is_running
        <5> QED
          BY <1>1, <2>4, <3>1, <3>4, <5>1 DEF ThreadInv, Suspensions
      <4>4. status[u] = "stop" <=> Handled(what, u)
        BY DEF Handled, what, Job
      <4>5. Sigstops(status', g, what, t)
        BY <1>2, <2>4, <3>1, <3>2, <3>4, <4>1, <4>4
        DEF ThreadInv, Sigstops, Handled, got_pending_status, None
      <4> QED
        BY <4>2, <4>3, <4>5 DEF ThreadInv
    <3> QED
      BY <3>3, <3>4
  <2> QED
    BY <1>0, <1>2, <1>b, <2>1, <2>2, <2>3, <2>4, <2>5, <2>6, FreezeKeeps
    DEF TypeOK, counts
<1> QED
  BY <1>a, <1>b

\* A set of thread ids has a least one.
LEMMA LeastThread ==
  ASSUME NEW S, S \subseteq Nat, S # {}
  PROVE  \E x \in S : \A y \in S : x <= y
<1> DEFINE R == {ss \in Nat \X Nat : ss[1] < ss[2]}
<1>1. IsWellFoundedOn(R, Nat)
  BY NatLessThanWellFounded DEF OpToRel
<1>2. PICK x \in S : \A y \in S : ~ (<<y, x>> \in R)
  <2> HIDE DEF R
  <2> QED
    BY <1>1, WFMin
<1>3. ASSUME NEW y \in S PROVE x <= y
  <2>1. <<y, x>> \in Nat \X Nat /\ ~ (y < x)
    BY <1>2
  <2> QED
    BY <2>1
<1> QED
  BY <1>3

LEMMA PendingStatusKeeps ==
  ASSUME IInv, PendingStatus
  PROVE  IInv'
<1> USE DEF IInv
<1>0. /\ Idle /\ ~in_event /\ events = <<>>
      /\ npending' = npending - 1
      /\ UNCHANGED <<exec, status, code, threads, events, current, last_tid,
                     requested, may_run, bpts, removed, counts>>
  BY DEF PendingStatus, Polls
<1>1. Freezes = 0 /\ job = NoJob
  BY <1>0 DEF Freezes, Idle
<1>2. PICK u \in threads :
        /\ MayReport(info[u])
        /\ StartEvent([info EXCEPT ![u].pending_status = None], u,
                      info[u].pending_status)
  <2> DEFINE ready == {t \in threads : MayReport(info[t])}
  <2>1. ready # {} /\ ready \subseteq Nat
    BY ThreadAssumption DEF PendingStatus, TypeOK
  <2>2. PICK v \in ready : v = IF last_tid \in ready THEN last_tid
                              ELSE CHOOSE x \in ready : \A y \in ready : x <= y
    <3> HIDE DEF ready
    <3>1. \E x \in ready : \A y \in ready : x <= y
      BY <2>1, LeastThread
    <3> QED
      BY <3>1
  <2> QED
    BY <2>2 DEF PendingStatus
<1> DEFINE h == [info EXCEPT ![u].pending_status = None]
           g == [h EXCEPT ![u].state = "STOPPED"]
           what == Job("event", u, info[u].pending_status)
<1>3. Freeze(g, what)
  BY <1>2 DEF StartEvent
<1>4. /\ u \in Thread /\ info[u] \in Info /\ info[u].pending_status \in Statuses
      /\ got_pending_status(info[u]) /\ info[u].user_suspend = 0
  BY <1>2, InfoFields DEF TypeOK, MayReport, got_pending_status
<1>5. what \in Jobs /\ what.op = "event" /\ what.tid = u
      /\ what.arg = info[u].pending_status
  BY <1>4 DEF Jobs, Job
<1>6. /\ g \in [Thread -> Info]
      /\ \A t \in Thread \ {u} : g[t] = info[t]
      /\ g[u].state = "STOPPED" /\ g[u].pending_status = None
      /\ g[u].user_suspend = 0
      /\ g[u].suspend_count = info[u].suspend_count
      /\ g[u].waiting_sigstop = info[u].waiting_sigstop
  <2>1. h \in [Thread -> Info] /\ \A t \in Thread \ {u} : h[t] = info[t]
    BY <1>4, SetReported DEF TypeOK
  <2>2. h[u] = [info[u] EXCEPT !.pending_status = None]
    BY <1>4, SetReported DEF TypeOK
  <2> HIDE DEF h
  <2>3. g[u] = [h[u] EXCEPT !.state = "STOPPED"]
    BY <1>4, <2>1, SetStopped
  <2>4. g \in [Thread -> Info] /\ \A t \in Thread \ {u} : g[t] = h[t]
    BY <1>4, <2>1, SetStopped
  <2> HIDE DEF g
  <2> QED
    BY <1>4, <2>1, <2>2, <2>3, <2>4 DEF Info
<1> HIDE DEF h, g, what
<1>7. /\ npending' = Cardinality({t \in threads : got_pending_status(g[t])})
      /\ npending' \in Nat
  <2> DEFINE P == {t \in threads : got_pending_status(info[t])}
             R == {t \in threads : got_pending_status(g[t])}
  <2>1. R = P \ {u} /\ u \in P
    BY <1>4, <1>6 DEF TypeOK, got_pending_status
  <2>2. IsFiniteSet(P) /\ Cardinality(P) \in Nat
    BY ThreadsFinite DEF TypeOK
  <2>3. npending = Cardinality(P)
    BY DEF PendingCounted
  <2> HIDE DEF P, R
  <2>4. IsFiniteSet(R) /\ Cardinality(R) = Cardinality(P) - 1
    BY <2>1, <2>2, FS_RemoveElement
  <2>5. npending' = Cardinality(R) /\ npending' \in Nat
    BY <1>0, <2>3, <2>4, FS_CardinalityType
  <2> QED
    BY <2>5 DEF R
<1>8. ASSUME NEW t \in threads PROVE ThreadInv(status', g, what, Freezes, t)
  <2>1. ThreadInv(status, info, NoJob, 0, t) /\ t \in Thread
    BY <1>1 DEF TypeOK
  <2>2. NoJob # Job("event", t, "stop")
    BY DEF NoJob, Job, None
  <2>3. CASE t # u
    <3>1. what # Job("event", t, "stop")
      BY <1>5, <2>3 DEF Job
    <3>2. Places(status', g, what, t) /\ Suspensions(g, Freezes, t)
      BY <1>0, <1>1, <1>6, <2>1, <2>3
      DEF ThreadInv, Places, Suspensions, NoJob, Job, None
    <3>3. Sigstops(status', g, what, t)
      BY <1>0, <1>6, <2>1, <2>2, <2>3, <3>1 DEF ThreadInv, Sigstops, Handled
    <3> QED
      BY <3>2, <3>3 DEF ThreadInv
  <2>4. CASE t = u
    <3>1. /\ exec[u] # "run" /\ status[u] = None
          /\ exec[u] = "gone" => what = Job("event", u, "exit")
      BY <1>4, <2>1, <2>4 DEF ThreadInv, Places, what, got_pending_status
    <3>2. Places(status', g, what, t)
      BY <1>0, <1>6, <2>4, <3>1 DEF Places, got_pending_status
    <3>3. Suspensions(g, Freezes, t)
      <4>1. ~is_running(g[u])
        BY <1>6 DEF is_running
      <4> QED
        BY <1>1, <1>4, <1>6, <2>1, <2>4, <4>1 DEF ThreadInv, Suspensions
    <3>4. info[u].pending_status = "stop" <=> Handled(what, u)
      BY DEF Handled, what, Job
    <3>5. Sigstops(status', g, what, t)
      BY <1>0, <1>6, <2>1, <2>2, <2>4, <3>1, <3>4
      DEF ThreadInv, Sigstops, Handled, None
    <3> QED
      BY <3>2, <3>3, <3>5 DEF ThreadInv
  <2> QED
    BY <2>3, <2>4
<1> QED
  BY <1>0, <1>3, <1>5, <1>6, <1>7, <1>8, FreezeKeeps DEF TypeOK, counts

\* An access freezes the threads as they are.
LEMMA StartAccessKeeps ==
  ASSUME IInv, NEW op \in {"access", "add_bpt", "del_bpt"}, NEW ea,
         Job(op, Main, ea) \in Jobs, StartAccess(op, ea)
  PROVE  IInv'
<1> USE DEF IInv
<1>0. /\ Idle /\ requests' = requests + 1
      /\ Freeze(info, Job(op, Main, ea))
      /\ UNCHANGED <<exec, status, code, threads, npending, events, current,
                     last_tid, requested, may_run, bpts, removed, happenings>>
  BY DEF StartAccess, Request
<1>1. Job(op, Main, ea).op # "event" /\ job = NoJob
  BY <1>0 DEF Job, Idle
<1>2. ASSUME NEW t \in threads
      PROVE  ThreadInv(status', info, Job(op, Main, ea), Freezes, t)
  <2>1. ThreadInv(status, info, NoJob, Freezes, t)
    BY <1>1
  <2> QED
    BY <1>0, <2>1
    DEF ThreadInv, Places, Sigstops, Handled, Suspensions, NoJob, Job, None
<1>3. npending = Cardinality({t \in threads : got_pending_status(info[t])})
  BY DEF PendingCounted
<1> QED
  BY <1>0, <1>1, <1>2, <1>3, FreezeKeeps DEF TypeOK

LEMMA PauseKeeps ==
  ASSUME IInv, dbg_prepare_to_pause_process
  PROVE  IInv'
<1> USE DEF IInv
<1>0. /\ Idle /\ ~in_event /\ requests' = requests + 1
      /\ may_run' = FALSE /\ requested' = TRUE
      /\ UNCHANGED <<exec, status, code, threads, npending, events, current,
                     last_tid, bpts, removed, freezer, happenings>>
  BY DEF dbg_prepare_to_pause_process, Request
<1>1. /\ info' \in [Thread -> Info] /\ sigstop' \in [Thread -> BOOLEAN]
      /\ \A t \in Thread :
           /\ info'[t].state = info[t].state
           /\ info'[t].pending_status = info[t].pending_status
           /\ info'[t].user_suspend = info[t].user_suspend
           /\ info'[t].suspend_count = info[t].suspend_count
           /\ is_running(info'[t]) => is_running(info[t])
           /\ \/ (sigstop'[t] <=> sigstop[t])
                 /\ info'[t].waiting_sigstop = info[t].waiting_sigstop
              \/ t = Main /\ sigstop'[t] /\ info'[t].waiting_sigstop
  <2>1. CASE events = <<>>
    <3>1. /\ sigstop' = [sigstop EXCEPT ![Main] = TRUE]
          /\ info' = [info EXCEPT ![Main].waiting_sigstop = TRUE]
      BY <2>1 DEF dbg_prepare_to_pause_process
    <3>2. info' \in [Thread -> Info] /\ sigstop' \in [Thread -> BOOLEAN]
      <4>1. info' \in [Thread -> Info]
        <5>1. PICK i \in Info : i = info[Main]
          BY ThreadAssumption DEF TypeOK
        <5>2. [i EXCEPT !.waiting_sigstop = TRUE] \in Info
          BY DEF Info
        <5>3. info' = [info EXCEPT ![Main] = [i EXCEPT !.waiting_sigstop = TRUE]]
          BY <3>1, <5>1
        <5> QED
          BY <5>2, <5>3 DEF TypeOK
      <4>2. sigstop' \in [Thread -> BOOLEAN]
        BY <3>1 DEF TypeOK
      <4> QED
        BY <4>1, <4>2
    <3>3. \A t \in Thread \ {Main} : info'[t] = info[t] /\ sigstop'[t] = sigstop[t]
      BY <3>1 DEF TypeOK
    <3>4. /\ info'[Main] = [info[Main] EXCEPT !.waiting_sigstop = TRUE]
          /\ info[Main] \in Info /\ sigstop'[Main]
      BY <3>1, ThreadAssumption DEF TypeOK
    <3>5. /\ info'[Main].state = info[Main].state
          /\ info'[Main].pending_status = info[Main].pending_status
          /\ info'[Main].user_suspend = info[Main].user_suspend
          /\ info'[Main].suspend_count = info[Main].suspend_count
          /\ info'[Main].waiting_sigstop
      BY <3>4 DEF Info
    <3>6. ASSUME NEW t \in Thread, is_running(info'[t]) PROVE is_running(info[t])
      BY <3>3, <3>5, <3>6 DEF is_running
    <3>7. ASSUME NEW t \in Thread
          PROVE  /\ info'[t].state = info[t].state
                 /\ info'[t].pending_status = info[t].pending_status
                 /\ info'[t].user_suspend = info[t].user_suspend
                 /\ info'[t].suspend_count = info[t].suspend_count
                 /\ \/ (sigstop'[t] <=> sigstop[t])
                       /\ info'[t].waiting_sigstop = info[t].waiting_sigstop
                    \/ t = Main /\ sigstop'[t] /\ info'[t].waiting_sigstop
      BY <3>3, <3>4, <3>5
    <3> QED
      BY <3>2, <3>6, <3>7
  <2>2. CASE events # <<>>
    BY <2>2 DEF dbg_prepare_to_pause_process, TypeOK
  <2> QED
    BY <2>1, <2>2
<1>2. TypeOK'
  <2>1. info' \in [Thread -> Info] /\ sigstop' \in [Thread -> BOOLEAN]
    BY <1>1
  <2>2. may_run' \in BOOLEAN /\ requested' \in BOOLEAN
    BY Zenon DEF dbg_prepare_to_pause_process
  <2>4. happenings' \in Nat /\ requests' \in Nat
    BY <1>0 DEF TypeOK
  <2>3. UNCHANGED <<exec, status, code, threads, npending, events, current,
                    last_tid, bpts, removed, job, queue, deadtids>>
    BY <1>0 DEF freezer
  <2> QED
    BY <2>1, <2>2, <2>3, <2>4 DEF TypeOK
<1>3. PendingCounted'
  BY <1>0, <1>1, SamePending DEF TypeOK
<1>4. ASSUME NEW t \in threads PROVE ThreadInv(status, info, job, Freezes, t)'
  <2>1. ThreadInv(status, info, job, Freezes, t) /\ t \in Thread /\ Freezes' = Freezes
    BY <1>0 DEF TypeOK, Freezes, Idle, in_event, freezer
  <2>2. Places(status, info, job, t)' /\ Sigstops(status, info, job, t)'
    BY <1>0, <1>1, <2>1
    DEF ThreadInv, Places, Sigstops, Handled, freezer, got_pending_status
  <2>3. Suspensions(info, Freezes, t)'
    BY <1>1, <2>1 DEF ThreadInv, Suspensions
  <2> QED
    BY <2>2, <2>3 DEF ThreadInv
<1>5. Freezing' /\ Frozenness' /\ Resumption'
  <2>1. job.op # "event"
    BY <1>0 DEF Idle, NoJob, Job, None
  <2> QED
    BY <1>0, <1>1, <2>1 DEF Freezing, Frozenness, Resumption, Idle, in_event, freezer, TypeOK
<1> QED
  BY <1>0, <1>2, <1>3, <1>4, <1>5

LEMMA SuspendKeeps ==
  ASSUME IInv, NEW u \in Thread, dbg_thread_suspend(u)
  PROVE  IInv'
<1> USE DEF IInv
<1>0. /\ Idle /\ in_event /\ requests' = requests + 1
      /\ u \in threads /\ info[u].user_suspend = 0
      /\ info' = [info EXCEPT ![u].suspend_count = @ + 1, ![u].user_suspend = @ + 1]
      /\ UNCHANGED <<kernel, code, threads, npending, events, current, last_tid,
                     requested, may_run, bpts, removed, freezer, happenings>>
  BY DEF dbg_thread_suspend, Request
<1>1. /\ info' \in [Thread -> Info]
      /\ info'[u].state = info[u].state
      /\ info'[u].waiting_sigstop = info[u].waiting_sigstop
      /\ info'[u].pending_status = info[u].pending_status
      /\ info'[u].user_suspend = 1
      /\ info'[u].suspend_count = info[u].suspend_count + 1
      /\ \A t \in Thread \ {u} : info'[t] = info[t]
  <2>1. PICK i \in Info, n \in Nat, m \in Nat :
          i = info[u] /\ n = i.suspend_count + 1 /\ m = i.user_suspend + 1
    BY SMTT(30), InfoFields DEF TypeOK
  <2>2. info' = [info EXCEPT ![u] = [i EXCEPT !.suspend_count = n, !.user_suspend = m]]
    BY <1>0, <2>1 DEF TypeOK
  <2>3. PICK j \in Info : j = [i EXCEPT !.suspend_count = n, !.user_suspend = m]
    BY DEF Info
  <2>4. /\ j.state = i.state
        /\ j.waiting_sigstop = i.waiting_sigstop
        /\ j.pending_status = i.pending_status
        /\ j.suspend_count = n /\ j.user_suspend = m
    BY <2>3 DEF Info
  <2>5. info[u].user_suspend = 0 /\ u \in Thread
    BY <1>0 DEF TypeOK
  <2>6. n = info[u].suspend_count + 1 /\ m = 1
    BY <2>1, <2>5
  <2>7. info' = [info EXCEPT ![u] = j] /\ info \in [Thread -> Info]
    BY <2>2, <2>3 DEF TypeOK
  <2>8. info' \in [Thread -> Info] /\ info'[u] = j
    BY <2>5, <2>7
  <2>9. \A t \in Thread \ {u} : info'[t] = info[t]
    BY <2>5, <2>7
  <2> QED
    BY <2>1, <2>4, <2>6, <2>8, <2>9
<1>2. TypeOK'
  BY <1>0, <1>1 DEF TypeOK, kernel, freezer
<1>3. PendingCounted'
  BY <1>0, <1>1, SamePending DEF TypeOK
<1>4. Freezing
  OBVIOUS
<1>5. \A t \in threads : ~is_running(info'[t])
  <2>1. \A t \in threads : ~is_running(info[t])
    BY <1>0, <1>4 DEF Freezing, Frozenness
  <2> QED
    BY <1>1, <2>1 DEF TypeOK, is_running, got_pending_status
<1>6. ASSUME NEW t \in threads PROVE ThreadInv(status, info, job, Freezes, t)'
  <2>1. ThreadInv(status, info, job, Freezes, t) /\ t \in Thread /\ Freezes' = Freezes
    BY <1>0 DEF TypeOK, Freezes, Idle, in_event, freezer
  <2>2. Places(status, info, job, t)' /\ Sigstops(status, info, job, t)'
    BY <1>0, <1>1, <2>1
    DEF ThreadInv, Places, Sigstops, Handled, freezer, kernel, got_pending_status
  <2>3. Suspensions(info, Freezes, t)'
    <3>1. Freezes \in Nat /\ info[u].suspend_count \in Nat
      BY InfoFields DEF Freezes, TypeOK
    <3> QED
      BY <1>0, <1>1, <1>5, <2>1, <3>1 DEF ThreadInv, Suspensions
  <2> QED
    BY <2>2, <2>3 DEF ThreadInv
<1>7. Freezing' /\ Frozenness' /\ Resumption'
  <2>1. job.op # "event"
    BY <1>0 DEF Idle, NoJob, Job, None
  <2> QED
    BY <1>0, <1>5, <2>1
    DEF Freezing, Frozenness, Resumption, Idle, in_event, freezer, kernel
<1> QED
  BY <1>0, <1>2, <1>3, <1>6, <1>7

\* The threads T are thawed, after the infos were edited to f, and the module
\* has nothing more to do.
LEMMA ThawKeeps ==
  ASSUME IInv, NEW f \in [Thread -> Info], NEW may \in BOOLEAN, NEW T, T \subseteq threads,
         threads' = T, info' = Thaw(f, T, may), Cont(Continued(f, T, may)),
         may_run' = may, job' = NoJob, queue' = {}, deadtids' = {}, del_thread,
         Freezes' \in Nat, Freezes = Freezes' + 1,
         \A t \in T : /\ ThreadInv(status, f, NoJob, Freezes, t) /\ ~is_running(f[t])
                      /\ f[t].pending_status = info[t].pending_status,
         code' \subseteq Addr, bpts' \subseteq Addr, removed' \subseteq Addr,
         events' \in Seq(Events), current' \in Events \cup {NoEvent},
         last_tid' \in Thread, requested' \in BOOLEAN,
         happenings' \in Nat, requests' \in Nat,
         in_event' \/ events' # <<>> => ~may,
         ~in_event' /\ events' = <<>> /\ ~requested' /\ ~may =>
           \E t \in T : got_pending_status(f[t]) /\ f[t].user_suspend = 0
  PROVE  IInv'
<1> USE DEF IInv
<1> DEFINE C == Continued(f, T, may)
<1>0. T \subseteq Thread
  BY DEF TypeOK
<1>1. /\ info' \in [Thread -> Info]
      /\ \A t \in T :
           /\ info'[t].user_suspend = f[t].user_suspend
           /\ info'[t].waiting_sigstop = f[t].waiting_sigstop
           /\ info'[t].pending_status = f[t].pending_status
           /\ info'[t].state = IF t \in C THEN "RUNNING" ELSE f[t].state
  BY <1>0, ThawFields
<1>2. TypeOK'
  <2>1. /\ exec' \in [Thread -> {"run", "stop", "gone"}]
        /\ sigstop' \in [Thread -> BOOLEAN]
        /\ status' \in [Thread -> Statuses \cup {None}]
    <3> HIDE DEF C
    <3> QED
      BY DEF Cont, TypeOK, Statuses, C
  <2>2. npending' \in Nat
    BY <1>1, DeletedPending
  <2> QED
    BY <1>0, <1>1, <2>1, <2>2 DEF TypeOK
<1>3. PendingCounted'
  BY <1>1, DeletedPending
<1>4. ASSUME NEW t \in T PROVE ThreadInv(status, info, job, Freezes, t)'
  BY <1>0, ThawThread
<1>5. Freezing'
  BY DEF Freezing, NoJob, Job, None
<1>6. Frozenness'
  <2>1. ~may => C = {}
    BY DEF Continued
  <2>2. ASSUME ~may, NEW t \in T PROVE ~is_running(info'[t])
    BY <1>1, <2>1, <2>2 DEF is_running, got_pending_status
  <2> QED
    BY <2>2 DEF Frozenness, Idle
<1>7. Resumption'
  <2>1. ASSUME may, NEW t \in T, info'[t].state = "STOPPED"
        PROVE  info'[t].user_suspend = 1
    <3>1. SUFFICES ASSUME f[t].user_suspend = 0 PROVE FALSE
      BY <1>1 DEF ThreadInv, Suspensions
    <3>2. Freezes = 1
      BY <2>1 DEF Freezes, Idle, in_event
    <3>3. t \notin C /\ f[t].state = "STOPPED"
      BY <1>1, <2>1
    <3>4. f[t].suspend_count < 2 /\ ~got_pending_status(f[t])
      <4>1. f[t].suspend_count \in Nat
        BY <1>0, InfoFields
      <4> QED
        BY <3>1, <3>2, <3>3, <4>1 DEF ThreadInv, Suspensions, Places
    <3> QED
      BY <2>1, <3>1, <3>3, <3>4 DEF Continued, Thawed
  <2>2. ASSUME ~in_event', events' = <<>>, ~requested', ~may
        PROVE  \E t \in T : got_pending_status(info'[t]) /\ info'[t].user_suspend = 0
    BY <1>1, <2>2 DEF got_pending_status
  <2> QED
    BY <2>1, <2>2 DEF Resumption
<1> QED
  BY <1>2, <1>3, <1>4, <1>5, <1>6, <1>7

\* The infos g differ from f in the signal to be passed on to u only.
OnlySignum(g, f, u) ==
  /\ g \in [Thread -> Info]
  /\ \A t \in Thread \ {u} : g[t] = f[t]
  /\ \A t \in Thread :
       /\ g[t].state = f[t].state
       /\ g[t].pending_status = f[t].pending_status
       /\ g[t].user_suspend = f[t].user_suspend
       /\ g[t].suspend_count = f[t].suspend_count
       /\ g[t].waiting_sigstop = f[t].waiting_sigstop

LEMMA SignumFields ==
  ASSUME NEW f \in [Thread -> Info], NEW u, NEW signum \in {None, "SIGTRAP", "other"}
  PROVE  OnlySignum([f EXCEPT ![u].child_signum = signum], f, u)
<1>0. PICK g : g = [f EXCEPT ![u].child_signum = signum]
  OBVIOUS
<1>1. ASSUME NEW t \in Thread, t # u PROVE g[t] = f[t]
  BY <1>0, <1>1
<1>2. CASE u \in Thread
  <2>1. PICK i \in Info : i = f[u]
    BY <1>2
  <2>2. g[u] = [i EXCEPT !.child_signum = signum]
    BY <1>0, <1>2, <2>1
  <2>3. [i EXCEPT !.child_signum = signum] \in Info
    BY DEF Info
  <2>4. /\ g[u].state = f[u].state
        /\ g[u].pending_status = f[u].pending_status
        /\ g[u].user_suspend = f[u].user_suspend
        /\ g[u].suspend_count = f[u].suspend_count
        /\ g[u].waiting_sigstop = f[u].waiting_sigstop
    BY <2>1, <2>2 DEF Info
  <2>5. g = [t \in Thread |-> g[t]]
    BY <1>0
  <2>6. \A t \in Thread : g[t] \in Info
    BY <1>1, <2>2, <2>3
  <2> QED
    BY <1>0, <1>1, <2>4, <2>5, <2>6 DEF OnlySignum
<1>3. CASE u \notin Thread
  <2>1. g = f
    BY <1>0, <1>3
  <2> QED
    BY <1>0, <2>1 DEF OnlySignum
<1> QED
  BY <1>2, <1>3

LEMMA ContinueAfterEventKeeps ==
  ASSUME IInv, NEW handled \in BOOLEAN, dbg_continue_after_event(handled)
  PROVE  IInv'
<1> USE DEF IInv
<1>0. /\ Idle /\ in_event /\ current' = NoEvent
      /\ UNCHANGED <<code, threads, npending, events, last_tid, requested, freezer,
                     counts>>
  BY DEF dbg_continue_after_event
<1>1. PICK f : /\ f \in {info, [info EXCEPT ![current.tid].child_signum = None]}
               /\ resume_app(f, threads, events)
  BY DEF dbg_continue_after_event
<1>2. /\ f \in [Thread -> Info]
      /\ \A t \in Thread :
           /\ f[t].state = info[t].state
           /\ f[t].pending_status = info[t].pending_status
           /\ f[t].user_suspend = info[t].user_suspend
           /\ f[t].suspend_count = info[t].suspend_count
           /\ f[t].waiting_sigstop = info[t].waiting_sigstop
  <2>1. CASE f = info
    BY <2>1 DEF TypeOK
  <2>2. CASE f = [info EXCEPT ![current.tid].child_signum = None]
    <3>1. info \in [Thread -> Info]
      BY DEF TypeOK
    <3>2. OnlySignum(f, info, current.tid)
      BY <2>2, <3>1, SignumFields
    <3> QED
      BY <3>2 DEF OnlySignum
  <2> QED
    BY <1>1, <2>1, <2>2
<1> DEFINE may == events = <<>> /\ ~has_pending_events(f)
<1>3. /\ may_run' = may /\ info' = Thaw(f, threads, may)
      /\ Cont(Continued(f, threads, may))
      /\ bpts' \subseteq Addr /\ removed' \subseteq Addr
  BY <1>1 DEF resume_app, TypeOK
<1>4. /\ Idle' /\ ~in_event' /\ Freezes = 1 /\ Freezes' = 0 /\ job = NoJob
      /\ job' = NoJob /\ queue' = {} /\ deadtids = {} /\ deadtids' = {}
  BY <1>0 DEF Freezes, Idle, in_event, freezer, Freezing
<1>5. del_thread
  <2>1. {t \in threads \ threads' : got_pending_status(info[t])} = {}
    BY <1>0
  <2>2. npending' = npending - 0
    BY <1>0 DEF TypeOK
  <2>3. Cardinality({}) = 0
    BY FS_EmptySet
  <2> QED
    BY <2>1, <2>2, <2>3 DEF del_thread
<1>6. ASSUME NEW t \in threads
      PROVE  ThreadInv(status, f, NoJob, Freezes, t) /\ ~is_running(f[t])
  <2>1. ThreadInv(status, info, NoJob, Freezes, t) /\ t \in Thread
        /\ ~is_running(info[t])
    BY <1>0, <1>4 DEF TypeOK, Frozenness
  <2>2. ~is_running(f[t])
    BY <1>2, <2>1 DEF is_running, got_pending_status
  <2>3. Places(status, f, NoJob, t) /\ Sigstops(status, f, NoJob, t)
    BY <1>2, <2>1 DEF ThreadInv, Places, Sigstops, got_pending_status
  <2> QED
    BY <1>2, <2>1, <2>2, <2>3 DEF ThreadInv, Suspensions
<1>7. may \in BOOLEAN
  BY DEF has_pending_events
<1>8. ASSUME ~may, events = <<>>
      PROVE  \E t \in threads : got_pending_status(f[t]) /\ f[t].user_suspend = 0
  BY <1>8 DEF has_pending_events, MayReport
<1>9. ASSUME events # <<>> PROVE ~may
  BY <1>9
<1>10. ASSUME NEW t \in threads PROVE f[t].pending_status = info[t].pending_status
  BY <1>2 DEF TypeOK
<1>11. /\ code' \subseteq Addr /\ last_tid' \in Thread /\ requested' \in BOOLEAN
       /\ events' \in Seq(Events) /\ current' \in Events \cup {NoEvent}
       /\ happenings' \in Nat /\ requests' \in Nat /\ threads' = threads
       /\ events' = events
  BY <1>0 DEF TypeOK, counts
<1> HIDE DEF may, IInv
<1> QED
  BY <1>2, <1>3, <1>4, <1>5, <1>6, <1>7, <1>8, <1>9, <1>10, <1>11, ThawKeeps

\* The events of the threads found dead
LEMMA EventsOfDeadType ==
  ASSUME IInv
  PROVE  /\ EventsOfDead \in Seq(Events)
         /\ EventsOfDead = <<>> => deadtids = {} /\ events = <<>>
<1>1. CASE deadtids = {}
  BY <1>1 DEF EventsOfDead, IInv, TypeOK
<1>2. CASE deadtids # {}
  <2>1. PICK t \in deadtids : t = CHOOSE u \in deadtids : TRUE
    BY <1>2
  <2>2. t \in Thread /\ events \in Seq(Events)
    BY DEF IInv, TypeOK
  <2>3. Event("THREAD_EXIT", t) \in Events
    BY <2>2 DEF Event, Events, Eids
  <2>4. EventsOfDead = Append(events, Event("THREAD_EXIT", t))
    BY <1>2, <2>1 DEF EventsOfDead
  <2>5. Append(events, Event("THREAD_EXIT", t)) \in Seq(Events)
        /\ Append(events, Event("THREAD_EXIT", t)) # <<>>
    BY <2>2, <2>3
  <2> QED
    BY <2>4, <2>5
<1> QED
  BY <1>1, <1>2

LEMMA FinishAccessKeeps ==
  ASSUME IInv, FinishAccess
  PROVE  IInv'
<1> DEFINE T == threads \ deadtids
           may == may_run /\ deadtids = {}
<1>0. /\ ~Idle /\ job.op # "event" /\ threads' = T /\ events' = EventsOfDead
      /\ job' = NoJob /\ queue' = {} /\ deadtids' = {}
      /\ may_run' = may /\ info' = Thaw(info, T, may) /\ Cont(Continued(info, T, may))
      /\ del_thread
      /\ UNCHANGED <<current, last_tid, requested, counts>>
  BY DEF FinishAccess, Frozen, FreezeReturns
<1>1. code' \subseteq Addr /\ bpts' \subseteq Addr /\ removed' \subseteq Addr
  <2>1. job \in Jobs /\ code \subseteq Addr /\ bpts \subseteq Addr /\ removed \subseteq Addr
    BY <1>0 DEF IInv, TypeOK, Idle
  <2>2. job.op \in {"add_bpt", "del_bpt"} => job.arg \in Addr
    BY <2>1 DEF Jobs
  <2> QED
    BY <2>1, <2>2 DEF FinishAccess
<1>2. Freezes = Freezes' + 1 /\ Freezes' \in Nat
  BY <1>0 DEF Freezes, Idle, in_event
<1>3. ASSUME NEW t \in T
      PROVE  ThreadInv(status, info, NoJob, Freezes, t) /\ ~is_running(info[t])
  <2>1. ThreadInv(status, info, job, Freezes, t) /\ ~is_running(info[t])
    BY <1>0 DEF IInv, Frozenness
  <2>2. job # Job("event", t, "exit") /\ job # Job("event", t, "stop")
    BY <1>0 DEF Job
  <2> QED
    BY <2>1, <2>2 DEF ThreadInv, Places, Sigstops, Handled, NoJob, Job, None
<1>4. ASSUME in_event' \/ events' # <<>> PROVE ~may
  BY <1>0, <1>4 DEF IInv, Frozenness, EventsOfDead, in_event
<1>5. ASSUME ~in_event', events' = <<>>, ~requested', ~may
      PROVE  \E t \in T : got_pending_status(info[t]) /\ info[t].user_suspend = 0
  <2>1. deadtids = {} /\ events = <<>> /\ ~in_event /\ ~requested /\ ~may_run
    BY <1>0, <1>5, EventsOfDeadType DEF in_event
  <2> QED
    BY <1>0, <2>1 DEF IInv, Resumption
<1>6. /\ info \in [Thread -> Info] /\ T \subseteq threads /\ may \in BOOLEAN
      /\ events' \in Seq(Events) /\ current' \in Events \cup {NoEvent}
      /\ last_tid' \in Thread /\ requested' \in BOOLEAN
      /\ happenings' \in Nat /\ requests' \in Nat
  BY <1>0, EventsOfDeadType DEF IInv, TypeOK, counts
<1> HIDE DEF may, T
<1> QED
  BY <1>0, <1>1, <1>2, <1>3, <1>4, <1>5, <1>6, ThawKeeps

\* What is known of the threads that are left once the status of job.tid is
\* handled; if that is its SIGSTOP then it is not awaited any more.
LEMMA HandledThread ==
  ASSUME IInv, job.op = "event", NEW f \in [Thread -> Info],
         \A t \in Thread \ {job.tid} : f[t] = info[t],
         f[job.tid].state = info[job.tid].state,
         f[job.tid].pending_status = info[job.tid].pending_status,
         f[job.tid].user_suspend = info[job.tid].user_suspend,
         f[job.tid].suspend_count = info[job.tid].suspend_count,
         f[job.tid].waiting_sigstop <=> info[job.tid].waiting_sigstop /\ job.arg # "stop",
         NEW t \in threads \ deadtids, t = job.tid => job.arg # "exit"
  PROVE  /\ ThreadInv(status, f, NoJob, 1, t) /\ ~is_running(f[t])
         /\ f[t].pending_status = info[t].pending_status
<1> DEFINE u == job.tid
<1>0. /\ ThreadInv(status, info, job, Freezes, t) /\ ~is_running(info[t])
      /\ t \in Thread /\ info[u].state = "STOPPED"
  <2>1. ~Idle
    BY DEF Idle, NoJob, Job, None
  <2> QED
    BY <2>1 DEF IInv, TypeOK, Freezing, Frozenness
<1>1. Freezes = 1
  BY DEF IInv, Freezing, Freezes, Idle, NoJob, Job, None
<1>2. NoJob # Job("event", t, "exit") /\ NoJob # Job("event", t, "stop")
  BY DEF NoJob, Job, None
<1>3. CASE t # u
  <2>1. job # Job("event", t, "exit") /\ job # Job("event", t, "stop")
    BY <1>3 DEF Job
  <2>2. f[t] = info[t]
    BY <1>0, <1>3
  <2>3. Places(status, f, NoJob, t)
    BY <1>0, <2>1, <2>2 DEF ThreadInv, Places
  <2>4. Sigstops(status, f, NoJob, t)
    BY <1>0, <1>2, <2>1, <2>2 DEF ThreadInv, Sigstops, Handled
  <2> QED
    BY <1>0, <1>1, <2>2, <2>3, <2>4 DEF ThreadInv, Suspensions
<1>4. CASE t = u
  <2>1. exec[u] # "gone" /\ exec[u] # "run" /\ status[u] = None
        /\ ~got_pending_status(info[u])
    <3>1. job # Job("event", u, "exit")
      BY <1>4 DEF Job
    <3>2. status[u] = None \/ status[u] # None
      OBVIOUS
    <3> QED
      BY <1>0, <1>4, <3>1 DEF ThreadInv, Places
  <2>2. Places(status, f, NoJob, t)
    BY <1>4, <1>0, <2>1 DEF Places, got_pending_status
  <2>3. job.arg = "stop" <=> Handled(job, u)
    <3>1. job \in Jobs
      BY DEF IInv, TypeOK, NoJob, Job, None
    <3> QED
      BY <3>1 DEF Handled, Job, Jobs
  <2>4. Sigstops(status, f, NoJob, t)
    BY <1>0, <1>2, <1>4, <2>1, <2>3 DEF ThreadInv, Sigstops, Handled, None
  <2>5. ~is_running(f[t])
    BY <1>0, <1>4 DEF is_running
  <2> QED
    BY <1>0, <1>1, <1>4, <2>2, <2>4, <2>5 DEF ThreadInv, Suspensions
<1> QED
  BY <1>3, <1>4

\* The event of the status goes to IDA; the threads T are left.
LEMMA GivenKeeps ==
  ASSUME IInv, job.op = "event", NEW f \in [Thread -> Info], info' = f,
         NEW T, T \subseteq threads, threads' = T,
         NEW q \in Seq(Events), q # <<>>, GiveEvent(q), may_run' = FALSE,
         FreezeReturns, del_thread, UNCHANGED <<kernel, bpts, removed, code, counts>>,
         last_tid' \in Thread,
         \A t \in T : /\ ThreadInv(status, f, NoJob, 1, t) /\ ~is_running(f[t])
                      /\ f[t].pending_status = info[t].pending_status
  PROVE  IInv'
<1>1. /\ current' \in Events /\ in_event' /\ events' \in Seq(Events)
      /\ requested' = FALSE
  BY GiveEventFields DEF in_event, NoEvent, Event
<1>2. job' = NoJob /\ queue' = {} /\ deadtids' = {}
  BY DEF FreezeReturns
<1>3. Idle' /\ Freezes' = 1
  BY <1>1, <1>2 DEF Idle, Freezes, NoJob, Job
<1>4. PendingCounted' /\ npending' \in Nat
  BY DeletedPending DEF IInv
<1>5. TypeOK'
  <2>1. may_run' \in BOOLEAN
    OBVIOUS
  <2>2. requested' \in BOOLEAN
    BY <1>1
  <2>3. UNCHANGED <<exec, sigstop, status, bpts, removed, code, happenings, requests>>
    BY DEF kernel, counts
  <2> QED
    BY <1>1, <1>2, <1>4, <2>1, <2>2, <2>3 DEF IInv, TypeOK
<1>6. ASSUME NEW t \in T PROVE ThreadInv(status, info, job, Freezes, t)'
  BY <1>2, <1>3 DEF ThreadInv, Places, Sigstops, Handled, Suspensions, kernel
<1>7. Freezing'
  BY <1>2 DEF Freezing, NoJob, Job, None
<1>8. Frozenness' /\ Resumption'
  BY <1>1 DEF Frozenness, Resumption
<1> QED
  BY <1>4, <1>5, <1>6, <1>7, <1>8 DEF IInv

\* get_debug_event has nothing to report, or only that the process is suspended.
LEMMA ResumeKeeps ==
  ASSUME IInv, job.op = "event", FreezeReturns, del_thread, UNCHANGED <<code, counts>>,
         NEW f \in [Thread -> Info], Resume(f),
         \A t \in threads \ deadtids :
           /\ ThreadInv(status, f, NoJob, 1, t) /\ ~is_running(f[t])
           /\ f[t].pending_status = info[t].pending_status
  PROVE  IInv'
<1> DEFINE T == threads \ deadtids
           q == Append(EventsOfDead, Event("PROCESS_SUSPEND", job.tid))
           may == EventsOfDead = <<>> /\ ~has_pending_events(f)
<1>1. threads' = T /\ last_tid' = last_tid /\ last_tid \in Thread /\ T \subseteq threads
  BY DEF Resume, IInv, TypeOK
<1>2. CASE requested
  <2>1. /\ info' = f /\ GiveEvent(q) /\ may_run' = FALSE
        /\ UNCHANGED <<kernel, bpts, removed>>
    BY <1>2 DEF Resume
  <2>2. q \in Seq(Events) /\ q # <<>>
    <3>1. Event("PROCESS_SUSPEND", job.tid) \in Events
      BY DEF IInv, TypeOK, Freezing, Event, Events, Eids
    <3> QED
      BY <3>1, EventsOfDeadType
  <2>3. UNCHANGED <<kernel, bpts, removed, code, counts>>
    BY <2>1
  <2> HIDE DEF q
  <2> QED
    BY <1>1, <2>1, <2>2, <2>3, GivenKeeps
<1>3. CASE ~requested
  <2>1. /\ may_run' = may /\ info' = Thaw(f, T, may) /\ Cont(Continued(f, T, may))
        /\ bpts' \subseteq Addr /\ removed' \subseteq Addr
        /\ events' = EventsOfDead /\ current' = current /\ (requested' <=> requested)
    BY <1>3 DEF Resume, resume_app, IInv, TypeOK
  <2>2. job' = NoJob /\ queue' = {} /\ deadtids' = {}
    BY DEF FreezeReturns
  <2>3. Freezes = 1 /\ Freezes' = 0 /\ ~in_event'
    BY <2>1, <2>2 DEF IInv, Freezing, Freezes, Idle, in_event, NoJob, Job, None
  <2>4. ASSUME in_event' \/ events' # <<>> PROVE ~may
    BY <2>1, <2>3, <2>4
  <2>5. ASSUME events' = <<>>, ~may
        PROVE  \E t \in T : got_pending_status(f[t]) /\ f[t].user_suspend = 0
    BY <2>1, <2>5, EventsOfDeadType DEF has_pending_events, MayReport
  <2>6. may \in BOOLEAN
    BY DEF has_pending_events
  <2>7. /\ code' \subseteq Addr /\ last_tid' \in Thread
        /\ events' \in Seq(Events) /\ current' \in Events \cup {NoEvent}
        /\ happenings' \in Nat /\ requests' \in Nat
    BY <1>1, <2>1, EventsOfDeadType DEF IInv, TypeOK, counts
  <2>8. requested' \in BOOLEAN
    <3>1. UNCHANGED requested
      BY <1>3 DEF Resume
    <3>2. requested \in BOOLEAN
      BY DEF IInv, TypeOK
    <3> QED
      BY Zenon, <3>1, <3>2
  <2>9. \A t \in T :
          /\ ThreadInv(status, f, NoJob, Freezes, t) /\ ~is_running(f[t])
          /\ f[t].pending_status = info[t].pending_status
    BY <2>3
  <2>10. Freezes = Freezes' + 1 /\ Freezes' \in Nat
    BY <2>3
  <2> HIDE DEF may, T
  <2> QED
    BY <1>1, <2>1, <2>2, <2>3, <2>4, <2>5, <2>6, <2>7, <2>8, <2>9, <2>10, ThawKeeps
<1> QED
  BY <1>2, <1>3

\* It has an event to report.
LEMMA ReportKeeps ==
  ASSUME IInv, job.op = "event", FreezeReturns, del_thread, UNCHANGED <<code, counts>>,
         job.arg # "exit", job.arg = "stop" => ~info[job.tid].waiting_sigstop,
         NEW eid \in Eids, NEW signum \in {None, "SIGTRAP", "other"}, Report(eid, signum)
  PROVE  IInv'
<1> DEFINE T == threads \ deadtids
           f == [info EXCEPT ![job.tid].child_signum = signum]
           q == Append(EventsOfDead, Event(eid, job.tid))
<1>1. info \in [Thread -> Info] /\ job.tid \in Thread
  BY DEF IInv, TypeOK, Freezing
<1>2. OnlySignum(f, info, job.tid)
  BY <1>1, SignumFields
<1>3. /\ info' = f /\ threads' = T /\ GiveEvent(q) /\ may_run' = FALSE
      /\ last_tid' \in Thread /\ UNCHANGED <<kernel, bpts, removed, code, counts>>
  BY <1>1 DEF Report
<1>4. q \in Seq(Events) /\ q # <<>>
  <2>1. Event(eid, job.tid) \in Events
    BY <1>1 DEF Event, Events
  <2> QED
    BY <2>1, EventsOfDeadType
<1> HIDE DEF f, q
<1>5. /\ f \in [Thread -> Info]
      /\ \A t \in T : /\ ThreadInv(status, f, NoJob, 1, t) /\ ~is_running(f[t])
                      /\ f[t].pending_status = info[t].pending_status
  BY <1>1, <1>2, HandledThread DEF OnlySignum
<1>6. T \subseteq threads
  OBVIOUS
<1> HIDE DEF T
<1> QED
  BY <1>3, <1>4, <1>5, <1>6, GivenKeeps

LEMMA HandleStatusKeeps ==
  ASSUME IInv, HandleStatus
  PROVE  IInv'
<1> DEFINE u == job.tid
<1>0. /\ job.op = "event" /\ FreezeReturns /\ del_thread /\ UNCHANGED <<code, counts>>
  BY DEF HandleStatus
<1>1. info \in [Thread -> Info] /\ u \in Thread
  BY <1>0 DEF IInv, TypeOK, Freezing
<1>2. CASE job.arg = "stop" /\ info[u].waiting_sigstop
           /\ Resume([info EXCEPT ![u].waiting_sigstop = FALSE])
  <2> DEFINE f == [info EXCEPT ![u].waiting_sigstop = FALSE]
  <2>1. /\ f \in [Thread -> Info]
        /\ \A t \in Thread \ {u} : f[t] = info[t]
        /\ f[u].state = info[u].state /\ f[u].pending_status = info[u].pending_status
        /\ f[u].user_suspend = info[u].user_suspend
        /\ f[u].suspend_count = info[u].suspend_count
        /\ ~f[u].waiting_sigstop
    <3>1. PICK i \in Info : i = info[u]
      BY <1>1
    <3>2. [i EXCEPT !.waiting_sigstop = FALSE] \in Info
      BY DEF Info
    <3>3. f = [info EXCEPT ![u] = [i EXCEPT !.waiting_sigstop = FALSE]]
      BY <1>1, <3>1
    <3> QED
      BY <1>1, <3>1, <3>2, <3>3 DEF Info
  <2>2. Resume(f)
    BY <1>2
  <2> HIDE DEF f
  <2>3. \A t \in threads \ deadtids :
           /\ ThreadInv(status, f, NoJob, 1, t) /\ ~is_running(f[t])
           /\ f[t].pending_status = info[t].pending_status
    BY <1>0, <1>2, <2>1, HandledThread
  <2> QED
    BY <1>0, <2>1, <2>2, <2>3, ResumeKeeps
<1>3. CASE job.arg = "quiet" /\ Resume([info EXCEPT ![u].child_signum = "other"])
  <2> DEFINE f == [info EXCEPT ![u].child_signum = "other"]
  <2>1. OnlySignum(f, info, u)
    BY <1>1, SignumFields
  <2>2. Resume(f)
    BY <1>3
  <2> HIDE DEF f
  <2>3. \A t \in threads \ deadtids :
           /\ ThreadInv(status, f, NoJob, 1, t) /\ ~is_running(f[t])
           /\ f[t].pending_status = info[t].pending_status
    BY <1>0, <1>1, <1>3, <2>1, HandledThread DEF OnlySignum
  <2> QED
    BY <1>0, <2>1, <2>2, <2>3, ResumeKeeps DEF OnlySignum
<1>4. CASE /\ job.arg # "exit"
           /\ job.arg = "stop" => ~info[u].waiting_sigstop
           /\ \E eid \in Eids, signum \in {None, "SIGTRAP", "other"} : Report(eid, signum)
  BY <1>0, <1>4, ReportKeeps
<1>5. CASE /\ job.arg = "exit"
           /\ threads' = threads \ (deadtids \cup {u})
           /\ GiveEvent(Append(EventsOfDead, Event("THREAD_EXIT", u)))
           /\ last_tid' = u /\ may_run' = FALSE
           /\ UNCHANGED <<kernel, info, bpts, removed>>
  <2> DEFINE T == threads \ (deadtids \cup {u})
             q == Append(EventsOfDead, Event("THREAD_EXIT", u))
  <2>1. q \in Seq(Events) /\ q # <<>>
    <3>1. Event("THREAD_EXIT", u) \in Events
      BY <1>1 DEF Event, Events, Eids
    <3> QED
      BY <3>1, EventsOfDeadType
  <2>2. GiveEvent(q) /\ T \subseteq threads /\ threads' = T /\ info' = info
        /\ last_tid' \in Thread /\ may_run' = FALSE
        /\ UNCHANGED <<kernel, bpts, removed, code, counts>>
    BY <1>0, <1>1, <1>5
  <2>3. \A t \in T : /\ ThreadInv(status, info, NoJob, 1, t) /\ ~is_running(info[t])
    <3>1. \A t \in threads \ deadtids : t # u =>
            ThreadInv(status, info, NoJob, 1, t) /\ ~is_running(info[t])
      BY <1>0, <1>1, <1>5, HandledThread
    <3> QED
      BY <3>1
  <2> HIDE DEF q, T
  <2> QED
    BY <1>0, <1>1, <2>1, <2>2, <2>3, GivenKeeps
<1>6. "stop" \notin Addr /\ "quiet" \notin Addr /\ "loud" \notin Addr /\ "exit" \notin Addr
  BY AddrAssumption
<1>7. "EXCEPTION" \in Eids /\ "BREAKPOINT" \in Eids
  BY DEF Eids
<1> QED
  <2>1. CASE job.arg = "stop" /\ info[u].waiting_sigstop
    <3>1. Resume([info EXCEPT ![u].waiting_sigstop = FALSE])
      BY <1>6, <2>1 DEF HandleStatus
    <3> QED
      BY <1>2, <2>1, <3>1
  <2>2. CASE job.arg = "quiet"
    <3>1. Resume([info EXCEPT ![u].child_signum = "other"])
      BY <1>6, <2>2 DEF HandleStatus
    <3> QED
      BY <1>3, <2>2, <3>1
  <2>3. CASE job.arg = "exit"
    BY <1>5, <1>6, <2>3 DEF HandleStatus
  <2>4. CASE job.arg \notin {"quiet", "exit"} /\ ~(job.arg = "stop" /\ info[u].waiting_sigstop)
    <3>1. \E eid \in Eids, signum \in {None, "SIGTRAP", "other"} : Report(eid, signum)
      BY <1>7, <2>4 DEF HandleStatus
    <3> QED
      BY <1>4, <2>4, <3>1
  <2> QED
    BY <2>1, <2>2, <2>3, <2>4

LEMMA ThreadContinueKeeps ==
  ASSUME IInv, NEW u \in Thread, dbg_thread_continue(u)
  PROVE  IInv'
<1> DEFINE f == [info EXCEPT ![u].user_suspend = @ - 1]
           C == Continued(f, {u}, may_run)
<1>0. /\ Idle /\ u \in threads /\ info[u].user_suspend > 0 /\ requests' = requests + 1
      /\ UNCHANGED <<code, threads, npending, events, current, last_tid, requested,
                     may_run, bpts, removed, freezer, happenings>>
  BY DEF dbg_thread_continue, Request
<1>1. /\ info \in [Thread -> Info] /\ threads \subseteq Thread
      /\ may_run \in BOOLEAN /\ job = NoJob /\ job.op # "event"
  BY <1>0 DEF IInv, TypeOK, Idle, NoJob, Job, None
<1>2. ThreadInv(status, info, NoJob, Freezes, u) /\ info[u].user_suspend = 1
  <2>1. ThreadInv(status, info, NoJob, Freezes, u)
    BY <1>0, <1>1 DEF IInv
  <2> QED
    BY <1>0, <2>1 DEF ThreadInv, Suspensions
<1>3. /\ f \in [Thread -> Info]
      /\ \A t \in Thread \ {u} : f[t] = info[t]
      /\ f[u].state = info[u].state /\ f[u].pending_status = info[u].pending_status
      /\ f[u].user_suspend = 0 /\ f[u].suspend_count = info[u].suspend_count
      /\ f[u].waiting_sigstop = info[u].waiting_sigstop
  <2>1. PICK i \in Info, n \in Nat : i = info[u] /\ n = i.user_suspend - 1
    BY <1>1, <1>2
  <2>2. [i EXCEPT !.user_suspend = n] \in Info
    BY DEF Info
  <2>3. f = [info EXCEPT ![u] = [i EXCEPT !.user_suspend = n]]
    BY <1>1, <2>1
  <2> QED
    BY <1>1, <1>2, <2>1, <2>2, <2>3 DEF Info
<1>4. info' = Thaw(f, {u}, may_run) /\ Cont(C)
  BY <1>3 DEF dbg_thread_continue
<1> HIDE DEF f
<1>5. Freezes' = Freezes /\ Freezes \in Nat /\ job' = NoJob
  BY <1>0, <1>1 DEF Freezes, Idle, in_event, freezer
<1>6. ~is_running(f[u])
  <2>1. ~is_running(info[u])
    BY <1>2 DEF ThreadInv, Suspensions
  <2> QED
    BY <1>3, <2>1 DEF is_running, got_pending_status
<1>7. ThreadInv(status, f, NoJob, Freezes + 1, u)
  <2>1. info[u].suspend_count \in Nat
    BY <1>1, InfoFields
  <2>2. Places(status, f, NoJob, u) /\ Sigstops(status, f, NoJob, u)
    BY <1>2, <1>3 DEF ThreadInv, Places, Sigstops, got_pending_status
  <2> QED
    BY <1>2, <1>3, <1>5, <1>6, <2>1, <2>2 DEF ThreadInv, Suspensions
<1>8. /\ info' \in [Thread -> Info] /\ C \subseteq {u}
      /\ info'[u].user_suspend = 0
      /\ info'[u].pending_status = info[u].pending_status
      /\ info'[u].waiting_sigstop = info[u].waiting_sigstop
      /\ info'[u].state = IF u \in C THEN "RUNNING" ELSE info[u].state
      /\ \A t \in Thread \ {u} : info'[t] = info[t]
  <2>1. \A t \in Thread \ {u} : Thaw(f, {u}, may_run)[t] = f[t]
    BY DEF Thaw
  <2>2. /\ info' \in [Thread -> Info] /\ C \subseteq {u}
        /\ info'[u].user_suspend = f[u].user_suspend
        /\ info'[u].pending_status = f[u].pending_status
        /\ info'[u].waiting_sigstop = f[u].waiting_sigstop
        /\ info'[u].state = IF u \in C THEN "RUNNING" ELSE f[u].state
    BY <1>1, <1>3, <1>4, ThawFields
  <2> HIDE DEF C
  <2> QED
    BY <1>3, <1>4, <2>1, <2>2
<1>9. TypeOK'
  <2>1. /\ exec' \in [Thread -> {"run", "stop", "gone"}]
        /\ sigstop' \in [Thread -> BOOLEAN]
        /\ status' \in [Thread -> Statuses \cup {None}]
    <3> HIDE DEF C
    <3> QED
      BY <1>4 DEF Cont, IInv, TypeOK, Statuses
  <2> QED
    BY <1>0, <1>8, <2>1 DEF IInv, TypeOK, freezer
<1>10. PendingCounted'
  <2>1. \A t \in threads : info'[t].pending_status = info[t].pending_status
    BY <1>1, <1>8
  <2> QED
    BY <1>0, <2>1, SamePending DEF IInv
<1>11. ASSUME NEW t \in threads PROVE ThreadInv(status, info, job, Freezes, t)'
  <2>1. CASE t = u
    BY <1>1, <1>3, <1>4, <1>5, <1>6, <1>7, <2>1, ThawThread DEF IInv
  <2>2. CASE t # u
    <3>1. exec'[t] = exec[t] /\ status'[t] = status[t] /\ (sigstop'[t] <=> sigstop[t])
      <4> HIDE DEF C
      <4> QED
        BY <1>1, <1>4, <1>8, <2>2 DEF Cont
    <3>2. info'[t] = info[t]
      BY <1>1, <1>8, <2>2
    <3>3. ThreadInv(status, info, job, Freezes, t)
      BY DEF IInv
    <3> QED
      BY <1>1, <1>5, <3>1, <3>2, <3>3
      DEF ThreadInv, Places, Sigstops, Handled, Suspensions
  <2> QED
    BY <2>1, <2>2
<1>12. Freezing'
  BY <1>0, <1>1, <1>5 DEF IInv, Freezing, Idle, freezer
<1>13. Frozenness'
  <2>1. ASSUME in_event \/ events # <<>>, NEW t \in threads
        PROVE  ~is_running(info'[t])
    <3>1. ~may_run /\ ~is_running(info[t])
      BY <1>0, <2>1 DEF IInv, Frozenness, Freezing
    <3>2. C = {}
      BY <3>1 DEF Continued
    <3> QED
      BY <1>1, <1>8, <3>1, <3>2 DEF is_running, got_pending_status
  <2> QED
    BY <1>0, <1>5, <2>1 DEF IInv, Frozenness, Idle, in_event
<1>14. Resumption'
  <2>1. ASSUME may_run, NEW t \in threads, info'[t].state = "STOPPED"
        PROVE  info'[t].user_suspend = 1
    <3>1. CASE t # u
      <4>1. info[t].state = "STOPPED" => info[t].user_suspend = 1
        BY <1>0, <2>1 DEF IInv, Resumption
      <4> QED
        BY <1>1, <1>8, <2>1, <3>1, <4>1
    <3>2. CASE t = u
      <4>1. ~in_event /\ Freezes = 0
        BY <1>0, <2>1 DEF IInv, Frozenness, Freezes
      <4>2. info[u].suspend_count \in Nat
        BY <1>1, InfoFields
      <4>3. f[u].suspend_count < 2
        BY <1>2, <1>3, <4>1, <4>2 DEF ThreadInv, Suspensions
      <4>4. u \notin C /\ f[u].state = "STOPPED"
        BY <1>3, <1>8, <2>1, <3>2
      <4>5. ~got_pending_status(f[u])
        BY <1>7, <4>4 DEF ThreadInv, Places
      <4> QED
        BY <1>3, <1>6, <2>1, <4>3, <4>4, <4>5 DEF Continued, Thawed
    <3> QED
      BY <3>1, <3>2
  <2>2. ASSUME ~in_event, events = <<>>, ~requested, ~may_run
        PROVE  \E t \in threads \ deadtids :
                 got_pending_status(info'[t]) /\ info'[t].user_suspend = 0
    <3>1. PICK t \in threads \ deadtids :
            got_pending_status(info[t]) /\ info[t].user_suspend = 0
      BY <1>1, <2>2 DEF IInv, Resumption
    <3> QED
      BY <1>1, <1>8, <3>1 DEF got_pending_status
  <2> QED
    BY <1>0, <2>1, <2>2 DEF Resumption, in_event, freezer
<1> QED
  BY <1>0, <1>9, <1>10, <1>11, <1>12, <1>13, <1>14 DEF IInv

\* Stuttering
LEMMA StutterKeeps ==
  ASSUME IInv, UNCHANGED vars
  PROVE  IInv'
BY DEF IInv, vars, kernel, freezer, counts, TypeOK, PendingCounted, Freezing, Frozenness,
       Resumption, ThreadInv, Places, Sigstops, Handled, Suspensions, Freezes, Idle,
       in_event, got_pending_status, is_running

LEMMA NextKeeps == IInv /\ [Next]_vars => IInv'
<1> SUFFICES ASSUME IInv, [Next]_vars PROVE IInv'
  OBVIOUS
<1>1. CASE Debuggee
  BY <1>1, StopsKeeps, HappensKeeps DEF Debuggee
<1>2. CASE GetDebugEvent
  BY <1>2, GiveQueuedKeeps, PendingStatusKeeps, NewStatusKeeps DEF GetDebugEvent
<1>3. CASE Works
  BY <1>3, HandleStatusKeeps, FinishAccessKeeps, CollectStatusKeeps DEF Works
<1>4. CASE Requests
  <2>1. CASE access_memory
    <3>1. Job("access", Main, None) \in Jobs
      BY ThreadAssumption DEF Job, Jobs
    <3> QED
      BY <2>1, <3>1, StartAccessKeeps DEF access_memory
  <2>2. ASSUME NEW ea \in Addr, dbg_add_bpt(ea) \/ dbg_del_bpt(ea) PROVE IInv'
    <3>1. Job("add_bpt", Main, ea) \in Jobs /\ Job("del_bpt", Main, ea) \in Jobs
      BY ThreadAssumption DEF Job, Jobs
    <3> QED
      BY <2>2, <3>1, StartAccessKeeps DEF dbg_add_bpt, dbg_del_bpt
  <2> QED
    BY <1>4, <2>1, <2>2, PauseKeeps, SuspendKeeps, ThreadContinueKeeps DEF Requests
<1>5. CASE Continue
  BY <1>5, ContinueAfterEventKeeps DEF Continue
<1>6. CASE UNCHANGED vars
  BY <1>6, StutterKeeps
<1> QED
  BY <1>1, <1>2, <1>3, <1>4, <1>5, <1>6 DEF Next

\* The invariant holds in every state.
THEOREM Invariance == Spec => []IInv
BY InitInvariant, NextKeeps, PTL DEF Spec

-----------------------------------------------------------------------------
(***************************************************************************)
(* The properties                                                          *)
(***************************************************************************)
\* A thread that runs although it does not count as running is about to stop.
LEMMA AboutToStop ==
  ASSUME IInv, NEW t \in threads, exec[t] = "run", ~is_running(info[t])
  PROVE  sigstop[t]
<1>1. ThreadInv(status, info, job, Freezes, t)
  BY DEF IInv
<1>2. info[t].state = "RUNNING" /\ ~got_pending_status(info[t]) /\ status[t] = None
  BY <1>1 DEF ThreadInv, Places
<1>3. ~Handled(job, t)
  BY <1>2 DEF IInv, Freezing, Handled, Job
<1> QED
  BY <1>1, <1>2, <1>3 DEF is_running, ThreadInv, Sigstops, None

LEMMA IInvImplies ==
  ASSUME IInv
  PROVE  /\ AssertionsHold /\ StopsAccounted /\ SigstopAccounted
         /\ SuspendedStaysSo /\ NobodyForgotten
<1>1. ASSUME NEW t \in threads
      PROVE  /\ ThreadInv(status, info, job, Freezes, t) /\ t \in Thread
             /\ info[t].suspend_count \in Nat
             /\ Handled(job, t) <=> ~Idle /\ job.op = "event" /\ job.tid = t
                                    /\ job.arg = "stop"
  <2>1. ThreadInv(status, info, job, Freezes, t) /\ t \in Thread
        /\ info[t].suspend_count \in Nat
    BY InfoFields DEF IInv, TypeOK
  <2>2. job \in Jobs \cup {NoJob}
    BY DEF IInv, TypeOK
  <2> QED
    BY <2>1, <2>2 DEF Handled, Jobs, Job, Idle, NoJob, None
<1>2. AssertionsHold
  BY <1>1 DEF AssertionsHold, ThreadInv, Places, Suspensions
<1>3. StopsAccounted
  BY <1>1 DEF StopsAccounted, ThreadInv, Places
<1>4. SigstopAccounted
  BY <1>1 DEF SigstopAccounted, ThreadInv, Sigstops
<1>5. SuspendedStaysSo
  <2>1. ASSUME Idle, NEW t \in threads, info[t].user_suspend > 0, exec[t] = "run"
        PROVE  sigstop[t]
    <3>1. ~is_running(info[t])
      BY <1>1, <2>1 DEF ThreadInv, Suspensions
    <3> QED
      BY <2>1, <3>1, AboutToStop
  <2> QED
    BY <2>1 DEF SuspendedStaysSo
<1>6. NobodyForgotten
  <2>1. SUFFICES ASSUME Idle, ~in_event, events = <<>>, ~requested,
                        \A t \in Thread : status[t] = None,
                        ~has_pending_events(info),
                        NEW t \in threads, info[t].user_suspend = 0, exec[t] = "stop"
                 PROVE  FALSE
    BY DEF NobodyForgotten, Polls
  <2>2. ASSUME NEW u \in threads, got_pending_status(info[u]), info[u].user_suspend = 0
        PROVE  FALSE
    <3>1. info[u].suspend_count = 0
      BY <1>1, <2>1, <2>2 DEF Freezes, ThreadInv, Suspensions
    <3> QED
      BY <2>1, <2>2, <3>1 DEF has_pending_events, MayReport
  <2>3. info[t].state = "STOPPED"
    BY <1>1, <2>1, <2>2 DEF ThreadInv, Places
  <2>4. job.op # "event"
    BY <2>1 DEF Idle, NoJob, Job, None
  <2> QED
    BY <2>1, <2>2, <2>3, <2>4 DEF IInv, Resumption
<1> QED
  BY <1>2, <1>3, <1>4, <1>5, <1>6

\* Every variable has its type.
THEOREM TypeCorrect == Spec => []TypeOK
<1>1. IInv => TypeOK
  BY DEF IInv
<1> QED
  BY <1>1, Invariance, PTL

\* The QASSERTs of the module never fail: a thread that counts as running is
\* not suspended, and no status is reported twice or of a stopped thread.
THEOREM AssertionsAlwaysHold == Spec => []AssertionsHold
<1>1. IInv => AssertionsHold
  BY IInvImplies
<1> QED
  BY <1>1, Invariance, PTL

\* npending_signals is always the number of threads with a kept status.
THEOREM PendingAlwaysCounted == Spec => []PendingCounted
<1>1. IInv => PendingCounted
  BY DEF IInv
<1> QED
  BY <1>1, Invariance, PTL

\* No stop of a thread is lost by the module.
THEOREM StopsAlwaysAccounted == Spec => []StopsAccounted
<1>1. IInv => StopsAccounted
  BY IInvImplies
<1> QED
  BY <1>1, Invariance, PTL

\* Every SIGSTOP that is awaited is on its way, and none is unexpected, but
\* for those of the main thread.
THEOREM SigstopsAlwaysAccounted == Spec => []SigstopAccounted
<1>1. IInv => SigstopAccounted
  BY IInvImplies
<1> QED
  BY <1>1, Invariance, PTL

\* A thread that the user suspended does not run, whatever is reported,
\* accessed and resumed meanwhile.
THEOREM SuspendedAlwaysStaysSo == Spec => []SuspendedStaysSo
<1>1. IInv => SuspendedStaysSo
  BY IInvImplies
<1> QED
  BY <1>1, Invariance, PTL

\* When nothing is left to report, no thread stays stopped but by the user.
THEOREM NobodyEverForgotten == Spec => []NobodyForgotten
<1>1. IInv => NobodyForgotten
  BY IInvImplies
<1> QED
  BY <1>1, Invariance, PTL
=============================================================================
