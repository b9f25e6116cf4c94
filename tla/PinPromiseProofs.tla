--------------------------- MODULE PinPromiseProofs ---------------------------
(***************************************************************************)
(* The PIN tool implements StopGo, for every set of threads and addresses  *)
(* and every set of sessions: each step of PinSuspend is a step of the     *)
(* promise or changes nothing of it.                                       *)
(***************************************************************************)
EXTENDS PinSuspendProofs

USE ConstantsAssumption

-----------------------------------------------------------------------------
(* Counting the reports in a queue                                         *)

StopsAt(q) == {i \in DOMAIN q : q[i].eid \in StopEvents}
InHand == IF ida = "handling" /\ last_ev.eid \in StopEvents THEN 1 ELSE 0
One(e) == IF e.eid \in StopEvents THEN 1 ELSE 0

LEMMA OpenIs == Open = Cardinality(StopsAt(events)) + InHand
BY DEF Open, StopsAt, InHand

\* There are finitely many, none in an empty queue.
LEMMA StopsAreFinite ==
  ASSUME NEW q \in Seq(Events)
  PROVE  /\ IsFiniteSet(StopsAt(q))
         /\ Cardinality(StopsAt(q)) \in Nat
         /\ q = <<>> => Cardinality(StopsAt(q)) = 0
<1>1. DOMAIN q = 1 .. Len(q) /\ Len(q) \in Nat
  BY LenProperties
<1>2. IsFiniteSet(1 .. Len(q))
  BY <1>1, FS_Interval
<1>3. StopsAt(q) \in SUBSET (1 .. Len(q))
  BY <1>1 DEF StopsAt
<1>4. IsFiniteSet(StopsAt(q))
  BY <1>2, <1>3, FS_Subset
<1>5. q = <<>> => StopsAt(q) = {}
  BY <1>1, <1>3
<1> QED
  BY <1>4, <1>5, FS_CardinalityType, FS_EmptySet

\* An appended event counts if it is a report.
LEMMA StopsAppend ==
  ASSUME NEW q \in Seq(Events), NEW e \in Events
  PROVE  Cardinality(StopsAt(Append(q, e))) = Cardinality(StopsAt(q)) + One(e)
<1> DEFINE a == Append(q, e)
           n == Len(q) + 1
<1>1. /\ a \in Seq(Events)
      /\ Len(a) = n
      /\ \A i \in 1 .. Len(q) : a[i] = q[i]
      /\ a[n] = e
  BY AppendProperties
<1>2. DOMAIN q = 1 .. Len(q) /\ Len(q) \in Nat
  BY LenProperties
<1>3. DOMAIN a = 1 .. n
  BY <1>1, LenProperties
<1>4. 1 .. n = (1 .. Len(q)) \cup {n} /\ n \notin 1 .. Len(q)
  BY <1>2
<1>5. IsFiniteSet(StopsAt(q)) /\ n \notin StopsAt(q)
  BY <1>2, <1>4, StopsAreFinite DEF StopsAt
<1>6. StopsAt(a) = IF e.eid \in StopEvents THEN StopsAt(q) \cup {n} ELSE StopsAt(q)
  <2> HIDE DEF a, n
  <2> QED
    BY <1>1, <1>2, <1>3, <1>4 DEF StopsAt
<1>7. Cardinality(StopsAt(q)) \in Nat
  BY StopsAreFinite
<1>8. Cardinality(StopsAt(q) \cup {n}) = Cardinality(StopsAt(q)) + 1
  BY <1>5, FS_AddElement
<1> QED
  BY <1>6, <1>7, <1>8 DEF One

\* The event that is taken counts no more.
LEMMA StopsTake ==
  ASSUME NEW q \in Seq(Events), q # <<>>
  PROVE  Cardinality(StopsAt(q)) = Cardinality(StopsAt(Tail(q))) + One(Head(q))
<1> DEFINE r == Tail(q)
           later == StopsAt(q) \ {1}
           next == [i \in StopsAt(r) |-> i + 1]
<1>1. /\ r \in Seq(Events)
      /\ Len(r) = Len(q) - 1
      /\ \A i \in 1 .. Len(r) : r[i] = q[i + 1]
  BY HeadTailProperties
<1>2. DOMAIN q = 1 .. Len(q) /\ Len(q) \in Nat \ {0}
  BY LenProperties, EmptySeq
<1>3. DOMAIN r = 1 .. Len(q) - 1
  BY <1>1, LenProperties
<1>4. Head(q) = q[1]
  OBVIOUS
<1>5. StopsAt(r) \subseteq Nat
  BY <1>2, <1>3 DEF StopsAt
<1>6. \A i \in StopsAt(r) : i + 1 \in later
  BY <1>1, <1>2, <1>3 DEF StopsAt
<1>7. \A j \in later : j - 1 \in StopsAt(r) /\ j = (j - 1) + 1
  BY <1>1, <1>2, <1>3 DEF StopsAt
<1>8. ExistsBijection(StopsAt(r), later)
  <2> HIDE DEF r, later
  <2>1. next \in [StopsAt(r) -> later]
    BY <1>6
  <2>2. \A i, j \in StopsAt(r) : next[i] = next[j] => i = j
    BY <1>5
  <2>3. \A j \in later : \E i \in StopsAt(r) : next[i] = j
    BY <1>7
  <2> HIDE DEF next
  <2>4. next \in Bijection(StopsAt(r), later)
    BY <2>1, <2>2, <2>3 DEF Bijection, Injection, Surjection, IsInjective
  <2> QED
    BY <2>4 DEF ExistsBijection
<1>9. /\ IsFiniteSet(StopsAt(r))
      /\ Cardinality(StopsAt(r)) \in Nat
      /\ IsFiniteSet(StopsAt(q))
      /\ Cardinality(StopsAt(q)) \in Nat
  BY <1>1, StopsAreFinite
<1>10. Cardinality(later) = Cardinality(StopsAt(r))
  BY <1>8, <1>9, FS_Bijection
<1>11. Cardinality(later) = IF 1 \in StopsAt(q) THEN Cardinality(StopsAt(q)) - 1
                                               ELSE Cardinality(StopsAt(q))
  BY <1>9, FS_RemoveElement
<1>12. 1 \in StopsAt(q) <=> Head(q).eid \in StopEvents
  BY <1>2, <1>4 DEF StopsAt
<1> QED
  BY <1>9, <1>10, <1>11, <1>12 DEF One

\* What the end of the queue adds to the open reports.
LEMMA OpenAppend ==
  ASSUME TypeOK, NEW e \in Events, events' = Append(events, e), InHand' = InHand
  PROVE  Open' = Open + One(e)
<1>1. Cardinality(StopsAt(events')) = Cardinality(StopsAt(events)) + One(e)
  BY StopsAppend DEF TypeOK
<1>2. Cardinality(StopsAt(events)) \in Nat /\ InHand \in Nat /\ One(e) \in Nat
  BY StopsAreFinite DEF TypeOK, InHand, One
<1>3. Open' = Cardinality(StopsAt(events')) + InHand'
  BY DEF Open, StopsAt, InHand
<1> QED
  BY <1>1, <1>2, <1>3, OpenIs

LEMMA OpenSame ==
  ASSUME UNCHANGED events, InHand' = InHand
  PROVE  Open' = Open
BY OpenIs DEF Open, StopsAt, InHand

-----------------------------------------------------------------------------
(* The steps                                                               *)

Promised ==
  \/ \E t \in Threads : \/ StopGoPromise!Report(t) \/ StopGoPromise!Stop(t)
                        \/ StopGoPromise!Join(t) \/ StopGoPromise!Release(t)
  \/ StopGoPromise!Answer \/ StopGoPromise!Go
  \/ UNCHANGED <<process_state = "SUSPENDED", Open, Held>>

\* A step of one thread takes it into the tool or leaves who waits there as is.
LEMMA HeldByApp ==
  ASSUME TypeOK, NEW t \in Threads, AppThread(t), ~sema_wait(t)
  PROVE  Held' \in {Held, Held \cup {t}}
<1>1. \A u \in Threads \ {t} : pc'[u] = pc[u]
  BY ThreadIsAlone
<1>2. t \in Held => t \in Held'
  BY WaitersStay DEF Held, Waiting
<1>3. \A u \in Threads \ {t} : u \in Held' <=> u \in Held
  BY <1>1 DEF Held
<1>4. Held \subseteq Threads /\ Held' \subseteq Threads
  BY DEF Held
<1> QED
  BY <1>2, <1>3, <1>4

\* A step that queues no report and leaves the state alone: at most a thread
\* comes to wait.
LEMMA JoinOrNothing ==
  ASSUME TypeOK, NEW t \in Threads, AppThread(t), ~sema_wait(t),
         UNCHANGED process_state, Open' = Open
  PROVE  Promised
<1>1. CASE Held' = Held
  BY <1>1 DEF Promised
<1>2. CASE Held' = Held \cup {t}
  BY <1>2 DEF Promised, StopGoPromise!Join
<1> QED
  BY <1>1, <1>2, HeldByApp

LEMMA PromiseOfApp ==
  ASSUME SafetyInv, ~Ending, NEW t \in Threads, AppThread(t)
  PROVE  Promised
<1> USE DEF SafetyInv, TypeInv
<1>1. UNCHANGED <<ida, last_ev>> /\ InHand' = InHand
  BY AppBeforeFini DEF InHand
<1>2. CASE sema_wait(t)
  <2>1. /\ pc[t] = "sem_wait" /\ run_app_sem
        /\ pc' = [pc EXCEPT ![t] = "run"]
        /\ UNCHANGED <<process_state, events>>
    BY <1>2 DEF sema_wait, stateVars, queueVars
  <2>2. process_state # "SUSPENDED"
    BY <2>1 DEF SemaphoreMatchesState
  <2>3. t \in Held /\ Held' = Held \ {t}
    BY <2>1 DEF Held, TypeOK
  <2>4. Open' = Open
    BY <1>1, <2>1, OpenSame
  <2>5. StopGoPromise!Release(t)
    BY <2>1, <2>2, <2>3, <2>4 DEF StopGoPromise!Release
  <2> QED
    BY <2>5 DEF Promised
<1>3. CASE ~sema_wait(t) /\ UNCHANGED <<process_state, events>>
  BY <1>1, <1>3, OpenSame, JoinOrNothing
<1>4. CASE serve_sync(t)
  <2>1. ~sema_wait(t) /\ UNCHANGED <<process_state, events>>
    BY <1>4 DEF serve_sync, sema_wait, queueVars
  <2> QED
    BY <1>3, <2>1
<1>5. CASE image_load_cb(t)
  <2>1. ~sema_wait(t) /\ UNCHANGED process_state
    BY <1>5 DEF image_load_cb, sema_wait, stateVars
  <2>2. Event("LIBRARY_LOAD", t) \in Events
    BY EventType DEF EventIds
  <2>3. One(Event("LIBRARY_LOAD", t)) = 0
    BY DEF One, Event, StopEvents
  <2>4. Open' = Open + 0
    BY <1>1, <1>5, <2>2, <2>3, OpenAppend DEF image_load_cb
  <2>5. Open \in Nat
    BY StopsAreFinite, OpenIs DEF InHand, TypeOK
  <2> QED
    BY <2>1, <2>4, <2>5, JoinOrNothing
<1>6. CASE Emit(t)
  <2>1. ~sema_wait(t)
    BY <1>6 DEF Emit, sema_wait
  <2>2. process_state' = "SUSPENDED"
    BY <1>6 DEF Emit, do_suspend_nolock, process_suspended, NoFlush
  <2>3. Event(ev[t], t) \in Events
    BY <1>6, EventType DEF Emit, EmitInv, EventIds, TypeOK
  <2>4. Open' = Open + One(Event(ev[t], t))
    BY <1>1, <1>6, <2>3, OpenAppend DEF Emit
  <2>5. Open \in Nat
    BY StopsAreFinite, OpenIs DEF InHand, TypeOK
  <2>6. Held' \in {Held, Held \cup {t}}
    BY <2>1, HeldByApp
  <2>7. CASE ev[t] \in StopEvents
    <3>1. Open' = Open + 1
      BY <2>4, <2>7 DEF One, Event
    <3>2. StopGoPromise!Report(t)
      BY <2>2, <2>6, <3>1 DEF StopGoPromise!Report
    <3> QED
      BY <3>2 DEF Promised
  <2>8. CASE ev[t] \notin StopEvents
    <3>1. Open' = Open
      BY <2>4, <2>5, <2>8 DEF One, Event
    <3>2. StopGoPromise!Stop(t)
      BY <2>2, <2>6, <3>1 DEF StopGoPromise!Stop
    <3> QED
      BY <3>2 DEF Promised
  <2> QED
    BY <2>7, <2>8
<1> QED
  BY <1>2, <1>3, <1>4, <1>5, <1>6, AppEffect

LEMMA PromiseOfResume ==
  ASSUME SafetyInv, ~Ending', do_resume
  PROVE  Promised
<1> USE DEF SafetyInv, TypeInv
<1>1. UNCHANGED <<events, last_ev>> /\ ida = "handling" /\ ida' = "wait"
  BY DEF do_resume, queueVars, Handling
<1>2. Held' = Held
  BY ListenerMovesMain DEF Listener, Held, TypeOK
<1>3. process_state' = IF ResumeNow THEN "RUNNING" ELSE process_state
  BY DEF do_resume, StateAfterResume, Ending
<1>4. InHand' = 0 /\ InHand = One(last_ev)
  BY <1>1 DEF InHand, One
<1>5. /\ Open = Cardinality(StopsAt(events)) + One(last_ev)
      /\ Open' = Cardinality(StopsAt(events))
      /\ Cardinality(StopsAt(events)) \in Nat
  <2>1. Open' = Cardinality(StopsAt(events')) + InHand' /\ StopsAt(events') = StopsAt(events)
    BY <1>1 DEF Open, StopsAt, InHand
  <2> QED
    BY <1>4, <2>1, OpenIs, StopsAreFinite DEF TypeOK
<1>6. ResumeNow => Open' = 0
  BY <1>5, StopsAreFinite DEF ResumeNow, TypeOK
<1>7. CASE last_ev.eid \in StopEvents
  <2>1. Open > 0 /\ Open' = Open - 1
    BY <1>5, <1>7 DEF One
  <2>2. StopGoPromise!Answer
    BY <1>2, <1>3, <1>6, <2>1 DEF StopGoPromise!Answer
  <2> QED
    BY <2>2 DEF Promised
<1>8. CASE last_ev.eid \notin StopEvents
  <2>1. Open' = Open
    BY <1>5, <1>8 DEF One
  <2>2. ResumeNow => StopGoPromise!Go
    BY <1>2, <1>3, <1>6, <2>1 DEF StopGoPromise!Go
  <2> QED
    BY <1>2, <1>3, <2>1, <2>2 DEF Promised
<1> QED
  BY <1>7, <1>8

LEMMA PromiseOfPacket ==
  ASSUME SafetyInv, ~Ending', OtherPackets
  PROVE  Promised
<1> USE DEF SafetyInv, TypeInv
<1>1. Held' = Held
  BY ListenerMovesMain DEF Listener, Held, TypeOK
<1>2. Open \in Nat
  BY StopsAreFinite, OpenIs DEF InHand, TypeOK
<1>3. ASSUME UNCHANGED process_state, Open' = Open
      PROVE  Promised
  BY <1>1, <1>3 DEF Promised
<1>4. CASE pop_debug_event
  <2>1. /\ events # <<>> /\ ida # "handling" /\ ida' = "handling"
        /\ events' = Tail(events) /\ last_ev' = Head(events)
        /\ UNCHANGED process_state
    BY <1>4 DEF pop_debug_event, stateVars
  <2>2. Cardinality(StopsAt(events)) = Cardinality(StopsAt(events')) + One(last_ev')
    BY <2>1, StopsTake DEF TypeOK
  <2>3. InHand = 0 /\ InHand' = One(last_ev')
    BY <2>1 DEF InHand, One
  <2>4. Open' = Cardinality(StopsAt(events')) + InHand'
    BY DEF Open, StopsAt, InHand
  <2>5. Open' = Open
    BY <1>2, <2>2, <2>3, <2>4, OpenIs, StopsAreFinite DEF TypeOK
  <2> QED
    BY <1>3, <2>1, <2>5
<1>5. CASE prepare_pause_queued
  <2> DEFINE e == Event("PROCESS_SUSPEND", events[Len(events)].tid)
  <2>1. e \in Events
    BY <1>5, PauseEvent
  <2>2. InHand' = InHand /\ UNCHANGED process_state
    BY <1>5 DEF prepare_pause_queued, MayPause, InHand, stateVars
  <2>3. One(e) = 0
    BY DEF One, Event, StopEvents
  <2>4. Open' = Open
    BY <1>2, <1>5, <2>1, <2>2, <2>3, OpenAppend DEF prepare_pause_queued
  <2> QED
    BY <1>3, <2>2, <2>4
<1>6. CASE prepare_pause_suspend
  <2> DEFINE e == Event("PROCESS_SUSPEND", NoThread)
  <2>1. e \in Events
    BY EventType DEF EventIds
  <2>2. InHand' = InHand /\ process_state' = "SUSPENDED"
    BY <1>6 DEF prepare_pause_suspend, PauseUnderLock, InHand,
       do_suspend_nolock, process_suspended
  <2>3. One(e) = 0
    BY DEF One, Event, StopEvents
  <2>4. Open' = Open
    BY <1>2, <1>6, <2>1, <2>2, <2>3, OpenAppend DEF prepare_pause_suspend
  <2>5. StopGoPromise!Stop(MainThread)
    BY <1>1, <2>2, <2>4 DEF StopGoPromise!Stop
  <2> QED
    BY <2>5 DEF Promised
<1>7. CASE prepare_pause_request
  <2>1. /\ (process_state' = "SUSPENDED") = (process_state = "SUSPENDED")
        /\ InHand' = InHand /\ UNCHANGED events
    BY <1>7 DEF prepare_pause_request, PauseUnderLock, InHand
  <2> QED
    BY <1>1, <2>1, OpenSame DEF Promised
<1>8. CASE exit_process \/ detach_process
  BY <1>8 DEF exit_process, detach_process, Ending
<1>9. CASE ~(\/ pop_debug_event \/ prepare_pause_queued
             \/ prepare_pause_suspend \/ prepare_pause_request
             \/ exit_process \/ detach_process)
  <2>1. UNCHANGED <<process_state, events>> /\ InHand' = InHand
    BY <1>9 DEF OtherPackets, resume_refused, prepare_pause_begin, MayPause,
       prepare_pause_locked, prepare_pause_ignored, PauseUnderLock, set_step,
       SuspensionPackets,
       thread_suspend, thread_resume, add_soft_bpt, del_soft_bpt,
       update_instrumentation, set_run_app_sem, listener_detached,
       listener_exiting, stateVars, queueVars, idaVars, InHand
  <2> QED
    BY <1>3, <2>1, OpenSame
<1> QED
  BY <1>4, <1>5, <1>6, <1>7, <1>8, <1>9

LEMMA PromiseOfExit ==
  ASSUME SafetyInv, fini_cb \/ finish \/ Reinstrumenter
  PROVE  Promised
<1> USE DEF SafetyInv, TypeInv
<1>1. /\ UNCHANGED <<process_state, last_ev, ida, pc>>
      /\ InHand' = InHand /\ Held' = Held
  BY DEF fini_cb, finish, Reinstrumenter, ReinstrStep, reinstr_start,
     remove_begin, remove_end, reinstr_clear, reinstr_exit, stateVars, queueVars,
     appVars, idaVars, InHand, Held
<1>2. CASE fini_cb
  <2>1. Event("PROCESS_EXIT", MainThread) \in Events
    BY EventType DEF EventIds
  <2>2. One(Event("PROCESS_EXIT", MainThread)) = 0
    BY DEF One, Event, StopEvents
  <2>3. Open \in Nat
    BY StopsAreFinite, OpenIs DEF InHand, TypeOK
  <2>4. Open' = Open
    BY <1>1, <1>2, <2>1, <2>2, <2>3, OpenAppend DEF fini_cb
  <2> QED
    BY <1>1, <2>4 DEF Promised
<1>3. CASE finish \/ Reinstrumenter
  <2>1. UNCHANGED events
    BY <1>3 DEF finish, Reinstrumenter, ReinstrStep, reinstr_start,
       remove_begin, remove_end, reinstr_clear, reinstr_exit, queueVars
  <2> QED
    BY <1>1, <2>1, OpenSame DEF Promised
<1> QED
  BY <1>2, <1>3

LEMMA PromiseInit == Init => StopGoPromise!Init
<1> SUFFICES ASSUME Init PROVE StopGoPromise!Init
  OBVIOUS
<1> DEFINE e == Event("PROCESS_START", MainThread)
<1>1. e \in Events /\ One(e) = 1
  BY EventType DEF One, Event, EventIds, StopEvents
<1>2. <<>> \in Seq(Events) /\ events = Append(<<>>, e)
  BY DEF Init
<1>3. Cardinality(StopsAt(events)) = 0 + 1
  BY <1>1, <1>2, StopsAppend, StopsAreFinite
<1>4. Open = 1
  BY <1>3, OpenIs DEF Init, InHand
<1>5. Held = {} /\ ~Ending /\ process_state = "SUSPENDED"
  BY DEF Init, Held, Ending
<1> QED
  BY <1>4, <1>5 DEF StopGoPromise!Init

LEMMA PromiseStep ==
  ASSUME SafetyInv, SafetyInv', [Next]_vars
  PROVE  [StopGoPromise!Next]_(StopGoPromise!vars)
<1>1. CASE UNCHANGED vars
  <2>1. UNCHANGED <<events, process_state, Held, Ending>> /\ InHand' = InHand
    BY <1>1 DEF vars, stateVars, queueVars, appVars, idaVars, Held, Ending, InHand
  <2> QED
    BY <2>1, OpenSame DEF StopGoPromise!vars
<1>2. CASE Ending'
  BY <1>2 DEF StopGoPromise!Next
<1>3. CASE ~Ending' /\ Next /\ ~UNCHANGED vars
  <2>1. /\ Application \/ Listener \/ Reinstrumenter
        /\ lpc # "exited"
    BY <1>3 DEF Next
  <2>2. ~Ending
    BY <1>3, <2>1, EndingIsStable DEF SafetyInv
  <2>3. Promised
    BY <1>3, <2>1, <2>2, PromiseOfApp, PromiseOfResume, PromiseOfPacket,
       PromiseOfExit DEF Application, Listener
  <2>4. Ending' = Ending
    BY <1>3, <2>2 DEF Ending
  <2>5. \/ StopGoPromise!Next
        \/ UNCHANGED <<process_state = "SUSPENDED", Open, Held>>
    BY <1>3, <2>2, <2>3 DEF Promised, StopGoPromise!Next
  <2> QED
    BY <2>4, <2>5 DEF StopGoPromise!vars
<1> QED
  BY <1>1, <1>2, <1>3

\* Buffered resume as IDA sees it: whatever threads, packets and callbacks do,
\* the tool stops, counts its open reports and lets go as StopGo says.
THEOREM PromiseKept == Spec => KeepsStopGoPromise
BY SafetyHolds, PromiseInit, PromiseStep, PTL
DEF Spec, KeepsStopGoPromise, StopGoPromise!Spec
=============================================================================
