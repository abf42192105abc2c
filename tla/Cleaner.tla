------------------------------ MODULE Cleaner -------------------------------
(***************************************************************************)
(* The scheduler of background work (cleaner.cc).  Components call         *)
(* ScheduleFor to be called back at a time; one thread, made by the first  *)
(* request, takes a snapshot of all requests, runs the due ones without    *)
(* the mutex, merges what they ask for next with what was requested        *)
(* meanwhile, and sleeps.  Stop ends the thread and joins it.              *)
(*                                                                         *)
(* request is a history variable: the earliest time for which a component  *)
(* asked since its last call.                                              *)
(***************************************************************************)
EXTENDS Integers, FiniteSets

CONSTANTS
    ETYPE_MAX,  \* number of components, cleaner::eType
    Clock,      \* the values of GetTime()
    EndOfTime,  \* END_OF_TIME: never
    MaxWait     \* the limit of one wait, 84600 seconds

ASSUME CleanerAssumption ==
    /\ ETYPE_MAX \in Nat
    /\ Clock \subseteq Nat /\ Clock # {}
    /\ EndOfTime \in Nat /\ \A t \in Clock : t < EndOfTime
    /\ MaxWait \in Nat \ {0}

eType == 1..ETYPE_MAX

VARIABLES
    now,           \* GetTime()
    in_shutdown,   \* evabase::in_shutdown
    m_terminating,
    m_thr,         \* the thread was created
    stamps,        \* when each component is to be called
    pc,            \* where the thread is in WorkLoop
    cur,           \* its loop counter
    snapshot,      \* its copy of the stamps
    passNow,       \* its copy of the time
    deadline,      \* the end of its wait
    stopping,      \* where the caller of Stop() is
    request        \* history: what the components asked for

thrvars == <<pc, cur, snapshot, passNow, deadline>>

cleanerVars == <<now, in_shutdown, m_terminating, m_thr, stamps, thrvars,
                 stopping, request>>

Moments == Clock \cup {EndOfTime}

-----------------------------------------------------------------------------

Lower(a, b) == IF a <= b THEN a ELSE b

\* stamps.fill(END_OF_TIME)
Filled == [i \in eType |-> EndOfTime]

CleanerInit ==
    /\ now \in Clock
    /\ in_shutdown = FALSE
    /\ m_terminating = FALSE
    /\ m_thr = FALSE
    /\ stamps = Filled
    /\ pc = "none"
    /\ cur = 1
    /\ snapshot = Filled
    /\ passNow = now
    /\ deadline = 0
    /\ stopping = "no"
    /\ request = [i \in eType |-> EndOfTime]

-----------------------------------------------------------------------------
(* ScheduleFor                                                             *)

\* Bug for the mutation check: notifyAll() is missing.
NotNotified(p) == p

\* notifyAll(): a thread in wait_for returns from it.
Notified(p) == IF p = "waiting" THEN "top" ELSE p

Asked(when, what) == [request EXCEPT ![what] = Lower(@, when)]

\* The first request makes the thread.
ScheduleFirst(when, what) ==
    /\ ~in_shutdown
    /\ ~m_thr
    /\ m_thr' = TRUE
    /\ stamps' = [Filled EXCEPT ![what] = when]
    /\ pc' = "top"
    /\ request' = Asked(when, what)
    /\ UNCHANGED <<now, in_shutdown, m_terminating, cur, snapshot, passNow,
                   deadline, stopping>>

ScheduleEarlier(when, what) ==
    /\ ~in_shutdown
    /\ m_thr
    /\ when <= stamps[what]
    /\ stamps' = [stamps EXCEPT ![what] = when]
    /\ pc' = Notified(pc)
    /\ request' = Asked(when, what)
    /\ UNCHANGED <<now, in_shutdown, m_terminating, m_thr, cur, snapshot,
                   passNow, deadline, stopping>>

\* "already scheduled for an earlier moment"
ScheduleCovered(when, what) ==
    /\ ~in_shutdown
    /\ m_thr
    /\ when > stamps[what]
    /\ request' = Asked(when, what)
    /\ UNCHANGED <<now, in_shutdown, m_terminating, m_thr, stamps, thrvars,
                   stopping>>

-----------------------------------------------------------------------------
(* WorkLoop                                                                *)

\* Bug for the mutation check: only the program's end is noticed.
EndNoticedLate == in_shutdown

EndNoticed == m_terminating \/ in_shutdown

LoopEnd ==
    /\ pc = "top"
    /\ EndNoticed
    /\ pc' = "exited"
    /\ UNCHANGED <<now, in_shutdown, m_terminating, m_thr, stamps, cur,
                   snapshot, passNow, deadline, stopping, request>>

\* The time is read before the mutex is taken.
LoopTime ==
    /\ pc = "top"
    /\ ~EndNoticed
    /\ passNow' = now
    /\ pc' = "snapshot"
    /\ UNCHANGED <<now, in_shutdown, m_terminating, m_thr, stamps, cur,
                   snapshot, deadline, stopping, request>>

LoopSnapshot ==
    /\ pc = "snapshot"
    /\ snapshot' = stamps
    /\ stamps' = Filled
    /\ cur' = 1
    /\ pc' = "tasks"
    /\ UNCHANGED <<now, in_shutdown, m_terminating, m_thr, passNow, deadline,
                   stopping, request>>

TaskNotDue ==
    /\ pc = "tasks"
    /\ cur \in eType
    /\ snapshot[cur] > passNow
    /\ cur' = cur + 1
    /\ UNCHANGED <<now, in_shutdown, m_terminating, m_thr, stamps, pc,
                   snapshot, passNow, deadline, stopping, request>>

TaskEnd ==
    /\ pc = "tasks"
    /\ cur \in eType
    /\ snapshot[cur] <= passNow
    /\ EndNoticed
    /\ pc' = "exited"
    /\ UNCHANGED <<now, in_shutdown, m_terminating, m_thr, stamps, cur,
                   snapshot, passNow, deadline, stopping, request>>

\* The component's BackgroundCleanup, atomic under the component's mutex,
\* which its calls of ScheduleFor hold, too.  It returns when it wants to be
\* called next, in the future or never.
TaskRun(next) ==
    /\ pc = "tasks"
    /\ cur \in eType
    /\ snapshot[cur] <= passNow
    /\ ~EndNoticed
    /\ next > now
    /\ snapshot' = [snapshot EXCEPT ![cur] = next]
    /\ request' = [request EXCEPT ![cur] = next]
    /\ cur' = cur + 1
    /\ UNCHANGED <<now, in_shutdown, m_terminating, m_thr, stamps, pc, passNow,
                   deadline, stopping>>

\* Bug for the mutation check: what was requested meanwhile is overwritten.
MergedOver(snap, st) == snap

Merged(snap, st) == Lower(snap, st)

Playback ==
    [i \in eType |-> Merged(snapshot[i], stamps[i])]

LoopAgain ==
    /\ pc = "tasks"
    /\ cur \notin eType
    /\ \E i \in eType : Playback[i] <= now
    /\ stamps' = Playback
    /\ pc' = "top"
    /\ UNCHANGED <<now, in_shutdown, m_terminating, m_thr, cur, snapshot,
                   passNow, deadline, stopping, request>>

\* wait_for the earliest stamp, but not longer than MaxWait.  Whether the
\* thread shall end is not looked at here.
LoopWait ==
    /\ pc = "tasks"
    /\ cur \notin eType
    /\ \A i \in eType : Playback[i] > now
    /\ stamps' = Playback
    /\ \E d \in Moments \cup {now + MaxWait} :
         /\ d <= now + MaxWait /\ \A i \in eType : d <= Playback[i]
         /\ d = now + MaxWait \/ \E i \in eType : d = Playback[i]
         /\ deadline' = d
    /\ pc' = "waiting"
    /\ UNCHANGED <<now, in_shutdown, m_terminating, m_thr, cur, snapshot,
                   passNow, stopping, request>>

\* The last value of the clock stands for all later ones.
WaitTimeout ==
    /\ pc = "waiting"
    /\ now >= deadline \/ \A t \in Clock : t <= now
    /\ pc' = "top"
    /\ UNCHANGED <<now, in_shutdown, m_terminating, m_thr, stamps, cur,
                   snapshot, passNow, deadline, stopping, request>>

SpuriousWakeup ==
    /\ pc = "waiting"
    /\ pc' = "top"
    /\ UNCHANGED <<now, in_shutdown, m_terminating, m_thr, stamps, cur,
                   snapshot, passNow, deadline, stopping, request>>

-----------------------------------------------------------------------------
(* Stop, and the environment                                               *)

StopCall ==
    /\ stopping = "no"
    /\ m_thr
    /\ m_terminating' = TRUE
    /\ pc' = Notified(pc)
    /\ stopping' = "joining"
    /\ UNCHANGED <<now, in_shutdown, m_thr, stamps, cur, snapshot, passNow,
                   deadline, request>>

StopNothing ==
    /\ stopping = "no"
    /\ ~m_thr
    /\ stopping' = "done"
    /\ UNCHANGED <<now, in_shutdown, m_terminating, m_thr, stamps, thrvars,
                   request>>

StopJoin ==
    /\ stopping = "joining"
    /\ pc = "exited"
    /\ m_thr' = FALSE
    /\ stopping' = "done"
    /\ UNCHANGED <<now, in_shutdown, m_terminating, stamps, thrvars, request>>

SignalShutdown ==
    /\ ~in_shutdown
    /\ in_shutdown' = TRUE
    /\ UNCHANGED <<now, m_terminating, m_thr, stamps, thrvars, stopping, request>>

CleanerTick ==
    /\ \E t \in Clock :
         /\ t > now
         /\ \A u \in Clock : u > now => t <= u
         /\ now' = t
    /\ UNCHANGED <<in_shutdown, m_terminating, m_thr, stamps, thrvars, stopping,
                   request>>

WorkLoop ==
    \/ LoopEnd
    \/ LoopTime
    \/ LoopSnapshot
    \/ TaskNotDue
    \/ TaskEnd
    \/ \E next \in Moments : TaskRun(next)
    \/ LoopAgain
    \/ LoopWait
    \/ WaitTimeout

CleanerNext ==
    \/ \E when \in Clock, what \in eType :
         \/ ScheduleFirst(when, what)
         \/ ScheduleEarlier(when, what)
         \/ ScheduleCovered(when, what)
    \/ WorkLoop
    \/ SpuriousWakeup
    \/ StopCall
    \/ StopNothing
    \/ StopJoin
    \/ SignalShutdown
    \/ CleanerTick

CleanerSpec == CleanerInit /\ [][CleanerNext]_cleanerVars

\* The thread runs, time passes, and pthread_join returns.
Fairness ==
    /\ WF_cleanerVars(WorkLoop)
    /\ WF_cleanerVars(CleanerTick)
    /\ WF_cleanerVars(StopJoin)

FairSpec == CleanerSpec /\ Fairness

-----------------------------------------------------------------------------
(* Properties                                                              *)

CleanerTypeOK ==
    /\ now \in Clock
    /\ in_shutdown \in BOOLEAN
    /\ m_terminating \in BOOLEAN
    /\ m_thr \in BOOLEAN
    /\ stamps \in [eType -> Moments]
    /\ pc \in {"none", "top", "snapshot", "tasks", "waiting", "exited"}
    /\ cur \in 1..(ETYPE_MAX + 1)
    /\ snapshot \in [eType -> Moments]
    /\ passNow \in Clock
    /\ deadline \in Nat
    /\ stopping \in {"no", "joining", "done"}
    /\ request \in [eType -> Moments]

\* The server ends, or the cleaner was stopped: requests are void.
Ended == m_terminating \/ in_shutdown

\* No request is forgotten: whatever a component asked for, before, during
\* or after the pass that runs it, is in the stamps or in the snapshot that
\* the thread will merge, at that time or earlier.
RequestCovered ==
    ~Ended => \A i \in eType :
        \/ stamps[i] <= request[i]
        \/ pc = "tasks" /\ snapshot[i] <= request[i]

\* The thread never sleeps past a request: ScheduleFor shortens the sleep.
WakesInTime ==
    pc = "waiting" /\ ~Ended => \A i \in eType : deadline <= request[i]

\* A component is called after the time it asked for.
DueIsRun ==
    \A i \in eType : request[i] <= now ~> (request[i] > now \/ Ended)

\* Stop() returns, whatever the thread is doing when it is called.
StopReturns == stopping = "joining" ~> stopping = "done"
=============================================================================
