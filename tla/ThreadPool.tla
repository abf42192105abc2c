----------------------------- MODULE ThreadPool -----------------------------
(***************************************************************************)
(* The pool of connection threads (tpool.cc).  Every access to the pool's  *)
(* fields is under one mutex, so a step is what a thread does between      *)
(* taking the mutex and giving it up; wait() gives it up and the thread    *)
(* does nothing until notifyAll() (or a spurious wake-up) makes it compete *)
(* for the mutex again.  The unsigned counters are integers here and TypeOK*)
(* says that they never leave the naturals, that is never wrap around.     *)
(***************************************************************************)
EXTENDS Integers, Sequences, FiniteSets

CONSTANTS
    Threads,    \* threads the operating system lets the pool have at once
    Works,      \* the std::function objects that callers pass
    NoWork,     \* an empty std::function
    MaxCount,   \* m_nMaxCount
    MaxSpare    \* m_nMaxSpare

ASSUME PoolAssumption ==
    /\ IsFiniteSet(Threads)
    /\ NoWork \notin Works
    /\ MaxCount \in Nat
    /\ MaxSpare \in Nat

VARIABLES
    thr,          \* where each thread is in ThreadAction
    work,         \* the function object a running thread executes
    m_nCurActive,
    m_nCurSpare,
    m_freshWork,
    m_shutdown,
    stopper,      \* where the caller of stop() is
    offered,      \* works that were passed to schedule()
    finished      \* works that were executed to the end

vars == <<thr, work, m_nCurActive, m_nCurSpare, m_freshWork, m_shutdown,
          stopper, offered, finished>>

-----------------------------------------------------------------------------

Init ==
    /\ thr = [t \in Threads |-> "none"]
    /\ work = [t \in Threads |-> NoWork]
    /\ m_nCurActive = 0
    /\ m_nCurSpare = 0
    /\ m_freshWork = <<>>
    /\ m_shutdown = FALSE
    /\ stopper = "idle"
    /\ offered = {}
    /\ finished = {}

\* notifyAll(): the waiting threads compete for the mutex again.
Notified(ts) == [t \in Threads |-> IF ts[t] = "waiting" THEN "ready" ELSE ts[t]]

NotifiedStopper(s) == IF s = "waiting" THEN "ready" ELSE s

-----------------------------------------------------------------------------
(* schedule(action)                                                        *)

\* The limit the code tests: twice the active threads, not active + spare.
AtLimit == m_nCurActive + m_nCurActive >= MaxCount

\* Bug for the mutation check: queued work is not counted.
NeedsThreadEmpty == m_nCurSpare = 0

\* Every queued work and the new one shall have a spare thread.
NeedsThread == m_nCurSpare < Len(m_freshWork) + 1

\* schedule() returns false before it changed anything: the limit is
\* reached, the thread cannot be created, or there is a spare thread and no
\* memory for the queue's entry.
ScheduleRefuse(w) ==
    /\ w \notin offered
    /\ offered' = offered \cup {w}
    /\ UNCHANGED <<thr, work, m_nCurActive, m_nCurSpare, m_freshWork,
                   m_shutdown, stopper, finished>>

\* Bug for the mutation check: notifyAll() is missing.
EnqueueSilent(w, ts) ==
    /\ m_freshWork' = Append(m_freshWork, w)
    /\ thr' = ts
    /\ UNCHANGED stopper

\* m_freshWork.emplace_back(), notifyAll()
Enqueue(w, ts) ==
    /\ m_freshWork' = Append(m_freshWork, w)
    /\ thr' = Notified(ts)
    /\ stopper' = NotifiedStopper(stopper)

\* A spare thread is left for the new work.
ScheduleSpare(w) ==
    /\ w \notin offered
    /\ ~AtLimit
    /\ ~NeedsThread
    /\ offered' = offered \cup {w}
    /\ Enqueue(w, thr)
    /\ UNCHANGED <<work, m_nCurActive, m_nCurSpare, m_shutdown, finished>>

\* A new thread, which starts with the request for the mutex.
ScheduleThread(w, t) ==
    /\ w \notin offered
    /\ ~AtLimit
    /\ NeedsThread
    /\ thr[t] = "none"
    /\ offered' = offered \cup {w}
    /\ m_nCurSpare' = m_nCurSpare + 1
    /\ Enqueue(w, [thr EXCEPT ![t] = "ready"])
    /\ UNCHANGED <<work, m_nCurActive, m_shutdown, finished>>

\* The thread was created but there is no memory for the queue's entry.
ScheduleNoMem(w, t) ==
    /\ w \notin offered
    /\ ~AtLimit
    /\ NeedsThread
    /\ thr[t] = "none"
    /\ offered' = offered \cup {w}
    /\ m_nCurSpare' = m_nCurSpare + 1
    /\ thr' = [thr EXCEPT ![t] = "ready"]
    /\ UNCHANGED <<work, m_nCurActive, m_freshWork, m_shutdown, stopper,
                   finished>>

-----------------------------------------------------------------------------
(* ThreadAction                                                            *)

\* Bug for the mutation check: notifyAll() is missing.
LeaveSilent(t) ==
    /\ thr' = [thr EXCEPT ![t] = "none"]
    /\ UNCHANGED stopper

\* The thread returns; notifyAll() is its last deed.
Leave(t) ==
    /\ thr' = Notified([thr EXCEPT ![t] = "none"])
    /\ stopper' = NotifiedStopper(stopper)

ThreadExit(t) ==
    /\ thr[t] = "ready"
    /\ m_shutdown
    /\ m_nCurSpare' = m_nCurSpare - 1
    /\ Leave(t)
    /\ UNCHANGED <<work, m_nCurActive, m_freshWork, m_shutdown, offered,
                   finished>>

ThreadWait(t) ==
    /\ thr[t] = "ready"
    /\ ~m_shutdown
    /\ m_freshWork = <<>>
    /\ thr' = [thr EXCEPT ![t] = "waiting"]
    /\ UNCHANGED <<work, m_nCurActive, m_nCurSpare, m_freshWork, m_shutdown,
                   stopper, offered, finished>>

\* Condition variables may wake up without a notification.
SpuriousWakeup(t) ==
    /\ thr[t] = "waiting"
    /\ thr' = [thr EXCEPT ![t] = "ready"]
    /\ UNCHANGED <<work, m_nCurActive, m_nCurSpare, m_freshWork, m_shutdown,
                   stopper, offered, finished>>

\* Bug for the mutation check: the queue is served before the shutdown test.
MayTakeAnyway == m_freshWork # <<>>

MayTake == ~m_shutdown /\ m_freshWork # <<>>

\* Bug for the mutation check: pop_front() is missing.
NotPopped(q) == q

Popped(q) == Tail(q)

ThreadTake(t) ==
    /\ thr[t] = "ready"
    /\ MayTake
    /\ thr' = [thr EXCEPT ![t] = "running"]
    /\ work' = [work EXCEPT ![t] = Head(m_freshWork)]
    /\ m_freshWork' = Popped(m_freshWork)
    /\ m_nCurSpare' = m_nCurSpare - 1
    /\ m_nCurActive' = m_nCurActive + 1
    /\ UNCHANGED <<m_shutdown, stopper, offered, finished>>

\* Bug for the mutation check: the thread that stays is not counted as spare
\* again.
SpareAgainForgotten == m_nCurSpare

MayStay == m_nCurSpare < MaxSpare /\ ~m_shutdown

SpareAgain == m_nCurSpare + 1

\* c() returned and the function object is released: the thread stays...
ThreadStay(t) ==
    /\ thr[t] = "running"
    /\ MayStay
    /\ thr' = [thr EXCEPT ![t] = "ready"]
    /\ work' = [work EXCEPT ![t] = NoWork]
    /\ finished' = finished \cup {work[t]}
    /\ m_nCurActive' = m_nCurActive - 1
    /\ m_nCurSpare' = SpareAgain
    /\ UNCHANGED <<m_freshWork, m_shutdown, stopper, offered>>

\* ...or it leaves, because enough threads are spare or the pool stops.
ThreadLeave(t) ==
    /\ thr[t] = "running"
    /\ ~MayStay
    /\ Leave(t)
    /\ work' = [work EXCEPT ![t] = NoWork]
    /\ finished' = finished \cup {work[t]}
    /\ m_nCurActive' = m_nCurActive - 1
    /\ UNCHANGED <<m_nCurSpare, m_freshWork, m_shutdown, offered>>

-----------------------------------------------------------------------------
(* stop()                                                                  *)

StopCall ==
    /\ stopper = "idle"
    /\ m_shutdown' = TRUE
    /\ thr' = Notified(thr)
    /\ stopper' = "ready"
    /\ UNCHANGED <<work, m_nCurActive, m_nCurSpare, m_freshWork, offered,
                   finished>>

StopWait ==
    /\ stopper = "ready"
    /\ m_nCurSpare + m_nCurActive # 0
    /\ stopper' = "waiting"
    /\ UNCHANGED <<thr, work, m_nCurActive, m_nCurSpare, m_freshWork,
                   m_shutdown, offered, finished>>

StopSpuriousWakeup ==
    /\ stopper = "waiting"
    /\ stopper' = "ready"
    /\ UNCHANGED <<thr, work, m_nCurActive, m_nCurSpare, m_freshWork,
                   m_shutdown, offered, finished>>

StopReturn ==
    /\ stopper = "ready"
    /\ m_nCurSpare + m_nCurActive = 0
    /\ stopper' = "returned"
    /\ UNCHANGED <<thr, work, m_nCurActive, m_nCurSpare, m_freshWork,
                   m_shutdown, offered, finished>>

-----------------------------------------------------------------------------

ThreadFinish(t) == ThreadStay(t) \/ ThreadLeave(t)

ThreadStep(t) == ThreadExit(t) \/ ThreadWait(t) \/ ThreadTake(t)

Next ==
    \/ \E w \in Works :
         \/ ScheduleRefuse(w)
         \/ ScheduleSpare(w)
         \/ \E t \in Threads : ScheduleThread(w, t) \/ ScheduleNoMem(w, t)
    \/ \E t \in Threads :
         \/ ThreadExit(t)
         \/ ThreadWait(t)
         \/ SpuriousWakeup(t)
         \/ ThreadTake(t)
         \/ ThreadStay(t)
         \/ ThreadLeave(t)
    \/ StopCall
    \/ StopWait
    \/ StopSpuriousWakeup
    \/ StopReturn

Spec == Init /\ [][Next]_vars

-----------------------------------------------------------------------------
(* Properties                                                              *)

SpareThreads == {t \in Threads : thr[t] \in {"ready", "waiting"}}

ActiveThreads == {t \in Threads : thr[t] = "running"}

\* The unsigned counters stay natural numbers, so "m_nCurSpare--" in the
\* shutdown path and after the work never wraps around.
TypeOK ==
    /\ thr \in [Threads -> {"none", "ready", "waiting", "running"}]
    /\ work \in [Threads -> Works \cup {NoWork}]
    /\ m_nCurActive \in Nat
    /\ m_nCurSpare \in Nat
    /\ m_freshWork \in Seq(Works)
    /\ m_shutdown \in BOOLEAN
    /\ stopper \in {"idle", "ready", "waiting", "returned"}
    /\ offered \subseteq Works
    /\ finished \subseteq Works

\* The counters are the numbers of threads they are named for, on every path
\* through schedule() and ThreadAction(), the failing ones included: stop()
\* relies on it to wait for every thread and not for ever.
CountsExact ==
    /\ m_nCurSpare = Cardinality(SpareThreads)
    /\ m_nCurActive = Cardinality(ActiveThreads)

\* A connection that was accepted has a thread on its way to it: there are
\* as many spare threads as there is queued work.
QueueServed == ~m_shutdown => Len(m_freshWork) <= m_nCurSpare

\* No wake-up is lost: nobody sleeps while there is work to take or the pool
\* stops, and stop() does not sleep when the last thread has left.
NoLostWakeup ==
    /\ m_freshWork # <<>> \/ m_shutdown =>
         \A t \in Threads : thr[t] # "waiting"
    /\ stopper = "waiting" => m_nCurSpare + m_nCurActive > 0

\* "Max. count of connection threads kept ready": threads without work to
\* come are at most MaxSpare, bursts and failing schedule() calls included
\* (one such thread exists after a failure even if none shall be kept).
IdleBounded ==
    m_nCurSpare - Len(m_freshWork) <= IF MaxSpare = 0 THEN 1 ELSE MaxSpare

\* The pool keeps the promise of Executor.
Promise == INSTANCE Executor WITH
    pending <- m_freshWork,
    running <- {work[t] : t \in ActiveThreads},
    finished <- finished,
    phase <- CASE stopper = "idle" -> "open"
               [] stopper \in {"ready", "waiting"} -> "stopping"
               [] stopper = "returned" -> "stopped"

ImplementsExecutor == Promise!Spec
=============================================================================
