-------------------------- MODULE ConServerProofs ---------------------------
(***************************************************************************)
(* Proofs about ThreadPool and ConServer, for any number of clients and    *)
(* threads and any limits of the pool.                                     *)
(*                                                                         *)
(* The pool first.  Its counters are shown to be exact together with the   *)
(* facts about the queue: none of them is inductive alone, because a       *)
(* decrement stays natural only as long as the counter is exact, and the   *)
(* queue is served only as long as every thread that takes work was        *)
(* counted spare.                                                          *)
(*                                                                         *)
(* Then the server.  It drives the pool by the pool's own steps, so it     *)
(* keeps all that was shown of the pool; on top of that the owner of every *)
(* descriptor is where the pool has its closure.                           *)
(***************************************************************************)
EXTENDS ConServer, FiniteSetTheorems, SequenceTheorems, TLAPS

(* The thread pool                                                         *)

SpareIn(ts) == {t \in Threads : ts[t] \in {"ready", "waiting"}}

ActiveIn(ts) == {t \in Threads : ts[t] = "running"}

ThreadStates == {"none", "ready", "waiting", "running"}

\* A running thread has a work, and only such a thread.
WorkOwned == \A t \in Threads : thr[t] = "running" <=> work[t] # NoWork

\* m_shutdown is set by the caller of stop() and never reset.
StopInv == m_shutdown <=> stopper # "idle"

\* A work is in one place: it was offered, it is in the queue at most once,
\* or with at most one thread.
OnePlace ==
    /\ \A k \in DOMAIN m_freshWork : m_freshWork[k] \in offered
    /\ \A j, k \in DOMAIN m_freshWork : m_freshWork[j] = m_freshWork[k] => j = k
    /\ \A t \in Threads : work[t] # NoWork => work[t] \in offered
    /\ \A t \in Threads, k \in DOMAIN m_freshWork : work[t] # m_freshWork[k]
    /\ \A t, u \in Threads : work[t] # NoWork /\ work[t] = work[u] => t = u

CountInv == TypeOK /\ CountsExact /\ WorkOwned /\ StopInv

IInv == CountInv /\ QueueServed /\ NoLostWakeup /\ IdleBounded /\ OnePlace

-----------------------------------------------------------------------------
(* Lemmas                                                                  *)

\* A set with one element more or less.
LEMMA CardPlus ==
    ASSUME NEW A, NEW B, NEW t, IsFiniteSet(A), t \notin A, B = A \cup {t}
    PROVE  Cardinality(B) = Cardinality(A) + 1
  BY FS_AddElement

\* One element less.
LEMMA CardMinus ==
    ASSUME NEW A, NEW B, NEW t, IsFiniteSet(A), t \in A, B = A \ {t}
    PROVE  /\ Cardinality(B) = Cardinality(A) - 1
           /\ Cardinality(A) > 0
  <1>1. IsFiniteSet(B) /\ Cardinality(B) = Cardinality(A) - 1
    BY FS_RemoveElement
  <1>2. Cardinality(B) \in Nat /\ Cardinality(A) \in Nat
    BY <1>1, FS_CardinalityType
  <1> QED  BY <1>1, <1>2

\* The thread sets are finite.
LEMMA ThreadSetsFinite ==
    ASSUME NEW ts
    PROVE  IsFiniteSet(SpareIn(ts)) /\ IsFiniteSet(ActiveIn(ts))
  BY PoolAssumption, FS_Subset DEF SpareIn, ActiveIn

\* notifyAll() changes waiting threads to ready ones and nothing else.
LEMMA NotifiedFacts ==
    ASSUME NEW ts \in [Threads -> ThreadStates]
    PROVE  /\ Notified(ts) \in [Threads -> ThreadStates]
           /\ SpareIn(Notified(ts)) = SpareIn(ts)
           /\ ActiveIn(Notified(ts)) = ActiveIn(ts)
           /\ \A t \in Threads : Notified(ts)[t] # "waiting"
           /\ \A t \in Threads : Notified(ts)[t] = "running" <=> ts[t] = "running"
  BY DEF Notified, SpareIn, ActiveIn, ThreadStates

\* What one thread's step does to the two thread sets.
LEMMA ThreadMoves ==
    ASSUME NEW ts \in [Threads -> ThreadStates], NEW t \in Threads,
           NEW s \in ThreadStates
    PROVE  /\ [ts EXCEPT ![t] = s] \in [Threads -> ThreadStates]
           /\ SpareIn([ts EXCEPT ![t] = s]) =
                IF s \in {"ready", "waiting"} THEN SpareIn(ts) \cup {t}
                                              ELSE SpareIn(ts) \ {t}
           /\ ActiveIn([ts EXCEPT ![t] = s]) =
                IF s = "running" THEN ActiveIn(ts) \cup {t}
                                 ELSE ActiveIn(ts) \ {t}
  <1> DEFINE us == [ts EXCEPT ![t] = s]
  <1>1. us \in [Threads -> ThreadStates]
    OBVIOUS
  <1>2. us[t] = s /\ \A u \in Threads \ {t} : us[u] = ts[u]
    OBVIOUS
  <1> HIDE DEF us
  <1>3. SpareIn(us) = IF s \in {"ready", "waiting"} THEN SpareIn(ts) \cup {t}
                                                    ELSE SpareIn(ts) \ {t}
    BY <1>2 DEF SpareIn
  <1>4. ActiveIn(us) = IF s = "running" THEN ActiveIn(ts) \cup {t}
                                        ELSE ActiveIn(ts) \ {t}
    BY <1>2 DEF ActiveIn
  <1> QED  BY <1>1, <1>3, <1>4 DEF us

\* The same, for each state a thread can enter.
LEMMA BecomesSpare ==
    ASSUME NEW ts \in [Threads -> ThreadStates], NEW t \in Threads,
           NEW s \in {"ready", "waiting"}
    PROVE  /\ [ts EXCEPT ![t] = s] \in [Threads -> ThreadStates]
           /\ SpareIn([ts EXCEPT ![t] = s]) = SpareIn(ts) \cup {t}
           /\ ActiveIn([ts EXCEPT ![t] = s]) = ActiveIn(ts) \ {t}
  <1>1. s \in ThreadStates /\ s # "running"
    BY DEF ThreadStates
  <1> QED  BY <1>1, ThreadMoves

\* A thread ends.
LEMMA BecomesNone ==
    ASSUME NEW ts \in [Threads -> ThreadStates], NEW t \in Threads
    PROVE  /\ [ts EXCEPT ![t] = "none"] \in [Threads -> ThreadStates]
           /\ SpareIn([ts EXCEPT ![t] = "none"]) = SpareIn(ts) \ {t}
           /\ ActiveIn([ts EXCEPT ![t] = "none"]) = ActiveIn(ts) \ {t}
  <1>1. "none" \in ThreadStates
    BY DEF ThreadStates
  <1> QED  BY <1>1, ThreadMoves

\* A thread has taken a work.
LEMMA BecomesRunning ==
    ASSUME NEW ts \in [Threads -> ThreadStates], NEW t \in Threads
    PROVE  /\ [ts EXCEPT ![t] = "running"] \in [Threads -> ThreadStates]
           /\ SpareIn([ts EXCEPT ![t] = "running"]) = SpareIn(ts) \ {t}
           /\ ActiveIn([ts EXCEPT ![t] = "running"]) = ActiveIn(ts) \cup {t}
  <1>1. "running" \in ThreadStates
    BY DEF ThreadStates
  <1> QED  BY <1>1, ThreadMoves

\* WorkOwned in terms of the thread sets.
LEMMA WorkOwnedIn ==
    /\ WorkOwned <=> \A t \in Threads : t \in ActiveIn(thr) <=> work[t] # NoWork
    /\ WorkOwned' <=> \A t \in Threads : t \in ActiveIn(thr') <=> work'[t] # NoWork
  BY DEF WorkOwned, ActiveIn

\* The counters as the invariant has them, in terms of thr.
LEMMA CountsIn ==
    /\ CountsExact <=> /\ m_nCurSpare = Cardinality(SpareIn(thr))
                       /\ m_nCurActive = Cardinality(ActiveIn(thr))
    /\ CountsExact' <=> /\ m_nCurSpare' = Cardinality(SpareIn(thr'))
                        /\ m_nCurActive' = Cardinality(ActiveIn(thr'))
  BY DEF CountsExact, SpareThreads, ActiveThreads, SpareIn, ActiveIn

-----------------------------------------------------------------------------
(* Counters                                                                *)

\* The counters of an empty pool are exact.
LEMMA InitCount == Init => CountInv
  <1> SUFFICES ASSUME Init PROVE CountInv
    OBVIOUS
  <1>a. TypeOK
    <2>1. thr \in [Threads -> {"none", "ready", "waiting", "running"}]
      BY DEF Init
    <2>2. work \in [Threads -> Works \cup {NoWork}]
      BY DEF Init
    <2>3. m_freshWork \in Seq(Works)
      BY DEF Init
    <2> QED  BY <2>1, <2>2, <2>3 DEF Init, TypeOK
  <1>b. WorkOwned
    BY DEF Init, WorkOwned
  <1>c. StopInv
    BY DEF Init, StopInv
  <1>1. TypeOK /\ WorkOwned /\ StopInv
    BY <1>a, <1>b, <1>c
  <1>2. SpareThreads = {} /\ ActiveThreads = {}
    BY DEF Init, SpareThreads, ActiveThreads
  <1>3. CountsExact
    BY <1>2, FS_EmptySet DEF Init, CountsExact
  <1> QED  BY <1>1, <1>3 DEF CountInv

\* A step that leaves the thread sets and the counters alone.
LEMMA SameCounts ==
    ASSUME CountsExact, SpareIn(thr') = SpareIn(thr),
           ActiveIn(thr') = ActiveIn(thr),
           UNCHANGED <<m_nCurSpare, m_nCurActive>>
    PROVE  CountsExact'
  BY CountsIn

\* Every step of the pool keeps the counters exact.
LEMMA NextCount == CountInv /\ [Next]_vars => CountInv'
  <1> SUFFICES ASSUME CountInv, [Next]_vars PROVE CountInv'
    OBVIOUS
  <1> USE DEF CountInv
  <1>0. /\ TypeOK /\ CountsExact /\ WorkOwned /\ StopInv
        /\ thr \in [Threads -> ThreadStates]
        /\ m_nCurSpare = Cardinality(SpareIn(thr))
        /\ m_nCurActive = Cardinality(ActiveIn(thr))
        /\ IsFiniteSet(SpareIn(thr)) /\ IsFiniteSet(ActiveIn(thr))
        /\ NoWork \notin Works
    BY CountsIn, ThreadSetsFinite, PoolAssumption DEF TypeOK, ThreadStates
  <1>1. ASSUME NEW w \in Works, ScheduleRefuse(w)
        PROVE  CountInv'
    <2>1. TypeOK' /\ WorkOwned' /\ StopInv'
      BY <1>0, <1>1 DEF ScheduleRefuse, TypeOK, WorkOwned, StopInv
    <2>2. CountsExact'
      BY <1>0, <1>1, SameCounts DEF ScheduleRefuse
    <2> QED  BY <2>1, <2>2
  <1>2. ASSUME NEW w \in Works, ScheduleSpare(w)
        PROVE  CountInv'
    <2>1. /\ thr' = Notified(thr)
          /\ m_freshWork' = Append(m_freshWork, w)
          /\ stopper' = NotifiedStopper(stopper)
          /\ offered' = offered \cup {w}
          /\ UNCHANGED <<work, m_nCurActive, m_nCurSpare, m_shutdown, finished>>
      BY <1>2 DEF ScheduleSpare, Enqueue
    <2>a. TypeOK' /\ StopInv'
      BY <1>0, <2>1, NotifiedFacts DEF TypeOK, StopInv, NotifiedStopper, ThreadStates
    <2>b. WorkOwned'
      BY <1>0, <2>1, NotifiedFacts, WorkOwnedIn
    <2>2. TypeOK' /\ WorkOwned' /\ StopInv'
      BY <2>a, <2>b
    <2>3. CountsExact'
      BY <1>0, <2>1, NotifiedFacts, SameCounts
    <2> QED  BY <2>2, <2>3
  <1>3. ASSUME NEW w \in Works, NEW t \in Threads, ScheduleThread(w, t)
        PROVE  CountInv'
    <2> DEFINE ts == [thr EXCEPT ![t] = "ready"]
    <2>1. /\ thr' = Notified(ts)
          /\ thr[t] = "none"
          /\ m_freshWork' = Append(m_freshWork, w)
          /\ stopper' = NotifiedStopper(stopper)
          /\ offered' = offered \cup {w}
          /\ m_nCurSpare' = m_nCurSpare + 1
          /\ UNCHANGED <<work, m_nCurActive, m_shutdown, finished>>
      BY <1>3 DEF ScheduleThread, Enqueue
    <2>2. /\ ts \in [Threads -> ThreadStates]
          /\ SpareIn(ts) = SpareIn(thr) \cup {t}
          /\ ActiveIn(ts) = ActiveIn(thr) \ {t}
      BY <1>0, <2>1, BecomesSpare
    <2>3. t \notin SpareIn(thr) /\ t \notin ActiveIn(thr)
      BY <2>1 DEF SpareIn, ActiveIn
    <2> HIDE DEF ts
    <2>4. /\ thr' \in [Threads -> ThreadStates]
          /\ SpareIn(thr') = SpareIn(thr) \cup {t}
          /\ ActiveIn(thr') = ActiveIn(thr)
      BY <2>1, <2>2, <2>3, NotifiedFacts
    <2>a. TypeOK' /\ StopInv'
      BY <1>0, <2>1, <2>4 DEF TypeOK, StopInv, NotifiedStopper, ThreadStates
    <2>b. WorkOwned'
      BY <1>0, <2>1, <2>4, WorkOwnedIn
    <2>5. TypeOK' /\ WorkOwned' /\ StopInv'
      BY <2>a, <2>b
    <2>6. CountsExact'
      BY <1>0, <2>1, <2>3, <2>4, CountsIn, CardPlus
    <2> QED  BY <2>5, <2>6
  <1>4. ASSUME NEW w \in Works, NEW t \in Threads, ScheduleNoMem(w, t)
        PROVE  CountInv'
    <2>1. /\ thr' = [thr EXCEPT ![t] = "ready"]
          /\ thr[t] = "none"
          /\ offered' = offered \cup {w}
          /\ m_nCurSpare' = m_nCurSpare + 1
          /\ UNCHANGED <<work, m_nCurActive, m_freshWork, m_shutdown, stopper,
                         finished>>
      BY <1>4 DEF ScheduleNoMem
    <2>2. /\ t \notin SpareIn(thr) /\ t \notin ActiveIn(thr)
          /\ ActiveIn(thr) \ {t} = ActiveIn(thr)
      BY <2>1 DEF SpareIn, ActiveIn
    <2>3. /\ thr' \in [Threads -> ThreadStates]
          /\ SpareIn(thr') = SpareIn(thr) \cup {t}
          /\ ActiveIn(thr') = ActiveIn(thr)
      BY <1>0, <2>1, <2>2, BecomesSpare
    <2>a. TypeOK' /\ StopInv'
      BY <1>0, <2>1, <2>3 DEF TypeOK, StopInv, ThreadStates
    <2>b. WorkOwned'
      BY <1>0, <2>1, <2>3, WorkOwnedIn
    <2>4. TypeOK' /\ WorkOwned' /\ StopInv'
      BY <2>a, <2>b
    <2>5. CountsExact'
      BY <1>0, <2>1, <2>2, <2>3, CountsIn, CardPlus
    <2> QED  BY <2>4, <2>5
  <1>5. ASSUME NEW t \in Threads, ThreadExit(t)
        PROVE  CountInv'
    <2> DEFINE ts == [thr EXCEPT ![t] = "none"]
    <2>1. /\ thr[t] = "ready" /\ m_shutdown
          /\ thr' = Notified(ts)
          /\ stopper' = NotifiedStopper(stopper)
          /\ m_nCurSpare' = m_nCurSpare - 1
          /\ UNCHANGED <<work, m_nCurActive, m_freshWork, m_shutdown, offered,
                         finished>>
      BY <1>5 DEF ThreadExit, Leave
    <2>2. /\ t \in SpareIn(thr) /\ t \notin ActiveIn(thr)
          /\ ActiveIn(thr) \ {t} = ActiveIn(thr)
      BY <2>1 DEF SpareIn, ActiveIn
    <2>3. /\ ts \in [Threads -> ThreadStates]
          /\ SpareIn(ts) = SpareIn(thr) \ {t}
          /\ ActiveIn(ts) = ActiveIn(thr)
      BY <1>0, <2>1, <2>2, BecomesNone
    <2> HIDE DEF ts
    <2>4. /\ thr' \in [Threads -> ThreadStates]
          /\ SpareIn(thr') = SpareIn(thr) \ {t}
          /\ ActiveIn(thr') = ActiveIn(thr)
      BY <2>1, <2>3, NotifiedFacts
    <2>5. CountsExact' /\ m_nCurSpare > 0
      BY <1>0, <2>1, <2>2, <2>4, CountsIn, CardMinus
    <2>a. TypeOK' /\ StopInv'
      BY <1>0, <2>1, <2>4, <2>5 DEF TypeOK, StopInv, NotifiedStopper, ThreadStates
    <2>b. WorkOwned'
      BY <1>0, <2>1, <2>4, <2>5, WorkOwnedIn
    <2>6. TypeOK' /\ WorkOwned' /\ StopInv'
      BY <2>a, <2>b
    <2> QED  BY <2>5, <2>6
  <1>6. ASSUME NEW t \in Threads, ThreadWait(t) \/ SpuriousWakeup(t)
        PROVE  CountInv'
    <2>1. /\ thr[t] \in {"ready", "waiting"}
          /\ \E s \in {"ready", "waiting"} : thr' = [thr EXCEPT ![t] = s]
          /\ UNCHANGED <<work, m_nCurActive, m_nCurSpare, m_freshWork,
                         m_shutdown, stopper, offered, finished>>
      BY <1>6 DEF ThreadWait, SpuriousWakeup
    <2>2. PICK s \in {"ready", "waiting"} : thr' = [thr EXCEPT ![t] = s]
      BY <2>1
    <2>3. /\ SpareIn(thr) \cup {t} = SpareIn(thr)
          /\ ActiveIn(thr) \ {t} = ActiveIn(thr)
      BY <2>1 DEF SpareIn, ActiveIn
    <2>4. /\ thr' \in [Threads -> ThreadStates]
          /\ SpareIn(thr') = SpareIn(thr)
          /\ ActiveIn(thr') = ActiveIn(thr)
      BY <1>0, <2>2, <2>3, BecomesSpare
    <2>a. TypeOK' /\ StopInv'
      BY <1>0, <2>1, <2>4 DEF TypeOK, StopInv, ThreadStates
    <2>b. WorkOwned'
      BY <1>0, <2>1, <2>4, WorkOwnedIn
    <2>6. TypeOK' /\ WorkOwned' /\ StopInv'
      BY <2>a, <2>b
    <2>7. CountsExact'
      BY <1>0, <2>1, <2>4, SameCounts
    <2> QED  BY <2>6, <2>7
  <1>7. ASSUME NEW t \in Threads, ThreadTake(t)
        PROVE  CountInv'
    <2>1. /\ thr[t] = "ready" /\ m_freshWork # <<>>
          /\ thr' = [thr EXCEPT ![t] = "running"]
          /\ work' = [work EXCEPT ![t] = Head(m_freshWork)]
          /\ m_freshWork' = Tail(m_freshWork)
          /\ m_nCurSpare' = m_nCurSpare - 1
          /\ m_nCurActive' = m_nCurActive + 1
          /\ UNCHANGED <<m_shutdown, stopper, offered, finished>>
      BY <1>7 DEF ThreadTake, MayTake, Popped
    <2>2. /\ t \in SpareIn(thr) /\ t \notin ActiveIn(thr)
          /\ ActiveIn(thr) \ {t} = ActiveIn(thr)
      BY <2>1 DEF SpareIn, ActiveIn
    <2>3. /\ thr' \in [Threads -> ThreadStates]
          /\ SpareIn(thr') = SpareIn(thr) \ {t}
          /\ ActiveIn(thr') = ActiveIn(thr) \cup {t}
      BY <1>0, <2>1, BecomesRunning
    <2>4. CountsExact' /\ m_nCurSpare > 0
      BY <1>0, <2>1, <2>2, <2>3, CountsIn, CardMinus, CardPlus
    <2>5. Head(m_freshWork) \in Works /\ Tail(m_freshWork) \in Seq(Works)
      BY <1>0, <2>1 DEF TypeOK
    <2>a. work' \in [Threads -> Works \cup {NoWork}]
      BY <1>0, <2>1, <2>5 DEF TypeOK
    <2>b. m_nCurSpare' \in Nat /\ m_nCurActive' \in Nat
      BY <1>0, <2>1, <2>4 DEF TypeOK
    <2>6. TypeOK' /\ StopInv'
      BY <1>0, <2>1, <2>3, <2>a, <2>b, <2>5 DEF TypeOK, StopInv, ThreadStates
    <2>c. \A u \in Threads : work'[u] = IF u = t THEN Head(m_freshWork) ELSE work[u]
      BY <1>0, <2>1 DEF TypeOK
    <2>7. WorkOwned'
      BY <1>0, <2>3, <2>5, <2>c, WorkOwnedIn
    <2> QED  BY <2>4, <2>6, <2>7
  <1>8. ASSUME NEW t \in Threads, ThreadStay(t)
        PROVE  CountInv'
    <2>1. /\ thr[t] = "running"
          /\ thr' = [thr EXCEPT ![t] = "ready"]
          /\ work' = [work EXCEPT ![t] = NoWork]
          /\ finished' = finished \cup {work[t]}
          /\ m_nCurActive' = m_nCurActive - 1
          /\ m_nCurSpare' = m_nCurSpare + 1
          /\ UNCHANGED <<m_freshWork, m_shutdown, stopper, offered>>
      BY <1>8 DEF ThreadStay, SpareAgain
    <2>2. /\ t \notin SpareIn(thr) /\ t \in ActiveIn(thr)
          /\ SpareIn(thr) \ {t} = SpareIn(thr)
      BY <2>1 DEF SpareIn, ActiveIn
    <2>3. /\ thr' \in [Threads -> ThreadStates]
          /\ SpareIn(thr') = SpareIn(thr) \cup {t}
          /\ ActiveIn(thr') = ActiveIn(thr) \ {t}
      BY <1>0, <2>1, BecomesSpare
    <2>4. CountsExact' /\ m_nCurActive > 0
      BY <1>0, <2>1, <2>2, <2>3, CountsIn, CardMinus, CardPlus
    <2>5. work[t] \in Works
      BY <1>0, <2>1 DEF TypeOK, WorkOwned
    <2>a. work' \in [Threads -> Works \cup {NoWork}]
      BY <1>0, <2>1 DEF TypeOK
    <2>b. m_nCurSpare' \in Nat /\ m_nCurActive' \in Nat
      BY <1>0, <2>1, <2>4 DEF TypeOK
    <2>6. TypeOK' /\ StopInv'
      BY <1>0, <2>1, <2>3, <2>a, <2>b, <2>5 DEF TypeOK, StopInv, ThreadStates
    <2>c. \A u \in Threads : work'[u] = IF u = t THEN NoWork ELSE work[u]
      BY <1>0, <2>1 DEF TypeOK
    <2>7. WorkOwned'
      BY <1>0, <2>3, <2>c, WorkOwnedIn
    <2> QED  BY <2>4, <2>6, <2>7
  <1>9. ASSUME NEW t \in Threads, ThreadLeave(t)
        PROVE  CountInv'
    <2> DEFINE ts == [thr EXCEPT ![t] = "none"]
    <2>1. /\ thr[t] = "running"
          /\ thr' = Notified(ts)
          /\ stopper' = NotifiedStopper(stopper)
          /\ work' = [work EXCEPT ![t] = NoWork]
          /\ finished' = finished \cup {work[t]}
          /\ m_nCurActive' = m_nCurActive - 1
          /\ UNCHANGED <<m_nCurSpare, m_freshWork, m_shutdown, offered>>
      BY <1>9 DEF ThreadLeave, Leave
    <2>2. /\ t \notin SpareIn(thr) /\ t \in ActiveIn(thr)
          /\ SpareIn(thr) \ {t} = SpareIn(thr)
      BY <2>1 DEF SpareIn, ActiveIn
    <2>3. /\ ts \in [Threads -> ThreadStates]
          /\ SpareIn(ts) = SpareIn(thr)
          /\ ActiveIn(ts) = ActiveIn(thr) \ {t}
      BY <1>0, <2>1, <2>2, BecomesNone
    <2> HIDE DEF ts
    <2>4. /\ thr' \in [Threads -> ThreadStates]
          /\ SpareIn(thr') = SpareIn(thr)
          /\ ActiveIn(thr') = ActiveIn(thr) \ {t}
      BY <2>1, <2>3, NotifiedFacts
    <2>5. CountsExact' /\ m_nCurActive > 0
      BY <1>0, <2>1, <2>2, <2>4, CountsIn, CardMinus
    <2>6. work[t] \in Works
      BY <1>0, <2>1 DEF TypeOK, WorkOwned
    <2>a. work' \in [Threads -> Works \cup {NoWork}]
      BY <1>0, <2>1 DEF TypeOK
    <2>b. m_nCurActive' \in Nat
      BY <1>0, <2>1, <2>5 DEF TypeOK
    <2>7. TypeOK' /\ StopInv'
      BY <1>0, <2>1, <2>4, <2>a, <2>b, <2>6
      DEF TypeOK, StopInv, NotifiedStopper, ThreadStates
    <2>c. \A u \in Threads : work'[u] = IF u = t THEN NoWork ELSE work[u]
      BY <1>0, <2>1 DEF TypeOK
    <2>8. WorkOwned'
      BY <1>0, <2>4, <2>c, WorkOwnedIn
    <2> QED  BY <2>5, <2>7, <2>8
  <1>10. ASSUME StopCall
         PROVE  CountInv'
    <2>1. /\ thr' = Notified(thr) /\ m_shutdown' = TRUE /\ stopper' = "ready"
          /\ UNCHANGED <<work, m_nCurActive, m_nCurSpare, m_freshWork, offered,
                         finished>>
      BY <1>10 DEF StopCall
    <2>a. TypeOK' /\ StopInv'
      BY <1>0, <2>1, NotifiedFacts DEF TypeOK, StopInv, ThreadStates
    <2>b. WorkOwned'
      BY <1>0, <2>1, NotifiedFacts, WorkOwnedIn
    <2>2. TypeOK' /\ WorkOwned' /\ StopInv'
      BY <2>a, <2>b
    <2>3. CountsExact'
      BY <1>0, <2>1, NotifiedFacts, SameCounts
    <2> QED  BY <2>2, <2>3
  <1>11. ASSUME StopWait \/ StopSpuriousWakeup \/ StopReturn \/ UNCHANGED vars
         PROVE  CountInv'
    <2>1. /\ stopper' \in {"idle", "ready", "waiting", "returned"}
          /\ stopper' = "idle" <=> stopper = "idle"
          /\ UNCHANGED <<thr, work, m_nCurActive, m_nCurSpare, m_freshWork,
                         m_shutdown, offered, finished>>
      BY <1>0, <1>11 DEF TypeOK, StopWait, StopSpuriousWakeup, StopReturn, vars
    <2>a. TypeOK' /\ StopInv'
      BY <1>0, <2>1 DEF TypeOK, StopInv
    <2>b. WorkOwned'
      BY <1>0, <2>1, WorkOwnedIn
    <2>2. TypeOK' /\ WorkOwned' /\ StopInv'
      BY <2>a, <2>b
    <2>3. CountsExact'
      BY <1>0, <2>1, SameCounts
    <2> QED  BY <2>2, <2>3
  <1> QED
    BY <1>1, <1>2, <1>3, <1>4, <1>5, <1>6, <1>7, <1>8, <1>9, <1>10, <1>11 DEF Next
-----------------------------------------------------------------------------
(* The queue                                                               *)

\* An empty pool owes nobody anything.
LEMMA InitQueue ==
    ASSUME Init
    PROVE  QueueServed /\ NoLostWakeup /\ IdleBounded /\ OnePlace
  <1>1. QueueServed /\ IdleBounded
    BY PoolAssumption DEF Init, QueueServed, IdleBounded
  <1>2. NoLostWakeup
    BY DEF Init, NoLostWakeup
  <1>3. OnePlace
    BY DEF Init, OnePlace
  <1> QED  BY <1>1, <1>2, <1>3

\* The relation of the queue's length to the counters.
LEMMA NextLength ==
    ASSUME CountInv, QueueServed, IdleBounded, [Next]_vars
    PROVE  QueueServed' /\ IdleBounded'
  <1> DEFINE n == Len(m_freshWork)
             bound == IF MaxSpare = 0 THEN 1 ELSE MaxSpare
  <1>0. /\ m_nCurSpare \in Nat /\ n \in Nat /\ m_freshWork \in Seq(Works)
        /\ bound \in Nat /\ bound >= 1 /\ bound >= MaxSpare /\ MaxSpare \in Nat
        /\ ~m_shutdown => n <= m_nCurSpare
        /\ m_nCurSpare - n <= bound
    BY PoolAssumption DEF CountInv, TypeOK, QueueServed, IdleBounded
  <1>1. SUFFICES /\ ~m_shutdown' => Len(m_freshWork') <= m_nCurSpare'
                 /\ m_nCurSpare' - Len(m_freshWork') <= bound
    BY DEF QueueServed, IdleBounded
  <1> HIDE DEF bound
  <1>2. CASE \E w \in Works : ScheduleSpare(w)
    <2>1. PICK w \in Works : ScheduleSpare(w)
      BY <1>2
    <2>2. Len(m_freshWork') = n + 1 /\ n + 1 <= m_nCurSpare
      BY <1>0, <2>1 DEF ScheduleSpare, Enqueue, NeedsThread
    <2> QED  BY <1>0, <2>1, <2>2 DEF ScheduleSpare
  <1>3. CASE \E w \in Works, t \in Threads : ScheduleThread(w, t)
    <2>1. PICK w \in Works, t \in Threads : ScheduleThread(w, t)
      BY <1>3
    <2>2. Len(m_freshWork') = n + 1 /\ m_nCurSpare' = m_nCurSpare + 1
      BY <1>0, <2>1 DEF ScheduleThread, Enqueue
    <2> QED  BY <1>0, <2>1, <2>2 DEF ScheduleThread
  <1>4. CASE \E w \in Works, t \in Threads : ScheduleNoMem(w, t)
    <2>1. PICK w \in Works, t \in Threads : ScheduleNoMem(w, t)
      BY <1>4
    <2>2. /\ m_freshWork' = m_freshWork /\ m_nCurSpare' = m_nCurSpare + 1
          /\ m_nCurSpare < n + 1 /\ m_shutdown' = m_shutdown
      BY <1>0, <2>1 DEF ScheduleNoMem, NeedsThread
    <2> QED  BY <1>0, <2>2
  <1>5. CASE \E t \in Threads : ThreadExit(t)
    BY <1>0, <1>5 DEF ThreadExit
  <1>6. CASE \E t \in Threads : ThreadTake(t)
    <2>1. /\ Len(m_freshWork') = n - 1 /\ m_nCurSpare' = m_nCurSpare - 1
          /\ m_shutdown' = m_shutdown
      BY <1>0, <1>6 DEF ThreadTake, MayTake, Popped
    <2> QED  BY <1>0, <2>1
  <1>7. CASE \E t \in Threads : ThreadStay(t)
    BY <1>0, <1>7 DEF ThreadStay, MayStay, SpareAgain
  <1>8. CASE \/ \E w \in Works : ScheduleRefuse(w)
             \/ \E t \in Threads : ThreadWait(t) \/ SpuriousWakeup(t) \/ ThreadLeave(t)
             \/ StopWait \/ StopSpuriousWakeup \/ StopReturn \/ UNCHANGED vars
    <2>1. UNCHANGED <<m_freshWork, m_nCurSpare, m_shutdown>>
      BY <1>8 DEF ScheduleRefuse, ThreadWait, SpuriousWakeup, ThreadLeave,
                  StopWait, StopSpuriousWakeup, StopReturn, vars
    <2> QED  BY <1>0, <2>1
  <1>9. CASE StopCall
    BY <1>0, <1>9 DEF StopCall
  <1> QED
    BY <1>2, <1>3, <1>4, <1>5, <1>6, <1>7, <1>8, <1>9 DEF Next

\* No step leaves a sleeper behind that should be awake.
LEMMA NextWakeup ==
    ASSUME CountInv, NoLostWakeup, [Next]_vars
    PROVE  NoLostWakeup'
  <1>0. /\ thr \in [Threads -> ThreadStates]
        /\ m_nCurSpare \in Nat /\ m_nCurActive \in Nat
        /\ m_freshWork # <<>> \/ m_shutdown => \A t \in Threads : thr[t] # "waiting"
        /\ stopper = "waiting" => m_nCurSpare + m_nCurActive > 0
    BY DEF CountInv, TypeOK, ThreadStates, NoLostWakeup
  <1>1. SUFFICES
          /\ m_freshWork' # <<>> \/ m_shutdown' =>
               \A t \in Threads : thr'[t] # "waiting"
          /\ stopper' = "waiting" => m_nCurSpare' + m_nCurActive' > 0
    BY DEF NoLostWakeup
  <1>2. CASE \E w \in Works : ScheduleSpare(w)
    BY <1>0, <1>2, NotifiedFacts DEF ScheduleSpare, Enqueue, NotifiedStopper
  <1>3. CASE \E w \in Works, t \in Threads : ScheduleThread(w, t)
    <2>1. PICK w \in Works, t \in Threads : ScheduleThread(w, t)
      BY <1>3
    <2>2. [thr EXCEPT ![t] = "ready"] \in [Threads -> ThreadStates]
      BY <1>0 DEF ThreadStates
    <2> QED  BY <2>1, <2>2, NotifiedFacts DEF ScheduleThread, Enqueue, NotifiedStopper
  <1>4. CASE \E w \in Works, t \in Threads : ScheduleNoMem(w, t)
    BY <1>0, <1>4 DEF ScheduleNoMem
  <1>5. CASE \E t \in Threads : ThreadExit(t) \/ ThreadLeave(t)
    <2>1. PICK t \in Threads : Leave(t)
      BY <1>5 DEF ThreadExit, ThreadLeave
    <2>2. [thr EXCEPT ![t] = "none"] \in [Threads -> ThreadStates]
      BY <1>0 DEF ThreadStates
    <2> QED  BY <2>1, <2>2, NotifiedFacts DEF Leave, NotifiedStopper
  <1>6. CASE \E t \in Threads : ThreadWait(t)
    BY <1>0, <1>6 DEF ThreadWait
  <1>7. CASE \E t \in Threads : ThreadTake(t)
    <2>1. PICK t \in Threads : ThreadTake(t)
      BY <1>7
    <2>2. \A u \in Threads : thr'[u] # "waiting"
      BY <1>0, <2>1 DEF ThreadTake, MayTake
    <2>3. m_nCurSpare' + m_nCurActive' = m_nCurSpare + m_nCurActive
      BY <1>0, <2>1 DEF ThreadTake
    <2> QED  BY <1>0, <2>1, <2>2, <2>3 DEF ThreadTake
  <1>8. CASE \E t \in Threads : ThreadStay(t)
    <2>1. PICK t \in Threads : ThreadStay(t)
      BY <1>8
    <2>2. m_nCurSpare' + m_nCurActive' = m_nCurSpare + m_nCurActive
      BY <1>0, <2>1 DEF ThreadStay, SpareAgain
    <2>3. m_freshWork # <<>> \/ m_shutdown => \A u \in Threads : thr'[u] # "waiting"
      BY <1>0, <2>1 DEF ThreadStay
    <2> QED  BY <1>0, <2>1, <2>2, <2>3 DEF ThreadStay
  <1>9. CASE StopCall
    BY <1>0, <1>9, NotifiedFacts DEF StopCall
  <1>10. CASE \/ \E w \in Works : ScheduleRefuse(w)
              \/ StopWait \/ StopSpuriousWakeup \/ StopReturn \/ UNCHANGED vars
    BY <1>0, <1>10 DEF ScheduleRefuse, StopWait, StopSpuriousWakeup, StopReturn, vars
  <1>11. CASE \E t \in Threads : SpuriousWakeup(t)
    BY <1>0, <1>11 DEF SpuriousWakeup
  <1> QED
    BY <1>2, <1>3, <1>4, <1>5, <1>6, <1>7, <1>8, <1>9, <1>10, <1>11 DEF Next

\* A work stays in one place.
LEMMA NextPlace ==
    ASSUME CountInv, OnePlace, [Next]_vars
    PROVE  OnePlace'
  <1>0. /\ m_freshWork \in Seq(Works)
        /\ work \in [Threads -> Works \cup {NoWork}]
        /\ NoWork \notin Works
        /\ OnePlace
    BY PoolAssumption DEF CountInv, TypeOK
  <1>1. ASSUME NEW w \in Works, w \notin offered, offered' = offered \cup {w},
               UNCHANGED work,
               m_freshWork' \in {m_freshWork, Append(m_freshWork, w)}
        PROVE  OnePlace'
    <2>1. CASE m_freshWork' = m_freshWork
      BY <1>0, <1>1, <2>1 DEF OnePlace
    <2>2. CASE m_freshWork' = Append(m_freshWork, w)
      <3> DEFINE n == Len(m_freshWork)
      <3>1. /\ n \in Nat /\ DOMAIN m_freshWork = 1..n
            /\ DOMAIN m_freshWork' = 1..(n + 1)
            /\ \A k \in 1..n : m_freshWork'[k] = m_freshWork[k]
            /\ m_freshWork'[n + 1] = w
        BY <1>0, <2>2
      <3> HIDE DEF n
      <3>2. \A k \in 1..n : m_freshWork[k] # w
        BY <1>0, <1>1, <3>1 DEF OnePlace
      <3>3. \A t \in Threads : work[t] # w
        BY <1>0, <1>1 DEF OnePlace
      <3>4. \A k \in 1..(n + 1) : k \in 1..n \/ k = n + 1
        BY <3>1
      <3>5. \A k \in DOMAIN m_freshWork' : m_freshWork'[k] \in offered'
        BY <1>0, <1>1, <3>1, <3>4 DEF OnePlace
      <3>6. \A j, k \in DOMAIN m_freshWork' : m_freshWork'[j] = m_freshWork'[k] => j = k
        BY <1>0, <3>1, <3>2, <3>4 DEF OnePlace
      <3>7. \A t \in Threads, k \in DOMAIN m_freshWork' : work'[t] # m_freshWork'[k]
        BY <1>0, <1>1, <3>1, <3>3, <3>4 DEF OnePlace
      <3> QED  BY <1>0, <1>1, <3>5, <3>6, <3>7 DEF OnePlace
    <2> QED  BY <1>1, <2>1, <2>2
  <1>2. CASE \E w \in Works :
               \/ ScheduleRefuse(w) \/ ScheduleSpare(w)
               \/ \E t \in Threads : ScheduleThread(w, t) \/ ScheduleNoMem(w, t)
    BY <1>1, <1>2 DEF ScheduleRefuse, ScheduleSpare, ScheduleThread, ScheduleNoMem, Enqueue
  <1>3. CASE \E t \in Threads : ThreadTake(t)
    <2>1. PICK t \in Threads : ThreadTake(t)
      BY <1>3
    <2> DEFINE n == Len(m_freshWork)
    <2>2. /\ m_freshWork # <<>> /\ m_freshWork' = Tail(m_freshWork)
          /\ work' = [work EXCEPT ![t] = Head(m_freshWork)]
          /\ offered' = offered
      BY <2>1 DEF ThreadTake, MayTake, Popped
    <2>3. /\ n \in Nat /\ n >= 1 /\ DOMAIN m_freshWork = 1..n
          /\ DOMAIN m_freshWork' = 1..(n - 1)
          /\ \A k \in 1..(n - 1) : m_freshWork'[k] = m_freshWork[k + 1]
          /\ Head(m_freshWork) = m_freshWork[1]
      BY <1>0, <2>2
    <2>4. \A u \in Threads : work'[u] = IF u = t THEN m_freshWork[1] ELSE work[u]
      BY <1>0, <2>2, <2>3
    <2> HIDE DEF n
    <2>5. \A k \in 1..(n - 1) : k + 1 \in 1..n /\ k + 1 # 1
      BY <2>3
    <2>6. 1 \in 1..n
      BY <2>3
    <2>7. \A k \in DOMAIN m_freshWork' : m_freshWork'[k] \in offered'
      BY <1>0, <2>2, <2>3, <2>5 DEF OnePlace
    <2>8. \A j, k \in DOMAIN m_freshWork' : m_freshWork'[j] = m_freshWork'[k] => j = k
      <3> SUFFICES ASSUME NEW j \in 1..(n - 1), NEW k \in 1..(n - 1),
                          m_freshWork'[j] = m_freshWork'[k]
                   PROVE  j = k
        BY <2>3
      <3>1. j + 1 = k + 1
        BY <1>0, <2>3, <2>5 DEF OnePlace
      <3> QED  BY <3>1
    <2>9. \A u \in Threads : work'[u] # NoWork => work'[u] \in offered'
      BY <1>0, <2>2, <2>3, <2>4, <2>6 DEF OnePlace
    <2>10. \A u \in Threads, k \in DOMAIN m_freshWork' : work'[u] # m_freshWork'[k]
      <3> SUFFICES ASSUME NEW u \in Threads, NEW k \in 1..(n - 1)
                   PROVE  work'[u] # m_freshWork[k + 1]
        BY <2>3
      <3>1. CASE u = t
        BY <1>0, <2>3, <2>4, <2>5, <2>6, <3>1 DEF OnePlace
      <3>2. CASE u # t
        BY <1>0, <2>3, <2>4, <2>5, <3>2 DEF OnePlace
      <3> QED  BY <3>1, <3>2
    <2>11. \A u, v \in Threads : work'[u] # NoWork /\ work'[u] = work'[v] => u = v
      BY <1>0, <2>3, <2>4, <2>6 DEF OnePlace
    <2> QED  BY <2>7, <2>8, <2>9, <2>10, <2>11 DEF OnePlace
  <1>4. CASE \E t \in Threads : ThreadStay(t) \/ ThreadLeave(t)
    <2>1. PICK t \in Threads : /\ work' = [work EXCEPT ![t] = NoWork]
                               /\ UNCHANGED <<m_freshWork, offered>>
      BY <1>4 DEF ThreadStay, ThreadLeave
    <2>2. \A u \in Threads : work'[u] = IF u = t THEN NoWork ELSE work[u]
      BY <1>0, <2>1
    <2>3. \A k \in DOMAIN m_freshWork : m_freshWork[k] \in Works
      BY <1>0
    <2> QED  BY <1>0, <2>1, <2>2, <2>3 DEF OnePlace
  <1>5. CASE \/ \E t \in Threads : ThreadExit(t) \/ ThreadWait(t) \/ SpuriousWakeup(t)
             \/ StopCall \/ StopWait \/ StopSpuriousWakeup \/ StopReturn \/ UNCHANGED vars
    <2>1. UNCHANGED <<work, m_freshWork, offered>>
      BY <1>5 DEF ThreadExit, ThreadWait, SpuriousWakeup, StopCall, StopWait,
                  StopSpuriousWakeup, StopReturn, vars
    <2> QED  BY <1>0, <2>1 DEF OnePlace
  <1> QED  BY <1>2, <1>3, <1>4, <1>5 DEF Next

-----------------------------------------------------------------------------
(* Theorems                                                                *)

\* The inductive invariant holds throughout.
LEMMA Inductive == Spec => []IInv
  <1>1. Init => IInv
    BY InitCount, InitQueue DEF IInv
  <1>2. IInv /\ [Next]_vars => IInv'
    BY NextCount, NextLength, NextWakeup, NextPlace DEF IInv
  <1> QED  BY <1>1, <1>2, PTL DEF Spec

\* The unsigned counters of the pool never wrap around.
THEOREM PoolTypeCorrect == Spec => []TypeOK
  BY Inductive, PTL DEF IInv, CountInv

\* m_nCurSpare and m_nCurActive count the pool's threads exactly.
THEOREM PoolCountsExact == Spec => []CountsExact
  BY Inductive, PTL DEF IInv, CountInv

\* Every queued connection has a spare thread on its way to it.
THEOREM PoolQueueServed == Spec => []QueueServed
  BY Inductive, PTL DEF IInv

\* No thread and no caller of stop() misses a wake-up.
THEOREM PoolNoLostWakeup == Spec => []NoLostWakeup
  BY Inductive, PTL DEF IInv

\* The standby threads are bounded by the configured number.
THEOREM PoolIdleBounded == Spec => []IdleBounded
  BY Inductive, PTL DEF IInv

-----------------------------------------------------------------------------
(* Refinement                                                              *)

\* The works in execution, and the phase of stop(), as the mapping has them.
RunningWorks == {work[t] : t \in ActiveThreads}

Phase == CASE stopper = "idle" -> "open"
           [] stopper \in {"ready", "waiting"} -> "stopping"
           [] stopper = "returned" -> "stopped"

\* A step that leaves everything the promise speaks of unchanged.
LEMMA Stutter ==
    ASSUME RunningWorks' = RunningWorks, Phase' = Phase,
           UNCHANGED <<m_freshWork, finished>>
    PROVE  UNCHANGED Promise!xvars
  BY DEF Promise!xvars, RunningWorks, Phase

\* The running works change only with the works of running threads.
LEMMA SameRunning ==
    ASSUME UNCHANGED work, ActiveIn(thr') = ActiveIn(thr)
    PROVE  RunningWorks' = RunningWorks
  BY DEF RunningWorks, ActiveThreads, ActiveIn

\* Waking the caller of stop() does not change the phase.
LEMMA SamePhase ==
    ASSUME TypeOK,
           stopper' \in {stopper, NotifiedStopper(stopper)}
    PROVE  Phase' = Phase
  BY DEF TypeOK, NotifiedStopper, Phase

\* A step of the pool is a step of the Executor, or none.
LEMMA StepSimulates ==
    ASSUME IInv, [Next]_vars
    PROVE  [Promise!Next]_(Promise!xvars)
  <1>0. /\ TypeOK /\ thr \in [Threads -> ThreadStates]
        /\ m_freshWork \in Seq(Works)
        /\ work \in [Threads -> Works \cup {NoWork}]
        /\ WorkOwned /\ StopInv /\ OnePlace /\ NoWork \notin Works
    BY PoolAssumption DEF IInv, CountInv, TypeOK, ThreadStates
  <1>1. ASSUME NEW w \in Works,
               ActiveIn(thr') = ActiveIn(thr), UNCHANGED <<work, finished>>,
               stopper' = NotifiedStopper(stopper),
               m_freshWork' = Append(m_freshWork, w)
        PROVE  Promise!Next
    <2>1. RunningWorks' = RunningWorks /\ Phase' = Phase
      BY <1>0, <1>1, SameRunning, SamePhase
    <2>2. Promise!Accept(w)
      BY <1>1, <2>1 DEF Promise!Accept, RunningWorks, Phase
    <2> QED  BY <2>2 DEF Promise!Next
  <1>2. CASE \E w \in Works : ScheduleSpare(w)
    <2>1. PICK w \in Works : ScheduleSpare(w)
      BY <1>2
    <2>2. ActiveIn(thr') = ActiveIn(thr)
      BY <1>0, <2>1, NotifiedFacts DEF ScheduleSpare, Enqueue
    <2> QED  BY <1>1, <2>1, <2>2 DEF ScheduleSpare, Enqueue
  <1>3. CASE \E w \in Works, t \in Threads : ScheduleThread(w, t)
    <2>1. PICK w \in Works, t \in Threads : ScheduleThread(w, t)
      BY <1>3
    <2> DEFINE ts == [thr EXCEPT ![t] = "ready"]
    <2>2. ts \in [Threads -> ThreadStates] /\ ActiveIn(ts) = ActiveIn(thr) \ {t}
      BY <1>0, BecomesSpare
    <2>3. ActiveIn(thr) \ {t} = ActiveIn(thr)
      BY <2>1 DEF ScheduleThread, ActiveIn
    <2>4. thr' = Notified(ts)
      BY <2>1 DEF ScheduleThread, Enqueue
    <2> HIDE DEF ts
    <2>5. ActiveIn(thr') = ActiveIn(thr)
      BY <2>2, <2>3, <2>4, NotifiedFacts
    <2> QED  BY <1>1, <2>1, <2>5 DEF ScheduleThread, Enqueue
  <1>4. CASE \E w \in Works : ScheduleRefuse(w)
    <2>1. UNCHANGED <<thr, work, m_freshWork, stopper, finished>>
      BY <1>4 DEF ScheduleRefuse
    <2> QED  BY <1>0, <2>1, SameRunning, SamePhase, Stutter
  <1>5. CASE \E w \in Works, t \in Threads : ScheduleNoMem(w, t)
    <2>1. PICK w \in Works, t \in Threads : ScheduleNoMem(w, t)
      BY <1>5
    <2>2. /\ thr' = [thr EXCEPT ![t] = "ready"] /\ thr[t] = "none"
          /\ UNCHANGED <<work, m_freshWork, stopper, finished>>
      BY <2>1 DEF ScheduleNoMem
    <2>3. ActiveIn(thr) \ {t} = ActiveIn(thr)
      BY <2>2 DEF ActiveIn
    <2>4. ActiveIn(thr') = ActiveIn(thr)
      BY <1>0, <2>2, <2>3, BecomesSpare
    <2> QED  BY <1>0, <2>2, <2>4, SameRunning, SamePhase, Stutter
  <1>6. CASE \E t \in Threads : ThreadExit(t)
    <2>1. PICK t \in Threads : ThreadExit(t)
      BY <1>6
    <2> DEFINE ts == [thr EXCEPT ![t] = "none"]
    <2>2. /\ thr' = Notified(ts) /\ thr[t] = "ready"
          /\ stopper' = NotifiedStopper(stopper)
          /\ UNCHANGED <<work, m_freshWork, finished>>
      BY <2>1 DEF ThreadExit, Leave
    <2>3. ActiveIn(thr) \ {t} = ActiveIn(thr)
      BY <2>2 DEF ActiveIn
    <2>4. ts \in [Threads -> ThreadStates] /\ ActiveIn(ts) = ActiveIn(thr)
      BY <1>0, <2>3, BecomesNone
    <2> HIDE DEF ts
    <2>5. ActiveIn(thr') = ActiveIn(thr)
      BY <2>2, <2>4, NotifiedFacts
    <2> QED  BY <1>0, <2>2, <2>5, SameRunning, SamePhase, Stutter
  <1>7. CASE \E t \in Threads : ThreadWait(t) \/ SpuriousWakeup(t)
    <2>1. PICK t \in Threads, s \in {"ready", "waiting"} :
            /\ thr' = [thr EXCEPT ![t] = s] /\ thr[t] # "running"
            /\ UNCHANGED <<work, m_freshWork, stopper, finished>>
      BY <1>7 DEF ThreadWait, SpuriousWakeup
    <2>2. ActiveIn(thr) \ {t} = ActiveIn(thr)
      BY <2>1 DEF ActiveIn
    <2>3. ActiveIn(thr') = ActiveIn(thr)
      BY <1>0, <2>1, <2>2, BecomesSpare
    <2> QED  BY <1>0, <2>1, <2>3, SameRunning, SamePhase, Stutter
  <1>8. CASE \E t \in Threads : ThreadTake(t)
    <2>1. PICK t \in Threads : ThreadTake(t)
      BY <1>8
    <2>2. /\ thr[t] = "ready" /\ m_freshWork # <<>> /\ ~m_shutdown
          /\ thr' = [thr EXCEPT ![t] = "running"]
          /\ work' = [work EXCEPT ![t] = Head(m_freshWork)]
          /\ m_freshWork' = Tail(m_freshWork)
          /\ UNCHANGED <<stopper, finished>>
      BY <2>1 DEF ThreadTake, MayTake, Popped
    <2>3. ActiveIn(thr') = ActiveIn(thr) \cup {t} /\ t \notin ActiveIn(thr)
      BY <1>0, <2>2, BecomesRunning DEF ActiveIn
    <2>4. \A u \in Threads : work'[u] = IF u = t THEN Head(m_freshWork) ELSE work[u]
      BY <1>0, <2>2
    <2>5. RunningWorks' = RunningWorks \cup {Head(m_freshWork)}
      BY <2>3, <2>4 DEF RunningWorks, ActiveThreads, ActiveIn
    <2>6. Phase = "open" /\ Phase' = "open"
      BY <1>0, <2>2 DEF StopInv, Phase
    <2>7. Promise!Start
      BY <2>2, <2>5, <2>6 DEF Promise!Start, RunningWorks, Phase
    <2> QED  BY <2>7 DEF Promise!Next
  <1>9. CASE \E t \in Threads : ThreadStay(t) \/ ThreadLeave(t)
    <2>1. PICK t \in Threads : ThreadStay(t) \/ ThreadLeave(t)
      BY <1>9
    <2>2. /\ thr[t] = "running"
          /\ work' = [work EXCEPT ![t] = NoWork]
          /\ finished' = finished \cup {work[t]}
          /\ stopper' \in {stopper, NotifiedStopper(stopper)}
          /\ UNCHANGED m_freshWork
      BY <2>1 DEF ThreadStay, ThreadLeave, Leave
    <2>3. ActiveIn(thr') = ActiveIn(thr) \ {t}
      <3>1. CASE ThreadStay(t)
        BY <1>0, <3>1, BecomesSpare DEF ThreadStay
      <3>2. CASE ThreadLeave(t)
        <4> DEFINE ts == [thr EXCEPT ![t] = "none"]
        <4>1. ts \in [Threads -> ThreadStates] /\ ActiveIn(ts) = ActiveIn(thr) \ {t}
          BY <1>0, BecomesNone
        <4>2. thr' = Notified(ts)
          BY <3>2 DEF ThreadLeave, Leave
        <4> HIDE DEF ts
        <4> QED  BY <4>1, <4>2, NotifiedFacts
      <3> QED  BY <2>1, <3>1, <3>2
    <2>4. \A u \in Threads : work'[u] = IF u = t THEN NoWork ELSE work[u]
      BY <1>0, <2>2
    <2>5. \A u \in ActiveIn(thr) : work[u] \in Works
      BY <1>0 DEF WorkOwned, ActiveIn
    <2>6. \A u \in ActiveIn(thr) : work[u] = work[t] => u = t
      BY <1>0, <2>2, <2>5 DEF OnePlace, ActiveIn
    <2>7. RunningWorks' = RunningWorks \ {work[t]} /\ work[t] \in RunningWorks
      BY <2>2, <2>3, <2>4, <2>6 DEF RunningWorks, ActiveThreads, ActiveIn
    <2>8. Phase' = Phase /\ work[t] \in Works
      BY <1>0, <2>2, <2>5, SamePhase DEF ActiveIn
    <2>9. PICK w \in Works : w = work[t]
      BY <2>8
    <2>10. Promise!Finish(w)
      BY <2>2, <2>7, <2>8, <2>9 DEF Promise!Finish, RunningWorks, Phase
    <2> QED  BY <2>10 DEF Promise!Next
  <1>10. CASE StopCall
    <2>1. /\ thr' = Notified(thr) /\ stopper = "idle" /\ stopper' = "ready"
          /\ UNCHANGED <<work, m_freshWork, finished>>
      BY <1>10 DEF StopCall
    <2>2. RunningWorks' = RunningWorks
      BY <1>0, <2>1, NotifiedFacts, SameRunning
    <2>3. Phase = "open" /\ Phase' = "stopping"
      BY <2>1 DEF Phase
    <2>4. Promise!StopCall
      BY <2>1, <2>2, <2>3 DEF Promise!StopCall, RunningWorks, Phase
    <2> QED  BY <2>4 DEF Promise!Next
  <1>11. CASE StopWait \/ StopSpuriousWakeup
    <2>1. /\ stopper \in {"ready", "waiting"} /\ stopper' \in {"ready", "waiting"}
          /\ UNCHANGED <<thr, work, m_freshWork, finished>>
      BY <1>11 DEF StopWait, StopSpuriousWakeup
    <2>2. Phase' = Phase
      BY <2>1 DEF Phase
    <2> QED  BY <2>1, <2>2, SameRunning, Stutter
  <1>12. CASE StopReturn
    <2>1. /\ stopper = "ready" /\ stopper' = "returned"
          /\ m_nCurSpare + m_nCurActive = 0
          /\ UNCHANGED <<thr, work, m_freshWork, finished>>
      BY <1>12 DEF StopReturn
    <2>2. ActiveThreads = {}
      <3>1. m_nCurActive = 0 /\ m_nCurActive = Cardinality(ActiveThreads)
        BY <2>1 DEF IInv, CountInv, TypeOK, CountsExact
      <3>2. IsFiniteSet(ActiveThreads)
        BY PoolAssumption, FS_Subset DEF ActiveThreads
      <3> QED  BY <3>1, <3>2, FS_EmptySet
    <2>3. RunningWorks = {} /\ RunningWorks' = RunningWorks
      BY <2>1, <2>2, SameRunning DEF RunningWorks
    <2>4. Phase = "stopping" /\ Phase' = "stopped"
      BY <2>1 DEF Phase
    <2>5. Promise!StopReturn
      BY <2>1, <2>3, <2>4 DEF Promise!StopReturn, RunningWorks, Phase
    <2> QED  BY <2>5 DEF Promise!Next
  <1>13. CASE UNCHANGED vars
    <2>1. UNCHANGED <<thr, work, m_freshWork, stopper, finished>>
      BY <1>13 DEF vars
    <2> QED  BY <1>0, <2>1, SameRunning, SamePhase, Stutter
  <1> QED
    BY <1>2, <1>3, <1>4, <1>5, <1>6, <1>7, <1>8, <1>9, <1>10, <1>11, <1>12, <1>13
    DEF Next

\* The pool, with its threads, counters and wake-ups, does what Executor
\* promises: accepted works start once and in order, none starts after
\* stop() was called, and stop() returns only when none runs.
THEOREM PoolImplementsExecutor == Spec => ImplementsExecutor
  <1>1. Init => Promise!Init
    <2> SUFFICES ASSUME Init PROVE Promise!Init
      OBVIOUS
    <2>1. RunningWorks = {} /\ Phase = "open"
      BY DEF Init, RunningWorks, ActiveThreads, Phase
    <2> QED  BY <2>1 DEF Init, Promise!Init, RunningWorks, Phase
  <1>2. IInv /\ [Next]_vars => [Promise!Next]_(Promise!xvars)
    BY StepSimulates
  <1> QED  BY <1>1, <1>2, Inductive, PTL DEF Spec, ImplementsExecutor, Promise!Spec

-----------------------------------------------------------------------------
(* The connection server                                                   *)

\* The client's closure is in the queue, or with a thread.
InQueue(c) == \E k \in DOMAIN m_freshWork : m_freshWork[k] = c

WithThread(c) == \E t \in Threads : work[t] = c

\* The states of the descriptor agree with the places of the closure.
Owners ==
    \A c \in Works :
        /\ InQueue(c) <=> fd[c] = "queued"
        /\ WithThread(c) <=> fd[c] = "served"

Listener == {"armed", "paused", "dead", "closed"}

\* Where the descriptors without an owner come from.
Ends ==
    \A c \in Works :
        /\ fd[c] = "lost" => c \in offered /\ (c \notin finished \/ in_shutdown)
        /\ fd[c] = "lingering" => c \in finished
        /\ fd[c] \in {"none", "backlog"} => c \notin finished

ConInv == IInv /\ ConTypeOK /\ Owners /\ Ends

-----------------------------------------------------------------------------
(* Lemmas                                                                  *)

\* What the server does to the pool is a step of the pool.
LEMMA ServerStepsPool == [ConNext]_allvars => [Next]_vars
  <1> SUFFICES ASSUME [ConNext]_allvars PROVE [Next]_vars
    OBVIOUS
  <1>1. CASE UNCHANGED allvars
    BY <1>1 DEF allvars
  <1>2. ASSUME NEW c \in Works,
               Connect(c) \/ AcceptDenied(c) \/ AcceptQueued(c) \/ AcceptRefused(c)
                 \/ TermSocket(c) \/ ConnAnswered(c)
        PROVE  [Next]_vars
    BY <1>2 DEF Connect, AcceptDenied, AcceptQueued, AcceptRefused, TermSocket, ConnAnswered,
                Next
  <1>3. ASSUME NEW t \in Threads,
               ConnBegin(t) \/ ConnHold(t) \/ ConnEnd(t) \/ ConnFail(t) \/ PoolInternal(t)
        PROVE  [Next]_vars
    BY <1>3 DEF ConnBegin, ConnHold, ConnEnd, ConnFail, PoolInternal, ThreadFinish, Next
  <1>4. CASE AcceptExhausted \/ CbResume \/ LeaveMainLoop
    BY <1>4 DEF AcceptExhausted, CbResume, LeaveMainLoop
  <1>5. CASE Shutdown \/ ShutdownWaits
    BY <1>5 DEF Shutdown, ShutdownWaits, Next
  <1> QED  BY <1>1, <1>2, <1>3, <1>4, <1>5 DEF ConNext

\* The pool's invariant is preserved by the pool's steps.
LEMMA PoolStep == IInv /\ [Next]_vars => IInv'
  BY NextCount, NextLength, NextWakeup, NextPlace DEF IInv

\* A step that moves no closure.
LEMMA OwnersStay ==
    ASSUME Owners, UNCHANGED <<m_freshWork, work>>,
           \A c \in Works : /\ fd'[c] = "queued" <=> fd[c] = "queued"
                            /\ fd'[c] = "served" <=> fd[c] = "served"
    PROVE  Owners'
  BY DEF Owners, InQueue, WithThread

\* One descriptor changes hands.
LEMMA FdChanged ==
    ASSUME fd \in [Works -> FdState], NEW c \in Works, NEW s \in FdState,
           fd' = [fd EXCEPT ![c] = s]
    PROVE  /\ fd' \in [Works -> FdState] /\ fd'[c] = s
           /\ \A d \in Works : d # c => fd'[d] = fd[d]
  OBVIOUS

\* The closure goes to the end of the queue.
LEMMA AcceptQueuedOwners ==
    ASSUME ConInv, NEW c \in Works, AcceptQueued(c)
    PROVE  Owners'
  <1>1. /\ m_freshWork' = Append(m_freshWork, c) /\ work' = work
        /\ fd' = [fd EXCEPT ![c] = "queued"] /\ fd[c] = "backlog"
    BY DEF AcceptQueued, Acceptable, ScheduleSpare, ScheduleThread, Enqueue
  <1>2. m_freshWork \in Seq(Works) /\ fd \in [Works -> FdState]
    BY DEF ConInv, ConTypeOK, TypeOK
  <1>3. fd'[c] = "queued" /\ \A d \in Works : d # c => fd'[d] = fd[d]
    BY <1>1, <1>2
  <1> DEFINE n == Len(m_freshWork)
  <1>4. /\ n \in Nat /\ DOMAIN m_freshWork = 1..n /\ DOMAIN m_freshWork' = 1..(n + 1)
        /\ m_freshWork'[n + 1] = c /\ \A k \in 1..n : m_freshWork'[k] = m_freshWork[k]
    BY <1>1, <1>2, AppendProperties, LenProperties
  <1> HIDE DEF n
  <1>5. InQueue(c)' /\ \A d \in Works : d # c => (InQueue(d)' <=> InQueue(d))
    <2>1. n + 1 \in 1..(n + 1) /\ 1..(n + 1) = (1..n) \cup {n + 1}
      BY <1>4
    <2> QED  BY <1>4, <2>1 DEF InQueue
  <1>6. \A d \in Works : WithThread(d)' <=> WithThread(d)
    BY <1>1 DEF WithThread
  <1> QED  BY <1>1, <1>3, <1>5, <1>6 DEF ConInv, Owners

\* The closure goes from the head of the queue to a thread.
LEMMA ConnBeginOwners ==
    ASSUME ConInv, NEW t \in Threads, ConnBegin(t)
    PROVE  Owners' /\ fd' \in [Works -> FdState]
  <1> DEFINE q == m_freshWork
             c == Head(m_freshWork)
             n == Len(q)
  <1>0. /\ q \in Seq(Works) /\ fd \in [Works -> FdState] /\ work \in [Threads -> Works \cup {NoWork}]
        /\ OnePlace /\ WorkOwned /\ NoWork \notin Works
    BY PoolAssumption DEF ConInv, ConTypeOK, TypeOK, IInv, CountInv
  <1>1. /\ q # << >> /\ thr[t] = "ready" /\ m_freshWork' = Tail(q)
        /\ work' = [work EXCEPT ![t] = c] /\ fd' = [fd EXCEPT ![work'[t]] = "served"]
    BY DEF ConnBegin, ThreadTake, MayTake, Popped
  <1>2. /\ n \in Nat /\ n > 0 /\ c \in Works /\ c = q[1] /\ DOMAIN q = 1..n
        /\ DOMAIN Tail(q) = 1..(n - 1) /\ \A k \in 1..(n - 1) : Tail(q)[k] = q[k + 1]
    BY <1>0, <1>1, HeadTailProperties, LenProperties, EmptySeq
  <1>3. /\ work'[t] = c /\ \A u \in Threads : u # t => work'[u] = work[u]
        /\ work[t] = NoWork
    BY <1>0, <1>1 DEF WorkOwned
  <1>4. fd' = [fd EXCEPT ![c] = "served"]
    BY <1>1, <1>3
  <1>5. /\ fd'[c] = "served" /\ fd' \in [Works -> FdState]
        /\ \A d \in Works : d # c => fd'[d] = fd[d]
    <2>1. "served" \in FdState
      BY DEF FdState
    <2> HIDE DEF c
    <2> QED  BY <1>0, <1>2, <1>4, <2>1
  <1> HIDE DEF c, n
  <1>6. \A d \in Works : InQueue(d)' <=> (InQueue(d) /\ d # c)
    <2>1. ASSUME NEW d \in Works, InQueue(d)' PROVE InQueue(d) /\ d # c
      <3>1. PICK k \in 1..(n - 1) : Tail(q)[k] = d
        BY <1>1, <1>2, <2>1 DEF InQueue
      <3>2. k + 1 \in 1..n /\ 1 \in 1..n /\ k + 1 # 1 /\ q[k + 1] = d
        BY <1>2, <3>1
      <3> QED  BY <1>0, <1>2, <3>2 DEF InQueue, OnePlace
    <2>2. ASSUME NEW d \in Works, InQueue(d), d # c PROVE InQueue(d)'
      <3>1. PICK k \in 1..n : q[k] = d
        BY <1>2, <2>2 DEF InQueue
      <3>2. k # 1
        BY <1>2, <2>2, <3>1
      <3>3. k - 1 \in 1..(n - 1) /\ (k - 1) + 1 = k
        BY <1>2, <3>1, <3>2
      <3>4. Tail(q)[k - 1] = d
        BY <1>2, <3>1, <3>3
      <3> QED  BY <1>1, <1>2, <3>3, <3>4 DEF InQueue
    <2> QED  BY <2>1, <2>2
  <1>7. \A d \in Works : WithThread(d)' <=> (WithThread(d) \/ d = c)
    BY <1>0, <1>3 DEF WithThread
  <1> QED  BY <1>2, <1>5, <1>6, <1>7 DEF ConInv, Owners

\* The closure's thread is done with it.
LEMMA ConnDoneOwners ==
    ASSUME ConInv, NEW t \in Threads, ConnEnd(t) \/ ConnFail(t)
    PROVE  Owners' /\ fd' \in [Works -> FdState]
  <1> DEFINE c == work[t]
  <1>0. /\ fd \in [Works -> FdState] /\ work \in [Threads -> Works \cup {NoWork}]
        /\ OnePlace /\ WorkOwned /\ NoWork \notin Works
    BY PoolAssumption DEF ConInv, ConTypeOK, TypeOK, IInv, CountInv
  <1>1. /\ thr[t] = "running" /\ m_freshWork' = m_freshWork
        /\ work' = [work EXCEPT ![t] = NoWork]
    BY DEF ConnEnd, ConnFail, ThreadFinish, ThreadStay, ThreadLeave
  <1>2. PICK s \in {"lost", "lingering", "closed"} : fd' = [fd EXCEPT ![c] = s]
    BY DEF ConnEnd, ConnFail, AfterService
  <1>3. c \in Works
    BY <1>0, <1>1 DEF WorkOwned
  <1>4. /\ fd'[c] = s /\ fd' \in [Works -> FdState]
        /\ \A d \in Works : d # c => fd'[d] = fd[d]
    <2>1. s \in FdState
      BY DEF FdState
    <2> HIDE DEF c
    <2> QED  BY <1>0, <1>2, <1>3, <2>1
  <1>5. work'[t] = NoWork /\ \A u \in Threads : u # t => work'[u] = work[u]
    BY <1>0, <1>1
  <1>6. \A d \in Works : InQueue(d)' <=> InQueue(d)
    BY <1>1 DEF InQueue
  <1>7. \A d \in Works : WithThread(d)' <=> (WithThread(d) /\ d # c)
    BY <1>0, <1>3, <1>5 DEF WithThread, OnePlace
  <1>8. ~InQueue(c)
    BY <1>0 DEF InQueue, OnePlace
  <1> QED  BY <1>3, <1>4, <1>6, <1>7, <1>8 DEF ConInv, Owners

\* No step loses a descriptor but the refusal and the end in shutdown.
LEMMA EndsStep ==
    ASSUME ConInv, [ConNext]_allvars
    PROVE  Ends'
  <1>0. /\ fd \in [Works -> FdState] /\ Owners /\ Ends /\ WorkOwned
        /\ work \in [Threads -> Works \cup {NoWork}]
    BY DEF ConInv, ConTypeOK, TypeOK, IInv, CountInv
  <1>1. ASSUME NEW c \in Works,
               Connect(c) \/ AcceptDenied(c) \/ TermSocket(c)
        PROVE  Ends'
    <2>1. UNCHANGED <<offered, finished, in_shutdown>>
      BY <1>1 DEF Connect, AcceptDenied, TermSocket, vars
    <2>2. PICK s \in {"backlog", "closed"} :
            fd' = [fd EXCEPT ![c] = s] /\ (s = "backlog" => fd[c] = "none")
      BY <1>1 DEF Connect, AcceptDenied, TermSocket
    <2>3. fd'[c] = s /\ \A d \in Works : d # c => fd'[d] = fd[d]
      BY <1>0, <2>2
    <2> QED  BY <1>0, <2>1, <2>2, <2>3 DEF Ends
  <1>2. ASSUME NEW c \in Works, AcceptQueued(c) \/ AcceptRefused(c)
        PROVE  Ends'
    <2>1. /\ offered' = offered \cup {c} /\ UNCHANGED <<finished, in_shutdown>>
          /\ fd[c] = "backlog"
      BY <1>2 DEF AcceptQueued, AcceptRefused, Acceptable, ScheduleSpare, ScheduleThread,
                  ScheduleRefuse, ScheduleNoMem
    <2>2. PICK s \in {"queued", "lost"} : fd' = [fd EXCEPT ![c] = s]
      BY <1>2 DEF AcceptQueued, AcceptRefused
    <2>3. fd'[c] = s /\ \A d \in Works : d # c => fd'[d] = fd[d]
      BY <1>0, <2>2
    <2> QED  BY <1>0, <2>1, <2>3 DEF Ends
  <1>3. ASSUME NEW t \in Threads, ConnBegin(t)
        PROVE  Ends'
    <2>1. PICK c : fd' = [fd EXCEPT ![c] = "served"]
      BY <1>3 DEF ConnBegin
    <2>2. UNCHANGED <<offered, finished, in_shutdown>>
      BY <1>3 DEF ConnBegin, ThreadTake
    <2>3. \A d \in Works : fd'[d] = "served" \/ fd'[d] = fd[d]
      BY <1>0, <2>1
    <2> QED  BY <1>0, <2>2, <2>3 DEF Ends
  <1>4. ASSUME NEW t \in Threads, ConnEnd(t) \/ ConnFail(t)
        PROVE  Ends'
    <2> DEFINE c == work[t]
    <2>1. /\ thr[t] = "running" /\ finished' = finished \cup {c}
          /\ UNCHANGED <<offered, in_shutdown>>
      BY <1>4 DEF ConnEnd, ConnFail, ThreadFinish, ThreadStay, ThreadLeave
    <2>2. PICK s \in {"lost", "lingering", "closed"} :
            fd' = [fd EXCEPT ![c] = s] /\ (s = "lost" => in_shutdown)
      BY <1>4 DEF ConnEnd, ConnFail, AfterService
    <2>3. c \in Works /\ c \in offered /\ fd[c] = "served"
      BY <1>0, <2>1 DEF WorkOwned, ConInv, IInv, OnePlace, Owners, WithThread
    <2>4. fd'[c] = s /\ \A d \in Works : d # c => fd'[d] = fd[d]
      <3> HIDE DEF c
      <3> QED  BY <1>0, <2>2, <2>3
    <2> HIDE DEF c
    <2> QED  BY <1>0, <2>1, <2>2, <2>3, <2>4 DEF Ends
  <1>5. CASE UNCHANGED <<fd, offered, finished>> /\ (in_shutdown' = in_shutdown \/ in_shutdown')
    BY <1>0, <1>5 DEF Ends
  <1>6. ASSUME NEW t \in Threads, ConnHold(t) \/ PoolInternal(t)
        PROVE  Ends'
    BY <1>5, <1>6 DEF ConnHold, PoolInternal, vars, convars, ThreadExit, ThreadWait, SpuriousWakeup
  <1>7. ASSUME NEW c \in Works, ConnAnswered(c)
        PROVE  Ends'
    BY <1>5, <1>7 DEF ConnAnswered, vars
  <1>8. CASE AcceptExhausted \/ CbResume \/ LeaveMainLoop \/ UNCHANGED allvars
    BY <1>5, <1>8 DEF AcceptExhausted, CbResume, LeaveMainLoop, vars, convars, allvars
  <1>9. CASE Shutdown \/ ShutdownWaits
    BY <1>5, <1>9 DEF Shutdown, ShutdownWaits, convars, StopCall, StopWait, StopSpuriousWakeup,
                      StopReturn
  <1> QED  BY <1>1, <1>2, <1>3, <1>4, <1>6, <1>7, <1>8, <1>9 DEF ConNext

\* What holds a connection is one of the named things.
LEMMA HeldType ==
    ASSUME ConInv, [ConNext]_allvars
    PROVE  held' \in [Works -> Held]
  <1>0. held \in [Works -> Held]
    BY DEF ConInv, ConTypeOK
  <1>1. \/ held' = held
        \/ \E c, h : h \in Held /\ held' = [held EXCEPT ![c] = h]
    BY DEF ConNext, allvars, convars, Connect, AcceptDenied, AcceptQueued, AcceptRefused,
           TermSocket, ConnAnswered, ConnBegin, ConnHold, ConnEnd, ConnFail, PoolInternal,
           AcceptExhausted, CbResume, LeaveMainLoop, Shutdown, ShutdownWaits, Held
  <1> QED  BY <1>0, <1>1

-----------------------------------------------------------------------------
(* The inductive invariant                                                 *)

\* Nobody has a descriptor yet.
LEMMA ConInvInit == ConInit => ConInv
  <1> SUFFICES ASSUME ConInit PROVE ConInv
    OBVIOUS
  <1>1. IInv
    BY InitCount, InitQueue DEF ConInit, IInv
  <1>2. ConTypeOK
    BY <1>1 DEF ConInit, ConTypeOK, FdState, Held, IInv, CountInv
  <1>3. Owners
    BY PoolAssumption DEF ConInit, Init, Owners, InQueue, WithThread
  <1>4. Ends
    BY DEF ConInit, Init, Ends
  <1> QED  BY <1>1, <1>2, <1>3, <1>4 DEF ConInv

\* Every step of the server keeps its invariant.
LEMMA ConInvStep == ConInv /\ [ConNext]_allvars => ConInv'
  <1> SUFFICES ASSUME ConInv, [ConNext]_allvars PROVE ConInv'
    OBVIOUS
  <1>0. IInv' /\ TypeOK'
    BY ServerStepsPool, PoolStep DEF ConInv, IInv, CountInv
  <1>1. /\ fd \in [Works -> FdState] /\ listener \in Listener
        /\ in_shutdown \in BOOLEAN /\ Owners
    BY DEF ConInv, ConTypeOK, Listener
  <1> SUFFICES /\ fd' \in [Works -> FdState] /\ Owners'
               /\ listener' \in Listener /\ in_shutdown' \in BOOLEAN
    BY <1>0, EndsStep, HeldType DEF ConInv, ConTypeOK, Listener
  <1>2. CASE UNCHANGED allvars
    <2>1. UNCHANGED <<m_freshWork, work, fd, listener, in_shutdown>>
      BY <1>2 DEF allvars, convars, vars
    <2> QED  BY <1>1, <2>1, OwnersStay
  <1>3. ASSUME NEW c \in Works, Connect(c) \/ AcceptDenied(c) \/ AcceptRefused(c) \/ TermSocket(c)
        PROVE  /\ fd' \in [Works -> FdState] /\ Owners'
               /\ listener' \in Listener /\ in_shutdown' \in BOOLEAN
    <2>1. UNCHANGED <<m_freshWork, work, listener, in_shutdown>>
      BY <1>3 DEF Connect, AcceptDenied, AcceptRefused, TermSocket, vars, ScheduleRefuse,
                  ScheduleNoMem
    <2>2. PICK s \in {"backlog", "closed", "lost"} : fd' = [fd EXCEPT ![c] = s]
      BY <1>3 DEF Connect, AcceptDenied, AcceptRefused, TermSocket
    <2>3. fd[c] \in {"none", "backlog", "lingering"}
      BY <1>3 DEF Connect, AcceptDenied, AcceptRefused, TermSocket, Acceptable
    <2>4. s \in FdState
      BY DEF FdState
    <2>5. /\ fd' \in [Works -> FdState] /\ fd'[c] = s
          /\ \A d \in Works : d # c => fd'[d] = fd[d]
      BY <1>1, <2>2, <2>4
    <2>6. Owners'
      BY <1>1, <2>1, <2>3, <2>5, OwnersStay
    <2> QED  BY <1>1, <2>1, <2>5, <2>6
  <1>4. ASSUME NEW c \in Works, AcceptQueued(c)
        PROVE  /\ fd' \in [Works -> FdState] /\ Owners'
               /\ listener' \in Listener /\ in_shutdown' \in BOOLEAN
    BY <1>1, <1>4, AcceptQueuedOwners DEF AcceptQueued, FdState
  <1>5. ASSUME NEW t \in Threads, ConnBegin(t)
        PROVE  /\ fd' \in [Works -> FdState] /\ Owners'
               /\ listener' \in Listener /\ in_shutdown' \in BOOLEAN
    <2>1. UNCHANGED <<listener, in_shutdown>>
      BY <1>5 DEF ConnBegin
    <2> QED  BY <1>1, <1>5, <2>1, ConnBeginOwners
  <1>6. ASSUME NEW t \in Threads, ConnEnd(t) \/ ConnFail(t)
        PROVE  /\ fd' \in [Works -> FdState] /\ Owners'
               /\ listener' \in Listener /\ in_shutdown' \in BOOLEAN
    <2>1. UNCHANGED <<listener, in_shutdown>>
      BY <1>6 DEF ConnEnd, ConnFail
    <2> QED  BY <1>1, <1>6, <2>1, ConnDoneOwners
  <1>6b. ASSUME NEW c \in Works, ConnAnswered(c)
        PROVE  /\ fd' \in [Works -> FdState] /\ Owners'
               /\ listener' \in Listener /\ in_shutdown' \in BOOLEAN
    <2>1. UNCHANGED <<m_freshWork, work, fd, listener, in_shutdown>>
      BY <1>6b DEF ConnAnswered, vars
    <2> QED  BY <1>1, <2>1, OwnersStay
  <1>6a. ASSUME NEW t \in Threads, ConnHold(t)
        PROVE  /\ fd' \in [Works -> FdState] /\ Owners'
               /\ listener' \in Listener /\ in_shutdown' \in BOOLEAN
    <2>1. UNCHANGED <<m_freshWork, work, fd, listener, in_shutdown>>
      BY <1>6a DEF ConnHold, vars
    <2> QED  BY <1>1, <2>1, OwnersStay
  <1>7. ASSUME NEW t \in Threads, PoolInternal(t)
        PROVE  /\ fd' \in [Works -> FdState] /\ Owners'
               /\ listener' \in Listener /\ in_shutdown' \in BOOLEAN
    <2>1. UNCHANGED <<m_freshWork, work, fd, listener, in_shutdown>>
      BY <1>7 DEF PoolInternal, convars, ThreadExit, ThreadWait, SpuriousWakeup
    <2> QED  BY <1>1, <2>1, OwnersStay
  <1>8. CASE Shutdown \/ ShutdownWaits
    <2>1. UNCHANGED <<m_freshWork, work, fd, listener, in_shutdown>>
      BY <1>8 DEF Shutdown, ShutdownWaits, convars, StopCall, StopWait, StopSpuriousWakeup,
                  StopReturn
    <2> QED  BY <1>1, <2>1, OwnersStay
  <1>9. CASE AcceptExhausted \/ CbResume \/ LeaveMainLoop
    <2>1. UNCHANGED <<m_freshWork, work, fd>>
      BY <1>9 DEF AcceptExhausted, CbResume, LeaveMainLoop, vars
    <2>2. listener' \in Listener /\ in_shutdown' \in BOOLEAN
      BY <1>1, <1>9 DEF AcceptExhausted, CbResume, LeaveMainLoop, Listener
    <2> QED  BY <1>1, <2>1, <2>2, OwnersStay
  <1> QED  BY <1>2, <1>3, <1>4, <1>5, <1>6, <1>6a, <1>6b, <1>7, <1>8, <1>9 DEF ConNext

\* The invariant of the server with its pool.
LEMMA ServerInductive == ConSpec => []ConInv
  BY ConInvInit, ConInvStep, PTL DEF ConSpec

-----------------------------------------------------------------------------
(* Theorems                                                                *)

\* A descriptor that do_accept got from the kernel has exactly one owner from
\* then on (the closure in the queue, the thread that runs the conn object, or
\* the event loop that closes it), whatever the pool does with the closures.
\* The exceptions are named: the client that the pool refused, and the
\* connection that ended after the event loop was left.
THEOREM DescriptorHasOneOwner == ConSpec => []OneOwner
  <1>1. ASSUME ConInv PROVE OneOwner
    <2> SUFFICES ASSUME NEW c \in Works
                 PROVE  /\ Cardinality({k \in DOMAIN m_freshWork : m_freshWork[k] = c})
                             = (IF fd[c] = "queued" THEN 1 ELSE 0)
                        /\ Cardinality({t \in Threads : work[t] = c})
                             = (IF fd[c] = "served" THEN 1 ELSE 0)
      BY <1>1 DEF OneOwner, ConInv, Ends
    <2> DEFINE K == {k \in DOMAIN m_freshWork : m_freshWork[k] = c}
               T == {t \in Threads : work[t] = c}
    <2>0. OnePlace /\ Owners /\ NoWork \notin Works
      BY <1>1, PoolAssumption DEF ConInv, IInv
    <2>1. Cardinality({}) = 0 /\ \A x : Cardinality({x}) = 1
      BY FS_EmptySet, FS_Singleton, Zenon
    <2>2. Cardinality(K) = (IF fd[c] = "queued" THEN 1 ELSE 0)
      <3>1. CASE fd[c] = "queued"
        <4>1. PICK k \in DOMAIN m_freshWork : m_freshWork[k] = c
          BY <2>0, <3>1 DEF Owners, InQueue
        <4>2. K = {k}
          BY <2>0, <4>1 DEF OnePlace
        <4> QED  BY <2>1, <3>1, <4>2
      <3>2. CASE fd[c] # "queued"
        <4>1. K = {}
          BY <2>0, <3>2 DEF Owners, InQueue
        <4> QED  BY <2>1, <3>2, <4>1
      <3> QED  BY <3>1, <3>2
    <2>3. Cardinality(T) = (IF fd[c] = "served" THEN 1 ELSE 0)
      <3>1. CASE fd[c] = "served"
        <4>1. PICK t \in Threads : work[t] = c
          BY <2>0, <3>1 DEF Owners, WithThread
        <4>2. T = {t}
          BY <2>0, <4>1 DEF OnePlace
        <4> QED  BY <2>1, <3>1, <4>2
      <3>2. CASE fd[c] # "served"
        <4>1. T = {}
          BY <2>0, <3>2 DEF Owners, WithThread
        <4> QED  BY <2>1, <3>2, <4>1
      <3> QED  BY <3>1, <3>2
    <2> QED  BY <2>2, <2>3
  <1> QED  BY <1>1, ServerInductive, PTL

\* The event loop, the conn objects and the shutdown use the pool only by its
\* operations, so the pool serves them as an Executor.
THEOREM ServerUsesExecutor == ConSpec => ImplementsExecutor
  <1>1. ConInit => Init
    BY DEF ConInit
  <1>2. [ConNext]_allvars => [Next]_vars
    BY ServerStepsPool
  <1>3. ConSpec => Spec
    BY <1>1, <1>2, PTL DEF ConSpec, Spec
  <1> QED  BY <1>3, PoolImplementsExecutor
=============================================================================
