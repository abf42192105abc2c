----------------------------- MODULE ConServer ------------------------------
(***************************************************************************)
(* The connection server (conserver.cc): the event loop, which is the main *)
(* thread, accepts clients and hands each descriptor to the thread pool as *)
(* a function object; a pool thread runs the conn object to its end, and   *)
(* the descriptor goes back to the event loop to be closed.  After the     *)
(* loop was left the destructor of tAppStartStop stops the pool.           *)
(*                                                                         *)
(* A work of the pool is the closure of one client's descriptor, so the    *)
(* clients are the works.                                                  *)
(***************************************************************************)
EXTENDS ThreadPool

VARIABLES
    fd,          \* who has the client's descriptor
    held,        \* what keeps a connection from ending, see Held
    listener,    \* the event of the listening socket
    in_shutdown  \* evabase::in_shutdown, set when the main loop was left

convars == <<fd, held, listener, in_shutdown>>

allvars == <<vars, convars>>

FdState == {"none",      \* no connection
            "backlog",   \* the kernel completed the connection
            "queued",    \* in a closure that waits for its thread
            "served",    \* owned by a conn object
            "lingering", \* posted to the event loop for termination
            "closed",
            "lost"}      \* open, and nobody knows the descriptor

Held == {"no",      \* the connection's thread comes back to its loop
         "tunnel",  \* in PassThrough, which selects without a timeout and
                    \* never looks at in_shutdown: its two peers end it
         "answer"}  \* its downloader, which ~conn joins, waits for the event
                    \* loop to connect it

ConInit ==
    /\ Init
    /\ fd = [c \in Works |-> "none"]
    /\ held = [c \in Works |-> "no"]
    /\ listener = "armed"
    /\ in_shutdown = FALSE

Connect(c) ==
    /\ fd[c] = "none"
    /\ listener # "closed"
    /\ fd' = [fd EXCEPT ![c] = "backlog"]
    /\ UNCHANGED <<vars, held, listener, in_shutdown>>

-----------------------------------------------------------------------------
(* do_accept, in the event loop                                            *)

Acceptable(c) ==
    /\ ~in_shutdown
    /\ listener = "armed"
    /\ fd[c] = "backlog"

\* EMFILE, ENFILE, ENOBUFS, ENOMEM: event_del(self) and a timer for
\* cb_resume.  The result of event_base_once is ignored: without memory for
\* the timer nobody will resume the socket.
AcceptExhausted ==
    /\ \E c \in Works : Acceptable(c)
    /\ listener' \in {"paused", "dead"}
    /\ UNCHANGED <<vars, fd, held, in_shutdown>>

CbResume ==
    /\ listener = "paused"
    /\ ~in_shutdown
    /\ listener' = "armed"
    /\ UNCHANGED <<vars, fd, held, in_shutdown>>

\* The peer's name cannot be resolved or the hosts files forbid it.
AcceptDenied(c) ==
    /\ Acceptable(c)
    /\ fd' = [fd EXCEPT ![c] = "closed"]
    /\ UNCHANGED <<vars, held, listener, in_shutdown>>

\* SetupConAndGo: the closure went into the pool's queue...
AcceptQueued(c) ==
    /\ Acceptable(c)
    /\ ScheduleSpare(c) \/ \E t \in Threads : ScheduleThread(c, t)
    /\ fd' = [fd EXCEPT ![c] = "queued"]
    /\ UNCHANGED <<held, listener, in_shutdown>>

\* ...or the pool refused it: the result is ignored, and the closure holds
\* the descriptor as a plain number.
AcceptRefused(c) ==
    /\ Acceptable(c)
    /\ ScheduleRefuse(c) \/ \E t \in Threads : ScheduleNoMem(c, t)
    /\ fd' = [fd EXCEPT ![c] = "lost"]
    /\ UNCHANGED <<held, listener, in_shutdown>>

-----------------------------------------------------------------------------
(* The closure, in a pool thread                                           *)

ConnBegin(t) ==
    /\ ThreadTake(t)
    /\ fd' = [fd EXCEPT ![work'[t]] = "served"]
    /\ UNCHANGED <<held, listener, in_shutdown>>

\* The client's request takes the thread to PassThrough, or has the
\* connection's downloader post a connect to the event loop.
ConnHold(t) ==
    /\ thr[t] = "running"
    /\ held[work[t]] = "no"
    /\ \E how \in {"tunnel", "answer"} : held' = [held EXCEPT ![work[t]] = how]
    /\ UNCHANGED <<vars, fd, listener, in_shutdown>>

\* The loop answers; after it was left MainLoop pushes it a few times more.
ConnAnswered(c) ==
    /\ held[c] = "answer"
    /\ stopper = "idle"
    /\ held' = [held EXCEPT ![c] = "no"]
    /\ UNCHANGED <<vars, fd, listener, in_shutdown>>

\* Bug for the mutation check: the descriptor is left to the event loop that
\* has ended, and to nobody while it runs.
AfterServiceSwapped == IF in_shutdown THEN "lingering" ELSE "lost"

\* FinishConnection posts nothing once the loop was left.
AfterService == IF in_shutdown THEN "lost" ELSE "lingering"

\* WorkLoop returned, or a peer ended the tunnel; ~conn has joined the
\* downloader and calls FinishConnection.
ConnEnd(t) ==
    /\ ThreadFinish(t)
    /\ held[work[t]] # "answer"
    /\ fd' = [fd EXCEPT ![work[t]] = AfterService]
    /\ held' = [held EXCEPT ![work[t]] = "no"]
    /\ UNCHANGED <<listener, in_shutdown>>

\* The conn object could not be made: unique_fd closes the descriptor.
ConnFail(t) ==
    /\ ThreadFinish(t)
    /\ held[work[t]] = "no"
    /\ fd' = [fd EXCEPT ![work[t]] = "closed"]
    /\ UNCHANGED <<held, listener, in_shutdown>>

\* termsocket_async in the event loop; after the loop the post is void.
TermSocket(c) ==
    /\ fd[c] = "lingering"
    /\ ~in_shutdown
    /\ fd' = [fd EXCEPT ![c] = "closed"]
    /\ UNCHANGED <<vars, held, listener, in_shutdown>>

PoolInternal(t) ==
    /\ ThreadExit(t) \/ ThreadWait(t) \/ SpuriousWakeup(t)
    /\ UNCHANGED convars

-----------------------------------------------------------------------------
(* The end of the program                                                  *)

\* evabase::MainLoop after event_base_loop: the teardown action has
\* do_accept close the sockets that are registered.
LeaveMainLoop ==
    /\ ~in_shutdown
    /\ in_shutdown' = TRUE
    /\ listener' = IF listener = "armed" THEN "closed" ELSE listener
    /\ UNCHANGED <<vars, fd, held>>

\* conserver::Shutdown
Shutdown == in_shutdown /\ StopCall /\ UNCHANGED convars

ShutdownWaits ==
    /\ StopWait \/ StopSpuriousWakeup \/ StopReturn
    /\ UNCHANGED convars

ConNext ==
    \/ \E c \in Works :
         \/ Connect(c)
         \/ AcceptDenied(c)
         \/ AcceptQueued(c)
         \/ AcceptRefused(c)
         \/ TermSocket(c)
         \/ ConnAnswered(c)
    \/ \E t \in Threads :
         \/ ConnBegin(t)
         \/ ConnHold(t)
         \/ ConnEnd(t)
         \/ ConnFail(t)
         \/ PoolInternal(t)
    \/ AcceptExhausted
    \/ CbResume
    \/ LeaveMainLoop
    \/ Shutdown
    \/ ShutdownWaits

ConSpec == ConInit /\ [][ConNext]_allvars

\* The timer of cb_resume fires; a thread that can have the pool's mutex gets
\* it; a connection that nothing holds ends once in_shutdown is set (WorkLoop
\* tests it after every select of a few seconds); the event loop answers as
\* long as it runs; the main thread goes through its destructor.  Nothing is
\* assumed of the peers of a tunnel.
ConFairness ==
    /\ WF_allvars(CbResume)
    /\ \A c \in Works :
         /\ WF_allvars(TermSocket(c))
         /\ WF_allvars(~in_shutdown /\ ConnAnswered(c))
    /\ \A t \in Threads :
         /\ WF_allvars((ThreadExit(t) \/ ThreadWait(t)) /\ UNCHANGED convars)
         /\ WF_allvars(ConnBegin(t))
         /\ WF_allvars(/\ in_shutdown
                       /\ thr[t] = "running"
                       /\ held[work[t]] = "no"
                       /\ ConnEnd(t) \/ ConnFail(t))
    /\ WF_allvars(Shutdown)
    /\ WF_allvars((StopWait \/ StopReturn) /\ UNCHANGED convars)

ConFairSpec == ConSpec /\ ConFairness

-----------------------------------------------------------------------------
(* Properties                                                              *)

ConTypeOK ==
    /\ TypeOK
    /\ fd \in [Works -> FdState]
    /\ held \in [Works -> Held]
    /\ listener \in {"armed", "paused", "dead", "closed"}
    /\ in_shutdown \in BOOLEAN

\* A descriptor in the program's hands has exactly one owner: one closure in
\* the pool's queue, one thread, or the event loop that will close it.  The
\* only descriptors without one are those of the clients that the pool
\* refused (SetupConAndGo lets them leak) and those whose connection ended when
\* the event loop had been left.
OneOwner ==
    \A c \in Works :
        /\ Cardinality({k \in DOMAIN m_freshWork : m_freshWork[k] = c})
             = (IF fd[c] = "queued" THEN 1 ELSE 0)
        /\ Cardinality({t \in Threads : work[t] = c})
             = (IF fd[c] = "served" THEN 1 ELSE 0)
        /\ fd[c] = "lost" => c \in offered /\ (c \notin finished \/ in_shutdown)
        /\ fd[c] = "lingering" => c \in finished

\* While the server is up every client whose connection was accepted and not
\* refused gets its thread, and its descriptor is closed after that.
AcceptedIsServed ==
    \A c \in Works :
        /\ fd[c] = "queued" ~> (fd[c] # "queued" \/ in_shutdown)
        /\ fd[c] = "lingering" ~> (fd[c] = "closed" \/ in_shutdown)

Stopped == stopper = "returned" /\ \A c \in Works : fd[c] # "served"

\* The program ends: after the main loop was left stop() returns, with no
\* connection being served and none that will be, unless a tunnel or a
\* downloader that waits for the event loop holds a connection for ever.
ServerStops ==
    in_shutdown ~> ([]Stopped \/ [](\E c \in Works : held[c] # "no"))
=============================================================================
