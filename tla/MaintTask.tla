----------------------------- MODULE MaintTask -----------------------------
(***************************************************************************)
(* Maintenance tasks as sessions run them (bgtask.cc, maintenance.cc).  A  *)
(* session asks for a task; the first one becomes the worker and registers *)
(* the time of its start in nBgTimestamp, others attach to the log of the  *)
(* worker or raise the abort flag.  What the task itself does is left to   *)
(* the modules that extend this one.                                       *)
(***************************************************************************)
EXTENDS Integers, FiniteSets

CONSTANTS
    Sessions,
    Ids,        \* the readings of time(0) that tell tasks apart, positive
    NoCmd

ASSUME IdsAssumption == Ids \subseteq Nat \ {0}

VARIABLES
    st,         \* what a session does
    cmd,        \* the command of the session, after DispatchMaintWork
    other,      \* other_id: the task it is attached to
    stamp,      \* nBgTimestamp
    abort,      \* g_sigTaskAbort
    down        \* evabase::in_shutdown

taskVars == <<st, cmd, other, stamp, abort, down>>

\* "registered": owner of the log, before the abort flag is reset; "attached":
\* about to compare ids; "following": in the inner loop over the log file.
States == {"idle", "registered", "working", "attached", "following"}

TaskInit ==
    /\ st = [s \in Sessions |-> "idle"]
    /\ cmd = [s \in Sessions |-> NoCmd]
    /\ other = [s \in Sessions |-> 0]
    /\ stamp = 0 /\ abort = FALSE /\ down = FALSE

Workers == {s \in Sessions : st[s] \in {"registered", "working"}}

\* Bug for the mutation check: only a cancelled task is waited for.
FreeUnlessAborted(id) == stamp = 0 \/ ~abort

\* "ok, not running yet -> become the log source then"
Free(id) == stamp = 0

\* A request for a task, up to the end of the first locked block of Run.  The
\* log file may be impossible to create.
Register(s, c, id) ==
    /\ st[s] = "idle" /\ ~down
    /\ Free(id)
    /\ st' = [st EXCEPT ![s] = "registered"]
    /\ cmd' = [cmd EXCEPT ![s] = c]
    /\ stamp' = id
    /\ UNCHANGED <<other, abort, down>>

RegisterFails(s, id) ==
    /\ st[s] = "idle" /\ ~down
    /\ Free(id)
    /\ stamp' = 0
    /\ UNCHANGED <<st, cmd, other, abort, down>>

Attach(s) ==
    /\ st[s] = "idle" /\ ~down
    /\ stamp # 0
    /\ st' = [st EXCEPT ![s] = "attached"]
    /\ other' = [other EXCEPT ![s] = stamp]
    /\ UNCHANGED <<cmd, stamp, abort, down>>

\* The worker part starts with a lock of its own: an abort that was requested
\* since the registration is forgotten.
Begin(s) ==
    /\ st[s] = "registered"
    /\ st' = [st EXCEPT ![s] = "working"]
    /\ abort' = FALSE
    /\ UNCHANGED <<cmd, other, stamp, down>>

\* tDtorEx cleaner, at the end of Action or when it throws.
Finish(s) ==
    /\ st[s] = "working"
    /\ st' = [st EXCEPT ![s] = "idle"]
    /\ cmd' = [cmd EXCEPT ![s] = NoCmd]
    /\ stamp' = 0
    /\ UNCHANGED <<other, abort, down>>

\* "&sigabort" in the command
SigAbort ==
    /\ abort' = TRUE
    /\ UNCHANGED <<st, cmd, other, stamp, down>>

\* The outer loop of a listener: the task is gone or replaced, the log cannot
\* be opened, or there is something to read.
Leave(s) ==
    /\ st' = [st EXCEPT ![s] = "idle"]
    /\ other' = [other EXCEPT ![s] = 0]
    /\ UNCHANGED <<cmd, stamp, abort, down>>

Follow(s) ==
    /\ st[s] = "attached"
    /\ \/ /\ other[s] # stamp
          /\ Leave(s)
       \/ /\ other[s] = stamp
          /\ st' = [st EXCEPT ![s] = "following"]
          /\ UNCHANGED <<cmd, other, stamp, abort, down>>

FollowFails(s) ==
    /\ st[s] \in {"attached", "following"}
    /\ Leave(s)

\* The inner loop is left only when no task is registered at that moment.
LogEnds(s) ==
    /\ st[s] = "following"
    /\ stamp = 0
    /\ st' = [st EXCEPT ![s] = "attached"]
    /\ UNCHANGED <<cmd, other, stamp, abort, down>>

CheckStopSignal == abort \/ down

Shutdown ==
    /\ ~down
    /\ down' = TRUE
    /\ UNCHANGED <<st, cmd, other, stamp, abort>>

\* The process ends, in whatever state, and is started again.
TaskRestart ==
    /\ st' = [s \in Sessions |-> "idle"]
    /\ cmd' = [s \in Sessions |-> NoCmd]
    /\ other' = [s \in Sessions |-> 0]
    /\ stamp' = 0 /\ abort' = FALSE /\ down' = FALSE

\* At most one session works on the cache, and nBgTimestamp is set exactly as
\* long as one does, so that no later one can be locked out or let in.
OneWorker ==
    /\ Cardinality(Workers) <= 1
    /\ (stamp # 0) <=> (Workers # {})
=============================================================================
