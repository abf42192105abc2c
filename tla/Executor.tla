------------------------------ MODULE Executor ------------------------------
(***************************************************************************)
(* What tpool.h promises to the connection server: accepted work is        *)
(* started in the order of its acceptance and once, none is started after  *)
(* stop() was called, and stop() returns only when nothing runs any more.  *)
(* Threads, their number and their waiting are not part of the promise.    *)
(***************************************************************************)
EXTENDS Sequences

CONSTANT Works        \* the std::function objects that callers pass

VARIABLES
    pending,          \* accepted and not yet started, in order
    running,          \* started and not yet finished
    finished,         \* run to the end
    phase             \* of stop(): "open", "stopping", "stopped"

xvars == <<pending, running, finished, phase>>

Init ==
    /\ pending = <<>>
    /\ running = {}
    /\ finished = {}
    /\ phase = "open"

Accept(w) ==
    /\ pending' = Append(pending, w)
    /\ UNCHANGED <<running, finished, phase>>

Start ==
    /\ phase = "open"
    /\ pending # <<>>
    /\ running' = running \cup {Head(pending)}
    /\ pending' = Tail(pending)
    /\ UNCHANGED <<finished, phase>>

Finish(w) ==
    /\ w \in running
    /\ running' = running \ {w}
    /\ finished' = finished \cup {w}
    /\ UNCHANGED <<pending, phase>>

StopCall ==
    /\ phase = "open"
    /\ phase' = "stopping"
    /\ UNCHANGED <<pending, running, finished>>

StopReturn ==
    /\ phase = "stopping"
    /\ running = {}
    /\ phase' = "stopped"
    /\ UNCHANGED <<pending, running, finished>>

Next ==
    \/ \E w \in Works : Accept(w) \/ Finish(w)
    \/ Start
    \/ StopCall
    \/ StopReturn

Spec == Init /\ [][Next]_xvars
=============================================================================
