------------------------------ MODULE DnsCache ------------------------------
(***************************************************************************)
(* Name resolution and the connection attempts that wait for it, all in    *)
(* the thread of the event base (caddrinfo.cc, aconnect.cc).  A user is a  *)
(* downloader thread that sleeps in aconnector::Connect until its promise  *)
(* is set.  Times are seconds relative to now, cut off once they are over. *)
(***************************************************************************)
EXTENDS Integers, Sequences, FiniteSetsExt

CONSTANTS
    Hosts,      \* host names and ports
    Users,
    DnsTime,    \* cfg::dnscachetime
    ErrTime,    \* DNS_ERROR_KEEP_MAX_TIME
    CacheMax,   \* DNS_CACHE_MAX
    MaxTasks,   \* address queries of one lookup: SRV targets and the host
    MaxAddr,    \* MAX_ADDR
    ConTime,    \* the timeout a user passes to Connect
    None

ASSUME TimesAssumption == {DnsTime, ErrTime, ConTime} \subseteq Nat
ASSUME SizesAssumption == CacheMax \in Nat \ {0, 1} /\ MaxTasks > 0 /\ MaxAddr > 0

VARIABLES
    con,        \* the request of a user and the aconnector that serves it
    cache,      \* dns_cache: the answer and the time it has left
    expq,       \* dns_exp_q
    look,       \* g_active_resolver_index: the running lookups
    down        \* evabase::in_shutdown

vars == <<con, cache, expq, look, down>>

\* "posted": queued for the event thread by Connect, and by Resolve then; "dns":
\* among the callbacks of a lookup; "connecting": aconnector has sockets
\* pending; "ready" and "failed": the promise is set.
Waiting == {"posted", "dns", "connecting"}
ConStates == Waiting \cup {"idle", "ready", "failed"}

\* "none": answered with addresses, or with none of a usable kind; "other": an
\* error that is worth caching; "hard": any of ENOTFOUND, ENOTIMP, ENOMEM and
\* the two kinds of cancellation.
Results == {"ok", "none", "other", "hard"}

Idle == [st |-> "idle", host |-> None, cand |-> 0, pend |-> 0, left |-> 0]

Init ==
    /\ con = [u \in Users |-> Idle]
    /\ cache = [h \in Hosts |-> None]
    /\ expq = <<>>
    /\ look = [h \in Hosts |-> None]
    /\ down = FALSE

-----------------------------------------------------------------------------
\* aconnector

Failed(c) == [c EXCEPT !.st = "failed", !.cand = 0, !.pend = 0, !.left = 0]

\* The loop of aconnector::step over the targets that are left: one of them
\* gets a pending socket, or none of them does.  A connect that succeeds at
\* once is not among m_eventFds, so that retSuccess reports an internal error.
Tried(c) ==
    {[c EXCEPT !.st = "connecting", !.cand = n, !.pend = c.pend + 1] :
        n \in 0..(c.cand - 1)}
    \cup {IF c.pend = 0 THEN Failed(c) ELSE [c EXCEPT !.cand = 0]}
    \cup (IF c.cand > 0 THEN {Failed(c)} ELSE {})

\* What follows a timeout or the failure of a socket.
Step(c) == IF c.left < 0 THEN {Failed(c)} ELSE Tried(c)

\* processDnsResult, for an answer with n addresses.
Resolved(c, n) == IF n = 0 THEN {Failed(c)} ELSE Step([c EXCEPT !.cand = n])

\* aconnector::Connect in the thread of the user, which waits for the promise.
Connect(u, h) ==
    /\ con[u].st = "idle" /\ ~down
    /\ con' = [con EXCEPT ![u] = [Idle EXCEPT !.st = "posted", !.host = h, !.left = ConTime]]
    /\ UNCHANGED <<cache, expq, look, down>>

Taken(u) ==
    /\ con[u].st \in {"ready", "failed"}
    /\ con' = [con EXCEPT ![u] = Idle]
    /\ UNCHANGED <<cache, expq, look, down>>

SocketWorks(u) ==
    /\ con[u].st = "connecting" /\ con[u].pend > 0 /\ ~down
    /\ con' = [con EXCEPT ![u] = [@ EXCEPT !.st = "ready", !.cand = 0, !.pend = 0, !.left = 0]]
    /\ UNCHANGED <<cache, expq, look, down>>

SocketFails(u) ==
    /\ con[u].st = "connecting" /\ con[u].pend > 0 /\ ~down
    /\ \E c \in Step([con[u] EXCEPT !.pend = @ - 1]) : con' = [con EXCEPT ![u] = c]
    /\ UNCHANGED <<cache, expq, look, down>>

\* EV_TIMEOUT of a pending socket, which stays pending.
SocketSlow(u) ==
    /\ con[u].st = "connecting" /\ con[u].pend > 0 /\ ~down
    /\ \E c \in Step(con[u]) : con' = [con EXCEPT ![u] = c]
    /\ UNCHANGED <<cache, expq, look, down>>

-----------------------------------------------------------------------------
\* The cache

\* How many entries clean_dns_cache takes from the front of the queue.  The
\* comparison is the code's: it is the entries with time left that go.
Cleaned ==
    LET Stop(k) == /\ Len(expq) - k < CacheMax - 1
                   /\ k < Len(expq) => cache[expq[k + 1]].left < 0
    IN  CHOOSE k \in 0..Len(expq) : Stop(k) /\ \A j \in 0..(k - 1) : ~Stop(j)

\* "keep a copy for other users"
Remember(h, n, time) ==
    IF DnsTime = 0 THEN UNCHANGED <<cache, expq>>
    ELSE LET gone == {expq[i] : i \in 1..Cleaned}
         IN  /\ cache' = [g \in Hosts |->
                            IF g = h THEN [addrs |-> n, left |-> time]
                            ELSE IF g \in gone THEN None ELSE cache[g]]
             /\ expq' = Append(SubSeq(expq, Cleaned + 1, Len(expq)), h)

ErrorTime == IF DnsTime < ErrTime THEN DnsTime ELSE ErrTime

\* The callbacks of a lookup, each handed an answer with n addresses.
Call(cbs, n) ==
    \E f \in [cbs -> UNION {Resolved(con[u], n) : u \in cbs}] :
        /\ \A u \in cbs : f[u] \in Resolved(con[u], n)
        /\ con' = [u \in Users |-> IF u \in cbs THEN f[u] ELSE con[u]]

\* Bug for the mutation check: only the first callback is kept.
JoinLost(l, u) == l

\* "join the waiting crowd"
Join(l, u) == [l EXCEPT !.cbs = @ \cup {u}]

\* The action that aconnector::Connect posted and the one that Resolve posts in
\* turn.  A cached answer is used whatever time it has left, else the request
\* joins a running lookup or starts one.
Lookup(u) ==
    LET h == con[u].host
    IN  /\ con[u].st = "posted"
        /\ IF down
             THEN con' = [con EXCEPT ![u] = Failed(@)] /\ UNCHANGED look
           ELSE IF cache[h] # None
             THEN /\ \E c \in Resolved(con[u], cache[h].addrs) : con' = [con EXCEPT ![u] = c]
                  /\ UNCHANGED look
           ELSE /\ con' = [con EXCEPT ![u].st = "dns"]
                /\ look' = [look EXCEPT ![h] =
                      IF @ = None THEN [tasks |-> <<>>, cbs |-> {u}]
                      ELSE Join(@, u)]
        /\ UNCHANGED <<cache, expq, down>>

\* cb_srv_query: address queries for the hosts of the SRV records, and for the
\* host itself unless it is one of them.
SrvReply(h) ==
    /\ look[h] # None /\ look[h].tasks = <<>> /\ ~down
    /\ \E n \in 1..MaxTasks :
         look' = [look EXCEPT ![h].tasks = [i \in 1..n |-> "wait"]]
    /\ UNCHANGED <<con, cache, expq, down>>

\* cb_srv_query of a query that was cancelled, as CheckDnsChange does it when
\* resolv.conf has changed: everybody is told, then the destructor finds no
\* result and no error either and caches that.
SrvCancelled(h) ==
    /\ look[h] # None /\ look[h].tasks = <<>> /\ ~down
    /\ Call(look[h].cbs, 0)
    /\ Remember(h, 0, ErrorTime)
    /\ look' = [look EXCEPT ![h] = None]
    /\ UNCHANGED down

\* cb_addrinfo; the last one to end runs ~tDnsResContext, which keeps the first
\* error in the order of the queries, not of the answers.
AddrReply(h, i, r) ==
    /\ look[h] # None /\ i \in DOMAIN look[h].tasks /\ look[h].tasks[i] = "wait" /\ ~down
    /\ LET tasks == [look[h].tasks EXCEPT ![i] = r]
           ok == Cardinality({j \in DOMAIN tasks : tasks[j] = "ok"})
           bad == {j \in DOMAIN tasks : tasks[j] \in {"other", "hard"}}
       IN  IF \E j \in DOMAIN tasks : tasks[j] = "wait"
             THEN look' = [look EXCEPT ![h].tasks = tasks] /\ UNCHANGED <<con, cache, expq>>
           ELSE /\ look' = [look EXCEPT ![h] = None]
                /\ IF ok > 0
                     \* two queries may yield the same address
                     THEN \E n \in 1..Min({ok, MaxAddr}) :
                            Call(look[h].cbs, n) /\ Remember(h, n, DnsTime)
                     ELSE /\ Call(look[h].cbs, 0)
                          /\ IF bad # {} /\ tasks[Min(bad)] = "hard"
                               THEN UNCHANGED <<cache, expq>>
                               ELSE Remember(h, 0, ErrorTime)
    /\ UNCHANGED down

\* The end of MainLoop: no socket event runs any more, RejectPendingDnsRequests
\* answers the callbacks of all lookups.
Shutdown ==
    /\ ~down
    /\ down' = TRUE
    /\ con' = [u \in Users |-> IF con[u].st = "dns" THEN Failed(con[u]) ELSE con[u]]
    /\ look' = [h \in Hosts |-> None]
    /\ UNCHANGED <<cache, expq>>

\* One second passes for the attempts and for the cached answers.
Sooner(n) == IF n < 0 THEN n ELSE n - 1

Tick ==
    /\ ~down
    /\ con' = [u \in Users |->
                 IF con[u].st \in Waiting THEN [con[u] EXCEPT !.left = Sooner(@)] ELSE con[u]]
    /\ cache' = [h \in Hosts |->
                 IF cache[h] = None THEN None ELSE [cache[h] EXCEPT !.left = Sooner(@)]]
    /\ UNCHANGED <<expq, look, down>>

Next ==
    \/ \E u \in Users, h \in Hosts : Connect(u, h)
    \/ \E u \in Users : Lookup(u) \/ Taken(u)
    \/ \E u \in Users : SocketWorks(u) \/ SocketFails(u) \/ SocketSlow(u)
    \/ \E h \in Hosts : SrvReply(h) \/ SrvCancelled(h)
    \/ \E h \in Hosts, i \in 1..MaxTasks, r \in Results : AddrReply(h, i, r)
    \/ Shutdown
    \/ Tick

\* The event base runs what is posted to it, c-ares answers every query or times
\* out, the events of a pending socket recur, and time passes.
Fairness ==
    /\ \A u \in Users : WF_vars(Lookup(u)) /\ WF_vars(SocketSlow(u))
    /\ \A h \in Hosts : WF_vars(SrvReply(h))
    /\ \A h \in Hosts, i \in 1..MaxTasks :
         WF_vars(\E r \in Results : AddrReply(h, i, r))
    /\ WF_vars(Tick)

Spec == Init /\ [][Next]_vars /\ Fairness

-----------------------------------------------------------------------------
TypeOK ==
    /\ \A u \in Users :
         /\ con[u].st \in ConStates /\ con[u].left \in -1..ConTime
         /\ con[u].cand \in 0..MaxAddr /\ con[u].pend \in 0..MaxAddr
    /\ expq \in Seq(Hosts)
    /\ \A h \in Hosts : look[h] # None => look[h].tasks \in Seq(Results \cup {"wait"})

\* Every request to connect is answered unless the server shuts down: the
\* future that dl_con_factory::CreateConnected waits for is set, whether the
\* request started its lookup, joined one or found a cached answer, and however
\* many of the addresses never respond.
Answered == \A u \in Users : con[u].st \in Waiting ~> con[u].st \notin Waiting \/ down
=============================================================================
