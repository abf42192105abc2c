------------------------------ MODULE ConnPool ------------------------------
(***************************************************************************)
(* Outgoing connections (tcpconnect.cc), the pool of idle ones, and the    *)
(* hooks of a repository that bring a network link up and down (remotedb.cc)*)
(* with the part of the cleaner that serves both.  How a connection comes  *)
(* about is in DnsCache.  One repository has hooks; whether a request      *)
(* belongs to it is independent of the host, since a proxy serves all      *)
(* repositories.  A host stands for the key of the pool: host, port, TLS.  *)
(***************************************************************************)
EXTENDS Selections, SequencesExt

CONSTANTS
    Users,      \* downloader threads
    Hosts,      \* numbers, the order of the multimap
    Proxies,    \* the hosts that are asked for a tunnel
    Expire,     \* TIME_SOCKET_EXPIRE_CLOSE
    PoolMax,    \* the limit in RecycleIdleConnection
    Persist,    \* cfg::persistoutgoing
    DownTime,   \* DownTimeout of the hooks file
    HasDown,    \* the hooks file has a Down command
    None

ASSUME UsersAssumption == IsFiniteSet(Users)
ASSUME TimeAssumption == None \notin Nat
ASSUME HostsAssumption == Hosts \subseteq Nat /\ Proxies \subseteq Hosts
ASSUME ExpireAssumption == Expire \in Nat \ {0} /\ DownTime \in Nat /\ PoolMax \in Nat
ASSUME SwitchesAssumption == {Persist, HasDown} \subseteq BOOLEAN

VARIABLES
    con,        \* the tcpconnect object of a user
    pool,       \* spareConPool, in the order of the multimap
    hook,       \* tHookHandler: references, downTimeNext; and the link itself
    due         \* the stamps of the cleaner: TYPE_EXCONNS and TYPE_ACFGHOOKS

vars == <<con, pool, hook, due>>

\* "asking": in aconnector::Connect or SSLinit.  want is the host the user asked
\* for, host the name that the object has, peer the host that it reaches.
Gone == [st |-> "idle", host |-> 0, want |-> 0, peer |-> 0, obs |-> FALSE]

Init ==
    /\ con = [u \in Users |-> Gone]
    /\ pool = <<>>
    /\ hook = [refs |-> 0, timer |-> None, up |-> FALSE]
    /\ due = [conns |-> None, hooks |-> None]

Earlier(a, b) == IF a = None THEN b ELSE IF b = None THEN a ELSE Min({a, b})

\* cleaner::ScheduleFor
ScheduleFor(d, what, when) == [d EXCEPT ![what] = Earlier(@, when)]

-----------------------------------------------------------------------------
\* tHookHandler

\* Bug for the mutation check: the pending Down is not called off.
AccessedTicking(k) ==
    [k EXCEPT !.refs = @ + 1, !.up = @ \/ (k.refs = 0 /\ k.timer = None)]

\* OnAccess: the first user calls off a pending Down, or runs PreUp.
Accessed(k) ==
    [k EXCEPT !.refs = @ + 1,
              !.timer = IF k.refs = 0 THEN None ELSE @,
              !.up = @ \/ (k.refs = 0 /\ k.timer = None)]

\* OnRelease: the last user starts the timer.
Released(k) ==
    [k EXCEPT !.refs = @ - 1, !.timer = IF k.refs <= 1 THEN DownTime ELSE @]

Access(o) == hook' = IF o THEN Accessed(hook) ELSE hook

\* The hook of a connection is released; what else is due is in d.
Release(o, d) ==
    /\ hook' = IF o THEN Released(hook) ELSE hook
    /\ due' = IF o /\ hook.refs <= 1 THEN ScheduleFor(d, "hooks", DownTime) ELSE d

-----------------------------------------------------------------------------
\* dl_con_factory

Spare(h) == {i \in DOMAIN pool : pool[i].host = h}

\* CreateConnected with a connection of the pool, which may be dead already:
\* the downloader tests it and drops it then.
Reuse(u, h, o) ==
    /\ con[u].st = "idle" /\ Spare(h) # {}
    /\ LET i == Min(Spare(h))
       IN  /\ con' = [con EXCEPT ![u] = [Gone EXCEPT !.st = "using", !.host = h, !.want = h,
                                                      !.peer = pool[i].peer, !.obs = o]]
           /\ pool' = RemoveAt(pool, i)
    /\ Access(o)
    /\ UNCHANGED due

\* CreateConnected with a new connection: the constructor counts as access.
Create(u, h, o) ==
    /\ con[u].st = "idle" /\ Spare(h) = {}
    /\ con' = [con EXCEPT ![u] = [Gone EXCEPT !.st = "asking", !.host = h, !.want = h,
                                              !.peer = h, !.obs = o]]
    /\ Access(o)
    /\ UNCHANGED <<pool, due>>

\* CreateConnected once aconnector has a socket and the TLS handshake is done.
Connected(u) ==
    /\ con[u].st = "asking"
    /\ con' = [con EXCEPT ![u].st = "using"]
    /\ UNCHANGED <<pool, hook, due>>

\* No connection, no handshake, no tunnel, or a connection that the downloader
\* has no further use for: the destructor.
Drop(u) ==
    /\ con[u].st \in {"asking", "using"}
    /\ con' = [con EXCEPT ![u] = Gone]
    /\ Release(con[u].obs, due)
    /\ UNCHANGED pool

\* Bug for the mutation check: the connection keeps the name of the proxy.
TunnelUnnamed(u, h) ==
    /\ con[u].st = "using" /\ con[u].host \in Proxies
    /\ con' = [con EXCEPT ![u].want = h, ![u].peer = h]
    /\ UNCHANGED <<pool, hook, due>>

\* StartTunnel that succeeds; the connection has the name of the target then.
StartTunnel(u, h) ==
    /\ con[u].st = "using" /\ con[u].host \in Proxies
    /\ con' = [con EXCEPT ![u].host = h, ![u].want = h, ![u].peer = h]
    /\ UNCHANGED <<pool, hook, due>>

\* RecycleIdleConnection: emplace of a multimap, after its equals.
Pooled(c) ==
    LET n == Cardinality({i \in DOMAIN pool : pool[i].host <= c.host})
    IN  InsertAt(pool, n + 1, [host |-> c.host, peer |-> c.peer, age |-> 0, closed |-> FALSE])

Recycle(u) ==
    /\ con[u].st = "using"
    /\ con' = [con EXCEPT ![u] = Gone]
    /\ IF Persist /\ Len(pool) < PoolMax
         THEN /\ pool' = Pooled(con[u])
              /\ Release(con[u].obs, ScheduleFor(due, "conns", Expire))
         ELSE /\ Release(con[u].obs, due)
              /\ UNCHANGED pool

\* The other side of a pooled connection closes it, or sends something.
PeerCloses(i) ==
    /\ i \in DOMAIN pool /\ ~pool[i].closed
    /\ pool' = [pool EXCEPT ![i].closed = TRUE]
    /\ UNCHANGED <<con, hook, due>>

-----------------------------------------------------------------------------
\* The cleaner

\* The places of the connections that BackgroundCleanup keeps.  select counts the
\* readable ones, and the second loop looks at that many entries from the front,
\* readable or not.
Kept ==
    LET young == {i \in DOMAIN pool : pool[i].age < Expire}
        r == Cardinality({i \in young : pool[i].closed})
        looked == {i \in young : Cardinality({k \in young : k <= i}) <= r}
    IN  young \ {i \in looked : pool[i].closed}

\* Bug for the mutation check: nothing is scheduled for the ones that are kept.
CleanConnsOnce ==
    /\ due.conns = 0
    /\ pool' \in Retained(pool, Kept)
    /\ due' = [due EXCEPT !.conns = None]
    /\ UNCHANGED <<con, hook>>

\* dl_con_factory::BackgroundCleanup
CleanConns ==
    /\ due.conns = 0
    /\ pool' \in Retained(pool, Kept)
    /\ due' = [due EXCEPT !.conns = IF Kept = {} THEN None ELSE Expire \div 4 + 1]
    /\ UNCHANGED <<con, hook>>

\* remotedb::BackgroundCleanup: the Down command, or the time until it.
CleanHooks ==
    /\ due.hooks = 0
    /\ hook' = IF hook.timer = 0 /\ HasDown THEN [hook EXCEPT !.timer = None, !.up = FALSE]
               ELSE hook
    /\ due' = [due EXCEPT !.hooks = IF hook.timer = 0 THEN None ELSE hook.timer]
    /\ UNCHANGED <<con, pool>>

\* A second passes; the cleaner is never a full second late.
Less(t) == IF t = None \/ t = 0 THEN t ELSE t - 1

Tick ==
    /\ due.conns # 0 /\ due.hooks # 0
    /\ UNCHANGED con
    /\ pool' = [i \in DOMAIN pool |-> [pool[i] EXCEPT !.age = @ + 1]]
    /\ hook' = [hook EXCEPT !.timer = Less(@)]
    /\ due' = [due EXCEPT !.conns = Less(@), !.hooks = Less(@)]

Next ==
    \/ \E u \in Users, h \in Hosts, o \in BOOLEAN : Reuse(u, h, o) \/ Create(u, h, o)
    \/ \E u \in Users : Connected(u) \/ Drop(u) \/ Recycle(u)
    \/ \E u \in Users, h \in Hosts : StartTunnel(u, h)
    \/ \E i \in 1..PoolMax : PeerCloses(i)
    \/ CleanConns \/ CleanHooks
    \/ Tick

Spec == Init /\ [][Next]_vars

-----------------------------------------------------------------------------
TypeOK ==
    /\ \A u \in Users : con[u].st \in {"idle", "asking", "using"} /\ con[u].obs \in BOOLEAN
    /\ pool \in Seq([host : Hosts, peer : Hosts, age : Nat, closed : BOOLEAN])
    /\ hook.refs \in Nat

\* Whoever has a connection talks to the host that it asked for, also when the
\* connection was taken from the pool, was a tunnel of somebody else before, or
\* was a connection to a proxy first.
RightPeer == \A u \in Users : con[u].st = "using" => con[u].peer = con[u].want

\* While anybody holds a connection of the repository with the hooks, from the
\* moment of the request on, the link is up: PreUp was run and Down was not run
\* since, whatever the pool, failed attempts and the timer do in between.
LinkUp == (\E u \in Users : con[u].st # "idle" /\ con[u].obs) => hook.up

\* No idle connection outlives its time by more than the interval of the
\* cleaner, although the cleaner is scheduled for the oldest one only.
IdleEnds == \A i \in DOMAIN pool : pool[i].age <= Expire + Expire \div 4
=============================================================================
