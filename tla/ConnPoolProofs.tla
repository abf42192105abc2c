--------------------------- MODULE ConnPoolProofs ---------------------------
(***************************************************************************)
(* Proofs about ConnPool for any number of users and any times.            *)
(*                                                                         *)
(* The hooks: the handler sees only a count and a timer, so the link is up *)
(* for its users because the count is exact and a running timer means that *)
(* there are none.                                                         *)
(*                                                                         *)
(* The pool: an entry leads where its key says, and its age and the time   *)
(* until the cleaner comes never add up to more than it may live.          *)
(*                                                                         *)
(* The cleaner, for any number of components and any clock: what was asked *)
(* for is in the stamps or in the snapshot that the thread will merge.     *)
(***************************************************************************)
EXTENDS ConnPool, Cleaner, FiniteSetTheorems, SequenceTheorems, WellFoundedInduction,
        TLAPS

Conns(P) == [st : {"idle", "asking", "using"}, host : Nat, want : Nat, peer : P,
             obs : BOOLEAN]

\* Which hosts the connections reach does not matter here.
AreConns(f) == \E P : f \in [Users -> Conns(P)]

Hooks == [refs : Nat, timer : Nat \cup {None}, up : BOOLEAN]

\* The users of the repository with the hooks.
Observers == {u \in Users : con[u].st # "idle" /\ con[u].obs}

\* The link is up while somebody uses it, and until the timer has ended.
UpInv ==
    /\ hook.refs > 0 => hook.up /\ hook.timer = None
    /\ hook.timer # None => hook.up

HookInv ==
    /\ AreConns(con)
    /\ hook \in Hooks
    /\ hook.refs = Cardinality(Observers)
    /\ UpInv

-----------------------------------------------------------------------------
(* Lemmas                                                                  *)

\* A connection is replaced by another one.
LEMMA ConnReplaced ==
    ASSUME AreConns(con), NEW u \in Users, NEW x, NEW c \in Conns({x})
    PROVE  AreConns([con EXCEPT ![u] = c])
  <1>1. PICK P : con \in [Users -> Conns(P)]
    BY DEF AreConns
  <1>2. [con EXCEPT ![u] = c] \in [Users -> Conns(P \cup {x})]
    BY <1>1 DEF Conns
  <1> QED  BY <1>2 DEF AreConns

\* The fields that the proof is about.
LEMMA ConnFields ==
    ASSUME AreConns(con)
    PROVE  /\ con = [u \in Users |-> con[u]]
           /\ \A u \in Users : /\ con[u] \in Conns({con[u].peer})
                               /\ con[u].obs \in BOOLEAN
  BY DEF AreConns, Conns

\* A user without a connection.
LEMMA GoneIsConn == Gone \in Conns({0})
  BY DEF Conns, Gone

\* The users of the link can be counted.
LEMMA ObserversFinite ==
    IsFiniteSet(Observers) /\ Cardinality(Observers) \in Nat
  BY UsersAssumption, FS_Subset, FS_CardinalityType DEF Observers

\* OnAccess keeps the link up for those who have it, and brings it up for the
\* first one.
LEMMA AccessUp ==
    ASSUME hook \in Hooks, UpInv, NEW o \in BOOLEAN, Access(o)
    PROVE  /\ hook' \in Hooks /\ UpInv'
           /\ hook'.refs = IF o THEN hook.refs + 1 ELSE hook.refs
  <1>1. CASE o
    <2> DEFINE first == hook.refs = 0
    <2>1. hook' = [refs |-> hook.refs + 1, timer |-> IF first THEN None ELSE hook.timer,
                   up |-> hook.up \/ (first /\ hook.timer = None)]
      BY <1>1 DEF Access, Accessed, Hooks
    <2>2. hook'.refs = hook.refs + 1 /\ hook'.timer = (IF first THEN None ELSE hook.timer)
      BY <2>1
    <2>3. hook'.up = (hook.up \/ (first /\ hook.timer = None))
      BY <2>1, Zenon
    <2>4. hook' \in Hooks
      BY <2>1 DEF Hooks
    <2>5. hook.up \/ (first /\ hook.timer = None)
      BY DEF UpInv, Hooks
    <2>6. hook'.timer = None
      BY <2>2 DEF UpInv, Hooks
    <2> QED  BY <1>1, <2>2, <2>3, <2>4, <2>5, <2>6 DEF UpInv
  <1>2. CASE ~o
    BY <1>2 DEF Access, UpInv
  <1> QED  BY <1>1, <1>2

\* OnRelease starts the timer only when the last user goes.
LEMMA ReleaseUp ==
    ASSUME hook \in Hooks, UpInv, NEW o \in BOOLEAN, NEW d, Release(o, d),
           o => hook.refs > 0
    PROVE  /\ hook' \in Hooks /\ UpInv'
           /\ hook'.refs = IF o THEN hook.refs - 1 ELSE hook.refs
  <1>1. CASE o
    <2>1. hook' = [refs |-> hook.refs - 1, up |-> hook.up,
                   timer |-> IF hook.refs <= 1 THEN DownTime ELSE hook.timer]
      BY <1>1 DEF Release, Released, Hooks
    <2>2. /\ hook'.refs = hook.refs - 1
          /\ hook'.timer = IF hook.refs <= 1 THEN DownTime ELSE hook.timer
      BY <2>1
    <2>3. hook'.up = hook.up
      BY <2>1, Zenon
    <2>4. hook' \in Hooks
      BY <1>1, <2>1, ExpireAssumption DEF Hooks
    <2>5. hook.up /\ hook.timer = None
      BY <1>1 DEF UpInv
    <2>6. hook'.refs > 0 => hook'.timer = None
      BY <1>1, <2>2, <2>5 DEF Hooks
    <2> QED  BY <1>1, <2>2, <2>3, <2>4, <2>5, <2>6 DEF UpInv
  <1>2. CASE ~o
    BY <1>2 DEF Release, UpInv
  <1> QED  BY <1>1, <1>2

\* A user that had no connection gets one.
LEMMA ObserverComes ==
    ASSUME HookInv, NEW u \in Users, NEW x, NEW c \in Conns({x}), con[u].st = "idle",
           c.st # "idle", con' = [con EXCEPT ![u] = c], Access(c.obs)
    PROVE  HookInv'
  <1>1. c.obs \in BOOLEAN /\ AreConns(con') /\ u \notin Observers
    BY ConnReplaced DEF Conns, HookInv, Observers
  <1>2. /\ hook' \in Hooks /\ UpInv'
        /\ hook'.refs = IF c.obs THEN hook.refs + 1 ELSE hook.refs
    BY <1>1, AccessUp DEF HookInv
  <1>3. con'[u] = c /\ \A v \in Users : v # u => con'[v] = con[v]
    BY ConnFields DEF HookInv
  <1>4. CASE c.obs
    <2>1. Observers' = Observers \cup {u}
      BY <1>3, <1>4 DEF Observers
    <2>2. Cardinality(Observers') = Cardinality(Observers) + 1
      BY <1>1, <2>1, ObserversFinite, FS_AddElement
    <2> QED  BY <1>1, <1>2, <1>4, <2>2 DEF HookInv
  <1>5. CASE ~c.obs
    <2>1. Observers' = Observers
      BY <1>1, <1>3, <1>5 DEF Observers
    <2> QED  BY <1>1, <1>2, <1>5, <2>1 DEF HookInv
  <1> QED  BY <1>1, <1>4, <1>5

\* What CreateConnected makes of an object, new or from the pool.
LEMMA UserConnects ==
    ASSUME HookInv, NEW u \in Users, con[u].st = "idle",
           NEW s \in {"asking", "using"}, NEW h \in Nat, NEW x, NEW o \in BOOLEAN,
           con' = [con EXCEPT ![u] = [Gone EXCEPT !.st = s, !.host = h, !.want = h,
                                                  !.peer = x, !.obs = o]],
           Access(o)
    PROVE  HookInv'
  <1> DEFINE c == [Gone EXCEPT !.st = s, !.host = h, !.want = h, !.peer = x, !.obs = o]
  <1>1. ASSUME NEW P, NEW g \in Conns(P)
        PROVE  [g EXCEPT !.st = s, !.host = h, !.want = h, !.peer = x, !.obs = o]
                 \in Conns({x})
    BY DEF Conns
  <1>2. c \in Conns({x})
    BY <1>1, GoneIsConn
  <1>3. c.st # "idle"
    BY DEF Gone
  <1>4. c.obs = o
    BY DEF Gone
  <1>5. con' = [con EXCEPT ![u] = c]
    OBVIOUS
  <1> HIDE DEF c
  <1>6. Access(c.obs)
    BY <1>4, Zenon
  <1> QED  BY <1>2, <1>3, <1>5, <1>6, ObserverComes

\* A user gives its connection away.
LEMMA ObserverGoes ==
    ASSUME HookInv, NEW u \in Users, NEW d, con[u].st # "idle",
           con' = [con EXCEPT ![u] = Gone], Release(con[u].obs, d)
    PROVE  HookInv'
  <1>1. con[u].obs \in BOOLEAN /\ AreConns(con')
    BY GoneIsConn, ConnReplaced, ConnFields DEF HookInv
  <1>6. con'[u] = Gone /\ \A v \in Users : v # u => con'[v] = con[v]
    BY ConnFields DEF HookInv
  <1>2. con[u].obs <=> u \in Observers
    BY DEF Observers
  <1>3. Observers' = Observers \ {u}
    BY <1>6 DEF Observers, Gone
  <1>4. CASE con[u].obs
    <2>1. Cardinality(Observers') = Cardinality(Observers) - 1
      BY <1>2, <1>3, <1>4, ObserversFinite, FS_RemoveElement
    <2>2. Cardinality(Observers') \in Nat
      BY <1>3, ObserversFinite, FS_RemoveElement, FS_CardinalityType
    <2>3. hook.refs > 0
      BY <2>1, <2>2, ObserversFinite DEF HookInv
    <2>4. hook' \in Hooks /\ UpInv' /\ hook'.refs = hook.refs - 1
      BY <1>1, <1>4, <2>3, ReleaseUp DEF HookInv
    <2> QED  BY <1>1, <2>1, <2>4 DEF HookInv
  <1>5. CASE ~con[u].obs
    <2>1. Observers' = Observers
      BY <1>2, <1>3, <1>5
    <2>2. hook' \in Hooks /\ UpInv' /\ hook'.refs = hook.refs
      BY <1>1, <1>5, ReleaseUp DEF HookInv
    <2> QED  BY <1>1, <2>1, <2>2 DEF HookInv
  <1> QED  BY <1>4, <1>5, <1>1

\* A connection changes hands with nobody.
LEMMA ObserversStay ==
    ASSUME HookInv, AreConns(con'), hook' \in Hooks, UpInv',
           hook'.refs = hook.refs,
           \A u \in Users : /\ con'[u].obs = con[u].obs
                            /\ (con'[u].st = "idle") <=> (con[u].st = "idle")
    PROVE  HookInv'
  <1>1. Observers' = Observers
    BY DEF Observers
  <1> QED  BY <1>1 DEF HookInv

-----------------------------------------------------------------------------
\* Nobody uses the link at first.
LEMMA HookInvInit == Init => HookInv
  <1> SUFFICES ASSUME Init PROVE HookInv
    OBVIOUS
  <1>1. Observers = {}
    BY DEF Init, Observers, Gone
  <1>2. Cardinality(Observers) = 0
    BY <1>1, FS_EmptySet
  <1>3. con \in [Users -> Conns({0})]
    BY DEF Init, Conns, Gone
  <1> QED  BY <1>2, <1>3, TimeAssumption DEF Init, HookInv, UpInv, AreConns, Hooks

\* Every step keeps the count of the hooks exact.
LEMMA HookInvStep == HookInv /\ [Next]_vars => HookInv'
  <1> SUFFICES ASSUME HookInv, [Next]_vars PROVE HookInv'
    OBVIOUS
  <1>1. ASSUME NEW u \in Users, NEW h \in Hosts, NEW o \in BOOLEAN,
               Reuse(u, h, o) \/ Create(u, h, o)
        PROVE  HookInv'
    <2>1. con[u].st = "idle" /\ Access(o)
      BY <1>1 DEF Reuse, Create
    <2>2. h \in Nat
      BY HostsAssumption
    <2>3. CASE Create(u, h, o)
      BY <2>1, <2>2, <2>3, UserConnects DEF Create
    <2>4. CASE Reuse(u, h, o)
      BY <2>1, <2>2, <2>4, UserConnects DEF Reuse
    <2> QED  BY <1>1, <2>3, <2>4
  <1>2. ASSUME NEW u \in Users, Drop(u) \/ Recycle(u) PROVE HookInv'
    <2>1. con[u].st # "idle" /\ con' = [con EXCEPT ![u] = Gone]
      BY <1>2 DEF Drop, Recycle
    <2>2. \E d : Release(con[u].obs, d)
      BY <1>2 DEF Drop, Recycle
    <2> QED  BY <2>1, <2>2, ObserverGoes
  <1>3. ASSUME NEW u \in Users, Connected(u) \/ \E h \in Hosts : StartTunnel(u, h)
        PROVE  HookInv'
    <2>1. PICK c, x : /\ con' = [con EXCEPT ![u] = c]
                      /\ c \in Conns({x}) /\ c.obs = con[u].obs /\ c.st = "using"
      <3>1. con[u] \in Conns({con[u].peer})
        BY ConnFields DEF HookInv
      <3>2. CASE Connected(u)
        <4> DEFINE c == [con[u] EXCEPT !.st = "using"]
        <4>1. con' = [con EXCEPT ![u] = c]
          BY <3>2 DEF Connected
        <4>2. c \in Conns({con[u].peer}) /\ c.st = "using"
          BY <3>1 DEF Conns
        <4>3. c.obs = con[u].obs
          BY <3>1 DEF Conns
        <4> QED  BY <4>1, <4>2, <4>3
      <3>3. ASSUME NEW h \in Hosts, StartTunnel(u, h)
            PROVE  \E c : /\ con' = [con EXCEPT ![u] = c]
                          /\ c \in Conns({h}) /\ c.obs = con[u].obs /\ c.st = "using"
        <4> DEFINE c == [con[u] EXCEPT !.host = h, !.want = h, !.peer = h]
        <4>1. con' = [con EXCEPT ![u] = c]
          BY <3>3, ConnFields DEF StartTunnel, HookInv
        <4>2. c \in Conns({h}) /\ c.st = "using"
          BY <3>1, <3>3, HostsAssumption DEF Conns, StartTunnel
        <4>3. c.obs = con[u].obs
          BY <3>1 DEF Conns
        <4> QED  BY <4>1, <4>2, <4>3
      <3> QED  BY <1>3, <3>2, <3>3
    <2>4. AreConns(con')
      BY <2>1, ConnReplaced DEF HookInv
    <2>5. con'[u] = c /\ \A v \in Users : v # u => con'[v] = con[v]
      BY <2>1, ConnFields DEF HookInv
    <2>6. con[u].st = "using" \/ con[u].st = "asking"
      BY <1>3 DEF Connected, StartTunnel
    <2>7. UNCHANGED hook
      BY <1>3 DEF Connected, StartTunnel
    <2>8. ASSUME NEW v \in Users
          PROVE  /\ con'[v].obs = con[v].obs
                 /\ (con'[v].st = "idle") <=> (con[v].st = "idle")
      <3>1. CASE v = u
        BY <2>1, <2>5, <2>6, <3>1
      <3>2. CASE v # u
        BY <2>5, <3>2
      <3> QED  BY <3>1, <3>2
    <2> QED  BY <2>4, <2>7, <2>8, ObserversStay DEF HookInv, UpInv
  <1>4. CASE (\E i \in 1..PoolMax : PeerCloses(i)) \/ CleanConns \/ UNCHANGED vars
    BY <1>4 DEF PeerCloses, CleanConns, vars, HookInv, UpInv, Observers
  <1>5. CASE CleanHooks
    <2>1. CASE hook.timer = 0 /\ HasDown
      <3>1. hook' = [refs |-> hook.refs, timer |-> None, up |-> FALSE]
        BY <1>5, <2>1 DEF CleanHooks, HookInv, Hooks
      <3>2. hook.refs = 0
        BY <2>1, TimeAssumption DEF HookInv, UpInv, Hooks
      <3>3. hook' \in Hooks /\ UpInv' /\ hook'.refs = hook.refs
        BY <3>1, <3>2 DEF Hooks, UpInv
      <3> QED  BY <1>5, <3>3, ObserversStay DEF CleanHooks, HookInv
    <2>2. CASE ~(hook.timer = 0 /\ HasDown)
      BY <1>5, <2>2 DEF CleanHooks, HookInv, UpInv, Observers
    <2> QED  BY <2>1, <2>2
  <1>6. CASE Tick
    <2>1. hook' = [refs |-> hook.refs, timer |-> Less(hook.timer), up |-> hook.up]
      BY <1>6 DEF Tick, HookInv, Hooks
    <2>2. Less(hook.timer) \in Nat \cup {None} /\ (Less(hook.timer) = None <=> hook.timer = None)
      BY TimeAssumption DEF HookInv, Hooks, Less
    <2>3. hook'.refs = hook.refs /\ hook'.timer = Less(hook.timer)
      BY <2>1
    <2>4. hook'.up = hook.up
      BY <2>1, Zenon
    <2>5. hook' \in Hooks
      BY <2>1, <2>2 DEF HookInv, Hooks
    <2>6. UpInv'
      BY <2>2, <2>3, <2>4 DEF HookInv, UpInv
    <2> QED  BY <1>6, <2>3, <2>5, <2>6, ObserversStay DEF Tick, HookInv
  <1> QED  BY <1>1, <1>2, <1>3, <1>4, <1>5, <1>6 DEF Next

\* While anybody holds or asks for a connection of the repository with the hooks,
\* PreUp was run and Down was not run since, for any number of users and times
\* and with or without a Down command.
THEOREM LinkUpCorrect == Spec => []LinkUp
  <1>1. HookInv => LinkUp
    <2> SUFFICES ASSUME HookInv, NEW u \in Users, con[u].st # "idle" /\ con[u].obs
                 PROVE  hook.up
      BY DEF LinkUp
    <2>1. Observers # {}
      BY DEF Observers
    <2>2. Cardinality(Observers) # 0
      BY <2>1, ObserversFinite, FS_EmptySet
    <2> QED  BY <2>2, ObserversFinite DEF HookInv, UpInv
  <1> QED  BY HookInvInit, HookInvStep, <1>1, PTL DEF Spec

-----------------------------------------------------------------------------
(* The pool                                                                *)

Entries == [host : Hosts, peer : Hosts, age : Nat, closed : BOOLEAN]

Stamps == [conns : Nat \cup {None}, hooks : Nat \cup {None}]

\* The longest an idle connection may be there.
Longest == Expire + Expire \div 4

\* The entries that lead where their key says, and that the cleaner, when it comes
\* at c, finds before their time is over.
GoodEntries(c) ==
    {e \in Entries : /\ e.peer = e.host
                     /\ c \in Nat
                     /\ e.age + c <= Longest}

ConInv(c) ==
    /\ c.host \in Hosts
    /\ c.peer = c.host
    /\ c.want = c.host

PoolInv ==
    /\ due \in Stamps
    /\ pool \in Seq(GoodEntries(due.conns))
    /\ \A u \in Users : con[u].st # "idle" => ConInv(con[u])

\* A sequence of elements of A is one of elements of a larger set.
LEMMA SeqMonotone ==
    ASSUME NEW A, NEW B, A \subseteq B, NEW s \in Seq(A)
    PROVE  s \in Seq(B)
  <1>1. Len(s) \in Nat /\ DOMAIN s = 1..Len(s) /\ s = [k \in 1..Len(s) |-> s[k]]
    OBVIOUS
  <1>2. \A k \in 1..Len(s) : s[k] \in B
    OBVIOUS
  <1> QED  BY <1>1, <1>2

\* A part of a sequence has elements of the same set.
LEMMA PartOf ==
    ASSUME NEW S, NEW s \in Seq(S), NEW m \in Nat \ {0}, NEW n \in Int, n <= Len(s)
    PROVE  SubSeq(s, m, n) \in Seq(S)
  <1>1. \A i \in m..n : s[i] \in S
    OBVIOUS
  <1> QED  BY <1>1, SubSeqProperties

\* erase takes one element away.
LEMMA RemovedFrom ==
    ASSUME NEW S, NEW s \in Seq(S), NEW i \in 1..Len(s)
    PROVE  RemoveAt(s, i) \in Seq(S)
  <1> DEFINE a == SubSeq(s, 1, i - 1)
             b == SubSeq(s, i + 1, Len(s))
  <1>0. Len(s) \in Nat
    OBVIOUS
  <1>1. a \in Seq(S)
    BY <1>0, PartOf
  <1>2. b \in Seq(S)
    BY <1>0, PartOf
  <1>3. RemoveAt(s, i) = a \o b
    BY DEF RemoveAt
  <1> HIDE DEF a, b
  <1> QED  BY <1>1, <1>2, <1>3, ConcatProperties

\* emplace puts one more element of the set in.
LEMMA InsertedInto ==
    ASSUME NEW S, NEW s \in Seq(S), NEW e \in S, NEW n \in 1..(Len(s) + 1)
    PROVE  InsertAt(s, n, e) \in Seq(S)
  <1> DEFINE a == SubSeq(s, 1, n - 1)
             b == SubSeq(s, n, Len(s))
  <1>0. Len(s) \in Nat
    OBVIOUS
  <1>1. a \in Seq(S)
    BY <1>0, PartOf
  <1>2. b \in Seq(S)
    BY <1>0, PartOf
  <1>3. InsertAt(s, n, e) = a \o <<e>> \o b
    BY DEF InsertAt
  <1> HIDE DEF a, b
  <1>4. a \o <<e>> \in Seq(S)
    BY <1>1
  <1> QED  BY <1>2, <1>3, <1>4, ConcatProperties

\* What BackgroundCleanup leaves was in the pool, and is young.
LEMMA RetainedFrom ==
    ASSUME NEW G, pool \in Seq(Entries), \A m \in Kept : pool[m] \in G, pool' \in Retained(pool, Kept)
    PROVE  pool' \in Seq(G) /\ (Kept = {} => pool' = <<>>)
  <1>1. Kept \subseteq 1..Len(pool)
    BY DEF Kept
  <1>2. PICK f \in [1..Cardinality(Kept) -> Kept] : pool' = [k \in DOMAIN f |-> pool[f[k]]]
    BY DEF Retained, Orders
  <1>3. IsFiniteSet(Kept)
    <2>1. Len(pool) \in Nat
      OBVIOUS
    <2>2. IsFiniteSet(1..Len(pool))
      BY <2>1, FS_Interval
    <2> QED  BY <1>1, <2>2, FS_Subset
  <1>4. Cardinality(Kept) \in Nat
    BY <1>3, FS_CardinalityType
  <1>5. DOMAIN f = 1..Cardinality(Kept) /\ \A k \in DOMAIN f : f[k] \in Kept
    OBVIOUS
  <1>6. \A k \in DOMAIN f : pool[f[k]] \in G
    BY <1>5
  <1>7. pool' \in Seq(G)
    BY <1>2, <1>4, <1>5, <1>6
  <1>8. Kept = {} => pool' = <<>>
    <2> SUFFICES ASSUME Kept = {} PROVE pool' = <<>>
      OBVIOUS
    <2>1. Cardinality(Kept) = 0
      BY FS_EmptySet
    <2>2. DOMAIN f = {}
      BY <1>5, <2>1
    <2> QED  BY <1>2, <2>2
  <1> QED  BY <1>7, <1>8

\* ScheduleFor takes the earlier of two times.
LEMMA EarlierIsTime ==
    ASSUME NEW a \in Nat \cup {None}, NEW b \in Nat
    PROVE  /\ Earlier(a, b) \in Nat
           /\ Earlier(a, b) <= b
           /\ a # None => Earlier(a, b) <= a
  <1>1. CASE a = None
    BY <1>1, TimeAssumption DEF Earlier
  <1>2. CASE a # None
    <2>1. b # None /\ a \in Nat
      BY <1>2, TimeAssumption
    <2>2. Min({a, b}) = IF a <= b THEN a ELSE b
      <3> DEFINE m == IF a <= b THEN a ELSE b
      <3>1. m \in {a, b} /\ \A y \in {a, b} : m <= y
        BY <2>1
      <3>2. \A x \in {a, b} : (\A y \in {a, b} : x <= y) => x = m
        BY <2>1
      <3> HIDE DEF m
      <3>3. (CHOOSE x \in {a, b} : \A y \in {a, b} : x <= y) = m
        BY <3>1, <3>2
      <3> QED  BY <3>3 DEF Min, m
    <2> QED  BY <1>2, <2>1, <2>2 DEF Earlier
  <1> QED  BY <1>1, <1>2

\* The entries stay good when the cleaner comes earlier.
LEMMA GoodEarlier ==
    ASSUME NEW c \in Nat \cup {None}, NEW d \in Nat, c # None => d <= c
    PROVE  GoodEntries(c) \subseteq GoodEntries(d)
  <1> SUFFICES ASSUME NEW e \in GoodEntries(c) PROVE e \in GoodEntries(d)
    OBVIOUS
  <1>1. e \in Entries /\ e.peer = e.host /\ c \in Nat /\ e.age + c <= Longest
    BY DEF GoodEntries
  <1>2. e.age \in Nat /\ d <= c /\ Longest \in Nat
    BY <1>1, TimeAssumption, ExpireAssumption DEF Entries, Longest
  <1>3. e.age + d <= Longest
    BY <1>1, <1>2
  <1> QED  BY <1>1, <1>3 DEF GoodEntries

\* One user's connection has changed.
LEMMA ConsKept ==
    ASSUME HookInv, PoolInv, NEW u \in Users, NEW c, c.st # "idle" => ConInv(c),
           con' = [con EXCEPT ![u] = c]
    PROVE  \A v \in Users : con'[v].st # "idle" => ConInv(con'[v])
  <1> SUFFICES ASSUME NEW v \in Users, con'[v].st # "idle" PROVE ConInv(con'[v])
    OBVIOUS
  <1>1. con'[u] = c /\ (v # u => con'[v] = con[v])
    BY ConnFields DEF HookInv
  <1>2. CASE v = u
    BY <1>1, <1>2
  <1>3. CASE v # u
    BY <1>1, <1>3 DEF PoolInv
  <1> QED  BY <1>2, <1>3

\* Release touches the stamp of the hooks only.
LEMMA ReleaseStamps ==
    ASSUME NEW o, NEW d \in Stamps, Release(o, d)
    PROVE  due' \in Stamps /\ due'.conns = d.conns
  <1>1. CASE o /\ hook.refs <= 1
    <2> DEFINE t == Earlier(d.hooks, DownTime)
    <2>1. t \in Nat
      BY ExpireAssumption, EarlierIsTime DEF Stamps
    <2>2. due' = [d EXCEPT !.hooks = t]
      BY <1>1 DEF Release, ScheduleFor
    <2> HIDE DEF t
    <2> QED  BY <2>1, <2>2 DEF Stamps
  <1>2. CASE ~(o /\ hook.refs <= 1)
    BY <1>2 DEF Release
  <1> QED  BY <1>1, <1>2

\* The first of some places is one of them.
LEMMA MinIsMember ==
    ASSUME NEW T, T \subseteq Nat, T # {}
    PROVE  Min(T) \in T
  <1> DEFINE R == OpToRel(<, Nat)
  <1>1. \E x \in T : \A y \in T : ~(<<y, x>> \in R)
    BY NatLessThanWellFounded, WFMin
  <1>2. PICK x \in T : \A y \in T : ~(<<y, x>> \in R)
    BY <1>1
  <1> HIDE DEF R
  <1>3. \A y \in T : x <= y
    <2> TAKE y \in T
    <2>1. x \in Nat /\ y \in Nat
      OBVIOUS
    <2>2. y < x => <<y, x>> \in R
      BY <2>1 DEF OpToRel, R
    <2> QED  BY <1>2, <2>1, <2>2
  <1> QED  BY <1>3 DEF Min

-----------------------------------------------------------------------------
\* The pool is empty at first.
LEMMA PoolInvInit == Init => PoolInv
  <1> SUFFICES ASSUME Init PROVE PoolInv
    OBVIOUS
  <1>1. due \in Stamps
    BY DEF Init, Stamps
  <1>2. pool \in Seq(GoodEntries(due.conns))
    BY DEF Init
  <1>3. \A u \in Users : con[u].st = "idle"
    BY DEF Init, Gone
  <1> QED  BY <1>1, <1>2, <1>3 DEF PoolInv

\* A connection is taken out of the pool, the first one with the key.
LEMMA ReusePool ==
    ASSUME HookInv, PoolInv, NEW u \in Users, NEW h \in Hosts, NEW o \in BOOLEAN,
           Reuse(u, h, o)
    PROVE  PoolInv'
  <1> DEFINE i == Min(Spare(h))
             c == [Gone EXCEPT !.st = "using", !.host = h, !.want = h,
                               !.peer = pool[i].peer, !.obs = o]
             G == GoodEntries(due.conns)
  <1>1. pool \in Seq(G) /\ due \in Stamps /\ UNCHANGED due
    BY DEF PoolInv, Reuse
  <1>2. i \in Spare(h)
    <2>1. Spare(h) \subseteq Nat
      BY <1>1 DEF Spare
    <2> QED  BY <2>1, MinIsMember DEF Reuse
  <1>3. i \in 1..Len(pool) /\ pool[i].host = h
    BY <1>1, <1>2 DEF Spare
  <1>4. con' = [con EXCEPT ![u] = c] /\ pool' = RemoveAt(pool, i)
    BY DEF Reuse
  <1> HIDE DEF i
  <1>5. pool[i] \in G
    BY <1>1, <1>3
  <1>6. pool[i].peer = h
    BY <1>3, <1>5 DEF GoodEntries
  <1>7. ConInv(c)
    BY <1>6 DEF ConInv, Gone
  <1>8. pool' \in Seq(G)
    BY <1>1, <1>3, <1>4, RemovedFrom
  <1>9. \A v \in Users : con'[v].st # "idle" => ConInv(con'[v])
    <2> HIDE DEF c
    <2> QED  BY <1>4, <1>7, ConsKept
  <1> QED  BY <1>1, <1>8, <1>9 DEF PoolInv

\* A connection goes into the pool, and the cleaner comes in time for it.
LEMMA RecyclePool ==
    ASSUME HookInv, PoolInv, NEW u \in Users, Recycle(u)
    PROVE  PoolInv'
  <1>1. con' = [con EXCEPT ![u] = Gone] /\ due \in Stamps /\ pool \in Seq(GoodEntries(due.conns))
    BY DEF Recycle, PoolInv
  <1>2. \A v \in Users : con'[v].st # "idle" => ConInv(con'[v])
    <2>1. Gone.st = "idle"
      BY DEF Gone
    <2> QED  BY <1>1, <2>1, ConsKept
  <1>3. CASE ~(Persist /\ Len(pool) < PoolMax)
    <2>1. Release(con[u].obs, due) /\ UNCHANGED pool
      BY <1>3 DEF Recycle
    <2>2. due' \in Stamps /\ due'.conns = due.conns
      BY <1>1, <2>1, ReleaseStamps
    <2> QED  BY <1>1, <1>2, <2>1, <2>2 DEF PoolInv
  <1>4. CASE Persist /\ Len(pool) < PoolMax
    <2> DEFINE t == Earlier(due.conns, Expire)
               d == ScheduleFor(due, "conns", Expire)
               n == Cardinality({i \in DOMAIN pool : pool[i].host <= con[u].host})
               zero == 0
               no == FALSE
               e == [host |-> con[u].host, peer |-> con[u].peer, age |-> zero, closed |-> no]
    <2>1. t \in Nat /\ t <= Expire /\ (due.conns # None => t <= due.conns)
      BY <1>1, ExpireAssumption, EarlierIsTime DEF Stamps
    <2>2. d = [due EXCEPT !.conns = t]
      BY DEF ScheduleFor
    <2> HIDE DEF t
    <2>3. d \in Stamps /\ d.conns = t
      BY <1>1, <2>1, <2>2 DEF Stamps
    <2> HIDE DEF d
    <2>4. Release(con[u].obs, d) /\ pool' = InsertAt(pool, n + 1, e)
      BY <1>4 DEF Recycle, Pooled, d
    <2>5. due' \in Stamps /\ due'.conns = t
      BY <2>3, <2>4, ReleaseStamps
    <2>6. n \in 0..Len(pool)
      <3> DEFINE P == {i \in DOMAIN pool : pool[i].host <= con[u].host}
      <3>1. Len(pool) \in Nat /\ DOMAIN pool = 1..Len(pool)
        BY <1>1
      <3>2. IsFiniteSet(1..Len(pool)) /\ Cardinality(1..Len(pool)) = Len(pool)
        <4>1. 1 \in Int /\ Len(pool) \in Int
          BY <3>1
        <4>2. /\ IsFiniteSet(1..Len(pool))
              /\ Cardinality(1..Len(pool)) = (IF 1 > Len(pool) THEN 0 ELSE Len(pool) - 1 + 1)
          BY <4>1, FS_Interval
        <4> QED  BY <3>1, <4>2
      <3>3. P \subseteq 1..Len(pool)
        BY <3>1
      <3> HIDE DEF P
      <3>4. IsFiniteSet(P) /\ Cardinality(P) <= Len(pool)
        BY <3>2, <3>3, FS_Subset
      <3>5. Cardinality(P) \in Nat
        BY <3>4, FS_CardinalityType
      <3> QED  BY <3>1, <3>4, <3>5 DEF P
    <2>7. GoodEntries(due.conns) \subseteq GoodEntries(t)
      BY <1>1, <2>1, GoodEarlier DEF Stamps
    <2>8. pool \in Seq(GoodEntries(t))
      BY <1>1, <2>7, SeqMonotone
    <2>9. e \in GoodEntries(t)
      <3>1. ConInv(con[u])
        BY DEF Recycle, PoolInv
      <3>2. zero \in Nat /\ no \in BOOLEAN /\ zero + t <= Longest
        BY <2>1, ExpireAssumption DEF Longest
      <3> HIDE DEF zero, no
      <3> QED  BY <2>1, <3>1, <3>2 DEF ConInv, GoodEntries, Entries
    <2> HIDE DEF n, e
    <2>10. n + 1 \in 1..(Len(pool) + 1)
      BY <1>1, <2>6
    <2>11. pool' \in Seq(GoodEntries(t))
      BY <2>4, <2>8, <2>9, <2>10, InsertedInto
    <2> QED  BY <1>2, <2>5, <2>11 DEF PoolInv
  <1> QED  BY <1>3, <1>4

\* The cleaner keeps young entries only, and comes again for them.
LEMMA CleanConnsPool ==
    ASSUME PoolInv, CleanConns
    PROVE  PoolInv'
  <1> DEFINE later == Expire \div 4 + 1
             t == IF Kept = {} THEN None ELSE later
             G == GoodEntries(later)
  <1>1. /\ due \in Stamps /\ pool \in Seq(GoodEntries(due.conns))
        /\ pool' \in Retained(pool, Kept) /\ due' = [due EXCEPT !.conns = t] /\ UNCHANGED con
    BY DEF CleanConns, PoolInv
  <1>2. later \in Nat /\ (Expire - 1) + later = Longest
    BY ExpireAssumption DEF Longest
  <1> HIDE DEF later
  <1>3. due' \in Stamps /\ due'.conns = t
    BY <1>1, <1>2 DEF Stamps
  <1>4. pool \in Seq(Entries)
    <2>1. GoodEntries(due.conns) \subseteq Entries
      BY DEF GoodEntries
    <2> QED  BY <1>1, <2>1, SeqMonotone
  <1>5. ASSUME NEW m \in Kept PROVE pool[m] \in G
    <2>1. m \in DOMAIN pool /\ pool[m].age < Expire
      BY DEF Kept
    <2>2. pool[m] \in GoodEntries(due.conns)
      BY <1>1, <2>1
    <2>3. pool[m] \in Entries /\ pool[m].peer = pool[m].host /\ pool[m].age \in Nat
      BY <2>2 DEF GoodEntries, Entries
    <2>4. pool[m].age + later <= Longest
      BY <1>2, <2>1, <2>3, ExpireAssumption
    <2> QED  BY <1>2, <2>3, <2>4 DEF GoodEntries
  <1>6. pool' \in Seq(G) /\ (Kept = {} => pool' = <<>>)
    BY <1>1, <1>4, <1>5, RetainedFrom
  <1>7. pool' \in Seq(GoodEntries(t))
    <2>1. CASE Kept = {}
      BY <1>6, <2>1
    <2>2. CASE Kept # {}
      BY <1>6, <2>2
    <2> QED  BY <2>1, <2>2
  <1> QED  BY <1>1, <1>3, <1>7 DEF PoolInv

\* The entries age while the cleaner comes nearer.
LEMMA TickPool ==
    ASSUME PoolInv, Tick
    PROVE  PoolInv'
  <1> DEFINE c == Less(due.conns)
             h == Less(due.hooks)
  <1>1. /\ due \in Stamps /\ pool \in Seq(GoodEntries(due.conns)) /\ due.conns # 0
        /\ UNCHANGED con /\ due' = [due EXCEPT !.conns = c, !.hooks = h]
        /\ pool' = [i \in DOMAIN pool |-> [pool[i] EXCEPT !.age = @ + 1]]
    BY DEF Tick, PoolInv
  <1>2. /\ c \in Nat \cup {None} /\ h \in Nat \cup {None}
        /\ due.conns \in Nat => c \in Nat /\ c = due.conns - 1
    BY <1>1, TimeAssumption DEF Stamps, Less
  <1> HIDE DEF c, h
  <1>3. due' \in Stamps /\ due'.conns = c
    BY <1>1, <1>2 DEF Stamps
  <1>4. ASSUME NEW i \in DOMAIN pool PROVE [pool[i] EXCEPT !.age = @ + 1] \in GoodEntries(c)
    <2>1. pool[i] \in GoodEntries(due.conns)
      BY <1>1
    <2>2. /\ pool[i] \in Entries /\ pool[i].peer = pool[i].host /\ due.conns \in Nat
          /\ pool[i].age + due.conns <= Longest /\ pool[i].age \in Nat
      BY <2>1 DEF GoodEntries, Entries
    <2> DEFINE a == pool[i].age + 1
               e == [pool[i] EXCEPT !.age = a]
    <2>3. a \in Nat /\ a + c <= Longest
      BY <1>2, <2>2, ExpireAssumption DEF Longest
    <2> HIDE DEF a
    <2>4. e \in Entries /\ e.peer = e.host /\ e.age = a
      BY <2>2, <2>3 DEF Entries
    <2>5. e = [pool[i] EXCEPT !.age = @ + 1]
      BY DEF a
    <2> HIDE DEF e
    <2>6. e \in GoodEntries(c)
      BY <1>2, <2>2, <2>3, <2>4 DEF GoodEntries
    <2> QED  BY <2>5, <2>6
  <1>5. Len(pool) \in Nat /\ DOMAIN pool = 1..Len(pool)
    BY <1>1
  <1>6. pool' \in Seq(GoodEntries(c))
    BY <1>1, <1>4, <1>5
  <1> QED  BY <1>1, <1>3, <1>6 DEF PoolInv

\* The peer of a pooled connection closes it.
LEMMA PeerClosesPool ==
    ASSUME PoolInv, NEW i \in 1..PoolMax, PeerCloses(i)
    PROVE  PoolInv'
  <1> DEFINE yes == TRUE
             e == [pool[i] EXCEPT !.closed = yes]
             G == GoodEntries(due.conns)
  <1>1. /\ pool \in Seq(G) /\ i \in DOMAIN pool /\ UNCHANGED <<con, due>>
        /\ pool' = [pool EXCEPT ![i] = e] /\ due \in Stamps
    BY DEF PeerCloses, PoolInv
  <1>2. pool[i] \in G /\ yes \in BOOLEAN
    BY <1>1
  <1> HIDE DEF yes
  <1>3. e \in G
    BY <1>2 DEF GoodEntries, Entries
  <1> HIDE DEF e
  <1>4. pool' \in Seq(G)
    BY <1>1, <1>3
  <1> QED  BY <1>1, <1>4 DEF PoolInv

\* Every step keeps the pool in order, given the types of the connections.
LEMMA PoolInvStep == HookInv /\ PoolInv /\ [Next]_vars => PoolInv'
  <1> SUFFICES ASSUME HookInv, PoolInv, [Next]_vars PROVE PoolInv'
    OBVIOUS
  <1>1. ASSUME NEW u \in Users, NEW h \in Hosts, NEW o \in BOOLEAN, Create(u, h, o)
        PROVE  PoolInv'
    <2> DEFINE c == [Gone EXCEPT !.st = "asking", !.host = h, !.want = h, !.peer = h, !.obs = o]
    <2>1. con' = [con EXCEPT ![u] = c] /\ UNCHANGED <<pool, due>>
      BY <1>1 DEF Create
    <2>2. ConInv(c)
      BY DEF ConInv, Gone
    <2> HIDE DEF c
    <2>3. \A v \in Users : con'[v].st # "idle" => ConInv(con'[v])
      BY <2>1, <2>2, ConsKept
    <2> QED  BY <2>1, <2>3 DEF PoolInv
  <1>2. ASSUME NEW u \in Users, Connected(u) PROVE PoolInv'
    <2> DEFINE c == [con[u] EXCEPT !.st = "using"]
    <2>1. con' = [con EXCEPT ![u] = c] /\ UNCHANGED <<pool, due>>
      BY <1>2 DEF Connected
    <2>2. ConInv(con[u]) /\ con[u] \in Conns({con[u].peer})
      BY <1>2, ConnFields DEF Connected, PoolInv, HookInv
    <2>3. ConInv(c)
      BY <2>2 DEF ConInv, Conns
    <2> HIDE DEF c
    <2>4. \A v \in Users : con'[v].st # "idle" => ConInv(con'[v])
      BY <2>1, <2>3, ConsKept
    <2> QED  BY <2>1, <2>4 DEF PoolInv
  <1>3. ASSUME NEW u \in Users, Drop(u) PROVE PoolInv'
    <2>1. con' = [con EXCEPT ![u] = Gone] /\ Release(con[u].obs, due) /\ UNCHANGED pool
      BY <1>3 DEF Drop
    <2>2. Gone.st = "idle"
      BY DEF Gone
    <2>3. \A v \in Users : con'[v].st # "idle" => ConInv(con'[v])
      BY <2>1, <2>2, ConsKept
    <2>4. due' \in Stamps /\ due'.conns = due.conns
      BY <2>1, ReleaseStamps DEF PoolInv
    <2> QED  BY <2>1, <2>3, <2>4 DEF PoolInv
  <1>4. ASSUME NEW u \in Users, NEW h \in Hosts, StartTunnel(u, h) PROVE PoolInv'
    <2> DEFINE c == [con[u] EXCEPT !.host = h, !.want = h, !.peer = h]
    <2>1. con' = [con EXCEPT ![u] = c] /\ UNCHANGED <<pool, due>>
      BY <1>4, ConnFields DEF StartTunnel, HookInv
    <2>2. con[u] \in Conns({con[u].peer})
      BY ConnFields DEF HookInv
    <2>3. ConInv(c)
      BY <2>2 DEF ConInv, Conns
    <2> HIDE DEF c
    <2>4. \A v \in Users : con'[v].st # "idle" => ConInv(con'[v])
      BY <2>1, <2>3, ConsKept
    <2> QED  BY <2>1, <2>4 DEF PoolInv
  <1>5. CASE CleanHooks
    <2> DEFINE t == IF hook.timer = 0 THEN None ELSE hook.timer
    <2>1. due' = [due EXCEPT !.hooks = t] /\ UNCHANGED <<con, pool>> /\ due \in Stamps
      BY <1>5 DEF CleanHooks, PoolInv
    <2>2. t \in Nat \cup {None}
      BY DEF HookInv, Hooks
    <2> HIDE DEF t
    <2>3. due' \in Stamps /\ due'.conns = due.conns
      BY <2>1, <2>2 DEF Stamps
    <2> QED  BY <2>1, <2>3 DEF PoolInv
  <1>6. CASE UNCHANGED vars
    BY <1>6 DEF vars, PoolInv
  <1> QED
    BY <1>1, <1>2, <1>3, <1>4, <1>5, <1>6, ReusePool, RecyclePool, CleanConnsPool,
       TickPool, PeerClosesPool DEF Next

\* Both invariants hold in every reachable state.
LEMMA PoolInvHolds == Spec => [](HookInv /\ PoolInv)
  BY HookInvInit, HookInvStep, PoolInvInit, PoolInvStep, PTL DEF Spec

\* Whoever has a connection talks to the host that it asked for, for any number of
\* downloaders, hosts and proxies: a pooled connection leads where its key says,
\* and a tunnel takes the name of its target.
THEOREM RightPeerCorrect == Spec => []RightPeer
  <1>1. PoolInv => RightPeer
    BY DEF PoolInv, ConInv, RightPeer
  <1> QED  BY PoolInvHolds, <1>1, PTL

\* No idle connection outlives its time by more than the interval of the cleaner,
\* for any time and any size of the pool: the age of an entry and the time until
\* the cleaner comes never add up to more.
THEOREM IdleEndsCorrect == Spec => []IdleEnds
  <1>1. PoolInv => IdleEnds
    <2> SUFFICES ASSUME PoolInv, NEW i \in DOMAIN pool PROVE pool[i].age <= Longest
      BY DEF IdleEnds, Longest
    <2>1. pool[i] \in GoodEntries(due.conns)
      BY DEF PoolInv
    <2>2. pool[i].age \in Nat /\ due.conns \in Nat /\ pool[i].age + due.conns <= Longest
      BY <2>1 DEF GoodEntries, Entries
    <2> QED  BY <2>2, ExpireAssumption DEF Longest
  <1> QED  BY PoolInvHolds, <1>1, PTL

\* Every variable has its type.
THEOREM TypeCorrect == Spec => []TypeOK
  <1>1. HookInv /\ PoolInv => TypeOK
    <2> SUFFICES ASSUME HookInv, PoolInv PROVE TypeOK
      OBVIOUS
    <2>1. \A u \in Users : con[u].st \in {"idle", "asking", "using"} /\ con[u].obs \in BOOLEAN
      BY ConnFields DEF HookInv, Conns
    <2>2. GoodEntries(due.conns) \subseteq Entries
      BY DEF GoodEntries
    <2>3. pool \in Seq(Entries)
      BY <2>2, SeqMonotone DEF PoolInv
    <2>4. hook.refs \in Nat
      BY DEF HookInv, Hooks
    <2> QED  BY <2>1, <2>3, <2>4 DEF TypeOK, Entries
  <1> QED  BY PoolInvHolds, <1>1, PTL

-----------------------------------------------------------------------------
(* The cleaner                                                             *)

\* The thread sleeps no longer than the earliest stamp.
SleepInv == pc = "waiting" => \A i \in eType : deadline <= stamps[i]

\* Until the thread is made nobody has asked for anything; Stop() unmakes
\* it, but then m_terminating is set for good.
ThreadInv ==
    /\ stopping = "joining" => m_terminating
    /\ ~m_thr => pc \in {"none", "exited"}
    /\ ~m_thr /\ ~m_terminating => \A i \in eType : request[i] = EndOfTime

CleanerInv == CleanerTypeOK /\ RequestCovered /\ SleepInv /\ ThreadInv

-----------------------------------------------------------------------------

\* Moments are natural numbers and none is later than EndOfTime.
LEMMA MomentFacts ==
    /\ Moments \subseteq Nat
    /\ \A m \in Moments : m <= EndOfTime
    /\ EndOfTime \in Moments
    /\ Clock \subseteq Moments
  BY CleanerAssumption DEF Moments

\* The earlier of two moments is one of them.
LEMMA LowerFacts ==
    ASSUME NEW a \in Moments, NEW b \in Moments
    PROVE  /\ Lower(a, b) \in Moments
           /\ Lower(a, b) <= a /\ Lower(a, b) <= b
           /\ Lower(a, b) = a \/ Lower(a, b) = b
  BY MomentFacts DEF Lower

\* Empty stamps.
LEMMA FilledFacts ==
    /\ Filled \in [eType -> Moments]
    /\ \A i \in eType : Filled[i] = EndOfTime
  BY MomentFacts DEF Filled

\* The merged stamps are not later than what they were merged from.
LEMMA PlaybackFacts ==
    ASSUME CleanerTypeOK
    PROVE  /\ Playback \in [eType -> Moments]
           /\ \A i \in eType : Playback[i] <= snapshot[i] /\ Playback[i] <= stamps[i]
  <1>1. \A i \in eType : snapshot[i] \in Moments /\ stamps[i] \in Moments
    BY DEF CleanerTypeOK
  <1> QED  BY <1>1, LowerFacts DEF Playback, Merged

\* What a request does to the history variable.
LEMMA AskedFacts ==
    ASSUME CleanerTypeOK, NEW when \in Clock, NEW what \in eType
    PROVE  /\ Asked(when, what) \in [eType -> Moments]
           /\ Asked(when, what)[what] = Lower(request[what], when)
           /\ \A i \in eType \ {what} : Asked(when, what)[i] = request[i]
  <1>1. Lower(request[what], when) \in Moments
    BY LowerFacts, MomentFacts DEF CleanerTypeOK
  <1> QED  BY <1>1 DEF CleanerTypeOK, Asked

\* Nobody has asked for anything yet.
LEMMA InitCleaner == CleanerInit => CleanerInv
  <1> SUFFICES ASSUME CleanerInit PROVE CleanerInv
    OBVIOUS
  <1>0. /\ stamps = Filled /\ snapshot = Filled /\ passNow = now /\ now \in Clock
        /\ request = [i \in eType |-> EndOfTime]
        /\ pc = "none" /\ cur = 1 /\ deadline = 0 /\ stopping = "no"
        /\ in_shutdown = FALSE /\ m_terminating = FALSE /\ m_thr = FALSE
    BY DEF CleanerInit
  <1>1. request \in [eType -> Moments] /\ \A i \in eType : request[i] = EndOfTime
    BY <1>0, MomentFacts
  <1>2. cur \in 1..(ETYPE_MAX + 1)
    BY <1>0, CleanerAssumption
  <1>3. CleanerTypeOK
    BY <1>0, <1>1, <1>2, FilledFacts DEF CleanerTypeOK
  <1>4. RequestCovered
    BY <1>0, <1>1, FilledFacts, CleanerAssumption DEF RequestCovered
  <1>5. SleepInv /\ ThreadInv
    BY <1>0, <1>1 DEF SleepInv, ThreadInv
  <1> QED  BY <1>3, <1>4, <1>5 DEF CleanerInv

-----------------------------------------------------------------------------

\* Requests: the only steps that make the history variable smaller.
LEMMA ScheduleCleaner ==
    ASSUME CleanerInv, NEW when \in Clock, NEW what \in eType,
           \/ ScheduleFirst(when, what)
           \/ ScheduleEarlier(when, what)
           \/ ScheduleCovered(when, what)
    PROVE  CleanerInv'
  <1>0. /\ CleanerTypeOK /\ RequestCovered /\ SleepInv /\ ThreadInv
        /\ \A i \in eType : /\ stamps[i] \in Nat /\ snapshot[i] \in Nat
                            /\ request[i] \in Nat /\ request[i] <= EndOfTime
        /\ when \in Nat /\ when < EndOfTime /\ EndOfTime \in Nat
        /\ when \in Moments /\ deadline \in Nat
    BY MomentFacts, CleanerAssumption DEF CleanerInv, CleanerTypeOK
  <1>a. /\ Asked(when, what) \in [eType -> Moments]
        /\ Asked(when, what)[what] = Lower(request[what], when)
        /\ \A i \in eType \ {what} : Asked(when, what)[i] = request[i]
    BY <1>0, AskedFacts
  <1>1. CASE ScheduleFirst(when, what)
    <2>1. /\ ~in_shutdown /\ ~m_thr /\ m_thr' = TRUE /\ pc' = "top"
          /\ stamps' = [Filled EXCEPT ![what] = when]
          /\ request' = Asked(when, what)
          /\ UNCHANGED <<now, in_shutdown, m_terminating, cur, snapshot,
                         passNow, deadline, stopping>>
      BY <1>1 DEF ScheduleFirst
    <2>2. /\ stamps' \in [eType -> Moments]
          /\ stamps'[what] = when
          /\ \A i \in eType \ {what} : stamps'[i] = EndOfTime
      BY <1>0, <2>1, FilledFacts
    <2>3. CleanerTypeOK'
      BY <1>0, <1>a, <2>1, <2>2 DEF CleanerTypeOK
    <2>4. RequestCovered'
      <3> SUFFICES ASSUME ~m_terminating, NEW i \in eType
                   PROVE  stamps'[i] <= request'[i]
        BY <2>1 DEF RequestCovered, Ended
      <3>1. request[i] = EndOfTime /\ request[what] = EndOfTime
        BY <1>0, <2>1 DEF ThreadInv
      <3>2. CASE i = what
        BY <1>0, <1>a, <2>1, <2>2, <3>1, <3>2 DEF Lower
      <3>3. CASE i # what
        BY <1>0, <1>a, <2>1, <2>2, <3>1, <3>3
      <3> QED  BY <3>2, <3>3
    <2>5. SleepInv' /\ ThreadInv'
      BY <1>0, <2>1 DEF SleepInv, ThreadInv
    <2> QED  BY <2>3, <2>4, <2>5 DEF CleanerInv
  <1>2. CASE ScheduleEarlier(when, what)
    <2>1. /\ m_thr /\ when <= stamps[what]
          /\ stamps' = [stamps EXCEPT ![what] = when]
          /\ pc' = Notified(pc)
          /\ request' = Asked(when, what)
          /\ UNCHANGED <<now, in_shutdown, m_terminating, m_thr, cur, snapshot,
                         passNow, deadline, stopping>>
      BY <1>2 DEF ScheduleEarlier
    <2>2. /\ stamps' \in [eType -> Moments]
          /\ stamps'[what] = when
          /\ \A i \in eType \ {what} : stamps'[i] = stamps[i]
      BY <1>0, <2>1 DEF CleanerTypeOK
    <2>3. CleanerTypeOK'
      BY <1>0, <1>a, <2>1, <2>2 DEF CleanerTypeOK, Notified
    <2>4. RequestCovered'
      <3> SUFFICES ASSUME ~Ended, NEW i \in eType
                   PROVE  \/ stamps'[i] <= request'[i]
                          \/ pc' = "tasks" /\ snapshot'[i] <= request'[i]
        BY <2>1 DEF RequestCovered, Ended
      <3>1. \/ stamps[i] <= request[i]
            \/ pc' = "tasks" /\ snapshot'[i] <= request[i]
        BY <1>0, <2>1 DEF RequestCovered, Notified
      <3>2. CASE i = what
        BY <1>0, <1>a, <2>1, <2>2, <3>1, <3>2 DEF Lower
      <3>3. CASE i # what
        BY <1>0, <1>a, <2>1, <2>2, <3>1, <3>3
      <3> QED  BY <3>2, <3>3
    <2>5. SleepInv' /\ ThreadInv'
      BY <1>0, <2>1 DEF SleepInv, ThreadInv, Notified
    <2> QED  BY <2>3, <2>4, <2>5 DEF CleanerInv
  <1>3. CASE ScheduleCovered(when, what)
    <2>1. /\ m_thr /\ when > stamps[what]
          /\ request' = Asked(when, what)
          /\ UNCHANGED <<now, in_shutdown, m_terminating, m_thr, stamps, pc,
                         cur, snapshot, passNow, deadline, stopping>>
      BY <1>3 DEF ScheduleCovered, thrvars
    <2>2. CleanerTypeOK'
      BY <1>0, <1>a, <2>1 DEF CleanerTypeOK
    <2>3. RequestCovered'
      <3> SUFFICES ASSUME ~Ended, NEW i \in eType
                   PROVE  \/ stamps[i] <= request'[i]
                          \/ pc = "tasks" /\ snapshot[i] <= request'[i]
        BY <2>1 DEF RequestCovered, Ended
      <3>1. CASE i = what
        BY <1>0, <1>a, <2>1, <3>1 DEF Lower, RequestCovered
      <3>2. CASE i # what
        BY <1>0, <1>a, <2>1, <3>2 DEF RequestCovered
      <3> QED  BY <3>1, <3>2
    <2>4. SleepInv' /\ ThreadInv'
      BY <1>0, <2>1 DEF SleepInv, ThreadInv
    <2> QED  BY <2>2, <2>3, <2>4 DEF CleanerInv
  <1> QED  BY <1>1, <1>2, <1>3

\* The thread that runs a pass.
LEMMA PassCleaner ==
    ASSUME CleanerInv,
           LoopSnapshot \/ (\E next \in Moments : TaskRun(next))
             \/ LoopAgain \/ LoopWait
    PROVE  CleanerInv'
  <1>0. /\ CleanerTypeOK /\ RequestCovered /\ SleepInv /\ ThreadInv
        /\ \A i \in eType : /\ stamps[i] \in Nat /\ snapshot[i] \in Nat
                            /\ request[i] \in Nat
        /\ now \in Nat /\ EndOfTime \in Nat /\ MaxWait \in Nat /\ ETYPE_MAX \in Nat
    BY MomentFacts, CleanerAssumption DEF CleanerInv, CleanerTypeOK
  <1>1. CASE LoopSnapshot
    <2>1. /\ pc = "snapshot" /\ pc' = "tasks" /\ cur' = 1
          /\ snapshot' = stamps /\ stamps' = Filled
          /\ UNCHANGED <<now, in_shutdown, m_terminating, m_thr, passNow,
                         deadline, stopping, request>>
      BY <1>1 DEF LoopSnapshot
    <2>2. cur' \in 1..(ETYPE_MAX + 1)
      BY <1>0, <2>1
    <2>3. CleanerTypeOK'
      BY <1>0, <2>1, <2>2, FilledFacts DEF CleanerTypeOK
    <2>4. RequestCovered'
      BY <1>0, <2>1 DEF RequestCovered, Ended
    <2>5. SleepInv' /\ ThreadInv'
      BY <1>0, <2>1 DEF SleepInv, ThreadInv
    <2> QED  BY <2>3, <2>4, <2>5 DEF CleanerInv
  <1>2. CASE \E next \in Moments : TaskRun(next)
    <2>1. PICK next \in Moments : TaskRun(next)
      BY <1>2
    <2>2. /\ pc = "tasks" /\ cur \in eType /\ cur' = cur + 1 /\ ~EndNoticed
          /\ snapshot' = [snapshot EXCEPT ![cur] = next]
          /\ request' = [request EXCEPT ![cur] = next]
          /\ UNCHANGED <<now, in_shutdown, m_terminating, m_thr, stamps, pc,
                         passNow, deadline, stopping>>
      BY <2>1 DEF TaskRun
    <2>3. /\ snapshot' \in [eType -> Moments] /\ request' \in [eType -> Moments]
          /\ snapshot'[cur] = next /\ request'[cur] = next
          /\ \A i \in eType \ {cur} : /\ snapshot'[i] = snapshot[i]
                                      /\ request'[i] = request[i]
          /\ next \in Nat
      BY <1>0, <2>2, MomentFacts DEF CleanerTypeOK
    <2>4. cur' \in 1..(ETYPE_MAX + 1)
      BY <1>0, <2>2 DEF eType
    <2>5. CleanerTypeOK'
      BY <1>0, <2>2, <2>3, <2>4 DEF CleanerTypeOK
    <2>6. RequestCovered'
      <3> SUFFICES ASSUME ~Ended, NEW i \in eType
                   PROVE  \/ stamps[i] <= request'[i]
                          \/ pc = "tasks" /\ snapshot'[i] <= request'[i]
        BY <2>2 DEF RequestCovered, Ended
      <3>1. CASE i = cur
        BY <2>2, <2>3, <3>1
      <3>2. CASE i # cur
        BY <1>0, <2>2, <2>3, <3>2 DEF RequestCovered
      <3> QED  BY <3>1, <3>2
    <2>7. SleepInv'
      BY <2>2 DEF SleepInv
    <2>8. ThreadInv'
      BY <1>0, <2>2 DEF ThreadInv
    <2> QED  BY <2>5, <2>6, <2>7, <2>8 DEF CleanerInv
  <1>3. ASSUME stamps' = Playback, pc = "tasks", pc' \in {"top", "waiting"},
               deadline' \in Nat,
               pc' = "waiting" => \A i \in eType : deadline' <= Playback[i],
               UNCHANGED <<now, in_shutdown, m_terminating, m_thr, cur,
                           snapshot, passNow, stopping, request>>
        PROVE  CleanerInv'
    <2>1. /\ Playback \in [eType -> Moments]
          /\ \A i \in eType : /\ Playback[i] <= snapshot[i]
                              /\ Playback[i] <= stamps[i]
                              /\ Playback[i] \in Nat
      BY <1>0, PlaybackFacts, MomentFacts
    <2>2. CleanerTypeOK'
      BY <1>0, <1>3, <2>1 DEF CleanerTypeOK
    <2>3. RequestCovered'
      <3> SUFFICES ASSUME ~Ended, NEW i \in eType
                   PROVE  Playback[i] <= request[i]
        BY <1>3 DEF RequestCovered, Ended
      <3>1. stamps[i] <= request[i] \/ snapshot[i] <= request[i]
        BY <1>0 DEF RequestCovered
      <3> QED  BY <1>0, <2>1, <3>1
    <2>4. SleepInv'
      BY <1>3 DEF SleepInv
    <2>5. ThreadInv'
      BY <1>0, <1>3 DEF ThreadInv
    <2> QED  BY <2>2, <2>3, <2>4, <2>5 DEF CleanerInv
  <1>4. CASE LoopAgain
    <2>1. deadline \in Nat
      BY <1>0 DEF CleanerTypeOK
    <2> QED  BY <1>3, <1>4, <2>1 DEF LoopAgain
  <1>5. CASE LoopWait
    <2>1. deadline' \in Nat
      <3>1. deadline' \in Moments \cup {now + MaxWait}
        BY <1>5 DEF LoopWait
      <3>2. now \in Nat /\ MaxWait \in Nat /\ Moments \subseteq Nat
        BY <1>0, MomentFacts, CleanerAssumption DEF CleanerTypeOK
      <3>3. now + MaxWait \in Nat
        BY <3>2
      <3> QED  BY <3>1, <3>2, <3>3
    <2> QED  BY <1>3, <1>5, <2>1 DEF LoopWait
  <1> QED  BY <1>1, <1>2, <1>4, <1>5

\* Every other step leaves stamps, snapshot and history alone.
LEMMA QuietCleaner ==
    ASSUME CleanerInv,
           \/ LoopEnd \/ LoopTime \/ TaskNotDue \/ TaskEnd \/ WaitTimeout
           \/ SpuriousWakeup \/ StopCall \/ StopNothing \/ StopJoin
           \/ SignalShutdown \/ CleanerTick \/ UNCHANGED cleanerVars
    PROVE  CleanerInv'
  <1>0. /\ CleanerTypeOK /\ RequestCovered /\ SleepInv /\ ThreadInv
        /\ ETYPE_MAX \in Nat
    BY CleanerAssumption DEF CleanerInv
  <1>1. UNCHANGED <<stamps, snapshot, deadline, request>>
    BY DEF LoopEnd, LoopTime, TaskNotDue, TaskEnd, WaitTimeout, SpuriousWakeup,
           StopCall, StopNothing, StopJoin, SignalShutdown, CleanerTick, cleanerVars, thrvars
  <1>2. \/ UNCHANGED pc
        \/ pc \in {"top", "tasks"} /\ pc' = "exited" /\ Ended
        \/ pc = "top" /\ pc' = "snapshot"
        \/ pc = "waiting" /\ pc' = "top"
    BY DEF LoopEnd, LoopTime, TaskNotDue, TaskEnd, WaitTimeout, SpuriousWakeup,
           StopCall, StopNothing, StopJoin, SignalShutdown, CleanerTick, cleanerVars, thrvars,
           Notified, EndNoticed, Ended
  <1>3. /\ now' \in Clock /\ passNow' \in Clock
        /\ in_shutdown' \in BOOLEAN /\ m_terminating' \in BOOLEAN
        /\ m_thr' \in BOOLEAN /\ stopping' \in {"no", "joining", "done"}
    BY <1>0 DEF CleanerTypeOK, LoopEnd, LoopTime, TaskNotDue, TaskEnd, WaitTimeout,
           SpuriousWakeup, StopCall, StopNothing, StopJoin, SignalShutdown,
           CleanerTick, cleanerVars, thrvars
  <1>4. cur' \in 1..(ETYPE_MAX + 1)
    <2>1. CASE TaskNotDue
      BY <1>0, <2>1 DEF TaskNotDue, eType
    <2>2. CASE ~TaskNotDue
      BY <1>0, <2>2 DEF CleanerTypeOK, LoopEnd, LoopTime, TaskEnd, WaitTimeout,
           SpuriousWakeup, StopCall, StopNothing, StopJoin, SignalShutdown,
           CleanerTick, cleanerVars, thrvars
    <2> QED  BY <2>1, <2>2
  <1>5. CleanerTypeOK'
    BY <1>0, <1>1, <1>2, <1>3, <1>4 DEF CleanerTypeOK
  <1>6. Ended => Ended'
    BY DEF Ended, LoopEnd, LoopTime, TaskNotDue, TaskEnd, WaitTimeout,
           SpuriousWakeup, StopCall, StopNothing, StopJoin, SignalShutdown,
           CleanerTick, cleanerVars, thrvars
  <1>7. RequestCovered'
    BY <1>0, <1>1, <1>2, <1>6 DEF RequestCovered
  <1>8. SleepInv'
    BY <1>0, <1>1, <1>2 DEF SleepInv
  <1>9. ThreadInv'
    <2>1. stopping' = "joining" => m_terminating'
      BY <1>0 DEF ThreadInv, LoopEnd, LoopTime, TaskNotDue, TaskEnd, WaitTimeout,
           SpuriousWakeup, StopCall, StopNothing, StopJoin, SignalShutdown,
           CleanerTick, cleanerVars, thrvars
    <2>2. CASE StopJoin
      BY <1>0, <1>1, <1>2, <2>1, <2>2 DEF ThreadInv, StopJoin, thrvars
    <2>3. CASE ~StopJoin
      <3>1. m_thr' = m_thr /\ (m_terminating => m_terminating')
        BY <2>3 DEF LoopEnd, LoopTime, TaskNotDue, TaskEnd, WaitTimeout,
           SpuriousWakeup, StopCall, StopNothing, SignalShutdown,
           CleanerTick, cleanerVars, thrvars
      <3> QED  BY <1>0, <1>1, <1>2, <2>1, <3>1 DEF ThreadInv
    <2> QED  BY <2>2, <2>3
  <1> QED  BY <1>5, <1>7, <1>8, <1>9 DEF CleanerInv

-----------------------------------------------------------------------------

\* The invariant of the cleaner is inductive.
LEMMA CleanerInductive == CleanerSpec => []CleanerInv
  <1>1. CleanerInv /\ [CleanerNext]_cleanerVars => CleanerInv'
    BY ScheduleCleaner, PassCleaner, QuietCleaner DEF CleanerNext, WorkLoop
  <1> QED  BY <1>1, InitCleaner, PTL DEF CleanerSpec

\* Every variable of the cleaner holds what its declaration allows.
THEOREM CleanerTypeCorrect == CleanerSpec => []CleanerTypeOK
  BY CleanerInductive, PTL DEF CleanerInv

\* No request for a callback is forgotten, whenever it comes.
THEOREM RequestsCovered == CleanerSpec => []RequestCovered
  BY CleanerInductive, PTL DEF CleanerInv

\* The thread's sleep never ends after a request is due.
THEOREM SleepEndsInTime == CleanerSpec => []WakesInTime
  <1>1. CleanerInv => WakesInTime
    <2> SUFFICES ASSUME CleanerInv, pc = "waiting", ~Ended, NEW i \in eType
                 PROVE  deadline <= request[i]
      BY DEF WakesInTime
    <2>1. deadline <= stamps[i] /\ stamps[i] <= request[i]
      BY DEF CleanerInv, SleepInv, RequestCovered
    <2>2. deadline \in Nat /\ stamps[i] \in Nat /\ request[i] \in Nat
      BY MomentFacts DEF CleanerInv, CleanerTypeOK
    <2> QED  BY <2>1, <2>2
  <1> QED  BY <1>1, CleanerInductive, PTL
=============================================================================
